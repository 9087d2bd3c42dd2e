------------------------------ MODULE MCAccess ------------------------------
(***************************************************************************)
(* Small instances of Access for TLC.                                      *)
(***************************************************************************)
EXTENDS Access

AllTokens == RouteTokens \cup {"api", "docs", "x"}

Root == <<"/">>

Api == <<"/", "api">>

Me == <<"/", "api", "/", "auth", "/", "me">>

Docs == <<"/", "api", "/", "docs">>

(* The last shares its beginning with the rule for Api, but no segment.    *)
SomePaths == {Root, Docs, <<"/", "api", "x">>}

SomeRules ==
    [type: {"exact", "prefix"}, path: {<<>>, Root, Api, Docs, Me}, access: {"public", "private"}]
    \cup {[type |-> "other", path |-> Docs, access |-> "public"]}

Routed(base) == {base \o route : route \in PublicRoutes \cup ProtectedRoutes}

SomeRequests == SomePaths \cup Routed(<<"/", "api", "/", "auth">>) \cup Routed(<<"/", "auth">>)

UpTo2(S) == {<<>>} \cup {<<s>> : s \in S} \cup {<<s, t>> : s \in S, t \in S}

OldPaths == {<<>>, <<[type |-> "prefix", path |-> Root]>>, <<[type |-> "exact", path |-> Docs]>>}

(* Every list of up to two rules, behind up to one public path.            *)
SomeConfigurations ==
    [base: {<<"/", "api", "/", "auth">>}, publicPaths: OldPaths, pathRules: UpTo2(SomeRules),
     EnableTFA: {TRUE}, Required: {TRUE}, EnableRegistration: {FALSE}]

(* The modes, with few rules and the default base URL.                     *)
Modes ==
    [base: {<<>>}, publicPaths: {<<>>},
     pathRules: UpTo2([type: {"prefix"}, path: {Root, Docs}, access: {"public", "private"}]),
     EnableTFA: BOOLEAN, Required: BOOLEAN, EnableRegistration: BOOLEAN]

AllConfigurations == SomeConfigurations \cup Modes

(* A base URL with a slash at its end.                                     *)
TrailingSlash ==
    [base: {<<"/", "auth", "/">>}, publicPaths: {<<>>}, pathRules: {<<>>},
     EnableTFA: {FALSE}, Required: {FALSE}, EnableRegistration: {TRUE}]

=============================================================================
