------------------------------- MODULE Access -------------------------------
(***************************************************************************)
(* RequireAuth: which requests reach their handler, and with which user.   *)
(* One request at a time passes the middleware, under settings fixed when  *)
(* the server starts; beside it the account behind its session cookie may  *)
(* enrol, unenrol or be deleted at any moment.                             *)
(*                                                                         *)
(* A path is a sequence of tokens, "/" among them.  The rules that match   *)
(* one request path are prefixes of it, so their lengths in tokens compare *)
(* as their lengths in bytes do.                                           *)
(***************************************************************************)
EXTENDS Integers, Sequences, SequencesExt

CONSTANTS
    Tokens,          \* what paths are made of
    Configurations,  \* the settings the server may be started with
    Paths,           \* the paths clients ask for
    AppPaths         \* those that are the application's own routes

RouteTokens == {"/", "auth", "register", "login", "logout", "me",
                "tfa", "verify", "setup", "enable", "disable"}

Path == Seq(Tokens)

PathRule == [type: {"exact", "prefix", "other"}, path: Path, access: {"public", "private"}]

PublicPath == [type: {"exact", "prefix", "other"}, path: Path]

Settings == [base: Path, publicPaths: Seq(PublicPath), pathRules: Seq(PathRule),
             EnableTFA: BOOLEAN, Required: BOOLEAN, EnableRegistration: BOOLEAN]

ASSUME AccessConstants ==
    /\ RouteTokens \subseteq Tokens
    /\ Configurations \subseteq Settings
    /\ Paths \subseteq Path
    /\ AppPaths \subseteq Paths

VARIABLES
    settings,  \* Options and Settings
    account,   \* the user behind the session cookie, as stored
    req,       \* the request in the middleware, or the last one
    status     \* what it was answered (0: nothing yet)

vars == <<settings, account, req, status>>

(* An account that is gone, one without and one with TOTPEnabled.          *)
Account == {"gone", "plain", "enrolled"}

Request == [pc: {"rules", "load", "next", "done"}, path: Path, cookie: BOOLEAN,
            scanned: Nat, best: Nat, user: {"nobody", "plain", "enrolled"}]

NewRequest(pc, path, cookie) ==
    [pc |-> pc, path |-> path, cookie |-> cookie, scanned |-> 0, best |-> 0, user |-> "nobody"]

----------------------------------------------------------------------------
(* The two views of the authentication routes.                             *)

BaseUrl == IF settings.base = <<>> THEN <<"/", "auth">> ELSE settings.base

PublicRoutes == {<<"/", "register">>, <<"/", "login">>, <<"/", "logout">>,
                 <<"/", "tfa", "/", "verify">>}

EnrolRoutes == {<<"/", "me">>, <<"/", "tfa", "/", "setup">>, <<"/", "tfa", "/", "enable">>}

ProtectedRoutes == EnrolRoutes \cup {<<"/", "tfa", "/", "disable">>}

(* The middleware's: the base URL as configured, then the route.           *)
Hardcoded(routes) == {BaseUrl \o route : route \in routes}

(* The router's: gin joins group and route with path.Join, which drops     *)
(* empty segments and starts with "/".                                     *)
Cleaned(path) ==
    LET segments == SelectSeq(path, LAMBDA token : token # "/")
    IN  [i \in 1..2 * Len(segments) |-> IF i % 2 = 1 THEN "/" ELSE segments[i \div 2]]

Mounted(routes) == {Cleaned(BaseUrl \o route) : route \in routes}

Routes ==
    {route \in PublicRoutes \cup ProtectedRoutes :
        /\ route = <<"/", "register">> => settings.EnableRegistration
        /\ route[2] = "tfa" => settings.EnableTFA}

----------------------------------------------------------------------------
(* findLongestMatchingRule                                                 *)

(* PublicPaths come first, as public rules.                                *)
AllRules ==
    [i \in 1..Len(settings.publicPaths) |->
        [type |-> settings.publicPaths[i].type, path |-> settings.publicPaths[i].path,
         access |-> "public"]] \o settings.pathRules

ruleMatches(path, rule) ==
    \/ rule.type = "exact" /\ path = rule.path
    \/ rule.type = "prefix" /\ IsPrefix(rule.path, path)

LongestLength(best) == IF best = 0 THEN 0 ELSE Len(AllRules[best].path)

(* Faulty variant for mutation: of two equally long rules the last wins.   *)
AtLeastAsLong(rule, best) == Len(rule.path) > 0 /\ Len(rule.path) >= LongestLength(best)

Longer(rule, best) == Len(rule.path) > LongestLength(best)

(* Faulty variant for mutation: the index is off by one.                   *)
AfterMatched(i) == i + 1

Matched(i) == i

----------------------------------------------------------------------------
(* The middleware, one action per stretch between two observable points.   *)

Init ==
    /\ settings \in Configurations
    /\ account \in Account
    /\ req = NewRequest("done", <<>>, FALSE)
    /\ status = 0

(* Faulty variant for mutation: the rules may close or open every route.   *)
OnlyRules(path) == "rules"

FirstCheck(path) ==
    IF path \in Hardcoded(PublicRoutes) THEN "next"
    ELSE IF path \in Hardcoded(ProtectedRoutes) THEN "load"
    ELSE "rules"

Receive(path, cookie) ==
    /\ req.pc = "done"
    /\ req' = NewRequest(FirstCheck(path), path, cookie)
    /\ status' = 0
    /\ UNCHANGED <<settings, account>>

(* One round of the loop over the rules.                                   *)
TryRule ==
    LET i == req.scanned + 1
    IN  /\ req.pc = "rules"
        /\ i <= Len(AllRules)
        /\ req' = [req EXCEPT
                     !.scanned = i,
                     !.best = IF /\ ruleMatches(req.path, AllRules[i])
                                 /\ Longer(AllRules[i], req.best)
                              THEN Matched(i) ELSE req.best]
        /\ UNCHANGED <<settings, account, status>>

(* Faulty variant for mutation: a path without a rule is let through.      *)
OpenByDefault(best) == best = 0 \/ AllRules[best].access = "public"

IsPublic(best) == best # 0 /\ AllRules[best].access = "public"

Decide ==
    /\ req.pc = "rules"
    /\ req.scanned = Len(AllRules)
    /\ req' = [req EXCEPT !.pc = IF IsPublic(req.best) THEN "next" ELSE "load"]
    /\ UNCHANGED <<settings, account, status>>

Answer(code) == req' = [req EXCEPT !.pc = "done"] /\ status' = code

(* Faulty variant for mutation: the way to enrolment is closed, too.       *)
NoWayIn(user, path) ==
    settings.EnableTFA /\ settings.Required /\ user # "enrolled"

MustEnrolFirst(user, path) ==
    /\ settings.EnableTFA /\ settings.Required
    /\ user # "enrolled"
    /\ path \notin Hardcoded(EnrolRoutes)

(* getUserFromSession, and the demand to enrol.                            *)
LoadUser ==
    /\ req.pc = "load"
    /\ \/ /\ ~req.cookie \/ account = "gone"
          /\ Answer(401)
       \/ /\ req.cookie /\ account # "gone"
          /\ \/ MustEnrolFirst(account, req.path) /\ Answer(403)
             \/ /\ ~MustEnrolFirst(account, req.path)
                /\ req' = [req EXCEPT !.pc = "next", !.user = account]
                /\ UNCHANGED status
    /\ UNCHANGED <<settings, account>>

(* The storage answers with an error.                                      *)
LoadFails ==
    /\ req.pc = "load" /\ req.cookie
    /\ Answer(401)
    /\ UNCHANGED <<settings, account>>

(* The router's handler.  Those of the protected routes take the user from *)
(* the context and answer 401 without one.                                 *)
Served(path, user) ==
    IF path \notin AppPaths \cup Mounted(Routes) THEN 404
    ELSE IF path \in Mounted(ProtectedRoutes) /\ user = "nobody" THEN 401
    ELSE 200

(* c.Next()                                                                *)
Serve ==
    /\ req.pc = "next"
    /\ Answer(Served(req.path, req.user))
    /\ UNCHANGED <<settings, account>>

(* Another request enrols or unenrols the user, or the account is deleted. *)
AccountChanges(to) ==
    /\ account # "gone"
    /\ account' = to
    /\ UNCHANGED <<settings, req, status>>

Next ==
    \/ \E path \in Paths, cookie \in BOOLEAN : Receive(path, cookie)
    \/ TryRule
    \/ Decide
    \/ LoadUser
    \/ LoadFails
    \/ Serve
    \/ \E to \in Account : AccountChanges(to)

Spec == Init /\ [][Next]_vars

----------------------------------------------------------------------------

TypeOK ==
    /\ settings \in Configurations
    /\ account \in Account
    /\ req \in Request
    /\ req.scanned \in 0..Len(AllRules)
    /\ req.best \in 0..req.scanned
    /\ status \in {0, 200, 401, 403, 404}

(* The rule that ought to decide about a path: of the matching ones with a *)
(* path at all the longest, and the earliest of those.                     *)
Decides(i, path) ==
    LET candidates == {j \in DOMAIN AllRules : /\ ruleMatches(path, AllRules[j])
                                               /\ AllRules[j].path # <<>>}
    IN  /\ i \in candidates
        /\ \A j \in candidates \ {i} :
              \/ Len(AllRules[j].path) < Len(AllRules[i].path)
              \/ Len(AllRules[j].path) = Len(AllRules[i].path) /\ i < j

OtherPath(path) == path \notin Hardcoded(PublicRoutes \cup ProtectedRoutes)

(* Beyond the authentication routes, a request goes on without a user      *)
(* exactly if the longest matching rule is public: whatever the order of   *)
(* the rules, the public paths before them and rules of unknown type.      *)
LongestRuleDecides ==
    req.pc \in {"load", "next"} /\ OtherPath(req.path) =>
        (req.pc = "next" /\ req.user = "nobody" <=>
            \E i \in DOMAIN AllRules : Decides(i, req.path) /\ AllRules[i].access = "public")

(* In enforced mode no handler meets a user who has not enrolled, except   *)
(* where the user enrols, and nobody is sent away from there to enrol      *)
(* first, nor from the public routes.                                      *)
EnforcedMode ==
    settings.EnableTFA /\ settings.Required =>
        /\ req.pc = "next" /\ req.user = "plain" => req.path \in Mounted(EnrolRoutes)
        /\ status = 403 => req.path \notin Mounted(EnrolRoutes \cup PublicRoutes)

(* "Register, login, TFA verify and logout are always public": no rule and *)
(* no mode refuses them, and a register that is disabled is a plain 404.   *)
AlwaysPublic ==
    req.path \in Mounted(PublicRoutes) => status \in {0, 200, 404}

(* "Me and the TFA management endpoints are always protected": no rule     *)
(* leads past the session, so a handler there never misses its user.       *)
AlwaysProtected ==
    req.pc = "next" /\ req.path \in Mounted(ProtectedRoutes) => req.user # "nobody"

(* "It applies the access control from that rule": a path for which only a *)
(* public rule matches needs no session.                                   *)
OnlyMatchDecides ==
    req.pc = "load" /\ OtherPath(req.path) =>
        \A i \in DOMAIN AllRules :
            /\ ruleMatches(req.path, AllRules[i])
            /\ \A j \in DOMAIN AllRules \ {i} : ~ruleMatches(req.path, AllRules[j])
            => AllRules[i].access = "private"

=============================================================================
