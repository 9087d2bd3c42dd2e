---------------------------- MODULE AccessProofs ----------------------------
(***************************************************************************)
(* The scan over the rules finds the longest matching rule, for every list *)
(* of rules and every path, and no rule reaches an authentication route.   *)
(***************************************************************************)
EXTENDS Access, SequenceTheorems, TLAPS

(* The rules a path may be decided by, among the first n.                  *)
Candidates(n, path) ==
    {j \in 1..n : ruleMatches(path, AllRules[j]) /\ AllRules[j].path # <<>>}

(* What the loop knows after n rules: best is the longest of the rules     *)
(* seen, the earliest of equally long ones, or there was none.             *)
BestOf(best, n, path) ==
    /\ best = 0 => Candidates(n, path) = {}
    /\ best # 0 =>
          /\ best \in Candidates(n, path)
          /\ \A j \in Candidates(n, path) \ {best} :
                \/ Len(AllRules[j].path) < Len(AllRules[best].path)
                \/ Len(AllRules[j].path) = Len(AllRules[best].path) /\ best < j

(* LongestRuleDecides speaks of the end of the scan only.                  *)
Scanned ==
    req.pc = "rules" => OtherPath(req.path) /\ BestOf(req.best, req.scanned, req.path)

Quiet == req.pc \in {"rules", "load"} => req.user = "nobody"

AccessInv == TypeOK /\ Scanned /\ Quiet /\ LongestRuleDecides

----------------------------------------------------------------------------

LEMMA RulesType ==
    ASSUME settings \in Configurations
    PROVE  /\ AllRules \in Seq(PathRule)
           /\ Len(AllRules) \in Nat
           /\ DOMAIN AllRules = 1..Len(AllRules)
           /\ \A i \in 1..Len(AllRules) : AllRules[i].path \in Path
<1>1. settings \in Settings
  BY AccessConstants
<1>2. settings.publicPaths \in Seq(PublicPath) /\ settings.pathRules \in Seq(PathRule)
  BY <1>1 DEF Settings
<1> DEFINE old == [i \in 1..Len(settings.publicPaths) |->
                     [type |-> settings.publicPaths[i].type, path |-> settings.publicPaths[i].path,
                      access |-> "public"]]
<1>3. old \in Seq(PathRule)
  <2>1. \A i \in 1..Len(settings.publicPaths) : settings.publicPaths[i] \in PublicPath
    BY <1>2
  <2>2. \A i \in 1..Len(settings.publicPaths) : old[i] \in PathRule
    BY <2>1 DEF PublicPath, PathRule
  <2>3. Len(settings.publicPaths) \in Nat
    BY <1>2
  <2>4. old \in [1..Len(settings.publicPaths) -> PathRule]
    BY <2>2
  <2> HIDE DEF old
  <2> QED
    BY ONLY <2>3, <2>4, SeqDef
<1>4. AllRules \in Seq(PathRule)
  BY <1>2, <1>3 DEF AllRules
<1> HIDE DEF old
<1>5. Len(AllRules) \in Nat /\ DOMAIN AllRules = 1..Len(AllRules)
  BY <1>4
<1>6. \A i \in 1..Len(AllRules) : AllRules[i] \in PathRule
  BY <1>4
<1> QED
  BY <1>4, <1>5, <1>6 DEF PathRule

LEMMA NonEmpty ==
    ASSUME NEW path \in Path
    PROVE  Len(path) \in Nat /\ (path # <<>> <=> Len(path) > 0)
BY DEF Path

(* One round of the loop.                                                  *)
LEMMA ScanStep ==
    ASSUME AccessInv, TryRule
    PROVE  BestOf(req'.best, req'.scanned, req.path)
<1> DEFINE i == req.scanned + 1
           takes == ruleMatches(req.path, AllRules[i]) /\ Longer(AllRules[i], req.best)
           nonempty == \A j \in 1..Len(AllRules) : AllRules[j].path # <<>> <=> Len(AllRules[j].path) > 0
<1>1. /\ req \in Request /\ req.scanned \in Nat /\ req.best \in 0..req.scanned
      /\ i \in 1..Len(AllRules)
      /\ Len(AllRules) \in Nat
      /\ BestOf(req.best, req.scanned, req.path)
  BY RulesType DEF AccessInv, TypeOK, Request, TryRule, Scanned
<1>2. req'.scanned = i /\ req'.best = IF takes THEN i ELSE req.best
  BY <1>1 DEF TryRule, Request, Matched
<1>3. \A j \in 1..Len(AllRules) :
         Len(AllRules[j].path) \in Nat /\ (AllRules[j].path # <<>> <=> Len(AllRules[j].path) > 0)
  BY RulesType, NonEmpty DEF AccessInv, TypeOK
<1> HIDE DEF takes
<1>4. CASE takes
  <2>1. ruleMatches(req.path, AllRules[i]) /\ Longer(AllRules[i], req.best)
    BY <1>4 DEF takes
  <2>2. Len(AllRules[i].path) > LongestLength(req.best)
    BY <2>1 DEF Longer
  <2>3. i \in Candidates(i, req.path)
    <3>1. Len(AllRules[i].path) > 0
      BY <1>1, <1>3, <2>2 DEF LongestLength
    <3> QED
      BY <1>1, <1>3, <2>1, <3>1 DEF Candidates
  <2>4. ASSUME NEW j \in Candidates(i, req.path) \ {i}
        PROVE  Len(AllRules[j].path) < Len(AllRules[i].path)
    <3>1. j \in Candidates(req.scanned, req.path) /\ j \in 1..Len(AllRules)
      BY <1>1, <2>4 DEF Candidates
    <3>2. req.best # 0 /\ req.best \in 1..Len(AllRules)
      BY <1>1, <3>1 DEF BestOf
    <3>3. Len(AllRules[j].path) \in Nat /\ Len(AllRules[req.best].path) \in Nat /\ Len(AllRules[i].path) \in Nat
      BY <1>1, <1>3, <3>1, <3>2
    <3>4. Len(AllRules[j].path) <= Len(AllRules[req.best].path)
      BY <1>1, <3>1, <3>2, <3>3 DEF BestOf
    <3>5. Len(AllRules[i].path) > Len(AllRules[req.best].path)
      BY <2>2, <3>2 DEF LongestLength
    <3>6. \A a, b, c \in Nat : a <= b /\ c > b => a < c
      OBVIOUS
    <3> QED
      BY ONLY <3>3, <3>4, <3>5, <3>6
  <2>5. req'.best = i /\ i # 0
    BY <1>1, <1>2, <1>4
  <2> QED
    BY <1>2, <2>3, <2>4, <2>5 DEF BestOf
<1>5. CASE ~takes
  <2>1. req'.best = req.best
    BY <1>2, <1>5
  <2>2. Candidates(i, req.path) \subseteq Candidates(req.scanned, req.path) \cup {i}
    BY <1>1 DEF Candidates
  <2>3. Candidates(req.scanned, req.path) \subseteq Candidates(i, req.path)
    BY <1>1 DEF Candidates
  <2>4. i \in Candidates(i, req.path) =>
           req.best # 0 /\ Len(AllRules[i].path) <= Len(AllRules[req.best].path)
    <3>1. SUFFICES ASSUME i \in Candidates(i, req.path)
                   PROVE  req.best # 0 /\ Len(AllRules[i].path) <= Len(AllRules[req.best].path)
      OBVIOUS
    <3>2. ruleMatches(req.path, AllRules[i]) /\ Len(AllRules[i].path) > 0
      BY <1>1, <1>3, <3>1 DEF Candidates
    <3>3. ~(Len(AllRules[i].path) > LongestLength(req.best))
      BY <1>5, <3>2 DEF takes, Longer
    <3> QED
      BY <1>1, <1>3, <3>2, <3>3 DEF LongestLength
  <2>5. CASE req.best = 0
    BY <1>1, <1>2, <2>1, <2>2, <2>4, <2>5 DEF BestOf
  <2>6. CASE req.best # 0
    <3>1. req.best \in Candidates(i, req.path)
      BY <1>1, <2>3, <2>6 DEF BestOf
    <3>2. ASSUME NEW j \in Candidates(i, req.path) \ {req.best}
          PROVE  \/ Len(AllRules[j].path) < Len(AllRules[req.best].path)
                 \/ Len(AllRules[j].path) = Len(AllRules[req.best].path) /\ req.best < j
      <4>1. CASE j = i
        BY <1>1, <1>3, <2>4, <2>6, <3>2, <4>1
      <4>2. CASE j # i
        BY <1>1, <2>2, <2>6, <3>2, <4>2 DEF BestOf
      <4> QED
        BY <4>1, <4>2
    <3> QED
      BY <1>2, <2>1, <2>6, <3>1, <3>2 DEF BestOf
  <2> QED
    BY <2>5, <2>6
<1> QED
  BY <1>4, <1>5

(* After the last rule, best is the one that decides, if there is one.     *)
LEMMA ScanDecides ==
    ASSUME AccessInv, req.pc = "rules", req.scanned = Len(AllRules)
    PROVE  IsPublic(req.best) <=>
              \E i \in DOMAIN AllRules : Decides(i, req.path) /\ AllRules[i].access = "public"
<1> DEFINE cands == Candidates(req.scanned, req.path)
<1>1. /\ DOMAIN AllRules = 1..req.scanned /\ req.scanned \in Nat /\ req.best \in 0..req.scanned
      /\ BestOf(req.best, req.scanned, req.path)
  BY RulesType DEF AccessInv, TypeOK, Scanned
<1>2. \A j \in 1..req.scanned : Len(AllRules[j].path) \in Nat
  BY <1>1, RulesType, NonEmpty DEF AccessInv, TypeOK
<1>3. cands = {j \in DOMAIN AllRules : ruleMatches(req.path, AllRules[j]) /\ AllRules[j].path # <<>>}
  BY <1>1 DEF Candidates
<1>4. \A i : Decides(i, req.path) <=>
         /\ i \in cands
         /\ \A j \in cands \ {i} :
               \/ Len(AllRules[j].path) < Len(AllRules[i].path)
               \/ Len(AllRules[j].path) = Len(AllRules[i].path) /\ i < j
  BY <1>3 DEF Decides
<1>5. cands \subseteq 1..req.scanned
  BY DEF Candidates
<1> HIDE DEF cands
<1>6. CASE req.best = 0
  <2>1. cands = {}
    BY <1>1, <1>6 DEF BestOf, cands
  <2> QED
    BY <1>4, <1>6, <2>1 DEF IsPublic
<1>7. CASE req.best # 0
  <2>1. Decides(req.best, req.path) /\ req.best \in cands
    BY <1>1, <1>4, <1>7 DEF BestOf, cands
  <2>2. ASSUME NEW i, Decides(i, req.path), i # req.best
        PROVE  FALSE
    <3>1. i \in cands \ {req.best} /\ req.best \in cands \ {i}
      BY <1>4, <2>1, <2>2
    <3>2. i \in 1..req.scanned /\ Len(AllRules[i].path) \in Nat /\ Len(AllRules[req.best].path) \in Nat
      BY <1>2, <1>5, <3>1
    <3>3. \/ Len(AllRules[i].path) < Len(AllRules[req.best].path)
          \/ Len(AllRules[i].path) = Len(AllRules[req.best].path) /\ req.best < i
      BY <1>4, <2>1, <3>1
    <3>4. \/ Len(AllRules[req.best].path) < Len(AllRules[i].path)
          \/ Len(AllRules[req.best].path) = Len(AllRules[i].path) /\ i < req.best
      BY <1>4, <2>2, <3>1
    <3> QED
      BY <1>1, <3>2, <3>3, <3>4
  <2> QED
    BY <1>1, <1>5, <1>7, <2>1, <2>2 DEF IsPublic
<1> QED
  BY <1>6, <1>7

----------------------------------------------------------------------------

LEMMA InitInv == Init => AccessInv
<1> SUFFICES ASSUME Init PROVE AccessInv
  OBVIOUS
<1>1. <<>> \in Path
  BY DEF Path
<1> QED
  BY <1>1, RulesType DEF Init, NewRequest, AccessInv, TypeOK, Request, Scanned, Quiet, LongestRuleDecides

(* Whether a request went on without a user does not change while its      *)
(* account does.                                                           *)
LEMMA NextInv == AccessInv /\ [Next]_vars => AccessInv'
<1> SUFFICES ASSUME AccessInv, [Next]_vars PROVE AccessInv'
  OBVIOUS
<1>0. /\ settings' = settings
      /\ AllRules' = AllRules
      /\ \A path : OtherPath(path)' <=> OtherPath(path)
      /\ \A i, path : Decides(i, path)' <=> Decides(i, path)
      /\ \A b, n, path : BestOf(b, n, path)' <=> BestOf(b, n, path)
  <2>1. settings' = settings
    BY DEF Next, Receive, TryRule, Decide, LoadUser, LoadFails, Serve, AccountChanges, vars
  <2>2. AllRules' = AllRules
    BY <2>1 DEF AllRules
  <2>3. \A path : OtherPath(path)' <=> OtherPath(path)
    BY <2>1 DEF OtherPath, Hardcoded, BaseUrl
  <2>4. \A path, rule : ruleMatches(path, rule)' <=> ruleMatches(path, rule)
    BY DEF ruleMatches
  <2>5. \A i, path : Decides(i, path)' <=> Decides(i, path)
    BY <2>2, <2>4 DEF Decides
  <2>6. \A n, path : Candidates(n, path)' = Candidates(n, path)
    BY <2>2, <2>4 DEF Candidates
  <2>7. \A b, n, path : BestOf(b, n, path)' <=> BestOf(b, n, path)
    BY <2>2, <2>6 DEF BestOf
  <2> QED
    BY <2>1, <2>2, <2>3, <2>5, <2>7
<1>1. req \in Request /\ TypeOK
  BY DEF AccessInv, TypeOK
<1>2. ASSUME NEW path \in Paths, NEW cookie \in BOOLEAN, Receive(path, cookie)
      PROVE  AccessInv'
  <2>1. req' = NewRequest(FirstCheck(path), path, cookie) /\ status' = 0 /\ account' = account
    BY <1>2 DEF Receive
  <2>2. path \in Path
    BY AccessConstants
  <2>3. FirstCheck(path) \in {"rules", "load", "next"}
    BY DEF FirstCheck
  <2>4. TypeOK'
    BY <1>0, <1>1, <2>1, <2>2, <2>3, RulesType DEF TypeOK, Request, NewRequest
  <2>5. OtherPath(path) <=> FirstCheck(path) = "rules"
    BY DEF OtherPath, FirstCheck, Hardcoded
  <2>6. BestOf(0, 0, path)
    BY DEF BestOf, Candidates
  <2>7. Scanned' /\ Quiet' /\ LongestRuleDecides'
    BY <1>0, <2>1, <2>3, <2>5, <2>6 DEF Scanned, Quiet, LongestRuleDecides, NewRequest
  <2> QED
    BY <2>4, <2>7 DEF AccessInv
<1>3. CASE TryRule
  <2>1. BestOf(req'.best, req'.scanned, req.path)
    BY <1>3, ScanStep
  <2>2. /\ req.pc = "rules" /\ req'.pc = "rules"
        /\ req' \in Request
        /\ req'.path = req.path /\ req'.user = req.user
        /\ req'.scanned \in 0..Len(AllRules) /\ req'.best \in 0..req'.scanned
        /\ account' = account /\ status' = status
    <3>1. /\ req.scanned + 1 \in 0..Len(AllRules) /\ req.scanned + 1 \in Nat
          /\ req.best \in 0..req.scanned + 1
      BY <1>1, <1>3, RulesType DEF TryRule, TypeOK, Request
    <3>2. PICK best \in {req.scanned + 1, req.best} :
             req' = [req EXCEPT !.scanned = req.scanned + 1, !.best = best]
      BY <1>3 DEF TryRule, Matched
    <3>3. best \in 0..req.scanned + 1 /\ best \in Nat
      BY <3>1, <3>2
    <3>4. req.pc = "rules" /\ account' = account /\ status' = status
      BY <1>3 DEF TryRule
    <3> QED
      BY <1>1, <3>1, <3>2, <3>3, <3>4 DEF Request
  <2>3. TypeOK'
    BY <1>0, <1>1, <2>2 DEF TypeOK
  <2>4. Scanned' /\ Quiet' /\ LongestRuleDecides'
    BY <1>0, <2>1, <2>2 DEF AccessInv, Scanned, Quiet, LongestRuleDecides
  <2> QED
    BY <2>3, <2>4 DEF AccessInv
<1>4. CASE Decide
  <2>1. /\ req.pc = "rules" /\ req'.pc = IF IsPublic(req.best) THEN "next" ELSE "load"
        /\ req' \in Request
        /\ req'.path = req.path /\ req'.user = req.user
        /\ req'.scanned = req.scanned /\ req'.best = req.best
        /\ account' = account /\ status' = status
    BY <1>1, <1>4 DEF Decide, Request
  <2>2. TypeOK'
    BY <1>0, <1>1, <2>1 DEF TypeOK
  <2>3. IsPublic(req.best) <=>
           \E i \in DOMAIN AllRules : Decides(i, req.path) /\ AllRules[i].access = "public"
    BY <1>4, ScanDecides DEF Decide
  <2>4. Scanned' /\ Quiet' /\ LongestRuleDecides'
    BY <1>0, <2>1, <2>3 DEF AccessInv, Scanned, Quiet, LongestRuleDecides
  <2> QED
    BY <2>2, <2>4 DEF AccessInv
<1>5. CASE LoadUser
  <2>1. /\ req.pc = "load"
        /\ req' \in Request
        /\ req'.path = req.path
        /\ req'.scanned = req.scanned /\ req'.best = req.best
        /\ account' = account /\ status' \in {status, 401, 403}
        /\ \/ req'.pc = "done"
           \/ req'.pc = "next" /\ req'.user # "nobody"
    <3>1. CASE Answer(401) \/ Answer(403)
      BY <1>1, <1>5, <3>1 DEF LoadUser, Answer, Request
    <3>2. CASE /\ account # "gone"
               /\ req' = [req EXCEPT !.pc = "next", !.user = account]
               /\ UNCHANGED status
      BY <1>1, <1>5, <3>2 DEF LoadUser, Request, TypeOK, Account
    <3> QED
      BY <1>5, <3>1, <3>2 DEF LoadUser
  <2>2. TypeOK'
    BY <1>0, <1>1, <2>1 DEF TypeOK
  <2>3. Scanned' /\ Quiet' /\ LongestRuleDecides'
    BY <1>0, <2>1 DEF AccessInv, Scanned, Quiet, LongestRuleDecides
  <2> QED
    BY <2>2, <2>3 DEF AccessInv
<1>6. CASE LoadFails \/ Serve
  <2>1. /\ req' \in Request /\ req'.pc = "done"
        /\ req'.scanned = req.scanned /\ req'.best = req.best
        /\ account' = account /\ status' \in {200, 401, 404}
    BY <1>1, <1>6 DEF LoadFails, Serve, Served, Answer, Request
  <2>2. TypeOK'
    BY <1>0, <1>1, <2>1 DEF TypeOK
  <2>3. Scanned' /\ Quiet' /\ LongestRuleDecides'
    BY <2>1 DEF Scanned, Quiet, LongestRuleDecides
  <2> QED
    BY <2>2, <2>3 DEF AccessInv
<1>7. ASSUME NEW to \in Account, AccountChanges(to)
      PROVE  AccessInv'
  <2>1. account' = to /\ req' = req /\ status' = status
    BY <1>7 DEF AccountChanges
  <2> QED
    BY <1>0, <1>1, <2>1 DEF AccessInv, TypeOK, Scanned, Quiet, LongestRuleDecides
<1>8. CASE UNCHANGED vars
  BY <1>0, <1>1, <1>8 DEF vars, AccessInv, TypeOK, Scanned, Quiet, LongestRuleDecides
<1> QED
  BY <1>2, <1>3, <1>4, <1>5, <1>6, <1>7, <1>8 DEF Next

LEMMA AccessInvariant == Spec => []AccessInv
BY InitInv, NextInv, PTL DEF Spec

(* Every variable keeps its type, for all settings and routes.             *)
THEOREM TypeCorrect == Spec => []TypeOK
<1>1. AccessInv => TypeOK
  BY DEF AccessInv
<1> QED
  BY <1>1, AccessInvariant, PTL

(* For every list of rules and every path, the one scan with its strict    *)
(* comparison finds the rule that ought to decide.                         *)
THEOREM LongestWins == Spec => []LongestRuleDecides
<1>1. AccessInv => LongestRuleDecides
  BY DEF AccessInv
<1> QED
  BY <1>1, AccessInvariant, PTL

----------------------------------------------------------------------------

(* The base URL is spelled as the router spells the routes: with a slash   *)
(* before every segment and none at the end.                               *)
CleanBase ==
    \A route \in PublicRoutes \cup ProtectedRoutes : Cleaned(BaseUrl \o route) = BaseUrl \o route

(* What is under way on an authentication route.                           *)
OnFixedRoutes ==
    /\ req.path \in Hardcoded(PublicRoutes) => req.pc \in {"next", "done"}
    /\ req.path \in Hardcoded(ProtectedRoutes) =>
          req.pc # "rules" /\ (req.pc = "next" => req.user # "nobody")

RoutesInv == AccessInv /\ CleanBase /\ OnFixedRoutes /\ AlwaysPublic /\ EnforcedMode

LEMMA AsMounted ==
    ASSUME CleanBase
    PROVE  /\ Mounted(PublicRoutes) = Hardcoded(PublicRoutes)
           /\ Mounted(ProtectedRoutes) = Hardcoded(ProtectedRoutes)
           /\ Mounted(EnrolRoutes) = Hardcoded(EnrolRoutes)
           /\ Mounted(EnrolRoutes \cup PublicRoutes) = Hardcoded(EnrolRoutes \cup PublicRoutes)
BY DEF CleanBase, Mounted, Hardcoded, ProtectedRoutes

LEMMA ShortSeqs ==
    ASSUME NEW S, NEW a \in S, NEW b \in S, NEW c \in S, NEW d \in S
    PROVE  <<a, b>> \in Seq(S) /\ <<a, b, c, d>> \in Seq(S)
OBVIOUS

LEMMA Disjoint ==
    ASSUME settings \in Configurations
    PROVE  /\ Hardcoded(PublicRoutes) \cap Hardcoded(ProtectedRoutes) = {}
           /\ <<>> \notin Hardcoded(PublicRoutes \cup ProtectedRoutes)
<1>1. BaseUrl \in Seq(Tokens)
  <2>1. settings.base \in Seq(Tokens)
    BY AccessConstants DEF Settings, Path
  <2>2. <<"/", "auth">> \in Seq(Tokens)
    BY ShortSeqs, AccessConstants DEF RouteTokens
  <2> QED
    BY <2>1, <2>2 DEF BaseUrl
<1>2. PublicRoutes \cup ProtectedRoutes \subseteq Seq(Tokens)
  BY ShortSeqs, AccessConstants DEF RouteTokens, PublicRoutes, ProtectedRoutes, EnrolRoutes
<1>3. PublicRoutes \cap ProtectedRoutes = {}
  BY DEF PublicRoutes, ProtectedRoutes, EnrolRoutes
<1>4. \A a \in PublicRoutes, b \in ProtectedRoutes : BaseUrl \o a # BaseUrl \o b
  BY <1>1, <1>2, <1>3, ConcatSimplifications
<1>5. \A a \in PublicRoutes \cup ProtectedRoutes : Len(a) > 0
  BY DEF PublicRoutes, ProtectedRoutes, EnrolRoutes
<1>6. \A a \in PublicRoutes \cup ProtectedRoutes : Len(BaseUrl \o a) > 0
  BY <1>1, <1>2, <1>5
<1> QED
  BY <1>4, <1>6 DEF Hardcoded

LEMMA RoutesInit == Init /\ CleanBase => RoutesInv
<1> SUFFICES ASSUME Init, CleanBase PROVE RoutesInv
  OBVIOUS
<1>1. AccessInv
  BY InitInv
<1> QED
  BY <1>1, Disjoint, AsMounted
     DEF Init, NewRequest, RoutesInv, OnFixedRoutes, AlwaysPublic, EnforcedMode, Hardcoded

LEMMA RoutesStep == RoutesInv /\ [Next]_vars => RoutesInv'
<1> SUFFICES ASSUME RoutesInv, [Next]_vars PROVE RoutesInv'
  OBVIOUS
<1>1. AccessInv /\ AccessInv' /\ req \in Request
  BY NextInv DEF RoutesInv, AccessInv, TypeOK
<1>2. settings' = settings
  BY DEF Next, Receive, TryRule, Decide, LoadUser, LoadFails, Serve, AccountChanges, vars
<1>3. /\ CleanBase'
      /\ \A routes : Hardcoded(routes)' = Hardcoded(routes) /\ Mounted(routes)' = Mounted(routes)
  BY <1>2 DEF RoutesInv, CleanBase, Hardcoded, Mounted, BaseUrl
<1>4. /\ Mounted(PublicRoutes) = Hardcoded(PublicRoutes)
      /\ Mounted(ProtectedRoutes) = Hardcoded(ProtectedRoutes)
      /\ Mounted(EnrolRoutes) = Hardcoded(EnrolRoutes)
      /\ Mounted(EnrolRoutes \cup PublicRoutes) = Hardcoded(EnrolRoutes) \cup Hardcoded(PublicRoutes)
      /\ Hardcoded(EnrolRoutes) \subseteq Hardcoded(ProtectedRoutes)
      /\ Hardcoded(PublicRoutes) \cap Hardcoded(ProtectedRoutes) = {}
  <2>1. Hardcoded(EnrolRoutes \cup PublicRoutes) = Hardcoded(EnrolRoutes) \cup Hardcoded(PublicRoutes)
    BY DEF Hardcoded
  <2>2. Hardcoded(EnrolRoutes) \subseteq Hardcoded(ProtectedRoutes)
    BY DEF Hardcoded, ProtectedRoutes
  <2>3. CleanBase /\ settings \in Configurations
    BY DEF RoutesInv, AccessInv, TypeOK
  <2> QED
    BY <2>1, <2>2, <2>3, AsMounted, Disjoint
<1>5. SUFFICES OnFixedRoutes' /\ AlwaysPublic' /\ EnforcedMode'
  BY <1>1, <1>3 DEF RoutesInv
<1>6. ASSUME NEW path \in Paths, NEW cookie \in BOOLEAN, Receive(path, cookie)
      PROVE  OnFixedRoutes' /\ AlwaysPublic' /\ EnforcedMode'
  BY <1>3, <1>4, <1>6
     DEF Receive, NewRequest, FirstCheck, OnFixedRoutes, AlwaysPublic, EnforcedMode
<1>7. CASE TryRule \/ Decide
  <2>1. /\ req.pc = "rules" /\ req'.pc \in {"rules", "next", "load"}
        /\ req'.path = req.path /\ req'.user = req.user /\ status' = status
        /\ req.user = "nobody"
    BY <1>1, <1>7 DEF TryRule, Decide, Request, AccessInv, Quiet
  <2> QED
    BY <1>2, <1>3, <1>4, <2>1 DEF RoutesInv, OnFixedRoutes, AlwaysPublic, EnforcedMode
<1>8. CASE LoadUser \/ LoadFails
  <2>1. /\ req.pc = "load" /\ req'.path = req.path
        /\ \/ req'.pc = "done" /\ status' = 401
           \/ req'.pc = "done" /\ status' = 403 /\ MustEnrolFirst(account, req.path)
           \/ /\ req'.pc = "next" /\ status' = status
              /\ req'.user = account /\ account \in {"plain", "enrolled"}
              /\ ~MustEnrolFirst(account, req.path)
    <3>1. CASE LoadFails
      BY <1>1, <3>1 DEF LoadFails, Answer, Request
    <3>2. CASE LoadUser
      <4>1. req.pc = "load" /\ account \in {"gone", "plain", "enrolled"}
        BY <1>1, <3>2 DEF LoadUser, AccessInv, TypeOK, Account
      <4>2. CASE Answer(401)
        BY <1>1, <4>1, <4>2 DEF Answer, Request
      <4>3. CASE MustEnrolFirst(account, req.path) /\ Answer(403)
        BY <1>1, <4>1, <4>3 DEF Answer, Request
      <4>4. CASE /\ account # "gone" /\ ~MustEnrolFirst(account, req.path)
                 /\ req' = [req EXCEPT !.pc = "next", !.user = account]
                 /\ UNCHANGED status
        BY <1>1, <4>1, <4>4 DEF Request
      <4> QED
        BY <3>2, <4>2, <4>3, <4>4 DEF LoadUser
    <3> QED
      BY <1>8, <3>1, <3>2
  <2>2. req.path \notin Hardcoded(PublicRoutes)
    BY <2>1 DEF RoutesInv, OnFixedRoutes
  <2>3. req'.pc # "rules"
    BY <2>1
  <2>4. OnFixedRoutes'
    BY <1>3, <2>1, <2>2 DEF OnFixedRoutes
  <2>5. AlwaysPublic'
    BY <1>3, <1>4, <2>1, <2>2 DEF AlwaysPublic
  <2>6. EnforcedMode'
    <3>1. settings.EnableTFA /\ settings.Required =>
             (MustEnrolFirst(account, req.path) <=>
                account # "enrolled" /\ req.path \notin Hardcoded(EnrolRoutes))
      BY DEF MustEnrolFirst
    <3>2. Mounted(EnrolRoutes \cup PublicRoutes)' = Hardcoded(EnrolRoutes) \cup Hardcoded(PublicRoutes)
      BY <1>3, <1>4
    <3>3. Mounted(EnrolRoutes)' = Hardcoded(EnrolRoutes)
      BY <1>3, <1>4
    <3>4. req.path \in Hardcoded(EnrolRoutes) /\ settings.EnableTFA /\ settings.Required => status # 403
      BY <1>4 DEF RoutesInv, EnforcedMode
    <3>5. SUFFICES ASSUME settings.EnableTFA, settings.Required
                   PROVE  /\ req'.pc = "next" /\ req'.user = "plain" => req.path \in Hardcoded(EnrolRoutes)
                          /\ status' = 403 => req.path \notin Hardcoded(EnrolRoutes)
      BY <1>2, <2>1, <2>2, <3>2, <3>3 DEF EnforcedMode
    <3>6. CASE req'.pc = "done" /\ status' = 401
      BY <3>6
    <3>7. CASE req'.pc = "done" /\ status' = 403 /\ MustEnrolFirst(account, req.path)
      BY <3>1, <3>5, <3>7
    <3>8. CASE /\ req'.pc = "next" /\ status' = status /\ req'.user = account
               /\ ~MustEnrolFirst(account, req.path)
      BY <3>1, <3>4, <3>5, <3>8
    <3> QED
      BY <2>1, <3>6, <3>7, <3>8
  <2> QED
    BY <2>4, <2>5, <2>6
<1>9. CASE Serve
  <2>1. /\ req.pc = "next" /\ req'.pc = "done" /\ req'.path = req.path
        /\ status' = Served(req.path, req.user)
    BY <1>1, <1>9 DEF Serve, Answer, Request
  <2>2. status' \in {200, 401, 404} /\ (req.path \in Mounted(PublicRoutes) => status' \in {200, 404})
    BY <1>4, <2>1 DEF Served
  <2> QED
    BY <1>2, <1>3, <1>4, <2>1, <2>2 DEF OnFixedRoutes, AlwaysPublic, EnforcedMode
<1>10. ASSUME NEW to \in Account, AccountChanges(to)
       PROVE  OnFixedRoutes' /\ AlwaysPublic' /\ EnforcedMode'
  BY <1>3, <1>10 DEF AccountChanges, RoutesInv, OnFixedRoutes, AlwaysPublic, EnforcedMode
<1>11. CASE UNCHANGED vars
  BY <1>3, <1>11 DEF vars, RoutesInv, OnFixedRoutes, AlwaysPublic, EnforcedMode
<1> QED
  BY <1>6, <1>7, <1>8, <1>9, <1>10, <1>11 DEF Next

LEMMA RoutesInvariant == Init /\ CleanBase /\ [][Next]_vars => []RoutesInv
BY RoutesInit, RoutesStep, PTL

(* With a clean base URL, whatever the rules say: login, register, logout  *)
(* and verify are never refused,                                           *)
THEOREM StayPublic == Init /\ CleanBase /\ [][Next]_vars => []AlwaysPublic
<1>1. RoutesInv => AlwaysPublic
  BY DEF RoutesInv
<1> QED
  BY <1>1, RoutesInvariant, PTL

(* the other authentication routes are never entered without a user,       *)
THEOREM StayProtected == Init /\ CleanBase /\ [][Next]_vars => []AlwaysProtected
<1>1. RoutesInv => AlwaysProtected
  BY AsMounted DEF RoutesInv, OnFixedRoutes, AlwaysProtected
<1> QED
  BY <1>1, RoutesInvariant, PTL

(* and enforced mode leaves an unenrolled user the way to enrolment only.  *)
THEOREM Enforced == Init /\ CleanBase /\ [][Next]_vars => []EnforcedMode
<1>1. RoutesInv => EnforcedMode
  BY DEF RoutesInv
<1> QED
  BY <1>1, RoutesInvariant, PTL

----------------------------------------------------------------------------

(* Every public path and every rule names a path: a rule without one would *)
(* match every request as a prefix, and the scan would never take it.      *)
NamedPaths == \A i \in DOMAIN AllRules : AllRules[i].path # <<>>

NamedInv == AccessInv /\ NamedPaths

(* Then the only matching rule is the one LongestRuleDecides speaks of.    *)
LEMMA OnlyIsLongest ==
    ASSUME NEW path, NEW i \in DOMAIN AllRules, NamedPaths,
           ruleMatches(path, AllRules[i]),
           \A j \in DOMAIN AllRules \ {i} : ~ruleMatches(path, AllRules[j])
    PROVE  Decides(i, path)
BY DEF NamedPaths, Decides

LEMMA NamedStep == NamedInv /\ [Next]_vars => NamedInv'
<1> SUFFICES ASSUME NamedInv, [Next]_vars PROVE NamedInv'
  OBVIOUS
<1>1. settings' = settings
  BY DEF Next, Receive, TryRule, Decide, LoadUser, LoadFails, Serve, AccountChanges, vars
<1>2. AllRules' = AllRules
  BY <1>1 DEF AllRules
<1> QED
  BY <1>2, NextInv DEF NamedInv, NamedPaths

(* Where every rule names a path, the only rule that matches decides, with *)
(* no session asked for behind a public one.                               *)
THEOREM OnlyMatch == Init /\ NamedPaths /\ [][Next]_vars => []OnlyMatchDecides
<1>1. NamedInv => OnlyMatchDecides
  <2> SUFFICES ASSUME NamedInv, req.pc = "load", OtherPath(req.path),
                      NEW i \in DOMAIN AllRules,
                      ruleMatches(req.path, AllRules[i]),
                      \A j \in DOMAIN AllRules \ {i} : ~ruleMatches(req.path, AllRules[j])
               PROVE  AllRules[i].access = "private"
    BY DEF OnlyMatchDecides
  <2>1. Decides(i, req.path)
    BY OnlyIsLongest DEF NamedInv
  <2>2. ~(AllRules[i].access = "public")
    BY <2>1 DEF NamedInv, AccessInv, LongestRuleDecides
  <2>3. AllRules[i] \in PathRule
    BY RulesType DEF NamedInv, AccessInv, TypeOK
  <2> QED
    BY <2>2, <2>3 DEF PathRule
<1>2. Init /\ NamedPaths => NamedInv
  BY InitInv DEF NamedInv
<1> QED
  BY <1>1, <1>2, NamedStep, PTL

=============================================================================
