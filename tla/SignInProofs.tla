------------------------------ MODULE SignInProofs ------------------------------
(***************************************************************************)
(* Theorems about who may sign in: a single-use credential, for every       *)
(* number of processes, of requests that present it and of failures of      *)
(* Redis; staff accounts and their tokens, for every number of accounts, of *)
(* concurrent handlers and of edits.                                        *)
(***************************************************************************)
EXTENDS OneTimeTokens, StaffAccounts, FiniteSetTheorems, TLAPS

(* Every action keeps the types.                                             *)
THEOREM TokenTyped == TokenSpec => []TokenTypeOK
<1> USE StoreFaultsAreNat
<1>1. TokenInit => TokenTypeOK
  <2> SUFFICES ASSUME TokenInit PROVE TokenTypeOK
    OBVIOUS
  <2>1. issued \in BOOLEAN /\ redis \in BOOLEAN /\ burned \in BOOLEAN /\ doubled \in BOOLEAN /\ both \in BOOLEAN
    BY Zenon DEF TokenInit
  <2>2. Waiting \in [at : {"new", "redis", "delete", "memory", "checked", "done"}, api : Apis \cup {NoApi}]
    BY DEF Waiting
  <2>3. redeem = [r \in Redeemers |-> Waiting]
    BY Zenon DEF TokenInit
  <2>4. kind \in {"state", "code", "burn"} /\ memory = {} /\ served = 0 /\ storeFaults = 0
    BY Zenon DEF TokenInit
  <2> QED BY <2>1, <2>2, <2>3, <2>4 DEF TokenTypeOK
<1>2. TokenTypeOK /\ [TokenNext]_tokenVars => TokenTypeOK'
  <2> SUFFICES ASSUME TokenTypeOK, [TokenNext]_tokenVars PROVE TokenTypeOK'
    OBVIOUS
  <2> USE DEF TokenTypeOK, StoreFault, On, Then, Serve
  <2>1. ASSUME NEW p \in Apis, Issue(p) PROVE TokenTypeOK'
    <3>1. redis' \in BOOLEAN /\ doubled' \in BOOLEAN
      BY <2>1, Zenon DEF Issue
    <3>2. issued' \in BOOLEAN
      BY <2>1, Zenon DEF Issue
    <3> QED BY <2>1, <3>1, <3>2 DEF Issue
  <2>2. CASE TokenExpires
    BY <2>2 DEF TokenExpires
  <2>3. ASSUME NEW p \in Apis, ApiRestarts(p) PROVE TokenTypeOK'
    BY <2>3 DEF ApiRestarts
  <2>4. ASSUME NEW r \in Redeemers, NEW p \in Apis, Present(r, p) PROVE TokenTypeOK'
    <3>1. both' \in BOOLEAN
      BY <2>4, Zenon DEF Present
    <3> QED BY <2>4, <3>1 DEF Present
  <2>5. ASSUME NEW r \in Redeemers, GetState(r) PROVE TokenTypeOK'
    BY <2>5 DEF GetState
  <2>6. ASSUME NEW r \in Redeemers, DeleteState(r) PROVE TokenTypeOK'
    <3>1. redis' \in BOOLEAN
      BY <2>6, Zenon DEF DeleteState
    <3> QED BY <2>6, <3>1 DEF DeleteState
  <2>7. ASSUME NEW r \in Redeemers, GetDelCode(r) PROVE TokenTypeOK'
    <3>1. redis' \in BOOLEAN
      BY <2>7, Zenon DEF GetDelCode, LeftInRedis
    <3>2. served' \in Nat /\ redeem' \in [Redeemers -> [at : {"new", "redis", "delete", "memory", "checked", "done"},
                                                      api : Apis \cup {NoApi}]]
      BY <2>7 DEF GetDelCode
    <3> QED BY <2>7, <3>1, <3>2 DEF GetDelCode
  <2>8. ASSUME NEW r \in Redeemers, RedisRaises(r) PROVE TokenTypeOK'
    <3>1. redis' \in BOOLEAN
      BY <2>8, Zenon DEF RedisRaises
    <3> QED BY <2>8, <3>1 DEF RedisRaises
  <2>9. ASSUME NEW r \in Redeemers, PopMemory(r) PROVE TokenTypeOK'
    BY <2>9 DEF PopMemory
  <2>10. ASSUME NEW r \in Redeemers, LookUpBurned(r) PROVE TokenTypeOK'
    BY <2>10 DEF LookUpBurned
  <2>11. ASSUME NEW r \in Redeemers, BurnToken(r) PROVE TokenTypeOK'
    BY <2>11 DEF BurnToken
  <2>12. CASE UNCHANGED tokenVars
    BY <2>12 DEF tokenVars
  <2> QED BY <2>1, <2>2, <2>3, <2>4, <2>5, <2>6, <2>7, <2>8, <2>9, <2>10, <2>11, <2>12
             DEF TokenNext, RedeemSteps
<1> QED BY <1>1, <1>2, PTL DEF TokenSpec

-----------------------------------------------------------------------------
(* Where the credential may still be taken from: it is in one place at most, *)
(* in none once it was accepted, and a state token read but not yet deleted  *)
(* is held by one request.                                                   *)
Live == redis \/ memory # {}
Busy(r) == redeem[r].at \notin {"new", "done"}
Excused == doubled \/ (kind = "state" /\ both)

NothingOut == ~redis /\ memory = {} /\ served = 0 /\ \A r \in Redeemers : ~Busy(r)

OnePlace ==
  /\ ~issued => NothingOut
  /\ \A p, q \in memory : p = q
  /\ \A r \in Redeemers : redeem[r].at = "delete" => kind = "state"
  /\ ~both => \A r, s \in Redeemers : Busy(r) /\ Busy(s) => r = s
  /\ kind = "burn" => ~redis /\ memory = {} /\ served <= 1 /\ (served > 0 => burned)
  /\ ~Excused =>
       /\ redis => memory = {}
       /\ served <= 1
       /\ kind # "burn" /\ served > 0 => ~Live /\ \A r \in Redeemers : redeem[r].at # "delete"
       /\ \A r \in Redeemers : redeem[r].at = "delete" => memory = {}

(* A step that only moves a request that is already busy on, but not to the  *)
(* DELETE, takes nothing out and accepts nobody, keeps all that.             *)
LEMMA MovesOn ==
  ASSUME TokenTypeOK, OnePlace, NEW r \in Redeemers, Busy(r), issued,
         NEW at \in {"memory", "checked", "done"}, Then(r, at),
         redis' => redis, memory' \subseteq memory, issued' = issued,
         served' = served, kind' = kind, burned => burned',
         both => both', both' => both, doubled => doubled', doubled' => doubled
  PROVE  OnePlace'
<1>1. /\ redeem'[r].at = at
      /\ \A s \in Redeemers : s # r => redeem'[s] = redeem[s]
  BY DEF TokenTypeOK, Then
<1>2. \A s \in Redeemers : /\ Busy(s)' => Busy(s)
                           /\ redeem'[s].at = "delete" => redeem[s].at = "delete"
  BY <1>1 DEF Busy
<1> QED BY <1>2 DEF OnePlace, Excused, Live, NothingOut

(* "Two racing redemptions cannot both win": a credential is accepted once,  *)
(* but for a state token whose two callbacks overlap between GET and DELETE, *)
(* and a value kept in memory after Redis had stored it without answering.   *)
THEOREM AcceptedOnce == TokenSpec => []ServedOnce
<1>1. TokenInit => OnePlace
  <2> SUFFICES ASSUME TokenInit PROVE OnePlace
    OBVIOUS
  <2>1. ~redis /\ ~issued /\ ~burned
    BY Zenon DEF TokenInit
  <2>2. memory = {} /\ served = 0 /\ \A r \in Redeemers : redeem[r].at = "new"
    BY DEF TokenInit, Waiting
  <2> QED BY <2>1, <2>2 DEF OnePlace, NothingOut, Busy, Live
<1>2. TokenTypeOK /\ OnePlace /\ [TokenNext]_tokenVars => OnePlace'
  <2> SUFFICES ASSUME TokenTypeOK, OnePlace, [TokenNext]_tokenVars PROVE OnePlace'
    OBVIOUS
  <2>t. served \in Nat
    BY DEF TokenTypeOK
  <2>1. ASSUME NEW p \in Apis, Issue(p) PROVE OnePlace'
    <3>1. NothingOut
      BY <2>1, Zenon DEF Issue, OnePlace
    <3>2. served' = 0 /\ redeem' = redeem /\ kind' = kind /\ (both' => both) /\ (both => both')
      BY <2>1, <3>1, Zenon DEF Issue, NothingOut
    <3>3. issued'
      BY <2>1, Zenon DEF Issue
    <3>4. \/ memory' = {} /\ (redis' => kind # "burn")
          \/ kind # "burn" /\ memory' = {p} /\ (redis' => doubled')
      <4>1. memory = {}
        BY <3>1 DEF NothingOut
      <4>2. CASE redis' = (kind # "burn") /\ UNCHANGED <<memory, storeFaults, doubled>>
        BY <4>1, <4>2, Zenon
      <4>3. CASE /\ kind # "burn" /\ StoreFault /\ memory' = memory \cup {p}
                 /\ redis' \in BOOLEAN /\ doubled' = redis'
        <5>1. memory' = {p}
          BY <4>1, <4>3
        <5> QED BY <4>3, <5>1, Zenon
      <4> QED BY <2>1, <4>2, <4>3 DEF Issue
    <3>5. \A r \in Redeemers : ~Busy(r)' /\ redeem'[r].at # "delete"
      BY <3>1, <3>2 DEF NothingOut, Busy
    <3> QED BY <3>2, <3>3, <3>4, <3>5 DEF OnePlace, Excused, Live
  <2>2. ASSUME TokenExpires \/ \E p \in Apis : ApiRestarts(p) PROVE OnePlace'
    <3>1. /\ memory' \subseteq memory /\ served' = served /\ redeem' = redeem /\ kind' = kind
          /\ redis' => redis
      <4>1. CASE TokenExpires
        BY <4>1 DEF TokenExpires
      <4>2. ASSUME NEW p \in Apis, ApiRestarts(p)
            PROVE  /\ memory' \subseteq memory /\ served' = served /\ redeem' = redeem /\ kind' = kind
                   /\ redis' => redis
        <5>1. redis' => redis
          BY <4>2, Zenon DEF ApiRestarts
        <5> QED BY <4>2, <5>1 DEF ApiRestarts
      <4> QED BY <2>2, <4>1, <4>2
    <3>2. /\ burned => burned'
          /\ doubled <=> doubled'
          /\ both <=> both'
          /\ issued <=> issued'
      <4>1. UNCHANGED <<burned, doubled, both, issued>>
        BY <2>2, Zenon DEF TokenExpires, ApiRestarts
      <4> QED BY <4>1, Zenon
    <3> QED BY <3>1, <3>2 DEF OnePlace, Excused, Live, NothingOut, Busy
  <2>4. ASSUME NEW r \in Redeemers, NEW p \in Apis, Present(r, p) PROVE OnePlace'
    <3>1. /\ redeem'[r].at = "redis"
          /\ \A s \in Redeemers : s # r => redeem'[s] = redeem[s]
          /\ redeem[r].at = "new"
      BY <2>4 DEF Present, TokenTypeOK, On
    <3>2. both' <=> both \/ \E s \in Redeemers \ {r} : Busy(s)
      BY <2>4, Zenon DEF Present, Busy
    <3>3. \A s \in Redeemers : redeem'[s].at = "delete" => redeem[s].at = "delete"
      BY <3>1
    <3>4. ~both' => \A s, q \in Redeemers : Busy(s)' /\ Busy(q)' => s = q
      BY <3>1, <3>2 DEF Busy
    <3>5. /\ memory' = memory /\ served' = served /\ kind' = kind
          /\ redis' => redis
          /\ burned => burned'
          /\ doubled => doubled'
          /\ doubled' => doubled
          /\ issued'
      BY <2>4, Zenon DEF Present
    <3> QED BY <3>2, <3>3, <3>4, <3>5 DEF OnePlace, Excused, Live
  <2>5. ASSUME NEW r \in Redeemers, GetState(r) PROVE OnePlace'
    <3>1. /\ redeem'[r].at = IF redis THEN "delete" ELSE "memory"
          /\ \A s \in Redeemers : s # r => redeem'[s] = redeem[s]
          /\ redeem[r].at = "redis" /\ kind = "state"
      BY <2>5 DEF GetState, TokenTypeOK, On, Then
    <3>2. /\ memory' = memory /\ served' = served /\ kind' = kind
          /\ redis' <=> redis
          /\ burned => burned'
          /\ doubled <=> doubled'
          /\ both <=> both'
          /\ issued <=> issued'
      BY <2>5, Zenon DEF GetState
    <3>3. Busy(r) /\ \A s \in Redeemers : Busy(s)' <=> Busy(s)
      BY <3>1 DEF Busy
    <3>4. \A s \in Redeemers : redeem'[s].at = "delete" => redeem[s].at = "delete" \/ (s = r /\ redis)
      BY <3>1
    <3>5. issued
      BY <3>3 DEF OnePlace, NothingOut
    <3> QED BY <3>1, <3>2, <3>3, <3>4, <3>5 DEF OnePlace, Excused, Live
  <2>6. ASSUME NEW r \in Redeemers, DeleteState(r) PROVE OnePlace'
    <3>1. /\ redeem'[r].at = "done"
          /\ \A s \in Redeemers : s # r => redeem'[s] = redeem[s]
          /\ redeem[r].at = "delete" /\ served' = served + 1 /\ memory' = memory /\ kind' = kind
      BY <2>6 DEF DeleteState, TokenTypeOK, On, Then, Serve
    <3>2. /\ ~redis'
          /\ burned => burned'
          /\ doubled <=> doubled'
          /\ both <=> both'
          /\ issued <=> issued'
      BY <2>6, Zenon DEF DeleteState
    <3>3. kind = "state" /\ issued /\ Busy(r)
      BY <3>1 DEF OnePlace, NothingOut, Busy
    <3>4. \A s \in Redeemers : Busy(s)' => Busy(s) /\ s # r
      BY <3>1 DEF Busy
    <3>5. ~both => \A s \in Redeemers : redeem'[s].at # "delete"
      BY <3>1, <3>3 DEF OnePlace, Busy
    <3>6. ~Excused => served = 0 /\ memory = {}
      BY <2>t, <3>1, <3>3 DEF OnePlace
    <3>7. \A s \in Redeemers : redeem'[s].at = "delete" => redeem[s].at = "delete"
      BY <3>1
    <3> QED BY <3>1, <3>2, <3>3, <3>4, <3>5, <3>6, <3>7 DEF OnePlace, Excused, Live
  <2>7. ASSUME NEW r \in Redeemers, GetDelCode(r) PROVE OnePlace'
    <3>1. kind = "code" /\ Busy(r) /\ issued
      BY <2>7 DEF GetDelCode, On, OnePlace, NothingOut, Busy
    <3>2. /\ ~redis' /\ memory' = memory /\ kind' = kind
          /\ burned => burned'
          /\ doubled <=> doubled'
          /\ both <=> both'
          /\ issued <=> issued'
      BY <2>7, Zenon DEF GetDelCode, LeftInRedis
    <3>3. \A s \in Redeemers : /\ Busy(s)' => Busy(s)
                               /\ redeem'[s].at = "delete" => redeem[s].at = "delete"
      BY <2>7 DEF GetDelCode, Serve, Then, On, Busy, TokenTypeOK
    <3>4. served' = served \/ (redis /\ served' = served + 1)
      BY <2>7 DEF GetDelCode, Serve
    <3>5. ~Excused /\ redis => served = 0 /\ memory = {}
      BY <2>t, <3>1 DEF OnePlace, Live
    <3> QED BY <2>t, <3>1, <3>2, <3>3, <3>4, <3>5 DEF OnePlace, Excused, Live
  <2>8. ASSUME NEW r \in Redeemers, RedisRaises(r) PROVE OnePlace'
    <3>1. Busy(r) /\ issued /\ Then(r, "memory")
      BY <2>8 DEF RedisRaises, On, OnePlace, NothingOut, Busy
    <3>2. UNCHANGED <<kind, issued, memory, burned, served, doubled, both>>
      BY <2>8, Zenon DEF RedisRaises
    <3>3. redis' => redis
      <4>1. redis' = redis \/ redis' = FALSE
        BY <2>8, Zenon DEF RedisRaises
      <4> QED BY <4>1, Zenon
    <3>4. /\ burned => burned'
          /\ doubled' => doubled
          /\ doubled => doubled'
          /\ both' => both
          /\ both => both'
      BY <3>2, Zenon
    <3>5. memory' = memory /\ kind' = kind /\ served' = served /\ issued' = issued
      BY <3>2, Zenon
    <3> QED BY <3>1, <3>3, <3>4, <3>5, MovesOn
  <2>9. ASSUME NEW r \in Redeemers, PopMemory(r) PROVE OnePlace'
    <3>1. Busy(r) /\ issued
      BY <2>9 DEF PopMemory, On, OnePlace, NothingOut, Busy
    <3>0. memory' \subseteq memory
      BY <2>9 DEF PopMemory
    <3>2. /\ memory' \subseteq memory /\ kind' = kind
          /\ redis' => redis
          /\ burned => burned'
          /\ doubled <=> doubled'
          /\ both <=> both'
          /\ issued <=> issued'
      <4>1. UNCHANGED <<kind, issued, redis, burned, storeFaults, doubled, both>>
        BY <2>9, Zenon DEF PopMemory
      <4> QED BY <3>0, <4>1, Zenon
    <3>3. \A s \in Redeemers : /\ Busy(s)' => Busy(s)
                               /\ redeem'[s].at = "delete" => redeem[s].at = "delete"
      BY <2>9 DEF PopMemory, Serve, Then, On, Busy, TokenTypeOK
    <3>4. served' = served \/ (memory # {} /\ served' = served + 1 /\ memory' = {})
      BY <2>9 DEF PopMemory, Serve, OnePlace
    <3>5. ~Excused /\ memory # {} => /\ ~redis /\ (kind # "burn" => served = 0)
                                     /\ \A s \in Redeemers : redeem[s].at # "delete"
      BY <2>t DEF OnePlace, Live
    <3>6. kind = "burn" => memory = {}
      BY DEF OnePlace
    <3> QED BY <2>t, <3>1, <3>2, <3>3, <3>4, <3>5, <3>6 DEF OnePlace, Excused, Live
  <2>10. ASSUME NEW r \in Redeemers, LookUpBurned(r) PROVE OnePlace'
    <3>1. Busy(r) /\ issued /\ (Then(r, "done") \/ Then(r, "checked"))
      BY <2>10 DEF LookUpBurned, On, OnePlace, NothingOut, Busy
    <3>2. /\ memory' = memory /\ kind' = kind /\ served' = served
          /\ redis' => redis
          /\ burned => burned'
          /\ doubled' => doubled
          /\ doubled => doubled'
          /\ both' => both
          /\ both => both'
          /\ issued' = issued
      BY <2>10, Zenon DEF LookUpBurned
    <3> QED BY <3>1, <3>2, MovesOn
  <2>11. ASSUME NEW r \in Redeemers, BurnToken(r) PROVE OnePlace'
    <3>1. Busy(r) /\ issued /\ kind = "burn"
      BY <2>11 DEF BurnToken, On, OnePlace, NothingOut, Busy
    <3>2. /\ memory' = memory /\ kind' = kind
          /\ redis' => redis
          /\ burned'
          /\ doubled <=> doubled'
          /\ both <=> both'
          /\ issued <=> issued'
      BY <2>11, Zenon DEF BurnToken
    <3>3. \A s \in Redeemers : /\ Busy(s)' => Busy(s)
                               /\ redeem'[s].at = "delete" => redeem[s].at = "delete"
      BY <2>11 DEF BurnToken, Serve, Then, On, Busy, TokenTypeOK
    <3>4. served' = served \/ (~burned /\ served' = served + 1)
      BY <2>11 DEF BurnToken, Serve
    <3>5. ~burned => served = 0
      BY <2>t, <3>1 DEF OnePlace
    <3> QED BY <2>t, <3>1, <3>2, <3>3, <3>4, <3>5 DEF OnePlace, Excused, Live
  <2>12. CASE UNCHANGED tokenVars
    <3>1. /\ memory' = memory /\ kind' = kind /\ served' = served /\ redeem' = redeem
          /\ redis' => redis
          /\ burned => burned'
          /\ doubled <=> doubled'
          /\ both <=> both'
          /\ issued <=> issued'
      BY <2>12, Zenon DEF tokenVars
    <3> QED BY <3>1 DEF OnePlace, Excused, Live, NothingOut, Busy
  <2> QED BY <2>1, <2>2, <2>4, <2>5, <2>6, <2>7, <2>8, <2>9, <2>10, <2>11, <2>12
             DEF TokenNext, RedeemSteps
<1>3. TokenTypeOK /\ OnePlace => ServedOnce
  BY DEF TokenTypeOK, OnePlace, Excused, ServedOnce
<1> QED BY <1>1, <1>2, <1>3, TokenTyped, PTL DEF TokenSpec

-----------------------------------------------------------------------------
Row == [here : BOOLEAN, role : Roles, active : BOOLEAN, gen : Nat]
DeskState == [op : Ops \cup {"none"}, at : {"auth", "load", "count", "write"},
              by : Users \cup {NoUser}, on : Users \cup {NoUser}, new : Updates, row : Row]

(* The shapes the arguments below need; generations are not bounded.         *)
Shapes ==
  /\ acct \in [Users -> Row]
  /\ tokens \in [Users -> SUBSET Nat] /\ ended \in [Users -> SUBSET Nat]
  /\ desk \in [Desks -> DeskState]
  /\ \A d \in Desks : desk[d].op # "none" => desk[d].on \in Users

(* A token is of a generation the account has had; what a revocation was to  *)
(* end are tokens, of generations before the account's.                      *)
GensGoUp ==
  \A u \in Users :
    /\ ended[u] \subseteq tokens[u]
    /\ acct[u].here => \A g \in tokens[u] : g <= acct[u].gen
    /\ acct[u].here => \A g \in ended[u] : g < acct[u].gen

LEMMA EditedIsRow ==
  ASSUME Shapes, NEW d \in Desks, desk[d].on \in Users
  PROVE  /\ Edited(d) \in Row
         /\ Edited(d).here = acct[desk[d].on].here
         /\ Edited(d).gen = IF Revokes(d) THEN acct[desk[d].on].gen + 1 ELSE acct[desk[d].on].gen
<1> DEFINE u == desk[d].on
           old == desk[d].row
           new == desk[d].new
           now == acct[u]
           role == IF new.role \in {"keep", old.role} THEN now.role ELSE new.role
           active == IF new.active = "keep" \/ (new.active = "on") = old.active THEN now.active
                     ELSE new.active = "on"
           gen == IF Revokes(d) THEN now.gen + 1 ELSE now.gen
<1>1. now \in Row /\ old \in Row /\ new \in Updates
  BY DEF Shapes, DeskState
<1>2. gen \in Nat
  BY <1>1 DEF Row
<1>3. role \in Roles
  BY <1>1 DEF Row, Updates, Roles
<1>4. active \in BOOLEAN
  <2>1. now.active \in BOOLEAN
    BY <1>1 DEF Row
  <2>2. (new.active = "on") \in BOOLEAN
    BY Zenon
  <2> QED BY <2>1, <2>2, Zenon
<1>5. \A r \in Roles, a \in BOOLEAN, g \in Nat :
        /\ [now EXCEPT !.role = r, !.active = a, !.gen = g] \in Row
        /\ [now EXCEPT !.role = r, !.active = a, !.gen = g].here = now.here
        /\ [now EXCEPT !.role = r, !.active = a, !.gen = g].gen = g
  BY <1>1 DEF Row
<1>6. Edited(d) = [now EXCEPT !.role = role, !.active = active, !.gen = gen]
  BY Zenon DEF Edited, NextGen
<1>7. gen = IF Revokes(d) THEN acct[desk[d].on].gen + 1 ELSE acct[desk[d].on].gen
  OBVIOUS
<1>8. now.here = acct[desk[d].on].here
  OBVIOUS
<1> HIDE DEF now, gen, role, active
<1>9. Edited(d) \in Row /\ Edited(d).here = now.here /\ Edited(d).gen = gen
  <2>1. /\ [now EXCEPT !.role = role, !.active = active, !.gen = gen] \in Row
        /\ [now EXCEPT !.role = role, !.active = active, !.gen = gen].here = now.here
        /\ [now EXCEPT !.role = role, !.active = active, !.gen = gen].gen = gen
    BY <1>2, <1>3, <1>4, <1>5
  <2> HIDE DEF Row
  <2> QED BY <1>6, <2>1
<1> QED BY <1>7, <1>8, <1>9, Zenon

-----------------------------------------------------------------------------
(* What a handler does to its own desk.                                      *)
LEMMA IdleDeskShaped == NoDesk \in DeskState
<1>1. NoRow \in Row
  BY DEF NoRow, Row, Roles
<1>2. NoUpdate \in Updates
  BY DEF NoUpdate, Updates, Roles
<1> QED BY <1>1, <1>2 DEF NoDesk, DeskState

(* Every action keeps the shapes.                                            *)
LEMMA ShapesKept == AccountSpec => []Shapes
<1>1. AccountInit => Shapes
  <2> SUFFICES ASSUME AccountInit PROVE Shapes
    OBVIOUS
  <2>1. \A u \in Users : [NoRow EXCEPT !.here = u \in FirstAdmins, !.active = u \in FirstAdmins,
                                       !.role = IF u \in FirstAdmins THEN "admin" ELSE "staff"] \in Row
    <3>1. \A b, c \in BOOLEAN, r \in Roles :
            [NoRow EXCEPT !.here = b, !.active = c, !.role = r] \in Row
      BY DEF NoRow, Row
    <3> TAKE u \in Users
    <3>2. (u \in FirstAdmins) \in BOOLEAN
      BY SMT
    <3>3. (IF u \in FirstAdmins THEN "admin" ELSE "staff") \in Roles
      BY DEF Roles
    <3> HIDE DEF Row, Roles
    <3> QED BY <3>1, <3>2, <3>3, Zenon
  <2>2. acct \in [Users -> Row]
    BY <2>1 DEF AccountInit
  <2>3. desk = [d \in Desks |-> NoDesk]
    BY DEF AccountInit
  <2>4. desk \in [Desks -> DeskState] /\ \A d \in Desks : desk[d].op = "none"
    BY <2>3, IdleDeskShaped DEF NoDesk
  <2>5. tokens \in [Users -> SUBSET Nat] /\ ended \in [Users -> SUBSET Nat]
    BY DEF AccountInit
  <2> QED BY <2>2, <2>4, <2>5 DEF Shapes
<1>2. Shapes /\ [AccountNext]_acctVars => Shapes'
  <2> SUFFICES ASSUME Shapes, [AccountNext]_acctVars PROVE Shapes'
    OBVIOUS
  <2>x. /\ \A u \in Users : acct[u] \in Row /\ acct[u].gen \in Nat
        /\ \A d \in Desks : desk[d] \in DeskState /\ desk[d].op \in Ops \cup {"none"}
        /\ NoDesk.op = "none"
    BY DEF Shapes, Row, DeskState, NoDesk
  <2>1. ASSUME NEW u \in Users, SignIn(u) PROVE Shapes'
    BY <2>1, <2>x DEF SignIn, Shapes
  <2>2. ASSUME NEW by \in Users, NEW u \in Users, NEW role \in Roles, CreateUser(by, u, role) PROVE Shapes'
    <3>1. [here |-> TRUE, role |-> role, active |-> TRUE, gen |-> 0] \in Row
      BY DEF Row
    <3> QED BY <2>2, <3>1 DEF CreateUser, Shapes
  <2>3. ASSUME NEW d \in Desks, NEW by \in Users, NEW on \in Users, NEW op \in Ops, NEW new \in Updates,
               Authenticate(d, by, on, op, new)
        PROVE Shapes'
    <3> DEFINE mine == [NoDesk EXCEPT !.op = op, !.at = "load", !.by = by, !.on = on, !.new = new]
    <3>1. mine \in DeskState /\ mine.on = on
      BY IdleDeskShaped DEF DeskState
    <3>2. desk' = [desk EXCEPT ![d] = mine]
      BY <2>3, Zenon DEF Authenticate
    <3>3. UNCHANGED <<acct, tokens, ended>>
      BY <2>3, Zenon DEF Authenticate
    <3> HIDE DEF mine
    <3> QED BY <3>1, <3>2, <3>3 DEF Shapes
  <2>4. ASSUME NEW d \in Desks, Load(d) PROVE Shapes'
    <3>1. \A at \in {"count", "write"}, row \in Row :
             /\ [desk[d] EXCEPT !.at = at, !.row = row] \in DeskState
             /\ [desk[d] EXCEPT !.at = at, !.row = row].on = desk[d].on
             /\ [desk[d] EXCEPT !.at = at, !.row = row].op = desk[d].op
      BY <2>x DEF DeskState
    <3>2. desk[d].on \in Users /\ desk[d].op # "none"
      BY <2>4 DEF Load, DeskAt, Shapes
    <3>3. PICK at \in {"count", "write"} :
             desk' \in {[desk EXCEPT ![d] = [desk[d] EXCEPT !.at = at, !.row = acct[desk[d].on]]],
                       [desk EXCEPT ![d] = NoDesk]}
      BY <2>4, Zenon DEF Load, Answer
    <3>4. CASE desk' = [desk EXCEPT ![d] = NoDesk]
      BY <2>4, <2>x, <3>4, IdleDeskShaped DEF Load, Shapes
    <3>5. CASE desk' = [desk EXCEPT ![d] = [desk[d] EXCEPT !.at = at, !.row = acct[desk[d].on]]]
      BY <2>4, <2>x, <3>1, <3>2, <3>5 DEF Load, Shapes
    <3> QED BY <3>3, <3>4, <3>5
  <2>5. ASSUME NEW d \in Desks, CountAdmins(d) PROVE Shapes'
    <3>1. /\ [desk[d] EXCEPT !.at = "write"] \in DeskState
          /\ [desk[d] EXCEPT !.at = "write"].on = desk[d].on
          /\ [desk[d] EXCEPT !.at = "write"].op = desk[d].op
      BY <2>x DEF DeskState
    <3>2. desk' \in {[desk EXCEPT ![d].at = "write"], [desk EXCEPT ![d] = NoDesk]}
      BY <2>5, Zenon DEF CountAdmins, Answer
    <3> QED BY <2>5, <2>x, <3>1, <3>2, IdleDeskShaped DEF CountAdmins, Shapes
  <2>6. ASSUME NEW d \in Desks, WriteAccount(d) PROVE Shapes'
    <3>1. desk[d].on \in Users /\ Edited(d) \in Row
      BY <2>6, EditedIsRow DEF WriteAccount, DeskAt, Shapes
    <3>2. [acct[desk[d].on] EXCEPT !.here = FALSE] \in Row
      BY <2>x, <3>1 DEF Row
    <3>3. acct' \in [Users -> Row]
      BY <2>6, <2>x, <3>1, <3>2 DEF WriteAccount, Shapes
    <3>4. ended' \in [Users -> SUBSET Nat]
      BY <2>6, <3>1 DEF WriteAccount, Shapes
    <3> QED BY <2>6, <2>x, <3>3, <3>4, IdleDeskShaped DEF WriteAccount, Answer, Shapes
  <2>7. CASE UNCHANGED acctVars
    BY <2>7 DEF acctVars, Shapes
  <2> QED BY <2>1, <2>2, <2>3, <2>4, <2>5, <2>6, <2>7 DEF AccountNext
<1> QED BY <1>1, <1>2, PTL DEF AccountSpec

-----------------------------------------------------------------------------
(* A revocation ends every token the account then held, for good: no later   *)
(* revocation of another handler, no re-created account of that number,      *)
(* brings a generation back.                                                 *)
THEOREM RevokedForGood == AccountSpec => []RevocationHolds
<1>1. AccountInit => GensGoUp
  BY DEF AccountInit, GensGoUp
<1>2. Shapes /\ GensGoUp /\ [AccountNext]_acctVars => GensGoUp'
  <2> SUFFICES ASSUME Shapes, GensGoUp, [AccountNext]_acctVars PROVE GensGoUp'
    OBVIOUS
  <2>x. \A u \in Users : /\ acct[u] \in Row /\ acct[u].gen \in Nat
                         /\ tokens[u] \subseteq Nat /\ ended[u] \subseteq Nat
    BY DEF Shapes, Row
  <2>1. ASSUME NEW u \in Users, SignIn(u) PROVE GensGoUp'
    BY <2>1, <2>x DEF SignIn, GensGoUp, Shapes
  <2>2. ASSUME NEW by \in Users, NEW u \in Users, NEW role \in Roles, CreateUser(by, u, role)
        PROVE GensGoUp'
    <3>1. tokens[u] = {} /\ ended[u] = {} /\ tokens' = tokens /\ ended' = ended
      BY <2>2 DEF CreateUser, GensGoUp
    <3>2. \A v \in Users : v # u => acct'[v] = acct[v]
      BY <2>2 DEF CreateUser, Shapes
    <3> QED BY <3>1, <3>2 DEF GensGoUp
  <2>3. ASSUME NEW d \in Desks, WriteAccount(d) PROVE GensGoUp'
    <3> DEFINE u == desk[d].on
    <3>1. u \in Users
      BY <2>3 DEF WriteAccount, DeskAt, Shapes
    <3>2. tokens' = tokens /\ \A v \in Users : v # u => acct'[v] = acct[v] /\ ended'[v] = ended[v]
      BY <2>3, <3>1 DEF WriteAccount, Shapes
    <3>3. ended'[u] = IF Revokes(d) THEN ended[u] \cup tokens[u] ELSE ended[u]
      BY <2>3, <3>1 DEF WriteAccount, Shapes
    <3>4. acct'[u].here => acct[u].here /\ acct'[u].gen = IF Revokes(d) THEN acct[u].gen + 1 ELSE acct[u].gen
      <4>1. /\ Edited(d).here = acct[u].here
            /\ Edited(d).gen = IF Revokes(d) THEN acct[u].gen + 1 ELSE acct[u].gen
        BY <3>1, EditedIsRow
      <4>2. CASE acct'[u] = Edited(d)
        BY <4>1, <4>2
      <4>3. CASE acct'[u] = [acct[u] EXCEPT !.here = FALSE]
        BY <2>x, <3>1, <4>3 DEF Row
      <4>4. CASE acct'[u] = acct[u] /\ ~acct[u].here
        BY <4>4
      <4>5. acct'[u] \in {Edited(d), [acct[u] EXCEPT !.here = FALSE]} \/ (acct'[u] = acct[u] /\ ~acct[u].here)
        BY <2>3, <3>1, Zenon DEF WriteAccount, Shapes
      <4> QED BY <4>2, <4>3, <4>4, <4>5
    <3> HIDE DEF u
    <3>5. /\ ended'[u] \subseteq tokens[u]
          /\ acct'[u].here => \A g \in tokens[u] : g <= acct'[u].gen
          /\ acct'[u].here => \A g \in ended'[u] : g < acct'[u].gen
      <4>1. CASE Revokes(d)
        BY <2>x, <3>1, <3>3, <3>4, <4>1 DEF GensGoUp
      <4>2. CASE ~Revokes(d)
        BY <2>x, <3>1, <3>3, <3>4, <4>2 DEF GensGoUp
      <4> QED BY <4>1, <4>2
    <3> QED BY <3>2, <3>5 DEF GensGoUp
  <2>4. CASE UNCHANGED <<acct, tokens, ended>>
    BY <2>4 DEF GensGoUp
  <2> QED BY <2>1, <2>2, <2>3, <2>4 DEF AccountNext, Authenticate, Load, CountAdmins, acctVars
<1>3. Shapes /\ GensGoUp => RevocationHolds
  <2> SUFFICES ASSUME Shapes, GensGoUp, NEW u \in Users, acct[u].here, acct[u].gen \in ended[u] PROVE FALSE
    BY DEF RevocationHolds
  <2>1. acct[u].gen < acct[u].gen /\ acct[u].gen \in Nat
    BY DEF GensGoUp, Shapes, Row
  <2> QED BY <2>1
<1> QED BY <1>1, <1>2, <1>3, ShapesKept, PTL DEF AccountSpec

-----------------------------------------------------------------------------
(* While no two handlers overlapped: the one at work knows the row it loaded *)
(* as it still is, its caller is still an admin, and one that is about to    *)
(* take an admin away has seen another.                                      *)
Busied(d) == desk[d].op # "none"

Undisturbed(d) ==
  /\ desk[d].by \in Users /\ (desk[d].op # "logout" => ActiveAdmin(desk[d].by))
  /\ desk[d].op = "delete" => desk[d].on # desk[d].by
  /\ desk[d].op # "update" => desk[d].new = NoUpdate
  /\ desk[d].at \in {"count", "write"} => acct[desk[d].on].here /\ desk[d].row = acct[desk[d].on]
  /\ DeskAt(d, "write") /\ desk[d].op = "update" /\ TakesAdminAway(desk[d].row, desk[d].new)
       => \E u \in Users \ {desk[d].on} : ActiveAdmin(u)

OneAtWork ==
  ~raced => /\ \E u \in Users : ActiveAdmin(u)
            /\ \A d, e \in Desks : Busied(d) /\ Busied(e) => d = e
            /\ \A d \in Desks : Busied(d) => Undisturbed(d)

(* What a handler writes over the row it loaded, unless it takes an admin    *)
(* away, leaves an admin one.                                                *)
LEMMA EditedKeepsAdmin ==
  ASSUME Shapes, NEW d \in Desks, desk[d].on \in Users, ActiveAdmin(desk[d].on),
         desk[d].row = acct[desk[d].on], ~TakesAdminAway(desk[d].row, desk[d].new)
  PROVE  Edited(d).role = "admin" /\ Edited(d).active
<1> DEFINE old == desk[d].row
           new == desk[d].new
<1>1. old = acct[desk[d].on] /\ old \in Row /\ new \in Updates /\ old.role = "admin" /\ old.active
  BY DEF Shapes, DeskState, ActiveAdmin
<1>2. new.role \in {"keep", "admin"} /\ new.active \in {"keep", "on"}
  BY <1>1 DEF TakesAdminAway, Updates, Roles
<1>3. Edited(d).role = "admin"
  BY <1>1, <1>2 DEF Edited, Row
<1>4. new.active = "keep" \/ (new.active = "on") = old.active
  <2>1. CASE new.active = "on"
    <3>1. old.active = TRUE
      BY <1>1 DEF Row
    <3> QED BY <2>1, <3>1, Zenon
  <2> QED BY <1>2, <2>1
<1>5. \A a : [old EXCEPT !.role = a, !.active = old.active].active = old.active
  BY <1>1 DEF Row
<1>6. Edited(d).active = old.active
  BY <1>1, <1>4, Zenon DEF Edited, Row
<1> QED BY <1>1, <1>3, <1>6, Zenon

(* The town keeps an active admin as long as edits of accounts do not        *)
(* overlap: the caller of a delete, the admin a demotion counted, or the     *)
(* account that is edited is one.                                            *)
THEOREM AdminRemains == AccountSpec => []TownKeepsAdmin
<1>1. AccountInit => OneAtWork
  <2> SUFFICES ASSUME AccountInit PROVE OneAtWork
    OBVIOUS
  <2>1. PICK u \in FirstAdmins : u \in Users
    BY FirstAdminsExist
  <2>2. ActiveAdmin(u)
    BY <2>1 DEF AccountInit, ActiveAdmin, NoRow
  <2>3. \A d \in Desks : ~Busied(d)
    BY DEF AccountInit, Busied, NoDesk
  <2> QED BY <2>1, <2>2, <2>3 DEF OneAtWork
<1>2. Shapes /\ OneAtWork /\ [AccountNext]_acctVars => OneAtWork'
  <2> SUFFICES ASSUME Shapes, OneAtWork, [AccountNext]_acctVars, ~raced' PROVE OneAtWork'
    BY DEF OneAtWork
  <2>r. ~raced
    <3>1. \/ UNCHANGED raced
          \/ \E d \in Desks : raced' = (raced \/ \E x \in Desks \ {d} : desk[x].op # "none")
      BY DEF AccountNext, SignIn, CreateUser, Authenticate, Load, CountAdmins, WriteAccount, acctVars
    <3> QED BY <3>1, Zenon
  <2>w. /\ \E u \in Users : ActiveAdmin(u)
        /\ \A d, e \in Desks : Busied(d) /\ Busied(e) => d = e
        /\ \A d \in Desks : Busied(d) => Undisturbed(d)
    BY <2>r DEF OneAtWork
  <2>x. /\ \A u \in Users : acct[u] \in Row
        /\ \A d \in Desks : desk[d] \in DeskState
        /\ \A d \in Desks : Busied(d) => desk[d].on \in Users
        /\ NoDesk.op = "none"
    BY DEF Shapes, NoDesk, Busied
  <2>1. CASE UNCHANGED <<acct, desk>>
    BY <2>1, <2>w DEF OneAtWork, Busied, Undisturbed, ActiveAdmin, DeskAt
  <2>2. ASSUME NEW by \in Users, NEW u \in Users, NEW role \in Roles, CreateUser(by, u, role)
        PROVE OneAtWork'
    <3>1. desk' = desk /\ ~acct[u].here /\ \A v \in Users : v # u => acct'[v] = acct[v]
      BY <2>2 DEF CreateUser, Shapes
    <3>2. \A v \in Users : acct[v].here => acct'[v] = acct[v]
      BY <3>1
    <3>3. \A v \in Users : ActiveAdmin(v) => ActiveAdmin(v)'
      BY <3>2 DEF ActiveAdmin
    <3>4. \A d \in Desks : Busied(d) => Undisturbed(d)'
      BY <2>w, <2>x, <3>1, <3>2, <3>3 DEF Undisturbed, DeskAt
    <3> QED BY <2>w, <3>1, <3>3, <3>4 DEF OneAtWork, Busied
  <2>3. ASSUME NEW d \in Desks, NEW by \in Users, NEW on \in Users, NEW op \in Ops, NEW new \in Updates,
               Authenticate(d, by, on, op, new)
        PROVE OneAtWork'
    <3> DEFINE mine == [NoDesk EXCEPT !.op = op, !.at = "load", !.by = by, !.on = on, !.new = new]
    <3>1. /\ mine.op = op /\ mine.at = "load" /\ mine.by = by /\ mine.on = on /\ mine.new = new
      BY DEF NoDesk
    <3>2. desk' = [desk EXCEPT ![d] = mine] /\ acct' = acct
      <4>1. desk' = [desk EXCEPT ![d] = mine]
        BY <2>3, Zenon DEF Authenticate
      <4>2. acct' = acct
        BY <2>3, Zenon DEF Authenticate
      <4> QED BY <4>1, <4>2
    <3>3. \A x \in Desks \ {d} : ~Busied(x)
      BY <2>3, Zenon DEF Authenticate, Busied
    <3>4. /\ op # "logout" => ActiveAdmin(by)
          /\ op = "delete" => on # by
          /\ op # "update" => new = NoUpdate
      BY <2>3 DEF Authenticate, SignedIn, ActiveAdmin
    <3> HIDE DEF mine
    <3>5. desk'[d] = mine /\ \A x \in Desks \ {d} : desk'[x] = desk[x]
      BY <3>2 DEF Shapes
    <3>6. Undisturbed(d)'
      BY <3>1, <3>2, <3>4, <3>5 DEF Undisturbed, ActiveAdmin, DeskAt
    <3> QED BY <2>w, <3>2, <3>3, <3>5, <3>6 DEF OneAtWork, Busied, ActiveAdmin
  <2>4. ASSUME NEW d \in Desks, Load(d) PROVE OneAtWork'
    <3>0. Busied(d) /\ desk[d].on \in Users /\ acct' = acct
      BY <2>4, <2>x DEF Load, DeskAt, Busied
    <3> DEFINE next == IF desk[d].op = "update" /\ TakesAdminAway(acct[desk[d].on], desk[d].new)
                       THEN "count" ELSE "write"
               mine == [desk[d] EXCEPT !.at = next, !.row = acct[desk[d].on]]
    <3>1. desk' = [desk EXCEPT ![d] = IF acct[desk[d].on].here THEN mine ELSE NoDesk]
      BY <2>4 DEF Load, Answer
    <3>2. /\ mine.op = desk[d].op /\ mine.at = next /\ mine.by = desk[d].by /\ mine.on = desk[d].on
          /\ mine.new = desk[d].new /\ mine.row = acct[desk[d].on]
      BY <2>x DEF DeskState
    <3>3. next = "write" => ~(desk[d].op = "update" /\ TakesAdminAway(acct[desk[d].on], desk[d].new))
      OBVIOUS
    <3> HIDE DEF mine, next
    <3>4. \A x \in Desks \ {d} : desk'[x] = desk[x] /\ ~Busied(x)
      BY <2>w, <3>0, <3>1 DEF Shapes
    <3>5. CASE acct[desk[d].on].here
      <4>1. desk'[d] = mine
        BY <3>1, <3>5 DEF Shapes
      <4>2. Undisturbed(d)'
        BY <2>w, <3>0, <3>2, <3>3, <3>5, <4>1 DEF Undisturbed, ActiveAdmin, DeskAt
      <4> QED BY <2>w, <3>0, <3>4, <4>2 DEF OneAtWork, Busied, ActiveAdmin
    <3>6. CASE ~acct[desk[d].on].here
      <4>1. \A x \in Desks : ~Busied(x)'
        BY <2>x, <3>1, <3>4, <3>6 DEF Shapes, Busied
      <4> QED BY <2>w, <3>0, <4>1 DEF OneAtWork, ActiveAdmin
    <3> QED BY <3>5, <3>6
  <2>5. ASSUME NEW d \in Desks, CountAdmins(d) PROVE OneAtWork'
    <3>0. Busied(d) /\ desk[d].on \in Users /\ acct' = acct
      BY <2>5, <2>x DEF CountAdmins, DeskAt, Busied
    <3> DEFINE mine == [desk[d] EXCEPT !.at = "write"]
    <3>2. /\ mine.op = desk[d].op /\ mine.at = "write" /\ mine.by = desk[d].by /\ mine.on = desk[d].on
          /\ mine.new = desk[d].new /\ mine.row = desk[d].row
      BY <2>x DEF DeskState
    <3>3. \/ desk' = [desk EXCEPT ![d] = mine] /\ \E u \in Users \ {desk[d].on} : ActiveAdmin(u)
          \/ desk' = [desk EXCEPT ![d] = NoDesk]
      BY <2>5, Zenon DEF CountAdmins, Answer
    <3>4. desk[d].at = "count"
      BY <2>5 DEF CountAdmins, DeskAt
    <3> HIDE DEF mine
    <3>5. \A x \in Desks \ {d} : desk'[x] = desk[x] /\ ~Busied(x)
      BY <2>w, <3>0, <3>3 DEF Shapes
    <3>6. CASE desk' = [desk EXCEPT ![d] = mine] /\ \E u \in Users \ {desk[d].on} : ActiveAdmin(u)
      <4>1. desk'[d] = mine
        BY <3>6 DEF Shapes
      <4>2. Undisturbed(d)'
        BY <2>w, <3>0, <3>2, <3>4, <3>6, <4>1 DEF Undisturbed, ActiveAdmin, DeskAt
      <4> QED BY <2>w, <3>0, <3>5, <4>2 DEF OneAtWork, Busied, ActiveAdmin
    <3>7. CASE desk' = [desk EXCEPT ![d] = NoDesk]
      <4>1. \A x \in Desks : ~Busied(x)'
        BY <2>x, <3>5, <3>7 DEF Shapes, Busied
      <4> QED BY <2>w, <3>0, <4>1 DEF OneAtWork, ActiveAdmin
    <3> QED BY <3>3, <3>6, <3>7
  <2>6. ASSUME NEW d \in Desks, WriteAccount(d) PROVE OneAtWork'
    <3>o. Busied(d) /\ desk[d].on \in Users
      BY <2>6, <2>x DEF WriteAccount, DeskAt, Busied
    <3>p. PICK on \in Users : on = desk[d].on
      BY <3>o
    <3>1. Busied(d) /\ DeskAt(d, "write") /\ Undisturbed(d)
      BY <2>6, <2>w, <3>o DEF WriteAccount
    <3>2. \A x \in Desks : ~Busied(x)'
      BY <2>6, <2>w, <2>x, <3>o DEF WriteAccount, Answer, Shapes, Busied
    <3>3. \A v \in Users : v # on => acct'[v] = acct[v]
      BY <2>6, <3>p DEF WriteAccount, Shapes
    <3>4. \A v \in Users : v # on /\ ActiveAdmin(v) => ActiveAdmin(v)'
      BY <3>3 DEF ActiveAdmin
    <3>5. acct[on].here /\ desk[d].row = acct[on]
      BY <3>1, <3>p DEF Undisturbed, DeskAt
    <3>6. CASE desk[d].op = "delete"
      <4>1. ActiveAdmin(desk[d].by) /\ desk[d].by # on /\ desk[d].by \in Users
        BY <3>1, <3>p, <3>6 DEF Undisturbed
      <4> QED BY <3>2, <3>4, <4>1 DEF OneAtWork
    <3>7. CASE desk[d].op # "delete" /\ TakesAdminAway(desk[d].row, desk[d].new)
      <4>1. desk[d].op = "update"
        BY <3>1, <3>7 DEF Undisturbed, TakesAdminAway, NoUpdate
      <4> QED BY <3>1, <3>2, <3>4, <3>7, <3>p, <4>1 DEF OneAtWork, Undisturbed
    <3>8. CASE desk[d].op # "delete" /\ ~TakesAdminAway(desk[d].row, desk[d].new)
      <4>1. acct'[on] = Edited(d)
        BY <2>6, <3>p, <3>5, <3>8 DEF WriteAccount, Shapes
      <4>2. ASSUME ActiveAdmin(on) PROVE ActiveAdmin(on)'
        <5>1. Edited(d).role = "admin" /\ Edited(d).active
          BY <3>p, <3>5, <3>8, <4>2, EditedKeepsAdmin
        <5>2. Edited(d).here = acct[on].here
          BY <3>p, EditedIsRow
        <5> QED BY <3>5, <4>1, <5>1, <5>2 DEF ActiveAdmin
      <4>3. PICK v \in Users : ActiveAdmin(v)
        BY <2>w
      <4>4. \E v2 \in Users : ActiveAdmin(v2)'
        <5>1. CASE v = on
          BY <4>2, <4>3, <5>1
        <5>2. CASE v # on
          BY <3>4, <4>3, <5>2
        <5> QED BY <5>1, <5>2
      <4> QED BY <3>2, <4>4 DEF OneAtWork
    <3> QED BY <3>6, <3>7, <3>8
  <2> QED BY <2>1, <2>2, <2>3, <2>4, <2>5, <2>6 DEF AccountNext, SignIn, acctVars
<1>3. OneAtWork => TownKeepsAdmin
  BY Zenon DEF OneAtWork, TownKeepsAdmin
<1> QED BY <1>1, <1>2, <1>3, ShapesKept, PTL DEF AccountSpec

-----------------------------------------------------------------------------
(* A generation moves on once for a handler that was started, and a handler  *)
(* at work has not moved one on yet: the two together are no more than the   *)
(* handlers started so far.                                                  *)
AtWork == {d \in Desks : Busied(d)}

FewGens ==
  /\ edits \in 0..MaxEdits /\ raced \in BOOLEAN
  /\ IsFiniteSet(AtWork) /\ Cardinality(AtWork) <= edits
  /\ \A u \in Users : /\ acct[u].gen + Cardinality(AtWork) <= edits
                      /\ tokens[u] \subseteq 0..edits /\ ended[u] \subseteq 0..edits
  /\ \A d \in Desks : desk[d].row.gen <= edits

(* A handler that answers is at work no more; one that goes on still is.     *)
LEMMA WorkGoesOn ==
  ASSUME Shapes, FewGens, NEW d \in Desks, Busied(d), NEW new \in DeskState, new.row.gen <= edits,
         desk' = [desk EXCEPT ![d] = new], UNCHANGED <<edits, raced, tokens>>,
         \A u \in Users : ended'[u] \subseteq ended[u] \cup tokens[u],
         \/ acct' = acct
         \/ new.op = "none" /\ \A u \in Users : acct'[u].gen \in {acct[u].gen, acct[u].gen + 1}
  PROVE  FewGens'
<1>1. \A x \in Desks : desk'[x] = IF x = d THEN new ELSE desk[x]
  BY DEF Shapes
<1>2. d \in AtWork /\ edits \in Nat /\ MaxEdits \in Nat
  BY EditsAreNat DEF AtWork, FewGens
<1>3. AtWork' = IF new.op = "none" THEN AtWork \ {d} ELSE AtWork
  BY <1>1, <1>2 DEF AtWork, Busied
<1>4. /\ IsFiniteSet(AtWork \ {d}) /\ Cardinality(AtWork \ {d}) = Cardinality(AtWork) - 1
      /\ Cardinality(AtWork) \in Nat
  BY <1>2, FS_RemoveElement, FS_CardinalityType DEF FewGens
<1>5. IsFiniteSet(AtWork') /\ Cardinality(AtWork') \in Nat /\ Cardinality(AtWork') <= Cardinality(AtWork)
      /\ (new.op = "none" => Cardinality(AtWork') = Cardinality(AtWork) - 1)
  <2>1. CASE new.op = "none"
    BY <2>1, <1>3, <1>4, FS_CardinalityType
  <2>2. CASE new.op # "none"
    BY <2>2, <1>3, <1>4 DEF FewGens
  <2> QED BY <2>1, <2>2
<1>6. \A u \in Users : acct'[u].gen + Cardinality(AtWork') <= edits
  <2> SUFFICES ASSUME NEW u \in Users PROVE acct'[u].gen + Cardinality(AtWork') <= edits
    OBVIOUS
  <2>1. acct[u].gen \in Nat /\ acct[u].gen + Cardinality(AtWork) <= edits
    BY DEF Shapes, Row, FewGens
  <2>2. CASE acct' = acct
    BY <1>2, <1>4, <1>5, <2>1, <2>2
  <2>3. CASE new.op = "none" /\ acct'[u].gen \in {acct[u].gen, acct[u].gen + 1}
    BY <1>2, <1>4, <1>5, <2>1, <2>3
  <2> QED BY <2>2, <2>3
<1>7. \A x \in Desks : desk'[x].row.gen <= edits
  BY <1>1 DEF FewGens
<1>8. \A u \in Users : tokens'[u] \subseteq 0..edits /\ ended'[u] \subseteq 0..edits
  BY DEF FewGens
<1>9. edits' \in 0..MaxEdits /\ raced' \in BOOLEAN
  BY Zenon DEF FewGens
<1>10. Cardinality(AtWork') <= edits
  BY <1>2, <1>4, <1>5 DEF FewGens
<1> QED BY <1>5, <1>6, <1>7, <1>8, <1>9, <1>10 DEF FewGens

LEMMA GensAreFew == AccountSpec => []FewGens
<1>1. AccountInit => FewGens
  <2> SUFFICES ASSUME AccountInit PROVE FewGens
    OBVIOUS
  <2>1. edits = 0 /\ raced = FALSE /\ desk = [d \in Desks |-> NoDesk]
    BY Zenon DEF AccountInit
  <2>2. \A u \in Users : acct[u].gen = 0 /\ tokens[u] = {} /\ ended[u] = {}
    BY DEF AccountInit, NoRow
  <2>3. AtWork = {}
    BY <2>1 DEF AtWork, Busied, NoDesk
  <2>4. \A d \in Desks : desk[d].row.gen = 0
    BY <2>1 DEF NoDesk, NoRow
  <2>5. IsFiniteSet(AtWork) /\ Cardinality(AtWork) = 0
    BY <2>3, FS_EmptySet
  <2>6. edits \in 0..MaxEdits /\ edits = 0 /\ raced \in BOOLEAN
    <3>1. edits = 0 /\ raced \in BOOLEAN
      BY <2>1, Zenon
    <3>2. 0 \in 0..MaxEdits
      BY EditsAreNat
    <3> QED BY <3>1, <3>2, Zenon
  <2> HIDE DEF AtWork
  <2>7. \A u \in Users : acct[u].gen + Cardinality(AtWork) <= edits
    BY <2>2, <2>5, <2>6
  <2>8. /\ \A u \in Users : tokens[u] \subseteq 0..edits /\ ended[u] \subseteq 0..edits
        /\ \A d \in Desks : desk[d].row.gen <= edits
        /\ Cardinality(AtWork) <= edits
    BY <2>2, <2>4, <2>5, <2>6
  <2> QED BY <2>5, <2>6, <2>7, <2>8, Zenon DEF FewGens
<1>2. Shapes /\ Shapes' /\ FewGens /\ [AccountNext]_acctVars => FewGens'
  <2> SUFFICES ASSUME Shapes, Shapes', FewGens, [AccountNext]_acctVars PROVE FewGens'
    OBVIOUS
  <2>t. /\ edits \in Nat /\ MaxEdits \in Nat /\ IsFiniteSet(AtWork) /\ Cardinality(AtWork) \in Nat
        /\ \A u \in Users : acct[u].gen \in Nat /\ acct[u].gen <= edits
    <3>1. /\ edits \in Nat /\ MaxEdits \in Nat /\ IsFiniteSet(AtWork) /\ Cardinality(AtWork) \in Nat
          /\ \A u \in Users : acct[u].gen \in Nat
      BY EditsAreNat, FS_CardinalityType DEF FewGens, Shapes, Row
    <3> QED BY <3>1 DEF FewGens
  <2>u. \A x \in Desks : desk[x].row \in Row /\ desk[x].row.gen \in Nat /\ desk[x].row.gen <= edits
    BY DEF Shapes, DeskState, Row, FewGens
  <2>n. NoDesk \in DeskState /\ NoDesk.row.gen <= edits /\ NoDesk.op = "none"
    BY <2>t, IdleDeskShaped DEF NoDesk, NoRow
  <2>1. ASSUME NEW u \in Users, SignIn(u) PROVE FewGens'
    <3>1. UNCHANGED <<acct, desk, edits, ended, raced>> /\ AtWork' = AtWork
      BY <2>1 DEF SignIn, AtWork, Busied
    <3>2. \A x \in Users : tokens'[x] \subseteq tokens[x] \cup {acct[u].gen}
      BY <2>1 DEF SignIn, Shapes
    <3>3. \A x \in Users : tokens'[x] \subseteq 0..edits
      BY <2>t, <3>2 DEF FewGens
    <3> QED BY <3>1, <3>3 DEF FewGens
  <2>2. ASSUME NEW by \in Users, NEW u \in Users, NEW role \in Roles, CreateUser(by, u, role) PROVE FewGens'
    <3>1. UNCHANGED <<tokens, desk, ended, raced>> /\ AtWork' = AtWork /\ edits' = edits + 1 /\ edits < MaxEdits
      BY <2>2 DEF CreateUser, AtWork, Busied
    <3>2. \A x \in Users : acct'[x].gen \in {acct[x].gen, 0}
      BY <2>2 DEF CreateUser, Shapes
    <3>3. \A x \in Users : acct'[x].gen + Cardinality(AtWork) <= edits'
      BY <2>t, <3>1, <3>2 DEF FewGens
    <3>4. 0..edits \subseteq 0..edits' /\ edits' \in 0..MaxEdits /\ edits <= edits'
      BY <2>t, <3>1
    <3>5. \A x \in Desks : desk'[x].row.gen <= edits'
      BY <2>t, <2>u, <3>1
    <3> QED BY <2>t, <3>1, <3>3, <3>4, <3>5 DEF FewGens
  <2>3. ASSUME NEW d \in Desks, NEW by \in Users, NEW on \in Users, NEW op \in Ops, NEW new \in Updates,
               Authenticate(d, by, on, op, new)
        PROVE FewGens'
    <3> DEFINE mine == [NoDesk EXCEPT !.op = op, !.at = "load", !.by = by, !.on = on, !.new = new]
    <3>1. mine.row.gen = 0 /\ mine.op = op /\ op # "none"
      BY DEF NoDesk, NoRow, Ops
    <3>2. desk' = [desk EXCEPT ![d] = mine] /\ UNCHANGED <<acct, tokens, ended>> /\ desk[d].op = "none"
          /\ edits < MaxEdits /\ edits' = edits + 1
      BY <2>3, Zenon DEF Authenticate
    <3>r. raced' \in BOOLEAN
      BY <2>3, Zenon DEF Authenticate
    <3> HIDE DEF mine
    <3>3. \A x \in Desks : desk'[x] = IF x = d THEN mine ELSE desk[x]
      BY <3>2 DEF Shapes
    <3>4. d \notin AtWork /\ AtWork' = AtWork \cup {d}
      BY <3>1, <3>2, <3>3 DEF AtWork, Busied
    <3>5. IsFiniteSet(AtWork') /\ Cardinality(AtWork') = Cardinality(AtWork) + 1
      BY <2>t, <3>4, FS_AddElement
    <3>6. \A x \in Users : acct'[x].gen + Cardinality(AtWork') <= edits'
      BY <2>t, <3>2, <3>5 DEF FewGens
    <3>7. 0..edits \subseteq 0..edits' /\ edits' \in 0..MaxEdits /\ edits <= edits'
      BY <2>t, <3>2
    <3>8. \A x \in Desks : desk'[x].row.gen <= edits'
      BY <2>t, <2>u, <3>1, <3>2, <3>3
    <3> QED BY <2>t, <3>r, <3>2, <3>5, <3>6, <3>7, <3>8 DEF FewGens
  <2>4. ASSUME NEW d \in Desks, Load(d) PROVE FewGens'
    <3>1. \A at \in {"count", "write"}, row \in Row :
             /\ [desk[d] EXCEPT !.at = at, !.row = row] \in DeskState
             /\ [desk[d] EXCEPT !.at = at, !.row = row].row = row
      BY DEF DeskState, Shapes
    <3>2. desk[d].on \in Users /\ Busied(d)
      BY <2>4 DEF Load, DeskAt, Shapes, Busied
    <3>3. PICK at \in {"count", "write"} :
             desk' \in {[desk EXCEPT ![d] = [desk[d] EXCEPT !.at = at, !.row = acct[desk[d].on]]],
                       [desk EXCEPT ![d] = NoDesk]}
      BY <2>4, Zenon DEF Load, Answer
    <3>4. UNCHANGED <<acct, tokens, edits, ended, raced>>
      BY <2>4, Zenon DEF Load
    <3>5. acct[desk[d].on] \in Row /\ acct[desk[d].on].gen <= edits
      BY <2>t, <3>2 DEF Shapes
    <3>6. PICK new \in DeskState : desk' = [desk EXCEPT ![d] = new] /\ new.row.gen <= edits
      <4>1. CASE desk' = [desk EXCEPT ![d] = NoDesk]
        BY <2>n, <4>1
      <4>2. CASE desk' = [desk EXCEPT ![d] = [desk[d] EXCEPT !.at = at, !.row = acct[desk[d].on]]]
        <5> DEFINE mine == [desk[d] EXCEPT !.at = at, !.row = acct[desk[d].on]]
        <5>1. mine \in DeskState /\ mine.row.gen <= edits
          BY <3>1, <3>5
        <5> HIDE DEF mine
        <5> QED BY <4>2, <5>1 DEF mine
      <4> QED BY <3>3, <4>1, <4>2
    <3> QED BY <3>2, <3>4, <3>6, WorkGoesOn
  <2>5. ASSUME NEW d \in Desks, CountAdmins(d) PROVE FewGens'
    <3>1. Busied(d) /\ UNCHANGED <<acct, tokens, edits, ended, raced>>
      BY <2>5 DEF CountAdmins, DeskAt, Busied
    <3>2. /\ [desk[d] EXCEPT !.at = "write"] \in DeskState
          /\ [desk[d] EXCEPT !.at = "write"].row = desk[d].row
      BY DEF Shapes, DeskState
    <3>3. desk' \in {[desk EXCEPT ![d] = [desk[d] EXCEPT !.at = "write"]], [desk EXCEPT ![d] = NoDesk]}
      BY <2>5, Zenon DEF CountAdmins, Answer
    <3>4. PICK new \in DeskState : desk' = [desk EXCEPT ![d] = new] /\ new.row.gen <= edits
      BY <2>n, <2>u, <3>2, <3>3
    <3> QED BY <3>1, <3>4, WorkGoesOn
  <2>6. ASSUME NEW d \in Desks, WriteAccount(d) PROVE FewGens'
    <3>1. Busied(d) /\ desk[d].on \in Users /\ desk' = [desk EXCEPT ![d] = NoDesk]
          /\ UNCHANGED <<tokens, edits, raced>>
      BY <2>6 DEF WriteAccount, Answer, DeskAt, Busied, Shapes
    <3>2. Edited(d).gen \in {acct[desk[d].on].gen, acct[desk[d].on].gen + 1}
      BY <3>1, EditedIsRow
    <3>3. \A u \in Users : ended'[u] \subseteq ended[u] \cup tokens[u]
      BY <2>6 DEF WriteAccount, Shapes
    <3>4. [acct[desk[d].on] EXCEPT !.here = FALSE].gen = acct[desk[d].on].gen
      BY <3>1 DEF Shapes, Row
    <3>5. \A u \in Users : acct'[u].gen \in {acct[u].gen, acct[u].gen + 1}
      <4>1. PICK new \in {[acct[desk[d].on] EXCEPT !.here = FALSE], Edited(d), acct[desk[d].on]} :
              acct' = [acct EXCEPT ![desk[d].on] = new]
        BY <2>6, Zenon DEF WriteAccount
      <4> QED BY <3>1, <3>2, <3>4, <4>1 DEF Shapes
    <3> QED BY <2>n, <3>1, <3>3, <3>5, WorkGoesOn
  <2>7. CASE UNCHANGED acctVars
    BY <2>7 DEF acctVars, FewGens, AtWork, Busied
  <2> QED BY <2>1, <2>2, <2>3, <2>4, <2>5, <2>6, <2>7 DEF AccountNext
<1> QED BY <1>1, <1>2, ShapesKept, PTL DEF AccountSpec

(* Every action keeps the types, the bound of the generations with them.     *)
THEOREM AccountTyped == AccountSpec => []AccountTypeOK
<1>1. Shapes /\ FewGens => AccountTypeOK
  <2> SUFFICES ASSUME Shapes, FewGens PROVE AccountTypeOK
    OBVIOUS
  <2>1. edits \in Nat /\ 0..edits \subseteq Gens /\ IsFiniteSet(AtWork) /\ Cardinality(AtWork) \in Nat
    BY EditsAreNat, FS_CardinalityType DEF FewGens, Gens
  <2> DEFINE Known == [here : BOOLEAN, role : Roles, active : BOOLEAN, gen : Gens]
  <2>2. \A row \in Row : row.gen <= edits => row \in Known
    BY <2>1 DEF Row, Gens
  <2>3. \A u \in Users : acct[u] \in Row /\ acct[u].gen <= edits
    <3>1. \A u \in Users : acct[u] \in Row /\ acct[u].gen \in Nat
      BY DEF Shapes, Row
    <3> QED BY <2>1, <3>1 DEF FewGens
  <2>4. acct \in [Users -> Known]
    BY <2>2, <2>3 DEF Shapes
  <2>5. \A d \in Desks : desk[d] \in DeskState /\ desk[d].row \in Known
    <3>1. \A d \in Desks : desk[d] \in DeskState /\ desk[d].row \in Row
      BY DEF Shapes, DeskState
    <3> QED BY <2>2, <3>1 DEF FewGens
  <2> HIDE DEF Known
  <2>6. desk \in [Desks -> [op : Ops \cup {"none"}, at : {"auth", "load", "count", "write"},
                            by : Users \cup {NoUser}, on : Users \cup {NoUser}, new : Updates, row : Known]]
    BY <2>5 DEF Shapes, DeskState
  <2>7. tokens \in [Users -> SUBSET Gens] /\ ended \in [Users -> SUBSET Gens]
    BY <2>1 DEF Shapes, FewGens
  <2>8. edits \in 0..MaxEdits /\ raced \in BOOLEAN
    BY Zenon DEF FewGens
  <2> QED BY <2>4, <2>6, <2>7, <2>8 DEF AccountTypeOK, Known
<1> QED BY <1>1, ShapesKept, GensAreFew, PTL
=============================================================================
