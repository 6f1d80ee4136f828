---------------------------- MODULE OneTimeTokens ----------------------------
(***************************************************************************)
(* One single-use credential of a sign-in, in each of the three stores the  *)
(* code has: a login's state token (services/login_state.py: GET, then      *)
(* DELETE), a login code (services/one_time.py: GETDEL) and a burned        *)
(* identifier (one_time.burn, redeem_onboarding_token: a row under a unique *)
(* key).  The first two live in Redis, or in the memory of the process that *)
(* could not write there; every Redis call may fail before or after it took *)
(* effect.                                                                  *)
(***************************************************************************)
EXTENDS Naturals, FiniteSets

CONSTANTS
  Apis,            \* API processes, each with its own memory
  Redeemers,       \* requests that present the credential
  NoApi,
  MaxStoreFaults   \* bound: failed Redis calls and lost answers

ASSUME StoreFaultsAreNat == MaxStoreFaults \in Nat /\ NoApi \notin Apis

VARIABLES
  kind,       \* which credential this is
  issued,
  redis,      \* Redis holds it
  memory,     \* processes whose dictionary holds it
  burned,     \* its row is in system_secrets
  redeem,     \* what each request is doing, and in which process
  served,     \* redemptions that were accepted
  storeFaults,
  doubled,    \* history: it was stored in Redis and, the answer lost, in memory too
  both        \* history: two redemptions overlapped

tokenVars == <<kind, issued, redis, memory, burned, redeem, served, storeFaults, doubled, both>>

Waiting == [at |-> "new", api |-> NoApi]

(* Values stay in their types.                                               *)
TokenTypeOK ==
  /\ kind \in {"state", "code", "burn"} /\ issued \in BOOLEAN /\ redis \in BOOLEAN
  /\ memory \subseteq Apis /\ burned \in BOOLEAN /\ served \in Nat
  /\ redeem \in [Redeemers -> [at : {"new", "redis", "delete", "memory", "checked", "done"},
                               api : Apis \cup {NoApi}]]
  /\ storeFaults \in 0..MaxStoreFaults /\ doubled \in BOOLEAN /\ both \in BOOLEAN

TokenInit ==
  /\ kind \in {"state", "code", "burn"} /\ issued = FALSE /\ redis = FALSE /\ memory = {}
  /\ burned = FALSE /\ redeem = [r \in Redeemers |-> Waiting] /\ served = 0
  /\ storeFaults = 0 /\ doubled = FALSE /\ both = FALSE

StoreFault == storeFaults < MaxStoreFaults /\ storeFaults' = storeFaults + 1
On(r, at) == redeem[r].at = at
Then(r, at) == redeem' = [redeem EXCEPT ![r].at = at]
Serve(r) == Then(r, "done") /\ served' = served + 1

-----------------------------------------------------------------------------
(* remember, issue_login_code: Redis, or this process's memory.  A signed    *)
(* token (burn) is stored nowhere before it is used.                         *)
Issue(p) ==
  /\ ~issued /\ issued' = TRUE
  /\ \/ redis' = (kind # "burn") /\ UNCHANGED <<memory, storeFaults, doubled>>
     \/ /\ kind # "burn" /\ StoreFault /\ memory' = memory \cup {p}
        /\ redis' \in BOOLEAN /\ doubled' = redis'
  /\ UNCHANGED <<kind, burned, redeem, served, both>>

(* A TTL runs out; a process restarts and its memory is gone.                *)
TokenExpires ==
  /\ issued /\ (redis \/ memory # {}) /\ redis' = FALSE /\ memory' = {}
  /\ UNCHANGED <<kind, issued, burned, redeem, served, storeFaults, doubled, both>>

ApiRestarts(p) ==
  /\ p \in memory /\ memory' = memory \ {p}
  /\ UNCHANGED <<kind, issued, redis, burned, redeem, served, storeFaults, doubled, both>>

Present(r, p) ==
  /\ issued /\ On(r, "new")
  /\ redeem' = [redeem EXCEPT ![r] = [at |-> "redis", api |-> p]]
  /\ both' = (both \/ \E x \in Redeemers \ {r} : redeem[x].at \notin {"new", "done"})
  /\ UNCHANGED <<kind, issued, redis, memory, burned, served, storeFaults, doubled>>

(* consume: GET ...                                                          *)
GetState(r) ==
  /\ kind = "state" /\ On(r, "redis") /\ Then(r, IF redis THEN "delete" ELSE "memory")
  /\ UNCHANGED <<kind, issued, redis, memory, burned, served, storeFaults, doubled, both>>

(* ... then DELETE, whose answer does not say whether there was anything.    *)
DeleteState(r) ==
  /\ On(r, "delete") /\ redis' = FALSE /\ Serve(r)
  /\ UNCHANGED <<kind, issued, memory, burned, storeFaults, doubled, both>>

(* redeem_login_code: GETDEL is one step.                                    *)
LeftInRedisMutant == redis
LeftInRedis == FALSE

GetDelCode(r) ==
  /\ kind = "code" /\ On(r, "redis") /\ redis' = LeftInRedis
  /\ IF redis THEN Serve(r) ELSE Then(r, "memory") /\ UNCHANGED served
  /\ UNCHANGED <<kind, issued, memory, burned, storeFaults, doubled, both>>

(* A call of Redis raises, having taken effect or not: on to the memory.     *)
RedisRaises(r) ==
  /\ kind # "burn" /\ (On(r, "redis") \/ On(r, "delete")) /\ StoreFault /\ Then(r, "memory")
  /\ \/ UNCHANGED redis
     \/ (kind = "code" \/ On(r, "delete")) /\ redis' = FALSE
  /\ UNCHANGED <<kind, issued, memory, burned, served, doubled, both>>

PopMemory(r) ==
  /\ On(r, "memory") /\ memory' = memory \ {redeem[r].api}
  /\ IF redeem[r].api \in memory THEN Serve(r) ELSE Then(r, "done") /\ UNCHANGED served
  /\ UNCHANGED <<kind, issued, redis, burned, storeFaults, doubled, both>>

(* Onboarding looks the row up first; both insert it and commit, and the     *)
(* unique key lets one commit through.  An answer lost serves nobody.        *)
LookUpBurned(r) ==
  /\ kind = "burn" /\ On(r, "redis") /\ Then(r, IF burned THEN "done" ELSE "checked")
  /\ UNCHANGED <<kind, issued, redis, memory, burned, served, storeFaults, doubled, both>>

BurnToken(r) ==
  /\ kind = "burn" /\ (On(r, "redis") \/ On(r, "checked")) /\ burned' = TRUE
  /\ \/ ~burned /\ Serve(r) /\ UNCHANGED storeFaults
     \/ ~burned /\ StoreFault /\ Then(r, "done") /\ UNCHANGED served
     \/ burned /\ Then(r, "done") /\ UNCHANGED <<served, storeFaults>>
  /\ UNCHANGED <<kind, issued, redis, memory, doubled, both>>

RedeemSteps(r) ==
  \/ \E p \in Apis : Present(r, p)
  \/ GetState(r) \/ DeleteState(r) \/ GetDelCode(r) \/ RedisRaises(r) \/ PopMemory(r)
  \/ LookUpBurned(r) \/ BurnToken(r)

TokenNext ==
  \/ \E p \in Apis : Issue(p) \/ ApiRestarts(p)
  \/ TokenExpires
  \/ \E r \in Redeemers : RedeemSteps(r)

TokenSpec == TokenInit /\ [][TokenNext]_tokenVars

-----------------------------------------------------------------------------
(* "A state token that has already been redeemed must not open a second      *)
(* callback", and "two racing redemptions cannot both win": a credential is  *)
(* accepted once.  What the code does not rule out is a state token whose    *)
(* two callbacks overlap between GET and DELETE, and a value that one        *)
(* process kept in memory after Redis had stored it without answering.       *)
ServedOnce == served > 1 => doubled \/ (kind = "state" /\ both)
=============================================================================
