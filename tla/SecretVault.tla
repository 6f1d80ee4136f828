------------------------------ MODULE SecretVault ------------------------------
(***************************************************************************)
(* A town's credentials when its store is Google Secret Manager             *)
(* (services/secret_manager.py): many keys share one JSON bundle, which     *)
(* every write reads, changes and writes back whole, under a lock of the    *)
(* process; each process caches the bundle; and system_secrets keeps an     *)
(* encrypted copy of each key until the sweep (migrate_to_secret_manager)   *)
(* has copied it, read it back and scrubbed it.  Clerks save and clear      *)
(* keys, callers of delete_secret withdraw them, and a sweep may start at   *)
(* any time in any process: hourly, after each save, or from its button.    *)
(*                                                                         *)
(* Keys are of one bundle, and none is of DB_REQUIRED_KEYS.  The value of a *)
(* key is the number of the change that brought it; 0 is no value.            *)
(***************************************************************************)
EXTENDS Naturals, FiniteSets

CONSTANTS
  Secrets,            \* keys of one bundle
  Clerks,             \* requests that change a key, that may be going on at once
  Sweepers,           \* sweeps that may: a process's, the worker's
  Processes,          \* API processes and workers
  HomeOf,             \* the process a handler runs in
  NoHandler,
  MaxChanges,         \* bounds: saves, clearings and withdrawals,
  MaxVaultFaults      \* failed calls and killed processes

Handlers == Clerks \cup Sweepers

ASSUME HandlersLiveSomewhere == HomeOf \in [Handlers -> Processes]
ASSUME ClerksDoNotSweep == Clerks \cap Sweepers = {}
ASSUME NoHandlerIsNone == NoHandler \notin Handlers
ASSUME VaultBoundsAreNat == MaxChanges \in Nat /\ MaxVaultFaults \in Nat

VARIABLES
  bundle,      \* the latest version of the bundle in the store
  copy,        \* system_secrets: when the row was inserted, and its value
  cacheOf,     \* _secret_cache of each process
  bundleLock,  \* _bundle_lock of each process
  handler,     \* what each handler is doing
  newest,      \* history: the value of the last save or withdrawal that ended
  cleared,     \* history: keys whose last change was an empty save
  excused,     \* history: keys about which nothing is promised
  counts       \* [changes, faults] so far

vaultVars == <<bundle, copy, cacheOf, bundleLock, handler, newest, cleared, excused, counts>>

Values == 0..MaxChanges
Bundles == [Secrets -> Values]
Empty == [k \in Secrets |-> 0]
NoBundle == [k \in {} |-> 0]         \* nothing cached
VaultRows == [born : Values, value : Values]

NoRows == [k \in Secrets |-> [born |-> 0, value |-> 0]]

(* keys: what the handler is about; left: what its present loop has left;    *)
(* now: the key under the lock; loaded: a sweep's rows; good: the keys it    *)
(* wrote, and later those it read back.                                      *)
Idle == [doing |-> "none", at |-> "none", keys |-> {}, left |-> {}, now |-> {}, value |-> 0,
         held |-> Empty, loaded |-> NoRows, good |-> {}]

HandlerStates ==
  [doing : {"none", "save", "clear", "withdraw", "sweep"},
   at : {"none", "lock", "read", "write", "row", "verify", "scrub"},
   keys : SUBSET Secrets, left : SUBSET Secrets, now : SUBSET Secrets, value : Values,
   held : Bundles, loaded : [Secrets -> VaultRows], good : SUBSET Secrets]

(* Values stay in their types.                                               *)
VaultTypeOK ==
  /\ bundle \in Bundles /\ copy \in [Secrets -> VaultRows]
  /\ cacheOf \in [Processes -> Bundles \cup {NoBundle}]
  /\ bundleLock \in [Processes -> Handlers \cup {NoHandler}]
  /\ handler \in [Handlers -> HandlerStates] /\ newest \in Bundles
  /\ cleared \subseteq Secrets /\ excused \subseteq Secrets
  /\ counts \in [changes : Values, faults : 0..MaxVaultFaults]

VaultInit ==
  /\ bundle = Empty /\ copy = NoRows
  /\ cacheOf = [p \in Processes |-> NoBundle]
  /\ bundleLock = [p \in Processes |-> NoHandler]
  /\ handler = [h \in Handlers |-> Idle] /\ newest = Empty
  /\ cleared = {} /\ excused = {} /\ counts = [changes |-> 0, faults |-> 0]

-----------------------------------------------------------------------------
At(h, at) == handler[h].at = at
Doing(h, what) == handler[h].doing = what
Cached(h, b) == cacheOf' = [cacheOf EXCEPT ![HomeOf[h]] = b]
Faulty == counts.faults < MaxVaultFaults /\ counts' = [counts EXCEPT !.faults = @ + 1]

(* Two handlers about one key at once leave open which of them came last.    *)
(* Sweeps do not mind each other.                                            *)
Begin(h, job) ==
  /\ At(h, "none") /\ handler' = [handler EXCEPT ![h] = job]
  /\ excused' = excused \cup {k \in job.keys : \E g \in Handlers :
                   k \in handler[g].keys /\ {job.doing, handler[g].doing} # {"sweep"}}
  /\ UNCHANGED <<bundle, copy, cacheOf, bundleLock, newest, cleared>>

About(k, what, at, v) ==
  [Idle EXCEPT !.doing = what, !.at = at, !.keys = {k}, !.left = {k}, !.value = v]

Change == counts.changes < MaxChanges /\ counts' = [counts EXCEPT !.changes = @ + 1]

Save(h, k) ==
  /\ Change /\ Begin(h, About(k, "save", "lock", counts.changes + 1))

(* A blank value never reaches the store: only its row is written.           *)
Clear(h, k) == Change /\ Begin(h, About(k, "clear", "row", 0))

Withdraw(h, k) == Change /\ Begin(h, About(k, "withdraw", "lock", 0))

(* One query for all configured rows; the writes, the reads and the scrub    *)
(* that follow all work on what it returned.                                 *)
StartSweep(h) ==
  /\ LET full == {k \in Secrets : copy[k].value # 0}
     IN  full # {} /\ Begin(h, [Idle EXCEPT !.doing = "sweep", !.at = "lock", !.keys = full,
                                            !.left = full, !.loaded = copy])
  /\ UNCHANGED counts

-----------------------------------------------------------------------------
LockFreeMutant(h) == TRUE
LockFree(h) == bundleLock[HomeOf[h]] = NoHandler

(* The lock is the process's own: nothing keeps another process out.         *)
TakeLock(h, k) ==
  /\ At(h, "lock") /\ k \in handler[h].left /\ LockFree(h)
  /\ bundleLock' = [bundleLock EXCEPT ![HomeOf[h]] = h]
  /\ handler' = [handler EXCEPT ![h] = [@ EXCEPT !.at = "read", !.left = handler[h].left \ {k},
                                                 !.now = {k}]]
  /\ excused' = IF \E p \in Processes \ {HomeOf[h]} : bundleLock[p] # NoHandler
                THEN Secrets ELSE excused
  /\ UNCHANGED <<bundle, copy, cacheOf, newest, cleared, counts>>

Fresh(h) == bundle

(* force_refresh: the cache is not asked, only filled.                       *)
ReadBundle(h) ==
  /\ At(h, "read") /\ handler' = [handler EXCEPT ![h] = [@ EXCEPT !.at = "write", !.held = Fresh(h)]]
  /\ Cached(h, Fresh(h)) /\ UNCHANGED <<bundle, copy, bundleLock, newest, cleared, excused, counts>>

Unread == Empty

(* A read that fails is answered like a bundle that is empty.                *)
ReadFails(h) ==
  /\ At(h, "read") /\ Faulty
  /\ handler' = [handler EXCEPT ![h] = [@ EXCEPT !.at = "write", !.held = Unread]]
  /\ excused' = Secrets /\ UNCHANGED <<bundle, copy, cacheOf, bundleLock, newest, cleared>>

ValueFor(h, k) == IF Doing(h, "sweep") THEN handler[h].loaded[k].value ELSE handler[h].value
Changed(h) == [k \in Secrets |-> IF k \in handler[h].now THEN ValueFor(h, k) ELSE handler[h].held[k]]

(* After set_secret_sync or delete_secret_sync returned ok or not.  A save   *)
(* and a withdrawal go on to the row; a sweep to its next key and, after the *)
(* last, to the reading back of those that went well.                        *)
AfterWrite(h, ok) ==
  LET job == handler[h]
      good == IF ok THEN job.good \cup job.now ELSE job.good
  IN  IF job.doing # "sweep" THEN [job EXCEPT !.at = "row", !.now = {}, !.good = good, !.held = Empty]
      ELSE IF job.left # {} THEN [job EXCEPT !.at = "lock", !.now = {}, !.good = good, !.held = Empty]
      ELSE IF good # {} THEN [job EXCEPT !.at = "verify", !.now = {}, !.left = good, !.good = {}, !.held = Empty]
      ELSE Idle

Returned(h, ok) ==
  /\ handler' = [handler EXCEPT ![h] = AfterWrite(h, ok)]
  /\ bundleLock' = [bundleLock EXCEPT ![HomeOf[h]] = NoHandler]
  /\ UNCHANGED <<copy, newest, cleared, excused>>

Calls(h) == Doing(h, "withdraw") => Changed(h) # handler[h].held
LastOfSweep(h) == Doing(h, "sweep") /\ handler[h].left = {}
CacheForgotten(h) == cacheOf' = [cacheOf EXCEPT ![HomeOf[h]] = IF LastOfSweep(h) THEN NoBundle ELSE @]

(* clear_cache follows a save's write and the last write of a sweep.  A      *)
(* withdrawal of a key the bundle does not have writes nothing.              *)
WriteBundle(h) ==
  /\ At(h, "write") /\ bundle' = (IF Calls(h) THEN Changed(h) ELSE bundle)
  /\ Cached(h, IF Doing(h, "save") \/ LastOfSweep(h) THEN NoBundle ELSE Changed(h))
  /\ Returned(h, TRUE) /\ UNCHANGED counts

WriteRefused(h) ==
  /\ At(h, "write") /\ Calls(h) /\ Faulty
  /\ Returned(h, FALSE) /\ CacheForgotten(h) /\ UNCHANGED bundle

(* The new version is stored and the answer is lost.                         *)
WriteUnanswered(h) ==
  /\ At(h, "write") /\ Calls(h) /\ Faulty
  /\ bundle' = Changed(h) /\ Returned(h, FALSE) /\ CacheForgotten(h)

-----------------------------------------------------------------------------
RowOf(h, k) ==
  CASE Doing(h, "save") -> [born |-> IF copy[k].born = 0 THEN handler[h].value ELSE copy[k].born,
                            value |-> handler[h].value]
    [] Doing(h, "clear") -> [copy[k] EXCEPT !.value = 0]
    [] Doing(h, "withdraw") -> [born |-> 0, value |-> 0]

(* The clerk's commit, or _delete_secret_from_db.                            *)
WriteRow(h) ==
  /\ At(h, "row") /\ handler' = [handler EXCEPT ![h] = Idle]
  /\ LET ks == handler[h].keys
     IN  /\ copy' = [k \in Secrets |-> IF k \in ks THEN RowOf(h, k) ELSE copy[k]]
         /\ newest' = [k \in Secrets |-> IF k \in ks THEN handler[h].value ELSE newest[k]]
         /\ cleared' = IF Doing(h, "clear") THEN cleared \cup ks ELSE cleared \ ks
         /\ excused' = IF Doing(h, "withdraw") /\ handler[h].good = {} THEN excused \cup ks ELSE excused
  /\ UNCHANGED <<bundle, cacheOf, bundleLock, counts>>

(* get_secret: the bundle, or else the row.                                  *)
ReadsBack(k, b) == (b # NoBundle /\ b[k] # 0) \/ copy[k].value # 0

Verified(h, k, b) ==
  LET job == handler[h]
      good == IF ReadsBack(k, b) THEN job.good \cup {k} ELSE job.good
      rest == job.left \ {k}
  IN  /\ At(h, "verify") /\ k \in job.left
      /\ handler' = [handler EXCEPT ![h] =
            IF rest # {} THEN [job EXCEPT !.left = rest, !.good = good]
            ELSE IF good # {} THEN [job EXCEPT !.at = "scrub", !.left = {}, !.good = good]
            ELSE Idle]
      /\ UNCHANGED <<bundle, copy, bundleLock, newest, cleared, excused>>

Verify(h, k) ==
  LET mine == cacheOf[HomeOf[h]]
      b == IF mine = NoBundle THEN bundle ELSE mine
  IN  Verified(h, k, b) /\ Cached(h, b) /\ UNCHANGED counts

VerifyUnread(h, k) ==
  cacheOf[HomeOf[h]] = NoBundle /\ Verified(h, k, NoBundle) /\ Faulty /\ UNCHANGED cacheOf

(* One commit clears the rows of all verified keys, as they were loaded; a   *)
(* row that was deleted meanwhile fails it.                                  *)
Scrub(h) ==
  LET job == handler[h]
  IN  /\ At(h, "scrub") /\ handler' = [handler EXCEPT ![h] = Idle]
      /\ copy' = IF \E k \in job.good : copy[k].born # job.loaded[k].born THEN copy
                 ELSE [k \in Secrets |-> IF k \in job.good THEN [copy[k] EXCEPT !.value = 0] ELSE copy[k]]
      /\ UNCHANGED <<bundle, cacheOf, bundleLock, newest, cleared, excused, counts>>

-----------------------------------------------------------------------------
(* Somebody's get_secret fills the cache, or the cache's time is up.         *)
Lookup(p) ==
  /\ cacheOf[p] = NoBundle /\ cacheOf' = [cacheOf EXCEPT ![p] = bundle]
  /\ UNCHANGED <<bundle, copy, bundleLock, handler, newest, cleared, excused, counts>>

CacheEnds(p) ==
  /\ cacheOf[p] # NoBundle /\ cacheOf' = [cacheOf EXCEPT ![p] = NoBundle]
  /\ UNCHANGED <<bundle, copy, bundleLock, handler, newest, cleared, excused, counts>>

(* A deploy, or a worker killed at its time limit.                           *)
Die(p) ==
  LET here == {h \in Handlers : HomeOf[h] = p}
  IN  /\ \E h \in here : ~At(h, "none")
      /\ Faulty /\ cacheOf' = [cacheOf EXCEPT ![p] = NoBundle]
      /\ bundleLock' = [bundleLock EXCEPT ![p] = NoHandler]
      /\ handler' = [h \in Handlers |-> IF h \in here THEN Idle ELSE handler[h]]
      /\ excused' = excused \cup UNION {handler[h].keys : h \in {g \in here : ~Doing(g, "sweep")}}
      /\ UNCHANGED <<bundle, copy, newest, cleared>>

Working(h) ==
  \/ ReadBundle(h) \/ ReadFails(h) \/ WriteBundle(h) \/ WriteRefused(h) \/ WriteUnanswered(h)
  \/ WriteRow(h) \/ Scrub(h)
  \/ \E k \in Secrets : TakeLock(h, k) \/ Verify(h, k) \/ VerifyUnread(h, k)

VaultNext ==
  \/ \E h \in Handlers : Working(h)
  \/ \E h \in Sweepers : StartSweep(h)
  \/ \E h \in Clerks, k \in Secrets : Save(h, k) \/ Clear(h, k) \/ Withdraw(h, k)
  \/ \E p \in Processes : Lookup(p) \/ CacheEnds(p) \/ Die(p)

VaultSpec == VaultInit /\ [][VaultNext]_vaultVars

-----------------------------------------------------------------------------
AtRest(k) == \A h \in Handlers : k \in handler[h].keys => Doing(h, "sweep")

(* Whatever is done to the other keys of its bundle, and whatever sweeps are *)
(* going on or were killed, the value last saved for a key is in the store   *)
(* or in its row -- unless a bundle was read in vain, two processes wrote    *)
(* bundles at once, or a handler about the key overlapped with another or    *)
(* with a sweep that had loaded it.                                          *)
NewestIsKept ==
  \A k \in Secrets \ excused :
    AtRest(k) /\ newest[k] # 0 => newest[k] \in {bundle[k], copy[k].value}

(* Under the same conditions nothing is left to read of a key that was       *)
(* withdrawn, and no sweep brings it back.                                   *)
WithdrawnIsGone ==
  \A k \in Secrets \ (excused \cup cleared) :
    AtRest(k) /\ newest[k] = 0 => bundle[k] = 0 /\ copy[k].value = 0

(* The last change of a key is the one that holds: both of the above.        *)
LastChangeHolds == NewestIsKept /\ WithdrawnIsGone
=============================================================================
