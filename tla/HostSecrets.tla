------------------------------ MODULE HostSecrets ------------------------------
(***************************************************************************)
(* Credentials a deployment's host supplies to a town                       *)
(* (services/host_secrets.py): a push is the full set the host shares; it   *)
(* replaces what the host provided, leaves alone what the town entered, and *)
(* withdraws what is no longer sent.  Who owns a key is a list in           *)
(* system_settings, read and written back whole by the push, key by key,    *)
(* and by every save of a clerk; the value itself goes first to the store,  *)
(* outside any transaction, and then to system_secrets, in the transaction  *)
(* that carries the list.                                                   *)
(*                                                                         *)
(* Pushes do not overlap.  Of a value it is known who wrote it.             *)
(***************************************************************************)
EXTENDS Naturals

CONSTANTS
  Creds,            \* shareable keys
  Unshared,         \* keys that may not be shared
  Admins,           \* saves of clerks that may be going on at once
  MaxPushes, MaxEntries, MaxHostFaults   \* bounds: pushes, saves, failures and kills

ASSUME UnsharedAreOther == Creds \cap Unshared = {}
ASSUME HostBoundsAreNat == MaxPushes \in Nat /\ MaxEntries \in Nat /\ MaxHostFaults \in Nat

VARIABLES
  kept,      \* who wrote what the secret store has for a key
  row,        \* who wrote the key's row in system_secrets
  books,      \* host_provided_keys, as committed
  push,       \* what the push is doing
  entry,      \* what each clerk's save is doing
  theirs,     \* history: keys a clerk has saved
  crossed,    \* history: keys about which nothing is promised
  tally       \* [pushes, entries, faults] so far

hostVars == <<kept, row, books, push, entry, theirs, crossed, tally>>

Authors == {"none", "host", "town"}

(* key: in hand; todo: still to come; sent: the payload; mine: the list, as  *)
(* read and changed; wrote: the settings row is changed, and so locked;      *)
(* found: the key's row was there; gone: keys withdrawn.                     *)
NoPush == [at |-> "none", key |-> {}, todo |-> {}, sent |-> {}, mine |-> {}, wrote |-> FALSE,
           found |-> FALSE, gone |-> {}]
NoSave == [at |-> "none", key |-> {}, mine |-> {}, takes |-> FALSE, found |-> FALSE]

PushStates ==
  [at : {"none", "next", "taken", "claim", "flush", "store", "commit", "revoke", "forget", "settle"},
   key : SUBSET Creds, todo : SUBSET Creds, sent : SUBSET (Creds \cup Unshared), mine : SUBSET Creds,
   wrote : BOOLEAN, found : BOOLEAN, gone : SUBSET Creds]
EntryStates == [at : {"none", "list", "commit"}, key : SUBSET Creds, mine : SUBSET Creds,
                takes : BOOLEAN, found : BOOLEAN]

(* Values stay in their types.                                               *)
HostTypeOK ==
  /\ kept \in [Creds -> Authors] /\ row \in [Creds -> Authors] /\ books \subseteq Creds
  /\ push \in PushStates /\ entry \in [Admins -> EntryStates]
  /\ theirs \subseteq Creds /\ crossed \subseteq Creds
  /\ tally \in [pushes : 0..MaxPushes, entries : 0..MaxEntries, faults : 0..MaxHostFaults]

HostInit ==
  /\ kept = [k \in Creds |-> "none"] /\ row = [k \in Creds |-> "none"] /\ books = {}
  /\ push = NoPush /\ entry = [a \in Admins |-> NoSave]
  /\ theirs = {} /\ crossed = {} /\ tally = [pushes |-> 0, entries |-> 0, faults |-> 0]

PushAt(at) == push.at = at
Fault == tally.faults < MaxHostFaults /\ tally' = [tally EXCEPT !.faults = @ + 1]
Wrote(f, ks, who) == [k \in Creds |-> IF k \in ks THEN who ELSE f[k]]

(* Keys the push has looked at and not finished with.                        *)
Handled(p) == p.key \cup (IF p.at \in {"revoke", "forget"} THEN p.todo ELSE {})

(* Handlers that read the list and will write it back.                       *)
Listing(e) == {a \in Admins : e[a].at = "commit" /\ e[a].takes}
PushLists(p) == p.wrote \/ p.at \in {"flush", "settle"}
ListsCross(p, e) ==
  \/ \E a, b \in Listing(e) : a # b
  \/ PushLists(p) /\ Listing(e) # {}

KeyCrosses(p, e, k) ==
  \/ k \in Handled(p) /\ \E a \in Admins : k \in e[a].key
  \/ \E a, b \in Admins : a # b /\ k \in e[a].key /\ k \in e[b].key

Overlap(p, e) == {k \in Creds : ListsCross(p, e) \/ KeyCrosses(p, e, k)}

Moves(p, e, more) ==
  push' = p /\ entry' = e /\ crossed' = crossed \cup Overlap(p, e) \cup more
PushMoves(p) == Moves(p, entry, {})

-----------------------------------------------------------------------------
Allowed(keys) == keys \cap Creds

(* A key that may not be shared, like a blank value, is refused unseen.      *)
StartPush(keys) ==
  /\ PushAt("none") /\ tally.pushes < MaxPushes /\ tally' = [tally EXCEPT !.pushes = @ + 1]
  /\ PushMoves([NoPush EXCEPT !.at = "next", !.todo = Allowed(keys), !.sent = keys])
  /\ UNCHANGED <<kept, row, books, theirs>>

OwnedNowMutant == push.mine
OwnedNow == books

(* host_provided(fresh=True), for every key.                                 *)
NextKey(k) ==
  /\ PushAt("next") /\ k \in push.todo
  /\ PushMoves([push EXCEPT !.at = IF k \in OwnedNow THEN "claim" ELSE "taken",
                            !.key = {k}, !.todo = @ \ {k}])
  /\ UNCHANGED <<kept, row, books, theirs, tally>>

(* _is_configured: what the store answers, or what the row says; the store's *)
(* answer may be missing, or be an old one.                                  *)
RefuseTaken ==
  /\ PushAt("taken") /\ \E k \in push.key : kept[k] # "none" \/ row[k] # "none"
  /\ PushMoves([push EXCEPT !.at = "next", !.key = {}])
  /\ UNCHANGED <<kept, row, books, theirs, tally>>

NotTaken ==
  /\ PushAt("taken") /\ \A k \in push.key : row[k] = "none"
  /\ PushMoves([push EXCEPT !.at = "claim"])
  /\ UNCHANGED <<kept, row, books, theirs, tally>>

(* _store: the list is read, then written if the key is not on it.           *)
ClaimRead ==
  /\ PushAt("claim")
  /\ PushMoves([push EXCEPT !.at = IF push.key \subseteq books THEN "store" ELSE "flush",
                            !.mine = books \cup push.key])
  /\ UNCHANGED <<kept, row, books, theirs, tally>>

ClaimFlush ==
  /\ PushAt("flush") /\ PushMoves([push EXCEPT !.at = "store", !.wrote = TRUE])
  /\ UNCHANGED <<kept, row, books, theirs, tally>>

(* _persist_secret: the store, then the row is looked up.                    *)
Stored == [push EXCEPT !.at = "commit", !.found = \A k \in push.key : row[k] # "none"]

StoreTakes ==
  /\ PushAt("store") /\ kept' = Wrote(kept, push.key, "host")
  /\ PushMoves(Stored) /\ UNCHANGED <<row, books, theirs, tally>>

StoreRefuses ==
  /\ PushAt("store") /\ Fault /\ PushMoves(Stored)
  /\ UNCHANGED <<kept, row, books, theirs>>

Claimed == IF push.wrote THEN push.mine ELSE books

Clashes(found, ks) == \E k \in ks : found # (row[k] # "none")
KeyDone == [push EXCEPT !.at = "next", !.key = {}, !.wrote = FALSE, !.found = FALSE]

CommitKey ==
  /\ PushAt("commit") /\ ~Clashes(push.found, push.key)
  /\ row' = Wrote(row, push.key, "host") /\ books' = Claimed
  /\ PushMoves(KeyDone) /\ UNCHANGED <<kept, theirs, tally>>

(* The row was inserted meanwhile, or the database fails: the key is refused *)
(* and its claim goes with the transaction, but the store has the value.     *)
CommitFails ==
  /\ PushAt("commit") /\ \/ Clashes(push.found, push.key) /\ UNCHANGED tally
                         \/ ~Clashes(push.found, push.key) /\ Fault
  /\ Moves(KeyDone, entry, push.key \ books) /\ UNCHANGED <<kept, row, books, theirs>>

(* still_owned, read again when every key sent has been dealt with.          *)
Leftover ==
  /\ PushAt("next") /\ push.todo = {}
  /\ PushMoves([push EXCEPT !.at = "revoke", !.todo = books \ push.sent])
  /\ UNCHANGED <<kept, row, books, theirs, tally>>

-----------------------------------------------------------------------------
(* delete_secret: the store, then, whatever came of it, the row.             *)
RevokeStore(k) ==
  /\ PushAt("revoke") /\ k \in push.todo
  /\ PushMoves([push EXCEPT !.at = "forget", !.key = {k}, !.todo = @ \ {k}])
  /\ \/ kept' = Wrote(kept, {k}, "none") /\ UNCHANGED tally
     \/ UNCHANGED kept /\ Fault
  /\ UNCHANGED <<row, books, theirs>>

(* The row goes, and the key is looked up again: it is gone if the store     *)
(* says so, or does not answer.                                              *)
RevokeRow ==
  /\ PushAt("forget") /\ row' = Wrote(row, push.key, "none")
  /\ LET done == [push EXCEPT !.at = "revoke", !.key = {}, !.gone = @ \cup push.key]
     IN  \/ (\A k \in push.key : kept[k] = "none") /\ PushMoves(done) /\ UNCHANGED tally
         \/ (\E k \in push.key : kept[k] # "none")
            /\ PushMoves([push EXCEPT !.at = "revoke", !.key = {}]) /\ UNCHANGED tally
         \/ (\E k \in push.key : kept[k] # "none")
            /\ Moves(done, entry, push.key) /\ Fault
  /\ UNCHANGED <<kept, books, theirs>>

DropRead ==
  /\ PushAt("revoke") /\ push.todo = {}
  /\ PushMoves(IF push.gone \cap books = {} THEN NoPush
               ELSE [push EXCEPT !.at = "settle", !.mine = books \ push.gone])
  /\ UNCHANGED <<kept, row, books, theirs, tally>>

DropWrite ==
  /\ PushAt("settle") /\ books' = push.mine /\ PushMoves(NoPush)
  /\ UNCHANGED <<kept, row, theirs, tally>>

-----------------------------------------------------------------------------
(* create_or_update_secret, _persist_secret: the store first.                *)
Enter(a, k) ==
  /\ entry[a].at = "none" /\ tally.entries < MaxEntries
  /\ tally' = [tally EXCEPT !.entries = @ + 1] /\ kept' = Wrote(kept, {k}, "town")
  /\ Moves(push, [entry EXCEPT ![a] = [NoSave EXCEPT !.at = "list", !.key = {k}]], {})
  /\ UNCHANGED <<row, books, theirs>>

(* The store refuses the value, which then is in the row only.               *)
EnterUnstored(a, k) ==
  /\ entry[a].at = "none" /\ tally.entries < MaxEntries /\ tally.faults < MaxHostFaults
  /\ tally' = [tally EXCEPT !.entries = @ + 1, !.faults = @ + 1]
  /\ Moves(push, [entry EXCEPT ![a] = [NoSave EXCEPT !.at = "list", !.key = {k}]], {k})
  /\ UNCHANGED <<kept, row, books, theirs>>

OnList(k) == k \in books

(* The row is looked up, and forget reads the list.                          *)
EntryList(a) ==
  /\ entry[a].at = "list"
  /\ \E k \in entry[a].key :
       Moves(push, [entry EXCEPT ![a] = [@ EXCEPT !.at = "commit", !.mine = books \ {k},
                                         !.takes = OnList(k), !.found = row[k] # "none"]], {})
  /\ UNCHANGED <<kept, row, books, theirs, tally>>

(* One commit, which waits for a push that has the settings row; it fails if *)
(* the row was inserted or deleted meanwhile.                                *)
EntryCommit(a) ==
  /\ entry[a].at = "commit" /\ (entry[a].takes => ~push.wrote)
  /\ LET ks == entry[a].key
         lands == ~Clashes(entry[a].found, ks)
     IN  /\ row' = IF lands THEN Wrote(row, ks, "town") ELSE row
         /\ books' = IF lands /\ entry[a].takes THEN entry[a].mine ELSE books
         /\ theirs' = IF lands THEN theirs \cup ks ELSE theirs
  /\ Moves(push, [entry EXCEPT ![a] = NoSave], {}) /\ UNCHANGED <<kept, tally>>

(* The process of the push dies, and its open transaction with it.           *)
PushDies ==
  /\ ~PushAt("none") /\ Fault /\ Moves(NoPush, entry, push.key)
  /\ UNCHANGED <<kept, row, books, theirs>>

EntryDies(a) ==
  /\ entry[a].at # "none" /\ Fault /\ Moves(push, [entry EXCEPT ![a] = NoSave], entry[a].key)
  /\ UNCHANGED <<kept, row, books, theirs>>

HostNext ==
  \/ \E keys \in SUBSET (Creds \cup Unshared) : StartPush(keys)
  \/ \E k \in Creds : NextKey(k) \/ RevokeStore(k)
  \/ RefuseTaken \/ NotTaken \/ ClaimRead \/ ClaimFlush \/ StoreTakes \/ StoreRefuses \/ CommitKey
  \/ CommitFails \/ Leftover \/ RevokeRow \/ DropRead \/ DropWrite \/ PushDies
  \/ \E a \in Admins : \/ EntryList(a) \/ EntryCommit(a) \/ EntryDies(a)
                       \/ \E k \in Creds : Enter(a, k) \/ EnterUnstored(a, k)

HostSpec == HostInit /\ [][HostNext]_hostVars

-----------------------------------------------------------------------------
Resting(k) == k \notin push.key /\ \A a \in Admins : k \notin entry[a].key

(* What a clerk entered stays what is stored, and off the host's books,      *)
(* through pushes of the same key before and after, pushes of other keys     *)
(* meanwhile, and withdrawals -- unless a push had that very key in hand     *)
(* while it was being saved, two changes of the list overlapped, a process   *)
(* died or a first commit failed with the key in hand, or the store refused  *)
(* the value.                                                                *)
TownKeepsItsOwn ==
  \A k \in theirs \ crossed :
    Resting(k) => row[k] = "town" /\ kept[k] = "town" /\ k \notin books

(* A value of the host's that is live is on its books, so that a later push  *)
(* can replace or withdraw it; under the same conditions, and unless the     *)
(* store neither deleted it nor could be asked.                              *)
HostManagesItsOwn ==
  \A k \in Creds \ crossed : Resting(k) /\ "host" \in {kept[k], row[k]} => k \in books

(* Town and host each keep what is theirs: both of the above.                *)
OwnershipHolds == TownKeepsItsOwn /\ HostManagesItsOwn
=============================================================================
