--------------------------- MODULE CredentialsProofs ---------------------------
(***************************************************************************)
(* Theorems about what a town keeps under lock: residents' details and the  *)
(* key they are encrypted under, for every number of reports, processes and  *)
(* overlapping passes and for batches of any size; credentials that a host   *)
(* pushes while clerks save their own, for every number of both; and the     *)
(* bundle of a town's secrets beside the rows of its database, for every     *)
(* number of secrets, processes and handlers.                                *)
(***************************************************************************)
EXTENDS PiiRewrap, HostSecrets, SecretVault, TLAPS

LEMMA NoPassTyped == NoPass \in Passes
  BY RewrapBoundsAreNat DEF NoPass, Passes, Blank, Details, Wraps

(* Every step of a pass, of retention and of a change of keys keeps types.   *)
THEOREM RewrapTyped == RewrapSpec => []RewrapTypeOK
<1> USE ReportsAreNumbered, RewrapBoundsAreNat, NoKeyIsNone
<1>1. RewrapInit => RewrapTypeOK
  <2> SUFFICES ASSUME RewrapInit PROVE RewrapTypeOK
    OBVIOUS
  <2>1. {[words |-> "given", wrap |-> w] : w \in {0, 1, NoKey}} \subseteq Details
    BY DEF Details, Wraps
  <2>2. details \in [Reports -> Details]
    BY <2>1 DEF RewrapInit
  <2> QED BY <2>2, NoPassTyped DEF RewrapInit, RewrapTypeOK, Wraps
<1>2. RewrapTypeOK /\ [RewrapNext]_rewrapVars => RewrapTypeOK'
  <2> SUFFICES ASSUME RewrapTypeOK, [RewrapNext]_rewrapVars PROVE RewrapTypeOK'
    OBVIOUS
  <2> USE DEF RewrapTypeOK
  <2>x. /\ \A p \in Servers : pass[p] \in Passes
        /\ \A r \in Reports : details[r] \in Details
    OBVIOUS
  <2>y. ASSUME RewrapFault
        PROVE  spent' \in [faults : 0..MaxRewrapFaults, scrubs : 0..MaxScrubs]
    BY <2>y DEF RewrapFault
  <2>1. ASSUME NEW p \in Servers, FirstUse(p) PROVE RewrapTypeOK'
    BY <2>1 DEF FirstUse, Wraps
  <2>2. ASSUME NEW p \in Servers, FirstUseLocal(p) PROVE RewrapTypeOK'
    BY <2>2, <2>y DEF FirstUseLocal, Wraps
  <2>3. ASSUME NEW p \in Servers, StartPass(p) PROVE RewrapTypeOK'
    <3>1. [NoPass EXCEPT !.at = "load"] \in Passes
      BY NoPassTyped DEF Passes
    <3> QED BY <2>3, <3>1 DEF StartPass
  <2>4. ASSUME NEW p \in Servers, LoadBatch(p) PROVE RewrapTypeOK'
    <3>1. Loaded(p) \in [Reports -> Details]
      BY <2>x DEF Loaded, Blank, Details, Wraps
    <3>2. Batch \in SUBSET Reports
      BY DEF Batch
    <3>3. [pass[p] EXCEPT !.at = "commit", !.batch = Batch, !.had = Loaded(p)] \in Passes
      BY <2>x, <3>1, <3>2 DEF Passes
    <3> QED BY <2>4, <3>3, NoPassTyped DEF LoadBatch
  <2>5. ASSUME NEW p \in Servers, CommitBatch(p) PROVE RewrapTypeOK'
    <3> DEFINE next == [pass[p] EXCEPT !.at = "load", !.batch = {}, !.ran = @ + 1]
    <3>1. ASSUME GoesOn(p) PROVE next \in Passes
      <4>1. pass[p] \in Passes /\ pass[p].ran \in 0..MaxBatches
        BY <2>x DEF Passes
      <4>2. pass[p].ran + 1 \in 0..MaxBatches
        <5> DEFINE n == pass[p].ran
        <5>1. n \in 0..MaxBatches /\ n + 1 < MaxBatches
          BY <3>1, <4>1 DEF GoesOn
        <5> HIDE DEF n
        <5>2. n + 1 \in 0..MaxBatches
          BY <5>1
        <5> QED BY <5>2 DEF n
      <4> QED BY <4>1, <4>2 DEF Passes
    <3>2. pass' \in [Servers -> Passes]
      <4>1. pass' = [pass EXCEPT ![p] = IF GoesOn(p) THEN next ELSE NoPass]
        BY <2>5, Zenon DEF CommitBatch
      <4>2. GoesOn(p) => next \in Passes
        BY <3>1
      <4> HIDE DEF next
      <4> QED BY <4>1, <4>2, NoPassTyped
    <3>3. \A r \in Reports : [pass[p].had[r] EXCEPT !.wrap = dataKey[p]] \in Details
      <4>1. /\ \A r \in Reports : pass[p].had[r] \in Details
            /\ dataKey[p] \in Wraps
        BY <2>x DEF Passes
      <4> QED BY <4>1 DEF Details
    <3>4. details' \in [Reports -> Details]
      BY <2>5, <2>x, <3>3 DEF CommitBatch
    <3> QED BY <2>5, <3>2, <3>4 DEF CommitBatch
  <2>6. ASSUME NEW p \in Servers, PassFails(p) PROVE RewrapTypeOK'
    BY <2>6, <2>y, NoPassTyped DEF PassFails
  <2>7. ASSUME NEW p \in Servers, NEW r \in Reports, ScrubReport(p, r) PROVE RewrapTypeOK'
    <3>1. [words |-> "scrubbed", wrap |-> dataKey[p]] \in Details
      BY DEF Details
    <3> QED BY <2>7, <3>1 DEF ScrubReport
  <2>8. ASSUME NEW forgets \in SUBSET Servers, ChangeService(forgets) PROVE RewrapTypeOK'
    BY <2>8 DEF ChangeService, Wraps
  <2>9. ASSUME NEW p \in Servers, Restart(p) PROVE RewrapTypeOK'
    BY <2>9, <2>y, NoPassTyped DEF Restart, Wraps
  <2>10. CASE UNCHANGED rewrapVars
    BY <2>10 DEF rewrapVars
  <2> QED
    BY <2>1, <2>2, <2>3, <2>4, <2>5, <2>6, <2>7, <2>8, <2>9, <2>10
       DEF RewrapNext, PassStep, SaveCard, ApplyProfile
<1> QED BY <1>1, <1>2, PTL DEF RewrapSpec

-----------------------------------------------------------------------------
(* What a pass has in its batch of a row that was scrubbed before, it loaded *)
(* after.                                                                    *)
LoadedAfterTheScrub ==
  /\ RedactedStaysRedacted
  /\ \A p \in Servers : \A r \in pass[p].batch : r \in redacted => pass[p].had[r].words = "scrubbed"

(* A pass never writes back what retention cleared while no pass had the row *)
(* in its batch, however many passes overlap and processes restart.          *)
THEOREM ScrubsSurviveRewraps == RewrapSpec => []RedactedStaysRedacted
<1>1. RewrapInit => LoadedAfterTheScrub
  BY DEF RewrapInit, LoadedAfterTheScrub, RedactedStaysRedacted, NoPass
<1>2. RewrapTypeOK /\ LoadedAfterTheScrub /\ [RewrapNext]_rewrapVars => LoadedAfterTheScrub'
  <2> SUFFICES ASSUME RewrapTypeOK, LoadedAfterTheScrub, [RewrapNext]_rewrapVars
               PROVE  LoadedAfterTheScrub'
    OBVIOUS
  <2> USE DEF LoadedAfterTheScrub, RedactedStaysRedacted
  <2>x. /\ \A q \in Servers : pass[q].batch \subseteq Reports /\ pass[q].had \in [Reports -> Details]
        /\ pass \in [Servers -> Passes] /\ redacted \subseteq Reports
        /\ details \in [Reports -> Details]
    BY DEF RewrapTypeOK, Passes
  <2>n. NoPass.batch = {}
    BY DEF NoPass
  <2>1. ASSUME NEW p \in Servers, FirstUse(p) \/ FirstUseLocal(p) PROVE LoadedAfterTheScrub'
    BY <2>1 DEF FirstUse, FirstUseLocal
  <2>2. ASSUME NEW p \in Servers, StartPass(p) \/ PassFails(p) \/ Restart(p)
        PROVE  LoadedAfterTheScrub'
    <3>1. /\ UNCHANGED <<details, redacted>> /\ pass'[p].batch = {}
          /\ \A q \in Servers \ {p} : pass'[q] = pass[q]
      BY <2>2, <2>x, <2>n DEF StartPass, PassFails, Restart, NoPass
    <3> QED BY <3>1
  <2>3. ASSUME NEW p \in Servers, LoadBatch(p) PROVE LoadedAfterTheScrub'
    <3>1. \A r \in pass'[p].batch : r \in Reports /\ pass'[p].had[r] = details[r]
      <4>1. CASE Batch = {}
        BY <2>3, <2>x, <2>n, <4>1 DEF LoadBatch
      <4>2. CASE Batch # {}
        <5>1. pass'[p].batch = Batch /\ pass'[p].had = Loaded(p)
          BY <2>3, <2>x, <4>2 DEF LoadBatch, Passes
        <5> QED BY <5>1 DEF Loaded, Batch
      <4> QED BY <4>1, <4>2
    <3>2. \A q \in Servers \ {p} : pass'[q] = pass[q]
      BY <2>3, <2>x DEF LoadBatch
    <3> QED BY <2>3, <2>x, <3>1, <3>2 DEF LoadBatch
  <2>4. ASSUME NEW p \in Servers, CommitBatch(p) PROVE LoadedAfterTheScrub'
    <3>1. \A r \in redacted : details'[r].words = "scrubbed"
      <4> TAKE r \in redacted
      <4>1. r \in Reports /\ details[r].words = "scrubbed"
        BY <2>x
      <4>2. pass[p].had[r] \in Details
        BY <2>x, <4>1
      <4>3. CASE r \in pass[p].batch /\ pass[p].had[r].wrap # NoKey
        <5>1. details'[r] = [pass[p].had[r] EXCEPT !.wrap = dataKey[p]]
          BY <2>4, <4>1, <4>3 DEF CommitBatch
        <5>2. pass[p].had[r].words = "scrubbed"
          BY <4>3
        <5> QED BY <4>2, <5>1, <5>2 DEF Details
      <4>4. CASE ~(r \in pass[p].batch /\ pass[p].had[r].wrap # NoKey)
        BY <2>4, <4>1, <4>4 DEF CommitBatch
      <4> QED BY <4>3, <4>4
    <3>2. pass'[p].batch = {} /\ \A q \in Servers \ {p} : pass'[q] = pass[q]
      BY <2>4, <2>x, <2>n DEF CommitBatch, Passes
    <3> QED BY <2>4, <3>1, <3>2 DEF CommitBatch
  <2>5. ASSUME NEW p \in Servers, NEW r \in Reports, ScrubReport(p, r) PROVE LoadedAfterTheScrub'
    <3>1. \A s \in Reports : details'[s].words = "scrubbed" <=> s = r \/ details[s].words = "scrubbed"
      BY <2>5, <2>x DEF ScrubReport
    <3>2. \/ redacted' = redacted
          \/ redacted' = redacted \cup {r} /\ \A q \in Servers : r \notin pass[q].batch
      BY <2>5 DEF ScrubReport
    <3> QED BY <2>5, <2>x, <3>1, <3>2 DEF ScrubReport
  <2>6. ASSUME NEW forgets \in SUBSET Servers, ChangeService(forgets) PROVE LoadedAfterTheScrub'
    BY <2>6 DEF ChangeService
  <2>7. CASE UNCHANGED rewrapVars
    BY <2>7 DEF rewrapVars
  <2> QED
    BY <2>1, <2>2, <2>3, <2>4, <2>5, <2>6, <2>7
       DEF RewrapNext, PassStep, SaveCard, ApplyProfile
<1>3. LoadedAfterTheScrub => RedactedStaysRedacted
  BY DEF LoadedAfterTheScrub
<1> QED BY <1>1, <1>2, <1>3, RewrapTyped, PTL DEF RewrapSpec

-----------------------------------------------------------------------------
(* A push has one key in hand between NextKey and its commit and while it    *)
(* withdraws one, and it holds the settings row only up to the commit.       *)
PushShape ==
  /\ push.at \in {"none", "next", "revoke", "settle"} => push.key = {}
  /\ push.at \notin {"none", "next", "revoke", "settle"} => \E k \in Creds : push.key = {k}
  /\ push.wrote => push.at \in {"store", "commit"}
  /\ push.at \notin {"revoke", "forget", "settle"} => push.gone = {}

EntryShape ==
  \A a \in Admins : /\ entry[a].at = "none" => entry[a].key = {}
                    /\ entry[a].at # "none" => \E k \in Creds : entry[a].key = {k}
                    /\ entry[a].takes => entry[a].at = "commit"

ReadLive(k) == "host" \in {kept[k], row[k]}
Entering(k) == \E a \in Admins : k \in entry[a].key

(* While two changes of the list have not met, what either will write back   *)
(* differs from the list by its own key only.                                *)
ListsAreFresh ==
  /\ push.at = "flush" \/ push.wrote => push.mine = books \cup push.key
  /\ push.at = "settle" => push.mine = books \ push.gone
  /\ \A a \in Listing(entry) : entry[a].mine = books \ entry[a].key

(* What is known of a key about which a promise stands.                      *)
InOrder(k) ==
  /\ ~ListsCross(push, entry) /\ ~KeyCrosses(push, entry, k) /\ ListsAreFresh
  /\ k \in theirs => /\ row[k] = "town" /\ kept[k] = "town" /\ k \notin books
                     /\ k \in push.key => push.at = "taken"
  /\ \A a \in Admins : k \in entry[a].key =>
       /\ kept[k] = "town" /\ (row[k] = "host" => k \in books)
       /\ entry[a].at = "commit" /\ ~entry[a].takes => k \notin books
  /\ ReadLive(k) /\ ~Entering(k) => k \in books \/ (k \in push.key /\ push.at = "commit" /\ push.wrote)
  /\ k \in push.key /\ push.at \in {"store", "commit"} => k \in books \/ push.wrote
  /\ push.at \in {"revoke", "forget"} /\ k \in push.todo \cup push.key => k \in books
  /\ k \in push.gone => ~ReadLive(k)

BooksInOrder == PushShape /\ EntryShape /\ \A k \in Creds \ crossed : InOrder(k)

LEMMA MovesMark ==
  ASSUME NEW p, NEW e, NEW more, Moves(p, e, more)
  PROVE  /\ push' = p /\ entry' = e /\ crossed \subseteq crossed' /\ more \subseteq crossed'
         /\ \A k \in Creds \ crossed' : ~ListsCross(p, e) /\ ~KeyCrosses(p, e, k)
  BY DEF Moves, Overlap

LEMMA NoneTyped == NoPush \in PushStates /\ NoSave \in EntryStates
  BY DEF NoPush, NoSave, PushStates, EntryStates

(* Every statement of a push and of a save, and every fault, keeps types.    *)
THEOREM HostTyped == HostSpec => []HostTypeOK
<1> USE HostBoundsAreNat, UnsharedAreOther
<1>1. HostInit => HostTypeOK
  BY NoneTyped DEF HostInit, HostTypeOK, Authors
<1>2. HostTypeOK /\ [HostNext]_hostVars => HostTypeOK'
  <2> SUFFICES ASSUME HostTypeOK, [HostNext]_hostVars PROVE HostTypeOK'
    OBVIOUS
  <2> USE DEF HostTypeOK
  <2>x. push \in PushStates /\ \A a \in Admins : entry[a] \in EntryStates
    OBVIOUS
  <2>f. ASSUME Fault
        PROVE  tally' \in [pushes : 0..MaxPushes, entries : 0..MaxEntries, faults : 0..MaxHostFaults]
    BY <2>f DEF Fault
  <2>m. ASSUME NEW p, NEW e, NEW more \in SUBSET Creds, Moves(p, e, more)
        PROVE  push' = p /\ entry' = e /\ crossed' \subseteq Creds
    BY <2>m DEF Moves, Overlap
  <2>p. ASSUME NEW p, PushMoves(p) PROVE push' = p /\ entry' = entry /\ crossed' \subseteq Creds
    BY <2>p, <2>m DEF PushMoves
  <2>w. \A who \in Authors : \A ks : /\ Wrote(kept, ks, who) \in [Creds -> Authors]
                                   /\ Wrote(row, ks, who) \in [Creds -> Authors]
    BY DEF Wrote
  <2>1. ASSUME NEW keys \in SUBSET (Creds \cup Unshared), StartPush(keys) PROVE HostTypeOK'
    <3>1. [NoPush EXCEPT !.at = "next", !.todo = Allowed(keys), !.sent = keys] \in PushStates
      BY NoneTyped DEF PushStates, Allowed
    <3> QED BY <2>1, <2>p, <3>1 DEF StartPush
  <2>2. ASSUME NEW k \in Creds, NextKey(k) PROVE HostTypeOK'
    <3> DEFINE next == [push EXCEPT !.at = IF k \in OwnedNow THEN "claim" ELSE "taken",
                                    !.key = {k}, !.todo = @ \ {k}]
    <3>1. next \in PushStates
      BY <2>x DEF PushStates
    <3>2. PushMoves(next)
      BY <2>2 DEF NextKey
    <3> HIDE DEF next
    <3> QED BY <2>2, <2>p, <3>1, <3>2 DEF NextKey
  <2>3. ASSUME RefuseTaken \/ NotTaken PROVE HostTypeOK'
    <3>1. /\ [push EXCEPT !.at = "next", !.key = {}] \in PushStates
          /\ [push EXCEPT !.at = "claim"] \in PushStates
      BY <2>x DEF PushStates
    <3> QED BY <2>3, <2>p, <3>1 DEF RefuseTaken, NotTaken
  <2>4. ASSUME ClaimRead \/ ClaimFlush PROVE HostTypeOK'
    <3> DEFINE read == [push EXCEPT !.at = IF push.key \subseteq books THEN "store" ELSE "flush",
                                    !.mine = books \cup push.key]
    <3>1. read \in PushStates /\ [push EXCEPT !.at = "store", !.wrote = TRUE] \in PushStates
      BY <2>x DEF PushStates
    <3>2. ClaimRead => PushMoves(read)
      BY DEF ClaimRead
    <3> HIDE DEF read
    <3> QED BY <2>4, <2>p, <3>1, <3>2 DEF ClaimRead, ClaimFlush
  <2>5. ASSUME StoreTakes \/ StoreRefuses PROVE HostTypeOK'
    <3>1. Stored \in PushStates
      BY <2>x DEF Stored, PushStates
    <3> QED BY <2>5, <2>p, <2>f, <2>w, <3>1 DEF StoreTakes, StoreRefuses, Authors
  <2>6. ASSUME CommitKey \/ CommitFails PROVE HostTypeOK'
    <3>1. KeyDone \in PushStates /\ push.mine \subseteq Creds /\ push.key \subseteq Creds
      BY <2>x DEF KeyDone, PushStates
    <3>2. CASE CommitKey
      BY <3>2, <2>p, <2>w, <3>1 DEF CommitKey, Claimed, Authors
    <3>3. CASE CommitFails
      BY <3>3, <2>m, <2>f, <3>1 DEF CommitFails
    <3> QED BY <2>6, <3>2, <3>3
  <2>7. ASSUME Leftover PROVE HostTypeOK'
    <3>1. [push EXCEPT !.at = "revoke", !.todo = books \ push.sent] \in PushStates
      BY <2>x DEF PushStates
    <3> QED BY <2>7, <2>p, <3>1 DEF Leftover
  <2>8. ASSUME NEW k \in Creds, RevokeStore(k) PROVE HostTypeOK'
    <3>1. [push EXCEPT !.at = "forget", !.key = {k}, !.todo = @ \ {k}] \in PushStates
      BY <2>x DEF PushStates
    <3> QED BY <2>8, <2>p, <2>f, <2>w, <3>1 DEF RevokeStore, Authors
  <2>9. ASSUME RevokeRow PROVE HostTypeOK'
    <3>1. /\ [push EXCEPT !.at = "revoke", !.key = {}, !.gone = @ \cup push.key] \in PushStates
          /\ [push EXCEPT !.at = "revoke", !.key = {}] \in PushStates /\ push.key \subseteq Creds
      BY <2>x DEF PushStates
    <3> QED BY <2>9, <2>p, <2>m, <2>f, <2>w, <3>1 DEF RevokeRow, Authors
  <2>10. ASSUME DropRead \/ DropWrite PROVE HostTypeOK'
    <3>1. /\ [push EXCEPT !.at = "settle", !.mine = books \ push.gone] \in PushStates
          /\ push.mine \subseteq Creds
      BY <2>x DEF PushStates
    <3> QED BY <2>10, <2>p, NoneTyped, <3>1 DEF DropRead, DropWrite
  <2>11. ASSUME PushDies PROVE HostTypeOK'
    <3>1. push.key \subseteq Creds
      BY <2>x DEF PushStates
    <3>2. Moves(NoPush, entry, push.key)
      BY <2>11 DEF PushDies
    <3>3. push' = NoPush /\ entry' = entry /\ crossed' \subseteq Creds
      BY <2>m, <3>1, <3>2
    <3> QED BY <2>11, <2>f, NoneTyped, <3>3 DEF PushDies
  <2>12. ASSUME NEW a \in Admins, NEW k \in Creds, Enter(a, k) \/ EnterUnstored(a, k)
         PROVE  HostTypeOK'
    <3> DEFINE next == [NoSave EXCEPT !.at = "list", !.key = {k}]
    <3>1. next \in EntryStates
      BY NoneTyped DEF EntryStates
    <3>2. push' = push /\ entry' = [entry EXCEPT ![a] = next] /\ crossed' \subseteq Creds
      <4>1. \E more \in SUBSET Creds : Moves(push, [entry EXCEPT ![a] = next], more)
        BY <2>12 DEF Enter, EnterUnstored
      <4> HIDE DEF next
      <4> QED BY <4>1, <2>m
    <3>3. tally' \in [pushes : 0..MaxPushes, entries : 0..MaxEntries, faults : 0..MaxHostFaults]
      <4>1. CASE Enter(a, k)
        BY <4>1 DEF Enter
      <4>2. CASE EnterUnstored(a, k)
        <5>1. tally.entries + 1 \in 0..MaxEntries /\ tally.faults + 1 \in 0..MaxHostFaults
          BY <4>2 DEF EnterUnstored
        <5>2. tally' = [tally EXCEPT !.entries = @ + 1, !.faults = @ + 1]
          BY <4>2 DEF EnterUnstored
        <5> QED BY <5>1, <5>2
      <4> QED BY <2>12, <4>1, <4>2
    <3>4. kept' \in [Creds -> Authors] /\ UNCHANGED <<row, books, theirs>>
      BY <2>12, <2>w DEF Enter, EnterUnstored, Authors
    <3> HIDE DEF next
    <3> QED BY <3>1, <3>2, <3>3, <3>4
  <2>13. ASSUME NEW a \in Admins, EntryList(a) PROVE HostTypeOK'
    <3>1. \A mine \in SUBSET Creds : \A takes, found \in BOOLEAN :
            [entry[a] EXCEPT !.at = "commit", !.mine = mine, !.takes = takes, !.found = found]
              \in EntryStates
      BY <2>x DEF EntryStates
    <3>2. PICK k \in entry[a].key :
            Moves(push, [entry EXCEPT ![a] = [@ EXCEPT !.at = "commit", !.mine = books \ {k},
                                         !.takes = OnList(k), !.found = row[k] # "none"]], {})
      BY <2>13 DEF EntryList
    <3>3. OnList(k) \in BOOLEAN /\ (row[k] # "none") \in BOOLEAN /\ books \ {k} \in SUBSET Creds
      BY DEF OnList
    <3> DEFINE next == [entry[a] EXCEPT !.at = "commit", !.mine = books \ {k},
                                        !.takes = OnList(k), !.found = row[k] # "none"]
    <3>4. next \in EntryStates
      BY <3>1, <3>3
    <3>5. entry' = [entry EXCEPT ![a] = next] /\ push' = push /\ crossed' \subseteq Creds
      BY <3>2, <2>m
    <3> HIDE DEF next
    <3> QED BY <2>13, <3>4, <3>5 DEF EntryList
  <2>14. ASSUME NEW a \in Admins, EntryCommit(a) PROVE HostTypeOK'
    <3>1. entry[a].mine \subseteq Creds /\ entry[a].key \subseteq Creds
      BY <2>x DEF EntryStates
    <3>2. push' = push /\ entry' = [entry EXCEPT ![a] = NoSave] /\ crossed' \subseteq Creds
      BY <2>14, <2>m DEF EntryCommit
    <3> QED BY <2>14, <2>w, NoneTyped, <3>1, <3>2 DEF EntryCommit, Authors
  <2>15. ASSUME NEW a \in Admins, EntryDies(a) PROVE HostTypeOK'
    <3>1. entry[a].key \subseteq Creds
      BY <2>x DEF EntryStates
    <3>2. push' = push /\ entry' = [entry EXCEPT ![a] = NoSave] /\ crossed' \subseteq Creds
      BY <2>15, <2>m, <3>1 DEF EntryDies
    <3> QED BY <2>15, <2>f, NoneTyped, <3>2 DEF EntryDies
  <2>16. CASE UNCHANGED hostVars
    BY <2>16 DEF hostVars
  <2> QED
    BY <2>1, <2>2, <2>3, <2>4, <2>5, <2>6, <2>7, <2>8, <2>9, <2>10, <2>11, <2>12, <2>13, <2>14,
       <2>15, <2>16 DEF HostNext
<1> QED BY <1>1, <1>2, PTL DEF HostSpec

-----------------------------------------------------------------------------
(* The statements of a push keep the books in order.                         *)
LEMMA PushKeepsOrder ==
  ASSUME HostTypeOK, BooksInOrder,
         \/ \E keys \in SUBSET (Creds \cup Unshared) : StartPush(keys)
         \/ \E k \in Creds : NextKey(k) \/ RevokeStore(k)
         \/ RefuseTaken \/ NotTaken \/ ClaimRead \/ ClaimFlush \/ StoreTakes \/ StoreRefuses
         \/ CommitKey \/ CommitFails \/ Leftover \/ RevokeRow \/ DropRead \/ DropWrite \/ PushDies
  PROVE  BooksInOrder'
<1> USE DEF BooksInOrder
<1>x. /\ push \in PushStates /\ push.key \subseteq Creds /\ books \subseteq Creds
      /\ entry \in [Admins -> EntryStates]
      /\ kept \in [Creds -> Authors] /\ row \in [Creds -> Authors]
  BY DEF HostTypeOK, PushStates
<1>m. \A p, more : Moves(p, entry, more) =>
        /\ push' = p /\ entry' = entry /\ crossed \subseteq crossed' /\ more \subseteq crossed'
        /\ \A k \in Creds \ crossed' : ~ListsCross(p, entry) /\ ~KeyCrosses(p, entry, k)
  BY MovesMark
<1>p. \A p : PushMoves(p) =>
        /\ push' = p /\ entry' = entry /\ crossed \subseteq crossed'
        /\ \A k \in Creds \ crossed' : ~ListsCross(p, entry) /\ ~KeyCrosses(p, entry, k)
  BY <1>m DEF PushMoves
<1>e. entry' = entry => EntryShape'
  BY DEF EntryShape
<1>1. ASSUME NEW keys \in SUBSET (Creds \cup Unshared), StartPush(keys) PROVE BooksInOrder'
  <2>1. /\ push' = [NoPush EXCEPT !.at = "next", !.todo = Allowed(keys), !.sent = keys]
        /\ UNCHANGED <<kept, row, books, theirs, entry>> /\ crossed \subseteq crossed'
        /\ push.at = "none"
        /\ \A k \in Creds \ crossed' : ~ListsCross(push', entry) /\ ~KeyCrosses(push', entry, k)
    BY <1>1, <1>p DEF StartPush, PushAt
  <2>2. push'.at = "next" /\ push'.key = {} /\ push'.gone = {} /\ ~push'.wrote
    BY <2>1 DEF NoPush
  <2>3. PushShape'
    BY <2>2 DEF PushShape
  <2>4. ASSUME NEW k \in Creds \ crossed' PROVE InOrder(k)'
    <3>1. InOrder(k)
      BY <2>1
    <3>2. push.key = {}
      BY <2>1 DEF PushShape
    <3> QED BY <2>1, <2>2, <3>1, <3>2 DEF InOrder, ListsAreFresh, ReadLive, Entering, Listing
  <2> QED BY <1>e, <2>1, <2>3, <2>4
<1>2. ASSUME NEW c \in Creds, NextKey(c) PROVE BooksInOrder'
  <2> DEFINE next == [push EXCEPT !.at = IF c \in books THEN "claim" ELSE "taken",
                                  !.key = {c}, !.todo = @ \ {c}]
  <2>a. PushMoves(next)
    BY <1>2 DEF NextKey, OwnedNow
  <2>1. /\ push' = next
        /\ UNCHANGED <<kept, row, books, theirs, entry>> /\ crossed \subseteq crossed'
        /\ push.at = "next"
        /\ \A k \in Creds \ crossed' : ~ListsCross(push', entry) /\ ~KeyCrosses(push', entry, k)
    <3> HIDE DEF next
    <3> QED BY <1>2, <1>p, <2>a DEF NextKey, PushAt
  <2>2. /\ push'.at = IF c \in books THEN "claim" ELSE "taken"
        /\ push'.key = {c} /\ push'.gone = push.gone /\ push'.wrote = push.wrote
    BY <2>1, <1>x DEF PushStates
  <2>3. push.key = {} /\ push.gone = {} /\ ~push.wrote
    BY <2>1 DEF PushShape
  <2>4. PushShape'
    BY <2>2, <2>3 DEF PushShape
  <2>5. ASSUME NEW k \in Creds \ crossed' PROVE InOrder(k)'
    <3>1. InOrder(k)
      BY <2>1
    <3> QED BY <2>1, <2>2, <2>3, <3>1 DEF InOrder, ListsAreFresh, ReadLive, Entering, Listing
  <2> QED BY <1>e, <2>1, <2>4, <2>5
<1>3. ASSUME RefuseTaken PROVE BooksInOrder'
  <2>1. /\ UNCHANGED <<kept, row, books, theirs, entry>>
        /\ crossed \subseteq crossed'
        /\ push.at = "taken"
        /\ push' = [push EXCEPT !.at = "next", !.key = {}]
        /\ \A k \in Creds \ crossed' : ~ListsCross(push', entry) /\ ~KeyCrosses(push', entry, k)
    BY <1>3, <1>p DEF RefuseTaken, PushAt
  <2>2. /\ push'.at = "next" /\ push'.key = {} /\ push'.gone = push.gone
        /\ push'.wrote = push.wrote
    BY <1>x, <2>1 DEF PushStates
  <2>3. push.gone = {} /\ ~push.wrote
    BY <2>1 DEF PushShape
  <2>4. PushShape'
    BY <2>2, <2>3 DEF PushShape
  <2>5. ASSUME NEW k \in Creds \ crossed' PROVE InOrder(k)'
    <3>1. InOrder(k)
      BY <2>1
    <3> QED BY <1>x, <2>1, <2>2, <2>3, <3>1 DEF InOrder, ListsAreFresh, ReadLive, Entering, Listing
  <2> QED BY <1>e, <2>1, <2>4, <2>5
<1>4. ASSUME NotTaken PROVE BooksInOrder'
  <2>1. /\ UNCHANGED <<kept, row, books, theirs, entry>>
        /\ crossed \subseteq crossed'
        /\ push.at = "taken"
        /\ push' = [push EXCEPT !.at = "claim"]
        /\ \A k \in push.key : row[k] = "none"
        /\ \A k \in Creds \ crossed' : ~ListsCross(push', entry) /\ ~KeyCrosses(push', entry, k)
    BY <1>4, <1>p DEF NotTaken, PushAt
  <2>2. /\ push'.at = "claim" /\ push'.key = push.key /\ push'.gone = push.gone
        /\ push'.wrote = push.wrote
    BY <1>x, <2>1 DEF PushStates
  <2>3. push.gone = {} /\ ~push.wrote /\ \E c \in Creds : push.key = {c}
    BY <2>1 DEF PushShape
  <2>4. PushShape'
    BY <2>2, <2>3 DEF PushShape
  <2>5. ASSUME NEW k \in Creds \ crossed' PROVE InOrder(k)'
    <3>1. InOrder(k)
      BY <2>1
    <3> QED BY <1>x, <2>1, <2>2, <2>3, <3>1 DEF InOrder, ListsAreFresh, ReadLive, Entering, Listing
  <2> QED BY <1>e, <2>1, <2>4, <2>5
<1>5. ASSUME ClaimRead PROVE BooksInOrder'
  <2>1. /\ UNCHANGED <<kept, row, books, theirs, entry>>
        /\ crossed \subseteq crossed'
        /\ push.at = "claim"
        /\ push' = [push EXCEPT !.at = IF push.key \subseteq books THEN "store" ELSE "flush",
                                !.mine = books \cup push.key]
        /\ \A k \in Creds \ crossed' : ~ListsCross(push', entry) /\ ~KeyCrosses(push', entry, k)
    BY <1>5, <1>p DEF ClaimRead, PushAt
  <2>2. /\ push'.at = IF push.key \subseteq books THEN "store" ELSE "flush"
        /\ push'.key = push.key /\ push'.gone = push.gone /\ push'.wrote = push.wrote
        /\ push'.mine = books \cup push.key
    BY <1>x, <2>1 DEF PushStates
  <2>3. push.gone = {} /\ ~push.wrote /\ \E c \in Creds : push.key = {c}
    BY <2>1 DEF PushShape
  <2>4. PushShape'
    BY <2>2, <2>3 DEF PushShape
  <2>5. ASSUME NEW k \in Creds \ crossed' PROVE InOrder(k)'
    <3>1. InOrder(k)
      BY <2>1
    <3> QED BY <1>x, <2>1, <2>2, <2>3, <3>1 DEF InOrder, ListsAreFresh, ReadLive, Entering, Listing
  <2> QED BY <1>e, <2>1, <2>4, <2>5
<1>6. ASSUME ClaimFlush PROVE BooksInOrder'
  <2>1. /\ UNCHANGED <<kept, row, books, theirs, entry>>
        /\ crossed \subseteq crossed'
        /\ push.at = "flush"
        /\ push' = [push EXCEPT !.at = "store", !.wrote = TRUE]
        /\ \A k \in Creds \ crossed' : ~ListsCross(push', entry) /\ ~KeyCrosses(push', entry, k)
    BY <1>6, <1>p DEF ClaimFlush, PushAt
  <2>2. /\ push'.at = "store" /\ push'.key = push.key /\ push'.gone = push.gone
        /\ push'.wrote /\ push'.mine = push.mine
    BY <1>x, <2>1 DEF PushStates
  <2>3. push.gone = {} /\ \E c \in Creds : push.key = {c}
    BY <2>1 DEF PushShape
  <2>4. PushShape'
    BY <2>2, <2>3 DEF PushShape
  <2>5. ASSUME NEW k \in Creds \ crossed' PROVE InOrder(k)'
    <3>1. InOrder(k)
      BY <2>1
    <3> QED BY <1>x, <2>1, <2>2, <2>3, <3>1 DEF InOrder, ListsAreFresh, ReadLive, Entering, Listing
  <2> QED BY <1>e, <2>1, <2>4, <2>5
<1>7. ASSUME StoreTakes \/ StoreRefuses PROVE BooksInOrder'
  <2>1. /\ UNCHANGED <<row, books, theirs, entry>> /\ crossed \subseteq crossed'
        /\ push.at = "store" /\ push' = Stored
        /\ kept' = kept \/ kept' = Wrote(kept, push.key, "host")
        /\ \A k \in Creds \ crossed' : ~ListsCross(push', entry) /\ ~KeyCrosses(push', entry, k)
    BY <1>7, <1>p DEF StoreTakes, StoreRefuses, PushAt
  <2>2. /\ push'.at = "commit" /\ push'.key = push.key /\ push'.gone = push.gone
        /\ push'.wrote = push.wrote /\ push'.mine = push.mine
    BY <1>x, <2>1 DEF Stored, PushStates
  <2>3. push.gone = {} /\ \E c \in Creds : push.key = {c}
    BY <2>1 DEF PushShape
  <2>4. PushShape'
    BY <2>2, <2>3 DEF PushShape
  <2>5. ASSUME NEW k \in Creds \ crossed' PROVE InOrder(k)'
    <3>1. InOrder(k)
      BY <2>1
    <3> QED BY <1>x, <2>1, <2>2, <2>3, <3>1
       DEF InOrder, ListsAreFresh, ReadLive, Entering, Listing, KeyCrosses, Handled, Wrote
  <2> QED BY <1>e, <2>1, <2>4, <2>5
<1>8. ASSUME CommitKey PROVE BooksInOrder'
  <2>1. /\ UNCHANGED <<kept, theirs, entry>> /\ crossed \subseteq crossed'
        /\ push.at = "commit" /\ push' = KeyDone
        /\ row' = Wrote(row, push.key, "host")
        /\ books' = IF push.wrote THEN push.mine ELSE books
        /\ \A k \in Creds \ crossed' : ~ListsCross(push', entry) /\ ~KeyCrosses(push', entry, k)
    BY <1>8, <1>p DEF CommitKey, Claimed, PushAt
  <2>2. /\ push'.at = "next" /\ push'.key = {} /\ push'.gone = push.gone /\ ~push'.wrote
    BY <1>x, <2>1 DEF KeyDone, PushStates
  <2>3. push.gone = {} /\ \E c \in Creds : push.key = {c}
    BY <2>1 DEF PushShape
  <2>4. PushShape'
    BY <2>2, <2>3 DEF PushShape
  <2>5. ASSUME NEW k \in Creds \ crossed' PROVE InOrder(k)'
    <3>1. InOrder(k)
      BY <2>1
    <3> QED BY <1>x, <2>1, <2>2, <2>3, <3>1
       DEF InOrder, ListsAreFresh, ReadLive, Entering, Listing, KeyCrosses, Handled, ListsCross,
           PushLists, Wrote
  <2> QED BY <1>e, <2>1, <2>4, <2>5
<1>9. ASSUME CommitFails PROVE BooksInOrder'
  <2>1. /\ UNCHANGED <<kept, row, books, theirs, entry>> /\ crossed \subseteq crossed'
        /\ push.at = "commit" /\ push' = KeyDone
        /\ push.key \ books \subseteq crossed'
        /\ \A k \in Creds \ crossed' : ~ListsCross(push', entry) /\ ~KeyCrosses(push', entry, k)
    BY <1>9, <1>m DEF CommitFails, PushAt
  <2>2. /\ push'.at = "next" /\ push'.key = {} /\ push'.gone = push.gone /\ ~push'.wrote
    BY <1>x, <2>1 DEF KeyDone, PushStates
  <2>3. push.gone = {} /\ \E c \in Creds : push.key = {c}
    BY <2>1 DEF PushShape
  <2>4. PushShape'
    BY <2>2, <2>3 DEF PushShape
  <2>5. ASSUME NEW k \in Creds \ crossed' PROVE InOrder(k)'
    <3>1. InOrder(k)
      BY <2>1
    <3> QED BY <1>x, <2>1, <2>2, <2>3, <3>1 DEF InOrder, ListsAreFresh, ReadLive, Entering, Listing
  <2> QED BY <1>e, <2>1, <2>4, <2>5
<1>10. ASSUME Leftover PROVE BooksInOrder'
  <2>1. /\ UNCHANGED <<kept, row, books, theirs, entry>>
        /\ crossed \subseteq crossed'
        /\ push.at = "next"
        /\ push' = [push EXCEPT !.at = "revoke", !.todo = books \ push.sent]
        /\ \A k \in Creds \ crossed' : ~ListsCross(push', entry) /\ ~KeyCrosses(push', entry, k)
    BY <1>10, <1>p DEF Leftover, PushAt
  <2>2. /\ push'.at = "revoke" /\ push'.key = push.key /\ push'.gone = push.gone
        /\ push'.wrote = push.wrote /\ push'.todo \subseteq books
    BY <1>x, <2>1 DEF PushStates
  <2>3. push.gone = {} /\ ~push.wrote /\ push.key = {}
    BY <2>1 DEF PushShape
  <2>4. PushShape'
    BY <2>2, <2>3 DEF PushShape
  <2>5. ASSUME NEW k \in Creds \ crossed' PROVE InOrder(k)'
    <3>1. InOrder(k)
      BY <2>1
    <3> QED BY <1>x, <2>1, <2>2, <2>3, <3>1 DEF InOrder, ListsAreFresh, ReadLive, Entering, Listing
  <2> QED BY <1>e, <2>1, <2>4, <2>5
<1>11. ASSUME NEW c \in Creds, RevokeStore(c) PROVE BooksInOrder'
  <2>1. /\ UNCHANGED <<row, books, theirs, entry>> /\ crossed \subseteq crossed'
        /\ push.at = "revoke" /\ c \in push.todo
        /\ push' = [push EXCEPT !.at = "forget", !.key = {c}, !.todo = @ \ {c}]
        /\ kept' = kept \/ kept' = Wrote(kept, {c}, "none")
        /\ \A k \in Creds \ crossed' : ~ListsCross(push', entry) /\ ~KeyCrosses(push', entry, k)
    BY <1>11, <1>p DEF RevokeStore, PushAt
  <2>2. /\ push'.at = "forget" /\ push'.key = {c} /\ push'.gone = push.gone
        /\ push'.wrote = push.wrote /\ push'.todo \subseteq push.todo
    BY <1>x, <2>1 DEF PushStates
  <2>3. ~push.wrote /\ push.key = {}
    BY <2>1 DEF PushShape
  <2>4. PushShape'
    BY <2>2, <2>3 DEF PushShape
  <2>5. ASSUME NEW k \in Creds \ crossed' PROVE InOrder(k)'
    <3>1. InOrder(k)
      BY <2>1
    <3> QED BY <1>x, <2>1, <2>2, <2>3, <3>1
       DEF InOrder, ListsAreFresh, ReadLive, Entering, Listing, KeyCrosses, Handled, Wrote
  <2> QED BY <1>e, <2>1, <2>4, <2>5
<1>12. ASSUME RevokeRow PROVE BooksInOrder'
  <2>1. /\ UNCHANGED <<kept, books, theirs, entry>> /\ crossed \subseteq crossed'
        /\ push.at = "forget" /\ row' = Wrote(row, push.key, "none")
        /\ \/ push' = [push EXCEPT !.at = "revoke", !.key = {}]
           \/ /\ push' = [push EXCEPT !.at = "revoke", !.key = {}, !.gone = @ \cup push.key]
              /\ (\A k \in push.key : kept[k] = "none") \/ push.key \subseteq crossed'
        /\ \A k \in Creds \ crossed' : ~ListsCross(push', entry) /\ ~KeyCrosses(push', entry, k)
    BY <1>12, <1>p, <1>m DEF RevokeRow, PushAt
  <2>2. /\ push'.at = "revoke" /\ push'.key = {} /\ push'.wrote = push.wrote
        /\ push'.todo = push.todo
        /\ push'.gone = push.gone \/ push'.gone = push.gone \cup push.key
        /\ \A k \in push'.gone \ push.gone : kept[k] = "none" \/ k \in crossed'
    BY <1>x, <2>1 DEF PushStates
  <2>3. ~push.wrote /\ \E c \in Creds : push.key = {c}
    BY <2>1 DEF PushShape
  <2>4. PushShape'
    BY <2>2, <2>3 DEF PushShape
  <2>5. ASSUME NEW k \in Creds \ crossed' PROVE InOrder(k)'
    <3>1. InOrder(k)
      BY <2>1
    <3> QED BY <1>x, <2>1, <2>2, <2>3, <3>1
       DEF InOrder, ListsAreFresh, ReadLive, Entering, Listing, KeyCrosses, Handled, Wrote
  <2> QED BY <1>e, <2>1, <2>4, <2>5
<1>13. ASSUME DropRead PROVE BooksInOrder'
  <2>1. /\ UNCHANGED <<kept, row, books, theirs, entry>>
        /\ crossed \subseteq crossed'
        /\ push.at = "revoke"
        /\ \/ push' = NoPush
           \/ push' = [push EXCEPT !.at = "settle", !.mine = books \ push.gone]
        /\ \A k \in Creds \ crossed' : ~ListsCross(push', entry) /\ ~KeyCrosses(push', entry, k)
    BY <1>13, <1>p DEF DropRead, PushAt
  <2>0. ~push.wrote /\ push.key = {}
    BY <2>1 DEF PushShape
  <2>2. /\ push'.at \in {"none", "settle"} /\ push'.key = {} /\ ~push'.wrote
        /\ push'.at = "none" => push'.gone = {}
        /\ push'.at = "settle" => push'.gone = push.gone /\ push'.mine = books \ push.gone
    <3>1. CASE push' = NoPush
      BY <3>1 DEF NoPush
    <3>2. CASE push' = [push EXCEPT !.at = "settle", !.mine = books \ push.gone]
      BY <1>x, <2>0, <3>2 DEF PushStates
    <3> QED BY <2>1, <3>1, <3>2
  <2>4. PushShape'
    BY <2>2, <2>0 DEF PushShape
  <2>5. ASSUME NEW k \in Creds \ crossed' PROVE InOrder(k)'
    <3>1. InOrder(k)
      BY <2>1
    <3> QED BY <1>x, <2>1, <2>2, <2>0, <3>1 DEF InOrder, ListsAreFresh, ReadLive, Entering, Listing
  <2> QED BY <1>e, <2>1, <2>4, <2>5
<1>14. ASSUME DropWrite PROVE BooksInOrder'
  <2>1. /\ UNCHANGED <<kept, row, theirs, entry>> /\ crossed \subseteq crossed'
        /\ push.at = "settle" /\ push' = NoPush
        /\ books' = push.mine
        /\ \A k \in Creds \ crossed' : ~ListsCross(push', entry) /\ ~KeyCrosses(push', entry, k)
    BY <1>14, <1>p DEF DropWrite, PushAt
  <2>2. /\ push'.at = "none" /\ push'.key = {} /\ push'.gone = {} /\ ~push'.wrote
    BY <2>1 DEF NoPush
  <2>3. ~push.wrote /\ push.key = {}
    BY <2>1 DEF PushShape
  <2>4. PushShape'
    BY <2>2, <2>3 DEF PushShape
  <2>5. ASSUME NEW k \in Creds \ crossed' PROVE InOrder(k)'
    <3>1. InOrder(k)
      BY <2>1
    <3> QED BY <1>x, <2>1, <2>2, <2>3, <3>1 DEF InOrder, ListsAreFresh, ReadLive, Entering, Listing, ListsCross, PushLists
  <2> QED BY <1>e, <2>1, <2>4, <2>5
<1>15. ASSUME PushDies PROVE BooksInOrder'
  <2>1. /\ UNCHANGED <<kept, row, books, theirs, entry>> /\ crossed \subseteq crossed'
        /\ push' = NoPush /\ push.key \subseteq crossed'
        /\ \A k \in Creds \ crossed' : ~ListsCross(push', entry) /\ ~KeyCrosses(push', entry, k)
    BY <1>15, <1>m DEF PushDies
  <2>2. /\ push'.at = "none" /\ push'.key = {} /\ push'.gone = {} /\ ~push'.wrote
    BY <2>1 DEF NoPush
  <2>3. \A c \in push.key : c \in crossed'
    BY <2>1 DEF PushShape
  <2>4. PushShape'
    BY <2>2, <2>3 DEF PushShape
  <2>5. ASSUME NEW k \in Creds \ crossed' PROVE InOrder(k)'
    <3>1. InOrder(k)
      BY <2>1
    <3> QED BY <1>x, <2>1, <2>2, <2>3, <3>1 DEF InOrder, ListsAreFresh, ReadLive, Entering, Listing
  <2> QED BY <1>e, <2>1, <2>4, <2>5
<1> QED BY <1>1, <1>2, <1>3, <1>4, <1>5, <1>6, <1>7, <1>8, <1>9, <1>10, <1>11, <1>12, <1>13, <1>14,
           <1>15

(* So do those of a clerk's save.                                            *)
LEMMA EntryKeepsOrder ==
  ASSUME HostTypeOK, BooksInOrder, NEW a \in Admins,
         \/ EntryList(a) \/ EntryCommit(a) \/ EntryDies(a)
         \/ \E k \in Creds : Enter(a, k) \/ EnterUnstored(a, k)
  PROVE  BooksInOrder'
<1> USE DEF BooksInOrder
<1>x. /\ entry \in [Admins -> EntryStates] /\ entry[a] \in EntryStates
      /\ books \subseteq Creds /\ theirs \subseteq Creds
      /\ kept \in [Creds -> Authors] /\ row \in [Creds -> Authors]
  BY DEF HostTypeOK
<1>m. \A e, more : Moves(push, e, more) =>
        /\ push' = push /\ entry' = e /\ crossed \subseteq crossed' /\ more \subseteq crossed'
        /\ \A k \in Creds \ crossed' : ~ListsCross(push, e) /\ ~KeyCrosses(push, e, k)
  BY MovesMark
<1>s. push' = push => PushShape'
  BY DEF PushShape
<1>n. NoSave.at = "none" /\ NoSave.key = {} /\ ~NoSave.takes
  BY DEF NoSave
<1>1. ASSUME NEW c \in Creds, Enter(a, c) PROVE BooksInOrder'
  <2> DEFINE next == [NoSave EXCEPT !.at = "list", !.key = {c}]
  <2>a. Moves(push, [entry EXCEPT ![a] = next], {})
    BY <1>1 DEF Enter
  <2>1. /\ UNCHANGED <<row, books, theirs, push>> /\ crossed \subseteq crossed'
        /\ entry[a].at = "none" /\ kept' = Wrote(kept, {c}, "town")
        /\ entry' = [entry EXCEPT ![a] = next]
        /\ \A k \in Creds \ crossed' : ~ListsCross(push', entry') /\ ~KeyCrosses(push', entry', k)
    <3> HIDE DEF next
    <3> QED BY <1>1, <1>m, <2>a DEF Enter
  <2>2. /\ entry'[a].at = "list" /\ entry'[a].key = {c} /\ ~entry'[a].takes
        /\ entry[a].key = {} /\ ~entry[a].takes
        /\ \A b \in Admins \ {a} : entry'[b] = entry[b]
    BY <1>x, <2>1 DEF EntryShape, NoSave
  <2>3. EntryShape'
    BY <2>2 DEF EntryShape
  <2>4. ASSUME NEW k \in Creds \ crossed' PROVE InOrder(k)'
    <3>1. InOrder(k)
      BY <2>1
    <3> QED BY <1>x, <2>1, <2>2, <3>1
       DEF InOrder, ListsAreFresh, ReadLive, Entering, Listing, KeyCrosses, Handled, Wrote
  <2> QED BY <1>s, <2>1, <2>3, <2>4
<1>2. ASSUME NEW c \in Creds, EnterUnstored(a, c) PROVE BooksInOrder'
  <2> DEFINE next == [NoSave EXCEPT !.at = "list", !.key = {c}]
  <2>a. Moves(push, [entry EXCEPT ![a] = next], {c})
    BY <1>2 DEF EnterUnstored
  <2>1. /\ UNCHANGED <<kept, row, books, theirs, push>> /\ crossed \subseteq crossed'
        /\ entry[a].at = "none" /\ c \in crossed'
        /\ entry' = [entry EXCEPT ![a] = next]
        /\ \A k \in Creds \ crossed' : ~ListsCross(push', entry') /\ ~KeyCrosses(push', entry', k)
    <3> HIDE DEF next
    <3> QED BY <1>2, <1>m, <2>a DEF EnterUnstored
  <2>2. /\ entry'[a].at = "list" /\ entry'[a].key = {c} /\ ~entry'[a].takes
        /\ entry[a].key = {} /\ ~entry[a].takes
        /\ \A b \in Admins \ {a} : entry'[b] = entry[b]
    BY <1>x, <2>1 DEF EntryShape, NoSave
  <2>3. EntryShape'
    BY <2>2 DEF EntryShape
  <2>4. ASSUME NEW k \in Creds \ crossed' PROVE InOrder(k)'
    <3>1. InOrder(k)
      BY <2>1
    <3> QED BY <1>x, <2>1, <2>2, <3>1
       DEF InOrder, ListsAreFresh, ReadLive, Entering, Listing, KeyCrosses, Handled, Wrote
  <2> QED BY <1>s, <2>1, <2>3, <2>4
<1>3. ASSUME EntryList(a) PROVE BooksInOrder'
  <2> DEFINE next(c) == [entry[a] EXCEPT !.at = "commit", !.mine = books \ {c},
                                         !.takes = OnList(c), !.found = row[c] # "none"]
  <2>a. PICK c \in entry[a].key : Moves(push, [entry EXCEPT ![a] = next(c)], {})
    BY <1>3 DEF EntryList
  <2>1. /\ UNCHANGED <<kept, row, books, theirs, push>> /\ crossed \subseteq crossed'
        /\ entry[a].at = "list"
        /\ entry' = [entry EXCEPT ![a] = next(c)]
        /\ \A k \in Creds \ crossed' : ~ListsCross(push', entry') /\ ~KeyCrosses(push', entry', k)
    <3> HIDE DEF next
    <3> QED BY <1>3, <1>m, <2>a DEF EntryList
  <2>b. entry[a].key = {c} /\ c \in Creds /\ ~entry[a].takes
    BY <2>1, <2>a DEF EntryShape
  <2>2. /\ entry'[a].at = "commit" /\ entry'[a].key = {c} /\ entry'[a].mine = books \ {c}
        /\ entry'[a].takes <=> c \in books
        /\ \A b \in Admins \ {a} : entry'[b] = entry[b]
    BY <1>x, <2>1, <2>b DEF EntryStates, OnList
  <2>3. EntryShape'
    BY <2>2 DEF EntryShape
  <2>4. ASSUME NEW k \in Creds \ crossed' PROVE InOrder(k)'
    <3>1. InOrder(k)
      BY <2>1
    <3>2. ListsAreFresh'
      <4>1. \A b \in Listing(entry') : entry'[b].mine = books \ entry'[b].key
        BY <2>2, <3>1 DEF InOrder, ListsAreFresh, Listing
      <4> QED BY <2>1, <3>1, <4>1 DEF InOrder, ListsAreFresh
    <3>3. \A b \in Admins : entry'[b].key = entry[b].key
      BY <2>2, <2>b
    <3>4. Entering(k)' <=> Entering(k)
      BY <3>3 DEF Entering
    <3>5. ASSUME NEW b \in Admins, k \in entry'[b].key
          PROVE  /\ kept[k] = "town" /\ (row[k] = "host" => k \in books)
                 /\ entry'[b].at = "commit" /\ ~entry'[b].takes => k \notin books
      BY <2>2, <2>b, <3>1, <3>5 DEF InOrder
    <3> QED BY <2>1, <3>1, <3>2, <3>4, <3>5 DEF InOrder, ReadLive
  <2> QED BY <1>s, <2>1, <2>3, <2>4
<1>4. ASSUME EntryCommit(a), \E c \in entry[a].key : entry[a].found # (row[c] # "none")
      PROVE  BooksInOrder'
  <2>1. /\ UNCHANGED <<kept, push>> /\ crossed \subseteq crossed'
        /\ entry[a].at = "commit"
        /\ entry' = [entry EXCEPT ![a] = NoSave]
        /\ UNCHANGED <<row, books, theirs>>
        /\ \A k \in Creds \ crossed' : ~ListsCross(push', entry') /\ ~KeyCrosses(push', entry', k)
    BY <1>4, <1>m DEF EntryCommit, Clashes
  <2>2. /\ entry'[a].at = "none" /\ entry'[a].key = {} /\ ~entry'[a].takes
        /\ \E c \in Creds : entry[a].key = {c}
        /\ \A b \in Admins \ {a} : entry'[b] = entry[b]
    BY <1>x, <1>n, <2>1 DEF EntryShape
  <2>3. EntryShape'
    BY <2>2 DEF EntryShape
  <2>4. ASSUME NEW k \in Creds \ crossed' PROVE InOrder(k)'
    <3>1. InOrder(k)
      BY <2>1
    <3> QED BY <1>x, <2>1, <2>2, <3>1
       DEF InOrder, ListsAreFresh, ReadLive, Entering, Listing, KeyCrosses, Handled, Wrote
  <2> QED BY <1>s, <2>1, <2>3, <2>4
<1>5. ASSUME EntryCommit(a), \A c \in entry[a].key : entry[a].found = (row[c] # "none")
      PROVE  BooksInOrder'
  <2>1. /\ UNCHANGED <<kept, push>> /\ crossed \subseteq crossed'
        /\ entry[a].at = "commit"
        /\ entry' = [entry EXCEPT ![a] = NoSave]
        /\ row' = Wrote(row, entry[a].key, "town") /\ theirs' = theirs \cup entry[a].key
        /\ books' = IF entry[a].takes THEN entry[a].mine ELSE books
        /\ \A k \in Creds \ crossed' : ~ListsCross(push', entry') /\ ~KeyCrosses(push', entry', k)
    BY <1>5, <1>m DEF EntryCommit, Clashes
  <2>2. /\ entry'[a].at = "none" /\ entry'[a].key = {} /\ ~entry'[a].takes
        /\ \E c \in Creds : entry[a].key = {c}
        /\ \A b \in Admins \ {a} : entry'[b] = entry[b]
    BY <1>x, <1>n, <2>1 DEF EntryShape
  <2>3. EntryShape'
    BY <2>2 DEF EntryShape
  <2>4. ASSUME NEW k \in Creds \ crossed' PROVE InOrder(k)'
    <3>1. InOrder(k)
      BY <2>1
    <3> QED BY <1>x, <2>1, <2>2, <3>1
      
       DEF InOrder, ListsAreFresh, ReadLive, Entering, Listing, KeyCrosses, Handled, Wrote,
           ListsCross, PushLists
  <2> QED BY <1>s, <2>1, <2>3, <2>4
<1>6. ASSUME EntryDies(a) PROVE BooksInOrder'
  <2>1. /\ UNCHANGED <<kept, row, books, theirs, push>> /\ crossed \subseteq crossed'
        /\ entry[a].at # "none" /\ entry[a].key \subseteq crossed'
        /\ entry' = [entry EXCEPT ![a] = NoSave]
        /\ \A k \in Creds \ crossed' : ~ListsCross(push', entry') /\ ~KeyCrosses(push', entry', k)
    BY <1>6, <1>m DEF EntryDies
  <2>2. /\ entry'[a].at = "none" /\ entry'[a].key = {} /\ ~entry'[a].takes
        /\ \E c \in Creds : entry[a].key = {c}
        /\ \A b \in Admins \ {a} : entry'[b] = entry[b]
    BY <1>x, <1>n, <2>1 DEF EntryShape
  <2>3. EntryShape'
    BY <2>2 DEF EntryShape
  <2>4. ASSUME NEW k \in Creds \ crossed' PROVE InOrder(k)'
    <3>1. InOrder(k)
      BY <2>1
    <3> QED BY <1>x, <2>1, <2>2, <3>1
       DEF InOrder, ListsAreFresh, ReadLive, Entering, Listing, KeyCrosses, Handled, Wrote
  <2> QED BY <1>s, <2>1, <2>3, <2>4
<1> QED BY <1>1, <1>2, <1>3, <1>4, <1>5, <1>6

(* The books are in order in every state, up to the keys marked as crossed. *)
THEOREM HostBooksInOrder == HostSpec => []BooksInOrder
<1>1. HostInit => BooksInOrder
  BY DEF HostInit, BooksInOrder, PushShape, EntryShape, InOrder, ListsAreFresh, ReadLive, Entering,
         Listing, PushLists, ListsCross, KeyCrosses, Handled, NoPush, NoSave
<1>2. HostTypeOK /\ BooksInOrder /\ [HostNext]_hostVars => BooksInOrder'
  <2> SUFFICES ASSUME HostTypeOK, BooksInOrder, [HostNext]_hostVars PROVE BooksInOrder'
    OBVIOUS
  <2>1. CASE HostNext
    BY <2>1, PushKeepsOrder, EntryKeepsOrder DEF HostNext
  <2>2. CASE UNCHANGED hostVars
    BY <2>2 DEF hostVars, BooksInOrder, PushShape, EntryShape, InOrder, ListsAreFresh, ReadLive,
                Entering, Listing
  <2> QED BY <2>1, <2>2
<1> QED BY <1>1, <1>2, HostTyped, PTL DEF HostSpec

(* A clerk's value stays, and stays off the host's books, for any number of  *)
(* pushes and saves, but for the overlaps the property names.                *)
THEOREM TownsOwnKept == HostSpec => []TownKeepsItsOwn
<1>1. HostTypeOK /\ BooksInOrder => TownKeepsItsOwn
  BY DEF HostTypeOK, BooksInOrder, InOrder, TownKeepsItsOwn
<1> QED BY <1>1, HostTyped, HostBooksInOrder, PTL

(* A live value of the host's is on its books, in the same generality.       *)
THEOREM HostsOwnManaged == HostSpec => []HostManagesItsOwn
<1>1. BooksInOrder => HostManagesItsOwn
  BY DEF BooksInOrder, InOrder, ReadLive, Entering, Resting, HostManagesItsOwn
<1> QED BY <1>1, HostBooksInOrder, PTL

(* Town and host each keep what is theirs.                                   *)
THEOREM OwnershipKept == HostSpec => []OwnershipHolds
<1>1. TownKeepsItsOwn /\ HostManagesItsOwn => OwnershipHolds
  BY DEF OwnershipHolds
<1> QED BY <1>1, TownsOwnKept, HostsOwnManaged, PTL

-----------------------------------------------------------------------------
Bundling(h) == At(h, "read") \/ At(h, "write")

(* How far each kind of job can be, and with which keys.                     *)
JobIsSound(h) ==
  LET job == handler[h]
  IN  /\ job.doing = "none" <=> job.at = "none"
      /\ job.doing = "none" => job.keys = {} /\ job.good = {}
      /\ job.doing \in {"save", "clear", "withdraw"} =>
           /\ job.at \in {"lock", "read", "write", "row"} /\ \E k \in Secrets : job.keys = {k}
           /\ job.at = "lock" => job.left = job.keys
           /\ Bundling(h) => job.now = job.keys
           /\ job.at # "row" => job.good = {}
           /\ job.good \in {{}, job.keys}
      /\ job.doing = "save" <=> job.value # 0
      /\ job.doing = "sweep" => job.at # "row" /\ job.left \cup job.now \cup job.good \subseteq job.keys

(* A lock belongs to a handler of its process that is between the read and   *)
(* the write of the bundle.                                                  *)
LockIsHeld ==
  /\ \A h \in Handlers : Bundling(h) <=> bundleLock[HomeOf[h]] = h
  /\ \A p \in Processes : bundleLock[p] # NoHandler => HomeOf[bundleLock[p]] = p

(* Where something is promised still, one handler has the bundle, and it has *)
(* the latest.                                                               *)
BundleIsLatest ==
  Secrets \ excused # {} =>
    /\ \A g, h \in Handlers : Bundling(g) /\ Bundling(h) => g = h
    /\ \A h \in Handlers : At(h, "write") => handler[h].held = bundle

(* A row has the value of the last change, if any.                           *)
RowIsNewest == \A k \in Secrets : copy[k].value \in {0, newest[k]}

(* Those about one key are one, or sweeps.                                   *)
OneAboutIt(k) ==
  \A g, h \in Handlers : k \in handler[g].keys /\ k \in handler[h].keys =>
    g = h \/ (Doing(g, "sweep") /\ Doing(h, "sweep"))

(* A sweep loaded the value of the last change; where it copied that, the    *)
(* bundle has it.                                                            *)
SweptRight(k) ==
  \A h \in Handlers : Doing(h, "sweep") /\ k \in handler[h].keys =>
    /\ newest[k] # 0 /\ handler[h].loaded[k].value = newest[k]
    /\ k \in handler[h].good \/ (At(h, "verify") /\ k \in handler[h].left) => bundle[k] = newest[k]

(* A key that was withdrawn from the bundle is not there.                    *)
WithdrawalStands(k) ==
  \A h \in Handlers : Doing(h, "withdraw") /\ k \in handler[h].good => bundle[k] = 0

WordIsKept(k) ==
  AtRest(k) => /\ newest[k] # 0 => newest[k] \in {bundle[k], copy[k].value}
               /\ newest[k] = 0 /\ k \notin cleared => bundle[k] = 0

KeyHolds(k) == OneAboutIt(k) /\ SweptRight(k) /\ WithdrawalStands(k) /\ WordIsKept(k)

VaultBond ==
  /\ \A h \in Handlers : JobIsSound(h)
  /\ LockIsHeld /\ BundleIsLatest /\ RowIsNewest
  /\ \A k \in Secrets \ excused : KeyHolds(k)

Clerical == {"save", "clear", "withdraw"}

LEMMA VaultValues ==
  /\ 0 \in Values /\ Empty \in Bundles /\ NoRows \in [Secrets -> VaultRows] /\ Idle \in HandlerStates
  /\ Idle.doing = "none" /\ Idle.at = "none" /\ Idle.keys = {} /\ Idle.value = 0 /\ Idle.good = {}
  /\ Idle.left = {} /\ Idle.now = {}
<1>1. 0 \in Values
  BY VaultBoundsAreNat DEF Values
<1>2. Empty \in Bundles /\ NoRows \in [Secrets -> VaultRows]
  BY <1>1 DEF Empty, Bundles, NoRows, VaultRows
<1> QED BY <1>1, <1>2 DEF Idle, HandlerStates

(* One handler turns to another state; the others are where they were.       *)
LEMMA HandlerTurns ==
  ASSUME VaultTypeOK, NEW h \in Handlers, NEW s \in HandlerStates, handler' = [handler EXCEPT ![h] = s]
  PROVE  /\ handler' \in [Handlers -> HandlerStates]
         /\ handler'[h] = s
         /\ \A x \in Handlers \ {h} : handler'[x] = handler[x]
BY DEF VaultTypeOK

LEMMA OneTurns ==
  ASSUME VaultTypeOK, NEW h \in Handlers
  PROVE  handler[h] \in HandlerStates /\ HomeOf[h] \in Processes /\ h # NoHandler
BY HandlersLiveSomewhere, NoHandlerIsNone DEF VaultTypeOK

(* A step that takes or gives back no lock.                                  *)
LEMMA LocksStay ==
  ASSUME VaultBond, NEW h \in Handlers,
         \A x \in Handlers \ {h} : handler'[x] = handler[x],
         UNCHANGED <<bundle, bundleLock>>, excused \subseteq excused',
         JobIsSound(h)', Bundling(h)' <=> Bundling(h),
         Secrets \ excused' # {} /\ At(h, "write")' => handler'[h].held = bundle
  PROVE  (\A x \in Handlers : JobIsSound(x)') /\ LockIsHeld' /\ BundleIsLatest'
<1>1. \A x \in Handlers : JobIsSound(x)'
  BY DEF VaultBond, JobIsSound, Bundling, At
<1>2. \A x \in Handlers : Bundling(x)' <=> Bundling(x)
  BY DEF Bundling, At
<1>3. LockIsHeld'
  BY <1>2 DEF VaultBond, LockIsHeld
<1>4. BundleIsLatest'
  BY <1>2 DEF VaultBond, BundleIsLatest, At
<1> QED BY <1>1, <1>3, <1>4

(* What a step must leave of one key for all that is promised about it.      *)
LEMMA KeyStays ==
  ASSUME VaultBond, NEW h \in Handlers, NEW k \in Secrets \ excused,
         \A x \in Handlers \ {h} : handler'[x] = handler[x],
         newest'[k] = newest[k], k \in cleared' <=> k \in cleared,
         bundle'[k] = bundle[k]
           \/ (Doing(h, "sweep") /\ k \in handler[h].keys /\ bundle'[k] = newest[k]),
         copy'[k].value = copy[k].value \/ bundle'[k] = newest[k],
         \/ handler'[h].keys = {} /\ (k \in handler[h].keys => Doing(h, "sweep"))
         \/ /\ handler'[h].keys = handler[h].keys /\ handler'[h].doing = handler[h].doing
            /\ handler'[h].loaded = handler[h].loaded,
         k \in handler'[h].keys /\ Doing(h, "sweep")' =>
           ((k \in handler'[h].good \/ (At(h, "verify")' /\ k \in handler'[h].left)) => bundle'[k] = newest[k]),
         Doing(h, "withdraw")' /\ k \in handler'[h].good => bundle'[k] = 0,
         \A x \in Handlers : handler[x].good # {} => handler[x].good \subseteq handler[x].keys
  PROVE  KeyHolds(k)'
<1>1. KeyHolds(k)
  BY DEF VaultBond
<1>2. OneAboutIt(k)'
  BY <1>1 DEF KeyHolds, OneAboutIt, Doing
<1>3. SweptRight(k)'
  BY <1>1 DEF KeyHolds, SweptRight, Doing, At
<1>4. WithdrawalStands(k)'
  <2> SUFFICES ASSUME NEW x \in Handlers \ {h}, Doing(x, "withdraw"), k \in handler[x].good
               PROVE  bundle'[k] = 0
    BY DEF WithdrawalStands, Doing
  <2>1. bundle[k] = 0
    BY <1>1 DEF KeyHolds, WithdrawalStands
  <2>2. k \in handler[x].keys
    OBVIOUS
  <2>3. ~(Doing(h, "sweep") /\ k \in handler[h].keys)
    BY <1>1, <2>2 DEF KeyHolds, OneAboutIt, Doing
  <2> QED BY <2>1, <2>3
<1>5. WordIsKept(k)'
  <2>1. AtRest(k)' => AtRest(k)
    BY DEF AtRest, Doing
  <2>2. SweptRight(k)
    BY <1>1 DEF KeyHolds
  <2> QED BY <1>1, <2>1, <2>2 DEF KeyHolds, WordIsKept, SweptRight
<1> QED BY <1>2, <1>3, <1>4, <1>5 DEF KeyHolds

LEMMA GoodAreKeys ==
  ASSUME VaultTypeOK, VaultBond, NEW x \in Handlers
  PROVE  /\ handler[x].good \subseteq handler[x].keys
         /\ handler[x].at \in {"verify", "scrub"} => Doing(x, "sweep")
         /\ handler[x].at = "row" => handler[x].doing \in Clerical
         /\ handler[x].doing \in {"none", "sweep"} \cup Clerical
<1>1. handler[x] \in HandlerStates /\ JobIsSound(x)
  BY OneTurns DEF VaultBond
<1>2. handler[x].doing \in {"none", "sweep"} \cup Clerical
  BY <1>1 DEF HandlerStates, Clerical
<1>3. handler[x].doing = "none" => handler[x].good = {}
  BY <1>1 DEF JobIsSound
<1> QED BY <1>1, <1>2, <1>3 DEF JobIsSound, Doing, Clerical

(* A handler begins: it is alone about its keys, or they are excused; or it  *)
(* is one sweep more.                                                        *)
LEMMA BeginKeeps ==
  ASSUME VaultTypeOK, VaultBond, NEW h \in Handlers, NEW job \in HandlerStates, Begin(h, job),
         counts' \in [changes : Values, faults : 0..MaxVaultFaults],
         JobIsSound(h)', job.doing # "none", job.at \in {"lock", "row"}, job.good = {},
         job.doing = "sweep" => \A k \in job.keys : copy[k].value # 0 /\ job.loaded[k] = copy[k]
  PROVE  VaultTypeOK' /\ VaultBond'
<1>1. /\ At(h, "none") /\ handler' = [handler EXCEPT ![h] = job]
      /\ excused' = excused \cup {k \in job.keys : \E g \in Handlers :
                        k \in handler[g].keys /\ {job.doing, handler[g].doing} # {"sweep"}}
      /\ UNCHANGED <<bundle, copy, cacheOf, bundleLock, newest, cleared>>
  BY DEF Begin
<1>2. /\ handler' \in [Handlers -> HandlerStates] /\ handler'[h] = job
      /\ \A x \in Handlers \ {h} : handler'[x] = handler[x]
  BY <1>1, HandlerTurns
<1>3. excused \subseteq excused' /\ excused' \subseteq Secrets
  BY <1>1 DEF VaultTypeOK, HandlerStates
<1>4. VaultTypeOK'
  BY <1>1, <1>2, <1>3 DEF VaultTypeOK
<1>5. (\A x \in Handlers : JobIsSound(x)') /\ LockIsHeld' /\ BundleIsLatest'
  BY <1>1, <1>2, <1>3, LocksStay DEF Bundling, At
<1>6. RowIsNewest'
  BY <1>1 DEF VaultBond, RowIsNewest
<1>7. ASSUME NEW k \in Secrets \ excused' PROVE KeyHolds(k)'
  <2>1. KeyHolds(k) /\ k \in Secrets \ excused
    BY <1>3 DEF VaultBond
  <2>2. k \in job.keys => \A g \in Handlers : k \in handler[g].keys => job.doing = "sweep" /\ Doing(g, "sweep")
    BY <1>1 DEF Doing
  <2>3. OneAboutIt(k)'
    BY <1>2, <2>1, <2>2 DEF KeyHolds, OneAboutIt, Doing
  <2>4. SweptRight(k)'
    <3>1. copy[k].value \in {0, newest[k]}
      BY DEF VaultBond, RowIsNewest
    <3>2. ASSUME k \in job.keys, job.doing = "sweep"
          PROVE  newest[k] # 0 /\ job.loaded[k].value = newest[k]
      BY <3>1, <3>2
    <3> QED BY <1>1, <1>2, <2>1, <3>2 DEF KeyHolds, SweptRight, Doing, At
  <2>5. WithdrawalStands(k)'
    BY <1>1, <1>2, <2>1 DEF KeyHolds, WithdrawalStands, Doing
  <2>6. WordIsKept(k)'
    <3>1. AtRest(k)' => AtRest(k)
      <4>1. k \notin handler[h].keys
        BY <1>1, OneTurns DEF VaultBond, JobIsSound, At
      <4> QED BY <1>2, <4>1 DEF AtRest, Doing
    <3> QED BY <1>1, <2>1, <3>1 DEF KeyHolds, WordIsKept
  <2> QED BY <2>3, <2>4, <2>5, <2>6 DEF KeyHolds
<1> QED BY <1>4, <1>5, <1>6, <1>7 DEF VaultBond

LEMMA ClerkBegins ==
  ASSUME VaultTypeOK, VaultBond, NEW h \in Clerks, NEW k \in Secrets,
         Save(h, k) \/ Clear(h, k) \/ Withdraw(h, k)
  PROVE  VaultTypeOK' /\ VaultBond'
<1> USE VaultBoundsAreNat
<1>1. /\ counts' \in [changes : Values, faults : 0..MaxVaultFaults]
      /\ counts.changes + 1 \in Values /\ counts.changes + 1 # 0
  BY DEF Save, Clear, Withdraw, Change, VaultTypeOK, Values
<1>2. PICK what \in Clerical, at \in {"lock", "row"}, v \in Values :
        Begin(h, About(k, what, at, v)) /\ (what = "save" <=> v # 0)
  BY <1>1, VaultValues DEF Save, Clear, Withdraw, Clerical
<1> DEFINE job == About(k, what, at, v)
<1>3. /\ job \in HandlerStates /\ job.doing = what /\ job.at = at /\ job.keys = {k} /\ job.left = {k}
      /\ job.good = {} /\ job.value = v
  BY <1>2, VaultValues DEF About, Idle, HandlerStates, Clerical
<1>4. handler' = [handler EXCEPT ![h] = job]
  BY <1>2 DEF Begin
<1> HIDE DEF job
<1>5. h \in Handlers /\ handler'[h] = job
  BY <1>3, <1>4, HandlerTurns DEF Handlers
<1>6. JobIsSound(h)'
  BY <1>2, <1>3, <1>5 DEF JobIsSound, Bundling, At, Clerical
<1> QED BY <1>1, <1>2, <1>3, <1>5, <1>6, BeginKeeps DEF Clerical, job

LEMMA SweepBegins ==
  ASSUME VaultTypeOK, VaultBond, NEW h \in Sweepers, StartSweep(h)
  PROVE  VaultTypeOK' /\ VaultBond'
<1> DEFINE full == {k \in Secrets : copy[k].value # 0}
<1> DEFINE job == [Idle EXCEPT !.doing = "sweep", !.at = "lock", !.keys = full, !.left = full, !.loaded = copy]
<1>1. Begin(h, job) /\ UNCHANGED counts
  BY DEF StartSweep
<1>2. /\ job \in HandlerStates /\ job.doing = "sweep" /\ job.at = "lock" /\ job.keys = full /\ job.left = full
      /\ job.now = {} /\ job.good = {} /\ job.value = 0 /\ job.loaded = copy
  BY VaultValues DEF Idle, HandlerStates, VaultTypeOK
<1>3. handler' = [handler EXCEPT ![h] = job]
  BY <1>1 DEF Begin
<1> HIDE DEF job
<1>4. h \in Handlers /\ handler'[h] = job
  BY <1>2, <1>3, HandlerTurns DEF Handlers
<1>5. JobIsSound(h)'
  BY <1>2, <1>4 DEF JobIsSound, Bundling, At
<1> QED BY <1>1, <1>2, <1>4, <1>5, BeginKeeps DEF VaultTypeOK

(* The process's lock is taken: only another process's may be held besides.  *)
LEMMA TakeLockKeeps ==
  ASSUME VaultTypeOK, VaultBond, NEW h \in Handlers, NEW j \in Secrets, TakeLock(h, j)
  PROVE  VaultTypeOK' /\ VaultBond'
<1> DEFINE s == [handler[h] EXCEPT !.at = "read", !.left = @ \ {j}, !.now = {j}]
<1>1. /\ At(h, "lock") /\ j \in handler[h].left /\ bundleLock[HomeOf[h]] = NoHandler
      /\ bundleLock' = [bundleLock EXCEPT ![HomeOf[h]] = h]
      /\ handler' = [handler EXCEPT ![h] = s]
      /\ excused' = IF \E p \in Processes \ {HomeOf[h]} : bundleLock[p] # NoHandler
                    THEN Secrets ELSE excused
      /\ UNCHANGED <<bundle, copy, cacheOf, newest, cleared, counts>>
  BY DEF TakeLock, LockFree
<1>2. handler[h] \in HandlerStates /\ HomeOf[h] \in Processes /\ h # NoHandler
  BY OneTurns
<1>3. /\ s \in HandlerStates /\ s.at = "read" /\ s.left = handler[h].left \ {j} /\ s.now = {j}
      /\ s.doing = handler[h].doing /\ s.keys = handler[h].keys /\ s.value = handler[h].value
      /\ s.good = handler[h].good /\ s.loaded = handler[h].loaded
  BY <1>2 DEF HandlerStates
<1> HIDE DEF s
<1>4. /\ handler' \in [Handlers -> HandlerStates] /\ handler'[h] = s
      /\ \A x \in Handlers \ {h} : handler'[x] = handler[x]
  BY <1>1, <1>3, HandlerTurns
<1>5. excused \subseteq excused' /\ excused' \subseteq Secrets
  BY <1>1 DEF VaultTypeOK
<1>6. bundleLock' \in [Processes -> Handlers \cup {NoHandler}] /\ bundleLock'[HomeOf[h]] = h
      /\ \A p \in Processes \ {HomeOf[h]} : bundleLock'[p] = bundleLock[p]
  BY <1>1, <1>2 DEF VaultTypeOK
<1>7. VaultTypeOK'
  BY <1>1, <1>4, <1>5, <1>6 DEF VaultTypeOK
<1>8. \A x \in Handlers : JobIsSound(x)'
  <2>1. JobIsSound(h) /\ handler[h].at = "lock"
    BY <1>1 DEF VaultBond, At
  <2>2. s.doing \in Clerical => s.now = s.keys
    BY <1>1, <1>3, <2>1 DEF JobIsSound, Clerical
  <2>3. JobIsSound(h)'
    BY <1>1, <1>2, <1>3, <1>4, <2>1, <2>2 DEF JobIsSound, Bundling, At, Clerical
  <2> QED BY <1>4, <2>3 DEF VaultBond, JobIsSound, Bundling, At
<1>9. LockIsHeld'
  <2>1. Bundling(h)' /\ \A x \in Handlers \ {h} : Bundling(x)' <=> Bundling(x)
    BY <1>3, <1>4 DEF Bundling, At
  <2>2. \A x \in Handlers \ {h} : bundleLock'[HomeOf[x]] = x <=> bundleLock[HomeOf[x]] = x
    BY <1>1, <1>6, OneTurns
  <2> QED BY <1>2, <1>6, <2>1, <2>2, HandlersLiveSomewhere DEF VaultBond, LockIsHeld
<1>10. BundleIsLatest'
  <2> SUFFICES ASSUME Secrets \ excused' # {} PROVE BundleIsLatest'
    BY DEF BundleIsLatest
  <2>1. \A p \in Processes \ {HomeOf[h]} : bundleLock[p] = NoHandler
    BY <1>1
  <2>2. \A x \in Handlers \ {h} : ~Bundling(x)
    BY <1>1, <2>1, OneTurns DEF VaultBond, LockIsHeld
  <2>3. \A x \in Handlers \ {h} : ~Bundling(x)'
    BY <1>4, <2>2 DEF Bundling, At
  <2> QED BY <1>3, <1>4, <2>3 DEF BundleIsLatest, Bundling, At
<1>11. RowIsNewest'
  BY <1>1 DEF VaultBond, RowIsNewest
<1>12. ASSUME NEW k \in Secrets \ excused' PROVE KeyHolds(k)'
  <2>1. k \in Secrets \ excused /\ KeyHolds(k)
    BY <1>5 DEF VaultBond
  <2>2. /\ Doing(h, "withdraw") => handler[h].good = {}
        /\ Doing(h, "sweep") /\ k \in handler[h].keys /\ k \in handler[h].good => bundle[k] = newest[k]
    BY <1>1, <2>1 DEF VaultBond, KeyHolds, SweptRight, JobIsSound, Doing, At
  <2> QED BY <1>1, <1>3, <1>4, <2>1, <2>2, GoodAreKeys, KeyStays DEF Doing, At
<1> QED BY <1>7, <1>8, <1>9, <1>10, <1>11, <1>12 DEF VaultBond

(* The bundle is read: as it is, or in vain.                                 *)
LEMMA ReadKeeps ==
  ASSUME VaultTypeOK, VaultBond, NEW h \in Handlers, ReadBundle(h) \/ ReadFails(h)
  PROVE  VaultTypeOK' /\ VaultBond'
<1>1. PICK b \in Bundles :
        /\ handler' = [handler EXCEPT ![h] = [@ EXCEPT !.at = "write", !.held = b]]
        /\ b = bundle \/ excused' = Secrets
  BY VaultValues DEF ReadBundle, ReadFails, Fresh, Unread, VaultTypeOK
<1> DEFINE s == [handler[h] EXCEPT !.at = "write", !.held = b]
<1>2. /\ At(h, "read") /\ handler' = [handler EXCEPT ![h] = s] /\ (excused' = excused \/ excused' = Secrets)
      /\ UNCHANGED <<bundle, copy, bundleLock, newest, cleared>>
  <2>1. handler' = [handler EXCEPT ![h] = s]
    BY <1>1, Zenon
  <2>2. At(h, "read") /\ UNCHANGED <<bundle, copy, bundleLock, newest, cleared>>
    BY DEF ReadBundle, ReadFails
  <2>3. excused' = excused \/ excused' = Secrets
    BY DEF ReadBundle, ReadFails
  <2> QED BY <2>1, <2>2, <2>3
<1>3. /\ s \in HandlerStates /\ s.at = "write" /\ s.held = b /\ s.left = handler[h].left
      /\ s.now = handler[h].now /\ s.doing = handler[h].doing /\ s.keys = handler[h].keys
      /\ s.value = handler[h].value /\ s.good = handler[h].good /\ s.loaded = handler[h].loaded
  BY OneTurns DEF HandlerStates
<1> HIDE DEF s
<1>4. /\ handler' \in [Handlers -> HandlerStates] /\ handler'[h] = s
      /\ \A x \in Handlers \ {h} : handler'[x] = handler[x]
  BY <1>2, <1>3, HandlerTurns
<1>5. excused \subseteq excused' /\ excused' \subseteq Secrets
  BY <1>2 DEF VaultTypeOK
<1>6. VaultTypeOK'
  <2>1. cacheOf' \in [Processes -> Bundles \cup {NoBundle}]
    BY OneTurns DEF ReadBundle, ReadFails, Fresh, Cached, VaultTypeOK
  <2>2. counts' \in [changes : Values, faults : 0..MaxVaultFaults]
    BY VaultBoundsAreNat DEF ReadBundle, ReadFails, Faulty, VaultTypeOK
  <2> QED BY <1>2, <1>4, <1>5, <2>1, <2>2 DEF VaultTypeOK
<1>7. JobIsSound(h)'
  BY <1>2, <1>3, <1>4 DEF VaultBond, JobIsSound, Bundling, At
<1>8. (\A x \in Handlers : JobIsSound(x)') /\ LockIsHeld' /\ BundleIsLatest'
  BY <1>1, <1>2, <1>3, <1>4, <1>5, <1>7, LocksStay DEF Bundling, At
<1>9. RowIsNewest'
  BY <1>2 DEF VaultBond, RowIsNewest
<1>10. ASSUME NEW k \in Secrets \ excused' PROVE KeyHolds(k)'
  <2>1. k \in Secrets \ excused /\ KeyHolds(k)
    BY <1>5 DEF VaultBond
  <2>2. /\ Doing(h, "withdraw") => handler[h].good = {}
        /\ Doing(h, "sweep") /\ k \in handler[h].keys /\ k \in handler[h].good => bundle[k] = newest[k]
    BY <1>2, <2>1 DEF VaultBond, KeyHolds, SweptRight, JobIsSound, Doing, At
  <2> QED BY <1>2, <1>3, <1>4, <2>1, <2>2, GoodAreKeys, KeyStays DEF Doing, At
<1> QED BY <1>6, <1>8, <1>9, <1>10 DEF VaultBond

(* The state a handler is in once its write returned.                        *)
LEMMA AfterWriteIs ==
  ASSUME VaultTypeOK, VaultBond, NEW h \in Handlers, NEW ok \in BOOLEAN, At(h, "write")
  PROVE  LET s == AfterWrite(h, ok)
             job == handler[h]
         IN  /\ s \in HandlerStates
             /\ s.at \in {"none", "lock", "row", "verify"}
             /\ job.doing \in Clerical => /\ s.at = "row" /\ s.doing = job.doing /\ s.keys = job.keys
                                         /\ s.value = job.value /\ s.loaded = job.loaded
                                         /\ s.good = IF ok THEN job.keys ELSE {}
             /\ job.doing = "sweep" =>
                  \/ s = Idle
                  \/ /\ s.doing = "sweep" /\ s.keys = job.keys /\ s.loaded = job.loaded /\ s.value = job.value
                     /\ s.at \in {"lock", "verify"} /\ s.now = {}
                     /\ s.left \subseteq job.left \cup job.good \cup job.now
                     /\ s.good \cup (IF s.at = "verify" THEN s.left ELSE {})
                          = IF ok THEN job.good \cup job.now ELSE job.good
<1> DEFINE job == handler[h]
<1> DEFINE good == IF ok THEN job.good \cup job.now ELSE job.good
<1> DEFINE s == AfterWrite(h, ok)
<1>1. job \in HandlerStates /\ JobIsSound(h) /\ job.at = "write" /\ job.doing \in {"sweep"} \cup Clerical
  BY OneTurns, GoodAreKeys DEF VaultBond, At, JobIsSound
<1>2. good \in SUBSET Secrets
  BY <1>1 DEF HandlerStates
<1>3. CASE job.doing \in Clerical
  <2>1. job.good = {} /\ job.now = job.keys /\ job.doing # "sweep"
    BY <1>1, <1>3 DEF JobIsSound, Clerical, Bundling, At
  <2>2. s = [job EXCEPT !.at = "row", !.now = {}, !.good = good, !.held = Empty]
    BY <2>1 DEF AfterWrite
  <2>3. /\ s \in HandlerStates /\ s.at = "row" /\ s.doing = job.doing /\ s.keys = job.keys
        /\ s.value = job.value /\ s.loaded = job.loaded /\ s.good = good
    BY <1>1, <1>2, <2>2, VaultValues DEF HandlerStates
  <2>4. good = IF ok THEN job.keys ELSE {}
    BY <2>1
  <2> HIDE DEF s, good
  <2> QED BY <1>3, <2>1, <2>3, <2>4 DEF s
<1>4. CASE job.doing = "sweep"
  <2>1. \/ s = [job EXCEPT !.at = "lock", !.now = {}, !.good = good, !.held = Empty]
        \/ s = [job EXCEPT !.at = "verify", !.now = {}, !.left = good, !.good = {}, !.held = Empty]
        \/ s = Idle
    BY <1>4 DEF AfterWrite
  <2>2. CASE s = [job EXCEPT !.at = "lock", !.now = {}, !.good = good, !.held = Empty]
    BY <1>1, <1>2, <1>4, <2>2, VaultValues DEF HandlerStates, Clerical
  <2>3. CASE s = [job EXCEPT !.at = "verify", !.now = {}, !.left = good, !.good = {}, !.held = Empty]
    <3>1. /\ s \in HandlerStates /\ s.at = "verify" /\ s.doing = job.doing /\ s.keys = job.keys
          /\ s.value = job.value /\ s.loaded = job.loaded /\ s.good = {} /\ s.left = good /\ s.now = {}
      BY <1>1, <1>2, <2>3, VaultValues DEF HandlerStates
    <3> HIDE DEF s
    <3> QED BY <1>4, <3>1 DEF s, Clerical
  <2>4. CASE s = Idle
    BY <1>4, <2>4, VaultValues DEF Clerical
  <2> QED BY <2>1, <2>2, <2>3, <2>4
<1> QED BY <1>1, <1>3, <1>4

(* The bundle is written, or not, or nobody knows; and the lock is free.     *)
LEMMA WriteKeeps ==
  ASSUME VaultTypeOK, VaultBond, NEW h \in Handlers, WriteBundle(h) \/ WriteRefused(h) \/ WriteUnanswered(h)
  PROVE  VaultTypeOK' /\ VaultBond'
<1>1. PICK ok \in BOOLEAN :
        /\ At(h, "write") /\ handler' = [handler EXCEPT ![h] = AfterWrite(h, ok)]
        /\ bundleLock' = [bundleLock EXCEPT ![HomeOf[h]] = NoHandler]
        /\ UNCHANGED <<copy, newest, cleared, excused>>
        /\ bundle' \in {bundle, Changed(h)}
        /\ ok => bundle' = Changed(h) \/ (bundle' = bundle /\ Changed(h) = handler[h].held)
  BY DEF WriteBundle, WriteRefused, WriteUnanswered, Returned, Calls
<1> DEFINE s == AfterWrite(h, ok)
<1> DEFINE job == handler[h]
<1>2. /\ job \in HandlerStates /\ HomeOf[h] \in Processes /\ h # NoHandler /\ JobIsSound(h)
      /\ job.at = "write" /\ job.doing \in {"sweep"} \cup Clerical /\ Bundling(h)
  BY <1>1, OneTurns, GoodAreKeys DEF VaultBond, At, JobIsSound, Bundling
<1>3. /\ s \in HandlerStates
      /\ s.at \in {"none", "lock", "row", "verify"}
      /\ job.doing \in Clerical => /\ s.at = "row" /\ s.doing = job.doing /\ s.keys = job.keys
                                  /\ s.value = job.value /\ s.loaded = job.loaded
                                  /\ s.good = IF ok THEN job.keys ELSE {}
      /\ job.doing = "sweep" =>
           \/ s = Idle
           \/ /\ s.doing = "sweep" /\ s.keys = job.keys /\ s.loaded = job.loaded /\ s.value = job.value
              /\ s.at \in {"lock", "verify"} /\ s.now = {}
              /\ s.left \subseteq job.left \cup job.good \cup job.now
              /\ s.good \cup (IF s.at = "verify" THEN s.left ELSE {})
                   = IF ok THEN job.good \cup job.now ELSE job.good
  BY <1>1, AfterWriteIs
<1> HIDE DEF s
<1>4. /\ handler' \in [Handlers -> HandlerStates] /\ handler'[h] = s
      /\ \A x \in Handlers \ {h} : handler'[x] = handler[x]
  BY <1>1, <1>3, HandlerTurns DEF s
<1>5. bundleLock' \in [Processes -> Handlers \cup {NoHandler}] /\ bundleLock'[HomeOf[h]] = NoHandler
      /\ \A p \in Processes \ {HomeOf[h]} : bundleLock'[p] = bundleLock[p]
  BY <1>1, <1>2 DEF VaultTypeOK
<1>6. /\ Changed(h) \in Bundles
      /\ \A k \in Secrets : /\ k \notin job.now => Changed(h)[k] = job.held[k]
                            /\ k \in job.now /\ Doing(h, "sweep") => Changed(h)[k] = job.loaded[k].value
                            /\ k \in job.now /\ ~Doing(h, "sweep") => Changed(h)[k] = job.value
  BY <1>2 DEF Changed, ValueFor, Bundles, HandlerStates, VaultRows
<1>7. VaultTypeOK'
  <2>1. bundle' \in Bundles
    BY <1>1, <1>6 DEF VaultTypeOK
  <2>2. cacheOf' \in [Processes -> Bundles \cup {NoBundle}]
    BY <1>2, <1>6 DEF WriteBundle, WriteRefused, WriteUnanswered, Cached, CacheForgotten, VaultTypeOK
  <2>3. counts' \in [changes : Values, faults : 0..MaxVaultFaults]
    <3>1. counts' = counts \/ Faulty
      BY DEF WriteBundle, WriteRefused, WriteUnanswered
    <3> QED BY <3>1, VaultBoundsAreNat DEF Faulty, VaultTypeOK
  <2> QED BY <1>1, <1>4, <1>5, <2>1, <2>2, <2>3 DEF VaultTypeOK
<1>8. \A x \in Handlers : JobIsSound(x)'
  <2>1. JobIsSound(h)'
    <3>1. CASE job.doing \in Clerical
      BY <1>2, <1>3, <1>4, <3>1 DEF JobIsSound, Bundling, At, Clerical
    <3>2. CASE s = Idle
      BY <1>4, <3>2, VaultValues DEF JobIsSound, Bundling, At
    <3>3. CASE job.doing = "sweep" /\ s # Idle
      <4>1. s.left \cup s.now \cup s.good \subseteq s.keys
        BY <1>2, <1>3, <3>3 DEF JobIsSound
      <4> QED BY <1>2, <1>3, <1>4, <3>3, <4>1 DEF JobIsSound, Bundling, At
    <3> QED BY <1>2, <3>1, <3>2, <3>3
  <2> QED BY <1>4, <2>1 DEF VaultBond, JobIsSound, Bundling, At
<1>9. /\ ~Bundling(h)' /\ ~At(h, "write")'
      /\ \A x \in Handlers \ {h} : /\ Bundling(x)' <=> Bundling(x)
                                   /\ At(x, "write")' => Bundling(x) /\ Bundling(x)'
  BY <1>3, <1>4 DEF Bundling, At
<1>10. LockIsHeld'
  <2>1. bundleLock[HomeOf[h]] = h
    BY <1>2 DEF VaultBond, LockIsHeld
  <2>2. \A x \in Handlers \ {h} : bundleLock'[HomeOf[x]] = x <=> bundleLock[HomeOf[x]] = x
    BY <1>5, <2>1, OneTurns
  <2>3. \A x \in Handlers : Bundling(x)' <=> bundleLock'[HomeOf[x]] = x
    BY <1>2, <1>5, <1>9, <2>2 DEF VaultBond, LockIsHeld
  <2>4. \A p \in Processes : bundleLock'[p] # NoHandler => HomeOf[bundleLock'[p]] = p
    BY <1>5 DEF VaultBond, LockIsHeld
  <2> QED BY <2>3, <2>4 DEF LockIsHeld
<1>11. Secrets \ excused # {} => job.held = bundle /\ \A x \in Handlers \ {h} : ~Bundling(x)
  BY <1>1, <1>2 DEF VaultBond, BundleIsLatest
<1>12. BundleIsLatest'
  BY <1>1, <1>9, <1>11 DEF BundleIsLatest
<1>13. RowIsNewest'
  BY <1>1 DEF VaultBond, RowIsNewest
<1>14. ASSUME NEW k \in Secrets \ excused' PROVE KeyHolds(k)'
  <2>1. k \in Secrets \ excused /\ KeyHolds(k) /\ job.held = bundle
    BY <1>1, <1>11 DEF VaultBond
  <2>2. CASE Doing(h, "sweep")
    <3>1. k \in job.keys => newest[k] # 0 /\ job.loaded[k].value = newest[k] /\ (k \in job.good => bundle[k] = newest[k])
      BY <2>1, <2>2 DEF KeyHolds, SweptRight
    <3>2. k \in job.now => k \in job.keys
      BY <1>2, <2>2 DEF JobIsSound, Doing
    <3>3. /\ bundle'[k] = bundle[k] \/ (k \in job.keys /\ bundle'[k] = newest[k])
          /\ ok /\ k \in job.now => bundle'[k] = newest[k]
      BY <1>1, <1>6, <2>1, <2>2, <3>1, <3>2
    <3>4. CASE s = Idle
      BY <1>1, <1>4, <2>1, <2>2, <3>3, <3>4, GoodAreKeys, KeyStays, VaultValues DEF Doing
    <3>5. CASE s # Idle
      <4>1. k \in s.keys /\ (k \in s.good \/ (s.at = "verify" /\ k \in s.left)) => bundle'[k] = newest[k]
        <5>1. SUFFICES ASSUME k \in s.keys, k \in s.good \/ (s.at = "verify" /\ k \in s.left)
                       PROVE  bundle'[k] = newest[k]
          OBVIOUS
        <5>2. (ok /\ k \in job.now) \/ k \in job.good
          BY <1>3, <2>2, <3>5, <5>1 DEF Doing
        <5> QED BY <1>3, <2>2, <3>1, <3>3, <3>5, <5>1, <5>2 DEF Doing
      <4>2. /\ handler'[h].keys = handler[h].keys /\ handler'[h].doing = handler[h].doing
            /\ handler'[h].loaded = handler[h].loaded
        BY <1>3, <1>4, <2>2, <3>5 DEF Doing
      <4>3. ~Doing(h, "withdraw")'
        BY <2>2, <4>2 DEF Doing
      <4> QED BY <1>1, <1>4, <2>1, <2>2, <3>3, <4>1, <4>2, <4>3, GoodAreKeys, KeyStays DEF Doing, At
    <3> QED BY <3>4, <3>5
  <2>3. CASE ~Doing(h, "sweep")
    <3>1. /\ job.doing \in Clerical /\ s.at = "row" /\ s.doing = job.doing /\ s.keys = job.keys
          /\ s.loaded = job.loaded /\ s.good = (IF ok THEN job.keys ELSE {}) /\ job.now = job.keys
          /\ (job.doing = "withdraw" => job.value = 0)
      BY <1>2, <1>3, <2>3 DEF Doing, JobIsSound, Clerical
    <3>2. CASE k \notin job.keys
      <4>1. bundle'[k] = bundle[k]
        BY <1>1, <1>6, <2>1, <3>1, <3>2
      <4> QED BY <1>1, <1>4, <2>1, <3>1, <3>2, <4>1, GoodAreKeys, KeyStays DEF Doing, At
    <3>3. CASE k \in job.keys
      <4>1. \A x \in Handlers \ {h} : k \notin handler[x].keys
        BY <2>1, <2>3, <3>3 DEF KeyHolds, OneAboutIt, Doing
      <4>2. \A x \in Handlers \ {h} : k \notin handler'[x].keys /\ k \notin handler'[x].good
        BY <1>4, <4>1, GoodAreKeys
      <4>3. handler'[h].doing # "sweep" /\ k \in handler'[h].keys
        BY <1>4, <2>3, <3>1, <3>3 DEF Doing
      <4>4. OneAboutIt(k)' /\ SweptRight(k)' /\ WordIsKept(k)'
        BY <4>2, <4>3 DEF OneAboutIt, SweptRight, WordIsKept, AtRest, Doing
      <4>5. WithdrawalStands(k)'
        <5> SUFFICES ASSUME Doing(h, "withdraw")', k \in handler'[h].good PROVE bundle'[k] = 0
          BY <4>2 DEF WithdrawalStands
        <5>1. ok /\ job.doing = "withdraw" /\ job.value = 0
          BY <1>4, <3>1 DEF Doing
        <5> QED BY <1>1, <1>6, <2>1, <2>3, <3>1, <3>3, <5>1
      <4> QED BY <4>4, <4>5 DEF KeyHolds
    <3> QED BY <3>2, <3>3
  <2> QED BY <2>2, <2>3
<1> QED BY <1>7, <1>8, <1>10, <1>12, <1>13, <1>14 DEF VaultBond

(* The clerk's commit, or the row's deletion: the key's last change is over. *)
LEMMA WriteRowKeeps ==
  ASSUME VaultTypeOK, VaultBond, NEW h \in Handlers, WriteRow(h)
  PROVE  VaultTypeOK' /\ VaultBond'
<1> DEFINE job == handler[h]
<1>1. /\ At(h, "row") /\ handler' = [handler EXCEPT ![h] = Idle]
      /\ copy' = [k \in Secrets |-> IF k \in job.keys THEN RowOf(h, k) ELSE copy[k]]
      /\ newest' = [k \in Secrets |-> IF k \in job.keys THEN job.value ELSE newest[k]]
      /\ cleared' = IF Doing(h, "clear") THEN cleared \cup job.keys ELSE cleared \ job.keys
      /\ excused' = IF Doing(h, "withdraw") /\ job.good = {} THEN excused \cup job.keys ELSE excused
      /\ UNCHANGED <<bundle, cacheOf, bundleLock, counts>>
  BY DEF WriteRow
<1>2. job \in HandlerStates /\ job.doing \in Clerical /\ JobIsSound(h) /\ job.at = "row"
  BY <1>1, OneTurns, GoodAreKeys DEF VaultBond, At
<1>3. /\ handler' \in [Handlers -> HandlerStates] /\ handler'[h] = Idle
      /\ \A x \in Handlers \ {h} : handler'[x] = handler[x]
  BY <1>1, HandlerTurns, VaultValues
<1>4. /\ job.value \in Values /\ job.keys \subseteq Secrets
      /\ Doing(h, "save") => job.value # 0
      /\ ~Doing(h, "save") => job.value = 0
      /\ Doing(h, "withdraw") => job.good \in {{}, job.keys}
      /\ Doing(h, "save") \/ Doing(h, "clear") \/ Doing(h, "withdraw")
  BY <1>2 DEF HandlerStates, JobIsSound, Doing, Clerical
<1>5. \A k \in Secrets : RowOf(h, k) \in VaultRows /\ RowOf(h, k).value = job.value
  <2> SUFFICES ASSUME NEW k \in Secrets PROVE RowOf(h, k) \in VaultRows /\ RowOf(h, k).value = job.value
    OBVIOUS
  <2>1. copy[k] \in VaultRows
    BY DEF VaultTypeOK
  <2>2. CASE Doing(h, "save")
    <3>1. RowOf(h, k) = [born |-> IF copy[k].born = 0 THEN job.value ELSE copy[k].born, value |-> job.value]
      BY <2>2 DEF RowOf, Doing
    <3>2. copy[k].born \in Values
      BY <2>1 DEF VaultRows
    <3> QED BY <1>4, <3>1, <3>2 DEF VaultRows
  <2>3. CASE Doing(h, "clear")
    BY <1>4, <2>1, <2>3 DEF RowOf, VaultRows, Doing
  <2>4. CASE Doing(h, "withdraw")
    BY <1>4, <2>4, VaultValues DEF RowOf, VaultRows, Doing
  <2> QED BY <1>4, <2>2, <2>3, <2>4
<1>6. excused \subseteq excused' /\ excused' \subseteq Secrets /\ cleared' \subseteq Secrets
  BY <1>1, <1>4 DEF VaultTypeOK
<1>7. VaultTypeOK'
  <2>1. copy' \in [Secrets -> VaultRows] /\ newest' \in Bundles
    BY <1>1, <1>4, <1>5 DEF VaultTypeOK, Bundles
  <2> QED BY <1>1, <1>3, <1>6, <2>1 DEF VaultTypeOK
<1>8. ~Bundling(h) /\ ~Bundling(h)' /\ ~At(h, "write")' /\ JobIsSound(h)'
  BY <1>2, <1>3, VaultValues DEF Bundling, At, JobIsSound
<1>9. (\A x \in Handlers : JobIsSound(x)') /\ LockIsHeld' /\ BundleIsLatest'
  BY <1>1, <1>3, <1>6, <1>8, LocksStay
<1>10. RowIsNewest'
  BY <1>1, <1>5 DEF VaultBond, RowIsNewest
<1>11. ASSUME NEW k \in Secrets \ excused' PROVE KeyHolds(k)'
  <2>1. k \in Secrets \ excused /\ KeyHolds(k)
    BY <1>6 DEF VaultBond
  <2>2. CASE k \notin job.keys
    <3>1. newest'[k] = newest[k] /\ copy'[k] = copy[k] /\ (k \in cleared' <=> k \in cleared)
      BY <1>1, <2>2
    <3> QED BY <1>1, <1>3, <2>1, <2>2, <3>1, GoodAreKeys, KeyStays, VaultValues DEF Doing
  <2>3. CASE k \in job.keys
    <3>1. \A x \in Handlers : k \notin handler'[x].keys /\ k \notin handler'[x].good
      <4>1. \A x \in Handlers \ {h} : k \notin handler[x].keys
        BY <1>2, <2>1, <2>3 DEF KeyHolds, OneAboutIt, Doing, Clerical
      <4> QED BY <1>3, <4>1, GoodAreKeys, VaultValues
    <3>2. newest'[k] = job.value /\ copy'[k].value = job.value
      BY <1>1, <1>5, <2>3
    <3>3. WordIsKept(k)'
      <4> SUFFICES ASSUME newest'[k] = 0, k \notin cleared' PROVE bundle'[k] = 0
        BY <3>2 DEF WordIsKept
      <4>1. Doing(h, "withdraw")
        BY <1>1, <1>4, <2>3, <3>2
      <4>2. k \in job.good
        BY <1>1, <1>4, <2>3, <4>1
      <4> QED BY <1>1, <2>1, <4>1, <4>2 DEF KeyHolds, WithdrawalStands
    <3> QED BY <3>1, <3>3 DEF KeyHolds, OneAboutIt, SweptRight, WithdrawalStands
  <2> QED BY <2>2, <2>3
<1> QED BY <1>7, <1>9, <1>10, <1>11 DEF VaultBond

(* A sweep's own steps after its writes: it loads no more and takes no lock. *)
LEMMA SweepGoesOn ==
  ASSUME VaultTypeOK, VaultBond, NEW h \in Handlers, At(h, "verify") \/ At(h, "scrub"),
         NEW s \in HandlerStates, handler' = [handler EXCEPT ![h] = s],
         \/ s = Idle
         \/ /\ s.at \in {"verify", "scrub"} /\ s.doing = handler[h].doing /\ s.keys = handler[h].keys
            /\ s.value = handler[h].value /\ s.loaded = handler[h].loaded /\ s.now \subseteq handler[h].now
            /\ s.good \cup s.left \subseteq handler[h].good \cup (IF At(h, "verify") THEN handler[h].left ELSE {}),
         UNCHANGED <<bundle, bundleLock, newest, cleared, excused>>,
         cacheOf' \in [Processes -> Bundles \cup {NoBundle}],
         counts' \in [changes : Values, faults : 0..MaxVaultFaults],
         copy' \in [Secrets -> VaultRows],
         \A k \in Secrets : \/ copy'[k].value = copy[k].value
                            \/ k \in handler[h].good /\ At(h, "scrub") /\ copy'[k].value = 0
  PROVE  VaultTypeOK' /\ VaultBond'
<1>1. /\ handler' \in [Handlers -> HandlerStates] /\ handler'[h] = s
      /\ \A x \in Handlers \ {h} : handler'[x] = handler[x]
  BY HandlerTurns
<1>2. VaultTypeOK'
  BY <1>1 DEF VaultTypeOK
<1>3. Doing(h, "sweep") /\ JobIsSound(h) /\ ~Bundling(h)
  BY GoodAreKeys DEF VaultBond, At, Bundling
<1>4. ~Bundling(h)' /\ ~At(h, "write")' /\ JobIsSound(h)'
  <2>1. CASE s = Idle
    BY <1>1, <2>1, VaultValues DEF JobIsSound, Bundling, At
  <2>2. CASE s # Idle
    BY <1>1, <1>3, <2>2 DEF JobIsSound, Bundling, At, Doing
  <2> QED BY <2>1, <2>2
<1>5. (\A x \in Handlers : JobIsSound(x)') /\ LockIsHeld' /\ BundleIsLatest'
  BY <1>1, <1>3, <1>4, LocksStay
<1>6. RowIsNewest'
  BY DEF VaultBond, RowIsNewest
<1>7. ASSUME NEW k \in Secrets \ excused' PROVE KeyHolds(k)'
  <2>1. k \in Secrets \ excused /\ KeyHolds(k)
    BY DEF VaultBond
  <2>2. k \in handler[h].good \cup (IF At(h, "verify") THEN handler[h].left ELSE {}) => bundle[k] = newest[k]
    <3>1. handler[h].good \cup handler[h].left \subseteq handler[h].keys
      BY <1>3 DEF JobIsSound, Doing
    <3> QED BY <1>3, <2>1, <3>1 DEF KeyHolds, SweptRight
  <2>3. copy'[k].value = copy[k].value \/ bundle'[k] = newest[k]
    BY <2>2
  <2>4. CASE s = Idle
    BY <1>1, <1>3, <2>1, <2>3, <2>4, GoodAreKeys, KeyStays, VaultValues DEF Doing
  <2>5. CASE s # Idle
    <3>1. /\ s.doing = "sweep" /\ s.keys = handler[h].keys /\ s.loaded = handler[h].loaded
          /\ k \in s.good \cup s.left => bundle'[k] = newest[k]
      BY <1>3, <2>2, <2>5 DEF Doing
    <3> QED BY <1>1, <1>3, <2>1, <2>3, <3>1, GoodAreKeys, KeyStays DEF Doing, At
  <2> QED BY <2>4, <2>5
<1> QED BY <1>2, <1>5, <1>6, <1>7 DEF VaultBond

LEMMA VerifyKeeps ==
  ASSUME VaultTypeOK, VaultBond, NEW h \in Handlers, NEW k \in Secrets, Verify(h, k) \/ VerifyUnread(h, k)
  PROVE  VaultTypeOK' /\ VaultBond'
<1> DEFINE job == handler[h]
<1>1. PICK b \in Bundles \cup {NoBundle} : Verified(h, k, b) /\ (Cached(h, b) \/ UNCHANGED cacheOf)
  BY OneTurns DEF Verify, VerifyUnread, VaultTypeOK
<1> DEFINE good == IF ReadsBack(k, b) THEN job.good \cup {k} ELSE job.good
<1> DEFINE rest == job.left \ {k}
<1> DEFINE s == IF rest # {} THEN [job EXCEPT !.left = rest, !.good = good]
                ELSE IF good # {} THEN [job EXCEPT !.at = "scrub", !.left = {}, !.good = good]
                ELSE Idle
<1>2. /\ At(h, "verify") /\ k \in job.left /\ handler' = [handler EXCEPT ![h] = s]
      /\ UNCHANGED <<bundle, copy, bundleLock, newest, cleared, excused>>
  BY <1>1 DEF Verified
<1>3. job \in HandlerStates /\ job.at = "verify"
  BY <1>2, OneTurns DEF At
<1>4. good \cup rest \subseteq job.good \cup job.left /\ good \in SUBSET Secrets /\ rest \in SUBSET Secrets
  BY <1>2, <1>3 DEF HandlerStates
<1>5. /\ s \in HandlerStates
      /\ s = Idle \/ /\ s.at \in {"verify", "scrub"} /\ s.doing = job.doing /\ s.keys = job.keys
                     /\ s.value = job.value /\ s.loaded = job.loaded /\ s.now = job.now
                     /\ s.good = good /\ s.left = rest
  <2> HIDE DEF good
  <2>1. CASE rest # {}
    <3>1. s = [job EXCEPT !.left = rest, !.good = good]
      BY <2>1
    <3> QED BY <1>3, <1>4, <3>1 DEF HandlerStates
  <2>2. CASE rest = {} /\ good # {}
    <3>1. s = [job EXCEPT !.at = "scrub", !.left = {}, !.good = good]
      BY <2>2
    <3> QED BY <1>3, <1>4, <2>2, <3>1 DEF HandlerStates
  <2>3. CASE rest = {} /\ good = {}
    BY <2>3, VaultValues
  <2> QED BY <2>1, <2>2, <2>3
<1> HIDE DEF s, good, rest
<1>6. cacheOf' \in [Processes -> Bundles \cup {NoBundle}]
  BY <1>1, OneTurns DEF Cached, VaultTypeOK
<1>7. counts' \in [changes : Values, faults : 0..MaxVaultFaults]
  <2>1. counts' = counts \/ Faulty
    BY DEF Verify, VerifyUnread
  <2> QED BY <2>1, VaultBoundsAreNat DEF Faulty, VaultTypeOK
<1>8. copy' \in [Secrets -> VaultRows] /\ \A j \in Secrets : copy'[j].value = copy[j].value
  BY <1>2 DEF VaultTypeOK
<1>9. s.good \cup s.left \subseteq job.good \cup job.left \/ s = Idle
  BY <1>4, <1>5
<1> QED BY <1>2, <1>5, <1>6, <1>7, <1>8, <1>9, SweepGoesOn

LEMMA ScrubKeeps ==
  ASSUME VaultTypeOK, VaultBond, NEW h \in Handlers, Scrub(h)
  PROVE  VaultTypeOK' /\ VaultBond'
<1>1. /\ At(h, "scrub") /\ handler' = [handler EXCEPT ![h] = Idle]
      /\ \/ copy' = copy
         \/ copy' = [k \in Secrets |-> IF k \in handler[h].good THEN [copy[k] EXCEPT !.value = 0] ELSE copy[k]]
      /\ UNCHANGED <<bundle, cacheOf, bundleLock, newest, cleared, excused, counts>>
  BY DEF Scrub
<1>2. /\ copy' \in [Secrets -> VaultRows]
      /\ \A k \in Secrets : copy'[k].value = copy[k].value \/ (k \in handler[h].good /\ copy'[k].value = 0)
  BY <1>1, VaultValues DEF VaultTypeOK, VaultRows
<1> QED BY <1>1, <1>2, VaultValues, SweepGoesOn DEF VaultTypeOK

(* A process dies: what its handlers were doing to their keys is excused.    *)
LEMMA DieKeeps ==
  ASSUME VaultTypeOK, VaultBond, NEW p \in Processes, Die(p)
  PROVE  VaultTypeOK' /\ VaultBond'
<1> DEFINE here == {h \in Handlers : HomeOf[h] = p}
<1>1. /\ Faulty /\ cacheOf' = [cacheOf EXCEPT ![p] = NoBundle]
      /\ bundleLock' = [bundleLock EXCEPT ![p] = NoHandler]
      /\ handler' = [h \in Handlers |-> IF h \in here THEN Idle ELSE handler[h]]
      /\ excused' = excused \cup UNION {handler[h].keys : h \in {g \in here : ~Doing(g, "sweep")}}
      /\ UNCHANGED <<bundle, copy, newest, cleared>>
  BY DEF Die
<1>2. /\ handler' \in [Handlers -> HandlerStates] /\ \A h \in here : handler'[h] = Idle
      /\ \A h \in Handlers \ here : handler'[h] = handler[h]
  BY <1>1, VaultValues DEF VaultTypeOK
<1>3. excused \subseteq excused' /\ excused' \subseteq Secrets
  BY <1>1, OneTurns DEF VaultTypeOK, HandlerStates
<1>4. bundleLock' \in [Processes -> Handlers \cup {NoHandler}] /\ bundleLock'[p] = NoHandler
      /\ \A q \in Processes \ {p} : bundleLock'[q] = bundleLock[q]
  BY <1>1 DEF VaultTypeOK
<1>5. VaultTypeOK'
  BY <1>1, <1>2, <1>3, <1>4, VaultBoundsAreNat DEF VaultTypeOK, Faulty
<1>6. \A h \in Handlers : JobIsSound(h)'
  BY <1>2, VaultValues DEF VaultBond, JobIsSound, Bundling, At
<1>7. /\ \A h \in here : ~Bundling(h)' /\ ~At(h, "write")'
      /\ \A h \in Handlers \ here : Bundling(h)' <=> Bundling(h)
  BY <1>2, VaultValues DEF Bundling, At
<1>8. LockIsHeld'
  <2>1. \A h \in here : bundleLock'[HomeOf[h]] = NoHandler
    BY <1>4
  <2>2. \A h \in Handlers \ here : bundleLock'[HomeOf[h]] = bundleLock[HomeOf[h]]
    BY <1>4, OneTurns
  <2>3. \A h \in Handlers : Bundling(h)' <=> bundleLock'[HomeOf[h]] = h
    BY <1>7, <2>1, <2>2, OneTurns DEF VaultBond, LockIsHeld
  <2>4. \A q \in Processes : bundleLock'[q] # NoHandler => HomeOf[bundleLock'[q]] = q
    BY <1>4 DEF VaultBond, LockIsHeld
  <2> QED BY <2>3, <2>4 DEF LockIsHeld
<1>9. BundleIsLatest'
  <2>1. \A g, h \in Handlers : Bundling(g)' /\ Bundling(h)' => Bundling(g) /\ Bundling(h)
    BY <1>7
  <2>2. \A h \in Handlers : At(h, "write")' => At(h, "write") /\ handler'[h] = handler[h]
    BY <1>2, <1>7 DEF At
  <2> QED BY <1>1, <1>3, <2>1, <2>2 DEF VaultBond, BundleIsLatest
<1>10. RowIsNewest'
  BY <1>1 DEF VaultBond, RowIsNewest
<1>11. ASSUME NEW k \in Secrets \ excused' PROVE KeyHolds(k)'
  <2>1. KeyHolds(k)
    BY <1>3 DEF VaultBond
  <2>2. \A h \in here : k \in handler[h].keys => Doing(h, "sweep")
    BY <1>1
  <2>3. \A h \in here : handler'[h].keys = {} /\ handler'[h].good = {} /\ handler'[h].doing = "none"
    BY <1>2, VaultValues
  <2>4. OneAboutIt(k)' /\ SweptRight(k)' /\ WithdrawalStands(k)'
    BY <1>1, <1>2, <2>1, <2>3 DEF KeyHolds, OneAboutIt, SweptRight, WithdrawalStands, Doing, At
  <2>5. AtRest(k)' => AtRest(k)
    BY <1>2, <2>2 DEF AtRest, Doing
  <2>6. WordIsKept(k)'
    BY <1>1, <2>1, <2>5 DEF KeyHolds, WordIsKept
  <2> QED BY <2>4, <2>6 DEF KeyHolds
<1> QED BY <1>5, <1>6, <1>8, <1>9, <1>10, <1>11 DEF VaultBond

LEMMA VaultStarts ==
  ASSUME VaultInit
  PROVE  VaultTypeOK /\ VaultBond
<1>1. /\ bundle = Empty /\ copy = NoRows
      /\ cacheOf = [p \in Processes |-> NoBundle]
      /\ bundleLock = [p \in Processes |-> NoHandler]
      /\ handler = [h \in Handlers |-> Idle] /\ newest = Empty
      /\ cleared = {} /\ excused = {} /\ counts = [changes |-> 0, faults |-> 0]
  BY DEF VaultInit
<1>2. VaultTypeOK
  BY <1>1, VaultValues, VaultBoundsAreNat DEF VaultTypeOK
<1>3. \A h \in Handlers : handler[h] = Idle
  BY <1>1
<1>4. \A h \in Handlers : JobIsSound(h) /\ ~Bundling(h) /\ ~At(h, "write")
  BY <1>3, VaultValues DEF JobIsSound, Bundling, At
<1>5. LockIsHeld /\ BundleIsLatest
  BY <1>1, <1>4, OneTurns, <1>2 DEF LockIsHeld, BundleIsLatest
<1>6. RowIsNewest
  BY <1>1 DEF RowIsNewest, NoRows, Empty
<1>7. \A k \in Secrets : KeyHolds(k)
  <2>1. \A h \in Handlers : handler[h].keys = {} /\ handler[h].good = {}
    BY <1>3, VaultValues
  <2> QED BY <1>1, <2>1 DEF KeyHolds, OneAboutIt, SweptRight, WithdrawalStands, WordIsKept, Empty
<1> QED BY <1>2, <1>4, <1>5, <1>6, <1>7 DEF VaultBond

(* Every step of the vault keeps what is promised of its keys.               *)
LEMMA VaultStep ==
  ASSUME VaultTypeOK, VaultBond, [VaultNext]_vaultVars
  PROVE  VaultTypeOK' /\ VaultBond'
<1>1. ASSUME UNCHANGED <<bundle, copy, bundleLock, handler, newest, cleared, excused, counts>>,
             cacheOf' \in [Processes -> Bundles \cup {NoBundle}]
      PROVE  VaultTypeOK' /\ VaultBond'
  <2>1. VaultTypeOK'
    BY <1>1 DEF VaultTypeOK
  <2>2. (\A h \in Handlers : JobIsSound(h)') /\ LockIsHeld' /\ BundleIsLatest' /\ RowIsNewest'
    BY <1>1 DEF VaultBond, JobIsSound, LockIsHeld, BundleIsLatest, RowIsNewest, Bundling, At
  <2>3. \A k \in Secrets \ excused' : KeyHolds(k)'
    BY <1>1 DEF VaultBond, KeyHolds, OneAboutIt, SweptRight, WithdrawalStands, WordIsKept, AtRest, Doing, At
  <2> QED BY <2>1, <2>2, <2>3 DEF VaultBond
<1>2. ASSUME NEW h \in Handlers, Working(h) PROVE VaultTypeOK' /\ VaultBond'
  BY <1>2, TakeLockKeeps, ReadKeeps, WriteKeeps, WriteRowKeeps, VerifyKeeps, ScrubKeeps DEF Working
<1>3. ASSUME NEW p \in Processes, Lookup(p) \/ CacheEnds(p) PROVE VaultTypeOK' /\ VaultBond'
  <2>1. cacheOf' \in [Processes -> Bundles \cup {NoBundle}]
    BY <1>3 DEF Lookup, CacheEnds, VaultTypeOK
  <2> QED BY <1>1, <1>3, <2>1 DEF Lookup, CacheEnds
<1>4. ASSUME UNCHANGED vaultVars PROVE VaultTypeOK' /\ VaultBond'
  BY <1>1, <1>4 DEF vaultVars, VaultTypeOK
<1> QED BY <1>2, <1>3, <1>4, ClerkBegins, SweepBegins, DieKeeps DEF VaultNext

LEMMA VaultBound == VaultSpec => [](VaultTypeOK /\ VaultBond)
BY VaultStarts, VaultStep, PTL DEF VaultSpec

(* The bundle, the rows, the caches and the handlers stay in their types.    *)
THEOREM VaultTyped == VaultSpec => []VaultTypeOK
BY VaultBound, PTL

(* The last change of a key is the one that holds, in the bundle or in the   *)
(* row, and nothing brings a withdrawn key back: for every number of keys,   *)
(* processes, clerks and sweeps, except where a bundle was read in vain, two *)
(* processes wrote bundles at once, or handlers about one key overlapped     *)
(* (set_secret_sync, delete_secret_sync, migrate_to_secret_manager).         *)
THEOREM LastChangeKept == VaultSpec => []LastChangeHolds
<1>1. VaultTypeOK /\ VaultBond => LastChangeHolds
  BY DEF VaultBond, KeyHolds, WordIsKept, RowIsNewest, LastChangeHolds, NewestIsKept, WithdrawnIsGone, VaultTypeOK
<1> QED BY <1>1, VaultBound, PTL
=============================================================================
