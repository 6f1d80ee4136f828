------------------------------ MODULE TownProofs ------------------------------
(***************************************************************************)
(* Theorems about the modules of the town's own records, for every value of *)
(* their constants: the retention run, the audit chain, the spend of the     *)
(* translations, photos, the pool of demos; and that what is proved of each  *)
(* module holds where TLC runs all of them.                                  *)
(***************************************************************************)
EXTENDS MCTown, SchemaMigrationProofs, SignInProofs, CredentialsProofs, FiniteSetTheorems,
        WellFoundedInduction, TLAPS

(* A set of numbers has a least one.                                         *)
LEMMA LeastOf ==
  ASSUME NEW S \in SUBSET Nat, S # {} PROVE \E x \in S : \A y \in S : x <= y
<1> DEFINE R == OpToRel(<, Nat)
<1>1. IsWellFoundedOn(R, Nat)
  BY NatLessThanWellFounded
<1>2. \A x, y \in Nat : y < x => <<y, x>> \in R
  BY DEF OpToRel
<1> HIDE DEF R
<1>3. PICK x \in S : \A y \in S : <<y, x>> \notin R
  BY <1>1, WFMin
<1>4. ASSUME NEW y \in S PROVE x <= y
  <2>1. x \in Nat /\ y \in Nat
    OBVIOUS
  <2>2. ~(y < x)
    BY <1>2, <1>3, <2>1
  <2> QED BY <2>1, <2>2
<1> QED BY <1>3, <1>4

-----------------------------------------------------------------------------
(* Retention.                                                                *)

(* What a run deletes it has in hand, and it takes in hand only what its     *)
(* query found without a hold: so a record that is safe is in no run's hands.*)
SafeIsUntouched ==
  /\ \A r \in safe : /\ r \in Records /\ ~InHand(r)
                     /\ dossier[r].hold /\ dossier[r].words /\ dossier[r].photos
  /\ \A w \in Runs : RunAt(w, "none") => run[w].now = {}
  /\ frozen => townHold /\ \A w \in Runs : RunAt(w, "none")

(* Every action keeps the types of the records and of the runs.              *)
THEOREM RetentionTyped == RetentionSpec => []RetentionTypeOK
<1> USE BatchIsPositive, RetentionBoundsAreNat
<1>0. NoRun \in RunStates
  BY DEF NoRun, RunStates
<1>1. RetentionInit => RetentionTypeOK
  <2> SUFFICES ASSUME RetentionInit PROVE RetentionTypeOK
    OBVIOUS
  <2>1. [status : {"open", "expired"}, hold : {FALSE}, words : {TRUE}, photos : {TRUE},
         archived : {FALSE}] \subseteq Dossiers
    BY DEF Dossiers
  <2>2. dossier \in [Records -> Dossiers]
    BY <2>1 DEF RetentionInit
  <2>3. /\ run \in [Runs -> RunStates] /\ safe = {}
        /\ used \in [runs : 0..MaxRuns, holds : 0..MaxHolds, faults : 0..MaxRunFaults]
    BY <1>0 DEF RetentionInit
  <2>4. townHold \in BOOLEAN /\ frozen \in BOOLEAN
    BY Zenon DEF RetentionInit
  <2> QED BY <2>2, <2>3, <2>4 DEF RetentionTypeOK
<1>2. RetentionTypeOK /\ [RetentionNext]_retentionVars => RetentionTypeOK'
  <2> SUFFICES ASSUME RetentionTypeOK, [RetentionNext]_retentionVars PROVE RetentionTypeOK'
    OBVIOUS
  <2> USE DEF RetentionTypeOK
  <2>x. \A w \in Runs : run[w] \in RunStates
    OBVIOUS
  <2>y. \A r \in Records : dossier[r] \in Dossiers
    OBVIOUS
  <2>1. ASSUME NEW w \in Runs, StartRun(w) PROVE RetentionTypeOK'
    <3>1. [NoRun EXCEPT !.at = "query"] \in RunStates
      BY <1>0 DEF RunStates
    <3> QED BY <2>1, <3>1 DEF StartRun
  <2>2. ASSUME NEW w \in Runs, QueryBatch(w) PROVE RetentionTypeOK'
    <3>1. \A some \in SUBSET Records : [NoRun EXCEPT !.at = "batch", !.left = some] \in RunStates
      BY <1>0 DEF RunStates
    <3>2. run' \in [Runs -> RunStates]
      <4>1. CASE run' = [run EXCEPT ![w] = NoRun]
        BY <1>0, <4>1
      <4>2. ASSUME NEW batch \in SUBSET Records,
                   run' = [run EXCEPT ![w] = [NoRun EXCEPT !.at = "batch", !.left = batch]]
            PROVE  run' \in [Runs -> RunStates]
        BY <3>1, <4>2
      <4> QED BY <2>2, <4>1, <4>2, Zenon DEF QueryBatch
    <3> QED BY <2>2, <3>2 DEF QueryBatch
  <2>3. ASSUME NEW w \in Runs, NEW r \in Records, TakeRecord(w, r) PROVE RetentionTypeOK'
    <3>1. dossier[r].hold \in BOOLEAN
      BY <2>y DEF Dossiers
    <3>2. \A b \in BOOLEAN :
            [run[w] EXCEPT !.at = "photos", !.left = @ \ {r}, !.now = {r}, !.heldNow = b] \in RunStates
      BY <2>x DEF RunStates
    <3>3. PICK b \in BOOLEAN :
            run' = [run EXCEPT ![w] = [run[w] EXCEPT !.at = "photos", !.left = @ \ {r}, !.now = {r},
                                                !.heldNow = b]]
      BY <2>3, <3>1, Zenon DEF TakeRecord
    <3>4. run' \in [Runs -> RunStates]
      <4> DEFINE new == [run[w] EXCEPT !.at = "photos", !.left = @ \ {r}, !.now = {r}, !.heldNow = b]
      <4>1. new \in RunStates
        BY <3>2, Zenon
      <4>2. run' = [run EXCEPT ![w] = new]
        BY <3>3, Zenon
      <4> HIDE DEF new
      <4> QED BY <4>1, <4>2
    <3> QED BY <2>3, <3>4 DEF TakeRecord
  <2>4. ASSUME NEW w \in Runs, DeletePhotos(w) PROVE RetentionTypeOK'
    <3>1. [run[w] EXCEPT !.at = "commit"] \in RunStates
      BY <2>x DEF RunStates
    <3>2. \A r \in Records : [dossier[r] EXCEPT !.photos = FALSE] \in Dossiers
      BY <2>y DEF Dossiers
    <3> QED BY <2>4, <2>y, <3>1, <3>2 DEF DeletePhotos
  <2>5. ASSUME NEW w \in Runs, CommitArchival(w) PROVE RetentionTypeOK'
    <3>1. [run[w] EXCEPT !.at = "batch", !.now = {}, !.acted = TRUE, !.heldNow = FALSE] \in RunStates
      BY <2>x DEF RunStates
    <3>2. \A r \in Records : [dossier[r] EXCEPT !.words = FALSE, !.archived = TRUE] \in Dossiers
      BY <2>y DEF Dossiers
    <3> QED BY <2>5, <2>y, <3>1, <3>2 DEF CommitArchival
  <2>6. ASSUME NEW w \in Runs, RecordFails(w) PROVE RetentionTypeOK'
    <3>1. [run[w] EXCEPT !.at = "batch", !.now = {}, !.broken = TRUE, !.heldNow = FALSE] \in RunStates
      BY <2>x DEF RunStates
    <3> QED BY <2>6, <3>1 DEF RecordFails
  <2>7. ASSUME NEW w \in Runs, EndBatch(w) PROVE RetentionTypeOK'
    <3>1. [NoRun EXCEPT !.at = "query"] \in RunStates
      BY <1>0 DEF RunStates
    <3> QED BY <1>0, <2>7, <3>1 DEF EndBatch
  <2>8. ASSUME NEW w \in Runs, KillRun(w) PROVE RetentionTypeOK'
    BY <1>0, <2>8 DEF KillRun
  <2>9. ASSUME NEW r \in Records, PlaceHold(r) \/ LiftHold(r) \/ MoveReport(r) PROVE RetentionTypeOK'
    <3>1. /\ [dossier[r] EXCEPT !.hold = TRUE] \in Dossiers
          /\ [dossier[r] EXCEPT !.hold = FALSE] \in Dossiers
          /\ [dossier[r] EXCEPT !.status = IF @ = "open" THEN "expired" ELSE "open"] \in Dossiers
      BY <2>y DEF Dossiers
    <3>2. dossier' \in [Records -> Dossiers]
      BY <2>9, <3>1 DEF PlaceHold, LiftHold, MoveReport
    <3> QED BY <2>9, <3>2 DEF PlaceHold, LiftHold, MoveReport, ByStaff
  <2>10. CASE SetTownHold
    <3>1. townHold' \in BOOLEAN /\ frozen' \in BOOLEAN
      BY <2>10, Zenon DEF SetTownHold
    <3> QED BY <2>10, <3>1 DEF SetTownHold, ByStaff
  <2>11. CASE UNCHANGED retentionVars
    BY <2>11 DEF retentionVars
  <2> QED BY <2>1, <2>2, <2>3, <2>4, <2>5, <2>6, <2>7, <2>8, <2>9, <2>10, <2>11
             DEF RetentionNext, RunStep
<1> QED BY <1>1, <1>2, PTL DEF RetentionSpec

(* A step of a run that takes nothing new in hand, and leaves what it keeps  *)
(* of the safe records as it is.                                             *)
LEMMA NothingNewInHand ==
  ASSUME SafeIsUntouched,
         \E w \in Runs : ~RunAt(w, "none") \/ ~townHold,
         \A w \in Runs : /\ run'[w].left \cup run'[w].now \subseteq run[w].left \cup run[w].now
                         /\ run'[w].at = "none" => run'[w].now = {},
         \A r \in safe : dossier'[r] = dossier[r],
         safe' = safe, frozen' => frozen
  PROVE  SafeIsUntouched'
<1>1. ~frozen
  BY DEF SafeIsUntouched
<1>2. \A r \in safe : ~InHand(r)'
  BY DEF SafeIsUntouched, InHand
<1>3. \A r \in safe : dossier'[r].hold /\ dossier'[r].words /\ dossier'[r].photos
  BY DEF SafeIsUntouched
<1> QED BY <1>1, <1>2, <1>3 DEF SafeIsUntouched, RunAt

(* A record put under a hold before a run loaded it keeps its words and its  *)
(* photos until the hold is lifted, and a hold of the whole town placed      *)
(* between runs stops the next, whatever fails, is killed or overlaps.       *)
THEOREM HoldsKeep == RetentionSpec => []HoldKeepsTheRecord
<1>1. RetentionInit => SafeIsUntouched
  <2> SUFFICES ASSUME RetentionInit PROVE SafeIsUntouched
    OBVIOUS
  <2>1. safe = {} /\ run = [w \in Runs |-> NoRun]
    BY DEF RetentionInit
  <2>2. ~frozen
    BY Zenon DEF RetentionInit
  <2> QED BY <2>1, <2>2 DEF SafeIsUntouched, NoRun
<1>2. RetentionTypeOK /\ SafeIsUntouched /\ [RetentionNext]_retentionVars => SafeIsUntouched'
  <2> SUFFICES ASSUME RetentionTypeOK, SafeIsUntouched, [RetentionNext]_retentionVars
               PROVE SafeIsUntouched'
    OBVIOUS
  <2>x. \A w \in Runs : run[w] \in RunStates
    BY DEF RetentionTypeOK
  <2>y. \A r \in safe : dossier[r].hold /\ dossier[r].words /\ dossier[r].photos
    BY DEF SafeIsUntouched
  <2>1. ASSUME NEW w \in Runs, StartRun(w) PROVE SafeIsUntouched'
    <3>1. \A x \in Runs : /\ run'[x].left \cup run'[x].now \subseteq run[x].left \cup run[x].now
                          /\ run'[x].at = "none" => run'[x].now = {}
      BY <2>1 DEF StartRun, NoRun, RetentionTypeOK, SafeIsUntouched, RunAt
    <3> QED BY <2>1, <3>1, NothingNewInHand DEF StartRun
  <2>2. ASSUME NEW w \in Runs, QueryBatch(w) PROVE SafeIsUntouched'
    <3>1. ~frozen
      BY <2>2 DEF QueryBatch, SafeIsUntouched, RunAt
    <3>2. \A r \in Records : Eligible(r) => r \notin safe
      BY DEF Eligible, SafeIsUntouched
    <3>3. run'[w].now = {} /\ \A r \in run'[w].left : r \in Records /\ Eligible(r)
      <4>1. CASE run' = [run EXCEPT ![w] = NoRun]
        BY <4>1 DEF NoRun, RetentionTypeOK
      <4>2. ASSUME NEW batch \in SUBSET {r \in Records : Eligible(r)},
                   run' = [run EXCEPT ![w] = [NoRun EXCEPT !.at = "batch", !.left = batch]]
            PROVE  run'[w].now = {} /\ run'[w].left = batch
        BY <4>2 DEF NoRun, RetentionTypeOK
      <4>3. \/ run' = [run EXCEPT ![w] = NoRun]
            \/ \E batch \in SUBSET {r \in Records : Eligible(r)} :
                 run' = [run EXCEPT ![w] = [NoRun EXCEPT !.at = "batch", !.left = batch]]
        BY <2>2, Zenon DEF QueryBatch
      <4>4. NoRun.left = {}
        BY DEF NoRun
      <4>5. CASE \E batch \in SUBSET {r \in Records : Eligible(r)} :
                 run' = [run EXCEPT ![w] = [NoRun EXCEPT !.at = "batch", !.left = batch]]
        BY <4>2, <4>5
      <4>6. CASE run' = [run EXCEPT ![w] = NoRun]
        BY <4>1, <4>4, <4>6 DEF RetentionTypeOK
      <4> QED BY <4>3, <4>5, <4>6
    <3>4. \A x \in Runs : x # w => run'[x] = run[x]
      BY <2>2, Zenon DEF QueryBatch, RetentionTypeOK
    <3>5. \A r \in safe : ~InHand(r)'
      BY <3>2, <3>3, <3>4 DEF InHand, SafeIsUntouched
    <3>6. /\ \A r \in safe : dossier'[r] = dossier[r]
          /\ safe' = safe /\ (frozen' => frozen)
      BY <2>2, Zenon DEF QueryBatch
    <3> QED BY <2>y, <3>1, <3>3, <3>4, <3>5, <3>6 DEF SafeIsUntouched, RunAt
  <2>3. ASSUME NEW w \in Runs, NEW r \in Records, TakeRecord(w, r) PROVE SafeIsUntouched'
    <3>1. \A x \in Runs : /\ run'[x].left \cup run'[x].now \subseteq run[x].left \cup run[x].now
                          /\ run'[x].at = "none" => run'[x].now = {}
      <4>1. run'[w].at = "photos" /\ run'[w].left = run[w].left \ {r} /\ run'[w].now = {r}
        <5>1. PICK b : run' = [run EXCEPT ![w] = [run[w] EXCEPT !.at = "photos", !.left = @ \ {r}, !.now = {r},
                                                           !.heldNow = b]]
          BY <2>3, Zenon DEF TakeRecord
        <5> DEFINE new == [run[w] EXCEPT !.at = "photos", !.left = @ \ {r}, !.now = {r}, !.heldNow = b]
        <5>2. new.at = "photos" /\ new.left = run[w].left \ {r} /\ new.now = {r}
          BY <2>x DEF RunStates
        <5>3. run' = [run EXCEPT ![w] = new]
          BY <5>1, Zenon
        <5> HIDE DEF new
        <5> QED BY <5>2, <5>3 DEF RetentionTypeOK
      <4>2. \A x \in Runs : x # w => run'[x] = run[x]
        BY <2>3, Zenon DEF TakeRecord, RetentionTypeOK
      <4> QED BY <2>3, <4>1, <4>2 DEF TakeRecord, SafeIsUntouched, RunAt
    <3> QED BY <2>3, <3>1, NothingNewInHand DEF TakeRecord, RunAt
  <2>4. ASSUME NEW w \in Runs, DeletePhotos(w) \/ CommitArchival(w) PROVE SafeIsUntouched'
    <3>1. \A r \in safe : r \in Records /\ r \notin run[w].now
      BY DEF SafeIsUntouched, InHand
    <3>2. \A r \in safe : dossier'[r] = dossier[r]
      BY <2>4, <3>1 DEF DeletePhotos, CommitArchival
    <3>3. \A x \in Runs : /\ run'[x].left \cup run'[x].now \subseteq run[x].left \cup run[x].now
                          /\ run'[x].at = "none" => run'[x].now = {}
      <4>1. CASE DeletePhotos(w)
        BY <2>x, <4>1 DEF DeletePhotos, RetentionTypeOK, RunStates, SafeIsUntouched, RunAt
      <4>2. CASE CommitArchival(w)
        <5>1. run' = [run EXCEPT ![w] = [@ EXCEPT !.at = "batch", !.now = {}, !.acted = TRUE,
                                                  !.heldNow = FALSE]]
          BY <4>2 DEF CommitArchival
        <5> QED BY <2>x, <5>1 DEF RetentionTypeOK, RunStates, SafeIsUntouched, RunAt
      <4> QED BY <2>4, <4>1, <4>2
    <3>4. ~RunAt(w, "none")
      BY <2>4 DEF DeletePhotos, CommitArchival, RunAt
    <3>5. safe' = safe /\ (frozen' => frozen)
      <4>1. CASE DeletePhotos(w)
        BY <4>1, Zenon DEF DeletePhotos
      <4>2. CASE CommitArchival(w)
        BY <4>2, Zenon DEF CommitArchival
      <4> QED BY <2>4, <4>1, <4>2
    <3> QED BY <3>2, <3>3, <3>4, <3>5, NothingNewInHand
  <2>5. ASSUME NEW w \in Runs, RecordFails(w) PROVE SafeIsUntouched'
    <3>1. ~RunAt(w, "none")
      BY <2>5 DEF RecordFails, SafeIsUntouched
    <3>2. \A x \in Runs : /\ run'[x].left \cup run'[x].now \subseteq run[x].left \cup run[x].now
                          /\ run'[x].at = "none" => run'[x].now = {}
      BY <2>5, <2>x DEF RecordFails, RetentionTypeOK, RunStates, SafeIsUntouched, RunAt
    <3> QED BY <2>5, <3>1, <3>2, NothingNewInHand DEF RecordFails
  <2>6. ASSUME NEW w \in Runs, EndBatch(w) \/ KillRun(w) PROVE SafeIsUntouched'
    <3>1. \A x \in Runs : /\ run'[x].left \cup run'[x].now \subseteq run[x].left \cup run[x].now
                          /\ run'[x].at = "none" => run'[x].now = {}
      BY <2>6 DEF EndBatch, KillRun, NoRun, RetentionTypeOK, SafeIsUntouched, RunAt
    <3> QED BY <2>6, <3>1, NothingNewInHand DEF EndBatch, KillRun, RunAt
  <2>7. ASSUME NEW r \in Records, PlaceHold(r) PROVE SafeIsUntouched'
    <3>1. \A q \in Records : /\ dossier[q].words => dossier'[q].words
                             /\ dossier[q].photos => dossier'[q].photos
                             /\ dossier[q].hold \/ q = r => dossier'[q].hold
      BY <2>7 DEF PlaceHold, RetentionTypeOK, Dossiers
    <3>2. \A q \in safe' : q \in safe \/ (q = r /\ dossier[r].words /\ dossier[r].photos /\ ~InHand(r))
      BY <2>7 DEF PlaceHold
    <3> QED BY <2>7, <3>1, <3>2 DEF PlaceHold, SafeIsUntouched, InHand, RunAt
  <2>8. ASSUME NEW r \in Records, LiftHold(r) \/ MoveReport(r) PROVE SafeIsUntouched'
    <3>1. \A q \in Records : /\ dossier[q].words => dossier'[q].words
                             /\ dossier[q].photos => dossier'[q].photos
                             /\ q \in safe' /\ dossier[q].hold => dossier'[q].hold
      BY <2>8 DEF LiftHold, MoveReport, RetentionTypeOK, Dossiers
    <3>2. safe' \subseteq safe
      BY <2>8 DEF LiftHold, MoveReport
    <3> QED BY <2>8, <3>1, <3>2 DEF LiftHold, MoveReport, SafeIsUntouched, InHand, RunAt
  <2>9. CASE SetTownHold
    <3>1. frozen' => townHold' /\ \A w \in Runs : RunAt(w, "none")
      BY <2>9, Zenon DEF SetTownHold
    <3> QED BY <2>9, <3>1 DEF SetTownHold, SafeIsUntouched, InHand, RunAt
  <2>10. CASE UNCHANGED retentionVars
    BY <2>10 DEF retentionVars, SafeIsUntouched, InHand, RunAt
  <2> QED BY <2>1, <2>2, <2>3, <2>4, <2>5, <2>6, <2>7, <2>8, <2>9, <2>10 DEF RetentionNext, RunStep
<1>3. SafeIsUntouched => HoldKeepsTheRecord
  BY DEF SafeIsUntouched, HoldKeepsTheRecord
<1> QED BY <1>1, <1>2, <1>3, RetentionTyped, PTL DEF RetentionSpec

-----------------------------------------------------------------------------
(* The audit chain.                                                          *)

Entries == [by : Writers \cup {NoWriter}, seen : BOOLEAN, prev : Seq(Ids), hash : Seq(Ids),
            context : {"none", "kept", "purged"}, old : BOOLEAN]
Anchors == [id : Ids, hash : Seq(Ids), count : 1..MaxSeals]

(* The types with their domains.                                             *)
AuditShape ==
  /\ log \in [Ids -> Entries] /\ drawn \in 0..MaxSeals /\ chainLock \in Writers \cup {NoWriter}
  /\ anchors \subseteq Anchors
  /\ anchorTask \in [at : {"rest", "count"}, id : 0..MaxSeals, hash : Seq(Ids)]
  /\ verifier \in [at : {"rest", "top", "scan", "valid", "broken"}, due : SUBSET Anchors,
                   top : 0..MaxSeals, last : 0..MaxSeals, hash : Seq(Ids), position : Nat,
                   missing : SUBSET Anchors]
  /\ removed \in [times : 0..MaxRemoved, anchored : SUBSET Anchors]

Open(i) == log[i].by # NoWriter
Written == {i \in Ids : log[i].seen \/ Open(i)}

(* Entries not yet committed are the lock holder's, and newer than any that  *)
(* is; what the table holds was sealed as it stands.                         *)
LogIsSealed ==
  /\ \A i \in Ids : Open(i) => chainLock = log[i].by /\ ~log[i].seen
  /\ \A i \in Seen, j \in Ids : Open(j) => i < j
  /\ \A i \in Written : i <= drawn /\ log[i].hash = Append(log[i].prev, i)
  /\ \A i \in Ids : log[i].context = "purged" => log[i].old

(* No entry is deleted under the anchor's task.                              *)
HeadIsThere ==
  anchorTask.at = "count" => anchorTask.id \in Seen /\ anchorTask.hash = log[anchorTask.id].hash

(* An anchored entry that was deleted does not come back, and a verification *)
(* that has not ended still has its anchor before it.                        *)
GoneIsGone ==
  /\ removed.anchored \subseteq anchors /\ verifier.missing \subseteq removed.anchored
  /\ \A a \in removed.anchored : a.id \notin Written /\ a.id <= drawn
  /\ verifier.at \in {"top", "scan"} => verifier.missing \subseteq verifier.due
  /\ verifier.at = "valid" => verifier.missing = {}

(* The link of an entry is the hash of the one before it.                    *)
Linked(i) ==
  \/ log[i].prev = <<>> /\ \A j \in Written : j >= i
  \/ \E j \in Written : j < i /\ log[i].prev = log[j].hash /\ \A k \in Written : k < i => k <= j

UpTo(i) == {j \in Seen : j <= i}
AnchorHolds(a) == a.id \in Seen /\ a.hash = log[a.id].hash /\ a.count = Cardinality(UpTo(a.id))
Verifying == verifier.at \in {"top", "scan"}

(* Nothing was deleted: every link meets, every anchor says how it is, and a *)
(* verification has come as far as it says, every anchor behind it met.      *)
ChainIsWhole ==
  /\ \A i \in Written : Linked(i)
  /\ \A a \in anchors : AnchorHolds(a)
  /\ verifier.at # "broken"
  /\ Verifying => /\ verifier.due \subseteq anchors /\ \A a \in verifier.due : verifier.last < a.id
                  /\ verifier.position = Cardinality(UpTo(verifier.last))
                  /\ \/ verifier.last = 0 /\ verifier.hash = <<>>
                     \/ verifier.last \in Seen /\ verifier.hash = log[verifier.last].hash
  /\ verifier.at = "top" => verifier.last = 0
  /\ verifier.at = "scan" => \A a \in verifier.due : a.id <= verifier.top

AuditInv ==
  /\ AuditShape /\ LogIsSealed /\ HeadIsThere /\ GoneIsGone
  /\ removed.times = 0 => ChainIsWhole

(* A set of ids has a newest.                                                *)
LEMMA NewestOf ==
  ASSUME NEW S \in SUBSET Ids, S # {}
  PROVE  Newest(S) \in S /\ \A j \in S : j <= Newest(S)
<1> USE SealsAreNat DEF Ids
<1> DEFINE Below == {MaxSeals - j : j \in S}
<1>1. Below \in SUBSET Nat /\ Below # {}
  <2>1. \A j \in S : MaxSeals - j \in Nat
    OBVIOUS
  <2> QED BY <2>1
<1>2. PICK b \in Below : \A c \in Below : b <= c
  BY <1>1, LeastOf
<1>3. PICK i \in S : b = MaxSeals - i
  BY <1>2
<1>4. \A j \in S : j <= i
  <2> TAKE j \in S
  <2>1. MaxSeals - j \in Below
    OBVIOUS
  <2>2. MaxSeals - i <= MaxSeals - j
    BY <2>1, <1>2, <1>3
  <2> QED BY <2>2
<1> QED BY <1>3, <1>4 DEF Newest

(* Positions are counted over finite sets.                                   *)
LEMMA UpToFinite ==
  ASSUME NEW n \in Nat
  PROVE  /\ IsFiniteSet(UpTo(n)) /\ Cardinality(UpTo(n)) \in Nat /\ Cardinality(UpTo(n)) <= MaxSeals
         /\ UpTo(n) # {} => Cardinality(UpTo(n)) \in 1..MaxSeals
<1> USE SealsAreNat
<1>1. IsFiniteSet(Ids) /\ Cardinality(Ids) = MaxSeals
  BY FS_Interval DEF Ids
<1>2. UpTo(n) \in SUBSET Ids
  BY DEF UpTo, Seen
<1>3. IsFiniteSet(UpTo(n)) /\ Cardinality(UpTo(n)) <= MaxSeals
  BY <1>1, <1>2, FS_Subset
<1> QED BY <1>3, FS_CardinalityType, FS_EmptySet

LEMMA NothingTyped ==
  /\ NoEntry \in Entries
  /\ NoAnchoring \in [at : {"rest", "count"}, id : 0..MaxSeals, hash : Seq(Ids)]
  BY SealsAreNat DEF NoEntry, Entries, NoAnchoring

(* While entries are only added after those the table holds, the anchors and *)
(* what a verification has seen stay as they are.                            *)
LEMMA SeenGrows ==
  ASSUME AuditInv, log' \in [Ids -> Entries], Seen \subseteq Seen',
         \A i \in Seen : log[i]'.hash = log[i].hash,
         \A i \in Seen, j \in Seen' \ Seen : i < j,
         UNCHANGED <<anchors, anchorTask, verifier, removed>>
  PROVE  /\ HeadIsThere'
         /\ ChainIsWhole /\ (\A i \in Written : Linked(i))' => ChainIsWhole'
<1>1. HeadIsThere'
  BY DEF AuditInv, HeadIsThere
<1>2. ASSUME NEW i \in Seen \cup {0} PROVE UpTo(i)' = UpTo(i)
  <2>1. \A j \in Seen' : j <= i => j \in Seen
    BY <1>2, SealsAreNat DEF Seen, Ids
  <2> QED BY <2>1 DEF UpTo
<1>3. ASSUME ChainIsWhole, (\A i \in Written : Linked(i))' PROVE ChainIsWhole'
  <2>1. ASSUME NEW a \in anchors PROVE AnchorHolds(a)'
    <3>1. AnchorHolds(a)
      BY <1>3 DEF ChainIsWhole
    <3>2. UpTo(a.id)' = UpTo(a.id)
      BY <1>2, <3>1 DEF AnchorHolds
    <3>3. a.id \in Seen' /\ a.hash = log'[a.id].hash
      BY <3>1 DEF AnchorHolds
    <3> QED BY <3>1, <3>2, <3>3 DEF AnchorHolds, UpTo
  <2>2. Verifying => UpTo(verifier.last)' = UpTo(verifier.last)
    BY <1>2, <1>3 DEF ChainIsWhole
  <2> QED BY <2>1, <2>2, <1>3 DEF ChainIsWhole, Verifying, UpTo
<1> QED BY <1>1, <1>3

(* A new entry takes the newest of those there as the one before it: under   *)
(* the lock none can come in between.                                        *)
LEMMA SealKeeps ==
  ASSUME AuditInv, NEW w \in Writers, SealEntry(w) PROVE AuditInv'
<1> USE SealsAreNat DEF AuditInv
<1> DEFINE previous == HeadHash({i \in Ids : log[i].seen \/ log[i].by = w})
<1>0. PICK new \in Ids : new = drawn + 1
  BY DEF SealEntry, AuditShape, Ids
<1>x. \A i \in Ids : log[i] \in Entries
  BY DEF AuditShape
<1>1. PICK context \in {"none", "kept"} :
        log' = [log EXCEPT ![new] = [NoEntry EXCEPT !.by = w, !.prev = previous, !.context = context,
                                                    !.hash = Append(previous, new)]]
  BY <1>0 DEF SealEntry
<1>2. /\ drawn' = new /\ chainLock' = w /\ chainLock \in {w, NoWriter}
      /\ UNCHANGED <<anchors, anchorTask, verifier, removed>>
  BY <1>0 DEF SealEntry, ChainLockFree
<1>3. {i \in Ids : log[i].seen \/ log[i].by = w} = Written
  <2>1. ASSUME NEW i \in Ids, Open(i) PROVE log[i].by = w
    BY <1>2, <2>1 DEF LogIsSealed, Open
  <2>2. ASSUME NEW i \in Ids, log[i].by = w PROVE Open(i)
    BY <2>2 DEF Open
  <2> QED BY <2>1, <2>2 DEF Written
<1>4. previous \in Seq(Ids) /\ \/ Written = {} /\ previous = <<>>
                               \/ \E j \in Written : previous = log[j].hash /\ \A k \in Written : k <= j
  <2>1. CASE Written = {}
    BY <2>1, <1>3 DEF HeadHash
  <2>2. CASE Written # {}
    <3>1. Newest(Written) \in Written /\ \A j \in Written : j <= Newest(Written)
      BY <2>2, NewestOf DEF Written
    <3>2. previous = log[Newest(Written)].hash
      BY <1>3, <2>2 DEF HeadHash
    <3>3. log[Newest(Written)] \in Entries
      BY <3>1, <1>x DEF Written
    <3> QED BY <3>1, <3>2, <3>3 DEF Entries
  <2> QED BY <2>1, <2>2
<1> HIDE DEF previous
<1>5. \A i \in Written : i <= drawn /\ i # new
  BY <1>0 DEF LogIsSealed, AuditShape
<1>6. AuditShape'
  <2>1. Append(previous, new) \in Seq(Ids)
    BY <1>2, <1>4
  <2>2. log'[new] \in Entries
    BY <1>1, <1>4, <2>1 DEF Entries, NoEntry, AuditShape
  <2>3. \A i \in Ids \ {new} : log'[i] = log[i]
    BY <1>1 DEF AuditShape
  <2> QED BY <1>1, <1>2, <2>2, <2>3 DEF AuditShape, Ids
<1>7. /\ log'[new].by = w /\ ~log'[new].seen /\ log'[new].prev = previous /\ log'[new].context # "purged"
      /\ log'[new].hash = Append(previous, new)
      /\ \A i \in Ids \ {new} : log'[i] = log[i]
  BY <1>1, <1>2 DEF AuditShape, NoEntry
<1>8. Seen' = Seen /\ Written' = Written \cup {new}
  BY <1>2, <1>5, <1>7 DEF Seen, Written, Open
<1>9. LogIsSealed'
  <2>1. \A i \in Ids : Open(i)' => chainLock' = log'[i].by /\ ~log'[i].seen
    BY <1>2, <1>7 DEF LogIsSealed, Open
  <2>2. ASSUME NEW i \in Seen', NEW j \in Ids, Open(j)' PROVE i < j
    <3>1. i \in Seen /\ i \in Written /\ i \in Ids
      BY <1>8 DEF Seen, Written
    <3>2. CASE j = new
      BY <3>1, <3>2, <1>5, <1>0 DEF Ids, AuditShape
    <3>3. CASE j # new
      BY <2>2, <3>1, <3>3, <1>7 DEF LogIsSealed, Open
    <3> QED BY <3>2, <3>3
  <2>3. ASSUME NEW i \in Written' PROVE i <= drawn' /\ log'[i].hash = Append(log'[i].prev, i)
    <3>1. CASE i = new
      BY <3>1, <1>2, <1>7 DEF Ids
    <3>2. CASE i # new
      <4>1. i \in Written /\ i \in Ids /\ log'[i] = log[i]
        BY <3>2, <1>7, <1>8 DEF Written
      <4>2. i <= drawn /\ log[i].hash = Append(log[i].prev, i)
        BY <4>1 DEF LogIsSealed
      <4> QED BY <4>1, <4>2, <1>0, <1>2 DEF AuditShape, Ids
    <3> QED BY <3>1, <3>2
  <2>4. \A i \in Ids : log'[i].context = "purged" => log'[i].old
    BY <1>7 DEF LogIsSealed
  <2> QED BY <2>1, <2>2, <2>3, <2>4 DEF LogIsSealed
<1>10. GoneIsGone'
  <2>1. \A a \in removed.anchored : a.id # new /\ a.id <= drawn'
    BY <1>0, <1>2 DEF GoneIsGone, AuditShape, Anchors, Ids
  <2> QED BY <1>2, <1>8, <2>1 DEF GoneIsGone
<1>11. /\ HeadIsThere'
       /\ ChainIsWhole /\ (\A i \in Written : Linked(i))' => ChainIsWhole'
  <2>1. \A i \in Seen : log'[i].hash = log[i].hash
    BY <1>5, <1>7 DEF Seen, Written
  <2> QED BY <2>1, <1>2, <1>6, <1>8, SeenGrows DEF AuditShape
<1>12. ASSUME ChainIsWhole PROVE (\A i \in Written : Linked(i))'
  <2>1. ASSUME NEW i \in Written PROVE Linked(i)'
    <3>1. i # new /\ i \in Ids /\ i < new /\ Linked(i)
      BY <1>0, <1>5, <1>12 DEF ChainIsWhole, Written, Ids, AuditShape
    <3>2. CASE log[i].prev = <<>> /\ \A j \in Written : j >= i
      BY <3>1, <3>2, <1>7, <1>8 DEF Linked, Ids, Written
    <3>3. CASE \E j \in Written : j < i /\ log[i].prev = log[j].hash /\ \A k \in Written : k < i => k <= j
      <4>1. PICK j \in Written : j < i /\ log[i].prev = log[j].hash /\ \A k \in Written : k < i => k <= j
        BY <3>3
      <4>2. log'[j].hash = log[j].hash /\ log'[i].prev = log[i].prev
        BY <3>1, <1>5, <1>7 DEF Written
      <4>3. \A k \in Written' : k < i => k <= j
        BY <4>1, <3>1, <1>8 DEF Ids
      <4> QED BY <4>1, <4>2, <4>3, <1>8 DEF Linked
    <3> QED BY <3>1, <3>2, <3>3 DEF Linked
  <2>2. Linked(new)'
    <3>1. CASE Written = {} /\ previous = <<>>
      BY <3>1, <1>2, <1>7, <1>8 DEF Linked, Ids
    <3>2. CASE \E j \in Written : previous = log[j].hash /\ \A k \in Written : k <= j
      <4>1. PICK j \in Written : previous = log[j].hash /\ \A k \in Written : k <= j
        BY <3>2
      <4>2. j < new /\ log'[j].hash = log[j].hash /\ new \in Ids /\ j \in Ids
        BY <1>0, <1>5, <1>7 DEF Written, Ids, AuditShape
      <4>3. \A k \in Written' : k < new => k <= j
        BY <4>1, <4>2, <1>8 DEF Ids, Written
      <4> QED BY <4>1, <4>2, <4>3, <1>7, <1>8 DEF Linked
    <3> QED BY <1>4, <3>1, <3>2
  <2> QED BY <2>1, <2>2, <1>8
<1> QED BY <1>2, <1>6, <1>9, <1>10, <1>11, <1>12

(* What its writer committed was sealed in order.                            *)
LEMMA CommitKeeps ==
  ASSUME AuditInv, NEW w \in Writers, CommitEntries(w) PROVE AuditInv'
<1> USE SealsAreNat DEF AuditInv
<1>1. /\ UNCHANGED <<drawn, anchors, anchorTask, verifier, removed>>
      /\ chainLock' = IF chainLock = w THEN NoWriter ELSE chainLock
      /\ w # NoWriter
  BY DEF CommitEntries, Unlocked
<1>x. \A i \in Ids : log[i] \in Entries
  BY DEF AuditShape
<1>2. \A i \in Ids : log'[i] = IF log[i].by = w THEN [log[i] EXCEPT !.by = NoWriter, !.seen = TRUE] ELSE log[i]
  BY DEF CommitEntries
<1>3. AuditShape'
  <2>1. \A i \in Ids : log'[i] \in Entries
    BY <1>2, <1>x DEF Entries
  <2>2. log' = [i \in Ids |-> log'[i]]
    BY DEF CommitEntries
  <2> QED BY <1>1, <2>1, <2>2 DEF AuditShape
<1>4. \A i \in Ids : /\ log'[i].seen <=> log[i].seen \/ log[i].by = w
                     /\ log'[i].by = IF log[i].by = w THEN NoWriter ELSE log[i].by
                     /\ log'[i].prev = log[i].prev /\ log'[i].hash = log[i].hash
                     /\ log'[i].context = log[i].context /\ log'[i].old = log[i].old
  BY <1>2, <1>x DEF Entries
<1>5. Written' = Written /\ Seen \subseteq Seen' /\ \A i \in Seen' \ Seen : Open(i)
  BY <1>1, <1>4 DEF Written, Seen, Open
<1>6. \A i \in Ids : Open(i)' => FALSE
  <2> SUFFICES ASSUME NEW i \in Ids, Open(i)' PROVE FALSE
    OBVIOUS
  <2>1. log[i].by # w /\ log[i].by # NoWriter
    BY <1>4 DEF Open
  <2>2. PICK j \in Ids : log[j].by = w
    BY DEF CommitEntries, Owns
  <2>3. log[i].by = chainLock /\ log[j].by = chainLock
    BY <2>1, <2>2, <1>1 DEF LogIsSealed, Open
  <2> QED BY <2>1, <2>2, <2>3
<1>7. LogIsSealed'
  BY <1>1, <1>4, <1>5, <1>6 DEF LogIsSealed, Written
<1>8. GoneIsGone'
  BY <1>1, <1>5 DEF GoneIsGone
<1>9. /\ HeadIsThere'
      /\ ChainIsWhole /\ (\A i \in Written : Linked(i))' => ChainIsWhole'
  <2>1. \A i \in Seen, j \in Seen' \ Seen : i < j
    BY <1>5 DEF LogIsSealed, Seen
  <2>2. \A i \in Seen : log'[i].hash = log[i].hash
    BY <1>4 DEF Seen
  <2> QED BY <2>1, <2>2, <1>1, <1>3, <1>5, SeenGrows DEF AuditShape
<1>10. ASSUME ChainIsWhole PROVE (\A i \in Written : Linked(i))'
  BY <1>4, <1>5, <1>10 DEF ChainIsWhole, Linked, Written
<1> QED BY <1>1, <1>3, <1>7, <1>8, <1>9, <1>10

(* Entries rolled back were the newest, so no link that stays led to one of  *)
(* them.                                                                     *)
LEMMA RollBackKeeps ==
  ASSUME AuditInv, NEW w \in Writers, RollBackEntries(w) PROVE AuditInv'
<1> USE SealsAreNat DEF AuditInv
<1>1. /\ UNCHANGED <<drawn, anchors, anchorTask, verifier, removed>>
      /\ chainLock' = IF chainLock = w THEN NoWriter ELSE chainLock
      /\ w # NoWriter
  BY DEF RollBackEntries, Unlocked
<1>2. \A i \in Ids : log'[i] = IF log[i].by = w THEN NoEntry ELSE log[i]
  BY DEF RollBackEntries
<1>3. AuditShape'
  <2>1. \A i \in Ids : log'[i] \in Entries
    BY <1>2, NothingTyped DEF AuditShape
  <2>2. log' = [i \in Ids |-> log'[i]]
    BY DEF RollBackEntries
  <2> QED BY <1>1, <2>1, <2>2 DEF AuditShape
<1>4. NoEntry.by = NoWriter /\ ~NoEntry.seen /\ NoEntry.context = "none"
  BY DEF NoEntry
<1>5. PICK j \in Ids : log[j].by = w
  BY DEF RollBackEntries, Owns
<1>6. \A i \in Ids : Open(i) => log[i].by = w
  BY <1>1, <1>5 DEF LogIsSealed, Open
<1>7. /\ Seen' = Seen /\ Written' = Seen
      /\ \A i \in Seen : i \in Ids /\ log'[i] = log[i]
      /\ \A i \in Ids : ~Open(i)'
  <2>1. \A i \in Ids : log[i].by = w => ~log[i].seen
    BY <1>1 DEF LogIsSealed, Open
  <2>2. \A i \in Ids : ~log[i].seen => ~log'[i].seen
    BY <1>2, <1>4
  <2>3. \A i \in Seen : i \in Ids /\ log'[i] = log[i]
    BY <2>1, <1>2 DEF Seen
  <2>4. \A i \in Ids : ~Open(i)'
    BY <1>2, <1>4, <1>6 DEF Open
  <2> QED BY <2>2, <2>3, <2>4 DEF Seen, Written
<1>8. Seen \subseteq Written
  BY DEF Seen, Written
<1>9. LogIsSealed'
  <2>1. \A i \in Ids : log'[i].context = "purged" => log'[i].old
    BY <1>2, <1>4 DEF LogIsSealed
  <2> QED BY <1>1, <1>7, <1>8, <2>1 DEF LogIsSealed
<1>10. GoneIsGone'
  BY <1>1, <1>7, <1>8 DEF GoneIsGone
<1>11. /\ HeadIsThere'
       /\ ChainIsWhole /\ (\A i \in Written : Linked(i))' => ChainIsWhole'
  BY <1>1, <1>3, <1>7, SeenGrows DEF AuditShape
<1>12. ASSUME ChainIsWhole PROVE (\A i \in Written : Linked(i))'
  <2> SUFFICES ASSUME NEW i \in Seen PROVE Linked(i)'
    BY <1>7
  <2>1. i \in Written /\ i \in Ids /\ log'[i].prev = log[i].prev
    BY <1>7, <1>8
  <2>2. CASE log[i].prev = <<>> /\ \A k \in Written : k >= i
    BY <2>1, <2>2, <1>7, <1>8 DEF Linked
  <2>3. CASE \E k \in Written : k < i /\ log[i].prev = log[k].hash /\ \A l \in Written : l < i => l <= k
    <3>1. PICK k \in Written : k < i /\ log[i].prev = log[k].hash /\ \A l \in Written : l < i => l <= k
      BY <2>3
    <3>2. k \in Seen
      <4>1. ~Open(k)
        BY <3>1, <2>1 DEF LogIsSealed, Written, Ids
      <4> QED BY <4>1 DEF Written, Seen
    <3> QED BY <2>1, <3>1, <3>2, <1>7, <1>8 DEF Linked
  <2> QED BY <2>1, <2>2, <2>3, <1>12 DEF ChainIsWhole, Linked
<1> QED BY <1>1, <1>3, <1>9, <1>10, <1>11, <1>12

(* Time and the purge change what an entry says of an address, no more.      *)
LEMMA AgeingKeeps ==
  ASSUME AuditInv, log' \in [Ids -> Entries],
         UNCHANGED <<drawn, chainLock, anchors, anchorTask, verifier, removed>>,
         \A i \in Ids : /\ log'[i].by = log[i].by /\ log'[i].seen = log[i].seen
                        /\ log'[i].prev = log[i].prev /\ log'[i].hash = log[i].hash
                        /\ log'[i].context = "purged" => log'[i].old
  PROVE  AuditInv'
<1> USE DEF AuditInv
<1>1. Seen' = Seen /\ Written' = Written /\ \A i \in Ids : Open(i)' = Open(i)
  BY DEF Seen, Written, Open
<1>2. LogIsSealed'
  BY <1>1 DEF LogIsSealed, Written
<1>3. GoneIsGone'
  BY <1>1 DEF GoneIsGone
<1>4. /\ HeadIsThere'
      /\ ChainIsWhole /\ (\A i \in Written : Linked(i))' => ChainIsWhole'
  <2>1. \A i \in Seen : log'[i].hash = log[i].hash
    BY DEF Seen
  <2> QED BY <2>1, <1>1, SeenGrows DEF AuditShape
<1>5. ChainIsWhole => (\A i \in Written : Linked(i))'
  BY <1>1 DEF ChainIsWhole, Linked, Written
<1> QED BY <1>2, <1>3, <1>4, <1>5 DEF AuditShape

LEMMA EntriesAgeKeep ==
  ASSUME AuditInv, NEW i \in Ids, EntriesAge(i) PROVE AuditInv'
<1>1. log' = [log EXCEPT ![i].old = TRUE] /\ \A j \in Ids : log[j] \in Entries
  BY DEF EntriesAge, AuditInv, AuditShape
<1>2. \A j \in Ids : log'[j] \in Entries
  BY <1>1 DEF AuditInv, AuditShape, Entries
<1>3. log' \in [Ids -> Entries]
  BY <1>1, <1>2 DEF AuditInv, AuditShape
<1>4. \A j \in Ids : /\ log'[j].by = log[j].by /\ log'[j].seen = log[j].seen
                     /\ log'[j].prev = log[j].prev /\ log'[j].hash = log[j].hash
                     /\ log'[j].context = "purged" => log'[j].old
  BY <1>1 DEF AuditInv, AuditShape, Entries, LogIsSealed
<1> QED BY <1>3, <1>4, AgeingKeeps DEF EntriesAge

LEMMA PurgeKeeps ==
  ASSUME AuditInv, PurgeAddresses PROVE AuditInv'
<1>1. \A j \in Ids : /\ log[j] \in Entries
                     /\ log'[j] = IF log[j].seen /\ log[j].old /\ log[j].context = "kept"
                                  THEN [log[j] EXCEPT !.context = "purged"] ELSE log[j]
  BY DEF PurgeAddresses, Purged, AuditInv, AuditShape
<1>2. \A j \in Ids : log'[j] \in Entries
  BY <1>1 DEF Entries
<1>3. log' \in [Ids -> Entries]
  BY <1>2 DEF PurgeAddresses
<1>4. \A j \in Ids : /\ log'[j].by = log[j].by /\ log'[j].seen = log[j].seen
                     /\ log'[j].prev = log[j].prev /\ log'[j].hash = log[j].hash
                     /\ log'[j].context = "purged" => log'[j].old
  BY <1>1 DEF AuditInv, Entries, LogIsSealed
<1> QED BY <1>3, <1>4, AgeingKeeps DEF PurgeAddresses

(* The anchor's task reads the newest committed entry, and counts later: no  *)
(* entry before it comes or goes meanwhile.                                  *)
LEMMA AnchorHeadKeeps ==
  ASSUME AuditInv, AnchorHead PROVE AuditInv'
<1> USE SealsAreNat DEF AuditInv
<1>1. /\ anchorTask' = [at |-> "count", id |-> Newest(Seen), hash |-> HeadHash(Seen)] /\ Seen # {}
      /\ UNCHANGED <<log, drawn, chainLock, anchors, verifier, removed>>
  BY DEF AnchorHead
<1>2. Newest(Seen) \in Seen /\ HeadHash(Seen) = log[Newest(Seen)].hash
  BY <1>1, NewestOf DEF Seen, HeadHash
<1>3. HeadHash(Seen) \in Seq(Ids) /\ Newest(Seen) \in 0..MaxSeals
  <2>1. log[Newest(Seen)] \in Entries
    BY <1>2 DEF Seen, AuditShape
  <2> QED BY <1>2, <2>1 DEF Seen, Ids, Entries
<1>4. AuditShape'
  BY <1>1, <1>3 DEF AuditShape
<1>5. Seen' = Seen /\ Written' = Written
  BY <1>1 DEF Seen, Written, Open
<1>6. HeadIsThere'
  BY <1>1, <1>2, <1>5 DEF HeadIsThere
<1>7. LogIsSealed' /\ GoneIsGone'
  BY <1>1, <1>5 DEF LogIsSealed, GoneIsGone, Open
<1>8. ChainIsWhole => ChainIsWhole'
  BY <1>1, <1>5 DEF ChainIsWhole, Linked, AnchorHolds, UpTo, Verifying
<1> QED BY <1>1, <1>4, <1>6, <1>7, <1>8

LEMMA AnchorWriteKeeps ==
  ASSUME AuditInv, AnchorWrite PROVE AuditInv'
<1> USE SealsAreNat DEF AuditInv
<1> DEFINE new == [id |-> anchorTask.id, hash |-> anchorTask.hash, count |-> Counted]
<1>1. /\ anchorTask.at = "count" /\ anchorTask' = NoAnchoring
      /\ UNCHANGED <<log, drawn, chainLock, verifier, removed>>
      /\ anchors' = anchors \/ (anchors' = anchors \cup {new} /\ Counted # 0)
  BY DEF AnchorWrite
<1>2. anchorTask.id \in Seen /\ anchorTask.hash = log[anchorTask.id].hash /\ anchorTask.id \in Ids
  BY <1>1 DEF HeadIsThere, Seen
<1>3. Counted = Cardinality(UpTo(anchorTask.id)) /\ UpTo(anchorTask.id) # {}
  BY <1>2 DEF Counted, UpTo, Ids
<1>4. AnchorHolds(new) /\ new \in Anchors
  <2>1. Counted \in 1..MaxSeals
    BY <1>2, <1>3, UpToFinite DEF Ids
  <2>2. anchorTask.hash \in Seq(Ids)
    BY DEF AuditShape
  <2> QED BY <1>2, <1>3, <2>1, <2>2 DEF AnchorHolds, Anchors
<1> HIDE DEF new
<1>5. AuditShape'
  BY <1>1, <1>4, NothingTyped DEF AuditShape
<1>6. Seen' = Seen /\ Written' = Written
  BY <1>1 DEF Seen, Written, Open
<1>7. LogIsSealed' /\ GoneIsGone' /\ HeadIsThere'
  BY <1>1, <1>6 DEF LogIsSealed, GoneIsGone, HeadIsThere, Open, NoAnchoring
<1>8. ChainIsWhole => ChainIsWhole'
  <2> SUFFICES ASSUME ChainIsWhole PROVE ChainIsWhole'
    OBVIOUS
  <2>1. \A a \in anchors' : AnchorHolds(a)
    BY <1>1, <1>4 DEF ChainIsWhole
  <2>2. \A a \in anchors' : AnchorHolds(a)'
    BY <2>1, <1>1, <1>6 DEF AnchorHolds, UpTo
  <2> QED BY <2>2, <1>1, <1>6 DEF ChainIsWhole, Linked, UpTo, Verifying
<1> QED BY <1>1, <1>5, <1>7, <1>8

(* A deletion ends what is known of the chain, but not of the anchors it     *)
(* took.                                                                     *)
LEMMA RemoveKeeps ==
  ASSUME AuditInv, RemoveNewest PROVE AuditInv'
<1> USE SealsAreNat DEF AuditInv
<1>0. PICK top : top = Newest(Seen)
  OBVIOUS
<1>1. /\ log' = [log EXCEPT ![top] = NoEntry] /\ Seen # {} /\ anchorTask.at = "rest"
      /\ removed' = [times |-> removed.times + 1,
                     anchored |-> removed.anchored \cup {a \in anchors : a.id = top}]
      /\ removed.times < MaxRemoved
      /\ UNCHANGED <<drawn, chainLock, anchors, anchorTask, verifier>>
  BY <1>0 DEF RemoveNewest
<1>2. top \in Seen /\ top \in Ids
  BY <1>0, <1>1, NewestOf DEF Seen
<1>3. /\ log'[top] = NoEntry /\ \A i \in Ids \ {top} : log'[i] = log[i]
      /\ log' \in [Ids -> Entries]
  BY <1>1, <1>2, NothingTyped DEF AuditShape
<1>4. NoEntry.by = NoWriter /\ ~NoEntry.seen /\ NoEntry.context = "none"
  BY DEF NoEntry
<1>5. Seen' = Seen \ {top} /\ Written' = Written \ {top} /\ \A i \in Ids : Open(i)' => Open(i) /\ i # top
  BY <1>2, <1>3, <1>4 DEF Seen, Written, Open
<1>6. AuditShape' /\ removed'.times # 0
  BY <1>1, <1>3 DEF AuditShape
<1>7. LogIsSealed'
  <2>1. \A i \in Ids : Open(i)' => chainLock' = log'[i].by /\ ~log'[i].seen
    BY <1>1, <1>3, <1>5 DEF LogIsSealed
  <2>2. \A i \in Seen', j \in Ids : Open(j)' => i < j
    BY <1>5 DEF LogIsSealed
  <2>3. \A i \in Written' : i <= drawn' /\ log'[i].hash = Append(log'[i].prev, i)
    BY <1>1, <1>3, <1>5 DEF LogIsSealed, Written
  <2>4. \A i \in Ids : log'[i].context = "purged" => log'[i].old
    BY <1>3, <1>4 DEF LogIsSealed
  <2> QED BY <2>1, <2>2, <2>3, <2>4 DEF LogIsSealed
<1>8. GoneIsGone'
  <2>1. removed'.anchored = removed.anchored \cup {a \in anchors : a.id = top}
    BY <1>1
  <2>2. top \notin Written' /\ top <= drawn
    BY <1>2, <1>5 DEF LogIsSealed, Written, Seen
  <2> QED BY <1>1, <1>5, <2>1, <2>2 DEF GoneIsGone
<1>9. HeadIsThere'
  BY <1>1 DEF HeadIsThere
<1> QED BY <1>6, <1>7, <1>8, <1>9

(* What the verification does leaves the log as it is.                       *)
LEMMA VerifierOnly ==
  ASSUME AuditInv, UNCHANGED <<log, drawn, chainLock, anchors, anchorTask, removed>>,
         verifier' \in [at : {"rest", "top", "scan", "valid", "broken"}, due : SUBSET Anchors,
                        top : 0..MaxSeals, last : 0..MaxSeals, hash : Seq(Ids), position : Nat,
                        missing : SUBSET Anchors],
         GoneIsGone', removed.times = 0 => ChainIsWhole'
  PROVE  AuditInv'
<1>1. Seen' = Seen /\ Written' = Written
  BY DEF Seen, Written, Open
<1> QED BY <1>1 DEF AuditInv, AuditShape, LogIsSealed, HeadIsThere, Open

(* A verification begins with the anchors, and looks for each of them.       *)
LEMMA VerifyAnchorsKeeps ==
  ASSUME AuditInv, VerifyAnchors PROVE AuditInv'
<1> USE SealsAreNat DEF AuditInv
<1>1. /\ verifier' = [at |-> "top", due |-> anchors, top |-> 0, last |-> 0, hash |-> <<>>,
                      position |-> 0, missing |-> removed.anchored]
      /\ UNCHANGED <<log, drawn, chainLock, anchors, anchorTask, removed>>
  BY DEF VerifyAnchors, NoVerify
<1>2. Seen' = Seen /\ Written' = Written
  BY <1>1 DEF Seen, Written, Open
<1>3. GoneIsGone'
  BY <1>1, <1>2 DEF GoneIsGone
<1>4. ASSUME ChainIsWhole PROVE ChainIsWhole'
  <2>1. UpTo(0)' = {}
    BY DEF UpTo, Seen, Ids
  <2>2. \A a \in anchors : AnchorHolds(a)' /\ 0 < a.id
    BY <1>1, <1>2, <1>4 DEF ChainIsWhole, AnchorHolds, UpTo, AuditShape, Anchors, Ids
  <2>3. \A i \in Written' : Linked(i)'
    BY <1>1, <1>2, <1>4 DEF ChainIsWhole, Linked
  <2> QED BY <1>1, <2>1, <2>2, <2>3, FS_EmptySet DEF ChainIsWhole, Verifying, UpTo
<1> QED BY <1>1, <1>3, <1>4, VerifierOnly DEF AuditShape

LEMMA VerifyTopKeeps ==
  ASSUME AuditInv, VerifyTop PROVE AuditInv'
<1> USE SealsAreNat DEF AuditInv
<1>0. PICK top : top = IF Seen = {} THEN 0 ELSE Newest(Seen)
  OBVIOUS
<1>1. /\ verifier' = [verifier EXCEPT !.at = "scan", !.top = top] /\ verifier.at = "top"
      /\ UNCHANGED <<log, drawn, chainLock, anchors, anchorTask, removed>>
  BY <1>0 DEF VerifyTop
<1>2. top \in 0..MaxSeals /\ \A i \in Seen : i <= top
  BY <1>0, NewestOf DEF Seen, Ids
<1>3. Seen' = Seen /\ Written' = Written
  BY <1>1 DEF Seen, Written, Open
<1>4. /\ verifier'.at = "scan" /\ verifier'.top = top /\ verifier'.due = verifier.due
      /\ verifier'.last = verifier.last /\ verifier'.hash = verifier.hash
      /\ verifier'.position = verifier.position /\ verifier'.missing = verifier.missing
  BY <1>1 DEF AuditShape
<1>5. GoneIsGone'
  BY <1>1, <1>3, <1>4 DEF GoneIsGone
<1>6. ASSUME ChainIsWhole PROVE ChainIsWhole'
  <2>1. \A a \in anchors : AnchorHolds(a)'
    BY <1>1, <1>3, <1>6 DEF ChainIsWhole, AnchorHolds, UpTo
  <2>2. \A i \in Written' : Linked(i)'
    BY <1>1, <1>3, <1>6 DEF ChainIsWhole, Linked
  <2>3. \A a \in verifier.due : a.id <= top
    BY <1>1, <1>2, <1>6 DEF ChainIsWhole, Verifying, AnchorHolds
  <2> QED BY <1>1, <1>3, <1>4, <1>6, <2>1, <2>2, <2>3 DEF ChainIsWhole, Verifying, UpTo
<1>7. verifier' \in [at : {"rest", "top", "scan", "valid", "broken"}, due : SUBSET Anchors,
                     top : 0..MaxSeals, last : 0..MaxSeals, hash : Seq(Ids), position : Nat,
                     missing : SUBSET Anchors]
  BY <1>1, <1>2 DEF AuditShape
<1> QED BY <1>1, <1>5, <1>6, <1>7, VerifierOnly

LEMMA EndVerifyKeeps ==
  ASSUME AuditInv, EndVerify PROVE AuditInv'
<1> USE SealsAreNat DEF AuditInv
<1>0. PICK verdict : verdict = IF verifier.due = {} THEN "valid" ELSE "broken"
  OBVIOUS
<1>1. /\ verifier' = [verifier EXCEPT !.at = verdict] /\ verifier.at = "scan" /\ Ahead = {}
      /\ UNCHANGED <<log, drawn, chainLock, anchors, anchorTask, removed>>
  BY <1>0 DEF EndVerify
<1>2. Seen' = Seen /\ Written' = Written
  BY <1>1 DEF Seen, Written, Open
<1>3. verifier'.at = verdict /\ verifier'.missing = verifier.missing
  BY <1>1 DEF AuditShape
<1>4. GoneIsGone'
  BY <1>0, <1>1, <1>2, <1>3 DEF GoneIsGone
<1>5. ASSUME ChainIsWhole PROVE ChainIsWhole'
  <2>1. verifier.due = {}
    <3> SUFFICES ASSUME NEW a \in verifier.due PROVE FALSE
      OBVIOUS
    <3>1. a.id \in Seen /\ verifier.last < a.id /\ a.id <= verifier.top
      BY <1>1, <1>5 DEF ChainIsWhole, Verifying, AnchorHolds
    <3> QED BY <1>1, <3>1 DEF Ahead
  <2>2. \A a \in anchors : AnchorHolds(a)'
    BY <1>1, <1>2, <1>5 DEF ChainIsWhole, AnchorHolds, UpTo
  <2>3. \A i \in Written' : Linked(i)'
    BY <1>1, <1>2, <1>5 DEF ChainIsWhole, Linked
  <2> QED BY <1>0, <1>1, <1>3, <2>1, <2>2, <2>3 DEF ChainIsWhole, Verifying
<1>6. verifier' \in [at : {"rest", "top", "scan", "valid", "broken"}, due : SUBSET Anchors,
                     top : 0..MaxSeals, last : 0..MaxSeals, hash : Seq(Ids), position : Nat,
                     missing : SUBSET Anchors]
  BY <1>0, <1>1 DEF AuditShape
<1> QED BY <1>1, <1>4, <1>5, <1>6, VerifierOnly

(* While nothing was deleted, the next row meets the one before it and every *)
(* anchor of it.                                                             *)
LEMMA NextRowMeets ==
  ASSUME AuditInv, ChainIsWhole, verifier.at = "scan",
         NEW i \in Ahead, \A k \in Ahead : i <= k
  PROVE  /\ ~RowBreaks(i)
         /\ Cardinality(UpTo(i)) = verifier.position + 1
<1> USE SealsAreNat DEF AuditInv
<1>1. /\ i \in Seen /\ verifier.last < i /\ i <= verifier.top /\ i \in Written /\ i \in Ids
      /\ verifier.last \in Nat
  BY DEF Ahead, Seen, Written, AuditShape
<1>2. \A j \in Seen : j < i => j <= verifier.last
  <2> SUFFICES ASSUME NEW j \in Seen, j < i, ~(j <= verifier.last) PROVE FALSE
    OBVIOUS
  <2>1. j \in Ahead
    BY <1>1 DEF Ahead, Seen, Ids, AuditShape
  <2> QED BY <2>1, <1>1 DEF Seen, Ids
<1>3. UpTo(i) = UpTo(verifier.last) \cup {i} /\ i \notin UpTo(verifier.last)
  BY <1>1, <1>2 DEF UpTo, Seen, Ids
<1>4. Cardinality(UpTo(i)) = verifier.position + 1
  <2>1. verifier.position = Cardinality(UpTo(verifier.last))
    BY DEF ChainIsWhole, Verifying
  <2>2. IsFiniteSet(UpTo(verifier.last)) /\ Cardinality(UpTo(verifier.last)) \in Nat
    BY <1>1, UpToFinite
  <2>3. Cardinality(UpTo(verifier.last) \cup {i}) = Cardinality(UpTo(verifier.last)) + 1
    BY <1>3, <2>2, FS_AddElement
  <2> QED BY <1>3, <2>1, <2>3
<1>5. \A a \in verifier.due : ~(a.id < i)
  <2> SUFFICES ASSUME NEW a \in verifier.due, a.id < i PROVE FALSE
    OBVIOUS
  <2>1. a.id \in Seen /\ verifier.last < a.id
    BY DEF ChainIsWhole, Verifying, AnchorHolds
  <2> QED BY <1>1, <1>2, <2>1 DEF Seen, Ids
<1>6. log[i].hash = Append(log[i].prev, i) /\ ~(log[i].context = "purged" /\ ~log[i].old)
  BY <1>1 DEF LogIsSealed
<1>7. log[i].prev = verifier.hash
  <2>1. \A j \in Written : j < i => j \in Seen
    BY <1>1 DEF LogIsSealed, Written, Seen, Ids
  <2>2. CASE log[i].prev = <<>> /\ \A j \in Written : j >= i
    <3>1. verifier.last \notin Seen
      BY <1>1, <2>2 DEF Seen, Written, Ids
    <3> QED BY <2>2, <3>1 DEF ChainIsWhole, Verifying
  <2>3. CASE \E j \in Written : j < i /\ log[i].prev = log[j].hash /\ \A k \in Written : k < i => k <= j
    <3>1. PICK j \in Written : j < i /\ log[i].prev = log[j].hash /\ \A k \in Written : k < i => k <= j
      BY <2>3
    <3>2. j \in Seen /\ j \in Ids /\ j <= verifier.last
      BY <1>2, <2>1, <3>1 DEF Written
    <3>3. verifier.last \in Seen /\ verifier.last \in Written
      BY <3>2 DEF ChainIsWhole, Verifying, Ids, Seen, Written
    <3>4. verifier.last <= j
      BY <1>1, <3>1, <3>3
    <3>5. verifier.last = j
      BY <1>1, <3>2, <3>4 DEF Ids
    <3>6. verifier.hash = log[verifier.last].hash
      BY <1>1, <3>2, <3>5 DEF ChainIsWhole, Verifying, Ids
    <3> QED BY <3>1, <3>5, <3>6
  <2> QED BY <1>1, <2>2, <2>3 DEF ChainIsWhole, Linked
<1>8. \A a \in verifier.due : a.id = i => a.hash = log[i].hash /\ a.count = verifier.position + 1
  BY <1>4 DEF ChainIsWhole, Verifying, AnchorHolds
<1> QED BY <1>4, <1>5, <1>6, <1>7, <1>8 DEF RowBreaks

(* It reads on to the next row, or ends.                                     *)
LEMMA ScanKeeps ==
  ASSUME AuditInv, ScanRow PROVE AuditInv'
<1> USE SealsAreNat DEF AuditInv
<1>0. PICK i : i = CHOOSE j \in Ahead : \A k \in Ahead : j <= k
  OBVIOUS
<1>1. /\ verifier' = IF RowBreaks(i) THEN [verifier EXCEPT !.at = "broken"]
                     ELSE [verifier EXCEPT !.last = i, !.hash = log[i].hash, !.position = verifier.position + 1,
                                           !.due = {a \in verifier.due : a.id > i}]
      /\ verifier.at = "scan" /\ Ahead # {}
      /\ UNCHANGED <<log, drawn, chainLock, anchors, anchorTask, removed>>
  BY <1>0 DEF ScanRow
<1>2. i \in Ahead /\ \A k \in Ahead : i <= k
  <2>1. Ahead \in SUBSET Nat
    BY DEF Ahead, Seen, Ids
  <2> QED BY <1>0, <1>1, <2>1, LeastOf
<1>3. /\ i \in Seen /\ i \in Ids /\ i \in Written /\ log[i] \in Entries
      /\ verifier.last < i /\ i <= verifier.top
  BY <1>2 DEF Ahead, Seen, Written, AuditShape
<1>4. Seen' = Seen /\ Written' = Written
  BY <1>1 DEF Seen, Written, Open
<1>5. CASE RowBreaks(i)
  <2>1. ~ChainIsWhole
    BY <1>1, <1>2, <1>5, NextRowMeets
  <2>2. verifier'.at = "broken" /\ verifier'.missing = verifier.missing
    BY <1>1, <1>5 DEF AuditShape
  <2>3. GoneIsGone'
    BY <1>1, <1>4, <2>2 DEF GoneIsGone
  <2>4. verifier' \in [at : {"rest", "top", "scan", "valid", "broken"}, due : SUBSET Anchors,
                       top : 0..MaxSeals, last : 0..MaxSeals, hash : Seq(Ids), position : Nat,
                       missing : SUBSET Anchors]
    BY <1>1, <1>5 DEF AuditShape
  <2> QED BY <1>1, <2>1, <2>3, <2>4, VerifierOnly
<1>6. CASE ~RowBreaks(i)
  <2>1. /\ verifier'.at = "scan" /\ verifier'.last = i /\ verifier'.hash = log[i].hash
        /\ verifier'.position = verifier.position + 1 /\ verifier'.due = {a \in verifier.due : a.id > i}
        /\ verifier'.top = verifier.top /\ verifier'.missing = verifier.missing
    BY <1>1, <1>6 DEF AuditShape
  <2>2. GoneIsGone'
    <3> SUFFICES ASSUME NEW a \in verifier.missing PROVE a.id > i
      BY <1>1, <1>4, <2>1 DEF GoneIsGone
    <3>1. a \in verifier.due /\ a.id # i /\ a.id \in Ids
      BY <1>1, <1>3 DEF GoneIsGone, AuditShape, Anchors
    <3>2. ~(a.id < i)
      BY <1>6, <3>1 DEF RowBreaks
    <3> QED BY <1>3, <3>1, <3>2 DEF Ids
  <2>3. verifier' \in [at : {"rest", "top", "scan", "valid", "broken"}, due : SUBSET Anchors,
                       top : 0..MaxSeals, last : 0..MaxSeals, hash : Seq(Ids), position : Nat,
                       missing : SUBSET Anchors]
    <3>1. /\ log[i].hash \in Seq(Ids) /\ verifier.position + 1 \in Nat /\ i \in 0..MaxSeals
          /\ {a \in verifier.due : a.id > i} \in SUBSET Anchors
      BY <1>3 DEF Entries, AuditShape, Ids
    <3> QED BY <1>1, <1>6, <3>1 DEF AuditShape
  <2>4. ASSUME ChainIsWhole PROVE ChainIsWhole'
    <3>1. Cardinality(UpTo(i)) = verifier.position + 1
      BY <1>1, <1>2, <2>4, NextRowMeets
    <3>2. UpTo(i)' = UpTo(i)
      BY <1>4 DEF UpTo
    <3>3. \A a \in anchors : AnchorHolds(a)'
      BY <1>1, <1>4, <2>4 DEF ChainIsWhole, AnchorHolds, UpTo
    <3>4. \A j \in Written' : Linked(j)'
      BY <1>1, <1>4, <2>4 DEF ChainIsWhole, Linked
    <3>5. verifier'.position = Cardinality(UpTo(verifier.last))'
      BY <2>1, <3>1, <1>4 DEF UpTo
    <3>6. \A a \in verifier'.due : i < a.id /\ a.id <= verifier.top
      BY <1>1, <1>3, <2>1, <2>4 DEF ChainIsWhole, AuditShape, Anchors, Ids
    <3> QED BY <1>1, <1>3, <1>4, <2>1, <2>4, <3>3, <3>4, <3>5, <3>6 DEF ChainIsWhole, Verifying
  <2> QED BY <1>1, <2>2, <2>3, <2>4, VerifierOnly
<1> QED BY <1>5, <1>6

LEMMA AuditStarts == AuditInit => AuditInv
<1> USE SealsAreNat
<1> SUFFICES ASSUME AuditInit PROVE AuditInv
  OBVIOUS
<1>1. Written = {} /\ Seen = {} /\ \A i \in Ids : log[i] = NoEntry /\ ~Open(i)
  BY DEF AuditInit, Written, Seen, Open, NoEntry
<1>2. AuditShape
  BY NothingTyped DEF AuditInit, AuditShape, NoVerify
<1>3. LogIsSealed /\ HeadIsThere /\ GoneIsGone
  BY <1>1 DEF AuditInit, LogIsSealed, HeadIsThere, GoneIsGone, NoAnchoring, NoVerify, NoEntry
<1>4. ChainIsWhole
  BY <1>1 DEF AuditInit, ChainIsWhole, Verifying, NoVerify
<1> QED BY <1>2, <1>3, <1>4 DEF AuditInv

(* Every step of writers, purge, anchor and verification keeps the           *)
(* invariant.                                                                *)
LEMMA AuditStep == AuditInv /\ [AuditNext]_auditVars => AuditInv'
<1> SUFFICES ASSUME AuditInv, [AuditNext]_auditVars PROVE AuditInv'
  OBVIOUS
<1>1. ASSUME UNCHANGED auditVars PROVE AuditInv'
  <2>1. Seen' = Seen /\ Written' = Written
    BY <1>1 DEF auditVars, Seen, Written, Open
  <2>2. AuditShape' /\ LogIsSealed' /\ HeadIsThere' /\ GoneIsGone'
    BY <1>1, <2>1 DEF auditVars, AuditInv, AuditShape, LogIsSealed, HeadIsThere, GoneIsGone, Open
  <2>3. ChainIsWhole => ChainIsWhole'
    BY <1>1, <2>1 DEF auditVars, ChainIsWhole, Linked, AnchorHolds, UpTo, Verifying
  <2> QED BY <1>1, <2>2, <2>3 DEF AuditInv, auditVars
<1>2. ASSUME NEW w \in Writers, SealEntry(w) \/ CommitEntries(w) \/ RollBackEntries(w) PROVE AuditInv'
  BY <1>2, SealKeeps, CommitKeeps, RollBackKeeps
<1>3. ASSUME NEW i \in Ids, EntriesAge(i) PROVE AuditInv'
  BY <1>3, EntriesAgeKeep
<1>4. ASSUME \/ PurgeAddresses \/ AnchorHead \/ AnchorWrite \/ RemoveNewest
             \/ VerifyAnchors \/ VerifyTop \/ ScanRow \/ EndVerify
      PROVE  AuditInv'
  BY <1>4, PurgeKeeps, AnchorHeadKeeps, AnchorWriteKeeps, RemoveKeeps, VerifyAnchorsKeeps,
     VerifyTopKeeps, ScanKeeps, EndVerifyKeeps
<1> QED BY <1>1, <1>2, <1>3, <1>4 DEF AuditNext

(* So it always holds.                                                       *)
LEMMA AuditHolds == AuditSpec => []AuditInv
  BY AuditStarts, AuditStep, PTL DEF AuditSpec

(* Every step of a writer, of the purge, of the anchor and of a verification *)
(* keeps types.                                                              *)
THEOREM AuditTyped == AuditSpec => []AuditTypeOK
<1>1. AuditInv => AuditTypeOK
  <2> SUFFICES ASSUME AuditInv PROVE AuditTypeOK
    OBVIOUS
  <2>1. \A i \in Ids : log[i] \in Entries
    BY DEF AuditInv, AuditShape
  <2>2. \A a \in anchors : a \in Anchors
    BY DEF AuditInv, AuditShape
  <2> QED BY <2>1, <2>2 DEF AuditInv, AuditShape, AuditTypeOK, Entries, Anchors
<1> QED BY <1>1, AuditHolds, PTL

(* A verification beside writers, rollbacks, the purge and the anchor never  *)
(* speaks of tampering unless entries were deleted, and never passes over an *)
(* anchored entry that had been deleted before it began (verify_integrity,   *)
(* services/audit_service.py).                                               *)
THEOREM VerificationsAreRight == AuditSpec => []VerdictIsTrue
<1>1. AuditInv => VerdictIsTrue
  <2> SUFFICES ASSUME AuditInv PROVE VerdictIsTrue
    OBVIOUS
  <2>1. removed.times \in Nat
    BY SealsAreNat DEF AuditInv, AuditShape
  <2> QED BY <2>1 DEF AuditInv, ChainIsWhole, GoneIsGone, VerdictIsTrue
<1> QED BY <1>1, AuditHolds, PTL

-----------------------------------------------------------------------------
(* The spend of the translations.                                            *)

(* A sum of natural numbers, as the number of their units.                   *)
Units(f, S) == {u \in S \X Nat : u[2] \in 1..f[u[1]]}
Total(f, S) == Cardinality(Units(f, S))

(* What a request has in the counters of the day and of the month by its     *)
(* reservation, and what it added in Redis that the test then refused.       *)
DayHeld(a) == IF a.at \in {"month", "call", "refundDay", "refund"} THEN a.size ELSE 0
MonthHeld(a) == IF a.at \in {"call", "refundDay", "refundMonth", "refund"} THEN a.size ELSE 0
DayRefused(a) == IF a.at \in {"undoMonth", "undoDay"} THEN a.size ELSE 0
MonthRefused(a) == IF a.at = "undoMonth" THEN a.size ELSE 0

(* Each store has room under the limit.  The room, what is held and what was *)
(* billed are together no more than the limits of all stores and what was    *)
(* given back wrongly; and a store counts at least what it has no room for   *)
(* and what is still to be taken back from it.                               *)
Balances(room, cap, limit, paid, back, counted, held, refused) ==
  /\ room \in [Stores -> Nat] /\ held \in [Requests -> Nat] /\ refused \in [Requests -> Nat]
  /\ IsFiniteSet(Units(room, Stores)) /\ IsFiniteSet(Units(held, Requests))
  /\ IsFiniteSet(Units(refused, Requests))
  /\ Total(held, Requests) + Total(room, Stores) + paid <= cap + back
  /\ \A s \in Stores :
       limit - room[s] + (IF s = Redis THEN Total(refused, Requests) ELSE 0) <= counted[s]

DayBook(room) ==
  Balances(room, (1 + Cardinality(Hosts)) * Daily, Daily, billed, givenBack.day,
           [s \in Stores |-> count[s].day], [t \in Requests |-> DayHeld(ask[t])],
           [t \in Requests |-> DayRefused(ask[t])])
MonthBook(room) ==
  Balances(room, (1 + Cardinality(Hosts)) * Monthly, Monthly, billed, givenBack.month,
           [s \in Stores |-> count[s].month], [t \in Requests |-> MonthHeld(ask[t])],
           [t \in Requests |-> MonthRefused(ask[t])])

BudgetBond ==
  /\ \A t \in Requests : ask[t].at # "new" => ask[t].host \in Hosts /\ ask[t].size \in Sizes
  /\ \E room : DayBook(room)
  /\ \E room : MonthBook(room)

AskStates == [at : InRedis \cup {"new", "reserve", "call", "refund", "done"},
              host : Hosts \cup {NoHost}, size : Sizes \cup {0}]

(* A sum changes by what one term of it changes by.                          *)
LEMMA TotalMoves ==
  ASSUME NEW S, NEW f \in [S -> Nat], NEW g \in [S -> Nat], NEW x \in S,
         \A y \in S \ {x} : g[y] = f[y], IsFiniteSet(Units(f, S))
  PROVE  /\ IsFiniteSet(Units(g, S)) /\ Total(f, S) \in Nat /\ Total(g, S) \in Nat
         /\ Total(g, S) = (Total(f, S) - f[x]) + g[x]
<1> DEFINE Rest == {u \in Units(f, S) : u[1] # x}
           Pile(n) == {x} \X (1..n)
<1>1. Rest = {u \in Units(g, S) : u[1] # x}
  BY DEF Units
<1>2. \A n \in Nat : IsFiniteSet(Pile(n)) /\ Cardinality(Pile(n)) = n
  <2> TAKE n \in Nat
  <2>1. IsFiniteSet(1..n) /\ Cardinality(1..n) = n
    <3>1. Cardinality(1..n) = IF 1 > n THEN 0 ELSE n - 1 + 1
      BY FS_Interval, 1 \in Int, n \in Int
    <3> QED BY <3>1, FS_Interval, 1 \in Int, n \in Int
  <2>2. IsFiniteSet({x}) /\ Cardinality({x}) = 1
    BY FS_Singleton
  <2>3. Cardinality(Pile(n)) = 1 * n /\ IsFiniteSet(Pile(n))
    BY <2>1, <2>2, FS_Product
  <2> QED BY <2>3
<1>3. ASSUME NEW h \in [S -> Nat], Rest = {u \in Units(h, S) : u[1] # x}
      PROVE  Units(h, S) = Rest \cup Pile(h[x]) /\ Rest \cap Pile(h[x]) = {}
  BY <1>3 DEF Units
<1>4. IsFiniteSet(Rest)
  BY FS_Subset
<1>5. ASSUME NEW h \in [S -> Nat], Rest = {u \in Units(h, S) : u[1] # x}
      PROVE  /\ IsFiniteSet(Units(h, S)) /\ Total(h, S) \in Nat
             /\ Total(h, S) = Cardinality(Rest) + h[x]
  <2>1. h[x] \in Nat /\ IsFiniteSet(Pile(h[x])) /\ Cardinality(Pile(h[x])) = h[x]
    BY <1>2
  <2>2. Units(h, S) = Rest \cup Pile(h[x]) /\ Rest \cap Pile(h[x]) = {}
    BY <1>3, <1>5
  <2> HIDE DEF Rest, Pile
  <2>3. /\ IsFiniteSet(Rest \cup Pile(h[x]))
        /\ Cardinality(Rest \cup Pile(h[x])) = Cardinality(Rest) + Cardinality(Pile(h[x])) - Cardinality(Rest \cap Pile(h[x]))
    BY <1>4, <2>1, FS_Union
  <2>4. Cardinality(Rest) \in Nat /\ Cardinality(Rest \cap Pile(h[x])) = 0
    BY <1>4, <2>2, FS_CardinalityType, FS_EmptySet
  <2> QED BY <2>1, <2>2, <2>3, <2>4 DEF Total
<1>6. Rest = {u \in Units(f, S) : u[1] # x} /\ Cardinality(Rest) \in Nat
  BY <1>4, FS_CardinalityType
<1> HIDE DEF Rest
<1>7. f[x] \in Nat /\ g[x] \in Nat
  OBVIOUS
<1> QED BY <1>1, <1>5, <1>6, <1>7

(* What one request does with one store: it takes room before it holds or    *)
(* spends, and the store counts no less than that.                           *)
BookMoves(t, s, r, room, paid, back, counted, held, refused, paid2, back2, counted2, held2, refused2) ==
  /\ t \in Requests /\ s \in Stores /\ r \in Nat
  /\ paid \in Int /\ back \in Int /\ paid2 \in Int /\ back2 \in Int
  /\ counted \in [Stores -> Int] /\ counted2 \in [Stores -> Int]
  /\ held2 \in [Requests -> Nat] /\ refused2 \in [Requests -> Nat]
  /\ \A u \in Requests \ {t} : held2[u] = held[u] /\ refused2[u] = refused[u]
  /\ \A z \in Stores \ {s} : counted2[z] = counted[z]
  /\ held2[t] + r + paid2 + back <= held[t] + room[s] + paid + back2
  /\ refused2[t] = refused[t] \/ s = Redis
  /\ counted2[s] + r + (IF s = Redis THEN refused[t] ELSE 0) >=
       counted[s] + room[s] + (IF s = Redis THEN refused2[t] ELSE 0)

(* The accounts stay balanced when one request and one store change by       *)
(* amounts that balance.                                                     *)
LEMMA BooksMove ==
  ASSUME NEW room, NEW cap \in Int, NEW limit \in Nat, NEW paid, NEW back, NEW counted, NEW held, NEW refused,
         Balances(room, cap, limit, paid, back, counted, held, refused),
         NEW t, NEW s, NEW r, NEW paid2, NEW back2, NEW counted2, NEW held2, NEW refused2,
         BookMoves(t, s, r, room, paid, back, counted, held, refused, paid2, back2, counted2, held2, refused2)
  PROVE  Balances([room EXCEPT ![s] = r], cap, limit, paid2, back2, counted2, held2, refused2)
<1> USE DEF BookMoves
<1> DEFINE room2 == [room EXCEPT ![s] = r]
<1>0. /\ room \in [Stores -> Nat] /\ held \in [Requests -> Nat] /\ refused \in [Requests -> Nat]
      /\ IsFiniteSet(Units(room, Stores)) /\ IsFiniteSet(Units(held, Requests))
      /\ IsFiniteSet(Units(refused, Requests))
      /\ Total(held, Requests) + Total(room, Stores) + paid <= cap + back
      /\ \A z \in Stores :
           limit - room[z] + (IF z = Redis THEN Total(refused, Requests) ELSE 0) <= counted[z]
  BY DEF Balances
<1>1. room2 \in [Stores -> Nat] /\ room2[s] = r /\ \A z \in Stores \ {s} : room2[z] = room[z]
  BY <1>0
<1> HIDE DEF room2
<1>2. /\ IsFiniteSet(Units(room2, Stores)) /\ Total(room, Stores) \in Nat /\ Total(room2, Stores) \in Nat
      /\ Total(room2, Stores) = (Total(room, Stores) - room[s]) + room2[s]
  BY <1>0, <1>1, TotalMoves
<1>3. /\ IsFiniteSet(Units(held2, Requests)) /\ Total(held, Requests) \in Nat /\ Total(held2, Requests) \in Nat
      /\ Total(held2, Requests) = (Total(held, Requests) - held[t]) + held2[t]
  BY <1>0, TotalMoves
<1>4. /\ IsFiniteSet(Units(refused2, Requests)) /\ Total(refused, Requests) \in Nat
      /\ Total(refused2, Requests) \in Nat
      /\ Total(refused2, Requests) = (Total(refused, Requests) - refused[t]) + refused2[t]
  <2>1. \A u \in Requests \ {t} : refused2[u] = refused[u]
    OBVIOUS
  <2>2. refused \in [Requests -> Nat] /\ IsFiniteSet(Units(refused, Requests))
    BY <1>0
  <2> QED BY <2>1, <2>2, TotalMoves
<1>5. room[s] \in Nat /\ held[t] \in Nat /\ held2[t] \in Nat /\ refused[t] \in Nat /\ refused2[t] \in Nat
  BY <1>0
<1>6. Total(held2, Requests) + Total(room2, Stores) + paid2 <= cap + back2
  <2> HIDE DEF Total
  <2> QED BY <1>0, <1>1, <1>2, <1>3, <1>5
<1>7. ASSUME NEW z \in Stores
      PROVE  limit - room2[z] + (IF z = Redis THEN Total(refused2, Requests) ELSE 0) <= counted2[z]
  <2>1. /\ room[z] \in Nat /\ room2[z] \in Nat /\ counted[z] \in Int /\ counted2[z] \in Int
        /\ limit - room[z] + (IF z = Redis THEN Total(refused, Requests) ELSE 0) <= counted[z]
    BY <1>0, <1>1
  <2>2. CASE z = s
    BY <2>1, <2>2, <1>1, <1>4, <1>5
  <2>3. CASE z # s
    <3>1. counted2[z] = counted[z] /\ room2[z] = room[z]
      BY <2>3, <1>1
    <3>2. z = Redis => Total(refused2, Requests) = Total(refused, Requests)
      BY <2>3, <1>4, <1>5
    <3> QED BY <2>1, <3>1, <3>2
  <2> QED BY <2>2, <2>3
<1> QED BY <1>1, <1>2, <1>3, <1>4, <1>6, <1>7 DEF Balances, room2

(* The numbers are numbers.                                                  *)
LEMMA BudgetNumbers ==
  /\ Redis \in Stores /\ Sizes \cup {0} \subseteq Nat /\ Daily \in Nat /\ Monthly \in Nat
  /\ (1 + Cardinality(Hosts)) * Daily \in Nat /\ (1 + Cardinality(Hosts)) * Monthly \in Nat
<1>1. Cardinality(Hosts) \in Nat
  BY HostsAreNoRedis, FS_CardinalityType
<1>2. \A m, n \in Nat : m * n \in Nat
  OBVIOUS
<1>3. 1 + Cardinality(Hosts) \in Nat
  BY <1>1
<1> QED BY <1>2, <1>3, SizesArePositive DEF Stores

LEMMA AskHolds ==
  ASSUME NEW a \in AskStates
  PROVE  /\ DayHeld(a) \in Nat /\ MonthHeld(a) \in Nat /\ DayRefused(a) \in Nat /\ MonthRefused(a) \in Nat
         /\ a.size \in Nat
  BY BudgetNumbers DEF AskStates, DayHeld, MonthHeld, DayRefused, MonthRefused

(* A request that goes on, and what becomes of the day's books by it.        *)
LEMMA DayMoves ==
  ASSUME BudgetTypeOK, NEW t \in Requests, NEW now \in AskStates, ask' = [ask EXCEPT ![t] = now],
         NEW room, DayBook(room), NEW s \in Stores, NEW r \in Nat,
         count' \in [Stores -> [day : Int, month : Int]], billed' \in Int, givenBack'.day \in Int,
         \A z \in Stores \ {s} : count'[z].day = count[z].day,
         DayHeld(now) + r + billed' + givenBack.day <= DayHeld(ask[t]) + room[s] + billed + givenBack'.day,
         DayRefused(now) = DayRefused(ask[t]) \/ s = Redis,
         count'[s].day + r + (IF s = Redis THEN DayRefused(ask[t]) ELSE 0) >=
           count[s].day + room[s] + (IF s = Redis THEN DayRefused(now) ELSE 0)
  PROVE  (\E m : DayBook(m))'
<1> DEFINE cap == (1 + Cardinality(Hosts)) * Daily
           counted == [z \in Stores |-> count[z].day]
           held == [u \in Requests |-> DayHeld(ask[u])]
           refused == [u \in Requests |-> DayRefused(ask[u])]
           counted2 == [z \in Stores |-> count'[z].day]
           held2 == [u \in Requests |-> DayHeld(ask'[u])]
           refused2 == [u \in Requests |-> DayRefused(ask'[u])]
           room2 == [room EXCEPT ![s] = r]
<1>1. cap \in Int /\ Daily \in Nat /\ billed \in Int /\ givenBack.day \in Int
  BY BudgetNumbers DEF BudgetTypeOK
<1>2. \A u \in Requests : ask[u] \in AskStates /\ ask'[u] = IF u = t THEN now ELSE ask[u]
  BY DEF BudgetTypeOK, AskStates
<1>3. /\ counted \in [Stores -> Int] /\ counted2 \in [Stores -> Int]
      /\ held2 \in [Requests -> Nat] /\ refused2 \in [Requests -> Nat]
  BY <1>2, AskHolds DEF BudgetTypeOK
<1>4. /\ \A u \in Requests \ {t} : held2[u] = held[u] /\ refused2[u] = refused[u]
      /\ held2[t] = DayHeld(now) /\ held[t] = DayHeld(ask[t])
      /\ refused2[t] = DayRefused(now) /\ refused[t] = DayRefused(ask[t])
  BY <1>2
<1>5. /\ \A z \in Stores \ {s} : counted2[z] = counted[z]
      /\ counted2[s] = count'[s].day /\ counted[s] = count[s].day
  OBVIOUS
<1>6. Balances(room, cap, Daily, billed, givenBack.day, counted, held, refused)
  BY DEF DayBook
<1>7. Balances(room2, cap, Daily, billed', givenBack'.day, counted2, held2, refused2)
  <2>1. /\ held2[t] + r + billed' + givenBack.day <= held[t] + room[s] + billed + givenBack'.day
        /\ refused2[t] = refused[t] \/ s = Redis
        /\ counted2[s] + r + (IF s = Redis THEN refused[t] ELSE 0) >=
             counted[s] + room[s] + (IF s = Redis THEN refused2[t] ELSE 0)
    BY <1>4, <1>5
  <2> HIDE DEF cap, counted, held, refused, counted2, held2, refused2
  <2>2. \A u \in Requests \ {t} : held2[u] = held[u] /\ refused2[u] = refused[u]
    BY <1>4
  <2>3. \A z \in Stores \ {s} : counted2[z] = counted[z]
    BY <1>5
  <2>4. BookMoves(t, s, r, room, billed, givenBack.day, counted, held, refused,
              billed', givenBack'.day, counted2, held2, refused2)
    BY <1>1, <1>3, <2>1, <2>2, <2>3 DEF BookMoves
  <2> QED BY <1>1, <1>6, <2>4, BooksMove
<1>8. DayBook(room2)'
  BY <1>7 DEF DayBook
<1> QED BY <1>8

(* The same of the month.                                                    *)
LEMMA MonthMoves ==
  ASSUME BudgetTypeOK, NEW t \in Requests, NEW now \in AskStates, ask' = [ask EXCEPT ![t] = now],
         NEW room, MonthBook(room), NEW s \in Stores, NEW r \in Nat,
         count' \in [Stores -> [day : Int, month : Int]], billed' \in Int, givenBack'.month \in Int,
         \A z \in Stores \ {s} : count'[z].month = count[z].month,
         MonthHeld(now) + r + billed' + givenBack.month <=
           MonthHeld(ask[t]) + room[s] + billed + givenBack'.month,
         MonthRefused(now) = MonthRefused(ask[t]) \/ s = Redis,
         count'[s].month + r + (IF s = Redis THEN MonthRefused(ask[t]) ELSE 0) >=
           count[s].month + room[s] + (IF s = Redis THEN MonthRefused(now) ELSE 0)
  PROVE  (\E m : MonthBook(m))'
<1> DEFINE cap == (1 + Cardinality(Hosts)) * Monthly
           counted == [z \in Stores |-> count[z].month]
           held == [u \in Requests |-> MonthHeld(ask[u])]
           refused == [u \in Requests |-> MonthRefused(ask[u])]
           counted2 == [z \in Stores |-> count'[z].month]
           held2 == [u \in Requests |-> MonthHeld(ask'[u])]
           refused2 == [u \in Requests |-> MonthRefused(ask'[u])]
           room2 == [room EXCEPT ![s] = r]
<1>1. cap \in Int /\ Monthly \in Nat /\ billed \in Int /\ givenBack.month \in Int
  BY BudgetNumbers DEF BudgetTypeOK
<1>2. \A u \in Requests : ask[u] \in AskStates /\ ask'[u] = IF u = t THEN now ELSE ask[u]
  BY DEF BudgetTypeOK, AskStates
<1>3. /\ counted \in [Stores -> Int] /\ counted2 \in [Stores -> Int]
      /\ held2 \in [Requests -> Nat] /\ refused2 \in [Requests -> Nat]
  BY <1>2, AskHolds DEF BudgetTypeOK
<1>4. /\ \A u \in Requests \ {t} : held2[u] = held[u] /\ refused2[u] = refused[u]
      /\ held2[t] = MonthHeld(now) /\ held[t] = MonthHeld(ask[t])
      /\ refused2[t] = MonthRefused(now) /\ refused[t] = MonthRefused(ask[t])
  BY <1>2
<1>5. /\ \A z \in Stores \ {s} : counted2[z] = counted[z]
      /\ counted2[s] = count'[s].month /\ counted[s] = count[s].month
  OBVIOUS
<1>6. Balances(room, cap, Monthly, billed, givenBack.month, counted, held, refused)
  BY DEF MonthBook
<1>7. Balances(room2, cap, Monthly, billed', givenBack'.month, counted2, held2, refused2)
  <2>1. /\ held2[t] + r + billed' + givenBack.month <= held[t] + room[s] + billed + givenBack'.month
        /\ refused2[t] = refused[t] \/ s = Redis
        /\ counted2[s] + r + (IF s = Redis THEN refused[t] ELSE 0) >=
             counted[s] + room[s] + (IF s = Redis THEN refused2[t] ELSE 0)
    BY <1>4, <1>5
  <2> HIDE DEF cap, counted, held, refused, counted2, held2, refused2
  <2>2. \A u \in Requests \ {t} : held2[u] = held[u] /\ refused2[u] = refused[u]
    BY <1>4
  <2>3. \A z \in Stores \ {s} : counted2[z] = counted[z]
    BY <1>5
  <2>4. BookMoves(t, s, r, room, billed, givenBack.month, counted, held, refused,
              billed', givenBack'.month, counted2, held2, refused2)
    BY <1>1, <1>3, <2>1, <2>2, <2>3 DEF BookMoves
  <2> QED BY <1>1, <1>6, <2>4, BooksMove
<1>8. MonthBook(room2)'
  BY <1>7 DEF MonthBook
<1> QED BY <1>8

(* What room a store has when its count was under the limit.                 *)
LEMMA RoomLeft ==
  ASSUME NEW room, NEW cap, NEW limit \in Nat, NEW paid, NEW back, NEW counted \in [Stores -> Int],
         NEW held, NEW refused,
         Balances(room, cap, limit, paid, back, counted, held, refused), NEW s \in Stores
  PROVE  room[s] \in Nat /\ limit - room[s] <= counted[s]
<1>1. /\ room[s] \in Nat /\ counted[s] \in Int
      /\ limit - room[s] + (IF s = Redis THEN Total(refused, Requests) ELSE 0) <= counted[s]
  BY DEF Balances
<1>2. Total(refused, Requests) \in Nat
  BY FS_CardinalityType DEF Balances, Total
<1> QED BY <1>1, <1>2

(* A request goes on, with one store: whatever room the store has, there is  *)
(* some for it to have afterwards.                                           *)
LEMMA AskGoesOn ==
  ASSUME BudgetTypeOK, BudgetBond, NEW t \in Requests, NEW now \in AskStates,
         now.at # "new" => now.host \in Hosts /\ now.size \in Sizes,
         ask' = [ask EXCEPT ![t] = now],
         NEW s \in Stores, count' \in [Stores -> [day : Int, month : Int]],
         \A z \in Stores \ {s} : count'[z] = count[z],
         billed' \in Nat, givenBack' \in [day : Nat, month : Nat],
         away' \subseteq Hosts, troubles' \in 0..MaxTroubles,
         DayRefused(now) = DayRefused(ask[t]) \/ s = Redis,
         MonthRefused(now) = MonthRefused(ask[t]) \/ s = Redis,
         \A n \in Nat : Daily - n <= count[s].day => \E r \in Nat :
           /\ DayHeld(now) + r + billed' + givenBack.day <= DayHeld(ask[t]) + n + billed + givenBack'.day
           /\ count'[s].day + r + (IF s = Redis THEN DayRefused(ask[t]) ELSE 0) >=
                count[s].day + n + (IF s = Redis THEN DayRefused(now) ELSE 0),
         \A n \in Nat : Monthly - n <= count[s].month => \E r \in Nat :
           /\ MonthHeld(now) + r + billed' + givenBack.month <=
                MonthHeld(ask[t]) + n + billed + givenBack'.month
           /\ count'[s].month + r + (IF s = Redis THEN MonthRefused(ask[t]) ELSE 0) >=
                count[s].month + n + (IF s = Redis THEN MonthRefused(now) ELSE 0)
  PROVE  BudgetTypeOK' /\ BudgetBond'
<1>1. BudgetTypeOK'
  BY DEF BudgetTypeOK, AskStates
<1>2. \A u \in Requests : ask'[u].at # "new" => ask'[u].host \in Hosts /\ ask'[u].size \in Sizes
  <2>1. \A u \in Requests : ask'[u] = IF u = t THEN now ELSE ask[u]
    BY DEF BudgetTypeOK
  <2> QED BY <2>1 DEF BudgetBond
<1>3. (\E m : DayBook(m))'
  <2>1. PICK room : DayBook(room)
    BY DEF BudgetBond
  <2>2. [z \in Stores |-> count[z].day] \in [Stores -> Int]
    BY DEF BudgetTypeOK
  <2>3. room[s] \in Nat /\ Daily - room[s] <= count[s].day
    <3> DEFINE counted == [z \in Stores |-> count[z].day]
               held == [u \in Requests |-> DayHeld(ask[u])]
               refused == [u \in Requests |-> DayRefused(ask[u])]
               cap == (1 + Cardinality(Hosts)) * Daily
    <3>1. Balances(room, cap, Daily, billed, givenBack.day, counted, held, refused)
      BY <2>1 DEF DayBook
    <3>2. counted \in [Stores -> Int] /\ counted[s] = count[s].day
      BY <2>2
    <3> HIDE DEF counted, held, refused, cap
    <3>3. room[s] \in Nat /\ Daily - room[s] <= counted[s]
      BY <3>1, <3>2, RoomLeft, BudgetNumbers
    <3> QED BY <3>2, <3>3
  <2>4. PICK r \in Nat :
          /\ DayHeld(now) + r + billed' + givenBack.day <= DayHeld(ask[t]) + room[s] + billed + givenBack'.day
          /\ count'[s].day + r + (IF s = Redis THEN DayRefused(ask[t]) ELSE 0) >=
               count[s].day + room[s] + (IF s = Redis THEN DayRefused(now) ELSE 0)
    BY <2>3
  <2>5. billed' \in Int /\ givenBack'.day \in Int /\ \A z \in Stores \ {s} : count'[z].day = count[z].day
    OBVIOUS
  <2> QED BY <2>1, <2>4, <2>5, DayMoves
<1>4. (\E m : MonthBook(m))'
  <2>1. PICK room : MonthBook(room)
    BY DEF BudgetBond
  <2>2. [z \in Stores |-> count[z].month] \in [Stores -> Int]
    BY DEF BudgetTypeOK
  <2>3. room[s] \in Nat /\ Monthly - room[s] <= count[s].month
    <3> DEFINE counted == [z \in Stores |-> count[z].month]
               held == [u \in Requests |-> MonthHeld(ask[u])]
               refused == [u \in Requests |-> MonthRefused(ask[u])]
               cap == (1 + Cardinality(Hosts)) * Monthly
    <3>1. Balances(room, cap, Monthly, billed, givenBack.month, counted, held, refused)
      BY <2>1 DEF MonthBook
    <3>2. counted \in [Stores -> Int] /\ counted[s] = count[s].month
      BY <2>2
    <3> HIDE DEF counted, held, refused, cap
    <3>3. room[s] \in Nat /\ Monthly - room[s] <= counted[s]
      BY <3>1, <3>2, RoomLeft, BudgetNumbers
    <3> QED BY <3>2, <3>3
  <2>4. PICK r \in Nat :
          /\ MonthHeld(now) + r + billed' + givenBack.month <=
               MonthHeld(ask[t]) + room[s] + billed + givenBack'.month
          /\ count'[s].month + r + (IF s = Redis THEN MonthRefused(ask[t]) ELSE 0) >=
               count[s].month + room[s] + (IF s = Redis THEN MonthRefused(now) ELSE 0)
    BY <2>3
  <2>5. billed' \in Int /\ givenBack'.month \in Int /\ \A z \in Stores \ {s} : count'[z].month = count[z].month
    OBVIOUS
  <2> QED BY <2>1, <2>4, <2>5, MonthMoves
<1> QED BY <1>1, <1>2, <1>3, <1>4 DEF BudgetBond

(* A request's record after a step, and what it holds then.                  *)
LEMMA AskTurns ==
  ASSUME BudgetTypeOK, BudgetBond, NEW t \in Requests, NEW at \in InRedis \cup {"new", "reserve", "call", "refund", "done"}
  PROVE  /\ [ask[t] EXCEPT !.at = at] \in AskStates /\ ask[t] \in AskStates
         /\ [ask EXCEPT ![t].at = at] = [ask EXCEPT ![t] = [ask[t] EXCEPT !.at = at]]
         /\ ask[t].at # "new" => ask[t].host \in Hosts /\ ask[t].host \in Stores /\ ask[t].size \in Sizes
         /\ ask[t].size \in Nat
         /\ [ask[t] EXCEPT !.at = at].at = at /\ [ask[t] EXCEPT !.at = at].size = ask[t].size
         /\ [ask[t] EXCEPT !.at = at].host = ask[t].host
  BY BudgetNumbers DEF BudgetTypeOK, BudgetBond, AskStates, Stores

(* The step of a request at a store s: what is added to its counters, what    *)
(* is billed and given back, and by how much the room it has changes.        *)
Turns(t, at, s, day, month, paid, backDay, backMonth, roomDay, roomMonth) ==
  LET now == [ask[t] EXCEPT !.at = at]
  IN  /\ ask[t].at # "new" /\ s \in Stores
      /\ ask' = [ask EXCEPT ![t].at = at]
      /\ count' \in [Stores -> [day : Int, month : Int]] /\ \A z \in Stores \ {s} : count'[z] = count[z]
      /\ count'[s].day = count[s].day + day /\ count'[s].month = count[s].month + month
      /\ billed' = billed + paid /\ givenBack' \in [day : Nat, month : Nat]
      /\ givenBack'.day = givenBack.day + backDay /\ givenBack'.month = givenBack.month + backMonth
      /\ away' \subseteq Hosts /\ troubles' \in 0..MaxTroubles
      /\ DayRefused(now) = DayRefused(ask[t]) \/ s = Redis
      /\ MonthRefused(now) = MonthRefused(ask[t]) \/ s = Redis
      /\ roomDay >= 0 \/ count[s].day - roomDay <= Daily
      /\ DayHeld(now) + roomDay + paid <= DayHeld(ask[t]) + backDay
      /\ day + roomDay + (IF s = Redis THEN DayRefused(ask[t]) ELSE 0) >=
           (IF s = Redis THEN DayRefused(now) ELSE 0)
      /\ roomMonth >= 0 \/ count[s].month - roomMonth <= Monthly
      /\ MonthHeld(now) + roomMonth + paid <= MonthHeld(ask[t]) + backMonth
      /\ month + roomMonth + (IF s = Redis THEN MonthRefused(ask[t]) ELSE 0) >=
           (IF s = Redis THEN MonthRefused(now) ELSE 0)

(* A step of a request that goes from one place to the next, billed and      *)
(* given back as said, keeps the books if it takes no more than it gives.    *)
LEMMA TurnKeeps ==
  ASSUME BudgetTypeOK, BudgetBond, NEW t \in Requests, NEW at \in InRedis \cup {"reserve", "call", "refund", "done"},
         NEW s, NEW day \in Int, NEW month \in Int, NEW paid \in Nat, NEW backDay \in Nat, NEW backMonth \in Nat,
         NEW roomDay \in Int, NEW roomMonth \in Int,
         Turns(t, at, s, day, month, paid, backDay, backMonth, roomDay, roomMonth)
  PROVE  BudgetTypeOK' /\ BudgetBond'
<1> USE DEF Turns
<1> DEFINE now == [ask[t] EXCEPT !.at = at]
<1>1. /\ now \in AskStates /\ ask' = [ask EXCEPT ![t] = now] /\ ask[t] \in AskStates
      /\ now.host \in Hosts /\ now.size \in Sizes
  BY AskTurns
<1>2. /\ s \in Stores /\ count[s].day \in Int /\ count[s].month \in Int /\ Daily \in Nat /\ Monthly \in Nat
      /\ billed \in Nat /\ givenBack.day \in Nat /\ givenBack.month \in Nat /\ billed' \in Nat
  BY BudgetNumbers DEF BudgetTypeOK
<1>3. /\ DayHeld(now) \in Nat /\ DayHeld(ask[t]) \in Nat /\ DayRefused(now) \in Nat /\ DayRefused(ask[t]) \in Nat
      /\ MonthHeld(now) \in Nat /\ MonthHeld(ask[t]) \in Nat /\ MonthRefused(now) \in Nat
      /\ MonthRefused(ask[t]) \in Nat
  BY <1>1, AskHolds
<1>4. /\ DayHeld(now) + roomDay + paid <= DayHeld(ask[t]) + backDay
      /\ day + roomDay + (IF s = Redis THEN DayRefused(ask[t]) ELSE 0) >= (IF s = Redis THEN DayRefused(now) ELSE 0)
      /\ MonthHeld(now) + roomMonth + paid <= MonthHeld(ask[t]) + backMonth
      /\ month + roomMonth + (IF s = Redis THEN MonthRefused(ask[t]) ELSE 0) >=
           (IF s = Redis THEN MonthRefused(now) ELSE 0)
      /\ DayRefused(now) = DayRefused(ask[t]) \/ s = Redis
      /\ MonthRefused(now) = MonthRefused(ask[t]) \/ s = Redis
  OBVIOUS
<1> HIDE DEF now
<1>5. ASSUME NEW n \in Nat, Daily - n <= count[s].day
      PROVE  \E r \in Nat :
        /\ DayHeld(now) + r + billed' + givenBack.day <= DayHeld(ask[t]) + n + billed + givenBack'.day
        /\ count'[s].day + r + (IF s = Redis THEN DayRefused(ask[t]) ELSE 0) >=
             count[s].day + n + (IF s = Redis THEN DayRefused(now) ELSE 0)
  <2>1. n + roomDay \in Nat
    BY <1>2, <1>5
  <2> WITNESS n + roomDay \in Nat
  <2> QED BY <1>2, <1>3, <1>4
<1>6. ASSUME NEW n \in Nat, Monthly - n <= count[s].month
      PROVE  \E r \in Nat :
        /\ MonthHeld(now) + r + billed' + givenBack.month <= MonthHeld(ask[t]) + n + billed + givenBack'.month
        /\ count'[s].month + r + (IF s = Redis THEN MonthRefused(ask[t]) ELSE 0) >=
             count[s].month + n + (IF s = Redis THEN MonthRefused(now) ELSE 0)
  <2>1. n + roomMonth \in Nat
    BY <1>2, <1>6
  <2> WITNESS n + roomMonth \in Nat
  <2> QED BY <1>2, <1>3, <1>4
<1> QED BY <1>1, <1>2, <1>4, <1>5, <1>6, AskGoesOn

(* A request that begins holds nothing.                                      *)
LEMMA StartKeeps ==
  ASSUME BudgetTypeOK, BudgetBond, NEW t \in Requests, NEW h \in Hosts, NEW chars \in Sizes, StartAsk(t, h, chars)
  PROVE  BudgetTypeOK' /\ BudgetBond'
<1> DEFINE now == [at |-> IF h \in away THEN "reserve" ELSE "day", host |-> h, size |-> chars]
<1>1. /\ AskAt(t, "new") /\ ask' = [ask EXCEPT ![t] = now]
      /\ UNCHANGED <<count, away, billed, troubles, givenBack>>
  BY DEF StartAsk
<1>2. now \in AskStates /\ now.host \in Hosts /\ now.size \in Sizes /\ now.at \in {"reserve", "day"}
  BY DEF AskStates, InRedis
<1> HIDE DEF now
<1>3. /\ DayHeld(now) = 0 /\ MonthHeld(now) = 0 /\ DayRefused(now) = 0 /\ MonthRefused(now) = 0
      /\ DayHeld(ask[t]) = 0 /\ MonthHeld(ask[t]) = 0 /\ DayRefused(ask[t]) = 0 /\ MonthRefused(ask[t]) = 0
  BY <1>1, <1>2 DEF DayHeld, MonthHeld, DayRefused, MonthRefused, AskAt
<1>4. /\ count[Redis].day \in Int /\ count[Redis].month \in Int /\ billed \in Nat
      /\ givenBack.day \in Nat /\ givenBack.month \in Nat /\ Redis \in Stores
  BY BudgetNumbers DEF BudgetTypeOK
<1>5. \A n \in Nat : \E r \in Nat :
        /\ DayHeld(now) + r + billed' + givenBack.day <= DayHeld(ask[t]) + n + billed + givenBack'.day
        /\ count'[Redis].day + r + DayRefused(ask[t]) >= count[Redis].day + n + DayRefused(now)
  <2> TAKE n \in Nat
  <2> WITNESS n \in Nat
  <2> QED BY <1>1, <1>3, <1>4
<1>6. \A n \in Nat : \E r \in Nat :
        /\ MonthHeld(now) + r + billed' + givenBack.month <= MonthHeld(ask[t]) + n + billed + givenBack'.month
        /\ count'[Redis].month + r + MonthRefused(ask[t]) >= count[Redis].month + n + MonthRefused(now)
  <2> TAKE n \in Nat
  <2> WITNESS n \in Nat
  <2> QED BY <1>1, <1>3, <1>4
<1>7. /\ count' \in [Stores -> [day : Int, month : Int]] /\ billed' \in Nat
      /\ givenBack' \in [day : Nat, month : Nat] /\ away' \subseteq Hosts /\ troubles' \in 0..MaxTroubles
  BY <1>1 DEF BudgetTypeOK
<1> QED BY <1>1, <1>2, <1>3, <1>4, <1>5, <1>6, <1>7, AskGoesOn

AskKnown(t) ==
  /\ ask[t].size \in Nat /\ ask[t].host \in Hosts /\ ask[t].host \in Stores /\ ask[t].host # Redis
  /\ billed \in Nat /\ givenBack.day \in Nat /\ givenBack.month \in Nat
  /\ Redis \in Stores /\ \A s \in Stores : count[s].day \in Int /\ count[s].month \in Int

(* What is known of a request under way.                                     *)
LEMMA AskIsKnown ==
  ASSUME BudgetTypeOK, BudgetBond, NEW t \in Requests, ask[t].at # "new" PROVE AskKnown(t)
  BY BudgetNumbers, AskTurns, HostsAreNoRedis DEF AskKnown, BudgetTypeOK, BudgetBond, Stores

(* What it holds after the step, by where it is then.                        *)
HeldIs(t, at, dayHeld, monthHeld, dayRefused, monthRefused) ==
  LET now == [ask[t] EXCEPT !.at = at]
  IN  /\ DayHeld(now) = dayHeld /\ MonthHeld(now) = monthHeld
      /\ DayRefused(now) = dayRefused /\ MonthRefused(now) = monthRefused

LEMMA HeldAfter ==
  ASSUME BudgetTypeOK, BudgetBond, NEW t \in Requests,
         NEW at \in InRedis \cup {"reserve", "call", "refund", "done"}
  PROVE  HeldIs(t, at, IF at \in {"month", "call", "refundDay", "refund"} THEN ask[t].size ELSE 0,
                IF at \in {"call", "refundDay", "refundMonth", "refund"} THEN ask[t].size ELSE 0,
                IF at \in {"undoMonth", "undoDay"} THEN ask[t].size ELSE 0,
                IF at = "undoMonth" THEN ask[t].size ELSE 0)
  BY AskTurns DEF HeldIs, DayHeld, MonthHeld, DayRefused, MonthRefused

(* Each command of a reservation, of its way back and of a refund, one by    *)
(* one.                                                                      *)
LEMMA AddDayKeeps ==
  ASSUME BudgetTypeOK, BudgetBond, NEW t \in Requests, AddDay(t) PROVE BudgetTypeOK' /\ BudgetBond'
<1> DEFINE size == ask[t].size
<1>1. /\ ask[t].at = "day" /\ count' = [count EXCEPT ![Redis].day = count[Redis].day + size]
      /\ UNCHANGED <<away, billed, troubles, givenBack>> /\ AskKnown(t)
  BY AskIsKnown DEF AddDay, AskAt, Size
<1>2. /\ count' \in [Stores -> [day : Int, month : Int]] /\ \A z \in Stores \ {Redis} : count'[z] = count[z]
      /\ count'[Redis].day = count[Redis].day + size /\ count'[Redis].month = count[Redis].month
  BY <1>1 DEF BudgetTypeOK, AskKnown
<1>3. /\ DayHeld(ask[t]) = 0 /\ MonthHeld(ask[t]) = 0
      /\ DayRefused(ask[t]) = 0 /\ MonthRefused(ask[t]) = 0
  BY <1>1 DEF DayHeld, MonthHeld, DayRefused, MonthRefused
<1>4. CASE count'[Redis].day > Daily
  <2>1. ask' = [ask EXCEPT ![t].at = "undoDay"]
    BY <1>4 DEF AddDay, PastBudget, Asks
  <2>2. HeldIs(t, "undoDay", 0, 0, size, 0)
    BY HeldAfter DEF InRedis
  <2>3. Turns(t, "undoDay", Redis, size, 0, 0, 0, 0, 0, 0)
    BY <1>1, <1>2, <1>3, <2>1, <2>2 DEF Turns, BudgetTypeOK, AskKnown, HeldIs
  <2> QED BY <1>1, <2>3, TurnKeeps DEF AskKnown, InRedis
<1>5. CASE ~(count'[Redis].day > Daily)
  <2>1. ask' = [ask EXCEPT ![t].at = "month"]
    BY <1>5 DEF AddDay, PastBudget, Asks
  <2>2. HeldIs(t, "month", size, 0, 0, 0)
    BY HeldAfter DEF InRedis
  <2>3. Turns(t, "month", Redis, size, 0, 0, 0, 0, 0 - size, 0)
    BY <1>1, <1>2, <1>3, <1>5, BudgetNumbers, <2>1, <2>2 DEF Turns, BudgetTypeOK, AskKnown, HeldIs
  <2> QED BY <1>1, <2>3, TurnKeeps DEF AskKnown, InRedis
<1> QED BY <1>4, <1>5

LEMMA AddMonthKeeps ==
  ASSUME BudgetTypeOK, BudgetBond, NEW t \in Requests, AddMonth(t) PROVE BudgetTypeOK' /\ BudgetBond'
<1> DEFINE size == ask[t].size
<1>1. /\ ask[t].at = "month" /\ count' = [count EXCEPT ![Redis].month = count[Redis].month + size]
      /\ UNCHANGED <<away, billed, troubles, givenBack>> /\ AskKnown(t)
  BY AskIsKnown DEF AddMonth, AskAt, Size
<1>2. /\ count' \in [Stores -> [day : Int, month : Int]] /\ \A z \in Stores \ {Redis} : count'[z] = count[z]
      /\ count'[Redis].month = count[Redis].month + size /\ count'[Redis].day = count[Redis].day
  BY <1>1 DEF BudgetTypeOK, AskKnown
<1>3. /\ DayHeld(ask[t]) = size /\ MonthHeld(ask[t]) = 0
      /\ DayRefused(ask[t]) = 0 /\ MonthRefused(ask[t]) = 0
  BY <1>1 DEF DayHeld, MonthHeld, DayRefused, MonthRefused
<1>4. CASE count'[Redis].month > Monthly
  <2>1. ask' = [ask EXCEPT ![t].at = "undoMonth"]
    BY <1>4 DEF AddMonth, PastBudget, Asks
  <2>2. HeldIs(t, "undoMonth", 0, 0, size, size)
    BY HeldAfter DEF InRedis
  <2>3. Turns(t, "undoMonth", Redis, 0, size, 0, 0, 0, size, 0)
    BY <1>1, <1>2, <1>3, <2>1, <2>2 DEF Turns, BudgetTypeOK, AskKnown, HeldIs
  <2> QED BY <1>1, <2>3, TurnKeeps DEF AskKnown, InRedis
<1>5. CASE ~(count'[Redis].month > Monthly)
  <2>1. ask' = [ask EXCEPT ![t].at = "call"]
    BY <1>5 DEF AddMonth, PastBudget, Asks
  <2>2. HeldIs(t, "call", size, size, 0, 0)
    BY HeldAfter DEF InRedis
  <2>3. Turns(t, "call", Redis, 0, size, 0, 0, 0, 0, 0 - size)
    BY <1>1, <1>2, <1>3, <1>5, BudgetNumbers, <2>1, <2>2 DEF Turns, BudgetTypeOK, AskKnown, HeldIs
  <2> QED BY <1>1, <2>3, TurnKeeps DEF AskKnown, InRedis
<1> QED BY <1>4, <1>5

LEMMA UndoMonthKeeps ==
  ASSUME BudgetTypeOK, BudgetBond, NEW t \in Requests, UndoMonth(t) PROVE BudgetTypeOK' /\ BudgetBond'
<1> DEFINE size == ask[t].size
<1>1. /\ ask[t].at = "undoMonth" /\ count' = [count EXCEPT ![Redis].month = count[Redis].month - size]
      /\ UNCHANGED <<away, billed, troubles, givenBack>> /\ AskKnown(t)
  BY AskIsKnown DEF UndoMonth, AskAt, Size
<1>2. /\ count' \in [Stores -> [day : Int, month : Int]] /\ \A z \in Stores \ {Redis} : count'[z] = count[z]
      /\ count'[Redis].month = count[Redis].month - size /\ count'[Redis].day = count[Redis].day
  BY <1>1 DEF BudgetTypeOK, AskKnown
<1>3. /\ DayHeld(ask[t]) = 0 /\ MonthHeld(ask[t]) = 0
      /\ DayRefused(ask[t]) = size /\ MonthRefused(ask[t]) = size
  BY <1>1 DEF DayHeld, MonthHeld, DayRefused, MonthRefused
<1>4. ask' = [ask EXCEPT ![t].at = "undoDay"]
  BY DEF UndoMonth, Asks
<1>5. HeldIs(t, "undoDay", 0, 0, size, 0)
  BY HeldAfter DEF InRedis
<1>6. Turns(t, "undoDay", Redis, 0, 0 - size, 0, 0, 0, 0, 0)
  BY <1>1, <1>2, <1>3, <1>4, <1>5 DEF Turns, BudgetTypeOK, AskKnown, HeldIs
<1> QED BY <1>1, <1>6, TurnKeeps DEF AskKnown, InRedis

LEMMA UndoDayKeeps ==
  ASSUME BudgetTypeOK, BudgetBond, NEW t \in Requests, UndoDay(t) PROVE BudgetTypeOK' /\ BudgetBond'
<1> DEFINE size == ask[t].size
<1>1. /\ ask[t].at = "undoDay" /\ count' = [count EXCEPT ![Redis].day = count[Redis].day - size]
      /\ UNCHANGED <<away, billed, troubles, givenBack>> /\ AskKnown(t)
  BY AskIsKnown DEF UndoDay, AskAt, Size
<1>2. /\ count' \in [Stores -> [day : Int, month : Int]] /\ \A z \in Stores \ {Redis} : count'[z] = count[z]
      /\ count'[Redis].day = count[Redis].day - size /\ count'[Redis].month = count[Redis].month
  BY <1>1 DEF BudgetTypeOK, AskKnown
<1>3. /\ DayHeld(ask[t]) = 0 /\ MonthHeld(ask[t]) = 0
      /\ DayRefused(ask[t]) = size /\ MonthRefused(ask[t]) = 0
  BY <1>1 DEF DayHeld, MonthHeld, DayRefused, MonthRefused
<1>4. ask' = [ask EXCEPT ![t].at = "refuse"]
  BY DEF UndoDay, Asks
<1>5. HeldIs(t, "refuse", 0, 0, 0, 0)
  BY HeldAfter DEF InRedis
<1>6. Turns(t, "refuse", Redis, 0 - size, 0, 0, 0, 0, 0, 0)
  BY <1>1, <1>2, <1>3, <1>4, <1>5 DEF Turns, BudgetTypeOK, AskKnown, HeldIs
<1> QED BY <1>1, <1>6, TurnKeeps DEF AskKnown, InRedis

LEMMA RefundDayKeeps ==
  ASSUME BudgetTypeOK, BudgetBond, NEW t \in Requests, RefundDay(t) PROVE BudgetTypeOK' /\ BudgetBond'
<1> DEFINE size == ask[t].size
<1>1. /\ ask[t].at = "refundDay" /\ count' = [count EXCEPT ![Redis].day = count[Redis].day - size]
      /\ UNCHANGED <<away, billed, troubles, givenBack>> /\ AskKnown(t)
  BY AskIsKnown DEF RefundDay, AskAt, Size
<1>2. /\ count' \in [Stores -> [day : Int, month : Int]] /\ \A z \in Stores \ {Redis} : count'[z] = count[z]
      /\ count'[Redis].day = count[Redis].day - size /\ count'[Redis].month = count[Redis].month
  BY <1>1 DEF BudgetTypeOK, AskKnown
<1>3. /\ DayHeld(ask[t]) = size /\ MonthHeld(ask[t]) = size
      /\ DayRefused(ask[t]) = 0 /\ MonthRefused(ask[t]) = 0
  BY <1>1 DEF DayHeld, MonthHeld, DayRefused, MonthRefused
<1>4. ask' = [ask EXCEPT ![t].at = "refundMonth"]
  BY DEF RefundDay, Asks
<1>5. HeldIs(t, "refundMonth", 0, size, 0, 0)
  BY HeldAfter DEF InRedis
<1>6. Turns(t, "refundMonth", Redis, 0 - size, 0, 0, 0, 0, size, 0)
  BY <1>1, <1>2, <1>3, <1>4, <1>5 DEF Turns, BudgetTypeOK, AskKnown, HeldIs
<1> QED BY <1>1, <1>6, TurnKeeps DEF AskKnown, InRedis

LEMMA RefundMonthKeeps ==
  ASSUME BudgetTypeOK, BudgetBond, NEW t \in Requests, RefundMonth(t) PROVE BudgetTypeOK' /\ BudgetBond'
<1> DEFINE size == ask[t].size
<1>1. /\ ask[t].at = "refundMonth" /\ count' = [count EXCEPT ![Redis].month = count[Redis].month - size]
      /\ UNCHANGED <<away, billed, troubles, givenBack>> /\ AskKnown(t)
  BY AskIsKnown DEF RefundMonth, AskAt, Size
<1>2. /\ count' \in [Stores -> [day : Int, month : Int]] /\ \A z \in Stores \ {Redis} : count'[z] = count[z]
      /\ count'[Redis].month = count[Redis].month - size /\ count'[Redis].day = count[Redis].day
  BY <1>1 DEF BudgetTypeOK, AskKnown
<1>3. /\ DayHeld(ask[t]) = 0 /\ MonthHeld(ask[t]) = size
      /\ DayRefused(ask[t]) = 0 /\ MonthRefused(ask[t]) = 0
  BY <1>1 DEF DayHeld, MonthHeld, DayRefused, MonthRefused
<1>4. ask' = [ask EXCEPT ![t].at = "done"]
  BY DEF RefundMonth, Asks
<1>5. HeldIs(t, "done", 0, 0, 0, 0)
  BY HeldAfter DEF InRedis
<1>6. Turns(t, "done", Redis, 0, 0 - size, 0, 0, 0, 0, size)
  BY <1>1, <1>2, <1>3, <1>4, <1>5 DEF Turns, BudgetTypeOK, AskKnown, HeldIs
<1> QED BY <1>1, <1>6, TurnKeeps DEF AskKnown, InRedis

LEMMA RefuseKeeps ==
  ASSUME BudgetTypeOK, BudgetBond, NEW t \in Requests, RefuseAsk(t) PROVE BudgetTypeOK' /\ BudgetBond'
<1> DEFINE size == ask[t].size
<1>1. /\ ask[t].at = "refuse" /\ UNCHANGED count
      /\ UNCHANGED <<away, billed, troubles, givenBack>> /\ AskKnown(t)
  BY AskIsKnown DEF RefuseAsk, AskAt, Size
<1>3. /\ DayHeld(ask[t]) = 0 /\ MonthHeld(ask[t]) = 0
      /\ DayRefused(ask[t]) = 0 /\ MonthRefused(ask[t]) = 0
  BY <1>1 DEF DayHeld, MonthHeld, DayRefused, MonthRefused
<1>4. ask' = [ask EXCEPT ![t].at = "done"]
  BY DEF RefuseAsk, Asks
<1>5. HeldIs(t, "done", 0, 0, 0, 0)
  BY HeldAfter DEF InRedis
<1>6. Turns(t, "done", Redis, 0, 0, 0, 0, 0, 0, 0)
  BY <1>1, <1>3, <1>4, <1>5 DEF Turns, BudgetTypeOK, AskKnown, HeldIs
<1> QED BY <1>1, <1>6, TurnKeeps DEF AskKnown, InRedis

LEMMA CancelKeeps ==
  ASSUME BudgetTypeOK, BudgetBond, NEW t \in Requests, AskCancelled(t) PROVE BudgetTypeOK' /\ BudgetBond'
<1> DEFINE size == ask[t].size
<1>1. /\ ask[t].at = "call" /\ UNCHANGED count
      /\ UNCHANGED <<away, billed, troubles, givenBack>> /\ AskKnown(t)
  BY AskIsKnown DEF AskCancelled, AskAt, Size
<1>3. /\ DayHeld(ask[t]) = size /\ MonthHeld(ask[t]) = size
      /\ DayRefused(ask[t]) = 0 /\ MonthRefused(ask[t]) = 0
  BY <1>1 DEF DayHeld, MonthHeld, DayRefused, MonthRefused
<1>4. ask' = [ask EXCEPT ![t].at = "done"]
  BY DEF AskCancelled, Asks
<1>5. HeldIs(t, "done", 0, 0, 0, 0)
  BY HeldAfter DEF InRedis
<1>6. Turns(t, "done", Redis, 0, 0, 0, 0, 0, 0, 0)
  BY <1>1, <1>3, <1>4, <1>5 DEF Turns, BudgetTypeOK, AskKnown, HeldIs
<1> QED BY <1>1, <1>6, TurnKeeps DEF AskKnown, InRedis

(* The fallback reserves in the memory of its process.                       *)
LEMMA ReserveKeeps ==
  ASSUME BudgetTypeOK, BudgetBond, NEW t \in Requests, ReserveInMemory(t) PROVE BudgetTypeOK' /\ BudgetBond'
<1> DEFINE size == ask[t].size
           h == ask[t].host
           fits == count[h].day + size <= Daily /\ count[h].month + size <= Monthly
<1>1. /\ ask[t].at = "reserve" /\ UNCHANGED <<away, billed, troubles, givenBack>> /\ AskKnown(t)
  BY AskIsKnown DEF ReserveInMemory, AskAt
<1>2. fits <=> ~PastBudget(count[h].day + size, size, Daily) /\ ~PastBudget(count[h].month + size, size, Monthly)
  BY <1>1, BudgetNumbers DEF PastBudget, AskKnown
<1>3. /\ DayHeld(ask[t]) = 0 /\ MonthHeld(ask[t]) = 0
      /\ DayRefused(ask[t]) = 0 /\ MonthRefused(ask[t]) = 0
  BY <1>1 DEF DayHeld, MonthHeld, DayRefused, MonthRefused
<1>4. CASE fits
  <2>1. /\ ask' = [ask EXCEPT ![t].at = "call"]
        /\ count' = [count EXCEPT ![h] = [day |-> count[h].day + size, month |-> count[h].month + size]]
    BY <1>2, <1>4 DEF ReserveInMemory, Asks, Size
  <2>2. /\ count' \in [Stores -> [day : Int, month : Int]] /\ \A z \in Stores \ {h} : count'[z] = count[z]
        /\ count'[h].day = count[h].day + size /\ count'[h].month = count[h].month + size
    BY <1>1, <2>1 DEF BudgetTypeOK, AskKnown
  <2>3. HeldIs(t, "call", size, size, 0, 0)
    BY HeldAfter DEF InRedis
  <2>4. Turns(t, "call", h, size, size, 0, 0, 0, 0 - size, 0 - size)
    BY <1>1, <1>3, <1>4, <2>1, <2>2, <2>3, BudgetNumbers DEF Turns, BudgetTypeOK, AskKnown, HeldIs
  <2> QED BY <1>1, <2>4, TurnKeeps DEF AskKnown, InRedis
<1>5. CASE ~fits
  <2>1. ask' = [ask EXCEPT ![t].at = "done"] /\ UNCHANGED count
    BY <1>2, <1>5 DEF ReserveInMemory, Asks, Size
  <2>2. HeldIs(t, "done", 0, 0, 0, 0)
    BY HeldAfter DEF InRedis
  <2>3. Turns(t, "done", h, 0, 0, 0, 0, 0, 0, 0)
    BY <1>1, <1>3, <2>1, <2>2 DEF Turns, BudgetTypeOK, AskKnown, HeldIs
  <2> QED BY <1>1, <2>3, TurnKeeps DEF AskKnown, InRedis
<1> QED BY <1>4, <1>5

(* The ends of a provider's call.                                            *)
LEMMA TranslatedKeeps ==
  ASSUME BudgetTypeOK, BudgetBond, NEW t \in Requests, Translated(t) PROVE BudgetTypeOK' /\ BudgetBond'
<1> DEFINE size == ask[t].size
<1>1. /\ ask[t].at = "call" /\ billed' = billed + size /\ ask' = [ask EXCEPT ![t].at = "done"]
      /\ UNCHANGED <<count, away, troubles, givenBack>> /\ AskKnown(t)
  BY AskIsKnown DEF Translated, AskAt, Asks, Size
<1>2. /\ DayHeld(ask[t]) = size /\ MonthHeld(ask[t]) = size
      /\ DayRefused(ask[t]) = 0 /\ MonthRefused(ask[t]) = 0
  BY <1>1 DEF DayHeld, MonthHeld, DayRefused, MonthRefused
<1>3. HeldIs(t, "done", 0, 0, 0, 0)
  BY HeldAfter DEF InRedis
<1>4. Turns(t, "done", Redis, 0, 0, size, 0, 0, 0, 0)
  BY <1>1, <1>2, <1>3 DEF Turns, BudgetTypeOK, AskKnown, HeldIs
<1> QED BY <1>1, <1>4, TurnKeeps DEF AskKnown, InRedis

LEMMA NotBilledKeeps ==
  ASSUME BudgetTypeOK, BudgetBond, NEW t \in Requests, NotBilled(t) PROVE BudgetTypeOK' /\ BudgetBond'
<1> DEFINE size == ask[t].size
<1>1. /\ ask[t].at = "call" /\ UNCHANGED <<count, away, billed, troubles, givenBack>> /\ AskKnown(t)
  BY AskIsKnown DEF NotBilled, AskAt, Size
<1>2. /\ DayHeld(ask[t]) = size /\ MonthHeld(ask[t]) = size
      /\ DayRefused(ask[t]) = 0 /\ MonthRefused(ask[t]) = 0
  BY <1>1 DEF DayHeld, MonthHeld, DayRefused, MonthRefused
<1>3. CASE ask[t].host \in away
  <2>1. ask' = [ask EXCEPT ![t].at = "refund"]
    BY <1>3 DEF NotBilled, Begins, Asks
  <2>2. HeldIs(t, "refund", size, size, 0, 0)
    BY HeldAfter DEF InRedis
  <2>3. Turns(t, "refund", Redis, 0, 0, 0, 0, 0, 0, 0)
    BY <1>1, <1>2, <2>1, <2>2 DEF Turns, BudgetTypeOK, AskKnown, HeldIs
  <2> QED BY <1>1, <2>3, TurnKeeps DEF AskKnown, InRedis
<1>4. CASE ask[t].host \notin away
  <2>1. ask' = [ask EXCEPT ![t].at = "refundDay"]
    BY <1>4 DEF NotBilled, Begins, Asks
  <2>2. HeldIs(t, "refundDay", size, size, 0, 0)
    BY HeldAfter DEF InRedis
  <2>3. Turns(t, "refundDay", Redis, 0, 0, 0, 0, 0, 0, 0)
    BY <1>1, <1>2, <2>1, <2>2 DEF Turns, BudgetTypeOK, AskKnown, HeldIs
  <2> QED BY <1>1, <2>3, TurnKeeps DEF AskKnown, InRedis
<1> QED BY <1>3, <1>4

LEMMA BilledKeeps ==
  ASSUME BudgetTypeOK, BudgetBond, NEW t \in Requests, BilledAndRaised(t) PROVE BudgetTypeOK' /\ BudgetBond'
<1> DEFINE size == ask[t].size
<1>1. /\ ask[t].at = "call" /\ UNCHANGED <<count, away, troubles>> /\ AskKnown(t)
      /\ billed' = billed + size
      /\ givenBack' = [day |-> givenBack.day + size, month |-> givenBack.month + size]
  BY AskIsKnown DEF BilledAndRaised, AskAt, Size
<1>2. /\ DayHeld(ask[t]) = size /\ MonthHeld(ask[t]) = size
      /\ DayRefused(ask[t]) = 0 /\ MonthRefused(ask[t]) = 0
  BY <1>1 DEF DayHeld, MonthHeld, DayRefused, MonthRefused
<1>3. CASE ask[t].host \in away
  <2>1. ask' = [ask EXCEPT ![t].at = "refund"]
    BY <1>3 DEF BilledAndRaised, Begins, Asks
  <2>2. HeldIs(t, "refund", size, size, 0, 0)
    BY HeldAfter DEF InRedis
  <2>3. Turns(t, "refund", Redis, 0, 0, size, size, size, 0, 0)
    BY <1>1, <1>2, <2>1, <2>2 DEF Turns, BudgetTypeOK, AskKnown, HeldIs
  <2> QED BY <1>1, <2>3, TurnKeeps DEF AskKnown, InRedis
<1>4. CASE ask[t].host \notin away
  <2>1. ask' = [ask EXCEPT ![t].at = "refundDay"]
    BY <1>4 DEF BilledAndRaised, Begins, Asks
  <2>2. HeldIs(t, "refundDay", size, size, 0, 0)
    BY HeldAfter DEF InRedis
  <2>3. Turns(t, "refundDay", Redis, 0, 0, size, size, size, 0, 0)
    BY <1>1, <1>2, <2>1, <2>2 DEF Turns, BudgetTypeOK, AskKnown, HeldIs
  <2> QED BY <1>1, <2>3, TurnKeeps DEF AskKnown, InRedis
<1> QED BY <1>3, <1>4

LEMMA RefundKeeps ==
  ASSUME BudgetTypeOK, BudgetBond, NEW t \in Requests, RefundInMemory(t) PROVE BudgetTypeOK' /\ BudgetBond'
<1> DEFINE size == ask[t].size
           h == ask[t].host
<1>1. /\ ask[t].at = "refund" /\ ask' = [ask EXCEPT ![t].at = "done"]
      /\ count' = [count EXCEPT ![h] = [day |-> count[h].day - size, month |-> count[h].month - size]]
      /\ UNCHANGED <<away, billed, troubles, givenBack>> /\ AskKnown(t)
  BY AskIsKnown DEF RefundInMemory, AskAt, Asks, Size
<1>2. /\ count' \in [Stores -> [day : Int, month : Int]] /\ \A z \in Stores \ {h} : count'[z] = count[z]
      /\ count'[h].day = count[h].day - size /\ count'[h].month = count[h].month - size
  BY <1>1 DEF BudgetTypeOK, AskKnown
<1>3. /\ DayHeld(ask[t]) = size /\ MonthHeld(ask[t]) = size
      /\ DayRefused(ask[t]) = 0 /\ MonthRefused(ask[t]) = 0
  BY <1>1 DEF DayHeld, MonthHeld, DayRefused, MonthRefused
<1>4. HeldIs(t, "done", 0, 0, 0, 0)
  BY HeldAfter DEF InRedis
<1>5. Turns(t, "done", h, 0 - size, 0 - size, 0, 0, 0, size, size)
  BY <1>1, <1>2, <1>3, <1>4 DEF Turns, BudgetTypeOK, AskKnown, HeldIs
<1> QED BY <1>1, <1>5, TurnKeeps DEF AskKnown, InRedis

(* What a command that raised had done in Redis.                             *)
LEMMA EffectIs ==
  ASSUME BudgetTypeOK, BudgetBond, NEW t \in Requests, ask[t].at \in InRedis
  PROVE  LET size == ask[t].size
             day == IF ask[t].at = "day" THEN size
                    ELSE IF ask[t].at \in {"undoDay", "refundDay"} THEN 0 - size ELSE 0
             month == IF ask[t].at = "month" THEN size
                      ELSE IF ask[t].at \in {"undoMonth", "refundMonth"} THEN 0 - size ELSE 0
         IN  /\ Effect(t) \in [day : Int, month : Int]
             /\ Effect(t).day = count[Redis].day + day /\ Effect(t).month = count[Redis].month + month
<1>1. /\ AskKnown(t) /\ count[Redis] \in [day : Int, month : Int]
  BY AskIsKnown DEF InRedis, AskKnown, BudgetTypeOK
<1>2. CASE ask[t].at = "day"
  BY <1>1, <1>2 DEF Effect, AskAt, Size, AskKnown
<1>3. CASE ask[t].at = "month"
  BY <1>1, <1>3 DEF Effect, AskAt, Size, AskKnown
<1>4. CASE ask[t].at = "undoMonth"
  BY <1>1, <1>4 DEF Effect, AskAt, Size, AskKnown
<1>5. CASE ask[t].at = "undoDay"
  BY <1>1, <1>5 DEF Effect, AskAt, Size, AskKnown
<1>6. CASE ask[t].at = "refuse"
  BY <1>1, <1>6 DEF Effect, AskAt, Size, AskKnown
<1>7. CASE ask[t].at = "refundDay"
  BY <1>1, <1>7 DEF Effect, AskAt, Size, AskKnown
<1>8. CASE ask[t].at = "refundMonth"
  BY <1>1, <1>8 DEF Effect, AskAt, Size, AskKnown
<1> QED BY <1>2, <1>3, <1>4, <1>5, <1>6, <1>7, <1>8 DEF InRedis

(* A command that raised, with or without its effect: the request goes over  *)
(* to memory, and what Redis counted stays counted.                          *)
LEMMA RaisesKeeps ==
  ASSUME BudgetTypeOK, BudgetBond, NEW t \in Requests, RedisCommandRaises(t) PROVE BudgetTypeOK' /\ BudgetBond'
<1> DEFINE size == ask[t].size
<1>1. /\ ask[t].at \in InRedis /\ troubles' = troubles + 1 /\ troubles < MaxTroubles
      /\ away' = away \cup {ask[t].host} /\ UNCHANGED billed /\ AskKnown(t)
  BY AskIsKnown DEF RedisCommandRaises, AskAt, InRedis
<1>2. away' \subseteq Hosts /\ troubles' \in 0..MaxTroubles
  BY <1>1, TroublesAreNat DEF BudgetTypeOK, AskKnown
<1>3. PICK done \in BOOLEAN :
        /\ count' = IF done THEN [count EXCEPT ![Redis] = Effect(t)] ELSE count
        /\ givenBack' =
             [day |-> givenBack.day + (IF AskAt(t, "refundMonth") \/ (AskAt(t, "refundDay") /\ done)
                                       THEN Size(t) ELSE 0),
              month |-> givenBack.month + (IF AskAt(t, "refundMonth") /\ done THEN Size(t) ELSE 0)]
  BY DEF RedisCommandRaises
<1>4. /\ Effect(t) \in [day : Int, month : Int] /\ givenBack' \in [day : Nat, month : Nat]
  BY <1>1, <1>3, EffectIs DEF AskKnown, Size, BudgetTypeOK
<1>5. /\ count' \in [Stores -> [day : Int, month : Int]] /\ \A z \in Stores \ {Redis} : count'[z] = count[z]
      /\ count'[Redis] = IF done THEN Effect(t) ELSE count[Redis]
  BY <1>1, <1>3, <1>4 DEF BudgetTypeOK, AskKnown
<1>6. CASE ask[t].at = "day"
  <2>1. ask' = [ask EXCEPT ![t].at = "reserve"]
    BY <1>6 DEF RedisCommandRaises, Asks, AskAt
  <2>2. HeldIs(t, "reserve", 0, 0, 0, 0)
    BY HeldAfter DEF InRedis
  <2>3. /\ DayHeld(ask[t]) = 0 /\ MonthHeld(ask[t]) = 0
        /\ DayRefused(ask[t]) = 0 /\ MonthRefused(ask[t]) = 0
    BY <1>6 DEF DayHeld, MonthHeld, DayRefused, MonthRefused
  <2>4. Effect(t).day = count[Redis].day + (size) /\ Effect(t).month = count[Redis].month + (0)
    BY <1>1, <1>6, EffectIs
  <2>5. givenBack'.day = givenBack.day + (0) /\ givenBack'.month = givenBack.month + (0)
    BY <1>1, <1>3, <1>6 DEF AskAt, Size, AskKnown
  <2>6. CASE done
    <3>1. /\ count'[Redis].day = count[Redis].day + (size) /\ count'[Redis].month = count[Redis].month + (0)
          /\ givenBack'.day = givenBack.day + (0) /\ givenBack'.month = givenBack.month + (0)
          /\ billed' = billed + 0
      BY <1>1, <1>5, <2>4, <2>5, <2>6 DEF AskKnown
    <3>2. /\ ask[t].at # "new" /\ Redis \in Stores /\ size \in Nat
      BY <1>1 DEF AskKnown, InRedis
    <3>3. Turns(t, "reserve", Redis, size, 0, 0, 0, 0, 0, 0)
      BY <1>2, <1>4, <1>5, <2>1, <2>2, <2>3, <3>1, <3>2 DEF Turns, HeldIs
    <3>4. size \in Int /\ 0 - size \in Int /\ 0 \in Int /\ 0 \in Nat
      BY <3>2
    <3> HIDE DEF size
    <3> QED BY <3>2, <3>3, <3>4, TurnKeeps DEF InRedis
  <2>7. CASE ~done
    <3>1. /\ count'[Redis].day = count[Redis].day + (0) /\ count'[Redis].month = count[Redis].month + (0)
          /\ givenBack'.day = givenBack.day + (0) /\ givenBack'.month = givenBack.month + (0)
          /\ billed' = billed + 0
      BY <1>1, <1>5, <2>4, <2>5, <2>7 DEF AskKnown
    <3>2. /\ ask[t].at # "new" /\ Redis \in Stores /\ size \in Nat
      BY <1>1 DEF AskKnown, InRedis
    <3>3. Turns(t, "reserve", Redis, 0, 0, 0, 0, 0, 0, 0)
      BY <1>2, <1>4, <1>5, <2>1, <2>2, <2>3, <3>1, <3>2 DEF Turns, HeldIs
    <3>4. size \in Int /\ 0 - size \in Int /\ 0 \in Int /\ 0 \in Nat
      BY <3>2
    <3> HIDE DEF size
    <3> QED BY <3>2, <3>3, <3>4, TurnKeeps DEF InRedis
  <2> QED BY <2>6, <2>7
<1>7. CASE ask[t].at = "month"
  <2>1. ask' = [ask EXCEPT ![t].at = "reserve"]
    BY <1>7 DEF RedisCommandRaises, Asks, AskAt
  <2>2. HeldIs(t, "reserve", 0, 0, 0, 0)
    BY HeldAfter DEF InRedis
  <2>3. /\ DayHeld(ask[t]) = size /\ MonthHeld(ask[t]) = 0
        /\ DayRefused(ask[t]) = 0 /\ MonthRefused(ask[t]) = 0
    BY <1>7 DEF DayHeld, MonthHeld, DayRefused, MonthRefused
  <2>4. Effect(t).day = count[Redis].day + (0) /\ Effect(t).month = count[Redis].month + (size)
    BY <1>1, <1>7, EffectIs
  <2>5. givenBack'.day = givenBack.day + (0) /\ givenBack'.month = givenBack.month + (0)
    BY <1>1, <1>3, <1>7 DEF AskAt, Size, AskKnown
  <2>6. CASE done
    <3>1. /\ count'[Redis].day = count[Redis].day + (0) /\ count'[Redis].month = count[Redis].month + (size)
          /\ givenBack'.day = givenBack.day + (0) /\ givenBack'.month = givenBack.month + (0)
          /\ billed' = billed + 0
      BY <1>1, <1>5, <2>4, <2>5, <2>6 DEF AskKnown
    <3>2. /\ ask[t].at # "new" /\ Redis \in Stores /\ size \in Nat
      BY <1>1 DEF AskKnown, InRedis
    <3>3. Turns(t, "reserve", Redis, 0, size, 0, 0, 0, 0, 0)
      BY <1>2, <1>4, <1>5, <2>1, <2>2, <2>3, <3>1, <3>2 DEF Turns, HeldIs
    <3>4. size \in Int /\ 0 - size \in Int /\ 0 \in Int /\ 0 \in Nat
      BY <3>2
    <3> HIDE DEF size
    <3> QED BY <3>2, <3>3, <3>4, TurnKeeps DEF InRedis
  <2>7. CASE ~done
    <3>1. /\ count'[Redis].day = count[Redis].day + (0) /\ count'[Redis].month = count[Redis].month + (0)
          /\ givenBack'.day = givenBack.day + (0) /\ givenBack'.month = givenBack.month + (0)
          /\ billed' = billed + 0
      BY <1>1, <1>5, <2>4, <2>5, <2>7 DEF AskKnown
    <3>2. /\ ask[t].at # "new" /\ Redis \in Stores /\ size \in Nat
      BY <1>1 DEF AskKnown, InRedis
    <3>3. Turns(t, "reserve", Redis, 0, 0, 0, 0, 0, 0, 0)
      BY <1>2, <1>4, <1>5, <2>1, <2>2, <2>3, <3>1, <3>2 DEF Turns, HeldIs
    <3>4. size \in Int /\ 0 - size \in Int /\ 0 \in Int /\ 0 \in Nat
      BY <3>2
    <3> HIDE DEF size
    <3> QED BY <3>2, <3>3, <3>4, TurnKeeps DEF InRedis
  <2> QED BY <2>6, <2>7
<1>8. CASE ask[t].at = "undoMonth"
  <2>1. ask' = [ask EXCEPT ![t].at = "reserve"]
    BY <1>8 DEF RedisCommandRaises, Asks, AskAt
  <2>2. HeldIs(t, "reserve", 0, 0, 0, 0)
    BY HeldAfter DEF InRedis
  <2>3. /\ DayHeld(ask[t]) = 0 /\ MonthHeld(ask[t]) = 0
        /\ DayRefused(ask[t]) = size /\ MonthRefused(ask[t]) = size
    BY <1>8 DEF DayHeld, MonthHeld, DayRefused, MonthRefused
  <2>4. Effect(t).day = count[Redis].day + (0) /\ Effect(t).month = count[Redis].month + (0 - size)
    BY <1>1, <1>8, EffectIs
  <2>5. givenBack'.day = givenBack.day + (0) /\ givenBack'.month = givenBack.month + (0)
    BY <1>1, <1>3, <1>8 DEF AskAt, Size, AskKnown
  <2>6. CASE done
    <3>1. /\ count'[Redis].day = count[Redis].day + (0) /\ count'[Redis].month = count[Redis].month + (0 - size)
          /\ givenBack'.day = givenBack.day + (0) /\ givenBack'.month = givenBack.month + (0)
          /\ billed' = billed + 0
      BY <1>1, <1>5, <2>4, <2>5, <2>6 DEF AskKnown
    <3>2. /\ ask[t].at # "new" /\ Redis \in Stores /\ size \in Nat
      BY <1>1 DEF AskKnown, InRedis
    <3>3. Turns(t, "reserve", Redis, 0, 0 - size, 0, 0, 0, 0, 0)
      BY <1>2, <1>4, <1>5, <2>1, <2>2, <2>3, <3>1, <3>2 DEF Turns, HeldIs
    <3>4. size \in Int /\ 0 - size \in Int /\ 0 \in Int /\ 0 \in Nat
      BY <3>2
    <3> HIDE DEF size
    <3> QED BY <3>2, <3>3, <3>4, TurnKeeps DEF InRedis
  <2>7. CASE ~done
    <3>1. /\ count'[Redis].day = count[Redis].day + (0) /\ count'[Redis].month = count[Redis].month + (0)
          /\ givenBack'.day = givenBack.day + (0) /\ givenBack'.month = givenBack.month + (0)
          /\ billed' = billed + 0
      BY <1>1, <1>5, <2>4, <2>5, <2>7 DEF AskKnown
    <3>2. /\ ask[t].at # "new" /\ Redis \in Stores /\ size \in Nat
      BY <1>1 DEF AskKnown, InRedis
    <3>3. Turns(t, "reserve", Redis, 0, 0, 0, 0, 0, 0, 0)
      BY <1>2, <1>4, <1>5, <2>1, <2>2, <2>3, <3>1, <3>2 DEF Turns, HeldIs
    <3>4. size \in Int /\ 0 - size \in Int /\ 0 \in Int /\ 0 \in Nat
      BY <3>2
    <3> HIDE DEF size
    <3> QED BY <3>2, <3>3, <3>4, TurnKeeps DEF InRedis
  <2> QED BY <2>6, <2>7
<1>9. CASE ask[t].at = "undoDay"
  <2>1. ask' = [ask EXCEPT ![t].at = "reserve"]
    BY <1>9 DEF RedisCommandRaises, Asks, AskAt
  <2>2. HeldIs(t, "reserve", 0, 0, 0, 0)
    BY HeldAfter DEF InRedis
  <2>3. /\ DayHeld(ask[t]) = 0 /\ MonthHeld(ask[t]) = 0
        /\ DayRefused(ask[t]) = size /\ MonthRefused(ask[t]) = 0
    BY <1>9 DEF DayHeld, MonthHeld, DayRefused, MonthRefused
  <2>4. Effect(t).day = count[Redis].day + (0 - size) /\ Effect(t).month = count[Redis].month + (0)
    BY <1>1, <1>9, EffectIs
  <2>5. givenBack'.day = givenBack.day + (0) /\ givenBack'.month = givenBack.month + (0)
    BY <1>1, <1>3, <1>9 DEF AskAt, Size, AskKnown
  <2>6. CASE done
    <3>1. /\ count'[Redis].day = count[Redis].day + (0 - size) /\ count'[Redis].month = count[Redis].month + (0)
          /\ givenBack'.day = givenBack.day + (0) /\ givenBack'.month = givenBack.month + (0)
          /\ billed' = billed + 0
      BY <1>1, <1>5, <2>4, <2>5, <2>6 DEF AskKnown
    <3>2. /\ ask[t].at # "new" /\ Redis \in Stores /\ size \in Nat
      BY <1>1 DEF AskKnown, InRedis
    <3>3. Turns(t, "reserve", Redis, 0 - size, 0, 0, 0, 0, 0, 0)
      BY <1>2, <1>4, <1>5, <2>1, <2>2, <2>3, <3>1, <3>2 DEF Turns, HeldIs
    <3>4. size \in Int /\ 0 - size \in Int /\ 0 \in Int /\ 0 \in Nat
      BY <3>2
    <3> HIDE DEF size
    <3> QED BY <3>2, <3>3, <3>4, TurnKeeps DEF InRedis
  <2>7. CASE ~done
    <3>1. /\ count'[Redis].day = count[Redis].day + (0) /\ count'[Redis].month = count[Redis].month + (0)
          /\ givenBack'.day = givenBack.day + (0) /\ givenBack'.month = givenBack.month + (0)
          /\ billed' = billed + 0
      BY <1>1, <1>5, <2>4, <2>5, <2>7 DEF AskKnown
    <3>2. /\ ask[t].at # "new" /\ Redis \in Stores /\ size \in Nat
      BY <1>1 DEF AskKnown, InRedis
    <3>3. Turns(t, "reserve", Redis, 0, 0, 0, 0, 0, 0, 0)
      BY <1>2, <1>4, <1>5, <2>1, <2>2, <2>3, <3>1, <3>2 DEF Turns, HeldIs
    <3>4. size \in Int /\ 0 - size \in Int /\ 0 \in Int /\ 0 \in Nat
      BY <3>2
    <3> HIDE DEF size
    <3> QED BY <3>2, <3>3, <3>4, TurnKeeps DEF InRedis
  <2> QED BY <2>6, <2>7
<1>10. CASE ask[t].at = "refuse"
  <2>1. ask' = [ask EXCEPT ![t].at = "reserve"]
    BY <1>10 DEF RedisCommandRaises, Asks, AskAt
  <2>2. HeldIs(t, "reserve", 0, 0, 0, 0)
    BY HeldAfter DEF InRedis
  <2>3. /\ DayHeld(ask[t]) = 0 /\ MonthHeld(ask[t]) = 0
        /\ DayRefused(ask[t]) = 0 /\ MonthRefused(ask[t]) = 0
    BY <1>10 DEF DayHeld, MonthHeld, DayRefused, MonthRefused
  <2>4. Effect(t).day = count[Redis].day + (0) /\ Effect(t).month = count[Redis].month + (0)
    BY <1>1, <1>10, EffectIs
  <2>5. givenBack'.day = givenBack.day + (0) /\ givenBack'.month = givenBack.month + (0)
    BY <1>1, <1>3, <1>10 DEF AskAt, Size, AskKnown
  <2>6. CASE done
    <3>1. /\ count'[Redis].day = count[Redis].day + (0) /\ count'[Redis].month = count[Redis].month + (0)
          /\ givenBack'.day = givenBack.day + (0) /\ givenBack'.month = givenBack.month + (0)
          /\ billed' = billed + 0
      BY <1>1, <1>5, <2>4, <2>5, <2>6 DEF AskKnown
    <3>2. /\ ask[t].at # "new" /\ Redis \in Stores /\ size \in Nat
      BY <1>1 DEF AskKnown, InRedis
    <3>3. Turns(t, "reserve", Redis, 0, 0, 0, 0, 0, 0, 0)
      BY <1>2, <1>4, <1>5, <2>1, <2>2, <2>3, <3>1, <3>2 DEF Turns, HeldIs
    <3>4. size \in Int /\ 0 - size \in Int /\ 0 \in Int /\ 0 \in Nat
      BY <3>2
    <3> HIDE DEF size
    <3> QED BY <3>2, <3>3, <3>4, TurnKeeps DEF InRedis
  <2>7. CASE ~done
    <3>1. /\ count'[Redis].day = count[Redis].day + (0) /\ count'[Redis].month = count[Redis].month + (0)
          /\ givenBack'.day = givenBack.day + (0) /\ givenBack'.month = givenBack.month + (0)
          /\ billed' = billed + 0
      BY <1>1, <1>5, <2>4, <2>5, <2>7 DEF AskKnown
    <3>2. /\ ask[t].at # "new" /\ Redis \in Stores /\ size \in Nat
      BY <1>1 DEF AskKnown, InRedis
    <3>3. Turns(t, "reserve", Redis, 0, 0, 0, 0, 0, 0, 0)
      BY <1>2, <1>4, <1>5, <2>1, <2>2, <2>3, <3>1, <3>2 DEF Turns, HeldIs
    <3>4. size \in Int /\ 0 - size \in Int /\ 0 \in Int /\ 0 \in Nat
      BY <3>2
    <3> HIDE DEF size
    <3> QED BY <3>2, <3>3, <3>4, TurnKeeps DEF InRedis
  <2> QED BY <2>6, <2>7
<1>11. CASE ask[t].at = "refundDay"
  <2>1. ask' = [ask EXCEPT ![t].at = "refund"]
    BY <1>11 DEF RedisCommandRaises, Asks, AskAt
  <2>2. HeldIs(t, "refund", size, size, 0, 0)
    BY HeldAfter DEF InRedis
  <2>3. /\ DayHeld(ask[t]) = size /\ MonthHeld(ask[t]) = size
        /\ DayRefused(ask[t]) = 0 /\ MonthRefused(ask[t]) = 0
    BY <1>11 DEF DayHeld, MonthHeld, DayRefused, MonthRefused
  <2>4. Effect(t).day = count[Redis].day + (0 - size) /\ Effect(t).month = count[Redis].month + (0)
    BY <1>1, <1>11, EffectIs
  <2>5. givenBack'.day = givenBack.day + (IF done THEN size ELSE 0) /\ givenBack'.month = givenBack.month + (0)
    BY <1>1, <1>3, <1>11 DEF AskAt, Size, AskKnown
  <2>6. CASE done
    <3>1. /\ count'[Redis].day = count[Redis].day + (0 - size) /\ count'[Redis].month = count[Redis].month + (0)
          /\ givenBack'.day = givenBack.day + (size) /\ givenBack'.month = givenBack.month + (0)
          /\ billed' = billed + 0
      BY <1>1, <1>5, <2>4, <2>5, <2>6 DEF AskKnown
    <3>2. /\ ask[t].at # "new" /\ Redis \in Stores /\ size \in Nat
      BY <1>1 DEF AskKnown, InRedis
    <3>3. Turns(t, "refund", Redis, 0 - size, 0, 0, size, 0, size, 0)
      BY <1>2, <1>4, <1>5, <2>1, <2>2, <2>3, <3>1, <3>2 DEF Turns, HeldIs
    <3>4. size \in Int /\ 0 - size \in Int /\ 0 \in Int /\ 0 \in Nat
      BY <3>2
    <3> HIDE DEF size
    <3> QED BY <3>2, <3>3, <3>4, TurnKeeps DEF InRedis
  <2>7. CASE ~done
    <3>1. /\ count'[Redis].day = count[Redis].day + (0) /\ count'[Redis].month = count[Redis].month + (0)
          /\ givenBack'.day = givenBack.day + (0) /\ givenBack'.month = givenBack.month + (0)
          /\ billed' = billed + 0
      BY <1>1, <1>5, <2>4, <2>5, <2>7 DEF AskKnown
    <3>2. /\ ask[t].at # "new" /\ Redis \in Stores /\ size \in Nat
      BY <1>1 DEF AskKnown, InRedis
    <3>3. Turns(t, "refund", Redis, 0, 0, 0, 0, 0, 0, 0)
      BY <1>2, <1>4, <1>5, <2>1, <2>2, <2>3, <3>1, <3>2 DEF Turns, HeldIs
    <3>4. size \in Int /\ 0 - size \in Int /\ 0 \in Int /\ 0 \in Nat
      BY <3>2
    <3> HIDE DEF size
    <3> QED BY <3>2, <3>3, <3>4, TurnKeeps DEF InRedis
  <2> QED BY <2>6, <2>7
<1>12. CASE ask[t].at = "refundMonth"
  <2>1. ask' = [ask EXCEPT ![t].at = "refund"]
    BY <1>12 DEF RedisCommandRaises, Asks, AskAt
  <2>2. HeldIs(t, "refund", size, size, 0, 0)
    BY HeldAfter DEF InRedis
  <2>3. /\ DayHeld(ask[t]) = 0 /\ MonthHeld(ask[t]) = size
        /\ DayRefused(ask[t]) = 0 /\ MonthRefused(ask[t]) = 0
    BY <1>12 DEF DayHeld, MonthHeld, DayRefused, MonthRefused
  <2>4. Effect(t).day = count[Redis].day + (0) /\ Effect(t).month = count[Redis].month + (0 - size)
    BY <1>1, <1>12, EffectIs
  <2>5. givenBack'.day = givenBack.day + (size) /\ givenBack'.month = givenBack.month + (IF done THEN size ELSE 0)
    BY <1>1, <1>3, <1>12 DEF AskAt, Size, AskKnown
  <2>6. CASE done
    <3>1. /\ count'[Redis].day = count[Redis].day + (0) /\ count'[Redis].month = count[Redis].month + (0 - size)
          /\ givenBack'.day = givenBack.day + (size) /\ givenBack'.month = givenBack.month + (size)
          /\ billed' = billed + 0
      BY <1>1, <1>5, <2>4, <2>5, <2>6 DEF AskKnown
    <3>2. /\ ask[t].at # "new" /\ Redis \in Stores /\ size \in Nat
      BY <1>1 DEF AskKnown, InRedis
    <3>3. Turns(t, "refund", Redis, 0, 0 - size, 0, size, size, 0, size)
      BY <1>2, <1>4, <1>5, <2>1, <2>2, <2>3, <3>1, <3>2 DEF Turns, HeldIs
    <3>4. size \in Int /\ 0 - size \in Int /\ 0 \in Int /\ 0 \in Nat
      BY <3>2
    <3> HIDE DEF size
    <3> QED BY <3>2, <3>3, <3>4, TurnKeeps DEF InRedis
  <2>7. CASE ~done
    <3>1. /\ count'[Redis].day = count[Redis].day + (0) /\ count'[Redis].month = count[Redis].month + (0)
          /\ givenBack'.day = givenBack.day + (size) /\ givenBack'.month = givenBack.month + (0)
          /\ billed' = billed + 0
      BY <1>1, <1>5, <2>4, <2>5, <2>7 DEF AskKnown
    <3>2. /\ ask[t].at # "new" /\ Redis \in Stores /\ size \in Nat
      BY <1>1 DEF AskKnown, InRedis
    <3>3. Turns(t, "refund", Redis, 0, 0, 0, size, 0, 0, 0)
      BY <1>2, <1>4, <1>5, <2>1, <2>2, <2>3, <3>1, <3>2 DEF Turns, HeldIs
    <3>4. size \in Int /\ 0 - size \in Int /\ 0 \in Int /\ 0 \in Nat
      BY <3>2
    <3> HIDE DEF size
    <3> QED BY <3>2, <3>3, <3>4, TurnKeeps DEF InRedis
  <2> QED BY <2>6, <2>7
<1> QED BY <1>1, <1>6, <1>7, <1>8, <1>9, <1>10, <1>11, <1>12 DEF InRedis

LEMMA BackKeeps ==
  ASSUME BudgetTypeOK, BudgetBond, NEW h \in Hosts, RedisIsBack(h) PROVE BudgetTypeOK' /\ BudgetBond'
<1>1. away' = away \ {h} /\ UNCHANGED <<count, ask, billed, troubles, givenBack>>
  BY DEF RedisIsBack
<1>2. BudgetTypeOK'
  BY <1>1 DEF BudgetTypeOK
<1>3. BudgetBond'
  BY <1>1 DEF BudgetBond, DayBook, MonthBook
<1> QED BY <1>2, <1>3

(* At first every store has all of its room, and nothing is held.            *)
LEMMA BooksOpen ==
  ASSUME NEW limit \in Nat, NEW counted, NEW held, NEW refused,
         counted = [s \in Stores |-> 0], held = [t \in Requests |-> 0], refused = [t \in Requests |-> 0]
  PROVE  Balances([s \in Stores |-> limit], (1 + Cardinality(Hosts)) * limit, limit, 0, 0, counted, held, refused)
<1> DEFINE room == [s \in Stores |-> limit]
<1>1. /\ Units(held, Requests) = {} /\ Units(refused, Requests) = {}
      /\ Units(room, Stores) = Stores \X (1..limit)
  BY DEF Units
<1>2. /\ IsFiniteSet({}) /\ Cardinality({}) = 0
  BY FS_EmptySet
<1>3. IsFiniteSet(Stores) /\ Cardinality(Stores) = Cardinality(Hosts) + 1 /\ Cardinality(Hosts) \in Nat
  BY HostsAreNoRedis, FS_AddElement, FS_CardinalityType DEF Stores
<1>4. IsFiniteSet(1..limit) /\ Cardinality(1..limit) = limit
  <2>1. Cardinality(1..limit) = IF 1 > limit THEN 0 ELSE limit - 1 + 1
    BY FS_Interval, 1 \in Int, limit \in Int
  <2> QED BY <2>1, FS_Interval, 1 \in Int, limit \in Int
<1>5. /\ IsFiniteSet(Stores \X (1..limit))
      /\ Cardinality(Stores \X (1..limit)) = Cardinality(Stores) * limit
  BY <1>3, <1>4, FS_Product
<1>6. /\ Total(held, Requests) = 0 /\ Total(refused, Requests) = 0
      /\ Total(room, Stores) = (1 + Cardinality(Hosts)) * limit
  <2>1. \A m, n \in Nat : (m + 1) * n = (1 + m) * n
    OBVIOUS
  <2>2. Cardinality(Stores) * limit = (1 + Cardinality(Hosts)) * limit
    BY <1>3, <2>1
  <2> QED BY <1>1, <1>2, <1>5, <2>2 DEF Total
<1>7. Total(held, Requests) + Total(room, Stores) + 0 <= (1 + Cardinality(Hosts)) * limit + 0
  <2> DEFINE cap == (1 + Cardinality(Hosts)) * limit
  <2>1. cap \in Nat
    <3>1. \A m, n \in Nat : m * n \in Nat
      OBVIOUS
    <3>2. 1 + Cardinality(Hosts) \in Nat
      BY <1>3
    <3> QED BY <3>1, <3>2
  <2>2. Total(room, Stores) = cap
    BY <1>6
  <2> HIDE DEF cap, room
  <2>3. Total(held, Requests) + Total(room, Stores) + 0 <= cap + 0
    BY <1>6, <2>1, <2>2
  <2> QED BY <2>3 DEF cap
<1>8. \A s \in Stores : limit - room[s] + (IF s = Redis THEN Total(refused, Requests) ELSE 0) <= counted[s]
  BY <1>6
<1>9. /\ room \in [Stores -> Nat] /\ held \in [Requests -> Nat] /\ refused \in [Requests -> Nat]
      /\ IsFiniteSet(Units(room, Stores)) /\ IsFiniteSet(Units(held, Requests))
      /\ IsFiniteSet(Units(refused, Requests))
  BY <1>1, <1>2, <1>5
<1> HIDE DEF room
<1>10. Balances(room, (1 + Cardinality(Hosts)) * limit, limit, 0, 0, counted, held, refused)
  BY <1>7, <1>8, <1>9 DEF Balances
<1> QED BY <1>10 DEF room

LEMMA BudgetStarts == BudgetInit => BudgetTypeOK /\ BudgetBond
<1> SUFFICES ASSUME BudgetInit PROVE BudgetTypeOK /\ BudgetBond
  OBVIOUS
<1> USE DEF BudgetInit
<1>1. BudgetTypeOK
  BY TroublesAreNat DEF BudgetTypeOK, NewAsk
<1>2. \A t \in Requests : ask[t].at = "new"
  BY DEF NewAsk
<1>3. \A t \in Requests : /\ DayHeld(ask[t]) = 0 /\ DayRefused(ask[t]) = 0
                          /\ MonthHeld(ask[t]) = 0 /\ MonthRefused(ask[t]) = 0
  BY <1>2 DEF DayHeld, DayRefused, MonthHeld, MonthRefused
<1>4. DayBook([s \in Stores |-> Daily])
  <2> DEFINE counted == [s \in Stores |-> count[s].day]
             held == [t \in Requests |-> DayHeld(ask[t])]
             refused == [t \in Requests |-> DayRefused(ask[t])]
  <2>1. counted = [s \in Stores |-> 0] /\ held = [t \in Requests |-> 0] /\ refused = [t \in Requests |-> 0]
    BY <1>3
  <2>2. billed = 0 /\ givenBack.day = 0 /\ Daily \in Nat
    BY BudgetNumbers
  <2> HIDE DEF counted, held, refused
  <2>3. Balances([s \in Stores |-> Daily], (1 + Cardinality(Hosts)) * Daily, Daily, 0, 0, counted, held, refused)
    BY <2>1, <2>2, BooksOpen
  <2> QED BY <2>2, <2>3 DEF DayBook, counted, held, refused
<1>5. MonthBook([s \in Stores |-> Monthly])
  <2> DEFINE counted == [s \in Stores |-> count[s].month]
             held == [t \in Requests |-> MonthHeld(ask[t])]
             refused == [t \in Requests |-> MonthRefused(ask[t])]
  <2>1. counted = [s \in Stores |-> 0] /\ held = [t \in Requests |-> 0] /\ refused = [t \in Requests |-> 0]
    BY <1>3
  <2>2. billed = 0 /\ givenBack.month = 0 /\ Monthly \in Nat
    BY BudgetNumbers
  <2> HIDE DEF counted, held, refused
  <2>3. Balances([s \in Stores |-> Monthly], (1 + Cardinality(Hosts)) * Monthly, Monthly, 0, 0, counted, held, refused)
    BY <2>1, <2>2, BooksOpen
  <2> QED BY <2>2, <2>3 DEF MonthBook, counted, held, refused
<1> QED BY <1>1, <1>2, <1>4, <1>5 DEF BudgetBond

(* Every step keeps the types and the books.                                 *)
LEMMA BudgetStep ==
  ASSUME BudgetTypeOK, BudgetBond, [BudgetNext]_budgetVars PROVE BudgetTypeOK' /\ BudgetBond'
<1>1. ASSUME NEW t \in Requests, AskStep(t) PROVE BudgetTypeOK' /\ BudgetBond'
  BY <1>1, StartKeeps, AddDayKeeps, AddMonthKeeps, UndoMonthKeeps, UndoDayKeeps, RefuseKeeps, ReserveKeeps,
     TranslatedKeeps, NotBilledKeeps, BilledKeeps, CancelKeeps, RefundDayKeeps, RefundMonthKeeps,
     RefundKeeps, RaisesKeeps DEF AskStep
<1>2. CASE UNCHANGED budgetVars
  <2>1. BudgetTypeOK'
    BY <1>2 DEF BudgetTypeOK, budgetVars
  <2>2. BudgetBond'
    BY <1>2 DEF BudgetBond, DayBook, MonthBook, budgetVars
  <2> QED BY <2>1, <2>2
<1> QED BY <1>1, <1>2, BackKeeps DEF BudgetNext

(* Translation budget: every value stays in its type.                        *)
THEOREM BudgetTyped == BudgetSpec => []BudgetTypeOK
<1>1. BudgetSpec => [](BudgetTypeOK /\ BudgetBond)
  BY BudgetStarts, BudgetStep, PTL DEF BudgetSpec
<1> QED BY <1>1, PTL

(* Balanced accounts bound what is billed.                                   *)
LEMMA BooksBound ==
  ASSUME NEW room, NEW cap \in Int, NEW limit, NEW paid \in Int, NEW back \in Int, NEW counted, NEW held,
         NEW refused, Balances(room, cap, limit, paid, back, counted, held, refused)
  PROVE  paid <= cap + back
<1>1. Total(held, Requests) \in Nat /\ Total(room, Stores) \in Nat
  BY FS_CardinalityType DEF Balances, Total
<1>2. Total(held, Requests) + Total(room, Stores) + paid <= cap + back
  BY DEF Balances
<1> QED BY <1>1, <1>2

(* What the provider bills is within one budget for each store, but for what *)
(* was given back wrongly: however many requests, processes and failures.    *)
THEOREM SpendBounded == BudgetSpec => []SpendIsBounded
<1>1. BudgetTypeOK /\ BudgetBond => SpendIsBounded
  <2> SUFFICES ASSUME BudgetTypeOK, BudgetBond PROVE SpendIsBounded
    OBVIOUS
  <2> DEFINE dayCap == (1 + Cardinality(Hosts)) * Daily
             monthCap == (1 + Cardinality(Hosts)) * Monthly
  <2>1. /\ billed \in Int /\ givenBack.day \in Int /\ givenBack.month \in Int
        /\ dayCap \in Int /\ monthCap \in Int
    BY BudgetNumbers DEF BudgetTypeOK
  <2>2. billed <= dayCap + givenBack.day
    <3>1. PICK room : DayBook(room)
      BY DEF BudgetBond
    <3> HIDE DEF dayCap
    <3> QED BY <2>1, <3>1, BooksBound DEF DayBook, dayCap
  <2>3. billed <= monthCap + givenBack.month
    <3>1. PICK room : MonthBook(room)
      BY DEF BudgetBond
    <3> HIDE DEF monthCap
    <3> QED BY <2>1, <3>1, BooksBound DEF MonthBook, monthCap
  <2> QED BY <2>2, <2>3 DEF SpendIsBounded
<1>2. BudgetSpec => [](BudgetTypeOK /\ BudgetBond)
  BY BudgetStarts, BudgetStep, PTL DEF BudgetSpec
<1> QED BY <1>1, <1>2, PTL

-----------------------------------------------------------------------------
(* Photos.                                                                   *)

(* How many rows a screening under way is going to delete, of those there are. *)
Promise(s, rows) ==
  CASE s.at = "choose" -> s.total - MaxStored + 1
    [] s.at = "evict"  -> OverCap(s.total, Cardinality(s.old)) + Cardinality(s.old \cap rows)
    [] OTHER           -> Cardinality((s.old \cup s.oldest) \cap rows)

Modest(screens, rows, v) == {k \in Screeners : screens[k].at # "idle" /\ Promise(screens[k], rows) <= v}

(* The rows past any number v, and the screenings that delete no more than v, *)
(* fit together.                                                             *)
Fits(screens, rows) ==
  \A v \in Nat : Cardinality(rows) - v + Cardinality(Modest(screens, rows, v)) <=
                   MaxStored + Cardinality(Screeners) - 1

(* A photo being screened has no row yet, and no other screening has it or    *)
(* means to delete it.                                                       *)
ScreensApart ==
  \A k \in Screeners :
    /\ screener[k].at = "idle" <=> screener[k].of = NoPhoto
    /\ IsFiniteSet(screener[k].old)
    /\ screener[k].at # "idle" =>
         /\ screener[k].of \notin store
         /\ \A x \in Screeners : /\ x # k => screener[x].of # screener[k].of
                                 /\ screener[k].of \notin screener[x].old \cup screener[x].oldest

(* What a press has redeemed is all it sent a handle for, and only while its  *)
(* request is under way.                                                     *)
TapsInOrder ==
  \A t \in Taps :
    /\ ~Redeeming(t) => tap[t].taken = {}
    /\ Redeeming(t) => tap[t].taken = Sent \ tap[t].inline
    /\ tap[t].at = "save" => tap[t].clear \subseteq tap[t].inline /\ Cardinality(tap[t].clear) <= MaxImages
    /\ via = "direct" /\ tap[t].at \in {"resolve", "screen", "save"} => tap[t].inline = Sent
    /\ tap[t].inline \subseteq Sent

PhotoBond == IsFiniteSet(store) /\ Fits(screener, store) /\ ScreensApart /\ TapsInOrder /\ PhotosAccounted

AnyPhoto == FormPhotos \cup Strangers
ScreenStates == [at : {"idle", "choose", "evict", "store"}, total : Nat, of : AnyPhoto \cup {NoPhoto},
                 old : SUBSET AnyPhoto, oldest : SUBSET AnyPhoto]

-----------------------------------------------------------------------------
(* Promises can be compared.                                                 *)
LEMMA PromiseIsInt ==
  ASSUME NEW s \in ScreenStates, IsFiniteSet(s.old), NEW rows, IsFiniteSet(rows)
  PROVE  Promise(s, rows) \in Int
<1>1. /\ Cardinality(s.old) \in Int /\ Cardinality(s.old \cap rows) \in Int
      /\ Cardinality((s.old \cup s.oldest) \cap rows) \in Int
  <2>1. IsFiniteSet(rows \cap s.old) /\ IsFiniteSet(rows \cap (s.old \cup s.oldest))
    BY FS_Intersection
  <2>2. rows \cap s.old = s.old \cap rows /\ rows \cap (s.old \cup s.oldest) = (s.old \cup s.oldest) \cap rows
    OBVIOUS
  <2>3. \A n \in Nat : n \in Int
    OBVIOUS
  <2> QED BY <2>1, <2>2, <2>3, FS_CardinalityType
<1>2. s.total \in Int /\ MaxStored \in Int
  BY StoreHoldsSome DEF ScreenStates
<1> QED BY <1>1, <1>2 DEF Promise, OverCap

(* Rows that go take no more from a promise than their number.               *)
LEMMA PromiseFalls ==
  ASSUME NEW s \in ScreenStates, IsFiniteSet(s.old), NEW rows, IsFiniteSet(rows), NEW rows2, IsFiniteSet(rows2),
         NEW gone, rows \ gone \subseteq rows2
  PROVE  Promise(s, rows) <= Promise(s, rows2) + Cardinality(gone \cap rows)
<1>1. ASSUME NEW X
      PROVE  /\ Cardinality(X \cap rows) \in Nat /\ Cardinality(X \cap rows2) \in Nat
             /\ Cardinality(gone \cap rows) \in Nat
             /\ Cardinality(X \cap rows) <= Cardinality(X \cap rows2) + Cardinality(gone \cap rows)
  <2> DEFINE a == X \cap rows2
             b == gone \cap rows
  <2>1. IsFiniteSet(X \cap rows) /\ IsFiniteSet(a) /\ IsFiniteSet(b)
    BY FS_Intersection
  <2>2. X \cap rows \subseteq a \cup b
    OBVIOUS
  <2> HIDE DEF a, b
  <2>3. /\ IsFiniteSet(a \cup b)
        /\ Cardinality(a \cup b) = Cardinality(a) + Cardinality(b) - Cardinality(a \cap b)
    BY <2>1, FS_Union
  <2>4. Cardinality(X \cap rows) <= Cardinality(a \cup b)
    BY <2>2, <2>3, FS_Subset
  <2>5. Cardinality(a \cap b) \in Nat
    BY <2>1, FS_Intersection, FS_CardinalityType
  <2>6. Cardinality(X \cap rows) \in Nat /\ Cardinality(a) \in Nat /\ Cardinality(b) \in Nat
    BY <2>1, FS_CardinalityType
  <2>7. Cardinality(X \cap rows) <= Cardinality(a) + Cardinality(b)
    BY <2>3, <2>4, <2>5, <2>6
  <2> QED BY <2>6, <2>7 DEF a, b
<1>2. s.total \in Int /\ MaxStored \in Int /\ Cardinality(s.old) \in Int
  BY StoreHoldsSome, FS_CardinalityType DEF ScreenStates
<1>3. CASE s.at = "choose"
  <2>1. Cardinality(gone \cap rows) \in Nat
    BY <1>1
  <2> QED BY <1>2, <1>3, <2>1 DEF Promise
<1>4. CASE s.at = "evict"
  <2> DEFINE m == Cardinality(s.old \cap rows)
             n == Cardinality(s.old \cap rows2)
             d == Cardinality(gone \cap rows)
  <2>1. m \in Nat /\ n \in Nat /\ d \in Nat /\ m <= n + d
    BY <1>1
  <2>2. Promise(s, rows) = OverCap(s.total, Cardinality(s.old)) + m
        /\ Promise(s, rows2) = OverCap(s.total, Cardinality(s.old)) + n
    BY <1>4 DEF Promise
  <2> HIDE DEF m, n, d
  <2>3. OverCap(s.total, Cardinality(s.old)) \in Int
    BY <1>2 DEF OverCap
  <2>4. Promise(s, rows) <= Promise(s, rows2) + d
    BY <2>1, <2>2, <2>3
  <2> QED BY <2>4 DEF d
<1>5. CASE s.at \notin {"choose", "evict"}
  BY <1>1, <1>5 DEF Promise
<1> QED BY <1>3, <1>4, <1>5

(* And counted.                                                              *)
LEMMA ModestIsFinite ==
  ASSUME NEW screens, NEW rows, NEW v
  PROVE  /\ IsFiniteSet(Modest(screens, rows, v)) /\ Cardinality(Modest(screens, rows, v)) \in Nat
         /\ Cardinality(Modest(screens, rows, v)) <= Cardinality(Screeners) /\ Cardinality(Screeners) \in Nat
<1>1. Modest(screens, rows, v) \subseteq Screeners
  BY DEF Modest
<1> QED BY <1>1, PhotosAreFinite, FS_Subset, FS_CardinalityType

(* Deleting rows keeps the fit.                                              *)
LEMMA RowsMayGo ==
  ASSUME NEW screens \in [Screeners -> ScreenStates], \A k \in Screeners : IsFiniteSet(screens[k].old),
         NEW rows, IsFiniteSet(rows), Fits(screens, rows), NEW gone
  PROVE  Fits(screens, rows \ gone) /\ IsFiniteSet(rows \ gone)
<1> DEFINE d == Cardinality(gone \cap rows)
<1>1. /\ IsFiniteSet(rows \ gone) /\ d \in Nat
      /\ Cardinality(rows) \in Nat /\ Cardinality(rows \ gone) = Cardinality(rows) - d
  <2>1. IsFiniteSet(gone \cap rows) /\ rows \ gone = rows \ (gone \cap rows)
    BY FS_Intersection
  <2>2. IsFiniteSet(rows \ gone) /\ Cardinality(rows \ gone) = Cardinality(rows) - Cardinality(rows \cap gone)
    BY FS_Difference
  <2>3. rows \cap gone = gone \cap rows
    OBVIOUS
  <2> QED BY <2>1, <2>2, <2>3, FS_CardinalityType
<1>2. \A k \in Screeners : /\ Promise(screens[k], rows) <= Promise(screens[k], rows \ gone) + d
                           /\ Promise(screens[k], rows) \in Int /\ Promise(screens[k], rows \ gone) \in Int
  BY <1>1, PromiseFalls, PromiseIsInt
<1> HIDE DEF d
<1>3. ASSUME NEW v \in Nat
      PROVE  Cardinality(rows \ gone) - v + Cardinality(Modest(screens, rows \ gone, v)) <=
               MaxStored + Cardinality(Screeners) - 1
  <2>1. v + d \in Nat
    BY <1>1
  <2>2. Modest(screens, rows \ gone, v) \subseteq Modest(screens, rows, v + d)
    <3> SUFFICES ASSUME NEW x \in Screeners, screens[x].at # "idle", Promise(screens[x], rows \ gone) <= v
                 PROVE  Promise(screens[x], rows) <= v + d
      BY DEF Modest
    <3>1. \A a, b \in Int : a <= b + d /\ b <= v => a <= v + d
      BY <1>1
    <3> QED BY <1>2, <3>1
  <2>3. Cardinality(Modest(screens, rows \ gone, v)) <= Cardinality(Modest(screens, rows, v + d))
    BY <2>2, ModestIsFinite, FS_Subset
  <2>4. Cardinality(rows) - (v + d) + Cardinality(Modest(screens, rows, v + d)) <=
          MaxStored + Cardinality(Screeners) - 1
    BY <2>1 DEF Fits
  <2>5. /\ Cardinality(Modest(screens, rows, v + d)) \in Nat /\ Cardinality(Modest(screens, rows \ gone, v)) \in Nat
        /\ Cardinality(Screeners) \in Nat /\ MaxStored \in Nat
    BY ModestIsFinite, StoreHoldsSome
  <2> QED BY <1>1, <2>3, <2>4, <2>5
<1> QED BY <1>1, <1>3 DEF Fits

(* A screening that stores its row has deleted what it promised.             *)
LEMMA ScreenMayStore ==
  ASSUME NEW screens \in [Screeners -> ScreenStates], \A k \in Screeners : IsFiniteSet(screens[k].old),
         NEW rows, IsFiniteSet(rows), Fits(screens, rows), NEW k \in Screeners, screens[k].at = "store", NEW p,
         NEW gone, gone = screens[k].old \cup screens[k].oldest,
         NEW rows2, rows2 = (rows \ gone) \cup {p}
  PROVE  Fits([screens EXCEPT ![k] = IdleScreener], rows2) /\ IsFiniteSet(rows2)
<1> DEFINE d == Cardinality(gone \cap rows)
           after == [screens EXCEPT ![k] = IdleScreener]
<1>1. /\ IsFiniteSet(rows2) /\ d \in Nat /\ Cardinality(rows) \in Nat /\ Cardinality(rows2) \in Nat
      /\ Cardinality(rows2) <= Cardinality(rows) - d + 1
  <2>1. IsFiniteSet(rows \ gone) /\ Cardinality(rows \ gone) = Cardinality(rows) - Cardinality(rows \cap gone)
    BY FS_Difference
  <2>2. rows \cap gone = gone \cap rows
    OBVIOUS
  <2>3. /\ IsFiniteSet(rows2)
        /\ Cardinality(rows2) = IF p \in rows \ gone THEN Cardinality(rows \ gone) ELSE Cardinality(rows \ gone) + 1
    BY <2>1, FS_AddElement
  <2>4. /\ IsFiniteSet(gone \cap rows) /\ Cardinality(rows) \in Nat /\ Cardinality(rows \ gone) \in Nat
        /\ Cardinality(gone \cap rows) \in Nat /\ Cardinality(rows2) \in Nat
    BY <2>1, <2>3, FS_Intersection, FS_CardinalityType
  <2> QED BY <2>1, <2>2, <2>3, <2>4
<1>2. \A x \in Screeners : /\ Promise(screens[x], rows) <= Promise(screens[x], rows2) + d
                           /\ Promise(screens[x], rows) \in Int /\ Promise(screens[x], rows2) \in Int
  <2>1. rows \ gone \subseteq rows2
    OBVIOUS
  <2> QED BY <1>1, <2>1, PromiseFalls, PromiseIsInt
<1>3. Promise(screens[k], rows) = d
  BY DEF Promise
<1> HIDE DEF d
<1>4. ASSUME NEW v \in Nat
      PROVE  Cardinality(rows2) - v + Cardinality(Modest(after, rows2, v)) <= MaxStored + Cardinality(Screeners) - 1
  <2> DEFINE before == Modest(screens, rows, v + d)
  <2>1. v + d \in Nat /\ d <= v + d
    BY <1>1
  <2>2. \A x \in Screeners : after[x] = IF x = k THEN IdleScreener ELSE screens[x]
    OBVIOUS
  <2>3. Modest(after, rows2, v) \subseteq before \ {k}
    <3> SUFFICES ASSUME NEW x \in Screeners, after[x].at # "idle", Promise(after[x], rows2) <= v
                 PROVE  x # k /\ screens[x].at # "idle" /\ Promise(screens[x], rows) <= v + d
      BY DEF Modest
    <3>1. x # k /\ after[x] = screens[x]
      BY <2>2 DEF IdleScreener
    <3> HIDE DEF after
    <3>2. \A a, b \in Int : a <= b + d /\ b <= v => a <= v + d
      BY <1>1
    <3> QED BY <1>2, <3>1, <3>2
  <2>4. k \in before
    BY <1>3, <2>1 DEF Modest
  <2> HIDE DEF before, after
  <2>5. /\ IsFiniteSet(before) /\ Cardinality(before) \in Nat /\ Cardinality(Modest(after, rows2, v)) \in Nat
        /\ Cardinality(Screeners) \in Nat /\ MaxStored \in Nat
    BY ModestIsFinite, StoreHoldsSome DEF before
  <2>6. IsFiniteSet(before \ {k}) /\ Cardinality(before \ {k}) = Cardinality(before) - 1
    BY <2>4, <2>5, FS_RemoveElement
  <2>7. Cardinality(Modest(after, rows2, v)) <= Cardinality(before \ {k})
    BY <2>3, <2>6, FS_Subset
  <2>8. Cardinality(rows) - (v + d) + Cardinality(before) <= MaxStored + Cardinality(Screeners) - 1
    BY <2>1 DEF Fits, before
  <2> QED BY <1>1, <2>5, <2>6, <2>7, <2>8
<1> QED BY <1>1, <1>4 DEF Fits

(* A screening goes on, or begins, when with it the rows still fit: whoever   *)
(* promises at most v sees fewer than MaxStored rows past v, or promised as   *)
(* much before.                                                              *)
LEMMA ScreenMayGoOn ==
  ASSUME NEW screens \in [Screeners -> ScreenStates], NEW rows, IsFiniteSet(rows), Fits(screens, rows),
         NEW k \in Screeners, NEW now \in ScreenStates,
         \A v \in Nat : now.at # "idle" /\ Promise(now, rows) <= v =>
           \/ Cardinality(rows) - v <= MaxStored - 1
           \/ screens[k].at # "idle" /\ Promise(screens[k], rows) <= v
  PROVE  Fits([screens EXCEPT ![k] = now], rows)
<1> DEFINE after == [screens EXCEPT ![k] = now]
<1>1. \A x \in Screeners : after[x] = IF x = k THEN now ELSE screens[x]
  OBVIOUS
<1> HIDE DEF after
<1>2. ASSUME NEW v \in Nat
      PROVE  Cardinality(rows) - v + Cardinality(Modest(after, rows, v)) <= MaxStored + Cardinality(Screeners) - 1
  <2>1. /\ Cardinality(Modest(after, rows, v)) \in Nat /\ Cardinality(Modest(screens, rows, v)) \in Nat
        /\ Cardinality(Screeners) \in Nat /\ MaxStored \in Nat /\ Cardinality(rows) \in Nat
        /\ Cardinality(Modest(after, rows, v)) <= Cardinality(Screeners)
    BY ModestIsFinite, StoreHoldsSome, FS_CardinalityType
  <2>2. CASE Cardinality(rows) - v <= MaxStored - 1
    BY <2>1, <2>2
  <2>3. CASE Modest(after, rows, v) \subseteq Modest(screens, rows, v)
    <3>1. Cardinality(Modest(after, rows, v)) <= Cardinality(Modest(screens, rows, v))
      BY <2>3, ModestIsFinite, FS_Subset
    <3>2. Cardinality(rows) - v + Cardinality(Modest(screens, rows, v)) <= MaxStored + Cardinality(Screeners) - 1
      BY DEF Fits
    <3> QED BY <2>1, <3>1, <3>2
  <2>4. Cardinality(rows) - v <= MaxStored - 1 \/ Modest(after, rows, v) \subseteq Modest(screens, rows, v)
    BY <1>1 DEF Modest
  <2> QED BY <2>2, <2>3, <2>4
<1>3. Fits(after, rows)
  BY <1>2 DEF Fits
<1> QED BY <1>3 DEF after

-----------------------------------------------------------------------------
Known == store \cup Underway
RowsTyped ==
  /\ store \subseteq AnyPhoto /\ lapsed \subseteq store /\ older \subseteq Known \X Known
  /\ \A p, q \in Known : p # q => (<<p, q>> \in older <=> <<q, p>> \notin older)

(* The photos under way are those the screenings are about.                  *)
LEMMA UnderwayIs ==
  ASSUME PhotoTypeOK, ScreensApart
  PROVE  /\ \A p : p \in Underway <=> \E k \in Screeners : screener[k].at # "idle" /\ screener[k].of = p
         /\ Underway \cap store = {} /\ Underway \subseteq AnyPhoto
<1>1. \A p : p \in Underway <=> \E k \in Screeners : screener[k].at # "idle" /\ screener[k].of = p
  BY DEF Underway, ScreensApart
<1> QED BY <1>1, NoPhotoIsNone DEF ScreensApart, PhotoTypeOK, AnyPhoto, Underway

LEMMA ScreensTyped ==
  ASSUME PhotoTypeOK, PhotoBond
  PROVE  /\ screener \in [Screeners -> ScreenStates] /\ \A k \in Screeners : IsFiniteSet(screener[k].old)
         /\ RowsTyped /\ IsFiniteSet(store) /\ Fits(screener, store) /\ ScreensApart
  BY DEF PhotoTypeOK, ScreenStates, AnyPhoto, PhotoBond, ScreensApart, RowsTyped, Known

(* Rows go and nothing else of the screenings changes.                       *)
LEMMA RowsGo ==
  ASSUME PhotoTypeOK, PhotoBond, NEW gone \in SUBSET store, RowsChange(gone, {}), UNCHANGED screener
  PROVE  RowsTyped' /\ IsFiniteSet(store)' /\ Fits(screener, store)' /\ ScreensApart' /\ store' = store \ gone
<1>1. /\ store' = store \ gone /\ lapsed' = lapsed \ gone
      /\ older' = {e \in older : e[1] \notin gone /\ e[2] \notin gone}
  BY DEF RowsChange
<1>2. RowsTyped'
  <2>1. Underway' = Underway /\ Underway \cap gone = {}
    BY UnderwayIs DEF PhotoBond, Underway
  <2>2. Known' = Known \ gone
    BY <1>1, <2>1 DEF Known
  <2>3. \A p, q \in Known \ gone : <<p, q>> \in older' <=> <<p, q>> \in older
    BY <1>1
  <2>4. older' \subseteq Known' \X Known'
    BY <1>1, <2>2, ScreensTyped DEF RowsTyped
  <2>5. \A p, q \in Known' : p # q => (<<p, q>> \in older' <=> <<q, p>> \notin older')
    BY <2>2, <2>3, ScreensTyped DEF RowsTyped
  <2> QED BY <1>1, <2>4, <2>5, ScreensTyped DEF RowsTyped
<1>3. IsFiniteSet(store)' /\ Fits(screener, store)'
  BY <1>1, ScreensTyped, RowsMayGo
<1>4. ScreensApart'
  BY <1>1 DEF PhotoBond, ScreensApart
<1> QED BY <1>1, <1>2, <1>3, <1>4

LEMMA TapsTyped ==
  ASSUME PhotoTypeOK, UNCHANGED <<via, waitsFor, finished, tap, savedAs, cutOff, photoFaults>>,
         picked' \in [FormPhotos -> {"fresh", "handle", "inline"}],
         screener' \in [Screeners -> ScreenStates], RowsTyped',
         \A t \in Taps : tap[t].taken \subseteq store'
  PROVE  PhotoTypeOK'
<1>1. tap' \in [Taps -> [at : {"unused", "resolve", "screen", "save", "saved", "over"}, again : BOOLEAN,
                         inline : SUBSET Photos, taken : SUBSET store', looked : SUBSET Photos,
                         clear : SUBSET Photos]]
  BY DEF PhotoTypeOK
<1> QED BY <1>1 DEF PhotoTypeOK, RowsTyped, ScreenStates, AnyPhoto, Known

LEMMA TapsStay ==
  ASSUME PhotoBond, UNCHANGED <<via, tap, savedAs, cutOff>> PROVE TapsInOrder' /\ PhotosAccounted'
  BY DEF PhotoBond, TapsInOrder, PhotosAccounted, Redeeming, Sent

(* Rows a request redeemed are in no deletion's way.                         *)
LEMMA LockedStay ==
  ASSUME PhotoTypeOK, PhotoBond, NEW gone, gone \cap LockedRows = {}
  PROVE  \A t \in Taps : tap[t].taken \subseteq store \ gone
  BY DEF PhotoBond, TapsInOrder, LockedRows, PhotoTypeOK

-----------------------------------------------------------------------------
(* The steps of the table and of the screenings, one by one.                 *)
LEMMA ReapKeeps == ASSUME PhotoTypeOK, PhotoBond, ReapRows PROVE PhotoTypeOK' /\ PhotoBond'
<1>1. /\ RowsChange(lapsed, {}) /\ lapsed \cap LockedRows = {} /\ lapsed \in SUBSET store
      /\ UNCHANGED <<via, picked, screener, tap, waitsFor, finished, savedAs, cutOff, photoFaults>>
  BY DEF ReapRows, PhotoTypeOK
<1>2. RowsTyped' /\ IsFiniteSet(store)' /\ Fits(screener, store)' /\ ScreensApart' /\ store' = store \ lapsed
  BY <1>1, RowsGo
<1>3. PhotoTypeOK'
  <2>1. \A t \in Taps : tap[t].taken \subseteq store'
    BY <1>1, <1>2, LockedStay
  <2>2. picked' \in [FormPhotos -> {"fresh", "handle", "inline"}] /\ screener' \in [Screeners -> ScreenStates]
    BY <1>1, ScreensTyped DEF PhotoTypeOK
  <2> QED BY <1>1, <1>2, <2>1, <2>2, TapsTyped
<1> QED BY <1>1, <1>2, <1>3, TapsStay DEF PhotoBond

LEMMA RowExpiryKeeps == ASSUME PhotoTypeOK, PhotoBond, RowExpires PROVE PhotoTypeOK' /\ PhotoBond'
<1>1. PICK p \in store \ lapsed : lapsed' = lapsed \cup {p}
  BY DEF RowExpires
<1>2. UNCHANGED <<via, store, older, picked, screener, tap, waitsFor, finished, savedAs, cutOff, photoFaults>>
  BY DEF RowExpires
<1>3. RowsTyped'
  BY <1>1, <1>2, ScreensTyped DEF RowsTyped, Known, Underway
<1>4. PhotoTypeOK'
  <2>1. picked' \in [FormPhotos -> {"fresh", "handle", "inline"}] /\ screener' \in [Screeners -> ScreenStates]
    BY <1>2, ScreensTyped DEF PhotoTypeOK
  <2>2. \A t \in Taps : tap[t].taken \subseteq store'
    BY <1>2 DEF PhotoTypeOK
  <2> QED BY <1>2, <1>3, <2>1, <2>2, TapsTyped
<1>5. IsFiniteSet(store)' /\ Fits(screener, store)' /\ ScreensApart'
  BY <1>2 DEF PhotoBond, ScreensApart
<1> QED BY <1>2, <1>4, <1>5, TapsStay DEF PhotoBond

LEMMA StartsKeeps ==
  ASSUME PhotoTypeOK, PhotoBond, NEW k \in Screeners, NEW p \in FormPhotos \cup Strangers, ScreenStarts(k, p)
  PROVE  PhotoTypeOK' /\ PhotoBond'
<1> DEFINE total == Cardinality(store)
           now == [at |-> IF total < MaxStored THEN "store" ELSE "choose", of |-> p, total |-> total,
                   old |-> {}, oldest |-> {}]
<1>1. /\ screener[k].at = "idle" /\ p \notin store /\ screener' = [screener EXCEPT ![k] = now]
      /\ \A x \in Screeners : p # screener[x].of /\ p \notin screener[x].old \cup screener[x].oldest
      /\ older' = older \cup ((store \cup Underway) \X {p})
      /\ UNCHANGED <<via, store, lapsed, picked, tap, waitsFor, finished, savedAs, cutOff, photoFaults>>
  BY DEF ScreenStarts
<1>2. /\ total \in Nat /\ MaxStored \in Nat \ {0} /\ p \in AnyPhoto /\ p # NoPhoto
  BY StoreHoldsSome, NoPhotoIsNone, FS_CardinalityType DEF PhotoBond, AnyPhoto
<1>3. /\ now \in ScreenStates /\ now.of = p /\ now.at \in {"store", "choose"} /\ now.old = {} /\ now.oldest = {}
      /\ now.total = total /\ (now.at = "store" <=> total < MaxStored)
  BY <1>2 DEF ScreenStates
<1> HIDE DEF now
<1>4. screener' \in [Screeners -> ScreenStates] /\ \A x \in Screeners : screener'[x] = IF x = k THEN now ELSE screener[x]
  BY <1>1, <1>3, ScreensTyped
<1>5. RowsTyped'
  <2>1. Underway' = Underway \cup {p}
    <3>1. \A q : q \in Underway' <=> q # NoPhoto /\ \E x \in Screeners : screener'[x].of = q
      BY DEF Underway
    <3>2. \A q : q \in Underway <=> q # NoPhoto /\ \E x \in Screeners : screener[x].of = q
      BY DEF Underway
    <3>3. screener[k].of = NoPhoto
      BY <1>1 DEF PhotoBond, ScreensApart
    <3> QED BY <1>2, <1>3, <1>4, <3>1, <3>2, <3>3
  <2>2. Known' = Known \cup {p} /\ p \notin Known
    BY <1>1, <2>1 DEF Known, Underway
  <2>3. older' = older \cup (Known \X {p})
    BY <1>1 DEF Known
  <2>4. older' \subseteq Known' \X Known'
    BY <2>2, <2>3, ScreensTyped DEF RowsTyped
  <2>5. ASSUME NEW q \in Known', NEW r \in Known', q # r PROVE <<q, r>> \in older' <=> <<r, q>> \notin older'
    <3>1. older \subseteq Known \X Known /\ \A x, y \in Known : x # y => (<<x, y>> \in older <=> <<y, x>> \notin older)
      BY ScreensTyped DEF RowsTyped
    <3>2. CASE q = p
      BY <2>2, <2>3, <2>5, <3>1, <3>2
    <3>3. CASE r = p
      BY <2>2, <2>3, <2>5, <3>1, <3>3
    <3>4. CASE q # p /\ r # p
      BY <2>2, <2>3, <2>5, <3>1, <3>4
    <3> QED BY <3>2, <3>3, <3>4
  <2> QED BY <1>1, <2>4, <2>5, ScreensTyped DEF RowsTyped
<1>6. Fits(screener, store)'
  <2>1. ASSUME NEW v \in Nat, Promise(now, store) <= v
        PROVE  Cardinality(store) - v <= MaxStored - 1
    <3>1. CASE now.at = "store"
      <4>1. total < MaxStored
        BY <1>3, <3>1
      <4> QED BY <1>2, <4>1
    <3>2. CASE now.at = "choose"
      <4>1. total - MaxStored + 1 <= v
        BY <1>3, <2>1, <3>2 DEF Promise
      <4> QED BY <1>2, <4>1
    <3> QED BY <1>3, <3>1, <3>2
  <2>2. Fits([screener EXCEPT ![k] = now], store)
    BY <1>3, <2>1, ScreensTyped, ScreenMayGoOn
  <2> QED BY <1>1, <2>2
<1>7. ScreensApart'
  <2>1. IsFiniteSet(now.old)
    BY <1>3, FS_EmptySet
  <2>2. \A x \in Screeners : screener'[x] = IF x = k THEN now ELSE screener[x]
    BY <1>4
  <2>3. /\ \A x \in Screeners : screener[x].at = "idle" <=> screener[x].of = NoPhoto
        /\ \A x \in Screeners : IsFiniteSet(screener[x].old)
        /\ \A x \in Screeners : screener[x].at # "idle" =>
             /\ screener[x].of \notin store
             /\ \A y \in Screeners : /\ y # x => screener[y].of # screener[x].of
                                     /\ screener[x].of \notin screener[y].old \cup screener[y].oldest
    BY DEF PhotoBond, ScreensApart
  <2>4. now.at # "idle" /\ now.of # NoPhoto
    BY <1>2, <1>3
  <2>5. ASSUME NEW x \in Screeners, screener'[x].at # "idle", NEW y \in Screeners
        PROVE  /\ screener'[x].of \notin store
               /\ y # x => screener'[y].of # screener'[x].of
               /\ screener'[x].of \notin screener'[y].old \cup screener'[y].oldest
    <3>1. CASE x = k
      BY <1>1, <1>3, <2>2, <3>1
    <3>2. CASE x # k
      BY <1>1, <1>3, <2>2, <2>3, <2>5, <3>2
    <3> QED BY <3>1, <3>2
  <2>6. UNCHANGED store
    BY <1>1
  <2> QED BY <2>1, <2>2, <2>3, <2>4, <2>5, <2>6 DEF ScreensApart
<1>8. PhotoTypeOK'
  <2>1. picked' \in [FormPhotos -> {"fresh", "handle", "inline"}] /\ \A t \in Taps : tap[t].taken \subseteq store'
    BY <1>1 DEF PhotoTypeOK
  <2> QED BY <1>1, <1>4, <1>5, <2>1, TapsTyped
<1> QED BY <1>1, <1>6, <1>7, <1>8, TapsStay DEF PhotoBond

(* Two sets apart have the sum of their numbers together.                    *)
LEMMA DisjointSum ==
  ASSUME NEW S, IsFiniteSet(S), NEW T, IsFiniteSet(T), S \cap T = {}
  PROVE  Cardinality(S \cup T) = Cardinality(S) + Cardinality(T)
<1>1. Cardinality(S \cup T) = Cardinality(S) + Cardinality(T) - Cardinality(S \cap T)
  BY FS_Union
<1>2. Cardinality(S \cap T) = 0 /\ Cardinality(S) \in Nat /\ Cardinality(T) \in Nat
  BY FS_EmptySet, FS_CardinalityType
<1> QED BY <1>1, <1>2

LEMMA ChoosesKeeps ==
  ASSUME PhotoTypeOK, PhotoBond, NEW k \in Screeners, ScreenChooses(k) PROVE PhotoTypeOK' /\ PhotoBond'
<1> DEFINE s == screener[k]
           over == OverCap(s.total, Cardinality(lapsed))
           now == [s EXCEPT !.old = lapsed, !.at = IF over <= 0 THEN "store" ELSE "evict"]
<1>1. /\ s.at = "choose" /\ screener' = [screener EXCEPT ![k] = now]
      /\ UNCHANGED <<via, rowVars, picked, tap, waitsFor, finished, savedAs, cutOff, photoFaults>>
  BY ScreensTyped DEF ScreenChooses, ScreenStates
<1>2. /\ s \in ScreenStates /\ lapsed \subseteq store /\ lapsed \subseteq AnyPhoto
      /\ IsFiniteSet(lapsed) /\ Cardinality(lapsed) \in Nat
  BY ScreensTyped, FS_Subset, FS_CardinalityType DEF RowsTyped
<1>3. /\ now \in ScreenStates /\ now.of = s.of /\ now.at = (IF over <= 0 THEN "store" ELSE "evict")
      /\ now.old = lapsed /\ now.oldest = s.oldest /\ now.total = s.total
  BY <1>2 DEF ScreenStates
<1>4. over \in Int /\ over = s.total - Cardinality(lapsed) - MaxStored + 1 /\ s.total \in Nat /\ MaxStored \in Nat
  BY <1>2, StoreHoldsSome DEF OverCap, ScreenStates
<1> HIDE DEF now
<1>5. screener' \in [Screeners -> ScreenStates] /\ \A x \in Screeners : screener'[x] = IF x = k THEN now ELSE screener[x]
  BY <1>1, <1>3, ScreensTyped
<1>6. RowsTyped'
  <2>1. Underway' = Underway
    BY <1>3, <1>5 DEF Underway
  <2> QED BY <1>1, <2>1, ScreensTyped DEF RowsTyped, Known, rowVars
<1>7. Fits(screener, store)'
  <2>1. Promise(s, store) <= Promise(now, store) /\ Promise(s, store) \in Int /\ Promise(now, store) \in Int
    <3>1. Promise(s, store) = s.total - MaxStored + 1
      BY <1>1 DEF Promise
    <3>2. lapsed \cap store = lapsed
      BY <1>2
    <3>3. CASE over <= 0
      <4>1. Promise(now, store) = Cardinality((lapsed \cup s.oldest) \cap store)
        BY <1>3, <3>3 DEF Promise
      <4>2. /\ IsFiniteSet((lapsed \cup s.oldest) \cap store) /\ lapsed \subseteq (lapsed \cup s.oldest) \cap store
        BY <1>2, ScreensTyped, FS_Subset
      <4>3. /\ Cardinality(lapsed) <= Promise(now, store) /\ Promise(now, store) \in Nat
        BY <4>1, <4>2, FS_Subset, FS_CardinalityType
      <4> QED BY <1>2, <1>4, <3>1, <3>3, <4>3
    <3>4. CASE ~(over <= 0)
      <4>1. Promise(now, store) = over + Cardinality(lapsed)
        BY <1>3, <3>2, <3>4 DEF Promise
      <4> HIDE DEF over
      <4> QED BY <1>2, <1>4, <3>1, <4>1
    <3> QED BY <3>3, <3>4
  <2>2. ASSUME NEW v \in Nat, Promise(now, store) <= v PROVE Promise(s, store) <= v
    <3>1. \A a, b \in Int : a <= b /\ b <= v => a <= v
      OBVIOUS
    <3> QED BY <2>1, <2>2, <3>1
  <2>3. Fits([screener EXCEPT ![k] = now], store)
    <3>1. screener[k].at # "idle"
      BY <1>1
    <3> QED BY <1>3, <2>2, <3>1, ScreensTyped, ScreenMayGoOn
  <2> QED BY <1>1, <2>3 DEF rowVars
<1>8. ScreensApart'
  <2>1. \A x \in Screeners : screener'[x].of = screener[x].of /\ (screener'[x].at = "idle" <=> screener[x].at = "idle")
    BY <1>1, <1>3, <1>5
  <2>2. \A x \in Screeners : screener'[x].old \subseteq screener[x].old \cup store /\ screener'[x].oldest = screener[x].oldest
    BY <1>2, <1>3, <1>5
  <2>3. \A x \in Screeners : IsFiniteSet(screener'[x].old)
    BY <1>2, <1>3, <1>5, ScreensTyped
  <2> QED BY <1>1, <2>1, <2>2, <2>3 DEF PhotoBond, ScreensApart, rowVars
<1>9. PhotoTypeOK'
  <2>1. picked' \in [FormPhotos -> {"fresh", "handle", "inline"}] /\ \A t \in Taps : tap[t].taken \subseteq store'
    BY <1>1 DEF PhotoTypeOK, rowVars
  <2> QED BY <1>1, <1>5, <1>6, <2>1, TapsTyped
<1> QED BY <1>1, <1>7, <1>8, <1>9, TapsStay DEF PhotoBond, rowVars

(* The second look chooses no more rows than the first one found too many.   *)
LEMMA EvictsKeeps ==
  ASSUME PhotoTypeOK, PhotoBond, NEW k \in Screeners, ScreenEvicts(k) PROVE PhotoTypeOK' /\ PhotoBond'
<1> DEFINE s == screener[k]
           over == OverCap(s.total, Cardinality(s.old))
           rest == store \ s.old
<1>1. /\ s.at = "evict"
      /\ UNCHANGED <<via, rowVars, picked, tap, waitsFor, finished, savedAs, cutOff, photoFaults>>
  BY DEF ScreenEvicts
<1>2. PICK first \in OldestOf(rest, over) : screener' = [screener EXCEPT ![k].oldest = first, ![k].at = "store"]
  BY DEF ScreenEvicts
<1> DEFINE now == [s EXCEPT !.oldest = first, !.at = "store"]
<1>3. /\ first \subseteq rest /\ Cardinality(first) = Fewer(over, Cardinality(rest)) /\ first \subseteq AnyPhoto
  BY <1>2, ScreensTyped DEF OldestOf, RowsTyped
<1>4. s \in ScreenStates /\ screener' = [screener EXCEPT ![k] = now]
  BY <1>2, ScreensTyped DEF ScreenStates
<1>5. /\ now \in ScreenStates /\ now.of = s.of /\ now.at = "store" /\ now.old = s.old /\ now.oldest = first
  BY <1>3, <1>4 DEF ScreenStates
<1> HIDE DEF now
<1>6. screener' \in [Screeners -> ScreenStates] /\ \A x \in Screeners : screener'[x] = IF x = k THEN now ELSE screener[x]
  BY <1>4, <1>5, ScreensTyped
<1>7. RowsTyped'
  <2>1. Underway' = Underway
    BY <1>5, <1>6 DEF Underway
  <2> QED BY <1>1, <2>1, ScreensTyped DEF RowsTyped, Known, rowVars
<1>8. Fits(screener, store)'
  <2>1. /\ IsFiniteSet(rest) /\ IsFiniteSet(s.old \cap store) /\ IsFiniteSet(first)
        /\ Cardinality(rest) \in Nat /\ Cardinality(s.old \cap store) \in Nat /\ Cardinality(first) \in Nat
    <3>1. rest \subseteq store /\ s.old \cap store \subseteq store /\ first \subseteq store
      BY <1>3
    <3> QED BY <3>1, ScreensTyped, FS_Subset, FS_CardinalityType
  <2>2. Cardinality(store) = Cardinality(s.old \cap store) + Cardinality(rest)
    <3>1. store = (s.old \cap store) \cup rest /\ (s.old \cap store) \cap rest = {}
      OBVIOUS
    <3> HIDE DEF rest
    <3> QED BY <2>1, <3>1, DisjointSum
  <2>3. Promise(now, store) = Cardinality(s.old \cap store) + Cardinality(first)
    <3>1. (s.old \cup first) \cap store = (s.old \cap store) \cup first /\ (s.old \cap store) \cap first = {}
      BY <1>3
    <3>2. Cardinality((s.old \cap store) \cup first) = Cardinality(s.old \cap store) + Cardinality(first)
      BY <2>1, <3>1, DisjointSum
    <3> QED BY <1>5, <3>1, <3>2 DEF Promise
  <2>4. Promise(s, store) = over + Cardinality(s.old \cap store) /\ over \in Int
    <3>1. Cardinality(s.old) \in Nat
      BY ScreensTyped, FS_CardinalityType
    <3> QED BY <1>1, <1>4, <3>1, StoreHoldsSome DEF Promise, OverCap, ScreenStates
  <2>5. ASSUME NEW v \in Nat, Promise(now, store) <= v
        PROVE  Cardinality(store) - v <= MaxStored - 1 \/ Promise(s, store) <= v
    <3> HIDE DEF over, rest
    <3>1. MaxStored \in Nat \ {0}
      BY StoreHoldsSome
    <3>2. CASE Cardinality(first) = over
      BY <2>1, <2>3, <2>4, <2>5, <3>2
    <3>3. CASE Cardinality(first) = Cardinality(rest)
      <4>1. Cardinality(store) <= v /\ Cardinality(store) \in Nat
        BY <2>1, <2>2, <2>3, <2>5, <3>3
      <4> QED BY <3>1, <4>1
    <3> QED BY <1>3, <3>2, <3>3 DEF Fewer
  <2>6. Fits([screener EXCEPT ![k] = now], store)
    <3>1. screener[k].at # "idle"
      BY <1>1
    <3> QED BY <1>5, <2>5, <3>1, ScreensTyped, ScreenMayGoOn
  <2> QED BY <1>1, <1>4, <2>6 DEF rowVars
<1>9. ScreensApart'
  <2>1. \A x \in Screeners : screener'[x].of = screener[x].of /\ (screener'[x].at = "idle" <=> screener[x].at = "idle")
    BY <1>1, <1>5, <1>6
  <2>2. \A x \in Screeners : screener'[x].oldest \subseteq screener[x].oldest \cup store /\ screener'[x].old = screener[x].old
    BY <1>3, <1>5, <1>6
  <2> QED BY <1>1, <2>1, <2>2 DEF PhotoBond, ScreensApart, rowVars
<1>10. PhotoTypeOK'
  <2>1. picked' \in [FormPhotos -> {"fresh", "handle", "inline"}] /\ \A t \in Taps : tap[t].taken \subseteq store'
    BY <1>1 DEF PhotoTypeOK, rowVars
  <2> QED BY <1>1, <1>6, <1>7, <2>1, TapsTyped
<1> QED BY <1>1, <1>8, <1>9, <1>10, TapsStay DEF PhotoBond, rowVars

(* The row is stored after what the screening chose was deleted.             *)
LEMMA StoresKeeps ==
  ASSUME PhotoTypeOK, PhotoBond, NEW k \in Screeners, ScreenStores(k) PROVE PhotoTypeOK' /\ PhotoBond'
<1> DEFINE s == screener[k]
           gone == s.old \cup s.oldest
<1>1. /\ s.at = "store" /\ gone \cap LockedRows = {} /\ RowsChange(gone, {s.of})
      /\ screener' = [screener EXCEPT ![k] = IdleScreener]
      /\ UNCHANGED <<via, tap, waitsFor, finished, savedAs, cutOff, photoFaults>>
  BY DEF ScreenStores
<1>2. picked' \in [FormPhotos -> {"fresh", "handle", "inline"}]
  BY DEF ScreenStores, PhotoTypeOK
<1>3. /\ s \in ScreenStates /\ s.of # NoPhoto /\ s.of \in AnyPhoto /\ s.of \notin store /\ s.of \notin gone
      /\ \A x \in Screeners : x # k => screener[x].of # s.of
  BY <1>1, ScreensTyped DEF ScreenStates, ScreensApart
<1>4. /\ store' = (store \ gone) \cup {s.of} /\ lapsed' = lapsed \ gone
      /\ older' = {e \in older : e[1] \notin gone /\ e[2] \notin gone}
  BY <1>1 DEF RowsChange
<1>5. /\ screener' \in [Screeners -> ScreenStates]
      /\ \A x \in Screeners : screener'[x] = IF x = k THEN IdleScreener ELSE screener[x]
  BY <1>1, ScreensTyped DEF IdleScreener, ScreenStates
<1>6. RowsTyped'
  <2>1. Underway \cap gone = {}
    <3>1. \A x \in Screeners : screener[x].at # "idle" => screener[x].of \notin gone
      BY DEF PhotoBond, ScreensApart
    <3> QED BY <3>1, UnderwayIs DEF PhotoBond
  <2>2. Underway' = Underway \ {s.of}
    <3>1. \A q : q \in Underway' <=> q # NoPhoto /\ \E x \in Screeners : screener'[x].of = q
      BY DEF Underway
    <3>2. \A q : q \in Underway <=> q # NoPhoto /\ \E x \in Screeners : screener[x].of = q
      BY DEF Underway
    <3>3. IdleScreener.of = NoPhoto
      BY DEF IdleScreener
    <3> QED BY <1>3, <1>5, <3>1, <3>2, <3>3
  <2>3. s.of \in Underway
    BY <1>3 DEF Underway
  <2>4. Known' = Known \ gone
    BY <1>3, <1>4, <2>1, <2>2, <2>3 DEF Known
  <2>5. \A p, q \in Known \ gone : <<p, q>> \in older' <=> <<p, q>> \in older
    BY <1>4
  <2>6. older' \subseteq Known' \X Known'
    BY <1>4, <2>4, ScreensTyped DEF RowsTyped
  <2>7. \A p, q \in Known' : p # q => (<<p, q>> \in older' <=> <<q, p>> \notin older')
    BY <2>4, <2>5, ScreensTyped DEF RowsTyped
  <2>8. store' \subseteq AnyPhoto /\ lapsed' \subseteq store'
    BY <1>3, <1>4, ScreensTyped DEF RowsTyped
  <2> QED BY <2>6, <2>7, <2>8 DEF RowsTyped
<1>7. Fits(screener, store)' /\ IsFiniteSet(store)'
  <2> HIDE DEF gone
  <2>1. gone = screener[k].old \cup screener[k].oldest /\ screener[k].at = "store"
    BY <1>1 DEF gone
  <2>2. Fits([screener EXCEPT ![k] = IdleScreener], store') /\ IsFiniteSet(store')
    BY <1>4, <2>1, ScreensTyped, ScreenMayStore
  <2> QED BY <1>1, <2>2
<1>8. ScreensApart'
  <2>1. IdleScreener.at = "idle" /\ IdleScreener.of = NoPhoto /\ IdleScreener.old = {} /\ IdleScreener.oldest = {}
    BY DEF IdleScreener
  <2>2. IsFiniteSet(IdleScreener.old)
    BY <2>1, FS_EmptySet
  <2>3. /\ \A x \in Screeners : screener[x].at = "idle" <=> screener[x].of = NoPhoto
        /\ \A x \in Screeners : IsFiniteSet(screener[x].old)
        /\ \A x \in Screeners : screener[x].at # "idle" =>
             /\ screener[x].of \notin store
             /\ \A y \in Screeners : /\ y # x => screener[y].of # screener[x].of
                                     /\ screener[x].of \notin screener[y].old \cup screener[y].oldest
    BY DEF PhotoBond, ScreensApart
  <2>4. ASSUME NEW x \in Screeners, screener'[x].at # "idle", NEW y \in Screeners
        PROVE  /\ screener'[x].of \notin store'
               /\ y # x => screener'[y].of # screener'[x].of
               /\ screener'[x].of \notin screener'[y].old \cup screener'[y].oldest
    <3>1. x # k /\ screener'[x] = screener[x]
      BY <1>5, <2>1, <2>4
    <3>2. screener[x].of # s.of /\ screener[x].of # NoPhoto /\ screener[x].at # "idle"
      BY <1>3, <2>3, <2>4, <3>1
    <3> QED BY <1>4, <1>5, <2>1, <2>3, <3>1, <3>2
  <2> QED BY <1>5, <2>1, <2>2, <2>3, <2>4 DEF ScreensApart
<1>9. PhotoTypeOK'
  <2>1. \A t \in Taps : tap[t].taken \subseteq store'
    BY <1>1, <1>4, LockedStay
  <2> QED BY <1>1, <1>2, <1>5, <1>6, <2>1, TapsTyped
<1> QED BY <1>1, <1>7, <1>8, <1>9, TapsStay DEF PhotoBond

-----------------------------------------------------------------------------
TapStates(rows) ==
  [at : {"unused", "resolve", "screen", "save", "saved", "over"}, again : BOOLEAN,
   inline : SUBSET Photos, taken : SUBSET rows, looked : SUBSET Photos, clear : SUBSET Photos]

(* One press goes on and the table, the screenings and the reports stay.      *)
LEMMA TapGoesOn ==
  ASSUME PhotoTypeOK, PhotoBond, NEW t \in Taps, NEW now \in TapStates(store), tap' = [tap EXCEPT ![t] = now],
         UNCHANGED <<via, rowVars, picked, screener, savedAs, cutOff>>,
         waitsFor' \in Taps \cup {NoTap}, finished' \in BOOLEAN, photoFaults' \in 0..MaxPhotoFaults,
         \A u \in Taps \ {t} : now.taken \cap tap[u].taken = {},
         now.at \notin {"screen", "save"} => now.taken = {},
         now.at \in {"screen", "save"} => now.taken = Sent \ now.inline,
         now.at = "save" => now.clear \subseteq now.inline /\ Cardinality(now.clear) <= MaxImages,
         via = "direct" /\ now.at \in {"resolve", "screen", "save"} => now.inline = Sent,
         now.inline \subseteq Sent
  PROVE  PhotoTypeOK' /\ PhotoBond'
<1>1. /\ \A u \in Taps : tap'[u] = IF u = t THEN now ELSE tap[u]
      /\ \A u \in Taps : tap'[u] \in TapStates(store)
  BY DEF PhotoTypeOK, TapStates
<1>2. PhotoTypeOK'
  <2>1. \A x \in Taps : \A u \in Taps \ {x} : tap'[x].taken \cap tap'[u].taken = {}
    BY <1>1 DEF PhotoTypeOK
  <2>2. tap' \in [Taps -> TapStates(store')] /\ UNCHANGED <<store, lapsed, older, Underway>>
    BY <1>1 DEF rowVars, Underway, PhotoTypeOK
  <2> QED BY <2>1, <2>2 DEF PhotoTypeOK, TapStates
<1>3. TapsInOrder'
  <2>1. Sent' = Sent
    BY DEF Sent
  <2> QED BY <1>1, <2>1 DEF PhotoBond, TapsInOrder, Redeeming
<1>4. PhotosAccounted'
  BY DEF PhotoBond, PhotosAccounted, Sent
<1>5. IsFiniteSet(store)' /\ Fits(screener, store)' /\ ScreensApart'
  BY DEF PhotoBond, ScreensApart, rowVars
<1> QED BY <1>2, <1>3, <1>4, <1>5 DEF PhotoBond

(* What is known of a press.                                                 *)
LEMMA TapsKnown ==
  ASSUME PhotoTypeOK, PhotoBond, NEW t \in Taps
  PROVE  /\ tap[t] \in TapStates(store) /\ tap[t].inline \subseteq Sent /\ Sent \subseteq Photos
         /\ ~Redeeming(t) => tap[t].taken = {}
         /\ Redeeming(t) => tap[t].taken = Sent \ tap[t].inline
         /\ tap[t].at = "save" => tap[t].clear \subseteq tap[t].inline /\ Cardinality(tap[t].clear) <= MaxImages
         /\ via = "direct" /\ tap[t].at \in {"resolve", "screen", "save"} => tap[t].inline = Sent
         /\ \A u \in Taps \ {t} : tap[t].taken \cap tap[u].taken = {}
  BY FormHoldsFew DEF PhotoTypeOK, PhotoBond, TapsInOrder, TapStates, Sent

(* The steps of a press, one by one.                                         *)
LEMMA PressKeeps ==
  ASSUME PhotoTypeOK, PhotoBond, NEW t \in Taps, PressSubmit(t) PROVE PhotoTypeOK' /\ PhotoBond'
<1> DEFINE inline == {p \in Sent : via = "direct" \/ picked[p] = "inline"}
           now == [tap[t] EXCEPT !.at = "resolve", !.inline = inline]
<1>1. /\ tap[t].at = "unused" /\ waitsFor' = t
      /\ tap' = [tap EXCEPT ![t].at = "resolve", ![t].inline = inline]
      /\ UNCHANGED <<via, rowVars, picked, screener, finished, savedAs, cutOff, photoFaults>>
  BY DEF PressSubmit
<1>2. tap' = [tap EXCEPT ![t] = now]
  BY <1>1, TapsKnown DEF TapStates, PhotoTypeOK
<1>3. /\ now \in TapStates(store) /\ now.at = "resolve" /\ now.inline = inline /\ now.taken = tap[t].taken
  BY TapsKnown DEF TapStates
<1>4. tap[t].taken = {} /\ (via = "direct" => inline = Sent)
  BY <1>1, TapsKnown DEF Redeeming
<1> HIDE DEF now
<1>5. finished' \in BOOLEAN /\ photoFaults' \in 0..MaxPhotoFaults
  BY <1>1 DEF PhotoTypeOK
<1> QED BY <1>1, <1>2, <1>3, <1>4, <1>5, TapGoesOn

LEMMA OverKeeps ==
  ASSUME PhotoTypeOK, PhotoBond, NEW t \in Taps, tap' = [tap EXCEPT ![t] = OverTap], Answered(t),
         UNCHANGED <<via, rowVars, picked, screener, finished, savedAs, cutOff>>,
         photoFaults' \in 0..MaxPhotoFaults
  PROVE  PhotoTypeOK' /\ PhotoBond'
<1>1. /\ OverTap \in TapStates(store) /\ OverTap.at = "over" /\ OverTap.taken = {} /\ OverTap.inline = {}
  BY DEF OverTap, NewTap, TapStates
<1>2. waitsFor' \in Taps \cup {NoTap} /\ finished' \in BOOLEAN
  BY DEF Answered, PhotoTypeOK
<1> QED BY <1>1, <1>2, TapGoesOn

LEMMA RedeemKeeps ==
  ASSUME PhotoTypeOK, PhotoBond, NEW t \in Taps, RedeemHandles(t) PROVE PhotoTypeOK' /\ PhotoBond'
<1>1. /\ tap[t].at = "resolve" /\ (Sent \ tap[t].inline) \cap LockedRows = {}
      /\ UNCHANGED <<via, rowVars, picked, screener, finished, savedAs, cutOff, photoFaults>>
  BY DEF RedeemHandles
<1>2. finished' \in BOOLEAN /\ photoFaults' \in 0..MaxPhotoFaults
  BY <1>1 DEF PhotoTypeOK
<1>3. tap[t].taken = {}
  BY <1>1, TapsKnown DEF Redeeming
<1>4. CASE StaleHandles(t) = {}
  <2> DEFINE taken == (Sent \ tap[t].inline) \cap store
             now == [tap[t] EXCEPT !.at = "screen", !.taken = taken]
  <2>1. /\ tap' = [tap EXCEPT ![t].at = "screen", ![t].taken = taken] /\ UNCHANGED waitsFor
    BY <1>4 DEF RedeemHandles
  <2>2. tap' = [tap EXCEPT ![t] = now]
    BY <2>1, TapsKnown DEF TapStates, PhotoTypeOK
  <2>3. /\ now \in TapStates(store) /\ now.at = "screen" /\ now.inline = tap[t].inline /\ now.taken = taken
    BY TapsKnown DEF TapStates
  <2>4. taken = Sent \ tap[t].inline
    BY <1>4 DEF StaleHandles
  <2>5. \A u \in Taps \ {t} : taken \cap tap[u].taken = {}
    BY <1>1, TapsKnown DEF LockedRows, Redeeming
  <2> HIDE DEF now, taken
  <2>6. waitsFor' \in Taps \cup {NoTap} /\ (via = "direct" => now.inline = Sent) /\ now.inline \subseteq Sent
    BY <1>1, <2>1, <2>3, TapsKnown DEF PhotoTypeOK
  <2>7. \A u \in Taps \ {t} : now.taken \cap tap[u].taken = {}
    BY <2>3, <2>5
  <2>8. now.taken = Sent \ now.inline /\ now.at # "save"
    BY <2>3, <2>4
  <2> QED BY <1>1, <1>2, <2>2, <2>3, <2>6, <2>7, <2>8, TapGoesOn
<1>5. CASE StaleHandles(t) # {} /\ waitsFor = t /\ ~tap[t].again
  <2> DEFINE inline == tap[t].inline \cup StaleHandles(t)
             now == [tap[t] EXCEPT !.again = TRUE, !.inline = inline]
  <2>1. /\ tap' = [tap EXCEPT ![t].again = TRUE, ![t].inline = inline] /\ UNCHANGED waitsFor
    BY <1>5 DEF RedeemHandles
  <2>2. tap' = [tap EXCEPT ![t] = now]
    BY <2>1, TapsKnown DEF TapStates, PhotoTypeOK
  <2>3. StaleHandles(t) \subseteq Sent
    BY DEF StaleHandles
  <2>4. /\ now \in TapStates(store) /\ now.at = "resolve" /\ now.inline = inline /\ now.taken = {}
    BY <1>1, <1>3, <2>3, TapsKnown DEF TapStates
  <2>5. inline \subseteq Sent /\ (via = "direct" => inline = Sent)
    BY <1>1, <2>3, TapsKnown
  <2> HIDE DEF now, inline
  <2>6. waitsFor' \in Taps \cup {NoTap} /\ \A u \in Taps \ {t} : now.taken \cap tap[u].taken = {}
    BY <2>1, <2>4 DEF PhotoTypeOK
  <2>7. now.at \notin {"screen", "save"} /\ now.taken = {} /\ now.inline \subseteq Sent
        /\ (via = "direct" => now.inline = Sent)
    BY <2>4, <2>5
  <2> QED BY <1>1, <1>2, <2>2, <2>4, <2>6, <2>7, TapGoesOn
<1>6. CASE StaleHandles(t) # {} /\ ~(waitsFor = t /\ ~tap[t].again)
  <2>1. tap' = [tap EXCEPT ![t] = OverTap] /\ Answered(t)
    BY <1>6 DEF RedeemHandles
  <2> QED BY <1>1, <1>2, <2>1, OverKeeps
<1> QED BY <1>4, <1>5, <1>6

LEMMA OriginalsKeeps ==
  ASSUME PhotoTypeOK, PhotoBond, NEW t \in Taps, ScreenOriginals(t) PROVE PhotoTypeOK' /\ PhotoBond'
<1>1. /\ tap[t].at = "screen"
      /\ UNCHANGED <<via, rowVars, picked, screener, waitsFor, finished, savedAs, cutOff, photoFaults>>
  BY DEF ScreenOriginals
<1>2. PICK looked \in SUBSET tap[t].inline, clear \in SUBSET tap[t].inline :
        /\ clear \subseteq looked /\ Cardinality(looked) = Fewer(MaxImages, Cardinality(tap[t].inline))
        /\ tap' = [tap EXCEPT ![t].at = "save", ![t].looked = looked, ![t].clear = clear]
  BY DEF ScreenOriginals
<1> DEFINE now == [tap[t] EXCEPT !.at = "save", !.looked = looked, !.clear = clear]
<1>3. tap' = [tap EXCEPT ![t] = now]
  BY <1>2, TapsKnown DEF TapStates, PhotoTypeOK
<1>4. /\ now \in TapStates(store) /\ now.at = "save" /\ now.inline = tap[t].inline /\ now.taken = tap[t].taken
      /\ now.clear = clear
  BY <1>2, TapsKnown DEF TapStates
<1> HIDE DEF now
<1>5. Cardinality(clear) <= MaxImages
  <2>1. looked \subseteq Photos /\ clear \subseteq looked /\ tap[t].inline \subseteq Photos
    BY <1>2, TapsKnown DEF TapStates
  <2>2. /\ IsFiniteSet(looked) /\ Cardinality(clear) <= Cardinality(looked)
        /\ Cardinality(clear) \in Nat /\ Cardinality(looked) \in Nat /\ Cardinality(tap[t].inline) \in Nat
    <3>1. IsFiniteSet(looked) /\ IsFiniteSet(tap[t].inline)
      BY <2>1, PhotosAreFinite, FS_Subset
    <3> QED BY <2>1, <3>1, FS_Subset, FS_CardinalityType
  <2>3. MaxImages \in Nat
    BY PhotosAreFinite
  <2> QED BY <1>2, <2>2, <2>3 DEF Fewer
<1>6. /\ waitsFor' \in Taps \cup {NoTap} /\ finished' \in BOOLEAN /\ photoFaults' \in 0..MaxPhotoFaults
  BY <1>1 DEF PhotoTypeOK
<1>7. /\ \A u \in Taps \ {t} : now.taken \cap tap[u].taken = {}
      /\ now.taken = Sent \ now.inline /\ now.inline \subseteq Sent /\ (via = "direct" => now.inline = Sent)
      /\ now.clear \subseteq now.inline
  BY <1>1, <1>4, TapsKnown DEF Redeeming
<1> QED BY <1>1, <1>3, <1>4, <1>5, <1>6, <1>7, TapGoesOn

LEMMA FaultCounts ==
  ASSUME PhotoTypeOK, PhotoFault PROVE photoFaults' \in 0..MaxPhotoFaults
  BY StoreHoldsSome DEF PhotoTypeOK, PhotoFault

LEMMA FailsKeeps ==
  ASSUME PhotoTypeOK, PhotoBond, NEW t \in Taps, SubmitFails(t) PROVE PhotoTypeOK' /\ PhotoBond'
  BY FaultCounts, OverKeeps DEF SubmitFails

LEMMA AnswerKeeps ==
  ASSUME PhotoTypeOK, PhotoBond, NEW t \in Taps, SubmitAnswered(t) \/ SubmitAnswerLost(t)
  PROVE  PhotoTypeOK' /\ PhotoBond'
<1>1. /\ UNCHANGED <<via, rowVars, picked, screener, tap, savedAs, cutOff>>
      /\ waitsFor' = NoTap /\ finished' \in BOOLEAN /\ photoFaults' \in 0..MaxPhotoFaults
  BY FaultCounts DEF SubmitAnswered, SubmitAnswerLost, PhotoTypeOK
<1>2. PhotoTypeOK'
  <2>1. UNCHANGED <<via, store, lapsed, older, picked, screener, tap, savedAs, cutOff>> /\ Underway' = Underway
    BY <1>1 DEF rowVars, Underway
  <2> QED BY <1>1, <2>1 DEF PhotoTypeOK
<1>3. IsFiniteSet(store)' /\ Fits(screener, store)' /\ ScreensApart'
  BY <1>1 DEF PhotoBond, ScreensApart, rowVars
<1> QED BY <1>1, <1>2, <1>3, TapsStay DEF PhotoBond

(* A request commits: the rows it redeemed go, and it holds none.            *)
LEMMA CommitGoes ==
  ASSUME PhotoTypeOK, PhotoBond, NEW t \in Taps, RowsChange(tap[t].taken, {}), UNCHANGED screener,
         NEW now \in TapStates({}), now.at \in {"saved", "over"}, now.inline = {},
         now.taken = {}, tap' = [tap EXCEPT ![t] = now],
         UNCHANGED <<via, picked, finished, photoFaults>>, waitsFor' \in Taps \cup {NoTap},
         savedAs' \in [Taps -> [saved : BOOLEAN, media : SUBSET Photos, waiting : SUBSET Photos]],
         \A u \in Taps : Cardinality(savedAs'[u].media) <= MaxImages /\ Cardinality(savedAs'[u].waiting) <= MaxImages,
         cutOff' \in [Taps -> SUBSET Photos], PhotosAccounted'
  PROVE  PhotoTypeOK' /\ PhotoBond'
<1>1. tap[t].taken \in SUBSET store
  BY TapsKnown DEF TapStates
<1>2. RowsTyped' /\ IsFiniteSet(store)' /\ Fits(screener, store)' /\ ScreensApart' /\ store' = store \ tap[t].taken
  BY <1>1, RowsGo
<1>3. /\ \A u \in Taps : tap'[u] = IF u = t THEN now ELSE tap[u]
      /\ \A u \in Taps \ {t} : tap[u].taken \subseteq store'
  BY <1>2, TapsKnown DEF PhotoTypeOK, TapStates
<1>4. tap' \in [Taps -> TapStates(store')]
  <2>1. \A u \in Taps : tap[u] \in TapStates(store)
    BY TapsKnown
  <2>2. \A u \in Taps : tap'[u] \in TapStates(store')
    BY <1>3, <2>1 DEF TapStates
  <2> QED BY <2>2 DEF PhotoTypeOK
<1>5. PhotoTypeOK'
  <2>1. \A x \in Taps : \A u \in Taps \ {x} : tap'[x].taken \cap tap'[u].taken = {}
    BY <1>3 DEF PhotoTypeOK
  <2> QED BY <1>2, <1>4, <2>1 DEF PhotoTypeOK, TapStates, RowsTyped, Known, AnyPhoto
<1>6. TapsInOrder'
  <2>1. Sent' = Sent
    BY DEF Sent
  <2> QED BY <1>3, <2>1 DEF PhotoBond, TapsInOrder, Redeeming
<1> QED BY <1>2, <1>5, <1>6 DEF PhotoBond

LEMMA RedirectKeeps ==
  ASSUME PhotoTypeOK, PhotoBond, NEW t \in Taps, RedirectSubmit(t) PROVE PhotoTypeOK' /\ PhotoBond'
<1>1. /\ OverTap \in TapStates({}) /\ OverTap.at = "over" /\ OverTap.inline = {} /\ OverTap.taken = {}
  BY DEF OverTap, NewTap, TapStates
<1>2. /\ RowsChange(tap[t].taken, {}) /\ tap' = [tap EXCEPT ![t] = OverTap] /\ Answered(t)
      /\ UNCHANGED <<via, picked, screener, finished, savedAs, cutOff, photoFaults>>
  BY DEF RedirectSubmit
<1>3. PhotosAccounted'
  BY <1>2 DEF PhotoBond, PhotosAccounted, Sent
<1>4. /\ waitsFor' \in Taps \cup {NoTap} /\ cutOff' \in [Taps -> SUBSET Photos]
      /\ savedAs' \in [Taps -> [saved : BOOLEAN, media : SUBSET Photos, waiting : SUBSET Photos]]
      /\ \A u \in Taps : Cardinality(savedAs'[u].media) <= MaxImages /\ Cardinality(savedAs'[u].waiting) <= MaxImages
  BY <1>2 DEF Answered, PhotoTypeOK
<1> QED BY <1>1, <1>2, <1>3, <1>4, CommitGoes

LEMMA SaveKeeps ==
  ASSUME PhotoTypeOK, PhotoBond, NEW t \in Taps, SaveReport(t) PROVE PhotoTypeOK' /\ PhotoBond'
<1> DEFINE saved == [NewTap EXCEPT !.at = "saved"]
           media == tap[t].taken \cup tap[t].clear
<1>1. /\ tap[t].at = "save" /\ RowsChange(tap[t].taken, {}) /\ tap' = [tap EXCEPT ![t] = saved]
      /\ UNCHANGED <<via, picked, screener, waitsFor, finished, photoFaults>>
  BY DEF SaveReport
<1>2. PICK waiting \in SUBSET Held(t) :
        /\ Cardinality(waiting) = Fewer(MaxImages, Cardinality(Held(t)))
        /\ savedAs' = [savedAs EXCEPT ![t] = [saved |-> TRUE, media |-> media, waiting |-> waiting]]
        /\ cutOff' = [cutOff EXCEPT ![t] = Held(t) \ waiting]
  BY DEF SaveReport
<1>3. /\ saved \in TapStates({}) /\ saved.at = "saved" /\ saved.inline = {} /\ saved.taken = {}
  BY DEF NewTap, TapStates
<1>4. /\ tap[t].taken = Sent \ tap[t].inline /\ tap[t].clear \subseteq tap[t].inline
      /\ Cardinality(tap[t].clear) <= MaxImages /\ tap[t].inline \subseteq Sent /\ Sent \subseteq Photos
      /\ via = "direct" => tap[t].inline = Sent
  BY <1>1, TapsKnown DEF Redeeming
<1>5. Cardinality(media) <= MaxImages
  <2>1. CASE via = "direct"
    <3>1. media = tap[t].clear
      BY <1>4, <2>1
    <3> QED BY <1>4, <3>1
  <2>2. CASE via # "direct"
    <3>1. media \subseteq FormPhotos
      BY <1>4, <2>2 DEF Sent, PhotoTypeOK
    <3>2. IsFiniteSet(FormPhotos) /\ IsFiniteSet(media)
      BY <3>1, FormHoldsFew, PhotosAreFinite, FS_Subset
    <3>3. Cardinality(media) <= Cardinality(FormPhotos)
      BY <3>1, <3>2, FS_Subset
    <3>4. Cardinality(media) \in Nat /\ Cardinality(FormPhotos) \in Nat /\ MaxImages \in Nat
      BY <3>2, FS_CardinalityType, PhotosAreFinite
    <3> QED BY <3>3, <3>4, FormHoldsFew
  <2> QED BY <2>1, <2>2
<1>6. Cardinality(waiting) <= MaxImages
  <2>1. Held(t) \subseteq Photos
    BY <1>4 DEF Held
  <2>2. Cardinality(Held(t)) \in Nat /\ MaxImages \in Nat
    BY <2>1, PhotosAreFinite, FS_Subset, FS_CardinalityType
  <2> QED BY <1>2, <2>2 DEF Fewer
<1>7. PhotosAccounted'
  <2>1. Sent' = Sent
    BY <1>1 DEF Sent
  <2>2. Sent \subseteq media \cup waiting \cup (Held(t) \ waiting)
    BY <1>4 DEF Held
  <2>3. /\ \A u \in Taps : savedAs'[u] = IF u = t THEN [saved |-> TRUE, media |-> media, waiting |-> waiting]
                                         ELSE savedAs[u]
        /\ \A u \in Taps : cutOff'[u] = IF u = t THEN Held(t) \ waiting ELSE cutOff[u]
    BY <1>2 DEF PhotoTypeOK
  <2> QED BY <2>1, <2>2, <2>3 DEF PhotoBond, PhotosAccounted
<1>8. /\ savedAs' \in [Taps -> [saved : BOOLEAN, media : SUBSET Photos, waiting : SUBSET Photos]]
      /\ \A u \in Taps : Cardinality(savedAs'[u].media) <= MaxImages /\ Cardinality(savedAs'[u].waiting) <= MaxImages
      /\ cutOff' \in [Taps -> SUBSET Photos] /\ waitsFor' \in Taps \cup {NoTap}
  <2>1. Held(t) \subseteq Photos /\ media \subseteq Photos /\ waiting \subseteq Photos
    BY <1>4 DEF Held
  <2> QED BY <1>1, <1>2, <1>5, <1>6, <2>1 DEF PhotoTypeOK
<1> HIDE DEF saved
<1> QED BY <1>1, <1>3, <1>7, <1>8, CommitGoes

-----------------------------------------------------------------------------
LEMMA PhotoStarts == PhotoInit => PhotoTypeOK /\ PhotoBond
<1> SUFFICES ASSUME PhotoInit PROVE PhotoTypeOK /\ PhotoBond
  OBVIOUS
<1> USE DEF PhotoInit
<1>1. /\ \A k \in Screeners : screener[k] = IdleScreener
      /\ \A t \in Taps : tap[t] = NewTap /\ savedAs[t] = NoReport /\ cutOff[t] = {}
      /\ store = {} /\ lapsed = {} /\ older = {}
  OBVIOUS
<1>2. Cardinality({}) = 0 /\ IsFiniteSet({}) /\ MaxImages \in Nat
  BY FS_EmptySet, PhotosAreFinite
<1>3. PhotoTypeOK
  <2>1. Underway = {}
    BY DEF Underway, IdleScreener
  <2>2. savedAs \in [Taps -> [saved : BOOLEAN, media : SUBSET Photos, waiting : SUBSET Photos]]
        /\ \A t \in Taps : Cardinality(savedAs[t].media) <= MaxImages /\ Cardinality(savedAs[t].waiting) <= MaxImages
    <3>1. NoReport \in [saved : BOOLEAN, media : SUBSET Photos, waiting : SUBSET Photos]
          /\ NoReport.media = {} /\ NoReport.waiting = {}
      BY DEF NoReport
    <3>2. 0 <= MaxImages
      BY <1>2
    <3> QED BY <1>2, <3>1, <3>2
  <2>3. /\ IdleScreener \in [at : {"idle", "choose", "evict", "store"}, total : Nat,
                            of : FormPhotos \cup Strangers \cup {NoPhoto},
                            old : SUBSET (FormPhotos \cup Strangers), oldest : SUBSET (FormPhotos \cup Strangers)]
        /\ NewTap \in TapStates({}) /\ NewTap.taken = {}
    BY DEF IdleScreener, NewTap, TapStates
  <2>4. photoFaults \in 0..MaxPhotoFaults /\ store = {} /\ Known = {}
    BY <2>1, StoreHoldsSome DEF Known
  <2>5. tap \in [Taps -> TapStates(store)] /\ \A t \in Taps : tap[t].taken = {}
    BY <1>1, <2>3
  <2> QED BY <1>1, <2>1, <2>2, <2>3, <2>4, <2>5 DEF PhotoTypeOK, TapStates, NoTap
<1>4. Fits(screener, store)
  <2>1. ASSUME NEW v \in Nat
        PROVE  Cardinality(store) - v + Cardinality(Modest(screener, store, v)) <= MaxStored + Cardinality(Screeners) - 1
    <3>1. Modest(screener, store, v) = {}
      BY <1>1 DEF Modest, IdleScreener
    <3>2. Cardinality(Screeners) \in Nat /\ MaxStored \in Nat \ {0}
      BY ModestIsFinite, StoreHoldsSome
    <3>3. Cardinality(store) = 0 /\ Cardinality(Modest(screener, store, v)) = 0
      BY <1>1, <1>2, <3>1
    <3> QED BY <3>2, <3>3
  <2> QED BY <2>1 DEF Fits
<1>5. ScreensApart
  BY <1>1, <1>2 DEF ScreensApart, IdleScreener
<1>6. TapsInOrder /\ PhotosAccounted
  BY <1>1 DEF TapsInOrder, PhotosAccounted, NewTap, NoReport, Redeeming
<1> QED BY <1>1, <1>2, <1>3, <1>4, <1>5, <1>6 DEF PhotoBond

(* Every step keeps types and invariant.                                     *)
LEMMA PhotoStep ==
  ASSUME PhotoTypeOK, PhotoBond, [PhotoNext]_photoVars PROVE PhotoTypeOK' /\ PhotoBond'
<1>1. CASE UNCHANGED photoVars
  <2>1. PhotoTypeOK'
    <3>1. UNCHANGED <<via, store, lapsed, older, picked, screener, tap, waitsFor, finished, savedAs, cutOff,
                      photoFaults, Underway>>
      BY <1>1 DEF photoVars, rowVars, Underway
    <3> QED BY <3>1 DEF PhotoTypeOK
  <2>2. IsFiniteSet(store)' /\ Fits(screener, store)' /\ ScreensApart'
    BY <1>1 DEF PhotoBond, ScreensApart, photoVars, rowVars
  <2> QED BY <1>1, <2>1, <2>2, TapsStay DEF PhotoBond, photoVars
<1>2. ASSUME NEW t \in Taps, SubmitNext(t) PROVE PhotoTypeOK' /\ PhotoBond'
  BY <1>2, PressKeeps, RedeemKeeps, OriginalsKeeps, FailsKeeps, RedirectKeeps, SaveKeeps, AnswerKeeps DEF SubmitNext
<1> QED BY <1>1, <1>2, StartsKeeps, ChoosesKeeps, EvictsKeeps, StoresKeeps, RowExpiryKeeps, ReapKeeps DEF PhotoNext

(* Photos: every value stays in its type.                                    *)
THEOREM PhotoTyped == PhotoSpec => []PhotoTypeOK
<1>1. PhotoSpec => [](PhotoTypeOK /\ PhotoBond)
  BY PhotoStarts, PhotoStep, PTL DEF PhotoSpec
<1> QED BY <1>1, PTL

(* No photo of a saved report is dropped, for any number of photos, presses   *)
(* and screenings.                                                           *)
THEOREM PhotosKept == PhotoSpec => []PhotosAccounted
<1>1. PhotoSpec => [](PhotoTypeOK /\ PhotoBond)
  BY PhotoStarts, PhotoStep, PTL DEF PhotoSpec
<1>2. PhotoBond => PhotosAccounted
  BY DEF PhotoBond
<1> QED BY <1>1, <1>2, PTL

(* The table is past its cap by less than the screenings that may overlap.   *)
THEOREM StoreBounded == PhotoSpec => []StoreStaysBounded
<1>1. PhotoSpec => [](PhotoTypeOK /\ PhotoBond)
  BY PhotoStarts, PhotoStep, PTL DEF PhotoSpec
<1>2. PhotoBond => StoreStaysBounded
  <2> SUFFICES ASSUME PhotoBond PROVE StoreStaysBounded
    OBVIOUS
  <2>1. Cardinality(store) - 0 + Cardinality(Modest(screener, store, 0)) <= MaxStored + Cardinality(Screeners) - 1
    BY DEF PhotoBond, Fits
  <2>2. /\ Cardinality(store) \in Nat /\ Cardinality(Modest(screener, store, 0)) \in Nat
        /\ Cardinality(Screeners) \in Nat /\ MaxStored \in Nat
    BY ModestIsFinite, FS_CardinalityType, StoreHoldsSome DEF PhotoBond
  <2> QED BY <2>1, <2>2 DEF StoreStaysBounded
<1> QED BY <1>1, <1>2, PTL

-----------------------------------------------------------------------------
(* The pool of demos.                                                        *)

Made == {d \in Demos : creator[d].at # "idle"}
Maps == [Demos -> DemoStates]

(* A map that some handler holds, or the file's: within the limit, of demos  *)
(* that were created, each with a port of its own.                           *)
SoundMap(map, made, ports) ==
  /\ IsFiniteSet(In(map)) /\ Cardinality(In(map)) <= MaxDemos /\ In(map) \subseteq made
  /\ \A d, e \in In(map) : d # e => ports[d] # ports[e]

CreatorIsSound(d) ==
  /\ SoundMap(creator[d].map, Made, port)
  /\ creator[d].at \in {"spin", "health", "undo"} => d \in In(creator[d].map)

(* What a janitor is still to look at is in its map; what it took out of it  *)
(* was torn down.                                                            *)
JanitorIsSound(j) ==
  /\ SoundMap(janitor[j].map, Made, port)
  /\ janitor[j].at = "work" => janitor[j].todo \subseteq In(janitor[j].map)
  /\ RemovedBy(j) \subseteq torn

PoolBond ==
  /\ SoundMap(listed, Made, port)
  /\ \A d \in Demos : CreatorIsSound(d)
  /\ \A j \in Janitors : JanitorIsSound(j)
  /\ up \subseteq Made /\ Made \subseteq In(listed) \cup savedOver \cup torn

(* The empty map is sound.                                                   *)
LEMMA NothingIsSound ==
  /\ Nothing \in Maps /\ In(Nothing) = {}
  /\ \A made, ports : SoundMap(Nothing, made, ports)
<1>1. Nothing \in Maps /\ In(Nothing) = {}
  BY DEF Nothing, Maps, DemoStates, In
<1> QED BY <1>1, FS_EmptySet, PoolHoldsSome DEF SoundMap

(* A sound map stays sound when entries leave it, and as demos are created.  *)
LEMMA SoundStays ==
  ASSUME NEW map, NEW made, NEW ports, SoundMap(map, made, ports),
         NEW less \in Maps, NEW more, NEW now, In(less) \subseteq In(map), made \subseteq more,
         \A d \in made : now[d] = ports[d]
  PROVE  SoundMap(less, more, now)
<1>1. IsFiniteSet(In(less)) /\ Cardinality(In(less)) <= Cardinality(In(map))
  BY FS_Subset DEF SoundMap
<1>2. Cardinality(In(less)) <= MaxDemos
  BY <1>1, FS_CardinalityType, PoolHoldsSome DEF SoundMap
<1> QED BY <1>1, <1>2 DEF SoundMap

(* Below the limit some port is free, and there is a lowest.                 *)
LEMMA PortIsFree ==
  ASSUME PoolTypeOK, SoundMap(listed, Made, port), Cardinality(In(listed)) < MaxDemos
  PROVE  FreePort(listed) \in 1..MaxDemos /\ \A d \in In(listed) : port[d] # FreePort(listed)
<1> USE PoolHoldsSome
<1> DEFINE Used == {port[d] : d \in In(listed)}
           Free == {p \in 1..MaxDemos : p \notin Used}
           f == [d \in In(listed) |-> port[d]]
<1>1. Free # {}
  <2> SUFFICES ASSUME 1..MaxDemos \subseteq Used PROVE FALSE
    OBVIOUS
  <2>1. f \in Surjection(In(listed), Used)
    BY DEF Surjection
  <2>2. IsFiniteSet(In(listed))
    BY DEF SoundMap
  <2>3. IsFiniteSet(Used) /\ Cardinality(Used) <= Cardinality(In(listed))
    BY <2>1, <2>2, FS_Surjection
  <2>4. Cardinality(1..MaxDemos) <= Cardinality(Used) /\ Cardinality(1..MaxDemos) = MaxDemos
    <3>1. Cardinality(1..MaxDemos) = MaxDemos
      <4>1. 1 \in Int /\ MaxDemos \in Int
        OBVIOUS
      <4>2. Cardinality(1..MaxDemos) = IF 1 > MaxDemos THEN 0 ELSE MaxDemos - 1 + 1
        BY <4>1, FS_Interval
      <4> QED BY <4>2
    <3> HIDE DEF Used
    <3>2. 1..MaxDemos \in SUBSET Used
      OBVIOUS
    <3> QED BY <2>3, <3>1, <3>2, FS_Subset
  <2> HIDE DEF Used, f
  <2> QED BY <2>2, <2>3, <2>4, FS_CardinalityType
<1>2. PICK p \in Free : \A q \in Free : p <= q
  <2>1. Free \in SUBSET Nat
    OBVIOUS
  <2> QED BY <1>1, <2>1, LeastOf
<1>3. \A q \in 1..(p - 1) : q \in 1..MaxDemos /\ q \in Used
  BY <1>2
<1>4. \E q \in 1..MaxDemos : /\ \A d \in In(listed) : port[d] # q
                             /\ \A r \in 1..(q - 1) : \E d \in In(listed) : port[d] = r
  BY <1>2, <1>3
<1> QED BY <1>4 DEF FreePort

(* A map that is saved keeps the types.                                      *)
LEMMA SavesAreTyped ==
  ASSUME PoolTypeOK, NEW map \in Maps, NEW gone, SaveMap(map, gone)
  PROVE  listed' \in Maps /\ savedOver' \subseteq Demos
  BY DEF SaveMap, PoolTypeOK, In

(* An entry that a save does away with is remembered as saved over, but for  *)
(* those the handler itself tore down.                                       *)
LEMMA SavesAreTracked ==
  ASSUME Made \subseteq In(listed) \cup savedOver \cup torn,
         NEW map, NEW gone, SaveMap(map, gone), gone \subseteq torn', torn \subseteq torn'
  PROVE  Made \subseteq In(listed') \cup savedOver' \cup torn'
  BY DEF SaveMap

LEMMA TeardownTyped ==
  ASSUME PoolTypeOK, NEW d \in Demos, Teardown(d)
  PROVE  /\ up' \subseteq up /\ torn' = torn \cup {d} /\ torn' \subseteq Demos
         /\ poolFaults' \in 0..MaxDemoFaults
  BY PoolHoldsSome DEF PoolTypeOK, Teardown, PoolFault

(* A step that changes no port and creates no demo.                          *)
LEMMA NothingCreated ==
  ASSUME PoolTypeOK, PoolBond, UNCHANGED port, Made' = Made,
         \A d \in Demos : \/ creator'[d] = creator[d]
                          \/ /\ creator'[d].map \in Maps
                             /\ In(creator'[d].map) \subseteq In(creator[d].map)
                             /\ creator'[d].at \in {"spin", "health", "undo"} => d \in In(creator'[d].map),
         torn \subseteq torn',
         \A j \in Janitors : janitor'[j] = janitor[j] \/ JanitorIsSound(j)'
  PROVE  /\ \A d \in Demos : CreatorIsSound(d)'
         /\ \A j \in Janitors : JanitorIsSound(j)'
<1>1. ASSUME NEW d \in Demos PROVE CreatorIsSound(d)'
  <2>1. CreatorIsSound(d)
    BY DEF PoolBond
  <2>2. SoundMap(creator'[d].map, Made, port)
    BY <2>1, SoundStays DEF CreatorIsSound
  <2> QED BY <2>1, <2>2 DEF CreatorIsSound
<1>2. ASSUME NEW j \in Janitors PROVE JanitorIsSound(j)'
  BY DEF PoolBond, JanitorIsSound, RemovedBy
<1> QED BY <1>1, <1>2

(* The steps of a create, one by one.                                        *)
LEMMA CreateKeeps ==
  ASSUME PoolTypeOK, PoolBond, NEW d \in Demos, CreateDemo(d) PROVE PoolTypeOK' /\ PoolBond'
<1> USE PoolHoldsSome
<1>0. PICK map, p : map = [listed EXCEPT ![d] = "starting"] /\ p = FreePort(listed)
  OBVIOUS
<1>1. /\ creator[d].at = "idle" /\ Cardinality(In(listed)) < MaxDemos /\ SaveMap(map, {})
      /\ creator' = [creator EXCEPT ![d] = [at |-> "spin", map |-> map]]
      /\ port' = [port EXCEPT ![d] = p]
      /\ UNCHANGED <<up, expired, janitor, torn, poolFaults>>
  BY <1>0 DEF CreateDemo, Announced
<1>2. map \in Maps /\ In(map) = In(listed) \cup {d} /\ d \notin Made /\ d \notin In(listed)
  BY <1>0, <1>1 DEF PoolTypeOK, PoolBond, SoundMap, Maps, DemoStates, In, Made
<1>3. p \in 1..MaxDemos /\ \A e \in In(listed) : port[e] # p
  BY <1>0, <1>1, PortIsFree DEF PoolBond
<1>4. PoolTypeOK'
  <2>1. listed' \in Maps /\ savedOver' \subseteq Demos
    BY <1>1, <1>2, SavesAreTyped
  <2>2. port' \in [Demos -> Ports] /\ port' = [port EXCEPT ![d] = p]
    BY <1>1, <1>3 DEF PoolTypeOK, Ports
  <2>3. creator' \in [Demos -> [at : {"idle", "spin", "health", "undo", "over"}, map : Maps]]
    BY <1>1, <1>2 DEF PoolTypeOK, Maps
  <2> QED BY <1>1, <2>1, <2>2, <2>3 DEF PoolTypeOK, Maps
<1>5. Made' = Made \cup {d} /\ \A e \in Made : port'[e] = port[e]
  BY <1>1, <1>2 DEF Made, PoolTypeOK
<1>6. SoundMap(map, Made', port')
  <2>1. IsFiniteSet(In(map)) /\ Cardinality(In(map)) = Cardinality(In(listed)) + 1
    BY <1>2, FS_AddElement DEF PoolBond, SoundMap
  <2>2. Cardinality(In(map)) <= MaxDemos
    BY <2>1, <1>1, FS_CardinalityType DEF PoolBond, SoundMap
  <2>3. \A e \in In(listed) : port'[e] = port[e] /\ port'[d] = p /\ port[e] # p
    BY <1>1, <1>3, <1>5 DEF PoolBond, SoundMap, PoolTypeOK
  <2> QED BY <2>1, <2>2, <2>3, <1>2, <1>5 DEF SoundMap, PoolBond
<1>7. ASSUME NEW e \in Demos PROVE CreatorIsSound(e)'
  <2>1. CASE e = d
    BY <2>1, <1>1, <1>2, <1>6 DEF CreatorIsSound, PoolTypeOK
  <2>2. CASE e # d
    <3>1. creator'[e] = creator[e] /\ CreatorIsSound(e) /\ creator[e].map \in Maps
      BY <2>2, <1>1 DEF PoolTypeOK, PoolBond, Maps
    <3>2. SoundMap(creator[e].map, Made', port')
      BY <3>1, <1>5, SoundStays DEF CreatorIsSound
    <3> QED BY <3>1, <3>2 DEF CreatorIsSound
  <2> QED BY <2>1, <2>2
<1>8. ASSUME NEW j \in Janitors PROVE JanitorIsSound(j)'
  <2>1. JanitorIsSound(j) /\ janitor[j].map \in Maps
    BY DEF PoolTypeOK, PoolBond, Maps
  <2>2. SoundMap(janitor[j].map, Made', port')
    BY <2>1, <1>5, SoundStays DEF JanitorIsSound
  <2> QED BY <1>1, <2>1, <2>2 DEF JanitorIsSound, RemovedBy
<1>9. listed' = map
  BY <1>1 DEF SaveMap
<1>10. up' \subseteq Made' /\ Made' \subseteq In(listed') \cup savedOver' \cup torn'
  BY <1>1, <1>2, <1>5, <1>9, SavesAreTracked DEF PoolBond
<1> QED BY <1>4, <1>6, <1>7, <1>8, <1>9, <1>10 DEF PoolBond

(* A create that goes on: the map it holds keeps its entries.                *)
LEMMA CreateGoesOn ==
  ASSUME PoolTypeOK, PoolBond, NEW d \in Demos, NEW at \in {"spin", "health", "undo", "over"},
         NEW map \in Maps, creator[d].at # "idle",
         at = "over" => In(map) = {},
         at # "over" => In(map) = In(creator[d].map) /\ d \in In(map),
         creator' = [creator EXCEPT ![d] = [at |-> at, map |-> map]],
         UNCHANGED <<port, janitor>>, torn \subseteq torn'
  PROVE  /\ creator' \in [Demos -> [at : {"idle", "spin", "health", "undo", "over"}, map : Maps]]
         /\ Made' = Made
         /\ \A e \in Demos : CreatorIsSound(e)'
         /\ \A j \in Janitors : JanitorIsSound(j)'
<1>1. creator' \in [Demos -> [at : {"idle", "spin", "health", "undo", "over"}, map : Maps]]
  BY DEF PoolTypeOK, Maps
<1>2. Made' = Made
  BY DEF Made, PoolTypeOK
<1>3. \A e \in Demos : \/ creator'[e] = creator[e]
                       \/ /\ creator'[e].map \in Maps
                          /\ In(creator'[e].map) \subseteq In(creator[e].map)
                          /\ creator'[e].at \in {"spin", "health", "undo"} => e \in In(creator'[e].map)
  BY DEF PoolTypeOK
<1> QED BY <1>1, <1>2, <1>3, NothingCreated

LEMMA SpinsKeep ==
  ASSUME PoolTypeOK, PoolBond, NEW d \in Demos, SpinsUp(d) PROVE PoolTypeOK' /\ PoolBond'
<1>0. PICK map : map = [creator[d].map EXCEPT ![d] = "booting"]
  OBVIOUS
<1>1. /\ creator[d].at = "spin" /\ up' = up \cup {d} /\ SaveMap(map, {})
      /\ creator' = [creator EXCEPT ![d] = [at |-> "health", map |-> map]]
      /\ UNCHANGED <<port, expired, janitor, torn, poolFaults>>
  BY <1>0 DEF SpinsUp
<1>2. map \in Maps /\ In(map) = In(creator[d].map) /\ d \in In(map)
  BY <1>0, <1>1 DEF PoolTypeOK, PoolBond, CreatorIsSound, Maps, DemoStates, In
<1>3. /\ creator' \in [Demos -> [at : {"idle", "spin", "health", "undo", "over"}, map : Maps]]
      /\ Made' = Made /\ \A e \in Demos : CreatorIsSound(e)'
      /\ \A j \in Janitors : JanitorIsSound(j)'
  BY <1>1, <1>2, CreateGoesOn
<1>4. PoolTypeOK'
  BY <1>1, <1>2, <1>3, SavesAreTyped DEF PoolTypeOK, Maps
<1>5. listed' = map /\ SoundMap(map, Made', port')
  BY <1>1, <1>3 DEF SaveMap, CreatorIsSound, PoolTypeOK
<1>6. up' \subseteq Made' /\ Made' \subseteq In(listed') \cup savedOver' \cup torn'
  BY <1>1, <1>3, SavesAreTracked DEF PoolBond, Made
<1> QED BY <1>3, <1>4, <1>5, <1>6 DEF PoolBond

LEMMA TurnsBadKeeps ==
  ASSUME PoolTypeOK, PoolBond, NEW d \in Demos, CreateTurnsBad(d) PROVE PoolTypeOK' /\ PoolBond'
<1>0. PICK map : map = [creator[d].map EXCEPT ![d] = "failed"]
  OBVIOUS
<1>1. /\ creator[d].at \in {"spin", "health"} /\ up' \subseteq up \cup {d}
      /\ UNCHANGED <<listed, port, expired, janitor, savedOver, torn, poolFaults>>
  BY DEF CreateTurnsBad
<1>2. creator' = [creator EXCEPT ![d] = [at |-> "undo", map |-> map]]
  BY <1>0 DEF CreateTurnsBad
<1>3. map \in Maps /\ In(map) = In(creator[d].map) /\ d \in In(map)
  BY <1>0, <1>1 DEF PoolTypeOK, PoolBond, CreatorIsSound, Maps, DemoStates, In
<1>4. /\ creator' \in [Demos -> [at : {"idle", "spin", "health", "undo", "over"}, map : Maps]]
      /\ Made' = Made /\ \A e \in Demos : CreatorIsSound(e)'
      /\ \A j \in Janitors : JanitorIsSound(j)'
  BY <1>1, <1>2, <1>3, CreateGoesOn
<1>5. PoolTypeOK'
  BY <1>1, <1>4 DEF PoolTypeOK, Maps
<1>6. up' \subseteq Made'
  BY <1>1, <1>4 DEF PoolBond, Made
<1> QED BY <1>1, <1>4, <1>5, <1>6 DEF PoolBond

LEMMA UndoneKeeps ==
  ASSUME PoolTypeOK, PoolBond, NEW d \in Demos, CreateUndone(d) PROVE PoolTypeOK' /\ PoolBond'
<1>0. PICK map : map = creator[d].map
  OBVIOUS
<1>1. /\ creator[d].at = "undo" /\ Teardown(d) /\ SaveMap(map, {})
      /\ creator' = [creator EXCEPT ![d] = [at |-> "over", map |-> Nothing]]
      /\ UNCHANGED <<port, expired, janitor>>
  BY <1>0 DEF CreateUndone
<1>2. up' \subseteq up /\ torn' = torn \cup {d} /\ torn' \subseteq Demos /\ poolFaults' \in 0..MaxDemoFaults
  BY <1>1, TeardownTyped
<1>3. map \in Maps /\ SoundMap(map, Made, port)
  BY <1>0, <1>1 DEF PoolTypeOK, PoolBond, CreatorIsSound, Maps
<1>4. /\ creator' \in [Demos -> [at : {"idle", "spin", "health", "undo", "over"}, map : Maps]]
      /\ Made' = Made /\ \A e \in Demos : CreatorIsSound(e)'
      /\ \A j \in Janitors : JanitorIsSound(j)'
  BY <1>1, <1>2, NothingIsSound, CreateGoesOn
<1>5. PoolTypeOK'
  BY <1>1, <1>2, <1>3, <1>4, SavesAreTyped DEF PoolTypeOK, Maps
<1>6. listed' = map /\ SoundMap(map, Made', port')
  BY <1>1, <1>3, <1>4 DEF SaveMap
<1>7. up' \subseteq Made' /\ Made' \subseteq In(listed') \cup savedOver' \cup torn'
  BY <1>1, <1>2, <1>4, SavesAreTracked DEF PoolBond
<1> QED BY <1>4, <1>5, <1>6, <1>7 DEF PoolBond

LEMMA DoneKeeps ==
  ASSUME PoolTypeOK, PoolBond, NEW d \in Demos, CreateDone(d) PROVE PoolTypeOK' /\ PoolBond'
<1>0. PICK map : map = [creator[d].map EXCEPT ![d] = "ready"]
  OBVIOUS
<1>1. /\ creator[d].at = "health" /\ SaveMap(map, {})
      /\ creator' = [creator EXCEPT ![d] = [at |-> "over", map |-> Nothing]]
      /\ UNCHANGED <<port, up, expired, janitor, torn, poolFaults>>
  BY <1>0 DEF CreateDone
<1>2. map \in Maps /\ In(map) = In(creator[d].map)
  BY <1>0, <1>1 DEF PoolTypeOK, PoolBond, CreatorIsSound, Maps, DemoStates, In
<1>3. /\ creator' \in [Demos -> [at : {"idle", "spin", "health", "undo", "over"}, map : Maps]]
      /\ Made' = Made /\ \A e \in Demos : CreatorIsSound(e)'
      /\ \A j \in Janitors : JanitorIsSound(j)'
  BY <1>1, NothingIsSound, CreateGoesOn
<1>4. PoolTypeOK'
  BY <1>1, <1>2, <1>3, SavesAreTyped DEF PoolTypeOK, Maps
<1>5. listed' = map /\ SoundMap(map, Made', port')
  BY <1>1, <1>2, <1>3, SoundStays DEF SaveMap, CreatorIsSound, PoolBond
<1>6. up' \subseteq Made' /\ Made' \subseteq In(listed') \cup savedOver' \cup torn'
  BY <1>1, <1>3, SavesAreTracked DEF PoolBond
<1> QED BY <1>3, <1>4, <1>5, <1>6 DEF PoolBond

LEMMA DemoExpiryKeeps ==
  ASSUME PoolTypeOK, PoolBond, NEW d \in Demos, DemoExpires(d) PROVE PoolTypeOK' /\ PoolBond'
<1>1. expired' \subseteq Demos /\ UNCHANGED <<listed, port, up, creator, janitor, savedOver, torn, poolFaults>>
  BY DEF DemoExpires, PoolTypeOK
<1>2. PoolTypeOK'
  BY <1>1 DEF PoolTypeOK
<1> QED BY <1>1, <1>2 DEF PoolBond, Made, CreatorIsSound, JanitorIsSound, RemovedBy

LEMMA FinishedIs ==
  /\ Finished \in [at : {"idle", "work", "save", "over"}, kind : {"cleanup", "recover", "delete"},
                   map : Maps, todo : SUBSET Demos, done : SUBSET Demos]
  /\ Finished.at = "over" /\ Finished.map = Nothing /\ Finished.done = {}
  BY NothingIsSound DEF Finished, IdleJanitor

(* The steps of a janitor, one by one.                                       *)
LEMMA LoadsKeep ==
  ASSUME PoolTypeOK, PoolBond, NEW j \in Janitors, NEW sort \in {"cleanup", "recover", "delete"},
         NEW todo \in SUBSET Demos, JanitorLoads(j, sort, todo)
  PROVE  PoolTypeOK' /\ PoolBond'
<1>1. /\ todo \subseteq In(listed)
      /\ janitor' = [janitor EXCEPT ![j] = [at |-> "work", kind |-> sort, map |-> listed,
                                            todo |-> todo, done |-> {}]]
      /\ UNCHANGED <<listed, port, up, expired, creator, savedOver, torn, poolFaults>>
  BY DEF JanitorLoads
<1>2. PoolTypeOK'
  BY <1>1 DEF PoolTypeOK
<1>3. janitor'[j] = [at |-> "work", kind |-> sort, map |-> listed, todo |-> todo, done |-> {}]
  BY <1>1 DEF PoolTypeOK
<1>4. Made' = Made
  BY <1>1 DEF Made
<1>5. JanitorIsSound(j)'
  BY <1>1, <1>3, <1>4 DEF PoolBond, JanitorIsSound, RemovedBy
<1>6. \A i \in Janitors : janitor'[i] = janitor[i] \/ JanitorIsSound(i)'
  BY <1>1, <1>5 DEF PoolTypeOK
<1>7. /\ \A d \in Demos : CreatorIsSound(d)'
      /\ \A i \in Janitors : JanitorIsSound(i)'
  BY <1>1, <1>4, <1>6, NothingCreated
<1> QED BY <1>1, <1>2, <1>4, <1>7 DEF PoolBond

(* A janitor that has done with one entry, of what it had to look at.        *)
LEMMA WorksOn ==
  ASSUME PoolTypeOK, PoolBond, NEW j \in Janitors, NEW d \in janitor[j].todo,
         janitor[j].at = "work", NEW map \in Maps, NEW done \in {janitor[j].done, Done(j, d)},
         \/ map = janitor[j].map
         \/ \E s \in DemoStates : map = [janitor[j].map EXCEPT ![d] = s],
         d \in In(map) \/ d \in torn', torn \subseteq torn',
         janitor' = [janitor EXCEPT ![j] = Settled([janitor[j] EXCEPT !.todo = Left(j, d), !.done = done,
                                                                      !.map = map])],
         UNCHANGED <<port, creator>>
  PROVE  /\ janitor' \in [Janitors -> [at : {"idle", "work", "save", "over"},
                                       kind : {"cleanup", "recover", "delete"},
                                       map : Maps, todo : SUBSET Demos, done : SUBSET Demos]]
         /\ Made' = Made
         /\ \A e \in Demos : CreatorIsSound(e)'
         /\ \A i \in Janitors : JanitorIsSound(i)'
<1> DEFINE Shape == [at : {"idle", "work", "save", "over"}, kind : {"cleanup", "recover", "delete"},
                     map : Maps, todo : SUBSET Demos, done : SUBSET Demos]
<1>0. PICK work : work = [janitor[j] EXCEPT !.todo = Left(j, d), !.done = done, !.map = map]
  OBVIOUS
<1>1. janitor[j] \in Shape /\ d \in Demos
  BY DEF PoolTypeOK, Maps
<1>2. /\ work \in Shape /\ work.at = "work" /\ work.map = map /\ work.todo = Left(j, d) /\ work.done = done
  BY <1>0, <1>1 DEF Left, Done
<1>3. /\ Settled(work) \in Shape
      /\ Settled(work) = Finished \/ (Settled(work).map = map /\ Settled(work).done = done /\
                                      Settled(work).todo = Left(j, d))
  BY <1>2, FinishedIs DEF Settled
<1>4. janitor' \in [Janitors -> Shape] /\ janitor'[j] = Settled(work) /\ \A i \in Janitors \ {j} : janitor'[i] = janitor[i]
  BY <1>0, <1>3 DEF PoolTypeOK, Maps
<1>5. JanitorIsSound(j) /\ d \in In(janitor[j].map) /\ Made' = Made
  BY DEF PoolBond, JanitorIsSound, Made
<1>6. In(map) \subseteq In(janitor[j].map) /\ In(janitor[j].map) \ {d} \subseteq In(map)
  BY <1>1, <1>5 DEF In, Maps
<1>7. SoundMap(map, Made, port)
  BY <1>5, <1>6, SoundStays DEF JanitorIsSound
<1>8. JanitorIsSound(j)'
  <2>1. CASE Settled(work) = Finished
    BY <2>1, <1>4, FinishedIs, NothingIsSound DEF JanitorIsSound, RemovedBy
  <2>2. CASE Settled(work).map = map /\ Settled(work).done = done /\ Settled(work).todo = Left(j, d)
    <3>1. Left(j, d) \subseteq In(map)
      BY <1>5, <1>6 DEF JanitorIsSound, Left
    <3>2. done \ In(map) \subseteq torn'
      BY <1>5, <1>6 DEF JanitorIsSound, RemovedBy, Done
    <3> QED BY <2>2, <3>1, <3>2, <1>4, <1>5, <1>7 DEF JanitorIsSound, RemovedBy
  <2> QED BY <1>3, <2>1, <2>2
<1>9. \A i \in Janitors : janitor'[i] = janitor[i] \/ JanitorIsSound(i)'
  BY <1>4, <1>8
<1> QED BY <1>4, <1>5, <1>9, NothingCreated

LEMMA TearsKeep ==
  ASSUME PoolTypeOK, PoolBond, NEW j \in Janitors, NEW d \in Demos, JanitorTears(j, d)
  PROVE  PoolTypeOK' /\ PoolBond'
<1>0. PICK map : map = [janitor[j].map EXCEPT ![d] = "none"]
  OBVIOUS
<1>1. /\ janitor[j].at = "work" /\ d \in janitor[j].todo /\ Teardown(d)
      /\ janitor' = [janitor EXCEPT ![j] = Settled([janitor[j] EXCEPT !.todo = Left(j, d), !.done = Done(j, d),
                                                                      !.map = map])]
      /\ UNCHANGED <<listed, port, expired, creator, savedOver>>
  BY <1>0 DEF JanitorTears
<1>2. map \in Maps
  BY <1>0 DEF PoolTypeOK, Maps, DemoStates
<1>3. up' \subseteq up /\ torn' = torn \cup {d} /\ torn' \subseteq Demos /\ poolFaults' \in 0..MaxDemoFaults
  BY <1>1, TeardownTyped
<1>4. /\ janitor' \in [Janitors -> [at : {"idle", "work", "save", "over"},
                                    kind : {"cleanup", "recover", "delete"},
                                    map : Maps, todo : SUBSET Demos, done : SUBSET Demos]]
      /\ Made' = Made
      /\ \A e \in Demos : CreatorIsSound(e)'
      /\ \A i \in Janitors : JanitorIsSound(i)'
  BY <1>0, <1>1, <1>2, <1>3, WorksOn DEF DemoStates
<1>5. PoolTypeOK'
  BY <1>1, <1>3, <1>4 DEF PoolTypeOK, Maps
<1> QED BY <1>1, <1>3, <1>4, <1>5 DEF PoolBond

LEMMA ProbesKeep ==
  ASSUME PoolTypeOK, PoolBond, NEW j \in Janitors, NEW d \in Demos, JanitorProbes(j, d)
  PROVE  PoolTypeOK' /\ PoolBond'
<1>0. PICK map : map = [janitor[j].map EXCEPT ![d] = "ready"]
  OBVIOUS
<1>1. /\ janitor[j].at = "work" /\ d \in janitor[j].todo
      /\ UNCHANGED <<listed, port, up, expired, creator, savedOver, torn, poolFaults>>
  BY DEF JanitorProbes
<1>2. map \in Maps /\ d \in In(map) /\ janitor[j].map \in Maps /\ d \in In(janitor[j].map)
  BY <1>0, <1>1 DEF PoolTypeOK, PoolBond, JanitorIsSound, Maps, DemoStates, In
<1>3. /\ janitor' \in [Janitors -> [at : {"idle", "work", "save", "over"},
                                    kind : {"cleanup", "recover", "delete"},
                                    map : Maps, todo : SUBSET Demos, done : SUBSET Demos]]
      /\ Made' = Made
      /\ \A e \in Demos : CreatorIsSound(e)'
      /\ \A i \in Janitors : JanitorIsSound(i)'
  <2>1. CASE janitor' = [janitor EXCEPT ![j] =
                           Settled([janitor[j] EXCEPT !.todo = Left(j, d), !.done = Done(j, d), !.map = map])]
    BY <2>1, <1>0, <1>1, <1>2, WorksOn DEF DemoStates
  <2>2. CASE janitor' = [janitor EXCEPT ![j] = Settled([janitor[j] EXCEPT !.todo = Left(j, d)])]
    <3>1. [janitor[j] EXCEPT !.todo = Left(j, d)] =
            [janitor[j] EXCEPT !.todo = Left(j, d), !.done = janitor[j].done, !.map = janitor[j].map]
      BY DEF PoolTypeOK
    <3> QED BY <2>2, <3>1, <1>1, <1>2, WorksOn
  <2> QED BY <1>0, <2>1, <2>2 DEF JanitorProbes
<1>4. PoolTypeOK'
  BY <1>1, <1>3 DEF PoolTypeOK, Maps
<1> QED BY <1>1, <1>3, <1>4 DEF PoolBond

LEMMA JanitorSavesKeep ==
  ASSUME PoolTypeOK, PoolBond, NEW j \in Janitors, JanitorSaves(j) PROVE PoolTypeOK' /\ PoolBond'
<1>0. PICK map : map = janitor[j].map
  OBVIOUS
<1>1. /\ SaveMap(map, RemovedBy(j)) /\ janitor' = [janitor EXCEPT ![j] = Finished]
      /\ UNCHANGED <<port, up, expired, creator, torn, poolFaults>>
  BY <1>0 DEF JanitorSaves
<1>2. map \in Maps /\ SoundMap(map, Made, port) /\ RemovedBy(j) \subseteq torn /\ Made' = Made
  BY <1>0, <1>1 DEF PoolTypeOK, PoolBond, JanitorIsSound, Maps, Made
<1>3. PoolTypeOK'
  <2>1. listed' \in Maps /\ savedOver' \subseteq Demos
    BY <1>1, <1>2, SavesAreTyped
  <2>2. janitor' \in [Janitors -> [at : {"idle", "work", "save", "over"},
                                   kind : {"cleanup", "recover", "delete"},
                                   map : Maps, todo : SUBSET Demos, done : SUBSET Demos]]
    BY <1>1, FinishedIs DEF PoolTypeOK, Maps
  <2> QED BY <1>1, <2>1, <2>2 DEF PoolTypeOK, Maps
<1>4. JanitorIsSound(j)'
  <2>1. janitor'[j] = Finished
    BY <1>1 DEF PoolTypeOK
  <2> QED BY <2>1, FinishedIs, NothingIsSound DEF JanitorIsSound, RemovedBy
<1>5. \A i \in Janitors : janitor'[i] = janitor[i] \/ JanitorIsSound(i)'
  BY <1>1, <1>4 DEF PoolTypeOK
<1>6. /\ \A d \in Demos : CreatorIsSound(d)'
      /\ \A i \in Janitors : JanitorIsSound(i)'
  BY <1>1, <1>2, <1>5, NothingCreated
<1>7. listed' = map /\ up' \subseteq Made' /\ Made' \subseteq In(listed') \cup savedOver' \cup torn'
  BY <1>1, <1>2, SavesAreTracked DEF PoolBond, SaveMap
<1> QED BY <1>1, <1>2, <1>3, <1>6, <1>7 DEF PoolBond

LEMMA RestartKeeps ==
  ASSUME PoolTypeOK, PoolBond, PoolRestarts PROVE PoolTypeOK' /\ PoolBond'
<1>1. /\ up' \subseteq Demos /\ \A d \in up' : d \in up \/ creator[d].at = "spin"
      /\ creator' = [d \in Demos |-> [at |-> IF creator[d].at = "idle" THEN "idle" ELSE "over",
                                      map |-> Nothing]]
      /\ janitor' = [j \in Janitors |-> IF janitor[j].at = "idle" THEN janitor[j] ELSE Finished]
      /\ UNCHANGED <<listed, savedOver>> \/ SaveMap(Nothing, {})
      /\ UNCHANGED <<port, expired, torn>> /\ poolFaults' \in 0..MaxDemoFaults
  BY PoolHoldsSome DEF PoolRestarts, PoolFault, PoolTypeOK
<1>2. listed' \in Maps /\ savedOver' \subseteq Demos
  BY <1>1, NothingIsSound, SavesAreTyped DEF PoolTypeOK, Maps
<1>3. Made' = Made
  BY <1>1 DEF Made
<1>4. PoolTypeOK'
  <2>1. creator' \in [Demos -> [at : {"idle", "spin", "health", "undo", "over"}, map : Maps]]
    BY <1>1, NothingIsSound
  <2>2. janitor' \in [Janitors -> [at : {"idle", "work", "save", "over"},
                                   kind : {"cleanup", "recover", "delete"},
                                   map : Maps, todo : SUBSET Demos, done : SUBSET Demos]]
    BY <1>1, FinishedIs DEF PoolTypeOK, Maps
  <2> QED BY <1>1, <1>2, <2>1, <2>2 DEF PoolTypeOK, Maps
<1>5. \A j \in Janitors : janitor'[j] = janitor[j] \/ JanitorIsSound(j)'
  BY <1>1, FinishedIs, NothingIsSound DEF JanitorIsSound, RemovedBy
<1>6. /\ \A d \in Demos : CreatorIsSound(d)'
      /\ \A i \in Janitors : JanitorIsSound(i)'
  BY <1>1, <1>3, <1>5, NothingIsSound, NothingCreated
<1>7. up' \subseteq Made' /\ Made' \subseteq In(listed') \cup savedOver' \cup torn'
  BY <1>1, <1>3, SavesAreTracked DEF PoolBond, Made
<1>8. SoundMap(listed', Made', port')
  BY <1>1, <1>3, NothingIsSound DEF SaveMap, PoolBond
<1> QED BY <1>4, <1>6, <1>7, <1>8 DEF PoolBond

LEMMA PoolStarts == PoolInit => PoolTypeOK /\ PoolBond
<1> SUFFICES ASSUME PoolInit PROVE PoolTypeOK /\ PoolBond
  OBVIOUS
<1>1. PoolTypeOK
  BY NothingIsSound, PoolHoldsSome DEF PoolInit, PoolTypeOK, IdleJanitor, Maps, Ports
<1>2. Made = {} /\ \A d \in Demos : CreatorIsSound(d)
  BY NothingIsSound DEF PoolInit, Made, CreatorIsSound
<1>3. \A j \in Janitors : JanitorIsSound(j)
  BY NothingIsSound DEF PoolInit, JanitorIsSound, RemovedBy, IdleJanitor
<1> QED BY <1>1, <1>2, <1>3, NothingIsSound DEF PoolInit, PoolBond

(* Every step keeps types and invariant.                                     *)
LEMMA PoolStep == PoolTypeOK /\ PoolBond /\ [PoolNext]_poolVars => PoolTypeOK' /\ PoolBond'
<1> SUFFICES ASSUME PoolTypeOK, PoolBond, [PoolNext]_poolVars PROVE PoolTypeOK' /\ PoolBond'
  OBVIOUS
<1>1. ASSUME UNCHANGED poolVars PROVE PoolTypeOK' /\ PoolBond'
  BY <1>1 DEF poolVars, PoolTypeOK, PoolBond, Made, CreatorIsSound, JanitorIsSound, RemovedBy
<1>2. ASSUME NEW d \in Demos,
             \/ CreateDemo(d) \/ SpinsUp(d) \/ CreateTurnsBad(d) \/ CreateUndone(d)
             \/ CreateDone(d) \/ DemoExpires(d)
      PROVE  PoolTypeOK' /\ PoolBond'
  BY <1>2, CreateKeeps, SpinsKeep, TurnsBadKeeps, UndoneKeeps, DoneKeeps, DemoExpiryKeeps
<1>3. ASSUME NEW j \in Janitors, NEW sort \in {"cleanup", "recover", "delete"}, NEW todo \in SUBSET Demos,
             JanitorLoads(j, sort, todo)
      PROVE  PoolTypeOK' /\ PoolBond'
  BY <1>3, LoadsKeep
<1>4. ASSUME NEW j \in Janitors, NEW d \in Demos, JanitorTears(j, d) \/ JanitorProbes(j, d)
      PROVE  PoolTypeOK' /\ PoolBond'
  BY <1>4, TearsKeep, ProbesKeep
<1>5. ASSUME NEW j \in Janitors, JanitorSaves(j) PROVE PoolTypeOK' /\ PoolBond'
  BY <1>5, JanitorSavesKeep
<1>6. ASSUME PoolRestarts PROVE PoolTypeOK' /\ PoolBond'
  BY <1>6, RestartKeeps
<1> QED BY <1>1, <1>2, <1>3, <1>4, <1>5, <1>6 DEF PoolNext

(* So both always hold.                                                      *)
LEMMA PoolBound == PoolSpec => [](PoolTypeOK /\ PoolBond)
  BY PoolStarts, PoolStep, PTL DEF PoolSpec

(* Creates, cleanups, recoveries, deletions and restarts keep types.         *)
THEOREM PoolTyped == PoolSpec => []PoolTypeOK
  BY PoolBound, PTL

(* The registry of demo stacks is one the code could have meant whichever    *)
(* handler's older map was written over it, and a stack without an entry is  *)
(* one that was saved over or torn down (demo-orchestrator/server.js).       *)
THEOREM StacksTracked == PoolSpec => []StacksAreTracked
<1>1. PoolTypeOK /\ PoolBond => StacksAreTracked
  BY DEF PoolBond, SoundMap, StacksAreTracked
<1> QED BY <1>1, PoolBound, PTL

-----------------------------------------------------------------------------
(* The eleven modules side by side: what one of them does is a step of its   *)
(* own specification, and a stutter of the others'.  So the theorems above,  *)
(* and those of the modules this one extends, hold where they run together.  *)
THEOREM TownRunsTheParts ==
  TownSpec => /\ MigrateSpec /\ AccountSpec /\ TokenSpec /\ RetentionSpec
              /\ AuditSpec /\ BudgetSpec /\ PhotoSpec /\ PoolSpec
              /\ VaultSpec /\ HostSpec /\ RewrapSpec
<1>1. TownInit => /\ MigrateInit /\ AccountInit /\ TokenInit /\ RetentionInit
                  /\ AuditInit /\ BudgetInit /\ PhotoInit /\ PoolInit
                  /\ VaultInit /\ HostInit /\ RewrapInit
  BY Zenon DEF TownInit
<1>2. [TownNext /\ UNCHANGED part]_<<part, townVars>> =>
        /\ [MigrateNext]_migrateVars /\ [AccountNext]_acctVars /\ [TokenNext]_tokenVars /\ [RetentionNext]_retentionVars
        /\ [AuditNext]_auditVars /\ [BudgetNext]_budgetVars /\ [PhotoNext]_photoVars /\ [PoolNext]_poolVars
        /\ [VaultNext]_vaultVars /\ [HostNext]_hostVars /\ [RewrapNext]_rewrapVars
  BY Zenon DEF TownNext, townVars
<1> QED BY <1>1, <1>2, PTL DEF TownSpec, MigrateSpec, AccountSpec, TokenSpec, RetentionSpec, AuditSpec,
           BudgetSpec, PhotoSpec, PoolSpec, VaultSpec, HostSpec, RewrapSpec

(* Whatever the run checks of the eleven holds for every value of the        *)
(* constants, each as its module promises (services/ and api/, and           *)
(* demo-orchestrator/server.js).                                             *)
THEOREM TownHolds ==
  TownSpec => [](/\ StartUpIsSafe /\ RevocationHolds /\ TownKeepsAdmin /\ ServedOnce
                 /\ HoldKeepsTheRecord /\ VerdictIsTrue /\ SpendIsBounded
                 /\ PhotosAccounted /\ StoreStaysBounded /\ StacksAreTracked
                 /\ LastChangeHolds /\ OwnershipHolds /\ RedactedStaysRedacted)
  BY TownRunsTheParts, StartsAreSafe, RevokedForGood, AdminRemains, AcceptedOnce, HoldsKeep, VerificationsAreRight,
     SpendBounded, PhotosKept, StoreBounded, StacksTracked, LastChangeKept, OwnershipKept, ScrubsSurviveRewraps, PTL

(* The type invariant of the whole.                                          *)
THEOREM TownTyped == TownSpec => []TownTypeOK
<1>1. (/\ MigrateTypeOK /\ AccountTypeOK /\ TokenTypeOK /\ RetentionTypeOK
       /\ AuditTypeOK /\ BudgetTypeOK /\ PhotoTypeOK /\ PoolTypeOK
       /\ VaultTypeOK /\ HostTypeOK /\ RewrapTypeOK)
         => TownTypeOK
  BY Zenon DEF TownTypeOK
<1> QED BY <1>1, TownRunsTheParts, MigrateTyped, AccountTyped, TokenTyped, RetentionTyped, AuditTyped,
           BudgetTyped, PhotoTyped, PoolTyped, VaultTyped, HostTyped, RewrapTyped, PTL
=============================================================================
