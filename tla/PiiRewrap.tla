------------------------------- MODULE PiiRewrap -------------------------------
(***************************************************************************)
(* Residents' details and the key they are encrypted under                  *)
(* (services/storage_maintenance.py rewrap_pii, core/pii_crypto.py).  Each  *)
(* process makes one data key, wraps it with whatever key service answers   *)
(* at its first use, and encrypts with it until it stops; a value carries   *)
(* its wrapped data key.  The nightly pass, or an admin's, selects rows     *)
(* whose wrapping is not the present service's, oldest first and so many at *)
(* a time, and writes them back encrypted anew.  Retention scrubs rows, the *)
(* town changes its key service, and processes stop, meanwhile.             *)
(*                                                                         *)
(* The four columns of a row are taken as one, and a key service by its     *)
(* number: 0 is the application's own key.                                  *)
(***************************************************************************)
EXTENDS Naturals, FiniteSets

CONSTANTS
  Reports,         \* ids of service_requests, numbers
  Unreadable,      \* those of them whose key is gone
  Servers,         \* processes that encrypt
  RewrapLimit,     \* REWRAP_BATCH
  MaxBatches,      \* MAX_BATCHES
  NoKey,           \* no data key yet, or one that is gone
  MaxServices, MaxRewrapFaults, MaxScrubs   \* bounds: key services, faults, scrubs

ASSUME ReportsAreNumbered == Reports \subseteq Nat /\ Unreadable \subseteq Reports
ASSUME RewrapBoundsAreNat ==
  /\ RewrapLimit \in Nat \ {0} /\ MaxBatches \in Nat \ {0}
  /\ MaxServices \in Nat \ {0} /\ MaxRewrapFaults \in Nat /\ MaxScrubs \in Nat
ASSUME NoKeyIsNone == NoKey \notin 0..MaxServices

VARIABLES
  details,    \* the encrypted columns of each report
  service,    \* the key service in use
  dataKey,    \* _active of each process: the service that wrapped it
  pass,       \* what the pass in each process is doing
  redacted,   \* history: reports scrubbed while no pass had them in its batch
  spent       \* [faults, scrubs] so far

rewrapVars == <<details, service, dataKey, pass, redacted, spent>>

Wraps == 0..MaxServices \cup {NoKey}
Details == [words : {"given", "scrubbed"}, wrap : Wraps]
Blank == [words |-> "given", wrap |-> NoKey]
NoPass == [at |-> "none", batch |-> {}, had |-> [r \in Reports |-> Blank], ran |-> 0]
Passes == [at : {"none", "load", "commit"}, batch : SUBSET Reports, had : [Reports -> Details],
           ran : 0..MaxBatches]

(* Values stay in their types.                                               *)
RewrapTypeOK ==
  /\ details \in [Reports -> Details] /\ service \in 1..MaxServices
  /\ dataKey \in [Servers -> Wraps] /\ redacted \subseteq Reports
  /\ pass \in [Servers -> Passes]
  /\ spent \in [faults : 0..MaxRewrapFaults, scrubs : 0..MaxScrubs]

RewrapInit ==
  /\ details \in [Reports -> {[words |-> "given", wrap |-> w] : w \in {0, 1, NoKey}}]
  /\ {r \in Reports : details[r].wrap = NoKey} = Unreadable
  /\ service = 1 /\ dataKey = [p \in Servers |-> NoKey] /\ pass = [p \in Servers |-> NoPass]
  /\ redacted = {} /\ spent = [faults |-> 0, scrubs |-> 0]

RewrapFault == spent.faults < MaxRewrapFaults /\ spent' = [spent EXCEPT !.faults = @ + 1]

-----------------------------------------------------------------------------
(* _get_active_dek: the first use of a process wraps its data key, with the  *)
(* application's key if the service does not answer.                         *)
FirstUse(p) ==
  /\ dataKey[p] = NoKey /\ dataKey' = [dataKey EXCEPT ![p] = service]
  /\ UNCHANGED <<details, service, pass, redacted, spent>>

FirstUseLocal(p) ==
  /\ dataKey[p] = NoKey /\ RewrapFault /\ dataKey' = [dataKey EXCEPT ![p] = 0]
  /\ UNCHANGED <<details, service, pass, redacted>>

StartPass(p) ==
  /\ pass[p].at = "none" /\ pass' = [pass EXCEPT ![p] = [NoPass EXCEPT !.at = "load"]]
  /\ UNCHANGED <<details, service, dataKey, redacted, spent>>

Stale(r) == details[r].wrap # service

(* The rows of a batch, oldest first.                                        *)
Batch ==
  {r \in Reports : Stale(r) /\ Cardinality({s \in Reports : s < r /\ Stale(s)}) < RewrapLimit}

LoadedMutant(p) ==
  [r \in Reports |-> IF pass[p].had[r] # Blank THEN pass[p].had[r]
                    ELSE IF r \in Batch THEN details[r] ELSE Blank]
Loaded(p) == [r \in Reports |-> IF r \in Batch THEN details[r] ELSE Blank]

(* The rows are loaded anew for each batch: the session keeps none that      *)
(* nobody refers to.                                                         *)
LoadBatch(p) ==
  /\ pass[p].at = "load"
  /\ pass' = [pass EXCEPT ![p] =
       IF Batch = {} THEN NoPass
       ELSE [@ EXCEPT !.at = "commit", !.batch = Batch, !.had = Loaded(p)]]
  /\ UNCHANGED <<details, service, dataKey, redacted, spent>>

(* A batch that was full is followed by another, up to a ceiling.            *)
GoesOn(p) == Cardinality(pass[p].batch) = RewrapLimit /\ pass[p].ran + 1 < MaxBatches

(* rewrap_value of each row, and one commit.  A row that cannot be decrypted *)
(* is left alone, and is of the next batch again.                            *)
CommitBatch(p) ==
  LET has == pass[p].had
      turned == {r \in pass[p].batch : has[r].wrap # NoKey}
  IN  /\ pass[p].at = "commit" /\ dataKey[p] # NoKey
      /\ details' = [r \in Reports |-> IF r \in turned THEN [has[r] EXCEPT !.wrap = dataKey[p]]
                                       ELSE details[r]]
      /\ pass' = [pass EXCEPT ![p] =
           IF GoesOn(p) THEN [@ EXCEPT !.at = "load", !.batch = {}, !.ran = pass[p].ran + 1] ELSE NoPass]
      /\ UNCHANGED <<service, dataKey, redacted, spent>>

(* The database refuses the query or the commit, and the pass ends.          *)
PassFails(p) ==
  /\ pass[p].at # "none" /\ RewrapFault /\ pass' = [pass EXCEPT ![p] = NoPass]
  /\ UNCHANGED <<details, service, dataKey, redacted>>

(* Retention, in some process, clears the report's details.                  *)
ScrubReport(p, r) ==
  /\ dataKey[p] # NoKey /\ details[r].words = "given"
  /\ spent.scrubs < MaxScrubs /\ spent' = [spent EXCEPT !.scrubs = @ + 1]
  /\ details' = [details EXCEPT ![r] = [words |-> "scrubbed", wrap |-> dataKey[p]]]
  /\ redacted' = IF \A q \in Servers : r \notin pass[q].batch THEN redacted \cup {r} ELSE redacted
  /\ UNCHANGED <<service, dataKey, pass>>

(* Saving the key service's card leaves every process its data key;          *)
(* applying a cloud profile makes the process it is applied in drop it.      *)
ChangeService(forgets) ==
  /\ service < MaxServices /\ service' = service + 1
  /\ dataKey' = [p \in Servers |-> IF p \in forgets THEN NoKey ELSE dataKey[p]]
  /\ UNCHANGED <<details, pass, redacted, spent>>
SaveCard == ChangeService({})
ApplyProfile(p) == ChangeService({p})

Restart(p) ==
  /\ RewrapFault /\ dataKey' = [dataKey EXCEPT ![p] = NoKey] /\ pass' = [pass EXCEPT ![p] = NoPass]
  /\ UNCHANGED <<details, service, redacted>>

PassStep(p) == FirstUse(p) \/ LoadBatch(p) \/ CommitBatch(p)

RewrapNext ==
  \/ \E p \in Servers : \/ PassStep(p) \/ FirstUseLocal(p) \/ StartPass(p) \/ PassFails(p)
                        \/ Restart(p) \/ ApplyProfile(p)
                        \/ \E r \in Reports : ScrubReport(p, r)
  \/ SaveCard

RewrapSpec == RewrapInit /\ [][RewrapNext]_rewrapVars

-----------------------------------------------------------------------------
(* What retention cleared while no pass had the row in its batch stays       *)
(* cleared, whatever passes go on or follow, in whatever process.            *)
RedactedStaysRedacted == \A r \in redacted : details[r].words = "scrubbed"

(* retention_scrub.py: what it clears is destroyed "permanently".            *)
RedactionIsFinal ==
  [][\A r \in Reports : details[r].words = "scrubbed" => details'[r].words = "scrubbed"]_rewrapVars
=============================================================================
