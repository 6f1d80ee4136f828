-------------------------- MODULE IntegrationsProofs --------------------------
(***************************************************************************)
(* Theorems about one circuit of the breaker, for every number of callers,  *)
(* every threshold and every longest pause; and about one report and the    *)
(* vendors, for every number of workers, rows, comments, words and faults:  *)
(* its filing, its status, its comments and its priority; and about the     *)
(* five of them side by side.                                               *)
(***************************************************************************)
EXTENDS MCIntegrations, FiniteSetTheorems, TLAPS

(* While nobody but the probe has reported since probing was last set, there *)
(* is at most one probe, and the flag is its own.                            *)
FlagIsTheProbes ==
  ~meddled => /\ \A a, b \in Probes : a = b
              /\ Probes # {} => circuit.probing

(* A report ends the one probe, unless somebody meddled.                     *)
LEMMA ReportEndsTheProbe ==
  ASSUME BreakerTypeOK, FlagIsTheProbes, NEW c \in Callers,
         flight' = [flight EXCEPT ![c] = "none"],
         meddled' = (meddled \/ flight[c] # "probe"), ~meddled'
  PROVE  Probes' = {}
<1>1. ~meddled /\ c \in Probes
  BY Zenon DEF Probes
<1>2. \A a \in Probes : a = c
  BY <1>1 DEF FlagIsTheProbes
<1>3. \A a \in Callers : flight'[a] # "probe"
  BY <1>2 DEF BreakerTypeOK, Probes
<1> QED BY <1>3 DEF Probes

(* The values of a circuit stay in their types: the pause is doubled up to   *)
(* the longest one and no further, the failures are counted to the threshold.*)
THEOREM BreakerTyped == BreakerSpec => []BreakerTypeOK
<1> USE ThresholdIsPositive, DoublingsAreNat
<1>0. FreshCircuit \in [failures : 0..FailThreshold, phase : {"closed", "open", "half_open"},
                        doublings : 0..MaxDoublings, probing : BOOLEAN]
  <2>1. 0 \in 0..FailThreshold /\ 0 \in 0..MaxDoublings
    OBVIOUS
  <2> QED BY <2>1, Zenon DEF FreshCircuit
<1>1. BreakerInit => BreakerTypeOK
  BY <1>0 DEF BreakerInit, BreakerTypeOK
<1>2. BreakerTypeOK /\ [BreakerNext]_breakerVars => BreakerTypeOK'
  <2> SUFFICES ASSUME BreakerTypeOK, [BreakerNext]_breakerVars PROVE BreakerTypeOK'
    OBVIOUS
  <2> USE DEF BreakerTypeOK
  <2>1. CASE CooldownEnds
    BY <2>1 DEF CooldownEnds
  <2>2. ASSUME NEW c \in Callers, CallAdmitted(c) PROVE BreakerTypeOK'
    BY <2>2 DEF CallAdmitted
  <2>3. ASSUME NEW c \in Callers, CallProbes(c) PROVE BreakerTypeOK'
    <3>1. meddled' \in BOOLEAN
      BY <2>3, Zenon DEF CallProbes
    <3> QED BY <2>3, <3>1 DEF CallProbes
  <2>4. ASSUME NEW c \in Callers, TestOverrides(c) PROVE BreakerTypeOK'
    BY <1>0, <2>4 DEF TestOverrides
  <2>5. ASSUME NEW c \in Callers, CallSucceeds(c) PROVE BreakerTypeOK'
    <3>1. meddled' \in BOOLEAN
      BY <2>5, Zenon DEF CallSucceeds
    <3> QED BY <1>0, <2>5, <3>1 DEF CallSucceeds
  <2>6. ASSUME NEW c \in Callers, CallFails(c) PROVE BreakerTypeOK'
    <3>1. meddled' \in BOOLEAN
      BY <2>6, Zenon DEF CallFails
    <3>2. CASE circuit.probing
      <4>1. circuit' = [failures |-> circuit'.failures, phase |-> "open", probing |-> FALSE,
                        doublings |-> circuit'.doublings]
            /\ circuit'.failures \in 0..FailThreshold /\ circuit'.doublings \in 0..MaxDoublings
        BY <2>6, <3>2 DEF CallFails, AfterFailure
      <4>2. \A f \in 0..FailThreshold, d \in 0..MaxDoublings :
              [failures |-> f, phase |-> "open", probing |-> FALSE, doublings |-> d]
                \in [failures : 0..FailThreshold, phase : {"closed", "open", "half_open"},
                    doublings : 0..MaxDoublings, probing : BOOLEAN]
        BY Zenon
      <4> QED BY <2>6, <3>1, <4>1, <4>2 DEF CallFails
    <3>3. CASE ~circuit.probing
      <4>1. circuit' = [circuit EXCEPT !.failures = circuit'.failures, !.phase = circuit'.phase]
            /\ circuit'.failures \in 0..FailThreshold /\ circuit'.phase \in {"closed", "open", "half_open"}
        BY <2>6, <3>3 DEF CallFails, AfterFailure
      <4>2. \A f \in 0..FailThreshold, p \in {"closed", "open", "half_open"} :
              [circuit EXCEPT !.failures = f, !.phase = p]
                \in [failures : 0..FailThreshold, phase : {"closed", "open", "half_open"},
                    doublings : 0..MaxDoublings, probing : BOOLEAN]
        OBVIOUS
      <4> QED BY <2>6, <3>1, <4>1, <4>2 DEF CallFails
    <3> QED BY <3>2, <3>3
  <2>7. ASSUME NEW c \in Callers, CallCancelled(c) PROVE BreakerTypeOK'
    <3>1. abandoned' \in BOOLEAN
      BY <2>7, Zenon DEF CallCancelled
    <3> QED BY <2>7, <3>1 DEF CallCancelled
  <2>8. CASE UNCHANGED breakerVars
    BY <2>8 DEF breakerVars
  <2> QED BY <2>1, <2>2, <2>3, <2>4, <2>5, <2>6, <2>7, <2>8 DEF BreakerNext, CallNext
<1> QED BY <1>1, <1>2, PTL DEF BreakerSpec

(* No circuit is shut for good: the flag that keeps callers out belongs to a *)
(* probe still in flight, or to one that was cancelled.                      *)
THEOREM ProbesReport == BreakerSpec => []ProbeWillReport
<1>1. BreakerInit => ProbeWillReport
  BY DEF BreakerInit, ProbeWillReport, FreshCircuit
<1>2. BreakerTypeOK /\ ProbeWillReport /\ [BreakerNext]_breakerVars => ProbeWillReport'
  <2> SUFFICES ASSUME BreakerTypeOK, ProbeWillReport, [BreakerNext]_breakerVars
               PROVE ProbeWillReport'
    OBVIOUS
  <2>1. CASE CooldownEnds
    BY <2>1 DEF CooldownEnds, ProbeWillReport, Probes, BreakerTypeOK
  <2>2. ASSUME NEW c \in Callers, CallAdmitted(c) PROVE ProbeWillReport'
    <3>1. \A a \in Probes : a \in Probes'
      BY <2>2 DEF CallAdmitted, Probes, BreakerTypeOK
    <3> QED BY <2>2, <3>1 DEF CallAdmitted, ProbeWillReport
  <2>3. ASSUME NEW c \in Callers, CallProbes(c) PROVE ProbeWillReport'
    <3>1. c \in Probes'
      BY <2>3 DEF CallProbes, Probes, BreakerTypeOK
    <3> QED BY <3>1 DEF ProbeWillReport
  <2>4. ASSUME NEW c \in Callers, TestOverrides(c) \/ CallSucceeds(c) PROVE ProbeWillReport'
    BY <2>4 DEF TestOverrides, CallSucceeds, FreshCircuit, ProbeWillReport
  <2>5. ASSUME NEW c \in Callers, CallFails(c) PROVE ProbeWillReport'
    <3>1. circuit'.probing = FALSE
      <4>1. CASE circuit.probing
        BY <2>5, <4>1 DEF CallFails, AfterFailure, BreakerTypeOK
      <4>2. CASE ~circuit.probing
        BY <2>5, <4>2 DEF CallFails, AfterFailure, BreakerTypeOK
      <4> QED BY <4>1, <4>2
    <3> QED BY <3>1 DEF ProbeWillReport
  <2>6. ASSUME NEW c \in Callers, CallCancelled(c) PROVE ProbeWillReport'
    <3>1. CASE flight[c] = "probe"
      BY <2>6, <3>1 DEF CallCancelled, ProbeWillReport
    <3>2. CASE flight[c] # "probe"
      <4>1. \A a \in Probes : a \in Probes'
        BY <2>6, <3>2 DEF CallCancelled, Probes, BreakerTypeOK
      <4> QED BY <2>6, <4>1 DEF CallCancelled, ProbeWillReport
    <3> QED BY <3>1, <3>2
  <2>7. CASE UNCHANGED breakerVars
    BY <2>7 DEF breakerVars, ProbeWillReport, Probes
  <2> QED BY <2>1, <2>2, <2>3, <2>4, <2>5, <2>6, <2>7 DEF BreakerNext, CallNext
<1> QED BY <1>1, <1>2, BreakerTyped, PTL DEF BreakerSpec

(* "Half-open admits exactly one caller", until a call that was not the      *)
(* probe reports, or an admin's test resets the circuit, while it is out.    *)
THEOREM OneProbe == BreakerSpec => []OneProbeAtATime
<1>1. BreakerInit => FlagIsTheProbes
  BY DEF BreakerInit, FlagIsTheProbes, Probes
<1>2. BreakerTypeOK /\ FlagIsTheProbes /\ [BreakerNext]_breakerVars => FlagIsTheProbes'
  <2> SUFFICES ASSUME BreakerTypeOK, FlagIsTheProbes, [BreakerNext]_breakerVars
               PROVE FlagIsTheProbes'
    OBVIOUS
  <2>1. CASE CooldownEnds
    BY <2>1 DEF CooldownEnds, FlagIsTheProbes, Probes, BreakerTypeOK
  <2>2. ASSUME NEW c \in Callers, CallAdmitted(c) PROVE FlagIsTheProbes'
    <3>1. Probes' = Probes
      BY <2>2 DEF CallAdmitted, Probes, BreakerTypeOK
    <3> QED BY <2>2, <3>1 DEF CallAdmitted, FlagIsTheProbes
  <2>3. ASSUME NEW c \in Callers, CallProbes(c) PROVE FlagIsTheProbes'
    <3> SUFFICES ASSUME ~meddled' PROVE (\A a, b \in Probes' : a = b) /\ circuit'.probing
      BY DEF FlagIsTheProbes
    <3>1. Probes = {}
      <4>1. ~circuit.probing
        BY <2>3 DEF CallProbes, AdmitsProbe
      <4>2. ~(meddled /\ Probes # {})
        BY <2>3, Zenon DEF CallProbes
      <4> QED BY <4>1, <4>2, Zenon DEF FlagIsTheProbes
    <3>2. Probes' = {c}
      BY <2>3, <3>1 DEF CallProbes, Probes, BreakerTypeOK
    <3> QED BY <2>3, <3>2 DEF CallProbes, BreakerTypeOK
  <2>4. ASSUME NEW c \in Callers, TestOverrides(c) PROVE FlagIsTheProbes'
    BY <2>4 DEF TestOverrides, FlagIsTheProbes
  <2>5. ASSUME NEW c \in Callers, CallSucceeds(c) \/ CallFails(c) PROVE FlagIsTheProbes'
    BY <2>5, ReportEndsTheProbe DEF CallSucceeds, CallFails, FlagIsTheProbes
  <2>6. ASSUME NEW c \in Callers, CallCancelled(c) PROVE FlagIsTheProbes'
    <3>1. Probes' \subseteq Probes
      BY <2>6 DEF CallCancelled, Probes, BreakerTypeOK
    <3> QED BY <2>6, <3>1 DEF CallCancelled, FlagIsTheProbes
  <2>7. CASE UNCHANGED breakerVars
    BY <2>7 DEF breakerVars, FlagIsTheProbes, Probes
  <2> QED BY <2>1, <2>2, <2>3, <2>4, <2>5, <2>6, <2>7 DEF BreakerNext, CallNext
<1>3. FlagIsTheProbes => OneProbeAtATime
  <2> SUFFICES ASSUME FlagIsTheProbes, ~meddled PROVE ~(Cardinality(Probes) > 1)
    BY DEF OneProbeAtATime
  <2>1. CASE Probes = {}
    BY <2>1, FS_EmptySet
  <2>2. ASSUME NEW a \in Probes PROVE ~(Cardinality(Probes) > 1)
    <3>1. Probes = {a}
      BY <2>2 DEF FlagIsTheProbes
    <3>2. Cardinality(Probes) = 1
      BY <3>1, FS_Singleton
    <3> QED BY <3>2
  <2> QED BY <2>1, <2>2
<1> QED BY <1>1, <1>2, <1>3, BreakerTyped, PTL DEF BreakerSpec

(* A half-open circuit admits one probe at a time and is not shut for good.  *)
THEOREM HalfOpenKept == BreakerSpec => []HalfOpenHolds
<1>1. OneProbeAtATime /\ ProbeWillReport => HalfOpenHolds
  BY DEF HalfOpenHolds
<1> QED BY <1>1, OneProbe, ProbesReport, PTL
-----------------------------------------------------------------------------
(* One report's push: what a process and a row of the backlog range over.    *)
Places == {"idle", "wait", "loop", "call", "link", "clear", "followup", "record", "write"}
ProcStates == [at : Places, todo : SUBSET Vendors, vendor : Vendors \cup {Nobody},
               found : SUBSET BacklogIds, again : 0..Cardinality(BacklogIds), beat : BOOLEAN]
BacklogRows == [state : {"free", "open", "closed"}, vendor : Vendors \cup {Nobody},
                tries : 0..MaxTries, due : {"due", "later", "never"}]

(* At most the delayed push and the one after triage are queued; an open row *)
(* and whoever is past the link test are about a vendor; intake only records.*)
PushBooks ==
  /\ report = "new" => tasks = 0 /\ ~triaged
  /\ ~triaged => tasks <= 1
  /\ \A r \in BacklogIds : backlog[r].state = "open" => backlog[r].vendor \in Vendors
  /\ At(Intake, "idle") \/ At(Intake, "record") \/ At(Intake, "write")
  /\ \A p \in Procs : At(p, "idle") \/ At(p, "wait") \/ At(p, "loop") \/ V(p) \in Vendors

PushShape == PushTypeOK /\ PushBooks

(* What the backlog's operators return.                                      *)
LEMMA RowsStayRows ==
  ASSUME NEW row \in BacklogRows
  PROVE  /\ Closed(row) \in BacklogRows /\ Closed(row).state = "closed"
         /\ FailedAgain(row) \in BacklogRows
         /\ FailedAgain(row).state = row.state /\ FailedAgain(row).vendor = row.vendor
         /\ [row EXCEPT !.due = "due"] \in BacklogRows
<1>1. Closed(row) \in BacklogRows /\ Closed(row).state = "closed"
  BY DEF Closed, BacklogRows
<1>2. \A tries \in 0..MaxTries : DueAfter(tries) \in {"due", "later", "never"}
  BY DEF DueAfter
<1>3. ASSUME NEW tries \in 0..MaxTries
      PROVE  LET new == [row EXCEPT !.tries = tries, !.due = DueAfter(tries)]
             IN  new \in BacklogRows /\ new.state = row.state /\ new.vendor = row.vendor
  BY <1>2 DEF BacklogRows
<1>4. row.tries \in 0..MaxTries
  BY DEF BacklogRows
<1>5. (IF row.tries < MaxTries THEN row.tries + 1 ELSE MaxTries) \in 0..MaxTries
  BY <1>4, TriesAreNat
<1>6. [row EXCEPT !.due = "due"] \in BacklogRows
  BY DEF BacklogRows
<1> QED BY <1>1, <1>3, <1>5, <1>6 DEF FailedAgain

LEMMA FreshRowIsOpen ==
  ASSUME NEW v \in Vendors
  PROVE  FreshRow(v) \in BacklogRows /\ FreshRow(v).state = "open" /\ FreshRow(v).vendor = v
<1> DEFINE row == [NoBacklogRow EXCEPT !.state = "open", !.vendor = v]
<1>0. NoBacklogRow \in BacklogRows
  <2>1. 0 \in 0..MaxTries
    BY TriesAreNat
  <2> QED BY <2>1, Zenon DEF NoBacklogRow, BacklogRows
<1>1. row \in BacklogRows /\ row.state = "open" /\ row.vendor = v
  BY <1>0 DEF BacklogRows
<1>2. FreshRow(v) = FailedAgain(row)
  BY Zenon DEF FreshRow
<1> HIDE DEF row
<1> QED BY <1>1, <1>2, RowsStayRows

(* What a replay found due it can count.                                     *)
LEMMA DueAreCounted ==
  ASSUME DueItems # {}
  PROVE  Cardinality(DueItems) - 1 \in 0..Cardinality(BacklogIds)
<1>1. DueItems \subseteq BacklogIds
  BY DEF DueItems
<1>2. IsFiniteSet(DueItems) /\ Cardinality(DueItems) <= Cardinality(BacklogIds)
  BY <1>1, RowsAreFinite, FS_Subset
<1>3. Cardinality(DueItems) \in Nat /\ Cardinality(BacklogIds) \in Nat
  BY <1>2, RowsAreFinite, FS_CardinalityType
<1>4. Cardinality(DueItems) # 0
  BY <1>2, FS_EmptySet
<1> QED BY <1>2, <1>3, <1>4

LEMMA IdleIsTyped == IdleProc \in ProcStates
  BY RowsAreFinite, FS_CardinalityType DEF IdleProc, ProcStates, Places

(* What PushShape says of the processes, after p has become s.               *)
Became(p, s) ==
  /\ proc' \in [Procs -> ProcStates]
  /\ proc'[p] = s /\ \A q \in Procs \ {p} : proc'[q] = proc[q]
  /\ (At(Intake, "idle") \/ At(Intake, "record") \/ At(Intake, "write"))'
  /\ \A q \in Procs : (At(q, "idle") \/ At(q, "wait") \/ At(q, "loop") \/ V(q) \in Vendors)'
  /\ lockedBy' \in Pushers \cup {Nobody}
  /\ \A w \in Pushers : (lockedBy' = w) = (proc'[w].at \notin {"idle", "wait"})

(* One process changes, and what PushShape says of processes stays true.     *)
LEMMA OneProcMoves ==
  ASSUME PushShape, NEW p \in Procs, NEW s \in ProcStates, proc' = [proc EXCEPT ![p] = s],
         p = Intake => s.at \in {"idle", "record", "write"},
         s.at \in {"idle", "wait", "loop"} \/ s.vendor \in Vendors,
         \/ lockedBy' = lockedBy /\ (s.at \in {"idle", "wait"} <=> At(p, "idle") \/ At(p, "wait"))
         \/ lockedBy' = p /\ lockedBy = Nobody /\ s.at \notin {"idle", "wait"} /\ p \in Pushers
         \/ lockedBy' = Nobody /\ lockedBy = p /\ s.at \in {"idle", "wait"} /\ p \in Pushers
         \/ lockedBy' = lockedBy /\ p \notin Pushers
  PROVE  Became(p, s)
<1>1. proc \in [Procs -> ProcStates]
  BY DEF PushShape, PushTypeOK, ProcStates, Places
<1>2. /\ proc' \in [Procs -> ProcStates]
      /\ proc'[p] = s /\ \A q \in Procs \ {p} : proc'[q] = proc[q]
  BY <1>1
<1>3. Intake \in Procs /\ Intake \notin Pushers /\ Nobody \notin Pushers /\ Pushers \subseteq Procs
  BY PushersAreWorkers DEF Procs
<1>4. (At(Intake, "idle") \/ At(Intake, "record") \/ At(Intake, "write"))'
  BY <1>2, <1>3 DEF At, PushShape, PushBooks
<1>5. \A q \in Procs : (At(q, "idle") \/ At(q, "wait") \/ At(q, "loop") \/ V(q) \in Vendors)'
  BY <1>2 DEF At, V, PushShape, PushBooks
<1>6. /\ lockedBy \in Pushers \cup {Nobody}
      /\ \A w \in Pushers : (lockedBy = w) = (proc[w].at \notin {"idle", "wait"})
  BY DEF PushShape, PushTypeOK
<1>7. lockedBy' \in Pushers \cup {Nobody}
  BY <1>6
<1>8. \A w \in Pushers : (lockedBy' = w) = (proc'[w].at \notin {"idle", "wait"})
  <2> TAKE w \in Pushers
  <2>1. CASE w = p
    BY <1>2, <1>3, <1>6, <2>1 DEF At
  <2>2. CASE w # p
    BY <1>2, <1>3, <1>6, <2>2 DEF At
  <2> QED BY <2>1, <2>2
<1> QED BY <1>2, <1>4, <1>5, <1>7, <1>8 DEF Became

(* What a process becomes in each of its steps is one of its states.         *)
LEMMA ProcStatesKept ==
  ASSUME PushShape, NEW p \in Procs
  PROVE  /\ proc[p] \in ProcStates
         /\ \A place \in Places : [proc[p] EXCEPT !.at = place] \in ProcStates
         /\ \A place \in Places, v \in Vendors, todo \in SUBSET Vendors :
              [proc[p] EXCEPT !.at = place, !.vendor = v, !.todo = todo] \in ProcStates
         /\ [proc[p] EXCEPT !.at = "loop", !.todo = Vendors] \in ProcStates
         /\ \A some \in SUBSET BacklogIds : [proc[p] EXCEPT !.at = "write", !.found = some] \in ProcStates
         /\ \A n \in 0..Cardinality(BacklogIds) :
              [proc[p] EXCEPT !.at = "wait", !.again = n, !.beat = TRUE] \in ProcStates
<1>1. proc[p] \in ProcStates
  BY DEF PushShape, PushTypeOK, ProcStates, Places
<1> HIDE DEF PushShape
<1> QED BY <1>1 DEF ProcStates, Places

LEMMA MoveKeepsProcs ==
  ASSUME PushShape, NEW w \in Pushers, NEW place \in Places, Move(w, place), lockedBy' = lockedBy,
         place \in {"idle", "wait"} <=> At(w, "idle") \/ At(w, "wait"),
         place \in {"idle", "wait", "loop"} \/ V(w) \in Vendors
  PROVE  Became(w, [proc[w] EXCEPT !.at = place])
<1> DEFINE s == [proc[w] EXCEPT !.at = place]
<1>1. w \in Procs /\ w # Intake
  BY PushersAreWorkers DEF Procs
<1>2. proc[w] \in ProcStates /\ s \in ProcStates
  BY <1>1, ProcStatesKept
<1>3. s.at = place /\ s.vendor = V(w)
  BY <1>2 DEF ProcStates, V
<1>4. proc' = [proc EXCEPT ![w] = s]
  BY Zenon DEF Move
<1>5. Became(w, s)
  <2> HIDE DEF s
  <2> QED BY <1>1, <1>2, <1>3, <1>4, OneProcMoves
<1> QED BY <1>5, Zenon

(* Every step keeps the types, with what the types rest on.                  *)
LEMMA PushStarts == PushInit => PushShape
<1> SUFFICES ASSUME PushInit PROVE PushShape
  OBVIOUS
<1>1. proc \in [Procs -> ProcStates]
  BY IdleIsTyped DEF PushInit
<1>2. backlog \in [BacklogIds -> BacklogRows]
  <2>1. 0 \in 0..MaxTries
    BY TriesAreNat
  <2>2. NoBacklogRow \in BacklogRows
    BY <2>1, Zenon DEF NoBacklogRow, BacklogRows
  <2> QED BY <2>2 DEF PushInit
<1>3. \A p \in Procs : proc[p].at = "idle"
  BY DEF PushInit, IdleProc
<1>4. \A r \in BacklogIds : backlog[r].state = "free"
  BY DEF PushInit, NoBacklogRow
<1>5. \A w \in Pushers : (lockedBy = w) = (proc[w].at \notin {"idle", "wait"})
  BY <1>3, PushersAreWorkers DEF PushInit, Procs
<1>6. triaged \in BOOLEAN /\ ~triaged
  BY Zenon DEF PushInit
<1>7. /\ report \in {"new", "saved"} /\ tasks \in 0..2 /\ mishaps \in 0..MaxMishaps
      /\ filed \in [Vendors -> Nat] /\ unsure \in [Vendors -> Nat]
      /\ lockedBy \in Pushers \cup {Nobody} /\ linked \subseteq Vendors /\ lost \subseteq Vendors
  BY TriesAreNat DEF PushInit
<1>8. PushTypeOK
  BY <1>1, <1>2, <1>5, <1>6, <1>7, Zenon DEF PushTypeOK, ProcStates, Places, BacklogRows
<1>9. report = "new" /\ tasks = 0 /\ Intake \in Procs
  BY DEF PushInit, Procs
<1> QED BY <1>3, <1>4, <1>6, <1>8, <1>9 DEF PushShape, PushBooks, At

LEMMA PushKeepsShape == PushShape /\ [PushNext]_pushVars => PushShape'
<1> SUFFICES ASSUME PushShape, [PushNext]_pushVars PROVE PushShape'
  OBVIOUS
<1>w. Pushers \subseteq Procs /\ Intake \in Procs /\ Intake \notin Pushers
  BY PushersAreWorkers DEF Procs
<1>t. /\ proc \in [Procs -> ProcStates] /\ backlog \in [BacklogIds -> BacklogRows]
      /\ \A r \in BacklogIds : backlog[r] \in BacklogRows
  BY DEF PushShape, PushTypeOK, ProcStates, Places, BacklogRows
<1>p. Places = {"idle", "wait", "loop", "call", "link", "clear", "followup", "record", "write"}
  BY DEF Places
<1> DEFINE Calm == /\ report' \in {"new", "saved"} /\ triaged' \in BOOLEAN /\ tasks' \in 0..2
                   /\ filed' \in [Vendors -> Nat] /\ unsure' \in [Vendors -> Nat]
                   /\ linked' \subseteq Vendors /\ lost' \subseteq Vendors
                   /\ mishaps' \in 0..MaxMishaps
                   /\ report' = "new" => tasks' = 0 /\ ~triaged'
                   /\ ~triaged' => tasks' <= 1
           Rows == /\ backlog' \in [BacklogIds -> BacklogRows]
                   /\ \A r \in BacklogIds : backlog'[r].state = "open" => backlog'[r].vendor \in Vendors
<1>a. ASSUME NEW p \in Procs, NEW s, Became(p, s), Calm, Rows PROVE PushShape'
  BY <1>a DEF Became, PushShape, PushTypeOK, PushBooks, ProcStates, Places, BacklogRows
<1>b. ASSUME UNCHANGED <<proc, lockedBy>>, Calm, Rows PROVE PushShape'
  <2>1. UNCHANGED proc /\ UNCHANGED lockedBy
    BY <1>b
  <2> QED BY <1>b, <2>1 DEF PushShape, PushTypeOK, PushBooks, ProcStates, Places, BacklogRows, At, V
<1>c. ASSUME UNCHANGED <<backlog>> PROVE Rows
  BY <1>c, <1>t DEF PushShape, PushBooks
<1>d. ASSUME UNCHANGED <<report, triaged, tasks, filed, linked, unsure, lost, mishaps>> PROVE Calm
  BY <1>d DEF PushShape, PushTypeOK, PushBooks
<1>m. Mishap => mishaps' \in 0..MaxMishaps
  BY TriesAreNat DEF Mishap, PushShape, PushTypeOK
<1>1. CASE IntakeQueued
  <2>1. Calm
    BY <1>1 DEF IntakeQueued, PushShape, PushTypeOK, PushBooks
  <2> QED BY <1>1, <1>b, <1>c, <2>1 DEF IntakeQueued
<1>2. CASE IntakeUnqueued
  <2>1. PICK v \in Vendors : proc' = [proc EXCEPT ![Intake] =
           [proc[Intake] EXCEPT !.at = "record", !.vendor = v, !.todo = Vendors \ {v}]]
    BY <1>2, Zenon DEF IntakeUnqueued
  <2> DEFINE s == [proc[Intake] EXCEPT !.at = "record", !.vendor = v, !.todo = Vendors \ {v}]
  <2>2. s \in ProcStates
    BY <1>w, <1>p, ProcStatesKept
  <2>3. s.at = "record" /\ s.vendor = v
    BY <1>w, <1>t DEF ProcStates
  <2>4. proc' = [proc EXCEPT ![Intake] = s]
    BY <2>1, Zenon
  <2>5. lockedBy' = lockedBy
    BY <1>2 DEF IntakeUnqueued
  <2> HIDE DEF s
  <2>6. Became(Intake, s)
    BY <1>w, <2>2, <2>3, <2>4, <2>5, OneProcMoves
  <2>7. Calm
    BY <1>2, <1>m DEF IntakeUnqueued, PushShape, PushTypeOK, PushBooks
  <2>8. Rows
    BY <1>2, <1>c DEF IntakeUnqueued
  <2> HIDE DEF Calm, Rows
  <2> QED BY <1>w, <1>a, <2>6, <2>7, <2>8
<1>3. CASE TriageDone
  <2>1. triaged' \in BOOLEAN /\ triaged' /\ ~triaged /\ report = "saved" /\ report' = "saved"
    BY <1>3, Zenon DEF TriageDone
  <2>2. tasks \in 0..2 /\ tasks <= 1 /\ mishaps \in 0..MaxMishaps
    BY <2>1 DEF PushShape, PushTypeOK, PushBooks
  <2>3. tasks' \in 0..2 /\ mishaps' \in 0..MaxMishaps
    BY <1>3, <1>m, <2>2 DEF TriageDone
  <2>4. Calm
    BY <1>3, <2>1, <2>3 DEF TriageDone, PushShape, PushTypeOK
  <2> QED BY <1>3, <1>b, <1>c, <2>4 DEF TriageDone
<1>4. ASSUME NEW w \in Pushers, TakeTask(w) PROVE PushShape'
  <2>1. Became(w, [proc[w] EXCEPT !.at = "wait"])
    BY <1>4, <1>p, MoveKeepsProcs DEF TakeTask
  <2>2. Calm
    BY <1>4 DEF TakeTask, PushShape, PushTypeOK, PushBooks
  <2>3. Rows
    BY <1>4, <1>c DEF TakeTask
  <2> HIDE DEF Calm, Rows
  <2> QED BY <1>w, <1>a, <2>1, <2>2, <2>3
<1>5. ASSUME NEW w \in Pushers, ReplayDue(w) PROVE PushShape'
  <2> DEFINE n == Cardinality(DueItems) - 1
             s == [proc[w] EXCEPT !.at = "wait", !.again = n, !.beat = TRUE]
  <2>1. n \in 0..Cardinality(BacklogIds)
    BY <1>5, DueAreCounted DEF ReplayDue
  <2>2. proc' = [proc EXCEPT ![w] = s] /\ lockedBy' = lockedBy /\ At(w, "idle")
    BY <1>5, Zenon DEF ReplayDue
  <2> HIDE DEF n
  <2>3. s \in ProcStates /\ s.at = "wait"
    BY <1>w, <1>t, <2>1, ProcStatesKept DEF ProcStates
  <2> HIDE DEF s
  <2>4. Became(w, s)
    BY <1>w, <2>2, <2>3, OneProcMoves
  <2>5. Calm
    BY <1>5, <1>d DEF ReplayDue
  <2>6. Rows
    BY <1>5, <1>c DEF ReplayDue
  <2> HIDE DEF Calm, Rows
  <2> QED BY <1>w, <1>a, <2>4, <2>5, <2>6
<1>6. ASSUME NEW w \in Pushers, TakeLock(w) PROVE PushShape'
  <2> DEFINE s == [proc[w] EXCEPT !.at = "loop", !.todo = Vendors]
  <2>1. proc' = [proc EXCEPT ![w] = s] /\ lockedBy' = w /\ lockedBy = Nobody
    BY <1>6, Zenon DEF TakeLock, LockFree
  <2>2. s \in ProcStates /\ s.at = "loop"
    BY <1>w, <1>t, ProcStatesKept DEF ProcStates
  <2> HIDE DEF s
  <2>3. Became(w, s)
    BY <1>w, <2>1, <2>2, OneProcMoves
  <2>4. Calm
    BY <1>6, <1>d DEF TakeLock
  <2>5. Rows
    BY <1>6, <1>c DEF TakeLock
  <2> HIDE DEF Calm, Rows
  <2> QED BY <1>w, <1>a, <2>3, <2>4, <2>5
<1>7. ASSUME NEW w \in Pushers, NextVendor(w) PROVE PushShape'
  <2>1. PICK v \in Vendors : /\ v \in proc[w].todo
                             /\ proc' = [proc EXCEPT ![w] = [proc[w] EXCEPT
                                  !.at = AfterLinkCheck(v), !.vendor = v, !.todo = proc[w].todo \ {v}]]
    <3>1. proc[w].todo \subseteq Vendors
      BY <1>t, <1>w DEF ProcStates
    <3>2. PICK v \in proc[w].todo : proc' = [proc EXCEPT ![w] = [proc[w] EXCEPT
                                  !.at = AfterLinkCheck(v), !.vendor = v, !.todo = proc[w].todo \ {v}]]
      BY <1>7, Zenon DEF NextVendor
    <3> QED BY <3>1, <3>2, Zenon
  <2> DEFINE todo == proc[w].todo \ {v}
             place == AfterLinkCheck(v)
             s == [proc[w] EXCEPT !.at = place, !.vendor = v, !.todo = todo]
  <2>2. place \in {"clear", "call"} /\ todo \subseteq Vendors
    BY <1>t, <1>w DEF AfterLinkCheck, ProcStates
  <2>3. proc' = [proc EXCEPT ![w] = s] /\ lockedBy' = lockedBy /\ At(w, "loop")
    BY <1>7, <2>1, Zenon DEF NextVendor
  <2> HIDE DEF todo, place
  <2>4. s \in ProcStates /\ s.at = place /\ s.vendor = v
    BY <1>w, <1>t, <1>p, <2>2 DEF ProcStates
  <2> HIDE DEF s
  <2>5. Became(w, s)
    <3>1. w \in Procs /\ w # Intake /\ s.at \notin {"idle", "wait"} /\ ~(At(w, "idle") \/ At(w, "wait"))
      BY <1>w, <2>2, <2>3, <2>4 DEF At
    <3> QED BY <2>3, <2>4, <3>1, OneProcMoves
  <2>6. Calm
    BY <1>7, <1>d DEF NextVendor
  <2>7. Rows
    BY <1>7, <1>c DEF NextVendor
  <2> HIDE DEF Calm, Rows
  <2> QED BY <1>w, <1>a, <2>5, <2>6, <2>7
<1>8. ASSUME NEW w \in Pushers, Unlock(w) PROVE PushShape'
  <2>1. proc[w] \in ProcStates /\ lockedBy = w
    BY <1>8, <1>w, <1>t DEF Unlock, At, PushShape, PushTypeOK
  <2> DEFINE more == [IdleProc EXCEPT !.at = "wait", !.again = proc[w].again - 1, !.beat = TRUE]
             s == IF proc[w].again > 0 THEN more ELSE IdleProc
  <2>2. Cardinality(BacklogIds) \in Nat
    BY RowsAreFinite, FS_CardinalityType
  <2>3. proc[w].again > 0 => proc[w].again - 1 \in 0..Cardinality(BacklogIds)
    BY <2>1, <2>2 DEF ProcStates
  <2>4. proc[w].again > 0 => more \in ProcStates /\ more.at = "wait"
    BY <2>3, IdleIsTyped DEF ProcStates, Places
  <2>5. IdleProc.at = "idle"
    BY DEF IdleProc
  <2>6. s \in ProcStates /\ s.at \in {"idle", "wait"}
    BY <2>4, <2>5, IdleIsTyped
  <2>7. proc' = [proc EXCEPT ![w] = s] /\ lockedBy' = Nobody
    BY <1>8, Zenon DEF Unlock
  <2> HIDE DEF s
  <2>8. Became(w, s)
    BY <1>w, <2>1, <2>6, <2>7, OneProcMoves
  <2>9. Calm
    BY <1>8, <1>d DEF Unlock
  <2>10. Rows
    BY <1>8, <1>c DEF Unlock
  <2> HIDE DEF Calm, Rows
  <2> QED BY <1>w, <1>a, <2>8, <2>9, <2>10
<1>9. ASSUME NEW w \in Pushers, VendorFiles(w) PROVE PushShape'
  <2>1. V(w) \in Vendors /\ ~At(w, "idle") /\ ~At(w, "wait")
    BY <1>9, <1>w DEF VendorFiles, At, PushShape, PushBooks
  <2>2. Became(w, [proc[w] EXCEPT !.at = "link"])
    BY <1>9, <1>p, <2>1, MoveKeepsProcs DEF VendorFiles
  <2>3. Calm
    BY <1>9, <2>1 DEF VendorFiles, PushShape, PushTypeOK, PushBooks
  <2>4. Rows
    BY <1>9, <1>c DEF VendorFiles
  <2> HIDE DEF Calm, Rows
  <2> QED BY <1>w, <1>a, <2>2, <2>3, <2>4
<1>10. ASSUME NEW w \in Pushers, VendorRefuses(w) PROVE PushShape'
  <2>1. V(w) \in Vendors /\ ~At(w, "idle") /\ ~At(w, "wait")
    BY <1>10, <1>w DEF VendorRefuses, At, PushShape, PushBooks
  <2>2. Became(w, [proc[w] EXCEPT !.at = "record"])
    BY <1>10, <1>p, <2>1, MoveKeepsProcs DEF VendorRefuses
  <2>3. Calm
    BY <1>10, <1>m DEF VendorRefuses, PushShape, PushTypeOK, PushBooks
  <2>4. Rows
    BY <1>10, <1>c DEF VendorRefuses
  <2> HIDE DEF Calm, Rows
  <2> QED BY <1>w, <1>a, <2>2, <2>3, <2>4
<1>11. ASSUME NEW w \in Pushers, AnswerIsLost(w) PROVE PushShape'
  <2>1. V(w) \in Vendors /\ ~At(w, "idle") /\ ~At(w, "wait")
    BY <1>11, <1>w DEF AnswerIsLost, At, PushShape, PushBooks
  <2>2. Became(w, [proc[w] EXCEPT !.at = "record"])
    BY <1>11, <1>p, <2>1, MoveKeepsProcs DEF AnswerIsLost
  <2>3. Calm
    BY <1>11, <1>m, <2>1 DEF AnswerIsLost, PushShape, PushTypeOK, PushBooks
  <2>4. Rows
    BY <1>11, <1>c DEF AnswerIsLost
  <2> HIDE DEF Calm, Rows
  <2> QED BY <1>w, <1>a, <2>2, <2>3, <2>4
<1>12. ASSUME NEW w \in Pushers, LinkCommitted(w) PROVE PushShape'
  <2>1. V(w) \in Vendors /\ ~At(w, "idle") /\ ~At(w, "wait")
    BY <1>12, <1>w DEF LinkCommitted, At, PushShape, PushBooks
  <2>2. Became(w, [proc[w] EXCEPT !.at = "clear"])
    BY <1>12, <1>p, <2>1, MoveKeepsProcs DEF LinkCommitted
  <2>3. Calm
    BY <1>12, <2>1 DEF LinkCommitted, PushShape, PushTypeOK, PushBooks
  <2>4. Rows
    BY <1>12, <1>c DEF LinkCommitted
  <2> HIDE DEF Calm, Rows
  <2> QED BY <1>w, <1>a, <2>2, <2>3, <2>4
<1>13. ASSUME NEW w \in Pushers, LinkFails(w) PROVE PushShape'
  <2>1. V(w) \in Vendors /\ ~At(w, "idle") /\ ~At(w, "wait")
    BY <1>13, <1>w DEF LinkFails, At, PushShape, PushBooks
  <2>2. Became(w, [proc[w] EXCEPT !.at = "record"])
    BY <1>13, <1>p, <2>1, MoveKeepsProcs DEF LinkFails
  <2>3. Calm
    BY <1>13, <1>m, <2>1 DEF LinkFails, PushShape, PushTypeOK, PushBooks
  <2>4. Rows
    BY <1>13, <1>c DEF LinkFails
  <2> HIDE DEF Calm, Rows
  <2> QED BY <1>w, <1>a, <2>2, <2>3, <2>4
<1>14. ASSUME NEW w \in Pushers, ClearItems(w) PROVE PushShape'
  <2>1. V(w) \in Vendors /\ ~At(w, "idle") /\ ~At(w, "wait")
    BY <1>14, <1>w DEF ClearItems, At, PushShape, PushBooks
  <2>2. Became(w, [proc[w] EXCEPT !.at = "followup"])
    BY <1>14, <1>p, <2>1, MoveKeepsProcs DEF ClearItems
  <2>3. Calm
    BY <1>14, <1>m DEF ClearItems, PushShape, PushTypeOK, PushBooks
  <2>4. Rows
    <3>1. CASE backlog' = [r \in BacklogIds |-> IF r \in OpenItems(V(w)) THEN Closed(backlog[r]) ELSE backlog[r]]
      BY <1>t, <3>1, RowsStayRows DEF PushShape, PushBooks
    <3>2. CASE UNCHANGED backlog
      BY <1>c, <3>2
    <3> QED BY <1>14, <3>1, <3>2, Zenon DEF ClearItems
  <2> HIDE DEF Calm, Rows
  <2> QED BY <1>w, <1>a, <2>2, <2>3, <2>4
<1>15. ASSUME NEW w \in Pushers, FollowUp(w) PROVE PushShape'
  <2>1. V(w) \in Vendors /\ ~At(w, "idle") /\ ~At(w, "wait")
    BY <1>15, <1>w DEF FollowUp, At, PushShape, PushBooks
  <2>2. \/ Became(w, [proc[w] EXCEPT !.at = "loop"])
        \/ Became(w, [proc[w] EXCEPT !.at = "record"])
    <3>1. Move(w, "loop") \/ Move(w, "record")
      BY <1>15, Zenon DEF FollowUp
    <3>2. lockedBy' = lockedBy
      BY <1>15 DEF FollowUp
    <3> QED BY <1>p, <2>1, <3>1, <3>2, MoveKeepsProcs
  <2>3. Calm
    BY <1>15, <1>m DEF FollowUp, PushShape, PushTypeOK, PushBooks
  <2>4. Rows
    BY <1>15, <1>c DEF FollowUp
  <2> HIDE DEF Calm, Rows
  <2> QED BY <1>w, <1>a, <2>2, <2>3, <2>4
<1>16. ASSUME NEW p \in Procs, RecordRead(p) PROVE PushShape'
  <2> DEFINE s == [proc[p] EXCEPT !.at = "write", !.found = OpenItems(V(p))]
  <2>1. OpenItems(V(p)) \subseteq BacklogIds
    BY DEF OpenItems
  <2>2. s \in ProcStates /\ s.at = "write" /\ s.vendor = V(p)
    BY <1>t, <1>p, <2>1 DEF ProcStates, V
  <2>3. proc' = [proc EXCEPT ![p] = s] /\ lockedBy' = lockedBy /\ At(p, "record")
    BY <1>16, Zenon DEF RecordRead
  <2>4. V(p) \in Vendors /\ ~At(p, "idle") /\ ~At(p, "wait")
    BY <2>3 DEF At, PushShape, PushBooks
  <2> HIDE DEF s
  <2>5. Became(p, s)
    BY <2>2, <2>3, <2>4, OneProcMoves
  <2>6. Calm
    BY <1>16, <1>d DEF RecordRead
  <2>7. Rows
    BY <1>16, <1>c DEF RecordRead
  <2> HIDE DEF Calm, Rows
  <2> QED BY <1>a, <2>5, <2>6, <2>7
<1>17. ASSUME NEW p \in Procs, RecordWrite(p) PROVE PushShape'
  <2>1. V(p) \in Vendors /\ ~At(p, "idle") /\ ~At(p, "wait") /\ lockedBy' = lockedBy
    BY <1>17 DEF RecordWrite, At, PushShape, PushBooks
  <2>2. \E s : Became(p, s)
    <3>1. CASE p \in Pushers
      <4>1. Move(p, "loop")
        BY <1>17, <3>1, Zenon DEF RecordWrite, Recorded
      <4>2. Became(p, [proc[p] EXCEPT !.at = "loop"])
        BY <1>p, <2>1, <3>1, <4>1, MoveKeepsProcs
      <4> QED BY <4>2, Zenon
    <3>2. CASE p \notin Pushers /\ proc[p].todo = {}
      <4>1. proc' = [proc EXCEPT ![p] = IdleProc]
        BY <1>17, <3>2, Zenon DEF RecordWrite, Recorded
      <4>2. IdleProc.at = "idle"
        BY DEF IdleProc
      <4>3. Became(p, IdleProc)
        BY <2>1, <3>2, <4>1, <4>2, IdleIsTyped, OneProcMoves
      <4> QED BY <4>3, Zenon
    <3>3. CASE p \notin Pushers /\ proc[p].todo # {}
      <4>0. PICK v \in proc[p].todo : proc' = [proc EXCEPT ![p] =
              [proc[p] EXCEPT !.at = "record", !.vendor = v, !.todo = proc[p].todo \ {v}]]
        BY <1>17, <3>3, Zenon DEF RecordWrite, Recorded
      <4> DEFINE s == [proc[p] EXCEPT !.at = "record", !.vendor = v, !.todo = proc[p].todo \ {v}]
      <4>1. s \in ProcStates /\ s.at = "record" /\ s.vendor \in Vendors
        <5>1. v \in Vendors /\ proc[p].todo \ {v} \subseteq Vendors /\ proc[p] \in ProcStates
          BY <1>t DEF ProcStates
        <5> QED BY <1>p, <5>1 DEF ProcStates
      <4>2. proc' = [proc EXCEPT ![p] = s]
        BY <4>0, Zenon
      <4> HIDE DEF s
      <4>3. Became(p, s)
        BY <2>1, <3>3, <4>1, <4>2, OneProcMoves
      <4> QED BY <4>3, Zenon
    <3> QED BY <3>1, <3>2, <3>3
  <2>3. Calm
    <3>1. mishaps' \in 0..MaxMishaps /\ lost' \subseteq Vendors
      BY <1>17, <1>m, <2>1 DEF RecordWrite, PushShape, PushTypeOK
    <3> QED BY <1>17, <3>1 DEF RecordWrite, PushShape, PushTypeOK, PushBooks
  <2>4. Rows
    <3>1. ASSUME NEW r \in BacklogIds, backlog' = [backlog EXCEPT ![r] = FreshRow(V(p))] PROVE Rows
      BY <1>t, <2>1, <3>1, FreshRowIsOpen DEF PushShape, PushBooks
    <3>2. ASSUME NEW r \in proc[p].found, backlog' = [backlog EXCEPT ![r] = FailedAgain(backlog[r])] PROVE Rows
      <4>1. r \in BacklogIds
        BY <1>t DEF ProcStates
      <4>2. /\ FailedAgain(backlog[r]) \in BacklogRows
            /\ FailedAgain(backlog[r]).state = backlog[r].state
            /\ FailedAgain(backlog[r]).vendor = backlog[r].vendor
        BY <1>t, <4>1, RowsStayRows
      <4> QED BY <1>t, <3>2, <4>1, <4>2 DEF PushShape, PushBooks
    <3>3. CASE UNCHANGED backlog
      BY <1>c, <3>3
    <3> HIDE DEF Rows
    <3> QED BY <1>17, <3>1, <3>2, <3>3, Zenon DEF RecordWrite
  <2> HIDE DEF Calm, Rows
  <2> QED BY <1>a, <2>2, <2>3, <2>4
<1>18. ASSUME NEW r \in BacklogIds, ComesDueAgain(r) \/ RetryItem(r) PROVE PushShape'
  <2>1. backlog' = [backlog EXCEPT ![r] = [backlog[r] EXCEPT !.due = "due"]]
    BY <1>18, Zenon DEF ComesDueAgain, RetryItem
  <2>2. LET row == [backlog[r] EXCEPT !.due = "due"]
        IN  row \in BacklogRows /\ row.state = backlog[r].state /\ row.vendor = backlog[r].vendor
    BY <1>t DEF BacklogRows
  <2>3. Rows
    BY <1>t, <2>1, <2>2 DEF PushShape, PushBooks
  <2>4. Calm
    BY <1>18, <1>d DEF ComesDueAgain, RetryItem
  <2>5. UNCHANGED <<proc, lockedBy>>
    BY <1>18 DEF ComesDueAgain, RetryItem
  <2> HIDE DEF Calm, Rows
  <2> QED BY <1>b, <2>3, <2>4, <2>5
<1>19. ASSUME NEW r \in BacklogIds, DiscardItem(r) PROVE PushShape'
  <2>1. backlog' = [backlog EXCEPT ![r] = Closed(backlog[r])] /\ backlog[r].vendor \in Vendors
    BY <1>19, Zenon DEF DiscardItem, PushShape, PushBooks
  <2>2. Rows
    BY <1>t, <2>1, RowsStayRows DEF PushShape, PushBooks
  <2>3. Calm
    BY <1>19, <1>m, <2>1 DEF DiscardItem, PushShape, PushTypeOK, PushBooks
  <2>4. UNCHANGED <<proc, lockedBy>>
    BY <1>19 DEF DiscardItem
  <2> HIDE DEF Calm, Rows
  <2> QED BY <1>b, <2>2, <2>3, <2>4
<1>20. ASSUME NEW p \in Procs, Kill(p) PROVE PushShape'
  <2>1. proc' = [proc EXCEPT ![p] = IdleProc] /\ IdleProc.at = "idle"
    BY <1>20 DEF Kill, IdleProc
  <2>2. Became(p, IdleProc)
    <3>1. lockedBy' = IF lockedBy = p THEN Nobody ELSE lockedBy
      BY <1>20, Zenon DEF Kill
    <3>2. CASE p \in Pushers /\ lockedBy = p
      BY <1>w, <2>1, <3>1, <3>2, IdleIsTyped, OneProcMoves
    <3>3. CASE p \in Pushers /\ lockedBy # p
      <4>1. At(p, "idle") \/ At(p, "wait")
        BY <3>3 DEF At, PushShape, PushTypeOK
      <4> QED BY <1>w, <2>1, <3>1, <3>3, <4>1, IdleIsTyped, OneProcMoves
    <3>4. CASE p \notin Pushers
      <4>1. lockedBy # p
        BY <3>4, PushersAreWorkers DEF Procs, PushShape, PushTypeOK
      <4> QED BY <1>w, <2>1, <3>1, <3>4, <4>1, IdleIsTyped, OneProcMoves
    <3> QED BY <3>2, <3>3, <3>4
  <2>3. unsure' \in [Vendors -> Nat] /\ lost' \subseteq Vendors
    <3>1. At(p, "link") => V(p) \in Vendors
      BY DEF At, PushShape, PushBooks
    <3>2. /\ unsure' = IF At(p, "link") THEN [unsure EXCEPT ![V(p)] = @ + 1] ELSE unsure
          /\ lost' = IF proc[p].beat THEN lost ELSE Vendors
      BY <1>20, Zenon DEF Kill
    <3> QED BY <3>1, <3>2 DEF PushShape, PushTypeOK
  <2>4. Calm
    BY <1>20, <1>m, <2>3 DEF Kill, PushShape, PushTypeOK, PushBooks
  <2>5. Rows
    BY <1>20, <1>c DEF Kill
  <2> HIDE DEF Calm, Rows
  <2> QED BY <1>a, <2>2, <2>4, <2>5
<1>21. CASE UNCHANGED pushVars
  <2>1. Calm
    BY <1>21, <1>d DEF pushVars
  <2>2. Rows
    BY <1>21, <1>c DEF pushVars
  <2>3. UNCHANGED <<proc, lockedBy>>
    BY <1>21 DEF pushVars
  <2> HIDE DEF Calm, Rows
  <2> QED BY <1>b, <2>1, <2>2, <2>3
<1> HIDE DEF Calm, Rows
<1> QED BY <1>1, <1>2, <1>3, <1>4, <1>5, <1>6, <1>7, <1>8, <1>9, <1>10, <1>11, <1>12, <1>13, <1>14,
           <1>15, <1>16, <1>17, <1>18, <1>19, <1>20, <1>21, Zenon DEF PushNext, Pushing, Failing, Recording

(* Every step of a worker, of intake and of an admin, and every fault, keeps *)
(* the types, and the lock with the one worker that is past its wait.        *)
THEOREM PushTyped == PushSpec => []PushTypeOK
<1>1. PushShape => PushTypeOK
  BY DEF PushShape
<1> QED BY <1>1, PushStarts, PushKeepsShape, PTL DEF PushSpec

-----------------------------------------------------------------------------
(* The lock lets one worker at a time past its wait.                         *)
LEMMA OneActs ==
  ASSUME PushShape, NEW w \in Pushers, NEW x \in Pushers,
         ~At(w, "idle"), ~At(w, "wait"), ~At(x, "idle"), ~At(x, "wait")
  PROVE  w = x
BY DEF PushShape, PushTypeOK, At

(* A record counts as landed once it is linked or about to be; every record  *)
(* a vendor holds beyond that one is accounted for in unsure, and nobody     *)
(* files at a vendor that is linked.                                         *)
Landed(v) == v \in linked \/ \E w \in Pushers : At(w, "link") /\ V(w) = v

FilingKnown ==
  /\ \A w \in Pushers : At(w, "call") \/ At(w, "link") => V(w) \notin linked
  /\ \A v \in Vendors : filed[v] <= unsure[v] + (IF Landed(v) THEN 1 ELSE 0)

(* Steps that neither file nor link, of processes outside the link's commit. *)
LEMMA QuietFiling ==
  ASSUME PushShape, FilingKnown, NEW p \in Procs, NEW s, proc' = [proc EXCEPT ![p] = s],
         ~At(p, "link"), s.at # "link", s.at = "call" => s.vendor \notin linked,
         UNCHANGED filed, UNCHANGED unsure, UNCHANGED linked
  PROVE  FilingKnown'
<1>1. \A q \in Procs : proc'[q] = IF q = p THEN s ELSE proc[q]
  BY DEF PushShape, PushTypeOK
<1>2. \A w \in Pushers : At(w, "link")' <=> At(w, "link")
  BY <1>1 DEF At, Procs
<1>3. \A w \in Pushers : At(w, "link") => V(w)' = V(w)
  BY <1>1 DEF At, V, Procs
<1>4. \A v \in Vendors : Landed(v)' <=> Landed(v)
  BY <1>2, <1>3 DEF Landed
<1>5. \A w \in Pushers : (At(w, "call") \/ At(w, "link") => V(w) \notin linked)'
  BY <1>1, <1>2, <1>3 DEF FilingKnown, At, V, Procs
<1> QED BY <1>4, <1>5 DEF FilingKnown

(* The worker w, alone at the link or the call, moves on.                    *)
LEMMA ActsAlone ==
  ASSUME PushShape, NEW w \in Pushers, ~At(w, "idle"), ~At(w, "wait"), NEW place, Move(w, place)
  PROVE  /\ \A x \in Pushers \ {w} : ~At(x, "call") /\ ~At(x, "link")
         /\ \A x \in Pushers \ {w} : ~At(x, "call")' /\ ~At(x, "link")'
         /\ place \notin {"call", "link"} => \A x \in Pushers : ~At(x, "call")' /\ ~At(x, "link")'
         /\ place = "link" => At(w, "link")'
         /\ V(w)' = V(w)
<1>1. proc' = [proc EXCEPT ![w] = [proc[w] EXCEPT !.at = place]] /\ w \in Procs
  BY Zenon DEF Move, Procs
<1>2. proc[w] \in ProcStates
  BY <1>1 DEF PushShape, PushTypeOK, ProcStates, Places
<1>3. proc'[w].at = place /\ proc'[w].vendor = proc[w].vendor
  BY <1>1, <1>2 DEF ProcStates, PushShape, PushTypeOK
<1>4. \A x \in Pushers \ {w} : proc'[x] = proc[x]
  BY <1>1 DEF PushShape, PushTypeOK, Procs
<1>5. \A x \in Pushers \ {w} : ~At(x, "call") /\ ~At(x, "link")
  BY OneActs DEF At
<1> QED BY <1>3, <1>4, <1>5 DEF At, V

LEMMA FilingStarts == PushInit => FilingKnown
<1> SUFFICES ASSUME PushInit PROVE FilingKnown
  OBVIOUS
<1>1. \A w \in Pushers : ~At(w, "call") /\ ~At(w, "link")
  BY DEF PushInit, At, IdleProc, Procs
<1>2. \A v \in Vendors : filed[v] = 0 /\ unsure[v] = 0 /\ ~Landed(v)
  BY <1>1 DEF PushInit, Landed
<1> QED BY <1>1, <1>2 DEF FilingKnown

LEMMA FilingKept == PushShape /\ FilingKnown /\ [PushNext]_pushVars => FilingKnown'
<1> SUFFICES ASSUME PushShape, FilingKnown, [PushNext]_pushVars PROVE FilingKnown'
  OBVIOUS
<1>w. Pushers \subseteq Procs /\ Intake \in Procs /\ Intake \notin Pushers
  BY PushersAreWorkers DEF Procs
<1>t. /\ \A p \in Procs : proc[p] \in ProcStates
      /\ filed \in [Vendors -> Nat] /\ unsure \in [Vendors -> Nat]
  BY DEF PushShape, PushTypeOK, ProcStates, Places
<1>i. ~At(Intake, "link")
  BY DEF PushShape, PushBooks, At
<1>n. ASSUME UNCHANGED <<filed, unsure, linked, proc>> PROVE FilingKnown'
  <2>1. UNCHANGED filed /\ UNCHANGED unsure /\ UNCHANGED linked /\ UNCHANGED proc
    BY <1>n
  <2> QED BY <2>1 DEF FilingKnown, Landed, At, V
<1>1. CASE IntakeQueued \/ TriageDone \/ \E r \in BacklogIds : ComesDueAgain(r) \/ RetryItem(r) \/ DiscardItem(r)
  BY <1>1, <1>n DEF IntakeQueued, TriageDone, ComesDueAgain, RetryItem, DiscardItem
<1>2. CASE IntakeUnqueued
  <2>1. PICK v \in Vendors : proc' = [proc EXCEPT ![Intake] =
           [proc[Intake] EXCEPT !.at = "record", !.vendor = v, !.todo = Vendors \ {v}]]
    BY <1>2, Zenon DEF IntakeUnqueued
  <2> DEFINE s == [proc[Intake] EXCEPT !.at = "record", !.vendor = v, !.todo = Vendors \ {v}]
  <2>2. s.at = "record"
    BY <1>w, <1>t DEF ProcStates
  <2>3. proc' = [proc EXCEPT ![Intake] = s]
    BY <2>1, Zenon
  <2> HIDE DEF s
  <2> QED BY <1>2, <1>w, <1>i, <2>2, <2>3, QuietFiling DEF IntakeUnqueued
<1>m. ASSUME NEW p \in Procs, NEW place, Move(p, place), ~At(p, "link"), place # "link", place # "call",
             UNCHANGED <<filed, unsure, linked>>
      PROVE  FilingKnown'
  <2> DEFINE s == [proc[p] EXCEPT !.at = place]
  <2>1. s.at = place
    BY <1>t DEF ProcStates
  <2>2. proc' = [proc EXCEPT ![p] = s]
    BY <1>m, Zenon DEF Move
  <2> HIDE DEF s
  <2> QED BY <1>m, <2>1, <2>2, QuietFiling
<1>3. ASSUME NEW w \in Pushers, TakeTask(w) PROVE FilingKnown'
  BY <1>3, <1>w, <1>m DEF TakeTask, At
<1>4. ASSUME NEW w \in Pushers, ReplayDue(w) PROVE FilingKnown'
  <2> DEFINE n == Cardinality(DueItems) - 1
             s == [proc[w] EXCEPT !.at = "wait", !.again = n, !.beat = TRUE]
  <2>1. proc' = [proc EXCEPT ![w] = s]
    BY <1>4, Zenon DEF ReplayDue
  <2> HIDE DEF n
  <2>2. s.at = "wait"
    BY <1>t, <1>w DEF ProcStates
  <2> HIDE DEF s
  <2> QED BY <1>4, <1>w, <2>1, <2>2, QuietFiling DEF ReplayDue, At
<1>5. ASSUME NEW w \in Pushers, TakeLock(w) PROVE FilingKnown'
  <2> DEFINE s == [proc[w] EXCEPT !.at = "loop", !.todo = Vendors]
  <2>1. proc' = [proc EXCEPT ![w] = s]
    BY <1>5, Zenon DEF TakeLock
  <2>2. s.at = "loop"
    BY <1>t, <1>w DEF ProcStates
  <2> HIDE DEF s
  <2> QED BY <1>5, <1>w, <2>1, <2>2, QuietFiling DEF TakeLock, At
<1>6. ASSUME NEW w \in Pushers, NextVendor(w) PROVE FilingKnown'
  <2>1. PICK v \in proc[w].todo : proc' = [proc EXCEPT ![w] = [proc[w] EXCEPT
                                  !.at = AfterLinkCheck(v), !.vendor = v, !.todo = proc[w].todo \ {v}]]
    BY <1>6, Zenon DEF NextVendor
  <2> DEFINE place == AfterLinkCheck(v)
             s == [proc[w] EXCEPT !.at = place, !.vendor = v, !.todo = proc[w].todo \ {v}]
  <2>2. proc' = [proc EXCEPT ![w] = s]
    BY <2>1, Zenon
  <2>3. place # "link" /\ (place = "call" => v \notin linked)
    BY DEF AfterLinkCheck
  <2> HIDE DEF place
  <2>4. s.at = place /\ s.vendor = v
    BY <1>t, <1>w DEF ProcStates
  <2> HIDE DEF s
  <2> QED BY <1>6, <1>w, <2>2, <2>3, <2>4, QuietFiling DEF NextVendor, At
<1>7. ASSUME NEW w \in Pushers, Unlock(w) PROVE FilingKnown'
  <2> DEFINE more == [IdleProc EXCEPT !.at = "wait", !.again = proc[w].again - 1, !.beat = TRUE]
             s == IF proc[w].again > 0 THEN more ELSE IdleProc
  <2>1. proc' = [proc EXCEPT ![w] = s]
    BY <1>7, Zenon DEF Unlock
  <2>2. s.at \in {"wait", "idle"}
    BY DEF IdleProc
  <2> HIDE DEF s
  <2> QED BY <1>7, <1>w, <2>1, <2>2, QuietFiling DEF Unlock, At
<1>8. ASSUME NEW w \in Pushers, VendorRefuses(w) \/ ClearItems(w) \/ FollowUp(w) PROVE FilingKnown'
  BY <1>8, <1>w, <1>m DEF VendorRefuses, ClearItems, FollowUp, At
<1>9. ASSUME NEW p \in Procs, RecordRead(p) PROVE FilingKnown'
  <2> DEFINE s == [proc[p] EXCEPT !.at = "write", !.found = OpenItems(V(p))]
  <2>1. proc' = [proc EXCEPT ![p] = s]
    BY <1>9, Zenon DEF RecordRead
  <2>2. s.at = "write"
    BY <1>t DEF ProcStates
  <2> HIDE DEF s
  <2> QED BY <1>9, <2>1, <2>2, QuietFiling DEF RecordRead, At
<1>10. ASSUME NEW p \in Procs, RecordWrite(p) PROVE FilingKnown'
  <2>1. ~At(p, "link") /\ UNCHANGED <<filed, unsure, linked>>
    BY <1>10 DEF RecordWrite, At
  <2>2. CASE p \in Pushers
    <3>1. Move(p, "loop")
      BY <1>10, <2>2, Zenon DEF RecordWrite, Recorded
    <3> QED BY <1>m, <2>1, <3>1
  <2>3. CASE p \notin Pushers
    <3>1. \E s : proc' = [proc EXCEPT ![p] = s] /\ s.at \in {"idle", "record"}
      <4>1. CASE proc[p].todo = {}
        <5>1. proc' = [proc EXCEPT ![p] = IdleProc]
          BY <1>10, <2>3, <4>1, Zenon DEF RecordWrite, Recorded
        <5>2. IdleProc.at \in {"idle", "record"}
          BY DEF IdleProc
        <5> QED BY <5>1, <5>2, Zenon
      <4>2. CASE proc[p].todo # {}
        <5>1. PICK v \in proc[p].todo : proc' = [proc EXCEPT ![p] =
                [proc[p] EXCEPT !.at = "record", !.vendor = v, !.todo = proc[p].todo \ {v}]]
          BY <1>10, <2>3, <4>2, Zenon DEF RecordWrite, Recorded
        <5> DEFINE s == [proc[p] EXCEPT !.at = "record", !.vendor = v, !.todo = proc[p].todo \ {v}]
        <5>2. s.at = "record"
          BY <1>t DEF ProcStates
        <5>3. proc' = [proc EXCEPT ![p] = s]
          BY <5>1, Zenon
        <5> HIDE DEF s
        <5> QED BY <5>2, <5>3
      <4> QED BY <4>1, <4>2
    <3> QED BY <2>1, <3>1, QuietFiling
  <2> QED BY <2>2, <2>3
<1>11. ASSUME NEW w \in Pushers, VendorFiles(w) PROVE FilingKnown'
  <2>1. At(w, "call") /\ Move(w, "link") /\ filed' = [filed EXCEPT ![V(w)] = @ + 1]
        /\ UNCHANGED unsure /\ UNCHANGED linked /\ V(w) \in Vendors /\ V(w) \notin linked
    BY <1>11, <1>w DEF VendorFiles, FilingKnown, PushShape, PushBooks, At
  <2>2. /\ \A x \in Pushers \ {w} : ~At(x, "call") /\ ~At(x, "link")
        /\ \A x \in Pushers \ {w} : ~At(x, "call")' /\ ~At(x, "link")'
        /\ At(w, "link")' /\ V(w)' = V(w) /\ ~At(w, "link")
    BY <2>1, ActsAlone DEF At
  <2>3. ~Landed(V(w)) /\ Landed(V(w))'
    BY <2>1, <2>2 DEF Landed
  <2>4. \A v \in Vendors \ {V(w)} : Landed(v)' <=> Landed(v)
    BY <2>1, <2>2 DEF Landed
  <2> QED BY <1>t, <2>1, <2>2, <2>3, <2>4 DEF FilingKnown
<1>12. ASSUME NEW w \in Pushers, AnswerIsLost(w) PROVE FilingKnown'
  <2>1. At(w, "call") /\ Move(w, "record") /\ filed' = [filed EXCEPT ![V(w)] = @ + 1]
        /\ unsure' = [unsure EXCEPT ![V(w)] = @ + 1] /\ UNCHANGED linked /\ V(w) \in Vendors
    BY <1>12, <1>w DEF AnswerIsLost, PushShape, PushBooks, At
  <2>2. ~At(w, "idle") /\ ~At(w, "wait") /\ ~At(w, "link")
    BY <2>1 DEF At
  <2>3. \A x \in Pushers : ~At(x, "call")' /\ ~At(x, "link")' /\ ~At(x, "link")
    BY <2>1, <2>2, ActsAlone
  <2>4. \A v \in Vendors : Landed(v)' <=> Landed(v)
    BY <2>1, <2>3 DEF Landed
  <2> QED BY <1>t, <2>1, <2>3, <2>4 DEF FilingKnown
<1>13. ASSUME NEW w \in Pushers, LinkCommitted(w) PROVE FilingKnown'
  <2>1. At(w, "link") /\ Move(w, "clear") /\ UNCHANGED filed /\ UNCHANGED unsure
        /\ linked' = linked \cup {V(w)}
    BY <1>13 DEF LinkCommitted
  <2>0. ~At(w, "idle") /\ ~At(w, "wait")
    BY <2>1 DEF At
  <2>2. \A x \in Pushers : ~At(x, "call")' /\ ~At(x, "link")'
    BY <2>0, <2>1, ActsAlone
  <2>3. \A x \in Pushers \ {w} : ~At(x, "link")
    BY <2>1, ActsAlone DEF At
  <2>4. \A v \in Vendors : Landed(v)' <=> Landed(v)
    BY <2>1, <2>2, <2>3 DEF Landed
  <2> QED BY <2>1, <2>2, <2>4 DEF FilingKnown
<1>14. ASSUME NEW w \in Pushers, At(w, "link"), unsure' = [unsure EXCEPT ![V(w)] = @ + 1],
              UNCHANGED filed, UNCHANGED linked, \A x \in Pushers : ~At(x, "call")' /\ ~At(x, "link")'
       PROVE  FilingKnown'
  <2>1. PICK u \in Vendors : u = V(w) /\ u \notin linked
    BY <1>14, <1>w DEF FilingKnown, PushShape, PushBooks, At
  <2>2. \A x \in Pushers \ {w} : ~At(x, "link")
    BY <1>14, OneActs DEF At
  <2>3. \A v \in Vendors : Landed(v)' <=> v \in linked
    BY <1>14 DEF Landed
  <2>4. \A v \in Vendors \ {u} : Landed(v)' <=> Landed(v)
    BY <2>1, <2>2, <2>3 DEF Landed
  <2>5. Landed(u) /\ ~Landed(u)'
    BY <1>14, <2>1, <2>3 DEF Landed
  <2> QED BY <1>14, <1>t, <2>1, <2>4, <2>5 DEF FilingKnown
<1>15. ASSUME NEW w \in Pushers, LinkFails(w) PROVE FilingKnown'
  <2>1. At(w, "link") /\ Move(w, "record")
    BY <1>15 DEF LinkFails
  <2>2. ~At(w, "idle") /\ ~At(w, "wait")
    BY <2>1 DEF At
  <2>3. \A x \in Pushers : ~At(x, "call")' /\ ~At(x, "link")'
    BY <2>1, <2>2, ActsAlone
  <2> QED BY <1>15, <1>14, <2>3 DEF LinkFails
<1>16. ASSUME NEW p \in Procs, Kill(p) PROVE FilingKnown'
  <2>1. proc' = [proc EXCEPT ![p] = IdleProc] /\ UNCHANGED filed /\ UNCHANGED linked
        /\ IdleProc.at = "idle" /\ unsure' = IF At(p, "link") THEN [unsure EXCEPT ![V(p)] = @ + 1] ELSE unsure
    BY <1>16 DEF Kill, IdleProc
  <2>2. CASE At(p, "link")
    <3>1. p \in Pushers
      BY <1>i, <2>2 DEF Procs
    <3>2. \A x \in Pushers \ {p} : ~At(x, "call") /\ ~At(x, "link")
      BY <2>2, <3>1, OneActs DEF At
    <3>3. \A x \in Pushers : ~At(x, "call")' /\ ~At(x, "link")'
      BY <2>1, <3>1, <3>2 DEF At, PushShape, PushTypeOK, Procs
    <3> QED BY <1>14, <2>1, <2>2, <3>1, <3>3
  <2>3. CASE ~At(p, "link")
    BY <2>1, <2>3, QuietFiling
  <2> QED BY <2>2, <2>3
<1>17. CASE UNCHANGED pushVars
  BY <1>17, <1>n DEF pushVars
<1> QED BY <1>1, <1>2, <1>3, <1>4, <1>5, <1>6, <1>7, <1>8, <1>9, <1>10, <1>11, <1>12, <1>13, <1>15,
           <1>16, <1>17, Zenon DEF PushNext, Pushing, Failing, Recording

(* Triage, replays, the beat and an admin, in any order and number, never    *)
(* file one report at a vendor a second time, except for an effect nobody    *)
(* could link.                                                               *)
THEOREM ReportFiledOnce == PushSpec => []FiledOnce
<1>1. PushShape /\ FilingKnown => FiledOnce
  <2> SUFFICES ASSUME PushShape, FilingKnown, NEW v \in Vendors PROVE filed[v] <= 1 + unsure[v]
    BY DEF FiledOnce
  <2>1. filed[v] \in Nat /\ unsure[v] \in Nat
    BY DEF PushShape, PushTypeOK
  <2> QED BY <2>1 DEF FilingKnown
<1> QED BY <1>1, PushStarts, PushKeepsShape, FilingStarts, FilingKept, PTL DEF PushSpec
-----------------------------------------------------------------------------
(* What a process that is not a replay still owes a vendor: a try, or a row  *)
(* of the backlog.                                                           *)
Owes(s, v) ==
  /\ ~s.beat
  /\ \/ s.at = "wait"
     \/ s.at # "idle" /\ v \in s.todo
     \/ s.at \in {"call", "link", "record", "write"} /\ s.vendor = v

(* A vendor is settled once it is linked, has an open item, or was dropped; a *)
(* row that is no longer open is one of a vendor that is linked or dropped.   *)
Settled(v) == v \in linked \/ OpenItems(v) # {} \/ v \in lost
Answered(r, v) ==
  /\ backlog[r].state # "free" /\ backlog[r].vendor = v
  /\ backlog[r].state = "open" \/ v \in linked \cup lost

(* What is true of a process at its place, whatever the others did since.    *)
ProcKnows(p) ==
  /\ p \in Pushers /\ (At(p, "clear") \/ At(p, "followup")) => V(p) \in linked
  /\ At(p, "idle") \/ p \notin Pushers => ~proc[p].beat
  /\ ~proc[p].beat => proc[p].again = 0
  /\ At(p, "write") => \A r \in proc[p].found : Answered(r, V(p))

(* Every vendor a saved report is owed to is settled, or a task or a process  *)
(* still owes it.                                                            *)
OwedKnown ==
  /\ report = "saved" =>
       \A v \in Vendors : Settled(v) \/ tasks > 0 \/ \E p \in Procs : Owes(proc[p], v)
  /\ \A p \in Procs : ProcKnows(p)

(* Rows are not reopened, given to another vendor, or closed without reason. *)
RowsGoOn ==
  /\ linked \subseteq linked' /\ lost \subseteq lost'
  /\ \A r \in BacklogIds : backlog[r].state # "free" =>
       /\ backlog'[r].state # "free" /\ backlog'[r].vendor = backlog[r].vendor
       /\ \/ backlog'[r].state = "open"
          \/ backlog[r].state # "open" \/ backlog[r].vendor \in linked' \cup lost'

(* What a process has to know once it has become s.                          *)
NextKnows(p, s) ==
  /\ p \in Pushers /\ s.at \in {"clear", "followup"} => s.vendor \in linked'
  /\ s.at = "idle" \/ p \notin Pushers => ~s.beat
  /\ ~s.beat => s.again = 0
  /\ s.at = "write" => \A r \in s.found :
       /\ backlog'[r].state # "free" /\ backlog'[r].vendor = s.vendor
       /\ backlog'[r].state = "open" \/ s.vendor \in linked' \cup lost'

LEMMA SettledStays ==
  ASSUME RowsGoOn
  PROVE  /\ \A v \in Vendors : Settled(v) => Settled(v)'
         /\ \A r \in BacklogIds, v \in Vendors : Answered(r, v) => Answered(r, v)'
<1>1. ASSUME NEW r \in BacklogIds, NEW v \in Vendors, Answered(r, v) PROVE Answered(r, v)'
  BY <1>1 DEF RowsGoOn, Answered
<1>2. ASSUME NEW v \in Vendors, Settled(v) PROVE Settled(v)'
  <2>1. CASE v \in linked \cup lost
    BY <2>1 DEF RowsGoOn, Settled
  <2>2. ASSUME NEW r \in OpenItems(v) PROVE Settled(v)'
    <3>1. r \in BacklogIds /\ backlog[r].state = "open" /\ backlog[r].vendor = v
      BY <2>2 DEF OpenItems
    <3>2. \/ r \in OpenItems(v)'
          \/ v \in linked' \cup lost'
      BY <3>1 DEF RowsGoOn, OpenItems
    <3> QED BY <3>2 DEF Settled
  <2> QED BY <1>2, <2>1, <2>2 DEF Settled
<1> QED BY <1>1, <1>2

(* One process becomes s, knows what its new place asks for, and settles     *)
(* with the vendors it no longer owes.                                       *)
LEMMA OneProcSettles ==
  ASSUME PushShape, OwedKnown, RowsGoOn, NEW p \in Procs, NEW s, proc' = [proc EXCEPT ![p] = s],
         report = "saved" \/ report' = "new",
         \A v \in Vendors : Owes(proc[p], v) => Owes(s, v) \/ Settled(v)',
         tasks' \in Nat, tasks' >= tasks \/ \A v \in Vendors : Owes(s, v),
         NextKnows(p, s)
  PROVE  OwedKnown'
<1>1. \A q \in Procs : proc'[q] = IF q = p THEN s ELSE proc[q]
  BY DEF PushShape, PushTypeOK
<1>2. ASSUME NEW q \in Procs, q # p PROVE ProcKnows(q)'
  <2>1. proc'[q] = proc[q] /\ ProcKnows(q)
    BY <1>1, <1>2 DEF OwedKnown
  <2>2. At(q, "write") => V(q) \in Vendors /\ proc[q].found \subseteq BacklogIds
    BY DEF PushShape, PushTypeOK, PushBooks, At
  <2>3. At(q, "write") => \A r \in proc[q].found : Answered(r, V(q))'
    <3> SUFFICES ASSUME At(q, "write"), NEW r \in proc[q].found PROVE Answered(r, V(q))'
      OBVIOUS
    <3>1. PICK v \in Vendors : v = V(q) /\ r \in BacklogIds /\ Answered(r, v)
      BY <2>1, <2>2 DEF ProcKnows
    <3>2. Answered(r, v)' /\ V(q)' = v
      BY <2>1, <3>1, SettledStays DEF V
    <3> QED BY <3>2
  <2>4. linked \subseteq linked'
    BY DEF RowsGoOn
  <2> QED BY <2>1, <2>3, <2>4 DEF ProcKnows, At, V
<1>3. ASSUME report' = "saved", NEW v \in Vendors
      PROVE  (Settled(v) \/ tasks > 0 \/ \E q \in Procs : Owes(proc[q], v))'
  <2>1. Settled(v) \/ tasks > 0 \/ \E q \in Procs : Owes(proc[q], v)
    BY <1>3 DEF OwedKnown
  <2>2. CASE Settled(v)
    BY <2>2, SettledStays
  <2>3. CASE tasks > 0
    <3>1. CASE tasks' >= tasks
      <4>1. tasks' > 0
        BY <2>3, <3>1 DEF PushShape, PushTypeOK
      <4> QED BY <4>1
    <3>2. CASE Owes(s, v)
      BY <1>1, <3>2
    <3> QED BY <3>1, <3>2
  <2>4. ASSUME NEW q \in Procs, Owes(proc[q], v)
        PROVE  (Settled(v) \/ tasks > 0 \/ \E x \in Procs : Owes(proc[x], v))'
    <3>1. CASE q = p
      BY <1>1, <2>4, <3>1
    <3>2. CASE q # p
      BY <1>1, <2>4, <3>2
    <3> QED BY <3>1, <3>2
  <2> QED BY <2>1, <2>2, <2>3, <2>4
<1>4. (report = "saved" =>
        \A v \in Vendors : Settled(v) \/ tasks > 0 \/ \E q \in Procs : Owes(proc[q], v))'
  BY <1>3
<1>5. ProcKnows(p)'
  <2>1. proc'[p] = s
    BY <1>1
  <2> QED BY <2>1 DEF ProcKnows, NextKnows, Answered, At, V
<1> QED BY <1>2, <1>4, <1>5 DEF OwedKnown

LEMMA OwedStarts == PushInit => OwedKnown
<1> SUFFICES ASSUME PushInit PROVE OwedKnown
  OBVIOUS
<1>1. \A p \in Procs : proc[p] = IdleProc
  BY DEF PushInit
<1>2. IdleProc.at = "idle" /\ ~IdleProc.beat /\ IdleProc.again = 0
  BY DEF IdleProc
<1>3. \A p \in Procs : ProcKnows(p)
  BY <1>1, <1>2 DEF ProcKnows, At
<1>4. report = "new"
  BY DEF PushInit
<1> QED BY <1>3, <1>4 DEF OwedKnown

LEMMA OwedKept == PushShape /\ OwedKnown /\ [PushNext]_pushVars => OwedKnown'
<1> SUFFICES ASSUME PushShape, OwedKnown, [PushNext]_pushVars PROVE OwedKnown'
  OBVIOUS
<1>w. Pushers \subseteq Procs /\ Intake \in Procs /\ Intake \notin Pushers
  BY PushersAreWorkers DEF Procs
<1>t. /\ \A p \in Procs : proc[p] \in ProcStates /\ ProcKnows(p)
      /\ backlog \in [BacklogIds -> BacklogRows] /\ \A r \in BacklogIds : backlog[r] \in BacklogRows
      /\ proc \in [Procs -> ProcStates] /\ tasks \in Nat
  BY DEF PushShape, PushTypeOK, ProcStates, Places, BacklogRows, OwedKnown
<1>n. tasks' \in Nat
  BY PushKeepsShape DEF PushShape, PushTypeOK
<1>r. ASSUME UNCHANGED backlog, linked \subseteq linked', lost \subseteq lost' PROVE RowsGoOn
  BY <1>r DEF RowsGoOn
<1>s. ASSUME UNCHANGED <<report, tasks, proc>>, RowsGoOn PROVE OwedKnown'
  <2>1. proc' = [proc EXCEPT ![Intake] = proc[Intake]] /\ UNCHANGED report /\ tasks' >= tasks
    BY <1>s, <1>t, <1>w
  <2>2. NextKnows(Intake, proc[Intake])
    <3>1. ProcKnows(Intake)
      BY <1>t, <1>w
    <3>2. At(Intake, "write") => V(Intake) \in Vendors /\ proc[Intake].found \subseteq BacklogIds
      BY <1>t, <1>w DEF PushShape, PushBooks, At, ProcStates
    <3>3. ASSUME At(Intake, "write"), NEW r \in proc[Intake].found
          PROVE  /\ backlog'[r].state # "free" /\ backlog'[r].vendor = V(Intake)
                 /\ backlog'[r].state = "open" \/ V(Intake) \in linked' \cup lost'
      <4>1. r \in BacklogIds /\ Answered(r, V(Intake))
        BY <3>1, <3>2, <3>3 DEF ProcKnows
      <4> QED BY <1>s, <4>1 DEF Answered, RowsGoOn
    <3> QED BY <1>w, <3>1, <3>3 DEF ProcKnows, NextKnows, At, V
  <2>3. report = "saved" \/ report' = "new"
    BY <2>1 DEF PushShape, PushTypeOK
  <2> QED BY <1>s, <1>w, <1>n, <2>1, <2>2, <2>3, OneProcSettles
<1>1. CASE IntakeQueued
  <2>1. tasks' > 0 /\ UNCHANGED proc /\ UNCHANGED backlog /\ UNCHANGED linked /\ UNCHANGED lost
    BY <1>1, <1>t DEF IntakeQueued
  <2>2. \A p \in Procs : ProcKnows(p)'
    BY <1>t, <2>1 DEF ProcKnows, At, V, Answered
  <2> QED BY <2>1, <2>2 DEF OwedKnown
<1>2. CASE IntakeUnqueued
  <2>0. PICK v \in Vendors : proc' = [proc EXCEPT ![Intake] =
           [proc[Intake] EXCEPT !.at = "record", !.vendor = v, !.todo = Vendors \ {v}]]
    BY <1>2, Zenon DEF IntakeUnqueued
  <2> DEFINE s == [proc[Intake] EXCEPT !.at = "record", !.vendor = v, !.todo = Vendors \ {v}]
  <2>1. proc' = [proc EXCEPT ![Intake] = s] /\ UNCHANGED backlog /\ UNCHANGED linked /\ UNCHANGED lost
    BY <1>2, <2>0, Zenon DEF IntakeUnqueued
  <2>2. ProcKnows(Intake) /\ proc[Intake] \in ProcStates
    BY <1>w, <1>t
  <2>3. s.at = "record" /\ s.vendor = v /\ s.todo = Vendors \ {v} /\ s.beat = proc[Intake].beat
        /\ s.again = proc[Intake].again
    BY <2>2 DEF ProcStates
  <2> HIDE DEF s
  <2>4. \A q \in Procs : proc'[q] = IF q = Intake THEN s ELSE proc[q]
    BY <1>t, <2>1
  <2>5. ~s.beat
    BY <1>w, <2>2, <2>3 DEF ProcKnows
  <2>6. \A u \in Vendors : Owes(s, u)
    BY <2>3, <2>5 DEF Owes
  <2>7. \A q \in Procs : ProcKnows(q)'
    <3>1. ProcKnows(Intake)'
      BY <1>w, <2>2, <2>3, <2>4 DEF ProcKnows, At
    <3>2. ASSUME NEW q \in Procs, q # Intake PROVE ProcKnows(q)'
      BY <1>t, <2>1, <2>4, <3>2 DEF ProcKnows, At, V, Answered
    <3> QED BY <3>1, <3>2
  <2>8. \A u \in Vendors : Owes(proc'[Intake], u)
    BY <1>w, <2>4, <2>6
  <2> QED BY <1>w, <2>7, <2>8 DEF OwedKnown
<1>3. CASE TriageDone
  <2>1. /\ UNCHANGED proc /\ UNCHANGED backlog /\ UNCHANGED linked /\ UNCHANGED lost /\ UNCHANGED report
        /\ tasks' >= tasks
    BY <1>3, <1>t DEF TriageDone
  <2>2. \A p \in Procs : ProcKnows(p)'
    BY <1>t, <2>1 DEF ProcKnows, At, V, Answered
  <2>3. \A v \in Vendors : Settled(v)' <=> Settled(v)
    BY <2>1 DEF Settled, OpenItems
  <2>4. tasks > 0 => tasks' > 0
    BY <1>t, <1>n, <2>1
  <2> QED BY <2>1, <2>2, <2>3, <2>4 DEF OwedKnown
<1>4. ASSUME NEW r \in BacklogIds, ComesDueAgain(r) \/ RetryItem(r) PROVE OwedKnown'
  <2>1. backlog' = [backlog EXCEPT ![r] = [backlog[r] EXCEPT !.due = "due"]]
    BY <1>4, Zenon DEF ComesDueAgain, RetryItem
  <2>2. LET row == [backlog[r] EXCEPT !.due = "due"]
        IN  row.state = backlog[r].state /\ row.vendor = backlog[r].vendor
    BY <1>t DEF BacklogRows
  <2>3. UNCHANGED <<report, tasks, proc, linked, lost>>
    BY <1>4 DEF ComesDueAgain, RetryItem
  <2>4. RowsGoOn
    BY <1>t, <2>1, <2>2, <2>3 DEF RowsGoOn
  <2> QED BY <1>s, <2>3, <2>4
<1>5. ASSUME NEW r \in BacklogIds, DiscardItem(r) PROVE OwedKnown'
  <2>1. backlog' = [backlog EXCEPT ![r] = Closed(backlog[r])] /\ lost' = lost \cup {backlog[r].vendor}
    BY <1>5, Zenon DEF DiscardItem
  <2>2. Closed(backlog[r]).state = "closed" /\ Closed(backlog[r]).vendor = backlog[r].vendor
    BY <1>t DEF BacklogRows, Closed
  <2>3. UNCHANGED <<report, tasks, proc, linked>>
    BY <1>5 DEF DiscardItem
  <2>4. RowsGoOn
    BY <1>t, <2>1, <2>2, <2>3 DEF RowsGoOn
  <2> QED BY <1>s, <2>3, <2>4
<1>v. report = "saved" \/ report' = "new" \/ ~UNCHANGED report
  BY DEF PushShape, PushTypeOK
<1>o. ASSUME NEW p \in Procs, NEW s \in ProcStates, proc' = [proc EXCEPT ![p] = s], RowsGoOn, UNCHANGED report,
             tasks' >= tasks \/ \A v \in Vendors : Owes(s, v), NextKnows(p, s),
             \A v \in Vendors : Owes(proc[p], v) => Owes(s, v) \/ Settled(v)'
      PROVE  OwedKnown'
  BY <1>o, <1>n, <1>v, OneProcSettles
<1>m. ASSUME NEW w \in Pushers, NEW place \in Places \ {"idle", "write"}, Move(w, place), RowsGoOn,
             UNCHANGED report, ~At(w, "wait"), tasks' >= tasks \/ (At(w, "idle") /\ place = "wait"),
             place \in {"clear", "followup"} => V(w) \in linked',
             \/ place \in {"call", "link", "record", "write"}
             \/ ~At(w, "call") /\ ~At(w, "link") /\ ~At(w, "record") /\ ~At(w, "write")
             \/ Settled(V(w))'
      PROVE  OwedKnown'
  <2> DEFINE s == [proc[w] EXCEPT !.at = place]
  <2>1. proc' = [proc EXCEPT ![w] = s]
    BY <1>m, Zenon DEF Move
  <2>2. ProcKnows(w) /\ proc[w] \in ProcStates /\ w \in Procs
    BY <1>w, <1>t
  <2>3. /\ s \in ProcStates /\ s.at = place /\ s.vendor = V(w) /\ s.todo = proc[w].todo
        /\ s.beat = proc[w].beat /\ s.again = proc[w].again
    BY <2>2 DEF ProcStates, V
  <2>4. V(w)' = V(w)
    BY <1>t, <2>1, <2>2, <2>3 DEF V
  <2> HIDE DEF s
  <2>5. tasks' >= tasks \/ \A v \in Vendors : Owes(s, v)
    BY <1>m, <2>2, <2>3 DEF ProcKnows, Owes
  <2>6. NextKnows(w, s)
    BY <1>m, <2>2, <2>3 DEF ProcKnows, NextKnows
  <2>7. ASSUME NEW v \in Vendors, Owes(proc[w], v) PROVE Owes(s, v) \/ Settled(v)'
    <3>1. proc[w].at # "wait" /\ proc[w].vendor = V(w)
      BY <1>m DEF At, V
    <3>2. CASE v \in proc[w].todo
      BY <1>m, <2>3, <2>7, <3>2 DEF Owes
    <3>3. CASE proc[w].at \in {"call", "link", "record", "write"} /\ V(w) = v
      <4>1. CASE place \in {"call", "link", "record", "write"}
        BY <2>3, <2>7, <3>3, <4>1 DEF Owes
      <4>2. CASE Settled(V(w))'
        <5>1. V(w)' = v
          BY <2>4, <3>3
        <5> QED BY <4>2, <5>1 DEF Settled, OpenItems
      <4> QED BY <1>m, <3>3, <4>1, <4>2 DEF At
    <3> QED BY <2>7, <3>1, <3>2, <3>3 DEF Owes
  <2> QED BY <1>m, <1>o, <2>1, <2>2, <2>3, <2>5, <2>6, <2>7
<1>6. ASSUME NEW w \in Pushers, TakeTask(w) PROVE OwedKnown'
  <2>1. RowsGoOn /\ UNCHANGED report /\ Move(w, "wait") /\ At(w, "idle") /\ ~At(w, "wait")
    BY <1>6, <1>r DEF TakeTask, At
  <2> QED BY <1>m, <2>1 DEF Places, At
<1>7. ASSUME NEW w \in Pushers, ReplayDue(w) PROVE OwedKnown'
  <2> DEFINE n == Cardinality(DueItems) - 1
             s == [proc[w] EXCEPT !.at = "wait", !.again = n, !.beat = TRUE]
  <2>1. proc' = [proc EXCEPT ![w] = s] /\ n \in 0..Cardinality(BacklogIds)
    BY <1>7, DueAreCounted, Zenon DEF ReplayDue
  <2> HIDE DEF n
  <2>2. s \in ProcStates /\ s.at = "wait" /\ s.beat
    BY <1>t, <1>w, <2>1 DEF ProcStates, Places
  <2>3. \A v \in Vendors : ~Owes(proc[w], v)
    BY <1>7 DEF ReplayDue, At, Owes
  <2> HIDE DEF s
  <2>4. RowsGoOn /\ UNCHANGED report /\ tasks' >= tasks
    BY <1>7, <1>r, <1>t DEF ReplayDue
  <2>5. NextKnows(w, s)
    BY <2>2 DEF NextKnows
  <2> QED BY <1>o, <1>w, <2>1, <2>2, <2>3, <2>4, <2>5
<1>8. ASSUME NEW w \in Pushers, TakeLock(w) PROVE OwedKnown'
  <2> DEFINE s == [proc[w] EXCEPT !.at = "loop", !.todo = Vendors]
  <2>1. proc' = [proc EXCEPT ![w] = s]
    BY <1>8, Zenon DEF TakeLock
  <2>2. proc[w] \in ProcStates /\ ProcKnows(w) /\ w \in Procs
    BY <1>t, <1>w
  <2>3. /\ s \in ProcStates /\ s.at = "loop" /\ s.todo = Vendors
        /\ s.beat = proc[w].beat /\ s.again = proc[w].again
    BY <2>2 DEF ProcStates, Places
  <2> HIDE DEF s
  <2>4. \A v \in Vendors : Owes(proc[w], v) => Owes(s, v)
    BY <2>3 DEF Owes
  <2>5. RowsGoOn /\ UNCHANGED report /\ tasks' >= tasks
    BY <1>8, <1>r, <1>t DEF TakeLock
  <2>6. NextKnows(w, s)
    BY <2>2, <2>3 DEF NextKnows, ProcKnows
  <2> QED BY <1>o, <2>1, <2>2, <2>3, <2>4, <2>5, <2>6
<1>9. ASSUME NEW w \in Pushers, NextVendor(w) PROVE OwedKnown'
  <2>1. PICK u \in proc[w].todo : proc' = [proc EXCEPT ![w] = [proc[w] EXCEPT
                                  !.at = AfterLinkCheck(u), !.vendor = u, !.todo = proc[w].todo \ {u}]]
    BY <1>9, Zenon DEF NextVendor
  <2> DEFINE place == AfterLinkCheck(u)
             s == [proc[w] EXCEPT !.at = place, !.vendor = u, !.todo = proc[w].todo \ {u}]
  <2>2. proc' = [proc EXCEPT ![w] = s]
    BY <2>1, Zenon
  <2>3. place \in Places \cap {"clear", "call"} /\ (place = "clear" => u \in linked)
    BY DEF AfterLinkCheck, Places
  <2> HIDE DEF place
  <2>4. proc[w] \in ProcStates /\ ProcKnows(w) /\ w \in Procs /\ u \in Vendors
    BY <1>t, <1>w DEF ProcStates
  <2>5. /\ s \in ProcStates /\ s.at = place /\ s.vendor = u /\ s.todo = proc[w].todo \ {u}
        /\ s.beat = proc[w].beat /\ s.again = proc[w].again
    BY <2>3, <2>4 DEF ProcStates
  <2> HIDE DEF s
  <2>6. RowsGoOn /\ UNCHANGED report /\ tasks' >= tasks /\ linked' = linked /\ proc[w].at = "loop"
    BY <1>9, <1>r, <1>t DEF NextVendor, At
  <2>7. NextKnows(w, s)
    BY <2>3, <2>4, <2>5, <2>6 DEF NextKnows, ProcKnows
  <2>8. ASSUME NEW v \in Vendors, Owes(proc[w], v) PROVE Owes(s, v) \/ Settled(v)'
    <3>1. v \in proc[w].todo
      BY <2>6, <2>8 DEF Owes
    <3>2. CASE v # u
      BY <2>3, <2>5, <2>8, <3>1, <3>2 DEF Owes
    <3>3. CASE v = u /\ place = "call"
      BY <2>5, <2>8, <3>3 DEF Owes
    <3>4. CASE v = u /\ place = "clear"
      BY <2>3, <2>6, <3>4 DEF Settled
    <3> QED BY <2>3, <3>2, <3>3, <3>4
  <2> QED BY <1>o, <2>2, <2>4, <2>5, <2>6, <2>7, <2>8
<1>10. ASSUME NEW w \in Pushers, Unlock(w) PROVE OwedKnown'
  <2> DEFINE more == [IdleProc EXCEPT !.at = "wait", !.again = proc[w].again - 1, !.beat = TRUE]
             s == IF proc[w].again > 0 THEN more ELSE IdleProc
  <2>1. proc' = [proc EXCEPT ![w] = s]
    BY <1>10, Zenon DEF Unlock
  <2>2. proc[w] \in ProcStates /\ w \in Procs /\ Cardinality(BacklogIds) \in Nat
    BY <1>t, <1>w, RowsAreFinite, FS_CardinalityType
  <2>3. proc[w].again > 0 => proc[w].again - 1 \in 0..Cardinality(BacklogIds)
    BY <2>2 DEF ProcStates
  <2>4. proc[w].again > 0 => more \in ProcStates /\ more.at = "wait" /\ more.beat
    BY <2>3, IdleIsTyped DEF ProcStates, Places
  <2>5. IdleProc.at = "idle" /\ ~IdleProc.beat /\ IdleProc.again = 0
    BY DEF IdleProc
  <2>6. s \in ProcStates /\ ((s.at = "wait" /\ s.beat) \/ (s.at = "idle" /\ ~s.beat /\ s.again = 0))
    BY <2>4, <2>5, IdleIsTyped
  <2> HIDE DEF s
  <2>7. RowsGoOn /\ UNCHANGED report /\ tasks' >= tasks
    BY <1>10, <1>r, <1>t DEF Unlock
  <2>8. NextKnows(w, s)
    BY <1>w, <2>6 DEF NextKnows
  <2>9. \A v \in Vendors : ~Owes(proc[w], v)
    BY <1>10 DEF Unlock, At, Owes
  <2> QED BY <1>o, <2>1, <2>2, <2>6, <2>7, <2>8, <2>9
<1>11. ASSUME NEW w \in Pushers, VendorFiles(w) \/ VendorRefuses(w) \/ AnswerIsLost(w) \/ LinkFails(w)
       PROVE  OwedKnown'
  <2>1. /\ RowsGoOn /\ UNCHANGED report /\ tasks' >= tasks /\ ~At(w, "wait")
        /\ Move(w, "link") \/ Move(w, "record")
    BY <1>11, <1>r, <1>t DEF VendorFiles, VendorRefuses, AnswerIsLost, LinkFails, At
  <2> QED BY <1>m, <2>1 DEF Places
<1>12. ASSUME NEW w \in Pushers, LinkCommitted(w) PROVE OwedKnown'
  <2>1. /\ RowsGoOn /\ UNCHANGED report /\ tasks' >= tasks /\ ~At(w, "wait") /\ Move(w, "clear")
        /\ linked' = linked \cup {V(w)}
    BY <1>12, <1>r, <1>t DEF LinkCommitted, At
  <2>2. V(w)' = V(w)
    <3>1. w \in Procs /\ ~At(w, "idle")
      BY <1>12, <1>w DEF LinkCommitted, At
    <3> QED BY <2>1, <3>1, ActsAlone
  <2>3. Settled(V(w))'
    BY <2>1, <2>2 DEF Settled
  <2> QED BY <1>m, <2>1, <2>3 DEF Places
<1>13. ASSUME NEW w \in Pushers, ClearItems(w) PROVE OwedKnown'
  <2>1. /\ UNCHANGED <<report, linked, lost>> /\ tasks' >= tasks /\ Move(w, "followup") /\ At(w, "clear")
    BY <1>13, <1>t DEF ClearItems
  <2>2. V(w) \in linked
    BY <1>t, <1>w, <2>1 DEF ProcKnows
  <2>3. RowsGoOn
    <3>1. CASE backlog' = [r \in BacklogIds |-> IF r \in OpenItems(V(w)) THEN Closed(backlog[r]) ELSE backlog[r]]
      <4>1. \A r \in BacklogIds : Closed(backlog[r]).state = "closed" /\ Closed(backlog[r]).vendor = backlog[r].vendor
        BY <1>t DEF BacklogRows, Closed
      <4> QED BY <2>1, <2>2, <3>1, <4>1 DEF RowsGoOn, OpenItems
    <3>2. CASE UNCHANGED backlog
      BY <1>r, <2>1, <3>2
    <3> QED BY <1>13, <3>1, <3>2, Zenon DEF ClearItems
  <2> QED BY <1>m, <2>1, <2>2, <2>3 DEF Places, At
<1>14. ASSUME NEW w \in Pushers, FollowUp(w) PROVE OwedKnown'
  <2>1. /\ RowsGoOn /\ UNCHANGED report /\ tasks' >= tasks /\ At(w, "followup")
        /\ Move(w, "loop") \/ Move(w, "record")
    BY <1>14, <1>r, <1>t DEF FollowUp
  <2> QED BY <1>m, <2>1 DEF Places, At
<1>15. ASSUME NEW p \in Procs, RecordRead(p) PROVE OwedKnown'
  <2> DEFINE some == OpenItems(V(p))
             s == [proc[p] EXCEPT !.at = "write", !.found = some]
  <2>1. proc' = [proc EXCEPT ![p] = s] /\ At(p, "record")
    BY <1>15, Zenon DEF RecordRead
  <2>2. proc[p] \in ProcStates /\ ProcKnows(p) /\ some \subseteq BacklogIds
    BY <1>t DEF OpenItems
  <2>3. \A r \in some : backlog[r].state = "open" /\ backlog[r].vendor = V(p)
    BY DEF OpenItems
  <2> HIDE DEF some
  <2>4. /\ s \in ProcStates /\ s.at = "write" /\ s.todo = proc[p].todo /\ s.found = some
        /\ s.vendor = V(p) /\ s.beat = proc[p].beat /\ s.again = proc[p].again
    BY <2>2 DEF ProcStates, Places, V
  <2> HIDE DEF s
  <2>5. RowsGoOn /\ UNCHANGED report /\ tasks' >= tasks /\ backlog' = backlog
    BY <1>15, <1>r, <1>t DEF RecordRead
  <2>6. NextKnows(p, s)
    BY <2>1, <2>2, <2>3, <2>4, <2>5 DEF NextKnows, ProcKnows
  <2>7. \A v \in Vendors : Owes(proc[p], v) => Owes(s, v)
    BY <2>1, <2>4 DEF Owes, At, V
  <2> QED BY <1>o, <2>1, <2>2, <2>4, <2>5, <2>6, <2>7
<1>16. ASSUME NEW p \in Procs, RecordWrite(p) PROVE OwedKnown'
  <2>1. PICK v \in Vendors : v = V(p)
    BY <1>16, <1>t DEF RecordWrite, PushShape, PushBooks, At
  <2>2. proc[p] \in ProcStates /\ ProcKnows(p) /\ At(p, "write") /\ UNCHANGED <<report, tasks, linked>>
    BY <1>16, <1>t DEF RecordWrite
  <2>3. \A r \in proc[p].found : r \in BacklogIds /\ Answered(r, v)
    BY <2>1, <2>2 DEF ProcKnows, ProcStates
  <2>4. RowsGoOn /\ Settled(v)'
    <3>1. CASE proc[p].found = {} /\ UNCHANGED lost /\ \E r \in BacklogIds :
                 backlog[r].state = "free" /\ backlog' = [backlog EXCEPT ![r] = FreshRow(V(p))]
      <4>1. PICK r \in BacklogIds : backlog[r].state = "free" /\ backlog' = [backlog EXCEPT ![r] = FreshRow(v)]
        BY <2>1, <3>1
      <4>2. FreshRow(v).state = "open" /\ FreshRow(v).vendor = v
        BY FreshRowIsOpen
      <4>3. r \in OpenItems(v)'
        BY <1>t, <4>1, <4>2 DEF OpenItems
      <4>4. RowsGoOn
        BY <1>t, <2>2, <3>1, <4>1 DEF RowsGoOn
      <4> QED BY <4>3, <4>4 DEF Settled
    <3>2. CASE proc[p].found # {} /\ UNCHANGED lost /\ \E r \in proc[p].found :
                 backlog' = [backlog EXCEPT ![r] = FailedAgain(@)]
      <4>1. PICK r \in BacklogIds : Answered(r, v) /\ backlog' = [backlog EXCEPT ![r] = FailedAgain(backlog[r])]
        BY <2>3, <3>2
      <4>2. FailedAgain(backlog[r]).state = backlog[r].state /\ FailedAgain(backlog[r]).vendor = backlog[r].vendor
        BY <1>t, RowsStayRows
      <4>3. RowsGoOn
        BY <1>t, <2>2, <3>2, <4>1, <4>2 DEF RowsGoOn
      <4>4. Answered(r, v)'
        BY <4>1, <4>3, SettledStays
      <4> QED BY <4>3, <4>4 DEF Settled, Answered, OpenItems
    <3>3. CASE Cardinality(proc[p].found) > 1 /\ UNCHANGED <<backlog, lost>>
      <4>1. proc[p].found # {}
        BY <3>3, FS_EmptySet
      <4>2. RowsGoOn
        BY <1>r, <2>2, <3>3
      <4>3. PICK r \in BacklogIds : Answered(r, v)'
        BY <2>3, <4>1, <4>2, SettledStays
      <4> QED BY <4>2, <4>3 DEF Settled, Answered, OpenItems
    <3>4. CASE lost' = lost \cup {V(p)} /\ UNCHANGED backlog
      BY <1>r, <2>1, <2>2, <3>4 DEF Settled
    <3> QED BY <1>16, <3>1, <3>2, <3>3, <3>4, Zenon DEF RecordWrite
  <2>5. \A u \in Vendors : Owes(proc[p], u) => u \in proc[p].todo \/ u = v
    BY <2>1, <2>2 DEF Owes, At, V
  <2>6. RowsGoOn /\ UNCHANGED report /\ tasks' >= tasks
    BY <1>t, <2>2, <2>4
  <2>7. CASE p \in Pushers
    <3> DEFINE s == [proc[p] EXCEPT !.at = "loop"]
    <3>1. proc' = [proc EXCEPT ![p] = s]
      BY <1>16, <2>7, Zenon DEF RecordWrite, Recorded, Move
    <3>2. /\ s \in ProcStates /\ s.at = "loop" /\ s.todo = proc[p].todo
          /\ s.beat = proc[p].beat /\ s.again = proc[p].again
      BY <2>2 DEF ProcStates, Places
    <3> HIDE DEF s
    <3>3. NextKnows(p, s)
      BY <2>2, <2>7, <3>2 DEF NextKnows, ProcKnows
    <3>4. \A u \in Vendors : Owes(proc[p], u) => Owes(s, u) \/ Settled(u)'
      BY <2>4, <2>5, <3>2 DEF Owes
    <3> QED BY <1>o, <2>6, <3>1, <3>2, <3>3, <3>4
  <2>8. CASE p \notin Pushers /\ proc[p].todo = {}
    <3>1. proc' = [proc EXCEPT ![p] = IdleProc]
      BY <1>16, <2>8, Zenon DEF RecordWrite, Recorded
    <3>2. NextKnows(p, IdleProc)
      BY <2>8 DEF NextKnows, IdleProc
    <3>3. \A u \in Vendors : Owes(proc[p], u) => Settled(u)'
      BY <2>4, <2>5, <2>8
    <3> QED BY <1>o, <2>6, <3>1, <3>2, <3>3, IdleIsTyped
  <2>9. CASE p \notin Pushers /\ proc[p].todo # {}
    <3> DEFINE u == CHOOSE x \in proc[p].todo : TRUE
               s == [proc[p] EXCEPT !.at = "record", !.vendor = u, !.todo = proc[p].todo \ {u}]
    <3>1. proc' = [proc EXCEPT ![p] = s]
      BY <1>16, <2>9, Zenon DEF RecordWrite, Recorded
    <3>2. u \in proc[p].todo
      BY <2>9
    <3> HIDE DEF u
    <3>3. /\ s \in ProcStates /\ s.at = "record" /\ s.vendor = u /\ s.todo = proc[p].todo \ {u}
          /\ s.beat = proc[p].beat /\ s.again = proc[p].again
      BY <2>2, <3>2 DEF ProcStates, Places
    <3> HIDE DEF s
    <3>4. NextKnows(p, s)
      BY <2>2, <2>9, <3>3 DEF NextKnows, ProcKnows
    <3>5. \A x \in Vendors : Owes(proc[p], x) => Owes(s, x) \/ Settled(x)'
      <4> SUFFICES ASSUME NEW x \in Vendors, Owes(proc[p], x), x # v PROVE Owes(s, x)
        BY <2>4
      <4>1. x \in proc[p].todo /\ ~s.beat
        BY <2>5, <3>3 DEF Owes
      <4> QED BY <3>3, <4>1 DEF Owes
    <3> QED BY <1>o, <2>6, <3>1, <3>3, <3>4, <3>5
  <2> QED BY <2>7, <2>8, <2>9
<1>17. ASSUME NEW p \in Procs, Kill(p) PROVE OwedKnown'
  <2>1. /\ proc' = [proc EXCEPT ![p] = IdleProc] /\ UNCHANGED <<report, tasks, linked, backlog>>
        /\ lost' = IF proc[p].beat THEN lost ELSE Vendors
    BY <1>17, Zenon DEF Kill
  <2>2. IdleProc \in ProcStates /\ NextKnows(p, IdleProc)
    BY IdleIsTyped DEF NextKnows, IdleProc
  <2>3. lost \subseteq lost'
    BY <2>1 DEF PushShape, PushTypeOK
  <2>4. RowsGoOn /\ tasks' >= tasks
    BY <1>r, <1>t, <2>1, <2>3
  <2>5. \A v \in Vendors : Owes(proc[p], v) => Settled(v)'
    BY <2>1 DEF Owes, Settled
  <2> QED BY <1>o, <2>1, <2>2, <2>4, <2>5
<1>18. CASE UNCHANGED pushVars
  BY <1>18, <1>r, <1>s DEF pushVars
<1> QED BY <1>1, <1>2, <1>3, <1>4, <1>5, <1>6, <1>7, <1>8, <1>9, <1>10, <1>11, <1>12, <1>13, <1>14,
           <1>15, <1>16, <1>17, <1>18, Zenon DEF PushNext, Pushing, Failing, Recording

(* Whatever the broker, the vendors and the workers do, a saved report that   *)
(* nothing is left to push is linked, or in the backlog, or was dropped by a  *)
(* kill, a failed backlog write or an admin.                                  *)
THEOREM PushLeavesATrace == PushSpec => []NothingOwedSilently
<1>1. PushShape /\ OwedKnown => NothingOwedSilently
  <2> SUFFICES ASSUME OwedKnown, report = "saved", tasks = 0, \A p \in Procs : At(p, "idle"), NEW v \in Vendors
               PROVE  Settled(v)
    BY DEF NothingOwedSilently, Settled
  <2>1. \A p \in Procs : ~Owes(proc[p], v)
    BY DEF Owes, At
  <2> QED BY <2>1 DEF OwedKnown
<1> QED BY <1>1, PushStarts, PushKeepsShape, OwedStarts, OwedKept, PTL DEF PushSpec

-------------------------------------------------------------------------------
(* The status of one report (StatusSync).                                    *)

(* The vendor's create call takes a status, and each of its words means what *)
(* the word we would send for that meaning means: so it is with the maps     *)
(* every connector comes with (DEFAULT_STATUS_MAP_OUT, DEFAULT_STATUS_MAP_IN).*)
FaithfulVendor ==
  CarriesStatus /\ \A x \in Words : StatusIn[WordOut[StatusIn[x]]] = StatusIn[x]

(* Which step a job of each kind can be at, and that the vendor has a record  *)
(* as soon as a job has filed or fetched one.                                 *)
ShapeOf(w) ==
    /\ job[w].op = "file" => job[w].at \in {"call", "link"}
    /\ job[w].op = "push" => job[w].at \in {"call", "baseline", "record", "write"} /\ word # NoWord
    /\ job[w].op = "note" => job[w].at \in {"record", "write"}
    /\ job[w].op = "pull" => job[w].at \in {"read", "write"} /\ word # NoWord /\ job[w].got \in Words
    /\ Is(w, "file", "link") => word # NoWord

SyncShape == \A w \in Workforce : ShapeOf(w)

(* A word of ours at the vendor is named by the baseline, unless a push is   *)
(* about to write it or the history says that it is loose.                   *)
OursIsNamed ==
  ours /\ ~loose /\ Linked /\ (\A x \in Workforce : ~Is(x, "push", "baseline")) => baseline = word

(* What a job has in hand, while no two overlapped: the baseline it loaded   *)
(* is the link's; a word it fetched or sent is the vendor's as long as that  *)
(* one is ours.                                                              *)
InHand(w) ==
  /\ job[w].op = "push" \/ Is(w, "pull", "write") => Linked /\ job[w].base = baseline
  /\ job[w].op = "file" => ~Linked
  /\ Is(w, "file", "link") => job[w].got \in {NoWord, word}
  /\ Is(w, "push", "baseline") /\ ours => word = WordOut[job[w].read]
  /\ job[w].op = "pull" /\ ours => job[w].got = word
  /\ job[w].op = "pull" /\ job[w].mine /\ Linked => job[w].got = baseline

OneAtATime ==
  ~crossed =>
    /\ \A v, w \in Workforce : ~Resting(v) /\ ~Resting(w) => v = w
    /\ \A w \in Workforce : InHand(w)
    /\ OursIsNamed

(* A push is still asked for, recorded or on its way.                        *)
Owed == asked > 0 \/ OpenRows # {} \/ \E w \in Workforce : job[w].op \in {"push", "note"}

(* A job that read the status has the current one, or another push is queued.*)
ReadIsCurrent(w) == job[w].read = status \/ asked > 0

UpToDate(w) ==
  /\ job[w].op \in {"file", "push"} \/ Is(w, "pull", "write") => ReadIsCurrent(w)
  /\ job[w].op \in {"push", "note"} /\ job[w].at = "write" => job[w].found = OpenRows
  /\ Is(w, "file", "link") => job[w].got \in {NoWord, WordOut[job[w].read]}

OwedOrAgreed ==
  FaithfulVendor /\ ~crossed /\ ~dropped =>
    /\ baseline \in Words => Owed \/ SameMeaning(baseline, status)
    /\ \A w \in Workforce : UpToDate(w)

SyncBond == SyncShape /\ OneAtATime /\ OwedOrAgreed

JobStates == [op : {"idle", "file", "push", "pull", "note"},
              at : {"read", "call", "link", "baseline", "record", "write"},
              read : Statuses, base : Words \cup {NoWord}, got : Words \cup {NoWord},
              mine : BOOLEAN, found : SUBSET SyncRows]

LEMMA IdleJobIs ==
  /\ IdleJob \in JobStates
  /\ IdleJob.op = "idle" /\ IdleJob.at = "read" /\ IdleJob.read = "open" /\ IdleJob.base = NoWord
  /\ IdleJob.got = NoWord /\ IdleJob.mine = FALSE /\ IdleJob.found = {}
BY DEF IdleJob, JobStates, Statuses

LEMMA SyncTypes ==
  ASSUME SyncTypeOK
  PROVE  /\ job \in [Workforce -> JobStates]
         /\ \A x \in Workforce : job[x] \in JobStates
BY DEF SyncTypeOK, JobStates

(* One job turns to another state; every other worker is where it was.       *)
LEMMA JobTurns ==
  ASSUME SyncTypeOK, NEW w \in Workforce, NEW s \in JobStates, job' = [job EXCEPT ![w] = s]
  PROVE  /\ job' \in [Workforce -> JobStates]
         /\ job'[w] = s
         /\ \A x \in Workforce \ {w} : job'[x] = job[x]
BY SyncTypes

(* A job that goes to its next step keeps what it has in hand.               *)
LEMMA JobProceeds ==
  ASSUME SyncTypeOK, NEW w \in Workforce,
         NEW at \in {"read", "call", "link", "baseline", "record", "write"}, Proceed(w, at)
  PROVE  /\ job' \in [Workforce -> JobStates]
         /\ \A x \in Workforce \ {w} : job'[x] = job[x]
         /\ job'[w].op = job[w].op /\ job'[w].at = at /\ job'[w].read = job[w].read
         /\ job'[w].base = job[w].base /\ job'[w].got = job[w].got /\ job'[w].mine = job[w].mine
         /\ job'[w].found = job[w].found
<1> DEFINE s == [job[w] EXCEPT !.at = at]
<1>1. /\ s \in JobStates
      /\ s.op = job[w].op /\ s.at = at /\ s.read = job[w].read /\ s.base = job[w].base
      /\ s.got = job[w].got /\ s.mine = job[w].mine /\ s.found = job[w].found
  BY SyncTypes DEF JobStates
<1>2. job' = [job EXCEPT ![w] = s]
  BY DEF Proceed
<1> HIDE DEF s
<1> QED BY <1>1, <1>2, JobTurns

(* A job that is done, or killed, leaves its worker idle.                    *)
LEMMA JobIsDone ==
  ASSUME SyncTypeOK, NEW w \in Workforce, Done(w)
  PROVE  /\ job' \in [Workforce -> JobStates]
         /\ \A x \in Workforce \ {w} : job'[x] = job[x]
         /\ job'[w].op = "idle"
<1>1. job' = [job EXCEPT ![w] = IdleJob]
  BY DEF Done
<1> QED BY <1>1, IdleJobIs, JobTurns

(* A job that begins while no two overlap finds every other worker idle.     *)
LEMMA BeginsAlone ==
  ASSUME NEW w \in Workforce, Resting(w), Beginning(w), ~crossed'
  PROVE  ~crossed /\ \A x \in Workforce : job[x].op = "idle"
BY DEF Beginning, Resting

LEMMA GoesOnAlone ==
  ASSUME OneAtATime, NEW w \in Workforce, ~Resting(w), ~crossed
  PROVE  \A x \in Workforce \ {w} : job[x].op = "idle"
BY DEF OneAtATime, Resting

(* With the other workers idle, all depends on the one.                      *)
LEMMA OneKeepsOneAtATime ==
  ASSUME NEW w \in Workforce,
         ~crossed' => /\ \A x \in Workforce \ {w} : job'[x].op = "idle"
                      /\ InHand(w)' /\ OursIsNamed'
  PROVE  OneAtATime'
<1>1. \A x \in Workforce : job'[x].op = "idle" => InHand(x)'
  BY DEF InHand, Is
<1> QED BY <1>1 DEF OneAtATime, Resting

LEMMA OneKeepsOwed ==
  ASSUME NEW w \in Workforce,
         FaithfulVendor /\ ~crossed' /\ ~dropped' =>
           /\ \A x \in Workforce \ {w} : job'[x].op = "idle"
           /\ UpToDate(w)'
           /\ baseline' \in Words => Owed' \/ SameMeaning(baseline', status')
  PROVE  OwedOrAgreed'
<1>1. \A x \in Workforce : job'[x].op = "idle" => UpToDate(x)'
  BY DEF UpToDate, Is
<1> QED BY <1>1 DEF OwedOrAgreed, SameMeaning

LEMMA OneKeepsShape ==
  ASSUME SyncShape, NEW w \in Workforce, \A x \in Workforce \ {w} : job'[x] = job[x],
         ShapeOf(w)', word # NoWord => word' # NoWord
  PROVE  SyncShape'
BY DEF SyncShape, ShapeOf, Is

(* The types but for the jobs'.                                              *)
LEMMA TypesFromJobs ==
  ASSUME job' \in [Workforce -> JobStates],
         status' \in Statuses /\ word' \in Words \cup {NoWord}
         /\ baseline' \in Words \cup {NoWord, NoLink} /\ asked' \in Nat
         /\ items' \in [SyncRows -> {"none", "later", "due"}]
         /\ moves' \in [staff : 0..MaxStaff, crew : 0..MaxCrew, faults : 0..MaxSyncFaults]
         /\ ours' \in BOOLEAN /\ crossed' \in BOOLEAN /\ dropped' \in BOOLEAN /\ loose' \in BOOLEAN,
         baseline' # NoLink => word' # NoWord
  PROVE  SyncTypeOK'
BY DEF SyncTypeOK, JobStates, Linked

LEMMA FaultCounts ==
  ASSUME SyncTypeOK, Fault
  PROVE  moves' \in [staff : 0..MaxStaff, crew : 0..MaxCrew, faults : 0..MaxSyncFaults]
BY SyncBoundsAreNat DEF SyncTypeOK, Fault

LEMMA BeginningIsTyped ==
  ASSUME SyncTypeOK, NEW w, Beginning(w)
  PROVE  crossed' \in BOOLEAN
BY Zenon DEF SyncTypeOK, Beginning

(* The report is about to be filed.                                          *)
LEMMA FileReadKeeps ==
  ASSUME SyncTypeOK, SyncBond, NEW w \in Workforce, FileRead(w)
  PROVE  SyncTypeOK' /\ SyncBond'
<1> DEFINE s == [IdleJob EXCEPT !.op = "file", !.at = "call", !.read = status]
<1>1. s \in JobStates /\ s.op = "file" /\ s.at = "call" /\ s.read = status
  BY IdleJobIs DEF SyncTypeOK, JobStates, IdleJob
<1>2. job' = [job EXCEPT ![w] = s] /\ Resting(w) /\ Beginning(w) /\ ~Linked
      /\ UNCHANGED <<status, word, baseline, asked, items, moves, ours, dropped, loose>>
  BY DEF FileRead
<1> HIDE DEF s
<1>3. /\ job' \in [Workforce -> JobStates] /\ job'[w] = s
      /\ \A x \in Workforce \ {w} : job'[x] = job[x]
  BY <1>1, <1>2, JobTurns
<1>4. ~crossed' => ~crossed /\ \A x \in Workforce : job[x].op = "idle"
  BY <1>2, BeginsAlone
<1>5. SyncTypeOK'
  BY <1>2, <1>3, BeginningIsTyped, TypesFromJobs DEF SyncTypeOK, Linked
<1>6. SyncShape'
  BY <1>1, <1>2, <1>3, OneKeepsShape DEF SyncBond, ShapeOf, Is
<1>7. OneAtATime'
  <2>1. ~crossed' => InHand(w)' /\ OursIsNamed'
    BY <1>1, <1>2, <1>3 DEF InHand, Is, Linked, OursIsNamed
  <2> QED BY <1>3, <1>4, <2>1, OneKeepsOneAtATime
<1>8. OwedOrAgreed'
  <2>1. UpToDate(w)'
    BY <1>1, <1>2, <1>3 DEF UpToDate, Is, ReadIsCurrent
  <2>2. baseline' \notin Words
    BY <1>2, NullsAreApart DEF Linked
  <2> QED BY <1>3, <1>4, <2>1, <2>2, OneKeepsOwed
<1> QED BY <1>5, <1>6, <1>7, <1>8 DEF SyncBond

(* The vendor files the record, and answers with its word or with none.      *)
LEMMA FileCallKeeps ==
  ASSUME SyncTypeOK, SyncBond, NEW w \in Workforce, FileCall(w)
  PROVE  SyncTypeOK' /\ SyncBond'
<1>1. PICK answer \in {word', NoWord} : job' = [job EXCEPT ![w] = [job[w] EXCEPT !.at = "link", !.got = answer]]
  BY DEF FileCall
<1>2. /\ Is(w, "file", "call") /\ word' = WordOut[IF CarriesStatus THEN job[w].read ELSE "open"] /\ ours' = TRUE
      /\ UNCHANGED <<status, baseline, asked, items, moves, dropped, loose, crossed>>
  BY DEF FileCall
<1>3. word' \in Words /\ word' # NoWord
  BY <1>2, SyncTypes, WordsAreMapped, NullsAreApart DEF JobStates, Statuses
<1> DEFINE s == [job[w] EXCEPT !.at = "link", !.got = answer]
<1>4. s \in JobStates /\ s.op = "file" /\ s.at = "link" /\ s.read = job[w].read /\ s.got = answer
  BY <1>2, <1>3, SyncTypes DEF JobStates, Is
<1> HIDE DEF s
<1>5. job' = [job EXCEPT ![w] = s]
  BY <1>1 DEF s
<1>6. /\ job' \in [Workforce -> JobStates] /\ job'[w] = s
      /\ \A x \in Workforce \ {w} : job'[x] = job[x]
  BY <1>4, <1>5, JobTurns
<1>7. ~Resting(w)
  BY <1>2 DEF Resting, Is
<1>8. ~crossed' => ~crossed /\ ~Linked /\ \A x \in Workforce \ {w} : job[x].op = "idle"
  BY <1>2, <1>7, GoesOnAlone DEF SyncBond, OneAtATime, InHand, Is
<1>9. SyncTypeOK'
  BY <1>2, <1>3, <1>6, TypesFromJobs DEF SyncTypeOK, Linked
<1>10. SyncShape'
  BY <1>3, <1>4, <1>6, OneKeepsShape DEF SyncBond, ShapeOf, Is
<1>11. OneAtATime'
  <2>1. ~crossed' => InHand(w)' /\ OursIsNamed'
    BY <1>1, <1>2, <1>4, <1>6, <1>8 DEF InHand, Is, Linked, OursIsNamed
  <2> QED BY <1>6, <1>8, <2>1, OneKeepsOneAtATime
<1>12. OwedOrAgreed'
  <2>1. FaithfulVendor /\ ~crossed' /\ ~dropped' => UpToDate(w)'
    BY <1>1, <1>2, <1>4, <1>6 DEF FaithfulVendor, SyncBond, OwedOrAgreed, UpToDate, Is, ReadIsCurrent
  <2>2. ~crossed' => baseline' \notin Words
    BY <1>2, <1>8, NullsAreApart DEF Linked
  <2> QED BY <1>6, <1>8, <2>1, <2>2, OneKeepsOwed
<1> QED BY <1>9, <1>10, <1>11, <1>12 DEF SyncBond

(* The link is written.                                                      *)
LEMMA FileLinkKeeps ==
  ASSUME SyncTypeOK, SyncBond, NEW w \in Workforce, FileLink(w)
  PROVE  SyncTypeOK' /\ SyncBond'
<1>1. /\ Is(w, "file", "link") /\ baseline' = job[w].got /\ Done(w) /\ loose' = (job[w].got = NoWord)
      /\ UNCHANGED <<status, word, asked, items, moves, ours, dropped, crossed>>
  BY DEF FileLink
<1>2. /\ job' \in [Workforce -> JobStates] /\ job'[w].op = "idle"
      /\ \A x \in Workforce \ {w} : job'[x] = job[x]
  BY <1>1, JobIsDone
<1>3. ~Resting(w) /\ word # NoWord /\ job[w].got \in Words \cup {NoWord}
  BY <1>1, SyncTypes DEF SyncBond, SyncShape, ShapeOf, Resting, Is, JobStates
<1>4. ~crossed' => ~crossed /\ job[w].got \in {NoWord, word} /\ \A x \in Workforce \ {w} : job[x].op = "idle"
  BY <1>1, <1>3, GoesOnAlone DEF SyncBond, OneAtATime, InHand, Is
<1>5. SyncTypeOK'
  BY <1>1, <1>2, <1>3, TypesFromJobs DEF SyncTypeOK, Linked
<1>6. SyncShape'
  BY <1>1, <1>2, OneKeepsShape DEF SyncBond, ShapeOf, Is
<1>7. OneAtATime'
  <2>1. ~crossed' => InHand(w)' /\ OursIsNamed'
    BY <1>1, <1>2, <1>4 DEF InHand, Is, OursIsNamed
  <2> QED BY <1>2, <1>4, <2>1, OneKeepsOneAtATime
<1>8. OwedOrAgreed'
  <2> SUFFICES ASSUME FaithfulVendor, ~crossed', ~dropped' PROVE OwedOrAgreed'
    BY DEF OwedOrAgreed
  <2>1. UpToDate(w) /\ Is(w, "file", "link")
    BY <1>1 DEF SyncBond, OwedOrAgreed
  <2>2. (job[w].read = status \/ asked > 0) /\ job[w].got \in {NoWord, WordOut[job[w].read]}
    BY <2>1 DEF UpToDate, Is, ReadIsCurrent
  <2>3. baseline' \in Words => Owed' \/ SameMeaning(baseline', status')
    BY <1>1, <2>2, NullsAreApart DEF Owed, SameMeaning
  <2>4. UpToDate(w)'
    BY <1>2 DEF UpToDate, Is
  <2> QED BY <1>2, <1>4, <2>3, <2>4, OneKeepsOwed
<1> QED BY <1>5, <1>6, <1>7, <1>8 DEF SyncBond

(* Staff change the status: a push is queued, or the desk is to note it.     *)
LEMMA StaffSetsKeeps ==
  ASSUME SyncTypeOK, SyncBond, NEW t \in Statuses, StaffSets(t)
  PROVE  SyncTypeOK' /\ SyncBond'
<1> StaffDesk \in Workforce
  BY DEF Workforce
<1>1. /\ t # status /\ moves.staff < MaxStaff /\ status' = t
      /\ UNCHANGED <<word, baseline, items, ours, dropped, loose>>
  BY DEF StaffSets
<1>2. CASE asked' = asked + 1 /\ moves' = [moves EXCEPT !.staff = @ + 1] /\ UNCHANGED <<job, crossed>>
  <2>1. moves' \in [staff : 0..MaxStaff, crew : 0..MaxCrew, faults : 0..MaxSyncFaults]
    BY <1>1, <1>2, SyncBoundsAreNat DEF SyncTypeOK
  <2>2. SyncTypeOK'
    BY <1>1, <1>2, <2>1 DEF SyncTypeOK, Linked
  <2>3. SyncShape' /\ OneAtATime'
    BY <1>1, <1>2 DEF SyncBond, SyncShape, ShapeOf, OneAtATime, InHand, OursIsNamed, Is, Resting, Linked
  <2>4. asked' > 0
    BY <1>2 DEF SyncTypeOK
  <2>5. OwedOrAgreed'
    BY <1>1, <1>2, <2>4 DEF SyncBond, OwedOrAgreed, Owed, UpToDate, ReadIsCurrent, Is, OpenRows
  <2> QED BY <2>2, <2>3, <2>5 DEF SyncBond
<1>3. CASE /\ Resting(StaffDesk) /\ moves.faults < MaxSyncFaults
           /\ moves' = [moves EXCEPT !.staff = @ + 1, !.faults = @ + 1]
           /\ job' = IF Linked THEN [job EXCEPT ![StaffDesk] =
                                       [IdleJob EXCEPT !.op = "note", !.at = "record"]] ELSE job
           /\ Beginning(StaffDesk) /\ UNCHANGED asked
  <2>1. moves' \in [staff : 0..MaxStaff, crew : 0..MaxCrew, faults : 0..MaxSyncFaults]
    <3>1. moves.staff < MaxStaff /\ moves.faults < MaxSyncFaults
          /\ moves' = [moves EXCEPT !.staff = @ + 1, !.faults = @ + 1]
      BY <1>1, <1>3
    <3>2. moves \in [staff : 0..MaxStaff, crew : 0..MaxCrew, faults : 0..MaxSyncFaults]
      BY DEF SyncTypeOK
    <3>3. moves' = [staff |-> moves.staff + 1, crew |-> moves.crew, faults |-> moves.faults + 1]
      BY <3>1, <3>2
    <3> QED BY <3>1, <3>2, <3>3, SyncBoundsAreNat
  <2>2. ~crossed' => ~crossed /\ \A x \in Workforce : job[x].op = "idle"
    BY <1>3, BeginsAlone
  <2>3. crossed' \in BOOLEAN
    BY <1>3, BeginningIsTyped
  <2>4. CASE ~Linked
    <3>1. job' = job
      BY <1>3, <2>4
    <3>2. SyncTypeOK'
      BY <1>1, <1>3, <2>1, <2>3, <3>1 DEF SyncTypeOK, Linked
    <3>3. SyncShape'
      BY <1>1, <3>1 DEF SyncBond, SyncShape, ShapeOf, Is
    <3>4. OneAtATime'
      BY <1>1, <2>2, <2>4, <3>1, OneKeepsOneAtATime DEF InHand, OursIsNamed, Is, Linked
    <3>5. baseline' \notin Words
      BY <1>1, <2>4, NullsAreApart DEF Linked
    <3>6. OwedOrAgreed'
      BY <2>2, <3>1, <3>5, OneKeepsOwed DEF UpToDate, Is
    <3> QED BY <3>2, <3>3, <3>4, <3>6 DEF SyncBond
  <2>5. CASE Linked
    <3> DEFINE s == [IdleJob EXCEPT !.op = "note", !.at = "record"]
    <3>1. s \in JobStates /\ s.op = "note" /\ s.at = "record"
      BY IdleJobIs DEF JobStates, IdleJob
    <3>2. job' = [job EXCEPT ![StaffDesk] = s]
      BY <1>3, <2>5
    <3> HIDE DEF s
    <3>3. /\ job' \in [Workforce -> JobStates] /\ job'[StaffDesk] = s
          /\ \A x \in Workforce \ {StaffDesk} : job'[x] = job[x]
      BY <3>1, <3>2, JobTurns
    <3>4. SyncTypeOK'
      BY <1>1, <1>3, <2>1, <2>3, <3>3, TypesFromJobs DEF SyncTypeOK, Linked
    <3>5. SyncShape'
      BY <1>1, <3>1, <3>3, OneKeepsShape DEF SyncBond, ShapeOf, Is
    <3>6. ~crossed' => OursIsNamed'
      <4>1. ~crossed' => OursIsNamed /\ \A x \in Workforce : ~Is(x, "push", "baseline")
        BY <2>2 DEF SyncBond, OneAtATime, Is
      <4> QED BY <1>1, <4>1 DEF OursIsNamed, Linked
    <3>7. OneAtATime'
      BY <3>1, <3>3, <2>2, <3>6, OneKeepsOneAtATime DEF InHand, Is
    <3>8. OwedOrAgreed'
      <4>1. Owed'
        BY <3>1, <3>3 DEF Owed
      <4> QED BY <2>2, <3>1, <3>3, <4>1, OneKeepsOwed DEF UpToDate, Is
    <3> QED BY <3>4, <3>5, <3>7, <3>8 DEF SyncBond
  <2> QED BY <2>4, <2>5
<1> QED BY <1>2, <1>3 DEF StaffSets

(* A crew changes the record: the vendor's word is no longer ours.           *)
LEMMA CrewSetsKeeps ==
  ASSUME SyncTypeOK, SyncBond, NEW x \in Words, CrewSets(x)
  PROVE  SyncTypeOK' /\ SyncBond'
<1>1. /\ Linked /\ word' = x /\ moves.crew < MaxCrew /\ moves' = [moves EXCEPT !.crew = @ + 1]
      /\ ours' = FALSE /\ loose' = FALSE /\ x # NoWord
      /\ UNCHANGED <<status, baseline, asked, items, job, crossed, dropped>>
  BY NullsAreApart DEF CrewSets
<1>2. moves' \in [staff : 0..MaxStaff, crew : 0..MaxCrew, faults : 0..MaxSyncFaults]
  BY <1>1, SyncBoundsAreNat DEF SyncTypeOK
<1>3. SyncTypeOK'
  BY <1>1, <1>2 DEF SyncTypeOK, Linked
<1>4. SyncShape'
  BY <1>1 DEF SyncBond, SyncShape, ShapeOf, Is
<1>5. OneAtATime'
  <2>1. ~crossed => \A w \in Workforce : InHand(w)'
    BY <1>1 DEF SyncBond, OneAtATime, InHand, Is, Linked
  <2> QED BY <1>1, <2>1 DEF SyncBond, OneAtATime, OursIsNamed, Resting
<1>6. OwedOrAgreed'
  BY <1>1 DEF SyncBond, OwedOrAgreed, Owed, UpToDate, ReadIsCurrent, Is, OpenRows
<1> QED BY <1>3, <1>4, <1>5, <1>6 DEF SyncBond

(* A push begins: it has the status and the baseline as they are.            *)
LEMMA StartPushKeeps ==
  ASSUME SyncTypeOK, SyncBond, NEW w \in Workforce, Resting(w), StartPush(w), asked' \in Nat,
         UNCHANGED <<status, word, baseline, items, moves, ours, dropped, loose>>
  PROVE  SyncTypeOK' /\ SyncBond'
<1>1. Beginning(w) /\ crossed' \in BOOLEAN
  BY BeginningIsTyped DEF StartPush
<1>2. ~crossed' => ~crossed /\ \A x \in Workforce : job[x].op = "idle"
  BY <1>1, BeginsAlone
<1>3. CASE ~Linked
  <2>1. job' = job
    BY <1>3 DEF StartPush
  <2>2. SyncTypeOK'
    BY <1>1, <2>1 DEF SyncTypeOK, Linked
  <2>3. SyncShape'
    BY <2>1 DEF SyncBond, SyncShape, ShapeOf, Is
  <2>4. OneAtATime'
    BY <1>2, <1>3, <2>1, OneKeepsOneAtATime DEF InHand, OursIsNamed, Is, Linked
  <2>5. baseline' \notin Words
    BY <1>3, NullsAreApart DEF Linked
  <2>6. OwedOrAgreed'
    BY <1>2, <2>1, <2>5, OneKeepsOwed DEF UpToDate, Is
  <2> QED BY <2>2, <2>3, <2>4, <2>6 DEF SyncBond
<1>4. CASE Linked
  <2> DEFINE s == [IdleJob EXCEPT !.op = "push", !.at = "call", !.read = status, !.base = baseline]
  <2>1. s \in JobStates /\ s.op = "push" /\ s.at = "call" /\ s.read = status /\ s.base = baseline
    BY <1>4, IdleJobIs DEF JobStates, IdleJob, SyncTypeOK, Linked
  <2>2. job' = [job EXCEPT ![w] = s]
    BY <1>4 DEF StartPush
  <2> HIDE DEF s
  <2>3. /\ job' \in [Workforce -> JobStates] /\ job'[w] = s
        /\ \A x \in Workforce \ {w} : job'[x] = job[x]
    BY <2>1, <2>2, JobTurns
  <2>4. SyncTypeOK'
    BY <1>1, <2>3, TypesFromJobs DEF SyncTypeOK, Linked
  <2>5. SyncShape'
    BY <1>4, <2>1, <2>3, OneKeepsShape DEF SyncBond, ShapeOf, Is, SyncTypeOK
  <2>6. ~crossed' => OursIsNamed'
    <3>1. ~crossed' => OursIsNamed /\ \A x \in Workforce : ~Is(x, "push", "baseline")
      BY <1>2 DEF SyncBond, OneAtATime, Is
    <3> QED BY <3>1 DEF OursIsNamed, Linked
  <2>7. OneAtATime'
    BY <1>2, <1>4, <2>1, <2>3, <2>6, OneKeepsOneAtATime DEF InHand, Is, Linked
  <2>8. OwedOrAgreed'
    <3>1. Owed'
      BY <2>1, <2>3 DEF Owed
    <3> QED BY <1>2, <2>1, <2>3, <3>1, OneKeepsOwed DEF UpToDate, Is, ReadIsCurrent
  <2> QED BY <2>4, <2>5, <2>7, <2>8 DEF SyncBond
<1> QED BY <1>3, <1>4

(* The push reaches the vendor.                                              *)
LEMMA PushCallKeeps ==
  ASSUME SyncTypeOK, SyncBond, NEW w \in Workforce, PushCall(w)
  PROVE  SyncTypeOK' /\ SyncBond'
<1>1. /\ Is(w, "push", "call") /\ word' = WordOut[job[w].read] /\ ours' = TRUE /\ Proceed(w, "baseline")
      /\ UNCHANGED <<status, baseline, asked, items, moves, dropped, loose, crossed>>
  BY DEF PushCall
<1>2. /\ job' \in [Workforce -> JobStates] /\ \A x \in Workforce \ {w} : job'[x] = job[x]
      /\ job'[w].op = "push" /\ job'[w].at = "baseline" /\ job'[w].read = job[w].read
      /\ job'[w].base = job[w].base
  BY <1>1, JobProceeds DEF Is
<1>3. word' \in Words /\ word' # NoWord
  BY <1>1, SyncTypes, WordsAreMapped, NullsAreApart DEF JobStates
<1>4. ~crossed' => ~crossed /\ InHand(w) /\ \A x \in Workforce \ {w} : job[x].op = "idle"
  BY <1>1, GoesOnAlone DEF SyncBond, OneAtATime, Is, Resting
<1>5. SyncTypeOK'
  BY <1>1, <1>2, <1>3, TypesFromJobs DEF SyncTypeOK, Linked
<1>6. SyncShape'
  BY <1>2, <1>3, OneKeepsShape DEF SyncBond, ShapeOf, Is
<1>7. OneAtATime'
  BY <1>1, <1>2, <1>4, OneKeepsOneAtATime DEF InHand, OursIsNamed, Is, Linked
<1>8. OwedOrAgreed'
  <2>1. Owed'
    BY <1>2 DEF Owed
  <2>2. FaithfulVendor /\ ~crossed' /\ ~dropped' => UpToDate(w)'
    BY <1>1, <1>2 DEF SyncBond, OwedOrAgreed, UpToDate, ReadIsCurrent, Is
  <2> QED BY <1>2, <1>4, <2>1, <2>2, OneKeepsOwed
<1> QED BY <1>5, <1>6, <1>7, <1>8 DEF SyncBond

(* The push fails, or its answer is lost: it is about to be recorded.        *)
LEMMA PushFailsKeeps ==
  ASSUME SyncTypeOK, SyncBond, NEW w \in Workforce, Is(w, "push", "call"), Fault, Proceed(w, "record"),
         \/ UNCHANGED <<word, ours, loose>>
         \/ word' = WordOut[job[w].read] /\ ours' = TRUE /\ loose' = TRUE,
         UNCHANGED <<status, baseline, asked, items, crossed, dropped>>
  PROVE  SyncTypeOK' /\ SyncBond'
<1>1. /\ job' \in [Workforce -> JobStates] /\ \A x \in Workforce \ {w} : job'[x] = job[x]
      /\ job'[w].op = "push" /\ job'[w].at = "record" /\ job'[w].read = job[w].read
      /\ job'[w].base = job[w].base
  BY JobProceeds DEF Is
<1>2. word # NoWord /\ word' \in Words /\ word' # NoWord
  BY SyncTypes, WordsAreMapped, NullsAreApart DEF JobStates, SyncBond, SyncShape, ShapeOf, Is, SyncTypeOK
<1>3. ~crossed' => ~crossed /\ InHand(w) /\ OursIsNamed /\ \A x \in Workforce \ {w} : job[x].op = "idle"
  BY GoesOnAlone DEF SyncBond, OneAtATime, Is, Resting
<1>4. SyncTypeOK'
  BY <1>1, <1>2, FaultCounts, TypesFromJobs DEF SyncTypeOK, Linked
<1>5. SyncShape'
  BY <1>1, <1>2, OneKeepsShape DEF SyncBond, ShapeOf, Is
<1>6. ~crossed' => OursIsNamed'
  <2>1. ~crossed' => \A x \in Workforce : ~Is(x, "push", "baseline")
    BY <1>3 DEF Is
  <2>2. CASE UNCHANGED <<word, ours, loose>>
    BY <1>3, <2>1, <2>2 DEF OursIsNamed, Linked
  <2>3. CASE loose' = TRUE
    BY <2>3 DEF OursIsNamed
  <2> QED BY <2>2, <2>3
<1>7. OneAtATime'
  BY <1>1, <1>3, <1>6, OneKeepsOneAtATime DEF InHand, Is, Linked
<1>8. OwedOrAgreed'
  <2>1. Owed'
    BY <1>1 DEF Owed
  <2>2. FaithfulVendor /\ ~crossed' /\ ~dropped' => UpToDate(w)'
    BY <1>1 DEF SyncBond, OwedOrAgreed, UpToDate, ReadIsCurrent, Is
  <2> QED BY <1>1, <1>3, <2>1, <2>2, OneKeepsOwed
<1> QED BY <1>4, <1>5, <1>7, <1>8 DEF SyncBond

(* What was sent becomes the baseline.                                       *)
LEMMA PushDoneKeeps ==
  ASSUME SyncTypeOK, SyncBond, NEW w \in Workforce, PushDone(w)
  PROVE  SyncTypeOK' /\ SyncBond'
<1>1. /\ Is(w, "push", "baseline") /\ baseline' = NewBaseline(job[w].base, WordOut[job[w].read])
      /\ items' = [r \in SyncRows |-> "none"] /\ Done(w) /\ loose' = FALSE
      /\ UNCHANGED <<status, word, asked, moves, ours, dropped, crossed>>
  BY DEF PushDone
<1>2. /\ job' \in [Workforce -> JobStates] /\ job'[w].op = "idle"
      /\ \A x \in Workforce \ {w} : job'[x] = job[x]
  BY <1>1, JobIsDone
<1>3. word # NoWord /\ WordOut[job[w].read] \in Words /\ baseline' \in Words \cup {NoWord, NoLink}
  BY <1>1, SyncTypes, WordsAreMapped DEF JobStates, SyncBond, SyncShape, ShapeOf, Is, SyncTypeOK, NewBaseline
<1>4. ~crossed' => ~crossed /\ InHand(w) /\ \A x \in Workforce \ {w} : job[x].op = "idle"
  BY <1>1, GoesOnAlone DEF SyncBond, OneAtATime, Is, Resting
<1>5. ~crossed' => baseline' = WordOut[job[w].read]
  BY <1>1, <1>4 DEF InHand, Is, NewBaseline
<1>6. SyncTypeOK'
  BY <1>1, <1>2, <1>3, TypesFromJobs DEF SyncTypeOK
<1>7. SyncShape'
  BY <1>1, <1>2, OneKeepsShape DEF SyncBond, ShapeOf, Is
<1>8. OneAtATime'
  <2>1. ~crossed' => OursIsNamed'
    BY <1>1, <1>4, <1>5 DEF InHand, OursIsNamed
  <2> QED BY <1>2, <1>4, <2>1, OneKeepsOneAtATime DEF InHand, Is
<1>9. OwedOrAgreed'
  <2>1. FaithfulVendor /\ ~crossed' /\ ~dropped' => job[w].read = status \/ asked > 0
    BY <1>1 DEF SyncBond, OwedOrAgreed, UpToDate, ReadIsCurrent, Is
  <2>2. FaithfulVendor /\ ~crossed' /\ ~dropped' => Owed' \/ SameMeaning(baseline', status')
    BY <1>1, <1>5, <2>1 DEF Owed, SameMeaning
  <2> QED BY <1>2, <1>4, <2>2, OneKeepsOwed DEF UpToDate, Is
<1> QED BY <1>6, <1>7, <1>8, <1>9 DEF SyncBond

(* The open rows are read before the failure is written.                     *)
LEMMA NoteReadKeeps ==
  ASSUME SyncTypeOK, SyncBond, NEW w \in Workforce, NoteRead(w)
  PROVE  SyncTypeOK' /\ SyncBond'
<1> DEFINE s == [job[w] EXCEPT !.at = "write", !.found = OpenRows]
<1>1. /\ job[w].op \in {"push", "note"} /\ job[w].at = "record" /\ job' = [job EXCEPT ![w] = s]
      /\ UNCHANGED <<status, word, baseline, asked, items, moves, ours, crossed, dropped, loose>>
  BY DEF NoteRead
<1>2. /\ s \in JobStates /\ s.op = job[w].op /\ s.at = "write" /\ s.read = job[w].read
      /\ s.base = job[w].base /\ s.found = OpenRows
  <2>1. OpenRows \subseteq SyncRows
    BY DEF OpenRows
  <2> QED BY <2>1, SyncTypes DEF JobStates
<1> HIDE DEF s
<1>3. /\ job' \in [Workforce -> JobStates] /\ job'[w] = s
      /\ \A x \in Workforce \ {w} : job'[x] = job[x]
  BY <1>1, <1>2, JobTurns
<1>4. ~crossed' => ~crossed /\ InHand(w) /\ OursIsNamed /\ \A x \in Workforce \ {w} : job[x].op = "idle"
  BY <1>1, GoesOnAlone DEF SyncBond, OneAtATime, Resting
<1>5. SyncTypeOK'
  BY <1>1, <1>3, TypesFromJobs DEF SyncTypeOK, Linked
<1>6. SyncShape'
  BY <1>1, <1>2, <1>3, OneKeepsShape DEF SyncBond, SyncShape, ShapeOf, Is
<1>7. OneAtATime'
  <2>1. \A x \in Workforce : Is(x, "push", "baseline") => Is(x, "push", "baseline")'
    BY <1>1, <1>3 DEF Is
  <2>2. ~crossed' => OursIsNamed'
    BY <1>1, <1>4, <2>1 DEF OursIsNamed, Linked
  <2>3. ~crossed' => InHand(w)'
    BY <1>1, <1>2, <1>3, <1>4 DEF InHand, Is, Linked
  <2> QED BY <1>3, <1>4, <2>2, <2>3, OneKeepsOneAtATime
<1>8. OwedOrAgreed'
  <2>1. Owed'
    BY <1>1, <1>2, <1>3 DEF Owed
  <2>2. OpenRows' = OpenRows
    BY <1>1 DEF OpenRows
  <2>3. FaithfulVendor /\ ~crossed' /\ ~dropped' => UpToDate(w)'
    BY <1>1, <1>2, <1>3, <2>2 DEF SyncBond, OwedOrAgreed, UpToDate, ReadIsCurrent, Is
  <2> QED BY <1>3, <1>4, <2>1, <2>3, OneKeepsOwed
<1> QED BY <1>5, <1>6, <1>7, <1>8 DEF SyncBond

(* A failed push leaves a row of the backlog that is open.                   *)
LEMMA NoteLeavesARow ==
  ASSUME SyncTypeOK, NEW w \in Workforce, NoteWrite(w), job[w].found = OpenRows
  PROVE  OpenRows' # {}
<1>1. CASE \E r \in SyncRows : Scheduled(w, r)
  <2>1. PICK r \in SyncRows : items' = [items EXCEPT ![r] = "later"]
    BY <1>1 DEF NoteWrite
  <2>2. r \in OpenRows'
    BY <2>1 DEF OpenRows, SyncTypeOK
  <2> QED BY <2>2
<1>2. CASE ~\E r \in SyncRows : Scheduled(w, r)
  <2>1. items' = items
    BY <1>2 DEF NoteWrite
  <2>2. OpenRows # {}
    <3> SUFFICES ASSUME OpenRows = {} PROVE FALSE
      OBVIOUS
    <3>1. PICK r \in SyncRows : TRUE
      BY RowsCanBeAdded
    <3>2. items[r] = "none"
      BY <3>1 DEF OpenRows
    <3> QED BY <1>2, <3>1, <3>2 DEF Scheduled
  <2> QED BY <2>1, <2>2 DEF OpenRows
<1> QED BY <1>1, <1>2

LEMMA NoteWriteKeeps ==
  ASSUME SyncTypeOK, SyncBond, NEW w \in Workforce, NoteWrite(w)
  PROVE  SyncTypeOK' /\ SyncBond'
<1>1. /\ job[w].op \in {"push", "note"} /\ job[w].at = "write" /\ Done(w)
      /\ UNCHANGED <<status, word, baseline, asked, moves, ours, crossed, dropped, loose>>
  BY DEF NoteWrite
<1>2. items' \in [SyncRows -> {"none", "later", "due"}]
  BY DEF NoteWrite, SyncTypeOK
<1>3. /\ job' \in [Workforce -> JobStates] /\ job'[w].op = "idle"
      /\ \A x \in Workforce \ {w} : job'[x] = job[x]
  BY <1>1, JobIsDone
<1>4. ~crossed' => ~crossed /\ OursIsNamed /\ \A x \in Workforce \ {w} : job[x].op = "idle"
  BY <1>1, GoesOnAlone DEF SyncBond, OneAtATime, Resting
<1>5. SyncTypeOK'
  BY <1>1, <1>2, <1>3, TypesFromJobs DEF SyncTypeOK, Linked
<1>6. SyncShape'
  BY <1>1, <1>3, OneKeepsShape DEF SyncBond, ShapeOf, Is
<1>7. OneAtATime'
  <2>1. ~crossed => \A x \in Workforce : ~Is(x, "push", "baseline")
    BY <1>1, <1>4 DEF Is
  <2>2. ~crossed' => OursIsNamed'
    BY <1>1, <1>4, <2>1 DEF OursIsNamed, Linked
  <2> QED BY <1>3, <1>4, <2>2, OneKeepsOneAtATime DEF InHand, Is
<1>8. OwedOrAgreed'
  <2>1. FaithfulVendor /\ ~crossed' /\ ~dropped' => job[w].found = OpenRows
    BY <1>1 DEF SyncBond, OwedOrAgreed, UpToDate
  <2>2. FaithfulVendor /\ ~crossed' /\ ~dropped' => Owed'
    BY <2>1, NoteLeavesARow DEF Owed
  <2> QED BY <1>3, <1>4, <2>2, OneKeepsOwed DEF UpToDate, Is
<1> QED BY <1>5, <1>6, <1>7, <1>8 DEF SyncBond

(* A row of the backlog becomes due.                                         *)
LEMMA RowDueKeeps ==
  ASSUME SyncTypeOK, SyncBond, NEW r \in SyncRows, RowDue(r)
  PROVE  SyncTypeOK' /\ SyncBond'
<1>1. /\ items[r] = "later" /\ items' = [items EXCEPT ![r] = "due"]
      /\ UNCHANGED <<status, word, baseline, asked, job, moves, ours, crossed, dropped, loose>>
  BY DEF RowDue
<1>2. OpenRows' = OpenRows
  BY <1>1 DEF OpenRows, SyncTypeOK
<1>3. SyncTypeOK'
  BY <1>1 DEF SyncTypeOK, Linked
<1>4. SyncShape' /\ OneAtATime'
  BY <1>1 DEF SyncBond, SyncShape, ShapeOf, OneAtATime, InHand, OursIsNamed, Is, Resting, Linked
<1>5. OwedOrAgreed'
  BY <1>1, <1>2 DEF SyncBond, OwedOrAgreed, Owed, UpToDate, ReadIsCurrent, Is
<1> QED BY <1>3, <1>4, <1>5 DEF SyncBond

(* A poll has the vendor's word; mine if it is ours and the baseline says so.*)
LEMMA PullFetchKeeps ==
  ASSUME SyncTypeOK, SyncBond, NEW w \in Workforce, PullFetch(w)
  PROVE  SyncTypeOK' /\ SyncBond'
<1> DEFINE s == [IdleJob EXCEPT !.op = "pull", !.at = "read", !.got = word, !.mine = ours /\ ~loose]
<1>1. s \in JobStates /\ s.op = "pull" /\ s.at = "read" /\ s.got = word /\ s.mine = (ours /\ ~loose)
  <2>1. (ours /\ ~loose) \in BOOLEAN
    BY Zenon
  <2> QED BY <2>1, IdleJobIs DEF SyncTypeOK, JobStates, IdleJob
<1>2. /\ Resting(w) /\ word # NoWord /\ job' = [job EXCEPT ![w] = s] /\ Beginning(w)
      /\ UNCHANGED <<status, word, baseline, asked, items, moves, ours, dropped, loose>>
  BY DEF PullFetch
<1> HIDE DEF s
<1>3. /\ job' \in [Workforce -> JobStates] /\ job'[w] = s
      /\ \A x \in Workforce \ {w} : job'[x] = job[x]
  BY <1>1, <1>2, JobTurns
<1>4. ~crossed' => ~crossed /\ \A x \in Workforce : job[x].op = "idle"
  BY <1>2, BeginsAlone
<1>5. SyncTypeOK'
  BY <1>2, <1>3, BeginningIsTyped, TypesFromJobs DEF SyncTypeOK, Linked
<1>6. SyncShape'
  BY <1>1, <1>2, <1>3, OneKeepsShape DEF SyncBond, ShapeOf, Is, SyncTypeOK
<1>7. OneAtATime'
  <2>1. ~crossed' => OursIsNamed /\ \A x \in Workforce : ~Is(x, "push", "baseline")
    BY <1>4 DEF SyncBond, OneAtATime, Is
  <2>2. ~crossed' => OursIsNamed'
    BY <1>2, <2>1 DEF OursIsNamed, Linked
  <2>3. ~crossed' => (s.mine /\ Linked => word = baseline)
    BY <1>1, <2>1 DEF OursIsNamed
  <2>4. ~crossed' => InHand(w)'
    BY <1>1, <1>2, <1>3, <2>3 DEF InHand, Is, Linked
  <2> QED BY <1>3, <1>4, <2>2, <2>4, OneKeepsOneAtATime
<1>8. OwedOrAgreed'
  <2>1. UpToDate(w)'
    BY <1>1, <1>3 DEF UpToDate, Is
  <2>2. FaithfulVendor /\ ~crossed' /\ ~dropped' => (baseline \in Words => Owed \/ SameMeaning(baseline, status))
    BY <1>2, <1>4 DEF SyncBond, OwedOrAgreed
  <2>3. ~crossed' => (Owed => Owed')
    BY <1>2, <1>4 DEF Owed, OpenRows
  <2>4. SameMeaning(baseline, status) => SameMeaning(baseline', status')
    BY <1>2 DEF SameMeaning
  <2> QED BY <1>2, <1>3, <1>4, <2>1, <2>2, <2>3, <2>4, OneKeepsOwed
<1> QED BY <1>5, <1>6, <1>7, <1>8 DEF SyncBond

(* The poll reads the link and the report.                                   *)
LEMMA PullReadKeeps ==
  ASSUME SyncTypeOK, SyncBond, NEW w \in Workforce, PullRead(w)
  PROVE  SyncTypeOK' /\ SyncBond'
<1>1. /\ Is(w, "pull", "read") /\ ~Resting(w)
      /\ UNCHANGED <<status, word, baseline, asked, items, moves, ours, dropped, loose, crossed>>
  BY DEF PullRead, Is, Resting
<1>2. ~crossed' => ~crossed /\ InHand(w) /\ OursIsNamed /\ \A x \in Workforce \ {w} : job[x].op = "idle"
  BY <1>1, GoesOnAlone DEF SyncBond, OneAtATime
<1>3. ~crossed => \A x \in Workforce : ~Is(x, "push", "baseline")
  BY <1>1, <1>2 DEF Is
<1>4. ~crossed' => OursIsNamed'
  BY <1>1, <1>2, <1>3 DEF OursIsNamed, Linked
<1>5. FaithfulVendor /\ ~crossed' /\ ~dropped' =>
        (baseline' \in Words => asked' > 0 \/ OpenRows' # {} \/ SameMeaning(baseline', status'))
  <2>1. ~crossed => (Owed => asked > 0 \/ OpenRows # {})
    BY <1>1, <1>2 DEF Owed, Is
  <2> QED BY <1>1, <2>1 DEF SyncBond, OwedOrAgreed, OpenRows, SameMeaning
<1>6. CASE ~Linked
  <2>1. Done(w)
    BY <1>6 DEF PullRead
  <2>2. /\ job' \in [Workforce -> JobStates] /\ job'[w].op = "idle"
        /\ \A x \in Workforce \ {w} : job'[x] = job[x]
    BY <2>1, JobIsDone
  <2>3. SyncTypeOK'
    BY <1>1, <2>2, TypesFromJobs DEF SyncTypeOK, Linked
  <2>4. SyncShape'
    BY <1>1, <2>2, OneKeepsShape DEF SyncBond, ShapeOf, Is
  <2>5. OneAtATime'
    BY <1>2, <1>4, <2>2, OneKeepsOneAtATime DEF InHand, Is
  <2>6. OwedOrAgreed'
    BY <1>2, <1>5, <2>2, OneKeepsOwed DEF UpToDate, Is, Owed
  <2> QED BY <2>3, <2>4, <2>5, <2>6 DEF SyncBond
<1>7. CASE Linked
  <2> DEFINE s == [job[w] EXCEPT !.at = "write", !.read = status, !.base = baseline]
  <2>1. job' = [job EXCEPT ![w] = s]
    BY <1>7 DEF PullRead
  <2>2. /\ s \in JobStates /\ s.op = "pull" /\ s.at = "write" /\ s.read = status /\ s.base = baseline
        /\ s.got = job[w].got /\ s.mine = job[w].mine
    BY <1>1, <1>7, SyncTypes DEF JobStates, Is, SyncTypeOK, Linked
  <2> HIDE DEF s
  <2>3. /\ job' \in [Workforce -> JobStates] /\ job'[w] = s
        /\ \A x \in Workforce \ {w} : job'[x] = job[x]
    BY <2>1, <2>2, JobTurns
  <2>4. SyncTypeOK'
    BY <1>1, <2>3, TypesFromJobs DEF SyncTypeOK, Linked
  <2>5. SyncShape'
    BY <1>1, <2>2, <2>3, OneKeepsShape DEF SyncBond, SyncShape, ShapeOf, Is
  <2>6. ~crossed' => InHand(w)'
    BY <1>1, <1>2, <1>7, <2>2, <2>3 DEF InHand, Is, Linked
  <2>7. OneAtATime'
    BY <1>2, <1>4, <2>3, <2>6, OneKeepsOneAtATime
  <2>8. UpToDate(w)'
    BY <1>1, <2>2, <2>3 DEF UpToDate, Is, ReadIsCurrent
  <2>9. OwedOrAgreed'
    BY <1>2, <1>5, <2>3, <2>8, OneKeepsOwed DEF Owed
  <2> QED BY <2>4, <2>5, <2>7, <2>9 DEF SyncBond
<1> QED BY <1>6, <1>7

(* decide_inbound_status answers with the status the word stands for or with *)
(* the local one; the latter where the vendor has not moved.                 *)
LEMMA InboundAnswers ==
  ASSUME NEW previous \in Words \cup {NoWord}, NEW current \in Words, NEW local \in Statuses
  PROVE  /\ Inbound(previous, current, local) \in {StatusIn[current], local}
         /\ previous = current => Inbound(previous, current, local) = local
         /\ previous # NoWord /\ Inbound(previous, current, local) # StatusIn[current] =>
              StatusIn[previous] = StatusIn[current]
BY NullsAreApart DEF Inbound

(* The poll applies what it decides and takes the word as the baseline.      *)
LEMMA PullWriteKeeps ==
  ASSUME SyncTypeOK, SyncBond, NEW w \in Workforce, PullWrite(w)
  PROVE  SyncTypeOK' /\ SyncBond'
<1> DEFINE next == Inbound(job[w].base, job[w].got, job[w].read)
<1>1. /\ Is(w, "pull", "write") /\ ~Resting(w) /\ Done(w)
      /\ status' = IF next = job[w].read THEN status ELSE next
      /\ dropped' = (dropped \/ (job[w].base = NoWord /\ next # StatusIn[job[w].got]))
      /\ baseline' = NewBaseline(job[w].base, job[w].got)
      /\ loose' = (loose /\ job[w].got # word)
      /\ UNCHANGED <<word, asked, items, moves, ours, crossed>>
  BY DEF PullWrite, Is, Resting
<1>2. /\ job[w].base \in Words \cup {NoWord} /\ job[w].got \in Words /\ job[w].read \in Statuses
      /\ word # NoWord
  BY <1>1, SyncTypes DEF JobStates, SyncBond, SyncShape, ShapeOf, Is
<1>3. /\ next \in {StatusIn[job[w].got], job[w].read}
      /\ job[w].base = job[w].got => next = job[w].read
      /\ job[w].base # NoWord /\ next # StatusIn[job[w].got] => StatusIn[job[w].base] = StatusIn[job[w].got]
  BY <1>2, InboundAnswers
<1> HIDE DEF next
<1>4. StatusIn[job[w].got] \in Statuses
  BY <1>2, WordsAreMapped
<1>5. /\ job' \in [Workforce -> JobStates] /\ job'[w].op = "idle"
      /\ \A x \in Workforce \ {w} : job'[x] = job[x]
  BY <1>1, JobIsDone
<1>6. ~crossed' => /\ ~crossed /\ InHand(w) /\ OursIsNamed /\ \A x \in Workforce \ {w} : job[x].op = "idle"
                   /\ job[w].base = baseline /\ Linked
  BY <1>1, GoesOnAlone DEF SyncBond, OneAtATime, InHand
<1>7. ~crossed' => baseline' = job[w].got
  BY <1>1, <1>6 DEF NewBaseline
<1>8. SyncTypeOK'
  <2>1. status' \in Statuses
    BY <1>1, <1>2, <1>3, <1>4 DEF SyncTypeOK
  <2>2. baseline' \in Words \cup {NoWord, NoLink}
    BY <1>1, <1>2 DEF NewBaseline, SyncTypeOK
  <2>3. dropped' \in BOOLEAN /\ loose' \in BOOLEAN
    BY <1>1, Zenon DEF SyncTypeOK
  <2> QED BY <1>1, <1>2, <1>5, <2>1, <2>2, <2>3, TypesFromJobs DEF SyncTypeOK
<1>9. SyncShape'
  BY <1>1, <1>5, OneKeepsShape DEF SyncBond, ShapeOf, Is
<1>10. OneAtATime'
  <2>1. ~crossed' => (ours => job[w].got = word)
    BY <1>1, <1>6 DEF InHand, Is
  <2>2. ~crossed' => OursIsNamed'
    BY <1>1, <1>7, <2>1 DEF OursIsNamed
  <2> QED BY <1>5, <1>6, <2>2, OneKeepsOneAtATime DEF InHand, Is
<1>11. OwedOrAgreed'
  <2> SUFFICES ASSUME FaithfulVendor, ~crossed', ~dropped' PROVE OwedOrAgreed'
    BY DEF OwedOrAgreed
  <2>1. ~crossed /\ ~dropped /\ baseline' = job[w].got /\ job[w].base = baseline
        /\ (job[w].base = NoWord => next = StatusIn[job[w].got])
    BY <1>1, <1>6, <1>7
  <2>2. (asked > 0 \/ job[w].read = status) /\ (baseline \in Words => Owed \/ SameMeaning(baseline, status))
    BY <1>1, <2>1 DEF SyncBond, OwedOrAgreed, UpToDate, ReadIsCurrent
  <2>3. Owed => Owed'
    BY <1>1, <1>5, <1>6 DEF Owed, OpenRows, Is
  <2>4. asked > 0 => Owed'
    BY <1>1 DEF Owed
  <2>5. StatusIn[WordOut[StatusIn[job[w].got]]] = StatusIn[job[w].got]
    BY <1>2 DEF FaithfulVendor
  <2>6. CASE next = StatusIn[job[w].got]
    <3>1. asked > 0 \/ status' = StatusIn[job[w].got]
      BY <1>1, <2>2, <2>6
    <3>2. Owed' \/ SameMeaning(baseline', status')
      BY <2>1, <2>4, <2>5, <3>1 DEF SameMeaning
    <3> QED BY <1>5, <1>6, <3>2, OneKeepsOwed DEF UpToDate, Is
  <2>7. CASE next # StatusIn[job[w].got]
    <3>1. next = job[w].read /\ status' = status
      BY <1>1, <1>3, <2>7
    <3>2. baseline \in Words /\ StatusIn[baseline] = StatusIn[job[w].got]
      BY <1>2, <1>3, <2>1, <2>7
    <3>3. Owed' \/ SameMeaning(baseline', status')
      BY <2>1, <2>2, <2>3, <3>1, <3>2 DEF SameMeaning
    <3> QED BY <1>5, <1>6, <3>3, OneKeepsOwed DEF UpToDate, Is
  <2> QED BY <2>6, <2>7
<1> QED BY <1>8, <1>9, <1>10, <1>11 DEF SyncBond

(* A worker is killed.                                                       *)
LEMMA KillJobKeeps ==
  ASSUME SyncTypeOK, SyncBond, NEW w \in Workforce, KillJob(w)
  PROVE  SyncTypeOK' /\ SyncBond'
<1>1. /\ ~Resting(w) /\ Fault /\ Done(w)
      /\ loose' = (loose \/ Is(w, "push", "baseline") \/ Is(w, "file", "link"))
      /\ dropped' = (dropped \/ job[w].op \in {"push", "note"})
      /\ UNCHANGED <<status, word, baseline, asked, items, ours, crossed>>
  BY DEF KillJob
<1>2. /\ job' \in [Workforce -> JobStates] /\ job'[w].op = "idle"
      /\ \A x \in Workforce \ {w} : job'[x] = job[x]
  BY <1>1, JobIsDone
<1>3. ~crossed' => ~crossed /\ InHand(w) /\ OursIsNamed /\ \A x \in Workforce \ {w} : job[x].op = "idle"
  BY <1>1, GoesOnAlone DEF SyncBond, OneAtATime
<1>4. SyncTypeOK'
  <2>1. dropped' \in BOOLEAN /\ loose' \in BOOLEAN
    BY <1>1, Zenon DEF SyncTypeOK
  <2> QED BY <1>1, <1>2, <2>1, FaultCounts, TypesFromJobs DEF SyncTypeOK, Linked
<1>5. SyncShape'
  BY <1>1, <1>2, OneKeepsShape DEF SyncBond, ShapeOf, Is
<1>6. OneAtATime'
  <2>1. ~crossed' /\ ~loose' => OursIsNamed /\ ~loose /\ \A x \in Workforce : ~Is(x, "push", "baseline")
    BY <1>1, <1>3 DEF Is
  <2>2. ~crossed' => OursIsNamed'
    BY <1>1, <2>1 DEF OursIsNamed, Linked
  <2> QED BY <1>2, <1>3, <2>2, OneKeepsOneAtATime DEF InHand, Is
<1>7. OwedOrAgreed'
  <2> SUFFICES ASSUME FaithfulVendor, ~crossed', ~dropped' PROVE OwedOrAgreed'
    BY DEF OwedOrAgreed
  <2>1. ~crossed /\ ~dropped /\ job[w].op \notin {"push", "note"}
    BY <1>1
  <2>2. baseline \in Words => Owed \/ SameMeaning(baseline, status)
    BY <2>1 DEF SyncBond, OwedOrAgreed
  <2>3. Owed => Owed'
    BY <1>1, <1>3, <2>1 DEF Owed, OpenRows
  <2>4. baseline' \in Words => Owed' \/ SameMeaning(baseline', status')
    BY <1>1, <2>2, <2>3 DEF SameMeaning
  <2> QED BY <1>2, <1>3, <2>4, OneKeepsOwed DEF UpToDate, Is
<1> QED BY <1>4, <1>5, <1>6, <1>7 DEF SyncBond

LEMMA SyncStep == SyncTypeOK /\ SyncBond /\ [SyncNext]_syncVars => SyncTypeOK' /\ SyncBond'
<1> SUFFICES ASSUME SyncTypeOK, SyncBond, [SyncNext]_syncVars PROVE SyncTypeOK' /\ SyncBond'
  OBVIOUS
<1>0. \A w \in Syncers : w \in Workforce
  BY DEF Workforce
<1>1. ASSUME NEW t \in Statuses, StaffSets(t) PROVE SyncTypeOK' /\ SyncBond'
  BY <1>1, StaffSetsKeeps
<1>2. ASSUME NEW x \in Words, CrewSets(x) PROVE SyncTypeOK' /\ SyncBond'
  BY <1>2, CrewSetsKeeps
<1>3. ASSUME NEW w \in Workforce, FileRead(w) \/ FileCall(w) \/ FileLink(w) PROVE SyncTypeOK' /\ SyncBond'
  BY <1>3, FileReadKeeps, FileCallKeeps, FileLinkKeeps
<1>4. ASSUME NEW w \in Workforce, PushRead(w) PROVE SyncTypeOK' /\ SyncBond'
  <2>1. /\ Resting(w) /\ StartPush(w) /\ asked' \in Nat
        /\ UNCHANGED <<status, word, baseline, items, moves, ours, dropped, loose>>
    BY <1>4 DEF PushRead, SyncTypeOK
  <2> QED BY <2>1, StartPushKeeps
<1>5. ASSUME NEW w \in Workforce, Replay(w) PROVE SyncTypeOK' /\ SyncBond'
  <2>1. /\ Resting(w) /\ StartPush(w) /\ asked' \in Nat
        /\ UNCHANGED <<status, word, baseline, items, moves, ours, dropped, loose>>
    BY <1>5 DEF Replay, SyncTypeOK
  <2> QED BY <2>1, StartPushKeeps
<1>6. ASSUME NEW w \in Workforce, PushCall(w) \/ PushDone(w) PROVE SyncTypeOK' /\ SyncBond'
  BY <1>6, PushCallKeeps, PushDoneKeeps
<1>7. ASSUME NEW w \in Workforce, PushRefused(w) PROVE SyncTypeOK' /\ SyncBond'
  <2>1. /\ Is(w, "push", "call") /\ Fault /\ Proceed(w, "record") /\ UNCHANGED <<word, ours, loose>>
        /\ UNCHANGED <<status, baseline, asked, items, crossed, dropped>>
    BY <1>7 DEF PushRefused
  <2> QED BY <2>1, PushFailsKeeps
<1>8. ASSUME NEW w \in Workforce, PushAnswerLost(w) PROVE SyncTypeOK' /\ SyncBond'
  <2>1. /\ Is(w, "push", "call") /\ Fault /\ Proceed(w, "record")
        /\ word' = WordOut[job[w].read] /\ ours' = TRUE /\ loose' = TRUE
        /\ UNCHANGED <<status, baseline, asked, items, crossed, dropped>>
    BY <1>8 DEF PushAnswerLost
  <2> QED BY <2>1, PushFailsKeeps
<1>9. ASSUME NEW w \in Workforce, PullFetch(w) \/ PullRead(w) \/ PullWrite(w) PROVE SyncTypeOK' /\ SyncBond'
  BY <1>9, PullFetchKeeps, PullReadKeeps, PullWriteKeeps
<1>10. ASSUME NEW w \in Workforce, NoteRead(w) \/ NoteWrite(w) \/ KillJob(w) PROVE SyncTypeOK' /\ SyncBond'
  BY <1>10, NoteReadKeeps, NoteWriteKeeps, KillJobKeeps
<1>11. ASSUME NEW r \in SyncRows, RowDue(r) PROVE SyncTypeOK' /\ SyncBond'
  BY <1>11, RowDueKeeps
<1>12. CASE UNCHANGED syncVars
  BY <1>12 DEF syncVars, SyncTypeOK, Linked, SyncBond, SyncShape, ShapeOf, OneAtATime, InHand, OursIsNamed,
               OwedOrAgreed, Owed, UpToDate, ReadIsCurrent, SameMeaning, OpenRows, Is, Resting
<1> QED BY <1>0, <1>1, <1>2, <1>3, <1>4, <1>5, <1>6, <1>7, <1>8, <1>9, <1>10, <1>11, <1>12 DEF SyncNext

LEMMA SyncStarts == SyncInit => SyncTypeOK /\ SyncBond
<1> SUFFICES ASSUME SyncInit PROVE SyncTypeOK /\ SyncBond
  OBVIOUS
<1>1. job \in [Workforce -> JobStates] /\ \A w \in Workforce : job[w].op = "idle"
  BY IdleJobIs DEF SyncInit
<1>2. moves \in [staff : 0..MaxStaff, crew : 0..MaxCrew, faults : 0..MaxSyncFaults]
  <2>1. 0 \in 0..MaxStaff /\ 0 \in 0..MaxCrew /\ 0 \in 0..MaxSyncFaults
    BY SyncBoundsAreNat
  <2> QED BY <2>1 DEF SyncInit
<1>3. SyncTypeOK
  BY <1>1, <1>2 DEF SyncInit, SyncTypeOK, JobStates, Statuses, Linked
<1>4. SyncShape
  BY <1>1 DEF SyncShape, ShapeOf, Is
<1>5. OneAtATime
  BY <1>1 DEF OneAtATime, InHand, OursIsNamed, Is, Resting, SyncInit, Linked
<1>6. OwedOrAgreed
  BY <1>1, NullsAreApart DEF OwedOrAgreed, UpToDate, Is, SyncInit
<1> QED BY <1>3, <1>4, <1>5, <1>6 DEF SyncBond

LEMMA SyncBound == SyncSpec => [](SyncTypeOK /\ SyncBond)
BY SyncStarts, SyncStep, PTL DEF SyncSpec

(* What the status and its jobs are made of stays in its type, whatever the   *)
(* vendor's vocabulary.                                                      *)
THEOREM SyncTyped == SyncSpec => []SyncTypeOK
BY SyncBound, PTL

(* When every push asked for has been made and every word of the vendor has  *)
(* been pulled, the two sides mean the same, for every vocabulary in which   *)
(* the word sent for a meaning means it: unless jobs of the report crossed   *)
(* or a worker was killed in a push (_push_status, pull_integration_updates, *)
(* the backlog's replay).                                                    *)
THEOREM QuietIsAgreed == ASSUME FaithfulVendor PROVE SyncSpec => []QuietMeansAgreed
<1>1. SyncTypeOK /\ SyncBond => QuietMeansAgreed
  <2> SUFFICES ASSUME SyncTypeOK, SyncBond, SyncQuiet, ~crossed, ~dropped
               PROVE  SameMeaning(word, status)
    BY DEF QuietMeansAgreed
  <2>1. ~Owed
    BY DEF SyncQuiet, Owed, Resting
  <2>2. baseline = word /\ word \in Words
    BY DEF SyncQuiet, Linked, SyncTypeOK
  <2> QED BY <2>1, <2>2, FaithfulVendor DEF SyncBond, OwedOrAgreed
<1> QED BY <1>1, SyncBound, PTL

(* A poll that moves the report's status moves it to a word that is not one  *)
(* the baseline says we sent, unless jobs of the report crossed: whatever    *)
(* the vocabulary, faithful or not (_inbound_status).                        *)
THEOREM OwnWordStays == SyncSpec => OwnWordNotReadBack
<1>1. SyncTypeOK /\ SyncBond /\ [SyncNext]_syncVars =>
        [\A w \in Syncers : Is(w, "pull", "write") /\ Resting(w)' /\ status' # status
           => ~job[w].mine \/ crossed']_syncVars
  <2> SUFFICES ASSUME SyncTypeOK, SyncBond, SyncNext, NEW w \in Syncers, Is(w, "pull", "write"), Resting(w)',
                      status' # status, job[w].mine, ~crossed'
               PROVE  FALSE
    BY DEF syncVars
  <2>0. w \in Workforce /\ w # StaffDesk /\ ~Resting(w)
    BY DeskIsNoWorker DEF Workforce, Is, Resting
  <2>1. ASSUME NEW t \in Statuses, StaffSets(t) PROVE FALSE
    <3>1. job'[w] = job[w]
      BY <2>0, <2>1, SyncTypes DEF StaffSets
    <3> QED BY <2>0, <3>1 DEF Resting
  <2>2. \E x \in Syncers : PullWrite(x)
    BY <2>1 DEF SyncNext, CrewSets, FileRead, FileCall, FileLink, PushRead, Replay, PushCall, PushRefused,
                PushAnswerLost, PushDone, PullFetch, PullRead, NoteRead, NoteWrite, KillJob, RowDue
  <2>3. PullWrite(w)
    <3>1. PICK x \in Syncers : PullWrite(x)
      BY <2>2
    <3>2. x # w => job'[w] = job[w]
      BY <2>0, <3>1, JobIsDone DEF PullWrite, Workforce
    <3> QED BY <2>0, <3>1, <3>2 DEF Resting
  <2>4. ~crossed
    BY <2>3 DEF PullWrite
  <2>5. InHand(w) /\ job[w].got \in Words
    BY <2>0, <2>4 DEF SyncBond, OneAtATime, SyncShape, ShapeOf, Is
  <2>6. job[w].base = job[w].got
    BY <2>5 DEF InHand, Is
  <2>7. job[w].read \in Statuses
    BY <2>0, SyncTypes DEF JobStates
  <2>8. Inbound(job[w].base, job[w].got, job[w].read) = job[w].read
    BY <2>5, <2>6, <2>7, InboundAnswers
  <2> QED BY <2>3, <2>8 DEF PullWrite
<1> QED BY <1>1, SyncBound, PTL DEF SyncSpec, OwnWordNotReadBack

-------------------------------------------------------------------------------
(* The comments of one report (CommentSync).                                 *)

PostStates == [op : {"idle", "post", "import"},
               at : {"read", "call", "mark", "record", "fetch", "save", "add"},
               c : SUBSET Comments, seen : SUBSET Comments, got : SUBSET (Comments \cup Replies)]

(* The jobs of a report that are under way are one while none overlapped,    *)
(* and the markers it loaded are the ones of the link.                       *)
OneJob ==
  ~together => \A v, w \in Posters : ~Free(v) /\ ~Free(w) => v = w /\ post[w].seen = markers

(* Only a posting job has comments to post, and it has reached one of the    *)
(* steps of posting; an import goes through its own.                         *)
JobShape ==
  \A w \in Posters :
    /\ post[w].op # "post" => post[w].c = {}
    /\ post[w].op = "post" => post[w].at \in {"call", "mark", "record"}
    /\ post[w].op = "import" => post[w].at \in {"fetch", "save", "add"}

(* While no two jobs overlapped, a comment of ours that left a trace at the  *)
(* vendor has its marker or is about to get it, unless the trace was lost.   *)
OursAreMarked ==
  ~together => \A c \in Comments \ unmarked :
    /\ copies[c] <= 1 /\ imports[c] = 0
    /\ copies[c] > 0 => c \in markers \/ \E w \in Posters : Stands(w, "post", "mark") /\ c \in post[w].c
    /\ \A w \in Posters : Stands(w, "post", "call") /\ c \in post[w].c => c \notin markers

(* What a poll under way is about to import: none of our marked comments,    *)
(* none that was imported before.                                            *)
PollIsNew ==
  ~together => \A w \in Posters :
    /\ Stands(w, "import", "save") => \A c \in post[w].got \cap Comments : c \in markers \cup unmarked
    /\ Stands(w, "import", "add") => /\ \A c \in post[w].got \cap Comments : c \in unmarked
                                     /\ \A r \in post[w].got \cap Replies : imports[r] = 0

TheirsComeOnce == ~together => \A r \in Replies : imports[r] <= 1

(* A row is closed by an admin only.                                         *)
ClosedWasDiscarded == \A c \in Comments : slip[c] = "closed" => c \in forgotten

CommentBond == JobShape /\ OneJob /\ OursAreMarked /\ PollIsNew
               /\ TheirsComeOnce /\ ClosedWasDiscarded /\ CommentNotDropped
CommentIInv == CommentTypeOK /\ CommentBond

LEMMA PostStatesHold ==
  ASSUME CommentTypeOK
  PROVE  /\ post \in [Posters -> PostStates]
         /\ IdlePost \in PostStates
BY DEF CommentTypeOK, PostStates, IdlePost

(* A job that goes on at another step, or with something else in hand, is    *)
(* still a job; every other worker is where it was.                          *)
LEMMA JobMoves ==
  ASSUME post \in [Posters -> PostStates], NEW w \in Posters, NEW s \in PostStates,
         post' = [post EXCEPT ![w] = s]
  PROVE  /\ post' \in [Posters -> PostStates]
         /\ post'[w] = s
         /\ \A x \in Posters \ {w} : post'[x] = post[x]
OBVIOUS

LEMMA JobGoes ==
  ASSUME post \in [Posters -> PostStates], NEW w \in Posters,
         NEW at \in {"read", "call", "mark", "record", "fetch", "save", "add"}, Go(w, at)
  PROVE  /\ [post[w] EXCEPT !.at = at] \in PostStates
         /\ post' = [post EXCEPT ![w] = [post[w] EXCEPT !.at = at]]
BY DEF Go, PostStates

LEMMA JobFetches ==
  ASSUME post \in [Posters -> PostStates], NEW w \in Posters,
         NEW at \in {"save", "add"}, NEW got \in SUBSET (Comments \cup Replies)
  PROVE  [post[w] EXCEPT !.at = at, !.got = got] \in PostStates
BY DEF PostStates

LEMMA PostingJob ==
  ASSUME CommentTypeOK, NEW c \in Comments
  PROVE  [IdlePost EXCEPT !.op = "post", !.at = "call", !.c = {c}, !.seen = markers] \in PostStates
BY DEF PostStates, IdlePost, CommentTypeOK

LEMMA ImportingJob ==
  ASSUME CommentTypeOK
  PROVE  [IdlePost EXCEPT !.op = "import", !.at = "fetch", !.seen = markers] \in PostStates
BY DEF PostStates, IdlePost, CommentTypeOK

(* What every job does to the other variables keeps them in their types.     *)
LEMMA CommentBooks ==
  ASSUME CommentTypeOK, NEW w \in Posters
  PROVE  /\ Posted(w) \in [Comments \cup Replies -> Nat]
         /\ post[w].c \subseteq Comments /\ post[w].seen \subseteq Comments
         /\ post[w].got \subseteq Comments \cup Replies
BY DEF CommentTypeOK, Posted

(* The comments, the markers and the jobs that carry them stay in their      *)
(* types.                                                                    *)
THEOREM CommentTyped == CommentSpec => []CommentTypeOK
<1> USE PostFaultsAreNat
<1>1. CommentInit => CommentTypeOK
  <2>1. IdlePost \in PostStates
    BY DEF IdlePost, PostStates
  <2>2. CommentInit => post \in [Posters -> PostStates]
    BY <2>1 DEF CommentInit
  <2>3. 0 \in 0..MaxPostFaults
    OBVIOUS
  <2>4. CommentInit => /\ copies \in [Comments \cup Replies -> Nat] /\ imports \in [Comments \cup Replies -> Nat]
                       /\ slip \in [Comments -> {"none", "later", "due", "closed"}]
    BY DEF CommentInit
  <2> QED BY <2>2, <2>3, <2>4 DEF CommentInit, CommentTypeOK, PostStates
<1>2. CommentTypeOK /\ [CommentNext]_commentVars => CommentTypeOK'
  <2> SUFFICES ASSUME CommentTypeOK, [CommentNext]_commentVars PROVE CommentTypeOK'
    OBVIOUS
  <2>0. /\ post \in [Posters -> PostStates] /\ IdlePost \in PostStates
    BY PostStatesHold
  <2>a. ASSUME post' \in [Posters -> PostStates] 
        PROVE  post' \in [Posters -> [op : {"idle", "post", "import"},
                           at : {"read", "call", "mark", "record", "fetch", "save", "add"},
                           c : SUBSET Comments, seen : SUBSET Comments,
                           got : SUBSET (Comments \cup Replies)]]
    BY <2>a DEF PostStates
  <2>b. ASSUME NEW w \in Posters, Rest(w) PROVE post' \in [Posters -> PostStates]
    BY <2>b, <2>0 DEF Rest
  <2>c. ASSUME NEW w \in Posters, NEW at \in {"read", "call", "mark", "record", "fetch", "save", "add"}, Go(w, at)
        PROVE  post' \in [Posters -> PostStates]
    BY <2>c, <2>0, JobGoes
  <2>d. ASSUME NEW w \in Posters, Joining(w) PROVE together' \in BOOLEAN
    BY <2>d, Zenon DEF Joining, CommentTypeOK
  <2>e. ASSUME PostFault PROVE postFaults' \in 0..MaxPostFaults
    BY <2>e DEF PostFault, CommentTypeOK
  <2> USE DEF CommentTypeOK
  <2>1. ASSUME NEW c \in Comments, Write(c) PROVE CommentTypeOK'
    BY <2>1, <2>e DEF Write
  <2>2. ASSUME NEW c \in Comments, SlipDue(c) PROVE CommentTypeOK'
    BY <2>2 DEF SlipDue
  <2>3. ASSUME NEW c \in Comments, DiscardSlip(c) PROVE CommentTypeOK'
    BY <2>3, <2>e DEF DiscardSlip
  <2>4. ASSUME NEW r \in Replies, Reply(r) PROVE CommentTypeOK'
    BY <2>4 DEF Reply
  <2>5. ASSUME NEW w \in Posters, NEW c \in Comments, StartPost(w, c)
        PROVE  post' \in [Posters -> PostStates] /\ together' \in BOOLEAN
    <3>1. CASE AlreadyMarked(c)
      BY <2>5, <3>1, <2>0 DEF StartPost
    <3>2. CASE ~AlreadyMarked(c)
      BY <2>5, <3>2, <2>0, <2>d, PostingJob DEF StartPost
    <3> QED BY <3>1, <3>2
  <2>6. ASSUME NEW w \in Posters, NEW c \in Comments, TakePost(w, c) PROVE CommentTypeOK'
    BY <2>6, <2>5, <2>a DEF TakePost
  <2>7. ASSUME NEW w \in Posters, NEW c \in Comments, ReplaySlip(w, c) PROVE CommentTypeOK'
    BY <2>7, <2>5, <2>a DEF ReplaySlip
  <2>8. ASSUME NEW w \in Posters, PostCall(w) PROVE CommentTypeOK'
    BY <2>8, <2>c, <2>a, CommentBooks DEF PostCall
  <2>9. ASSUME NEW w \in Posters, PostMark(w) PROVE CommentTypeOK'
    <3>1. slip' \in [Comments -> {"none", "later", "due", "closed"}]
      BY <2>9 DEF PostMark
    <3> QED BY <3>1, <2>9, <2>b, <2>a, CommentBooks DEF PostMark
  <2>10. ASSUME NEW w \in Posters, PostRecord(w) PROVE CommentTypeOK'
    BY <2>10, <2>b, <2>a DEF PostRecord
  <2>11. ASSUME NEW w \in Posters, ImportRead(w) PROVE CommentTypeOK'
    BY <2>11, <2>0, <2>a, <2>d, ImportingJob DEF ImportRead
  <2>12. ASSUME NEW w \in Posters, ImportFetch(w) PROVE CommentTypeOK'
    BY <2>12, <2>0, <2>a, JobFetches DEF ImportFetch
  <2>13. ASSUME NEW w \in Posters, ImportCheck(w) PROVE CommentTypeOK'
    <3> DEFINE fresh == {c \in post[w].got : IsNew(w, c)}
    <3>1. fresh \in SUBSET (Comments \cup Replies)
      BY CommentBooks
    <3>2. post' = [post EXCEPT ![w] = [post[w] EXCEPT !.at = "add", !.got = fresh]]
      BY <2>13, Zenon DEF ImportCheck
    <3> HIDE DEF fresh
    <3>3. post' \in [Posters -> PostStates]
      BY <3>1, <3>2, <2>0, JobFetches
    <3> QED BY <3>3, <2>13, <2>a DEF ImportCheck
  <2>14. ASSUME NEW w \in Posters, ImportSave(w) PROVE CommentTypeOK'
    BY <2>14, <2>b, <2>a DEF ImportSave
  <2>15. ASSUME NEW w \in Posters, PostRefused(w) PROVE CommentTypeOK'
    BY <2>15, <2>c, <2>a, <2>e DEF PostRefused
  <2>16. ASSUME NEW w \in Posters, PostAnswerLost(w) PROVE CommentTypeOK'
    BY <2>16, <2>c, <2>a, <2>e, CommentBooks DEF PostAnswerLost
  <2>17. ASSUME NEW w \in Posters, KillPost(w) PROVE CommentTypeOK'
    BY <2>17, <2>b, <2>a, <2>e, CommentBooks DEF KillPost
  <2>18. CASE UNCHANGED commentVars
    BY <2>18 DEF commentVars
  <2> QED BY <2>1, <2>2, <2>3, <2>4, <2>6, <2>7, <2>8, <2>9, <2>10, <2>11, <2>12, <2>13, <2>14,
             <2>15, <2>16, <2>17, <2>18 DEF CommentNext, PosterSteps
<1> QED BY <1>1, <1>2, PTL DEF CommentSpec

(* A step of one job: the others stay, and if none overlaps they are idle.   *)
LEMMA JobStepsAlone ==
  ASSUME CommentTypeOK, OneJob, JobShape, NEW w \in Posters, ~Free(w), ~together
  PROVE  /\ \A x \in Posters \ {w} : Free(x) /\ post[x].c = {}
         /\ post[w].seen = markers
BY DEF OneJob, JobShape, Free

LEMMA CommentBondStarts == CommentInit => CommentBond
<1> SUFFICES ASSUME CommentInit PROVE CommentBond
  OBVIOUS
<1>1. \A w \in Posters : post[w] = IdlePost
  BY DEF CommentInit
<1>2. \A w \in Posters : Free(w) /\ post[w].op = "idle" /\ post[w].c = {}
  BY <1>1 DEF Free, IdlePost
<1>3. JobShape /\ OneJob
  BY <1>2 DEF JobShape, OneJob
<1>4. OursAreMarked /\ PollIsNew
  BY <1>2 DEF OursAreMarked, PollIsNew, Stands, CommentInit
<1>5. TheirsComeOnce /\ ClosedWasDiscarded /\ CommentNotDropped
  BY DEF TheirsComeOnce, ClosedWasDiscarded, CommentNotDropped, CommentInit
<1> QED BY <1>3, <1>4, <1>5 DEF CommentBond

LEMMA WriteKeepsBond ==
  ASSUME CommentTypeOK, CommentBond, NEW c \in Comments, Write(c) PROVE CommentBond'
<1> USE DEF CommentBond, Write
<1>1. JobShape' /\ OneJob'
  BY DEF JobShape, OneJob, Free
<1>2. OursAreMarked' /\ PollIsNew' /\ TheirsComeOnce'
  BY DEF OursAreMarked, PollIsNew, TheirsComeOnce, Stands
<1>3. \A d \in Comments : slip'[d] = slip[d] \/ (slip'[d] = "later" /\ d = c)
  BY DEF CommentTypeOK
<1>4. c \in toPost' \/ SlipIsOpen(c)'
  BY DEF CommentTypeOK, SlipIsOpen
<1>5. \A d \in Comments : SlipIsOpen(d) => SlipIsOpen(d)'
  BY <1>3 DEF SlipIsOpen
<1>6. ClosedWasDiscarded'
  BY <1>3 DEF ClosedWasDiscarded
<1>7. CommentNotDropped'
  BY <1>4, <1>5 DEF CommentNotDropped
<1> QED BY <1>1, <1>2, <1>6, <1>7

LEMMA SlipDueKeepsBond ==
  ASSUME CommentTypeOK, CommentBond, NEW c \in Comments, SlipDue(c) PROVE CommentBond'
<1> USE DEF CommentBond, SlipDue
<1>1. JobShape' /\ OneJob'
  BY DEF JobShape, OneJob, Free
<1>2. OursAreMarked' /\ PollIsNew' /\ TheirsComeOnce'
  BY DEF OursAreMarked, PollIsNew, TheirsComeOnce, Stands
<1>3. ClosedWasDiscarded'
  BY DEF ClosedWasDiscarded, CommentTypeOK
<1>4. \A d \in Comments : SlipIsOpen(d) => SlipIsOpen(d)'
  BY DEF CommentTypeOK, SlipIsOpen
<1>5. CommentNotDropped'
  BY <1>4 DEF CommentNotDropped
<1> QED BY <1>1, <1>2, <1>3, <1>5

LEMMA DiscardKeepsBond ==
  ASSUME CommentTypeOK, CommentBond, NEW c \in Comments, DiscardSlip(c) PROVE CommentBond'
<1> USE DEF CommentBond, DiscardSlip
<1>1. JobShape' /\ OneJob'
  BY DEF JobShape, OneJob, Free
<1>2. OursAreMarked' /\ PollIsNew' /\ TheirsComeOnce'
  BY DEF OursAreMarked, PollIsNew, TheirsComeOnce, Stands
<1>3. ClosedWasDiscarded'
  BY DEF ClosedWasDiscarded, CommentTypeOK
<1>4. \A d \in Comments : SlipIsOpen(d) => SlipIsOpen(d)' \/ d \in forgotten'
  BY DEF CommentTypeOK, SlipIsOpen
<1>5. CommentNotDropped'
  BY <1>4 DEF CommentNotDropped
<1> QED BY <1>1, <1>2, <1>3, <1>5

LEMMA ReplyKeepsBond ==
  ASSUME CommentTypeOK, CommentBond, NEW r \in Replies, Reply(r) PROVE CommentBond'
<1> USE DEF CommentBond, Reply
<1>1. JobShape' /\ OneJob' /\ PollIsNew' /\ TheirsComeOnce' /\ ClosedWasDiscarded'
  BY DEF JobShape, OneJob, Free, PollIsNew, TheirsComeOnce, ClosedWasDiscarded, Stands
<1>2. \A c \in Comments : copies'[c] = copies[c] /\ c # r
  BY OursAreNotTheirs DEF CommentTypeOK
<1>3. OursAreMarked'
  BY <1>2 DEF OursAreMarked, Stands
<1>4. CommentNotDropped'
  BY <1>2 DEF CommentNotDropped, SlipIsOpen
<1> QED BY <1>1, <1>3, <1>4

(* A job starts: if it is alone, every other worker is idle and it has the   *)
(* markers of the link in hand.                                              *)
LEMMA StartedAlone ==
  ASSUME CommentTypeOK, CommentBond, NEW w \in Posters, Free(w), Joining(w), ~together'
  PROVE  ~together /\ \A x \in Posters : Free(x) /\ post[x].op = "idle" /\ post[x].c = {}
BY DEF Joining, CommentBond, JobShape, Free

(* A worker takes up a comment.                                              *)
LEMMA StartKeepsBond ==
  ASSUME CommentTypeOK, CommentBond, NEW w \in Posters, NEW c \in Comments, Free(w), StartPost(w, c),
         c \in toPost \/ SlipIsOpen(c), toPost \ {c} \subseteq toPost', toPost' \subseteq toPost,
         UNCHANGED <<written, copies, markers, imports, slip, postFaults, unmarked, forgotten>>
  PROVE  CommentBond'
<1>1. CASE AlreadyMarked(c)
  <2>1. UNCHANGED <<post, together>>
    BY <1>1 DEF StartPost
  <2>2. JobShape' /\ OneJob' /\ PollIsNew' /\ TheirsComeOnce' /\ ClosedWasDiscarded' /\ OursAreMarked'
    BY <2>1 DEF CommentBond, JobShape, OneJob, Free, PollIsNew, TheirsComeOnce, ClosedWasDiscarded, Stands,
                OursAreMarked
  <2>3. CommentNotDropped'
    BY <2>1, <1>1 DEF CommentBond, CommentNotDropped, SlipIsOpen, AlreadyMarked
  <2> QED BY <2>2, <2>3 DEF CommentBond
<1>2. CASE ~AlreadyMarked(c)
  <2> DEFINE s == [IdlePost EXCEPT !.op = "post", !.at = "call", !.c = {c}, !.seen = markers]
  <2>1. s.op = "post" /\ s.at = "call" /\ s.c = {c} /\ s.seen = markers
    BY DEF IdlePost
  <2>2. post' = [post EXCEPT ![w] = s] /\ Joining(w)
    BY <1>2 DEF StartPost
  <2>3. s \in PostStates
    BY PostingJob
  <2> HIDE DEF s
  <2>4. post'[w] = s /\ \A x \in Posters \ {w} : post'[x] = post[x]
    BY <2>2, <2>3, PostStatesHold, JobMoves
  <2>5. JobShape'
    BY <2>1, <2>4 DEF CommentBond, JobShape
  <2>6. ~together' => ~together /\ \A x \in Posters : Free(x) /\ post[x].op = "idle" /\ post[x].c = {}
    BY <2>2, StartedAlone
  <2>7. OneJob'
    BY <2>1, <2>4, <2>6 DEF OneJob, Free
  <2>8. OursAreMarked'
    <3> SUFFICES ASSUME ~together' PROVE OursAreMarked'
      BY DEF OursAreMarked
    <3>1. \A x \in Posters : Stands(x, "post", "call")' => x = w
      BY <2>4, <2>6 DEF Stands
    <3>2. \A x \in Posters : ~Stands(x, "post", "mark")
      BY <2>6 DEF Stands
    <3>3. c \notin markers' /\ post'[w].c = {c}
      BY <1>2, <2>1, <2>4 DEF AlreadyMarked
    <3>4. OursAreMarked /\ ~together
      BY <2>6 DEF CommentBond
    <3>5. \A d \in Comments \ unmarked : copies[d] <= 1 /\ imports[d] = 0 /\ (copies[d] > 0 => d \in markers)
      BY <3>2, <3>4 DEF OursAreMarked
    <3> QED BY <3>1, <3>3, <3>5 DEF OursAreMarked
  <2>9. PollIsNew'
    <3> SUFFICES ASSUME ~together', NEW x \in Posters PROVE ~Stands(x, "import", "save")' /\ ~Stands(x, "import", "add")'
      BY DEF PollIsNew
    <3> QED BY <2>1, <2>4, <2>6 DEF Stands
  <2>10. TheirsComeOnce' /\ ClosedWasDiscarded'
    BY <2>6 DEF CommentBond, TheirsComeOnce, ClosedWasDiscarded
  <2>11. CommentNotDropped'
    <3>1. \A d \in toPost : d \in toPost' \/ d \in post'[w].c
      BY <2>1, <2>4
    <3>2. together => together'
      BY <2>2, Zenon DEF Joining
    <3>3. ~together' => \A x \in Posters : post[x].c = {}
      BY <2>6
    <3> QED BY <3>1, <3>2, <3>3 DEF CommentBond, CommentNotDropped, SlipIsOpen
  <2> QED BY <2>5, <2>7, <2>8, <2>9, <2>10, <2>11 DEF CommentBond
<1> QED BY <1>1, <1>2

(* The comment has reached the vendor.                                       *)
LEMMA PostCallKeepsBond ==
  ASSUME CommentTypeOK, CommentBond, NEW w \in Posters, PostCall(w) PROVE CommentBond'
<1> DEFINE s == [post[w] EXCEPT !.at = "mark"]
<1>1. s \in PostStates /\ post' = [post EXCEPT ![w] = s]
  BY PostStatesHold, JobGoes DEF PostCall
<1>2. s.op = "post" /\ s.at = "mark" /\ s.c = post[w].c /\ s.seen = post[w].seen
  BY PostStatesHold DEF PostStates, PostCall, Stands
<1> HIDE DEF s
<1>3. post'[w] = s /\ \A x \in Posters \ {w} : post'[x] = post[x]
  BY <1>1, PostStatesHold, JobMoves
<1>4. ~Free(w) /\ Stands(w, "post", "call")
  BY DEF PostCall, Free, Stands
<1>5. JobShape'
  BY <1>2, <1>3 DEF CommentBond, JobShape
<1>6. OneJob'
  BY <1>2, <1>3, <1>4 DEF PostCall, CommentBond, OneJob, Free
<1>7. ~together => \A x \in Posters \ {w} : Free(x) /\ post[x].c = {}
  BY <1>4, JobStepsAlone DEF CommentBond
<1>8. \A c \in Comments \cup Replies : copies'[c] = IF c \in post[w].c THEN copies[c] + 1 ELSE copies[c]
  BY DEF PostCall, Posted
<1>9. OursAreMarked'
  <2> SUFFICES ASSUME ~together', NEW c \in Comments \ unmarked'
               PROVE  /\ copies'[c] <= 1 /\ imports'[c] = 0
                      /\ copies'[c] > 0 => c \in markers' \/ \E x \in Posters : Stands(x, "post", "mark")' /\ c \in post'[x].c
                      /\ \A x \in Posters : Stands(x, "post", "call")' /\ c \in post'[x].c => c \notin markers'
    BY DEF OursAreMarked
  <2>1. ~together /\ c \in Comments \ unmarked /\ UNCHANGED <<markers, imports>>
    BY DEF PostCall
  <2>2. /\ copies[c] \in Nat /\ copies[c] <= 1 /\ imports[c] = 0
        /\ copies[c] > 0 => c \in markers \/ \E x \in Posters : Stands(x, "post", "mark") /\ c \in post[x].c
        /\ \A x \in Posters : Stands(x, "post", "call") /\ c \in post[x].c => c \notin markers
    BY <2>1 DEF CommentBond, OursAreMarked, CommentTypeOK
  <2>3. \A x \in Posters : ~Stands(x, "post", "mark")
    BY <1>4, <1>7, <2>1 DEF Stands, Free
  <2>4. c \in post[w].c => copies[c] = 0
    BY <1>4, <2>2, <2>3
  <2>5. Stands(w, "post", "mark")' /\ post'[w].c = post[w].c
    BY <1>2, <1>3 DEF Stands
  <2>6. \A x \in Posters : ~Stands(x, "post", "call")'
    BY <1>2, <1>3, <1>7, <2>1 DEF Stands, Free
  <2> QED BY <1>8, <2>1, <2>2, <2>3, <2>4, <2>5, <2>6
<1>10. PollIsNew'
  BY <1>2, <1>3 DEF PostCall, CommentBond, PollIsNew, Stands
<1>11. TheirsComeOnce' /\ ClosedWasDiscarded'
  BY DEF PostCall, CommentBond, TheirsComeOnce, ClosedWasDiscarded
<1>12. CommentNotDropped'
  <2>1. \A x \in Posters : post'[x].c = post[x].c
    BY <1>2, <1>3
  <2> QED BY <2>1 DEF PostCall, CommentBond, CommentNotDropped, SlipIsOpen
<1> QED BY <1>5, <1>6, <1>9, <1>10, <1>11, <1>12 DEF CommentBond

(* The call did not succeed, or its answer was lost.                         *)
LEMMA PostFailsKeepsBond ==
  ASSUME CommentTypeOK, CommentBond, NEW w \in Posters, Stands(w, "post", "call"), Go(w, "record"),
         \/ UNCHANGED <<copies, unmarked>>
         \/ copies' = Posted(w) /\ unmarked' = unmarked \cup post[w].c,
         UNCHANGED <<written, toPost, markers, imports, slip, together, forgotten>>
  PROVE  CommentBond'
<1> DEFINE s == [post[w] EXCEPT !.at = "record"]
<1>1. s \in PostStates /\ post' = [post EXCEPT ![w] = s]
  BY PostStatesHold, JobGoes
<1>2. s.op = "post" /\ s.at = "record" /\ s.c = post[w].c /\ s.seen = post[w].seen
  BY PostStatesHold DEF PostStates, Stands
<1> HIDE DEF s
<1>3. post'[w] = s /\ \A x \in Posters \ {w} : post'[x] = post[x]
  BY <1>1, PostStatesHold, JobMoves
<1>4. ~Free(w)
  BY DEF Free, Stands
<1>5. JobShape'
  BY <1>2, <1>3 DEF CommentBond, JobShape
<1>6. OneJob'
  BY <1>2, <1>3, <1>4 DEF CommentBond, OneJob, Free
<1>7. \A c \in Comments \ unmarked' : copies'[c] = copies[c] /\ c \notin unmarked
  BY DEF Posted
<1>8. OursAreMarked'
  <2>1. \A x \in Posters : Stands(x, "post", "mark") => Stands(x, "post", "mark")' /\ post'[x].c = post[x].c
    BY <1>3 DEF Stands
  <2>2. \A x \in Posters : Stands(x, "post", "call")' => Stands(x, "post", "call") /\ post'[x].c = post[x].c
    BY <1>2, <1>3 DEF Stands
  <2> QED BY <1>7, <2>1, <2>2 DEF CommentBond, OursAreMarked
<1>9. PollIsNew'
  BY <1>2, <1>3 DEF CommentBond, PollIsNew, Stands
<1>10. TheirsComeOnce' /\ ClosedWasDiscarded'
  BY DEF CommentBond, TheirsComeOnce, ClosedWasDiscarded
<1>11. CommentNotDropped'
  <2>1. \A x \in Posters : post'[x].c = post[x].c
    BY <1>2, <1>3
  <2> QED BY <2>1 DEF CommentBond, CommentNotDropped, SlipIsOpen
<1> QED BY <1>5, <1>6, <1>8, <1>9, <1>10, <1>11 DEF CommentBond

(* A worker that is done, or killed, has nothing in hand.                    *)
LEMMA RestLeavesOthers ==
  ASSUME CommentTypeOK, CommentBond, NEW w \in Posters, Rest(w), ~Free(w)
  PROVE  /\ Free(w)' /\ post'[w].op = "idle" /\ post'[w].c = {}
         /\ \A x \in Posters \ {w} : post'[x] = post[x]
         /\ JobShape'
         /\ ~together => \A x \in Posters : Free(x)' /\ post'[x].op = "idle"
         /\ ~together => \A x \in Posters \ {w} : Free(x) /\ post[x].c = {}
<1>1. IdlePost.op = "idle" /\ IdlePost.c = {}
  BY DEF IdlePost
<1>2. post'[w] = IdlePost /\ \A x \in Posters \ {w} : post'[x] = post[x]
  BY PostStatesHold, JobMoves DEF Rest
<1>3. ~together => \A x \in Posters \ {w} : Free(x) /\ post[x].c = {}
  BY JobStepsAlone DEF CommentBond
<1>4. JobShape'
  BY <1>1, <1>2 DEF CommentBond, JobShape
<1> QED BY <1>1, <1>2, <1>3, <1>4 DEF Free

(* The marker is written.                                                    *)
LEMMA PostMarkKeepsBond ==
  ASSUME CommentTypeOK, CommentBond, NEW w \in Posters, PostMark(w) PROVE CommentBond'
<1>1. Rest(w) /\ Stands(w, "post", "mark") /\ ~Free(w) /\ markers' = post[w].seen \cup post[w].c
  BY DEF PostMark, Stands, Free
<1>2. /\ Free(w)' /\ post'[w].op = "idle" /\ post'[w].c = {}
      /\ \A x \in Posters \ {w} : post'[x] = post[x]
      /\ JobShape'
      /\ ~together => \A x \in Posters : Free(x)' /\ post'[x].op = "idle"
      /\ ~together => \A x \in Posters \ {w} : Free(x) /\ post[x].c = {}
  BY <1>1, RestLeavesOthers
<1>3. UNION {ClearedBy(d) : d \in post[w].c} = {}
  BY DEF ClearedBy
<1>4. slip' = slip
  BY <1>3 DEF PostMark, CommentTypeOK
<1>5. OneJob' /\ PollIsNew'
  BY <1>2 DEF OneJob, PollIsNew, PostMark, Stands, Free
<1>6. TheirsComeOnce' /\ ClosedWasDiscarded'
  BY <1>4 DEF CommentBond, TheirsComeOnce, ClosedWasDiscarded, PostMark
<1>7. ~together => markers' = markers \cup post[w].c
  BY <1>1, JobStepsAlone DEF CommentBond
<1>8. OursAreMarked'
  <2> SUFFICES ASSUME ~together', NEW c \in Comments \ unmarked'
               PROVE  /\ copies'[c] <= 1 /\ imports'[c] = 0
                      /\ copies'[c] > 0 => c \in markers'
                      /\ \A x \in Posters : ~Stands(x, "post", "call")'
    BY DEF OursAreMarked
  <2>1. ~together /\ c \in Comments \ unmarked /\ UNCHANGED <<copies, imports>>
    BY DEF PostMark
  <2>2. /\ copies[c] <= 1 /\ imports[c] = 0
        /\ copies[c] > 0 => c \in markers \/ \E x \in Posters : Stands(x, "post", "mark") /\ c \in post[x].c
    BY <2>1 DEF CommentBond, OursAreMarked
  <2>3. \A x \in Posters : Stands(x, "post", "mark") => x = w
    BY <1>2, <2>1 DEF Stands, Free
  <2>4. \A x \in Posters : ~Stands(x, "post", "call")'
    BY <1>2, <2>1 DEF Stands
  <2> QED BY <1>7, <2>1, <2>2, <2>3, <2>4
<1>9. CommentNotDropped'
  BY <1>2, <1>4, <1>7 DEF CommentBond, CommentNotDropped, SlipIsOpen, PostMark
<1> QED BY <1>2, <1>5, <1>6, <1>8, <1>9 DEF CommentBond

(* The failed push is recorded.                                              *)
LEMMA PostRecordKeepsBond ==
  ASSUME CommentTypeOK, CommentBond, NEW w \in Posters, PostRecord(w) PROVE CommentBond'
<1>1. Rest(w) /\ Stands(w, "post", "record") /\ ~Free(w)
  BY DEF PostRecord, Stands, Free
<1>2. /\ Free(w)' /\ post'[w].op = "idle" /\ post'[w].c = {}
      /\ \A x \in Posters \ {w} : post'[x] = post[x]
      /\ JobShape'
      /\ ~together => \A x \in Posters : Free(x)' /\ post'[x].op = "idle"
      /\ ~together => \A x \in Posters \ {w} : Free(x) /\ post[x].c = {}
  BY <1>1, RestLeavesOthers
<1>3. \A c \in Comments : /\ slip'[c] = IF c \in post[w].c /\ slip[c] # "closed" THEN "later" ELSE slip[c]
                          /\ SlipIsOpen(c) => SlipIsOpen(c)'
                          /\ c \in post[w].c => SlipIsOpen(c)' \/ slip[c] = "closed"
  BY DEF PostRecord, Recordable, SlipIsOpen
<1>4. OneJob' /\ PollIsNew'
  BY <1>2 DEF OneJob, PollIsNew, PostRecord, Stands, Free
<1>5. TheirsComeOnce' /\ ClosedWasDiscarded'
  BY <1>3 DEF CommentBond, TheirsComeOnce, ClosedWasDiscarded, PostRecord
<1>6. OursAreMarked'
  <2>1. \A x \in Posters : Stands(x, "post", "mark") => x # w
    BY <1>1 DEF Stands
  <2>2. \A x \in Posters : Stands(x, "post", "mark") => Stands(x, "post", "mark")' /\ post'[x].c = post[x].c
    BY <1>2, <2>1 DEF Stands
  <2>3. ~together => \A x \in Posters : ~Stands(x, "post", "call")'
    BY <1>2 DEF Stands
  <2> QED BY <2>2, <2>3 DEF CommentBond, OursAreMarked, PostRecord
<1>7. CommentNotDropped'
  BY <1>2, <1>3 DEF CommentBond, CommentNotDropped, ClosedWasDiscarded, PostRecord
<1> QED BY <1>2, <1>4, <1>5, <1>6, <1>7 DEF CommentBond

(* A poll begins: it loads the link with its markers.                        *)
LEMMA ImportReadKeepsBond ==
  ASSUME CommentTypeOK, CommentBond, NEW w \in Posters, ImportRead(w) PROVE CommentBond'
<1> DEFINE s == [IdlePost EXCEPT !.op = "import", !.at = "fetch", !.seen = markers]
<1>1. s.op = "import" /\ s.at = "fetch" /\ s.c = {} /\ s.seen = markers
  BY DEF IdlePost
<1>2. post' = [post EXCEPT ![w] = s] /\ Joining(w) /\ Free(w)
  BY DEF ImportRead
<1>3. s \in PostStates
  BY ImportingJob
<1> HIDE DEF s
<1>4. post'[w] = s /\ \A x \in Posters \ {w} : post'[x] = post[x]
  BY <1>2, <1>3, PostStatesHold, JobMoves
<1>5. JobShape'
  BY <1>1, <1>4 DEF CommentBond, JobShape
<1>6. ~together' => ~together /\ \A x \in Posters : Free(x) /\ post[x].op = "idle" /\ post[x].c = {}
  BY <1>2, StartedAlone
<1>7. OneJob'
  BY <1>1, <1>4, <1>6 DEF OneJob, Free, ImportRead
<1>8. OursAreMarked'
  <2>1. ~together' => \A x \in Posters : ~Stands(x, "post", "mark") /\ ~Stands(x, "post", "call")'
    BY <1>1, <1>4, <1>6 DEF Stands
  <2> QED BY <1>6, <2>1 DEF CommentBond, OursAreMarked, ImportRead
<1>9. PollIsNew'
  BY <1>1, <1>4, <1>6 DEF PollIsNew, Stands
<1>10. TheirsComeOnce' /\ ClosedWasDiscarded'
  BY <1>6 DEF CommentBond, TheirsComeOnce, ClosedWasDiscarded, ImportRead
<1>11. CommentNotDropped'
  <2>1. together => together'
    BY <1>2, Zenon DEF Joining
  <2> QED BY <1>6, <2>1 DEF CommentBond, CommentNotDropped, SlipIsOpen, ImportRead
<1> QED BY <1>5, <1>7, <1>8, <1>9, <1>10, <1>11 DEF CommentBond

(* A poll goes on with what it has got; it changes nothing else.             *)
LEMMA ImportGoesOn ==
  ASSUME CommentTypeOK, CommentBond, NEW w \in Posters, post[w].op = "import",
         NEW at \in {"save", "add"}, NEW got \in SUBSET (Comments \cup Replies),
         post' = [post EXCEPT ![w] = [post[w] EXCEPT !.at = at, !.got = got]],
         UNCHANGED <<written, toPost, copies, markers, imports, slip, postFaults, together,
                     unmarked, forgotten>>
  PROVE  /\ \A x \in Posters \ {w} : post'[x] = post[x]
         /\ post'[w].op = "import" /\ post'[w].at = at /\ post'[w].got = got
         /\ ~together => \A x \in Posters \ {w} : Free(x) /\ post[x].c = {}
         /\ ~together => post[w].seen = markers
         /\ JobShape' /\ OneJob' /\ OursAreMarked' /\ TheirsComeOnce' /\ ClosedWasDiscarded'
         /\ CommentNotDropped'
<1> DEFINE s == [post[w] EXCEPT !.at = at, !.got = got]
<1>1. s.op = "import" /\ s.at = at /\ s.got = got /\ s.c = post[w].c /\ s.seen = post[w].seen
  BY PostStatesHold DEF PostStates
<1>2. s \in PostStates
  BY PostStatesHold, JobFetches
<1>3. post' = [post EXCEPT ![w] = s]
  OBVIOUS
<1> HIDE DEF s
<1>4. post'[w] = s /\ \A x \in Posters \ {w} : post'[x] = post[x]
  BY <1>2, <1>3, PostStatesHold, JobMoves
<1>5. \A x \in Posters : post'[x].c = post[x].c /\ post'[x].op = post[x].op /\ post'[x].seen = post[x].seen
  BY <1>1, <1>4
<1>6. JobShape' /\ OneJob'
  BY <1>1, <1>4, <1>5 DEF CommentBond, JobShape, OneJob, Free
<1>7. OursAreMarked'
  <2>1. \A x \in Posters : /\ Stands(x, "post", "mark")' <=> Stands(x, "post", "mark")
                           /\ Stands(x, "post", "call")' <=> Stands(x, "post", "call")
    BY <1>4, <1>5 DEF Stands
  <2> QED BY <1>5, <2>1 DEF CommentBond, OursAreMarked
<1>8. TheirsComeOnce' /\ ClosedWasDiscarded'
  BY DEF CommentBond, TheirsComeOnce, ClosedWasDiscarded
<1>9. CommentNotDropped'
  BY <1>5 DEF CommentBond, CommentNotDropped, SlipIsOpen
<1>10. ~together => (\A x \in Posters \ {w} : Free(x) /\ post[x].c = {}) /\ post[w].seen = markers
  BY JobStepsAlone DEF CommentBond, Free
<1> QED BY <1>1, <1>4, <1>6, <1>7, <1>8, <1>9, <1>10

LEMMA ImportFetchKeepsBond ==
  ASSUME CommentTypeOK, CommentBond, NEW w \in Posters, ImportFetch(w) PROVE CommentBond'
<1> DEFINE got == {c \in Comments \cup Replies : copies[c] > 0}
<1>1. post' = [post EXCEPT ![w] = [post[w] EXCEPT !.at = "save", !.got = got]]
  BY DEF ImportFetch
<1>2. got \in SUBSET (Comments \cup Replies) /\ \A c \in got : copies[c] > 0
  OBVIOUS
<1> HIDE DEF got
<1>3. post[w].op = "import"
  BY DEF ImportFetch, Stands
<1>4. /\ \A x \in Posters \ {w} : post'[x] = post[x]
      /\ post'[w].op = "import" /\ post'[w].at = "save" /\ post'[w].got = got
      /\ ~together => \A x \in Posters \ {w} : Free(x) /\ post[x].c = {}
      /\ JobShape' /\ OneJob' /\ OursAreMarked' /\ TheirsComeOnce' /\ ClosedWasDiscarded'
      /\ CommentNotDropped'
  BY <1>1, <1>2, <1>3, ImportGoesOn DEF ImportFetch
<1>5. PollIsNew'
  <2> SUFFICES ASSUME ~together PROVE PollIsNew'
    BY DEF PollIsNew, ImportFetch
  <2>1. \A x \in Posters : ~Stands(x, "post", "mark")
    BY <1>3, <1>4 DEF Stands, Free
  <2>2. \A c \in got \cap Comments : c \in markers \cup unmarked
    BY <1>2, <2>1 DEF CommentBond, OursAreMarked
  <2>3. \A x \in Posters \ {w} : ~Stands(x, "import", "save")' /\ ~Stands(x, "import", "add")'
    BY <1>4 DEF Stands, Free
  <2> QED BY <1>4, <2>2, <2>3 DEF PollIsNew, Stands, ImportFetch
<1> QED BY <1>4, <1>5 DEF CommentBond

LEMMA ImportCheckKeepsBond ==
  ASSUME CommentTypeOK, CommentBond, NEW w \in Posters, ImportCheck(w) PROVE CommentBond'
<1> DEFINE got == {c \in post[w].got : IsNew(w, c)}
<1>1. post' = [post EXCEPT ![w] = [post[w] EXCEPT !.at = "add", !.got = got]]
  BY DEF ImportCheck
<1>2. got \in SUBSET (Comments \cup Replies) /\ \A c \in got : c \in post[w].got /\ IsNew(w, c)
  BY CommentBooks
<1> HIDE DEF got
<1>3. post[w].op = "import" /\ Stands(w, "import", "save")
  BY DEF ImportCheck, Stands
<1>4. /\ \A x \in Posters \ {w} : post'[x] = post[x]
      /\ post'[w].op = "import" /\ post'[w].at = "add" /\ post'[w].got = got
      /\ ~together => \A x \in Posters \ {w} : Free(x) /\ post[x].c = {}
      /\ ~together => post[w].seen = markers
      /\ JobShape' /\ OneJob' /\ OursAreMarked' /\ TheirsComeOnce' /\ ClosedWasDiscarded'
      /\ CommentNotDropped'
  BY <1>1, <1>2, <1>3, ImportGoesOn DEF ImportCheck
<1>5. PollIsNew'
  <2> SUFFICES ASSUME ~together PROVE PollIsNew'
    BY DEF PollIsNew, ImportCheck
  <2>1. \A c \in got \cap Comments : c \in unmarked
    BY <1>2, <1>3, <1>4 DEF CommentBond, PollIsNew, IsNew
  <2>2. \A r \in got \cap Replies : imports[r] = 0
    BY <1>2 DEF IsNew
  <2>3. \A x \in Posters \ {w} : ~Stands(x, "import", "save")' /\ ~Stands(x, "import", "add")'
    BY <1>4 DEF Stands, Free
  <2> QED BY <1>4, <2>1, <2>2, <2>3 DEF PollIsNew, Stands, ImportCheck
<1> QED BY <1>4, <1>5 DEF CommentBond

LEMMA ImportSaveKeepsBond ==
  ASSUME CommentTypeOK, CommentBond, NEW w \in Posters, ImportSave(w) PROVE CommentBond'
<1>1. Rest(w) /\ Stands(w, "import", "add") /\ ~Free(w) /\ post[w].c = {}
  BY DEF ImportSave, Stands, Free, CommentBond, JobShape
<1>2. /\ Free(w)' /\ post'[w].op = "idle" /\ post'[w].c = {}
      /\ \A x \in Posters \ {w} : post'[x] = post[x]
      /\ JobShape'
      /\ ~together => \A x \in Posters : Free(x)' /\ post'[x].op = "idle"
      /\ ~together => \A x \in Posters \ {w} : Free(x) /\ post[x].c = {}
  BY <1>1, RestLeavesOthers
<1>3. /\ \A c \in Comments \cup Replies :
            imports'[c] = IF c \in post[w].got THEN imports[c] + 1 ELSE imports[c]
      /\ together' = together
  BY DEF ImportSave
<1>4. ~together => \A c \in Comments \ unmarked : imports'[c] = imports[c]
  <2>1. ~together => \A c \in Comments \ unmarked : c \notin post[w].got
    BY <1>1 DEF CommentBond, PollIsNew
  <2> QED BY <1>3, <2>1
<1>5. ~together => \A r \in Replies : imports'[r] <= 1
  <2>1. ~together => \A r \in Replies : imports[r] <= 1 /\ (r \in post[w].got => imports[r] = 0)
    BY <1>1 DEF CommentBond, PollIsNew, TheirsComeOnce
  <2> QED BY <1>3, <2>1
<1>6. OneJob' /\ PollIsNew' /\ TheirsComeOnce' /\ ClosedWasDiscarded'
  BY <1>2, <1>5 DEF CommentBond, OneJob, PollIsNew, TheirsComeOnce, ClosedWasDiscarded, ImportSave, Stands, Free
<1>7. OursAreMarked'
  <2>1. ~together => \A x \in Posters : ~Stands(x, "post", "mark") /\ ~Stands(x, "post", "call")'
    BY <1>1, <1>2 DEF Stands, Free
  <2> QED BY <1>4, <2>1 DEF CommentBond, OursAreMarked, ImportSave
<1>8. CommentNotDropped'
  BY <1>1, <1>2 DEF CommentBond, CommentNotDropped, SlipIsOpen, ImportSave
<1> QED BY <1>2, <1>6, <1>7, <1>8 DEF CommentBond

(* A worker is killed.                                                       *)
LEMMA KillPostKeepsBond ==
  ASSUME CommentTypeOK, CommentBond, NEW w \in Posters, KillPost(w) PROVE CommentBond'
<1>1. Rest(w) /\ ~Free(w)
  BY DEF KillPost
<1>2. /\ Free(w)' /\ post'[w].op = "idle" /\ post'[w].c = {}
      /\ \A x \in Posters \ {w} : post'[x] = post[x]
      /\ JobShape'
      /\ ~together => \A x \in Posters : Free(x)' /\ post'[x].op = "idle"
      /\ ~together => \A x \in Posters \ {w} : Free(x) /\ post[x].c = {}
  BY <1>1, RestLeavesOthers
<1>3. OneJob' /\ PollIsNew' /\ TheirsComeOnce' /\ ClosedWasDiscarded'
  BY <1>2 DEF CommentBond, OneJob, PollIsNew, TheirsComeOnce, ClosedWasDiscarded, KillPost, Stands, Free
<1>4. OursAreMarked'
  <2> SUFFICES ASSUME ~together, NEW c \in Comments \ unmarked'
               PROVE  /\ copies'[c] <= 1 /\ imports'[c] = 0
                      /\ copies'[c] > 0 => c \in markers'
                      /\ \A x \in Posters : ~Stands(x, "post", "call")'
    BY DEF OursAreMarked, KillPost
  <2>1. c \notin unmarked /\ (Stands(w, "post", "mark") => c \notin post[w].c)
    BY DEF KillPost
  <2>2. /\ copies[c] <= 1 /\ imports[c] = 0
        /\ copies[c] > 0 => c \in markers \/ \E x \in Posters : Stands(x, "post", "mark") /\ c \in post[x].c
    BY <2>1 DEF CommentBond, OursAreMarked
  <2>3. \A x \in Posters : ~Stands(x, "post", "call")'
    BY <1>2 DEF Stands
  <2> QED BY <1>2, <2>1, <2>2, <2>3 DEF KillPost
<1>5. CommentNotDropped'
  BY <1>2 DEF CommentBond, CommentNotDropped, SlipIsOpen, KillPost
<1> QED BY <1>2, <1>3, <1>4, <1>5 DEF CommentBond

LEMMA CommentBondKept == CommentTypeOK /\ CommentBond /\ [CommentNext]_commentVars => CommentBond'
<1> SUFFICES ASSUME CommentTypeOK, CommentBond, [CommentNext]_commentVars PROVE CommentBond'
  OBVIOUS
<1>1. ASSUME NEW c \in Comments, Write(c) \/ SlipDue(c) \/ DiscardSlip(c) PROVE CommentBond'
  BY <1>1, WriteKeepsBond, SlipDueKeepsBond, DiscardKeepsBond
<1>2. ASSUME NEW r \in Replies, Reply(r) PROVE CommentBond'
  BY <1>2, ReplyKeepsBond
<1>3. ASSUME NEW w \in Posters, NEW c \in Comments, TakePost(w, c) PROVE CommentBond'
  <2>1. /\ Free(w) /\ StartPost(w, c) /\ c \in toPost /\ toPost' = toPost \ {c}
        /\ UNCHANGED <<written, copies, markers, imports, slip, postFaults, unmarked, forgotten>>
    BY <1>3 DEF TakePost
  <2> QED BY <2>1, StartKeepsBond
<1>4. ASSUME NEW w \in Posters, NEW c \in Comments, ReplaySlip(w, c) PROVE CommentBond'
  <2>1. /\ Free(w) /\ StartPost(w, c) /\ SlipIsOpen(c) /\ toPost' = toPost
        /\ UNCHANGED <<written, copies, markers, imports, slip, postFaults, unmarked, forgotten>>
    BY <1>4 DEF ReplaySlip, SlipIsOpen
  <2> QED BY <2>1, StartKeepsBond
<1>5. ASSUME NEW w \in Posters, PostCall(w) \/ PostMark(w) \/ PostRecord(w) PROVE CommentBond'
  BY <1>5, PostCallKeepsBond, PostMarkKeepsBond, PostRecordKeepsBond
<1>6. ASSUME NEW w \in Posters, ImportRead(w) \/ ImportFetch(w) \/ ImportCheck(w) \/ ImportSave(w)
      PROVE  CommentBond'
  BY <1>6, ImportReadKeepsBond, ImportFetchKeepsBond, ImportCheckKeepsBond, ImportSaveKeepsBond
<1>7. ASSUME NEW w \in Posters, PostRefused(w) PROVE CommentBond'
  <2>1. /\ Stands(w, "post", "call") /\ Go(w, "record") /\ UNCHANGED <<copies, unmarked>>
        /\ UNCHANGED <<written, toPost, markers, imports, slip, together, forgotten>>
    BY <1>7 DEF PostRefused
  <2> QED BY <2>1, PostFailsKeepsBond
<1>8. ASSUME NEW w \in Posters, PostAnswerLost(w) PROVE CommentBond'
  <2>1. /\ Stands(w, "post", "call") /\ Go(w, "record")
        /\ copies' = Posted(w) /\ unmarked' = unmarked \cup post[w].c
        /\ UNCHANGED <<written, toPost, markers, imports, slip, together, forgotten>>
    BY <1>8 DEF PostAnswerLost
  <2> QED BY <2>1, PostFailsKeepsBond
<1>9. ASSUME NEW w \in Posters, KillPost(w) PROVE CommentBond'
  BY <1>9, KillPostKeepsBond
<1>10. CASE UNCHANGED commentVars
  BY <1>10 DEF commentVars, CommentBond, JobShape, OneJob, OursAreMarked, PollIsNew, TheirsComeOnce,
               ClosedWasDiscarded, CommentNotDropped, Stands, Free, SlipIsOpen
<1> QED BY <1>1, <1>2, <1>3, <1>4, <1>5, <1>6, <1>7, <1>8, <1>9, <1>10 DEF CommentNext, PosterSteps

(* A comment crosses over, and once: while no two jobs of the report         *)
(* overlapped the vendor has one copy of a comment of ours and none comes    *)
(* back as theirs, and one of theirs is imported once; and no comment is     *)
(* dropped without a row of the backlog (_push_comment, _import_comments).   *)
THEOREM CommentCrossesOnce == CommentSpec => []EachCommentOnce
<1>1. CommentInit => CommentBond
  BY CommentBondStarts
<1>2. CommentTypeOK /\ CommentBond /\ [CommentNext]_commentVars => CommentBond'
  BY CommentBondKept
<1>3. CommentTypeOK /\ CommentBond => EachCommentOnce
  BY DEF CommentBond, OursAreMarked, TheirsComeOnce, EachCommentOnce, NoEchoAlone
<1> QED BY <1>1, <1>2, <1>3, CommentTyped, PTL DEF CommentSpec

-------------------------------------------------------------------------------
(* The priority of one report (PrioritySync).                                *)

LockedByOne == \A x, y \in Senders : sender[x].locked /\ sender[y].locked => x = y

(* Where a worker is says what it holds and what the report is.              *)
SenderShape(w) ==
  /\ IsAt(w, "file") => sender[w].locked /\ ~joined
  /\ IsAt(w, "follow") \/ IsAt(w, "call") \/ IsAt(w, "clear") \/ IsAt(w, "record") => joined
  /\ sender[w].again => IsAt(w, "wait") /\ judged /\ joined
  /\ IsAt(w, "wait") \/ IsAt(w, "file") \/ IsAt(w, "follow") => ~sender[w].replay

(* A handler sets a priority, never takes it away.                           *)
RaterShape(d) ==
  /\ rater[d].at # "idle" => rater[d].want # NoScore /\ (rater[d].saw # NoScore => manual # NoScore)
  /\ rater[d].at = "queue" => manual # NoScore

(* Until staff set a priority none but the AI's can have been sent, and none *)
(* before triage.                                                            *)
Unrated ==
  manual = NoScore =>
    /\ waiting.push = 0
    /\ \A w \in Senders : InSend(w) => sender[w].score = PriorityNow
    /\ ~judged => /\ unsent = "none"
                  /\ \A w \in Senders : /\ ~InSend(w) /\ ~IsAt(w, "read")
                                        /\ IsAt(w, "file") \/ IsAt(w, "follow") => sender[w].score = DefaultScore

PriorityShape ==
  /\ LockedByOne
  /\ \A w \in Senders : SenderShape(w)
  /\ \A d \in Raters : RaterShape(d)
  /\ ~judged => suggested = NoScore /\ waiting.sync = 0
  /\ Unrated

(* While no two sends overlapped one worker at most has read what it sends,  *)
(* and what it sent is what the vendor shows.                                *)
OneSends ==
  ~overtaken => /\ \A x, y \in Senders : InSend(x) /\ InSend(y) => x = y
                /\ \A w \in Senders : IsAt(w, "clear") => shown = sender[w].score

(* A worker that will send the priority as it is, or record that it failed to.*)
Carries(w) ==
  /\ sender[w].op # "idle" /\ ~sender[w].replay
  /\ \/ sender[w].again \/ sender[w].at \in {"read", "record"}
     \/ sender[w].at \in {"links", "call"} /\ sender[w].score = PriorityNow
     \/ sender[w].at = "follow" /\ sender[w].score # PriorityNow

(* The vendor is going to be told.                                           *)
Coming ==
  \/ waiting.push > 0 \/ unsent # "none" \/ \E d \in Raters : rater[d].at = "queue"
  \/ waiting.sync > 0 /\ NeedsUpdate
  \/ \E w \in Senders : Carries(w)

ShownOrComing ==
  joined /\ ~overtaken /\ ~skipped /\ ~unpushed =>
    /\ shown = PriorityNow \/ Coming
    /\ \A w \in Senders : IsAt(w, "links") \/ IsAt(w, "call") => sender[w].score = PriorityNow \/ Coming

PriorityBond == PriorityShape /\ OneSends /\ ShownOrComing

SenderStates == [op : {"idle", "first", "sync", "send"},
                 at : {"wait", "file", "follow", "read", "links", "call", "clear", "record"},
                 score : MaybeScore, again : BOOLEAN, locked : BOOLEAN, replay : BOOLEAN]

RaterStates == [at : {"idle", "update", "accept", "queue"}, want : MaybeScore,
                saw : MaybeScore, old : MaybeScore]

LEMMA IdleSenderIs ==
  /\ IdleSender \in SenderStates
  /\ IdleSender.op = "idle" /\ IdleSender.at = "wait" /\ IdleSender.score = NoScore
  /\ IdleSender.again = FALSE /\ IdleSender.locked = FALSE /\ IdleSender.replay = FALSE
  /\ IdleRater \in RaterStates /\ IdleRater.at = "idle"
BY DEF IdleSender, SenderStates, IdleRater, RaterStates, MaybeScore

LEMMA PriorityTypes ==
  ASSUME PriorityTypeOK
  PROVE  /\ sender \in [Senders -> SenderStates] /\ rater \in [Raters -> RaterStates]
         /\ PriorityNow \in Scores /\ Scores \subseteq MaybeScore
BY DefaultIsAScore DEF PriorityTypeOK, SenderStates, RaterStates, PriorityNow, Effective, MaybeScore

(* The lock is one worker's: so it counts one at most.                       *)
LEMMA LockIsOnes ==
  ASSUME NEW S, NEW f, \A x, y \in S : f[x].locked /\ f[y].locked => x = y
  PROVE  Cardinality({w \in S : f[w].locked}) <= 1
<1> DEFINE L == {w \in S : f[w].locked}
<1>1. CASE L = {}
  BY <1>1, FS_EmptySet
<1>2. CASE L # {}
  <2>1. PICK x \in L : TRUE
    BY <1>2
  <2>2. L = {x}
    BY <2>1
  <2>3. Cardinality({x}) = 1
    BY FS_Singleton
  <2>4. Cardinality(L) = 1
    BY <2>2, <2>3, Zenon
  <2> QED BY <2>4
<1> QED BY <1>1, <1>2

LEMMA TypesFromParts ==
  ASSUME manual' \in MaybeScore /\ suggested' \in MaybeScore /\ shown' \in MaybeScore,
         judged' \in BOOLEAN /\ joined' \in BOOLEAN,
         rater' \in [Raters -> RaterStates],
         ratings' \in 0..MaxRatings /\ sendFaults' \in 0..MaxSendFaults,
         waiting' \in [first : Nat, sync : Nat, push : Nat],
         sender' \in [Senders -> SenderStates],
         LockedByOne',
         unsent' \in {"none", "later", "due"},
         unpushed' \in BOOLEAN /\ overtaken' \in BOOLEAN /\ skipped' \in BOOLEAN
  PROVE  PriorityTypeOK'
<1>1. Cardinality({w \in Senders : sender'[w].locked}) <= 1
  BY LockIsOnes DEF LockedByOne
<1> QED BY <1>1 DEF PriorityTypeOK, RaterStates, SenderStates

LEMMA SendFaultCounts ==
  ASSUME PriorityTypeOK, SendFault
  PROVE  sendFaults' \in 0..MaxSendFaults
BY RatingsAreNat DEF PriorityTypeOK, SendFault

(* What no worker does leaves them as they are.                              *)
LEMMA WorkersRest ==
  ASSUME PriorityBond, UNCHANGED <<sender, joined, shown, overtaken>>, judged => judged'
  PROVE  LockedByOne' /\ (\A w \in Senders : SenderShape(w)') /\ OneSends'
BY DEF PriorityBond, PriorityShape, LockedByOne, SenderShape, OneSends, IsAt, InSend

LEMMA TriageKeeps ==
  ASSUME PriorityTypeOK, PriorityBond, TriageEnds
  PROVE  PriorityTypeOK' /\ PriorityBond'
<1>1. /\ ~judged /\ judged' = TRUE /\ suggested' \in MaybeScore
      /\ UNCHANGED <<manual, rater, ratings, sender, joined, shown, unsent, unpushed, overtaken>>
  BY DEF TriageEnds
<1>2. \/ waiting' = [waiting EXCEPT !.sync = @ + 1] /\ UNCHANGED <<sendFaults, skipped>>
      \/ SendFault /\ skipped' = TRUE /\ UNCHANGED waiting
  BY DEF TriageEnds
<1>3. LockedByOne' /\ (\A w \in Senders : SenderShape(w)') /\ OneSends'
  BY <1>1, WorkersRest
<1>4. waiting' \in [first : Nat, sync : Nat, push : Nat] /\ waiting'.push = waiting.push
  BY <1>2 DEF PriorityTypeOK
<1>5. PriorityTypeOK'
  <2>1. sendFaults' \in 0..MaxSendFaults /\ skipped' \in BOOLEAN
    BY <1>2, SendFaultCounts DEF PriorityTypeOK
  <2> QED BY <1>1, <1>3, <1>4, <2>1, PriorityTypes, TypesFromParts DEF PriorityTypeOK
<1>6. PriorityShape'
  <2>1. \A d \in Raters : RaterShape(d)'
    BY <1>1 DEF PriorityBond, PriorityShape, RaterShape
  <2>2. manual = NoScore => \A w \in Senders : ~InSend(w)
    BY <1>1 DEF PriorityBond, PriorityShape, Unrated
  <2>3. Unrated'
    BY <1>1, <1>4, <2>2 DEF PriorityBond, PriorityShape, Unrated, InSend
  <2> QED BY <1>1, <1>3, <2>1, <2>3 DEF PriorityShape
<1>7. ShownOrComing'
  <2> SUFFICES ASSUME joined', ~overtaken', ~skipped', ~unpushed' PROVE ShownOrComing'
    BY DEF ShownOrComing
  <2>1. waiting' = [waiting EXCEPT !.sync = @ + 1] /\ skipped' = skipped
    BY <1>2
  <2>2. waiting'.sync > 0 /\ waiting.sync = 0 /\ suggested = NoScore
    BY <1>1, <2>1 DEF PriorityTypeOK, PriorityBond, PriorityShape
  <2>3. CASE manual = NoScore /\ suggested' # NoScore
    <3>1. Coming'
      BY <1>1, <2>2, <2>3 DEF Coming, NeedsUpdate
    <3> QED BY <3>1 DEF ShownOrComing
  <2>4. CASE manual # NoScore \/ suggested' = NoScore
    <3>1. PriorityNow' = PriorityNow
      BY <1>1, <2>2, <2>4 DEF PriorityNow, Effective
    <3>2. \A w \in Senders : Carries(w) => Carries(w)'
      BY <1>1, <3>1 DEF Carries
    <3>3. Coming => Coming'
      BY <1>1, <1>4, <2>2, <3>2 DEF Coming
    <3> QED BY <1>1, <2>1, <3>1, <3>3 DEF PriorityBond, ShownOrComing, IsAt
  <2> QED BY <2>3, <2>4
<1> QED BY <1>3, <1>5, <1>6, <1>7 DEF PriorityBond

(* A handler that has committed nothing yet.                                 *)
LEMMA RaterTurnKeeps ==
  ASSUME PriorityTypeOK, PriorityBond, NEW d \in Raters, NEW s \in RaterStates,
         rater' = [rater EXCEPT ![d] = s], ratings' \in 0..MaxRatings, sendFaults' \in 0..MaxSendFaults,
         s.at # "queue", skipped' = (skipped \/ rater[d].at = "queue"),
         s.at # "idle" => s.want # NoScore /\ (s.saw # NoScore => manual # NoScore),
         UNCHANGED <<manual, suggested, judged, waiting, sender, joined, shown, unsent, unpushed, overtaken>>
  PROVE  PriorityTypeOK' /\ PriorityBond'
<1>1. LockedByOne' /\ (\A w \in Senders : SenderShape(w)') /\ OneSends'
  BY WorkersRest
<1>2. /\ rater' \in [Raters -> RaterStates] /\ rater'[d] = s
      /\ \A x \in Raters \ {d} : rater'[x] = rater[x]
  BY PriorityTypes
<1>3. PriorityTypeOK'
  <2>1. skipped' \in BOOLEAN
    BY Zenon DEF PriorityTypeOK
  <2> QED BY <1>1, <1>2, <2>1, PriorityTypes, TypesFromParts DEF PriorityTypeOK
<1>4. PriorityNow' = PriorityNow
  BY DEF PriorityNow
<1>5. PriorityShape'
  <2>1. \A x \in Raters : RaterShape(x)'
    BY <1>2 DEF PriorityBond, PriorityShape, RaterShape
  <2>2. Unrated'
    BY <1>4 DEF PriorityBond, PriorityShape, Unrated, InSend, IsAt
  <2> QED BY <1>1, <2>1, <2>2 DEF PriorityBond, PriorityShape
<1>6. ShownOrComing'
  <2>1. \A w \in Senders : Carries(w) => Carries(w)'
    BY <1>4 DEF Carries
  <2>2. Coming => Coming' \/ skipped'
    BY <1>2, <2>1 DEF Coming, NeedsUpdate
  <2> QED BY <1>4, <2>2 DEF PriorityBond, ShownOrComing, IsAt
<1> QED BY <1>1, <1>3, <1>5, <1>6 DEF PriorityBond

(* A handler commits the priority it was asked for.                          *)
LEMMA RaterCommitsKeeps ==
  ASSUME PriorityTypeOK, PriorityBond, NEW d \in Raters, RaterCommits(d)
  PROVE  PriorityTypeOK' /\ PriorityBond'
<1> DEFINE pushes == rater[d].at = "accept" \/ PriorityChanged(d)
<1> DEFINE now == Effective(manual', suggested)
<1> DEFINE s == IF pushes THEN [rater[d] EXCEPT !.at = "queue"] ELSE IdleRater
<1>1. /\ rater[d].at \in {"update", "accept"}
      /\ manual' = IF rater[d].want = rater[d].saw THEN manual ELSE rater[d].want
      /\ rater' = [rater EXCEPT ![d] = s]
      /\ unpushed' = (unpushed \/ (~pushes /\ (now # PriorityNow \/ (joined /\ now # shown))))
      /\ UNCHANGED <<suggested, judged, ratings, waiting, sender, joined, shown, unsent, sendFaults,
                     overtaken, skipped>>
  BY DEF RaterCommits
<1>2. rater[d] \in RaterStates
  BY PriorityTypes
<1>3. s \in RaterStates /\ (pushes => s.at = "queue" /\ s.want = rater[d].want) /\ (~pushes => s.at = "idle")
  BY <1>2, IdleSenderIs DEF RaterStates
<1>4. manual' \in MaybeScore /\ manual' # NoScore
  BY <1>1, <1>2 DEF RaterStates, PriorityTypeOK, PriorityBond, PriorityShape, RaterShape
<1> HIDE DEF pushes, s
<1>5. /\ rater' \in [Raters -> RaterStates] /\ rater'[d] = s
      /\ \A x \in Raters \ {d} : rater'[x] = rater[x]
  BY <1>1, <1>3, PriorityTypes
<1>6. LockedByOne' /\ (\A w \in Senders : SenderShape(w)') /\ OneSends'
  BY <1>1, WorkersRest
<1>7. PriorityTypeOK'
  <2>1. unpushed' \in BOOLEAN
    BY <1>1, Zenon DEF PriorityTypeOK
  <2> QED BY <1>1, <1>4, <1>5, <1>6, <2>1, PriorityTypes, TypesFromParts DEF PriorityTypeOK
<1>8. PriorityShape'
  <2>1. \A x \in Raters : RaterShape(x)'
    BY <1>1, <1>3, <1>4, <1>5 DEF PriorityBond, PriorityShape, RaterShape
  <2>2. Unrated'
    BY <1>4 DEF Unrated
  <2> QED BY <1>1, <1>6, <2>1, <2>2 DEF PriorityBond, PriorityShape
<1>9. ShownOrComing'
  <2> SUFFICES ASSUME joined', ~overtaken', ~skipped', ~unpushed' PROVE ShownOrComing'
    BY DEF ShownOrComing
  <2>1. CASE pushes
    <3>1. Coming'
      BY <1>3, <1>5, <2>1 DEF Coming
    <3> QED BY <3>1 DEF ShownOrComing
  <2>2. CASE ~pushes
    <3>1. PriorityNow' = PriorityNow /\ shown' = PriorityNow'
      BY <1>1, <2>2 DEF PriorityNow
    <3>2. \A w \in Senders : Carries(w) => Carries(w)'
      BY <1>1, <3>1 DEF Carries
    <3>3. \A x \in Raters : rater[x].at = "queue" => rater'[x].at = "queue"
      BY <1>1, <1>5
    <3>4. manual # NoScore => (Coming => Coming')
      BY <1>1, <3>2, <3>3 DEF Coming, NeedsUpdate
    <3>5. manual = NoScore => \A w \in Senders : InSend(w) => sender[w].score = PriorityNow
      BY DEF PriorityBond, PriorityShape, Unrated
    <3>6. \A w \in Senders : IsAt(w, "links") \/ IsAt(w, "call") => sender[w].score = PriorityNow \/ Coming'
      <4>1. ~unpushed
        BY <1>1
      <4> QED BY <1>1, <3>4, <3>5, <4>1 DEF PriorityBond, ShownOrComing, IsAt, InSend
    <3> QED BY <1>1, <3>1, <3>6 DEF ShownOrComing, IsAt
  <2> QED BY <2>1, <2>2
<1> QED BY <1>6, <1>7, <1>8, <1>9 DEF PriorityBond

(* The push of the priority is queued, or recorded, or lost with the report  *)
(* not yet linked.                                                           *)
LEMMA RaterQueuesKeeps ==
  ASSUME PriorityTypeOK, PriorityBond, NEW d \in Raters, RaterQueues(d)
  PROVE  PriorityTypeOK' /\ PriorityBond'
<1>1. /\ rater[d].at = "queue" /\ rater' = [rater EXCEPT ![d] = IdleRater]
      /\ UNCHANGED <<manual, suggested, judged, ratings, sender, joined, shown, unpushed, overtaken, skipped>>
  BY DEF RaterQueues
<1>2. \/ waiting' = [waiting EXCEPT !.push = @ + 1] /\ UNCHANGED <<unsent, sendFaults>>
      \/ SendFault /\ UNCHANGED waiting /\ unsent' = IF joined THEN "later" ELSE unsent
  BY DEF RaterQueues
<1>3. /\ waiting' \in [first : Nat, sync : Nat, push : Nat] /\ unsent' \in {"none", "later", "due"}
      /\ sendFaults' \in 0..MaxSendFaults /\ (joined => waiting'.push > 0 \/ unsent' # "none")
      /\ waiting'.sync = waiting.sync
  BY <1>2, SendFaultCounts DEF PriorityTypeOK
<1>4. manual # NoScore
  BY <1>1 DEF PriorityBond, PriorityShape, RaterShape
<1>5. /\ rater' \in [Raters -> RaterStates] /\ rater'[d].at = "idle"
      /\ \A x \in Raters \ {d} : rater'[x] = rater[x]
  BY <1>1, PriorityTypes, IdleSenderIs
<1>6. LockedByOne' /\ (\A w \in Senders : SenderShape(w)') /\ OneSends'
  BY <1>1, WorkersRest
<1>7. PriorityTypeOK'
  BY <1>1, <1>3, <1>5, <1>6, PriorityTypes, TypesFromParts DEF PriorityTypeOK
<1>8. PriorityShape'
  <2>1. \A x \in Raters : RaterShape(x)'
    BY <1>1, <1>5 DEF PriorityBond, PriorityShape, RaterShape
  <2>2. Unrated'
    BY <1>1, <1>4 DEF Unrated
  <2> QED BY <1>1, <1>3, <1>6, <2>1, <2>2 DEF PriorityBond, PriorityShape
<1>9. ShownOrComing'
  BY <1>1, <1>3 DEF ShownOrComing, Coming
<1> QED BY <1>6, <1>7, <1>8, <1>9 DEF PriorityBond

LEMMA UnsentDueKeeps ==
  ASSUME PriorityTypeOK, PriorityBond, UnsentDue
  PROVE  PriorityTypeOK' /\ PriorityBond'
<1>1. /\ unsent = "later" /\ unsent' = "due"
      /\ UNCHANGED <<manual, suggested, judged, rater, ratings, waiting, sender, joined, shown,
                     sendFaults, unpushed, overtaken, skipped>>
  BY DEF UnsentDue
<1>2. LockedByOne' /\ (\A w \in Senders : SenderShape(w)') /\ OneSends'
  BY <1>1, WorkersRest
<1>3. PriorityTypeOK'
  BY <1>1, <1>2, PriorityTypes, TypesFromParts DEF PriorityTypeOK
<1>4. PriorityNow' = PriorityNow
  BY <1>1 DEF PriorityNow
<1>5. PriorityShape'
  BY <1>1, <1>2, <1>4 DEF PriorityBond, PriorityShape, RaterShape, Unrated, InSend, IsAt
<1>6. ShownOrComing'
  BY <1>1 DEF ShownOrComing, Coming
<1> QED BY <1>2, <1>3, <1>5, <1>6 DEF PriorityBond

(* One worker turns to another state; the others are where they were.        *)
LEMMA SenderTurns ==
  ASSUME PriorityTypeOK, NEW w \in Senders, NEW s \in SenderStates, sender' = [sender EXCEPT ![w] = s]
  PROVE  /\ sender' \in [Senders -> SenderStates]
         /\ sender'[w] = s
         /\ \A x \in Senders \ {w} : sender'[x] = sender[x]
BY PriorityTypes

LEMMA SenderGoes ==
  ASSUME PriorityTypeOK, NEW w \in Senders, To(w, "follow") \/ To(w, "call") \/ To(w, "clear") \/ To(w, "record")
  PROVE  /\ sender' \in [Senders -> SenderStates]
         /\ \A x \in Senders \ {w} : sender'[x] = sender[x]
         /\ sender'[w].op = sender[w].op /\ sender'[w].score = sender[w].score
         /\ sender'[w].again = sender[w].again /\ sender'[w].locked = sender[w].locked
         /\ sender'[w].replay = sender[w].replay
         /\ To(w, "follow") => sender'[w].at = "follow"
         /\ To(w, "call") => sender'[w].at = "call"
         /\ To(w, "clear") => sender'[w].at = "clear"
         /\ To(w, "record") => sender'[w].at = "record"
<1>1. PICK a \in {"follow", "call", "clear", "record"} : To(w, a)
  OBVIOUS
<1> DEFINE s == [sender[w] EXCEPT !.at = a]
<1>2. /\ s \in SenderStates /\ s.at = a /\ s.op = sender[w].op /\ s.score = sender[w].score
      /\ s.again = sender[w].again /\ s.locked = sender[w].locked /\ s.replay = sender[w].replay
  BY PriorityTypes DEF SenderStates
<1>3. sender' = [sender EXCEPT ![w] = s]
  BY <1>1 DEF To
<1> HIDE DEF s
<1>4. /\ sender' \in [Senders -> SenderStates] /\ sender'[w] = s
      /\ \A x \in Senders \ {w} : sender'[x] = sender[x]
  BY <1>2, <1>3, SenderTurns
<1>5. \A b \in {"follow", "call", "clear", "record"} : To(w, b) => sender'[w].at = b
  <2> SUFFICES ASSUME NEW b \in {"follow", "call", "clear", "record"}, To(w, b) PROVE sender'[w].at = b
    OBVIOUS
  <2>1. sender'[w] = [sender[w] EXCEPT !.at = b]
    BY PriorityTypes DEF To
  <2> QED BY <2>1, PriorityTypes DEF SenderStates
<1> QED BY <1>2, <1>4, <1>5

(* A filing ends: the worker rests, or sends the priority after all.         *)
LEMMA FilingEnds ==
  ASSUME PriorityTypeOK, NEW w \in Senders, FilingOver(w)
  PROVE  /\ sender' \in [Senders -> SenderStates]
         /\ \A x \in Senders \ {w} : sender'[x] = sender[x]
         /\ ~sender'[w].locked /\ ~sender'[w].again
         /\ \/ /\ sender[w].again /\ sender'[w].op = sender[w].op /\ sender'[w].at = "read"
               /\ sender'[w].replay = sender[w].replay
            \/ ~sender[w].again /\ sender'[w].op = "idle"
<1> DEFINE s == IF sender[w].again THEN [sender[w] EXCEPT !.at = "read", !.locked = FALSE, !.again = FALSE]
                ELSE IdleSender
<1>1. sender[w] \in SenderStates /\ sender' = [sender EXCEPT ![w] = s]
  BY PriorityTypes DEF FilingOver
<1>2. /\ s \in SenderStates /\ ~s.locked /\ ~s.again
      /\ sender[w].again => s.op = sender[w].op /\ s.at = "read" /\ s.replay = sender[w].replay
      /\ ~sender[w].again => s.op = "idle"
  BY <1>1, IdleSenderIs DEF SenderStates
<1> HIDE DEF s
<1>3. /\ sender' \in [Senders -> SenderStates] /\ sender'[w] = s
      /\ \A x \in Senders \ {w} : sender'[x] = sender[x]
  BY <1>1, <1>2, SenderTurns
<1> QED BY <1>1, <1>2, <1>3

LEMMA SenderIsDone ==
  ASSUME PriorityTypeOK, NEW w \in Senders, Ends(w)
  PROVE  /\ sender' \in [Senders -> SenderStates]
         /\ \A x \in Senders \ {w} : sender'[x] = sender[x]
         /\ sender'[w].op = "idle" /\ ~sender'[w].locked /\ ~sender'[w].again
BY IdleSenderIs, SenderTurns DEF Ends

(* What one worker's step leaves of the shape.                               *)
LEMMA WorkerKeepsShape ==
  ASSUME PriorityTypeOK, PriorityShape, NEW w \in Senders,
         \A x \in Senders \ {w} : sender'[x] = sender[x],
         UNCHANGED <<manual, suggested, judged, rater>>,
         joined' = joined \/ (joined' /\ sender[w].locked),
         sender'[w].locked => sender[w].locked \/ \A x \in Senders : ~sender[x].locked,
         SenderShape(w)',
         waiting'.sync = waiting.sync \/ judged,
         manual = NoScore => /\ waiting'.push = 0
                             /\ InSend(w)' => sender'[w].score = PriorityNow
                             /\ ~judged => /\ unsent' = "none" /\ ~InSend(w)' /\ ~IsAt(w, "read")'
                                           /\ IsAt(w, "file")' \/ IsAt(w, "follow")' => sender'[w].score = DefaultScore
  PROVE  PriorityShape'
<1>1. LockedByOne'
  BY DEF PriorityShape, LockedByOne
<1>2. \A x \in Senders : SenderShape(x)'
  BY DEF PriorityShape, LockedByOne, SenderShape, IsAt
<1>3. \A d \in Raters : RaterShape(d)'
  BY DEF PriorityShape, RaterShape
<1>4. PriorityNow' = PriorityNow
  BY DEF PriorityNow
<1>5. Unrated'
  BY <1>4 DEF PriorityShape, Unrated, InSend, IsAt
<1> QED BY <1>1, <1>2, <1>3, <1>5 DEF PriorityShape

(* A worker that goes on before it read, or after it sent, overlaps nobody;  *)
(* one that reads or sends alone does not either.                            *)
LEMMA WorkerKeepsOneSends ==
  ASSUME OneSends, NEW w \in Senders,
         \A x \in Senders \ {w} : sender'[x] = sender[x],
         overtaken => overtaken',
         ~overtaken' /\ InSend(w)' => \A x \in Senders \ {w} : ~InSend(x),
         ~overtaken' => shown' = shown \/ \A x \in Senders \ {w} : ~IsAt(x, "clear"),
         ~overtaken' /\ IsAt(w, "clear")' => shown' = sender'[w].score
  PROVE  OneSends'
BY DEF OneSends, InSend, IsAt

(* What is coming stays so, whatever the worker does, if it carries on.      *)
LEMMA ComingStays ==
  ASSUME PriorityTypeOK, NEW w \in Senders,
         \A x \in Senders \ {w} : sender'[x] = sender[x],
         UNCHANGED <<manual, suggested, rater>>,
         waiting.push > 0 => waiting'.push > 0 \/ Carries(w)',
         waiting.sync > 0 /\ NeedsUpdate => waiting'.sync > 0 \/ Carries(w)',
         unsent # "none" => unsent' # "none",
         Carries(w) => Carries(w)' \/ unsent' # "none"
  PROVE  /\ PriorityNow' = PriorityNow
         /\ Coming => Coming'
<1>1. PriorityNow' = PriorityNow
  BY DEF PriorityNow
<1>2. \A x \in Senders \ {w} : Carries(x) => Carries(x)'
  BY <1>1 DEF Carries
<1>3. Coming => Coming'
  BY <1>2 DEF Coming, NeedsUpdate
<1> QED BY <1>1, <1>3

(* ... and with it that the vendor shows the priority or is going to.        *)
LEMMA WorkerKeepsShown ==
  ASSUME ShownOrComing, NEW w \in Senders,
         \A x \in Senders \ {w} : sender'[x] = sender[x],
         UNCHANGED <<joined, unpushed>>, overtaken => overtaken', skipped => skipped',
         joined /\ ~overtaken' /\ ~skipped' /\ ~unpushed =>
           /\ PriorityNow' = PriorityNow /\ (Coming => Coming')
           /\ shown' = shown \/ shown' = PriorityNow \/ Coming'
           /\ (IsAt(w, "links")' \/ IsAt(w, "call")') => sender'[w].score = PriorityNow \/ Coming'
  PROVE  ShownOrComing'
BY DEF ShownOrComing, IsAt

(* A worker that ends leaves the rest of the shape as it was.                *)
LEMMA WorkerRests ==
  ASSUME PriorityTypeOK, PriorityBond, NEW w \in Senders,
         sender' \in [Senders -> SenderStates],
         \A x \in Senders \ {w} : sender'[x] = sender[x],
         ~sender'[w].locked, ~sender'[w].again, sender'[w].op = "idle",
         UNCHANGED <<manual, suggested, judged, rater, ratings, waiting, joined, shown, unpushed>>,
         sendFaults' \in 0..MaxSendFaults, unsent' \in {"none", "later", "due"},
         manual = NoScore /\ ~judged => unsent' \in {"none", unsent},
         overtaken => overtaken', overtaken' \in BOOLEAN, skipped' \in BOOLEAN
  PROVE  /\ PriorityTypeOK' /\ PriorityShape' /\ OneSends'
         /\ \A x \in Senders : (IsAt(x, "links")' \/ IsAt(x, "call")') => IsAt(x, "links") \/ IsAt(x, "call")
<1>1. SenderShape(w)' /\ ~InSend(w)' /\ ~IsAt(w, "clear")' /\ ~IsAt(w, "read")' /\ ~IsAt(w, "file")'
      /\ ~IsAt(w, "follow")' /\ ~IsAt(w, "links")' /\ ~IsAt(w, "call")'
  BY DEF SenderShape, InSend, IsAt
<1>2. PriorityShape'
  BY <1>1, WorkerKeepsShape DEF PriorityBond, PriorityShape, Unrated
<1>3. PriorityTypeOK'
  BY <1>2, PriorityTypes, TypesFromParts DEF PriorityTypeOK, PriorityShape
<1>4. OneSends'
  BY <1>1, WorkerKeepsOneSends DEF PriorityBond
<1> QED BY <1>1, <1>2, <1>3, <1>4 DEF IsAt

LEMMA WorkerRestsKeeps ==
  ASSUME PriorityTypeOK, PriorityBond, NEW w \in Senders,
         sender' \in [Senders -> SenderStates],
         \A x \in Senders \ {w} : sender'[x] = sender[x],
         ~sender'[w].locked, ~sender'[w].again, sender'[w].op = "idle",
         UNCHANGED <<manual, suggested, judged, rater, ratings, waiting, joined, shown, unsent,
                     unpushed, overtaken>>,
         sendFaults' \in 0..MaxSendFaults, skipped => skipped', skipped' \in BOOLEAN,
         joined /\ ~skipped' => ~Carries(w)
  PROVE  PriorityTypeOK' /\ PriorityBond'
<1>1. /\ PriorityTypeOK' /\ PriorityShape' /\ OneSends'
  BY WorkerRests DEF PriorityTypeOK
<1>2. ~IsAt(w, "links")' /\ ~IsAt(w, "call")'
  BY DEF IsAt
<1>3. joined /\ ~skipped' => PriorityNow' = PriorityNow /\ (Coming => Coming')
  BY ComingStays
<1>4. ShownOrComing'
  BY <1>2, <1>3, WorkerKeepsShown DEF PriorityBond
<1> QED BY <1>1, <1>4 DEF PriorityBond

(* A worker takes a task, or the due row.                                    *)
LEMMA TakeFirstKeeps ==
  ASSUME PriorityTypeOK, PriorityBond, NEW w \in Senders, TakeFirst(w)
  PROVE  PriorityTypeOK' /\ PriorityBond'
<1> DEFINE s == [IdleSender EXCEPT !.op = "first"]
<1>1. /\ sender[w].op = "idle" /\ waiting.first > 0 /\ waiting' = [waiting EXCEPT !.first = @ - 1]
      /\ sender' = [sender EXCEPT ![w] = s]
      /\ UNCHANGED <<manual, suggested, judged, rater, ratings, joined, shown, unsent, sendFaults,
                     unpushed, overtaken, skipped>>
  BY DEF TakeFirst
<1>2. s \in SenderStates /\ s.op = "first" /\ s.at = "wait" /\ ~s.again /\ ~s.locked /\ ~s.replay
  BY IdleSenderIs DEF SenderStates, IdleSender
<1> HIDE DEF s
<1>3. /\ sender' \in [Senders -> SenderStates] /\ sender'[w] = s
      /\ \A x \in Senders \ {w} : sender'[x] = sender[x]
  BY <1>1, <1>2, SenderTurns
<1>4. /\ waiting' \in [first : Nat, sync : Nat, push : Nat]
      /\ waiting'.push = waiting.push /\ waiting'.sync = waiting.sync
  BY <1>1 DEF PriorityTypeOK
<1>5. ~Carries(w) /\ ~InSend(w)' /\ ~IsAt(w, "clear")' /\ ~IsAt(w, "links")' /\ ~IsAt(w, "call")'
  BY <1>1, <1>2, <1>3 DEF Carries, InSend, IsAt
<1>6. SenderShape(w)'
  BY <1>1, <1>2, <1>3 DEF SenderShape, IsAt
<1>7. PriorityShape'
  BY <1>1, <1>2, <1>3, <1>4, <1>5, <1>6, WorkerKeepsShape DEF PriorityBond, PriorityShape, Unrated, IsAt
<1>8. PriorityTypeOK'
  BY <1>1, <1>3, <1>4, <1>7, PriorityTypes, TypesFromParts DEF PriorityTypeOK, PriorityShape
<1>9. OneSends'
  BY <1>1, <1>3, <1>5, WorkerKeepsOneSends DEF PriorityBond
<1>10. PriorityNow' = PriorityNow /\ (Coming => Coming')
  BY <1>1, <1>3, <1>4, <1>5, ComingStays
<1>11. ShownOrComing'
  BY <1>1, <1>3, <1>5, <1>10, WorkerKeepsShown DEF PriorityBond
<1> QED BY <1>7, <1>8, <1>9, <1>11 DEF PriorityBond

LEMMA TakeSyncKeeps ==
  ASSUME PriorityTypeOK, PriorityBond, NEW w \in Senders, TakeSync(w)
  PROVE  PriorityTypeOK' /\ PriorityBond'
<1> DEFINE s == [IdleSender EXCEPT !.op = "sync", !.again = joined /\ NeedsUpdate]
<1>1. /\ sender[w].op = "idle" /\ waiting.sync > 0 /\ waiting' = [waiting EXCEPT !.sync = @ - 1]
      /\ sender' = [sender EXCEPT ![w] = s]
      /\ UNCHANGED <<manual, suggested, judged, rater, ratings, joined, shown, unsent, sendFaults,
                     unpushed, overtaken, skipped>>
  BY DEF TakeSync
<1>2. /\ s \in SenderStates /\ s.op = "sync" /\ s.at = "wait" /\ s.again = (joined /\ NeedsUpdate)
      /\ ~s.locked /\ ~s.replay
  <2>1. (joined /\ NeedsUpdate) \in BOOLEAN
    BY Zenon
  <2> QED BY <2>1, IdleSenderIs DEF SenderStates, IdleSender
<1> HIDE DEF s
<1>3. /\ sender' \in [Senders -> SenderStates] /\ sender'[w] = s
      /\ \A x \in Senders \ {w} : sender'[x] = sender[x]
  BY <1>1, <1>2, SenderTurns
<1>4. /\ waiting' \in [first : Nat, sync : Nat, push : Nat] /\ waiting'.push = waiting.push
      /\ judged
  BY <1>1 DEF PriorityTypeOK, PriorityBond, PriorityShape
<1>5. ~Carries(w) /\ ~InSend(w)' /\ ~IsAt(w, "clear")' /\ ~IsAt(w, "links")' /\ ~IsAt(w, "call")'
  BY <1>1, <1>2, <1>3 DEF Carries, InSend, IsAt
<1>6. SenderShape(w)'
  BY <1>1, <1>2, <1>3, <1>4 DEF SenderShape, IsAt
<1>7. PriorityShape'
  BY <1>1, <1>2, <1>3, <1>4, <1>5, <1>6, WorkerKeepsShape DEF PriorityBond, PriorityShape, Unrated, IsAt
<1>8. PriorityTypeOK'
  BY <1>1, <1>3, <1>4, <1>7, PriorityTypes, TypesFromParts DEF PriorityTypeOK, PriorityShape
<1>9. OneSends'
  BY <1>1, <1>3, <1>5, WorkerKeepsOneSends DEF PriorityBond
<1>10. ASSUME joined PROVE PriorityNow' = PriorityNow /\ (Coming => Coming')
  <2>1. NeedsUpdate => Carries(w)'
    BY <1>2, <1>3, <1>10 DEF Carries
  <2> QED BY <1>1, <1>3, <1>4, <1>5, <2>1, ComingStays
<1>11. ShownOrComing'
  BY <1>1, <1>3, <1>5, <1>10, WorkerKeepsShown DEF PriorityBond
<1> QED BY <1>7, <1>8, <1>9, <1>11 DEF PriorityBond

LEMMA TakePushKeeps ==
  ASSUME PriorityTypeOK, PriorityBond, NEW w \in Senders, TakePush(w)
  PROVE  PriorityTypeOK' /\ PriorityBond'
<1> DEFINE s == [IdleSender EXCEPT !.op = "send", !.at = "read", !.replay = waiting' = waiting]
<1>1. /\ sender[w].op = "idle"
      /\ \/ waiting.push > 0 /\ waiting' = [waiting EXCEPT !.push = @ - 1]
         \/ unsent = "due" /\ UNCHANGED waiting
      /\ sender' = [sender EXCEPT ![w] = s]
      /\ UNCHANGED <<manual, suggested, judged, rater, ratings, joined, shown, unsent, sendFaults,
                     unpushed, overtaken, skipped>>
  BY DEF TakePush
<1>2. /\ s \in SenderStates /\ s.op = "send" /\ s.at = "read" /\ s.replay = (waiting' = waiting)
      /\ ~s.locked /\ ~s.again
  <2>1. (waiting' = waiting) \in BOOLEAN
    BY Zenon
  <2> QED BY <2>1, IdleSenderIs DEF SenderStates, IdleSender
<1> HIDE DEF s
<1>3. /\ sender' \in [Senders -> SenderStates] /\ sender'[w] = s
      /\ \A x \in Senders \ {w} : sender'[x] = sender[x]
  BY <1>1, <1>2, SenderTurns
<1>4. /\ waiting' \in [first : Nat, sync : Nat, push : Nat] /\ waiting'.sync = waiting.sync
      /\ waiting' = waiting \/ (waiting.push > 0 /\ waiting'.push = waiting.push - 1 /\ waiting' # waiting)
      /\ waiting'.push <= waiting.push /\ waiting'.push \in Nat /\ waiting.push \in Nat
  BY <1>1 DEF PriorityTypeOK
<1>5. ~Carries(w) /\ ~InSend(w)' /\ ~IsAt(w, "clear")' /\ ~IsAt(w, "links")' /\ ~IsAt(w, "call")'
      /\ ~IsAt(w, "file")' /\ ~IsAt(w, "follow")'
  BY <1>1, <1>2, <1>3 DEF Carries, InSend, IsAt
<1>6. SenderShape(w)'
  BY <1>1, <1>2, <1>3 DEF SenderShape, IsAt
<1>7. PriorityShape'
  <2>1. manual = NoScore => waiting'.push = 0 /\ judged
    BY <1>1, <1>4 DEF PriorityBond, PriorityShape, Unrated
  <2> QED BY <1>1, <1>2, <1>3, <1>4, <1>5, <1>6, <2>1, WorkerKeepsShape DEF PriorityBond
<1>8. PriorityTypeOK'
  BY <1>1, <1>3, <1>4, <1>7, PriorityTypes, TypesFromParts DEF PriorityTypeOK, PriorityShape
<1>9. OneSends'
  BY <1>1, <1>3, <1>5, WorkerKeepsOneSends DEF PriorityBond
<1>10. PriorityNow' = PriorityNow /\ (Coming => Coming')
  <2>1. waiting' # waiting => Carries(w)'
    BY <1>2, <1>3 DEF Carries
  <2> QED BY <1>1, <1>3, <1>4, <1>5, <2>1, ComingStays
<1>11. ShownOrComing'
  BY <1>1, <1>3, <1>5, <1>10, WorkerKeepsShown DEF PriorityBond
<1> QED BY <1>7, <1>8, <1>9, <1>11 DEF PriorityBond

(* The filing, under the report's lock.                                      *)
LEMMA FileReadsKeeps ==
  ASSUME PriorityTypeOK, PriorityBond, NEW w \in Senders, FileReads(w)
  PROVE  PriorityTypeOK' /\ PriorityBond'
<1>1. /\ IsAt(w, "wait") /\ \A x \in Senders : ~sender[x].locked
      /\ UNCHANGED <<manual, suggested, judged, rater, ratings, waiting, joined, shown, unsent,
                     sendFaults, unpushed, overtaken, skipped>>
  BY DEF FileReads
<1>2. CASE joined
  <2>1. FilingOver(w)
    BY <1>2 DEF FileReads
  <2>2. /\ sender' \in [Senders -> SenderStates]
        /\ \A x \in Senders \ {w} : sender'[x] = sender[x]
        /\ ~sender'[w].locked /\ ~sender'[w].again
        /\ \/ /\ sender[w].again /\ sender'[w].op = sender[w].op /\ sender'[w].at = "read"
              /\ sender'[w].replay = sender[w].replay
           \/ ~sender[w].again /\ sender'[w].op = "idle"
    BY <2>1, FilingEnds
  <2>3. /\ Carries(w) => sender[w].again /\ Carries(w)'
        /\ ~InSend(w)' /\ ~IsAt(w, "clear")' /\ ~IsAt(w, "links")' /\ ~IsAt(w, "call")'
        /\ ~IsAt(w, "file")' /\ ~IsAt(w, "follow")'
    BY <1>1, <2>2 DEF Carries, InSend, IsAt
  <2>4. SenderShape(w)' /\ (IsAt(w, "read")' => judged)
    BY <1>1, <2>2 DEF SenderShape, IsAt, PriorityBond, PriorityShape
  <2>5. PriorityShape'
    BY <1>1, <2>2, <2>3, <2>4, WorkerKeepsShape DEF PriorityBond, PriorityShape, Unrated
  <2>6. PriorityTypeOK'
    BY <1>1, <2>2, <2>5, PriorityTypes, TypesFromParts DEF PriorityTypeOK, PriorityShape
  <2>7. OneSends'
    BY <1>1, <2>2, <2>3, WorkerKeepsOneSends DEF PriorityBond
  <2>8. PriorityNow' = PriorityNow /\ (Coming => Coming')
    BY <1>1, <2>2, <2>3, ComingStays
  <2>9. ShownOrComing'
    BY <1>1, <2>2, <2>3, <2>8, WorkerKeepsShown DEF PriorityBond
  <2> QED BY <2>5, <2>6, <2>7, <2>9 DEF PriorityBond
<1>3. CASE ~joined
  <2> DEFINE s == [sender[w] EXCEPT !.at = "file", !.locked = TRUE, !.score = PriorityNow]
  <2>1. sender' = [sender EXCEPT ![w] = s]
    BY <1>3 DEF FileReads
  <2>2. /\ s \in SenderStates /\ s.op = sender[w].op /\ s.at = "file" /\ s.locked /\ s.score = PriorityNow
        /\ s.again = sender[w].again /\ s.replay = sender[w].replay
    BY PriorityTypes DEF SenderStates
  <2> HIDE DEF s
  <2>3. /\ sender' \in [Senders -> SenderStates] /\ sender'[w] = s
        /\ \A x \in Senders \ {w} : sender'[x] = sender[x]
    BY <2>1, <2>2, SenderTurns
  <2>4. ~InSend(w)' /\ ~IsAt(w, "clear")' /\ ~IsAt(w, "read")'
    BY <2>2, <2>3 DEF InSend, IsAt
  <2>5. SenderShape(w)' /\ (manual = NoScore /\ ~judged => PriorityNow = DefaultScore)
    BY <1>1, <1>3, <2>2, <2>3 DEF SenderShape, IsAt, PriorityBond, PriorityShape, PriorityNow, Effective
  <2>6. PriorityShape'
    BY <1>1, <2>2, <2>3, <2>4, <2>5, WorkerKeepsShape DEF PriorityBond, PriorityShape, Unrated
  <2>7. PriorityTypeOK'
    BY <1>1, <2>3, <2>6, PriorityTypes, TypesFromParts DEF PriorityTypeOK, PriorityShape
  <2>8. OneSends'
    BY <1>1, <2>3, <2>4, WorkerKeepsOneSends DEF PriorityBond
  <2>9. ShownOrComing'
    BY <1>1, <1>3 DEF ShownOrComing
  <2> QED BY <2>6, <2>7, <2>8, <2>9 DEF PriorityBond
<1> QED BY <1>2, <1>3

LEMMA FileFailsKeeps ==
  ASSUME PriorityTypeOK, PriorityBond, NEW w \in Senders, FileFails(w)
  PROVE  PriorityTypeOK' /\ PriorityBond'
<1>1. /\ IsAt(w, "file") /\ SendFault /\ FilingOver(w)
      /\ waiting' = [waiting EXCEPT !.first = @ + 1]
      /\ UNCHANGED <<manual, suggested, judged, rater, ratings, joined, shown, unsent,
                     unpushed, overtaken, skipped>>
  BY DEF FileFails
<1>2. ~joined /\ ~sender[w].again
  BY <1>1 DEF PriorityBond, PriorityShape, SenderShape, IsAt
<1>3. /\ sender' \in [Senders -> SenderStates]
      /\ \A x \in Senders \ {w} : sender'[x] = sender[x]
      /\ ~sender'[w].locked /\ ~sender'[w].again /\ sender'[w].op = "idle"
  BY <1>1, <1>2, FilingEnds
<1>4. waiting' \in [first : Nat, sync : Nat, push : Nat] /\ waiting'.push = waiting.push
      /\ waiting'.sync = waiting.sync
  BY <1>1 DEF PriorityTypeOK
<1>5. SenderShape(w)' /\ ~InSend(w)' /\ ~IsAt(w, "clear")' /\ ~IsAt(w, "read")' /\ ~IsAt(w, "file")'
      /\ ~IsAt(w, "follow")'
  BY <1>3 DEF SenderShape, InSend, IsAt
<1>6. PriorityShape'
  BY <1>1, <1>3, <1>4, <1>5, WorkerKeepsShape DEF PriorityBond, PriorityShape, Unrated
<1>7. PriorityTypeOK'
  BY <1>1, <1>3, <1>4, <1>6, SendFaultCounts, PriorityTypes, TypesFromParts DEF PriorityTypeOK, PriorityShape
<1>8. OneSends'
  BY <1>1, <1>3, <1>5, WorkerKeepsOneSends DEF PriorityBond
<1>9. ShownOrComing'
  BY <1>1, <1>2 DEF ShownOrComing
<1> QED BY <1>6, <1>7, <1>8, <1>9 DEF PriorityBond

(* The link is committed: nobody was sending, for there was no link.         *)
LEMMA FileLinksKeeps ==
  ASSUME PriorityTypeOK, PriorityBond, NEW w \in Senders, FileLinks(w)
  PROVE  PriorityTypeOK' /\ PriorityBond'
<1>1. /\ IsAt(w, "file") /\ joined' = TRUE /\ shown' = sender[w].score /\ To(w, "follow")
      /\ overtaken' = (overtaken \/ \E x \in Senders : IsAt(x, "links"))
      /\ UNCHANGED <<manual, suggested, judged, rater, ratings, waiting, unsent, sendFaults,
                     unpushed, skipped>>
  BY DEF FileLinks
<1>2. ~joined /\ sender[w].locked /\ ~sender[w].again /\ ~sender[w].replay
  BY <1>1 DEF PriorityBond, PriorityShape, SenderShape, IsAt
<1>3. /\ sender' \in [Senders -> SenderStates]
      /\ \A x \in Senders \ {w} : sender'[x] = sender[x]
      /\ sender'[w].op = sender[w].op /\ sender'[w].score = sender[w].score
      /\ sender'[w].again = sender[w].again /\ sender'[w].locked = sender[w].locked
      /\ sender'[w].replay = sender[w].replay /\ sender'[w].at = "follow"
  BY <1>1, SenderGoes
<1>4. SenderShape(w)' /\ ~InSend(w)' /\ ~IsAt(w, "clear")' /\ ~IsAt(w, "read")' /\ IsAt(w, "follow")'
  BY <1>1, <1>2, <1>3 DEF SenderShape, InSend, IsAt
<1>5. PriorityShape'
  BY <1>1, <1>2, <1>3, <1>4, WorkerKeepsShape DEF PriorityBond, PriorityShape, Unrated
<1>6. sender[w] \in SenderStates
  BY PriorityTypes
<1>7. PriorityTypeOK'
  <2>1. overtaken' \in BOOLEAN /\ shown' \in MaybeScore
    BY <1>1, <1>6, Zenon DEF PriorityTypeOK, SenderStates
  <2> QED BY <1>1, <1>3, <1>5, <2>1, PriorityTypes, TypesFromParts DEF PriorityTypeOK, PriorityShape
<1>8. \A x \in Senders : ~IsAt(x, "call") /\ ~IsAt(x, "clear")
  BY <1>2 DEF PriorityBond, PriorityShape, SenderShape
<1>9. OneSends'
  BY <1>1, <1>3, <1>4, <1>8, WorkerKeepsOneSends DEF PriorityBond
<1>10. ShownOrComing'
  <2> SUFFICES ASSUME ~overtaken' PROVE ShownOrComing'
    BY DEF ShownOrComing
  <2>1. \A x \in Senders : ~IsAt(x, "links")' /\ ~IsAt(x, "call")'
    BY <1>1, <1>3, <1>8 DEF IsAt
  <2>2. PriorityNow' = PriorityNow
    BY <1>1 DEF PriorityNow
  <2>3. ~sender[w].replay
    BY <1>1 DEF PriorityBond, PriorityShape, SenderShape
  <2>4. shown' = PriorityNow' \/ Coming'
    BY <1>1, <1>3, <1>4, <2>2, <2>3 DEF Coming, Carries, IsAt
  <2> QED BY <2>1, <2>4 DEF ShownOrComing
<1> QED BY <1>5, <1>7, <1>9, <1>10 DEF PriorityBond

(* A priority that moved while the report was filed is sent after all.       *)
LEMMA FollowUpKeeps ==
  ASSUME PriorityTypeOK, PriorityBond, NEW w \in Senders, FollowUpPriority(w)
  PROVE  PriorityTypeOK' /\ PriorityBond'
<1>1. /\ IsAt(w, "follow")
      /\ overtaken' = (overtaken \/ (MovedSince(w) /\ \E x \in Senders \ {w} : InSend(x)))
      /\ UNCHANGED <<manual, suggested, judged, rater, ratings, waiting, joined, shown, unsent,
                     sendFaults, unpushed, skipped>>
  BY DEF FollowUpPriority
<1>2. joined /\ ~sender[w].again /\ ~sender[w].replay
  BY <1>1 DEF PriorityBond, PriorityShape, SenderShape, IsAt
<1>3. overtaken' \in BOOLEAN
  BY <1>1, Zenon DEF PriorityTypeOK
<1>4. CASE MovedSince(w)
  <2> DEFINE s == [sender[w] EXCEPT !.at = "call", !.score = PriorityNow]
  <2>1. sender' = [sender EXCEPT ![w] = s]
    BY <1>4 DEF FollowUpPriority
  <2>2. /\ s \in SenderStates /\ s.op = sender[w].op /\ s.at = "call" /\ s.score = PriorityNow
        /\ s.again = sender[w].again /\ s.locked = sender[w].locked /\ s.replay = sender[w].replay
    BY PriorityTypes DEF SenderStates
  <2> HIDE DEF s
  <2>3. /\ sender' \in [Senders -> SenderStates] /\ sender'[w] = s
        /\ \A x \in Senders \ {w} : sender'[x] = sender[x]
    BY <2>1, <2>2, SenderTurns
  <2>4. ~IsAt(w, "clear")' /\ ~IsAt(w, "read")' /\ ~IsAt(w, "file")' /\ ~IsAt(w, "follow")' /\ Carries(w)'
    <3>1. PriorityNow' = PriorityNow
      BY <1>1 DEF PriorityNow
    <3> QED BY <1>1, <1>2, <2>2, <2>3, <3>1 DEF IsAt, Carries
  <2>5. SenderShape(w)'
    BY <1>1, <1>2, <2>2, <2>3 DEF SenderShape, IsAt
  <2>6. manual = NoScore => judged
    BY <1>1, <1>4 DEF PriorityBond, PriorityShape, Unrated, MovedSince, PriorityNow, Effective
  <2>7. PriorityShape'
    BY <1>1, <2>2, <2>3, <2>5, <2>6, WorkerKeepsShape DEF PriorityBond, PriorityShape, Unrated
  <2>8. PriorityTypeOK'
    BY <1>1, <1>3, <2>3, <2>7, PriorityTypes, TypesFromParts DEF PriorityTypeOK, PriorityShape
  <2>9. OneSends'
    BY <1>1, <1>4, <2>3, <2>4, WorkerKeepsOneSends DEF PriorityBond
  <2>10. PriorityNow' = PriorityNow /\ (Coming => Coming')
    BY <1>1, <2>3, <2>4, ComingStays
  <2>11. ShownOrComing'
    BY <1>1, <2>2, <2>3, <2>10, WorkerKeepsShown DEF PriorityBond
  <2> QED BY <2>7, <2>8, <2>9, <2>11 DEF PriorityBond
<1>5. CASE ~MovedSince(w)
  <2>1. FilingOver(w)
    BY <1>5 DEF FollowUpPriority
  <2>2. /\ sender' \in [Senders -> SenderStates]
        /\ \A x \in Senders \ {w} : sender'[x] = sender[x]
        /\ ~sender'[w].locked /\ ~sender'[w].again /\ sender'[w].op = "idle"
    BY <1>2, <2>1, FilingEnds
  <2>3. ~Carries(w)
    BY <1>1, <1>2, <1>5 DEF Carries, IsAt, MovedSince
  <2>4. overtaken' = overtaken
    BY <1>1, <1>5, Zenon DEF PriorityTypeOK
  <2> QED BY <1>1, <1>2, <2>2, <2>3, <2>4, WorkerRestsKeeps DEF PriorityTypeOK
<1> QED BY <1>4, <1>5

(* _push_priority reads the row.                                             *)
LEMMA SendReadsKeeps ==
  ASSUME PriorityTypeOK, PriorityBond, NEW w \in Senders, SendReads(w)
  PROVE  PriorityTypeOK' /\ PriorityBond'
<1> DEFINE s == [sender[w] EXCEPT !.at = "links", !.score = PriorityNow]
<1>1. /\ IsAt(w, "read") /\ sender' = [sender EXCEPT ![w] = s]
      /\ overtaken' = (overtaken \/ \E x \in Senders \ {w} : InSend(x))
      /\ UNCHANGED <<manual, suggested, judged, rater, ratings, waiting, joined, shown, unsent,
                     sendFaults, unpushed, skipped>>
  BY DEF SendReads
<1>2. /\ s \in SenderStates /\ s.op = sender[w].op /\ s.at = "links" /\ s.score = PriorityNow
      /\ s.again = sender[w].again /\ s.locked = sender[w].locked /\ s.replay = sender[w].replay
  BY PriorityTypes DEF SenderStates
<1> HIDE DEF s
<1>3. /\ sender' \in [Senders -> SenderStates] /\ sender'[w] = s
      /\ \A x \in Senders \ {w} : sender'[x] = sender[x]
  BY <1>1, <1>2, SenderTurns
<1>4. /\ ~IsAt(w, "clear")' /\ ~IsAt(w, "read")' /\ ~IsAt(w, "file")' /\ ~IsAt(w, "follow")'
      /\ Carries(w) => Carries(w)'
  <2>1. PriorityNow' = PriorityNow
    BY <1>1 DEF PriorityNow
  <2> QED BY <1>1, <1>2, <1>3, <2>1 DEF IsAt, Carries
<1>5. SenderShape(w)' /\ (manual = NoScore => judged)
  BY <1>1, <1>2, <1>3 DEF SenderShape, IsAt, PriorityBond, PriorityShape, Unrated
<1>6. PriorityShape'
  BY <1>1, <1>2, <1>3, <1>5, WorkerKeepsShape DEF PriorityBond, PriorityShape, Unrated
<1>7. PriorityTypeOK'
  <2>1. overtaken' \in BOOLEAN
    BY <1>1, Zenon DEF PriorityTypeOK
  <2> QED BY <1>1, <1>3, <1>6, <2>1, PriorityTypes, TypesFromParts DEF PriorityTypeOK, PriorityShape
<1>8. OneSends'
  BY <1>1, <1>3, <1>4, WorkerKeepsOneSends DEF PriorityBond
<1>9. PriorityNow' = PriorityNow /\ (Coming => Coming')
  BY <1>1, <1>3, <1>4, ComingStays
<1>10. ShownOrComing'
  BY <1>1, <1>2, <1>3, <1>9, WorkerKeepsShown DEF PriorityBond
<1> QED BY <1>6, <1>7, <1>8, <1>10 DEF PriorityBond

LEMMA SendLooksKeeps ==
  ASSUME PriorityTypeOK, PriorityBond, NEW w \in Senders, SendLooks(w)
  PROVE  PriorityTypeOK' /\ PriorityBond'
<1>1. /\ IsAt(w, "links")
      /\ UNCHANGED <<manual, suggested, judged, rater, ratings, waiting, joined, shown, unsent,
                     sendFaults, unpushed, overtaken, skipped>>
  BY DEF SendLooks
<1>2. CASE ~joined
  <2>1. Ends(w)
    BY <1>2 DEF SendLooks
  <2> QED BY <1>1, <1>2, <2>1, SenderIsDone, WorkerRestsKeeps DEF PriorityTypeOK
<1>3. CASE joined
  <2>1. To(w, "call")
    BY <1>3 DEF SendLooks
  <2>2. /\ sender' \in [Senders -> SenderStates]
        /\ \A x \in Senders \ {w} : sender'[x] = sender[x]
        /\ sender'[w].op = sender[w].op /\ sender'[w].score = sender[w].score
        /\ sender'[w].again = sender[w].again /\ sender'[w].locked = sender[w].locked
        /\ sender'[w].replay = sender[w].replay /\ sender'[w].at = "call"
    BY <2>1, SenderGoes
  <2>3. /\ ~IsAt(w, "clear")' /\ ~IsAt(w, "read")' /\ ~IsAt(w, "file")' /\ ~IsAt(w, "follow")'
        /\ InSend(w) /\ (Carries(w) => Carries(w)')
    <3>1. PriorityNow' = PriorityNow
      BY <1>1 DEF PriorityNow
    <3> QED BY <1>1, <2>2, <3>1 DEF IsAt, Carries, InSend
  <2>4. SenderShape(w)' /\ (manual = NoScore => judged)
    BY <1>1, <1>3, <2>2, <2>3 DEF SenderShape, IsAt, PriorityBond, PriorityShape, Unrated
  <2>5. PriorityShape'
    BY <1>1, <2>2, <2>3, <2>4, WorkerKeepsShape DEF PriorityBond, PriorityShape, Unrated
  <2>6. PriorityTypeOK'
    BY <1>1, <2>2, <2>5, PriorityTypes, TypesFromParts DEF PriorityTypeOK, PriorityShape
  <2>7. OneSends'
    <3>1. ~overtaken => \A x \in Senders \ {w} : ~InSend(x)
      BY <2>3 DEF PriorityBond, OneSends
    <3> QED BY <1>1, <2>2, <2>3, <3>1, WorkerKeepsOneSends DEF PriorityBond
  <2>8. PriorityNow' = PriorityNow /\ (Coming => Coming')
    BY <1>1, <2>2, <2>3, ComingStays
  <2>9. joined /\ ~overtaken /\ ~skipped /\ ~unpushed => sender'[w].score = PriorityNow \/ Coming'
    BY <1>1, <2>2, <2>8 DEF PriorityBond, ShownOrComing
  <2>10. ShownOrComing'
    BY <1>1, <2>2, <2>8, <2>9, WorkerKeepsShown DEF PriorityBond
  <2> QED BY <2>5, <2>6, <2>7, <2>10 DEF PriorityBond
<1> QED BY <1>2, <1>3

(* The vendor is told, or may have been: nobody else was in between.         *)
LEMMA SendCallsKeeps ==
  ASSUME PriorityTypeOK, PriorityBond, NEW w \in Senders, SendCalls(w) \/ SendFails(w)
  PROVE  PriorityTypeOK' /\ PriorityBond'
<1>1. /\ IsAt(w, "call") /\ shown' \in {shown, sender[w].score} /\ (To(w, "clear") \/ To(w, "record"))
      /\ To(w, "clear") => shown' = sender[w].score
      /\ overtaken' = (overtaken \/ \E x \in Senders \ {w} : InSend(x))
      /\ UNCHANGED <<manual, suggested, judged, rater, ratings, waiting, joined, unsent,
                     unpushed, skipped>>
  <2>1. CASE SendCalls(w)
    BY <2>1 DEF SendCalls
  <2>2. CASE SendFails(w)
    <3>1. To(w, "record") /\ ~To(w, "clear")
      <4>1. To(w, "record")
        BY <2>2 DEF SendFails
      <4> QED BY <4>1, SenderGoes
    <3> QED BY <2>2, <3>1 DEF SendFails
  <2> QED BY <2>1, <2>2
<1>2. sendFaults' \in 0..MaxSendFaults
  BY SendFaultCounts DEF SendCalls, SendFails, PriorityTypeOK
<1>3. /\ sender' \in [Senders -> SenderStates]
      /\ \A x \in Senders \ {w} : sender'[x] = sender[x]
      /\ sender'[w].op = sender[w].op /\ sender'[w].score = sender[w].score
      /\ sender'[w].again = sender[w].again /\ sender'[w].locked = sender[w].locked
      /\ sender'[w].replay = sender[w].replay
      /\ \/ sender'[w].at = "clear" /\ shown' = sender[w].score
         \/ sender'[w].at = "record"
  BY <1>1, SenderGoes
<1>4. /\ InSend(w) /\ joined /\ ~IsAt(w, "read")' /\ ~IsAt(w, "file")' /\ ~IsAt(w, "follow")'
      /\ ~IsAt(w, "links")' /\ ~IsAt(w, "call")' /\ (IsAt(w, "clear")' => shown' = sender'[w].score)
  BY <1>1, <1>3 DEF InSend, IsAt, PriorityBond, PriorityShape, SenderShape
<1>5. SenderShape(w)' /\ (manual = NoScore => judged)
  BY <1>1, <1>3, <1>4 DEF SenderShape, IsAt, PriorityBond, PriorityShape, Unrated
<1>6. PriorityShape'
  BY <1>1, <1>3, <1>4, <1>5, WorkerKeepsShape DEF PriorityBond, PriorityShape, Unrated
<1>7. PriorityTypeOK'
  <2>1. overtaken' \in BOOLEAN
    BY <1>1, Zenon DEF PriorityTypeOK
  <2>2. shown' \in MaybeScore
    BY <1>1, PriorityTypes DEF PriorityTypeOK, SenderStates
  <2> QED BY <1>1, <1>2, <1>3, <1>6, <2>1, <2>2, PriorityTypes, TypesFromParts DEF PriorityTypeOK, PriorityShape
<1>8. OneSends'
  <2>1. ~overtaken' => \A x \in Senders \ {w} : ~InSend(x) /\ ~IsAt(x, "clear")
    BY <1>1 DEF InSend, IsAt
  <2> QED BY <1>1, <1>3, <1>4, <2>1, WorkerKeepsOneSends DEF PriorityBond
<1>9. ShownOrComing'
  <2> SUFFICES ASSUME joined', ~overtaken', ~skipped', ~unpushed' PROVE ShownOrComing'
    BY DEF ShownOrComing
  <2>1. \A x \in Senders : ~IsAt(x, "links")' /\ ~IsAt(x, "call")'
    <3>1. \A x \in Senders \ {w} : ~InSend(x)
      BY <1>1
    <3>2. \A x \in Senders \ {w} : ~IsAt(x, "links")' /\ ~IsAt(x, "call")'
      BY <1>3, <3>1 DEF InSend, IsAt
    <3> QED BY <1>4, <3>2
  <2>2. /\ shown = PriorityNow \/ Coming
        /\ sender[w].score = PriorityNow \/ Coming
    BY <1>1, <1>4 DEF PriorityBond, ShownOrComing
  <2>3. PriorityNow' = PriorityNow
    BY <1>1 DEF PriorityNow
  <2>4. CASE Carries(w)'
    <3>1. Coming'
      BY <2>4 DEF Coming
    <3> QED BY <2>1, <3>1 DEF ShownOrComing
  <2>5. CASE ~Carries(w)' /\ ~Carries(w)
    <3>1. Coming => Coming'
      BY <1>1, <1>3, <2>5, ComingStays
    <3> QED BY <1>1, <2>1, <2>2, <2>3, <3>1 DEF ShownOrComing
  <2>6. CASE ~Carries(w)' /\ Carries(w)
    <3>1. sender[w].score = PriorityNow /\ ~sender[w].replay
      BY <1>1, <1>4, <2>6 DEF Carries, IsAt, PriorityBond, PriorityShape, SenderShape
    <3>2. shown' = PriorityNow'
      BY <1>1, <1>3, <2>3, <2>6, <3>1 DEF Carries, IsAt
    <3> QED BY <2>1, <3>2 DEF ShownOrComing
  <2> QED BY <2>4, <2>5, <2>6
<1> QED BY <1>6, <1>7, <1>8, <1>9 DEF PriorityBond

(* A send that landed takes the row with it.                                 *)
LEMMA SendClearsKeeps ==
  ASSUME PriorityTypeOK, PriorityBond, NEW w \in Senders, SendClears(w)
  PROVE  PriorityTypeOK' /\ PriorityBond'
<1>1. /\ IsAt(w, "clear") /\ FilingOver(w) /\ unsent' = "none"
      /\ overtaken' = (overtaken \/ (unsent # "none" /\ sender[w].score # PriorityNow))
      /\ UNCHANGED <<manual, suggested, judged, rater, ratings, waiting, joined, shown, sendFaults,
                     unpushed, skipped>>
  BY DEF SendClears
<1>2. joined /\ ~sender[w].again /\ InSend(w)
  BY <1>1 DEF PriorityBond, PriorityShape, SenderShape, IsAt, InSend
<1>3. /\ sender' \in [Senders -> SenderStates]
      /\ \A x \in Senders \ {w} : sender'[x] = sender[x]
      /\ ~sender'[w].locked /\ ~sender'[w].again /\ sender'[w].op = "idle"
  BY <1>1, <1>2, FilingEnds
<1>4. overtaken' \in BOOLEAN
  BY <1>1, Zenon DEF PriorityTypeOK
<1>5. /\ PriorityTypeOK' /\ PriorityShape' /\ OneSends'
      /\ \A x \in Senders : (IsAt(x, "links")' \/ IsAt(x, "call")') => IsAt(x, "links") \/ IsAt(x, "call")
  BY <1>1, <1>3, <1>4, WorkerRests DEF PriorityTypeOK
<1>6. ShownOrComing'
  <2> SUFFICES ASSUME joined', ~overtaken', ~skipped', ~unpushed' PROVE ShownOrComing'
    BY DEF ShownOrComing
  <2>1. ~overtaken /\ shown = sender[w].score
    BY <1>1 DEF PriorityBond, OneSends
  <2>2. PriorityNow' = PriorityNow
    BY <1>1 DEF PriorityNow
  <2>3. CASE unsent = "none"
    <3>1. ~Carries(w)
      BY <1>1, <1>2 DEF Carries, IsAt
    <3>2. Coming => Coming'
      BY <1>1, <1>3, <2>3, <3>1, ComingStays
    <3>3. \A x \in Senders : (IsAt(x, "links")' \/ IsAt(x, "call")') =>
             /\ IsAt(x, "links") \/ IsAt(x, "call")
             /\ sender'[x].score = sender[x].score
      BY <1>3, <1>5 DEF IsAt
    <3> QED BY <1>1, <2>1, <2>2, <3>2, <3>3 DEF PriorityBond, ShownOrComing
  <2>4. CASE unsent # "none"
    <3>1. shown' = PriorityNow'
      BY <1>1, <2>1, <2>2, <2>4
    <3>2. \A x \in Senders : ~IsAt(x, "links")' /\ ~IsAt(x, "call")'
      BY <1>2, <1>3, <1>5, <2>1 DEF PriorityBond, OneSends, InSend, IsAt
    <3> QED BY <3>1, <3>2 DEF ShownOrComing
  <2> QED BY <2>3, <2>4
<1> QED BY <1>5, <1>6 DEF PriorityBond

(* One that failed leaves a row.                                             *)
LEMMA SendRecordsKeeps ==
  ASSUME PriorityTypeOK, PriorityBond, NEW w \in Senders, SendRecords(w)
  PROVE  PriorityTypeOK' /\ PriorityBond'
<1>1. /\ IsAt(w, "record") /\ FilingOver(w) /\ unsent' = "later"
      /\ UNCHANGED <<manual, suggested, judged, rater, ratings, waiting, joined, shown, sendFaults,
                     unpushed, overtaken, skipped>>
  BY DEF SendRecords
<1>2. ~sender[w].again /\ (manual = NoScore => judged)
  BY <1>1 DEF PriorityBond, PriorityShape, SenderShape, Unrated, IsAt, InSend
<1>3. /\ sender' \in [Senders -> SenderStates]
      /\ \A x \in Senders \ {w} : sender'[x] = sender[x]
      /\ ~sender'[w].locked /\ ~sender'[w].again /\ sender'[w].op = "idle"
  BY <1>1, <1>2, FilingEnds
<1>4. PriorityTypeOK' /\ PriorityShape' /\ OneSends'
  BY <1>1, <1>2, <1>3, WorkerRests DEF PriorityTypeOK
<1>5. ShownOrComing'
  BY <1>1 DEF ShownOrComing, Coming
<1> QED BY <1>4, <1>5 DEF PriorityBond

(* A kill takes what the worker carried, unless the row is still there.      *)
LEMMA SenderDiesKeeps ==
  ASSUME PriorityTypeOK, PriorityBond, NEW w \in Senders, SenderDies(w)
  PROVE  PriorityTypeOK' /\ PriorityBond'
<1>1. /\ SendFault /\ Ends(w) /\ skipped' = (skipped \/ ~sender[w].replay)
      /\ UNCHANGED <<manual, suggested, judged, rater, ratings, waiting, joined, shown, unsent,
                     unpushed, overtaken>>
  BY DEF SenderDies
<1>2. /\ sender' \in [Senders -> SenderStates]
      /\ \A x \in Senders \ {w} : sender'[x] = sender[x]
      /\ sender'[w].op = "idle" /\ ~sender'[w].locked /\ ~sender'[w].again
  BY <1>1, SenderIsDone
<1>3. sendFaults' \in 0..MaxSendFaults
  BY <1>1, SendFaultCounts
<1>4. skipped' \in BOOLEAN
  BY <1>1, Zenon DEF PriorityTypeOK
<1>5. ~skipped' => ~Carries(w)
  BY <1>1 DEF Carries
<1> QED BY <1>1, <1>2, <1>3, <1>4, <1>5, WorkerRestsKeeps

(* Every step of the report's priority keeps what ties it together.          *)
LEMMA PriorityStep ==
  ASSUME PriorityTypeOK, PriorityBond, [PriorityNext]_priorityVars
  PROVE  PriorityTypeOK' /\ PriorityBond'
<1>1. ASSUME UNCHANGED priorityVars PROVE PriorityTypeOK' /\ PriorityBond'
  <2>1. LockedByOne' /\ (\A w \in Senders : SenderShape(w)') /\ OneSends'
    BY <1>1, WorkersRest DEF priorityVars
  <2>2. PriorityTypeOK'
    BY <1>1, <2>1, PriorityTypes, TypesFromParts DEF PriorityTypeOK, priorityVars
  <2>3. PriorityNow' = PriorityNow /\ (Coming => Coming')
    BY <1>1 DEF PriorityNow, Coming, Carries, NeedsUpdate, Effective, priorityVars
  <2>4. PriorityShape'
    BY <1>1, <2>1, <2>3 DEF PriorityBond, PriorityShape, RaterShape, Unrated, InSend, IsAt, priorityVars
  <2>5. ShownOrComing'
    BY <1>1, <2>3 DEF PriorityBond, ShownOrComing, IsAt, priorityVars
  <2> QED BY <2>1, <2>2, <2>4, <2>5 DEF PriorityBond
<1>2. CASE TriageEnds
  BY <1>2, TriageKeeps
<1>3. CASE UnsentDue
  BY <1>3, UnsentDueKeeps
<1>4. ASSUME NEW d \in Raters, RaterNext(d) PROVE PriorityTypeOK' /\ PriorityBond'
  <2>1. rater[d] \in RaterStates /\ sendFaults \in 0..MaxSendFaults /\ ratings \in 0..MaxRatings
    BY PriorityTypes DEF PriorityTypeOK
  <2>2. ratings < MaxRatings /\ ratings' = ratings + 1 => ratings' \in 0..MaxRatings
    BY <2>1, RatingsAreNat
  <2>3. ASSUME NEW score \in Scores, RaterLoads(d, score) PROVE PriorityTypeOK' /\ PriorityBond'
    <3> DEFINE s == [at |-> "update", want |-> score, saw |-> manual, old |-> PriorityNow]
    <3>1. s \in RaterStates /\ s.want # NoScore
      BY DefaultIsAScore, PriorityTypes DEF RaterStates, PriorityTypeOK
    <3>2. skipped' = (skipped \/ rater[d].at = "queue")
      BY <2>3, Zenon DEF RaterLoads, PriorityTypeOK
    <3> QED BY <2>1, <2>2, <2>3, <3>1, <3>2, RaterTurnKeeps DEF RaterLoads
  <2>4. CASE RaterAccepts(d)
    <3> DEFINE s == [at |-> "accept", want |-> suggested, saw |-> manual, old |-> PriorityNow]
    <3>1. s \in RaterStates /\ s.want # NoScore
      BY <2>4, PriorityTypes DEF RaterStates, PriorityTypeOK, RaterAccepts
    <3>2. skipped' = (skipped \/ rater[d].at = "queue")
      BY <2>4, Zenon DEF RaterAccepts, PriorityTypeOK
    <3> QED BY <2>1, <2>2, <2>4, <3>1, <3>2, RaterTurnKeeps DEF RaterAccepts
  <2>5. CASE RaterCommits(d)
    BY <2>5, RaterCommitsKeeps
  <2>6. CASE RaterQueues(d)
    BY <2>6, RaterQueuesKeeps
  <2>7. CASE RaterDies(d)
    <3>1. sendFaults' \in 0..MaxSendFaults
      BY <2>7, SendFaultCounts DEF RaterDies
    <3> QED BY <2>1, <2>7, <3>1, IdleSenderIs, RaterTurnKeeps DEF RaterDies
  <2> QED BY <1>4, <2>3, <2>4, <2>5, <2>6, <2>7 DEF RaterNext
<1>5. ASSUME NEW w \in Senders, SenderNext(w) PROVE PriorityTypeOK' /\ PriorityBond'
  BY <1>5, TakeFirstKeeps, TakeSyncKeeps, TakePushKeeps, FileReadsKeeps, FileFailsKeeps, FileLinksKeeps,
     FollowUpKeeps, SendReadsKeeps, SendLooksKeeps, SendCallsKeeps, SendClearsKeeps, SendRecordsKeeps,
     SenderDiesKeeps DEF SenderNext
<1> QED BY <1>1, <1>2, <1>3, <1>4, <1>5 DEF PriorityNext

LEMMA PriorityStarts ==
  ASSUME PriorityInit
  PROVE  PriorityTypeOK /\ PriorityBond
<1>1. /\ manual = NoScore /\ suggested = NoScore /\ judged = FALSE /\ shown = NoScore
      /\ joined = FALSE
      /\ rater = [d \in Raters |-> IdleRater] /\ ratings = 0
      /\ waiting = [first |-> 1, sync |-> 0, push |-> 0]
      /\ sender = [w \in Senders |-> IdleSender] /\ unsent = "none" /\ sendFaults = 0
      /\ unpushed = FALSE /\ overtaken = FALSE /\ skipped = FALSE
  BY DEF PriorityInit
<1>2. \A w \in Senders : sender[w].op = "idle" /\ ~sender[w].locked /\ ~sender[w].again
  BY <1>1, IdleSenderIs
<1>3. \A d \in Raters : rater[d].at = "idle"
  BY <1>1, IdleSenderIs
<1>4. PriorityTypeOK
  <2>1. Cardinality({w \in Senders : sender[w].locked}) <= 1
    BY <1>2, LockIsOnes
  <2>2. sender \in [Senders -> SenderStates] /\ rater \in [Raters -> RaterStates]
    BY <1>1, IdleSenderIs
  <2>3. ratings \in 0..MaxRatings /\ sendFaults \in 0..MaxSendFaults
    BY <1>1, RatingsAreNat
  <2>4. waiting \in [first : Nat, sync : Nat, push : Nat]
    BY <1>1
  <2>5. manual \in MaybeScore /\ suggested \in MaybeScore /\ shown \in MaybeScore
    BY <1>1 DEF MaybeScore
  <2> HIDE DEF PriorityInit
  <2> QED BY ONLY <1>1, <2>1, <2>2, <2>3, <2>4, <2>5 DEF PriorityTypeOK, SenderStates, RaterStates
<1>5. PriorityShape
  BY <1>1, <1>2, <1>3 DEF PriorityShape, LockedByOne, SenderShape, RaterShape, Unrated, InSend, IsAt
<1>6. OneSends /\ ShownOrComing
  BY <1>1, <1>2 DEF OneSends, ShownOrComing, InSend, IsAt
<1> QED BY <1>4, <1>5, <1>6 DEF PriorityBond

(* The priority, its backlog row and the jobs stay in their types; one worker*)
(* at most is inside the report's lock.                                      *)
THEOREM PriorityTyped == PrioritySpec => []PriorityTypeOK
<1>1. PriorityInit => PriorityTypeOK /\ PriorityBond
  BY PriorityStarts
<1>2. PriorityTypeOK /\ PriorityBond /\ [PriorityNext]_priorityVars => (PriorityTypeOK /\ PriorityBond)'
  BY PriorityStep
<1> QED BY <1>1, <1>2, PTL DEF PrioritySpec

(* Once all is quiet a linked work order shows the effective priority,       *)
(* whichever of triage, the first push, staff and the replay came first, but *)
(* for the histories the property names (_push_priority, _push_new_request,  *)
(* sync_after_triage, update_request_status, accept_ai_priority).            *)
THEOREM CrewsAreShown == PrioritySpec => []CrewsSeeThePriority
<1>1. PriorityInit => PriorityTypeOK /\ PriorityBond
  BY PriorityStarts
<1>2. PriorityTypeOK /\ PriorityBond /\ [PriorityNext]_priorityVars => (PriorityTypeOK /\ PriorityBond)'
  BY PriorityStep
<1>3. PriorityTypeOK /\ PriorityBond => CrewsSeeThePriority
  <2> SUFFICES ASSUME PriorityBond, PriorityQuiet, joined, ~overtaken, ~skipped, ~unpushed
               PROVE shown = PriorityNow
    BY DEF CrewsSeeThePriority
  <2>1. ~Coming
    BY DEF PriorityQuiet, Coming, Carries
  <2> QED BY <2>1 DEF PriorityBond, ShownOrComing
<1> QED BY <1>1, <1>2, <1>3, PTL DEF PrioritySpec

-------------------------------------------------------------------------------
(* The five modules side by side: what one of them does is a step of its own  *)
(* specification, and a stutter of the others'.  So the theorems above hold  *)
(* of the composition as well.                                               *)
THEOREM IntegrationsRunTheParts ==
  IntegrationsSpec => PushSpec /\ SyncSpec /\ CommentSpec /\ BreakerSpec /\ PrioritySpec
<1>1. IntegrationsInit => PushInit /\ SyncInit /\ CommentInit /\ BreakerInit /\ PriorityInit
  BY DEF IntegrationsInit
<1>2. [IntegrationsNext]_integrationsVars =>
        /\ [PushNext]_pushVars /\ [SyncNext]_syncVars /\ [CommentNext]_commentVars
        /\ [BreakerNext]_breakerVars /\ [PriorityNext]_priorityVars
  BY Zenon DEF IntegrationsNext, integrationsVars
<1> QED BY <1>1, <1>2, PTL DEF IntegrationsSpec, PushSpec, SyncSpec, CommentSpec, BreakerSpec, PrioritySpec

(* Whatever the run checks of the composition holds for every value of the   *)
(* constants: reports, statuses, comments, circuits and priorities, each as  *)
(* its module promises (tasks/integrations.py, services/circuit_breaker.py). *)
THEOREM IntegrationsHold ==
  ASSUME FaithfulVendor
  PROVE  IntegrationsSpec =>
           /\ [](/\ FiledOnce /\ NothingOwedSilently /\ QuietMeansAgreed /\ EachCommentOnce
                 /\ HalfOpenHolds /\ CrewsSeeThePriority)
           /\ OwnWordNotReadBack
<1>1. SyncSpec => []QuietMeansAgreed
  BY QuietIsAgreed
<1> QED BY <1>1, IntegrationsRunTheParts, ReportFiledOnce, PushLeavesATrace, OwnWordStays, CommentCrossesOnce,
           HalfOpenKept, CrewsAreShown, PTL

(* The type invariant of the composition.                                    *)
THEOREM IntegrationsTyped == IntegrationsSpec => []IntegrationsTypeOK
<1>1. PushTypeOK /\ SyncTypeOK /\ CommentTypeOK /\ BreakerTypeOK /\ PriorityTypeOK => IntegrationsTypeOK
  BY DEF IntegrationsTypeOK
<1> QED BY <1>1, IntegrationsRunTheParts, PushTyped, SyncTyped, CommentTyped, BreakerTyped, PriorityTyped, PTL
=============================================================================
