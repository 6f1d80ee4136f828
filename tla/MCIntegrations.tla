---------------------------- MODULE MCIntegrations ----------------------------
(* Small instances of the five modules about vendors, for TLC.  They share no *)
(* state, so a behaviour belongs to one of them: part says which, and the     *)
(* others rest in their initial state.                                       *)
EXTENDS ReportPush, StatusSync, CommentSync, CircuitBreaker, PrioritySync, TLC

CONSTANT Parts    \* the modules to run: "push", "status", "comments", "breaker", "priority"

VARIABLE part

(* A vendor with two words for an open record and one for a closed one.       *)
MCWordOut == "open" :> "Open" @@ "in_progress" :> "Open" @@ "closed" :> "Closed"
MCStatusIn == "Open" :> "open" @@ "Received" :> "open" @@ "Closed" :> "closed"

IntegrationsInit ==
  /\ part \in Parts
  /\ PushInit /\ SyncInit /\ CommentInit /\ BreakerInit /\ PriorityInit

IntegrationsNext ==
  \/ /\ part = "push" /\ PushNext
     /\ UNCHANGED <<part, syncVars, commentVars, breakerVars, priorityVars>>
  \/ /\ part = "status" /\ SyncNext
     /\ UNCHANGED <<part, pushVars, commentVars, breakerVars, priorityVars>>
  \/ /\ part = "comments" /\ CommentNext
     /\ UNCHANGED <<part, pushVars, syncVars, breakerVars, priorityVars>>
  \/ /\ part = "breaker" /\ BreakerNext
     /\ UNCHANGED <<part, pushVars, syncVars, commentVars, priorityVars>>
  \/ /\ part = "priority" /\ PriorityNext
     /\ UNCHANGED <<part, pushVars, syncVars, commentVars, breakerVars>>

integrationsVars == <<part, pushVars, syncVars, commentVars, breakerVars, priorityVars>>

IntegrationsSpec ==
  IntegrationsInit /\ [][IntegrationsNext]_integrationsVars /\ PushFairness

(* The type invariant of the part that runs; the others rest where they began. *)
IntegrationsTypeOK ==
  /\ part = "push" => PushTypeOK
  /\ part = "status" => SyncTypeOK
  /\ part = "comments" => CommentTypeOK
  /\ part = "breaker" => BreakerTypeOK
  /\ part = "priority" => PriorityTypeOK
=============================================================================
