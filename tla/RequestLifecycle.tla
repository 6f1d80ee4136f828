-------------------------- MODULE RequestLifecycle --------------------------
(***************************************************************************)
(* What the console promises about one upgrade request, whoever calls in    *)
(* which order: it is filed, it may wait for a second admin, it is taken at *)
(* most once and only while ready, a dropped request is never taken, and a  *)
(* verdict is given once and kept.                                          *)
(***************************************************************************)
CONSTANT Requests

VARIABLES phase, verdict

vars == <<phase, verdict>>

Phases == {"absent", "waiting", "ready", "dropped", "taken", "finished"}
Verdicts == {"success", "failure"}

Init ==
  /\ phase = [r \in Requests |-> "absent"]
  /\ verdict = [r \in Requests |-> "none"]

Move(r, from, to) ==
  /\ phase[r] \in from
  /\ phase' = [phase EXCEPT ![r] = to]

File(r)    == (Move(r, {"absent"}, "waiting") \/ Move(r, {"absent"}, "ready")) /\ UNCHANGED verdict
Approve(r) == Move(r, {"waiting"}, "ready") /\ UNCHANGED verdict
Drop(r)    == Move(r, {"waiting", "ready"}, "dropped") /\ UNCHANGED verdict
Take(r)    == Move(r, {"ready"}, "taken") /\ UNCHANGED verdict
Finish(r)  == Move(r, {"taken"}, "finished")
              /\ \E v \in Verdicts : verdict' = [verdict EXCEPT ![r] = v]

Next == \E r \in Requests : File(r) \/ Approve(r) \/ Drop(r) \/ Take(r) \/ Finish(r)

Spec == Init /\ [][Next]_vars

(* The lease's promise: what was taken is finished. *)
FairSpec == Spec /\ \A r \in Requests : WF_vars(Finish(r))
=============================================================================
