---------------------------- MODULE PinnedRelease ----------------------------
(***************************************************************************)
(* What the host updater promises of one instance: its containers and its    *)
(* release.lock change only inside a run, everything it ever starts is       *)
(* trusted, and release.lock is only moved to a release that every service   *)
(* of the instance is running at that moment.                                *)
(***************************************************************************)
CONSTANT Trusted        \* releases whose signatures verify

VARIABLES
  pinned,      \* the release that release.lock names as current
  serving,     \* the releases the instance's services run
  busy         \* a run holds the instance

pinVars == <<pinned, serving, busy>>

Init == pinned \in Trusted /\ serving = {pinned} /\ busy = FALSE

Begin == ~ busy /\ busy' = TRUE /\ UNCHANGED <<pinned, serving>>

(* Containers move; the last command of a failed run may be the one that moved them. *)
Move == /\ busy /\ busy' \in BOOLEAN
        /\ serving' \in (SUBSET Trusted) \ {{}}
        /\ UNCHANGED pinned

Pin == busy /\ busy' = FALSE /\ serving = {pinned'} /\ UNCHANGED serving

Leave == busy /\ busy' = FALSE /\ UNCHANGED <<pinned, serving>>

Next == Begin \/ Move \/ Pin \/ Leave

Spec == Init /\ [][Next]_pinVars
=============================================================================
