--------------------------- MODULE MCUpdaterEngine ---------------------------
(* Instances of UpdaterEngine.  The chain is 1 -> 2 -> 3 and only 3 loses     *)
(* data.  patch and hotfix need no migration, new an additive one; contract   *)
(* carries the destructive one and no stamp of its window; unsigned is signed *)
(* by nobody.                                                                *)
EXTENDS UpdaterEngine, TLC

CONSTANTS old, patch, hotfix, new, contract, unsigned

Stamps ==
  [ version |-> old :> 1 @@ patch :> 2 @@ hotfix :> 3 @@ new :> 4 @@ contract :> 5 @@ unsigned :> 5,
    rev     |-> old :> 1 @@ patch :> 1 @@ hotfix :> 1 @@ new :> 2 @@ contract :> 3 @@ unsigned :> 2,
    window  |-> old :> {1} @@ patch :> {1} @@ hotfix :> {1} @@ new :> {1, 2} @@ contract :> {}
                  @@ unsigned :> {1, 2} ]

MCVersion == [r \in Releases |-> Stamps.version[r]]
MCRev == [r \in Releases |-> Stamps.rev[r]]
MCWindow == [r \in Releases |-> Stamps.window[r]]
MCDestructive == {3}
=============================================================================
