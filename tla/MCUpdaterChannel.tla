--------------------------- MODULE MCUpdaterChannel ---------------------------
(* Small instances of UpdaterChannel for TLC. *)
EXTENDS UpdaterChannel, TLC

(* Poll passes that share a token are interchangeable, and so are handlers of *)
(* one kind and accounts.                                                    *)
ChannelSymmetry ==
  Permutations(Users) \cup Permutations(UpdaterSessions) \cup Permutations(Pollers)
=============================================================================
