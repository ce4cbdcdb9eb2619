-------------------------- MODULE MCBackgroundLease --------------------------
(* Small instances of BackgroundLease for TLC. *)
EXTENDS BackgroundLease, TLC

CONSTANTS p1, p2

MCProcs == {p1, p2}
MCSymmetry == Permutations(MCProcs)
==============================================================================
