----------------------------- MODULE MCRelease -----------------------------
(* An instance of Release for TLC.                                         *)
EXTENDS Release

CONSTANTS a, b, here, there

Sessions == {a, b}
Clones == {here, there}

\* The sessions are alike, and so are the clones.
Symmetry == Permutations(Sessions) \cup Permutations(Clones)

\* What follows has strayed as well, and the invariants say nothing of it.
InOrder == ~Strayed
=============================================================================
