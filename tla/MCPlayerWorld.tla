---------------------------- MODULE MCPlayerWorld ----------------------------
(* Small instances of PlayerWorld for TLC. *)
EXTENDS PlayerWorld, TLC

\* a scene of 6 by 8 with cells of 2: neighbours one apart in different
\* cells, a position beyond the last row, and one just outside the scene
MCPos == {<<1, 1>>, <<2, 1>>, <<1, 7>>, <<6, 0>>}

\* Movers are interchangeable.
Symmetry == Permutations(Mover)
=============================================================================
