---------------------------- MODULE MCCanvasHost ----------------------------
(* One canvas and its owner's row requests for TLC.                         *)
EXTENDS CanvasHost, TLC

CONSTANTS r1, r2, m1, m2, p1, p2, o1, o2, o3, bad

\* Slots, posters and good ops are interchangeable.
Symmetry == Permutations(Room) \cup Permutations(Poster) \cup Permutations(Op \ BadOp)
=============================================================================
