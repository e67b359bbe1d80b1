---------------------------- MODULE MCCanvasRoom ----------------------------
(* One canvas for TLC.                                                      *)
EXTENDS CanvasRoom, TLC

CONSTANTS r1, r2, m1, m2, p1, p2, o1, o2, o3, bad

\* Slots, members, posters and good ops are interchangeable.
Symmetry == Permutations(Room) \cup Permutations(Member) \cup Permutations(Poster)
            \cup Permutations(Op \ BadOp)
=============================================================================
