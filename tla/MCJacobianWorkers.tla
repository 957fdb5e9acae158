------------------------- MODULE MCJacobianWorkers -------------------------
(***************************************************************************)
(* Three workers sharing one Tri3 calculator under the external lock, with  *)
(* a one-point rule, on three                                              *)
(* elements whose Jacobians differ (1, 2) or vanish (degenerate), so that  *)
(* a buffer overwritten by the other worker's call is told apart and a     *)
(* failed TBOX_ASSERT is reached.                                          *)
(***************************************************************************)
EXTENDS JacobianWorkers

CONSTANTS w1, w2, w3

MCWorkers == {w1, w2, w3}
MCQPoints == [q \in 0 .. 0 |-> Vec2(0, 0)]
MCQWeights == [q \in 0 .. 0 |-> 1]
Triangle(x1, y2) == <<Vec2(0, 0), Vec2(x1, 0), Vec2(0, y2)>>
AsElement(t) == [n \in 0 .. 2 |-> t[n + 1]]
MCElements == {AsElement(Triangle(1, 1)), AsElement(Triangle(2, 1)),
               AsElement(Triangle(0, 1))}
=============================================================================
