------------------------ MODULE MCJacobianCalculator ------------------------
(***************************************************************************)
(* Model-checking instances of JacobianCalculator: for each element kind a *)
(* quadrature rule with integer (scaled) points and weights, and a set of  *)
(* elements that includes well-shaped, degenerate and inverted ones.       *)
(***************************************************************************)
EXTENDS JacobianCalculator

\* 3 x 3 tensor rule on {-1, 0, 1}^2 with Simpson weights, x fastest.
GridPts == <<-1, 0, 1>>
GridWts == <<1, 4, 1>>
TensorPoints == [q \in 0 .. 8 |-> Vec2(GridPts[(q % 3) + 1], GridPts[(q \div 3) + 1])]
TensorWeights == [q \in 0 .. 8 |-> GridWts[(q % 3) + 1] * GridWts[(q \div 3) + 1]]

\* Vertex rules on the reference triangle and tetrahedron.
TriPoints == <<Vec2(0, 0), Vec2(1, 0), Vec2(0, 1)>>
TetPoints == <<Vec3(0, 0, 0), Vec3(1, 0, 0), Vec3(0, 1, 0), Vec3(0, 0, 1)>>

MCNQ == CASE Kind = "Tri3" -> 3 [] Kind = "Tet4" -> 4
          [] Kind \in {"Quad4", "Quad9"} -> 9

MCQPoints == CASE Kind = "Tri3" -> [q \in 0 .. 2 |-> TriPoints[q + 1]]
               [] Kind = "Tet4" -> [q \in 0 .. 3 |-> TetPoints[q + 1]]
               [] Kind \in {"Quad4", "Quad9"} -> TensorPoints

MCQWeights == CASE Kind \in {"Tri3", "Tet4"} -> [q \in 0 .. MCNQ - 1 |-> 1]
                [] Kind \in {"Quad4", "Quad9"} -> TensorWeights

\* Quad9: libMesh's reference node positions shifted to {1, 2, 3}^2, with
\* one node moved by a unit step in any direction and a second one moved
\* diagonally or to the left.
Quad9Pos(k) == <<2, 4, 3>>[k + 1]
Quad9Ref == [n \in 0 .. 8 |-> Vec2(Quad9Pos(Quad9I0[n + 1]), Quad9Pos(Quad9I1[n + 1]))]
Step == [0 .. 1 -> -1 .. 1]
Moved(m1, d1, m2, d2) ==
  [n \in 0 .. 8 |-> [c \in 0 .. 1 |->
     Quad9Ref[n][c] + (IF n = m1 THEN d1[c] ELSE 0) + (IF n = m2 THEN d2[c] ELSE 0)]]

MCElements ==
  CASE Kind = "Tri3" -> [0 .. 2 -> [0 .. 1 -> 0 .. 2]]
    [] Kind = "Quad4" -> [0 .. 3 -> [0 .. 1 -> 0 .. 2]]
    [] Kind = "Tet4" -> [0 .. 3 -> [0 .. 2 -> 0 .. 1]]
    [] Kind = "Quad9" -> {Moved(m1, d1, m2, d2) : m1, m2 \in 0 .. 8, d1 \in Step,
                                                  d2 \in {Vec2(1, 1), Vec2(-1, 0)}}
=============================================================================
