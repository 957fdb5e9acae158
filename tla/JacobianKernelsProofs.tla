------------------------ MODULE JacobianKernelsProofs ------------------------
(***************************************************************************)
(* Facts about the values JacobianKernels computes, for every element      *)
(* coordinate and every quadrature rule.  The closed-form J of             *)
(* Tri3JacobianCalculator, Quad4JacobianCalculator and                     *)
(* Tet4JacobianCalculator equals the determinant that the generic          *)
(* LagrangeJacobianCalculator computes from its tabulated shape gradients: *)
(* a polynomial identity in the node coordinates (and, for Quad4, in the   *)
(* quadrature point).                                                      *)
(***************************************************************************)
EXTENDS JacobianKernels, WellFoundedInduction, TLAPS

USE KindAssumption, NQAssumption, RuleAssumption, NDebugAssumption

\* The gradients the Lagrange constructor tabulates for TRI3 (constant).
LEMMA Tri3Grad ==
  ASSUME Kind = "Tri3", NEW q \in QIdx
  PROVE  /\ d_dphi[0][q] = Vec2(-1, -1)
         /\ d_dphi[1][q] = Vec2(1, 0)
         /\ d_dphi[2][q] = Vec2(0, 1)
  BY DEF d_dphi, ShapeGrad, Nodes, NNodes

\* Tri3JacobianCalculator::get_JxW's J is the generic Lagrange J.
LEMMA Tri3Agrees ==
  ASSUME Kind = "Tri3", NEW p \in [Nodes -> Point], NEW q \in QIdx
  PROVE  LagrangeJ(p, q) = Tri3J(p)
<1>1. /\ Dim = 2 /\ NNodes = 3 /\ Axes = 0 .. 1 /\ Nodes = 0 .. 2
  BY DEF Dim, NNodes, Axes, Nodes
<1>2. \A n \in 0 .. 2 : \A c \in 0 .. 1 : p[n][c] \in Int
  BY <1>1 DEF Point
<1>3. DEFINE C == Contravariant(p, q)
<1>4. ASSUME NEW i \in 0 .. 1, NEW j \in 0 .. 1
      PROVE  C[i][j] = p[0][i] * Vec2(-1, -1)[j] + p[1][i] * Vec2(1, 0)[j]
                         + p[2][i] * Vec2(0, 1)[j]
  BY <1>1, Tri3Grad DEF Contravariant, NodeSum, Sum3
<1>6. /\ C[0][0] = p[1][0] - p[0][0] /\ C[0][1] = p[2][0] - p[0][0]
      /\ C[1][0] = p[1][1] - p[0][1] /\ C[1][1] = p[2][1] - p[0][1]
  BY <1>2, <1>4 DEF Vec2
<1>5. QED
  BY <1>1, <1>2, <1>6 DEF LagrangeJ, determinant, Det2, Tri3J

\* The gradients the Lagrange constructor tabulates for TET4 (constant).
LEMMA Tet4Grad ==
  ASSUME Kind = "Tet4", NEW q \in QIdx
  PROVE  /\ d_dphi[0][q] = Vec3(-1, -1, -1)
         /\ d_dphi[1][q] = Vec3(1, 0, 0)
         /\ d_dphi[2][q] = Vec3(0, 1, 0)
         /\ d_dphi[3][q] = Vec3(0, 0, 1)
  BY DEF d_dphi, ShapeGrad, Nodes, NNodes

\* Tet4JacobianCalculator::get_JxW's cofactor expansion is the generic
\* Lagrange determinant<3,3> of the contravariant matrix.
LEMMA Tet4Agrees ==
  ASSUME Kind = "Tet4", NEW p \in [Nodes -> Point], NEW q \in QIdx
  PROVE  LagrangeJ(p, q) = Tet4J(p)
<1>1. /\ Dim = 3 /\ NNodes = 4 /\ Axes = 0 .. 2 /\ Nodes = 0 .. 3
  BY DEF Dim, NNodes, Axes, Nodes
<1>2. \A n \in 0 .. 3 : \A c \in 0 .. 2 : p[n][c] \in Int
  BY <1>1 DEF Point
<1>3. DEFINE C == Contravariant(p, q)
<1>4. ASSUME NEW i \in 0 .. 2, NEW j \in 0 .. 2
      PROVE  C[i][j] = p[0][i] * Vec3(-1, -1, -1)[j] + p[1][i] * Vec3(1, 0, 0)[j]
                         + p[2][i] * Vec3(0, 1, 0)[j] + p[3][i] * Vec3(0, 0, 1)[j]
  BY <1>1, Tet4Grad DEF Contravariant, NodeSum, Sum3, Sum4
<1>5. ASSUME NEW i \in 0 .. 2, NEW j \in 0 .. 2
      PROVE  C[i][j] = p[j + 1][i] - p[0][i]
  BY <1>2, <1>4 DEF Vec3
<1>6. QED
  BY <1>1, <1>2, <1>5 DEF LagrangeJ, determinant, Det3, Tet4J

\* The gradients (times 4) the Lagrange constructor tabulates for QUAD4 at a
\* quadrature point (x, y).
LEMMA Quad4Grad ==
  ASSUME Kind = "Quad4", NEW q \in QIdx
  PROVE  LET x == QPoints[q][0]
             y == QPoints[q][1]
         IN  /\ d_dphi[0][q][0] = y - 1 /\ d_dphi[0][q][1] = x - 1
             /\ d_dphi[1][q][0] = 1 - y /\ d_dphi[1][q][1] = -1 - x
             /\ d_dphi[2][q][0] = 1 + y /\ d_dphi[2][q][1] = 1 + x
             /\ d_dphi[3][q][0] = -1 - y /\ d_dphi[3][q][1] = 1 - x
  <1>1. QPoints[q][0] \in Int /\ QPoints[q][1] \in Int
    BY DEF Point, Axes, Dim
  <1>2. QED
    BY <1>1 DEF d_dphi, ShapeGrad, Nodes, NNodes, Vec2

\* Quad4JacobianCalculator::get_JxW's J from the a/b/c coefficients is the
\* generic Lagrange J at every quadrature point.
LEMMA Quad4Agrees ==
  ASSUME Kind = "Quad4", NEW p \in [Nodes -> Point], NEW q \in QIdx
  PROVE  LagrangeJ(p, q) = Quad4J(p, QPoints[q])
<1>1. /\ Dim = 2 /\ NNodes = 4 /\ Axes = 0 .. 1 /\ Nodes = 0 .. 3
  BY DEF Dim, NNodes, Axes, Nodes
<1>2. \A n \in 0 .. 3 : \A c \in 0 .. 1 : p[n][c] \in Int
  BY <1>1 DEF Point
<1> DEFINE x == QPoints[q][0]
           y == QPoints[q][1]
           C == Contravariant(p, q)
<1>3. x \in Int /\ y \in Int
  BY <1>1 DEF Point
<1>4. ASSUME NEW i \in 0 .. 1, NEW j \in 0 .. 1
      PROVE  C[i][j] = p[0][i] * d_dphi[0][q][j] + p[1][i] * d_dphi[1][q][j]
                         + p[2][i] * d_dphi[2][q][j] + p[3][i] * d_dphi[3][q][j]
  BY <1>1 DEF Contravariant, NodeSum, Sum3, Sum4
<1>6. /\ C[0][0] = p[0][0] * (y - 1) + p[1][0] * (1 - y) + p[2][0] * (1 + y) + p[3][0] * (-1 - y)
      /\ C[1][0] = p[0][1] * (y - 1) + p[1][1] * (1 - y) + p[2][1] * (1 + y) + p[3][1] * (-1 - y)
      /\ C[0][1] = p[0][0] * (x - 1) + p[1][0] * (-1 - x) + p[2][0] * (1 + x) + p[3][0] * (1 - x)
      /\ C[1][1] = p[0][1] * (x - 1) + p[1][1] * (-1 - x) + p[2][1] * (1 + x) + p[3][1] * (1 - x)
  BY <1>4, Quad4Grad
<1>5. QED
  BY <1>2, <1>3, <1>6 DEF LagrangeJ, determinant, Det2, Dim, Quad4J
\* The J the specialised get_JxW uses, for the three closed-form kernels.
LEMMA KernelAgrees ==
  ASSUME Kind \in {"Tri3", "Quad4", "Tet4"},
         NEW p \in [Nodes -> Point], NEW q \in QIdx
  PROVE  KernelJ(p, q) = LagrangeJ(p, q)
<1>1. CASE Kind = "Tri3"
  BY <1>1, Tri3Agrees DEF KernelJ
<1>2. CASE Kind = "Quad4"
  BY <1>2, Quad4Agrees DEF KernelJ
<1>3. CASE Kind = "Tet4"
  BY <1>3, Tet4Agrees DEF KernelJ
<1>4. QED
  BY <1>1, <1>2, <1>3


(***************************************************************************)
(* The Quad9 constructor's d_n_oned_q_points = round(sqrt(NQ)) exists and  *)
(* lies in 1 .. NQ: the least k with 4 * NQ < (2k + 1)^2, found by the    *)
(* well-foundedness of < on Nat, is the rounded square root.               *)
(***************************************************************************)
LEMMA RoundSqrtSpec ==
  ASSUME NEW m \in Nat \ {0}
  PROVE  /\ RoundSqrt(m) \in 1 .. m
         /\ (2 * RoundSqrt(m) - 1) * (2 * RoundSqrt(m) - 1) <= 4 * m
         /\ 4 * m < (2 * RoundSqrt(m) + 1) * (2 * RoundSqrt(m) + 1)
<1> DEFINE T == {k \in Nat : 4 * m < (2 * k + 1) * (2 * k + 1)}
<1>1. m \in T
  OBVIOUS
<1>2. \E x \in T : \A y \in T : ~(<<y, x>> \in OpToRel(<, Nat))
  BY <1>1, NatLessThanWellFounded, WFMin
<1>3. PICK x \in T : \A y \in T : ~(y < x)
  BY <1>2 DEF OpToRel
<1>4. x \in 1 .. m
  BY <1>1, <1>3
<1>5. (2 * x - 1) * (2 * x - 1) <= 4 * m
  <2>1. x - 1 \notin T
    BY <1>3, <1>4
  <2>2. QED
    BY <1>4, <2>1
<1>6. \E k \in 0 .. m : /\ (2 * k - 1) * (2 * k - 1) <= 4 * m
                         /\ 4 * m < (2 * k + 1) * (2 * k + 1)
  BY <1>3, <1>4, <1>5
<1>7. /\ RoundSqrt(m) \in 0 .. m
      /\ (2 * RoundSqrt(m) - 1) * (2 * RoundSqrt(m) - 1) <= 4 * m
      /\ 4 * m < (2 * RoundSqrt(m) + 1) * (2 * RoundSqrt(m) + 1)
  BY <1>6 DEF RoundSqrt
<1>8. QED
  BY <1>7

\* For a Quad9 key the 1-D rule has 1 .. NQ points, all of them rule
\* points, with integer coordinates.
LEMMA Quad9OneD ==
  ASSUME Kind = "Quad9"
  PROVE  /\ d_n_oned_q_points \in 1 .. NQ
         /\ OneD \subseteq QIdx
         /\ \A k \in OneD : oned_points[k] \in Int
<1>1. d_n_oned_q_points \in 1 .. NQ
  BY RoundSqrtSpec DEF d_n_oned_q_points
<1>2. OneD \subseteq QIdx
  BY <1>1 DEF OneD, QIdx
<1>3. Axes = 0 .. 1
  BY DEF Axes, Dim
<1>4. \A k \in OneD : oned_points[k] \in Int
  BY <1>2, <1>3 DEF oned_points, Point
<1>5. QED
  BY <1>1, <1>2, <1>4

(***************************************************************************)
(* Quad9JacobianCalculator::get_JxW reads d_phi(i, q / n) for every q <    *)
(* NQ, where n = d_n_oned_q_points: inside the tabulated 1-D rule exactly *)
(* when NQ <= n * n.  A rule the constructor accepts (IsTensorRule) is    *)
(* such a rule; a non-square one with NQ > n * n, accepted only when      *)
(* TBOX_ASSERT is compiled out, reads past the tables.                    *)
(***************************************************************************)
Quad9RuleInRange ==
  Kind = "Quad9" => NQ <= d_n_oned_q_points * d_n_oned_q_points

\* q splits into qx = q % n and qy = q / n, both 1-D indices.
LEMMA Quad9Indices ==
  ASSUME Kind = "Quad9", Quad9RuleInRange, NEW q \in QIdx
  PROVE  LET n == d_n_oned_q_points
         IN  /\ q % n \in OneD /\ q \div n \in OneD
             /\ q = (q \div n) * n + (q % n)
<1> DEFINE n == d_n_oned_q_points
<1>1. n \in 1 .. NQ /\ NQ <= n * n
  BY Quad9OneD DEF Quad9RuleInRange
<1>2. q % n \in 0 .. n - 1 /\ q = (q \div n) * n + (q % n) /\ q \div n \in Nat
  BY <1>1 DEF QIdx
<1>3. q \div n < n
  <2> DEFINE a == q \div n
  <2>1. SUFFICES ASSUME a >= n PROVE FALSE
    BY <1>1, <1>2 DEF a
  <2>2. \A x, y, z \in Nat : x >= y => x * z >= y * z
    OBVIOUS
  <2>3. a * n >= n * n
    BY <1>1, <1>2, <2>1, <2>2 DEF a
  <2>4. QED
    BY <1>1, <1>2, <2>3 DEF QIdx, a
<1>4. q % n \in OneD /\ q \div n \in OneD
  BY <1>1, <1>2, <1>3 DEF OneD, n
<1>5. QED
  BY <1>2, <1>4 DEF n

\* For a rule the constructor accepts, the rule point q is (oned[qx], oned[qy]).
LEMMA Quad9PointSplit ==
  ASSUME Kind = "Quad9", IsTensorRule, NEW q \in QIdx
  PROVE  LET n == d_n_oned_q_points
         IN  QPoints[q] = Vec2(oned_points[q % n], oned_points[q \div n])
<1> DEFINE n == d_n_oned_q_points
<1>1. Quad9RuleInRange
  BY DEF Quad9RuleInRange, IsTensorRule
<1>2. q % n \in OneD /\ q \div n \in OneD /\ q = (q \div n) * n + (q % n)
  BY <1>1, Quad9Indices DEF n
<1>3. QED
  BY <1>2 DEF IsTensorRule, n

\* The J of every kernel is an integer, for every element and every rule
\* point that get_JxW reads inside its tables.
LEMMA KernelJInt ==
  ASSUME Quad9RuleInRange, NEW p \in [Nodes -> Point], NEW q \in QIdx
  PROVE  KernelJ(p, q) \in Int
<1>1. CASE Kind = "Tri3"
  <2>1. Axes = 0 .. 1 /\ Nodes = 0 .. 2
    BY <1>1 DEF Axes, Dim, Nodes, NNodes
  <2>2. QED
    BY <1>1, <2>1 DEF KernelJ, Tri3J, Point
<1>2. CASE Kind = "Tet4"
  <2>1. Axes = 0 .. 2 /\ Nodes = 0 .. 3
    BY <1>2 DEF Axes, Dim, Nodes, NNodes
  <2>2. QED
    BY <1>2, <2>1 DEF KernelJ, Tet4J, Point
<1>3. CASE Kind = "Quad4"
  <2>1. Axes = 0 .. 1 /\ Nodes = 0 .. 3
    BY <1>3 DEF Axes, Dim, Nodes, NNodes
  <2>2. QPoints[q] \in [0 .. 1 -> Int]
    BY <2>1 DEF Point
  <2>3. QED
    BY <1>3, <2>1, <2>2 DEF KernelJ, Quad4J, Point
<1>4. CASE Kind = "Quad9"
  <2> DEFINE n == d_n_oned_q_points
  <2>1. Axes = 0 .. 1 /\ Nodes = 0 .. 8
    BY <1>4 DEF Axes, Dim, Nodes, NNodes
  <2>2. q % n \in OneD /\ q \div n \in OneD
    BY <1>4, Quad9Indices DEF n
  <2>3. \A i \in 0 .. 2, k \in OneD : d_phi(i, k) \in Int /\ d_dphi9(i, k) \in Int
    BY <1>4, Quad9OneD DEF d_phi, d_dphi9, ibamr_to_libmesh_ordering, Edge3Phi, Edge3DPhi
  <2>4. \A i, j \in 0 .. 2 : Quad9Grid(i, j) \in Nodes
    BY <2>1 DEF Quad9Grid
  <2>5. \A m \in Nodes, c \in 0 .. 1 : p[m][c] \in Int
    BY <2>1 DEF Point
  <2> DEFINE DX == [i \in 0 .. 2 |-> [j \in 0 .. 2 |-> d_dphi9(j, q % n) * d_phi(i, q \div n)]]
             DY == [i \in 0 .. 2 |-> [j \in 0 .. 2 |-> d_phi(j, q % n) * d_dphi9(i, q \div n)]]
             Acc(c, f) == Sum3([i \in 0 .. 2 |-> Sum3([j \in 0 .. 2 |-> p[Quad9Grid(i, j)][c] * f[i][j]])])
  <2>6. \A c \in 0 .. 1, f \in [0 .. 2 -> [0 .. 2 -> Int]] : Acc(c, f) \in Int
    <3> SUFFICES ASSUME NEW c \in 0 .. 1, NEW f \in [0 .. 2 -> [0 .. 2 -> Int]]
                 PROVE  Acc(c, f) \in Int
      OBVIOUS
    <3>1. \A i, j \in 0 .. 2 : p[Quad9Grid(i, j)][c] * f[i][j] \in Int
      BY <2>4, <2>5
    <3>2. \A i \in 0 .. 2 : Sum3([j \in 0 .. 2 |-> p[Quad9Grid(i, j)][c] * f[i][j]]) \in Int
      BY <3>1 DEF Sum3
    <3>3. QED
      BY <3>2 DEF Sum3, Acc
  <2>7. DX \in [0 .. 2 -> [0 .. 2 -> Int]] /\ DY \in [0 .. 2 -> [0 .. 2 -> Int]]
    BY <2>2, <2>3 DEF DX, DY
  <2>8. /\ Acc(0, DX) \in Int /\ Acc(0, DY) \in Int
        /\ Acc(1, DX) \in Int /\ Acc(1, DY) \in Int
    <3>1. 0 \in 0 .. 1 /\ 1 \in 0 .. 1
      OBVIOUS
    <3>2. QED
      BY <2>6, <2>7, <3>1, Zenon
  <2>9. KernelJ(p, q) = Acc(0, DX) * Acc(1, DY) - Acc(0, DY) * Acc(1, DX)
    BY <1>4 DEF KernelJ, Quad9J, n, DX, DY, Acc
  <2>10. QED
    BY <2>8, <2>9
<1>5. QED
  BY <1>1, <1>2, <1>3, <1>4 DEF Kinds

\* Every buffer a completed get_JxW returns is an integer buffer of NQ entries.
LEMMA JxWOfType ==
  ASSUME Quad9RuleInRange, NEW p \in [Nodes -> Point]
  PROVE  JxWOf(p) \in [QIdx -> Int]
BY KernelJInt DEF JxWOf

(***************************************************************************)
(* Quad9JacobianCalculator::get_JxW's tensor-product J is the generic      *)
(* Lagrange J at every point of a rule the constructor accepts: the 3 x 3  *)
(* node grid and the 1-D order {0, 2, 1} pair each node n with the EDGE3   *)
(* factors (I0[n], I1[n]) that libMesh's QUAD9 basis uses, so the four    *)
(* accumulated sums are the entries of the contravariant matrix.           *)
(***************************************************************************)
LEMMA Quad9Agrees ==
  ASSUME Kind = "Quad9", IsTensorRule, NEW p \in [Nodes -> Point], NEW q \in QIdx
  PROVE  LagrangeJ(p, q) = Quad9J(p, q)
<1> DEFINE n == d_n_oned_q_points
           X == oned_points[q % n]
           Y == oned_points[q \div n]
           P(k, v) == Edge3Phi(k, v)
           D(k, v) == Edge3DPhi(k, v)
           C == Contravariant(p, q)
           DXt == [i \in 0 .. 2 |-> [j \in 0 .. 2 |-> d_dphi9(j, q % n) * d_phi(i, q \div n)]]
           DYt == [i \in 0 .. 2 |-> [j \in 0 .. 2 |-> d_phi(j, q % n) * d_dphi9(i, q \div n)]]
           Acc(c, f) == Sum3([i \in 0 .. 2 |-> Sum3([j \in 0 .. 2 |-> p[Quad9Grid(i, j)][c] * f[i][j]])])
<1>1. /\ Dim = 2 /\ NNodes = 9 /\ Axes = 0 .. 1 /\ Nodes = 0 .. 8
  BY DEF Dim, NNodes, Axes, Nodes
<1>2. /\ q % n \in OneD /\ q \div n \in OneD
      /\ X \in Int /\ Y \in Int
  <2>1. Quad9RuleInRange
    BY DEF Quad9RuleInRange, IsTensorRule
  <2>2. q % n \in OneD /\ q \div n \in OneD
    BY <2>1, Quad9Indices DEF n
  <2>3. QED
    BY <2>2, Quad9OneD DEF X, Y
<1>3. QPoints[q] = Vec2(X, Y)
  BY Quad9PointSplit DEF X, Y, n
<1>4. \A m \in 0 .. 8, c \in 0 .. 1 : p[m][c] \in Int
  BY <1>1 DEF Point
<1>5. /\ P(0, X) \in Int /\ P(1, X) \in Int /\ P(2, X) \in Int
      /\ D(0, X) \in Int /\ D(1, X) \in Int /\ D(2, X) \in Int
      /\ P(0, Y) \in Int /\ P(1, Y) \in Int /\ P(2, Y) \in Int
      /\ D(0, Y) \in Int /\ D(1, Y) \in Int /\ D(2, Y) \in Int
  BY <1>2 DEF P, D, Edge3Phi, Edge3DPhi
<1>6. ASSUME NEW m \in 0 .. 8
      PROVE  /\ d_dphi[m][q][0] = D(Quad9I0[m + 1], X) * P(Quad9I1[m + 1], Y)
             /\ d_dphi[m][q][1] = P(Quad9I0[m + 1], X) * D(Quad9I1[m + 1], Y)
  BY <1>1, <1>3 DEF d_dphi, ShapeGrad, Vec2, P, D
<1>7. ASSUME NEW c \in 0 .. 1
      PROVE  /\ C[c][0] = p[0][c] * d_dphi[0][q][0] + p[1][c] * d_dphi[1][q][0] + p[2][c] * d_dphi[2][q][0]
                           + p[3][c] * d_dphi[3][q][0] + p[4][c] * d_dphi[4][q][0] + p[5][c] * d_dphi[5][q][0]
                           + p[6][c] * d_dphi[6][q][0] + p[7][c] * d_dphi[7][q][0] + p[8][c] * d_dphi[8][q][0]
             /\ C[c][1] = p[0][c] * d_dphi[0][q][1] + p[1][c] * d_dphi[1][q][1] + p[2][c] * d_dphi[2][q][1]
                           + p[3][c] * d_dphi[3][q][1] + p[4][c] * d_dphi[4][q][1] + p[5][c] * d_dphi[5][q][1]
                           + p[6][c] * d_dphi[6][q][1] + p[7][c] * d_dphi[7][q][1] + p[8][c] * d_dphi[8][q][1]
  BY <1>1 DEF C, Contravariant, NodeSum, Sum9, Sum4, Sum3
<1>8. ASSUME NEW c \in 0 .. 1
      PROVE  /\ C[c][0] = p[0][c] * (D(0, X) * P(0, Y)) + p[1][c] * (D(1, X) * P(0, Y))
                           + p[2][c] * (D(1, X) * P(1, Y)) + p[3][c] * (D(0, X) * P(1, Y))
                           + p[4][c] * (D(2, X) * P(0, Y)) + p[5][c] * (D(1, X) * P(2, Y))
                           + p[6][c] * (D(2, X) * P(1, Y)) + p[7][c] * (D(0, X) * P(2, Y))
                           + p[8][c] * (D(2, X) * P(2, Y))
             /\ C[c][1] = p[0][c] * (P(0, X) * D(0, Y)) + p[1][c] * (P(1, X) * D(0, Y))
                           + p[2][c] * (P(1, X) * D(1, Y)) + p[3][c] * (P(0, X) * D(1, Y))
                           + p[4][c] * (P(2, X) * D(0, Y)) + p[5][c] * (P(1, X) * D(2, Y))
                           + p[6][c] * (P(2, X) * D(1, Y)) + p[7][c] * (P(0, X) * D(2, Y))
                           + p[8][c] * (P(2, X) * D(2, Y))
  <2>1. /\ Quad9I0 = <<0, 1, 1, 0, 2, 1, 2, 0, 2>>
        /\ Quad9I1 = <<0, 0, 1, 1, 0, 2, 1, 2, 2>>
    BY DEF Quad9I0, Quad9I1
  <2>2. QED
    BY <1>6, <1>7, <2>1
<1>9. ASSUME NEW c \in 0 .. 1
      PROVE  /\ Acc(c, DXt) = p[0][c] * (D(0, X) * P(0, Y)) + p[4][c] * (D(2, X) * P(0, Y))
                               + p[1][c] * (D(1, X) * P(0, Y)) + p[7][c] * (D(0, X) * P(2, Y))
                               + p[8][c] * (D(2, X) * P(2, Y)) + p[5][c] * (D(1, X) * P(2, Y))
                               + p[3][c] * (D(0, X) * P(1, Y)) + p[6][c] * (D(2, X) * P(1, Y))
                               + p[2][c] * (D(1, X) * P(1, Y))
             /\ Acc(c, DYt) = p[0][c] * (P(0, X) * D(0, Y)) + p[4][c] * (P(2, X) * D(0, Y))
                               + p[1][c] * (P(1, X) * D(0, Y)) + p[7][c] * (P(0, X) * D(2, Y))
                               + p[8][c] * (P(2, X) * D(2, Y)) + p[5][c] * (P(1, X) * D(2, Y))
                               + p[3][c] * (P(0, X) * D(1, Y)) + p[6][c] * (P(2, X) * D(1, Y))
                               + p[2][c] * (P(1, X) * D(1, Y))
  <2>1. /\ \A i, j \in 0 .. 2 : DXt[i][j] = D(<<0, 2, 1>>[j + 1], X) * P(<<0, 2, 1>>[i + 1], Y)
        /\ \A i, j \in 0 .. 2 : DYt[i][j] = P(<<0, 2, 1>>[j + 1], X) * D(<<0, 2, 1>>[i + 1], Y)
    BY DEF DXt, DYt, d_phi, d_dphi9, ibamr_to_libmesh_ordering, P, D, X, Y
  <2>2. /\ DXt[0][0] = D(0, X) * P(0, Y) /\ DXt[0][1] = D(2, X) * P(0, Y) /\ DXt[0][2] = D(1, X) * P(0, Y)
        /\ DXt[1][0] = D(0, X) * P(2, Y) /\ DXt[1][1] = D(2, X) * P(2, Y) /\ DXt[1][2] = D(1, X) * P(2, Y)
        /\ DXt[2][0] = D(0, X) * P(1, Y) /\ DXt[2][1] = D(2, X) * P(1, Y) /\ DXt[2][2] = D(1, X) * P(1, Y)
        /\ DYt[0][0] = P(0, X) * D(0, Y) /\ DYt[0][1] = P(2, X) * D(0, Y) /\ DYt[0][2] = P(1, X) * D(0, Y)
        /\ DYt[1][0] = P(0, X) * D(2, Y) /\ DYt[1][1] = P(2, X) * D(2, Y) /\ DYt[1][2] = P(1, X) * D(2, Y)
        /\ DYt[2][0] = P(0, X) * D(1, Y) /\ DYt[2][1] = P(2, X) * D(1, Y) /\ DYt[2][2] = P(1, X) * D(1, Y)
    BY <2>1
  <2>3. /\ Quad9Grid(0, 0) = 0 /\ Quad9Grid(0, 1) = 4 /\ Quad9Grid(0, 2) = 1
        /\ Quad9Grid(1, 0) = 7 /\ Quad9Grid(1, 1) = 8 /\ Quad9Grid(1, 2) = 5
        /\ Quad9Grid(2, 0) = 3 /\ Quad9Grid(2, 1) = 6 /\ Quad9Grid(2, 2) = 2
    BY DEF Quad9Grid
  <2>4. /\ p[0][c] \in Int /\ p[1][c] \in Int /\ p[2][c] \in Int
        /\ p[3][c] \in Int /\ p[4][c] \in Int /\ p[5][c] \in Int
        /\ p[6][c] \in Int /\ p[7][c] \in Int /\ p[8][c] \in Int
    BY <1>4
  <2>5. QED
    BY <1>5, <2>2, <2>3, <2>4 DEF Acc, Sum3
<1>10. ASSUME NEW c \in 0 .. 1
       PROVE  C[c][0] = Acc(c, DXt) /\ C[c][1] = Acc(c, DYt)
  <2>1. /\ p[0][c] \in Int /\ p[1][c] \in Int /\ p[2][c] \in Int
        /\ p[3][c] \in Int /\ p[4][c] \in Int /\ p[5][c] \in Int
        /\ p[6][c] \in Int /\ p[7][c] \in Int /\ p[8][c] \in Int
    BY <1>4
  <2>3.
        /\ p[0][c] * (D(0, X) * P(0, Y)) \in Int
        /\ p[1][c] * (D(1, X) * P(0, Y)) \in Int
        /\ p[2][c] * (D(1, X) * P(1, Y)) \in Int
        /\ p[3][c] * (D(0, X) * P(1, Y)) \in Int
        /\ p[4][c] * (D(2, X) * P(0, Y)) \in Int
        /\ p[5][c] * (D(1, X) * P(2, Y)) \in Int
        /\ p[6][c] * (D(2, X) * P(1, Y)) \in Int
        /\ p[7][c] * (D(0, X) * P(2, Y)) \in Int
        /\ p[8][c] * (D(2, X) * P(2, Y)) \in Int
    BY <2>1, <1>5
  <2>4.
        /\ p[0][c] * (P(0, X) * D(0, Y)) \in Int
        /\ p[1][c] * (P(1, X) * D(0, Y)) \in Int
        /\ p[2][c] * (P(1, X) * D(1, Y)) \in Int
        /\ p[3][c] * (P(0, X) * D(1, Y)) \in Int
        /\ p[4][c] * (P(2, X) * D(0, Y)) \in Int
        /\ p[5][c] * (P(1, X) * D(2, Y)) \in Int
        /\ p[6][c] * (P(2, X) * D(1, Y)) \in Int
        /\ p[7][c] * (P(0, X) * D(2, Y)) \in Int
        /\ p[8][c] * (P(2, X) * D(2, Y)) \in Int
    BY <2>1, <1>5
  <2>5. /\ C[c][0] = p[0][c] * (D(0, X) * P(0, Y))
                + p[1][c] * (D(1, X) * P(0, Y))
                + p[2][c] * (D(1, X) * P(1, Y))
                + p[3][c] * (D(0, X) * P(1, Y))
                + p[4][c] * (D(2, X) * P(0, Y))
                + p[5][c] * (D(1, X) * P(2, Y))
                + p[6][c] * (D(2, X) * P(1, Y))
                + p[7][c] * (D(0, X) * P(2, Y))
                + p[8][c] * (D(2, X) * P(2, Y))
        /\ C[c][1] = p[0][c] * (P(0, X) * D(0, Y))
                + p[1][c] * (P(1, X) * D(0, Y))
                + p[2][c] * (P(1, X) * D(1, Y))
                + p[3][c] * (P(0, X) * D(1, Y))
                + p[4][c] * (P(2, X) * D(0, Y))
                + p[5][c] * (P(1, X) * D(2, Y))
                + p[6][c] * (P(2, X) * D(1, Y))
                + p[7][c] * (P(0, X) * D(2, Y))
                + p[8][c] * (P(2, X) * D(2, Y))
    BY <1>8
  <2>6. /\ Acc(c, DXt) = p[0][c] * (D(0, X) * P(0, Y))
                + p[4][c] * (D(2, X) * P(0, Y))
                + p[1][c] * (D(1, X) * P(0, Y))
                + p[7][c] * (D(0, X) * P(2, Y))
                + p[8][c] * (D(2, X) * P(2, Y))
                + p[5][c] * (D(1, X) * P(2, Y))
                + p[3][c] * (D(0, X) * P(1, Y))
                + p[6][c] * (D(2, X) * P(1, Y))
                + p[2][c] * (D(1, X) * P(1, Y))
        /\ Acc(c, DYt) = p[0][c] * (P(0, X) * D(0, Y))
                + p[4][c] * (P(2, X) * D(0, Y))
                + p[1][c] * (P(1, X) * D(0, Y))
                + p[7][c] * (P(0, X) * D(2, Y))
                + p[8][c] * (P(2, X) * D(2, Y))
                + p[5][c] * (P(1, X) * D(2, Y))
                + p[3][c] * (P(0, X) * D(1, Y))
                + p[6][c] * (P(2, X) * D(1, Y))
                + p[2][c] * (P(1, X) * D(1, Y))
    BY <1>9
  <2>7. p[0][c] * (D(0, X) * P(0, Y))
                + p[1][c] * (D(1, X) * P(0, Y))
                + p[2][c] * (D(1, X) * P(1, Y))
                + p[3][c] * (D(0, X) * P(1, Y))
                + p[4][c] * (D(2, X) * P(0, Y))
                + p[5][c] * (D(1, X) * P(2, Y))
                + p[6][c] * (D(2, X) * P(1, Y))
                + p[7][c] * (D(0, X) * P(2, Y))
                + p[8][c] * (D(2, X) * P(2, Y))
           = p[0][c] * (D(0, X) * P(0, Y))
                + p[4][c] * (D(2, X) * P(0, Y))
                + p[1][c] * (D(1, X) * P(0, Y))
                + p[7][c] * (D(0, X) * P(2, Y))
                + p[8][c] * (D(2, X) * P(2, Y))
                + p[5][c] * (D(1, X) * P(2, Y))
                + p[3][c] * (D(0, X) * P(1, Y))
                + p[6][c] * (D(2, X) * P(1, Y))
                + p[2][c] * (D(1, X) * P(1, Y))
    <3> DEFINE
           xs0 == p[0][c] * (D(0, X) * P(0, Y))
           xs1 == p[1][c] * (D(1, X) * P(0, Y))
           xs2 == p[2][c] * (D(1, X) * P(1, Y))
           xs3 == p[3][c] * (D(0, X) * P(1, Y))
           xs4 == p[4][c] * (D(2, X) * P(0, Y))
           xs5 == p[5][c] * (D(1, X) * P(2, Y))
           xs6 == p[6][c] * (D(2, X) * P(1, Y))
           xs7 == p[7][c] * (D(0, X) * P(2, Y))
           xs8 == p[8][c] * (D(2, X) * P(2, Y))
    <3>1. xs0 \in Int /\ xs1 \in Int /\ xs2 \in Int /\ xs3 \in Int /\ xs4 \in Int /\ xs5 \in Int /\ xs6 \in Int /\ xs7 \in Int /\ xs8 \in Int
      BY <2>3 DEF xs0, xs1, xs2, xs3, xs4, xs5, xs6, xs7, xs8
    <3>2. xs0 + xs1 + xs2 + xs3 + xs4 + xs5 + xs6 + xs7 + xs8 = xs0 + xs4 + xs1 + xs7 + xs8 + xs5 + xs3 + xs6 + xs2
      BY <3>1
    <3>3. QED
      BY <3>2 DEF xs0, xs1, xs2, xs3, xs4, xs5, xs6, xs7, xs8
  <2>11. p[0][c] * (P(0, X) * D(0, Y))
                + p[1][c] * (P(1, X) * D(0, Y))
                + p[2][c] * (P(1, X) * D(1, Y))
                + p[3][c] * (P(0, X) * D(1, Y))
                + p[4][c] * (P(2, X) * D(0, Y))
                + p[5][c] * (P(1, X) * D(2, Y))
                + p[6][c] * (P(2, X) * D(1, Y))
                + p[7][c] * (P(0, X) * D(2, Y))
                + p[8][c] * (P(2, X) * D(2, Y))
           = p[0][c] * (P(0, X) * D(0, Y))
                + p[4][c] * (P(2, X) * D(0, Y))
                + p[1][c] * (P(1, X) * D(0, Y))
                + p[7][c] * (P(0, X) * D(2, Y))
                + p[8][c] * (P(2, X) * D(2, Y))
                + p[5][c] * (P(1, X) * D(2, Y))
                + p[3][c] * (P(0, X) * D(1, Y))
                + p[6][c] * (P(2, X) * D(1, Y))
                + p[2][c] * (P(1, X) * D(1, Y))
    <3> DEFINE
           ys0 == p[0][c] * (P(0, X) * D(0, Y))
           ys1 == p[1][c] * (P(1, X) * D(0, Y))
           ys2 == p[2][c] * (P(1, X) * D(1, Y))
           ys3 == p[3][c] * (P(0, X) * D(1, Y))
           ys4 == p[4][c] * (P(2, X) * D(0, Y))
           ys5 == p[5][c] * (P(1, X) * D(2, Y))
           ys6 == p[6][c] * (P(2, X) * D(1, Y))
           ys7 == p[7][c] * (P(0, X) * D(2, Y))
           ys8 == p[8][c] * (P(2, X) * D(2, Y))
    <3>1. ys0 \in Int /\ ys1 \in Int /\ ys2 \in Int /\ ys3 \in Int /\ ys4 \in Int /\ ys5 \in Int /\ ys6 \in Int /\ ys7 \in Int /\ ys8 \in Int
      BY <2>4 DEF ys0, ys1, ys2, ys3, ys4, ys5, ys6, ys7, ys8
    <3>2. ys0 + ys1 + ys2 + ys3 + ys4 + ys5 + ys6 + ys7 + ys8 = ys0 + ys4 + ys1 + ys7 + ys8 + ys5 + ys3 + ys6 + ys2
      BY <3>1
    <3>3. QED
      BY <3>2 DEF ys0, ys1, ys2, ys3, ys4, ys5, ys6, ys7, ys8
  <2>8. C[c][0] = Acc(c, DXt)
    BY <2>5, <2>6, <2>7
  <2>9. C[c][1] = Acc(c, DYt)
    BY <2>5, <2>6, <2>11
  <2>10. QED
    BY <2>8, <2>9
<1>11. Quad9J(p, q) = Acc(0, DXt) * Acc(1, DYt) - Acc(0, DYt) * Acc(1, DXt)
  BY DEF Quad9J, n, DXt, DYt, Acc
<1>12. LagrangeJ(p, q) = C[0][0] * C[1][1] - C[0][1] * C[1][0]
  BY <1>1 DEF LagrangeJ, determinant, Det2, C
<1>13. QED
  BY <1>10, <1>11, <1>12

\* Every kernel computes the generic J at every rule point, provided a Quad9
\* rule has the tensor-product layout its constructor asserts.
LEMMA KernelAgreesAll ==
  ASSUME Kind = "Quad9" => IsTensorRule,
         NEW p \in [Nodes -> Point], NEW q \in QIdx
  PROVE  KernelJ(p, q) = LagrangeJ(p, q)
<1>1. CASE Kind \in {"Tri3", "Quad4", "Tet4"}
  BY <1>1, KernelAgrees
<1>2. CASE Kind = "Quad9"
  BY <1>2, Quad9Agrees DEF KernelJ
<1>3. QED
  BY <1>1, <1>2 DEF Kinds

(***************************************************************************)
(* What a caller of a live calculator may rely on.  A Quad9 calculator     *)
(* whose constructor did not abort has a tensor-product rule, unless the   *)
(* build is a release one, in which the constructor checks nothing: for    *)
(* it RuleOK assumes the caller's rule is one, and RangeOK only that it    *)
(* has no more points than the n x n grid get_JxW indexes.                *)
(***************************************************************************)
RuleOK == Kind = "Quad9" /\ NDebug => IsTensorRule

RangeOK == NDebug => Quad9RuleInRange

\* A calculator that survived construction computes the generic JxW.
LEMMA JxWOfLagrange ==
  ASSUME RuleOK, ~ConstructorAborts, NEW p \in [Nodes -> Point]
  PROVE  JxWOf(p) = LagrangeJxW(p)
<1>1. Kind = "Quad9" => IsTensorRule
  BY DEF RuleOK, ConstructorAborts
<1>2. \A q \in QIdx : KernelJ(p, q) = LagrangeJ(p, q)
  BY <1>1, KernelAgreesAll
<1>3. QED
  BY <1>2 DEF JxWOf, LagrangeJxW

\* A calculator that survived construction fills an integer buffer.
LEMMA JxWOfLive ==
  ASSUME RangeOK, ~ConstructorAborts, NEW p \in [Nodes -> Point]
  PROVE  JxWOf(p) \in [QIdx -> Int]
<1>1. Quad9RuleInRange
  BY DEF RangeOK, ConstructorAborts, Quad9RuleInRange, IsTensorRule
<1>2. QED
  BY <1>1, JxWOfType
=============================================================================
