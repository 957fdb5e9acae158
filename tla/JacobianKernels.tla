------------------------- MODULE JacobianKernels -------------------------
(***************************************************************************)
(* What an IBTK::JacobianCalculator for a quadrature key computes, without *)
(* its state (ibtk/src/lagrangian/JacobianCalculator.cpp): the rule, the   *)
(* Lagrange shape-function gradients the generic                           *)
(* LagrangeJacobianCalculator<dim, dim> tabulates, the J it computes from  *)
(* them, the closed-form J of the Tri3, Quad4, Quad9 and Tet4 kernels, and *)
(* the buffer a completed get_JxW returns.  JacobianCalculator adds one    *)
(* calculator's d_JxW; JacobianWorkers adds the callers sharing them.      *)
(*                                                                         *)
(* Kind selects the specialised class (Tri3, Quad4, Quad9, Tet4).  The     *)
(* generic computation is the reference every specialised kernel must      *)
(* agree with.                                                             *)
(*                                                                         *)
(* Data abstraction.  Node coordinates, reference points and weights are   *)
(* integers.  Every libMesh shape function and derivative used here is a   *)
(* polynomial with denominators 2 or 4, so both the kernels and the        *)
(* reference are computed exactly as Scale * J with the positive constant  *)
(* Scale (1 for the simplices, 16 for the quadrilaterals): the sign of J,  *)
(* its equality with the reference and the J > 0 checks are unchanged.     *)
(***************************************************************************)
EXTENDS Integers

CONSTANTS
  Kind,       \* the element type of the key: "Tri3", "Quad4", "Quad9", "Tet4"
  NQ,         \* number of quadrature points of the rule
  QPoints,    \* d_quad_points: q \in 0..NQ-1 |-> reference point (scaled)
  QWeights,   \* d_quad_weights (scaled, positive)
  NDebug      \* TRUE: built without DEBUG_CHECK_ASSERTIONS, TBOX_ASSERT is empty

Kinds == {"Tri3", "Quad4", "Quad9", "Tet4"}

\* get_dim(elem_type) and get_n_nodes(elem_type) of ibtk/libmesh_utilities.h
Dim == IF Kind = "Tet4" THEN 3 ELSE 2
NNodes == CASE Kind = "Tri3" -> 3 [] Kind = "Quad4" -> 4
            [] Kind = "Tet4" -> 4 [] Kind = "Quad9" -> 9

Axes == 0 .. Dim - 1
Nodes == 0 .. NNodes - 1
QIdx == 0 .. NQ - 1
Point == [Axes -> Int]

ASSUME KindAssumption == Kind \in Kinds
ASSUME NQAssumption == NQ \in Nat \ {0}
ASSUME RuleAssumption ==
  /\ QPoints \in [QIdx -> Point]
  /\ QWeights \in [QIdx -> Nat \ {0}]
ASSUME NDebugAssumption == NDebug \in BOOLEAN

\* A point or vector with 0-based coordinates, as libMesh::Point p(0), p(1), p(2).
Vec2(x, y) == [c \in 0 .. 1 |-> IF c = 0 THEN x ELSE y]
Vec3(x, y, z) == [c \in 0 .. 2 |-> CASE c = 0 -> x [] c = 1 -> y [] c = 2 -> z]

-----------------------------------------------------------------------------
(***************************************************************************)
(* Sums over the nodes of an element and the two determinant              *)
(* specialisations of the anonymous namespace (determinant<2,2>,           *)
(* determinant<3,3>).                                                      *)
(***************************************************************************)
Sum3(f) == f[0] + f[1] + f[2]
Sum4(f) == Sum3(f) + f[3]
Sum9(f) == Sum4(f) + f[4] + f[5] + f[6] + f[7] + f[8]
NodeSum(f) == CASE NNodes = 3 -> Sum3(f) [] NNodes = 4 -> Sum4(f)
                [] NNodes = 9 -> Sum9(f)

Det2(A) == A[0][0] * A[1][1] - A[0][1] * A[1][0]
Det3(A) == A[0][0] * (A[1][1] * A[2][2] - A[1][2] * A[2][1])
             - A[1][0] * (A[0][1] * A[2][2] - A[0][2] * A[2][1])
             + A[2][0] * (A[0][1] * A[1][2] - A[0][2] * A[1][1])
determinant(A) == IF Dim = 2 THEN Det2(A) ELSE Det3(A)

(***************************************************************************)
(* libMesh's one-dimensional EDGE3 Lagrange basis on [-1, 1] in libMesh    *)
(* node order (0 at -1, 1 at +1, 2 at 0), times 2, and its derivative,     *)
(* times 2.  The QUAD9 basis is their tensor product through libMesh's     *)
(* node tables I0 (xi factor) and I1 (eta factor).                         *)
(***************************************************************************)
Edge3Phi(k, p) == CASE k = 0 -> p * p - p [] k = 1 -> p * p + p
                    [] k = 2 -> 2 - 2 * p * p
Edge3DPhi(k, p) == CASE k = 0 -> 2 * p - 1 [] k = 1 -> 2 * p + 1
                     [] k = 2 -> -4 * p
Quad9I0 == <<0, 1, 1, 0, 2, 1, 2, 0, 2>>
Quad9I1 == <<0, 0, 1, 1, 0, 2, 1, 2, 2>>

(***************************************************************************)
(* FE<dim, LAGRANGE>::shape_deriv(elem_type, default order, n, d, xi), as  *)
(* tabulated into d_dphi[n][q][d] by the LagrangeJacobianCalculator        *)
(* constructor: the gradient of the n-th nodal basis function at xi,       *)
(* times 1 (simplices) or 4 (quadrilaterals).                              *)
(***************************************************************************)
ShapeGrad(n, xi) ==
  CASE Kind = "Tri3" ->
         <<Vec2(-1, -1), Vec2(1, 0), Vec2(0, 1)>>[n + 1]
    [] Kind = "Tet4" ->
         <<Vec3(-1, -1, -1), Vec3(1, 0, 0), Vec3(0, 1, 0), Vec3(0, 0, 1)>>[n + 1]
    [] Kind = "Quad4" ->
         LET s == <<<<-1, -1>>, <<1, -1>>, <<1, 1>>, <<-1, 1>>>>[n + 1]
         IN  Vec2(s[1] * (1 + s[2] * xi[1]), s[2] * (1 + s[1] * xi[0]))
    [] Kind = "Quad9" ->
         LET a == Quad9I0[n + 1]
             b == Quad9I1[n + 1]
         IN  Vec2(Edge3DPhi(a, xi[0]) * Edge3Phi(b, xi[1]),
                  Edge3Phi(a, xi[0]) * Edge3DPhi(b, xi[1]))

d_dphi == [n \in Nodes |-> [q \in QIdx |-> ShapeGrad(n, QPoints[q])]]

(***************************************************************************)
(* LagrangeJacobianCalculator<dim, dim>::get_JxW for one element: the      *)
(* contravariant matrix sum_n xs[n][i] * d_dphi[n][q][j] at each           *)
(* quadrature point, its determinant, times the weight.                    *)
(***************************************************************************)
Contravariant(xs, q) ==
  [i \in Axes |-> [j \in Axes |->
     NodeSum([n \in Nodes |-> xs[n][i] * d_dphi[n][q][j]])]]

LagrangeJ(xs, q) == determinant(Contravariant(xs, q))

LagrangeJxW(xs) == [q \in QIdx |-> QWeights[q] * LagrangeJ(xs, q)]

-----------------------------------------------------------------------------
(***************************************************************************)
(* The specialised kernels, each the J that its get_JxW computes.          *)
(***************************************************************************)

\* Mutant: the second edge taken from node 1 instead of node 0.
Tri3JWrongEdge(p) ==
  LET Jac_00 == p[1][0] - p[0][0]
      Jac_01 == p[2][0] - p[1][0]
      Jac_10 == p[1][1] - p[0][1]
      Jac_11 == p[2][1] - p[0][1]
  IN  Jac_00 * Jac_11 - Jac_01 * Jac_10

\* Tri3JacobianCalculator::get_JxW: one J for the whole element.
Tri3J(p) ==
  LET Jac_00 == p[1][0] - p[0][0]
      Jac_01 == p[2][0] - p[0][0]
      Jac_10 == p[1][1] - p[0][1]
      Jac_11 == p[2][1] - p[0][1]
  IN  Jac_00 * Jac_11 - Jac_01 * Jac_10

\* Mutant: the sign of the second cofactor term flipped.
Tet4JSign(p) ==
  LET E(c, k) == p[k][c] - p[0][c]
  IN  E(0, 1) * (E(1, 2) * E(2, 3) - E(1, 3) * E(2, 2))
        + E(1, 1) * (E(0, 2) * E(2, 3) - E(0, 3) * E(2, 2))
        + E(2, 1) * (E(0, 2) * E(1, 3) - E(0, 3) * E(1, 2))

\* Tet4JacobianCalculator::get_JxW: determinant of the edge matrix.
Tet4J(p) ==
  LET E(c, k) == p[k][c] - p[0][c]
  IN  E(0, 1) * (E(1, 2) * E(2, 3) - E(1, 3) * E(2, 2))
        - E(1, 1) * (E(0, 2) * E(2, 3) - E(0, 3) * E(2, 2))
        + E(2, 1) * (E(0, 2) * E(1, 3) - E(0, 3) * E(1, 2))

\* Mutant: x and y exchanged in the first row of the Jacobian.
Quad4JSwapped(p, xi) ==
  LET a_1 == -p[0][0] + p[1][0] + p[2][0] - p[3][0]
      b_1 == -p[0][0] - p[1][0] + p[2][0] + p[3][0]
      c_1 ==  p[0][0] - p[1][0] + p[2][0] - p[3][0]
      a_2 == -p[0][1] + p[1][1] + p[2][1] - p[3][1]
      b_2 == -p[0][1] - p[1][1] + p[2][1] + p[3][1]
      c_2 ==  p[0][1] - p[1][1] + p[2][1] - p[3][1]
      x == xi[0]
      y == xi[1]
  IN  (a_1 + c_1 * x) * (b_2 + c_2 * x) - (b_1 + c_1 * y) * (a_2 + c_2 * y)

\* Quad4JacobianCalculator::get_JxW: a_1 .. c_2 times 4, J times 16.
Quad4J(p, xi) ==
  LET a_1 == -p[0][0] + p[1][0] + p[2][0] - p[3][0]
      b_1 == -p[0][0] - p[1][0] + p[2][0] + p[3][0]
      c_1 ==  p[0][0] - p[1][0] + p[2][0] - p[3][0]
      a_2 == -p[0][1] + p[1][1] + p[2][1] - p[3][1]
      b_2 == -p[0][1] - p[1][1] + p[2][1] + p[3][1]
      c_2 ==  p[0][1] - p[1][1] + p[2][1] - p[3][1]
      x == xi[0]
      y == xi[1]
  IN  (a_1 + c_1 * y) * (b_2 + c_2 * x) - (b_1 + c_1 * x) * (a_2 + c_2 * y)

(***************************************************************************)
(* Quad9JacobianCalculator constructor: d_n_oned_q_points is               *)
(* round(sqrt(NQ)), the 1-D rule is read off the x coordinates of the      *)
(* first d_n_oned_q_points points, and the rule is accepted when every     *)
(* point q = j * n + i is (oned[i], oned[j]).  d_phi and d_dphi tabulate   *)
(* the EDGE3 basis in IBAMR's left-to-right order {0, 2, 1}.               *)
(***************************************************************************)
RoundSqrt(m) == CHOOSE k \in 0 .. m : (2 * k - 1) * (2 * k - 1) <= 4 * m
                                      /\ 4 * m < (2 * k + 1) * (2 * k + 1)
d_n_oned_q_points == RoundSqrt(NQ)
OneD == 0 .. d_n_oned_q_points - 1
oned_points == [k \in OneD |-> QPoints[k][0]]
IsTensorRule ==
  /\ d_n_oned_q_points * d_n_oned_q_points = NQ
  /\ \A i, j \in OneD : QPoints[j * d_n_oned_q_points + i]
                          = Vec2(oned_points[i], oned_points[j])

\* The Quad9 constructor's TBOX_ASSERTs on the rule fire (debug builds only).
ConstructorAborts == Kind = "Quad9" /\ ~IsTensorRule /\ ~NDebug
\* Mutant: the 1-D basis tabulated in libMesh order (no reordering).
ibamr_to_libmesh_identity(i) == i

ibamr_to_libmesh_ordering(i) == <<0, 2, 1>>[i + 1]
d_phi(i, k) == Edge3Phi(ibamr_to_libmesh_ordering(i), oned_points[k])
d_dphi9(i, k) == Edge3DPhi(ibamr_to_libmesh_ordering(i), oned_points[k])

\* Quad9JacobianCalculator::get_JxW: the 3 x 3 grid of nodes, J times 16.
Quad9Grid(a, b) == <<<<0, 4, 1>>, <<7, 8, 5>>, <<3, 6, 2>>>>[a + 1][b + 1]
Quad9J(p, q) ==
  LET qx == q % d_n_oned_q_points
      qy == q \div d_n_oned_q_points
      Acc(c, f) == Sum3([i \in 0 .. 2 |-> Sum3([j \in 0 .. 2 |->
                     p[Quad9Grid(i, j)][c] * f[i][j]])])
      DX == [i \in 0 .. 2 |-> [j \in 0 .. 2 |-> d_dphi9(j, qx) * d_phi(i, qy)]]
      DY == [i \in 0 .. 2 |-> [j \in 0 .. 2 |-> d_phi(j, qx) * d_dphi9(i, qy)]]
      Jac_0 == Acc(0, DX)
      Jac_1 == Acc(0, DY)
      Jac_2 == Acc(1, DX)
      Jac_3 == Acc(1, DY)
  IN  Jac_0 * Jac_3 - Jac_1 * Jac_2

\* The J that Kind's get_JxW multiplies d_JxW[q] by.
KernelJ(p, q) == CASE Kind = "Tri3" -> Tri3J(p)
                   [] Kind = "Tet4" -> Tet4J(p)
                   [] Kind = "Quad4" -> Quad4J(p, QPoints[q])
                   [] Kind = "Quad9" -> Quad9J(p, q)

-----------------------------------------------------------------------------
(***************************************************************************)
(* get_JxW(elem): copy the weights, multiply by J at every point, and      *)
(* TBOX_ASSERT(J > 0) at each point (compiled out when NDebug).            *)
(***************************************************************************)
\* Mutant: the assertion written TBOX_ASSERT(J >= 0.0).
AssertFailsNonStrict(p) == ~NDebug /\ \E q \in QIdx : KernelJ(p, q) < 0

\* A TBOX_ASSERT(J > 0) of get_JxW(p) fires.
AssertFails(p) == ~NDebug /\ \E q \in QIdx : KernelJ(p, q) <= 0

\* Mutant: the multiplication loop stops one quadrature point short.
JxWOfShort(p) == [q \in 0 .. NQ - 2 |-> QWeights[q] * KernelJ(p, q)]

\* The buffer a completed get_JxW(p) returns.
JxWOf(p) == [q \in QIdx |-> QWeights[q] * KernelJ(p, q)]

=============================================================================
