---------------------- MODULE JacobianCalculatorProofs ----------------------
(***************************************************************************)
(* Proofs about one JacobianCalculator for every element coordinate,      *)
(* every quadrature rule and both builds.  From the kernel identities of   *)
(* JacobianKernelsProofs, every buffer the Tri3, Quad4 and Tet4 kernels    *)
(* return is the generic one, and they abort on exactly the elements the   *)
(* generic path rejects.                                                   *)
(***************************************************************************)
EXTENDS JacobianCalculator, JacobianKernelsProofs, TLAPS

USE KindAssumption, NQAssumption, RuleAssumption, ElementsAssumption,
    NDebugAssumption, NoneAssumption

(***************************************************************************)
(* The rule invariant: while the calculator is alive, a Quad9 rule has the *)
(* layout the constructor asserts.  Debug builds establish it by aborting  *)
(* in the constructor; release builds only when the caller passes such a  *)
(* rule, which RuleOK assumes.                                            *)
(***************************************************************************)
LiveRule == status = "ok" => (Kind = "Quad9" => IsTensorRule)

KInv == KernelMatchesLagrange /\ LiveRule

\* A get_JxW step never changes the constants, so LiveRule is kept.
LEMMA LiveRuleStep == LiveRule /\ [Next]_vars => LiveRule'
<1> SUFFICES ASSUME LiveRule, [Next]_vars PROVE LiveRule'
  OBVIOUS
<1>1. CASE UNCHANGED vars
  BY <1>1 DEF vars, LiveRule
<1>2. ASSUME NEW p \in Elements, get_JxW(p) PROVE LiveRule'
  BY <1>2 DEF get_JxW, LiveRule
<1>3. QED
  BY <1>1, <1>2 DEF Next

(***************************************************************************)
(* For every element kind, in debug and release builds, after every        *)
(* completed get_JxW the returned buffer is the generic Lagrange JxW of    *)
(* the element, and a get_JxW aborts on its TBOX_ASSERT(J > 0) only when   *)
(* the generic J is not positive at some quadrature point.  For Quad9 this *)
(* needs the tensor-product rule the constructor asserts (RuleOK for a     *)
(* release build, in which the assertion is compiled out).                *)
(***************************************************************************)
THEOREM KernelsMatchLagrange == RuleOK => (Spec => []KernelMatchesLagrange)
<1> SUFFICES ASSUME RuleOK PROVE Spec => []KernelMatchesLagrange
  OBVIOUS
<1>1. Init => KInv
  BY DEF Init, KInv, KernelMatchesLagrange, LiveRule, RuleOK, ConstructorAborts
<1>2. KInv /\ [Next]_vars => KInv'
  <2> SUFFICES ASSUME KInv, [Next]_vars PROVE KInv'
    OBVIOUS
  <2>0. LiveRule'
    BY LiveRuleStep DEF KInv
  <2>1. CASE UNCHANGED vars
    BY <2>0, <2>1 DEF vars, KInv, KernelMatchesLagrange, LagrangeJxW, LagrangeJ
  <2>2. ASSUME NEW p \in Elements, get_JxW(p) PROVE KInv'
    <3>1. p \in [Nodes -> Point] /\ elem' = p /\ status = "ok"
      BY <2>2 DEF get_JxW
    <3>2. \A q \in QIdx : KernelJ(p, q) = LagrangeJ(p, q)
      BY <3>1, KernelAgreesAll DEF KInv, LiveRule
    <3>3. CASE ~NDebug /\ \E q \in QIdx : KernelJ(p, q) <= 0
      <4>1. status' = "aborted"
        BY <2>2, <3>3 DEF get_JxW, AssertFails
      <4>2. \E q \in QIdx : LagrangeJ(p, q) <= 0
        BY <3>2, <3>3
      <4>3. QED
        BY <2>0, <3>1, <4>1, <4>2 DEF KInv, KernelMatchesLagrange
    <3>4. CASE ~(~NDebug /\ \E q \in QIdx : KernelJ(p, q) <= 0)
      <4>1. status' = "ok" /\ d_JxW' = [q \in QIdx |-> QWeights[q] * KernelJ(p, q)]
        BY <2>2, <3>1, <3>4 DEF get_JxW, AssertFails, JxWOf
      <4>2. d_JxW' = LagrangeJxW(p)
        BY <3>2, <4>1 DEF LagrangeJxW
      <4>3. QED
        BY <2>0, <3>1, <4>1, <4>2 DEF KInv, KernelMatchesLagrange
    <3>5. QED
      BY <3>3, <3>4
  <2>3. QED
    BY <2>1, <2>2 DEF Next
<1>3. KInv => KernelMatchesLagrange
  BY DEF KInv
<1>4. QED
  BY <1>1, <1>2, <1>3, PTL DEF Spec

(***************************************************************************)
(* Type correctness of the calculator: d_JxW always holds NQ integers.     *)
(* A Quad9 rule with more points than the n x n tensor grid makes get_JxW *)
(* index past its 1-D tables; a debug build aborts in the constructor on   *)
(* every rule that is not a tensor product, a release build does not, so  *)
(* for a release build the rule must stay inside the grid (RangeOK).       *)
(***************************************************************************)
TInv == TypeOK /\ (status = "ok" => Quad9RuleInRange)

THEOREM CalculatorTypeOK == RangeOK => (Spec => []TypeOK)
<1> SUFFICES ASSUME RangeOK PROVE Spec => []TypeOK
  OBVIOUS
<1>1. Init => TInv
  BY DEF Init, TInv, TypeOK, RangeOK, Quad9RuleInRange, IsTensorRule, ConstructorAborts
<1>2. TInv /\ [Next]_vars => TInv'
  <2> SUFFICES ASSUME TInv, [Next]_vars PROVE TInv'
    OBVIOUS
  <2>1. CASE UNCHANGED vars
    BY <2>1 DEF vars, TInv, TypeOK
  <2>2. ASSUME NEW p \in Elements, get_JxW(p) PROVE TInv'
    <3>1. p \in [Nodes -> Point] /\ elem' = p /\ status = "ok" /\ Quad9RuleInRange
      BY <2>2 DEF get_JxW, TInv
    <3>2. JxWOf(p) \in [QIdx -> Int]
      BY <3>1, JxWOfType
    <3>3. QED
      BY <2>2, <3>1, <3>2 DEF get_JxW, TInv, TypeOK
  <2>3. QED
    BY <2>1, <2>2 DEF Next
<1>3. TInv => TypeOK
  BY DEF TInv
<1>4. QED
  BY <1>1, <1>2, <1>3, PTL DEF Spec

(***************************************************************************)
(* In a debug build every buffer get_JxW returns is strictly positive, for *)
(* every element kind, element and rule: TBOX_ASSERT(J > 0) rejects every  *)
(* non-positive J, and the quadrature weights are positive.  (In a release *)
(* build this fails; see the run jacobian_release.)                        *)
(***************************************************************************)
PosInv == JxWPositive /\ (status = "ok" => ~ConstructorAborts)

THEOREM DebugJxWPositive == ~NDebug => (Spec => []JxWPositive)
<1> SUFFICES ASSUME ~NDebug PROVE Spec => []JxWPositive
  OBVIOUS
<1>1. Init => PosInv
  BY DEF Init, PosInv, JxWPositive, NoneAssumption
<1>2. PosInv /\ [Next]_vars => PosInv'
  <2> SUFFICES ASSUME PosInv, [Next]_vars PROVE PosInv'
    OBVIOUS
  <2>1. CASE UNCHANGED vars
    BY <2>1 DEF vars, PosInv, JxWPositive
  <2>2. ASSUME NEW p \in Elements, get_JxW(p) PROVE PosInv'
    <3>1. p \in [Nodes -> Point] /\ status = "ok" /\ ~ConstructorAborts
      BY <2>2 DEF get_JxW, PosInv
    <3>2. CASE AssertFails(p)
      BY <2>2, <3>2 DEF get_JxW, PosInv, JxWPositive
    <3>3. CASE ~AssertFails(p)
      <4>1. Quad9RuleInRange
        BY <3>1 DEF ConstructorAborts, Quad9RuleInRange, IsTensorRule
      <4>2. \A q \in QIdx : KernelJ(p, q) \in Int /\ KernelJ(p, q) > 0
        BY <3>1, <3>3, <4>1, KernelJInt DEF AssertFails
      <4>3. \A q \in QIdx : JxWOf(p)[q] > 0
        BY <4>2 DEF JxWOf
      <4>4. status' = "ok" /\ d_JxW' = JxWOf(p)
        BY <2>2, <3>3 DEF get_JxW
      <4>5. QED
        BY <3>1, <4>3, <4>4 DEF PosInv, JxWPositive
    <3>4. QED
      BY <3>2, <3>3
  <2>3. QED
    BY <2>1, <2>2 DEF Next
<1>3. PosInv => JxWPositive
  BY DEF PosInv
<1>4. QED
  BY <1>1, <1>2, <1>3, PTL DEF Spec
=============================================================================
