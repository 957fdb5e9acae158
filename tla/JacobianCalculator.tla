------------------------- MODULE JacobianCalculator -------------------------
(***************************************************************************)
(* One IBTK::JacobianCalculator instance (ibtk/src/lagrangian/             *)
(* JacobianCalculator.cpp): the object built for a quadrature key and the  *)
(* d_JxW buffer that every get_JxW(elem) call overwrites and returns.  The *)
(* values it computes are JacobianKernels'.                                *)
(***************************************************************************)
EXTENDS JacobianKernels

CONSTANTS
  Elements,   \* the elements get_JxW may be called with (node coordinates)
  None        \* no element yet

ASSUME ElementsAssumption == Elements \subseteq [Nodes -> Point]
ASSUME NoneAssumption == None \notin [Nodes -> Point]

-----------------------------------------------------------------------------
VARIABLES
  status,   \* "ok", or "aborted" once a TBOX_ASSERT has fired
  d_JxW,    \* the buffer get_JxW fills and returns by reference
  elem      \* the element of the last get_JxW call, or None

vars == <<status, d_JxW, elem>>

(***************************************************************************)
(* Construction: the base constructor resizes d_JxW to NQ zeros; the       *)
(* Quad9 constructor asserts the tensor-product layout of the rule.        *)
(***************************************************************************)
\* Mutant: d_JxW resized to one entry fewer than the rule has.
InitShortBuffer ==
  /\ status = IF ConstructorAborts THEN "aborted" ELSE "ok"
  /\ d_JxW = [q \in 0 .. NQ - 2 |-> 0]
  /\ elem = None

Init ==
  /\ status = IF ConstructorAborts THEN "aborted" ELSE "ok"
  /\ d_JxW = [q \in QIdx |-> 0]
  /\ elem = None

(***************************************************************************)
(* get_JxW(elem): copy the weights, multiply by J at every point, and      *)
(* TBOX_ASSERT(J > 0) at each point (compiled out when NDebug).  A failed  *)
(* assertion aborts the program; the partly written buffer is then never   *)
(* read, so it is left as it was.                                          *)
(***************************************************************************)
get_JxW(p) ==
  /\ status = "ok"
  /\ IF AssertFails(p)
       THEN /\ status' = "aborted"
            /\ elem' = p
            /\ UNCHANGED d_JxW
       ELSE /\ d_JxW' = JxWOf(p)
            /\ elem' = p
            /\ UNCHANGED status

Next == \E p \in Elements : get_JxW(p)

Spec == Init /\ [][Next]_vars

-----------------------------------------------------------------------------
TypeOK ==
  /\ status \in {"ok", "aborted"}
  /\ d_JxW \in [QIdx -> Int]
  /\ elem \in Elements \cup {None}

(***************************************************************************)
(* After every completed get_JxW the buffer holds, at each quadrature      *)
(* point, the weight times the Jacobian determinant that the generic       *)
(* LagrangeJacobianCalculator computes from libMesh's shape-function       *)
(* gradients for the same element, and a call aborts only on an element   *)
(* for which the generic path also finds J <= 0 at some point: each       *)
(* specialised closed form (and the Quad9 node remapping and 1-D table     *)
(* order) agrees with the generic path.                                    *)
(***************************************************************************)
KernelMatchesLagrange ==
  elem # None =>
    IF status = "ok" THEN d_JxW = LagrangeJxW(elem)
                     ELSE \E q \in QIdx : LagrangeJ(elem, q) <= 0

(***************************************************************************)
(* Every buffer get_JxW returns holds strictly positive values: a          *)
(* degenerate or inverted element is rejected by TBOX_ASSERT(J > 0) rather *)
(* than returned (an aborted program returns nothing).                     *)
(***************************************************************************)
JxWPositive ==
  status = "ok" /\ elem # None => \A q \in QIdx : d_JxW[q] > 0

=============================================================================
