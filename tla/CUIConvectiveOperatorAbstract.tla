-------------------- MODULE CUIConvectiveOperatorAbstract --------------------
(***************************************************************************)
(* What IBAMR::AdvDiffCUIConservativeConvectiveOperator promises its       *)
(* callers, without schedules, scratch data or loops.  Between calls the   *)
(* operator is either uninitialised or initialised for a level range and  *)
(* holds a density index.  applyConvectiveOperator(Q_idx, N_idx) is one    *)
(* atomic step from the caller's point of view: it begins, and it ends     *)
(* with N on every level of the range computed from Q_idx and the current  *)
(* density, with all of Q's physical-boundary ghost regions set, from      *)
(* fluxes that incorporate every finer level, using only the schedules of  *)
(* the current initialisation.                                             *)
(***************************************************************************)
EXTENDS Integers

CONSTANTS MaxLevel, QIndices, RhoIndices, NoIdx, MaxInit

Levels == 0 .. MaxLevel
Sides == {"inflow", "outflow"}

\* What a caller can observe of N on one level.
Result == [qSrc : QIndices \cup {NoIdx}, qBdry : SUBSET Sides,
           rhoSrc : RhoIndices \cup {NoIdx}, covers : SUBSET Levels,
           epochs : SUBSET (0 .. MaxInit)]

VARIABLES
  initialized,          \* d_is_initialized
  coarsest, finest,     \* the level range of the last initialisation
  rho_idx,              \* the density index last given to setMassDensity
  epoch,                \* number of initialisations so far
  busy,                 \* an apply is running
  q,                    \* its Q_idx
  N                     \* level -> Result, the N of the last completed apply

avars == <<initialized, coarsest, finest, rho_idx, epoch, busy, q, N>>

Init ==
  /\ initialized = FALSE
  /\ coarsest = 0 /\ finest = 0
  /\ rho_idx = NoIdx
  /\ epoch = 0
  /\ busy = FALSE
  /\ q = NoIdx
  /\ N = <<>>

SetMassDensity(r) ==
  /\ ~busy
  /\ rho_idx' = r
  /\ UNCHANGED <<initialized, coarsest, finest, epoch, busy, q, N>>

Initialize(c, f) ==
  /\ ~busy
  /\ epoch < MaxInit
  /\ c <= f
  /\ initialized' = TRUE
  /\ coarsest' = c /\ finest' = f
  /\ epoch' = epoch + 1
  /\ UNCHANGED <<rho_idx, busy, q, N>>

Deallocate ==
  /\ ~busy
  /\ initialized
  /\ initialized' = FALSE
  /\ UNCHANGED <<coarsest, finest, rho_idx, epoch, busy, q, N>>

Begin(qi) ==
  /\ ~busy
  /\ initialized
  /\ busy' = TRUE
  /\ q' = qi
  /\ N' = <<>>
  /\ UNCHANGED <<initialized, coarsest, finest, rho_idx, epoch>>

\* The N an apply returns on level ln.
Convected(ln) ==
  [qSrc |-> q, qBdry |-> Sides, rhoSrc |-> rho_idx,
   covers |-> ln .. finest, epochs |-> {epoch}]

End ==
  /\ busy
  /\ busy' = FALSE
  /\ N' = [ln \in coarsest .. finest |-> Convected(ln)]
  /\ UNCHANGED <<initialized, coarsest, finest, rho_idx, epoch, q>>

Next ==
  \/ \E r \in RhoIndices : SetMassDensity(r)
  \/ \E c, f \in Levels : Initialize(c, f)
  \/ Deallocate
  \/ \E qi \in QIndices : Begin(qi)
  \/ End

SafetySpec == Init /\ [][Next]_avars

\* A call that has begun returns: applyConvectiveOperator is synchronous.
Spec == SafetySpec /\ WF_avars(End)

=============================================================================
