----------------- MODULE CUIConvectiveOperatorRefinementProofs -----------------
(***************************************************************************)
(* Proofs that every apply of CUIConvectiveOperator convects the current   *)
(* fields with complete Q ghosts, fresh schedules and correctly scoped     *)
(* scratch data, and that the safety part of the abstract operator         *)
(* contract CUIConvectiveOperatorAbstract is implemented under the         *)
(* refinement mapping Abstract.  All rest on FullInv = IInv /\ Contents:   *)
(* IInv (proved inductive in CUIConvectiveOperatorProofs) fixes the shape  *)
(* of each apply phase, and Contents what the schedules and fluxes hold.   *)
(***************************************************************************)
EXTENDS CUIConvectiveOperatorProofs

USE LevelAssumption, DepthAssumption, ExtrapAssumption, IndexAssumption,
    InitBoundAssumption

\* Q's ghost regions are all set by a fill with a schedule whose strategy
\* is Q's whenever outflow extrapolation is on.
LEMMA QBoundaryComplete ==
  ASSUME NEW sched, OutflowExtrap => sched.strategy = "Q"
  PROVE  BoundaryFilled(sched, "Q") = Sides
<1>1. CASE OutflowExtrap
  BY <1>1 DEF BoundaryFilled, Sides
<1>2. CASE ~OutflowExtrap
  BY <1>2 DEF BoundaryFilled
<1>3. QED
  BY <1>1, <1>2

\* The constructor's state satisfies Contents.
LEMMA InitContents == Init => Contents
BY DEF Init, Contents

\* Every operation preserves Contents, given IInv before and after.
LEMMA StepContents == IInv /\ Contents /\ [Next]_vars => Contents'
<1> SUFFICES ASSUME IInv, Contents, [Next]_vars PROVE Contents'
  OBVIOUS
<1>1. CASE UNCHANGED vars
  BY <1>1 DEF vars, Contents, ApplyLevels
<1>2. ASSUME NEW r \in RhoIndices, setMassDensity(r) PROVE Contents'
  <2>1. pc = "idle" /\ DOMAIN flux = {}
    BY <1>2 DEF setMassDensity, IInv, ApplyShape
  <2>2. QED
    BY <1>2, <2>1 DEF setMassDensity, opVars, applyVars, Contents, ApplyLevels
<1>3. CASE deallocateOperatorState
  <2>1. pc = "idle" /\ DOMAIN flux = {}
    BY <1>3 DEF deallocateOperatorState, IInv, ApplyShape
  <2>2. QED
    BY <1>3, <2>1 DEF deallocateOperatorState, applyVars, Contents, ApplyLevels
<1>4. ASSUME NEW c \in Levels, NEW f \in Levels, NEW in0 \in QIndices,
             initializeOperatorState(c, f, in0)
      PROVE Contents'
  <2> DEFINE e == epoch + 1
             alg == [fld \in Fields |-> in0]
             strategy0 == IF d_is_initialized THEN NoStrategy ELSE d_ghostfill_strategy
             strategy == GhostfillStrategy(strategy0)
  <2>1. /\ d_coarsest_ln' = c /\ d_finest_ln' = f
        /\ d_coarsen_scheds' = CoarsenSchedules(c, f, e)
        /\ d_ghostfill_scheds' = GhostfillSchedules(c, f, alg, strategy, e)
        /\ d_is_initialized' = TRUE /\ epoch' = e
        /\ pc = "idle" /\ UNCHANGED <<d_rho_idx, applyVars>>
    BY <1>4 DEF initializeOperatorState
  <2>2. DOMAIN flux = {}
    BY <2>1 DEF IInv, ApplyShape
  <2>3. OutflowExtrap => strategy = "Q"
    BY DEF GhostfillStrategy
  <2>4. \A ln \in c .. f : d_ghostfill_scheds'[ln] = [reg |-> alg, strategy |-> strategy, epoch |-> e]
    BY <2>1 DEF GhostfillSchedules
  <2>5. \A ln \in c + 1 .. f : d_coarsen_scheds'[ln] = e
    BY <2>1 DEF CoarsenSchedules, Levels, e
  <2>6. QED
    BY <2>1, <2>2, <2>3, <2>4, <2>5 DEF Contents, ApplyLevels, applyVars
<1>5. ASSUME NEW q \in QIndices, ApplyStart(q) PROVE Contents'
  <2>1. /\ pc = "idle"
        /\ allocated' = allocated \cup (AllocatedScratch \X ApplyLevels)
        /\ flux' = <<>> /\ pc' = "fill"
        /\ UNCHANGED <<opVars, d_rho_idx>>
    BY <1>5 DEF ApplyStart
  <2>2. AllocatedScratch = Scratch
    BY DEF AllocatedScratch, Scratch
  <2>3. allocated' = Scratch \X ApplyLevels'
    BY <2>1, <2>2 DEF Contents, opVars, ApplyLevels
  <2>4. QED
    BY <2>1, <2>3 DEF Contents, opVars, ApplyLevels
<1>6. CASE ApplyFillLevel
  <2> DEFINE sched == d_ghostfill_scheds[lvl]
             reg == FillRegistration(sched)
             rec == [qSrc |-> reg["Q"], qBdry |-> BoundaryFilled(sched, "Q"),
                     rhoSrc |-> reg["rho"],
                     rhoBdry |-> BoundaryFilled(sched, "rho"),
                     comps |-> ComponentsTouched, covers |-> {lvl},
                     epochs |-> {sched.epoch}]
  <2>1. /\ pc = "fill"
        /\ flux' = [ln \in DOMAIN flux \cup {lvl} |->
                      IF ln = lvl THEN rec ELSE flux[ln]]
        /\ pc' \in {"fill", "coarsen", "diff"}
        /\ UNCHANGED <<opVars, d_rho_idx, Q_idx, allocated, N>>
    BY <1>6 DEF ApplyFillLevel
  <2>2. lvl \in ApplyLevels /\ d_is_initialized
    BY <2>1 DEF IInv, ApplyShape, OperatorShape
  <2>3. /\ OutflowExtrap => sched.strategy = "Q"
        /\ sched.epoch = epoch
    BY <2>2 DEF Contents
  <2>4. /\ rec.qSrc = Q_idx /\ rec.rhoSrc = d_rho_idx
        /\ rec.epochs = {epoch}
    BY <2>3 DEF FillRegistration, Fields, rec, reg, sched
  <2>5. rec.qBdry = Sides
    BY <2>3, QBoundaryComplete DEF rec, sched
  <2>6. \A ln \in DOMAIN flux' : /\ flux'[ln].qSrc = Q_idx
                                /\ flux'[ln].rhoSrc = d_rho_idx
                                /\ flux'[ln].qBdry = Sides
                                /\ flux'[ln].epochs = {epoch}
    BY <2>1, <2>4, <2>5 DEF Contents
  <2>7. QED
    BY <2>1, <2>6 DEF Contents, opVars, ApplyLevels
<1>7. CASE ApplyCoarsenLevel
  <2> DEFINE rec == CoarsenedFlux(flux[lvl - 1], flux[lvl], d_coarsen_scheds[lvl])
  <2>1. /\ pc = "coarsen"
        /\ flux' = [flux EXCEPT ![lvl - 1] = rec]
        /\ pc' \in {"coarsen", "diff"}
        /\ UNCHANGED <<opVars, d_rho_idx, Q_idx, allocated, N>>
    BY <1>7 DEF ApplyCoarsenLevel, rec
  <2>2. /\ lvl \in d_coarsest_ln + 1 .. d_finest_ln
        /\ DOMAIN flux = ApplyLevels /\ epoch > 0
    BY <2>1 DEF IInv, ApplyShape, OperatorShape
  <2>3. /\ lvl - 1 \in ApplyLevels
        /\ flux[lvl - 1] \in FluxRec
    BY <2>2 DEF IInv, TypeOK, LevelFn, Levels, ApplyLevels
  <2>4. d_coarsen_scheds[lvl] = epoch
    BY <2>2 DEF Contents
  <2>5. /\ rec.qSrc = flux[lvl - 1].qSrc /\ rec.rhoSrc = flux[lvl - 1].rhoSrc
        /\ rec.qBdry = flux[lvl - 1].qBdry
        /\ rec.epochs = flux[lvl - 1].epochs \cup {d_coarsen_scheds[lvl]}
    BY <2>3 DEF CoarsenedFlux, FluxRec, rec
  <2>6. /\ rec.qSrc = Q_idx /\ rec.rhoSrc = d_rho_idx
        /\ rec.qBdry = Sides /\ rec.epochs = {epoch}
    BY <2>2, <2>3, <2>4, <2>5 DEF Contents
  <2>7. \A ln \in DOMAIN flux' : /\ flux'[ln].qSrc = Q_idx
                                /\ flux'[ln].rhoSrc = d_rho_idx
                                /\ flux'[ln].qBdry = Sides
                                /\ flux'[ln].epochs = {epoch}
    BY <2>1, <2>2, <2>3, <2>6 DEF Contents
  <2>8. QED
    BY <2>1, <2>7 DEF Contents, opVars, ApplyLevels
<1>8. CASE ApplyDifferenceLevel
  <2>1. /\ pc = "diff" /\ pc' \in {"diff", "dealloc"}
        /\ UNCHANGED <<opVars, d_rho_idx, Q_idx, allocated, flux>>
    BY <1>8 DEF ApplyDifferenceLevel
  <2>2. QED
    BY <2>1 DEF Contents, opVars, ApplyLevels
<1>9. CASE ApplyDeallocate
  <2>1. /\ pc = "dealloc"
        /\ allocated' = allocated \ (DeallocatedScratch \X ApplyLevels)
        /\ flux' = <<>> /\ pc' = "idle"
        /\ UNCHANGED <<opVars, d_rho_idx, Q_idx, N>>
    BY <1>9 DEF ApplyDeallocate
  <2>2. DeallocatedScratch = Scratch
    BY DEF DeallocatedScratch, Scratch
  <2>3. allocated' = {}
    BY <2>1, <2>2 DEF Contents
  <2>4. QED
    BY <2>1, <2>3 DEF Contents, opVars, ApplyLevels
<1>10. QED
  BY <1>1, <1>2, <1>3, <1>4, <1>5, <1>6, <1>7, <1>8, <1>9 DEF Next

\* FullInv holds initially and is preserved by every step.
LEMMA InitFullInv == Init => FullInv
BY InitIInv, InitContents DEF FullInv

LEMMA StepFullInv == FullInv /\ [Next]_vars => FullInv'
BY StepIInv, StepContents DEF FullInv

(***************************************************************************)
(* Every flux an apply computes was filled from the Q_idx passed to        *)
(* applyConvectiveOperator and the density index last given to            *)
(* setMassDensity (refine_alg's registration is reset into each ghost-fill *)
(* schedule), for every hierarchy and every sequence of calls.             *)
(***************************************************************************)
THEOREM CurrentFieldsAlwaysConvected == Spec => []ConvectsCurrentFields
<1>1. FullInv => ConvectsCurrentFields
  BY DEF FullInv, Contents, ConvectsCurrentFields
<1>2. QED
  BY InitFullInv, StepFullInv, <1>1, PTL DEF Spec

(***************************************************************************)
(* Q is CUI-extrapolated only after both of its physical-boundary ghost    *)
(* regions were set: with outflow extrapolation on, every ghost-fill       *)
(* schedule carries Q's CartExtrapPhysBdryOp, because it is the last one   *)
(* assigned to d_ghostfill_strategy.                                       *)
(***************************************************************************)
THEOREM QGhostsAlwaysComplete == Spec => []QGhostsComplete
<1>1. FullInv => QGhostsComplete
  BY DEF FullInv, Contents, QGhostsComplete
<1>2. QED
  BY InitFullInv, StepFullInv, <1>1, PTL DEF Spec

(***************************************************************************)
(* Every ghost-fill and coarsen schedule an apply uses is from the latest  *)
(* initializeOperatorState, although d_coarsen_scheds is only resized and  *)
(* never cleared across re-initialisations on other level ranges.          *)
(***************************************************************************)
THEOREM SchedulesAlwaysFresh == Spec => []SchedulesFresh
<1>1. FullInv => SchedulesFresh
  BY DEF FullInv, Contents, SchedulesFresh
<1>2. QED
  BY InitFullInv, StepFullInv, <1>1, PTL DEF Spec

(***************************************************************************)
(* Scratch data are allocated on exactly the apply's levels while its      *)
(* loops run and on none between calls.                                    *)
(***************************************************************************)
THEOREM ScratchScoped == Spec => []ScratchLifetime
<1>1. FullInv => ScratchLifetime
  BY DEF FullInv, Contents, ScratchLifetime
<1>2. QED
  BY InitFullInv, StepFullInv, <1>1, PTL DEF Spec

-----------------------------------------------------------------------------
(***************************************************************************)
(* Refinement of the safety part of the abstract contract.                 *)
(***************************************************************************)

\* At the end of the differencing loop, the N a caller will see is the N
\* the abstract apply returns.
LEMMA ObservedAtReturn ==
  ASSUME FullInv, pc = "dealloc"
  PROVE  [ln \in DOMAIN N |->
            [qSrc |-> N[ln].qSrc, qBdry |-> N[ln].qBdry, rhoSrc |-> N[ln].rhoSrc,
             covers |-> N[ln].covers, epochs |-> N[ln].epochs]]
         = [ln \in d_coarsest_ln .. d_finest_ln |-> Abstract!Convected(ln)]
<1>1. DOMAIN N = d_coarsest_ln .. d_finest_ln
  BY DEF FullInv, IInv, ApplyShape, ApplyLevels
<1>2. ASSUME NEW ln \in d_coarsest_ln .. d_finest_ln
      PROVE  /\ N[ln].qSrc = Q_idx /\ N[ln].qBdry = Sides
             /\ N[ln].rhoSrc = d_rho_idx /\ N[ln].covers = ln .. d_finest_ln
             /\ N[ln].epochs = {epoch}
  <2>1. N[ln] = flux[ln] /\ ln \in DOMAIN flux
    BY <1>1 DEF FullInv, IInv, ApplyShape, Synchronisation, ApplyLevels
  <2>2. flux[ln].covers = ln .. d_finest_ln
    BY DEF FullInv, IInv, Synchronisation, ApplyLevels
  <2>3. QED
    BY <2>1, <2>2 DEF FullInv, Contents
<1>3. QED
  BY <1>1, <1>2 DEF Abstract!Convected, Abstract!Sides, Sides

\* Every step of the detailed operator is a step of the abstract one or
\* leaves the caller's view unchanged.
LEMMA StepRefines ==
  FullInv /\ [Next]_vars => [Abstract!Next]_Abstract!avars
<1> SUFFICES ASSUME FullInv, [Next]_vars
             PROVE  [Abstract!Next]_Abstract!avars
  OBVIOUS
<1>1. CASE UNCHANGED vars
  BY <1>1 DEF vars, Abstract!avars, Observed
<1>2. ASSUME NEW r \in RhoIndices, setMassDensity(r)
      PROVE  Abstract!SetMassDensity(r)
  BY <1>2 DEF setMassDensity, opVars, applyVars, Abstract!SetMassDensity,
             Observed
<1>3. CASE deallocateOperatorState
  BY <1>3 DEF deallocateOperatorState, applyVars, Abstract!Deallocate,
             Abstract!Next, Observed
<1>4. ASSUME NEW c \in Levels, NEW f \in Levels, NEW in0 \in QIndices,
             initializeOperatorState(c, f, in0)
      PROVE  Abstract!Initialize(c, f)
  BY <1>4 DEF initializeOperatorState, applyVars, Abstract!Initialize,
             Observed
<1>5. ASSUME NEW q \in QIndices, ApplyStart(q) PROVE Abstract!Begin(q)
  BY <1>5 DEF ApplyStart, opVars, Abstract!Begin, Observed
<1>6. ASSUME pc # "idle", pc' # "idle",
             UNCHANGED <<opVars, d_rho_idx, Q_idx>>
      PROVE  UNCHANGED Abstract!avars
  BY <1>6 DEF opVars, Abstract!avars, Observed
<1>7. CASE ApplyFillLevel
  <2>1. pc = "fill" /\ pc' \in {"fill", "coarsen", "diff"}
        /\ UNCHANGED <<opVars, d_rho_idx, Q_idx>>
    BY <1>7 DEF ApplyFillLevel
  <2>2. QED
    BY <2>1, <1>6
<1>8. CASE ApplyCoarsenLevel
  <2>1. pc = "coarsen" /\ pc' \in {"coarsen", "diff"}
        /\ UNCHANGED <<opVars, d_rho_idx, Q_idx>>
    BY <1>8 DEF ApplyCoarsenLevel
  <2>2. QED
    BY <2>1, <1>6
<1>9. CASE ApplyDifferenceLevel
  <2>1. pc = "diff" /\ pc' \in {"diff", "dealloc"}
        /\ UNCHANGED <<opVars, d_rho_idx, Q_idx>>
    BY <1>9 DEF ApplyDifferenceLevel
  <2>2. QED
    BY <2>1, <1>6
<1>10. CASE ApplyDeallocate
  <2>1. /\ pc = "dealloc" /\ pc' = "idle"
        /\ UNCHANGED <<opVars, d_rho_idx, Q_idx, N>>
    BY <1>10 DEF ApplyDeallocate
  <2>2. Observed' = [ln \in d_coarsest_ln .. d_finest_ln |-> Abstract!Convected(ln)]
    BY <2>1, ObservedAtReturn DEF Observed
  <2>3. Abstract!End
    BY <2>1, <2>2 DEF Abstract!End, opVars
  <2>4. QED
    BY <2>3 DEF Abstract!Next
<1>11. CASE \E r \in RhoIndices : setMassDensity(r)
  BY <1>2, <1>11 DEF Abstract!Next
<1>12. CASE \E c, f \in Levels, in0 \in QIndices : initializeOperatorState(c, f, in0)
  BY <1>4, <1>12 DEF Abstract!Next, Abstract!Levels, Levels
<1>13. CASE \E q \in QIndices : ApplyStart(q)
  BY <1>5, <1>13 DEF Abstract!Next
<1>14. QED
  BY <1>1, <1>3, <1>7, <1>8, <1>9, <1>10, <1>11, <1>12, <1>13 DEF Next

(***************************************************************************)
(* The detailed operator implements the safety part of its contract: from  *)
(* the caller's point of view every behaviour of setMassDensity,           *)
(* initializeOperatorState, deallocateOperatorState and                    *)
(* applyConvectiveOperator is one of CUIConvectiveOperatorAbstract, in     *)
(* which an apply returns N on every level of the range computed from the *)
(* current fields, with Q's ghosts complete, from synchronised fluxes and  *)
(* fresh schedules, and nothing else changes N.                            *)
(***************************************************************************)
THEOREM RefinesAbstractSafety == Spec => Abstract!SafetySpec
<1>1. Init => Abstract!Init
  BY DEF Init, Abstract!Init, Observed
<1>2. QED
  BY <1>1, InitFullInv, StepFullInv, StepRefines, PTL DEF Spec, Abstract!SafetySpec

=============================================================================
