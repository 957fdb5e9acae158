------------------------ MODULE CUIConvectiveOperator ------------------------
(***************************************************************************)
(* IBAMR::AdvDiffCUIConservativeConvectiveOperator                         *)
(* (src/adv_diff/AdvDiffCUIConservativeConvectiveOperator.cpp): the        *)
(* operator state that initializeOperatorState builds and                  *)
(* deallocateOperatorState tears down (ghost-fill algorithm, physical      *)
(* boundary strategy, ghost-fill and coarsen schedules per level), the     *)
(* mass density index, and the phases of applyConvectiveOperator: scratch  *)
(* allocation, per-level ghost fill + CUI extrapolation + fluxes, coarse-  *)
(* fine flux synchronisation (finest to coarsest), per-level differencing  *)
(* into N, scratch deallocation.                                           *)
(*                                                                         *)
(* Data abstraction.  Patch data are not values but provenance records:   *)
(* which source index filled a scratch interior, which physical-boundary   *)
(* ghost regions (inflow, outflow) were set, which depth components were   *)
(* touched, which levels' fluxes a level's flux incorporates, and which    *)
(* initialisation created the schedules that were used.  All patches of a *)
(* level are treated together.                                             *)
(***************************************************************************)
EXTENDS Integers

CONSTANTS
  MaxLevel,       \* levels of the patch hierarchy are 0 .. MaxLevel
  QDepth,         \* d_Q_data_depth
  RhoDepth,       \* d_rho_data_depth (depth of the density variable)
  OutflowExtrap,  \* d_outflow_bdry_extrap_type # "NONE"
  QIndices,       \* patch data indices a caller passes as Q_idx or in[0]
  RhoIndices,     \* patch data indices a caller passes to setMassDensity
  NoIdx,          \* d_rho_idx before setMassDensity is called
  MaxInit         \* bound on the number of initializeOperatorState calls

ASSUME LevelAssumption == MaxLevel \in Nat
ASSUME DepthAssumption == QDepth \in Nat \ {0} /\ RhoDepth \in Nat \ {0}
ASSUME ExtrapAssumption == OutflowExtrap \in BOOLEAN
ASSUME IndexAssumption == NoIdx \notin QIndices \cup RhoIndices
ASSUME InitBoundAssumption == MaxInit \in Nat

Levels == 0 .. MaxLevel
Sources == QIndices \cup RhoIndices \cup {NoIdx}
Sides == {"inflow", "outflow"}          \* physical-boundary ghost regions
Fields == {"Q", "rho"}                  \* d_Q_scratch_idx, d_rho_scratch_idx
Scratch == {"Q_scratch", "q_extrap", "q_flux",
            "rho_scratch", "rho_extrap", "rho_flux"}
Phases == {"idle", "fill", "coarsen", "diff", "dealloc"}
NoStrategy == "none"                    \* a null d_ghostfill_strategy

\* A ghost-fill schedule: the registration it fills with, the physical
\* boundary strategy it was created with, and the initialisation it is from.
Schedule == [reg : [Fields -> Sources], strategy : Fields \cup {NoStrategy},
             epoch : 1 .. MaxInit]

\* What a level's q_flux was computed from.
FluxRec == [qSrc : Sources, qBdry : SUBSET Sides,
            rhoSrc : Sources, rhoBdry : SUBSET Sides,
            comps : SUBSET Nat, covers : SUBSET Levels,
            epochs : SUBSET (0 .. MaxInit)]

VARIABLES
  d_is_initialized,
  d_coarsest_ln, d_finest_ln,
  d_rho_idx,
  d_ghostfill_alg,       \* registration of the ghost-fill algorithm, or <<>>
  d_ghostfill_strategy,  \* the field its CartExtrapPhysBdryOp fills, or none
  d_ghostfill_scheds,    \* level -> Schedule (DOMAIN = non-null entries)
  d_coarsen_scheds,      \* level -> initialisation that built it (0: null)
  epoch,                 \* number of initializeOperatorState calls so far
  pc, lvl,               \* phase and level loop index of applyConvectiveOperator
  Q_idx,                 \* the Q_idx argument of the running apply
  allocated,             \* scratch (index, level) pairs currently allocated
  flux,                  \* level -> FluxRec of q_flux in the running apply
  N                      \* level -> FluxRec that N was differenced from

vars == <<d_is_initialized, d_coarsest_ln, d_finest_ln, d_rho_idx,
          d_ghostfill_alg, d_ghostfill_strategy, d_ghostfill_scheds,
          d_coarsen_scheds, epoch, pc, lvl, Q_idx, allocated, flux, N>>
opVars == <<d_is_initialized, d_coarsest_ln, d_finest_ln, d_ghostfill_alg,
            d_ghostfill_strategy, d_ghostfill_scheds, d_coarsen_scheds, epoch>>
applyVars == <<pc, lvl, Q_idx, allocated, flux, N>>

ApplyLevels == d_coarsest_ln .. d_finest_ln

-----------------------------------------------------------------------------
(***************************************************************************)
(* Constructor: scratch, extrapolation and flux indices are registered; no *)
(* operator state exists yet.                                              *)
(***************************************************************************)
Init ==
  /\ d_is_initialized = FALSE
  /\ d_coarsest_ln = 0
  /\ d_finest_ln = 0
  /\ d_rho_idx = NoIdx
  /\ d_ghostfill_alg = <<>>
  /\ d_ghostfill_strategy = NoStrategy
  /\ d_ghostfill_scheds = <<>>
  /\ d_coarsen_scheds = <<>>
  /\ epoch = 0
  /\ pc = "idle"
  /\ lvl = 0
  /\ Q_idx = NoIdx
  /\ allocated = {}
  /\ flux = <<>>
  /\ N = <<>>

\* setMassDensity(rho_idx)
setMassDensity(r) ==
  /\ pc = "idle"
  /\ d_rho_idx' = r
  /\ UNCHANGED <<opVars, applyVars>>

(***************************************************************************)
(* deallocateOperatorState: returns at once unless initialised; otherwise  *)
(* nulls the ghost-fill algorithm, strategy and schedules.  The coarsen    *)
(* algorithm and schedules are left in place.                              *)
(***************************************************************************)
deallocateOperatorState ==
  /\ pc = "idle"
  /\ d_is_initialized
  /\ d_ghostfill_alg' = <<>>
  /\ d_ghostfill_strategy' = NoStrategy
  /\ d_ghostfill_scheds' = <<>>
  /\ d_is_initialized' = FALSE
  /\ UNCHANGED <<d_coarsest_ln, d_finest_ln, d_rho_idx, d_coarsen_scheds,
                 epoch, applyVars>>

(***************************************************************************)
(* initializeOperatorState(in, out), in's levels c .. f and component 0   *)
(* index in0: deallocate first if initialised; coarsen schedules for       *)
(* levels c+1 .. f in a vector resized to f+1; the ghost-fill algorithm    *)
(* registers rho_scratch and then Q_scratch, both from in0, each followed  *)
(* (when the outflow extrapolation type is not NONE) by a new              *)
(* CartExtrapPhysBdryOp for that scratch index assigned to the one         *)
(* d_ghostfill_strategy; ghost-fill schedules for levels c .. f.           *)
(***************************************************************************)
\* Mutant: the two registrations in the opposite order (Q first, rho last).
GhostfillStrategySwapped(old) ==
  LET afterQ == IF OutflowExtrap THEN "Q" ELSE old
  IN  IF OutflowExtrap THEN "rho" ELSE afterQ

GhostfillStrategy(old) ==
  LET afterRho == IF OutflowExtrap THEN "rho" ELSE old
  IN  IF OutflowExtrap THEN "Q" ELSE afterRho

\* Mutant: the schedule loop stops one level short (ln < d_finest_ln).
CoarsenSchedulesShort(c, f, e) ==
  [ln \in 0 .. f |->
     IF ln \in c + 1 .. f - 1 THEN e
     ELSE IF ln \in DOMAIN d_coarsen_scheds THEN d_coarsen_scheds[ln]
     ELSE 0]

\* d_coarsen_scheds after resize(f + 1) and the loop over levels c+1 .. f.
CoarsenSchedules(c, f, e) ==
  [ln \in 0 .. f |->
     IF ln \in c + 1 .. f THEN e
     ELSE IF ln \in DOMAIN d_coarsen_scheds THEN d_coarsen_scheds[ln]
     ELSE 0]

\* Mutant: the schedule loop starts one level low (ln = d_coarsest_ln - 1).
GhostfillSchedulesFromBelow(c, f, alg, strategy, e) ==
  [ln \in c - 1 .. f |-> [reg |-> alg, strategy |-> strategy, epoch |-> e]]

\* d_ghostfill_scheds after resize(f + 1) and createSchedule on levels c .. f.
GhostfillSchedules(c, f, alg, strategy, e) ==
  [ln \in c .. f |-> [reg |-> alg, strategy |-> strategy, epoch |-> e]]

initializeOperatorState(c, f, in0) ==
  /\ pc = "idle"
  /\ epoch < MaxInit
  /\ c <= f
  /\ LET e == epoch + 1
         alg == [fld \in Fields |-> in0]
         strategy0 == IF d_is_initialized THEN NoStrategy ELSE d_ghostfill_strategy
         strategy == GhostfillStrategy(strategy0)
     IN  /\ d_coarsest_ln' = c
         /\ d_finest_ln' = f
         /\ d_coarsen_scheds' = CoarsenSchedules(c, f, e)
         /\ d_ghostfill_alg' = alg
         /\ d_ghostfill_strategy' = strategy
         /\ d_ghostfill_scheds' = GhostfillSchedules(c, f, alg, strategy, e)
         /\ d_is_initialized' = TRUE
         /\ epoch' = e
  /\ UNCHANGED <<d_rho_idx, applyVars>>

-----------------------------------------------------------------------------
(***************************************************************************)
(* applyConvectiveOperator(Q_idx, N_idx).                                  *)
(***************************************************************************)

\* The indices allocatePatchData is called with on every level c .. f.
AllocatedScratch == {"Q_scratch", "q_extrap", "q_flux",
                     "rho_scratch", "rho_extrap", "rho_flux"}

\* Entry check (debug builds) and allocation of the scratch indices.
ApplyStart(q) ==
  /\ pc = "idle"
  /\ d_is_initialized
  /\ allocated' = allocated \cup (AllocatedScratch \X ApplyLevels)
  /\ Q_idx' = q
  /\ flux' = <<>>
  /\ N' = <<>>
  /\ pc' = "fill"
  /\ lvl' = d_coarsest_ln
  /\ UNCHANGED <<opVars, d_rho_idx>>

\* The registration the fill uses: refine_alg (Q_scratch from Q_idx,
\* rho_scratch from d_rho_idx) reset into the level's schedule.
\* Mutant: fillData without the preceding refine_alg->resetSchedule.
FillRegistrationNoReset(sched) == sched.reg

FillRegistration(sched) == [fld \in Fields |-> IF fld = "Q" THEN Q_idx ELSE d_rho_idx]

\* Physical-boundary ghost regions of field fld set on a level: by the
\* schedule's strategy during fillData, then by setPhysicalBoundaryConditions
\* (inflow only when outflow extrapolation is on).
BoundaryFilled(sched, fld) ==
  (IF sched.strategy = fld THEN Sides ELSE {})
    \cup (IF OutflowExtrap THEN {"inflow"} ELSE Sides)

\* Depth components the per-depth loops touch: d < d_Q_data_depth for both
\* Q and rho data.
ComponentsTouched == 0 .. QDepth - 1

(***************************************************************************)
(* One iteration of the level loop: fill ghost cells with refine_alg's     *)
(* registration (resetSchedule, fillData, reset back), then on every patch *)
(* set inflow boundary values for Q and rho, CUI-extrapolate Q and rho to  *)
(* faces and compute rho_flux and from it q_flux, for each component.      *)
(***************************************************************************)
ApplyFillLevel ==
  /\ pc = "fill"
  /\ LET sched == d_ghostfill_scheds[lvl]
         reg == FillRegistration(sched)
     IN  flux' = [ln \in DOMAIN flux \cup {lvl} |->
                    IF ln = lvl
                    THEN [qSrc |-> reg["Q"], qBdry |-> BoundaryFilled(sched, "Q"),
                          rhoSrc |-> reg["rho"],
                          rhoBdry |-> BoundaryFilled(sched, "rho"),
                          comps |-> ComponentsTouched, covers |-> {lvl},
                          epochs |-> {sched.epoch}]
                    ELSE flux[ln]]
  /\ IF lvl < d_finest_ln
       THEN pc' = "fill" /\ lvl' = lvl + 1
       ELSE IF d_finest_ln > d_coarsest_ln
              THEN pc' = "coarsen" /\ lvl' = d_finest_ln
              ELSE pc' = "diff" /\ lvl' = d_coarsest_ln
  /\ UNCHANGED <<opVars, d_rho_idx, Q_idx, allocated, N>>

(***************************************************************************)
(* Synchronisation loop, ln = finest down to coarsest + 1: the coarsen     *)
(* schedule of ln averages level ln's fluxes onto level ln - 1.            *)
(***************************************************************************)
\* The coarse level's flux after the coarsen schedule built by initialisation
\* e has averaged the fine level's flux onto it.
CoarsenedFlux(coarse, fine, e) ==
  [coarse EXCEPT !.covers = @ \cup fine.covers, !.epochs = @ \cup {e}]

\* Mutant: the loop condition ln > d_coarsest_ln + 1 (one level too few).
ApplyCoarsenLevelShort ==
  /\ pc = "coarsen"
  /\ flux' = [flux EXCEPT ![lvl - 1] =
                CoarsenedFlux(flux[lvl - 1], flux[lvl], d_coarsen_scheds[lvl])]
  /\ IF lvl - 1 > d_coarsest_ln + 1
       THEN pc' = "coarsen" /\ lvl' = lvl - 1
       ELSE pc' = "diff" /\ lvl' = d_coarsest_ln
  /\ UNCHANGED <<opVars, d_rho_idx, Q_idx, allocated, N>>

ApplyCoarsenLevel ==
  /\ pc = "coarsen"
  /\ flux' = [flux EXCEPT ![lvl - 1] =
                CoarsenedFlux(flux[lvl - 1], flux[lvl], d_coarsen_scheds[lvl])]
  /\ IF lvl - 1 > d_coarsest_ln
       THEN pc' = "coarsen" /\ lvl' = lvl - 1
       ELSE pc' = "diff" /\ lvl' = d_coarsest_ln
  /\ UNCHANGED <<opVars, d_rho_idx, Q_idx, allocated, N>>

\* Mutant: the loop increment ++ln is missing, so the loop never ends.
ApplyDifferenceLevelNoIncrement ==
  /\ pc = "diff"
  /\ N' = [ln \in DOMAIN N \cup {lvl} |-> IF ln = lvl THEN flux[lvl] ELSE N[ln]]
  /\ IF lvl < d_finest_ln
       THEN pc' = "diff" /\ lvl' = lvl
       ELSE pc' = "dealloc" /\ lvl' = lvl
  /\ UNCHANGED <<opVars, d_rho_idx, Q_idx, allocated, flux>>

\* Differencing loop: N on level lvl from that level's q_flux.
ApplyDifferenceLevel ==
  /\ pc = "diff"
  /\ N' = [ln \in DOMAIN N \cup {lvl} |-> IF ln = lvl THEN flux[lvl] ELSE N[ln]]
  /\ IF lvl < d_finest_ln
       THEN pc' = "diff" /\ lvl' = lvl + 1
       ELSE pc' = "dealloc" /\ lvl' = lvl
  /\ UNCHANGED <<opVars, d_rho_idx, Q_idx, allocated, flux>>

\* The indices deallocatePatchData is called with on every level c .. f.
DeallocatedScratch == {"Q_scratch", "q_extrap", "q_flux",
                       "rho_scratch", "rho_extrap", "rho_flux"}

\* Mutant: the deallocation of d_rho_flux_idx is missing.
ApplyDeallocateKeepsRhoFlux ==
  /\ pc = "dealloc"
  /\ allocated' = allocated \ ((DeallocatedScratch \ {"rho_flux"}) \X ApplyLevels)
  /\ flux' = <<>>
  /\ pc' = "idle"
  /\ lvl' = d_coarsest_ln
  /\ UNCHANGED <<opVars, d_rho_idx, Q_idx, N>>

\* Deallocation of the scratch indices on every level; apply returns.
ApplyDeallocate ==
  /\ pc = "dealloc"
  /\ allocated' = allocated \ (DeallocatedScratch \X ApplyLevels)
  /\ flux' = <<>>
  /\ pc' = "idle"
  /\ lvl' = d_coarsest_ln
  /\ UNCHANGED <<opVars, d_rho_idx, Q_idx, N>>

Next ==
  \/ \E r \in RhoIndices : setMassDensity(r)
  \/ deallocateOperatorState
  \/ \E c, f \in Levels, in0 \in QIndices : initializeOperatorState(c, f, in0)
  \/ \E q \in QIndices : ApplyStart(q)
  \/ ApplyFillLevel
  \/ ApplyCoarsenLevel
  \/ ApplyDifferenceLevel
  \/ ApplyDeallocate

Spec == Init /\ [][Next]_vars

(***************************************************************************)
(* applyConvectiveOperator is one synchronous call whose loops run over    *)
(* the fixed range d_coarsest_ln .. d_finest_ln: once it has started, its  *)
(* steps are taken until it returns.  The caller's operations              *)
(* (setMassDensity, initialisation, deallocation, the next apply) are not  *)
(* obliged to happen, so they get no fairness.                             *)
(***************************************************************************)
ApplyFairness ==
  /\ WF_vars(ApplyFillLevel)
  /\ WF_vars(ApplyCoarsenLevel)
  /\ WF_vars(ApplyDifferenceLevel)
  /\ WF_vars(ApplyDeallocate)

FairSpec == Spec /\ ApplyFairness

-----------------------------------------------------------------------------
\* f is a function from some set of levels to S.
LevelFn(f, S) == DOMAIN f \subseteq Levels /\ f \in [DOMAIN f -> S]

TypeOK ==
  /\ d_is_initialized \in BOOLEAN
  /\ d_coarsest_ln \in Levels /\ d_finest_ln \in Levels
  /\ d_rho_idx \in RhoIndices \cup {NoIdx}
  /\ d_ghostfill_alg \in {<<>>} \cup [Fields -> Sources]
  /\ d_ghostfill_strategy \in Fields \cup {NoStrategy}
  /\ LevelFn(d_ghostfill_scheds, Schedule)
  /\ LevelFn(d_coarsen_scheds, 0 .. MaxInit)
  /\ epoch \in 0 .. MaxInit
  /\ pc \in Phases /\ lvl \in Levels
  /\ Q_idx \in QIndices \cup {NoIdx}
  /\ allocated \subseteq Scratch \X Levels
  /\ LevelFn(flux, FluxRec)
  /\ LevelFn(N, FluxRec)

(***************************************************************************)
(* When the differencing loop of applyConvectiveOperator has finished, N   *)
(* on every level was differenced from fluxes that incorporate the fluxes  *)
(* of every finer level: the finest-to-coarsest coarsen loop ran, on the   *)
(* right levels and in the right order, before differencing.               *)
(***************************************************************************)
FluxesSynchronized ==
  pc = "dealloc" => \A ln \in ApplyLevels : N[ln].covers = ln .. d_finest_ln

(***************************************************************************)
(* Every flux of a running apply was computed from the Q_idx passed to     *)
(* applyConvectiveOperator and the density index last given to            *)
(* setMassDensity, although the ghost-fill schedules were created by       *)
(* initializeOperatorState with both scratch fields registered from in[0]. *)
(***************************************************************************)
ConvectsCurrentFields ==
  \A ln \in DOMAIN flux : flux[ln].qSrc = Q_idx /\ flux[ln].rhoSrc = d_rho_idx

(***************************************************************************)
(* Q is CUI-extrapolated only after every physical-boundary ghost region   *)
(* of its scratch data has been set (inflow by the boundary conditions,    *)
(* outflow by the extrapolation strategy of the ghost-fill schedule).      *)
(***************************************************************************)
QGhostsComplete == \A ln \in DOMAIN flux : flux[ln].qBdry = Sides

(***************************************************************************)
(* The same for the density: rho is CUI-extrapolated only after every      *)
(* physical-boundary ghost region of rho_scratch has been set.             *)
(***************************************************************************)
RhoGhostsComplete == \A ln \in DOMAIN flux : flux[ln].rhoBdry = Sides

(***************************************************************************)
(* Every ghost-fill and coarsen schedule an apply uses was created by the  *)
(* most recent initializeOperatorState, never left over (or null) from an  *)
(* earlier hierarchy configuration.                                        *)
(***************************************************************************)
SchedulesFresh == \A ln \in DOMAIN flux : flux[ln].epochs = {epoch}

(***************************************************************************)
(* Scratch data live exactly as long as an apply: all six indices are      *)
(* allocated on every level of the hierarchy range while the fill, coarsen *)
(* and differencing loops run, and none is left allocated between calls:   *)
(* the deallocation loop frees every (index, level) pair the allocation    *)
(* loop allocated, over the same level range, call after call.             *)
(***************************************************************************)
ScratchLifetime ==
  /\ pc = "idle" => allocated = {}
  /\ pc \in {"fill", "coarsen", "diff"} => allocated = Scratch \X ApplyLevels

(***************************************************************************)
(* The per-component loops index the density data only with components it *)
(* has: every component touched is below d_rho_data_depth.                 *)
(***************************************************************************)
RhoComponentsInRange == \A ln \in DOMAIN flux : flux[ln].comps \subseteq 0 .. RhoDepth - 1

-----------------------------------------------------------------------------
(***************************************************************************)
(* Refinement.  Between calls a caller sees the operator state and the N  *)
(* of the last apply (what it computed from, which of Q's boundary ghost   *)
(* regions were set, which levels' fluxes it incorporates, which           *)
(* initialisation's schedules it used); during a call it sees only that a  *)
(* call is running.  The schedules, the scratch data, the density's ghost  *)
(* regions and the components touched are hidden.                          *)
(***************************************************************************)
Observed ==
  IF pc = "idle"
  THEN [ln \in DOMAIN N |->
          [qSrc |-> N[ln].qSrc, qBdry |-> N[ln].qBdry, rhoSrc |-> N[ln].rhoSrc,
           covers |-> N[ln].covers, epochs |-> N[ln].epochs]]
  ELSE <<>>

Abstract == INSTANCE CUIConvectiveOperatorAbstract
              WITH initialized <- d_is_initialized, coarsest <- d_coarsest_ln,
                   finest <- d_finest_ln, rho_idx <- d_rho_idx,
                   busy <- pc # "idle", q <- Q_idx, N <- Observed

(***************************************************************************)
(* applyConvectiveOperator implements the operator's contract: every call  *)
(* that starts returns (its loops are bounded), and it returns N on every  *)
(* level of the initialised range computed from the Q_idx passed and the   *)
(* density last set, with Q's inflow and outflow ghost regions set, from   *)
(* fluxes synchronised with every finer level, using only schedules of the *)
(* latest initializeOperatorState; no other operation changes N.           *)
(***************************************************************************)
ImplementsAbstract == Abstract!Spec

-----------------------------------------------------------------------------
(***************************************************************************)
(* Inductive invariant behind TypeOK and FluxesSynchronized: the shape of  *)
(* the operator state after initialisation, the level loop index and the   *)
(* levels whose fluxes and N exist in each phase of an apply, and which    *)
(* finer levels each flux incorporates while the coarsen loop runs.        *)
(***************************************************************************)
OperatorShape ==
  /\ d_coarsest_ln <= d_finest_ln
  /\ d_is_initialized => /\ DOMAIN d_ghostfill_scheds = ApplyLevels
                          /\ epoch > 0
  /\ epoch > 0 => DOMAIN d_coarsen_scheds = 0 .. d_finest_ln
  /\ pc # "idle" => d_is_initialized /\ epoch > 0

ApplyShape ==
  /\ pc = "idle" => DOMAIN flux = {}
  /\ pc = "fill" => /\ lvl \in ApplyLevels
                    /\ DOMAIN flux = d_coarsest_ln .. lvl - 1
                    /\ DOMAIN N = {}
  /\ pc = "coarsen" => /\ lvl \in d_coarsest_ln + 1 .. d_finest_ln
                       /\ DOMAIN flux = ApplyLevels
                       /\ DOMAIN N = {}
  /\ pc = "diff" => /\ lvl \in ApplyLevels
                    /\ DOMAIN flux = ApplyLevels
                    /\ DOMAIN N = d_coarsest_ln .. lvl - 1
  /\ pc = "dealloc" => /\ DOMAIN flux = ApplyLevels
                       /\ DOMAIN N = ApplyLevels

Synchronisation ==
  /\ pc = "fill" => \A ln \in DOMAIN flux : flux[ln].covers = {ln}
  /\ pc = "coarsen" =>
       \A ln \in ApplyLevels :
         flux[ln].covers = IF ln >= lvl THEN ln .. d_finest_ln ELSE {ln}
  /\ pc \in {"diff", "dealloc"} =>
       \A ln \in ApplyLevels : flux[ln].covers = ln .. d_finest_ln
  /\ pc \in {"diff", "dealloc"} => \A ln \in DOMAIN N : N[ln] = flux[ln]

IInv == TypeOK /\ OperatorShape /\ ApplyShape /\ Synchronisation

(***************************************************************************)
(* Inductive invariant behind ConvectsCurrentFields, QGhostsComplete,      *)
(* SchedulesFresh, ScratchLifetime and the refinement: what the operator   *)
(* state holds after initialisation (every ghost-fill schedule fills Q's   *)
(* outflow ghosts when extrapolation is on, every schedule in use is from  *)
(* the latest initialisation), what every flux of a running apply was     *)
(* computed from, and which scratch data are allocated in each phase.     *)
(***************************************************************************)
Contents ==
  /\ OutflowExtrap /\ d_is_initialized =>
       \A ln \in ApplyLevels : d_ghostfill_scheds[ln].strategy = "Q"
  /\ d_is_initialized => \A ln \in ApplyLevels : d_ghostfill_scheds[ln].epoch = epoch
  /\ epoch > 0 => \A ln \in d_coarsest_ln + 1 .. d_finest_ln : d_coarsen_scheds[ln] = epoch
  /\ \A ln \in DOMAIN flux : /\ flux[ln].qSrc = Q_idx
                             /\ flux[ln].rhoSrc = d_rho_idx
                             /\ flux[ln].qBdry = Sides
                             /\ flux[ln].epochs = {epoch}
  /\ pc = "idle" => allocated = {}
  /\ pc # "idle" => allocated = Scratch \X ApplyLevels

FullInv == IInv /\ Contents

=============================================================================
