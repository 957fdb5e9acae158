--------------------- MODULE CUIConvectiveOperatorProofs ---------------------
(***************************************************************************)
(* Proofs about CUIConvectiveOperator that hold for every number of        *)
(* levels, every depth and every bound on initialisations.  Both theorems  *)
(* rest on the inductive invariant IInv of CUIConvectiveOperator.  IInv    *)
(* adds to TypeOK the shape of the operator state after initialisation and *)
(* the shape of each apply phase (the loop index and the levels whose      *)
(* fluxes and N exist).  It also records which finer levels each flux      *)
(* incorporates while the finest-to-coarsest coarsen loop runs.            *)
(***************************************************************************)
EXTENDS CUIConvectiveOperator, TLAPS

USE LevelAssumption, DepthAssumption, ExtrapAssumption, IndexAssumption,
    InitBoundAssumption

\* The constructor's state satisfies the inductive invariant.
LEMMA InitIInv == Init => IInv
<1> SUFFICES ASSUME Init PROVE IInv
  OBVIOUS
<1>1. TypeOK
  <2>1. LevelFn(<<>>, Schedule) /\ LevelFn(<<>>, 0 .. MaxInit) /\ LevelFn(<<>>, FluxRec)
    BY DEF LevelFn
  <2>2. d_coarsest_ln \in Levels /\ d_finest_ln \in Levels /\ lvl \in Levels
    BY DEF Init, Levels
  <2>3. d_rho_idx \in RhoIndices \cup {NoIdx} /\ Q_idx \in QIndices \cup {NoIdx}
    BY DEF Init
  <2>4. d_ghostfill_alg \in {<<>>} \cup [Fields -> Sources]
    BY DEF Init
  <2>5. epoch \in 0 .. MaxInit
    BY DEF Init
  <2>6. pc \in Phases /\ d_ghostfill_strategy \in Fields \cup {NoStrategy}
    BY DEF Init, Phases, NoStrategy
  <2>7. QED
    BY <2>1, <2>2, <2>3, <2>4, <2>5, <2>6 DEF Init, TypeOK
<1>2. OperatorShape
  BY DEF Init, OperatorShape
<1>3. ApplyShape
  BY DEF Init, ApplyShape
<1>4. Synchronisation
  BY DEF Init, Synchronisation
<1>5. QED
  BY <1>1, <1>2, <1>3, <1>4 DEF IInv

\* Every operation preserves the inductive invariant: the setters,
\* initializeOperatorState, deallocateOperatorState, and each step of
\* applyConvectiveOperator's allocation, fill, coarsen, difference and
\* deallocation phases.
LEMMA StepIInv == IInv /\ [Next]_vars => IInv'
<1> SUFFICES ASSUME IInv, [Next]_vars PROVE IInv'
  OBVIOUS
<1>1. CASE UNCHANGED vars
  BY <1>1 DEF vars, IInv, TypeOK, LevelFn, OperatorShape, ApplyShape,
             Synchronisation, ApplyLevels
<1>2. ASSUME NEW r \in RhoIndices, setMassDensity(r) PROVE IInv'
  BY <1>2 DEF setMassDensity, opVars, applyVars, IInv, TypeOK, LevelFn,
             OperatorShape, ApplyShape, Synchronisation, ApplyLevels
<1>3. CASE deallocateOperatorState
  <2>1. TypeOK'
    <3>1. LevelFn(<<>>, Schedule)
      BY DEF LevelFn
    <3>2. QED
      BY <1>3, <3>1 DEF deallocateOperatorState, applyVars, IInv, TypeOK
  <2>2. OperatorShape'
    BY <1>3 DEF deallocateOperatorState, applyVars, IInv, OperatorShape
  <2>3. ApplyShape' /\ Synchronisation'
    BY <1>3 DEF deallocateOperatorState, applyVars, IInv, ApplyShape,
               Synchronisation, ApplyLevels
  <2>4. QED
    BY <2>1, <2>2, <2>3 DEF IInv
<1>4. ASSUME NEW c \in Levels, NEW f \in Levels, NEW in0 \in QIndices,
             initializeOperatorState(c, f, in0)
      PROVE IInv'
  <2> DEFINE e == epoch + 1
             alg == [fld \in Fields |-> in0]
             strategy0 == IF d_is_initialized THEN NoStrategy ELSE d_ghostfill_strategy
             strategy == GhostfillStrategy(strategy0)
  <2>1. /\ d_coarsest_ln' = c /\ d_finest_ln' = f /\ c <= f
        /\ d_coarsen_scheds' = CoarsenSchedules(c, f, e)
        /\ d_ghostfill_alg' = alg
        /\ d_ghostfill_strategy' = strategy
        /\ d_ghostfill_scheds' = GhostfillSchedules(c, f, alg, strategy, e)
        /\ d_is_initialized' = TRUE /\ epoch' = e /\ epoch < MaxInit
        /\ pc = "idle" /\ UNCHANGED <<d_rho_idx, applyVars>>
    BY <1>4 DEF initializeOperatorState
  <2>2. e \in 1 .. MaxInit
    BY <2>1 DEF IInv, TypeOK
  <2>3. alg \in [Fields -> Sources]
    BY DEF Sources
  <2>4. strategy \in Fields \cup {NoStrategy}
    BY DEF IInv, TypeOK, GhostfillStrategy, Fields
  <2>5. LevelFn(d_coarsen_scheds', 0 .. MaxInit)
    BY <2>1, <2>2 DEF IInv, TypeOK, LevelFn, CoarsenSchedules, Levels
  <2>6. LevelFn(d_ghostfill_scheds', Schedule)
    BY <2>1, <2>2, <2>3, <2>4 DEF LevelFn, GhostfillSchedules, Schedule, Levels
  <2>7. TypeOK'
    BY <2>1, <2>2, <2>3, <2>4, <2>5, <2>6 DEF IInv, TypeOK, applyVars, Sources
  <2>8. OperatorShape'
    BY <2>1, <2>2 DEF OperatorShape, GhostfillSchedules, CoarsenSchedules, ApplyLevels
  <2>9. ApplyShape' /\ Synchronisation'
    BY <2>1 DEF IInv, ApplyShape, Synchronisation, applyVars
  <2>10. QED
    BY <2>7, <2>8, <2>9 DEF IInv
<1>5. ASSUME NEW q \in QIndices, ApplyStart(q) PROVE IInv'
  <2>1. /\ allocated' = allocated \cup (AllocatedScratch \X ApplyLevels)
        /\ Q_idx' = q
        /\ flux' = <<>> /\ N' = <<>> /\ pc' = "fill" /\ lvl' = d_coarsest_ln
        /\ d_is_initialized /\ UNCHANGED <<opVars, d_rho_idx>>
    BY <1>5 DEF ApplyStart
  <2>2. LevelFn(<<>>, FluxRec)
    BY DEF LevelFn
  <2>a. allocated' \subseteq Scratch \X Levels
    BY <2>1 DEF IInv, TypeOK, OperatorShape, AllocatedScratch, Scratch,
                ApplyLevels, Levels
  <2>3. TypeOK'
    BY <2>1, <2>2, <2>a DEF IInv, TypeOK, opVars, ApplyLevels, Levels, Phases
  <2>4. OperatorShape'
    BY <2>1 DEF IInv, OperatorShape, opVars, ApplyLevels
  <2>5. ApplyShape' /\ Synchronisation'
    BY <2>1 DEF IInv, TypeOK, Levels, OperatorShape, ApplyShape,
               Synchronisation, opVars, ApplyLevels
  <2>6. QED
    BY <2>3, <2>4, <2>5 DEF IInv
<1>6. CASE ApplyFillLevel
  <2> DEFINE sched == d_ghostfill_scheds[lvl]
             reg == FillRegistration(sched)
             rec == [qSrc |-> reg["Q"], qBdry |-> BoundaryFilled(sched, "Q"),
                     rhoSrc |-> reg["rho"],
                     rhoBdry |-> BoundaryFilled(sched, "rho"),
                     comps |-> ComponentsTouched, covers |-> {lvl},
                     epochs |-> {sched.epoch}]
  <2>1. /\ pc = "fill"
        /\ flux' = [ln \in DOMAIN flux \cup {lvl} |->
                      IF ln = lvl THEN rec ELSE flux[ln]]
        /\ IF lvl < d_finest_ln
             THEN pc' = "fill" /\ lvl' = lvl + 1
             ELSE IF d_finest_ln > d_coarsest_ln
                    THEN pc' = "coarsen" /\ lvl' = d_finest_ln
                    ELSE pc' = "diff" /\ lvl' = d_coarsest_ln
        /\ UNCHANGED <<opVars, d_rho_idx, Q_idx, allocated, N>>
    BY <1>6 DEF ApplyFillLevel
  <2>2. /\ lvl \in ApplyLevels /\ DOMAIN flux = d_coarsest_ln .. lvl - 1
        /\ DOMAIN N = {} /\ d_is_initialized
        /\ \A ln \in DOMAIN flux : flux[ln].covers = {ln}
    BY <2>1 DEF IInv, ApplyShape, OperatorShape, Synchronisation
  <2>3. sched \in Schedule
    BY <2>2 DEF IInv, TypeOK, LevelFn, OperatorShape
  <2>4. rec \in FluxRec
    <3>1. reg["Q"] \in Sources /\ reg["rho"] \in Sources
      BY DEF IInv, TypeOK, FillRegistration, Sources, Fields
    <3>2. BoundaryFilled(sched, "Q") \subseteq Sides
          /\ BoundaryFilled(sched, "rho") \subseteq Sides
      BY DEF BoundaryFilled, Sides
    <3>3. ComponentsTouched \subseteq Nat
      BY DEF ComponentsTouched
    <3>4. {lvl} \subseteq Levels /\ {sched.epoch} \subseteq 0 .. MaxInit
      BY <2>2, <2>3 DEF IInv, TypeOK, Schedule
    <3>5. QED
      BY <3>1, <3>2, <3>3, <3>4 DEF FluxRec
  <2>5. DOMAIN flux' = d_coarsest_ln .. lvl
    BY <2>1, <2>2 DEF IInv, TypeOK, ApplyLevels, Levels
  <2>6. TypeOK'
    BY <2>1, <2>2, <2>4, <2>5 DEF IInv, TypeOK, LevelFn, opVars, Phases,
                                  ApplyLevels, Levels
  <2>7. OperatorShape'
    BY <2>1 DEF IInv, OperatorShape, opVars, ApplyLevels
  <2>8. \A ln \in DOMAIN flux' : flux'[ln].covers = {ln}
    BY <2>1, <2>2
  <2>9. ApplyShape' /\ Synchronisation'
    <3> USE DEF IInv, TypeOK, Levels
    <3>1. CASE lvl < d_finest_ln
      BY <2>1, <2>2, <2>5, <2>8, <3>1 DEF ApplyShape, Synchronisation,
                                          opVars, ApplyLevels
    <3>2. CASE ~(lvl < d_finest_ln) /\ d_finest_ln > d_coarsest_ln
      <4>1. lvl = d_finest_ln /\ pc' = "coarsen" /\ lvl' = d_finest_ln
        BY <2>1, <2>2, <3>2 DEF ApplyLevels
      <4>2. \A ln \in ApplyLevels' :
              flux'[ln].covers = IF ln >= lvl' THEN ln .. d_finest_ln' ELSE {ln}
        <5>1. SUFFICES ASSUME NEW ln \in d_coarsest_ln .. d_finest_ln
                       PROVE flux'[ln].covers =
                               IF ln >= d_finest_ln THEN ln .. d_finest_ln ELSE {ln}
          BY <2>1, <4>1 DEF opVars, ApplyLevels
        <5>2. ln \in DOMAIN flux' /\ flux'[ln].covers = {ln}
          BY <2>5, <2>8, <4>1
        <5>3. ln >= d_finest_ln => ln .. d_finest_ln = {ln}
          OBVIOUS
        <5>4. QED
          BY <5>2, <5>3
      <4>3. /\ lvl' \in d_coarsest_ln' + 1 .. d_finest_ln'
            /\ DOMAIN flux' = ApplyLevels' /\ DOMAIN N' = {}
        BY <2>1, <2>2, <2>5, <3>2, <4>1 DEF opVars, ApplyLevels
      <4>4. ApplyShape'
        BY <4>1, <4>3 DEF ApplyShape
      <4>5. Synchronisation'
        BY <4>1, <4>2 DEF Synchronisation
      <4>6. QED
        BY <4>4, <4>5
    <3>3. CASE ~(lvl < d_finest_ln) /\ ~(d_finest_ln > d_coarsest_ln)
      <4>1. lvl = d_finest_ln /\ d_finest_ln = d_coarsest_ln
            /\ pc' = "diff" /\ lvl' = d_coarsest_ln
        BY <2>1, <2>2, <3>3 DEF ApplyLevels
      <4>2. \A ln \in ApplyLevels' : flux'[ln].covers = ln .. d_finest_ln'
        <5>1. SUFFICES ASSUME NEW ln \in d_coarsest_ln .. d_finest_ln
                       PROVE flux'[ln].covers = ln .. d_finest_ln
          BY <2>1 DEF opVars, ApplyLevels
        <5>2. ln \in DOMAIN flux' /\ flux'[ln].covers = {ln}
          BY <2>5, <2>8, <4>1
        <5>3. ln .. d_finest_ln = {ln}
          BY <4>1
        <5>4. QED
          BY <5>2, <5>3
      <4>3. QED
        BY <2>1, <2>2, <2>5, <4>1, <4>2 DEF ApplyShape, Synchronisation,
                                           opVars, ApplyLevels
    <3>4. QED
      BY <3>1, <3>2, <3>3
  <2>10. QED
    BY <2>6, <2>7, <2>9 DEF IInv
<1>7. CASE ApplyCoarsenLevel
  <2> DEFINE rec == CoarsenedFlux(flux[lvl - 1], flux[lvl], d_coarsen_scheds[lvl])
  <2>1. /\ pc = "coarsen"
        /\ flux' = [flux EXCEPT ![lvl - 1] = rec]
        /\ IF lvl - 1 > d_coarsest_ln
             THEN pc' = "coarsen" /\ lvl' = lvl - 1
             ELSE pc' = "diff" /\ lvl' = d_coarsest_ln
        /\ UNCHANGED <<opVars, d_rho_idx, Q_idx, allocated, N>>
    BY <1>7 DEF ApplyCoarsenLevel, rec
  <2>2. /\ lvl \in d_coarsest_ln + 1 .. d_finest_ln
        /\ DOMAIN flux = ApplyLevels /\ DOMAIN N = {}
        /\ DOMAIN d_coarsen_scheds = 0 .. d_finest_ln
        /\ \A ln \in ApplyLevels :
             flux[ln].covers = IF ln >= lvl THEN ln .. d_finest_ln ELSE {ln}
    BY <2>1 DEF IInv, ApplyShape, OperatorShape, Synchronisation
  <2>3. /\ d_coarsest_ln \in Nat /\ d_finest_ln \in Nat /\ lvl \in Nat
        /\ lvl - 1 \in ApplyLevels /\ lvl \in ApplyLevels
    BY <2>2 DEF IInv, TypeOK, Levels, ApplyLevels
  <2>4. rec \in FluxRec
    <3>1. flux[lvl - 1] \in FluxRec /\ flux[lvl] \in FluxRec
      BY <2>2, <2>3 DEF IInv, TypeOK, LevelFn
    <3>2. d_coarsen_scheds[lvl] \in 0 .. MaxInit
      BY <2>2, <2>3 DEF IInv, TypeOK, LevelFn
    <3>3. QED
      BY <3>1, <3>2 DEF FluxRec, CoarsenedFlux
  <2>5. rec.covers = lvl - 1 .. d_finest_ln
    <3>1. flux[lvl - 1] \in FluxRec
      BY <2>2, <2>3 DEF IInv, TypeOK, LevelFn
    <3>2. flux[lvl - 1].covers = {lvl - 1}
      <4>1. ~(lvl - 1 >= lvl)
        BY <2>3
      <4>2. QED
        BY <2>2, <2>3, <4>1
    <3>3. flux[lvl].covers = lvl .. d_finest_ln
      BY <2>2, <2>3
    <3>4. rec.covers = flux[lvl - 1].covers \cup flux[lvl].covers
      BY <3>1 DEF FluxRec, rec, CoarsenedFlux
    <3>5. {lvl - 1} \cup (lvl .. d_finest_ln) = lvl - 1 .. d_finest_ln
      BY <2>2, <2>3
    <3>6. QED
      BY <3>2, <3>3, <3>4, <3>5
  <2>6. DOMAIN flux' = ApplyLevels
    BY <2>1, <2>2
  <2>7. TypeOK'
    BY <2>1, <2>3, <2>4, <2>6 DEF IInv, TypeOK, LevelFn, opVars, Phases,
                                  ApplyLevels, Levels
  <2>8. OperatorShape'
    BY <2>1 DEF IInv, OperatorShape, opVars, ApplyLevels
  <2>9. \A ln \in ApplyLevels :
          flux'[ln].covers = IF ln >= lvl - 1 THEN ln .. d_finest_ln ELSE {ln}
    <3>1. SUFFICES ASSUME NEW ln \in ApplyLevels
                   PROVE flux'[ln].covers =
                           IF ln >= lvl - 1 THEN ln .. d_finest_ln ELSE {ln}
      OBVIOUS
    <3>2. CASE ln = lvl - 1
      BY <2>1, <2>2, <2>5, <3>2
    <3>3. CASE ln # lvl - 1
      <4>1. flux'[ln] = flux[ln]
        BY <2>1, <2>2, <3>3
      <4>2. (ln >= lvl - 1) = (ln >= lvl)
        BY <2>3, <3>3 DEF ApplyLevels
      <4>3. QED
        BY <2>2, <4>1, <4>2
    <3>4. QED
      BY <3>2, <3>3
  <2>10. CASE lvl - 1 > d_coarsest_ln
    <3>1. pc' = "coarsen" /\ lvl' = lvl - 1
      BY <2>1, <2>10
    <3>2. ApplyShape'
      BY <2>1, <2>2, <2>3, <2>6, <2>10, <3>1 DEF ApplyShape, opVars, ApplyLevels
    <3>3. Synchronisation'
      BY <2>1, <2>9, <3>1 DEF Synchronisation, opVars, ApplyLevels
    <3>4. QED
      BY <2>7, <2>8, <3>2, <3>3 DEF IInv
  <2>11. CASE ~(lvl - 1 > d_coarsest_ln)
    <3>1. pc' = "diff" /\ lvl' = d_coarsest_ln /\ lvl - 1 = d_coarsest_ln
      BY <2>1, <2>3, <2>11 DEF ApplyLevels
    <3>2. ApplyShape'
      BY <2>1, <2>2, <2>3, <2>6, <3>1 DEF ApplyShape, opVars, ApplyLevels
    <3>3. Synchronisation'
      <4>1. \A ln \in ApplyLevels : flux'[ln].covers = ln .. d_finest_ln
        BY <2>3, <2>9, <3>1 DEF ApplyLevels
      <4>2. DOMAIN N' = {}
        BY <2>1, <2>2
      <4>3. QED
        BY <2>1, <3>1, <4>1, <4>2 DEF Synchronisation, opVars, ApplyLevels
    <3>4. QED
      BY <2>7, <2>8, <3>2, <3>3 DEF IInv
  <2>12. QED
    BY <2>10, <2>11
<1>8. CASE ApplyDifferenceLevel
  <2>1. /\ pc = "diff"
        /\ N' = [ln \in DOMAIN N \cup {lvl} |-> IF ln = lvl THEN flux[lvl] ELSE N[ln]]
        /\ IF lvl < d_finest_ln
             THEN pc' = "diff" /\ lvl' = lvl + 1
             ELSE pc' = "dealloc" /\ lvl' = lvl
        /\ UNCHANGED <<opVars, d_rho_idx, Q_idx, allocated, flux>>
    BY <1>8 DEF ApplyDifferenceLevel
  <2>2. /\ lvl \in ApplyLevels /\ DOMAIN flux = ApplyLevels
        /\ DOMAIN N = d_coarsest_ln .. lvl - 1
        /\ \A ln \in ApplyLevels : flux[ln].covers = ln .. d_finest_ln
        /\ \A ln \in DOMAIN N : N[ln] = flux[ln]
    BY <2>1 DEF IInv, ApplyShape, Synchronisation
  <2>3. /\ d_coarsest_ln \in Nat /\ d_finest_ln \in Nat /\ lvl \in Nat
        /\ flux[lvl] \in FluxRec
    BY <2>2 DEF IInv, TypeOK, LevelFn, Levels, ApplyLevels
  <2>4. /\ DOMAIN N' = d_coarsest_ln .. lvl
        /\ \A ln \in DOMAIN N' : N'[ln] = flux[ln]
    BY <2>1, <2>2, <2>3 DEF ApplyLevels
  <2>5. TypeOK'
    BY <2>1, <2>2, <2>3, <2>4 DEF IInv, TypeOK, LevelFn, opVars, Phases,
                                  ApplyLevels, Levels
  <2>6. OperatorShape'
    BY <2>1 DEF IInv, OperatorShape, opVars, ApplyLevels
  <2>7. ApplyShape' /\ Synchronisation'
    <3>1. CASE lvl < d_finest_ln
      BY <2>1, <2>2, <2>3, <2>4, <3>1 DEF ApplyShape, Synchronisation,
                                          opVars, ApplyLevels
    <3>2. CASE ~(lvl < d_finest_ln)
      <4>1. pc' = "dealloc" /\ lvl = d_finest_ln
        BY <2>1, <2>2, <2>3, <3>2 DEF ApplyLevels
      <4>2. QED
        BY <2>1, <2>2, <2>4, <4>1 DEF ApplyShape, Synchronisation,
                                     opVars, ApplyLevels
    <3>3. QED
      BY <3>1, <3>2
  <2>8. QED
    BY <2>5, <2>6, <2>7 DEF IInv
<1>9. CASE ApplyDeallocate
  <2>1. /\ pc = "dealloc"
        /\ allocated' = allocated \ (DeallocatedScratch \X ApplyLevels)
        /\ flux' = <<>> /\ pc' = "idle"
        /\ lvl' = d_coarsest_ln /\ UNCHANGED <<opVars, d_rho_idx, Q_idx, N>>
    BY <1>9 DEF ApplyDeallocate
  <2>2. LevelFn(<<>>, FluxRec)
    BY DEF LevelFn
  <2>a. allocated' \subseteq Scratch \X Levels
    BY <2>1 DEF IInv, TypeOK
  <2>3. TypeOK'
    BY <2>1, <2>2, <2>a DEF IInv, TypeOK, opVars, Phases
  <2>4. OperatorShape'
    BY <2>1 DEF IInv, OperatorShape, opVars, ApplyLevels
  <2>5. ApplyShape' /\ Synchronisation'
    BY <2>1 DEF ApplyShape, Synchronisation
  <2>6. QED
    BY <2>3, <2>4, <2>5 DEF IInv
<1>10. QED
  BY <1>1, <1>2, <1>3, <1>4, <1>5, <1>6, <1>7, <1>8, <1>9 DEF Next

\* IInv gives FluxesSynchronized: at dealloc N exists on every level of the
\* range and each N[ln] is the synchronised flux of that level.
LEMMA IInvSynchronized == IInv => FluxesSynchronized
<1> SUFFICES ASSUME IInv, pc = "dealloc", NEW ln \in ApplyLevels
             PROVE N[ln].covers = ln .. d_finest_ln
  BY DEF FluxesSynchronized
<1>1. ln \in DOMAIN N /\ N[ln] = flux[ln]
  BY DEF IInv, ApplyShape, Synchronisation
<1>2. QED
  BY <1>1 DEF IInv, Synchronisation

(***************************************************************************)
(* Type correctness of the operator state and of every apply phase, for    *)
(* every hierarchy depth and bound on initialisations: the schedules,      *)
(* fluxes and N are functions on levels of the hierarchy.                  *)
(***************************************************************************)
THEOREM TypeCorrect == Spec => []TypeOK
<1>1. Init => IInv
  BY InitIInv
<1>2. IInv /\ [Next]_vars => IInv'
  BY StepIInv
<1>3. IInv => TypeOK
  BY DEF IInv
<1>4. QED
  BY <1>1, <1>2, <1>3, PTL DEF Spec

(***************************************************************************)
(* applyConvectiveOperator differences N, on every level, from a flux that *)
(* incorporates the fluxes of every finer level, whatever the number of    *)
(* levels and however initialisations, deallocations, density changes and  *)
(* applies are interleaved.                                                *)
(***************************************************************************)
THEOREM FluxesAlwaysSynchronized == Spec => []FluxesSynchronized
<1>1. Init => IInv
  BY InitIInv
<1>2. IInv /\ [Next]_vars => IInv'
  BY StepIInv
<1>3. IInv => FluxesSynchronized
  BY IInvSynchronized
<1>4. QED
  BY <1>1, <1>2, <1>3, PTL DEF Spec
=============================================================================
