# TLA+ models of IBAMR's Jacobian calculators and CUI conservative convective operator

This directory holds TLA+ specifications of two parts of the repository. It
also holds the TLC configurations that model-check them and TLAPS proofs of
their main invariants.

## The system and its parts

| Part | Source | Role |
|---|---|---|
| `JacobianCalculator` and its subclasses | `src/ibtk/src/lagrangian/JacobianCalculator.cpp` | Given a quadrature key, tabulate what does not depend on the element. Then, for each element, return the buffer `d_JxW[q] = w_q * J(xi_q)`. The subclasses are the generic `LagrangeJacobianCalculator<dim,spacedim>` and the closed-form Tri3, Quad4, Quad9 and Tet4 kernels. |
| `AdvDiffCUIConservativeConvectiveOperator` | `src/src/adv_diff/AdvDiffCUIConservativeConvectiveOperator.cpp` | Computes the conservative convective term `N = div(u rho Q)` on an AMR patch hierarchy. `initializeOperatorState` builds ghost-fill and coarsen schedules. `applyConvectiveOperator` then allocates scratch, fills ghost cells, CUI-extrapolates Q and rho, computes fluxes, synchronises fluxes from finest to coarsest, takes differences into N and frees the scratch. |
| `FESurfaceDistanceEvaluator` | `src/include/ibamr/FESurfaceDistanceEvaluator.h` | Declaration only; no implementation in the repository. |
| QuadratureCache, ReferenceRuleProvider, CalculatorRegistry | (spec.md only) | No code in the repository. The registry hands callers a calculator per quadrature key. Worker threads then call `get_JxW` on it and read through the returned reference. |

The two parts do not call each other. The specification (spec.md) names
the Jacobian core as the system and the operator as a consumer. Each is
modelled on its own. The Jacobian calculator is also composed with the
registry and its worker threads, which are modelled from spec.md because
no code for them is in the repository.

## Modules

### `JacobianKernels.tla`, `JacobianCalculator.tla` and `MCJacobianCalculator.tla`

`JacobianKernels` holds what does not change: the constants (`Kind`, `NQ`,
`QPoints`, `QWeights`, `NDebug`) and the pure operators that compute J.
`JacobianCalculator` and `JacobianWorkers` both EXTEND it, so the lemmas
proved about the operators (in `JacobianKernelsProofs`) serve both.

`JacobianCalculator` models one calculator instance. `Kind` selects the subclass.

- **State.**
  - `status`: `"aborted"` once a `TBOX_ASSERT` has fired.
  - `d_JxW`: the buffer.
  - `elem`: the element of the last call.
- **Actions.**
  - `Init` models the base constructor, which sizes `d_JxW` to the rule. For Quad9 it also applies the constructor's assertions that the rule is a tensor product (`ConstructorAborts`, debug builds only).
  - `get_JxW(p)` models one call: copy the weights, multiply by J at every point and assert `J > 0`.
- **Reference computation.** `LagrangeJ`, `LagrangeJxW`, `Contravariant` and `ShapeGrad` translate the generic `LagrangeJacobianCalculator<dim,dim>::get_JxW`. It is driven by the shape gradients that the constructor tabulates into `d_dphi`.
- **Kernels.** `Tri3J`, `Quad4J`, `Tet4J` and `Quad9J` are the closed forms. Quad9 uses `RoundSqrt`, `IsTensorRule`, `oned_points`, `ibamr_to_libmesh_ordering`, `d_phi`, `d_dphi9` and the 3x3 node grid `Quad9Grid`.

**Data abstraction.** Coordinates, reference points and weights are integers.
Every libMesh shape function used here has denominators of 2 or 4. The model
therefore computes `Scale * J` exactly, with `Scale` equal to 1 for simplices
and 16 for quadrilaterals. That keeps the sign of J, equality with the
reference, and the `J > 0` test.

`NDebug` selects a build without `DEBUG_CHECK_ASSERTIONS`, in which
`TBOX_ASSERT` is empty. An abort ends the program, so the runs set
`CHECK_DEADLOCK FALSE`.

`MCJacobianCalculator` supplies the inputs:

| Kind | Elements | Quadrature rule |
|---|---|---|
| Tri3 | every triangle with vertices in {0,1,2}² (729 elements, including degenerate and inverted ones) | the three-point vertex rule (Tri3 and Tet4 are affine, so J is the same at every point) |
| Quad4 | every quadrilateral with vertices in {0,1,2}² | the 3x3 tensor rule on {-1,0,1}², x fastest |
| Tet4 | every tetrahedron with vertices in {0,1}³ | the four-point vertex rule |
| Quad9 | the reference element with two nodes moved, giving non-affine, curved and inverted elements | the 3x3 tensor rule |

### `CUIConvectiveOperator.tla` and `MCCUIConvectiveOperator.tla`

- **State.**
  - `d_is_initialized`, `d_coarsest_ln` and `d_finest_ln`.
  - `d_rho_idx`.
  - The ghost-fill algorithm's registration (`d_ghostfill_alg`).
  - `d_ghostfill_strategy`: which scratch field its `CartExtrapPhysBdryOp` fills.
  - `d_ghostfill_scheds` and `d_coarsen_scheds`, per level. Each records the initialisation (`epoch`) that created it.
  - The apply phase `pc` and level index `lvl`.
  - The `Q_idx` argument.
  - The allocated scratch (index, level) pairs.
  - `flux` and `N`, per level.
- **Patch data.** Patch data are provenance records (`FluxRec`). Each records:
  - the source index each scratch interior was filled from;
  - which boundary ghost regions were set;
  - which depth components were touched;
  - which levels' fluxes a flux incorporates (`covers`);
  - which initialisations' schedules were used (`epochs`).
- **Actions.**
  - `setMassDensity` and `deallocateOperatorState`.
  - `initializeOperatorState`, made of `CoarsenSchedules`, `GhostfillStrategy` and `GhostfillSchedules`.
  - The steps of `applyConvectiveOperator`:
    - `ApplyStart`: allocation of the indices the allocation loop names (`AllocatedScratch`) on every level of the range.
    - `ApplyFillLevel`: one iteration of the fill/extrapolate/flux loop, including `FillRegistration`'s `resetSchedule` pair, `BoundaryFilled` and `ComponentsTouched`.
    - `ApplyCoarsenLevel`: one iteration of the synchronisation loop, using `CoarsenedFlux`.
    - `ApplyDifferenceLevel`.
    - `ApplyDeallocate`: the deallocation loop, freeing the indices it names (`DeallocatedScratch`, its six `deallocatePatchData` calls) on every level of the range.
- **Instance.** `MCCUIConvectiveOperator` runs:
  - levels 0..2 (so the coarsen loop has up to two iterations, and an off-by-one in either bound shows);
  - two candidate Q indices and two density indices (so a stale registration is distinguishable);
  - up to two initialisations (so re-initialisation on a different level range happens);
  - `OutflowExtrap = TRUE` (the case in which the strategy matters).

Every `\E` ranges over all level pairs, so every level range is reached.

### `CUIConvectiveOperatorAbstract.tla`

What the operator promises a caller, with no schedules, scratch or loops.

- **State.** The initialised flag, the level range, the density index, the number of initialisations, whether an apply is running, its `Q_idx`, and the N of the last completed apply.
- **Actions.**
  - `SetMassDensity`, `Initialize` and `Deallocate`.
  - `Begin`: an apply starts on an initialised operator.
  - `End`: N becomes `Convected(ln)` on every level of the range. `Convected(ln)` says that N on level ln
    - comes from `Q_idx` and the current density;
    - has all of Q's boundary ghosts set;
    - covers levels `ln..finest`;
    - uses only the current initialisation's schedules.
- **Fairness.** `Spec` adds `WF(End)`: a call that has begun returns.

`CUIConvectiveOperator.tla` maps onto it through `Abstract == INSTANCE ...
WITH`:

- `busy` is `pc # "idle"`;
- `N` is `Observed`, the caller-visible fields of N. `Observed` is empty while an apply is running.

The steps map as follows:

- `ApplyStart` is `Begin`;
- the `ApplyDeallocate` that returns is `End`;
- every other apply step is a stutter.

### `JacobianWorkers.tla` and `MCJacobianWorkers.tla`

Worker threads call `get_JxW` through the registry. This module is modelled
from spec.md 4.3, 4.6 and 5. The thread model of spec.md 4.3 is "one
calculator per calling thread, or external exclusion"; the module has both. `get_JxW`'s values come from `JacobianKernels`
(`AssertFails`, `JxWOf`), as in `JacobianCalculator`.

- **State.**
  - Each worker's phase: get, call, read.
  - The constructed calculators and each one's `d_JxW`.
  - Whether an assertion has aborted the program.
  - Each worker's last element and what it read.
  - The holder of the external lock (`holder`).
- **Actions.**
  - `Get`: a registry lookup, preceded by taking the lock (`Acquire`) when the calculator is shared, which constructs a calculator on first use (sizing `d_JxW` and, for Quad9, the constructor's rule assertions).
  - `JxW`: `get_JxW`, which overwrites `d_JxW` or aborts.
  - `Read`: a read through the returned reference, then giving the lock back (`Release`).
- **Registry.** `PerWorkerCache` selects the thread model: one calculator per worker, or one shared calculator for the key used under the lock.
- **Instance.** The run uses the shared calculator under the lock, with three workers and three Tri3 elements: J = 1, J = 2 and a degenerate one, which aborts in debug builds. The different J values make a read of the wrong buffer visible.

## Runs

| Run | Checks | Result |
|---|---|---|
| `jacobian_tri3` | `TypeOK`, `KernelMatchesLagrange`, `JxWPositive` (debug build) | pass |
| `jacobian_quad4`, `jacobian_quad9`, `jacobian_tet4` | `KernelMatchesLagrange` | pass |
| `jacobian_release` | `JxWPositive` (NDebug) | violation |
| `cui_operator` | `TypeOK`, `FluxesSynchronized`, `ConvectsCurrentFields`, `QGhostsComplete`, `SchedulesFresh`, `ScratchLifetime` | pass |
| `cui_rho_ghosts` | `RhoGhostsComplete` | violation |
| `cui_density_depth` | `RhoComponentsInRange` (QDepth = 2, RhoDepth = 1) | violation |
| `cui_refinement` | `ImplementsAbstract` (the abstract `Spec`, with its `WF(End)`) under `FairSpec` | pass |
| `jacobian_workers` | `TypeOK`, `ReadsOwnJxW` (one shared calculator under the external lock) | pass |

`KernelMatchesLagrange` states two things:

- After every successful call the buffer equals the generic Lagrange result.
- A call aborts only if the generic J is non-positive at some point.

Together they show that each closed form, the Quad9 node remap, the Quad9 1-D
ordering and the `q % n`, `q / n` indexing agree with the generic path.

Each property of each passing run has a mutant in `PROJECT.json`: a plausible
bug in the mapped definition that TLC catches. Examples:

- a wrong Tri3 edge;
- swapped Quad4 coefficients;
- the identity 1-D ordering for Quad9;
- a coarsen loop one level short;
- a missing `resetSchedule`;
- a missing deallocation;
- a caller that releases the lock as soon as `get_JxW` returns, before it has read through the reference.

### Findings

1. **The density's outflow ghost cells are never set**
   (`AdvDiffCUIConservativeConvectiveOperator.cpp:725-729`).
   - With outflow extrapolation on, the `CartExtrapPhysBdryOp` for `rho_scratch` is overwritten by the one for `Q_scratch`. All schedules are then built with the Q-only strategy.
   - `setPhysicalBoundaryConditions` for rho sets only the inflow boundaries.
   - Run `cui_rho_ghosts` shows this.
2. **The density is indexed with Q's depth** (`:402`, `:507`).
   - The density loops run to `d_Q_data_depth`, but the density has `d_rho_data_depth` components.
   - Run `cui_density_depth` shows this.
3. **Release builds return non-positive JxW** (`JacobianCalculator.cpp:202` and the other `TBOX_ASSERT(J > 0)` checks).
   - With assertions compiled out, `get_JxW` returns non-positive JxW.
   - The specification says this is fatal.
   - Run `jacobian_release` shows this.
## Fairness and liveness

`FairSpec` in `CUIConvectiveOperator.tla` adds weak fairness of the four apply
steps (`ApplyFairness`): fill, coarsen, difference and deallocate.

This is justified by the code. `applyConvectiveOperator` is one synchronous
call whose loops are bounded by the level range. Once it has started, nothing
but its own next statement can run in that thread, and each step stays enabled
until it is taken. No fairness is assumed for the caller's operations (set
density, initialise, deallocate, start an apply): a caller may stop calling.

Liveness is checked in run `cui_refinement`. The abstract `Spec` carries
`WF(End)`, so `ImplementsAbstract` also says that every apply that has begun
returns with N set. The mutant that never increments the difference loop's
level index violates it.

The workers' run has no liveness property, and so it checks no deadlock
either (`CHECK_DEADLOCK FALSE`). A debug-build abort ends the program, and
the spec gives no termination promise for workers.

## Proofs (`CUIConvectiveOperatorProofs.tla`)

Two theorems hold for every `MaxLevel`, depth and `MaxInit`:

- `TypeCorrect: Spec => []TypeOK`;
- `FluxesAlwaysSynchronized: Spec => []FluxesSynchronized`.

They assume only the module's named assumptions:

- the level bound and `MaxInit` are naturals;
- the depths are positive;
- `NoIdx` is not a real index.

Neither property is inductive on its own. Both rest on the inductive
invariant `IInv` (defined in `CUIConvectiveOperator.tla` and checked by TLC
as well):

- **`OperatorShape`.** After initialisation the ghost-fill schedules cover exactly `d_coarsest_ln..d_finest_ln` and the coarsen schedules cover `0..d_finest_ln`. Any apply phase other than idle implies initialisation.
- **`ApplyShape`.** For each phase it gives:
  - the range of the loop index;
  - which levels already have a flux;
  - that N is empty until differencing, and which levels have N after it starts.
- **`Synchronisation`.** During the fill each flux covers only its own level. During the coarsen loop at index `lvl`, levels `>= lvl` cover all finer levels. After the loop every level does, and `N[ln] = flux[ln]`.

Lemma `InitIInv` shows that Init implies IInv. Lemma `StepIInv` shows that
every step preserves IInv, with one case per action and one sub-step per
conjunct the action can disturb. The coarsen case carries the key argument:
`{lvl-1} \cup (lvl..finest) = lvl-1..finest`.

## Proofs (`JacobianKernelsProofs.tla`)

Lemmas about the pure operators of `JacobianKernels`, for all integer node
coordinates and every quadrature rule:

- `Tri3Agrees`, `Tet4Agrees`, `Quad4Agrees` (at every quadrature point): each
  closed form equals the generic determinant of the contravariant matrix
  built from the gradients the Lagrange constructor tabulates (`Tri3Grad`,
  `Tet4Grad`, `Quad4Grad`).
- `RoundSqrtSpec`: `RoundSqrt(m)` (the model of `std::round(std::sqrt(m))`)
  exists and lies in `1 .. m`. The proof takes the least k with
  `m < (k + 1/2)^2` from the well-foundedness of `<` on Nat (`WFMin`), since
  the library's induction rules cannot be instantiated.
- `Quad9Indices`, `Quad9PointSplit`: on a rule with at most n*n points,
  `q % n` and `q / n` are 1-D indices; on a tensor-product rule, point q is
  `(oned[q % n], oned[q / n])`.
- `Quad9Agrees`: on a tensor-product rule, `Quad9J` equals the generic J.
  The 3x3 node grid and the 1-D order {0, 2, 1} pair each node with the EDGE3
  factors libMesh's QUAD9 basis uses. The proof writes both sides as the same
  nine products and reorders them.
- `KernelJInt`, `JxWOfType`: every kernel's J is an integer, provided a Quad9
  rule has at most n*n points (`Quad9RuleInRange`). Otherwise `get_JxW`'s
  `q / n` indexes past its 1-D tables. That is undefined behaviour, and only
  a release build reaches it: a debug build aborts in the constructor.
- `KernelAgreesAll`, `JxWOfLagrange`, `JxWOfLive`: the above for every kind,
  for a calculator whose constructor did not abort.

Two hypotheses name what a release build needs from its caller, because
there the constructor checks nothing:

- `RuleOK`: a Quad9 rule is a tensor product;
- `RangeOK`: a Quad9 rule has at most n*n points.

## Proofs (`JacobianCalculatorProofs.tla`)

- `KernelsMatchLagrange: RuleOK => (Spec => []KernelMatchesLagrange)` holds
  for all four kinds.
  - Its inductive invariant adds `LiveRule` to the property: while the
    calculator is alive, a Quad9 rule is a tensor product.
  - A completed call writes the kernel's J, which equals the generic J.
  - An abort needs a kernel J <= 0, which is a generic J <= 0.
- `CalculatorTypeOK: RangeOK => (Spec => []TypeOK)`. The invariant adds
  `status = "ok" => Quad9RuleInRange`. This holds in a debug build because
  the constructor aborts otherwise, and in a release build by `RangeOK`.
- `DebugJxWPositive: ~NDebug => (Spec => []JxWPositive)` holds for every
  kind, element and rule. The invariant adds
  `status = "ok" => ~ConstructorAborts`, which makes every J an integer.
  `TBOX_ASSERT(J > 0)` then leaves only positive J, and the weights are
  positive. The run `jacobian_release` shows that the property fails without
  the assertion.

## Proofs (`CUIConvectiveOperatorRefinementProofs.tla`)

These theorems hold for every level bound, depth and `MaxInit`, with either
value of `OutflowExtrap`:

- `CurrentFieldsAlwaysConvected: Spec => []ConvectsCurrentFields`;
- `QGhostsAlwaysComplete: Spec => []QGhostsComplete`;
- `SchedulesAlwaysFresh: Spec => []SchedulesFresh`;
- `ScratchScoped: Spec => []ScratchLifetime`.

They rest on `FullInv == IInv /\ Contents`. `Contents` strengthens `IInv`
with what the schedules and fluxes hold:

- with outflow extrapolation, every ghost-fill schedule uses the Q strategy;
- every ghost-fill schedule and every coarsen schedule above the coarsest level carries the current epoch;
- every flux was computed from `Q_idx`, the current density, all boundary sides and the current epoch;
- scratch is allocated exactly while an apply runs. Since `ApplyStart` adds and `ApplyDeallocate` removes what their loops name, this needs both lists to be the six registered scratch indices on the same level range.

`IInv` alone is not enough. For example, `ConvectsCurrentFields` at the
difference step needs the fluxes' sources, and those are fixed only by the
fill step's `FillRegistration`, which `IInv` does not describe. TLC checks
`FullInv` as well.

`RefinesAbstractSafety: Spec => Abstract!SafetySpec` proves the safety part
of the refinement:

- Init maps to the abstract Init.
- Each step maps to an abstract step or a stutter (lemma `StepRefines`).
- At the returning deallocate, `Observed` equals the abstract `End`'s N (lemma `ObservedAtReturn`). This follows from `FullInv`'s synchronisation and contents conjuncts.

The fairness part, `WF(End)`, is checked only by TLC.

## Proofs (`JacobianWorkersProofs.tla`)

These results hold for any set of workers, every element kind, every
quadrature rule and both builds.

- The inductive invariant behind the main result is `PInv`: the shape of
  the state, the lock's type, `Exclusion` and `OwnBuffers`.
  - `Exclusion`: with a shared calculator, a worker holds the lock exactly while it is between its lookup and its read.
  - `OwnBuffers`: a worker between its call and its read finds in its calculator the buffer `JxWOf` of its own element, and what it has read is that buffer.
  - Lemma `OtherHandle` is why: the calculator a worker reads is never the one another worker's lookup or call can write. With per-worker calculators they differ. With a shared one, the reader holds the lock the writer would need.
- `SInv` holds under both cache policies:
  - a worker past its lookup holds a constructed calculator;
  - a live program after a construction, or any program in which a worker
    has read a buffer, did not fail the Quad9 constructor's assertions
    (`CtorOK`).
- `WorkersTypeOK: RangeOK => (Spec => []TypeOK)` holds under both cache
  policies. Its invariant is `SInv`, `TypeOK` and `BuiltInt` (every
  constructed calculator holds an integer buffer).
- `WorkersReadOwnJxW: RuleOK => (Spec => []ReadsOwnJxW)` holds under both
  thread models. It follows from `PInv` and `SInv`. By `JxWOfLagrange`, the
  kernel's buffer is the generic one.

## What stays with TLC

- Liveness (`ImplementsAbstract`'s `WF(End)` and `FairSpec`) is out of
  TLAPS's reach.
- Properties with no general statement are not proved for every constant:
  - the violation runs;
  - `RhoGhostsComplete` and `RhoComponentsInRange`, which fail.
- The Lagrange path itself stays with TLC. The proofs are about the four
  specialised kernels, and agreement is stated against it.

## Not modelled

- **The manifold branch of the generic path** (`dim < spacedim`, `sqrt(det(J^T J))`): its values are irrational on integer inputs.
- **`setMassDensityBoundaryConditions` and `setMassDensityVariable`**: they store pointers that no modelled decision reads. The stale-variable hazard of the latter is listed in `PROJECT.json`.
- **The Fortran kernels**: their content is numerical.
- **The base `get_JxW`**: it only calls `TBOX_ERROR`.
- **The registry's dispatch table and the quadrature and reference-rule caches** (spec.md only):
  - `JacobianWorkers` models the registry's caching of calculators.
  - Which calculator subtype the registry picks is not observable: `KernelMatchesLagrange` shows that every kernel returns the generic result.
  - The caches enter only as the constants `QPoints`, `QWeights` and `ShapeGrad`.
- **`FESurfaceDistanceEvaluator`**: only a declaration is in the repository.

## Plan for later sittings

1. In a build with `NDEBUG`, `applyConvectiveOperator` on an uninitialised operator has only a `TBOX_ASSERT` as its guard. Model the behaviour with the assertion compiled out.
2. `setMassDensityVariable` between initialisations: a stale variable in the ghost-fill registration (see the hazards).
3. An apply before any `setMassDensity` reads `d_rho_idx` unset (see the hazards).
