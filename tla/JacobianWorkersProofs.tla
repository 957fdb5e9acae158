------------------------- MODULE JacobianWorkersProofs -------------------------
(***************************************************************************)
(* Whichever thread model of spec.md 4.3 the callers follow, one           *)
(* calculator per worker or a shared calculator under an external lock     *)
(* held from the lookup to the read, a worker always reads through the     *)
(* reference get_JxW returned the generic Lagrange JxW of its own element, *)
(* for every number of workers, every element kind, every quadrature rule  *)
(* and both builds (WorkersReadOwnJxW, from the inductive invariant PInv). *)
(* The registry state is always well typed (WorkersTypeOK).  Both rest on  *)
(* SInv: a worker past its lookup holds a constructed calculator, and a    *)
(* live program never constructed one whose constructor asserts fail.      *)
(***************************************************************************)
EXTENDS JacobianWorkers, JacobianKernelsProofs, TLAPS

USE WorkersAssumption, KindAssumption, NQAssumption, RuleAssumption,
    NDebugAssumption

(***************************************************************************)
(* The shape of the state that OwnBuffers needs.  It does not assume the   *)
(* kernels' values are integers, so it holds for every element kind.       *)
(***************************************************************************)
Shape ==
  /\ pc \in [Workers -> {"get", "call", "read"}]
  /\ DOMAIN buf = Handles
  /\ DOMAIN called = Workers
  /\ DOMAIN result = Workers

PInv == Shape /\ holder \in Workers \cup {NoHolder} /\ Exclusion /\ OwnBuffers

\* The constructor's state and the empty registry satisfy PInv.
LEMMA InitPInv == Init => PInv
BY DEF Init, PInv, Shape, Exclusion, OwnBuffers, Handles

(***************************************************************************)
(* The calculator a worker is reading through is not the one another       *)
(* worker's lookup or get_JxW can write: with a per-worker cache they are  *)
(* different calculators, and with a shared one the reader holds the lock  *)
(* the other worker would need.                                            *)
(***************************************************************************)
LEMMA OtherHandle ==
  ASSUME PInv, NEW w \in Workers, NEW v \in Workers, v # w, pc[v] = "read",
         \/ pc[w] = "call"
         \/ pc[w] = "get" /\ (~PerWorkerCache => holder = NoHolder)
  PROVE  Handle(v) # Handle(w)
<1>1. CASE PerWorkerCache
  BY <1>1 DEF Handle
<1>2. CASE ~PerWorkerCache
  <2>1. holder = v
    BY <1>2 DEF PInv, Exclusion
  <2>2. pc[w] \notin {"call", "read"}
    BY <1>2, <2>1 DEF PInv, Exclusion
  <2>3. FALSE
    BY <1>2, <2>1, <2>2
  <2>4. QED
    BY <2>3
<1>3. QED
  BY <1>1, <1>2

LEMMA StepPInv == PInv /\ [Next]_wvars => PInv'
<1> SUFFICES ASSUME PInv, [Next]_wvars PROVE PInv'
  OBVIOUS
<1>1. CASE UNCHANGED wvars
  BY <1>1 DEF wvars, PInv, Shape, Exclusion, OwnBuffers
<1>2. ASSUME NEW w \in Workers, Get(w) PROVE PInv'
  <2>1. /\ pc[w] = "get" /\ pc' = [pc EXCEPT ![w] = "call"]
        /\ UNCHANGED <<called, result>>
        /\ \/ buf' = buf
           \/ buf' = [buf EXCEPT ![Handle(w)] = [q \in QIdx |-> 0]]
    BY <1>2 DEF Get
  <2>2. /\ PerWorkerCache => holder' = holder
        /\ ~PerWorkerCache => holder = NoHolder /\ holder' = w
    BY <1>2 DEF Get, Acquire
  <2>3. Shape' /\ holder' \in Workers \cup {NoHolder}
    BY <2>1, <2>2 DEF PInv, Shape
  <2>4. Exclusion'
    BY <2>1, <2>2 DEF PInv, Shape, Exclusion
  <2>5. ASSUME NEW v \in Workers, pc[v] = "read"
        PROVE  buf'[Handle(v)] = buf[Handle(v)]
    <3>1. v # w
      BY <2>1, <2>5
    <3>2. Handle(v) # Handle(w)
      BY <2>1, <2>2, <2>5, <3>1, OtherHandle
    <3>3. Handle(v) \in DOMAIN buf
      BY DEF PInv, Shape, Handle, Handles
    <3>4. CASE buf' = buf
      BY <3>4
    <3>5. CASE buf' = [buf EXCEPT ![Handle(w)] = [q \in QIdx |-> 0]]
      BY <3>2, <3>3, <3>5
    <3>6. QED
      BY <2>1, <3>4, <3>5
  <2>6. OwnBuffers'
    BY <2>1, <2>5 DEF PInv, Shape, OwnBuffers
  <2>7. QED
    BY <2>3, <2>4, <2>6 DEF PInv
<1>3. ASSUME NEW w \in Workers, NEW p \in Elements, JxW(w, p) PROVE PInv'
  <2>1. CASE AssertFails(p)
    BY <1>3, <2>1 DEF JxW, PInv, Shape, Exclusion, OwnBuffers
  <2>2. CASE ~AssertFails(p)
    <3>1. /\ pc[w] = "call"
          /\ buf' = [buf EXCEPT ![Handle(w)] = JxWOf(p)]
          /\ called' = [called EXCEPT ![w] = p]
          /\ result' = [result EXCEPT ![w] = NoResult]
          /\ pc' = [pc EXCEPT ![w] = "read"]
          /\ holder' = holder
      BY <1>3, <2>2 DEF JxW
    <3>2. Shape' /\ holder' \in Workers \cup {NoHolder} /\ Exclusion'
      BY <3>1 DEF PInv, Shape, Exclusion
    <3>3. OwnBuffers'
      <4> SUFFICES ASSUME NEW v \in Workers
                   PROVE /\ pc'[v] = "read" =>
                              called'[v] \in Elements
                              /\ buf'[Handle(v)] = JxWOf(called'[v])
                         /\ result'[v] # NoResult =>
                              called'[v] \in Elements /\ result'[v] = JxWOf(called'[v])
        BY DEF OwnBuffers
      <4>0. Handle(w) \in Handles
        BY DEF Handle, Handles
      <4>1. CASE v = w
        BY <3>1, <4>0, <4>1 DEF PInv, Shape
      <4>2. CASE v # w
        <5>1. pc'[v] = pc[v] /\ called'[v] = called[v] /\ result'[v] = result[v]
          BY <3>1, <4>2 DEF PInv, Shape
        <5>2. pc[v] = "read" => buf'[Handle(v)] = buf[Handle(v)]
          BY <3>1, <4>2, OtherHandle
        <5>3. QED
          BY <5>1, <5>2 DEF PInv, OwnBuffers
      <4>3. QED
        BY <4>1, <4>2
    <3>4. QED
      BY <3>2, <3>3 DEF PInv
  <2>3. QED
    BY <2>1, <2>2
<1>4. ASSUME NEW w \in Workers, Read(w) PROVE PInv'
  <2>1. /\ result' = [result EXCEPT ![w] = buf[Handle(w)]]
        /\ pc' = [pc EXCEPT ![w] = "get"] /\ pc[w] = "read"
        /\ UNCHANGED <<buf, called>>
    BY <1>4 DEF Read
  <2>2. /\ PerWorkerCache => holder' = holder
        /\ ~PerWorkerCache => holder' = NoHolder
    BY <1>4 DEF Read, Release
  <2>3. Shape' /\ holder' \in Workers \cup {NoHolder}
    BY <2>1, <2>2 DEF PInv, Shape
  <2>4. Exclusion'
    BY <2>1, <2>2 DEF PInv, Shape, Exclusion
  <2>5. OwnBuffers'
    BY <2>1 DEF PInv, Shape, OwnBuffers
  <2>6. QED
    BY <2>3, <2>4, <2>5 DEF PInv
<1>5. QED
  BY <1>1, <1>2, <1>3, <1>4 DEF Next

-----------------------------------------------------------------------------
(***************************************************************************)
(* SInv: the structure every behaviour keeps, whatever the registry does.  *)
(* A worker past registry.get holds a constructed calculator, and while    *)
(* the program runs after a construction, or once a worker has read a      *)
(* buffer, the Quad9 constructor's assertions did not fire.               *)
(***************************************************************************)
HandlesBuilt ==
  /\ built \subseteq Handles
  /\ \A w \in Workers : pc[w] # "get" => Handle(w) \in built

CtorOK ==
  /\ built # {} /\ ~aborted => ~ConstructorAborts
  /\ \A w \in Workers : result[w] # NoResult => ~ConstructorAborts

SInv == Shape /\ HandlesBuilt /\ CtorOK

LEMMA HandleIn == \A w \in Workers : Handle(w) \in Handles
BY DEF Handle, Handles

LEMMA InitSInv == Init => SInv
BY DEF Init, SInv, Shape, HandlesBuilt, CtorOK, Handles

LEMMA StepSInv == SInv /\ [Next]_wvars => SInv'
<1> SUFFICES ASSUME SInv, [Next]_wvars PROVE SInv'
  OBVIOUS
<1>1. CASE UNCHANGED wvars
  BY <1>1 DEF wvars, SInv, Shape, HandlesBuilt, CtorOK
<1>2. ASSUME NEW w \in Workers, Get(w) PROVE SInv'
  <2>1. /\ pc' = [pc EXCEPT ![w] = "call"]
        /\ UNCHANGED <<called, result>>
        /\ Handle(w) \in built'
        /\ built \subseteq built' /\ built' \subseteq Handles
        /\ DOMAIN buf' = Handles
        /\ built' # {} /\ ~aborted' => ~ConstructorAborts
    BY <1>2, HandleIn DEF Get, SInv, Shape, HandlesBuilt, CtorOK
  <2>2. QED
    BY <2>1 DEF SInv, Shape, HandlesBuilt, CtorOK
<1>3. ASSUME NEW w \in Workers, NEW p \in Elements, JxW(w, p) PROVE SInv'
  <2>1. CASE AssertFails(p)
    BY <1>3, <2>1 DEF JxW, SInv, Shape, HandlesBuilt, CtorOK
  <2>2. CASE ~AssertFails(p)
    <3>1. /\ buf' = [buf EXCEPT ![Handle(w)] = JxWOf(p)]
          /\ called' = [called EXCEPT ![w] = p]
          /\ result' = [result EXCEPT ![w] = NoResult]
          /\ pc' = [pc EXCEPT ![w] = "read"]
          /\ UNCHANGED <<aborted, built>>
      BY <1>3, <2>2 DEF JxW
    <3>2. Handle(w) \in built /\ pc[w] = "call"
      BY <1>3 DEF JxW, SInv, HandlesBuilt
    <3>3. QED
      BY <3>1, <3>2 DEF SInv, Shape, HandlesBuilt, CtorOK
  <2>3. QED
    BY <2>1, <2>2
<1>4. ASSUME NEW w \in Workers, Read(w) PROVE SInv'
  <2>1. /\ result' = [result EXCEPT ![w] = buf[Handle(w)]]
        /\ pc' = [pc EXCEPT ![w] = "get"] /\ pc[w] = "read" /\ ~aborted
        /\ UNCHANGED <<built, buf, aborted, called>>
    BY <1>4 DEF Read
  <2>2. ~ConstructorAborts
    BY <2>1 DEF SInv, HandlesBuilt, CtorOK
  <2>3. QED
    BY <2>1, <2>2 DEF SInv, Shape, HandlesBuilt, CtorOK
<1>5. QED
  BY <1>1, <1>2, <1>3, <1>4 DEF Next

-----------------------------------------------------------------------------
(***************************************************************************)
(* Type correctness of the registry and the workers: every constructed    *)
(* calculator's d_JxW and every buffer a worker reads holds NQ integers,   *)
(* for every number of workers, either cache policy and every element      *)
(* kind.  A release build must not be given a Quad9 rule with more points *)
(* than the grid its get_JxW indexes (RangeOK).                           *)
(***************************************************************************)
BuiltInt == \A h \in built : buf[h] \in [QIdx -> Int]

TInv == SInv /\ TypeOK /\ BuiltInt

THEOREM WorkersTypeOK == RangeOK => (Spec => []TypeOK)
<1> SUFFICES ASSUME RangeOK PROVE Spec => []TypeOK
  OBVIOUS
<1>1. Init => TInv
  BY InitSInv DEF Init, TInv, TypeOK, BuiltInt, Handles
<1>2. TInv /\ [Next]_wvars => TInv'
  <2> SUFFICES ASSUME TInv, [Next]_wvars PROVE TInv'
    OBVIOUS
  <2>0. SInv'
    BY StepSInv DEF TInv
  <2>1. CASE UNCHANGED wvars
    BY <2>0, <2>1 DEF wvars, TInv, TypeOK, BuiltInt
  <2>2. ASSUME NEW w \in Workers, Get(w) PROVE TInv'
    <3>1. [q \in QIdx |-> 0] \in [QIdx -> Int]
      OBVIOUS
    <3>2. /\ pc' = [pc EXCEPT ![w] = "call"]
          /\ UNCHANGED <<called, result>>
          /\ holder' \in Workers \cup {NoHolder}
          /\ \/ UNCHANGED <<built, buf, aborted>>
             \/ /\ built' = built \cup {Handle(w)}
                /\ buf' = [buf EXCEPT ![Handle(w)] = [q \in QIdx |-> 0]]
                /\ aborted' \in BOOLEAN
      BY <2>2 DEF Get, Acquire, ConstructorAborts, TInv, TypeOK
    <3>3. Handle(w) \in Handles
      BY HandleIn
    <3>4. CASE UNCHANGED <<built, buf, aborted>>
      BY <2>0, <3>2, <3>4 DEF TInv, TypeOK, BuiltInt
    <3>5. CASE /\ built' = built \cup {Handle(w)}
               /\ buf' = [buf EXCEPT ![Handle(w)] = [q \in QIdx |-> 0]]
               /\ aborted' \in BOOLEAN
      <4>1. buf' \in [Handles -> {<<>>} \cup [QIdx -> Int]]
        BY <3>1, <3>3, <3>5 DEF TInv, TypeOK
      <4>2. BuiltInt'
        BY <3>1, <3>3, <3>5 DEF TInv, TypeOK, BuiltInt
      <4>3. QED
        BY <2>0, <3>2, <3>3, <3>5, <4>1, <4>2 DEF TInv, TypeOK
    <3>6. QED
      BY <3>2, <3>4, <3>5
  <2>6. ASSUME NEW w \in Workers, NEW p \in Elements, JxW(w, p) PROVE TInv'
    <3>1. CASE AssertFails(p)
      BY <2>0, <2>6, <3>1 DEF JxW, TInv, TypeOK, BuiltInt
    <3>2. CASE ~AssertFails(p)
      <4>1. /\ buf' = [buf EXCEPT ![Handle(w)] = JxWOf(p)]
            /\ called' = [called EXCEPT ![w] = p]
            /\ result' = [result EXCEPT ![w] = NoResult]
            /\ pc' = [pc EXCEPT ![w] = "read"]
            /\ UNCHANGED <<aborted, built, holder>>
        BY <2>6, <3>2 DEF JxW
      <4>2. ~ConstructorAborts
        BY <2>6 DEF JxW, TInv, SInv, HandlesBuilt, CtorOK
      <4>3. JxWOf(p) \in [QIdx -> Int]
        BY <4>2, JxWOfLive, WorkersAssumption
      <4>4. QED
        BY <2>0, <4>1, <4>3, HandleIn DEF TInv, TypeOK, BuiltInt
    <3>3. QED
      BY <3>1, <3>2
  <2>7. ASSUME NEW w \in Workers, Read(w) PROVE TInv'
    <3>1. /\ result' = [result EXCEPT ![w] = buf[Handle(w)]]
          /\ pc' = [pc EXCEPT ![w] = "get"] /\ pc[w] = "read"
          /\ UNCHANGED <<built, buf, aborted, called>>
          /\ holder' \in Workers \cup {NoHolder}
      BY <2>7 DEF Read, Release, TInv, TypeOK
    <3>2. buf[Handle(w)] \in [QIdx -> Int]
      BY <3>1 DEF TInv, SInv, HandlesBuilt, BuiltInt
    <3>3. QED
      BY <2>0, <3>1, <3>2 DEF TInv, TypeOK, BuiltInt
  <2>8. QED
    BY <2>1, <2>2, <2>6, <2>7 DEF Next
<1>3. TInv => TypeOK
  BY DEF TInv
<1>4. QED
  BY <1>1, <1>2, <1>3, PTL DEF Spec

-----------------------------------------------------------------------------
(***************************************************************************)
(* With one calculator per worker or a shared one under the external      *)
(* lock, for every number of workers, every element kind, both builds and *)
(* every interleaving of lookups, get_JxW calls and reads, what a worker  *)
(* reads through the reference get_JxW returned is the generic Lagrange   *)
(* JxW of the element it passed.  A release build given a Quad9 rule must *)
(* be given a tensor-product one                                           *)
(* (RuleOK), which a debug build's constructor enforces.                  *)
(***************************************************************************)
THEOREM WorkersReadOwnJxW == RuleOK => (Spec => []ReadsOwnJxW)
<1> SUFFICES ASSUME RuleOK PROVE Spec => []ReadsOwnJxW
  OBVIOUS
<1>1. Init => PInv /\ SInv
  BY InitPInv, InitSInv
<1>2. PInv /\ SInv /\ [Next]_wvars => PInv' /\ SInv'
  BY StepPInv, StepSInv
<1>3. PInv /\ SInv => ReadsOwnJxW
  <2> SUFFICES ASSUME PInv, SInv, NEW w \in Workers, result[w] # NoResult
               PROVE  result[w] = LagrangeJxW(called[w])
    BY DEF ReadsOwnJxW
  <2>1. called[w] \in Elements /\ result[w] = JxWOf(called[w])
    BY DEF PInv, OwnBuffers
  <2>2. ~ConstructorAborts
    BY DEF SInv, CtorOK
  <2>3. called[w] \in [Nodes -> Point]
    BY <2>1, WorkersAssumption
  <2>4. QED
    BY <2>1, <2>2, <2>3, JxWOfLagrange
<1>4. QED
  BY <1>1, <1>2, <1>3, PTL DEF Spec

=============================================================================
