--------------------------- MODULE JacobianWorkers ---------------------------
(***************************************************************************)
(* Callers of IBTK::JacobianCalculator composed with the calculator        *)
(* registry of the specification (spec.md 4.3, 4.6 and 5).  Worker        *)
(* threads iterate over elements: each asks the registry for the           *)
(* calculator of its quadrature key, calls get_JxW(elem), which overwrites *)
(* the calculator's d_JxW and returns a reference to it, and then reads    *)
(* the values through that reference.  The thread model of spec.md 4.3 is *)
(* "one calculator per calling thread, or external exclusion": either the  *)
(* registry hands every worker its own calculator (PerWorkerCache), or     *)
(* all workers share the one cached calculator of the key and a worker     *)
(* holds an external lock from its lookup until it has read through the   *)
(* returned reference.  One quadrature key is enough: calculators of       *)
(* different keys share nothing.                                           *)
(*                                                                         *)
(* The registry, the lock and the workers are modelled from the            *)
(* specification (no code for them is in the repository); get_JxW is      *)
(* JacobianCalculator's, with the values of JacobianKernels.              *)
(***************************************************************************)
EXTENDS JacobianKernels

CONSTANTS
  Workers,         \* calling threads
  PerWorkerCache,  \* TRUE: the registry caches one calculator per worker
  Shared,          \* the registry key of the one shared calculator
  NoResult,        \* a worker that has not read a buffer since its last call
  Elements,        \* the elements the workers iterate over
  None,            \* a worker that has not called get_JxW yet
  NoHolder         \* the external lock is free

ASSUME WorkersAssumption ==
  /\ PerWorkerCache \in BOOLEAN
  /\ NoResult \notin [QIdx -> Int]
  /\ Elements \subseteq [Nodes -> Point]
  /\ None \notin [Nodes -> Point]
  /\ NoHolder \notin Workers

\* Every calculator the registry can cache: one per worker, and the shared one.
Handles == Workers \cup {Shared}

\* registry.get(key) for worker w: which cached calculator it returns.
Handle(w) == IF PerWorkerCache THEN w ELSE Shared

VARIABLES
  pc,        \* worker -> "get", "call" or "read"
  built,     \* handles whose calculator the registry has constructed
  buf,       \* handle -> d_JxW of that calculator (<<>> before construction)
  aborted,   \* a TBOX_ASSERT has fired and ended the program
  called,    \* worker -> element of its last get_JxW call, or None
  result,    \* worker -> values read through the returned reference
  holder     \* the worker holding the external lock, or NoHolder

wvars == <<pc, built, buf, aborted, called, result, holder>>

Init ==
  /\ pc = [w \in Workers |-> "get"]
  /\ built = {}
  /\ buf = [h \in Handles |-> <<>>]
  /\ aborted = FALSE
  /\ called = [w \in Workers |-> None]
  /\ result = [w \in Workers |-> NoResult]
  /\ holder = NoHolder

\* A worker sharing the calculator takes the external lock before its lookup.
Acquire(w) == IF PerWorkerCache THEN UNCHANGED holder
                                ELSE holder = NoHolder /\ holder' = w

\* ... and gives it back once it is done with the calculator.
Release == IF PerWorkerCache THEN UNCHANGED holder ELSE holder' = NoHolder

(***************************************************************************)
(* registry.get(key): construct the calculator on first use (the base      *)
(* constructor sizes d_JxW to NQ zeros, the Quad9 one asserts the rule's   *)
(* layout), otherwise return the cached one.  A worker sharing the        *)
(* calculator first takes the external lock.                               *)
(***************************************************************************)
Get(w) ==
  /\ ~aborted
  /\ pc[w] = "get"
  /\ Acquire(w)
  /\ IF Handle(w) \in built
       THEN UNCHANGED <<built, buf, aborted>>
       ELSE /\ built' = built \cup {Handle(w)}
            /\ buf' = [buf EXCEPT ![Handle(w)] = [q \in QIdx |-> 0]]
            /\ aborted' = ConstructorAborts
  /\ pc' = [pc EXCEPT ![w] = "call"]
  /\ UNCHANGED <<called, result>>

\* Mutant: the caller releases the lock as soon as get_JxW has returned.
JxWReleasesEarly(w, p) ==
  /\ ~aborted
  /\ pc[w] = "call"
  /\ IF AssertFails(p)
       THEN /\ aborted' = TRUE
            /\ UNCHANGED <<pc, buf, called, result, holder>>
       ELSE /\ buf' = [buf EXCEPT ![Handle(w)] = JxWOf(p)]
            /\ called' = [called EXCEPT ![w] = p]
            /\ result' = [result EXCEPT ![w] = NoResult]
            /\ pc' = [pc EXCEPT ![w] = "read"]
            /\ Release
            /\ UNCHANGED aborted
  /\ UNCHANGED built

(***************************************************************************)
(* get_JxW(elem) on the worker's calculator: it aborts on a non-positive   *)
(* J in a debug build, otherwise overwrites d_JxW and returns a reference  *)
(* to it.                                                                  *)
(***************************************************************************)
JxW(w, p) ==
  /\ ~aborted
  /\ pc[w] = "call"
  /\ IF AssertFails(p)
       THEN /\ aborted' = TRUE
            /\ UNCHANGED <<pc, buf, called, result, holder>>
       ELSE /\ buf' = [buf EXCEPT ![Handle(w)] = JxWOf(p)]
            /\ called' = [called EXCEPT ![w] = p]
            /\ result' = [result EXCEPT ![w] = NoResult]
            /\ pc' = [pc EXCEPT ![w] = "read"]
            /\ UNCHANGED <<aborted, holder>>
  /\ UNCHANGED built

\* The worker reads the values through the reference get_JxW returned, and
\* then gives back the external lock.
Read(w) ==
  /\ ~aborted
  /\ pc[w] = "read"
  /\ result' = [result EXCEPT ![w] = buf[Handle(w)]]
  /\ pc' = [pc EXCEPT ![w] = "get"]
  /\ Release
  /\ UNCHANGED <<built, buf, aborted, called>>

Next ==
  \/ \E w \in Workers : Get(w)
  \/ \E w \in Workers, p \in Elements : JxW(w, p)
  \/ \E w \in Workers : Read(w)

Spec == Init /\ [][Next]_wvars

-----------------------------------------------------------------------------
TypeOK ==
  /\ pc \in [Workers -> {"get", "call", "read"}]
  /\ built \subseteq Handles
  /\ buf \in [Handles -> {<<>>} \cup [QIdx -> Int]]
  /\ aborted \in BOOLEAN
  /\ called \in [Workers -> Elements \cup {None}]
  /\ result \in [Workers -> {NoResult} \cup [QIdx -> Int]]
  /\ holder \in Workers \cup {NoHolder}

(***************************************************************************)
(* What a worker reads through the reference get_JxW returned is the JxW   *)
(* of the element it passed, as the generic Lagrange path computes it,    *)
(* however the workers' lookups, calls and reads interleave: no           *)
(* construction and no other worker's get_JxW has overwritten the         *)
(* calculator's d_JxW between the call and the read, with a per-worker     *)
(* cache or with a shared calculator under the external lock.              *)
(***************************************************************************)
ReadsOwnJxW ==
  \A w \in Workers :
    result[w] # NoResult => result[w] = LagrangeJxW(called[w])

-----------------------------------------------------------------------------
(***************************************************************************)
(* Inductive invariant behind ReadsOwnJxW.  A worker sharing the           *)
(* calculator holds the lock exactly while it is between its lookup and    *)
(* its read; a worker between its call and its read still finds in its     *)
(* calculator the buffer of its own element, and what it has read is that  *)
(* buffer.                                                                 *)
(***************************************************************************)
Exclusion ==
  ~PerWorkerCache =>
    \A w \in Workers : pc[w] \in {"call", "read"} <=> holder = w

OwnBuffers ==
  \A w \in Workers :
    /\ pc[w] = "read" =>
         called[w] \in Elements /\ buf[Handle(w)] = JxWOf(called[w])
    /\ result[w] # NoResult =>
         called[w] \in Elements /\ result[w] = JxWOf(called[w])

WInv == TypeOK /\ Exclusion /\ OwnBuffers

=============================================================================
