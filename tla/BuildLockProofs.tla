--------------------------- MODULE BuildLockProofs ---------------------------
(***************************************************************************)
(* Proofs about BuildLock, for every set of processes and every limit.     *)
(***************************************************************************)
EXTENDS BuildLock, TLAPS

(* Until a lock has outlived the limit or its process, the processes that  *)
(* build are those the file belongs to, and nobody is about to remove it.  *)
Guarded ==
    ~outlived =>
        /\ age <= Limit
        /\ \A p \in Procs : pc[p] = "build" <=> file = p
        /\ \A p \in Procs : pc[p] # "remove"

IInv == TypeOK /\ Guarded /\ NoLockLeftBehind

(* The initial states satisfy the inductive invariant.                     *)
LEMMA InitIInv == Init => IInv
<1> SUFFICES ASSUME Init PROVE IInv
  OBVIOUS
<1> USE LockAssumption DEF LockAssumption, Init
<1>1. age \in 0 .. Overdue /\ waited \in [Procs -> 0 .. Overdue]
  BY DEF Overdue
<1>2. pc \in [Procs -> Steps]
  BY DEF Steps
<1>3. Guarded
  BY DEF Guarded
<1> QED
  BY <1>1, <1>2, <1>3 DEF IInv, TypeOK, NoLockLeftBehind

(* Every step, of a process or of the clock, preserves it.                 *)
LEMMA StepIInv == IInv /\ [Next]_vars => IInv'
<1> SUFFICES ASSUME IInv, [Next]_vars PROVE IInv'
  OBVIOUS
<1> USE LockAssumption DEF LockAssumption, IInv, TypeOK, Guarded, NoLockLeftBehind, Overdue, Steps, Ended, Goto
<1>1. ASSUME NEW p \in Procs, Create(p) PROVE IInv'
  BY <1>1 DEF Create
<1>2. ASSUME NEW p \in Procs, AlreadyExists(p) PROVE IInv'
  BY <1>2 DEF AlreadyExists
<1>3. ASSUME NEW p \in Procs, OpenFails(p) PROVE IInv'
  BY <1>3 DEF OpenFails
<1>4. ASSUME NEW p \in Procs, Stat(p) PROVE IInv'
  BY <1>4 DEF Stat
<1>5. ASSUME NEW p \in Procs, Remove(p) PROVE IInv'
  BY <1>5 DEF Remove
<1>6. ASSUME NEW p \in Procs, Patience(p) PROVE IInv'
  BY <1>6 DEF Patience
<1>7. ASSUME NEW p \in Procs, BuildEnds(p) PROVE IInv'
  BY <1>7 DEF BuildEnds
<1>8. ASSUME NEW p \in Procs, Dies(p) PROVE IInv'
  BY <1>8 DEF Dies
<1>9. CASE Tick
  <2>1. Older(age) \in 0 .. Overdue /\ \A p \in Procs : Older(waited[p]) \in 0 .. Overdue
    BY DEF Older
  <2>2. age' \in 0 .. Overdue /\ waited' \in [Procs -> 0 .. Overdue]
    BY <1>9, <2>1 DEF Tick
  <2>3. TypeOK'
    BY <1>9, <2>2 DEF Tick
  <2>4. Guarded'
    <3>1. outlived' = (outlived \/ age' > Limit)
      BY <1>9 DEF Tick
    <3>2. ~outlived' => ~outlived /\ ~(age' > Limit)
      BY <3>1, Zenon
    <3> QED
      BY <1>9, <2>2, <3>2 DEF Tick
  <2> QED
    BY <1>9, <2>3, <2>4 DEF Tick
<1>10. CASE UNCHANGED vars
  BY <1>10 DEF vars
<1> QED
  BY <1>1, <1>2, <1>3, <1>4, <1>5, <1>6, <1>7, <1>8, <1>9, <1>10 DEF Next, Step

(* The inductive invariant holds in every reachable state.                 *)
THEOREM LockInvariance == Spec => []IInv
  BY InitIInv, StepIInv, PTL DEF Spec

(* harness_tests.rs: mutual exclusion of the builds of any number of test  *)
(* processes, as long as no lock outlives the limit or its process.        *)
THEOREM Exclusion == Spec => []ExclusiveUnlessOutlived
<1>1. IInv => ExclusiveUnlessOutlived
  BY DEF IInv, Guarded, ExclusiveUnlessOutlived, Building
<1> QED
  BY <1>1, LockInvariance, PTL

(* A lock file that is left belongs to a running build or a killed one.    *)
THEOREM LocksAreRemoved == Spec => []NoLockLeftBehind
<1>1. IInv => NoLockLeftBehind
  BY DEF IInv
<1> QED
  BY <1>1, LockInvariance, PTL

=============================================================================
