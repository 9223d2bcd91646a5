------------------------------ MODULE BuildLock ------------------------------
(***************************************************************************)
(* The lock file around the CMake build of the integration tests           *)
(* (crates/polyontest-cli/tests/harness_tests.rs, acquire_lock; the tests  *)
(* in src/main.rs have the same code).  Test processes create build.lock,  *)
(* build, and remove it; one that finds it waits, takes a lock over whose  *)
(* file is older than the limit, and gives up after the same time.  The    *)
(* file is named by its path only, and looking at it, removing it and      *)
(* creating it are separate system calls.                                  *)
(***************************************************************************)
EXTENDS Naturals, FiniteSets

CONSTANTS Procs,     \* test processes (or threads)
          Limit,     \* the 60 seconds, in ticks
          NoFile

ASSUME LockAssumption == Limit \in Nat /\ NoFile \notin Procs

VARIABLES
    file,     \* who created build.lock, or NoFile
    age,      \* since then, up to Limit + 1
    waited,   \* start.elapsed() of each process, up to Limit + 1
    pc,
    outlived  \* ghost: a lock has outlived its process, or a build the limit

vars == <<file, age, waited, pc, outlived>>

Overdue == Limit + 1
Older(t) == IF t = Overdue THEN t ELSE t + 1
Ended == {"built", "panicked", "dead"}
Steps == {"open", "stat", "remove", "patience", "build"} \cup Ended

Init ==
    /\ file = NoFile /\ age = 0
    /\ waited = [p \in Procs |-> 0]
    /\ pc = [p \in Procs |-> "open"]
    /\ outlived = FALSE

Goto(p, step) == pc' = [pc EXCEPT ![p] = step]

(* create_new succeeds.                                                    *)
Create(p) ==
    /\ pc[p] = "open" /\ file = NoFile
    /\ file' = p /\ age' = 0
    /\ Goto(p, "build")
    /\ UNCHANGED <<waited, outlived>>

AlreadyExists(p) ==
    /\ pc[p] = "open" /\ file # NoFile
    /\ Goto(p, "stat")
    /\ UNCHANGED <<file, age, waited, outlived>>

(* Any other error of open, on any attempt.                                *)
OpenFails(p) ==
    /\ pc[p] = "open"
    /\ Goto(p, "panicked")
    /\ UNCHANGED <<file, age, waited, outlived>>

(* Mistake: a lock as old as the limit is not told from a younger one.     *)
Stat_AnyAge(p) ==
    /\ pc[p] = "stat"
    /\ \/ Goto(p, "patience")
       \/ file # NoFile /\ Goto(p, "remove")
    /\ UNCHANGED <<file, age, waited, outlived>>

(* metadata and elapsed: the file may be gone again, or its time lie in    *)
(* the future; else its age decides.                                       *)
Stat(p) ==
    /\ pc[p] = "stat"
    /\ \/ Goto(p, "patience")
       \/ file # NoFile /\ age > Limit /\ Goto(p, "remove")
    /\ UNCHANGED <<file, age, waited, outlived>>

(* remove_file: whatever file has that name by now.                        *)
Remove(p) ==
    /\ pc[p] = "remove"
    /\ file' = NoFile
    /\ Goto(p, "patience")
    /\ UNCHANGED <<age, waited, outlived>>

(* Mistake: the time waited is not looked at.                              *)
Patience_Endless(p) ==
    /\ pc[p] = "patience"
    /\ Goto(p, "open")
    /\ UNCHANGED <<file, age, waited, outlived>>

(* A timeout panics, else the process sleeps and tries again.              *)
Patience(p) ==
    /\ pc[p] = "patience"
    /\ Goto(p, IF waited[p] > Limit THEN "panicked" ELSE "open")
    /\ UNCHANGED <<file, age, waited, outlived>>

(* Mistake: the guard is not dropped when an assert of the build panics.   *)
BuildEnds_Leaks(p) ==
    /\ pc[p] = "build"
    /\ \/ Goto(p, "built") /\ file' = NoFile
       \/ Goto(p, "panicked") /\ UNCHANGED file
    /\ UNCHANGED <<age, waited, outlived>>

(* The build succeeds or panics; LockGuard::drop removes the file of that  *)
(* name either way.                                                        *)
BuildEnds(p) ==
    /\ pc[p] = "build"
    /\ Goto(p, "built") \/ Goto(p, "panicked")
    /\ file' = NoFile
    /\ UNCHANGED <<age, waited, outlived>>

(* The process is killed: no guard is dropped.                             *)
Dies(p) ==
    /\ pc[p] \notin Ended
    /\ Goto(p, "dead")
    /\ outlived' = (outlived \/ pc[p] = "build")
    /\ UNCHANGED <<file, age, waited>>

Tick ==
    /\ age' = IF file = NoFile THEN age ELSE Older(age)
    /\ waited' = [p \in Procs |-> Older(waited[p])]
    /\ outlived' = (outlived \/ age' > Limit)
    /\ UNCHANGED <<file, pc>>

Step(p) == \/ Create(p) \/ AlreadyExists(p) \/ OpenFails(p) \/ Stat(p) \/ Remove(p)
           \/ Patience(p) \/ BuildEnds(p)

Next == (\E p \in Procs : Step(p) \/ Dies(p)) \/ Tick

(* The scheduler runs every process, a build ends, and time goes on.       *)
Fairness == (\A p \in Procs : WF_vars(Step(p))) /\ WF_vars(Tick)

Spec == Init /\ [][Next]_vars /\ Fairness

-----------------------------------------------------------------------------
TypeOK ==
    /\ file \in Procs \cup {NoFile}
    /\ age \in 0 .. Overdue
    /\ waited \in [Procs -> 0 .. Overdue]
    /\ pc \in [Procs -> Steps]
    /\ outlived \in BOOLEAN

Building == {p \in Procs : pc[p] = "build"}

(* Two processes build at a time only after a lock has outlived the limit  *)
(* or its process: neither the window between looking at a file and        *)
(* removing it nor a guard that removes by name lets two in before that.   *)
ExclusiveUnlessOutlived ==
    ~outlived => \A p, q \in Building : p = q

(* A lock that is still there belongs to a build that is still running, or *)
(* to a process that was killed: no panic leaves one behind.               *)
NoLockLeftBehind ==
    file # NoFile => pc[file] \in {"build", "dead"}

(* Whatever happens to the lock, every process builds, panics or is        *)
(* killed: nobody waits for ever for a file nobody will remove.            *)
EveryoneEnds == \A p \in Procs : <>(pc[p] \in Ended)

=============================================================================
