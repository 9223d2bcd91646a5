----------------------------- MODULE CaseLedger -----------------------------
(***************************************************************************)
(* What an isolated run promises about its cases, without processes,       *)
(* threads, timeouts or events.  The cases are taken up one after the      *)
(* other.  While a case is the current one its statuses are entered in a   *)
(* book and its last entry may still be turned into a failure; once the    *)
(* next case is taken up its entries are final.  The result of the run is  *)
(* "passed" exactly if the book holds no failure, unless the run is given  *)
(* up with an error.                                                       *)
(***************************************************************************)
EXTENDS Naturals, Sequences

VARIABLES at,      \* the current case
          book,    \* entries [of, status], in the order they were made
          result   \* "running", "passed", "failed" or "error"
vars == <<at, book, result>>

Init == at = 1 /\ book = <<>> /\ result \in {"running", "error"}

EnterStatus(status) == book' = Append(book, [of |-> at, status |-> status])

(* A status arrives for the current case.                                  *)
Enter ==
    /\ result = "running"
    /\ \E status \in {"Passed", "Failed", "Skipped"} : EnterStatus(status)
    /\ UNCHANGED <<at, result>>

(* The last entry turns into a failure; only one of the current case may.  *)
Amend ==
    /\ book # <<>>
    /\ book[Len(book)].of = at
    /\ book' = [book EXCEPT ![Len(book)] = [of |-> at, status |-> "Failed"]]

(* The current case is judged and left.                                    *)
Leave ==
    /\ result = "running"
    /\ EnterStatus("Failed") \/ Amend \/ UNCHANGED book
    /\ at' \in {at, at + 1}
    /\ UNCHANGED result

Close ==
    /\ result = "running"
    /\ result' = IF \E k \in DOMAIN book : book[k].status = "Failed"
                 THEN "failed" ELSE "passed"
    /\ UNCHANGED <<at, book>>

GiveUp ==
    /\ result = "running"
    /\ result' = "error"
    /\ UNCHANGED <<at, book>>

Next == Enter \/ Leave \/ Close \/ GiveUp

Spec == Init /\ [][Next]_vars

-----------------------------------------------------------------------------
(* An entry of a case that is no longer the current one never changes, and *)
(* no entry ever disappears.                                               *)
EntriesAreFinal ==
    [][\A k \in DOMAIN book :
         /\ k \in DOMAIN book'
         /\ book'[k].of = book[k].of
         /\ book[k].of # at => book'[k] = book[k]]_vars

=============================================================================
