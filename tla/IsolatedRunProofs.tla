--------------------------- MODULE IsolatedRunProofs ---------------------------
(***************************************************************************)
(* Theorems about IsolatedRun, for every list of cases, every child and    *)
(* every bound: the counters and the exit code of the isolated run, and    *)
(* the promise CaseLedger makes about them.  Then what becomes of the      *)
(* verdicts of the children: what counts as passed or skipped was          *)
(* announced by the child of that case, and stays; each verdict of a child *)
(* that did not crash is counted, in order; no child counts for more cases *)
(* than it had to run.  The reporters are given one run, and what they     *)
(* keep of it agrees with the host's counters.                             *)
(***************************************************************************)
EXTENDS IsolatedRun, TLAPS, SequenceTheorems, FiniteSetTheorems, WellFoundedInduction

Entry == [of : Nat, status : TestStatus]

Holding(book, status) == {m \in DOMAIN book : book[m].status = status}

-----------------------------------------------------------------------------
(* The indices that hold a status form a finite set.                       *)
LEMMA HoldingFinite ==
    ASSUME NEW book \in Seq(Entry), NEW status
    PROVE  /\ IsFiniteSet(Holding(book, status))
           /\ Cardinality(Holding(book, status)) \in Nat
<1>1. DOMAIN book = 1 .. Len(book) /\ Len(book) \in Nat
  BY LenProperties
<1>2. IsFiniteSet(DOMAIN book)
  BY <1>1, FS_Interval
<1>3. Holding(book, status) \in SUBSET DOMAIN book
  BY DEF Holding
<1>4. IsFiniteSet(Holding(book, status))
  BY <1>2, <1>3, FS_Subset
<1>5. QED
  BY <1>4, FS_CardinalityType

(* An appended entry adds one to the count of its status alone.            *)
LEMMA HoldingAppend ==
    ASSUME NEW book \in Seq(Entry), NEW e \in Entry, NEW status
    PROVE  Cardinality(Holding(Append(book, e), status))
             = Cardinality(Holding(book, status)) + (IF e.status = status THEN 1 ELSE 0)
<1> DEFINE new == Append(book, e)
           last == Len(book) + 1
<1>1. /\ Len(book) \in Nat /\ DOMAIN book = 1 .. Len(book)
      /\ DOMAIN new = 1 .. last
      /\ new[last] = e
      /\ \A i \in 1 .. Len(book) : new[i] = book[i]
  BY LenProperties, AppendProperties
<1>2. last \notin Holding(book, status)
  BY <1>1 DEF Holding
<1>3. CASE e.status = status
  <2>1. Holding(new, status) = Holding(book, status) \cup {last}
    BY <1>1, <1>3 DEF Holding
  <2>2. QED
    BY <2>1, <1>2, <1>3, HoldingFinite, FS_AddElement
<1>4. CASE e.status # status
  <2>1. Holding(new, status) = Holding(book, status)
    BY <1>1, <1>4 DEF Holding
  <2>2. QED
    BY <2>1, <1>4, HoldingFinite
<1>5. QED
  BY <1>3, <1>4

(* What a late crash does to the ledger.                                   *)
Amended(book) == [book EXCEPT ![Len(book)] = [of |-> @.of, status |-> "Failed"]]

(* Turning the last entry, not a failure yet, into one moves one from the  *)
(* count of its old status to that of the failures.                        *)
LEMMA HoldingAmend ==
    ASSUME NEW book \in Seq(Entry), book # <<>>, Last(book).status # "Failed",
           NEW status \in TestStatus
    PROVE  /\ Amended(book) \in Seq(Entry)
           /\ DOMAIN Amended(book) = DOMAIN book
           /\ Len(book) \in DOMAIN book
           /\ Amended(book)[Len(book)] = [of |-> Last(book).of, status |-> "Failed"]
           /\ status = "Failed" =>
                Cardinality(Holding(Amended(book), status))
                  = Cardinality(Holding(book, status)) + 1
           /\ status = Last(book).status =>
                /\ Cardinality(Holding(book, status)) > 0
                /\ Cardinality(Holding(Amended(book), status))
                     = Cardinality(Holding(book, status)) - 1
           /\ (status # "Failed" /\ status # Last(book).status) =>
                Cardinality(Holding(Amended(book), status))
                  = Cardinality(Holding(book, status))
<1> DEFINE n == Len(book)
           e == [of |-> book[n].of, status |-> "Failed"]
           new == Amended(book)
<1>1. n \in Nat /\ n > 0 /\ DOMAIN book = 1 .. n /\ n \in 1 .. n
  BY LenProperties, EmptySeq
<1>2. book[n] \in Entry /\ Last(book) = book[n]
  BY <1>1, ElementOfSeq DEF Last
<1>3. e \in Entry /\ e.status = "Failed"
  BY <1>2 DEF Entry, TestStatus
<1>4. new = [book EXCEPT ![n] = e]
  BY DEF Amended
<1>5. /\ new \in Seq(Entry) /\ Len(new) = n
      /\ \A j \in 1 .. n : new[j] = IF j = n THEN e ELSE book[j]
  BY <1>1, <1>3, <1>4, ExceptSeq
<1>6. DOMAIN new = 1 .. n
  BY <1>5, LenProperties
<1> HIDE DEF new
<1>7. ASSUME status = "Failed"
      PROVE  Cardinality(Holding(new, status)) = Cardinality(Holding(book, status)) + 1
  <2>1. Holding(new, status) = Holding(book, status) \cup {n} /\ n \notin Holding(book, status)
    BY <1>1, <1>2, <1>3, <1>5, <1>6, <1>7 DEF Holding
  <2>2. QED
    BY <2>1, HoldingFinite, FS_AddElement
<1>8. ASSUME status = Last(book).status
      PROVE  /\ Cardinality(Holding(book, status)) > 0
             /\ Cardinality(Holding(new, status)) = Cardinality(Holding(book, status)) - 1
  <2>1. n \in Holding(book, status)
    BY <1>1, <1>2, <1>8 DEF Holding
  <2>2. Holding(new, status) = Holding(book, status) \ {n}
    BY <1>1, <1>2, <1>3, <1>5, <1>6, <1>8 DEF Holding
  <2>3. Cardinality(Holding(book, status)) > 0
    BY <2>1, HoldingFinite, FS_EmptySet
  <2>4. QED
    BY <2>1, <2>2, <2>3, HoldingFinite, FS_RemoveElement
<1>9. ASSUME status # "Failed", status # Last(book).status
      PROVE  Cardinality(Holding(new, status)) = Cardinality(Holding(book, status))
  <2>1. Holding(new, status) = Holding(book, status)
    BY <1>1, <1>2, <1>3, <1>5, <1>6, <1>9 DEF Holding
  <2>2. QED
    BY <2>1
<1>10. /\ new \in Seq(Entry) /\ DOMAIN new = DOMAIN book /\ n \in DOMAIN book
       /\ new[n] = [of |-> Last(book).of, status |-> "Failed"]
  BY <1>1, <1>2, <1>5, <1>6
<1>11. QED
  BY <1>7, <1>8, <1>9, <1>10 DEF new

-----------------------------------------------------------------------------
(* The inductive invariant.  Beyond the properties themselves it says that *)
(* what the child wrote is a sequence whose CASE_ENDs carry a status, that *)
(* suite_failed knows of every counted failure, and, for the correction    *)
(* after a late crash, that while a case with a CASE_END is under way the  *)
(* youngest entry of the ledger is that case's and holds parsed_status.    *)
IsStream(s) == Len(s) \in Nat /\ s = [k \in 1 .. Len(s) |-> s[k]]

StreamOK ==
    /\ IsStream(out)
    /\ \A k \in 1 .. Len(out) : out[k].type = "CaseEnd" => out[k].status \in TestStatus

ChildOK == "status" \in DOMAIN child

FailureKnown ==
    suiteFailed <=> \E m \in DOMAIN ledger : ledger[m].status = "Failed"

EndedIsLast ==
    (view.ended /\ pc \in {"check", "recv", "kill", "wait", "judge"})
        => ledger # <<>> /\ Last(ledger) = [of |-> cur, status |-> view.parsed]

ExitFromFlag == Finished => (exitCode = 1 <=> suiteFailed)

IInv ==
    /\ TypeOK
    /\ ChildOK
    /\ StreamOK
    /\ TallyMatchesLedger
    /\ FailureKnown
    /\ EndedIsLast
    /\ ExitFromFlag

-----------------------------------------------------------------------------
(* A stream stays one when something is appended to it.                    *)
LEMMA StreamAppend ==
    ASSUME NEW s, IsStream(s), NEW e
    PROVE  /\ IsStream(Append(s, e))
           /\ Len(Append(s, e)) = Len(s) + 1
           /\ \A k \in 1 .. Len(s) : Append(s, e)[k] = s[k]
           /\ Append(s, e)[Len(s) + 1] = e
<1> DEFINE S == {s[k] : k \in 1 .. Len(s)} \cup {e}
<1>1. s \in [1 .. Len(s) -> S] /\ Len(s) \in Nat
  BY DEF IsStream
<1>2. s \in Seq(S)
  BY <1>1, SeqDef
<1>3. e \in S
  OBVIOUS
<1> HIDE DEF S
<1>4. /\ Append(s, e) \in Seq(S)
      /\ Len(Append(s, e)) = Len(s) + 1
      /\ \A k \in 1 .. Len(s) : Append(s, e)[k] = s[k]
      /\ Append(s, e)[Len(s) + 1] = e
  BY <1>2, <1>3, AppendProperties
<1>5. Len(Append(s, e)) \in Nat
      /\ Append(s, e) \in [1 .. Len(Append(s, e)) -> S]
  BY <1>4, LenProperties
<1>6. QED
  BY <1>4, <1>5 DEF IsStream

(* TallyMatchesLedger of any counters and any ledger.                      *)
Agree(t, book) ==
    \A status \in TestStatus : t[Field[status]] = Cardinality(Holding(book, status))

(* The counters after one more count.                                      *)
LEMMA CountAgrees ==
    ASSUME NEW book \in Seq(Entry), NEW t \in Tally, Agree(t, book), NEW e \in Entry
    PROVE  /\ Count(t, e.status) \in Tally
           /\ Append(book, e) \in Seq(Entry)
           /\ Agree(Count(t, e.status), Append(book, e))
<1>1. e.status \in TestStatus
  BY DEF Entry
<1>2. /\ Count(t, e.status) \in Tally
      /\ \A status \in TestStatus :
            Count(t, e.status)[Field[status]]
              = t[Field[status]] + (IF e.status = status THEN 1 ELSE 0)
  BY <1>1 DEF Count, Tally, Field, TestStatus
<1>3. Append(book, e) \in Seq(Entry)
  BY AppendProperties
<1>4. Agree(Count(t, e.status), Append(book, e))
  BY <1>2, HoldingAppend DEF Agree
<1>5. QED
  BY <1>2, <1>3, <1>4

(* The counters after the correction that follows a late crash: nothing    *)
(* saturates, since the status taken back was counted.                     *)
LEMMA AmendAgrees ==
    ASSUME NEW book \in Seq(Entry), book # <<>>, NEW t \in Tally, Agree(t, book),
           NEW old \in TestStatus, old # "Failed", Last(book).status = old
    PROVE  /\ Count(Uncount(t, old), "Failed") \in Tally
           /\ Agree(Count(Uncount(t, old), "Failed"), Amended(book))
<1> DEFINE u == Count(Uncount(t, old), "Failed")
<1>1. t[Field[old]] > 0
  BY HoldingAmend DEF Agree
<1>2. /\ u \in Tally
      /\ u[Field["Failed"]] = t[Field["Failed"]] + 1
      /\ u[Field[old]] = t[Field[old]] - 1
      /\ \A status \in TestStatus :
            (status # "Failed" /\ status # old) => u[Field[status]] = t[Field[status]]
  BY <1>1 DEF Count, Uncount, Tally, Field, TestStatus
<1> HIDE DEF u
<1>3. ASSUME NEW status \in TestStatus
      PROVE  u[Field[status]] = Cardinality(Holding(Amended(book), status))
  <2>1. t[Field[status]] = Cardinality(Holding(book, status))
    BY DEF Agree
  <2>2. CASE status = "Failed"
    BY <2>1, <2>2, <1>2, HoldingAmend
  <2>3. CASE status = old
    BY <2>1, <2>3, <1>2, HoldingAmend
  <2>4. CASE status # "Failed" /\ status # old
    BY <2>1, <2>4, <1>2, HoldingAmend
  <2>5. QED
    BY <2>2, <2>3, <2>4
<1>4. QED
  BY <1>2, <1>3 DEF Agree, u

(* TallyMatchesLedger is Agree of the current counters and ledger.         *)
LEMMA TallyIsAgree == TallyMatchesLedger <=> Agree(tally, ledger)
  BY DEF TallyMatchesLedger, Agree, Holding

LEMMA InitIInv == Init => IInv
<1> SUFFICES ASSUME Init PROVE IInv
  OBVIOUS
<1>1. ledger \in Seq(Entry) /\ DOMAIN ledger = {} /\ Len(out) = 0
  BY EmptySeq DEF Init
<1>2. TypeOK
  <2>1. pc \in {"spawn", "bailed"} /\ exitCode \in {0, 1} /\ cur \in Nat \ {0}
    BY DEF Init
  <2>2. view \in [ran : BOOLEAN, ended : BOOLEAN, parsed : TestStatus, err : BOOLEAN]
    BY DEF Init, FreshView, TestStatus
  <2>3. tally \in Tally /\ suiteFailed \in BOOLEAN /\ expired \in BOOLEAN
    BY DEF Init, NoTally, Tally
  <2>4. /\ child.status \in ExitStatus \cup {Running}
        /\ reader \in [state : {"reading", "error", "eof", "broken"}, sent : Nat]
        /\ reader.sent = 0 /\ got = 0
    BY DEF Init, ExitStatus
  <2>5. QED
    BY <1>1, <2>1, <2>2, <2>3, <2>4 DEF TypeOK, Entry
<1>3. ChildOK
  BY DEF Init, ChildOK
<1>4. StreamOK
  BY <1>1 DEF Init, StreamOK, IsStream
<1>5. TallyMatchesLedger
  <2>1. \A status \in TestStatus : Holding(ledger, status) = {}
    BY <1>1 DEF Holding
  <2>2. \A status \in TestStatus : tally[Field[status]] = 0
    BY DEF Init, NoTally, Field, TestStatus
  <2>3. QED
    BY <2>1, <2>2, TallyIsAgree, FS_EmptySet DEF Agree
<1>6. FailureKnown /\ EndedIsLast /\ ExitFromFlag
  BY <1>1 DEF Init, FailureKnown, EndedIsLast, ExitFromFlag, FreshView, Finished
<1>7. QED
  BY <1>2, <1>3, <1>4, <1>5, <1>6 DEF IInv

-----------------------------------------------------------------------------
(* What a child may do to its own state and to the stream.                 *)
ChildGuarantee ==
    /\ child'.status \in ExitStatus \cup {Running}
    /\ ChildOK'
    /\ StreamOK'
    /\ Len(out) <= Len(out')

LEMMA WriteGuarantee ==
    ASSUME StreamOK, NEW event, event.type = "CaseEnd" => event.status \in TestStatus,
           NEW next, "status" \in DOMAIN next,
           next.status \in ExitStatus \cup {Running},
           Write(event, next)
    PROVE  ChildGuarantee
<1>1. CASE child.closed /\ out' = out /\ child' = next
  BY <1>1 DEF ChildGuarantee, ChildOK, StreamOK, IsStream
<1>2. ASSUME NEW seen, seen.type = "CaseEnd" => seen.status \in TestStatus,
             out' = Append(out, seen)
      PROVE  StreamOK' /\ Len(out) <= Len(out')
  <2>1. /\ IsStream(out') /\ Len(out') = Len(out) + 1 /\ Len(out) \in Nat
        /\ \A k \in 1 .. Len(out) : out'[k] = out[k]
        /\ out'[Len(out) + 1] = seen
    BY <1>2, StreamAppend DEF StreamOK, IsStream
  <2>2. QED
    BY <2>1, <1>2 DEF StreamOK
<1>3. CASE ~child.closed /\ out' = Append(out, event) /\ child' = next
  BY <1>2, <1>3 DEF ChildGuarantee, ChildOK
<1>4. CASE /\ \E seen \in Spoilt : out' = Append(out, seen)
           /\ child' = [next EXCEPT !.spoiled = @ + 1]
  <2>1. PICK seen \in Spoilt : out' = Append(out, seen)
    BY <1>4
  <2>2. seen.type # "CaseEnd"
    BY DEF Spoilt, Lost, Bad
  <2>3. child'.status = next.status /\ "status" \in DOMAIN child'
    BY <1>4
  <2>4. QED
    BY <1>2, <2>1, <2>2, <2>3 DEF ChildGuarantee, ChildOK
<1>5. QED
  BY <1>1, <1>3, <1>4 DEF Write

(* Only the verdict of a case writes a CASE_END.                           *)
LEMMA ChildStepGuarantee == IInv /\ ChildStep => ChildGuarantee
<1> SUFFICES ASSUME IInv, ChildStep PROVE ChildGuarantee
  OBVIOUS
<1>1. /\ StreamOK /\ "status" \in DOMAIN child
      /\ child.status \in ExitStatus \cup {Running}
  BY DEF IInv, TypeOK, ChildOK
<1>2. ASSUME ChildEmit PROVE ChildGuarantee
  <2> DEFINE event == Now[child.step]
             next == [child EXCEPT !.step = @ + 1,
                        !.id = IF event.type = "CaseStart" THEN event.id ELSE @,
                        !.failing = IF event.type = "CaseStart" THEN FALSE ELSE @]
  <2>1. event.type # "CaseEnd" /\ Write(event, next)
    BY <1>2 DEF ChildEmit, AtStep
  <2>2. next.status = child.status /\ "status" \in DOMAIN next
    BY <1>1
  <2> HIDE DEF event, next
  <2>3. QED
    BY <1>1, <2>1, <2>2, WriteGuarantee
<1>3. ASSUME ChildFail PROVE ChildGuarantee
  <2> DEFINE next == [child EXCEPT !.fails = @ + 1, !.failing = TRUE]
  <2>1. AssertFail(child.id).type # "CaseEnd" /\ Write(AssertFail(child.id), next)
    BY <1>3 DEF ChildFail, AssertFail
  <2>2. next.status = child.status /\ "status" \in DOMAIN next
    BY <1>1
  <2> HIDE DEF next
  <2>3. QED
    BY <1>1, <2>1, <2>2, WriteGuarantee
<1>4. ASSUME ChildVerdict PROVE ChildGuarantee
  <2>1. PICK status \in TestStatus :
          Write(CaseEnd(child.id, status),
                [child EXCEPT !.turn = @ + 1, !.step = 1, !.failed = @ \/ status = "Failed",
                              !.verdicts = Append(@, status)])
    BY <1>4 DEF ChildVerdict, TestStatus
  <2> DEFINE next == [child EXCEPT !.turn = @ + 1, !.step = 1, !.failed = @ \/ status = "Failed",
                                   !.verdicts = Append(@, status)]
  <2>2. CaseEnd(child.id, status).status \in TestStatus
    BY DEF CaseEnd
  <2>3. next.status = child.status /\ "status" \in DOMAIN next
    BY <1>1
  <2>4. Write(CaseEnd(child.id, status), next)
    BY <2>1
  <2> HIDE DEF next
  <2>5. QED
    BY <1>1, <2>2, <2>3, <2>4, WriteGuarantee
<1>5. ASSUME ChildReturn \/ ChildExit \/ ChildCrash PROVE ChildGuarantee
  <2>1. out' = out /\ child'.status \in ExitStatus /\ ChildOK'
    BY <1>1, <1>5 DEF ChildReturn, ChildExit, ChildCrash, ExitStatus, ChildOK
  <2>2. QED
    BY <1>1, <2>1 DEF ChildGuarantee, StreamOK, IsStream
<1>6. ASSUME ChildClose PROVE ChildGuarantee
  <2>1. out' = out /\ child'.status = child.status /\ ChildOK'
    BY <1>1, <1>6 DEF ChildClose, ChildOK
  <2>2. QED
    BY <1>1, <2>1 DEF ChildGuarantee, StreamOK, IsStream
<1>7. QED
  BY <1>2, <1>3, <1>4, <1>5, <1>6 DEF ChildStep

(* The part of the state that the accounting properties read.              *)
accounts == <<pc, cur, view, tally, suiteFailed, exitCode, ledger>>

AccountsOK ==
    /\ TallyMatchesLedger
    /\ FailureKnown
    /\ EndedIsLast
    /\ ExitFromFlag

LEMMA AccountsKept ==
    AccountsOK /\ UNCHANGED accounts => AccountsOK'
  BY DEF AccountsOK, accounts, TallyMatchesLedger, FailureKnown, EndedIsLast, ExitFromFlag,
         Finished

LEMMA ChildStepKeeps == IInv /\ ChildStep => IInv'
<1> SUFFICES ASSUME IInv, ChildStep PROVE IInv'
  OBVIOUS
<1>1. ChildGuarantee /\ UNCHANGED <<mainVars, readerVars, expired, ghosts>>
  BY ChildStepGuarantee DEF ChildStep
<1>2. AccountsOK'
  BY <1>1, AccountsKept DEF IInv, AccountsOK, accounts, mainVars, ghosts
<1>3. TypeOK'
  <2>1. reader.sent \in Nat /\ reader.sent <= Len(out) /\ Len(out) \in Nat
    BY DEF IInv, TypeOK, StreamOK, IsStream
  <2>2. reader'.sent <= Len(out')
    BY <1>1, <2>1 DEF ChildGuarantee, StreamOK, IsStream, readerVars
  <2>3. QED
    BY <1>1, <2>2 DEF IInv, TypeOK, ChildGuarantee, mainVars, readerVars, ghosts
<1>4. QED
  BY <1>1, <1>2, <1>3 DEF IInv, ChildGuarantee, AccountsOK

LEMMA ReaderStepKeeps == IInv /\ ReaderStep => IInv'
<1> SUFFICES ASSUME IInv, ReaderStep PROVE IInv'
  OBVIOUS
<1>1. UNCHANGED <<mainVars, childVars, got, expired, ghosts>>
  BY DEF ReaderStep, ReadChunk, ReadEof, ReadFails
<1>2. AccountsOK' /\ ChildOK' /\ StreamOK'
  BY <1>1, AccountsKept
     DEF IInv, AccountsOK, accounts, mainVars, ghosts, childVars, ChildOK, StreamOK, IsStream
<1>3. TypeOK'
  <2>1. /\ reader \in [state : {"reading", "error", "eof", "broken"}, sent : Nat]
        /\ got \in Nat /\ got <= reader.sent /\ reader.sent <= Len(out) /\ Len(out) \in Nat
    BY DEF IInv, TypeOK, StreamOK, IsStream
  <2>2. /\ reader' \in [state : {"reading", "error", "eof", "broken"}, sent : Nat]
        /\ reader.sent <= reader'.sent /\ reader'.sent <= Len(out)
    <3>1. CASE ReadChunk
      <4>1. PICK upto \in reader.sent + 1 .. Len(out) :
               \/ reader' = [reader EXCEPT !.state = "error"]
               \/ reader' = [reader EXCEPT !.sent = upto]
        BY <3>1 DEF ReadChunk
      <4>2. upto \in Nat
        BY <2>1
      <4>3. QED
        BY <2>1, <4>1, <4>2
    <3>2. CASE ReadEof
      BY <2>1, <3>2 DEF ReadEof
    <3>3. CASE ReadFails
      BY <2>1, <3>3 DEF ReadFails
    <3>4. QED
      BY <3>1, <3>2, <3>3 DEF ReaderStep
  <2>3. QED
    BY <1>1, <2>1, <2>2 DEF IInv, TypeOK, mainVars, childVars, ghosts
<1>4. QED
  BY <1>2, <1>3 DEF IInv, AccountsOK

-----------------------------------------------------------------------------
(* The main thread.  First the steps that count nothing.                   *)
View == [ran : BOOLEAN, ended : BOOLEAN, parsed : TestStatus, err : BOOLEAN]

LEMMA QuietStep ==
    ASSUME IInv, UNCHANGED <<tally, suiteFailed, ledger, out>>,
           ChildOK', child'.status \in ExitStatus \cup {Running},
           pc' \in {"spawn", "check", "recv", "kill", "wait", "judge", "finish", "exit", "bailed"},
           cur' \in Nat \ {0}, view' \in View, exitCode' \in {0, 1},
           reader' = reader, got' = got, expired' \in BOOLEAN,
           EndedIsLast', ExitFromFlag'
    PROVE  IInv'
<1>1. TallyMatchesLedger' /\ FailureKnown'
  BY DEF IInv, TallyMatchesLedger, FailureKnown
<1>2. StreamOK'
  BY DEF IInv, StreamOK, IsStream
<1>3. TypeOK'
  BY DEF IInv, TypeOK, View
<1>4. QED
  BY <1>1, <1>2, <1>3 DEF IInv

LEMMA GiveUpKeeps == IInv /\ pc \in {"check", "recv"} /\ GiveUp => IInv'
<1> SUFFICES ASSUME IInv, pc \in {"check", "recv"}, GiveUp PROVE IInv'
  OBVIOUS
<1>1. view \in View /\ view' = [view EXCEPT !.err = TRUE] /\ pc' = "kill"
  BY DEF IInv, TypeOK, View, GiveUp, Goto
<1>2. view' \in View /\ view'.ended = view.ended /\ view'.parsed = view.parsed
  BY <1>1 DEF View
<1>3. EndedIsLast' /\ ExitFromFlag'
  BY <1>1, <1>2 DEF IInv, EndedIsLast, ExitFromFlag, Finished, GiveUp, ghosts
<1>4. QED
  BY <1>1, <1>2, <1>3, QuietStep
     DEF IInv, TypeOK, ChildOK, GiveUp, childVars, readerVars, ghosts

LEMMA QuietMainKeeps ==
    IInv /\ (\/ Spawn \/ SpawnFails \/ CheckDeadline \/ ReceiveError \/ ReceiveTimeout
             \/ ReceiveDisconnected \/ Kill \/ Wait \/ JudgeSound \/ Finish
             \/ FinishFails)
      => IInv'
<1> SUFFICES ASSUME IInv PROVE
        (\/ Spawn \/ SpawnFails \/ CheckDeadline \/ ReceiveError \/ ReceiveTimeout
         \/ ReceiveDisconnected \/ Kill \/ Wait \/ JudgeSound \/ Finish
         \/ FinishFails) => IInv'
  OBVIOUS
<1> USE DEF View
<1>1. ASSUME Spawn PROVE IInv'
  <2>1. view' = FreshView /\ pc' = "check" /\ child' = NewChild(cur) /\ cur' = cur
    BY <1>1 DEF Spawn, Goto
  <2>2. EndedIsLast' /\ ExitFromFlag' /\ view' \in View
    BY <2>1 DEF EndedIsLast, ExitFromFlag, Finished, FreshView, TestStatus
  <2>3. child'.status = Running /\ ChildOK'
    BY <2>1 DEF NewChild, ChildOK
  <2>4. TypeOK' /\ StreamOK'
    <3>1. out' = <<>> /\ got' = 0 /\ reader' = [state |-> "reading", sent |-> 0]
      BY <1>1 DEF Spawn
    <3>2. Len(out') = 0 /\ StreamOK'
      BY <3>1 DEF StreamOK, IsStream
    <3>3. reader'.sent = 0 /\ reader' \in [state : {"reading", "error", "eof", "broken"}, sent : Nat]
      BY <3>1
    <3>4. /\ UNCHANGED <<cur, tally, suiteFailed, exitCode, ledger>>
          /\ expired' = FALSE
      BY <1>1 DEF Spawn, ghosts
    <3>5. got' \in Nat /\ got' <= reader'.sent /\ reader'.sent <= Len(out')
      BY <3>1, <3>2, <3>3
    <3>6. TypeOK'
      BY <2>1, <2>2, <2>3, <3>3, <3>4, <3>5 DEF IInv, TypeOK
    <3>7. QED
      BY <3>2, <3>6
  <2>5. TallyMatchesLedger' /\ FailureKnown'
    BY <1>1 DEF IInv, Spawn, ghosts, TallyMatchesLedger, FailureKnown
  <2>6. QED
    BY <2>2, <2>3, <2>4, <2>5 DEF IInv
<1>2. ASSUME SpawnFails PROVE IInv'
  <2>1. EndedIsLast' /\ ExitFromFlag'
    BY <1>2 DEF SpawnFails, Goto, EndedIsLast, ExitFromFlag, Finished
  <2>2. QED
    BY <1>2, <2>1, QuietStep
       DEF IInv, TypeOK, ChildOK, SpawnFails, Goto, childVars, readerVars, ghosts
<1>3. ASSUME CheckDeadline PROVE IInv'
  <2>1. CASE expired
    BY <1>3, <2>1, GiveUpKeeps DEF CheckDeadline
  <2>2. CASE ~expired
    <3>1. EndedIsLast' /\ ExitFromFlag'
      BY <1>3, <2>2 DEF IInv, CheckDeadline, Goto, EndedIsLast, ExitFromFlag, Finished, ghosts
    <3>2. QED
      BY <1>3, <2>2, <3>1, QuietStep
         DEF IInv, TypeOK, ChildOK, CheckDeadline, Goto, childVars, readerVars, ghosts
  <2>3. QED
    BY <2>1, <2>2
<1>4. ASSUME ReceiveError \/ ReceiveTimeout PROVE IInv'
  BY <1>4, GiveUpKeeps DEF ReceiveError, ReceiveTimeout
<1>5. ASSUME ReceiveDisconnected PROVE IInv'
  <2>1. EndedIsLast' /\ ExitFromFlag'
    BY <1>5 DEF IInv, ReceiveDisconnected, Goto, EndedIsLast, ExitFromFlag, Finished, ghosts
  <2>2. QED
    BY <1>5, <2>1, QuietStep
       DEF IInv, TypeOK, ChildOK, ReceiveDisconnected, Goto, childVars, readerVars, ghosts
<1>6. ASSUME Kill PROVE IInv'
  <2>1. EndedIsLast' /\ ExitFromFlag'
    BY <1>6 DEF IInv, Kill, Goto, EndedIsLast, ExitFromFlag, Finished, ghosts
  <2>2. ChildOK' /\ child'.status \in ExitStatus \cup {Running}
    BY <1>6 DEF IInv, TypeOK, ChildOK, Kill, ExitStatus
  <2>3. QED
    BY <1>6, <2>1, <2>2, QuietStep DEF IInv, TypeOK, Kill, Goto, readerVars, ghosts
<1>7. ASSUME Wait PROVE IInv'
  <2>1. EndedIsLast' /\ ExitFromFlag'
    BY <1>7 DEF IInv, Wait, Goto, EndedIsLast, ExitFromFlag, Finished
  <2>2. QED
    BY <1>7, <2>1, QuietStep
       DEF IInv, TypeOK, ChildOK, Wait, Goto, childVars, readerVars
<1>8. ASSUME JudgeSound PROVE IInv'
  <2>1. pc' \in {"spawn", "finish"} /\ cur' \in Nat \ {0}
    BY <1>8 DEF IInv, TypeOK, JudgeSound, NextCase, Goto
  <2>2. EndedIsLast' /\ ExitFromFlag'
    BY <2>1 DEF EndedIsLast, ExitFromFlag, Finished
  <2>3. QED
    BY <1>8, <2>1, <2>2, QuietStep
       DEF IInv, TypeOK, ChildOK, JudgeSound, childVars, readerVars, ghosts
<1>9. ASSUME Finish PROVE IInv'
  <2>1. EndedIsLast' /\ ExitFromFlag' /\ exitCode' \in {0, 1}
    BY <1>9 DEF IInv, TypeOK, Finish, Goto, EndedIsLast, ExitFromFlag, Finished
  <2>2. QED
    BY <1>9, <2>1, QuietStep
       DEF IInv, TypeOK, ChildOK, Finish, Goto, childVars, readerVars, ghosts
<1>10. ASSUME FinishFails PROVE IInv'
  <2>1. EndedIsLast' /\ ExitFromFlag'
    BY <1>10 DEF FinishFails, Goto, EndedIsLast, ExitFromFlag, Finished
  <2>2. QED
    BY <1>10, <2>1, QuietStep
       DEF IInv, TypeOK, ChildOK, FinishFails, Goto, childVars, readerVars, ghosts
<1>11. QED
  BY <1>1, <1>2, <1>3, <1>4, <1>5, <1>6, <1>7, <1>8, <1>9, <1>10

(* Now the steps that count.  One more status is counted for the current   *)
(* case, by a CASE_END or by a crash.                                      *)
CountedOK ==
    /\ tally' \in Tally /\ TallyMatchesLedger'
    /\ ledger' \in Seq([of : Nat, status : TestStatus])
    /\ suiteFailed' \in BOOLEAN /\ FailureKnown'

LEMMA CountStep ==
    ASSUME IInv, NEW status \in TestStatus,
           tally' = Count(tally, status),
           suiteFailed' = (suiteFailed \/ status = "Failed"),
           ledger' = Append(ledger, [of |-> cur, status |-> status])
    PROVE  /\ CountedOK
           /\ ledger' # <<>> /\ Last(ledger') = [of |-> cur, status |-> status]
<1> DEFINE e == [of |-> cur, status |-> status]
<1>1. e \in Entry /\ e.status = status /\ ledger' = Append(ledger, e)
  BY DEF IInv, TypeOK, Entry
<1>2. ledger \in Seq(Entry) /\ tally \in Tally /\ Agree(tally, ledger)
  BY TallyIsAgree DEF IInv, TypeOK, Entry
<1> HIDE DEF e
<1>3. /\ Count(tally, e.status) \in Tally
      /\ Append(ledger, e) \in Seq(Entry)
      /\ Agree(Count(tally, e.status), Append(ledger, e))
  BY <1>1, <1>2, CountAgrees
<1>4. tally' \in Tally /\ ledger' \in Seq(Entry) /\ TallyMatchesLedger'
  BY <1>1, <1>3 DEF Agree, TallyMatchesLedger, Holding
<1>5. /\ Len(ledger) \in Nat /\ DOMAIN ledger = 1 .. Len(ledger)
      /\ DOMAIN ledger' = 1 .. Len(ledger) + 1 /\ Len(ledger') = Len(ledger) + 1
      /\ ledger'[Len(ledger) + 1] = e
      /\ \A m \in 1 .. Len(ledger) : ledger'[m] = ledger[m]
  BY <1>1, <1>2, <1>4, LenProperties, AppendProperties
<1>6. FailureKnown'
  <2>1. (\E m \in DOMAIN ledger' : ledger'[m].status = "Failed")
           <=> (\E m \in DOMAIN ledger : ledger[m].status = "Failed") \/ e.status = "Failed"
    BY <1>5
  <2>2. suiteFailed <=> \E m \in DOMAIN ledger : ledger[m].status = "Failed"
    BY DEF IInv, FailureKnown
  <2>3. suiteFailed' <=> suiteFailed \/ e.status = "Failed"
    BY <1>1
  <2>4. QED
    BY <2>1, <2>2, <2>3 DEF FailureKnown
<1>7. suiteFailed' \in BOOLEAN
  BY DEF IInv, TypeOK
<1>8. ledger' # <<>>
  BY <1>1, <1>2, AppendProperties
<1>9. Last(ledger') = e
  BY <1>5 DEF Last
<1>10. QED
  BY <1>4, <1>6, <1>7, <1>8, <1>9 DEF e, Entry, CountedOK

(* The status counted for the current case is turned into a failure.       *)
LEMMA AmendStep ==
    ASSUME IInv, ledger # <<>>, Last(ledger) = [of |-> cur, status |-> view.parsed],
           view.parsed \in TestStatus, view.parsed # "Failed",
           tally' = Count(Uncount(tally, view.parsed), "Failed"),
           suiteFailed' = TRUE,
           ledger' = Amended(ledger)
    PROVE  CountedOK
<1>1. ledger \in Seq(Entry) /\ tally \in Tally /\ Agree(tally, ledger)
  BY TallyIsAgree DEF IInv, TypeOK, Entry
<1>2. Last(ledger).status = view.parsed /\ "Failed" \in TestStatus
  BY DEF TestStatus
<1>3. /\ Count(Uncount(tally, view.parsed), "Failed") \in Tally
      /\ Agree(Count(Uncount(tally, view.parsed), "Failed"), Amended(ledger))
  BY <1>1, <1>2, AmendAgrees
<1>4. /\ Amended(ledger) \in Seq(Entry) /\ DOMAIN Amended(ledger) = DOMAIN ledger
      /\ Len(ledger) \in DOMAIN ledger
      /\ Amended(ledger)[Len(ledger)] = [of |-> Last(ledger).of, status |-> "Failed"]
  BY <1>1, <1>2, HoldingAmend
<1>5. TallyMatchesLedger'
  BY <1>3 DEF Agree, TallyMatchesLedger, Holding
<1>6. FailureKnown'
  BY <1>4 DEF FailureKnown
<1>7. QED
  BY <1>3, <1>4, <1>5, <1>6 DEF CountedOK, Entry

LEMMA ReceiveKeeps == IInv /\ Receive => IInv'
<1> SUFFICES ASSUME IInv, Receive PROVE IInv'
  OBVIOUS
<1> DEFINE event == out[got + 1]
<1>1. /\ event.type = "CaseEnd" => event.status \in TestStatus
      /\ got' \in Nat /\ got' <= reader'.sent /\ reader'.sent <= Len(out')
  <2>1. got \in Nat /\ got < reader.sent /\ reader.sent \in Nat
        /\ reader.sent <= Len(out) /\ Len(out) \in Nat
    BY DEF IInv, TypeOK, Receive, StreamOK, IsStream
  <2>2. got + 1 \in 1 .. Len(out)
    BY <2>1
  <2>3. got' = got + 1 /\ reader' = reader /\ out' = out
    BY DEF Receive, childVars
  <2>4. QED
    BY <2>1, <2>2, <2>3 DEF IInv, StreamOK
<1>2. StreamOK' /\ ChildOK'
  BY DEF IInv, Receive, childVars, StreamOK, IsStream, ChildOK
<1>3. pc = "recv" /\ pc' = "check" /\ cur' = cur /\ view \in View
  BY DEF IInv, TypeOK, Receive, Goto, View
<1>4. ASSUME view' \in View, CountedOK, EndedIsLast' PROVE IInv'
  <2>1. ExitFromFlag'
    BY <1>3 DEF ExitFromFlag, Finished
  <2>2. TypeOK'
    BY <1>1, <1>3, <1>4 DEF IInv, TypeOK, Receive, childVars, CountedOK, View
  <2>3. QED
    BY <1>2, <1>4, <2>1, <2>2 DEF IInv, CountedOK
<1>5. CASE event.type = "CaseEnd" /\ OnCaseEnd(event)
  <2>1. view' \in View /\ view'.ended /\ view'.parsed = event.status
    BY <1>1, <1>3, <1>5 DEF OnCaseEnd, View
  <2>2. CountedOK /\ ledger' # <<>> /\ Last(ledger') = [of |-> cur, status |-> event.status]
    <3> HIDE DEF event
    <3>1. QED
      BY <1>1, <1>5, CountStep DEF OnCaseEnd
  <2>3. EndedIsLast'
    BY <1>3, <2>1, <2>2 DEF EndedIsLast
  <2>4. QED
    BY <1>4, <2>1, <2>2, <2>3
<1>6. ASSUME UNCHANGED <<tally, suiteFailed, ledger>>, view' \in View,
             view'.ended = view.ended, view'.parsed = view.parsed
      PROVE  IInv'
  <2>1. CountedOK
    BY <1>6 DEF IInv, TypeOK, CountedOK, TallyMatchesLedger, FailureKnown
  <2>2. EndedIsLast'
    BY <1>3, <1>6 DEF IInv, EndedIsLast
  <2>3. QED
    BY <1>4, <1>6, <2>1, <2>2
<1>7. CASE event.type = "CaseStart" /\ OnCaseStart(event)
  BY <1>3, <1>6, <1>7 DEF OnCaseStart, View
<1>8. CASE \/ event.type = "SuiteStart" /\ OnSuiteStart(event)
           \/ event.type = "AssertFail" /\ OnAssertFail(event)
           \/ UNCHANGED <<view, tally, suiteFailed, seenSuites, report, ledger>>
  BY <1>3, <1>6, <1>8 DEF OnSuiteStart, OnAssertFail
<1>9. QED
  BY <1>5, <1>7, <1>8 DEF Receive, Handle

LEMMA JudgeCrashKeeps == IInv /\ JudgeCrash => IInv'
<1> SUFFICES ASSUME IInv, JudgeCrash PROVE IInv'
  OBVIOUS
<1>1. /\ pc' \in {"spawn", "finish"} /\ cur' \in Nat \ {0}
      /\ UNCHANGED <<view, seenSuites, exitCode, childVars, readerVars, expired, fate>>
  BY DEF IInv, TypeOK, JudgeCrash, NextCase, Goto
<1>2. CountedOK
  <2>1. CASE ~view.ended
    BY <2>1, CountStep DEF JudgeCrash, CountCrash, TestStatus
  <2>2. CASE view.ended /\ view.parsed # "Failed"
    <3>1. ledger # <<>> /\ Last(ledger) = [of |-> cur, status |-> view.parsed]
      BY <2>2 DEF IInv, EndedIsLast, JudgeCrash
    <3>2. view.parsed \in TestStatus
      BY DEF IInv, TypeOK
    <3>3. ledger' = Amended(ledger) /\ suiteFailed' = TRUE
          /\ tally' = Count(Uncount(tally, view.parsed), "Failed")
      BY <2>2 DEF JudgeCrash, CountCrash, Amended
    <3>4. QED
      BY <2>2, <3>1, <3>2, <3>3, AmendStep
  <2>3. CASE view.ended /\ view.parsed = "Failed"
    BY <2>3 DEF IInv, TypeOK, JudgeCrash, CountCrash, CountedOK, TallyMatchesLedger,
                FailureKnown
  <2>4. QED
    BY <2>1, <2>2, <2>3
<1>3. EndedIsLast' /\ ExitFromFlag'
  BY <1>1 DEF EndedIsLast, ExitFromFlag, Finished
<1>4. StreamOK' /\ ChildOK'
  BY <1>1 DEF IInv, childVars, StreamOK, IsStream, ChildOK
<1>5. TypeOK'
  BY <1>1, <1>2 DEF IInv, TypeOK, CountedOK, childVars, readerVars
<1>6. QED
  BY <1>2, <1>3, <1>4, <1>5 DEF IInv, CountedOK

-----------------------------------------------------------------------------
LEMMA NextKeeps == IInv /\ [Next]_vars => IInv'
<1> SUFFICES ASSUME IInv, [Next]_vars PROVE IInv'
  OBVIOUS
<1>1. CASE MainStep
  BY <1>1, QuietMainKeeps, ReceiveKeeps, JudgeCrashKeeps DEF MainStep
<1>2. CASE ReaderStep
  BY <1>2, ReaderStepKeeps
<1>3. CASE ChildStep
  BY <1>3, ChildStepKeeps
<1>4. CASE Tick
  <2>1. EndedIsLast' /\ ExitFromFlag'
    BY <1>4 DEF IInv, Tick, mainVars, ghosts, EndedIsLast, ExitFromFlag, Finished
  <2>2. QED
    BY <1>4, <2>1, QuietStep
       DEF IInv, TypeOK, ChildOK, Tick, mainVars, childVars, readerVars, ghosts, View
<1>5. CASE UNCHANGED vars
  <2>1. EndedIsLast' /\ ExitFromFlag'
    BY <1>5 DEF IInv, vars, mainVars, ghosts, EndedIsLast, ExitFromFlag, Finished
  <2>2. QED
    BY <1>5, <2>1, QuietStep
       DEF IInv, TypeOK, ChildOK, vars, mainVars, childVars, readerVars, ghosts, View
<1>6. QED
  BY <1>1, <1>2, <1>3, <1>4, <1>5 DEF Next, Terminated

THEOREM Invariance == Spec => []IInv
<1>1. IInv /\ [Next]_vars => IInv'
  BY NextKeeps
<1>2. QED
  BY InitIInv, <1>1, PTL DEF Spec

(* The variables of run_isolated, its child and its reader keep their      *)
(* types, and no event is received that the reader did not send.           *)
THEOREM TypeCorrect == Spec => []TypeOK
<1>1. IInv => TypeOK
  BY DEF IInv
<1>2. QED
  BY Invariance, <1>1, PTL

(* However many children crash, late or early, passed_count, failed_count  *)
(* and skipped_count are the numbers of cases held for each status.        *)
THEOREM TallyCorrect == Spec => []TallyMatchesLedger
<1>1. IInv => TallyMatchesLedger
  BY DEF IInv
<1>2. QED
  BY Invariance, <1>1, PTL

(* The exit code of a finished run is 1 exactly if some case failed.       *)
THEOREM ExitCodeCorrect == Spec => []ExitTellsFailure
<1>1. IInv => ExitTellsFailure
  BY DEF IInv, ExitTellsFailure, ExitFromFlag, FailureKnown
<1>2. QED
  BY Invariance, <1>1, PTL

-----------------------------------------------------------------------------
(* The refinement: every step of the three parties is a step of CaseLedger *)
(* or leaves it alone.                                                     *)
LEMMA LedgerInit == Init => Ledger!Init
  BY DEF Init, Ledger!Init

LEMMA LedgerStutter ==
    ASSUME UNCHANGED <<cur, ledger, exitCode>>, pc \notin {"exit", "bailed"},
           pc' \notin {"exit", "bailed"}
    PROVE  UNCHANGED Ledger!vars
  BY DEF Ledger!vars

LEMMA LedgerStep == IInv /\ [Next]_vars => [Ledger!Next]_(Ledger!vars)
<1> SUFFICES ASSUME IInv, [Next]_vars PROVE Ledger!Next \/ UNCHANGED Ledger!vars
  OBVIOUS
<1>1. CASE Spawn \/ CheckDeadline \/ ReceiveError \/ ReceiveTimeout \/ ReceiveDisconnected
           \/ Kill \/ Wait
  BY <1>1, LedgerStutter
     DEF Spawn, CheckDeadline, ReceiveError, ReceiveTimeout, ReceiveDisconnected, Kill, Wait,
         GiveUp, Goto, ghosts
<1>2. CASE SpawnFails \/ FinishFails
  BY <1>2 DEF SpawnFails, FinishFails, Goto, ghosts, Ledger!Next, Ledger!GiveUp
<1>3. CASE Receive
  <2> DEFINE event == out[got + 1]
  <2>1. pc = "recv" /\ pc' = "check" /\ UNCHANGED <<cur, exitCode>>
    BY <1>3 DEF Receive, Goto
  <2>2. CASE event.type = "CaseEnd" /\ OnCaseEnd(event)
    <3>1. event.status \in TestStatus
      <4>1. got \in Nat /\ got < reader.sent /\ reader.sent \in Nat
            /\ reader.sent <= Len(out) /\ Len(out) \in Nat
        BY <1>3 DEF IInv, TypeOK, Receive, StreamOK, IsStream
      <4>2. got + 1 \in 1 .. Len(out)
        BY <4>1
      <4>3. QED
        BY <2>2, <4>2 DEF IInv, StreamOK
    <3>2. Ledger!EnterStatus(event.status)
      BY <2>2 DEF OnCaseEnd, Ledger!EnterStatus
    <3>3. QED
      BY <2>1, <3>1, <3>2 DEF Ledger!Next, Ledger!Enter, TestStatus
  <2>3. CASE ledger' = ledger
    BY <2>1, <2>3, LedgerStutter
  <2>4. QED
    BY <1>3, <2>2, <2>3
       DEF Receive, Handle, OnSuiteStart, OnCaseStart, OnAssertFail
<1>4. CASE JudgeSound
  BY <1>4 DEF JudgeSound, NextCase, Goto, ghosts, Ledger!Next, Ledger!Leave
<1>5. CASE JudgeCrash
  <2>1. pc = "judge" /\ pc' \in {"spawn", "finish"} /\ cur' \in {cur, cur + 1}
    BY <1>5 DEF JudgeCrash, NextCase, Goto
  <2>2. Ledger!EnterStatus("Failed") \/ Ledger!Amend \/ UNCHANGED ledger
    <3>1. CASE ~view.ended
      BY <1>5, <3>1 DEF JudgeCrash, CountCrash, Ledger!EnterStatus
    <3>2. CASE view.ended /\ view.parsed # "Failed"
      <4>1. ledger # <<>> /\ Last(ledger) = [of |-> cur, status |-> view.parsed]
        BY <2>1, <3>2 DEF IInv, EndedIsLast
      <4>2. ledger[Len(ledger)].of = cur
        BY <4>1 DEF Last
      <4>3. ledger' = [ledger EXCEPT ![Len(ledger)] = [of |-> @.of, status |-> "Failed"]]
        BY <1>5, <3>2 DEF JudgeCrash, CountCrash
      <4>4. ledger' = [ledger EXCEPT ![Len(ledger)] = [of |-> cur, status |-> "Failed"]]
        BY <4>2, <4>3
      <4>5. QED
        BY <4>1, <4>2, <4>4 DEF Ledger!Amend
    <3>3. CASE view.ended /\ view.parsed = "Failed"
      BY <1>5, <3>3 DEF JudgeCrash, CountCrash
    <3>4. QED
      BY <3>1, <3>2, <3>3
  <2>3. QED
    BY <2>1, <2>2 DEF Ledger!Next, Ledger!Leave
<1>6. CASE Finish
  <2>1. pc = "finish" /\ pc' = "exit" /\ UNCHANGED <<cur, ledger>>
        /\ exitCode' = IF suiteFailed THEN 1 ELSE 0
    BY <1>6 DEF Finish, Goto, ghosts
  <2>2. suiteFailed <=> \E k \in DOMAIN ledger : ledger[k].status = "Failed"
    BY DEF IInv, FailureKnown
  <2>3. QED
    BY <2>1, <2>2 DEF Ledger!Next, Ledger!Close
<1>7. CASE ReaderStep \/ ChildStep \/ Tick \/ UNCHANGED vars
  <2>1. UNCHANGED <<pc, cur, ledger, exitCode>>
    BY <1>7 DEF ReaderStep, ReadChunk, ReadEof, ReadFails, ChildStep, Tick, vars, mainVars, ghosts
  <2>2. QED
    BY <2>1 DEF Ledger!vars
<1>8. QED
  BY <1>1, <1>2, <1>3, <1>4, <1>5, <1>6, <1>7 DEF Next, MainStep, Terminated

(* run_isolated keeps the promise of CaseLedger: judged cases are final,   *)
(* only the current case's status is ever revised, and only into a         *)
(* failure, and the result is that of the book.                            *)
THEOREM RunIsolatedImplementsLedger == Spec => ImplementsLedger
<1>1. IInv /\ [Next]_vars => [Ledger!Next]_(Ledger!vars)
  BY LedgerStep
<1>2. QED
  BY LedgerInit, Invariance, <1>1, PTL DEF Spec, ImplementsLedger, Ledger!Spec

-----------------------------------------------------------------------------
(* Crashes.  The children waited for are those of the first cases, one     *)
(* each, the current one included once it has been waited for.             *)
FateOK ==
    /\ IsStream(fate)
    /\ pc # "bailed" =>
          Len(fate) = IF pc \in {"judge", "finish", "exit"} THEN cur ELSE cur - 1
    /\ pc = "judge" => ~Alive /\ fate[cur].status = child.status

FailureOf(k) == \E m \in CountsOf(k) : ledger[m].status = "Failed"

(* Once a case counts as failed it does so for good.                       *)
FailuresStay == \A k : FailureOf(k) => FailureOf(k)'

(* What --on-crash makes of a crash, at every moment.                      *)
PolicyOK ==
    /\ OnCrash = "abort" =>
          \A k \in Judged : Crashed(k) => Len(fate) = k /\ pc \in {"finish", "exit", "bailed"}
    /\ (pc \in {"finish", "exit"} /\ Len(fate) < Len(Cases)) =>
          OnCrash = "abort" /\ FailureOf(Len(fate))

CrashInv ==
    /\ FateOK
    /\ CrashesAreFailures
    /\ PolicyOK

LEMMA CrashInit == Init => CrashInv
<1> SUFFICES ASSUME Init PROVE CrashInv
  OBVIOUS
<1>1. Len(fate) = 0 /\ DOMAIN fate = {} /\ cur = 1 /\ pc \in {"spawn", "bailed"}
  BY DEF Init
<1>2. QED
  BY <1>1 DEF CrashInv, FateOK, IsStream, CrashesAreFailures, PolicyOK, Judged

LEMMA FailuresStayStep == IInv /\ [Next]_vars => FailuresStay
<1> SUFFICES ASSUME IInv, [Next]_vars PROVE FailuresStay
  OBVIOUS
<1>1. Len(ledger) \in Nat /\ DOMAIN ledger = 1 .. Len(ledger) /\ ledger \in Seq(Entry)
  BY LenProperties DEF IInv, TypeOK, Entry
<1>2. ASSUME ledger' = ledger PROVE FailuresStay
  BY <1>2 DEF FailuresStay, FailureOf, CountsOf
<1>3. ASSUME NEW status \in TestStatus,
             ledger' = Append(ledger, [of |-> cur, status |-> status])
      PROVE  FailuresStay
  <2>1. [of |-> cur, status |-> status] \in Entry
    BY DEF IInv, TypeOK, Entry
  <2>2. /\ \A m \in DOMAIN ledger : m \in DOMAIN ledger' /\ ledger'[m] = ledger[m]
    BY <1>1, <1>3, <2>1, AppendProperties, LenProperties
  <2>3. QED
    BY <2>2 DEF FailuresStay, FailureOf, CountsOf
<1>4. ASSUME ledger # <<>>, ledger' = Amended(ledger)
      PROVE  FailuresStay
  <2>1. /\ DOMAIN ledger' = DOMAIN ledger
        /\ \A m \in DOMAIN ledger : ledger'[m] =
              IF m = Len(ledger) THEN [of |-> ledger[m].of, status |-> "Failed"] ELSE ledger[m]
    BY <1>4 DEF Amended
  <2>2. QED
    BY <2>1 DEF FailuresStay, FailureOf, CountsOf
<1>5. CASE Receive
  <2>1. CASE out[got + 1].type = "CaseEnd" /\ OnCaseEnd(out[got + 1])
    <3>1. out[got + 1].status \in TestStatus
      <4>1. got \in Nat /\ got < reader.sent /\ reader.sent \in Nat
            /\ reader.sent <= Len(out) /\ Len(out) \in Nat
        BY <1>5 DEF IInv, TypeOK, Receive, StreamOK, IsStream
      <4>2. got + 1 \in 1 .. Len(out)
        BY <4>1
      <4>3. QED
        BY <2>1, <4>2 DEF IInv, StreamOK
    <3>2. QED
      BY <1>3, <2>1, <3>1 DEF OnCaseEnd
  <2>2. CASE ledger' = ledger
    BY <1>2, <2>2
  <2>3. QED
    BY <1>5, <2>1, <2>2 DEF Receive, Handle, OnSuiteStart, OnCaseStart, OnAssertFail
<1>6. CASE JudgeCrash
  <2>1. CASE ~view.ended
    BY <1>3, <1>6, <2>1 DEF JudgeCrash, CountCrash, TestStatus
  <2>2. CASE view.ended /\ view.parsed # "Failed"
    <3>1. ledger # <<>>
      BY <1>6, <2>2 DEF IInv, EndedIsLast, JudgeCrash
    <3>2. QED
      BY <1>4, <1>6, <2>2, <3>1 DEF JudgeCrash, CountCrash, Amended
  <2>3. CASE view.ended /\ view.parsed = "Failed"
    BY <1>2, <1>6, <2>3 DEF JudgeCrash, CountCrash
  <2>4. QED
    BY <2>1, <2>2, <2>3
<1>7. CASE UNCHANGED ledger
  BY <1>2, <1>7
<1>8. QED
  BY <1>5, <1>6, <1>7
     DEF Next, MainStep, Spawn, SpawnFails, CheckDeadline, GiveUp, ReceiveError,
         ReceiveTimeout, ReceiveDisconnected, Kill, Wait, JudgeSound, Finish, FinishFails, ReaderStep,
         ReadChunk, ReadEof, ReadFails, ChildStep, Tick, Terminated, vars, ghosts

(* The judgement itself: a crashed child leaves a failure of its case.     *)
LEMMA JudgeCrashCounts == IInv /\ JudgeCrash => \A k : k = cur => FailureOf(k)'
<1> SUFFICES ASSUME IInv, JudgeCrash, NEW k, k = cur PROVE FailureOf(k)'
  OBVIOUS
<1> DEFINE e == [of |-> cur, status |-> "Failed"]
<1>1. ledger \in Seq(Entry) /\ Len(ledger) \in Nat /\ DOMAIN ledger = 1 .. Len(ledger)
      /\ e \in Entry
  BY LenProperties DEF IInv, TypeOK, Entry, TestStatus
<1>2. CASE ~view.ended
  <2>1. ledger' = Append(ledger, e)
    BY <1>2 DEF JudgeCrash, CountCrash
  <2>2. Len(ledger) + 1 \in DOMAIN ledger' /\ ledger'[Len(ledger) + 1] = e
    BY <1>1, <2>1, AppendProperties, LenProperties
  <2>3. QED
    BY <2>2 DEF FailureOf, CountsOf
<1>3. CASE view.ended
  <2>1. ledger # <<>> /\ ledger[Len(ledger)] = [of |-> cur, status |-> view.parsed]
    BY <1>3 DEF IInv, EndedIsLast, JudgeCrash, Last
  <2>2. Len(ledger) \in DOMAIN ledger
    BY <1>1, <2>1, EmptySeq
  <2>3. DOMAIN ledger' = DOMAIN ledger /\ ledger'[Len(ledger)] = e
    BY <1>3, <2>1, <2>2 DEF JudgeCrash, CountCrash
  <2>4. QED
    BY <2>2, <2>3 DEF FailureOf, CountsOf
<1>4. QED
  BY <1>2, <1>3 DEF IInv, TypeOK

(* Steps that neither judge nor wait for a child.                          *)
LEMMA CrashInvKept ==
    ASSUME IInv, CrashInv, FailuresStay, UNCHANGED <<cur, fate>>,
           pc = "judge" => UNCHANGED child,
           pc \in {"judge", "finish", "exit"} => UNCHANGED ledger,
           \/ pc' = pc
           \/ /\ pc \in {"spawn", "check", "recv", "kill", "wait"}
              /\ pc' \in {"spawn", "check", "recv", "kill", "wait", "bailed"}
           \/ pc = "finish" /\ pc' \in {"exit", "bailed"}
    PROVE  CrashInv'
<1>1. FateOK'
  BY DEF CrashInv, FateOK, IsStream, Alive
<1>2. Judged' = Judged /\ \A k : Crashed(k)' <=> Crashed(k)
  BY DEF Judged, Crashed
<1>3. CrashesAreFailures'
  BY <1>2 DEF CrashInv, CrashesAreFailures, FailuresStay, FailureOf
<1>4. PolicyOK'
  <2>1. ASSUME NEW k \in Judged', Crashed(k)', OnCrash = "abort"
        PROVE  Len(fate') = k /\ pc' \in {"finish", "exit", "bailed"}
    BY <1>2, <2>1 DEF CrashInv, PolicyOK
  <2>2. ASSUME pc' \in {"finish", "exit"}, Len(fate') < Len(Cases)
        PROVE  OnCrash = "abort" /\ FailureOf(Len(fate))'
    <3>1. pc \in {"finish", "exit"}
      BY <2>2
    <3>2. OnCrash = "abort" /\ FailureOf(Len(fate))
      BY <2>2, <3>1 DEF CrashInv, PolicyOK
    <3>3. QED
      BY <3>1, <3>2 DEF FailureOf, CountsOf
  <2>3. QED
    BY <2>1, <2>2 DEF PolicyOK
<1>5. QED
  BY <1>1, <1>3, <1>4 DEF CrashInv

(* The child's status is not 0 or 1 only if it is judged a crash.          *)
LEMMA CrashStep == IInv /\ CrashInv /\ [Next]_vars => CrashInv'
<1> SUFFICES ASSUME IInv, CrashInv, [Next]_vars PROVE CrashInv'
  OBVIOUS
<1>1. FailuresStay
  BY FailuresStayStep
<1>2. cur \in Nat \ {0} /\ Len(fate) \in Nat
  BY DEF IInv, TypeOK, CrashInv, FateOK, IsStream
<1>3. CASE Wait
  <2>1. pc = "wait" /\ pc' = "judge" /\ ~Alive /\ UNCHANGED <<cur, child, ledger>>
        /\ fate' = Append(fate, Account)
    BY <1>3 DEF Wait, Goto, childVars
  <2>2. /\ IsStream(fate') /\ Len(fate') = Len(fate) + 1 /\ Len(fate) + 1 = cur
        /\ \A k \in 1 .. Len(fate) : fate'[k] = fate[k]
        /\ fate'[cur] = Account
    BY <1>2, <2>1, StreamAppend DEF CrashInv, FateOK
  <2>3. FateOK'
    BY <2>1, <2>2 DEF FateOK, Alive, Account
  <2>4. Judged' = Judged /\ Judged = 1 .. Len(fate)
    BY <1>2, <2>1, <2>2 DEF Judged, CrashInv, FateOK, IsStream
  <2>5. \A k \in Judged : Crashed(k)' <=> Crashed(k)
    BY <2>2, <2>4 DEF Crashed
  <2>6. CrashesAreFailures'
    BY <1>1, <2>4, <2>5 DEF CrashInv, CrashesAreFailures, FailuresStay, FailureOf
  <2>7. PolicyOK'
    BY <2>1, <2>4, <2>5 DEF CrashInv, PolicyOK
  <2>8. QED
    BY <2>3, <2>6, <2>7 DEF CrashInv
<1>4. CASE JudgeSound \/ JudgeCrash
  <2>1. /\ pc = "judge" /\ fate' = fate /\ child' = child
        /\ \/ pc' = "spawn" /\ cur' = cur + 1
           \/ pc' = "finish" /\ cur' = cur
    BY <1>4 DEF JudgeSound, JudgeCrash, NextCase, Goto, childVars, ghosts
  <2>2. FateOK'
    BY <1>2, <2>1 DEF CrashInv, FateOK, IsStream
  <2>3. Judged = 1 .. cur - 1 /\ Judged' = 1 .. cur /\ fate[cur].status = child.status
    BY <1>2, <2>1 DEF Judged, CrashInv, FateOK, IsStream
  <2>4. \A k : Crashed(k)' <=> Crashed(k)
    BY <2>1 DEF Crashed
  <2>5. ASSUME Crashed(cur) PROVE JudgeCrash
    BY <1>4, <2>3, <2>5 DEF JudgeSound, Sound, ExitOk, Crashed
  <2>6. ASSUME JudgeCrash PROVE \A k : k = cur => FailureOf(k)'
    BY <2>6, JudgeCrashCounts
  <2>7. CrashesAreFailures'
    <3>1. ASSUME NEW k \in 1 .. cur, Crashed(k) PROVE FailureOf(k)'
      <4>1. CASE k = cur
        BY <3>1, <4>1, <2>5, <2>6
      <4>2. CASE k # cur
        <5>1. k \in Judged
          BY <1>2, <2>3, <4>2
        <5>2. FailureOf(k)
          BY <3>1, <5>1 DEF CrashInv, CrashesAreFailures, FailureOf
        <5>3. QED
          BY <1>1, <5>2 DEF FailuresStay
      <4>3. QED
        BY <4>1, <4>2
    <3>2. QED
      BY <2>3, <2>4, <3>1 DEF CrashesAreFailures, FailureOf
  <2>8. PolicyOK'
    <3>1. ASSUME OnCrash = "abort", NEW k \in Judged', Crashed(k)'
          PROVE  Len(fate') = k /\ pc' = "finish"
      <4>1. k = cur
        <5>1. ASSUME k # cur PROVE FALSE
          BY <1>2, <2>1, <2>3, <2>4, <3>1, <5>1 DEF CrashInv, PolicyOK
        <5>2. QED
          BY <5>1
      <4>2. JudgeCrash
        BY <2>4, <2>5, <3>1, <4>1
      <4>3. pc' = "finish"
        BY <3>1, <4>2 DEF JudgeCrash, Goto
      <4>4. QED
        BY <1>2, <2>1, <4>1, <4>3 DEF CrashInv, FateOK
    <3>2. ASSUME pc' \in {"finish", "exit"}, Len(fate') < Len(Cases)
          PROVE  OnCrash = "abort" /\ FailureOf(Len(fate))'
      <4>1. Len(fate') = cur /\ Len(fate) = cur /\ cur' = cur
        BY <1>2, <2>1, <3>2 DEF CrashInv, FateOK
      <4>2. JudgeCrash /\ OnCrash = "abort"
        BY <1>4, <2>1, <3>2, <4>1 DEF JudgeSound, JudgeCrash, NextCase, Goto
      <4>3. QED
        BY <2>6, <4>1, <4>2 DEF FailureOf
    <3>3. QED
      BY <3>1, <3>2 DEF PolicyOK
  <2>9. QED
    BY <2>2, <2>7, <2>8 DEF CrashInv
<1>5. CASE \/ Spawn \/ SpawnFails \/ CheckDeadline \/ Receive \/ ReceiveError
           \/ ReceiveTimeout \/ ReceiveDisconnected \/ Kill
  BY <1>1, <1>5, CrashInvKept
     DEF Spawn, SpawnFails, CheckDeadline, GiveUp, Receive, ReceiveError, ReceiveTimeout,
         ReceiveDisconnected, Kill, Goto, ghosts
<1>6. CASE Finish \/ FinishFails
  BY <1>1, <1>6, CrashInvKept DEF Finish, FinishFails, Goto, ghosts, childVars
<1>7. CASE ChildStep
  <2>1. UNCHANGED <<pc, cur, fate, ledger>> /\ Alive
    BY <1>7 DEF ChildStep, mainVars, ghosts, ChildEmit, ChildFail, ChildVerdict, ChildReturn,
                ChildExit, ChildCrash, ChildClose, AtStep
  <2>2. pc # "judge"
    BY <2>1 DEF CrashInv, FateOK
  <2>3. QED
    BY <1>1, <2>1, <2>2, CrashInvKept
<1>8. CASE ReaderStep \/ Tick \/ UNCHANGED vars
  BY <1>1, <1>8, CrashInvKept
     DEF ReaderStep, ReadChunk, ReadEof, ReadFails, Tick, vars, mainVars, childVars, ghosts
<1>9. QED
  BY <1>3, <1>4, <1>5, <1>6, <1>7, <1>8 DEF Next, MainStep, Terminated

LEMMA CrashInvariance == Spec => [](IInv /\ CrashInv)
<1>1. IInv /\ CrashInv /\ [Next]_vars => CrashInv'
  BY CrashStep
<1>2. QED
  BY CrashInit, Invariance, <1>1, PTL DEF Spec

(* A child that dies by a signal, at the deadline or with a foreign exit   *)
(* code leaves a failure for its case, whatever it had announced before.   *)
THEOREM CrashesCount == Spec => []CrashesAreFailures
<1>1. CrashInv => CrashesAreFailures
  BY DEF CrashInv
<1>2. QED
  BY CrashInvariance, <1>1, PTL

(* --on-crash is obeyed: nothing runs after a crash under "abort", and a   *)
(* run that ends early does so under "abort", after a failure.             *)
THEOREM PolicyCorrect == Spec => []PolicyHonoured
<1>1. CrashInv => PolicyHonoured
  BY DEF CrashInv, PolicyOK, PolicyHonoured, FailureOf, Finished
<1>2. QED
  BY CrashInvariance, <1>1, PTL

-----------------------------------------------------------------------------
(* What becomes of the verdicts of the children.                           *)

Holds(verdicts, status) == \E v \in DOMAIN verdicts : verdicts[v] = status

(* The child has given this verdict.                                       *)
Announced(status) == Holds(child.verdicts, status)

VerdictsOK == "verdicts" \in DOMAIN child /\ IsStream(child.verdicts)

EndsAnnounced ==
    \A k \in 1 .. Len(out) : out[k].type = "CaseEnd" => Announced(out[k].status)

WithChild == {"check", "recv", "kill", "wait", "judge"}

(* What is counted for the current case, unless a failure, its child said. *)
CurrentAnnounced ==
    pc \in WithChild =>
        \A m \in CountsOf(cur) : ledger[m].status # "Failed" => Announced(ledger[m].status)

(* Nothing is counted for cases that have no child yet.                    *)
NothingAhead ==
    /\ \A m \in DOMAIN ledger : ledger[m].of <= cur
    /\ pc = "spawn" => CountsOf(cur) = {}

AccountIsOfChild == pc = "judge" => fate[cur].verdicts = child.verdicts

GenuineInv ==
    /\ VerdictsOK /\ EndsAnnounced /\ CurrentAnnounced
    /\ NothingAhead /\ AccountIsOfChild
    /\ PassesAreGenuine

-----------------------------------------------------------------------------
(* Before the first child nothing is announced and nothing is counted.     *)
LEMMA InitGenuine == Init => GenuineInv
<1> SUFFICES ASSUME Init PROVE GenuineInv
  OBVIOUS
<1>1. /\ ledger = <<>> /\ fate = <<>> /\ out = <<>> /\ pc \in {"spawn", "bailed"}
      /\ child.verdicts = <<>> /\ "verdicts" \in DOMAIN child
  BY DEF Init
<1>2. CountsOf(cur) = {} /\ Judged = {} /\ DOMAIN ledger = {} /\ Len(out) = 0
  BY <1>1 DEF CountsOf, Judged
<1>3. VerdictsOK
  BY <1>1 DEF VerdictsOK, IsStream
<1>4. EndsAnnounced
  BY <1>2 DEF EndsAnnounced
<1>5. CurrentAnnounced /\ NothingAhead /\ AccountIsOfChild /\ PassesAreGenuine
  BY <1>1, <1>2 DEF CurrentAnnounced, WithChild, NothingAhead, AccountIsOfChild, PassesAreGenuine
<1> QED
  BY <1>3, <1>4, <1>5 DEF GenuineInv

(* What a child may do to its verdicts and its stream: no CASE_END without *)
(* the verdict, and no verdict is taken back.                              *)
ChildAnnounces ==
    /\ VerdictsOK' /\ EndsAnnounced'
    /\ \A status : Announced(status) => Announced(status)'

(* A write that puts a CASE_END on the pipe comes with its verdict.        *)
LEMMA WriteAnnounces ==
    ASSUME StreamOK, EndsAnnounced, NEW event, NEW next,
           "verdicts" \in DOMAIN next, IsStream(next.verdicts),
           \A status : Announced(status) => Holds(next.verdicts, status),
           event.type = "CaseEnd" => Holds(next.verdicts, event.status),
           Write(event, next)
    PROVE  ChildAnnounces
<1>1. child'.verdicts = next.verdicts /\ "verdicts" \in DOMAIN child'
  <2>1. CASE child' = next
    BY <2>1
  <2>2. CASE child' = [next EXCEPT !.spoiled = @ + 1]
    BY <2>2
  <2> QED
    BY <2>1, <2>2 DEF Write
<1>2. VerdictsOK' /\ \A status : Announced(status) => Announced(status)'
  BY <1>1 DEF VerdictsOK, Announced, IsStream
<1>3. out' = out \/ \E seen : /\ out' = Append(out, seen)
                              /\ seen.type = "CaseEnd" => Holds(next.verdicts, seen.status)
  <2>1. \A seen \in Spoilt : seen.type # "CaseEnd"
    BY DEF Spoilt, Lost, Bad
  <2> QED
    BY <2>1 DEF Write
<1>4. CASE out' = out
  BY <1>2, <1>4 DEF EndsAnnounced, ChildAnnounces
<1>5. ASSUME NEW seen, out' = Append(out, seen),
             seen.type = "CaseEnd" => Holds(next.verdicts, seen.status)
      PROVE  ChildAnnounces
  <2>1. /\ IsStream(out') /\ Len(out') = Len(out) + 1 /\ Len(out) \in Nat
        /\ \A k \in 1 .. Len(out) : out'[k] = out[k]
        /\ out'[Len(out) + 1] = seen
    BY <1>5, StreamAppend DEF StreamOK, IsStream
  <2>2. EndsAnnounced'
    <3>1. ASSUME NEW k \in 1 .. Len(out'), out'[k].type = "CaseEnd"
          PROVE  Holds(child'.verdicts, out'[k].status)
      <4>1. CASE k \in 1 .. Len(out)
        BY <4>1, <3>1, <2>1, <1>1, <1>2 DEF EndsAnnounced, Announced
      <4>2. CASE k = Len(out) + 1
        BY <4>2, <3>1, <2>1, <1>1, <1>5
      <4> QED
        BY <4>1, <4>2, <2>1
    <3> QED
      BY <3>1 DEF EndsAnnounced, Announced
  <2> QED
    BY <1>2, <2>2 DEF ChildAnnounces
<1> QED
  BY <1>3, <1>4, <1>5

(* Only the verdict of a case writes a CASE_END, and only an intact one.   *)
LEMMA ChildStepAnnounces == IInv /\ GenuineInv /\ ChildStep => ChildAnnounces
<1> SUFFICES ASSUME IInv, GenuineInv, ChildStep PROVE ChildAnnounces
  OBVIOUS
<1>1. StreamOK /\ EndsAnnounced /\ "verdicts" \in DOMAIN child /\ IsStream(child.verdicts)
  BY DEF IInv, GenuineInv, VerdictsOK
<1>2. ASSUME ChildEmit PROVE ChildAnnounces
  <2> DEFINE event == Now[child.step]
             next == [child EXCEPT !.step = @ + 1,
                        !.id = IF event.type = "CaseStart" THEN event.id ELSE @,
                        !.failing = IF event.type = "CaseStart" THEN FALSE ELSE @]
  <2>1. event.type # "CaseEnd" /\ Write(event, next)
    BY <1>2 DEF ChildEmit, AtStep
  <2>2. next.verdicts = child.verdicts /\ "verdicts" \in DOMAIN next
    BY <1>1
  <2> HIDE DEF event, next
  <2> QED
    BY <1>1, <2>1, <2>2, WriteAnnounces DEF Announced
<1>3. ASSUME ChildFail PROVE ChildAnnounces
  <2> DEFINE next == [child EXCEPT !.fails = @ + 1, !.failing = TRUE]
  <2>1. AssertFail(child.id).type # "CaseEnd" /\ Write(AssertFail(child.id), next)
    BY <1>3 DEF ChildFail, AssertFail
  <2>2. next.verdicts = child.verdicts /\ "verdicts" \in DOMAIN next
    BY <1>1
  <2> HIDE DEF next
  <2> QED
    BY <1>1, <2>1, <2>2, WriteAnnounces DEF Announced
<1>4. ASSUME ChildVerdict PROVE ChildAnnounces
  <2>1. PICK status \in TestStatus :
          Write(CaseEnd(child.id, status),
                [child EXCEPT !.turn = @ + 1, !.step = 1, !.failed = @ \/ status = "Failed",
                              !.verdicts = Append(@, status)])
    BY <1>4 DEF ChildVerdict, TestStatus
  <2> DEFINE next == [child EXCEPT !.turn = @ + 1, !.step = 1, !.failed = @ \/ status = "Failed",
                                   !.verdicts = Append(@, status)]
  <2>2. CaseEnd(child.id, status).status = status
    BY DEF CaseEnd
  <2>3. next.verdicts = Append(child.verdicts, status) /\ "verdicts" \in DOMAIN next
    BY <1>1
  <2>4. Write(CaseEnd(child.id, status), next)
    BY <2>1
  <2> HIDE DEF next
  <2>5. /\ IsStream(next.verdicts) /\ Len(next.verdicts) = Len(child.verdicts) + 1
        /\ Len(child.verdicts) \in Nat
        /\ \A k \in 1 .. Len(child.verdicts) : next.verdicts[k] = child.verdicts[k]
        /\ next.verdicts[Len(child.verdicts) + 1] = status
    BY <1>1, <2>3, StreamAppend DEF IsStream
  <2>6. /\ DOMAIN child.verdicts = 1 .. Len(child.verdicts)
        /\ DOMAIN next.verdicts = 1 .. Len(child.verdicts) + 1
    BY <1>1, <2>5 DEF IsStream
  <2>7. \A s : Announced(s) => Holds(next.verdicts, s)
    BY <2>5, <2>6 DEF Announced, Holds
  <2>8. Holds(next.verdicts, status)
    BY <2>5, <2>6 DEF Holds
  <2> QED
    BY <1>1, <2>2, <2>3, <2>4, <2>5, <2>7, <2>8, WriteAnnounces
<1>5. ASSUME ChildReturn \/ ChildExit \/ ChildCrash \/ ChildClose PROVE ChildAnnounces
  <2>1. out' = out /\ child'.verdicts = child.verdicts /\ "verdicts" \in DOMAIN child'
    BY <1>1, <1>5 DEF ChildReturn, ChildExit, ChildCrash, ChildClose
  <2> QED
    BY <1>1, <2>1 DEF ChildAnnounces, VerdictsOK, IsStream, EndsAnnounced, Announced
<1> QED
  BY <1>2, <1>3, <1>4, <1>5 DEF ChildStep

(* What is heard from the child is what it announced.                      *)
LEMMA ReceivedIsAnnounced ==
    IInv /\ GenuineInv /\ Receive /\ out[got + 1].type = "CaseEnd" =>
        Announced(out[got + 1].status) /\ out[got + 1].status \in TestStatus
<1> SUFFICES ASSUME IInv, GenuineInv, Receive, out[got + 1].type = "CaseEnd"
             PROVE  Announced(out[got + 1].status) /\ out[got + 1].status \in TestStatus
  OBVIOUS
<1>1. got \in Nat /\ got < reader.sent /\ reader.sent \in Nat
      /\ reader.sent <= Len(out) /\ Len(out) \in Nat
  BY DEF IInv, TypeOK, Receive, StreamOK, IsStream
<1>2. got + 1 \in 1 .. Len(out)
  BY <1>1
<1> QED
  BY <1>2 DEF IInv, StreamOK, GenuineInv, EndsAnnounced

(* Steps that neither count, judge, wait, spawn nor are the child's.       *)
LEMMA GenuineKept ==
    ASSUME GenuineInv, UNCHANGED <<cur, fate, ledger, out>>,
           child'.verdicts = child.verdicts, "verdicts" \in DOMAIN child',
           \/ pc' = pc
           \/ pc \in WithChild \ {"judge"} /\ pc' \in WithChild \ {"judge"}
           \/ pc \in {"spawn", "finish"} /\ pc' \in {"exit", "bailed"}
    PROVE  GenuineInv'
<1>1. CountsOf(cur)' = CountsOf(cur) /\ \A k : CountsOf(k)' = CountsOf(k)
  BY DEF CountsOf
<1>2. Judged' = Judged /\ \A k : Crashed(k)' <=> Crashed(k)
  BY DEF Judged, Crashed, WithChild
<1>3. PassesAreGenuine'
  BY <1>1, <1>2 DEF GenuineInv, PassesAreGenuine
<1>4. VerdictsOK' /\ EndsAnnounced'
  BY DEF GenuineInv, VerdictsOK, IsStream, EndsAnnounced, Announced
<1>5. CurrentAnnounced'
  BY <1>1 DEF GenuineInv, CurrentAnnounced, Announced, WithChild
<1>6. NothingAhead' /\ AccountIsOfChild'
  BY <1>1 DEF GenuineInv, NothingAhead, AccountIsOfChild, WithChild
<1> QED
  BY <1>3, <1>4, <1>5, <1>6 DEF GenuineInv

(* The entries before a new one, and the children judged so far.           *)
LEMMA GenuineReceive == IInv /\ CrashInv /\ GenuineInv /\ Receive => GenuineInv'
<1> SUFFICES ASSUME IInv, CrashInv, GenuineInv, Receive PROVE GenuineInv'
  OBVIOUS
<1>1. /\ pc = "recv" /\ pc' = "check" /\ UNCHANGED <<cur, fate, child, out>>
  BY DEF Receive, Goto, childVars
<1>2. CASE ledger' = ledger
  BY <1>1, <1>2, GenuineKept DEF WithChild, GenuineInv, VerdictsOK
<1>3. CASE out[got + 1].type = "CaseEnd" /\ OnCaseEnd(out[got + 1])
  <2> DEFINE status == out[got + 1].status
             e == [of |-> cur, status |-> status]
             n == Len(ledger) + 1
  <2>1. Announced(status) /\ status \in TestStatus /\ ledger' = Append(ledger, e)
    BY <1>3, ReceivedIsAnnounced DEF OnCaseEnd
  <2> HIDE DEF status
  <2>2. e \in Entry /\ ledger \in Seq(Entry) /\ e.of = cur /\ e.status = status
    BY <2>1 DEF IInv, TypeOK, Entry
  <2>3. /\ Len(ledger) \in Nat /\ DOMAIN ledger = 1 .. Len(ledger) /\ DOMAIN ledger' = 1 .. n
        /\ ledger'[n] = e
        /\ \A m \in DOMAIN ledger : ledger'[m] = ledger[m]
    BY <2>1, <2>2, LenProperties, AppendProperties
  <2> HIDE DEF e, n
  <2>4. \A m \in DOMAIN ledger' : m \in DOMAIN ledger \/ m = n
    BY <2>3 DEF n
  <2>5. n \notin DOMAIN ledger /\ \A m \in DOMAIN ledger : m \in DOMAIN ledger' /\ m < n
    BY <2>3 DEF n
  <2>6. Len(fate) \in Nat /\ Len(fate) = cur - 1 /\ cur \in Nat /\ DOMAIN fate = 1 .. Len(fate)
    BY <1>1 DEF CrashInv, FateOK, IInv, TypeOK, IsStream
  <2>7. \A k \in DOMAIN fate : k # cur /\ CountsOf(k)' = CountsOf(k)
    BY <2>2, <2>3, <2>4, <2>5, <2>6 DEF CountsOf
  <2>8. Judged' = Judged /\ Judged \subseteq DOMAIN fate /\ \A k : Crashed(k)' <=> Crashed(k)
    BY <1>1 DEF Judged, Crashed
  <2>9. PassesAreGenuine'
    <3>1. ASSUME NEW k \in Judged, NEW m \in DOMAIN ledger',
                 ledger'[m].of = k, ledger'[m].status # "Failed"
          PROVE  /\ Holds(fate[k].verdicts, ledger'[m].status)
                 /\ Crashed(k) => \E q \in CountsOf(k)' : q > m
      <4>1. m # n
        BY <3>1, <2>2, <2>3, <2>7, <2>8
      <4>2. m \in DOMAIN ledger /\ ledger'[m] = ledger[m]
        BY <4>1, <2>3, <2>4
      <4> QED
        BY <4>2, <3>1, <2>7, <2>8 DEF GenuineInv, PassesAreGenuine, Holds
    <3> QED
      BY <3>1, <2>8, <1>1 DEF PassesAreGenuine, Holds, Crashed
  <2>10. CurrentAnnounced'
    <3>1. ASSUME NEW m \in CountsOf(cur)', ledger'[m].status # "Failed"
          PROVE  Announced(ledger'[m].status)
      <4>1. CASE m = n
        BY <4>1, <2>1, <2>2, <2>3
      <4>2. CASE m \in DOMAIN ledger
        BY <4>2, <3>1, <2>3, <1>1 DEF GenuineInv, CurrentAnnounced, WithChild, CountsOf
      <4> QED
        BY <4>1, <4>2, <2>4, <3>1 DEF CountsOf
    <3> QED
      BY <3>1, <1>1 DEF CurrentAnnounced, Announced
  <2>11. NothingAhead'
    BY <1>1, <2>2, <2>3, <2>4, <2>6 DEF GenuineInv, NothingAhead
  <2>12. VerdictsOK' /\ EndsAnnounced' /\ AccountIsOfChild'
    BY <1>1 DEF GenuineInv, VerdictsOK, IsStream, EndsAnnounced, Announced, AccountIsOfChild
  <2> QED
    BY <2>9, <2>10, <2>11, <2>12 DEF GenuineInv
<1> QED
  BY <1>2, <1>3 DEF Receive, Handle, OnSuiteStart, OnCaseStart, OnAssertFail

(* A new child has announced nothing and nothing is counted for its case.  *)
LEMMA GenuineSpawn == IInv /\ CrashInv /\ GenuineInv /\ Spawn => GenuineInv'
<1> SUFFICES ASSUME IInv, CrashInv, GenuineInv, Spawn PROVE GenuineInv'
  OBVIOUS
<1>1. /\ pc = "spawn" /\ pc' = "check" /\ UNCHANGED <<cur, ledger, fate>>
      /\ out' = <<>> /\ child' = NewChild(cur)
  BY DEF Spawn, Goto, ghosts
<1>2. child'.verdicts = <<>> /\ "verdicts" \in DOMAIN child'
  BY <1>1 DEF NewChild
<1>3. VerdictsOK' /\ EndsAnnounced'
  BY <1>1, <1>2 DEF VerdictsOK, IsStream, EndsAnnounced
<1>4. \A k : CountsOf(k)' = CountsOf(k) /\ (Crashed(k)' <=> Crashed(k))
  BY <1>1 DEF CountsOf, Crashed
<1>5. CountsOf(cur)' = {}
  BY <1>1, <1>4 DEF GenuineInv, NothingAhead, CountsOf
<1>6. Judged' = Judged
  BY <1>1 DEF Judged
<1>7. PassesAreGenuine'
  BY <1>1, <1>4, <1>6 DEF GenuineInv, PassesAreGenuine
<1>8. CurrentAnnounced' /\ NothingAhead' /\ AccountIsOfChild'
  BY <1>1, <1>5 DEF CurrentAnnounced, GenuineInv, NothingAhead, AccountIsOfChild
<1> QED
  BY <1>3, <1>7, <1>8 DEF GenuineInv

(* The account of a dead child holds its verdicts.                         *)
LEMMA GenuineWait == IInv /\ CrashInv /\ GenuineInv /\ Wait => GenuineInv'
<1> SUFFICES ASSUME IInv, CrashInv, GenuineInv, Wait PROVE GenuineInv'
  OBVIOUS
<1>1. /\ pc = "wait" /\ pc' = "judge" /\ UNCHANGED <<cur, ledger, child, out>>
      /\ fate' = Append(fate, Account)
  BY DEF Wait, Goto, childVars
<1>2. cur \in Nat \ {0} /\ Len(fate) \in Nat
  BY DEF IInv, TypeOK, CrashInv, FateOK, IsStream
<1>3. /\ IsStream(fate') /\ Len(fate') = Len(fate) + 1 /\ Len(fate) + 1 = cur
      /\ \A k \in 1 .. Len(fate) : fate'[k] = fate[k]
      /\ fate'[cur] = Account
  BY <1>1, <1>2, StreamAppend DEF CrashInv, FateOK
<1>4. Judged' = Judged /\ Judged = 1 .. Len(fate)
  BY <1>1, <1>2, <1>3 DEF Judged, CrashInv, FateOK, IsStream
<1>5. \A k \in Judged : fate'[k] = fate[k] /\ (Crashed(k)' <=> Crashed(k))
  BY <1>3, <1>4 DEF Crashed
<1>6. \A k : CountsOf(k)' = CountsOf(k)
  BY <1>1 DEF CountsOf
<1>7. PassesAreGenuine'
  BY <1>1, <1>4, <1>5, <1>6 DEF GenuineInv, PassesAreGenuine
<1>8. AccountIsOfChild'
  BY <1>1, <1>3 DEF AccountIsOfChild, Account
<1>9. VerdictsOK' /\ EndsAnnounced' /\ CurrentAnnounced' /\ NothingAhead'
  BY <1>1, <1>6 DEF GenuineInv, VerdictsOK, IsStream, EndsAnnounced, Announced, CurrentAnnounced,
                    NothingAhead, WithChild
<1> QED
  BY <1>7, <1>8, <1>9 DEF GenuineInv

(* After the judgement of a crash the last entry is a failure of its case; *)
(* all others are as they were.                                            *)
LastIsFailure ==
    \E n \in DOMAIN ledger' :
        /\ ledger'[n] = [of |-> cur, status |-> "Failed"]
        /\ \A m \in DOMAIN ledger' : m # n => m \in DOMAIN ledger /\ ledger'[m] = ledger[m] /\ n > m
        /\ \A m \in DOMAIN ledger : m \in DOMAIN ledger' /\ (m = n => ledger[m].of = cur)

(* Of the three ways to count a crash each leaves such an entry.           *)
LEMMA JudgeCrashLast == IInv /\ JudgeCrash => LastIsFailure
<1> SUFFICES ASSUME IInv, JudgeCrash PROVE LastIsFailure
  OBVIOUS
<1> DEFINE e == [of |-> cur, status |-> "Failed"]
<1>1. ledger \in Seq(Entry) /\ Len(ledger) \in Nat /\ DOMAIN ledger = 1 .. Len(ledger)
      /\ e \in Entry
  BY LenProperties DEF IInv, TypeOK, Entry, TestStatus
<1>2. CASE ~view.ended
  <2> DEFINE n == Len(ledger) + 1
  <2>1. ledger' = Append(ledger, e)
    BY <1>2 DEF JudgeCrash, CountCrash
  <2>2. /\ DOMAIN ledger' = 1 .. n /\ ledger'[n] = e
        /\ \A m \in DOMAIN ledger : ledger'[m] = ledger[m]
    BY <1>1, <2>1, AppendProperties, LenProperties
  <2> HIDE DEF e
  <2>3. /\ n \in DOMAIN ledger'
        /\ \A m \in DOMAIN ledger' : m # n => m \in DOMAIN ledger /\ n > m
        /\ \A m \in DOMAIN ledger : m \in DOMAIN ledger' /\ m # n
    BY <1>1, <2>2
  <2> HIDE DEF n
  <2> QED
    BY <2>2, <2>3 DEF LastIsFailure, e
<1>3. CASE view.ended
  <2> DEFINE n == Len(ledger)
  <2>1. ledger # <<>> /\ ledger[n] = [of |-> cur, status |-> view.parsed]
    BY <1>3 DEF IInv, EndedIsLast, JudgeCrash, Last
  <2>2. n \in DOMAIN ledger
    BY <1>1, <2>1, EmptySeq
  <2>3. /\ DOMAIN ledger' = DOMAIN ledger /\ ledger'[n] = e
        /\ \A m \in DOMAIN ledger : m # n => ledger'[m] = ledger[m]
    BY <1>3, <2>1, <2>2 DEF JudgeCrash, CountCrash
  <2>4. \A m \in DOMAIN ledger : m # n => n > m
    BY <1>1
  <2> HIDE DEF n
  <2> QED
    BY <2>1, <2>2, <2>3, <2>4 DEF LastIsFailure
<1> QED
  BY <1>2, <1>3 DEF IInv, TypeOK

(* The judgement: a crash puts a failure behind what the child announced.  *)
LEMMA GenuineJudge ==
    IInv /\ CrashInv /\ GenuineInv /\ (JudgeSound \/ JudgeCrash) => GenuineInv'
<1> SUFFICES ASSUME IInv, CrashInv, GenuineInv, JudgeSound \/ JudgeCrash PROVE GenuineInv'
  OBVIOUS
<1>1. /\ pc = "judge" /\ UNCHANGED <<fate, child, out>>
      /\ \/ pc' = "spawn" /\ cur' = cur + 1
         \/ pc' = "finish" /\ cur' = cur
  BY DEF JudgeSound, JudgeCrash, NextCase, Goto, childVars, ghosts
<1>2. cur \in Nat \ {0} /\ Len(fate) = cur /\ DOMAIN fate = 1 .. cur
  BY <1>1 DEF IInv, TypeOK, CrashInv, FateOK, IsStream
<1>3. /\ Judged = 1 .. cur - 1 /\ Judged' = 1 .. cur /\ cur \in Judged'
      /\ fate[cur].status = child.status /\ fate[cur].verdicts = child.verdicts
  BY <1>1, <1>2 DEF Judged, CrashInv, FateOK, GenuineInv, AccountIsOfChild
<1>4. \A k : Crashed(k)' <=> Crashed(k)
  BY <1>1 DEF Crashed
<1>5. \A k \in Judged' : k = cur \/ k \in Judged
  BY <1>2, <1>3
<1>6. \A m \in DOMAIN ledger : ledger[m].of = cur /\ ledger[m].status # "Failed"
          => Holds(fate[cur].verdicts, ledger[m].status)
  BY <1>1, <1>3 DEF GenuineInv, CurrentAnnounced, WithChild, CountsOf, Announced
<1>7. /\ \A m \in DOMAIN ledger' : ledger'[m].status # "Failed" =>
             /\ m \in DOMAIN ledger /\ ledger'[m] = ledger[m]
      /\ \A m \in DOMAIN ledger' : ledger'[m].of <= cur
      /\ Crashed(cur) =>
            \A m \in DOMAIN ledger' : ledger'[m].status # "Failed" =>
                \E q \in DOMAIN ledger' : ledger'[q].of = cur /\ q > m
      /\ \A k \in Judged : CountsOf(k) \subseteq CountsOf(k)'
  <2>1. CASE JudgeSound
    <3>1. ledger' = ledger /\ ~Crashed(cur)
      BY <1>3, <2>1 DEF JudgeSound, ghosts, Sound, ExitOk, Crashed
    <3> QED
      BY <3>1 DEF CountsOf, GenuineInv, NothingAhead
  <2>2. CASE JudgeCrash
    <3>1. PICK n \in DOMAIN ledger' :
            /\ ledger'[n] = [of |-> cur, status |-> "Failed"]
            /\ \A m \in DOMAIN ledger' : m # n => m \in DOMAIN ledger /\ ledger'[m] = ledger[m] /\ n > m
            /\ \A m \in DOMAIN ledger : m \in DOMAIN ledger' /\ (m = n => ledger[m].of = cur)
      BY <2>2, JudgeCrashLast DEF LastIsFailure
    <3>2. ledger'[n].of = cur /\ ledger'[n].status = "Failed" /\ cur <= cur
      BY <3>1, <1>2
    <3>3. \A k \in Judged : k # cur
      BY <1>2, <1>3
    <3>4. \A k \in Judged : CountsOf(k) \subseteq CountsOf(k)'
      BY <3>1, <3>3 DEF CountsOf
    <3> QED
      BY <3>1, <3>2, <3>4 DEF GenuineInv, NothingAhead
  <2> QED
    BY <2>1, <2>2
<1>8. PassesAreGenuine'
  <2>1. ASSUME NEW k \in Judged', NEW m \in DOMAIN ledger',
               ledger'[m].of = k, ledger'[m].status # "Failed"
        PROVE  /\ Holds(fate[k].verdicts, ledger'[m].status)
               /\ Crashed(k) => \E q \in DOMAIN ledger' : ledger'[q].of = k /\ q > m
    <3>1. m \in DOMAIN ledger /\ ledger'[m] = ledger[m]
      BY <1>7, <2>1
    <3>2. CASE k = cur
      BY <3>1, <3>2, <2>1, <1>6, <1>7
    <3>3. CASE k \in Judged
      <4>1. /\ Holds(fate[k].verdicts, ledger[m].status)
            /\ Crashed(k) => \E q \in CountsOf(k) : q > m
        BY <3>1, <3>3, <2>1 DEF GenuineInv, PassesAreGenuine, Holds
      <4>2. \A q \in CountsOf(k) : q \in DOMAIN ledger' /\ ledger'[q].of = k
        BY <3>3, <1>7 DEF CountsOf
      <4> QED
        BY <4>1, <4>2, <3>1
    <3> QED
      BY <3>2, <3>3, <1>5
  <2>2. \A k : CountsOf(k)' = {m \in DOMAIN ledger' : ledger'[m].of = k}
    BY DEF CountsOf
  <2> QED
    BY <2>1, <2>2, <1>1, <1>4 DEF PassesAreGenuine, Holds
<1>9. NothingAhead'
  <2>1. ASSUME NEW m \in DOMAIN ledger' PROVE ledger'[m].of \in Nat /\ ledger'[m].of <= cur
    <3>1. ledger' \in Seq(Entry)
      <4>1. IInv'
        BY NextKeeps DEF Next, MainStep
      <4> QED
        BY <4>1 DEF IInv, TypeOK, Entry
    <3>2. ledger'[m] \in Entry
      BY <3>1
    <3> QED
      BY <3>2, <1>7 DEF Entry
  <2>2. \A m \in DOMAIN ledger' : ledger'[m].of <= cur' /\ (cur' = cur + 1 => ledger'[m].of # cur')
    BY <2>1, <1>1, <1>2
  <2> QED
    BY <2>2, <1>1 DEF NothingAhead, CountsOf
<1>10. /\ VerdictsOK' /\ EndsAnnounced' /\ CurrentAnnounced' /\ AccountIsOfChild'
  BY <1>1 DEF GenuineInv, VerdictsOK, IsStream, EndsAnnounced, Announced, CurrentAnnounced,
              AccountIsOfChild, WithChild
<1> QED
  BY <1>8, <1>9, <1>10 DEF GenuineInv

(* The child's own steps; it is dead while it is judged.                   *)
LEMMA GenuineChild == IInv /\ CrashInv /\ GenuineInv /\ ChildStep => GenuineInv'
<1> SUFFICES ASSUME IInv, CrashInv, GenuineInv, ChildStep PROVE GenuineInv'
  OBVIOUS
<1>1. UNCHANGED <<pc, cur, fate, ledger>> /\ Alive
  BY DEF ChildStep, mainVars, ghosts, ChildEmit, ChildFail, ChildVerdict, ChildReturn,
         ChildExit, ChildCrash, ChildClose, AtStep
<1>2. pc # "judge"
  BY <1>1 DEF CrashInv, FateOK
<1>3. ChildAnnounces
  BY ChildStepAnnounces
<1>4. Judged' = Judged /\ \A k : CountsOf(k)' = CountsOf(k) /\ (Crashed(k)' <=> Crashed(k))
  BY <1>1 DEF Judged, CountsOf, Crashed
<1>5. PassesAreGenuine'
  BY <1>1, <1>4 DEF GenuineInv, PassesAreGenuine
<1>6. CurrentAnnounced'
  BY <1>1, <1>3, <1>4 DEF GenuineInv, CurrentAnnounced, ChildAnnounces
<1>7. NothingAhead' /\ AccountIsOfChild'
  BY <1>1, <1>2, <1>4 DEF GenuineInv, NothingAhead, AccountIsOfChild
<1> QED
  BY <1>3, <1>5, <1>6, <1>7 DEF GenuineInv, ChildAnnounces

(* The invariant is kept by every step.                                    *)
LEMMA GenuineStep == IInv /\ CrashInv /\ GenuineInv /\ [Next]_vars => GenuineInv'
<1> SUFFICES ASSUME IInv, CrashInv, GenuineInv, [Next]_vars PROVE GenuineInv'
  OBVIOUS
<1>1. "verdicts" \in DOMAIN child /\ "status" \in DOMAIN child
  BY DEF GenuineInv, VerdictsOK, IInv, ChildOK
<1>2. CASE CheckDeadline \/ ReceiveError \/ ReceiveTimeout \/ ReceiveDisconnected
  BY <1>1, <1>2, GenuineKept
     DEF CheckDeadline, GiveUp, ReceiveError, ReceiveTimeout, ReceiveDisconnected, Goto, ghosts,
         childVars, WithChild
<1>3. CASE Kill
  <2>1. child'.verdicts = child.verdicts /\ "verdicts" \in DOMAIN child'
    BY <1>1, <1>3 DEF Kill
  <2> QED
    BY <1>3, <2>1, GenuineKept DEF Kill, Goto, ghosts, WithChild
<1>4. CASE SpawnFails \/ Finish \/ FinishFails
  BY <1>1, <1>4, GenuineKept DEF SpawnFails, Finish, FinishFails, Goto, ghosts, childVars
<1>5. CASE ReaderStep \/ Tick \/ UNCHANGED vars
  BY <1>1, <1>5, GenuineKept
     DEF ReaderStep, ReadChunk, ReadEof, ReadFails, Tick, vars, mainVars, childVars, ghosts
<1> QED
  BY <1>2, <1>3, <1>4, <1>5, GenuineReceive, GenuineSpawn, GenuineWait, GenuineJudge, GenuineChild
     DEF Next, MainStep, Terminated

(* A pass or skip that survives the judgement was announced by the child   *)
(* spawned for that case, and if that child crashed, a failure follows it. *)
THEOREM PassesGenuine == Spec => []PassesAreGenuine
<1>1. IInv /\ CrashInv /\ GenuineInv /\ [Next]_vars => GenuineInv'
  BY GenuineStep
<1>2. GenuineInv => PassesAreGenuine
  BY DEF GenuineInv
<1> QED
  BY InitGenuine, CrashInvariance, <1>1, <1>2, PTL DEF Spec

-----------------------------------------------------------------------------
(* What the host has judged stays as it is: an entry of a case that is no  *)
(* longer the current one is never changed, and none disappears.           *)
THEOREM JudgementsAreFinal == Spec => Ledger!EntriesAreFinal
<1>1. ASSUME IInv, [Next]_vars
      PROVE  [\A k \in DOMAIN ledger :
                 /\ k \in DOMAIN ledger'
                 /\ ledger'[k].of = ledger[k].of
                 /\ ledger[k].of # cur => ledger'[k] = ledger[k]]_(Ledger!vars)
  <2>1. ledger \in Seq(Entry)
    BY <1>1 DEF IInv, TypeOK, Entry
  <2>2. ASSUME NEW e, ledger' = Append(ledger, e)
        PROVE  \A k \in DOMAIN ledger : k \in DOMAIN ledger' /\ ledger'[k] = ledger[k]
    <3>1. IsStream(ledger) /\ DOMAIN ledger = 1 .. Len(ledger)
      BY <2>1, LenProperties DEF IsStream
    <3>2. /\ IsStream(ledger') /\ Len(ledger') = Len(ledger) + 1 /\ Len(ledger) \in Nat
          /\ \A k \in 1 .. Len(ledger) : ledger'[k] = ledger[k]
      BY <3>1, <2>2, StreamAppend DEF IsStream
    <3> QED
      BY <3>1, <3>2 DEF IsStream
  <2>3. CASE Ledger!Amend
    BY <2>3 DEF Ledger!Amend
  <2>4. CASE UNCHANGED ledger
    BY <2>4
  <2>5. \/ \E e : ledger' = Append(ledger, e)
        \/ Ledger!Amend
        \/ UNCHANGED ledger
    BY <1>1, LedgerStep
       DEF Ledger!Next, Ledger!Enter, Ledger!EnterStatus, Ledger!Leave, Ledger!Close,
           Ledger!GiveUp, Ledger!vars
  <2> QED
    BY <2>2, <2>3, <2>4, <2>5
<1> QED
  BY <1>1, Invariance, PTL DEF Spec, Ledger!EntriesAreFinal

-----------------------------------------------------------------------------
(* Each verdict of a child is counted, once and in order.  The argument    *)
(* follows a verdict through the three parties: the child's verdicts are   *)
(* paired, in order, with the CASE_ENDs it wrote, and those received with  *)
(* the entries of its case.                                                *)
Rising(f, S) == \A x, y \in S : x < y => f[x] < f[y]

Grows(f, S, T, s, t) ==
    \E g \in Bijection(S \cup {s}, T \cup {t}) :
        Rising(g, S \cup {s}) /\ g[s] = t /\ \A x \in S : g[x] = f[x]

(* A rising pairing grows by a pair behind all others.                     *)
LEMMA PairingGrows ==
    ASSUME NEW S \in SUBSET Nat, NEW T \in SUBSET Nat,
           NEW f \in Bijection(S, T), Rising(f, S),
           NEW s \in Nat, NEW t \in Nat,
           \A x \in S : x < s, \A y \in T : y < t
    PROVE  Grows(f, S, T, s, t)
<1> DEFINE g == [x \in S \cup {s} |-> IF x = s THEN t ELSE f[x]]
<1>1. s \notin S /\ t \notin T /\ (\A x \in S : ~(s < x)) /\ ~(s < s)
  OBVIOUS
<1>2. /\ f \in [S -> T]
      /\ \A a, b \in S : f[a] = f[b] => a = b
      /\ \A y \in T : \E x \in S : f[x] = y
  BY DEF Bijection, Injection, Surjection, IsInjective
<1>3. g[s] = t /\ \A x \in S : g[x] = f[x]
  BY <1>1
<1>4. g \in Bijection(S \cup {s}, T \cup {t})
  <2>1. g \in [S \cup {s} -> T \cup {t}]
    BY <1>2
  <2>2. \A a, b \in S \cup {s} : g[a] = g[b] => a = b
    BY <1>1, <1>2
  <2>3. \A y \in T \cup {t} : \E x \in S \cup {s} : g[x] = y
    BY <1>1, <1>2
  <2> QED
    BY <2>1, <2>2, <2>3 DEF Bijection, Injection, Surjection, IsInjective
<1> HIDE DEF g
<1>5. Rising(g, S \cup {s})
  <2>1. ASSUME NEW x \in S \cup {s}, NEW y \in S \cup {s}, x < y
        PROVE  g[x] < g[y]
    <3>1. x \in S
      BY <2>1, <1>1
    <3>2. CASE y = s
      BY <3>1, <3>2, <1>2, <1>3
    <3>3. CASE y \in S
      BY <2>1, <3>1, <3>3, <1>3 DEF Rising
    <3> QED
      BY <3>2, <3>3
  <2> QED
    BY <2>1 DEF Rising
<1> QED
  BY <1>3, <1>4, <1>5 DEF Grows

(* Two rising pairings in a row make one.                                  *)
LEMMA PairingsCompose ==
    ASSUME NEW S, NEW T, NEW U,
           NEW f \in Bijection(S, T), Rising(f, S),
           NEW g \in Bijection(T, U), Rising(g, T)
    PROVE  \E h \in Bijection(S, U) : Rising(h, S) /\ \A x \in S : h[x] = g[f[x]]
<1> DEFINE h == [x \in S |-> g[f[x]]]
<1>1. /\ f \in [S -> T]
      /\ \A a, b \in S : f[a] = f[b] => a = b
      /\ \A y \in T : \E x \in S : f[x] = y
      /\ g \in [T -> U]
      /\ \A a, b \in T : g[a] = g[b] => a = b
      /\ \A y \in U : \E x \in T : g[x] = y
  BY DEF Bijection, Injection, Surjection, IsInjective
<1>2. h \in [S -> U]
  BY <1>1
<1>3. \A a, b \in S : h[a] = h[b] => a = b
  BY <1>1
<1>4. \A y \in U : \E x \in S : h[x] = y
  BY <1>1
<1>5. h \in Bijection(S, U)
  BY <1>2, <1>3, <1>4 DEF Bijection, Injection, Surjection, IsInjective
<1>6. Rising(h, S)
  BY <1>1 DEF Rising
<1> QED
  BY <1>5, <1>6

(* The turn of a case ends with its CASE_START and its body, its only one; *)
(* the last turn has no body.                                              *)
LEMMA TurnShape ==
    ASSUME NEW runs \in Seq(CaseIds), NEW k \in 1 .. Len(runs) + 1,
           NEW t, t = Turn(runs, k)
    PROVE  /\ Len(t) \in Nat \ {0}
           /\ k <= Len(runs) =>
                /\ Len(t) >= 2
                /\ \A i \in 1 .. Len(t) : /\ t[i].type = "Body" <=> i = Len(t)
                                          /\ t[i].type = "CaseStart" <=> i = Len(t) - 1
           /\ k = Len(runs) + 1 => \A i \in 1 .. Len(t) : t[i].type # "Body"
<1> DEFINE before == SuiteBefore(runs, k)
           close == SuiteEnd(before, NoTally)
           open == SuiteStart(runs[k].suite)
           start == CaseStart(runs[k])
           body == Body(runs[k])
           done == DoneEvent(NoTally)
<1>1. /\ close.type = "SuiteEnd" /\ open.type = "SuiteStart" /\ start.type = "CaseStart"
      /\ body.type = "Body" /\ done.type = "Done"
  BY DEF SuiteEnd, SuiteStart, CaseStart, Body, DoneEvent
<1>2. Len(runs) \in Nat /\ ~(k <= Len(runs) /\ k > Len(runs))
  BY LenProperties
<1>3. CASE k > Len(runs)
  <2>1. t \in {<<done>>, <<close, done>>}
    BY <1>3 DEF Turn
  <2> HIDE DEF close, done
  <2>2. CASE t = <<done>>
    BY <2>2, <1>1, <1>2, <1>3
  <2>3. CASE t = <<close, done>>
    BY <2>3, <1>1, <1>2, <1>3
  <2> QED
    BY <2>1, <2>2, <2>3
<1>4. CASE k <= Len(runs)
  <2>1. t \in {<<start, body>>, <<open, start, body>>, <<close, open, start, body>>}
    BY <1>2, <1>4 DEF Turn
  <2> HIDE DEF close, open, start, body
  <2>2. CASE t = <<start, body>>
    BY <2>2, <1>1, <1>2, <1>4
  <2>3. CASE t = <<open, start, body>>
    BY <2>3, <1>1, <1>2, <1>4
  <2>4. CASE t = <<close, open, start, body>>
    BY <2>4, <1>1, <1>2, <1>4
  <2> QED
    BY <2>1, <2>2, <2>3, <2>4
<1> QED
  BY <1>2, <1>3, <1>4

-----------------------------------------------------------------------------
(* The child: where it is in its turns, and what it has told of them.      *)
TurnOK ==
    /\ {"runs", "turn", "step", "status", "closed", "spoiled", "verdicts"} \subseteq DOMAIN child
    /\ child.runs \in Seq(CaseIds)
    /\ child.turn \in 1 .. Len(child.runs) + 1
    /\ child.step \in Nat \ {0}
    /\ child.turn <= Len(child.runs) => child.step <= Len(Now)
    /\ Len(child.verdicts) = child.turn - 1
    /\ child.spoiled \in Nat

EndsIn(n) == {k \in 1 .. n : out[k].type = "CaseEnd"}

Intact == ~child.closed /\ child.spoiled = 0

(* A body has been entered.                                                *)
Opened == child.turn > 1 \/ (child.turn <= Len(child.runs) /\ child.step = Len(Now))

Started(n) == \E k \in 1 .. n : out[k].type = "CaseStart"

Told ==
    \E h \in Bijection(DOMAIN child.verdicts, EndsIn(Len(out))) :
        /\ Rising(h, DOMAIN child.verdicts)
        /\ \A v \in DOMAIN child.verdicts : out[h[v]].status = child.verdicts[v]

EndsStarted == \A k \in EndsIn(Len(out)) : Started(k)

ToldOK ==
    /\ Cardinality(EndsIn(Len(out))) <= Len(child.verdicts)
    /\ Intact => Told /\ (Opened => Started(Len(out))) /\ EndsStarted

(* Any part of the ends is a finite set of places.                         *)
LEMMA EndsFinite ==
    ASSUME NEW n \in Nat
    PROVE  /\ EndsIn(n) \in SUBSET Nat
           /\ IsFiniteSet(EndsIn(n))
           /\ \A k \in EndsIn(n) : k < n + 1
<1>1. EndsIn(n) \in SUBSET Nat /\ \A k \in EndsIn(n) : k <= n /\ k < n + 1
  BY DEF EndsIn
<1> QED
  BY <1>1, FS_BoundedSetOfNaturals

(* What one more event does to the ends.                                   *)
LEMMA OutGrows ==
    ASSUME StreamOK, NEW seen, out' = Append(out, seen)
    PROVE  /\ Len(out) \in Nat /\ Len(out') = Len(out) + 1
           /\ \A k \in 1 .. Len(out) : out'[k] = out[k]
           /\ out'[Len(out) + 1] = seen
           /\ EndsIn(Len(out))' = IF seen.type = "CaseEnd" THEN EndsIn(Len(out)) \cup {Len(out) + 1}
                                  ELSE EndsIn(Len(out))
<1>1. /\ Len(out) \in Nat /\ Len(out') = Len(out) + 1
      /\ \A k \in 1 .. Len(out) : out'[k] = out[k]
      /\ out'[Len(out) + 1] = seen
  BY StreamAppend DEF StreamOK, IsStream
<1>2. \A k : k \in 1 .. Len(out') <=> k \in 1 .. Len(out) \/ k = Len(out) + 1
  BY <1>1
<1>3. EndsIn(Len(out))' = {k \in 1 .. Len(out') : out'[k].type = "CaseEnd"}
  BY DEF EndsIn
<1> QED
  BY <1>1, <1>2, <1>3 DEF EndsIn

(* A write, by what becomes of its event: nothing, the event, or noise.    *)
LEMMA WriteCases ==
    ASSUME TurnOK, NEW event, NEW next, Write(event, next),
           {"runs", "turn", "step", "status", "closed", "spoiled", "verdicts"} \subseteq DOMAIN next,
           next.closed = child.closed, next.spoiled = child.spoiled
    PROVE  /\ {"runs", "turn", "step", "status", "closed", "spoiled", "verdicts"} \subseteq DOMAIN child'
           /\ child'.runs = next.runs /\ child'.turn = next.turn /\ child'.step = next.step
           /\ child'.verdicts = next.verdicts /\ child'.spoiled \in Nat
           /\ \/ out' = out /\ ~Intact'
              \/ out' = Append(out, event) /\ (Intact' => Intact)
              \/ \E seen : out' = Append(out, seen) /\ seen.type \notin {"CaseEnd"} /\ ~Intact'
<1>1. child.spoiled \in Nat
  BY DEF TurnOK
<1>2. CASE child.closed /\ out' = out /\ child' = next
  BY <1>1, <1>2 DEF Intact
<1>3. CASE ~child.closed /\ out' = Append(out, event) /\ child' = next
  BY <1>1, <1>3 DEF Intact
<1>4. CASE (\E seen \in Spoilt : out' = Append(out, seen)) /\ child' = [next EXCEPT !.spoiled = @ + 1]
  <2>1. PICK seen \in Spoilt : out' = Append(out, seen)
    BY <1>4
  <2>2. seen.type # "CaseEnd"
    BY DEF Spoilt, Lost, Bad
  <2>3. /\ child'.spoiled = child.spoiled + 1
        /\ child'.runs = next.runs /\ child'.turn = next.turn /\ child'.step = next.step
        /\ child'.verdicts = next.verdicts /\ DOMAIN child' = DOMAIN next
    BY <1>4
  <2> QED
    BY <1>1, <2>1, <2>2, <2>3 DEF Intact
<1> QED
  BY <1>2, <1>3, <1>4 DEF Write

(* What an end that was written before has behind it stays behind it.      *)
LEMMA StartedStays ==
    ASSUME Len(out) \in Nat, \A j \in 1 .. Len(out) : out'[j] = out[j]
    PROVE  \A k \in EndsIn(Len(out)) : Started(k) => Started(k)'
<1> SUFFICES ASSUME NEW k \in EndsIn(Len(out)), Started(k) PROVE Started(k)'
  OBVIOUS
<1>1. k \in 1 .. Len(out)
  BY DEF EndsIn
<1>2. PICK j \in 1 .. k : out[j].type = "CaseStart"
  BY DEF Started
<1>3. j \in 1 .. Len(out)
  BY <1>1, <1>2
<1> QED
  BY <1>2, <1>3 DEF Started

(* A write without a verdict.                                              *)
LEMMA WriteTells ==
    ASSUME StreamOK, TurnOK, ToldOK, NEW event, NEW next, Write(event, next),
           {"runs", "turn", "step", "status", "closed", "spoiled", "verdicts"} \subseteq DOMAIN next,
           next.closed = child.closed, next.spoiled = child.spoiled,
           next.verdicts = child.verdicts,
           event.type # "CaseEnd",
           Opened' => Opened \/ event.type = "CaseStart"
    PROVE  ToldOK'
<1>1. child'.verdicts = child.verdicts
  BY WriteCases
<1>2. Len(out) \in Nat
  BY DEF StreamOK, IsStream
<1>3. ASSUME NEW seen, out' = Append(out, seen), seen.type # "CaseEnd"
      PROVE  /\ EndsIn(Len(out))' = EndsIn(Len(out))
             /\ \A k \in EndsIn(Len(out)) : out'[k] = out[k]
             /\ Started(Len(out)) \/ seen.type = "CaseStart" => Started(Len(out))'
             /\ EndsStarted => EndsStarted'
  <2>1. /\ Len(out') = Len(out) + 1
        /\ \A k \in 1 .. Len(out) : out'[k] = out[k]
        /\ out'[Len(out) + 1] = seen
        /\ EndsIn(Len(out))' = EndsIn(Len(out))
    BY <1>3, OutGrows
  <2>2. 1 .. Len(out) \subseteq 1 .. Len(out') /\ Len(out) + 1 \in 1 .. Len(out')
    BY <1>2, <2>1
  <2>3. EndsStarted => EndsStarted'
    BY <1>2, <2>1, StartedStays DEF EndsStarted
  <2> QED
    BY <2>1, <2>2, <2>3 DEF EndsIn, Started
<1>4. CASE ~Intact'
  <2>1. EndsIn(Len(out))' = EndsIn(Len(out))
    <3>1. CASE out' = out
      BY <3>1 DEF EndsIn
    <3>2. CASE \E seen : out' = Append(out, seen) /\ seen.type # "CaseEnd"
      BY <3>2, <1>3
    <3> QED
      BY <3>1, <3>2, WriteCases
  <2> QED
    BY <1>1, <1>4, <2>1 DEF ToldOK
<1>5. CASE Intact'
  <2>1. out' = Append(out, event) /\ Intact
    BY <1>5, WriteCases
  <2>2. /\ EndsIn(Len(out))' = EndsIn(Len(out))
        /\ \A k \in EndsIn(Len(out)) : out'[k] = out[k]
        /\ Started(Len(out)) \/ event.type = "CaseStart" => Started(Len(out))'
        /\ EndsStarted => EndsStarted'
    BY <2>1, <1>3
  <2>3. PICK h \in Bijection(DOMAIN child.verdicts, EndsIn(Len(out))) :
          /\ Rising(h, DOMAIN child.verdicts)
          /\ \A v \in DOMAIN child.verdicts : out[h[v]].status = child.verdicts[v]
    BY <2>1 DEF ToldOK, Told
  <2>4. \A v \in DOMAIN child.verdicts : h[v] \in EndsIn(Len(out))
    BY DEF Bijection, Injection
  <2>5. Told'
    BY <1>1, <2>2, <2>3, <2>4 DEF Told, Rising
  <2> QED
    BY <1>1, <2>1, <2>2, <2>5 DEF ToldOK
<1> QED
  BY <1>4, <1>5

(* The write of a verdict.                                                 *)
LEMMA VerdictTells ==
    ASSUME IInv, GenuineInv, TurnOK, ToldOK, NEW event, NEW next, NEW status,
           Write(event, next),
           {"runs", "turn", "step", "status", "closed", "spoiled", "verdicts"} \subseteq DOMAIN next,
           next.closed = child.closed, next.spoiled = child.spoiled,
           next.verdicts = Append(child.verdicts, status),
           event.type = "CaseEnd", event.status = status,
           Started(Len(out)) \/ ~Intact
    PROVE  ToldOK'
<1> DEFINE S == DOMAIN child.verdicts
           s == Len(child.verdicts) + 1
           t == Len(out) + 1
           T == EndsIn(Len(out))
<1>1. StreamOK /\ Len(out) \in Nat /\ IsStream(child.verdicts) /\ Len(child.verdicts) \in Nat
  BY DEF IInv, StreamOK, IsStream, GenuineInv, VerdictsOK
<1>2. child'.verdicts = Append(child.verdicts, status)
  BY WriteCases
<1>3. /\ IsStream(child'.verdicts) /\ Len(child'.verdicts) = s
      /\ \A v \in 1 .. Len(child.verdicts) : child'.verdicts[v] = child.verdicts[v]
      /\ child'.verdicts[s] = status
  BY <1>1, <1>2, StreamAppend
<1>4. S = 1 .. Len(child.verdicts) /\ DOMAIN child'.verdicts = 1 .. s
  BY <1>1, <1>3 DEF IsStream
<1>5. S \in SUBSET Nat /\ s \in Nat /\ DOMAIN child'.verdicts = S \cup {s} /\ \A v \in S : v < s
  BY <1>1, <1>4
<1>6. /\ T \in SUBSET Nat /\ t \in Nat /\ IsFiniteSet(T) /\ \A k \in T : k < t
      /\ Cardinality(T) \in Nat /\ Cardinality(T) <= Len(child.verdicts)
  <2>1. Cardinality(T) <= Len(child.verdicts)
    BY DEF ToldOK
  <2>2. T \in SUBSET Nat /\ IsFiniteSet(T) /\ \A k \in T : k < t
    BY <1>1, EndsFinite
  <2>3. Cardinality(T) \in Nat
    BY <2>2, FS_CardinalityType
  <2> QED
    BY <1>1, <2>1, <2>2, <2>3
<1>7. t \notin T
  BY <1>6
<1>8. Cardinality(T \cup {t}) = Cardinality(T) + 1
  BY <1>6, <1>7, FS_AddElement
<1>9. CASE out' = Append(out, event) /\ (Intact' => Intact)
  <2>1. /\ Len(out') = t
        /\ \A k \in 1 .. Len(out) : out'[k] = out[k]
        /\ out'[t] = event
        /\ EndsIn(Len(out))' = T \cup {t}
    BY <1>1, <1>9, OutGrows
  <2>2. Cardinality(EndsIn(Len(out)))' <= Len(child.verdicts)'
    <3>1. Cardinality(EndsIn(Len(out)))' = Cardinality(T) + 1
      BY <1>8, <2>1
    <3> HIDE DEF T
    <3> QED
      BY <1>1, <1>3, <1>6, <3>1
  <2>3. ASSUME Intact PROVE Told' /\ Started(Len(out))' /\ EndsStarted'
    <3>1. PICK h \in Bijection(S, T) :
            /\ Rising(h, S)
            /\ \A v \in S : out[h[v]].status = child.verdicts[v]
      BY <2>3 DEF ToldOK, Told
    <3>2. \A v \in S : h[v] \in T
      BY <3>1 DEF Bijection, Injection
    <3> HIDE DEF S, T, s, t
    <3>3. PICK g \in Bijection(S \cup {s}, T \cup {t}) :
            Rising(g, S \cup {s}) /\ g[s] = t /\ \A v \in S : g[v] = h[v]
      <4>1. /\ S \in SUBSET Nat /\ T \in SUBSET Nat /\ s \in Nat /\ t \in Nat
            /\ \A v \in S : v < s
            /\ \A k \in T : k < t
        BY <1>5, <1>6
      <4>2. Grows(h, S, T, s, t)
        BY <3>1, <4>1, PairingGrows
      <4> QED
        BY <4>2 DEF Grows
    <3>4. \A v \in S \cup {s} : out'[g[v]].status = child'.verdicts[v]
      <4>1. ASSUME NEW v \in S PROVE out'[g[v]].status = child'.verdicts[v]
        <5>1. h[v] \in 1 .. Len(out)
          BY <3>2 DEF T, EndsIn
        <5> QED
          BY <5>1, <2>1, <3>1, <3>3, <1>3, <1>4
      <4>2. out'[g[s]].status = child'.verdicts[s]
        BY <2>1, <3>3, <1>3
      <4> QED
        BY <4>1, <4>2
    <3>5. Told'
      BY <3>3, <3>4, <2>1, <1>5 DEF Told, Rising
    <3>6. PICK k \in 1 .. Len(out) : out[k].type = "CaseStart"
      BY <2>3 DEF Started
    <3>7. k \in 1 .. Len(out')
      BY <1>1, <2>1 DEF t
    <3>8. Started(Len(out))'
      BY <3>6, <3>7, <2>1 DEF Started
    <3>9. EndsStarted'
      <4>1. \A m : m = t => Started(m)'
        BY <3>6, <3>7, <2>1 DEF Started
      <4>2. \A m \in T : Started(m)'
        <5>1. \A m \in EndsIn(Len(out)) : Started(m)
          BY <2>3 DEF ToldOK, EndsStarted
        <5>2. \A m \in EndsIn(Len(out)) : Started(m) => Started(m)'
          BY <1>1, <2>1, StartedStays
        <5> QED
          BY <5>1, <5>2 DEF T
      <4> QED
        BY <2>1, <4>1, <4>2 DEF EndsStarted
    <3> QED
      BY <3>5, <3>8, <3>9
  <2> QED
    BY <1>9, <2>2, <2>3 DEF ToldOK
<1>10. CASE ~Intact' /\ (out' = out \/ \E seen : out' = Append(out, seen) /\ seen.type # "CaseEnd")
  <2>1. EndsIn(Len(out))' = T
    <3>1. CASE out' = out
      BY <3>1 DEF EndsIn
    <3>2. ASSUME NEW seen, out' = Append(out, seen), seen.type # "CaseEnd"
          PROVE  EndsIn(Len(out))' = T
      BY <1>1, <3>2, OutGrows
    <3> QED
      BY <1>10, <3>1, <3>2
  <2>2. Cardinality(EndsIn(Len(out)))' <= Len(child.verdicts)'
    BY <1>1, <1>3, <1>6, <2>1
  <2> QED
    BY <1>10, <2>2 DEF ToldOK
<1> QED
  BY <1>9, <1>10, WriteCases

TellInv == TurnOK /\ ToldOK

(* Every step of a child keeps to its turns, and writes a CASE_END for     *)
(* each verdict, after a CASE_START.                                       *)
LEMMA ChildStepTells == IInv /\ GenuineInv /\ TellInv /\ ChildStep => TellInv'
<1> SUFFICES ASSUME IInv, GenuineInv, TellInv, ChildStep PROVE TellInv'
  OBVIOUS
<1> DEFINE fields == {"runs", "turn", "step", "status", "closed", "spoiled", "verdicts"}
<1>1. /\ StreamOK /\ TurnOK /\ ToldOK /\ IsStream(child.verdicts)
      /\ Len(child.verdicts) \in Nat
      /\ fields \subseteq DOMAIN child
      /\ child.runs \in Seq(CaseIds) /\ Len(child.runs) \in Nat
      /\ child.turn \in 1 .. Len(child.runs) + 1
  BY LenProperties DEF TellInv, IInv, GenuineInv, VerdictsOK, TurnOK, IsStream
<1>2. /\ Len(Now) \in Nat \ {0}
      /\ child.turn <= Len(child.runs) =>
           /\ Len(Now) >= 2
           /\ \A i \in 1 .. Len(Now) : /\ Now[i].type = "Body" <=> i = Len(Now)
                                       /\ Now[i].type = "CaseStart" <=> i = Len(Now) - 1
      /\ child.turn = Len(child.runs) + 1 => \A i \in 1 .. Len(Now) : Now[i].type # "Body"
  BY <1>1, TurnShape DEF Now
<1>3. child.step \in Nat \ {0}
  BY <1>1 DEF TurnOK
<1>4. ASSUME ChildEmit PROVE TellInv'
  <2> DEFINE event == Now[child.step]
             next == [child EXCEPT !.step = @ + 1,
                        !.id = IF event.type = "CaseStart" THEN event.id ELSE @,
                        !.failing = IF event.type = "CaseStart" THEN FALSE ELSE @]
  <2>1. /\ event.type \notin {"CaseEnd", "Body"} /\ Write(event, next)
        /\ child.step <= Len(Now)
    BY <1>4 DEF ChildEmit, AtStep
  <2>2. /\ next.verdicts = child.verdicts /\ next.runs = child.runs /\ next.turn = child.turn
        /\ next.closed = child.closed /\ next.spoiled = child.spoiled
        /\ next.step = child.step + 1 /\ fields \subseteq DOMAIN next
    BY <1>1
  <2> HIDE DEF next
  <2>3. /\ fields \subseteq DOMAIN child'
        /\ child'.runs = child.runs /\ child'.turn = child.turn /\ child'.step = child.step + 1
        /\ child'.verdicts = child.verdicts /\ child'.spoiled \in Nat
    BY <1>1, <2>1, <2>2, WriteCases
  <2>4. Now' = Now
    BY <2>3 DEF Now
  <2>5. /\ child.turn <= Len(child.runs) => child.step + 1 <= Len(Now)
        /\ Opened' => Opened \/ event.type = "CaseStart"
    <3>1. child.turn <= Len(child.runs) =>
             /\ child.step # Len(Now)
             /\ child.step + 1 = Len(Now) => event.type = "CaseStart"
      <4>1. child.step \in 1 .. Len(Now)
        BY <1>2, <1>3, <2>1
      <4>2. child.step + 1 = Len(Now) => child.step = Len(Now) - 1
        BY <1>2, <1>3
      <4> QED
        BY <1>2, <2>1, <4>1, <4>2
    <3> QED
      BY <1>2, <1>3, <2>1, <2>3, <2>4, <3>1 DEF Opened
  <2>6. ToldOK'
    BY <1>1, <2>1, <2>2, <2>5, WriteTells
  <2>7. TurnOK'
    BY <1>1, <1>3, <2>3, <2>4, <2>5 DEF TurnOK
  <2> QED
    BY <2>6, <2>7 DEF TellInv
<1>5. ASSUME ChildFail PROVE TellInv'
  <2> DEFINE event == AssertFail(child.id)
             next == [child EXCEPT !.fails = @ + 1, !.failing = TRUE]
  <2>1. event.type = "AssertFail" /\ Write(event, next)
    BY <1>5 DEF ChildFail, AssertFail
  <2>2. /\ next.verdicts = child.verdicts /\ next.runs = child.runs /\ next.turn = child.turn
        /\ next.closed = child.closed /\ next.spoiled = child.spoiled
        /\ next.step = child.step /\ fields \subseteq DOMAIN next
    BY <1>1
  <2> HIDE DEF next, event
  <2>3. /\ fields \subseteq DOMAIN child'
        /\ child'.runs = child.runs /\ child'.turn = child.turn /\ child'.step = child.step
        /\ child'.verdicts = child.verdicts /\ child'.spoiled \in Nat
    BY <1>1, <2>1, <2>2, WriteCases
  <2>4. Now' = Now
    BY <2>3 DEF Now
  <2>5. Opened' => Opened
    BY <2>3, <2>4 DEF Opened
  <2>6. ToldOK'
    BY <1>1, <2>1, <2>2, <2>5, WriteTells
  <2>7. TurnOK'
    BY <1>1, <2>3, <2>4 DEF TurnOK
  <2> QED
    BY <2>6, <2>7 DEF TellInv
<1>6. ASSUME ChildVerdict PROVE TellInv'
  <2>1. PICK status \in TestStatus :
          Write(CaseEnd(child.id, status),
                [child EXCEPT !.turn = @ + 1, !.step = 1, !.failed = @ \/ status = "Failed",
                              !.verdicts = Append(@, status)])
    BY <1>6 DEF ChildVerdict, TestStatus
  <2> DEFINE event == CaseEnd(child.id, status)
             next == [child EXCEPT !.turn = @ + 1, !.step = 1, !.failed = @ \/ status = "Failed",
                                   !.verdicts = Append(@, status)]
  <2>2. event.type = "CaseEnd" /\ event.status = status /\ Write(event, next)
    BY <2>1 DEF CaseEnd
  <2>3. /\ next.verdicts = Append(child.verdicts, status) /\ next.runs = child.runs
        /\ next.turn = child.turn + 1 /\ next.step = 1
        /\ next.closed = child.closed /\ next.spoiled = child.spoiled
        /\ fields \subseteq DOMAIN next
    BY <1>1
  <2> HIDE DEF event, next
  <2>4. /\ fields \subseteq DOMAIN child'
        /\ child'.runs = child.runs /\ child'.turn = child.turn + 1 /\ child'.step = 1
        /\ child'.verdicts = Append(child.verdicts, status) /\ child'.spoiled \in Nat
    BY <1>1, <2>2, <2>3, WriteCases
  <2>5. child.turn <= Len(child.runs) /\ Opened
    <3>1. child.step \in 1 .. Len(Now) /\ Now[child.step].type = "Body"
      BY <1>2, <1>3, <1>6 DEF ChildVerdict, AtStep
    <3>2. child.turn # Len(child.runs) + 1
      BY <1>2, <3>1
    <3>3. child.turn <= Len(child.runs)
      BY <1>1, <3>2
    <3> QED
      BY <1>2, <3>1, <3>3 DEF Opened
  <2>6. child.turn + 1 \in 1 .. Len(child.runs) + 1
    BY <1>1, <2>5
  <2>7. Len(child'.verdicts) = Len(child.verdicts) + 1
    BY <1>1, <2>4, StreamAppend
  <2>8. Len(Now') \in Nat \ {0}
    <3>1. PICK k \in 1 .. Len(child.runs) + 1 : k = child.turn + 1
      BY <2>6
    <3>2. Now' = Turn(child.runs, k)
      BY <2>4, <3>1 DEF Now
    <3> QED
      BY <1>1, <3>2, TurnShape
  <2>9. TurnOK'
    <3>1. Len(child.verdicts) = child.turn - 1
      BY <1>1 DEF TurnOK
    <3>2. Len(child'.verdicts) = child'.turn - 1 /\ child'.step <= Len(Now')
      BY <1>1, <3>1, <2>4, <2>7, <2>8
    <3> QED
      BY <1>1, <2>4, <2>6, <3>2 DEF TurnOK
  <2>10. ToldOK'
    BY <1>1, <2>2, <2>3, <2>5, VerdictTells DEF ToldOK
  <2> QED
    BY <2>9, <2>10 DEF TellInv
<1>7. ASSUME ChildReturn \/ ChildExit \/ ChildCrash \/ ChildClose PROVE TellInv'
  <2>1. /\ out' = out /\ fields \subseteq DOMAIN child'
        /\ child'.runs = child.runs /\ child'.turn = child.turn /\ child'.step = child.step
        /\ child'.verdicts = child.verdicts /\ child'.spoiled = child.spoiled
        /\ child'.closed = child.closed \/ child'.closed = TRUE
    BY <1>1, <1>7 DEF ChildReturn, ChildExit, ChildCrash, ChildClose
  <2>2. Now' = Now
    BY <2>1 DEF Now
  <2>3. TurnOK'
    BY <1>1, <2>1, <2>2 DEF TurnOK
  <2>4. EndsIn(Len(out))' = EndsIn(Len(out)) /\ (Started(Len(out))' <=> Started(Len(out)))
    BY <2>1 DEF EndsIn, Started
  <2>5. /\ (Opened' <=> Opened) /\ (Intact' => Intact) /\ (Told' <=> Told)
        /\ EndsStarted' <=> EndsStarted
    BY <2>1, <2>2, <2>4 DEF Opened, Intact, Told, Rising, EndsStarted, Started
  <2>6. ToldOK'
    BY <1>1, <2>1, <2>4, <2>5 DEF ToldOK
  <2> QED
    BY <2>3, <2>6 DEF TellInv
<1> QED
  BY <1>4, <1>5, <1>6, <1>7 DEF ChildStep

-----------------------------------------------------------------------------
(* The host: what it has heard of the child, what it knows when it judges, *)
(* and that the account of a child whose stream is whole is complete.      *)
Heard ==
    \E f \in Bijection(EndsIn(got), CountsOf(cur)) :
        /\ Rising(f, EndsIn(got))
        /\ \A k \in EndsIn(got) : ledger[f[k]].status = out[k].status

HeardOK ==
    pc \in WithChild =>
        /\ Heard
        /\ child.runs = Runs[cur]
        /\ EndsIn(got) # {} => view.ended
        /\ Started(got) => view.ran

ReadOK ==
    /\ pc \in WithChild \cup {"spawn"} => cur \in DOMAIN Cases
    /\ pc = "kill" => view.err
    /\ pc \in {"wait", "judge"} /\ ~view.err => Disconnected /\ got = reader.sent
    /\ reader.state = "eof" /\ ~child.closed => reader.sent = Len(out) /\ ~Alive
    /\ pc = "judge" /\ fate[cur].whole => Intact /\ ~view.err
    /\ pc = "judge" /\ fate[cur].whole => fate[cur].cut = (reader.state = "broken")
    /\ reader.state = "broken" => "read" \in Faults

CountedInv ==
    /\ TellInv /\ HeardOK /\ ReadOK
    /\ NoCaseCountedTwice /\ EveryVerdictCounts

(* EveryVerdictCounts and NoCaseCountedTwice of one child.                 *)
InOrder(k, kept) ==
    \E entry \in Bijection(1 .. kept, CountsOf(k)) :
        /\ \A v \in 1 .. kept : ledger[entry[v]].status = fate[k].verdicts[v]
        /\ \A v, w \in 1 .. kept : v < w => entry[v] < entry[w]

OneFailure(k) ==
    \E m \in DOMAIN ledger : CountsOf(k) = {m} /\ ledger[m].status = "Failed"

Complete(k) ==
    (fate[k].whole /\ ~Crashed(k) /\ fate[k].verdicts # <<>>) =>
        \/ \E kept \in 0 .. Len(fate[k].verdicts) :
              (fate[k].cut \/ kept = Len(fate[k].verdicts)) /\ InOrder(k, kept)
        \/ fate[k].cut /\ OneFailure(k)

Fits(k) == Cardinality(CountsOf(k)) <= IF Runs[k] = <<>> THEN 1 ELSE Len(Runs[k])

LEMMA OneByOne ==
    /\ EveryVerdictCounts <=> \A k \in Judged : Complete(k)
    /\ NoCaseCountedTwice <=> \A k \in DOMAIN Cases : Fits(k)
<1>1. EveryVerdictCounts <=> \A k \in Judged : Complete(k)
  BY DEF EveryVerdictCounts, Complete, InOrder, OneFailure
<1>2. NoCaseCountedTwice <=> \A k \in DOMAIN Cases : Fits(k)
  BY DEF NoCaseCountedTwice, Fits
<1> QED
  BY <1>1, <1>2

LEMMA CompleteKept ==
    ASSUME NEW k, Complete(k), fate'[k] = fate[k], CountsOf(k)' = CountsOf(k),
           \A m \in CountsOf(k) : ledger'[m] = ledger[m]
    PROVE  Complete(k)'
<1>1. Crashed(k)' <=> Crashed(k)
  BY DEF Crashed
<1>2. ASSUME NEW kept, InOrder(k, kept) PROVE InOrder(k, kept)'
  <2>1. PICK entry \in Bijection(1 .. kept, CountsOf(k)) :
               /\ \A v \in 1 .. kept : ledger[entry[v]].status = fate[k].verdicts[v]
               /\ \A v, w \in 1 .. kept : v < w => entry[v] < entry[w]
    BY <1>2 DEF InOrder
  <2>2. \A v \in 1 .. kept : entry[v] \in CountsOf(k)
    BY DEF Bijection, Injection
  <2>3. \A v \in 1 .. kept : ledger'[entry[v]].status = fate[k].verdicts[v]
    BY <2>1, <2>2
  <2> QED
    BY <2>1, <2>3 DEF InOrder
<1>3. OneFailure(k) => OneFailure(k)'
  <2> SUFFICES ASSUME NEW m \in DOMAIN ledger, CountsOf(k) = {m}, ledger[m].status = "Failed"
               PROVE  OneFailure(k)'
    BY DEF OneFailure
  <2>1. m \in CountsOf(k)' /\ ledger'[m] = ledger[m]
    OBVIOUS
  <2>2. m \in DOMAIN ledger'
    BY <2>1 DEF CountsOf
  <2> QED
    BY <2>1, <2>2 DEF OneFailure
<1> QED
  BY <1>1, <1>2, <1>3 DEF Complete

(* No step touches what is counted for another case than the current one.  *)
LEMMA OthersStay ==
    ASSUME IInv, [Next]_vars, NEW k, k # cur
    PROVE  CountsOf(k)' = CountsOf(k) /\ \A m \in CountsOf(k) : ledger'[m] = ledger[m]
<1>1. ledger \in Seq(Entry) /\ cur \in Nat
  BY DEF IInv, TypeOK, Entry
<1>2. ASSUME NEW status \in TestStatus, ledger' = Append(ledger, [of |-> cur, status |-> status])
      PROVE  CountsOf(k)' = CountsOf(k) /\ \A m \in CountsOf(k) : ledger'[m] = ledger[m]
  <2> DEFINE e == [of |-> cur, status |-> status]
  <2>1. e \in Entry /\ e.of = cur
    BY <1>1 DEF Entry
  <2> HIDE DEF e
  <2>2. /\ DOMAIN ledger = 1 .. Len(ledger) /\ Len(ledger) \in Nat
        /\ DOMAIN ledger' = 1 .. Len(ledger) + 1
        /\ ledger'[Len(ledger) + 1] = e
        /\ \A m \in DOMAIN ledger : ledger'[m] = ledger[m]
    BY <1>1, <1>2, <2>1, AppendProperties, LenProperties DEF e
  <2>3. \A m : m \in DOMAIN ledger' <=> m \in DOMAIN ledger \/ m = Len(ledger) + 1
    BY <2>2
  <2>4. CountsOf(k)' = {m \in DOMAIN ledger' : ledger'[m].of = k}
    BY DEF CountsOf
  <2> QED
    BY <2>1, <2>2, <2>3, <2>4 DEF CountsOf
<1>3. CASE Ledger!Amend
  <2>1. /\ ledger' = [ledger EXCEPT ![Len(ledger)] = [of |-> cur, status |-> "Failed"]]
        /\ ledger[Len(ledger)].of = cur
    BY <1>3 DEF Ledger!Amend
  <2>2. DOMAIN ledger' = DOMAIN ledger /\ \A m \in DOMAIN ledger :
            IF m = Len(ledger) THEN ledger'[m].of = cur ELSE ledger'[m] = ledger[m]
    BY <2>1
  <2>3. CountsOf(k)' = {m \in DOMAIN ledger' : ledger'[m].of = k}
    BY DEF CountsOf
  <2> QED
    BY <2>1, <2>2, <2>3 DEF CountsOf
<1>4. CASE UNCHANGED ledger
  BY <1>4 DEF CountsOf
<1>5. \/ \E status \in TestStatus : ledger' = Append(ledger, [of |-> cur, status |-> status])
      \/ Ledger!Amend
      \/ UNCHANGED ledger
  BY LedgerStep
     DEF Ledger!Next, Ledger!Enter, Ledger!EnterStatus, Ledger!Leave, Ledger!Close,
         Ledger!GiveUp, Ledger!vars, TestStatus
<1> QED
  BY <1>2, <1>3, <1>4, <1>5

(* Before the first child everything is empty.                             *)
LEMMA InitCounted == Init => CountedInv
<1> SUFFICES ASSUME Init PROVE CountedInv
  OBVIOUS
<1>1. /\ ledger = <<>> /\ fate = <<>> /\ out = <<>> /\ got = 0
      /\ pc \in {"spawn", "bailed"} /\ cur = 1 /\ (pc = "spawn" => Cases # <<>>)
      /\ reader.sent = 0 /\ reader.state # "broken" /\ child.runs = <<>> /\ child.turn = 1 /\ child.step = 1
      /\ child.status = 0 /\ child.closed = FALSE /\ child.spoiled = 0 /\ child.verdicts = <<>>
      /\ {"runs", "turn", "step", "status", "closed", "spoiled", "verdicts"} \subseteq DOMAIN child
  BY DEF Init
<1>2. EndsIn(Len(out)) = {} /\ DOMAIN child.verdicts = {}
  BY <1>1 DEF EndsIn
<1>3. TurnOK
  <2>1. child.runs \in Seq(CaseIds) /\ Len(child.runs) = 0 /\ Len(child.verdicts) = 0
    BY <1>1, EmptySeq
  <2>2. child.turn \in 1 .. Len(child.runs) + 1 /\ ~(child.turn <= Len(child.runs))
    BY <1>1, <2>1
  <2> QED
    BY <1>1, <2>1, <2>2 DEF TurnOK
<1>4. ToldOK
  <2>1. Cardinality(EndsIn(Len(out))) <= Len(child.verdicts)
    <3>1. Len(child.verdicts) = 0
      BY <1>1
    <3> QED
      BY <1>2, <3>1, FS_EmptySet
  <2>2. Told
    <3> DEFINE none == [v \in {} |-> 0]
    <3>1. none \in Bijection({}, {})
      BY DEF Bijection, Injection, Surjection, IsInjective
    <3> QED
      BY <1>2, <3>1 DEF Told, Rising
  <2>3. ~Opened
    BY <1>1 DEF Opened
  <2>4. EndsStarted
    BY <1>2 DEF EndsStarted
  <2> QED
    BY <2>1, <2>2, <2>3, <2>4 DEF ToldOK
<1>5. HeardOK
  BY <1>1 DEF HeardOK, WithChild
<1>6. ReadOK
  <2>1. Cases # <<>> => 1 \in DOMAIN Cases
    BY RunAssumption, LenProperties, EmptySeq
  <2> QED
    BY <1>1, <2>1 DEF ReadOK, WithChild, Alive, Running
<1>7. NoCaseCountedTwice
  <2>1. ASSUME NEW k \in DOMAIN Cases PROVE Fits(k)
    <3>1. CountsOf(k) = {}
      BY <1>1 DEF CountsOf
    <3>2. Runs[k] \in Seq(CaseIds)
      BY RunAssumption, LenProperties
    <3>3. Len(Runs[k]) \in Nat
      BY <3>2, LenProperties
    <3> QED
      BY <3>1, <3>3, FS_EmptySet DEF Fits
  <2> QED
    BY <2>1, OneByOne
<1>8. EveryVerdictCounts
  BY <1>1 DEF EveryVerdictCounts, Judged
<1> QED
  BY <1>3, <1>4, <1>5, <1>6, <1>7, <1>8 DEF CountedInv, TellInv

(* A child, new or killed, is somewhere in its turns as well.              *)
LEMMA TellKept ==
    ASSUME TellInv, UNCHANGED out,
           {"runs", "turn", "step", "status", "closed", "spoiled", "verdicts"} \subseteq DOMAIN child',
           child'.runs = child.runs, child'.turn = child.turn, child'.step = child.step,
           child'.closed = child.closed, child'.spoiled = child.spoiled,
           child'.verdicts = child.verdicts
    PROVE  TellInv'
<1>1. Now' = Now
  BY DEF Now
<1>2. EndsIn(Len(out))' = EndsIn(Len(out)) /\ (Started(Len(out))' <=> Started(Len(out)))
  BY DEF EndsIn, Started
<1>3. TurnOK'
  BY <1>1 DEF TellInv, TurnOK
<1>4. /\ (Opened' <=> Opened) /\ (Intact' <=> Intact) /\ (Told' <=> Told)
      /\ EndsStarted' <=> EndsStarted
  BY <1>1, <1>2 DEF Opened, Intact, Told, Rising, EndsStarted, Started
<1>5. ToldOK'
  BY <1>2, <1>4 DEF TellInv, ToldOK
<1> QED
  BY <1>3, <1>5 DEF TellInv

LEMMA SpawnTells == IInv /\ CountedInv /\ Spawn => TellInv'
<1> SUFFICES ASSUME IInv, CountedInv, Spawn PROVE TellInv'
  OBVIOUS
<1>1. pc = "spawn" /\ out' = <<>> /\ child' = NewChild(cur)
  BY DEF Spawn
<1>2. /\ child'.runs = Runs[cur] /\ child'.turn = 1 /\ child'.step = 1
      /\ child'.closed = FALSE /\ child'.spoiled = 0 /\ child'.verdicts = <<>>
      /\ {"runs", "turn", "step", "status", "closed", "spoiled", "verdicts"} \subseteq DOMAIN child'
  BY <1>1 DEF NewChild
<1>3. cur \in DOMAIN Cases
  BY <1>1 DEF CountedInv, ReadOK, WithChild
<1>4. PICK runs : runs = Runs[cur]
  OBVIOUS
<1>5. runs \in Seq(CaseIds) /\ Len(runs) \in Nat
  <2>1. runs \in Seq(CaseIds)
    BY <1>3, <1>4, RunAssumption, LenProperties
  <2> QED
    BY <2>1, LenProperties
<1>6. 1 \in 1 .. Len(runs) + 1
  BY <1>5
<1>7. /\ Len(Turn(runs, 1)) \in Nat \ {0}
      /\ 1 <= Len(runs) => Len(Turn(runs, 1)) >= 2
  BY <1>5, <1>6, TurnShape
<1>8. Now' = Turn(runs, 1)
  BY <1>2, <1>4 DEF Now
<1>9. TurnOK'
  <2>1. Len(child'.verdicts) = child'.turn - 1
    BY <1>2
  <2>2. child'.step <= Len(Now')
    BY <1>2, <1>7, <1>8
  <2> QED
    BY <1>2, <1>4, <1>5, <1>6, <2>1, <2>2 DEF TurnOK
<1>10. EndsIn(Len(out))' = {} /\ DOMAIN child'.verdicts = {}
  BY <1>1, <1>2 DEF EndsIn
<1>11. ~Opened'
  <2>1. 1 <= Len(runs) => Len(Turn(runs, 1)) # 1
    <3>1. \A n \in Nat : n >= 2 => n # 1
      OBVIOUS
    <3> QED
      BY <1>7, <3>1
  <2>2. Opened' <=> 1 > 1 \/ (1 <= Len(runs) /\ 1 = Len(Turn(runs, 1)))
    BY <1>2, <1>4, <1>8 DEF Opened
  <2> QED
    BY <2>1, <2>2
<1>12. Told'
  <2> DEFINE none == [v \in {} |-> 0]
  <2>1. none \in Bijection({}, {})
    BY DEF Bijection, Injection, Surjection, IsInjective
  <2> QED
    BY <1>10, <2>1 DEF Told, Rising
<1>13. ToldOK'
  <2>1. Len(child'.verdicts) = 0
    BY <1>2
  <2> QED
    BY <1>10, <1>11, <1>12, <2>1, FS_EmptySet DEF ToldOK, EndsStarted
<1> QED
  BY <1>9, <1>13 DEF TellInv

LEMMA TellStep == IInv /\ GenuineInv /\ CountedInv /\ [Next]_vars => TellInv'
<1> SUFFICES ASSUME IInv, GenuineInv, CountedInv, [Next]_vars PROVE TellInv'
  OBVIOUS
<1>1. TellInv
      /\ {"runs", "turn", "step", "status", "closed", "spoiled", "verdicts"} \subseteq DOMAIN child
  BY DEF CountedInv, TellInv, TurnOK
<1>2. CASE ChildStep
  BY <1>1, <1>2, ChildStepTells
<1>3. CASE Spawn
  BY <1>3, SpawnTells
<1>4. CASE UNCHANGED <<child, out>>
  BY <1>1, <1>4, TellKept
<1>5. CASE Kill
  <2>1. /\ UNCHANGED out /\ DOMAIN child' = DOMAIN child
        /\ child'.runs = child.runs /\ child'.turn = child.turn /\ child'.step = child.step
        /\ child'.closed = child.closed /\ child'.spoiled = child.spoiled
        /\ child'.verdicts = child.verdicts
    BY <1>1, <1>5 DEF Kill
  <2> QED
    BY <1>1, <2>1, TellKept
<1>6. CASE ReaderStep \/ Tick \/ UNCHANGED vars
  BY <1>4, <1>6 DEF ReaderStep, ReadChunk, ReadEof, ReadFails, Tick, vars, childVars
<1>7. CASE SpawnFails \/ CheckDeadline \/ ReceiveError \/ ReceiveTimeout \/ ReceiveDisconnected
  BY <1>4, <1>7
     DEF childVars, SpawnFails, CheckDeadline, ReceiveError, ReceiveTimeout, ReceiveDisconnected, GiveUp
<1>8. CASE Receive \/ Wait \/ JudgeSound \/ JudgeCrash \/ Finish \/ FinishFails
  BY <1>4, <1>8 DEF childVars, Receive, Wait, JudgeSound, JudgeCrash, Finish, FinishFails
<1> QED
  BY <1>2, <1>3, <1>5, <1>6, <1>7, <1>8 DEF Next, MainStep, Terminated

(* What a step of the child may do to what the host relies on.             *)
LEMMA ChildGoesOn ==
    TurnOK /\ ChildStep =>
        /\ UNCHANGED <<mainVars, readerVars, expired, ghosts>> /\ Alive
        /\ child'.runs = child.runs
        /\ child'.closed = child.closed \/ child'.closed = TRUE
        /\ out' = out \/ \E seen : out' = Append(out, seen)
<1> SUFFICES ASSUME TurnOK, ChildStep
             PROVE  /\ child'.runs = child.runs
                    /\ child'.closed = child.closed \/ child'.closed = TRUE
                    /\ out' = out \/ \E seen : out' = Append(out, seen)
  BY DEF ChildStep, ChildEmit, ChildFail, ChildVerdict, ChildReturn, ChildExit, ChildCrash,
         ChildClose, AtStep
<1> DEFINE fields == {"runs", "turn", "step", "status", "closed", "spoiled", "verdicts"}
<1>1. fields \subseteq DOMAIN child
  BY DEF TurnOK
<1>2. ASSUME NEW event, NEW next, Write(event, next), next.runs = child.runs,
             next.closed = child.closed, {"runs", "closed"} \subseteq DOMAIN next
      PROVE  /\ child'.runs = child.runs /\ child'.closed = child.closed
             /\ out' = out \/ \E seen : out' = Append(out, seen)
  <2>1. CASE child' = next
    BY <1>2, <2>1 DEF Write
  <2>2. CASE child' = [next EXCEPT !.spoiled = @ + 1] /\ \E seen : out' = Append(out, seen)
    BY <1>2, <2>2
  <2> QED
    BY <1>2, <2>1, <2>2 DEF Write
<1>3. CASE ChildEmit
  <2> DEFINE event == Now[child.step]
             next == [child EXCEPT !.step = @ + 1,
                        !.id = IF event.type = "CaseStart" THEN event.id ELSE @,
                        !.failing = IF event.type = "CaseStart" THEN FALSE ELSE @]
  <2>1. /\ Write(event, next) /\ next.runs = child.runs /\ next.closed = child.closed
        /\ {"runs", "closed"} \subseteq DOMAIN next
    BY <1>1, <1>3 DEF ChildEmit
  <2> HIDE DEF event, next
  <2> QED
    BY <1>2, <2>1
<1>4. CASE ChildFail
  <2> DEFINE next == [child EXCEPT !.fails = @ + 1, !.failing = TRUE]
  <2>1. /\ Write(AssertFail(child.id), next)
        /\ next.runs = child.runs /\ next.closed = child.closed
        /\ {"runs", "closed"} \subseteq DOMAIN next
    BY <1>1, <1>4 DEF ChildFail
  <2> HIDE DEF next
  <2> QED
    BY <1>2, <2>1
<1>5. CASE ChildVerdict
  <2>1. PICK status \in TestStatus :
          Write(CaseEnd(child.id, status),
                [child EXCEPT !.turn = @ + 1, !.step = 1, !.failed = @ \/ status = "Failed",
                              !.verdicts = Append(@, status)])
    BY <1>5 DEF ChildVerdict, TestStatus
  <2> DEFINE next == [child EXCEPT !.turn = @ + 1, !.step = 1, !.failed = @ \/ status = "Failed",
                                   !.verdicts = Append(@, status)]
  <2>2. /\ Write(CaseEnd(child.id, status), next)
        /\ next.runs = child.runs /\ next.closed = child.closed
        /\ {"runs", "closed"} \subseteq DOMAIN next
    BY <1>1, <2>1
  <2> HIDE DEF next
  <2> QED
    BY <1>2, <2>2
<1>6. CASE ChildReturn \/ ChildExit \/ ChildCrash \/ ChildClose
  BY <1>1, <1>6 DEF ChildReturn, ChildExit, ChildCrash, ChildClose
<1> QED
  BY <1>3, <1>4, <1>5, <1>6 DEF ChildStep

(* What has been received stays as it was when more is written.            *)
LEMMA ReceivedStays ==
    ASSUME IInv, out' = out \/ \E seen : out' = Append(out, seen), UNCHANGED got
    PROVE  /\ EndsIn(got)' = EndsIn(got)
           /\ Started(got)' <=> Started(got)
           /\ \A k \in EndsIn(got) : out'[k] = out[k]
<1>1. got \in Nat /\ Len(out) \in Nat /\ got <= Len(out)
  BY DEF IInv, TypeOK, StreamOK, IsStream
<1>2. \A k \in 1 .. got : k \in 1 .. Len(out)
  BY <1>1
<1>3. \A k \in 1 .. got : out'[k] = out[k]
  <2>1. ASSUME NEW seen, out' = Append(out, seen)
        PROVE  \A k \in 1 .. Len(out) : out'[k] = out[k]
    BY <2>1, OutGrows DEF IInv
  <2> QED
    BY <1>2, <2>1
<1> QED
  BY <1>3 DEF EndsIn, Started

(* Steps by which the host hears nothing.                                  *)
LEMMA HeardKept ==
    ASSUME IInv, HeardOK, pc \in WithChild,
           UNCHANGED <<cur, got, ledger>>, child'.runs = child.runs,
           out' = out \/ \E seen : out' = Append(out, seen),
           view'.ended = view.ended, view'.ran = view.ran
    PROVE  HeardOK'
<1>1. /\ EndsIn(got)' = EndsIn(got)
      /\ Started(got)' <=> Started(got)
      /\ \A k \in EndsIn(got) : out'[k] = out[k]
  BY ReceivedStays
<1>2. CountsOf(cur)' = CountsOf(cur)
  BY DEF CountsOf
<1>3. Heard'
  <2>1. PICK f \in Bijection(EndsIn(got), CountsOf(cur)) :
          /\ Rising(f, EndsIn(got))
          /\ \A k \in EndsIn(got) : ledger[f[k]].status = out[k].status
    BY DEF HeardOK, Heard
  <2> QED
    BY <1>1, <1>2, <2>1 DEF Heard, Rising
<1> QED
  BY <1>1, <1>3 DEF HeardOK

(* An event is received; a CASE_END enters the ledger behind all others.   *)
LEMMA HeardReceive == IInv /\ HeardOK /\ Receive => HeardOK'
<1> SUFFICES ASSUME IInv, HeardOK, Receive PROVE HeardOK'
  OBVIOUS
<1> DEFINE event == out[got + 1]
           s == got + 1
           t == Len(ledger) + 1
           S == EndsIn(got)
           T == CountsOf(cur)
<1>1. /\ pc = "recv" /\ pc' = "check" /\ got' = s /\ UNCHANGED <<cur, child, out>>
      /\ Handle(event)
  BY DEF Receive, Goto, childVars
<1>2. /\ Heard /\ child.runs = Runs[cur]
      /\ EndsIn(got) # {} => view.ended
      /\ Started(got) => view.ran
  BY <1>1 DEF HeardOK, WithChild
<1>3. /\ got \in Nat /\ s \in Nat /\ s \in 1 .. s
      /\ \A k : k \in 1 .. s <=> k \in 1 .. got \/ k = s
  BY DEF IInv, TypeOK
<1>4. EndsIn(got)' = IF event.type = "CaseEnd" THEN S \cup {s} ELSE S
  <2>1. EndsIn(got)' = {k \in 1 .. s : out[k].type = "CaseEnd"}
    BY <1>1 DEF EndsIn
  <2> QED
    BY <1>3, <2>1 DEF EndsIn
<1>5. Started(got)' <=> Started(got) \/ event.type = "CaseStart"
  <2>1. Started(got)' <=> \E k \in 1 .. s : out[k].type = "CaseStart"
    BY <1>1 DEF Started
  <2> QED
    BY <1>3, <2>1 DEF Started
<1>6. PICK f \in Bijection(S, T) :
        Rising(f, S) /\ \A k \in S : ledger[f[k]].status = out[k].status
  BY <1>2 DEF Heard
<1>7. CASE event.type # "CaseEnd"
  <2>1. /\ ledger' = ledger
        /\ view'.ended = view.ended
        /\ view'.ran = view.ran \/ view'.ran = TRUE
        /\ event.type = "CaseStart" => view'.ran
    BY <1>1, <1>7
       DEF Handle, OnSuiteStart, OnCaseStart, OnAssertFail, IInv, TypeOK
  <2>2. CountsOf(cur)' = T
    BY <1>1, <2>1 DEF CountsOf
  <2>3. EndsIn(got)' = S
    BY <1>4, <1>7
  <2>4. Heard'
    BY <1>1, <1>6, <2>1, <2>2, <2>3 DEF Heard, Rising
  <2> QED
    BY <1>1, <1>2, <1>5, <2>1, <2>3, <2>4 DEF HeardOK
<1>8. CASE event.type = "CaseEnd"
  <2> DEFINE e == [of |-> cur, status |-> event.status]
  <2>1. ledger' = Append(ledger, e) /\ view'.ended = TRUE /\ view'.ran = view.ran
    BY <1>1, <1>8
       DEF Handle, OnCaseEnd, IInv, TypeOK
  <2>2. event.status \in TestStatus
    <3>1. s \in 1 .. Len(out)
      BY <1>3 DEF IInv, TypeOK, StreamOK, IsStream, Receive
    <3> QED
      BY <1>8, <3>1 DEF IInv, StreamOK
  <2> HIDE DEF event
  <2>3. e \in Entry /\ ledger \in Seq(Entry) /\ e.of = cur /\ e.status = event.status
    BY <2>2 DEF IInv, TypeOK, Entry
  <2> HIDE DEF e
  <2>4. /\ Len(ledger) \in Nat /\ DOMAIN ledger = 1 .. Len(ledger)
        /\ DOMAIN ledger' = 1 .. t
        /\ ledger'[t] = e
        /\ \A m \in DOMAIN ledger : ledger'[m] = ledger[m]
    BY <2>1, <2>3, LenProperties, AppendProperties
  <2>5. \A m : m \in DOMAIN ledger' <=> m \in DOMAIN ledger \/ m = t
    BY <2>4
  <2>6. CountsOf(cur)' = T \cup {t}
    <3>1. CountsOf(cur)' = {m \in DOMAIN ledger' : ledger'[m].of = cur}
      BY <1>1 DEF CountsOf
    <3> HIDE DEF t
    <3> QED
      BY <2>3, <2>4, <2>5, <3>1 DEF CountsOf
  <2>7. /\ S \in SUBSET Nat /\ T \in SUBSET Nat /\ s \in Nat /\ t \in Nat
        /\ \A k \in S : k < s
        /\ \A m \in T : m < t
    <3>1. T \subseteq DOMAIN ledger
      BY DEF CountsOf
    <3>2. \A m \in T : m \in Nat /\ m < t
      BY <2>4, <3>1
    <3> HIDE DEF T
    <3> QED
      BY <1>3, <2>4, <3>2, EndsFinite
  <2> HIDE DEF S, T, s, t
  <2>8. Grows(f, S, T, s, t)
    BY <1>6, <2>7, PairingGrows
  <2>9. PICK g \in Bijection(S \cup {s}, T \cup {t}) :
          Rising(g, S \cup {s}) /\ g[s] = t /\ \A k \in S : g[k] = f[k]
    BY <2>8 DEF Grows
  <2>10. EndsIn(got)' = S \cup {s}
    BY <1>4, <1>8
  <2>11. \A k \in S \cup {s} : ledger'[g[k]].status = out'[k].status
    <3>1. \A k \in S : f[k] \in DOMAIN ledger
      BY <1>6 DEF Bijection, Injection, T, CountsOf
    <3>2. ASSUME NEW k \in S PROVE ledger'[g[k]].status = out'[k].status
      BY <3>1, <3>2, <1>1, <1>6, <2>4, <2>9
    <3>3. ledger'[g[s]].status = out'[s].status
      BY <1>1, <2>3, <2>4, <2>9 DEF event, s
    <3> QED
      BY <3>2, <3>3
  <2>12. Heard'
    BY <2>6, <2>9, <2>10, <2>11 DEF Heard, Rising
  <2> QED
    BY <1>1, <1>2, <1>5, <1>8, <2>1, <2>12 DEF HeardOK
<1> QED
  BY <1>7, <1>8

(* A new child has not been heard.                                         *)
LEMMA HeardSpawn == IInv /\ GenuineInv /\ Spawn => HeardOK'
<1> SUFFICES ASSUME IInv, GenuineInv, Spawn PROVE HeardOK'
  OBVIOUS
<1>1. /\ pc = "spawn" /\ got' = 0 /\ UNCHANGED <<cur, ledger>> /\ child' = NewChild(cur)
  BY DEF Spawn, ghosts
<1>2. CountsOf(cur)' = {}
  <2>1. CountsOf(cur) = {}
    BY <1>1 DEF GenuineInv, NothingAhead
  <2> QED
    BY <1>1, <2>1 DEF CountsOf
<1>3. EndsIn(got)' = {} /\ ~Started(got)'
  BY <1>1 DEF EndsIn, Started
<1>4. child'.runs = Runs[cur]
  BY <1>1 DEF NewChild
<1>5. Heard'
  <2> DEFINE none == [v \in {} |-> 0]
  <2>1. none \in Bijection({}, {})
    BY DEF Bijection, Injection, Surjection, IsInjective
  <2> QED
    BY <1>2, <1>3, <2>1 DEF Heard, Rising
<1> QED
  BY <1>1, <1>3, <1>4, <1>5 DEF HeardOK

LEMMA HeardStep == IInv /\ GenuineInv /\ CountedInv /\ [Next]_vars => HeardOK'
<1> SUFFICES ASSUME IInv, GenuineInv, CountedInv, [Next]_vars PROVE HeardOK'
  OBVIOUS
<1>1. HeardOK /\ TurnOK /\ {"runs", "status"} \subseteq DOMAIN child
  BY DEF CountedInv, TellInv, TurnOK
<1>2. CASE ~(pc' \in WithChild)
  BY <1>2 DEF HeardOK
<1>3. CASE Spawn
  BY <1>3, HeardSpawn
<1>4. CASE Receive
  BY <1>1, <1>4, HeardReceive
<1>5. CASE pc \in WithChild /\ ChildStep
  BY <1>1, <1>5, ChildGoesOn, HeardKept DEF mainVars, readerVars, ghosts
<1>6. CASE pc \in WithChild /\ (ReaderStep \/ Tick \/ UNCHANGED vars)
  <2>1. UNCHANGED <<cur, got, ledger, child, out, view>>
    BY <1>6
       DEF ReaderStep, ReadChunk, ReadEof, ReadFails, Tick, vars, mainVars, childVars, readerVars, ghosts
  <2> QED
    BY <1>1, <1>6, <2>1, HeardKept
<1>7. CASE CheckDeadline \/ ReceiveError \/ ReceiveTimeout \/ ReceiveDisconnected
  <2>1. UNCHANGED <<cur, got, ledger, child, out>>
        /\ view'.ended = view.ended /\ view'.ran = view.ran /\ pc \in WithChild
    BY <1>7
       DEF CheckDeadline, ReceiveError, ReceiveTimeout, ReceiveDisconnected, GiveUp, childVars,
           readerVars, ghosts, WithChild, IInv, TypeOK
  <2> QED
    BY <1>1, <2>1, HeardKept
<1>8. CASE Kill \/ Wait
  <2>1. /\ UNCHANGED <<cur, got, ledger, out, view>> /\ child'.runs = child.runs
        /\ pc \in WithChild
    BY <1>1, <1>8 DEF Kill, Wait, childVars, readerVars, ghosts, WithChild
  <2> QED
    BY <1>1, <2>1, HeardKept
<1>9. CASE JudgeSound \/ JudgeCrash \/ SpawnFails \/ Finish \/ FinishFails
  <2>1. pc' \notin WithChild
    BY <1>9
       DEF JudgeSound, JudgeCrash, SpawnFails, Finish, FinishFails, NextCase, Goto, WithChild
  <2> QED
    BY <1>2, <2>1
<1>10. CASE ~(pc \in WithChild) /\ (ChildStep \/ ReaderStep \/ Tick \/ UNCHANGED vars)
  <2>1. pc' = pc
    BY <1>10 DEF ChildStep, ReaderStep, ReadChunk, ReadEof, ReadFails, Tick, vars, mainVars
  <2> QED
    BY <1>2, <1>10, <2>1
<1> QED
  BY <1>3, <1>4, <1>5, <1>6, <1>7, <1>8, <1>9, <1>10 DEF Next, MainStep, Terminated

(* What the host knows of the child is kept by every step.                 *)
LEMMA ReadStep == IInv /\ CrashInv /\ CountedInv /\ [Next]_vars => ReadOK'
<1> SUFFICES ASSUME IInv, CrashInv, CountedInv, [Next]_vars PROVE ReadOK'
  OBVIOUS
<1>1. /\ ReadOK /\ TurnOK /\ {"status", "closed", "spoiled"} \subseteq DOMAIN child
      /\ cur \in Nat \ {0} /\ IsStream(fate)
      /\ pc \in {"spawn", "check", "recv", "kill", "wait", "judge", "finish", "exit", "bailed"}
      /\ view \in View /\ "state" \in DOMAIN reader
  BY DEF CountedInv, TellInv, TurnOK, IInv, TypeOK, View, CrashInv, FateOK
<1>2. CASE ChildStep
  <2>1. UNCHANGED <<mainVars, readerVars, ghosts>> /\ Alive
        /\ (child'.closed = child.closed \/ child'.closed = TRUE)
    BY <1>1, <1>2, ChildGoesOn
  <2>2. pc # "judge"
    BY <2>1 DEF CrashInv, FateOK
  <2>3. reader.state = "eof" => child.closed
    BY <1>1, <2>1 DEF ReadOK
  <2> QED
    BY <1>1, <2>1, <2>2, <2>3 DEF ReadOK, Disconnected, mainVars, readerVars, ghosts
<1>3. CASE ReaderStep
  <2>1. /\ reader.state = "reading" /\ UNCHANGED <<pc, cur, view, child, out, got, fate>>
        /\ reader'.state = "eof" => reader'.sent = Len(out) /\ (~Alive \/ child.closed)
        /\ reader'.state = "broken" => "read" \in Faults
    BY <1>3 DEF ReaderStep, ReadChunk, ReadEof, ReadFails, mainVars, childVars, ghosts, IInv, TypeOK
  <2>2. (pc = "judge" => ~fate[cur].whole) /\ (pc \in {"wait", "judge"} => view.err)
    BY <1>1, <2>1 DEF ReadOK, Disconnected
  <2> QED
    BY <1>1, <2>1, <2>2 DEF ReadOK, Alive, Intact
<1>4. CASE Tick \/ UNCHANGED vars
  BY <1>1, <1>4
     DEF Tick, vars, mainVars, childVars, readerVars, ghosts, ReadOK, Alive, Intact, Disconnected
<1>5. CASE Spawn
  BY <1>1, <1>5 DEF Spawn, Goto, ReadOK, WithChild
<1>6. CASE CheckDeadline \/ ReceiveError \/ ReceiveTimeout \/ ReceiveDisconnected \/ Receive
  <2>1. /\ UNCHANGED <<cur, child, out, reader>> /\ pc \in WithChild
        /\ pc' \in {"check", "recv", "kill", "wait"}
        /\ pc' = "kill" => view'.err = TRUE
        /\ pc' = "wait" => Disconnected /\ got = reader.sent /\ UNCHANGED got
    BY <1>1, <1>6
       DEF CheckDeadline, ReceiveError, ReceiveTimeout, ReceiveDisconnected, Receive, GiveUp,
           Goto, childVars, readerVars, WithChild, View
  <2> QED
    BY <1>1, <2>1 DEF ReadOK, Alive, Disconnected
<1>7. CASE Kill
  <2>1. /\ pc = "kill" /\ pc' = "wait" /\ UNCHANGED <<cur, view, out, reader, got>>
        /\ child'.closed = child.closed
        /\ child'.status = IF child.status = Running THEN Signal ELSE child.status
    BY <1>1, <1>7 DEF Kill, Goto, readerVars
  <2>2. view'.err /\ (~Alive => ~Alive')
    BY <1>1, <2>1 DEF ReadOK, Alive
  <2> QED
    BY <1>1, <2>1, <2>2 DEF ReadOK, WithChild
<1>8. CASE Wait
  <2>1. /\ pc = "wait" /\ pc' = "judge" /\ UNCHANGED <<cur, view, child, out, reader, got>>
        /\ fate' = Append(fate, Account)
    BY <1>8 DEF Wait, Goto, childVars, readerVars
  <2>2. fate'[cur] = Account
    <3>1. Len(fate) + 1 = cur
      BY <1>1, <2>1 DEF CrashInv, FateOK
    <3> QED
      BY <1>1, <2>1, <3>1, StreamAppend
  <2>3. /\ fate'[cur'].whole => Intact' /\ ~view'.err
        /\ fate'[cur'].cut = (reader'.state = "broken")
    <3>1. /\ Account.whole => ~child.closed /\ child.spoiled = 0 /\ ~view.err
          /\ Account.cut = (reader.state = "broken")
      BY ZenonT(30) DEF Account
    <3> QED
      BY <2>1, <2>2, <3>1 DEF Intact
  <2> QED
    BY <1>1, <2>1, <2>3 DEF ReadOK, Alive, WithChild, Disconnected
<1>9. CASE JudgeSound \/ JudgeCrash
  <2>1. /\ UNCHANGED <<child, out, reader, got>>
        /\ \/ pc' = "spawn" /\ cur < Len(Cases) /\ cur' = cur + 1
           \/ pc' = "finish"
    BY <1>9 DEF JudgeSound, JudgeCrash, NextCase, Goto, childVars, readerVars
  <2>2. pc' = "spawn" => cur' \in DOMAIN Cases
    <3>1. Len(Cases) \in Nat /\ DOMAIN Cases = 1 .. Len(Cases)
      BY RunAssumption, LenProperties
    <3> QED
      BY <1>1, <2>1, <3>1
  <2> QED
    BY <1>1, <2>1, <2>2 DEF ReadOK, Alive, WithChild
<1>10. CASE SpawnFails \/ Finish \/ FinishFails
  <2>1. UNCHANGED <<child, out, reader, got>> /\ pc' \in {"exit", "bailed"}
    BY <1>10 DEF SpawnFails, Finish, FinishFails, Goto, childVars, readerVars
  <2> QED
    BY <1>1, <2>1 DEF ReadOK, Alive, WithChild
<1> QED
  BY <1>2, <1>3, <1>4, <1>5, <1>6, <1>7, <1>8, <1>9, <1>10 DEF Next, MainStep, Terminated

CurrentFits == pc \in WithChild => \A k : k = cur => Fits(k)

(* While the child lives, no more is counted than it has cases to run.     *)
LEMMA HeardFits == IInv /\ TellInv /\ HeardOK => CurrentFits
<1> SUFFICES ASSUME IInv, TellInv, HeardOK, pc \in WithChild PROVE Fits(cur)
  BY DEF CurrentFits
<1>1. /\ got \in Nat /\ Len(out) \in Nat /\ got <= Len(out)
      /\ child.runs = Runs[cur] /\ Heard
  BY DEF IInv, TypeOK, StreamOK, IsStream, HeardOK
<1>2. /\ Len(child.runs) \in Nat /\ child.turn \in 1 .. Len(child.runs) + 1
      /\ Len(child.verdicts) = child.turn - 1
      /\ Cardinality(EndsIn(Len(out))) <= Len(child.verdicts)
  BY LenProperties DEF TellInv, TurnOK, ToldOK
<1>3. EndsIn(got) \subseteq EndsIn(Len(out))
  BY <1>1 DEF EndsIn
<1>4. /\ IsFiniteSet(EndsIn(got)) /\ Cardinality(EndsIn(got)) \in Nat
      /\ Cardinality(EndsIn(Len(out))) \in Nat
      /\ Cardinality(EndsIn(got)) <= Cardinality(EndsIn(Len(out)))
  BY <1>1, <1>3, EndsFinite, FS_CardinalityType, FS_Subset
<1>5. Cardinality(CountsOf(cur)) = Cardinality(EndsIn(got))
  <2>1. ExistsBijection(EndsIn(got), CountsOf(cur))
    BY <1>1 DEF Heard, ExistsBijection
  <2> QED
    BY <1>4, <2>1, FS_Bijection
<1>6. Cardinality(CountsOf(cur)) <= Len(Runs[cur])
  BY <1>1, <1>2, <1>4, <1>5
<1>7. CASE Runs[cur] = <<>>
  <2>1. Len(Runs[cur]) = 0
    BY <1>7
  <2>2. Cardinality(CountsOf(cur)) <= 1
    BY <1>4, <1>5, <1>6, <2>1
  <2> QED
    BY <1>7, <2>2 DEF Fits
<1> QED
  BY <1>6, <1>7 DEF Fits

(* The judgement of a crash counts a case of its own only if none was.     *)
LEMMA JudgeCrashFits ==
    IInv /\ HeardOK /\ ReadOK /\ JudgeCrash /\ Fits(cur) => \A k : k = cur => Fits(k)'
<1> SUFFICES ASSUME IInv, HeardOK, ReadOK, JudgeCrash, Fits(cur), NEW k, k = cur
             PROVE  Fits(k)'
  OBVIOUS
<1> DEFINE e == [of |-> cur, status |-> "Failed"]
           n == Len(ledger) + 1
<1>1. /\ pc = "judge" /\ CountCrash /\ view.ended \in BOOLEAN
      /\ ledger \in Seq(Entry) /\ e \in Entry /\ k \in DOMAIN Cases
  BY DEF JudgeCrash, IInv, TypeOK, Entry, TestStatus, ReadOK, WithChild
<1>2. Len(ledger) \in Nat /\ DOMAIN ledger = 1 .. Len(ledger)
  BY <1>1, LenProperties
<1>3. CASE ~view.ended
  <2>1. CountsOf(cur) = {}
    <3>1. Heard /\ EndsIn(got) = {}
      BY <1>1, <1>3 DEF HeardOK, WithChild
    <3> QED
      BY <3>1 DEF Heard, Bijection, Surjection
  <2>2. ledger' = Append(ledger, e)
    BY <1>1, <1>3 DEF CountCrash
  <2>3. /\ DOMAIN ledger' = 1 .. n /\ ledger'[n] = e
        /\ \A m \in DOMAIN ledger : ledger'[m] = ledger[m]
    BY <1>1, <1>2, <2>2, LenProperties, AppendProperties
  <2>4. \A m : m \in DOMAIN ledger' <=> m \in DOMAIN ledger \/ m = n
    BY <1>2, <2>3
  <2>5. CountsOf(k)' = {m \in DOMAIN ledger' : ledger'[m].of = k}
    BY DEF CountsOf
  <2> HIDE DEF n
  <2>6. CountsOf(k)' = {n}
    BY <2>1, <2>3, <2>4, <2>5 DEF CountsOf
  <2>7. Cardinality(CountsOf(k))' = 1
    BY <2>6, FS_Singleton
  <2>8. Runs[k] # <<>> => 1 <= Len(Runs[k])
    <3>1. PICK runs : runs = Runs[k]
      OBVIOUS
    <3>2. runs \in Seq(CaseIds)
      BY <1>1, <3>1, RunAssumption, LenProperties
    <3>3. runs # <<>> => Len(runs) # 0 /\ Len(runs) \in Nat
      BY <3>2, LenProperties, EmptySeq
    <3> QED
      BY <3>1, <3>3
  <2> QED
    BY <2>7, <2>8 DEF Fits
<1>4. CASE view.ended
  <2>1. \/ ledger' = ledger
        \/ ledger' = [ledger EXCEPT ![Len(ledger)] = [of |-> @.of, status |-> "Failed"]]
    BY <1>1, <1>4 DEF CountCrash
  <2>2. DOMAIN ledger' = DOMAIN ledger /\ \A m \in DOMAIN ledger : ledger'[m].of = ledger[m].of
    BY <2>1
  <2>3. CountsOf(k)' = {m \in DOMAIN ledger' : ledger'[m].of = k}
    BY DEF CountsOf
  <2>4. CountsOf(k)' = CountsOf(k)
    BY <2>2, <2>3 DEF CountsOf
  <2> QED
    BY <2>4 DEF Fits
<1> QED
  BY <1>1, <1>3, <1>4

(* A set of numbers that is not empty has a least one.                     *)
LEMMA LeastNumber ==
    ASSUME NEW S, S \subseteq Nat, S # {}
    PROVE  \E k \in S : \A m \in S : k <= m
<1>1. PICK k \in S : \A m \in S : ~(<<m, k>> \in OpToRel(<, Nat))
  BY NatLessThanWellFounded, WFMin, Zenon
<1>2. \A m \in S : ~(m < k)
  BY <1>1 DEF OpToRel
<1> QED
  BY <1>2

(* What has been received of a child's verdicts is a first part of them,   *)
(* counted in order.                                                       *)
HeardSoFar(kept) ==
    \E entry \in Bijection(1 .. kept, CountsOf(cur)) :
        /\ \A v \in 1 .. kept : ledger[entry[v]].status = child.verdicts[v]
        /\ \A v, w \in 1 .. kept : v < w => entry[v] < entry[w]

LEMMA HeardInOrder ==
    ASSUME Heard, Told, IsStream(child.verdicts),
           got \in Nat, Len(out) \in Nat, got <= Len(out)
    PROVE  \E kept \in 0 .. Len(child.verdicts) :
              (got = Len(out) => kept = Len(child.verdicts)) /\ HeardSoFar(kept)
<1> DEFINE S == DOMAIN child.verdicts
           n == Len(child.verdicts)
           T == EndsIn(Len(out))
           U == EndsIn(got)
<1>1. S = 1 .. n /\ n \in Nat
  BY DEF IsStream
<1>2. PICK h \in Bijection(S, T) :
        Rising(h, S) /\ \A v \in S : out[h[v]].status = child.verdicts[v]
  BY DEF Told
<1>3. PICK f \in Bijection(U, CountsOf(cur)) :
        Rising(f, U) /\ \A m \in U : ledger[f[m]].status = out[m].status
  BY DEF Heard
<1>4. /\ h \in [S -> T]
      /\ \A x, y \in S : h[x] = h[y] => x = y
      /\ \A y \in T : \E x \in S : h[x] = y
  BY DEF Bijection, Injection, Surjection, IsInjective
<1>5. /\ U \subseteq T /\ T \subseteq Nat
      /\ \A m \in T : m \in U <=> m <= got
      /\ got = Len(out) => U = T
  BY DEF EndsIn
<1> HIDE DEF S, n, T, U
<1>6. PICK kept \in 0 .. n : \A v \in S : v <= kept <=> h[v] \in U
  <2> DEFINE Unheard == {v \in S : h[v] \notin U}
  <2>1. CASE Unheard = {}
    <3>1. \A v \in S : v <= n <=> h[v] \in U
      BY <1>1, <2>1
    <3> QED
      BY <1>1, <3>1
  <2>2. CASE Unheard # {}
    <3>1. Unheard \subseteq Nat
      BY <1>1
    <3>2. PICK first \in Unheard : \A v \in Unheard : first <= v
      BY <2>2, <3>1, LeastNumber
    <3>3. first \in 1 .. n /\ first - 1 \in 0 .. n
      BY <1>1
    <3>4. ASSUME NEW v \in S PROVE v <= first - 1 <=> h[v] \in U
      <4>1. v \in 1 .. n /\ h[v] \in T /\ h[first] \in T /\ h[first] \notin U /\ first \in S
        BY <1>1, <1>4
      <4>2. v <= first - 1 => h[v] \in U
        BY <3>2, <3>3, <4>1
      <4>3. ASSUME ~(v <= first - 1), h[v] \in U PROVE FALSE
        <5>1. v # first /\ first < v
          BY <3>3, <4>1, <4>3
        <5>2. h[first] < h[v]
          BY <1>2, <4>1, <5>1 DEF Rising
        <5>3. h[first] \in Nat /\ h[v] \in Nat /\ got \in Nat
          BY <1>5, <4>1
        <5>4. h[v] <= got /\ ~(h[first] <= got)
          BY <1>5, <4>1, <4>3
        <5> QED
          BY <5>2, <5>3, <5>4
      <4> QED
        BY <4>2, <4>3
    <3> QED
      BY <3>3, <3>4
  <2> QED
    BY <2>1, <2>2
<1>7. \A v : v \in 1 .. kept <=> v \in S /\ h[v] \in U
  BY <1>1, <1>6
<1> DEFINE K == 1 .. kept
           hk == [v \in K |-> h[v]]
<1>8. hk \in Bijection(K, U) /\ Rising(hk, K) /\ \A v \in K : hk[v] = h[v]
  <2>1. hk \in [K -> U] /\ \A v \in K : hk[v] = h[v]
    BY <1>7
  <2>2. \A x, y \in K : hk[x] = hk[y] => x = y
    BY <1>4, <1>7
  <2>3. \A y \in U : \E x \in K : hk[x] = y
    BY <1>4, <1>5, <1>7
  <2>4. Rising(hk, K)
    BY <1>2, <1>7 DEF Rising
  <2> QED
    BY <2>1, <2>2, <2>3, <2>4 DEF Bijection, Injection, Surjection, IsInjective
<1> HIDE DEF K, hk
<1>9. PICK entry \in Bijection(K, CountsOf(cur)) :
         Rising(entry, K) /\ \A v \in K : entry[v] = f[hk[v]]
  BY <1>3, <1>8, PairingsCompose
<1>10. \A v \in K : ledger[entry[v]].status = child.verdicts[v]
  <2> SUFFICES ASSUME NEW v \in K PROVE ledger[entry[v]].status = child.verdicts[v]
    OBVIOUS
  <2>1. v \in S /\ h[v] \in U /\ hk[v] = h[v]
    BY <1>7, <1>8 DEF K
  <2> QED
    BY <1>2, <1>3, <1>9, <2>1
<1>11. HeardSoFar(kept)
  BY <1>9, <1>10 DEF HeardSoFar, Rising, K
<1>12. got = Len(out) => kept = n
  <2> SUFFICES ASSUME got = Len(out), n # kept PROVE FALSE
    OBVIOUS
  <2>1. n \in S /\ ~(n <= kept)
    BY <1>1, <1>6
  <2> QED
    BY <1>4, <1>5, <1>6, <2>1
<1> QED
  BY <1>6, <1>11, <1>12 DEF n

(* When a child is judged that did not crash, and whose stream is whole,   *)
(* each of its verdicts has been received and counted.                     *)
LEMMA JudgedComplete ==
    IInv /\ CrashInv /\ GenuineInv /\ CountedInv /\ (JudgeSound \/ JudgeCrash)
        => \A k : k = cur => Complete(k)'
<1> SUFFICES ASSUME IInv, CrashInv, GenuineInv, CountedInv, JudgeSound \/ JudgeCrash,
                    NEW k, k = cur
             PROVE  Complete(k)'
  OBVIOUS
<1>1. pc = "judge" /\ UNCHANGED fate /\ fate[k].verdicts = child.verdicts
      /\ fate[k].status = child.status /\ ~Alive
  BY DEF JudgeSound, JudgeCrash, ghosts, GenuineInv, AccountIsOfChild, CrashInv, FateOK
<1>2. SUFFICES ASSUME fate[k].whole, ~Crashed(k), child.verdicts # <<>>
               PROVE  \/ \E kept \in 0 .. Len(child.verdicts) :
                            (fate[k].cut \/ kept = Len(child.verdicts)) /\ InOrder(k, kept)'
                      \/ fate[k].cut /\ OneFailure(k)'
  BY <1>1 DEF Complete, Crashed
<1>3. /\ Intact /\ ~view.err /\ Heard /\ Told
      /\ got = reader.sent
      /\ ~fate[k].cut => got = Len(out)
      /\ Started(got) => view.ran
      /\ Opened => Started(Len(out))
      /\ EndsStarted
  BY <1>1, <1>2 DEF CountedInv, ReadOK, HeardOK, TellInv, ToldOK, WithChild, Intact, Disconnected
<1>4. got \in Nat /\ Len(out) \in Nat /\ got <= Len(out)
  BY DEF IInv, TypeOK, StreamOK, IsStream
<1>5. IsStream(child.verdicts)
  BY DEF GenuineInv, VerdictsOK
<1>6. ASSUME Sound PROVE \E kept \in 0 .. Len(child.verdicts) :
                            (fate[k].cut \/ kept = Len(child.verdicts)) /\ InOrder(k, kept)'
  <2>1. ledger' = ledger /\ CountsOf(k)' = CountsOf(k)
    BY <1>6 DEF JudgeSound, JudgeCrash, ghosts, CountsOf
  <2>2. PICK kept \in 0 .. Len(child.verdicts) :
           (got = Len(out) => kept = Len(child.verdicts)) /\ HeardSoFar(kept)
    BY <1>3, <1>4, <1>5, HeardInOrder
  <2>3. InOrder(k, kept)'
    BY <1>1, <2>1, <2>2 DEF HeardSoFar, InOrder
  <2> QED
    BY <1>3, <2>2, <2>3
<1>7. ASSUME ~Sound PROVE fate[k].cut /\ OneFailure(k)'
  <2>1. ~view.ran /\ ~Started(got)
    BY <1>1, <1>2, <1>3, <1>7 DEF Sound, ExitOk, Crashed
  <2>2. fate[k].cut
    <3>1. Len(child.verdicts) # 0
      BY <1>2 DEF GenuineInv, VerdictsOK, IsStream
    <3>2. /\ Len(child.verdicts) = child.turn - 1 /\ child.turn \in 1 .. Len(child.runs) + 1
          /\ Len(child.runs) \in Nat
      BY LenProperties DEF CountedInv, TellInv, TurnOK
    <3>3. Opened
      BY <3>1, <3>2 DEF Opened
    <3> QED
      BY <1>3, <2>1, <3>3
  <2>3. EndsIn(got) = {}
    <3> SUFFICES ASSUME NEW m \in EndsIn(got) PROVE FALSE
      OBVIOUS
    <3>1. m \in EndsIn(Len(out)) /\ m <= got /\ m \in Nat
      BY <1>4 DEF EndsIn
    <3>2. PICK j \in 1 .. m : out[j].type = "CaseStart"
      BY <1>3, <3>1 DEF EndsStarted, Started
    <3>3. j \in 1 .. got
      BY <1>4, <3>1, <3>2
    <3> QED
      BY <2>1, <3>2, <3>3 DEF Started
  <2>4. CountsOf(k) = {}
    BY <1>3, <2>3 DEF Heard, Bijection, Surjection
  <2> DEFINE e == [of |-> cur, status |-> "Failed"]
             n == Len(ledger) + 1
  <2>5. /\ ledger \in Seq(Entry) /\ e \in Entry
        /\ Len(ledger) \in Nat /\ DOMAIN ledger = 1 .. Len(ledger)
    BY LenProperties DEF IInv, TypeOK, Entry, TestStatus
  <2>6. ~view.ended
    <3> SUFFICES ASSUME view.ended PROVE FALSE
      OBVIOUS
    <3>1. ledger # <<>> /\ Last(ledger) = [of |-> cur, status |-> view.parsed]
      BY <1>1 DEF IInv, EndedIsLast
    <3>2. Len(ledger) \in DOMAIN ledger
      BY <2>5, <3>1, EmptySeq
    <3>3. ledger[Len(ledger)].of = k
      BY <3>1 DEF Last
    <3> QED
      BY <2>4, <3>2, <3>3 DEF CountsOf
  <2>7. ledger' = Append(ledger, e)
    BY <1>7, <2>6 DEF JudgeSound, JudgeCrash, CountCrash
  <2>8. /\ DOMAIN ledger' = 1 .. n /\ ledger'[n] = e
        /\ \A m \in DOMAIN ledger : ledger'[m] = ledger[m]
    BY <2>5, <2>7, LenProperties, AppendProperties
  <2>9. \A m : m \in DOMAIN ledger' <=> m \in DOMAIN ledger \/ m = n
    BY <2>5, <2>8
  <2>10. CountsOf(k)' = {m \in DOMAIN ledger' : ledger'[m].of = k}
    BY DEF CountsOf
  <2> HIDE DEF n
  <2>11. CountsOf(k)' = {n}
    BY <2>4, <2>8, <2>9, <2>10 DEF CountsOf
  <2>12. OneFailure(k)'
    BY <2>8, <2>9, <2>11 DEF OneFailure
  <2> QED
    BY <2>2, <2>12
<1> QED
  BY <1>6, <1>7

(* The accounts of the children judged before, and the one judged now.     *)
LEMMA CompleteStep ==
    IInv /\ CrashInv /\ GenuineInv /\ CountedInv /\ [Next]_vars => EveryVerdictCounts'
<1> SUFFICES ASSUME IInv, CrashInv, GenuineInv, CountedInv, [Next]_vars PROVE EveryVerdictCounts'
  OBVIOUS
<1>1. /\ cur \in Nat \ {0} /\ IsStream(fate) /\ Len(fate) \in Nat
      /\ DOMAIN fate = 1 .. Len(fate)
      /\ \A k \in Judged : Complete(k)
  BY OneByOne DEF IInv, TypeOK, CrashInv, FateOK, IsStream, CountedInv
<1>2. EveryVerdictCounts' <=> \A k \in Judged' : Complete(k)'
  BY DEF EveryVerdictCounts, Complete, InOrder, OneFailure
<1>3. ASSUME NEW k \in Judged, fate'[k] = fate[k], k # cur \/ ledger' = ledger
      PROVE  Complete(k)'
  <2>1. CountsOf(k)' = CountsOf(k) /\ \A m \in CountsOf(k) : ledger'[m] = ledger[m]
    <3>1. CASE ledger' = ledger
      BY <3>1 DEF CountsOf
    <3>2. CASE k # cur
      BY <3>2, OthersStay
    <3> QED
      BY <1>3, <3>1, <3>2
  <2> QED
    BY <1>1, <1>3, <2>1, CompleteKept
<1>4. CASE JudgeSound \/ JudgeCrash
  <2>1. pc = "judge" /\ UNCHANGED fate /\ Len(fate) = cur
    BY <1>4 DEF JudgeSound, JudgeCrash, ghosts, CrashInv, FateOK
  <2>2. \A k \in Judged' : k = cur \/ (k \in Judged /\ k # cur)
    BY <2>1 DEF Judged
  <2>3. \A k \in Judged' : Complete(k)'
    BY <1>3, <1>4, <2>1, <2>2, JudgedComplete
  <2> QED
    BY <1>2, <2>3
<1>5. CASE Wait
  <2>1. /\ pc = "wait" /\ pc' = "judge" /\ UNCHANGED <<cur, ledger>>
        /\ fate' = Append(fate, Account) /\ Len(fate) = cur - 1
    BY <1>5 DEF Wait, Goto, CrashInv, FateOK
  <2>2. /\ IsStream(fate') /\ Len(fate') = Len(fate) + 1
        /\ \A k \in 1 .. Len(fate) : fate'[k] = fate[k]
    BY <1>1, <2>1, StreamAppend
  <2>3. \A k \in Judged' : k \in Judged /\ fate'[k] = fate[k]
    <3>1. Judged' = {k \in DOMAIN fate' : k # cur}
      BY <2>1 DEF Judged
    <3>2. Judged = 1 .. Len(fate)
      BY <1>1, <2>1 DEF Judged
    <3>3. DOMAIN fate' = 1 .. cur
      BY <1>1, <2>1, <2>2 DEF IsStream
    <3> QED
      BY <1>1, <2>1, <2>2, <3>1, <3>2, <3>3
  <2> QED
    BY <1>2, <1>3, <2>1, <2>3
<1>6. ASSUME UNCHANGED fate, pc # "judge", pc' # "judge", ledger' = ledger \/ pc = "recv"
      PROVE  EveryVerdictCounts'
  <2>1. Judged' = Judged /\ Judged = DOMAIN fate
    BY <1>6 DEF Judged
  <2>2. pc = "recv" => \A k \in Judged : k # cur
    BY <1>1, <2>1 DEF CrashInv, FateOK
  <2> QED
    BY <1>2, <1>3, <1>6, <2>1, <2>2
<1>7. CASE UNCHANGED <<pc, cur, ledger, fate>>
  <2>1. Judged' = Judged
    BY <1>7 DEF Judged
  <2> QED
    BY <1>2, <1>3, <1>7, <2>1
<1>8. CASE ChildStep \/ ReaderStep \/ Tick \/ UNCHANGED vars
  BY <1>7, <1>8 DEF ChildStep, ReaderStep, ReadChunk, ReadEof, ReadFails, Tick, vars, mainVars, ghosts
<1>9. CASE Spawn \/ SpawnFails \/ Kill \/ Finish \/ FinishFails
  BY <1>6, <1>9 DEF Spawn, SpawnFails, Kill, Finish, FinishFails, Goto, ghosts
<1>10. CASE CheckDeadline \/ ReceiveError \/ ReceiveTimeout \/ ReceiveDisconnected \/ Receive
  BY <1>6, <1>10
     DEF CheckDeadline, ReceiveError, ReceiveTimeout, ReceiveDisconnected, Receive, GiveUp, Goto,
         ghosts
<1> QED
  BY <1>4, <1>5, <1>8, <1>9, <1>10 DEF Next, MainStep, Terminated

(* No case is counted more often than its child had cases to run.          *)
LEMMA FitsStep ==
    IInv /\ GenuineInv /\ CountedInv /\ [Next]_vars => NoCaseCountedTwice'
<1> SUFFICES ASSUME IInv, GenuineInv, CountedInv, [Next]_vars PROVE NoCaseCountedTwice'
  OBVIOUS
<1>1. \A k \in DOMAIN Cases : Fits(k)
  BY OneByOne DEF CountedInv
<1>2. NoCaseCountedTwice' <=> \A k \in DOMAIN Cases : Fits(k)'
  BY DEF NoCaseCountedTwice, Fits
<1>3. \A k \in DOMAIN Cases : k # cur => Fits(k)'
  <2> SUFFICES ASSUME NEW k \in DOMAIN Cases, k # cur PROVE Fits(k)'
    OBVIOUS
  <2>1. CountsOf(k)' = CountsOf(k)
    BY OthersStay
  <2> QED
    BY <1>1, <2>1 DEF Fits
<1>4. ASSUME NEW k \in DOMAIN Cases, k = cur PROVE Fits(k)'
  <2>1. CASE ledger' = ledger
    <3>1. CountsOf(k)' = CountsOf(k)
      BY <2>1 DEF CountsOf
    <3> QED
      BY <1>1, <3>1 DEF Fits
  <2>2. CASE JudgeCrash
    BY <1>1, <1>4, <2>2, JudgeCrashFits DEF CountedInv
  <2>3. CASE Receive
    <3>1. IInv' /\ TellInv' /\ HeardOK'
      BY NextKeeps, TellStep, HeardStep
    <3>2. CurrentFits'
      BY <3>1, HeardFits, PTL
    <3> QED
      BY <1>4, <2>3, <3>2 DEF CurrentFits, Receive, Goto, WithChild
  <2>4. CASE ChildStep \/ ReaderStep \/ Tick \/ UNCHANGED vars
    BY <2>1, <2>4 DEF ChildStep, ReaderStep, ReadChunk, ReadEof, ReadFails, Tick, vars, ghosts
  <2>5. CASE Spawn \/ SpawnFails \/ Kill \/ Finish \/ FinishFails \/ Wait \/ JudgeSound
    BY <2>1, <2>5 DEF Spawn, SpawnFails, Kill, Finish, FinishFails, Wait, JudgeSound, ghosts
  <2>6. CASE CheckDeadline \/ ReceiveError \/ ReceiveTimeout \/ ReceiveDisconnected
    BY <2>1, <2>6
       DEF CheckDeadline, ReceiveError, ReceiveTimeout, ReceiveDisconnected, GiveUp, ghosts
  <2> QED
    BY <2>2, <2>3, <2>4, <2>5, <2>6 DEF Next, MainStep, Terminated
<1> QED
  BY <1>2, <1>3, <1>4

LEMMA CountedInvariance == Spec => [](GenuineInv /\ CountedInv)
<1>1. IInv /\ CrashInv /\ GenuineInv /\ CountedInv /\ [Next]_vars => GenuineInv' /\ CountedInv'
  BY GenuineStep, TellStep, HeardStep, ReadStep, CompleteStep, FitsStep DEF CountedInv
<1> QED
  BY InitGenuine, InitCounted, CrashInvariance, <1>1, PTL DEF Spec

(* However reads, deadlines and exits fall: the verdicts of a child that   *)
(* did not crash, nor close or spoil its stdout, are counted one by one; a *)
(* read error of the host's cuts off the last ones at most.                *)
THEOREM VerdictsCount == Spec => []EveryVerdictCounts
<1>1. CountedInv => EveryVerdictCounts
  BY DEF CountedInv
<1> QED
  BY CountedInvariance, <1>1, PTL

(* A child counts for no more cases than it had to run, whatever is killed *)
(* or lost and however a late crash is corrected.                          *)
THEOREM CountedOnce == Spec => []NoCaseCountedTwice
<1>1. CountedInv => NoCaseCountedTwice
  BY DEF CountedInv
<1> QED
  BY CountedInvariance, <1>1, PTL

-----------------------------------------------------------------------------
(* One child for one case: what may come on its stream, and where it is    *)
(* when something has.                                                     *)
OneCaseOK ==
    /\ "id" \in DOMAIN child
    /\ Len(child.runs) <= 1
    /\ child.id = IF Opened THEN child.runs[1] ELSE Unknown
    /\ child.closed => Opened
    /\ Opened <=> Started(Len(out))
    /\ child.turn = 1 => EndsIn(Len(out)) = {}

(* Of an event and those before it.                                        *)
InItsPlace(k) ==
    /\ out[k].type = "CaseStart" => out[k] = CaseStart(child.runs[1])
    /\ out[k].type = "CaseEnd" => out[k].id = child.runs[1]
    /\ out[k].type = "AssertFail" =>
          out[k].id = Unknown \/ (out[k].id = child.runs[1] /\ Started(k))
    /\ out[k].type = "CaseEnd" => Started(k)
    /\ \A i \in 1 .. k - 1 :
          out[i].type = out[k].type => out[k].type \notin {"CaseStart", "CaseEnd"}

OneCaseInv == OneCaseOK /\ \A k \in 1 .. Len(out) : InItsPlace(k)

(* The only case of a child starts with its CASE_START.                    *)
LEMMA OneTurn ==
    ASSUME NEW runs \in Seq(CaseIds), Len(runs) <= 1, NEW k \in 1 .. Len(runs) + 1,
           NEW t, t = Turn(runs, k)
    PROVE  /\ k <= Len(runs) => k = 1 /\ t[Len(t) - 1] = CaseStart(runs[1])
           /\ k = Len(runs) + 1 =>
                \A i \in 1 .. Len(t) : t[i].type \notin {"CaseStart", "CaseEnd", "AssertFail"}
<1> DEFINE before == SuiteBefore(runs, k)
           close == SuiteEnd(before, NoTally)
           open == SuiteStart(runs[k].suite)
           start == CaseStart(runs[k])
           body == Body(runs[k])
           done == DoneEvent(NoTally)
<1>1. close.type = "SuiteEnd" /\ done.type = "Done"
  BY DEF SuiteEnd, DoneEvent
<1>2. Len(runs) \in Nat /\ ~(k <= Len(runs) /\ k > Len(runs))
  BY LenProperties
<1>3. CASE k > Len(runs)
  <2>1. t \in {<<done>>, <<close, done>>}
    BY <1>3 DEF Turn
  <2> HIDE DEF close, done
  <2>2. CASE t = <<done>>
    BY <2>2, <1>1, <1>2, <1>3
  <2>3. CASE t = <<close, done>>
    BY <2>3, <1>1, <1>2, <1>3
  <2> QED
    BY <2>1, <2>2, <2>3
<1>4. CASE k <= Len(runs)
  <2>1. t \in {<<start, body>>, <<open, start, body>>, <<close, open, start, body>>}
    BY <1>2, <1>4 DEF Turn
  <2>2. k = 1
    BY <1>2, <1>4
  <2>3. t[Len(t) - 1] = start
    <3> HIDE DEF close, open, start, body
    <3>1. ASSUME t = <<start, body>> PROVE t[Len(t) - 1] = start
      BY <3>1
    <3>2. ASSUME t = <<open, start, body>> PROVE t[Len(t) - 1] = start
      BY <3>2
    <3>3. ASSUME t = <<close, open, start, body>> PROVE t[Len(t) - 1] = start
      BY <3>3
    <3> QED
      BY <2>1, <3>1, <3>2, <3>3
  <2> QED
    BY <1>2, <1>4, <2>2, <2>3
<1> QED
  BY <1>2, <1>3, <1>4

(* A write where nothing is spoilt, by what it adds to the stream.         *)
LEMMA QuietWrite ==
    ASSUME "noise" \notin Faults, NEW event, NEW next, Write(event, next)
    PROVE  /\ child' = next
           /\ out' = IF child.closed THEN out ELSE Append(out, event)
BY DEF Write

(* An event behind the others leaves each of them in its place.            *)
LEMMA PlacesKept ==
    ASSUME StreamOK, NEW event, out' = Append(out, event), child'.runs = child.runs,
           \A k \in 1 .. Len(out) : InItsPlace(k)
    PROVE  /\ Len(out) \in Nat /\ Len(out') = Len(out) + 1
           /\ \A k \in 1 .. Len(out) : out'[k] = out[k]
           /\ out'[Len(out) + 1] = event
           /\ \A n \in 1 .. Len(out) : Started(n)' <=> Started(n)
           /\ Started(Len(out))' <=> Started(Len(out)) \/ event.type = "CaseStart"
           /\ \A k \in 1 .. Len(out) : InItsPlace(k)'
<1>1. /\ Len(out) \in Nat /\ Len(out') = Len(out) + 1
      /\ \A k \in 1 .. Len(out) : out'[k] = out[k]
      /\ out'[Len(out) + 1] = event
  BY OutGrows
<1>2. \A n \in 1 .. Len(out) : \A k \in 1 .. n : k \in 1 .. Len(out)
  BY <1>1
<1>3. \A n \in 1 .. Len(out) : Started(n)' <=> Started(n)
  BY <1>1, <1>2 DEF Started
<1>4. Started(Len(out))' <=> Started(Len(out)) \/ event.type = "CaseStart"
  <2>1. \A k : k \in 1 .. Len(out') <=> k \in 1 .. Len(out) \/ k = Len(out) + 1
    BY <1>1
  <2> QED
    BY <1>1, <2>1 DEF Started
<1>5. ASSUME NEW k \in 1 .. Len(out) PROVE InItsPlace(k)'
  <2>1. \A i \in 1 .. k - 1 : i \in 1 .. Len(out)
    BY <1>1
  <2>2. InItsPlace(k)
    OBVIOUS
  <2> QED
    BY <1>1, <1>3, <2>1, <2>2 DEF InItsPlace
<1> QED
  BY <1>1, <1>3, <1>4, <1>5

(* The step of a child that keeps to its one case.                         *)
LEMMA OneCaseChild ==
    ASSUME "noise" \notin Faults, IInv, TurnOK, OneCaseInv, ChildStep
    PROVE  OneCaseInv'
<1> DEFINE fields == {"runs", "turn", "step", "status", "closed", "spoiled", "verdicts", "id"}
           ends == EndsIn(Len(out))
<1>1. /\ StreamOK /\ fields \subseteq DOMAIN child
      /\ child.runs \in Seq(CaseIds) /\ Len(child.runs) \in Nat /\ Len(child.runs) <= 1
      /\ child.turn \in 1 .. Len(child.runs) + 1
      /\ child.step \in Nat \ {0}
      /\ \A k \in 1 .. Len(out) : InItsPlace(k)
  <2>1. child.runs \in Seq(CaseIds) /\ Len(child.runs) \in Nat
    BY LenProperties DEF TurnOK
  <2> QED
    BY <2>1 DEF IInv, TurnOK, OneCaseInv, OneCaseOK
<1>2. /\ Len(Now) \in Nat \ {0}
      /\ child.turn <= Len(child.runs) =>
           /\ child.turn = 1 /\ Len(Now) >= 2
           /\ Now[Len(Now) - 1] = CaseStart(child.runs[1])
           /\ \A i \in 1 .. Len(Now) : /\ Now[i].type = "Body" <=> i = Len(Now)
                                       /\ Now[i].type = "CaseStart" <=> i = Len(Now) - 1
      /\ child.turn = Len(child.runs) + 1 =>
           \A i \in 1 .. Len(Now) : Now[i].type \notin {"CaseStart", "CaseEnd", "AssertFail", "Body"}
  <2>1. PICK t : t = Turn(child.runs, child.turn)
    OBVIOUS
  <2>2. /\ Len(t) \in Nat \ {0}
        /\ child.turn <= Len(child.runs) =>
             /\ Len(t) >= 2
             /\ \A i \in 1 .. Len(t) : /\ t[i].type = "Body" <=> i = Len(t)
                                       /\ t[i].type = "CaseStart" <=> i = Len(t) - 1
        /\ child.turn = Len(child.runs) + 1 => \A i \in 1 .. Len(t) : t[i].type # "Body"
    BY <1>1, <2>1, TurnShape
  <2>3. /\ child.turn <= Len(child.runs) =>
             child.turn = 1 /\ t[Len(t) - 1] = CaseStart(child.runs[1])
        /\ child.turn = Len(child.runs) + 1 =>
             \A i \in 1 .. Len(t) : t[i].type \notin {"CaseStart", "CaseEnd", "AssertFail"}
    BY <1>1, <2>1, OneTurn
  <2> QED
    BY <2>1, <2>2, <2>3 DEF Now
<1>3. CASE ChildEmit
  <2> DEFINE event == Now[child.step]
             next == [child EXCEPT !.step = @ + 1,
                        !.id = IF event.type = "CaseStart" THEN event.id ELSE @,
                        !.failing = IF event.type = "CaseStart" THEN FALSE ELSE @]
  <2>1. /\ event.type \in {"SuiteStart", "CaseStart", "SuiteEnd", "Done"} /\ Write(event, next)
        /\ child.step \in 1 .. Len(Now)
    BY <1>1, <1>2, <1>3 DEF ChildEmit, AtStep
  <2>2. /\ next.runs = child.runs /\ next.turn = child.turn
        /\ next.closed = child.closed /\ next.step = child.step + 1
        /\ next.id = IF event.type = "CaseStart" THEN event.id ELSE child.id
        /\ fields \subseteq DOMAIN next
    BY <1>1
  <2> HIDE DEF next
  <2>3. child' = next /\ out' = IF child.closed THEN out ELSE Append(out, event)
    BY <2>1, QuietWrite
  <2>4. Now' = Now
    BY <2>2, <2>3 DEF Now
  <2>5. /\ event.type = "CaseStart" =>
             /\ event = CaseStart(child.runs[1])
             /\ child.turn = 1 /\ child.turn <= Len(child.runs) /\ child.step = Len(Now) - 1
        /\ child.turn <= Len(child.runs) /\ child.step = Len(Now) - 1 => event.type = "CaseStart"
        /\ child.turn <= Len(child.runs) => child.step # Len(Now)
    BY <1>1, <1>2, <2>1
  <2>6. Opened' <=> Opened \/ event.type = "CaseStart"
    BY <1>1, <1>2, <2>2, <2>3, <2>4, <2>5 DEF Opened
  <2>7. event.type = "CaseStart" =>
            ~Opened /\ event.id = child.runs[1] /\ event = CaseStart(child.runs[1])
    BY <1>1, <1>2, <2>5 DEF Opened, CaseStart
  <2>8. /\ Opened => Started(Len(out))
        /\ ~Opened => ~Started(Len(out))
        /\ child.turn = 1 => ends = {}
        /\ child.id = IF Opened THEN child.runs[1] ELSE Unknown
        /\ child.closed => Opened
    BY DEF OneCaseInv, OneCaseOK
  <2>9. CASE child.closed
    BY <1>1, <2>2, <2>3, <2>6, <2>7, <2>8, <2>9
       DEF OneCaseInv, OneCaseOK, EndsIn, Started, InItsPlace
  <2>10. CASE ~child.closed
    <3>1. out' = Append(out, event)
      BY <2>3, <2>10
    <3>2. /\ Len(out) \in Nat /\ Len(out') = Len(out) + 1
          /\ \A k \in 1 .. Len(out) : out'[k] = out[k]
          /\ out'[Len(out) + 1] = event
          /\ Started(Len(out))' <=> Started(Len(out)) \/ event.type = "CaseStart"
          /\ \A k \in 1 .. Len(out) : InItsPlace(k)'
      BY <1>1, <2>2, <2>3, <3>1, PlacesKept
    <3>3. EndsIn(Len(out))' = ends
      BY <1>1, <2>1, <3>1, OutGrows
    <3>4. \A k : k = Len(out) + 1 => InItsPlace(k)'
      <4>1. event.type = "CaseStart" => \A i \in 1 .. Len(out) : out'[i].type # "CaseStart"
        BY <2>7, <2>8, <3>2 DEF Started
      <4> QED
        BY <2>1, <2>2, <2>3, <2>7, <3>2, <4>1 DEF InItsPlace
    <3>5. \A k \in 1 .. Len(out') : InItsPlace(k)'
      <4>1. \A k \in 1 .. Len(out') : k \in 1 .. Len(out) \/ k = Len(out) + 1
        BY <3>2
      <4> QED
        BY <3>2, <3>4, <4>1
    <3>6. OneCaseOK'
      BY <1>1, <2>2, <2>3, <2>6, <2>7, <2>8, <3>2, <3>3 DEF OneCaseOK
    <3> QED
      BY <3>5, <3>6 DEF OneCaseInv
  <2> QED
    BY <2>9, <2>10
<1>4. CASE ChildFail
  <2> DEFINE event == AssertFail(child.id)
             next == [child EXCEPT !.fails = @ + 1, !.failing = TRUE]
  <2>1. event.type = "AssertFail" /\ event.id = child.id /\ Write(event, next)
    BY <1>4 DEF ChildFail, AssertFail
  <2>2. /\ next.runs = child.runs /\ next.turn = child.turn /\ next.step = child.step
        /\ next.closed = child.closed /\ next.id = child.id
        /\ fields \subseteq DOMAIN next
    BY <1>1
  <2> HIDE DEF next, event
  <2>3. child' = next /\ out' = IF child.closed THEN out ELSE Append(out, event)
    BY <2>1, QuietWrite
  <2>4. Opened' <=> Opened
    BY <2>2, <2>3 DEF Opened, Now
  <2>5. /\ Opened <=> Started(Len(out))
        /\ child.id = IF Opened THEN child.runs[1] ELSE Unknown
    BY DEF OneCaseInv, OneCaseOK
  <2>6. CASE child.closed
    BY <1>1, <2>2, <2>3, <2>4, <2>6
       DEF OneCaseInv, OneCaseOK, EndsIn, Started, InItsPlace
  <2>7. CASE ~child.closed
    <3>1. out' = Append(out, event)
      BY <2>3, <2>7
    <3>2. /\ Len(out) \in Nat /\ Len(out') = Len(out) + 1
          /\ \A k \in 1 .. Len(out) : out'[k] = out[k]
          /\ out'[Len(out) + 1] = event
          /\ Started(Len(out))' <=> Started(Len(out)) \/ event.type = "CaseStart"
          /\ \A k \in 1 .. Len(out) : InItsPlace(k)'
      BY <1>1, <2>2, <2>3, <3>1, PlacesKept
    <3>3. EndsIn(Len(out))' = ends
      BY <1>1, <2>1, <3>1, OutGrows
    <3>4. \A k : k = Len(out) + 1 => InItsPlace(k)'
      <4>1. \A k : k = Len(out) + 1 => (Started(k)' <=> Started(Len(out)))
        <5>1. \A k : k = Len(out) + 1 => (Started(k)' <=> Started(Len(out))')
          BY <3>2
        <5> QED
          BY <2>1, <3>2, <5>1
      <4> QED
        BY <2>1, <2>2, <2>3, <2>5, <3>2, <4>1 DEF InItsPlace
    <3>5. \A k \in 1 .. Len(out') : InItsPlace(k)'
      <4>1. \A k \in 1 .. Len(out') : k \in 1 .. Len(out) \/ k = Len(out) + 1
        BY <3>2
      <4> QED
        BY <3>2, <3>4, <4>1
    <3>6. OneCaseOK'
      BY <1>1, <2>1, <2>2, <2>3, <2>4, <3>2, <3>3 DEF OneCaseInv, OneCaseOK
    <3> QED
      BY <3>5, <3>6 DEF OneCaseInv
  <2> QED
    BY <2>6, <2>7
<1>5. CASE ChildVerdict
  <2>1. PICK status \in TestStatus :
          Write(CaseEnd(child.id, status),
                [child EXCEPT !.turn = @ + 1, !.step = 1, !.failed = @ \/ status = "Failed",
                              !.verdicts = Append(@, status)])
    BY <1>5 DEF ChildVerdict, TestStatus
  <2> DEFINE event == CaseEnd(child.id, status)
             next == [child EXCEPT !.turn = @ + 1, !.step = 1, !.failed = @ \/ status = "Failed",
                                   !.verdicts = Append(@, status)]
  <2>2. /\ event.type = "CaseEnd" /\ event.id = child.id /\ Write(event, next)
        /\ child.step <= Len(Now) /\ Now[child.step].type = "Body"
    BY <1>5, <2>1 DEF ChildVerdict, CaseEnd, AtStep
  <2>3. /\ next.runs = child.runs /\ next.turn = child.turn + 1
        /\ next.closed = child.closed /\ next.id = child.id
        /\ fields \subseteq DOMAIN next
    BY <1>1
  <2> HIDE DEF next, event
  <2>4. child' = next /\ out' = IF child.closed THEN out ELSE Append(out, event)
    BY <2>2, QuietWrite
  <2>5. child.turn <= Len(child.runs) /\ child.turn = 1 /\ child.step = Len(Now)
    BY <1>1, <1>2, <2>2
  <2>6. Opened /\ Opened'
    BY <1>1, <2>3, <2>4, <2>5 DEF Opened
  <2>7. Started(Len(out)) /\ ends = {} /\ child.id = child.runs[1]
    BY <2>5, <2>6 DEF OneCaseInv, OneCaseOK
  <2>8. child'.turn # 1
    BY <2>3, <2>4, <2>5
  <2>9. CASE child.closed
    BY <1>1, <2>3, <2>4, <2>6, <2>7, <2>8, <2>9
       DEF OneCaseInv, OneCaseOK, EndsIn, Started, InItsPlace
  <2>10. CASE ~child.closed
    <3>1. out' = Append(out, event)
      BY <2>4, <2>10
    <3>2. /\ Len(out) \in Nat /\ Len(out') = Len(out) + 1
          /\ \A k \in 1 .. Len(out) : out'[k] = out[k]
          /\ out'[Len(out) + 1] = event
          /\ Started(Len(out))' <=> Started(Len(out)) \/ event.type = "CaseStart"
          /\ \A k \in 1 .. Len(out) : InItsPlace(k)'
      BY <1>1, <2>3, <2>4, <3>1, PlacesKept
    <3>3. \A k : k = Len(out) + 1 => InItsPlace(k)'
      <4>1. \A k : k = Len(out) + 1 => Started(k)'
        <5>1. \A k : k = Len(out) + 1 => (Started(k)' <=> Started(Len(out))')
          BY <3>2
        <5> QED
          BY <2>7, <3>2, <5>1
      <4>2. \A i \in 1 .. Len(out) : out'[i].type # "CaseEnd"
        BY <2>7, <3>2 DEF EndsIn
      <4> QED
        BY <2>2, <2>3, <2>4, <2>7, <3>2, <4>1, <4>2 DEF InItsPlace
    <3>4. \A k \in 1 .. Len(out') : InItsPlace(k)'
      <4>1. \A k \in 1 .. Len(out') : k \in 1 .. Len(out) \/ k = Len(out) + 1
        BY <3>2
      <4> QED
        BY <3>2, <3>3, <4>1
    <3>5. OneCaseOK'
      BY <1>1, <2>3, <2>4, <2>6, <2>7, <2>8, <3>2 DEF OneCaseOK
    <3> QED
      BY <3>4, <3>5 DEF OneCaseInv
  <2> QED
    BY <2>9, <2>10
<1>6. CASE ChildReturn \/ ChildExit \/ ChildCrash \/ ChildClose
  <2>1. /\ out' = out /\ child'.runs = child.runs /\ child'.turn = child.turn
        /\ child'.step = child.step /\ child'.id = child.id /\ "id" \in DOMAIN child'
        /\ child'.closed = child.closed \/ ChildClose
    BY <1>1, <1>6 DEF ChildReturn, ChildExit, ChildCrash, ChildClose
  <2>2. ChildClose => Opened
    BY <1>1, <1>2 DEF ChildClose, AtStep, Opened
  <2>3. Opened' <=> Opened
    BY <2>1 DEF Opened, Now
  <2> QED
    BY <2>1, <2>2, <2>3 DEF OneCaseInv, OneCaseOK, EndsIn, Started, InItsPlace
<1> QED
  BY <1>3, <1>4, <1>5, <1>6 DEF ChildStep

-----------------------------------------------------------------------------
(* The report: ReportIsOneRun of any sequence of events, and what holds of *)
(* it while a case is open.  names: the suites announced; past: the cases  *)
(* before; ran, ended: whether the case has been started, and ended.       *)
Marks == {"CaseStart", "CaseEnd", "AssertFail"}

OneRun(r) ==
    \A m, n \in DOMAIN r :
        m < n =>
        /\ ~IsTerminal(r[m])
        /\ r[n].type = "SuiteStart" => r[m] # r[n]
        /\ r[n].type = "CaseStart" => (r[m].type \in Marks => r[m].id # r[n].id)
        /\ r[n].type = "CaseEnd"
              => /\ r[m] # r[n]
                 /\ \E j \in 1..n : /\ r[j] = CaseStart(r[n].id)
                                    /\ \A i \in j + 1 .. n : r[i].type # "CaseStart"

StartedLast(r, id) ==
    \E j \in 1 .. Len(r) : /\ r[j] = CaseStart(id)
                           /\ \A i \in j + 1 .. Len(r) : r[i].type # "CaseStart"

Unfinished(r) == \A m \in 1 .. Len(r) : ~IsTerminal(r[m])

CaseOpen(r, names, past, id, ran, ended) ==
    /\ IsStream(r) /\ OneRun(r) /\ Unfinished(r)
    /\ \A m \in 1 .. Len(r) :
          /\ r[m].type = "SuiteStart" => r[m].name \in names
          /\ r[m].type \in Marks => r[m].id \in past \/ (ran /\ r[m].id = id)
          /\ r[m].type = "CaseEnd" => r[m].id # id \/ ended
    /\ ran => StartedLast(r, id)

(* One more event, that comes where it may.                                *)
LEMMA OneRunGrows ==
    ASSUME NEW r, IsStream(r), OneRun(r), Unfinished(r), NEW e,
           e.type = "SuiteStart" => \A m \in 1 .. Len(r) : r[m] # e,
           e.type = "CaseStart" =>
               \A m \in 1 .. Len(r) : r[m].type \in Marks => r[m].id # e.id,
           e.type = "CaseEnd" => StartedLast(r, e.id) /\ \A m \in 1 .. Len(r) : r[m] # e
    PROVE  OneRun(Append(r, e))
<1> DEFINE new == Append(r, e)
           last == Len(r) + 1
<1>1. /\ Len(r) \in Nat /\ DOMAIN r = 1 .. Len(r) /\ IsStream(new)
      /\ Len(new) = last /\ new[last] = e
      /\ \A k \in 1 .. Len(r) : new[k] = r[k]
  BY StreamAppend DEF IsStream
<1>2. DOMAIN new = 1 .. last
  BY <1>1 DEF IsStream
<1> HIDE DEF new
<1> SUFFICES ASSUME NEW m \in 1 .. last, NEW n \in 1 .. last, m < n
             PROVE  /\ ~IsTerminal(new[m])
                    /\ new[n].type = "SuiteStart" => new[m] # new[n]
                    /\ new[n].type = "CaseStart" =>
                          (new[m].type \in Marks => new[m].id # new[n].id)
                    /\ new[n].type = "CaseEnd"
                          => /\ new[m] # new[n]
                             /\ \E j \in 1..n : /\ new[j] = CaseStart(new[n].id)
                                                /\ \A i \in j + 1 .. n : new[i].type # "CaseStart"
  BY <1>2 DEF OneRun, new
<1>3. m \in 1 .. Len(r) /\ new[m] = r[m]
  BY <1>1
<1>4. CASE n \in 1 .. Len(r)
  <2>1. \A j \in 1 .. n : new[j] = r[j]
    BY <1>1, <1>4
  <2>2. new[n] = r[n]
    BY <1>1, <1>4
  <2>3. ASSUME r[n].type = "CaseEnd"
        PROVE  \E j \in 1..n : /\ new[j] = CaseStart(new[n].id)
                               /\ \A i \in j + 1 .. n : new[i].type # "CaseStart"
    <3>1. PICK j \in 1 .. n : /\ r[j] = CaseStart(r[n].id)
                              /\ \A i \in j + 1 .. n : r[i].type # "CaseStart"
      BY <1>1, <1>3, <1>4, <2>3 DEF OneRun
    <3>2. \A i \in j + 1 .. n : i \in 1 .. n
      OBVIOUS
    <3> QED
      BY <2>1, <2>2, <3>1, <3>2
  <2> QED
    BY <1>1, <1>3, <1>4, <2>2, <2>3 DEF OneRun
<1>5. CASE n = last
  <2>1. ASSUME e.type = "CaseEnd"
        PROVE  \E j \in 1..n : /\ new[j] = CaseStart(new[n].id)
                               /\ \A i \in j + 1 .. n : new[i].type # "CaseStart"
    <3>1. PICK j \in 1 .. Len(r) : /\ r[j] = CaseStart(e.id)
                                   /\ \A i \in j + 1 .. Len(r) : r[i].type # "CaseStart"
      BY <2>1 DEF StartedLast
    <3>2. \A i \in j + 1 .. n : i = n \/ (i \in j + 1 .. Len(r) /\ i \in 1 .. Len(r))
      BY <1>1, <1>5
    <3>3. j \in 1 .. n
      BY <1>1, <1>5
    <3> QED
      BY <1>1, <1>5, <2>1, <3>1, <3>2, <3>3
  <2> QED
    BY <1>1, <1>3, <1>5, <2>1 DEF Unfinished
<1> QED
  BY <1>1, <1>4, <1>5

(* What an appended event changes while a case is open.                    *)
LEMMA OpenGrows ==
    ASSUME NEW r, NEW names, NEW past, NEW id, NEW ran, NEW ended,
           CaseOpen(r, names, past, id, ran, ended), NEW e, ~IsTerminal(e),
           NEW names2, names \subseteq names2, NEW ran2, ran => ran2, NEW ended2, ended => ended2,
           OneRun(Append(r, e)),
           e.type = "SuiteStart" => e.name \in names2,
           e.type \in Marks => e.id \in past \/ (ran2 /\ e.id = id),
           e.type = "CaseEnd" => ended2,
           e.type = "CaseStart" => ran2 /\ e = CaseStart(id),
           ran2 => ran \/ e.type = "CaseStart"
    PROVE  CaseOpen(Append(r, e), names2, past, id, ran2, ended2)
<1> DEFINE new == Append(r, e)
           last == Len(r) + 1
<1>1. /\ Len(r) \in Nat /\ IsStream(new)
      /\ Len(new) = last /\ new[last] = e
      /\ \A k \in 1 .. Len(r) : new[k] = r[k]
  BY StreamAppend DEF CaseOpen, IsStream
<1> HIDE DEF new
<1>2. \A m \in 1 .. last : m \in 1 .. Len(r) \/ m = last
  BY <1>1
<1>3. \A m \in 1 .. last :
        /\ ~IsTerminal(new[m])
        /\ new[m].type = "SuiteStart" => new[m].name \in names2
        /\ new[m].type \in Marks => new[m].id \in past \/ (ran2 /\ new[m].id = id)
        /\ new[m].type = "CaseEnd" => new[m].id # id \/ ended2
  BY <1>1, <1>2 DEF CaseOpen, Unfinished
<1>4. ASSUME ran2 PROVE StartedLast(new, id)
  <2>1. CASE e.type = "CaseStart"
    <3>1. last \in 1 .. last /\ \A i \in last + 1 .. last : new[i].type # "CaseStart"
      BY <1>1
    <3> QED
      BY <1>1, <2>1, <3>1 DEF StartedLast
  <2>2. CASE e.type # "CaseStart"
    <3>1. PICK j \in 1 .. Len(r) : /\ r[j] = CaseStart(id)
                                   /\ \A i \in j + 1 .. Len(r) : r[i].type # "CaseStart"
      BY <1>4, <2>2 DEF CaseOpen, StartedLast
    <3>2. j \in 1 .. last /\ \A i \in j + 1 .. last : i = last \/ (i \in j + 1 .. Len(r) /\ i \in 1 .. Len(r))
      BY <1>1
    <3> QED
      BY <1>1, <2>2, <3>1, <3>2 DEF StartedLast
  <2> QED
    BY <2>1, <2>2
<1> QED
  BY <1>1, <1>3, <1>4 DEF CaseOpen, Unfinished, new

(* CASE_START of a case that no event has named before.                    *)
LEMMA OpenStart ==
    ASSUME NEW r, NEW names, NEW past, NEW id, id \notin past,
           CaseOpen(r, names, past, id, FALSE, FALSE)
    PROVE  CaseOpen(Append(r, CaseStart(id)), names, past, id, TRUE, FALSE)
<1> DEFINE e == CaseStart(id)
<1>1. e.type = "CaseStart" /\ e.id = id /\ ~IsTerminal(e)
  BY DEF CaseStart, IsTerminal
<1>2. OneRun(Append(r, e))
  <2> HIDE DEF e
  <2>1. /\ IsStream(r) /\ OneRun(r) /\ Unfinished(r)
        /\ \A m \in 1 .. Len(r) : r[m].type \in Marks => r[m].id # e.id
    BY <1>1 DEF CaseOpen
  <2> QED
    BY <1>1, <2>1, OneRunGrows
<1> QED
  BY <1>1, <1>2, OpenGrows

(* ASSERT_FAIL of the open case, or of an earlier one.                     *)
LEMMA OpenFail ==
    ASSUME NEW r, NEW names, NEW past, NEW id, NEW ran, NEW ended,
           CaseOpen(r, names, past, id, ran, ended),
           NEW e, e.type = "AssertFail", e.id \in past \/ (ran /\ e.id = id)
    PROVE  CaseOpen(Append(r, e), names, past, id, ran, ended)
<1>1. ~IsTerminal(e)
  BY DEF IsTerminal
<1>2. OneRun(Append(r, e))
  BY OneRunGrows DEF CaseOpen
<1> QED
  BY <1>1, <1>2, OpenGrows

(* CASE_END of the open case, the first.                                   *)
LEMMA OpenEnd ==
    ASSUME NEW r, NEW names, NEW past, NEW id,
           CaseOpen(r, names, past, id, TRUE, FALSE),
           NEW e, e.type = "CaseEnd", e.id = id
    PROVE  CaseOpen(Append(r, e), names, past, id, TRUE, TRUE)
<1>1. ~IsTerminal(e)
  BY DEF IsTerminal
<1>2. OneRun(Append(r, e))
  <2>1. \A m \in 1 .. Len(r) : r[m] # e
    BY DEF CaseOpen
  <2> QED
    BY <2>1, OneRunGrows DEF CaseOpen
<1> QED
  BY <1>1, <1>2, OpenGrows

(* SUITE_START of a suite that was not announced before.                   *)
LEMMA OpenSuite ==
    ASSUME NEW r, NEW names, NEW past, NEW id, NEW ran, NEW ended,
           CaseOpen(r, names, past, id, ran, ended),
           NEW e, e.type = "SuiteStart"
    PROVE  CaseOpen(IF e.name \in names THEN r ELSE Append(r, e), names \cup {e.name},
                    past, id, ran, ended)
<1>1. CASE e.name \in names
  <2>1. names \cup {e.name} = names
    BY <1>1
  <2> QED
    BY <1>1, <2>1
<1>2. CASE e.name \notin names
  <2>1. ~IsTerminal(e)
    BY DEF IsTerminal
  <2>2. \A m \in 1 .. Len(r) : r[m] # e
    BY <1>2 DEF CaseOpen
  <2>3. OneRun(Append(r, e))
    BY <2>2, OneRunGrows DEF CaseOpen
  <2>4. CaseOpen(Append(r, e), names \cup {e.name}, past, id, ran, ended)
    BY <2>1, <2>3, OpenGrows DEF Marks
  <2> QED
    BY <1>2, <2>4
<1> QED
  BY <1>1, <1>2

(* The case that is over, and the next.                                    *)
LEMMA OpenNext ==
    ASSUME NEW r, NEW names, NEW past, NEW id, NEW ran, NEW ended,
           CaseOpen(r, names, past, id, ran, ended),
           NEW id2, id2 \notin past, id2 # id
    PROVE  CaseOpen(r, names, past \cup {id}, id2, FALSE, FALSE)
BY DEF CaseOpen, Marks

-----------------------------------------------------------------------------
(* One child for one case, in every step.                                  *)
LEMMA OneCaseSpawn ==
    ASSUME OwnCases, IInv, GenuineInv, CountedInv, Spawn
    PROVE  OneCaseInv'
<1>1. pc = "spawn" /\ out' = <<>> /\ child' = NewChild(cur)
  BY DEF Spawn
<1>2. /\ child'.runs = Runs[cur] /\ child'.turn = 1 /\ child'.id = Unknown
      /\ child'.closed = FALSE /\ child'.spoiled = 0 /\ "id" \in DOMAIN child'
  BY <1>1 DEF NewChild
<1>3. cur \in DOMAIN Cases
  BY <1>1 DEF CountedInv, ReadOK, WithChild
<1>4. Len(child'.runs) <= 1
  <2>1. child'.runs = <<>> \/ child'.runs = <<Cases[cur]>>
    BY <1>2, <1>3 DEF OwnCases
  <2>2. \A x, r : r = <<>> \/ r = <<x>> => Len(r) <= 1
    OBVIOUS
  <2> QED
    BY <2>1, <2>2
<1>5. Len(out') = 0 /\ EndsIn(Len(out))' = {} /\ ~Started(Len(out))'
  BY <1>1 DEF EndsIn, Started
<1>6. ~Opened'
  <2>1. TellInv'
    BY SpawnTells
  <2> QED
    BY <1>2, <1>5, <2>1 DEF TellInv, ToldOK, Intact
<1> QED
  BY <1>2, <1>4, <1>5, <1>6 DEF OneCaseInv, OneCaseOK

LEMMA OneCaseStep ==
    ASSUME OwnCases, "noise" \notin Faults,
           IInv, GenuineInv, CountedInv, OneCaseInv, [Next]_vars
    PROVE  OneCaseInv'
<1>1. TurnOK
  BY DEF CountedInv, TellInv
<1>2. ASSUME UNCHANGED out, "id" \in DOMAIN child',
             child'.runs = child.runs, child'.turn = child.turn, child'.step = child.step,
             child'.id = child.id, child'.closed = child.closed
      PROVE  OneCaseInv'
  <2>1. (Opened' <=> Opened) /\ EndsIn(Len(out))' = EndsIn(Len(out))
        /\ (Started(Len(out))' <=> Started(Len(out)))
    BY <1>2 DEF Opened, Now, EndsIn, Started
  <2>2. \A k \in 1 .. Len(out) : InItsPlace(k)'
    BY <1>2 DEF OneCaseInv, InItsPlace, Started
  <2> QED
    BY <1>2, <2>1, <2>2 DEF OneCaseInv, OneCaseOK
<1>3. CASE ChildStep
  BY <1>1, <1>3, OneCaseChild
<1>4. CASE Spawn
  BY <1>4, OneCaseSpawn
<1>5. CASE UNCHANGED <<child, out>>
  BY <1>2, <1>5 DEF OneCaseInv, OneCaseOK
<1>6. CASE Kill
  <2>1. /\ UNCHANGED out /\ "id" \in DOMAIN child'
        /\ child'.runs = child.runs /\ child'.turn = child.turn /\ child'.step = child.step
        /\ child'.id = child.id /\ child'.closed = child.closed
    BY <1>1, <1>6 DEF Kill, TurnOK, OneCaseInv, OneCaseOK
  <2> QED
    BY <1>2, <2>1
<1>7. CASE ReaderStep \/ Tick \/ UNCHANGED vars
  BY <1>5, <1>7 DEF ReaderStep, ReadChunk, ReadEof, ReadFails, Tick, vars, childVars
<1>8. CASE SpawnFails \/ CheckDeadline \/ ReceiveError \/ ReceiveTimeout \/ ReceiveDisconnected
  BY <1>5, <1>8
     DEF childVars, SpawnFails, CheckDeadline, ReceiveError, ReceiveTimeout, ReceiveDisconnected, GiveUp
<1>9. CASE Receive \/ Wait \/ JudgeSound \/ JudgeCrash \/ Finish \/ FinishFails
  BY <1>5, <1>9 DEF childVars, Receive, Wait, JudgeSound, JudgeCrash, Finish, FinishFails
<1> QED
  BY <1>3, <1>4, <1>6, <1>7, <1>8, <1>9 DEF Next, MainStep, Terminated

-----------------------------------------------------------------------------
(* The report and the child together.                                      *)
Past == {Unknown} \cup {Cases[j] : j \in 1 .. cur - 1}

ReportInv ==
    /\ IsStream(report) /\ OneRun(report)
    /\ pc \in WithChild =>
          /\ CaseOpen(report, seenSuites, Past, Cases[cur], view.ran, view.ended)
          /\ view.ended => view.ran
          /\ view.ran => Started(got)
          /\ view.ended => EndsIn(got) # {}
    /\ pc = "spawn" => CaseOpen(report, seenSuites, Past, Cases[cur], FALSE, FALSE)
    /\ pc = "finish" => Unfinished(report)

(* The case to come is none of those before.                               *)
LEMMA CaseIsNew ==
    ASSUME OwnCases, IInv, ReadOK, pc \in WithChild \cup {"spawn"}
    PROVE  cur \in DOMAIN Cases /\ Cases[cur] \notin Past
<1>1. cur \in DOMAIN Cases /\ cur \in Nat /\ DOMAIN Cases = 1 .. Len(Cases) /\ Len(Cases) \in Nat
  BY RunAssumption, LenProperties DEF IInv, TypeOK, ReadOK
<1>2. \A j \in 1 .. cur - 1 : j \in DOMAIN Cases /\ j # cur
  BY <1>1
<1> QED
  BY <1>1, <1>2 DEF OwnCases, Past

(* The next event, where it stands in the stream of the child.             *)
LEMMA NextInItsPlace ==
    ASSUME OwnCases, IInv, HeardOK, ReadOK, TurnOK, OneCaseInv, ReportInv, Receive,
           NEW e, e = out[got + 1]
    PROVE  /\ e.type = "CaseStart" => /\ e = CaseStart(Cases[cur])
                                      /\ ~view.ran /\ ~view.ended
                                      /\ Started(got + 1)
           /\ e.type = "AssertFail" => e.id = Unknown \/ (e.id = Cases[cur] /\ view.ran)
           /\ e.type = "CaseEnd" => /\ e.id = Cases[cur] /\ view.ran /\ ~view.ended
                                    /\ EndsIn(got + 1) # {}
           /\ Started(got) => Started(got + 1)
           /\ EndsIn(got) # {} => EndsIn(got + 1) # {}
<1>1. /\ pc = "recv" /\ pc \in WithChild /\ got \in Nat /\ Len(out) \in Nat /\ got + 1 \in 1 .. Len(out)
  <2>1. got \in Nat /\ got < reader.sent /\ reader.sent \in Nat
        /\ reader.sent <= Len(out) /\ Len(out) \in Nat
    BY DEF IInv, TypeOK, Receive, StreamOK, IsStream
  <2> QED
    BY <2>1 DEF Receive, WithChild
<1>2. InItsPlace(got + 1)
  BY <1>1 DEF OneCaseInv
<1>3. \A k : k \in 1 .. got + 1 <=> k \in 1 .. got \/ k = got + 1
  BY <1>1
<1>4. got + 1 - 1 = got
  BY <1>1
<1>5. Started(got + 1) <=> Started(got) \/ e.type = "CaseStart"
  BY <1>3 DEF Started
<1>6. ASSUME Started(got + 1) PROVE child.runs[1] = Cases[cur]
  <2>1. Started(Len(out))
    BY <1>1, <1>6 DEF Started
  <2>2. Opened /\ child.runs \in Seq(CaseIds) /\ child.turn \in 1 .. Len(child.runs) + 1
    BY <2>1 DEF OneCaseInv, OneCaseOK, TurnOK
  <2>3. Len(child.runs) \in Nat /\ Len(child.runs) # 0
    <3>1. Len(child.runs) \in Nat
      BY <2>2, LenProperties
    <3> QED
      BY <2>2, <3>1 DEF Opened
  <2>4. cur \in DOMAIN Cases /\ child.runs = Runs[cur]
    BY <1>1 DEF HeardOK, ReadOK
  <2>5. child.runs \in {<<>>, <<Cases[cur]>>}
    BY <2>4 DEF OwnCases
  <2> QED
    BY <2>3, <2>5
<1>7. e.type = "CaseStart" => ~Started(got)
  <2>1. \A i \in 1 .. got : out[i].type = e.type => e.type \notin {"CaseStart", "CaseEnd"}
    BY <1>1, <1>2, <1>4 DEF InItsPlace
  <2> QED
    BY <2>1 DEF Started
<1>8. e.type = "CaseEnd" => EndsIn(got) = {}
  <2>1. \A i \in 1 .. got : out[i].type = e.type => e.type \notin {"CaseStart", "CaseEnd"}
    BY <1>1, <1>2, <1>4 DEF InItsPlace
  <2> QED
    BY <2>1 DEF EndsIn
<1>9. EndsIn(got) \subseteq EndsIn(got + 1) /\ (e.type = "CaseEnd" => got + 1 \in EndsIn(got + 1))
  BY <1>3 DEF EndsIn
<1>10. /\ view.ran <=> Started(got)
       /\ view.ended => view.ran /\ EndsIn(got) # {}
  BY <1>1 DEF ReportInv, HeardOK
<1>11. /\ e.type = "CaseStart" => e = CaseStart(child.runs[1])
       /\ e.type = "CaseEnd" => e.id = child.runs[1]
       /\ e.type = "AssertFail" => e.id = Unknown \/ (e.id = child.runs[1] /\ Started(got + 1))
       /\ e.type = "CaseEnd" => Started(got + 1)
  BY <1>2 DEF InItsPlace
<1> QED
  BY <1>5, <1>6, <1>7, <1>8, <1>9, <1>10, <1>11

(* An event is received and, if it is one for them, given to the reporters. *)
LEMMA ReportReceive ==
    ASSUME OwnCases, IInv, HeardOK, ReadOK, TurnOK, OneCaseInv, ReportInv, Receive
    PROVE  ReportInv'
<1> DEFINE e == out[got + 1]
           case == Cases[cur]
           past == Past
<1>1. /\ pc \in WithChild /\ pc' = "check" /\ pc' \in WithChild
      /\ UNCHANGED <<cur, out>> /\ got' = got + 1 /\ Handle(e)
      /\ "ran" \in DOMAIN view /\ "ended" \in DOMAIN view /\ view.ran \in BOOLEAN /\ view.ended \in BOOLEAN
  BY DEF Receive, Goto, childVars, WithChild, IInv, TypeOK
<1>2. /\ case \notin past /\ Unknown \in past /\ Past' = past
      /\ CaseOpen(report, seenSuites, past, case, view.ran, view.ended)
      /\ view.ended => view.ran
      /\ view.ran => Started(got)
      /\ view.ended => EndsIn(got) # {}
  BY <1>1, CaseIsNew DEF ReportInv, Past
<1>3. /\ e.type = "CaseStart" => /\ e = CaseStart(case) /\ ~view.ran /\ ~view.ended
                                 /\ Started(got + 1)
      /\ e.type = "AssertFail" => e.id = Unknown \/ (e.id = case /\ view.ran)
      /\ e.type = "CaseEnd" => /\ e.id = case /\ view.ran /\ ~view.ended
                               /\ EndsIn(got + 1) # {}
      /\ Started(got) => Started(got + 1)
      /\ EndsIn(got) # {} => EndsIn(got + 1) # {}
  BY NextInItsPlace
<1>4. (Started(got)' <=> Started(got + 1)) /\ EndsIn(got)' = EndsIn(got + 1)
  BY <1>1 DEF Started, EndsIn
<1> HIDE DEF e, case, past
<1>5. SUFFICES /\ CaseOpen(report', seenSuites', past, case, view'.ran, view'.ended)
               /\ view'.ended => view'.ran
               /\ view'.ran => Started(got + 1)
               /\ view'.ended => EndsIn(got + 1) # {}
  BY <1>1, <1>2, <1>4 DEF ReportInv, WithChild, CaseOpen, case
<1>6. CASE e.type = "SuiteStart" /\ OnSuiteStart(e)
  <2>1. /\ UNCHANGED view /\ seenSuites' = seenSuites \cup {e.name}
        /\ report' = IF e.name \in seenSuites THEN report ELSE Append(report, e)
    BY <1>6 DEF OnSuiteStart
  <2>2. CaseOpen(report', seenSuites', past, case, view.ran, view.ended)
    BY <1>2, <1>6, <2>1, OpenSuite
  <2> QED
    BY <1>2, <1>3, <2>1, <2>2
<1>7. CASE e.type = "CaseStart" /\ OnCaseStart(e)
  <2>1. /\ view'.ran = TRUE /\ view'.ended = view.ended /\ UNCHANGED seenSuites
        /\ report' = Append(report, e) /\ view.ran = FALSE /\ view.ended = FALSE
    BY <1>1, <1>3, <1>7 DEF OnCaseStart
  <2>2. CaseOpen(report', seenSuites', past, case, TRUE, FALSE)
    BY <1>2, <1>3, <1>7, <2>1, OpenStart
  <2> QED
    BY <1>3, <1>7, <2>1, <2>2
<1>8. CASE e.type = "AssertFail" /\ OnAssertFail(e)
  <2>1. UNCHANGED <<view, seenSuites>> /\ report' = Append(report, e)
    BY <1>8 DEF OnAssertFail
  <2>2. CaseOpen(report', seenSuites', past, case, view.ran, view.ended)
    BY <1>2, <1>3, <1>8, <2>1, OpenFail
  <2> QED
    BY <1>2, <1>3, <2>1, <2>2
<1>9. CASE e.type = "CaseEnd" /\ OnCaseEnd(e)
  <2>1. /\ view'.ran = view.ran /\ view'.ended = TRUE /\ UNCHANGED seenSuites
        /\ report' = Append(report, e) /\ view.ran = TRUE /\ view.ended = FALSE
    BY <1>1, <1>3, <1>9 DEF OnCaseEnd
  <2>2. CaseOpen(report', seenSuites', past, case, TRUE, TRUE)
    BY <1>2, <1>3, <1>9, <2>1, OpenEnd
  <2> QED
    BY <1>2, <1>3, <1>9, <2>1, <2>2
<1>10. CASE UNCHANGED <<view, seenSuites, report>>
  BY <1>2, <1>3, <1>10
<1> QED
  BY <1>1, <1>6, <1>7, <1>8, <1>9, <1>10 DEF Handle

(* A stream with one more event, written as a concatenation.               *)
LEMMA StreamConcat ==
    ASSUME NEW r, IsStream(r), NEW e
    PROVE  r \o <<e>> = Append(r, e) /\ r \o <<>> = r
<1> DEFINE S == {r[k] : k \in 1 .. Len(r)} \cup {e}
<1>1. r \in [1 .. Len(r) -> S] /\ Len(r) \in Nat
  BY DEF IsStream
<1>2. r \in Seq(S) /\ e \in S
  BY <1>1, SeqDef
<1> HIDE DEF S
<1> QED
  BY <1>2, AppendIsConcat, ConcatEmptySeq

(* The judgement after a crash completes the case in the report, whatever   *)
(* part of it the child had sent.                                          *)
LEMMA ReportCrash ==
    ASSUME OwnCases, IInv, ReadOK, ReportInv, JudgeCrash
    PROVE  CaseOpen(report', seenSuites, Past, Cases[cur], TRUE, TRUE)
<1> DEFINE case == Cases[cur]
           fail == AssertFail(case)
           end == CaseEnd(case, "Failed")
           r1 == IF view.ran THEN report ELSE Append(report, CaseStart(case))
           r2 == Append(r1, fail)
           r3 == IF view.ended THEN r2 ELSE Append(r2, end)
<1>1. /\ pc = "judge" /\ pc \in WithChild /\ view.ran \in BOOLEAN /\ view.ended \in BOOLEAN
  BY DEF JudgeCrash, WithChild, IInv, TypeOK
<1>2. /\ case \notin Past
      /\ CaseOpen(report, seenSuites, Past, case, view.ran, view.ended)
      /\ view.ended => view.ran
  BY <1>1, CaseIsNew DEF ReportInv
<1>3. CaseOpen(r1, seenSuites, Past, case, TRUE, view.ended)
  <2>1. CASE view.ran
    BY <1>1, <1>2, <2>1
  <2>2. CASE ~view.ran
    <3>1. view.ran = FALSE /\ view.ended = FALSE
      BY <1>1, <1>2, <2>2
    <3> HIDE DEF case
    <3> QED
      BY <1>2, <3>1, OpenStart
  <2> QED
    BY <2>1, <2>2
<1>4. CaseOpen(r2, seenSuites, Past, case, TRUE, view.ended)
  <2>1. fail.type = "AssertFail" /\ fail.id = case
    BY DEF AssertFail
  <2> HIDE DEF r1, fail, case
  <2> QED
    BY <1>3, <2>1, OpenFail
<1>5. CaseOpen(r3, seenSuites, Past, case, TRUE, TRUE)
  <2>1. end.type = "CaseEnd" /\ end.id = case
    BY DEF CaseEnd
  <2> HIDE DEF r2, end, case
  <2>2. CASE view.ended
    BY <1>1, <1>4, <2>2
  <2>3. CASE ~view.ended
    <3>1. view.ended = FALSE
      BY <1>1, <2>3
    <3> QED
      BY <1>4, <2>1, <3>1, OpenEnd
  <2> QED
    BY <2>2, <2>3
<1>6. report' = r3
  <2>1. IsStream(report) /\ IsStream(r1) /\ IsStream(r2)
    BY <1>2, <1>3, <1>4 DEF CaseOpen
  <2> DEFINE opening == IF view.ran THEN <<>> ELSE <<CaseStart(case)>>
             closing == IF view.ended THEN <<>> ELSE <<end>>
  <2>2. report' = report \o opening \o <<fail>> \o closing
    BY DEF JudgeCrash
  <2> HIDE DEF case, fail, end
  <2>3. report \o opening = r1
    BY <2>1, StreamConcat
  <2> HIDE DEF r1
  <2>4. r1 \o <<fail>> = r2
    BY <2>1, StreamConcat
  <2> HIDE DEF r2
  <2>5. r2 \o closing = r3
    BY <2>1, StreamConcat
  <2> HIDE DEF r3, opening, closing
  <2> QED
    BY <2>2, <2>3, <2>4, <2>5
<1> QED
  BY <1>5, <1>6

(* Every step keeps the report that of one run.                            *)
LEMMA ReportStep ==
    ASSUME OwnCases, IInv, CrashInv, GenuineInv, CountedInv, OneCaseInv, ReportInv, [Next]_vars
    PROVE  ReportInv'
<1>1. HeardOK /\ ReadOK /\ TurnOK /\ cur \in Nat \ {0}
  BY DEF CountedInv, TellInv, IInv, TypeOK
<1>2. ASSUME UNCHANGED <<cur, seenSuites, report, got>>, pc \in WithChild, pc' \in WithChild,
             view'.ran = view.ran, view'.ended = view.ended,
             Started(got) => Started(got)', EndsIn(got)' = EndsIn(got)
      PROVE  ReportInv'
  <2>1. Past' = Past
    BY <1>2 DEF Past
  <2> QED
    BY <1>2, <2>1 DEF ReportInv, WithChild
<1>3. CASE UNCHANGED <<mainVars, got>> /\ (UNCHANGED out \/ ChildStep)
  <2>1. pc \in WithChild => (Started(got) => Started(got)')
    BY <1>1, <1>3, ChildGoesOn, ReceivedStays DEF Started
  <2>2. pc \in WithChild => EndsIn(got)' = EndsIn(got)
    BY <1>1, <1>3, ChildGoesOn, ReceivedStays DEF EndsIn
  <2>3. CASE pc \in WithChild
    BY <1>2, <1>3, <2>1, <2>2, <2>3 DEF mainVars
  <2>4. CASE pc \notin WithChild
    <3>1. Past' = Past
      BY <1>3 DEF Past, mainVars
    <3> QED
      BY <1>3, <2>4, <3>1 DEF ReportInv, mainVars
  <2> QED
    BY <2>3, <2>4
<1>4. CASE ChildStep
  <2>1. UNCHANGED <<mainVars, got>>
    BY <1>1, <1>4, ChildGoesOn DEF readerVars
  <2> QED
    BY <1>3, <1>4, <2>1
<1>5. CASE ReaderStep \/ Tick \/ UNCHANGED vars
  <2>1. UNCHANGED <<mainVars, got, out>>
    BY <1>5
       DEF ReaderStep, ReadChunk, ReadEof, ReadFails, Tick, vars, childVars, readerVars
  <2> QED
    BY <1>3, <2>1
<1>6. CASE Spawn
  <2>1. /\ pc = "spawn" /\ pc' = "check" /\ UNCHANGED <<cur, seenSuites, report>>
        /\ view'.ran = FALSE /\ view'.ended = FALSE
    BY <1>6 DEF Spawn, Goto, FreshView
  <2>2. Past' = Past
    BY <2>1 DEF Past
  <2> QED
    BY <2>1, <2>2 DEF ReportInv, WithChild
<1>7. CASE CheckDeadline \/ ReceiveError \/ ReceiveTimeout \/ ReceiveDisconnected \/ Kill \/ Wait
  <2>1. /\ UNCHANGED <<cur, seenSuites, report, got, out>>
        /\ pc \in WithChild /\ pc' \in WithChild
        /\ view'.ran = view.ran /\ view'.ended = view.ended
    BY <1>7
       DEF CheckDeadline, ReceiveError, ReceiveTimeout, ReceiveDisconnected, Kill, Wait, GiveUp,
           Goto, childVars, readerVars, WithChild, IInv, TypeOK
  <2>2. (Started(got) => Started(got)') /\ EndsIn(got)' = EndsIn(got)
    BY <2>1 DEF Started, EndsIn
  <2> QED
    BY <1>2, <2>1, <2>2
<1>8. CASE Receive
  BY <1>1, <1>8, ReportReceive
<1>9. ASSUME pc = "judge", UNCHANGED seenSuites, NEW ran, NEW ended,
             CaseOpen(report', seenSuites, Past, Cases[cur], ran, ended),
             \/ pc' = "finish"
             \/ pc' = "spawn" /\ cur' = cur + 1
      PROVE  ReportInv'
  <2>1. CASE pc' = "finish"
    BY <1>9, <2>1 DEF ReportInv, CaseOpen, WithChild
  <2>2. CASE pc' = "spawn" /\ cur' = cur + 1
    <3>1. Past' = Past \cup {Cases[cur]}
      <4>1. \A j : j \in 1 .. cur' - 1 <=> j \in 1 .. cur - 1 \/ j = cur
        BY <1>1, <2>2
      <4> QED
        BY <4>1 DEF Past
    <3>2. Cases[cur'] \notin Past'
      <4>1. cur' \in DOMAIN Cases
        <5>1. ReadOK' /\ DOMAIN Cases = 1 .. Len(Cases)
          BY ReadStep, LenProperties, RunAssumption
        <5> QED
          BY <2>2, <5>1 DEF ReadOK
      <4>2. cur \in Nat /\ cur' = cur + 1 /\ DOMAIN Cases = 1 .. Len(Cases) /\ Len(Cases) \in Nat
        BY <1>1, <2>2, LenProperties, RunAssumption
      <4>3. \A j \in 1 .. cur : j \in DOMAIN Cases /\ j # cur'
        BY <4>1, <4>2
      <4>4. \A j \in 1 .. cur : Cases[j] # Cases[cur']
        BY <4>1, <4>3 DEF OwnCases
      <4>5. Past' = {Unknown} \cup {Cases[j] : j \in 1 .. cur' - 1} /\ Cases[cur'] # Unknown
        BY <4>1 DEF Past, OwnCases
      <4>6. 1 .. cur' - 1 = 1 .. cur
        BY <4>2
      <4> QED
        BY <4>4, <4>5, <4>6
    <3>3. CaseOpen(report', seenSuites, Past', Cases[cur'], FALSE, FALSE)
      BY <1>9, <3>1, <3>2, OpenNext
    <3> QED
      BY <1>9, <2>2, <3>3 DEF ReportInv, CaseOpen, WithChild
  <2> QED
    BY <1>9, <2>1, <2>2
<1>10. CASE JudgeSound
  <2>1. pc = "judge" /\ UNCHANGED <<seenSuites, report>>
        /\ (pc' = "finish" \/ (pc' = "spawn" /\ cur' = cur + 1))
    BY <1>10 DEF JudgeSound, NextCase, Goto
  <2>2. CaseOpen(report, seenSuites, Past, Cases[cur], view.ran, view.ended)
    BY <2>1 DEF ReportInv, WithChild
  <2> QED
    BY <1>9, <2>1, <2>2
<1>11. CASE JudgeCrash
  <2>1. pc = "judge" /\ UNCHANGED seenSuites
        /\ (pc' = "finish" \/ (pc' = "spawn" /\ cur' = cur + 1))
    BY <1>11 DEF JudgeCrash, NextCase, Goto
  <2> QED
    BY <1>1, <1>9, <1>11, <2>1, ReportCrash
<1>12. CASE SpawnFails \/ Finish \/ FinishFails
  <2>1. /\ pc' \in {"exit", "bailed"}
        /\ \/ report' = report
           \/ pc = "finish" /\ report' = Append(report, DoneEvent(tally))
    BY <1>12 DEF SpawnFails, Finish, FinishFails, Goto
  <2>2. IsStream(report') /\ OneRun(report')
    <3>1. CASE report' = report
      BY <3>1 DEF ReportInv
    <3>2. CASE pc = "finish" /\ report' = Append(report, DoneEvent(tally))
      <4> DEFINE e == DoneEvent(tally)
      <4>1. e.type = "Done"
        BY DEF DoneEvent
      <4>2. IsStream(report) /\ OneRun(report) /\ Unfinished(report)
        BY <3>2 DEF ReportInv
      <4> HIDE DEF e
      <4> QED
        BY <3>2, <4>1, <4>2, StreamAppend, OneRunGrows DEF e
    <3> QED
      BY <2>1, <3>1, <3>2
  <2> QED
    BY <2>1, <2>2 DEF ReportInv, WithChild
<1> QED
  BY <1>4, <1>5, <1>6, <1>7, <1>8, <1>10, <1>11, <1>12 DEF Next, MainStep, Terminated

(* Before the first child nothing is reported.                             *)
LEMMA InitReport == ASSUME OwnCases, Init PROVE OneCaseInv /\ ReportInv
<1>1. /\ pc \in {"spawn", "bailed"} /\ report = <<>> /\ out = <<>>
      /\ child.runs = <<>> /\ child.turn = 1 /\ child.id = Unknown /\ child.closed = FALSE
      /\ "id" \in DOMAIN child
  BY DEF Init
<1>2. Len(out) = 0 /\ Len(report) = 0 /\ DOMAIN report = {} /\ Len(child.runs) = 0
  BY <1>1
<1>3. ~Opened /\ ~Started(Len(out)) /\ EndsIn(Len(out)) = {}
  BY <1>1, <1>2 DEF Opened, Started, EndsIn
<1>4. OneCaseInv
  BY <1>1, <1>2, <1>3 DEF OneCaseInv, OneCaseOK
<1>5. IsStream(report) /\ OneRun(report) /\ Unfinished(report)
  BY <1>1, <1>2 DEF IsStream, OneRun, Unfinished
<1>6. ReportInv
  BY <1>1, <1>2, <1>5 DEF ReportInv, CaseOpen, WithChild
<1> QED
  BY <1>4, <1>6

(* Whatever a child did before it was killed, crashed or stopped, and      *)
(* whatever part of it was received in time: with the events made up for   *)
(* it the reporters are told of one well-formed run.                       *)
THEOREM ReportReadsAsOneRun ==
    ASSUME OwnCases, "noise" \notin Faults
    PROVE  Spec => []ReportIsOneRun
<1>1. Init => OneCaseInv /\ ReportInv
  BY InitReport
<1>2. IInv /\ CrashInv /\ GenuineInv /\ CountedInv /\ OneCaseInv /\ ReportInv /\ [Next]_vars
        => OneCaseInv' /\ ReportInv'
  BY OneCaseStep, ReportStep
<1>3. ReportInv => ReportIsOneRun
  BY DEF ReportInv, OneRun, ReportIsOneRun, Marks
<1> QED
  BY <1>1, <1>2, <1>3, CrashInvariance, CountedInvariance, PTL DEF Spec

-----------------------------------------------------------------------------
(* What the reporters keep is a fold over the events.  Solves says that f  *)
(* is the function by which the fold is defined, for all parts of s.       *)
Solves(f, s) ==
    f = [x \in SUBSET DOMAIN s |->
            IF x = {} THEN NothingShown ELSE OnEvent(f[x \ {Max(x)}], s[Max(x)])]

LEMMA SolvesAt ==
    ASSUME NEW f, NEW s, Solves(f, s), NEW x \in SUBSET DOMAIN s
    PROVE  f[x] = IF x = {} THEN NothingShown ELSE OnEvent(f[x \ {Max(x)}], s[Max(x)])
BY DEF Solves

LEMMA ShownIs ==
    ASSUME NEW s
    PROVE  Shown(s) = (CHOOSE f : Solves(f, s))[DOMAIN s]
BY DEF Shown, Solves, NothingShown, FoldLeft, MapThenFoldSet

(* Max is the greatest of some of the numbers up to n.                     *)
LEMMA MaxIsGreatest ==
    ASSUME NEW n \in Nat, NEW S, S \subseteq 1 .. n, S # {}
    PROVE  Max(S) \in S /\ \A y \in S : y <= Max(S)
<1> DEFINE Above == {m \in 1 .. n : \A y \in S : y <= m}
<1>1. n \in Above /\ Above \subseteq Nat
  <2>1. \A y \in S : y <= n
    OBVIOUS
  <2>2. PICK y \in S : y \in 1 .. n
    OBVIOUS
  <2>3. n \in 1 .. n
    BY <2>2
  <2> QED
    BY <2>1, <2>3
<1>2. PICK k \in Above : \A m \in Above : k <= m
  BY <1>1, LeastNumber
<1>3. k \in S
  <2>1. CASE k \notin S
    <3>1. \A y \in S : y <= k - 1
      BY <1>2, <2>1
    <3>2. k - 1 \in 1 .. n
      <4>1. PICK y \in S : TRUE
        OBVIOUS
      <4>2. y \in 1 .. n /\ y <= k - 1 /\ k \in 1 .. n
        BY <1>2, <3>1, <4>1
      <4> QED
        BY <4>2
    <3>3. k - 1 \in Above
      BY <3>1, <3>2
    <3>4. k <= k - 1 /\ k \in Nat
      BY <1>1, <1>2, <3>3
    <3> QED
      BY <3>4
  <2> QED
    BY <2>1
<1>4. k \in S /\ \A y \in S : k >= y
  BY <1>2, <1>3
<1>5. Max(S) \in S /\ \A y \in S : Max(S) >= y
  BY <1>4, Zenon DEF Max
<1> QED
  BY <1>5

LEMMA MaxOfFirst ==
    ASSUME NEW n \in Nat
    PROVE  /\ n > 0 => Max(1 .. n) = n
           /\ \A S \in SUBSET (1 .. n) : Max(S \cup {n + 1}) = n + 1
<1>1. ASSUME NEW S \in SUBSET (1 .. n) PROVE Max(S \cup {n + 1}) = n + 1
  <2>1. /\ S \cup {n + 1} \subseteq 1 .. n + 1 /\ S \cup {n + 1} # {} /\ n + 1 \in Nat
        /\ n + 1 \in S \cup {n + 1}
    OBVIOUS
  <2>2. Max(S \cup {n + 1}) \in S \cup {n + 1} /\ n + 1 <= Max(S \cup {n + 1})
    BY <2>1, MaxIsGreatest
  <2>3. \A y \in S \cup {n + 1} : y \in Nat /\ y <= n + 1
    OBVIOUS
  <2> DEFINE top == Max(S \cup {n + 1})
  <2>4. top \in Nat /\ top <= n + 1 /\ n + 1 <= top
    BY <2>2, <2>3
  <2> HIDE DEF top
  <2>5. top = n + 1
    BY <2>4
  <2> QED
    BY <2>5 DEF top
<1>2. ASSUME n > 0 PROVE Max(1 .. n) = n
  <2>1. 1 .. n \subseteq 1 .. n /\ 1 .. n # {} /\ n \in 1 .. n
    BY <1>2
  <2>2. Max(1 .. n) \in 1 .. n /\ \A y \in 1 .. n : y <= Max(1 .. n)
    BY <2>1, MaxIsGreatest
  <2>3. Max(1 .. n) \in Nat /\ n <= Max(1 .. n) /\ Max(1 .. n) <= n
    BY <2>1, <2>2
  <2> QED
    BY <2>3
<1> QED
  BY <1>1, <1>2

(* One event more.                                                         *)
LEMMA SolutionGrows ==
    ASSUME NEW s, IsStream(s), NEW e, NEW f, Solves(f, s)
    PROVE  \E g : Solves(g, Append(s, e))
<1> DEFINE n == Len(s)
           new == Append(s, e)
           g == [x \in SUBSET (1 .. n + 1) |->
                    IF n + 1 \in x THEN OnEvent(f[x \ {n + 1}], e) ELSE f[x]]
<1>1. /\ n \in Nat /\ DOMAIN s = 1 .. n /\ DOMAIN new = 1 .. n + 1
      /\ new[n + 1] = e /\ \A k \in 1 .. n : new[k] = s[k]
  BY StreamAppend DEF IsStream
<1>2. ASSUME NEW x \in SUBSET (1 .. n + 1)
      PROVE  g[x] = IF x = {} THEN NothingShown ELSE OnEvent(g[x \ {Max(x)}], new[Max(x)])
  <2>1. CASE x = {}
    <3>1. n + 1 \notin x /\ x \in SUBSET (1 .. n)
      BY <2>1
    <3>2. g[x] = f[x]
      BY <3>1
    <3> QED
      BY <1>1, <2>1, <3>1, <3>2 DEF Solves
  <2>2. CASE n + 1 \in x
    <3>1. x \ {n + 1} \in SUBSET (1 .. n) /\ x = (x \ {n + 1}) \cup {n + 1}
      <4>1. \A k \in x : k = n + 1 \/ k \in 1 .. n
        BY <1>1
      <4> QED
        BY <2>2, <4>1
    <3>2. Max(x) = n + 1
      BY <1>1, <3>1, MaxOfFirst
    <3>3. n + 1 \notin x \ {n + 1} /\ x \ {n + 1} \in SUBSET (1 .. n + 1)
      BY <1>1, <3>1
    <3>4. g[x \ {n + 1}] = f[x \ {n + 1}] /\ g[x] = OnEvent(f[x \ {n + 1}], e)
      BY <2>2, <3>3
    <3> QED
      BY <1>1, <2>2, <3>2, <3>4
  <2>3. CASE x # {} /\ n + 1 \notin x
    <3>1. x \in SUBSET (1 .. n) /\ x \subseteq 1 .. n /\ x # {}
      BY <1>1, <2>3
    <3>2. Max(x) \in x /\ Max(x) \in 1 .. n
      BY <1>1, <3>1, MaxIsGreatest
    <3>3. x \ {Max(x)} \in SUBSET (1 .. n + 1) /\ n + 1 \notin x \ {Max(x)}
      BY <2>3
    <3>4. g[x] = f[x] /\ g[x \ {Max(x)}] = f[x \ {Max(x)}]
      BY <2>3, <3>3
    <3>5. f[x] = OnEvent(f[x \ {Max(x)}], s[Max(x)])
      BY <1>1, <2>3, <3>1 DEF Solves
    <3> QED
      BY <1>1, <2>3, <3>2, <3>4, <3>5
  <2> QED
    BY <2>1, <2>2, <2>3
<1>3. g = [x \in SUBSET DOMAIN new |->
              IF x = {} THEN NothingShown ELSE OnEvent(g[x \ {Max(x)}], new[Max(x)])]
  BY <1>1, <1>2
<1> QED
  BY <1>3 DEF Solves

(* The fold is defined for every stream.                                   *)
LEMMA SolutionExists ==
    ASSUME NEW s, IsStream(s)
    PROVE  \E f : Solves(f, s)
<1> DEFINE Upto(k) == [i \in 1 .. k |-> s[i]]
           Hard == {k \in 0 .. Len(s) : ~\E f : Solves(f, Upto(k))}
<1>1. Len(s) \in Nat /\ Upto(Len(s)) = s
  BY DEF IsStream
<1>2. \E f : Solves(f, Upto(0))
  <2>1. Upto(0) = <<>> /\ DOMAIN <<>> = {} /\ DOMAIN Upto(0) = {}
    OBVIOUS
  <2>2. Solves([x \in SUBSET {} |-> NothingShown], Upto(0))
    BY <2>1 DEF Solves
  <2> QED
    BY <2>2
<1>3. ASSUME NEW k \in 1 .. Len(s), \E f : Solves(f, Upto(k - 1))
      PROVE  \E f : Solves(f, Upto(k))
  <2>1. Upto(k - 1) \in Seq({s[i] : i \in 1 .. Len(s)}) /\ Len(Upto(k - 1)) = k - 1
    BY <1>1, <1>3
  <2>2. IsStream(Upto(k - 1))
    BY <1>1, <1>3, <2>1 DEF IsStream
  <2>3. Upto(k) = Append(Upto(k - 1), s[k])
    BY <1>1, <1>3, <2>1
  <2>4. PICK f : Solves(f, Upto(k - 1))
    BY <1>3
  <2> HIDE DEF Upto
  <2>5. \E g : Solves(g, Append(Upto(k - 1), s[k]))
    BY <2>2, <2>4, SolutionGrows
  <2> QED
    BY <2>3, <2>5
<1>4. CASE Hard # {}
  <2>0. Hard \subseteq Nat
    BY <1>1
  <2> HIDE DEF Hard
  <2>1. PICK k \in Hard : \A m \in Hard : k <= m
    BY <1>4, <2>0, LeastNumber
  <2> USE DEF Hard
  <2> HIDE DEF Upto
  <2>2. k # 0 /\ k \in 1 .. Len(s)
    BY <1>1, <1>2, <2>1
  <2>3. k - 1 \in 0 .. Len(s) /\ k - 1 \notin Hard
    BY <1>1, <2>1, <2>2
  <2> QED
    BY <1>3, <2>1, <2>2, <2>3
<1> QED
  BY <1>1, <1>4

(* It takes one event after the other.                                     *)
LEMMA ShownGrows ==
    ASSUME NEW s, IsStream(s), NEW e
    PROVE  Shown(Append(s, e)) = OnEvent(Shown(s), e)
<1> DEFINE n == Len(s)
           new == Append(s, e)
           f == CHOOSE h : Solves(h, s)
           g == CHOOSE h : Solves(h, new)
           Apart == {k \in 0 .. n : f[1 .. k] # g[1 .. k]}
<1>1. /\ n \in Nat /\ DOMAIN s = 1 .. n /\ DOMAIN new = 1 .. n + 1
      /\ new[n + 1] = e /\ \A k \in 1 .. n : new[k] = s[k]
      /\ IsStream(new)
  BY StreamAppend DEF IsStream
<1>2. Solves(f, s) /\ Solves(g, new)
  <2>1. (\E h : Solves(h, s)) /\ (\E h : Solves(h, new))
    BY <1>1, SolutionExists
  <2> QED
    BY <2>1, Zenon
<1>3. Shown(s) = f[1 .. n] /\ Shown(new) = g[1 .. n + 1]
  BY <1>1, ShownIs
<1> HIDE DEF f, g, new
<1>4. /\ f[1 .. 0] = NothingShown /\ g[1 .. 0] = NothingShown
      /\ \A k \in 1 .. n : f[1 .. k] = OnEvent(f[1 .. k - 1], s[k])
      /\ \A k \in 1 .. n + 1 : g[1 .. k] = OnEvent(g[1 .. k - 1], new[k])
  <2>1. 1 .. 0 = {}
    OBVIOUS
  <2>2. ASSUME NEW k \in 1 .. n + 1
        PROVE  1 .. k # {} /\ Max(1 .. k) = k /\ (1 .. k) \ {k} = 1 .. k - 1
    <3>1. k \in Nat /\ k > 0 /\ k \in 1 .. k
      BY <1>1
    <3>2. \A i : i \in (1 .. k) \ {k} <=> i \in 1 .. k - 1
      BY <3>1
    <3> QED
      BY <3>1, <3>2, MaxOfFirst
  <2>3. ASSUME NEW k \in 1 .. n PROVE f[1 .. k] = OnEvent(f[1 .. k - 1], s[k])
    <3>1. k \in 1 .. n + 1 /\ 1 .. k \in SUBSET DOMAIN s
      BY <1>1
    <3>2. 1 .. k # {} /\ Max(1 .. k) = k /\ (1 .. k) \ {k} = 1 .. k - 1
      BY <2>2, <3>1
    <3>3. f[1 .. k] = IF 1 .. k = {} THEN NothingShown
                      ELSE OnEvent(f[(1 .. k) \ {Max(1 .. k)}], s[Max(1 .. k)])
      BY <1>2, <3>1, SolvesAt
    <3> QED
      BY <3>2, <3>3
  <2>4. ASSUME NEW k \in 1 .. n + 1 PROVE g[1 .. k] = OnEvent(g[1 .. k - 1], new[k])
    <3>1. 1 .. k \in SUBSET DOMAIN new
      BY <1>1
    <3>2. 1 .. k # {} /\ Max(1 .. k) = k /\ (1 .. k) \ {k} = 1 .. k - 1
      BY <2>2
    <3>3. g[1 .. k] = IF 1 .. k = {} THEN NothingShown
                      ELSE OnEvent(g[(1 .. k) \ {Max(1 .. k)}], new[Max(1 .. k)])
      BY <1>2, <3>1, SolvesAt
    <3> QED
      BY <3>2, <3>3
  <2>5. {} \in SUBSET DOMAIN s /\ {} \in SUBSET DOMAIN new
    OBVIOUS
  <2>6. f[{}] = NothingShown /\ g[{}] = NothingShown
    BY <1>2, <2>5 DEF Solves
  <2> QED
    BY <2>1, <2>3, <2>4, <2>6
<1>5. ASSUME Apart # {} PROVE FALSE
  <2>0. Apart \subseteq Nat
    BY <1>1
  <2> HIDE DEF Apart
  <2>1. PICK k \in Apart : \A m \in Apart : k <= m
    BY <1>5, <2>0, LeastNumber
  <2> USE DEF Apart
  <2>2. k \in 1 .. n /\ k \in 1 .. n + 1 /\ k - 1 \in 0 .. n /\ k - 1 \notin Apart
    BY <1>1, <1>4, <2>1
  <2>3. f[1 .. k - 1] = g[1 .. k - 1] /\ f[1 .. k] # g[1 .. k]
    BY <2>1, <2>2
  <2>4. /\ f[1 .. k] = OnEvent(f[1 .. k - 1], s[k])
        /\ g[1 .. k] = OnEvent(g[1 .. k - 1], new[k])
        /\ new[k] = s[k]
    BY <1>1, <1>4, <2>2
  <2> QED
    BY <2>3, <2>4
<1>6. f[1 .. n] = g[1 .. n]
  BY <1>1, <1>5
<1>7. g[1 .. n + 1] = OnEvent(g[1 .. n], e)
  BY <1>1, <1>4
<1> QED
  BY <1>3, <1>6, <1>7 DEF new

LEMMA ShownFirst == Shown(<<>>) = NothingShown
<1>1. IsStream(<<>>) /\ DOMAIN <<>> = {}
  BY DEF IsStream
<1>2. Solves(CHOOSE f : Solves(f, <<>>), <<>>)
  BY <1>1, SolutionExists, Zenon
<1> QED
  BY <1>1, <1>2, ShownIs DEF Solves

-----------------------------------------------------------------------------
(* A child that neither exits early nor spoils or closes its stdout, nor   *)
(* fails in a suite fixture: where it exits with 0 or 1 it is through all  *)
(* its turns, and what fails is its case, before that has ended.           *)
PlainInv ==
    /\ ~child.closed /\ child.spoiled = 0
    /\ child.status \in {0, 1} => child.turn > Len(child.runs)
    /\ \A k \in 1 .. Len(out) :
          out[k].type = "AssertFail" =>
              child.runs # <<>> /\ out[k].id = child.runs[1] /\ EndsIn(k) = {}

Filed(entries, book) ==
    \A m \in 1 .. Len(book) : entries[m].id = Cases[m] /\ entries[m].status = book[m].status

(* The JUnit file beside the ledger: an entry for each case counted, and   *)
(* at most one more, for the case under way.                               *)
JunitInv ==
    LET entries == JunitCases(report)
    IN  pc # "bailed" =>
          /\ IsStream(entries)
          /\ Filed(entries, ledger)
          /\ pc \in WithChild =>
                /\ Len(ledger) = IF view.ended THEN cur ELSE cur - 1
                /\ \/ Len(entries) = Len(ledger)
                   \/ ~view.ended /\ Len(entries) = cur /\ entries[cur].id = Cases[cur]
          /\ pc = "spawn" => Len(ledger) = cur - 1 /\ Len(entries) = cur - 1
          /\ pc \in {"finish", "exit"} => Len(ledger) = cur /\ Len(entries) = cur
          /\ pc = "exit" => ConsoleTotals(report) = tally

LEMMA PlainGrows ==
    ASSUME StreamOK, PlainInv, NEW event, out' = Append(out, event), child'.runs = child.runs,
           event.type = "AssertFail" =>
                 child.runs # <<>> /\ event.id = child.runs[1] /\ EndsIn(Len(out)) = {}
    PROVE  \A k \in 1 .. Len(out') :
               out'[k].type = "AssertFail" =>
                   child'.runs # <<>> /\ out'[k].id = child'.runs[1] /\ EndsIn(k)' = {}
<1>1. /\ Len(out) \in Nat /\ Len(out') = Len(out) + 1
      /\ \A k \in 1 .. Len(out) : out'[k] = out[k]
      /\ out'[Len(out) + 1] = event
  BY OutGrows
<1>2. \A k \in 1 .. Len(out) : EndsIn(k)' = EndsIn(k)
  <2>1. \A k \in 1 .. Len(out) : \A i \in 1 .. k : i \in 1 .. Len(out)
    BY <1>1
  <2> QED
    BY <1>1, <2>1 DEF EndsIn
<1>3. ASSUME event.type = "AssertFail"
      PROVE  \A k : k = Len(out) + 1 => EndsIn(k)' = {}
  <2>1. \A i \in 1 .. Len(out) + 1 : i \in 1 .. Len(out) \/ i = Len(out) + 1
    BY <1>1
  <2>2. \A i \in 1 .. Len(out) + 1 : out'[i].type # "CaseEnd"
    BY <1>1, <1>3, <2>1 DEF EndsIn
  <2> QED
    BY <2>2 DEF EndsIn
<1>4. \A k \in 1 .. Len(out') : k \in 1 .. Len(out) \/ k = Len(out) + 1
  BY <1>1
<1> QED
  BY <1>1, <1>2, <1>3, <1>4 DEF PlainInv

LEMMA PlainChild ==
    ASSUME TidyTests, IInv, TurnOK, OneCaseInv, PlainInv, ChildStep
    PROVE  PlainInv'
<1> DEFINE fields == {"runs", "turn", "step", "status", "closed", "spoiled", "verdicts", "id"}
<1>1. /\ StreamOK /\ fields \subseteq DOMAIN child
      /\ child.runs \in Seq(CaseIds) /\ Len(child.runs) \in Nat /\ Len(child.runs) <= 1
      /\ child.turn \in 1 .. Len(child.runs) + 1
      /\ child.step \in Nat \ {0} /\ Len(Now) \in Nat
      /\ ~child.closed /\ child.spoiled = 0
  <2>1. child.runs \in Seq(CaseIds) /\ Len(child.runs) \in Nat
    BY LenProperties DEF TurnOK
  <2>2. Len(Now) \in Nat
    BY <2>1, TurnShape DEF Now, TurnOK
  <2> QED
    BY <2>1, <2>2 DEF IInv, TurnOK, OneCaseInv, OneCaseOK, PlainInv
<1>2. /\ "noise" \notin Faults /\ "exit" \notin Faults
      /\ "close" \notin Faults /\ "fixture" \notin Faults
  BY DEF TidyTests
<1>3. ASSUME NEW event, NEW next, Write(event, next), Alive,
             next.runs = child.runs, next.status = child.status,
             next.closed = child.closed, next.spoiled = child.spoiled,
             event.type = "AssertFail" =>
                 child.runs # <<>> /\ event.id = child.runs[1] /\ EndsIn(Len(out)) = {}
      PROVE  PlainInv'
  <2>1. child' = next /\ out' = Append(out, event)
    BY <1>1, <1>2, <1>3, QuietWrite
  <2>2. child'.status \notin {0, 1}
    BY <1>3, <2>1 DEF Alive, Running
  <2>3. child'.runs = child.runs
    BY <1>3, <2>1
  <2>4. \A k \in 1 .. Len(out') :
            out'[k].type = "AssertFail" =>
                   child'.runs # <<>> /\ out'[k].id = child'.runs[1] /\ EndsIn(k)' = {}
    BY <1>1, <1>3, <2>1, <2>3, PlainGrows
  <2> QED
    BY <1>1, <1>3, <2>1, <2>2, <2>4 DEF PlainInv
<1>4. CASE ChildEmit
  <2> DEFINE event == Now[child.step]
             next == [child EXCEPT !.step = @ + 1,
                        !.id = IF event.type = "CaseStart" THEN event.id ELSE @,
                        !.failing = IF event.type = "CaseStart" THEN FALSE ELSE @]
  <2>1. event.type # "AssertFail" /\ Write(event, next) /\ Alive
    BY <1>4 DEF ChildEmit, AtStep
  <2>2. /\ next.runs = child.runs /\ next.status = child.status
        /\ next.closed = child.closed /\ next.spoiled = child.spoiled
    BY <1>1
  <2> HIDE DEF next, event
  <2> QED
    BY <1>3, <2>1, <2>2
<1>5. CASE ChildFail
  <2> DEFINE event == AssertFail(child.id)
             next == [child EXCEPT !.fails = @ + 1, !.failing = TRUE]
  <2>1. event.id = child.id /\ Write(event, next) /\ AtStep({"Body"}) /\ Alive
    BY <1>2, <1>5 DEF ChildFail, AssertFail, AtStep
  <2>2. /\ next.runs = child.runs /\ next.status = child.status
        /\ next.closed = child.closed /\ next.spoiled = child.spoiled
    BY <1>1
  <2>3. child.turn = 1 /\ Opened /\ child.runs # <<>>
    <3>1. child.step \in 1 .. Len(Now) /\ Now[child.step].type = "Body"
      BY <1>1, <2>1 DEF AtStep
    <3>2. PICK t : t = Turn(child.runs, child.turn)
      OBVIOUS
    <3>3. /\ child.turn <= Len(child.runs) =>
               \A i \in 1 .. Len(t) : t[i].type = "Body" <=> i = Len(t)
          /\ child.turn = Len(child.runs) + 1 => \A i \in 1 .. Len(t) : t[i].type # "Body"
      BY <1>1, <3>2, TurnShape
    <3>4. child.turn # Len(child.runs) + 1
      BY <3>1, <3>2, <3>3 DEF Now
    <3>5. child.turn <= Len(child.runs) /\ child.turn = 1
      BY <1>1, <3>4
    <3> QED
      BY <3>1, <3>2, <3>3, <3>5 DEF Now, Opened
  <2>4. child.runs # <<>> /\ child.id = child.runs[1] /\ EndsIn(Len(out)) = {}
    BY <2>3 DEF OneCaseInv, OneCaseOK
  <2> HIDE DEF next, event
  <2> QED
    BY <1>3, <2>1, <2>2, <2>4
<1>6. CASE ChildVerdict
  <2>1. PICK status \in TestStatus :
          Write(CaseEnd(child.id, status),
                [child EXCEPT !.turn = @ + 1, !.step = 1, !.failed = @ \/ status = "Failed",
                              !.verdicts = Append(@, status)])
    BY <1>6 DEF ChildVerdict, TestStatus
  <2> DEFINE event == CaseEnd(child.id, status)
             next == [child EXCEPT !.turn = @ + 1, !.step = 1, !.failed = @ \/ status = "Failed",
                                   !.verdicts = Append(@, status)]
  <2>2. event.type # "AssertFail" /\ Write(event, next) /\ Alive
    BY <1>6, <2>1 DEF ChildVerdict, CaseEnd, AtStep
  <2>3. /\ next.runs = child.runs /\ next.status = child.status
        /\ next.closed = child.closed /\ next.spoiled = child.spoiled
    BY <1>1
  <2> HIDE DEF next, event
  <2> QED
    BY <1>3, <2>2, <2>3
<1>7. ASSUME out' = out, child'.runs = child.runs, child'.turn = child.turn,
             child'.closed = child.closed, child'.spoiled = child.spoiled,
             child'.status \in {0, 1} => child.turn > Len(child.runs)
      PROVE  PlainInv'
  BY <1>7 DEF PlainInv, EndsIn
<1>8. CASE ChildReturn
  <2>1. child.turn > Len(child.runs)
    BY <1>1, <1>8 DEF ChildReturn, TurnOK
  <2>2. /\ out' = out /\ child'.runs = child.runs /\ child'.turn = child.turn
        /\ child'.closed = child.closed /\ child'.spoiled = child.spoiled
    BY <1>1, <1>8 DEF ChildReturn
  <2> QED
    BY <1>7, <2>1, <2>2
<1>9. CASE ChildCrash
  <2>1. /\ out' = out /\ child'.runs = child.runs /\ child'.turn = child.turn
        /\ child'.closed = child.closed /\ child'.spoiled = child.spoiled
        /\ child'.status \notin {0, 1}
    BY <1>1, <1>9 DEF ChildCrash, Signal
  <2> QED
    BY <1>7, <2>1
<1> QED
  BY <1>2, <1>4, <1>5, <1>6, <1>8, <1>9 DEF ChildStep, ChildExit, ChildClose

LEMMA PlainStep ==
    ASSUME TidyTests, IInv, TurnOK, OneCaseInv, PlainInv, [Next]_vars
    PROVE  PlainInv'
<1>1. CASE ChildStep
  BY <1>1, PlainChild
<1>2. CASE Spawn
  <2>1. out' = <<>> /\ child'.closed = FALSE /\ child'.spoiled = 0 /\ child'.status = Running
    BY <1>2 DEF Spawn, NewChild
  <2> QED
    BY <2>1 DEF PlainInv, Running
<1>3. CASE UNCHANGED <<child, out>>
  BY <1>3 DEF PlainInv, EndsIn
<1>4. CASE Kill
  <2>1. /\ UNCHANGED out /\ child'.runs = child.runs /\ child'.turn = child.turn
        /\ child'.closed = child.closed /\ child'.spoiled = child.spoiled
        /\ child'.status \in {0, 1} => child.status \in {0, 1}
    BY <1>4 DEF Kill, TurnOK, Signal, Running
  <2> QED
    BY <2>1 DEF PlainInv, EndsIn
<1>5. CASE ReaderStep \/ Tick \/ UNCHANGED vars
  BY <1>3, <1>5 DEF ReaderStep, ReadChunk, ReadEof, ReadFails, Tick, vars, childVars
<1>6. CASE SpawnFails \/ CheckDeadline \/ ReceiveError \/ ReceiveTimeout \/ ReceiveDisconnected
  BY <1>3, <1>6
     DEF childVars, SpawnFails, CheckDeadline, ReceiveError, ReceiveTimeout, ReceiveDisconnected, GiveUp
<1>7. CASE Receive \/ Wait \/ JudgeSound \/ JudgeCrash \/ Finish \/ FinishFails
  BY <1>3, <1>7 DEF childVars, Receive, Wait, JudgeSound, JudgeCrash, Finish, FinishFails
<1> QED
  BY <1>1, <1>2, <1>4, <1>5, <1>6, <1>7 DEF Next, MainStep, Terminated

(* A child judged sound has told how its case ended.                       *)
LEMMA SoundHasEnded ==
    ASSUME TidyTests, IInv, GenuineInv, CountedInv, OneCaseInv, PlainInv, ReportInv, JudgeSound
    PROVE  view.ended
<1>1. /\ pc = "judge" /\ pc \in WithChild /\ ~view.err /\ view.ran /\ child.status \in {0, 1}
  BY DEF JudgeSound, Sound, ExitOk, WithChild
<1>2. got = Len(out) /\ Intact /\ child.turn > Len(child.runs)
  BY <1>1 DEF CountedInv, ReadOK, PlainInv, Intact, Disconnected, TidyTests
<1>3. Opened /\ Len(child.runs) \in Nat /\ child.turn \in 1 .. Len(child.runs) + 1
      /\ Len(child.verdicts) = child.turn - 1
  <2>1. Started(Len(out))
    BY <1>1, <1>2 DEF ReportInv
  <2>2. child.runs \in Seq(CaseIds)
    BY DEF CountedInv, TellInv, TurnOK
  <2> QED
    BY <2>1, <2>2, LenProperties DEF OneCaseInv, OneCaseOK, CountedInv, TellInv, TurnOK
<1>4. 1 \in DOMAIN child.verdicts
  <2>1. child.turn > 1
    BY <1>2, <1>3 DEF Opened
  <2>2. Len(child.verdicts) >= 1 /\ DOMAIN child.verdicts = 1 .. Len(child.verdicts)
    BY <1>3, <2>1 DEF GenuineInv, VerdictsOK, IsStream
  <2> QED
    BY <1>3, <2>2
<1>5. EndsIn(got) # {}
  <2>1. Told
    BY <1>2 DEF CountedInv, TellInv, ToldOK
  <2>2. PICK h \in Bijection(DOMAIN child.verdicts, EndsIn(Len(out))) : TRUE
    BY <2>1 DEF Told
  <2>3. h[1] \in EndsIn(Len(out))
    BY <1>4, <2>2 DEF Bijection, Injection, Surjection
  <2> QED
    BY <1>2, <2>3
<1> QED
  BY <1>1, <1>5 DEF CountedInv, HeardOK

-----------------------------------------------------------------------------
(* A mark for case k, where the file has those before it and perhaps its   *)
(* own entry, leaves the entries of the others.                            *)
ReadyFor(entries, k, case) ==
    /\ IsStream(entries) /\ k \in Nat \ {0}
    /\ \A m \in 1 .. k - 1 : entries[m].id # case
    /\ Len(entries) = k - 1 \/ (Len(entries) = k /\ entries[k].id = case)

Marked(new, entries, k, case, status) ==
    /\ IsStream(new) /\ Len(new) = k
    /\ new[k].id = case /\ new[k].status = status
    /\ \A m \in 1 .. k - 1 : new[m] = entries[m]

LEMMA MarkLast ==
    ASSUME NEW entries, NEW k, NEW case, ReadyFor(entries, k, case), NEW status, NEW message
    PROVE  Marked(JunitMark(entries, case, status, message), entries, k, case, status)
<1> DEFINE new == JunitMark(entries, case, status, message)
<1>0. /\ IsStream(entries) /\ k \in Nat \ {0}
      /\ \A m \in 1 .. k - 1 : entries[m].id # case
      /\ Len(entries) = k - 1 \/ (Len(entries) = k /\ entries[k].id = case)
  BY DEF ReadyFor
<1>1. DOMAIN entries = 1 .. Len(entries) /\ Len(entries) \in Nat
  BY <1>0 DEF IsStream
<1>2. CASE Len(entries) = k - 1
  <2>1. Matches(entries, case) = {}
    BY <1>0, <1>1, <1>2 DEF Matches
  <2> DEFINE entry == [id |-> case, status |-> status, message |-> message]
  <2>2. new = Append(entries, entry) /\ entry.id = case /\ entry.status = status
    BY <2>1 DEF JunitMark
  <2> HIDE DEF entry
  <2>3. /\ IsStream(new) /\ Len(new) = Len(entries) + 1
        /\ \A m \in 1 .. Len(entries) : new[m] = entries[m]
        /\ new[Len(entries) + 1] = entry
    BY <1>0, <2>2, StreamAppend
  <2> HIDE DEF new
  <2> QED
    BY <1>0, <1>1, <1>2, <2>2, <2>3 DEF Marked, new
<1>3. CASE Len(entries) = k /\ entries[k].id = case
  <2>1. Matches(entries, case) = {k}
    <3>1. k \in 1 .. k /\ \A m \in 1 .. k : m = k \/ m \in 1 .. k - 1
      BY <1>0
    <3> QED
      BY <1>0, <1>1, <1>3, <3>1 DEF Matches
  <2>2. Youngest(entries, case) = k
    BY <2>1 DEF Youngest
  <2> DEFINE entry == [id |-> case, status |-> status, message |-> entries[k].message \/ message]
  <2>3. new = [entries EXCEPT ![k] = entry] /\ entry.id = case /\ entry.status = status
    BY <2>1, <2>2 DEF JunitMark
  <2> HIDE DEF entry, new
  <2>4. k \in DOMAIN entries
    BY <1>0, <1>1, <1>3
  <2>5. new[k] = entry /\ \A m \in 1 .. k - 1 : new[m] = entries[m]
    BY <1>0, <1>1, <1>3, <2>3, <2>4
  <2>6. IsStream(new) /\ Len(new) = k
    <3> DEFINE S == {entries[m] : m \in 1 .. k} \cup {entry}
    <3>1. entries \in [1 .. k -> S]
      <4>1. entries = [m \in 1 .. k |-> entries[m]]
        BY <1>0, <1>3 DEF IsStream
      <4> QED
        BY <4>1
    <3>2. entries \in Seq(S) /\ entry \in S
      BY <1>0, <3>1, SeqDef
    <3> HIDE DEF S
    <3>3. new \in Seq(S) /\ Len(new) = k
      BY <1>1, <1>3, <2>3, <2>4, <3>2, ExceptSeq
    <3> QED
      BY <3>3, LenProperties DEF IsStream
  <2> QED
    BY <2>3, <2>5, <2>6 DEF Marked, new
<1> QED
  BY <1>0, <1>2, <1>3

(* What one event more does to the JUnit file.                             *)
LEMMA JunitGrows ==
    ASSUME NEW s, IsStream(s), NEW e
    PROVE  /\ e.type \notin {"CaseEnd", "AssertFail"} => JunitCases(Append(s, e)) = JunitCases(s)
           /\ e.type = "AssertFail" =>
                JunitCases(Append(s, e)) = JunitMark(JunitCases(s), e.id, "Failed", TRUE)
           /\ e.type = "CaseEnd" =>
                JunitCases(Append(s, e)) = JunitMark(JunitCases(s), e.id, e.status, FALSE)
           /\ e.type = "Done" => ConsoleTotals(Append(s, e)) = e.tally
<1>1. Shown(Append(s, e)) = OnEvent(Shown(s), e)
  BY ShownGrows
<1>2. JunitCases(Append(s, e)) = JunitOnEvent(JunitCases(s), e)
  BY <1>1 DEF JunitCases, OnEvent
<1>3. ConsoleTotals(Append(s, e)) = ConsoleOnEvent(Shown(s).console, e)
  BY <1>1 DEF ConsoleTotals, OnEvent
<1>4. e.type = "Done" => ConsoleTotals(Append(s, e)) = e.tally
  BY <1>3 DEF ConsoleOnEvent
<1> QED
  BY <1>2, <1>4 DEF JunitOnEvent

(* The cases of the entries before the current one.                        *)
LEMMA OtherCases ==
    ASSUME OwnCases, IInv, ReadOK, pc \in WithChild
    PROVE  /\ cur \in Nat \ {0}
           /\ \A m \in 1 .. cur - 1 : Cases[m] # Cases[cur]
<1>1. cur \in DOMAIN Cases /\ Cases[cur] \notin Past /\ cur \in Nat \ {0}
  BY CaseIsNew DEF IInv, TypeOK
<1> QED
  BY <1>1 DEF Past

(* While a child is at work the file is ready for a mark of its case.      *)
LEMMA FileIsReady ==
    ASSUME OwnCases, IInv, ReadOK, JunitInv, pc \in WithChild,
           NEW entries, entries = JunitCases(report)
    PROVE  /\ IsStream(entries) /\ cur \in Nat \ {0} /\ Len(ledger) \in Nat
           /\ \A m \in 1 .. cur - 1 : /\ entries[m].id # Cases[cur]
                                      /\ entries[m].id = Cases[m]
                                      /\ entries[m].status = ledger[m].status
           /\ Len(entries) = cur - 1 \/ (Len(entries) = cur /\ entries[cur].id = Cases[cur])
           /\ Len(ledger) = IF view.ended THEN cur ELSE cur - 1
           /\ view.ended \in BOOLEAN
<1>1. /\ cur \in Nat \ {0} /\ Len(ledger) \in Nat /\ view.ended \in BOOLEAN /\ pc # "bailed"
      /\ \A m \in 1 .. cur - 1 : Cases[m] # Cases[cur]
  BY OtherCases, LenProperties DEF IInv, TypeOK, WithChild
<1>2. /\ IsStream(entries) /\ Filed(entries, ledger)
      /\ Len(ledger) = IF view.ended THEN cur ELSE cur - 1
      /\ \/ Len(entries) = Len(ledger)
         \/ ~view.ended /\ Len(entries) = cur /\ entries[cur].id = Cases[cur]
  BY <1>1 DEF JunitInv
<1>3. \A m \in 1 .. cur - 1 : m \in 1 .. Len(ledger)
  BY <1>1, <1>2
<1>4. \A m \in 1 .. cur - 1 : /\ entries[m].id # Cases[cur]
                              /\ entries[m].id = Cases[m]
                              /\ entries[m].status = ledger[m].status
  BY <1>1, <1>2, <1>3 DEF Filed
<1>5. view.ended => cur \in 1 .. Len(ledger)
  BY <1>1, <1>2
<1> QED
  BY <1>1, <1>2, <1>4, <1>5 DEF Filed

LEMMA JunitReceive ==
    ASSUME OwnCases, IInv, HeardOK, ReadOK, TurnOK, OneCaseInv, PlainInv, ReportInv, JunitInv,
           Receive
    PROVE  JunitInv'
<1> DEFINE e == out[got + 1]
           case == Cases[cur]
           entries == JunitCases(report)
           fresh == JunitCases(report')
<1>1. /\ pc = "recv" /\ pc \in WithChild /\ pc' = "check" /\ pc' \in WithChild
      /\ UNCHANGED cur /\ Handle(e) /\ IsStream(report)
      /\ ledger \in Seq([of : Nat, status : TestStatus])
  BY DEF Receive, Goto, WithChild, IInv, TypeOK, ReportInv
<1>2. /\ IsStream(entries) /\ cur \in Nat \ {0} /\ Len(ledger) \in Nat
      /\ \A m \in 1 .. cur - 1 : /\ entries[m].id # case
                                 /\ entries[m].id = Cases[m]
                                 /\ entries[m].status = ledger[m].status
      /\ Len(entries) = cur - 1 \/ (Len(entries) = cur /\ entries[cur].id = case)
      /\ Len(ledger) = IF view.ended THEN cur ELSE cur - 1
      /\ view.ended \in BOOLEAN /\ Filed(entries, ledger)
  BY <1>1, FileIsReady DEF JunitInv
<1>3. /\ e.type = "AssertFail" => e.id = case /\ ~view.ended
      /\ e.type = "CaseEnd" => e.id = case /\ ~view.ended
  <2>1. got + 1 \in 1 .. Len(out)
    BY DEF IInv, TypeOK, Receive, StreamOK, IsStream
  <2>2. child.runs \in {<<>>, <<case>>}
    BY <1>1 DEF HeardOK, ReadOK, OwnCases
  <2>3. e.type = "AssertFail" => e.id = case /\ EndsIn(got + 1) = {}
    BY <2>1, <2>2 DEF PlainInv
  <2>4. view.ended => EndsIn(got) # {}
    BY <1>1 DEF ReportInv
  <2> QED
    BY <2>3, <2>4, NextInItsPlace
<1> HIDE DEF e, case, entries
<1>4. ASSUME UNCHANGED ledger, view'.ended = view.ended, IsStream(fresh),
             fresh = entries \/ (/\ ~view.ended /\ Len(fresh) = cur /\ fresh[cur].id = case
                                 /\ \A m \in 1 .. cur - 1 : fresh[m] = entries[m])
      PROVE  JunitInv'
  <2>1. Filed(fresh, ledger)
    BY <1>2, <1>4 DEF Filed
  <2>2. \/ Len(fresh) = Len(ledger)
        \/ ~view.ended /\ Len(fresh) = cur /\ fresh[cur].id = case
    <3>1. CASE fresh = entries
      BY <1>1, <3>1 DEF JunitInv, entries, case, WithChild
    <3> QED
      BY <1>4, <3>1
  <2> HIDE DEF fresh
  <2> QED
    BY <1>1, <1>2, <1>4, <2>1, <2>2 DEF JunitInv, WithChild, fresh, case
<1>5. CASE e.type = "SuiteStart" /\ OnSuiteStart(e)
  <2>1. fresh = entries
    BY <1>1, <1>5, JunitGrows DEF OnSuiteStart, entries
  <2> QED
    BY <1>2, <1>4, <1>5, <2>1 DEF OnSuiteStart
<1>6. CASE e.type = "CaseStart" /\ OnCaseStart(e)
  <2>1. fresh = entries
    BY <1>1, <1>6, JunitGrows DEF OnCaseStart, entries
  <2>2. UNCHANGED ledger /\ view'.ended = view.ended
    BY <1>6 DEF OnCaseStart, IInv, TypeOK
  <2> QED
    BY <1>2, <1>4, <2>1, <2>2
<1>7. CASE e.type = "AssertFail" /\ OnAssertFail(e)
  <2>1. fresh = JunitMark(entries, case, "Failed", TRUE)
    BY <1>1, <1>3, <1>7, JunitGrows DEF OnAssertFail, entries
  <2> HIDE DEF fresh
  <2>2. /\ IsStream(fresh) /\ Len(fresh) = cur /\ fresh[cur].id = case
        /\ \A m \in 1 .. cur - 1 : fresh[m] = entries[m]
    <3>1. ReadyFor(entries, cur, case)
      BY <1>2 DEF ReadyFor
    <3>2. Marked(JunitMark(entries, case, "Failed", TRUE), entries, cur, case, "Failed")
      BY <3>1, MarkLast
    <3> QED
      BY <2>1, <3>2 DEF Marked
  <2> QED
    BY <1>3, <1>4, <1>7, <2>2 DEF OnAssertFail, fresh
<1>8. CASE e.type = "CaseEnd" /\ OnCaseEnd(e)
  <2>1. fresh = JunitMark(entries, case, e.status, FALSE)
    BY <1>1, <1>3, <1>8, JunitGrows DEF OnCaseEnd, entries
  <2> HIDE DEF fresh
  <2>2. /\ IsStream(fresh) /\ Len(fresh) = cur
        /\ fresh[cur].id = case /\ fresh[cur].status = e.status
        /\ \A m \in 1 .. cur - 1 : fresh[m] = entries[m]
    <3>1. ReadyFor(entries, cur, case)
      BY <1>2 DEF ReadyFor
    <3>2. Marked(JunitMark(entries, case, e.status, FALSE), entries, cur, case, e.status)
      BY <3>1, MarkLast
    <3> QED
      BY <2>1, <3>2 DEF Marked
  <2>3. /\ ledger' = Append(ledger, [of |-> cur, status |-> e.status])
        /\ view'.ended = TRUE /\ Len(ledger) = cur - 1
    BY <1>2, <1>3, <1>8 DEF OnCaseEnd, IInv, TypeOK
  <2>4. /\ Len(ledger') = cur /\ ledger'[cur].status = e.status
        /\ \A m \in 1 .. cur - 1 : ledger'[m] = ledger[m]
    BY <1>1, <1>2, <2>3
  <2>5. Filed(fresh, ledger')
    <3>1. \A m \in 1 .. cur : m \in 1 .. cur - 1 \/ m = cur
      BY <1>2
    <3> QED
      BY <1>2, <2>2, <2>4, <3>1 DEF Filed, case
  <2> QED
    BY <1>1, <1>2, <2>2, <2>3, <2>4, <2>5 DEF JunitInv, WithChild, fresh
<1>9. CASE UNCHANGED <<view, report, ledger>>
  BY <1>1, <1>2, <1>4, <1>9 DEF entries
<1> QED
  BY <1>1, <1>5, <1>6, <1>7, <1>8, <1>9 DEF Handle

(* What the host makes up after a crash, event by event.                   *)
Opening == IF view.ran THEN report ELSE Append(report, CaseStart(Cases[cur]))
Failing == Append(Opening, AssertFail(Cases[cur]))
Closing == IF view.ended THEN Failing ELSE Append(Failing, CaseEnd(Cases[cur], "Failed"))

LEMMA CrashEvents ==
    ASSUME IsStream(report), JudgeCrash
    PROVE  IsStream(Opening) /\ IsStream(Failing) /\ report' = Closing
<1> DEFINE fail == AssertFail(Cases[cur])
           start == CaseStart(Cases[cur])
           end == CaseEnd(Cases[cur], "Failed")
           opening == IF view.ran THEN <<>> ELSE <<start>>
           closing == IF view.ended THEN <<>> ELSE <<end>>
<1>1. report' = report \o opening \o <<fail>> \o closing
  BY DEF JudgeCrash
<1>2. /\ Opening = IF view.ran THEN report ELSE Append(report, start)
      /\ Failing = Append(Opening, fail)
      /\ Closing = IF view.ended THEN Failing ELSE Append(Failing, end)
  BY DEF Opening, Failing, Closing
<1> HIDE DEF fail, start, end
<1>3. report \o opening = Opening /\ IsStream(Opening)
  BY <1>2, StreamConcat, StreamAppend
<1> HIDE DEF opening
<1>4. Opening \o <<fail>> = Failing /\ IsStream(Failing)
  BY <1>2, <1>3, StreamConcat, StreamAppend
<1>5. Failing \o closing = Closing
  BY <1>2, <1>4, StreamConcat
<1> HIDE DEF closing
<1> QED
  BY <1>1, <1>3, <1>4, <1>5

LEMMA JunitCrash ==
    ASSUME OwnCases, IInv, ReadOK, ReportInv, JunitInv, JudgeCrash,
           NEW fresh, fresh = JunitCases(report')
    PROVE  IsStream(fresh) /\ Len(fresh) = cur /\ Len(ledger') = cur /\ Filed(fresh, ledger')
<1> DEFINE case == Cases[cur]
           entries == JunitCases(report)
           failed == JunitCases(Failing)
<1>1. /\ pc = "judge" /\ pc \in WithChild /\ IsStream(report)
      /\ ledger \in Seq([of : Nat, status : TestStatus])
      /\ IsStream(Opening) /\ IsStream(Failing) /\ report' = Closing
  BY CrashEvents DEF JudgeCrash, WithChild, IInv, TypeOK, ReportInv
<1>2. /\ IsStream(entries) /\ cur \in Nat \ {0} /\ Len(ledger) \in Nat
      /\ \A m \in 1 .. cur - 1 : /\ entries[m].id # case
                                 /\ entries[m].id = Cases[m]
                                 /\ entries[m].status = ledger[m].status
      /\ Len(entries) = cur - 1 \/ (Len(entries) = cur /\ entries[cur].id = case)
      /\ Len(ledger) = IF view.ended THEN cur ELSE cur - 1
      /\ view.ended \in BOOLEAN
  BY <1>1, FileIsReady
<1>3. JunitCases(Opening) = entries
  BY <1>1, JunitGrows DEF Opening, CaseStart
<1>4. failed = JunitMark(entries, case, "Failed", TRUE)
  BY <1>1, <1>3, JunitGrows DEF Failing, AssertFail
<1>5. fresh = IF view.ended THEN failed ELSE JunitMark(failed, case, "Failed", FALSE)
  <2>1. /\ CaseEnd(case, "Failed").type = "CaseEnd" /\ CaseEnd(case, "Failed").id = case
        /\ CaseEnd(case, "Failed").status = "Failed"
    BY DEF CaseEnd
  <2>2. JunitCases(Append(Failing, CaseEnd(case, "Failed")))
            = JunitMark(JunitCases(Failing), case, "Failed", FALSE)
    BY <1>1, <2>1, JunitGrows
  <2> QED
    BY <1>1, <2>2 DEF Closing
<1> HIDE DEF case, entries, failed
<1>6. /\ IsStream(failed) /\ Len(failed) = cur
      /\ failed[cur].id = case /\ failed[cur].status = "Failed"
      /\ \A m \in 1 .. cur - 1 : failed[m] = entries[m]
  <2>1. ReadyFor(entries, cur, case)
    BY <1>2 DEF ReadyFor
  <2>2. Marked(JunitMark(entries, case, "Failed", TRUE), entries, cur, case, "Failed")
    BY <2>1, MarkLast
  <2> QED
    BY <1>4, <2>2 DEF Marked
<1>7. /\ IsStream(fresh) /\ Len(fresh) = cur
      /\ fresh[cur].id = case /\ fresh[cur].status = "Failed"
      /\ \A m \in 1 .. cur - 1 : fresh[m] = entries[m]
  <2>1. CASE view.ended
    BY <1>5, <1>6, <2>1
  <2>2. CASE ~view.ended
    <3>1. fresh = JunitMark(failed, case, "Failed", FALSE)
      BY <1>5, <2>2
    <3>2. \A m \in 1 .. cur - 1 : failed[m].id # case
      BY <1>2, <1>6
    <3>3. /\ IsStream(fresh) /\ Len(fresh) = cur
          /\ fresh[cur].id = case /\ fresh[cur].status = "Failed"
          /\ \A m \in 1 .. cur - 1 : fresh[m] = failed[m]
      <4>1. ReadyFor(failed, cur, case)
        BY <1>2, <1>6, <3>2 DEF ReadyFor
      <4>2. Marked(JunitMark(failed, case, "Failed", FALSE), failed, cur, case, "Failed")
        BY <4>1, MarkLast
      <4> QED
        BY <3>1, <4>2 DEF Marked
    <3> QED
      BY <1>6, <3>3
  <2> QED
    BY <2>1, <2>2
<1>8. /\ Len(ledger') = cur /\ ledger'[cur].status = "Failed"
      /\ \A m \in 1 .. cur - 1 : ledger'[m] = ledger[m]
  <2>1. CASE ~view.ended
    <3>1. ledger' = Append(ledger, [of |-> cur, status |-> "Failed"]) /\ Len(ledger) = cur - 1
      BY <1>2, <2>1 DEF JudgeCrash, CountCrash
    <3> QED
      BY <1>1, <1>2, <3>1
  <2>2. CASE view.ended
    <3>1. Len(ledger) = cur /\ ledger[cur].status = view.parsed
      BY <1>1, <1>2, <2>2 DEF IInv, EndedIsLast, Last
    <3>2. CASE view.parsed # "Failed"
      <4>1. ledger' = [ledger EXCEPT ![cur] = [of |-> @.of, status |-> "Failed"]]
        BY <2>2, <3>1, <3>2 DEF JudgeCrash, CountCrash
      <4>2. DOMAIN ledger = 1 .. cur
        BY <1>1, <3>1, LenProperties
      <4>3. Len(ledger') = cur
        BY <1>1, <1>2, <3>1, <4>1, <4>2
      <4> QED
        BY <1>2, <4>1, <4>2, <4>3
    <3>3. CASE view.parsed = "Failed"
      BY <2>2, <3>1, <3>3 DEF JudgeCrash, CountCrash
    <3> QED
      BY <3>2, <3>3
  <2> QED
    BY <2>1, <2>2
<1>9. \A m \in 1 .. cur : m \in 1 .. cur - 1 \/ m = cur
  BY <1>2
<1> QED
  BY <1>2, <1>7, <1>8, <1>9 DEF Filed, case

LEMMA JunitStep ==
    ASSUME TidyTests, OwnCases, IInv, CrashInv, GenuineInv, CountedInv, OneCaseInv, PlainInv,
           ReportInv, JunitInv, [Next]_vars
    PROVE  JunitInv'
<1>1. HeardOK /\ ReadOK /\ TurnOK /\ cur \in Nat \ {0} /\ IsStream(report)
  BY DEF CountedInv, TellInv, IInv, TypeOK, ReportInv
<1>2. ASSUME UNCHANGED <<cur, ledger, report, tally>>, view'.ended = view.ended,
             \/ pc' = pc
             \/ pc \in WithChild /\ pc' \in WithChild
      PROVE  JunitInv'
  BY <1>2 DEF JunitInv, WithChild
<1>3. CASE ChildStep \/ ReaderStep \/ Tick \/ UNCHANGED vars
  <2>1. UNCHANGED <<mainVars, ledger>>
    BY <1>3 DEF ChildStep, ReaderStep, ReadChunk, ReadEof, ReadFails, Tick, vars, ghosts
  <2> QED
    BY <1>2, <2>1 DEF mainVars
<1>4. CASE CheckDeadline \/ ReceiveError \/ ReceiveTimeout \/ ReceiveDisconnected \/ Kill \/ Wait
  <2>1. /\ UNCHANGED <<cur, ledger, report, tally>> /\ view'.ended = view.ended
        /\ pc \in WithChild /\ pc' \in WithChild
    BY <1>4
       DEF CheckDeadline, ReceiveError, ReceiveTimeout, ReceiveDisconnected, Kill, Wait, GiveUp,
           Goto, ghosts, WithChild, IInv, TypeOK
  <2> QED
    BY <1>2, <2>1
<1>5. CASE Spawn
  <2>1. /\ pc = "spawn" /\ pc' = "check" /\ UNCHANGED <<cur, ledger, report>>
        /\ view'.ended = FALSE
    BY <1>5 DEF Spawn, Goto, FreshView, ghosts
  <2> QED
    BY <2>1 DEF JunitInv, WithChild
<1>6. CASE SpawnFails \/ FinishFails
  <2>1. pc' = "bailed"
    BY <1>6 DEF SpawnFails, FinishFails, Goto
  <2> QED
    BY <2>1 DEF JunitInv
<1>7. CASE Receive
  BY <1>1, <1>7, JunitReceive
<1>8. ASSUME pc = "judge", NEW fresh, fresh = JunitCases(report'),
             IsStream(fresh), Len(fresh) = cur, Len(ledger') = cur, Filed(fresh, ledger'),
             \/ pc' = "finish" /\ UNCHANGED cur
             \/ pc' = "spawn" /\ cur' = cur + 1
      PROVE  JunitInv'
  BY <1>1, <1>8 DEF JunitInv, WithChild
<1>9. CASE JudgeSound
  <2>1. /\ pc = "judge" /\ UNCHANGED <<report, ledger>> /\ view.ended
        /\ \/ pc' = "finish" /\ UNCHANGED cur
           \/ pc' = "spawn" /\ cur' = cur + 1
    BY <1>9, SoundHasEnded DEF JudgeSound, NextCase, Goto, ghosts
  <2>2. PICK fresh : fresh = JunitCases(report)
    OBVIOUS
  <2>3. IsStream(fresh) /\ Filed(fresh, ledger) /\ Len(ledger) = cur /\ Len(fresh) = cur
    BY <2>1, <2>2 DEF JunitInv, WithChild
  <2> QED
    BY <1>8, <2>1, <2>2, <2>3
<1>10. CASE JudgeCrash
  <2>1. /\ pc = "judge"
        /\ \/ pc' = "finish" /\ UNCHANGED cur
           \/ pc' = "spawn" /\ cur' = cur + 1
    BY <1>10 DEF JudgeCrash, NextCase, Goto
  <2>2. PICK fresh : fresh = JunitCases(report')
    OBVIOUS
  <2>3. IsStream(fresh) /\ Len(fresh) = cur /\ Len(ledger') = cur /\ Filed(fresh, ledger')
    BY <1>1, <1>10, <2>2, JunitCrash
  <2> QED
    BY <1>8, <2>1, <2>2, <2>3
<1>11. CASE Finish
  <2>1. /\ pc = "finish" /\ pc' = "exit" /\ UNCHANGED <<cur, ledger, tally>>
        /\ report' = Append(report, DoneEvent(tally))
    BY <1>11 DEF Finish, Goto, ghosts
  <2>2. JunitCases(report') = JunitCases(report) /\ ConsoleTotals(report') = tally
    <3>1. DoneEvent(tally).type = "Done" /\ DoneEvent(tally).tally = tally
      BY DEF DoneEvent
    <3> QED
      BY <1>1, <2>1, <3>1, JunitGrows
  <2> QED
    BY <2>1, <2>2 DEF JunitInv, WithChild
<1> QED
  BY <1>3, <1>4, <1>5, <1>6, <1>7, <1>9, <1>10, <1>11 DEF Next, MainStep, Terminated

LEMMA InitJunit == Init => PlainInv /\ JunitInv
<1> SUFFICES ASSUME Init PROVE PlainInv /\ JunitInv
  OBVIOUS
<1>1. /\ child.closed = FALSE /\ child.spoiled = 0 /\ child.turn = 1 /\ child.runs = <<>>
      /\ out = <<>> /\ report = <<>> /\ ledger = <<>> /\ cur = 1 /\ pc \in {"spawn", "bailed"}
  BY DEF Init
<1>2. PlainInv
  BY <1>1 DEF PlainInv
<1>3. JunitCases(report) = <<>>
  BY <1>1, ShownFirst DEF JunitCases, NothingShown
<1>4. JunitInv
  <2>1. IsStream(<<>>) /\ Len(<<>>) = 0
    BY DEF IsStream
  <2>2. Filed(<<>>, ledger)
    BY <1>1 DEF Filed
  <2> QED
    BY <1>1, <1>3, <2>1, <2>2 DEF JunitInv, WithChild
<1> QED
  BY <1>2, <1>4

(* Whatever is killed, crashes or times out: with what the host makes up,  *)
(* the JUnit file has each case run once, with the verdict the host counts *)
(* for it, and the console ends with the same totals.                      *)
THEOREM ReportersTellTheSame ==
    ASSUME OwnCases, TidyTests
    PROVE  Spec => []ReportersAgree
<1>1. Init => OneCaseInv /\ ReportInv /\ PlainInv /\ JunitInv
  BY InitReport, InitJunit
<1>2. IInv /\ CrashInv /\ GenuineInv /\ CountedInv /\ OneCaseInv /\ ReportInv /\ PlainInv
        /\ JunitInv /\ [Next]_vars
        => OneCaseInv' /\ ReportInv' /\ PlainInv' /\ JunitInv'
  <2>1. "noise" \notin Faults
    BY DEF TidyTests
  <2>2. CountedInv => TurnOK
    BY DEF CountedInv, TellInv
  <2> QED
    BY <2>1, <2>2, OneCaseStep, ReportStep, PlainStep, JunitStep
<1>3. IInv /\ CrashInv /\ JunitInv => ReportersAgree
  <2> SUFFICES ASSUME IInv, CrashInv, JunitInv, Finished PROVE
         /\ JunitFailures(report) = tally.failed
         /\ Len(JunitCases(report)) = Len(fate)
         /\ ConsoleTotals(report) = tally
    BY DEF ReportersAgree
  <2> DEFINE entries == JunitCases(report)
  <2>1. /\ pc = "exit" /\ IsStream(entries) /\ Filed(entries, ledger)
        /\ Len(ledger) = cur /\ Len(entries) = cur /\ ConsoleTotals(report) = tally
    BY DEF Finished, JunitInv
  <2>2. Len(fate) = cur
    BY <2>1 DEF CrashInv, FateOK
  <2>3. DOMAIN entries = 1 .. cur /\ DOMAIN ledger = 1 .. cur
    BY <2>1, LenProperties DEF IsStream, IInv, TypeOK
  <2>4. {k \in DOMAIN entries : entries[k].status = "Failed"}
            = {m \in DOMAIN ledger : ledger[m].status = "Failed"}
    BY <2>1, <2>3 DEF Filed
  <2>5. tally.failed = Cardinality({m \in DOMAIN ledger : ledger[m].status = "Failed"})
    BY DEF IInv, TallyMatchesLedger, Field, TestStatus
  <2> QED
    BY <2>1, <2>2, <2>4, <2>5 DEF JunitFailures
<1> QED
  BY <1>1, <1>2, <1>3, CrashInvariance, CountedInvariance, PTL DEF Spec

=============================================================================
