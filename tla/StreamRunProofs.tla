---------------------------- MODULE StreamRunProofs ----------------------------
(***************************************************************************)
(* Proofs about StreamRun: which reports are written, for every target,    *)
(* every test binary and whatever goes wrong.                              *)
(***************************************************************************)
EXTENDS StreamRun, TLAPS, SequenceTheorems, FiniteSetTheorems

BeforeReports == {"configure", "prepare", "setup", "check", "read", "report", "finish"}

(* Where the host is tells which reports there are.                        *)
ReportsInv ==
    /\ target.reporters \in Seq(STRING)
    /\ pc \in BeforeReports => finished = <<>>
    /\ pc \in {"wait", "exit"} => finished = target.reporters
    /\ pc = "wait" => ~(failed > 0)
    /\ pc = "bailed" =>
          /\ exitCode = 1
          /\ finished \notin {<<>>, target.reporters} => "disk" \in Faults
          /\ (finished = target.reporters /\ finished # <<>>) =>
                "oserror" \in Faults /\ target.board = "host" /\ ~(failed > 0)

(* At the start nothing is written.                                        *)
LEMMA InitReports == Init => ReportsInv
BY StreamAssumption DEF StreamAssumption, Target, Init, ReportsInv, BeforeReports

(* A report that cannot be written ends the list before its end.           *)
LEMMA FinishFailsReports == ReportsInv /\ FinishFails => ReportsInv'
<1> SUFFICES ASSUME ReportsInv, FinishFails PROVE ReportsInv'
  OBVIOUS
<1>1. PICK n \in DOMAIN target.reporters : finished' = SubSeq(target.reporters, 1, n - 1)
  BY DEF FinishFails
<1>2. target.reporters \in Seq(STRING) /\ target' = target
  BY DEF ReportsInv, FinishFails
<1>3. Len(finished') = n - 1 /\ n \in 1 .. Len(target.reporters)
  BY <1>1, <1>2
<1>4. finished' # target.reporters
  BY <1>2, <1>3
<1> QED
  BY <1>2, <1>4 DEF FinishFails, Goto, ReportsInv, BeforeReports

(* Every step keeps the invariant.                                         *)
LEMMA ReportsStep == ReportsInv /\ [Next]_vars => ReportsInv'
<1> SUFFICES ASSUME ReportsInv, [Next]_vars PROVE ReportsInv'
  OBVIOUS
<1>1. CASE Configure \/ PrepareFails \/ Setup \/ CheckDeadline
  BY <1>1 DEF Configure, PrepareFails, Setup, CheckDeadline, Bail, Proceed, Goto, ReportsInv,
              BeforeReports
<1>2. CASE Spawn
  BY <1>2 DEF Spawn, Goto, ReportsInv, BeforeReports
<1>3. CASE ReadChunk
  <2>1. pc = "read" /\ target' = target /\ finished' = finished
        /\ (pc' = "report" \/ (pc' = "bailed" /\ exitCode' = 1))
    BY <1>3 DEF ReadChunk, Bail, Goto
  <2> QED
    BY <2>1 DEF ReportsInv, BeforeReports
<1>4. CASE ReportEvent
  <2>1. /\ pc = "report" /\ target' = target /\ finished' = finished
        /\ pc' \in {"report", "finish"}
    BY <1>4 DEF ReportEvent, Goto, Onward
  <2> QED
    BY <2>1 DEF ReportsInv, BeforeReports
<1>5. CASE ReportedAll \/ ReadEnds \/ ReadFails \/ Wait \/ WaitFails
  BY <1>5 DEF ReportedAll, ReadEnds, ReadFails, Wait, WaitFails, Bail, Proceed, Goto, ReportsInv,
              BeforeReports
<1>6. CASE FinishReporters
  BY <1>6 DEF FinishReporters, Goto, ReportsInv, BeforeReports
<1>7. CASE ChildStep \/ Tick \/ UNCHANGED vars
  BY <1>7 DEF ChildStep, Tick, vars, hostVars, ReportsInv
<1> QED
  BY <1>1, <1>2, <1>3, <1>4, <1>5, <1>6, <1>7, FinishFailsReports DEF Next, HostStep, Terminated

(* A host that ends with the verdict of the stream has written every       *)
(* report it was asked for; one that bails has not, unless no failure is   *)
(* known and only the wait for the process failed.                         *)
THEOREM ReportsAreWritten == Spec => []ReportsAreAllOrNothing
<1>1. ReportsInv => ReportsAreAllOrNothing
  BY DEF ReportsInv, ReportsAreAllOrNothing
<1> QED
  BY InitReports, ReportsStep, <1>1, PTL DEF Spec

-----------------------------------------------------------------------------
(* What the reporters are told.                                            *)
Items == {Lost, Bad} \cup Event(Seq(STRING), [suite : Seq(STRING), leaf : Seq(STRING)])

Told == got - Len(todo)

(* What was read lies in the pipe, and what is still to be reported is its *)
(* last part.                                                              *)
PipeOK ==
    /\ out \in Seq(Items) /\ todo \in Seq(Items)
    /\ got \in Nat /\ got <= Len(out) /\ Len(todo) <= got
    /\ \A i \in 1 .. Len(todo) : todo[i] = out[Told + i]
    /\ child \in [program : Programs \cup {<<>>}, step : Nat \ {0}, status : Nat, spoiled : Nat]

(* The report is what was told, in order.                                  *)
OrderOK ==
    /\ report \in Seq(Items)
    /\ Len(report) = Cardinality(Intact(Told))
    /\ \A k \in Intact(Told) : report[Cardinality(Intact(k))] = out[k]
    /\ \A n \in DOMAIN report : \E k \in Intact(Told) : report[n] = out[k]

BeforeDone == {"configure", "prepare", "setup", "check", "read", "report"}

(* A DONE is the last that is told, and ends the loop.                     *)
DoneOK ==
    /\ \A k \in 1 .. Told : IsTerminal(out[k]) => k = Told
    /\ DonesIn(report) \subseteq {Len(report)}
    /\ DoneSeen <=> (Told > 0 /\ IsTerminal(out[Told]))
    /\ DoneSeen => report[Len(report)] = out[Told]
    /\ pc \in BeforeDone => ~DoneSeen
    /\ (pc # "report" /\ ~DoneSeen) => todo = <<>>

StreamInv == PipeOK /\ OrderOK /\ DoneOK

(* The intact events of a stream, counted.                                 *)
LEMMA IntactCount ==
    ASSUME NEW m \in Nat
    PROVE  /\ Intact(m) \subseteq 1 .. m /\ IsFiniteSet(Intact(m)) /\ Cardinality(Intact(m)) \in Nat
           /\ out[m + 1] = Lost => Intact(m + 1) = Intact(m)
           /\ out[m + 1] # Lost =>
                 /\ Intact(m + 1) = Intact(m) \cup {m + 1}
                 /\ Cardinality(Intact(m + 1)) = Cardinality(Intact(m)) + 1
<1>1. \A k : k \in 1 .. m + 1 <=> k \in 1 .. m \/ k = m + 1
  OBVIOUS
<1>2. Intact(m) \subseteq 1 .. m /\ m + 1 \notin Intact(m)
  BY DEF Intact
<1>3. IsFiniteSet(Intact(m)) /\ Cardinality(Intact(m)) \in Nat
  <2>1. Intact(m) \in SUBSET Nat /\ \A k \in Intact(m) : k <= m
    BY <1>2
  <2>2. IsFiniteSet(Intact(m))
    BY <2>1, FS_BoundedSetOfNaturals
  <2> QED
    BY <2>2, FS_CardinalityType
<1>4. CASE out[m + 1] = Lost
  BY <1>1, <1>2, <1>3, <1>4 DEF Intact
<1>5. CASE out[m + 1] # Lost
  <2>1. Intact(m + 1) = Intact(m) \cup {m + 1}
    BY <1>1, <1>5 DEF Intact
  <2> QED
    BY <1>2, <1>3, <1>5, <2>1, FS_AddElement
<1> QED
  BY <1>2, <1>3, <1>4, <1>5

(* The place of an intact event in the report.                             *)
LEMMA IntactPlace ==
    ASSUME NEW m \in Nat, NEW k \in Intact(m)
    PROVE  Cardinality(Intact(k)) \in 1 .. Cardinality(Intact(m))
<1>1. k \in 1 .. m /\ k \in Intact(k) /\ Intact(k) \subseteq Intact(m)
  BY DEF Intact
<1>2. Cardinality(Intact(k)) <= Cardinality(Intact(m))
  BY <1>1, IntactCount, FS_Subset
<1>3. /\ Cardinality(Intact(k)) \in Nat /\ Cardinality(Intact(m)) \in Nat
      /\ IsFiniteSet(Intact(k)) /\ Intact(k) # {}
  BY <1>1, IntactCount
<1>4. Cardinality(Intact(k)) # 0
  BY <1>3, FS_EmptySet
<1> QED
  BY <1>2, <1>3, <1>4

(* At the start nothing was told.                                          *)
LEMMA InitTold == Init => StreamInv
<1> SUFFICES ASSUME Init PROVE StreamInv
  OBVIOUS
<1>1. /\ out = <<>> /\ todo = <<>> /\ report = <<>> /\ got = 0 /\ pc = "configure"
      /\ child = [program |-> <<>>, step |-> 1, status |-> 0, spoiled |-> 0]
  BY DEF Init
<1>2. Told = 0 /\ Intact(0) = {} /\ Cardinality({}) = 0 /\ Len(report) = 0
  <2>1. Len(todo) = 0 /\ Len(report) = 0 /\ got = 0
    BY <1>1
  <2>2. Told = 0
    BY <2>1 DEF Told
  <2>3. Intact(0) = {}
    BY DEF Intact
  <2> QED
    BY <2>1, <2>2, <2>3, FS_EmptySet
<1>3. PipeOK
  BY <1>1 DEF PipeOK
<1>4. OrderOK
  <2>1. report \in Seq(Items) /\ DOMAIN report = {}
    BY <1>1
  <2> QED
    BY <1>2, <2>1 DEF OrderOK
<1>5. DoneOK
  BY <1>1, <1>2 DEF DoneOK, DoneSeen, DonesIn
<1> QED
  BY <1>3, <1>4, <1>5 DEF StreamInv

(* Steps that neither write nor read nor report.                           *)
LEMMA QuietSteps ==
    ASSUME StreamInv, UNCHANGED <<out, todo, got, report>>,
           child' \in [program : Programs \cup {<<>>}, step : Nat \ {0}, status : Nat,
                       spoiled : Nat],
           pc' \in BeforeDone => pc \in BeforeDone,
           pc' # "report" => pc # "report" \/ todo = <<>>
    PROVE  StreamInv'
<1>1. Told' = Told /\ DoneSeen' = DoneSeen
  BY DEF Told, DoneSeen, DonesIn
<1>2. PipeOK'
  BY <1>1 DEF StreamInv, PipeOK
<1>3. OrderOK'
  BY <1>1 DEF StreamInv, OrderOK, Intact
<1>4. DoneOK'
  BY <1>1 DEF StreamInv, DoneOK, DonesIn
<1> QED
  BY <1>2, <1>3, <1>4 DEF StreamInv

(* One more event in the pipe disturbs nothing that was told.              *)
LEMMA WriteStep ==
    ASSUME StreamInv, NEW event \in Items, Write(event), UNCHANGED <<hostVars, got>>
    PROVE  StreamInv'
<1>1. PICK seen \in Items : out' = Append(out, seen)
  BY DEF Write, Items
<1>2. UNCHANGED <<pc, todo, got, report>>
  BY DEF hostVars
<1>3. /\ out \in Seq(Items) /\ Len(out) \in Nat /\ todo \in Seq(Items) /\ Len(todo) \in Nat
      /\ got \in Nat /\ got <= Len(out) /\ Len(todo) <= got
      /\ \A i \in 1 .. Len(todo) : todo[i] = out[Told + i]
  BY LenProperties DEF StreamInv, PipeOK
<1>4. out' \in Seq(Items) /\ Len(out') = Len(out) + 1 /\ \A k \in 1 .. Len(out) : out'[k] = out[k]
  BY <1>1, <1>3, AppendProperties
<1>5. Told' = Told /\ Told \in Nat /\ Told <= Len(out) /\ Told + Len(todo) = got
  BY <1>2, <1>3 DEF Told
<1>6. \A k \in 1 .. Told : out'[k] = out[k]
  BY <1>3, <1>4, <1>5
<1>7. \A k \in 0 .. Told : Intact(k)' = Intact(k)
  BY <1>3, <1>5, <1>6 DEF Intact
<1>8. PipeOK'
  <2>1. child' \in [program : Programs \cup {<<>>}, step : Nat \ {0}, status : Nat, spoiled : Nat]
    <3>1. child \in [program : Programs \cup {<<>>}, step : Nat \ {0}, status : Nat, spoiled : Nat]
      BY DEF StreamInv, PipeOK
    <3>2. \/ child' = [child EXCEPT !.step = @ + 1]
          \/ child' = [child EXCEPT !.step = @ + 1, !.spoiled = @ + 1]
      BY DEF Write
    <3>3. child.step + 1 \in Nat \ {0} /\ child.spoiled + 1 \in Nat
      BY <3>1
    <3>4. CASE child' = [child EXCEPT !.step = @ + 1]
      BY <3>1, <3>3, <3>4
    <3>5. CASE child' = [child EXCEPT !.step = @ + 1, !.spoiled = @ + 1]
      BY <3>1, <3>3, <3>5
    <3> QED
      BY <3>2, <3>4, <3>5
  <2>2. \A i \in 1 .. Len(todo) : todo[i] = out'[Told + i]
    <3>1. \A i \in 1 .. Len(todo) : Told + i \in 1 .. Len(out)
      BY <1>3, <1>5
    <3> QED
      BY <1>3, <1>4, <3>1
  <2> QED
    BY <1>2, <1>3, <1>4, <1>5, <2>1, <2>2 DEF PipeOK
<1>9. OrderOK'
  <2>1. \A k \in Intact(Told) : k \in 1 .. Told
    BY DEF Intact
  <2>2. Intact(Told)' = Intact(Told)
    BY <1>5, <1>7
  <2>3. \A k \in Intact(Told) : Intact(k)' = Intact(k)
    BY <1>5, <1>7, <2>1
  <2> QED
    BY <1>2, <1>5, <1>6, <2>1, <2>2, <2>3 DEF StreamInv, OrderOK
<1>10. DoneOK'
  BY <1>2, <1>5, <1>6 DEF StreamInv, DoneOK, DoneSeen, DonesIn
<1> QED
  BY <1>8, <1>9, <1>10 DEF StreamInv

(* A read makes its chunk the next events to tell.                         *)
LEMMA ReadStep ==
    ASSUME StreamInv, ReadChunk PROVE StreamInv'
<1>1. CASE Bail
  BY <1>1, QuietSteps DEF Bail, Goto, StreamInv, PipeOK, ReadChunk, DoneOK, BeforeDone
<1>2. CASE ~Bail
  <2>1. PICK upto \in got + 1 .. Len(out) :
           /\ got' = upto /\ todo' = SubSeq(out, got + 1, upto)
           /\ pc = "read" /\ pc' = "report" /\ UNCHANGED <<report, child, out>>
    BY <1>2 DEF ReadChunk, Consumed, Goto
  <2>2. /\ out \in Seq(Items) /\ Len(out) \in Nat /\ got \in Nat /\ upto \in Nat
        /\ todo = <<>> /\ Told = got
    BY <2>1, LenProperties DEF StreamInv, PipeOK, DoneOK, BeforeDone, Told
  <2>3. /\ todo' \in Seq(Items) /\ Len(todo') = upto - got
        /\ \A i \in 1 .. upto - got : todo'[i] = out[got + 1 + i - 1]
    <3>1. \A i \in got + 1 .. upto : out[i] \in Items
      BY <2>1, <2>2, ElementOfSeq
    <3>2. got + 1 <= upto /\ upto - (got + 1) + 1 = upto - got
      BY <2>1, <2>2
    <3> QED
      BY <2>1, <2>2, <3>1, <3>2, SubSeqProperties
  <2>4. Told' = Told
    BY <2>1, <2>2, <2>3 DEF Told
  <2>5. PipeOK'
    <3>1. \A i \in 1 .. Len(todo') : todo'[i] = out[Told + i]
      BY <2>2, <2>3
    <3>2. got' \in Nat /\ got' <= Len(out') /\ Len(todo') <= got'
      BY <2>1, <2>2, <2>3
    <3> QED
      BY <2>1, <2>2, <2>3, <2>4, <3>1, <3>2 DEF StreamInv, PipeOK
  <2>6. OrderOK'
    BY <2>1, <2>4 DEF StreamInv, OrderOK, Intact
  <2>7. DoneOK'
    BY <2>1, <2>4 DEF StreamInv, DoneOK, DoneSeen, DonesIn, BeforeDone
  <2> QED
    BY <2>5, <2>6, <2>7 DEF StreamInv
<1> QED
  BY <1>1, <1>2

(* The reporters are told the next event.                                  *)
LEMMA ReportStep ==
    ASSUME StreamInv, ReportEvent PROVE StreamInv'
<1> DEFINE event == Head(todo)
           next == Told + 1
<1>1. /\ pc = "report" /\ todo # <<>> /\ todo' = Tail(todo)
      /\ report' = IF event = Lost THEN report ELSE Append(report, event)
      /\ pc' = IF IsTerminal(event) THEN "finish" ELSE "report"
      /\ UNCHANGED <<child, out, got>>
  BY DEF ReportEvent, Goto, Onward
<1>2. /\ out \in Seq(Items) /\ Len(out) \in Nat /\ todo \in Seq(Items) /\ Len(todo) \in Nat
      /\ got \in Nat /\ got <= Len(out) /\ Len(todo) <= got
      /\ \A i \in 1 .. Len(todo) : todo[i] = out[Told + i]
      /\ report \in Seq(Items) /\ Len(report) \in Nat
  BY LenProperties DEF StreamInv, PipeOK, OrderOK
<1>3. /\ Len(todo) > 0 /\ event = todo[1] /\ event \in Items
      /\ todo' \in Seq(Items) /\ Len(todo') = Len(todo) - 1
      /\ \A i \in 1 .. Len(todo) - 1 : todo'[i] = todo[i + 1]
  BY <1>1, <1>2, HeadTailProperties, EmptySeq
<1>4. Told \in Nat /\ Told' = next /\ next <= Len(out) /\ out[next] = event
  BY <1>1, <1>2, <1>3 DEF Told
<1>5. /\ Len(report) = Cardinality(Intact(Told))
      /\ \A k \in Intact(Told) : report[Cardinality(Intact(k))] = out[k]
      /\ \A n \in DOMAIN report : \E k \in Intact(Told) : report[n] = out[k]
  BY DEF StreamInv, OrderOK
<1>6. \A m : Intact(m)' = Intact(m)
  BY <1>1 DEF Intact
<1>7. PipeOK'
  <2>1. \A i \in 1 .. Len(todo') : todo'[i] = out[next + i]
    BY <1>2, <1>3, <1>4
  <2> QED
    BY <1>1, <1>2, <1>3, <1>4, <2>1 DEF StreamInv, PipeOK
<1> HIDE DEF event, next
<1>8. OrderOK'
  <2>1. CASE event = Lost
    <3>1. Intact(next) = Intact(Told) /\ report' = report
      BY <1>1, <1>4, <2>1, IntactCount DEF next
    <3> QED
      BY <1>1, <1>2, <1>4, <1>5, <1>6, <3>1 DEF OrderOK
  <2>2. CASE event # Lost
    <3>1. /\ Intact(next) = Intact(Told) \cup {next}
          /\ Cardinality(Intact(next)) = Cardinality(Intact(Told)) + 1
      BY <1>4, <2>2, IntactCount DEF next
    <3>2. /\ report' \in Seq(Items) /\ Len(report') = Len(report) + 1
          /\ \A n \in 1 .. Len(report) : report'[n] = report[n]
          /\ report'[Len(report) + 1] = event
      BY <1>1, <1>2, <1>3, <2>2, AppendProperties
    <3>3. \A k \in Intact(Told) : Cardinality(Intact(k)) \in 1 .. Len(report)
      BY <1>4, <1>5, IntactPlace
    <3>4. \A k \in Intact(next) : report'[Cardinality(Intact(k))] = out[k]
      BY <1>4, <1>5, <3>1, <3>2, <3>3
    <3>5. \A n \in DOMAIN report' : \E k \in Intact(next) : report'[n] = out[k]
      <4>1. DOMAIN report = 1 .. Len(report) /\ DOMAIN report' = 1 .. Len(report) + 1
        BY <1>2, <3>2, LenProperties
      <4>2. ASSUME NEW n \in 1 .. Len(report) PROVE \E k \in Intact(next) : report'[n] = out[k]
        BY <1>5, <3>1, <3>2, <4>1
      <4>3. report'[Len(report) + 1] = out[next] /\ next \in Intact(next)
        BY <1>4, <3>1, <3>2
      <4>4. \A n \in 1 .. Len(report) + 1 : n \in 1 .. Len(report) \/ n = Len(report) + 1
        BY <1>2
      <4> QED
        BY <4>1, <4>2, <4>3, <4>4
    <3> QED
      BY <1>1, <1>4, <1>5, <1>6, <3>1, <3>2, <3>4, <3>5 DEF OrderOK
  <2> QED
    BY <2>1, <2>2
<1>9. DoneOK'
  <2>1. /\ ~DoneSeen /\ \A k \in 1 .. Told : ~IsTerminal(out[k])
    BY <1>1, <1>4 DEF StreamInv, DoneOK, BeforeDone
  <2>2. \A k \in 1 .. next : k \in 1 .. Told \/ k = next
    BY <1>4 DEF next
  <2>3. next > 0
    BY <1>4 DEF next
  <2>4. CASE event = Lost
    <3>1. ~IsTerminal(event) /\ report' = report
      BY <1>1, <2>4 DEF IsTerminal, Lost
    <3>2. DonesIn(report') = {} /\ ~DoneSeen'
      BY <2>1, <3>1 DEF DoneSeen, DonesIn
    <3> QED
      BY <1>1, <1>4, <2>1, <2>2, <2>3, <3>1, <3>2 DEF DoneOK, BeforeDone
  <2>5. CASE event # Lost
    <3>1. /\ DOMAIN report' = 1 .. Len(report) + 1 /\ Len(report') = Len(report) + 1
          /\ \A n \in 1 .. Len(report) : report'[n] = report[n]
          /\ report'[Len(report) + 1] = event
      BY <1>1, <1>2, <1>3, <2>5, AppendProperties
    <3>2. \A n \in 1 .. Len(report) : ~IsTerminal(report[n])
      BY <1>2, <2>1 DEF DoneSeen, DonesIn
    <3>3. DonesIn(report') = IF IsTerminal(event) THEN {Len(report')} ELSE {}
      BY <1>2, <3>1, <3>2 DEF DonesIn
    <3>4. DoneSeen' <=> IsTerminal(event)
      BY <3>3 DEF DoneSeen
    <3> QED
      BY <1>1, <1>4, <2>1, <2>2, <2>3, <3>1, <3>3, <3>4 DEF DoneOK, BeforeDone
  <2> QED
    BY <2>4, <2>5
<1> QED
  BY <1>7, <1>8, <1>9 DEF StreamInv

(* Every step keeps the invariant.                                         *)
LEMMA StreamStep == StreamInv /\ [Next]_vars => StreamInv'
<1> SUFFICES ASSUME StreamInv, [Next]_vars PROVE StreamInv'
  OBVIOUS
<1> DEFINE ChildType == [program : Programs \cup {<<>>}, step : Nat \ {0}, status : Nat,
                         spoiled : Nat]
<1>1. child \in ChildType
  BY DEF StreamInv, PipeOK
<1>2. CASE ChildStep
  <2>1. UNCHANGED <<hostVars, got>> /\ UNCHANGED <<pc, todo, report>>
    BY <1>2 DEF ChildStep, hostVars
  <2>2. CASE ChildWrite
    <3>1. Write(child.program[child.step]) /\ child.step \in 1 .. Len(child.program)
      BY <1>1, <2>2 DEF ChildWrite, More
    <3>2. child.program \in Seq(Items)
      <4>1. \A program \in Programs :
               program \in Seq({Lost} \cup Event(Seq(STRING), [suite : Seq(STRING),
                                                               leaf : Seq(STRING)]))
        BY StreamAssumption
      <4>2. {Lost} \cup Event(Seq(STRING), [suite : Seq(STRING), leaf : Seq(STRING)]) \subseteq Items
        BY DEF Items
      <4>3. \A program \in Programs : program \in Seq(Items)
        BY <4>1, <4>2
      <4>4. child.program \in Programs \/ child.program = <<>>
        BY <1>1
      <4> HIDE DEF ChildType
      <4> QED
        BY <4>3, <4>4, EmptySeq
    <3>3. child.program[child.step] \in Items
      BY <3>1, <3>2
    <3> QED
      BY <2>1, <3>1, <3>3, WriteStep
  <2>3. CASE ChildReturn \/ ChildCrash
    <3>1. out' = out /\ \E status \in Nat : child' = [child EXCEPT !.status = status]
      BY <2>3 DEF ChildReturn, ChildCrash, Signal
    <3>2. child' \in ChildType
      BY <1>1, <3>1
    <3> QED
      BY <2>1, <3>1, <3>2, QuietSteps DEF DoneOK
  <2> QED
    BY <1>2, <2>2, <2>3 DEF ChildStep
<1>3. CASE Spawn
  <2>1. UNCHANGED <<out, todo, got, report>> /\ pc = "prepare" /\ pc' = "setup"
    BY <1>3 DEF Spawn, Goto
  <2>2. \E program \in Programs :
           child' = [program |-> program, step |-> 1, status |-> Running, spoiled |-> 0]
    BY <1>3 DEF Spawn
  <2>3. child' \in ChildType
    BY <2>2 DEF Running
  <2> QED
    BY <2>1, <2>3, QuietSteps DEF BeforeDone
<1>4. ASSUME UNCHANGED <<out, todo, got, report, child>>,
             pc' \in BeforeDone => pc \in BeforeDone,
             pc' # "report" => pc # "report" \/ todo = <<>>
      PROVE  StreamInv'
  BY <1>1, <1>4, QuietSteps
<1>5. CASE Configure \/ PrepareFails \/ Setup \/ CheckDeadline
  BY <1>4, <1>5 DEF Configure, PrepareFails, Setup, CheckDeadline, Bail, Proceed, Goto, BeforeDone
<1>6. CASE ReportedAll \/ ReadEnds \/ ReadFails \/ Wait \/ WaitFails
  BY <1>4, <1>6 DEF ReportedAll, ReadEnds, ReadFails, Wait, WaitFails, Bail, Proceed, Goto,
                   BeforeDone
<1>7. CASE FinishReporters \/ FinishFails
  <2>1. UNCHANGED <<out, todo, got, report, child>> /\ pc = "finish" /\ pc' \in {"exit", "wait", "bailed"}
    BY <1>7 DEF FinishReporters, FinishFails, Goto
  <2> QED
    BY <1>4, <2>1 DEF BeforeDone
<1>8. CASE Tick \/ UNCHANGED vars
  BY <1>4, <1>8 DEF Tick, vars, hostVars
<1> QED
  BY <1>2, <1>3, <1>5, <1>6, <1>7, <1>8, ReadStep, ReportStep DEF Next, HostStep, Terminated

(* However chunks, noise and deaths fall, the reporters are told what the  *)
(* process wrote, in order, once, up to the first DONE.                    *)
THEOREM ReportsFollow == Spec => []ReportFollowsStream
<1>1. StreamInv => ReportFollowsStream
  BY DEF StreamInv, OrderOK, DoneOK, ReportFollowsStream, Told
<1> QED
  BY InitTold, StreamStep, <1>1, PTL DEF Spec

-----------------------------------------------------------------------------
(* The exit code.                                                          *)

(* The count of the DONE, on its way to the exit code.                     *)
CodeOK ==
    /\ failed \in Nat
    /\ failed = IF DoneSeen THEN report[Len(report)].tally.failed ELSE 0
    /\ pc \in BeforeDone \cup {"finish", "wait"} => exitCode = 0
    /\ pc = "wait" => failed = 0
    /\ pc = "exit" => (exitCode = 1 <=> failed > 0)

(* While no event was spoilt the pipe got what the program writes.         *)
CopyOK ==
    /\ pc \in {"configure", "prepare"} => out = <<>> /\ child.status = 0
    /\ child.spoiled = 0 =>
          /\ child.step = Len(out) + 1
          /\ Len(out) <= Len(child.program)
          /\ \A k \in 1 .. Len(out) : out[k] = child.program[k]

(* Every step keeps the way of the count.                                  *)
LEMMA CodeStep == StreamInv /\ CodeOK /\ [Next]_vars => CodeOK'
<1> SUFFICES ASSUME StreamInv, CodeOK, [Next]_vars PROVE CodeOK'
  OBVIOUS
<1>1. ASSUME UNCHANGED <<report, failed, exitCode>>,
             pc' \in BeforeDone \cup {"finish", "wait"} => pc \in BeforeDone \cup {"finish", "wait"},
             pc' = "wait" => pc = "wait",
             pc' = "exit" => pc \in {"exit", "wait"}
      PROVE  CodeOK'
  <2>1. DoneSeen' = DoneSeen
    BY <1>1 DEF DoneSeen, DonesIn
  <2> QED
    BY <1>1, <2>1 DEF CodeOK, BeforeDone
<1>2. ASSUME UNCHANGED <<report, failed>>, pc' = "bailed" PROVE CodeOK'
  BY <1>2 DEF CodeOK, BeforeDone, DoneSeen, DonesIn
<1>3. CASE Configure \/ PrepareFails \/ Setup \/ CheckDeadline
  BY <1>1, <1>2, <1>3
     DEF Configure, PrepareFails, Setup, CheckDeadline, Bail, Proceed, Goto, BeforeDone
<1>4. CASE Spawn
  BY <1>1, <1>4 DEF Spawn, Goto, BeforeDone
<1>5. CASE ReadChunk
  <2>1. /\ pc = "read" /\ UNCHANGED <<report, failed>>
        /\ (pc' = "report" /\ exitCode' = exitCode) \/ pc' = "bailed"
    BY <1>5 DEF ReadChunk, Bail, Goto
  <2> QED
    BY <1>1, <1>2, <2>1 DEF BeforeDone
<1>6. CASE ReportEvent
  <2> DEFINE event == Head(todo)
  <2>1. /\ pc = "report" /\ todo # <<>> /\ exitCode' = exitCode
        /\ report' = IF event = Lost THEN report ELSE Append(report, event)
        /\ failed' = IF IsTerminal(event) THEN event.tally.failed ELSE failed
        /\ pc' = IF IsTerminal(event) THEN "finish" ELSE "report"
    BY <1>6 DEF ReportEvent, Goto, Onward, FailedOf
  <2>2. /\ ~DoneSeen /\ exitCode = 0 /\ failed = 0 /\ report \in Seq(Items) /\ todo \in Seq(Items)
    BY <2>1 DEF StreamInv, DoneOK, OrderOK, PipeOK, CodeOK, BeforeDone
  <2>3. event \in Items
    BY <2>1, <2>2, HeadTailProperties
  <2> HIDE DEF event
  <2>4. CASE IsTerminal(event)
    <3>1. event # Lost /\ event.tally.failed \in Nat
      BY <2>3, <2>4 DEF IsTerminal, Items, Lost, Bad, Event, Tally
    <3>2. /\ Len(report') \in DOMAIN report' /\ report'[Len(report')] = event
      BY <2>1, <2>2, <2>3, <3>1, AppendProperties
    <3>3. DoneSeen'
      BY <2>4, <3>2 DEF DoneSeen, DonesIn
    <3> QED
      BY <2>1, <2>2, <2>4, <3>1, <3>2, <3>3 DEF CodeOK, BeforeDone
  <2>5. CASE ~IsTerminal(event)
    <3>1. ~DoneSeen'
      <4>1. CASE event = Lost
        BY <2>1, <2>2, <4>1 DEF DoneSeen, DonesIn
      <4>2. CASE event # Lost
        <5>1. /\ DOMAIN report' = 1 .. Len(report) + 1 /\ DOMAIN report = 1 .. Len(report)
              /\ Len(report) \in Nat
              /\ \A n \in 1 .. Len(report) : report'[n] = report[n]
              /\ report'[Len(report) + 1] = event
          BY <2>1, <2>2, <2>3, <4>2, AppendProperties, LenProperties
        <5> QED
          BY <2>2, <2>5, <5>1 DEF DoneSeen, DonesIn
      <4> QED
        BY <4>1, <4>2
    <3> QED
      BY <2>1, <2>2, <2>5, <3>1 DEF CodeOK, BeforeDone
  <2> QED
    BY <2>4, <2>5
<1>7. CASE ReportedAll \/ ReadEnds \/ ReadFails \/ Wait
  BY <1>1, <1>7 DEF ReportedAll, ReadEnds, ReadFails, Wait, Proceed, Goto, BeforeDone
<1>11. CASE WaitFails
  <2>1. CASE Bail
    BY <1>2, <1>11, <2>1 DEF WaitFails, Bail, Goto
  <2>2. CASE Proceed("exit")
    BY <1>1, <1>11, <2>2 DEF WaitFails, Proceed, Goto, BeforeDone
  <2> QED
    BY <1>11, <2>1, <2>2 DEF WaitFails
<1>8. CASE FinishReporters
  BY <1>8 DEF FinishReporters, Goto, CodeOK, BeforeDone, DoneSeen, DonesIn
<1>9. CASE FinishFails
  BY <1>2, <1>9 DEF FinishFails, Goto
<1>10. CASE ChildStep \/ Tick \/ UNCHANGED vars
  BY <1>1, <1>10 DEF ChildStep, Tick, vars, hostVars
<1> QED
  BY <1>3, <1>4, <1>5, <1>6, <1>7, <1>8, <1>9, <1>10, <1>11 DEF Next, HostStep, Terminated

(* Every step keeps the pipe a copy of the program.                        *)
LEMMA CopyStep == StreamInv /\ CopyOK /\ [Next]_vars => CopyOK'
<1> SUFFICES ASSUME StreamInv, CopyOK, [Next]_vars PROVE CopyOK'
  OBVIOUS
<1>1. /\ child \in [program : Programs \cup {<<>>}, step : Nat \ {0}, status : Nat, spoiled : Nat]
      /\ out \in Seq(Items) /\ Len(out) \in Nat
  BY LenProperties DEF StreamInv, PipeOK
<1>2. ASSUME UNCHANGED <<out, child>>,
             pc' \in {"configure", "prepare"} => pc \in {"configure", "prepare"}
      PROVE  CopyOK'
  BY <1>2 DEF CopyOK
<1>3. CASE ChildStep
  <2>1. pc' = pc /\ Alive
    BY <1>3 DEF ChildStep, hostVars, ChildWrite, More, ChildReturn, ChildCrash
  <2>2. pc \notin {"configure", "prepare"}
    BY <2>1 DEF CopyOK, Alive, Running
  <2>3. CASE ChildReturn \/ ChildCrash
    <3>1. out' = out /\ \E status \in Nat : child' = [child EXCEPT !.status = status]
      BY <2>3 DEF ChildReturn, ChildCrash, Signal
    <3>2. child'.program = child.program /\ child'.step = child.step /\ child'.spoiled = child.spoiled
      BY <1>1, <3>1
    <3> QED
      BY <2>1, <2>2, <3>1, <3>2 DEF CopyOK
  <2>4. CASE ChildWrite
    <3>1. child.step <= Len(child.program) /\ Write(child.program[child.step])
      BY <2>4 DEF ChildWrite, More
    <3>2. CASE child' = [child EXCEPT !.step = @ + 1, !.spoiled = @ + 1]
      <4>1. child'.spoiled # 0
        BY <1>1, <3>2
      <4> QED
        BY <2>1, <2>2, <4>1 DEF CopyOK
    <3>3. CASE /\ out' = Append(out, child.program[child.step])
               /\ child' = [child EXCEPT !.step = @ + 1]
      <4>1. /\ child'.program = child.program /\ child'.step = child.step + 1
            /\ child'.spoiled = child.spoiled
        BY <1>1, <3>3
      <4>2. /\ Len(out') = Len(out) + 1
            /\ \A k \in 1 .. Len(out) : out'[k] = out[k]
            /\ out'[Len(out) + 1] = child.program[child.step]
        BY <1>1, <3>3, AppendProperties
      <4>3. ASSUME child.spoiled = 0
            PROVE  /\ child'.step = Len(out') + 1
                   /\ Len(out') <= Len(child'.program)
                   /\ \A k \in 1 .. Len(out') : out'[k] = child'.program[k]
        <5>1. /\ child.step = Len(out) + 1
              /\ \A k \in 1 .. Len(out) : out[k] = child.program[k]
          BY <2>2, <4>3 DEF CopyOK
        <5>2. /\ child'.step = Len(out') + 1
              /\ Len(out') <= Len(child'.program)
          BY <1>1, <3>1, <4>1, <4>2, <5>1
        <5>3. ASSUME NEW k \in 1 .. Len(out') PROVE out'[k] = child'.program[k]
          <6>1. k \in 1 .. Len(out) \/ k = Len(out) + 1
            BY <1>1, <4>2, <5>3
          <6> QED
            BY <4>1, <4>2, <5>1, <6>1
        <5> QED
          BY <5>2, <5>3
      <4> QED
        BY <2>1, <2>2, <4>1, <4>3 DEF CopyOK
    <3> QED
      BY <3>1, <3>2, <3>3 DEF Write
  <2> QED
    BY <1>3, <2>3, <2>4 DEF ChildStep
<1>4. CASE Spawn
  <2>1. /\ out' = out /\ out = <<>> /\ pc' = "setup"
        /\ child'.step = 1 /\ child'.program \in Programs
    BY <1>4 DEF Spawn, Goto, CopyOK
  <2>2. Len(out') = 0 /\ Len(child'.program) \in Nat
    BY <2>1, StreamAssumption
  <2> QED
    BY <2>1, <2>2 DEF CopyOK
<1>5. CASE Configure \/ PrepareFails \/ Setup \/ CheckDeadline
  BY <1>2, <1>5 DEF Configure, PrepareFails, Setup, CheckDeadline, Bail, Proceed, Goto
<1>6. CASE ReadChunk
  <2>1. UNCHANGED <<out, child>> /\ pc' \in {"report", "bailed"}
    BY <1>6 DEF ReadChunk, Bail, Goto
  <2> QED
    BY <1>2, <2>1
<1>7. CASE ReportEvent
  <2>1. UNCHANGED <<out, child>> /\ pc' \in {"report", "finish"}
    BY <1>7 DEF ReportEvent, Onward, Goto
  <2> QED
    BY <1>2, <2>1
<1>8. CASE ReportedAll \/ ReadEnds \/ ReadFails \/ Wait \/ WaitFails
  BY <1>2, <1>8 DEF ReportedAll, ReadEnds, ReadFails, Wait, WaitFails, Bail, Proceed, Goto
<1>9. CASE FinishReporters \/ FinishFails
  <2>1. UNCHANGED <<out, child>> /\ pc' \in {"exit", "wait", "bailed"}
    BY <1>9 DEF FinishReporters, FinishFails, Goto
  <2> QED
    BY <1>2, <2>1
<1>10. CASE Tick \/ UNCHANGED vars
  BY <1>2, <1>10 DEF Tick, vars, hostVars
<1> QED
  BY <1>3, <1>4, <1>5, <1>6, <1>7, <1>8, <1>9, <1>10 DEF Next, HostStep, Terminated

(* A process that counts right is judged right.                            *)
LEMMA HonestVerdict ==
    ASSUME HonestPrograms, StreamInv, CopyOK, DoneSeen, child.spoiled = 0
    PROVE  report[Len(report)].tally.failed > 0 <=> FailuresIn(report) # {}
<1> DEFINE program == child.program
<1>1. /\ out \in Seq(Items) /\ Len(out) \in Nat /\ Told \in 1 .. Len(out)
      /\ child.program \in Programs \cup {<<>>}
      /\ report \in Seq(Items) /\ Len(report) \in Nat /\ DOMAIN report = 1 .. Len(report)
  BY LenProperties DEF StreamInv, PipeOK, OrderOK, DoneOK, Told
<1>2. /\ IsTerminal(out[Told]) /\ report[Len(report)] = out[Told]
      /\ \A k \in 1 .. Told : IsTerminal(out[k]) => k = Told
  BY DEF StreamInv, DoneOK
<1>3. Len(out) <= Len(program) /\ \A k \in 1 .. Len(out) : out[k] = program[k]
  BY DEF CopyOK
<1>4. program \in Programs /\ Len(program) \in Nat /\ DOMAIN program = 1 .. Len(program)
  <2>1. program # <<>>
    BY <1>1, <1>3
  <2>2. program \in Programs
    BY <1>1, <2>1
  <2> QED
    BY <2>2, StreamAssumption, LenProperties
<1> HIDE DEF program
<1>5. Told \in DonesIn(program) /\ \A c \in DonesIn(program) : Told <= c
  <2>1. Told \in DOMAIN program /\ program[Told] = out[Told]
    BY <1>1, <1>3, <1>4
  <2>2. ASSUME NEW c \in DOMAIN program, c < Told PROVE ~IsTerminal(program[c])
    <3>1. c \in 1 .. Told /\ c # Told /\ c \in 1 .. Len(out)
      BY <1>1, <1>4, <2>2
    <3> QED
      BY <1>2, <1>3, <3>1
  <2> QED
    BY <1>1, <1>2, <1>4, <2>1, <2>2 DEF DonesIn
<1>6. program[Told].tally.failed > 0 <=> \E k \in FailuresIn(program) : k < Told
  BY <1>4, <1>5 DEF HonestPrograms, Honest
<1>7. report[Len(report)] = program[Told]
  BY <1>1, <1>2, <1>3
<1>8. ASSUME NEW n \in FailuresIn(report) PROVE \E k \in FailuresIn(program) : k < Told
  <2>1. PICK k \in Intact(Told) : report[n] = out[k]
    BY <1>8 DEF FailuresIn, StreamInv, OrderOK
  <2>2. k \in 1 .. Told /\ k \in DOMAIN program /\ out[k] = program[k]
    BY <1>1, <1>3, <1>4, <2>1 DEF Intact
  <2>3. k # Told
    BY <1>2, <1>8, <2>1 DEF FailuresIn, IsTerminal
  <2> QED
    BY <1>1, <1>8, <2>1, <2>2, <2>3 DEF FailuresIn
<1>9. ASSUME NEW k \in FailuresIn(program), k < Told PROVE FailuresIn(report) # {}
  <2>1. k \in 1 .. Told /\ out[k] = program[k]
    BY <1>1, <1>3, <1>4, <1>9 DEF FailuresIn
  <2>2. k \in Intact(Told)
    BY <1>9, <2>1 DEF Intact, FailuresIn, Lost
  <2>3. /\ report[Cardinality(Intact(k))] = out[k]
        /\ Cardinality(Intact(k)) \in 1 .. Len(report)
    BY <1>1, <2>2, IntactPlace DEF StreamInv, OrderOK
  <2> QED
    BY <1>1, <1>9, <2>1, <2>3 DEF FailuresIn
<1> QED
  BY <1>6, <1>7, <1>8, <1>9

(* For test binaries whose DONE counts the failures before it, as RunStream *)
(* promises: the exit code after a DONE is that of its count, and that of  *)
(* the cases if no event was spoilt.                                       *)
THEOREM ExitTells ==
    ASSUME HonestPrograms PROVE Spec => []ExitTellsFailure
<1>1. Init => CodeOK /\ CopyOK
  BY DEF Init, CodeOK, CopyOK, BeforeDone, DoneSeen, DonesIn
<1>2. StreamInv /\ CodeOK /\ CopyOK => ExitTellsFailure
  BY HonestVerdict DEF CodeOK, ExitTellsFailure
<1> QED
  BY InitTold, StreamStep, CodeStep, CopyStep, <1>1, <1>2, PTL DEF Spec

=============================================================================
