----------------------------- MODULE FakesProofs -----------------------------
(***************************************************************************)
(* Proofs about Fakes, for every set of fakes and every history length.    *)
(***************************************************************************)
EXTENDS Fakes, TLAPS

(* What a fake does not have is never written: the columns beyond its      *)
(* arity, and the return value of a void fake.                             *)
UnusedStaysInitial ==
    \A f \in Fakes :
        /\ \A c \in Columns : c > Arity[f] =>
              last[f][c] = 0 /\ \A s \in Slots : history[f][s][c] = 0
        /\ ~IsValue[f] => ret[f] = Default[f]

IInv == TypeOK /\ UnusedStaysInitial /\ RecordsMatchCalls /\ ResetForgets

(* The statically initialised fakes satisfy the inductive invariant.       *)
LEMMA InitIInv == Init => IInv
<1> SUFFICES ASSUME Init PROVE IInv
  OBVIOUS
<1> USE FakesAssumption DEF FakesAssumption, Init
<1>1. Zero \in Row /\ \A c \in Columns : Zero[c] = 0
  BY DEF Zero, Row
<1>2. TypeOK
  <2>1. history \in [Fakes -> [Slots -> Row]] /\ last \in [Fakes -> Row]
    BY <1>1
  <2>2. log \in [Fakes -> Seq(Row)] /\ running \in Seq(Fakes)
    OBVIOUS
  <2> QED
    BY <2>1, <2>2 DEF TypeOK
<1>3. UnusedStaysInitial
  BY <1>1 DEF UnusedStaysInitial
<1>4. RecordsMatchCalls
  <2>1. SUFFICES ASSUME NEW f \in Fakes
                 PROVE  /\ count[f] = Len(log[f])
                        /\ \A s \in Slots : s <= count[f] => history[f][s] = log[f][s]
                        /\ count[f] > 0 => last[f] = log[f][count[f]]
    BY DEF RecordsMatchCalls
  <2>2. count[f] = 0 /\ log[f] = <<>> /\ Len(log[f]) = 0
    OBVIOUS
  <2>3. \A s \in Slots : ~(s <= 0)
    BY DEF Slots
  <2> QED
    BY <2>2, <2>3
<1>5. ResetForgets
  BY DEF ResetForgets, Forgotten
<1> QED
  BY <1>2, <1>3, <1>4, <1>5 DEF IInv

(* A call keeps its row behind those of the calls before it.               *)
LEMMA CallIInv == ASSUME IInv, NEW f \in Fakes, NEW row \in Rows[f], Call(f, row)
                  PROVE  IInv'
<1> USE FakesAssumption DEF FakesAssumption
<1>1. row \in Row /\ \A c \in Columns : c > Arity[f] => row[c] = 0
  OBVIOUS
<1>2. TypeOK
  BY DEF IInv
<1>3. history' \in [Fakes -> [Slots -> Row]]
  BY <1>1, <1>2 DEF Call, Keep, TypeOK, Slots
<1>4. log' \in [Fakes -> Seq(Row)] /\ log'[f] = Append(log[f], row)
  BY <1>1, <1>2 DEF Call, TypeOK
<1>5. running' \in Seq(Fakes)
  BY <1>2 DEF Call, TypeOK
<1>6. TypeOK'
  BY <1>1, <1>2, <1>3, <1>4, <1>5 DEF Call, TypeOK
<1>7. \A s \in Slots : history'[f][s] = IF s = count[f] + 1 THEN row ELSE history[f][s]
  <2>1. CASE count[f] < HistoryLen
    <3>1. history' = [history EXCEPT ![f] = [@ EXCEPT ![count[f] + 1] = row]]
      BY <2>1 DEF Call, Keep
    <3>2. history'[f] = [history[f] EXCEPT ![count[f] + 1] = row]
      BY <3>1, <1>2 DEF TypeOK
    <3>3. history[f] \in [Slots -> Row]
      BY <1>2 DEF TypeOK
    <3> QED
      BY <3>2, <3>3
  <2>2. CASE ~(count[f] < HistoryLen)
    <3>1. history' = history
      BY <2>2 DEF Call, Keep
    <3>2. \A s \in Slots : s # count[f] + 1
      BY <2>2, <1>2 DEF Slots, TypeOK
    <3> QED
      BY <3>1, <3>2
  <2> QED
    BY <2>1, <2>2
<1>8. \A g \in Fakes \ {f} : /\ history'[g] = history[g] /\ last'[g] = last[g]
                            /\ count'[g] = count[g] /\ log'[g] = log[g]
  BY <1>2 DEF Call, Keep, TypeOK
<1>9. last'[f] = row /\ count'[f] = count[f] + 1 /\ count[f] \in Nat
  BY <1>2 DEF Call, TypeOK
<1>10. UnusedStaysInitial'
  <2>1. SUFFICES ASSUME NEW g \in Fakes
                 PROVE  /\ \A c \in Columns : c > Arity[g] =>
                              last'[g][c] = 0 /\ \A s \in Slots : history'[g][s][c] = 0
                        /\ ~IsValue[g] => ret'[g] = Default[g]
    BY DEF UnusedStaysInitial
  <2>2. ret' = ret
    BY DEF Call
  <2>3. CASE g = f
    BY <2>2, <2>3, <1>1, <1>7, <1>9 DEF IInv, UnusedStaysInitial
  <2>4. CASE g # f
    <3>1. history'[g] = history[g] /\ last'[g] = last[g]
      BY <2>4, <1>8
    <3> QED
      BY <2>2, <3>1 DEF IInv, UnusedStaysInitial
  <2> QED
    BY <2>3, <2>4
<1>11. RecordsMatchCalls'
  <2>1. count[f] = Len(log[f]) /\ log[f] \in Seq(Row)
    BY <1>2 DEF IInv, RecordsMatchCalls, TypeOK
  <2>2. Len(log'[f]) = count[f] + 1 /\ log'[f][count[f] + 1] = row
    BY <1>4, <2>1
  <2>3. \A s \in Slots : s <= count[f] => log'[f][s] = log[f][s]
    BY <1>4, <2>1 DEF Slots
  <2>4. ASSUME NEW s \in Slots, s <= count[f] + 1
        PROVE  history'[f][s] = log'[f][s]
    <3>1. CASE s = count[f] + 1
      BY <3>1, <1>7, <2>2
    <3>2. CASE s # count[f] + 1
      <4>1. s <= count[f]
        BY <3>2, <2>4, <1>9 DEF Slots
      <4> QED
        BY <4>1, <3>2, <1>7, <2>3 DEF IInv, RecordsMatchCalls
    <3> QED
      BY <3>1, <3>2
  <2>5. SUFFICES ASSUME NEW g \in Fakes
                 PROVE  /\ count'[g] = Len(log'[g])
                        /\ \A s \in Slots : s <= count'[g] => history'[g][s] = log'[g][s]
                        /\ count'[g] > 0 => last'[g] = log'[g][count'[g]]
    BY DEF RecordsMatchCalls
  <2>6. CASE g = f
    <3>1. count'[g] = count[f] + 1 /\ last'[g] = row
      BY <2>6, <1>9
    <3>2. Len(log'[g]) = count[f] + 1 /\ log'[g][count[f] + 1] = row
      BY <2>6, <2>2
    <3>3. \A s \in Slots : s <= count[f] + 1 => history'[g][s] = log'[g][s]
      BY <2>6, <2>4
    <3> QED
      BY <3>1, <3>2, <3>3
  <2>7. CASE g # f
    <3>1. /\ history'[g] = history[g] /\ last'[g] = last[g]
          /\ count'[g] = count[g] /\ log'[g] = log[g]
      BY <2>7, <1>8
    <3> QED
      BY <3>1 DEF IInv, RecordsMatchCalls
  <2> QED
    BY <2>6, <2>7
<1>12. ResetForgets'
  <2>1. ret' = ret /\ custom' = custom /\ given' = given /\ clean' = clean
    BY DEF Call
  <2>2. \A s \in Slots : s > count[f] + 1 => s > count[f] /\ s # count[f] + 1
    BY <1>9 DEF Slots
  <2> QED
    BY <1>7, <1>8, <1>9, <2>1, <2>2 DEF IInv, ResetForgets, Forgotten
<1> QED
  BY <1>6, <1>10, <1>11, <1>12 DEF IInv

(* The reset made for a fake wipes every column the fake has.              *)
LEMMA ResetIInv == ASSUME IInv, NEW f \in Fakes, NEW macro \in Macros, Reset(f, macro)
                   PROVE  IInv'
<1> USE FakesAssumption DEF FakesAssumption
<1>1. TypeOK
  BY DEF IInv
<1>2. macro.columns \in Int
  <2>1. CASE macro \in [value : BOOLEAN, columns : Columns]
    <3>1. macro.columns \in Columns
      BY <2>1
    <3> QED
      BY <3>1 DEF Columns
  <2>2. CASE macro = [value |-> FALSE, columns |-> 0]
    BY <2>2
  <2> QED
    BY <2>1, <2>2 DEF Macros
<1>3. Wiped(f, macro.columns) \in [Slots -> Row]
  BY <1>1 DEF Wiped, TypeOK, Row
<1>4. [c \in Columns |-> IF c <= macro.columns THEN 0 ELSE last[f][c]] \in Row
  BY <1>1 DEF TypeOK, Row
<1>5. history' \in [Fakes -> [Slots -> Row]] /\ last' \in [Fakes -> Row]
  BY <1>1, <1>3, <1>4 DEF Reset, TypeOK
<1>6. ret' \in [Fakes -> Int]
  BY <1>1 DEF Reset, TypeOK
<1>7. log' \in [Fakes -> Seq(Row)] /\ log'[f] = <<>>
  BY <1>1 DEF Reset, TypeOK
<1>8. TypeOK'
  BY <1>1, <1>5, <1>6, <1>7 DEF Reset, TypeOK, MadeFor
<1>9. /\ history'[f] = Wiped(f, macro.columns) /\ count'[f] = 0
      /\ last'[f] = [c \in Columns |-> IF c <= macro.columns THEN 0 ELSE last[f][c]]
      /\ custom'[f] = FALSE /\ clean'[f] = MadeFor(f, macro)
  BY <1>1 DEF Reset, TypeOK
<1>10. \A g \in Fakes \ {f} : /\ history'[g] = history[g] /\ last'[g] = last[g]
                             /\ count'[g] = count[g] /\ log'[g] = log[g]
                             /\ ret'[g] = ret[g] /\ custom'[g] = custom[g]
                             /\ given'[g] = given[g] /\ clean'[g] = clean[g]
  BY <1>1 DEF Reset, TypeOK
<1>11. UnusedStaysInitial'
  <2>1. ASSUME NEW c \in Columns, c > Arity[f]
        PROVE  last'[f][c] = 0 /\ \A s \in Slots : history'[f][s][c] = 0
    BY <2>1, <1>9 DEF IInv, UnusedStaysInitial, Wiped
  <2>2. ~IsValue[f] => ret'[f] = Default[f]
    BY <1>1 DEF Reset, IInv, UnusedStaysInitial, TypeOK
  <2> QED
    BY <2>1, <2>2, <1>10 DEF IInv, UnusedStaysInitial
<1>12. RecordsMatchCalls'
  <2>1. \A s \in Slots : ~(s <= 0)
    BY DEF Slots
  <2>2. Len(log'[f]) = 0
    BY <1>7
  <2> QED
    BY <1>9, <1>10, <2>1, <2>2 DEF IInv, RecordsMatchCalls
<1>13. ResetForgets'
  <2>1. ASSUME MadeFor(f, macro) PROVE Forgotten(f)' /\ ret'[f] = Default[f]
    <3>1. \A c \in Columns : c <= macro.columns \/ c > Arity[f]
      BY <2>1, <1>2 DEF MadeFor, Columns
    <3>2. \A s \in Slots : history'[f][s] = Zero
      BY <1>9, <3>1 DEF Wiped, Zero, IInv, UnusedStaysInitial
    <3>3. last'[f] = Zero
      BY <1>9, <3>1 DEF Zero, IInv, UnusedStaysInitial
    <3>4. ret'[f] = Default[f]
      <4>1. CASE macro.value
        BY <4>1, <1>1 DEF Reset, TypeOK
      <4>2. CASE ~macro.value
        <5>1. ~IsValue[f] /\ ret' = ret
          BY <4>2, <2>1 DEF Reset, MadeFor
        <5> QED
          BY <5>1 DEF IInv, UnusedStaysInitial
      <4> QED
        BY <4>1, <4>2
    <3> QED
      BY <3>2, <3>3, <3>4, <1>9 DEF Forgotten
  <2> QED
    BY <1>9, <1>10, <2>1 DEF IInv, ResetForgets, Forgotten
<1> QED
  BY <1>8, <1>11, <1>12, <1>13 DEF IInv

(* Every step preserves the inductive invariant.                           *)
LEMMA StepIInv == IInv /\ [Next]_vars => IInv'
<1> SUFFICES ASSUME IInv, [Next]_vars PROVE IInv'
  OBVIOUS
<1>1. ASSUME NEW f \in Fakes, NEW row \in Rows[f], Call(f, row) PROVE IInv'
  BY <1>1, CallIInv
<1>2. ASSUME NEW f \in Fakes, NEW macro \in Macros, Reset(f, macro) PROVE IInv'
  BY <1>2, ResetIInv
<1>3. ASSUME NEW f \in Fakes, NEW value \in Returns, SetReturn(f, value) PROVE IInv'
  BY <1>3, FakesAssumption DEF FakesAssumption, IInv, TypeOK, SetReturn,
     UnusedStaysInitial, RecordsMatchCalls, ResetForgets, Forgotten
<1>4. ASSUME NEW f \in Fakes, SetCustom(f) PROVE IInv'
  BY <1>4 DEF IInv, TypeOK, SetCustom,
     UnusedStaysInitial, RecordsMatchCalls, ResetForgets, Forgotten
<1>5. CASE CustomReturns
  <2>1. running' \in Seq(Fakes)
    BY <1>5 DEF CustomReturns, IInv, TypeOK
  <2> QED
    BY <1>5, <2>1 DEF CustomReturns, IInv, TypeOK,
       UnusedStaysInitial, RecordsMatchCalls, ResetForgets, Forgotten
<1>6. CASE UNCHANGED vars
  BY <1>6 DEF vars, IInv, TypeOK,
     UnusedStaysInitial, RecordsMatchCalls, ResetForgets, Forgotten
<1> QED
  BY <1>1, <1>2, <1>3, <1>4, <1>5, <1>6 DEF Next

(* The inductive invariant holds in every reachable state.                 *)
THEOREM FakesInvariance == Spec => []IInv
  BY InitIInv, StepIInv, PTL DEF Spec

(* polytest_fff.h: counts, histories and last arguments are those of the   *)
(* calls since the last reset, for every length of the histories.          *)
THEOREM RecordsCorrect == Spec => []RecordsMatchCalls
<1>1. IInv => RecordsMatchCalls
  BY DEF IInv
<1> QED
  BY <1>1, FakesInvariance, PTL

(* The reset made for a kind of fake leaves nothing of the test before.    *)
THEOREM ResetsForget == Spec => []ResetForgets
<1>1. IInv => ResetForgets
  BY DEF IInv
<1> QED
  BY <1>1, FakesInvariance, PTL

=============================================================================
