-------------------------------- MODULE Fakes --------------------------------
(***************************************************************************)
(* The function fakes of plugins/extension/fff_fakes/polytest_fff.h: what  *)
(* a fake records of its calls, and what the reset macros leave of it.     *)
(* Tests call fakes, directly or from a custom fake that is running, set   *)
(* their return values and custom fakes, and reset them, in any order.     *)
(*                                                                         *)
(* A row is the pair of arguments of one call; the columns beyond the      *)
(* arity of a fake, which the code does not have, stay 0.                  *)
(***************************************************************************)
EXTENDS Integers, Sequences

CONSTANTS Fakes,
          Arity,        \* fake -> 0 .. 2, the digit in the name of its macro
          IsValue,      \* fake -> BOOLEAN: POT_FAKE_VALUE_FUNC or POT_FAKE_VOID_FUNC
          Default,      \* fake -> default_ret
          Rows,         \* fake -> the rows it may be called with
          Returns,      \* values tests make fakes return
          HistoryLen,   \* POT_FFF_ARG_HISTORY_LEN
          MaxDepth,     \* bound: custom fakes on the stack
          MaxCalls      \* bound: calls of a fake between two resets

Columns == 1 .. 2
Row == [Columns -> Int]
Zero == [c \in Columns |-> 0]
Slots == 1 .. HistoryLen

ASSUME FakesAssumption ==
    /\ HistoryLen \in Nat /\ MaxDepth \in Nat /\ MaxCalls \in Nat
    /\ Arity \in [Fakes -> 0 .. 2] /\ IsValue \in [Fakes -> BOOLEAN]
    /\ Default \in [Fakes -> Int] /\ Returns \subseteq Int
    /\ \A f \in Fakes : \A r \in Rows[f] :
          r \in Row /\ \A c \in Columns : c > Arity[f] => r[c] = 0

VARIABLES
    ret,       \* fn_return
    count,     \* fn_call_count
    last,      \* fn_arg0_val, fn_arg1_val
    history,   \* fn_arg0_history, fn_arg1_history
    custom,    \* fn_custom_fake is set
    running,   \* the fakes whose custom fakes are on the stack
    log,       \* ghost: the calls since the last reset, of whichever kind
    given,     \* ghost: what the test has assigned since then
    clean      \* ghost: the last reset was the one made for this kind of fake

vars == <<ret, count, last, history, custom, running, log, given, clean>>

Init ==
    /\ ret = Default
    /\ count = [f \in Fakes |-> 0]
    /\ last = [f \in Fakes |-> Zero]
    /\ history = [f \in Fakes |-> [s \in Slots |-> Zero]]
    /\ custom = [f \in Fakes |-> FALSE]
    /\ running = <<>>
    /\ log = [f \in Fakes |-> <<>>]
    /\ given = [f \in Fakes |-> {}]
    /\ clean = [f \in Fakes |-> TRUE]

(* Mistake: the call is counted before it is kept.                         *)
Keep_Counted(f, row) ==
    IF count[f] + 1 < HistoryLen
    THEN [history EXCEPT ![f] = [@ EXCEPT ![count[f] + 2] = row]]
    ELSE history

(* Calls beyond the length of the history are counted, not kept.           *)
Keep(f, row) ==
    IF count[f] < HistoryLen
    THEN [history EXCEPT ![f] = [@ EXCEPT ![count[f] + 1] = row]]
    ELSE history

(* The body of a fake, up to its return or to its custom fake.             *)
Call(f, row) ==
    /\ Len(log[f]) < MaxCalls
    /\ custom[f] => Len(running) < MaxDepth
    /\ history' = Keep(f, row)
    /\ last' = [last EXCEPT ![f] = row]
    /\ count' = [count EXCEPT ![f] = @ + 1]
    /\ running' = IF custom[f] THEN Append(running, f) ELSE running
    /\ log' = [log EXCEPT ![f] = Append(@, row)]
    /\ UNCHANGED <<ret, custom, given, clean>>

CustomReturns ==
    /\ running # <<>>
    /\ running' = SubSeq(running, 1, Len(running) - 1)
    /\ UNCHANGED <<ret, count, last, history, custom, log, given, clean>>

SetReturn(f, value) ==
    /\ IsValue[f]
    /\ ret' = [ret EXCEPT ![f] = value]
    /\ given' = [given EXCEPT ![f] = @ \cup {"return"}]
    /\ UNCHANGED <<count, last, history, custom, running, log, clean>>

SetCustom(f) ==
    /\ custom' = [custom EXCEPT ![f] = TRUE]
    /\ given' = [given EXCEPT ![f] = @ \cup {"custom"}]
    /\ UNCHANGED <<ret, count, last, history, running, log, clean>>

-----------------------------------------------------------------------------
(* POT_FAKE_RESET is [value |-> FALSE, columns |-> 0]; _VALUE1, _VALUE2,   *)
(* _VOID1 and _VOID2 are the others.  A macro compiles for a fake that has *)
(* the variables it names.                                                 *)
Macros == [value : BOOLEAN, columns : Columns] \cup {[value |-> FALSE, columns |-> 0]}

Compiles(f, macro) == macro.columns <= Arity[f] /\ (macro.value => IsValue[f])

MadeFor(f, macro) == macro.columns = Arity[f] /\ macro.value = IsValue[f]

(* Mistake: the loop leaves out the last slot.                             *)
Wiped_ButLast(f, columns) ==
    [s \in Slots |-> [c \in Columns |->
        IF c <= columns /\ s < HistoryLen THEN 0 ELSE history[f][s][c]]]

Wiped(f, columns) ==
    [s \in Slots |-> [c \in Columns |-> IF c <= columns THEN 0 ELSE history[f][s][c]]]

Reset(f, macro) ==
    /\ Compiles(f, macro)
    /\ count' = [count EXCEPT ![f] = 0]
    /\ custom' = [custom EXCEPT ![f] = FALSE]
    /\ ret' = IF macro.value THEN [ret EXCEPT ![f] = Default[f]] ELSE ret
    /\ history' = [history EXCEPT ![f] = Wiped(f, macro.columns)]
    /\ last' = [last EXCEPT ![f] = [c \in Columns |-> IF c <= macro.columns THEN 0 ELSE @[c]]]
    /\ log' = [log EXCEPT ![f] = <<>>]
    /\ given' = [given EXCEPT ![f] = {}]
    /\ clean' = [clean EXCEPT ![f] = MadeFor(f, macro)]
    /\ UNCHANGED running

Next ==
    \/ \E f \in Fakes : \E row \in Rows[f] : Call(f, row)
    \/ \E f \in Fakes, value \in Returns : SetReturn(f, value)
    \/ \E f \in Fakes : SetCustom(f)
    \/ \E f \in Fakes, macro \in Macros : Reset(f, macro)
    \/ CustomReturns

Spec == Init /\ [][Next]_vars

-----------------------------------------------------------------------------
TypeOK ==
    /\ ret \in [Fakes -> Int]
    /\ count \in [Fakes -> Nat]
    /\ last \in [Fakes -> Row]
    /\ history \in [Fakes -> [Slots -> Row]]
    /\ custom \in [Fakes -> BOOLEAN]
    /\ running \in Seq(Fakes)
    /\ log \in [Fakes -> Seq(Row)]
    /\ given \in [Fakes -> SUBSET {"return", "custom"}]
    /\ clean \in [Fakes -> BOOLEAN]

(* What a test reads of a fake is about the calls since the last reset, of *)
(* whichever kind, even one a custom fake made in the middle of a call:    *)
(* the count is their number, the history holds the first of them in order *)
(* and the last arguments are those of the last.                           *)
RecordsMatchCalls ==
    \A f \in Fakes :
        /\ count[f] = Len(log[f])
        /\ \A s \in Slots : s <= count[f] => history[f][s] = log[f][s]
        /\ count[f] > 0 => last[f] = log[f][count[f]]

Forgotten(f) ==
    /\ \A s \in Slots : s > count[f] => history[f][s] = Zero
    /\ count[f] = 0 => last[f] = Zero
    /\ "custom" \notin given[f] => ~custom[f]

(* The reset made for a kind of fake leaves nothing of the test before: a  *)
(* slot no call has filled since reads 0, and so do the last arguments; a  *)
(* return value or custom fake is in force only if it was set since.       *)
ResetForgets ==
    \A f \in Fakes : clean[f] =>
        /\ Forgotten(f)
        /\ "return" \notin given[f] => ret[f] = Default[f]

=============================================================================
