--------------------------- MODULE PotRunnerProofs ---------------------------
(***************************************************************************)
(* Proofs about PotRunner: what sort_cases does to any registry, over any  *)
(* number of runs; that no verdict leaks from one callback to another;     *)
(* that the loop of run_filtered runs what it is asked to run between the  *)
(* right fixtures; that its events are a stream RunStream allows.          *)
(***************************************************************************)
EXTENDS PotRunner, SequenceTheorems, FiniteSetTheorems, WellFoundedInduction, TLAPS

Addresses == DOMAIN Cases

(* Neither comes first for case_cmp.                                       *)
Alike(o, p) == ~Less(o, p) /\ ~Less(p, o)

(* Wherever o and p are linked, o is linked first.                         *)
LinkedBefore(o, p) ==
    \A m, n \in DOMAIN linked : (linked[m] = o /\ linked[n] = p) => m < n

(* Cases of equal names stand in the order in which they were linked.      *)
KeepsOrder(s) ==
    \A i, j \in DOMAIN s : (i < j /\ Alike(s[i], s[j])) => LinkedBefore(s[i], s[j])

ListsAreOfCases ==
    /\ linked \in Registries /\ linked \in Seq(Addresses)
    /\ tests \in Seq(Addresses) /\ list \in Seq(Addresses) /\ unsorted \in Seq(Addresses)

HasEveryCase(s) == Len(s) = Len(linked) /\ ToSet(s) = ToSet(linked)

(* What is sorted was linked before what is not, if their names are equal. *)
SortedBeforeRest ==
    \A i \in DOMAIN list, j \in DOMAIN unsorted :
        Alike(list[i], unsorted[j]) => LinkedBefore(list[i], unsorted[j])

SortInv ==
    /\ ListsAreOfCases
    /\ HasEveryCase(tests) /\ SortLosesNoCase
    /\ KeepsOrder(tests) /\ KeepsOrder(unsorted) /\ SortedBeforeRest
    /\ SortIsStable

-----------------------------------------------------------------------------
(* case_cmp orders cases: a case is not less than itself, and two          *)
(* comparisons in a row can be put together, also when one is an equality. *)
LEMMA LessIsAnOrder ==
    ASSUME NEW o \in Addresses, NEW p \in Addresses, NEW q \in Addresses
    PROVE  /\ ~(Less(o, p) /\ Less(p, o))
           /\ (Less(o, p) /\ ~Less(q, p)) => Less(o, q)
           /\ (~Less(p, o) /\ Less(p, q)) => Less(o, q)
<1>1. \A r \in {o, p, q} : Cases[r].suite \in Nat /\ Cases[r].group \in Nat /\ Cases[r].name \in Nat
  BY HarnessAssumption DEF HarnessAssumption, CaseDesc, Addresses
<1> QED
  BY <1>1 DEF Less

(* The walk of sort_cases ends before the first greater case, or at the    *)
(* end of the list.                                                        *)
LEMMA InsertPosIsFirst ==
    ASSUME NEW s \in Seq(Addresses), NEW x \in Addresses
    PROVE  /\ InsertPos(s, x) \in 1 .. Len(s) + 1
           /\ \A k \in DOMAIN s : k < InsertPos(s, x) => ~Less(x, s[k])
           /\ InsertPos(s, x) <= Len(s) => Less(x, s[InsertPos(s, x)])
<1> DEFINE Greater == {k \in DOMAIN s : Less(x, s[k])}
           First(k) == k \in DOMAIN s /\ Less(x, s[k])
                       /\ \A m \in DOMAIN s : Less(x, s[m]) => k <= m
<1>1. CASE Greater = {}
  BY <1>1 DEF InsertPos
<1>2. CASE Greater # {}
  <2>1. Greater \subseteq Nat
    OBVIOUS
  <2>2. PICK k \in Greater : \A m \in Greater : ~(<<m, k>> \in OpToRel(<, Nat))
    BY <1>2, <2>1, NatLessThanWellFounded, WFMin, Zenon
  <2>3. \A m \in Greater : ~(m < k)
    BY <2>1, <2>2 DEF OpToRel
  <2>4. First(k)
    BY <2>1, <2>3
  <2>5. InsertPos(s, x) = CHOOSE n \in DOMAIN s :
            Less(x, s[n]) /\ \A m \in DOMAIN s : Less(x, s[m]) => n <= m
    BY <1>2 DEF InsertPos
  <2>6. First(InsertPos(s, x))
    BY <2>4, <2>5, Zenon
  <2> QED
    BY <2>6
<1> QED
  BY <1>1, <1>2

(* Linking a case at a position moves those behind it by one.              *)
LEMMA InsertShifts ==
    ASSUME NEW s \in Seq(Addresses), NEW x \in Addresses, NEW p \in 1 .. Len(s) + 1
    PROVE  /\ InsertAt(s, p, x) \in Seq(Addresses)
           /\ Len(InsertAt(s, p, x)) = Len(s) + 1
           /\ \A k \in 1 .. Len(s) + 1 :
                  InsertAt(s, p, x)[k] = IF k < p THEN s[k] ELSE IF k = p THEN x ELSE s[k - 1]
<1> DEFINE before == SubSeq(s, 1, p - 1)
           after  == SubSeq(s, p, Len(s))
<1>1. before \in Seq(Addresses) /\ Len(before) = p - 1 /\ \A k \in 1 .. p - 1 : before[k] = s[k]
  OBVIOUS
<1>2. /\ after \in Seq(Addresses) /\ Len(after) = Len(s) - p + 1
      /\ \A k \in 1 .. Len(s) - p + 1 : after[k] = s[p + k - 1]
  OBVIOUS
<1>3. InsertAt(s, p, x) = (before \o <<x>>) \o after
  BY DEF InsertAt
<1> DEFINE front == before \o <<x>>
<1> HIDE DEF before, after
<1>4. /\ front \in Seq(Addresses) /\ Len(front) = p
      /\ \A k \in 1 .. p : front[k] = IF k < p THEN s[k] ELSE x
  <2>1. <<x>> \in Seq(Addresses) /\ Len(<<x>>) = 1 /\ <<x>>[1] = x
    OBVIOUS
  <2>2. /\ front \in Seq(Addresses) /\ Len(front) = Len(before) + 1
        /\ \A k \in 1 .. Len(before) + 1 :
               front[k] = IF k <= Len(before) THEN before[k] ELSE <<x>>[k - Len(before)]
    BY <1>1, <2>1, ConcatProperties
  <2> HIDE DEF front
  <2>3. Len(before) + 1 = p /\ Len(before) = p - 1
    BY <1>1
  <2>4. \A k \in 1 .. p : k < p => front[k] = s[k]
    <3> SUFFICES ASSUME NEW k \in 1 .. p, k < p PROVE front[k] = s[k]
      OBVIOUS
    <3>1. k \in 1 .. p - 1 /\ k <= p - 1 /\ k \in 1 .. Len(before) + 1
      BY <2>3
    <3> QED
      BY <3>1, <2>2, <2>3, <1>1
  <2>5. front[p] = x
    <3>1. p \in 1 .. Len(before) + 1 /\ ~(p <= Len(before)) /\ p - Len(before) = 1
      BY <2>3
    <3> QED
      BY <3>1, <2>1, <2>2
  <2>6. \A k \in 1 .. p : k < p \/ k = p
    OBVIOUS
  <2> QED
    BY <2>2, <2>3, <2>4, <2>5, <2>6
<1> HIDE DEF front
<1>5. /\ front \o after \in Seq(Addresses) /\ Len(front \o after) = Len(s) + 1
      /\ \A k \in 1 .. Len(s) + 1 :
             (front \o after)[k] = IF k <= p THEN front[k] ELSE after[k - p]
  <2>1. /\ front \o after \in Seq(Addresses) /\ Len(front \o after) = Len(front) + Len(after)
        /\ \A k \in 1 .. Len(front) + Len(after) :
               (front \o after)[k] = IF k <= Len(front) THEN front[k] ELSE after[k - Len(front)]
    BY <1>2, <1>4, ConcatProperties
  <2>2. Len(front) + Len(after) = Len(s) + 1
    BY <1>2, <1>4
  <2> QED
    BY <1>4, <2>1, <2>2
<1>6. ASSUME NEW k \in 1 .. Len(s) + 1
      PROVE  (front \o after)[k] = IF k < p THEN s[k] ELSE IF k = p THEN x ELSE s[k - 1]
  <2>1. CASE k <= p
    BY <2>1, <1>4, <1>5
  <2>2. CASE k > p
    <3>1. k - p \in 1 .. Len(s) - p + 1 /\ p + (k - p) - 1 = k - 1
      BY <2>2
    <3>2. after[k - p] = s[k - 1]
      BY <3>1, <1>2
    <3>3. (front \o after)[k] = after[k - p] /\ ~(k < p) /\ k # p
      BY <2>2, <1>5
    <3> QED
      BY <3>2, <3>3
  <2>3. k <= p \/ k > p
    OBVIOUS
  <2> QED
    BY <2>1, <2>2, <2>3, Zenon
<1> QED
  BY <1>3, <1>5, <1>6 DEF front

-----------------------------------------------------------------------------
(* The registry, as constructors linked it, satisfies the invariant.       *)
LEMMA InitSortInv == Init => SortInv
<1> SUFFICES ASSUME Init PROVE SortInv
  OBVIOUS
<1>1. linked \in Seq(Addresses) /\ \A m, n \in DOMAIN linked : linked[m] = linked[n] => m = n
  BY HarnessAssumption DEF HarnessAssumption, Init, Addresses
<1>2. linked \in Registries /\ tests = linked /\ unsorted = linked /\ list = <<>>
  BY DEF Init
<1>3. ListsAreOfCases
  BY <1>1, <1>2 DEF ListsAreOfCases
<1>4. SortLosesNoCase
  <2>1. Len(list) + Len(unsorted) = Len(linked)
    BY <1>1, <1>2
  <2>2. ToSet(list) = {}
    BY <1>2 DEF ToSet
  <2> QED
    BY <1>2, <2>1, <2>2 DEF SortLosesNoCase
<1>5. KeepsOrder(linked)
  BY <1>1 DEF KeepsOrder, LinkedBefore
<1>6. SortedBeforeRest /\ SortIsStable
  BY <1>2 DEF SortedBeforeRest, SortIsStable
<1> QED
  BY <1>2, <1>3, <1>4, <1>5, <1>6 DEF SortInv, HasEveryCase

(* One turn of the loop of sort_cases moves one case to its place: before  *)
(* all greater cases and behind all cases of the same names, which were    *)
(* linked before it.                                                       *)
LEMMA SortStepSortInv == SortInv /\ SortStep => SortInv'
<1> SUFFICES ASSUME SortInv, SortStep PROVE SortInv'
  OBVIOUS
<1> DEFINE x == Head(unsorted)
           p == InsertPos(list, x)
<1>1. /\ list \in Seq(Addresses) /\ unsorted \in Seq(Addresses) /\ unsorted # <<>>
      /\ tests \in Seq(Addresses) /\ linked \in Seq(Addresses)
  BY DEF SortInv, ListsAreOfCases, SortStep
<1>2. /\ unsorted' = Tail(unsorted) /\ list' = InsertAt(list, p, x)
      /\ tests' = tests /\ linked' = linked
  BY DEF SortStep, Insert
<1>3. x \in Addresses /\ x = unsorted[1] /\ 1 \in DOMAIN unsorted
  BY <1>1
<1>4. /\ Tail(unsorted) \in Seq(Addresses) /\ Len(Tail(unsorted)) = Len(unsorted) - 1
      /\ \A j \in DOMAIN Tail(unsorted) :
             j + 1 \in DOMAIN unsorted /\ Tail(unsorted)[j] = unsorted[j + 1]
  BY <1>1
<1> HIDE DEF x
<1>5. /\ p \in 1 .. Len(list) + 1
      /\ \A k \in DOMAIN list : k < p => ~Less(x, list[k])
      /\ p <= Len(list) => Less(x, list[p])
  BY <1>1, <1>3, InsertPosIsFirst
<1> HIDE DEF p
<1>6. /\ list' \in Seq(Addresses) /\ Len(list') = Len(list) + 1
      /\ DOMAIN list' = 1 .. Len(list) + 1
      /\ \A k \in DOMAIN list' :
             list'[k] = IF k < p THEN list[k] ELSE IF k = p THEN x ELSE list[k - 1]
  <2>1. /\ list' \in Seq(Addresses) /\ Len(list') = Len(list) + 1
        /\ \A k \in 1 .. Len(list) + 1 :
               list'[k] = IF k < p THEN list[k] ELSE IF k = p THEN x ELSE list[k - 1]
    <3>1. /\ InsertAt(list, p, x) \in Seq(Addresses) /\ Len(InsertAt(list, p, x)) = Len(list) + 1
          /\ \A k \in 1 .. Len(list) + 1 :
                 InsertAt(list, p, x)[k]
                     = IF k < p THEN list[k] ELSE IF k = p THEN x ELSE list[k - 1]
      <4>1. list \in Seq(Addresses) /\ x \in Addresses /\ p \in 1 .. Len(list) + 1
        BY <1>1, <1>3, <1>5
      <4> QED
        BY <4>1, InsertShifts, Zenon
    <3> QED
      BY <3>1, <1>2, Zenon
  <2>2. DOMAIN list' = 1 .. Len(list) + 1
    BY <2>1
  <2> QED
    BY <2>1, <2>2, Zenon
<1>7. DOMAIN list = 1 .. Len(list) /\ Len(list) \in Nat /\ \A k \in DOMAIN list : list[k] \in Addresses
  BY <1>1
<1>8. ListsAreOfCases'
  BY <1>1, <1>2, <1>4, <1>6 DEF SortInv, ListsAreOfCases
<1>9. ToSet(list') = ToSet(list) \cup {x}
  <2>1. \A k \in DOMAIN list : \E n \in DOMAIN list' : list'[n] = list[k]
    <3> SUFFICES ASSUME NEW k \in DOMAIN list
                 PROVE  \E n \in DOMAIN list' : list'[n] = list[k]
      OBVIOUS
    <3>1. CASE k < p
      BY <3>1, <1>6, <1>7
    <3>2. CASE ~(k < p)
      <4>1. k + 1 \in DOMAIN list' /\ ~(k + 1 < p) /\ k + 1 # p /\ (k + 1) - 1 = k
        BY <3>2, <1>5, <1>6, <1>7
      <4>2. list'[k + 1] = list[(k + 1) - 1]
        BY <4>1, <1>6
      <4> QED
        BY <4>1, <4>2
    <3> QED
      BY <3>1, <3>2
  <2>2. p \in DOMAIN list' /\ list'[p] = x
    BY <1>5, <1>6
  <2>3. \A n \in DOMAIN list' : list'[n] = x \/ \E k \in DOMAIN list : list'[n] = list[k]
    <3> SUFFICES ASSUME NEW n \in DOMAIN list', list'[n] # x
                 PROVE  \E k \in DOMAIN list : list'[n] = list[k]
      OBVIOUS
    <3>1. CASE n < p
      BY <3>1, <1>5, <1>6, <1>7
    <3>2. CASE n > p
      <4>1. n - 1 \in DOMAIN list /\ list'[n] = list[n - 1]
        BY <3>2, <1>5, <1>6, <1>7
      <4> QED
        BY <4>1
    <3> QED
      BY <3>1, <3>2, <1>5, <1>6, <2>2
  <2> QED
    BY <2>1, <2>2, <2>3 DEF ToSet
<1>10. ToSet(unsorted) = {x} \cup ToSet(Tail(unsorted))
  <2>1. \A k \in DOMAIN unsorted : k = 1 \/ (k - 1 \in DOMAIN Tail(unsorted)
                                              /\ Tail(unsorted)[k - 1] = unsorted[k])
    BY <1>1
  <2>2. ToSet(unsorted) \subseteq {x} \cup ToSet(Tail(unsorted))
    BY <2>1, <1>3 DEF ToSet
  <2>3. {x} \cup ToSet(Tail(unsorted)) \subseteq ToSet(unsorted)
    BY <1>3, <1>4 DEF ToSet
  <2> QED
    BY <2>2, <2>3
<1>11. SortLosesNoCase'
  <2>1. Len(list') + Len(unsorted') = Len(linked)
    BY <1>1, <1>2, <1>4, <1>6, <1>7 DEF SortInv, SortLosesNoCase
  <2> QED
    BY <2>1, <1>2, <1>9, <1>10 DEF SortInv, SortLosesNoCase
<1>12. KeepsOrder(unsorted)'
  <2>1. \A i, j \in DOMAIN Tail(unsorted) : i < j => i + 1 < j + 1
    BY <1>1
  <2> QED
    BY <2>1, <1>2, <1>4 DEF SortInv, KeepsOrder, LinkedBefore
<1>13. \A j \in DOMAIN unsorted' : Alike(x, unsorted'[j]) => LinkedBefore(x, unsorted'[j])
  <2>1. \A j \in DOMAIN Tail(unsorted) : 1 < j + 1
    BY <1>1
  <2> QED
    BY <2>1, <1>2, <1>3, <1>4 DEF SortInv, KeepsOrder
<1>14. \A n \in DOMAIN list' : list'[n] = x \/ \E k \in DOMAIN list : list'[n] = list[k]
  BY <1>9 DEF ToSet
<1>15. SortedBeforeRest'
  <2>1. ASSUME NEW i \in DOMAIN list', NEW j \in DOMAIN unsorted', Alike(list'[i], unsorted'[j])
        PROVE  LinkedBefore(list'[i], unsorted'[j])
    BY <2>1, <1>2, <1>4, <1>13, <1>14 DEF SortInv, SortedBeforeRest
  <2> QED
    BY <2>1, <1>2 DEF SortedBeforeRest, Alike, LinkedBefore
<1>16. SortIsStable'
  <2> DEFINE Placed(o, q) == Less(o, q) \/ (~Less(q, o) /\ LinkedBefore(o, q))
  <2>1. \A i, j \in DOMAIN list : i < j => Placed(list[i], list[j])
    BY DEF SortInv, SortIsStable, LinkedBefore
  <2>2. \A k \in DOMAIN list : k < p => Placed(list[k], x)
    <3> SUFFICES ASSUME NEW k \in DOMAIN list, k < p, ~Less(list[k], x) PROVE Placed(list[k], x)
      OBVIOUS
    <3>1. Alike(list[k], x)
      BY <1>5 DEF Alike
    <3> QED
      BY <3>1, <1>3, <1>5 DEF SortInv, SortedBeforeRest
  <2>3. \A k \in DOMAIN list : k >= p => Less(x, list[k])
    <3> SUFFICES ASSUME NEW k \in DOMAIN list, k >= p PROVE Less(x, list[k])
      OBVIOUS
    <3>1. p \in DOMAIN list /\ Less(x, list[p])
      BY <1>5, <1>7
    <3>2. p = k \/ ~Less(list[k], list[p])
      <4>1. p = k \/ (p < k /\ Placed(list[p], list[k]))
        BY <3>1, <2>1, <1>5, <1>7
      <4> QED
        BY <4>1, <3>1, <1>7, LessIsAnOrder
    <3> QED
      BY <3>1, <3>2, <1>3, <1>7, LessIsAnOrder
  <2>4. ASSUME NEW i \in DOMAIN list', NEW j \in DOMAIN list', i < j
        PROVE  Placed(list'[i], list'[j])
    <3>1. CASE j < p
      BY <3>1, <2>1, <2>4, <1>5, <1>6, <1>7
    <3>2. CASE j = p
      BY <3>2, <2>2, <2>4, <1>5, <1>6, <1>7
    <3>3. CASE j > p
      <4>1. j - 1 \in DOMAIN list /\ list'[j] = list[j - 1] /\ j - 1 >= p
        BY <3>3, <1>5, <1>6, <1>7
      <4>2. CASE i < p
        <5>1. i \in DOMAIN list /\ list'[i] = list[i] /\ i < j - 1
          BY <4>2, <3>3, <1>5, <1>6, <1>7
        <5> QED
          BY <5>1, <4>1, <2>1
      <4>3. CASE i = p
        BY <4>1, <4>3, <2>3, <1>6
      <4>4. CASE i > p
        <5>1. i - 1 \in DOMAIN list /\ list'[i] = list[i - 1] /\ i - 1 < j - 1
          BY <4>4, <2>4, <1>5, <1>6, <1>7
        <5> QED
          BY <5>1, <4>1, <2>1
      <4> QED
        BY <4>2, <4>3, <4>4, <1>5, <1>6
    <3> QED
      BY <3>1, <3>2, <3>3, <1>5, <1>6
  <2> HIDE DEF Placed
  <2>5. \A i, j \in DOMAIN list' : i < j => Placed(list'[i], list'[j])
    BY <2>4
  <2> QED
    BY <2>5, <1>2 DEF SortIsStable, Placed, LinkedBefore, Less
<1>17. (HasEveryCase(tests) /\ KeepsOrder(tests))'
  BY <1>2 DEF SortInv, HasEveryCase, KeepsOrder, Alike, LinkedBefore
<1> QED
  BY <1>8, <1>11, <1>12, <1>15, <1>16, <1>17 DEF SortInv

(* When the head pointer is set, the list holds every case.                *)
LEMMA SortDoneSortInv == SortInv /\ SortDone => SortInv'
<1> SUFFICES ASSUME SortInv, SortDone PROVE SortInv'
  OBVIOUS
<1>1. /\ unsorted = <<>> /\ tests' = list
      /\ list' = list /\ unsorted' = unsorted /\ linked' = linked
  BY DEF SortDone
<1>2. linked \in Seq(Addresses) /\ list \in Seq(Addresses)
  BY DEF SortInv, ListsAreOfCases
<1>3. HasEveryCase(list)
  <2>1. Len(unsorted) = 0 /\ ToSet(unsorted) = {}
    BY <1>1 DEF ToSet
  <2> QED
    BY <2>1, <1>2 DEF SortInv, SortLosesNoCase, HasEveryCase
<1>4. KeepsOrder(list)
  BY DEF SortInv, SortIsStable, KeepsOrder, Alike, LinkedBefore
<1> QED
  BY <1>1, <1>3, <1>4
  DEF SortInv, ListsAreOfCases, HasEveryCase, SortLosesNoCase, KeepsOrder, SortedBeforeRest,
      SortIsStable, Alike, LinkedBefore, Less

(* A further run starts from the list the last one sorted.                 *)
LEMMA AgainSortInv == SortInv /\ Again => SortInv'
<1> SUFFICES ASSUME SortInv, Again PROVE SortInv'
  OBVIOUS
<1>1. list' = <<>> /\ unsorted' = tests /\ tests' = tests /\ linked' = linked
  BY DEF Again
<1>2. ListsAreOfCases'
  BY <1>1 DEF SortInv, ListsAreOfCases
<1>3. SortLosesNoCase'
  <2>1. Len(list') = 0 /\ ToSet(list') = {}
    BY <1>1 DEF ToSet
  <2>2. Len(tests) = Len(linked) /\ Len(linked) \in Nat /\ ToSet(tests) = ToSet(linked)
    BY DEF SortInv, HasEveryCase, ListsAreOfCases
  <2> QED
    BY <1>1, <2>1, <2>2 DEF SortLosesNoCase
<1>4. SortedBeforeRest' /\ SortIsStable'
  BY <1>1 DEF SortedBeforeRest, SortIsStable
<1> QED
  BY <1>1, <1>2, <1>3, <1>4 DEF SortInv, HasEveryCase, KeepsOrder, Alike, LinkedBefore

(* No other step touches the lists.                                        *)
LEMMA OthersKeepLists ==
    (Next \/ UNCHANGED vars) /\ ~SortStep /\ ~SortDone /\ ~Again =>
        UNCHANGED <<tests, list, unsorted, linked>>
BY DEF Next, vars, runVars, SkipCase, EnterCase, EmitSuiteEnd, EmitSuiteStart, StartCase,
       EndCase, EmitDone, Return, CallUser, UserStep, UserReturns, UserFails, UserIgnores,
       UserProtects, UserAborts, UserSetsParam, UserClearsParam, Terminated

(* The sort's inductive invariant holds in every reachable state.          *)
THEOREM SortInvariance == Spec => []SortInv
<1>1. UNCHANGED <<tests, list, unsorted, linked>> /\ SortInv => SortInv'
  BY DEF SortInv, ListsAreOfCases, HasEveryCase, SortLosesNoCase, KeepsOrder, SortedBeforeRest,
         SortIsStable, Alike, LinkedBefore, Less
<1>2. SortInv /\ [Next]_vars => SortInv'
  BY <1>1, SortStepSortInv, SortDoneSortInv, AgainSortInv, OthersKeepLists
<1> QED
  BY <1>2, InitSortInv, PTL DEF Spec

(* sort_cases relinks the only list of the cases: whatever constructors    *)
(* registered and however often main runs, no case is lost or doubled.     *)
THEOREM NoCaseIsLost == Spec => []SortLosesNoCase
<1>1. SortInv => SortLosesNoCase
  BY DEF SortInv
<1> QED
  BY <1>1, SortInvariance, PTL

(* The list is in order of case_cmp and cases of equal names stay in the   *)
(* order they were linked in, for any registry and any number of runs.     *)
THEOREM SortIsStableAlways == Spec => []SortIsStable
<1>1. SortInv => SortIsStable
  BY DEF SortInv
<1> QED
  BY <1>1, SortInvariance, PTL

-----------------------------------------------------------------------------
(* A jump or a parameter's index reaches beyond a callback only out of a   *)
(* region or turn that a callback left by return or IGNORE.                *)
THEOREM LeaksAreUnfinished == Spec => []OnlyUnfinishedRegionsLeak
<1> USE DEF OnlyUnfinishedRegionsLeak
<1>1. Init => OnlyUnfinishedRegionsLeak
  BY DEF Init
<1>2. OnlyUnfinishedRegionsLeak /\ [Next]_vars => OnlyUnfinishedRegionsLeak'
  <2> SUFFICES ASSUME OnlyUnfinishedRegionsLeak, [Next]_vars PROVE OnlyUnfinishedRegionsLeak'
    OBVIOUS
  <2>1. CASE UNCHANGED userVars
    BY <2>1 DEF userVars
  <2>2. CASE UserReturns
    BY <2>2 DEF UserReturns, Leave
  <2>3. CASE UserFails
    BY <2>3 DEF UserFails
  <2>4. CASE UserIgnores
    BY <2>4 DEF UserIgnores, Leave
  <2>5. CASE UserProtects
    BY <2>5 DEF UserProtects
  <2>6. CASE UserAborts
    BY <2>6 DEF UserAborts
  <2>7. CASE UserSetsParam
    BY <2>7 DEF UserSetsParam
  <2>8. CASE UserClearsParam
    BY <2>8 DEF UserClearsParam
  <2>9. UserStep \/ UNCHANGED userVars
    BY DEF Next, vars, SortStep, SortDone, SkipCase, EnterCase, EmitSuiteEnd, EmitSuiteStart,
           StartCase, EndCase, EmitDone, Return, Again, CallUser, Terminated
  <2> QED
    BY <2>1, <2>2, <2>3, <2>4, <2>5, <2>6, <2>7, <2>8, <2>9 DEF UserStep
<1> QED
  BY <1>1, <1>2, PTL DEF Spec

-----------------------------------------------------------------------------
(* Verdicts and the stream.  What of a stream t belongs to the case that   *)
(* ends at n: the events after the last start before n.                    *)
Starts(t, n) == {k \in DOMAIN t : t[k].type = "CaseStart" /\ k < n}
LastStart(t, n) == {k \in Starts(t, n) : \A m \in Starts(t, n) : m <= k}
OfCase(t, n, types) ==
    {k \in DOMAIN t : t[k].type \in types /\ k < n /\ \A m \in LastStart(t, n) : m < k}

Failures == {"AssertFail", "Abort"}

VerdictFits(t, n) ==
    /\ t[n].status = "Passed" => OfCase(t, n, Failures) = {}
    /\ t[n].status = "Failed" => OfCase(t, n, Failures) # {}
    /\ \A k \in OfCase(t, n, {"AssertFail"}) : t[k].id = t[n].id

CasePhases == {"setup", "body", "cleanup", "verdict"}

(* While a case runs its start is the last in the stream, all failures     *)
(* after it are its own, and g_current_failed tells whether there are any. *)
FlagFollowsStream ==
    pc \in CasePhases =>
        \E s \in DOMAIN trace :
            /\ trace[s].type = "CaseStart"
            /\ \A k \in DOMAIN trace : k > s =>
                  /\ trace[k].type # "CaseStart"
                  /\ trace[k].type = "AssertFail" => trace[k].id = IdOf(current)
                  /\ trace[k].type \in Failures => failing
            /\ failing => \E k \in DOMAIN trace : k > s /\ trace[k].type \in Failures

(* A stream is a sequence, whatever its elements.                          *)
IsStream(t) == t \in Seq(ToSet(t))

VerdictInv ==
    /\ IsStream(trace)
    /\ inUser => pc \in Callbacks
    /\ FlagFollowsStream
    /\ \A n \in DOMAIN trace : trace[n].type = "CaseEnd" => VerdictFits(trace, n)

(* An event is appended behind the others.                                 *)
LEMMA EmitAppends ==
    ASSUME NEW t, IsStream(t), NEW e
    PROVE  /\ IsStream(Append(t, e))
           /\ DOMAIN t = 1 .. Len(t) /\ Len(t) \in Nat
           /\ DOMAIN Append(t, e) = 1 .. Len(t) + 1
           /\ \A k \in 1 .. Len(t) : Append(t, e)[k] = t[k]
           /\ Append(t, e)[Len(t) + 1] = e
<1> DEFINE S == ToSet(t) \cup {e}
<1>1. t \in Seq(S) /\ e \in S
  <2>1. t \in Seq(ToSet(t))
    BY DEF IsStream
  <2> HIDE DEF S
  <2>2. ToSet(t) \subseteq S /\ e \in S
    BY DEF S
  <2> QED
    BY <2>1, <2>2
<1> HIDE DEF S
<1>2. /\ Append(t, e) \in Seq(S) /\ DOMAIN t = 1 .. Len(t) /\ Len(t) \in Nat
      /\ Len(Append(t, e)) = Len(t) + 1
      /\ \A k \in 1 .. Len(t) : Append(t, e)[k] = t[k]
      /\ Append(t, e)[Len(t) + 1] = e
  BY <1>1
<1> DEFINE u == Append(t, e)
<1> HIDE DEF u
<1>3. u \in Seq(S) => u \in Seq(ToSet(u)) /\ DOMAIN u = 1 .. Len(u)
  BY DEF ToSet
<1> QED
  BY <1>2, <1>3 DEF IsStream, u

(* What is appended later changes nothing for a case that has ended.       *)
LEMMA VerdictsStay ==
    ASSUME NEW t, IsStream(t), NEW e, NEW n \in DOMAIN t, VerdictFits(t, n)
    PROVE  VerdictFits(Append(t, e), n)
<1> DEFINE u == Append(t, e)
<1>1. /\ DOMAIN t = 1 .. Len(t) /\ Len(t) \in Nat /\ DOMAIN u = 1 .. Len(t) + 1
      /\ \A k \in DOMAIN t : u[k] = t[k]
  BY EmitAppends
<1> HIDE DEF u
<1>2. \A k : k \in DOMAIN t /\ k < n <=> k \in DOMAIN u /\ k < n
  BY <1>1
<1>3. Starts(u, n) = Starts(t, n)
  BY <1>1, <1>2 DEF Starts
<1>4. LastStart(u, n) = LastStart(t, n)
  BY <1>3 DEF LastStart
<1>5. \A types : OfCase(u, n, types) = OfCase(t, n, types)
  BY <1>1, <1>2, <1>4 DEF OfCase
<1>6. \A k \in OfCase(t, n, {"AssertFail"}) : u[k] = t[k]
  BY <1>1 DEF OfCase
<1> QED
  BY <1>1, <1>5, <1>6 DEF VerdictFits, u

(* A step that emits no verdict keeps those given.                         *)
LEMMA OthersKeepVerdicts ==
    ASSUME VerdictInv, NEW e, trace' = Append(trace, e)
    PROVE  /\ IsStream(trace')
           /\ \A n \in DOMAIN trace : trace[n].type = "CaseEnd" => VerdictFits(trace', n)
           /\ e.type # "CaseEnd" =>
                 \A n \in DOMAIN trace' : trace'[n].type = "CaseEnd" => VerdictFits(trace', n)
<1>1. /\ IsStream(trace') /\ DOMAIN trace = 1 .. Len(trace) /\ Len(trace) \in Nat
      /\ DOMAIN trace' = 1 .. Len(trace) + 1
      /\ \A k \in 1 .. Len(trace) : trace'[k] = trace[k]
      /\ trace'[Len(trace) + 1] = e
  BY EmitAppends DEF VerdictInv
<1>2. \A n \in DOMAIN trace : trace[n].type = "CaseEnd" => VerdictFits(trace', n)
  BY VerdictsStay DEF VerdictInv
<1>3. \A n \in DOMAIN trace' : n \in DOMAIN trace \/ n = Len(trace) + 1
  BY <1>1
<1> QED
  BY <1>1, <1>2, <1>3

(* A start makes the stream ready for the failures of its case.            *)
LEMMA StartCaseVerdictInv == VerdictInv /\ StartCase => VerdictInv'
<1> SUFFICES ASSUME VerdictInv, StartCase PROVE VerdictInv'
  OBVIOUS
<1> DEFINE e == CaseStart(IdOf(current'))
<1>1. /\ trace' = Append(trace, e) /\ failing' = FALSE /\ e.type = "CaseStart"
      /\ pc = "case" /\ inUser' = inUser
  BY DEF StartCase, Emit, CaseStart
<1> HIDE DEF e
<1>2. IsStream(trace)
  BY DEF VerdictInv
<1>3. FlagFollowsStream'
  <2> DEFINE s == Len(trace) + 1
  <2>1. s \in DOMAIN trace' /\ trace'[s] = e /\ \A k \in DOMAIN trace' : ~(k > s)
    BY <1>1, <1>2, EmitAppends
  <2> QED
    BY <2>1, <1>1 DEF FlagFollowsStream
<1>4. (inUser => pc \in Callbacks)'
  BY <1>1 DEF VerdictInv, Callbacks
<1> QED
  BY <1>1, <1>3, <1>4, OthersKeepVerdicts DEF VerdictInv

(* The verdict given is that of the flag, and the flag follows the stream. *)
LEMMA EndCaseVerdictInv == VerdictInv /\ EndCase => VerdictInv'
<1> SUFFICES ASSUME VerdictInv, EndCase PROVE VerdictInv'
  OBVIOUS
<1> DEFINE e == CaseEnd(IdOf(current), Verdict)
           n == Len(trace) + 1
<1>1. /\ trace' = Append(trace, e)
      /\ e.type = "CaseEnd" /\ e.id = IdOf(current) /\ e.status = Verdict
      /\ pc = "verdict" /\ pc' = "loop" /\ inUser' = inUser
  BY DEF EndCase, Emit, CaseEnd
<1> HIDE DEF e
<1>2. /\ IsStream(trace') /\ DOMAIN trace = 1 .. Len(trace) /\ Len(trace) \in Nat
      /\ DOMAIN trace' = 1 .. Len(trace) + 1
      /\ \A k \in 1 .. Len(trace) : trace'[k] = trace[k]
      /\ trace'[Len(trace) + 1] = e
  BY <1>1, EmitAppends DEF VerdictInv
<1>3. PICK s \in DOMAIN trace :
            /\ trace[s].type = "CaseStart"
            /\ \A k \in DOMAIN trace : k > s =>
                  /\ trace[k].type # "CaseStart"
                  /\ trace[k].type = "AssertFail" => trace[k].id = IdOf(current)
                  /\ trace[k].type \in Failures => failing
            /\ failing => \E k \in DOMAIN trace : k > s /\ trace[k].type \in Failures
  BY <1>1 DEF VerdictInv, FlagFollowsStream, CasePhases
<1>4. \A k : k \in DOMAIN trace' /\ k < n <=> k \in DOMAIN trace
  BY <1>2
<1>5. \A k \in Starts(trace', n) : k <= s
  BY <1>2, <1>3, <1>4 DEF Starts
<1>6. LastStart(trace', n) = {s}
  <2>1. s \in Starts(trace', n)
    BY <1>2, <1>3, <1>4 DEF Starts
  <2>2. \A k \in Starts(trace', n) : k \in Nat
    BY <1>2 DEF Starts
  <2> QED
    BY <2>1, <2>2, <1>5 DEF LastStart
<1>7. \A types : OfCase(trace', n, types) = {k \in DOMAIN trace : trace[k].type \in types /\ k > s}
  <2>1. \A k \in DOMAIN trace : trace'[k] = trace[k] /\ (s < k <=> k > s)
    BY <1>2
  <2> QED
    BY <2>1, <1>4, <1>6 DEF OfCase
<1>8. /\ Verdict = "Passed" => ~failing
      /\ Verdict = "Failed" => failing
  BY DEF Verdict
<1> HIDE DEF n
<1>9. VerdictFits(trace', n)
  <2>1. trace'[n].status = Verdict /\ trace'[n].id = IdOf(current)
    BY <1>1, <1>2 DEF n
  <2>2. ~failing => OfCase(trace', n, Failures) = {}
    BY <1>3, <1>7
  <2>3. failing => OfCase(trace', n, Failures) # {}
    BY <1>3, <1>7
  <2>4. \A k \in OfCase(trace', n, {"AssertFail"}) : trace'[k].id = IdOf(current)
    BY <1>2, <1>3, <1>7
  <2> QED
    BY <2>1, <2>2, <2>3, <2>4, <1>8 DEF VerdictFits
<1>10. \A k \in DOMAIN trace' : k \in DOMAIN trace \/ k = n
  BY <1>2 DEF n
<1>11. \A k \in DOMAIN trace : trace[k].type = "CaseEnd" => VerdictFits(trace', k) /\ trace'[k] = trace[k]
  BY <1>1, <1>2, OthersKeepVerdicts
<1>12. FlagFollowsStream' /\ ~inUser'
  BY <1>1 DEF FlagFollowsStream, CasePhases, VerdictInv, Callbacks
<1> QED
  BY <1>2, <1>9, <1>10, <1>11, <1>12 DEF VerdictInv

(* A failing harness call raises the flag and shows in the stream.         *)
LEMMA FailVerdictInv == VerdictInv /\ (UserFails \/ UserAborts) => VerdictInv'
<1> SUFFICES ASSUME VerdictInv, UserFails \/ UserAborts PROVE VerdictInv'
  OBVIOUS
<1>1. PICK e : /\ trace' = Append(trace, e) /\ e.type \in Failures
               /\ e.type = "AssertFail" => e.id = IdOf(current)
  <2>1. CASE UserFails
    <3> DEFINE e == [type |-> "AssertFail", id |-> IdOf(current),
                     param |-> IF param.active THEN {param.index} ELSE {}]
    <3>1. trace' = Append(trace, e)
      BY <2>1 DEF UserFails, Emit
    <3>2. e.type = "AssertFail" /\ e.id = IdOf(current)
      OBVIOUS
    <3> HIDE DEF e
    <3> QED
      BY <3>1, <3>2 DEF Failures
  <2>2. CASE UserAborts
    <3> DEFINE e == [type |-> "Abort"]
    <3>1. trace' = Append(trace, e) /\ e.type = "Abort"
      BY <2>2 DEF UserAborts, Note
    <3> HIDE DEF e
    <3> QED
      BY <3>1 DEF Failures
  <2> QED
    BY <2>1, <2>2
<1>2. /\ failing' = TRUE /\ current' = current /\ inUser
      /\ \/ pc' = pc /\ inUser' = inUser
         \/ pc' = "crashed" /\ inUser' = FALSE
  BY DEF UserFails, UserAborts, MayCall, loopVars
<1>3. /\ IsStream(trace') /\ DOMAIN trace = 1 .. Len(trace) /\ Len(trace) \in Nat
      /\ DOMAIN trace' = 1 .. Len(trace) + 1
      /\ \A k \in 1 .. Len(trace) : trace'[k] = trace[k]
      /\ trace'[Len(trace) + 1] = e
  BY <1>1, EmitAppends DEF VerdictInv
<1>4. ASSUME pc' \in CasePhases PROVE FlagFollowsStream'
  <2>1. pc \in CasePhases
    BY <1>2, <1>4 DEF CasePhases
  <2>2. PICK s \in DOMAIN trace :
            /\ trace[s].type = "CaseStart"
            /\ \A k \in DOMAIN trace : k > s =>
                  /\ trace[k].type # "CaseStart"
                  /\ trace[k].type = "AssertFail" => trace[k].id = IdOf(current)
    BY <2>1 DEF VerdictInv, FlagFollowsStream
  <2>3. /\ s \in DOMAIN trace' /\ trace'[s].type = "CaseStart"
        /\ Len(trace) + 1 \in DOMAIN trace' /\ Len(trace) + 1 > s
    BY <1>3, <2>2
  <2>4. \A k \in DOMAIN trace' : k > s =>
           /\ trace'[k].type # "CaseStart"
           /\ trace'[k].type = "AssertFail" => trace'[k].id = IdOf(current)
    <3>1. e.type # "CaseStart"
      BY <1>1 DEF Failures
    <3>2. \A k \in DOMAIN trace' : k \in DOMAIN trace \/ k = Len(trace) + 1
      BY <1>3
    <3> QED
      BY <1>1, <1>3, <2>2, <3>1, <3>2
  <2>5. trace'[Len(trace) + 1].type \in Failures
    BY <1>1, <1>3
  <2>6. IdOf(current)' = IdOf(current)
    BY <1>2 DEF IdOf
  <2> QED
    BY <1>2, <2>3, <2>4, <2>5, <2>6 DEF FlagFollowsStream
<1>5. FlagFollowsStream'
  BY <1>4 DEF FlagFollowsStream
<1>6. e.type # "CaseEnd"
  BY <1>1 DEF Failures
<1>7. (inUser => pc \in Callbacks)'
  BY <1>2 DEF VerdictInv, Callbacks
<1> QED
  BY <1>1, <1>5, <1>6, <1>7, OthersKeepVerdicts DEF VerdictInv

(* Steps that neither begin nor end a case, nor fail.                      *)
Neutral ==
    /\ failing' = failing /\ current' = current
    /\ pc' \in CasePhases => pc \in CasePhases
    /\ inUser' => pc' \in Callbacks

(* A neutral step that emits nothing.                                      *)
LEMMA SilentVerdictInv == VerdictInv /\ Neutral /\ trace' = trace => VerdictInv'
<1> SUFFICES ASSUME VerdictInv, Neutral, trace' = trace PROVE VerdictInv'
  OBVIOUS
<1>1. IdOf(current)' = IdOf(current)
  BY DEF Neutral, IdOf
<1>2. FlagFollowsStream'
  BY <1>1 DEF VerdictInv, Neutral, FlagFollowsStream
<1>3. \A n \in DOMAIN trace : VerdictFits(trace, n)' <=> VerdictFits(trace, n)
  BY DEF VerdictFits, OfCase, LastStart, Starts
<1> QED
  BY <1>2, <1>3 DEF VerdictInv, Neutral, IsStream

(* A neutral step that emits an event of a suite, of the run or a callback.*)
LEMMA EmittingVerdictInv ==
    ASSUME VerdictInv, Neutral, NEW e, trace' = Append(trace, e),
           e.type \notin {"CaseStart", "CaseEnd"} \cup Failures
    PROVE  VerdictInv'
<1>1. /\ DOMAIN trace = 1 .. Len(trace) /\ Len(trace) \in Nat
      /\ DOMAIN trace' = 1 .. Len(trace) + 1
      /\ \A k \in 1 .. Len(trace) : trace'[k] = trace[k]
      /\ trace'[Len(trace) + 1] = e
  BY EmitAppends DEF VerdictInv
<1>2. ASSUME pc' \in CasePhases PROVE FlagFollowsStream'
  <2>1. IdOf(current)' = IdOf(current) /\ failing' = failing
    BY DEF Neutral, IdOf
  <2>2. PICK s \in DOMAIN trace :
            /\ trace[s].type = "CaseStart"
            /\ \A k \in DOMAIN trace : k > s =>
                  /\ trace[k].type # "CaseStart"
                  /\ trace[k].type = "AssertFail" => trace[k].id = IdOf(current)
                  /\ trace[k].type \in Failures => failing
            /\ failing => \E k \in DOMAIN trace : k > s /\ trace[k].type \in Failures
    BY <1>2 DEF VerdictInv, Neutral, FlagFollowsStream
  <2>3. \A k \in DOMAIN trace : k \in DOMAIN trace' /\ trace'[k] = trace[k]
    BY <1>1
  <2>4. \A k \in DOMAIN trace' : k \in DOMAIN trace \/ k = Len(trace) + 1
    BY <1>1
  <2>5. e.type # "CaseStart" /\ e.type # "AssertFail" /\ e.type \notin Failures
    BY DEF Failures
  <2>6. \A k \in DOMAIN trace' : k > s =>
           /\ trace'[k].type # "CaseStart"
           /\ trace'[k].type = "AssertFail" => trace'[k].id = IdOf(current)
           /\ trace'[k].type \in Failures => failing
    BY <1>1, <2>2, <2>3, <2>4, <2>5
  <2>7. failing => \E k \in DOMAIN trace' : k > s /\ trace'[k].type \in Failures
    BY <2>2, <2>3
  <2> QED
    BY <2>1, <2>2, <2>3, <2>6, <2>7 DEF FlagFollowsStream
<1>3. FlagFollowsStream'
  BY <1>2 DEF FlagFollowsStream
<1> QED
  BY <1>3, OthersKeepVerdicts DEF VerdictInv, Neutral

(* Which events the remaining emitting steps emit.                         *)
LEMMA SuitesVerdictInv == VerdictInv /\ (EmitSuiteEnd \/ EmitSuiteStart \/ EmitDone) => VerdictInv'
<1> SUFFICES ASSUME VerdictInv, EmitSuiteEnd \/ EmitSuiteStart \/ EmitDone PROVE VerdictInv'
  OBVIOUS
<1>1. Neutral
  BY DEF VerdictInv, Neutral, EmitSuiteEnd, EmitSuiteStart, EmitDone, CasePhases, Callbacks,
         flagVars, loopVars
<1>2. \E e : trace' = Append(trace, e) /\ e.type \in {"SuiteEnd", "SuiteStart", "Done"}
  <2>1. /\ SuiteEnd(openSuite, suiteTally).type = "SuiteEnd"
        /\ SuiteStart(openSuite).type = "SuiteStart"
        /\ DoneEvent(tally).type = "Done"
    BY DEF SuiteEnd, SuiteStart, DoneEvent
  <2> QED
    BY <2>1 DEF EmitSuiteEnd, EmitSuiteStart, EmitDone, Emit
<1> QED
  BY <1>1, <1>2, EmittingVerdictInv DEF Failures

(* A callback begins, or there is none.                                    *)
LEMMA CallUserVerdictInv == VerdictInv /\ CallUser => VerdictInv'
<1> SUFFICES ASSUME VerdictInv, CallUser PROVE VerdictInv'
  OBVIOUS
<1>1. After[pc] \in CasePhases => pc \in CasePhases
  BY DEF CallUser, After, Callbacks, CasePhases
<1>2. Neutral
  BY <1>1 DEF Neutral, CallUser, flagVars, loopVars
<1>3. CASE trace' = Append(trace, Call(pc))
  <2>1. Call(pc).type = "Call"
    BY DEF Call
  <2> QED
    BY <1>2, <1>3, <2>1, EmittingVerdictInv DEF Failures
<1>4. CASE trace' = trace
  BY <1>2, <1>4, SilentVerdictInv
<1> QED
  BY <1>3, <1>4 DEF CallUser, Note, streams

(* The steps that emit nothing.                                            *)
LEMMA QuietVerdictInv ==
    VerdictInv /\ (\/ SortStep \/ SortDone \/ SkipCase \/ EnterCase \/ Return
                   \/ UserReturns \/ UserIgnores \/ UserProtects \/ UserSetsParam
                   \/ UserClearsParam \/ UNCHANGED vars) => VerdictInv'
<1> SUFFICES ASSUME VerdictInv,
                    \/ SortStep \/ SortDone \/ SkipCase \/ EnterCase \/ Return
                    \/ UserReturns \/ UserIgnores \/ UserProtects \/ UserSetsParam
                    \/ UserClearsParam \/ UNCHANGED vars
             PROVE  VerdictInv'
  OBVIOUS
<1> USE DEF VerdictInv, Neutral, flagVars, loopVars, streams
<1>1. CASE SortStep \/ SortDone \/ Return
  BY <1>1, SilentVerdictInv DEF SortStep, SortDone, Return, CasePhases, Callbacks
<1>2. CASE SkipCase \/ EnterCase
  BY <1>2, SilentVerdictInv DEF SkipCase, EnterCase, CasePhases, Callbacks
<1>3. CASE UserReturns \/ UserIgnores
  <2>1. inUser /\ After[pc] \in CasePhases => pc \in CasePhases
    BY DEF After, Callbacks, CasePhases
  <2> QED
    BY <1>3, <2>1, SilentVerdictInv DEF UserReturns, UserIgnores, MayCall, Leave
<1>4. CASE UserProtects \/ UserSetsParam \/ UserClearsParam
  BY <1>4, SilentVerdictInv DEF UserProtects, UserSetsParam, UserClearsParam
<1>5. CASE UNCHANGED vars
  BY <1>5, SilentVerdictInv DEF vars
<1> QED
  BY <1>1, <1>2, <1>3, <1>4, <1>5

(* A further run begins with an empty stream.                              *)
LEMMA FirstVerdictInv ==
    /\ Init => VerdictInv
    /\ VerdictInv /\ Again => VerdictInv'
<1>1. ASSUME NEW t, t = <<>> PROVE IsStream(t) /\ DOMAIN t = {}
  BY <1>1 DEF IsStream
<1>2. Init => VerdictInv
  BY <1>1 DEF Init, VerdictInv, FlagFollowsStream, CasePhases
<1>3. VerdictInv /\ Again => VerdictInv'
  <2> SUFFICES ASSUME VerdictInv, Again PROVE VerdictInv'
    OBVIOUS
  <2>1. trace' = <<>> /\ pc' = "sort" /\ ~inUser'
    BY DEF Again, VerdictInv, Callbacks
  <2>2. FlagFollowsStream'
    BY <2>1 DEF FlagFollowsStream, CasePhases
  <2> QED
    BY <1>1, <2>1, <2>2 DEF VerdictInv
<1> QED
  BY <1>2, <1>3

(* The invariant of flag and stream holds in every reachable state.        *)
THEOREM VerdictInvariance == Spec => []VerdictInv
<1>1. VerdictInv /\ [Next]_vars => VerdictInv'
  <2>1. Terminated => UNCHANGED vars
    BY DEF Terminated
  <2> QED
    BY <2>1, StartCaseVerdictInv, EndCaseVerdictInv, FailVerdictInv, SuitesVerdictInv,
       CallUserVerdictInv, QuietVerdictInv, FirstVerdictInv DEF Next, UserStep
<1> QED
  BY <1>1, FirstVerdictInv, PTL DEF Spec

(* Whatever user code does, in fixtures and bodies: a case whose failure   *)
(* the stream shows is not reported as passed, none fails that neither     *)
(* failed an assert nor aborted, and every failure names the case it is in.*)
THEOREM VerdictsAreTrue == Spec => []VerdictMatchesStream
<1>1. VerdictInv => VerdictMatchesStream
  <2>1. \A n \in DOMAIN trace :
            /\ At({"CaseStart"}) \cap {k \in DOMAIN trace : k < n} = Starts(trace, n)
            /\ LastBefore({"CaseStart"}, n) = LastStart(trace, n)
    BY DEF At, LastBefore, Starts, LastStart
  <2>2. \A types : \A n \in DOMAIN trace :
            {k \in At(types) : k < n /\ \A m \in LastBefore({"CaseStart"}, n) : m < k}
                = OfCase(trace, n, types)
    BY <2>1 DEF At, OfCase
  <2> QED
    BY <2>2 DEF VerdictInv, VerdictMatchesStream, VerdictFits, Failures, At
<1> QED
  BY <1>1, VerdictInvariance, PTL

-----------------------------------------------------------------------------
(* The loop of run_filtered.                                               *)
SuiteAt(k) == Cases[list[k]].suite

(* Where the loop works on the case at `at`, and where it is over.         *)
AtCase == {"open", "opened", "case"} \cup CasePhases
Over   == {"done", "return", "exit"}

(* The open suite, if any, is never behind the cases to come; where it has *)
(* to be closed first, they are all behind it.                             *)
PlaceInv ==
    /\ at \in Nat \ {0} /\ openSuite \in Nat
    /\ pc # "sort" =>
          /\ unsorted = <<>>
          /\ at <= Len(list) + 1
          /\ \A k \in DOMAIN list : at <= k => openSuite <= SuiteAt(k)
    /\ pc \in AtCase => at \in DOMAIN list /\ Selected(list[at]) /\ openSuite = SuiteAt(at)
    /\ (pc \in {"teardown", "closed"} /\ at \in DOMAIN list)
          => Selected(list[at]) /\ openSuite < SuiteAt(at)
    /\ pc \in {"open", "opened", "teardown", "closed"} => openSuite # NullName
    /\ pc \in CasePhases => current = list[at]
    /\ pc \in Over => at = Len(list) + 1
    /\ inUser => pc \in Callbacks

-----------------------------------------------------------------------------
(* The list is ordered by suites first.                                    *)
LEMMA SuitesInOrder ==
    ASSUME SortInv
    PROVE  /\ DOMAIN list = 1 .. Len(list) /\ Len(list) \in Nat
           /\ \A k \in DOMAIN list : list[k] \in Addresses /\ SuiteAt(k) \in Nat
           /\ \A i, j \in DOMAIN list : i <= j => SuiteAt(i) <= SuiteAt(j)
<1>1. list \in Seq(Addresses)
  BY DEF SortInv, ListsAreOfCases
<1>2. DOMAIN list = 1 .. Len(list) /\ Len(list) \in Nat /\ \A k \in DOMAIN list : list[k] \in Addresses
  BY <1>1
<1>3. \A k \in DOMAIN list : SuiteAt(k) \in Nat
  BY <1>2, HarnessAssumption DEF HarnessAssumption, CaseDesc, Addresses, SuiteAt
<1>4. ASSUME NEW i \in DOMAIN list, NEW j \in DOMAIN list, i <= j
      PROVE  SuiteAt(i) <= SuiteAt(j)
  <2>1. CASE i = j
    BY <2>1, <1>3
  <2>2. CASE i < j
    <3>1. Less(list[i], list[j]) \/ ~Less(list[j], list[i])
      BY <2>2 DEF SortInv, SortIsStable
    <3> QED
      BY <3>1, <1>3 DEF Less, SuiteAt
  <2> QED
    BY <2>1, <2>2, <1>2, <1>4
<1> QED
  BY <1>2, <1>3, <1>4

(* What is selected does not change while the build and the filter do not. *)
LEMMA SelectionStays ==
    ASSUME UNCHANGED <<build, by>>, UNCHANGED <<list, at>>
    PROVE  Selected(list[at])' <=> Selected(list[at])
BY DEF Selected, Has, LinkedSuites, LinkedGroups

(* Every step of the loop keeps to its place.                              *)
LEMMA LoopPlace ==
    SortInv /\ PlaceInv /\ (SkipCase \/ EnterCase \/ EmitSuiteEnd) => PlaceInv'
<1> SUFFICES ASSUME SortInv, PlaceInv, SkipCase \/ EnterCase \/ EmitSuiteEnd PROVE PlaceInv'
  OBVIOUS
<1>1. /\ DOMAIN list = 1 .. Len(list) /\ Len(list) \in Nat
      /\ \A k \in DOMAIN list : SuiteAt(k) \in Nat
      /\ \A i, j \in DOMAIN list : i <= j => SuiteAt(i) <= SuiteAt(j)
  BY SuitesInOrder
<1>2. /\ UNCHANGED <<list, unsorted, build, by, current, inUser>>
      /\ pc \in {"loop", "closed"} /\ ~inUser
      /\ \A k : SuiteAt(k)' = SuiteAt(k)
  BY DEF SkipCase, EnterCase, EmitSuiteEnd, runVars, PlaceInv, Callbacks, SuiteAt
<1>3. CASE SkipCase
  BY <1>1, <1>2, <1>3 DEF SkipCase, PlaceInv, AtCase, CasePhases, Over
<1>4. CASE EnterCase
  <2>1. at' = at /\ (Selected(list[at])' <=> Selected(list[at]))
    BY <1>2, <1>4, SelectionStays DEF EnterCase
  <2>2. CASE at <= Len(list)
    <3>1. at \in DOMAIN list /\ openSuite <= SuiteAt(at)
      BY <1>1, <1>4, <2>2 DEF PlaceInv, EnterCase
    <3>2. /\ Selected(list[at])
          /\ pc' \in {"case", "open", "teardown"}
          /\ pc' = "case" => openSuite' = openSuite /\ openSuite = SuiteAt(at)
          /\ pc' = "open" => openSuite' = SuiteAt(at) /\ openSuite = NullName /\ SuiteAt(at) # NullName
          /\ pc' = "teardown" => openSuite' = openSuite /\ openSuite # NullName /\ openSuite # SuiteAt(at)
      BY <1>4, <2>2 DEF EnterCase, SuiteAt
    <3> QED
      BY <1>1, <1>2, <2>1, <2>2, <3>1, <3>2, <1>4
      DEF EnterCase, PlaceInv, AtCase, CasePhases, Over, Callbacks, NullName
  <2>3. CASE ~(at <= Len(list))
    BY <1>1, <1>2, <2>1, <2>3, <1>4
    DEF EnterCase, PlaceInv, AtCase, CasePhases, Over, Callbacks, NullName
  <2> QED
    BY <2>2, <2>3
<1>5. CASE EmitSuiteEnd
  <2>1. at' = at /\ (Selected(list[at])' <=> Selected(list[at])) /\ pc = "closed"
    BY <1>2, <1>5, SelectionStays DEF EmitSuiteEnd
  <2>2. CASE at <= Len(list)
    <3>1. at \in DOMAIN list /\ openSuite < SuiteAt(at) /\ Selected(list[at])
      BY <1>1, <2>1, <2>2 DEF PlaceInv
    <3>2. openSuite' = SuiteAt(at) /\ pc' = "open"
      BY <1>5, <2>2 DEF EmitSuiteEnd, SuiteAt
    <3> QED
      BY <1>1, <1>2, <2>1, <2>2, <3>1, <3>2
      DEF PlaceInv, AtCase, CasePhases, Over, Callbacks, NullName
  <2>3. CASE ~(at <= Len(list))
    BY <1>1, <1>2, <2>1, <2>3, <1>5
    DEF EmitSuiteEnd, PlaceInv, AtCase, CasePhases, Over, Callbacks, NullName
  <2> QED
    BY <2>2, <2>3
<1> QED
  BY <1>3, <1>4, <1>5

(* The sort hands over the whole list, and no suite is open yet.           *)
LEMMA SortPlace ==
    SortInv /\ PlaceInv /\ (SortStep \/ SortDone \/ Again) => PlaceInv'
<1> SUFFICES ASSUME SortInv, PlaceInv, SortStep \/ SortDone \/ Again PROVE PlaceInv'
  OBVIOUS
<1>1. Len(list) \in Nat /\ \A k \in DOMAIN list : SuiteAt(k) \in Nat
  BY SuitesInOrder
<1>2. CASE SortStep \/ Again
  BY <1>2 DEF SortStep, Again, loopVars, PlaceInv, AtCase, CasePhases, Over, Callbacks
<1>3. CASE SortDone
  BY <1>1, <1>3 DEF SortDone, PlaceInv, AtCase, CasePhases, Over, Callbacks, NullName, SuiteAt
<1> QED
  BY <1>2, <1>3

(* A case is started, runs its callbacks and ends in its place.            *)
LEMMA CasePlace ==
    SortInv /\ PlaceInv /\ (\/ EmitSuiteStart \/ StartCase \/ EndCase \/ EmitDone \/ Return
                            \/ CallUser \/ UserStep \/ UNCHANGED vars) => PlaceInv'
<1> SUFFICES ASSUME SortInv, PlaceInv,
                    \/ EmitSuiteStart \/ StartCase \/ EndCase \/ EmitDone \/ Return
                    \/ CallUser \/ UserStep \/ UNCHANGED vars
             PROVE  PlaceInv'
  OBVIOUS
<1>1. DOMAIN list = 1 .. Len(list) /\ Len(list) \in Nat /\ \A k \in DOMAIN list : SuiteAt(k) \in Nat
  BY SuitesInOrder
<1>2. /\ UNCHANGED <<list, unsorted, build, by, openSuite>>
      /\ \A k : SuiteAt(k)' = SuiteAt(k)
  BY DEF EmitSuiteStart, StartCase, EndCase, EmitDone, Return, CallUser, UserStep, UserReturns,
         UserFails, UserIgnores, UserProtects, UserAborts, UserSetsParam, UserClearsParam, vars,
         runVars, loopVars, SuiteAt
<1> USE DEF PlaceInv, AtCase, CasePhases, Over, Callbacks
<1>3. CASE EndCase
  BY <1>1, <1>2, <1>3 DEF EndCase
<1>4. ASSUME ~EndCase PROVE at' = at /\ (Selected(list[at])' <=> Selected(list[at]))
  <2>1. at' = at
    BY <1>4 DEF EmitSuiteStart, StartCase, EmitDone, Return, CallUser, UserStep, UserReturns,
         UserFails, UserIgnores, UserProtects, UserAborts, UserSetsParam, UserClearsParam, vars,
         loopVars
  <2> QED
    BY <2>1, <1>2, SelectionStays
<1>5. CASE ~EndCase /\ (EmitSuiteStart \/ StartCase \/ EmitDone \/ Return \/ UNCHANGED vars)
  BY <1>1, <1>2, <1>4, <1>5 DEF EmitSuiteStart, StartCase, EmitDone, Return, loopVars, vars
<1>6. CASE ~EndCase /\ (CallUser \/ UserReturns \/ UserIgnores)
  BY <1>1, <1>2, <1>4, <1>6
  DEF CallUser, UserReturns, UserIgnores, MayCall, Leave, After, loopVars
<1>7. CASE ~EndCase /\ (UserFails \/ UserProtects \/ UserAborts \/ UserSetsParam \/ UserClearsParam)
  BY <1>1, <1>2, <1>4, <1>7
  DEF UserFails, UserProtects, UserAborts, UserSetsParam, UserClearsParam, MayCall, loopVars
<1> QED
  BY <1>3, <1>5, <1>6, <1>7 DEF UserStep

(* The loop is in its place in every reachable state.                      *)
THEOREM PlaceInvariance == Spec => []PlaceInv
<1>1. Init => PlaceInv
  BY DEF Init, PlaceInv, AtCase, CasePhases, Over, NullName
<1>2. SortInv /\ PlaceInv /\ [Next]_vars => PlaceInv'
  BY LoopPlace, SortPlace, CasePlace DEF Next, Terminated
<1> QED
  BY <1>1, <1>2, SortInvariance, PTL DEF Spec

-----------------------------------------------------------------------------
(* The verdicts written so far are those of the selected cases the loop    *)
(* has passed, in the order of the list.                                   *)
Passed(n) == {k \in DOMAIN list : k < n /\ Selected(list[k])}

Follows(of) ==
    /\ \A n \in Ends : wire[n].id = IdOf(list[of[n]])
    /\ \A m, n \in Ends : m < n => of[m] < of[n]

OrderInv ==
    /\ IsStream(wire)
    /\ pc = "sort" => wire = <<>>
    /\ pc # "sort" => \E of \in Bijection(Ends, Passed(at)) : Follows(of)

(* What an event behind the others does to the ends.                       *)
LEMMA EndsGrow ==
    ASSUME IsStream(wire), NEW e, wire' = Append(wire, e)
    PROVE  /\ IsStream(wire')
           /\ Len(wire) \in Nat /\ DOMAIN wire = 1 .. Len(wire)
           /\ DOMAIN wire' = 1 .. Len(wire) + 1
           /\ wire'[Len(wire) + 1] = e
           /\ \A k \in DOMAIN wire : wire'[k] = wire[k]
           /\ Ends \subseteq DOMAIN wire
           /\ Ends' = IF e.type = "CaseEnd" THEN Ends \cup {Len(wire) + 1} ELSE Ends
<1>1. /\ IsStream(wire') /\ DOMAIN wire = 1 .. Len(wire) /\ Len(wire) \in Nat
      /\ DOMAIN wire' = 1 .. Len(wire) + 1
      /\ \A k \in 1 .. Len(wire) : wire'[k] = wire[k]
      /\ wire'[Len(wire) + 1] = e
  BY EmitAppends
<1>2. \A k : k \in DOMAIN wire' <=> k \in DOMAIN wire \/ k = Len(wire) + 1
  BY <1>1
<1>3. Ends' = {k \in DOMAIN wire' : wire'[k].type = "CaseEnd"}
  BY DEF Ends
<1> QED
  BY <1>1, <1>2, <1>3 DEF Ends

(* A step that writes no verdict and passes no selected case.              *)
LEMMA OrderKept ==
    ASSUME SortInv, OrderInv, UNCHANGED <<build, by, list>>,
           pc # "sort" /\ pc' # "sort",
           at \in Nat,
           at' = at \/ (at' = at + 1 /\ ~Selected(list[at])),
           wire' = wire \/ \E e : wire' = Append(wire, e) /\ e.type # "CaseEnd"
    PROVE  OrderInv'
<1>1. PICK of \in Bijection(Ends, Passed(at)) : Follows(of)
  BY DEF OrderInv
<1>2. \A o : Selected(o)' <=> Selected(o)
  BY DEF Selected, Has, LinkedSuites, LinkedGroups
<1>3. {k \in DOMAIN list : k < at' /\ Selected(list[k])} = Passed(at)
  <2>1. DOMAIN list = 1 .. Len(list) /\ Len(list) \in Nat
    BY SuitesInOrder
  <2>2. \A k \in DOMAIN list : k < at + 1 <=> k < at \/ k = at
    BY <2>1
  <2> QED
    BY <2>2 DEF Passed
<1>4. Passed(at)' = Passed(at)
  <2>1. Passed(at)' = {k \in DOMAIN list : k < at' /\ Selected(list[k])'}
    BY DEF Passed
  <2> QED
    BY <2>1, <1>2, <1>3
<1>5. IsStream(wire') /\ Ends' = Ends /\ \A n \in Ends : wire'[n] = wire[n]
  <2>1. CASE wire' = wire
    BY <2>1 DEF OrderInv, IsStream, Ends
  <2>2. ASSUME NEW e, wire' = Append(wire, e), e.type # "CaseEnd"
        PROVE  IsStream(wire') /\ Ends' = Ends /\ \A n \in Ends : wire'[n] = wire[n]
    BY <2>2, EndsGrow DEF OrderInv
  <2> QED
    BY <2>1, <2>2
<1>6. \A o : IdOf(o)' = IdOf(o)
  BY DEF IdOf
<1>7. Follows(of)'
  BY <1>1, <1>5, <1>6 DEF Follows
<1> QED
  BY <1>1, <1>4, <1>5, <1>7 DEF OrderInv

(* A verdict belongs to the case the loop is at, which it passes.          *)
LEMMA EndCaseOrder == SortInv /\ PlaceInv /\ OrderInv /\ EndCase => OrderInv'
<1> SUFFICES ASSUME SortInv, PlaceInv, OrderInv, EndCase PROVE OrderInv'
  OBVIOUS
<1> DEFINE e == CaseEnd(IdOf(current), Verdict)
           n == Len(wire) + 1
<1>1. /\ UNCHANGED <<build, by, list>> /\ pc = "verdict" /\ pc' = "loop" /\ at' = at + 1
      /\ wire' = Append(wire, e) /\ e.type = "CaseEnd" /\ e.id = IdOf(current)
  BY DEF EndCase, Emit, runVars, CaseEnd
<1> HIDE DEF e
<1>2. /\ IsStream(wire') /\ Len(wire) \in Nat /\ DOMAIN wire = 1 .. Len(wire)
      /\ wire'[n] = e
      /\ \A k \in DOMAIN wire : wire'[k] = wire[k]
      /\ Ends \subseteq DOMAIN wire /\ Ends' = Ends \cup {n}
  BY <1>1, EndsGrow DEF OrderInv
<1>3. n \notin Ends /\ \A k \in Ends : k < n /\ ~(n < k)
  BY <1>2
<1> HIDE DEF n
<1>4. at \in DOMAIN list /\ at \in Nat /\ Selected(list[at]) /\ current = list[at]
  BY <1>1 DEF PlaceInv, AtCase, CasePhases
<1>5. PICK of \in Bijection(Ends, Passed(at)) : Follows(of)
  BY <1>1 DEF OrderInv
<1>6. \A o : (Selected(o)' <=> Selected(o)) /\ IdOf(o)' = IdOf(o)
  BY <1>1 DEF Selected, Has, LinkedSuites, LinkedGroups, IdOf
<1>7. Passed(at)' = Passed(at) \cup {at} /\ at \notin Passed(at) /\ \A k \in Passed(at) : k < at /\ ~(at < k)
  <2>1. DOMAIN list = 1 .. Len(list) /\ Len(list) \in Nat
    BY SuitesInOrder
  <2>2. \A k \in DOMAIN list : k < at + 1 <=> k < at \/ k = at
    BY <2>1, <1>4
  <2>3. Passed(at)' = {k \in DOMAIN list : k < at + 1 /\ Selected(list[k])}
    BY <1>1, <1>6 DEF Passed
  <2>4. at \notin Passed(at) /\ \A k \in Passed(at) : k < at /\ ~(at < k)
    BY <2>1, <1>4 DEF Passed
  <2> QED
    BY <2>2, <2>3, <2>4, <1>4 DEF Passed
<1>8. /\ of \in [Ends -> Passed(at)]
      /\ \A a, b \in Ends : of[a] = of[b] => a = b
      /\ \A k \in Passed(at) : \E m \in Ends : of[m] = k
  BY <1>5 DEF Bijection, Injection, Surjection, IsInjective
<1> DEFINE longer == [m \in Ends \cup {n} |-> IF m = n THEN at ELSE of[m]]
<1>9. longer \in Bijection(Ends \cup {n}, Passed(at) \cup {at})
  <2>1. longer \in [Ends \cup {n} -> Passed(at) \cup {at}]
    BY <1>8
  <2>2. \A a, b \in Ends \cup {n} : longer[a] = longer[b] => a = b
    BY <1>3, <1>7, <1>8
  <2>3. \A k \in Passed(at) \cup {at} : \E m \in Ends \cup {n} : longer[m] = k
    BY <1>3, <1>8
  <2> QED
    BY <2>1, <2>2, <2>3 DEF Bijection, Injection, Surjection, IsInjective
<1>10. \A m \in Ends \cup {n} : wire'[m].id = IdOf(list[longer[m]])
  BY <1>1, <1>2, <1>3, <1>4, <1>5 DEF Follows
<1>11. \A l, m \in Ends \cup {n} : l < m => longer[l] < longer[m]
  <2> SUFFICES ASSUME NEW l \in Ends \cup {n}, NEW m \in Ends \cup {n}, l < m
               PROVE  longer[l] < longer[m]
    OBVIOUS
  <2>1. l \in Ends
    BY <1>2, <1>3 DEF n
  <2>2. CASE m = n
    BY <2>1, <2>2, <1>3, <1>7, <1>8
  <2>3. CASE m \in Ends
    BY <2>1, <2>3, <1>3, <1>5 DEF Follows
  <2> QED
    BY <2>2, <2>3
<1> HIDE DEF longer
<1>12. PICK next : next = longer
  OBVIOUS
<1>13. Follows(next)'
  BY <1>1, <1>2, <1>6, <1>10, <1>11, <1>12 DEF Follows
<1>14. next \in Bijection(Ends', Passed(at)')
  BY <1>2, <1>7, <1>9, <1>12
<1> QED
  BY <1>1, <1>2, <1>13, <1>14 DEF OrderInv

(* The first run, and every further one, starts with nothing written.      *)
LEMMA StartOrder ==
    /\ Init => OrderInv
    /\ SortInv /\ OrderInv /\ (Again \/ SortStep \/ SortDone) => OrderInv'
<1>1. ASSUME NEW t, t = <<>> PROVE IsStream(t) /\ DOMAIN t = {}
  BY <1>1 DEF IsStream
<1>2. Init => OrderInv
  BY <1>1 DEF Init, OrderInv
<1>3. OrderInv /\ Again => OrderInv'
  BY <1>1 DEF Again, OrderInv
<1>4. OrderInv /\ SortStep => OrderInv'
  BY DEF SortStep, OrderInv, streams, IsStream
<1>5. ASSUME SortInv, OrderInv, SortDone PROVE OrderInv'
  <2>1. wire = <<>> /\ wire' = wire /\ pc' # "sort" /\ at' = 1 /\ list' = list
    BY <1>5 DEF SortDone, OrderInv, streams
  <2>2. IsStream(wire') /\ Ends' = {}
    BY <2>1, <1>1 DEF Ends
  <2>3. Passed(at)' = {}
    <3>1. DOMAIN list = 1 .. Len(list) /\ Len(list) \in Nat
      BY <1>5, SuitesInOrder
    <3>2. \A k \in DOMAIN list : ~(k < 1)
      BY <3>1
    <3> QED
      BY <2>1, <3>2 DEF Passed
  <2> DEFINE none == [m \in {} |-> 0]
  <2>4. none \in Bijection({}, {})
    BY DEF Bijection, Injection, Surjection, IsInjective
  <2> HIDE DEF none
  <2>5. Follows(none)'
    BY <2>2 DEF Follows
  <2> QED
    BY <2>1, <2>2, <2>3, <2>4, <2>5 DEF OrderInv
<1> QED
  BY <1>2, <1>3, <1>4, <1>5

(* The other steps write no verdict.                                       *)
LEMMA OtherOrder ==
    SortInv /\ PlaceInv /\ OrderInv /\
    (\/ SkipCase \/ EnterCase \/ EmitSuiteEnd \/ EmitSuiteStart \/ StartCase \/ EmitDone \/ Return
     \/ CallUser \/ UserStep \/ UNCHANGED vars) => OrderInv'
<1> SUFFICES ASSUME SortInv, PlaceInv, OrderInv,
                    \/ SkipCase \/ EnterCase \/ EmitSuiteEnd \/ EmitSuiteStart \/ StartCase
                    \/ EmitDone \/ Return \/ CallUser \/ UserStep \/ UNCHANGED vars
             PROVE  OrderInv'
  OBVIOUS
<1>1. UNCHANGED <<build, by, list>> /\ at \in Nat
  BY DEF SkipCase, EnterCase, EmitSuiteEnd, EmitSuiteStart, StartCase, EmitDone, Return, CallUser,
         UserStep, UserReturns, UserFails, UserIgnores, UserProtects, UserAborts, UserSetsParam,
         UserClearsParam, vars, runVars, PlaceInv
<1>2. CASE pc = "sort"
  BY <1>2 DEF SkipCase, EnterCase, EmitSuiteEnd, EmitSuiteStart, StartCase, EmitDone, Return,
         CallUser, UserStep, UserReturns, UserFails, UserIgnores, UserProtects, UserAborts,
         UserSetsParam, UserClearsParam, MayCall, vars, streams, OrderInv, IsStream, PlaceInv, Callbacks
<1>3. ASSUME pc # "sort"
      PROVE  /\ pc' # "sort"
             /\ at' = at \/ (at' = at + 1 /\ ~Selected(list[at]))
             /\ wire' = wire \/ \E e : wire' = Append(wire, e) /\ e.type # "CaseEnd"
  <2>1. CASE SkipCase \/ EnterCase \/ Return \/ UNCHANGED vars
    BY <1>3, <2>1 DEF SkipCase, EnterCase, Return, vars, loopVars, streams
  <2>2. CASE EmitSuiteEnd \/ EmitSuiteStart \/ StartCase \/ EmitDone
    <3>1. /\ SuiteEnd(openSuite, suiteTally).type # "CaseEnd" /\ SuiteStart(openSuite).type # "CaseEnd"
          /\ DoneEvent(tally).type # "CaseEnd" /\ CaseStart(IdOf(current')).type # "CaseEnd"
      BY DEF SuiteEnd, SuiteStart, DoneEvent, CaseStart
    <3> QED
      BY <2>2, <3>1 DEF EmitSuiteEnd, EmitSuiteStart, StartCase, EmitDone, Emit, loopVars
  <2>3. CASE CallUser
    BY <1>3, <2>3 DEF CallUser, Note, streams, loopVars, Callbacks, After
  <2>4. CASE UserFails
    <3> DEFINE e == [type |-> "AssertFail", id |-> IdOf(current),
                     param |-> IF param.active THEN {param.index} ELSE {}]
    <3>1. wire' = Append(wire, e) /\ e.type # "CaseEnd"
      BY <2>4 DEF UserFails, Emit
    <3> HIDE DEF e
    <3> QED
      BY <1>3, <2>4, <3>1 DEF UserFails, loopVars
  <2>5. CASE UserReturns \/ UserIgnores
    BY <1>3, <2>5 DEF UserReturns, UserIgnores, MayCall, Leave, PlaceInv, Callbacks, After, loopVars, streams
  <2>6. CASE UserProtects \/ UserAborts \/ UserSetsParam \/ UserClearsParam
    BY <1>3, <2>6 DEF UserProtects, UserAborts, UserSetsParam, UserClearsParam, Note, loopVars, streams
  <2> QED
    BY <2>1, <2>2, <2>3, <2>4, <2>5, <2>6 DEF UserStep
<1> QED
  BY <1>1, <1>2, <1>3, OrderKept

(* Verdicts come in list order in every reachable state.                   *)
THEOREM OrderInvariance == Spec => []OrderInv
<1>1. SortInv /\ PlaceInv /\ OrderInv /\ [Next]_vars => OrderInv'
  BY StartOrder, EndCaseOrder, OtherOrder DEF Next, Terminated
<1> QED
  BY <1>1, StartOrder, SortInvariance, PlaceInvariance, PTL DEF Spec

(* A run that ends has run each case its filter selects exactly once and   *)
(* no other, in the order of the list: for every registry, filter, build   *)
(* and whatever the cases do, unless one of them kills the process.        *)
THEOREM SelectedCasesRun == Spec => []EachSelectedCaseRuns
<1>1. SortInv /\ PlaceInv /\ OrderInv => EachSelectedCaseRuns
  <2> SUFFICES ASSUME SortInv, PlaceInv, OrderInv, pc = "exit"
               PROVE  \E of \in Bijection(Ends, {k \in DOMAIN list : Selected(list[k])}) : Follows(of)
    BY DEF EachSelectedCaseRuns, Follows
  <2>1. DOMAIN list = 1 .. Len(list) /\ Len(list) \in Nat /\ at = Len(list) + 1
    BY SuitesInOrder DEF PlaceInv, Over
  <2>2. Passed(at) = {k \in DOMAIN list : Selected(list[k])}
    BY <2>1 DEF Passed
  <2> QED
    BY <2>2 DEF OrderInv
<1> QED
  BY <1>1, SortInvariance, PlaceInvariance, OrderInvariance, PTL

-----------------------------------------------------------------------------
(* The callbacks called so far, as entries of the trace.                   *)
OfSuite(c) == c.what \in {"open", "teardown"}
CallSuite(c) == IF OfSuite(c) THEN c.of ELSE Cases[list[c.of]].suite

(* Where the loop may be when a callback of the case it is at has begun.   *)
Begun(what) ==
    \/ pc = "crashed" \/ (pc = what /\ inUser)
    \/ pc \in CASE what = "setup"   -> {"body", "cleanup", "verdict"}
                [] what = "body"    -> {"cleanup", "verdict"}
                [] what = "cleanup" -> {"verdict"}

(* What the past calls may be for, seen from where the loop is.            *)
CallFits(c) ==
    /\ c.type = "Call" /\ c.what \in Callbacks /\ c.of \in Nat
    /\ ~OfSuite(c) => /\ c.of \in DOMAIN list /\ c.of <= at
                      /\ c.of = at => Begun(c.what)
    /\ CallSuite(c) <= openSuite
    /\ CallSuite(c) = openSuite => ~(pc = "open" /\ ~inUser)
    /\ (CallSuite(c) = openSuite /\ c.what = "teardown") =>
          pc \in {"closed", "crashed"} \cup Over \/ (pc = "teardown" /\ inUser)

(* What the documentation promises of two calls, the first one before.     *)
Bracketed(a, b) ==
    /\ b.what = "open" => CallSuite(a) # b.of
    /\ a.what = "teardown" => CallSuite(b) # a.of
    /\ (~OfSuite(a) /\ ~OfSuite(b)) =>
          \/ a.of < b.of
          \/ a.of = b.of /\ <<a.what, b.what>> \in
                {<<"setup", "body">>, <<"setup", "cleanup">>, <<"body", "cleanup">>}

FixtureInv ==
    /\ pc = "sort" => trace = <<>>
    /\ \A n \in At({"Call"}) : CallFits(trace[n])
    /\ \A m, n \in At({"Call"}) : m < n => Bracketed(trace[m], trace[n])

-----------------------------------------------------------------------------
(* Past calls fit every place the loop goes to.                            *)
LEMMA LoopFits ==
    ASSUME SortInv, PlaceInv, NEW c, CallFits(c),
           \/ SkipCase \/ EnterCase \/ EmitSuiteEnd \/ EmitSuiteStart \/ StartCase
           \/ EndCase \/ EmitDone \/ Return
    PROVE  CallFits(c)'
<1>1. /\ DOMAIN list = 1 .. Len(list) /\ Len(list) \in Nat
      /\ \A k \in DOMAIN list : SuiteAt(k) \in Nat
  BY SuitesInOrder
<1>2. list' = list /\ inUser' = inUser /\ ~inUser
  BY DEF SkipCase, EnterCase, EmitSuiteEnd, EmitSuiteStart, StartCase, EndCase, EmitDone, Return,
         runVars, PlaceInv, Callbacks
<1>3. /\ CallSuite(c)' = CallSuite(c) /\ CallSuite(c) \in Nat
      /\ c.type = "Call" /\ c.what \in Callbacks /\ c.of \in Nat
      /\ ~OfSuite(c) => c.of \in DOMAIN list /\ c.of <= at /\ c.what \in {"setup", "body", "cleanup"}
      /\ CallSuite(c) <= openSuite
  BY <1>1, <1>2 DEF CallFits, CallSuite, OfSuite, SuiteAt, Callbacks
<1>4. at \in Nat /\ openSuite \in Nat
  BY DEF PlaceInv
<1>5. CASE SkipCase \/ EndCase
  <2>1. /\ pc \in {"loop", "verdict"} /\ pc' = "loop" /\ at' = at + 1 /\ openSuite' = openSuite
    BY <1>5 DEF SkipCase, EndCase
  <2>2. ~(CallSuite(c) = openSuite /\ c.what = "teardown")
    BY <1>2, <2>1 DEF CallFits, Over
  <2> QED
    BY <1>2, <1>3, <1>4, <2>1, <2>2 DEF CallFits, Over
<1>6. CASE EnterCase \/ EmitSuiteEnd
  <2>1. /\ at' = at /\ pc \in {"loop", "closed"} /\ pc' \in {"case", "open", "teardown", "done"}
        /\ openSuite' = openSuite \/ (pc' = "open" /\ openSuite < openSuite')
        /\ pc' # "open" => openSuite' = openSuite
        /\ pc = "closed" => pc' \in {"open", "done"}
        /\ pc' = "open" => openSuite < openSuite'
    <3>1. CASE EnterCase
      <4>1. (openSuite = NullName /\ at \in DOMAIN list /\ SuiteAt(at) # openSuite)
              => openSuite < SuiteAt(at)
        BY <1>1 DEF NullName
      <4>2. at <= Len(list) => at \in DOMAIN list
        BY <1>1 DEF PlaceInv
      <4> QED
        BY <3>1, <4>1, <4>2 DEF EnterCase, SuiteAt
    <3>2. CASE EmitSuiteEnd
      <4>1. at <= Len(list) => at \in DOMAIN list
        BY <1>1 DEF PlaceInv
      <4> QED
        BY <3>2, <4>1 DEF EmitSuiteEnd, PlaceInv, SuiteAt
    <3> QED
      BY <1>6, <3>1, <3>2
  <2>2. ~OfSuite(c) => c.of # at
    BY <1>2, <1>3, <2>1 DEF CallFits, Begun
  <2>3. pc = "loop" => ~(CallSuite(c) = openSuite /\ c.what = "teardown")
    BY <1>2 DEF CallFits, Over
  <2>4. openSuite' \in Nat
    BY LoopPlace, <1>6 DEF PlaceInv
  <2> QED
    BY <1>2, <1>3, <1>4, <2>1, <2>2, <2>3, <2>4 DEF CallFits, Over
<1>7. CASE EmitSuiteStart \/ StartCase \/ EmitDone \/ Return
  <2>1. /\ at' = at /\ openSuite' = openSuite
        /\ \/ pc = "opened" /\ pc' = "case"
           \/ pc = "case" /\ pc' = "setup"
           \/ pc = "done" /\ pc' = "return"
           \/ pc = "return" /\ pc' = "exit"
    BY <1>7 DEF EmitSuiteStart, StartCase, EmitDone, Return, loopVars
  <2>2. ~OfSuite(c) => c.of # at
    BY <1>2, <1>3, <2>1 DEF CallFits, Begun
  <2> QED
    BY <1>2, <1>3, <1>4, <2>1, <2>2 DEF CallFits, Over
<1> QED
  BY <1>5, <1>6, <1>7

(* The same for the steps of user code and the call that enters it.        *)
LEMMA UserFits ==
    ASSUME PlaceInv, NEW c, CallFits(c), CallUser \/ UserStep \/ UNCHANGED vars
    PROVE  CallFits(c)'
<1>1. /\ UNCHANGED <<list, at, openSuite>>
      /\ \/ pc' = pc /\ inUser' = inUser
         \/ pc \in Callbacks /\ ~inUser /\ pc' = pc /\ inUser'
         \/ pc \in Callbacks /\ pc' = After[pc] /\ ~inUser'
         \/ pc' = "crashed"
  BY DEF CallUser, UserStep, UserReturns, UserFails, UserIgnores, UserProtects, UserAborts,
         UserSetsParam, UserClearsParam, MayCall, Leave, vars, runVars, loopVars, PlaceInv
<1>2. CallSuite(c)' = CallSuite(c) /\ OfSuite(c)' = OfSuite(c)
  BY <1>1 DEF CallSuite, OfSuite
<1>3. ~OfSuite(c) => c.what \in {"setup", "body", "cleanup"}
  BY DEF CallFits, OfSuite, Callbacks
<1>4. Begun(c.what) /\ ~OfSuite(c) => Begun(c.what)'
  BY <1>1, <1>3 DEF Begun, Callbacks, After
<1> QED
  BY <1>1, <1>2, <1>4 DEF CallFits, Callbacks, After, Over

(* The callback that is called now fits, and comes after those before it.  *)
LEMMA NewCallFits ==
    ASSUME SortInv, PlaceInv, CallUser, HasCallback, NEW new, new = Call(pc)
    PROVE  CallFits(new)' /\ \A c : CallFits(c) => Bracketed(c, new)'
<1>1. /\ UNCHANGED <<list, at, openSuite>> /\ pc \in Callbacks /\ ~inUser /\ pc' = pc /\ inUser'
  BY DEF CallUser, runVars, loopVars
<1>2. /\ new.type = "Call" /\ new.what = pc
      /\ pc \in {"open", "teardown"} => new.of = openSuite
      /\ pc \notin {"open", "teardown"} => new.of = at
  BY DEF Call
<1>3. at \in Nat /\ openSuite \in Nat
  BY DEF PlaceInv
<1>4. pc \notin {"open", "teardown"} => at \in DOMAIN list /\ openSuite = SuiteAt(at)
  BY <1>1 DEF PlaceInv, AtCase, CasePhases, Callbacks
<1>5. CallSuite(new)' = openSuite
  BY <1>1, <1>2, <1>4 DEF CallSuite, OfSuite, SuiteAt, Callbacks
<1>6. CallFits(new)'
  BY <1>1, <1>2, <1>3, <1>4, <1>5 DEF CallFits, OfSuite, Begun, Callbacks
<1>7. ASSUME NEW c, CallFits(c) PROVE Bracketed(c, new)'
  <2>1. CallSuite(c)' = CallSuite(c)
    BY <1>1 DEF CallSuite, OfSuite
  <2>2. pc = "open" => CallSuite(c) # openSuite
    BY <1>1, <1>7 DEF CallFits
  <2>3. c.what = "teardown" => CallSuite(c) = c.of /\ c.of # openSuite
    BY <1>1, <1>7 DEF CallFits, CallSuite, OfSuite, Callbacks, Over
  <2>4. (~OfSuite(c) /\ ~OfSuite(new)) =>
            \/ c.of < at
            \/ c.of = at /\ <<c.what, pc>> \in
                  {<<"setup", "body">>, <<"setup", "cleanup">>, <<"body", "cleanup">>}
    <3> SUFFICES ASSUME ~OfSuite(c), c.of = at
                 PROVE  <<c.what, pc>> \in
                            {<<"setup", "body">>, <<"setup", "cleanup">>, <<"body", "cleanup">>}
      BY <1>3, <1>7 DEF CallFits
    <3> QED
      BY <1>1, <1>7 DEF CallFits, OfSuite, Begun, Callbacks
  <2> QED
    BY <1>2, <1>5, <2>1, <2>2, <2>3, <2>4 DEF Bracketed, OfSuite
<1> QED
  BY <1>6, <1>7

(* A step that calls nobody.                                               *)
LEMMA FixturesKept ==
    ASSUME IsStream(trace), FixtureInv, pc # "sort", pc' # "sort", UNCHANGED list,
           \A c : CallFits(c) => CallFits(c)',
           trace' = trace \/ \E e : trace' = Append(trace, e) /\ e.type # "Call"
    PROVE  FixtureInv'
<1>1. At({"Call"})' = At({"Call"}) /\ \A n \in At({"Call"}) : trace'[n] = trace[n]
  <2>1. CASE trace' = trace
    BY <2>1 DEF At
  <2>2. ASSUME NEW e, trace' = Append(trace, e), e.type # "Call"
        PROVE  At({"Call"})' = At({"Call"}) /\ \A n \in At({"Call"}) : trace'[n] = trace[n]
    BY <2>2, EmitAppends DEF At
  <2> QED
    BY <2>1, <2>2
<1>2. \A a, b : Bracketed(a, b)' <=> Bracketed(a, b)
  BY DEF Bracketed, CallSuite, OfSuite
<1> QED
  BY <1>1, <1>2 DEF FixtureInv

(* A step that calls.                                                      *)
LEMMA CallFixtures ==
    ASSUME SortInv, PlaceInv, IsStream(trace), FixtureInv, CallUser, HasCallback
    PROVE  FixtureInv'
<1>1. pc' # "sort" /\ pc # "sort" /\ list' = list /\ trace' = Append(trace, Call(pc))
  BY DEF CallUser, Note, runVars, Callbacks
<1>2. PICK new : new = Call(pc)
  OBVIOUS
<1>3. \A c : CallFits(c) => CallFits(c)'
  BY UserFits
<1>4. CallFits(new)' /\ \A c : CallFits(c) => Bracketed(c, new)'
  BY <1>2, NewCallFits
<1> DEFINE n == Len(trace) + 1
<1>5. /\ DOMAIN trace = 1 .. Len(trace) /\ Len(trace) \in Nat
      /\ DOMAIN trace' = 1 .. Len(trace) + 1
      /\ \A k \in 1 .. Len(trace) : trace'[k] = trace[k]
      /\ trace'[n] = new
  BY <1>1, <1>2, EmitAppends
<1>6. /\ \A k \in At({"Call"})' : k = n \/ (k \in At({"Call"}) /\ trace'[k] = trace[k])
      /\ \A k \in At({"Call"}) : k < n
      /\ \A k \in At({"Call"})' : ~(n < k)
  BY <1>5 DEF At
<1> HIDE DEF n
<1>7. \A a, b : Bracketed(a, b)' <=> Bracketed(a, b)
  BY <1>1 DEF Bracketed, CallSuite, OfSuite
<1> QED
  BY <1>1, <1>3, <1>4, <1>5, <1>6, <1>7 DEF FixtureInv

(* Every step keeps the fixtures around what they belong to.               *)
LEMMA FixtureStep ==
    SortInv /\ PlaceInv /\ VerdictInv /\ FixtureInv /\ [Next]_vars => FixtureInv'
<1> SUFFICES ASSUME SortInv, PlaceInv, VerdictInv, FixtureInv, [Next]_vars PROVE FixtureInv'
  OBVIOUS
<1> USE DEF VerdictInv
<1>1. CASE SortStep \/ SortDone \/ Again
  <2>1. trace' = <<>>
    BY <1>1 DEF SortStep, SortDone, Again, FixtureInv, streams
  <2> QED
    BY <2>1 DEF FixtureInv, At
<1>2. CASE pc = "sort" /\ UNCHANGED <<pc, trace>>
  BY <1>2 DEF FixtureInv, At
<1>3. CASE SkipCase \/ EnterCase \/ EmitSuiteEnd \/ EmitSuiteStart \/ StartCase
           \/ EndCase \/ EmitDone \/ Return
  <2>1. \A c : CallFits(c) => CallFits(c)'
    BY <1>3, LoopFits
  <2>2. pc # "sort" /\ pc' # "sort" /\ list' = list
    BY <1>3 DEF SkipCase, EnterCase, EmitSuiteEnd, EmitSuiteStart, StartCase, EndCase, EmitDone,
                Return, runVars
  <2>3. /\ SuiteEnd(openSuite, suiteTally).type # "Call" /\ SuiteStart(openSuite).type # "Call"
        /\ DoneEvent(tally).type # "Call" /\ CaseStart(IdOf(current')).type # "Call"
        /\ CaseEnd(IdOf(current), Verdict).type # "Call"
    BY DEF SuiteEnd, SuiteStart, DoneEvent, CaseStart, CaseEnd
  <2>4. trace' = trace \/ \E e : trace' = Append(trace, e) /\ e.type # "Call"
    BY <1>3, <2>3 DEF SkipCase, EnterCase, EmitSuiteEnd, EmitSuiteStart, StartCase, EndCase,
                      EmitDone, Return, Emit, streams
  <2> QED
    BY <2>1, <2>2, <2>4, FixturesKept
<1>4. CASE CallUser /\ HasCallback
  BY <1>4, CallFixtures
<1>5. CASE (CallUser /\ ~HasCallback) \/ UserStep \/ (pc # "sort" /\ UNCHANGED vars)
  <2>1. \A c : CallFits(c) => CallFits(c)'
    BY <1>5, UserFits
  <2>2. pc # "sort" /\ pc' # "sort" /\ list' = list
    BY <1>5 DEF CallUser, UserStep, UserReturns, UserFails, UserIgnores, UserProtects, UserAborts,
                UserSetsParam, UserClearsParam, MayCall, Leave, vars, runVars, PlaceInv, Callbacks,
                After
  <2>3. trace' = trace \/ \E e : trace' = Append(trace, e) /\ e.type # "Call"
    <3>1. CASE UserFails
      <4> DEFINE e == [type |-> "AssertFail", id |-> IdOf(current),
                       param |-> IF param.active THEN {param.index} ELSE {}]
      <4>1. trace' = Append(trace, e) /\ e.type # "Call"
        BY <3>1 DEF UserFails, Emit
      <4> HIDE DEF e
      <4> QED
        BY <4>1
    <3>2. CASE UserAborts
      BY <3>2 DEF UserAborts, Note
    <3>3. CASE ~UserFails /\ ~UserAborts
      BY <1>5, <3>3 DEF CallUser, UserStep, UserReturns, UserIgnores, UserProtects, UserSetsParam,
                        UserClearsParam, vars, streams
    <3> QED
      BY <3>1, <3>2, <3>3
  <2> QED
    BY <2>1, <2>2, <2>3, FixturesKept
<1> QED
  BY <1>1, <1>2, <1>3, <1>4, <1>5 DEF Next, Terminated, vars, streams

(* The fixtures' invariant holds in every reachable state.                 *)
THEOREM FixtureInvariance == Spec => []FixtureInv
<1>1. Init => FixtureInv
  BY DEF Init, FixtureInv, At
<1> QED
  BY <1>1, FixtureStep, SortInvariance, PlaceInvariance, VerdictInvariance, PTL DEF Spec

-----------------------------------------------------------------------------
(* The functions that were due have been called.                           *)
InCase == {"setup", "body", "cleanup"}

(* Where the loop is when it is done with a function of the case at `at`,  *)
(* and with the teardown of the open suite.                                *)
Gone(what) == pc # "crashed" /\ Begun(what)
Closing    == pc \in {"closed"} \cup Over \/ (pc = "teardown" /\ inUser)
Opening    == pc = "open" /\ ~inUser

(* What must have been called for the case at k by now.                    *)
Due(what, k) ==
    \/ k < at /\ what # "teardown"
    \/ k < at /\ what = "teardown" /\ (SuiteAt(k) # openSuite \/ Closing)
    \/ k = at /\ what \in InCase /\ Gone(what)
    \/ what = "open" /\ SuiteAt(k) = openSuite /\ ~Opening

Owed(what, k) == k \in DOMAIN list /\ Selected(list[k]) /\ what \in FunctionsOf(list[k])

BodyServed(n) ==
    trace[n].what = "body" =>
        \A what \in {"open", "setup"} \cap FunctionsOf(list[trace[n].of]) :
            Called(what, trace[n].of)

ServedInv ==
    /\ pc \notin {"sort", "crashed"} =>
          \A what, k : Owed(what, k) /\ Due(what, k) => Called(what, k)
    /\ \A n \in At({"Call"}) : BodyServed(n)

-----------------------------------------------------------------------------
(* What was called stays called.                                           *)
LEMMA CalledStays ==
    ASSUME IsStream(trace), UNCHANGED list,
           trace' = trace \/ \E e : trace' = Append(trace, e)
    PROVE  \A what, k : Called(what, k) => Called(what, k)'
<1>1. \A n \in At({"Call"}) : n \in At({"Call"})' /\ trace'[n] = trace[n]
  <2>1. CASE trace' = trace
    BY <2>1 DEF At
  <2>2. ASSUME NEW e, trace' = Append(trace, e)
        PROVE  \A n \in At({"Call"}) : n \in At({"Call"})' /\ trace'[n] = trace[n]
    BY <2>2, EmitAppends DEF At
  <2> QED
    BY <2>1, <2>2
<1> QED
  BY <1>1 DEF Called

(* What a call adds.                                                       *)
LEMMA CallIsCalled ==
    ASSUME IsStream(trace), CallUser, HasCallback
    PROVE  /\ pc \in {"open", "teardown"} => \A k : SuiteAt(k) = openSuite => Called(pc, k)'
           /\ pc \notin {"open", "teardown"} => Called(pc, at)'
           /\ \A n \in At({"Call"})' : n \in At({"Call"}) \/ trace'[n] = Call(pc)
           /\ \A n \in At({"Call"}) : trace'[n] = trace[n]
<1>1. trace' = Append(trace, Call(pc)) /\ UNCHANGED <<list, at, openSuite, pc>>
  BY DEF CallUser, Note, runVars, loopVars
<1>2. PICK new : new = Call(pc)
  OBVIOUS
<1>3. PICK n : n = Len(trace) + 1
  OBVIOUS
<1>4. /\ DOMAIN trace = 1 .. Len(trace) /\ Len(trace) \in Nat
      /\ DOMAIN trace' = 1 .. Len(trace) + 1
      /\ \A k \in 1 .. Len(trace) : trace'[k] = trace[k]
      /\ trace'[n] = new
  BY <1>1, <1>2, <1>3, EmitAppends
<1>5. /\ new.type = "Call" /\ new.what = pc
      /\ new.of = IF pc \in {"open", "teardown"} THEN openSuite ELSE at
  BY <1>2 DEF Call
<1>6. n \in At({"Call"})'
  BY <1>3, <1>4, <1>5 DEF At
<1>7. /\ pc \in {"open", "teardown"} => \A k : SuiteAt(k) = openSuite => Called(pc, k)'
      /\ pc \notin {"open", "teardown"} => Called(pc, at)'
  <2>1. trace'[n].what = pc /\ trace'[n].of = new.of
    BY <1>4, <1>5
  <2>2. ASSUME NEW k, pc \in {"open", "teardown"}, SuiteAt(k) = openSuite
        PROVE  Called(pc, k)'
    <3>1. trace'[n].of = Cases[list'[k]].suite
      BY <1>1, <1>5, <2>1, <2>2 DEF SuiteAt
    <3> QED
      BY <1>1, <1>6, <2>1, <2>2, <3>1 DEF Called
  <2>3. ASSUME pc \notin {"open", "teardown"} PROVE Called(pc, at)'
    <3>1. trace'[n].of = at /\ at' = at
      BY <1>1, <1>5, <2>1, <2>3
    <3> QED
      BY <1>1, <1>6, <2>1, <2>3, <3>1 DEF Called
  <2> QED
    BY <2>2, <2>3
<1>8. /\ \A m \in At({"Call"})' : m \in At({"Call"}) \/ trace'[m] = new
      /\ \A m \in At({"Call"}) : trace'[m] = trace[m]
  BY <1>3, <1>4 DEF At
<1> QED
  BY <1>2, <1>7, <1>8

(* Where nothing is called, nothing was registered.                        *)
LEMMA NothingToCall ==
    ASSUME PlaceInv, pc \in Callbacks, ~HasCallback
    PROVE  /\ pc \in {"open", "teardown"} =>
                 \A k : SuiteAt(k) = openSuite => pc \notin FunctionsOf(list[k])
           /\ pc \notin {"open", "teardown"} => pc \notin FunctionsOf(list[at])
<1>1. CASE pc = "open"
  BY <1>1 DEF HasCallback, Provides, FunctionsOf, SuiteAt
<1>2. CASE pc = "teardown"
  BY <1>2 DEF HasCallback, Provides, FunctionsOf, SuiteAt
<1>3. CASE pc \notin {"open", "teardown"}
  <2>1. current = list[at]
    BY <1>3 DEF PlaceInv, CasePhases, Callbacks
  <2> QED
    BY <1>3, <2>1 DEF HasCallback, Provides, FunctionsOf, Callbacks
<1> QED
  BY <1>1, <1>2, <1>3

(* A case of no suite has no suite fixtures.                               *)
LEMMA NoSuiteNoFixture ==
    ASSUME NEW k, SuiteAt(k) = NullName
    PROVE  FunctionsOf(list[k]) \cap {"open", "teardown"} = {}
BY DEF FunctionsOf, SuiteAt

(* What is owed does not change while the lists do not.                    *)
LEMMA OwedStays ==
    ASSUME UNCHANGED <<build, by, list>>
    PROVE  /\ \A what, k : Owed(what, k)' <=> Owed(what, k)
           /\ \A k : FunctionsOf(list[k])' = FunctionsOf(list[k])
<1>1. \A o : Selected(o)' <=> Selected(o)
  BY DEF Selected, Has, LinkedSuites, LinkedGroups
<1>2. \A what, suite, o : Provides(what, suite, o)' <=> Provides(what, suite, o)
  BY DEF Provides, Has, LinkedSuites, LinkedGroups
<1>3. \A o : FunctionsOf(o)' = FunctionsOf(o)
  BY <1>2 DEF FunctionsOf
<1> QED
  BY <1>1, <1>3 DEF Owed

(* Steps of the loop make nothing due that was not due before.             *)
LEMMA LoopDue ==
    ASSUME SortInv, PlaceInv, NEW what, NEW k, Owed(what, k),
           \/ SkipCase \/ EnterCase \/ EmitSuiteEnd \/ EmitSuiteStart \/ StartCase
           \/ EndCase \/ EmitDone \/ Return,
           Due(what, k)'
    PROVE  Due(what, k)
<1>1. /\ DOMAIN list = 1 .. Len(list) /\ Len(list) \in Nat
      /\ \A j \in DOMAIN list : SuiteAt(j) \in Nat
  BY SuitesInOrder
<1>2. /\ k \in DOMAIN list /\ Selected(list[k]) /\ what \in Callbacks
      /\ SuiteAt(k) = NullName => what \in InCase
  BY NoSuiteNoFixture DEF Owed, FunctionsOf, Callbacks, InCase
<1>3. list' = list /\ inUser' = inUser /\ ~inUser /\ SuiteAt(k)' = SuiteAt(k)
  BY DEF SkipCase, EnterCase, EmitSuiteEnd, EmitSuiteStart, StartCase, EndCase, EmitDone, Return,
         runVars, PlaceInv, Callbacks, SuiteAt
<1>4. at \in Nat /\ openSuite \in Nat /\ k \in Nat /\ SuiteAt(k) \in Nat
  BY <1>1, <1>2 DEF PlaceInv
<1>5. CASE SkipCase
  <2>1. pc = "loop" /\ pc' = "loop" /\ at' = at + 1 /\ openSuite' = openSuite /\ k # at
    BY <1>2, <1>5 DEF SkipCase
  <2> QED
    BY <1>2, <1>3, <1>4, <2>1 DEF Due, Gone, Begun, Closing, Opening, Over, Callbacks, InCase
<1>6. CASE EndCase
  <2>1. /\ pc = "verdict" /\ pc' = "loop" /\ at' = at + 1 /\ openSuite' = openSuite
        /\ openSuite = SuiteAt(at)
    BY <1>6 DEF EndCase, PlaceInv, AtCase, CasePhases
  <2>2. k = at => what \in {"open", "teardown"} \cup InCase
    BY <1>2 DEF Callbacks, InCase
  <2> QED
    BY <1>2, <1>3, <1>4, <2>1, <2>2 DEF Due, Gone, Begun, Closing, Opening, Over, Callbacks, InCase
<1>7. CASE EnterCase
  <2>1. /\ at' = at /\ pc = "loop" /\ pc' \in {"case", "open", "teardown", "done"}
        /\ pc' # "open" => openSuite' = openSuite
        /\ pc' \in {"open", "done"} => openSuite = NullName
    BY <1>7 DEF EnterCase
  <2>2. ~(Gone(what) /\ what \in InCase)' 
    BY <1>3, <2>1 DEF Gone, Begun, InCase
  <2>3. what \in {"open", "teardown"} => SuiteAt(k) # NullName
    BY <1>2 DEF InCase
  <2> QED
    BY <1>2, <1>3, <1>4, <2>1, <2>2, <2>3 DEF Due, Closing, Opening, Over, Callbacks, InCase
<1>8. CASE EmitSuiteEnd
  <2>1. /\ at' = at /\ pc = "closed" /\ pc' \in {"open", "done"}
        /\ pc' # "open" => openSuite' = openSuite
    BY <1>8 DEF EmitSuiteEnd
  <2>2. ~(Gone(what) /\ what \in InCase)'
    BY <1>3, <2>1 DEF Gone, Begun, InCase
  <2> QED
    BY <1>2, <1>3, <1>4, <2>1, <2>2 DEF Due, Closing, Opening, Over, Callbacks, InCase
<1>9. CASE EmitSuiteStart \/ StartCase \/ EmitDone \/ Return
  <2>1. /\ at' = at /\ openSuite' = openSuite
        /\ \/ pc = "opened" /\ pc' = "case"
           \/ pc = "case" /\ pc' = "setup"
           \/ pc = "done" /\ pc' = "return"
           \/ pc = "return" /\ pc' = "exit"
    BY <1>9 DEF EmitSuiteStart, StartCase, EmitDone, Return, loopVars
  <2>2. ~(Gone(what) /\ what \in InCase)'
    BY <1>3, <2>1 DEF Gone, Begun, InCase
  <2> QED
    BY <1>2, <1>3, <1>4, <2>1, <2>2 DEF Due, Closing, Opening, Over, Callbacks, InCase
<1> QED
  BY <1>5, <1>6, <1>7, <1>8, <1>9

(* What becomes due around a callback is the callback itself.              *)
LEMMA UserDue ==
    ASSUME SortInv, PlaceInv, NEW what, NEW k, Owed(what, k),
           CallUser \/ UserStep \/ UNCHANGED vars,
           pc' # "crashed", Due(what, k)'
    PROVE  \/ Due(what, k)
           \/ /\ CallUser /\ what = pc
              /\ IF pc \in {"open", "teardown"} THEN SuiteAt(k) = openSuite ELSE k = at
<1>1. /\ UNCHANGED <<list, at, openSuite>>
      /\ \/ pc' = pc /\ inUser' = inUser
         \/ CallUser /\ pc \in Callbacks /\ ~inUser /\ pc' = pc /\ inUser'
         \/ CallUser /\ pc \in Callbacks /\ ~inUser /\ pc' = After[pc] /\ ~inUser'
         \/ pc \in Callbacks /\ inUser /\ pc' = After[pc] /\ ~inUser'
  BY DEF CallUser, UserStep, UserReturns, UserFails, UserIgnores, UserProtects, UserAborts,
         UserSetsParam, UserClearsParam, MayCall, Leave, vars, runVars, loopVars, PlaceInv
<1>2. SuiteAt(k)' = SuiteAt(k)
  BY <1>1 DEF SuiteAt
<1>3. what \in Callbacks
  BY DEF Owed, FunctionsOf
<1>4. CASE pc' = pc /\ inUser' = inUser
  BY <1>1, <1>2, <1>3, <1>4 DEF Due, Gone, Begun, Closing, Opening, Over
<1>5. CASE pc \in Callbacks /\ inUser /\ pc' = After[pc] /\ ~inUser'
  BY <1>1, <1>2, <1>3, <1>5
  DEF Due, Gone, Begun, Closing, Opening, Over, Callbacks, After, InCase
<1>6. CASE CallUser /\ pc \in Callbacks /\ ~inUser /\ pc' = pc /\ inUser'
  BY <1>1, <1>2, <1>3, <1>6
  DEF Due, Gone, Begun, Closing, Opening, Over, Callbacks, After, InCase
<1>7. CASE CallUser /\ pc \in Callbacks /\ ~inUser /\ pc' = After[pc] /\ ~inUser'
  BY <1>1, <1>2, <1>3, <1>7
  DEF Due, Gone, Begun, Closing, Opening, Over, Callbacks, After, InCase
<1> QED
  BY <1>1, <1>4, <1>5, <1>6, <1>7

(* No step of a run leaves behind a call that was due.                     *)
LEMMA ServedStep ==
    SortInv /\ PlaceInv /\ VerdictInv /\ FixtureInv /\ ServedInv /\ [Next]_vars => ServedInv'
<1> SUFFICES ASSUME SortInv, PlaceInv, VerdictInv, FixtureInv, ServedInv, [Next]_vars
             PROVE  ServedInv'
  OBVIOUS
<1>1. IsStream(trace)
  BY DEF VerdictInv
<1>2. CASE SortStep \/ SortDone \/ Again \/ (pc = "sort" /\ UNCHANGED vars)
  <2>1. At({"Call"})' = {}
    BY <1>2 DEF SortStep, SortDone, Again, FixtureInv, streams, At, vars
  <2>2. CASE pc' = "sort"
    BY <2>1, <2>2 DEF ServedInv
  <2>3. CASE SortDone
    <3>1. /\ at' = 1 /\ pc' = "loop" /\ openSuite' = NullName /\ UNCHANGED <<list, build, by>>
      BY <2>3 DEF SortDone
    <3>2. ASSUME NEW what, NEW k, Owed(what, k), Due(what, k)' PROVE FALSE
      <4>1. /\ k \in 1 .. Len(list) /\ Len(list) \in Nat
            /\ SuiteAt(k) = NullName => what # "open"
            /\ SuiteAt(k)' = SuiteAt(k)
        BY <3>1, <3>2, SuitesInOrder, NoSuiteNoFixture DEF Owed, SuiteAt
      <4> QED
        BY <3>1, <3>2, <4>1 DEF Due, Gone, Begun, InCase
    <3> QED
      BY <2>1, <3>1, <3>2, OwedStays DEF ServedInv
  <2> QED
    BY <1>2, <2>2, <2>3 DEF SortStep, Again, vars
<1>3. CASE ~(SortStep \/ SortDone \/ Again \/ pc = "sort")
  <2>1. UNCHANGED <<build, by, list>>
    BY <1>3 DEF Next, SkipCase, EnterCase, EmitSuiteEnd, EmitSuiteStart, StartCase,
         EndCase, EmitDone, Return, CallUser, UserStep, UserReturns, UserFails, UserIgnores,
         UserProtects, UserAborts, UserSetsParam, UserClearsParam, Terminated, vars, runVars
  <2>2. trace' = trace \/ \E e : trace' = Append(trace, e)
    BY <1>3 DEF Next, SkipCase, EnterCase, EmitSuiteEnd, EmitSuiteStart, StartCase,
         EndCase, EmitDone, Return, CallUser, UserStep, UserReturns, UserFails, UserIgnores,
         UserProtects, UserAborts, UserSetsParam, UserClearsParam, Terminated, vars, streams,
         Emit, Note
  <2>3. \A what, k : Called(what, k) => Called(what, k)'
    BY <1>1, <2>1, <2>2, CalledStays
  <2>4. /\ \A what, k : Owed(what, k)' <=> Owed(what, k)
        /\ \A k : FunctionsOf(list[k])' = FunctionsOf(list[k])
    BY <2>1, OwedStays
  <2>5. pc' \notin {"sort", "crashed"} => pc \notin {"sort", "crashed"}
    BY <1>3 DEF Next, SkipCase, EnterCase, EmitSuiteEnd, EmitSuiteStart, StartCase,
         EndCase, EmitDone, Return, CallUser, UserStep, UserReturns, UserFails, UserIgnores,
         UserProtects, UserAborts, UserSetsParam, UserClearsParam, Terminated, vars, MayCall, Leave,
         Callbacks, VerdictInv
  <2>6. ASSUME pc' \notin {"sort", "crashed"}, NEW what, NEW k, Owed(what, k), Due(what, k)'
        PROVE  Called(what, k)'
    <3>1. CASE Due(what, k)
      BY <2>3, <2>5, <2>6, <3>1 DEF ServedInv
    <3>2. CASE ~Due(what, k)
      <4>1. CallUser \/ UserStep \/ UNCHANGED vars
        BY <1>3, <2>6, <3>2, LoopDue DEF Next, Terminated
      <4>2. /\ CallUser /\ what = pc
            /\ IF pc \in {"open", "teardown"} THEN SuiteAt(k) = openSuite ELSE k = at
        BY <4>1, <2>6, <3>2, UserDue
      <4>3. HasCallback
        BY <4>2, <2>6, NothingToCall DEF Owed, CallUser
      <4>4. CASE pc \in {"open", "teardown"}
        <5>1. \A j : SuiteAt(j) = openSuite => Called(pc, j)'
          BY <1>1, <4>2, <4>3, <4>4, CallIsCalled
        <5>2. what = pc' /\ SuiteAt(k) = openSuite
          BY <4>2, <4>3, <4>4 DEF CallUser
        <5> QED
          BY <5>1, <5>2
      <4>5. CASE pc \notin {"open", "teardown"}
        <5>1. Called(pc, at)' /\ at' = at
          BY <1>1, <4>2, <4>3, <4>5, CallIsCalled DEF CallUser, loopVars
        <5>2. what = pc' /\ k = at
          BY <4>2, <4>3, <4>5 DEF CallUser
        <5> QED
          BY <5>1, <5>2 DEF Called
      <4> QED
        BY <4>4, <4>5
    <3> QED
      BY <3>1, <3>2
  <2>7. \A n \in At({"Call"})' : BodyServed(n)'
    <3>1. ASSUME NEW n \in At({"Call"}), trace'[n] = trace[n] PROVE BodyServed(n)'
      BY <2>3, <2>4, <3>1 DEF ServedInv, BodyServed
    <3>2. CASE trace' = trace
      BY <3>1, <3>2 DEF At
    <3>3. ASSUME NEW e, trace' = Append(trace, e), e.type # "Call"
          PROVE  \A n \in At({"Call"})' : BodyServed(n)'
      <4>1. \A n \in At({"Call"})' : n \in At({"Call"}) /\ trace'[n] = trace[n]
        BY <1>1, <3>3, EmitAppends DEF At
      <4> QED
        BY <3>1, <4>1
    <3>4. CASE CallUser /\ HasCallback
      <4>1. ASSUME NEW n, trace'[n] = Call(pc), pc = "body" PROVE BodyServed(n)'
        <5>1. trace'[n].of = at /\ at \in DOMAIN list /\ Selected(list[at]) /\ openSuite = SuiteAt(at)
          BY <4>1 DEF Call, PlaceInv, AtCase, CasePhases
        <5>2. \A what \in {"open", "setup"} \cap FunctionsOf(list[at]) :
                  Owed(what, at) /\ Due(what, at)
          BY <4>1, <5>1 DEF Owed, Due, Gone, Begun, Opening, InCase
        <5>3. \A what \in {"open", "setup"} \cap FunctionsOf(list[at]) : Called(what, at)
          BY <4>1, <5>2 DEF ServedInv
        <5> QED
          BY <2>1, <2>3, <2>4, <5>1, <5>3 DEF BodyServed
      <4>2. ASSUME NEW n, trace'[n] = Call(pc), pc # "body" PROVE BodyServed(n)'
        BY <4>2 DEF BodyServed, Call
      <4> QED
        BY <1>1, <3>1, <3>4, <4>1, <4>2, CallIsCalled
    <3>5. \/ CallUser /\ HasCallback
          \/ trace' = trace \/ \E e : trace' = Append(trace, e) /\ e.type # "Call"
      <4>1. /\ SuiteEnd(openSuite, suiteTally).type # "Call" /\ SuiteStart(openSuite).type # "Call"
            /\ DoneEvent(tally).type # "Call" /\ CaseStart(IdOf(current')).type # "Call"
            /\ CaseEnd(IdOf(current), Verdict).type # "Call"
        BY DEF SuiteEnd, SuiteStart, DoneEvent, CaseStart, CaseEnd
      <4>2. CASE EmitSuiteEnd \/ EmitSuiteStart \/ StartCase \/ EndCase \/ EmitDone
        BY <4>1, <4>2 DEF EmitSuiteEnd, EmitSuiteStart, StartCase, EndCase, EmitDone, Emit
      <4>3. CASE UserFails
        <5> DEFINE e == [type |-> "AssertFail", id |-> IdOf(current),
                         param |-> IF param.active THEN {param.index} ELSE {}]
        <5>1. trace' = Append(trace, e) /\ e.type # "Call"
          BY <4>3 DEF UserFails, Emit
        <5> HIDE DEF e
        <5> QED
          BY <5>1
      <4>4. CASE UserAborts
        BY <4>4 DEF UserAborts, Note
      <4> QED
        BY <1>3, <4>2, <4>3, <4>4 DEF Next, SkipCase, EnterCase, Return, CallUser, UserStep,
           UserReturns, UserIgnores, UserProtects, UserSetsParam, UserClearsParam, Terminated,
           vars, streams
    <3> QED
      BY <3>2, <3>3, <3>4, <3>5
  <2> QED
    BY <2>4, <2>6, <2>7 DEF ServedInv
<1> QED
  BY <1>2, <1>3 DEF Next, Terminated, SortStep, SortDone, SkipCase, EnterCase, EmitSuiteEnd,
     EmitSuiteStart, StartCase, EndCase, EmitDone, Return, CallUser, UserStep, UserReturns, UserFails,
     UserIgnores, UserProtects, UserAborts, UserSetsParam, UserClearsParam, MayCall, PlaceInv, Callbacks

(* Nothing due is left out in any reachable state.                         *)
THEOREM ServedInvariance == Spec => []ServedInv
<1>1. Init => ServedInv
  BY DEF Init, ServedInv, At
<1> QED
  BY <1>1, ServedStep, SortInvariance, PlaceInvariance, VerdictInvariance, FixtureInvariance,
     PTL DEF Spec

(* The fixtures of a suite run once and enclose every callback of its      *)
(* cases, those of a group enclose the body of each case, and no run ends  *)
(* without all that were registered for the selected cases, for any        *)
(* suites, groups and names, though nothing but the sort keeps the cases   *)
(* of a suite together.                                                    *)
THEOREM FixturesEnclose == Spec => []FixturesBracketCases
<1>1. SortInv /\ PlaceInv /\ FixtureInv /\ ServedInv => FixturesBracketCases
  <2> SUFFICES ASSUME SortInv, PlaceInv, FixtureInv, ServedInv PROVE FixturesBracketCases
    OBVIOUS
  <2>1. ASSUME pc = "exit", NEW k \in DOMAIN list, Selected(list[k]),
               NEW what \in FunctionsOf(list[k])
        PROVE  Called(what, k)
    <3>1. k < at
      BY <2>1, SuitesInOrder DEF PlaceInv, Over
    <3>2. Owed(what, k) /\ Due(what, k)
      BY <2>1, <3>1 DEF Owed, Due, Closing, Over
    <3> QED
      BY <2>1, <3>2 DEF ServedInv
  <2> QED
    BY <2>1 DEF FixtureInv, ServedInv, BodyServed, FixturesBracketCases, Bracketed, CallSuite, OfSuite
<1> QED
  BY <1>1, SortInvariance, PlaceInvariance, FixtureInvariance, ServedInvariance, PTL

-----------------------------------------------------------------------------
(* What the profile header leaves of a stripped build, whatever other      *)
(* knobs it was given.                                                     *)
LEMMA TinyHasNothing ==
    ASSUME Profile(build.chosen) = "tiny"
    PROVE  ~Has("protect") /\ ~Has("tags") /\ ~Has("fixtures")
BY DEF Has, Build, Offers

(* The knob of a build without longjmp takes the protected regions away.   *)
LEMMA KnobTakesProtect ==
    ASSUME "no_longjmp" \in build.knobs
    PROVE  ~Has("protect")
<1> DEFINE defined == build.knobs \cup Implied(Profile(build.chosen))
<1>1. "no_longjmp" \in defined \cap DOMAIN Strips /\ Strips["no_longjmp"] = "protect"
  BY DEF Strips
<1>2. "protect" \in {Strips[k] : k \in defined \cap DOMAIN Strips}
  BY <1>1
<1> QED
  BY <1>2 DEF Has, Build

(* A jump is armed only in a build that has protected regions, and of a    *)
(* tiny build user code only sees the bodies.                              *)
StripInv ==
    /\ armed \/ pc = "crashed" => Has("protect")
    /\ Profile(build.chosen) = "tiny" => \A n \in At({"Call"}) : trace[n].what = "body"

(* An empty registry has no fixture to call.                               *)
LEMMA TinyCallsBodies ==
    ASSUME Profile(build.chosen) = "tiny", pc \in Callbacks, HasCallback
    PROVE  pc = "body"
<1>1. LinkedSuites = <<>> /\ LinkedGroups = <<>>
  BY TinyHasNothing DEF LinkedSuites, LinkedGroups
<1>2. \A name : FindSuite(<<>>, name) = 0
  BY DEF FindSuite, SelectInSeq
<1>3. \A suite, name : FindGroup(<<>>, suite, name) = 0
  BY DEF FindGroup, SelectInSeq
<1> QED
  BY <1>1, <1>2, <1>3 DEF HasCallback, Provides, Callbacks

(* Every step keeps what was stripped out.                                 *)
LEMMA StripStep == VerdictInv /\ StripInv /\ [Next]_vars => StripInv'
<1> SUFFICES ASSUME VerdictInv, StripInv, [Next]_vars PROVE StripInv'
  OBVIOUS
<1>1. build' = build /\ IsStream(trace)
  BY DEF Next, SortStep, SortDone, SkipCase, EnterCase, EmitSuiteEnd, EmitSuiteStart, StartCase,
         EndCase, EmitDone, Return, Again, CallUser, UserStep, UserReturns, UserFails, UserIgnores,
         UserProtects, UserAborts, UserSetsParam, UserClearsParam, Terminated, vars, runVars, VerdictInv
<1>2. Has("protect")' <=> Has("protect")
  BY <1>1 DEF Has
<1>3. armed' \/ pc' = "crashed" => Has("protect")
  <2>1. CASE UserProtects \/ UserAborts
    BY <2>1 DEF UserProtects, UserAborts, StripInv
  <2>2. CASE ~UserProtects /\ ~UserAborts
    BY <2>2 DEF Next, SortStep, SortDone, SkipCase, EnterCase, EmitSuiteEnd, EmitSuiteStart,
         StartCase, EndCase, EmitDone, Return, Again, CallUser, UserStep, UserReturns, UserFails,
         UserIgnores, UserSetsParam, UserClearsParam, MayCall, Leave, Terminated, vars, userVars,
         StripInv, Callbacks, After, VerdictInv
  <2> QED
    BY <2>1, <2>2
<1>4. ASSUME Profile(build.chosen) = "tiny"
      PROVE  \A n \in At({"Call"})' : trace'[n].what = "body"
  <2>1. CASE trace' = trace
    BY <1>4, <2>1 DEF StripInv, At
  <2>2. ASSUME NEW e, trace' = Append(trace, e), e.type = "Call" => e.what = "body"
        PROVE  \A n \in At({"Call"})' : trace'[n].what = "body"
    BY <1>1, <1>4, <2>2, EmitAppends DEF StripInv, At
  <2>3. CASE trace' = <<>>
    BY <2>3 DEF At
  <2>4. /\ SuiteEnd(openSuite, suiteTally).type # "Call" /\ SuiteStart(openSuite).type # "Call"
        /\ DoneEvent(tally).type # "Call" /\ CaseStart(IdOf(current')).type # "Call"
        /\ CaseEnd(IdOf(current), Verdict).type # "Call"
    BY DEF SuiteEnd, SuiteStart, DoneEvent, CaseStart, CaseEnd
  <2>5. CASE CallUser /\ HasCallback
    <3>1. pc = "body" /\ Call(pc).what = pc
      BY <1>4, <2>5, TinyCallsBodies DEF CallUser, Call
    <3> QED
      BY <2>2, <2>5, <3>1 DEF CallUser, Note
  <2>6. CASE UserFails
    <3> DEFINE e == [type |-> "AssertFail", id |-> IdOf(current),
                     param |-> IF param.active THEN {param.index} ELSE {}]
    <3>1. trace' = Append(trace, e) /\ e.type # "Call"
      BY <2>6 DEF UserFails, Emit
    <3> HIDE DEF e
    <3> QED
      BY <3>1, <2>2
  <2>7. CASE UserAborts
    BY <2>2, <2>7 DEF UserAborts, Note
  <2>8. CASE EmitSuiteEnd \/ EmitSuiteStart \/ StartCase \/ EndCase \/ EmitDone
    BY <2>2, <2>4, <2>8 DEF EmitSuiteEnd, EmitSuiteStart, StartCase, EndCase, EmitDone, Emit
  <2>9. \/ trace' = trace \/ trace' = <<>>
        \/ CallUser /\ HasCallback
        \/ UserFails \/ UserAborts
        \/ EmitSuiteEnd \/ EmitSuiteStart \/ StartCase \/ EndCase \/ EmitDone
    BY DEF Next, SortStep, SortDone, SkipCase, EnterCase, Return, Again, CallUser, UserStep,
           UserReturns, UserIgnores, UserProtects, UserSetsParam, UserClearsParam, Terminated,
           vars, streams
  <2> QED
    BY <2>1, <2>3, <2>5, <2>6, <2>7, <2>8, <2>9
<1> QED
  BY <1>1, <1>2, <1>3, <1>4 DEF StripInv

(* A run of everything writes one verdict per linked case.                 *)
LEMMA EveryCaseCounts ==
    ASSUME SortInv, PlaceInv, OrderInv, pc = "exit",
           \A k \in DOMAIN list : Selected(list[k])
    PROVE  Cardinality(Ends) = Len(linked)
<1>1. /\ DOMAIN list = 1 .. Len(list) /\ Len(list) \in Nat
      /\ at = Len(list) + 1 /\ unsorted = <<>>
  BY SuitesInOrder DEF PlaceInv, Over
<1>2. Passed(at) = 1 .. Len(list)
  BY <1>1 DEF Passed
<1>3. ExistsBijection(Ends, 1 .. Len(list))
  BY <1>2 DEF OrderInv, ExistsBijection
<1>4. IsFiniteSet(Ends)
  <2>1. Len(wire) \in Nat /\ DOMAIN wire = 1 .. Len(wire)
    BY EmitAppends DEF OrderInv
  <2>2. Ends \in SUBSET Nat /\ \A n \in Ends : n <= Len(wire)
    BY <2>1 DEF Ends
  <2> QED
    BY <2>1, <2>2, FS_BoundedSetOfNaturals
<1>5. Cardinality(1 .. Len(list)) = Cardinality(Ends)
  BY <1>3, <1>4, FS_Bijection
<1>6. Cardinality(1 .. Len(list)) = Len(list)
  <2>1. ASSUME NEW n \in Nat PROVE Cardinality(1 .. n) = n
    BY FS_Interval
  <2> QED
    BY <1>1, <2>1
<1>7. Len(list) = Len(linked)
  <2>1. Len(unsorted) = 0
    BY <1>1
  <2> QED
    BY <1>1, <2>1 DEF SortInv, SortLosesNoCase
<1> QED
  BY <1>5, <1>6, <1>7

(* What a build strips is out of the running program as well: without      *)
(* longjmp no abort kills the process, the tiny profile calls no fixture   *)
(* and runs every case when asked for a tag, for every combination of      *)
(* profile macros and knobs.                                               *)
THEOREM StrippedStaysOut == Spec => []StrippedFeaturesStayOut
<1>1. Init => StripInv
  BY DEF Init, StripInv, At
<1>2. SortInv /\ PlaceInv /\ OrderInv /\ StripInv => StrippedFeaturesStayOut
  <2> SUFFICES ASSUME SortInv, PlaceInv, OrderInv, StripInv PROVE StrippedFeaturesStayOut
    OBVIOUS
  <2>1. (Profile(build.chosen) = "tiny" \/ "no_longjmp" \in build.knobs) => pc # "crashed"
    BY TinyHasNothing, KnobTakesProtect DEF StripInv
  <2>2. ASSUME Profile(build.chosen) = "tiny", pc = "exit", Filters[by].kind = "tag"
        PROVE  Cardinality(Ends) = Len(linked)
    <3>1. \A k \in DOMAIN list : Selected(list[k])
      BY <2>2, TinyHasNothing DEF Selected
    <3> QED
      BY <2>2, <3>1, EveryCaseCounts
  <2> QED
    BY <2>1, <2>2 DEF StripInv, StrippedFeaturesStayOut
<1> QED
  BY <1>1, <1>2, StripStep, SortInvariance, PlaceInvariance, OrderInvariance, VerdictInvariance,
     PTL DEF Spec

-----------------------------------------------------------------------------
(* What the events written so far say about where the run is.              *)
CaseMarks  == {"CaseStart", "CaseEnd"}
SuiteMarks == {"SuiteStart", "SuiteEnd"}

(* The event at k is the last of its kind; there is none of that kind.     *)
IsLast(k, types) ==
    wire[k].type \in types /\ \A m \in DOMAIN wire : wire[m].type \in types => m <= k
Never(types) == \A k \in DOMAIN wire : wire[k].type \notin types

CaseMarkInv ==
    /\ current \in {0} \cup Addresses
    /\ pc \in CasePhases =>
          \E k \in DOMAIN wire : IsLast(k, CaseMarks) /\ wire[k] = CaseStart(IdOf(current))
    /\ pc \notin CasePhases \cup {"crashed"} =>
          \/ Never(CaseMarks)
          \/ \E k \in DOMAIN wire : IsLast(k, CaseMarks) /\ wire[k].type = "CaseEnd"

(* Where no suite has been started that has not ended.                     *)
Between == {"open", "opened"} \cup Over

SuiteMarkInv ==
    /\ openSuite \in {NullName} \cup {Cases[o].suite : o \in Addresses}
    /\ pc \in Between =>
          \/ Never(SuiteMarks)
          \/ \E k \in DOMAIN wire : IsLast(k, SuiteMarks) /\ wire[k].type = "SuiteEnd"
    /\ pc \notin Between \cup {"sort", "crashed"} =>
          IF openSuite = NullName THEN Never(SuiteMarks)
          ELSE \E k \in DOMAIN wire : IsLast(k, SuiteMarks) /\ wire[k] = SuiteStart(openSuite)
    /\ \A k \in DOMAIN wire : wire[k].type = "SuiteStart" =>
          /\ wire[k].name \in Nat /\ wire[k].name <= openSuite
          /\ pc \in {"open", "opened"} => wire[k].name < openSuite

(* How many of these verdicts are of each status.                          *)
Sums(w, ends) == [f \in {"passed", "failed", "skipped"} |->
                     Cardinality({k \in ends : Field[w[k].status] = f})]
EndsOf(suite) == {k \in Ends : wire[k].id.suite = suite}

TallyInv ==
    /\ \A k \in Ends :
          /\ wire[k].status \in TestStatus /\ wire[k].id \in {IdOf(o) : o \in Addresses}
          /\ wire[k].id.suite <= openSuite
          /\ pc \in {"open", "opened"} => wire[k].id.suite < openSuite
    /\ pc # "sort" => tally = Sums(wire, Ends) /\ suiteTally = Sums(wire, EndsOf(openSuite))

DoneInv == Never({"Done"}) <=> pc \notin {"return", "exit"}

(* The steps that write no event.                                          *)
QuietStep ==
    \/ SortStep \/ SortDone \/ SkipCase \/ EnterCase \/ Return \/ CallUser
    \/ UserReturns \/ UserIgnores \/ UserProtects \/ UserAborts \/ UserSetsParam
    \/ UserClearsParam \/ UNCHANGED vars

(* A step is quiet, writes one event behind the others, or starts again.   *)
LEMMA StepKinds ==
    ASSUME [Next]_vars
    PROVE  \/ QuietStep
           \/ EmitSuiteEnd \/ EmitSuiteStart \/ StartCase \/ EndCase \/ EmitDone \/ UserFails
           \/ Again
BY DEF Next, UserStep, QuietStep, Terminated

(* Quiet steps leave the wire and the current case alone, and the phases   *)
(* of a case are only left for a crash.                                    *)
LEMMA QuietSteps ==
    ASSUME PlaceInv, QuietStep
    PROVE  /\ wire' = wire /\ current' = current
           /\ pc' = "sort" => pc = "sort"
           /\ pc' \in CasePhases => pc \in CasePhases
           /\ pc \in CasePhases => pc' \in CasePhases \cup {"crashed"}
           /\ pc = "crashed" => pc' = "crashed"
<1> USE DEF CasePhases
<1>1. CASE SortStep \/ SortDone \/ SkipCase \/ EnterCase \/ Return \/ UNCHANGED vars
  BY <1>1 DEF SortStep, SortDone, SkipCase, EnterCase, Return, vars, loopVars, streams
<1>2. CASE CallUser \/ UserReturns \/ UserIgnores
  BY <1>2 DEF CallUser, UserReturns, UserIgnores, MayCall, Leave, PlaceInv, Callbacks, After,
       loopVars, streams, Note
<1>3. CASE UserProtects \/ UserAborts \/ UserSetsParam \/ UserClearsParam
  BY <1>3 DEF UserProtects, UserAborts, UserSetsParam, UserClearsParam, MayCall, PlaceInv,
       Callbacks, loopVars, streams, Note
<1> QED
  BY <1>1, <1>2, <1>3 DEF QuietStep

(* An event of another kind leaves the last of a kind the last.            *)
LEMMA MarksStay ==
    ASSUME IsStream(wire), NEW e, wire' = Append(wire, e), NEW types, e.type \notin types
    PROVE  /\ Never(types)' <=> Never(types)
           /\ \A k \in DOMAIN wire : k \in DOMAIN wire' /\ wire'[k] = wire[k]
           /\ \A k \in DOMAIN wire : IsLast(k, types) => IsLast(k, types)'
<1>1. /\ DOMAIN wire = 1 .. Len(wire) /\ Len(wire) \in Nat
      /\ DOMAIN wire' = 1 .. Len(wire) + 1
      /\ \A k \in 1 .. Len(wire) : wire'[k] = wire[k]
      /\ wire'[Len(wire) + 1] = e
  BY EmitAppends
<1>2. \A k : k \in DOMAIN wire' <=> k \in DOMAIN wire \/ k = Len(wire) + 1
  BY <1>1
<1>3. \A k \in DOMAIN wire : k \in DOMAIN wire' /\ wire'[k] = wire[k]
  BY <1>1, <1>2
<1>4. Never(types)' <=> Never(types)
  BY <1>1, <1>2, <1>3 DEF Never
<1>5. ASSUME NEW k \in DOMAIN wire, IsLast(k, types) PROVE IsLast(k, types)'
  BY <1>1, <1>2, <1>3, <1>5 DEF IsLast
<1> QED
  BY <1>3, <1>4, <1>5

(* An event of the kind is the last of it.                                 *)
LEMMA NewMark ==
    ASSUME IsStream(wire), NEW e, wire' = Append(wire, e), NEW types, e.type \in types
    PROVE  \E k \in DOMAIN wire' : wire'[k] = e /\ IsLast(k, types)'
<1>1. /\ DOMAIN wire = 1 .. Len(wire) /\ Len(wire) \in Nat
      /\ DOMAIN wire' = 1 .. Len(wire) + 1
      /\ wire'[Len(wire) + 1] = e
  BY EmitAppends
<1>2. PICK n : n = Len(wire) + 1
  OBVIOUS
<1>3. n \in DOMAIN wire' /\ wire'[n] = e /\ \A m \in DOMAIN wire' : m <= n
  BY <1>1, <1>2
<1>4. IsLast(n, types)'
  BY <1>3 DEF IsLast
<1> QED
  BY <1>3, <1>4

(* While a case is in its phases, and only then, it has started and not    *)
(* ended on the wire.                                                      *)
LEMMA CaseMarkStep ==
    SortInv /\ PlaceInv /\ OrderInv /\ CaseMarkInv /\ [Next]_vars => CaseMarkInv'
<1> SUFFICES ASSUME SortInv, PlaceInv, OrderInv, CaseMarkInv, [Next]_vars PROVE CaseMarkInv'
  OBVIOUS
<1>1. IsStream(wire)
  BY DEF OrderInv
<1>2. \A o : IdOf(o)' = IdOf(o)
  BY DEF IdOf
<1>3. CASE QuietStep
  <2>1. /\ wire' = wire /\ current' = current
        /\ pc' \in CasePhases => pc \in CasePhases
        /\ pc \in CasePhases => pc' \in CasePhases \cup {"crashed"}
        /\ pc = "crashed" => pc' = "crashed"
    BY <1>3, QuietSteps
  <2>2. /\ Never(CaseMarks)' <=> Never(CaseMarks)
        /\ \A k : IsLast(k, CaseMarks)' <=> IsLast(k, CaseMarks)
    BY <2>1 DEF Never, IsLast
  <2> QED
    BY <2>1, <2>2, <1>2 DEF CaseMarkInv
<1>4. CASE StartCase
  <2> DEFINE e == CaseStart(IdOf(current'))
  <2>1. /\ wire' = Append(wire, e) /\ e.type \in CaseMarks
        /\ pc = "case" /\ pc' = "setup" /\ current' = list[at]
    BY <1>4 DEF StartCase, Emit, CaseStart, CaseMarks
  <2>2. list[at] \in Addresses
    BY <2>1, SuitesInOrder DEF PlaceInv, AtCase
  <2> HIDE DEF e
  <2>3. \E k \in DOMAIN wire' : wire'[k] = e /\ IsLast(k, CaseMarks)'
    BY <1>1, <2>1, NewMark
  <2> QED
    BY <2>1, <2>2, <2>3, <1>2 DEF CaseMarkInv, CasePhases, e
<1>5. CASE EndCase
  <2> DEFINE e == CaseEnd(IdOf(current), Verdict)
  <2>1. /\ wire' = Append(wire, e) /\ e.type \in CaseMarks /\ e.type = "CaseEnd"
        /\ pc' = "loop" /\ current' = current
    BY <1>5 DEF EndCase, Emit, CaseEnd, CaseMarks
  <2> HIDE DEF e
  <2>2. \E k \in DOMAIN wire' : wire'[k] = e /\ IsLast(k, CaseMarks)'
    BY <1>1, <2>1, NewMark
  <2> QED
    BY <2>1, <2>2 DEF CaseMarkInv, CasePhases
<1>6. ASSUME NEW e, wire' = Append(wire, e), e.type \notin CaseMarks, current' = current,
             pc' \in CasePhases <=> pc \in CasePhases,
             pc # "crashed"
      PROVE  CaseMarkInv'
  <2>1. /\ Never(CaseMarks)' <=> Never(CaseMarks)
        /\ \A k \in DOMAIN wire : k \in DOMAIN wire' /\ wire'[k] = wire[k]
        /\ \A k \in DOMAIN wire : IsLast(k, CaseMarks) => IsLast(k, CaseMarks)'
    BY <1>1, <1>6, MarksStay
  <2> QED
    BY <2>1, <1>2, <1>6 DEF CaseMarkInv
<1>7. CASE EmitSuiteEnd \/ EmitSuiteStart \/ EmitDone
  <2>1. \A x \in {SuiteEnd(openSuite, suiteTally), SuiteStart(openSuite), DoneEvent(tally)} :
            x.type \notin CaseMarks
    BY DEF SuiteEnd, SuiteStart, DoneEvent, CaseMarks
  <2> QED
    BY <1>6, <1>7, <2>1 DEF EmitSuiteEnd, EmitSuiteStart, EmitDone, Emit, loopVars, CasePhases
<1>8. CASE UserFails
  <2> DEFINE e == [type |-> "AssertFail", id |-> IdOf(current),
                   param |-> IF param.active THEN {param.index} ELSE {}]
  <2>1. wire' = Append(wire, e) /\ e.type \notin CaseMarks
    BY <1>8 DEF UserFails, Emit, CaseMarks
  <2> HIDE DEF e
  <2>2. current' = current /\ pc' = pc /\ pc \in Callbacks
    BY <1>8 DEF UserFails, MayCall, PlaceInv, loopVars
  <2> QED
    BY <1>6, <2>1, <2>2 DEF Callbacks
<1>9. CASE Again
  BY <1>9 DEF Again, CaseMarkInv, Never, CasePhases, loopVars
<1> QED
  BY <1>3, <1>4, <1>5, <1>7, <1>8, <1>9, StepKinds

(* Where a quiet step leaves the suites.                                   *)
LEMMA QuietSuites ==
    ASSUME SortInv, PlaceInv, QuietStep
    PROVE  \/ SortDone
           \/ EnterCase /\ pc' = "open" /\ pc = "loop" /\ openSuite = NullName
              /\ openSuite' = SuiteAt(at) /\ at \in DOMAIN list /\ suiteTally' = NoTally
           \/ EnterCase /\ pc' = "done" /\ pc = "loop" /\ openSuite = NullName
              /\ UNCHANGED <<openSuite, suiteTally>>
           \/ /\ UNCHANGED <<openSuite, suiteTally>>
              /\ \/ pc \in {"open", "opened"} /\ pc' \in {"open", "opened", "crashed"}
                 \/ pc \in Over /\ pc' \in Over
                 \/ /\ pc \notin Between \cup {"sort", "crashed"}
                    /\ pc' \notin Between \cup {"sort"}
                 \/ pc' = "sort" /\ pc = "sort"
                 \/ pc' = "crashed" /\ pc = "crashed"
<1> USE DEF Between, Over
<1>1. CASE SortStep \/ SortDone \/ SkipCase \/ Return \/ UNCHANGED vars
  BY <1>1 DEF SortStep, SortDone, SkipCase, Return, vars, loopVars
<1>2. CASE EnterCase
  <2>1. DOMAIN list = 1 .. Len(list) /\ Len(list) \in Nat /\ at \in Nat \ {0}
    BY SuitesInOrder DEF PlaceInv
  <2>2. pc = "loop"
    BY <1>2 DEF EnterCase
  <2>3. CASE at <= Len(list)
    BY <1>2, <2>1, <2>2, <2>3 DEF EnterCase, SuiteAt
  <2>4. CASE ~(at <= Len(list))
    BY <1>2, <2>1, <2>2, <2>4 DEF EnterCase
  <2> QED
    BY <2>3, <2>4
<1>3. CASE CallUser \/ UserReturns \/ UserIgnores
  BY <1>3 DEF CallUser, UserReturns, UserIgnores, MayCall, Leave, PlaceInv, Callbacks, After,
       loopVars
<1>4. CASE UserProtects \/ UserAborts \/ UserSetsParam \/ UserClearsParam
  BY <1>4 DEF UserProtects, UserAborts, UserSetsParam, UserClearsParam, MayCall, PlaceInv,
       Callbacks, loopVars
<1> QED
  BY <1>1, <1>2, <1>3, <1>4 DEF QuietStep

(* The open suite is the one the wire shows as started and not ended, and  *)
(* what was started before has a smaller name.                             *)
LEMMA SuiteMarkQuiet ==
    ASSUME SortInv, PlaceInv, OrderInv, SuiteMarkInv, QuietStep
    PROVE  SuiteMarkInv'
<1>1. wire' = wire
  BY QuietSteps
<1>2. /\ Never(SuiteMarks)' <=> Never(SuiteMarks)
      /\ \A k : IsLast(k, SuiteMarks)' <=> IsLast(k, SuiteMarks)
  BY <1>1 DEF Never, IsLast
<1>3. CASE SortDone
  <2>1. wire = <<>> /\ wire' = <<>> /\ pc' = "loop" /\ openSuite' = NullName
    BY <1>1, <1>3 DEF SortDone, OrderInv
  <2> QED
    BY <2>1 DEF SuiteMarkInv, Never, Between, Over
<1>4. CASE /\ EnterCase /\ pc' = "open" /\ pc = "loop" /\ openSuite = NullName
           /\ openSuite' = SuiteAt(at) /\ at \in DOMAIN list
  <2>1. Never(SuiteMarks)
    BY <1>4 DEF SuiteMarkInv, Between, Over
  <2>2. list[at] \in Addresses
    BY <1>4, SuitesInOrder
  <2>3. \A k \in DOMAIN wire : wire[k].type # "SuiteStart"
    BY <2>1 DEF Never, SuiteMarks
  <2> QED
    BY <1>1, <1>2, <1>4, <2>1, <2>2, <2>3 DEF SuiteMarkInv, Between, Over, SuiteAt
<1>5. CASE /\ EnterCase /\ pc' = "done" /\ pc = "loop" /\ openSuite = NullName
           /\ UNCHANGED openSuite
  <2>1. Never(SuiteMarks)
    BY <1>5 DEF SuiteMarkInv, Between, Over
  <2> QED
    BY <1>1, <1>2, <1>5, <2>1 DEF SuiteMarkInv, Between, Over
<1>6. ASSUME UNCHANGED openSuite,
             \/ pc \in {"open", "opened"} /\ pc' \in {"open", "opened", "crashed"}
             \/ pc \in Over /\ pc' \in Over
             \/ pc \notin Between \cup {"sort", "crashed"} /\ pc' \notin Between \cup {"sort"}
             \/ pc' = "sort" /\ pc = "sort"
             \/ pc' = "crashed" /\ pc = "crashed"
      PROVE  SuiteMarkInv'
  <2>1. CASE pc \in {"open", "opened"} /\ pc' \in {"open", "opened", "crashed"}
    BY <1>1, <1>2, <1>6, <2>1 DEF SuiteMarkInv, Between, Over
  <2>2. CASE pc \in Over /\ pc' \in Over
    BY <1>1, <1>2, <1>6, <2>2 DEF SuiteMarkInv, Between, Over
  <2>3. CASE pc \notin Between \cup {"sort", "crashed"} /\ pc' \notin Between \cup {"sort"}
    BY <1>1, <1>2, <1>6, <2>3 DEF SuiteMarkInv, Between, Over
  <2>4. CASE (pc' = "sort" /\ pc = "sort") \/ (pc' = "crashed" /\ pc = "crashed")
    BY <1>1, <1>2, <1>6, <2>4 DEF SuiteMarkInv, Between, Over
  <2> QED
    BY <1>6, <2>1, <2>2, <2>3, <2>4
<1> QED
  BY <1>3, <1>4, <1>5, <1>6, QuietSuites

(* The events of cases do not touch what is known of the suites.           *)
LEMMA SuiteMarkKept ==
    ASSUME OrderInv, SuiteMarkInv, NEW e, wire' = Append(wire, e), e.type \notin SuiteMarks,
           openSuite' = openSuite, pc' \notin {"open", "opened"} \/ pc' = pc, pc # "sort",
           pc' \in Between <=> pc \in Between, pc # "crashed"
    PROVE  SuiteMarkInv'
<1>1. /\ Never(SuiteMarks)' <=> Never(SuiteMarks)
      /\ \A k \in DOMAIN wire : k \in DOMAIN wire' /\ wire'[k] = wire[k]
      /\ \A k \in DOMAIN wire : IsLast(k, SuiteMarks) => IsLast(k, SuiteMarks)'
  BY MarksStay DEF OrderInv
<1>2. \A k \in DOMAIN wire' : wire'[k].type = "SuiteStart" => k \in DOMAIN wire
  <2>1. e.type # "SuiteStart"
    BY DEF SuiteMarks
  <2> QED
    BY <2>1, EmitAppends DEF OrderInv
<1> QED
  BY <1>1, <1>2 DEF SuiteMarkInv

(* Every step keeps the suites on the wire and the open suite together.    *)
LEMMA SuiteMarkStep ==
    SortInv /\ PlaceInv /\ OrderInv /\ SuiteMarkInv /\ [Next]_vars => SuiteMarkInv'
<1> SUFFICES ASSUME SortInv, PlaceInv, OrderInv, SuiteMarkInv, [Next]_vars PROVE SuiteMarkInv'
  OBVIOUS
<1>1. IsStream(wire)
  BY DEF OrderInv
<1>2. CASE QuietStep
  BY <1>2, SuiteMarkQuiet
<1>3. ASSUME NEW e, wire' = Append(wire, e)
      PROVE  \A k \in DOMAIN wire' : wire'[k] = e \/ (k \in DOMAIN wire /\ wire'[k] = wire[k])
  BY <1>1, <1>3, EmitAppends
<1>4. CASE EmitSuiteStart
  <2> DEFINE e == SuiteStart(openSuite)
  <2>1. /\ wire' = Append(wire, e) /\ e.type = "SuiteStart" /\ e.name = openSuite
        /\ pc = "opened" /\ pc' = "case" /\ openSuite' = openSuite /\ e.type \in SuiteMarks
    BY <1>4 DEF EmitSuiteStart, Emit, SuiteStart, SuiteMarks, loopVars
  <2> HIDE DEF e
  <2>2. \E k \in DOMAIN wire' : wire'[k] = e /\ IsLast(k, SuiteMarks)'
    BY <1>1, <2>1, NewMark
  <2>3. openSuite # NullName /\ openSuite \in Nat
    BY <2>1 DEF PlaceInv
  <2>4. \A k \in DOMAIN wire' : wire'[k].type = "SuiteStart" =>
            wire'[k].name \in Nat /\ wire'[k].name <= openSuite
    BY <1>3, <2>1, <2>3 DEF SuiteMarkInv
  <2> QED
    BY <2>1, <2>2, <2>3, <2>4 DEF SuiteMarkInv, Between, Over, e
<1>5. CASE EmitSuiteEnd
  <2> DEFINE e == SuiteEnd(openSuite, suiteTally)
  <2>1. /\ wire' = Append(wire, e) /\ e.type = "SuiteEnd" /\ e.type \in SuiteMarks
        /\ pc = "closed"
    BY <1>5 DEF EmitSuiteEnd, Emit, SuiteEnd, SuiteMarks
  <2> HIDE DEF e
  <2>2. \E k \in DOMAIN wire' : wire'[k] = e /\ IsLast(k, SuiteMarks)'
    BY <1>1, <2>1, NewMark
  <2>3. \A k \in DOMAIN wire' : wire'[k].type = "SuiteStart" =>
            wire'[k].name \in Nat /\ wire'[k].name <= openSuite
    BY <1>3, <2>1 DEF SuiteMarkInv
  <2>4. DOMAIN list = 1 .. Len(list) /\ Len(list) \in Nat /\ openSuite \in Nat /\ at \in Nat \ {0}
    BY SuitesInOrder DEF PlaceInv
  <2>5. CASE at <= Len(list)
    <3>1. openSuite < SuiteAt(at) /\ list[at] \in Addresses /\ SuiteAt(at) \in Nat
      BY <2>1, <2>4, <2>5, SuitesInOrder DEF PlaceInv
    <3>2. openSuite' = SuiteAt(at) /\ pc' = "open"
      BY <1>5, <2>5 DEF EmitSuiteEnd, SuiteAt
    <3>3. \A k \in DOMAIN wire' : wire'[k].type = "SuiteStart" =>
              wire'[k].name \in Nat /\ wire'[k].name < SuiteAt(at)
      BY <2>3, <2>4, <3>1
    <3> QED
      BY <2>1, <2>2, <3>1, <3>2, <3>3 DEF SuiteMarkInv, Between, Over, SuiteAt
  <2>6. CASE ~(at <= Len(list))
    <3>1. openSuite' = openSuite /\ pc' = "done"
      BY <1>5, <2>6 DEF EmitSuiteEnd
    <3> QED
      BY <2>1, <2>2, <2>3, <3>1 DEF SuiteMarkInv, Between, Over
  <2> QED
    BY <2>5, <2>6
<1>6. CASE StartCase \/ EndCase \/ EmitDone
  <2>1. /\ CaseStart(IdOf(current')).type \notin SuiteMarks
        /\ CaseEnd(IdOf(current), Verdict).type \notin SuiteMarks
        /\ DoneEvent(tally).type \notin SuiteMarks
    BY DEF CaseStart, CaseEnd, DoneEvent, SuiteMarks
  <2> QED
    BY <1>6, <2>1, SuiteMarkKept DEF StartCase, EndCase, EmitDone, Emit, loopVars, Between, Over
<1>7. CASE UserFails
  <2> DEFINE e == [type |-> "AssertFail", id |-> IdOf(current),
                   param |-> IF param.active THEN {param.index} ELSE {}]
  <2>1. wire' = Append(wire, e) /\ e.type \notin SuiteMarks
    BY <1>7 DEF UserFails, Emit, SuiteMarks
  <2> HIDE DEF e
  <2>2. openSuite' = openSuite /\ pc' = pc /\ pc \in Callbacks
    BY <1>7 DEF UserFails, MayCall, PlaceInv, loopVars
  <2> QED
    BY <2>1, <2>2, SuiteMarkKept DEF Callbacks
<1>8. CASE Again
  BY <1>8 DEF Again, SuiteMarkInv, Between, Over, loopVars
<1> QED
  BY <1>2, <1>4, <1>5, <1>6, <1>7, <1>8, StepKinds

-----------------------------------------------------------------------------
(* Counting verdicts: none are none, and one more is one more of its       *)
(* status.                                                                 *)
LEMMA SumsOfNone == ASSUME NEW w PROVE Sums(w, {}) = NoTally
<1>1. Cardinality({}) = 0
  BY FS_EmptySet
<1>2. \A f : {k \in {} : Field[w[k].status] = f} = {}
  OBVIOUS
<1> QED
  BY <1>1, <1>2 DEF Sums, NoTally

LEMMA SumsGrow ==
    ASSUME NEW w, NEW ends, IsFiniteSet(ends), NEW n, n \notin ends, w[n].status \in TestStatus
    PROVE  Sums(w, ends \cup {n}) = Count(Sums(w, ends), w[n].status)
<1> DEFINE Of(f) == {k \in ends : Field[w[k].status] = f}
<1>1. ASSUME NEW f PROVE IsFiniteSet(Of(f)) /\ Cardinality(Of(f)) \in Nat
  BY FS_Subset, FS_CardinalityType
<1>2. ASSUME NEW f
      PROVE  {k \in ends \cup {n} : Field[w[k].status] = f}
                 = IF Field[w[n].status] = f THEN Of(f) \cup {n} ELSE Of(f)
  OBVIOUS
<1>3. ASSUME NEW f PROVE Cardinality(Of(f) \cup {n}) = Cardinality(Of(f)) + 1
  <2>1. n \notin Of(f)
    OBVIOUS
  <2> HIDE DEF Of
  <2> QED
    BY <1>1, <2>1, FS_AddElement
<1>4. Field[w[n].status] \in {"passed", "failed", "skipped"}
  BY DEF TestStatus, Field
<1>5. Sums(w, ends) = [f \in {"passed", "failed", "skipped"} |-> Cardinality(Of(f))]
  BY DEF Sums
<1>6. Sums(w, ends \cup {n})
        = [f \in {"passed", "failed", "skipped"} |->
              Cardinality(IF Field[w[n].status] = f THEN Of(f) \cup {n} ELSE Of(f))]
  BY <1>2 DEF Sums
<1> HIDE DEF Of
<1> QED
  BY <1>3, <1>4, <1>5, <1>6 DEF Count

(* Events that are no verdicts, or are not there, count for nothing.       *)
LEMMA SumsKept ==
    ASSUME NEW v, NEW w, NEW ends, \A k \in ends : v[k] = w[k]
    PROVE  Sums(v, ends) = Sums(w, ends)
<1>1. \A f : {k \in ends : Field[v[k].status] = f} = {k \in ends : Field[w[k].status] = f}
  OBVIOUS
<1> QED
  BY <1>1 DEF Sums

LEMMA EndsFinite ==
    ASSUME OrderInv
    PROVE  IsFiniteSet(Ends) /\ \A suite : IsFiniteSet(EndsOf(suite))
<1>1. Len(wire) \in Nat /\ DOMAIN wire = 1 .. Len(wire)
  BY EmitAppends DEF OrderInv
<1>2. Ends \in SUBSET Nat /\ \A n \in Ends : n <= Len(wire)
  BY <1>1 DEF Ends
<1>3. IsFiniteSet(Ends)
  BY <1>1, <1>2, FS_BoundedSetOfNaturals
<1> QED
  BY <1>3, FS_Subset DEF EndsOf

(* What changes neither the verdicts nor the counters.                     *)
LEMMA TallyKept ==
    ASSUME OrderInv, TallyInv, UNCHANGED <<openSuite, suiteTally, tally>>,
           pc # "sort", pc' \notin {"open", "opened"} \/ pc \in {"open", "opened"},
           wire' = wire \/ \E e : wire' = Append(wire, e) /\ e.type # "CaseEnd"
    PROVE  TallyInv'
<1>1. Ends' = Ends /\ \A n \in Ends : wire'[n] = wire[n]
  <2>1. CASE wire' = wire
    BY <2>1 DEF Ends
  <2>2. ASSUME NEW e, wire' = Append(wire, e), e.type # "CaseEnd"
        PROVE  Ends' = Ends /\ \A n \in Ends : wire'[n] = wire[n]
    BY <2>2, EndsGrow DEF OrderInv
  <2> QED
    BY <2>1, <2>2
<1>2. EndsOf(openSuite)' = EndsOf(openSuite)
  BY <1>1 DEF EndsOf
<1>3. Sums(wire', Ends) = Sums(wire, Ends)
  BY <1>1, SumsKept
<1>4. Sums(wire', EndsOf(openSuite)) = Sums(wire, EndsOf(openSuite))
  <2>1. EndsOf(openSuite) \subseteq Ends
    BY DEF EndsOf
  <2> QED
    BY <1>1, <2>1, SumsKept
<1>5. \A o : IdOf(o)' = IdOf(o)
  BY DEF IdOf
<1> QED
  BY <1>1, <1>2, <1>3, <1>4, <1>5 DEF TallyInv

(* A suite whose name is greater than those of all verdicts has none yet.  *)
LEMMA TallyOpens ==
    ASSUME SortInv, OrderInv, PlaceInv, TallyInv, pc # "sort", at \in DOMAIN list,
           openSuite < SuiteAt(at), openSuite' = SuiteAt(at), suiteTally' = NoTally, tally' = tally,
           pc' = "open",
           wire' = wire \/ \E e : wire' = Append(wire, e) /\ e.type # "CaseEnd"
    PROVE  TallyInv'
<1>1. Ends' = Ends /\ \A n \in Ends : wire'[n] = wire[n]
  <2>1. CASE wire' = wire
    BY <2>1 DEF Ends
  <2>2. ASSUME NEW e, wire' = Append(wire, e), e.type # "CaseEnd"
        PROVE  Ends' = Ends /\ \A n \in Ends : wire'[n] = wire[n]
    BY <2>2, EndsGrow DEF OrderInv
  <2> QED
    BY <2>1, <2>2
<1>2. SuiteAt(at) \in Nat /\ openSuite \in Nat
  BY SuitesInOrder DEF PlaceInv
<1>3. \A k \in Ends : wire[k].id.suite \in Nat /\ wire[k].id.suite < SuiteAt(at)
  <2>1. \A o \in Addresses : IdOf(o).suite \in Nat
    BY HarnessAssumption DEF HarnessAssumption, CaseDesc, Addresses, IdOf
  <2> QED
    BY <1>2, <2>1 DEF TallyInv
<1>4. EndsOf(openSuite)' = {}
  BY <1>1, <1>2, <1>3 DEF EndsOf
<1>5. Sums(wire', Ends) = Sums(wire, Ends)
  BY <1>1, SumsKept
<1>6. Sums(wire', {}) = NoTally
  BY SumsOfNone
<1>7. \A o : IdOf(o)' = IdOf(o)
  BY DEF IdOf
<1> QED
  BY <1>1, <1>2, <1>3, <1>4, <1>5, <1>6, <1>7 DEF TallyInv

(* A verdict is counted once in each tally.                                *)
LEMMA TallyCounts ==
    ASSUME SortInv, PlaceInv, OrderInv, TallyInv, EndCase
    PROVE  TallyInv'
<1> DEFINE e == CaseEnd(IdOf(current), Verdict)
<1>1. /\ pc = "verdict" /\ pc' = "loop" /\ openSuite' = openSuite
      /\ wire' = Append(wire, e) /\ e.type = "CaseEnd" /\ e.id = IdOf(current)
      /\ e.status = Verdict
      /\ tally' = Count(tally, Verdict) /\ suiteTally' = Count(suiteTally, Verdict)
  BY DEF EndCase, Emit, CaseEnd
<1> HIDE DEF e
<1>2. PICK n : n = Len(wire) + 1
  OBVIOUS
<1>3. /\ Ends' = Ends \cup {n} /\ n \notin Ends /\ wire'[n] = e
      /\ \A k \in Ends : wire'[k] = wire[k]
  <2>1. /\ Len(wire) \in Nat /\ DOMAIN wire = 1 .. Len(wire)
        /\ wire'[n] = e /\ Ends \subseteq DOMAIN wire /\ Ends' = Ends \cup {n}
        /\ \A k \in DOMAIN wire : wire'[k] = wire[k]
    BY <1>1, <1>2, EndsGrow DEF OrderInv
  <2> QED
    BY <2>1, <1>2
<1>4. current \in Addresses /\ IdOf(current).suite = openSuite /\ openSuite \in Nat
  <2>1. at \in DOMAIN list /\ openSuite = SuiteAt(at) /\ current = list[at] /\ openSuite \in Nat
    BY <1>1 DEF PlaceInv, AtCase, CasePhases
  <2>2. current \in Addresses /\ current # 0
    BY <2>1, SuitesInOrder, HarnessAssumption DEF HarnessAssumption, Addresses
  <2> QED
    BY <2>1, <2>2 DEF IdOf, SuiteAt
<1>5. Verdict \in TestStatus /\ wire'[n].status = Verdict
  BY <1>1, <1>3 DEF Verdict, TestStatus
<1>6. IsFiniteSet(Ends) /\ IsFiniteSet(EndsOf(openSuite))
  BY EndsFinite
<1>7. EndsOf(openSuite)' = EndsOf(openSuite) \cup {n} /\ n \notin EndsOf(openSuite)
  BY <1>1, <1>3, <1>4 DEF EndsOf
<1>8. Sums(wire', Ends \cup {n}) = Count(Sums(wire, Ends), Verdict)
  <2>1. Sums(wire', Ends \cup {n}) = Count(Sums(wire', Ends), Verdict)
    BY <1>3, <1>5, <1>6, SumsGrow
  <2>2. Sums(wire', Ends) = Sums(wire, Ends)
    BY <1>3, SumsKept
  <2> QED
    BY <2>1, <2>2
<1>9. Sums(wire', EndsOf(openSuite) \cup {n}) = Count(Sums(wire, EndsOf(openSuite)), Verdict)
  <2>1. Sums(wire', EndsOf(openSuite) \cup {n}) = Count(Sums(wire', EndsOf(openSuite)), Verdict)
    BY <1>5, <1>6, <1>7, SumsGrow
  <2>2. EndsOf(openSuite) \subseteq Ends
    BY DEF EndsOf
  <2>3. Sums(wire', EndsOf(openSuite)) = Sums(wire, EndsOf(openSuite))
    BY <1>3, <2>2, SumsKept
  <2> QED
    BY <2>1, <2>3
<1>10. \A o : IdOf(o)' = IdOf(o)
  BY DEF IdOf
<1>11. /\ tally' = Sums(wire', Ends') /\ suiteTally' = Sums(wire', EndsOf(openSuite)')
  BY <1>1, <1>3, <1>7, <1>8, <1>9 DEF TallyInv
<1>12. \A k \in Ends' : /\ wire'[k].status \in TestStatus
                        /\ wire'[k].id \in {IdOf(o) : o \in Addresses}
                        /\ wire'[k].id.suite <= openSuite
  <2>1. wire'[n].id = IdOf(current) /\ wire'[n].id.suite <= openSuite
    BY <1>1, <1>3, <1>4
  <2>2. \A k \in Ends : /\ wire'[k].status \in TestStatus
                       /\ wire'[k].id \in {IdOf(o) : o \in Addresses}
                       /\ wire'[k].id.suite <= openSuite
    BY <1>3 DEF TallyInv
  <2> QED
    BY <1>3, <1>4, <1>5, <2>1, <2>2
<1> QED
  BY <1>1, <1>10, <1>11, <1>12 DEF TallyInv

(* The tallies are those of the verdicts on the wire.                      *)
LEMMA TallyStep == SortInv /\ PlaceInv /\ OrderInv /\ TallyInv /\ [Next]_vars => TallyInv'
<1> SUFFICES ASSUME SortInv, PlaceInv, OrderInv, TallyInv, [Next]_vars PROVE TallyInv'
  OBVIOUS
<1>1. CASE QuietStep
  <2>1. wire' = wire /\ (pc' = "sort" => pc = "sort")
    BY <1>1, QuietSteps
  <2>2. CASE SortDone
    <3>1. wire' = <<>> /\ pc' = "loop" /\ tally' = NoTally /\ suiteTally' = NoTally
      BY <2>1, <2>2 DEF SortDone, OrderInv
    <3>2. Ends' = {} /\ EndsOf(openSuite)' = {}
      BY <3>1 DEF Ends, EndsOf
    <3> QED
      BY <3>1, <3>2, SumsOfNone DEF TallyInv
  <2>3. ASSUME ~SortDone, EnterCase PROVE TallyInv'
    <3>1. tally' = tally /\ pc = "loop"
      BY <2>3 DEF EnterCase
    <3>2. CASE UNCHANGED <<openSuite, suiteTally>> /\ pc' # "open"
      BY <2>1, <2>3, <3>1, <3>2, TallyKept DEF EnterCase
    <3>3. CASE /\ pc' = "open" /\ openSuite = NullName /\ openSuite' = SuiteAt(at)
               /\ at \in DOMAIN list /\ suiteTally' = NoTally
      <4>1. openSuite < SuiteAt(at)
        BY <2>3, <3>3, SuitesInOrder DEF EnterCase, SuiteAt, NullName
      <4> QED
        BY <2>1, <3>1, <3>3, <4>1, TallyOpens
    <3> QED
      BY <1>1, <2>3, <3>1, <3>2, <3>3, QuietSuites DEF Over, Between
  <2>4. ASSUME ~SortDone, ~EnterCase PROVE TallyInv'
    <3>1. tally' = tally
      BY <1>1, <2>4 DEF QuietStep, SortStep, SkipCase, Return, CallUser, UserReturns, UserIgnores,
           UserProtects, UserAborts, UserSetsParam, UserClearsParam, vars, loopVars
    <3>2. /\ UNCHANGED <<openSuite, suiteTally>>
          /\ pc' \notin {"open", "opened"} \/ pc \in {"open", "opened"}
      BY <1>1, <2>4, QuietSuites DEF Between, Over
    <3>3. CASE pc = "sort"
      <4>1. pc' = "sort" /\ wire' = <<>>
        BY <1>1, <2>1, <2>4, <3>3, QuietSuites DEF OrderInv, Between, Over
      <4> QED
        BY <4>1 DEF TallyInv, Ends
    <3> QED
      BY <2>1, <3>1, <3>2, <3>3, TallyKept
  <2> QED
    BY <2>2, <2>3, <2>4
<1>2. CASE EndCase
  BY <1>2, TallyCounts
<1>3. CASE EmitSuiteEnd
  <2>1. /\ wire' = Append(wire, SuiteEnd(openSuite, suiteTally)) /\ pc = "closed" /\ tally' = tally
        /\ SuiteEnd(openSuite, suiteTally).type # "CaseEnd"
    BY <1>3 DEF EmitSuiteEnd, Emit, SuiteEnd
  <2>2. DOMAIN list = 1 .. Len(list) /\ Len(list) \in Nat /\ at \in Nat \ {0}
    BY SuitesInOrder DEF PlaceInv
  <2>3. CASE at <= Len(list)
    <3>1. at \in DOMAIN list /\ openSuite < SuiteAt(at)
      BY <2>1, <2>2, <2>3 DEF PlaceInv
    <3>2. openSuite' = SuiteAt(at) /\ suiteTally' = NoTally /\ pc' = "open"
      BY <1>3, <2>3 DEF EmitSuiteEnd, SuiteAt
    <3> QED
      BY <2>1, <3>1, <3>2, TallyOpens
  <2>4. CASE ~(at <= Len(list))
    BY <1>3, <2>1, <2>4, TallyKept DEF EmitSuiteEnd
  <2> QED
    BY <2>3, <2>4
<1>4. CASE EmitSuiteStart \/ StartCase \/ EmitDone
  <2>1. /\ SuiteStart(openSuite).type # "CaseEnd" /\ DoneEvent(tally).type # "CaseEnd"
        /\ CaseStart(IdOf(current')).type # "CaseEnd"
    BY DEF SuiteStart, DoneEvent, CaseStart
  <2> QED
    BY <1>4, <2>1, TallyKept DEF EmitSuiteStart, StartCase, EmitDone, Emit, loopVars
<1>5. CASE UserFails
  <2> DEFINE e == [type |-> "AssertFail", id |-> IdOf(current),
                   param |-> IF param.active THEN {param.index} ELSE {}]
  <2>1. wire' = Append(wire, e) /\ e.type # "CaseEnd"
    BY <1>5 DEF UserFails, Emit
  <2> HIDE DEF e
  <2>2. UNCHANGED <<openSuite, suiteTally, tally>> /\ pc' = pc /\ pc \in Callbacks
    BY <1>5 DEF UserFails, MayCall, PlaceInv, loopVars
  <2> QED
    BY <2>1, <2>2, TallyKept DEF Callbacks
<1>6. CASE Again
  BY <1>6 DEF Again, TallyInv, Ends
<1> QED
  BY <1>1, <1>2, <1>3, <1>4, <1>5, <1>6, StepKinds

(* Done is written once, when the loop is over.                            *)
LEMMA DoneStep == PlaceInv /\ OrderInv /\ DoneInv /\ [Next]_vars => DoneInv'
<1> SUFFICES ASSUME PlaceInv, OrderInv, DoneInv, [Next]_vars PROVE DoneInv'
  OBVIOUS
<1> DEFINE Finished == {"return", "exit"}
<1>1. IsStream(wire)
  BY DEF OrderInv
<1>2. CASE QuietStep
  <2>1. Never({"Done"})' <=> Never({"Done"})
    BY <1>2, QuietSteps DEF Never
  <2>2. pc' \in Finished <=> pc \in Finished
    BY <1>2 DEF QuietStep, SortStep, SortDone, SkipCase, EnterCase, Return, CallUser, UserReturns,
         UserIgnores, UserProtects, UserAborts, UserSetsParam, UserClearsParam, MayCall, Leave,
         After, vars, PlaceInv, Callbacks
  <2> QED
    BY <2>1, <2>2 DEF DoneInv
<1>3. ASSUME NEW e, wire' = Append(wire, e), e.type # "Done",
             pc' \in Finished <=> pc \in Finished
      PROVE  DoneInv'
  BY <1>1, <1>3, MarksStay DEF DoneInv
<1>4. CASE EmitSuiteEnd \/ EmitSuiteStart \/ StartCase \/ EndCase
  <2>1. /\ SuiteEnd(openSuite, suiteTally).type # "Done" /\ SuiteStart(openSuite).type # "Done"
        /\ CaseEnd(IdOf(current), Verdict).type # "Done" /\ CaseStart(IdOf(current')).type # "Done"
    BY DEF SuiteStart, SuiteEnd, CaseStart, CaseEnd
  <2> QED
    BY <1>3, <1>4, <2>1 DEF EmitSuiteEnd, EmitSuiteStart, StartCase, EndCase, Emit
<1>5. CASE UserFails
  <2> DEFINE e == [type |-> "AssertFail", id |-> IdOf(current),
                   param |-> IF param.active THEN {param.index} ELSE {}]
  <2>1. wire' = Append(wire, e) /\ e.type # "Done" /\ pc' = pc
    BY <1>5 DEF UserFails, Emit
  <2> HIDE DEF e
  <2> QED
    BY <1>3, <2>1
<1>6. CASE EmitDone
  <2> DEFINE e == DoneEvent(tally)
  <2>1. wire' = Append(wire, e) /\ e.type \in {"Done"} /\ pc' = "return"
    BY <1>6 DEF EmitDone, Emit, DoneEvent
  <2> HIDE DEF e
  <2>2. \E k \in DOMAIN wire' : wire'[k] = e
    BY <1>1, <2>1, NewMark
  <2> QED
    BY <2>1, <2>2 DEF DoneInv, Never
<1>7. CASE Again
  BY <1>7 DEF Again, DoneInv, Never
<1> QED
  BY <1>2, <1>4, <1>5, <1>6, <1>7, StepKinds

WireInv == CaseMarkInv /\ SuiteMarkInv /\ TallyInv /\ DoneInv

(* Where the run is and what it has counted show on the wire, in every     *)
(* reachable state.                                                        *)
THEOREM WireInvariance == Spec => []WireInv
<1>1. Init => WireInv
  BY DEF Init, WireInv, CaseMarkInv, SuiteMarkInv, TallyInv, DoneInv, Never, Ends, CasePhases,
       Between, Over
<1>2. SortInv /\ PlaceInv /\ OrderInv /\ WireInv /\ [Next]_vars => WireInv'
  BY CaseMarkStep, SuiteMarkStep, TallyStep, DoneStep DEF WireInv
<1> QED
  BY <1>1, <1>2, SortInvariance, PlaceInvariance, OrderInvariance, PTL DEF Spec

(* The harness is honest: whatever is linked, selected and called back, a  *)
(* run's DONE shows a failure exactly if a case of that run failed.  That  *)
(* is what the exit code of a streamed run rests on.                       *)
THEOREM HarnessIsHonest == Spec => []Honest(wire)
<1>1. Init => Honest(wire)
  BY DEF Init, Honest, DonesIn
<1>2. PlaceInv /\ OrderInv /\ WireInv /\ WireInv' /\ Honest(wire) /\ [Next]_vars => Honest(wire)'
  <2> SUFFICES ASSUME PlaceInv, OrderInv, TallyInv, DoneInv, DoneInv', Honest(wire), [Next]_vars
               PROVE  Honest(wire)'
    BY DEF WireInv
  <2> DEFINE Finished == {"return", "exit"}
  <2>1. CASE pc' \notin Finished
    BY <2>1 DEF DoneInv, Never, Honest, DonesIn, IsTerminal
  <2>2. CASE QuietStep
    BY <2>2, QuietSteps DEF Honest, DonesIn, FailuresIn
  <2>3. CASE EmitDone
    <3> DEFINE e == DoneEvent(tally)
               n == Len(wire) + 1
    <3>1. wire' = Append(wire, e) /\ pc = "done" /\ e.type = "Done" /\ e.tally = tally
      BY <2>3 DEF EmitDone, Emit, DoneEvent
    <3> HIDE DEF e
    <3>2. /\ DOMAIN wire = 1 .. Len(wire) /\ Len(wire) \in Nat
          /\ DOMAIN wire' = 1 .. n
          /\ \A k \in 1 .. Len(wire) : wire'[k] = wire[k]
          /\ wire'[n] = e
      BY <3>1, EmitAppends DEF OrderInv
    <3>3. DonesIn(wire') = {n}
      BY <3>1, <3>2 DEF DoneInv, Never, DonesIn, IsTerminal
    <3>4. FailuresIn(wire') = FailuresIn(wire) /\ \A k \in FailuresIn(wire) : k < n
      BY <3>1, <3>2 DEF FailuresIn
    <3>5. e.tally.failed > 0 <=> FailuresIn(wire) # {}
      <4>1. tally = Sums(wire, Ends)
        BY <3>1 DEF TallyInv
      <4>2. FailuresIn(wire) = {k \in Ends : Field[wire[k].status] = "failed"}
        BY DEF TallyInv, FailuresIn, Ends, Field, TestStatus
      <4>3. tally.failed = Cardinality(FailuresIn(wire))
        BY <4>1, <4>2 DEF Sums
      <4>4. IsFiniteSet(FailuresIn(wire))
        <5>1. FailuresIn(wire) \subseteq 1 .. Len(wire) /\ IsFiniteSet(1 .. Len(wire))
          BY <3>2, FS_Interval DEF FailuresIn
        <5> QED
          BY <5>1, FS_Subset
      <4>5. tally.failed \in Nat /\ (tally.failed = 0 <=> FailuresIn(wire) = {})
        BY <4>3, <4>4, FS_CardinalityType, FS_EmptySet
      <4> QED
        BY <3>1, <4>5
    <3> QED
      BY <3>2, <3>3, <3>4, <3>5 DEF Honest
  <2>4. CASE EmitSuiteEnd \/ EmitSuiteStart \/ StartCase \/ EndCase \/ UserFails \/ Again
    <3>1. pc' \notin Finished
      BY <2>4 DEF EmitSuiteEnd, EmitSuiteStart, StartCase, EndCase, UserFails, Again, MayCall,
           PlaceInv, Callbacks, Emit
    <3> QED
      BY <2>1, <3>1
  <2> QED
    BY <2>2, <2>3, <2>4, StepKinds
<1> QED
  BY <1>1, <1>2, PlaceInvariance, OrderInvariance, WireInvariance, PTL DEF Spec

-----------------------------------------------------------------------------
(* RunStream read over the wire.                                           *)
Names == {Cases[o].suite : o \in DOMAIN Cases} \ {NullName}

(* What a reader sees of an event is of the same kind.                     *)
LEMMA PlainKeepsType == ASSUME NEW e PROVE Plain(e).type = e.type
BY DEF Plain, AssertFail

(* An event written is an event read.                                      *)
LEMMA EventsAppend ==
    ASSUME IsStream(wire), NEW e, wire' = Append(wire, e)
    PROVE  Events' = Append(Events, Plain(e))
<1>1. /\ DOMAIN wire = 1 .. Len(wire) /\ Len(wire) \in Nat
      /\ DOMAIN wire' = 1 .. Len(wire) + 1
      /\ \A k \in 1 .. Len(wire) : wire'[k] = wire[k]
      /\ wire'[Len(wire) + 1] = e
  BY EmitAppends
<1>2. PICK t : t = Events
  OBVIOUS
<1>3. IsStream(t) /\ Len(t) = Len(wire) /\ \A k \in DOMAIN wire : t[k] = Plain(wire[k])
  <2>1. DOMAIN t = 1 .. Len(wire) /\ \A k \in DOMAIN wire : t[k] = Plain(wire[k])
    BY <1>1, <1>2 DEF Events
  <2> DEFINE S == ToSet(t)
  <2>2. \A k \in 1 .. Len(wire) : t[k] \in S
    BY <2>1 DEF ToSet
  <2>3. t = [k \in 1 .. Len(wire) |-> t[k]]
    BY <1>1, <1>2 DEF Events
  <2> HIDE DEF S
  <2>4. t \in Seq(S) /\ Len(t) = Len(wire)
    BY <1>1, <2>2, <2>3
  <2> QED
    BY <2>1, <2>4 DEF IsStream, S
<1>4. PICK x : x = Plain(e)
  OBVIOUS
<1>5. /\ IsStream(Append(t, x)) /\ DOMAIN t = 1 .. Len(t)
      /\ DOMAIN Append(t, x) = 1 .. Len(t) + 1
      /\ \A k \in 1 .. Len(t) : Append(t, x)[k] = t[k]
      /\ Append(t, x)[Len(t) + 1] = x
  BY <1>3, EmitAppends
<1>6. Append(t, x) = [k \in 1 .. Len(t) + 1 |-> Append(t, x)[k]]
  <2> DEFINE u == Append(t, x)
             S == ToSet(u)
  <2>1. u \in Seq(S) /\ DOMAIN u = 1 .. Len(t) + 1
    BY <1>5 DEF IsStream
  <2> HIDE DEF u, S
  <2>2. u = [k \in 1 .. Len(t) + 1 |-> u[k]]
    BY <2>1
  <2> QED
    BY <2>2 DEF u
<1>7. Events' = [k \in 1 .. Len(wire) + 1 |-> Plain(wire'[k])]
  BY <1>1 DEF Events
<1>8. \A k \in 1 .. Len(wire) + 1 : Plain(wire'[k]) = Append(t, x)[k]
  <2>1. \A k \in 1 .. Len(wire) + 1 : k \in 1 .. Len(wire) \/ k = Len(wire) + 1
    BY <1>1
  <2> QED
    BY <2>1, <1>1, <1>3, <1>4, <1>5
<1> QED
  BY <1>2, <1>3, <1>4, <1>6, <1>7, <1>8

(* The events of a kind are where they are on the wire.                    *)
LEMMA KindsAgree ==
    ASSUME NEW types
    PROVE  /\ Abstract!At(types) = {k \in DOMAIN wire : wire[k].type \in types}
           /\ "AssertFail" \notin types => \A k \in Abstract!At(types) : Events[k] = wire[k]
<1>1. DOMAIN Events = DOMAIN wire /\ \A k \in DOMAIN wire : Events[k] = Plain(wire[k])
  BY DEF Events
<1>2. Abstract!At(types) = {k \in DOMAIN wire : wire[k].type \in types}
  BY <1>1, PlainKeepsType DEF Abstract!At
<1> QED
  BY <1>1, <1>2 DEF Plain

LEMMA LastAgrees ==
    ASSUME IsStream(wire), NEW types, NEW k \in DOMAIN wire, IsLast(k, types),
           "AssertFail" \notin types
    PROVE  Abstract!At(types) # {} /\ Abstract!LastOf(types) = wire[k]
<1>1. DOMAIN wire = 1 .. Len(wire) /\ Len(wire) \in Nat
  BY EmitAppends
<1>2. k \in Abstract!At(types) /\ \A m \in Abstract!At(types) : m <= k /\ m \in Nat
  BY <1>1, KindsAgree DEF IsLast
<1>3. ASSUME NEW n, n = CHOOSE j \in Abstract!At(types) : \A m \in Abstract!At(types) : m <= j
      PROVE  n = k
  BY <1>2, <1>3
<1>4. Abstract!LastOf(types) = Events[k]
  BY <1>3 DEF Abstract!LastOf
<1> QED
  BY <1>2, <1>4, KindsAgree

LEMMA NeverAgrees == ASSUME NEW types, Never(types) PROVE Abstract!At(types) = {}
BY KindsAgree DEF Never

(* A reader can tell in which case and in which suite the run is.          *)
LEMMA CaseIsSeen ==
    ASSUME OrderInv, CaseMarkInv
    PROVE  /\ pc \in CasePhases =>
                 Abstract!CaseIsOpen /\ Abstract!LastOf({"CaseStart"}) = CaseStart(IdOf(current))
           /\ pc \notin CasePhases \cup {"crashed"} => ~Abstract!CaseIsOpen
<1>1. IsStream(wire) /\ "AssertFail" \notin CaseMarks /\ CaseMarks = {"CaseStart", "CaseEnd"}
  BY DEF OrderInv, CaseMarks
<1>2. ASSUME pc \in CasePhases
      PROVE  Abstract!CaseIsOpen /\ Abstract!LastOf({"CaseStart"}) = CaseStart(IdOf(current))
  <2>1. PICK k \in DOMAIN wire : IsLast(k, CaseMarks) /\ wire[k] = CaseStart(IdOf(current))
    BY <1>2 DEF CaseMarkInv
  <2>2. wire[k].type = "CaseStart"
    BY <2>1 DEF CaseStart
  <2>3. Abstract!CaseIsOpen
    <3>1. Abstract!At(CaseMarks) # {} /\ Abstract!LastOf(CaseMarks) = wire[k]
      BY <1>1, <2>1, LastAgrees
    <3> QED
      BY <1>1, <2>2, <3>1 DEF Abstract!CaseIsOpen
  <2>4. IsLast(k, {"CaseStart"})
    BY <2>1, <2>2 DEF IsLast, CaseMarks
  <2> QED
    BY <1>1, <2>1, <2>3, <2>4, LastAgrees
<1>3. ASSUME pc \notin CasePhases \cup {"crashed"} PROVE ~Abstract!CaseIsOpen
  <2>1. CASE Never(CaseMarks)
    BY <1>1, <2>1, NeverAgrees DEF Abstract!CaseIsOpen
  <2>2. ASSUME NEW k \in DOMAIN wire, IsLast(k, CaseMarks), wire[k].type = "CaseEnd"
        PROVE  ~Abstract!CaseIsOpen
    <3>1. Abstract!LastOf(CaseMarks) = wire[k]
      BY <1>1, <2>2, LastAgrees
    <3> QED
      BY <1>1, <2>2, <3>1 DEF Abstract!CaseIsOpen
  <2> QED
    BY <1>3, <2>1, <2>2 DEF CaseMarkInv
<1> QED
  BY <1>2, <1>3

LEMMA SuiteIsSeen ==
    ASSUME OrderInv, SuiteMarkInv
    PROVE  /\ pc \in Between => \A name \in Names : ~Abstract!SuiteIsOpen(name)
           /\ pc \notin Between \cup {"sort", "crashed"} => Abstract!SuiteIsOpen(openSuite)
<1>1. IsStream(wire) /\ "AssertFail" \notin SuiteMarks /\ SuiteMarks = {"SuiteStart", "SuiteEnd"}
  BY DEF OrderInv, SuiteMarks
<1>2. ASSUME pc \in Between, NEW name \in Names PROVE ~Abstract!SuiteIsOpen(name)
  <2>1. CASE Never(SuiteMarks)
    BY <1>1, <2>1, NeverAgrees DEF Abstract!SuiteIsOpen, Names
  <2>2. ASSUME NEW k \in DOMAIN wire, IsLast(k, SuiteMarks), wire[k].type = "SuiteEnd"
        PROVE  ~Abstract!SuiteIsOpen(name)
    <3>1. Abstract!At(SuiteMarks) # {} /\ Abstract!LastOf(SuiteMarks) = wire[k]
      BY <1>1, <2>2, LastAgrees
    <3>2. SuiteStart(name).type = "SuiteStart"
      BY DEF SuiteStart
    <3> QED
      BY <1>1, <2>2, <3>1, <3>2 DEF Abstract!SuiteIsOpen, Abstract!SuiteStart, SuiteStart
  <2> QED
    BY <1>2, <2>1, <2>2 DEF SuiteMarkInv
<1>3. ASSUME pc \notin Between \cup {"sort", "crashed"} PROVE Abstract!SuiteIsOpen(openSuite)
  <2>1. CASE openSuite = NullName
    BY <1>1, <1>3, <2>1, NeverAgrees DEF Abstract!SuiteIsOpen, SuiteMarkInv
  <2>2. CASE openSuite # NullName
    <3>1. PICK k \in DOMAIN wire : IsLast(k, SuiteMarks) /\ wire[k] = SuiteStart(openSuite)
      BY <1>3, <2>2 DEF SuiteMarkInv
    <3>2. Abstract!At(SuiteMarks) # {} /\ Abstract!LastOf(SuiteMarks) = wire[k]
      BY <1>1, <3>1, LastAgrees
    <3> QED
      BY <1>1, <3>1, <3>2 DEF Abstract!SuiteIsOpen, Abstract!SuiteStart, SuiteStart
  <2> QED
    BY <2>1, <2>2
<1> QED
  BY <1>2, <1>3

(* RunStream counts with the Cardinality of its own FiniteSets.            *)
LEMMA SameCardinality == ASSUME NEW S PROVE Abstract!Cardinality(S) = Cardinality(S)
BY DEF Abstract!Cardinality, Cardinality

(* Whoever counts the verdicts counts what the harness has counted.        *)
LEMMA TotalsAgree ==
    ASSUME TallyInv, pc # "sort"
    PROVE  /\ tally = Abstract!Totals
           /\ suiteTally = Abstract!EndsOf([suite \in Names \cup {NullName} |-> suite = openSuite])
<1>1. /\ Abstract!At({"CaseEnd"}) = Ends
      /\ \A k \in Ends : Events[k] = wire[k]
  BY KindsAgree DEF Ends
<1>2. \A k \in Ends : wire[k].id.suite \in Names \cup {NullName}
  BY DEF TallyInv, IdOf, Names, Addresses
<1>3. ASSUME NEW test, NEW ends, ends = {k \in Ends : test[wire[k].id.suite]}
      PROVE  Abstract!EndsOf(test) = Sums(wire, ends)
  <2>1. {k \in Abstract!At({"CaseEnd"}) : test[Events[k].id.suite]} = ends
    BY <1>1, <1>3
  <2>2. \A k \in ends : Events[k] = wire[k]
    BY <1>1, <1>3
  <2>3. \A f : {k \in ends : Field[Events[k].status] = f} = {k \in ends : Field[wire[k].status] = f}
    BY <2>2
  <2> QED
    BY <2>1, <2>3, SameCardinality DEF Abstract!EndsOf, Abstract!Field, Field, Sums
<1>4. {k \in Ends : [suite \in Names \cup {NullName} |-> TRUE][wire[k].id.suite]} = Ends
  BY <1>2
<1>5. {k \in Ends : [suite \in Names \cup {NullName} |-> suite = openSuite][wire[k].id.suite]}
          = EndsOf(openSuite)
  BY <1>2 DEF EndsOf
<1>6. Abstract!Totals = Sums(wire, Ends)
  BY <1>3, <1>4 DEF Abstract!Totals, Names
<1>7. Abstract!EndsOf([suite \in Names \cup {NullName} |-> suite = openSuite])
          = Sums(wire, EndsOf(openSuite))
  BY <1>3, <1>5
<1> QED
  BY <1>6, <1>7 DEF TallyInv

(* Until Done is written, any event may follow.                            *)
LEMMA WritesAreEmits ==
    ASSUME OrderInv, DoneInv, NEW e, wire' = Append(wire, e),
           pc \notin {"return", "exit"}, pc' # "exit"
    PROVE  Abstract!Emit(Plain(e))
<1>1. Abstract!At({"Done"}) = {}
  BY NeverAgrees DEF DoneInv
<1>2. Events' = Append(Events, Plain(e))
  BY EventsAppend DEF OrderInv
<1> QED
  BY <1>1, <1>2 DEF Abstract!Emit

(* A step that writes nothing is none for the reader, but for the return.  *)
LEMMA QuietStutters ==
    ASSUME PlaceInv, OrderInv, TallyInv, DoneInv, QuietStep
    PROVE  Abstract!Return \/ UNCHANGED Abstract!vars
<1>1. Events' = Events
  BY QuietSteps DEF Events
<1>2. CASE Return
  <2>1. pc = "return" /\ pc' = "exit" /\ tally' = tally
    BY <1>2 DEF Return, loopVars
  <2>2. Abstract!At({"Done"}) # {}
    BY <2>1, KindsAgree DEF DoneInv, Never
  <2>3. tally = Abstract!Totals
    BY <2>1, TotalsAgree
  <2>4. ReturnCode' = IF Abstract!Totals.failed > 0 THEN 1 ELSE 0
    BY <2>1, <2>3 DEF ReturnCode
  <2> QED
    BY <1>1, <2>1, <2>2, <2>4 DEF Abstract!Return
<1>3. CASE ~Return
  <2>1. pc' = "exit" <=> pc = "exit"
    BY <1>3 DEF QuietStep, SortStep, SortDone, SkipCase, EnterCase, CallUser, UserReturns,
         UserIgnores, UserProtects, UserAborts, UserSetsParam, UserClearsParam, MayCall, Leave,
         After, vars, PlaceInv, Callbacks
  <2>2. pc = "exit" => tally' = tally
    BY <1>3 DEF QuietStep, SortStep, SortDone, SkipCase, EnterCase, CallUser, UserReturns,
         UserIgnores, UserProtects, UserAborts, UserSetsParam, UserClearsParam, MayCall, vars,
         loopVars, PlaceInv, Callbacks
  <2> QED
    BY <1>1, <2>1, <2>2 DEF Abstract!vars, ReturnCode
<1> QED
  BY <1>2, <1>3

(* Every step is one RunStream allows, or none.                            *)
LEMMA StepRefines ==
    SortInv /\ PlaceInv /\ OrderInv /\ WireInv /\ [Next]_vars => [Abstract!Next]_(Abstract!vars)
<1> SUFFICES ASSUME SortInv, PlaceInv, OrderInv, CaseMarkInv, SuiteMarkInv, TallyInv, DoneInv,
                    [Next]_vars
             PROVE  [Abstract!Next]_(Abstract!vars)
  BY DEF WireInv
<1>1. CASE QuietStep
  BY <1>1, QuietStutters DEF Abstract!Next
<1>2. CASE EmitSuiteStart
  <2> DEFINE e == SuiteStart(openSuite)
  <2>1. wire' = Append(wire, e) /\ pc = "opened" /\ pc' = "case" /\ e.type = "SuiteStart"
        /\ e.name = openSuite
    BY <1>2 DEF EmitSuiteStart, Emit, SuiteStart
  <2>2. openSuite \in Names
    BY <2>1 DEF PlaceInv, SuiteMarkInv, Names, Addresses
  <2>3. ~Abstract!CaseIsOpen /\ \A other \in Names : ~Abstract!SuiteIsOpen(other)
    BY <2>1, CaseIsSeen, SuiteIsSeen DEF CasePhases, Between
  <2>4. e \notin Abstract!ToSet(Events)
    <3>1. \A k \in DOMAIN wire : wire[k] # e
      BY <2>1 DEF SuiteMarkInv, PlaceInv
    <3>2. \A k \in DOMAIN wire : Events[k].type = "SuiteStart" => Events[k] = wire[k]
      BY PlainKeepsType DEF Events, Plain, AssertFail
    <3>3. DOMAIN Events = DOMAIN wire
      BY DEF Events
    <3> QED
      BY <2>1, <3>1, <3>2, <3>3 DEF Abstract!ToSet
  <2>5. Abstract!Emit(e)
    <3>1. Plain(e) = e
      BY <2>1 DEF Plain
    <3> HIDE DEF e
    <3> QED
      BY <2>1, <3>1, WritesAreEmits
  <2>6. Abstract!OpenSuite(openSuite)
    BY <2>3, <2>4, <2>5 DEF Abstract!OpenSuite, Abstract!SuiteStart, SuiteStart, Names
  <2> QED
    BY <2>2, <2>6 DEF Abstract!Next, Names
<1>3. CASE EmitSuiteEnd
  <2> DEFINE e == SuiteEnd(openSuite, suiteTally)
  <2>1. wire' = Append(wire, e) /\ pc = "closed" /\ pc' # "exit" /\ e.type = "SuiteEnd"
    BY <1>3 DEF EmitSuiteEnd, Emit, SuiteEnd
  <2>2. openSuite \in Names
    BY <2>1 DEF PlaceInv, SuiteMarkInv, Names, Addresses
  <2>3. ~Abstract!CaseIsOpen /\ Abstract!SuiteIsOpen(openSuite)
    BY <2>1, CaseIsSeen, SuiteIsSeen DEF CasePhases, Between, Over
  <2>4. suiteTally = Abstract!EndsOf([suite \in Names \cup {NullName} |-> suite = openSuite])
    BY <2>1, TotalsAgree
  <2>5. Abstract!Emit(e)
    <3>1. Plain(e) = e
      BY <2>1 DEF Plain
    <3> HIDE DEF e
    <3> QED
      BY <2>1, <3>1, WritesAreEmits
  <2>6. Abstract!CloseSuite(openSuite)
    BY <2>3, <2>4, <2>5 DEF Abstract!CloseSuite, Abstract!SuiteEnd, SuiteEnd, Names
  <2> QED
    BY <2>2, <2>6 DEF Abstract!Next, Names
<1>4. CASE StartCase
  <2> DEFINE id == IdOf(list[at])
             e == CaseStart(id)
  <2>1. wire' = Append(wire, e) /\ pc = "case" /\ pc' = "setup" /\ e.type = "CaseStart"
    BY <1>4 DEF StartCase, Emit, CaseStart, IdOf
  <2>2. list[at] \in Addresses /\ list[at] # 0 /\ openSuite = SuiteAt(at)
    BY <2>1, SuitesInOrder, HarnessAssumption DEF HarnessAssumption, Addresses, PlaceInv, AtCase
  <2>3. ~Abstract!CaseIsOpen /\ Abstract!SuiteIsOpen(openSuite) /\ id.suite = openSuite
    BY <2>1, <2>2, CaseIsSeen, SuiteIsSeen DEF CasePhases, Between, Over, IdOf, SuiteAt
  <2>4. Abstract!Emit(e)
    <3>1. Plain(e) = e
      BY <2>1 DEF Plain
    <3> HIDE DEF e
    <3> QED
      BY <2>1, <3>1, WritesAreEmits
  <2>5. Abstract!StartCase(id)
    BY <2>3, <2>4 DEF Abstract!StartCase, Abstract!CaseStart, CaseStart
  <2> HIDE DEF id
  <2>6. id \in {IdOf(o) : o \in {0} \cup DOMAIN Cases}
    BY <2>2 DEF id, Addresses
  <2> QED
    BY <2>5, <2>6 DEF Abstract!Next
<1>5. CASE UserFails
  <2> DEFINE id == IdOf(current)
             e == [type |-> "AssertFail", id |-> id,
                   param |-> IF param.active THEN {param.index} ELSE {}]
  <2>1. wire' = Append(wire, e) /\ pc' = pc /\ pc \in Callbacks
    BY <1>5 DEF UserFails, Emit, MayCall, PlaceInv
  <2>2. id \in {IdOf(o) : o \in {0} \cup DOMAIN Cases}
    BY DEF CaseMarkInv, Addresses
  <2>3. Abstract!CaseIsOpen => id = Abstract!LastOf({"CaseStart"}).id
    <3>1. CaseStart(id).id = id
      BY DEF CaseStart
    <3> HIDE DEF id
    <3>2. pc # "crashed"
      BY <2>1 DEF Callbacks
    <3> QED
      BY <3>1, <3>2, CaseIsSeen DEF id
  <2>4. Abstract!Emit(AssertFail(id))
    <3>1. Plain(e) = AssertFail(id)
      BY DEF Plain
    <3> HIDE DEF e
    <3> QED
      BY <2>1, <3>1, WritesAreEmits DEF Callbacks
  <2> HIDE DEF id
  <2>5. Abstract!Fail(id)
    BY <2>3, <2>4 DEF Abstract!Fail, Abstract!AssertFail, AssertFail
  <2> QED
    BY <2>2, <2>5 DEF Abstract!Next
<1>6. CASE EndCase
  <2> DEFINE e == CaseEnd(IdOf(current), Verdict)
  <2>1. wire' = Append(wire, e) /\ pc = "verdict" /\ pc' = "loop" /\ e.type = "CaseEnd"
    BY <1>6 DEF EndCase, Emit, CaseEnd
  <2>2. Abstract!CaseIsOpen /\ Abstract!LastOf({"CaseStart"}).id = IdOf(current)
    BY <2>1, CaseIsSeen DEF CasePhases, CaseStart
  <2>3. Abstract!Emit(e)
    <3>1. Plain(e) = e
      BY <2>1 DEF Plain
    <3> HIDE DEF e
    <3> QED
      BY <2>1, <3>1, WritesAreEmits
  <2>4. Verdict \in Abstract!TestStatus
    BY DEF Verdict, Abstract!TestStatus
  <2>5. Abstract!EndCase(Verdict)
    BY <2>2, <2>3 DEF Abstract!EndCase, Abstract!CaseEnd, CaseEnd
  <2> QED
    BY <2>4, <2>5 DEF Abstract!Next
<1>7. CASE EmitDone
  <2> DEFINE e == DoneEvent(tally)
  <2>1. wire' = Append(wire, e) /\ pc = "done" /\ pc' = "return" /\ e.type = "Done"
    BY <1>7 DEF EmitDone, Emit, DoneEvent
  <2>2. ~Abstract!CaseIsOpen /\ \A name \in Names : ~Abstract!SuiteIsOpen(name)
    BY <2>1, CaseIsSeen, SuiteIsSeen DEF CasePhases, Between, Over
  <2>3. tally = Abstract!Totals
    BY <2>1, TotalsAgree
  <2>4. Abstract!Emit(e)
    <3>1. Plain(e) = e
      BY <2>1 DEF Plain
    <3> HIDE DEF e
    <3> QED
      BY <2>1, <3>1, WritesAreEmits
  <2>5. Abstract!Finish
    BY <2>2, <2>3, <2>4 DEF Abstract!Finish, Abstract!DoneEvent, DoneEvent, Names
  <2> QED
    BY <2>5 DEF Abstract!Next
<1>8. CASE Again
  <2>1. pc = "exit" /\ pc' = "sort" /\ wire' = <<>>
    BY <1>8 DEF Again
  <2>2. Events' = <<>>
    BY <2>1 DEF Events
  <2>3. ReturnCode # -1
    BY DEF ReturnCode
  <2> QED
    BY <2>1, <2>2, <2>3 DEF Abstract!Again, Abstract!Next
<1> QED
  BY <1>1, <1>2, <1>3, <1>4, <1>5, <1>6, <1>7, <1>8, StepKinds

(* The events of every run, whatever is linked, selected and called back,  *)
(* are a stream the host may rely on: suites and cases are nested, totals  *)
(* add up and the return value goes with them.                             *)
THEOREM RefinesRunStream == Spec => ImplementsRunStream
<1>1. Init => Abstract!Init
  <2>1. ASSUME Init PROVE Events = <<>>
    BY <2>1 DEF Init, Events
  <2> QED
    BY <2>1 DEF Init, Abstract!Init
<1> QED
  BY <1>1, StepRefines, SortInvariance, PlaceInvariance, OrderInvariance, WireInvariance,
     PTL DEF Spec, ImplementsRunStream, Abstract!Spec

=============================================================================
