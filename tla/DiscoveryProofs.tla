---------------------------- MODULE DiscoveryProofs ----------------------------
(***************************************************************************)
(* Theorems about Discovery, for every test binary and every order of its  *)
(* constructors: the registries stay lists; what the macros declare        *)
(* reaches the cases; and an isolated run executes the cases of a plain    *)
(* run, under the conditions on names and filters that it needs.           *)
(***************************************************************************)
EXTENDS Discovery, TLAPS, SequenceTheorems, FiniteSetTheorems

Distinct(list) == \A i, j \in DOMAIN list : list[i] = list[j] => i = j

(* An object that is linked, once or again, is in the list, and the list   *)
(* holds no object twice.                                                  *)
LEMMA LinkKeeps ==
    ASSUME NEW S, NEW list \in Seq(S), Distinct(list), NEW o \in S
    PROVE  /\ Link(list, o) \in Seq(S)
           /\ Distinct(Link(list, o))
           /\ ToSet(Link(list, o)) = ToSet(list) \cup {o}
<1>1. CASE o \in ToSet(list)
  BY <1>1 DEF Link
<1>2. CASE o \notin ToSet(list)
  <2> DEFINE longer == <<o>> \o list
  <2>1. Link(list, o) = longer
    BY <1>2 DEF Link
  <2>2. <<o>> \in Seq(S) /\ Len(<<o>>) = 1 /\ <<o>>[1] = o
    OBVIOUS
  <2>3. /\ longer \in Seq(S) /\ Len(longer) = 1 + Len(list)
        /\ \A i \in 1 .. 1 + Len(list) : longer[i] = IF i <= 1 THEN <<o>>[i] ELSE list[i - 1]
    BY <2>2, ConcatProperties
  <2> HIDE DEF longer
  <2>4. /\ Len(list) \in Nat /\ DOMAIN list = 1 .. Len(list)
        /\ DOMAIN longer = 1 .. 1 + Len(list)
    BY <2>3, LenProperties
  <2>5. longer[1] = o /\ 1 \in DOMAIN longer
    BY <2>2, <2>3, <2>4
  <2>6. \A i \in DOMAIN longer : i # 1 => i - 1 \in DOMAIN list /\ longer[i] = list[i - 1]
    BY <2>3, <2>4
  <2>7. \A i \in DOMAIN list : i + 1 \in DOMAIN longer /\ longer[i + 1] = list[i]
    BY <2>3, <2>4
  <2>8. \A i \in DOMAIN list : list[i] # o
    BY <1>2 DEF ToSet
  <2>9. Distinct(longer)
    <3>1. \A i, j \in DOMAIN longer : i - 1 = j - 1 => i = j
      BY <2>4
    <3> QED
      BY <2>5, <2>6, <2>8, <3>1 DEF Distinct
  <2>10. ToSet(longer) = ToSet(list) \cup {o}
    <3>1. ToSet(longer) \subseteq ToSet(list) \cup {o}
      BY <2>5, <2>6 DEF ToSet
    <3>2. ToSet(list) \cup {o} \subseteq ToSet(longer)
      BY <2>5, <2>7 DEF ToSet
    <3> QED
      BY <3>1, <3>2
  <2> QED
    BY <2>1, <2>3, <2>9, <2>10
<1> QED
  BY <1>1, <1>2

-----------------------------------------------------------------------------
(* Each object is linked, and each declaration attached, unless a          *)
(* constructor, or the walk through the section, has still to do so.       *)
ListsOK ==
    /\ tests \in Seq(DOMAIN Cases) /\ Distinct(tests)
    /\ suites \in Seq(DOMAIN Suites) /\ Distinct(suites)
    /\ groups \in Seq(DOMAIN Groups) /\ Distinct(groups)

Declared == Constructors(Suites) \cup Constructors(Groups)

CasesOK ==
    /\ pending \subseteq Declared \cup {<<o, "case">> : o \in DOMAIN Cases}
    /\ walk \subseteq InSection
    /\ collected \/ walk # {} => pending = {}
    /\ \A o \in (DOMAIN Cases) \ InSection : <<o, "case">> \in pending \/ o \in ToSet(tests)
    /\ walk # {} => \A o \in InSection : o \in walk \/ o \in ToSet(tests)
    /\ collected => InSection \subseteq ToSet(tests)

FixturesOK ==
    /\ attached \subseteq Declared
    /\ Declared \subseteq pending \cup attached
    /\ \A o \in DOMAIN Suites : <<o, "define">> \in pending \/ o \in ToSet(suites)
    /\ \A o \in DOMAIN Groups : <<o, "define">> \in pending \/ o \in ToSet(groups)

RegistryInv == ListsOK /\ CasesOK /\ FixturesOK

(* The steps that link a case.                                             *)
LEMMA CaseSteps ==
    ASSUME RegistryInv, NEW o \in DOMAIN Cases, Register(o) \/ CollectCase(o)
    PROVE  RegistryInv'
<1>1. /\ tests' = Link(tests, o)
      /\ UNCHANGED <<suites, groups, attached, section>>
  BY DEF Register, CollectCase
<1>2. /\ tests' \in Seq(DOMAIN Cases) /\ Distinct(tests')
      /\ ToSet(tests') = ToSet(tests) \cup {o}
  BY <1>1, LinkKeeps DEF RegistryInv, ListsOK
<1>3. ListsOK'
  BY <1>1, <1>2 DEF RegistryInv, ListsOK, Distinct
<1>4. InSection' = InSection
  BY <1>1 DEF InSection
<1>5. CASE Register(o)
  <2>1. /\ pending' = pending \ {<<o, "case">>} /\ <<o, "case">> \in pending
        /\ UNCHANGED <<walk, collected>>
    BY <1>5 DEF Register
  <2>2. CasesOK'
    BY <1>2, <1>4, <2>1 DEF RegistryInv, CasesOK
  <2>3. FixturesOK'
    <3>1. \A c \in Declared : c # <<o, "case">>
      BY DEF Declared, Constructors
    <3>2. \A p : <<p, "define">> # <<o, "case">>
      OBVIOUS
    <3> QED
      BY <1>1, <2>1, <3>1, <3>2 DEF RegistryInv, FixturesOK
  <2> QED
    BY <1>3, <2>2, <2>3 DEF RegistryInv
<1>6. CASE CollectCase(o)
  <2>1. /\ o \in walk /\ walk' = walk \ {o} /\ pending' = pending
        /\ collected' = (collected \/ walk' = {})
    BY <1>6 DEF CollectCase
  <2>2. CasesOK'
    BY <1>2, <1>4, <2>1 DEF RegistryInv, CasesOK
  <2>3. FixturesOK'
    BY <1>1, <2>1 DEF RegistryInv, FixturesOK
  <2> QED
    BY <1>3, <2>2, <2>3 DEF RegistryInv
<1> QED
  BY <1>5, <1>6

(* The steps that link, or link again, a suite or a group.                 *)
LEMMA FixtureSteps ==
    ASSUME RegistryInv, NEW o, NEW field,
           \/ o \in DOMAIN Suites /\ RegisterSuite(o, field)
           \/ o \in DOMAIN Groups /\ RegisterGroup(o, field),
           field \in {"define", "teardown", "tags"}
    PROVE  RegistryInv'
<1>1. /\ <<o, field>> \in pending /\ pending' = pending \ {<<o, field>>}
      /\ attached' = attached \cup {<<o, field>>}
      /\ UNCHANGED <<tests, section, walk, collected>>
  BY DEF RegisterSuite, RegisterGroup
<1>2. <<o, field>> \in Declared
  <2>1. \A p : <<o, field>> # <<p, "case">>
    OBVIOUS
  <2> QED
    BY <1>1, <2>1 DEF RegistryInv, CasesOK
<1>3. /\ suites' \in Seq(DOMAIN Suites) /\ Distinct(suites') /\ ToSet(suites) \subseteq ToSet(suites')
      /\ groups' \in Seq(DOMAIN Groups) /\ Distinct(groups') /\ ToSet(groups) \subseteq ToSet(groups')
      /\ o \in DOMAIN Suites => o \in ToSet(suites')
      /\ o \in DOMAIN Groups => o \in ToSet(groups')
  <2>1. CASE o \in DOMAIN Suites /\ RegisterSuite(o, field)
    <3>1. suites' = Link(suites, o) /\ groups' = groups /\ o \notin DOMAIN Groups
      BY <2>1, BinaryAssumption DEF RegisterSuite
    <3> QED
      BY <2>1, <3>1, LinkKeeps DEF RegistryInv, ListsOK
  <2>2. CASE o \in DOMAIN Groups /\ RegisterGroup(o, field)
    <3>1. groups' = Link(groups, o) /\ suites' = suites /\ o \notin DOMAIN Suites
      BY <2>2, BinaryAssumption DEF RegisterGroup
    <3> QED
      BY <2>2, <3>1, LinkKeeps DEF RegistryInv, ListsOK
  <2> QED
    BY <2>1, <2>2
<1>4. ListsOK'
  BY <1>1, <1>3 DEF RegistryInv, ListsOK, Distinct
<1>5. CasesOK'
  <2>1. InSection' = InSection /\ \A p : <<p, "case">> # <<o, field>>
    BY <1>1 DEF InSection
  <2> QED
    BY <1>1, <2>1 DEF RegistryInv, CasesOK
<1>6. FixturesOK'
  <2>1. Declared' = Declared
    BY DEF Declared, Constructors
  <2>2. \A p : <<p, "define">> = <<o, field>> => p = o
    OBVIOUS
  <2> QED
    BY <1>1, <1>2, <1>3, <2>1, <2>2 DEF RegistryInv, FixturesOK
<1> QED
  BY <1>4, <1>5, <1>6 DEF RegistryInv

(* The registries of a binary, at every moment of its start and of every   *)
(* run: nothing is lost that a constructor has linked or attached.         *)
THEOREM RegistryInvariance == Spec => []RegistryInv
<1>1. ASSUME Init PROVE RegistryInv
  <2>1. \A S : <<>> \in Seq(S)
    BY EmptySeq
  <2>2. Distinct(<<>>) /\ ToSet(<<>>) = {}
    BY DEF Distinct, ToSet
  <2>3. ListsOK
    BY <1>1, <2>1, <2>2 DEF Init, ListsOK
  <2>4. CasesOK
    BY <1>1 DEF Init, CasesOK, Declared
  <2>5. FixturesOK
    <3>1. \A o \in DOMAIN Suites : <<o, "define">> \in Constructors(Suites)
      BY DEF Constructors
    <3>2. \A o \in DOMAIN Groups : <<o, "define">> \in Constructors(Groups)
      BY DEF Constructors
    <3> QED
      BY <1>1, <3>1, <3>2 DEF Init, FixturesOK, Declared
  <2> QED
    BY <2>3, <2>4, <2>5 DEF RegistryInv
<1>2. ASSUME RegistryInv, [Next]_vars PROVE RegistryInv'
  <2>1. CASE UNCHANGED vars
    <3>1. InSection' = InSection
      BY <2>1 DEF InSection, vars
    <3> QED
      BY <1>2, <2>1, <3>1
         DEF vars, lists, RegistryInv, ListsOK, CasesOK, FixturesOK, Distinct, ToSet
  <2>2. CASE Collect
    <3>1. InSection' = InSection /\ Declared' = Declared
      BY <2>2 DEF InSection, Collect, Declared, Constructors
    <3>2. ListsOK'
      BY <1>2, <2>2 DEF Collect, lists, RegistryInv, ListsOK, Distinct
    <3>3. CasesOK'
      BY <1>2, <2>2, <3>1 DEF Collect, lists, RegistryInv, CasesOK, ToSet
    <3>4. FixturesOK'
      BY <1>2, <2>2, <3>1 DEF Collect, lists, RegistryInv, FixturesOK, ToSet
    <3> QED
      BY <3>2, <3>3, <3>4 DEF RegistryInv
  <2> QED
    BY <1>2, <2>1, <2>2, CaseSteps, FixtureSteps DEF Next
<1> QED
  BY <1>1, <1>2, PTL DEF Spec

(* The lists of cases, suites and groups never hold an object twice,       *)
(* however often its macros and the walks through the section link it.     *)
THEOREM ListsStayLists == Spec => []ListsAreAcyclic
<1>1. RegistryInv => ListsAreAcyclic
  BY DEF RegistryInv, ListsOK, Distinct, ListsAreAcyclic, IsInjective
<1> QED
  BY RegistryInvariance, <1>1, PTL

-----------------------------------------------------------------------------
(* Once everything is collected: the lists hold all the objects, with all  *)
(* that was declared for them.                                             *)
Complete ==
    /\ tests \in Seq(DOMAIN Cases) /\ Distinct(tests) /\ ToSet(tests) = DOMAIN Cases
    /\ suites \in Seq(DOMAIN Suites) /\ Distinct(suites) /\ ToSet(suites) = DOMAIN Suites
    /\ groups \in Seq(DOMAIN Groups) /\ Distinct(groups) /\ ToSet(groups) = DOMAIN Groups
    /\ attached = Declared

LEMMA CollectedIsComplete == RegistryInv /\ collected => Complete
<1> SUFFICES ASSUME RegistryInv, collected PROVE Complete
  OBVIOUS
<1>1. \A S : \A s \in Seq(S) : ToSet(s) \subseteq S
  BY DEF ToSet
<1>2. pending = {}
  BY DEF RegistryInv, CasesOK
<1>3. DOMAIN Cases \subseteq ToSet(tests)
  BY <1>2 DEF RegistryInv, CasesOK
<1>4. DOMAIN Suites \subseteq ToSet(suites) /\ DOMAIN Groups \subseteq ToSet(groups)
  BY <1>2 DEF RegistryInv, FixturesOK
<1>5. attached = Declared
  BY <1>2 DEF RegistryInv, FixturesOK
<1>6. ListsOK
  BY DEF RegistryInv
<1>7. /\ ToSet(tests) \subseteq DOMAIN Cases
      /\ ToSet(suites) \subseteq DOMAIN Suites
      /\ ToSet(groups) \subseteq DOMAIN Groups
  BY <1>1, <1>6 DEF ListsOK
<1> QED
  BY <1>3, <1>4, <1>5, <1>6, <1>7 DEF Complete, ListsOK

(* What is declared for a suite or a group is what the lists show of it.   *)
LEMMA FieldsArrive ==
    ASSUME attached = Declared
    PROVE  /\ \A o \in DOMAIN Suites : Field(Suites, o) = Suites[o]
           /\ \A o \in DOMAIN Groups : Field(Groups, o) = Groups[o]
<1>1. ASSUME NEW o \in DOMAIN Suites PROVE Field(Suites, o) = Suites[o]
  <2>1. /\ Suites[o] \in [name : Name, setup : BOOLEAN, teardown : BOOLEAN, tags : SUBSET Name]
        /\ o \notin DOMAIN Groups
    BY <1>1, BinaryAssumption
  <2>2. <<o, "tags">> \in attached <=> Suites[o].tags # {}
    BY <1>1, <2>1 DEF Declared, Constructors
  <2>3. <<o, "teardown">> \in attached <=> Suites[o].teardown
    BY <1>1, <2>1 DEF Declared, Constructors
  <2>4. (<<o, "teardown">> \in attached) = Suites[o].teardown
    BY <2>1, <2>3
  <2> QED
    BY <2>1, <2>2, <2>4 DEF Field
<1>2. ASSUME NEW o \in DOMAIN Groups PROVE Field(Groups, o) = Groups[o]
  <2>1. /\ Groups[o] \in [suite : Name, name : Name, setup : BOOLEAN, teardown : BOOLEAN,
                          tags : SUBSET Name]
        /\ o \notin DOMAIN Suites
    BY <1>2, BinaryAssumption
  <2>2. <<o, "tags">> \in attached <=> Groups[o].tags # {}
    BY <1>2, <2>1 DEF Declared, Constructors
  <2>3. <<o, "teardown">> \in attached <=> Groups[o].teardown
    BY <1>2, <2>1 DEF Declared, Constructors
  <2>4. (<<o, "teardown">> \in attached) = Groups[o].teardown
    BY <2>1, <2>3
  <2> QED
    BY <2>1, <2>2, <2>4 DEF Field
<1> QED
  BY <1>1, <1>2

(* The one element that passes a test is the one that is found.            *)
LEMMA OnlyOneFound ==
    ASSUME NEW I, NEW k \in Nat, k \in I, \A i \in I : i = k
    PROVE  I # {} /\ Min(I) = k
<1>1. k =< k
  OBVIOUS
<1>2. \E x \in I : \A y \in I : x =< y
  BY <1>1
<1>3. Min(I) \in I
  BY <1>2, Zenon DEF Min
<1> QED
  BY <1>3

(* find_suite finds the suite of a name, if there is one.                  *)
LEMMA SuiteFound ==
    ASSUME Complete, DistinctFixtures, NEW name
    PROVE  /\ (\A s \in DOMAIN Suites : Suites[s].name # name) => FindSuite(SuiteList, name) = 0
           /\ \A s \in DOMAIN Suites :
                 Suites[s].name = name =>
                    /\ FindSuite(SuiteList, name) \in Nat \ {0}
                    /\ SuiteList[FindSuite(SuiteList, name)] = Suites[s]
<1> DEFINE I == {i \in 1 .. Len(SuiteList) : SuiteList[i].name = name}
<1>1. FindSuite(SuiteList, name) = IF I # {} THEN Min(I) ELSE 0
  BY DEF FindSuite, SelectInSeq
<1>2. /\ DOMAIN suites = 1 .. Len(suites) /\ Len(suites) \in Nat
      /\ \A i \in DOMAIN suites : suites[i] \in DOMAIN Suites
  BY LenProperties, ElementOfSeq DEF Complete
<1>3. \A i \in DOMAIN suites : SuiteList[i] = Suites[suites[i]]
  BY <1>2, FieldsArrive DEF SuiteList, Complete
<1>4. Len(SuiteList) = Len(suites)
  BY <1>2 DEF SuiteList
<1>5. \A s \in DOMAIN Suites : \E i \in DOMAIN suites : suites[i] = s
  BY DEF Complete, ToSet
<1> HIDE DEF I
<1>6. I = {i \in DOMAIN suites : Suites[suites[i]].name = name}
  BY <1>2, <1>3, <1>4 DEF I
<1>7. ASSUME \A s \in DOMAIN Suites : Suites[s].name # name PROVE I = {}
  BY <1>2, <1>6, <1>7
<1>8. ASSUME NEW s \in DOMAIN Suites, Suites[s].name = name
      PROVE  Min(I) \in DOMAIN suites /\ suites[Min(I)] = s /\ I # {}
  <2>1. PICK least \in DOMAIN suites : suites[least] = s
    BY <1>5, <1>8
  <2> QED
    <3>1. least \in I /\ least \in Nat
      BY <1>2, <1>6, <1>8, <2>1
    <3>2. \A i \in I : i = least
      BY <1>2, <1>6, <1>8, <2>1 DEF DistinctFixtures, Complete, Distinct
    <3>3. I # {} /\ Min(I) = least
      BY <3>1, <3>2, OnlyOneFound
    <3> QED
      BY <2>1, <3>3
<1> QED
  BY <1>1, <1>2, <1>3, <1>7, <1>8

(* find_group finds the group of a suite and a name, if there is one.      *)
LEMMA GroupFound ==
    ASSUME Complete, DistinctFixtures, NEW suite, NEW name
    PROVE  /\ (\A g \in DOMAIN Groups : ~(Groups[g].suite = suite /\ Groups[g].name = name))
                 => FindGroup(GroupList, suite, name) = 0
           /\ \A g \in DOMAIN Groups :
                 Groups[g].suite = suite /\ Groups[g].name = name =>
                    /\ FindGroup(GroupList, suite, name) \in Nat \ {0}
                    /\ GroupList[FindGroup(GroupList, suite, name)] = Groups[g]
<1> DEFINE I == {i \in 1 .. Len(GroupList) :
                    GroupList[i].suite = suite /\ GroupList[i].name = name}
<1>1. FindGroup(GroupList, suite, name) = IF I # {} THEN Min(I) ELSE 0
  BY DEF FindGroup, SelectInSeq
<1>2. /\ DOMAIN groups = 1 .. Len(groups) /\ Len(groups) \in Nat
      /\ \A i \in DOMAIN groups : groups[i] \in DOMAIN Groups
  BY LenProperties, ElementOfSeq DEF Complete
<1>3. \A i \in DOMAIN groups : GroupList[i] = Groups[groups[i]]
  BY <1>2, FieldsArrive DEF GroupList, Complete
<1>4. Len(GroupList) = Len(groups)
  BY <1>2 DEF GroupList
<1>5. \A g \in DOMAIN Groups : \E i \in DOMAIN groups : groups[i] = g
  BY DEF Complete, ToSet
<1> HIDE DEF I
<1>6. I = {i \in DOMAIN groups : Groups[groups[i]].suite = suite /\ Groups[groups[i]].name = name}
  BY <1>2, <1>3, <1>4 DEF I
<1>7. ASSUME \A g \in DOMAIN Groups : ~(Groups[g].suite = suite /\ Groups[g].name = name)
      PROVE  I = {}
  BY <1>2, <1>6, <1>7
<1>8. ASSUME NEW g \in DOMAIN Groups, Groups[g].suite = suite, Groups[g].name = name
      PROVE  Min(I) \in DOMAIN groups /\ groups[Min(I)] = g /\ I # {}
  <2>1. PICK least \in DOMAIN groups : groups[least] = g
    BY <1>5, <1>8
  <2>2. least \in I /\ least \in Nat
    BY <1>2, <1>6, <1>8, <2>1
  <2>3. \A i \in I : i = least
    BY <1>2, <1>6, <1>8, <2>1 DEF DistinctFixtures, Complete, Distinct
  <2>4. I # {} /\ Min(I) = least
    BY <2>2, <2>3, OnlyOneFound
  <2> QED
    BY <2>1, <2>4
<1> QED
  BY <1>1, <1>2, <1>3, <1>7, <1>8

(* The tags a case inherits are those declared for the suite, and for the  *)
(* group, that its macro names.                                            *)
LEMMA TagsArrive ==
    ASSUME Complete, DistinctFixtures, NEW suite, NEW name, NEW tag
    PROVE  /\ tag \in TagsAt(SuiteList, FindSuite(SuiteList, suite))
                <=> \E s \in DOMAIN Suites : Suites[s].name = suite /\ tag \in Suites[s].tags
           /\ tag \in TagsAt(GroupList, FindGroup(GroupList, suite, name))
                <=> \E g \in DOMAIN Groups :
                        /\ Groups[g].suite = suite /\ Groups[g].name = name
                        /\ tag \in Groups[g].tags
<1>1. ASSUME NEW s \in DOMAIN Suites, Suites[s].name = suite
      PROVE  /\ TagsAt(SuiteList, FindSuite(SuiteList, suite)) = Suites[s].tags
             /\ \A p \in DOMAIN Suites : Suites[p].name = suite => p = s
  BY <1>1, SuiteFound DEF TagsAt, DistinctFixtures
<1>2. ASSUME NEW g \in DOMAIN Groups, Groups[g].suite = suite, Groups[g].name = name
      PROVE  /\ TagsAt(GroupList, FindGroup(GroupList, suite, name)) = Groups[g].tags
             /\ \A p \in DOMAIN Groups :
                   Groups[p].suite = suite /\ Groups[p].name = name => p = g
  BY <1>2, GroupFound DEF TagsAt, DistinctFixtures
<1>3. (\A s \in DOMAIN Suites : Suites[s].name # suite)
         => TagsAt(SuiteList, FindSuite(SuiteList, suite)) = {}
  BY SuiteFound DEF TagsAt
<1>4. (\A g \in DOMAIN Groups : ~(Groups[g].suite = suite /\ Groups[g].name = name))
         => TagsAt(GroupList, FindGroup(GroupList, suite, name)) = {}
  BY GroupFound DEF TagsAt
<1>5. tag \in TagsAt(SuiteList, FindSuite(SuiteList, suite))
         <=> \E s \in DOMAIN Suites : Suites[s].name = suite /\ tag \in Suites[s].tags
  BY <1>1, <1>3
<1> QED
  BY <1>2, <1>4, <1>5

(* In a binary in which no two suites, and no two groups of a suite, share *)
(* a name, every case gets exactly the tags and the fixtures declared for  *)
(* it, whatever the order of the constructors.                             *)
THEOREM DeclarationsArrive ==
    ASSUME DistinctFixtures PROVE Spec => []DeclarationsReachCases
<1>1. RegistryInv => DeclarationsReachCases
  <2> SUFFICES ASSUME Complete, NEW o \in DOMAIN Cases
               PROVE
        LET t == Cases[o]
            mine == {s \in DOMAIN Suites : Suites[s].name = t.suite}
            ours == {g \in DOMAIN Groups :
                        Groups[g].suite = t.suite /\ Groups[g].name = t.group}
            s == FindSuite(SuiteList, t.suite)
            g == FindGroup(GroupList, t.suite, t.group)
        IN  /\ \A filter \in Filters :
                  CaseMatchesTag(SuiteList, GroupList, t, filter.tag)
                    <=> filter.tag \in t.tags \cup (UNION {Suites[m].tags : m \in mine})
                                        \cup (UNION {Groups[m].tags : m \in ours})
            /\ \A m \in mine : SuiteList[s] = Suites[m]
            /\ \A m \in ours : GroupList[g] = Groups[m]
            /\ ours = {} => g = 0
    BY CollectedIsComplete DEF DeclarationsReachCases
  <2> DEFINE t == Cases[o]
             mine == {s \in DOMAIN Suites : Suites[s].name = t.suite}
             ours == {g \in DOMAIN Groups : Groups[g].suite = t.suite /\ Groups[g].name = t.group}
             s == FindSuite(SuiteList, t.suite)
             g == FindGroup(GroupList, t.suite, t.group)
  <2> HIDE DEF t
  <2>1. \A m \in mine : SuiteList[s] = Suites[m]
    BY SuiteFound
  <2>2. (\A m \in ours : GroupList[g] = Groups[m]) /\ (ours = {} => g = 0)
    BY GroupFound
  <2>3. ASSUME NEW filter \in Filters
        PROVE  CaseMatchesTag(SuiteList, GroupList, t, filter.tag)
                 <=> filter.tag \in t.tags \cup (UNION {Suites[m].tags : m \in mine})
                                        \cup (UNION {Groups[m].tags : m \in ours})
    <3> DEFINE tag == filter.tag
    <3> HIDE DEF tag
    <3>1. tag \in TagsAt(SuiteList, s)
            <=> \E m \in DOMAIN Suites : Suites[m].name = t.suite /\ tag \in Suites[m].tags
      BY TagsArrive
    <3>2. tag \in TagsAt(GroupList, g)
            <=> \E m \in DOMAIN Groups : /\ Groups[m].suite = t.suite /\ Groups[m].name = t.group
                                         /\ tag \in Groups[m].tags
      BY TagsArrive
    <3>3. tag \in UNION {Suites[m].tags : m \in mine}
            <=> \E m \in DOMAIN Suites : Suites[m].name = t.suite /\ tag \in Suites[m].tags
      OBVIOUS
    <3>4. tag \in UNION {Groups[m].tags : m \in ours}
            <=> \E m \in DOMAIN Groups : /\ Groups[m].suite = t.suite /\ Groups[m].name = t.group
                                         /\ tag \in Groups[m].tags
      OBVIOUS
    <3>5. CaseMatchesTag(SuiteList, GroupList, t, tag)
            <=> \/ tag \in t.tags \/ tag \in TagsAt(SuiteList, s) \/ tag \in TagsAt(GroupList, g)
      BY DEF CaseMatchesTag
    <3>6. CaseMatchesTag(SuiteList, GroupList, t, tag)
            <=> \/ tag \in t.tags \/ tag \in UNION {Suites[m].tags : m \in mine}
                \/ tag \in UNION {Groups[m].tags : m \in ours}
      BY <3>1, <3>2, <3>3, <3>4, <3>5, Zenon
    <3> HIDE DEF mine, ours
    <3> QED
      BY <3>6 DEF tag
  <2> QED
    BY <2>1, <2>2, <2>3 DEF t
<1> QED
  BY RegistryInvariance, <1>1, PTL

-----------------------------------------------------------------------------
(* The first two parts of a listed case, one segment each.                 *)
LEMMA PairOfParts ==
    ASSUME NEW s \in Seq(STRING), NEW g \in Seq(STRING), Len(s) = 1, Len(g) = 1
    PROVE  /\ s \o g \in Seq(STRING) /\ Len(s \o g) = 2
           /\ (s \o g)[1] = s[1] /\ (s \o g)[2] = g[1]
<1> DEFINE both == s \o g
<1>1. /\ both \in Seq(STRING) /\ Len(both) = Len(s) + Len(g)
      /\ \A i \in 1 .. Len(s) + Len(g) : both[i] = IF i <= Len(s) THEN s[i] ELSE g[i - Len(s)]
  BY ConcatProperties
<1> HIDE DEF both
<1>2. Len(both) = 2 /\ both[1] = s[1] /\ both[2] = g[1]
  BY <1>1
<1> QED
  BY <1>1, <1>2 DEF both

(* The host reads a listed case by the name it was registered with: only   *)
(* the last of the three parts may contain dots.                           *)
LEMMA ReadsBack ==
    ASSUME ListableNames, NEW o \in DOMAIN Cases
    PROVE  Read(Cases[o]) = [suite |-> Cases[o].suite, group |-> Cases[o].group,
                             name |-> Cases[o].name]
<1> DEFINE s == Cases[o].suite
           g == Cases[o].group
           n == Cases[o].name
<1>1. /\ s \in Seq(STRING) /\ g \in Seq(STRING) /\ n \in Seq(STRING)
      /\ Len(s) = 1 /\ Len(g) = 1 /\ n # <<>>
  BY BinaryAssumption DEF Name, ListableNames, Unset, Null
<1>2. Shown(s) = s /\ Shown(g) = g /\ Shown(n) = n
  BY <1>1 DEF Shown, Null
<1> DEFINE line == (s \o g) \o n
<1>3. Read(Cases[o]) = ParseLine(line)
  BY <1>2 DEF Read, ListLine
<1> HIDE DEF s, g, n
<1>4. /\ s \o g \in Seq(STRING) /\ Len(s \o g) = 2
      /\ (s \o g)[1] = s[1] /\ (s \o g)[2] = g[1]
  BY <1>1, PairOfParts
<1>5. /\ line \in Seq(STRING) /\ Len(line) = 2 + Len(n)
      /\ \A i \in 1 .. 2 + Len(n) : line[i] = IF i <= 2 THEN (s \o g)[i] ELSE n[i - 2]
  BY <1>1, <1>4, ConcatProperties
<1> HIDE DEF line
<1>6. Len(n) \in Nat
  BY <1>1, LenProperties
<1>7. line[1] = s[1] /\ line[2] = g[1]
  BY <1>4, <1>5, <1>6
<1>8. <<s[1]>> = s /\ <<g[1]>> = g
  BY <1>1
<1>9. SubSeq(line, 3, Len(line)) = n
  <2>1. \A i \in 3 .. Len(line) : line[i] \in STRING
    BY <1>5, <1>6, ElementOfSeq
  <2>2. /\ SubSeq(line, 3, Len(line)) \in Seq(STRING)
        /\ Len(SubSeq(line, 3, Len(line))) = Len(n)
        /\ \A i \in 1 .. Len(n) : SubSeq(line, 3, Len(line))[i] = line[3 + i - 1]
    BY <1>5, <1>6, <2>1, SubSeqProperties
  <2>3. \A i \in 1 .. Len(n) : line[3 + i - 1] = n[i]
    BY <1>5, <1>6
  <2> QED
    BY <1>1, <2>2, <2>3, SeqEqual
<1> QED
  BY <1>3, <1>7, <1>8, <1>9 DEF ParseLine, s, g, n

(* What each kind of filter selects.                                       *)
LEMMA SelectsByKind ==
    ASSUME NEW L, NEW G, NEW by, NEW t
    PROVE  /\ by.kind = "all" => Selects(L, G, by, t)
           /\ by.kind = "tag" => (Selects(L, G, by, t) <=> CaseMatchesTag(L, G, t, by.tag))
           /\ by.kind = "suite" => (Selects(L, G, by, t) <=> t.suite = by.suite)
           /\ by.kind = "group" =>
                (Selects(L, G, by, t) <=> t.suite = by.suite /\ t.group = by.group)
           /\ by.kind = "case" =>
                (Selects(L, G, by, t)
                    <=> t.suite = by.suite /\ t.group = by.group /\ t.name = by.name)
<1>1. CASE by.kind = "all"
  BY <1>1 DEF Selects
<1>2. CASE by.kind = "tag"
  BY <1>2 DEF Selects
<1>3. CASE by.kind = "suite"
  BY <1>3 DEF Selects
<1>4. CASE by.kind = "group"
  BY <1>4 DEF Selects
<1>5. CASE by.kind = "case"
  BY <1>5 DEF Selects
<1> QED
  BY <1>1, <1>2, <1>3, <1>4, <1>5

(* A child that is given a whole name runs the cases of that name.         *)
LEMMA ChildSelectsByName ==
    ASSUME NEW L, NEW G, NEW case, NEW t,
           ~Unset(case.suite), ~Unset(case.group), ~Unset(case.name)
    PROVE  ChildSelects(L, G, case, t)
             <=> t.suite = case.suite /\ t.group = case.group /\ t.name = case.name
<1> DEFINE env == [suite |-> case.suite, group |-> case.group, case |-> case.name, tag |-> Null]
<1>1. RunFromEnv(env) = [kind |-> "case", suite |-> case.suite, group |-> case.group,
                         name |-> case.name]
  BY DEF RunFromEnv
<1> QED
  BY <1>1, SelectsByKind DEF ChildSelects

(* With filters of one kind, discovery lists what a run selects.           *)
LEMMA ListedIsSelected ==
    ASSUME NEW L, NEW G, NEW t, NEW filter \in Filters, OneKind(filter)
    PROVE  /\ Listed(L, G, Env(filter), t) <=> Selects(L, G, RunFromEnv(Env(filter)), t)
           /\ (\A f \in DOMAIN filter : Unset(filter[f])) => Listed(L, G, Env(filter), t)
<1> DEFINE env == Env(filter)
<1>1. /\ env = [tag |-> filter.tag, suite |-> filter.suite, group |-> filter.group, case |-> Null]
      /\ DOMAIN filter = {"tag", "suite", "group"}
      /\ Unset(Null)
  BY BinaryAssumption DEF Env, Unset
<1>2. CASE ~Unset(filter.tag)
  <2>1. Unset(filter.suite) /\ Unset(filter.group)
    BY <1>2 DEF OneKind
  <2>2. RunFromEnv(env) = [kind |-> "tag", tag |-> filter.tag]
    BY <1>1, <1>2, <2>1 DEF RunFromEnv
  <2> QED
    BY <1>1, <1>2, <2>1, <2>2, SelectsByKind DEF Listed
<1>3. CASE Unset(filter.tag) /\ ~Unset(filter.group)
  <2>1. ~Unset(filter.suite)
    BY <1>3 DEF OneKind
  <2>2. RunFromEnv(env) = [kind |-> "group", suite |-> filter.suite, group |-> filter.group]
    BY <1>1, <1>3, <2>1 DEF RunFromEnv
  <2> QED
    BY <1>1, <1>3, <2>1, <2>2, SelectsByKind DEF Listed
<1>4. CASE Unset(filter.tag) /\ Unset(filter.group) /\ ~Unset(filter.suite)
  <2>1. RunFromEnv(env) = [kind |-> "suite", suite |-> filter.suite]
    BY <1>1, <1>4 DEF RunFromEnv
  <2> QED
    BY <1>1, <1>4, <2>1, SelectsByKind DEF Listed
<1>5. CASE Unset(filter.tag) /\ Unset(filter.group) /\ Unset(filter.suite)
  <2>1. RunFromEnv(env) = [kind |-> "all"]
    BY <1>1, <1>5 DEF RunFromEnv
  <2> QED
    BY <1>1, <1>5, <2>1, SelectsByKind DEF Listed
<1> QED
  BY <1>2, <1>3, <1>4, <1>5

(* In a binary in which no two cases share a name and every name can be    *)
(* listed, and with a filter of one kind, the children of an isolated run  *)
(* execute every case exactly as often as a plain run does.                *)
THEOREM IsolationKeepsCases ==
    ASSUME DistinctCases, ListableNames, \A filter \in Filters : OneKind(filter)
    PROVE  Spec => []IsolationRunsTheSameCases
<1>1. ASSUME Complete, NEW filter \in Filters, NEW o \in DOMAIN Cases
      PROVE  /\ IsolatedRuns(filter, Cases[o]) = InProcessRuns(filter, Cases[o])
             /\ (\A f \in DOMAIN filter : Unset(filter[f])) => IsolatedRuns(filter, Cases[o]) = 1
  <2>1. PICK k \in DOMAIN tests : tests[k] = o
    BY <1>1 DEF Complete, ToSet
  <2>2. \A j \in DOMAIN tests : tests[j] \in DOMAIN Cases /\ CaseList[j] = Cases[tests[j]]
    BY <1>1, ElementOfSeq, LenProperties DEF Complete, CaseList
  <2>3. ASSUME NEW j \in DOMAIN tests
        PROVE  ChildSelects(SuiteList, GroupList, Read(CaseList[j]), Cases[o]) <=> j = k
    <3> DEFINE case == Read(Cases[tests[j]])
    <3>1. /\ case.suite = Cases[tests[j]].suite
          /\ case.group = Cases[tests[j]].group
          /\ case.name = Cases[tests[j]].name
      BY <2>2, ReadsBack
    <3>2. ~Unset(case.suite) /\ ~Unset(case.group) /\ ~Unset(case.name)
      BY <2>2, <3>1 DEF ListableNames
    <3> HIDE DEF case
    <3>3. ChildSelects(SuiteList, GroupList, case, Cases[o])
             <=> /\ Cases[o].suite = case.suite
                 /\ Cases[o].group = case.group
                 /\ Cases[o].name = case.name
      BY <3>2, ChildSelectsByName
    <3>4. ChildSelects(SuiteList, GroupList, case, Cases[o]) <=> tests[j] = o
      BY <2>2, <3>1, <3>3 DEF DistinctCases
    <3>5. tests[j] = o <=> j = k
      BY <1>1, <2>1 DEF Complete, Distinct
    <3> QED
      BY <2>2, <3>4, <3>5 DEF case
  <2> DEFINE listed == Listed(SuiteList, GroupList, Env(filter), Cases[o])
  <2>4. IsolatedRuns(filter, Cases[o]) = IF listed THEN 1 ELSE 0
    <3> DEFINE hits == {j \in DOMAIN tests :
                          /\ Listed(SuiteList, GroupList, Env(filter), CaseList[j])
                          /\ ChildSelects(SuiteList, GroupList, Read(CaseList[j]), Cases[o])}
    <3>1. hits = {j \in {k} : Listed(SuiteList, GroupList, Env(filter), CaseList[j])}
      BY <2>3
    <3>2. CaseList[k] = Cases[o]
      BY <2>1, <2>2
    <3>3. hits = IF listed THEN {k} ELSE {}
      BY <3>1, <3>2
    <3> HIDE DEF hits, listed
    <3>4. Cardinality(hits) = IF listed THEN 1 ELSE 0
      BY <3>3, FS_Singleton, FS_EmptySet
    <3> QED
      BY <3>4 DEF hits, IsolatedRuns
  <2>5. listed <=> Selects(SuiteList, GroupList, RunFromEnv(Env(filter)), Cases[o])
    BY ListedIsSelected
  <2>6. (\A f \in DOMAIN filter : Unset(filter[f])) => listed
    BY ListedIsSelected
  <2> QED
    BY <2>4, <2>5, <2>6 DEF InProcessRuns
<1>2. Complete => IsolationRunsTheSameCases
  BY <1>1 DEF IsolationRunsTheSameCases
<1>3. RegistryInv => IsolationRunsTheSameCases
  BY <1>2, CollectedIsComplete DEF IsolationRunsTheSameCases
<1> QED
  BY RegistryInvariance, <1>3, PTL

=============================================================================
