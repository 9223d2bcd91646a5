------------------------------ MODULE Discovery ------------------------------
(***************************************************************************)
(* Registration and discovery.  The macros of polytest.h define static     *)
(* objects and constructors; a constructor attaches a fixture or tags to   *)
(* its object and links the object, in an order the linker chose.  Then    *)
(* main runs, the section of cases is collected if the build has one, and  *)
(* the host asks: which cases are there for this filter, and which cases   *)
(* will the children spawned for them run?                                 *)
(***************************************************************************)
EXTENDS Selection, Naturals, FiniteSets

CONSTANTS Cases,    \* pot_case_t objects -> [suite, group, name, tags, macro]
          Suites,   \* pot_suite_t objects -> [name, setup, teardown, tags], as declared
          Groups,   \* pot_group_t objects -> [suite, name, setup, teardown, tags]
          Filters   \* the [tag, suite, group] filters the host may be given

Name == Seq(STRING)

ASSUME BinaryAssumption ==
    /\ \A o \in DOMAIN Cases :
          Cases[o] \in [suite : Name, group : Name, name : Name, tags : SUBSET Name,
                        macro : {"POT_TEST", "POT_TEST_TAGS", "pot_register_heap_case"}]
    /\ \A o \in DOMAIN Suites :
          Suites[o] \in [name : Name, setup : BOOLEAN, teardown : BOOLEAN, tags : SUBSET Name]
    /\ \A o \in DOMAIN Groups :
          Groups[o] \in [suite : Name, name : Name, setup : BOOLEAN, teardown : BOOLEAN,
                         tags : SUBSET Name]
    /\ (DOMAIN Suites) \cap (DOMAIN Groups) = {}      \* objects, told apart by address
    /\ \A f \in Filters : f \in [tag : Name, suite : Name, group : Name]

VARIABLES tests, suites, groups, \* g_tests, g_suites, g_groups: objects, head first
          attached,              \* <<object, field>>: what constructors have assigned
          pending,               \* constructors that have not run yet
          section,               \* the build has POT_USE_SECTION_REGISTRY
          walk,                  \* objects pot_collect_section_cases has still to pass
          collected              \* it has passed the whole section at least once
lists == <<tests, suites, groups>>
vars == <<lists, attached, pending, section, walk, collected>>

(* A suite is defined by POT_SUITE or POT_SUITE_SETUP, a group by          *)
(* POT_GROUP_SETUP, a case by its own macro: "define".  _TEARDOWN and      *)
(* _TAGS have constructors of their own.  POT_TEST has none in a section   *)
(* build.                                                                  *)
Constructors(objects) ==
    {<<o, "define">> : o \in DOMAIN objects}
        \cup {<<o, "teardown">> : o \in {p \in DOMAIN objects : objects[p].teardown}}
        \cup {<<o, "tags">> : o \in {p \in DOMAIN objects : objects[p].tags # {}}}

InSection == {o \in DOMAIN Cases : section /\ Cases[o].macro = "POT_TEST"}

Init ==
    /\ tests = <<>> /\ suites = <<>> /\ groups = <<>>
    /\ attached = {} /\ walk = {} /\ collected = FALSE
    /\ section \in BOOLEAN
    /\ pending = Constructors(Suites) \cup Constructors(Groups)
                    \cup {<<o, "case">> : o \in (DOMAIN Cases) \ InSection}

(* Mistake: an object that is linked already is linked again.              *)
Link_Again(list, o) == IF Len(list) < 3 THEN <<o>> \o list ELSE list

(* pot_register_suite, pot_register_group, pot_register: prepend, unless   *)
(* this very object is linked already.                                     *)
Link(list, o) == IF o \in ToSet(list) THEN list ELSE <<o>> \o list

(* pot_register, from the constructor of a case.  pot_register_heap_case,  *)
(* which user code calls, allocates the object; it runs like one.          *)
Register(o) ==
    /\ <<o, "case">> \in pending
    /\ pending' = pending \ {<<o, "case">>}
    /\ tests' = Link(tests, o)
    /\ UNCHANGED <<suites, groups, attached, section, walk, collected>>

RegisterSuite(o, field) ==
    /\ <<o, field>> \in pending
    /\ pending' = pending \ {<<o, field>>}
    /\ attached' = attached \cup {<<o, field>>}
    /\ suites' = Link(suites, o)
    /\ UNCHANGED <<tests, groups, section, walk, collected>>

RegisterGroup(o, field) ==
    /\ <<o, field>> \in pending
    /\ pending' = pending \ {<<o, field>>}
    /\ attached' = attached \cup {<<o, field>>}
    /\ groups' = Link(groups, o)
    /\ UNCHANGED <<tests, suites, section, walk, collected>>

(* pot_collect_section_cases: every run and every listing walks the        *)
(* section, whose objects lie there in some order.                         *)
Collect ==
    /\ pending = {} /\ walk = {}
    /\ walk' = InSection
    /\ collected' = (collected \/ InSection = {})
    /\ UNCHANGED <<lists, attached, pending, section>>

CollectCase(o) ==
    /\ o \in walk
    /\ walk' = walk \ {o}
    /\ tests' = Link(tests, o)
    /\ collected' = (collected \/ walk' = {})
    /\ UNCHANGED <<suites, groups, attached, pending, section>>

Next ==
    \/ \E o \in DOMAIN Cases : Register(o)
    \/ \E o \in DOMAIN Suites, field \in {"define", "teardown", "tags"} : RegisterSuite(o, field)
    \/ \E o \in DOMAIN Groups, field \in {"define", "teardown", "tags"} : RegisterGroup(o, field)
    \/ Collect
    \/ \E o \in DOMAIN Cases : CollectCase(o)

Spec == Init /\ [][Next]_vars

-----------------------------------------------------------------------------
(* The contents of the objects, as the lists hold them.                    *)
Field(objects, o) ==
    [objects[o] EXCEPT !.tags = IF <<o, "tags">> \in attached THEN @ ELSE {},
                       !.teardown = <<o, "teardown">> \in attached]

SuiteList == [k \in DOMAIN suites |-> Field(Suites, suites[k])]
GroupList == [k \in DOMAIN groups |-> Field(Groups, groups[k])]
CaseList  == [k \in DOMAIN tests |-> Cases[tests[k]]]

Env(filter) == [tag |-> filter.tag, suite |-> filter.suite, group |-> filter.group,
                case |-> Null]

(* How often the isolated run executes descriptor t: once per listed case  *)
(* whose child selects it.                                                 *)
IsolatedRuns(filter, t) ==
    Cardinality({k \in DOMAIN tests :
        /\ Listed(SuiteList, GroupList, Env(filter), CaseList[k])
        /\ ChildSelects(SuiteList, GroupList, Read(CaseList[k]), t)})

InProcessRuns(filter, t) ==
    IF Selects(SuiteList, GroupList, RunFromEnv(Env(filter)), t) THEN 1 ELSE 0

(* Binaries in which every name denotes one object, whose cases have names *)
(* that survive the listing, and filters of one kind.                      *)
DistinctCases ==
    \A o, p \in DOMAIN Cases :
        /\ Cases[o].suite = Cases[p].suite
        /\ Cases[o].group = Cases[p].group
        /\ Cases[o].name = Cases[p].name
        => o = p

DistinctFixtures ==
    /\ \A o, p \in DOMAIN Suites : Suites[o].name = Suites[p].name => o = p
    /\ \A o, p \in DOMAIN Groups :
          (Groups[o].suite = Groups[p].suite /\ Groups[o].name = Groups[p].name) => o = p

ListableNames ==
    \A o \in DOMAIN Cases :
        /\ Len(Cases[o].suite) = 1 /\ ~Unset(Cases[o].suite)
        /\ Len(Cases[o].group) = 1 /\ ~Unset(Cases[o].group)
        /\ ~Unset(Cases[o].name)

OneKind(filter) ==
    /\ ~Unset(filter.tag) => Unset(filter.suite)
    /\ ~Unset(filter.group) => ~Unset(filter.suite)

(* The lists stay lists: the macros of a suite link its object up to three *)
(* times, every run collects the section again, and a node linked twice    *)
(* would close a cycle.                                                    *)
ListsAreAcyclic ==
    \A list \in {tests, suites, groups} : IsInjective(list)

(* Isolation changes where a case runs, not whether: every case of the     *)
(* binary, with or without the section registry, runs exactly as often in  *)
(* the children of an isolated run as in the single process of a plain run *)
(* with the same filter, and exactly once when no filter is given.         *)
IsolationRunsTheSameCases ==
    collected =>
        \A filter \in Filters, o \in DOMAIN Cases :
            LET runs == IsolatedRuns(filter, Cases[o])
            IN  /\ runs = InProcessRuns(filter, Cases[o])
                /\ (\A f \in DOMAIN filter : Unset(filter[f])) => runs = 1

(* docs/tags.md: the filters have a priority, tag before suite; a case     *)
(* discovery lists is one that priority selects, and the reverse.          *)
DiscoveryFollowsPriority ==
    collected =>
        \A filter \in Filters, o \in DOMAIN Cases :
            Listed(SuiteList, GroupList, Env(filter), Cases[o])
                <=> Selects(SuiteList, GroupList, RunFromEnv(Env(filter)), Cases[o])

(* docs/tags.md and polytest.h: a case matches a tag if its own macro, its *)
(* group's or its suite's declares it, and its fixtures are those declared *)
(* for its suite and group, in whatever order the constructors attached    *)
(* and linked them.                                                        *)
DeclarationsReachCases ==
    collected =>
        \A o \in DOMAIN Cases :
            LET t == Cases[o]
                mine == {s \in DOMAIN Suites : Suites[s].name = t.suite}
                ours == {g \in DOMAIN Groups :
                            Groups[g].suite = t.suite /\ Groups[g].name = t.group}
                s == FindSuite(SuiteList, t.suite)
                g == FindGroup(GroupList, t.suite, t.group)
            IN  /\ \A filter \in Filters :
                      CaseMatchesTag(SuiteList, GroupList, t, filter.tag)
                        <=> filter.tag \in t.tags \cup (UNION {Suites[m].tags : m \in mine})
                                            \cup (UNION {Groups[m].tags : m \in ours})
                /\ \A m \in mine : SuiteList[s] = Suites[m]
                /\ \A m \in ours : GroupList[g] = Groups[m]
                /\ ours = {} => g = 0

=============================================================================
