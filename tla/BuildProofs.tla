---------------------------- MODULE BuildProofs ----------------------------
(***************************************************************************)
(* For every program and every order of the session's queries: the value   *)
(* store mirrors the runtime's object graph, refers to values only, and    *)
(* call_graph_of collects nothing the entry does not lead to.              *)
(*                                                                         *)
(* For every program: the call graph of a build is exact, every function   *)
(* that generated code refers to is declared, and, when the names of the   *)
(* foreign functions are distinct, the two numberings of functions agree.  *)
(***************************************************************************)
EXTENDS Build, FiniteSetTheorems, TLAPS

-----------------------------------------------------------------------------
(* Sequences used as a stack.                                              *)

\* The range of a sequence holds what stands at its positions.
LEMMA Elements ==
  ASSUME NEW S, NEW s \in Seq(S)
  PROVE  /\ ToSet(s) \subseteq S
         /\ \A j \in 1 .. Len(s) : s[j] \in ToSet(s)
         /\ \A e \in ToSet(s) : \E j \in 1 .. Len(s) : e = s[j]
<1>1. DOMAIN s = 1 .. Len(s)
  OBVIOUS
<1>2. \A j \in 1 .. Len(s) : s[j] \in S
  OBVIOUS
<1>3. QED
  BY <1>1, <1>2, Zenon DEF ToSet

\* A concatenation holds what its parts hold.
LEMMA ConcatRange ==
  ASSUME NEW S, NEW a \in Seq(S), NEW b \in Seq(S)
  PROVE  a \o b \in Seq(S) /\ ToSet(a \o b) = ToSet(a) \cup ToSet(b)
<1>1. /\ a \o b \in Seq(S) /\ Len(a \o b) = Len(a) + Len(b)
      /\ \A j \in 1 .. (Len(a) + Len(b)) :
           (a \o b)[j] = IF j <= Len(a) THEN a[j] ELSE b[j - Len(a)]
  OBVIOUS
<1> DEFINE c == a \o b
<1> HIDE DEF c
<1>2. ASSUME NEW e \in ToSet(c) PROVE e \in ToSet(a) \cup ToSet(b)
  <2>1. PICK j \in 1 .. (Len(a) + Len(b)) : e = c[j]
    BY <1>1, Elements DEF c
  <2>2. CASE j <= Len(a)
    <3>1. j \in 1 .. Len(a) /\ e = a[j]
      BY <1>1, <2>1, <2>2 DEF c
    <3>2. QED
      BY <3>1, Elements
  <2>3. CASE j > Len(a)
    <3>1. j - Len(a) \in 1 .. Len(b) /\ e = b[j - Len(a)]
      BY <1>1, <2>1, <2>3 DEF c
    <3>2. QED
      BY <3>1, Elements
  <2>4. QED
    BY <2>2, <2>3
<1>3. ASSUME NEW e \in ToSet(a) PROVE e \in ToSet(c)
  <2>1. PICK j \in 1 .. Len(a) : e = a[j]
    BY Elements
  <2>2. j \in 1 .. Len(c) /\ c[j] = e
    BY <1>1, <2>1 DEF c
  <2>3. QED
    BY <1>1, <2>2, Elements DEF c
<1>4. ASSUME NEW e \in ToSet(b) PROVE e \in ToSet(c)
  <2>1. PICK j \in 1 .. Len(b) : e = b[j]
    BY Elements
  <2>2. /\ Len(a) + j \in 1 .. Len(c) /\ ~(Len(a) + j <= Len(a))
        /\ (Len(a) + j) - Len(a) = j
    BY <1>1, <2>1 DEF c
  <2>3. c[Len(a) + j] = e
    BY <1>1, <2>1, <2>2 DEF c
  <2>4. QED
    BY <1>1, <2>2, <2>3, Elements DEF c
<1>5. QED
  BY <1>1, <1>2, <1>3, <1>4 DEF c

\* The first elements of a sequence.
LEMMA PrefixFacts ==
  ASSUME NEW S, NEW s \in Seq(S), NEW i \in 1 .. Len(s)
  PROVE  /\ SubSeq(s, 1, i - 1) \in Seq(S)
         /\ Len(SubSeq(s, 1, i - 1)) = i - 1
         /\ \A j \in 1 .. (i - 1) : SubSeq(s, 1, i - 1)[j] = s[j]
OBVIOUS

\* A stack that is not empty is its last element on top of the others.
LEMMA PopRange ==
  ASSUME NEW S, NEW s \in Seq(S), s # << >>
  PROVE  /\ Last(s) \in S /\ Front(s) \in Seq(S)
         /\ ToSet(s) = ToSet(Front(s)) \cup {Last(s)}
<1> DEFINE n == Len(s)
<1>1. n \in Nat \ {0}
  OBVIOUS
<1>2. /\ Front(s) \in Seq(S) /\ Len(Front(s)) = n - 1
      /\ \A j \in 1 .. (n - 1) : Front(s)[j] = s[j]
  <2>1. Front(s) = SubSeq(s, 1, n - 1)
    BY DEF Front
  <2>2. /\ SubSeq(s, 1, n - 1) \in Seq(S) /\ Len(SubSeq(s, 1, n - 1)) = n - 1
        /\ \A j \in 1 .. (n - 1) : SubSeq(s, 1, n - 1)[j] = s[j]
    <3>1. n \in 1 .. Len(s)
      BY <1>1
    <3>2. QED
      BY <3>1, PrefixFacts, Zenon
  <2>3. QED
    BY <2>1, <2>2
<1>3. Last(s) = s[n] /\ Last(s) \in S
  BY <1>1 DEF Last
<1>4. ASSUME NEW e \in ToSet(s) PROVE e \in ToSet(Front(s)) \cup {Last(s)}
  <2>1. PICK j \in 1 .. n : e = s[j]
    BY Elements
  <2>2. CASE j = n
    BY <1>3, <2>1, <2>2
  <2>3. CASE j # n
    <3>1. j \in 1 .. (n - 1)
      BY <1>1, <2>1, <2>3
    <3>2. Front(s)[j] = e
      BY <1>2, <2>1, <3>1
    <3>3. QED
      BY <1>2, <3>1, <3>2, Elements
  <2>4. QED
    BY <2>2, <2>3
<1>5. ASSUME NEW e \in ToSet(Front(s)) PROVE e \in ToSet(s)
  <2>1. PICK j \in 1 .. (n - 1) : e = Front(s)[j]
    BY <1>2, Elements
  <2>2. j \in 1 .. n /\ e = s[j]
    BY <1>1, <1>2, <2>1
  <2>3. QED
    BY <2>2, Elements
<1>6. Last(s) \in ToSet(s)
  BY <1>1, <1>3, Elements
<1>7. QED
  BY <1>2, <1>3, <1>4, <1>5, <1>6

\* An order of a finite set lists its members and nothing else.
LEMMA OrderRange ==
  ASSUME NEW S, IsFiniteSet(S), NEW s \in Orders(S)
  PROVE  s \in Seq(S) /\ ToSet(s) = S
<1>1. Cardinality(S) \in Nat
  BY FS_CardinalityType
<1>2. s \in Seq(S) /\ DOMAIN s = 1 .. Cardinality(S) /\ \A x \in S : \E i \in DOMAIN s : s[i] = x
  BY <1>1 DEF Orders
<1>3. \A i \in DOMAIN s : s[i] \in S
  BY DEF Orders
<1>4. QED
  BY <1>2, <1>3, Zenon DEF ToSet

-----------------------------------------------------------------------------
(* The inductive invariant.                                                *)

Starting == pc \in {"builtins", "bootstrap", "setup", "failed"}

\* Initialization includes its two modules in order, before anything else.
Phases ==
  /\ pc = "builtins" => loaded = {}
  /\ pc = "bootstrap" => loaded = {Builtins}
  /\ pc = "setup" => loaded = {Builtins, Bootstrap}
  /\ loaded = {} \/ Builtins \in loaded
  /\ ~Starting => {Builtins, Bootstrap} \subseteq loaded

\* The runtime holds the things of the modules that are loaded, and the native
\* ones once the session is initialized.
Native(t) == t \in Object /\ prog.owner[t] = Setup
Alive(t) ==
  \/ t \in loaded
  \/ t \in Object /\ prog.owner[t] \in loaded
  \/ Native(t) /\ ~Starting
HeapExact == \A t \in Thing : t \in heap <=> Alive(t)

\* References lead to objects of the runtime; what is not there holds none.
HeldInside == \A t \in Thing : held[t] \subseteq heap /\ (t \notin heap => held[t] = {})

\* Only native objects may still lack a value.
ValuesLag == \A t \in heap : Native(t) \/ t \in values

\* A mirror refers to values, and to nothing that its object does not hold and
\* its code does not use.
UsesOf(t) == IF t \in Object THEN prog.uses[t] ELSE {}
MirrorExact ==
  \A t \in Thing : internal_refs[t] \subseteq values /\ internal_refs[t] \subseteq held[t] \cup UsesOf(t)

\* The loop of call_graph_of works on functions the entry leads to.
LoopInv ==
  pc \in {"loop", "ok"} =>
    /\ Main \in loaded
    /\ entry \in Callable \cap values
    /\ collected_functions \cup ToSet(functions_to_process) \subseteq Reachable \cap Callable \cap values

IInv ==
  /\ TypeOK /\ WellFormed(prog) /\ Phases /\ HeapExact /\ HeldInside /\ ValuesLag
  /\ MirrorExact /\ MirrorComplete /\ LoopInv

USE ModuleAssumption, ObjectAssumption

\* A session that has not started satisfies the invariant.
LEMMA InitInv == Init => IInv
<1>1. SUFFICES ASSUME Init PROVE IInv
  OBVIOUS
<1>2. prog \in ProgramType /\ WellFormed(prog)
  BY <1>1, ProgramAssumption DEF Init
<1>3. TypeOK
  <2>1. entry \in Object
    BY <1>1 DEF Init
  <2>2. dirty \in BOOLEAN
    BY <1>1, Zenon DEF Init
  <2>3. /\ held \in [Thing -> SUBSET Thing] /\ internal_refs \in [Thing -> SUBSET Thing]
        /\ properties \in [Module -> SUBSET Thing]
    BY <1>1 DEF Init
  <2>4. QED
    BY <1>1, <1>2, <2>1, <2>2, <2>3 DEF Init, TypeOK
<1>4. Phases /\ HeapExact
  BY <1>1 DEF Init, Phases, HeapExact, Alive, Starting, Thing
<1>5. HeldInside /\ ValuesLag /\ MirrorExact /\ MirrorComplete /\ LoopInv
  BY <1>1 DEF Init, HeldInside, ValuesLag, MirrorExact, MirrorComplete, LoopInv
<1>6. QED
  BY <1>2, <1>3, <1>4, <1>5 DEF IInv

\* Functions are objects of the runtime, never modules.
LEMMA Disjoint == \A m \in Module : m \in Thing /\ m \notin Object /\ ~Native(m)
BY DEF Thing, Native

\* What the entry leads to is closed under calls and holds the entry.
LEMMA ReachableClosed ==
  ASSUME TypeOK, NEW f \in Reachable
  PROVE  Calls(f) \subseteq Reachable
<1>1. SUFFICES ASSUME NEW g \in Calls(f), NEW S \in SUBSET Object, ClosedUnderCalls(S)
               PROVE  g \in S
  BY DEF Reachable, Calls, Callable
<1>2. f \in S
  BY <1>1 DEF Reachable
<1>3. QED
  BY <1>1, <1>2 DEF ClosedUnderCalls

LEMMA EntryReachable == TypeOK => entry \in Reachable
BY DEF TypeOK, Reachable, ClosedUnderCalls

-----------------------------------------------------------------------------
(* Including a module.                                                     *)

\* The part of the type invariant that the queries on the call graph leave alone.
StoreTypes ==
  /\ prog \in ProgramType
  /\ loaded \subseteq Module
  /\ heap \subseteq Thing
  /\ held \in [Thing -> SUBSET Thing]
  /\ dirty \in BOOLEAN
  /\ values \subseteq heap
  /\ internal_refs \in [Thing -> SUBSET Thing]
  /\ properties \in [Module -> SUBSET Thing]
  /\ cg_flowgraph \subseteq Object

\* What an included module leaves behind: a store that mirrors the runtime.
StoreInv ==
  /\ StoreTypes /\ WellFormed(prog) /\ HeapExact /\ HeldInside /\ ValuesLag
  /\ MirrorExact /\ MirrorComplete

LEMMA IncludeStep ==
  ASSUME IInv, NEW m \in Module, IncludeModule(m),
         m = Builtins \/ Builtins \in loaded,
         Starting' <=> Starting
  PROVE  StoreInv'
<1>1. /\ prog' = prog /\ prog \in ProgramType /\ WellFormed(prog)
      /\ loaded' = loaded \cup {m}
      /\ heap' = heap \cup {m} \cup OwnedBy(m)
      /\ held' = [t \in Thing |-> IF t \in heap' \ heap THEN prog.holds[t] ELSE held[t]]
      /\ values' = heap'
      /\ internal_refs' = [t \in Thing |-> IF t \in heap' THEN held'[t] ELSE internal_refs[t]]
      /\ properties' = [n \in Module |-> IF n \in heap' \ values THEN held'[n] ELSE properties[n]]
      /\ dirty' = FALSE
      /\ cg_flowgraph' = cg_flowgraph
  BY DEF IncludeModule, Eval, Stir, IInv, TypeOK
<1>2. /\ loaded \subseteq Module /\ heap \subseteq Thing /\ held \in [Thing -> SUBSET Thing]
      /\ values \subseteq heap /\ internal_refs \in [Thing -> SUBSET Thing]
      /\ properties \in [Module -> SUBSET Thing] /\ cg_flowgraph \subseteq Object
      /\ HeapExact /\ HeldInside /\ MirrorExact
  BY DEF IInv, TypeOK
<1>3. prog.holds \in [Thing -> SUBSET Thing]
  BY <1>1 DEF ProgramType
<1>4. StoreTypes'
  <2>1. heap' \subseteq Thing
    BY <1>1, <1>2 DEF OwnedBy, Thing
  <2>2. held' \in [Thing -> SUBSET Thing]
    BY <1>1, <1>2, <1>3
  <2>3. internal_refs' \in [Thing -> SUBSET Thing]
    BY <1>1, <1>2, <2>2
  <2>4. properties' \in [Module -> SUBSET Thing]
    BY <1>1, <1>2, <2>2 DEF Thing
  <2>5. dirty' \in BOOLEAN
    BY <1>1, Zenon
  <2>6. QED
    BY <1>1, <1>2, <2>1, <2>2, <2>3, <2>4, <2>5 DEF StoreTypes
<1>5. HeapExact'
  BY <1>1, <1>2 DEF HeapExact, Alive, Native, OwnedBy
<1>6. HeldInside'
  <2>1. SUFFICES ASSUME NEW t \in Thing
                 PROVE  held'[t] \subseteq heap' /\ (t \notin heap' => held'[t] = {})
    BY DEF HeldInside
  <2>2. CASE t \in heap' \ heap
    <3>1. t \in ThingsOf(prog, m)
      BY <1>1, <2>2 DEF ThingsOf, OwnedBy
    <3>2. held'[t] \subseteq InScope(prog, m)
      BY <1>1, <2>2, <3>1 DEF WellFormed
    <3>3. Builtins \in loaded'
      BY <1>1
    <3>4. InScope(prog, m) \subseteq heap'
      BY <1>1, <1>5, <3>3 DEF InScope, HeapExact, Alive, Thing
    <3>5. QED
      BY <2>2, <3>2, <3>4
  <2>3. CASE t \notin heap' \ heap
    BY <1>1, <1>2, <2>1, <2>3 DEF HeldInside
  <2>4. QED
    BY <2>2, <2>3
<1>7. ValuesLag'
  BY <1>1 DEF ValuesLag
<1>8. MirrorExact'
  <2>1. SUFFICES ASSUME NEW t \in Thing
                 PROVE  /\ internal_refs'[t] \subseteq heap'
                        /\ internal_refs'[t] \subseteq held'[t] \cup UsesOf(t)
    BY <1>1 DEF MirrorExact, UsesOf
  <2>2. CASE t \in heap'
    BY <1>1, <1>6, <2>2 DEF HeldInside
  <2>3. CASE t \notin heap'
    BY <1>1, <1>2, <2>3 DEF MirrorExact
  <2>4. QED
    BY <2>2, <2>3
<1>9. MirrorComplete'
  <2>1. ASSUME NEW t \in heap' PROVE internal_refs'[t] = held'[t]
    BY <1>1, <1>4, <2>1 DEF StoreTypes
  <2>2. QED
    BY <1>1, <2>1 DEF MirrorComplete
<1>10. QED
  BY <1>1, <1>4, <1>5, <1>6, <1>7, <1>8, <1>9 DEF StoreInv

-----------------------------------------------------------------------------
(* The other writers of the runtime and the store.                         *)

LEMMA StoreFacts == IInv => StoreInv
BY DEF IInv, TypeOK, StoreInv, StoreTypes

\* import::setup changes objects that are mirrored; the mirror stays sound.
LEMMA SetupStep ==
  ASSUME IInv, InitSetup
  PROVE  StoreInv'
<1>1. /\ prog' = prog /\ loaded' = loaded /\ dirty' = dirty /\ values' = values
      /\ internal_refs' = internal_refs /\ properties' = properties
      /\ cg_flowgraph' = cg_flowgraph
      /\ heap' = heap \cup OwnedBy(Setup)
      /\ held' = [t \in Thing |-> IF t \in OwnedBy(Setup) THEN prog.holds[t]
                                  ELSE IF t \in heap THEN held[t] \cup prog.patch[t]
                                  ELSE held[t]]
      /\ Starting /\ ~Starting' /\ pc = "setup"
  BY DEF InitSetup, store, search, Starting
<1>2. StoreInv /\ StoreTypes /\ HeapExact /\ HeldInside /\ Phases
  BY StoreFacts DEF StoreInv, IInv
<1>3. /\ prog.holds \in [Thing -> SUBSET Thing] /\ prog.patch \in [Thing -> SUBSET Thing]
      /\ \A t \in Thing :
           prog.patch[t] \subseteq OwnedBy(Setup) \cup {Bootstrap} \cup OwnedBy(Bootstrap)
      /\ \A t \in OwnedBy(Setup) : prog.holds[t] = {}
  BY <1>2 DEF StoreInv, StoreTypes, ProgramType, WellFormed, OwnedBy
<1>4. OwnedBy(Setup) \subseteq Thing
  BY DEF OwnedBy, Thing
<1>5. StoreTypes'
  BY <1>1, <1>2, <1>3, <1>4 DEF StoreTypes
<1>6. HeapExact'
  BY <1>1, <1>2 DEF HeapExact, Alive, Native, OwnedBy
<1>7. HeldInside'
  <2>1. {Bootstrap} \cup OwnedBy(Bootstrap) \subseteq heap
    BY <1>1, <1>2 DEF Phases, HeapExact, Alive, OwnedBy, Thing
  <2>2. QED
    BY <1>1, <1>2, <1>3, <1>4, <2>1 DEF HeldInside, StoreTypes
<1>8. ValuesLag'
  BY <1>1, <1>2 DEF StoreInv, ValuesLag, Native, OwnedBy
<1>9. \A t \in Thing : held[t] \subseteq held'[t]
  <2>1. \A t \in OwnedBy(Setup) : t \notin heap
    BY <1>1, <1>2 DEF HeapExact, Alive, Native, OwnedBy, Thing, StoreTypes
  <2>2. QED
    BY <1>1, <1>2, <2>1 DEF HeldInside
<1>10. MirrorExact'
  BY <1>1, <1>2, <1>9 DEF StoreInv, MirrorExact, UsesOf
<1>11. Main \notin loaded'
  BY <1>1, <1>2 DEF Phases
<1>12. QED
  BY <1>1, <1>2, <1>5, <1>6, <1>7, <1>8, <1>10, <1>11 DEF StoreInv, MirrorComplete

\* The values that the code of a function uses are in the store.
LEMMA UsesAreValues ==
  ASSUME IInv, NEW f \in values \cap Object
  PROVE  prog.uses[f] \subseteq values
<1>1. /\ StoreTypes /\ HeapExact /\ ValuesLag /\ WellFormed(prog) /\ Phases
      /\ prog.owner \in [Object -> Module \cup {Setup}] /\ prog.uses \in [Object -> SUBSET Object]
  BY StoreFacts DEF StoreInv, IInv, StoreTypes, ProgramType
<1>2. CASE prog.owner[f] = Setup
  BY <1>1, <1>2 DEF WellFormed
<1>3. CASE prog.owner[f] # Setup
  <2>1. prog.owner[f] \in loaded
    BY <1>1, <1>3 DEF StoreTypes, HeapExact, Alive, Native
  <2>2. Builtins \in loaded
    BY <1>1, <2>1 DEF Phases
  <2>3. SUFFICES ASSUME NEW u \in prog.uses[f] PROVE u \in values
    OBVIOUS
  <2>4. u \in Object /\ prog.owner[u] \in {prog.owner[f], Builtins}
    BY <1>1, <2>1 DEF WellFormed, InScope, StoreTypes
  <2>5. u \in heap /\ ~Native(u)
    BY <1>1, <2>1, <2>2, <2>4 DEF HeapExact, Alive, Native, Thing, StoreTypes
  <2>6. QED
    BY <1>1, <2>5 DEF ValuesLag
<1>4. QED
  BY <1>2, <1>3

\* get_function_cg_cfg adds values that the code uses to the mirror.
LEMMA CacheStep ==
  ASSUME IInv, NEW f \in values \cap Object, CacheFlowgraph(f), Starting' <=> Starting
  PROVE  StoreInv' /\ RefsAfter(f) \subseteq values \cap (held[f] \cup prog.uses[f])
<1>1. /\ prog' = prog /\ loaded' = loaded /\ heap' = heap /\ held' = held /\ dirty' = dirty
      /\ values' = values /\ properties' = properties
      /\ cg_flowgraph' = cg_flowgraph \cup {f}
      /\ internal_refs' = [internal_refs EXCEPT ![f] = RefsAfter(f)]
  BY DEF CacheFlowgraph, runtime
<1>2. StoreInv /\ StoreTypes /\ MirrorExact /\ f \in Object /\ f \in Thing
  BY StoreFacts DEF StoreInv, Thing
<1>3. prog.uses[f] \subseteq values
  BY UsesAreValues
<1>4. internal_refs[f] \subseteq RefsAfter(f)
  BY DEF RefsAfter
<1>5. RefsAfter(f) \subseteq values \cap (held[f] \cup prog.uses[f])
  BY <1>2, <1>3 DEF RefsAfter, MirrorExact, UsesOf
<1>6. RefsAfter(f) \subseteq Thing
  BY <1>2, <1>5 DEF StoreTypes
<1>7. \A t \in Thing : internal_refs'[t] = IF t = f THEN RefsAfter(f) ELSE internal_refs[t]
  BY <1>1, <1>2 DEF StoreTypes
<1>8. StoreTypes'
  <2>1. internal_refs' \in [Thing -> SUBSET Thing]
    BY <1>1, <1>2, <1>6 DEF StoreTypes
  <2>2. QED
    BY <1>1, <1>2, <2>1 DEF StoreTypes
<1>9. HeapExact' /\ HeldInside' /\ ValuesLag' /\ WellFormed(prog)'
  BY <1>1, <1>2 DEF StoreInv, HeapExact, HeldInside, ValuesLag, Alive, Native
<1>10. MirrorExact'
  BY <1>1, <1>2, <1>5, <1>7 DEF MirrorExact, UsesOf
<1>11. MirrorComplete'
  BY <1>1, <1>2, <1>4, <1>7 DEF StoreInv, MirrorComplete, StoreTypes
<1>12. QED
  BY <1>5, <1>8, <1>9, <1>10, <1>11 DEF StoreInv

-----------------------------------------------------------------------------
(* The steps.                                                              *)

\* The part of the type invariant about call_graph_of and the control state.
SearchTypes ==
  /\ entry \in Object
  /\ functions_to_process \in Seq(Object)
  /\ collected_functions \subseteq Object
  /\ pc \in {"builtins", "bootstrap", "setup", "idle", "loop", "ok", "err", "panic", "failed"}

LEMMA Parts == IInv => StoreInv /\ SearchTypes /\ Phases /\ LoopInv
BY DEF IInv, TypeOK, StoreInv, StoreTypes, SearchTypes

LEMMA Assemble == StoreInv' /\ SearchTypes' /\ Phases' /\ LoopInv' => IInv'
BY DEF IInv, TypeOK, StoreInv, StoreTypes, SearchTypes

\* A step that changes neither the runtime nor the store.
LEMMA SameStore ==
  ASSUME StoreInv, Starting' <=> Starting, UNCHANGED <<prog, runtime, store, cg_flowgraph>>
  PROVE  StoreInv'
<1>1. /\ prog' = prog /\ loaded' = loaded /\ heap' = heap /\ held' = held /\ dirty' = dirty
      /\ values' = values /\ internal_refs' = internal_refs /\ properties' = properties
      /\ cg_flowgraph' = cg_flowgraph
  BY DEF runtime, store
<1>2. StoreTypes' /\ WellFormed(prog)' /\ HeldInside' /\ ValuesLag' /\ MirrorExact' /\ MirrorComplete'
  BY <1>1 DEF StoreInv, StoreTypes, HeldInside, ValuesLag, MirrorExact, MirrorComplete,
              Native, UsesOf
<1>3. HeapExact'
  BY <1>1 DEF StoreInv, HeapExact, Alive, Native
<1>4. QED
  BY <1>2, <1>3 DEF StoreInv

LEMMA InitializeStep == ASSUME IInv, Initialize PROVE IInv'
<1>1. SearchTypes /\ Phases
  BY Parts
<1>2. CASE InitBuiltins
  <2>1. /\ IncludeModule(Builtins) /\ pc = "builtins" /\ pc' = "bootstrap"
        /\ loaded' = loaded \cup {Builtins} /\ UNCHANGED search
    BY <1>2 DEF InitBuiltins, IncludeModule
  <2>2. Starting' <=> Starting
    BY <2>1 DEF Starting
  <2>3. StoreInv'
    BY <2>1, <2>2, IncludeStep
  <2>4. SearchTypes' /\ Phases' /\ LoopInv'
    BY <1>1, <2>1 DEF SearchTypes, Phases, LoopInv, Starting, search
  <2>5. QED
    BY <2>3, <2>4, Assemble
<1>3. CASE InitBootstrap
  <2>1. /\ IncludeModule(Bootstrap) /\ pc = "bootstrap" /\ pc' = "setup"
        /\ loaded' = loaded \cup {Bootstrap} /\ UNCHANGED search
    BY <1>3 DEF InitBootstrap, IncludeModule
  <2>2. Starting' <=> Starting
    BY <2>1 DEF Starting
  <2>3. Builtins \in loaded
    BY <1>1, <2>1 DEF Phases
  <2>4. StoreInv'
    BY <2>1, <2>2, <2>3, IncludeStep
  <2>5. SearchTypes' /\ Phases' /\ LoopInv'
    BY <1>1, <2>1 DEF SearchTypes, Phases, LoopInv, Starting, search
  <2>6. QED
    BY <2>4, <2>5, Assemble
<1>4. CASE InitSetup
  <2>1. StoreInv'
    BY <1>4, SetupStep
  <2>2. SearchTypes' /\ Phases' /\ LoopInv'
    BY <1>1, <1>4 DEF InitSetup, SearchTypes, Phases, LoopInv, Starting, search
  <2>3. QED
    BY <2>1, <2>2, Assemble
<1>5. CASE InitFails
  <2>1. /\ StoreInv /\ Starting /\ Starting' /\ pc' = "failed"
        /\ UNCHANGED <<prog, runtime, store, cg_flowgraph>> /\ UNCHANGED search
    BY <1>5, Parts DEF InitFails, Starting
  <2>2. StoreInv'
    BY <2>1, SameStore
  <2>3. SearchTypes' /\ Phases' /\ LoopInv'
    BY <1>1, <2>1 DEF SearchTypes, Phases, LoopInv, search, runtime
  <2>4. QED
    BY <2>2, <2>3, Assemble
<1>6. QED
  BY <1>2, <1>3, <1>4, <1>5 DEF Initialize

LEMMA IncludeQueryStep == ASSUME IInv, NEW m \in Module, Include(m) PROVE IInv'
<1>1. SearchTypes /\ Phases
  BY Parts
<1>2. CASE IncludeModule(m) /\ pc' = "idle"
  <2>1. /\ IncludeModule(m) /\ pc \in Resting /\ pc' = "idle"
        /\ loaded' = loaded \cup {m} /\ UNCHANGED search
    BY <1>2 DEF Include, IncludeModule
  <2>2. (Starting' <=> Starting) /\ Builtins \in loaded
    BY <1>1, <2>1 DEF Starting, Resting, Phases
  <2>3. StoreInv'
    BY <2>1, <2>2, IncludeStep
  <2>4. SearchTypes' /\ Phases' /\ LoopInv'
    BY <1>1, <2>1 DEF SearchTypes, Phases, LoopInv, Starting, Resting, search
  <2>5. QED
    BY <2>3, <2>4, Assemble
<1>3. CASE ~(IncludeModule(m) /\ pc' = "idle")
  <2>1. /\ StoreInv /\ pc \in Resting /\ pc' = "panic" /\ UNCHANGED search
        /\ UNCHANGED <<prog, runtime, store, cg_flowgraph>> /\ loaded' = loaded
    BY <1>3, Parts DEF Include, runtime
  <2>2. Starting' <=> Starting
    BY <2>1 DEF Starting, Resting
  <2>3. StoreInv'
    BY <2>1, <2>2, SameStore
  <2>4. SearchTypes' /\ Phases' /\ LoopInv'
    BY <1>1, <2>1, <2>2 DEF SearchTypes, Phases, LoopInv, Starting, Resting, search
  <2>5. QED
    BY <2>3, <2>4, Assemble
<1>4. QED
  BY <1>2, <1>3

LEMMA CgCfgQueryStep == ASSUME IInv, NEW f \in Object, GetFunctionCgCfg(f) PROVE IInv'
<1>1. SearchTypes /\ Phases
  BY Parts
<1>2. /\ CacheFlowgraph(f) /\ f \in values /\ pc \in Resting /\ pc' = "idle"
      /\ loaded' = loaded /\ UNCHANGED search
  BY DEF GetFunctionCgCfg, CacheFlowgraph, runtime
<1>3. Starting' <=> Starting
  BY <1>2 DEF Starting, Resting
<1>4. StoreInv'
  BY <1>2, <1>3, CacheStep
<1>5. SearchTypes' /\ Phases' /\ LoopInv'
  BY <1>1, <1>2 DEF SearchTypes, Phases, LoopInv, Starting, Resting, search
<1>6. QED
  BY <1>4, <1>5, Assemble

\* Reachable functions depend on the program, the entry and the references held.
LEMMA SameReachable ==
  ASSUME prog' = prog, held' = held, entry' = entry
  PROVE  Reachable' = Reachable /\ Callable' = Callable
BY DEF Reachable, ClosedUnderCalls, Calls, Callable

LEMMA CallGraphStep == ASSUME IInv, NEW f \in Object, CallGraphOf(f) PROVE IInv'
<1>1. SearchTypes /\ Phases /\ StoreInv
  BY Parts
<1>2. /\ pc \in Resting /\ entry' = f /\ collected_functions' = {}
      /\ \/ /\ f \in held'[Main] \cap Callable \cap values'
            /\ functions_to_process' = <<f>> /\ pc' = "loop"
         \/ functions_to_process' = << >> /\ pc' \in {"err", "panic"}
  BY DEF CallGraphOf
<1>3. ~Starting /\ ~Starting' /\ {Builtins, Bootstrap} \subseteq loaded
  BY <1>1, <1>2 DEF Starting, Resting, Phases
<1>4. StoreInv' /\ Main \in loaded' /\ loaded \subseteq loaded' /\ prog' = prog
  <2>1. CASE Main \in loaded
    <3>1. UNCHANGED <<prog, runtime, store, cg_flowgraph>>
      BY <2>1 DEF CallGraphOf
    <3>2. StoreInv'
      BY <1>1, <1>3, <3>1, SameStore
    <3>3. QED
      BY <2>1, <3>1, <3>2 DEF runtime
  <2>2. CASE Main \notin loaded
    <3>1. IncludeModule(Main)
      BY <2>2 DEF CallGraphOf
    <3>2. StoreInv'
      BY <1>3, <3>1, IncludeStep
    <3>3. QED
      BY <3>1, <3>2 DEF IncludeModule
  <2>3. QED
    BY <2>1, <2>2
<1>5. SearchTypes'
  <2>1. functions_to_process' \in Seq(Object)
    <3>1. <<f>> \in Seq(Object) /\ << >> \in Seq(Object)
      OBVIOUS
    <3>2. functions_to_process' = <<f>> \/ functions_to_process' = << >>
      BY <1>2
    <3>3. QED
      BY <3>1, <3>2, Zenon
  <2>2. QED
    BY <1>2, <2>1 DEF SearchTypes
<1>6. Phases'
  BY <1>3, <1>4, <1>5 DEF Phases, Starting, SearchTypes
<1>7. LoopInv'
  <2>1. SUFFICES ASSUME pc' = "loop" PROVE LoopInv'
    BY <1>2 DEF LoopInv
  <2>2. f \in Callable /\ f \in values' /\ functions_to_process' = <<f>>
    BY <1>2, <2>1
  <2>3. ToSet(functions_to_process') = {f}
    BY <2>2 DEF ToSet
  <2>4. Callable' = Callable
    BY <1>4 DEF Callable
  <2>5. TypeOK'
    BY <1>4, <1>5 DEF StoreInv, StoreTypes, SearchTypes, TypeOK
  <2>6. entry' \in Reachable'
    BY <2>5 DEF TypeOK, Reachable, ClosedUnderCalls
  <2>7. QED
    BY <1>2, <1>4, <2>2, <2>3, <2>4, <2>6 DEF LoopInv
<1>8. QED
  BY <1>4, <1>5, <1>6, <1>7, Assemble

\* The function on top of the stack is one that may be processed.
LEMMA CurrentFacts ==
  ASSUME IInv, pc = "loop", functions_to_process # << >>
  PROVE  /\ Current \in Object /\ Current \in values /\ Current \in Callable
         /\ Current \in Reachable
         /\ Front(functions_to_process) \in Seq(Object)
         /\ ToSet(functions_to_process) = ToSet(Front(functions_to_process)) \cup {Current}
<1>1. functions_to_process \in Seq(Object) /\ LoopInv
  BY Parts DEF SearchTypes
<1>2. /\ Current \in Object /\ Front(functions_to_process) \in Seq(Object)
      /\ ToSet(functions_to_process) = ToSet(Front(functions_to_process)) \cup {Current}
  BY <1>1, PopRange DEF Current
<1>3. QED
  BY <1>1, <1>2 DEF LoopInv

\* What a round of the loop pushes.
LEMMA PushFacts ==
  ASSUME IInv, pc = "loop", functions_to_process # << >>,
         NEW order \in Orders(Pending(Current))
  PROVE  /\ Front(functions_to_process) \o order \in Seq(Object)
         /\ ToSet(Front(functions_to_process) \o order)
              = ToSet(Front(functions_to_process)) \cup Pending(Current)
<1>1. Pending(Current) \subseteq Object
  BY DEF Pending, Callable
<1>2. IsFiniteSet(Pending(Current))
  BY <1>1, FS_Subset
<1>3. order \in Seq(Pending(Current)) /\ ToSet(order) = Pending(Current)
  BY <1>2, OrderRange
<1>4. order \in Seq(Object)
  BY <1>1, <1>3
<1>5. Front(functions_to_process) \in Seq(Object)
  BY CurrentFacts
<1>6. QED
  BY <1>3, <1>4, <1>5, ConcatRange

LEMMA ProcessStep == ASSUME IInv, ProcessFunction PROVE IInv'
<1>1. /\ StoreInv /\ SearchTypes /\ Phases /\ LoopInv
      /\ pc = "loop" /\ pc' = "loop" /\ functions_to_process # << >> /\ entry' = entry
      /\ CacheFlowgraph(Current) /\ collected_functions' = collected_functions \cup {Current}
  BY Parts DEF ProcessFunction
<1>2. PICK order \in Orders(Pending(Current)) :
        functions_to_process' = Front(functions_to_process) \o order
  BY DEF ProcessFunction
<1>3. /\ Current \in values \cap Object /\ Current \in Callable /\ Current \in Reachable
      /\ ToSet(functions_to_process) = ToSet(Front(functions_to_process)) \cup {Current}
  BY <1>1, CurrentFacts
<1>4. /\ functions_to_process' \in Seq(Object)
      /\ ToSet(functions_to_process') = ToSet(Front(functions_to_process)) \cup Pending(Current)
  BY <1>1, <1>2, PushFacts
<1>5. Starting' <=> Starting
  BY <1>1 DEF Starting
<1>6. /\ StoreInv' /\ prog' = prog /\ held' = held /\ loaded' = loaded /\ values' = values
      /\ RefsAfter(Current) \subseteq values \cap (held[Current] \cup prog.uses[Current])
  BY <1>1, <1>3, <1>5, CacheStep DEF CacheFlowgraph, runtime
<1>7. SearchTypes'
  BY <1>1, <1>3, <1>4 DEF SearchTypes
<1>8. Phases'
  BY <1>1, <1>5, <1>6 DEF Phases
<1>9. Reachable' = Reachable /\ Callable' = Callable
  BY <1>1, <1>6, SameReachable
<1>10. Pending(Current) \subseteq Reachable \cap Callable \cap values
  <2>1. Pending(Current) \subseteq Calls(Current) /\ Pending(Current) \subseteq Callable \cap values
    BY <1>6 DEF Pending, Calls
  <2>2. Calls(Current) \subseteq Reachable
    BY <1>3, ReachableClosed DEF IInv
  <2>3. QED
    BY <2>1, <2>2
<1>11. LoopInv'
  BY <1>1, <1>3, <1>4, <1>6, <1>9, <1>10 DEF LoopInv
<1>12. QED
  BY <1>6, <1>7, <1>8, <1>11, Assemble

LEMMA FailStep == ASSUME IInv, TypecheckFails \/ RefFails PROVE IInv'
<1>1. /\ StoreInv /\ SearchTypes /\ Phases /\ pc = "loop" /\ pc' \in {"err", "panic"}
      /\ functions_to_process # << >> /\ UNCHANGED search
  BY Parts DEF TypecheckFails, RefFails
<1>2. Starting' <=> Starting
  BY <1>1 DEF Starting
<1>3. StoreInv' /\ loaded' = loaded
  <2>1. CASE TypecheckFails
    BY <1>1, <1>2, <2>1, SameStore DEF TypecheckFails, runtime
  <2>2. CASE RefFails
    <3>1. CacheFlowgraph(Current) /\ Current \in values \cap Object
      BY <1>1, <2>2, CurrentFacts DEF RefFails
    <3>2. QED
      BY <1>2, <3>1, CacheStep DEF CacheFlowgraph, runtime
  <2>3. QED
    BY <2>1, <2>2
<1>4. SearchTypes' /\ Phases' /\ LoopInv'
  BY <1>1, <1>2, <1>3 DEF SearchTypes, Phases, LoopInv, Starting, search
<1>5. QED
  BY <1>3, <1>4, Assemble

LEMMA CollectedStep == ASSUME IInv, Collected PROVE IInv'
<1>1. /\ StoreInv /\ SearchTypes /\ Phases /\ LoopInv /\ pc = "loop" /\ pc' = "ok"
      /\ UNCHANGED <<prog, runtime, store, cg_flowgraph>>
      /\ entry' = entry /\ functions_to_process' = functions_to_process
      /\ collected_functions' = collected_functions \cup {entry}
  BY Parts DEF Collected
<1>2. /\ Starting' <=> Starting
      /\ prog' = prog /\ held' = held /\ loaded' = loaded /\ values' = values
  BY <1>1 DEF Starting, runtime, store
<1>3. StoreInv'
  BY <1>1, <1>2, SameStore
<1>4. SearchTypes' /\ Phases'
  BY <1>1, <1>2 DEF SearchTypes, Phases
<1>5. Reachable' = Reachable /\ Callable' = Callable
  BY <1>1, <1>2, SameReachable
<1>6. entry \in Reachable
  BY EntryReachable DEF IInv
<1>7. LoopInv'
  BY <1>1, <1>2, <1>5, <1>6 DEF LoopInv
<1>8. QED
  BY <1>3, <1>4, <1>7, Assemble

LEMMA StepInv == IInv /\ [Next]_vars => IInv'
<1>1. SUFFICES ASSUME IInv, [Next]_vars PROVE IInv'
  OBVIOUS
<1>2. CASE Initialize
  BY <1>1, <1>2, InitializeStep
<1>3. CASE \E m \in Module : Include(m)
  BY <1>1, <1>3, IncludeQueryStep
<1>4. CASE \E f \in Object : GetFunctionCgCfg(f) \/ CallGraphOf(f)
  BY <1>1, <1>4, CgCfgQueryStep, CallGraphStep
<1>5. CASE Loop
  BY <1>1, <1>5, ProcessStep, FailStep, CollectedStep DEF Loop
<1>6. CASE UNCHANGED vars
  <2>1. /\ UNCHANGED <<prog, runtime, store, cg_flowgraph>> /\ UNCHANGED search /\ pc' = pc
    BY <1>6 DEF vars
  <2>2. StoreInv /\ SearchTypes /\ Phases /\ LoopInv /\ (Starting' <=> Starting)
    BY <1>1, <2>1, Parts DEF Starting
  <2>3. StoreInv'
    BY <2>1, <2>2, SameStore
  <2>4. Reachable' = Reachable /\ Callable' = Callable
    BY <2>1, SameReachable DEF runtime, search
  <2>5. SearchTypes' /\ Phases' /\ LoopInv'
    BY <2>1, <2>2, <2>4 DEF SearchTypes, Phases, LoopInv, runtime, store, search
  <2>6. QED
    BY <2>3, <2>5, Assemble
<1>7. QED
  BY <1>1, <1>2, <1>3, <1>4, <1>5, <1>6 DEF Next

\* The invariant holds of every session.
THEOREM SessionInvariant == Spec => []IInv
<1>1. Init => IInv
  BY InitInv
<1>2. IInv /\ [Next]_vars => IInv'
  BY StepInv
<1>3. QED
  BY <1>1, <1>2, PTL DEF Spec

\* Once the input is included, every object has a value whose references contain
\* the object's: stir_the_pot misses no change, whatever the order of the queries.
THEOREM AlwaysMirrorComplete == Spec => []MirrorComplete
<1>1. IInv => MirrorComplete
  BY DEF IInv
<1>2. QED
  BY <1>1, SessionInvariant, PTL

\* References of values lead to values: the unwrap()s on references succeed.
THEOREM AlwaysMirrorClosed == Spec => []MirrorClosed
<1>1. IInv => MirrorClosed
  BY DEF IInv, TypeOK, MirrorExact, MirrorClosed
<1>2. QED
  BY <1>1, SessionInvariant, PTL

\* call_graph_of collects only functions the entry leads to, for every program
\* and whatever was included, queried or failed before.
THEOREM AlwaysCollectsOnlyReachable == Spec => []CollectsOnlyReachable
<1>1. IInv => CollectsOnlyReachable
  BY DEF IInv, LoopInv, CollectsOnlyReachable
<1>2. QED
  BY <1>1, SessionInvariant, PTL
-----------------------------------------------------------------------------
(* The session of a build.                                                 *)

\* No function is type checked before the last module is included.
Fresh ==
  pc \in {"builtins", "bootstrap", "setup", "idle"} =>
    cg_flowgraph = {} /\ collected_functions = {} /\ functions_to_process = << >>

\* The references of a type-checked function contain what its code uses.
Cached == \A f \in cg_flowgraph : prog.uses[f] \subseteq internal_refs[f]

\* What a collected function calls is collected or on the stack.
CallsKnown ==
  pc \in {"loop", "ok"} =>
    /\ entry = Entry
    /\ collected_functions \subseteq cg_flowgraph
    /\ Entry \in collected_functions \cup ToSet(functions_to_process)
    /\ \A f \in collected_functions :
         Calls(f) \subseteq collected_functions \cup ToSet(functions_to_process)
    /\ pc = "ok" => functions_to_process = << >>

SessionPart == IInv /\ Fresh /\ Cached /\ CallsKnown

USE EntryAssumption

LEMMA SessionInit == Init => SessionPart
<1>1. SUFFICES ASSUME Init PROVE SessionPart
  OBVIOUS
<1>2. IInv
  BY <1>1, InitInv
<1>3. Fresh /\ Cached /\ CallsKnown
  BY <1>1 DEF Init, Fresh, Cached, CallsKnown
<1>4. QED
  BY <1>2, <1>3 DEF SessionPart

\* Including a module changes no function that is type checked, for there is none.
LEMMA InitializePart == ASSUME SessionPart, Initialize PROVE SessionPart'
<1>1. IInv'
  BY InitializeStep DEF SessionPart
<1>2. /\ pc \in {"builtins", "bootstrap", "setup"} /\ pc' \in {"bootstrap", "setup", "idle", "failed"}
      /\ cg_flowgraph' = cg_flowgraph /\ UNCHANGED search
  BY DEF Initialize, InitBuiltins, InitBootstrap, InitSetup, InitFails, IncludeModule
<1>3. Fresh' /\ Cached' /\ CallsKnown'
  BY <1>2 DEF SessionPart, Fresh, Cached, CallsKnown, search
<1>4. QED
  BY <1>1, <1>3 DEF SessionPart

LEMMA CallGraphPart == ASSUME SessionPart, pc = "idle", CallGraphOf(Entry) PROVE SessionPart'
<1>1. IInv'
  BY CallGraphStep DEF SessionPart
<1>2. /\ cg_flowgraph' = cg_flowgraph /\ cg_flowgraph = {} /\ collected_functions' = {}
      /\ entry' = Entry
      /\ \/ functions_to_process' = <<Entry>> /\ pc' = "loop"
         \/ functions_to_process' = << >> /\ pc' \in {"err", "panic"}
  BY DEF SessionPart, Fresh, CallGraphOf, IncludeModule
<1>3. ToSet(<<Entry>>) = {Entry}
  BY DEF ToSet
<1>4. Fresh' /\ Cached' /\ CallsKnown'
  BY <1>2, <1>3 DEF Fresh, Cached, CallsKnown
<1>5. QED
  BY <1>1, <1>4 DEF SessionPart

\* A type-checked function keeps the references of its code.
LEMMA CachePart ==
  ASSUME SessionPart, NEW f \in values \cap Object, CacheFlowgraph(f)
  PROVE  /\ Cached' /\ cg_flowgraph' = cg_flowgraph \cup {f}
         /\ prog.uses[f] \subseteq RefsAfter(f)
         /\ held[f] \subseteq RefsAfter(f) \/ Main \notin loaded
<1>1. /\ prog' = prog /\ cg_flowgraph' = cg_flowgraph \cup {f}
      /\ internal_refs' = [internal_refs EXCEPT ![f] = RefsAfter(f)]
  BY DEF CacheFlowgraph
<1>2. /\ TypeOK /\ MirrorComplete /\ Cached /\ f \in Thing /\ cg_flowgraph \subseteq Thing
  BY DEF SessionPart, IInv, TypeOK, Thing
<1>3. prog.uses[f] \subseteq RefsAfter(f) /\ internal_refs[f] \subseteq RefsAfter(f)
  BY <1>2 DEF Cached, RefsAfter
<1>4. \A g \in Thing : internal_refs'[g] = IF g = f THEN RefsAfter(f) ELSE internal_refs[g]
  BY <1>1, <1>2 DEF TypeOK
<1>5. Cached'
  BY <1>1, <1>2, <1>3, <1>4 DEF Cached
<1>6. Main \in loaded => held[f] \subseteq RefsAfter(f)
  BY <1>2, <1>3 DEF MirrorComplete
<1>7. QED
  BY <1>1, <1>3, <1>5, <1>6

LEMMA ProcessPart == ASSUME SessionPart, ProcessFunction PROVE SessionPart'
<1>1. IInv /\ IInv' /\ CallsKnown
  BY ProcessStep DEF SessionPart
<1>2. /\ pc = "loop" /\ pc' = "loop" /\ functions_to_process # << >> /\ entry' = entry
      /\ CacheFlowgraph(Current) /\ collected_functions' = collected_functions \cup {Current}
      /\ prog' = prog /\ held' = held
  BY DEF ProcessFunction, CacheFlowgraph, runtime
<1>3. PICK order \in Orders(Pending(Current)) :
        functions_to_process' = Front(functions_to_process) \o order
  BY DEF ProcessFunction
<1>4. /\ Current \in values \cap Object
      /\ ToSet(functions_to_process) = ToSet(Front(functions_to_process)) \cup {Current}
  BY <1>1, <1>2, CurrentFacts
<1>5. ToSet(functions_to_process') = ToSet(Front(functions_to_process)) \cup Pending(Current)
  BY <1>1, <1>2, <1>3, PushFacts
<1>6. Main \in loaded
  BY <1>1, <1>2 DEF IInv, LoopInv
<1>7. /\ Cached' /\ cg_flowgraph' = cg_flowgraph \cup {Current}
      /\ prog.uses[Current] \cup held[Current] \subseteq RefsAfter(Current)
  BY <1>2, <1>4, <1>6, CachePart
<1>8. \A f : Calls(f)' = Calls(f)
  BY <1>2 DEF Calls, Callable
<1>9. Calls(Current) \subseteq collected_functions \cup Pending(Current)
  BY <1>7 DEF Calls, Pending
<1>10. CallsKnown'
  BY <1>1, <1>2, <1>4, <1>5, <1>7, <1>8, <1>9 DEF CallsKnown
<1>11. QED
  BY <1>1, <1>2, <1>7, <1>10 DEF SessionPart, Fresh

LEMMA FailPart == ASSUME SessionPart, TypecheckFails \/ RefFails PROVE SessionPart'
<1>1. IInv /\ IInv'
  BY FailStep DEF SessionPart
<1>2. pc = "loop" /\ pc' \in {"err", "panic"} /\ functions_to_process # << >>
  BY DEF TypecheckFails, RefFails
<1>3. Cached'
  <2>1. CASE TypecheckFails
    BY <2>1 DEF TypecheckFails, SessionPart, Cached, store
  <2>2. CASE RefFails
    BY <1>1, <1>2, <2>2, CurrentFacts, CachePart DEF RefFails
  <2>3. QED
    BY <2>1, <2>2
<1>4. QED
  BY <1>1, <1>2, <1>3 DEF SessionPart, Fresh, CallsKnown

LEMMA CollectedPart == ASSUME SessionPart, Collected PROVE SessionPart'
<1>1. IInv' /\ CallsKnown /\ Cached
  BY CollectedStep DEF SessionPart
<1>2. /\ pc = "loop" /\ pc' = "ok" /\ functions_to_process = << >>
      /\ functions_to_process' = << >> /\ entry' = entry
      /\ collected_functions' = collected_functions \cup {entry}
      /\ prog' = prog /\ held' = held /\ cg_flowgraph' = cg_flowgraph
      /\ internal_refs' = internal_refs
  BY DEF Collected, runtime, store
<1>3. ToSet(<< >>) = {}
  BY DEF ToSet
<1>4. entry \in collected_functions /\ collected_functions' = collected_functions
  BY <1>1, <1>2, <1>3 DEF CallsKnown
<1>5. \A f : Calls(f)' = Calls(f)
  BY <1>2 DEF Calls, Callable
<1>6. Fresh' /\ Cached' /\ CallsKnown'
  BY <1>1, <1>2, <1>4, <1>5 DEF Fresh, Cached, CallsKnown
<1>7. QED
  BY <1>1, <1>6 DEF SessionPart

\* Nothing of the session changes.
LEMMA SamePart == ASSUME SessionPart, UNCHANGED vars PROVE SessionPart'
<1>1. IInv'
  BY StepInv DEF SessionPart
<1>2. Fresh' /\ Cached' /\ CallsKnown'
  BY DEF vars, runtime, store, search, SessionPart, Fresh, Cached, CallsKnown, Calls, Callable
<1>3. QED
  BY <1>1, <1>2 DEF SessionPart

\* A collected function is type checked: to ask for its flow graph again changes
\* nothing.
LEMMA CachedAgain ==
  ASSUME SessionPart, pc = "ok", NEW f \in collected_functions,
         CacheFlowgraph(f), UNCHANGED <<search, pc>>
  PROVE  UNCHANGED vars
<1>1. f \in cg_flowgraph /\ f \in Thing /\ internal_refs \in [Thing -> SUBSET Thing]
  BY DEF SessionPart, CallsKnown, IInv, TypeOK, Thing
<1>2. RefsAfter(f) = internal_refs[f] /\ cg_flowgraph' = cg_flowgraph
  BY <1>1 DEF RefsAfter, CacheFlowgraph
<1>3. internal_refs' = internal_refs
  BY <1>1, <1>2 DEF CacheFlowgraph
<1>4. QED
  BY <1>2, <1>3 DEF CacheFlowgraph, vars, store

-----------------------------------------------------------------------------
(* The code generator.                                                     *)

USE SymbolAssumption

Later == {"declare", "build", "done"}

CodegenTypes ==
  /\ stage \in {"session", "include", "panic"} \cup Later
  /\ to_include \subseteq Object
  /\ funcs_ordered \in Seq(Object \cup Symbol)
  /\ declared \in Seq(Object \cup Symbol)
  /\ index \in [Object -> 0 .. Len(funcs_ordered)]
  /\ alloc \in 0 .. Len(funcs_ordered)
  /\ n_declared \in 0 .. Len(funcs_ordered)
  /\ fids \in [Object -> 0 .. Len(declared)]
  /\ built \subseteq Object

\* The functions of the call graph are included, and nothing else.
GraphIncluded ==
  /\ stage = "session" => to_include = {} /\ Included = {}
  /\ stage # "session" => pc = "ok" /\ Included \cup to_include = collected_functions
  /\ stage \in Later => to_include = {}

\* Every function that was declared has a FuncId.
DeclaredHaveIds ==
  /\ \A f \in Object : index[f] # 0 /\ index[f] <= n_declared => fids[f] # 0
  /\ stage \in {"build", "done"} => n_declared = Len(funcs_ordered)
  /\ stage \in {"session", "include"} => n_declared = 0

BInv == SessionPart /\ CodegenTypes /\ GraphIncluded /\ DeclaredHaveIds

LEMMA BuildInitInv == BuildInit => BInv
<1>1. SUFFICES ASSUME BuildInit PROVE BInv
  OBVIOUS
<1>2. SessionPart
  BY <1>1, SessionInit DEF BuildInit
<1>3. CodegenTypes /\ GraphIncluded /\ DeclaredHaveIds
  BY <1>1 DEF BuildInit, CodegenTypes, GraphIncluded, DeclaredHaveIds, Included
<1>4. QED
  BY <1>2, <1>3 DEF BInv

\* A FuncId is a place in the list of declared names.
LEMMA FuncIdFacts ==
  ASSUME CodegenTypes, NEW name \in Object \cup Symbol
  PROVE  /\ Declared(name) \in Seq(Object \cup Symbol)
         /\ Len(declared) <= Len(Declared(name))
         /\ FuncIdOf(name) \in 1 .. Len(Declared(name))
         /\ Declared(name)[FuncIdOf(name)] = name
         /\ \A i \in 1 .. Len(declared) : Declared(name)[i] = declared[i]
<1>1. declared \in Seq(Object \cup Symbol)
  BY DEF CodegenTypes
<1>2. CASE name \in ToSet(declared)
  <2>1. \E i \in DOMAIN declared : declared[i] = name
    BY <1>1, <1>2, Elements
  <2>2. FuncIdOf(name) \in DOMAIN declared /\ declared[FuncIdOf(name)] = name
    BY <1>2, <2>1 DEF FuncIdOf
  <2>3. QED
    BY <1>1, <1>2, <2>2 DEF Declared
<1>3. CASE name \notin ToSet(declared)
  BY <1>1, <1>3 DEF Declared, FuncIdOf
<1>4. QED
  BY <1>2, <1>3

\* Steps of the session leave the code generator alone.
LEMMA SessionStepInv == ASSUME BInv, SessionStep PROVE BInv'
<1>1. SessionPart'
  BY InitializePart, CallGraphPart, ProcessPart, FailPart, CollectedPart
     DEF BInv, SessionStep, Loop
<1>2. UNCHANGED <<stage, codegen>> /\ stage = "session"
  BY DEF SessionStep
<1>3. CodegenTypes' /\ GraphIncluded' /\ DeclaredHaveIds'
  BY <1>2 DEF BInv, codegen, CodegenTypes, GraphIncluded, DeclaredHaveIds, Included
<1>4. QED
  BY <1>1, <1>3 DEF BInv

LEMMA StartIncludeInv == ASSUME BInv, StartInclude PROVE BInv'
<1>1. SessionPart' /\ collected_functions \subseteq Object
  BY SamePart DEF BInv, StartInclude, SessionPart, IInv, TypeOK
<1>2. CodegenTypes' /\ GraphIncluded' /\ DeclaredHaveIds'
  BY <1>1 DEF BInv, StartInclude, vars, search, CodegenTypes, GraphIncluded, DeclaredHaveIds,
              Included, Later
<1>3. QED
  BY <1>1, <1>2 DEF BInv

LEMMA IncludeFunctionInv == ASSUME BInv, NEW f \in Object, IncludeFunction(f) PROVE BInv'
<1>1. /\ stage = "include" /\ stage' = "include" /\ f \in to_include /\ pc = "ok"
      /\ f \in collected_functions /\ UNCHANGED <<search, pc>> /\ CacheFlowgraph(f)
      /\ funcs_ordered' = Append(funcs_ordered, NameOf(f))
      /\ index' = [index EXCEPT ![f] = Len(funcs_ordered) + 1]
      /\ to_include' = to_include \ {f}
      /\ UNCHANGED <<alloc, n_declared, declared, fids, built>>
  BY DEF IncludeFunction, BInv, GraphIncluded
<1>2. UNCHANGED vars
  BY <1>1, CachedAgain DEF BInv
<1>3. SessionPart' /\ collected_functions' = collected_functions /\ pc' = pc
  BY <1>2, SamePart DEF BInv, vars, search
<1>4. NameOf(f) \in Object \cup Symbol
  BY DEF NameOf
<1>5. /\ funcs_ordered' \in Seq(Object \cup Symbol) /\ Len(funcs_ordered') = Len(funcs_ordered) + 1
      /\ Len(funcs_ordered) \in Nat
  BY <1>1, <1>4 DEF BInv, CodegenTypes
<1>6. \A g \in Object : index'[g] = IF g = f THEN Len(funcs_ordered) + 1 ELSE index[g]
  BY <1>1 DEF BInv, CodegenTypes
<1>7. CodegenTypes'
  BY <1>1, <1>5, <1>6 DEF BInv, CodegenTypes
<1>8. Included' = Included \cup {f}
  BY <1>5, <1>6 DEF Included
<1>9. GraphIncluded'
  BY <1>1, <1>3, <1>8 DEF BInv, GraphIncluded, Later
<1>10. DeclaredHaveIds'
  BY <1>1, <1>5, <1>6 DEF BInv, DeclaredHaveIds
<1>11. QED
  BY <1>3, <1>7, <1>9, <1>10 DEF BInv

LEMMA DeclMallocInv == ASSUME BInv, DeclMalloc PROVE BInv'
<1>1. /\ stage = "include" /\ stage' = "declare" /\ to_include = {} /\ UNCHANGED vars
      /\ funcs_ordered' = Append(funcs_ordered, Malloc) /\ alloc' = Len(funcs_ordered) + 1
      /\ UNCHANGED <<to_include, index, n_declared, declared, fids, built>>
  BY DEF DeclMalloc
<1>2. SessionPart' /\ collected_functions' = collected_functions /\ pc' = pc
  BY <1>1, SamePart DEF BInv, vars, search
<1>3. /\ funcs_ordered' \in Seq(Object \cup Symbol) /\ Len(funcs_ordered') = Len(funcs_ordered) + 1
      /\ Len(funcs_ordered) \in Nat
  BY <1>1 DEF BInv, CodegenTypes
<1>4. CodegenTypes'
  BY <1>1, <1>3 DEF BInv, CodegenTypes, Later
<1>5. GraphIncluded' /\ DeclaredHaveIds'
  BY <1>1, <1>2 DEF BInv, GraphIncluded, DeclaredHaveIds, Included, Later
<1>6. QED
  BY <1>2, <1>4, <1>5 DEF BInv

LEMMA DeclareFunctionInv == ASSUME BInv, DeclareFunction PROVE BInv'
<1> DEFINE name == funcs_ordered[n_declared + 1]
<1>1. /\ stage = "declare" /\ stage' = stage /\ n_declared < Len(funcs_ordered)
      /\ n_declared' = n_declared + 1 /\ declared' = Declared(name)
      /\ fids' = [f \in Object |-> IF index[f] = n_declared + 1 THEN FuncIdOf(name) ELSE fids[f]]
      /\ UNCHANGED vars /\ UNCHANGED <<to_include, funcs_ordered, index, alloc, built>>
  BY DEF DeclareFunction
<1>2. SessionPart' /\ collected_functions' = collected_functions /\ pc' = pc
  BY <1>1, SamePart DEF BInv, vars, search
<1>3. CodegenTypes
  BY DEF BInv
<1>4. name \in Object \cup Symbol
  BY <1>1, <1>3 DEF CodegenTypes
<1> HIDE DEF name
<1>5. /\ Declared(name) \in Seq(Object \cup Symbol) /\ Len(declared) <= Len(Declared(name))
      /\ FuncIdOf(name) \in 1 .. Len(Declared(name))
  BY <1>3, <1>4, FuncIdFacts
<1>6. fids' \in [Object -> 0 .. Len(declared')]
  <2>1. 0 .. Len(declared) \subseteq 0 .. Len(declared') /\ FuncIdOf(name) \in 0 .. Len(declared')
    BY <1>1, <1>3, <1>5 DEF CodegenTypes
  <2>2. QED
    BY <1>1, <1>3, <2>1 DEF CodegenTypes
<1>7. CodegenTypes'
  BY <1>1, <1>3, <1>5, <1>6 DEF CodegenTypes
<1>8. GraphIncluded'
  BY <1>1, <1>2 DEF BInv, GraphIncluded, Included
<1>9. DeclaredHaveIds'
  BY <1>1, <1>3, <1>5 DEF BInv, DeclaredHaveIds, CodegenTypes
<1>10. QED
  BY <1>2, <1>7, <1>8, <1>9 DEF BInv

LEMMA DefineMainInv == ASSUME BInv, DefineMain PROVE BInv'
<1>1. /\ stage = "declare" /\ stage' \in {"build", "panic"} /\ n_declared = Len(funcs_ordered)
      /\ built' \subseteq Stubbed
      /\ declared' = declared \/ declared' = Declared(MainSymbol)
      /\ UNCHANGED vars /\ UNCHANGED <<to_include, funcs_ordered, index, alloc, n_declared, fids>>
  BY DEF DefineMain
<1>2. SessionPart' /\ collected_functions' = collected_functions /\ pc' = pc
  BY <1>1, SamePart DEF BInv, vars, search
<1>3. CodegenTypes
  BY DEF BInv
<1>4. declared' \in Seq(Object \cup Symbol) /\ Len(declared) <= Len(declared')
  <2>1. declared \in Seq(Object \cup Symbol) /\ Len(declared) <= Len(declared)
    BY <1>3 DEF CodegenTypes
  <2>2. Declared(MainSymbol) \in Seq(Object \cup Symbol) /\ Len(declared) <= Len(Declared(MainSymbol))
    BY <1>3, FuncIdFacts, SymbolAssumption
  <2>3. QED
    BY <1>1, <2>1, <2>2
<1>5. fids' \in [Object -> 0 .. Len(declared')]
  <2>1. 0 .. Len(declared) \subseteq 0 .. Len(declared')
    BY <1>3, <1>4 DEF CodegenTypes
  <2>2. QED
    BY <1>1, <1>3, <2>1 DEF CodegenTypes
<1>6. built' \subseteq Object
  BY <1>1 DEF Stubbed, Included
<1>7. CodegenTypes'
  BY <1>1, <1>3, <1>4, <1>5, <1>6 DEF CodegenTypes, Later
<1>8. GraphIncluded' /\ DeclaredHaveIds'
  BY <1>1, <1>2 DEF BInv, GraphIncluded, DeclaredHaveIds, Included, Later
<1>9. QED
  BY <1>2, <1>7, <1>8 DEF BInv

\* The other steps change the stage and the set of built functions only.
LEMMA LateStepInv ==
  ASSUME BInv, BuildFails \/ Emit \/ \E f \in Object : BuildFunc(f)
  PROVE  BInv'
<1>1. /\ stage \in {"include", "declare", "build"} /\ stage' \in {"build", "done", "panic"}
      /\ stage' \in {"build", "done"} => stage = "build"
      /\ built' \subseteq built \cup Included
      /\ UNCHANGED vars
      /\ UNCHANGED <<to_include, funcs_ordered, index, alloc, n_declared, declared, fids>>
  BY DEF BuildFails, Emit, BuildFunc, codegen, Defined
<1>2. SessionPart' /\ collected_functions' = collected_functions /\ pc' = pc
  BY <1>1, SamePart DEF BInv, vars, search
<1>3. CodegenTypes'
  BY <1>1 DEF BInv, CodegenTypes, Included, Later
<1>4. GraphIncluded' /\ DeclaredHaveIds'
  BY <1>1, <1>2 DEF BInv, GraphIncluded, DeclaredHaveIds, Included, Later
<1>5. QED
  BY <1>2, <1>3, <1>4 DEF BInv

LEMMA BuildStepInv == BInv /\ [BuildNext]_buildVars => BInv'
<1>1. SUFFICES ASSUME BInv, [BuildNext]_buildVars PROVE BInv'
  OBVIOUS
<1>2. CASE BuildNext
  BY <1>1, <1>2, SessionStepInv, StartIncludeInv, IncludeFunctionInv, DeclMallocInv,
     DeclareFunctionInv, DefineMainInv, LateStepInv DEF BuildNext
<1>3. CASE UNCHANGED buildVars
  <2>1. SessionPart' /\ collected_functions' = collected_functions /\ pc' = pc
    BY <1>1, <1>3, SamePart DEF BInv, buildVars, vars, search
  <2>2. CodegenTypes' /\ GraphIncluded' /\ DeclaredHaveIds'
    BY <1>1, <1>3, <2>1 DEF BInv, buildVars, codegen, CodegenTypes, GraphIncluded,
                            DeclaredHaveIds, Included
  <2>3. QED
    BY <2>1, <2>2 DEF BInv
<1>4. QED
  BY <1>1, <1>2, <1>3

\* The invariant holds of every build.
THEOREM BuildInvariant == BuildSpec => []BInv
<1>1. BuildInit => BInv
  BY BuildInitInv
<1>2. BInv /\ [BuildNext]_buildVars => BInv'
  BY BuildStepInv
<1>3. QED
  BY <1>1, <1>2, PTL DEF BuildSpec

\* The types of the variables of a build.
THEOREM AlwaysBuildTyped == BuildSpec => []BuildTypeOK
<1>1. BInv => BuildTypeOK
  BY DEF BInv, SessionPart, IInv, CodegenTypes, Later, BuildTypeOK
<1>2. QED
  BY <1>1, BuildInvariant, PTL

\* What the loop collected is closed under calls when the stack is empty.
LEMMA ExactAtReturn == BInv => CallGraphExact
<1>1. SUFFICES ASSUME BInv, pc = "ok" PROVE collected_functions = Reachable
  BY DEF CallGraphExact
<1>2. /\ CallsKnown /\ LoopInv /\ TypeOK
  BY <1>1 DEF BInv, SessionPart, IInv
<1>3. functions_to_process = << >> /\ ToSet(<< >>) = {}
  BY <1>1, <1>2 DEF CallsKnown, ToSet
<1>4. ClosedUnderCalls(collected_functions)
  BY <1>1, <1>2, <1>3 DEF CallsKnown, ClosedUnderCalls
<1>5. Reachable \subseteq collected_functions
  BY <1>2, <1>4 DEF Reachable, TypeOK
<1>6. collected_functions \subseteq Reachable
  BY <1>1, <1>2 DEF LoopInv
<1>7. QED
  BY <1>5, <1>6

\* In a build, call_graph_of returns exactly the functions the entry leads to,
\* for every program.
THEOREM AlwaysExact == BuildSpec => []CallGraphExact
<1>1. BInv => CallGraphExact
  BY ExactAtReturn
<1>2. QED
  BY <1>1, BuildInvariant, PTL

\* Generated code refers only to functions that were declared: the lookups
\* fids[value] never miss a function.
THEOREM AlwaysFidsResolve == BuildSpec => []FidsResolve
<1>1. BInv => FidsResolve
  <2>1. SUFFICES ASSUME BInv, stage \in {"build", "done"}, NEW f \in Defined,
                        NEW u \in prog.uses[f] \cap Callable
                 PROVE  fids[u] # 0
    BY DEF FidsResolve
  <2>2. /\ pc = "ok" /\ Included = collected_functions
        /\ n_declared = Len(funcs_ordered)
    BY <2>1 DEF BInv, GraphIncluded, DeclaredHaveIds, Later
  <2>3. f \in collected_functions
    BY <2>2 DEF Defined
  <2>4. u \in collected_functions
    <3>1. u \in Calls(f)
      BY DEF Calls
    <3>2. functions_to_process = << >> /\ ToSet(<< >>) = {}
      BY <2>1, <2>2 DEF BInv, SessionPart, CallsKnown, ToSet
    <3>3. QED
      BY <2>1, <2>2, <2>3, <3>1, <3>2 DEF BInv, SessionPart, CallsKnown
  <2>5. u \in Object /\ index[u] # 0
    BY <2>2, <2>4 DEF Included
  <2>6. index[u] <= n_declared
    BY <2>1, <2>2, <2>5 DEF BInv, CodegenTypes
  <2>7. QED
    BY <2>1, <2>5, <2>6 DEF BInv, DeclaredHaveIds
<1>2. QED
  BY <1>1, BuildInvariant, PTL

-----------------------------------------------------------------------------
(* The two numberings.                                                     *)

\* CgData's list: the place of a function holds its name, and every place is that
\* of a function or the one of malloc.
Numbered ==
  /\ to_include \cap Included = {}
  /\ \A f \in Included : funcs_ordered[index[f]] = NameOf(f)
  /\ \A i \in 1 .. Len(funcs_ordered) :
       (\E f \in Included : index[f] = i) \/ (i = alloc /\ funcs_ordered[i] = Malloc)
  /\ stage \in {"session", "include"} => alloc = 0
  /\ stage \in Later => alloc # 0 /\ funcs_ordered[alloc] = Malloc

\* The object module's list begins as CgData's.
InStep ==
  /\ n_declared <= Len(declared)
  /\ stage \in {"session", "include", "declare"} => Len(declared) = n_declared
  /\ \A i \in 1 .. n_declared : declared[i] = funcs_ordered[i]
  /\ \A f \in Included : index[f] <= n_declared => fids[f] = index[f]

NInv == BInv /\ Numbered /\ InStep

\* Distinct names stand at distinct places.
LEMMA PlacesDistinct ==
  ASSUME DistinctNames, NInv, NEW i \in 1 .. Len(funcs_ordered), NEW j \in 1 .. Len(funcs_ordered),
         funcs_ordered[i] = funcs_ordered[j]
  PROVE  i = j
<1>1. \A f \in Object : NameOf(f) # Malloc
  BY DEF NameOf, DistinctNames
<1>2. \A f, g \in Object : NameOf(f) = NameOf(g) => f = g
  BY DEF NameOf, DistinctNames
<1>3. \A f \in Included : f \in Object /\ funcs_ordered[index[f]] = NameOf(f)
  BY DEF NInv, Numbered, Included
<1>4. \/ \E f \in Included : index[f] = i
      \/ i = alloc /\ funcs_ordered[i] = Malloc
  BY DEF NInv, Numbered
<1>5. \/ \E f \in Included : index[f] = j
      \/ j = alloc /\ funcs_ordered[j] = Malloc
  BY DEF NInv, Numbered
<1>6. QED
  BY <1>1, <1>2, <1>3, <1>4, <1>5

LEMMA NumberingInit == BuildInit => NInv
<1>1. SUFFICES ASSUME BuildInit PROVE NInv
  OBVIOUS
<1>2. BInv
  BY <1>1, BuildInitInv
<1>3. Numbered /\ InStep
  BY <1>1 DEF BuildInit, Numbered, InStep, Included, Later
<1>4. QED
  BY <1>2, <1>3 DEF NInv

\* Steps that leave both lists alone.
LEMMA NumberingKept ==
  ASSUME NInv, BInv', UNCHANGED <<funcs_ordered, index, alloc, n_declared, declared, fids>>,
         to_include' \cap Included = {},
         stage' \in {"session", "include"} => stage \in {"session", "include"},
         stage' \in Later => stage \in Later,
         stage' = "declare" => stage = "declare"
  PROVE  NInv'
<1>1. Included' = Included
  BY DEF Included
<1>2. Numbered' /\ InStep'
  BY <1>1 DEF NInv, Numbered, InStep, Later
<1>3. QED
  BY <1>2 DEF NInv

LEMMA IncludeNumbering ==
  ASSUME NInv, BInv', NEW f \in Object, IncludeFunction(f)
  PROVE  NInv'
<1>1. /\ stage = "include" /\ stage' = "include" /\ f \in to_include
      /\ funcs_ordered' = Append(funcs_ordered, NameOf(f))
      /\ index' = [index EXCEPT ![f] = Len(funcs_ordered) + 1]
      /\ to_include' = to_include \ {f}
      /\ UNCHANGED <<alloc, n_declared, declared, fids>>
  BY DEF IncludeFunction
<1>2. /\ funcs_ordered \in Seq(Object \cup Symbol) /\ Len(funcs_ordered) \in Nat
      /\ index \in [Object -> 0 .. Len(funcs_ordered)] /\ n_declared = 0 /\ alloc = 0
      /\ Numbered /\ InStep
  BY <1>1 DEF NInv, BInv, CodegenTypes, DeclaredHaveIds, Numbered
<1>3. /\ Len(funcs_ordered') = Len(funcs_ordered) + 1
      /\ funcs_ordered'[Len(funcs_ordered) + 1] = NameOf(f)
      /\ \A i \in 1 .. Len(funcs_ordered) : funcs_ordered'[i] = funcs_ordered[i]
  <2>1. NameOf(f) \in Object \cup Symbol
    BY DEF NameOf
  <2>2. QED
    BY <1>1, <1>2, <2>1
<1>4. \A g \in Object : index'[g] = IF g = f THEN Len(funcs_ordered) + 1 ELSE index[g]
  BY <1>1, <1>2
<1>5. Included' = Included \cup {f} /\ f \notin Included
  BY <1>1, <1>2, <1>4 DEF Included, Numbered
<1>6. \A g \in Included : g \in Object /\ g # f /\ index[g] \in 1 .. Len(funcs_ordered) /\ index'[g] = index[g]
  BY <1>2, <1>4, <1>5 DEF Included
<1>7. \A g \in Included' : funcs_ordered'[index'[g]] = NameOf(g)
  BY <1>2, <1>3, <1>4, <1>5, <1>6 DEF Numbered
<1>8. \A i \in 1 .. Len(funcs_ordered') : \E g \in Included' : index'[g] = i
  <2>1. SUFFICES ASSUME NEW i \in 1 .. Len(funcs_ordered') PROVE \E g \in Included' : index'[g] = i
    OBVIOUS
  <2>2. CASE i = Len(funcs_ordered) + 1
    BY <1>4, <1>5, <2>2
  <2>3. CASE i # Len(funcs_ordered) + 1
    <3>1. i \in 1 .. Len(funcs_ordered)
      BY <1>2, <1>3, <2>1, <2>3
    <3>2. \E g \in Included : index[g] = i
      BY <1>2, <3>1 DEF Numbered
    <3>3. QED
      BY <1>5, <1>6, <3>2
  <2>4. QED
    BY <2>2, <2>3
<1>9. Numbered'
  BY <1>1, <1>2, <1>5, <1>7, <1>8 DEF Numbered, Later
<1>10. InStep'
  <2>1. \A g \in Included' : ~(index'[g] <= n_declared')
    BY <1>1, <1>2, <1>4, <1>5, <1>6
  <2>2. QED
    BY <1>1, <1>2, <2>1 DEF InStep
<1>11. QED
  BY <1>9, <1>10 DEF NInv

LEMMA MallocNumbering == ASSUME NInv, BInv', DeclMalloc PROVE NInv'
<1>1. /\ stage = "include" /\ stage' = "declare" /\ to_include = {}
      /\ funcs_ordered' = Append(funcs_ordered, Malloc) /\ alloc' = Len(funcs_ordered) + 1
      /\ UNCHANGED <<to_include, index, n_declared, declared, fids>>
  BY DEF DeclMalloc
<1>2. /\ funcs_ordered \in Seq(Object \cup Symbol) /\ Len(funcs_ordered) \in Nat
      /\ index \in [Object -> 0 .. Len(funcs_ordered)] /\ n_declared = 0 /\ alloc = 0
      /\ Numbered /\ InStep
  BY <1>1 DEF NInv, BInv, CodegenTypes, DeclaredHaveIds, Numbered
<1>3. /\ Len(funcs_ordered') = Len(funcs_ordered) + 1
      /\ funcs_ordered'[Len(funcs_ordered) + 1] = Malloc
      /\ \A i \in 1 .. Len(funcs_ordered) : funcs_ordered'[i] = funcs_ordered[i]
  BY <1>1, <1>2
<1>4. Included' = Included /\ \A g \in Included : index[g] \in 1 .. Len(funcs_ordered)
  BY <1>1, <1>2 DEF Included
<1>5. \A i \in 1 .. Len(funcs_ordered') :
        (\E g \in Included : index[g] = i) \/ (i = alloc' /\ funcs_ordered'[i] = Malloc)
  <2>1. SUFFICES ASSUME NEW i \in 1 .. Len(funcs_ordered'), i # Len(funcs_ordered) + 1
                 PROVE  \E g \in Included : index[g] = i
    BY <1>1, <1>3
  <2>2. i \in 1 .. Len(funcs_ordered)
    BY <1>2, <1>3, <2>1
  <2>3. QED
    BY <1>2, <2>2 DEF Numbered
<1>6. Numbered'
  BY <1>1, <1>2, <1>3, <1>4, <1>5 DEF Numbered, Later
<1>7. InStep'
  BY <1>1, <1>2, <1>4 DEF InStep
<1>8. QED
  BY <1>6, <1>7 DEF NInv

LEMMA DeclareNumbering ==
  ASSUME DistinctNames, NInv, BInv', DeclareFunction
  PROVE  NInv'
<1> DEFINE n == n_declared + 1
           name == funcs_ordered[n]
<1>1. /\ stage = "declare" /\ stage' = stage /\ n_declared < Len(funcs_ordered)
      /\ n_declared' = n /\ declared' = Declared(name)
      /\ fids' = [f \in Object |-> IF index[f] = n THEN FuncIdOf(name) ELSE fids[f]]
      /\ UNCHANGED <<to_include, funcs_ordered, index, alloc>>
  BY DEF DeclareFunction
<1>2. /\ declared \in Seq(Object \cup Symbol) /\ funcs_ordered \in Seq(Object \cup Symbol)
      /\ n_declared \in Nat /\ Len(declared) = n_declared /\ n \in 1 .. Len(funcs_ordered)
      /\ index \in [Object -> 0 .. Len(funcs_ordered)]
      /\ Numbered /\ InStep
  BY <1>1 DEF NInv, BInv, CodegenTypes, InStep
<1>3. name \in Object \cup Symbol
  BY <1>2
<1>4. name \notin ToSet(declared)
  <2>1. SUFFICES ASSUME name \in ToSet(declared) PROVE FALSE
    OBVIOUS
  <2>2. PICK j \in 1 .. Len(declared) : name = declared[j]
    BY <1>2, <2>1, Elements
  <2>3. j \in 1 .. Len(funcs_ordered) /\ funcs_ordered[j] = funcs_ordered[n] /\ j # n
    <3>1. j \in 1 .. n_declared /\ j \in 1 .. Len(funcs_ordered) /\ j # n
      BY <1>2
    <3>2. declared[j] = funcs_ordered[j]
      BY <1>2, <3>1 DEF InStep
    <3>3. QED
      BY <2>2, <3>1, <3>2
  <2>4. QED
    BY <1>2, <2>3, PlacesDistinct
<1>5. declared' = Append(declared, name) /\ FuncIdOf(name) = n
  BY <1>1, <1>2, <1>4 DEF Declared, FuncIdOf
<1>6. /\ Len(declared') = n /\ declared'[n] = name
      /\ \A i \in 1 .. n_declared : declared'[i] = declared[i]
  BY <1>2, <1>3, <1>5
<1>7. Included' = Included
  BY <1>1 DEF Included
<1>8. Numbered'
  BY <1>1, <1>2, <1>7 DEF Numbered, Later
<1>9. InStep'
  <2>1. \A i \in 1 .. n : declared'[i] = funcs_ordered[i]
    <3>1. SUFFICES ASSUME NEW i \in 1 .. n PROVE declared'[i] = funcs_ordered[i]
      OBVIOUS
    <3>2. i = n \/ i \in 1 .. n_declared
      BY <1>2
    <3>3. QED
      BY <1>2, <1>6, <3>2 DEF InStep
  <2>2. \A f \in Included : index[f] <= n => fids'[f] = index[f]
    <3>1. SUFFICES ASSUME NEW f \in Included, index[f] <= n PROVE fids'[f] = index[f]
      OBVIOUS
    <3>2. f \in Object /\ index[f] \in Nat
      BY <1>2 DEF Included
    <3>3. CASE index[f] = n
      BY <1>1, <1>5, <3>2, <3>3
    <3>4. CASE index[f] # n
      <4>1. index[f] <= n_declared /\ fids'[f] = fids[f]
        BY <1>1, <1>2, <3>1, <3>2, <3>4
      <4>2. QED
        BY <1>2, <4>1 DEF InStep
    <3>5. QED
      BY <3>3, <3>4
  <2>3. n_declared' = n /\ n <= Len(declared') /\ Len(declared') = n
    BY <1>1, <1>2, <1>6
  <2>4. funcs_ordered' = funcs_ordered /\ index' = index
    BY <1>1
  <2> HIDE DEF n, name
  <2>5. QED
    BY <1>7, <2>1, <2>2, <2>3, <2>4 DEF InStep
<1>10. QED
  BY <1>8, <1>9 DEF NInv

LEMMA MainNumbering == ASSUME NInv, BInv', DefineMain PROVE NInv'
<1>1. /\ stage = "declare" /\ stage' \in {"build", "panic"}
      /\ declared' = declared \/ declared' = Declared(MainSymbol)
      /\ UNCHANGED <<to_include, funcs_ordered, index, alloc, n_declared, fids>>
  BY DEF DefineMain
<1>2. CodegenTypes /\ Numbered /\ InStep
  BY DEF NInv, BInv
<1>3. /\ Len(declared) <= Len(declared') /\ Len(declared') \in Nat /\ Len(declared) \in Nat
      /\ \A i \in 1 .. Len(declared) : declared'[i] = declared[i]
  <2>1. declared \in Seq(Object \cup Symbol) /\ MainSymbol \in Object \cup Symbol
    BY <1>2, SymbolAssumption DEF CodegenTypes
  <2>2. CASE declared' = declared
    BY <2>1, <2>2
  <2>3. CASE declared' = Declared(MainSymbol)
    BY <1>2, <2>1, <2>3, FuncIdFacts
  <2>4. QED
    BY <1>1, <2>2, <2>3
<1>4. Included' = Included
  BY <1>1 DEF Included
<1>5. Numbered'
  BY <1>1, <1>2, <1>4 DEF Numbered, Later
<1>6. InStep'
  BY <1>1, <1>2, <1>3, <1>4 DEF InStep, CodegenTypes
<1>7. QED
  BY <1>5, <1>6 DEF NInv

LEMMA NumberingStep == DistinctNames /\ NInv /\ [BuildNext]_buildVars => NInv'
<1>1. SUFFICES ASSUME DistinctNames, NInv, [BuildNext]_buildVars PROVE NInv'
  OBVIOUS
<1>2. BInv /\ BInv' /\ Numbered /\ GraphIncluded
  BY <1>1, BuildStepInv DEF NInv, BInv
<1>3. CASE SessionStep \/ UNCHANGED buildVars
  BY <1>1, <1>2, <1>3, NumberingKept
     DEF SessionStep, buildVars, codegen, Numbered, NInv, Included
<1>4. CASE StartInclude
  <2>1. /\ Included = {} /\ stage = "session" /\ stage' = "include"
        /\ UNCHANGED <<funcs_ordered, index, alloc, n_declared, declared, fids>>
    BY <1>2, <1>4 DEF StartInclude, GraphIncluded
  <2>2. QED
    BY <1>1, <1>2, <2>1, NumberingKept DEF Later
<1>5. CASE \E f \in Object : IncludeFunction(f)
  BY <1>1, <1>2, <1>5, IncludeNumbering
<1>6. CASE DeclMalloc
  BY <1>1, <1>2, <1>6, MallocNumbering
<1>7. CASE DeclareFunction
  BY <1>1, <1>2, <1>7, DeclareNumbering
<1>8. CASE DefineMain
  BY <1>1, <1>2, <1>8, MainNumbering
<1>9. CASE BuildFails \/ Emit \/ \E f \in Object : BuildFunc(f)
  <2>1. /\ stage \in {"include", "declare", "build"} /\ stage' \in {"build", "done", "panic"}
        /\ stage' \in {"build", "done"} => stage = "build"
        /\ UNCHANGED <<to_include, funcs_ordered, index, alloc, n_declared, declared, fids>>
    BY <1>9 DEF BuildFails, Emit, BuildFunc, codegen
  <2>2. QED
    BY <1>1, <1>2, <2>1, NumberingKept DEF Later, Numbered
<1>10. QED
  BY <1>1, <1>3, <1>4, <1>5, <1>6, <1>7, <1>8, <1>9 DEF BuildNext

\* When the foreign functions of a program have names of their own, the number
\* written into the code is the FuncId of the function meant: main calls the
\* entry, and allocations call malloc.
THEOREM AlwaysNumbersAgree ==
  ASSUME DistinctNames
  PROVE  BuildSpec => []NumbersAgree
<1>1. BuildInit => NInv
  BY NumberingInit
<1>2. NInv /\ [BuildNext]_buildVars => NInv'
  BY NumberingStep
<1>3. NInv => NumbersAgree
  <2>1. SUFFICES ASSUME NInv, stage \in {"build", "done"}
                 PROVE  /\ \A f \in Included : /\ fids[f] = index[f]
                                               /\ index[f] <= Len(declared)
                                               /\ declared[index[f]] = NameOf(f)
                        /\ alloc <= Len(declared) /\ declared[alloc] = Malloc
    BY DEF NumbersAgree
  <2>2. /\ n_declared = Len(funcs_ordered) /\ Numbered /\ InStep /\ CodegenTypes
    BY <2>1 DEF NInv, BInv, DeclaredHaveIds
  <2>3. alloc \in 1 .. n_declared /\ funcs_ordered[alloc] = Malloc
    BY <2>1, <2>2 DEF Numbered, CodegenTypes, Later
  <2>4. alloc <= Len(declared) /\ declared[alloc] = Malloc
    BY <2>2, <2>3 DEF InStep, CodegenTypes
  <2>5. \A f \in Included : index[f] \in 1 .. n_declared /\ index[f] <= n_declared
    BY <2>2 DEF Included, CodegenTypes
  <2>6. \A f \in Included : index[f] <= Len(declared)
    BY <2>2, <2>5 DEF InStep, CodegenTypes
  <2>7. \A f \in Included : declared[index[f]] = NameOf(f)
    BY <2>2, <2>5 DEF InStep, Numbered
  <2>8. QED
    BY <2>2, <2>4, <2>5, <2>6, <2>7 DEF InStep
<1>4. QED
  BY <1>1, <1>2, <1>3, PTL DEF BuildSpec

-----------------------------------------------------------------------------
(* The call graph as a search.                                             *)

\* The functions that an object of the runtime holds are those of the program.
HeldFinal == \A t \in heap \cap Object : held[t] \cap Callable = prog.holds[t] \cap Callable

LEMMA IncludeKeepsFinal ==
  ASSUME SessionPart, HeldFinal, NEW m \in Module, IncludeModule(m)
  PROVE  HeldFinal' /\ prog' = prog
<1>1. /\ prog' = prog
      /\ heap' = heap \cup {m} \cup OwnedBy(m)
      /\ held' = [t \in Thing |-> IF t \in heap' \ heap THEN prog.holds[t] ELSE held[t]]
  BY DEF IncludeModule, Eval
<1>2. Callable' = Callable /\ Object \subseteq Thing
  BY <1>1 DEF Callable, Thing
<1>3. QED
  BY <1>1, <1>2 DEF HeldFinal

LEMMA SetupKeepsFinal ==
  ASSUME SessionPart, HeldFinal, InitSetup
  PROVE  HeldFinal' /\ prog' = prog
<1>1. /\ prog' = prog
      /\ heap' = heap \cup OwnedBy(Setup)
      /\ held' = [t \in Thing |-> IF t \in OwnedBy(Setup) THEN prog.holds[t]
                                  ELSE IF t \in heap THEN held[t] \cup prog.patch[t]
                                  ELSE held[t]]
  BY DEF InitSetup
<1>2. Callable' = Callable /\ Object \subseteq Thing
  BY <1>1 DEF Callable, Thing
<1>3. \A t \in Thing : prog.patch[t] \cap Callable = {}
  <2>1. WellFormed(prog) /\ Bootstrap \notin Object
    BY ModuleAssumption DEF SessionPart, IInv
  <2>2. QED
    BY <2>1 DEF WellFormed, Callable
<1>4. QED
  BY <1>1, <1>2, <1>3 DEF HeldFinal

LEMMA FinalStep == BInv /\ HeldFinal /\ [BuildNext]_buildVars => HeldFinal' /\ prog' = prog
<1>1. SUFFICES ASSUME BInv, HeldFinal, [BuildNext]_buildVars PROVE HeldFinal' /\ prog' = prog
  OBVIOUS
<1>2. SessionPart
  BY <1>1 DEF BInv
<1>3. CASE SessionStep
  <2>1. CASE Initialize
    <3>1. CASE \E m \in Module : IncludeModule(m)
      BY <1>1, <1>2, <3>1, IncludeKeepsFinal
    <3>2. CASE InitSetup
      BY <1>1, <1>2, <3>2, SetupKeepsFinal
    <3>3. CASE InitFails
      BY <1>1, <3>3 DEF InitFails, runtime, HeldFinal, Callable
    <3>4. QED
      BY <2>1, <3>1, <3>2, <3>3, ModuleAssumption DEF Initialize, InitBuiltins, InitBootstrap
  <2>2. CASE CallGraphOf(Entry)
    <3>1. CASE Main \in loaded
      BY <1>1, <2>2, <3>1 DEF CallGraphOf, runtime, HeldFinal, Callable
    <3>2. CASE Main \notin loaded
      <4>1. IncludeModule(Main) /\ Main \in Module
        BY <2>2, <3>2, ModuleAssumption DEF CallGraphOf
      <4>2. QED
        BY <1>1, <1>2, <4>1, IncludeKeepsFinal
    <3>3. QED
      BY <3>1, <3>2
  <2>3. CASE Loop
    BY <1>1, <2>3 DEF Loop, ProcessFunction, TypecheckFails, RefFails, Collected,
                      CacheFlowgraph, runtime, HeldFinal, Callable
  <2>4. QED
    BY <1>3, <2>1, <2>2, <2>3 DEF SessionStep
<1>4. CASE ~SessionStep
  <2>1. prog' = prog /\ heap' = heap /\ held' = held
    BY <1>1, <1>4 DEF BuildNext, buildVars, vars, runtime, StartInclude, IncludeFunction, BuildFunc,
                      DeclMalloc, DeclareFunction, DefineMain, BuildFails, Emit, CacheFlowgraph
  <2>2. QED
    BY <1>1, <2>1 DEF HeldFinal, Callable
<1>5. QED
  BY <1>3, <1>4

\* The references of the function in hand, once it is type checked, give the calls
\* of the program.
LEMMA CallsOfCurrent ==
  ASSUME BInv, HeldFinal, pc = "loop", functions_to_process # << >>, CacheFlowgraph(Current)
  PROVE  RefsAfter(Current) \cap Callable = FinalCalls(Current) /\ Calls(Current) = FinalCalls(Current)
<1>1. SessionPart /\ IInv
  BY DEF BInv, SessionPart
<1>2. Current \in values \cap Object /\ Main \in loaded /\ values \subseteq heap
  BY <1>1, CurrentFacts DEF IInv, LoopInv, TypeOK
<1>3. prog.uses[Current] \cup held[Current] \subseteq RefsAfter(Current)
  BY <1>1, <1>2, CachePart
<1>4. RefsAfter(Current) \subseteq held[Current] \cup prog.uses[Current]
  <2>1. \A t \in Thing : internal_refs[t] \subseteq held[t] \cup UsesOf(t)
    BY <1>1 DEF IInv, MirrorExact
  <2>2. QED
    BY <1>2, <2>1 DEF RefsAfter, UsesOf, Thing
<1>5. held[Current] \cap Callable = prog.holds[Current] \cap Callable
  BY <1>2 DEF HeldFinal
<1>6. QED
  BY <1>3, <1>4, <1>5 DEF FinalCalls, Calls

\* The state of the abstract search, as the refinement mapping gives it.
Succ == [f \in Object |-> FinalCalls(f)]
Frontier == IF Searching THEN ToSet(functions_to_process) \ collected_functions ELSE {Entry}
Out == IF pc = "ok" THEN "done"
       ELSE IF pc \in {"err", "panic", "failed"} THEN "failed" ELSE "running"

LEMMA ProcessIsVisit ==
  ASSUME BInv, HeldFinal, ProcessFunction
  PROVE  \/ /\ Current \in Frontier /\ collected_functions' = collected_functions \cup {Current}
            /\ Frontier' = (Frontier \cup FinalCalls(Current)) \ collected_functions'
         \/ collected_functions' = collected_functions /\ Frontier' = Frontier
<1>1. /\ pc = "loop" /\ pc' = "loop" /\ functions_to_process # << >> /\ CacheFlowgraph(Current)
      /\ collected_functions' = collected_functions \cup {Current}
  BY DEF ProcessFunction
<1>2. PICK order \in Orders(Pending(Current)) :
        functions_to_process' = Front(functions_to_process) \o order
  BY DEF ProcessFunction
<1>3. SessionPart /\ IInv
  BY DEF BInv, SessionPart
<1>4. ToSet(functions_to_process) = ToSet(Front(functions_to_process)) \cup {Current}
  BY <1>1, <1>3, CurrentFacts
<1>5. ToSet(functions_to_process') = ToSet(Front(functions_to_process)) \cup Pending(Current)
  BY <1>1, <1>2, <1>3, PushFacts
<1>6. /\ Pending(Current) = FinalCalls(Current) \ collected_functions
      /\ Calls(Current) = FinalCalls(Current)
  BY <1>1, CallsOfCurrent DEF Pending
<1>7. /\ Frontier = ToSet(functions_to_process) \ collected_functions
      /\ Frontier' = ToSet(functions_to_process') \ collected_functions'
  BY <1>1 DEF Frontier, Searching
<1>8. CASE Current \notin collected_functions
  BY <1>1, <1>4, <1>5, <1>6, <1>7, <1>8
<1>9. CASE Current \in collected_functions
  <2>1. FinalCalls(Current) \subseteq collected_functions \cup ToSet(functions_to_process)
    BY <1>1, <1>3, <1>6, <1>9 DEF SessionPart, CallsKnown
  <2>2. QED
    BY <1>1, <1>4, <1>5, <1>6, <1>7, <1>9, <2>1
<1>10. QED
  BY <1>8, <1>9

\* Every other step of a build fails, finishes, or leaves the search as it is.
SearchKept == collected_functions' = collected_functions /\ Frontier' = Frontier

LEMMA OtherSteps ==
  ASSUME BInv, [BuildNext]_buildVars, ~(SessionStep /\ ProcessFunction)
  PROVE  /\ SearchKept
         /\ \/ Out' = Out
            \/ Out = "running" /\ Out' = "failed"
            \/ Out = "running" /\ Out' = "done" /\ Frontier = {}
<1>1. SessionPart
  BY DEF BInv
<1>2. CASE SessionStep /\ Initialize
  <2>1. /\ pc \in {"builtins", "bootstrap", "setup"} /\ UNCHANGED search
        /\ pc' \in {"bootstrap", "setup", "idle", "failed"}
    BY <1>2 DEF Initialize, InitBuiltins, InitBootstrap, InitSetup, InitFails
  <2>2. QED
    BY <2>1 DEF search, SearchKept, Frontier, Out, Searching
<1>3. CASE SessionStep /\ pc = "idle" /\ CallGraphOf(Entry)
  <2>1. /\ pc = "idle" /\ collected_functions' = {} /\ collected_functions = {}
        /\ \/ functions_to_process' = <<Entry>> /\ pc' = "loop"
           \/ functions_to_process' = << >> /\ pc' \in {"err", "panic"}
    BY <1>1, <1>3 DEF CallGraphOf, SessionPart, Fresh
  <2>2. ToSet(<<Entry>>) = {Entry}
    BY DEF ToSet
  <2>3. QED
    BY <2>1, <2>2 DEF SearchKept, Frontier, Out, Searching
<1>4. CASE SessionStep /\ (TypecheckFails \/ RefFails)
  <2>1. pc = "loop" /\ pc' \in {"err", "panic"} /\ functions_to_process # << >> /\ UNCHANGED search
    BY <1>4 DEF TypecheckFails, RefFails
  <2>2. QED
    BY <2>1 DEF search, SearchKept, Frontier, Out, Searching
<1>5. CASE SessionStep /\ Collected
  <2>1. /\ pc = "loop" /\ pc' = "ok" /\ functions_to_process = << >> /\ functions_to_process' = << >>
        /\ collected_functions' = collected_functions \cup {entry}
    BY <1>5 DEF Collected
  <2>2. ToSet(<< >>) = {}
    BY DEF ToSet
  <2>3. collected_functions' = collected_functions
    BY <1>1, <2>1, <2>2 DEF SessionPart, CallsKnown
  <2>4. QED
    BY <2>1, <2>2, <2>3 DEF SearchKept, Frontier, Out, Searching
<1>6. CASE ~SessionStep
  <2>1. collected_functions' = collected_functions /\ functions_to_process' = functions_to_process /\ pc' = pc
    BY <1>6 DEF BuildNext, buildVars, vars, search, StartInclude, IncludeFunction, BuildFunc,
                DeclMalloc, DeclareFunction, DefineMain, BuildFails, Emit
  <2>2. QED
    BY <2>1 DEF SearchKept, Frontier, Out, Searching
<1>7. QED
  BY <1>2, <1>3, <1>4, <1>5, <1>6 DEF SessionStep, Loop

\* In a build, call_graph_of is a search of the call graph from the entry.
THEOREM CallGraphImplementsSearch == BuildSpec => CallGraphIsSearch
<1>1. BuildInit => AbstractSearch!Init /\ HeldFinal
  <2>1. SUFFICES ASSUME BuildInit PROVE AbstractSearch!Init /\ HeldFinal
    OBVIOUS
  <2>2. Succ \in [Object -> SUBSET Object]
    BY DEF Succ, FinalCalls, Callable
  <2>3. collected_functions = {} /\ Frontier = {Entry} /\ Out = "running" /\ heap = {}
    BY <2>1 DEF BuildInit, Init, Frontier, Out, Searching
  <2>4. AbstractSearch!Init
    BY <2>2, <2>3 DEF AbstractSearch!Init, Succ, Frontier, Out
  <2>5. QED
    BY <2>3, <2>4 DEF HeldFinal
<1>2. BInv /\ HeldFinal /\ [BuildNext]_buildVars =>
        [AbstractSearch!Next]_(AbstractSearch!vars) /\ HeldFinal'
  <2>1. SUFFICES ASSUME BInv, HeldFinal, [BuildNext]_buildVars
                 PROVE  [AbstractSearch!Next]_(AbstractSearch!vars)
    BY FinalStep
  <2>2. Succ' = Succ
    BY <2>1, FinalStep DEF Succ, FinalCalls, Callable
  <2>3. CASE SessionStep /\ ProcessFunction
    <3>1. /\ Current \in Object /\ Out = "running" /\ Out' = "running"
          /\ Succ[Current] = FinalCalls(Current)
      BY <2>1, <2>3, CurrentFacts DEF BInv, SessionPart, ProcessFunction, Out, Succ
    <3>2. CASE /\ Current \in Frontier /\ collected_functions' = collected_functions \cup {Current}
               /\ Frontier' = (Frontier \cup FinalCalls(Current)) \ collected_functions'
      <4>1. AbstractSearch!Visit(Current)
        BY <2>2, <3>1, <3>2 DEF AbstractSearch!Visit, Succ, Frontier, Out
      <4>2. QED
        BY <3>1, <4>1 DEF AbstractSearch!Next
    <3>3. CASE SearchKept
      BY <2>2, <3>1, <3>3 DEF AbstractSearch!vars, SearchKept, Succ, Frontier, Out
    <3>4. QED
      BY <2>1, <2>3, <3>2, <3>3, ProcessIsVisit DEF SearchKept
  <2>4. CASE ~(SessionStep /\ ProcessFunction)
    <3>1. SearchKept
      BY <2>1, <2>4, OtherSteps
    <3>2. CASE Out' = Out
      BY <2>2, <3>1, <3>2 DEF AbstractSearch!vars, SearchKept, Succ, Frontier, Out
    <3>3. CASE Out = "running" /\ Out' = "failed"
      <4>1. AbstractSearch!Fail
        BY <2>2, <3>1, <3>3 DEF AbstractSearch!Fail, SearchKept, Succ, Frontier, Out
      <4>2. QED
        BY <4>1 DEF AbstractSearch!Next
    <3>4. CASE Out = "running" /\ Out' = "done" /\ Frontier = {}
      <4>1. AbstractSearch!Finish
        BY <2>2, <3>1, <3>4 DEF AbstractSearch!Finish, SearchKept, Succ, Frontier, Out
      <4>2. QED
        BY <4>1 DEF AbstractSearch!Next
    <3>5. QED
      BY <2>1, <2>4, <3>2, <3>3, <3>4, OtherSteps
  <2>5. QED
    BY <2>3, <2>4
<1>3. QED
  BY <1>1, <1>2, BuildInvariant, PTL DEF BuildSpec, CallGraphIsSearch, AbstractSearch!Spec
=============================================================================
