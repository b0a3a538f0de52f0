------------------------------- MODULE Types -------------------------------
(***************************************************************************)
(* The types of values (SessionContext, Queries::get_type_of) over the     *)
(* type table: the properties of the builtin classes are entered while the *)
(* session is set up, and from then on values are typed, tuples are made   *)
(* and properties are looked up in any order, while the classes get new    *)
(* attributes.                                                             *)
(***************************************************************************)
EXTENDS Typing, FiniteSets

CONSTANTS Value,      \* values of the store
          Describe,   \* what each of them is
          Attribute,  \* names of properties
          Entry,      \* bound: attributes that classes are given, with their values
          MaxTypes    \* bound: types added to the builtin ones

\* A value is an object of a builtin class, a function, a list of others, or a class.
\* Annotations are kinds: of a builtin type, or of the instances of a class.
ObjectOf(b)       == [what |-> "object", builtin |-> b]
FuncOf(params, ret) == [what |-> "func", params |-> params, ret |-> ret]
ListOf(elems)     == [what |-> "list", elems |-> elems]
ClassValue        == [what |-> "class"]

Annotation == {Builtin(b) : b \in DOMAIN Tag} \cup {InstanceKind(c) : c \in Value}
\* What a list may hold.
Element == {v \in Value : Describe[v].what # "list"}

ASSUME DescribeAssumption ==
  /\ DOMAIN Describe = Value
  /\ Entry \subseteq Attribute \X Value
  /\ MaxTypes \in Nat
  /\ \A v \in Value :
       \/ Describe[v].what = "object" /\ Describe[v].builtin \in DOMAIN Tag
       \/ Describe[v].what = "class"
       \/ /\ Describe[v].what = "func"
          /\ Describe[v].params \in Seq(Annotation)
          /\ Describe[v].ret \in Annotation
       \/ Describe[v].what = "list" /\ Describe[v].elems \in Seq(Element)

VARIABLES tcx,
          setup,    \* initialize_hlirt is at work
          type_id,  \* metadata of a value: its type, or 0
          dict,     \* __dict__ of a class: the values of its attributes
          answers   \* history: what get_type_of has said of a value, and for what __dict__

vars == <<tcx, setup, type_id, dict, answers>>

Init ==
  /\ tcx = Initialized
  /\ setup = TRUE
  /\ type_id = [v \in Value |-> 0]
  /\ dict = [v \in Value |-> NoProperties]
  /\ answers = [v \in Value |-> {}]

Room == tcx.next_free < FirstId + MaxTypes

-----------------------------------------------------------------------------
ResolveTypeAnnotation(t, ann) ==
  IF DOMAIN ann = {"builtin"} THEN Answer(t, Tag[ann.builtin]) ELSE Insert(t, Plain(ann))

\* The annotations of the parameters in order: the table and the ids so far.
Resolve(acc, ann) ==
  LET r == ResolveTypeAnnotation(acc.tcx, ann) IN [tcx |-> r, ids |-> Append(acc.ids, r.id)]
Resolved(t, anns) ==
  LET resolved[n \in 0 .. Len(anns)] ==
        IF n = 0 THEN [tcx |-> t, ids |-> << >>] ELSE Resolve(resolved[n - 1], anns[n])
  IN  resolved[Len(anns)]

\* The type of a function: its annotations, then the signature.  An unannotated
\* parameter is None, but for self.
FunctionType(t, d) ==
  LET params == Resolved(t, d.params)
      ret == ResolveTypeAnnotation(params.tcx, d.ret)
  IN  Callable(ret, params.ids, ret.id)

SimpleType(t, v) ==
  LET d == Describe[v] IN
    CASE d.what = "object" -> Answer(t, Tag[d.builtin])
      [] d.what = "class"  -> Answer(t, Tag.Type)
      [] d.what = "func"   -> FunctionType(t, d)

\* The tables a list leads to: its elements are joined one after the other.
Join(acc, v) == UNION {LET e == SimpleType(u, v) IN MakeUnion(e, u.id, e.id) : u \in acc}
Joined(t, elems) ==
  LET joined[n \in 0 .. Len(elems)] ==
        IF n = 0 THEN {Insert(t, Plain(UnionKind(<< >>)))} ELSE Join(joined[n - 1], elems[n])
  IN  joined[Len(elems)]
ListType(t, elems) == {Insert(u, Plain(ListKind(u.id))) : u \in Joined(t, elems)}

ComputeTypeOf(t, v) ==
  IF Describe[v].what = "list" THEN ListType(t, Describe[v].elems) ELSE {SimpleType(t, v)}

\* A method of a builtin class becomes a property of Type[the builtin type].
DefineBuiltin(b, name, v) ==
  /\ setup /\ Room
  /\ Describe[v].what = "func"
  /\ LET method == SimpleType(tcx, v)
         base == Insert(method, Plain(TypeKind(Tag[b])))
     IN  tcx' = InsertProperty(base, base.id, name, Property(method.id, v))
  /\ UNCHANGED <<setup, type_id, dict, answers>>

FinishSetup == setup /\ setup' = FALSE /\ UNCHANGED <<tcx, type_id, dict, answers>>

\* A class gets an attribute, or another value for one: PathFinder.find_spec, and the
\* assignments of a program.
SetAttribute(c, name, v) ==
  /\ ~setup /\ Room
  /\ Describe[c].what = "class"
  /\ dict' = [dict EXCEPT ![c] = Put(@, name, v)]
  /\ UNCHANGED <<tcx, setup, type_id, answers>>

\* The type of a class tells what the __dict__ holds.  The type of a property is left
\* open: it follows from the value, which tells properties apart.
ClassType(c, d) ==
  [kind |-> ClassKind(c), properties |-> [name \in DOMAIN d |-> Property(Tag.Unknown, d[name])]]

Answered(v, id) == answers' = [answers EXCEPT ![v] = @ \cup {[id |-> id, dict |-> dict[v]]}]

\* Mutant of GetTypeOf: the type of a value is not kept.
GetTypeOfUncached(v) ==
  /\ ~setup /\ Room
  /\ \E t \in ComputeTypeOf(tcx, v) :
       IF t.id = Tag.Type
       THEN tcx' = Insert(t, ClassType(v, dict[v]))
       ELSE tcx' = t
  /\ Answered(v, tcx'.id)
  /\ UNCHANGED <<setup, type_id, dict>>

\* get_type_of: the type is kept, except the one of a class, which is inserted anew with
\* what the class has by now.
GetTypeOf(v) ==
  /\ ~setup
  /\ \/ type_id[v] # 0 /\ tcx' = Answer(tcx, type_id[v]) /\ UNCHANGED type_id
     \/ /\ type_id[v] = 0 /\ Room
        /\ \E t \in ComputeTypeOf(tcx, v) :
             IF t.id = Tag.Type
             THEN tcx' = Insert(t, ClassType(v, dict[v])) /\ UNCHANGED type_id
             ELSE tcx' = t /\ type_id' = [type_id EXCEPT ![v] = t.id]
  /\ Answered(v, tcx'.id)
  /\ UNCHANGED <<setup, dict>>

Known == {a.id : a \in UNION {answers[v] : v \in Value}}

\* A tuple of one or two values, or of an I64, which get_layout_of makes for a class.
MakeTuple(members) ==
  /\ ~setup /\ Room
  /\ tcx' = TupleType(tcx, members)
  /\ UNCHANGED <<setup, type_id, dict, answers>>

LookUp(base, name) ==
  /\ ~setup /\ Room
  /\ tcx' = Looked(tcx, base, name)
  /\ UNCHANGED <<setup, type_id, dict, answers>>

Next ==
  \/ \E b \in {"Int", "Bool"}, name \in Attribute, v \in Value : DefineBuiltin(b, name, v)
  \/ FinishSetup
  \/ \E v \in Value : GetTypeOf(v)
  \/ \E c \in Value, e \in Entry : SetAttribute(c, e[1], e[2])
  \/ \E s, t \in Known \cup {Tag.I64} : MakeTuple(<<s>>) \/ MakeTuple(<<s, t>>)
  \/ \E base \in Known, name \in Attribute : LookUp(base, name)

Spec == Init /\ [][Next]_vars

-----------------------------------------------------------------------------
\* Two ids are of two kinds, but for a class, which has one for each state of its
\* __dict__ it was asked for in.  Type checking compares ids (unify_func, the return type),
\* so a kind with two ids would not match itself.  It takes the clobber map to keep the
\* types as they were before insert_property changed them.
OneIdPerKind ==
  \A i, j \in DOMAIN tcx.types : KindOf(tcx, i) = KindOf(tcx, j) =>
    \/ i = j
    \/ IsClassKind(KindOf(tcx, i)) /\ tcx.types[i] # tcx.types[j]

\* The fields of a tuple lie apart from each other and inside of what is allocated.
FieldsApart ==
  \A i \in DOMAIN tcx.types : IsTupleKind(KindOf(tcx, i)) =>
    LET members == KindOf(tcx, i).tuple
        fields == FieldsOf(tcx, i)
        End(n) == fields.offsets[n] + LayoutsOf(tcx)[members[n]].size
    IN  \A n \in DOMAIN members :
          /\ End(n) <= fields.size
          /\ \A m \in 1 .. (n - 1) : End(m) <= fields.offsets[n]

\* get_type_of says the same of a value as long as its __dict__ is the same, whatever was
\* done to the __dict__ in between, although it inserts the type of a class anew and the
\* members of a union in any order; and the type of a class whose __dict__ has changed
\* compares different.
TypesStable ==
  \A v \in Value : \A a, b \in answers[v] : a.id = b.id <=> a.dict = b.dict

\* A type keeps its id, its kind, and the properties it has.
TypesKept ==
  [][\A i \in DOMAIN tcx.types :
       /\ i \in DOMAIN tcx'.types
       /\ KindOf(tcx', i) = KindOf(tcx, i)
       /\ DOMAIN tcx.types[i].properties \subseteq DOMAIN tcx'.types[i].properties]_vars
=============================================================================
