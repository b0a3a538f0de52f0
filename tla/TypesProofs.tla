---------------------------- MODULE TypesProofs ----------------------------
(***************************************************************************)
(* The type table keeps one id per kind, and for a class one per state of  *)
(* its __dict__, keeps what it holds, gives a value the same type for the  *)
(* same __dict__, and lays the fields of tuples out apart.                 *)
(***************************************************************************)
EXTENDS Types, TypingProofs

-----------------------------------------------------------------------------
(* The types of values.                                                    *)

LEMMA ResolveTypeAnnotationOK ==
  ASSUME NEW t, TableOK(t), NEW ann \in Annotation
  PROVE  /\ TableOK(ResolveTypeAnnotation(t, ann))
         /\ Grows(t, ResolveTypeAnnotation(t, ann))
<1>1. CASE \E b \in DOMAIN Tag : ann = Builtin(b)
  <2>1. DOMAIN ann = {"builtin"}
    BY <1>1 DEF Builtin
  <2>2. QED
    BY <2>1, AnswerOK DEF ResolveTypeAnnotation
<1>2. CASE \E c \in Value : ann = InstanceKind(c)
  <2>1. DOMAIN ann = {"instance"}
    BY <1>2 DEF InstanceKind
  <2>2. DOMAIN ann # {"builtin"} /\ MembersBelow(t, ann, t.next_free)
    BY <2>1 DEF MembersBelow, IsTupleKind, IsUnionKind
  <2>3. QED
    BY <2>2, InsertOK DEF ResolveTypeAnnotation
<1>3. QED
  BY <1>1, <1>2 DEF Annotation

LEMMA ResolvedOK ==
  ASSUME NEW t, TableOK(t), NEW anns \in Seq(Annotation)
  PROVE  TableOK(Resolved(t, anns).tcx) /\ Grows(t, Resolved(t, anns).tcx)
<1> DEFINE N == Len(anns)
           start == [tcx |-> t, ids |-> << >>]
           Is(f, n) == f = [i \in 0 .. n |-> IF i = 0 THEN start ELSE Resolve(f[i - 1], anns[i])]
           S == {n \in Nat : \E f : Is(f, n)}
           f == CHOOSE f : Is(f, N)
           P == {n \in Nat : TableOK(f[n].tcx) /\ Grows(t, f[n].tcx)}
<1>1. N \in Nat
  OBVIOUS
<1>2. 0 \in S
  <2>1. Is([i \in 0 .. 0 |-> start], 0)
    OBVIOUS
  <2>2. QED
    BY <2>1
<1>3. ASSUME NEW n \in 0 .. (N - 1), n \in S PROVE n + 1 \in S
  <2>1. PICK g : Is(g, n)
    BY <1>3
  <2> DEFINE h == [i \in 0 .. (n + 1) |-> IF i = n + 1 THEN Resolve(g[n], anns[n + 1]) ELSE g[i]]
  <2>2. ASSUME NEW i \in 0 .. (n + 1)
        PROVE  h[i] = IF i = 0 THEN start ELSE Resolve(h[i - 1], anns[i])
    BY <2>1
  <2>3. Is(h, n + 1)
    BY <2>2
  <2> HIDE DEF h, Is
  <2>4. QED
    BY <2>3
<1>4. N \in S
  <2> HIDE DEF S, N
  <2>1. QED
    BY <1>1, <1>2, <1>3, UpTo
<1>5. Is(f, N)
  BY <1>4, Zenon
<1>6. Resolved(t, anns) = f[N]
  BY DEF Resolved
<1> HIDE DEF f
<1>7. 0 \in P
  <2>1. f[0] = start
    BY <1>1, <1>5
  <2>2. QED
    BY <2>1, GrowsStutters
<1>8. ASSUME NEW n \in 0 .. (N - 1), n \in P PROVE n + 1 \in P
  <2>1. f[n + 1] = Resolve(f[n], anns[n + 1])
    BY <1>1, <1>5
  <2>2. f[n + 1].tcx = ResolveTypeAnnotation(f[n].tcx, anns[n + 1])
    BY <2>1 DEF Resolve
  <2>3. anns[n + 1] \in Annotation
    OBVIOUS
  <2>4. TableOK(f[n + 1].tcx) /\ Grows(f[n].tcx, f[n + 1].tcx)
    BY <1>8, <2>2, <2>3, ResolveTypeAnnotationOK
  <2>5. QED
    BY <1>8, <2>4, GrowsFurther
<1>9. N \in P
  <2> HIDE DEF P, N
  <2>1. QED
    BY <1>1, <1>7, <1>8, UpTo
<1>10. QED
  BY <1>6, <1>9

\* A function's type is a callable.
LEMMA FunctionTypeOK ==
  ASSUME NEW t, TableOK(t), NEW d, d.params \in Seq(Annotation), d.ret \in Annotation
  PROVE  /\ TableOK(FunctionType(t, d))
         /\ Grows(t, FunctionType(t, d))
         /\ FunctionType(t, d).id \in DOMAIN FunctionType(t, d).types
         /\ IsCallableKind(KindOf(FunctionType(t, d), FunctionType(t, d).id))
<1> DEFINE params == Resolved(t, d.params)
           ret == ResolveTypeAnnotation(params.tcx, d.ret)
           k == CallableKind(params.ids, ret.id)
<1>1. TableOK(params.tcx) /\ Grows(t, params.tcx)
  BY ResolvedOK
<1>2. TableOK(ret) /\ Grows(params.tcx, ret)
  BY <1>1, ResolveTypeAnnotationOK
<1>3. FunctionType(t, d) = Insert(ret, Plain(k))
  BY DEF FunctionType, Callable
<1>4. DOMAIN k = {"params", "ret"}
  BY DEF CallableKind
<1> HIDE DEF params, ret, k
<1>5. MembersBelow(ret, k, ret.next_free) /\ IsCallableKind(k)
  BY <1>4 DEF MembersBelow, IsTupleKind, IsUnionKind, IsCallableKind
<1>6. QED
  BY <1>1, <1>2, <1>3, <1>5, InsertOK, GrowsFurther

\* Classes, and instances of type, are what get_type_of answers a class type for.
ClassLike(v) == Describe[v].what = "class" \/ (Describe[v].what = "object" /\ Describe[v].builtin = "Type")

\* A table t after which the type of v is answered.
Typed(t, u, v) == /\ TableOK(u)
                  /\ Grows(t, u)
                  /\ u.id \in DOMAIN u.types
                  /\ u.id = Tag.Type <=> ClassLike(v)

LEMMA TypeTag ==
  ASSUME NEW t, TableOK(t)
  PROVE  /\ "Type" \in DOMAIN Tag /\ Tag.Type = Tag["Type"]
         /\ \A b \in DOMAIN Tag : Tag[b] = Tag.Type => b = "Type"
         /\ \A i \in DOMAIN t.types : i = Tag.Type => DOMAIN KindOf(t, i) = {"builtin"}
<1>1. "Type" \in DOMAIN Tag /\ Tag.Type = Tag["Type"]
  BY DEF Tag
<1>2. \A b \in DOMAIN Tag : KindOf(t, Tag[b]) = Builtin(b)
  BY DEF TableOK, Builtins
<1>3. \A b, c : Builtin(b) = Builtin(c) => b = c
  BY DEF Builtin
<1>4. \A b : DOMAIN Builtin(b) = {"builtin"}
  BY DEF Builtin
<1>5. QED
  BY <1>1, <1>2, <1>3, <1>4

LEMMA SimpleTypeOK ==
  ASSUME NEW t, TableOK(t), NEW v \in Element
  PROVE  Typed(t, SimpleType(t, v), v)
<1> DEFINE d == Describe[v]
           e == SimpleType(t, v)
<1>1. CASE d.what = "object"
  <2>1. e = Answer(t, Tag[d.builtin]) /\ d.builtin \in DOMAIN Tag
    BY <1>1, DescribeAssumption DEF SimpleType, Element
  <2>2. TableOK(e) /\ Grows(t, e) /\ e.id = Tag[d.builtin]
    BY <2>1, AnswerOK
  <2>3. e.id \in DOMAIN e.types
    BY <2>1, <2>2 DEF TableOK, Builtins
  <2>4. e.id = Tag.Type <=> d.builtin = "Type"
    BY <2>1, <2>2, TypeTag
  <2>5. QED
    BY <1>1, <2>2, <2>3, <2>4 DEF Typed, ClassLike
<1>2. CASE d.what = "class"
  <2>1. e = Answer(t, Tag.Type)
    BY <1>2 DEF SimpleType
  <2>2. TableOK(e) /\ Grows(t, e) /\ e.id = Tag.Type
    BY <2>1, AnswerOK
  <2>3. e.id \in DOMAIN e.types
    BY <2>2, TypeTag DEF TableOK, Builtins
  <2>4. QED
    BY <1>2, <2>2, <2>3 DEF Typed, ClassLike
<1>3. CASE d.what = "func"
  <2>1. e = FunctionType(t, d) /\ d.params \in Seq(Annotation) /\ d.ret \in Annotation
    BY <1>3, DescribeAssumption DEF SimpleType, Element
  <2>2. /\ TableOK(e) /\ Grows(t, e) /\ e.id \in DOMAIN e.types
        /\ DOMAIN KindOf(e, e.id) = {"params", "ret"}
    BY <2>1, FunctionTypeOK DEF IsCallableKind
  <2>3. {"params", "ret"} # {"builtin"}
    OBVIOUS
  <2>4. e.id # Tag.Type
    BY <2>2, <2>3, TypeTag
  <2>5. QED
    BY <1>3, <2>2, <2>4 DEF Typed, ClassLike
<1>4. QED
  BY <1>1, <1>2, <1>3, DescribeAssumption DEF Element

\* make_union, in whatever order its members come.
LEMMA MakeUnionOK ==
  ASSUME NEW t, TableOK(t), NEW l \in DOMAIN t.types, NEW r \in DOMAIN t.types,
         NEW u \in MakeUnion(t, l, r)
  PROVE  TableOK(u) /\ Grows(t, u) /\ u.id \in DOMAIN u.types
<1> DEFINE members == Alternatives(t, l) \cup Alternatives(t, r)
<1>1. ASSUME NEW i \in DOMAIN t.types
      PROVE  Alternatives(t, i) \subseteq DOMAIN t.types
  BY DEF Alternatives, ToSet, TableOK, Founded, MembersBelow
<1>2. members \subseteq DOMAIN t.types
  BY <1>1
<1>3. t.next_free \in Nat /\ \A i \in members : i \in Nat /\ i < t.next_free
  BY <1>2 DEF TableOK, IdsBelow
<1>4. PICK ms \in SetToSeqs(members) : u = Insert(t, Plain(UnionKind(ms)))
  BY DEF MakeUnion
<1> HIDE DEF members
<1>5. Cardinality(members) \in Nat
  <2>1. members \in SUBSET Nat /\ \A i \in members : i <= t.next_free
    BY <1>3
  <2>2. IsFiniteSet(members)
    BY <1>3, <2>1, FS_BoundedSetOfNaturals
  <2>3. QED
    BY <2>2, FS_CardinalityType
<1>6. ms \in [1 .. Cardinality(members) -> members]
  BY <1>4 DEF SetToSeqs
<1>7. ms \in Seq(Nat) /\ \A i \in DOMAIN ms : ms[i] \in members
  BY <1>3, <1>5, <1>6
<1>8. MembersBelow(t, UnionKind(ms), t.next_free)
  <2>1. DOMAIN UnionKind(ms) = {"union"} /\ UnionKind(ms).union = ms
    BY DEF UnionKind
  <2>2. {"union"} # {"tuple"}
    OBVIOUS
  <2>3. QED
    BY <1>2, <1>3, <1>7, <2>1, <2>2 DEF MembersBelow, IsTupleKind, IsUnionKind
<1>9. QED
  BY <1>4, <1>8, InsertOK

\* The tables that joining the elements of a list leads to.
LEMMA JoinedOK ==
  ASSUME NEW t, TableOK(t), NEW elems \in Seq(Element), NEW u \in Joined(t, elems)
  PROVE  TableOK(u) /\ Grows(t, u) /\ u.id \in DOMAIN u.types
<1> DEFINE N == Len(elems)
           start == {Insert(t, Plain(UnionKind(<< >>)))}
           Is(f, n) == f = [i \in 0 .. n |-> IF i = 0 THEN start ELSE Join(f[i - 1], elems[i])]
           S == {n \in Nat : \E f : Is(f, n)}
           f == CHOOSE f : Is(f, N)
           P == {n \in Nat : \A w \in f[n] : TableOK(w) /\ Grows(t, w) /\ w.id \in DOMAIN w.types}
<1>1. N \in Nat
  OBVIOUS
<1> HIDE DEF start
<1>2. 0 \in S
  <2>1. Is([i \in 0 .. 0 |-> start], 0)
    OBVIOUS
  <2>2. QED
    BY <2>1
<1>3. ASSUME NEW n \in 0 .. (N - 1), n \in S PROVE n + 1 \in S
  <2>1. PICK g : Is(g, n)
    BY <1>3
  <2> DEFINE h == [i \in 0 .. (n + 1) |-> IF i = n + 1 THEN Join(g[n], elems[n + 1]) ELSE g[i]]
  <2>2. ASSUME NEW i \in 0 .. (n + 1)
        PROVE  h[i] = IF i = 0 THEN start ELSE Join(h[i - 1], elems[i])
    BY <2>1
  <2>3. Is(h, n + 1)
    BY <2>2
  <2> HIDE DEF h, Is
  <2>4. QED
    BY <2>3
<1>4. N \in S
  <2> HIDE DEF S, N
  <2>1. QED
    BY <1>1, <1>2, <1>3, UpTo
<1>5. Is(f, N)
  BY <1>4, Zenon
<1>6. Joined(t, elems) = f[N]
  BY DEF Joined, start
<1> HIDE DEF f
<1>7. 0 \in P
  <2>1. f[0] = start
    BY <1>1, <1>5
  <2>2. DOMAIN UnionKind(<< >>) = {"union"} /\ UnionKind(<< >>).union = << >>
    BY DEF UnionKind
  <2>3. {"union"} # {"tuple"}
    OBVIOUS
  <2>4. MembersBelow(t, UnionKind(<< >>), t.next_free)
    <3>1. << >> \in Seq(Nat) /\ DOMAIN << >> = {}
      OBVIOUS
    <3>2. QED
      BY <2>2, <2>3, <3>1 DEF MembersBelow, IsTupleKind, IsUnionKind
  <2>5. QED
    BY <2>1, <2>4, InsertOK DEF start
<1>8. ASSUME NEW n \in 0 .. (N - 1), n \in P PROVE n + 1 \in P
  <2>1. f[n + 1] = Join(f[n], elems[n + 1])
    BY <1>1, <1>5
  <2>2. elems[n + 1] \in Element
    OBVIOUS
  <2>3. SUFFICES ASSUME NEW w \in f[n + 1]
                 PROVE  TableOK(w) /\ Grows(t, w) /\ w.id \in DOMAIN w.types
    OBVIOUS
  <2>4. PICK x \in f[n] : w \in MakeUnion(SimpleType(x, elems[n + 1]), x.id, SimpleType(x, elems[n + 1]).id)
    BY <2>1 DEF Join
  <2> DEFINE e == SimpleType(x, elems[n + 1])
  <2>5. TableOK(x) /\ Grows(t, x) /\ x.id \in DOMAIN x.types
    BY <1>8
  <2>6. TableOK(e) /\ Grows(x, e) /\ e.id \in DOMAIN e.types
    BY <2>2, <2>5, SimpleTypeOK DEF Typed
  <2> HIDE DEF e
  <2>7. x.id \in DOMAIN e.types
    BY <2>5, <2>6 DEF Grows
  <2>8. w \in MakeUnion(e, x.id, e.id)
    BY <2>4 DEF e
  <2>9. TableOK(w) /\ Grows(e, w) /\ w.id \in DOMAIN w.types
    BY <2>6, <2>7, <2>8, MakeUnionOK
  <2>10. QED
    BY <2>5, <2>6, <2>9, GrowsFurther
<1>9. N \in P
  <2> HIDE DEF P, N
  <2>1. QED
    BY <1>1, <1>7, <1>8, UpTo
<1>10. QED
  BY <1>6, <1>9

LEMMA ComputeTypeOfOK ==
  ASSUME NEW t, TableOK(t), NEW v \in Value, NEW u \in ComputeTypeOf(t, v)
  PROVE  Typed(t, u, v)
<1>1. CASE Describe[v].what = "list"
  <2>1. PICK w \in Joined(t, Describe[v].elems) : u = Insert(w, Plain(ListKind(w.id)))
    BY <1>1 DEF ComputeTypeOf, ListType
  <2>2. TableOK(w) /\ Grows(t, w)
    BY <1>1, <2>1, JoinedOK, DescribeAssumption
  <2>3. DOMAIN ListKind(w.id) = {"list"}
    BY DEF ListKind
  <2>4. {"list"} # {"union"} /\ {"list"} # {"tuple"} /\ {"list"} # {"builtin"}
    OBVIOUS
  <2>5. MembersBelow(w, ListKind(w.id), w.next_free)
    BY <2>3, <2>4 DEF MembersBelow, IsTupleKind, IsUnionKind
  <2>6. TableOK(u) /\ Grows(w, u) /\ u.id \in DOMAIN u.types /\ KindOf(u, u.id) = ListKind(w.id)
    BY <2>1, <2>2, <2>5, InsertOK
  <2>7. u.id # Tag.Type
    BY <2>3, <2>4, <2>6, TypeTag
  <2>8. QED
    BY <1>1, <2>2, <2>6, <2>7, GrowsFurther DEF Typed, ClassLike
<1>2. CASE Describe[v].what # "list"
  BY <1>2, SimpleTypeOK DEF ComputeTypeOf, Element
<1>3. QED
  BY <1>1, <1>2

-----------------------------------------------------------------------------
(* The invariant.                                                          *)

IsADict(d) == d = [name \in DOMAIN d |-> d[name]]

\* What get_type_of has said of a value: the type that was kept, or for a class the types
\* that the table has for it as it was.
AnswersOK(v) ==
  IF ClassLike(v)
  THEN /\ type_id[v] = 0
       /\ \A a \in answers[v] : /\ IsADict(a.dict)
                               /\ a.id \in DOMAIN tcx.types
                               /\ tcx.types[a.id] = ClassType(v, a.dict)
  ELSE /\ dict[v] = NoProperties
       /\ type_id[v] # 0 => type_id[v] \in DOMAIN tcx.types
       /\ \A a \in answers[v] : type_id[v] # 0 /\ a.id = type_id[v] /\ a.dict = NoProperties

IInv ==
  /\ TableOK(tcx)
  /\ DOMAIN type_id = Value
  /\ DOMAIN dict = Value
  /\ DOMAIN answers = Value
  /\ \A v \in Value : IsADict(dict[v])
  /\ \A v \in Value : AnswersOK(v)

\* The type of a class tells its kind and its __dict__.
LEMMA ClassTypeIs ==
  ASSUME NEW c, NEW d
  PROVE  /\ ClassType(c, d).kind = ClassKind(c)
         /\ IsClassKind(ClassType(c, d).kind)
         /\ ClassType(c, d).properties = [name \in DOMAIN d |-> Property(Tag.Unknown, d[name])]
<1>1. DOMAIN ClassKind(c) = {"class"}
  BY DEF ClassKind
<1>2. QED
  BY <1>1 DEF ClassType, IsClassKind

LEMMA ClassTypeInjective ==
  ASSUME NEW c, NEW d, NEW e, IsADict(d), IsADict(e), ClassType(c, d) = ClassType(c, e)
  PROVE  d = e
<1> DEFINE pd == [name \in DOMAIN d |-> Property(Tag.Unknown, d[name])]
           pe == [name \in DOMAIN e |-> Property(Tag.Unknown, e[name])]
<1>1. pd = pe
  <2>1. ClassType(c, d).properties = pd
    BY ClassTypeIs
  <2>2. ClassType(c, e).properties = pe
    BY ClassTypeIs
  <2> HIDE DEF pd, pe
  <2>3. QED
    BY <2>1, <2>2
<1>2. DOMAIN pd = DOMAIN d /\ DOMAIN pe = DOMAIN e
  OBVIOUS
<1>3. \A name \in DOMAIN d : pd[name].value.id = d[name]
  BY DEF Property
<1>4. \A name \in DOMAIN e : pe[name].value.id = e[name]
  BY DEF Property
<1> HIDE DEF pd, pe
<1>5. DOMAIN d = DOMAIN e /\ \A name \in DOMAIN d : d[name] = e[name]
  BY <1>1, <1>2, <1>3, <1>4
<1>6. QED
  BY <1>5 DEF IsADict

LEMMA ClassTypeOK ==
  ASSUME NEW t, TableOK(t), NEW c, NEW d
  PROVE  /\ TableOK(Insert(t, ClassType(c, d)))
         /\ Grows(t, Insert(t, ClassType(c, d)))
         /\ Insert(t, ClassType(c, d)).id \in DOMAIN Insert(t, ClassType(c, d)).types
         /\ Insert(t, ClassType(c, d)).types[Insert(t, ClassType(c, d)).id] = ClassType(c, d)
<1> DEFINE ty == ClassType(c, d)
<1>1. IsClassKind(ty.kind)
  BY ClassTypeIs
<1> HIDE DEF ty
<1>2. {"class"} # {"union"} /\ {"class"} # {"tuple"}
  OBVIOUS
<1>3. MembersBelow(t, ty.kind, t.next_free)
  BY <1>1, <1>2 DEF MembersBelow, IsTupleKind, IsUnionKind, IsClassKind
<1>4. QED
  BY <1>1, <1>3, InsertTypeOK DEF ty

\* In a table that has grown the classes are as they were.
LEMMA AnswersStay ==
  ASSUME NEW v, AnswersOK(v), Grows(tcx, tcx'), type_id'[v] = type_id[v],
         answers'[v] = answers[v], ClassLike(v) \/ dict'[v] = dict[v]
  PROVE  AnswersOK(v)'
<1>1. ASSUME ClassLike(v), NEW a \in answers[v]
      PROVE  a.id \in DOMAIN tcx'.types /\ tcx'.types[a.id] = ClassType(v, a.dict)
  <2>1. a.id \in DOMAIN tcx.types /\ tcx.types[a.id] = ClassType(v, a.dict)
    BY <1>1 DEF AnswersOK
  <2>2. IsClassKind(KindOf(tcx, a.id))
    <3>1. IsClassKind(ClassType(v, a.dict).kind)
      BY ClassTypeIs
    <3>2. QED
      BY <2>1, <3>1 DEF KindOf
  <2>3. QED
    BY <2>1, <2>2 DEF Grows
<1>2. ClassLike(v)' <=> ClassLike(v)
  BY DEF ClassLike
<1>3. CASE ClassLike(v)
  BY <1>1, <1>2, <1>3 DEF AnswersOK
<1>4. CASE ~ClassLike(v)
  BY <1>2, <1>4 DEF AnswersOK, Grows
<1>5. QED
  BY <1>3, <1>4

\* The table grows and nothing is answered.
LEMMA OnlyTable ==
  ASSUME IInv, TableOK(tcx'), Grows(tcx, tcx'), type_id' = type_id, dict' = dict, answers' = answers
  PROVE  IInv'
<1>1. \A v \in Value : AnswersOK(v)'
  BY AnswersStay DEF IInv
<1>2. QED
  BY <1>1 DEF IInv

LEMMA InitHolds == ASSUME Init PROVE IInv
<1>1. TableOK(tcx) /\ DOMAIN type_id = Value /\ DOMAIN dict = Value /\ DOMAIN answers = Value
  BY InitializedOK DEF Init
<1>2. \A v \in Value : type_id[v] = 0 /\ dict[v] = NoProperties /\ answers[v] = {}
  BY DEF Init
<1>3. IsADict(NoProperties)
  BY DEF IsADict, NoProperties
<1>4. QED
  BY <1>1, <1>2, <1>3 DEF IInv, AnswersOK

LEMMA SetAttributeHolds ==
  ASSUME IInv, NEW c \in Value, NEW name, NEW v, SetAttribute(c, name, v)
  PROVE  IInv' /\ Grows(tcx, tcx')
<1>1. /\ tcx' = tcx /\ type_id' = type_id /\ answers' = answers
      /\ dict' = [dict EXCEPT ![c] = Put(@, name, v)]
      /\ ClassLike(c)
  BY DEF SetAttribute, ClassLike
<1>2. DOMAIN dict' = Value /\ dict'[c] = Put(dict[c], name, v) /\ \A w \in Value : w # c => dict'[w] = dict[w]
  BY <1>1 DEF IInv
<1>3. IsADict(dict'[c])
  BY <1>2 DEF IsADict, Put
<1>4. TableOK(tcx') /\ Grows(tcx, tcx')
  BY <1>1, GrowsStutters DEF IInv
<1>5. \A w \in Value : AnswersOK(w)'
  BY <1>1, <1>2, <1>4, AnswersStay DEF IInv
<1>6. QED
  BY <1>1, <1>2, <1>3, <1>4, <1>5 DEF IInv

LEMMA GetTypeOfHolds ==
  ASSUME IInv, NEW v \in Value, GetTypeOf(v)
  PROVE  IInv' /\ Grows(tcx, tcx')
<1> DEFINE i == tcx'.id
           a == [id |-> i, dict |-> dict[v]]
<1>1. dict' = dict /\ answers' = [answers EXCEPT ![v] = @ \cup {a}]
  BY DEF GetTypeOf, Answered
<1>2. DOMAIN answers' = Value /\ answers'[v] = answers[v] \cup {a}
      /\ \A w \in Value : w # v => answers'[w] = answers[w]
  BY <1>1 DEF IInv
<1>3. a.id = i /\ a.dict = dict[v] /\ IsADict(dict[v]) /\ AnswersOK(v)
  BY DEF IInv
<1> HIDE DEF a
<1>4. ClassLike(v)' <=> ClassLike(v)
  BY DEF ClassLike
<1>5. ASSUME TableOK(tcx'), Grows(tcx, tcx'), DOMAIN type_id' = Value,
             \A w \in Value : w # v => type_id'[w] = type_id[w], AnswersOK(v)'
      PROVE  IInv' /\ Grows(tcx, tcx')
  <2>1. \A w \in Value : w # v => AnswersOK(w)'
    BY <1>1, <1>2, <1>5, AnswersStay DEF IInv
  <2>2. QED
    BY <1>1, <1>2, <1>5, <2>1 DEF IInv
<1>6. CASE type_id[v] # 0 /\ tcx' = Answer(tcx, type_id[v]) /\ UNCHANGED type_id
  <2>1. TableOK(tcx') /\ Grows(tcx, tcx') /\ i = type_id[v]
    BY <1>6, AnswerOK DEF IInv
  <2>2. ~ClassLike(v)
    BY <1>3, <1>6 DEF AnswersOK
  <2>3. AnswersOK(v)'
    BY <1>1, <1>2, <1>3, <1>4, <1>6, <2>1, <2>2 DEF AnswersOK, Grows
  <2>4. QED
    BY <1>5, <1>6, <2>1, <2>3 DEF IInv
<1>7. CASE /\ type_id[v] = 0
           /\ \E t \in ComputeTypeOf(tcx, v) :
                IF t.id = Tag.Type
                THEN tcx' = Insert(t, ClassType(v, dict[v])) /\ UNCHANGED type_id
                ELSE tcx' = t /\ type_id' = [type_id EXCEPT ![v] = t.id]
  <2>1. PICK t \in ComputeTypeOf(tcx, v) :
                IF t.id = Tag.Type
                THEN tcx' = Insert(t, ClassType(v, dict[v])) /\ UNCHANGED type_id
                ELSE tcx' = t /\ type_id' = [type_id EXCEPT ![v] = t.id]
    BY <1>7
  <2>2. TableOK(t) /\ Grows(tcx, t) /\ t.id \in DOMAIN t.types /\ (t.id = Tag.Type <=> ClassLike(v))
    BY ComputeTypeOfOK DEF IInv, Typed
  <2>3. CASE t.id = Tag.Type
    <3>1. tcx' = Insert(t, ClassType(v, dict[v])) /\ type_id' = type_id
      BY <2>1, <2>3
    <3>2. TableOK(tcx') /\ Grows(t, tcx') /\ i \in DOMAIN tcx'.types /\ tcx'.types[i] = ClassType(v, dict[v])
      BY <2>2, <3>1, ClassTypeOK
    <3>3. Grows(tcx, tcx')
      BY <2>2, <3>2, GrowsFurther
    <3>4. AnswersOK(v)'
      <4>1. \A b \in answers[v] : b.id \in DOMAIN tcx'.types /\ tcx'.types[b.id] = ClassType(v, b.dict)
        <5>1. SUFFICES ASSUME NEW b \in answers[v]
                       PROVE  b.id \in DOMAIN tcx'.types /\ tcx'.types[b.id] = ClassType(v, b.dict)
          OBVIOUS
        <5>2. b.id \in DOMAIN tcx.types /\ tcx.types[b.id] = ClassType(v, b.dict)
          BY <1>3, <2>2, <2>3 DEF AnswersOK
        <5>3. IsClassKind(KindOf(tcx, b.id))
          BY <5>2, ClassTypeIs DEF KindOf
        <5>4. QED
          BY <3>3, <5>2, <5>3 DEF Grows
      <4>2. QED
        BY <1>2, <1>3, <1>4, <1>7, <2>2, <2>3, <3>1, <3>2, <4>1 DEF AnswersOK
    <3>5. QED
      BY <1>5, <3>1, <3>2, <3>3, <3>4 DEF IInv
  <2>4. CASE t.id # Tag.Type
    <3>1. tcx' = t /\ type_id' = [type_id EXCEPT ![v] = t.id]
      BY <2>1, <2>4
    <3>2. DOMAIN type_id' = Value /\ type_id'[v] = i /\ \A w \in Value : w # v => type_id'[w] = type_id[w]
      BY <3>1 DEF IInv
    <3>3. i \in DOMAIN tcx'.types /\ i # 0
      BY <2>2, <3>1 DEF TableOK, IdsBelow
    <3>4. answers[v] = {} /\ dict[v] = NoProperties
      BY <1>3, <1>7, <2>2, <2>4 DEF AnswersOK
    <3>5. AnswersOK(v)'
      BY <1>1, <1>2, <1>3, <1>4, <2>2, <2>4, <3>2, <3>3, <3>4 DEF AnswersOK
    <3>6. QED
      BY <1>5, <2>2, <3>1, <3>2, <3>5
  <2>5. QED
    BY <2>3, <2>4
<1>8. QED
  BY <1>6, <1>7 DEF GetTypeOf

LEMMA DefineBuiltinHolds ==
  ASSUME IInv, NEW b, NEW name, NEW v \in Value, DefineBuiltin(b, name, v)
  PROVE  IInv' /\ Grows(tcx, tcx')
<1> DEFINE method == SimpleType(tcx, v)
           base == Insert(method, Plain(TypeKind(Tag[b])))
<1>1. /\ tcx' = InsertProperty(base, base.id, name, Property(method.id, v))
      /\ type_id' = type_id /\ dict' = dict /\ answers' = answers
      /\ Describe[v].what = "func"
  BY DEF DefineBuiltin
<1>2. TableOK(method) /\ Grows(tcx, method)
  <2>1. v \in Element
    BY <1>1 DEF Element
  <2>2. QED
    BY <2>1, SimpleTypeOK DEF IInv, Typed
<1> HIDE DEF method
<1>3. TableOK(base) /\ Grows(method, base) /\ base.id \in DOMAIN base.types
      /\ ~IsClassKind(KindOf(base, base.id))
  BY <1>2, TypeKindOK
<1> HIDE DEF base
<1>4. TableOK(tcx') /\ Grows(base, tcx')
  BY <1>1, <1>3, InsertPropertyOK
<1>5. Grows(tcx, tcx')
  BY <1>2, <1>3, <1>4, GrowsFurther
<1>6. QED
  BY <1>1, <1>4, <1>5, OnlyTable

LEMMA MakeTupleHolds ==
  ASSUME IInv, NEW members \in Seq(Known \cup {Tag.I64}), MakeTuple(members)
  PROVE  IInv' /\ Grows(tcx, tcx')
<1>1. tcx' = TupleType(tcx, members) /\ type_id' = type_id /\ dict' = dict /\ answers' = answers
  BY DEF MakeTuple
<1>2. "I64" \in DOMAIN Tag /\ Tag.I64 = Tag["I64"]
  BY DEF Tag
<1>3. Known \cup {Tag.I64} \subseteq DOMAIN tcx.types
  BY <1>2 DEF Known, IInv, AnswersOK, TableOK, Builtins
<1>4. DOMAIN tcx.types \subseteq Nat
  BY DEF IInv, TableOK, IdsBelow
<1>5. Members(tcx, members)
  BY <1>3, <1>4 DEF Members
<1>6. TableOK(tcx') /\ Grows(tcx, tcx')
  BY <1>1, <1>5, TupleTypeOK DEF IInv
<1>7. QED
  BY <1>1, <1>6, OnlyTable

LEMMA LookUpHolds ==
  ASSUME IInv, NEW base, NEW name, LookUp(base, name)
  PROVE  IInv' /\ Grows(tcx, tcx')
<1>1. tcx' = Looked(tcx, base, name) /\ type_id' = type_id /\ dict' = dict /\ answers' = answers
  BY DEF LookUp
<1>2. TableOK(tcx') /\ Grows(tcx, tcx')
  BY <1>1, TypeKindOK, GrowsStutters DEF IInv, Looked
<1>3. QED
  BY <1>1, <1>2, OnlyTable

LEMMA NextHolds ==
  ASSUME IInv, [Next]_vars
  PROVE  IInv' /\ Grows(tcx, tcx')
<1>1. CASE UNCHANGED vars
  <2>1. tcx' = tcx /\ type_id' = type_id /\ dict' = dict /\ answers' = answers
    BY <1>1 DEF vars
  <2>2. TableOK(tcx') /\ Grows(tcx, tcx')
    BY <2>1, GrowsStutters DEF IInv
  <2>3. QED
    BY <2>1, <2>2, OnlyTable
<1>2. CASE FinishSetup
  <2>1. tcx' = tcx /\ type_id' = type_id /\ dict' = dict /\ answers' = answers
    BY <1>2 DEF FinishSetup
  <2>2. TableOK(tcx') /\ Grows(tcx, tcx')
    BY <2>1, GrowsStutters DEF IInv
  <2>3. QED
    BY <2>1, <2>2, OnlyTable
<1>3. CASE \E b \in {"Int", "Bool"}, name \in Attribute, v \in Value : DefineBuiltin(b, name, v)
  BY <1>3, DefineBuiltinHolds
<1>4. CASE \E v \in Value : GetTypeOf(v)
  BY <1>4, GetTypeOfHolds
<1>5. CASE \E s, t \in Known \cup {Tag.I64} : MakeTuple(<<s>>) \/ MakeTuple(<<s, t>>)
  <2> DEFINE K == Known \cup {Tag.I64}
  <2>1. PICK s \in K, t \in K : MakeTuple(<<s>>) \/ MakeTuple(<<s, t>>)
    BY <1>5
  <2> HIDE DEF K
  <2>2. <<s>> \in Seq(K) /\ <<s, t>> \in Seq(K)
    OBVIOUS
  <2>3. QED
    BY <2>1, <2>2, MakeTupleHolds DEF K
<1>6. CASE \E base \in Known, name \in Attribute : LookUp(base, name)
  BY <1>6, LookUpHolds
<1>7. CASE \E c \in Value, e \in Entry : SetAttribute(c, e[1], e[2])
  BY <1>7, SetAttributeHolds
<1>8. QED
  BY <1>1, <1>2, <1>3, <1>4, <1>5, <1>6, <1>7 DEF Next

LEMMA Invariance == Spec => []IInv
<1>1. Init => IInv
  BY InitHolds
<1>2. IInv /\ [Next]_vars => IInv'
  BY NextHolds
<1>3. QED
  BY <1>1, <1>2, PTL DEF Spec

\* Whatever the values and however they are typed, no kind has two ids, and no class two
\* for the same attributes: insert and insert_property keep the clobber map complete for
\* the types as they were first entered.
THEOREM AlwaysOneIdPerKind == Spec => []OneIdPerKind
<1>1. IInv => OneIdPerKind
  BY OneId DEF IInv, OneIdPerKind
<1>2. QED
  BY <1>1, Invariance, PTL

\* get_type_of says the same of a value for the same __dict__, and something else for
\* another one, for every set of values and however their attributes change.
THEOREM AlwaysTypesStable == Spec => []TypesStable
<1>1. IInv => TypesStable
  <2>1. SUFFICES ASSUME IInv, NEW v \in Value, NEW a \in answers[v], NEW b \in answers[v]
                 PROVE  a.id = b.id <=> a.dict = b.dict
    BY DEF TypesStable
  <2>2. AnswersOK(v) /\ TableOK(tcx)
    BY <2>1 DEF IInv
  <2>3. CASE ~ClassLike(v)
    BY <2>2, <2>3 DEF AnswersOK
  <2>4. CASE ClassLike(v)
    <3>1. /\ IsADict(a.dict) /\ a.id \in DOMAIN tcx.types /\ tcx.types[a.id] = ClassType(v, a.dict)
          /\ IsADict(b.dict) /\ b.id \in DOMAIN tcx.types /\ tcx.types[b.id] = ClassType(v, b.dict)
      BY <2>2, <2>4 DEF AnswersOK
    <3>2. ASSUME a.id = b.id PROVE a.dict = b.dict
      BY <3>1, <3>2, ClassTypeInjective
    <3>3. ASSUME a.dict = b.dict PROVE a.id = b.id
      <4>1. tcx.types[a.id] = tcx.types[b.id] /\ KindOf(tcx, a.id) = KindOf(tcx, b.id)
        BY <3>1, <3>3 DEF KindOf
      <4>2. QED
        BY <2>2, <3>1, <4>1, OneId
    <3>4. QED
      BY <3>2, <3>3
  <2>5. QED
    BY <2>3, <2>4
<1>2. QED
  BY <1>1, Invariance, PTL

\* No operation takes a type, its kind or one of its properties away.
THEOREM AlwaysTypesKept == Spec => TypesKept
<1> DEFINE Kept == \A i \in DOMAIN tcx.types :
                     /\ i \in DOMAIN tcx'.types
                     /\ KindOf(tcx', i) = KindOf(tcx, i)
                     /\ DOMAIN tcx.types[i].properties \subseteq DOMAIN tcx'.types[i].properties
<1>1. IInv /\ [Next]_vars => [Kept]_vars
  BY NextHolds DEF Grows
<1>2. Spec => [][Kept]_vars
  BY <1>1, Invariance, PTL DEF Spec
<1>3. QED
  BY <1>2 DEF TypesKept

-----------------------------------------------------------------------------
(* Layouts.                                                                *)

GoodLayout(l) == l.size \in Nat /\ l.align \in Nat /\ l.align # 0

IsMultiple(n, a) == \E q \in Nat : n = q * a

\* The next multiple of the alignment.
LEMMA RoundUpOK ==
  ASSUME NEW n \in Nat, NEW a \in Nat, a # 0
  PROVE  /\ RoundUp(n, a) \in Nat
         /\ n <= RoundUp(n, a)
         /\ RoundUp(n, a) < n + a
         /\ IsMultiple(RoundUp(n, a), a)
<1> DEFINE q == (n + a - 1) \div a
<1>1. q \in Nat
  OBVIOUS
<1>2. a * q <= n + a - 1 /\ n + a - 1 < a * q + a
  OBVIOUS
<1> HIDE DEF q
<1>3. a * q \in Nat /\ q * a = a * q
  BY <1>1
<1>4. RoundUp(n, a) = q * a
  BY DEF RoundUp, q
<1>5. n <= a * q /\ a * q < n + a
  BY <1>2, <1>3
<1>6. QED
  BY <1>1, <1>3, <1>4, <1>5 DEF IsMultiple

\* The fields placed so far end before the size and one after the other.
Placed(fields, acc, n) ==
  /\ acc.size \in Nat
  /\ acc.align \in Nat /\ acc.align # 0
  /\ acc.offsets \in Seq(Nat)
  /\ Len(acc.offsets) = n
  /\ \A i \in 1 .. n : acc.offsets[i] + fields[i].size <= acc.size
  /\ \A i \in 1 .. n : IsMultiple(acc.offsets[i], fields[i].align)
  /\ \A i, j \in 1 .. n : i < j => acc.offsets[i] + fields[i].size <= acc.offsets[j]

LEMMA ExtendOK ==
  ASSUME NEW fields, NEW acc, NEW n \in Nat, Placed(fields, acc, n),
         \A i \in 1 .. (n + 1) : GoodLayout(fields[i])
  PROVE  Placed(fields, Extend(acc, fields[n + 1]), n + 1)
<1> DEFINE f == fields[n + 1]
           o == RoundUp(acc.size, f.align)
           e == Extend(acc, f)
<1>1. f.size \in Nat /\ f.align \in Nat /\ f.align # 0
  BY DEF GoodLayout
<1>2. o \in Nat /\ acc.size <= o /\ IsMultiple(o, f.align)
  BY <1>1, RoundUpOK DEF Placed
<1>3. e.size = o + f.size /\ e.align = (IF f.align > acc.align THEN f.align ELSE acc.align)
      /\ e.offsets = Append(acc.offsets, o)
  BY DEF Extend
<1> HIDE DEF o, e
<1>4. acc.offsets \in Seq(Nat) /\ Len(acc.offsets) = n
  BY DEF Placed
<1>5. /\ e.offsets \in Seq(Nat) /\ Len(e.offsets) = n + 1
      /\ e.offsets[n + 1] = o
      /\ \A i \in 1 .. n : e.offsets[i] = acc.offsets[i] /\ acc.offsets[i] \in Nat
  BY <1>2, <1>3, <1>4
<1>6. e.size \in Nat /\ e.align \in Nat /\ e.align # 0
  BY <1>1, <1>2, <1>3 DEF Placed
<1>7. ASSUME NEW i \in 1 .. n
      PROVE  /\ e.offsets[i] \in Nat /\ fields[i].size \in Nat /\ acc.size \in Nat
             /\ e.offsets[i] = acc.offsets[i]
             /\ e.offsets[i] + fields[i].size <= acc.size
             /\ e.offsets[i] + fields[i].size <= o
  <2>1. i \in 1 .. (n + 1)
    OBVIOUS
  <2>2. fields[i].size \in Nat
    BY <2>1 DEF GoodLayout
  <2>3. acc.size \in Nat /\ acc.offsets[i] + fields[i].size <= acc.size
    BY DEF Placed
  <2>4. e.offsets[i] = acc.offsets[i] /\ acc.offsets[i] \in Nat
    BY <1>5
  <2> DEFINE x == acc.offsets[i]
             y == fields[i].size
             z == acc.size
  <2>5. x \in Nat /\ y \in Nat /\ z \in Nat /\ x + y <= z /\ z <= o /\ o \in Nat
    BY <1>2, <2>2, <2>3, <2>4
  <2> HIDE DEF x, y, z
  <2>6. x + y <= o
    BY <2>5
  <2>7. QED
    BY <2>2, <2>3, <2>4, <2>6 DEF x, y
<1>8. \A i \in 1 .. (n + 1) : e.offsets[i] + fields[i].size <= e.size
  <2>1. SUFFICES ASSUME NEW i \in 1 .. (n + 1)
                 PROVE  e.offsets[i] + fields[i].size <= e.size
    OBVIOUS
  <2>2. CASE i = n + 1
    BY <1>1, <1>2, <1>3, <1>5, <2>2
  <2>3. CASE i # n + 1
    <3> DEFINE x == e.offsets[i] + fields[i].size
    <3>1. x \in Nat /\ x <= o
      BY <1>7, <2>3
    <3> HIDE DEF x
    <3>2. x <= o + f.size
      BY <1>1, <1>2, <3>1
    <3>3. QED
      BY <1>3, <3>2 DEF x
  <2>4. QED
    BY <2>2, <2>3
<1>9. \A i \in 1 .. (n + 1) : IsMultiple(e.offsets[i], fields[i].align)
  <2>1. \A i \in 1 .. n : IsMultiple(e.offsets[i], fields[i].align)
    BY <1>5 DEF Placed
  <2>2. IsMultiple(e.offsets[n + 1], fields[n + 1].align)
    BY <1>2, <1>5
  <2>3. \A i \in 1 .. (n + 1) : i \in 1 .. n \/ i = n + 1
    OBVIOUS
  <2>4. QED
    BY <2>1, <2>2, <2>3, Zenon
<1>10. \A i, j \in 1 .. (n + 1) : i < j => e.offsets[i] + fields[i].size <= e.offsets[j]
  <2>1. SUFFICES ASSUME NEW i \in 1 .. (n + 1), NEW j \in 1 .. (n + 1), i < j
                 PROVE  e.offsets[i] + fields[i].size <= e.offsets[j]
    OBVIOUS
  <2>2. i \in 1 .. n
    BY <2>1
  <2>3. CASE j = n + 1
    BY <1>5, <1>7, <2>2, <2>3
  <2>4. CASE j # n + 1
    <3>1. j \in 1 .. n
      BY <2>4
    <3>2. acc.offsets[i] + fields[i].size <= acc.offsets[j]
      BY <2>1, <2>2, <3>1 DEF Placed
    <3>3. QED
      BY <1>7, <2>2, <3>1, <3>2
  <2>5. QED
    BY <2>3, <2>4
<1>11. QED
  BY <1>5, <1>6, <1>8, <1>9, <1>10 DEF Placed, e

LEMMA ExtendedOK ==
  ASSUME NEW fields, Len(fields) \in Nat, \A i \in 1 .. Len(fields) : GoodLayout(fields[i])
  PROVE  Placed(fields, Extended(fields), Len(fields))
<1> DEFINE N == Len(fields)
           start == [size |-> 0, align |-> 1, offsets |-> << >>]
           Is(f, n) == f = [i \in 0 .. n |-> IF i = 0 THEN start ELSE Extend(f[i - 1], fields[i])]
           S == {n \in Nat : \E f : Is(f, n)}
           f == CHOOSE f : Is(f, N)
           P == {n \in Nat : Placed(fields, f[n], n)}
<1>1. 0 \in S
  <2>1. Is([i \in 0 .. 0 |-> start], 0)
    OBVIOUS
  <2>2. QED
    BY <2>1
<1>2. ASSUME NEW n \in 0 .. (N - 1), n \in S PROVE n + 1 \in S
  <2>1. PICK g : Is(g, n)
    BY <1>2
  <2> DEFINE h == [i \in 0 .. (n + 1) |-> IF i = n + 1 THEN Extend(g[n], fields[n + 1]) ELSE g[i]]
  <2> HIDE DEF start
  <2>2. ASSUME NEW i \in 0 .. (n + 1)
        PROVE  h[i] = IF i = 0 THEN start ELSE Extend(h[i - 1], fields[i])
    BY <2>1
  <2>3. Is(h, n + 1)
    BY <2>2
  <2> HIDE DEF h, Is
  <2>4. QED
    BY <2>3
<1>3. N \in S
  <2> HIDE DEF S
  <2>1. QED
    BY <1>1, <1>2, UpTo
<1>4. Is(f, N)
  BY <1>3, Zenon
<1>5. Extended(fields) = f[N]
  BY DEF Extended
<1> HIDE DEF f
<1>6. 0 \in P
  <2>1. f[0] = start
    BY <1>4
  <2>2. start.size = 0 /\ start.align = 1 /\ start.offsets = << >>
    OBVIOUS
  <2> HIDE DEF start
  <2>3. Placed(fields, start, 0)
    BY <2>2 DEF Placed
  <2>4. QED
    BY <2>1, <2>3
<1>7. ASSUME NEW n \in 0 .. (N - 1), n \in P PROVE n + 1 \in P
  <2>1. f[n + 1] = Extend(f[n], fields[n + 1])
    BY <1>4
  <2>2. Placed(fields, f[n], n) /\ \A i \in 1 .. (n + 1) : GoodLayout(fields[i])
    BY <1>7
  <2>3. QED
    BY <2>1, <2>2, ExtendOK
<1>8. N \in P
  <2> HIDE DEF P
  <2>1. QED
    BY <1>6, <1>7, UpTo
<1>9. QED
  BY <1>5, <1>8

\* calculate_layout, for any fields: each lies at a multiple of its alignment, before the
\* next one and inside of what is allocated, which is a multiple of the alignment too.
THEOREM LayoutIsSound ==
  ASSUME NEW fields, Len(fields) \in Nat, \A i \in 1 .. Len(fields) : GoodLayout(fields[i])
  PROVE  /\ Placed(fields, CalculateLayout(fields), Len(fields))
         /\ IsMultiple(CalculateLayout(fields).size, CalculateLayout(fields).align)
<1> DEFINE all == Extended(fields)
           c == CalculateLayout(fields)
           N == Len(fields)
<1>1. Placed(fields, all, N)
  BY ExtendedOK
<1>2. c.size = RoundUp(all.size, all.align) /\ c.align = all.align /\ c.offsets = all.offsets
  BY DEF CalculateLayout
<1> HIDE DEF all, c, N
<1>3. c.size \in Nat /\ all.size <= c.size /\ IsMultiple(c.size, c.align)
  BY <1>1, <1>2, RoundUpOK DEF Placed
<1>4. \A i \in 1 .. N : c.offsets[i] + fields[i].size <= c.size
  <2>1. SUFFICES ASSUME NEW i \in 1 .. N PROVE c.offsets[i] + fields[i].size <= c.size
    OBVIOUS
  <2>2. c.offsets[i] \in Nat /\ fields[i].size \in Nat /\ all.size \in Nat
    BY <1>1, <1>2 DEF Placed, GoodLayout, N
  <2>3. c.offsets[i] + fields[i].size <= all.size
    BY <1>1, <1>2 DEF Placed
  <2>4. QED
    BY <1>3, <2>2, <2>3
<1>5. Placed(fields, c, N)
  BY <1>1, <1>2, <1>3, <1>4 DEF Placed
<1>6. QED
  BY <1>3, <1>5 DEF c, N

\* One of the layouts is the largest.
LEMMA LargestOK ==
  ASSUME NEW N \in Nat, N # 0, NEW ls, DOMAIN ls = 1 .. N, \A i \in 1 .. N : GoodLayout(ls[i])
  PROVE  GoodLayout(Largest(ls))
<1> DEFINE Beats(i, j) == ls[j].size < ls[i].size \/ (ls[j].size = ls[i].size /\ j <= i)
           Best(n) == \E i \in 1 .. n : \A j \in 1 .. n : Beats(i, j)
           S == {n \in Nat : n = 0 \/ Best(n)}
<1>1. 0 \in S
  OBVIOUS
<1>2. ASSUME NEW n \in 0 .. (N - 1), n \in S PROVE n + 1 \in S
  <2>1. \A i \in 1 .. (n + 1) : ls[i].size \in Nat
    BY DEF GoodLayout
  <2>2. CASE n = 0
    <3>1. Beats(1, 1)
      OBVIOUS
    <3>2. Best(1)
      BY <3>1
    <3>3. QED
      BY <2>2, <3>2
  <2>3. CASE n # 0
    <3>1. PICK i \in 1 .. n : \A j \in 1 .. n : Beats(i, j)
      BY <1>2, <2>3
    <3>2. CASE ls[n + 1].size < ls[i].size
      <4>1. \A j \in 1 .. (n + 1) : Beats(i, j)
        BY <3>1, <3>2
      <4>2. QED
        BY <4>1
    <3>3. CASE ~(ls[n + 1].size < ls[i].size)
      <4>1. \A j \in 1 .. (n + 1) : Beats(n + 1, j)
        <5>1. SUFFICES ASSUME NEW j \in 1 .. (n + 1) PROVE Beats(n + 1, j)
          OBVIOUS
        <5>2. CASE j = n + 1
          BY <5>2
        <5>3. CASE j # n + 1
          <6>1. j \in 1 .. n /\ Beats(i, j)
            BY <3>1, <5>3
          <6> DEFINE x == ls[i].size
                     y == ls[j].size
                     z == ls[n + 1].size
          <6>2. x \in Nat /\ y \in Nat /\ z \in Nat /\ ~(z < x) /\ y <= x
            BY <2>1, <3>3, <6>1
          <6> HIDE DEF x, y, z
          <6>3. y < z \/ y = z
            BY <6>2
          <6>4. QED
            BY <6>3 DEF y, z
        <5>4. QED
          BY <5>2, <5>3
      <4>2. QED
        BY <4>1
    <3>4. QED
      BY <3>2, <3>3
  <2>4. QED
    BY <2>2, <2>3
<1>3. N \in S
  <2> HIDE DEF S
  <2>1. QED
    BY <1>1, <1>2, UpTo
<1>4. \E i \in DOMAIN ls : \A j \in DOMAIN ls : Beats(i, j)
  BY <1>3
<1> DEFINE best == CHOOSE i \in DOMAIN ls : \A j \in DOMAIN ls : Beats(i, j)
<1>5. best \in DOMAIN ls
  BY <1>4, Zenon
<1>6. Largest(ls) = ls[best]
  BY DEF Largest
<1>7. QED
  BY <1>5, <1>6

LEMMA SizesAreNat == ASSUME NEW b PROVE SizeInBytes(b) \in Nat
BY DEF SizeInBytes

LEMMA LayoutGood == ASSUME NEW n \in Nat PROVE GoodLayout(Layout(n, 1)) /\ GoodLayout(I64Layout)
BY DEF Layout, I64Layout, GoodLayout

\* The layouts of the members of a type.
MemberLayouts(L, members) == [i \in DOMAIN members |-> L[members[i]]]
OfMembers(L, members) == IF members = << >> THEN Layout(0, 1) ELSE Largest(MemberLayouts(L, members))

LEMMA LayoutOfUnfold ==
  ASSUME NEW t, NEW L, NEW id
  PROVE  LayoutOf(t, L, id) =
           CASE DOMAIN KindOf(t, id) = {"builtin"} -> Layout(SizeInBytes(KindOf(t, id).builtin), 1)
             [] IsCallableKind(KindOf(t, id))      -> I64Layout
             [] IsTupleKind(KindOf(t, id))         -> OfMembers(L, KindOf(t, id).tuple)
             [] IsUnionKind(KindOf(t, id))         -> OfMembers(L, KindOf(t, id).union)
             [] OTHER                              -> Layout(0, 1)
BY DEF LayoutOf, OfMembers, MemberLayouts

LEMMA OfMembersGood ==
  ASSUME NEW L, NEW members \in Seq(Nat), \A i \in DOMAIN members : GoodLayout(L[members[i]])
  PROVE  GoodLayout(OfMembers(L, members))
<1>1. CASE members = << >>
  BY <1>1, LayoutGood DEF OfMembers
<1>2. CASE members # << >>
  <2> DEFINE ls == MemberLayouts(L, members)
             N == Len(members)
  <2>1. N \in Nat /\ N # 0 /\ DOMAIN members = 1 .. N
    BY <1>2
  <2>2. DOMAIN ls = 1 .. N /\ \A i \in 1 .. N : ls[i] = L[members[i]]
    BY <2>1 DEF MemberLayouts
  <2>3. \A i \in 1 .. N : GoodLayout(ls[i])
    BY <2>1, <2>2
  <2> HIDE DEF ls, N
  <2>4. GoodLayout(Largest(ls))
    BY <2>1, <2>2, <2>3, LargestOK
  <2>5. QED
    BY <1>2, <2>4 DEF OfMembers, ls
<1>3. QED
  BY <1>1, <1>2

\* layout_of looks at the members of a type only.
LEMMA LayoutLocal ==
  ASSUME NEW t, TableOK(t), NEW id \in DOMAIN t.types, NEW g, NEW h,
         \A i \in DOMAIN t.types : i < id => g[i] = h[i]
  PROVE  LayoutOf(t, g, id) = LayoutOf(t, h, id)
<1> DEFINE k == KindOf(t, id)
<1>1. MembersBelow(t, k, id)
  BY DEF TableOK, Founded
<1> HIDE DEF k
<1>2. IsTupleKind(k) => OfMembers(g, k.tuple) = OfMembers(h, k.tuple)
  <2>1. SUFFICES ASSUME IsTupleKind(k) PROVE MemberLayouts(g, k.tuple) = MemberLayouts(h, k.tuple)
    BY DEF OfMembers
  <2>2. \A i \in DOMAIN k.tuple : g[k.tuple[i]] = h[k.tuple[i]]
    BY <1>1, <2>1 DEF MembersBelow
  <2>3. QED
    BY <2>2 DEF MemberLayouts
<1>3. IsUnionKind(k) => OfMembers(g, k.union) = OfMembers(h, k.union)
  <2>1. SUFFICES ASSUME IsUnionKind(k) PROVE MemberLayouts(g, k.union) = MemberLayouts(h, k.union)
    BY DEF OfMembers
  <2>2. \A i \in DOMAIN k.union : g[k.union[i]] = h[k.union[i]]
    BY <1>1, <2>1 DEF MembersBelow
  <2>3. QED
    BY <2>2 DEF MemberLayouts
<1>4. QED
  BY <1>2, <1>3, LayoutOfUnfold DEF k

LEMMA LayoutOfGood ==
  ASSUME NEW t, TableOK(t), NEW id \in DOMAIN t.types, NEW L,
         \A i \in DOMAIN t.types : i < id => GoodLayout(L[i])
  PROVE  GoodLayout(LayoutOf(t, L, id))
<1> DEFINE k == KindOf(t, id)
<1>1. MembersBelow(t, k, id)
  BY DEF TableOK, Founded
<1> HIDE DEF k
<1>2. IsTupleKind(k) => GoodLayout(OfMembers(L, k.tuple))
  BY <1>1, OfMembersGood DEF MembersBelow
<1>3. IsUnionKind(k) => GoodLayout(OfMembers(L, k.union))
  BY <1>1, OfMembersGood DEF MembersBelow
<1>4. GoodLayout(Layout(SizeInBytes(k.builtin), 1)) /\ GoodLayout(I64Layout) /\ GoodLayout(Layout(0, 1))
  BY SizesAreNat, LayoutGood
<1>5. QED
  BY <1>2, <1>3, <1>4, LayoutOfUnfold DEF k

\* Every type has a layout, as no type is a member of itself.
LEMMA LayoutsOK ==
  ASSUME NEW t, TableOK(t), NEW id \in DOMAIN t.types
  PROVE  GoodLayout(LayoutsOf(t)[id])
<1> DEFINE D == DOMAIN t.types
           N == t.next_free
           Is(g, n) == g = [i \in {j \in D : j < n} |-> LayoutOf(t, g, i)]
           S == {n \in Nat : \E g : Is(g, n)}
           L == CHOOSE g : g = [i \in D |-> LayoutOf(t, g, i)]
           P == {n \in Nat : \A i \in D : i < n => GoodLayout(L[i])}
<1>1. N \in Nat /\ \A i \in D : i \in Nat /\ i < N
  BY DEF TableOK, IdsBelow
<1> HIDE DEF D, N
<1>2. 0 \in S
  <2> DEFINE g == [i \in {j \in D : j < 0} |-> 0]
  <2>1. {j \in D : j < 0} = {}
    BY <1>1
  <2>2. Is(g, 0)
    BY <2>1
  <2> HIDE DEF g, Is
  <2>3. QED
    BY <2>2
<1>3. ASSUME NEW n \in 0 .. (N - 1), n \in S PROVE n + 1 \in S
  <2>1. PICK g : Is(g, n)
    BY <1>3
  <2> DEFINE h == [i \in {j \in D : j < n + 1} |-> IF i = n THEN LayoutOf(t, g, n) ELSE g[i]]
  <2>2. \A i \in D : i < n => h[i] = g[i]
    BY <1>1
  <2>3. ASSUME NEW i \in D, i < n + 1 PROVE h[i] = LayoutOf(t, h, i)
    <3>1. \A j \in D : j < i => g[j] = h[j]
      BY <1>1, <2>2, <2>3
    <3>2. LayoutOf(t, g, i) = LayoutOf(t, h, i)
      <4> HIDE DEF h
      <4>1. QED
        BY <3>1, LayoutLocal DEF D
    <3>3. h[i] = LayoutOf(t, g, i)
      BY <1>1, <2>1, <2>3
    <3>4. QED
      BY <3>2, <3>3
  <2>4. Is(h, n + 1)
    BY <2>3
  <2> HIDE DEF h, Is
  <2>5. QED
    BY <2>4
<1>4. N \in S
  <2> HIDE DEF S
  <2>1. QED
    BY <1>1, <1>2, <1>3, UpTo
<1>5. L = [i \in D |-> LayoutOf(t, L, i)]
  <2>1. {j \in D : j < N} = D
    BY <1>1
  <2>2. \E g : g = [i \in D |-> LayoutOf(t, g, i)]
    BY <1>4, <2>1
  <2>3. QED
    BY <2>2, Zenon
<1>6. LayoutsOf(t) = L
  BY DEF LayoutsOf, D
<1> HIDE DEF L
<1>7. 0 \in P
  BY <1>1
<1>8. ASSUME NEW n \in 0 .. (N - 1), n \in P PROVE n + 1 \in P
  <2>1. SUFFICES ASSUME NEW i \in D, i < n + 1 PROVE GoodLayout(L[i])
    OBVIOUS
  <2>2. \A j \in D : j < i => GoodLayout(L[j])
    BY <1>1, <1>8, <2>1
  <2>3. GoodLayout(LayoutOf(t, L, i))
    BY <2>2, LayoutOfGood DEF D
  <2>4. QED
    BY <1>5, <2>3
<1>9. N \in P
  <2> HIDE DEF P
  <2>1. QED
    BY <1>1, <1>7, <1>8, UpTo
<1>10. QED
  BY <1>1, <1>6, <1>9 DEF D

\* The fields of every tuple that the session ever makes lie apart from each other and
\* inside of what alloc_uninit allocates, for any members.
THEOREM AlwaysFieldsApart == Spec => []FieldsApart
<1>1. IInv => FieldsApart
  <2>1. SUFFICES ASSUME IInv, NEW id \in DOMAIN tcx.types, IsTupleKind(KindOf(tcx, id))
                 PROVE  LET members == KindOf(tcx, id).tuple
                            fields == FieldsOf(tcx, id)
                            End(n) == fields.offsets[n] + LayoutsOf(tcx)[members[n]].size
                        IN  \A n \in DOMAIN members :
                              /\ End(n) <= fields.size
                              /\ \A m \in 1 .. (n - 1) : End(m) <= fields.offsets[n]
    BY DEF FieldsApart
  <2> DEFINE members == KindOf(tcx, id).tuple
             L == LayoutsOf(tcx)
             ls == [i \in DOMAIN members |-> L[members[i]]]
             c == CalculateLayout(ls)
             N == Len(members)
  <2>2. TableOK(tcx) /\ MembersBelow(tcx, KindOf(tcx, id), id)
    BY <2>1 DEF IInv, TableOK, Founded
  <2>3. members \in Seq(Nat) /\ \A i \in DOMAIN members : members[i] \in DOMAIN tcx.types
    BY <2>1, <2>2 DEF MembersBelow
  <2>4. FieldsOf(tcx, id) = c
    BY DEF FieldsOf
  <2> HIDE DEF members, L
  <2>5. N \in Nat /\ DOMAIN members = 1 .. N
    BY <2>3
  <2>6. \A i \in 1 .. N : GoodLayout(L[members[i]])
    BY <2>2, <2>3, <2>5, LayoutsOK DEF L
  <2>7. DOMAIN ls = 1 .. N /\ \A i \in 1 .. N : ls[i] = L[members[i]]
    BY <2>5
  <2>8. Len(ls) = N
    BY <2>5, <2>7
  <2> HIDE DEF ls, N
  <2>9. Placed(ls, c, N)
    BY <2>5, <2>6, <2>7, <2>8, LayoutIsSound
  <2> HIDE DEF c
  <2>10. ASSUME NEW n \in 1 .. N
         PROVE  /\ c.offsets[n] + L[members[n]].size <= c.size
                /\ \A m \in 1 .. (n - 1) : c.offsets[m] + L[members[m]].size <= c.offsets[n]
    BY <2>5, <2>7, <2>9 DEF Placed
  <2>11. QED
    BY <2>4, <2>5, <2>10 DEF members, L
<1>2. QED
  BY <1>1, Invariance, PTL
=============================================================================
