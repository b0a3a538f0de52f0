------------------------------- MODULE Typing -------------------------------
(***************************************************************************)
(* The type table (TypingData of montyc_driver) and the operations on      *)
(* types that it is used through (TypingContext of montyc_core).           *)
(*                                                                         *)
(* A table maps ids to types; `clobber` maps the types it has seen to the  *)
(* ids that insert answers for them.  A type is what it is (its kind) and  *)
(* its properties.  The operations are functions from a table to a table,  *)
(* with their answer in `id`.                                              *)
(***************************************************************************)
EXTENDS Naturals, SequencesExt, Chaining

Put(f, k, v) == [x \in DOMAIN f \cup {k} |-> IF x = k THEN v ELSE f[x]]

\* The builtin types: tags, which are their ids, and sizes in bytes.
Tag == [Int |-> 1, Float |-> 2, Str |-> 3, Bool |-> 4, None |-> 5, Ellipsis |-> 6, Module |-> 7,
        Unknown |-> 8, Type |-> 9, Object |-> 10, TSelf |-> 11, UntypedFunc |-> 12,
        UntypedTuple |-> 13, AnyType |-> 14, Bytes |-> 15,
        U8 |-> 100, U16 |-> 101, U32 |-> 102, U64 |-> 103,
        I8 |-> 104, I16 |-> 105, I32 |-> 106, I64 |-> 107, Never |-> 255]
SizeInBytes(b) ==
  CASE b \in {"Ellipsis", "Unknown", "Never"} -> 0
    [] b \in {"U8", "I8"} -> 1
    [] b \in {"U16", "I16"} -> 2
    [] b \in {"U32", "I32"} -> 4
    [] OTHER -> 8
FirstId == 256

\* Kinds.  An absent list of members is empty.
Builtin(b)        == [builtin |-> b]
TupleKind(ms)     == [tuple |-> ms]
UnionKind(ms)     == [union |-> ms]
ListKind(t)       == [list |-> t]
TypeKind(t)       == [of |-> t]
ClassKind(o)      == [class |-> o]
InstanceKind(v)   == [instance |-> v]
CallableKind(ps, r) == [params |-> ps, ret |-> r]
IsTupleKind(k)    == DOMAIN k = {"tuple"}
IsUnionKind(k)    == DOMAIN k = {"union"}
IsCallableKind(k) == DOMAIN k = {"params", "ret"}
IsClassKind(k)    == DOMAIN k = {"class"}

NoProperties == [n \in {} |-> n]
Plain(kind) == [kind |-> kind, properties |-> NoProperties]
\* What a property leads to: a value, or a slot of a builtin type.  Names are written
\* without their underscores.
Property(t, v)  == [type_id |-> t, value |-> [id |-> v]]
SlotProperty(t, base, name) == [type_id |-> t, value |-> [slot_of |-> base, slot |-> name]]

-----------------------------------------------------------------------------
(* The table.                                                              *)

\* initialized, with write_ssa.
Initialized ==
  LET ids == {Tag[b] : b \in DOMAIN Tag}
      BuiltinOf(i) == CHOOSE b \in DOMAIN Tag : Tag[b] = i
  IN  [types |-> [i \in ids |-> Plain(Builtin(BuiltinOf(i)))],
       clobber |-> [ty \in {Plain(Builtin(b)) : b \in DOMAIN Tag} |-> Tag[ty.kind.builtin]],
       next_free |-> FirstId, id |-> 0]

\* A table that answers id and has not changed.
Answer(tcx, id) == [types |-> tcx.types, clobber |-> tcx.clobber, next_free |-> tcx.next_free, id |-> id]

Insert(tcx, ty) ==
  IF ty \in DOMAIN tcx.clobber THEN Answer(tcx, tcx.clobber[ty])
  ELSE [types |-> Put(tcx.types, tcx.next_free, ty), clobber |-> Put(tcx.clobber, ty, tcx.next_free),
        next_free |-> tcx.next_free + 1, id |-> tcx.next_free]

KindOf(tcx, id) == tcx.types[id].kind

\* Mutant of InsertProperty: the clobber map forgets the type as it was before.
InsertPropertyMoves(tcx, base, name, property) ==
  LET old == tcx.types[base]
      ty == [old EXCEPT !.properties = Put(@, name, property)]
      rest == [t \in (DOMAIN tcx.clobber) \ {old} |-> tcx.clobber[t]]
  IN  [tcx EXCEPT !.types[base] = ty, !.clobber = Put(rest, ty, base)]

\* Mutant of InsertProperty: the type keeps its last property only.
InsertPropertyReplaces(tcx, base, name, property) ==
  LET ty == [tcx.types[base] EXCEPT !.properties = Put(NoProperties, name, property)]
  IN  [tcx EXCEPT !.types[base] = ty, !.clobber = Put(@, ty, base)]

\* The changed type leads to its id, and so does the type as it was before.
InsertProperty(tcx, base, name, property) ==
  LET ty == [kind |-> KindOf(tcx, base), properties |-> Put(tcx.types[base].properties, name, property)]
  IN  [types |-> Put(tcx.types, base, ty), clobber |-> Put(tcx.clobber, ty, base),
       next_free |-> tcx.next_free, id |-> tcx.id]

Callable(tcx, params, ret) == Insert(tcx, Plain(CallableKind(params, ret)))

\* A property of the type or else of Type[it], which the lookup adds to the table.
Looked(tcx, base, name) ==
  IF name \in DOMAIN tcx.types[base].properties THEN tcx ELSE Insert(tcx, Plain(TypeKind(base)))
\* The types whose properties are considered, the first one first.
HasProperty(tcx, base, name) ==
  LET klass == Looked(tcx, base, name) IN
    \/ name \in DOMAIN tcx.types[base].properties
    \/ name \in DOMAIN klass.types[klass.id].properties
GetProperty(tcx, base, name) ==
  LET klass == Looked(tcx, base, name) IN
    IF name \in DOMAIN tcx.types[base].properties THEN tcx.types[base].properties[name]
    ELSE klass.types[klass.id].properties[name]

-----------------------------------------------------------------------------
(* Composite types.                                                        *)

\* sort and dedup of the members of a tuple.
Sorted(ids) == CHOOSE s \in SetToSeqs(ids) : \A i, j \in DOMAIN s : i < j => s[i] < s[j]

\* The type of the items of a tuple: their one type, or the union of them, sorted.
Items(tcx, members) ==
  LET uniq == Sorted(ToSet(members))
  IN  CASE members = << >> -> Answer(tcx, Tag.Never)
        [] Len(uniq) = 1   -> Answer(tcx, uniq[1])
        [] OTHER           -> Insert(tcx, Plain(UnionKind(uniq)))

\* __getitem__ and __setitem__ of a tuple, as a function of an int; `item` is what is set.
WithSlot(tcx, tuple, name, callable) ==
  Then(Insert(tcx, Plain(callable)),
       LAMBDA t : InsertProperty(t, tuple, name, SlotProperty(t.id, tuple, name)))
WithSlots(tcx, tuple, items, item) ==
  Then(WithSlot(tcx, tuple, "getitem", CallableKind(<<tuple, Tag.Int>>, items)),
       LAMBDA t : Answer(WithSlot(t, tuple, "setitem", CallableKind(<<tuple, Tag.Int, item>>, Tag.None)), tuple))

\* TypingContext::tuple
TupleType(tcx, members) ==
  Then(Insert(tcx, Plain(TupleKind(members))),
       LAMBDA t : Then(Items(t, members), LAMBDA u :
         WithSlots(u, t.id, u.id, IF members = << >> THEN Tag.AnyType ELSE u.id)))

\* The ids that make_union collects in a hash set.
Alternatives(tcx, id) == IF IsUnionKind(KindOf(tcx, id)) THEN ToSet(KindOf(tcx, id).union) ELSE {id}

\* The tables that make_union may answer: a hash set has no order of its own.
MakeUnion(tcx, left, right) ==
  LET members == Alternatives(tcx, left) \cup Alternatives(tcx, right)
  IN  {Insert(tcx, Plain(UnionKind(ms))) : ms \in SetToSeqs(members)}

\* unify_func: arity first, then the arguments; a self parameter takes anything.
SameArity(tcx, func, args) == Len(KindOf(tcx, func).params) = Len(args)
Unifies(tcx, func, args) ==
  LET params == KindOf(tcx, func).params
  IN  \A i \in DOMAIN params :
        params[i] = Tag.Unknown \/ params[i] = args[i] \/ (i = 1 /\ params[i] = Tag.TSelf)

-----------------------------------------------------------------------------
(* Layouts.                                                                *)

Layout(size, align) == [size |-> size, align |-> align]
I64Layout == Layout(8, 8)
RoundUp(n, align) == ((n + align - 1) \div align) * align

\* Mutant of CalculateLayout: a field starts where the one before it does.
CalculateLayoutPacked(fields) ==
  FoldLeft(LAMBDA acc, f : [size |-> acc.size + f.size, align |-> acc.align,
                            offsets |-> Append(acc.offsets, Len(acc.offsets))],
           [size |-> 0, align |-> 1, offsets |-> << >>], fields)

\* calculate_layout: extend for each of the fields, then pad_to_align; the assertion
\* that the size is not 0 is left to the caller.
Extend(acc, f) ==
  LET offset == RoundUp(acc.size, f.align)
  IN  [size |-> offset + f.size, align |-> IF f.align > acc.align THEN f.align ELSE acc.align,
       offsets |-> Append(acc.offsets, offset)]
Extended(fields) ==
  LET layout[n \in 0 .. Len(fields)] ==
        IF n = 0 THEN [size |-> 0, align |-> 1, offsets |-> << >>] ELSE Extend(layout[n - 1], fields[n])
  IN  layout[Len(fields)]
CalculateLayout(fields) ==
  LET all == Extended(fields)
  IN  [size |-> RoundUp(all.size, all.align), align |-> all.align, offsets |-> all.offsets]

\* The largest of some layouts; of several, the last (max_by).
Largest(ls) ==
  ls[CHOOSE i \in DOMAIN ls : \A j \in DOMAIN ls :
       ls[j].size < ls[i].size \/ (ls[j].size = ls[i].size /\ j <= i)]

\* layout_of, given the layouts of the members: a tuple is held by reference, and
\* counted as its largest member.  The code has nothing for the other kinds, nor for no
\* members (todo!, unwrap).
LayoutOf(tcx, L, id) ==
  LET k == KindOf(tcx, id)
      Of(members) == IF members = << >> THEN Layout(0, 1)
                     ELSE Largest([i \in DOMAIN members |-> L[members[i]]])
  IN  CASE DOMAIN k = {"builtin"} -> Layout(SizeInBytes(k.builtin), 1)
        [] IsCallableKind(k)      -> I64Layout
        [] IsTupleKind(k)         -> Of(k.tuple)
        [] IsUnionKind(k)         -> Of(k.union)
        [] OTHER                  -> Layout(0, 1)
LayoutsOf(tcx) == LET L[id \in DOMAIN tcx.types] == LayoutOf(tcx, L, id) IN L
FieldsOf(tcx, id) ==
  LET members == KindOf(tcx, id).tuple
  IN  CalculateLayout([i \in DOMAIN members |-> LayoutsOf(tcx)[members[i]]])
=============================================================================
