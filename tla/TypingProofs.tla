---------------------------- MODULE TypingProofs ----------------------------
(***************************************************************************)
(* What the operations on type tables keep and what they answer; and       *)
(* induction over the naturals.                                            *)
(***************************************************************************)
EXTENDS Typing, FiniteSetTheorems, WellFoundedInduction, TLAPS

-----------------------------------------------------------------------------
(* Tables.                                                                 *)

\* The members a kind lists are types of the table, with ids below n.
MembersBelow(t, k, n) ==
  /\ IsTupleKind(k) => /\ k.tuple \in Seq(Nat)
                       /\ \A m \in DOMAIN k.tuple : k.tuple[m] \in DOMAIN t.types /\ k.tuple[m] < n
  /\ IsUnionKind(k) => /\ k.union \in Seq(Nat)
                       /\ \A m \in DOMAIN k.union : k.union[m] \in DOMAIN t.types /\ k.union[m] < n

IdsBelow(t) == \A i \in DOMAIN t.types : i \in Nat /\ i # 0 /\ i < t.next_free
\* A type as it was entered: a class with its properties, which nothing adds to
\* afterwards, and the others without any.
Entered(t, i) == IF IsClassKind(KindOf(t, i)) THEN t.types[i] ELSE Plain(KindOf(t, i))
\* What the clobber map says of a type as it was entered is where the type is.
Found(t) == \A i \in DOMAIN t.types : /\ Entered(t, i) \in DOMAIN t.clobber
                                      /\ t.clobber[Entered(t, i)] = i
Sound(t) == \A ty \in DOMAIN t.clobber : /\ t.clobber[ty] \in DOMAIN t.types
                                         /\ KindOf(t, t.clobber[ty]) = ty.kind
                                         /\ IsClassKind(ty.kind) => t.types[t.clobber[ty]] = ty
Builtins(t) == \A b \in DOMAIN Tag : Tag[b] \in DOMAIN t.types /\ KindOf(t, Tag[b]) = Builtin(b)
Founded(t) == \A i \in DOMAIN t.types : MembersBelow(t, KindOf(t, i), i)

TableOK(t) ==
  /\ t.next_free \in Nat /\ t.next_free # 0
  /\ IdsBelow(t)
  /\ Found(t)
  /\ Sound(t)
  /\ Builtins(t)
  /\ Founded(t)

\* Table u has the types of table t, and its classes as they are.
Grows(t, u) ==
  \A i \in DOMAIN t.types :
    /\ i \in DOMAIN u.types
    /\ KindOf(u, i) = KindOf(t, i)
    /\ DOMAIN t.types[i].properties \subseteq DOMAIN u.types[i].properties
    /\ IsClassKind(KindOf(t, i)) => u.types[i] = t.types[i]

LEMMA GrowsStutters == ASSUME NEW t PROVE Grows(t, t)
BY DEF Grows

LEMMA GrowsFurther ==
  ASSUME NEW t, NEW u, NEW w, Grows(t, u), Grows(u, w)
  PROVE  Grows(t, w)
BY DEF Grows

\* One id per kind, and for a class per type.
LEMMA OneId == ASSUME NEW t, TableOK(t), NEW i \in DOMAIN t.types, NEW j \in DOMAIN t.types,
                      KindOf(t, i) = KindOf(t, j),
                      IsClassKind(KindOf(t, i)) => t.types[i] = t.types[j]
               PROVE  i = j
BY DEF TableOK, Found, Entered

LEMMA PlainKind == ASSUME NEW k PROVE Plain(k).kind = k /\ Plain(k).properties = NoProperties
BY DEF Plain

\* Types without properties are as distinct as their kinds.
LEMMA PlainInjective == ASSUME NEW k, NEW l, Plain(k) = Plain(l) PROVE k = l
BY PlainKind

LEMMA AnswerOK ==
  ASSUME NEW t, NEW i, TableOK(t)
  PROVE  TableOK(Answer(t, i)) /\ Grows(t, Answer(t, i)) /\ Answer(t, i).id = i
<1> DEFINE u == Answer(t, i)
<1>1. u.types = t.types /\ u.clobber = t.clobber /\ u.next_free = t.next_free /\ u.id = i
  BY DEF Answer
<1> HIDE DEF u
<1>2. Grows(t, u)
  BY <1>1 DEF Grows, KindOf
<1>3. TableOK(u)
  BY <1>1 DEF TableOK, IdsBelow, Found, Entered, Sound, Builtins, Founded, MembersBelow, KindOf
<1>4. QED
  BY <1>1, <1>2, <1>3 DEF u

\* insert: the table has the type, under the id that is the answer.
LEMMA InsertTypeOK ==
  ASSUME NEW t, NEW ty, TableOK(t), MembersBelow(t, ty.kind, t.next_free),
         IsClassKind(ty.kind) \/ ty = Plain(ty.kind)
  PROVE  /\ TableOK(Insert(t, ty))
         /\ Grows(t, Insert(t, ty))
         /\ Insert(t, ty).id \in DOMAIN Insert(t, ty).types
         /\ KindOf(Insert(t, ty), Insert(t, ty).id) = ty.kind
         /\ IsClassKind(ty.kind) => Insert(t, ty).types[Insert(t, ty).id] = ty
<1> DEFINE u == Insert(t, ty)
           n == t.next_free
<1>1. CASE ty \in DOMAIN t.clobber
  <2>1. u = Answer(t, t.clobber[ty])
    BY <1>1 DEF Insert
  <2>2. /\ t.clobber[ty] \in DOMAIN t.types /\ KindOf(t, t.clobber[ty]) = ty.kind
        /\ IsClassKind(ty.kind) => t.types[t.clobber[ty]] = ty
    BY <1>1 DEF TableOK, Sound
  <2>3. TableOK(u) /\ Grows(t, u) /\ u.id = t.clobber[ty]
    BY <2>1, AnswerOK
  <2>4. QED
    BY <2>2, <2>3 DEF Grows
<1>2. CASE ty \notin DOMAIN t.clobber
  <2>1. u.types = Put(t.types, n, ty) /\ u.clobber = Put(t.clobber, ty, n) /\ u.next_free = n + 1 /\ u.id = n
    BY <1>2 DEF Insert
  <2>2. /\ DOMAIN u.types = DOMAIN t.types \cup {n}
        /\ u.types[n] = ty
        /\ \A i \in DOMAIN t.types : i # n /\ u.types[i] = t.types[i]
    BY <2>1 DEF Put, TableOK, IdsBelow
  <2>3. /\ DOMAIN u.clobber = DOMAIN t.clobber \cup {ty}
        /\ u.clobber[ty] = n
        /\ \A x \in DOMAIN t.clobber : u.clobber[x] = t.clobber[x]
    BY <2>1, <1>2 DEF Put
  <2>4. KindOf(u, n) = ty.kind /\ \A i \in DOMAIN t.types : KindOf(u, i) = KindOf(t, i)
    BY <2>2 DEF KindOf
  <2> HIDE DEF u, n
  <2>5. n \in Nat /\ n # 0 /\ u.next_free \in Nat /\ u.next_free # 0
    BY <2>1 DEF TableOK, n
  <2>6. IdsBelow(u)
    BY <2>1, <2>2, <2>5 DEF TableOK, IdsBelow, n
  <2>7. Found(u)
    <3>1. Entered(u, n) = ty /\ \A i \in DOMAIN t.types : Entered(u, i) = Entered(t, i)
      BY <2>2, <2>4 DEF Entered
    <3>2. QED
      BY <2>2, <2>3, <3>1 DEF TableOK, Found
  <2>8. Sound(u)
    BY <2>2, <2>3, <2>4 DEF TableOK, Sound
  <2>9. Builtins(u)
    BY <2>2, <2>4 DEF TableOK, Builtins
  <2>10. Founded(u)
    BY <2>2, <2>4 DEF TableOK, Founded, MembersBelow, n
  <2>11. Grows(t, u)
    BY <2>2, <2>4 DEF Grows
  <2>12. QED
    BY <2>1, <2>2, <2>4, <2>5, <2>6, <2>7, <2>8, <2>9, <2>10, <2>11 DEF TableOK, u
<1>3. QED
  BY <1>1, <1>2

\* insert of a kind.
LEMMA InsertOK ==
  ASSUME NEW t, NEW k, TableOK(t), MembersBelow(t, k, t.next_free)
  PROVE  /\ TableOK(Insert(t, Plain(k)))
         /\ Grows(t, Insert(t, Plain(k)))
         /\ Insert(t, Plain(k)).id \in DOMAIN Insert(t, Plain(k)).types
         /\ KindOf(Insert(t, Plain(k)), Insert(t, Plain(k)).id) = k
<1> DEFINE ty == Plain(k)
<1>1. ty.kind = k
  BY PlainKind
<1>2. MembersBelow(t, ty.kind, t.next_free) /\ ty = Plain(ty.kind)
  BY <1>1
<1> HIDE DEF ty
<1>3. QED
  BY <1>1, <1>2, InsertTypeOK DEF ty

\* insert_property, which is not for classes: the type has one property more and every
\* kind is where it was.
LEMMA InsertPropertyOK ==
  ASSUME NEW t, NEW base, NEW name, NEW p, TableOK(t), base \in DOMAIN t.types,
         ~IsClassKind(KindOf(t, base))
  PROVE  /\ TableOK(InsertProperty(t, base, name, p))
         /\ Grows(t, InsertProperty(t, base, name, p))
         /\ InsertProperty(t, base, name, p).id = t.id
<1> DEFINE props == Put(t.types[base].properties, name, p)
           ty == [kind |-> KindOf(t, base), properties |-> props]
           u == InsertProperty(t, base, name, p)
<1>1. /\ u.types = Put(t.types, base, ty)
      /\ u.clobber = Put(t.clobber, ty, base)
      /\ u.next_free = t.next_free
      /\ u.id = t.id
  BY DEF InsertProperty
<1>2. DOMAIN props = DOMAIN t.types[base].properties \cup {name}
  BY DEF Put
<1>3. ty.kind = KindOf(t, base) /\ ty.properties = props
  OBVIOUS
<1>4. \A k : ty # Plain(k)
  BY <1>2, <1>3, PlainKind DEF NoProperties
<1> HIDE DEF props, ty, u
<1>5. /\ DOMAIN u.types = DOMAIN t.types
      /\ u.types[base] = ty
      /\ \A i \in DOMAIN t.types : i # base => u.types[i] = t.types[i]
  BY <1>1 DEF Put
<1>6. /\ DOMAIN u.clobber = DOMAIN t.clobber \cup {ty}
      /\ u.clobber[ty] = base
      /\ \A x \in DOMAIN t.clobber : x # ty => u.clobber[x] = t.clobber[x]
  BY <1>1 DEF Put
<1>7. \A i \in DOMAIN t.types : KindOf(u, i) = KindOf(t, i)
  BY <1>3, <1>5 DEF KindOf
<1>8. IdsBelow(u) /\ u.next_free \in Nat /\ u.next_free # 0
  BY <1>1, <1>5 DEF TableOK, IdsBelow
<1>9. Found(u)
  <2>1. \A i \in DOMAIN t.types : Entered(u, i) = Entered(t, i)
    BY <1>5, <1>7 DEF Entered
  <2>2. \A i \in DOMAIN t.types : Entered(t, i) # ty
    BY <1>3, <1>4 DEF Entered, KindOf
  <2>3. QED
    BY <1>5, <1>6, <2>1, <2>2 DEF TableOK, Found
<1>10. Sound(u)
  BY <1>3, <1>5, <1>6, <1>7 DEF TableOK, Sound
<1>11. Builtins(u)
  BY <1>5, <1>7 DEF TableOK, Builtins
<1>12. Founded(u)
  BY <1>5, <1>7 DEF TableOK, Founded, MembersBelow
<1>13. Grows(t, u)
  BY <1>2, <1>3, <1>5, <1>7 DEF Grows
<1>14. QED
  BY <1>1, <1>8, <1>9, <1>10, <1>11, <1>12, <1>13 DEF TableOK, u

-----------------------------------------------------------------------------
(* Induction over the naturals, from the fact that < is well founded.      *)

Below == {p \in Nat \X Nat : p[1] < p[2]}

LEMMA Least ==
  ASSUME NEW T \in SUBSET Nat, T # {}
  PROVE  \E m \in T : \A n \in T : m <= n
<1>1. IsWellFoundedOn(Below, Nat)
  BY NatLessThanWellFounded DEF OpToRel, Below
<1>2. PICK m \in T : \A y \in T : ~ (<<y, m>> \in Below)
  BY <1>1, WFMin
<1>3. ASSUME NEW n \in T PROVE m <= n
  <2>1. ~(<<n, m>> \in Below)
    BY <1>2
  <2>2. QED
    BY <2>1 DEF Below
<1>4. QED
  BY <1>3

\* A set that has 0 and with n also n + 1, as far as N, has N.
LEMMA UpTo ==
  ASSUME NEW N \in Nat, NEW S, 0 \in S, \A n \in 0 .. (N - 1) : n \in S => n + 1 \in S
  PROVE  N \in S
<1> DEFINE T == {n \in 0 .. N : n \notin S}
<1>1. SUFFICES ASSUME T # {} PROVE FALSE
  OBVIOUS
<1>2. PICK m \in T : \A n \in T : m <= n
  <2>1. T \in SUBSET Nat
    OBVIOUS
  <2> HIDE DEF T
  <2>2. QED
    BY <1>1, <2>1, Least
<1>3. m # 0 /\ m - 1 \in 0 .. (N - 1)
  OBVIOUS
<1>4. m - 1 \in S
  BY <1>2, <1>3
<1>5. QED
  BY <1>3, <1>4

-----------------------------------------------------------------------------
(* Tuples.                                                                 *)

\* A set of numbers with an upper bound has a largest one.
LEMMA Greatest ==
  ASSUME NEW S \in SUBSET Nat, S # {}, NEW n \in Nat, \A s \in S : s <= n
  PROVE  \E m \in S : \A s \in S : s <= m
<1> DEFINE B == {b \in Nat : \A s \in S : s <= b}
<1>1. B \in SUBSET Nat /\ B # {}
  OBVIOUS
<1>2. PICK b \in B : \A c \in B : b <= c
  <2> HIDE DEF B
  <2>1. QED
    BY <1>1, Least
<1>3. b \in S
  <2>1. SUFFICES ASSUME b \notin S PROVE FALSE
    OBVIOUS
  <2>2. PICK s \in S : TRUE
    OBVIOUS
  <2>3. b # 0
    BY <2>1, <2>2
  <2>4. b - 1 \in B
    BY <2>1, <2>3
  <2>5. QED
    BY <1>2, <2>4
<1>4. QED
  BY <1>3

\* sort and dedup lists the set in ascending order.
LEMMA SortedExists ==
  ASSUME NEW n \in Nat, NEW b \in Nat
  PROVE  \A I \in SUBSET (0 .. b) : IsFiniteSet(I) /\ Cardinality(I) = n =>
           \E s \in SetToSeqs(I) : \A i, j \in DOMAIN s : i < j => s[i] < s[j]
<1> DEFINE Q(I) == \E s \in SetToSeqs(I) : \A i, j \in DOMAIN s : i < j => s[i] < s[j]
           S == {k \in Nat : \A I \in SUBSET (0 .. b) : IsFiniteSet(I) /\ Cardinality(I) = k => Q(I)}
<1>1. 0 \in S
  <2>1. SUFFICES ASSUME NEW I \in SUBSET (0 .. b), IsFiniteSet(I), Cardinality(I) = 0
                 PROVE  Q(I)
    OBVIOUS
  <2> DEFINE s == [i \in 1 .. 0 |-> 0]
  <2>2. s \in SetToSeqs(I)
    BY <2>1 DEF SetToSeqs
  <2>3. QED
    BY <2>2
<1>2. ASSUME NEW k \in 0 .. (n - 1), k \in S PROVE k + 1 \in S
  <2>1. SUFFICES ASSUME NEW I \in SUBSET (0 .. b), IsFiniteSet(I), Cardinality(I) = k + 1
                 PROVE  Q(I)
    OBVIOUS
  <2>2. I # {}
    BY <2>1, FS_EmptySet
  <2>3. I \in SUBSET Nat /\ \A i \in I : i <= b
    OBVIOUS
  <2>4. PICK x \in I : \A i \in I : i <= x
    BY <2>2, <2>3, Greatest
  <2> DEFINE J == I \ {x}
  <2>5. IsFiniteSet(J) /\ Cardinality(J) = k
    BY <2>1, FS_RemoveElement
  <2>6. PICK s \in SetToSeqs(J) : \A i, j \in DOMAIN s : i < j => s[i] < s[j]
    BY <1>2, <2>5
  <2>7. s \in [1 .. k -> J] /\ \A i, j \in 1 .. k : i # j => s[i] # s[j]
    BY <2>5, <2>6 DEF SetToSeqs
  <2> DEFINE r == [i \in 1 .. (k + 1) |-> IF i = k + 1 THEN x ELSE s[i]]
  <2>8. r \in [1 .. (k + 1) -> I] /\ \A i, j \in 1 .. (k + 1) : i # j => r[i] # r[j]
    BY <2>7
  <2>9. r \in SetToSeqs(I)
    BY <2>1, <2>8 DEF SetToSeqs
  <2>10. \A i, j \in DOMAIN r : i < j => r[i] < r[j]
    <3>1. SUFFICES ASSUME NEW i \in 1 .. (k + 1), NEW j \in 1 .. (k + 1), i < j
                   PROVE  r[i] < r[j]
      OBVIOUS
    <3>2. i \in 1 .. k /\ r[i] = s[i] /\ s[i] \in I /\ s[i] # x
      BY <2>7, <3>1
    <3>3. CASE j = k + 1
      <4>1. r[j] = x /\ x \in Nat /\ s[i] \in Nat /\ s[i] <= x
        BY <2>3, <2>4, <3>2, <3>3
      <4>2. QED
        BY <3>2, <4>1
    <3>4. CASE j # k + 1
      BY <2>6, <2>7, <3>1, <3>2, <3>4
    <3>5. QED
      BY <3>3, <3>4
  <2> HIDE DEF r
  <2>11. QED
    BY <2>9, <2>10
<1>3. n \in S
  <2> HIDE DEF S
  <2>1. QED
    BY <1>1, <1>2, UpTo
<1>4. QED
  BY <1>3

LEMMA SortedOK ==
  ASSUME NEW b \in Nat, NEW I \in SUBSET (0 .. b)
  PROVE  Sorted(I) \in SetToSeqs(I) /\ Sorted(I) \in Seq(Nat)
<1>1. I \in SUBSET Nat /\ \A i \in I : i <= b
  OBVIOUS
<1>2. IsFiniteSet(I)
  BY <1>1, FS_BoundedSetOfNaturals
<1>3. Cardinality(I) \in Nat
  BY <1>2, FS_CardinalityType
<1>4. \E s \in SetToSeqs(I) : \A i, j \in DOMAIN s : i < j => s[i] < s[j]
  BY <1>2, <1>3, SortedExists
<1>5. Sorted(I) \in SetToSeqs(I)
  BY <1>4, Zenon DEF Sorted
<1>6. Sorted(I) \in [1 .. Cardinality(I) -> I]
  BY <1>5 DEF SetToSeqs
<1>7. ASSUME NEW n \in Nat, NEW s \in [1 .. n -> I] PROVE s \in Seq(Nat)
  <2>1. s \in [1 .. n -> Nat]
    BY <1>1
  <2>2. QED
    BY <2>1
<1>8. QED
  BY <1>3, <1>5, <1>6, <1>7, Zenon

\* The members of a tuple: types of the table.
Members(t, members) == members \in Seq(Nat) /\ \A i \in DOMAIN members : members[i] \in DOMAIN t.types

LEMMA ItemsOK ==
  ASSUME NEW t, TableOK(t), NEW members, Members(t, members)
  PROVE  TableOK(Items(t, members)) /\ Grows(t, Items(t, members)) 
<1> DEFINE uniq == Sorted(ToSet(members))
<1>1. CASE members = << >>
  BY <1>1, AnswerOK DEF Items
<1>2. CASE members # << >> /\ Len(uniq) = 1
  BY <1>2, AnswerOK DEF Items
<1>3. CASE members # << >> /\ Len(uniq) # 1
  <2>1. Items(t, members) = Insert(t, Plain(UnionKind(uniq)))
    BY <1>3 DEF Items
  <2>2. t.next_free \in Nat /\ ToSet(members) \in SUBSET (0 .. t.next_free)
    BY DEF ToSet, Members, TableOK, IdsBelow
  <2>3. uniq \in SetToSeqs(ToSet(members)) /\ uniq \in Seq(Nat)
    BY <2>2, SortedOK
  <2>4. uniq \in [1 .. Cardinality(ToSet(members)) -> ToSet(members)]
    BY <2>3 DEF SetToSeqs
  <2>5. \A i \in DOMAIN uniq : uniq[i] \in DOMAIN t.types /\ uniq[i] < t.next_free
    BY <2>4 DEF ToSet, Members, TableOK, IdsBelow
  <2>6. MembersBelow(t, UnionKind(uniq), t.next_free)
    <3>1. DOMAIN UnionKind(uniq) = {"union"} /\ UnionKind(uniq).union = uniq
      BY DEF UnionKind
    <3>2. {"union"} # {"tuple"}
      OBVIOUS
    <3> HIDE DEF uniq
    <3>3. QED
      BY <2>3, <2>5, <3>1, <3>2 DEF MembersBelow, IsTupleKind, IsUnionKind
  <2>7. QED
    BY <2>1, <2>6, InsertOK
<1>4. QED
  BY <1>1, <1>2, <1>3

LEMMA WithSlotOK ==
  ASSUME NEW t, TableOK(t), NEW tuple \in DOMAIN t.types, IsTupleKind(KindOf(t, tuple)),
         NEW name, NEW ps, NEW r
  PROVE  /\ TableOK(WithSlot(t, tuple, name, CallableKind(ps, r)))
         /\ Grows(t, WithSlot(t, tuple, name, CallableKind(ps, r)))
<1> DEFINE k == CallableKind(ps, r)
           u == Insert(t, Plain(k))
<1>1. DOMAIN k = {"params", "ret"}
  BY DEF CallableKind
<1> HIDE DEF k
<1>2. MembersBelow(t, k, t.next_free)
  BY <1>1 DEF MembersBelow, IsTupleKind, IsUnionKind
<1>3. TableOK(u) /\ Grows(t, u)
  BY <1>2, InsertOK
<1>4. WithSlot(t, tuple, name, k) = InsertProperty(u, tuple, name, SlotProperty(u.id, tuple, name))
  BY DEF WithSlot, Then
<1> HIDE DEF u
<1>5. tuple \in DOMAIN u.types /\ KindOf(u, tuple) = KindOf(t, tuple)
  BY <1>3 DEF Grows
<1>6. ~IsClassKind(KindOf(u, tuple))
  BY <1>5 DEF IsTupleKind, IsClassKind
<1>7. QED
  BY <1>3, <1>4, <1>5, <1>6, InsertPropertyOK, GrowsFurther DEF k

LEMMA TupleTypeOK ==
  ASSUME NEW t, TableOK(t), NEW members, Members(t, members)
  PROVE  TableOK(TupleType(t, members)) /\ Grows(t, TupleType(t, members))
<1> DEFINE k == TupleKind(members)
           t1 == Insert(t, Plain(k))
           t2 == Items(t1, members)
           item == IF members = << >> THEN Tag.AnyType ELSE t2.id
           t3 == WithSlot(t2, t1.id, "getitem", CallableKind(<<t1.id, Tag.Int>>, t2.id))
           t4 == WithSlot(t3, t1.id, "setitem", CallableKind(<<t1.id, Tag.Int, item>>, Tag.None))
<1>1. TupleType(t, members) = Answer(t4, t1.id)
  BY DEF TupleType, WithSlots, Then
<1>2. MembersBelow(t, k, t.next_free) /\ IsTupleKind(k)
  <2>1. DOMAIN k = {"tuple"} /\ k.tuple = members
    BY DEF TupleKind
  <2>2. {"union"} # {"tuple"}
    OBVIOUS
  <2> HIDE DEF k
  <2>3. QED
    BY <2>1, <2>2 DEF MembersBelow, IsTupleKind, IsUnionKind, Members, TableOK, IdsBelow
<1> HIDE DEF k
<1>3. TableOK(t1) /\ Grows(t, t1) /\ t1.id \in DOMAIN t1.types /\ IsTupleKind(KindOf(t1, t1.id))
  BY <1>2, InsertOK
<1> HIDE DEF t1
<1>4. Members(t1, members)
  BY <1>3 DEF Members, Grows
<1>5. TableOK(t2) /\ Grows(t1, t2)
  BY <1>3, <1>4, ItemsOK
<1> HIDE DEF t2, item
<1>6. t1.id \in DOMAIN t2.types /\ IsTupleKind(KindOf(t2, t1.id))
  BY <1>3, <1>5 DEF Grows
<1>7. TableOK(t3) /\ Grows(t2, t3)
  BY <1>5, <1>6, WithSlotOK
<1> HIDE DEF t3
<1>8. t1.id \in DOMAIN t3.types /\ IsTupleKind(KindOf(t3, t1.id))
  BY <1>6, <1>7 DEF Grows
<1>9. TableOK(t4) /\ Grows(t3, t4)
  BY <1>7, <1>8, WithSlotOK
<1> HIDE DEF t4
<1>10. TableOK(Answer(t4, t1.id)) /\ Grows(t4, Answer(t4, t1.id))
  BY <1>9, AnswerOK
<1>11. Grows(t, t3)
  BY <1>3, <1>5, <1>7, GrowsFurther
<1>12. QED
  BY <1>1, <1>9, <1>10, <1>11, GrowsFurther

LEMMA TypeKindOK ==
  ASSUME NEW t, TableOK(t), NEW i
  PROVE  /\ TableOK(Insert(t, Plain(TypeKind(i))))
         /\ Grows(t, Insert(t, Plain(TypeKind(i))))
         /\ Insert(t, Plain(TypeKind(i))).id \in DOMAIN Insert(t, Plain(TypeKind(i))).types
         /\ ~IsClassKind(KindOf(Insert(t, Plain(TypeKind(i))), Insert(t, Plain(TypeKind(i))).id))
<1>1. DOMAIN TypeKind(i) = {"of"}
  BY DEF TypeKind
<1>2. {"of"} # {"union"} /\ {"of"} # {"tuple"} /\ {"of"} # {"class"}
  OBVIOUS
<1>3. MembersBelow(t, TypeKind(i), t.next_free) /\ ~IsClassKind(TypeKind(i))
  BY <1>1, <1>2 DEF MembersBelow, IsTupleKind, IsUnionKind, IsClassKind
<1>4. QED
  BY <1>3, InsertOK

LEMMA InitializedOK == TableOK(Initialized)
<1> DEFINE ids == {Tag[b] : b \in DOMAIN Tag}
           Of(i) == CHOOSE b \in DOMAIN Tag : Tag[b] = i
           t == Initialized
<1>1. \A b, c \in DOMAIN Tag : Tag[b] = Tag[c] => b = c
  BY DEF Tag
<1>2. \A b \in DOMAIN Tag : Tag[b] \in Nat /\ Tag[b] # 0 /\ Tag[b] < 256
  BY DEF Tag
<1>3. \A b \in DOMAIN Tag : Of(Tag[b]) = b
  BY <1>1
<1>4. /\ t.types = [i \in ids |-> Plain(Builtin(Of(i)))]
      /\ t.clobber = [ty \in {Plain(Builtin(b)) : b \in DOMAIN Tag} |-> Tag[ty.kind.builtin]]
      /\ t.next_free = 256
  BY DEF Initialized, FirstId
<1>5. \A b : Builtin(b).builtin = b /\ DOMAIN Builtin(b) = {"builtin"}
  BY DEF Builtin
<1> HIDE DEF Of, t
<1>6. DOMAIN t.types = ids /\ \A b \in DOMAIN Tag : t.types[Tag[b]] = Plain(Builtin(b))
  BY <1>3, <1>4
<1>7. \A b \in DOMAIN Tag : KindOf(t, Tag[b]) = Builtin(b)
  BY <1>6, PlainKind DEF KindOf
<1>8. /\ DOMAIN t.clobber = {Plain(Builtin(b)) : b \in DOMAIN Tag}
      /\ \A b \in DOMAIN Tag : t.clobber[Plain(Builtin(b))] = Tag[b]
  BY <1>4, <1>5, PlainKind
<1>9. IdsBelow(t) /\ t.next_free \in Nat /\ t.next_free # 0
  BY <1>2, <1>4, <1>6 DEF IdsBelow
<1>10. Found(t)
  <2>1. \A b \in DOMAIN Tag : Entered(t, Tag[b]) = Plain(Builtin(b))
    BY <1>6, <1>7 DEF Entered
  <2>2. QED
    BY <1>6, <1>8, <2>1 DEF Found
<1>11. Sound(t)
  BY <1>6, <1>7, <1>8, PlainKind DEF Sound
<1>12. Builtins(t)
  BY <1>6, <1>7 DEF Builtins
<1>13. Founded(t)
  <2>1. {"builtin"} # {"union"} /\ {"builtin"} # {"tuple"}
    OBVIOUS
  <2>2. QED
    BY <1>5, <1>6, <1>7, <2>1 DEF Founded, MembersBelow, IsTupleKind, IsUnionKind
<1>14. QED
  BY <1>9, <1>10, <1>11, <1>12, <1>13 DEF TableOK, t
=============================================================================
