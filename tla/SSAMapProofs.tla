---------------------------- MODULE SSAMapProofs ----------------------------
(***************************************************************************)
(* For every set of values and every bound: the counter and the vector of  *)
(* an SSAMap agree, no key is handed out twice while a caller holds it, and *)
(* a filled slot stays filled.                                             *)
(***************************************************************************)
EXTENDS SSAMap, TLAPS

USE VacantAssumption, BoundAssumption

\* Growing by n empty slots: the length, the old slots and the type.
LEMMA GrowByBlank ==
  ASSUME NEW s \in Seq(Value \cup {Vacant}), NEW n \in Nat
  PROVE  /\ s \o Blank(n) \in Seq(Value \cup {Vacant})
         /\ Len(s \o Blank(n)) = Len(s) + n
         /\ \A i \in 1 .. Len(s) : (s \o Blank(n))[i] = s[i]
<1>1. Blank(n) \in Seq(Value \cup {Vacant}) /\ Len(Blank(n)) = n
  BY DEF Blank
<1>2. QED
  BY <1>1

\* The inductive invariant: NoAliasing follows from Aligned and from the held
\* keys being slots, and neither of those is inductive without the types.
IInv == TypeOK /\ Aligned /\ NoAliasing

\* The empty map satisfies the invariant.
LEMMA InitInv == Init => IInv
BY DEF Init, IInv, TypeOK, Aligned, NoAliasing, Keys

\* What a step has to establish about the new vector, counter and held keys.
Effect ==
  /\ inner' \in Seq(Value \cup {Vacant})
  /\ next_free' = Len(inner')
  /\ handed' \subseteq 0 .. (Len(inner') - 1)
  /\ status' \in {"ok", "panicked"}
  /\ \A i \in 1 .. Len(inner) :
        inner[i] # Vacant => i <= Len(inner') /\ inner'[i] # Vacant

\* A step with this effect preserves the invariant and empties no filled slot.
LEMMA EffectSuffices ==
  ASSUME IInv, Effect
  PROVE  IInv' /\ (\A k \in 0 .. MaxSlots : Filled(k) => Filled(k)')
<1>1. Len(inner) \in Nat /\ Len(inner') \in Nat
  BY DEF IInv, TypeOK, Effect
<1>2. IInv'
  BY <1>1 DEF IInv, TypeOK, Aligned, NoAliasing, Keys, Effect
<1>3. ASSUME NEW k \in 0 .. MaxSlots, Filled(k)
      PROVE  Filled(k)'
  <2>1. k + 1 \in 1 .. Len(inner) /\ inner[k + 1] # Vacant
    BY <1>1, <1>3 DEF Filled, Keys, Slot
  <2>2. k + 1 <= Len(inner') /\ inner'[k + 1] # Vacant
    BY <2>1 DEF Effect
  <2>3. QED
    BY <1>1, <2>2 DEF Filled, Keys, Slot
<1>4. QED
  BY <1>2, <1>3

\* Every operation of the map has such an effect.
LEMMA StepEffect ==
  ASSUME IInv, [Next]_vars
  PROVE  Effect
<1>0. /\ inner \in Seq(Value \cup {Vacant}) /\ Len(inner) \in Nat
      /\ next_free = Len(inner)
      /\ handed \subseteq 0 .. (Len(inner) - 1)
      /\ status \in {"ok", "panicked"}
  BY DEF IInv, TypeOK, Aligned, NoAliasing, Keys
<1>1. ASSUME UNCHANGED <<inner, next_free, handed>>, status' \in {"ok", "panicked"}
      PROVE  Effect
  BY <1>0, <1>1 DEF Effect
<1>2. ASSUME NEW n \in Nat, inner' = inner \o Blank(n), next_free' = next_free + n,
             UNCHANGED <<handed, status>>
      PROVE  Effect
  <2>1. /\ inner' \in Seq(Value \cup {Vacant})
        /\ Len(inner') = Len(inner) + n
        /\ \A i \in 1 .. Len(inner) : inner'[i] = inner[i]
    BY <1>0, <1>2, GrowByBlank
  <2>2. QED
    BY <1>0, <1>2, <2>1 DEF Effect
<1>3. ASSUME NEW x \in Value \cup {Vacant}, inner' = Append(inner, x),
             next_free' = next_free + 1, handed' = handed \cup {next_free},
             UNCHANGED status
      PROVE  Effect
  <2>1. /\ inner' \in Seq(Value \cup {Vacant})
        /\ Len(inner') = Len(inner) + 1
        /\ \A i \in 1 .. Len(inner) : inner'[i] = inner[i]
    BY <1>0, <1>3
  <2>2. handed' \subseteq 0 .. (Len(inner') - 1)
    <3>1. SUFFICES ASSUME NEW k \in handed' PROVE k \in 0 .. (Len(inner') - 1)
      OBVIOUS
    <3>2. k \in handed \/ k = next_free
      BY <1>3
    <3>3. k \in 0 .. (Len(inner) - 1) \/ k = Len(inner)
      BY <1>0, <3>2, Zenon
    <3>4. Len(inner') = Len(inner) + 1 /\ Len(inner) \in Nat
      BY <1>0, <2>1
    <3>5. QED
      BY <3>3, <3>4
  <2>3. next_free' = Len(inner') /\ status' = status
    BY <1>0, <1>3, <2>1
  <2>4. QED
    BY <1>0, <2>1, <2>2, <2>3 DEF Effect
<1>4. ASSUME NEW k \in 0 .. MaxSlots, NEW v \in Value, k \in Keys,
             inner' = [inner EXCEPT ![k + 1] = v],
             UNCHANGED <<next_free, handed, status>>
      PROVE  Effect
  <2>1. k + 1 \in 1 .. Len(inner)
    BY <1>0, <1>4 DEF Keys
  <2>2. /\ inner' \in Seq(Value \cup {Vacant})
        /\ Len(inner') = Len(inner)
        /\ \A i \in 1 .. Len(inner) : inner'[i] = IF i = k + 1 THEN v ELSE inner[i]
    BY <1>0, <1>4, <2>1
  <2>3. QED
    BY <1>0, <1>4, <2>2 DEF Effect
<1>5. ASSUME NEW n \in 0 .. MaxSkip, Skip(n) PROVE Effect
  BY <1>2, <1>5 DEF Skip
<1>6. ASSUME NEW pos \in 0 .. MaxSlots, SkipToNth(pos) PROVE Effect
  <2>1. pos - next_free \in Nat /\ next_free' = next_free + (pos - next_free)
    BY <1>0, <1>6 DEF SkipToNth
  <2>2. QED
    BY <1>2, <1>6, <2>1 DEF SkipToNth
<1>7. CASE Reserve
  BY <1>3, <1>7 DEF Reserve
<1>8. ASSUME NEW k \in 0 .. MaxSlots, CancelReserve(k) PROVE Effect
  <2>1. CASE Filled(k)
    BY <1>1, <1>8, <2>1 DEF CancelReserve, Panic
  <2>2. CASE ~Filled(k)
    <3>1. k + 1 = Len(inner) /\ inner[k + 1] = Vacant
      BY <1>0, <1>8, <2>2 DEF CancelReserve, Filled, Keys, Slot
    <3>2. /\ inner' = SubSeq(inner, 1, Len(inner) - 1) /\ next_free' = k
          /\ handed' = handed \ {k} /\ status' = status
      BY <1>8, <2>2 DEF CancelReserve
    <3>3. /\ inner' \in Seq(Value \cup {Vacant})
          /\ Len(inner') = Len(inner) - 1
          /\ \A i \in 1 .. (Len(inner) - 1) : inner'[i] = inner[i]
      BY <1>0, <3>1, <3>2
    <3>4. QED
      BY <1>0, <3>1, <3>2, <3>3 DEF Effect
  <2>3. QED
    BY <2>1, <2>2
<1>9. ASSUME NEW k \in 0 .. MaxSlots, CancelUnallocated(k) PROVE Effect
  BY <1>0, <1>1, <1>9 DEF CancelUnallocated, Panic, vars
<1>10. ASSUME NEW v \in Value, Insert(v) PROVE Effect
  BY <1>0, <1>3, <1>10 DEF Insert
<1>11. ASSUME NEW v \in Value, Entry(v) PROVE Effect
  <2>1. CASE Insert(v)
    BY <1>10, <2>1
  <2>2. ASSUME NEW k \in Keys, handed' = handed \cup {k},
               UNCHANGED <<inner, next_free, status>>
        PROVE  Effect
    BY <1>0, <2>2 DEF Effect, Keys
  <2>3. QED
    BY <1>11, <2>1, <2>2 DEF Entry
<1>12. ASSUME NEW k \in 0 .. MaxSlots, NEW v \in Value, TrySetValue(k, v) PROVE Effect
  <2>1. /\ k \in Keys /\ inner' = [inner EXCEPT ![k + 1] = v]
        /\ UNCHANGED <<next_free, handed, status>>
    BY <1>12 DEF TrySetValue
  <2>2. QED
    BY <1>4, <2>1, Zenon
<1>13. ASSUME NEW k \in 0 .. MaxSlots, NEW v \in Value, GetOrInsert(k, v) PROVE Effect
  BY <1>10, <1>13 DEF GetOrInsert
<1>14. ASSUME NEW k \in 0 .. MaxSlots, NEW v \in Value, WriteThrough(k, v) PROVE Effect
  <2>1. /\ k \in Keys /\ inner' = [inner EXCEPT ![k + 1] = v]
        /\ UNCHANGED <<next_free, handed, status>>
    BY <1>14 DEF WriteThrough, Filled
  <2>2. QED
    BY <1>4, <2>1, Zenon
<1>15. CASE UNCHANGED vars
  BY <1>0, <1>1, <1>15 DEF vars
<1>16. QED
  BY <1>5, <1>6, <1>7, <1>8, <1>9, <1>10, <1>11, <1>12, <1>13, <1>14, <1>15 DEF Next

\* Every step preserves the invariant and empties no filled slot.
LEMMA StepInv ==
  IInv /\ [Next]_vars => IInv' /\ (\A k \in 0 .. MaxSlots : Filled(k) => Filled(k)')
BY StepEffect, EffectSuffices

\* The counter of an SSAMap is always the length of its vector, so the assertion
\* in insert holds after any sequence of operations.
THEOREM AlwaysAligned == Spec => []Aligned
<1>1. IInv => Aligned
  BY DEF IInv
<1>2. QED
  BY <1>1, InitInv, StepInv, PTL DEF Spec

\* No key is handed out again while a caller holds it.
THEOREM KeysDoNotAlias == Spec => []NoAliasing
<1>1. IInv => NoAliasing
  BY DEF IInv
<1>2. QED
  BY <1>1, InitInv, StepInv, PTL DEF Spec

\* No operation empties or drops a slot that holds a value.
THEOREM SlotsStayFilled == Spec => NeverVacated
<1>1. IInv /\ [Next]_vars => [\A k \in 0 .. MaxSlots : Filled(k) => Filled(k)']_vars
  BY StepInv
<1>2. QED
  BY <1>1, InitInv, StepInv, PTL DEF Spec, NeverVacated
=============================================================================
