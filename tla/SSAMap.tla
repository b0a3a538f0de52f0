------------------------------- MODULE SSAMap -------------------------------
(***************************************************************************)
(* The arena montyc_core::utils::SSAMap, which hands out the ids of the    *)
(* compiler: TypeId (TypingData.inner), ModuleRef (SessionContext.modules) *)
(* and span indices (SpanInterner.map).                                    *)
(*                                                                         *)
(* A key k is the index of a slot of the vector `inner`; sequences of TLA+ *)
(* start at 1, so slot k is inner[k + 1].  `next_free` is kept by the code *)
(* in a Cell of its own, updated apart from the vector: that the two agree *)
(* is what the assertion in `insert` relies on.                            *)
(***************************************************************************)
EXTENDS Naturals, Sequences, FiniteSets

CONSTANTS Value,    \* what the map stores
          Vacant,   \* the None of a slot
          MaxSlots, \* bound: no operation grows the map beyond this length
          MaxSkip   \* bound: largest argument of skip

ASSUME VacantAssumption == Vacant \notin Value
ASSUME BoundAssumption == MaxSlots \in Nat /\ MaxSkip \in Nat

VARIABLES inner,     \* Vec<Option<V>>
          next_free, \* Cell<SSAKey>
          handed,    \* history: keys given to callers and not cancelled
          status     \* "ok", or "panicked" after an assert or an overflow

vars == <<inner, next_free, handed, status>>

Keys == 0 .. (Len(inner) - 1)
Slot(k) == inner[k + 1]
Filled(k) == k \in Keys /\ Slot(k) # Vacant
Blank(n) == [i \in 1 .. n |-> Vacant]

Init ==
  /\ inner = << >>
  /\ next_free = 0
  /\ handed = {}
  /\ status = "ok"

Panic ==
  /\ status' = "panicked"
  /\ UNCHANGED <<inner, next_free, handed>>

\* Mutant of Skip: the counter moves, the vector does not grow.
SkipCounterOnly(n) ==
  /\ status = "ok"
  /\ Len(inner) + n <= MaxSlots
  /\ next_free' = next_free + n
  /\ UNCHANGED <<inner, handed, status>>

Skip(n) ==
  /\ status = "ok"
  /\ Len(inner) + n <= MaxSlots
  /\ next_free' = next_free + n
  /\ inner' = inner \o Blank(n)
  /\ UNCHANGED <<handed, status>>

\* Err(current), which changes nothing, when pos is behind next_free.
SkipToNth(pos) ==
  /\ status = "ok"
  /\ pos <= MaxSlots
  /\ pos >= next_free
  /\ next_free' = pos
  /\ inner' = inner \o Blank(pos - next_free)
  /\ UNCHANGED <<handed, status>>

Reserve ==
  /\ status = "ok"
  /\ Len(inner) < MaxSlots
  /\ next_free' = next_free + 1
  /\ inner' = Append(inner, Vacant)
  /\ handed' = handed \cup {next_free}
  /\ UNCHANGED status

\* Mutant of CancelReserve: any empty slot may be given back.
CancelReserveAnySlot(k) ==
  /\ status = "ok"
  /\ k \in Keys /\ ~Filled(k)
  /\ inner' = SubSeq(inner, 1, Len(inner) - 1)
  /\ next_free' = k
  /\ handed' = handed \ {k}
  /\ UNCHANGED status

\* Mutant of CancelReserve: the assertion that the slot is empty is dropped.
CancelReserveFilled(k) ==
  /\ status = "ok"
  /\ k + 1 = next_free
  /\ inner' = SubSeq(inner, 1, Len(inner) - 1)
  /\ next_free' = k
  /\ handed' = handed \ {k}
  /\ UNCHANGED status

\* Only the youngest slot can be given back, and only while it is empty.
CancelReserve(k) ==
  /\ status = "ok"
  /\ k + 1 = next_free
  /\ IF Filled(k)
       THEN Panic
       ELSE /\ inner' = SubSeq(inner, 1, Len(inner) - 1)
            /\ next_free' = k
            /\ handed' = handed \ {k}
            /\ UNCHANGED status

\* next_free - k underflows for a key that was never allocated: a debug build
\* panics, a release build wraps around and answers Err(()).
CancelUnallocated(k) ==
  /\ status = "ok"
  /\ k > next_free
  /\ Panic \/ UNCHANGED vars

\* Err(()), which changes nothing, out of bounds or when the slot is taken.
TrySetValue(k, v) ==
  /\ status = "ok"
  /\ k \in Keys
  /\ Slot(k) = Vacant
  /\ inner' = [inner EXCEPT ![k + 1] = v]
  /\ UNCHANGED <<next_free, handed, status>>

\* The key is next_free; assert_eq!(key, inner.len()) guards the push.
Insert(v) ==
  /\ status = "ok"
  /\ Len(inner) < MaxSlots
  /\ IF next_free = Len(inner)
       THEN /\ next_free' = next_free + 1
            /\ inner' = Append(inner, v)
            /\ handed' = handed \cup {next_free}
            /\ UNCHANGED status
       ELSE Panic

\* An empty slot is not filled in place: the value goes to a fresh key.
GetOrInsert(k, v) == ~Filled(k) /\ Insert(v)

\* k is the lowest key that holds a value equal to v.
FirstEqual(k, v) == Slot(k) = v /\ \A j \in Keys : Slot(j) = v => k <= j

\* The first key that holds an equal value, or a fresh one.
Entry(v) ==
  \/ (\A k \in Keys : Slot(k) # v) /\ Insert(v)
  \/ \E k \in Keys :
       /\ status = "ok"
       /\ FirstEqual(k, v)
       /\ handed' = handed \cup {k}
       /\ UNCHANGED <<inner, next_free, status>>

\* A caller writes through the reference get_mut / get_raw_mut returns.
WriteThrough(k, v) ==
  /\ status = "ok"
  /\ Filled(k)
  /\ inner' = [inner EXCEPT ![k + 1] = v]
  /\ UNCHANGED <<next_free, handed, status>>

Next ==
  \/ \E n \in 0 .. MaxSkip : Skip(n)
  \/ \E pos \in 0 .. MaxSlots : SkipToNth(pos)
  \/ Reserve
  \/ \E k \in 0 .. MaxSlots : CancelReserve(k)
  \/ \E k \in 0 .. MaxSlots : CancelUnallocated(k)
  \/ \E v \in Value : Insert(v)
  \/ \E v \in Value : Entry(v)
  \/ \E k \in 0 .. MaxSlots, v \in Value : TrySetValue(k, v)
  \/ \E k \in 0 .. MaxSlots, v \in Value : GetOrInsert(k, v)
  \/ \E k \in 0 .. MaxSlots, v \in Value : WriteThrough(k, v)

Spec == Init /\ [][Next]_vars

-----------------------------------------------------------------------------
\* The variables keep their types.
TypeOK ==
  /\ inner \in Seq(Value \cup {Vacant})
  /\ next_free \in Nat
  /\ handed \subseteq Nat
  /\ status \in {"ok", "panicked"}

\* The two halves of the map never drift apart: the counter kept in the Cell is
\* the length of the vector, whatever mix of skips, reservations, cancellations
\* and insertions came before.  It is what insert asserts.
Aligned == next_free = Len(inner)

\* The key that the next reserve or insert hands out is not one that a caller
\* still holds, and every held key denotes a slot.  cancel_reserve, the only
\* operation that moves next_free back, is what could break it.
NoAliasing == next_free \notin handed /\ handed \subseteq Keys

\* A slot that holds a value is never emptied or dropped again: ids stay valid
\* for the rest of the session, also across cancel_reserve.
NeverVacated == [][\A k \in 0 .. MaxSlots : Filled(k) => Filled(k)']_vars
=============================================================================
