-------------------------- MODULE CfgReducerProofs --------------------------
(***************************************************************************)
(* For every flow graph with any number of blocks: the worklist of the     *)
(* type checker stays sorted, visits each reachable block once and nothing *)
(* else, visits dominators first, and implements the abstract search.      *)
(***************************************************************************)
EXTENDS CfgReducer, TLAPS

USE BlockAssumption, GraphAssumption

-----------------------------------------------------------------------------
(* Sequences of blocks.                                                    *)

\* The range of a sequence holds what stands at its positions.
LEMMA Elements ==
  ASSUME NEW s \in Seq(Block)
  PROVE  /\ ToSet(s) \subseteq Block
         /\ \A j \in 1 .. Len(s) : s[j] \in ToSet(s)
         /\ \A e \in ToSet(s) : \E j \in 1 .. Len(s) : e = s[j]
<1>1. DOMAIN s = 1 .. Len(s)
  OBVIOUS
<1>2. \A j \in 1 .. Len(s) : s[j] \in Block
  OBVIOUS
<1>3. QED
  BY <1>1, <1>2, Zenon DEF ToSet

\* Position by position, what a concatenation holds.
LEMMA Concat ==
  ASSUME NEW a \in Seq(Block), NEW b \in Seq(Block)
  PROVE  /\ a \o b \in Seq(Block) /\ Len(a \o b) = Len(a) + Len(b)
         /\ \A j \in 1 .. (Len(a) + Len(b)) :
              (a \o b)[j] = IF j <= Len(a) THEN a[j] ELSE b[j - Len(a)]
OBVIOUS

\* What InsertAt returns: its length, its elements by position, its range.
LEMMA InsertAtFacts ==
  ASSUME NEW s \in Seq(Block), NEW i \in 1 .. (Len(s) + 1), NEW x \in Block
  PROVE  /\ InsertAt(s, i, x) \in Seq(Block)
         /\ Len(InsertAt(s, i, x)) = Len(s) + 1
         /\ \A j \in 1 .. (Len(s) + 1) :
              InsertAt(s, i, x)[j] = IF j < i THEN s[j] ELSE IF j = i THEN x ELSE s[j - 1]
<1> DEFINE front == SubSeq(s, 1, i - 1)
           back == SubSeq(s, i, Len(s))
<1>1. /\ front \in Seq(Block) /\ Len(front) = i - 1
      /\ \A j \in 1 .. (i - 1) : front[j] = s[j]
  OBVIOUS
<1>2. /\ back \in Seq(Block) /\ Len(back) = Len(s) - i + 1
      /\ \A j \in 1 .. (Len(s) - i + 1) : back[j] = s[i + j - 1]
  OBVIOUS
<1>3. InsertAt(s, i, x) = (front \o <<x>>) \o back
  BY DEF InsertAt
<1> HIDE DEF front, back
<1>4. /\ front \o <<x>> \in Seq(Block) /\ Len(front \o <<x>>) = i
      /\ \A j \in 1 .. i : (front \o <<x>>)[j] = IF j < i THEN s[j] ELSE x
  <2>1. <<x>> \in Seq(Block) /\ Len(<<x>>) = 1 /\ <<x>>[1] = x
    OBVIOUS
  <2>2. QED
    BY <1>1, <2>1, Concat
<1> DEFINE begin == front \o <<x>>
<1> HIDE DEF begin
<1>5. /\ begin \o back \in Seq(Block) /\ Len(begin \o back) = i + (Len(s) - i + 1)
      /\ \A j \in 1 .. (i + (Len(s) - i + 1)) :
           (begin \o back)[j] = IF j <= i THEN begin[j] ELSE back[j - i]
  BY <1>2, <1>4, Concat DEF begin
<1>6. i + (Len(s) - i + 1) = Len(s) + 1
  OBVIOUS
<1>7. ASSUME NEW j \in 1 .. (Len(s) + 1)
      PROVE  (begin \o back)[j] = IF j < i THEN s[j] ELSE IF j = i THEN x ELSE s[j - 1]
  <2>1. CASE j <= i
    BY <1>4, <1>5, <1>6, <2>1 DEF begin
  <2>2. CASE j > i
    <3>1. j - i \in 1 .. (Len(s) - i + 1) /\ i + (j - i) - 1 = j - 1
      BY <2>2
    <3>2. back[j - i] = s[j - 1]
      BY <1>2, <3>1
    <3>3. QED
      BY <1>5, <1>6, <2>2, <3>2
  <2>3. j <= i \/ j > i
    OBVIOUS
  <2>4. QED
    BY <2>1, <2>2, <2>3, Zenon
<1>8. QED
  BY <1>3, <1>5, <1>6, <1>7 DEF begin

\* An insertion adds exactly the new element.
LEMMA InsertAtRange ==
  ASSUME NEW s \in Seq(Block), NEW i \in 1 .. (Len(s) + 1), NEW x \in Block
  PROVE  ToSet(InsertAt(s, i, x)) = ToSet(s) \cup {x}
<1> DEFINE r == InsertAt(s, i, x)
<1>1. /\ r \in Seq(Block) /\ Len(r) = Len(s) + 1
      /\ \A j \in 1 .. (Len(s) + 1) :
           r[j] = IF j < i THEN s[j] ELSE IF j = i THEN x ELSE s[j - 1]
  BY InsertAtFacts
<1> HIDE DEF r
<1>2. ASSUME NEW e \in ToSet(r) PROVE e \in ToSet(s) \cup {x}
  <2>1. PICK j \in 1 .. (Len(s) + 1) : e = r[j]
    BY <1>1, Elements
  <2>2. CASE j < i
    <3>1. j \in 1 .. Len(s) /\ e = s[j]
      BY <1>1, <2>1, <2>2
    <3>2. QED
      BY <3>1, Elements
  <2>3. CASE j = i
    BY <1>1, <2>1, <2>3
  <2>4. CASE j > i
    <3>1. j - 1 \in 1 .. Len(s) /\ e = s[j - 1]
      BY <1>1, <2>1, <2>4
    <3>2. QED
      BY <3>1, Elements
  <2>5. QED
    BY <2>2, <2>3, <2>4
<1>3. ASSUME NEW e \in ToSet(s) PROVE e \in ToSet(r)
  <2>1. PICK j \in 1 .. Len(s) : e = s[j]
    BY Elements
  <2>2. CASE j < i
    <3>1. j \in 1 .. Len(r) /\ r[j] = e
      BY <1>1, <2>1, <2>2
    <3>2. QED
      BY <1>1, <3>1, Elements
  <2>3. CASE j >= i
    <3>1. j + 1 \in 1 .. Len(r) /\ r[j + 1] = e
      BY <1>1, <2>1, <2>3
    <3>2. QED
      BY <1>1, <3>1, Elements
  <2>4. QED
    BY <2>2, <2>3
<1>4. x \in ToSet(r)
  <2>1. i \in 1 .. Len(r) /\ r[i] = x
    BY <1>1
  <2>2. QED
    BY <1>1, <2>1, Elements
<1>5. QED
  BY <1>2, <1>3, <1>4 DEF r

\* An insertion where binary_search says keeps a sequence sorted.
LEMMA InsertAtSorted ==
  ASSUME NEW s \in Seq(Block), NEW i \in 1 .. (Len(s) + 1), NEW x \in Block,
         StrictlySorted(s), Fits(s, i, x)
  PROVE  StrictlySorted(InsertAt(s, i, x))
<1> DEFINE r == InsertAt(s, i, x)
<1>1. /\ r \in Seq(Block) /\ Len(r) = Len(s) + 1
      /\ \A j \in 1 .. (Len(s) + 1) :
           r[j] = IF j < i THEN s[j] ELSE IF j = i THEN x ELSE s[j - 1]
  BY InsertAtFacts
<1> HIDE DEF r
<1>2. \A j \in 1 .. Len(s) : s[j] \in Block /\ s[j] \in Nat
  BY DEF Block
<1>3. SUFFICES ASSUME NEW j \in 1 .. Len(r), NEW k \in 1 .. Len(r), j < k
               PROVE  r[j] < r[k]
  BY DEF StrictlySorted, r
<1>4. CASE k < i
  <2>1. k \in 1 .. Len(s) /\ j \in 1 .. Len(s) /\ r[k] = s[k] /\ r[j] = s[j]
    BY <1>1, <1>3, <1>4
  <2>2. QED
    BY <1>3, <2>1 DEF StrictlySorted
<1>5. CASE k = i
  BY <1>1, <1>3, <1>5 DEF Fits
<1>6. CASE k > i /\ j < i
  <2>1. k - 1 \in 1 .. Len(s) /\ j \in 1 .. Len(s) /\ r[k] = s[k - 1] /\ r[j] = s[j]
    BY <1>1, <1>3, <1>6
  <2>2. j < k - 1
    BY <1>3, <1>6
  <2>3. QED
    BY <2>1, <2>2 DEF StrictlySorted
<1>7. CASE k > i /\ j = i
  <2>1. k - 1 \in 1 .. Len(s) /\ r[k] = s[k - 1] /\ r[j] = x /\ k - 1 >= i
    BY <1>1, <1>3, <1>7
  <2>2. QED
    BY <2>1 DEF Fits
<1>8. CASE j > i
  <2>1. /\ k - 1 \in 1 .. Len(s) /\ j - 1 \in 1 .. Len(s)
        /\ r[k] = s[k - 1] /\ r[j] = s[j - 1] /\ j - 1 < k - 1
    BY <1>1, <1>3, <1>8
  <2>2. QED
    BY <2>1 DEF StrictlySorted
<1>9. QED
  BY <1>4, <1>5, <1>6, <1>7, <1>8, <1>1

\* Popping the front of a queue: its elements and its order.
LEMMA PopFacts ==
  ASSUME NEW s \in Seq(Block), s # << >>
  PROVE  /\ Head(s) \in Block
         /\ Tail(s) \in Seq(Block)
         /\ ToSet(s) = {Head(s)} \cup ToSet(Tail(s))
         /\ StrictlySorted(s) => StrictlySorted(Tail(s)) /\ Head(s) \notin ToSet(Tail(s))
<1>1. /\ Len(s) \in Nat \ {0} /\ Head(s) = s[1] /\ s[1] \in Block
      /\ Tail(s) \in Seq(Block) /\ Len(Tail(s)) = Len(s) - 1
      /\ \A j \in 1 .. (Len(s) - 1) : Tail(s)[j] = s[j + 1]
  OBVIOUS
<1>2. ASSUME NEW e \in ToSet(s) PROVE e \in {Head(s)} \cup ToSet(Tail(s))
  <2>1. PICK j \in 1 .. Len(s) : e = s[j]
    BY Elements
  <2>2. CASE j = 1
    BY <1>1, <2>1, <2>2
  <2>3. CASE j # 1
    <3>1. j - 1 \in 1 .. Len(Tail(s)) /\ Tail(s)[j - 1] = e
      BY <1>1, <2>1, <2>3
    <3>2. QED
      BY <1>1, <3>1, Elements
  <2>4. QED
    BY <2>2, <2>3
<1>3. ASSUME NEW e \in ToSet(Tail(s))
      PROVE  \E j \in 2 .. Len(s) : e = s[j]
  <2>1. PICK j \in 1 .. (Len(s) - 1) : e = Tail(s)[j]
    BY <1>1, Elements
  <2>2. j + 1 \in 2 .. Len(s) /\ e = s[j + 1]
    BY <1>1, <2>1
  <2>3. QED
    BY <2>2
<1>4. ToSet(s) = {Head(s)} \cup ToSet(Tail(s))
  <2>1. Head(s) \in ToSet(s)
    BY <1>1, Elements
  <2>2. \A e \in ToSet(Tail(s)) : e \in ToSet(s)
    BY <1>1, <1>3, Elements
  <2>3. QED
    BY <1>2, <2>1, <2>2
<1>5. ASSUME StrictlySorted(s) PROVE StrictlySorted(Tail(s)) /\ Head(s) \notin ToSet(Tail(s))
  <2>1. StrictlySorted(Tail(s))
    BY <1>1, <1>5 DEF StrictlySorted
  <2>2. ASSUME NEW j \in 2 .. Len(s) PROVE s[1] # s[j]
    BY <1>1, <1>5 DEF StrictlySorted, Block
  <2>3. QED
    BY <1>1, <1>3, <2>1, <2>2
<1>6. QED
  BY <1>1, <1>4, <1>5

\* On a sorted sequence binary_search finds what is there, and says of what is
\* not there where it belongs.
LEMMA SearchFacts ==
  ASSUME NEW s \in Seq(Block), StrictlySorted(s), NEW x \in Block,
         NEW at \in binary_search(s, x)
  PROVE  IF at = 0 THEN x \in ToSet(s)
         ELSE at \in 1 .. (Len(s) + 1) /\ Fits(s, at, x) /\ x \notin ToSet(s)
<1>1. CASE at = 0
  <2>1. \E i \in 1 .. Len(s) : s[i] = x
    BY <1>1 DEF binary_search
  <2>2. QED
    BY <1>1, <2>1, Elements
<1>2. CASE at # 0
  <2>1. at \in 1 .. (Len(s) + 1) /\ Fits(s, at, x)
    BY <1>2 DEF binary_search
  <2>2. ASSUME NEW j \in 1 .. Len(s) PROVE s[j] # x
    <3>1. s[j] \in Nat /\ x \in Nat /\ at \in Nat /\ j \in Nat
      BY <2>1 DEF Block
    <3>2. (j < at => s[j] < x) /\ (j >= at => x < s[j])
      BY <2>1 DEF Fits
    <3>3. QED
      BY <3>1, <3>2
  <2>3. QED
    BY <1>2, <2>1, <2>2, Elements
<1>3. QED
  BY <1>1, <1>2

-----------------------------------------------------------------------------
(* The invariant of the loop.  TypedReachable and DominatorsFirst are not  *)
(* inductive: they need that a processed block has all its targets among   *)
(* the known ones, and that what is known never leaves a set closed under  *)
(* the edges followed so far.                                              *)

\* Where the control is, and what that says about the local variables.
Control ==
  /\ pc # "push" => output_nodes = << >>
  /\ pc = "done" => blocks_to_analyze = << >>
  /\ pc = "visit" => Fits(blocks_processed, insert_at, ix)
  /\ pc # "panic" => typed = Processed

\* The targets of processed blocks are known, and so is the entry.
TargetsKnown == Entry \in Known /\ \A b \in Processed : ToSet(cfg[b]) \subseteq Known

\* What is known is in every set closed under the edges; also when the edges of
\* a block d that was not processed are left out of account.
KnownInside ==
  \A S \in SUBSET Block :
    /\ Closed(S) => Known \subseteq S
    /\ \A d \in Block : Cut(S, d) /\ d \notin Processed => Known \subseteq S

IInv == TypeOK /\ Sorted /\ VisitedOnce /\ Control /\ TargetsKnown /\ KnownInside

\* The effect of a step on the sets: either nothing becomes processed or known,
\* or the block in hand is processed and its targets become known.
Quiet == Processed' = Processed /\ Known' = Known
Visited == /\ ix \in Known /\ ix \notin Processed
           /\ Processed' = Processed \cup {ix}
           /\ Known' = Known \cup ToSet(cfg[ix])

\* The initial state satisfies the invariant.
LEMMA InitInv == Init => IInv
<1> SUFFICES ASSUME Init PROVE IInv
  OBVIOUS
<1>1. Entry \in Block /\ Entry \in Nat
  BY DEF Entry, Block
<1>2. TypeOK
  BY <1>1 DEF Init, TypeOK
<1>3. Processed = {} /\ Queued = {Entry} /\ ToSet(output_nodes) = {} /\ InHand = {}
  BY DEF Init, Processed, Queued, InHand, ToSet
<1>4. Sorted
  BY <1>1 DEF Init, Sorted, StrictlySorted
<1>5. VisitedOnce /\ Control
  BY <1>3 DEF Init, VisitedOnce, Control
<1>6. TargetsKnown /\ KnownInside
  BY <1>3 DEF TargetsKnown, KnownInside, Known, Closed, Cut
<1>7. QED
  BY <1>2, <1>4, <1>5, <1>6 DEF IInv

\* Popping a block moves it from the queue to the hand.
LEMMA PopFrontStep ==
  ASSUME IInv, PopFront
  PROVE  TypeOK' /\ Sorted' /\ VisitedOnce' /\ Control' /\ Quiet
<1> DEFINE h == Head(blocks_to_analyze)
<1>1. /\ blocks_to_analyze \in Seq(Block) /\ blocks_to_analyze # << >>
      /\ blocks_processed \in Seq(Block)
      /\ StrictlySorted(blocks_to_analyze) /\ StrictlySorted(blocks_processed)
      /\ pc = "pop" /\ output_nodes = << >> /\ typed = Processed
      /\ ix' = h /\ blocks_to_analyze' = Tail(blocks_to_analyze)
      /\ UNCHANGED <<cfg, blocks_processed, output_nodes, typed>>
  BY DEF IInv, TypeOK, Sorted, Control, PopFront
<1>2. /\ h \in Block /\ Tail(blocks_to_analyze) \in Seq(Block)
      /\ Queued = {h} \cup Queued' /\ h \notin Queued'
      /\ StrictlySorted(blocks_to_analyze')
  BY <1>1, PopFacts DEF Queued
<1>3. h \notin Processed
  BY <1>2 DEF IInv, VisitedOnce
<1>4. PICK at \in binary_search(blocks_processed, h) :
        IF at = 0 THEN UNCHANGED <<insert_at, pc>> ELSE insert_at' = at /\ pc' = "visit"
  BY DEF PopFront
<1>5. at # 0 /\ at \in 1 .. (Len(blocks_processed) + 1) /\ Fits(blocks_processed, at, h)
  <2> HIDE DEF h
  <2>1. QED
    BY <1>1, <1>2, <1>3, <1>4, SearchFacts DEF Processed
<1>6. insert_at' = at /\ pc' = "visit"
  BY <1>4, <1>5
<1>7. TypeOK'
  BY <1>1, <1>2, <1>5, <1>6 DEF IInv, TypeOK
<1>8. Sorted'
  BY <1>1, <1>2 DEF Sorted
<1>9. Processed' = Processed
  BY <1>1 DEF Processed
<1>10. VisitedOnce'
  BY <1>1, <1>2, <1>3, <1>9 DEF IInv, VisitedOnce
<1>11. Control'
  BY <1>1, <1>5, <1>6, <1>9 DEF Control
<1>12. InHand = {} /\ InHand' = {h}
  BY <1>1, <1>6 DEF InHand
<1>13. Known' = Known
  BY <1>1, <1>2, <1>9, <1>12 DEF Known
<1>14. QED
  BY <1>7, <1>8, <1>9, <1>10, <1>11, <1>13 DEF Quiet

\* Visiting a block records it and takes its targets in hand.
LEMMA VisitBlockStep ==
  ASSUME IInv, VisitBlock
  PROVE  TypeOK' /\ Sorted' /\ VisitedOnce' /\ Control' /\ Visited
<1>1. /\ blocks_processed \in Seq(Block) /\ ix \in Block
      /\ insert_at \in 1 .. (Len(blocks_processed) + 1)
      /\ StrictlySorted(blocks_to_analyze) /\ StrictlySorted(blocks_processed)
      /\ pc = "visit" /\ output_nodes = << >> /\ typed = Processed
      /\ Fits(blocks_processed, insert_at, ix)
      /\ ix \notin Processed /\ ix \notin Queued /\ Processed \cap Queued = {}
  BY DEF IInv, TypeOK, Sorted, Control, VisitedOnce, VisitBlock
<1>2. /\ blocks_processed' = InsertAt(blocks_processed, insert_at, ix)
      /\ output_nodes' = cfg[ix] /\ typed' = typed \cup {ix} /\ pc' = "push"
      /\ UNCHANGED <<cfg, blocks_to_analyze, ix, insert_at>>
  BY DEF VisitBlock
<1>3. /\ blocks_processed' \in Seq(Block)
      /\ Len(blocks_processed') = Len(blocks_processed) + 1
  BY <1>1, <1>2, InsertAtFacts
<1>4. Processed' = Processed \cup {ix}
  BY <1>1, <1>2, InsertAtRange DEF Processed
<1>5. StrictlySorted(blocks_processed')
  BY <1>1, <1>2, InsertAtSorted
<1>6. cfg[ix] \in Seq(Block)
  BY <1>1 DEF IInv, TypeOK
<1>7. insert_at' \in 1 .. (Len(blocks_processed') + 1)
  BY <1>1, <1>2, <1>3
<1>8. TypeOK'
  BY <1>1, <1>2, <1>3, <1>6, <1>7 DEF IInv, TypeOK
<1>9. Sorted'
  BY <1>1, <1>2, <1>5 DEF Sorted
<1>10. Queued' = Queued
  BY <1>2 DEF Queued
<1>11. VisitedOnce' /\ Control'
  BY <1>1, <1>2, <1>4, <1>10 DEF VisitedOnce, Control
<1>12. InHand = {ix} /\ InHand' = {} /\ ToSet(output_nodes) = {}
  BY <1>1, <1>2 DEF InHand, ToSet
<1>13. Visited
  BY <1>1, <1>2, <1>4, <1>10, <1>12 DEF Visited, Known
<1>14. QED
  BY <1>8, <1>9, <1>11, <1>13

\* Queueing a target only moves it from the targets in hand to the queue.
LEMMA PushNodeStep ==
  ASSUME IInv, PushNode
  PROVE  TypeOK' /\ Sorted' /\ VisitedOnce' /\ Control' /\ Quiet
<1> DEFINE n == Head(output_nodes)
<1>1. /\ blocks_to_analyze \in Seq(Block) /\ blocks_processed \in Seq(Block)
      /\ output_nodes \in Seq(Block) /\ output_nodes # << >>
      /\ StrictlySorted(blocks_to_analyze) /\ StrictlySorted(blocks_processed)
      /\ pc = "push" /\ typed = Processed /\ Processed \cap Queued = {}
      /\ output_nodes' = Tail(output_nodes)
      /\ UNCHANGED <<cfg, blocks_processed, ix, insert_at, typed, pc>>
  BY DEF IInv, TypeOK, Sorted, Control, VisitedOnce, PushNode
<1>2. /\ n \in Block /\ Tail(output_nodes) \in Seq(Block)
      /\ ToSet(output_nodes) = {n} \cup ToSet(output_nodes')
  BY <1>1, PopFacts
<1>3. PICK at \in PlaceOf(n) :
        blocks_to_analyze' = IF at = 0 THEN blocks_to_analyze
                             ELSE InsertAt(blocks_to_analyze, at, n)
  BY DEF PushNode
<1>4. Processed' = Processed /\ InHand' = InHand
  BY <1>1 DEF Processed, InHand
<1> HIDE DEF n
<1>5. /\ blocks_to_analyze' \in Seq(Block) /\ StrictlySorted(blocks_to_analyze')
      /\ \/ Queued' = Queued /\ n \in Processed \cup Queued
         \/ Queued' = Queued \cup {n} /\ n \notin Processed
  <2>1. PICK p \in binary_search(blocks_processed, n) :
          at \in IF p = 0 THEN {0} ELSE binary_search(blocks_to_analyze, n)
    BY DEF PlaceOf
  <2>2. CASE p = 0
    BY <1>1, <1>2, <1>3, <2>1, <2>2, SearchFacts DEF Processed, Queued
  <2>3. CASE p # 0 /\ at = 0
    BY <1>1, <1>2, <1>3, <2>1, <2>3, SearchFacts DEF Processed, Queued
  <2>4. CASE p # 0 /\ at # 0
    <3>1. n \notin Processed
      BY <1>1, <1>2, <2>1, <2>4, SearchFacts DEF Processed
    <3>2. at \in 1 .. (Len(blocks_to_analyze) + 1) /\ Fits(blocks_to_analyze, at, n)
      BY <1>1, <1>2, <2>1, <2>4, SearchFacts
    <3>3. blocks_to_analyze' = InsertAt(blocks_to_analyze, at, n)
      BY <1>3, <2>4
    <3>4. blocks_to_analyze' \in Seq(Block)
      BY <1>1, <1>2, <3>2, <3>3, InsertAtFacts
    <3>5. StrictlySorted(blocks_to_analyze')
      BY <1>1, <1>2, <3>2, <3>3, InsertAtSorted
    <3>6. Queued' = Queued \cup {n}
      BY <1>1, <1>2, <3>2, <3>3, InsertAtRange DEF Queued
    <3>7. QED
      BY <3>1, <3>4, <3>5, <3>6
  <2>5. QED
    BY <2>2, <2>3, <2>4
<1>6. TypeOK'
  BY <1>1, <1>2, <1>5 DEF IInv, TypeOK
<1>7. Sorted' /\ VisitedOnce' /\ Control'
  BY <1>1, <1>4, <1>5 DEF Sorted, VisitedOnce, Control
<1>8. Known' = Known
  BY <1>2, <1>4, <1>5 DEF Known
<1>9. QED
  BY <1>4, <1>6, <1>7, <1>8 DEF Quiet

\* The other steps only move the control.
LEMMA ControlStep ==
  ASSUME IInv, VisitError \/ EndPush \/ Return \/ UNCHANGED vars
  PROVE  TypeOK' /\ Sorted' /\ VisitedOnce' /\ Control' /\ Quiet
<1>1. UNCHANGED <<cfg, blocks_processed, blocks_to_analyze, ix, insert_at, output_nodes>>
  BY DEF VisitError, EndPush, Return, vars
<1>2. TypeOK'
  BY <1>1 DEF IInv, TypeOK, VisitError, EndPush, Return, vars
<1>3. Processed' = Processed /\ Queued' = Queued
  BY <1>1 DEF Processed, Queued
<1>4. Sorted' /\ VisitedOnce' /\ Control'
  BY <1>1, <1>3 DEF IInv, Sorted, VisitedOnce, Control, VisitError, EndPush, Return, vars
<1>5. InHand' = InHand
  BY <1>1 DEF InHand, VisitError, EndPush, Return, vars
<1>6. QED
  BY <1>1, <1>2, <1>3, <1>4, <1>5 DEF Quiet, Known

\* The parts about the graph follow from the effect on the sets alone.
LEMMA GraphStep ==
  ASSUME TypeOK, TargetsKnown, KnownInside, cfg' = cfg, Quiet \/ Visited
  PROVE  TargetsKnown' /\ KnownInside'
<1>1. TargetsKnown'
  <2>1. CASE Quiet
    BY <2>1 DEF Quiet, TargetsKnown
  <2>2. CASE Visited
    BY <2>2 DEF Visited, TargetsKnown
  <2>3. QED
    BY <2>1, <2>2
<1>2. ASSUME NEW S \in SUBSET Block, Closed(S)' PROVE Known' \subseteq S
  <2>1. Closed(S) /\ Known \subseteq S
    BY <1>2 DEF Closed, KnownInside
  <2>2. QED
    BY <2>1 DEF Quiet, Visited, Closed
<1>3. ASSUME NEW S \in SUBSET Block, NEW d \in Block, Cut(S, d)', d \notin Processed'
      PROVE  Known' \subseteq S
  <2>1. Cut(S, d) /\ d \notin Processed
    BY <1>3 DEF Cut, Quiet, Visited
  <2>2. Known \subseteq S
    BY <2>1 DEF KnownInside
  <2>3. CASE Quiet
    BY <2>2, <2>3 DEF Quiet
  <2>4. CASE Visited
    <3>1. ix \in S \ {d}
      BY <1>3, <2>2, <2>4 DEF Visited
    <3>2. QED
      BY <2>1, <2>2, <2>4, <3>1 DEF Visited, Cut
  <2>5. QED
    BY <2>3, <2>4
<1>4. QED
  BY <1>1, <1>2, <1>3 DEF KnownInside

\* Every step preserves the invariant and has one of the two effects; only a
\* visit has the second.
LEMMA StepInv ==
  ASSUME IInv, [Next]_vars
  PROVE  IInv' /\ cfg' = cfg /\ ((VisitBlock /\ Visited) \/ Quiet)
<1>1. cfg' = cfg
  BY DEF Next, vars, PopFront, VisitBlock, VisitError, PushNode, EndPush, Return
<1>2. TypeOK' /\ Sorted' /\ VisitedOnce' /\ Control' /\ ((VisitBlock /\ Visited) \/ Quiet)
  <2>1. CASE PopFront
    BY <2>1, PopFrontStep
  <2>2. CASE VisitBlock
    BY <2>2, VisitBlockStep
  <2>3. CASE PushNode
    BY <2>3, PushNodeStep
  <2>4. CASE VisitError \/ EndPush \/ Return \/ UNCHANGED vars
    BY <2>4, ControlStep
  <2>5. QED
    BY <2>1, <2>2, <2>3, <2>4 DEF Next
<1>3. TargetsKnown' /\ KnownInside'
  BY <1>1, <1>2, GraphStep DEF IInv
<1>4. QED
  BY <1>1, <1>2, <1>3 DEF IInv

\* The invariant holds in every state of the loop.
THEOREM LoopInvariant == Spec => []IInv
<1>1. IInv /\ [Next]_vars => IInv'
  BY StepInv
<1>2. QED
  BY <1>1, InitInv, PTL DEF Spec

\* Both lists stay strictly sorted.
THEOREM AlwaysSorted == Spec => []Sorted
<1>1. IInv => Sorted
  BY DEF IInv
<1>2. QED
  BY <1>1, LoopInvariant, PTL

\* No block is visited twice.
THEOREM AlwaysVisitedOnce == Spec => []VisitedOnce
<1>1. IInv => VisitedOnce
  BY DEF IInv
<1>2. QED
  BY <1>1, LoopInvariant, PTL

\* When visit returns, it has typed exactly the blocks that a path reaches.
THEOREM TypesReachableBlocks == Spec => []TypedReachable
<1>1. IInv => TypedReachable
  <2>1. SUFFICES ASSUME IInv, pc = "done" PROVE typed = Reachable /\ Processed = Reachable
    BY DEF TypedReachable
  <2>2. Known = Processed /\ typed = Processed
    <3>1. blocks_to_analyze = << >> /\ output_nodes = << >> /\ typed = Processed
      BY <2>1 DEF IInv, Control
    <3>2. Queued = {} /\ ToSet(output_nodes) = {} /\ InHand = {}
      BY <2>1, <3>1 DEF Queued, ToSet, InHand
    <3>3. QED
      BY <3>1, <3>2 DEF Known
  <2>3. Processed \in SUBSET Block
    BY <2>1, Elements DEF IInv, TypeOK, Processed
  <2>4. Closed(Processed)
    BY <2>1, <2>2 DEF IInv, TargetsKnown, Closed
  <2>5. Reachable \subseteq Processed
    BY <2>3, <2>4 DEF Reachable
  <2>6. Processed \subseteq Reachable
    BY <2>1, <2>2, <2>3 DEF IInv, KnownInside, Reachable
  <2>7. QED
    BY <2>2, <2>5, <2>6
<1>2. QED
  BY <1>1, LoopInvariant, PTL

\* When a block is analysed, the blocks that dominate it have been.
THEOREM AnalysesDominatorsFirst == Spec => []DominatorsFirst
<1>1. IInv => DominatorsFirst
  <2>1. SUFFICES ASSUME IInv, pc = "visit", NEW d \in Block, Dominates(d, ix),
                        d \notin Processed
                 PROVE  FALSE
    BY DEF DominatorsFirst
  <2>2. PICK S \in SUBSET Block : Cut(S, d) /\ ix \notin S
    BY <2>1 DEF Dominates
  <2>3. Known \subseteq S
    BY <2>1, <2>2 DEF IInv, KnownInside
  <2>4. ix \in Known
    BY <2>1 DEF Known, InHand
  <2>5. QED
    BY <2>2, <2>3, <2>4
<1>2. QED
  BY <1>1, LoopInvariant, PTL

\* The loop implements the abstract search.
THEOREM LoopImplementsSearch == Spec => ImplementsSearch
<1> DEFINE Out == IF pc = "done" THEN "done"
                  ELSE IF pc \in {"err", "panic"} THEN "failed" ELSE "running"
           Succ == [b \in Block |-> ToSet(cfg[b])]
<1>1. Init => Abstract!Init
  <2>1. SUFFICES ASSUME Init PROVE Abstract!Init
    OBVIOUS
  <2>2. IInv
    BY <2>1, InitInv
  <2>3. Succ \in [Block -> SUBSET Block]
    BY <2>2, Elements DEF IInv, TypeOK
  <2>4. Processed = {} /\ Queued = {Entry} /\ ToSet(output_nodes) = {} /\ InHand = {}
    BY <2>1 DEF Init, Processed, Queued, InHand, ToSet
  <2>5. Known \ Processed = {Entry}
    BY <2>4 DEF Known
  <2>6. Out = "running"
    BY <2>1 DEF Init
  <2>7. QED
    BY <2>3, <2>4, <2>5, <2>6 DEF Abstract!Init
<1>2. IInv /\ [Next]_vars => [Abstract!Next]_(Abstract!vars)
  <2>1. SUFFICES ASSUME IInv, [Next]_vars PROVE [Abstract!Next]_(Abstract!vars)
    OBVIOUS
  <2>2. cfg' = cfg /\ Succ' = Succ
    BY <2>1, StepInv
  <2>3. CASE VisitBlock /\ Visited
    <3>1. ix \in Block /\ Succ[ix] = ToSet(cfg[ix]) /\ Out = "running" /\ Out' = "running"
      BY <2>1, <2>3 DEF IInv, TypeOK, VisitBlock
    <3>2. Abstract!Visit(ix)
      BY <2>2, <2>3, <3>1 DEF Visited, Abstract!Visit
    <3>3. QED
      BY <3>1, <3>2 DEF Abstract!Next
  <2>4. CASE Quiet
    <3>1. Processed' = Processed /\ Known' = Known
      BY <2>4 DEF Quiet
    <3>2. CASE VisitError
      <4>1. Out = "running" /\ Out' = "failed"
        BY <3>2 DEF VisitError
      <4>2. Abstract!Fail
        BY <2>2, <3>1, <4>1 DEF Abstract!Fail
      <4>3. QED
        BY <4>2 DEF Abstract!Next
    <3>3. CASE Return
      <4>1. Out = "running" /\ Out' = "done"
        BY <3>3 DEF Return
      <4>2. Queued = {} /\ ToSet(output_nodes) = {} /\ InHand = {}
        BY <2>1, <3>3 DEF Return, IInv, Control, Queued, InHand, ToSet
      <4>3. Known \ Processed = {}
        BY <4>2 DEF Known
      <4>4. Abstract!Finish
        BY <2>2, <3>1, <4>1, <4>3 DEF Abstract!Finish
      <4>5. QED
        BY <4>4 DEF Abstract!Next
    <3>4. CASE ~VisitError /\ ~Return
      <4>1. Out' = Out
        BY <2>1, <3>4 DEF Next, vars, PopFront, VisitBlock, PushNode, EndPush, IInv, TypeOK
      <4>2. QED
        BY <2>2, <3>1, <4>1 DEF Abstract!vars
    <3>5. QED
      BY <3>2, <3>3, <3>4
  <2>5. QED
    BY <2>1, <2>3, <2>4, StepInv
<1>3. QED
  BY <1>1, <1>2, LoopInvariant, PTL DEF Spec, ImplementsSearch, Abstract!Spec
=============================================================================
