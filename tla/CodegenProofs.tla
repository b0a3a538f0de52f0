---------------------------- MODULE CodegenProofs ---------------------------
(***************************************************************************)
(* For every function and every graph: the blocks that are analysed, and   *)
(* the blocks that are lowered, are the ones the entry leads to, in the    *)
(* graph that the branches of the flat code make; and what the type        *)
(* checker infers of a value is what the value is when the IR runs.        *)
(***************************************************************************)
EXTENDS Codegen, TypingProofs

-----------------------------------------------------------------------------
(* Sequences as sets.                                                      *)

LEMMA AppendSet ==
  ASSUME NEW B, NEW s \in Seq(B), NEW x \in B
  PROVE  Append(s, x) \in Seq(B) /\ ToSet(Append(s, x)) = ToSet(s) \cup {x}
<1> DEFINE a == Append(s, x)
<1>1. /\ a \in Seq(B) /\ Len(a) = Len(s) + 1
      /\ \A i \in 1 .. Len(s) : a[i] = s[i]
      /\ a[Len(s) + 1] = x
  OBVIOUS
<1>2. DOMAIN a = 1 .. Len(s) + 1 /\ DOMAIN s = 1 .. Len(s)
  BY <1>1
<1> HIDE DEF a
<1>3. ToSet(a) = {a[i] : i \in 1 .. Len(s) + 1} /\ ToSet(s) = {s[i] : i \in 1 .. Len(s)}
  BY <1>2 DEF ToSet
<1>4. 1 .. Len(s) + 1 = (1 .. Len(s)) \cup {Len(s) + 1}
  OBVIOUS
<1>5. QED
  BY <1>1, <1>3, <1>4 DEF a

LEMMA ReverseSet ==
  ASSUME NEW B, NEW s \in Seq(B)
  PROVE  Reverse(s) \in Seq(B) /\ ToSet(Reverse(s)) = ToSet(s)
<1> DEFINE r == Reverse(s)
           n == Len(s)
<1>1. n \in Nat /\ DOMAIN s = 1 .. n /\ \A i \in 1 .. n : s[i] \in B
  OBVIOUS
<1>2. r = [i \in 1 .. n |-> s[(n - i) + 1]]
  BY DEF Reverse
<1> HIDE DEF r, n
<1>3. \A i \in 1 .. n : (n - i) + 1 \in 1 .. n /\ (n - ((n - i) + 1)) + 1 = i
  BY <1>1
<1>4. r \in Seq(B) /\ DOMAIN r = 1 .. n
  BY <1>1, <1>2, <1>3
<1>5. ASSUME NEW x PROVE x \in ToSet(r) <=> x \in ToSet(s)
  <2>1. (\E i \in 1 .. n : x = r[i]) <=> (\E i \in 1 .. n : x = s[i])
    BY <1>2, <1>3
  <2>2. QED
    BY <1>1, <1>4, <2>1 DEF ToSet
<1>6. QED
  BY <1>4, <1>5 DEF r

-----------------------------------------------------------------------------
(* Blocks and their graph.                                                 *)

LEMMA BlockOfLeads ==
  ASSUME NEW c, NEW i \in Nat, i # 0
  PROVE  BlockOf(c, i) \in 1 .. i /\ Leader(c, BlockOf(c, i))
<1> DEFINE T == {k \in 0 .. (i - 1) : Leader(c, i - k)}
<1>1. i - 1 \in T
  BY DEF Leader
<1>2. PICK m \in T : \A k \in T : m <= k
  <2>1. T \in SUBSET Nat /\ T # {}
    BY <1>1
  <2> HIDE DEF T
  <2>2. QED
    BY <2>1, Least
<1> DEFINE l == i - m
<1>3. l \in 1 .. i /\ Leader(c, l)
  OBVIOUS
<1>4. ASSUME NEW k \in (l + 1) .. i PROVE ~Leader(c, k)
  <2>1. i - k \in 0 .. (i - 1) /\ ~(m <= i - k) /\ i - (i - k) = k
    OBVIOUS
  <2>2. i - k \notin T
    BY <1>2, <2>1
  <2>3. QED
    BY <2>1, <2>2
<1> HIDE DEF l, T
<1>5. QED
  BY <1>3, <1>4 DEF BlockOf

\* What is assumed of functions, of the one that is compiled.
FunInv ==
  /\ code \in Seq(ToSet(code)) /\ code # << >>
  /\ \A i \in DOMAIN code : Targets(code[i]) \subseteq DOMAIN code

LEMMA BlocksAreNumbers ==
  ASSUME FunInv
  PROVE  /\ DOMAIN code = 1 .. Len(code) /\ Len(code) \in Nat
         /\ Blocks \subseteq Nat
         /\ Entry \in Blocks
         /\ \A i \in DOMAIN code : BlockOf(code, i) \in Blocks
<1>1. DOMAIN code = 1 .. Len(code) /\ Len(code) \in Nat /\ Len(code) # 0
  BY DEF FunInv
<1>2. Blocks \subseteq Nat /\ Entry \in Blocks
  BY <1>1 DEF Blocks, Entry, Leader
<1>3. ASSUME NEW i \in DOMAIN code PROVE BlockOf(code, i) \in Blocks
  <2>1. i \in Nat /\ i # 0
    BY <1>1
  <2>2. BlockOf(code, i) \in 1 .. i /\ Leader(code, BlockOf(code, i))
    BY <2>1, BlockOfLeads
  <2>3. QED
    BY <1>1, <2>2 DEF Blocks
<1>4. QED
  BY <1>1, <1>2, <1>3

\* update_edge: the target is there afterwards.
LEMMA WithEdgeOK ==
  ASSUME FunInv, NEW made \in Seq(Blocks), NEW t, t = 0 \/ t \in DOMAIN code
  PROVE  /\ WithEdge(made, t) \in Seq(Blocks)
         /\ ToSet(WithEdge(made, t)) = ToSet(made) \cup {BlockOf(code, u) : u \in {t} \ {0}}
<1>1. CASE t = 0
  BY <1>1 DEF WithEdge
<1>2. CASE t # 0
  <2>1. BlockOf(code, t) \in Blocks
    BY <1>2, BlocksAreNumbers
  <2>2. {BlockOf(code, u) : u \in {t} \ {0}} = {BlockOf(code, t)}
    BY <1>2
  <2>3. CASE BlockOf(code, t) \in ToSet(made)
    BY <2>2, <2>3 DEF WithEdge
  <2>4. CASE BlockOf(code, t) \notin ToSet(made)
    BY <1>2, <2>1, <2>2, <2>4, AppendSet DEF WithEdge
  <2>5. QED
    BY <2>3, <2>4
<1>3. QED
  BY <1>1, <1>2

LEMMA WithEdgesOfOK ==
  ASSUME FunInv, NEW made \in Seq(Blocks), NEW i \in DOMAIN code
  PROVE  /\ WithEdgesOf(made, code[i]) \in Seq(Blocks)
         /\ ToSet(WithEdgesOf(made, code[i])) = ToSet(made) \cup {BlockOf(code, t) : t \in Targets(code[i])}
<1> DEFINE inst == code[i]
<1>1. Targets(inst) \subseteq DOMAIN code
  BY DEF FunInv
<1>2. CASE inst.op = "If"
  <2>1. Targets(inst) = {inst.truthy, inst.falsey} \ {0}
    BY <1>2 DEF Targets
  <2>2. /\ inst.truthy = 0 \/ inst.truthy \in DOMAIN code
        /\ inst.falsey = 0 \/ inst.falsey \in DOMAIN code
    BY <1>1, <2>1
  <2> DEFINE one == WithEdge(made, inst.truthy)
             two == WithEdge(one, inst.falsey)
  <2>3. WithEdgesOf(made, inst) = two
    BY <1>2 DEF WithEdgesOf
  <2>4. one \in Seq(Blocks) /\ ToSet(one) = ToSet(made) \cup {BlockOf(code, u) : u \in {inst.truthy} \ {0}}
    BY <2>2, WithEdgeOK
  <2> HIDE DEF one
  <2>5. two \in Seq(Blocks) /\ ToSet(two) = ToSet(one) \cup {BlockOf(code, u) : u \in {inst.falsey} \ {0}}
    BY <2>2, <2>4, WithEdgeOK
  <2> HIDE DEF two
  <2>6. Targets(inst) = ({inst.truthy} \ {0}) \cup ({inst.falsey} \ {0})
    BY <2>1
  <2>7. QED
    BY <2>3, <2>4, <2>5, <2>6
<1>3. CASE inst.op = "Br"
  <2>1. Targets(inst) = {inst.to}
    BY <1>3 DEF Targets
  <2>2. inst.to \in DOMAIN code /\ inst.to # 0
    BY <1>1, <2>1, BlocksAreNumbers
  <2>3. WithEdgesOf(made, inst) = WithEdge(made, inst.to)
    BY <1>3 DEF WithEdgesOf
  <2>4. Targets(inst) = {inst.to} \ {0}
    BY <2>1, <2>2
  <2>5. QED
    BY <2>2, <2>3, <2>4, WithEdgeOK
<1>4. CASE inst.op # "If" /\ inst.op # "Br"
  <2>1. Targets(inst) = {} /\ WithEdgesOf(made, inst) = made
    BY <1>4 DEF Targets, WithEdgesOf
  <2>2. QED
    BY <2>1
<1>5. QED
  BY <1>2, <1>3, <1>4

\* The targets that instructions up to n of block b lead to.
LedTo(b, n) == {x \in Blocks : \E i \in 1 .. n : BlockOf(code, i) = b /\ \E t \in Targets(code[i]) : x = BlockOf(code, t)}

\* new_from_blocks: a block has edges to the targets of its instructions, and no others.
LEMMA EdgesMadeOK ==
  ASSUME FunInv, NEW b
  PROVE  EdgesMade(b) \in Seq(Blocks) /\ ToSet(EdgesMade(b)) = LedTo(b, Len(code))
<1> DEFINE N == Len(code)
           Made(seq, i) == IF BlockOf(code, i) = b THEN WithEdgesOf(seq, code[i]) ELSE seq
           Is(f, n) == f = [i \in 0 .. n |-> IF i = 0 THEN << >> ELSE Made(f[i - 1], i)]
           S == {n \in Nat : \E f : Is(f, n)}
           f == CHOOSE f : Is(f, N)
           P == {n \in 0 .. N : f[n] \in Seq(Blocks) /\ ToSet(f[n]) = LedTo(b, n)}
<1>1. N \in Nat /\ DOMAIN code = 1 .. N
  BY BlocksAreNumbers
<1>2. 0 \in S
  <2>1. Is([i \in 0 .. 0 |-> << >>], 0)
    OBVIOUS
  <2>2. QED
    BY <2>1
<1>3. ASSUME NEW n \in 0 .. (N - 1), n \in S PROVE n + 1 \in S
  <2>1. PICK g : Is(g, n)
    BY <1>3
  <2> DEFINE h == [i \in 0 .. (n + 1) |-> IF i = n + 1 THEN Made(g[n], n + 1) ELSE g[i]]
  <2> HIDE DEF Made
  <2>2. ASSUME NEW i \in 0 .. (n + 1)
        PROVE  h[i] = IF i = 0 THEN << >> ELSE Made(h[i - 1], i)
    BY <2>1
  <2>3. Is(h, n + 1)
    BY <2>2
  <2> HIDE DEF h, Is
  <2>4. QED
    BY <2>3
<1>4. N \in S
  <2> HIDE DEF S, N
  <2>1. QED
    BY <1>1, <1>2, <1>3, UpTo
<1>5. Is(f, N)
  BY <1>4, Zenon
<1>6. EdgesMade(b) = f[N]
  BY DEF EdgesMade
<1> HIDE DEF f
<1>7. 0 \in P
  <2>1. f[0] = << >>
    BY <1>1, <1>5
  <2>2. << >> \in Seq(Blocks) /\ ToSet(<< >>) = {}
    BY DEF ToSet
  <2>3. LedTo(b, 0) = {}
    BY DEF LedTo
  <2>4. f[0] \in Seq(Blocks) /\ ToSet(f[0]) = LedTo(b, 0)
    BY <2>1, <2>2, <2>3, Zenon
  <2>5. 0 \in 0 .. N
    BY <1>1
  <2>6. QED
    BY <2>4, <2>5, Zenon
<1>8. ASSUME NEW n \in 0 .. (N - 1), n \in P PROVE n + 1 \in P
  <2>1. f[n + 1] = Made(f[n], n + 1)
    BY <1>1, <1>5
  <2>2. n + 1 \in DOMAIN code /\ 1 .. n + 1 = (1 .. n) \cup {n + 1} /\ n + 1 \in 0 .. N
    BY <1>1
  <2>3. \A t \in Targets(code[n + 1]) : BlockOf(code, t) \in Blocks
    BY <2>2, BlocksAreNumbers DEF FunInv
  <2>4. CASE BlockOf(code, n + 1) = b
    <3>1. /\ f[n + 1] \in Seq(Blocks)
          /\ ToSet(f[n + 1]) = ToSet(f[n]) \cup {BlockOf(code, t) : t \in Targets(code[n + 1])}
      BY <1>8, <2>1, <2>2, <2>4, WithEdgesOfOK
    <3>2. LedTo(b, n + 1) = LedTo(b, n) \cup {BlockOf(code, t) : t \in Targets(code[n + 1])}
      BY <2>2, <2>3, <2>4 DEF LedTo
    <3>3. QED
      BY <1>8, <2>2, <3>1, <3>2
  <2>5. CASE BlockOf(code, n + 1) # b
    <3>1. f[n + 1] = f[n]
      BY <2>1, <2>5
    <3>2. LedTo(b, n + 1) = LedTo(b, n)
      BY <2>2, <2>5 DEF LedTo
    <3>3. QED
      BY <1>8, <2>2, <3>1, <3>2
  <2>6. QED
    BY <2>4, <2>5
<1>9. N \in P
  <2> HIDE DEF P, N
  <2>1. QED
    BY <1>1, <1>7, <1>8, UpTo
<1>10. QED
  BY <1>6, <1>9

-----------------------------------------------------------------------------
(* The queue of blocks to lower.                                           *)

\* What the search finds is there, whether the sequence is sorted or not.
LEMMA BinarySearchOK ==
  ASSUME NEW s \in Seq(Nat), NEW x \in Nat, BinarySearch(s, x)
  PROVE  x \in ToSet(s)
<1> DEFINE N == Len(s)
           start == [left |-> 0, right |-> Len(s), found |-> FALSE]
           Is(f, n) == f = [i \in 0 .. n |-> IF i = 0 THEN start ELSE Halved(s, x, f[i - 1])]
           S == {n \in Nat : \E f : Is(f, n)}
           f == CHOOSE f : Is(f, N)
           Window(w) == /\ w.left \in 0 .. N /\ w.right \in 0 .. N
                        /\ w.found = TRUE => x \in ToSet(s)
           P == {n \in 0 .. N : Window(f[n])}
<1>1. N \in Nat /\ DOMAIN s = 1 .. N /\ \A i \in 1 .. N : s[i] \in Nat
  OBVIOUS
<1>2. 0 \in S
  <2>1. Is([i \in 0 .. 0 |-> start], 0)
    OBVIOUS
  <2>2. QED
    BY <2>1
<1>3. ASSUME NEW n \in 0 .. (N - 1), n \in S PROVE n + 1 \in S
  <2>1. PICK g : Is(g, n)
    BY <1>3
  <2> DEFINE h == [i \in 0 .. (n + 1) |-> IF i = n + 1 THEN Halved(s, x, g[n]) ELSE g[i]]
  <2> HIDE DEF start
  <2>2. ASSUME NEW i \in 0 .. (n + 1)
        PROVE  h[i] = IF i = 0 THEN start ELSE Halved(s, x, h[i - 1])
    BY <2>1
  <2>3. Is(h, n + 1)
    BY <2>2
  <2> HIDE DEF h, Is
  <2>4. QED
    BY <2>3
<1>4. N \in S
  <2> HIDE DEF S, N
  <2>1. QED
    BY <1>1, <1>2, <1>3, UpTo
<1>5. Is(f, N)
  BY <1>4, Zenon
<1>6. BinarySearch(s, x) = f[N].found
  BY DEF BinarySearch
<1> HIDE DEF f
<1>7. 0 \in P
  <2>1. f[0] = start /\ 0 \in 0 .. N
    BY <1>1, <1>5
  <2>2. start.left = 0 /\ start.right = N /\ start.found = FALSE
    OBVIOUS
  <2> HIDE DEF start
  <2>3. Window(f[0])
    BY <1>1, <2>1, <2>2
  <2> HIDE DEF Window
  <2>4. QED
    BY <2>1, <2>3
<1>8. ASSUME NEW n \in 0 .. (N - 1), n \in P PROVE n + 1 \in P
  <2> DEFINE w == f[n]
             mid == w.left + (w.right - w.left) \div 2
  <2> HIDE DEF start
  <2>1. f[n + 1] = Halved(s, x, w) /\ n + 1 \in 0 .. N
    BY <1>1, <1>5
  <2>2. Window(w)
    BY <1>8
  <2> HIDE DEF w
  <2>3. CASE w.found \/ w.left >= w.right
    BY <2>1, <2>2, <2>3 DEF Halved
  <2>4. CASE ~(w.found \/ w.left >= w.right)
    <3>1. w.left \in Nat /\ w.right \in Nat /\ w.left < w.right /\ w.right <= N
      BY <1>1, <2>2, <2>4
    <3>2. mid \in Nat /\ mid < w.right
      BY <3>1
    <3> HIDE DEF mid
    <3>3. mid \in 0 .. N /\ mid + 1 \in 1 .. N
      BY <1>1, <3>1, <3>2
    <3>4. s[mid + 1] \in ToSet(s)
      BY <1>1, <3>3 DEF ToSet
    <3>5. CASE s[mid + 1] < x
      <4>1. f[n + 1] = [left |-> mid + 1, right |-> w.right, found |-> FALSE]
        BY <2>1, <2>4, <3>5 DEF Halved, mid
      <4>2. QED
        BY <1>1, <2>1, <2>2, <3>3, <4>1
    <3>6. CASE ~(s[mid + 1] < x)
      <4>1. f[n + 1] = [left |-> w.left, right |-> mid, found |-> s[mid + 1] = x]
        BY <2>1, <2>4, <3>6 DEF Halved, mid
      <4>2. f[n + 1].left = w.left /\ f[n + 1].right = mid /\ f[n + 1].found = (s[mid + 1] = x)
        BY <4>1
      <4>3. Window(f[n + 1])
        BY <2>2, <3>3, <3>4, <4>2
      <4>4. QED
        BY <2>1, <4>3
    <3>7. QED
      BY <3>5, <3>6
  <2>5. QED
    BY <2>3, <2>4
<1>9. N \in P
  <2> HIDE DEF P, N
  <2>1. QED
    BY <1>1, <1>7, <1>8, UpTo
<1>10. f[N].found = TRUE
  BY <1>6
<1>11. QED
  BY <1>9, <1>10

LEMMA QueuedOK ==
  ASSUME NEW B \in SUBSET Nat, NEW processed \in Seq(B), NEW queue \in Seq(B), NEW b \in B
  PROVE  /\ Queued(processed, queue, b) \in Seq(B)
         /\ ToSet(queue) \subseteq ToSet(Queued(processed, queue, b))
         /\ ToSet(Queued(processed, queue, b)) \subseteq ToSet(queue) \cup {b}
         /\ b \in ToSet(processed) \cup ToSet(Queued(processed, queue, b))
<1>1. processed \in Seq(Nat) /\ b \in Nat
  <2>1. Len(processed) \in Nat /\ DOMAIN processed = 1 .. Len(processed)
        /\ \A i \in 1 .. Len(processed) : processed[i] \in B
    OBVIOUS
  <2>2. processed = [i \in 1 .. Len(processed) |-> processed[i]]
    OBVIOUS
  <2>3. QED
    BY <2>1, <2>2
<1>2. CASE BinarySearch(processed, b)
  BY <1>1, <1>2, BinarySearchOK DEF Queued
<1>3. CASE b \in ToSet(queue)
  BY <1>3 DEF Queued
<1>4. CASE ~(BinarySearch(processed, b) \/ b \in ToSet(queue))
  <2>1. Queued(processed, queue, b) = Append(queue, b)
    BY <1>4 DEF Queued
  <2>2. QED
    BY <2>1, AppendSet
<1>5. QED
  BY <1>2, <1>3, <1>4

\* Every target waits, or was lowered; nothing else is added.
LEMMA QueueTargetsOK ==
  ASSUME NEW B \in SUBSET Nat, NEW processed \in Seq(B), NEW queue \in Seq(B), NEW targets \in Seq(B)
  PROVE  /\ QueueTargets(processed, queue, targets) \in Seq(B)
         /\ ToSet(queue) \subseteq ToSet(QueueTargets(processed, queue, targets))
         /\ ToSet(QueueTargets(processed, queue, targets)) \subseteq ToSet(queue) \cup ToSet(targets)
         /\ ToSet(targets) \subseteq ToSet(processed) \cup ToSet(QueueTargets(processed, queue, targets))
<1> DEFINE N == Len(targets)
           Is(f, n) == f = [i \in 0 .. n |-> IF i = 0 THEN queue ELSE Queued(processed, f[i - 1], targets[i])]
           S == {n \in Nat : \E f : Is(f, n)}
           f == CHOOSE f : Is(f, N)
           Waits(q, n) == /\ q \in Seq(B)
                          /\ ToSet(queue) \subseteq ToSet(q)
                          /\ ToSet(q) \subseteq ToSet(queue) \cup ToSet(targets)
                          /\ \A i \in 1 .. n : targets[i] \in ToSet(processed) \cup ToSet(q)
           P == {n \in 0 .. N : Waits(f[n], n)}
<1>1. N \in Nat /\ DOMAIN targets = 1 .. N /\ \A i \in 1 .. N : targets[i] \in B
  OBVIOUS
<1>2. 0 \in S
  <2>1. Is([i \in 0 .. 0 |-> queue], 0)
    OBVIOUS
  <2>2. QED
    BY <2>1
<1>3. ASSUME NEW n \in 0 .. (N - 1), n \in S PROVE n + 1 \in S
  <2>1. PICK g : Is(g, n)
    BY <1>3
  <2> DEFINE h == [i \in 0 .. (n + 1) |-> IF i = n + 1 THEN Queued(processed, g[n], targets[n + 1]) ELSE g[i]]
  <2>2. ASSUME NEW i \in 0 .. (n + 1)
        PROVE  h[i] = IF i = 0 THEN queue ELSE Queued(processed, h[i - 1], targets[i])
    BY <2>1
  <2>3. Is(h, n + 1)
    BY <2>2
  <2> HIDE DEF h, Is
  <2>4. QED
    BY <2>3
<1>4. N \in S
  <2> HIDE DEF S, N
  <2>1. QED
    BY <1>1, <1>2, <1>3, UpTo
<1>5. Is(f, N)
  BY <1>4, Zenon
<1>6. QueueTargets(processed, queue, targets) = f[N]
  BY DEF QueueTargets
<1> HIDE DEF f
<1>7. 0 \in P
  <2>1. f[0] = queue /\ 0 \in 0 .. N /\ 1 .. 0 = {}
    BY <1>1, <1>5
  <2>2. QED
    BY <2>1
<1>8. ASSUME NEW n \in 0 .. (N - 1), n \in P PROVE n + 1 \in P
  <2>1. f[n + 1] = Queued(processed, f[n], targets[n + 1])
    BY <1>1, <1>5
  <2>2. n + 1 \in 0 .. N /\ n + 1 \in 1 .. N /\ 1 .. n + 1 = (1 .. n) \cup {n + 1}
    BY <1>1
  <2>3. targets[n + 1] \in B /\ targets[n + 1] \in ToSet(targets)
    BY <1>1, <2>2 DEF ToSet
  <2>4. Waits(f[n], n)
    BY <1>8
  <2> DEFINE q == f[n]
             b == targets[n + 1]
  <2>8. q \in Seq(B) /\ b \in B
    BY <2>3, <2>4
  <2> HIDE DEF Waits, Is, P, S, q, b
  <2>9. /\ Queued(processed, q, b) \in Seq(B)
        /\ ToSet(q) \subseteq ToSet(Queued(processed, q, b))
        /\ ToSet(Queued(processed, q, b)) \subseteq ToSet(q) \cup {b}
        /\ b \in ToSet(processed) \cup ToSet(Queued(processed, q, b))
    BY <2>8, QueuedOK
  <2>5. /\ f[n + 1] \in Seq(B)
        /\ ToSet(f[n]) \subseteq ToSet(f[n + 1])
        /\ ToSet(f[n + 1]) \subseteq ToSet(f[n]) \cup {targets[n + 1]}
        /\ targets[n + 1] \in ToSet(processed) \cup ToSet(f[n + 1])
    BY <2>1, <2>9 DEF q, b
  <2>6. Waits(f[n + 1], n + 1)
    BY <2>2, <2>3, <2>4, <2>5 DEF Waits
  <2>7. QED
    BY <2>2, <2>6 DEF P
<1>9. N \in P
  <2> HIDE DEF P, N
  <2>1. QED
    BY <1>1, <1>7, <1>8, UpTo
<1>10. Waits(f[N], N)
  BY <1>9
<1>11. ToSet(targets) \subseteq ToSet(processed) \cup ToSet(f[N])
  BY <1>1, <1>10 DEF ToSet
<1>12. QED
  BY <1>6, <1>10, <1>11

-----------------------------------------------------------------------------
(* Worklists.  Analysis and lowering both start at the entry, and go from  *)
(* what is done to the targets of its edges.                               *)

ClosedIn(g, S) == Entry \in S /\ \A b \in S : ToSet(g[b]) \subseteq S

\* What is done, and what is still to do, in the graph g of the blocks B.
Explores(B, g, done, todo) ==
  /\ Entry \in done \cup todo
  /\ done \cup todo \subseteq B
  /\ \A b \in done : ToSet(g[b]) \subseteq done \cup todo
  /\ \A S \in SUBSET B : ClosedIn(g, S) => done \cup todo \subseteq S

\* Block b is done; of the rest and its targets nothing is lost, and nothing else is added.
LEMMA ExploresFurther ==
  ASSUME NEW B, NEW g \in [B -> Seq(B)], NEW done, NEW todo, NEW b \in todo, NEW rest,
         Explores(B, g, done, todo),
         todo \subseteq done \cup {b} \cup rest,
         ToSet(g[b]) \subseteq done \cup {b} \cup rest,
         rest \subseteq todo \cup ToSet(g[b])
  PROVE  Explores(B, g, done \cup {b}, rest)
<1>1. b \in B
  BY DEF Explores
<1>2. ToSet(g[b]) \subseteq B
  <2>1. g[b] \in Seq(B)
    BY <1>1
  <2>2. QED
    BY <2>1 DEF ToSet
<1>3. Entry \in done \cup {b} \cup rest /\ done \cup {b} \cup rest \subseteq B
  BY <1>1, <1>2 DEF Explores
<1>4. ASSUME NEW x \in done \cup {b} PROVE ToSet(g[x]) \subseteq done \cup {b} \cup rest
  <2>1. CASE x = b
    BY <2>1
  <2>2. CASE x \in done
    <3>1. ToSet(g[x]) \subseteq done \cup todo
      BY <2>2 DEF Explores
    <3>2. QED
      BY <3>1
  <2>3. QED
    BY <2>1, <2>2
<1>5. ASSUME NEW S \in SUBSET B, ClosedIn(g, S) PROVE done \cup {b} \cup rest \subseteq S
  <2>1. done \cup todo \subseteq S
    BY <1>5 DEF Explores
  <2>2. ToSet(g[b]) \subseteq S
    BY <1>5, <2>1 DEF ClosedIn
  <2>3. QED
    BY <2>1, <2>2
<1>6. QED
  BY <1>3, <1>4, <1>5 DEF Explores

\* When nothing is to do any more, what is done is what the entry leads to.
LEMMA ExploresAll ==
  ASSUME NEW done, Explores(Blocks, cfg, done, {})
  PROVE  done = Reachable
<1>1. Closed(done) /\ done \subseteq Blocks
  BY DEF Explores, Closed, Successors
<1>2. \A S \in SUBSET Blocks : Closed(S) => done \subseteq S
  BY DEF Explores, Closed, ClosedIn, Successors
<1>3. QED
  BY <1>1, <1>2 DEF Reachable

GraphInv == cfg \in [Blocks -> Seq(Blocks)] /\ GraphOfCode

AnalysisInv ==
  /\ Explores(Blocks, cfg, blocks_analyzed, blocks_to_analyze)
  /\ state \in {"lower", "compiled"} => blocks_to_analyze = {}

LoweringInv ==
  /\ blocks_processed \in Seq(Blocks)
  /\ block_indecies \in Seq(Blocks)
  /\ DOMAIN ir = ToSet(blocks_processed)
  /\ Explores(Blocks, cfg, DOMAIN ir, ToSet(block_indecies))

IInv == FunInv /\ GraphInv /\ AnalysisInv /\ LoweringInv

LEMMA GraphMade ==
  ASSUME FunInv, cfg = [b \in Blocks |-> EdgesMade(b)]
  PROVE  GraphInv
<1>1. cfg \in [Blocks -> Seq(Blocks)] /\ \A b \in Blocks : Successors(b) = LedTo(b, Len(code))
  BY EdgesMadeOK DEF Successors
<1>2. DOMAIN code = 1 .. Len(code) /\ \A i \in DOMAIN code : BlockOf(code, i) \in Blocks
  BY BlocksAreNumbers
<1>3. \A i \in DOMAIN code : \A t \in Targets(code[i]) : t \in DOMAIN code
  BY DEF FunInv
<1> DEFINE G == UNION {{<<b, t>> : t \in Successors(b)} : b \in Blocks}
<1>4. ASSUME NEW e \in G PROVE e \in Edges(code)
  <2>1. PICK b \in Blocks : \E t \in Successors(b) : e = <<b, t>>
    OBVIOUS
  <2>2. PICK t \in Successors(b) : e = <<b, t>>
    BY <2>1
  <2>3. PICK i \in DOMAIN code : BlockOf(code, i) = b /\ \E u \in Targets(code[i]) : t = BlockOf(code, u)
    BY <1>1, <1>2, <2>2 DEF LedTo
  <2>4. QED
    BY <2>2, <2>3 DEF Edges
<1>5. ASSUME NEW e \in Edges(code) PROVE e \in G
  <2>1. PICK i \in DOMAIN code : \E u \in Targets(code[i]) : e = <<BlockOf(code, i), BlockOf(code, u)>>
    BY DEF Edges
  <2>2. PICK u \in Targets(code[i]) : e = <<BlockOf(code, i), BlockOf(code, u)>>
    BY <2>1
  <2>3. BlockOf(code, i) \in Blocks /\ BlockOf(code, u) \in Blocks
    BY <1>2, <1>3
  <2>4. BlockOf(code, u) \in Successors(BlockOf(code, i))
    BY <1>1, <1>2, <2>3 DEF LedTo
  <2>5. QED
    BY <2>2, <2>3, <2>4
<1>6. GraphOfCode
  BY <1>4, <1>5 DEF GraphOfCode
<1>7. QED
  BY <1>1, <1>6 DEF GraphInv

LEMMA InitOK == CompileInit => IInv
<1> SUFFICES ASSUME CompileInit PROVE IInv
  OBVIOUS
<1>1. FunInv
  BY FunctionsAssumption DEF CompileInit, FunInv, code
<1>2. GraphInv
  BY <1>1, GraphMade DEF CompileInit
<1>3. Entry \in Blocks
  BY <1>1, BlocksAreNumbers
<1>4. Explores(Blocks, cfg, {}, {Entry})
  BY <1>3 DEF Explores, ClosedIn
<1>5. AnalysisInv
  BY <1>4 DEF CompileInit, AnalysisInv
<1>6. DOMAIN ir = {} /\ ToSet(blocks_processed) = {}
  BY DEF CompileInit, Nothing, ToSet
<1>7. /\ block_indecies \in Seq(Blocks) /\ ToSet(block_indecies) = {Entry}
      /\ blocks_processed \in Seq(Blocks)
  BY <1>3 DEF CompileInit, ToSet
<1>8. LoweringInv
  BY <1>4, <1>6, <1>7 DEF LoweringInv
<1>9. QED
  BY <1>1, <1>2, <1>5, <1>8 DEF IInv

-----------------------------------------------------------------------------
(* Steps.                                                                  *)

\* The function and its graph stay as they are.
LEMMA FunctionStays ==
  ASSUME FunInv, GraphInv, UNCHANGED function
  PROVE  FunInv' /\ GraphInv' /\ Blocks' = Blocks /\ cfg' = cfg
BY DEF FunInv, GraphInv, GraphOfCode, Successors, function, code, Blocks

LEMMA AnalyzeInstOK == ASSUME IInv, AnalyzeInst PROVE IInv'
<1>1. FunInv' /\ GraphInv' /\ Blocks' = Blocks /\ cfg' = cfg
  BY FunctionStays DEF IInv, AnalyzeInst
<1>2. state' \notin {"lower", "compiled"}
  <2>1. state = "analyze" /\ state' \in {state, "rejected", "panicked"}
    BY DEF AnalyzeInst
  <2>2. QED
    BY <2>1
<1>3. AnalysisInv'
  BY <1>1, <1>2 DEF IInv, AnalysisInv, AnalyzeInst
<1>4. LoweringInv'
  BY <1>1 DEF IInv, LoweringInv, AnalyzeInst, lowering
<1>5. QED
  BY <1>1, <1>3, <1>4 DEF IInv

\* The worklist loses the block that was analysed, and gains its targets.
LEMMA LeaveBlockOK == ASSUME IInv, LeaveBlock PROVE IInv'
<1>1. FunInv' /\ GraphInv' /\ Blocks' = Blocks /\ cfg' = cfg
  BY FunctionStays DEF IInv, LeaveBlock
<1>2. LoweringInv'
  BY <1>1 DEF IInv, LoweringInv, LeaveBlock, lowering
<1>3. CASE tm.out = << >>
  <2>1. state' = "panicked" /\ UNCHANGED analysis
    BY <1>3 DEF LeaveBlock
  <2>2. AnalysisInv'
    BY <1>1, <2>1 DEF IInv, AnalysisInv, analysis
  <2>3. QED
    BY <1>1, <1>2, <2>2 DEF IInv
<1>4. CASE tm.out # << >>
  <2> DEFINE done == blocks_analyzed
             todo == blocks_to_analyze
             b == Block
  <2>1. /\ state = "analyze" /\ state' = state /\ todo # {}
        /\ blocks_analyzed' = done \cup {b}
        /\ blocks_to_analyze' = (todo \cup ToSet(cfg[b])) \ (done \cup {b})
    BY <1>4 DEF LeaveBlock, Worklist, Successors
  <2>2. Explores(Blocks, cfg, done, todo) /\ cfg \in [Blocks -> Seq(Blocks)]
    BY DEF IInv, AnalysisInv, GraphInv
  <2>3. b \in todo
    <3>1. todo \in SUBSET Nat
      BY <2>2, BlocksAreNumbers DEF IInv, Explores
    <3>2. \E m \in todo : \A n \in todo : m <= n
      BY <2>1, <3>1, Least
    <3>3. QED
      BY <3>2 DEF Block, Min
  <2>4. Explores(Blocks, cfg, done \cup {b}, blocks_to_analyze')
    <3> HIDE DEF done, todo, b
    <3>1. QED
      BY <2>1, <2>2, <2>3, ExploresFurther
  <2>5. AnalysisInv'
    BY <1>1, <2>1, <2>4 DEF AnalysisInv
  <2>6. QED
    BY <1>1, <1>2, <2>5 DEF IInv
<1>5. QED
  BY <1>3, <1>4

LEMMA StartLoweringOK == ASSUME IInv, StartLowering PROVE IInv'
<1>1. FunInv' /\ GraphInv' /\ Blocks' = Blocks /\ cfg' = cfg
  BY FunctionStays DEF IInv, StartLowering
<1>2. AnalysisInv'
  BY <1>1 DEF IInv, AnalysisInv, StartLowering, analysis
<1>3. LoweringInv'
  BY <1>1 DEF IInv, LoweringInv, StartLowering, lowering
<1>4. QED
  BY <1>1, <1>2, <1>3 DEF IInv

\* The queue loses the block that is lowered, and gains the targets that the search misses.
LEMMA LowerBlockOK == ASSUME IInv, LowerBlock PROVE IInv'
<1> DEFINE b == Head(block_indecies)
           insts == UpToEnd(cg[b])
           rest == Tail(block_indecies)
           processed == Append(blocks_processed, b)
           targets == EdgeTargets(b)
<1>1. FunInv' /\ GraphInv' /\ Blocks' = Blocks /\ cfg' = cfg
  BY FunctionStays DEF IInv, LowerBlock
<1>2. AnalysisInv'
  BY <1>1 DEF IInv, AnalysisInv, LowerBlock, analysis
<1>3. CASE UNCHANGED lowering
  <2>1. LoweringInv'
    BY <1>1, <1>3 DEF IInv, LoweringInv, lowering
  <2>2. QED
    BY <1>1, <1>2, <2>1 DEF IInv
<1>4. CASE ~UNCHANGED lowering
  <2>1. /\ block_indecies # << >>
        /\ ir' = Put(ir, b, [k \in DOMAIN insts |-> Lowered(insts[k])])
        /\ blocks_processed' = processed
        /\ block_indecies' = QueueTargets(blocks_processed', rest, targets)
    BY <1>4 DEF LowerBlock
  <2>2. /\ Explores(Blocks, cfg, DOMAIN ir, ToSet(block_indecies))
        /\ blocks_processed \in Seq(Blocks) /\ block_indecies \in Seq(Blocks)
        /\ DOMAIN ir = ToSet(blocks_processed)
        /\ cfg \in [Blocks -> Seq(Blocks)] /\ Blocks \in SUBSET Nat
    BY BlocksAreNumbers DEF IInv, LoweringInv, GraphInv
  <2>3. /\ b \in Blocks /\ b \in ToSet(block_indecies)
        /\ rest \in Seq(Blocks)
        /\ ToSet(rest) \subseteq ToSet(block_indecies)
        /\ ToSet(block_indecies) \subseteq ToSet(rest) \cup {b}
    <3> DEFINE q == block_indecies
               n == Len(q)
    <3>1. /\ n \in Nat /\ n # 0 /\ DOMAIN q = 1 .. n
          /\ b = q[1] /\ q[1] \in Blocks /\ 1 \in 1 .. n /\ rest \in Seq(Blocks)
          /\ DOMAIN rest = 1 .. (n - 1) /\ \A i \in 1 .. (n - 1) : rest[i] = q[i + 1]
      BY <2>1, <2>2
    <3> HIDE DEF q, n, rest, b
    <3>2. b \in ToSet(q) /\ b \in Blocks
      BY <2>2, <3>1 DEF ToSet, q
    <3>3. ASSUME NEW i \in 1 .. (n - 1) PROVE rest[i] \in ToSet(q)
      <4>1. i + 1 \in DOMAIN q
        BY <3>1
      <4>2. QED
        BY <3>1, <4>1 DEF ToSet
    <3>4. ASSUME NEW i \in 1 .. n PROVE q[i] \in ToSet(rest) \cup {b}
      <4>1. CASE i = 1
        BY <3>1, <4>1
      <4>2. CASE i # 1
        <5>1. i - 1 \in DOMAIN rest /\ rest[i - 1] = q[i]
          BY <3>1, <4>2
        <5>2. QED
          BY <5>1 DEF ToSet
      <4>3. QED
        BY <4>1, <4>2
    <3>5. ToSet(rest) \subseteq ToSet(q)
      BY <3>1, <3>3 DEF ToSet
    <3>6. ToSet(q) \subseteq ToSet(rest) \cup {b}
      BY <3>1, <3>4 DEF ToSet
    <3>7. QED
      BY <3>1, <3>2, <3>5, <3>6 DEF q
  <2>4. processed \in Seq(Blocks) /\ ToSet(processed) = ToSet(blocks_processed) \cup {b}
    BY <2>2, <2>3, AppendSet
  <2>5. targets \in Seq(Blocks) /\ ToSet(targets) = ToSet(cfg[b])
    BY <2>2, <2>3, ReverseSet DEF EdgeTargets
  <2>6. DOMAIN ir' = DOMAIN ir \cup {b}
    BY <2>1 DEF Put
  <2> HIDE DEF b, rest, processed, targets
  <2>7. /\ block_indecies' \in Seq(Blocks)
        /\ ToSet(rest) \subseteq ToSet(block_indecies')
        /\ ToSet(block_indecies') \subseteq ToSet(rest) \cup ToSet(targets)
        /\ ToSet(targets) \subseteq ToSet(processed) \cup ToSet(block_indecies')
    BY <2>1, <2>2, <2>3, <2>4, <2>5, QueueTargetsOK
  <2>8. Explores(Blocks, cfg, DOMAIN ir \cup {b}, ToSet(block_indecies'))
    <3>1. /\ ToSet(block_indecies) \subseteq DOMAIN ir \cup {b} \cup ToSet(block_indecies')
          /\ ToSet(cfg[b]) \subseteq DOMAIN ir \cup {b} \cup ToSet(block_indecies')
          /\ ToSet(block_indecies') \subseteq ToSet(block_indecies) \cup ToSet(cfg[b])
      BY <2>2, <2>3, <2>4, <2>5, <2>7
    <3>2. QED
      BY <2>2, <2>3, <3>1, ExploresFurther
  <2>9. LoweringInv'
    BY <1>1, <2>1, <2>2, <2>4, <2>6, <2>7, <2>8 DEF LoweringInv
  <2>10. QED
    BY <1>1, <1>2, <2>9 DEF IInv
<1>5. QED
  BY <1>3, <1>4

LEMMA VerifyOK ==
  ASSUME IInv, Verify
  PROVE  IInv' /\ DOMAIN ir = Reachable /\ blocks_analyzed = Reachable
<1>1. FunInv' /\ GraphInv' /\ Blocks' = Blocks /\ cfg' = cfg
  BY FunctionStays DEF IInv, Verify
<1>2. AnalysisInv'
  BY <1>1 DEF IInv, AnalysisInv, Verify, analysis
<1>3. LoweringInv'
  BY <1>1 DEF IInv, LoweringInv, Verify, lowering
<1>4. ToSet(block_indecies) = {} /\ blocks_to_analyze = {}
  BY DEF IInv, AnalysisInv, Verify, ToSet
<1>5. Explores(Blocks, cfg, DOMAIN ir, {}) /\ Explores(Blocks, cfg, blocks_analyzed, {})
  BY <1>4 DEF IInv, AnalysisInv, LoweringInv
<1>6. QED
  BY <1>1, <1>2, <1>3, <1>5, ExploresAll DEF IInv

LEMMA StepOK == ASSUME IInv, [Compile]_compiler PROVE IInv'
<1>1. CASE UNCHANGED compiler
  <2>1. FunInv' /\ GraphInv' /\ Blocks' = Blocks /\ cfg' = cfg
    BY <1>1, FunctionStays DEF IInv, compiler
  <2>2. AnalysisInv'
    BY <1>1, <2>1 DEF IInv, AnalysisInv, compiler, analysis
  <2>3. LoweringInv'
    BY <1>1, <2>1 DEF IInv, LoweringInv, compiler, lowering
  <2>4. QED
    BY <2>1, <2>2, <2>3 DEF IInv
<1>2. QED
  BY <1>1, AnalyzeInstOK, LeaveBlockOK, StartLoweringOK, LowerBlockOK, VerifyOK DEF Compile

-----------------------------------------------------------------------------
(* Theorems.                                                               *)

\* The inductive invariant: both worklists explore the graph of the code from the entry.
THEOREM AlwaysExplored == CompileSpec => []IInv
BY InitOK, StepOK, PTL DEF CompileSpec

\* new_from_blocks: the graph that is analysed and lowered has the edges of the branches of
\* the code, and no others.
THEOREM AlwaysGraphOfCode == CompileSpec => []GraphOfCode
<1>1. IInv => GraphOfCode
  BY DEF IInv, GraphInv
<1>2. QED
  BY <1>1, AlwaysExplored, PTL

\* A function that compiles has IR for the blocks that the entry leads to, which are the ones
\* that were analysed, although the search in what was lowered may miss some (Builder::lower).
THEOREM AlwaysLoweredReachable == CompileSpec => LoweredReachable
<1>1. IInv /\ [Compile]_compiler =>
        [state' = "compiled" => DOMAIN ir = Reachable /\ DOMAIN ir = blocks_analyzed]_compiler
  <2>1. SUFFICES ASSUME IInv, Compile, state' = "compiled"
                 PROVE  DOMAIN ir = Reachable /\ DOMAIN ir = blocks_analyzed
    OBVIOUS
  <2>2. ~AnalyzeInst
    <3>1. SUFFICES ASSUME AnalyzeInst PROVE FALSE
      OBVIOUS
    <3>2. state = "analyze" /\ state' \in {state, "rejected", "panicked"}
      BY <3>1 DEF AnalyzeInst
    <3>3. QED
      BY <2>1, <3>2
  <2>3. ~LeaveBlock /\ ~StartLowering
    BY <2>1 DEF LeaveBlock, StartLowering
  <2>4. ~LowerBlock
    BY <2>1 DEF LowerBlock
  <2>5. Verify
    BY <2>1, <2>2, <2>3, <2>4 DEF Compile
  <2>6. QED
    BY <2>1, <2>5, VerifyOK
<1>2. QED
  BY <1>1, AlwaysExplored, PTL DEF CompileSpec, LoweredReachable

-----------------------------------------------------------------------------
(* What types the instructions keep that are emitted for a block.          *)

\* What is assumed of the instructions of a function.
FlatOK(f) ==
  /\ f.ret \in DOMAIN Tag
  /\ DOMAIN f.code = 1 .. Len(f.code) /\ Len(f.code) \in Nat
  /\ \A i \in DOMAIN f.code :
       /\ f.code[i].op = "Const" => f.code[i].cst[1] \in DOMAIN ClassOf
       /\ f.code[i].op = "Call" => f.code[i].arguments \in Seq(Nat)
       /\ f.code[i].op = "Tuple" => f.code[i].elems \in Seq(Nat)
       /\ \A v \in Operands(f.code[i]) :
            /\ v \in DOMAIN f.code
            /\ \/ BlockOf(f.code, v) = BlockOf(f.code, i)
               \/ f.code[BlockOf(f.code, i)].op = "PhiRecv"

InBlock(f, i, b) == i \in DOMAIN f.code /\ BlockOf(f.code, i) = b

SignatureKind(g) ==
  CallableKind([i \in DOMAIN Globals[g].params |-> Tag[Globals[g].params[i]]], Tag[Globals[g].ret])

\* A value of any of the members is one of type r.
Covers(t, r, members) ==
  /\ r \in DOMAIN t.types
  /\ \A n \in DOMAIN members :
       \/ members[n] = r
       \/ IsUnionKind(KindOf(t, r)) /\ members[n] \in ToSet(KindOf(t, r).union)

Giving == {"Use", "Call", "Const", "FieldLoad", "Alloc"}
Jumps == {"Jump", "JumpIfTrue", "JumpIfFalse"}
CgOps == Giving \cup Jumps \cup {"WriteLocalVar", "Return"}

\* Instruction x of block b of function f, by the types ty of values in table t: what it
\* gives has the type that the value is known with.
Judged(f, t, ty, b, x) ==
  /\ x.op \in CgOps
  /\ "ret" \in DOMAIN x <=> x.op \in Giving
  /\ x.op \in Giving => x.ret \in DOMAIN ty /\ InBlock(f, x.ret, b)
  /\ \A i \in Reads(x) : InBlock(f, i, b) /\ (x.op \notin Jumps => i \in DOMAIN ty)
  /\ x.op = "Const" => x.cst[1] \in DOMAIN ClassOf /\ ty[x.ret] = ConstantType(x.cst)
  /\ x.op = "Use" => IsCallableKind(KindOf(t, ty[x.ret]))
  /\ x.op = "Call" =>
       /\ x.value \in DOMAIN Globals
       /\ ty[x.ret] = Tag[Globals[x.value].ret]
       /\ x.args \in Seq(Nat) /\ Len(x.args) = Len(Globals[x.value].params)
       /\ \A n \in DOMAIN x.args : \/ Globals[x.value].params[n] \in {"TSelf", "Unknown"}
                                   \/ ty[x.args[n]] = Tag[Globals[x.value].params[n]]
  /\ x.op = "FieldLoad" =>
       /\ ty[x.orig] = x.orig_t
       /\ IsTupleKind(KindOf(t, x.orig_t))
       /\ Covers(t, ty[x.ret], KindOf(t, x.orig_t).tuple)
  /\ x.op = "Alloc" =>
       /\ ty[x.ret] = x.type_id
       /\ x.ilist \in Seq(Nat)
       /\ KindOf(t, x.type_id) = TupleKind([n \in DOMAIN x.ilist |-> ty[x.ilist[n]]])
  /\ x.op = "Return" => ty[x.value] = Tag[f.ret]

\* Table u and types tz have what table t and types ty have.
Later(t, ty, u, tz) ==
  /\ Grows(t, u)
  /\ \A i \in DOMAIN ty : i \in DOMAIN tz /\ tz[i] = ty[i]

LEMMA CoversStays ==
  ASSUME NEW t, NEW u, Grows(t, u), NEW r, NEW members, Covers(t, r, members)
  PROVE  Covers(u, r, members)
BY DEF Covers, Grows

LEMMA JudgedStays ==
  ASSUME NEW f, NEW t, NEW ty, NEW u, NEW tz, NEW b, NEW x,
         Later(t, ty, u, tz), \A i \in DOMAIN ty : ty[i] \in DOMAIN t.types, Judged(f, t, ty, b, x)
  PROVE  Judged(f, u, tz, b, x)
<1>1. Grows(t, u) /\ \A i \in DOMAIN ty : i \in DOMAIN tz /\ tz[i] = ty[i]
  BY DEF Later
<1>2. /\ x.op \in CgOps
      /\ "ret" \in DOMAIN x <=> x.op \in Giving
      /\ x.op \in Giving => x.ret \in DOMAIN tz /\ InBlock(f, x.ret, b)
      /\ \A i \in Reads(x) : InBlock(f, i, b) /\ (x.op \notin Jumps => i \in DOMAIN tz)
  BY <1>1 DEF Judged
<1>3. x.op = "Const" => x.cst[1] \in DOMAIN ClassOf /\ tz[x.ret] = ConstantType(x.cst)
  BY <1>1 DEF Judged, Giving
<1>4. x.op = "Use" => IsCallableKind(KindOf(u, tz[x.ret]))
  BY <1>1 DEF Judged, Giving, Grows
<1>5. x.op = "Call" =>
       /\ x.value \in DOMAIN Globals
       /\ tz[x.ret] = Tag[Globals[x.value].ret]
       /\ x.args \in Seq(Nat) /\ Len(x.args) = Len(Globals[x.value].params)
       /\ \A n \in DOMAIN x.args : \/ Globals[x.value].params[n] \in {"TSelf", "Unknown"}
                                   \/ tz[x.args[n]] = Tag[Globals[x.value].params[n]]
  <2>1. SUFFICES ASSUME x.op = "Call"
                 PROVE  /\ x.value \in DOMAIN Globals
                        /\ tz[x.ret] = Tag[Globals[x.value].ret]
                        /\ x.args \in Seq(Nat) /\ Len(x.args) = Len(Globals[x.value].params)
                        /\ \A n \in DOMAIN x.args : tz[x.args[n]] = ty[x.args[n]]
    BY DEF Judged
  <2>2. \A n \in DOMAIN x.args : x.args[n] \in Reads(x)
    BY <2>1 DEF Reads, ToSet
  <2>3. \A n \in DOMAIN x.args : tz[x.args[n]] = ty[x.args[n]]
    BY <1>1, <2>1, <2>2 DEF Judged, Jumps
  <2>4. QED
    BY <1>1, <2>1, <2>3 DEF Judged, Giving
<1>6. x.op = "FieldLoad" =>
       /\ tz[x.orig] = x.orig_t
       /\ IsTupleKind(KindOf(u, x.orig_t))
       /\ Covers(u, tz[x.ret], KindOf(u, x.orig_t).tuple)
  <2>1. SUFFICES ASSUME x.op = "FieldLoad"
                 PROVE  /\ tz[x.orig] = x.orig_t
                        /\ IsTupleKind(KindOf(u, x.orig_t))
                        /\ Covers(u, tz[x.ret], KindOf(u, x.orig_t).tuple)
    OBVIOUS
  <2>2. x.orig \in DOMAIN ty /\ x.ret \in DOMAIN ty
    BY <2>1 DEF Judged, Reads, Giving, Jumps
  <2>3. /\ ty[x.orig] = x.orig_t /\ IsTupleKind(KindOf(t, x.orig_t))
        /\ Covers(t, ty[x.ret], KindOf(t, x.orig_t).tuple)
    BY <2>1 DEF Judged
  <2>4. x.orig_t \in DOMAIN t.types
    BY <2>2, <2>3
  <2>5. KindOf(u, x.orig_t) = KindOf(t, x.orig_t)
    BY <1>1, <2>4 DEF Grows
  <2>6. QED
    BY <1>1, <2>2, <2>3, <2>5, CoversStays
<1>7. x.op = "Alloc" =>
       /\ tz[x.ret] = x.type_id
       /\ x.ilist \in Seq(Nat)
       /\ KindOf(u, x.type_id) = TupleKind([n \in DOMAIN x.ilist |-> tz[x.ilist[n]]])
  <2>1. SUFFICES ASSUME x.op = "Alloc"
                 PROVE  /\ tz[x.ret] = x.type_id
                        /\ x.ilist \in Seq(Nat)
                        /\ KindOf(u, x.type_id) = TupleKind([n \in DOMAIN x.ilist |-> tz[x.ilist[n]]])
    OBVIOUS
  <2>2. x.ret \in DOMAIN ty /\ \A n \in DOMAIN x.ilist : x.ilist[n] \in DOMAIN ty
    BY <2>1 DEF Judged, Reads, Giving, Jumps, ToSet
  <2>3. ty[x.ret] = x.type_id /\ KindOf(t, x.type_id) = TupleKind([n \in DOMAIN x.ilist |-> ty[x.ilist[n]]])
    BY <2>1 DEF Judged
  <2>4. [n \in DOMAIN x.ilist |-> tz[x.ilist[n]]] = [n \in DOMAIN x.ilist |-> ty[x.ilist[n]]]
    BY <1>1, <2>2
  <2>5. KindOf(u, x.type_id) = KindOf(t, x.type_id)
    BY <1>1, <2>2, <2>3 DEF Grows
  <2>6. QED
    BY <1>1, <2>1, <2>2, <2>3, <2>4, <2>5 DEF Judged
<1>8. x.op = "Return" => tz[x.value] = Tag[f.ret]
  <2>1. x.op = "Return" => x.value \in DOMAIN ty
    BY DEF Judged, Reads, Jumps
  <2>2. QED
    BY <1>1, <2>1 DEF Judged
<1>9. QED
  BY <1>2, <1>3, <1>4, <1>5, <1>6, <1>7, <1>8 DEF Judged

-----------------------------------------------------------------------------
(* Properties of types.                                                    *)

\* A property of a type of kind k: a slot of a tuple, whose items cover the members of it,
\* or the method of a builtin class.
PropertyOK(t, k, name, p) ==
  /\ p.type_id \in DOMAIN t.types
  /\ \/ /\ IsTupleKind(k) /\ DOMAIN p.value # {"id"}
        /\ name = "getitem" => /\ IsCallableKind(KindOf(t, p.type_id))
                               /\ Covers(t, KindOf(t, p.type_id).ret, k.tuple)
     \/ \E m \in DOMAIN Methods :
          /\ name = m[2] /\ k = TypeKind(Tag[m[1]])
          /\ p.value = [id |-> Methods[m]]
          /\ KindOf(t, p.type_id) = SignatureKind(Methods[m])
\* A function returns a type of the table.
Returns(t, k) == IsCallableKind(k) => k.ret \in DOMAIN t.types
PropertiesOK(t) ==
  \A i \in DOMAIN t.types :
    /\ Returns(t, KindOf(t, i))
    /\ \A name \in DOMAIN t.types[i].properties :
         PropertyOK(t, KindOf(t, i), name, t.types[i].properties[name])

LEMMA PropertyStays ==
  ASSUME NEW t, NEW u, Grows(t, u), NEW k, NEW name, NEW p, PropertyOK(t, k, name, p)
  PROVE  PropertyOK(u, k, name, p)
<1>1. p.type_id \in DOMAIN u.types /\ KindOf(u, p.type_id) = KindOf(t, p.type_id)
  BY DEF PropertyOK, Grows
<1>2. \A r, members : Covers(t, r, members) => Covers(u, r, members)
  BY CoversStays
<1>3. QED
  BY <1>1, <1>2 DEF PropertyOK

\* A type that is inserted has no properties, and the other types keep theirs.
LEMMA InsertKeepsProperties ==
  ASSUME NEW t, NEW k, TableOK(t), PropertiesOK(t), MembersBelow(t, k, t.next_free), Returns(t, k)
  PROVE  PropertiesOK(Insert(t, Plain(k)))
<1> DEFINE u == Insert(t, Plain(k))
           n == t.next_free
<1>1. Grows(t, u)
  BY InsertOK
<1>2. \A i \in DOMAIN u.types : \/ i \in DOMAIN t.types /\ u.types[i] = t.types[i]
                                \/ DOMAIN u.types[i].properties = {} /\ KindOf(u, i) = k
  <2>1. CASE Plain(k) \in DOMAIN t.clobber
    BY <2>1 DEF Insert, Answer
  <2>2. CASE Plain(k) \notin DOMAIN t.clobber
    <3>1. u.types = Put(t.types, n, Plain(k))
      BY <2>2 DEF Insert
    <3>2. DOMAIN Plain(k).properties = {} /\ Plain(k).kind = k
      BY PlainKind DEF NoProperties
    <3> HIDE DEF u, n
    <3>3. QED
      BY <3>1, <3>2 DEF Put, KindOf
  <2>3. QED
    BY <2>1, <2>2
<1> HIDE DEF u
<1>3. ASSUME NEW i \in DOMAIN u.types PROVE Returns(u, KindOf(u, i))
  <2>1. i \in DOMAIN t.types => KindOf(u, i) = KindOf(t, i) /\ Returns(t, KindOf(t, i))
    BY <1>1 DEF Grows, PropertiesOK
  <2>2. i \notin DOMAIN t.types => KindOf(u, i) = k
    BY <1>2
  <2>3. QED
    BY <1>1, <2>1, <2>2 DEF Grows, Returns
<1>4. ASSUME NEW i \in DOMAIN u.types, NEW name \in DOMAIN u.types[i].properties
      PROVE  PropertyOK(u, KindOf(u, i), name, u.types[i].properties[name])
  <2>1. i \in DOMAIN t.types /\ u.types[i] = t.types[i]
    BY <1>2, <1>4
  <2>2. KindOf(u, i) = KindOf(t, i)
    BY <2>1 DEF KindOf
  <2>3. PropertyOK(t, KindOf(t, i), name, t.types[i].properties[name])
    BY <1>4, <2>1 DEF PropertiesOK
  <2>4. QED
    BY <1>1, <2>1, <2>2, <2>3, PropertyStays
<1>5. QED
  BY <1>3, <1>4 DEF PropertiesOK, u

LEMMA InsertPropertyKeepsProperties ==
  ASSUME NEW t, NEW base \in DOMAIN t.types, NEW name, NEW p, TableOK(t), PropertiesOK(t),
         PropertyOK(t, KindOf(t, base), name, p), ~IsClassKind(KindOf(t, base))
  PROVE  PropertiesOK(InsertProperty(t, base, name, p))
<1> DEFINE u == InsertProperty(t, base, name, p)
           props == Put(t.types[base].properties, name, p)
           ty == [kind |-> KindOf(t, base), properties |-> props]
<1>1. Grows(t, u)
  BY InsertPropertyOK
<1>2. u.types = Put(t.types, base, ty)
  BY DEF InsertProperty
<1>3. ty.kind = KindOf(t, base) /\ ty.properties = props
  OBVIOUS
<1>4. /\ DOMAIN props = DOMAIN t.types[base].properties \cup {name}
      /\ props[name] = p
      /\ \A x \in DOMAIN t.types[base].properties : x # name => props[x] = t.types[base].properties[x]
  BY DEF Put
<1> HIDE DEF props, ty, u
<1>5. /\ DOMAIN u.types = DOMAIN t.types
      /\ u.types[base] = ty
      /\ \A i \in DOMAIN t.types : i # base => u.types[i] = t.types[i]
  BY <1>2 DEF Put
<1>6. ASSUME NEW i \in DOMAIN u.types, NEW x \in DOMAIN u.types[i].properties
      PROVE  PropertyOK(u, KindOf(u, i), x, u.types[i].properties[x])
  <2>1. KindOf(u, i) = KindOf(t, i)
    BY <1>3, <1>5 DEF KindOf
  <2>2. PropertyOK(t, KindOf(t, i), x, u.types[i].properties[x])
    <3>1. CASE i = base /\ x = name
      BY <1>3, <1>4, <1>5, <3>1
    <3>2. CASE i = base /\ x # name
      BY <1>3, <1>4, <1>5, <1>6, <3>2 DEF PropertiesOK
    <3>3. CASE i # base
      BY <1>5, <1>6, <3>3 DEF PropertiesOK
    <3>4. QED
      BY <3>1, <3>2, <3>3
  <2>3. QED
    BY <1>1, <2>1, <2>2, PropertyStays
<1>7. ASSUME NEW i \in DOMAIN u.types PROVE Returns(u, KindOf(u, i))
  BY <1>1, <1>5 DEF Grows, PropertiesOK, Returns
<1>8. QED
  BY <1>6, <1>7 DEF PropertiesOK, u

LEMMA AnswerKeepsProperties ==
  ASSUME NEW t, NEW i, TableOK(t), PropertiesOK(t)
  PROVE  PropertiesOK(Answer(t, i))
<1> DEFINE u == Answer(t, i)
<1>1. u.types = t.types
  BY DEF Answer
<1>2. Grows(t, u)
  BY AnswerOK
<1> HIDE DEF u
<1>3. QED
  BY <1>1, <1>2, PropertyStays DEF PropertiesOK, Returns, KindOf, u

\* The signature of a function of the module.
LEMMA SignatureOK ==
  ASSUME NEW t, TableOK(t), PropertiesOK(t), NEW g \in DOMAIN Globals
  PROVE  /\ TableOK(Signature(t, g)) /\ PropertiesOK(Signature(t, g)) /\ Grows(t, Signature(t, g))
         /\ Signature(t, g).id \in DOMAIN Signature(t, g).types
         /\ KindOf(Signature(t, g), Signature(t, g).id) = SignatureKind(g)
<1> DEFINE k == SignatureKind(g)
<1>1. Signature(t, g) = Insert(t, Plain(k))
  BY DEF Signature, Callable, SignatureKind
<1>2. DOMAIN k = {"params", "ret"} /\ k.ret = Tag[Globals[g].ret]
  BY DEF SignatureKind, CallableKind
<1> HIDE DEF k
<1>3. MembersBelow(t, k, t.next_free) /\ Returns(t, k)
  BY <1>2, GlobalsAssumption DEF MembersBelow, IsTupleKind, IsUnionKind, Returns, TableOK, Builtins
<1>4. QED
  BY <1>1, <1>3, InsertOK, InsertKeepsProperties DEF k

LEMMA SignatureKindOK ==
  ASSUME NEW g
  PROVE  /\ IsCallableKind(SignatureKind(g)) /\ SignatureKind(g).ret = Tag[Globals[g].ret]
         /\ SignatureKind(g).params = [i \in DOMAIN Globals[g].params |-> Tag[Globals[g].params[i]]]
BY DEF SignatureKind, CallableKind, IsCallableKind

LEMMA TypeKindIs ==
  ASSUME NEW t, TableOK(t), PropertiesOK(t), NEW i
  PROVE  /\ TableOK(Insert(t, Plain(TypeKind(i)))) /\ PropertiesOK(Insert(t, Plain(TypeKind(i))))
         /\ Grows(t, Insert(t, Plain(TypeKind(i))))
         /\ Insert(t, Plain(TypeKind(i))).id \in DOMAIN Insert(t, Plain(TypeKind(i))).types
         /\ KindOf(Insert(t, Plain(TypeKind(i))), Insert(t, Plain(TypeKind(i))).id) = TypeKind(i)
<1> DEFINE k == TypeKind(i)
<1>1. DOMAIN k = {"of"}
  BY DEF TypeKind
<1>2. {"of"} # {"union"} /\ {"of"} # {"tuple"} /\ {"of"} # {"params", "ret"}
  OBVIOUS
<1> HIDE DEF k
<1>3. MembersBelow(t, k, t.next_free) /\ Returns(t, k)
  BY <1>1, <1>2 DEF MembersBelow, IsTupleKind, IsUnionKind, Returns, IsCallableKind
<1>4. QED
  BY <1>3, InsertOK, InsertKeepsProperties DEF k

\* Methods are properties of the type of their class.
LEMMA WithMethodOK ==
  ASSUME NEW t, TableOK(t), PropertiesOK(t), NEW m \in DOMAIN Methods
  PROVE  TableOK(WithMethod(t, m)) /\ PropertiesOK(WithMethod(t, m))
<1> DEFINE method == Signature(t, Methods[m])
           base == Insert(method, Plain(TypeKind(Tag[m[1]])))
           p == Property(method.id, Methods[m])
<1>1. WithMethod(t, m) = InsertProperty(base, base.id, m[2], p)
  BY DEF WithMethod
<1>2. /\ TableOK(method) /\ PropertiesOK(method)
      /\ method.id \in DOMAIN method.types
      /\ KindOf(method, method.id) = SignatureKind(Methods[m])
  BY SignatureOK, GlobalsAssumption
<1>3. p.type_id = method.id /\ p.value = [id |-> Methods[m]]
  BY DEF Property
<1> HIDE DEF method, p
<1>4. /\ TableOK(base) /\ PropertiesOK(base) /\ Grows(method, base)
      /\ base.id \in DOMAIN base.types /\ KindOf(base, base.id) = TypeKind(Tag[m[1]])
  BY <1>2, TypeKindIs
<1> HIDE DEF base
<1>5. PropertyOK(base, KindOf(base, base.id), m[2], p)
  BY <1>2, <1>3, <1>4 DEF PropertyOK, Grows
<1>6. ~IsClassKind(KindOf(base, base.id))
  <2>1. {"of"} # {"class"}
    OBVIOUS
  <2>2. QED
    BY <1>4, <2>1 DEF TypeKind, IsClassKind
<1>7. QED
  BY <1>1, <1>4, <1>5, <1>6, InsertPropertyOK, InsertPropertyKeepsProperties

\* A finite set is listed by its members.
LEMMA ListsMembers ==
  ASSUME NEW S, IsFiniteSet(S)
  PROVE  SetToSeq(S) \in Seq(S)
<1>1. PICK n \in Nat : ExistsBijection(1 .. n, S)
  BY FS_NatBijection
<1>2. Cardinality(S) = n
  BY <1>1, FS_CountingElements
<1>3. PICK f : f \in Bijection(1 .. n, S)
  BY <1>1 DEF ExistsBijection
<1>4. f \in [1 .. Cardinality(S) -> S] /\ IsInjective(f)
  BY <1>2, <1>3 DEF Bijection, Injection
<1>5. SetToSeq(S) \in [1 .. Cardinality(S) -> S]
  BY <1>4, Zenon DEF SetToSeq
<1>6. QED
  BY <1>2, <1>5

LEMMA InitialProperties == PropertiesOK(Initialized)
<1>1. \A i \in DOMAIN Initialized.types : DOMAIN Initialized.types[i].properties = {}
  BY PlainKind DEF Initialized, NoProperties
<1>2. \A i \in DOMAIN Initialized.types : \E b : KindOf(Initialized, i) = Builtin(b)
  BY PlainKind DEF Initialized, KindOf
<1>3. \A b : ~IsCallableKind(Builtin(b))
  BY DEF IsCallableKind, Builtin
<1>4. QED
  BY <1>1, <1>2, <1>3 DEF PropertiesOK, Returns

\* initialize_hlirt
LEMMA MethodsEnteredOK == TableOK(MethodsEntered) /\ PropertiesOK(MethodsEntered)
<1> DEFINE ms == SetToSeq(DOMAIN Methods)
           N == Len(ms)
           Is(f, n) == f = [i \in 0 .. n |-> IF i = 0 THEN Initialized ELSE WithMethod(f[i - 1], ms[i])]
           S == {n \in Nat : \E f : Is(f, n)}
           f == CHOOSE f : Is(f, N)
           P == {n \in Nat : TableOK(f[n]) /\ PropertiesOK(f[n])}
<1>1. ms \in Seq(DOMAIN Methods)
  BY GlobalsAssumption, ListsMembers
<1>2. N \in Nat /\ \A i \in 1 .. N : ms[i] \in DOMAIN Methods
  BY <1>1
<1>3. MethodsEntered = f[N]
  BY DEF MethodsEntered
<1> HIDE DEF ms
<1>4. 0 \in S
  <2>1. Is([i \in 0 .. 0 |-> Initialized], 0)
    OBVIOUS
  <2>2. QED
    BY <2>1
<1>5. ASSUME NEW n \in 0 .. (N - 1), n \in S PROVE n + 1 \in S
  <2>1. PICK g : Is(g, n)
    BY <1>5
  <2> DEFINE h == [i \in 0 .. (n + 1) |-> IF i = n + 1 THEN WithMethod(g[n], ms[n + 1]) ELSE g[i]]
  <2>2. ASSUME NEW i \in 0 .. (n + 1)
        PROVE  h[i] = IF i = 0 THEN Initialized ELSE WithMethod(h[i - 1], ms[i])
    BY <2>1
  <2>3. Is(h, n + 1)
    BY <2>2
  <2> HIDE DEF h, Is
  <2>4. QED
    BY <2>3
<1>6. N \in S
  <2> HIDE DEF S, N
  <2>1. QED
    BY <1>2, <1>4, <1>5, UpTo
<1>7. Is(f, N)
  BY <1>6, Zenon
<1> HIDE DEF f
<1>8. 0 \in P
  <2>1. f[0] = Initialized
    BY <1>2, <1>7
  <2>2. QED
    BY <2>1, InitializedOK, InitialProperties
<1>9. ASSUME NEW n \in 0 .. (N - 1), n \in P PROVE n + 1 \in P
  <2>1. f[n + 1] = WithMethod(f[n], ms[n + 1]) /\ ms[n + 1] \in DOMAIN Methods
    BY <1>2, <1>7
  <2>2. QED
    BY <1>9, <2>1, WithMethodOK
<1>10. N \in P
  <2> HIDE DEF P, N
  <2>1. QED
    BY <1>2, <1>8, <1>9, UpTo
<1>11. QED
  BY <1>3, <1>10

\* Looking a property up finds it on the type, or on the type of the type.
Carries(t, base, name) ==
  \/ name \in DOMAIN t.types[base].properties
  \/ \E k \in DOMAIN t.types : KindOf(t, k) = TypeKind(base) /\ name \in DOMAIN t.types[k].properties

LEMMA CarriesStays ==
  ASSUME NEW t, NEW u, Grows(t, u), NEW base \in DOMAIN t.types, NEW name, Carries(t, base, name)
  PROVE  Carries(u, base, name)
BY DEF Carries, Grows

LEMMA LookedOK ==
  ASSUME NEW t, TableOK(t), PropertiesOK(t), NEW base \in DOMAIN t.types, NEW name
  PROVE  /\ TableOK(Looked(t, base, name)) /\ PropertiesOK(Looked(t, base, name))
         /\ Grows(t, Looked(t, base, name))
         /\ HasProperty(t, base, name) => Carries(Looked(t, base, name), base, name)
         /\ Carries(t, base, name) => HasProperty(t, base, name)
<1> DEFINE u == Looked(t, base, name)
<1>1. CASE name \in DOMAIN t.types[base].properties
  <2>1. u = t
    BY <1>1 DEF Looked
  <2>2. HasProperty(t, base, name) /\ Carries(t, base, name)
    BY <1>1 DEF HasProperty, Carries
  <2>3. QED
    BY <2>1, <2>2, GrowsStutters
<1>2. CASE name \notin DOMAIN t.types[base].properties
  <2>1. u = Insert(t, Plain(TypeKind(base)))
    BY <1>2 DEF Looked
  <2>2. /\ TableOK(u) /\ PropertiesOK(u) /\ Grows(t, u)
        /\ u.id \in DOMAIN u.types /\ KindOf(u, u.id) = TypeKind(base)
    BY <2>1, TypeKindIs
  <2>3. HasProperty(t, base, name) <=> name \in DOMAIN u.types[u.id].properties
    BY <1>2 DEF HasProperty
  <2> HIDE DEF u
  <2>4. ASSUME Carries(t, base, name) PROVE HasProperty(t, base, name)
    <3>1. PICK k \in DOMAIN t.types : KindOf(t, k) = TypeKind(base) /\ name \in DOMAIN t.types[k].properties
      BY <1>2, <2>4 DEF Carries
    <3>2. k \in DOMAIN u.types /\ KindOf(u, k) = TypeKind(base) /\ name \in DOMAIN u.types[k].properties
      BY <2>2, <3>1 DEF Grows
    <3>3. k = u.id
      <4>1. {"of"} # {"class"}
        OBVIOUS
      <4>2. ~IsClassKind(TypeKind(base))
        BY <4>1 DEF TypeKind, IsClassKind
      <4>3. QED
        BY <2>2, <3>2, <4>2, OneId
    <3>4. QED
      BY <2>3, <3>2, <3>3
  <2>5. HasProperty(t, base, name) => Carries(u, base, name)
    BY <2>2, <2>3 DEF Carries
  <2>6. QED
    BY <2>2, <2>4, <2>5 DEF u
<1>3. QED
  BY <1>1, <1>2

\* The property that is found is one of the type, or of the type of the type.
LEMMA FoundProperty ==
  ASSUME NEW t, TableOK(t), PropertiesOK(t), NEW base \in DOMAIN t.types, NEW name,
         HasProperty(t, base, name)
  PROVE  \E k \in {KindOf(t, base), TypeKind(base)} :
           PropertyOK(Looked(t, base, name), k, name, GetProperty(t, base, name))
<1> DEFINE u == Looked(t, base, name)
<1>1. CASE name \in DOMAIN t.types[base].properties
  <2>1. u = t /\ GetProperty(t, base, name) = t.types[base].properties[name]
    BY <1>1 DEF Looked, GetProperty
  <2>2. QED
    BY <1>1, <2>1 DEF PropertiesOK
<1>2. CASE name \notin DOMAIN t.types[base].properties
  <2>1. u = Insert(t, Plain(TypeKind(base)))
    BY <1>2 DEF Looked
  <2>2. /\ PropertiesOK(u) /\ u.id \in DOMAIN u.types /\ KindOf(u, u.id) = TypeKind(base)
    BY <2>1, TypeKindIs
  <2>3. name \in DOMAIN u.types[u.id].properties /\ GetProperty(t, base, name) = u.types[u.id].properties[name]
    BY <1>2 DEF HasProperty, GetProperty
  <2> HIDE DEF u
  <2>4. QED
    BY <2>2, <2>3 DEF PropertiesOK, u
<1>3. QED
  BY <1>1, <1>2

\* sort and dedup keep the members.
LEMMA SortedMembers ==
  ASSUME NEW b \in Nat, NEW I \in SUBSET (0 .. b)
  PROVE  ToSet(Sorted(I)) = I
<1> DEFINE s == Sorted(I)
           n == Cardinality(I)
<1>1. s \in SetToSeqs(I)
  BY SortedOK
<1>2. s \in [1 .. n -> I] /\ \A i, j \in 1 .. n : i # j => s[i] # s[j]
  BY <1>1 DEF SetToSeqs
<1>3. IsFiniteSet(I)
  <2>1. I \in SUBSET Nat /\ \A i \in I : i <= b
    OBVIOUS
  <2>2. QED
    BY <2>1, FS_BoundedSetOfNaturals
<1>4. n \in Nat
  BY <1>3, FS_CardinalityType
<1>5. Cardinality(1 .. n) = n
  BY <1>4, FS_Interval
<1> HIDE DEF s, n
<1>6. s \in Injection(1 .. n, I)
  BY <1>2 DEF Injection, IsInjective
<1>7. s \in Surjection(1 .. n, I)
  BY <1>3, <1>5, <1>6, FS_Injection DEF n
<1>8. \A x \in I : \E i \in 1 .. n : s[i] = x
  BY <1>7 DEF Surjection
<1>9. QED
  BY <1>2, <1>8 DEF ToSet, s

\* The type of the items of a tuple covers its members.
LEMMA ItemsIs ==
  ASSUME NEW t, TableOK(t), PropertiesOK(t), NEW members, Members(t, members)
  PROVE  /\ PropertiesOK(Items(t, members))
         /\ Covers(Items(t, members), Items(t, members).id, members)
<1> DEFINE uniq == Sorted(ToSet(members))
           k == UnionKind(uniq)
           w == Insert(t, Plain(k))
<1>1. t.next_free \in Nat /\ ToSet(members) \in SUBSET (0 .. t.next_free)
  BY DEF ToSet, Members, TableOK, IdsBelow
<1>2. uniq \in SetToSeqs(ToSet(members)) /\ uniq \in Seq(Nat) /\ ToSet(uniq) = ToSet(members)
  BY <1>1, SortedOK, SortedMembers
<1>3. uniq \in [1 .. Cardinality(ToSet(members)) -> ToSet(members)]
  BY <1>2 DEF SetToSeqs
<1>4. \A i \in DOMAIN uniq : uniq[i] \in DOMAIN t.types /\ uniq[i] < t.next_free
  BY <1>3 DEF ToSet, Members, TableOK, IdsBelow
<1>5. members = << >> => Len(uniq) # 1
  <2>1. SUFFICES ASSUME members = << >>, Len(uniq) = 1 PROVE FALSE
    OBVIOUS
  <2>2. ToSet(members) = {}
    BY <2>1 DEF ToSet
  <2> HIDE DEF uniq
  <2>3. uniq[1] \in ToSet(uniq)
    BY <1>2, <2>1 DEF ToSet
  <2>4. QED
    BY <1>2, <2>2, <2>3
<1>6. Items(t, members) = CASE members = << >> -> Answer(t, Tag.Never)
                            [] Len(uniq) = 1   -> Answer(t, uniq[1])
                            [] OTHER           -> w
  BY DEF Items
<1>7. DOMAIN k = {"union"} /\ k.union = uniq
  BY DEF UnionKind
<1> HIDE DEF uniq, k
<1>8. MembersBelow(t, k, t.next_free) /\ Returns(t, k)
  <2>1. {"union"} # {"tuple"} /\ {"union"} # {"params", "ret"}
    OBVIOUS
  <2>2. QED
    BY <1>2, <1>4, <1>7, <2>1 DEF MembersBelow, IsTupleKind, IsUnionKind, Returns, IsCallableKind
<1>9. /\ TableOK(w) /\ PropertiesOK(w) /\ w.id \in DOMAIN w.types /\ KindOf(w, w.id) = k
  BY <1>8, InsertOK, InsertKeepsProperties
<1> HIDE DEF w
<1>10. CASE members = << >>
  <2> DEFINE u == Answer(t, Tag.Never)
  <2>1. PropertiesOK(u) /\ u.types = t.types /\ u.id = Tag.Never
    BY AnswerKeepsProperties DEF Answer
  <2>2. Tag.Never \in DOMAIN t.types
    <3>1. "Never" \in DOMAIN Tag
      BY DEF Tag
    <3>2. QED
      BY <3>1 DEF TableOK, Builtins
  <2> HIDE DEF u
  <2>3. DOMAIN members = {}
    BY <1>10
  <2>4. QED
    BY <1>5, <1>6, <1>10, <2>1, <2>2, <2>3 DEF Covers, u
<1>11. CASE members # << >> /\ Len(uniq) = 1
  <2> DEFINE u == Answer(t, uniq[1])
  <2>1. PropertiesOK(u) /\ u.types = t.types /\ u.id = uniq[1]
    BY AnswerKeepsProperties DEF Answer
  <2>2. DOMAIN uniq = {1}
    BY <1>2, <1>11
  <2>3. \A n \in DOMAIN members : members[n] = uniq[1]
    BY <1>2, <2>2 DEF ToSet
  <2>4. uniq[1] \in DOMAIN t.types
    BY <1>4, <2>2
  <2> HIDE DEF u
  <2>5. QED
    BY <1>6, <1>11, <2>1, <2>3, <2>4 DEF Covers, u
<1>12. CASE members # << >> /\ Len(uniq) # 1
  <2>1. \A n \in DOMAIN members : members[n] \in ToSet(uniq)
    BY <1>2 DEF ToSet
  <2>2. QED
    BY <1>6, <1>7, <1>9, <1>12, <2>1 DEF Covers, IsUnionKind
<1>13. QED
  BY <1>10, <1>11, <1>12

\* A slot of a tuple.
LEMMA WithSlotIs ==
  ASSUME NEW t, TableOK(t), PropertiesOK(t), NEW tuple \in DOMAIN t.types, IsTupleKind(KindOf(t, tuple)),
         NEW name, NEW ps, NEW r \in DOMAIN t.types, name = "getitem" => Covers(t, r, KindOf(t, tuple).tuple)
  PROVE  PropertiesOK(WithSlot(t, tuple, name, CallableKind(ps, r)))
<1> DEFINE k == CallableKind(ps, r)
           u == Insert(t, Plain(k))
           p == SlotProperty(u.id, tuple, name)
<1>1. DOMAIN k = {"params", "ret"} /\ k.ret = r
  BY DEF CallableKind
<1>2. WithSlot(t, tuple, name, k) = InsertProperty(u, tuple, name, p)
  BY DEF WithSlot, Then
<1>3. p.type_id = u.id /\ DOMAIN p.value = {"slot_of", "slot"}
  BY DEF SlotProperty
<1> HIDE DEF k, p
<1>4. MembersBelow(t, k, t.next_free) /\ Returns(t, k)
  BY <1>1 DEF MembersBelow, IsTupleKind, IsUnionKind, Returns
<1>5. /\ TableOK(u) /\ PropertiesOK(u) /\ Grows(t, u) /\ u.id \in DOMAIN u.types /\ KindOf(u, u.id) = k
  BY <1>4, InsertOK, InsertKeepsProperties
<1> HIDE DEF u
<1>6. tuple \in DOMAIN u.types /\ KindOf(u, tuple) = KindOf(t, tuple)
  BY <1>5 DEF Grows
<1>7. name = "getitem" => Covers(u, r, KindOf(t, tuple).tuple)
  BY <1>5, CoversStays
<1>8. DOMAIN p.value # {"id"}
  <2>1. {"slot_of", "slot"} # {"id"}
    OBVIOUS
  <2>2. QED
    BY <1>3, <2>1
<1>9. PropertyOK(u, KindOf(u, tuple), name, p)
  BY <1>1, <1>3, <1>5, <1>6, <1>7, <1>8 DEF PropertyOK, IsCallableKind
<1>10. ~IsClassKind(KindOf(u, tuple))
  BY <1>6 DEF IsTupleKind, IsClassKind
<1>11. QED
  BY <1>2, <1>5, <1>6, <1>9, <1>10, InsertPropertyKeepsProperties DEF k

\* TypingContext::tuple
LEMMA TupleTypeIs ==
  ASSUME NEW t, TableOK(t), PropertiesOK(t), NEW members, Members(t, members)
  PROVE  LET u == TupleType(t, members) IN
         /\ TableOK(u) /\ PropertiesOK(u) /\ Grows(t, u)
         /\ u.id \in DOMAIN u.types /\ KindOf(u, u.id) = TupleKind(members)
<1> DEFINE k == TupleKind(members)
           t1 == Insert(t, Plain(k))
           t2 == Items(t1, members)
           item == IF members = << >> THEN Tag.AnyType ELSE t2.id
           t3 == WithSlot(t2, t1.id, "getitem", CallableKind(<<t1.id, Tag.Int>>, t2.id))
           t4 == WithSlot(t3, t1.id, "setitem", CallableKind(<<t1.id, Tag.Int, item>>, Tag.None))
           u == Answer(t4, t1.id)
<1>1. TupleType(t, members) = u
  BY DEF TupleType, WithSlots, Then
<1>2. DOMAIN k = {"tuple"} /\ k.tuple = members
  BY DEF TupleKind
<1> HIDE DEF k
<1>3. MembersBelow(t, k, t.next_free) /\ Returns(t, k)
  <2>1. {"union"} # {"tuple"} /\ {"params", "ret"} # {"tuple"}
    OBVIOUS
  <2>2. QED
    BY <1>2, <2>1 DEF MembersBelow, IsTupleKind, IsUnionKind, Members, TableOK, IdsBelow, Returns, IsCallableKind
<1>4. /\ TableOK(t1) /\ PropertiesOK(t1) /\ Grows(t, t1)
      /\ t1.id \in DOMAIN t1.types /\ KindOf(t1, t1.id) = k
  BY <1>3, InsertOK, InsertKeepsProperties
<1> DEFINE id == t1.id
<1> HIDE DEF t1
<1>5. Members(t1, members)
  BY <1>4 DEF Members, Grows
<1>6. TableOK(t2) /\ Grows(t1, t2) /\ PropertiesOK(t2) /\ Covers(t2, t2.id, members)
  BY <1>4, <1>5, ItemsOK, ItemsIs
<1> HIDE DEF t2, item
<1>7. id \in DOMAIN t2.types /\ KindOf(t2, id) = k /\ IsTupleKind(KindOf(t2, id))
  BY <1>2, <1>4, <1>6 DEF Grows, IsTupleKind
<1>8. TableOK(t3) /\ Grows(t2, t3)
  BY <1>6, <1>7, WithSlotOK
<1>9. PropertiesOK(t3)
  BY <1>2, <1>6, <1>7, WithSlotIs DEF Covers
<1> HIDE DEF t3
<1>10. id \in DOMAIN t3.types /\ KindOf(t3, id) = k /\ IsTupleKind(KindOf(t3, id))
  BY <1>7, <1>8 DEF Grows
<1>11. TableOK(t4) /\ Grows(t3, t4)
  BY <1>8, <1>10, WithSlotOK
<1>12. PropertiesOK(t4)
  <2>1. "setitem" # "getitem"
    OBVIOUS
  <2>2. Tag.None \in DOMAIN t3.types
    <3>1. "None" \in DOMAIN Tag
      BY DEF Tag
    <3>2. QED
      BY <1>8, <3>1 DEF TableOK, Builtins
  <2>3. QED
    BY <1>8, <1>9, <1>10, <2>1, <2>2, WithSlotIs
<1> HIDE DEF t4
<1>13. TableOK(u) /\ PropertiesOK(u) /\ Grows(t4, u) /\ u.id = id
  BY <1>11, <1>12, AnswerOK, AnswerKeepsProperties
<1> HIDE DEF u
<1>14. Grows(t, t3)
  BY <1>4, <1>6, <1>8, GrowsFurther
<1>15. Grows(t, u)
  BY <1>11, <1>13, <1>14, GrowsFurther
<1>16. u.id \in DOMAIN u.types /\ KindOf(u, u.id) = k
  BY <1>10, <1>11, <1>13 DEF Grows
<1>17. QED
  BY <1>1, <1>13, <1>15, <1>16 DEF k

-----------------------------------------------------------------------------
(* What the TypingMachine knows.                                           *)

\* Value i is the property `name` of value `object`: the item function of a tuple, or the
\* method of a builtin class.
PropertyAt(t, ty, i, object, name) ==
  /\ object \in DOMAIN ty /\ Carries(t, ty[object], name)
  /\ \/ /\ IsTupleKind(KindOf(t, ty[object]))
        /\ name = "getitem" => /\ IsCallableKind(KindOf(t, ty[i]))
                               /\ Covers(t, KindOf(t, ty[i]).ret, KindOf(t, ty[object]).tuple)
     \/ \E m \in DOMAIN Methods :
          /\ name = m[2]
          /\ ty[object] = Tag[m[1]] \/ KindOf(t, ty[object]) = TypeKind(Tag[m[1]])
          /\ KindOf(t, ty[i]) = SignatureKind(Methods[m])

\* The type of value i, by the instruction it is of.
ValueOK(f, t, ty, nl, i) ==
  /\ ty[i] \in DOMAIN t.types
  /\ f.code[i].op = "UseVar" => /\ i \in DOMAIN nl /\ nl[i] \in DOMAIN Globals
                                /\ KindOf(t, ty[i]) = SignatureKind(nl[i])
  /\ f.code[i].op = "GetDunder" => PropertyAt(t, ty, i, f.code[i].object, f.code[i].dunder)
  /\ f.code[i].op = "GetAttribute" => PropertyAt(t, ty, i, f.code[i].object, f.code[f.code[i].attr].name)

CodeOK(f, t, ty, b, s) == s \in Seq(ToSet(s)) /\ \A x \in ToSet(s) : Judged(f, t, ty, b, x)

\* Machine a, in block b of function f, after instructions D.
MachineOK(f, a, b, D) ==
  /\ DOMAIN a = {"tcx", "types", "nonlocals", "locals", "ix", "out", "verdict"}
  /\ TableOK(a.tcx) /\ PropertiesOK(a.tcx)
  /\ DOMAIN a.types \subseteq D
  /\ \A i \in DOMAIN a.types : ValueOK(f, a.tcx, a.types, a.nonlocals, i)
  /\ CodeOK(f, a.tcx, a.types, b, a.out)

LEMMA PropertyAtStays ==
  ASSUME NEW t, NEW ty, NEW u, NEW tz, Later(t, ty, u, tz), \A j \in DOMAIN ty : ty[j] \in DOMAIN t.types,
         NEW i \in DOMAIN ty, NEW object, NEW name, PropertyAt(t, ty, i, object, name)
  PROVE  PropertyAt(u, tz, i, object, name)
<1>1. Grows(t, u) /\ \A j \in DOMAIN ty : j \in DOMAIN tz /\ tz[j] = ty[j]
  BY DEF Later
<1>2. object \in DOMAIN ty /\ Carries(t, ty[object], name)
  BY DEF PropertyAt
<1>3. object \in DOMAIN tz /\ tz[object] = ty[object] /\ tz[i] = ty[i]
  BY <1>1, <1>2
<1>4. /\ KindOf(u, tz[object]) = KindOf(t, ty[object])
      /\ KindOf(u, tz[i]) = KindOf(t, ty[i])
  BY <1>1, <1>2, <1>3 DEF Grows
<1>5. Carries(u, tz[object], name)
  BY <1>1, <1>2, <1>3, CarriesStays
<1>6. \A r, members : Covers(t, r, members) => Covers(u, r, members)
  BY <1>1, CoversStays
<1>7. QED
  BY <1>3, <1>4, <1>5, <1>6 DEF PropertyAt

LEMMA ValueStays ==
  ASSUME NEW f, NEW t, NEW ty, NEW nl, NEW u, NEW tz, NEW nm,
         Later(t, ty, u, tz), \A j \in DOMAIN ty : ty[j] \in DOMAIN t.types,
         NEW i \in DOMAIN ty, i \in DOMAIN nl => i \in DOMAIN nm /\ nm[i] = nl[i],
         ValueOK(f, t, ty, nl, i)
  PROVE  ValueOK(f, u, tz, nm, i)
<1>1. Grows(t, u) /\ tz[i] = ty[i] /\ ty[i] \in DOMAIN t.types
  BY DEF Later
<1>2. tz[i] \in DOMAIN u.types /\ KindOf(u, tz[i]) = KindOf(t, ty[i])
  BY <1>1 DEF Grows
<1>3. f.code[i].op = "UseVar" => /\ i \in DOMAIN nm /\ nm[i] \in DOMAIN Globals
                                 /\ KindOf(u, tz[i]) = SignatureKind(nm[i])
  BY <1>2 DEF ValueOK
<1>4. f.code[i].op = "GetDunder" => PropertyAt(u, tz, i, f.code[i].object, f.code[i].dunder)
  BY PropertyAtStays DEF ValueOK
<1>5. f.code[i].op = "GetAttribute" => PropertyAt(u, tz, i, f.code[i].object, f.code[f.code[i].attr].name)
  BY PropertyAtStays DEF ValueOK
<1>6. QED
  BY <1>2, <1>3, <1>4, <1>5 DEF ValueOK

LEMMA CodeStays ==
  ASSUME NEW f, NEW t, NEW ty, NEW u, NEW tz, NEW b, NEW s, Later(t, ty, u, tz),
         \A j \in DOMAIN ty : ty[j] \in DOMAIN t.types, CodeOK(f, t, ty, b, s)
  PROVE  CodeOK(f, u, tz, b, s)
BY JudgedStays DEF CodeOK

\* Value i is given a type.
LEMMA TypedStep ==
  ASSUME NEW f, NEW a, NEW b, NEW D, MachineOK(f, a, b, D), NEW i, i \notin D,
         NEW r, DOMAIN r = DOMAIN a, r.out = a.out,
         TableOK(r.tcx), PropertiesOK(r.tcx), Grows(a.tcx, r.tcx),
         NEW x, r.types = Put(a.types, i, x),
         \A j \in DOMAIN a.nonlocals : j # i => j \in DOMAIN r.nonlocals /\ r.nonlocals[j] = a.nonlocals[j],
         Later(a.tcx, a.types, r.tcx, r.types) => ValueOK(f, r.tcx, r.types, r.nonlocals, i)
  PROVE  /\ MachineOK(f, r, b, D \cup {i})
         /\ Later(a.tcx, a.types, r.tcx, r.types)
<1> DEFINE t == a.tcx
           ty == a.types
           tz == r.types
<1>1. DOMAIN ty \subseteq D /\ \A j \in DOMAIN ty : ty[j] \in DOMAIN t.types
  BY DEF MachineOK, ValueOK
<1>2. DOMAIN tz = DOMAIN ty \cup {i} /\ \A j \in DOMAIN ty : j # i /\ tz[j] = ty[j]
  BY <1>1 DEF Put
<1>3. Later(t, ty, r.tcx, tz)
  BY <1>2 DEF Later
<1>4. \A j \in DOMAIN ty : ValueOK(f, r.tcx, tz, r.nonlocals, j)
  <2>1. TAKE j \in DOMAIN ty
  <2>2. ValueOK(f, t, ty, a.nonlocals, j)
    BY DEF MachineOK
  <2>3. j \in DOMAIN a.nonlocals => j \in DOMAIN r.nonlocals /\ r.nonlocals[j] = a.nonlocals[j]
    BY <1>2
  <2> HIDE DEF t, ty, tz
  <2>4. QED
    BY <1>1, <1>3, <2>2, <2>3, ValueStays
<1>5. CodeOK(f, r.tcx, tz, b, r.out)
  BY <1>1, <1>3, CodeStays DEF MachineOK
<1>6. QED
  BY <1>1, <1>2, <1>3, <1>4, <1>5 DEF MachineOK

\* No value is given a type.
LEMMA SilentStep ==
  ASSUME NEW f, NEW a, NEW b, NEW D, MachineOK(f, a, b, D), NEW i
  PROVE  MachineOK(f, a, b, D \cup {i}) /\ Later(a.tcx, a.types, a.tcx, a.types)
BY GrowsStutters DEF MachineOK, Later

LEMMA OneInstruction ==
  ASSUME NEW x
  PROVE  <<x>> \in Seq(ToSet(<<x>>)) /\ ToSet(<<x>>) = {x}
<1>1. ToSet(<<x>>) = {x}
  BY DEF ToSet
<1>2. QED
  BY <1>1

LEMMA TwoInstructions ==
  ASSUME NEW x, NEW y
  PROVE  <<x, y>> \in Seq(ToSet(<<x, y>>)) /\ ToSet(<<x, y>>) = {x, y}
<1> DEFINE s == <<x, y>>
<1>1. s \in Seq({x, y}) /\ DOMAIN s = {1, 2} /\ s[1] = x /\ s[2] = y
  OBVIOUS
<1> HIDE DEF s
<1>2. ToSet(s) = {x, y}
  BY <1>1 DEF ToSet
<1>3. QED
  BY <1>1, <1>2 DEF s

LEMMA Concatenated ==
  ASSUME NEW s, NEW r, s \in Seq(ToSet(s)), r \in Seq(ToSet(r))
  PROVE  s \o r \in Seq(ToSet(s \o r)) /\ ToSet(s \o r) = ToSet(s) \cup ToSet(r)
<1> DEFINE B == ToSet(s) \cup ToSet(r)
           c == s \o r
           n == Len(s)
           m == Len(r)
<1>1. n \in Nat /\ m \in Nat /\ DOMAIN s = 1 .. n /\ DOMAIN r = 1 .. m
  OBVIOUS
<1>2. s \in Seq(B) /\ r \in Seq(B)
  <2>1. (\A i \in 1 .. n : s[i] \in B) /\ (\A i \in 1 .. m : r[i] \in B)
    BY <1>1 DEF ToSet
  <2>2. s = [i \in 1 .. n |-> s[i]] /\ r = [i \in 1 .. m |-> r[i]]
    OBVIOUS
  <2> HIDE DEF B
  <2>3. QED
    BY <1>1, <2>1, <2>2
<1>3. /\ c \in Seq(B) /\ Len(c) = n + m
      /\ \A i \in 1 .. n : c[i] = s[i]
      /\ \A i \in 1 .. m : c[n + i] = r[i]
  <2> HIDE DEF B
  <2>1. QED
    BY <1>2
<1> HIDE DEF c, n, m
<1>4. DOMAIN c = 1 .. (n + m)
  BY <1>3
<1>5. ToSet(c) \subseteq B
  BY <1>3, <1>4 DEF ToSet
<1>6. \A x \in ToSet(s) : x \in ToSet(c)
  BY <1>1, <1>3, <1>4 DEF ToSet
<1>7. \A x \in ToSet(r) : x \in ToSet(c)
  <2>1. \A i \in 1 .. m : n + i \in 1 .. (n + m)
    BY <1>1
  <2>2. QED
    BY <1>1, <1>3, <1>4, <2>1 DEF ToSet
<1>8. ToSet(c) = B
  BY <1>5, <1>6, <1>7
<1>9. QED
  BY <1>3, <1>8 DEF c

LEMMA EmitsFields ==
  ASSUME NEW f, NEW a, NEW b, NEW D, MachineOK(f, a, b, D), NEW s
  PROVE  /\ DOMAIN Emits(a, s) = DOMAIN a
         /\ Emits(a, s).tcx = a.tcx /\ Emits(a, s).types = a.types
         /\ Emits(a, s).nonlocals = a.nonlocals /\ Emits(a, s).verdict = a.verdict
         /\ Emits(a, s).out = a.out \o s
BY DEF Emits, MachineOK

\* Code is emitted.
LEMMA EmitStep ==
  ASSUME NEW f, NEW a, NEW b, NEW D, MachineOK(f, a, b, D), NEW s, s \in Seq(ToSet(s)),
         \A x \in ToSet(s) : Judged(f, a.tcx, a.types, b, x)
  PROVE  MachineOK(f, Emits(a, s), b, D)
<1> DEFINE r == Emits(a, s)
<1>1. /\ DOMAIN r = DOMAIN a /\ r.tcx = a.tcx /\ r.types = a.types
      /\ r.nonlocals = a.nonlocals /\ r.out = a.out \o s
  BY EmitsFields
<1> HIDE DEF r
<1>2. CodeOK(f, a.tcx, a.types, b, a.out)
  BY DEF MachineOK
<1>3. CodeOK(f, a.tcx, a.types, b, r.out)
  <2> DEFINE o == a.out
  <2> HIDE DEF o
  <2>1. o \in Seq(ToSet(o)) /\ \A x \in ToSet(o) : Judged(f, a.tcx, a.types, b, x)
    BY <1>2 DEF CodeOK, o
  <2>2. o \o s \in Seq(ToSet(o \o s)) /\ ToSet(o \o s) = ToSet(o) \cup ToSet(s)
    BY <2>1, Concatenated
  <2>3. CodeOK(f, a.tcx, a.types, b, o \o s)
    BY <2>1, <2>2 DEF CodeOK
  <2>4. QED
    BY <1>1, <2>3 DEF o
<1>4. QED
  BY <1>1, <1>3 DEF MachineOK, r

-----------------------------------------------------------------------------
(* Steps of the TypingMachine.                                             *)

\* Machine a is about to analyse instruction i, and machine r has.
Ready(f, a, b, D, i) ==
  /\ FlatOK(f) /\ InBlock(f, i, b) /\ f.code[b].op # "PhiRecv"
  /\ MachineOK(f, a, b, D) /\ i \notin D
AfterStep(f, a, r, b, D, i) ==
  MachineOK(f, r, b, D \cup {i}) /\ Later(a.tcx, a.types, r.tcx, r.types)

LEMMA OperandInBlock ==
  ASSUME NEW f, NEW b, NEW i, FlatOK(f), InBlock(f, i, b), f.code[b].op # "PhiRecv",
         NEW v \in Operands(f.code[i])
  PROVE  InBlock(f, v, b)
BY DEF FlatOK, InBlock

LEMMA EmitAfter ==
  ASSUME NEW f, NEW a, NEW r, NEW b, NEW D, NEW i, AfterStep(f, a, r, b, D, i),
         NEW s, s \in Seq(ToSet(s)), \A x \in ToSet(s) : Judged(f, r.tcx, r.types, b, x)
  PROVE  AfterStep(f, a, Emits(r, s), b, D, i)
<1>1. MachineOK(f, r, b, D \cup {i}) /\ Later(a.tcx, a.types, r.tcx, r.types)
  BY DEF AfterStep
<1>2. Emits(r, s).tcx = r.tcx /\ Emits(r, s).types = r.types
  BY <1>1, EmitsFields
<1>3. MachineOK(f, Emits(r, s), b, D \cup {i})
  BY <1>1, EmitStep
<1>4. QED
  BY <1>1, <1>2, <1>3 DEF AfterStep

LEMMA EmitOneAfter ==
  ASSUME NEW f, NEW a, NEW r, NEW b, NEW D, NEW i, AfterStep(f, a, r, b, D, i),
         NEW x, Judged(f, r.tcx, r.types, b, x)
  PROVE  AfterStep(f, a, Emits(r, <<x>>), b, D, i)
<1> DEFINE s == <<x>>
<1>1. s \in Seq(ToSet(s)) /\ \A y \in ToSet(s) : Judged(f, r.tcx, r.types, b, y)
  BY OneInstruction
<1> HIDE DEF s
<1>2. AfterStep(f, a, Emits(r, s), b, D, i)
  BY <1>1, EmitAfter
<1>3. QED
  BY <1>2 DEF s

LEMMA SilentAfter ==
  ASSUME NEW f, NEW a, NEW b, NEW D, NEW i, Ready(f, a, b, D, i)
  PROVE  AfterStep(f, a, a, b, D, i)
BY SilentStep DEF Ready, AfterStep

LEMMA JumpsJudged ==
  ASSUME NEW f, NEW t, NEW ty, NEW b, NEW to
  PROVE  /\ Judged(f, t, ty, b, Jump(to, << >>))
         /\ \A v : InBlock(f, v, b) => /\ Judged(f, t, ty, b, Jump(to, <<v>>))
                                       /\ Judged(f, t, ty, b, JumpIfTrue(to, v))
                                       /\ Judged(f, t, ty, b, JumpIfFalse(to, v))
<1>1. ASSUME NEW x, x.op \in Jumps, "ret" \notin DOMAIN x, \A v \in Reads(x) : InBlock(f, v, b)
      PROVE  Judged(f, t, ty, b, x)
  BY <1>1 DEF Judged, CgOps, Giving, Jumps
<1>2. Judged(f, t, ty, b, Jump(to, << >>))
  <2>1. Reads(Jump(to, << >>)) = {}
    BY DEF Reads, Jump, ToSet
  <2>2. Jump(to, << >>).op \in Jumps /\ "ret" \notin DOMAIN Jump(to, << >>)
    BY DEF Jump, Jumps
  <2>3. QED
    BY <1>1, <2>1, <2>2
<1>3. ASSUME NEW v, InBlock(f, v, b)
      PROVE  /\ Judged(f, t, ty, b, Jump(to, <<v>>))
             /\ Judged(f, t, ty, b, JumpIfTrue(to, v))
             /\ Judged(f, t, ty, b, JumpIfFalse(to, v))
  <2>1. Reads(Jump(to, <<v>>)) = {v}
    BY OneInstruction DEF Reads, Jump
  <2>2. Reads(JumpIfTrue(to, v)) = {v} /\ Reads(JumpIfFalse(to, v)) = {v}
    BY DEF Reads, JumpIfTrue, JumpIfFalse
  <2>3. Jump(to, <<v>>).op \in Jumps /\ "ret" \notin DOMAIN Jump(to, <<v>>)
    BY DEF Jump, Jumps
  <2>4. /\ JumpIfTrue(to, v).op \in Jumps /\ "ret" \notin DOMAIN JumpIfTrue(to, v)
        /\ JumpIfFalse(to, v).op \in Jumps /\ "ret" \notin DOMAIN JumpIfFalse(to, v)
    BY DEF JumpIfTrue, JumpIfFalse, Jumps
  <2>5. QED
    BY <1>1, <1>3, <2>1, <2>2, <2>3, <2>4
<1>4. QED
  BY <1>2, <1>3

LEMMA AnalyzeIfOK ==
  ASSUME NEW a, NEW b, NEW D, NEW i, Ready(fun, a, b, D, i), fun.code[i].op = "If"
  PROVE  AfterStep(fun, a, AnalyzeIf(a, fun.code[i]), b, D, i)
<1> DEFINE inst == fun.code[i]
           yes == JumpIfTrue(BlockOf(fun.code, inst.truthy), inst.test)
           no == BlockOf(fun.code, inst.falsey)
           neither == JumpIfFalse(no, inst.test)
           other == Jump(no, << >>)
<1>1. InBlock(fun, inst.test, b)
  BY OperandInBlock DEF Ready, Operands
<1>2. AfterStep(fun, a, a, b, D, i)
  BY SilentAfter
<1>3. /\ Judged(fun, a.tcx, a.types, b, yes)
      /\ Judged(fun, a.tcx, a.types, b, neither)
      /\ Judged(fun, a.tcx, a.types, b, other)
  BY <1>1, JumpsJudged
<1>4. AnalyzeIf(a, inst) = CASE inst.truthy = 0 /\ inst.falsey = 0 -> a
                             [] inst.truthy = 0 -> Emits(a, <<neither>>)
                             [] inst.falsey = 0 -> Emits(a, <<yes>>)
                             [] OTHER -> Emits(a, <<yes, Jump(no, << >>)>>)
  BY DEF AnalyzeIf, code
<1>5. yes.to = BlockOf(fun.code, inst.truthy)
  BY DEF JumpIfTrue
<1> HIDE DEF inst, yes, neither, other, no
<1>6. AfterStep(fun, a, Emits(a, <<neither>>), b, D, i) /\ AfterStep(fun, a, Emits(a, <<yes>>), b, D, i)
  BY <1>2, <1>3, EmitOneAfter
<1>7. AfterStep(fun, a, Emits(a, <<yes, other>>), b, D, i)
  <2>1. \A x \in ToSet(<<yes, other>>) : Judged(fun, a.tcx, a.types, b, x)
    BY <1>3, TwoInstructions
  <2>2. <<yes, other>> \in Seq(ToSet(<<yes, other>>))
    BY TwoInstructions
  <2>3. QED
    BY <1>2, <2>1, <2>2, EmitAfter
<1>8. AnalyzeIf(a, inst) \in {a, Emits(a, <<neither>>), Emits(a, <<yes>>), Emits(a, <<yes, other>>)}
  BY <1>4 DEF other
<1>9. QED
  BY <1>2, <1>6, <1>7, <1>8 DEF inst

LEMMA AnalyzeSetVarOK ==
  ASSUME NEW a, NEW b, NEW D, NEW i, Ready(fun, a, b, D, i), fun.code[i].op = "SetVar",
         AnalyzeSetVar(a, fun.code[i]).verdict = "ok"
  PROVE  AfterStep(fun, a, AnalyzeSetVar(a, fun.code[i]), b, D, i)
<1> DEFINE inst == fun.code[i]
           r == [a EXCEPT !.locals = @ \cup {inst.var}]
           x == WriteLocalVar(inst.var, inst.value)
<1>1. DOMAIN a = {"tcx", "types", "nonlocals", "locals", "ix", "out", "verdict"}
  BY DEF Ready, MachineOK
<1>2. Knows(a, <<inst.value>>) /\ AnalyzeSetVar(a, inst) = Emits(r, <<x>>)
  BY <1>1 DEF AnalyzeSetVar, Panics
<1>3. inst.value \in DOMAIN a.types
  BY <1>2, OneInstruction DEF Knows
<1>4. /\ DOMAIN r = DOMAIN a /\ r.tcx = a.tcx /\ r.types = a.types
      /\ r.nonlocals = a.nonlocals /\ r.out = a.out
  BY <1>1
<1>5. InBlock(fun, inst.value, b)
  BY OperandInBlock DEF Ready, Operands
<1>6. Judged(fun, a.tcx, a.types, b, x)
  <2>1. x.op = "WriteLocalVar" /\ DOMAIN x = {"op", "var", "orig"} /\ x.orig = inst.value
    BY DEF WriteLocalVar
  <2> HIDE DEF x
  <2>2. Reads(x) = {x.orig} /\ "ret" \notin DOMAIN x
    BY <2>1 DEF Reads
  <2>3. QED
    BY <1>3, <1>5, <2>1, <2>2 DEF Judged, CgOps, Giving
<1> HIDE DEF r, x, inst
<1>7. AfterStep(fun, a, r, b, D, i)
  <2>1. AfterStep(fun, a, a, b, D, i)
    BY SilentAfter
  <2>2. QED
    BY <1>4, <2>1 DEF AfterStep, MachineOK
<1>8. QED
  BY <1>2, <1>4, <1>6, <1>7, EmitOneAfter DEF inst

LEMMA AnalyzeReturnOK ==
  ASSUME NEW a, NEW b, NEW D, NEW i, Ready(fun, a, b, D, i), fun.code[i].op = "Return",
         AnalyzeReturn(a, fun.code[i]).verdict = "ok"
  PROVE  AfterStep(fun, a, AnalyzeReturn(a, fun.code[i]), b, D, i)
<1> DEFINE inst == fun.code[i]
           x == CgReturn(inst.value)
<1>1. DOMAIN a = {"tcx", "types", "nonlocals", "locals", "ix", "out", "verdict"}
  BY DEF Ready, MachineOK
<1>2. /\ Knows(a, <<inst.value>>) /\ a.types[inst.value] = Tag[fun.ret]
      /\ AnalyzeReturn(a, inst) = Emits(a, <<x>>)
  BY <1>1 DEF AnalyzeReturn, Panics, Fails
<1>3. inst.value \in DOMAIN a.types
  BY <1>2, OneInstruction DEF Knows
<1>4. InBlock(fun, inst.value, b)
  BY OperandInBlock DEF Ready, Operands
<1>5. Judged(fun, a.tcx, a.types, b, x)
  <2>1. x.op = "Return" /\ DOMAIN x = {"op", "value"} /\ x.value = inst.value
    BY DEF CgReturn
  <2> HIDE DEF x
  <2>2. Reads(x) = {x.value} /\ "ret" \notin DOMAIN x
    BY <2>1 DEF Reads
  <2>3. QED
    BY <1>2, <1>3, <1>4, <2>1, <2>2 DEF Judged, CgOps, Giving
<1> HIDE DEF x, inst
<1>6. QED
  BY <1>2, <1>5, SilentAfter, EmitOneAfter DEF inst

LEMMA AnalyzeUseVarOK ==
  ASSUME NEW a, NEW b, NEW D, NEW i, Ready(fun, a, b, D, i), fun.code[i].op = "UseVar",
         AnalyzeUseVar(a, i, fun.code[i]).verdict = "ok"
  PROVE  AfterStep(fun, a, AnalyzeUseVar(a, i, fun.code[i]), b, D, i)
<1> DEFINE inst == fun.code[i]
           t == Signature(a.tcx, inst.var)
           r == Typed([a EXCEPT !.tcx = t, !.nonlocals = Put(@, i, inst.var)], i, t.id)
           x == Use(inst.var, i)
<1>1. DOMAIN a = {"tcx", "types", "nonlocals", "locals", "ix", "out", "verdict"}
  BY DEF Ready, MachineOK
<1>2. inst.var \in DOMAIN Globals /\ AnalyzeUseVar(a, i, inst) = Emits(r, <<x>>)
  BY <1>1 DEF AnalyzeUseVar, Panics
<1>3. /\ TableOK(t) /\ PropertiesOK(t) /\ Grows(a.tcx, t)
      /\ t.id \in DOMAIN t.types /\ KindOf(t, t.id) = SignatureKind(inst.var)
  BY <1>2, SignatureOK DEF Ready, MachineOK
<1> HIDE DEF t
<1>4. /\ DOMAIN r = DOMAIN a /\ r.tcx = t /\ r.types = Put(a.types, i, t.id)
      /\ r.nonlocals = Put(a.nonlocals, i, inst.var) /\ r.out = a.out
  BY <1>1 DEF Typed
<1>5. inst.op = "UseVar"
  OBVIOUS
<1> HIDE DEF r, inst
<1>6. r.types[i] = t.id /\ i \in DOMAIN r.types /\ i \in DOMAIN r.nonlocals /\ r.nonlocals[i] = inst.var
  BY <1>4 DEF Put
<1>7. ValueOK(fun, r.tcx, r.types, r.nonlocals, i)
  BY <1>2, <1>3, <1>4, <1>5, <1>6 DEF ValueOK, inst
<1>8. \A j \in DOMAIN a.nonlocals : j # i => j \in DOMAIN r.nonlocals /\ r.nonlocals[j] = a.nonlocals[j]
  BY <1>4 DEF Put
<1>9. AfterStep(fun, a, r, b, D, i)
  BY <1>3, <1>4, <1>7, <1>8, TypedStep DEF Ready, AfterStep
<1>10. Judged(fun, r.tcx, r.types, b, x)
  <2>1. x.op = "Use" /\ DOMAIN x = {"op", "value", "ret"} /\ x.ret = i
    BY DEF Use
  <2> HIDE DEF x
  <2>2. Reads(x) = {} /\ "ret" \in DOMAIN x
    BY <2>1 DEF Reads
  <2>3. IsCallableKind(KindOf(r.tcx, r.types[i]))
    <3>1. IsCallableKind(SignatureKind(inst.var))
      BY SignatureKindOK
    <3>2. QED
      BY <1>3, <1>4, <1>6, <3>1
  <2>4. QED
    BY <1>6, <2>1, <2>2, <2>3 DEF Judged, CgOps, Giving, Jumps, Ready
<1> HIDE DEF x
<1>11. QED
  BY <1>2, <1>9, <1>10, EmitOneAfter DEF inst

LEMMA BuiltinId ==
  ASSUME NEW t, TableOK(t), NEW n \in DOMAIN Tag
  PROVE  Tag[n] \in DOMAIN t.types /\ KindOf(t, Tag[n]) = Builtin(n)
BY DEF TableOK, Builtins

\* A value of a builtin type.
LEMMA TypedBuiltin ==
  ASSUME NEW f, NEW a, NEW b, NEW D, NEW i, Ready(f, a, b, D, i), NEW n \in DOMAIN Tag,
         f.code[i].op \notin {"UseVar", "GetDunder", "GetAttribute"}
  PROVE  /\ AfterStep(f, a, Typed(a, i, Tag[n]), b, D, i)
         /\ i \in DOMAIN Typed(a, i, Tag[n]).types /\ Typed(a, i, Tag[n]).types[i] = Tag[n]
         /\ Typed(a, i, Tag[n]).verdict = a.verdict
<1> DEFINE r == Typed(a, i, Tag[n])
<1>1. /\ DOMAIN r = DOMAIN a /\ r.tcx = a.tcx /\ r.types = Put(a.types, i, Tag[n])
      /\ r.nonlocals = a.nonlocals /\ r.out = a.out /\ r.verdict = a.verdict
  BY DEF Ready, MachineOK, Typed
<1> HIDE DEF r
<1>2. i \in DOMAIN r.types /\ r.types[i] = Tag[n]
  BY <1>1 DEF Put
<1>3. TableOK(a.tcx) /\ PropertiesOK(a.tcx)
  BY DEF Ready, MachineOK
<1>4. ValueOK(f, r.tcx, r.types, r.nonlocals, i)
  BY <1>1, <1>2, <1>3, BuiltinId DEF ValueOK
<1>5. AfterStep(f, a, r, b, D, i)
  BY <1>1, <1>3, <1>4, TypedStep, GrowsStutters DEF Ready, AfterStep
<1>6. QED
  BY <1>1, <1>2, <1>5 DEF r

LEMMA ConstantTypes ==
  ASSUME NEW c \in DOMAIN ClassOf
  PROVE  ClassOf[c] \in DOMAIN Tag
BY DEF ClassOf, Tag

LEMMA AnalyzeConstOK ==
  ASSUME NEW a, NEW b, NEW D, NEW i, Ready(fun, a, b, D, i), fun.code[i].op = "Const"
  PROVE  AfterStep(fun, a, AnalyzeConst(a, i, fun.code[i]), b, D, i)
<1> DEFINE inst == fun.code[i]
           n == ClassOf[inst.cst[1]]
           r == Typed(a, i, Tag[n])
           x == CgConst(inst.cst, i)
<1>1. AnalyzeConst(a, i, inst) = Emits(r, <<x>>)
  BY DEF AnalyzeConst, ConstantType
<1>2. inst.cst[1] \in DOMAIN ClassOf
  BY DEF Ready, FlatOK, InBlock
<1>3. n \in DOMAIN Tag
  BY <1>2, ConstantTypes
<1>4. ConstantType(inst.cst) = Tag[n]
  BY DEF ConstantType
<1> HIDE DEF n
<1>5. AfterStep(fun, a, r, b, D, i) /\ i \in DOMAIN r.types /\ r.types[i] = Tag[n]
  BY <1>3, TypedBuiltin
<1> HIDE DEF r, inst
<1>6. Judged(fun, r.tcx, r.types, b, x)
  <2>1. x.op = "Const" /\ DOMAIN x = {"op", "cst", "ret"} /\ x.ret = i /\ x.cst = inst.cst
    BY DEF CgConst
  <2> HIDE DEF x
  <2>2. Reads(x) = {} /\ "ret" \in DOMAIN x
    BY <2>1 DEF Reads
  <2>3. QED
    BY <1>2, <1>4, <1>5, <2>1, <2>2 DEF Judged, CgOps, Giving, Jumps, Ready
<1> HIDE DEF x
<1>7. QED
  BY <1>1, <1>5, <1>6, EmitOneAfter DEF inst

\* GetAttribute and GetDunder.
LEMMA AnalyzePropertyOK ==
  ASSUME NEW a, NEW b, NEW D, NEW i, Ready(fun, a, b, D, i), NEW object, NEW name, NEW missing, missing # "ok",
         \/ /\ fun.code[i].op = "GetDunder"
            /\ object = fun.code[i].object /\ name = fun.code[i].dunder
         \/ /\ fun.code[i].op = "GetAttribute"
            /\ object = fun.code[i].object /\ name = fun.code[fun.code[i].attr].name,
         AnalyzeProperty(a, i, object, name, missing).verdict = "ok"
  PROVE  AfterStep(fun, a, AnalyzeProperty(a, i, object, name, missing), b, D, i)
<1> DEFINE base == a.types[object]
           t == Looked(a.tcx, base, name)
           p == GetProperty(a.tcx, base, name)
           r == Typed([a EXCEPT !.tcx = t], i, p.type_id)
<1>1. DOMAIN a = {"tcx", "types", "nonlocals", "locals", "ix", "out", "verdict"}
  BY DEF Ready, MachineOK
<1>2. /\ Knows(a, <<object>>) /\ HasProperty(a.tcx, base, name)
      /\ AnalyzeProperty(a, i, object, name, missing) = r
  BY <1>1 DEF AnalyzeProperty, Panics
<1>3. object \in DOMAIN a.types
  BY <1>2, OneInstruction DEF Knows
<1>4. base \in DOMAIN a.tcx.types
  BY <1>3 DEF Ready, MachineOK, ValueOK
<1>5. TableOK(a.tcx) /\ PropertiesOK(a.tcx) /\ DOMAIN a.types \subseteq D /\ i \notin D
  BY DEF Ready, MachineOK
<1>6. TableOK(t) /\ PropertiesOK(t) /\ Grows(a.tcx, t) /\ Carries(t, base, name)
  BY <1>2, <1>4, <1>5, LookedOK
<1>7. PICK k \in {KindOf(a.tcx, base), TypeKind(base)} : PropertyOK(t, k, name, p)
  BY <1>2, <1>4, <1>5, FoundProperty
<1>8. KindOf(t, base) = KindOf(a.tcx, base)
  BY <1>4, <1>6 DEF Grows
<1> HIDE DEF t, p
<1>9. /\ DOMAIN r = DOMAIN a /\ r.tcx = t /\ r.types = Put(a.types, i, p.type_id)
      /\ r.nonlocals = a.nonlocals /\ r.out = a.out
  BY <1>1 DEF Typed
<1> HIDE DEF r, base
<1>10. /\ r.types[i] = p.type_id /\ object \in DOMAIN r.types /\ r.types[object] = base
  BY <1>3, <1>5, <1>9 DEF Put, base
<1>11. p.type_id \in DOMAIN t.types
  BY <1>7 DEF PropertyOK
<1>12. PropertyAt(t, r.types, i, object, name)
  <2>1. CASE IsTupleKind(k) /\ (name = "getitem" => IsCallableKind(KindOf(t, p.type_id))
                                                  /\ Covers(t, KindOf(t, p.type_id).ret, k.tuple))
    <3>1. ~IsTupleKind(TypeKind(base))
      <4>1. {"of"} # {"tuple"}
        OBVIOUS
      <4>2. QED
        BY <4>1 DEF IsTupleKind, TypeKind
    <3>2. k = KindOf(t, base)
      BY <1>7, <1>8, <2>1, <3>1
    <3>3. QED
      BY <1>6, <1>10, <2>1, <3>2 DEF PropertyAt
  <2>2. CASE \E m \in DOMAIN Methods :
               /\ name = m[2] /\ k = TypeKind(Tag[m[1]])
               /\ KindOf(t, p.type_id) = SignatureKind(Methods[m])
    <3>1. PICK m \in DOMAIN Methods : /\ name = m[2] /\ k = TypeKind(Tag[m[1]])
                                      /\ KindOf(t, p.type_id) = SignatureKind(Methods[m])
      BY <2>2
    <3>2. TypeKind(base) = TypeKind(Tag[m[1]]) => base = Tag[m[1]]
      <4>1. TypeKind(base).of = base /\ TypeKind(Tag[m[1]]).of = Tag[m[1]]
        BY DEF TypeKind
      <4>2. QED
        BY <4>1
    <3>3. base = Tag[m[1]] \/ KindOf(t, base) = TypeKind(Tag[m[1]])
      BY <1>7, <1>8, <3>1, <3>2
    <3>4. QED
      BY <1>6, <1>10, <3>1, <3>3 DEF PropertyAt
  <2>3. QED
    BY <1>7, <2>1, <2>2 DEF PropertyOK
<1>13. ValueOK(fun, r.tcx, r.types, r.nonlocals, i)
  BY <1>9, <1>10, <1>11, <1>12 DEF ValueOK
<1>14. AfterStep(fun, a, r, b, D, i)
  BY <1>6, <1>9, <1>13, TypedStep DEF Ready, AfterStep
<1>15. QED
  BY <1>2, <1>14

LEMMA AnalyzeTupleOK ==
  ASSUME NEW a, NEW b, NEW D, NEW i, Ready(fun, a, b, D, i), fun.code[i].op = "Tuple",
         AnalyzeTuple(a, i, fun.code[i]).verdict = "ok"
  PROVE  AfterStep(fun, a, AnalyzeTuple(a, i, fun.code[i]), b, D, i)
<1> DEFINE inst == fun.code[i]
           es == inst.elems
           members == [n \in DOMAIN es |-> a.types[es[n]]]
           t == TupleType(a.tcx, members)
           r == Typed([a EXCEPT !.tcx = t], i, t.id)
           x == Alloc(t.id, es, i)
<1>1. DOMAIN a = {"tcx", "types", "nonlocals", "locals", "ix", "out", "verdict"}
  BY DEF Ready, MachineOK
<1>2. Knows(a, es) /\ AnalyzeTuple(a, i, inst) = Emits(r, <<x>>)
  BY <1>1 DEF AnalyzeTuple, Panics
<1>3. es \in Seq(Nat)
  BY DEF Ready, FlatOK, InBlock
<1>4. /\ TableOK(a.tcx) /\ PropertiesOK(a.tcx) /\ DOMAIN a.types \subseteq D /\ i \notin D
      /\ \A j \in DOMAIN a.types : a.types[j] \in DOMAIN a.tcx.types
  BY DEF Ready, MachineOK, ValueOK
<1>5. \A n \in DOMAIN es : es[n] \in DOMAIN a.types /\ InBlock(fun, es[n], b)
  <2>1. \A n \in DOMAIN es : es[n] \in Operands(inst)
    BY DEF Operands, ToSet
  <2>2. QED
    BY <1>2, <2>1, OperandInBlock DEF Ready, Knows, ToSet
<1>6. inst.op = "Tuple"
  OBVIOUS
<1> HIDE DEF es
<1>7. Members(a.tcx, members)
  <2>1. \A n \in DOMAIN es : members[n] \in DOMAIN a.tcx.types /\ members[n] \in Nat
    BY <1>4, <1>5 DEF TableOK, IdsBelow
  <2>2. DOMAIN es = 1 .. Len(es) /\ Len(es) \in Nat
    BY <1>3
  <2>3. DOMAIN members = DOMAIN es
    OBVIOUS
  <2>4. members \in Seq(Nat)
    BY <2>1, <2>2
  <2>5. QED
    BY <2>1, <2>3, <2>4 DEF Members
<1>8. /\ TableOK(t) /\ PropertiesOK(t) /\ Grows(a.tcx, t)
      /\ t.id \in DOMAIN t.types /\ KindOf(t, t.id) = TupleKind(members)
  <2> HIDE DEF members
  <2>1. QED
    BY <1>4, <1>7, TupleTypeIs
<1> HIDE DEF t
<1>9. /\ DOMAIN r = DOMAIN a /\ r.tcx = t /\ r.types = Put(a.types, i, t.id)
      /\ r.nonlocals = a.nonlocals /\ r.out = a.out
  BY <1>1 DEF Typed
<1> HIDE DEF r
<1>10. /\ i \in DOMAIN r.types /\ r.types[i] = t.id
       /\ \A j \in DOMAIN a.types : j # i /\ j \in DOMAIN r.types /\ r.types[j] = a.types[j]
  BY <1>4, <1>9 DEF Put
<1>11. ValueOK(fun, r.tcx, r.types, r.nonlocals, i)
  BY <1>6, <1>8, <1>9, <1>10 DEF ValueOK
<1>12. AfterStep(fun, a, r, b, D, i)
  BY <1>8, <1>9, <1>11, TypedStep DEF Ready, AfterStep
<1>13. [n \in DOMAIN es |-> r.types[es[n]]] = members
  BY <1>5, <1>10
<1> HIDE DEF members, inst
<1>14. Judged(fun, r.tcx, r.types, b, x)
  <2>1. x.op = "Alloc" /\ DOMAIN x = {"op", "type_id", "ilist", "ret"} /\ x.ret = i /\ x.ilist = es /\ x.type_id = t.id
    BY DEF Alloc
  <2> HIDE DEF x
  <2>2. Reads(x) = ToSet(es) /\ "ret" \in DOMAIN x
    BY <2>1 DEF Reads
  <2>3. \A j \in Reads(x) : InBlock(fun, j, b) /\ j \in DOMAIN r.types
    BY <1>5, <1>10, <2>2 DEF ToSet
  <2>4. InBlock(fun, i, b)
    BY DEF Ready
  <2>5. KindOf(r.tcx, x.type_id) = TupleKind([n \in DOMAIN x.ilist |-> r.types[x.ilist[n]]])
    BY <1>8, <1>9, <1>13, <2>1
  <2>6. x.op \in CgOps /\ x.op \in Giving
    BY <2>1 DEF CgOps, Giving
  <2>7. QED
    BY <1>3, <1>10, <2>1, <2>2, <2>3, <2>4, <2>5, <2>6 DEF Judged
<1> HIDE DEF x
<1>15. QED
  BY <1>2, <1>12, <1>14, EmitOneAfter DEF inst

LEMMA TagInjective == \A m, n \in DOMAIN Tag : Tag[m] = Tag[n] => m = n
BY DEF Tag

\* The method that is called is the one whose type was looked up.
LEMMA MethodFound ==
  ASSUME NEW t, TableOK(t), PropertiesOK(t), NEW ty, \A j \in DOMAIN ty : ty[j] \in DOMAIN t.types,
         NEW i \in DOMAIN ty, NEW object, NEW name, PropertyAt(t, ty, i, object, name),
         DOMAIN GetProperty(t, ty[object], name).value = {"id"}
  PROVE  LET g == GetProperty(t, ty[object], name).value.id
         IN  g \in DOMAIN Globals /\ KindOf(t, ty[i]) = SignatureKind(g)
<1> DEFINE base == ty[object]
           u == Looked(t, base, name)
           p == GetProperty(t, base, name)
           g == p.value.id
<1>1. object \in DOMAIN ty /\ base \in DOMAIN t.types /\ Carries(t, base, name)
  BY DEF PropertyAt
<1>2. TableOK(u) /\ PropertiesOK(u) /\ Grows(t, u) /\ HasProperty(t, base, name)
  BY <1>1, LookedOK
<1>3. PICK k \in {KindOf(t, base), TypeKind(base)} : PropertyOK(u, k, name, p)
  BY <1>1, <1>2, FoundProperty
<1>4. DOMAIN p.value = {"id"}
  OBVIOUS
<1> HIDE DEF u, p
<1>5. PICK m \in DOMAIN Methods : name = m[2] /\ k = TypeKind(Tag[m[1]]) /\ p.value = [id |-> Methods[m]]
  BY <1>3, <1>4 DEF PropertyOK
<1>6. g = Methods[m] /\ g \in DOMAIN Globals
  BY <1>5, GlobalsAssumption
<1>7. \A m2 \in DOMAIN Methods : m2[1] \in DOMAIN Tag /\ m2 = <<m2[1], m2[2]>>
  BY GlobalsAssumption
<1> DEFINE c == Tag[m[1]]
<1>8. /\ DOMAIN TypeKind(c) = {"of"} /\ TypeKind(c).of = c
      /\ DOMAIN TypeKind(base) = {"of"} /\ TypeKind(base).of = base
      /\ {"of"} # {"tuple"}
  BY DEF TypeKind
<1>9. KindOf(t, c) = Builtin(m[1]) /\ DOMAIN Builtin(m[1]) = {"builtin"} /\ {"builtin"} # {"tuple"} /\ {"builtin"} # {"of"}
  BY <1>7, BuiltinId DEF Builtin
<1>10. base = c \/ KindOf(t, base) = TypeKind(c)
  BY <1>3, <1>5, <1>8
<1>11. ~IsTupleKind(KindOf(t, base))
  BY <1>8, <1>9, <1>10 DEF IsTupleKind
<1>12. PICK m2 \in DOMAIN Methods :
         /\ name = m2[2]
         /\ base = Tag[m2[1]] \/ KindOf(t, base) = TypeKind(Tag[m2[1]])
         /\ KindOf(t, ty[i]) = SignatureKind(Methods[m2])
  BY <1>11 DEF PropertyAt
<1> DEFINE c2 == Tag[m2[1]]
<1>13. /\ KindOf(t, c2) = Builtin(m2[1]) /\ DOMAIN Builtin(m2[1]) = {"builtin"}
       /\ DOMAIN TypeKind(c2) = {"of"} /\ TypeKind(c2).of = c2
  BY <1>7, BuiltinId DEF Builtin, TypeKind
<1>14. c = c2
  <2>1. base = c2 \/ KindOf(t, base) = TypeKind(c2)
    BY <1>12
  <2> HIDE DEF base, c, c2
  <2>2. QED
    BY <1>8, <1>9, <1>10, <1>13, <2>1
<1>15. m[1] = m2[1]
  BY <1>7, <1>14, TagInjective
<1>16. m = m2
  BY <1>5, <1>7, <1>12, <1>15
<1>17. QED
  BY <1>6, <1>12, <1>16 DEF p

\* A call of a property of an object.
LEMMA AnalyzeMethodCallOK ==
  ASSUME NEW a, NEW b, NEW D, NEW i, Ready(fun, a, b, D, i), NEW inst, NEW callable \in DOMAIN a.types,
         NEW object, NEW name, PropertyAt(a.tcx, a.types, callable, object, name), InBlock(fun, object, b),
         NEW r, AfterStep(fun, a, r, b, D, i), DOMAIN r = DOMAIN a, r.tcx = a.tcx,
         i \in DOMAIN r.types, r.types[i] = KindOf(a.tcx, a.types[callable]).ret,
         \A g \in DOMAIN Globals : KindOf(a.tcx, a.types[callable]) = SignatureKind(g) =>
           Judged(fun, r.tcx, r.types, b, CgCall(g, inst.arguments, i)),
         AnalyzeMethodCall(r, i, inst, object, name).verdict = "ok"
  PROVE  AfterStep(fun, a, AnalyzeMethodCall(r, i, inst, object, name), b, D, i)
<1> DEFINE base == r.types[object]
           index == fun.code[inst.arguments[2]]
           field == IF index.op = "Const" /\ index.cst[1] = "int" THEN index.cst[2] + 1 ELSE 0
           p == GetProperty(r.tcx, base, name)
           x == FieldLoad(object, base, field, i)
           k == KindOf(a.tcx, a.types[callable])
           item == IsTupleKind(KindOf(r.tcx, base)) /\ name = "getitem"
           method == DOMAIN p.value = {"id"}
           call == CgCall(p.value.id, inst.arguments, i)
<1>1. DOMAIN r = {"tcx", "types", "nonlocals", "locals", "ix", "out", "verdict"}
  BY DEF Ready, MachineOK
<1>2. TableOK(a.tcx) /\ PropertiesOK(a.tcx) /\ \A j \in DOMAIN a.types : a.types[j] \in DOMAIN a.tcx.types
  BY DEF Ready, MachineOK, ValueOK
<1>3. object \in DOMAIN a.types /\ object \in DOMAIN r.types /\ base = a.types[object]
  BY DEF PropertyAt, AfterStep, Later
<1>4. AnalyzeMethodCall(r, i, inst, object, name) =
        IF item THEN Emits(r, <<x>>) ELSE IF method THEN Emits(r, <<call>>) ELSE Panics(r)
  BY DEF AnalyzeMethodCall, code
<1> HIDE DEF index, field
<1>5. CASE item
  <2>1. Covers(a.tcx, k.ret, KindOf(a.tcx, a.types[object]).tuple)
    <3>1. IsTupleKind(KindOf(a.tcx, a.types[object])) /\ name = "getitem"
      BY <1>3, <1>5
    <3>2. ASSUME NEW m \in DOMAIN Methods,
                 a.types[object] = Tag[m[1]] \/ KindOf(a.tcx, a.types[object]) = TypeKind(Tag[m[1]])
          PROVE  FALSE
      <4>1. m[1] \in DOMAIN Tag
        BY GlobalsAssumption
      <4>2. KindOf(a.tcx, Tag[m[1]]) = Builtin(m[1])
        BY <1>2, <4>1, BuiltinId
      <4>3. /\ DOMAIN Builtin(m[1]) = {"builtin"} /\ DOMAIN TypeKind(Tag[m[1]]) = {"of"}
            /\ {"builtin"} # {"tuple"} /\ {"of"} # {"tuple"}
        BY DEF Builtin, TypeKind
      <4>4. QED
        BY <3>1, <3>2, <4>2, <4>3 DEF IsTupleKind
    <3>3. QED
      BY <3>1, <3>2 DEF PropertyAt
  <2>2. Judged(fun, r.tcx, r.types, b, x)
    <3>1. /\ x.op = "FieldLoad" /\ DOMAIN x = {"op", "orig", "orig_t", "field", "ret"}
          /\ x.ret = i /\ x.orig = object /\ x.orig_t = base
      BY DEF FieldLoad
    <3> HIDE DEF x, base
    <3>2. Reads(x) = {object} /\ "ret" \in DOMAIN x
      BY <3>1 DEF Reads
    <3>3. x.op \in CgOps /\ x.op \in Giving
      BY <3>1 DEF CgOps, Giving
    <3>4. InBlock(fun, i, b)
      BY DEF Ready
    <3>5. Covers(r.tcx, r.types[i], KindOf(r.tcx, base).tuple)
      BY <1>3, <2>1
    <3>6. r.types[object] = base
      BY DEF base
    <3>7. IsTupleKind(KindOf(r.tcx, base))
      BY <1>5
    <3>8. QED
      BY <1>3, <3>1, <3>2, <3>3, <3>4, <3>5, <3>6, <3>7 DEF Judged
  <2> HIDE DEF x, item
  <2>3. QED
    BY <1>4, <1>5, <2>2, EmitOneAfter
<1>6. CASE ~item /\ method
  <2>1. p.value.id \in DOMAIN Globals /\ k = SignatureKind(p.value.id)
    BY <1>2, <1>3, <1>6, MethodFound
  <2>2. Judged(fun, r.tcx, r.types, b, call)
    BY <2>1
  <2> HIDE DEF call, item, method
  <2>3. QED
    BY <1>4, <1>6, <2>2, EmitOneAfter
<1>7. CASE ~item /\ ~method
  <2>1. AnalyzeMethodCall(r, i, inst, object, name) = Panics(r)
    BY <1>4, <1>7
  <2>2. QED
    BY <1>1, <2>1 DEF Panics
<1>8. QED
  BY <1>5, <1>6, <1>7

\* A call of a function that takes the arguments.
LEMMA CallJudged ==
  ASSUME NEW f, NEW t, NEW ty, NEW tz, NEW b, NEW i, InBlock(f, i, b), NEW args \in Seq(Nat), NEW callable,
         \A n \in DOMAIN args : InBlock(f, args[n], b) /\ args[n] \in DOMAIN tz /\ tz[args[n]] = ty[args[n]],
         SameArity(t, callable, [n \in DOMAIN args |-> ty[args[n]]]),
         Unifies(t, callable, [n \in DOMAIN args |-> ty[args[n]]]),
         NEW g \in DOMAIN Globals, KindOf(t, callable) = SignatureKind(g),
         i \in DOMAIN tz, tz[i] = KindOf(t, callable).ret
  PROVE  Judged(f, t, tz, b, CgCall(g, args, i))
<1> DEFINE x == CgCall(g, args, i)
           ps == Globals[g].params
           ts == [n \in DOMAIN args |-> ty[args[n]]]
<1>1. /\ x.op = "Call" /\ DOMAIN x = {"op", "value", "args", "ret"}
      /\ x.value = g /\ x.args = args /\ x.ret = i
  BY DEF CgCall
<1>2. KindOf(t, callable).params = [n \in DOMAIN ps |-> Tag[ps[n]]] /\ KindOf(t, callable).ret = Tag[Globals[g].ret]
  BY SignatureKindOK
<1>3. ps \in Seq(DOMAIN Tag)
  BY GlobalsAssumption
<1>4. Len(ps) = Len(args)
  <2>1. Len([n \in DOMAIN ps |-> Tag[ps[n]]]) = Len(ps)
    BY <1>3
  <2>2. Len(ts) = Len(args)
    OBVIOUS
  <2>3. Len(KindOf(t, callable).params) = Len(ts)
    BY DEF SameArity
  <2>4. QED
    BY <1>2, <2>1, <2>2, <2>3
<1>5. DOMAIN ps = DOMAIN args
  BY <1>3, <1>4
<1>6. \A n \in DOMAIN args : Tag[ps[n]] = Tag.Unknown \/ Tag[ps[n]] = ty[args[n]] \/ Tag[ps[n]] = Tag.TSelf
  <2>1. TAKE n \in DOMAIN args
  <2>2. KindOf(t, callable).params[n] = Tag[ps[n]] /\ n \in DOMAIN KindOf(t, callable).params
    BY <1>2, <1>5
  <2>3. ts[n] = ty[args[n]]
    OBVIOUS
  <2>4. QED
    BY <2>2, <2>3 DEF Unifies
<1>7. \A n \in DOMAIN args : ps[n] \in {"TSelf", "Unknown"} \/ tz[args[n]] = Tag[ps[n]]
  <2>1. TAKE n \in DOMAIN args
  <2>2. ps[n] \in DOMAIN Tag
    BY <1>3, <1>5
  <2>3. "Unknown" \in DOMAIN Tag /\ "TSelf" \in DOMAIN Tag
    BY DEF Tag
  <2>4. QED
    BY <1>6, <2>2, <2>3, TagInjective
<1> HIDE DEF x, ts
<1>8. Reads(x) = ToSet(args)
  BY <1>1 DEF Reads
<1>9. \A j \in Reads(x) : InBlock(f, j, b) /\ j \in DOMAIN tz
  BY <1>8 DEF ToSet
<1>10. x.op \in CgOps /\ x.op \in Giving /\ "ret" \in DOMAIN x
  BY <1>1 DEF CgOps, Giving
<1>11. QED
  BY <1>1, <1>2, <1>4, <1>7, <1>9, <1>10 DEF Judged, x

LEMMA AnalyzeCallOK ==
  ASSUME NEW a, NEW b, NEW D, NEW i, Ready(fun, a, b, D, i), fun.code[i].op = "Call",
         AnalyzeCall(a, i, fun.code[i]).verdict = "ok"
  PROVE  AfterStep(fun, a, AnalyzeCall(a, i, fun.code[i]), b, D, i)
<1> DEFINE inst == fun.code[i]
           args == inst.arguments
           cb == inst.callable
           callee == fun.code[cb]
           kind == KindOf(a.tcx, a.types[cb])
           ts == [n \in DOMAIN args |-> a.types[args[n]]]
           r == Typed(a, i, kind.ret)
           use == Emits(r, <<CgCall(a.nonlocals[cb], args, i)>>)
           dunder == AnalyzeMethodCall(r, i, inst, callee.object, callee.dunder)
           attribute == AnalyzeMethodCall(r, i, inst, callee.object, fun.code[callee.attr].name)
<1>1. DOMAIN a = {"tcx", "types", "nonlocals", "locals", "ix", "out", "verdict"}
  BY DEF Ready, MachineOK
<1>2. /\ Knows(a, <<cb>> \o args) /\ IsCallableKind(kind)
      /\ SameArity(a.tcx, a.types[cb], ts) /\ Unifies(a.tcx, a.types[cb], ts)
      /\ AnalyzeCall(a, i, inst) = CASE callee.op = "UseVar" -> use
                                     [] callee.op = "GetDunder" -> dunder
                                     [] callee.op = "GetAttribute" -> attribute
                                     [] OTHER -> r
  <2>1. Panics(a).verdict # "ok" /\ Fails(a).verdict # "ok"
    BY <1>1 DEF Panics, Fails
  <2>2. AnalyzeCall(a, i, inst) =
          IF ~Knows(a, <<cb>> \o args) THEN Panics(a)
          ELSE IF ~IsCallableKind(kind) THEN Panics(a)
          ELSE IF ~SameArity(a.tcx, a.types[cb], ts) THEN Panics(a)
          ELSE IF ~Unifies(a.tcx, a.types[cb], ts) THEN Fails(a)
          ELSE CASE callee.op = "UseVar" -> use
                 [] callee.op = "GetDunder" -> dunder
                 [] callee.op = "GetAttribute" -> attribute
                 [] OTHER -> r
    BY DEF AnalyzeCall, code
  <2> HIDE DEF use, dunder, attribute, r, ts, kind, callee, cb, args, inst
  <2>3. QED
    BY <2>1, <2>2 DEF inst
<1>3. args \in Seq(Nat)
  BY DEF Ready, FlatOK, InBlock
<1>4. cb \in DOMAIN a.types /\ \A n \in DOMAIN args : args[n] \in DOMAIN a.types
  <2> DEFINE s == <<cb>>
  <2>1. s \in Seq(ToSet(s)) /\ ToSet(s) = {cb}
    BY OneInstruction
  <2>2. args \in Seq(ToSet(args))
    <3> HIDE DEF args
    <3>1. \A n \in 1 .. Len(args) : args[n] \in ToSet(args)
      BY <1>3 DEF ToSet
    <3>2. args = [n \in 1 .. Len(args) |-> args[n]] /\ Len(args) \in Nat
      BY <1>3
    <3>3. QED
      BY <3>1, <3>2
  <2> HIDE DEF s, args
  <2>3. ToSet(s \o args) = {cb} \cup ToSet(args)
    BY <2>1, <2>2, Concatenated
  <2>4. QED
    BY <1>2, <2>3 DEF Knows, ToSet, s
<1>5. InBlock(fun, cb, b) /\ \A n \in DOMAIN args : InBlock(fun, args[n], b)
  <2>1. cb \in Operands(inst) /\ \A n \in DOMAIN args : args[n] \in Operands(inst)
    BY DEF Operands, ToSet
  <2>2. QED
    BY <2>1, OperandInBlock DEF Ready
<1>6. /\ TableOK(a.tcx) /\ PropertiesOK(a.tcx) /\ DOMAIN a.types \subseteq D /\ i \notin D
      /\ \A j \in DOMAIN a.types : a.types[j] \in DOMAIN a.tcx.types
      /\ ValueOK(fun, a.tcx, a.types, a.nonlocals, cb)
  BY <1>4 DEF Ready, MachineOK, ValueOK
<1>7. kind.ret \in DOMAIN a.tcx.types
  BY <1>2, <1>4, <1>6 DEF PropertiesOK, Returns
<1>8. inst.op = "Call" /\ InBlock(fun, i, b)
  BY DEF Ready
<1> HIDE DEF args, ts, callee, inst
<1>9. /\ DOMAIN r = DOMAIN a /\ r.tcx = a.tcx /\ r.types = Put(a.types, i, kind.ret)
      /\ r.nonlocals = a.nonlocals /\ r.out = a.out
  BY <1>1 DEF Typed
<1> HIDE DEF r
<1>10. /\ i \in DOMAIN r.types /\ r.types[i] = kind.ret
       /\ \A j \in DOMAIN a.types : j # i /\ j \in DOMAIN r.types /\ r.types[j] = a.types[j]
  BY <1>6, <1>9 DEF Put
<1>11. ValueOK(fun, r.tcx, r.types, r.nonlocals, i)
  BY <1>7, <1>8, <1>9, <1>10 DEF ValueOK, inst
<1>12. AfterStep(fun, a, r, b, D, i)
  BY <1>6, <1>9, <1>11, TypedStep, GrowsStutters DEF Ready, AfterStep
<1>13. ASSUME NEW g \in DOMAIN Globals, kind = SignatureKind(g)
       PROVE  Judged(fun, r.tcx, r.types, b, CgCall(g, args, i))
  <2> DEFINE t == a.tcx
             ty == a.types
             tz == r.types
             ct == a.types[cb]
  <2>1. /\ \A n \in DOMAIN args : InBlock(fun, args[n], b) /\ args[n] \in DOMAIN tz /\ tz[args[n]] = ty[args[n]]
        /\ SameArity(t, ct, [n \in DOMAIN args |-> ty[args[n]]])
        /\ Unifies(t, ct, [n \in DOMAIN args |-> ty[args[n]]])
        /\ KindOf(t, ct) = SignatureKind(g) /\ i \in DOMAIN tz /\ tz[i] = KindOf(t, ct).ret /\ r.tcx = t
    BY <1>2, <1>4, <1>5, <1>9, <1>10, <1>13 DEF ts
  <2> HIDE DEF t, ty, tz, ct
  <2>2. Judged(fun, t, tz, b, CgCall(g, args, i))
    BY <1>3, <1>8, <2>1, CallJudged
  <2>3. QED
    BY <2>1, <2>2 DEF tz
<1>14. CASE callee.op = "UseVar"
  <2> DEFINE g == a.nonlocals[cb]
  <2>1. g \in DOMAIN Globals /\ kind = SignatureKind(g)
    BY <1>6, <1>14 DEF ValueOK, callee
  <2>2. AnalyzeCall(a, i, inst) = use
    BY <1>2, <1>14
  <2>3. Judged(fun, r.tcx, r.types, b, CgCall(g, args, i))
    BY <1>13, <2>1
  <2>4. AfterStep(fun, a, use, b, D, i)
    BY <1>12, <2>3, EmitOneAfter
  <2>5. QED
    BY <2>2, <2>4 DEF inst
<1>15. ASSUME NEW name, callee.op \in {"GetDunder", "GetAttribute"},
              PropertyAt(a.tcx, a.types, cb, callee.object, name),
              AnalyzeMethodCall(r, i, inst, callee.object, name).verdict = "ok"
       PROVE  AfterStep(fun, a, AnalyzeMethodCall(r, i, inst, callee.object, name), b, D, i)
  <2> DEFINE object == callee.object
  <2>1. object \in Operands(fun.code[cb])
    BY <1>15 DEF callee, Operands
  <2>2. InBlock(fun, object, b)
    BY <1>5, <2>1, OperandInBlock DEF Ready
  <2>3. \A g \in DOMAIN Globals : KindOf(a.tcx, a.types[cb]) = SignatureKind(g) =>
          Judged(fun, r.tcx, r.types, b, CgCall(g, inst.arguments, i))
    BY <1>13 DEF args
  <2>4. r.types[i] = KindOf(a.tcx, a.types[cb]).ret
    BY <1>10
  <2> HIDE DEF object, cb, kind
  <2>5. QED
    BY <1>4, <1>9, <1>10, <1>12, <1>15, <2>2, <2>3, <2>4, AnalyzeMethodCallOK DEF object
<1>16. CASE callee.op = "GetDunder"
  <2>1. AnalyzeCall(a, i, inst) = dunder
    BY <1>2, <1>16
  <2>2. PropertyAt(a.tcx, a.types, cb, callee.object, callee.dunder)
    BY <1>6, <1>16 DEF ValueOK, callee
  <2>3. QED
    BY <1>15, <1>16, <2>1, <2>2 DEF inst
<1>17. CASE callee.op = "GetAttribute"
  <2>1. AnalyzeCall(a, i, inst) = attribute
    BY <1>2, <1>17
  <2>2. PropertyAt(a.tcx, a.types, cb, callee.object, fun.code[callee.attr].name)
    BY <1>6, <1>17 DEF ValueOK, callee
  <2>3. QED
    BY <1>15, <1>17, <2>1, <2>2 DEF inst
<1>18. CASE callee.op \notin {"UseVar", "GetDunder", "GetAttribute"}
  <2>1. AnalyzeCall(a, i, inst) = r
    BY <1>2, <1>18
  <2>2. QED
    BY <1>12, <2>1 DEF inst
<1>19. QED
  BY <1>14, <1>16, <1>17, <1>18

\* What is analysed without a fault keeps the machine in order; and no block of it begins
\* with a phi-recv.
LEMMA AnalyzedOK ==
  ASSUME NEW a, NEW b, NEW D, NEW i, FlatOK(fun), InBlock(fun, i, b), MachineOK(fun, a, b, D), i \notin D,
         i = b \/ fun.code[b].op # "PhiRecv", Analyzed(a, i).verdict = "ok"
  PROVE  AfterStep(fun, a, Analyzed(a, i), b, D, i) /\ fun.code[b].op # "PhiRecv"
<1> DEFINE inst == fun.code[i]
           r == Analyzed(a, i)
           op == inst.op
           recv == Jump(BlockOf(fun.code, inst.recv), <<inst.value>>)
           br == Jump(BlockOf(fun.code, inst.to), << >>)
<1>1. DOMAIN a = {"tcx", "types", "nonlocals", "locals", "ix", "out", "verdict"}
  BY DEF MachineOK
<1>2. Panics(a).verdict # "ok"
  BY <1>1 DEF Panics
<1>3. r = CASE op = "Br"           -> Emits(a, <<br>>)
            [] op = "PhiJump"      -> Emits(a, <<recv>>)
            [] op = "If"           -> AnalyzeIf(a, inst)
            [] op = "SetVar"       -> AnalyzeSetVar(a, inst)
            [] op = "UseVar"       -> AnalyzeUseVar(a, i, inst)
            [] op = "RefAsStr"     -> Typed(a, i, Tag.Str)
            [] op = "GetAttribute" -> AnalyzeProperty(a, i, inst.object, fun.code[inst.attr].name, "error")
            [] op = "GetDunder"    -> AnalyzeProperty(a, i, inst.object, inst.dunder, "panic")
            [] op = "Call"         -> AnalyzeCall(a, i, inst)
            [] op = "Const"        -> AnalyzeConst(a, i, inst)
            [] op = "Tuple"        -> AnalyzeTuple(a, i, inst)
            [] op = "Return"       -> AnalyzeReturn(a, inst)
            [] op \in {"Nop", "JumpTarget", "BuildClass"} -> a
            [] OTHER               -> Panics(a)
  BY DEF Analyzed, code
<1> HIDE DEF r, br, recv
<1>4. op # "PhiRecv"
  <2>1. op = "PhiRecv" => r = Panics(a)
    BY <1>3
  <2>2. QED
    BY <1>2, <2>1 DEF r
<1>5. fun.code[b].op # "PhiRecv"
  BY <1>4
<1>6. Ready(fun, a, b, D, i)
  BY <1>5 DEF Ready
<1>7. AfterStep(fun, a, a, b, D, i)
  BY <1>6, SilentAfter
<1>8. CASE op = "Br"
  <2>1. r = Emits(a, <<br>>)
    BY <1>3, <1>8
  <2>2. Judged(fun, a.tcx, a.types, b, br)
    BY JumpsJudged DEF br
  <2>3. QED
    BY <1>5, <1>7, <2>1, <2>2, EmitOneAfter DEF r
<1>9. CASE op = "PhiJump"
  <2>1. r = Emits(a, <<recv>>)
    BY <1>3, <1>9
  <2>2. InBlock(fun, inst.value, b)
    BY <1>5, <1>9, OperandInBlock DEF Operands
  <2>3. Judged(fun, a.tcx, a.types, b, recv)
    BY <2>2, JumpsJudged DEF recv
  <2>4. QED
    BY <1>5, <1>7, <2>1, <2>3, EmitOneAfter DEF r
<1>10. CASE op = "If"
  <2>1. r = AnalyzeIf(a, inst)
    BY <1>3, <1>10
  <2>2. QED
    BY <1>5, <1>6, <1>10, <2>1, AnalyzeIfOK DEF r
<1>11. CASE op = "SetVar"
  <2>1. r = AnalyzeSetVar(a, inst)
    BY <1>3, <1>11
  <2>2. QED
    BY <1>5, <1>6, <1>11, <2>1, AnalyzeSetVarOK DEF r
<1>12. CASE op = "UseVar"
  <2>1. r = AnalyzeUseVar(a, i, inst)
    BY <1>3, <1>12
  <2>2. QED
    BY <1>5, <1>6, <1>12, <2>1, AnalyzeUseVarOK DEF r
<1>13. CASE op = "RefAsStr"
  <2>1. r = Typed(a, i, Tag.Str) /\ "Str" \in DOMAIN Tag
    BY <1>3, <1>13 DEF Tag
  <2>2. QED
    BY <1>5, <1>6, <1>13, <2>1, TypedBuiltin DEF r
<1>14. CASE op = "GetAttribute"
  <2>1. r = AnalyzeProperty(a, i, inst.object, fun.code[inst.attr].name, "error")
    BY <1>3, <1>14
  <2>2. QED
    BY <1>5, <1>6, <1>14, <2>1, AnalyzePropertyOK DEF r
<1>15. CASE op = "GetDunder"
  <2>1. r = AnalyzeProperty(a, i, inst.object, inst.dunder, "panic")
    BY <1>3, <1>15
  <2>2. QED
    BY <1>5, <1>6, <1>15, <2>1, AnalyzePropertyOK DEF r
<1>16. CASE op = "Call"
  <2>1. r = AnalyzeCall(a, i, inst)
    BY <1>3, <1>16
  <2>2. QED
    BY <1>5, <1>6, <1>16, <2>1, AnalyzeCallOK DEF r
<1>17. CASE op = "Const"
  <2>1. r = AnalyzeConst(a, i, inst)
    BY <1>3, <1>17
  <2>2. QED
    BY <1>5, <1>6, <1>17, <2>1, AnalyzeConstOK DEF r
<1>18. CASE op = "Tuple"
  <2>1. r = AnalyzeTuple(a, i, inst)
    BY <1>3, <1>18
  <2>2. QED
    BY <1>5, <1>6, <1>18, <2>1, AnalyzeTupleOK DEF r
<1>19. CASE op = "Return"
  <2>1. r = AnalyzeReturn(a, inst)
    BY <1>3, <1>19
  <2>2. QED
    BY <1>5, <1>6, <1>19, <2>1, AnalyzeReturnOK DEF r
<1>20. CASE op \notin {"Br", "PhiJump", "If", "SetVar", "UseVar", "RefAsStr", "GetAttribute", "GetDunder",
                       "Call", "Const", "Tuple", "Return"}
  <2>1. r = a \/ r = Panics(a)
    BY <1>3, <1>20
  <2>2. r = a
    BY <1>2, <2>1 DEF r
  <2>3. QED
    BY <1>5, <1>7, <2>2 DEF r
<1>21. QED
  BY <1>8, <1>9, <1>10, <1>11, <1>12, <1>13, <1>14, <1>15, <1>16, <1>17, <1>18, <1>19, <1>20

-----------------------------------------------------------------------------
(* The inductive invariant of a compilation.                               *)

\* The instructions that were analysed, with those of the block that is under way.
AnalysedCode ==
  {i \in DOMAIN code : \/ BlockOf(code, i) \in blocks_analyzed
                       \/ blocks_to_analyze # {} /\ BlockOf(code, i) = Block /\ i < tm.ix}

TypingInv ==
  /\ FlatOK(fun)
  /\ DOMAIN cg = Blocks
  /\ state \notin {"rejected", "panicked"} =>
       /\ MachineOK(fun, tm, Block, AnalysedCode)
       /\ tm.verdict = "ok" /\ tm.ix \in Nat
       /\ blocks_to_analyze = {} => tm.out = << >>
       /\ blocks_to_analyze # {} => tm.ix >= Block /\ (tm.ix > Block => code[Block].op # "PhiRecv")
       /\ blocks_to_analyze \cap blocks_analyzed = {}
       /\ \A b \in Blocks : CodeOK(fun, tm.tcx, tm.types, b, cg[b])

\* An instruction reads what instructions before it in the same block give.
ReadsBefore(s) == \A k \in DOMAIN s : Reads(s[k]) \subseteq Results(SubSeq(s, 1, k - 1))

LoweredOK(b) ==
  LET s == UpToEnd(cg[b]) IN
    /\ ir[b] = [k \in DOMAIN s |-> Lowered(s[k])]
    /\ ReadsBefore(s)
    /\ \A k \in DOMAIN s : Lowerable(s[k])

LowerInv ==
  /\ state \in {"analyze", "rejected", "panicked"} => DOMAIN ir = {} /\ values = {}
  /\ \A v \in values : BlockOf(code, v) \in DOMAIN ir
  /\ \A b \in DOMAIN ir : LoweredOK(b)
  /\ state = "compiled" => Entry \in DOMAIN ir /\ \A b \in DOMAIN ir : Verified(b)

\* The kind of value that a value of type u is, in memory with tuples at the addresses A.
FitsIn(t, ty, A, v, u) ==
  LET k == KindOf(t, u) IN
    CASE IsTupleKind(k)    -> v.is = "address" /\ v.num \in A /\ ty[v.num] = u
      [] IsCallableKind(k) -> v = FunctionValue
      [] OTHER             -> v.is \in DOMAIN ClassOf /\ u = Tag[ClassOf[v.is]]
TypedIn(t, ty, A, v, r) == \E u \in Unfolded(t)[r] : FitsIn(t, ty, A, v, u)

EnvOK(t, ty, A, e) == \A i \in DOMAIN e : i \in DOMAIN ty /\ TypedIn(t, ty, A, e[i], ty[i])

\* Tuples in memory.
CellsOK(t, ty, A, cells, k) ==
  /\ DOMAIN cells = DOMAIN k.tuple
  /\ \A n \in DOMAIN k.tuple : TypedIn(t, ty, A, cells[n].value, k.tuple[n])
HeapOK(t, ty, h) ==
  \A a \in DOMAIN h : /\ a \in DOMAIN ty /\ IsTupleKind(KindOf(t, ty[a]))
                      /\ CellsOK(t, ty, DOMAIN h, h[a], KindOf(t, ty[a]))

\* A run is in a block that was lowered, and has the values that were given before in it.
RunOK ==
  /\ at \in Nat \X Nat /\ at[1] \in DOMAIN ir /\ at[2] \in DOMAIN ir[at[1]]
  /\ Results(SubSeq(UpToEnd(cg[at[1]]), 1, at[2] - 1)) \subseteq DOMAIN env
  /\ EnvOK(tm.tcx, tm.types, DOMAIN heap, env)
  /\ HeapOK(tm.tcx, tm.types, heap)
  /\ returned = TRUE => Current.op = "Return"
NotStarted == at = <<Entry, 1>> /\ env = Nothing /\ heap = Nothing /\ returned = FALSE
RunInv == NotStarted \/ (state = "compiled" /\ RunOK)

SoundInv == IInv /\ TypingInv /\ LowerInv /\ RunInv

-----------------------------------------------------------------------------
(* The machine keeps its invariant.                                        *)

LEMMA EmptyCode ==
  ASSUME NEW f, NEW t, NEW ty, NEW b
  PROVE  CodeOK(f, t, ty, b, << >>)
BY DEF CodeOK, ToSet

LEMMA TypingInit == CompileInit => TypingInv
<1> SUFFICES ASSUME CompileInit PROVE TypingInv
  OBVIOUS
<1>1. FlatOK(fun)
  <2>1. fun \in Functions /\ fun.code \in Seq(ToSet(fun.code))
    BY FunctionsAssumption DEF CompileInit
  <2>2. DOMAIN fun.code = 1 .. Len(fun.code) /\ Len(fun.code) \in Nat
    BY <2>1
  <2>3. QED
    BY <2>1, <2>2, FunctionsAssumption DEF FlatOK
<1>2. FunInv
  BY FunctionsAssumption DEF CompileInit, FunInv, code
<1>3. /\ tm = NewMachine /\ cg = [b \in Blocks |-> << >>]
      /\ blocks_to_analyze = {Entry} /\ blocks_analyzed = {}
  BY DEF CompileInit
<1>4. /\ DOMAIN tm = {"tcx", "types", "nonlocals", "locals", "ix", "out", "verdict"}
      /\ tm.tcx = MethodsEntered /\ tm.types = Nothing /\ tm.out = << >>
      /\ tm.ix = Entry /\ tm.verdict = "ok"
  BY <1>3 DEF NewMachine
<1>5. DOMAIN tm.types = {}
  BY <1>4 DEF Nothing
<1>6. Block = Entry /\ Entry \in Nat
  BY <1>3 DEF Block, Min, Entry
<1>7. MachineOK(fun, tm, Block, AnalysedCode)
  BY <1>4, <1>5, MethodsEnteredOK, EmptyCode DEF MachineOK
<1>8. \A b \in Blocks : CodeOK(fun, tm.tcx, tm.types, b, cg[b])
  BY <1>3, EmptyCode
<1>9. tm.ix >= Block /\ ~(tm.ix > Block)
  BY <1>4, <1>6
<1>10. QED
  BY <1>1, <1>3, <1>4, <1>6, <1>7, <1>8, <1>9 DEF TypingInv

LEMMA MinIsMember ==
  ASSUME NEW S \in SUBSET Nat, S # {}
  PROVE  Min(S) \in S /\ \A n \in S : Min(S) <= n
<1>1. \E m \in S : \A n \in S : m <= n
  BY Least
<1>2. QED
  BY <1>1 DEF Min

LEMMA BlockIsLeast ==
  ASSUME IInv, blocks_to_analyze # {}
  PROVE  Block \in blocks_to_analyze /\ Block \in Blocks /\ Block \in Nat
<1>1. blocks_to_analyze \in SUBSET Blocks
  BY DEF IInv, AnalysisInv, Explores
<1>2. blocks_to_analyze \in SUBSET Nat
  BY <1>1, BlocksAreNumbers DEF IInv
<1>3. Block \in blocks_to_analyze
  BY <1>2, MinIsMember DEF Block
<1>4. QED
  BY <1>1, <1>2, <1>3

LEMMA AnalyzeInstTyped ==
  ASSUME IInv, TypingInv, AnalyzeInst
  PROVE  TypingInv'
<1> DEFINE r == Analyzed(tm, tm.ix)
           i == tm.ix
<1>1. /\ state = "analyze" /\ blocks_to_analyze # {} /\ i \in DOMAIN code /\ BlockOf(code, i) = Block
      /\ tm' = [r EXCEPT !.ix = i + 1]
      /\ state' = CASE r.verdict = "ok" -> state
                    [] r.verdict = "error" -> "rejected"
                    [] OTHER -> "panicked"
      /\ UNCHANGED <<function, cg, blocks_to_analyze, blocks_analyzed>>
  BY DEF AnalyzeInst, BlockLeft
<1>2. FlatOK(fun)' /\ (DOMAIN cg = Blocks)'
  BY <1>1 DEF TypingInv, function, Blocks, code
<1>3. SUFFICES ASSUME state' \notin {"rejected", "panicked"}
               PROVE  TypingInv'
  BY <1>2 DEF TypingInv
<1>4. r.verdict = "ok"
  <2> HIDE DEF r
  <2>1. QED
    BY <1>1, <1>3
<1>5. /\ MachineOK(fun, tm, Block, AnalysedCode) /\ i \in Nat /\ tm.ix >= Block
      /\ (i > Block => code[Block].op # "PhiRecv") /\ FlatOK(fun)
      /\ \A b \in Blocks : CodeOK(fun, tm.tcx, tm.types, b, cg[b])
      /\ blocks_to_analyze \cap blocks_analyzed = {}
  BY <1>1 DEF TypingInv
<1>6. Block \in blocks_to_analyze /\ Block \in Nat
  BY <1>1, BlockIsLeast
<1>7. i \notin AnalysedCode
  BY <1>1, <1>5, <1>6 DEF AnalysedCode
<1>8. /\ MachineOK(fun, r, Block, AnalysedCode \cup {i})
      /\ Later(tm.tcx, tm.types, r.tcx, r.types)
      /\ code[Block].op # "PhiRecv"
  <2> DEFINE D == AnalysedCode
             b == Block
  <2>1. i = b \/ fun.code[b].op # "PhiRecv"
    BY <1>5, <1>6 DEF code
  <2>2. InBlock(fun, i, b)
    BY <1>1 DEF InBlock, code
  <2> HIDE DEF D, b, i
  <2>3. AfterStep(fun, tm, Analyzed(tm, i), b, D, i) /\ fun.code[b].op # "PhiRecv"
    BY <1>4, <1>5, <1>7, <2>1, <2>2, AnalyzedOK DEF D, b, i
  <2>4. QED
    BY <2>3 DEF AfterStep, code, D, b, i
<1> HIDE DEF r
<1>9. /\ DOMAIN tm' = DOMAIN r /\ tm'.tcx = r.tcx /\ tm'.types = r.types /\ tm'.nonlocals = r.nonlocals
      /\ tm'.out = r.out /\ tm'.verdict = "ok" /\ tm'.ix = i + 1
  BY <1>1, <1>4, <1>8 DEF MachineOK
<1>10. Block' = Block /\ code' = code /\ fun' = fun /\ Blocks' = Blocks
  BY <1>1 DEF Block, function, code, Blocks
<1>11. AnalysedCode \cup {i} \subseteq AnalysedCode'
  <2>1. \A j \in DOMAIN code : j \in Nat
    BY <1>5 DEF FlatOK, code
  <2>2. QED
    BY <1>1, <1>5, <1>9, <1>10, <2>1 DEF AnalysedCode
<1>12. MachineOK(fun, tm, Block, AnalysedCode)'
  BY <1>8, <1>9, <1>10, <1>11 DEF MachineOK
<1>13. \A b \in Blocks : CodeOK(fun, tm'.tcx, tm'.types, b, cg[b])
  <2>1. \A j \in DOMAIN tm.types : tm.types[j] \in DOMAIN tm.tcx.types
    BY <1>5 DEF MachineOK, ValueOK
  <2>2. Later(tm.tcx, tm.types, tm'.tcx, tm'.types)
    BY <1>8, <1>9
  <2>3. QED
    BY <1>5, <2>1, <2>2, CodeStays
<1>14. tm'.ix \in Nat /\ tm'.ix >= Block' /\ code'[Block'].op # "PhiRecv"
  BY <1>5, <1>6, <1>8, <1>9, <1>10
<1>15. QED
  BY <1>1, <1>2, <1>5, <1>9, <1>10, <1>12, <1>13, <1>14 DEF TypingInv

LEMMA LeaveBlockTyped ==
  ASSUME IInv, TypingInv, LeaveBlock
  PROVE  TypingInv'
<1>1. state = "analyze" /\ blocks_to_analyze # {} /\ UNCHANGED function
  BY DEF LeaveBlock
<1>2. FlatOK(fun)' /\ Blocks' = Blocks /\ code' = code /\ fun' = fun
  BY <1>1 DEF TypingInv, function, Blocks, code
<1>3. CASE tm.out = << >>
  <2>1. state' = "panicked" /\ cg' = cg
    BY <1>3 DEF LeaveBlock, analysis
  <2>2. QED
    BY <1>2, <2>1 DEF TypingInv
<1>4. CASE tm.out # << >>
  <2>1. /\ cg' = [cg EXCEPT ![Block] = tm.out]
        /\ blocks_analyzed' = blocks_analyzed \cup {Block}
        /\ blocks_to_analyze' = (blocks_to_analyze \cup Successors(Block)) \ blocks_analyzed'
        /\ tm' = [tm EXCEPT !.out = << >>,
                            !.ix = IF blocks_to_analyze' = {} THEN Entry ELSE Min(blocks_to_analyze')]
        /\ state' = state /\ ~BlockLeft
    BY <1>4 DEF LeaveBlock, Worklist
  <2>2. /\ MachineOK(fun, tm, Block, AnalysedCode) /\ tm.verdict = "ok" /\ DOMAIN cg = Blocks
        /\ \A b \in Blocks : CodeOK(fun, tm.tcx, tm.types, b, cg[b])
    BY <1>1 DEF TypingInv
  <2>3. /\ DOMAIN tm' = DOMAIN tm /\ tm'.tcx = tm.tcx /\ tm'.types = tm.types /\ tm'.nonlocals = tm.nonlocals
        /\ tm'.out = << >> /\ tm'.verdict = "ok"
        /\ tm'.ix = IF blocks_to_analyze' = {} THEN Entry ELSE Min(blocks_to_analyze')
    BY <2>1, <2>2 DEF MachineOK
  <2>4. Block \in Blocks
    BY <1>1, BlockIsLeast
  <2>5. AnalysedCode \subseteq AnalysedCode'
    BY <1>2, <2>1 DEF AnalysedCode
  <2>6. MachineOK(fun, tm, Block, AnalysedCode)'
    BY <1>2, <2>2, <2>3, <2>5, EmptyCode DEF MachineOK
  <2>7. (DOMAIN cg = Blocks)' /\ \A b \in Blocks : CodeOK(fun, tm'.tcx, tm'.types, b, cg'[b])
    <3>1. CodeOK(fun, tm.tcx, tm.types, Block, tm.out)
      BY <2>2 DEF MachineOK
    <3>2. DOMAIN cg' = Blocks /\ cg'[Block] = tm.out /\ \A b \in Blocks : b # Block => cg'[b] = cg[b]
      BY <2>1, <2>2, <2>4
    <3>3. QED
      BY <1>2, <2>2, <2>3, <3>1, <3>2
  <2>8. (blocks_to_analyze \cap blocks_analyzed = {})'
    BY <2>1
  <2>9. tm'.ix \in Nat /\ (blocks_to_analyze' # {} => tm'.ix = Block')
    <3>1. CASE blocks_to_analyze' = {}
      BY <2>3, <3>1 DEF Entry
    <3>2. CASE blocks_to_analyze' # {}
      <4>1. tm'.ix = Block'
        BY <2>3, <3>2 DEF Block
      <4>2. blocks_to_analyze' \in SUBSET Nat
        <5>1. blocks_to_analyze \in SUBSET Blocks /\ Successors(Block) \subseteq Blocks
          <6>1. blocks_to_analyze \in SUBSET Blocks /\ cfg[Block] \in Seq(Blocks)
            BY <2>4 DEF IInv, AnalysisInv, Explores, GraphInv
          <6>2. QED
            BY <6>1 DEF Successors, ToSet
        <5>2. Blocks \subseteq Nat
          BY BlocksAreNumbers DEF IInv
        <5>3. QED
          BY <2>1, <5>1, <5>2
      <4>3. tm'.ix \in Nat
        BY <2>3, <3>2, <4>2, MinIsMember
      <4>4. QED
        BY <4>1, <4>3
    <3>3. QED
      BY <3>1, <3>2
  <2>10. blocks_to_analyze' # {} => tm'.ix >= Block' /\ (tm'.ix > Block' => (code[Block].op # "PhiRecv")')
    <3> DEFINE n == tm'.ix
               m == Block'
    <3>1. n \in Nat /\ (blocks_to_analyze' # {} => n = m)
      BY <2>9
    <3> HIDE DEF n, m
    <3>2. blocks_to_analyze' # {} => n >= m /\ ~(n > m)
      BY <3>1
    <3>3. QED
      BY <3>2 DEF n, m
  <2>11. QED
    BY <1>2, <2>3, <2>6, <2>7, <2>8, <2>9, <2>10 DEF TypingInv
<1>5. QED
  BY <1>3, <1>4

\* Lowering and running do not change what was analysed.
LEMMA TypingStays ==
  ASSUME TypingInv, UNCHANGED <<function, analysis>>,
         state' \notin {"rejected", "panicked"} => state \notin {"rejected", "panicked"}
  PROVE  TypingInv'
<1>1. /\ fun' = fun /\ code' = code /\ Blocks' = Blocks /\ tm' = tm /\ cg' = cg
      /\ blocks_to_analyze' = blocks_to_analyze /\ blocks_analyzed' = blocks_analyzed
      /\ Block' = Block
  BY DEF function, analysis, code, Blocks, Block
<1>2. AnalysedCode' = AnalysedCode
  BY <1>1 DEF AnalysedCode
<1>3. QED
  BY <1>1, <1>2 DEF TypingInv

LEMMA StepTyped == ASSUME IInv, TypingInv, [Compile]_compiler PROVE TypingInv'
<1>1. CASE UNCHANGED compiler
  BY <1>1, TypingStays DEF compiler
<1>2. CASE StartLowering
  BY <1>2, TypingStays DEF StartLowering
<1>3. CASE LowerBlock
  BY <1>3, TypingStays DEF LowerBlock
<1>4. CASE Verify
  BY <1>4, TypingStays DEF Verify
<1>5. QED
  BY <1>1, <1>2, <1>3, <1>4, AnalyzeInstTyped, LeaveBlockTyped DEF Compile

-----------------------------------------------------------------------------
(* Lowering keeps its invariant.                                           *)

\* The code of a block ends at the first end, if there is one.
LEMMA UpToEndOK ==
  ASSUME NEW s, s \in Seq(ToSet(s))
  PROVE  /\ UpToEnd(s) \in Seq(ToSet(s))
         /\ Len(UpToEnd(s)) \in Nat /\ DOMAIN UpToEnd(s) = 1 .. Len(UpToEnd(s))
         /\ DOMAIN UpToEnd(s) \subseteq DOMAIN s
         /\ \A k \in DOMAIN UpToEnd(s) : /\ UpToEnd(s)[k] = s[k]
                                         /\ Ends(UpToEnd(s)[k]) => k = Len(UpToEnd(s))
<1> DEFINE ends == {k \in DOMAIN s : Ends(s[k])}
           m == Min(ends)
           B == ToSet(s)
<1> HIDE DEF B
<1>1. s \in Seq(B) /\ DOMAIN s = 1 .. Len(s) /\ Len(s) \in Nat
  BY DEF B
<1>2. CASE ends = {}
  <2>1. UpToEnd(s) = s
    BY <1>2 DEF UpToEnd
  <2>2. QED
    BY <1>1, <1>2, <2>1 DEF B
<1>3. CASE ends # {}
  <2>1. UpToEnd(s) = SubSeq(s, 1, m)
    BY <1>3 DEF UpToEnd
  <2>2. ends \in SUBSET Nat
    BY <1>1
  <2>3. m \in ends /\ \A n \in ends : m <= n
    <3> HIDE DEF ends
    <3>1. QED
      BY <1>3, <2>2, MinIsMember
  <2> HIDE DEF m
  <2>4. m \in 1 .. Len(s)
    BY <1>1, <2>3
  <2>5. /\ SubSeq(s, 1, m) \in Seq(B) /\ Len(SubSeq(s, 1, m)) = m
        /\ \A k \in 1 .. m : SubSeq(s, 1, m)[k] = s[k]
    BY <1>1, <2>4
  <2>6. DOMAIN SubSeq(s, 1, m) = 1 .. m
    BY <2>4, <2>5
  <2>7. \A k \in 1 .. m : Ends(s[k]) => k = m
    BY <1>1, <2>3, <2>4
  <2>8. QED
    BY <1>1, <2>1, <2>4, <2>5, <2>6, <2>7 DEF B
<1>4. QED
  BY <1>2, <1>3

\* What is lowered of a block is judged.
LEMMA LoweredJudged ==
  ASSUME NEW f, NEW t, NEW ty, NEW b, NEW s, CodeOK(f, t, ty, b, s)
  PROVE  \A k \in DOMAIN UpToEnd(s) : Judged(f, t, ty, b, UpToEnd(s)[k])
<1>1. s \in Seq(ToSet(s)) /\ \A k \in DOMAIN s : Judged(f, t, ty, b, s[k])
  BY DEF CodeOK, ToSet
<1>2. QED
  BY <1>1, UpToEndOK

LEMMA LoweredStays ==
  ASSUME NEW b, cg' = cg, tm' = tm, ir'[b] = ir[b], LoweredOK(b)
  PROVE  LoweredOK(b)'
BY DEF LoweredOK, Lowered, Lowerable

\* What a judged instruction reads and gives is in its block.
LEMMA JudgedInBlock ==
  ASSUME NEW f, NEW t, NEW ty, NEW b, NEW x, Judged(f, t, ty, b, x)
  PROVE  /\ \A v \in Reads(x) : BlockOf(f.code, v) = b
         /\ "ret" \in DOMAIN x => BlockOf(f.code, x.ret) = b
BY DEF Judged, InBlock

\* A block that was just lowered.
LEMMA LoweredNow ==
  ASSUME NEW b, NEW s, s = UpToEnd(cg[b]), cg' = cg, tm' = tm,
         ir'[b] = [k \in DOMAIN s |-> Lowered(s[k])], ReadsBefore(s), \A k \in DOMAIN s : Lowerable(s[k])
  PROVE  LoweredOK(b)'
BY DEF LoweredOK, Lowered, Lowerable

LEMMA LowerInit == CompileInit => LowerInv
BY DEF CompileInit, LowerInv, Nothing

LEMMA LowerBlockLowers ==
  ASSUME IInv, TypingInv, LowerInv, LowerBlock
  PROVE  LowerInv'
<1> PICK b : b = Head(block_indecies)
  OBVIOUS
<1> PICK insts : insts = UpToEnd(cg[b])
  OBVIOUS
<1>1. /\ state = "lower" /\ block_indecies # << >> /\ cg' = cg /\ tm' = tm /\ code' = code
      /\ \/ UNCHANGED lowering /\ state' \in {"refilled", "unlowered"}
         \/ /\ b \notin DOMAIN ir /\ CanLower(insts)
            /\ ir' = Put(ir, b, [k \in DOMAIN insts |-> Lowered(insts[k])])
            /\ values' = values \cup Results(insts)
            /\ state' = state
  BY DEF LowerBlock, function, analysis, code
<1>2. CASE UNCHANGED lowering /\ state' \in {"refilled", "unlowered"}
  <2>1. ir' = ir /\ values' = values
    BY <1>2 DEF lowering
  <2>2. \A c \in DOMAIN ir : LoweredOK(c)'
    BY <1>1, <2>1, LoweredStays DEF LowerInv
  <2>3. QED
    BY <1>1, <1>2, <2>1, <2>2 DEF LowerInv
<1>3. CASE /\ b \notin DOMAIN ir /\ CanLower(insts)
           /\ ir' = Put(ir, b, [k \in DOMAIN insts |-> Lowered(insts[k])])
           /\ values' = values \cup Results(insts)
           /\ state' = state
  <2>1. /\ DOMAIN ir' = DOMAIN ir \cup {b}
        /\ ir'[b] = [k \in DOMAIN insts |-> Lowered(insts[k])]
        /\ \A c \in DOMAIN ir : ir'[c] = ir[c]
    BY <1>3 DEF Put
  <2>2. b \in Blocks
    BY <1>1 DEF IInv, LoweringInv
  <2>3. \A k \in DOMAIN insts : Judged(fun, tm.tcx, tm.types, b, insts[k])
    <3>1. CodeOK(fun, tm.tcx, tm.types, b, cg[b])
      BY <1>1, <2>2 DEF TypingInv
    <3>2. \A k \in DOMAIN UpToEnd(cg[b]) : Judged(fun, tm.tcx, tm.types, b, UpToEnd(cg[b])[k])
      BY <3>1, LoweredJudged
    <3>3. QED
      BY <3>2
  <2>4. ReadsBefore(insts)
    <3>1. SUFFICES ASSUME NEW k \in DOMAIN insts, NEW v \in Reads(insts[k])
                   PROVE  v \in Results(SubSeq(insts, 1, k - 1))
      BY DEF ReadsBefore
    <3>2. v \in values \/ v \in Results(SubSeq(insts, 1, k - 1))
      BY <1>3, <3>1 DEF CanLower
    <3>3. BlockOf(code, v) = b
      BY <2>3, <3>1, JudgedInBlock DEF code
    <3>4. v \notin values
      BY <1>3, <3>3 DEF LowerInv
    <3>5. QED
      BY <3>2, <3>4
  <2>5. \A v \in Results(insts) : BlockOf(code, v) = b
    BY <2>3, JudgedInBlock DEF Results, code
  <2>6. \A v \in values' : BlockOf(code', v) \in DOMAIN ir'
    BY <1>1, <1>3, <2>1, <2>5 DEF LowerInv
  <2>7. LoweredOK(b)'
    <3>1. \A k \in DOMAIN insts : Lowerable(insts[k])
      BY <1>3 DEF CanLower
    <3>2. QED
      BY <1>1, <2>1, <2>4, <3>1, LoweredNow
  <2>8. \A c \in DOMAIN ir : LoweredOK(c)'
    BY <1>1, <2>1, LoweredStays DEF LowerInv
  <2>9. QED
    BY <1>1, <1>3, <2>1, <2>6, <2>7, <2>8 DEF LowerInv
<1>4. QED
  BY <1>1, <1>2, <1>3

LEMMA VerifyLowers ==
  ASSUME IInv, LowerInv, Verify
  PROVE  LowerInv'
<1>1. /\ state = "lower" /\ cg' = cg /\ tm' = tm /\ code' = code /\ ir' = ir /\ values' = values
      /\ state' \in {"compiled", "unverified"} /\ (state' = "compiled" => \A b \in DOMAIN ir : Verified(b))
  BY DEF Verify, function, analysis, lowering, code
<1>2. Entry \in DOMAIN ir
  <2>1. DOMAIN ir = Reachable /\ Entry \in Blocks
    BY VerifyOK, BlocksAreNumbers DEF IInv
  <2>2. QED
    BY <2>1 DEF Reachable, Closed
<1>3. \A b \in DOMAIN ir : LoweredOK(b)'
  BY <1>1, LoweredStays DEF LowerInv
<1>4. state' = "compiled" => \A b \in DOMAIN ir : Verified(b)'
  BY <1>1 DEF Verified
<1>5. QED
  BY <1>1, <1>2, <1>3, <1>4 DEF LowerInv

LEMMA StepLowered == ASSUME IInv, TypingInv, LowerInv, [Compile]_compiler PROVE LowerInv'
<1>1. CASE UNCHANGED compiler
  <2>1. /\ cg' = cg /\ tm' = tm /\ code' = code /\ ir' = ir /\ values' = values /\ state' = state
    BY <1>1 DEF compiler, function, analysis, lowering, code
  <2>2. \A b \in DOMAIN ir : LoweredOK(b)'
    BY <2>1, LoweredStays DEF LowerInv
  <2>3. QED
    BY <2>1, <2>2 DEF LowerInv, Verified
<1>2. CASE AnalyzeInst \/ LeaveBlock \/ StartLowering
  <2>1. state = "analyze" /\ ir' = ir /\ values' = values /\ code' = code
    BY <1>2 DEF AnalyzeInst, LeaveBlock, StartLowering, function, analysis, lowering, code
  <2>2. state' # "compiled"
    <3>1. CASE AnalyzeInst
      <4>1. state = "analyze" /\ state' \in {state, "rejected", "panicked"}
        BY <3>1 DEF AnalyzeInst
      <4>2. QED
        BY <4>1
    <3>2. CASE LeaveBlock \/ StartLowering
      BY <3>2 DEF LeaveBlock, StartLowering
    <3>3. QED
      BY <1>2, <3>1, <3>2
  <2>3. DOMAIN ir = {} /\ values = {}
    BY <2>1 DEF LowerInv
  <2>4. QED
    BY <2>1, <2>2, <2>3 DEF LowerInv
<1>3. QED
  BY <1>1, <1>2, LowerBlockLowers, VerifyLowers DEF Compile

-----------------------------------------------------------------------------
(* Values and the types they are of.                                       *)

\* The types a value of type i may be of, by those of the types before it.
Ways(t, f, i) ==
  IF IsUnionKind(KindOf(t, i)) THEN UNION {f[KindOf(t, i).union[n]] : n \in DOMAIN KindOf(t, i).union}
  ELSE {i}

LEMMA WaysLocal ==
  ASSUME NEW t, TableOK(t), NEW i \in DOMAIN t.types, NEW g, NEW h,
         \A j \in DOMAIN t.types : j < i => g[j] = h[j]
  PROVE  Ways(t, g, i) = Ways(t, h, i)
<1> DEFINE k == KindOf(t, i)
<1>1. CASE IsUnionKind(k)
  <2>1. \A n \in DOMAIN k.union : g[k.union[n]] = h[k.union[n]]
    BY <1>1 DEF TableOK, Founded, MembersBelow
  <2>2. {g[k.union[n]] : n \in DOMAIN k.union} = {h[k.union[n]] : n \in DOMAIN k.union}
    BY <2>1
  <2>3. QED
    BY <1>1, <2>2 DEF Ways
<1>2. CASE ~IsUnionKind(k)
  BY <1>2 DEF Ways
<1>3. QED
  BY <1>1, <1>2

\* Every type unfolds, as no type is a member of itself.
LEMMA UnfoldedIs ==
  ASSUME NEW t, TableOK(t), NEW id \in DOMAIN t.types
  PROVE  Unfolded(t)[id] = Ways(t, Unfolded(t), id)
<1> DEFINE D == DOMAIN t.types
           N == t.next_free
           Is(g, n) == g = [i \in {j \in D : j < n} |-> Ways(t, g, i)]
           S == {n \in Nat : \E g : Is(g, n)}
           L == CHOOSE g : g = [i \in D |-> Ways(t, g, i)]
<1>1. N \in Nat /\ \A i \in D : i \in Nat /\ i < N
  BY DEF TableOK, IdsBelow
<1> HIDE DEF D, N
<1>2. 0 \in S
  <2> DEFINE g == [i \in {j \in D : j < 0} |-> 0]
  <2>1. {j \in D : j < 0} = {}
    BY <1>1
  <2>2. Is(g, 0)
    BY <2>1
  <2> HIDE DEF g, Is
  <2>3. QED
    BY <2>2
<1>3. ASSUME NEW n \in 0 .. (N - 1), n \in S PROVE n + 1 \in S
  <2>1. PICK g : Is(g, n)
    BY <1>3
  <2> DEFINE h == [i \in {j \in D : j < n + 1} |-> IF i = n THEN Ways(t, g, n) ELSE g[i]]
  <2>2. \A i \in D : i < n => h[i] = g[i]
    BY <1>1
  <2>3. ASSUME NEW i \in D, i < n + 1 PROVE h[i] = Ways(t, h, i)
    <3>1. \A j \in D : j < i => g[j] = h[j]
      BY <1>1, <2>2, <2>3
    <3>2. Ways(t, g, i) = Ways(t, h, i)
      <4> HIDE DEF h
      <4>1. QED
        BY <3>1, WaysLocal DEF D
    <3>3. h[i] = Ways(t, g, i)
      BY <1>1, <2>1, <2>3
    <3>4. QED
      BY <3>2, <3>3
  <2>4. Is(h, n + 1)
    BY <2>3
  <2> HIDE DEF h, Is
  <2>5. QED
    BY <2>4
<1>4. N \in S
  <2> HIDE DEF S
  <2>1. QED
    BY <1>1, <1>2, <1>3, UpTo
<1>5. L = [i \in D |-> Ways(t, L, i)]
  <2>1. {j \in D : j < N} = D
    BY <1>1
  <2>2. \E g : g = [i \in D |-> Ways(t, g, i)]
    BY <1>4, <2>1
  <2>3. QED
    BY <2>2, Zenon
<1>6. Unfolded(t) = L
  BY DEF Unfolded, D, Ways
<1> HIDE DEF L
<1>7. QED
  BY <1>5, <1>6 DEF D

\* The types of a member of a union are types of the union.
LEMMA UnionUnfolds ==
  ASSUME NEW t, TableOK(t), NEW r \in DOMAIN t.types, IsUnionKind(KindOf(t, r)),
         NEW m \in ToSet(KindOf(t, r).union)
  PROVE  Unfolded(t)[m] \subseteq Unfolded(t)[r]
<1>1. Unfolded(t)[r] = Ways(t, Unfolded(t), r)
  BY UnfoldedIs
<1>2. PICK n \in DOMAIN KindOf(t, r).union : m = KindOf(t, r).union[n]
  BY DEF ToSet
<1>3. QED
  BY <1>1, <1>2 DEF Ways

LEMMA PlainUnfolds ==
  ASSUME NEW t, TableOK(t), NEW r \in DOMAIN t.types, ~IsUnionKind(KindOf(t, r))
  PROVE  Unfolded(t)[r] = {r}
BY UnfoldedIs DEF Ways

LEMMA CoveredTyped ==
  ASSUME NEW t, TableOK(t), NEW ty, NEW A, NEW v, NEW r, NEW members, Covers(t, r, members),
         NEW n \in DOMAIN members, TypedIn(t, ty, A, v, members[n])
  PROVE  TypedIn(t, ty, A, v, r)
<1>1. CASE members[n] = r
  BY <1>1
<1>2. CASE IsUnionKind(KindOf(t, r)) /\ members[n] \in ToSet(KindOf(t, r).union)
  <2>1. Unfolded(t)[members[n]] \subseteq Unfolded(t)[r]
    BY <1>2, UnionUnfolds DEF Covers
  <2>2. QED
    BY <2>1 DEF TypedIn
<1>3. QED
  BY <1>1, <1>2 DEF Covers

LEMMA TypedInMore ==
  ASSUME NEW t, NEW ty, NEW A, NEW B, A \subseteq B, NEW v, NEW r, TypedIn(t, ty, A, v, r)
  PROVE  TypedIn(t, ty, B, v, r)
BY DEF TypedIn, FitsIn

\* Values of the builtin classes, functions, and tuples.
LEMMA BuiltinTyped ==
  ASSUME NEW t, TableOK(t), NEW ty, NEW A, NEW v, v.is \in DOMAIN ClassOf, ClassOf[v.is] \in DOMAIN Tag
  PROVE  TypedIn(t, ty, A, v, Tag[ClassOf[v.is]])
<1> DEFINE b == ClassOf[v.is]
           k == KindOf(t, Tag[b])
<1>1. Tag[b] \in DOMAIN t.types /\ k = Builtin(b)
  BY DEF TableOK, Builtins
<1>2. ~IsUnionKind(k) /\ ~IsTupleKind(k) /\ ~IsCallableKind(k)
  <2>1. DOMAIN k = {"builtin"}
    BY <1>1 DEF Builtin
  <2> HIDE DEF k
  <2>2. QED
    BY <2>1 DEF IsUnionKind, IsTupleKind, IsCallableKind
<1>3. Unfolded(t)[Tag[b]] = {Tag[b]}
  BY <1>1, <1>2, PlainUnfolds
<1>4. FitsIn(t, ty, A, v, Tag[b])
  BY <1>2 DEF FitsIn
<1>5. QED
  BY <1>3, <1>4 DEF TypedIn

LEMMA FunctionTyped ==
  ASSUME NEW t, TableOK(t), NEW ty, NEW A, NEW r \in DOMAIN t.types, IsCallableKind(KindOf(t, r))
  PROVE  TypedIn(t, ty, A, FunctionValue, r)
<1>1. ~IsUnionKind(KindOf(t, r)) /\ ~IsTupleKind(KindOf(t, r))
  BY DEF IsUnionKind, IsTupleKind, IsCallableKind
<1>2. Unfolded(t)[r] = {r}
  BY <1>1, PlainUnfolds
<1>3. FitsIn(t, ty, A, FunctionValue, r)
  BY <1>1 DEF FitsIn
<1>4. QED
  BY <1>2, <1>3 DEF TypedIn

LEMMA TupleTyped ==
  ASSUME NEW t, TableOK(t), NEW ty, NEW A, NEW r \in DOMAIN t.types, IsTupleKind(KindOf(t, r)), NEW v
  PROVE  TypedIn(t, ty, A, v, r) <=> v.is = "address" /\ v.num \in A /\ ty[v.num] = r
<1>1. ~IsUnionKind(KindOf(t, r)) /\ ~IsCallableKind(KindOf(t, r))
  BY DEF IsUnionKind, IsTupleKind, IsCallableKind
<1>2. Unfolded(t)[r] = {r}
  BY <1>1, PlainUnfolds
<1>3. FitsIn(t, ty, A, v, r) <=> v.is = "address" /\ v.num \in A /\ ty[v.num] = r
  BY <1>1 DEF FitsIn
<1>4. QED
  BY <1>2, <1>3 DEF TypedIn

LEMMA EnvPut ==
  ASSUME NEW t, NEW ty, NEW A, NEW B, A \subseteq B, NEW e, EnvOK(t, ty, A, e),
         NEW i \in DOMAIN ty, NEW v, TypedIn(t, ty, B, v, ty[i])
  PROVE  EnvOK(t, ty, B, Put(e, i, v))
<1> DEFINE f == Put(e, i, v)
<1>1. /\ DOMAIN f = DOMAIN e \cup {i} /\ f[i] = v
      /\ \A j \in DOMAIN e : j # i => f[j] = e[j]
  BY DEF Put
<1> HIDE DEF f
<1>2. ASSUME NEW j \in DOMAIN f PROVE j \in DOMAIN ty /\ TypedIn(t, ty, B, f[j], ty[j])
  <2>1. CASE j = i
    BY <1>1, <2>1
  <2>2. CASE j # i
    BY <1>1, <2>2, TypedInMore DEF EnvOK
  <2>3. QED
    BY <2>1, <2>2
<1>3. QED
  BY <1>2 DEF EnvOK, f

LEMMA HeapPut ==
  ASSUME NEW t, NEW ty, NEW h, HeapOK(t, ty, h), NEW a \in DOMAIN ty, NEW cells,
         IsTupleKind(KindOf(t, ty[a])), CellsOK(t, ty, DOMAIN h, cells, KindOf(t, ty[a]))
  PROVE  HeapOK(t, ty, Put(h, a, cells))
<1> DEFINE g == Put(h, a, cells)
<1>1. /\ DOMAIN g = DOMAIN h \cup {a} /\ g[a] = cells
      /\ \A j \in DOMAIN h : j # a => g[j] = h[j]
  BY DEF Put
<1> HIDE DEF g
<1>2. ASSUME NEW j \in DOMAIN g
      PROVE  j \in DOMAIN ty /\ IsTupleKind(KindOf(t, ty[j])) /\ CellsOK(t, ty, DOMAIN g, g[j], KindOf(t, ty[j]))
  <2>1. j \in DOMAIN ty /\ IsTupleKind(KindOf(t, ty[j])) /\ CellsOK(t, ty, DOMAIN h, g[j], KindOf(t, ty[j]))
    BY <1>1 DEF HeapOK
  <2>2. DOMAIN h \subseteq DOMAIN g
    BY <1>1
  <2>3. QED
    BY <2>1, <2>2, TypedInMore DEF CellsOK
<1>3. QED
  BY <1>2 DEF HeapOK, g

-----------------------------------------------------------------------------
(* What is at a place in the IR.                                           *)

LEMMA LoweredIs ==
  ASSUME NEW x, x.op \in CgOps, "ret" \in DOMAIN x <=> x.op \in Giving
  PROVE  /\ x.op = "Alloc" => /\ Lowered(x).op = "alloc" /\ Lowered(x).ret = x.ret
                              /\ Lowered(x).stored = x.ilist
         /\ x.op = "FieldLoad" => /\ Lowered(x).op = "load" /\ Lowered(x).ret = x.ret
                                  /\ Lowered(x).addr = x.orig
         /\ x.op \notin {"Alloc", "FieldLoad"} => Lowered(x) = x
         /\ Ends(Lowered(x)) <=> Ends(x)
         /\ "ret" \in DOMAIN x => Lowered(x).ret = x.ret
         /\ ReadByIR(Lowered(x)) \subseteq Reads(x)
<1>1. CASE x.op = "Alloc"
  <2>1. Lowered(x) = [op |-> "alloc", ret |-> x.ret, stored |-> x.ilist,
                      offsets |-> FieldsOf(tm.tcx, x.type_id).offsets]
    BY <1>1 DEF Lowered
  <2>2. Lowered(x).op = "alloc" /\ Lowered(x).ret = x.ret /\ Lowered(x).stored = x.ilist
    BY <2>1
  <2>3. QED
    BY <1>1, <2>2 DEF Ends, ReadByIR, Reads
<1>2. CASE x.op = "FieldLoad"
  <2>1. Lowered(x) = [op |-> "load", ret |-> x.ret, addr |-> x.orig,
                      offset |-> FieldsOf(tm.tcx, x.orig_t).offsets[x.field]]
    BY <1>2 DEF Lowered
  <2>2. Lowered(x).op = "load" /\ Lowered(x).ret = x.ret /\ Lowered(x).addr = x.orig
    BY <2>1
  <2>3. QED
    BY <1>2, <2>2 DEF Ends, ReadByIR, Reads
<1>3. CASE x.op \notin {"Alloc", "FieldLoad"}
  <2>1. Lowered(x) = x
    BY <1>3 DEF Lowered
  <2>2. x.op \notin {"alloc", "load"}
    BY DEF CgOps, Giving, Jumps
  <2>3. QED
    BY <1>3, <2>1, <2>2 DEF ReadByIR
<1>4. QED
  BY <1>1, <1>2, <1>3

\* A block of a function that compiled ends with its only end.
LEMMA AtBlock ==
  ASSUME IInv, TypingInv, LowerInv, state = "compiled", NEW b \in DOMAIN ir, NEW s, s = UpToEnd(cg[b])
  PROVE  /\ b \in Nat
         /\ s \in Seq(ToSet(s)) /\ Len(s) \in Nat /\ DOMAIN s = 1 .. Len(s) /\ Len(s) \in DOMAIN s
         /\ DOMAIN ir[b] = DOMAIN s
         /\ \A k \in DOMAIN s :
              /\ ir[b][k] = Lowered(s[k])
              /\ Judged(fun, tm.tcx, tm.types, b, s[k])
              /\ Reads(s[k]) \subseteq Results(SubSeq(s, 1, k - 1))
              /\ Ends(s[k]) <=> k = Len(s)
              /\ JumpsTo(ir[b][k]) \subseteq DOMAIN ir
<1>1. b \in Blocks
  BY DEF IInv, LoweringInv, Explores
<1>2. CodeOK(fun, tm.tcx, tm.types, b, cg[b])
  BY <1>1 DEF TypingInv
<1>3. cg[b] \in Seq(ToSet(cg[b]))
  BY <1>2 DEF CodeOK
<1>4. /\ s \in Seq(ToSet(cg[b])) /\ Len(s) \in Nat /\ DOMAIN s = 1 .. Len(s)
      /\ \A k \in DOMAIN s : Ends(s[k]) => k = Len(s)
  BY <1>3, UpToEndOK
<1>5. s \in Seq(ToSet(s))
  BY <1>4 DEF ToSet
<1>6. \A k \in DOMAIN s : Judged(fun, tm.tcx, tm.types, b, s[k])
  BY <1>2, LoweredJudged
<1>7. ir[b] = [k \in DOMAIN s |-> Lowered(s[k])] /\ ReadsBefore(s)
  BY DEF LowerInv, LoweredOK
<1>8. DOMAIN ir[b] = DOMAIN s /\ \A k \in DOMAIN s : ir[b][k] = Lowered(s[k])
  BY <1>7
<1>9. /\ \E k \in DOMAIN ir[b] : Ends(ir[b][k])
      /\ \A k \in DOMAIN ir[b] : JumpsTo(ir[b][k]) \subseteq DOMAIN ir
  BY DEF LowerInv, Verified
<1>10. \A k \in DOMAIN s : Ends(ir[b][k]) <=> Ends(s[k])
  <2>1. \A x : Judged(fun, tm.tcx, tm.types, b, x) => (Ends(Lowered(x)) <=> Ends(x))
    BY LoweredIs DEF Judged
  <2>2. QED
    BY <1>6, <1>8, <2>1
<1>11. PICK e \in DOMAIN s : Ends(s[e])
  BY <1>8, <1>9, <1>10
<1>12. e = Len(s)
  BY <1>4, <1>11
<1>13. b \in Nat
  BY <1>1, BlocksAreNumbers DEF IInv
<1>14. \A k \in DOMAIN s : Reads(s[k]) \subseteq Results(SubSeq(s, 1, k - 1))
  BY <1>7 DEF ReadsBefore
<1>15. QED
  BY <1>4, <1>5, <1>6, <1>8, <1>9, <1>11, <1>12, <1>13, <1>14

\* What the first k instructions give.
LEMMA ResultsNext ==
  ASSUME NEW s, s \in Seq(ToSet(s)), NEW k \in 1 .. Len(s), NEW v \in Results(SubSeq(s, 1, k))
  PROVE  v \in Results(SubSeq(s, 1, k - 1)) \/ ("ret" \in DOMAIN s[k] /\ v = s[k].ret)
<1> DEFINE B == ToSet(s)
           p == SubSeq(s, 1, k)
           q == SubSeq(s, 1, k - 1)
<1> HIDE DEF B
<1>1. s \in Seq(B) /\ Len(s) \in Nat /\ k \in Nat
  BY DEF B
<1>2. p \in Seq(B) /\ Len(p) = k /\ \A j \in 1 .. k : p[j] = s[j]
  BY <1>1
<1>3. q \in Seq(B) /\ Len(q) = k - 1 /\ \A j \in 1 .. (k - 1) : q[j] = s[j]
  BY <1>1
<1> HIDE DEF p, q
<1>4. PICK j \in DOMAIN p : "ret" \in DOMAIN p[j] /\ v = p[j].ret
  BY DEF Results, p
<1>5. j \in 1 .. k /\ DOMAIN q = 1 .. (k - 1)
  BY <1>1, <1>2, <1>3
<1>6. CASE j = k
  BY <1>2, <1>4, <1>5, <1>6
<1>7. CASE j # k
  <2>1. j \in DOMAIN q /\ q[j] = p[j]
    BY <1>1, <1>2, <1>3, <1>5, <1>7
  <2>2. v \in Results(q)
    BY <1>4, <2>1 DEF Results
  <2>3. QED
    BY <2>2 DEF q
<1>8. QED
  BY <1>6, <1>7

LEMMA NoResults == ASSUME NEW s, s \in Seq(ToSet(s)) PROVE Results(SubSeq(s, 1, 0)) = {}
<1>1. Len(SubSeq(s, 1, 0)) = 0 /\ DOMAIN SubSeq(s, 1, 0) = {}
  OBVIOUS
<1>2. QED
  BY <1>1 DEF Results

\* A run can start when the function has compiled.
LEMMA RunStarts ==
  ASSUME SoundInv, state = "compiled"
  PROVE  RunOK
<1>1. SUFFICES ASSUME NotStarted PROVE RunOK
  BY DEF SoundInv, RunInv
<1>2. Entry \in DOMAIN ir
  BY DEF SoundInv, LowerInv
<1> PICK s : s = UpToEnd(cg[Entry])
  OBVIOUS
<1>3. /\ s \in Seq(ToSet(s)) /\ Len(s) \in Nat /\ DOMAIN s = 1 .. Len(s) /\ Len(s) \in DOMAIN s
      /\ DOMAIN ir[Entry] = DOMAIN s
  BY <1>2, AtBlock DEF SoundInv
<1>4. at = <<Entry, 1>> /\ at[1] = Entry /\ at[2] = 1 /\ DOMAIN env = {} /\ DOMAIN heap = {} /\ returned = FALSE
  BY <1>1 DEF NotStarted, Nothing
<1>5. 1 \in DOMAIN ir[Entry] /\ Entry \in Nat
  BY <1>3 DEF Entry
<1>6. Results(SubSeq(s, 1, at[2] - 1)) = {}
  BY <1>3, <1>4, NoResults
<1>7. EnvOK(tm.tcx, tm.types, DOMAIN heap, env) /\ HeapOK(tm.tcx, tm.types, heap)
  BY <1>4 DEF EnvOK, HeapOK
<1>8. QED
  BY <1>2, <1>4, <1>5, <1>6, <1>7 DEF RunOK

-----------------------------------------------------------------------------
(* Going on in the IR.                                                     *)

\* The current instruction is what x was lowered to; what it reads is there.
Here(x) ==
  /\ Judged(fun, tm.tcx, tm.types, at[1], x)
  /\ Current = Lowered(x)
  /\ Reads(x) \subseteq DOMAIN env
  /\ JumpsTo(Current) \subseteq DOMAIN ir
  /\ ~Ends(x) => at[2] + 1 \in DOMAIN ir[at[1]]
  /\ \A v \in Results(SubSeq(UpToEnd(cg[at[1]]), 1, at[2])) :
       v \in DOMAIN env \/ ("ret" \in DOMAIN x /\ v = x.ret)

LEMMA AtInst ==
  ASSUME SoundInv, state = "compiled"
  PROVE  \E x : Here(x)
<1> PICK b, k, s : b = at[1] /\ k = at[2] /\ s = UpToEnd(cg[b])
  OBVIOUS
<1>1. /\ b \in DOMAIN ir /\ k \in DOMAIN ir[b] /\ k \in Nat
      /\ Results(SubSeq(s, 1, k - 1)) \subseteq DOMAIN env
  BY RunStarts DEF RunOK
<1>2. /\ b \in Nat
      /\ s \in Seq(ToSet(s)) /\ Len(s) \in Nat /\ DOMAIN s = 1 .. Len(s) /\ Len(s) \in DOMAIN s
      /\ DOMAIN ir[b] = DOMAIN s
      /\ \A j \in DOMAIN s :
              /\ ir[b][j] = Lowered(s[j])
              /\ Judged(fun, tm.tcx, tm.types, b, s[j])
              /\ Reads(s[j]) \subseteq Results(SubSeq(s, 1, j - 1))
              /\ Ends(s[j]) <=> j = Len(s)
              /\ JumpsTo(ir[b][j]) \subseteq DOMAIN ir
  <2>1. IInv /\ TypingInv /\ LowerInv
    BY DEF SoundInv
  <2>2. s = UpToEnd(cg[b]) /\ b \in DOMAIN ir
    BY <1>1
  <2>3. QED
    BY <2>1, <2>2, AtBlock
<1> PICK x : x = s[k]
  OBVIOUS
<1>3. k \in DOMAIN s /\ k \in 1 .. Len(s) /\ Current = ir[b][k]
  BY <1>1, <1>2 DEF Current
<1>4. /\ Judged(fun, tm.tcx, tm.types, b, x) /\ Current = Lowered(x)
      /\ Reads(x) \subseteq DOMAIN env /\ JumpsTo(Current) \subseteq DOMAIN ir
  BY <1>1, <1>2, <1>3
<1>5. ~Ends(x) => k + 1 \in DOMAIN ir[b]
  BY <1>2, <1>3
<1>6. \A v \in Results(SubSeq(s, 1, k)) : v \in DOMAIN env \/ ("ret" \in DOMAIN x /\ v = x.ret)
  BY <1>1, <1>2, <1>3, ResultsNext
<1>7. QED
  BY <1>4, <1>5, <1>6 DEF Here

\* To the next instruction.
LEMMA StepOn ==
  ASSUME SoundInv, state = "compiled", NEW x, Here(x), ~Ends(x),
         UNCHANGED compiler, Step, returned # TRUE,
         DOMAIN env \subseteq DOMAIN env', "ret" \in DOMAIN x => x.ret \in DOMAIN env',
         EnvOK(tm.tcx, tm.types, DOMAIN heap', env'), HeapOK(tm.tcx, tm.types, heap')
  PROVE  RunInv'
<1> PICK b, k, s : b = at[1] /\ k = at[2] /\ s = UpToEnd(cg[b])
  OBVIOUS
<1>1. state' = state /\ ir' = ir /\ cg' = cg /\ tm' = tm /\ returned' = returned
  BY DEF compiler, lowering, analysis, Step
<1>2. at' = <<b, k + 1>> /\ at'[1] = b /\ at'[2] = k + 1
  BY DEF Step
<1>3. b \in Nat /\ k \in Nat /\ b \in DOMAIN ir
  BY RunStarts DEF RunOK
<1>4. k + 1 \in DOMAIN ir[b] /\ \A v \in Results(SubSeq(s, 1, k)) : v \in DOMAIN env'
  BY DEF Here
<1>5. Results(SubSeq(s, 1, at'[2] - 1)) \subseteq DOMAIN env'
  BY <1>2, <1>3, <1>4
<1>6. UpToEnd(cg[at[1]])' = s
  BY <1>1, <1>2 DEF UpToEnd
<1>7. at' \in Nat \X Nat /\ at'[1] \in DOMAIN ir' /\ at'[2] \in DOMAIN ir'[at'[1]]
  BY <1>1, <1>2, <1>3, <1>4
<1>8. RunOK'
  BY <1>1, <1>5, <1>6, <1>7 DEF RunOK
<1>9. QED
  BY <1>1, <1>8 DEF RunInv

\* To the start of a block.
LEMMA JumpOn ==
  ASSUME SoundInv, state = "compiled", NEW b \in DOMAIN ir, UNCHANGED compiler, GoTo(b),
         returned # TRUE, UNCHANGED <<env, heap>>
  PROVE  RunInv'
<1> PICK s : s = UpToEnd(cg[b])
  OBVIOUS
<1>1. state' = state /\ ir' = ir /\ cg' = cg /\ tm' = tm /\ returned' = returned /\ env' = env /\ heap' = heap
  BY DEF compiler, lowering, analysis, GoTo
<1>2. at' = <<b, 1>> /\ at'[1] = b /\ at'[2] = 1
  BY DEF GoTo
<1>3. /\ b \in Nat /\ s \in Seq(ToSet(s)) /\ Len(s) \in Nat /\ DOMAIN s = 1 .. Len(s) /\ Len(s) \in DOMAIN s
      /\ DOMAIN ir[b] = DOMAIN s
  BY AtBlock DEF SoundInv
<1>4. Results(SubSeq(s, 1, at'[2] - 1)) = {}
  BY <1>2, <1>3, NoResults
<1>5. UpToEnd(cg[at[1]])' = s
  BY <1>1, <1>2 DEF UpToEnd
<1>6. 1 \in DOMAIN s
  BY <1>3
<1>7. at' \in Nat \X Nat /\ at'[1] \in DOMAIN ir' /\ at'[2] \in DOMAIN ir'[at'[1]]
  BY <1>1, <1>2, <1>3, <1>6
<1>8. EnvOK(tm.tcx, tm.types, DOMAIN heap, env) /\ HeapOK(tm.tcx, tm.types, heap)
  BY RunStarts DEF RunOK
<1>9. RunOK'
  BY <1>1, <1>4, <1>5, <1>7, <1>8 DEF RunOK
<1>10. QED
  BY <1>1, <1>9 DEF RunInv

\* A value is put in the environment, and the memory stays as it is.
LEMMA PutTyped ==
  ASSUME SoundInv, state = "compiled", NEW x, Here(x), x.op \in Giving,
         UNCHANGED compiler, Step, returned # TRUE, heap' = heap,
         NEW v, env' = Put(env, x.ret, v), TypedIn(tm.tcx, tm.types, DOMAIN heap, v, tm.types[x.ret])
  PROVE  RunInv'
<1>1. x.ret \in DOMAIN tm.types
  BY DEF Here, Judged
<1>2. EnvOK(tm.tcx, tm.types, DOMAIN heap, env) /\ HeapOK(tm.tcx, tm.types, heap)
  BY RunStarts DEF RunOK
<1>3. EnvOK(tm.tcx, tm.types, DOMAIN heap, Put(env, x.ret, v))
  BY <1>1, <1>2, EnvPut
<1>4. DOMAIN env' = DOMAIN env \cup {x.ret}
  BY DEF Put
<1>5. ~Ends(x)
  BY DEF Ends, Giving
<1>6. QED
  BY <1>2, <1>3, <1>4, <1>5, StepOn

-----------------------------------------------------------------------------
(* A run keeps types.                                                      *)

LEMMA HereIs ==
  ASSUME NEW x, Here(x)
  PROVE  /\ Current.op = "alloc" => /\ x.op = "Alloc" /\ Current.ret = x.ret
                                    /\ Current.stored = x.ilist
         /\ Current.op = "load" => /\ x.op = "FieldLoad" /\ Current.ret = x.ret
                                   /\ Current.addr = x.orig
         /\ Current.op \notin {"alloc", "load"} => Current = x
         /\ Ends(Current) <=> Ends(x)
<1>1. x.op \in CgOps /\ ("ret" \in DOMAIN x <=> x.op \in Giving) /\ Current = Lowered(x)
  BY DEF Here, Judged
<1>2. x.op \notin {"alloc", "load"}
  BY <1>1 DEF CgOps, Giving, Jumps
<1>3. QED
  BY <1>1, <1>2, LoweredIs

LEMMA TypesHere ==
  ASSUME SoundInv, state = "compiled"
  PROVE  TableOK(tm.tcx) /\ \A i \in DOMAIN tm.types : tm.types[i] \in DOMAIN tm.tcx.types
BY DEF SoundInv, TypingInv, MachineOK, ValueOK

\* What an instruction reads is of the type it is known with.
LEMMA ReadTyped ==
  ASSUME SoundInv, state = "compiled", NEW x, Here(x), NEW i \in Reads(x)
  PROVE  i \in DOMAIN env /\ i \in DOMAIN tm.types /\ TypedIn(tm.tcx, tm.types, DOMAIN heap, env[i], tm.types[i])
BY RunStarts DEF Here, RunOK, EnvOK

LEMMA RunConstOK ==
  ASSUME SoundInv, RunConst, UNCHANGED compiler
  PROVE  RunInv'
<1>1. /\ state = "compiled" /\ returned # TRUE /\ Current.op = "Const"
      /\ env' = Put(env, Current.ret, ConstantValue(Current.cst)) /\ Step /\ heap' = heap
  BY DEF RunConst, Runs, Running
<1>2. PICK x : Here(x)
  BY <1>1, AtInst
<1>3. Current = x /\ x.op = "Const"
  BY <1>1, <1>2, HereIs
<1> DEFINE v == ConstantValue(x.cst)
<1>4. v.is = x.cst[1] /\ x.cst[1] \in DOMAIN ClassOf /\ tm.types[x.ret] = Tag[ClassOf[x.cst[1]]]
  BY <1>2, <1>3 DEF ConstantValue, Scalar, Here, Judged, ConstantType
<1>5. ClassOf[x.cst[1]] \in DOMAIN Tag
  BY <1>4, ConstantTypes
<1> HIDE DEF v
<1>6. TypedIn(tm.tcx, tm.types, DOMAIN heap, v, tm.types[x.ret])
  BY <1>1, <1>4, <1>5, TypesHere, BuiltinTyped
<1>7. x.op \in Giving
  BY <1>3 DEF Giving
<1>8. QED
  BY <1>1, <1>2, <1>3, <1>6, <1>7, PutTyped DEF v

LEMMA RunUseOK ==
  ASSUME SoundInv, RunUse, UNCHANGED compiler
  PROVE  RunInv'
<1>1. /\ state = "compiled" /\ returned # TRUE /\ Current.op = "Use"
      /\ env' = Put(env, Current.ret, FunctionValue) /\ Step /\ heap' = heap
  BY DEF RunUse, Runs, Running
<1>2. PICK x : Here(x)
  BY <1>1, AtInst
<1>3. Current = x /\ x.op = "Use"
  BY <1>1, <1>2, HereIs
<1>4. x.op \in Giving
  BY <1>3 DEF Giving
<1>5. x.ret \in DOMAIN tm.types /\ IsCallableKind(KindOf(tm.tcx, tm.types[x.ret]))
  BY <1>2, <1>3, <1>4 DEF Here, Judged
<1>6. TypedIn(tm.tcx, tm.types, DOMAIN heap, FunctionValue, tm.types[x.ret])
  BY <1>1, <1>5, TypesHere, FunctionTyped
<1>7. QED
  BY <1>1, <1>2, <1>3, <1>4, <1>6, PutTyped

\* A tuple is stored with the types of its members.
LEMMA RunAllocOK ==
  ASSUME SoundInv, RunAlloc, UNCHANGED compiler
  PROVE  RunInv'
<1>1. /\ state = "compiled" /\ returned # TRUE /\ Current.op = "alloc" /\ Step
      /\ heap' = Put(heap, Current.ret,
                     [i \in DOMAIN Current.stored |-> [offset |-> Current.offsets[i],
                                                       value |-> env[Current.stored[i]]]])
      /\ env' = Put(env, Current.ret, Address(Current.ret))
  BY DEF RunAlloc, Runs, Running
<1>2. PICK x : Here(x)
  BY <1>1, AtInst
<1>3. x.op = "Alloc" /\ Current.ret = x.ret /\ Current.stored = x.ilist
  BY <1>1, <1>2, HereIs
<1> PICK t, ty, a, k : t = tm.tcx /\ ty = tm.types /\ a = x.ret /\ k = KindOf(t, ty[a])
  OBVIOUS
<1> DEFINE cells == [i \in DOMAIN x.ilist |-> [offset |-> Current.offsets[i], value |-> env[x.ilist[i]]]]
<1>4. heap' = Put(heap, a, cells) /\ env' = Put(env, a, Address(a))
  BY <1>1, <1>3
<1>5. /\ a \in DOMAIN ty /\ ~Ends(x) /\ "ret" \in DOMAIN x
      /\ k = TupleKind([n \in DOMAIN x.ilist |-> ty[x.ilist[n]]])
  BY <1>2, <1>3 DEF Here, Judged, Giving, Ends
<1>6. IsTupleKind(k) /\ k.tuple = [n \in DOMAIN x.ilist |-> ty[x.ilist[n]]]
  BY <1>5 DEF TupleKind, IsTupleKind
<1>7. DOMAIN cells = DOMAIN x.ilist /\ \A n \in DOMAIN x.ilist : cells[n].value = env[x.ilist[n]]
  OBVIOUS
<1> HIDE DEF cells
<1>8. \A n \in DOMAIN x.ilist : TypedIn(t, ty, DOMAIN heap, env[x.ilist[n]], ty[x.ilist[n]])
  <2>1. \A n \in DOMAIN x.ilist : x.ilist[n] \in Reads(x)
    BY <1>3 DEF Reads, ToSet
  <2>2. QED
    BY <1>1, <1>2, <2>1, ReadTyped
<1>9. CellsOK(t, ty, DOMAIN heap, cells, k)
  BY <1>6, <1>7, <1>8 DEF CellsOK
<1>10. EnvOK(t, ty, DOMAIN heap, env) /\ HeapOK(t, ty, heap)
  BY <1>1, RunStarts DEF RunOK
<1>11. HeapOK(t, ty, heap')
  BY <1>4, <1>5, <1>6, <1>9, <1>10, HeapPut
<1>12. DOMAIN heap' = DOMAIN heap \cup {a} /\ DOMAIN env' = DOMAIN env \cup {a}
  BY <1>4 DEF Put
<1>13. TypedIn(t, ty, DOMAIN heap', Address(a), ty[a])
  <2>1. Address(a).is = "address" /\ Address(a).num = a
    BY DEF Address, Scalar
  <2>2. TableOK(t) /\ ty[a] \in DOMAIN t.types
    BY <1>1, <1>5, TypesHere
  <2>3. QED
    BY <1>6, <1>12, <2>1, <2>2, TupleTyped
<1>14. EnvOK(t, ty, DOMAIN heap', env')
  <2>1. DOMAIN heap \subseteq DOMAIN heap'
    BY <1>12
  <2>2. QED
    BY <1>4, <1>5, <1>10, <1>13, <2>1, EnvPut
<1>15. QED
  BY <1>1, <1>2, <1>5, <1>11, <1>12, <1>14, StepOn

\* What is read from a tuple is of the type of its items.
LEMMA RunLoadOK ==
  ASSUME SoundInv, RunLoad, UNCHANGED compiler
  PROVE  RunInv'
<1>1. /\ state = "compiled" /\ returned # TRUE /\ Current.op = "load" /\ Step /\ heap' = heap
      /\ \E cell \in ToSet(heap[env[Current.addr].num]) : env' = Put(env, Current.ret, cell.value)
  BY DEF RunLoad, Runs, Running
<1>2. PICK x : Here(x)
  BY <1>1, AtInst
<1>3. x.op = "FieldLoad" /\ Current.ret = x.ret /\ Current.addr = x.orig
  BY <1>1, <1>2, HereIs
<1> PICK t, ty, k : t = tm.tcx /\ ty = tm.types /\ k = KindOf(t, x.orig_t)
  OBVIOUS
<1>4. /\ x.orig \in Reads(x) /\ x.ret \in DOMAIN ty /\ x.op \in Giving /\ ty[x.orig] = x.orig_t
      /\ IsTupleKind(k) /\ Covers(t, ty[x.ret], k.tuple)
  BY <1>2, <1>3 DEF Here, Judged, Giving, Reads
<1>5. x.orig \in DOMAIN ty /\ TypedIn(t, ty, DOMAIN heap, env[x.orig], x.orig_t)
  BY <1>1, <1>2, <1>4, ReadTyped
<1>6. TableOK(t) /\ x.orig_t \in DOMAIN t.types
  BY <1>1, <1>4, <1>5, TypesHere
<1> PICK a : a = env[x.orig].num
  OBVIOUS
<1>7. a \in DOMAIN heap /\ ty[a] = x.orig_t
  BY <1>4, <1>5, <1>6, TupleTyped
<1>8. CellsOK(t, ty, DOMAIN heap, heap[a], k)
  BY <1>1, <1>7, RunStarts DEF RunOK, HeapOK
<1>9. PICK cell \in ToSet(heap[a]) : env' = Put(env, x.ret, cell.value)
  BY <1>1, <1>3
<1>10. PICK n \in DOMAIN heap[a] : cell = heap[a][n]
  BY DEF ToSet
<1>11. n \in DOMAIN k.tuple /\ TypedIn(t, ty, DOMAIN heap, cell.value, k.tuple[n])
  BY <1>8, <1>10 DEF CellsOK
<1>12. TypedIn(t, ty, DOMAIN heap, cell.value, ty[x.ret])
  BY <1>4, <1>6, <1>11, CoveredTyped
<1>13. QED
  BY <1>1, <1>2, <1>4, <1>9, <1>12, PutTyped

-----------------------------------------------------------------------------
\* A method of a builtin class returns what it is annotated with.
LEMMA MethodReturns ==
  ASSUME NEW f, IsMethod(f), NEW args
  PROVE  MethodResult(f, args).is \in DOMAIN ClassOf /\ ClassOf[MethodResult(f, args).is] = Globals[f].ret
<1>1. \/ f \in {"int_bool", "bool_bool", "int_eq"} /\ Globals[f].ret = "Bool"
      \/ f = "int_add" /\ Globals[f].ret = "Int"
  BY MethodsAssumption DEF IsMethod
<1> DEFINE r == MethodResult(f, args)
<1>2. CASE f \in {"int_bool", "bool_bool"}
  <2>1. r = Scalar("bool", IF args[1].num = 0 THEN 0 ELSE 1)
    BY <1>2 DEF MethodResult
  <2>2. r.is = "bool"
    BY <2>1 DEF Scalar
  <2> HIDE DEF r
  <2>3. QED
    BY <1>1, <1>2, <2>2 DEF ClassOf, r
<1>3. CASE f = "int_eq"
  <2>1. r = Scalar("bool", IF args[1].num = args[2].num THEN 1 ELSE 0)
    BY <1>3 DEF MethodResult
  <2>2. r.is = "bool"
    BY <2>1 DEF Scalar
  <2> HIDE DEF r
  <2>3. QED
    BY <1>1, <1>3, <2>2 DEF ClassOf, r
<1>4. CASE f = "int_add"
  <2>1. r = Scalar("int", args[1].num + args[2].num)
    BY <1>4 DEF MethodResult
  <2>2. r.is = "int"
    BY <2>1 DEF Scalar
  <2> HIDE DEF r
  <2>3. QED
    BY <1>1, <1>4, <2>2 DEF ClassOf, r
<1>5. QED
  BY <1>1, <1>2, <1>3, <1>4

\* What a function or a method returns has the type that the call is known with.
LEMMA CallOn ==
  ASSUME SoundInv, state = "compiled", Current.op = "Call", UNCHANGED compiler, Step, returned # TRUE,
         heap' = heap, NEW v, env' = Put(env, Current.ret, v),
         v.is \in DOMAIN ClassOf, ClassOf[v.is] = Globals[Current.value].ret
  PROVE  RunInv'
<1>1. PICK x : Here(x)
  BY AtInst
<1>2. Current = x /\ x.op = "Call"
  BY <1>1, HereIs
<1>3. x.op \in Giving /\ tm.types[x.ret] = Tag[Globals[x.value].ret]
  BY <1>1, <1>2 DEF Here, Judged, Giving
<1>4. TypedIn(tm.tcx, tm.types, DOMAIN heap, v, Tag[ClassOf[v.is]])
  BY TypesHere, BuiltinTyped, ConstantTypes
<1>5. QED
  BY <1>1, <1>2, <1>3, <1>4, PutTyped

LEMMA RunMethodOK ==
  ASSUME SoundInv, RunMethod, UNCHANGED compiler
  PROVE  RunInv'
<1>1. /\ state = "compiled" /\ returned # TRUE /\ Current.op = "Call" /\ IsMethod(Current.value)
      /\ Step /\ heap' = heap
  BY DEF RunMethod, Runs, Running
<1> PICK v : v = MethodResult(Current.value, [n \in DOMAIN Current.args |-> env[Current.args[n]]])
  OBVIOUS
<1>2. env' = Put(env, Current.ret, v)
  BY DEF RunMethod
<1>3. v.is \in DOMAIN ClassOf /\ ClassOf[v.is] = Globals[Current.value].ret
  BY <1>1, MethodReturns
<1>4. QED
  BY <1>1, <1>2, <1>3, CallOn

LEMMA RunCallOK ==
  ASSUME SoundInv, RunCall, UNCHANGED compiler
  PROVE  RunInv'
<1>1. /\ state = "compiled" /\ returned # TRUE /\ Current.op = "Call" /\ Step /\ heap' = heap
      /\ \E r \in ResultsOf(Current.value) : env' = Put(env, Current.ret, r)
  BY DEF RunCall, Runs, Running
<1>2. PICK r \in ResultsOf(Current.value) : env' = Put(env, Current.ret, r)
  BY <1>1
<1>3. Current.value \in DOMAIN Globals
  <2>1. PICK x : Here(x)
    BY <1>1, AtInst
  <2>2. QED
    BY <1>1, <2>1, HereIs DEF Here, Judged
<1>4. PICK o \in Outcomes[Globals[Current.value].ret] : r = Scalar(o[1], o[2])
  BY <1>2 DEF ResultsOf
<1>5. o[1] \in DOMAIN ClassOf /\ ClassOf[o[1]] = Globals[Current.value].ret
  BY <1>3, <1>4, OutcomesAssumption
<1>6. r.is = o[1]
  BY <1>4 DEF Scalar
<1>7. QED
  BY <1>1, <1>2, <1>5, <1>6, CallOn

LEMMA RunWriteOK ==
  ASSUME SoundInv, RunWrite, UNCHANGED compiler
  PROVE  RunInv'
<1>1. /\ state = "compiled" /\ returned # TRUE /\ Current.op = "WriteLocalVar"
      /\ Step /\ env' = env /\ heap' = heap
  BY DEF RunWrite, Runs, Running
<1>2. PICK x : Here(x)
  BY <1>1, AtInst
<1>3. x.op = "WriteLocalVar"
  BY <1>1, <1>2, HereIs
<1>4. ~Ends(x) /\ "ret" \notin DOMAIN x
  BY <1>2, <1>3 DEF Here, Judged, Giving, Ends
<1>5. EnvOK(tm.tcx, tm.types, DOMAIN heap, env) /\ HeapOK(tm.tcx, tm.types, heap)
  BY <1>1, RunStarts DEF RunOK
<1>6. QED
  BY <1>1, <1>2, <1>4, <1>5, StepOn

LEMMA RunBranchOK ==
  ASSUME SoundInv, RunBranch, UNCHANGED compiler
  PROVE  RunInv'
<1>1. /\ state = "compiled" /\ returned # TRUE /\ Current.op \in {"JumpIfTrue", "JumpIfFalse"}
      /\ GoTo(Current.to) \/ Step
      /\ env' = env /\ heap' = heap
  BY DEF RunBranch, Runs, Running
<1>2. PICK x : Here(x)
  BY <1>1, AtInst
<1>3. Current = x /\ x.op \in {"JumpIfTrue", "JumpIfFalse"}
  BY <1>1, <1>2, HereIs
<1>4. CASE GoTo(Current.to)
  <2>1. Current.to \in DOMAIN ir
    BY <1>1, <1>2 DEF Here, JumpsTo
  <2>2. QED
    BY <1>1, <1>4, <2>1, JumpOn
<1>5. CASE Step
  <2>1. ~Ends(x) /\ "ret" \notin DOMAIN x
    BY <1>2, <1>3 DEF Here, Judged, Giving, Ends
  <2>2. EnvOK(tm.tcx, tm.types, DOMAIN heap, env) /\ HeapOK(tm.tcx, tm.types, heap)
    BY <1>1, RunStarts DEF RunOK
  <2>3. QED
    BY <1>1, <1>2, <1>5, <2>1, <2>2, StepOn
<1>6. QED
  BY <1>1, <1>4, <1>5

LEMMA RunJumpOK ==
  ASSUME SoundInv, RunJump, UNCHANGED compiler
  PROVE  RunInv'
<1>1. /\ state = "compiled" /\ returned # TRUE /\ Current.op = "Jump"
      /\ GoTo(Current.to) /\ env' = env /\ heap' = heap
  BY DEF RunJump, Runs, Running
<1>2. PICK x : Here(x)
  BY <1>1, AtInst
<1>3. Current.to \in DOMAIN ir
  BY <1>1, <1>2 DEF Here, JumpsTo
<1>4. QED
  BY <1>1, <1>3, JumpOn

\* The flat code goes on, or the IR returns: the IR is where it was.
LEMMA RunStays ==
  ASSUME SoundInv, state = "compiled", UNCHANGED <<at, env, heap>>, UNCHANGED compiler,
         returned' = returned \/ Current.op = "Return"
  PROVE  RunInv'
<1>1. state' = state /\ ir' = ir /\ cg' = cg /\ tm' = tm /\ at' = at /\ env' = env /\ heap' = heap
  BY DEF compiler, lowering, analysis
<1>2. RunOK
  BY RunStarts
<1>3. Current' = Current /\ UpToEnd(cg[at[1]])' = UpToEnd(cg[at[1]])
  BY <1>1 DEF Current, UpToEnd
<1>4. returned' = TRUE => Current.op = "Return"
  BY <1>2 DEF RunOK
<1>5. RunOK'
  BY <1>1, <1>2, <1>3, <1>4 DEF RunOK
<1>6. QED
  BY <1>1, <1>5 DEF RunInv

LEMMA RunKeeps ==
  ASSUME SoundInv, Run, UNCHANGED compiler
  PROVE  RunInv'
<1>1. CASE RunFlat
  <2>1. state = "compiled" /\ UNCHANGED <<at, env, heap>> /\ returned' = returned
    BY <1>1 DEF RunFlat, Running
  <2>2. QED
    BY <2>1, RunStays
<1>2. CASE RunReturn
  <2>1. state = "compiled" /\ UNCHANGED <<at, env, heap>> /\ Current.op = "Return"
    BY <1>2 DEF RunReturn, Runs, Running
  <2>2. QED
    BY <2>1, RunStays
<1>3. QED
  BY <1>1, <1>2, RunConstOK, RunUseOK, RunAllocOK, RunLoadOK, RunBranchOK, RunJumpOK, RunMethodOK,
     RunCallOK, RunWriteOK DEF Run

\* While a function is compiled it does not run.
LEMMA CompileKeepsRun ==
  ASSUME SoundInv, Compile, UNCHANGED run
  PROVE  RunInv'
<1>1. state # "compiled"
  BY DEF Compile, AnalyzeInst, LeaveBlock, StartLowering, LowerBlock, Verify
<1>2. NotStarted
  BY <1>1 DEF SoundInv, RunInv
<1>3. at' = at /\ env' = env /\ heap' = heap /\ returned' = returned
  BY DEF run
<1>4. NotStarted'
  BY <1>2, <1>3 DEF NotStarted, Nothing
<1>5. QED
  BY <1>4 DEF RunInv

LEMMA SoundInit == Init => SoundInv
<1>1. Init => NotStarted
  BY DEF Init, NotStarted
<1>2. QED
  BY <1>1, InitOK, TypingInit, LowerInit DEF Init, SoundInv, RunInv

LEMMA SoundStep == ASSUME SoundInv, [Next]_vars PROVE SoundInv'
<1>1. [Compile]_compiler
  BY DEF Next, Compiles, vars
<1>2. IInv' /\ TypingInv' /\ LowerInv'
  BY <1>1, StepOK, StepTyped, StepLowered DEF SoundInv
<1>3. RunInv'
  <2>1. CASE Compiles
    BY <2>1, CompileKeepsRun DEF Compiles
  <2>2. CASE Run /\ UNCHANGED compiler
    BY <2>2, RunKeeps
  <2>3. CASE UNCHANGED vars
    <3>1. UNCHANGED compiler /\ UNCHANGED <<at, env, heap>> /\ returned' = returned
      BY <2>3 DEF vars, run
    <3>2. CASE state = "compiled"
      BY <3>1, <3>2, RunStays
    <3>3. CASE state # "compiled"
      <4>1. NotStarted
        BY <3>3 DEF SoundInv, RunInv
      <4>2. NotStarted'
        BY <3>1, <4>1 DEF NotStarted, Nothing
      <4>3. QED
        BY <4>2 DEF RunInv
    <3>4. QED
      BY <3>2, <3>3
  <2>4. QED
    BY <2>1, <2>2, <2>3 DEF Next
<1>4. QED
  BY <1>2, <1>3 DEF SoundInv

\* Types are as they were inferred, in every state of a compilation and of a run of what it made.
THEOREM AlwaysSound == Spec => []SoundInv
BY SoundInit, SoundStep, PTL DEF Spec

-----------------------------------------------------------------------------
(* Types hold.                                                             *)

LEMMA HasTypeIs ==
  ASSUME NEW v, NEW r
  PROVE  TypedIn(tm.tcx, tm.types, DOMAIN heap, v, r) => HasType(v, r)
BY DEF TypedIn, FitsIn, HasType, Fits

LEMMA SoundTypes == SoundInv => TypesHold
<1> SUFFICES ASSUME SoundInv PROVE TypesHold
  OBVIOUS
<1>1. CASE state # "compiled"
  <2>1. DOMAIN env = {} /\ DOMAIN heap = {} /\ returned = FALSE
    BY <1>1 DEF SoundInv, RunInv, NotStarted, Nothing
  <2>2. QED
    BY <1>1, <2>1 DEF TypesHold, ValuesTyped, HeapTyped, ReadsDefined, ArgumentsAccepted, ReturnTyped, Running
<1>2. CASE state = "compiled"
  <2>1. PICK x : Here(x)
    BY <1>2, AtInst
  <2>2. EnvOK(tm.tcx, tm.types, DOMAIN heap, env) /\ HeapOK(tm.tcx, tm.types, heap)
    BY <1>2, RunStarts DEF RunOK
  <2>3. ValuesTyped
    BY <2>2, HasTypeIs DEF ValuesTyped, EnvOK
  <2>4. HeapTyped
    BY <2>2, HasTypeIs DEF HeapTyped, HeapOK, CellsOK
  <2>5. ReadsDefined
    <3>1. ReadByIR(Current) \subseteq Reads(x)
      BY <2>1, LoweredIs DEF Here, Judged
    <3>2. QED
      BY <2>1, <3>1 DEF ReadsDefined, Here
  <2>6. ArgumentsAccepted
    <3>1. SUFFICES ASSUME Current.op = "Call"
                   PROVE  /\ Len(Current.args) = Len(Globals[Current.value].params)
                          /\ \A n \in DOMAIN Current.args :
                               Accepts(Globals[Current.value].params[n], env[Current.args[n]])
      BY DEF ArgumentsAccepted
    <3>2. Current = x /\ x.op = "Call"
      BY <2>1, <3>1, HereIs
    <3>3. /\ Len(x.args) = Len(Globals[x.value].params)
          /\ \A n \in DOMAIN x.args :
               \/ Globals[x.value].params[n] \in {"TSelf", "Unknown"}
               \/ tm.types[x.args[n]] = Tag[Globals[x.value].params[n]]
      BY <2>1, <3>2 DEF Here, Judged
    <3>4. \A n \in DOMAIN x.args : x.args[n] \in Reads(x)
      BY <3>2 DEF Reads, ToSet
    <3>5. \A n \in DOMAIN x.args : HasType(env[x.args[n]], tm.types[x.args[n]])
      BY <1>2, <2>1, <3>4, ReadTyped, HasTypeIs
    <3>6. QED
      BY <3>2, <3>3, <3>5 DEF Accepts
  <2>7. ReturnTyped
    <3>1. SUFFICES ASSUME returned = TRUE PROVE HasType(env[Current.value], Tag[fun.ret])
      BY DEF ReturnTyped
    <3>2. Current.op = "Return"
      BY <1>2, <3>1, RunStarts DEF RunOK
    <3>3. Current = x /\ x.op = "Return"
      BY <2>1, <3>2, HereIs
    <3>4. x.value \in Reads(x) /\ tm.types[x.value] = Tag[fun.ret]
      BY <2>1, <3>3 DEF Reads, Here, Judged
    <3>5. QED
      BY <1>2, <2>1, <3>3, <3>4, ReadTyped, HasTypeIs
  <2>8. QED
    BY <2>3, <2>4, <2>5, <2>6, <2>7 DEF TypesHold
<1>3. QED
  BY <1>1, <1>2

\* The compiled function keeps types while it runs, and reads no value that is not there, for
\* every function that compiles: what analyze_block infers of a value is what the value is.
THEOREM AlwaysTypesHold == Spec => []TypesHold
BY AlwaysSound, SoundTypes, PTL
=============================================================================
