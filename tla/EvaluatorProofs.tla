-------------------------- MODULE EvaluatorProofs --------------------------
(***************************************************************************)
(* The evaluator interns what programs reach, keeps namespaces and locals  *)
(* alike, finds the operands of its instructions and works no more than    *)
(* its ticks allow, whatever well-formed code it runs.                     *)
(***************************************************************************)
EXTENDS Evaluator, WellFoundedInduction, TLAPS

IsASeq(s) == \E S : s \in Seq(S)

-----------------------------------------------------------------------------
(* Runtimes.                                                               *)

IsRuntime(r) == r = [objects |-> r.objects, dynamic |-> r.dynamic]

\* An object has the fields of its kind.
Shape(x) ==
  /\ "kind" \in DOMAIN x
  /\ x.kind \in {"int", "str"} => "val" \in DOMAIN x
  /\ x.kind \in {"module", "class", "function"} => "dict" \in DOMAIN x
  /\ x.kind = "class" => "parent" \in DOMAIN x
  /\ x.kind = "function" => "code" \in DOMAIN x /\ "params" \in DOMAIN x
  /\ x.kind = "callable" => "native" \in DOMAIN x /\ "conv" \in DOMAIN x

\* An object a program may reach: a string or an integer is the one that is interned.
Good(r, o) ==
  /\ o \in DOMAIN r.objects
  /\ r.objects[o].kind \in {"int", "str"} =>
       LET key == <<r.objects[o].kind, r.objects[o].val>>
       IN  key \in DOMAIN r.dynamic /\ r.dynamic[key] = o

\* The objects that are namespaces of frames.
Container(r, o) == o \in DOMAIN r.objects /\ r.objects[o].kind \in {"module", "class"}

\* The dynamic objects are the strings and integers they are filed under.
Filed(r) ==
  \A key \in DOMAIN r.dynamic :
    /\ r.dynamic[key] \in DOMAIN r.objects
    /\ r.objects[r.dynamic[key]].kind \in {"int", "str"}
    /\ key = <<r.objects[r.dynamic[key]].kind, r.objects[r.dynamic[key]].val>>

\* What object o of the runtime refers to.
Refers(r, o) ==
  LET x == r.objects[o]
  IN  /\ x.kind \in {"module", "class", "function"} => \A y \in DOMAIN x.dict : Good(r, x.dict[y].value)
      /\ x.kind = "class" => x.parent = 0 \/ Container(r, x.parent)
      /\ x.kind = "function" => x.code \in DOMAIN codes /\ x.params \in Seq(STRING)
      /\ x.kind = "callable" /\ x.native \notin {"intrinsic", "extern"} => Good(r, x.conv)

RuntimeOK(r) ==
  /\ IsRuntime(r)
  /\ IsASeq(r.objects)
  /\ \A o \in DOMAIN r.objects : Shape(r.objects[o]) /\ Refers(r, o)
  /\ Filed(r)

\* The singletons and the __monty module are not strings or integers.
Basics(r) ==
  \A o \in {TrueV, FalseV, NoneV, EllipsisV, Monty} :
    o \in DOMAIN r.objects /\ r.objects[o].kind \notin {"int", "str"}

\* Runtime u has the objects of runtime r; only their dictionaries may differ.
Extends(r, u) ==
  /\ \A o \in DOMAIN r.objects :
       /\ o \in DOMAIN u.objects
       /\ DOMAIN u.objects[o] = DOMAIN r.objects[o]
       /\ \A field \in DOMAIN r.objects[o] : field # "dict" => u.objects[o][field] = r.objects[o][field]
  /\ \A key \in DOMAIN r.dynamic : key \in DOMAIN u.dynamic /\ u.dynamic[key] = r.dynamic[key]

\* The attributes of d and e are the same, but for the docstring.
SameNames(d, e) ==
  /\ DOMAIN d \ {"__doc__"} = DOMAIN e \ {"__doc__"}
  /\ \A x \in DOMAIN d \ {"__doc__"} : d[x].value = e[x].value

-----------------------------------------------------------------------------
(* Frames.                                                                 *)

CodesOK ==
  \A m \in DOMAIN codes :
    /\ codes[m].ok => 1 \in DOMAIN codes[m].seqs
    /\ \A q \in DOMAIN codes[m].seqs : WellFormed(codes[m].seqs[q].inst)

FrameOK(r, f) ==
  /\ f.object = 0 \/ Container(r, f.object)
  /\ f.code \in DOMAIN codes
  /\ f.seq \in DOMAIN codes[f.code].seqs
  /\ f.ix \in Nat \ {0}
  /\ \A i \in DOMAIN f.values : Good(r, f.values[i])
  /\ \A x \in DOMAIN f.locals : Good(r, f.locals[x])

\* A frame below another waits at the instruction that put it there.
Waits(f) == f.ix \in DOMAIN Code(f) /\ Code(f)[f.ix].op \in {"Call", "BuildClass"}

\* Instruction ix is between the making of the class of instruction j and its building.
Inside(inst, ix, j) == inst[j].op = "BuildClass" /\ ix \in inst[j].class + 1 .. j

\* Between the two the class has no attribute but a docstring and is no frame's namespace.
Fresh(r, f) ==
  \A j \in DOMAIN Code(f) : Inside(Code(f), f.ix, j) =>
    LET class == Code(f)[j].class
        o == f.values[class]
    IN  /\ class \in DOMAIN f.values
        /\ Container(r, o)
        /\ DOMAIN r.objects[o].dict \subseteq {"__doc__"}
        /\ \A i \in DOMAIN frames : frames[i].object # o

RuntimeInv == RuntimeOK(rt) /\ Basics(rt)
StackInv ==
  /\ IsASeq(frames)
  /\ \A i \in DOMAIN frames : FrameOK(rt, frames[i])
  /\ \A i \in DOMAIN frames : i < Len(frames) => Waits(frames[i])
  /\ state = "running" => Len(frames) > 0 /\ Len(modules) > 0 /\ Len(modules) \in DOMAIN codes
ModulesInv ==
  /\ IsASeq(modules)
  /\ \A m \in DOMAIN modules : Container(rt, modules[m])
  /\ builtins = 0 \/ Container(rt, builtins)
LookupInv ==
  scope # 0 => /\ state = "running"
               /\ Top.ix \in DOMAIN Code(Top)
               /\ Inst.op = "UseVar"
               /\ Container(rt, scope)
Inv == CodesOK /\ RuntimeInv /\ StackInv /\ ModulesInv /\ LookupInv

\* What the ticks taken pay for: a frame on the stack and the call that put it there were
\* reached by an instruction before them.
Begun == IF state = "running" /\ Top.ix > 1 THEN 1 ELSE 0
BudgetInv ==
  /\ ticks \in 1 .. MaxTicks
  /\ executed \in Nat
  /\ executed + 2 * ticks + Begun <= 2 * MaxTicks + (IF state = "running" THEN 0 ELSE 1)
  /\ Len(frames) + Begun + ticks <= MaxTicks + 1

ScopesInv ==
  /\ ScopeMirrored
  /\ \A i, j \in DOMAIN frames : i # j /\ frames[i].object # 0 => frames[i].object # frames[j].object
  /\ state = "running" => Fresh(rt, Top)

-----------------------------------------------------------------------------
(* Sequences.                                                              *)

LEMMA SeqFacts ==
  ASSUME NEW s, IsASeq(s)
  PROVE  Len(s) \in Nat /\ DOMAIN s = 1 .. Len(s)
BY DEF IsASeq

LEMMA AppendFacts ==
  ASSUME NEW s, NEW e, IsASeq(s)
  PROVE  /\ IsASeq(Append(s, e))
         /\ Len(Append(s, e)) = Len(s) + 1
         /\ DOMAIN Append(s, e) = 1 .. Len(s) + 1
         /\ Append(s, e)[Len(s) + 1] = e
         /\ \A i \in DOMAIN s : i \in DOMAIN Append(s, e) /\ Append(s, e)[i] = s[i]
<1>1. PICK S : s \in Seq(S)
  BY DEF IsASeq
<1> DEFINE T == S \cup {e}
<1>2. s \in Seq(T) /\ e \in T
  BY <1>1
<1>3. Append(s, e) \in Seq(T)
  BY <1>2
<1>4. IsASeq(Append(s, e))
  BY <1>3 DEF IsASeq
<1>5. QED
  BY <1>2, <1>4

LEMMA ExceptFacts ==
  ASSUME NEW s, NEW i, NEW e, IsASeq(s), i \in DOMAIN s
  PROVE  /\ IsASeq([s EXCEPT ![i] = e])
         /\ Len([s EXCEPT ![i] = e]) = Len(s)
         /\ DOMAIN [s EXCEPT ![i] = e] = DOMAIN s
         /\ [s EXCEPT ![i] = e][i] = e
         /\ \A j \in DOMAIN s : j # i => [s EXCEPT ![i] = e][j] = s[j]
<1>1. PICK S : s \in Seq(S)
  BY DEF IsASeq
<1> DEFINE T == S \cup {e}
<1>2. s \in Seq(T) /\ e \in T
  BY <1>1
<1>3. [s EXCEPT ![i] = e] \in Seq(T) /\ Len([s EXCEPT ![i] = e]) = Len(s)
  BY <1>2
<1>4. IsASeq([s EXCEPT ![i] = e])
  BY <1>3 DEF IsASeq
<1>5. QED
  BY <1>2, <1>3, <1>4

LEMMA FrontFacts ==
  ASSUME NEW s, IsASeq(s), Len(s) > 1
  PROVE  /\ IsASeq(Front(s))
         /\ Len(Front(s)) = Len(s) - 1
         /\ DOMAIN Front(s) = 1 .. Len(s) - 1
         /\ \A i \in DOMAIN Front(s) : i \in DOMAIN s /\ Front(s)[i] = s[i]
<1>1. PICK S : s \in Seq(S)
  BY DEF IsASeq
<1>2. Front(s) \in Seq(S) /\ Len(Front(s)) = Len(s) - 1 /\ Len(s) \in Nat
  BY <1>1 DEF Front
<1>3. ASSUME NEW i \in 1 .. Len(s) - 1 PROVE i \in DOMAIN s /\ Front(s)[i] = s[i]
  BY <1>1, <1>2 DEF Front
<1>4. DOMAIN Front(s) = 1 .. Len(s) - 1
  BY <1>2
<1>5. IsASeq(Front(s))
  BY <1>2 DEF IsASeq
<1>6. QED
  BY <1>2, <1>3, <1>4, <1>5

-----------------------------------------------------------------------------
(* Runtimes that grow.                                                     *)

LEMMA ExtendsItself == ASSUME NEW r PROVE Extends(r, r)
BY DEF Extends

LEMMA ExtendsFurther ==
  ASSUME NEW r, NEW u, NEW w, Extends(r, u), Extends(u, w)
  PROVE  Extends(r, w)
BY DEF Extends

\* What a runtime says of an object the larger ones say too.
LEMMA ExtendsKeeps ==
  ASSUME NEW r, NEW u, RuntimeOK(r), Extends(r, u), NEW o \in DOMAIN r.objects
  PROVE  /\ o \in DOMAIN u.objects
         /\ Shape(u.objects[o])
         /\ u.objects[o].kind = r.objects[o].kind
         /\ Good(r, o) => Good(u, o)
         /\ Container(r, o) => Container(u, o)
<1>1. o \in DOMAIN u.objects /\ Shape(r.objects[o])
  BY DEF RuntimeOK, Extends
<1>2. DOMAIN u.objects[o] = DOMAIN r.objects[o] /\ u.objects[o].kind = r.objects[o].kind
  BY <1>1 DEF Extends, Shape
<1>3. Shape(u.objects[o])
  BY <1>1, <1>2 DEF Shape
<1>4. ASSUME Good(r, o) PROVE Good(u, o)
  <2>1. SUFFICES ASSUME u.objects[o].kind \in {"int", "str"}
                 PROVE  <<u.objects[o].kind, u.objects[o].val>> \in DOMAIN u.dynamic
                        /\ u.dynamic[<<u.objects[o].kind, u.objects[o].val>>] = o
    BY <1>1 DEF Good
  <2>2. u.objects[o].val = r.objects[o].val
    BY <2>1, <1>1, <1>2 DEF Shape, Extends
  <2> DEFINE key == <<u.objects[o].kind, u.objects[o].val>>
  <2>3. key = <<r.objects[o].kind, r.objects[o].val>>
    BY <1>2, <2>2
  <2> HIDE DEF key
  <2>4. key \in DOMAIN r.dynamic /\ r.dynamic[key] = o
    BY <1>2, <1>4, <2>1, <2>3 DEF Good
  <2>5. QED
    BY <2>4 DEF Extends, key
<1>5. Container(r, o) => Container(u, o)
  BY <1>1, <1>2 DEF Container
<1>6. QED
  BY <1>1, <1>2, <1>3, <1>4, <1>5

\* An object that is not changed refers to what it did.
LEMMA RefersKept ==
  ASSUME NEW r, NEW u, RuntimeOK(r), Extends(r, u), NEW o \in DOMAIN r.objects,
         u.objects[o] = r.objects[o]
  PROVE  Refers(u, o)
<1>1. Refers(r, o) /\ Shape(r.objects[o])
  BY DEF RuntimeOK
<1>2. \A p \in DOMAIN r.objects : (Good(r, p) => Good(u, p)) /\ (Container(r, p) => Container(u, p))
  BY ExtendsKeeps
<1>3. \A p : (Good(r, p) => Good(u, p)) /\ (Container(r, p) => Container(u, p))
  BY <1>2 DEF Good, Container
<1>4. QED
  BY <1>1, <1>3 DEF Refers

\* Runtime u is r with dictionary d for object o.
DictOf(r, u, o, d) ==
  /\ IsRuntime(u)
  /\ u.dynamic = r.dynamic
  /\ u.objects = [r.objects EXCEPT ![o] = [@ EXCEPT !.dict = d]]

\* Only the dictionary of o differs among the objects of r.
OthersKept(r, u, o) == \A p \in DOMAIN r.objects : p # o => u.objects[p] = r.objects[p]

\* A new dictionary whose values a program may reach.
LEMMA DictOK ==
  ASSUME NEW r, NEW u, NEW o \in DOMAIN r.objects, NEW d, RuntimeOK(r), DictOf(r, u, o, d),
         r.objects[o].kind \in {"module", "class", "function"} => \A y \in DOMAIN d : Good(r, d[y].value)
  PROVE  /\ RuntimeOK(u)
         /\ Extends(r, u)
         /\ OthersKept(r, u, o)
         /\ r.objects[o].kind \in {"module", "class", "function"} => u.objects[o].dict = d
<1> DEFINE x == r.objects[o]
           z == [x EXCEPT !.dict = d]
<1>1. u.dynamic = r.dynamic /\ u.objects = [r.objects EXCEPT ![o] = z] /\ IsRuntime(u)
  BY DEF DictOf
<1>2. IsASeq(r.objects) /\ Shape(x) /\ Refers(r, o)
  BY DEF RuntimeOK
<1>3. /\ DOMAIN z = DOMAIN x
      /\ \A field \in DOMAIN x : field # "dict" => z[field] = x[field]
      /\ "dict" \in DOMAIN x => z.dict = d
  OBVIOUS
<1> HIDE DEF z
<1>4. /\ IsASeq(u.objects)
      /\ DOMAIN u.objects = DOMAIN r.objects
      /\ u.objects[o] = z
      /\ OthersKept(r, u, o)
  <2> DEFINE s == r.objects
             v == [s EXCEPT ![o] = z]
  <2>1. IsASeq(s) /\ o \in DOMAIN s
    BY <1>2
  <2> HIDE DEF s
  <2>2. IsASeq(v) /\ DOMAIN v = DOMAIN s /\ v[o] = z /\ \A p \in DOMAIN s : p # o => v[p] = s[p]
    BY <2>1, ExceptFacts
  <2>3. u.objects = v
    BY <1>1 DEF s
  <2> HIDE DEF v
  <2>4. QED
    BY <2>2, <2>3 DEF OthersKept, s
<1>5. Extends(r, u)
  <2>1. ASSUME NEW p \in DOMAIN r.objects
        PROVE  /\ p \in DOMAIN u.objects
               /\ DOMAIN u.objects[p] = DOMAIN r.objects[p]
               /\ \A field \in DOMAIN r.objects[p] : field # "dict" => u.objects[p][field] = r.objects[p][field]
    BY <1>3, <1>4 DEF OthersKept
  <2>2. QED
    BY <2>1, <1>1 DEF Extends
<1>6. \A p \in DOMAIN r.objects : /\ Shape(u.objects[p])
                                  /\ u.objects[p].kind = r.objects[p].kind
                                  /\ Good(r, p) => Good(u, p)
                                  /\ Container(r, p) => Container(u, p)
  BY <1>5, ExtendsKeeps
<1>7. x.kind \in {"module", "class", "function"} => z.dict = d
  BY <1>2, <1>3 DEF Shape
<1>8. Refers(u, o)
  <2>1. \A p : (Good(r, p) => Good(u, p)) /\ (Container(r, p) => Container(u, p))
    BY <1>6 DEF Good, Container
  <2>2. z.kind = x.kind
    BY <1>2, <1>3 DEF Shape
  <2>3. z.kind \in {"module", "class", "function"} => \A y \in DOMAIN z.dict : Good(u, z.dict[y].value)
    BY <1>7, <2>1, <2>2
  <2>4. z.kind = "class" => z.parent = 0 \/ Container(u, z.parent)
    BY <1>2, <1>3, <2>1, <2>2 DEF Shape, Refers
  <2>5. z.kind = "function" => z.code \in DOMAIN codes /\ z.params \in Seq(STRING)
    BY <1>2, <1>3, <2>2 DEF Shape, Refers
  <2>6. z.kind = "callable" /\ z.native \notin {"intrinsic", "extern"} => Good(u, z.conv)
    BY <1>2, <1>3, <2>1, <2>2 DEF Shape, Refers
  <2>7. QED
    BY <1>4, <2>3, <2>4, <2>5, <2>6 DEF Refers
<1>9. ASSUME NEW p \in DOMAIN u.objects PROVE Shape(u.objects[p]) /\ Refers(u, p)
  BY <1>4, <1>5, <1>6, <1>8, RefersKept DEF OthersKept
<1>10. Filed(u)
  <2>1. SUFFICES ASSUME NEW key \in DOMAIN u.dynamic
                 PROVE  /\ u.dynamic[key] \in DOMAIN u.objects
                        /\ u.objects[u.dynamic[key]].kind \in {"int", "str"}
                        /\ key = <<u.objects[u.dynamic[key]].kind, u.objects[u.dynamic[key]].val>>
    BY DEF Filed
  <2> DEFINE q == u.dynamic[key]
  <2>2. /\ q \in DOMAIN r.objects
        /\ r.objects[q].kind \in {"int", "str"}
        /\ key = <<r.objects[q].kind, r.objects[q].val>>
        /\ Shape(r.objects[q])
    BY <1>1 DEF RuntimeOK, Filed
  <2> HIDE DEF q
  <2>3. q \in DOMAIN u.objects /\ u.objects[q].kind = r.objects[q].kind /\ u.objects[q].val = r.objects[q].val
    BY <1>4, <1>5, <1>6, <2>2 DEF Extends, Shape
  <2>4. QED
    BY <2>2, <2>3 DEF q
<1>11. QED
  BY <1>1, <1>4, <1>5, <1>7, <1>9, <1>10 DEF RuntimeOK

\* A new object, in the runtime that has it, refers to what the runtime has.
LEMMA InsertOK ==
  ASSUME NEW r, NEW x, RuntimeOK(r), Shape(x),
         x.kind \in {"module", "class", "function"} => x.dict = EmptyDict,
         x.kind = "class" => x.parent = 0 \/ Container(r, x.parent),
         x.kind = "function" => x.code \in DOMAIN codes /\ x.params \in Seq(STRING),
         x.kind = "callable" /\ x.native \notin {"intrinsic", "extern"} => Good(r, x.conv)
  PROVE  /\ RuntimeOK(Insert(r, x))
         /\ Extends(r, Insert(r, x))
         /\ NewId(r) \in Nat \ {0}
         /\ NewId(r) \notin DOMAIN r.objects
         /\ DOMAIN Insert(r, x).objects = DOMAIN r.objects \cup {NewId(r)}
         /\ Insert(r, x).objects[NewId(r)] = x
         /\ Insert(r, x).dynamic = r.dynamic
         /\ \A p \in DOMAIN r.objects : Insert(r, x).objects[p] = r.objects[p]
<1> DEFINE u == Insert(r, x)
           n == NewId(r)
<1>1. IsASeq(r.objects) /\ IsRuntime(r)
  BY DEF RuntimeOK
<1>2. u.objects = Append(r.objects, x) /\ u.dynamic = r.dynamic /\ IsRuntime(u)
  BY <1>1 DEF Insert, IsRuntime
<1>3. Len(r.objects) \in Nat /\ DOMAIN r.objects = 1 .. Len(r.objects) /\ n = Len(r.objects) + 1
  BY <1>1, SeqFacts DEF NewId
<1>4. /\ IsASeq(u.objects)
      /\ DOMAIN u.objects = 1 .. Len(r.objects) + 1
      /\ u.objects[n] = x
      /\ \A p \in DOMAIN r.objects : u.objects[p] = r.objects[p]
  BY <1>1, <1>2, <1>3, AppendFacts
<1> HIDE DEF u
<1>5. n \in Nat \ {0} /\ n \notin DOMAIN r.objects /\ DOMAIN u.objects = DOMAIN r.objects \cup {n}
  BY <1>3, <1>4
<1> HIDE DEF n
<1>6. Extends(r, u)
  BY <1>2, <1>4, <1>5 DEF Extends
<1>7. \A p : (Good(r, p) => Good(u, p)) /\ (Container(r, p) => Container(u, p))
  BY <1>2, <1>4, <1>5 DEF Good, Container
<1>8. Refers(u, n)
  <2>1. \A y \in DOMAIN EmptyDict : FALSE
    BY DEF EmptyDict
  <2>2. QED
    BY <1>4, <1>7, <2>1 DEF Refers
<1>9. ASSUME NEW p \in DOMAIN u.objects PROVE Shape(u.objects[p]) /\ Refers(u, p)
  <2>1. CASE p = n
    BY <2>1, <1>4, <1>8
  <2>2. CASE p \in DOMAIN r.objects
    BY <2>2, <1>4, <1>6, RefersKept DEF RuntimeOK
  <2>3. QED
    BY <1>5, <2>1, <2>2
<1>10. Filed(u)
  BY <1>2, <1>4, <1>5 DEF RuntimeOK, Filed
<1>11. QED
  BY <1>2, <1>4, <1>5, <1>6, <1>9, <1>10 DEF RuntimeOK, u, n

\* The objects of r are those of u, dictionaries included.
AllKept(r, u) == \A p \in DOMAIN r.objects : u.objects[p] = r.objects[p]

\* A string or a number is interned, and what is returned may be reached.
LEMMA InternOK ==
  ASSUME NEW r, NEW kind \in {"int", "str"}, NEW val, RuntimeOK(r)
  PROVE  LET u == Intern(r, <<kind, val>>, [kind |-> kind, val |-> val])
         IN  /\ RuntimeOK(u)
             /\ Extends(r, u)
             /\ AllKept(r, u)
             /\ Good(u, Interned(u, <<kind, val>>))
<1> DEFINE key == <<kind, val>>
           x == [kind |-> kind, val |-> val]
           u == Intern(r, key, x)
           n == NewId(r)
<1>1. CASE key \in DOMAIN r.dynamic
  <2>1. u = r /\ Interned(u, key) = r.dynamic[key]
    BY <1>1 DEF Intern, Interned
  <2> DEFINE o == r.dynamic[key]
  <2>2. o \in DOMAIN r.objects /\ key = <<r.objects[o].kind, r.objects[o].val>>
    BY <1>1 DEF RuntimeOK, Filed
  <2>3. Good(r, o)
    BY <1>1, <2>2 DEF Good
  <2>4. QED
    BY <2>1, <2>3, ExtendsItself DEF AllKept
<1>2. CASE key \notin DOMAIN r.dynamic
  <2> DEFINE w == Insert(r, x)
             dynamic == [k \in DOMAIN w.dynamic \cup {key} |-> IF k = key THEN n ELSE w.dynamic[k]]
  <2>1. u = [w EXCEPT !.dynamic = dynamic]
    BY <1>2 DEF Intern
  <2>2. Shape(x) /\ x.kind = kind /\ x.val = val
    BY DEF Shape
  <2>3. /\ RuntimeOK(w)
        /\ Extends(r, w)
        /\ n \notin DOMAIN r.objects
        /\ DOMAIN w.objects = DOMAIN r.objects \cup {n}
        /\ w.objects[n] = x
        /\ w.dynamic = r.dynamic
        /\ AllKept(r, w)
    BY <2>2, InsertOK DEF AllKept
  <2> HIDE DEF w, n, x
  <2>4. u.objects = w.objects /\ u.dynamic = dynamic /\ IsRuntime(u)
    BY <2>1, <2>3 DEF RuntimeOK, IsRuntime
  <2>5. /\ DOMAIN dynamic = DOMAIN r.dynamic \cup {key}
        /\ dynamic[key] = n
        /\ \A k \in DOMAIN r.dynamic : dynamic[k] = r.dynamic[k]
    BY <1>2, <2>3
  <2> HIDE DEF dynamic, u
  <2>6. Extends(w, u) /\ Extends(r, u)
    <3>1. Extends(w, u)
      BY <2>3, <2>4, <2>5 DEF Extends
    <3>2. QED
      BY <2>3, <3>1, ExtendsFurther
  <2>7. AllKept(r, u)
    BY <2>3, <2>4 DEF AllKept
  <2>8. Interned(u, key) = n /\ key = <<kind, val>>
    BY <2>4, <2>5 DEF Interned
  <2>9. Good(u, n)
    BY <2>2, <2>3, <2>4, <2>5, <2>8 DEF Good
  <2>10. ASSUME NEW p \in DOMAIN u.objects PROVE Shape(u.objects[p]) /\ Refers(u, p)
    BY <2>3, <2>4, <2>6, RefersKept DEF RuntimeOK
  <2>11. Filed(u)
    <3>1. ASSUME NEW k \in DOMAIN r.dynamic
          PROVE  /\ u.dynamic[k] \in DOMAIN u.objects
                 /\ u.objects[u.dynamic[k]].kind \in {"int", "str"}
                 /\ k = <<u.objects[u.dynamic[k]].kind, u.objects[u.dynamic[k]].val>>
      BY <2>3, <2>4, <2>5 DEF RuntimeOK, Filed
    <3>2. /\ n \in DOMAIN u.objects
          /\ u.objects[n].kind \in {"int", "str"}
          /\ key = <<u.objects[n].kind, u.objects[n].val>>
      BY <2>2, <2>3, <2>4, <2>8
    <3>3. QED
      BY <3>1, <3>2, <2>4, <2>5 DEF Filed
  <2>12. QED
    BY <2>3, <2>4, <2>6, <2>7, <2>8, <2>9, <2>10, <2>11 DEF RuntimeOK, u, x
<1>3. QED
  BY <1>1, <1>2

LEMMA NewStringOK ==
  ASSUME NEW r, NEW st, RuntimeOK(r)
  PROVE  /\ RuntimeOK(NewString(r, st))
         /\ Extends(r, NewString(r, st))
         /\ AllKept(r, NewString(r, st))
         /\ Good(NewString(r, st), Interned(NewString(r, st), <<"str", st>>))
BY InternOK DEF NewString, StrObject

LEMMA NewIntOK ==
  ASSUME NEW r, NEW n, RuntimeOK(r)
  PROVE  /\ RuntimeOK(NewInt(r, n))
         /\ Extends(r, NewInt(r, n))
         /\ AllKept(r, NewInt(r, n))
         /\ Good(NewInt(r, n), Interned(NewInt(r, n), <<"int", n>>))
BY InternOK DEF NewInt, IntObject

\* An attribute is set: of the objects there were only o differs, by the attribute.
LEMMA SetAttrOK ==
  ASSUME NEW r, NEW o \in DOMAIN r.objects, NEW name, NEW v, RuntimeOK(r), Good(r, v)
  PROVE  /\ RuntimeOK(SetAttr(r, o, name, v))
         /\ Extends(r, SetAttr(r, o, name, v))
         /\ OthersKept(r, SetAttr(r, o, name, v), o)
         /\ r.objects[o].kind \in {"module", "class", "function"} =>
              LET d == r.objects[o].dict
                  e == SetAttr(r, o, name, v).objects[o].dict
              IN  /\ DOMAIN e = DOMAIN d \cup {name}
                  /\ e[name].value = v
                  /\ \A y \in DOMAIN d : y # name => e[y] = d[y]
<1> DEFINE w == NewString(r, name)
           key == Interned(w, <<"str", name>>)
           d == r.objects[o].dict
           e == DictInsert(d, name, key, v)
           u == SetAttr(r, o, name, v)
<1>1. RuntimeOK(w) /\ Extends(r, w) /\ AllKept(r, w)
  BY NewStringOK
<1>2. o \in DOMAIN w.objects /\ w.objects[o] = r.objects[o]
  BY <1>1 DEF AllKept, Extends
<1>3. u = [w EXCEPT !.objects[o].dict = DictInsert(@, name, key, v)]
  BY DEF SetAttr
<1> HIDE DEF w, key
<1>4. DictOf(w, u, o, e)
  BY <1>1, <1>2, <1>3 DEF DictOf, RuntimeOK, IsRuntime
<1>5. /\ DOMAIN e = DOMAIN d \cup {name}
      /\ e[name].value = v
      /\ \A y \in DOMAIN d : y # name => e[y] = d[y]
  BY DEF DictInsert
<1> HIDE DEF e, u
<1>6. ASSUME r.objects[o].kind \in {"module", "class", "function"}, NEW y \in DOMAIN e
      PROVE  Good(w, e[y].value)
  <2>. \A p : Good(r, p) => Good(w, p)
    BY <1>1, ExtendsKeeps DEF Good
  <2>1. Good(w, v)
    OBVIOUS
  <2>2. ASSUME y \in DOMAIN d PROVE Good(w, d[y].value)
    <3>1. Good(r, d[y].value)
      BY <1>6, <2>2 DEF RuntimeOK, Refers
    <3>2. QED
      BY <3>1
  <2>3. QED
    BY <1>5, <2>1, <2>2
<1>7. /\ RuntimeOK(u)
      /\ Extends(w, u)
      /\ OthersKept(w, u, o)
      /\ r.objects[o].kind \in {"module", "class", "function"} => u.objects[o].dict = e
  BY <1>1, <1>2, <1>4, <1>6, DictOK
<1>8. Extends(r, u)
  BY <1>1, <1>7, ExtendsFurther
<1>9. OthersKept(r, u, o)
  BY <1>1, <1>7 DEF OthersKept, AllKept, Extends
<1>10. QED
  BY <1>5, <1>7, <1>8, <1>9 DEF u

-----------------------------------------------------------------------------
(* Induction over the natural numbers, from well-foundedness.              *)

Below == {p \in Nat \X Nat : p[1] < p[2]}

\* Sets of numbers have a least element.
LEMMA Least ==
  ASSUME NEW T \in SUBSET Nat, T # {}
  PROVE  \E m \in T : \A n \in T : m <= n
<1>1. IsWellFoundedOn(Below, Nat)
  BY NatLessThanWellFounded DEF OpToRel, Below
<1>2. PICK m \in T : \A y \in T : ~ (<<y, m>> \in Below)
  BY <1>1, WFMin
<1>3. ASSUME NEW n \in T PROVE m <= n
  <2>1. ~(<<n, m>> \in Below)
    BY <1>2
  <2>2. QED
    BY <2>1 DEF Below
<1>4. QED
  BY <1>3

\* A set that has 0 and with n also n + 1, as far as N, has N.
LEMMA UpTo ==
  ASSUME NEW N \in Nat, NEW S, 0 \in S, \A n \in 0 .. (N - 1) : n \in S => n + 1 \in S
  PROVE  N \in S
<1> DEFINE T == {n \in 0 .. N : n \notin S}
<1>1. SUFFICES ASSUME T # {} PROVE FALSE
  OBVIOUS
<1>2. PICK m \in T : \A n \in T : m <= n
  <2>1. T \in SUBSET Nat
    OBVIOUS
  <2> HIDE DEF T
  <2>2. QED
    BY <1>1, <2>1, Least
<1>3. m # 0 /\ m - 1 \in 0 .. (N - 1)
  OBVIOUS
<1>4. m - 1 \in S
  BY <1>2, <1>3
<1>5. QED
  BY <1>3, <1>4

\* Of the first n parameters with the name x there is a last one.
LEMMA LastOfOK ==
  ASSUME NEW params, NEW n \in Nat, NEW i \in 1 .. n
  PROVE  LastOf(params, n, params[i]) \in 1 .. n
<1> DEFINE x == params[i]
           T == {b \in Nat : \E j \in 1 .. n : params[j] = x /\ b = n - j}
<1>1. T \in SUBSET Nat /\ n - i \in T
  OBVIOUS
<1>2. PICK b \in T : \A c \in T : b <= c
  <2> HIDE DEF T
  <2>1. QED
    BY <1>1, Least
<1>3. PICK j \in 1 .. n : params[j] = x /\ b = n - j
  BY <1>2
<1>4. ASSUME NEW k \in j + 1 .. n, params[k] = x PROVE FALSE
  <2>1. k \in 1 .. n /\ n - k \in Nat /\ n - k < b
    BY <1>3
  <2>2. n - k \in T
    BY <1>4, <2>1
  <2>3. QED
    BY <1>2, <2>1, <2>2
<1>5. \E m \in 1 .. n : params[m] = x /\ \A k \in m + 1 .. n : params[k] # x
  BY <1>3, <1>4
<1>6. QED
  BY <1>5 DEF LastOf

-----------------------------------------------------------------------------
(* The first runtime.                                                      *)

LEMMA EmptyOK == RuntimeOK(EmptyRuntime) /\ EmptyRuntime.objects = << >>
<1> DEFINE r == EmptyRuntime
<1>1. IsRuntime(r) /\ r.objects = << >> /\ DOMAIN r.dynamic = {}
  BY DEF EmptyRuntime, IsRuntime
<1>2. DOMAIN r.objects = {}
  BY <1>1
<1>3. IsASeq(r.objects)
  <2>1. << >> \in Seq({})
    OBVIOUS
  <2>2. QED
    BY <1>1, <2>1 DEF IsASeq
<1>4. QED
  BY <1>1, <1>2, <1>3 DEF RuntimeOK, Filed

\* Runtime u has one object more, number n of the kind given.
Added(r, u, kind, n) ==
  /\ RuntimeOK(u)
  /\ Len(u.objects) = n
  /\ Extends(r, u)
  /\ u.objects[n].kind = kind
  /\ n \in DOMAIN u.objects

LEMMA SingletonOK ==
  ASSUME NEW r, NEW kind, NEW n \in Nat, kind \in {"true", "false", "none", "ellipsis"},
         RuntimeOK(r), Len(r.objects) + 1 = n
  PROVE  Added(r, Insert(r, Singleton(kind)), kind, n)
<1> DEFINE x == Singleton(kind)
           u == Insert(r, x)
<1>1. Shape(x) /\ x.kind = kind
  BY DEF Shape, Singleton
<1>2. IsASeq(r.objects) /\ u.objects = Append(r.objects, x)
  BY DEF RuntimeOK, IsRuntime, Insert
<1> HIDE DEF x
<1>3. RuntimeOK(u) /\ Extends(r, u)
  BY <1>1, InsertOK
<1>4. Len(u.objects) = n /\ u.objects[n] = x /\ n \in DOMAIN u.objects
  BY <1>2, AppendFacts, SeqFacts
<1>5. QED
  BY <1>1, <1>3, <1>4 DEF x, Added

LEMMA SingletonsOK ==
  /\ RuntimeOK(Singletons)
  /\ \A o \in {TrueV, FalseV, NoneV, EllipsisV} :
       o \in DOMAIN Singletons.objects /\ Singletons.objects[o].kind \notin {"int", "str"}
<1> DEFINE a == Insert(EmptyRuntime, Singleton("true"))
           b == Insert(a, Singleton("false"))
           c == Insert(b, Singleton("none"))
           d == Insert(c, Singleton("ellipsis"))
<1>1. Added(EmptyRuntime, a, "true", 1)
  <2>1. Len(EmptyRuntime.objects) + 1 = 1 /\ RuntimeOK(EmptyRuntime) /\ 1 \in Nat
    BY EmptyOK
  <2>2. QED
    BY <2>1, SingletonOK, Zenon
<1> HIDE DEF a
<1>2. Added(a, b, "false", 2)
  <2>1. Len(a.objects) + 1 = 2 /\ RuntimeOK(a) /\ 2 \in Nat
    BY <1>1 DEF Added
  <2>2. QED
    BY <2>1, SingletonOK, Zenon
<1> HIDE DEF b
<1>3. Added(b, c, "none", 3)
  <2>1. Len(b.objects) + 1 = 3 /\ RuntimeOK(b) /\ 3 \in Nat
    BY <1>2 DEF Added
  <2>2. QED
    BY <2>1, SingletonOK, Zenon
<1> HIDE DEF c
<1>4. Added(c, d, "ellipsis", 4)
  <2>1. Len(c.objects) + 1 = 4 /\ RuntimeOK(c) /\ 4 \in Nat
    BY <1>3 DEF Added
  <2>2. QED
    BY <2>1, SingletonOK, Zenon
<1> HIDE DEF d
<1>5. Extends(b, d) /\ Extends(a, d)
  BY <1>2, <1>3, <1>4, ExtendsFurther DEF Added
<1>6. /\ 1 \in DOMAIN d.objects /\ d.objects[1].kind = "true"
      /\ 2 \in DOMAIN d.objects /\ d.objects[2].kind = "false"
      /\ 3 \in DOMAIN d.objects /\ d.objects[3].kind = "none"
  BY <1>1, <1>2, <1>3, <1>4, <1>5, ExtendsKeeps DEF Added
<1>7. Singletons = d
  BY DEF Singletons, a, b, c, d
<1>8. QED
  BY <1>4, <1>6, <1>7 DEF Added, TrueV, FalseV, NoneV, EllipsisV

\* try_init makes the small integers one after the other.
LEMMA TryInitOK == RuntimeOK(TryInit(SmallInts)) /\ Extends(Singletons, TryInit(SmallInts))
<1> DEFINE N == Len(SmallInts)
           Is(f, n) == f = [i \in 0 .. n |-> IF i = 0 THEN Singletons ELSE NewInt(f[i - 1], SmallInts[i])]
           S == {n \in Nat : \E f : Is(f, n)}
           f == CHOOSE f : Is(f, N)
           P == {n \in Nat : RuntimeOK(f[n]) /\ Extends(Singletons, f[n])}
<1>0. N \in Nat
  BY SmallIntsAssumption
<1>1. 0 \in S
  <2>1. Is([i \in 0 .. 0 |-> Singletons], 0)
    OBVIOUS
  <2>2. QED
    BY <2>1
<1>2. ASSUME NEW n \in 0 .. (N - 1), n \in S PROVE n + 1 \in S
  <2>1. PICK g : Is(g, n)
    BY <1>2
  <2> DEFINE h == [i \in 0 .. (n + 1) |-> IF i = n + 1 THEN NewInt(g[n], SmallInts[n + 1]) ELSE g[i]]
  <2>2. ASSUME NEW i \in 0 .. (n + 1)
        PROVE  h[i] = IF i = 0 THEN Singletons ELSE NewInt(h[i - 1], SmallInts[i])
    BY <1>0, <2>1
  <2>3. Is(h, n + 1)
    BY <2>2
  <2> HIDE DEF h, Is
  <2>4. QED
    BY <1>0, <2>3
<1>3. N \in S
  <2> HIDE DEF S, N
  <2>1. QED
    BY <1>0, <1>1, <1>2, UpTo
<1>4. Is(f, N)
  BY <1>3, Zenon
<1>5. TryInit(SmallInts) = f[N]
  BY DEF TryInit
<1> HIDE DEF f
<1>6. 0 \in P
  <2>1. f[0] = Singletons
    BY <1>0, <1>4
  <2>2. QED
    BY <2>1, SingletonsOK, ExtendsItself
<1>7. ASSUME NEW n \in 0 .. (N - 1), n \in P PROVE n + 1 \in P
  <2>1. f[n + 1] = NewInt(f[n], SmallInts[n + 1])
    BY <1>0, <1>4
  <2>2. RuntimeOK(f[n + 1]) /\ Extends(f[n], f[n + 1])
    BY <1>7, <2>1, NewIntOK
  <2>3. QED
    BY <1>0, <1>7, <2>2, ExtendsFurther
<1>8. N \in P
  <2> HIDE DEF P, N
  <2>1. QED
    BY <1>0, <1>6, <1>7, UpTo
<1>9. QED
  BY <1>5, <1>8

\* The __monty module gets a callable.
LEMMA WithNativeOK ==
  ASSUME NEW r, NEW o \in DOMAIN r.objects, NEW name \in {"intrinsic", "extern"},
         RuntimeOK(r), r.objects[o].kind = "module"
  PROVE  RuntimeOK(WithNative(r, o, name)) /\ Extends(r, WithNative(r, o, name))
<1> DEFINE st == StrObject(name)
           call == CallableObject(name, 0)
           v == Insert(r, st)
           w == Insert(v, call)
           key == NewId(r)
           d == r.objects[o].dict
           e == DictInsert(d, name, key, key + 1)
           u == WithNative(r, o, name)
<1>1. /\ Shape(st) /\ st.kind = "str"
      /\ Shape(call) /\ call.kind = "callable" /\ call.native = name
  BY DEF Shape, StrObject, CallableObject
<1>2. u = [w EXCEPT !.objects[o].dict = DictInsert(@, name, key, key + 1)]
  BY DEF WithNative
<1> HIDE DEF st, call
<1>3. RuntimeOK(v) /\ Extends(r, v) /\ AllKept(r, v) /\ NewId(v) = key + 1
  <2>1. /\ RuntimeOK(v) /\ Extends(r, v) /\ AllKept(r, v)
        /\ IsASeq(r.objects) /\ IsRuntime(r)
    BY <1>1, InsertOK DEF AllKept, RuntimeOK
  <2>2. v.objects = Append(r.objects, st)
    BY <2>1 DEF Insert, IsRuntime
  <2>3. Len(v.objects) = Len(r.objects) + 1
    BY <2>1, <2>2, AppendFacts
  <2>4. QED
    BY <2>1, <2>3 DEF NewId
<1> HIDE DEF v
<1>4. /\ RuntimeOK(w) /\ Extends(v, w) /\ AllKept(v, w)
      /\ key + 1 \in DOMAIN w.objects /\ w.objects[key + 1] = call
  BY <1>1, <1>3, InsertOK DEF AllKept
<1> HIDE DEF w
<1>5. Extends(r, w) /\ AllKept(r, w) /\ o \in DOMAIN w.objects
  BY <1>3, <1>4, ExtendsFurther DEF AllKept, Extends
<1>6. Good(w, key + 1)
  BY <1>1, <1>4 DEF Good
<1>7. DictOf(w, u, o, e)
  BY <1>2, <1>4, <1>5 DEF DictOf, RuntimeOK, IsRuntime, AllKept
<1>8. ASSUME NEW y \in DOMAIN e PROVE Good(w, e[y].value)
  <2>0. DOMAIN e = DOMAIN d \cup {name} /\ e[name].value = key + 1 /\ \A x \in DOMAIN d : x # name => e[x] = d[x]
    BY DEF DictInsert
  <2> HIDE DEF e
  <2>1. \A p : Good(r, p) => Good(w, p)
    BY <1>5, ExtendsKeeps DEF Good
  <2>2. \A x \in DOMAIN d : Good(r, d[x].value)
    BY DEF RuntimeOK, Refers
  <2>3. QED
    BY <1>6, <2>0, <2>1, <2>2
<1> HIDE DEF e, u, key
<1>9. RuntimeOK(u) /\ Extends(w, u)
  BY <1>4, <1>5, <1>7, <1>8, DictOK
<1>10. QED
  BY <1>5, <1>9, ExtendsFurther DEF u

LEMMA BasicsKept ==
  ASSUME NEW r, NEW u, RuntimeOK(r), Basics(r), Extends(r, u)
  PROVE  Basics(u)
<1>1. ASSUME NEW o \in DOMAIN r.objects PROVE o \in DOMAIN u.objects /\ u.objects[o].kind = r.objects[o].kind
  BY ExtendsKeeps
<1>2. QED
  BY <1>1 DEF Basics

LEMMA FirstRuntimeOK ==
  LET u == WithNative(WithNative(MontyModule, Monty, "intrinsic"), Monty, "extern")
  IN  RuntimeOK(u) /\ Basics(u)
<1> DEFINE t == TryInit(SmallInts)
           x == ModuleObject(0)
           a == Insert(t, x)
           b == WithNative(a, Monty, "intrinsic")
           c == WithNative(b, Monty, "extern")
<1>1. Shape(x) /\ x.kind = "module" /\ x.dict = EmptyDict
  BY DEF Shape, ModuleObject
<1>2. RuntimeOK(t) /\ Extends(Singletons, t)
  BY TryInitOK
<1>3. Monty = NewId(t)
  BY DEF Monty
<1> HIDE DEF t, x
<1>4. RuntimeOK(a) /\ Extends(t, a) /\ Monty \in DOMAIN a.objects /\ a.objects[Monty].kind = "module"
  BY <1>1, <1>2, <1>3, InsertOK
<1>5. Basics(a)
  <2>1. Extends(Singletons, a)
    BY <1>2, <1>4, ExtendsFurther
  <2>2. ASSUME NEW o \in {TrueV, FalseV, NoneV, EllipsisV}
        PROVE  o \in DOMAIN a.objects /\ a.objects[o].kind \notin {"int", "str"}
    BY <2>1, SingletonsOK, ExtendsKeeps
  <2>3. QED
    BY <1>4, <2>2 DEF Basics
<1> HIDE DEF a
<1>6. RuntimeOK(b) /\ Extends(a, b)
  BY <1>4, WithNativeOK
<1> HIDE DEF b
<1>7. Monty \in DOMAIN b.objects /\ b.objects[Monty].kind = "module"
  BY <1>4, <1>6, ExtendsKeeps
<1>8. RuntimeOK(c) /\ Extends(b, c)
  BY <1>6, <1>7, WithNativeOK
<1> HIDE DEF c
<1>9. Basics(c)
  BY <1>4, <1>5, <1>6, <1>8, BasicsKept
<1>10. MontyModule = a
  BY DEF MontyModule, a, t, x
<1>11. QED
  BY <1>8, <1>9, <1>10 DEF b, c

-----------------------------------------------------------------------------
(* What a step of the evaluator does to the frame that runs.               *)

\* The namespaces of the other frames are as they were, and with this one all.
Apart(r) ==
  \A p \in DOMAIN rt.objects :
    Container(rt, p) /\ p # Top.object => SameNames(rt.objects[p].dict, r.objects[p].dict)
Undisturbed(r) ==
  \A p \in DOMAIN rt.objects : Container(rt, p) => SameNames(rt.objects[p].dict, r.objects[p].dict)

\* The frame that runs goes on as f, in runtime r.
Steps(f, r) ==
  /\ RuntimeOK(r)
  /\ Extends(rt, r)
  /\ FrameOK(r, f)
  /\ f.object = Top.object /\ f.code = Top.code /\ f.seq = Top.seq
  /\ Apart(r)
  /\ ScopesInv => Mirrored(r, f) /\ Fresh(r, f)

LEMMA Here ==
  ASSUME Inv, state = "running"
  PROVE  /\ Len(frames) \in Nat /\ Len(frames) > 0
         /\ DOMAIN frames = 1 .. Len(frames)
         /\ Len(frames) \in DOMAIN frames
         /\ Top = frames[Len(frames)]
         /\ FrameOK(rt, Top)
         /\ RuntimeOK(rt)
         /\ WellFormed(Code(Top))
<1>1. Len(frames) \in Nat /\ Len(frames) > 0 /\ DOMAIN frames = 1 .. Len(frames)
  BY SeqFacts DEF Inv, StackInv
<1>2. Len(frames) \in DOMAIN frames
  BY <1>1
<1>3. Top = frames[Len(frames)]
  BY DEF Top, Last
<1>4. FrameOK(rt, Top)
  BY <1>2, <1>3 DEF Inv, StackInv
<1>5. WellFormed(Code(Top))
  BY <1>4 DEF Inv, CodesOK, FrameOK, Code
<1>6. QED
  BY <1>1, <1>2, <1>3, <1>4, <1>5 DEF Inv, RuntimeInv

\* Instructions other than those of a class definition, and jumps, lead to none of its inside.
LEMMA NotInside ==
  ASSUME NEW inst, WellFormed(inst), NEW i \in DOMAIN inst, NEW n, NEW j \in DOMAIN inst,
         \/ n \in JumpsTo(inst[i])
         \/ n = i + 1 /\ inst[i].op \notin {"Class", "SetVar", "Const", "SetDunder"}
  PROVE  ~Inside(inst, n, j)
<1>1. SUFFICES ASSUME inst[j].op = "BuildClass", n \in inst[j].class + 1 .. j PROVE FALSE
  BY DEF Inside
<1>2. i \in Nat /\ j \in Nat
  <2>1. DOMAIN inst = 1 .. Len(inst)
    BY DEF WellFormed
  <2>2. QED
    BY <2>1
<1>3. ClassCode(inst, j) /\ JumpsTo(inst[i]) \cap (inst[j].class + 1 .. j) = {}
  BY <1>1 DEF WellFormed
<1> DEFINE c == inst[j].class
<1>4. c \in Nat /\ inst[c].op = "Class" /\ \A k \in c + 1 .. j - 1 : inst[k].op \in {"SetVar", "Const", "SetDunder"}
  BY <1>2, <1>3 DEF ClassCode
<1> HIDE DEF c
<1>5. n = i + 1 /\ inst[i].op \notin {"Class", "SetVar", "Const", "SetDunder"}
  BY <1>1, <1>3 DEF c
<1>6. i = c \/ i \in c + 1 .. j - 1
  BY <1>1, <1>2, <1>4, <1>5 DEF c
<1>7. QED
  BY <1>4, <1>5, <1>6

\* The instructions between the making of a class and its building stay inside.
LEMMA StaysInside ==
  ASSUME NEW inst, WellFormed(inst), NEW i \in DOMAIN inst, NEW j \in DOMAIN inst,
         Inside(inst, i + 1, j)
  PROVE  /\ inst[j].class \in Nat
         /\ inst[i].op = "Class" => inst[j].class = i
         /\ inst[i].op # "Class" => Inside(inst, i, j) /\ inst[j].class # i
<1> DEFINE c == inst[j].class
<1>1. i \in Nat /\ j \in Nat
  <2>1. DOMAIN inst = 1 .. Len(inst)
    BY DEF WellFormed
  <2>2. QED
    BY <2>1
<1>2. inst[j].op = "BuildClass" /\ i + 1 \in c + 1 .. j
  BY DEF Inside
<1>3. ClassCode(inst, j)
  BY <1>2 DEF WellFormed
<1>4. c \in Nat /\ inst[c].op = "Class" /\ \A k \in c + 1 .. j - 1 : inst[k].op \in {"SetVar", "Const", "SetDunder"}
  BY <1>1, <1>3 DEF ClassCode
<1> HIDE DEF c
<1>5. i = c \/ i \in c + 1 .. j - 1
  BY <1>1, <1>2, <1>4
<1>6. inst[i].op = "Class" => c = i
  BY <1>4, <1>5
<1>7. inst[i].op # "Class" => c # i /\ i \in c + 1 .. j
  BY <1>1, <1>2, <1>4, <1>5
<1>8. QED
  BY <1>2, <1>4, <1>6, <1>7 DEF Inside, c

LEMMA GoodKept ==
  ASSUME NEW r, NEW u, RuntimeOK(r), Extends(r, u)
  PROVE  \A p : (Good(r, p) => Good(u, p)) /\ (Container(r, p) => Container(u, p))
BY ExtendsKeeps DEF Good, Container

LEMMA SameItself == ASSUME NEW d PROVE SameNames(d, d)
BY DEF SameNames

LEMMA KeptUndisturbed ==
  ASSUME NEW r, AllKept(rt, r)
  PROVE  Undisturbed(r)
BY SameItself DEF AllKept, Undisturbed

\* A frame keeps to its namespace if the namespace keeps its names.
LEMMA MirrorKept ==
  ASSUME NEW r, NEW u, NEW f, NEW g, Mirrored(r, f), g.object = f.object, g.locals = f.locals,
         f.object # 0 => SameNames(r.objects[f.object].dict, u.objects[f.object].dict)
  PROVE  Mirrored(u, g)
BY DEF Mirrored, SameNames

LEMMA BindFacts ==
  ASSUME NEW f, NEW x, NEW v
  PROVE  /\ DOMAIN Bind(f, x, v) = DOMAIN f \cup {x}
         /\ Bind(f, x, v)[x] = v
         /\ \A y \in DOMAIN f : y # x => Bind(f, x, v)[y] = f[y]
BY DEF Bind

LEMMA ContinueFacts ==
  ASSUME NEW f, NEW ix, NEW values, NEW locals
  PROVE  LET g == Continue(f, ix, values, locals)
         IN  /\ g.object = f.object /\ g.code = f.code /\ g.seq = f.seq /\ g.ix = ix
             /\ g.values = values /\ g.locals = locals
             /\ Code(g) = Code(f)
BY DEF Continue, Code

\* A frame in a larger runtime.
LEMMA FrameKept ==
  ASSUME NEW r, NEW u, NEW f, RuntimeOK(r), Extends(r, u), FrameOK(r, f)
  PROVE  FrameOK(u, f)
BY GoodKept DEF FrameOK

\* The class being made stays fresh while the instructions before its building run.
LEMMA FreshKept ==
  ASSUME Inv, state = "running", Top.ix \in DOMAIN Code(Top), Inst.op # "Class", ScopesInv,
         NEW r, RuntimeOK(r), Extends(rt, r), Apart(r), NEW values, NEW locals,
         \A c \in DOMAIN Top.values : c # Top.ix => c \in DOMAIN values /\ values[c] = Top.values[c]
  PROVE  Fresh(r, Continue(Top, Top.ix + 1, values, locals))
<1> DEFINE f == Continue(Top, Top.ix + 1, values, locals)
<1>1. f.ix = Top.ix + 1 /\ f.values = values /\ Code(f) = Code(Top)
  BY ContinueFacts
<1> HIDE DEF f
<1>2. SUFFICES ASSUME NEW j \in DOMAIN Code(Top), Inside(Code(Top), Top.ix + 1, j)
               PROVE  LET class == Code(Top)[j].class
                          o == values[class]
                      IN  /\ class \in DOMAIN values
                          /\ Container(r, o)
                          /\ DOMAIN r.objects[o].dict \subseteq {"__doc__"}
                          /\ \A i \in DOMAIN frames : frames[i].object # o
  BY <1>1 DEF Fresh, f
<1>3. WellFormed(Code(Top)) /\ RuntimeOK(rt) /\ Len(frames) \in DOMAIN frames /\ Top = frames[Len(frames)]
  BY Here
<1>4. Inside(Code(Top), Top.ix, j) /\ Code(Top)[j].class # Top.ix
  BY <1>2, <1>3, StaysInside DEF Inst
<1> DEFINE class == Code(Top)[j].class
           o == Top.values[class]
<1>5. /\ class \in DOMAIN Top.values
      /\ Container(rt, o)
      /\ DOMAIN rt.objects[o].dict \subseteq {"__doc__"}
      /\ \A i \in DOMAIN frames : frames[i].object # o
  BY <1>4 DEF ScopesInv, Fresh
<1>6. class \in DOMAIN values /\ values[class] = o
  BY <1>4, <1>5
<1>7. Container(r, o)
  BY <1>3, <1>5, GoodKept
<1>8. o # Top.object
  BY <1>3, <1>5
<1> HIDE DEF o, class
<1>9. SameNames(rt.objects[o].dict, r.objects[o].dict)
  BY <1>5, <1>8 DEF Apart, Container
<1>10. DOMAIN r.objects[o].dict \subseteq {"__doc__"}
  BY <1>5, <1>9 DEF SameNames
<1>11. QED
  BY <1>5, <1>6, <1>7, <1>10 DEF class

\* The frame goes on at instruction n with the values and locals given.
LEMMA StepsOn ==
  ASSUME Inv, state = "running", NEW r, RuntimeOK(r), Extends(rt, r), Apart(r),
         NEW n \in Nat \ {0}, NEW values, NEW locals,
         \A c \in DOMAIN values : Good(r, values[c]),
         \A x \in DOMAIN locals : Good(r, locals[x]),
         ScopesInv => /\ Mirrored(r, Continue(Top, n, values, locals))
                      /\ Fresh(r, Continue(Top, n, values, locals))
  PROVE  Steps(Continue(Top, n, values, locals), r)
<1> DEFINE f == Continue(Top, n, values, locals)
<1>1. /\ f.object = Top.object /\ f.code = Top.code /\ f.seq = Top.seq /\ f.ix = n
      /\ f.values = values /\ f.locals = locals
  BY ContinueFacts
<1> HIDE DEF f
<1>2. FrameOK(rt, Top) /\ RuntimeOK(rt)
  BY Here
<1>3. FrameOK(r, Top)
  BY <1>2, FrameKept
<1>4. FrameOK(r, f)
  BY <1>1, <1>3 DEF FrameOK
<1>5. QED
  BY <1>1, <1>4 DEF Steps, f

LEMMA Untouched ==
  ASSUME Inv, state = "running", NEW r, Undisturbed(r), NEW f,
         f.object = Top.object, f.locals = Top.locals
  PROVE  Apart(r) /\ (ScopesInv => Mirrored(r, f))
<1>1. Apart(r)
  BY DEF Apart, Undisturbed
<1>2. ASSUME ScopesInv PROVE Mirrored(r, f)
  <2>1. Mirrored(rt, Top) /\ (Top.object = 0 \/ Container(rt, Top.object))
    BY <1>2, Here DEF ScopesInv, ScopeMirrored, FrameOK
  <2>2. Top.object # 0 => SameNames(rt.objects[Top.object].dict, r.objects[Top.object].dict)
    BY <2>1 DEF Undisturbed, Container
  <2>3. QED
    BY <2>1, <2>2, MirrorKept
<1>3. QED
  BY <1>1, <1>2

\* An instruction that only has a value.
LEMMA YieldSteps ==
  ASSUME Inv, state = "running", Top.ix \in DOMAIN Code(Top), Inst.op # "Class",
         NEW r, RuntimeOK(r), Extends(rt, r), Undisturbed(r), NEW v, Good(r, v)
  PROVE  Steps(Continue(Top, Top.ix + 1, Bind(Top.values, Top.ix, v), Top.locals), r)
<1> DEFINE values == Bind(Top.values, Top.ix, v)
           f == Continue(Top, Top.ix + 1, values, Top.locals)
<1>1. FrameOK(rt, Top) /\ RuntimeOK(rt)
  BY Here
<1>2. FrameOK(r, Top)
  BY <1>1, FrameKept
<1>3. Top.ix + 1 \in Nat \ {0}
  BY <1>1 DEF FrameOK
<1>4. /\ DOMAIN values = DOMAIN Top.values \cup {Top.ix}
      /\ values[Top.ix] = v
      /\ \A c \in DOMAIN Top.values : c # Top.ix => values[c] = Top.values[c]
  BY DEF Bind
<1> HIDE DEF values
<1>5. \A c \in DOMAIN values : Good(r, values[c])
  BY <1>2, <1>4 DEF FrameOK
<1>6. \A x \in DOMAIN Top.locals : Good(r, Top.locals[x])
  BY <1>2 DEF FrameOK
<1>7. f.object = Top.object /\ f.locals = Top.locals
  BY ContinueFacts
<1>8. Apart(r) /\ (ScopesInv => Mirrored(r, f))
  BY <1>7, Untouched
<1>9. ScopesInv => Fresh(r, f)
  BY <1>4, <1>8, FreshKept
<1>10. QED
  BY <1>3, <1>5, <1>6, <1>8, <1>9, StepsOn DEF values

\* An instruction without a value: the next one, or one it jumps to.
LEMMA GoToSteps ==
  ASSUME Inv, state = "running", Top.ix \in DOMAIN Code(Top), Inst.op # "Class",
         NEW r, RuntimeOK(r), Extends(rt, r), Undisturbed(r), NEW n,
         n = Top.ix + 1 \/ n \in JumpsTo(Inst)
  PROVE  Steps(Continue(Top, n, Top.values, Top.locals), r)
<1> DEFINE f == Continue(Top, n, Top.values, Top.locals)
<1>1. FrameOK(rt, Top) /\ RuntimeOK(rt) /\ WellFormed(Code(Top))
  BY Here
<1>2. FrameOK(r, Top)
  BY <1>1, FrameKept
<1>3. n \in Nat \ {0}
  <2>1. CASE n = Top.ix + 1
    BY <1>1, <2>1 DEF FrameOK
  <2>2. CASE n \in JumpsTo(Inst)
    BY <1>1, <2>2 DEF WellFormed, Inst
  <2>3. QED
    BY <2>1, <2>2
<1>5. \A c \in DOMAIN Top.values : Good(r, Top.values[c])
  BY <1>2 DEF FrameOK
<1>6. \A x \in DOMAIN Top.locals : Good(r, Top.locals[x])
  BY <1>2 DEF FrameOK
<1>7. f.object = Top.object /\ f.locals = Top.locals /\ f.ix = n /\ Code(f) = Code(Top)
  BY ContinueFacts
<1>8. Apart(r) /\ (ScopesInv => Mirrored(r, f))
  BY <1>7, Untouched
<1>9. ScopesInv => Fresh(r, f)
  <2>1. CASE n = Top.ix + 1
    BY <1>8, <2>1, FreshKept
  <2>2. CASE n \in JumpsTo(Inst)
    <3>1. \A j \in DOMAIN Code(Top) : ~Inside(Code(Top), n, j)
      BY <1>1, <2>2, NotInside DEF Inst
    <3> HIDE DEF f
    <3>2. QED
      BY <3>1, <1>7 DEF Fresh
  <2>3. QED
    BY <2>1, <2>2
<1>10. QED
  BY <1>3, <1>5, <1>6, <1>8, <1>9, StepsOn

\* define: the frame with the variable bound keeps to its namespace.
LEMMA DefineOK ==
  ASSUME Inv, state = "running", NEW r, RuntimeOK(r), Extends(rt, r), AllKept(rt, r),
         NEW x, NEW v, Good(r, v)
  PROVE  /\ RuntimeOK(Define(r, x, v))
         /\ Extends(r, Define(r, x, v))
         /\ OthersKept(r, Define(r, x, v), Top.object)
         /\ ScopesInv => \A f : f.object = Top.object /\ f.locals = Bind(Top.locals, x, v)
                                  => Mirrored(Define(r, x, v), f)
<1> DEFINE u == Define(r, x, v)
           o == Top.object
           ls == Bind(Top.locals, x, v)
<1>1. CASE o = 0
  <2>1. u = r
    BY <1>1 DEF Define
  <2>2. QED
    BY <1>1, <2>1, ExtendsItself DEF OthersKept, Mirrored
<1>2. CASE o # 0
  <2>1. u = SetAttr(r, o, x, v)
    BY <1>2 DEF Define
  <2>2. Container(rt, o) /\ RuntimeOK(rt)
    BY <1>2, Here DEF FrameOK
  <2>3. /\ o \in DOMAIN r.objects
        /\ r.objects[o] = rt.objects[o]
        /\ r.objects[o].kind \in {"module", "class", "function"}
    BY <2>2 DEF Container, AllKept, Extends
  <2> DEFINE d == r.objects[o].dict
             e == u.objects[o].dict
  <2>4. /\ RuntimeOK(u)
        /\ Extends(r, u)
        /\ OthersKept(r, u, o)
        /\ DOMAIN e = DOMAIN d \cup {x}
        /\ e[x].value = v
        /\ \A y \in DOMAIN d : y # x => e[y] = d[y]
    BY <2>1, <2>3, SetAttrOK
  <2>5. ASSUME ScopesInv, NEW f, f.object = o, f.locals = ls PROVE Mirrored(u, f)
    <3>1. /\ DOMAIN Top.locals \ {"__doc__"} = DOMAIN d \ {"__doc__"}
          /\ \A y \in DOMAIN Top.locals \ {"__doc__"} : Top.locals[y] = d[y].value
      BY <1>2, <2>3, <2>5, Here DEF ScopesInv, ScopeMirrored, Mirrored
    <3>2. /\ DOMAIN ls = DOMAIN Top.locals \cup {x}
          /\ ls[x] = v
          /\ \A y \in DOMAIN Top.locals : y # x => ls[y] = Top.locals[y]
      BY DEF Bind
    <3> HIDE DEF d, e, ls
    <3>3. DOMAIN ls \ {"__doc__"} = DOMAIN e \ {"__doc__"}
      BY <2>4, <3>1, <3>2
    <3>4. \A y \in DOMAIN ls \ {"__doc__"} : ls[y] = e[y].value
      BY <2>4, <3>1, <3>2
    <3>5. QED
      BY <2>5, <3>3, <3>4 DEF Mirrored, e
  <2>6. QED
    BY <2>4, <2>5
<1>3. QED
  BY <1>1, <1>2

\* An instruction that binds a variable, in a runtime with nothing but new objects beside.
LEMMA DefineSteps ==
  ASSUME Inv, state = "running", NEW r, RuntimeOK(r), Extends(rt, r), AllKept(rt, r),
         NEW x, NEW v, Good(r, v),
         NEW u, RuntimeOK(u), Extends(Define(r, x, v), u),
         \A p \in DOMAIN rt.objects : u.objects[p] = Define(r, x, v).objects[p],
         NEW values, \A c \in DOMAIN values : Good(u, values[c]),
         ScopesInv /\ Apart(u) => Fresh(u, Continue(Top, Top.ix + 1, values, Bind(Top.locals, x, v)))
  PROVE  Steps(Continue(Top, Top.ix + 1, values, Bind(Top.locals, x, v)), u)
<1> DEFINE w == Define(r, x, v)
           ls == Bind(Top.locals, x, v)
           f == Continue(Top, Top.ix + 1, values, ls)
<1>1. /\ RuntimeOK(w)
      /\ Extends(r, w)
      /\ OthersKept(r, w, Top.object)
      /\ ScopesInv => \A g : g.object = Top.object /\ g.locals = ls => Mirrored(w, g)
  BY DefineOK
<1>2. FrameOK(rt, Top) /\ RuntimeOK(rt)
  BY Here
<1>3. f.object = Top.object /\ f.locals = ls
  BY ContinueFacts
<1>4. DOMAIN ls = DOMAIN Top.locals \cup {x} /\ ls[x] = v
        /\ \A y \in DOMAIN Top.locals : y # x => ls[y] = Top.locals[y]
  BY DEF Bind
<1> HIDE DEF w, ls, f
<1>5. Extends(r, u) /\ Extends(rt, u)
  <2>1. Extends(r, u)
    BY <1>1, ExtendsFurther DEF w
  <2>2. QED
    BY <2>1, ExtendsFurther
<1>6. Apart(u)
  <2>1. ASSUME NEW p \in DOMAIN rt.objects, p # Top.object PROVE u.objects[p] = rt.objects[p]
    BY <1>1, <2>1 DEF OthersKept, AllKept, Extends, w
  <2>2. QED
    BY <2>1, SameItself DEF Apart
<1>7. ASSUME ScopesInv PROVE Mirrored(u, f)
  <2>1. Mirrored(w, f)
    BY <1>1, <1>3, <1>7
  <2>2. ASSUME f.object # 0 PROVE SameNames(w.objects[f.object].dict, u.objects[f.object].dict)
    BY <1>2, <1>3, <2>2, SameItself DEF FrameOK, Container, w
  <2>3. QED
    BY <2>1, <2>2, MirrorKept
<1>8. FrameOK(u, Top) /\ Good(u, v)
  BY <1>2, <1>5, FrameKept, GoodKept
<1>9. \A y \in DOMAIN ls : Good(u, ls[y])
  BY <1>4, <1>8 DEF FrameOK
<1>10. Top.ix + 1 \in Nat \ {0}
  BY <1>2 DEF FrameOK
<1>11. ScopesInv => Fresh(u, f)
  BY <1>6 DEF f, ls
<1>12. QED
  BY <1>5, <1>6, <1>7, <1>9, <1>10, <1>11, StepsOn DEF f, ls

-----------------------------------------------------------------------------
(* The effects that steps have.                                            *)

Continues == \E f, r : Next_(f, r) /\ Steps(f, r)
Halts == \E why : why \notin {"running", "idle"} /\ Stop(why, rt)
Calls == \E f : /\ Push(f, rt)
                /\ FrameOK(rt, f)
                /\ f.ix = 1
                /\ Waits(Top) /\ Top.ix > 1
                /\ scope = 0
                /\ ScopesInv => /\ Mirrored(rt, f)
                                /\ f.object # 0 => \A i \in DOMAIN frames : frames[i].object # f.object
Returns == \E v : /\ Resume(v)
                  /\ Good(rt, v)
                  /\ Len(frames) > 1
                  /\ scope = 0
                  /\ executed' \in {executed, executed + 1}
Looks == \E s : /\ scope' = s
                /\ Container(rt, s)
                /\ Top.ix \in DOMAIN Code(Top) /\ Inst.op = "UseVar"
                /\ UNCHANGED <<rt, frames, ticks, executed, state>>
                /\ Static
Effect == state = "running" /\ (Continues \/ Halts \/ Calls \/ Returns \/ Looks)

\* Where an instruction stands.
LEMMA AtFacts ==
  ASSUME NEW op, At(op)
  PROVE  /\ state = "running" /\ scope = 0
         /\ Top.ix \in DOMAIN Code(Top)
         /\ Inst.op = op
         /\ Uses(Inst) \subseteq DOMAIN Top.values
BY DEF At, AtEnd, Running

LEMMA SameRuntime ==
  ASSUME Inv
  PROVE  RuntimeOK(rt) /\ Extends(rt, rt) /\ Undisturbed(rt) /\ AllKept(rt, rt)
<1>1. AllKept(rt, rt)
  BY DEF AllKept
<1>2. QED
  BY <1>1, ExtendsItself, KeptUndisturbed DEF Inv, RuntimeInv

\* The instruction has value v and nothing is written.
LEMMA YieldEffect ==
  ASSUME Inv, state = "running", Top.ix \in DOMAIN Code(Top), Inst.op # "Class",
         NEW r, RuntimeOK(r), Extends(rt, r), Undisturbed(r), NEW v, Good(r, v), Yield(v, r)
  PROVE  Continues
<1> DEFINE f == Continue(Top, Top.ix + 1, Bind(Top.values, Top.ix, v), Top.locals)
<1>1. Steps(f, r)
  BY YieldSteps
<1>2. Next_(f, r)
  BY DEF Yield
<1> HIDE DEF f
<1>3. QED
  BY <1>1, <1>2 DEF Continues

LEMMA GoToEffect ==
  ASSUME Inv, state = "running", Top.ix \in DOMAIN Code(Top), Inst.op # "Class",
         NEW r, RuntimeOK(r), Extends(rt, r), Undisturbed(r), NEW n,
         n = Top.ix + 1 \/ n \in JumpsTo(Inst), GoTo(n, r)
  PROVE  Continues
<1> DEFINE f == Continue(Top, n, Top.values, Top.locals)
<1>1. Steps(f, r)
  BY GoToSteps
<1>2. Next_(f, r)
  BY DEF GoTo
<1> HIDE DEF f
<1>3. QED
  BY <1>1, <1>2 DEF Continues

LEMMA DoQuietEffect == ASSUME Inv, DoQuiet PROVE Effect
<1>1. state = "running" /\ Top.ix \in DOMAIN Code(Top) /\ Inst.op # "Class" /\ GoTo(Top.ix + 1, rt)
  BY DEF DoQuiet, AtEnd, Running
<1>2. QED
  BY <1>1, SameRuntime, GoToEffect DEF Effect

LEMMA DoTodoEffect == ASSUME Inv, DoTodo PROVE Effect
<1>1. state = "running" /\ Stop("todo", rt)
  BY DEF DoTodo, Running
<1>2. QED
  BY <1>1 DEF Effect, Halts

LEMMA MissingOperandEffect == ASSUME Inv, MissingOperand PROVE Effect
<1>1. state = "running" /\ Stop("operand", rt)
  BY DEF MissingOperand, Running
<1>2. QED
  BY <1>1 DEF Effect, Halts

LEMMA DoConstEffect == ASSUME Inv, DoConst PROVE Effect
<1>1. state = "running" /\ Top.ix \in DOMAIN Code(Top) /\ Inst.op = "Const"
  BY AtFacts DEF DoConst
<1> DEFINE kind == Inst.cst[1]
           val == Inst.cst[2]
<1>2. CASE kind = "int"
  <2> DEFINE r == NewInt(rt, val)
  <2>1. Yield(Interned(r, <<"int", val>>), r)
    BY <1>2 DEF DoConst
  <2>2. RuntimeOK(r) /\ Extends(rt, r) /\ AllKept(rt, r) /\ Good(r, Interned(r, <<"int", val>>))
    BY SameRuntime, NewIntOK
  <2> HIDE DEF r
  <2>3. Undisturbed(r)
    BY <2>2, KeptUndisturbed
  <2>4. QED
    BY <1>1, <2>1, <2>2, <2>3, YieldEffect DEF Effect
<1>3. CASE kind = "str"
  <2> DEFINE r == NewString(rt, val)
  <2>1. Yield(Interned(r, <<"str", val>>), r)
    BY <1>3 DEF DoConst
  <2>2. RuntimeOK(r) /\ Extends(rt, r) /\ AllKept(rt, r) /\ Good(r, Interned(r, <<"str", val>>))
    BY SameRuntime, NewStringOK
  <2> HIDE DEF r
  <2>3. Undisturbed(r)
    BY <2>2, KeptUndisturbed
  <2>4. QED
    BY <1>1, <2>1, <2>2, <2>3, YieldEffect DEF Effect
<1>4. CASE kind \notin {"int", "str"}
  <2>1. \A o \in {TrueV, FalseV, NoneV, EllipsisV} : Good(rt, o)
    BY DEF Inv, RuntimeInv, Basics, Good
  <2>2. kind \in {"bool", "none", "ellipsis"}
    BY <1>1, <1>4, Here DEF WellFormed, Inst
  <2> HIDE DEF kind, val
  <2>3. \/ Yield(TrueV, rt)
        \/ Yield(FalseV, rt)
        \/ Yield(NoneV, rt)
        \/ Yield(EllipsisV, rt)
    <3>1. CASE kind = "bool" /\ val
      <4>1. Yield(TrueV, rt)
        BY <3>1 DEF DoConst, kind, val
      <4>2. QED
        BY <4>1
    <3>2. CASE kind = "bool" /\ ~val
      <4>1. Yield(FalseV, rt)
        BY <3>2 DEF DoConst, kind, val
      <4>2. QED
        BY <4>1
    <3>3. CASE kind = "none"
      <4>1. Yield(NoneV, rt)
        BY <3>3 DEF DoConst, kind, val
      <4>2. QED
        BY <4>1
    <3>4. CASE kind = "ellipsis"
      <4>1. Yield(EllipsisV, rt)
        BY <3>4 DEF DoConst, kind, val
      <4>2. QED
        BY <4>1
    <3>5. QED
      BY <2>2, <3>1, <3>2, <3>3, <3>4
  <2>4. QED
    BY <1>1, <2>1, <2>3, SameRuntime, YieldEffect DEF Effect
<1>5. QED
  BY <1>2, <1>3, <1>4

LEMMA DoRefAsStrEffect == ASSUME Inv, DoRefAsStr PROVE Effect
<1>1. state = "running" /\ Top.ix \in DOMAIN Code(Top) /\ Inst.op = "RefAsStr"
  BY AtFacts DEF DoRefAsStr
<1> DEFINE r == NewString(rt, Inst.name)
<1>2. Yield(Interned(r, <<"str", Inst.name>>), r)
  BY DEF DoRefAsStr
<1>3. RuntimeOK(r) /\ Extends(rt, r) /\ AllKept(rt, r) /\ Good(r, Interned(r, <<"str", Inst.name>>))
  BY SameRuntime, NewStringOK
<1> HIDE DEF r
<1>4. Undisturbed(r)
  BY <1>3, KeptUndisturbed
<1>5. QED
  BY <1>1, <1>2, <1>3, <1>4, YieldEffect DEF Effect

LEMMA OperandGood ==
  ASSUME Inv, state = "running", NEW c \in DOMAIN Top.values
  PROVE  Good(rt, Value(c))
BY Here DEF FrameOK, Value

LEMMA DoSetVarEffect == ASSUME Inv, DoSetVar PROVE Effect
<1>1. state = "running" /\ Top.ix \in DOMAIN Code(Top) /\ Inst.op = "SetVar" /\ Inst.value \in DOMAIN Top.values
  BY AtFacts DEF DoSetVar, Uses
<1> DEFINE x == Inst.var
           v == Value(Inst.value)
           u == Define(rt, x, v)
           f == Continue(Top, Top.ix + 1, Top.values, Bind(Top.locals, x, v))
<1>2. Next_(f, u)
  BY DEF DoSetVar, Assign_
<1>3. Good(rt, v)
  BY <1>1, OperandGood
<1>4. RuntimeOK(u) /\ Extends(rt, u)
  BY <1>1, <1>3, SameRuntime, DefineOK
<1>5. FrameOK(u, Top)
  BY <1>1, <1>4, Here, FrameKept
<1>6. \A c \in DOMAIN Top.values : Good(u, Top.values[c])
  BY <1>5 DEF FrameOK
<1> HIDE DEF v, x
<1>7. ScopesInv /\ Apart(u) => Fresh(u, f)
  BY <1>1, <1>4, FreshKept
<1>8. Steps(f, u)
  BY <1>1, <1>3, <1>4, <1>6, <1>7, SameRuntime, ExtendsItself, DefineSteps
<1> HIDE DEF f, u
<1>9. QED
  BY <1>1, <1>2, <1>8 DEF Effect, Continues

LEMMA DoUseVarEffect == ASSUME Inv, DoUseVar PROVE Effect
<1>1. state = "running" /\ Top.ix \in DOMAIN Code(Top) /\ Inst.op = "UseVar"
  BY AtFacts DEF DoUseVar
<1>2. Yield(Top.locals[Inst.var], rt) /\ Good(rt, Top.locals[Inst.var])
  BY <1>1, Here DEF DoUseVar, FrameOK
<1>3. QED
  BY <1>1, <1>2, SameRuntime, YieldEffect DEF Effect

LEMMA StartLookupEffect == ASSUME Inv, StartLookup PROVE Effect
<1>1. state = "running" /\ Top.ix \in DOMAIN Code(Top) /\ Inst.op = "UseVar"
  BY AtFacts DEF StartLookup
<1>2. CASE LookupFrom = 0
  <2>1. Stop("uninit", rt)
    BY <1>2 DEF StartLookup
  <2>2. QED
    BY <1>1, <2>1 DEF Effect, Halts
<1>3. CASE LookupFrom # 0
  <2>1. scope' = LookupFrom /\ UNCHANGED <<rt, frames, ticks, executed, state>> /\ Static
    BY <1>3 DEF StartLookup
  <2>2. Container(rt, LookupFrom)
    BY <1>1, <1>3, Here DEF LookupFrom, FrameOK, Inv, ModulesInv
  <2>3. QED
    BY <1>1, <2>1, <2>2 DEF Effect, Looks
<1>4. QED
  BY <1>2, <1>3

\* A scope whose chain does not end has a class and its parent, which is a namespace too.
LEMMA NextScopeOK ==
  ASSUME Inv, scope # 0, ~Ends(scope)
  PROVE  Container(rt, NextScope(scope))
<1>1. Container(rt, scope) /\ RuntimeOK(rt)
  BY DEF Inv, LookupInv, RuntimeInv
<1>2. rt.objects[scope].kind = "class" /\ Enclosing(scope) # 0
  BY DEF Ends
<1>3. Container(rt, Enclosing(scope))
  BY <1>1, <1>2 DEF RuntimeOK, Refers, Enclosing, Container
<1>4. QED
  BY <1>1, <1>3 DEF NextScope

LEMMA LookupEffect == ASSUME Inv, LookupFails \/ LookupFinds \/ LookupStep PROVE Effect
<1>1. scope # 0
  BY DEF LookupFails, LookupFinds, LookupStep
<1>2. state = "running" /\ Top.ix \in DOMAIN Code(Top) /\ Inst.op = "UseVar"
  BY <1>1 DEF Inv, LookupInv
<1>3. CASE LookupFails
  <2>1. Stop("NameError", rt)
    BY <1>3 DEF LookupFails
  <2>2. QED
    BY <1>2, <2>1 DEF Effect, Halts
<1>4. CASE LookupFinds
  <2>1. Container(rt, NextScope(scope)) /\ HasAttr(rt, NextScope(scope), Inst.var)
    BY <1>1, <1>4, NextScopeOK DEF LookupFinds
  <2> DEFINE v == Attr(rt, NextScope(scope), Inst.var)
  <2>2. Yield(v, rt)
    BY <1>4 DEF LookupFinds
  <2>3. Good(rt, v)
    BY <2>1, SameRuntime DEF RuntimeOK, Refers, Container, HasAttr, Attr
  <2>4. QED
    BY <1>2, <2>2, <2>3, SameRuntime, YieldEffect DEF Effect
<1>5. CASE LookupStep
  <2>1. Container(rt, NextScope(scope))
    BY <1>1, <1>5, NextScopeOK DEF LookupStep
  <2>2. scope' = NextScope(scope) /\ UNCHANGED <<rt, frames, ticks, executed, state>> /\ Static
    BY <1>5 DEF LookupStep
  <2>3. QED
    BY <1>2, <2>1, <2>2 DEF Effect, Looks
<1>6. QED
  BY <1>3, <1>4, <1>5

LEMMA JumpEffect == ASSUME Inv, DoBr \/ DoIf PROVE Effect
<1>1. CASE DoBr
  <2>1. state = "running" /\ Top.ix \in DOMAIN Code(Top) /\ Inst.op = "Br" /\ GoTo(Inst.to, rt)
    BY <1>1, AtFacts DEF DoBr
  <2>2. Inst.to \in JumpsTo(Inst)
    BY <2>1 DEF JumpsTo
  <2>3. QED
    BY <2>1, <2>2, SameRuntime, GoToEffect DEF Effect
<1>2. CASE DoIf
  <2>1. state = "running" /\ Top.ix \in DOMAIN Code(Top) /\ Inst.op = "If"
    BY <1>2, AtFacts DEF DoIf
  <2> DEFINE test == Value(Inst.test)
             to == IF test = TrueV THEN Inst.truthy ELSE Inst.falsey
             n == IF to = 0 THEN Top.ix + 1 ELSE to
  <2>2. CASE test \in {TrueV, FalseV}
    <3>1. GoTo(n, rt)
      BY <1>2, <2>2 DEF DoIf
    <3>2. n = Top.ix + 1 \/ n \in JumpsTo(Inst)
      BY <2>1 DEF JumpsTo
    <3> HIDE DEF n
    <3>3. QED
      BY <2>1, <3>1, <3>2, SameRuntime, GoToEffect DEF Effect
  <2>3. CASE test \notin {TrueV, FalseV}
    <3>1. Stop("todo", rt)
      BY <1>2, <2>3 DEF DoIf
    <3>2. QED
      BY <2>1, <3>1 DEF Effect, Halts
  <2>4. QED
    BY <2>2, <2>3
<1>3. QED
  BY <1>1, <1>2

LEMMA DoImportEffect == ASSUME Inv, DoImport PROVE Effect
<1>1. state = "running" /\ Top.ix \in DOMAIN Code(Top) /\ Inst.op = "Import"
  BY AtFacts DEF DoImport
<1>2. CASE Yield(Monty, rt)
  <2>1. Good(rt, Monty)
    BY DEF Inv, RuntimeInv, Basics, Good
  <2>2. QED
    BY <1>1, <1>2, <2>1, SameRuntime, YieldEffect DEF Effect
<1>3. CASE ~Yield(Monty, rt)
  <2> DEFINE a == Inst.relative # 0 /\ Inst.path[1] \notin StaticNames
             b == Inst.relative # 0 /\ Inst.path[1] \in StaticNames \ {"__monty"}
  <2>1. CASE a
    <3>1. Stop("static_name", rt)
      BY <1>3, <2>1 DEF DoImport
    <3>2. QED
      BY <1>1, <3>1 DEF Effect, Halts
  <2>2. CASE b
    <3>1. Stop("ImportError", rt)
      BY <1>3, <2>2 DEF DoImport
    <3>2. QED
      BY <1>1, <3>1 DEF Effect, Halts
  <2>3. CASE ~a /\ ~b
    <3> DEFINE why == IF Evaluated = 1 THEN "uninit" ELSE IF Evaluated = 2 THEN "ImportError" ELSE "todo"
    <3>1. Stop(why, rt)
      BY <1>3, <2>3 DEF DoImport
    <3>2. why \notin {"running", "idle"}
      OBVIOUS
    <3> HIDE DEF why
    <3>3. QED
      BY <1>1, <3>1, <3>2 DEF Effect, Halts
  <2>4. QED
    BY <2>1, <2>2, <2>3
<1>4. QED
  BY <1>2, <1>3

\* A new object is no frame's namespace.
LEMMA NewIsNoFrame ==
  ASSUME Inv, NEW i \in DOMAIN frames
  PROVE  frames[i].object # NewId(rt)
<1>1. FrameOK(rt, frames[i])
  BY DEF Inv, StackInv
<1>2. IsASeq(rt.objects)
  BY DEF Inv, RuntimeInv, RuntimeOK
<1>3. Len(rt.objects) \in Nat /\ DOMAIN rt.objects = 1 .. Len(rt.objects)
  BY <1>2, SeqFacts
<1>4. QED
  BY <1>1, <1>3 DEF FrameOK, Container, NewId

LEMMA DoClassEffect == ASSUME Inv, DoClass PROVE Effect
<1>1. state = "running" /\ Top.ix \in DOMAIN Code(Top) /\ Inst.op = "Class"
  BY AtFacts DEF DoClass
<1> DEFINE z == ClassObject(Top.object)
           made == Insert(rt, z)
           n == NewId(rt)
           x == Inst.name
           u == Define(made, x, n)
           values == Bind(Top.values, Top.ix, n)
           f == Continue(Top, Top.ix + 1, values, Bind(Top.locals, x, n))
<1>2. Next_(f, u)
  BY DEF DoClass, YieldAs
<1>3. FrameOK(rt, Top) /\ RuntimeOK(rt) /\ Len(frames) \in DOMAIN frames /\ Top = frames[Len(frames)]
        /\ WellFormed(Code(Top))
  BY <1>1, Here
<1>4. Shape(z) /\ z.kind = "class" /\ z.dict = EmptyDict /\ z.parent = Top.object
  BY DEF Shape, ClassObject
<1> HIDE DEF z
<1>5. /\ RuntimeOK(made) /\ Extends(rt, made) /\ AllKept(rt, made)
      /\ n \in DOMAIN made.objects /\ made.objects[n] = z
  BY <1>3, <1>4, InsertOK DEF FrameOK, AllKept
<1> HIDE DEF made
<1>6. \A i \in DOMAIN frames : frames[i].object # n
  BY NewIsNoFrame
<1> HIDE DEF n
<1>7. Good(made, n) /\ Container(made, n)
  BY <1>4, <1>5 DEF Good, Container
<1>8. RuntimeOK(u) /\ Extends(made, u) /\ OthersKept(made, u, Top.object)
  BY <1>1, <1>5, <1>7, DefineOK
<1>9. Good(u, n) /\ Container(u, n) /\ Extends(rt, u)
  BY <1>5, <1>7, <1>8, GoodKept, ExtendsFurther
<1>10. u.objects[n].dict = EmptyDict
  <2>1. n # Top.object
    BY <1>3, <1>6
  <2>2. QED
    BY <1>4, <1>5, <1>8, <2>1 DEF OthersKept
<1>11. values[Top.ix] = n /\ DOMAIN values = DOMAIN Top.values \cup {Top.ix}
         /\ \A c \in DOMAIN Top.values : c # Top.ix => values[c] = Top.values[c]
  BY DEF Bind
<1> HIDE DEF values
<1>12. \A c \in DOMAIN values : Good(u, values[c])
  <2>1. FrameOK(u, Top)
    BY <1>3, <1>9, FrameKept
  <2>2. QED
    BY <1>9, <1>11, <2>1 DEF FrameOK
<1>13. Fresh(u, f)
  <2>1. f.ix = Top.ix + 1 /\ f.values = values /\ Code(f) = Code(Top)
    BY ContinueFacts
  <2> HIDE DEF f, u
  <2>2. ASSUME NEW j \in DOMAIN Code(Top), Inside(Code(Top), Top.ix + 1, j)
        PROVE  Code(Top)[j].class = Top.ix
    BY <1>1, <1>3, <2>2, StaysInside DEF Inst
  <2>3. DOMAIN EmptyDict = {}
    BY DEF EmptyDict
  <2>4. QED
    BY <1>6, <1>9, <1>10, <1>11, <2>1, <2>2, <2>3 DEF Fresh
<1> HIDE DEF x
<1>14. Steps(f, u)
  BY <1>1, <1>5, <1>7, <1>8, <1>12, <1>13, ExtendsItself, DefineSteps
<1> HIDE DEF f, u
<1>15. QED
  BY <1>1, <1>2, <1>14 DEF Effect, Continues

LEMMA DoBuildClassEffect == ASSUME Inv, ScopesInv, DoBuildClass PROVE Effect
<1>1. /\ state = "running" /\ scope = 0 /\ Top.ix \in DOMAIN Code(Top) /\ Inst.op = "BuildClass"
      /\ Inst.class \in DOMAIN Top.values
  BY AtFacts DEF DoBuildClass, Uses
<1> DEFINE seqs == codes[Evaluated].seqs
           o == Value(Inst.class)
           f == BodyFrame(o)
<1>2. CASE Inst.seq \notin DOMAIN seqs
  <2>1. Stop("index", rt)
    BY <1>2 DEF DoBuildClass
  <2>2. QED
    BY <1>1, <2>1 DEF Effect, Halts
<1>3. CASE Inst.seq \in DOMAIN seqs /\ seqs[Inst.seq].kind # "Class"
  <2>1. Stop("assertion", rt)
    BY <1>3 DEF DoBuildClass
  <2>2. QED
    BY <1>1, <2>1 DEF Effect, Halts
<1>4. CASE Inst.seq \in DOMAIN seqs /\ ~(seqs[Inst.seq].kind # "Class")
  <2>1. Push(f, rt)
    BY <1>4 DEF DoBuildClass
  <2>2. /\ f.object = o /\ f.code = Evaluated /\ f.seq = Inst.seq /\ f.ix = 1
        /\ f.values = NoValues /\ f.locals = NoValues
    BY DEF BodyFrame, NewFrame, Frame
  <2>3. WellFormed(Code(Top)) /\ FrameOK(rt, Top)
    BY <1>1, Here
  <2>4. Inst.class \in 1 .. Top.ix - 1 /\ Top.ix \in Nat
    <3>1. ClassCode(Code(Top), Top.ix)
      BY <1>1, <2>3 DEF WellFormed, Inst
    <3>2. QED
      BY <2>3, <3>1 DEF ClassCode, Inst, FrameOK
  <2>5. Inside(Code(Top), Top.ix, Top.ix) /\ Top.ix > 1
    BY <1>1, <2>4 DEF Inside, Inst
  <2>6. /\ Container(rt, o)
        /\ DOMAIN rt.objects[o].dict \subseteq {"__doc__"}
        /\ \A i \in DOMAIN frames : frames[i].object # o
    BY <1>1, <2>5 DEF ScopesInv, Fresh, Inst, Value
  <2>7. Evaluated \in DOMAIN codes
    BY <1>1 DEF Inv, StackInv, Evaluated
  <2>8. DOMAIN NoValues = {}
    BY DEF NoValues
  <2> HIDE DEF f, o
  <2>9. FrameOK(rt, f)
    BY <1>4, <2>2, <2>6, <2>7, <2>8 DEF FrameOK
  <2>10. Mirrored(rt, f)
    BY <2>2, <2>6, <2>8 DEF Mirrored
  <2>11. Waits(Top)
    BY <1>1 DEF Waits, Inst
  <2>12. QED
    BY <1>1, <2>1, <2>2, <2>5, <2>6, <2>9, <2>10, <2>11 DEF Effect, Calls
<1>5. QED
  BY <1>2, <1>3, <1>4

LEMMA DoDefnEffect == ASSUME Inv, DoDefn PROVE Effect
<1>1. state = "running" /\ Top.ix \in DOMAIN Code(Top) /\ Inst.op = "Defn"
  BY AtFacts DEF DoDefn
<1> DEFINE z == FunctionObject(Evaluated, Inst.seq, Inst.params)
           made == Insert(rt, z)
           n == NewId(rt)
           x == Inst.name
           w == Define(made, x, n)
           d == NewString(w, x)
           st == Interned(d, <<"str", x>>)
           u == SetAttr(d, n, "__name__", st)
           values == Bind(Top.values, Top.ix, n)
           f == Continue(Top, Top.ix + 1, values, Bind(Top.locals, x, n))
<1>2. Next_(f, u)
  BY DEF DoDefn, YieldAs
<1>3. FrameOK(rt, Top) /\ RuntimeOK(rt) /\ WellFormed(Code(Top))
  BY <1>1, Here
<1>4. /\ Shape(z) /\ z.kind = "function" /\ z.dict = EmptyDict
      /\ z.code = Evaluated /\ z.params = Inst.params
  BY DEF Shape, FunctionObject
<1>5. Evaluated \in DOMAIN codes /\ Inst.params \in Seq(STRING)
  BY <1>1, <1>3 DEF Inv, StackInv, Evaluated, WellFormed, Inst
<1> HIDE DEF z
<1>6. /\ RuntimeOK(made) /\ Extends(rt, made) /\ AllKept(rt, made)
      /\ n \in DOMAIN made.objects /\ made.objects[n] = z /\ n \notin DOMAIN rt.objects
  BY <1>3, <1>4, <1>5, InsertOK DEF AllKept
<1> HIDE DEF made, n
<1>7. Good(made, n)
  BY <1>4, <1>6 DEF Good
<1>8. RuntimeOK(w) /\ Extends(made, w)
  BY <1>1, <1>6, <1>7, DefineOK
<1> HIDE DEF w
<1>9. RuntimeOK(d) /\ Extends(w, d) /\ AllKept(w, d) /\ Good(d, st)
  BY <1>8, NewStringOK
<1> HIDE DEF d, st
<1>10. Extends(made, d) /\ Extends(rt, d) /\ Extends(rt, w)
  BY <1>6, <1>8, <1>9, ExtendsFurther
<1>11. n \in DOMAIN d.objects
  BY <1>6, <1>10 DEF Extends
<1>12. RuntimeOK(u) /\ Extends(d, u) /\ OthersKept(d, u, n)
  BY <1>9, <1>11, SetAttrOK
<1> HIDE DEF u
<1>13. Extends(w, u) /\ Extends(rt, u) /\ Extends(made, u)
  BY <1>9, <1>10, <1>12, ExtendsFurther
<1>14. ASSUME NEW p \in DOMAIN rt.objects PROVE u.objects[p] = w.objects[p]
  <2>1. p \in DOMAIN w.objects /\ p \in DOMAIN d.objects /\ p # n
    BY <1>6, <1>10 DEF Extends
  <2>2. QED
    BY <1>9, <1>12, <2>1 DEF AllKept, OthersKept
<1>15. Good(u, n)
  BY <1>6, <1>7, <1>13, GoodKept
<1>16. values[Top.ix] = n /\ DOMAIN values = DOMAIN Top.values \cup {Top.ix}
         /\ \A c \in DOMAIN Top.values : c # Top.ix => values[c] = Top.values[c]
  BY DEF Bind
<1> HIDE DEF values
<1>17. \A c \in DOMAIN values : Good(u, values[c])
  <2>1. FrameOK(u, Top)
    BY <1>3, <1>13, FrameKept
  <2>2. QED
    BY <1>15, <1>16, <2>1 DEF FrameOK
<1> HIDE DEF x
<1>18. ScopesInv /\ Apart(u) => Fresh(u, f)
  BY <1>1, <1>12, <1>13, <1>16, FreshKept
<1>19. Steps(f, u)
  BY <1>1, <1>6, <1>7, <1>12, <1>13, <1>14, <1>17, <1>18, DefineSteps DEF w
<1> HIDE DEF f
<1>20. QED
  BY <1>1, <1>2, <1>19 DEF Effect, Continues

LEMMA DoSetDunderEffect == ASSUME Inv, DoSetDunder PROVE Effect
<1>1. /\ state = "running" /\ Top.ix \in DOMAIN Code(Top) /\ Inst.op = "SetDunder"
      /\ Inst.object \in DOMAIN Top.values /\ Inst.value \in DOMAIN Top.values
  BY AtFacts DEF DoSetDunder, Uses
<1> DEFINE o == Value(Inst.object)
           v == Value(Inst.value)
           u == SetAttr(rt, o, "__doc__", v)
<1>2. GoTo(Top.ix + 1, u)
  BY DEF DoSetDunder
<1>3. Good(rt, o) /\ Good(rt, v)
  BY <1>1, OperandGood
<1> HIDE DEF o, v
<1>4. /\ RuntimeOK(u) /\ Extends(rt, u) /\ OthersKept(rt, u, o)
      /\ rt.objects[o].kind \in {"module", "class", "function"} =>
           LET d == rt.objects[o].dict
               e == u.objects[o].dict
           IN  /\ DOMAIN e = DOMAIN d \cup {"__doc__"}
               /\ \A y \in DOMAIN d : y # "__doc__" => e[y] = d[y]
  BY <1>3, SameRuntime, SetAttrOK DEF Good
<1> HIDE DEF u
<1>5. Undisturbed(u)
  <2>1. SUFFICES ASSUME NEW p \in DOMAIN rt.objects, Container(rt, p)
                 PROVE  SameNames(rt.objects[p].dict, u.objects[p].dict)
    BY DEF Undisturbed
  <2>2. CASE p # o
    BY <1>4, <2>2, SameItself DEF OthersKept
  <2>3. CASE p = o
    <3> DEFINE d == rt.objects[o].dict
               e == u.objects[o].dict
    <3>1. DOMAIN e = DOMAIN d \cup {"__doc__"} /\ \A y \in DOMAIN d : y # "__doc__" => e[y] = d[y]
      BY <1>4, <2>1, <2>3 DEF Container
    <3> HIDE DEF d, e
    <3>2. SameNames(d, e)
      BY <3>1 DEF SameNames
    <3>3. QED
      BY <2>3, <3>2 DEF d, e
  <2>4. QED
    BY <2>2, <2>3
<1>6. QED
  BY <1>1, <1>2, <1>4, <1>5, GoToEffect DEF Effect

LEMMA DoGetAttributeEffect == ASSUME Inv, DoGetAttribute PROVE Effect
<1>1. state = "running" /\ Top.ix \in DOMAIN Code(Top) /\ Inst.op = "GetAttribute" /\ Inst.object \in DOMAIN Top.values
  BY AtFacts DEF DoGetAttribute, Uses
<1> DEFINE o == Value(Inst.object)
           name == rt.objects[Value(Inst.attr)].val
<1>2. Good(rt, o)
  BY <1>1, OperandGood
<1>3. CASE HasDict(rt, o) /\ HasAttr(rt, o, name)
  <2>1. Yield(Attr(rt, o, name), rt)
    BY <1>3 DEF DoGetAttribute
  <2> HIDE DEF o, name
  <2>2. Good(rt, Attr(rt, o, name))
    BY <1>2, <1>3, SameRuntime DEF RuntimeOK, Refers, Good, HasDict, HasAttr, Attr
  <2>3. QED
    BY <1>1, <2>1, <2>2, SameRuntime, YieldEffect DEF Effect
<1>4. CASE (HasDict(rt, o) /\ ~HasAttr(rt, o, name)) \/ (~HasDict(rt, o) /\ o = NoneV)
  <2>1. Stop("AttributeError", rt)
    BY <1>4 DEF DoGetAttribute
  <2>2. QED
    BY <1>1, <2>1 DEF Effect, Halts
<1>5. CASE ~HasDict(rt, o) /\ o # NoneV
  <2>1. Stop("todo", rt)
    BY <1>5 DEF DoGetAttribute
  <2>2. QED
    BY <1>1, <2>1 DEF Effect, Halts
<1>6. QED
  BY <1>3, <1>4, <1>5

LEMMA NotCallableEffect == ASSUME Inv, NotCallable PROVE Effect
<1>1. state = "running" /\ Stop("TypeError", rt)
  BY AtFacts DEF NotCallable
<1>2. QED
  BY <1>1 DEF Effect, Halts

\* What a call instruction says.
LEMMA CallFacts ==
  ASSUME Inv, At("Call")
  PROVE  /\ state = "running" /\ scope = 0
         /\ Top.ix \in DOMAIN Code(Top) /\ Inst.op = "Call"
         /\ Inst.callable \in DOMAIN Top.values
         /\ Inst.arguments \in Seq(Nat)
         /\ \A i \in 1 .. Len(Inst.arguments) : Inst.arguments[i] \in DOMAIN Top.values
         /\ Inst.callable \in 1 .. Top.ix - 1
<1>1. state = "running" /\ scope = 0 /\ Top.ix \in DOMAIN Code(Top) /\ Inst.op = "Call"
        /\ Uses(Inst) \subseteq DOMAIN Top.values
  BY AtFacts
<1>2. Uses(Inst) = {Inst.callable} \cup ToSet(Inst.arguments)
  BY <1>1 DEF Uses
<1>3. Inst.arguments \in Seq(Nat) /\ Inst.callable \in 1 .. Top.ix - 1
  BY <1>1, Here DEF WellFormed, Inst
<1>4. \A i \in 1 .. Len(Inst.arguments) : Inst.arguments[i] \in ToSet(Inst.arguments)
  BY <1>3 DEF ToSet
<1>5. QED
  BY <1>1, <1>2, <1>3, <1>4

LEMMA DoCallNativeEffect == ASSUME Inv, DoCallNative PROVE Effect
<1>1. /\ state = "running" /\ Top.ix \in DOMAIN Code(Top) /\ Inst.op = "Call"
      /\ Inst.callable \in DOMAIN Top.values
      /\ Inst.arguments \in Seq(Nat)
      /\ \A i \in 1 .. Len(Inst.arguments) : Inst.arguments[i] \in DOMAIN Top.values
  BY CallFacts DEF DoCallNative
<1> DEFINE o == Value(Inst.callable)
           callable == rt.objects[o]
           arg == Value(Inst.arguments[1])
<1>2. CASE Inst.arguments = << >>
  <2>1. Stop("todo", rt)
    BY <1>2 DEF DoCallNative
  <2>2. QED
    BY <1>1, <2>1 DEF Effect, Halts
<1>3. ASSUME Inst.arguments # << >> PROVE Good(rt, arg)
  <2>1. 1 \in 1 .. Len(Inst.arguments)
    BY <1>1, <1>3
  <2>2. Inst.arguments[1] \in DOMAIN Top.values
    BY <1>1, <2>1
  <2>3. QED
    BY <1>1, <2>2, OperandGood
<1>4. CASE Inst.arguments # << >> /\ callable.native = "intrinsic"
  <2>1. Yield(arg, rt)
    BY <1>4 DEF DoCallNative
  <2>2. QED
    BY <1>1, <1>3, <1>4, <2>1, SameRuntime, YieldEffect DEF Effect
<1>5. CASE Inst.arguments # << >> /\ callable.native = "extern"
  <2> DEFINE z == CallableObject("decorator", arg)
             u == Insert(rt, z)
             n == NewId(rt)
  <2>1. CASE Len(Inst.arguments) = 1 /\ rt.objects[arg].kind = "str"
    <3>1. Yield(n, u)
      BY <1>5, <2>1 DEF DoCallNative
    <3>2. Shape(z) /\ z.kind = "callable" /\ z.conv = arg
      BY DEF Shape, CallableObject
    <3> HIDE DEF z
    <3>3. RuntimeOK(u) /\ Extends(rt, u) /\ AllKept(rt, u) /\ n \in DOMAIN u.objects /\ u.objects[n] = z
      BY <1>3, <1>5, <3>2, SameRuntime, InsertOK DEF AllKept
    <3> HIDE DEF u, n
    <3>4. Good(u, n) /\ Undisturbed(u)
      BY <3>2, <3>3, KeptUndisturbed DEF Good
    <3>5. QED
      BY <1>1, <3>1, <3>3, <3>4, YieldEffect DEF Effect
  <2>2. CASE ~(Len(Inst.arguments) = 1 /\ rt.objects[arg].kind = "str")
    <3>1. Stop("TypeError", rt)
      BY <1>5, <2>2 DEF DoCallNative
    <3>2. QED
      BY <1>1, <3>1 DEF Effect, Halts
  <2>3. QED
    BY <2>1, <2>2
<1>6. CASE Inst.arguments # << >> /\ callable.native \notin {"intrinsic", "extern"}
  <2> DEFINE u == SetAttr(rt, arg, "__extern__", callable.conv)
  <2>1. CASE Len(Inst.arguments) = 1 /\ rt.objects[arg].kind = "function"
    <3>1. Yield(arg, u)
      BY <1>6, <2>1 DEF DoCallNative
    <3>2. Good(rt, callable.conv)
      <4>1. callable.kind = "callable" /\ Good(rt, o)
        BY <1>1, OperandGood DEF DoCallNative
      <4> HIDE DEF o
      <4>2. Refers(rt, o)
        BY <4>1, SameRuntime DEF RuntimeOK, Good
      <4>3. QED
        BY <1>6, <4>1, <4>2 DEF Refers
    <3>3. Good(rt, arg) /\ arg \in DOMAIN rt.objects
      BY <1>3, <1>6 DEF Good
    <3> DEFINE conv == callable.conv
    <3> HIDE DEF arg, conv
    <3>4. RuntimeOK(u) /\ Extends(rt, u) /\ OthersKept(rt, u, arg)
      BY <3>2, <3>3, SameRuntime, SetAttrOK DEF conv
    <3> HIDE DEF u
    <3>5. Undisturbed(u)
      <4>1. ASSUME NEW p \in DOMAIN rt.objects, Container(rt, p) PROVE u.objects[p] = rt.objects[p]
        BY <2>1, <3>4, <4>1 DEF OthersKept, Container
      <4>2. QED
        BY <4>1, SameItself DEF Undisturbed
    <3>6. Good(u, arg)
      BY <3>3, <3>4, SameRuntime, GoodKept
    <3>7. QED
      BY <1>1, <3>1, <3>4, <3>5, <3>6, YieldEffect DEF Effect
  <2>2. CASE ~(Len(Inst.arguments) = 1 /\ rt.objects[arg].kind = "function")
    <3>1. Stop("TypeError", rt)
      BY <1>6, <2>2 DEF DoCallNative
    <3>2. QED
      BY <1>1, <3>1 DEF Effect, Halts
  <2>3. QED
    BY <2>1, <2>2
<1>7. QED
  BY <1>2, <1>4, <1>5, <1>6

LEMMA DoCallFunctionEffect == ASSUME Inv, DoCallFunction PROVE Effect
<1>1. /\ state = "running" /\ scope = 0 /\ Top.ix \in DOMAIN Code(Top) /\ Inst.op = "Call"
      /\ Inst.callable \in DOMAIN Top.values
      /\ Inst.arguments \in Seq(Nat)
      /\ \A i \in 1 .. Len(Inst.arguments) : Inst.arguments[i] \in DOMAIN Top.values
      /\ Inst.callable \in 1 .. Top.ix - 1
  BY CallFacts DEF DoCallFunction
<1> DEFINE o == Value(Inst.callable)
           f == rt.objects[o]
           n == IF Len(f.params) < Len(Inst.arguments) THEN Len(f.params) ELSE Len(Inst.arguments)
           args == [i \in 1 .. n |-> Value(Inst.arguments[i])]
           locals == [x \in {f.params[i] : i \in 1 .. n} |-> args[LastOf(f.params, n, x)]]
           g == Frame(0, f.code, f.code, f.seq, args, locals)
<1>2. CASE f.seq \notin DOMAIN codes[f.code].seqs
  <2>1. Stop("index", rt)
    BY <1>2 DEF DoCallFunction
  <2>2. QED
    BY <1>1, <2>1 DEF Effect, Halts
<1>3. CASE f.seq \in DOMAIN codes[f.code].seqs
  <2>1. Push(g, rt)
    BY <1>3 DEF DoCallFunction
  <2>2. f.code \in DOMAIN codes /\ f.params \in Seq(STRING)
    <3>1. f.kind = "function" /\ Good(rt, o)
      BY <1>1, OperandGood DEF DoCallFunction
    <3> HIDE DEF o
    <3>2. Refers(rt, o)
      BY <3>1, SameRuntime DEF RuntimeOK, Good
    <3>3. QED
      BY <3>1, <3>2 DEF Refers
  <2>3. n \in Nat /\ n <= Len(Inst.arguments)
    BY <1>1, <2>2
  <2> HIDE DEF n, f
  <2>4. ASSUME NEW i \in 1 .. n PROVE Good(rt, args[i])
    <3>1. Inst.arguments[i] \in DOMAIN Top.values
      BY <1>1, <2>3
    <3>2. QED
      BY <1>1, <3>1, OperandGood
  <2>5. DOMAIN args = 1 .. n
    OBVIOUS
  <2> HIDE DEF args
  <2>6. ASSUME NEW x \in DOMAIN locals PROVE Good(rt, locals[x])
    <3>1. PICK i \in 1 .. n : x = f.params[i]
      OBVIOUS
    <3>2. LastOf(f.params, n, x) \in 1 .. n
      BY <2>3, <3>1, LastOfOK
    <3>3. locals[x] = args[LastOf(f.params, n, x)]
      OBVIOUS
    <3>4. QED
      BY <2>4, <3>2, <3>3
  <2> HIDE DEF locals
  <2>7. /\ g.object = 0 /\ g.code = f.code /\ g.seq = f.seq /\ g.ix = 1
        /\ g.values = args /\ g.locals = locals
    BY DEF Frame
  <2> HIDE DEF g
  <2>8. FrameOK(rt, g) /\ Mirrored(rt, g)
    BY <1>3, <2>2, <2>4, <2>5, <2>6, <2>7 DEF FrameOK, Mirrored
  <2>9. Waits(Top)
    BY <1>1 DEF Waits, Inst
  <2>10. Top.ix > 1
    BY <1>1, Here DEF FrameOK
  <2>11. QED
    BY <1>1, <2>1, <2>7, <2>8, <2>9, <2>10 DEF Effect, Calls
<1>4. QED
  BY <1>2, <1>3

LEMMA ReturnEffect == ASSUME Inv, FallOff \/ DoReturn \/ ReturnInModule PROVE Effect
<1>1. CASE FallOff
  <2>1. state = "running" /\ scope = 0 /\ Len(frames) > 1 /\ Resume(NoneV) /\ executed' = executed
    BY <1>1 DEF FallOff, AtEnd, Running
  <2>2. Good(rt, NoneV)
    BY DEF Inv, RuntimeInv, Basics, Good
  <2>3. QED
    BY <2>1, <2>2 DEF Effect, Returns
<1>2. CASE DoReturn
  <2>1. /\ state = "running" /\ scope = 0 /\ Len(frames) > 1
        /\ Inst.value \in DOMAIN Top.values
        /\ Resume(Value(Inst.value)) /\ executed' = executed + 1
    BY <1>2, AtFacts DEF DoReturn, Uses, Executed
  <2>2. Good(rt, Value(Inst.value))
    BY <2>1, OperandGood
  <2>3. QED
    BY <2>1, <2>2 DEF Effect, Returns
<1>3. CASE ReturnInModule
  <2>1. state = "running" /\ Stop("todo", rt)
    BY <1>3, AtFacts DEF ReturnInModule
  <2>2. QED
    BY <2>1 DEF Effect, Halts
<1>4. QED
  BY <1>1, <1>2, <1>3

\* Every step but the beginning and the end of an evaluation has one of the effects.
LEMMA NextEffect ==
  ASSUME Inv, ScopesInv, Next
  PROVE  Begin \/ LoweringPanics \/ Finish \/ Effect
BY ReturnEffect, DoQuietEffect, DoTodoEffect, MissingOperandEffect, DoConstEffect, DoRefAsStrEffect,
   DoSetVarEffect, DoUseVarEffect, StartLookupEffect, LookupEffect, DoClassEffect, DoBuildClassEffect,
   DoDefnEffect, DoCallFunctionEffect, DoCallNativeEffect, NotCallableEffect, DoGetAttributeEffect,
   DoSetDunderEffect, JumpEffect, DoImportEffect
   DEF Next

-----------------------------------------------------------------------------
(* The invariant is kept.                                                  *)

\* Replacing the frame that runs.
LEMMA TopReplaced ==
  ASSUME Inv, state = "running", NEW f
  PROVE  LET s == [frames EXCEPT ![Len(frames)] = f]
         IN  /\ IsASeq(s)
             /\ Len(s) = Len(frames)
             /\ DOMAIN s = DOMAIN frames
             /\ s[Len(frames)] = f
             /\ \A i \in DOMAIN frames : i # Len(frames) => s[i] = frames[i]
BY Here, ExceptFacts DEF Inv, StackInv

\* Taking the frame that runs off, with another for its caller.
LEMMA TopRemoved ==
  ASSUME Inv, state = "running", Len(frames) > 1, NEW f
  PROVE  LET s == [Front(frames) EXCEPT ![Len(frames) - 1] = f]
         IN  /\ IsASeq(s)
             /\ Len(s) = Len(frames) - 1
             /\ DOMAIN s = 1 .. Len(frames) - 1
             /\ s[Len(frames) - 1] = f
             /\ \A i \in DOMAIN s : i # Len(frames) - 1 => i \in DOMAIN frames /\ s[i] = frames[i]
<1>1. IsASeq(frames) /\ Len(frames) \in Nat
  BY Here DEF Inv, StackInv
<1> DEFINE t == Front(frames)
           k == Len(frames) - 1
           s == [t EXCEPT ![k] = f]
<1>2. IsASeq(t) /\ Len(t) = k /\ DOMAIN t = 1 .. k
        /\ \A i \in DOMAIN t : i \in DOMAIN frames /\ t[i] = frames[i]
  BY <1>1, FrontFacts
<1>3. k \in DOMAIN t
  BY <1>1, <1>2
<1> HIDE DEF t, k
<1>4. /\ IsASeq(s) /\ Len(s) = Len(t) /\ DOMAIN s = DOMAIN t /\ s[k] = f
      /\ \A i \in DOMAIN t : i # k => s[i] = t[i]
  BY <1>2, <1>3, ExceptFacts
<1>5. QED
  BY <1>2, <1>4 DEF t, k

\* Frames that are not at the top go on waiting, in a larger runtime.
LEMMA ContinuesKeeps ==
  ASSUME Inv, ScopesInv, state = "running", Continues
  PROVE  Inv' /\ ScopesInv'
<1>1. PICK f, r : Next_(f, r) /\ Steps(f, r)
  BY DEF Continues
<1> DEFINE s == [frames EXCEPT ![Len(frames)] = f]
           n == Len(frames)
<1>2. /\ rt' = r /\ frames' = s /\ scope' = 0
      /\ program' = program /\ codes' = codes /\ modules' = modules /\ builtins' = builtins
      /\ state' \in {"running", "Tick"}
  BY <1>1 DEF Next_, Tick, Static
<1>3. /\ RuntimeOK(r) /\ Extends(rt, r) /\ FrameOK(r, f)
      /\ f.object = Top.object /\ f.code = Top.code /\ f.seq = Top.seq
      /\ Apart(r) /\ Mirrored(r, f) /\ Fresh(r, f)
  BY <1>1 DEF Steps
<1>4. /\ n \in Nat /\ n > 0 /\ DOMAIN frames = 1 .. n /\ n \in DOMAIN frames
      /\ Top = frames[n] /\ RuntimeOK(rt)
  BY Here
<1>5. /\ IsASeq(s) /\ Len(s) = n /\ DOMAIN s = DOMAIN frames /\ s[n] = f
      /\ \A i \in DOMAIN frames : i # n => s[i] = frames[i]
  BY TopReplaced
<1> HIDE DEF s, n
<1>6. Top' = f
  BY <1>2, <1>5 DEF Top, Last
<1>7. CodesOK'
  BY <1>2 DEF Inv, CodesOK
<1>8. RuntimeInv'
  <2>1. Basics(r)
    BY <1>3, <1>4, BasicsKept DEF Inv, RuntimeInv
  <2>2. RuntimeOK(rt)'
    BY <1>2, <1>3 DEF RuntimeOK, Refers
  <2>3. Basics(rt)'
    BY <1>2, <2>1 DEF Basics
  <2>4. QED
    BY <2>2, <2>3 DEF RuntimeInv
<1>9. \A i \in DOMAIN frames : FrameOK(r, s[i])
  <2>1. \A i \in DOMAIN frames : FrameOK(rt, frames[i])
    BY DEF Inv, StackInv
  <2>2. \A i \in DOMAIN frames : FrameOK(r, frames[i])
    BY <2>1, <1>3, <1>4, FrameKept
  <2>3. QED
    BY <1>3, <1>5, <2>2
<1>10. StackInv'
  <2>1. IsASeq(frames)'
    BY <1>2, <1>5 DEF IsASeq
  <2>2. (\A i \in DOMAIN frames : FrameOK(rt, frames[i]))'
    BY <1>2, <1>5, <1>9 DEF FrameOK
  <2>3. \A i \in DOMAIN s : i < n => Waits(s[i])
    BY <1>4, <1>5 DEF Inv, StackInv, n
  <2>4. (\A i \in DOMAIN frames : i < Len(frames) => Waits(frames[i]))'
    BY <1>2, <1>5, <2>3 DEF Waits, Code
  <2>5. (state = "running" => Len(frames) > 0 /\ Len(modules) > 0 /\ Len(modules) \in DOMAIN codes)'
    BY <1>2, <1>4, <1>5 DEF Inv, StackInv
  <2>6. QED
    BY <2>1, <2>2, <2>4, <2>5 DEF StackInv
<1>11. ModulesInv'
  <2>1. \A p : Container(rt, p) => Container(r, p)
    BY <1>3, <1>4, GoodKept
  <2>2. QED
    BY <1>2, <2>1 DEF Inv, ModulesInv, Container, IsASeq
<1>12. LookupInv'
  BY <1>2 DEF LookupInv
<1>13. ScopesInv'
  <2>1. ASSUME NEW i \in DOMAIN frames PROVE Mirrored(r, s[i])
    <3>1. CASE i = n
      BY <1>3, <1>5, <3>1
    <3>2. CASE i # n
      <4>1. Mirrored(rt, frames[i]) /\ s[i] = frames[i]
        BY <1>5, <3>2 DEF ScopesInv, ScopeMirrored
      <4>2. frames[i].object # 0 => frames[i].object # Top.object
        BY <1>4, <3>2 DEF ScopesInv
      <4>3. frames[i].object # 0 => Container(rt, frames[i].object)
        BY DEF Inv, StackInv, FrameOK
      <4>4. frames[i].object # 0 => SameNames(rt.objects[frames[i].object].dict, r.objects[frames[i].object].dict)
        BY <1>3, <4>2, <4>3 DEF Apart, Container
      <4>5. QED
        BY <4>1, <4>4, MirrorKept
    <3>3. QED
      BY <3>1, <3>2
  <2>2. ScopeMirrored'
    BY <1>2, <1>5, <2>1 DEF ScopeMirrored, Mirrored
  <2>3. \A i \in DOMAIN frames : s[i].object = frames[i].object
    BY <1>3, <1>4, <1>5
  <2>4. (\A i, j \in DOMAIN frames : i # j /\ frames[i].object # 0 => frames[i].object # frames[j].object)'
    BY <1>2, <1>5, <2>3 DEF ScopesInv
  <2>5. Fresh(rt, Top)'
    <3>1. \A o : (\A i \in DOMAIN frames : frames[i].object # o) => (\A i \in DOMAIN s : s[i].object # o)
      BY <1>5, <2>3
    <3>2. Code(Top)' = Code(f)
      BY <1>2, <1>6 DEF Code
    <3>3. SUFFICES ASSUME NEW j \in DOMAIN Code(f), Inside(Code(f), f.ix, j)
                   PROVE  LET class == Code(f)[j].class
                              o == f.values[class]
                          IN  /\ class \in DOMAIN f.values
                              /\ Container(r, o)
                              /\ DOMAIN r.objects[o].dict \subseteq {"__doc__"}
                              /\ \A i \in DOMAIN s : s[i].object # o
      BY <1>2, <1>6, <3>2 DEF Fresh, Inside, Container
    <3> DEFINE class == Code(f)[j].class
               o == f.values[class]
    <3>4. /\ class \in DOMAIN f.values
          /\ Container(r, o)
          /\ DOMAIN r.objects[o].dict \subseteq {"__doc__"}
          /\ \A i \in DOMAIN frames : frames[i].object # o
      BY <1>3, <3>3 DEF Fresh
    <3> HIDE DEF o
    <3>5. \A i \in DOMAIN s : s[i].object # o
      BY <3>1, <3>4
    <3>6. QED
      BY <3>4, <3>5 DEF o
  <2>6. QED
    BY <2>2, <2>4, <2>5 DEF ScopesInv
<1>14. QED
  BY <1>7, <1>8, <1>10, <1>11, <1>12, <1>13 DEF Inv

\* A step that leaves the runtime alone.
LEMMA StaticKeeps ==
  ASSUME Inv, rt' = rt, Static
  PROVE  CodesOK' /\ RuntimeInv' /\ ModulesInv'
<1>1. codes' = codes /\ modules' = modules /\ builtins' = builtins
  BY DEF Static
<1>2. CodesOK'
  BY <1>1 DEF Inv, CodesOK
<1>3. RuntimeOK(rt)' /\ Basics(rt)'
  BY <1>1 DEF Inv, RuntimeInv, RuntimeOK, Refers, Basics
<1>4. ModulesInv'
  BY <1>1 DEF Inv, ModulesInv, Container, IsASeq
<1>5. QED
  BY <1>2, <1>3, <1>4 DEF RuntimeInv

\* A step that leaves the stack alone too.
LEMMA StackKept ==
  ASSUME Inv, rt' = rt, frames' = frames, Static, state' = "running" => state = "running"
  PROVE  StackInv'
<1>1. codes' = codes /\ modules' = modules
  BY DEF Static
<1>2. IsASeq(frames)' /\ (\A i \in DOMAIN frames : FrameOK(rt, frames[i]))'
  BY <1>1 DEF Inv, StackInv, IsASeq, FrameOK
<1>3. (\A i \in DOMAIN frames : i < Len(frames) => Waits(frames[i]))'
  BY <1>1 DEF Inv, StackInv, Waits, Code
<1>4. QED
  BY <1>1, <1>2, <1>3 DEF Inv, StackInv

LEMMA HaltsKeeps ==
  ASSUME Inv, ScopesInv, Halts
  PROVE  Inv' /\ ScopesInv'
<1>1. /\ rt' = rt /\ frames' = frames /\ scope' = 0 /\ state' # "running" /\ Static
  BY DEF Halts, Stop
<1>2. LookupInv'
  BY <1>1 DEF LookupInv
<1>3. ScopesInv'
  BY <1>1 DEF ScopesInv, ScopeMirrored, Mirrored
<1>4. QED
  BY <1>1, <1>2, <1>3, StaticKeeps, StackKept DEF Inv

LEMMA LooksKeeps ==
  ASSUME Inv, ScopesInv, state = "running", Looks
  PROVE  Inv' /\ ScopesInv'
<1>1. PICK s : /\ scope' = s
               /\ Container(rt, s)
               /\ Top.ix \in DOMAIN Code(Top) /\ Inst.op = "UseVar"
               /\ rt' = rt /\ frames' = frames /\ state' = state /\ Static
  BY DEF Looks
<1>2. Top' = Top
  BY <1>1 DEF Top
<1>3. Code(Top)' = Code(Top)
  BY <1>1, <1>2 DEF Code, Static
<1>4. LookupInv'
  BY <1>1, <1>2, <1>3 DEF LookupInv, Inst, Container
<1>5. Fresh(rt, Top)'
  <2>1. Fresh(rt, Top)
    BY DEF ScopesInv
  <2>2. QED
    BY <1>1, <1>2, <1>3, <2>1 DEF Fresh, Inside, Container
<1>6. ScopesInv'
  BY <1>1, <1>5 DEF ScopesInv, ScopeMirrored, Mirrored
<1>7. QED
  BY <1>1, <1>4, <1>6, StaticKeeps, StackKept DEF Inv

\* The first instruction is no part of a class definition but its beginning.
LEMMA FirstOutside ==
  ASSUME NEW inst, WellFormed(inst), NEW j \in DOMAIN inst
  PROVE  ~Inside(inst, 1, j)
<1>1. SUFFICES ASSUME inst[j].op = "BuildClass", 1 \in inst[j].class + 1 .. j PROVE FALSE
  BY DEF Inside
<1>2. ClassCode(inst, j) /\ DOMAIN inst = 1 .. Len(inst)
  BY <1>1 DEF WellFormed
<1> DEFINE c == inst[j].class
<1>3. c \in Nat /\ c > 0
  BY <1>2 DEF ClassCode
<1> HIDE DEF c
<1>4. QED
  BY <1>1, <1>3 DEF c

LEMMA CallsKeeps ==
  ASSUME Inv, ScopesInv, state = "running", Calls
  PROVE  Inv' /\ ScopesInv'
<1>1. PICK f : /\ Push(f, rt)
               /\ FrameOK(rt, f)
               /\ f.ix = 1
               /\ Waits(Top)
               /\ scope = 0
               /\ Mirrored(rt, f)
               /\ f.object # 0 => \A i \in DOMAIN frames : frames[i].object # f.object
  BY DEF Calls
<1> DEFINE s == Append(frames, f)
           n == Len(frames)
<1>2. rt' = rt /\ frames' = s /\ scope' = 0 /\ state' = "running" /\ Static
  BY <1>1 DEF Push
<1>3. codes' = codes /\ modules' = modules
  BY <1>2 DEF Static
<1>4. n \in Nat /\ n > 0 /\ DOMAIN frames = 1 .. n /\ n \in DOMAIN frames /\ Top = frames[n]
  BY Here
<1>5. /\ IsASeq(s) /\ Len(s) = n + 1 /\ DOMAIN s = 1 .. n + 1 /\ s[n + 1] = f
      /\ \A i \in DOMAIN frames : s[i] = frames[i]
  BY AppendFacts DEF Inv, StackInv
<1>6. \A i \in DOMAIN s : i = n + 1 \/ i \in DOMAIN frames
  BY <1>4, <1>5
<1> HIDE DEF s, n
<1>7. Top' = f
  BY <1>2, <1>5 DEF Top, Last
<1>8. StackInv'
  <2>1. IsASeq(frames)'
    BY <1>2, <1>5 DEF IsASeq
  <2>2. \A i \in DOMAIN s : FrameOK(rt, s[i])
    BY <1>1, <1>5, <1>6 DEF Inv, StackInv
  <2>3. (\A i \in DOMAIN frames : FrameOK(rt, frames[i]))'
    BY <1>2, <1>3, <2>2 DEF FrameOK
  <2>4. \A i \in DOMAIN s : i < n + 1 => Waits(s[i])
    <3>1. SUFFICES ASSUME NEW i \in DOMAIN s, i < n + 1 PROVE Waits(frames[i])
      BY <1>4, <1>5, <1>6
    <3>2. i \in DOMAIN frames /\ (i < n \/ i = n)
      BY <1>4, <1>5, <3>1
    <3>3. i < n => Waits(frames[i])
      BY <3>2 DEF Inv, StackInv, n
    <3>4. QED
      BY <1>1, <1>4, <3>2, <3>3
  <2>5. (\A i \in DOMAIN frames : i < Len(frames) => Waits(frames[i]))'
    BY <1>2, <1>3, <1>5, <2>4 DEF Waits, Code
  <2>6. (Len(frames) > 0 /\ Len(modules) > 0 /\ Len(modules) \in DOMAIN codes)'
    BY <1>2, <1>3, <1>4, <1>5 DEF Inv, StackInv
  <2>7. QED
    BY <2>1, <2>3, <2>5, <2>6 DEF StackInv
<1>9. LookupInv'
  BY <1>2 DEF LookupInv
<1>10. ScopesInv'
  <2>1. \A i \in DOMAIN s : Mirrored(rt, s[i])
    BY <1>1, <1>5, <1>6 DEF ScopesInv, ScopeMirrored
  <2>2. ScopeMirrored'
    BY <1>2, <2>1 DEF ScopeMirrored, Mirrored
  <2>3. ASSUME NEW i \in DOMAIN s, NEW j \in DOMAIN s, i # j, s[i].object # 0
        PROVE  s[i].object # s[j].object
    <3>1. CASE i \in DOMAIN frames /\ j \in DOMAIN frames
      BY <1>5, <2>3, <3>1 DEF ScopesInv
    <3>2. CASE i = n + 1 /\ j \in DOMAIN frames
      BY <1>1, <1>5, <2>3, <3>2
    <3>3. CASE i \in DOMAIN frames /\ j = n + 1
      BY <1>1, <1>5, <2>3, <3>3
    <3>4. QED
      BY <1>6, <2>3, <3>1, <3>2, <3>3
  <2>4. (\A i, j \in DOMAIN frames : i # j /\ frames[i].object # 0 => frames[i].object # frames[j].object)'
    BY <1>2, <2>3
  <2>5. Fresh(rt, Top)'
    <3>1. Code(Top)' = Code(f) /\ WellFormed(Code(f))
      BY <1>1, <1>3, <1>7 DEF Code, Inv, CodesOK, FrameOK
    <3>2. \A j \in DOMAIN Code(f) : ~Inside(Code(f), 1, j)
      BY <3>1, FirstOutside
    <3>3. QED
      BY <1>1, <1>7, <3>1, <3>2 DEF Fresh, Inside
  <2>6. QED
    BY <2>2, <2>4, <2>5 DEF ScopesInv
<1>11. QED
  BY <1>2, <1>8, <1>9, <1>10, StaticKeeps DEF Inv

\* The frame that a return resumes.
LEMMA ResumedOK ==
  ASSUME Inv, state = "running", Len(frames) > 1, NEW v, Good(rt, v)
  PROVE  /\ Len(frames) - 1 \in DOMAIN frames
         /\ FrameOK(rt, Resumed(v))
         /\ Resumed(v).object = Caller.object /\ Resumed(v).locals = Caller.locals
         /\ Resumed(v).ix = Caller.ix + 1
         /\ Caller.ix \in Nat \ {0}
         /\ Code(Resumed(v)) = Code(Caller)
         /\ WellFormed(Code(Caller))
         /\ \A j \in DOMAIN Code(Caller) : ~Inside(Code(Caller), Caller.ix + 1, j)
<1> DEFINE k == Len(frames) - 1
           values == IF Code(Caller)[Caller.ix].op = "Call" THEN Bind(Caller.values, Caller.ix, v) ELSE Caller.values
           g == Continue(Caller, Caller.ix + 1, values, Caller.locals)
<1>1. k \in DOMAIN frames /\ k < Len(frames) /\ Caller = frames[k]
  BY Here DEF Caller
<1> HIDE DEF k
<1>2. FrameOK(rt, Caller) /\ Waits(Caller)
  BY <1>1 DEF Inv, StackInv
<1>3. WellFormed(Code(Caller))
  BY <1>2 DEF Inv, CodesOK, FrameOK, Code
<1>4. \A j \in DOMAIN Code(Caller) : ~Inside(Code(Caller), Caller.ix + 1, j)
  <2> DEFINE inst == Code(Caller)
             i == Caller.ix
  <2>1. i \in DOMAIN inst /\ inst[i].op \notin {"Class", "SetVar", "Const", "SetDunder"}
    BY <1>2 DEF Waits
  <2> HIDE DEF inst, i
  <2>2. \A j \in DOMAIN inst : ~Inside(inst, i + 1, j)
    BY <1>3, <2>1, NotInside DEF inst
  <2>3. QED
    BY <2>2 DEF inst, i
<1>5. \A i \in DOMAIN values : Good(rt, values[i])
  BY <1>2 DEF FrameOK, Bind
<1> HIDE DEF values
<1>6. /\ g.object = Caller.object /\ g.code = Caller.code /\ g.seq = Caller.seq /\ g.ix = Caller.ix + 1
      /\ g.values = values /\ g.locals = Caller.locals
      /\ Code(g) = Code(Caller)
  BY ContinueFacts
<1>7. g = Resumed(v)
  BY DEF g, values, Resumed
<1> HIDE DEF g
<1>8. FrameOK(rt, g)
  BY <1>2, <1>5, <1>6 DEF FrameOK
<1>9. QED
  BY <1>1, <1>2, <1>3, <1>4, <1>6, <1>7, <1>8 DEF FrameOK, k

LEMMA ReturnsKeeps ==
  ASSUME Inv, ScopesInv, state = "running", Returns
  PROVE  Inv' /\ ScopesInv'
<1>1. PICK v : Resume(v) /\ Good(rt, v) /\ Len(frames) > 1 /\ scope = 0
  BY DEF Returns
<1> DEFINE f == Resumed(v)
           k == Len(frames) - 1
           s == [Front(frames) EXCEPT ![k] = f]
<1>2. rt' = rt /\ frames' = s /\ scope' = 0 /\ state' \in {"running", "Tick"} /\ Static
  BY <1>1 DEF Resume, Tick
<1>3. codes' = codes /\ modules' = modules
  BY <1>2 DEF Static
<1>4. /\ k \in DOMAIN frames
      /\ FrameOK(rt, f)
      /\ f.object = Caller.object /\ f.locals = Caller.locals
      /\ f.ix = Caller.ix + 1
      /\ Code(f) = Code(Caller)
      /\ \A j \in DOMAIN Code(Caller) : ~Inside(Code(Caller), Caller.ix + 1, j)
  BY <1>1, ResumedOK
<1>5. Caller = frames[k] /\ k \in Nat /\ k > 0 /\ k < Len(frames) /\ Len(frames) \in Nat
  BY <1>1, Here DEF Caller
<1> HIDE DEF f
<1>6. /\ IsASeq(s) /\ Len(s) = k /\ DOMAIN s = 1 .. k /\ s[k] = f
      /\ \A i \in DOMAIN s : i # k => i \in DOMAIN frames /\ s[i] = frames[i]
  BY <1>1, TopRemoved
<1> HIDE DEF s, k
<1>7. Top' = f
  BY <1>2, <1>6 DEF Top, Last
<1>8. StackInv'
  <2>1. IsASeq(frames)'
    BY <1>2, <1>6 DEF IsASeq
  <2>2. \A i \in DOMAIN s : FrameOK(rt, s[i])
    BY <1>4, <1>6 DEF Inv, StackInv
  <2>3. (\A i \in DOMAIN frames : FrameOK(rt, frames[i]))'
    BY <1>2, <1>3, <2>2 DEF FrameOK
  <2>4. \A i \in DOMAIN s : i < k => Waits(s[i])
    <3>1. SUFFICES ASSUME NEW i \in DOMAIN s, i < k PROVE Waits(frames[i])
      BY <1>5, <1>6
    <3>2. i \in DOMAIN frames /\ i < Len(frames)
      BY <1>5, <1>6, <3>1
    <3>3. QED
      BY <3>2 DEF Inv, StackInv
  <2>5. (\A i \in DOMAIN frames : i < Len(frames) => Waits(frames[i]))'
    BY <1>2, <1>3, <1>6, <2>4 DEF Waits, Code
  <2>6. (Len(frames) > 0 /\ Len(modules) > 0 /\ Len(modules) \in DOMAIN codes)'
    BY <1>2, <1>3, <1>5, <1>6 DEF Inv, StackInv
  <2>7. QED
    BY <2>1, <2>3, <2>5, <2>6 DEF StackInv
<1>9. LookupInv'
  BY <1>2 DEF LookupInv
<1>10. ScopesInv'
  <2>1. ASSUME NEW i \in DOMAIN s
        PROVE  i \in DOMAIN frames /\ s[i].object = frames[i].object /\ s[i].locals = frames[i].locals
    BY <1>4, <1>5, <1>6
  <2>2. \A i \in DOMAIN s : Mirrored(rt, s[i])
    BY <2>1 DEF ScopesInv, ScopeMirrored, Mirrored
  <2>3. ScopeMirrored'
    BY <1>2, <2>2 DEF ScopeMirrored, Mirrored
  <2>4. \A i, j \in DOMAIN s : i # j /\ s[i].object # 0 => s[i].object # s[j].object
    BY <2>1 DEF ScopesInv
  <2>5. (\A i, j \in DOMAIN frames : i # j /\ frames[i].object # 0 => frames[i].object # frames[j].object)'
    BY <1>2, <2>4
  <2>6. Fresh(rt, Top)'
    <3>1. Code(Top)' = Code(f)
      BY <1>3, <1>7 DEF Code
    <3>2. QED
      BY <1>4, <1>7, <3>1 DEF Fresh, Inside
  <2>7. QED
    BY <2>3, <2>5, <2>6 DEF ScopesInv
<1>11. QED
  BY <1>2, <1>8, <1>9, <1>10, StaticKeeps DEF Inv

\* The module gets the attributes that builtins has.
LEMMA BeginKeeps ==
  ASSUME Inv, Begin
  PROVE  Inv' /\ ScopesInv'
<1> DEFINE m == Len(modules) + 1
           object == NewId(rt)
           names == IF builtins = 0 THEN {} ELSE DOMAIN rt.objects[builtins].dict
           dict == [x \in names |-> [key |-> Interned(rt, <<"str", x>>), value |-> Attr(rt, builtins, x)]]
           locals == [x \in names |-> Attr(rt, builtins, x)]
           a == Insert(rt, ModuleObject(m))
           r == [a EXCEPT !.objects[object].dict = dict]
           f == NewFrame(object, m, m, 1, locals)
<1>1. /\ m \in DOMAIN codes /\ codes[m].ok
      /\ rt' = r /\ modules' = Append(modules, object) /\ frames' = <<f>>
      /\ codes' = codes /\ builtins' = builtins /\ scope' = scope /\ state = "idle" /\ state' = "running"
  BY DEF Begin
<1>2. RuntimeOK(rt) /\ Basics(rt) /\ IsASeq(modules) /\ (\A i \in DOMAIN modules : Container(rt, modules[i]))
      /\ (builtins = 0 \/ Container(rt, builtins)) /\ scope = 0
  BY <1>1 DEF Inv, RuntimeInv, ModulesInv, LookupInv
<1>3. \A x \in names : Good(rt, Attr(rt, builtins, x))
  BY <1>2 DEF RuntimeOK, Refers, Container, Attr
<1>4. /\ DOMAIN dict = names /\ DOMAIN locals = names
      /\ \A x \in names : dict[x].value = locals[x] /\ locals[x] = Attr(rt, builtins, x)
  OBVIOUS
<1> HIDE DEF names, dict, locals
<1>5. LET x == ModuleObject(m) IN Shape(x) /\ x.kind = "module" /\ x.dict = EmptyDict
  BY DEF Shape, ModuleObject
<1>6. /\ RuntimeOK(a) /\ Extends(rt, a)
      /\ object \in Nat \ {0}
      /\ object \in DOMAIN a.objects
      /\ a.objects[object].kind = "module"
  <2> DEFINE x == ModuleObject(m)
  <2>1. Shape(x) /\ x.kind = "module" /\ x.dict = EmptyDict
    BY <1>5
  <2> HIDE DEF x
  <2>2. LET u == Insert(rt, x)
        IN  /\ RuntimeOK(u) /\ Extends(rt, u)
            /\ object \in Nat \ {0} /\ object \in DOMAIN u.objects /\ u.objects[object] = x
    BY <1>2, <2>1, InsertOK
  <2>3. QED
    BY <2>1, <2>2 DEF x
<1> HIDE DEF a, object
<1>7. DictOf(a, r, object, dict)
  BY <1>6 DEF DictOf, IsRuntime, RuntimeOK
<1> HIDE DEF r
<1>8. \A x \in DOMAIN dict : Good(a, dict[x].value)
  BY <1>2, <1>3, <1>4, <1>6, GoodKept
<1>9. RuntimeOK(r) /\ Extends(a, r) /\ r.objects[object].dict = dict
  BY <1>6, <1>7, <1>8, DictOK
<1>10. Extends(rt, r) /\ Basics(r)
  BY <1>2, <1>6, <1>9, ExtendsFurther, BasicsKept
<1>11. \A p : (Good(rt, p) => Good(r, p)) /\ (Container(rt, p) => Container(r, p))
  BY <1>2, <1>10, GoodKept
<1>12. Container(r, object)
  BY <1>6, <1>9, GoodKept DEF Container
<1>13. /\ f.object = object /\ f.code = m /\ f.seq = 1 /\ f.ix = 1
       /\ f.values = NoValues /\ f.locals = locals
  BY DEF f, NewFrame, Frame
<1> HIDE DEF f
<1>14. Len(modules) \in Nat /\ m \in Nat /\ m > 0
  BY <1>2, SeqFacts
<1>15. LET s == Append(modules, object)
       IN  IsASeq(s) /\ Len(s) = m /\ \A i \in DOMAIN s : Container(r, s[i])
  <2>1. LET s == Append(modules, object)
        IN  /\ IsASeq(s) /\ Len(s) = m /\ DOMAIN s = 1 .. m /\ s[m] = object
            /\ DOMAIN modules = 1 .. m - 1
            /\ \A i \in DOMAIN modules : s[i] = modules[i]
    BY <1>2, <1>14, AppendFacts, SeqFacts
  <2> HIDE DEF m
  <2>2. QED
    BY <1>2, <1>11, <1>12, <1>14, <2>1
<1> HIDE DEF m
<1>16. 1 \in DOMAIN codes[m].seqs
  BY <1>1 DEF Inv, CodesOK
<1>17. FrameOK(r, f)
  <2>1. \A i \in DOMAIN f.values : FALSE
    BY <1>13 DEF NoValues
  <2>2. \A x \in DOMAIN f.locals : Good(r, f.locals[x])
    BY <1>3, <1>4, <1>11, <1>13
  <2>3. QED
    BY <1>1, <1>12, <1>13, <1>16, <2>1, <2>2 DEF FrameOK
<1>18. IsASeq(<<f>>) /\ Len(<<f>>) = 1 /\ DOMAIN <<f>> = {1} /\ <<f>>[1] = f
  <2>1. <<f>> \in Seq({f}) /\ Len(<<f>>) = 1 /\ DOMAIN <<f>> = {1} /\ <<f>>[1] = f
    OBVIOUS
  <2>2. \A s, S : s \in Seq(S) => IsASeq(s)
    BY DEF IsASeq
  <2>3. QED
    BY <2>1, <2>2, Zenon
<1>19. CodesOK'
  BY <1>1 DEF Inv, CodesOK
<1>20. RuntimeInv'
  <2>1. RuntimeOK(rt)' /\ Basics(rt)'
    BY <1>1, <1>9, <1>10 DEF RuntimeOK, Refers, Basics
  <2>2. QED
    BY <2>1 DEF RuntimeInv
<1>21. StackInv'
  <2>1. IsASeq(frames)' /\ (\A i \in DOMAIN frames : FrameOK(rt, frames[i]))'
    BY <1>1, <1>17, <1>18 DEF IsASeq, FrameOK
  <2>2. (\A i \in DOMAIN frames : ~(i < Len(frames)))'
    BY <1>1, <1>18
  <2>3. (Len(frames) > 0 /\ Len(modules) > 0 /\ Len(modules) \in DOMAIN codes)'
    BY <1>1, <1>14, <1>15, <1>18
  <2>4. QED
    BY <2>1, <2>2, <2>3 DEF StackInv
<1>22. ModulesInv'
  BY <1>1, <1>2, <1>11, <1>15 DEF ModulesInv, Container, IsASeq
<1>23. LookupInv'
  BY <1>1, <1>2 DEF LookupInv
<1>24. ScopesInv'
  <2>1. Mirrored(r, f)
    BY <1>4, <1>9, <1>13 DEF Mirrored
  <2>2. ScopeMirrored'
    BY <1>1, <1>18, <2>1 DEF ScopeMirrored, Mirrored
  <2>3. (\A i, j \in DOMAIN frames : i = j)'
    BY <1>1, <1>18
  <2>4. Top' = f
    BY <1>1, <1>18 DEF Top, Last
  <2>5. Code(Top)' = Code(f) /\ WellFormed(Code(f))
    BY <1>1, <1>13, <1>16, <2>4 DEF Code, Inv, CodesOK
  <2>6. Fresh(rt, Top)'
    BY <1>13, <2>4, <2>5, FirstOutside DEF Fresh, Inside
  <2>7. QED
    BY <2>2, <2>3, <2>6 DEF ScopesInv
<1>25. QED
  BY <1>19, <1>20, <1>21, <1>22, <1>23, <1>24 DEF Inv

LEMMA FinishKeeps ==
  ASSUME Inv, Finish
  PROVE  Inv' /\ ScopesInv'
<1>1. /\ state = "running" /\ state' = "idle" /\ scope = 0 /\ frames' = << >>
      /\ builtins' = (IF builtins = 0 THEN modules[1] ELSE builtins)
      /\ codes' = codes /\ rt' = rt /\ modules' = modules /\ scope' = scope
  BY DEF Finish, AtEnd, Running
<1>2. \A i \in DOMAIN frames' : FALSE
  BY <1>1
<1>3. CodesOK'
  BY <1>1 DEF Inv, CodesOK
<1>4. RuntimeOK(rt)' /\ Basics(rt)'
  BY <1>1 DEF Inv, RuntimeInv, RuntimeOK, Refers, Basics
<1>5. StackInv'
  <2>1. << >> \in Seq({})
    OBVIOUS
  <2>2. IsASeq(<< >>)
    BY <2>1 DEF IsASeq
  <2>3. IsASeq(frames)'
    BY <1>1, <2>2 DEF IsASeq
  <2>4. QED
    BY <1>1, <1>2, <2>3 DEF StackInv
<1>6. ModulesInv'
  <2>1. IsASeq(modules) /\ Len(modules) > 0 /\ \A i \in DOMAIN modules : Container(rt, modules[i])
    BY <1>1 DEF Inv, StackInv, ModulesInv
  <2>2. 1 \in DOMAIN modules
    BY <2>1, SeqFacts
  <2>3. builtins' = 0 \/ Container(rt, builtins')
    BY <1>1, <2>1, <2>2 DEF Inv, ModulesInv
  <2>4. QED
    BY <1>1, <2>1, <2>3 DEF ModulesInv, Container, IsASeq
<1>7. LookupInv'
  BY <1>1 DEF LookupInv
<1>8. ScopesInv'
  BY <1>1, <1>2 DEF ScopesInv, ScopeMirrored
<1>9. QED
  BY <1>3, <1>4, <1>5, <1>6, <1>7, <1>8 DEF Inv, RuntimeInv

LEMMA StillKeeps ==
  ASSUME Inv, ScopesInv, LoweringPanics \/ UNCHANGED vars
  PROVE  Inv' /\ ScopesInv'
<1>1. /\ rt' = rt /\ frames' = frames /\ scope' = scope /\ Static
      /\ state' = state \/ (state = "idle" /\ state' = "lowering")
  BY DEF LoweringPanics, vars, Static
<1>2. Top' = Top
  BY <1>1 DEF Top
<1>3. Code(Top)' = Code(Top)
  BY <1>1, <1>2 DEF Code, Static
<1>4. LookupInv'
  BY <1>1, <1>2, <1>3 DEF Inv, LookupInv, Inst, Container
<1>5. Fresh(rt, Top) => Fresh(rt, Top)'
  BY <1>1, <1>2, <1>3 DEF Fresh, Inside, Container
<1>6. ScopesInv'
  BY <1>1, <1>5 DEF ScopesInv, ScopeMirrored, Mirrored
<1>7. QED
  BY <1>1, <1>4, <1>6, StaticKeeps, StackKept DEF Inv

LEMMA InitHolds == Init => Inv /\ ScopesInv
<1> SUFFICES ASSUME Init PROVE Inv /\ ScopesInv
  OBVIOUS
<1>1. /\ program \in DOMAIN Sessions /\ codes = Sessions[program]
      /\ rt = WithNative(WithNative(MontyModule, Monty, "intrinsic"), Monty, "extern")
      /\ modules = << >> /\ builtins = 0 /\ frames = << >> /\ scope = 0 /\ state = "idle"
  BY DEF Init
<1>2. CodesOK
  <2>1. codes \in Range(Sessions)
    BY <1>1 DEF Range
  <2>2. QED
    BY <2>1, SessionsAssumption DEF CodesOK
<1>3. RuntimeInv
  BY <1>1, FirstRuntimeOK DEF RuntimeInv
<1>4. \A i \in DOMAIN << >> : FALSE
  OBVIOUS
<1>5. IsASeq(<< >>)
  <2>1. << >> \in Seq({})
    OBVIOUS
  <2>2. QED
    BY <2>1 DEF IsASeq
<1>6. StackInv /\ ModulesInv /\ LookupInv
  BY <1>1, <1>4, <1>5 DEF StackInv, ModulesInv, LookupInv
<1>7. ScopesInv
  BY <1>1, <1>4 DEF ScopesInv, ScopeMirrored
<1>8. QED
  BY <1>2, <1>3, <1>6, <1>7 DEF Inv

LEMMA NextKeeps ==
  ASSUME Inv, ScopesInv, [Next]_vars
  PROVE  Inv' /\ ScopesInv'
<1>1. CASE Begin
  BY <1>1, BeginKeeps
<1>2. CASE Finish
  BY <1>2, FinishKeeps
<1>3. CASE LoweringPanics \/ UNCHANGED vars
  BY <1>3, StillKeeps
<1>4. CASE Effect
  BY <1>4, ContinuesKeeps, HaltsKeeps, CallsKeeps, ReturnsKeeps, LooksKeeps DEF Effect
<1>5. QED
  BY <1>1, <1>2, <1>3, <1>4, NextEffect

LEMMA Invariance == Spec => [](Inv /\ ScopesInv)
<1>1. Init => Inv /\ ScopesInv
  BY InitHolds
<1>2. (Inv /\ ScopesInv) /\ [Next]_vars => (Inv /\ ScopesInv)'
  BY NextKeeps
<1>3. QED
  BY <1>1, <1>2, PTL DEF Spec

-----------------------------------------------------------------------------
(* The budget.                                                             *)

\* A tick pays for the instruction and for that at which the next frame stands.
LEMMA TickPays ==
  ASSUME BudgetInv, state = "running", NEW stack, Tick(stack),
         executed' \in {executed, executed + 1},
         Len(frames) \in Nat, Len(stack) \in Nat, Len(stack) <= Len(frames)
  PROVE  BudgetInv'
<1>1. /\ frames' = stack
      /\ ticks' = (IF ticks = 1 THEN ticks ELSE ticks - 1)
      /\ state' = (IF ticks = 1 THEN "Tick" ELSE state)
  BY DEF Tick
<1>2. Begun' \in {0, 1} /\ (ticks = 1 => Begun' = 0)
  BY <1>1 DEF Begun
<1>3. Begun \in {0, 1}
  BY DEF Begun
<1>4. MaxTicks \in Nat \ {0} /\ ticks \in 1 .. MaxTicks /\ executed \in Nat
  BY MaxTicksAssumption DEF BudgetInv
<1>5. /\ executed + 2 * ticks + Begun <= 2 * MaxTicks
      /\ Len(frames) + Begun + ticks <= MaxTicks + 1
  BY <1>3, <1>4 DEF BudgetInv
<1> DEFINE b == Begun
           c == Begun'
           e == executed'
           l == Len(frames)
           k == Len(stack)
<1>6. b \in {0, 1} /\ c \in {0, 1} /\ l \in Nat /\ k \in Nat /\ k <= l /\ e \in {executed, executed + 1}
  BY <1>2, <1>3
<1>7. executed + 2 * ticks + b <= 2 * MaxTicks /\ l + b + ticks <= MaxTicks + 1
  BY <1>5
<1>8. (ticks = 1 => c = 0) /\ Len(frames') = k
  BY <1>1, <1>2
<1> HIDE DEF b, c, e, l, k
<1>9. ASSUME ticks' \in 1 .. MaxTicks, e \in Nat,
             e + 2 * ticks' + c <= 2 * MaxTicks + (IF state' = "running" THEN 0 ELSE 1),
             k + c + ticks' <= MaxTicks + 1
      PROVE  BudgetInv'
  BY <1>8, <1>9 DEF BudgetInv, c, e
<1>10. CASE ticks = 1
  <2>1. ticks' = 1 /\ state' = "Tick" /\ e + 2 * ticks' + c <= 2 * MaxTicks + 1 /\ k + c + ticks' <= MaxTicks + 1
    BY <1>1, <1>4, <1>6, <1>7, <1>8, <1>10
  <2>2. QED
    BY <1>4, <1>6, <1>8, <1>9, <2>1
<1>11. CASE ticks # 1
  <2>1. /\ ticks' \in 1 .. MaxTicks
        /\ state' = "running"
        /\ e + 2 * ticks' + c <= 2 * MaxTicks
        /\ k + c + ticks' <= MaxTicks + 1
    BY <1>1, <1>4, <1>6, <1>7, <1>11
  <2>2. QED
    BY <1>4, <1>6, <1>8, <1>9, <2>1
<1>12. QED
  BY <1>10, <1>11

LEMMA BudgetKept ==
  ASSUME Inv, ScopesInv, BudgetInv, [Next]_vars
  PROVE  BudgetInv'
<1>1. MaxTicks \in Nat \ {0} /\ ticks \in 1 .. MaxTicks /\ executed \in Nat /\ Len(frames) \in Nat
  BY MaxTicksAssumption, SeqFacts DEF BudgetInv, Inv, StackInv
<1>2. CASE Begin
  <2>1. PICK f : /\ frames' = <<f>> /\ f.ix = 1
                 /\ ticks' = MaxTicks /\ executed' = 0 /\ state' = "running"
    <3>1. \A object, m, code, seq, locals : NewFrame(object, m, code, seq, locals).ix = 1
      BY DEF NewFrame, Frame
    <3>2. QED
      BY <1>2, <3>1 DEF Begin
  <2>2. Len(frames') = 1 /\ Top' = f
    BY <2>1 DEF Top, Last
  <2>3. Begun' = 0
    BY <2>1, <2>2 DEF Begun
  <2>4. QED
    BY <1>1, <2>1, <2>2, <2>3 DEF BudgetInv
<1>3. CASE Finish
  <2>1. ticks' = ticks /\ executed' = executed /\ state = "running" /\ state' = "idle" /\ Len(frames') = 0
    BY <1>3 DEF Finish, AtEnd, Running
  <2>2. Begun \in {0, 1} /\ Begun' = 0
    BY <2>1 DEF Begun
  <2>3. QED
    BY <1>1, <2>1, <2>2 DEF BudgetInv
<1>4. CASE LoweringPanics
  <2>1. ticks' = ticks /\ executed' = executed /\ state = "idle" /\ state' = "lowering" /\ frames' = frames
    BY <1>4 DEF LoweringPanics
  <2>2. Begun = 0 /\ Begun' = 0
    BY <2>1 DEF Begun
  <2>3. QED
    BY <1>1, <2>1, <2>2 DEF BudgetInv
<1>5. CASE UNCHANGED vars
  BY <1>5 DEF vars, BudgetInv, Begun, Top
<1>6. CASE state = "running" /\ Continues
  <2>1. PICK f, r : Next_(f, r)
    BY <1>6 DEF Continues
  <2> DEFINE s == [frames EXCEPT ![Len(frames)] = f]
  <2>2. Tick(s) /\ executed' = executed + 1
    BY <2>1 DEF Next_, Executed
  <2>3. Len(s) = Len(frames)
    BY <1>6, TopReplaced
  <2> HIDE DEF s
  <2>4. QED
    BY <1>1, <1>6, <2>2, <2>3, TickPays
<1>7. CASE state = "running" /\ Returns
  <2>1. PICK v : Resume(v) /\ Len(frames) > 1 /\ executed' \in {executed, executed + 1}
    BY <1>7 DEF Returns
  <2> DEFINE s == [Front(frames) EXCEPT ![Len(frames) - 1] = Resumed(v)]
  <2>2. Tick(s)
    BY <2>1 DEF Resume
  <2>3. Len(s) = Len(frames) - 1
    BY <1>7, <2>1, TopRemoved
  <2> HIDE DEF s
  <2>4. Len(s) \in Nat /\ Len(s) <= Len(frames)
    BY <1>1, <2>1, <2>3
  <2>5. QED
    BY <1>1, <1>7, <2>1, <2>2, <2>4, TickPays
<1>8. CASE state = "running" /\ Halts
  <2>1. /\ ticks' = ticks /\ executed' = executed + 1 /\ frames' = frames /\ state = "running" /\ state' # "running"
    BY <1>8 DEF Halts, Stop, Executed
  <2>2. Begun \in {0, 1} /\ Begun' = 0
    BY <2>1 DEF Begun
  <2>3. QED
    BY <1>1, <2>1, <2>2 DEF BudgetInv
<1>9. CASE state = "running" /\ Calls
  <2>1. PICK f : Push(f, rt) /\ f.ix = 1 /\ Top.ix > 1
    BY <1>9 DEF Calls
  <2>2. /\ ticks' = ticks /\ executed' = executed + 1 /\ state' = "running"
        /\ frames' = Append(frames, f)
    BY <1>9, <2>1 DEF Push, Executed
  <2>3. Len(frames') = Len(frames) + 1 /\ Top' = f
    BY <2>2, AppendFacts DEF Inv, StackInv, Top, Last
  <2>4. Begun = 1 /\ Begun' = 0
    BY <1>9, <2>1, <2>2, <2>3 DEF Begun
  <2>5. QED
    BY <1>1, <1>9, <2>2, <2>3, <2>4 DEF BudgetInv
<1>10. CASE state = "running" /\ Looks
  <2>1. ticks' = ticks /\ executed' = executed /\ state' = state /\ frames' = frames
    BY <1>10 DEF Looks
  <2>2. QED
    BY <2>1 DEF BudgetInv, Begun, Top
<1>11. QED
  BY <1>2, <1>3, <1>4, <1>5, <1>6, <1>7, <1>8, <1>9, <1>10, NextEffect DEF Effect

-----------------------------------------------------------------------------
(* Operands.                                                               *)

Body(f) == codes[f.code].seqs[f.seq]

\* The values that the code from here on reads of the expression a frame stands in are there, and
\* a frame does not stand behind an instruction that ends the evaluation.
SuppliedBy(seq, f) ==
  /\ \A i \in Reading(seq) : \A v \in Uses(seq.inst[i]) : f.ix \in v + 1 .. i => v \in DOMAIN f.values
  /\ \A k, i \in DOMAIN seq.inst :
       seq.inst[k].op \in Unsupported /\ Enclosed(seq.inst, k, i) => f.ix \notin k + 1 .. i
Supplied(f) == SuppliedBy(Body(f), f)
CodeReadsItsOwn == \A m \in DOMAIN codes : \A q \in DOMAIN codes[m].seqs : ReadsItsOwn(codes[m].seqs[q])
SuppliedInv ==
  /\ CodeReadsItsOwn
  /\ \A n \in DOMAIN frames : Supplied(frames[n])
  /\ OperandsDefined

\* The frame goes on as f, with a value for the instruction if it is one that leaves one.
Onward(g, f) ==
  /\ f.code = g.code /\ f.seq = g.seq
  /\ f.ix = g.ix + 1 \/ f.ix \in JumpsTo(Code(g)[g.ix])
  /\ DOMAIN g.values \subseteq DOMAIN f.values
  /\ Code(g)[g.ix].op \in Leaving => g.ix \in DOMAIN f.values
  /\ Code(g)[g.ix].op \notin Unsupported

Goes == \E f : frames' = [frames EXCEPT ![Len(frames)] = f] /\ Onward(Top, f)
Enters == \E f : frames' = Append(frames, f) /\ f.ix = 1
Resumes == Len(frames) > 1 /\ \E v : frames' = [Front(frames) EXCEPT ![Len(frames) - 1] = Resumed(v)]
Moves ==
  /\ state = "running" /\ codes' = codes /\ state' # "operand"
  /\ \/ frames' = frames
     \/ Top.ix \in DOMAIN Code(Top) /\ Goes
     \/ Enters
     \/ Resumes

LEMMA NextGoes ==
  ASSUME state = "running", Top.ix \in DOMAIN Code(Top), Inst.op \notin Unsupported,
         NEW n, n = Top.ix + 1 \/ n \in JumpsTo(Inst), NEW values, NEW locals, NEW r,
         DOMAIN Top.values \subseteq DOMAIN values,
         Inst.op \in Leaving => Top.ix \in DOMAIN values,
         Next_(Continue(Top, n, values, locals), r)
  PROVE  Moves
<1> DEFINE f == Continue(Top, n, values, locals)
<1>1. f.code = Top.code /\ f.seq = Top.seq /\ f.ix = n /\ f.values = values
  BY ContinueFacts
<1>2. frames' = [frames EXCEPT ![Len(frames)] = f] /\ codes' = codes /\ state' # "operand"
  BY DEF Next_, Tick, Static
<1> HIDE DEF f
<1>3. Onward(Top, f)
  BY <1>1 DEF Onward, Inst
<1>4. QED
  BY <1>2, <1>3 DEF Moves, Goes

LEMMA YieldGoes ==
  ASSUME state = "running", Top.ix \in DOMAIN Code(Top), Inst.op \notin Unsupported, NEW v, NEW r,
         \/ Yield(v, r)
         \/ \E x : YieldAs(x, v, r)
  PROVE  Moves
<1> DEFINE values == Bind(Top.values, Top.ix, v)
<1>1. DOMAIN values = DOMAIN Top.values \cup {Top.ix}
  BY DEF Bind
<1>2. \E locals : Next_(Continue(Top, Top.ix + 1, values, locals), r)
  BY DEF Yield, YieldAs
<1> HIDE DEF values
<1>3. QED
  BY <1>1, <1>2, NextGoes

LEMMA GoToGoes ==
  ASSUME state = "running", Top.ix \in DOMAIN Code(Top), Inst.op \notin Leaving \cup Unsupported, NEW r,
         \/ \E n : (n = Top.ix + 1 \/ n \in JumpsTo(Inst)) /\ GoTo(n, r)
         \/ \E x, v : Assign_(x, v, r)
  PROVE  Moves
<1>1. CASE \E n : (n = Top.ix + 1 \/ n \in JumpsTo(Inst)) /\ GoTo(n, r)
  BY <1>1, NextGoes DEF GoTo
<1>2. CASE \E x, v : Assign_(x, v, r)
  <2>1. PICK x, v : Next_(Continue(Top, Top.ix + 1, Top.values, Bind(Top.locals, x, v)), Define(r, x, v))
    BY <1>2 DEF Assign_
  <2> DEFINE locals == Bind(Top.locals, x, v)
             u == Define(r, x, v)
  <2>2. Next_(Continue(Top, Top.ix + 1, Top.values, locals), u)
    BY <2>1
  <2> HIDE DEF locals, u
  <2>3. QED
    BY <2>2, NextGoes
<1>3. QED
  BY <1>1, <1>2

LEMMA StopMoves ==
  ASSUME state = "running", NEW why, why # "operand", NEW r, Stop(why, r)
  PROVE  Moves
BY DEF Stop, Static, Moves

LEMMA NextMoves ==
  ASSUME Inv, Next
  PROVE  Begin \/ LoweringPanics \/ Finish \/ MissingOperand \/ Moves
<1>1. CASE FallOff
  BY <1>1 DEF FallOff, AtEnd, Running, Resume, Tick, Static, Moves, Resumes
<1>2. CASE DoReturn \/ ReturnInModule
  <2>1. state = "running"
    BY <1>2, AtFacts DEF DoReturn, ReturnInModule
  <2>2. CASE DoReturn
    BY <2>1, <2>2 DEF DoReturn, Resume, Tick, Static, Moves, Resumes
  <2>3. CASE ReturnInModule
    BY <2>1, <2>3, StopMoves DEF ReturnInModule
  <2>4. QED
    BY <1>2, <2>2, <2>3
<1>3. CASE DoQuiet
  <2>1. state = "running" /\ Top.ix \in DOMAIN Code(Top) /\ Inst.op \notin Leaving \cup Unsupported /\ GoTo(Top.ix + 1, rt)
    BY <1>3 DEF DoQuiet, AtEnd, Running, Leaving, Unsupported
  <2>2. QED
    BY <2>1, GoToGoes
<1>4. CASE DoTodo
  BY <1>4, StopMoves DEF DoTodo, Running
<1>5. CASE DoConst
  <2>1. state = "running" /\ Top.ix \in DOMAIN Code(Top) /\ Inst.op \notin Unsupported
    BY <1>5, AtFacts DEF DoConst, Unsupported
  <2>2. \E v, r : Yield(v, r)
    BY <1>5 DEF DoConst
  <2>3. QED
    BY <2>1, <2>2, YieldGoes
<1>6. CASE DoRefAsStr
  <2>1. state = "running" /\ Top.ix \in DOMAIN Code(Top) /\ Inst.op \notin Unsupported
    BY <1>6, AtFacts DEF DoRefAsStr, Unsupported
  <2>2. \E v, r : Yield(v, r)
    BY <1>6 DEF DoRefAsStr
  <2>3. QED
    BY <2>1, <2>2, YieldGoes
<1>7. CASE DoSetVar
  <2>1. state = "running" /\ Top.ix \in DOMAIN Code(Top) /\ Inst.op \notin Leaving \cup Unsupported
    BY <1>7, AtFacts DEF DoSetVar, Leaving, Unsupported
  <2>2. \E x, v : Assign_(x, v, rt)
    BY <1>7 DEF DoSetVar
  <2>3. QED
    BY <2>1, <2>2, GoToGoes
<1>8. CASE DoUseVar
  <2>1. state = "running" /\ Top.ix \in DOMAIN Code(Top) /\ Inst.op \notin Unsupported
    BY <1>8, AtFacts DEF DoUseVar, Unsupported
  <2>2. \E v, r : Yield(v, r)
    BY <1>8 DEF DoUseVar
  <2>3. QED
    BY <2>1, <2>2, YieldGoes
<1>9. CASE StartLookup
  <2>1. state = "running"
    BY <1>9, AtFacts DEF StartLookup
  <2>2. CASE LookupFrom = 0
    BY <1>9, <2>1, <2>2, StopMoves DEF StartLookup
  <2>3. CASE LookupFrom # 0
    BY <1>9, <2>1, <2>3 DEF StartLookup, Static, Moves
  <2>4. QED
    BY <2>2, <2>3
<1>10. CASE LookupFails \/ LookupFinds \/ LookupStep
  <2>1. state = "running" /\ Top.ix \in DOMAIN Code(Top) /\ Inst.op = "UseVar"
    BY <1>10 DEF Inv, LookupInv, LookupFails, LookupFinds, LookupStep
  <2>2. CASE LookupFails
    BY <2>1, <2>2, StopMoves DEF LookupFails
  <2>3. CASE LookupFinds
    BY <2>1, <2>3, YieldGoes DEF LookupFinds, Unsupported
  <2>4. CASE LookupStep
    BY <2>1, <2>4 DEF LookupStep, Static, Moves
  <2>5. QED
    BY <1>10, <2>2, <2>3, <2>4
<1>11. CASE DoClass
  <2>1. state = "running" /\ Top.ix \in DOMAIN Code(Top) /\ Inst.op \notin Unsupported
    BY <1>11, AtFacts DEF DoClass, Unsupported
  <2>2. \E x, v, r : YieldAs(x, v, r)
    BY <1>11 DEF DoClass
  <2>3. QED
    BY <2>1, <2>2, YieldGoes
<1>12. CASE DoBuildClass
  <2>1. state = "running"
    BY <1>12, AtFacts DEF DoBuildClass
  <2>2. \/ \E why : why # "operand" /\ Stop(why, rt)
        \/ Push(BodyFrame(Value(Inst.class)), rt)
    BY <1>12 DEF DoBuildClass
  <2>3. CASE \E why : why # "operand" /\ Stop(why, rt)
    BY <2>1, <2>3, StopMoves
  <2>4. CASE Push(BodyFrame(Value(Inst.class)), rt)
    <3>1. BodyFrame(Value(Inst.class)).ix = 1
      BY DEF BodyFrame, NewFrame, Frame
    <3>2. QED
      BY <2>1, <2>4, <3>1 DEF Push, Static, Moves, Enters
  <2>5. QED
    BY <2>2, <2>3, <2>4
<1>13. CASE DoDefn
  <2>1. state = "running" /\ Top.ix \in DOMAIN Code(Top) /\ Inst.op \notin Unsupported
    BY <1>13, AtFacts DEF DoDefn, Unsupported
  <2>2. \E x, v, r : YieldAs(x, v, r)
    BY <1>13 DEF DoDefn
  <2>3. QED
    BY <2>1, <2>2, YieldGoes
<1>14. CASE DoCallFunction
  <2>1. state = "running"
    BY <1>14, AtFacts DEF DoCallFunction
  <2>2. \/ Stop("index", rt)
        \/ \E mref, code, seq, values, locals : Push(Frame(0, mref, code, seq, values, locals), rt)
    BY <1>14 DEF DoCallFunction
  <2>3. CASE Stop("index", rt)
    BY <2>1, <2>3, StopMoves
  <2>4. CASE \E mref, code, seq, values, locals : Push(Frame(0, mref, code, seq, values, locals), rt)
    <3>1. PICK mref, code, seq, values, locals : Push(Frame(0, mref, code, seq, values, locals), rt)
      BY <2>4
    <3>2. Frame(0, mref, code, seq, values, locals).ix = 1
      BY DEF Frame
    <3>3. QED
      BY <2>1, <3>1, <3>2 DEF Push, Static, Moves, Enters
  <2>5. QED
    BY <2>2, <2>3, <2>4
<1>15. CASE DoCallNative
  <2>1. state = "running" /\ Top.ix \in DOMAIN Code(Top) /\ Inst.op \notin Unsupported
    BY <1>15, AtFacts DEF DoCallNative, Unsupported
  <2>2. (\E why : why # "operand" /\ Stop(why, rt)) \/ \E v, r : Yield(v, r)
    BY <1>15 DEF DoCallNative
  <2>3. QED
    BY <2>1, <2>2, YieldGoes, StopMoves
<1>16. CASE NotCallable
  BY <1>16, AtFacts, StopMoves DEF NotCallable
<1>17. CASE DoGetAttribute
  <2>1. state = "running" /\ Top.ix \in DOMAIN Code(Top) /\ Inst.op \notin Unsupported
    BY <1>17, AtFacts DEF DoGetAttribute, Unsupported
  <2>2. (\E why : why # "operand" /\ Stop(why, rt)) \/ \E v, r : Yield(v, r)
    BY <1>17 DEF DoGetAttribute
  <2>3. QED
    BY <2>1, <2>2, YieldGoes, StopMoves
<1>18. CASE DoSetDunder
  <2>1. state = "running" /\ Top.ix \in DOMAIN Code(Top) /\ Inst.op \notin Leaving \cup Unsupported
    BY <1>18, AtFacts DEF DoSetDunder, Leaving, Unsupported
  <2>2. \E r : GoTo(Top.ix + 1, r)
    BY <1>18 DEF DoSetDunder
  <2>3. QED
    BY <2>1, <2>2, GoToGoes
<1>19. CASE DoBr
  <2>1. /\ state = "running" /\ Top.ix \in DOMAIN Code(Top) /\ Inst.op \notin Leaving \cup Unsupported
        /\ Inst.to \in JumpsTo(Inst) /\ GoTo(Inst.to, rt)
    BY <1>19, AtFacts DEF DoBr, Leaving, Unsupported, JumpsTo
  <2>2. QED
    BY <2>1, GoToGoes
<1>20. CASE DoIf
  <2>1. state = "running" /\ Top.ix \in DOMAIN Code(Top) /\ Inst.op = "If"
    BY <1>20, AtFacts DEF DoIf
  <2>2. \/ Stop("todo", rt)
        \/ GoTo(IF Inst.truthy = 0 THEN Top.ix + 1 ELSE Inst.truthy, rt)
        \/ GoTo(IF Inst.falsey = 0 THEN Top.ix + 1 ELSE Inst.falsey, rt)
    BY <1>20 DEF DoIf
  <2>3. JumpsTo(Inst) = {Inst.truthy, Inst.falsey} \ {0} /\ Inst.op \notin Leaving \cup Unsupported
    BY <2>1 DEF JumpsTo, Leaving, Unsupported
  <2>4. Stop("todo", rt) \/ \E n : (n = Top.ix + 1 \/ n \in JumpsTo(Inst)) /\ GoTo(n, rt)
    BY <2>2, <2>3
  <2>5. QED
    BY <2>1, <2>3, <2>4, GoToGoes, StopMoves
<1>21. CASE DoImport
  <2>1. state = "running" /\ Top.ix \in DOMAIN Code(Top) /\ Inst.op \notin Unsupported
    BY <1>21, AtFacts DEF DoImport, Unsupported
  <2>2. (\E why : why # "operand" /\ Stop(why, rt)) \/ \E v, r : Yield(v, r)
    BY <1>21 DEF DoImport
  <2>3. QED
    BY <2>1, <2>2, YieldGoes, StopMoves
<1>22. QED
  BY <1>1, <1>2, <1>3, <1>4, <1>5, <1>6, <1>7, <1>8, <1>9, <1>10, <1>11, <1>12, <1>13, <1>14, <1>15, <1>16,
     <1>17, <1>18, <1>19, <1>20, <1>21 DEF Next

\* The next place of a frame that goes on is supplied as the last was.
LEMMA OnwardSupplied ==
  ASSUME NEW g, NEW f, Onward(g, f), Supplied(g), ReadsItsOwn(Body(g)), WellFormed(Code(g)),
         g.ix \in DOMAIN Code(g)
  PROVE  Supplied(f)
<1> DEFINE inst == Code(g)
           p == g.ix
           n == f.ix
<1>1. Body(f) = Body(g) /\ Code(f) = inst /\ Body(g).inst = inst
  BY DEF Onward, Body, Code
<1>2. /\ DOMAIN inst = 1 .. Len(inst)
      /\ p \in Nat /\ p \in DOMAIN inst
      /\ n = p + 1 \/ n \in JumpsTo(inst[p])
      /\ inst[p].op \notin Unsupported
  <2>1. DOMAIN inst = 1 .. Len(inst)
    BY DEF WellFormed
  <2>2. QED
    BY <2>1 DEF Onward
<1>3. ASSUME NEW from \in DOMAIN inst, NEW to \in DOMAIN inst, Enclosed(inst, from, to), n \in from + 1 .. to
      PROVE  p = from \/ p \in from + 1 .. to
  <2>1. from \in Nat /\ to \in Nat
    BY <1>2
  <2>2. CASE n = p + 1
    BY <1>2, <1>3, <2>1, <2>2
  <2>3. CASE n \in JumpsTo(inst[p])
    BY <1>2, <1>3, <2>3 DEF Enclosed
  <2>4. QED
    BY <1>2, <2>2, <2>3
<1>4. \A k, i \in DOMAIN inst : inst[k].op \in Unsupported /\ Enclosed(inst, k, i) => p \notin k + 1 .. i
  BY DEF Supplied, SuppliedBy, Body, Code
<1>5. \A k, i \in DOMAIN inst : inst[k].op \in Unsupported /\ Enclosed(inst, k, i) => n \notin k + 1 .. i
  BY <1>2, <1>3, <1>4
<1>6. ASSUME NEW i \in Reading(Body(g)), NEW v \in Uses(inst[i]), n \in v + 1 .. i
      PROVE  v \in DOMAIN f.values
  <2>1. /\ i \in DOMAIN inst
        /\ v \in 1 .. i - 1
        /\ Enclosed(inst, v, i)
        /\ inst[v].op \in Leaving \cup Unsupported \/ Ended(inst, v)
    BY <1>1, <1>6 DEF ReadsItsOwn, Reading
  <2>2. v \in DOMAIN inst
    BY <1>2, <2>1
  <2>3. p = v \/ p \in v + 1 .. i
    BY <1>3, <1>6, <2>1, <2>2
  <2>4. CASE p \in v + 1 .. i
    <3>1. v \in DOMAIN g.values
      BY <1>6, <2>4 DEF Supplied, SuppliedBy, Body, Code
    <3>2. QED
      BY <3>1 DEF Onward
  <2>5. CASE p = v
    <3>1. ~Ended(inst, v)
      <4>1. SUFFICES ASSUME NEW k \in 1 .. v - 1, inst[k].op \in Unsupported, Enclosed(inst, k, v) PROVE FALSE
        BY DEF Ended
      <4>2. k \in DOMAIN inst /\ v \in k + 1 .. v
        BY <1>2, <2>1, <4>1
      <4>3. QED
        BY <1>4, <2>2, <2>5, <4>1, <4>2
    <3>2. inst[v].op \in Leaving
      BY <1>2, <2>1, <2>5, <3>1
    <3>3. QED
      BY <2>5, <3>2 DEF Onward
  <2>6. QED
    BY <2>3, <2>4, <2>5
<1> HIDE DEF inst, p, n
<1>7. QED
  BY <1>1, <1>5, <1>6 DEF Supplied, SuppliedBy, n

\* So is the beginning of a sequence.
LEMMA FirstSupplied ==
  ASSUME NEW f, f.ix = 1, ReadsItsOwn(Body(f)), WellFormed(Code(f))
  PROVE  Supplied(f)
<1>1. DOMAIN Code(f) = 1 .. Len(Code(f)) /\ Body(f).inst = Code(f)
  BY DEF WellFormed, Body, Code
<1>2. ASSUME NEW i \in Reading(Body(f)), NEW v \in Uses(Code(f)[i]) PROVE f.ix \notin v + 1 .. i
  BY <1>1, <1>2 DEF ReadsItsOwn
<1>3. ASSUME NEW k \in DOMAIN Code(f), NEW i \in DOMAIN Code(f) PROVE f.ix \notin k + 1 .. i
  BY <1>1, <1>3
<1>4. QED
  BY <1>2, <1>3 DEF Supplied, SuppliedBy, Body, Code

\* A frame of the stack runs well-formed code that reads its own.
LEMMA FrameReads ==
  ASSUME Inv, CodeReadsItsOwn, NEW n \in DOMAIN frames
  PROVE  ReadsItsOwn(Body(frames[n])) /\ WellFormed(Code(frames[n]))
<1>1. FrameOK(rt, frames[n])
  BY DEF Inv, StackInv
<1>2. QED
  BY <1>1 DEF FrameOK, CodeReadsItsOwn, Inv, CodesOK, Body, Code

\* The caller goes on behind the instruction it waited at.
LEMMA CallerOnward ==
  ASSUME Inv, state = "running", Len(frames) > 1, NEW v
  PROVE  /\ Len(frames) - 1 \in DOMAIN frames /\ Caller = frames[Len(frames) - 1]
         /\ Caller.ix \in DOMAIN Code(Caller)
         /\ Onward(Caller, Resumed(v))
<1> DEFINE k == Len(frames) - 1
           values == IF Code(Caller)[Caller.ix].op = "Call" THEN Bind(Caller.values, Caller.ix, v) ELSE Caller.values
           g == Continue(Caller, Caller.ix + 1, values, Caller.locals)
<1>1. k \in DOMAIN frames /\ k < Len(frames) /\ Caller = frames[k]
  BY Here DEF Caller
<1>2. Waits(Caller)
  BY <1>1 DEF Inv, StackInv
<1>3. /\ DOMAIN Caller.values \subseteq DOMAIN values
      /\ Code(Caller)[Caller.ix].op = "Call" => Caller.ix \in DOMAIN values
  BY DEF Bind
<1> HIDE DEF values
<1>4. g.code = Caller.code /\ g.seq = Caller.seq /\ g.ix = Caller.ix + 1 /\ g.values = values
  BY ContinueFacts
<1>5. g = Resumed(v)
  BY DEF g, values, Resumed
<1> HIDE DEF g
<1>6. Onward(Caller, g)
  BY <1>2, <1>3, <1>4 DEF Onward, Waits, Leaving, Unsupported
<1>7. QED
  BY <1>1, <1>2, <1>5, <1>6 DEF Waits

LEMMA SuppliedKept ==
  ASSUME Inv, ScopesInv, SuppliedInv, [Next]_vars
  PROVE  SuppliedInv'
<1>1. Inv'
  BY NextKeeps
<1>2. CodeReadsItsOwn' /\ codes' = codes
  <2>1. codes' = codes
    BY NextMoves DEF Begin, LoweringPanics, Finish, MissingOperand, Stop, Static, Moves, vars
  <2>2. QED
    BY <2>1 DEF SuppliedInv, CodeReadsItsOwn
<1>3. ASSUME NEW f, Supplied(f) PROVE Supplied(f)'
  BY <1>2, <1>3 DEF Supplied, Body
<1>4. ASSUME frames' = frames, state' # "operand" PROVE SuppliedInv'
  BY <1>2, <1>4 DEF SuppliedInv, Supplied, Body, OperandsDefined
<1>5. ASSUME NEW s, frames' = s, \A n \in DOMAIN s : Supplied(s[n]), state' # "operand"
      PROVE  SuppliedInv'
  BY <1>2, <1>5 DEF SuppliedInv, Supplied, Body, OperandsDefined
<1>6. ASSUME NEW n \in DOMAIN frames'
      PROVE  ReadsItsOwn(Body(frames'[n])) /\ WellFormed(Code(frames'[n]))
  <2>1. frames'[n].code \in DOMAIN codes /\ frames'[n].seq \in DOMAIN codes[frames'[n].code].seqs
    BY <1>1, <1>2, <1>6 DEF Inv, StackInv, FrameOK
  <2>2. QED
    BY <2>1 DEF SuppliedInv, CodeReadsItsOwn, Inv, CodesOK, Body, Code
<1>7. CASE UNCHANGED vars
  BY <1>2, <1>7 DEF vars, SuppliedInv, Supplied, Body, Code, OperandsDefined, Inst, Top
<1>8. CASE LoweringPanics
  BY <1>4, <1>8 DEF LoweringPanics
<1>9. CASE Finish
  <2>1. frames' = << >> /\ state' = "idle"
    BY <1>9 DEF Finish
  <2>2. QED
    BY <1>2, <2>1 DEF SuppliedInv, OperandsDefined
<1>10. CASE Begin
  <2>1. PICK f : frames' = <<f>> /\ f.ix = 1 /\ state' = "running"
    <3>1. \A object, m, code, seq, locals : NewFrame(object, m, code, seq, locals).ix = 1
      BY DEF NewFrame, Frame
    <3>2. QED
      BY <1>10, <3>1 DEF Begin
  <2>2. 1 \in DOMAIN frames' /\ frames'[1] = f /\ DOMAIN <<f>> = {1}
    BY <2>1
  <2>3. ReadsItsOwn(Body(f)) /\ WellFormed(Code(f))
    BY <1>6, <2>2
  <2>4. Supplied(f)
    BY <2>1, <2>3, FirstSupplied
  <2>5. QED
    BY <1>5, <2>1, <2>2, <2>4
<1>11. CASE MissingOperand
  <2>1. state = "running" /\ Top.ix \in DOMAIN Code(Top) /\ frames' = frames /\ ~(Uses(Inst) \subseteq DOMAIN Top.values)
    BY <1>11 DEF MissingOperand, Running, AtEnd, Stop
  <2>2. Len(frames) \in DOMAIN frames /\ Top = frames[Len(frames)]
    BY <2>1, Here
  <2>3. Supplied(Top) /\ ReadsItsOwn(Body(Top)) /\ WellFormed(Code(Top))
    BY <2>2, FrameReads DEF SuppliedInv
  <2>4. Top.ix \notin Reading(Body(Top))
    <3>1. SUFFICES ASSUME Top.ix \in Reading(Body(Top)) PROVE FALSE
      OBVIOUS
    <3>2. PICK v \in Uses(Inst) : v \notin DOMAIN Top.values
      BY <2>1
    <3>3. Body(Top).inst = Code(Top) /\ Inst = Code(Top)[Top.ix]
      BY DEF Body, Code, Inst
    <3>4. v \in 1 .. Top.ix - 1 /\ Top.ix \in Nat
      BY <2>1, <2>3, <3>1, <3>2, <3>3 DEF ReadsItsOwn, WellFormed
    <3>5. Top.ix \in v + 1 .. Top.ix
      BY <3>4
    <3>6. QED
      BY <2>3, <3>1, <3>2, <3>3, <3>5 DEF Supplied, SuppliedBy
  <2>5. Inst.op = "SetVar" /\ codes[Top.code].seqs[Top.seq].kind = "Class"
    BY <2>1, <2>4 DEF Reading, Body, Code, Inst
  <2>6. OperandsDefined'
    BY <1>2, <2>1, <2>5 DEF OperandsDefined, Inst, Code, Top
  <2>7. QED
    BY <1>2, <2>1, <2>6 DEF SuppliedInv, Supplied, Body
<1>12. CASE Moves
  <2>1. state = "running" /\ state' # "operand"
    BY <1>12 DEF Moves
  <2>2. /\ Len(frames) \in Nat /\ Len(frames) > 0 /\ DOMAIN frames = 1 .. Len(frames)
        /\ Len(frames) \in DOMAIN frames /\ Top = frames[Len(frames)]
    BY <2>1, Here
  <2>3. \A n \in DOMAIN frames : Supplied(frames[n])
    BY DEF SuppliedInv
  <2>4. CASE frames' = frames
    BY <1>4, <2>1, <2>4
  <2>5. CASE Top.ix \in DOMAIN Code(Top) /\ Goes
    <3>1. PICK f : frames' = [frames EXCEPT ![Len(frames)] = f] /\ Onward(Top, f)
      BY <2>5 DEF Goes
    <3> DEFINE s == [frames EXCEPT ![Len(frames)] = f]
    <3>2. DOMAIN s = DOMAIN frames /\ s[Len(frames)] = f /\ \A i \in DOMAIN frames : i # Len(frames) => s[i] = frames[i]
      BY <2>1, TopReplaced
    <3>3. Supplied(f)
      BY <2>2, <2>3, <2>5, <3>1, FrameReads, OnwardSupplied DEF SuppliedInv
    <3>4. frames' = s
      BY <3>1
    <3> HIDE DEF s
    <3>5. \A n \in DOMAIN s : Supplied(s[n])
      BY <2>3, <3>2, <3>3
    <3>6. QED
      BY <1>5, <2>1, <3>4, <3>5
  <2>6. CASE Enters
    <3>1. PICK f : frames' = Append(frames, f) /\ f.ix = 1
      BY <2>6 DEF Enters
    <3> DEFINE s == Append(frames, f)
    <3>2. /\ DOMAIN s = 1 .. Len(frames) + 1
          /\ s[Len(frames) + 1] = f
          /\ \A i \in DOMAIN frames : s[i] = frames[i]
      BY <2>2, AppendFacts DEF Inv, StackInv
    <3>3. frames' = s
      BY <3>1
    <3> HIDE DEF s
    <3>4. Len(frames) + 1 \in DOMAIN frames'
      BY <2>2, <3>2, <3>3
    <3>5. ReadsItsOwn(Body(f)) /\ WellFormed(Code(f))
      BY <1>6, <3>2, <3>3, <3>4
    <3>6. Supplied(f)
      BY <3>1, <3>5, FirstSupplied
    <3>7. \A n \in DOMAIN s : n \in DOMAIN frames \/ n = Len(frames) + 1
      BY <2>2, <3>2
    <3>8. \A n \in DOMAIN s : Supplied(s[n])
      BY <2>3, <3>2, <3>6, <3>7
    <3>9. QED
      BY <1>5, <2>1, <3>3, <3>8
  <2>7. CASE Resumes
    <3>1. PICK v : Len(frames) > 1 /\ frames' = [Front(frames) EXCEPT ![Len(frames) - 1] = Resumed(v)]
      BY <2>7 DEF Resumes
    <3>2. /\ Len(frames) - 1 \in DOMAIN frames /\ Caller = frames[Len(frames) - 1]
          /\ Caller.ix \in DOMAIN Code(Caller)
          /\ Onward(Caller, Resumed(v))
      BY <2>1, <3>1, CallerOnward
    <3>3. Supplied(Resumed(v))
      BY <2>3, <3>2, FrameReads, OnwardSupplied DEF SuppliedInv
    <3> DEFINE f == Resumed(v)
               s == [Front(frames) EXCEPT ![Len(frames) - 1] = f]
    <3>4. Supplied(f) /\ frames' = s
      BY <3>1, <3>3
    <3> HIDE DEF f
    <3>5. /\ DOMAIN s = 1 .. Len(frames) - 1
          /\ s[Len(frames) - 1] = f
          /\ \A i \in DOMAIN s : i # Len(frames) - 1 => i \in DOMAIN frames /\ s[i] = frames[i]
      BY <2>1, <3>1, TopRemoved
    <3> HIDE DEF s
    <3>6. PICK t : t = s /\ \A n \in DOMAIN t : Supplied(t[n])
      BY <2>3, <3>4, <3>5
    <3>7. QED
      BY <1>5, <2>1, <3>4, <3>6
  <2>8. QED
    BY <1>12, <2>4, <2>5, <2>6, <2>7 DEF Moves
<1>13. QED
  BY <1>7, <1>8, <1>9, <1>10, <1>11, <1>12, NextMoves

-----------------------------------------------------------------------------
(* The results.                                                            *)

\* The attributes that lookup reads in an enclosing scope are the locals of the frame that runs
\* there (define, set_dunder and lookup in evaluator.rs), whatever bodies, calls and decorators
\* run meanwhile and whatever well-formed code they are.
THEOREM AlwaysScopeMirrored == Spec => []ScopeMirrored
<1>1. Inv /\ ScopesInv => ScopeMirrored
  BY DEF ScopesInv
<1>2. QED
  BY <1>1, Invariance, PTL

\* Strings and integers that a frame or a dictionary holds are compared rightly by id: the ones
\* with the same value are one object (new_string and new_int in rt/mod.rs).
THEOREM AlwaysInternedOnce == Spec => []InternedOnce
<1>1. Inv => InternedOnce
  <2> SUFFICES ASSUME Inv PROVE InternedOnce
    OBVIOUS
  <2>1. ASSUME NEW a \in Reached PROVE Good(rt, a)
    <3>1. CASE \E i \in DOMAIN frames : a \in Range(frames[i].values) \cup Range(frames[i].locals)
      BY <3>1 DEF Inv, StackInv, FrameOK, Range
    <3>2. CASE \E o \in ObjectIds : HasDict(rt, o) /\ \E x \in DOMAIN rt.objects[o].dict : a = rt.objects[o].dict[x].value
      <4>1. ObjectIds = DOMAIN rt.objects
        BY SeqFacts DEF ObjectIds, Inv, RuntimeInv, RuntimeOK
      <4>2. QED
        BY <3>2, <4>1 DEF Inv, RuntimeInv, RuntimeOK, Refers, HasDict
    <3>3. QED
      BY <2>1, <3>1, <3>2 DEF Reached
  <2>2. QED
    BY <2>1 DEF InternedOnce, Good
<1>2. QED
  BY <1>1, Invariance, PTL

\* An evaluation executes at most two instructions for a tick and has no more frames than ticks
\* (set_upper_tick_bound, tick and exec_seq_with_frame), so its work is bounded however its
\* code calls and loops.
THEOREM AlwaysWorkBounded == Spec => []WorkBounded
<1>1. Init => BudgetInv
  <2> SUFFICES ASSUME Init PROVE BudgetInv
    OBVIOUS
  <2>1. ticks = MaxTicks /\ executed = 0 /\ Len(frames) = 0 /\ state = "idle"
    BY DEF Init
  <2>2. Begun = 0
    BY <2>1 DEF Begun
  <2>3. QED
    BY <2>1, <2>2, MaxTicksAssumption DEF BudgetInv
<1>2. (Inv /\ ScopesInv) /\ BudgetInv /\ [Next]_vars => BudgetInv'
  BY BudgetKept
<1>3. (Inv /\ ScopesInv) /\ BudgetInv => WorkBounded
  <2> SUFFICES ASSUME Inv, BudgetInv PROVE WorkBounded
    OBVIOUS
  <2>1. MaxTicks \in Nat \ {0} /\ ticks \in 1 .. MaxTicks /\ executed \in Nat /\ Len(frames) \in Nat /\ Begun \in {0, 1}
    BY MaxTicksAssumption, SeqFacts DEF BudgetInv, Inv, StackInv, Begun
  <2>2. QED
    BY <2>1 DEF BudgetInv, WorkBounded
<1>4. QED
  BY <1>1, <1>2, <1>3, Invariance, PTL DEF Spec

\* No instruction reads a value that is not there, but for the bindings that visit_classdef adds in a
\* class body: calls, class bodies and jumps keep the values of every expression that is half way
\* through, also in the frames that wait (exec_seq_with_frame and call_any_func in evaluator.rs).
THEOREM AlwaysOperandsDefined == Spec => []OperandsDefined
<1>1. Init => SuppliedInv
  <2> SUFFICES ASSUME Init PROVE SuppliedInv
    OBVIOUS
  <2>1. program \in DOMAIN Sessions /\ codes = Sessions[program] /\ frames = << >> /\ state = "idle"
    BY DEF Init
  <2>2. codes \in Range(Sessions)
    BY <2>1 DEF Range
  <2>3. CodeReadsItsOwn
    BY <2>2, OperandsAssumption DEF CodeReadsItsOwn
  <2>4. QED
    BY <2>1, <2>3 DEF SuppliedInv, OperandsDefined
<1>2. (Inv /\ ScopesInv) /\ SuppliedInv /\ [Next]_vars => SuppliedInv'
  BY SuppliedKept
<1>3. SuppliedInv => OperandsDefined
  BY DEF SuppliedInv
<1>4. QED
  BY <1>1, <1>2, <1>3, Invariance, PTL DEF Spec
=============================================================================
