------------------------------ MODULE Runtime ------------------------------
(***************************************************************************)
(* The object space of the compile-time runtime (montyc_hlirt: storage.rs, *)
(* rt/mod.rs, object/builders.rs).  A runtime is a record of               *)
(*   objects  the objects by id, numbered from 1; 0 is the uninitialised   *)
(*            id (ObjectId::default),                                      *)
(*   dynamic  the interned strings and integers.                           *)
(* The hash of a text is the text, so a __dict__ maps a name to a pair of  *)
(* key object and value object.                                            *)
(***************************************************************************)
EXTENDS Naturals, SequencesExt, Functions

EmptyDict == [x \in {} |-> 0]
EmptyRuntime == [objects |-> << >>, dynamic |-> [x \in {} |-> 0]]

\* DefaultObjectSpace::insert; the id of the object is NewId of the runtime before.
NewId(rt) == Len(rt.objects) + 1
Insert(rt, object) == [rt EXCEPT !.objects = Append(@, object)]

\* Objects.
Singleton(kind) == [kind |-> kind]
IntObject(n) == [kind |-> "int", val |-> n]
StrObject(st) == [kind |-> "str", val |-> st]
ModuleObject(mref) == [kind |-> "module", mref |-> mref, dict |-> EmptyDict]
ClassObject(parent) == [kind |-> "class", parent |-> parent, dict |-> EmptyDict]
FunctionObject(code, seq, params) ==
  [kind |-> "function", code |-> code, seq |-> seq, params |-> params, dict |-> EmptyDict]
CallableObject(native, conv) == [kind |-> "callable", native |-> native, conv |-> conv]

\* Mutant of Intern: the new object is not remembered.
InternForgets(rt, key, object) == IF key \in DOMAIN rt.dynamic THEN rt ELSE Insert(rt, object)

\* new_string and new_int: the object of an interned text or number is reused.
Intern(rt, key, object) ==
  IF key \in DOMAIN rt.dynamic THEN rt
  ELSE [Insert(rt, object) EXCEPT !.dynamic = [k \in DOMAIN @ \cup {key} |-> IF k = key THEN NewId(rt) ELSE @[k]]]

NewString(rt, st) == Intern(rt, <<"str", st>>, StrObject(st))
NewInt(rt, n) == Intern(rt, <<"int", n>>, IntObject(n))
\* The object new_string and new_int return; the last one made if it was not remembered.
Interned(rt, key) == IF key \in DOMAIN rt.dynamic THEN rt.dynamic[key] ELSE Len(rt.objects)

\* Objects with a __dict__, and what it holds under a name (getattr_direct_hash).
HasDict(rt, o) == rt.objects[o].kind \in {"module", "class", "function"}
HasAttr(rt, o, name) == name \in DOMAIN rt.objects[o].dict
Attr(rt, o, name) == rt.objects[o].dict[name].value

DictInsert(dict, name, key, value) ==
  [x \in DOMAIN dict \cup {name} |-> IF x = name THEN [key |-> key, value |-> value] ELSE dict[x]]

\* EvalGlue::setattr with a key made by new_string.
SetAttr(rt, o, name, value) ==
  LET keyed == NewString(rt, name)
      key == Interned(keyed, <<"str", name>>)
  IN  [keyed EXCEPT !.objects[o].dict = DictInsert(@, name, key, value)]

\* A step of ObjectBuilder<MODULE>::synthesise_within: a key and a callable for a property
\* of module o.  These keys are not interned.
WithNative(rt, o, name) ==
  LET key == NewId(rt)
  IN  [Insert(Insert(rt, StrObject(name)), CallableObject(name, 0))
         EXCEPT !.objects[o].dict = DictInsert(@, name, key, key + 1)]

\* try_init: the singletons, and the small integers one after the other.
Singletons ==
  Insert(Insert(Insert(Insert(EmptyRuntime, Singleton("true")), Singleton("false")),
                Singleton("none")), Singleton("ellipsis"))
TryInit(ints) ==
  LET made[i \in 0 .. Len(ints)] == IF i = 0 THEN Singletons ELSE NewInt(made[i - 1], ints[i])
  IN  made[Len(ints)]
TrueV == 1
FalseV == 2
NoneV == 3
EllipsisV == 4
=============================================================================
