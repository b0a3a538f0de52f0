------------------------------- MODULE Import -------------------------------
(***************************************************************************)
(* Importing modules: `import` as the two hosts of the runtime do it, the  *)
(* bootstrap of the runtime and the session of the driver, and the path    *)
(* finder that both have, over a file system that others may change        *)
(* between its steps.                                                      *)
(*                                                                         *)
(* A module path is a sequence of names.  Of a directory its source files  *)
(* count, and the packages that find_spec would notice: n/n/__init__.py.   *)
(* The compilation of what was found is not reached by either host.        *)
(***************************************************************************)
EXTENDS Integers, Sequences, FiniteSets

CONSTANTS Dir, Name,
          Canonical,   \* the directory that a path of sys.path leads to
          Cwd,         \* the path of the working directory, made canonical
          SysPaths,    \* the values of sys.path considered; "" is the working directory
          Paths,       \* the module paths that are imported
          SysModules,  \* the module paths in the driver's sys.modules
          StaticNames, \* names that the driver's session knows from the start
          MaxChanges   \* bound on the changes of the file system

\* What may be an entry of sys.path.
Entry == DOMAIN Canonical \cup {""}

ASSUME PathsAssumption ==
  /\ Canonical \in [DOMAIN Canonical -> Dir]
  /\ "" \notin DOMAIN Canonical /\ Cwd \in DOMAIN Canonical
  /\ SysPaths \subseteq Seq(Entry)

VARIABLES
  host,                 \* "bootstrap" or "driver"
  ready,                \* setup has been called
  sys_path,
  fs,                   \* the file system
  path_importer_cache,  \* path |-> the finder for it, or 0 for None
  finders,              \* the FileFinders of the bootstrap
  find,                 \* the search under way
  last,                 \* how the last import or search ended
  changes

vars == <<host, ready, sys_path, fs, path_importer_cache, finders, find, last, changes>>
search == <<path_importer_cache, finders>>
static == <<host, sys_path, fs, changes>>

Nothing == [x \in {} |-> x]
NoListing == [files |-> {}, twins |-> {}]
Idle == [phase |-> "idle"]

\* FileFinder::new: its cache is filled when it is first used.
FileFinder(base) == [base |-> base, cache |-> NoListing, dirty |-> TRUE]

Init ==
  /\ host \in {"bootstrap", "driver"}
  /\ ready = FALSE
  /\ sys_path \in SysPaths
  /\ fs \in [Dir -> [is_dir : BOOLEAN, files : {{}, Name}, twins : {{}}]]
  /\ path_importer_cache = Nothing /\ finders = << >>
  /\ find = Idle /\ last = [outcome |-> "none"]
  /\ changes = 0

-----------------------------------------------------------------------------
(* The file system, changed by others.                                     *)

Change(d, with) == /\ changes < MaxChanges /\ changes' = changes + 1
                   /\ fs' = [fs EXCEPT ![d] = with]
                   /\ UNCHANGED <<host, ready, sys_path, search, find, last>>

Toggle(S, n) == IF n \in S THEN S \ {n} ELSE S \cup {n}
ChangeFile(d, n) == fs[d].is_dir /\ Change(d, [fs[d] EXCEPT !.files = Toggle(@, n)])
ChangeTwin(d, n) == fs[d].is_dir /\ Change(d, [fs[d] EXCEPT !.twins = Toggle(@, n)])
ChangeDir(d) == Change(d, [fs[d] EXCEPT !.is_dir = ~@])

Listing(d) == [files |-> fs[d].files, twins |-> fs[d].twins]

-----------------------------------------------------------------------------
(* Imports.                                                                *)

\* setup: the path finder gets on sys.meta_path, and the hook for directories on
\* sys.path_hooks.
SetUp == ~ready /\ ready' = TRUE /\ UNCHANGED <<static, search, find, last>>

Free == find = Idle /\ last.outcome # "panic"

\* The import or the search ends.
Ends(how) == last' = how /\ find' = Idle /\ UNCHANGED <<static, ready>>
EndsWith(outcome) == Ends([outcome |-> outcome])

\* A search for name, at the entry ix of sys.path.
AtEntry(name, ix, import) == [phase |-> "entry", name |-> name, ix |-> ix, import |-> import]

SearchFor(name, import) ==
  /\ find' = AtEntry(name, 1, import)
  /\ UNCHANGED <<static, ready, search, last>>

\* bootstrap::import_module: a path of several names asks sys.modules for its
\* __contains__, which a dict does not have.
ImportBootstrap(path) ==
  /\ Free /\ host = "bootstrap"
  /\ IF ready /\ Len(path) = 1 THEN SearchFor(path[1], TRUE)
     ELSE EndsWith("panic") /\ UNCHANGED search

\* gcd_import: the parents first, down to one of sys.modules or to a path of one name.
\* The path finder of sys.meta_path is a class, on which no method can be called.
Prefixes(path) == {SubSeq(path, 1, k) : k \in 1 .. Len(path)}
GcdImport(path) ==
  LET parents == Prefixes(path) \ {path}
      parent == SubSeq(path, 1, Len(path) - 1)
  IN  CASE parents = {} \/ parents \cap SysModules = {} -> IF ready THEN "panic" ELSE "error"
        [] parent \in SysModules /\ path \in SysModules -> "module"
        [] OTHER -> "panic"

\* import_module_spec: a relative import is refused unless it starts at __monty, and
\* panics for a name that the session did not know from the start.
ImportDriver(path, relative) ==
  /\ Free /\ host = "driver"
  /\ EndsWith(CASE relative /\ path[1] \notin StaticNames -> "panic"
                [] relative /\ path[1] # "__monty" -> "error"
                [] path = <<"__monty">> -> "module"
                [] OTHER -> GcdImport(path))
  /\ UNCHANGED search

\* PathFinder.find_spec, called by evaluated code.
FindSpec(name) == Free /\ host = "driver" /\ ready /\ SearchFor(name, FALSE)

-----------------------------------------------------------------------------
(* PathFinder.get_spec, one entry of sys.path after the other.             *)

Searching(phase) == find.phase = phase
\* Mutant of NextEntry: the entry after the one that failed is left out.
NextEntrySkips == find' = AtEntry(find.name, find.ix + 2, find.import)

NextEntry == find' = AtEntry(find.name, find.ix + 1, find.import)
UseFinder(f, base) == find' = [phase |-> "finder", name |-> find.name, ix |-> find.ix,
                               import |-> find.import, finder |-> f, base |-> base]

\* The empty path stands for the working directory.
Key(entry) == IF entry = "" THEN Cwd ELSE entry

\* Mutant of Hook: what the hook answers is not kept.
HookUncached(key) ==
  LET d == Canonical[key] IN
    IF fs[d].is_dir
    THEN finders' = Append(finders, FileFinder(d)) /\ UseFinder(Len(finders'), d)
           /\ UNCHANGED path_importer_cache
    ELSE NextEntry /\ UNCHANGED search

\* path_hooks: the one hook refuses what is not a directory.
Hook(key) ==
  LET d == Canonical[key]
      Keep(f) == [k \in DOMAIN path_importer_cache \cup {key} |->
                    IF k = key THEN f ELSE path_importer_cache[k]]
  IN  IF fs[d].is_dir
      THEN /\ finders' = Append(finders, FileFinder(d))
           /\ path_importer_cache' = Keep(Len(finders'))
           /\ UseFinder(Len(finders'), d)
      ELSE path_importer_cache' = Keep(0) /\ NextEntry /\ UNCHANGED finders

\* Mutant of Cached: an entry without a finder is tried for ever.
CachedStays(key) ==
  LET f == path_importer_cache[key] IN
    IF f = 0 THEN UNCHANGED find ELSE UseFinder(f, finders[f].base)

Cached(key) ==
  LET f == path_importer_cache[key] IN
    IF f = 0 THEN NextEntry ELSE UseFinder(f, finders[f].base)

\* get_path_from_importer_cache: without a working directory the path is None, at which
\* the hook raises a TypeError.  The driver asks the hook every time.
TryEntry ==
  /\ Searching("entry") /\ find.ix \in DOMAIN sys_path
  /\ LET entry == sys_path[find.ix]
         key == Key(entry)
     IN  IF entry = "" /\ ~fs[Canonical[Cwd]].is_dir
         THEN EndsWith("error") /\ UNCHANGED search
         ELSE /\ CASE host = "bootstrap" /\ key \in DOMAIN path_importer_cache ->
                        Cached(key) /\ UNCHANGED search
                   [] host = "bootstrap" /\ key \notin DOMAIN path_importer_cache -> Hook(key)
                   [] host = "driver" ->
                        /\ IF fs[Canonical[key]].is_dir THEN UseFinder(0, Canonical[key]) ELSE NextEntry
                        /\ UNCHANGED search
              /\ UNCHANGED <<static, ready, last>>

\* Others remove the directory after the hook has tested it: the path of what is gone
\* cannot be made canonical, and the finder is unwrapped.
HookLosesDir ==
  /\ Searching("entry") /\ find.ix \in DOMAIN sys_path
  /\ LET key == Key(sys_path[find.ix])
         d == Canonical[key]
     IN  /\ fs[d].is_dir /\ changes < MaxChanges
         /\ host = "bootstrap" => key \notin DOMAIN path_importer_cache
         /\ fs' = [fs EXCEPT ![d].is_dir = FALSE] /\ changes' = changes + 1
  /\ last' = [outcome |-> "panic"] /\ find' = Idle
  /\ UNCHANGED <<host, ready, sys_path, search>>

\* What is not found on sys.path is a todo!.
Exhausted ==
  /\ Searching("entry") /\ find.ix \notin DOMAIN sys_path
  /\ EndsWith("panic") /\ UNCHANGED search

Spec_ == [outcome |-> "spec", name |-> find.name, dir |-> find.base, ix |-> find.ix, import |-> find.import]

\* FileFinder::find_spec on what was listed: a package, a source file, or else a todo!.
\* A spec that was imported is taken for a module, because the class of modules and the
\* class of objects are both not set.
Answer(listed) ==
  CASE find.name \in listed.twins /\ fs[find.base].is_dir /\ find.name \in fs[find.base].twins ->
         EndsWith("panic")
    [] find.name \in listed.files -> Ends(Spec_)
    [] OTHER -> EndsWith("panic")

\* fill_cache: once.
FillCache(f, listed) == finders' = [finders EXCEPT ![f].cache = listed, ![f].dirty = FALSE]

AskCached ==
  /\ Searching("finder") /\ host = "bootstrap" /\ ~finders[find.finder].dirty
  /\ Answer(finders[find.finder].cache)
  /\ UNCHANGED search

AskDirty ==
  /\ Searching("finder") /\ host = "bootstrap" /\ finders[find.finder].dirty
  /\ IF fs[find.base].is_dir
     THEN FillCache(find.finder, Listing(find.base)) /\ Answer(Listing(find.base))
     ELSE NextEntry /\ UNCHANGED <<finders, static, ready, last>>
  /\ UNCHANGED path_importer_cache

\* The driver lists the directory every time; one that is gone is an error.
AskDriver ==
  /\ Searching("finder") /\ host = "driver"
  /\ IF fs[find.base].is_dir THEN Answer(Listing(find.base)) ELSE EndsWith("error")
  /\ UNCHANGED search

Step == TryEntry \/ Exhausted \/ AskCached \/ AskDirty \/ AskDriver

Next ==
  \/ SetUp
  \/ \E path \in Paths : ImportBootstrap(path) \/ ImportDriver(path, FALSE) \/ ImportDriver(path, TRUE)
  \/ \E n \in Name : FindSpec(n)
  \/ Step \/ HookLosesDir
  \/ \E d \in Dir, n \in Name : ChangeFile(d, n) \/ ChangeTwin(d, n)
  \/ \E d \in Dir : ChangeDir(d)

Spec == Init /\ [][Next]_vars
FairSpec == Spec /\ WF_vars(Step)

-----------------------------------------------------------------------------
\* get_path_from_importer_cache: there is one finder for a path however it is given, the
\* empty one included, and it looks where the path leads.
OneFinderPerPath ==
  /\ \A k \in DOMAIN path_importer_cache :
       /\ k \in DOMAIN Canonical
       /\ path_importer_cache[k] # 0 => finders[path_importer_cache[k]].base = Canonical[k]
  /\ \A f \in DOMAIN finders : Cardinality({k \in DOMAIN path_importer_cache : path_importer_cache[k] = f}) = 1

\* The entry j of sys.path has been asked for a finder; it has one, which has listed its
\* directory.
Asked(j) == Key(sys_path[j]) \in DOMAIN path_importer_cache
FinderAt(j) == path_importer_cache[Key(sys_path[j])]
Listed(j) == Asked(j) /\ FinderAt(j) # 0 /\ ~finders[FinderAt(j)].dirty

\* PathFinder::get_spec of the bootstrap: a module comes from the first entry of sys.path
\* whose directory its finder has listed, out of that listing.  The entries before it have
\* been asked, by this search or an earlier one, and have no finder, or one that never
\* could list its directory; which of them have the module by now does not count.
FromFirstListed ==
  [][last' # last /\ last'.outcome = "spec" /\ host = "bootstrap" =>
       /\ Listed(last.ix)'
       /\ (last.name \in finders[FinderAt(last.ix)].cache.files)'
       /\ last'.dir = Canonical[Key(sys_path[last'.ix])]
       /\ \A j \in 1 .. (last'.ix - 1) : Asked(j) /\ ~Listed(j)]_vars

\* A search ends, however the file system changes.
SearchEnds == (find # Idle) ~> (find = Idle)

\* "is the implementation of the `import` flatcode instruction": what is imported is a
\* module.  It is not, it is the spec of one.
ImportsModules == ~(last.outcome = "spec" /\ last.import)
=============================================================================
