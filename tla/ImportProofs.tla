---------------------------- MODULE ImportProofs ----------------------------
(***************************************************************************)
(* For every file system, every value of sys.path and any number of        *)
(* changes: a path has one finder, and a module comes from the first entry *)
(* of sys.path whose directory has been listed.                            *)
(***************************************************************************)
EXTENDS Import, FiniteSetTheorems, TLAPS

Directory == [base : Dir, cache : [files : SUBSET Name, twins : SUBSET Name], dirty : BOOLEAN]

\* What the cache of importers and the finders are, one to one.
CacheInv ==
  /\ finders \in Seq(Directory)
  /\ path_importer_cache \in [DOMAIN path_importer_cache -> 0 .. Len(finders)]
  /\ DOMAIN path_importer_cache \subseteq DOMAIN Canonical
  /\ \A k \in DOMAIN path_importer_cache :
       path_importer_cache[k] # 0 => finders[path_importer_cache[k]].base = Canonical[k]
  /\ \A f \in 1 .. Len(finders) : \E k \in DOMAIN path_importer_cache : path_importer_cache[k] = f
  /\ \A k, l \in DOMAIN path_importer_cache :
       path_importer_cache[k] = path_importer_cache[l] /\ path_importer_cache[k] # 0 => k = l

\* The entries of sys.path that a search of the bootstrap has passed have no finder, or one
\* that could not list its directory: a finder that can ends the search.
PassedAt(j) ==
  /\ Key(sys_path[j]) \in DOMAIN path_importer_cache
  /\ LET f == path_importer_cache[Key(sys_path[j])] IN f = 0 \/ finders[f].dirty

\* That is, they have no listing.
LEMMA PassedUnlisted == ASSUME NEW j, PassedAt(j) PROVE Asked(j) /\ ~Listed(j)
BY DEF PassedAt, Asked, Listed, FinderAt

Passed(ix) == \A j \in 1 .. (ix - 1) : PassedAt(j)

FindInv ==
  \/ find = Idle
  \/ /\ find.phase = "entry"
     /\ find.ix \in 1 .. (Len(sys_path) + 1)
     /\ host = "bootstrap" => Passed(find.ix)
  \/ /\ find.phase = "finder"
     /\ find.ix \in 1 .. Len(sys_path)
     /\ host = "bootstrap" =>
          /\ Passed(find.ix)
          /\ Key(sys_path[find.ix]) \in DOMAIN path_importer_cache
          /\ find.finder = path_importer_cache[Key(sys_path[find.ix])]
          /\ find.finder \in 1 .. Len(finders)
          /\ find.base = finders[find.finder].base

IInv ==
  /\ host \in {"bootstrap", "driver"}
  /\ sys_path \in SysPaths
  /\ fs \in [Dir -> [is_dir : BOOLEAN, files : SUBSET Name, twins : SUBSET Name]]
  /\ CacheInv
  /\ FindInv

-----------------------------------------------------------------------------
(* Initial states, and the steps that leave the cache alone.               *)

\* No finder and no search.
LEMMA InitInv == Init => IInv
<1> SUFFICES ASSUME Init PROVE IInv
  OBVIOUS
<1>1. CacheInv
  <2>1. finders = << >> /\ DOMAIN path_importer_cache = {}
        /\ path_importer_cache \in [DOMAIN path_importer_cache -> 0 .. Len(finders)]
    BY DEF Init, Nothing
  <2>2. QED
    BY <2>1 DEF CacheInv
<1>2. FindInv
  BY DEF Init, FindInv
<1>3. fs \in [Dir -> [is_dir : BOOLEAN, files : SUBSET Name, twins : SUBSET Name]]
  <2>1. {{}, Name} \subseteq SUBSET Name /\ {{}} \subseteq SUBSET Name
    OBVIOUS
  <2>2. QED
    BY <2>1 DEF Init
<1>4. QED
  BY <1>1, <1>2, <1>3 DEF Init, IInv

\* What the file system and sys.path are does not matter to the cache.
LEMMA SameCache == CacheInv /\ UNCHANGED search => CacheInv'
BY DEF CacheInv, search

\* A search that ends, or did not start.
LEMMA EndedInv ==
  ASSUME IInv, CacheInv', find' = Idle, UNCHANGED static
  PROVE  IInv'
BY DEF IInv, FindInv, static

\* A search that starts.
LEMMA StartedInv ==
  ASSUME IInv, NEW name, NEW import, SearchFor(name, import)
  PROVE  IInv'
<1>1. CacheInv'
  BY SameCache DEF IInv, SearchFor
<1>2. sys_path \in Seq(Entry)
  BY PathsAssumption DEF IInv
<1>3. FindInv'
  BY <1>2 DEF SearchFor, AtEntry, FindInv, Passed, static
<1>4. QED
  BY <1>1, <1>3 DEF IInv, SearchFor, static

\* A change of the file system keeps it a file system.
LEMMA ChangedInv ==
  ASSUME IInv, NEW d \in Dir,
         NEW with \in [is_dir : BOOLEAN, files : SUBSET Name, twins : SUBSET Name], Change(d, with)
  PROVE  IInv'
<1>1. fs' \in [Dir -> [is_dir : BOOLEAN, files : SUBSET Name, twins : SUBSET Name]]
  BY DEF IInv, Change
<1>2. CacheInv'
  BY SameCache DEF IInv, Change
<1>3. FindInv'
  BY DEF IInv, Change, FindInv, Passed, PassedAt, search
<1>4. QED
  BY <1>1, <1>2, <1>3 DEF IInv, Change

-----------------------------------------------------------------------------
(* The steps of a search.                                                  *)

\* The entry of a search has a key that leads to a directory.
LEMMA KeyKnown ==
  ASSUME IInv, NEW j \in DOMAIN sys_path
  PROVE  Key(sys_path[j]) \in DOMAIN Canonical /\ Canonical[Key(sys_path[j])] \in Dir
<1>1. sys_path \in Seq(Entry)
  BY PathsAssumption DEF IInv
<1>2. sys_path[j] \in Entry
  BY <1>1
<1>3. Key(sys_path[j]) \in DOMAIN Canonical
  BY <1>2, PathsAssumption DEF Key, Entry
<1>4. QED
  BY <1>3, PathsAssumption

\* On to the next entry: the one at hand has been asked, and has no finder or a dirty one.
LEMMA NextEntryInv ==
  ASSUME IInv, CacheInv', UNCHANGED static,
         find # Idle, NEW ix \in DOMAIN sys_path, ix = find.ix, NextEntry,
         host = "bootstrap" => PassedAt(ix)' /\ \A j \in 1 .. (ix - 1) : PassedAt(j)'
  PROVE  IInv'
<1>1. sys_path \in Seq(Entry)
  BY PathsAssumption DEF IInv
<1>2. find.ix \in 1 .. Len(sys_path)
  BY <1>1
<1>3. find'.ix = find.ix + 1 /\ find'.phase = "entry"
  BY DEF NextEntry, AtEntry
<1>4. host' = host /\ sys_path' = sys_path
  BY DEF static
<1>5. \A j \in 1 .. (find'.ix - 1) : j = ix \/ j \in 1 .. (ix - 1)
  BY <1>1, <1>2, <1>3
<1>6. host' = "bootstrap" => \A j \in 1 .. (find'.ix - 1) : PassedAt(j)'
  BY <1>4, <1>5
<1>7. FindInv'
  BY <1>1, <1>2, <1>3, <1>4, <1>6 DEF FindInv, Passed
<1>8. QED
  BY <1>7 DEF IInv, static

\* A finder is used: every entry before it has been passed.
LEMMA UseFinderInv ==
  ASSUME IInv, CacheInv', UNCHANGED static,
         find.ix \in DOMAIN sys_path, NEW f, NEW base, UseFinder(f, base),
         host = "bootstrap" =>
           /\ \A j \in 1 .. (find.ix - 1) : PassedAt(j)'
           /\ Key(sys_path[find.ix]) \in DOMAIN path_importer_cache'
           /\ f = path_importer_cache'[Key(sys_path[find.ix])]
           /\ f \in 1 .. Len(finders')
           /\ base = finders'[f].base
  PROVE  IInv'
<1>1. sys_path \in Seq(Entry) /\ sys_path' = sys_path /\ host' = host
  BY PathsAssumption DEF IInv, static
<1>2. find.ix \in 1 .. Len(sys_path)
  BY <1>1
<1>3. find'.ix = find.ix /\ find'.phase = "finder" /\ find'.finder = f /\ find'.base = base
  BY DEF UseFinder
<1>4. FindInv'
  BY <1>1, <1>2, <1>3 DEF FindInv, Passed, Key
<1>5. QED
  BY <1>4 DEF IInv, static

\* What the hook makes is a finder.
LEMMA NewFinder == \A d \in Dir : FileFinder(d) \in Directory
BY DEF FileFinder, Directory, NoListing

\* What the hook answers is kept under a new key: a new finder, or none.
LEMMA KeptInv ==
  ASSUME IInv, NEW key \in DOMAIN Canonical, key \notin DOMAIN path_importer_cache,
         NEW f, path_importer_cache' = [k \in DOMAIN path_importer_cache \cup {key} |->
                                          IF k = key THEN f ELSE path_importer_cache[k]],
         \/ f = 0 /\ finders' = finders
         \/ f = Len(finders') /\ finders' = Append(finders, FileFinder(Canonical[key]))
  PROVE  /\ CacheInv'
         /\ \A j : sys_path' = sys_path /\ PassedAt(j) => PassedAt(j)'
<1>1. FileFinder(Canonical[key]) \in Directory
  BY PathsAssumption, NewFinder
<1>2. finders \in Seq(Directory) /\ CacheInv
  BY DEF IInv, CacheInv
<1>3. /\ finders' \in Seq(Directory)
      /\ Len(finders') \in Nat /\ Len(finders) \in Nat /\ Len(finders') >= Len(finders)
      /\ \A i \in 1 .. Len(finders) : finders'[i] = finders[i]
  BY <1>1, <1>2
<1>4. \/ f = 0 /\ Len(finders') = Len(finders)
      \/ /\ f = Len(finders') /\ Len(finders') = Len(finders) + 1
         /\ finders'[f] = FileFinder(Canonical[key])
  BY <1>1, <1>2
<1>5. f \in 0 .. Len(finders')
  BY <1>3, <1>4
<1>6. /\ DOMAIN path_importer_cache' = DOMAIN path_importer_cache \cup {key}
      /\ path_importer_cache'[key] = f
      /\ \A k \in DOMAIN path_importer_cache : path_importer_cache'[k] = path_importer_cache[k]
      /\ \A k \in DOMAIN path_importer_cache : path_importer_cache[k] \in 0 .. Len(finders)
  BY <1>2 DEF CacheInv
<1>7. path_importer_cache' \in [DOMAIN path_importer_cache' -> 0 .. Len(finders')]
  BY <1>3, <1>5, <1>6
<1>8. DOMAIN path_importer_cache' \subseteq DOMAIN Canonical
  BY <1>2, <1>6 DEF CacheInv
<1>9. \A k \in DOMAIN path_importer_cache' :
        path_importer_cache'[k] # 0 => finders'[path_importer_cache'[k]].base = Canonical[k]
  <2>1. f # 0 => finders'[f].base = Canonical[key]
    BY <1>4 DEF FileFinder
  <2>2. QED
    BY <1>2, <1>3, <1>6, <2>1 DEF CacheInv
<1>10. \A g \in 1 .. Len(finders') : \E k \in DOMAIN path_importer_cache' : path_importer_cache'[k] = g
  BY <1>2, <1>3, <1>4, <1>6 DEF CacheInv
<1>11. \A k, l \in DOMAIN path_importer_cache' :
         path_importer_cache'[k] = path_importer_cache'[l] /\ path_importer_cache'[k] # 0 => k = l
  BY <1>2, <1>3, <1>4, <1>6 DEF CacheInv
<1>12. ASSUME NEW j, sys_path' = sys_path, PassedAt(j) PROVE PassedAt(j)'
  <2> DEFINE k == Key(sys_path[j])
             g == path_importer_cache[k]
  <2>1. k \in DOMAIN path_importer_cache /\ (g = 0 \/ finders[g].dirty)
    BY <1>12 DEF PassedAt
  <2>2. /\ k \in DOMAIN path_importer_cache' /\ path_importer_cache'[k] = g
        /\ g = 0 \/ finders'[g] = finders[g]
    BY <1>3, <1>6, <2>1
  <2>3. g = 0 \/ finders'[g].dirty
    BY <2>1, <2>2, Zenon
  <2>4. Key(sys_path'[j]) = k
    BY <1>12
  <2>5. QED
    BY <2>2, <2>3, <2>4 DEF PassedAt
<1>13. QED
  BY <1>3, <1>7, <1>8, <1>9, <1>10, <1>11, <1>12 DEF CacheInv

\* The entry at hand: its finder is known, or the hook is asked, or it is passed.
LEMMA TryEntryInv ==
  ASSUME IInv, TryEntry
  PROVE  IInv'
<1> DEFINE entry == sys_path[find.ix]
           key == Key(entry)
<1> PICK ix : ix = find.ix
  OBVIOUS
<1>0. find.phase = "entry" /\ find.ix \in DOMAIN sys_path
  BY Zenon DEF TryEntry, Searching
<1>1. find.phase = "entry" /\ find.ix \in DOMAIN sys_path /\ find # Idle
  BY <1>0 DEF Idle
<1>2. key \in DOMAIN Canonical /\ Canonical[key] \in Dir
  BY <1>1, KeyKnown
<1>3. host \in {"bootstrap", "driver"} /\ CacheInv
  BY DEF IInv
<1>4. host = "bootstrap" => \A j \in 1 .. (find.ix - 1) : PassedAt(j)
  BY <1>1 DEF IInv, FindInv, Passed
<1>5. CASE entry = "" /\ ~fs[Canonical[Cwd]].is_dir
  <2>1. EndsWith("error") /\ UNCHANGED search
    BY <1>5 DEF TryEntry
  <2>2. QED
    BY <1>3, <2>1, SameCache, EndedInv DEF EndsWith, Ends
<1>6. CASE ~(entry = "" /\ ~fs[Canonical[Cwd]].is_dir)
  <2>1. /\ UNCHANGED static
        /\ \/ host = "bootstrap" /\ key \in DOMAIN path_importer_cache /\ Cached(key) /\ UNCHANGED search
           \/ host = "bootstrap" /\ key \notin DOMAIN path_importer_cache /\ Hook(key)
           \/ /\ host = "driver" /\ UNCHANGED search
              /\ UseFinder(0, Canonical[key]) \/ NextEntry
    BY <1>3, <1>6 DEF TryEntry
  <2>2. CASE host = "bootstrap" /\ key \in DOMAIN path_importer_cache /\ Cached(key) /\ UNCHANGED search
    <3>1. CacheInv' /\ path_importer_cache' = path_importer_cache /\ finders' = finders /\ sys_path' = sys_path
      BY <1>3, <2>1, <2>2, SameCache DEF search, static
    <3>2. \A j \in 1 .. (find.ix - 1) : PassedAt(j)'
      BY <1>4, <2>2, <3>1 DEF PassedAt
    <3>3. CASE path_importer_cache[key] = 0
      <4>1. NextEntry
        BY <2>2, <3>3 DEF Cached
      <4>2. PassedAt(ix)'
        BY <2>2, <3>1, <3>3 DEF PassedAt
      <4>3. QED
        BY <1>1, <2>1, <3>1, <3>2, <4>1, <4>2, NextEntryInv
    <3>4. CASE path_importer_cache[key] # 0
      <4>1. UseFinder(path_importer_cache[key], finders[path_importer_cache[key]].base)
        BY <2>2, <3>4 DEF Cached
      <4>2. path_importer_cache[key] \in 1 .. Len(finders')
        BY <1>3, <2>2, <3>1, <3>4 DEF CacheInv
      <4>3. QED
        BY <1>1, <2>1, <2>2, <3>1, <3>2, <4>1, <4>2, UseFinderInv
    <3>5. QED
      BY <3>3, <3>4
  <2>3. CASE host = "bootstrap" /\ key \notin DOMAIN path_importer_cache /\ Hook(key)
    <3>1. CASE fs[Canonical[key]].is_dir
      <4>1. /\ finders' = Append(finders, FileFinder(Canonical[key]))
            /\ path_importer_cache' = [k \in DOMAIN path_importer_cache \cup {key} |->
                                         IF k = key THEN Len(finders') ELSE path_importer_cache[k]]
            /\ UseFinder(Len(finders'), Canonical[key])
        BY <2>3, <3>1 DEF Hook
      <4>2. CacheInv' /\ (\A j : sys_path' = sys_path /\ PassedAt(j) => PassedAt(j)')
        BY <1>2, <2>3, <4>1, KeptInv
      <4>3. sys_path' = sys_path
        BY <2>1 DEF static
      <4>4. Len(finders') \in 1 .. Len(finders')
        BY <1>3, <1>2, <4>1, NewFinder DEF CacheInv
      <4>5. /\ key \in DOMAIN path_importer_cache'
            /\ path_importer_cache'[key] = Len(finders')
        BY <4>1
      <4>6. finders'[Len(finders')].base = Canonical[key]
        <5>1. finders'[Len(finders')] = FileFinder(Canonical[key])
          BY <1>2, <1>3, <4>1, NewFinder DEF CacheInv
        <5>2. QED
          BY <5>1 DEF FileFinder
      <4>7. QED
        BY <1>1, <1>4, <2>1, <2>3, <4>1, <4>2, <4>3, <4>4, <4>5, <4>6, UseFinderInv
    <3>2. CASE ~fs[Canonical[key]].is_dir
      <4>1. /\ finders' = finders
            /\ path_importer_cache' = [k \in DOMAIN path_importer_cache \cup {key} |->
                                         IF k = key THEN 0 ELSE path_importer_cache[k]]
            /\ NextEntry
        BY <2>3, <3>2 DEF Hook
      <4>2. CacheInv' /\ (\A j : sys_path' = sys_path /\ PassedAt(j) => PassedAt(j)')
        BY <1>2, <2>3, <4>1, KeptInv
      <4>3. sys_path' = sys_path /\ sys_path \in Seq(Entry)
        BY <2>1, PathsAssumption DEF static, IInv
      <4>4. PassedAt(ix)'
        <5>1. key \in DOMAIN path_importer_cache' /\ path_importer_cache'[key] = 0
          BY <4>1
        <5>2. QED
          BY <4>3, <5>1 DEF PassedAt
      <4>5. \A j \in 1 .. (ix - 1) : PassedAt(j)'
        BY <1>4, <2>3, <4>2, <4>3
      <4>6. QED
        BY <1>1, <2>1, <4>1, <4>2, <4>4, <4>5, NextEntryInv
    <3>3. QED
      BY <3>1, <3>2
  <2>4. CASE host = "driver" /\ UNCHANGED search /\ (UseFinder(0, Canonical[key]) \/ NextEntry)
    <3>1. CacheInv' /\ host # "bootstrap"
      BY <1>3, <2>4, SameCache
    <3>2. QED
      BY <1>1, <2>1, <2>4, <3>1, NextEntryInv, UseFinderInv
  <2>5. QED
    BY <2>1, <2>2, <2>3, <2>4
<1>7. QED
  BY <1>5, <1>6

\* A finder is asked: it ends the search, unless it could not list its directory.
LEMMA AskInv ==
  ASSUME IInv, AskCached \/ AskDirty \/ AskDriver
  PROVE  IInv'
<1>1. ASSUME NEW listed, Answer(listed) PROVE find' = Idle /\ UNCHANGED static
  BY <1>1 DEF Answer, Ends, EndsWith
<1>2. CASE AskCached \/ AskDriver
  <2>1. find' = Idle /\ UNCHANGED static /\ UNCHANGED search
    BY <1>1, <1>2 DEF AskCached, AskDriver, Ends, EndsWith
  <2>2. QED
    BY <2>1, SameCache, EndedInv DEF IInv
<1>3. CASE AskDirty
  <2> PICK ix : ix = find.ix
    OBVIOUS
  <2>1. /\ find.phase = "finder" /\ host = "bootstrap" /\ path_importer_cache' = path_importer_cache
        /\ find # Idle
    BY <1>3 DEF AskDirty, Searching, Idle
  <2>2. /\ find.ix \in 1 .. Len(sys_path) /\ sys_path \in Seq(Entry) /\ find.finder \in 1 .. Len(finders)
        /\ find.base = finders[find.finder].base
        /\ Passed(find.ix)
        /\ Key(sys_path[find.ix]) \in DOMAIN path_importer_cache
        /\ find.finder = path_importer_cache[Key(sys_path[find.ix])]
    BY <2>1, PathsAssumption DEF IInv, FindInv
  <2>3. CASE fs[find.base].is_dir
    <3>1. FillCache(find.finder, Listing(find.base)) /\ find' = Idle /\ UNCHANGED static
      BY <1>1, <1>3, <2>3 DEF AskDirty
    <3>2. finders \in Seq(Directory) /\ CacheInv
      BY DEF IInv, CacheInv
    <3>3. PICK f, listed : f = find.finder /\ listed = Listing(find.base)
      OBVIOUS
    <3>4. f \in 1 .. Len(finders) /\ finders[f] \in Directory /\ find.base \in Dir
      <4>1. f \in 1 .. Len(finders) /\ finders[f] \in Directory /\ find.base = finders[f].base
        BY <2>2, <3>2, <3>3
      <4>2. QED
        BY <4>1 DEF Directory
    <3>5. listed \in [files : SUBSET Name, twins : SUBSET Name]
      BY <3>3, <3>4 DEF IInv, Listing
    <3>6. finders' = [finders EXCEPT ![f] = [finders[f] EXCEPT !.cache = listed, !.dirty = FALSE]]
      BY <3>1, <3>2, <3>3, <3>4 DEF FillCache
    <3>7. PICK g : g = [finders[f] EXCEPT !.cache = listed, !.dirty = FALSE]
      OBVIOUS
    <3>8. g \in Directory /\ g.base = finders[f].base
      BY <3>4, <3>5, <3>7 DEF Directory
    <3>9. /\ finders' \in Seq(Directory) /\ Len(finders') = Len(finders)
          /\ \A i \in 1 .. Len(finders) : finders'[i].base = finders[i].base
      BY <3>2, <3>4, <3>6, <3>7, <3>8
    <3>10. CacheInv'
      BY <2>1, <3>2, <3>9 DEF CacheInv
    <3>11. QED
      BY <3>1, <3>10, EndedInv
  <2>4. CASE ~fs[find.base].is_dir
    <3>1. NextEntry /\ UNCHANGED finders /\ UNCHANGED static
      BY <1>3, <2>4 DEF AskDirty
    <3>2. CacheInv' /\ sys_path' = sys_path
      BY <2>1, <3>1, SameCache DEF search, IInv, static
    <3>3. \A j \in 1 .. (find.ix - 1) : PassedAt(j)'
      BY <2>1, <2>2, <3>1, <3>2 DEF Passed, PassedAt
    <3>4. PassedAt(ix)'
      <4>1. finders[find.finder].dirty
        BY <1>3 DEF AskDirty
      <4>2. QED
        BY <2>1, <2>2, <3>1, <3>2, <4>1 DEF PassedAt
    <3>5. ix \in DOMAIN sys_path
      BY <2>2
    <3>6. QED
      BY <2>1, <3>1, <3>2, <3>3, <3>4, <3>5, NextEntryInv
  <2>5. QED
    BY <2>3, <2>4
<1>4. QED
  BY <1>2, <1>3

\* Every step preserves the invariant.
LEMMA StepInv == IInv /\ [Next]_vars => IInv'
<1> SUFFICES ASSUME IInv, [Next]_vars PROVE IInv'
  OBVIOUS
<1>1. ASSUME NEW how, Ends(how), UNCHANGED search PROVE IInv'
  BY <1>1, SameCache, EndedInv DEF Ends, IInv
<1>2. CASE SetUp
  <2>1. UNCHANGED <<host, sys_path, fs, path_importer_cache, finders, find>>
    BY <1>2 DEF SetUp, static, search
  <2>2. QED
    BY <2>1 DEF IInv, CacheInv, FindInv, Passed, PassedAt
<1>3. ASSUME NEW path \in Paths, ImportBootstrap(path) PROVE IInv'
  BY <1>1, <1>3, StartedInv DEF ImportBootstrap, EndsWith
<1>4. ASSUME NEW path \in Paths, NEW relative \in BOOLEAN, ImportDriver(path, relative) PROVE IInv'
  <2>1. PICK outcome : EndsWith(outcome) /\ UNCHANGED search
    BY <1>4 DEF ImportDriver
  <2>2. QED
    BY <1>1, <2>1 DEF EndsWith
<1>5. ASSUME NEW n \in Name, FindSpec(n) PROVE IInv'
  BY <1>5, StartedInv DEF FindSpec
<1>6. CASE Exhausted
  BY <1>1, <1>6 DEF Exhausted, EndsWith
<1>7. CASE Step
  BY <1>6, <1>7, TryEntryInv, AskInv DEF Step
<1>8. ASSUME NEW d \in Dir, NEW n \in Name, ChangeFile(d, n) \/ ChangeTwin(d, n) \/ ChangeDir(d)
      PROVE  IInv'
  <2>1. fs[d] \in [is_dir : BOOLEAN, files : SUBSET Name, twins : SUBSET Name]
    BY DEF IInv
  <2>2. /\ Toggle(fs[d].files, n) \in SUBSET Name
        /\ Toggle(fs[d].twins, n) \in SUBSET Name
    BY <2>1 DEF Toggle
  <2>3. PICK with \in [is_dir : BOOLEAN, files : SUBSET Name, twins : SUBSET Name] : Change(d, with)
    BY <1>8, <2>1, <2>2 DEF ChangeFile, ChangeTwin, ChangeDir
  <2>4. QED
    BY <2>3, ChangedInv
<1>9. ASSUME NEW d \in Dir, ChangeDir(d) PROVE IInv'
  <2>1. fs[d] \in [is_dir : BOOLEAN, files : SUBSET Name, twins : SUBSET Name]
    BY DEF IInv
  <2>2. [fs[d] EXCEPT !.is_dir = ~@] \in [is_dir : BOOLEAN, files : SUBSET Name, twins : SUBSET Name]
    BY <2>1
  <2>3. QED
    BY <1>9, <2>2, ChangedInv DEF ChangeDir
<1>10. CASE HookLosesDir
  <2>1. find' = Idle /\ UNCHANGED <<host, sys_path>> /\ UNCHANGED search
    BY <1>10 DEF HookLosesDir
  <2>2. fs' \in [Dir -> [is_dir : BOOLEAN, files : SUBSET Name, twins : SUBSET Name]]
    <3>1. PICK d : fs' = [fs EXCEPT ![d].is_dir = FALSE]
      BY <1>10 DEF HookLosesDir
    <3>2. fs \in [Dir -> [is_dir : BOOLEAN, files : SUBSET Name, twins : SUBSET Name]]
      BY DEF IInv
    <3>3. QED
      BY <3>1, <3>2
  <2>3. CacheInv'
    BY <2>1, <2>2, SameCache DEF IInv
  <2>4. QED
    BY <2>1, <2>2, <2>3 DEF IInv, FindInv
<1>11. CASE UNCHANGED vars
  BY <1>11 DEF vars, IInv, CacheInv, FindInv, Passed, PassedAt
<1>12. QED
  BY <1>2, <1>3, <1>4, <1>5, <1>7, <1>8, <1>9, <1>10, <1>11 DEF Next

-----------------------------------------------------------------------------
(* The theorems.                                                           *)

\* The finders and the paths that have one correspond one to one: asking again for a path,
\* the empty one included, never makes a second finder.
THEOREM AlwaysOneFinderPerPath == Spec => []OneFinderPerPath
<1>1. IInv => OneFinderPerPath
  <2> SUFFICES ASSUME IInv PROVE OneFinderPerPath
    OBVIOUS
  <2>1. CacheInv
    BY DEF IInv
  <2>2. ASSUME NEW f \in DOMAIN finders
        PROVE  Cardinality({k \in DOMAIN path_importer_cache : path_importer_cache[k] = f}) = 1
    <3>1. f \in 1 .. Len(finders) /\ f # 0
      BY <2>1 DEF CacheInv
    <3>2. PICK k \in DOMAIN path_importer_cache : path_importer_cache[k] = f
      BY <2>1, <3>1 DEF CacheInv
    <3>3. {l \in DOMAIN path_importer_cache : path_importer_cache[l] = f} = {k}
      BY <2>1, <3>1, <3>2 DEF CacheInv
    <3>4. QED
      BY <3>3, FS_Singleton
  <2>3. QED
    BY <2>1, <2>2 DEF CacheInv, OneFinderPerPath
<1>2. QED
  BY <1>1, InitInv, StepInv, PTL DEF Spec

\* A spec that the bootstrap finds is of the entry of sys.path that it names, whose finder
\* has listed the directory of that entry, with the module in it; and no entry before it
\* had a listing, however the file system changed while it searched.
THEOREM AlwaysFromFirstListed == Spec => FromFirstListed
<1> DEFINE First == last' # last /\ last'.outcome = "spec" /\ host = "bootstrap" =>
                      /\ Listed(last.ix)'
                      /\ (last.name \in finders[FinderAt(last.ix)].cache.files)'
                      /\ last'.dir = Canonical[Key(sys_path[last'.ix])]
                      /\ \A j \in 1 .. (last'.ix - 1) : Asked(j) /\ ~Listed(j)
<1>1. IInv /\ [Next]_vars => [First]_vars
  <2> SUFFICES ASSUME IInv, Next, last' # last, last'.outcome = "spec", host = "bootstrap"
               PROVE  First
    BY DEF First
  <2> HIDE DEF First
  <2>1. ASSUME NEW outcome, outcome # "spec", EndsWith(outcome) PROVE FALSE
    BY <2>1 DEF EndsWith, Ends
  <2>2. ~(\E path \in Paths : ImportBootstrap(path) \/ ImportDriver(path, FALSE) \/ ImportDriver(path, TRUE))
    BY <2>1 DEF ImportBootstrap, SearchFor, ImportDriver
  <2>3. ~SetUp /\ (\A n \in Name : ~FindSpec(n)) /\ ~Exhausted /\ ~AskDriver /\ ~HookLosesDir
    BY <2>1 DEF SetUp, FindSpec, SearchFor, Exhausted, AskDriver, HookLosesDir
  <2>4. ~TryEntry
    BY <2>1 DEF TryEntry
  <2>5. \A d \in Dir : ~ChangeDir(d) /\ \A n \in Name : ~ChangeFile(d, n) /\ ~ChangeTwin(d, n)
    BY DEF ChangeDir, ChangeFile, ChangeTwin, Change
  <2>6. AskCached \/ AskDirty
    BY <2>2, <2>3, <2>4, <2>5 DEF Next, Step
  <2>7. ASSUME NEW listed, Answer(listed)
        PROVE  find.name \in listed.files /\ Ends(Spec_)
    BY <2>1, <2>7 DEF Answer
  <2>8. find.phase = "finder" /\ find # Idle
    BY <2>6 DEF AskCached, AskDirty, Searching, Idle
  <2>9. /\ Passed(find.ix) /\ find.ix \in 1 .. Len(sys_path)
        /\ Key(sys_path[find.ix]) \in DOMAIN path_importer_cache
        /\ find.finder = path_importer_cache[Key(sys_path[find.ix])]
        /\ find.finder \in 1 .. Len(finders)
        /\ find.base = finders[find.finder].base
    BY <2>8 DEF IInv, FindInv
  <2>10. find.base = Canonical[Key(sys_path[find.ix])] /\ find.finder # 0 /\ finders \in Seq(Directory)
    BY <2>9 DEF IInv, CacheInv
  <2>11. /\ path_importer_cache' = path_importer_cache
         /\ ~finders'[find.finder].dirty
         /\ find.name \in finders'[find.finder].cache.files
         /\ Ends(Spec_)
    <3>1. CASE AskCached
      BY <2>7, <3>1 DEF AskCached, search
    <3>2. CASE AskDirty
      <4>1. fs[find.base].is_dir
        BY <2>1, <3>2 DEF AskDirty
      <4>2. /\ FillCache(find.finder, Listing(find.base)) /\ Answer(Listing(find.base))
            /\ path_importer_cache' = path_importer_cache
        BY <3>2, <4>1 DEF AskDirty
      <4>3. PICK f, listed : f = find.finder /\ listed = Listing(find.base)
        OBVIOUS
      <4>4. f \in DOMAIN finders /\ finders[f] \in Directory
        BY <2>9, <2>10, <4>3
      <4>5. finders' = [finders EXCEPT ![f] = [finders[f] EXCEPT !.cache = listed, !.dirty = FALSE]]
        BY <2>10, <4>2, <4>3, <4>4 DEF FillCache
      <4>6. ~finders'[f].dirty /\ finders'[f].cache = listed
        BY <4>4, <4>5 DEF Directory
      <4>7. QED
        BY <2>7, <4>2, <4>3, <4>6
    <3>3. QED
      BY <2>6, <3>1, <3>2
  <2>12. /\ last'.ix = find.ix /\ last'.name = find.name /\ last'.dir = find.base
         /\ sys_path' = sys_path
    BY <2>11 DEF Ends, Spec_, static
  <2>13. FinderAt(last.ix)' = find.finder /\ Asked(last.ix)'
    BY <2>9, <2>11, <2>12 DEF FinderAt, Asked, Key
  <2>14. Listed(last.ix)' /\ (last.name \in finders[FinderAt(last.ix)].cache.files)'
    BY <2>10, <2>11, <2>12, <2>13 DEF Listed
  <2>15. \A j \in 1 .. (last'.ix - 1) : Asked(j) /\ ~Listed(j)
    BY <2>9, <2>12, PassedUnlisted DEF Passed
  <2>16. QED
    BY <2>10, <2>12, <2>14, <2>15 DEF First
<1>2. QED
  BY <1>1, InitInv, StepInv, PTL DEF Spec, FromFirstListed
=============================================================================
