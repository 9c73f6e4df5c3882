------------------------------- MODULE Builds -------------------------------
(***************************************************************************)
(* One build of lamc (transpile in compiler/lammergeier.py) over a project *)
(* whose files change under it: the walk over the imports, the check of    *)
(* each imported module, the translation of each library by a pool of      *)
(* workers, the order of the modules' top-level statements; and what a     *)
(* build leaves for the next (compiler/cache.py): a marker for each module *)
(* that checked clean, the Go text of each library.  A build may die.      *)
(*                                                                         *)
(* A source is what it imports, in order, and the version of what it       *)
(* declares.  A module checks clean if every module it reaches declares    *)
(* the version that it was written against, its own.                       *)
(***************************************************************************)
EXTENDS Naturals, Sequences

CONSTANTS
  Contents,   \* the sources that each library may have: module -> set of [imports, version]
  MainImports, \* what the main file imports, in order
  Extends,    \* the sets of libraries whose class the main file may subclass
  MaxEdits,   \* bound of the model
  MaxBuilds,  \* bound of the model
  MaxVisits   \* bound of the model: steps of the walk that orders the modules

VARIABLES
  files,     \* the libraries on disk
  subs,      \* the libraries whose class the main file subclasses
  markers,   \* the keys of clean checks
  entries,   \* the library cache: key -> Go text
  build,     \* the build that runs
  edits, builds

buildVars == <<files, subs, markers, entries, build, edits, builds>>

Modules == DOMAIN Contents

ASSUME ContentsAssumption ==
  /\ MainImports \in Seq(Modules)
  /\ \A m \in Modules : \A c \in Contents[m] : c.imports \in Seq(Modules)
  /\ MaxVisits \in Nat

NoBuild == [phase |-> "none"]

ImportsOf(src, m) == {src[m].imports[i] : i \in DOMAIN src[m].imports}

\* m and the modules that it reaches
Closure(src, m) ==
  {n \in DOMAIN src : \A S \in SUBSET DOMAIN src :
                       m \in S /\ (\A k \in S : ImportsOf(src, k) \subseteq S) => n \in S}

Put(f, key, value) == [k \in DOMAIN f \cup {key} |-> IF k = key THEN value ELSE f[k]]

(* ------------------------------ the imports ----------------------------- *)

Start ==
  /\ build = NoBuild /\ builds < MaxBuilds
  /\ builds' = builds + 1
  /\ build' = [phase |-> "read", work |-> MainImports, subs |-> subs, src |-> <<>>]
  /\ UNCHANGED <<files, subs, markers, entries, edits>>

\* The last entry of the worklist is next; its file is read once.
ReadModule ==
  /\ build.phase = "read" /\ build.work # <<>>
  /\ LET m == build.work[Len(build.work)]
         rest == SubSeq(build.work, 1, Len(build.work) - 1)
     IN build' = IF m \in DOMAIN build.src THEN [build EXCEPT !.work = rest]
                 ELSE [build EXCEPT !.work = rest \o files[m].imports,
                                    !.src = Put(@, m, files[m])]
  /\ UNCHANGED <<files, subs, markers, entries, edits, builds>>

Resolved ==
  /\ build.phase = "read" /\ build.work = <<>>
  /\ build' = [phase |-> "check", src |-> build.src, subs |-> build.subs,
               todo |-> DOMAIN build.src, skipped |-> {}, bad |-> FALSE]
  /\ UNCHANGED <<files, subs, markers, entries, edits, builds>>

(* ------------------------------- the checks ----------------------------- *)

Clean(src, m) == \A n \in Closure(src, m) : src[n].version = src[m].version

\* Mutation: only what the module itself imports counts.
CheckKeyDirect(src, m) == <<m, [n \in {m} \cup ImportsOf(src, m) |-> src[n]]>>

\* _imported_check_cache_extra, with the content that mark_clean_check adds
CheckKey(src, m) == <<m, [n \in Closure(src, m) |-> src[n]]>>

CheckModule(m) ==
  /\ build.phase = "check" /\ m \in build.todo
  /\ LET key == CheckKey(build.src, m)
         left == [build EXCEPT !.todo = @ \ {m}]
     IN \/ /\ key \in markers
           /\ build' = [left EXCEPT !.skipped = @ \cup {m}]
           /\ UNCHANGED markers
        \/ /\ key \notin markers /\ Clean(build.src, m)
           /\ build' = left
           /\ markers' = markers \cup {key}
        \/ /\ key \notin markers /\ ~Clean(build.src, m)
           /\ build' = [left EXCEPT !.bad = TRUE]
           /\ UNCHANGED markers
  /\ UNCHANGED <<files, subs, entries, edits, builds>>

\* Any error ends the build.
Checked ==
  /\ build.phase = "check" /\ build.todo = {}
  /\ build' = IF build.bad THEN NoBuild
              ELSE [phase |-> "emit", src |-> build.src, subs |-> build.subs,
                    text |-> <<>>, read |-> <<>>]
  /\ UNCHANGED <<files, subs, markers, entries, edits, builds>>

(* ---------------------------- the libraries ----------------------------- *)

\* What the other libraries contribute to a library's text: _cross_lib_extra
CrossTables == [n \in DOMAIN build.src |-> build.src[n].version]

\* The Go text of m: its source, the tables, the wrappers for classes of its own that main
\* subclasses, and the dispatch at calls on such classes of other libraries.
Text(m, source) ==
  [source |-> source, tables |-> CrossTables, wraps |-> m \in build.subs,
   calls |-> build.subs \cap {source.imports[i] : i \in DOMAIN source.imports}]

\* Mutation: the subclasses that the main file declares are left out of the key.
TextKeyPlain(m, source) == <<source, CrossTables>>

\* Only its own classes count.
HierarchyKey(m) == m \in build.subs

\* cache_key with its extra
TextKey(m, source) == <<source, CrossTables, HierarchyKey(m)>>

\* A worker reads the file again, and takes the text from the cache or puts it there.
EmitLibrary(m) ==
  /\ build.phase = "emit" /\ m \in DOMAIN build.src \ DOMAIN build.text
  /\ LET key == TextKey(m, files[m])
         text == IF key \in DOMAIN entries THEN entries[key] ELSE Text(m, files[m])
     IN /\ build' = [build EXCEPT !.text = Put(@, m, text), !.read = Put(@, m, files[m])]
        /\ entries' = Put(entries, key, text)
  /\ UNCHANGED <<files, subs, markers, edits, builds>>

\* What is still to be done of the walk along the imports: visit a module, or leave one whose
\* imports were visited
Visits(imports) == [i \in DOMAIN imports |-> [mod |-> imports[i], leave |-> FALSE]]
StartWalk == [todo |-> Visits(MainImports), visited |-> {}, order |-> <<>>]

\* Mutation: a module comes before what it imports.
VisitEarly(src, w) ==
  LET m == Head(w.todo).mod
      rest == [w EXCEPT !.todo = Tail(@)]
  IN IF m \in w.visited THEN rest
     ELSE [rest EXCEPT !.visited = @ \cup {m}, !.order = Append(@, m), !.todo = Visits(src[m].imports) \o @]

\* visit: depth first, each module once, after what it imports
VisitNext(src, w) ==
  LET m == Head(w.todo).mod
      rest == [w EXCEPT !.todo = Tail(@)]
  IN IF Head(w.todo).leave THEN [rest EXCEPT !.order = Append(@, m)]
     ELSE IF m \in w.visited THEN rest
     ELSE [rest EXCEPT !.visited = @ \cup {m},
                       !.todo = Visits(src[m].imports) \o <<[mod |-> m, leave |-> TRUE]>> \o @]

\* _module_init_calls
InitWalk(src) ==
  LET walk[n \in 0..MaxVisits] ==
        IF n = 0 THEN StartWalk
        ELSE LET w == walk[n - 1] IN IF w.todo = <<>> THEN w ELSE VisitNext(src, w)
  IN walk[MaxVisits]

Link ==
  /\ build.phase = "emit" /\ DOMAIN build.text = DOMAIN build.src
  /\ LET w == InitWalk(build.src) IN
       /\ w.todo = <<>>
       /\ build' = [phase |-> "linked", src |-> build.src, order |-> w.order]
  /\ UNCHANGED <<files, subs, markers, entries, edits, builds>>

Finish ==
  /\ build.phase = "linked"
  /\ build' = NoBuild
  /\ UNCHANGED <<files, subs, markers, entries, edits, builds>>

Abort ==
  /\ build # NoBuild
  /\ build' = NoBuild
  /\ UNCHANGED <<files, subs, markers, entries, edits, builds>>

(* ------------------------------- the editor ----------------------------- *)

Edit(m, c) ==
  /\ edits < MaxEdits /\ edits' = edits + 1
  /\ c # files[m]
  /\ files' = [files EXCEPT ![m] = c]
  /\ UNCHANGED <<subs, markers, entries, build, builds>>

EditMain(S) ==
  /\ edits < MaxEdits /\ edits' = edits + 1
  /\ subs' = S /\ S # subs
  /\ UNCHANGED <<files, markers, entries, build, builds>>

BuildInit ==
  /\ files \in [Modules -> UNION {Contents[m] : m \in Modules}]
  /\ \A m \in Modules : files[m] \in Contents[m] /\ files[m].version = 1
  /\ subs = {} /\ markers = {} /\ entries = <<>>
  /\ build = NoBuild
  /\ edits = 0 /\ builds = 0

BuildNext ==
  \/ Start \/ ReadModule \/ Resolved \/ Checked \/ Link \/ Finish \/ Abort
  \/ \E m \in Modules : CheckModule(m) \/ EmitLibrary(m) \/ (\E c \in Contents[m] : Edit(m, c))
  \/ \E S \in Extends : EditMain(S)

BuildSpec == BuildInit /\ [][BuildNext]_buildVars

(* ------------------------------ properties ------------------------------ *)

\* A module whose check is skipped would check clean, whatever was edited or died since the
\* marker was made: the modules it only reaches through others count too.
SkippedAreClean == build.phase = "check" => \A m \in build.skipped : Clean(build.src, m)

\* Whether it comes from the cache or not, the Go text of a library is what its file would be
\* translated to now, among the other modules of this build.  Left aside are calls on classes
\* of other libraries, which a main file that begins to subclass them does not refresh.
TextsAreFresh ==
  build.phase = "emit" =>
    \A m \in DOMAIN build.text : LET fresh == Text(m, build.read[m]) IN
      [build.text[m] EXCEPT !.calls = fresh.calls] = fresh

\* Among the modules that m reaches there is no import cycle.
Acyclic(src, m) == \A k \in Closure(src, m) : \A d \in ImportsOf(src, k) : k \notin Closure(src, d)

\* Each module of the program is initialised once, after all the modules that it reaches, but
\* for one that reaches an import cycle.
ImportsInitFirst ==
  build.phase = "linked" =>
    /\ {build.order[i] : i \in DOMAIN build.order} = DOMAIN build.src
    /\ \A i, j \in DOMAIN build.order : i # j =>
         /\ build.order[i] # build.order[j]
         /\ build.order[i] \in Closure(build.src, build.order[j]) /\ Acyclic(build.src, build.order[j]) => i < j
=============================================================================
