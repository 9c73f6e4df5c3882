-------------------------- MODULE ToolchainProofs ---------------------------
(***************************************************************************)
(* The safety of the smaller parts of the toolchain, one after the other:  *)
(* the documents of the language server, builds over their caches, the     *)
(* names of definitions, the exits from try and do, the narrowing of a     *)
(* local, the views of an object.  They share no name.                     *)
(***************************************************************************)
EXTENDS Documents, Builds, Namespaces, TryLowering, Narrowing, Dispatch, FiniteSetTheorems,
        WellFoundedInduction, TLAPS

(* A set of numbers that is not empty has a least one: what all induction  *)
(* here rests on.                                                          *)
LEMMA LeastExists ==
  ASSUME NEW S, S \subseteq Nat, S # {}
  PROVE  \E m \in S : \A i \in S : m <= i
<1>1. \A x, y \in Nat : <<x, y>> \in OpToRel(<, Nat) <=> x < y
  BY DEF OpToRel
<1>2. PICK m \in S : \A i \in S : <<i, m>> \notin OpToRel(<, Nat)
  BY NatLessThanWellFounded, WFMin
<1>3. \A i \in S : ~(i < m)
  BY <1>1, <1>2
<1>4. QED BY <1>3

(* --------------------------- the language server ------------------------- *)

(* What is indexed of an open document is its text, but for those that a   *)
(* scan replaced; what is indexed of any other file is what it says, but   *)
(* for those with a change to be reported.                                 *)
DocInv ==
  /\ onDisk \in [Paths -> Texts \cup {Absent}]
  /\ opened \in [Paths -> Texts \cup {Absent}]
  /\ indexed \in [Paths -> Texts \cup {Absent}]
  /\ \A p \in Paths : IsOpen(p) /\ p \notin overwritten => indexed[p] = opened[p]
  /\ \A p \in Paths : ~IsOpen(p) /\ p \notin unreported => indexed[p] \in {Absent, onDisk[p]}

LEMMA DocNextInv == DocInv /\ [DocNext]_docVars => DocInv'
<1> SUFFICES ASSUME DocInv, [DocNext]_docVars PROVE DocInv'
  OBVIOUS
<1>1. ASSUME NEW p \in Paths, NEW t \in Texts, NEW read \in Reads, Receive(p, t, read)
      PROVE  DocInv'
  BY <1>1, TextsAssumption DEF Receive, WithRead, Reads, FilesOn, DocInv, IsOpen
<1>2. ASSUME NEW p \in Paths, DidClose(p) PROVE DocInv'
  BY <1>2 DEF DidClose, DocInv, IsOpen
<1>3. ASSUME NEW S \in SUBSET unreported, NEW deleted \in SUBSET Paths,
             DidChangeWatchedFiles(S, deleted)
      PROVE  DocInv'
  <2>1. /\ UNCHANGED <<onDisk, opened, overwritten>> /\ unreported' = unreported \ S
        /\ indexed' = [p \in Paths |-> IF p \notin S \/ IsOpen(p) THEN indexed[p]
                                        ELSE IF p \in deleted THEN Absent ELSE onDisk[p]]
    BY <1>3 DEF DidChangeWatchedFiles
  <2>2. ASSUME NEW p \in Paths
        PROVE  /\ p \notin S \/ IsOpen(p) => indexed'[p] = indexed[p]
               /\ ~(p \notin S \/ IsOpen(p)) => indexed'[p] \in {Absent, onDisk[p]}
    <3>1. CASE p \notin S \/ IsOpen(p)
      BY <2>1, <3>1
    <3>2. CASE ~(p \notin S \/ IsOpen(p)) /\ p \in deleted
      BY <2>1, <3>2
    <3>3. CASE ~(p \notin S \/ IsOpen(p)) /\ p \notin deleted
      BY <2>1, <3>3
    <3>4. QED BY <3>1, <3>2, <3>3
  <2>3. \A p \in Paths : IsOpen(p)' <=> IsOpen(p)
    BY <2>1 DEF IsOpen
  <2>4. indexed' \in [Paths -> Texts \cup {Absent}]
    BY <2>1, <2>2 DEF DocInv
  <2>5. ASSUME NEW p \in Paths, IsOpen(p), p \notin overwritten PROVE indexed'[p] = opened[p]
    BY <2>2, <2>5 DEF DocInv
  <2>6. ASSUME NEW p \in Paths, ~IsOpen(p), p \notin unreported \ S
        PROVE  indexed'[p] \in {Absent, onDisk[p]}
    BY <2>2, <2>6 DEF DocInv
  <2>7. QED BY <2>1, <2>3, <2>4, <2>5, <2>6 DEF DocInv
<1>4. CASE Scan
  BY <1>4 DEF Scan, FilesOn, DocInv, IsOpen
<1>5. ASSUME NEW read \in Reads, Request(read) PROVE DocInv'
  BY <1>5 DEF Request, WithRead, Reads, FilesOn, DocInv, IsOpen
<1>6. ASSUME NEW p \in Paths, NEW t \in Texts \cup {Absent}, WriteFile(p, t) PROVE DocInv'
  BY <1>6 DEF WriteFile, DocInv, IsOpen
<1>7. CASE UNCHANGED docVars
  BY <1>7 DEF docVars, DocInv, IsOpen
<1>8. QED BY <1>1, <1>2, <1>3, <1>4, <1>5, <1>6, <1>7 DEF DocNext, DidOpen, DidChange

(* What a check finds of a module is what the editor shows of it, for any  *)
(* number of files and texts and in any order of messages and writes.      *)
THEOREM ServerSeesEditorHolds == DocSpec => []ServerSeesEditor
<1>1. DocInit => DocInv
  BY DEF DocInit, DocInv, IsOpen
<1>2. DocInv => ServerSeesEditor
  BY DEF DocInv, ServerSeesEditor, Found, IsOpen
<1>3. QED BY <1>1, <1>2, DocNextInv, PTL DEF DocSpec

(* --------------------------------- builds -------------------------------- *)

(* A marker is for a module among sources that all declare its version.    *)
IsMarker(key) ==
  /\ key[1] \in DOMAIN key[2]
  /\ \A n \in DOMAIN key[2] : key[2][n].version = key[2][key[1]].version

(* The build that checks has all its modules, and skipped only clean ones. *)
IsCheck(b) ==
  /\ b = [phase |-> "check", src |-> b.src, subs |-> b.subs, todo |-> b.todo,
          skipped |-> b.skipped, bad |-> b.bad]
  /\ b.todo \subseteq DOMAIN b.src
  /\ \A m \in b.skipped : Clean(b.src, m)

CheckInv ==
  /\ \A key \in markers : IsMarker(key)
  /\ build.phase = "check" => IsCheck(build)

LEMMA ReachesItself ==
  ASSUME NEW src, NEW m \in DOMAIN src PROVE m \in Closure(src, m)
BY DEF Closure

LEMMA MarkerIsClean ==
  ASSUME NEW src, NEW m \in DOMAIN src PROVE IsMarker(CheckKey(src, m)) <=> Clean(src, m)
<1>1. CheckKey(src, m)[1] = m /\ CheckKey(src, m)[2] = [n \in Closure(src, m) |-> src[n]]
  BY DEF CheckKey
<1>2. QED BY <1>1, ReachesItself DEF IsMarker, Clean

LEMMA CheckNextInv == CheckInv /\ [BuildNext]_buildVars => CheckInv'
<1> SUFFICES ASSUME CheckInv, [BuildNext]_buildVars PROVE CheckInv'
  OBVIOUS
<1>1. ASSUME UNCHANGED markers, build' = build \/ build'.phase # "check" PROVE CheckInv'
  BY <1>1 DEF CheckInv
<1>2. CASE Start
  BY <1>2, <1>1 DEF Start
<1>3. CASE ReadModule
  <2>1. build'.phase = build.phase
    BY <1>3 DEF ReadModule
  <2>2. QED BY <1>1, <1>3, <2>1 DEF ReadModule
<1>4. CASE Resolved
  BY <1>4 DEF Resolved, CheckInv, IsCheck
<1>5. ASSUME NEW m \in Modules, CheckModule(m) PROVE CheckInv'
  <2> DEFINE key == CheckKey(build.src, m)
             left == [build EXCEPT !.todo = @ \ {m}]
  <2>1. build.phase = "check" /\ IsCheck(build) /\ m \in DOMAIN build.src
    BY <1>5 DEF CheckModule, CheckInv, IsCheck
  <2>2. IsCheck(left) /\ left.src = build.src /\ left.skipped = build.skipped /\ left.phase = "check"
    BY <2>1 DEF IsCheck
  <2>3. CASE key \in markers /\ build' = [left EXCEPT !.skipped = @ \cup {m}] /\ UNCHANGED markers
    <3>1. Clean(build.src, m)
      BY <2>1, <2>3, MarkerIsClean DEF CheckInv
    <3>2. QED BY <2>2, <2>3, <3>1 DEF IsCheck, CheckInv
  <2>4. CASE Clean(build.src, m) /\ build' = left /\ markers' = markers \cup {key}
    <3>1. IsMarker(key)
      BY <2>1, <2>4, MarkerIsClean
    <3>2. QED BY <2>2, <2>4, <3>1 DEF CheckInv
  <2>5. CASE build' = [left EXCEPT !.bad = TRUE] /\ UNCHANGED markers
    BY <2>2, <2>5 DEF IsCheck, CheckInv
  <2>6. QED BY <1>5, <2>3, <2>4, <2>5 DEF CheckModule
<1>6. CASE Checked
  BY <1>6, <1>1 DEF Checked, NoBuild
<1>7. ASSUME NEW m \in Modules, EmitLibrary(m) PROVE CheckInv'
  <2>1. build'.phase = build.phase
    BY <1>7 DEF EmitLibrary
  <2>2. QED BY <1>1, <1>7, <2>1 DEF EmitLibrary
<1>8. CASE Link \/ Finish \/ Abort
  BY <1>8, <1>1 DEF Link, Finish, Abort, NoBuild
<1>9. ASSUME NEW m \in Modules, NEW c \in Contents[m], Edit(m, c) PROVE CheckInv'
  BY <1>9, <1>1 DEF Edit
<1>10. ASSUME NEW S \in Extends, EditMain(S) PROVE CheckInv'
  BY <1>10, <1>1 DEF EditMain
<1>11. CASE UNCHANGED buildVars
  BY <1>11, <1>1 DEF buildVars
<1>12. QED
  BY <1>2, <1>3, <1>4, <1>5, <1>6, <1>7, <1>8, <1>9, <1>10, <1>11 DEF BuildNext

(* A module whose check is skipped would check clean, for any sources and  *)
(* any number of edits and builds.                                         *)
THEOREM SkippedAreCleanHolds == BuildSpec => []SkippedAreClean
<1>1. BuildInit => CheckInv
  BY DEF BuildInit, CheckInv, NoBuild
<1>2. CheckInv => SkippedAreClean
  BY DEF CheckInv, IsCheck, SkippedAreClean
<1>3. QED BY <1>1, <1>2, CheckNextInv, PTL DEF BuildSpec

(* What the cache holds under a key is a text of the source, the tables    *)
(* and the wrappers that the key names; only its calls may be others.      *)
IsEntry(key, text) ==
  text = [source |-> key[1], tables |-> key[2], wraps |-> key[3], calls |-> text.calls]

IsEmit(b) ==
  /\ b = [phase |-> "emit", src |-> b.src, subs |-> b.subs, text |-> b.text, read |-> b.read]
  /\ DOMAIN b.text = DOMAIN b.read

TextInv ==
  /\ \A key \in DOMAIN entries : IsEntry(key, entries[key])
  /\ build.phase = "emit" =>
       /\ IsEmit(build)
       /\ \A m \in DOMAIN build.text : IsEntry(TextKey(m, build.read[m]), build.text[m])

LEMMA TextNextInv == CheckInv /\ TextInv /\ [BuildNext]_buildVars => TextInv'
<1> SUFFICES ASSUME CheckInv, TextInv, [BuildNext]_buildVars PROVE TextInv'
  OBVIOUS
<1>1. ASSUME UNCHANGED entries, build' = build \/ build'.phase # "emit" PROVE TextInv'
  BY <1>1 DEF TextInv, TextKey, CrossTables, HierarchyKey
<1>2. CASE Start
  BY <1>2, <1>1 DEF Start
<1>3. CASE ReadModule
  <2>1. build'.phase = build.phase
    BY <1>3 DEF ReadModule
  <2>2. QED BY <1>1, <1>3, <2>1 DEF ReadModule
<1>4. CASE Resolved
  BY <1>4, <1>1 DEF Resolved
<1>5. ASSUME NEW m \in Modules, CheckModule(m) PROVE TextInv'
  <2> DEFINE left == [build EXCEPT !.todo = @ \ {m}]
  <2>1. IsCheck(build) /\ build.phase = "check"
    BY <1>5 DEF CheckModule, CheckInv
  <2>2. left = [phase |-> "check", src |-> build.src, subs |-> build.subs,
                todo |-> build.todo \ {m}, skipped |-> build.skipped, bad |-> build.bad]
    BY <2>1 DEF IsCheck
  <2>3. /\ [left EXCEPT !.skipped = @ \cup {m}].phase # "emit"
        /\ [left EXCEPT !.bad = TRUE].phase # "emit" /\ left.phase # "emit"
    BY <2>2
  <2>4. build'.phase # "emit"
    BY <1>5, <2>3 DEF CheckModule
  <2>5. QED BY <1>1, <1>5, <2>4 DEF CheckModule
<1>6. CASE Checked
  BY <1>6 DEF Checked, NoBuild, TextInv, IsEmit
<1>7. ASSUME NEW m \in Modules, EmitLibrary(m) PROVE TextInv'
  <2> DEFINE key == TextKey(m, files[m])
             text == IF key \in DOMAIN entries THEN entries[key] ELSE Text(m, files[m])
  <2>1. /\ build.phase = "emit" /\ IsEmit(build)
        /\ build' = [build EXCEPT !.text = Put(@, m, text), !.read = Put(@, m, files[m])]
        /\ entries' = Put(entries, key, text)
    BY <1>7 DEF EmitLibrary, TextInv
  <2>2. IsEntry(key, Text(m, files[m]))
    BY DEF IsEntry, TextKey, Text, HierarchyKey
  <2>3. IsEntry(key, text)
    BY <2>2 DEF TextInv
  <2>4. \A k \in DOMAIN entries' : IsEntry(k, entries'[k])
    BY <2>1, <2>3 DEF Put, TextInv
  <2>5. /\ build'.src = build.src /\ build'.subs = build.subs
        /\ build'.text = Put(build.text, m, text) /\ build'.read = Put(build.read, m, files[m])
        /\ IsEmit(build')
    BY <2>1 DEF IsEmit, Put
  <2>6. ASSUME NEW k \in DOMAIN build'.text
        PROVE  IsEntry(TextKey(k, build.read[k])', build'.text[k])
    <3>1. CASE k = m
      BY <2>3, <2>5, <3>1 DEF Put, TextKey, CrossTables, HierarchyKey
    <3>2. CASE k # m
      BY <2>1, <2>5, <2>6, <3>2 DEF Put, TextKey, CrossTables, HierarchyKey, TextInv, IsEmit
    <3>3. QED BY <3>1, <3>2
  <2>7. QED BY <2>4, <2>5, <2>6 DEF TextInv
<1>8. CASE Link \/ Finish \/ Abort
  BY <1>8, <1>1 DEF Link, Finish, Abort, NoBuild
<1>9. ASSUME NEW m \in Modules, NEW c \in Contents[m], Edit(m, c) PROVE TextInv'
  BY <1>9, <1>1 DEF Edit
<1>10. ASSUME NEW S \in Extends, EditMain(S) PROVE TextInv'
  BY <1>10, <1>1 DEF EditMain
<1>11. CASE UNCHANGED buildVars
  BY <1>11, <1>1 DEF buildVars
<1>12. QED
  BY <1>2, <1>3, <1>4, <1>5, <1>6, <1>7, <1>8, <1>9, <1>10, <1>11 DEF BuildNext

(* From the cache or not, the Go text of a library is what its file would  *)
(* be translated to now, but for the calls on classes of other libraries.  *)
THEOREM TextsAreFreshHolds == BuildSpec => []TextsAreFresh
<1>1. BuildInit => CheckInv /\ TextInv
  BY DEF BuildInit, CheckInv, TextInv, NoBuild
<1>2. TextInv => TextsAreFresh
  <2> SUFFICES ASSUME TextInv, build.phase = "emit", NEW m \in DOMAIN build.text
               PROVE  LET fresh == Text(m, build.read[m])
                      IN  [build.text[m] EXCEPT !.calls = fresh.calls] = fresh
    BY DEF TextsAreFresh
  <2>1. IsEntry(TextKey(m, build.read[m]), build.text[m])
    BY DEF TextInv
  <2>2. QED BY <2>1 DEF IsEntry, TextKey, Text, HierarchyKey
<1>3. QED BY <1>1, <1>2, CheckNextInv, TextNextInv, PTL DEF BuildSpec

(* A program has what its main file and its modules import.                *)
Closed(src) ==
  /\ MainImports \in Seq(DOMAIN src)
  /\ \A m \in DOMAIN src : src[m].imports \in Seq(DOMAIN src)

(* What a module reaches: itself and what its imports reach                *)
LEMMA ClosureFacts ==
  ASSUME NEW src, Closed(src), NEW m \in DOMAIN src
  PROVE  /\ m \in Closure(src, m) /\ Closure(src, m) \subseteq DOMAIN src
         /\ ImportsOf(src, m) \subseteq Closure(src, m)
         /\ \A k \in Closure(src, m) : Closure(src, k) \subseteq Closure(src, m)
         /\ \A k \in Closure(src, m) : k = m \/ \E d \in ImportsOf(src, m) : k \in Closure(src, d)
<1> DEFINE Full(S) == \A k \in S : ImportsOf(src, k) \subseteq S
<1>1. \A k, n \in DOMAIN src :
        n \in Closure(src, k) <=> \A S \in SUBSET DOMAIN src : k \in S /\ Full(S) => n \in S
  BY DEF Closure
<1>2. \A k \in DOMAIN src : Closure(src, k) \subseteq DOMAIN src
  BY DEF Closure
<1>3. \A k \in DOMAIN src : ImportsOf(src, k) \subseteq DOMAIN src
  BY DEF Closed, ImportsOf
<1>4. ASSUME NEW k \in DOMAIN src, NEW n \in Closure(src, k) PROVE Closure(src, n) \subseteq Closure(src, k)
  <2> SUFFICES ASSUME NEW x \in Closure(src, n), NEW S \in SUBSET DOMAIN src, k \in S, Full(S)
               PROVE  x \in S
    BY <1>1, <1>2
  <2>1. n \in S
    BY <1>1, <1>2
  <2>2. QED BY <1>1, <1>2, <2>1
<1>5. \A k \in DOMAIN src : k \in Closure(src, k)
  BY ReachesItself
<1>6. ASSUME NEW k \in DOMAIN src PROVE ImportsOf(src, k) \subseteq Closure(src, k)
  <2> SUFFICES ASSUME NEW x \in ImportsOf(src, k), NEW S \in SUBSET DOMAIN src, k \in S, Full(S)
               PROVE  x \in S
    BY <1>1, <1>3
  <2>1. QED OBVIOUS
<1>7. ASSUME NEW k \in Closure(src, m) PROVE k = m \/ \E d \in ImportsOf(src, m) : k \in Closure(src, d)
  <2> DEFINE S == {m} \cup UNION {Closure(src, d) : d \in ImportsOf(src, m)}
  <2>1. S \in SUBSET DOMAIN src
    BY <1>2, <1>3
  <2>2. ASSUME NEW x \in S PROVE ImportsOf(src, x) \subseteq S
    <3>1. CASE x = m
      BY <1>3, <1>5, <3>1
    <3>2. ASSUME NEW d \in ImportsOf(src, m), x \in Closure(src, d) PROVE ImportsOf(src, x) \subseteq S
      <4>1. d \in DOMAIN src /\ x \in DOMAIN src
        BY <1>2, <1>3, <3>2
      <4>2. ImportsOf(src, x) \subseteq Closure(src, d)
        BY <1>4, <1>6, <3>2, <4>1
      <4>3. QED BY <4>2
    <3>3. QED BY <3>1, <3>2
  <2>3. k \in S
    <3>1. m \in S /\ Full(S) /\ k \in DOMAIN src
      BY <1>2, <2>2
    <3> HIDE DEF S
    <3>2. QED BY <1>1, <2>1, <3>1
  <2>4. QED BY <2>3
<1>8. QED BY <1>2, <1>4, <1>5, <1>6, <1>7

(* A step of the walk that orders the modules keeps this:                  *)
(*   - the modules visited are those in the order and those still to be    *)
(*     left, each once, and the imports of those in the order are visited; *)
(*   - what the main file imports, and what a module still to be left      *)
(*     imports, is visited or listed, in the second case before the leave; *)
(*   - all that is listed before a leave is reached from its module;       *)
(*   - a module in the order that reaches no cycle comes after what it     *)
(*     reaches.                                                            *)
(* The third is what makes the fourth hold of the next module left: one of *)
(* its imports that is not in the order would be left later, and so would  *)
(* reach it, a cycle.                                                      *)
Entries(src) == [mod : DOMAIN src, leave : BOOLEAN]
InOrder(order) == {order[i] : i \in DOMAIN order}
Listed(todo, m) == \E i \in DOMAIN todo : todo[i].mod = m
Leaves(todo, m) == \E i \in DOMAIN todo : todo[i].leave /\ todo[i].mod = m

WalkTypes(src, w) ==
  w \in [todo : Seq(Entries(src)), visited : SUBSET DOMAIN src, order : Seq(DOMAIN src)]

Once(src, visited, todo, order) ==
  /\ \A m \in DOMAIN src : m \in visited <=> m \in InOrder(order) \/ Leaves(todo, m)
  /\ \A m \in InOrder(order) : ~Leaves(todo, m) /\ ImportsOf(src, m) \subseteq visited
  /\ \A i, j \in DOMAIN todo : todo[i].leave /\ todo[j].leave /\ todo[i].mod = todo[j].mod => i = j
  /\ \A i, j \in DOMAIN order : order[i] = order[j] => i = j

Pending(src, visited, todo) ==
  /\ \A i \in DOMAIN MainImports : MainImports[i] \in visited \/ Listed(todo, MainImports[i])
  /\ \A j \in DOMAIN todo : todo[j].leave =>
       \A d \in ImportsOf(src, todo[j].mod) :
          d \in visited \/ \E i \in DOMAIN todo : i < j /\ todo[i].mod = d

Nested(src, todo) ==
  \A i, j \in DOMAIN todo : i < j /\ todo[j].leave => todo[i].mod \in Closure(src, todo[j].mod)

After(src, order) ==
  \A j \in DOMAIN order : Acyclic(src, order[j]) =>
     \A m \in Closure(src, order[j]) : m = order[j] \/ \E i \in DOMAIN order : i < j /\ order[i] = m

WalkInv(src, w) ==
  /\ WalkTypes(src, w) /\ Once(src, w.visited, w.todo, w.order) /\ Pending(src, w.visited, w.todo)
  /\ Nested(src, w.todo) /\ After(src, w.order)

(* The main file reaches m: every set that has what the main file imports, *)
(* and what its members read so far import, has m.                         *)
Reached(src, m) ==
  \A S \in SUBSET Modules :
    (\A i \in DOMAIN MainImports : MainImports[i] \in S)
      /\ (\A k \in S \cap DOMAIN src : ImportsOf(src, k) \subseteq S) => m \in S

Known(known, work, m) == m \in known \/ \E i \in DOMAIN work : work[i] = m

(* While a build reads, all that it has read or has to read is reached,    *)
(* and all that is imported was read or is to be.                          *)
IsReading(work, src) ==
  /\ work \in Seq(Modules) /\ DOMAIN src \subseteq Modules
  /\ \A m \in DOMAIN src : src[m].imports \in Seq(Modules) /\ Reached(src, m)
  /\ \A i \in DOMAIN work : Reached(src, work[i])
  /\ \A i \in DOMAIN MainImports : Known(DOMAIN src, work, MainImports[i])
  /\ \A m \in DOMAIN src : \A d \in ImportsOf(src, m) : Known(DOMAIN src, work, d)

IsRead(b) ==
  /\ b = [phase |-> "read", work |-> b.work, subs |-> b.subs, src |-> b.src]
  /\ IsReading(b.work, b.src)

(* Later its sources are closed, and no more than the main file reaches.   *)
IsProgram(src) ==
  /\ DOMAIN src \subseteq Modules /\ Closed(src)
  /\ \A m \in DOMAIN src : Reached(src, m)

LinkInv ==
  /\ files \in [Modules -> UNION {Contents[m] : m \in Modules}]
  /\ \A m \in Modules : files[m] \in Contents[m]
  /\ build.phase = "read" => IsRead(build)
  /\ build.phase \in {"check", "emit", "linked"} => IsProgram(build.src)
  /\ ImportsInitFirst

(* A list without its first element                                        *)
LEMMA TailIs ==
  ASSUME NEW X, NEW s \in Seq(X), s # <<>>
  PROVE  /\ Len(s) \in Nat /\ DOMAIN s = 1..Len(s) /\ 1 \in DOMAIN s /\ Head(s) = s[1]
         /\ Tail(s) \in Seq(X) /\ DOMAIN Tail(s) = 1..(Len(s) - 1)
         /\ \A i \in DOMAIN Tail(s) : i + 1 \in DOMAIN s /\ Tail(s)[i] = s[i + 1]
         /\ \A i \in DOMAIN s : i = 1 \/ (i - 1 \in DOMAIN Tail(s) /\ Tail(s)[i - 1] = s[i])
<1>1. Len(s) \in Nat /\ DOMAIN s = 1..Len(s) /\ Len(s) # 0
  OBVIOUS
<1>2. Tail(s) \in Seq(X) /\ Len(Tail(s)) = Len(s) - 1 /\ \A i \in 1..(Len(s) - 1) : Tail(s)[i] = s[i + 1]
  OBVIOUS
<1>3. DOMAIN Tail(s) = 1..(Len(s) - 1)
  BY <1>2
<1>4. \A i \in 1..(Len(s) - 1) : i + 1 \in 1..Len(s)
  BY <1>1
<1>5. \A i \in 1..Len(s) : i = 1 \/ (i - 1 \in 1..(Len(s) - 1) /\ (i - 1) + 1 = i)
  BY <1>1
<1>6. QED BY <1>1, <1>2, <1>3, <1>4, <1>5

(* The list when a module is visited: its imports, its leave, what was     *)
(* left of the list                                                        *)
IsVisitedList(src, m, s, t) ==
  LET n == Len(src[m].imports)
  IN  /\ n \in Nat /\ t \in Seq(Entries(src)) /\ DOMAIN t = 1..(n + Len(s))
      /\ \A i \in 1..n : ~t[i].leave /\ t[i].mod \in ImportsOf(src, m)
      /\ t[n + 1] = [mod |-> m, leave |-> TRUE]
      /\ \A i \in 2..Len(s) : t[n + i] = s[i]
      /\ \A d \in ImportsOf(src, m) : \E i \in 1..n : t[i].mod = d

LEMMA VisitedList ==
  ASSUME NEW src, Closed(src), NEW m \in DOMAIN src, NEW s \in Seq(Entries(src)), s # <<>>
  PROVE  IsVisitedList(src, m, s, Visits(src[m].imports) \o <<[mod |-> m, leave |-> TRUE]>> \o Tail(s))
<1> DEFINE p == src[m].imports
           n == Len(p)
           v == Visits(p)
           e == [mod |-> m, leave |-> TRUE]
           u == v \o <<e>>
           t == u \o Tail(s)
<1>1. p \in Seq(DOMAIN src)
  BY DEF Closed
<1>2. n \in Nat /\ DOMAIN p = 1..n /\ \A i \in 1..n : p[i] \in DOMAIN src
  BY <1>1
<1>3. \A i \in 1..n : p[i] \in ImportsOf(src, m)
  BY <1>2 DEF ImportsOf
<1>4. \A d \in ImportsOf(src, m) : \E i \in 1..n : p[i] = d
  BY <1>2 DEF ImportsOf
<1>5. v = [i \in 1..n |-> [mod |-> p[i], leave |-> FALSE]]
  BY <1>2 DEF Visits
<1>6. e \in Entries(src) /\ \A i \in 1..n : [mod |-> p[i], leave |-> FALSE] \in Entries(src)
  BY <1>2 DEF Entries
<1> HIDE DEF p, n, v, e
<1>7. v \in Seq(Entries(src)) /\ Len(v) = n
  BY <1>2, <1>5, <1>6
<1>8. u \in Seq(Entries(src)) /\ Len(u) = n + 1 /\ u[n + 1] = e /\ \A i \in 1..n : u[i] = v[i]
  BY <1>2, <1>6, <1>7
<1>9. /\ Tail(s) \in Seq(Entries(src)) /\ Len(Tail(s)) = Len(s) - 1 /\ Len(s) \in Nat /\ Len(s) # 0
      /\ \A i \in 1..(Len(s) - 1) : Tail(s)[i] = s[i + 1]
  OBVIOUS
<1> HIDE DEF u
<1>10. /\ t \in Seq(Entries(src)) /\ Len(t) = n + Len(s)
       /\ \A i \in 1..(n + 1) : t[i] = u[i]
       /\ \A i \in 1..(Len(s) - 1) : t[n + 1 + i] = Tail(s)[i]
  BY <1>2, <1>8, <1>9
<1> HIDE DEF t
<1>11. \A i \in 1..n : i \in 1..(n + 1)
  BY <1>2
<1>12. \A i \in 2..Len(s) : i - 1 \in 1..(Len(s) - 1) /\ n + 1 + (i - 1) = n + i /\ (i - 1) + 1 = i
  BY <1>2, <1>9
<1>13. \A i \in 2..Len(s) : t[n + i] = s[i]
  BY <1>9, <1>10, <1>12
<1>14. \A i \in 1..n : t[i] = [mod |-> p[i], leave |-> FALSE]
  BY <1>5, <1>8, <1>10, <1>11
<1>15. t[n + 1] = e
  BY <1>2, <1>8, <1>10
<1>16. DOMAIN t = 1..(n + Len(s))
  BY <1>10
<1>17. ASSUME NEW i \in 1..n PROVE ~t[i].leave /\ t[i].mod = p[i]
  <2>1. [mod |-> p[i], leave |-> FALSE].mod = p[i] /\ ~[mod |-> p[i], leave |-> FALSE].leave
    OBVIOUS
  <2>2. QED BY <1>14, <2>1
<1>18. /\ \A i \in 1..n : ~t[i].leave /\ t[i].mod \in ImportsOf(src, m)
       /\ \A d \in ImportsOf(src, m) : \E i \in 1..n : t[i].mod = d
  BY <1>3, <1>4, <1>17
<1>19. IsVisitedList(src, m, s, t)
  BY <1>2, <1>10, <1>13, <1>15, <1>16, <1>18 DEF IsVisitedList, p, n, e
<1>20. QED BY <1>19 DEF p, v, e, u, t

(* The rest of the list when its first entry is of a visited module        *)
LEMMA TailKept ==
  ASSUME NEW src, NEW w, WalkInv(src, w), w.todo # <<>>, w.todo[1].mod \in w.visited
  PROVE  Pending(src, w.visited, Tail(w.todo)) /\ Nested(src, Tail(w.todo))
<1> DEFINE s == w.todo
           t == Tail(s)
<1>1. s \in Seq(Entries(src)) /\ s # <<>>
  BY DEF WalkInv, WalkTypes
<1>2. Pending(src, w.visited, s) /\ Nested(src, s) /\ s[1].mod \in w.visited
  BY DEF WalkInv
<1> HIDE DEF s
<1>3. /\ DOMAIN s = 1..Len(s) /\ DOMAIN t = 1..(Len(s) - 1) /\ Len(s) \in Nat
      /\ \A i \in DOMAIN t : i + 1 \in DOMAIN s /\ t[i] = s[i + 1]
      /\ \A i \in DOMAIN s : i = 1 \/ (i - 1 \in DOMAIN t /\ t[i - 1] = s[i])
  BY <1>1, TailIs
<1>4. \A i, j \in DOMAIN t : i < j => i + 1 < j + 1
  BY <1>3
<1>5. \A i, j \in DOMAIN s : i < j => i - 1 < j - 1
  BY <1>3
<1> HIDE DEF t
<1>6. \A d : Listed(s, d) => d \in w.visited \/ Listed(t, d)
  BY <1>2, <1>3 DEF Listed
<1>7. ASSUME NEW j \in DOMAIN t, t[j].leave, NEW d \in ImportsOf(src, t[j].mod)
      PROVE  d \in w.visited \/ \E i \in DOMAIN t : i < j /\ t[i].mod = d
  <2>1. j + 1 \in DOMAIN s /\ s[j + 1] = t[j]
    BY <1>3
  <2>2. CASE d \notin w.visited
    <3>1. PICK i \in DOMAIN s : i < j + 1 /\ s[i].mod = d
      BY <1>2, <1>7, <2>1, <2>2 DEF Pending
    <3>2. i - 1 \in DOMAIN t /\ t[i - 1].mod = d
      BY <1>2, <1>3, <2>2, <3>1
    <3>3. i - 1 < j
      BY <1>3, <3>1
    <3>4. QED BY <3>2, <3>3
  <2>3. QED BY <2>2
<1>8. Nested(src, t)
  BY <1>2, <1>3, <1>4 DEF Nested
<1>9. Pending(src, w.visited, t)
  BY <1>2, <1>6, <1>7 DEF Pending
<1>10. QED BY <1>8, <1>9 DEF s, t

(* The invariant holds when a module is left, when one visited before is   *)
(* passed by, when one is visited, and when the walk starts.               *)
LEMMA LeaveKept ==
  ASSUME NEW src, Closed(src), NEW w, WalkInv(src, w), w.todo # <<>>, w.todo[1].leave,
         NEW v, v = [todo |-> Tail(w.todo), visited |-> w.visited, order |-> Append(w.order, w.todo[1].mod)]
  PROVE  WalkInv(src, v)
<1> DEFINE s == w.todo
           t == Tail(s)
           m == s[1].mod
           o == w.order
           q == Append(o, m)
           N == Len(o) + 1
<1>1. v.todo = t /\ v.visited = w.visited /\ v.order = q
  OBVIOUS
<1>2. s \in Seq(Entries(src)) /\ o \in Seq(DOMAIN src) /\ s # <<>> /\ w.visited \subseteq DOMAIN src
  BY DEF WalkInv, WalkTypes
<1>3. /\ DOMAIN s = 1..Len(s) /\ 1 \in DOMAIN s /\ t \in Seq(Entries(src)) /\ DOMAIN t = 1..(Len(s) - 1)
      /\ Len(s) \in Nat
      /\ \A i \in DOMAIN t : i + 1 \in DOMAIN s /\ t[i] = s[i + 1]
      /\ \A i \in DOMAIN s : i = 1 \/ (i - 1 \in DOMAIN t /\ t[i - 1] = s[i])
  BY <1>2, TailIs
<1>4. m \in DOMAIN src /\ s[1].leave
  <2>1. s[1] \in Entries(src)
    BY <1>2, <1>3
  <2>2. QED BY <2>1 DEF Entries
<1>5. Once(src, w.visited, s, o) /\ Pending(src, w.visited, s) /\ Nested(src, s) /\ After(src, o)
  BY DEF WalkInv
<1>6. Leaves(s, m)
  BY <1>3, <1>4 DEF Leaves
<1>7. m \in w.visited /\ m \notin InOrder(o)
  BY <1>4, <1>5, <1>6 DEF Once
<1>8. Pending(src, w.visited, t) /\ Nested(src, t)
  BY <1>7, TailKept
<1>9. /\ q \in Seq(DOMAIN src) /\ DOMAIN o = 1..Len(o) /\ Len(o) \in Nat
      /\ DOMAIN q = 1..N /\ q[N] = m /\ \A i \in 1..Len(o) : q[i] = o[i]
  BY <1>2, <1>4
<1>10. /\ N \in DOMAIN q /\ N \notin DOMAIN o
       /\ \A i \in DOMAIN o : i \in DOMAIN q /\ i < N /\ q[i] = o[i]
       /\ \A i \in DOMAIN q : i \in DOMAIN o \/ i = N
  BY <1>9
<1>11. q[N] = m
  BY <1>9
<1>12. WalkTypes(src, v)
  BY <1>2, <1>3, <1>9 DEF WalkTypes
<1> HIDE DEF s, t, m, o, q, N
<1>13. InOrder(q) = InOrder(o) \cup {m}
  BY <1>10, <1>11 DEF InOrder
<1>14. \A i, j \in DOMAIN s : s[i].leave /\ s[j].leave /\ s[i].mod = s[j].mod => i = j
  BY <1>5 DEF Once
<1>15. \A k : Leaves(t, k) <=> Leaves(s, k) /\ k # m
  <2>1. ASSUME NEW k, NEW i \in DOMAIN t, t[i].leave, t[i].mod = k PROVE Leaves(s, k) /\ k # m
    <3>1. i + 1 \in DOMAIN s /\ s[i + 1].leave /\ s[i + 1].mod = k /\ i + 1 # 1
      BY <1>3, <2>1
    <3>2. QED BY <1>3, <1>4, <1>14, <3>1 DEF Leaves, m
  <2>2. ASSUME NEW k, k # m, NEW i \in DOMAIN s, s[i].leave, s[i].mod = k PROVE Leaves(t, k)
    <3>1. i # 1
      BY <2>2 DEF m
    <3>2. QED BY <1>3, <2>2, <3>1 DEF Leaves
  <2>3. QED BY <2>1, <2>2 DEF Leaves
<1>16. ImportsOf(src, m) \subseteq w.visited
  <2> SUFFICES ASSUME NEW d \in ImportsOf(src, m), d \notin w.visited PROVE FALSE
    OBVIOUS
  <2>1. PICK i \in DOMAIN s : i < 1
    BY <1>3, <1>4, <1>5 DEF Pending, m
  <2>2. QED BY <1>3, <2>1
<1>17. Once(src, w.visited, t, q)
  <2>1. \A k \in DOMAIN src : k \in w.visited <=> k \in InOrder(q) \/ Leaves(t, k)
    BY <1>5, <1>6, <1>7, <1>13, <1>15 DEF Once
  <2>2. \A k \in InOrder(q) : ~Leaves(t, k) /\ ImportsOf(src, k) \subseteq w.visited
    BY <1>5, <1>13, <1>15, <1>16 DEF Once
  <2>3. \A i, j \in DOMAIN t : t[i].leave /\ t[j].leave /\ t[i].mod = t[j].mod => i = j
    <3>1. \A i, j \in DOMAIN t : i + 1 = j + 1 => i = j
      BY <1>3
    <3>2. QED BY <1>3, <1>14, <3>1
  <2>4. \A i, j \in DOMAIN q : q[i] = q[j] => i = j
    <3>1. \A i \in DOMAIN o : o[i] # m
      BY <1>7 DEF InOrder
    <3>2. \A i, j \in DOMAIN o : o[i] = o[j] => i = j
      BY <1>5 DEF Once
    <3>3. QED BY <1>10, <1>11, <3>1, <3>2
  <2>5. QED BY <2>1, <2>2, <2>3, <2>4 DEF Once
<1>18. ASSUME Acyclic(src, m), NEW k \in Closure(src, m), k # m
       PROVE  \E i \in DOMAIN q : i < N /\ q[i] = k
  <2>1. PICK d \in ImportsOf(src, m) : k \in Closure(src, d)
    BY <1>4, <1>18, ClosureFacts
  <2>2. d \in DOMAIN src /\ m \in Closure(src, m) /\ d \in Closure(src, m)
    BY <1>4, <2>1, ClosureFacts
  <2>3. m \notin Closure(src, d)
    BY <1>18, <2>1, <2>2 DEF Acyclic
  <2>4. ~Leaves(s, d)
    <3> SUFFICES ASSUME NEW j \in DOMAIN s, s[j].leave, s[j].mod = d PROVE FALSE
      BY DEF Leaves
    <3>1. j # 1
      BY <2>2, <2>3 DEF m
    <3>2. 1 < j
      BY <1>3, <3>1
    <3>3. QED BY <1>3, <1>5, <2>3, <3>2 DEF Nested, m
  <2>5. d \in InOrder(o)
    BY <1>5, <1>16, <2>1, <2>2, <2>4 DEF Once
  <2>6. PICK j \in DOMAIN o : o[j] = d
    BY <2>5 DEF InOrder
  <2>7. Acyclic(src, d)
    <3>1. Closure(src, d) \subseteq Closure(src, m)
      BY <1>4, <2>2, ClosureFacts
    <3>2. QED BY <1>18, <3>1 DEF Acyclic
  <2>8. \E i \in DOMAIN o : o[i] = k
    BY <1>5, <2>1, <2>6, <2>7 DEF After
  <2>9. QED BY <1>10, <2>8
<1>19. After(src, q)
  <2> SUFFICES ASSUME NEW j \in DOMAIN q, Acyclic(src, q[j]), NEW k \in Closure(src, q[j]), k # q[j]
               PROVE  \E i \in DOMAIN q : i < j /\ q[i] = k
    BY DEF After
  <2>1. CASE j \in DOMAIN o
    <3>1. \E i \in DOMAIN o : i < j /\ o[i] = k
      BY <1>5, <1>10, <2>1 DEF After
    <3>2. QED BY <1>10, <3>1
  <2>2. CASE j = N
    BY <1>11, <1>18, <2>2
  <2>3. QED BY <1>10, <2>1, <2>2
<1>20. QED BY <1>1, <1>8, <1>12, <1>17, <1>19 DEF WalkInv

LEMMA SkipKept ==
  ASSUME NEW src, NEW w, WalkInv(src, w), w.todo # <<>>, ~w.todo[1].leave, w.todo[1].mod \in w.visited,
         NEW v, v = [todo |-> Tail(w.todo), visited |-> w.visited, order |-> w.order]
  PROVE  WalkInv(src, v)
<1> DEFINE s == w.todo
           t == Tail(s)
<1>1. v.todo = t /\ v.visited = w.visited /\ v.order = w.order
  OBVIOUS
<1>2. s \in Seq(Entries(src)) /\ s # <<>>
  BY DEF WalkInv, WalkTypes
<1>3. /\ DOMAIN s = 1..Len(s) /\ t \in Seq(Entries(src)) /\ DOMAIN t = 1..(Len(s) - 1) /\ Len(s) \in Nat
      /\ \A i \in DOMAIN t : i + 1 \in DOMAIN s /\ t[i] = s[i + 1]
      /\ \A i \in DOMAIN s : i = 1 \/ (i - 1 \in DOMAIN t /\ t[i - 1] = s[i])
  BY <1>2, TailIs
<1>4. \A i, j \in DOMAIN t : i + 1 = j + 1 => i = j
  BY <1>3
<1>5. Pending(src, w.visited, t) /\ Nested(src, t)
  BY TailKept
<1>6. WalkTypes(src, v)
  BY <1>3 DEF WalkInv, WalkTypes
<1>7. Once(src, w.visited, s, w.order) /\ After(src, w.order) /\ ~s[1].leave
  BY DEF WalkInv
<1> HIDE DEF t
<1>8. \A k : Leaves(t, k) <=> Leaves(s, k)
  <2> HIDE DEF s
  <2>1. QED BY <1>3, <1>7 DEF Leaves
<1>9. \A i, j \in DOMAIN t : t[i].leave /\ t[j].leave /\ t[i].mod = t[j].mod => i = j
  <2>1. \A i, j \in DOMAIN s : s[i].leave /\ s[j].leave /\ s[i].mod = s[j].mod => i = j
    BY <1>7 DEF Once
  <2> HIDE DEF s
  <2>2. QED BY <1>3, <1>4, <2>1
<1>10. Once(src, w.visited, t, w.order)
  BY <1>7, <1>8, <1>9 DEF Once
<1>11. QED BY <1>1, <1>5, <1>6, <1>7, <1>10 DEF WalkInv

LEMMA VisitKept ==
  ASSUME NEW src, Closed(src), NEW w, WalkInv(src, w), w.todo # <<>>, ~w.todo[1].leave,
         NEW m, m = w.todo[1].mod, m \notin w.visited,
         NEW t, IsVisitedList(src, m, w.todo, t),
         NEW v, v = [todo |-> t, visited |-> w.visited \cup {m}, order |-> w.order]
  PROVE  WalkInv(src, v)
<1> DEFINE s == w.todo
           o == w.order
           n == Len(src[m].imports)
           V == w.visited \cup {m}
<1>1. v.todo = t /\ v.visited = V /\ v.order = o
  OBVIOUS
<1>2. s \in Seq(Entries(src)) /\ o \in Seq(DOMAIN src) /\ s # <<>> /\ w.visited \subseteq DOMAIN src
  BY DEF WalkInv, WalkTypes
<1>3. /\ Once(src, w.visited, s, o) /\ Pending(src, w.visited, s) /\ Nested(src, s) /\ After(src, o)
      /\ m = s[1].mod /\ ~s[1].leave
  BY DEF WalkInv
<1>4. DOMAIN s = 1..Len(s) /\ 1 \in DOMAIN s /\ Len(s) \in Nat
  BY <1>2, TailIs
<1>5. /\ n \in Nat /\ t \in Seq(Entries(src)) /\ DOMAIN t = 1..(n + Len(s))
      /\ \A i \in 1..n : ~t[i].leave /\ t[i].mod \in ImportsOf(src, m)
      /\ t[n + 1] = [mod |-> m, leave |-> TRUE]
      /\ \A i \in 2..Len(s) : t[n + i] = s[i]
      /\ \A d \in ImportsOf(src, m) : \E i \in 1..n : t[i].mod = d
  BY DEF IsVisitedList
<1>6. \A i \in DOMAIN s : s[i].mod \in DOMAIN src
  <2>1. \A i \in DOMAIN s : s[i] \in Entries(src)
    BY <1>2
  <2>2. QED BY <2>1 DEF Entries
<1>7. m \in DOMAIN src
  BY <1>3, <1>4, <1>6
<1>8. WalkTypes(src, v)
  BY <1>2, <1>5, <1>7 DEF WalkTypes
<1> HIDE DEF s, o, n, V
<1>9. t[n + 1].mod = m /\ t[n + 1].leave /\ n + 1 \in DOMAIN t
  BY <1>4, <1>5
<1>10. ASSUME NEW i \in DOMAIN s, i # 1
       PROVE  n + i \in DOMAIN t /\ t[n + i] = s[i] /\ n + 1 < n + i
  BY <1>4, <1>5, <1>10
<1>11. ASSUME NEW j \in DOMAIN t
       PROVE  j \in 1..n \/ j = n + 1 \/ \E i \in DOMAIN s : i # 1 /\ j = n + i /\ t[j] = s[i]
  <2>1. CASE j > n + 1
    <3>1. j - n \in 2..Len(s) /\ n + (j - n) = j
      BY <1>4, <1>5, <1>11, <2>1
    <3>2. j - n \in DOMAIN s /\ j - n # 1
      BY <1>4, <3>1
    <3>3. QED BY <1>5, <3>1, <3>2
  <2>2. CASE j <= n + 1
    BY <1>5, <1>11, <2>2
  <2>3. QED BY <1>4, <1>5, <1>11, <2>1, <2>2
<1>12. \A i \in 1..n : i \in DOMAIN t /\ i < n + 1
  BY <1>4, <1>5
<1>13. \A k : Leaves(t, k) <=> Leaves(s, k) \/ k = m
  <2>1. ASSUME NEW j \in DOMAIN t, t[j].leave PROVE Leaves(s, t[j].mod) \/ t[j].mod = m
    BY <1>5, <1>9, <1>11, <2>1 DEF Leaves
  <2>2. ASSUME NEW i \in DOMAIN s, s[i].leave PROVE Leaves(t, s[i].mod)
    BY <1>3, <1>10, <2>2 DEF Leaves
  <2>3. Leaves(t, m)
    BY <1>9 DEF Leaves
  <2>4. QED BY <2>1, <2>2, <2>3 DEF Leaves
<1>14. m \notin w.visited /\ m \notin InOrder(o) /\ ~Leaves(s, m)
  BY <1>3, <1>7 DEF Once
<1>15. Once(src, V, t, o)
  <2>1. \A k \in DOMAIN src : k \in V <=> k \in InOrder(o) \/ Leaves(t, k)
    BY <1>3, <1>13 DEF Once, V
  <2>2. \A k \in InOrder(o) : ~Leaves(t, k) /\ ImportsOf(src, k) \subseteq V
    BY <1>3, <1>13, <1>14 DEF Once, V
  <2>3. ASSUME NEW i \in DOMAIN t, NEW j \in DOMAIN t, t[i].leave, t[j].leave, t[i].mod = t[j].mod
        PROVE  i = j
    <3>1. \A k \in DOMAIN t : t[k].leave => k = n + 1 \/ \E l \in DOMAIN s : l # 1 /\ k = n + l /\ t[k] = s[l]
      BY <1>5, <1>11
    <3>2. \A l \in DOMAIN s : s[l].leave => s[l].mod # m
      BY <1>14 DEF Leaves
    <3>3. \A k, l \in DOMAIN s : s[k].leave /\ s[l].leave /\ s[k].mod = s[l].mod => k = l
      BY <1>3 DEF Once
    <3>4. CASE i = n + 1
      BY <1>9, <2>3, <3>1, <3>2, <3>4
    <3>5. CASE j = n + 1
      BY <1>9, <2>3, <3>1, <3>2, <3>5
    <3>6. CASE i # n + 1 /\ j # n + 1
      BY <2>3, <3>1, <3>3, <3>6
    <3>7. QED BY <3>4, <3>5, <3>6
  <2>4. \A i, j \in DOMAIN o : o[i] = o[j] => i = j
    BY <1>3 DEF Once
  <2>5. QED BY <2>1, <2>2, <2>3, <2>4 DEF Once
<1>16. Pending(src, V, t)
  <2>1. ASSUME NEW d, Listed(s, d) PROVE d \in V \/ Listed(t, d)
    BY <1>3, <1>10, <2>1 DEF Listed, V
  <2>2. \A i \in DOMAIN MainImports : MainImports[i] \in V \/ Listed(t, MainImports[i])
    BY <1>3, <2>1 DEF Pending, V
  <2>3. ASSUME NEW j \in DOMAIN t, t[j].leave, NEW d \in ImportsOf(src, t[j].mod), d \notin V
        PROVE  \E i \in DOMAIN t : i < j /\ t[i].mod = d
    <3>1. CASE j = n + 1
      BY <1>5, <1>9, <1>12, <2>3, <3>1
    <3>2. ASSUME NEW l \in DOMAIN s, l # 1, j = n + l, t[j] = s[l] 
          PROVE  \E i \in DOMAIN t : i < j /\ t[i].mod = d
      <4>1. PICK i \in DOMAIN s : i < l /\ s[i].mod = d
        BY <1>3, <2>3, <3>2 DEF Pending, V
      <4>2. i # 1
        BY <1>3, <2>3, <4>1 DEF V
      <4>3. n + i < j
        BY <1>4, <1>5, <3>2, <4>1
      <4>4. QED BY <1>10, <4>1, <4>2, <4>3
    <3>3. QED BY <1>5, <1>11, <2>3, <3>1, <3>2
  <2>4. QED BY <2>2, <2>3 DEF Pending
<1>17. Nested(src, t)
  <2> SUFFICES ASSUME NEW i \in DOMAIN t, NEW j \in DOMAIN t, i < j, t[j].leave
               PROVE  t[i].mod \in Closure(src, t[j].mod)
    BY DEF Nested
  <2>1. ImportsOf(src, m) \subseteq Closure(src, m)
    BY <1>7, ClosureFacts
  <2>2. CASE j = n + 1
    <3>1. i \in 1..n
      BY <1>4, <1>5, <2>2
    <3>2. QED BY <1>5, <1>9, <2>1, <2>2, <3>1
  <2>3. ASSUME NEW l \in DOMAIN s, l # 1, j = n + l, t[j] = s[l]
        PROVE  t[i].mod \in Closure(src, t[j].mod)
    <3>1. m \in Closure(src, s[l].mod)
      <4>1. 1 < l
        BY <1>4, <2>3
      <4>2. QED BY <1>3, <1>4, <2>3, <4>1 DEF Nested
    <3>2. Closure(src, m) \subseteq Closure(src, s[l].mod)
      BY <1>6, <2>3, <3>1, ClosureFacts
    <3>3. CASE i \in 1..n
      BY <1>5, <2>1, <2>3, <3>2, <3>3
    <3>4. CASE i = n + 1
      BY <1>9, <2>3, <3>1, <3>4
    <3>5. ASSUME NEW k \in DOMAIN s, k # 1, i = n + k, t[i] = s[k]
          PROVE  t[i].mod \in Closure(src, t[j].mod)
      <4>1. k < l
        BY <1>4, <1>5, <2>3, <3>5
      <4>2. QED BY <1>3, <2>3, <3>5, <4>1 DEF Nested
    <3>6. QED BY <1>11, <3>3, <3>4, <3>5
  <2>4. QED BY <1>5, <1>11, <2>2, <2>3
<1>18. QED BY <1>1, <1>3, <1>8, <1>15, <1>16, <1>17 DEF WalkInv

LEMMA StartKept == ASSUME NEW src, Closed(src) PROVE WalkInv(src, StartWalk)
<1> DEFINE s == Visits(MainImports)
<1>1. MainImports \in Seq(DOMAIN src)
  BY DEF Closed
<1>2. s = [i \in 1..Len(MainImports) |-> [mod |-> MainImports[i], leave |-> FALSE]] /\ Len(MainImports) \in Nat
  BY <1>1 DEF Visits
<1>3. \A i \in 1..Len(MainImports) : [mod |-> MainImports[i], leave |-> FALSE] \in Entries(src)
  BY <1>1 DEF Entries
<1>4. s \in Seq(Entries(src)) /\ DOMAIN s = DOMAIN MainImports
  BY <1>1, <1>2, <1>3
<1>5. \A i \in DOMAIN s : ~s[i].leave /\ s[i].mod = MainImports[i]
  BY DEF Visits
<1> HIDE DEF s
<1>6. StartWalk.todo = s /\ StartWalk.visited = {} /\ StartWalk.order = <<>>
  BY DEF StartWalk, s
<1>7. WalkTypes(src, StartWalk)
  BY <1>4 DEF WalkTypes, StartWalk, s
<1>8. Once(src, {}, s, <<>>) /\ After(src, <<>>)
  BY <1>5 DEF Once, After, InOrder, Leaves
<1>9. Pending(src, {}, s) /\ Nested(src, s)
  BY <1>4, <1>5 DEF Pending, Nested, Listed
<1>10. QED BY <1>6, <1>7, <1>8, <1>9 DEF WalkInv

LEMMA NextKept ==
  ASSUME NEW src, Closed(src), NEW w, WalkInv(src, w), w.todo # <<>>
  PROVE  WalkInv(src, VisitNext(src, w))
<1> DEFINE s == w.todo
           m == s[1].mod
<1>1. /\ w = [todo |-> w.todo, visited |-> w.visited, order |-> w.order]
      /\ s \in Seq(Entries(src)) /\ s # <<>>
  BY DEF WalkInv, WalkTypes
<1>2. Head(s) = s[1] /\ s[1] \in Entries(src)
  BY <1>1, TailIs
<1>3. m \in DOMAIN src
  BY <1>2 DEF Entries
<1>4. CASE s[1].leave
  <2>1. VisitNext(src, w) = [todo |-> Tail(s), visited |-> w.visited, order |-> Append(w.order, m)]
    BY <1>1, <1>2, <1>4 DEF VisitNext
  <2>2. QED BY <1>4, <2>1, LeaveKept
<1>5. CASE ~s[1].leave /\ m \in w.visited
  <2>1. VisitNext(src, w) = [todo |-> Tail(s), visited |-> w.visited, order |-> w.order]
    BY <1>1, <1>2, <1>5 DEF VisitNext
  <2>2. QED BY <1>5, <2>1, SkipKept
<1>6. CASE ~s[1].leave /\ m \notin w.visited
  <2> DEFINE t == Visits(src[m].imports) \o <<[mod |-> m, leave |-> TRUE]>> \o Tail(s)
  <2>1. VisitNext(src, w) = [todo |-> t, visited |-> w.visited \cup {m}, order |-> w.order]
    BY <1>1, <1>2, <1>6 DEF VisitNext
  <2>2. IsVisitedList(src, m, s, t)
    BY <1>1, <1>3, VisitedList
  <2> HIDE DEF t
  <2>3. QED BY <1>6, <2>1, <2>2, VisitKept
<1>7. QED BY <1>4, <1>5, <1>6

(* The recursive definition of the walk conforms to its equation: by       *)
(* induction, there is such a function for any number of steps.            *)
Advance(src, w) == IF w.todo = <<>> THEN w ELSE VisitNext(src, w)

IsWalk(src, walk, n) == walk = [k \in 0..n |-> IF k = 0 THEN StartWalk ELSE Advance(src, walk[k - 1])]

LEMMA WalkEquation ==
  ASSUME NEW src
  PROVE  \E walk : IsWalk(src, walk, MaxVisits) /\ InitWalk(src) = walk[MaxVisits]
<1> DEFINE Bad == {n \in Nat : ~ \E walk : IsWalk(src, walk, n)}
<1>1. Bad = {}
  <2> SUFFICES ASSUME Bad # {} PROVE FALSE
    OBVIOUS
  <2>1. PICK n \in Bad : \A k \in Bad : n <= k
    <3>1. Bad \subseteq Nat
      OBVIOUS
    <3> HIDE DEF Bad
    <3>2. QED BY <3>1, LeastExists
  <2>2. n \in Nat /\ ~ \E walk : IsWalk(src, walk, n)
    OBVIOUS
  <2>3. n # 0
    <3> DEFINE walk == [k \in 0..0 |-> StartWalk]
    <3>1. walk = [k \in 0..0 |-> IF k = 0 THEN StartWalk ELSE Advance(src, walk[k - 1])]
      OBVIOUS
    <3> HIDE DEF walk
    <3>2. IsWalk(src, walk, 0)
      BY <3>1 DEF IsWalk
    <3>3. QED BY <2>2, <3>2
  <2>4. n - 1 \in Nat /\ n - 1 \notin Bad
    <3>1. n - 1 \in Nat /\ ~(n <= n - 1)
      BY <2>2, <2>3
    <3> HIDE DEF Bad
    <3>2. QED BY <2>1, <3>1
  <2>5. PICK walk : IsWalk(src, walk, n - 1)
    BY <2>4
  <2> DEFINE longer == [k \in 0..n |-> IF k = n THEN Advance(src, walk[n - 1]) ELSE walk[k]]
  <2>6. ASSUME NEW k \in 0..n
        PROVE  longer[k] = IF k = 0 THEN StartWalk ELSE Advance(src, longer[k - 1])
    <3>1. \A i \in 0..(n - 1) : walk[i] = IF i = 0 THEN StartWalk ELSE Advance(src, walk[i - 1])
      BY <2>5 DEF IsWalk
    <3>2. \A i \in 0..(n - 1) : longer[i] = walk[i]
      BY <2>2
    <3>3. longer[n] = Advance(src, walk[n - 1]) /\ n - 1 \in 0..(n - 1)
      BY <2>2, <2>4
    <3> HIDE DEF longer
    <3>4. CASE k = n
      BY <2>3, <3>2, <3>3, <3>4
    <3>5. CASE k # n
      <4>1. k \in 0..(n - 1) /\ (k # 0 => k - 1 \in 0..(n - 1))
        BY <2>2, <3>5
      <4>2. QED BY <3>1, <3>2, <4>1
    <3>6. QED BY <3>4, <3>5
  <2>7. longer = [k \in 0..n |-> longer[k]]
    OBVIOUS
  <2> HIDE DEF longer
  <2>8. IsWalk(src, longer, n)
    BY <2>6, <2>7 DEF IsWalk
  <2>9. QED BY <2>2, <2>8
<1>2. \E walk : IsWalk(src, walk, MaxVisits)
  BY <1>1, ContentsAssumption
<1> DEFINE Conforms(walk) ==
      walk = [n \in 0..MaxVisits |->
                IF n = 0 THEN StartWalk
                ELSE IF walk[n - 1].todo = <<>> THEN walk[n - 1] ELSE VisitNext(src, walk[n - 1])]
           chosen == CHOOSE walk : Conforms(walk)
<1>3. \A walk : Conforms(walk) <=> IsWalk(src, walk, MaxVisits)
  BY DEF IsWalk, Advance
<1>4. InitWalk(src) = chosen[MaxVisits]
  BY DEF InitWalk
<1>5. Conforms(chosen)
  <2>1. \E walk : Conforms(walk)
    BY <1>2, <1>3
  <2> HIDE DEF Conforms
  <2>2. QED BY <2>1
<1>6. QED BY <1>3, <1>4, <1>5

(* Wherever the walk stops, its invariant holds.                           *)
LEMMA WalkKept == ASSUME NEW src, Closed(src) PROVE WalkInv(src, InitWalk(src))
<1>1. PICK walk : IsWalk(src, walk, MaxVisits) /\ InitWalk(src) = walk[MaxVisits]
  BY WalkEquation
<1>2. \A n \in 0..MaxVisits : walk[n] = IF n = 0 THEN StartWalk ELSE Advance(src, walk[n - 1])
  BY <1>1 DEF IsWalk
<1> DEFINE Bad == {n \in 0..MaxVisits : ~WalkInv(src, walk[n])}
<1>3. Bad = {}
  <2> SUFFICES ASSUME Bad # {} PROVE FALSE
    OBVIOUS
  <2>1. PICK n \in Bad : \A k \in Bad : n <= k
    <3>1. Bad \subseteq Nat
      OBVIOUS
    <3> HIDE DEF Bad
    <3>2. QED BY <3>1, LeastExists
  <2>2. n \in 0..MaxVisits /\ ~WalkInv(src, walk[n])
    OBVIOUS
  <2>3. n # 0
    BY <1>2, <2>2, StartKept
  <2>4. n - 1 \in 0..MaxVisits /\ ~(n <= n - 1)
    BY <2>2, <2>3, ContentsAssumption
  <2>5. n - 1 \notin Bad
    <3> HIDE DEF Bad
    <3>1. QED BY <2>1, <2>4
  <2>6. WalkInv(src, walk[n - 1])
    BY <2>4, <2>5
  <2>7. walk[n] = Advance(src, walk[n - 1])
    BY <1>2, <2>2, <2>3
  <2>8. QED BY <2>2, <2>6, <2>7, NextKept DEF Advance
<1>4. MaxVisits \in 0..MaxVisits
  BY ContentsAssumption
<1>5. QED BY <1>1, <1>3, <1>4

(* When nothing is left of it, every module of the program is in the order,*)
(* once, after what it reaches.                                            *)
LEMMA WalkEnds ==
  ASSUME NEW src, IsProgram(src), NEW w, WalkInv(src, w), w.todo = <<>>
  PROVE  /\ w.order \in Seq(DOMAIN src)
         /\ InOrder(w.order) = DOMAIN src
         /\ \A i, j \in DOMAIN w.order : i # j =>
              /\ w.order[i] # w.order[j]
              /\ w.order[i] \in Closure(src, w.order[j]) /\ Acyclic(src, w.order[j]) => i < j
<1> DEFINE o == w.order
<1>1. /\ Once(src, w.visited, w.todo, o) /\ Pending(src, w.visited, w.todo) /\ After(src, o)
      /\ o \in Seq(DOMAIN src) /\ w.visited \subseteq DOMAIN src
  BY DEF WalkInv, WalkTypes
<1>2. \A m : ~Leaves(w.todo, m) /\ ~Listed(w.todo, m)
  BY DEF Leaves, Listed
<1> HIDE DEF o
<1>3. w.visited = InOrder(o)
  <2>1. InOrder(o) \subseteq DOMAIN src
    BY <1>1 DEF InOrder
  <2>2. \A m \in DOMAIN src : m \in w.visited <=> m \in InOrder(o)
    BY <1>1, <1>2 DEF Once
  <2>3. QED BY <1>1, <2>1, <2>2
<1>4. \A m \in w.visited : ImportsOf(src, m) \subseteq w.visited
  BY <1>1, <1>3 DEF Once
<1>5. \A i \in DOMAIN MainImports : MainImports[i] \in w.visited
  BY <1>1, <1>2 DEF Pending
<1>6. DOMAIN src \subseteq w.visited
  <2>1. w.visited \in SUBSET Modules
    BY <1>1 DEF IsProgram
  <2>2. \A m \in DOMAIN src : Reached(src, m)
    BY DEF IsProgram
  <2>3. QED BY <1>4, <1>5, <2>1, <2>2 DEF Reached
<1>7. ASSUME NEW i \in DOMAIN o, NEW j \in DOMAIN o, i # j
      PROVE  /\ o[i] # o[j]
             /\ o[i] \in Closure(src, o[j]) /\ Acyclic(src, o[j]) => i < j
  BY <1>1, <1>7 DEF Once, After
<1>8. QED BY <1>1, <1>3, <1>6, <1>7 DEF o

(* The elements of two lists joined                                        *)
SameElements(t, s, r) ==
  /\ \A i \in DOMAIN t : (\E j \in DOMAIN s : t[i] = s[j]) \/ \E j \in DOMAIN r : t[i] = r[j]
  /\ \A i \in DOMAIN s : \E j \in DOMAIN t : t[j] = s[i]
  /\ \A i \in DOMAIN r : \E j \in DOMAIN t : t[j] = r[i]

LEMMA JoinedElements ==
  ASSUME NEW X, NEW s \in Seq(X), NEW r \in Seq(X)
  PROVE  s \o r \in Seq(X) /\ SameElements(s \o r, s, r)
<1> DEFINE t == s \o r
<1>1. /\ Len(s) \in Nat /\ DOMAIN s = 1..Len(s) /\ Len(r) \in Nat /\ DOMAIN r = 1..Len(r)
      /\ t \in Seq(X) /\ DOMAIN t = 1..(Len(s) + Len(r))
      /\ \A i \in 1..(Len(s) + Len(r)) : t[i] = IF i <= Len(s) THEN s[i] ELSE r[i - Len(s)]
  OBVIOUS
<1> HIDE DEF t
<1>2. \A i \in DOMAIN t : (\E j \in DOMAIN s : t[i] = s[j]) \/ \E j \in DOMAIN r : t[i] = r[j]
  <2> SUFFICES ASSUME NEW i \in DOMAIN t PROVE (\E j \in DOMAIN s : t[i] = s[j]) \/ \E j \in DOMAIN r : t[i] = r[j]
    OBVIOUS
  <2>1. CASE i <= Len(s)
    BY <1>1, <2>1
  <2>2. CASE i > Len(s)
    <3>1. i - Len(s) \in DOMAIN r /\ t[i] = r[i - Len(s)]
      BY <1>1, <2>2
    <3>2. QED BY <3>1
  <2>3. QED BY <1>1, <2>1, <2>2
<1>3. \A i \in DOMAIN s : i \in DOMAIN t /\ t[i] = s[i]
  BY <1>1
<1>4. \A i \in DOMAIN r : Len(s) + i \in DOMAIN t /\ t[Len(s) + i] = r[i]
  BY <1>1
<1>5. SameElements(t, s, r)
  BY <1>2, <1>3, <1>4 DEF SameElements
<1>6. QED BY <1>1, <1>5 DEF t

(* Reading a file of the worklist makes no less of it reached.             *)
LEMMA ReachedKept ==
  ASSUME NEW src, NEW m \in Modules \ DOMAIN src, NEW c, Reached(src, m), c.imports \in Seq(Modules)
  PROVE  LET put == Put(src, m, c)
         IN  /\ \A k : Reached(src, k) => Reached(put, k)
             /\ \A i \in DOMAIN c.imports : Reached(put, c.imports[i])
<1> DEFINE put == Put(src, m, c)
<1>1. /\ DOMAIN put = DOMAIN src \cup {m} /\ put[m] = c
      /\ \A k \in DOMAIN src : put[k] = src[k]
  BY DEF Put
<1> HIDE DEF put
<1>2. \A k \in DOMAIN src : ImportsOf(put, k) = ImportsOf(src, k)
  BY <1>1 DEF ImportsOf
<1>3. ASSUME NEW k, Reached(src, k) PROVE Reached(put, k)
  BY <1>1, <1>2, <1>3 DEF Reached
<1>4. ASSUME NEW i \in DOMAIN c.imports PROVE Reached(put, c.imports[i])
  <2>1. c.imports[i] \in ImportsOf(put, m) /\ m \in DOMAIN put
    BY <1>1 DEF ImportsOf
  <2>2. Reached(put, m)
    BY <1>3
  <2>3. QED BY <2>1, <2>2 DEF Reached
<1>5. QED BY <1>3, <1>4 DEF put

(* A build that reads one more file of its worklist still reads so.        *)
LEMMA ReadKept ==
  ASSUME NEW s, NEW src, IsReading(s, src), s # <<>>,
         NEW c, c.imports \in Seq(Modules)
  PROVE  LET m == s[Len(s)]
             rest == SubSeq(s, 1, Len(s) - 1)
         IN  /\ m \in Modules
             /\ m \in DOMAIN src => IsReading(rest, src)
             /\ m \notin DOMAIN src => IsReading(rest \o c.imports, Put(src, m, c))
<1> DEFINE m == s[Len(s)]
           rest == SubSeq(s, 1, Len(s) - 1)
           p == c.imports
           more == rest \o p
           put == Put(src, m, c)
<1>1. /\ s \in Seq(Modules) /\ DOMAIN src \subseteq Modules
      /\ \A k \in DOMAIN src : src[k].imports \in Seq(Modules) /\ Reached(src, k)
      /\ \A i \in DOMAIN s : Reached(src, s[i])
      /\ \A i \in DOMAIN MainImports : Known(DOMAIN src, s, MainImports[i])
      /\ \A k \in DOMAIN src : \A d \in ImportsOf(src, k) : Known(DOMAIN src, s, d)
  BY DEF IsReading
<1>2. Len(s) \in Nat /\ Len(s) # 0 /\ DOMAIN s = 1..Len(s)
  BY <1>1
<1>3. m \in Modules /\ Len(s) \in DOMAIN s
  BY <1>1, <1>2
<1>4. /\ rest \in Seq(Modules) /\ DOMAIN rest = 1..(Len(s) - 1)
      /\ \A i \in 1..(Len(s) - 1) : rest[i] = s[i]
  BY <1>1, <1>2
<1>5. /\ \A i \in 1..(Len(s) - 1) : i \in DOMAIN s
      /\ \A i \in DOMAIN s : i = Len(s) \/ i \in 1..(Len(s) - 1)
  BY <1>2
<1>6. Reached(src, m) /\ \A i \in DOMAIN rest : Reached(src, rest[i])
  BY <1>1, <1>3, <1>4, <1>5
<1> HIDE DEF rest
<1>7. \A d : Known(DOMAIN src, s, d) => d = m \/ Known(DOMAIN src, rest, d)
  BY <1>4, <1>5 DEF Known
<1> HIDE DEF m
<1>8. ASSUME m \in DOMAIN src PROVE IsReading(rest, src)
  <2>1. \A d : Known(DOMAIN src, s, d) => Known(DOMAIN src, rest, d)
    BY <1>7, <1>8 DEF Known
  <2>2. QED BY <1>1, <1>4, <1>6, <2>1 DEF IsReading
<1>9. ASSUME m \notin DOMAIN src PROVE IsReading(more, put)
  <2>1. /\ DOMAIN put = DOMAIN src \cup {m} /\ put[m] = c
        /\ \A k \in DOMAIN src : put[k] = src[k]
    BY <1>9 DEF Put
  <2>2. /\ \A k : Reached(src, k) => Reached(put, k)
        /\ \A i \in DOMAIN p : Reached(put, p[i])
    BY <1>3, <1>6, <1>9, ReachedKept
  <2> HIDE DEF put, p
  <2>3. more \in Seq(Modules) /\ SameElements(more, rest, p)
    <3>1. rest \in Seq(Modules) /\ p \in Seq(Modules)
      BY <1>4 DEF p
    <3>2. QED BY <3>1, JoinedElements
  <2> HIDE DEF more
  <2>4. \A i \in DOMAIN more : Reached(put, more[i])
    BY <1>6, <2>2, <2>3 DEF SameElements
  <2>5. \A d : Known(DOMAIN src, s, d) => Known(DOMAIN put, more, d)
    BY <1>7, <2>1, <2>3 DEF Known, SameElements
  <2>6. \A k \in DOMAIN src : ImportsOf(put, k) = ImportsOf(src, k)
    BY <2>1 DEF ImportsOf
  <2>7. \A d \in ImportsOf(put, m) : Known(DOMAIN put, more, d)
    BY <2>1, <2>3 DEF ImportsOf, Known, SameElements, p
  <2>8. /\ \A i \in DOMAIN MainImports : Known(DOMAIN put, more, MainImports[i])
        /\ \A k \in DOMAIN put : \A d \in ImportsOf(put, k) : Known(DOMAIN put, more, d)
    BY <1>1, <2>1, <2>5, <2>6, <2>7
  <2>9. /\ DOMAIN put \subseteq Modules
        /\ \A k \in DOMAIN put : put[k].imports \in Seq(Modules) /\ Reached(put, k)
    BY <1>1, <1>3, <1>6, <2>1, <2>2
  <2>10. QED BY <2>3, <2>4, <2>8, <2>9 DEF IsReading
<1>10. QED BY <1>3, <1>8, <1>9 DEF m, rest, p, more, put

(* The build that has read all is of a whole program.                      *)
LEMMA ReadAll ==
  ASSUME NEW src, IsReading(<<>>, src)
  PROVE  IsProgram(src)
<1>1. /\ DOMAIN src \subseteq Modules
      /\ \A m \in DOMAIN src : src[m].imports \in Seq(Modules) /\ Reached(src, m)
      /\ \A i \in DOMAIN MainImports : MainImports[i] \in DOMAIN src
      /\ \A m \in DOMAIN src : ImportsOf(src, m) \subseteq DOMAIN src
  BY DEF IsReading, Known
<1>2. MainImports \in Seq(DOMAIN src)
  BY <1>1, ContentsAssumption
<1>3. ASSUME NEW m \in DOMAIN src PROVE src[m].imports \in Seq(DOMAIN src)
  <2>1. \A i \in DOMAIN src[m].imports : src[m].imports[i] \in DOMAIN src
    BY <1>1 DEF ImportsOf
  <2>2. src[m].imports \in Seq(Modules)
    BY <1>1
  <2>3. QED BY <2>1, <2>2
<1>4. QED BY <1>1, <1>2, <1>3 DEF IsProgram, Closed

LEMMA LinkNextInv == CheckInv /\ TextInv /\ LinkInv /\ [BuildNext]_buildVars => LinkInv'
<1> SUFFICES ASSUME CheckInv, TextInv, LinkInv, [BuildNext]_buildVars PROVE LinkInv'
  OBVIOUS
<1> DEFINE FilesKnown == /\ files \in [Modules -> UNION {Contents[m] : m \in Modules}]
                         /\ \A m \in Modules : files[m] \in Contents[m]
           Built == /\ build.phase = "read" => IsRead(build)
                    /\ build.phase \in {"check", "emit", "linked"} => IsProgram(build.src)
                    /\ ImportsInitFirst
<1>1. FilesKnown /\ Built
  BY DEF LinkInv
<1>2. ASSUME FilesKnown', Built' PROVE LinkInv'
  BY <1>2 DEF LinkInv
<1>3. UNCHANGED files => FilesKnown'
  BY <1>1
<1>4. UNCHANGED build => Built'
  BY <1>1 DEF ImportsInitFirst
<1>5. build' = NoBuild => Built'
  BY DEF NoBuild, ImportsInitFirst
<1>6. ASSUME build'.phase \in {"check", "emit"}, IsProgram(build'.src) PROVE Built'
  BY <1>6 DEF ImportsInitFirst, IsProgram, Closed, Reached
<1> HIDE DEF FilesKnown, Built
<1>7. CASE Start
  <2> DEFINE b == [phase |-> "read", work |-> MainImports, subs |-> subs, src |-> <<>>]
  <2>1. build' = b /\ UNCHANGED files
    BY <1>7 DEF Start
  <2>2. b.phase = "read" /\ b.work = MainImports /\ b.src = <<>> /\ b.subs = subs /\ DOMAIN b.src = {}
    OBVIOUS
  <2>3. \A i \in DOMAIN MainImports : Reached(b.src, MainImports[i])
    BY DEF Reached
  <2>4. IsRead(b)
    <3> HIDE DEF b
    <3>1. b = [phase |-> "read", work |-> b.work, subs |-> b.subs, src |-> b.src]
      BY <2>2 DEF b
    <3>2. IsReading(MainImports, b.src)
      BY <2>2, <2>3, ContentsAssumption DEF IsReading, Known
    <3>3. QED BY <2>2, <3>1, <3>2 DEF IsRead
  <2>5. Built'
    BY <2>1, <2>2, <2>4 DEF Built, ImportsInitFirst, IsRead, IsReading, Reached
  <2>6. QED BY <1>2, <1>3, <2>1, <2>5
<1>8. CASE ReadModule
  <2> DEFINE m == build.work[Len(build.work)]
             rest == SubSeq(build.work, 1, Len(build.work) - 1)
  <2>1. /\ build.phase = "read" /\ build.work # <<>> /\ UNCHANGED files
        /\ build' = IF m \in DOMAIN build.src THEN [build EXCEPT !.work = rest]
                    ELSE [build EXCEPT !.work = rest \o files[m].imports, !.src = Put(@, m, files[m])]
    BY <1>8 DEF ReadModule
  <2>2. IsRead(build) /\ IsReading(build.work, build.src)
    BY <1>1, <2>1 DEF Built, IsRead
  <2>3. m \in Modules
    <3>1. build.work \in Seq(Modules)
      BY <2>2 DEF IsReading
    <3>2. QED BY <2>1, <3>1
  <2>4. files[m].imports \in Seq(Modules)
    BY <1>1, <2>3, ContentsAssumption DEF FilesKnown
  <2>5. /\ m \in DOMAIN build.src => IsReading(rest, build.src)
        /\ m \notin DOMAIN build.src => IsReading(rest \o files[m].imports, Put(build.src, m, files[m]))
    BY <2>1, <2>2, <2>4, ReadKept
  <2>6. build'.phase = "read" /\ IsRead(build')
    <3> DEFINE more == rest \o files[m].imports
               put == Put(build.src, m, files[m])
    <3>1. build = [phase |-> "read", work |-> build.work, subs |-> build.subs, src |-> build.src]
      BY <2>2 DEF IsRead
    <3>2. m \in DOMAIN build.src =>
            build' = [phase |-> "read", work |-> rest, subs |-> build.subs, src |-> build.src]
      BY <2>1, <3>1
    <3>3. m \notin DOMAIN build.src =>
            build' = [phase |-> "read", work |-> more, subs |-> build.subs, src |-> put]
      <4> HIDE DEF m, rest
      <4>1. QED BY <2>1, <3>1
    <3> HIDE DEF m, rest, more, put
    <3>4. CASE m \in DOMAIN build.src
      BY <2>5, <3>2, <3>4 DEF IsRead
    <3>5. CASE m \notin DOMAIN build.src
      <4>1. IsReading(more, put)
        BY <2>5, <3>5 DEF more, put
      <4>2. QED BY <3>3, <3>5, <4>1 DEF IsRead
    <3>6. QED BY <3>4, <3>5
  <2>7. Built'
    BY <2>5, <2>6 DEF Built, ImportsInitFirst, IsRead, IsReading, Reached
  <2>8. QED BY <1>2, <1>3, <2>1, <2>7
<1>9. CASE Resolved
  <2>1. IsProgram(build.src)
    BY <1>1, <1>9, ReadAll DEF Resolved, Built, IsRead
  <2>2. build'.phase = "check" /\ build'.src = build.src /\ UNCHANGED files
    BY <1>9 DEF Resolved
  <2>3. QED BY <1>2, <1>3, <1>6, <2>1, <2>2
<1>10. ASSUME NEW m \in Modules, CheckModule(m) PROVE LinkInv'
  <2> DEFINE left == [build EXCEPT !.todo = @ \ {m}]
  <2>1. build.phase = "check" /\ IsCheck(build) /\ IsProgram(build.src)
    BY <1>1, <1>10 DEF CheckModule, CheckInv, Built
  <2>2. left = [phase |-> "check", src |-> build.src, subs |-> build.subs,
                todo |-> build.todo \ {m}, skipped |-> build.skipped, bad |-> build.bad]
    BY <2>1 DEF IsCheck
  <2>3. /\ [left EXCEPT !.skipped = @ \cup {m}].phase = "check" /\ [left EXCEPT !.skipped = @ \cup {m}].src = build.src
        /\ [left EXCEPT !.bad = TRUE].phase = "check" /\ [left EXCEPT !.bad = TRUE].src = build.src
        /\ left.phase = "check" /\ left.src = build.src
    BY <2>2
  <2>4. build'.phase = "check" /\ build'.src = build.src /\ UNCHANGED files
    BY <1>10, <2>3 DEF CheckModule
  <2>5. QED BY <1>2, <1>3, <1>6, <2>1, <2>4
<1>11. CASE Checked
  <2>1. build.phase = "check" /\ IsProgram(build.src) /\ UNCHANGED files
    BY <1>1, <1>11 DEF Checked, Built
  <2>2. build' = NoBuild \/ (build'.phase = "emit" /\ build'.src = build.src)
    BY <1>11 DEF Checked
  <2>3. QED BY <1>2, <1>3, <1>5, <1>6, <2>1, <2>2
<1>12. ASSUME NEW m \in Modules, EmitLibrary(m) PROVE LinkInv'
  <2>1. build.phase = "emit" /\ IsEmit(build) /\ IsProgram(build.src) /\ UNCHANGED files
    BY <1>1, <1>12 DEF EmitLibrary, TextInv, Built
  <2>2. build'.phase = "emit" /\ build'.src = build.src
    BY <1>12, <2>1 DEF EmitLibrary, IsEmit
  <2>3. QED BY <1>2, <1>3, <1>6, <2>1, <2>2
<1>13. CASE Link
  <2> DEFINE w == InitWalk(build.src)
  <2>1. /\ build.phase = "emit" /\ w.todo = <<>> /\ UNCHANGED files
        /\ build' = [phase |-> "linked", src |-> build.src, order |-> w.order]
    BY <1>13 DEF Link
  <2>2. IsProgram(build.src)
    BY <1>1, <2>1 DEF Built
  <2>3. WalkInv(build.src, w)
    BY <2>2, WalkKept DEF IsProgram
  <2> HIDE DEF w
  <2>4. /\ InOrder(w.order) = DOMAIN build.src
        /\ \A i, j \in DOMAIN w.order : i # j =>
              /\ w.order[i] # w.order[j]
              /\ w.order[i] \in Closure(build.src, w.order[j]) /\ Acyclic(build.src, w.order[j]) => i < j
    BY <2>1, <2>2, <2>3, WalkEnds
  <2>5. build'.phase = "linked" /\ build'.src = build.src /\ build'.order = w.order
    BY <2>1
  <2>6. ImportsInitFirst'
    BY <2>4, <2>5 DEF ImportsInitFirst, InOrder
  <2>7. IsProgram(build'.src)
    BY <2>2, <2>5
  <2>8. Built'
    BY <2>5, <2>6, <2>7 DEF Built, IsProgram, Closed, Reached
  <2>9. QED BY <1>2, <1>3, <2>1, <2>8
<1>14. CASE Finish \/ Abort
  BY <1>2, <1>3, <1>5, <1>14 DEF Finish, Abort
<1>15. ASSUME NEW m \in Modules, NEW c \in Contents[m], Edit(m, c) PROVE LinkInv'
  <2>1. files' = [files EXCEPT ![m] = c] /\ UNCHANGED build
    BY <1>15 DEF Edit
  <2>2. FilesKnown'
    BY <1>1, <2>1 DEF FilesKnown
  <2>3. QED BY <1>2, <1>4, <2>1, <2>2
<1>16. ASSUME NEW S \in Extends, EditMain(S) PROVE LinkInv'
  BY <1>2, <1>3, <1>4, <1>16 DEF EditMain
<1>17. CASE UNCHANGED buildVars
  BY <1>2, <1>3, <1>4, <1>17 DEF buildVars
<1>18. QED
  BY <1>7, <1>8, <1>9, <1>10, <1>11, <1>12, <1>13, <1>14, <1>15, <1>16, <1>17 DEF BuildNext

(* For any contents of the libraries, import cycles among them or not, and *)
(* any edits while builds run: the modules of a program are initialised    *)
(* once each, and one that reaches no cycle after all that it reaches.     *)
THEOREM ImportsInitFirstHolds == BuildSpec => []ImportsInitFirst
<1>1. BuildInit => CheckInv /\ TextInv /\ LinkInv
  BY DEF BuildInit, CheckInv, TextInv, LinkInv, NoBuild, ImportsInitFirst
<1>2. LinkInv => ImportsInitFirst
  BY DEF LinkInv
<1>3. QED BY <1>1, <1>2, CheckNextInv, TextNextInv, LinkNextInv, PTL DEF BuildSpec

(* ------------------------------- Go names -------------------------------- *)

(* The modules whose definitions are named, as NameInit gives them         *)
ThreeModules == DOMAIN symbols = {"lib", "sub", "here"}

LEMMA DefinitionIsPair ==
  ASSUME ThreeModules, NEW d \in Definitions
  PROVE  d = <<d[1], d[2]>> /\ d[1] \in {"lib", "sub", "here"} /\ d[2] \in DOMAIN symbols[d[1]]
BY DEF ThreeModules, Definitions

(* Equal Go names carry the same tag: both are renamed, in one module, or  *)
(* neither is.                                                             *)
LEMMA GoNameParts ==
  ASSUME ThreeModules, NEW d \in Definitions, NEW e \in Definitions, GoName(d) = GoName(e)
  PROVE  /\ DefaultGo(d) = DefaultGo(e)
         /\ Renamed(d) <=> Renamed(e)
         /\ Renamed(d) => d[1] = e[1]
BY DefinitionIsPair DEF GoName, Plain, Tagged

LEMMA NamesApart == ThreeModules => GoNamesApart
<1> SUFFICES ASSUME ThreeModules, NEW d \in Definitions, NEW e \in Definitions,
                    d # e, GoName(d) = GoName(e)
             PROVE  /\ d[1] = e[1]
                    /\ Kind(d) = "const" => Kind(e) # "const" /\ Clashes(e) /\ ~Pinned(e)
  BY DEF GoNamesApart
<1>1. DefaultGo(d) = DefaultGo(e)
  BY GoNameParts
<1>2. d[1] = e[1]
  <2> SUFFICES ASSUME d[1] # e[1] PROVE FALSE
    OBVIOUS
  <2>1. Clashes(d) /\ Clashes(e)
    BY <1>1 DEF Clashes
  <2>2. Renamed(d) \/ Renamed(e)
    BY <2>1 DEF Renamed, Pinned
  <2>3. QED BY <2>2, GoNameParts
<1>3. ASSUME Kind(d) = "const" PROVE Kind(e) # "const" /\ Clashes(e) /\ ~Pinned(e)
  <2>1. Kind(e) # "const"
    BY <1>1, <1>2, <1>3, DefinitionIsPair DEF DefaultGo
  <2>2. ValueClashes(d)
    BY <1>1, <1>2, <1>3 DEF ValueClashes
  <2>3. Renamed(e)
    BY <2>2, GoNameParts DEF Renamed
  <2>4. QED BY <2>1, <2>3 DEF Renamed, ValueClashes
<1>4. QED BY <1>2, <1>3

(* The Go identifiers of definitions stay apart, whatever kinds there are. *)
THEOREM GoNamesApartHolds == NameSpec => []GoNamesApart
<1>1. NameInit => ThreeModules
  BY DEF NameInit, ThreeModules
<1>2. ThreeModules /\ [NameNext]_nameVars => ThreeModules'
  BY DEF NameNext, HandleBinding, nameVars, ThreeModules
<1>3. QED BY <1>1, <1>2, NamesApart, PTL DEF NameSpec

(* -------------------------- the plan of imports -------------------------- *)

(* Programs with any definitions and any number of imports, of any names    *)
(* and under any: here names each differently, and not like a definition   *)
(* of its own.                                                             *)
IsImport(b) ==
  \/ \E q \in Libraries : \E n \in DOMAIN symbols[q] \cup relayed :
       InLibrary(q, n) # Nothing /\ b = From(q, n, b.local)
  \/ \E q \in Libraries : \E ms \in SUBSET Exported(q) : b = Whole(q, ms)

Linked ==
  /\ ThreeModules /\ relayed \subseteq DOMAIN symbols["sub"]
  /\ bindings \in Seq({bindings[i] : i \in DOMAIN bindings})
  /\ \A i \in DOMAIN bindings : IsImport(bindings[i])
  /\ \A i, j \in DOMAIN bindings : i # j => bindings[i].local # bindings[j].local
  /\ ImportedNames \cap OwnNames = {}

(* What an import names is a definition of that name in a library.         *)
LEMMA ImportFacts ==
  ASSUME Linked, NEW i \in DOMAIN bindings
  PROVE  LET b == bindings[i]
         IN  /\ b.local \in ImportedNames /\ b.whole \in BOOLEAN
             /\ b.whole => b.local = "p" /\ b.of \subseteq {"x", "X"}
             /\ ~b.whole => (CHOOSE n \in b.of : TRUE) \in b.of /\ b.of = {CHOOSE n \in b.of : TRUE}
             /\ \A m \in b.of : LET d == InLibrary(b.module, m)
                                IN  d \in Definitions /\ d[1] \in Libraries /\ d[2] = m /\ d # Nothing
<1> DEFINE b == bindings[i]
<1>1. IsImport(b) /\ b.local \in ImportedNames
  BY DEF Linked, ImportedNames
<1> HIDE DEF b
<1>2. ASSUME NEW q \in Libraries, NEW n, InLibrary(q, n) # Nothing
      PROVE  LET d == InLibrary(q, n) IN d \in Definitions /\ d[1] \in Libraries /\ d[2] = n
  <2>1. n \in DOMAIN symbols[q] \/ (q = "lib" /\ n \in relayed)
    BY <1>2 DEF InLibrary
  <2>2. q \in DOMAIN symbols /\ "sub" \in DOMAIN symbols
    BY DEF Linked, ThreeModules, Libraries
  <2>3. CASE n \in DOMAIN symbols[q]
    BY <2>2, <2>3 DEF InLibrary, Definitions, Libraries
  <2>4. CASE n \notin DOMAIN symbols[q]
    <3>1. n \in DOMAIN symbols["sub"] /\ InLibrary(q, n) = <<"sub", n>>
      BY <2>1, <2>4 DEF InLibrary, Linked
    <3>2. QED BY <2>2, <3>1 DEF Definitions, Libraries
  <2>5. QED BY <2>3, <2>4
<1>3. CASE \E q \in Libraries : \E n \in DOMAIN symbols[q] \cup relayed :
             InLibrary(q, n) # Nothing /\ b = From(q, n, b.local)
  <2>0. PICK q \in Libraries : \E n \in DOMAIN symbols[q] \cup relayed :
                                InLibrary(q, n) # Nothing /\ b = From(q, n, b.local)
    BY <1>3
  <2>1. PICK n \in DOMAIN symbols[q] \cup relayed : InLibrary(q, n) # Nothing /\ b = From(q, n, b.local)
    BY <2>0
  <2>2. b.module = q /\ ~b.whole /\ b.of = {n} /\ (CHOOSE k \in b.of : TRUE) = n /\ b.whole \in BOOLEAN
    <3> DEFINE l == b.local
    <3> HIDE DEF l
    <3>1. b = From(q, n, l)
      BY <2>1 DEF l
    <3>2. QED BY <3>1 DEF From
  <2>3. QED BY <1>1, <1>2, <2>1, <2>2 DEF b
<1>4. CASE \E q \in Libraries : \E ms \in SUBSET Exported(q) : b = Whole(q, ms)
  <2>0. PICK q \in Libraries : \E ms \in SUBSET Exported(q) : b = Whole(q, ms)
    BY <1>4
  <2>1. PICK ms \in SUBSET Exported(q) : b = Whole(q, ms)
    BY <2>0
  <2>2. b.module = q /\ b.whole /\ b.of = ms /\ b.local = "p" /\ b.whole \in BOOLEAN
    BY <2>1 DEF Whole
  <2>3. ms \subseteq {"x", "X"} /\ \A m \in ms : InLibrary(q, m) # Nothing
    BY <2>1 DEF Exported, Names3
  <2>4. QED BY <1>1, <1>2, <2>2, <2>3 DEF b
<1>5. QED BY <1>1, <1>3, <1>4 DEF IsImport

(* Names with equal parts are equal.                                       *)
LEMMA PlainFact ==
  ASSUME NEW m, NEW n, Plain(m) = Plain(n)
  PROVE  m = n
BY DEF Plain

LEMMA PlainName ==
  ASSUME NEW n
  PROVE  Plain(n).name = n
BY DEF Plain

LEMMA PlainTagged ==
  ASSUME NEW m, NEW n, NEW t, t # ""
  PROVE  Plain(m) # Tagged(n, t)
BY DEF Plain, Tagged

(* A name of a type in Lam is that of one type.                            *)
LEMMA LamNameFacts ==
  ASSUME ThreeModules, NEW d \in Definitions
  PROVE  /\ Renamed(d) => LamName(d) = Tagged(d[2], d[1]) /\ \A n : LamName(d) # Plain(n)
         /\ ~Renamed(d) => LamName(d) = Plain(d[2])
<1>1. d[1] # ""
  BY DefinitionIsPair
<1>2. QED BY <1>1, PlainTagged DEF LamName

(* What the plan says of a name that was claimed for a definition: own     *)
(* names stand for themselves, a plain name that is not imported for a     *)
(* definition so named, one that carries a module for its definition.      *)
ClaimsOK(claimed) ==
  /\ \A n \in OwnNames : Plain(n) \in DOMAIN claimed /\ claimed[Plain(n)] = <<"here", n>>
  /\ \A k \in DOMAIN claimed : claimed[k] \in Definitions
  /\ \A n : Plain(n) \in DOMAIN claimed => n \in ImportedNames \/ claimed[Plain(n)][2] = n
  /\ \A d \in Definitions : Tagged(d[2], d[1]) \in DOMAIN claimed => claimed[Tagged(d[2], d[1])] = d

(* The Go identifiers of functions and consts                              *)
GoOK(claimed, go) ==
  /\ \A k \in DOMAIN go : k \in DOMAIN claimed /\ go[k] = GoName(claimed[k])
  /\ \A k \in DOMAIN claimed \ DOMAIN go :
       Kind(claimed[k]) = "class" \/ (k = Plain(claimed[k][2]) /\ ~Renamed(claimed[k]))

\* k is rewritten to the Lam name of the type that it was claimed for.
ToType(claimed, rewrites, k) ==
  k \in DOMAIN claimed /\ Kind(claimed[k]) = "class" /\ rewrites[k] = LamName(claimed[k])

RewritesOK(claimed, rewrites) ==
  \A k \in DOMAIN rewrites :
    \E n : k = Plain(n) /\ (n \in ImportedNames \/ ToType(claimed, rewrites, k))

Sound(c, r, g) == ClaimsOK(c) /\ GoOK(c, g) /\ RewritesOK(c, r)

\* k leads to what it was claimed for.
Settled(claimed, rewrites, k) ==
  /\ k \in DOMAIN claimed
  /\ k \in DOMAIN rewrites => ToType(claimed, rewrites, k)
  /\ k \notin DOMAIN rewrites /\ Kind(claimed[k]) = "class" => k = LamName(claimed[k])

(* An import of a name either goes to that name, where it is free, or      *)
(* stands for the definition itself.                                       *)
NamedOK(claimed, rewrites, b) ==
  LET m == CHOOSE n \in b.of : TRUE
      d == InLibrary(b.module, m)
      l == Plain(b.local)
  IN  \/ /\ l \in DOMAIN rewrites /\ rewrites[l] = Plain(m) /\ m \notin ImportedNames
         /\ Settled(claimed, rewrites, Plain(m)) /\ claimed[Plain(m)] = d
      \/ /\ Settled(claimed, rewrites, l) /\ claimed[l] = d
         /\ Kind(d) = "class" => l = LamName(d) \/ Renamed(d) \/ m \notin ImportedNames

MemberOK(claimed, access, b, m) ==
  LET d == InLibrary(b.module, m)
  IN  /\ m \in DOMAIN access /\ access[m] \in DOMAIN claimed /\ claimed[access[m]] = d
      /\ Kind(d) = "class" => access[m] = LamName(d)

BindingOK(p, b) ==
  IF b.whole THEN \A m \in b.of : MemberOK(p.claimed, p.access, b, m) ELSE NamedOK(p.claimed, p.rewrites, b)

(* A plan that did not fail                                                *)
Going == FALSE
PlanOf(c, r, g, a) == [claimed |-> c, rewrites |-> r, go |-> g, access |-> a, failed |-> Going]

PlanOK(p) ==
  /\ p = PlanOf(p.claimed, p.rewrites, p.go, p.access) /\ Sound(p.claimed, p.rewrites, p.go)
  /\ \A n \in OwnNames : Settled(p.claimed, p.rewrites, Plain(n))

(* The plan after n imports: they reach their definitions, and the names   *)
(* of those to come are not rewritten yet.                                 *)
PlannedUpTo(p, n) ==
  /\ PlanOK(p)
  /\ \A i \in 1..n : BindingOK(p, bindings[i])
  /\ \A i \in (n + 1)..Len(bindings) : Plain(bindings[i].local) \notin DOMAIN p.rewrites

NameInv == Linked /\ bound \in 0..Len(bindings) /\ (~plan.failed => PlannedUpTo(plan, bound))

(* A step adds claims, and rewrites the name of the import in hand or a    *)
(* name that is not imported to its type.                                  *)
Grown(claimed, claims) ==
  /\ DOMAIN claimed \subseteq DOMAIN claims
  /\ \A k \in DOMAIN claimed : claims[k] = claimed[k]

Redirected(claims, rewrites, news, l) ==
  /\ DOMAIN rewrites \subseteq DOMAIN news
  /\ \A k \in DOMAIN news :
       \/ k \in DOMAIN rewrites /\ news[k] = rewrites[k]
       \/ k = Plain(l)
       \/ ToType(claims, news, k) /\ \E n : k = Plain(n) /\ n \notin ImportedNames

(* ------------------------------ registering ----------------------------- *)

(* A name that a registration may be made under                            *)
MayName(n, d) ==
  \/ \E l : n = Plain(l) /\ (l \in ImportedNames \/ l = d[2])
  \/ n = Tagged(d[2], "p")
  \/ n = LamName(d)

(* Claiming a name that is free, or the definition's already, keeps what   *)
(* the plan says of the claims.                                            *)
LEMMA ClaimGrows ==
  ASSUME NEW c, NEW n, NEW d, n \in DOMAIN c => c[n] = d
  PROVE  Grown(c, With(c, n, d)) /\ n \in DOMAIN With(c, n, d) /\ With(c, n, d)[n] = d
BY DEF With, Grown

LEMMA ClaimFree ==
  ASSUME NEW p, ClaimsOK(p.claimed), NEW n, NEW d \in Definitions, ClaimOf(p, n) \in {Nothing, d}
  PROVE  n \in DOMAIN p.claimed => p.claimed[n] = d
<1>1. \A e \in Definitions : e # Nothing
  BY DEF Definitions, Nothing
<1>2. QED BY <1>1 DEF ClaimOf, ClaimsOK

LEMMA ClaimsKept ==
  ASSUME ThreeModules, NEW c, ClaimsOK(c), NEW n, NEW d \in Definitions,
         n \in DOMAIN c => c[n] = d, MayName(n, d)
  PROVE  ClaimsOK(With(c, n, d))
<1> DEFINE claims == With(c, n, d)
<1>0. /\ DOMAIN claims = DOMAIN c \cup {n} /\ claims[n] = d
      /\ \A k \in DOMAIN c : claims[k] = c[k]
  BY DEF With
<1> HIDE DEF claims
<1>1. \A k \in OwnNames : Plain(k) \in DOMAIN claims /\ claims[Plain(k)] = <<"here", k>>
  BY <1>0 DEF ClaimsOK
<1>2. \A k \in DOMAIN claims : claims[k] \in Definitions
  BY <1>0 DEF ClaimsOK
<1>3. ASSUME NEW k, Plain(k) \in DOMAIN claims
      PROVE  k \in ImportedNames \/ claims[Plain(k)][2] = k
  <2>1. CASE Plain(k) \in DOMAIN c
    BY <1>0, <2>1 DEF ClaimsOK
  <2>2. CASE Plain(k) = n
    <3>1. CASE \E l : n = Plain(l) /\ (l \in ImportedNames \/ l = d[2])
      BY <1>0, <2>2, <3>1 DEF Plain
    <3>2. CASE n = Tagged(d[2], "p")
      BY <2>2, <3>2, PlainTagged
    <3>3. CASE n = LamName(d)
      BY <1>0, <2>2, <3>3, LamNameFacts, PlainFact
    <3>4. QED BY <3>1, <3>2, <3>3 DEF MayName
  <2>3. QED BY <1>0, <1>3, <2>1, <2>2
<1>4. ASSUME NEW e \in Definitions, Tagged(e[2], e[1]) \in DOMAIN claims
      PROVE  claims[Tagged(e[2], e[1])] = e
  <2>1. e = <<e[1], e[2]>> /\ e[1] \in {"lib", "sub", "here"} /\ d = <<d[1], d[2]>>
    BY DefinitionIsPair
  <2>2. CASE Tagged(e[2], e[1]) \in DOMAIN c
    BY <1>0, <2>2 DEF ClaimsOK
  <2>3. CASE Tagged(e[2], e[1]) = n
    <3>1. \A l : n # Plain(l)
      BY <2>1, <2>3 DEF Plain, Tagged
    <3>2. n # Tagged(d[2], "p")
      BY <2>1, <2>3 DEF Plain, Tagged
    <3>3. n = LamName(d) /\ Renamed(d)
      BY <3>1, <3>2, LamNameFacts DEF MayName
    <3>4. e[2] = d[2] /\ e[1] = d[1]
      BY <2>3, <3>3, LamNameFacts DEF Tagged
    <3>5. QED BY <1>0, <2>1, <2>3, <3>4
  <2>4. QED BY <1>0, <1>4, <2>2, <2>3
<1>5. QED BY <1>1, <1>2, <1>3, <1>4 DEF ClaimsOK, claims

LEMMA GoKept ==
  ASSUME NEW c, NEW g, GoOK(c, g), NEW n, NEW d, n \in DOMAIN c => c[n] = d
  PROVE  /\ Kind(d) = "class" \/ (n = Plain(d[2]) /\ ~Renamed(d)) => GoOK(With(c, n, d), g)
         /\ GoOK(With(c, n, d), With(g, n, GoName(d)))
<1> DEFINE claims == With(c, n, d)
           gos == With(g, n, GoName(d))
<1>0. /\ DOMAIN claims = DOMAIN c \cup {n} /\ claims[n] = d
      /\ \A k \in DOMAIN c : claims[k] = c[k]
  BY DEF With
<1>1. /\ DOMAIN gos = DOMAIN g \cup {n} /\ gos[n] = GoName(d)
      /\ \A k \in DOMAIN g : k # n => gos[k] = g[k]
  BY DEF With
<1> HIDE DEF claims, gos
<1>2. GoOK(claims, gos)
  BY <1>0, <1>1 DEF GoOK
<1>3. ASSUME Kind(d) = "class" \/ (n = Plain(d[2]) /\ ~Renamed(d)) PROVE GoOK(claims, g)
  BY <1>0, <1>3 DEF GoOK
<1>4. QED BY <1>2, <1>3 DEF claims, gos

(* A registration that is not refused claims the name and, where the       *)
(* definition is known by another, notes that one.                         *)
Registered(c, r, g, n, d, news, gos) ==
  /\ Kind(d) = "class" =>
       \/ gos = g /\ n = LamName(d) /\ news = r
       \/ gos = g /\ news = With(r, n, LamName(d))
  /\ Kind(d) # "class" =>
       /\ news = r
       /\ \/ gos = g /\ n = Plain(d[2]) /\ ~Renamed(d)
          \/ gos = With(g, n, GoName(d))
  /\ Kind(d) = "class" => n \in {LamName(d), Plain(d[2])} \/ Renamed(d) \/ ~Taken(Plain(d[2]))

LEMMA ClaimMade ==
  ASSUME NEW c, NEW r, NEW g, NEW a, NEW n, NEW v
  PROVE  [PlanOf(c, r, g, a) EXCEPT !.claimed = With(@, n, v)] = PlanOf(With(c, n, v), r, g, a)
<1> DEFINE p == PlanOf(c, r, g, a)
<1>1. p.claimed = c /\ \A w : [p EXCEPT !.claimed = w] = PlanOf(w, r, g, a)
  BY DEF PlanOf
<1> HIDE DEF p
<1>2. QED BY <1>1 DEF p

LEMMA RewriteMade ==
  ASSUME NEW c, NEW r, NEW g, NEW a, NEW n, NEW v
  PROVE  [PlanOf(c, r, g, a) EXCEPT !.rewrites = With(@, n, v)] = PlanOf(c, With(r, n, v), g, a)
<1> DEFINE p == PlanOf(c, r, g, a)
<1>1. p.rewrites = r /\ \A w : [p EXCEPT !.rewrites = w] = PlanOf(c, w, g, a)
  BY DEF PlanOf
<1> HIDE DEF p
<1>2. QED BY <1>1 DEF p

LEMMA GoMade ==
  ASSUME NEW c, NEW r, NEW g, NEW a, NEW n, NEW v
  PROVE  [PlanOf(c, r, g, a) EXCEPT !.go = With(@, n, v)] = PlanOf(c, r, With(g, n, v), a)
<1> DEFINE p == PlanOf(c, r, g, a)
<1>1. p.go = g /\ \A w : [p EXCEPT !.go = w] = PlanOf(c, r, w, a)
  BY DEF PlanOf
<1> HIDE DEF p
<1>2. QED BY <1>1 DEF p

LEMMA AccessMade ==
  ASSUME NEW c, NEW r, NEW g, NEW a, NEW n, NEW v
  PROVE  [PlanOf(c, r, g, a) EXCEPT !.access = With(@, n, v)] = PlanOf(c, r, g, With(a, n, v))
<1> DEFINE p == PlanOf(c, r, g, a)
<1>1. p.access = a /\ \A w : [p EXCEPT !.access = w] = PlanOf(c, r, g, w)
  BY DEF PlanOf
<1> HIDE DEF p
<1>2. QED BY <1>1 DEF p

LEMMA RegisterFacts ==
  ASSUME NEW c, NEW r, NEW g, NEW a, NEW n, NEW d, ~Register(PlanOf(c, r, g, a), n, d).failed
  PROVE  /\ ClaimOf(PlanOf(c, r, g, a), n) \in {Nothing, d}
         /\ \E news, gos : /\ Register(PlanOf(c, r, g, a), n, d) = PlanOf(With(c, n, d), news, gos, a)
                           /\ Registered(c, r, g, n, d, news, gos)
<1> DEFINE p == PlanOf(c, r, g, a)
           claims == [p EXCEPT !.claimed = With(@, n, d)]
           isType == Kind(d) = "class"
           refused == \/ ClaimOf(p, n) \notin {Nothing, d}
                      \/ /\ isType /\ n \notin {LamName(d), Plain(d[2])}
                         /\ ~Renamed(d) /\ Taken(Plain(d[2]))
           named == IF isType THEN n = LamName(d) ELSE n = Plain(d[2]) /\ ~Renamed(d)
<1>0. Register(p, n, d) =
        CASE refused -> [p EXCEPT !.failed = TRUE]
          [] ~refused /\ named -> claims
          [] ~refused /\ ~named /\ isType -> [claims EXCEPT !.rewrites = With(@, n, LamName(d))]
          [] ~refused /\ ~named /\ ~isType -> [claims EXCEPT !.go = With(@, n, GoName(d))]
  BY DEF Register
<1>1. /\ claims = PlanOf(With(c, n, d), r, g, a)
      /\ [claims EXCEPT !.rewrites = With(@, n, LamName(d))] = PlanOf(With(c, n, d), With(r, n, LamName(d)), g, a)
      /\ [claims EXCEPT !.go = With(@, n, GoName(d))] = PlanOf(With(c, n, d), r, With(g, n, GoName(d)), a)
      /\ [p EXCEPT !.failed = TRUE].failed
  <2>1. claims = PlanOf(With(c, n, d), r, g, a)
    BY ClaimMade
  <2> HIDE DEF claims
  <2>2. /\ [claims EXCEPT !.rewrites = With(@, n, LamName(d))] = PlanOf(With(c, n, d), With(r, n, LamName(d)), g, a)
        /\ [claims EXCEPT !.go = With(@, n, GoName(d))] = PlanOf(With(c, n, d), r, With(g, n, GoName(d)), a)
    BY <2>1, RewriteMade, GoMade
  <2>3. [p EXCEPT !.failed = TRUE].failed
    BY DEF PlanOf
  <2>4. QED BY <2>1, <2>2, <2>3
<1> HIDE DEF p, claims
<1>2. ~refused
  BY <1>0, <1>1 DEF p
<1>3. CASE named
  <2>1. Register(p, n, d) = claims
    BY <1>0, <1>2, <1>3
  <2>2. Registered(c, r, g, n, d, r, g)
    BY <1>2, <1>3 DEF Registered
  <2>3. QED BY <1>1, <1>2, <2>1, <2>2 DEF p
<1>4. CASE ~named /\ isType
  <2>1. Register(p, n, d) = [claims EXCEPT !.rewrites = With(@, n, LamName(d))]
    BY <1>0, <1>2, <1>4
  <2>2. Registered(c, r, g, n, d, With(r, n, LamName(d)), g)
    BY <1>2, <1>4 DEF Registered
  <2>3. QED BY <1>1, <1>2, <2>1, <2>2 DEF p
<1>5. CASE ~named /\ ~isType
  <2>1. Register(p, n, d) = [claims EXCEPT !.go = With(@, n, GoName(d))]
    BY <1>0, <1>2, <1>5
  <2>2. Registered(c, r, g, n, d, r, With(g, n, GoName(d)))
    BY <1>2, <1>5 DEF Registered
  <2>3. QED BY <1>1, <1>2, <2>1, <2>2 DEF p
<1>6. QED BY <1>3, <1>4, <1>5

LEMMA RewritesKept ==
  ASSUME NEW c, NEW r, RewritesOK(c, r), NEW n, NEW d, n \in DOMAIN c => c[n] = d
  PROVE  /\ RewritesOK(With(c, n, d), r)
         /\ Kind(d) = "class" /\ (\E l : n = Plain(l)) => RewritesOK(With(c, n, d), With(r, n, LamName(d)))
<1> DEFINE claims == With(c, n, d)
           news == With(r, n, LamName(d))
<1>0. /\ DOMAIN claims = DOMAIN c \cup {n} /\ claims[n] = d
      /\ \A k \in DOMAIN c : claims[k] = c[k]
  BY DEF With
<1>1. /\ DOMAIN news = DOMAIN r \cup {n} /\ news[n] = LamName(d)
      /\ \A k \in DOMAIN r : k # n => news[k] = r[k]
  BY DEF With
<1> HIDE DEF claims, news
<1>2. \A k : ToType(c, r, k) => ToType(claims, r, k)
  BY <1>0 DEF ToType
<1>3. RewritesOK(claims, r)
  BY <1>2 DEF RewritesOK
<1>4. ASSUME Kind(d) = "class", NEW l, n = Plain(l) PROVE RewritesOK(claims, news)
  <2>1. ASSUME NEW k \in DOMAIN news
        PROVE  \E m : k = Plain(m) /\ (m \in ImportedNames \/ ToType(claims, news, k))
    <3>1. CASE k = n
      BY <1>0, <1>1, <1>4, <3>1 DEF ToType
    <3>2. CASE k # n
      <4>1. k \in DOMAIN r /\ news[k] = r[k]
        BY <1>1, <3>2
      <4>2. ToType(claims, r, k) => ToType(claims, news, k)
        BY <4>1 DEF ToType
      <4>3. QED BY <1>3, <4>1, <4>2 DEF RewritesOK
    <3>3. QED BY <3>1, <3>2
  <2>2. QED BY <2>1 DEF RewritesOK
<1>5. QED BY <1>3, <1>4 DEF claims, news

(* A registration keeps what holds of the plan, and redirects only the     *)
(* name that it is made under.                                             *)
LEMMA RegisterKeeps ==
  ASSUME ThreeModules, NEW c, NEW r, NEW g, NEW a, Sound(c, r, g), NEW n, NEW d \in Definitions,
         MayName(n, d), Kind(d) = "class" => \E l : n = Plain(l),
         ~Register(PlanOf(c, r, g, a), n, d).failed
  PROVE  \E news, gos :
           /\ Register(PlanOf(c, r, g, a), n, d) = PlanOf(With(c, n, d), news, gos, a)
           /\ Sound(With(c, n, d), news, gos)
           /\ Grown(c, With(c, n, d)) /\ n \in DOMAIN With(c, n, d) /\ With(c, n, d)[n] = d
           /\ \A l : n = Plain(l) \/ Kind(d) # "class" \/ (\E k : n = Plain(k) /\ k \notin ImportedNames)
                       => Redirected(With(c, n, d), r, news, l)
           /\ Registered(c, r, g, n, d, news, gos)
<1>1. PICK news, gos : /\ Register(PlanOf(c, r, g, a), n, d) = PlanOf(With(c, n, d), news, gos, a)
                       /\ Registered(c, r, g, n, d, news, gos)
  BY RegisterFacts
<1>2. n \in DOMAIN c => c[n] = d
  <2>1. ClaimOf(PlanOf(c, r, g, a), n) \in {Nothing, d}
    BY RegisterFacts
  <2>2. PlanOf(c, r, g, a).claimed = c
    BY DEF PlanOf
  <2>3. QED BY <2>1, <2>2, ClaimFree DEF Sound
<1>3. ClaimsOK(With(c, n, d))
  BY <1>2, ClaimsKept DEF Sound
<1>4. GoOK(With(c, n, d), gos)
  BY <1>1, <1>2, GoKept DEF Sound, Registered
<1>5. RewritesOK(With(c, n, d), news)
  BY <1>1, <1>2, RewritesKept DEF Sound, Registered
<1>6. Grown(c, With(c, n, d)) /\ n \in DOMAIN With(c, n, d) /\ With(c, n, d)[n] = d
  BY <1>2, ClaimGrows
<1>7. ASSUME NEW l, n = Plain(l) \/ Kind(d) # "class" \/ (\E k : n = Plain(k) /\ k \notin ImportedNames)
      PROVE  Redirected(With(c, n, d), r, news, l)
  <2>1. CASE news = r
    BY <2>1 DEF Redirected
  <2>2. CASE news = With(r, n, LamName(d)) /\ Kind(d) = "class"
    <3>1. /\ DOMAIN news = DOMAIN r \cup {n} /\ news[n] = LamName(d)
          /\ \A k \in DOMAIN r : k # n => news[k] = r[k]
      BY <2>2 DEF With
    <3>2. ToType(With(c, n, d), news, n)
      BY <1>6, <2>2, <3>1 DEF ToType
    <3>3. QED BY <1>7, <2>2, <3>1, <3>2 DEF Redirected
  <2>3. QED BY <1>1, <2>1, <2>2 DEF Registered
<1>8. QED BY <1>1, <1>3, <1>4, <1>5, <1>6, <1>7 DEF Sound

LEMMA SettledKept ==
  ASSUME NEW c, NEW cs, Grown(c, cs), NEW r, NEW news, NEW l, Redirected(cs, r, news, l),
         NEW k, k # Plain(l), Settled(c, r, k)
  PROVE  Settled(cs, news, k) /\ cs[k] = c[k]
<1>1. k \in DOMAIN c /\ k \in DOMAIN cs /\ cs[k] = c[k]
  BY DEF Grown, Settled
<1>2. ASSUME k \in DOMAIN news PROVE ToType(cs, news, k)
  <2>1. CASE k \in DOMAIN r /\ news[k] = r[k]
    BY <1>1, <2>1 DEF Settled, ToType
  <2>2. QED BY <1>2, <2>1 DEF Redirected
<1>3. ASSUME k \notin DOMAIN news, Kind(cs[k]) = "class" PROVE k = LamName(cs[k])
  BY <1>1, <1>3 DEF Redirected, Settled
<1>4. QED BY <1>1, <1>2, <1>3 DEF Settled

(* An import stays as it was planned while another one is handled.         *)
LEMMA NamedKept ==
  ASSUME NEW c, NEW cs, Grown(c, cs), NEW r, NEW news, NEW l, l \in ImportedNames, Redirected(cs, r, news, l),
         NEW b, b.local \in ImportedNames, b.local # l, NamedOK(c, r, b)
  PROVE  NamedOK(cs, news, b)
<1> DEFINE m == CHOOSE n \in b.of : TRUE
           d == InLibrary(b.module, m)
           k == Plain(b.local)
<1>0. k # Plain(l)
  BY PlainFact
<1>1. \/ /\ k \in DOMAIN r /\ r[k] = Plain(m) /\ m \notin ImportedNames
         /\ Settled(c, r, Plain(m)) /\ c[Plain(m)] = d
      \/ /\ Settled(c, r, k) /\ c[k] = d
         /\ Kind(d) = "class" => k = LamName(d) \/ Renamed(d) \/ m \notin ImportedNames
  BY DEF NamedOK
<1>2. SUFFICES \/ /\ k \in DOMAIN news /\ news[k] = Plain(m) /\ m \notin ImportedNames
                  /\ Settled(cs, news, Plain(m)) /\ cs[Plain(m)] = d
               \/ /\ Settled(cs, news, k) /\ cs[k] = d
                  /\ Kind(d) = "class" => k = LamName(d) \/ Renamed(d) \/ m \notin ImportedNames
  BY DEF NamedOK
<1>3. \A n : k = Plain(n) => n \in ImportedNames
  BY PlainFact
<1> HIDE DEF m, d, k
<1>4. CASE /\ k \in DOMAIN r /\ r[k] = Plain(m) /\ m \notin ImportedNames
           /\ Settled(c, r, Plain(m)) /\ c[Plain(m)] = d
  <2>1. k \in DOMAIN news /\ news[k] = r[k]
    BY <1>0, <1>3, <1>4 DEF Redirected
  <2>2. Plain(m) # Plain(l)
    BY <1>4, PlainFact
  <2>3. Settled(cs, news, Plain(m)) /\ cs[Plain(m)] = d
    BY <1>4, <2>2, SettledKept
  <2>4. QED BY <1>4, <2>1, <2>3
<1>5. CASE /\ Settled(c, r, k) /\ c[k] = d
           /\ Kind(d) = "class" => k = LamName(d) \/ Renamed(d) \/ m \notin ImportedNames
  <2>1. Settled(cs, news, k) /\ cs[k] = d
    BY <1>0, <1>5, SettledKept
  <2>2. QED BY <1>5, <2>1
<1>6. QED BY <1>1, <1>4, <1>5

LEMMA MemberKept ==
  ASSUME NEW c, NEW cs, Grown(c, cs), NEW a, NEW b, NEW m, MemberOK(c, a, b, m)
  PROVE  MemberOK(cs, a, b, m)
BY DEF MemberOK, Grown

(* ---------------------------- handling imports -------------------------- *)

(* A member that is used reaches its definition.                           *)
LEMMA MemberStep ==
  ASSUME Linked, NEW i \in DOMAIN bindings, bindings[i].whole, NEW m \in bindings[i].of,
         NEW c, NEW r, NEW g, NEW a, Sound(c, r, g), ~Member(PlanOf(c, r, g, a), bindings[i], m).failed
  PROVE  \E cs, gos, acc :
           /\ Member(PlanOf(c, r, g, a), bindings[i], m) = PlanOf(cs, r, gos, acc)
           /\ Sound(cs, r, gos) /\ Grown(c, cs)
           /\ \A k \in DOMAIN a : k # m => k \in DOMAIN acc /\ acc[k] = a[k]
           /\ MemberOK(cs, acc, bindings[i], m)
<1> DEFINE b == bindings[i]
           d == InLibrary(b.module, m)
           p == PlanOf(c, r, g, a)
           reached(name) == [p EXCEPT !.access = With(@, m, name)]
           name == Spelled(p, b, m, d)
<1>1. d \in Definitions /\ d[1] \in Libraries /\ d[2] = m /\ d # Nothing /\ b.local = "p"
  BY ImportFacts
<1>2. Member(p, b, m) =
        IF d = Nothing THEN p
        ELSE IF Kind(d) # "class" THEN Register(reached(name), name, d)
        ELSE IF ClaimOf(p, LamName(d)) \notin {Nothing, d} THEN [p EXCEPT !.failed = TRUE]
        ELSE [reached(LamName(d)) EXCEPT !.claimed = With(@, LamName(d), d)]
  BY DEF Member
<1>3. name = Plain(m) \/ name = Tagged(m, b.local)
  BY DEF Spelled
<1>4. \A n : reached(n) = PlanOf(c, r, g, With(a, m, n))
  BY AccessMade
<1>5. [p EXCEPT !.failed = TRUE].failed
  BY DEF PlanOf
<1>6. p.claimed = c /\ ThreeModules
  BY DEF PlanOf, Linked
<1>7. ~Member(p, b, m).failed
  OBVIOUS
<1>8. ASSUME NEW n
      PROVE  /\ m \in DOMAIN With(a, m, n) /\ With(a, m, n)[m] = n
             /\ \A k \in DOMAIN a : k # m => k \in DOMAIN With(a, m, n) /\ With(a, m, n)[k] = a[k]
  BY DEF With
<1>9. SUFFICES \E cs, gos, acc :
           /\ Member(p, b, m) = PlanOf(cs, r, gos, acc)
           /\ Sound(cs, r, gos) /\ Grown(c, cs)
           /\ \A k \in DOMAIN a : k # m => k \in DOMAIN acc /\ acc[k] = a[k]
           /\ m \in DOMAIN acc /\ acc[m] \in DOMAIN cs /\ cs[acc[m]] = d
           /\ Kind(d) = "class" => acc[m] = LamName(d)
  BY DEF MemberOK
<1> HIDE DEF name, reached, d, p, b
<1>10. CASE Kind(d) # "class"
  <2> DEFINE acc == With(a, m, name)
  <2>1. Member(p, b, m) = Register(PlanOf(c, r, g, acc), name, d)
    BY <1>1, <1>2, <1>4, <1>10
  <2>2. MayName(name, d)
    BY <1>1, <1>3 DEF MayName
  <2> HIDE DEF acc
  <2>3. PICK news, gos :
          /\ Register(PlanOf(c, r, g, acc), name, d) = PlanOf(With(c, name, d), news, gos, acc)
          /\ Sound(With(c, name, d), news, gos)
          /\ Grown(c, With(c, name, d)) /\ name \in DOMAIN With(c, name, d) /\ With(c, name, d)[name] = d
          /\ Registered(c, r, g, name, d, news, gos)
    <3>1. ~Register(PlanOf(c, r, g, acc), name, d).failed
      BY <1>7, <2>1
    <3>2. QED BY <1>1, <1>6, <1>10, <2>2, <3>1, RegisterKeeps
  <2>4. news = r
    BY <1>10, <2>3 DEF Registered
  <2>5. /\ m \in DOMAIN acc /\ acc[m] = name
        /\ \A k \in DOMAIN a : k # m => k \in DOMAIN acc /\ acc[k] = a[k]
    BY <1>8 DEF acc
  <2>6. QED BY <1>10, <2>1, <2>3, <2>4, <2>5
<1>11. CASE Kind(d) = "class"
  <2> DEFINE n == LamName(d)
             acc == With(a, m, n)
             cs == With(c, n, d)
  <2>1. ClaimOf(p, n) \in {Nothing, d} /\ Member(p, b, m) = [reached(n) EXCEPT !.claimed = With(@, n, d)]
    BY <1>1, <1>2, <1>5, <1>7, <1>11
  <2>2. Member(p, b, m) = PlanOf(cs, r, g, acc)
    <3>1. [PlanOf(c, r, g, acc) EXCEPT !.claimed = With(@, n, d)] = PlanOf(cs, r, g, acc)
      BY ClaimMade
    <3>2. QED BY <1>4, <2>1, <3>1
  <2>3. n \in DOMAIN c => c[n] = d
    BY <1>1, <1>6, <2>1, ClaimFree DEF Sound
  <2>4. MayName(n, d)
    BY DEF MayName
  <2> HIDE DEF n, acc
  <2>5. Sound(cs, r, g)
    BY <1>1, <1>6, <1>11, <2>3, <2>4, ClaimsKept, GoKept, RewritesKept DEF Sound
  <2>6. Grown(c, cs) /\ n \in DOMAIN cs /\ cs[n] = d
    BY <2>3, ClaimGrows
  <2>7. /\ m \in DOMAIN acc /\ acc[m] = n
        /\ \A k \in DOMAIN a : k # m => k \in DOMAIN acc /\ acc[k] = a[k]
    BY <1>8 DEF acc
  <2> HIDE DEF cs
  <2>8. QED BY <2>2, <2>5, <2>6, <2>7 DEF n
<1>12. QED BY <1>10, <1>11

(* A whole module is imported: every member that is used reaches its definition. *)
LEMMA MembersStep ==
  ASSUME Linked, NEW i \in DOMAIN bindings, bindings[i].whole,
         NEW c, NEW r, NEW g, NEW a, Sound(c, r, g), ~Members(PlanOf(c, r, g, a), bindings[i]).failed
  PROVE  \E cs, gos, acc :
           /\ Members(PlanOf(c, r, g, a), bindings[i]) = PlanOf(cs, r, gos, acc)
           /\ Sound(cs, r, gos) /\ Grown(c, cs)
           /\ \A m \in bindings[i].of : MemberOK(cs, acc, bindings[i], m)
<1> DEFINE b == bindings[i]
           p == PlanOf(c, r, g, a)
           upper == IF "X" \in b.of THEN Member(p, b, "X") ELSE p
<1>1. Members(p, b) = IF "x" \in b.of /\ ~upper.failed THEN Member(upper, b, "x") ELSE upper
  BY DEF Members
<1>2. b.of \subseteq {"x", "X"}
  BY ImportFacts
<1>3. ~Members(p, b).failed
  OBVIOUS
<1> HIDE DEF upper
<1>4. ~upper.failed
  BY <1>1, <1>3
<1>5. PICK cu, gu, au :
        /\ upper = PlanOf(cu, r, gu, au)
        /\ Sound(cu, r, gu) /\ Grown(c, cu)
        /\ "X" \in b.of => MemberOK(cu, au, b, "X")
  <2>1. CASE "X" \in b.of
    <3>1. upper = Member(p, b, "X")
      BY <2>1 DEF upper
    <3>2. QED BY <1>4, <2>1, <3>1, MemberStep
  <2>2. CASE "X" \notin b.of
    <3>1. upper = p
      BY <2>2 DEF upper
    <3>2. Grown(c, c)
      BY DEF Grown
    <3>3. QED BY <2>2, <3>1, <3>2
  <2>3. QED BY <2>1, <2>2
<1>6. CASE "x" \notin b.of
  <2>1. Members(p, b) = PlanOf(cu, r, gu, au)
    BY <1>1, <1>5, <1>6
  <2>2. \A m \in b.of : MemberOK(cu, au, b, m)
    BY <1>2, <1>5, <1>6
  <2>3. QED BY <1>5, <2>1, <2>2
<1>7. CASE "x" \in b.of
  <2>1. Members(p, b) = Member(PlanOf(cu, r, gu, au), b, "x")
    BY <1>1, <1>4, <1>5, <1>7
  <2>2. ~Member(PlanOf(cu, r, gu, au), b, "x").failed
    BY <1>3, <2>1
  <2>3. PICK cs, gs, as :
          /\ Member(PlanOf(cu, r, gu, au), b, "x") = PlanOf(cs, r, gs, as)
          /\ Sound(cs, r, gs) /\ Grown(cu, cs)
          /\ \A k \in DOMAIN au : k # "x" => k \in DOMAIN as /\ as[k] = au[k]
          /\ MemberOK(cs, as, b, "x")
    BY <1>5, <1>7, <2>2, MemberStep
  <2>4. "X" \in b.of => MemberOK(cs, as, b, "X")
    BY <1>5, <2>3 DEF MemberOK, Grown
  <2>5. Grown(c, cs)
    BY <1>5, <2>3 DEF Grown
  <2>6. \A m \in b.of : MemberOK(cs, as, b, m)
    BY <1>2, <2>3, <2>4
  <2>7. QED BY <2>1, <2>3, <2>5, <2>6
<1>8. QED BY <1>6, <1>7

(* A name that is registered leads to its definition.                      *)
LEMMA RegisterSettles ==
  ASSUME NEW c, NEW r, NEW g, NEW n, NEW d, NEW cs, NEW news, NEW gos, Grown(c, cs), n \in DOMAIN cs, cs[n] = d,
         Registered(c, r, g, n, d, news, gos), n \in DOMAIN r => ToType(c, r, n)
  PROVE  Settled(cs, news, n)
<1>1. n \in DOMAIN c => c[n] = d
  BY DEF Grown
<1>2. CASE Kind(d) # "class"
  BY <1>1, <1>2 DEF Registered, ToType, Settled
<1>3. CASE Kind(d) = "class" /\ n = LamName(d) /\ news = r
  BY <1>1, <1>3 DEF ToType, Settled
<1>4. CASE Kind(d) = "class" /\ news = With(r, n, LamName(d))
  <2>1. n \in DOMAIN news /\ news[n] = LamName(d)
    BY <1>4 DEF With
  <2>2. QED BY <1>4, <2>1 DEF ToType, Settled
<1>5. QED BY <1>2, <1>3, <1>4 DEF Registered

(* The name of a from-import leads to its definition.                      *)
LEMMA NameStep ==
  ASSUME Linked, NEW i \in DOMAIN bindings, ~bindings[i].whole,
         NEW c, NEW r, NEW g, NEW a, Sound(c, r, g), Plain(bindings[i].local) \notin DOMAIN r,
         ~Name(PlanOf(c, r, g, a), bindings[i]).failed
  PROVE  \E cs, news, gos :
           /\ Name(PlanOf(c, r, g, a), bindings[i]) = PlanOf(cs, news, gos, a)
           /\ Sound(cs, news, gos) /\ Grown(c, cs)
           /\ Redirected(cs, r, news, bindings[i].local)
           /\ NamedOK(cs, news, bindings[i])
<1> DEFINE b == bindings[i]
           m == CHOOSE n \in b.of : TRUE
           d == InLibrary(b.module, m)
           l == Plain(b.local)
           p == PlanOf(c, r, g, a)
           canonical == b.local # m /\ ~Taken(Plain(m)) /\ ClaimOf(p, Plain(m)) \in {Nothing, d}
           rl == With(r, l, Plain(m))
           led == [p EXCEPT !.rewrites = With(@, l, Plain(m))]
<1>1. d \in Definitions /\ d[2] = m /\ d # Nothing /\ b.local \in ImportedNames /\ ThreeModules
  BY ImportFacts DEF Linked
<1>2. Name(p, b) = IF d = Nothing THEN p
                   ELSE IF canonical THEN Register(led, Plain(m), d) ELSE Register(p, l, d)
  BY DEF Name
<1>3. led = PlanOf(c, rl, g, a)
  BY RewriteMade
<1>4. ~Name(p, b).failed /\ l \notin DOMAIN r
  OBVIOUS
<1>5. SUFFICES \E cs, news, gos :
           /\ Name(p, b) = PlanOf(cs, news, gos, a)
           /\ Sound(cs, news, gos) /\ Grown(c, cs)
           /\ Redirected(cs, r, news, b.local)
           /\ \/ /\ l \in DOMAIN news /\ news[l] = Plain(m) /\ m \notin ImportedNames
                 /\ Settled(cs, news, Plain(m)) /\ cs[Plain(m)] = d
              \/ /\ Settled(cs, news, l) /\ cs[l] = d
                 /\ Kind(d) = "class" => l = LamName(d) \/ Renamed(d) \/ m \notin ImportedNames
  BY DEF NamedOK
<1>6. /\ \A n : Plain(m) = Plain(n) => m = n
      /\ \A n : l = Plain(n) => b.local = n
  BY PlainFact
<1>7. ~Taken(Plain(m)) => m \notin ImportedNames
  BY DEF Taken, Plain
<1>8. /\ DOMAIN rl = DOMAIN r \cup {l} /\ rl[l] = Plain(m)
      /\ \A k \in DOMAIN r : rl[k] = r[k]
  BY <1>4 DEF With
<1>9. l = Plain(b.local)
  OBVIOUS
<1> HIDE DEF b, m, d, l, p, led, rl
<1>10. CASE canonical
  <2> DEFINE n == Plain(m)
  <2>0. m \notin ImportedNames /\ n # l
    BY <1>1, <1>6, <1>7, <1>10
  <2>1. Name(p, b) = Register(PlanOf(c, rl, g, a), n, d)
    BY <1>1, <1>2, <1>3, <1>10
  <2>2. Sound(c, rl, g)
    <3>1. ASSUME NEW k \in DOMAIN rl
          PROVE  \E x : k = Plain(x) /\ (x \in ImportedNames \/ ToType(c, rl, k))
      <4>1. CASE k = l
        BY <1>1, <1>9, <4>1
      <4>2. CASE k # l
        BY <1>8, <4>2 DEF Sound, RewritesOK, ToType
      <4>3. QED BY <4>1, <4>2
    <3>2. QED BY <3>1 DEF Sound, RewritesOK
  <2>3. MayName(n, d)
    BY <1>1 DEF MayName
  <2>4. PICK news, gos :
          /\ Register(PlanOf(c, rl, g, a), n, d) = PlanOf(With(c, n, d), news, gos, a)
          /\ Sound(With(c, n, d), news, gos)
          /\ Grown(c, With(c, n, d)) /\ n \in DOMAIN With(c, n, d) /\ With(c, n, d)[n] = d
          /\ Redirected(With(c, n, d), rl, news, b.local)
          /\ Registered(c, rl, g, n, d, news, gos)
    <3>1. ~Register(PlanOf(c, rl, g, a), n, d).failed
      BY <1>4, <2>1
    <3>2. (\E x : n = Plain(x)) /\ \E x : n = Plain(x) /\ x \notin ImportedNames
      BY <2>0
    <3> HIDE DEF n, canonical
    <3>3. QED BY <1>1, <2>2, <2>3, <3>1, <3>2, RegisterKeeps
  <2> DEFINE cs == With(c, n, d)
  <2> HIDE DEF n, cs
  <2>5. Redirected(cs, r, news, b.local)
    BY <1>8, <1>9, <2>4 DEF Redirected, cs
  <2>6. n \in DOMAIN rl => ToType(c, rl, n)
    BY <2>0, <2>2, <1>6 DEF Sound, RewritesOK, n
  <2>7. Settled(cs, news, n) /\ cs[n] = d
    BY <2>4, <2>6, RegisterSettles DEF cs
  <2>8. l \in DOMAIN news /\ news[l] = Plain(m)
    BY <1>8, <2>0, <2>4 DEF Registered, With, n
  <2>9. QED BY <2>0, <2>1, <2>4, <2>5, <2>7, <2>8 DEF n, cs
<1>11. CASE ~canonical
  <2>1. Name(p, b) = Register(p, l, d)
    BY <1>1, <1>2, <1>11
  <2>2. MayName(l, d)
    BY <1>1, <1>9 DEF MayName
  <2>3. PICK news, gos :
          /\ Register(p, l, d) = PlanOf(With(c, l, d), news, gos, a)
          /\ Sound(With(c, l, d), news, gos)
          /\ Grown(c, With(c, l, d)) /\ l \in DOMAIN With(c, l, d) /\ With(c, l, d)[l] = d
          /\ Redirected(With(c, l, d), r, news, b.local)
          /\ Registered(c, r, g, l, d, news, gos)
    <3>1. ~Register(p, l, d).failed
      BY <1>4, <2>1
    <3>2. QED BY <1>1, <1>9, <2>2, <3>1, RegisterKeeps DEF p
  <2> DEFINE cs == With(c, l, d)
  <2> HIDE DEF cs
  <2>4. Settled(cs, news, l) /\ cs[l] = d
    BY <1>4, <2>3, RegisterSettles DEF cs
  <2>5. Kind(d) = "class" => l = LamName(d) \/ Renamed(d) \/ m \notin ImportedNames
    <3>1. ~Renamed(d) => LamName(d) = Plain(m)
      BY <1>1 DEF LamName
    <3>2. QED BY <1>1, <1>7, <2>3, <3>1 DEF Registered
  <2>6. QED BY <2>1, <2>3, <2>4, <2>5 DEF cs
<1>12. QED BY <1>10, <1>11

LEMMA NameFrame ==
  ASSUME Linked, UNCHANGED <<symbols, relayed, entry, bindings>>, NEW q, plan' = q, NEW n \in 0..Len(bindings),
         bound' = n, ~q.failed => PlannedUpTo(q, n)
  PROVE  NameInv'
<1>1. Definitions' = Definitions /\ OwnNames' = OwnNames /\ ImportedNames' = ImportedNames
  BY DEF Definitions, OwnNames, ImportedNames
<1>2. \A d : /\ Kind(d)' = Kind(d) /\ DefaultGo(d)' = DefaultGo(d) /\ (Clashes(d)' <=> Clashes(d))
             /\ (ValueClashes(d)' <=> ValueClashes(d)) /\ (Pinned(d)' <=> Pinned(d))
  BY DEF Kind, DefaultGo, Clashes, ValueClashes, Pinned, Definitions
<1>3. \A d : (Renamed(d)' <=> Renamed(d)) /\ LamName(d)' = LamName(d) /\ GoName(d)' = GoName(d)
  BY <1>2 DEF Renamed, LamName, GoName
<1>4. \A k, m : InLibrary(k, m)' = InLibrary(k, m)
  BY DEF InLibrary
<1>5. Linked'
  <2>1. \A k : Exported(k)' = Exported(k)
    BY <1>4 DEF Exported, IsPrivate, Kind
  <2>2. \A b : IsImport(b)' <=> IsImport(b)
    BY <1>4, <2>1 DEF IsImport
  <2>3. QED BY <1>1, <2>2 DEF Linked, ThreeModules
<1>6. \A c, r, g : Sound(c, r, g)' <=> Sound(c, r, g)
  <2>1. \A c : ClaimsOK(c)' <=> ClaimsOK(c)
    BY <1>1 DEF ClaimsOK
  <2>2. \A c, g : GoOK(c, g)' <=> GoOK(c, g)
    BY <1>2, <1>3 DEF GoOK
  <2>3. \A c, r, k : ToType(c, r, k)' <=> ToType(c, r, k)
    BY <1>2, <1>3 DEF ToType
  <2>4. \A c, r : RewritesOK(c, r)' <=> RewritesOK(c, r)
    BY <1>1, <2>3 DEF RewritesOK
  <2>5. QED BY <2>1, <2>2, <2>4 DEF Sound
<1>7. \A c, r, k : Settled(c, r, k)' <=> Settled(c, r, k)
  BY <1>2, <1>3 DEF Settled, ToType
<1>8. \A p, b : BindingOK(p, b)' <=> BindingOK(p, b)
  <2>1. \A c, r, b : NamedOK(c, r, b)' <=> NamedOK(c, r, b)
    BY <1>1, <1>2, <1>3, <1>4, <1>7 DEF NamedOK
  <2>2. \A c, a, b, m : MemberOK(c, a, b, m)' <=> MemberOK(c, a, b, m)
    BY <1>2, <1>3, <1>4 DEF MemberOK
  <2>3. QED BY <2>1, <2>2 DEF BindingOK
<1>9. \A p : PlanOK(p)' <=> PlanOK(p)
  BY <1>1, <1>6, <1>7 DEF PlanOK
<1>10. \A p, k : PlannedUpTo(p, k)' <=> PlannedUpTo(p, k)
  BY <1>8, <1>9 DEF PlannedUpTo
<1>11. QED BY <1>5, <1>10 DEF NameInv

(* ----------------------------- every import ----------------------------- *)

LEMMA OwnPlanOK ==
  ASSUME Linked
  PROVE  PlannedUpTo(OwnPlan, 0)
<1> DEFINE own == [n \in {Plain(m) : m \in OwnNames} |-> <<"here", n.name>>]
           new(isType) == {n \in DOMAIN own : Renamed(own[n]) /\ (Kind(own[n]) = "class") = isType}
           r == [n \in new(TRUE) |-> LamName(own[n])]
           g == [n \in new(FALSE) |-> GoName(own[n])]
<1>1. OwnPlan = PlanOf(own, r, g, <<>>)
  BY DEF OwnPlan, PlanOf, Going
<1>2. \A n \in OwnNames : Plain(n) \in DOMAIN own /\ own[Plain(n)] = <<"here", n>>
  BY DEF Plain
<1>3. ASSUME NEW k \in DOMAIN own PROVE \E n \in OwnNames : k = Plain(n) /\ own[k] = <<"here", n>>
  BY <1>2, <1>3
<1>4. ThreeModules /\ ImportedNames \cap OwnNames = {}
  BY DEF Linked
<1>5. \A n \in OwnNames : <<"here", n>> \in Definitions
  BY <1>4 DEF ThreeModules, Definitions, OwnNames
<1>6. /\ \A k : k \in DOMAIN r <=> k \in DOMAIN own /\ Renamed(own[k]) /\ Kind(own[k]) = "class"
      /\ \A k \in DOMAIN r : r[k] = LamName(own[k])
      /\ \A k : k \in DOMAIN g <=> k \in DOMAIN own /\ Renamed(own[k]) /\ Kind(own[k]) # "class"
      /\ \A k \in DOMAIN g : g[k] = GoName(own[k])
  OBVIOUS
<1> HIDE DEF own, r, g
<1>7. ClaimsOK(own)
  <2>1. ASSUME NEW n, Plain(n) \in DOMAIN own PROVE own[Plain(n)][2] = n
    <3>1. PICK m \in OwnNames : Plain(n) = Plain(m) /\ own[Plain(n)] = <<"here", m>>
      BY <1>3, <2>1
    <3>2. m = n
      BY <3>1, PlainFact
    <3>3. QED BY <3>1, <3>2
  <2>2. ASSUME NEW d \in Definitions PROVE Tagged(d[2], d[1]) \notin DOMAIN own
    <3>1. d[1] # ""
      BY <1>4, DefinitionIsPair
    <3>2. \A n : Plain(n) # Tagged(d[2], d[1])
      BY <3>1, PlainTagged
    <3>3. QED BY <1>3, <3>2
  <2>3. \A k \in DOMAIN own : own[k] \in Definitions
    BY <1>3, <1>5
  <2>4. QED BY <1>2, <2>1, <2>2, <2>3 DEF ClaimsOK
<1>8. GoOK(own, g)
  <2>1. ASSUME NEW k \in DOMAIN own \ DOMAIN g, Kind(own[k]) # "class"
        PROVE  k = Plain(own[k][2]) /\ ~Renamed(own[k])
    BY <1>3, <1>6, <2>1
  <2>2. QED BY <1>6, <2>1 DEF GoOK
<1>9. RewritesOK(own, r)
  BY <1>3, <1>6 DEF RewritesOK, ToType
<1>10. ASSUME NEW n \in OwnNames PROVE Settled(own, r, Plain(n))
  <2>1. ~Renamed(<<"here", n>>) => LamName(<<"here", n>>) = Plain(n)
    BY DEF LamName
  <2>2. QED BY <1>2, <1>6, <2>1 DEF Settled, ToType
<1>11. ASSUME NEW i \in 1..Len(bindings) PROVE Plain(bindings[i].local) \notin DOMAIN r
  <2>1. bindings[i].local \in ImportedNames
    BY DEF ImportedNames, Linked
  <2>2. QED BY <1>3, <1>4, <1>6, <2>1, PlainFact
<1>12. OwnPlan.claimed = own /\ OwnPlan.rewrites = r /\ OwnPlan.go = g /\ OwnPlan.access = <<>>
  BY <1>1 DEF PlanOf
<1>13. PlanOK(OwnPlan)
  BY <1>1, <1>7, <1>8, <1>9, <1>10, <1>12 DEF PlanOK, Sound
<1>14. QED BY <1>11, <1>12, <1>13 DEF PlannedUpTo

LEMMA HandleWhole ==
  ASSUME Linked, NEW n \in Nat, n + 1 \in 1..Len(bindings), bindings[n + 1].whole, NEW p, PlannedUpTo(p, n),
         ~Members(p, bindings[n + 1]).failed
  PROVE  PlannedUpTo(Members(p, bindings[n + 1]), n + 1)
<1> DEFINE b == bindings[n + 1]
           c == p.claimed
           r == p.rewrites
           g == p.go
           a == p.access
<1>1. /\ p = PlanOf(c, r, g, a) /\ Sound(c, r, g) /\ \A k \in OwnNames : Settled(c, r, Plain(k))
      /\ \A i \in 1..n : BindingOK(p, bindings[i])
      /\ \A i \in (n + 1)..Len(bindings) : Plain(bindings[i].local) \notin DOMAIN r
  BY DEF PlannedUpTo, PlanOK
<1>2. DOMAIN bindings = 1..Len(bindings) /\ n + 1 \in DOMAIN bindings
  BY DEF Linked
<1> HIDE DEF c, r, g, a
<1>3. PICK cs, gos, acc :
        /\ Members(PlanOf(c, r, g, a), b) = PlanOf(cs, r, gos, acc)
        /\ Sound(cs, r, gos) /\ Grown(c, cs)
        /\ \A m \in b.of : MemberOK(cs, acc, b, m)
  BY <1>1, <1>2, MembersStep
<1>4. b.local \in ImportedNames /\ b.local = "p" /\ ImportedNames \cap OwnNames = {}
  BY <1>2, ImportFacts DEF Linked
<1>5. Redirected(cs, r, r, b.local)
  BY DEF Redirected
<1> DEFINE q == PlanOf(cs, r, gos, acc)
<1>6. q.claimed = cs /\ q.rewrites = r /\ q.go = gos /\ q.access = acc
  BY DEF PlanOf
<1>7. ASSUME NEW k \in OwnNames PROVE Settled(cs, r, Plain(k))
  <2>1. Plain(k) # Plain(b.local)
    BY <1>4, PlainFact
  <2>2. QED BY <1>1, <1>3, <1>5, <2>1, SettledKept
<1>8. Members(p, b) = q
  BY <1>1, <1>3
<1> HIDE DEF q
<1>9. ASSUME NEW i \in 1..(n + 1) PROVE BindingOK(q, bindings[i])
  <2>1. CASE i = n + 1
    BY <1>3, <1>6, <2>1 DEF BindingOK
  <2>2. CASE i # n + 1
    <3>1. i \in 1..n /\ i \in DOMAIN bindings /\ bindings[i].local \in ImportedNames /\ bindings[i].local # b.local
      <4>1. i \in 1..n /\ i \in DOMAIN bindings
        BY <1>2, <2>2
      <4>2. bindings[i].local \in ImportedNames
        BY <4>1 DEF ImportedNames
      <4>3. bindings[i].local # b.local
        BY <1>2, <2>2, <4>1 DEF Linked
      <4>4. QED BY <4>1, <4>2, <4>3
    <3>2. ~bindings[i].whole
      BY <1>4, <3>1, ImportFacts
    <3>3. NamedOK(c, r, bindings[i])
      BY <1>1, <3>1, <3>2 DEF BindingOK, c, r
    <3> DEFINE e == bindings[i]
    <3> HIDE DEF e, b
    <3>4. NamedOK(cs, r, e)
      BY <1>3, <1>4, <1>5, <3>1, <3>3, NamedKept DEF e
    <3>5. QED BY <1>6, <3>2, <3>4 DEF BindingOK, e
  <2>3. QED BY <2>1, <2>2
<1>10. PlanOK(q)
  BY <1>3, <1>6, <1>7 DEF PlanOK, q
<1>11. \A i \in (n + 2)..Len(bindings) : Plain(bindings[i].local) \notin DOMAIN q.rewrites
  BY <1>1, <1>6
<1>12. (n + 1) + 1 = n + 2
  OBVIOUS
<1>13. PlannedUpTo(q, n + 1)
  BY <1>9, <1>10, <1>11, <1>12 DEF PlannedUpTo
<1>14. QED BY <1>8, <1>13

LEMMA HandleName ==
  ASSUME Linked, NEW n \in Nat, n + 1 \in 1..Len(bindings), ~bindings[n + 1].whole, NEW p, PlannedUpTo(p, n),
         ~Name(p, bindings[n + 1]).failed
  PROVE  PlannedUpTo(Name(p, bindings[n + 1]), n + 1)
<1> DEFINE b == bindings[n + 1]
           c == p.claimed
           r == p.rewrites
           g == p.go
           a == p.access
<1>1. /\ p = PlanOf(c, r, g, a) /\ Sound(c, r, g) /\ \A k \in OwnNames : Settled(c, r, Plain(k))
      /\ \A i \in 1..n : BindingOK(p, bindings[i])
      /\ \A i \in (n + 1)..Len(bindings) : Plain(bindings[i].local) \notin DOMAIN r
  BY DEF PlannedUpTo, PlanOK
<1>2. DOMAIN bindings = 1..Len(bindings) /\ n + 1 \in DOMAIN bindings
  BY DEF Linked
<1> HIDE DEF c, r, g, a
<1>3. PICK cs, news, gos :
        /\ Name(PlanOf(c, r, g, a), b) = PlanOf(cs, news, gos, a)
        /\ Sound(cs, news, gos) /\ Grown(c, cs)
        /\ Redirected(cs, r, news, b.local)
        /\ NamedOK(cs, news, b)
  <2>1. Plain(b.local) \notin DOMAIN r
    BY <1>1, <1>2
  <2>2. QED BY <1>1, <1>2, <2>1, NameStep
<1>4. b.local \in ImportedNames /\ ImportedNames \cap OwnNames = {}
  BY <1>2, ImportFacts DEF Linked
<1> DEFINE q == PlanOf(cs, news, gos, a)
<1>6. q.claimed = cs /\ q.rewrites = news /\ q.go = gos /\ q.access = a
  BY DEF PlanOf
<1>7. ASSUME NEW k \in OwnNames PROVE Settled(cs, news, Plain(k))
  <2>1. Plain(k) # Plain(b.local)
    BY <1>4, PlainFact
  <2>2. QED BY <1>1, <1>3, <2>1, SettledKept
<1>8. Name(p, b) = q
  BY <1>1, <1>3
<1> HIDE DEF q
<1>9. ASSUME NEW i \in 1..(n + 1) PROVE BindingOK(q, bindings[i])
  <2>1. CASE i = n + 1
    BY <1>3, <1>6, <2>1 DEF BindingOK
  <2>2. CASE i # n + 1
    <3>1. i \in 1..n /\ i \in DOMAIN bindings /\ bindings[i].local \in ImportedNames /\ bindings[i].local # b.local
      <4>1. i \in 1..n /\ i \in DOMAIN bindings
        BY <1>2, <2>2
      <4>2. bindings[i].local \in ImportedNames
        BY <4>1 DEF ImportedNames
      <4>3. bindings[i].local # b.local
        BY <1>2, <2>2, <4>1 DEF Linked
      <4>4. QED BY <4>1, <4>2, <4>3
    <3> DEFINE e == bindings[i]
    <3>2. BindingOK(p, e)
      BY <1>1, <3>1
    <3> HIDE DEF e, b
    <3>3. CASE e.whole
      <4>1. \A m \in e.of : MemberOK(c, a, e, m)
        BY <3>2, <3>3 DEF BindingOK, c, a
      <4>2. \A m \in e.of : MemberOK(cs, a, e, m)
        BY <1>3, <4>1, MemberKept
      <4>3. QED BY <1>6, <3>3, <4>2 DEF BindingOK, e
    <3>4. CASE ~e.whole
      <4>1. NamedOK(c, r, e)
        BY <3>2, <3>4 DEF BindingOK, c, r
      <4>2. NamedOK(cs, news, e)
        BY <1>3, <1>4, <3>1, <4>1, NamedKept DEF e
      <4>3. QED BY <1>6, <3>4, <4>2 DEF BindingOK, e
    <3>5. QED BY <3>3, <3>4
  <2>3. QED BY <2>1, <2>2
<1>10. PlanOK(q)
  BY <1>3, <1>6, <1>7 DEF PlanOK, q
<1>11. ASSUME NEW i \in (n + 2)..Len(bindings) PROVE Plain(bindings[i].local) \notin DOMAIN q.rewrites
  <2>1. i \in DOMAIN bindings /\ i # n + 1 /\ i \in (n + 1)..Len(bindings)
    BY <1>2
  <2>2. bindings[i].local \in ImportedNames /\ bindings[i].local # b.local /\ Plain(bindings[i].local) \notin DOMAIN r
    BY <1>1, <1>2, <2>1, ImportFacts DEF Linked
  <2> DEFINE l == bindings[i].local
  <2> HIDE DEF l, b
  <2>3. l \in ImportedNames /\ l # b.local /\ Plain(l) \notin DOMAIN r
    BY <2>2 DEF l
  <2>4. Plain(l) # Plain(b.local) /\ \A k : Plain(l) = Plain(k) => k \in ImportedNames
    BY <2>3, PlainFact
  <2>5. Plain(l) \notin DOMAIN news
    BY <1>3, <2>3, <2>4 DEF Redirected
  <2>6. QED BY <1>6, <2>5 DEF l
<1>12. (n + 1) + 1 = n + 2
  OBVIOUS
<1>13. PlannedUpTo(q, n + 1)
  BY <1>9, <1>10, <1>11, <1>12 DEF PlannedUpTo
<1>14. QED BY <1>8, <1>13

LEMMA NameStepInv == NameInv /\ [NameNext]_nameVars => NameInv'
<1> SUFFICES ASSUME NameInv, [NameNext]_nameVars PROVE NameInv'
  OBVIOUS
<1>1. Linked /\ bound \in 0..Len(bindings) /\ (~plan.failed => PlannedUpTo(plan, bound)) /\ Len(bindings) \in Nat
  BY DEF NameInv, Linked
<1>2. CASE HandleBinding
  <2> DEFINE b == bindings[bound + 1]
             q == IF b.whole THEN Members(plan, b) ELSE Name(plan, b)
             n == bound + 1
  <2>1. /\ bound < Len(bindings) /\ ~plan.failed /\ bound' = n /\ plan' = q
        /\ UNCHANGED <<symbols, relayed, entry, bindings>>
    BY <1>2 DEF HandleBinding
  <2>2. n \in 1..Len(bindings) /\ bound \in Nat /\ n \in 0..Len(bindings)
    BY <1>1, <2>1
  <2>3. ~q.failed => PlannedUpTo(q, n)
    <3>1. CASE b.whole
      BY <1>1, <2>1, <2>2, <3>1, HandleWhole
    <3>2. CASE ~b.whole
      BY <1>1, <2>1, <2>2, <3>2, HandleName
    <3>3. QED BY <3>1, <3>2
  <2> HIDE DEF q, n
  <2>4. QED BY <1>1, <2>1, <2>2, <2>3, NameFrame
<1>3. CASE UNCHANGED nameVars
  <2>1. plan' = plan /\ bound' = bound /\ UNCHANGED <<symbols, relayed, entry, bindings>>
    BY <1>3 DEF nameVars
  <2>2. QED BY <1>1, <2>1, NameFrame
<1>4. QED BY <1>2, <1>3 DEF NameNext

(* What the names stand for when the plan is made                          *)
LEMMA Rewriting ==
  ASSUME Linked, PlanOK(plan), NEW k, Settled(plan.claimed, plan.rewrites, k),
         NEW d \in Definitions, plan.claimed[k] = d,
         NEW n, n = k \/ (n \in DOMAIN plan.rewrites /\ plan.rewrites[n] = k),
         Kind(d) = "class" => k = LamName(d) \/ Renamed(d) \/ (d[1] # "here" /\ d[2] \notin ImportedNames)
                                \/ k = Plain(d[2])
  PROVE  Reaches(Rewritten(n), d)
<1> DEFINE once(x) == IF x \in DOMAIN plan.rewrites THEN plan.rewrites[x] ELSE x
           c == plan.claimed
           r == plan.rewrites
<1>1. Rewritten(n) = once(once(once(n)))
  BY DEF Rewritten
<1>2. ClaimsOK(c) /\ GoOK(c, plan.go) /\ RewritesOK(c, r) /\ ThreeModules
  BY DEF PlanOK, Sound, Linked
<1>3. d[1] \in {"lib", "sub", "here"} /\ d = <<d[1], d[2]>>
  BY <1>2, DefinitionIsPair
<1>4. once(n) = k \/ n = k
  OBVIOUS
<1>5. CASE Kind(d) # "class"
  <2>1. k \notin DOMAIN r /\ k \in DOMAIN c
    BY <1>5 DEF Settled, ToType
  <2>2. once(k) = k
    BY <2>1
  <2> HIDE DEF once
  <2>3. Rewritten(n) = k
    BY <1>1, <1>4, <2>2
  <2>4. ClaimOf(plan, k) = d
    BY <2>1 DEF ClaimOf
  <2>5. CASE k \in DOMAIN plan.go
    BY <1>2, <1>5, <2>3, <2>4, <2>5 DEF Reaches, GoOK
  <2>6. CASE k \notin DOMAIN plan.go
    <3>1. k = Plain(d[2]) /\ ~Renamed(d)
      BY <1>2, <1>5, <2>1, <2>6 DEF GoOK
    <3>2. k.name = d[2]
      BY <3>1, PlainName
    <3>3. GoName(d) = Plain(DefaultGo(<<d[1], k.name>>))
      BY <1>3, <3>1, <3>2 DEF GoName
    <3>4. QED BY <1>5, <2>3, <2>4, <2>6, <3>3 DEF Reaches
  <2>7. QED BY <2>5, <2>6
<1>6. CASE Kind(d) = "class"
  <2> DEFINE t == LamName(d)
  <2>1. once(k) = t
    <3>1. CASE k \in DOMAIN r
      BY <3>1 DEF Settled, ToType
    <3>2. CASE k \notin DOMAIN r
      BY <1>6, <3>2 DEF Settled
    <3>3. QED BY <3>1, <3>2
  <2>2. CASE Renamed(d)
    <3>1. t = Tagged(d[2], d[1]) /\ d[1] # ""
      BY <1>3, <2>2 DEF LamName
    <3>2. \A x : t # Plain(x)
      BY <3>1, PlainTagged
    <3>3. t \notin DOMAIN r
      BY <1>2, <3>2 DEF RewritesOK
    <3>4. once(t) = t
      BY <3>3
    <3>5. t \in DOMAIN c => c[t] = d
      BY <1>2, <3>1 DEF ClaimsOK
    <3> HIDE DEF once, t
    <3>6. Rewritten(n) = t
      BY <1>1, <1>4, <2>1, <3>4
    <3>7. ClaimOf(plan, t) \in {Nothing, d}
      BY <3>5 DEF ClaimOf
    <3>8. QED BY <1>6, <3>6, <3>7 DEF Reaches, t
  <2>3. CASE ~Renamed(d)
    <3>1. t = Plain(d[2])
      BY <2>3 DEF LamName
    <3>2. t \in DOMAIN c => c[t] = d
      <4>1. CASE k = t
        BY <4>1
      <4>2. CASE k # t
        <5>1. d[1] # "here" /\ d[2] \notin ImportedNames
          BY <1>6, <2>3, <3>1, <4>2
        <5>2. ASSUME t \in DOMAIN c, c[t] # d PROVE FALSE
          <6> DEFINE e == c[t]
          <6>1. e \in Definitions /\ e[2] = d[2]
            BY <1>2, <3>1, <5>1, <5>2 DEF ClaimsOK
          <6>2. e = <<e[1], e[2]>>
            BY <1>2, <6>1, DefinitionIsPair
          <6>3. Clashes(d)
            BY <1>3, <5>2, <6>1, <6>2 DEF Clashes
          <6>4. QED BY <2>3, <5>1, <6>3 DEF Renamed, Pinned
        <5>3. QED BY <5>2
      <4>3. QED BY <4>1, <4>2
    <3>3. t \in DOMAIN r => r[t] = t
      <4>1. CASE k = t
        BY <2>1, <4>1
      <4>2. CASE k # t
        <5>1. d[2] \notin ImportedNames
          BY <1>6, <2>3, <3>1, <4>2
        <5>2. t \in DOMAIN r => ToType(c, r, t)
          BY <1>2, <3>1, <5>1, PlainFact DEF RewritesOK
        <5>3. QED BY <3>2, <5>2 DEF ToType
      <4>3. QED BY <4>1, <4>2
    <3>4. once(t) = t
      BY <3>3
    <3> HIDE DEF once, t
    <3>5. Rewritten(n) = t
      BY <1>1, <1>4, <2>1, <3>4
    <3>6. ClaimOf(plan, t) \in {Nothing, d}
      BY <3>2 DEF ClaimOf
    <3>7. QED BY <1>6, <3>5, <3>6 DEF Reaches, t
  <2>4. QED BY <2>2, <2>3
<1>7. QED BY <1>5, <1>6

LEMMA ReferencesReach == NameInv => ReferencesReachDefinitions
<1> SUFFICES ASSUME NameInv, Planned
             PROVE  /\ \A n \in OwnNames : Reaches(Rewritten(Plain(n)), <<"here", n>>)
                    /\ \A i \in DOMAIN bindings : LET b == bindings[i] IN
                         \A m \in b.of : Reaches(IF b.whole THEN plan.access[m] ELSE Rewritten(Plain(b.local)),
                                                 InLibrary(b.module, m))
  BY DEF ReferencesReachDefinitions
<1> DEFINE c == plan.claimed
           r == plan.rewrites
<1>1. /\ Linked /\ PlanOK(plan) /\ \A i \in DOMAIN bindings : BindingOK(plan, bindings[i])
  <2>1. Linked /\ PlannedUpTo(plan, Len(bindings)) /\ DOMAIN bindings = 1..Len(bindings)
    BY DEF NameInv, Planned, Linked
  <2>2. QED BY <2>1 DEF PlannedUpTo
<1>2. ClaimsOK(c) /\ GoOK(c, plan.go) /\ ThreeModules /\ \A n \in OwnNames : Settled(c, r, Plain(n))
  BY <1>1 DEF PlanOK, Sound, Linked
<1>3. ASSUME NEW n \in OwnNames PROVE Reaches(Rewritten(Plain(n)), <<"here", n>>)
  <2> DEFINE d == <<"here", n>>
             k == Plain(n)
  <2>1. d \in Definitions /\ c[k] = d /\ Settled(c, r, k) /\ k = Plain(d[2])
    BY <1>2, <1>3 DEF Definitions, ThreeModules, OwnNames, ClaimsOK
  <2> HIDE DEF d, k
  <2>2. QED BY <1>1, <2>1, Rewriting DEF d, k
<1>4. ASSUME NEW i \in DOMAIN bindings, NEW m \in bindings[i].of
      PROVE  Reaches(IF bindings[i].whole THEN plan.access[m] ELSE Rewritten(Plain(bindings[i].local)),
                     InLibrary(bindings[i].module, m))
  <2> DEFINE b == bindings[i]
             d == InLibrary(b.module, m)
  <2>1. d \in Definitions /\ d[1] \in Libraries /\ d[2] = m /\ b.local \in ImportedNames
    BY <1>1, <1>4, ImportFacts
  <2>2. BindingOK(plan, b)
    BY <1>1
  <2>3. ~b.whole => m = CHOOSE n \in b.of : TRUE
    BY <1>1, <1>4, ImportFacts
  <2> HIDE DEF b, d
  <2>4. d[1] # "here"
    BY <2>1 DEF Libraries
  <2>5. CASE b.whole
    <3> DEFINE k == plan.access[m]
    <3>1. k \in DOMAIN c /\ c[k] = d /\ (Kind(d) = "class" => k = LamName(d))
      BY <1>4, <2>2, <2>5 DEF BindingOK, MemberOK, b, d
    <3>2. ClaimOf(plan, k) = d
      BY <3>1 DEF ClaimOf
    <3>3. CASE Kind(d) = "class"
      BY <2>5, <3>1, <3>2, <3>3 DEF Reaches, b, d
    <3>4. CASE Kind(d) # "class"
      <4>1. CASE k \in DOMAIN plan.go
        BY <1>2, <2>5, <3>1, <3>2, <3>4, <4>1 DEF Reaches, GoOK, b, d
      <4>2. CASE k \notin DOMAIN plan.go
        <5>1. k = Plain(d[2]) /\ ~Renamed(d) /\ d = <<d[1], d[2]>>
          BY <1>2, <2>1, <3>1, <3>4, <4>2, DefinitionIsPair DEF GoOK
        <5>2. k.name = d[2]
          BY <5>1, PlainName
        <5>3. GoName(d) = Plain(DefaultGo(<<d[1], k.name>>))
          BY <5>1, <5>2 DEF GoName
        <5>4. QED BY <2>5, <3>2, <3>4, <4>2, <5>3 DEF Reaches, b, d
      <4>3. QED BY <4>1, <4>2
    <3>5. QED BY <3>3, <3>4
  <2>6. CASE ~b.whole
    <3> DEFINE l == Plain(b.local)
    <3>1. \/ /\ l \in DOMAIN r /\ r[l] = Plain(m) /\ m \notin ImportedNames
             /\ Settled(c, r, Plain(m)) /\ c[Plain(m)] = d
          \/ /\ Settled(c, r, l) /\ c[l] = d
             /\ Kind(d) = "class" => l = LamName(d) \/ Renamed(d) \/ m \notin ImportedNames
      BY <2>2, <2>3, <2>6 DEF BindingOK, NamedOK, b, d
    <3> HIDE DEF l
    <3>2. Reaches(Rewritten(l), d)
      BY <1>1, <2>1, <2>4, <3>1, Rewriting
    <3>3. QED BY <2>6, <3>2 DEF l, b, d
  <2>7. QED BY <2>5, <2>6
<1>5. QED BY <1>3, <1>4

(* For any definitions of the three modules, of any kinds, any number of   *)
(* imports of names, and one of a module: if their local names differ from *)
(* each other and from the definitions of here, what the finished plan     *)
(* makes of a name is the definition that it stands for in the source.     *)
THEOREM AnyImportsReachDefinitions ==
  Linked /\ plan = OwnPlan /\ bound = 0 /\ [][NameNext]_nameVars => []ReferencesReachDefinitions
<1>1. Linked /\ plan = OwnPlan /\ bound = 0 => NameInv
  <2>1. Linked => Len(bindings) \in Nat
    BY DEF Linked
  <2>2. QED BY <2>1, OwnPlanOK DEF NameInv
<1>2. QED BY <1>1, NameStepInv, ReferencesReach, PTL

(* The programs that the runs start from are such programs.                *)
THEOREM ReferencesReachDefinitionsHolds == NameSpec => []ReferencesReachDefinitions
<1>1. NameInit => Linked /\ plan = OwnPlan /\ bound = 0
  <2> SUFFICES ASSUME NameInit PROVE Linked
    BY DEF NameInit
  <2>1. ThreeModules /\ relayed \subseteq DOMAIN symbols["sub"]
    BY DEF NameInit, ThreeModules
  <2>2. PICK a \in Imports, b \in Imports : bindings = <<a, b>>
    BY DEF NameInit
  <2>3. /\ DOMAIN bindings = {1, 2} /\ bindings[1] = a /\ bindings[2] = b
        /\ bindings \in Seq({bindings[i] : i \in DOMAIN bindings})
    <3>1. DOMAIN bindings = {1, 2} /\ bindings[1] = a /\ bindings[2] = b
      BY <2>2
    <3> DEFINE S == {bindings[i] : i \in DOMAIN bindings}
    <3>2. a \in S /\ b \in S
      BY <3>1
    <3> HIDE DEF S
    <3>3. bindings \in Seq(S)
      BY <2>2, <3>2
    <3>4. QED BY <3>1, <3>3 DEF S
  <2>4. ASSUME NEW e \in Imports PROVE IsImport(e)
    <3> DEFINE Of(q) == {From(q, n, l) : n \in Exported(q), l \in {"x", "X", "y"}}
                         \cup {Whole(q, ms) : ms \in (SUBSET Exported(q)) \ {{}}}
    <3>1. Imports = UNION {Of(q) : q \in Libraries}
      BY DEF Imports
    <3> HIDE DEF Of
    <3>2. PICK q \in Libraries : e \in Of(q)
      BY <3>1
    <3>3. ASSUME NEW n \in Exported(q) PROVE n \in DOMAIN symbols[q] \cup relayed /\ InLibrary(q, n) # Nothing
      BY DEF Exported, InLibrary
    <3>4. ASSUME NEW n \in Exported(q), NEW l, e = From(q, n, l) PROVE e = From(q, n, e.local)
      BY <3>4 DEF From
    <3>5. CASE \E n \in Exported(q), l \in {"x", "X", "y"} : e = From(q, n, l)
      BY <3>3, <3>4, <3>5 DEF IsImport
    <3>6. CASE \E ms \in SUBSET Exported(q) : e = Whole(q, ms)
      BY <3>6 DEF IsImport
    <3>7. QED BY <3>2, <3>5, <3>6 DEF Of
  <2>5. QED BY <2>1, <2>3, <2>4 DEF NameInit, Accepted, Linked
<1>2. QED BY <1>1, AnyImportsReachDefinitions, PTL DEF NameSpec

(* --------------------------- try, do and return -------------------------- *)

(* Lemmas about the stack of statements r, how the suite at its top runs   *)
(* or is left, what is due, whether the sentinel in scope asks for a       *)
(* return, and the named result rv.                                        *)
Flows == {"run", "leave", "panic"}
Dues == {None, [kind |-> "?"], [kind |-> "raise"]} \cup [kind : {"return"}, val : Values]
DoFrames == [kind : {"do"}, part : {"body", "handler"}, slot : Nat,
             flag : BOOLEAN, val : {0} \cup Values, err : BOOLEAN]
TryFrames == [kind : {"try"}, part : {"body", "handler", "finally", "else"}, slot : Nat \ {0},
              pending : Flows, owed : Dues]
Frames == DoFrames \cup TryFrames

(* What is at place i: a try, a do body, a finally suite, a suite of a try *)
(* that became a closure                                                   *)
TryAt(r, i) == r[i].kind = "try"
BodyAt(r, i) == r[i].kind = "do" /\ r[i].part = "body"
FinallyAt(r, i) == r[i].kind = "try" /\ r[i].part = "finally"
IifeAt(r, i) == r[i].kind = "try" /\ r[i].part \in {"body", "handler"}

(* What is due while a suite of the statements r runs, or is left          *)
Fits(how, what) == CASE how = "run" -> what = None
                     [] how = "leave" -> what.kind \in {"return", "?"}
                     [] OTHER -> what.kind = "raise"

(* The innermost do body among the first n statements                      *)
Target(r, d, n) == (d = 0 \/ BodyAt(r, d)) /\ \A i \in d + 1..n : ~BodyAt(r, i)

(* What is due was recorded where the code around looks for it.            *)
Recorded(r, d, what, rv) ==
  IF what.kind = "return"
  THEN IF d = 0 THEN rv = what.val ELSE r[d].flag /\ r[d].val = what.val
  ELSE d # 0 /\ r[d].err /\ ~r[d].flag

(* The first n statements are being left for what is due, which no finally *)
(* suite on the way may have begun.                                        *)
Leaving(r, n, what, rv) ==
  /\ \E d \in 0..n : /\ Target(r, d, n) /\ Recorded(r, d, what, rv)
                     /\ \A i \in d + 1..n : ~FinallyAt(r, i)
  /\ what.kind = "return" => \A i \in 1..n : ~FinallyAt(r, i)

(* The do body i, or the function for 0, has a return or an error recorded *)
Marked(r, i, rv) == IF i = 0 THEN rv # 0 ELSE BodyAt(r, i) /\ (r[i].flag \/ r[i].err)

(* While code runs, the sentinel asks for a return only on account of what *)
(* a finally suite holds up.                                               *)
RunOK(r, how, asks) ==
  how = "run" /\ asks =>
    \E i \in 1..Len(r) : /\ FinallyAt(r, i) /\ r[i].pending # "run"
                         /\ \A j \in i + 1..Len(r) : ~TryAt(r, j)

(* What a finally suite holds up is due, and goes on as it was held up.    *)
FinallyOK(r, asks, rv) ==
  \A i \in 1..Len(r) : FinallyAt(r, i) =>
    /\ Fits(r[i].pending, r[i].owed)
    /\ r[i].pending = "leave" => /\ asks /\ Leaving(r, i - 1, r[i].owed, rv)
                                 /\ \A j \in i + 1..Len(r) : ~TryAt(r, j)

(* On the way out, every try closure that is left finds the sentinel set.  *)
LeaveOK(r, how, asks, what, rv) ==
  how = "leave" =>
    /\ Leaving(r, Len(r), what, rv)
    /\ \A i \in 1..Len(r) : IifeAt(r, i) /\ (\A j \in i..Len(r) : ~BodyAt(r, j)) => asks

(* Whatever is recorded is on its way: to the innermost do body, unless a  *)
(* panic replaces it, or held up by the first finally suite from it on.    *)
MarkOK(r, how, asks, rv) ==
  \A i \in 0..Len(r) : Marked(r, i, rv) =>
    /\ \A k \in i + 1..Len(r) : TryAt(r, k) /\ r[k].part # "else" => asks
    /\ (\A k \in i + 1..Len(r) : ~FinallyAt(r, k))
         => how # "run" /\ (how = "leave" => Target(r, i, Len(r)))
    /\ \A j \in i + 1..Len(r) : FinallyAt(r, j) /\ (\A k \in i + 1..j - 1 : ~FinallyAt(r, k))
         => r[j].pending # "run" /\ (r[j].pending = "leave" => Target(r, i, j - 1))

Safe(r, how, asks, what, rv) ==
  /\ Fits(how, what) /\ RunOK(r, how, asks) /\ FinallyOK(r, asks, rv)
  /\ LeaveOK(r, how, asks, what, rv) /\ MarkOK(r, how, asks, rv)

(* No try is around, and whether a sentinel asks makes no difference.      *)
NoTry(r) == \A i \in 1..Len(r) : ~TryAt(r, i)

LEMMA SafeAsks ==
  ASSUME NEW r \in Seq(Frames), NEW how, NEW asks \in BOOLEAN, NEW what, NEW rv,
         Safe(r, how, asks, what, rv), NoTry(r)
  PROVE  Safe(r, how, FALSE, what, rv)
<1>1. RunOK(r, how, FALSE)
  BY DEF RunOK
<1>2. FinallyOK(r, FALSE, rv)
  BY DEF FinallyOK, FinallyAt, TryAt, NoTry
<1>3. LeaveOK(r, how, FALSE, what, rv)
  BY DEF Safe, LeaveOK, IifeAt, TryAt, NoTry
<1>4. MarkOK(r, how, FALSE, rv)
  BY DEF Safe, MarkOK, TryAt, NoTry
<1>5. QED BY <1>1, <1>2, <1>3, <1>4 DEF Safe

(* Leaving looks at the first n statements only.                           *)
LEMMA LeavingSame ==
  ASSUME NEW r, NEW q, NEW n \in Nat, NEW what, NEW rv, \A i \in 1..n : q[i] = r[i],
         Leaving(r, n, what, rv)
  PROVE  Leaving(q, n, what, rv)
BY DEF Leaving, Target, Recorded, BodyAt, FinallyAt

(* One more statement around what runs                                     *)
LEMMA PushSafe ==
  ASSUME NEW r \in Seq(Frames), NEW asks \in BOOLEAN, NEW what, NEW rv,
         Safe(r, "run", asks, what, rv),
         NEW f, \/ f.kind = "do" /\ ~f.flag /\ ~f.err
                \/ f.kind = "try" /\ f.part = "body" /\ ~asks
  PROVE  Safe(Append(r, f), "run", asks, what, rv)
<1> DEFINE q == Append(r, f)
           n == Len(r)
<1>1. /\ n \in Nat /\ Len(q) = n + 1 /\ q[n + 1] = f
      /\ \A i \in 1..n : q[i] = r[i]
  OBVIOUS
<1>2. ~FinallyAt(q, n + 1) /\ (asks => ~TryAt(q, n + 1)) /\ n = Len(r)
      /\ ~Marked(q, n + 1, rv)
  BY <1>1 DEF FinallyAt, TryAt, Marked, BodyAt
<1> HIDE DEF q, n
<1>3. \A k \in 1..n : /\ TryAt(q, k) <=> TryAt(r, k)
                      /\ FinallyAt(q, k) <=> FinallyAt(r, k)
                      /\ BodyAt(q, k) <=> BodyAt(r, k)
  BY <1>1 DEF TryAt, FinallyAt, BodyAt
<1>4. RunOK(q, "run", asks)
  <2> SUFFICES ASSUME asks
               PROVE  \E i \in 1..n + 1 : /\ FinallyAt(q, i) /\ q[i].pending # "run"
                                          /\ \A j \in i + 1..n + 1 : ~TryAt(q, j)
    BY <1>1 DEF RunOK
  <2>1. PICK i \in 1..n : /\ FinallyAt(r, i) /\ r[i].pending # "run"
                          /\ \A j \in i + 1..n : ~TryAt(r, j)
    BY <1>2 DEF Safe, RunOK
  <2>2. \A j \in i + 1..n + 1 : j = n + 1 \/ (j \in 1..n /\ j \in i + 1..n)
    BY <1>1
  <2>3. \A j \in i + 1..n + 1 : ~TryAt(q, j)
    BY <1>2, <1>3, <2>1, <2>2
  <2>4. i \in 1..n + 1 /\ FinallyAt(q, i) /\ q[i].pending # "run"
    BY <1>1, <1>3, <2>1
  <2>5. QED BY <2>3, <2>4
<1>5. FinallyOK(q, asks, rv)
  <2> SUFFICES ASSUME NEW i \in 1..n + 1, FinallyAt(q, i)
               PROVE  /\ Fits(q[i].pending, q[i].owed)
                      /\ q[i].pending = "leave" =>
                           /\ asks /\ Leaving(q, i - 1, q[i].owed, rv)
                           /\ \A j \in i + 1..n + 1 : ~TryAt(q, j)
    BY <1>1 DEF FinallyOK
  <2>1. i \in 1..n /\ i - 1 \in Nat /\ q[i] = r[i] /\ FinallyAt(r, i)
    <3>1. i = n + 1 \/ i \in 1..n
      BY <1>1
    <3>2. i \in 1..n
      BY <1>2, <3>1
    <3>3. QED BY <1>1, <1>3, <3>2
  <2>2. /\ Fits(r[i].pending, r[i].owed)
        /\ r[i].pending = "leave" => /\ asks /\ Leaving(r, i - 1, r[i].owed, rv)
                                     /\ \A j \in i + 1..n : ~TryAt(r, j)
    BY <1>2, <2>1 DEF Safe, FinallyOK
  <2>3. \A j \in 1..i - 1 : q[j] = r[j]
    BY <1>1, <2>1
  <2>4. r[i].pending = "leave" => Leaving(q, i - 1, r[i].owed, rv)
    BY <2>1, <2>2, <2>3, LeavingSame
  <2>5. \A j \in i + 1..n + 1 : j = n + 1 \/ (j \in 1..n /\ j \in i + 1..n)
    BY <1>1
  <2>6. r[i].pending = "leave" => \A j \in i + 1..n + 1 : ~TryAt(q, j)
    BY <1>2, <1>3, <2>2, <2>5
  <2>7. QED BY <2>1, <2>2, <2>4, <2>6
<1>6. MarkOK(q, "run", asks, rv)
  <2> SUFFICES ASSUME NEW i \in 0..n + 1, Marked(q, i, rv)
               PROVE  /\ \A k \in i + 1..n + 1 : TryAt(q, k) /\ q[k].part # "else" => asks
                      /\ ~ \A k \in i + 1..n + 1 : ~FinallyAt(q, k)
                      /\ \A j \in i + 1..n + 1 :
                           FinallyAt(q, j) /\ (\A k \in i + 1..j - 1 : ~FinallyAt(q, k))
                           => q[j].pending # "run" /\ (q[j].pending = "leave" => Target(q, i, j - 1))
    BY <1>1 DEF MarkOK
  <2>1. i \in 0..n
    BY <1>1, <1>2
  <2>2. i = 0 \/ i \in 1..n
    BY <1>1, <2>1
  <2>3. Marked(r, i, rv)
    BY <1>1, <1>3, <2>2 DEF Marked
  <2>4. /\ \A k \in i + 1..n : TryAt(r, k) /\ r[k].part # "else" => asks
        /\ ~ \A k \in i + 1..n : ~FinallyAt(r, k)
        /\ \A j \in i + 1..n : FinallyAt(r, j) /\ (\A k \in i + 1..j - 1 : ~FinallyAt(r, k))
             => r[j].pending # "run" /\ (r[j].pending = "leave" => Target(r, i, j - 1))
    BY <1>2, <2>1, <2>3 DEF Safe, MarkOK
  <2>5. \A k \in i + 1..n : k \in 1..n /\ k \in i + 1..n + 1 /\ q[k] = r[k]
    BY <1>1, <2>1
  <2>6. \A k \in i + 1..n + 1 : k = n + 1 \/ k \in i + 1..n
    BY <1>1, <2>1
  <2>7. asks
    <3>1. PICK k \in i + 1..n : FinallyAt(r, k)
      BY <2>4
    <3>2. TryAt(r, k) /\ r[k].part # "else"
      BY <3>1 DEF FinallyAt, TryAt
    <3>3. QED BY <2>4, <3>2
  <2>8. ~ \A k \in i + 1..n + 1 : ~FinallyAt(q, k)
    BY <1>3, <2>4, <2>5
  <2>9. ASSUME NEW j \in i + 1..n + 1, FinallyAt(q, j), \A k \in i + 1..j - 1 : ~FinallyAt(q, k)
        PROVE  q[j].pending # "run" /\ (q[j].pending = "leave" => Target(q, i, j - 1))
    <3>1. j \in i + 1..n /\ j \in 1..n /\ q[j] = r[j]
      BY <1>2, <2>5, <2>6, <2>9
    <3>2. \A k \in i + 1..j - 1 : k \in 1..n
      BY <1>1, <2>1, <3>1
    <3>3. FinallyAt(r, j) /\ \A k \in i + 1..j - 1 : ~FinallyAt(r, k)
      BY <1>3, <2>9, <3>1, <3>2
    <3>4. r[j].pending # "run" /\ (r[j].pending = "leave" => Target(r, i, j - 1))
      BY <2>4, <3>1, <3>3
    <3>5. Target(r, i, j - 1) => Target(q, i, j - 1)
      BY <1>3, <2>2, <3>2 DEF Target
    <3>6. QED BY <3>1, <3>4, <3>5
  <2>10. QED BY <2>7, <2>8, <2>9
<1>7. QED BY <1>4, <1>5, <1>6 DEF Safe, LeaveOK, q

(* All elements but the last                                               *)
LEMMA FrontFacts ==
  ASSUME NEW S, NEW r \in Seq(S), r # <<>>
  PROVE  /\ Len(r) \in Nat /\ Len(r) > 0 /\ Len(Front(r)) = Len(r) - 1
         /\ \A i \in 1..Len(r) - 1 : Front(r)[i] = r[i]
         /\ Front(r) \in Seq(S)
<1>1. Len(r) \in Nat /\ Len(r) > 0
  OBVIOUS
<1>2. Len(r) - 1 \in Nat /\ Front(r) = SubSeq(r, 1, Len(r) - 1)
  BY <1>1 DEF Front
<1>3. \A i \in 1..Len(r) - 1 : Front(r)[i] = r[i]
  BY <1>1, <1>2
<1>4. ASSUME NEW m \in Nat, m < Len(r) PROVE Len(SubSeq(r, 1, m)) = m /\ SubSeq(r, 1, m) \in Seq(S)
  BY <1>4
<1>5. Len(r) - 1 < Len(r)
  BY <1>1
<1>6. Len(Front(r)) = Len(r) - 1 /\ Front(r) \in Seq(S)
  BY <1>2, <1>4, <1>5
<1>7. QED BY <1>1, <1>3, <1>6

(* A statement is over that holds nothing up.                              *)
LEMMA PopSafe ==
  ASSUME NEW r \in Seq(Frames), r # <<>>, NEW how \in Flows, NEW asks \in BOOLEAN, NEW what, NEW rv,
         Safe(r, how, asks, what, rv),
         how # "panic" => ~FinallyAt(r, Len(r)), how = "leave" => ~BodyAt(r, Len(r))
  PROVE  Safe(Front(r), how, asks, what, rv)
<1> DEFINE q == Front(r)
           n == Len(r)
<1>1. /\ n \in Nat /\ n > 0 /\ Len(q) = n - 1
      /\ \A i \in 1..n - 1 : q[i] = r[i]
  BY FrontFacts
<1> HIDE DEF q, n
<1>2. RunOK(q, how, asks)
  BY <1>1 DEF Safe, RunOK, FinallyAt, TryAt, n
<1>3. FinallyOK(q, asks, rv)
  <2>1. ASSUME NEW i \in 1..n - 1, FinallyAt(q, i)
        PROVE  /\ Fits(q[i].pending, q[i].owed)
               /\ q[i].pending = "leave" => /\ asks /\ Leaving(q, i - 1, q[i].owed, rv)
                                            /\ \A j \in i + 1..n - 1 : ~TryAt(q, j)
    <3>1. q[i] = r[i] /\ FinallyAt(r, i) /\ i \in 1..n /\ i - 1 \in Nat
      BY <1>1, <2>1 DEF FinallyAt
    <3>2. /\ Fits(r[i].pending, r[i].owed)
          /\ r[i].pending = "leave" => /\ asks /\ Leaving(r, i - 1, r[i].owed, rv)
                                       /\ \A j \in i + 1..n : ~TryAt(r, j)
      BY <3>1 DEF Safe, FinallyOK, n
    <3>3. \A j \in 1..i - 1 : q[j] = r[j]
      BY <1>1, <3>1
    <3>4. \A j \in i + 1..n - 1 : TryAt(q, j) <=> TryAt(r, j)
      BY <1>1, <3>1 DEF TryAt
    <3>5. r[i].pending = "leave" => Leaving(q, i - 1, r[i].owed, rv)
      BY <3>1, <3>2, <3>3, LeavingSame
    <3>6. i + 1..n - 1 \subseteq i + 1..n
      BY <1>1, <3>1
    <3>7. QED BY <3>1, <3>2, <3>4, <3>5, <3>6
  <2>2. QED BY <1>1, <2>1 DEF FinallyOK
<1>4. LeaveOK(q, how, asks, what, rv)
  BY <1>1 DEF Safe, LeaveOK, IifeAt, FinallyAt, Leaving, Target, Recorded, BodyAt, n
<1>5. MarkOK(q, how, asks, rv)
  <2>0. n = Len(r) /\ (how # "panic" => ~FinallyAt(r, n))
    BY DEF n
  <2>1. \A k \in 1..n - 1 : /\ TryAt(q, k) <=> TryAt(r, k)
                            /\ FinallyAt(q, k) <=> FinallyAt(r, k)
                            /\ BodyAt(q, k) <=> BodyAt(r, k)
    BY <1>1 DEF TryAt, FinallyAt, BodyAt
  <2>2. ASSUME NEW i \in 0..n - 1, Marked(q, i, rv)
        PROVE  /\ \A k \in i + 1..n - 1 : TryAt(q, k) /\ q[k].part # "else" => asks
               /\ (\A k \in i + 1..n - 1 : ~FinallyAt(q, k))
                    => how # "run" /\ (how = "leave" => Target(q, i, n - 1))
               /\ \A j \in i + 1..n - 1 : FinallyAt(q, j) /\ (\A k \in i + 1..j - 1 : ~FinallyAt(q, k))
                    => q[j].pending # "run" /\ (q[j].pending = "leave" => Target(q, i, j - 1))
    <3>1. i \in 0..n /\ Marked(r, i, rv)
      BY <1>1, <2>2 DEF Marked, BodyAt
    <3>2. /\ \A k \in i + 1..n : TryAt(r, k) /\ r[k].part # "else" => asks
          /\ (\A k \in i + 1..n : ~FinallyAt(r, k))
               => how # "run" /\ (how = "leave" => Target(r, i, n))
          /\ \A j \in i + 1..n : FinallyAt(r, j) /\ (\A k \in i + 1..j - 1 : ~FinallyAt(r, k))
               => r[j].pending # "run" /\ (r[j].pending = "leave" => Target(r, i, j - 1))
      BY <2>0, <3>1 DEF Safe, MarkOK
    <3>3. \A k \in i + 1..n - 1 : k \in 1..n - 1 /\ k \in i + 1..n /\ q[k] = r[k]
      BY <1>1
    <3>4. \A j \in i + 1..n : Target(q, i, j - 1) <=> Target(r, i, j - 1)
      <4> SUFFICES ASSUME NEW j \in i + 1..n PROVE Target(q, i, j - 1) <=> Target(r, i, j - 1)
        OBVIOUS
      <4>1. (i = 0 \/ i \in 1..n - 1) /\ \A k \in i + 1..j - 1 : k \in 1..n - 1
        BY <1>1
      <4>2. QED BY <2>1, <4>1 DEF Target
    <3>5. \A k \in i + 1..n - 1 : TryAt(q, k) /\ q[k].part # "else" => asks
      BY <2>1, <3>2, <3>3
    <3>6. ASSUME \A k \in i + 1..n - 1 : ~FinallyAt(q, k)
          PROVE  how # "run" /\ (how = "leave" => Target(q, i, n - 1))
      <4>1. ASSUME how # "panic" PROVE \A k \in i + 1..n : ~FinallyAt(r, k)
        <5>1. \A k \in i + 1..n : k = n \/ k \in i + 1..n - 1
          BY <1>1
        <5>2. QED BY <2>0, <2>1, <3>3, <3>6, <4>1, <5>1
      <4>2. Target(r, i, n) => Target(r, i, n - 1)
        BY <1>1 DEF Target
      <4>3. Target(r, i, n - 1) => Target(q, i, n - 1)
        BY <1>1, <3>4
      <4>4. QED BY <3>2, <4>1, <4>2, <4>3
    <3>7. \A j \in i + 1..n - 1 : FinallyAt(q, j) /\ (\A k \in i + 1..j - 1 : ~FinallyAt(q, k))
            => q[j].pending # "run" /\ (q[j].pending = "leave" => Target(q, i, j - 1))
      <4> SUFFICES ASSUME NEW j \in i + 1..n - 1, FinallyAt(q, j),
                          \A k \in i + 1..j - 1 : ~FinallyAt(q, k)
                   PROVE  q[j].pending # "run" /\ (q[j].pending = "leave" => Target(q, i, j - 1))
        OBVIOUS
      <4>1. \A k \in i + 1..j - 1 : k \in i + 1..n - 1
        BY <1>1
      <4>2. FinallyAt(r, j) /\ \A k \in i + 1..j - 1 : ~FinallyAt(r, k)
        BY <2>1, <3>3, <4>1
      <4>3. QED BY <3>2, <3>3, <3>4, <4>2
    <3>8. QED BY <3>5, <3>6, <3>7
  <2>3. QED BY <1>1, <2>2 DEF MarkOK
<1>6. QED BY <1>2, <1>3, <1>4, <1>5 DEF Safe, q

(* A finally suite is over, and what it held up goes on.                   *)
LEMMA FinallySafe ==
  ASSUME NEW r \in Seq(Frames), r # <<>>, NEW asks \in BOOLEAN, NEW rv,
         Safe(r, "run", asks, None, rv), FinallyAt(r, Len(r))
  PROVE  /\ Safe(Front(r), r[Len(r)].pending, asks, r[Len(r)].owed, rv)
         /\ r[Len(r)].pending = "leave" => asks
         /\ r[Len(r)].pending = "run" => ~asks
<1> DEFINE q == Front(r)
           n == Len(r)
           how == r[n].pending
           what == r[n].owed
<1>1. /\ n \in Nat /\ n > 0 /\ Len(q) = n - 1 /\ n \in 1..n
      /\ \A i \in 1..n - 1 : q[i] = r[i]
  BY FrontFacts
<1>2. /\ Fits(how, what)
      /\ how = "leave" => asks /\ Leaving(r, n - 1, what, rv)
      /\ how = "run" => ~asks
  <2>1. Fits(how, what) /\ (how = "leave" => asks /\ Leaving(r, n - 1, what, rv))
    BY <1>1 DEF Safe, FinallyOK
  <2>2. ASSUME how = "run", asks PROVE FALSE
    BY <1>1, <2>2 DEF Safe, RunOK, FinallyAt, TryAt
  <2>3. QED BY <2>1, <2>2
<1>3. n = Len(r) /\ r[n].pending = how /\ r[n].owed = what
  OBVIOUS
<1> HIDE DEF q, n, how, what
<1>4. RunOK(q, how, asks)
  BY <1>2 DEF RunOK
<1>5. FinallyOK(q, asks, rv)
  BY <1>1, <1>3 DEF Safe, FinallyOK, FinallyAt, TryAt, Leaving, Target, Recorded, BodyAt
<1>6. LeaveOK(q, how, asks, what, rv)
  <2>1. how = "leave" => Leaving(q, n - 1, what, rv)
    BY <1>1, <1>2, LeavingSame
  <2>2. QED BY <1>1, <1>2, <2>1 DEF LeaveOK
<1>7. MarkOK(q, how, asks, rv)
  <2>1. FinallyAt(r, n)
    BY <1>3
  <2>2. ASSUME NEW i \in 0..n - 1, Marked(q, i, rv)
        PROVE  /\ \A k \in i + 1..n - 1 : TryAt(q, k) /\ q[k].part # "else" => asks
               /\ (\A k \in i + 1..n - 1 : ~FinallyAt(q, k))
                    => how # "run" /\ (how = "leave" => Target(q, i, n - 1))
               /\ \A j \in i + 1..n - 1 : FinallyAt(q, j) /\ (\A k \in i + 1..j - 1 : ~FinallyAt(q, k))
                    => q[j].pending # "run" /\ (q[j].pending = "leave" => Target(q, i, j - 1))
    <3>1. Marked(r, i, rv)
      BY <1>1, <2>2 DEF Marked, BodyAt
    <3>2. /\ \A k \in i + 1..n : TryAt(r, k) /\ r[k].part # "else" => asks
          /\ \A j \in i + 1..n : FinallyAt(r, j) /\ (\A k \in i + 1..j - 1 : ~FinallyAt(r, k))
               => r[j].pending # "run" /\ (r[j].pending = "leave" => Target(r, i, j - 1))
      BY <1>3, <3>1 DEF Safe, MarkOK
    <3>3. /\ \A k \in i + 1..n - 1 : (TryAt(q, k) <=> TryAt(r, k)) /\ (FinallyAt(q, k) <=> FinallyAt(r, k))
          /\ \A j \in i + 1..n : (Target(q, i, j - 1) <=> Target(r, i, j - 1))
      <4>1. \A k \in 1..n - 1 : /\ TryAt(q, k) <=> TryAt(r, k)
                                /\ FinallyAt(q, k) <=> FinallyAt(r, k)
                                /\ BodyAt(q, k) <=> BodyAt(r, k)
        BY <1>1 DEF TryAt, FinallyAt, BodyAt
      <4>2. \A k \in i + 1..n - 1 : k \in 1..n - 1
        BY <1>1
      <4>3. ASSUME NEW j \in i + 1..n PROVE Target(q, i, j - 1) <=> Target(r, i, j - 1)
        <5>1. (i = 0 \/ i \in 1..n - 1) /\ \A k \in i + 1..j - 1 : k \in 1..n - 1
          BY <1>1
        <5>2. QED BY <4>1, <5>1 DEF Target
      <4>4. QED BY <4>1, <4>2, <4>3
    <3>4. (\A k \in i + 1..n - 1 : ~FinallyAt(q, k))
            => how # "run" /\ (how = "leave" => Target(q, i, n - 1))
      <4> SUFFICES ASSUME \A k \in i + 1..n - 1 : ~FinallyAt(q, k)
                   PROVE  how # "run" /\ (how = "leave" => Target(q, i, n - 1))
        OBVIOUS
      <4>1. n \in i + 1..n /\ \A k \in i + 1..n - 1 : ~FinallyAt(r, k)
        BY <1>1, <3>3
      <4>2. r[n].pending # "run" /\ (r[n].pending = "leave" => Target(r, i, n - 1))
        BY <2>1, <3>2, <4>1
      <4>3. QED BY <1>3, <3>3, <4>1, <4>2
    <3>5. \A k \in i + 1..n - 1 : q[k] = r[k] /\ k \in i + 1..n
      BY <1>1
    <3>6. \A k \in i + 1..n - 1 : TryAt(q, k) /\ q[k].part # "else" => asks
      BY <3>2, <3>3, <3>5
    <3>7. \A j \in i + 1..n - 1 : FinallyAt(q, j) /\ (\A k \in i + 1..j - 1 : ~FinallyAt(q, k))
            => q[j].pending # "run" /\ (q[j].pending = "leave" => Target(q, i, j - 1))
      <4> SUFFICES ASSUME NEW j \in i + 1..n - 1, FinallyAt(q, j),
                          \A k \in i + 1..j - 1 : ~FinallyAt(q, k)
                   PROVE  q[j].pending # "run" /\ (q[j].pending = "leave" => Target(q, i, j - 1))
        OBVIOUS
      <4>1. FinallyAt(r, j) /\ \A k \in i + 1..j - 1 : k \in i + 1..n - 1 /\ ~FinallyAt(r, k)
        BY <1>1, <3>3
      <4>2. QED BY <3>2, <3>3, <3>5, <4>1
    <3>8. QED BY <3>4, <3>6, <3>7
  <2>3. QED BY <1>1, <2>2 DEF MarkOK
<1>8. QED BY <1>2, <1>4, <1>5, <1>6, <1>7 DEF Safe, q, how, what, n

(* A try or a do goes on with another of its suites, and nothing is due.   *)
LEMMA EnterSafe ==
  ASSUME NEW r \in Seq(Frames), r # <<>>, NEW how \in Flows, NEW what, NEW rv,
         Safe(r, how, FALSE, what, rv),
         how = "leave" => BodyAt(r, Len(r)),
         how = "panic" => TryAt(r, Len(r)) /\ r[Len(r)].part # "else",
         NEW f, \/ f.kind = "do" /\ f.part = "handler"
                \/ f.kind = "try" /\ f.part \in {"handler", "else"}
  PROVE  Safe([r EXCEPT ![Len(r)] = f], "run", FALSE, None, rv)
<1> DEFINE q == [r EXCEPT ![Len(r)] = f]
           n == Len(r)
<1>1. /\ n \in Nat /\ n > 0 /\ Len(q) = n /\ q[n] = f /\ n = Len(r)
      /\ \A i \in 1..n - 1 : q[i] = r[i]
  OBVIOUS
<1>2. \A i \in 0..n - 1 : ~Marked(r, i, rv)
  <2> SUFFICES ASSUME NEW i \in 0..n - 1, Marked(r, i, rv) PROVE FALSE
    OBVIOUS
  <2> HIDE DEF q, n
  <2>1. /\ \A k \in i + 1..n : ~(TryAt(r, k) /\ r[k].part # "else")
        /\ (\A k \in i + 1..n : ~FinallyAt(r, k)) => how # "run" /\ (how = "leave" => Target(r, i, n))
    BY <1>1 DEF Safe, MarkOK
  <2>2. \A k \in i + 1..n : ~FinallyAt(r, k)
    BY <2>1 DEF TryAt, FinallyAt
  <2>3. how # "run" /\ how # "panic"
    BY <1>1, <2>1, <2>2
  <2>4. QED BY <1>1, <2>1, <2>2, <2>3 DEF Target, Flows
<1> HIDE DEF q, n
<1>3. FinallyOK(q, FALSE, rv)
  BY <1>1 DEF Safe, FinallyOK, FinallyAt
<1>4. MarkOK(q, "run", FALSE, rv)
  BY <1>1, <1>2 DEF MarkOK, Marked, BodyAt
<1>5. QED BY <1>3, <1>4 DEF Safe, LeaveOK, RunOK, Fits, q

(* A finally suite begins, and what went on is put aside.                  *)
LEMMA HoldSafe ==
  ASSUME NEW r \in Seq(Frames), r # <<>>, NEW how \in Flows, NEW asks \in BOOLEAN, NEW what, NEW rv,
         Safe(r, how, asks, what, rv), IifeAt(r, Len(r)),
         NEW f, f.kind = "try", f.part = "finally", f.pending = how, f.owed = what
  PROVE  Safe([r EXCEPT ![Len(r)] = f], "run", asks, None, rv)
<1> DEFINE q == [r EXCEPT ![Len(r)] = f]
           n == Len(r)
<1>1. /\ n \in Nat /\ n > 0 /\ Len(q) = n /\ q[n] = f /\ n = Len(r) /\ n \in 1..n
      /\ \A i \in 1..n - 1 : q[i] = r[i]
  OBVIOUS
<1> HIDE DEF q, n
<1>2. RunOK(q, "run", asks)
  <2>1. FinallyAt(q, n) /\ q[n].pending = how
    BY <1>1 DEF FinallyAt
  <2>2. how = "run" => ~asks
    BY <1>1 DEF Safe, RunOK, FinallyAt, TryAt, IifeAt
  <2>3. QED BY <1>1, <2>1, <2>2 DEF RunOK
<1>3. FinallyOK(q, asks, rv)
  <2>1. \A i \in 1..n - 1 : FinallyAt(r, i) => Fits(r[i].pending, r[i].owed) /\ r[i].pending # "leave"
    BY <1>1 DEF Safe, FinallyOK, TryAt, IifeAt
  <2>2. how = "leave" => asks /\ Leaving(r, n, what, rv)
    BY <1>1 DEF Safe, LeaveOK, IifeAt, BodyAt
  <2>3. how = "leave" => Leaving(q, n - 1, what, rv)
    BY <1>1, <2>2 DEF Leaving, Target, Recorded, BodyAt, FinallyAt, IifeAt
  <2>4. \A i \in 1..n - 1 : FinallyAt(q, i) => Fits(q[i].pending, q[i].owed) /\ q[i].pending # "leave"
    BY <1>1, <2>1 DEF FinallyAt
  <2>5. Fits(f.pending, f.owed) /\ (f.pending = "leave" => asks /\ Leaving(q, n - 1, f.owed, rv))
    BY <2>2, <2>3 DEF Safe
  <2>6. QED BY <1>1, <2>4, <2>5 DEF FinallyOK
<1>4. MarkOK(q, "run", asks, rv)
  <2>1. FinallyAt(q, n) /\ TryAt(r, n) /\ r[n].part # "else" /\ q[n].pending = how
    BY <1>1 DEF FinallyAt, IifeAt, TryAt
  <2>2. ASSUME NEW i \in 0..n, Marked(q, i, rv)
        PROVE  /\ \A k \in i + 1..n : TryAt(q, k) /\ q[k].part # "else" => asks
               /\ ~ \A k \in i + 1..n : ~FinallyAt(q, k)
               /\ \A j \in i + 1..n : FinallyAt(q, j) /\ (\A k \in i + 1..j - 1 : ~FinallyAt(q, k))
                    => q[j].pending # "run" /\ (q[j].pending = "leave" => Target(q, i, j - 1))
    <3>1. i < n /\ Marked(r, i, rv)
      BY <1>1, <2>2 DEF Marked, BodyAt
    <3>2. /\ \A k \in i + 1..n : TryAt(r, k) /\ r[k].part # "else" => asks
          /\ (\A k \in i + 1..n : ~FinallyAt(r, k)) => how # "run" /\ (how = "leave" => Target(r, i, n))
          /\ \A j \in i + 1..n : FinallyAt(r, j) /\ (\A k \in i + 1..j - 1 : ~FinallyAt(r, k))
               => r[j].pending # "run" /\ (r[j].pending = "leave" => Target(r, i, j - 1))
      BY <1>1, <3>1 DEF Safe, MarkOK
    <3>3. /\ \A k \in i + 1..n - 1 : (TryAt(q, k) <=> TryAt(r, k)) /\ (FinallyAt(q, k) <=> FinallyAt(r, k))
          /\ \A j \in i + 1..n : (Target(q, i, j - 1) <=> Target(r, i, j - 1))
          /\ Target(r, i, n) => Target(r, i, n - 1)
          /\ ~FinallyAt(r, n)
      BY <1>1, <3>1 DEF TryAt, FinallyAt, Target, BodyAt, IifeAt
    <3>4. asks
      BY <1>1, <2>1, <3>1, <3>2
    <3>5. \A j \in i + 1..n - 1 : FinallyAt(q, j) /\ (\A k \in i + 1..j - 1 : ~FinallyAt(q, k))
            => q[j].pending # "run" /\ (q[j].pending = "leave" => Target(q, i, j - 1))
      BY <1>1, <3>2, <3>3
    <3>6. (\A k \in i + 1..n - 1 : ~FinallyAt(q, k))
            => q[n].pending # "run" /\ (q[n].pending = "leave" => Target(q, i, n - 1))
      BY <1>1, <2>1, <3>1, <3>2, <3>3
    <3>7. \A j \in i + 1..n : j = n \/ j \in i + 1..n - 1
      BY <1>1
    <3>8. QED BY <1>1, <2>1, <3>1, <3>4, <3>5, <3>6, <3>7
  <2>3. QED BY <1>1, <2>2 DEF MarkOK
<1>5. QED BY <1>2, <1>3, <1>4 DEF Safe, LeaveOK, Fits, q

(* A set of places that is not empty has a last one.                       *)
LEMMA GreatestExists ==
  ASSUME NEW n \in Nat, NEW S \in SUBSET (1..n), S # {}
  PROVE  \E m \in S : \A i \in S : i <= m
<1> DEFINE Above == {b \in Nat : \A s \in S : s <= b}
<1>1. \A x, y \in Nat : <<x, y>> \in OpToRel(<, Nat) <=> x < y
  BY DEF OpToRel
<1>2. Above \subseteq Nat /\ Above # {}
  OBVIOUS
<1>3. PICK m \in Above : \A b \in Above : <<b, m>> \notin OpToRel(<, Nat)
  BY <1>2, NatLessThanWellFounded, WFMin
<1>4. \A b \in Above : ~(b < m)
  BY <1>1, <1>2, <1>3
<1>5. m \in Nat /\ \A s \in S : s \in Nat /\ s >= 1 /\ s <= m
  BY <1>2
<1>6. m - 1 \notin Above
  <2>1. m - 1 \in Above => m - 1 \in Nat
    OBVIOUS
  <2> HIDE DEF Above
  <2>2. QED BY <1>4, <1>5, <2>1
<1>7. \E s \in S : ~(s <= m - 1)
  <2>1. PICK s \in S : TRUE
    OBVIOUS
  <2>2. s \in Nat /\ s >= 1 /\ s <= m
    BY <1>5
  <2>3. m - 1 \in Nat
    BY <1>5, <2>2
  <2>4. QED BY <1>6, <2>3
<1>8. QED BY <1>5, <1>7

(* _do_return_target finds the innermost do body.                          *)
LEMMA DoBodyIs ==
  ASSUME NEW r \in Seq(Frames)
  PROVE  /\ DoBody(r) \in 0..Len(r) /\ Target(r, DoBody(r), Len(r))
         /\ DoBody(r) # 0 => r[DoBody(r)] \in DoFrames
<1> DEFINE n == Len(r)
           B == DoBodies(r)
<1>1. n \in Nat /\ DOMAIN r = 1..n /\ B = {i \in 1..n : BodyAt(r, i)}
  BY DEF DoBodies, BodyAt
<1>2. ASSUME NEW i \in 1..n, BodyAt(r, i) PROVE r[i] \in DoFrames
  <2>1. r[i] \in Frames
    OBVIOUS
  <2>2. r[i] \notin TryFrames
    BY <1>2 DEF BodyAt, TryFrames
  <2>3. QED BY <2>1, <2>2 DEF Frames
<1>3. CASE B = {}
  <2>1. DoBody(r) = 0
    BY <1>3 DEF DoBody
  <2>2. QED BY <1>1, <1>3, <2>1 DEF Target
<1>4. CASE B # {}
  <2>1. DoBody(r) = CHOOSE i \in B : \A j \in B : j <= i
    BY <1>4 DEF DoBody
  <2>2. \E m \in B : \A i \in B : i <= m
    BY <1>1, <1>4, GreatestExists
  <2>3. DoBody(r) \in B /\ \A j \in B : j <= DoBody(r)
    BY <2>1, <2>2
  <2>4. QED BY <1>1, <1>2, <2>3 DEF Target
<1>5. QED BY <1>3, <1>4

(* A raise                                                                 *)
LEMMA RaiseSafe ==
  ASSUME NEW r \in Seq(Frames), NEW asks, NEW rv, Safe(r, "run", asks, None, rv)
  PROVE  Safe(r, "panic", asks, [kind |-> "raise"], rv)
<1>1. /\ Fits("panic", [kind |-> "raise"]) /\ RunOK(r, "panic", asks)
      /\ LeaveOK(r, "panic", asks, [kind |-> "raise"], rv)
  BY DEF Fits, RunOK, LeaveOK
<1>2. MarkOK(r, "panic", asks, rv)
  BY DEF Safe, MarkOK
<1>3. QED BY <1>1, <1>2 DEF Safe

(* A return where nothing holds it up and nothing else is on its way       *)
LEMMA ReturnSafe ==
  ASSUME NEW r \in Seq(Frames), NEW rv, NEW v \in Values,
         \A i \in 1..Len(r) : ~FinallyAt(r, i), \A i \in 0..Len(r) : ~Marked(r, i, rv),
         NEW a \in BOOLEAN, InTryIife(r) => a
  PROVE  Safe(IF DoBody(r) = 0 THEN r
              ELSE [r EXCEPT ![DoBody(r)].flag = TRUE, ![DoBody(r)].val = v],
              "leave", a, [kind |-> "return", val |-> v], IF DoBody(r) = 0 THEN v ELSE rv)
<1> DEFINE d == DoBody(r)
           n == Len(r)
           q == IF d = 0 THEN r ELSE [r EXCEPT ![d].flag = TRUE, ![d].val = v]
           w == IF d = 0 THEN v ELSE rv
           what == [kind |-> "return", val |-> v]
<1>1. n \in Nat /\ n = Len(r) /\ d \in 0..n /\ Target(r, d, n)
  BY DoBodyIs
<1>2. /\ Len(q) = n /\ \A i \in 1..n : i # d => q[i] = r[i]
      /\ d # 0 => /\ q[d].flag = TRUE /\ q[d].val = v
                  /\ q[d].kind = r[d].kind /\ q[d].part = r[d].part /\ q[d].err = r[d].err
  <2>1. CASE d = 0
    BY <1>1, <2>1
  <2>2. CASE d # 0
    <3>1. r[d] \in DoFrames /\ d \in 1..n
      BY <1>1, <2>2, DoBodyIs
    <3>2. QED BY <1>1, <2>2, <3>1 DEF DoFrames
  <2>3. QED BY <2>1, <2>2
<1>3. d = 0 => w = v
  OBVIOUS
<1>4. d # 0 => w = rv
  OBVIOUS
<1>5. \A i \in d + 1..n : IifeAt(r, i) => a
  BY <1>1 DEF InTryIife, IifeAt
<1>6. what.kind = "return" /\ what.val = v
  OBVIOUS
<1> HIDE DEF d, n, q, w, what
<1>7. \A i \in 1..n : /\ BodyAt(q, i) <=> BodyAt(r, i)
                      /\ TryAt(q, i) <=> TryAt(r, i)
                      /\ IifeAt(q, i) <=> IifeAt(r, i)
                      /\ ~FinallyAt(q, i)
                      /\ TryAt(q, i) => q[i].part = r[i].part
  BY <1>1, <1>2 DEF BodyAt, TryAt, IifeAt, FinallyAt, n
<1>8. Target(q, d, n)
  BY <1>1, <1>7 DEF Target
<1>9. LeaveOK(q, "leave", a, what, w)
  <2>1. Recorded(q, d, what, w)
    BY <1>2, <1>3, <1>6 DEF Recorded
  <2>2. Leaving(q, n, what, w)
    BY <1>1, <1>7, <1>8, <2>1 DEF Leaving
  <2>3. ASSUME NEW i \in 1..n, IifeAt(q, i), \A j \in i..n : ~BodyAt(q, j) PROVE a
    <3>1. ~(d >= i)
      BY <1>1, <1>7, <2>3 DEF Target
    <3>2. QED BY <1>1, <1>5, <1>7, <2>3, <3>1
  <2>4. QED BY <1>2, <2>2, <2>3 DEF LeaveOK
<1>10. MarkOK(q, "leave", a, w)
  <2>1. ASSUME NEW i \in 0..n, Marked(q, i, w) PROVE i = d
    BY <1>1, <1>2, <1>4, <1>7, <2>1 DEF Marked, n
  <2>2. \A k \in d + 1..n : TryAt(q, k) /\ q[k].part # "else" => a
    <3> SUFFICES ASSUME NEW k \in d + 1..n, TryAt(q, k), q[k].part # "else" PROVE a
      OBVIOUS
    <3>1. k \in 1..n /\ r[k] \in Frames
      BY <1>1
    <3>2. TryAt(r, k) /\ r[k].part # "else" /\ r[k].part # "finally"
      BY <1>1, <1>7, <3>1 DEF FinallyAt, TryAt
    <3>3. r[k].part \in {"body", "handler", "finally", "else"}
      BY <3>1 DEF Frames, DoFrames, TryFrames
    <3>4. QED BY <1>5, <3>2, <3>3 DEF IifeAt, TryAt
  <2>3. QED BY <1>1, <1>2, <1>7, <1>8, <2>1, <2>2 DEF MarkOK
<1>11. Fits("leave", what) /\ RunOK(q, "leave", a) /\ FinallyOK(q, a, w)
  BY <1>2, <1>6, <1>7 DEF Fits, RunOK, FinallyOK
<1>12. QED BY <1>9, <1>10, <1>11 DEF Safe, q, w, what, d

(* A ? in the do body at hand                                              *)
LEMMA FailSafe ==
  ASSUME NEW r \in Seq(Frames), NEW asks \in BOOLEAN, NEW rv,
         Safe(r, "run", asks, None, rv), DoBody(r) # 0,
         \A i \in DoBody(r)..Len(r) : ~FinallyAt(r, i),
         NEW a \in BOOLEAN, asks \/ InTryIife(r) => a
  PROVE  Safe([r EXCEPT ![DoBody(r)].err = TRUE], "leave", a, [kind |-> "?"], rv)
<1> DEFINE d == DoBody(r)
           n == Len(r)
           q == [r EXCEPT ![d].err = TRUE]
           what == [kind |-> "?"]
<1>1. n \in Nat /\ n = Len(r) /\ d \in 1..n /\ Target(r, d, n) /\ (asks => a)
  BY DoBodyIs
<1>2. /\ Len(q) = n /\ \A i \in 1..n : i # d => q[i] = r[i]
      /\ q[d].err = TRUE /\ q[d].flag = r[d].flag /\ q[d].val = r[d].val
      /\ q[d].kind = r[d].kind /\ q[d].part = r[d].part
      /\ r[d].flag \in BOOLEAN
  <2>1. r[d] \in DoFrames
    BY DoBodyIs
  <2>2. QED BY <1>1, <2>1 DEF DoFrames
<1>3. \A i \in d + 1..n : IifeAt(r, i) => a
  BY <1>1 DEF InTryIife, IifeAt
<1>4. what.kind = "?" /\ \A i \in d..n : ~FinallyAt(r, i)
  OBVIOUS
<1>5. BodyAt(r, d)
  BY <1>1 DEF Target
<1> HIDE DEF d, n, q, what
<1>6. \A i \in 1..n : /\ BodyAt(q, i) <=> BodyAt(r, i)
                      /\ TryAt(q, i) <=> TryAt(r, i)
                      /\ IifeAt(q, i) <=> IifeAt(r, i)
                      /\ FinallyAt(q, i) <=> FinallyAt(r, i)
                      /\ TryAt(q, i) => q[i] = r[i]
  BY <1>1, <1>2, <1>5 DEF BodyAt, TryAt, IifeAt, FinallyAt
<1>7. \A m \in 0..n : \A i \in 0..n : Target(q, i, m) <=> Target(r, i, m)
  BY <1>1, <1>6 DEF Target
<1>8. ~r[d].flag /\ \A i \in d + 1..n : ~Marked(r, i, rv)
  <2>1. ASSUME NEW i \in d..n, Marked(r, i, rv) PROVE FALSE
    <3>1. \A k \in i + 1..n : ~FinallyAt(r, k)
      BY <1>1, <1>4
    <3>2. QED BY <1>1, <2>1, <3>1 DEF Safe, MarkOK
  <2>2. r[d].flag => Marked(r, d, rv)
    BY <1>1, <1>5 DEF Marked
  <2>3. QED BY <1>1, <2>1, <2>2
<1>9. LeaveOK(q, "leave", a, what, rv)
  <2>1. Recorded(q, d, what, rv)
    BY <1>1, <1>2, <1>4, <1>8 DEF Recorded
  <2>2. Leaving(q, n, what, rv)
    BY <1>1, <1>4, <1>6, <1>7, <2>1 DEF Leaving
  <2>3. ASSUME NEW i \in 1..n, IifeAt(q, i), \A j \in i..n : ~BodyAt(q, j) PROVE a
    <3>1. ~(d >= i)
      BY <1>1, <1>5, <1>6, <2>3
    <3>2. QED BY <1>1, <1>3, <1>6, <2>3, <3>1
  <2>4. QED BY <1>2, <2>2, <2>3 DEF LeaveOK
<1>10. FinallyOK(q, a, rv)
  <2>1. ASSUME NEW i \in 1..n, FinallyAt(q, i)
        PROVE  /\ Fits(q[i].pending, q[i].owed)
               /\ q[i].pending = "leave" => /\ a /\ Leaving(q, i - 1, q[i].owed, rv)
                                            /\ \A j \in i + 1..n : ~TryAt(q, j)
    <3>1. q[i] = r[i] /\ FinallyAt(r, i) /\ i - 1 \in Nat /\ i < d
      BY <1>1, <1>4, <1>6, <2>1 DEF FinallyAt, TryAt
    <3>2. /\ Fits(r[i].pending, r[i].owed)
          /\ r[i].pending = "leave" => /\ asks /\ Leaving(r, i - 1, r[i].owed, rv)
                                       /\ \A j \in i + 1..n : ~TryAt(r, j)
      BY <1>1, <3>1 DEF Safe, FinallyOK
    <3>3. \A j \in 1..i - 1 : q[j] = r[j]
      BY <1>1, <1>2, <3>1
    <3>4. r[i].pending = "leave" => Leaving(q, i - 1, r[i].owed, rv)
      BY <3>1, <3>2, <3>3, LeavingSame
    <3>5. \A j \in i + 1..n : TryAt(q, j) <=> TryAt(r, j)
      BY <1>1, <1>6
    <3>6. QED BY <1>1, <3>1, <3>2, <3>4, <3>5
  <2>2. QED BY <1>2, <2>1 DEF FinallyOK
<1>11. MarkOK(q, "leave", a, rv)
  <2>1. ASSUME NEW i \in 0..n, Marked(q, i, rv)
        PROVE  /\ \A k \in i + 1..n : TryAt(q, k) /\ q[k].part # "else" => a
               /\ (\A k \in i + 1..n : ~FinallyAt(q, k)) => Target(q, i, n)
               /\ \A j \in i + 1..n : FinallyAt(q, j) /\ (\A k \in i + 1..j - 1 : ~FinallyAt(q, k))
                    => q[j].pending # "run" /\ (q[j].pending = "leave" => Target(q, i, j - 1))
    <3>1. CASE i = d
      <4>1. \A k \in d + 1..n : TryAt(q, k) /\ q[k].part # "else" => a
        <5> SUFFICES ASSUME NEW k \in d + 1..n, TryAt(q, k), q[k].part # "else" PROVE a
          OBVIOUS
        <5>1. k \in 1..n /\ r[k] \in Frames
          BY <1>1
        <5>2. TryAt(r, k) /\ r[k].part # "else" /\ r[k].part # "finally"
          BY <1>1, <1>4, <1>6, <5>1 DEF FinallyAt, TryAt
        <5>3. r[k].part \in {"body", "handler", "finally", "else"}
          BY <5>1 DEF Frames, DoFrames, TryFrames
        <5>4. QED BY <1>3, <5>2, <5>3 DEF IifeAt, TryAt
      <4>2. \A j \in d + 1..n : ~FinallyAt(q, j)
        BY <1>1, <1>4, <1>6
      <4>3. Target(q, d, n)
        BY <1>1, <1>7
      <4>4. QED BY <3>1, <4>1, <4>2, <4>3
    <3>2. CASE i # d
      <4>1. i < d /\ Marked(r, i, rv)
        BY <1>1, <1>2, <1>6, <1>8, <2>1, <3>2 DEF Marked
      <4>2. /\ \A k \in i + 1..n : TryAt(r, k) /\ r[k].part # "else" => asks
            /\ ~ \A k \in i + 1..n : ~FinallyAt(r, k)
            /\ \A j \in i + 1..n : FinallyAt(r, j) /\ (\A k \in i + 1..j - 1 : ~FinallyAt(r, k))
                 => r[j].pending # "run" /\ (r[j].pending = "leave" => Target(r, i, j - 1))
        BY <1>1, <4>1 DEF Safe, MarkOK
      <4>3. \A k \in i + 1..n : k \in 1..n /\ k - 1 \in 0..n /\ (FinallyAt(q, k) <=> FinallyAt(r, k))
        BY <1>1, <1>6
      <4>4. \A k \in i + 1..n : TryAt(q, k) /\ q[k].part # "else" => a
        BY <1>1, <1>6, <4>2, <4>3
      <4>5. ~ \A k \in i + 1..n : ~FinallyAt(q, k)
        BY <4>2, <4>3
      <4>6. ASSUME NEW j \in i + 1..n, FinallyAt(q, j), \A k \in i + 1..j - 1 : ~FinallyAt(q, k)
            PROVE  q[j].pending # "run" /\ (q[j].pending = "leave" => Target(q, i, j - 1))
        <5>1. FinallyAt(r, j) /\ \A k \in i + 1..j - 1 : k \in i + 1..n /\ ~FinallyAt(r, k)
          BY <1>1, <4>3, <4>6
        <5>2. r[j].pending # "run" /\ (r[j].pending = "leave" => Target(r, i, j - 1))
          BY <4>2, <5>1
        <5>3. q[j] = r[j]
          BY <1>6, <4>3, <4>6 DEF FinallyAt, TryAt
        <5>4. QED BY <1>7, <4>3, <5>2, <5>3
      <4>7. QED BY <4>4, <4>5, <4>6
    <3>3. QED BY <3>1, <3>2
  <2>2. QED BY <1>2, <2>1 DEF MarkOK
<1>12. Fits("leave", what) /\ RunOK(q, "leave", a)
  BY <1>4 DEF Fits, RunOK
<1>13. QED BY <1>9, <1>10, <1>11, <1>12 DEF Safe, q, what, d

(* What the sentinel says when a suite of a try is over                    *)
LEMMA AsksFacts ==
  ASSUME NEW r \in Seq(Frames), r # <<>>, NEW how \in Flows, NEW asks \in BOOLEAN, NEW what, NEW rv,
         Safe(r, how, asks, what, rv), TryAt(r, Len(r))
  PROVE  /\ ~FinallyAt(r, Len(r)) /\ how = "run" => ~asks
         /\ IifeAt(r, Len(r)) /\ how = "leave" => asks
         /\ FinallyAt(r, Len(r)) => how # "leave"
<1> DEFINE n == Len(r)
<1>1. n \in Nat /\ n > 0 /\ n = Len(r) /\ n \in 1..n
  OBVIOUS
<1> HIDE DEF n
<1>2. ~BodyAt(r, n) /\ \A j \in n..n : ~BodyAt(r, j)
  BY <1>1 DEF BodyAt, TryAt
<1>3. ~FinallyAt(r, n) /\ how = "run" => ~asks
  BY <1>1 DEF Safe, RunOK
<1>4. IifeAt(r, n) /\ how = "leave" => asks
  BY <1>1, <1>2 DEF Safe, LeaveOK
<1>5. ASSUME FinallyAt(r, n), how = "leave" PROVE FALSE
  <2>1. PICK d \in 0..n : Target(r, d, n) /\ \A i \in d + 1..n : ~FinallyAt(r, i)
    BY <1>1, <1>5 DEF Safe, LeaveOK, Leaving
  <2>2. d = n
    BY <1>1, <1>5, <2>1
  <2>3. QED BY <1>1, <1>2, <2>1, <2>2 DEF Target
<1>6. QED BY <1>1, <1>3, <1>4, <1>5

(* A do body is over.                                                      *)
LEMMA DoBodyEnds ==
  ASSUME NEW r \in Seq(Frames), r # <<>>, NEW how \in Flows, NEW asks \in BOOLEAN, NEW what \in Dues, NEW rv,
         Safe(r, how, asks, what, rv), BodyAt(r, Len(r))
  PROVE  /\ how = "run" => ~r[Len(r)].flag /\ ~r[Len(r)].err
         /\ how = "leave" /\ what.kind = "return" =>
              /\ r[Len(r)].flag /\ r[Len(r)].val = what.val
              /\ \A i \in 1..Len(r) : ~FinallyAt(r, i)
              /\ \A i \in 0..Len(r) - 1 : ~Marked(r, i, rv)
         /\ how = "leave" /\ what.kind # "return" => ~r[Len(r)].flag /\ r[Len(r)].err
<1> DEFINE n == Len(r)
<1>1. n \in Nat /\ n > 0 /\ n = Len(r) /\ n \in 1..n
  OBVIOUS
<1> HIDE DEF n
<1>2. how = "run" => ~r[n].flag /\ ~r[n].err
  BY <1>1 DEF Safe, MarkOK, Marked
<1>3. ASSUME how = "leave" PROVE Recorded(r, n, what, rv)
  <2>1. PICK d \in 0..n : Target(r, d, n) /\ Recorded(r, d, what, rv)
    BY <1>1, <1>3 DEF Safe, LeaveOK, Leaving
  <2>2. d = n
    BY <1>1, <2>1 DEF Target
  <2>3. QED BY <2>1, <2>2
<1>4. ASSUME how = "leave", what.kind = "return"
      PROVE  (\A i \in 1..n : ~FinallyAt(r, i)) /\ \A i \in 0..n - 1 : ~Marked(r, i, rv)
  <2>1. \A i \in 1..n : ~FinallyAt(r, i)
    BY <1>1, <1>4 DEF Safe, LeaveOK, Leaving
  <2>2. ASSUME NEW i \in 0..n - 1, Marked(r, i, rv) PROVE FALSE
    <3>1. Target(r, i, n)
      BY <1>1, <1>4, <2>1, <2>2 DEF Safe, MarkOK
    <3>2. QED BY <1>1, <3>1 DEF Target
  <2>3. QED BY <2>1, <2>2
<1>5. QED BY <1>1, <1>2, <1>3, <1>4 DEF Recorded

(* The function is left with what was asked for.                           *)
LEMMA EndSafe ==
  ASSUME NEW how \in Flows, NEW asks \in BOOLEAN, NEW what \in Dues, NEW rv,
         Safe(<<>>, how, asks, what, rv)
  PROVE  /\ how = "run" => what = None /\ rv = 0
         /\ how = "leave" => what.kind = "return" /\ rv = what.val
<1>1. Len(<<>>) = 0 /\ 0 \in 0..0 /\ \A i \in 0 + 1..0 : FALSE
  OBVIOUS
<1>2. how = "run" => rv = 0
  BY <1>1 DEF Safe, MarkOK, Marked
<1>3. how = "leave" => what.kind = "return" /\ rv = what.val
  BY <1>1 DEF Safe, LeaveOK, Leaving, Recorded
<1>4. QED BY <1>2, <1>3 DEF Safe, Fits

(* The pair in scope is that of all statements around that have one.       *)
SlotsOK(r, s, m) ==
  \A i \in 1..Len(r) :
    /\ r[i].slot \in 0..m
    /\ r[i].slot # 0 => s = r[i].slot /\ \A j \in i..Len(r) : r[j].slot = s

TryTypes ==
  /\ running \in Seq(Frames)
  /\ slots \in Seq([ret : BOOLEAN, pan : BOOLEAN])
  /\ slot \in 0..Len(slots)
  /\ retval \in {0} \cup Values
  /\ due \in Dues
  /\ flow \in Flows \cup {"returned", "crashed"}
  /\ flow \in {"returned", "crashed"} => running = <<>>
  /\ stale \in BOOLEAN
  /\ SlotsOK(running, slot, Len(slots))

LEMMA DuesFacts ==
  /\ None \in Dues /\ [kind |-> "?"] \in Dues /\ [kind |-> "raise"] \in Dues
  /\ \A v \in Values : [kind |-> "return", val |-> v] \in Dues
BY DEF Dues

LEMMA InnerFacts ==
  ASSUME TryTypes, running # <<>>
  PROVE  /\ Len(running) \in Nat /\ Len(running) > 0 /\ Len(running) \in 1..Len(running)
         /\ Inner = running[Len(running)] /\ Inner \in Frames
         /\ Inner.slot \in 0..Len(slots)
         /\ Inner.kind = "do" => Inner \in DoFrames
         /\ Inner.kind = "try" => Inner \in TryFrames /\ Inner.slot = slot /\ slot # 0
<1>1. /\ Len(running) \in Nat /\ Len(running) > 0 /\ Len(running) \in 1..Len(running)
      /\ Inner = running[Len(running)] /\ Inner \in Frames
  BY DEF TryTypes, Inner
<1>2. Inner.slot \in 0..Len(slots) /\ (Inner.slot # 0 => slot = Inner.slot)
  BY <1>1 DEF TryTypes, SlotsOK
<1>3. Inner.kind = "do" => Inner \in DoFrames
  BY <1>1 DEF Frames, TryFrames
<1>4. Inner.kind = "try" => Inner \in TryFrames
  BY <1>1 DEF Frames, DoFrames
<1>5. Inner \in TryFrames => Inner.slot # 0
  BY DEF TryFrames
<1>6. QED BY <1>1, <1>2, <1>3, <1>4, <1>5

LEMMA PopTypes ==
  ASSUME NEW r \in Seq(Frames), r # <<>>, NEW s, NEW m, SlotsOK(r, s, m)
  PROVE  /\ SlotsOK(Front(r), r[Len(r)].slot, m)
         /\ r[Len(r)].slot = s \/ r[Len(r)].slot = 0
         /\ r[Len(r)].slot = s \/ NoTry(Front(r))
<1> DEFINE q == Front(r)
           n == Len(r)
<1>1. /\ n \in Nat /\ n > 0 /\ Len(q) = n - 1 /\ n = Len(r)
      /\ \A i \in 1..n - 1 : q[i] = r[i] /\ r[i] \in Frames
  BY FrontFacts
<1> HIDE DEF q, n
<1>2. SlotsOK(q, r[n].slot, m)
  BY <1>1 DEF SlotsOK
<1>3. ASSUME NEW i \in 1..n - 1, TryAt(q, i) PROVE r[n].slot = s
  <2>1. r[i].kind = "try" /\ r[i] \in Frames
    BY <1>1, <1>3 DEF TryAt
  <2>2. r[i].slot # 0
    BY <2>1 DEF Frames, DoFrames, TryFrames
  <2>3. QED BY <1>1, <2>2 DEF SlotsOK
<1>4. r[n].slot # 0 => r[n].slot = s
  BY <1>1 DEF SlotsOK
<1>5. r[n].slot = s \/ NoTry(q)
  BY <1>1, <1>3 DEF NoTry
<1>6. QED BY <1>1, <1>2, <1>4, <1>5 DEF q

LEMMA EnterTypes ==
  ASSUME NEW r \in Seq(Frames), r # <<>>, NEW s, NEW m, SlotsOK(r, s, m),
         NEW f \in Frames, f.slot = r[Len(r)].slot
  PROVE  /\ [r EXCEPT ![Len(r)] = f] \in Seq(Frames)
         /\ SlotsOK([r EXCEPT ![Len(r)] = f], f.slot, m)
<1> DEFINE q == [r EXCEPT ![Len(r)] = f]
           n == Len(r)
<1>1. /\ n \in Nat /\ n > 0 /\ Len(q) = n /\ n = Len(r) /\ q[n] = f /\ q \in Seq(Frames)
      /\ \A i \in 1..n - 1 : q[i] = r[i]
  OBVIOUS
<1> HIDE DEF q, n
<1>2. \A i \in 1..n : q[i].slot = r[i].slot
  BY <1>1
<1>3. SlotsOK(q, f.slot, m)
  BY <1>1, <1>2 DEF SlotsOK
<1>4. QED BY <1>1, <1>3 DEF q, n

LEMMA PushTypes ==
  ASSUME NEW r \in Seq(Frames), NEW s, NEW m \in Nat, SlotsOK(r, s, m), NEW k \in Nat, m <= k,
         NEW f \in Frames, f.slot \in 0..k, s # 0 => f.slot = s
  PROVE  Append(r, f) \in Seq(Frames) /\ SlotsOK(Append(r, f), f.slot, k)
<1> DEFINE q == Append(r, f)
           n == Len(r)
<1>1. /\ n \in Nat /\ Len(q) = n + 1 /\ n = Len(r) /\ q[n + 1] = f /\ q \in Seq(Frames)
      /\ \A i \in 1..n : q[i] = r[i]
  OBVIOUS
<1> HIDE DEF q, n
<1>2. SlotsOK(q, f.slot, k)
  BY <1>1 DEF SlotsOK
<1>3. QED BY <1>1, <1>2 DEF q

LEMMA MarkTypes ==
  ASSUME NEW r \in Seq(Frames), DoBody(r) # 0, NEW v \in {0} \cup Values, NEW s, NEW m, SlotsOK(r, s, m)
  PROVE  /\ [r EXCEPT ![DoBody(r)].flag = TRUE, ![DoBody(r)].val = v] \in Seq(Frames)
         /\ SlotsOK([r EXCEPT ![DoBody(r)].flag = TRUE, ![DoBody(r)].val = v], s, m)
         /\ [r EXCEPT ![DoBody(r)].err = TRUE] \in Seq(Frames)
         /\ SlotsOK([r EXCEPT ![DoBody(r)].err = TRUE], s, m)
<1> DEFINE d == DoBody(r)
           f == [r[d] EXCEPT !.flag = TRUE, !.val = v]
           e == [r[d] EXCEPT !.err = TRUE]
<1>1. d \in 1..Len(r) /\ r[d] \in DoFrames /\ Len(r) \in Nat
  BY DoBodyIs
<1>2. f \in DoFrames /\ e \in DoFrames /\ f.slot = r[d].slot /\ e.slot = r[d].slot
  BY <1>1 DEF DoFrames
<1>3. /\ [r EXCEPT ![d].flag = TRUE, ![d].val = v] = [r EXCEPT ![d] = f]
      /\ [r EXCEPT ![d].err = TRUE] = [r EXCEPT ![d] = e]
  BY <1>1
<1>4. ASSUME NEW g \in DoFrames, g.slot = r[d].slot
      PROVE  [r EXCEPT ![d] = g] \in Seq(Frames) /\ SlotsOK([r EXCEPT ![d] = g], s, m)
  <2> DEFINE q == [r EXCEPT ![d] = g]
  <2>1. q \in Seq(Frames) /\ Len(q) = Len(r) /\ q[d] = g /\ \A i \in 1..Len(r) : i # d => q[i] = r[i]
    BY <1>1 DEF Frames
  <2> HIDE DEF q, d
  <2>2. \A i \in 1..Len(r) : q[i].slot = r[i].slot
    BY <1>4, <2>1
  <2>3. SlotsOK(q, s, m)
    BY <2>1, <2>2 DEF SlotsOK
  <2>4. QED BY <2>1, <2>3 DEF q
<1>5. QED BY <1>2, <1>3, <1>4

(* Whether the sentinel s asks for a return                                *)
Asked(pairs, s) == IF s = 0 THEN FALSE ELSE pairs[s].ret

(* The inductive invariant: until a stale sentinel is met, the stack is    *)
(* Safe, and a call that is over ended as was asked.                       *)
TryInv ==
  /\ TryTypes
  /\ ~stale => /\ flow \in Flows => Safe(running, flow, Asked(slots, slot), due, retval)
               /\ flow = "crashed" => due.kind = "raise"
               /\ flow = "returned" => due = IF retval = 0 THEN None
                                             ELSE [kind |-> "return", val |-> retval]

(* A step declares no sentinel and sets none that asks for a return.       *)
SameRets(new, old) ==
  /\ new \in Seq([ret : BOOLEAN, pan : BOOLEAN]) /\ Len(new) = Len(old)
  /\ \A i \in 1..Len(old) : new[i].ret = old[i].ret
SameAsks == SameRets(slots', slots)

LEMMA ElementOf ==
  ASSUME NEW S, NEW q \in Seq(S), NEW i \in 1..Len(q)
  PROVE  q[i] \in S
OBVIOUS

LEMMA MarkedPair ==
  ASSUME NEW pairs \in Seq([ret : BOOLEAN, pan : BOOLEAN]), NEW s \in 1..Len(pairs)
  PROVE  /\ SameRets([pairs EXCEPT ![s].pan = TRUE], pairs)
         /\ [pairs EXCEPT ![s].ret = TRUE] \in Seq([ret : BOOLEAN, pan : BOOLEAN])
         /\ Len([pairs EXCEPT ![s].ret = TRUE]) = Len(pairs)
         /\ [pairs EXCEPT ![s].ret = TRUE][s].ret
<1>1. pairs[s] \in [ret : BOOLEAN, pan : BOOLEAN]
  BY ElementOf
<1> DEFINE p == [pairs[s] EXCEPT !.pan = TRUE]
           t == [pairs[s] EXCEPT !.ret = TRUE]
<1>2. /\ p \in [ret : BOOLEAN, pan : BOOLEAN] /\ p.ret = pairs[s].ret
      /\ t \in [ret : BOOLEAN, pan : BOOLEAN] /\ t.ret
  BY <1>1
<1>3. /\ [pairs EXCEPT ![s].pan = TRUE] = [pairs EXCEPT ![s] = p]
      /\ [pairs EXCEPT ![s].ret = TRUE] = [pairs EXCEPT ![s] = t]
  OBVIOUS
<1> HIDE DEF p, t
<1>4. SameRets([pairs EXCEPT ![s] = p], pairs)
  <2> DEFINE q == [pairs EXCEPT ![s] = p]
  <2>1. q \in Seq([ret : BOOLEAN, pan : BOOLEAN]) /\ Len(q) = Len(pairs)
    BY <1>2
  <2>2. ASSUME NEW i \in 1..Len(pairs) PROVE q[i].ret = pairs[i].ret
    <3>1. CASE i = s
      BY <1>2, <3>1
    <3>2. CASE i # s
      BY <3>2
    <3>3. QED BY <3>1, <3>2
  <2>3. QED BY <2>1, <2>2 DEF SameRets
<1>5. /\ [pairs EXCEPT ![s] = t] \in Seq([ret : BOOLEAN, pan : BOOLEAN])
      /\ Len([pairs EXCEPT ![s] = t]) = Len(pairs)
      /\ [pairs EXCEPT ![s] = t][s].ret
  BY <1>2
<1>6. QED BY <1>3, <1>4, <1>5

LEMMA AskedSame ==
  ASSUME NEW old \in Seq([ret : BOOLEAN, pan : BOOLEAN]), NEW new, SameRets(new, old),
         NEW s \in 0..Len(old)
  PROVE  Asked(new, s) = Asked(old, s)
<1>1. s # 0 => s \in 1..Len(old)
  OBVIOUS
<1>2. QED BY <1>1 DEF Asked, SameRets

LEMMA AskedFacts ==
  ASSUME NEW pairs \in Seq([ret : BOOLEAN, pan : BOOLEAN]), NEW s \in 0..Len(pairs)
  PROVE  Asked(pairs, s) \in BOOLEAN /\ (s # 0 => Asked(pairs, s) = pairs[s].ret)
<1>1. CASE s = 0
  BY <1>1 DEF Asked
<1>2. CASE s # 0
  <2>1. s \in 1..Len(pairs)
    BY <1>2
  <2>2. pairs[s] \in [ret : BOOLEAN, pan : BOOLEAN]
    BY <2>1, ElementOf
  <2>3. QED BY <1>2, <2>2 DEF Asked
<1>3. QED BY <1>1, <1>2

LEMMA AsksIs ==
  ASSUME TryTypes, NEW s \in 0..Len(slots)
  PROVE  Asks(s) <=> Asked(slots, s)
BY DEF Asks, Asked

LEMMA RecoveredSame ==
  ASSUME TryTypes, running # <<>>, Inner.kind = "try"
  PROVE  SameRets(Recovered, slots)
<1>1. Inner.slot \in 1..Len(slots) /\ slots \in Seq([ret : BOOLEAN, pan : BOOLEAN])
  <2>1. Inner.slot \in 0..Len(slots) /\ Inner.slot # 0
    BY InnerFacts
  <2>2. slots \in Seq([ret : BOOLEAN, pan : BOOLEAN])
    BY DEF TryTypes
  <2>3. Len(slots) \in Nat
    BY <2>2
  <2>4. QED BY <2>1, <2>2, <2>3
<1>2. SameRets([slots EXCEPT ![Inner.slot].pan = TRUE], slots)
  BY <1>1, MarkedPair
<1>3. SameRets(slots, slots)
  BY <1>1 DEF SameRets
<1>4. QED BY <1>2, <1>3 DEF Recovered

LEMMA UnchangedSame == ASSUME TryTypes PROVE SameRets(slots, slots)
BY DEF TryTypes, SameRets

(* The pair in scope after the innermost statement is over                 *)
LEMMA PopScope ==
  ASSUME NEW r \in Seq(Frames), r # <<>>, NEW how, NEW what, NEW rv,
         NEW old \in Seq([ret : BOOLEAN, pan : BOOLEAN]), NEW new, SameRets(new, old),
         NEW s \in 0..Len(old), SlotsOK(r, s, Len(old)),
         Safe(Front(r), how, Asked(old, s), what, rv)
  PROVE  Safe(Front(r), how, Asked(new, r[Len(r)].slot), what, rv)
<1>1. Front(r) \in Seq(Frames)
  BY FrontFacts
<1>2. Asked(new, s) = Asked(old, s) /\ Asked(old, s) \in BOOLEAN
  BY AskedSame, AskedFacts
<1>3. CASE r[Len(r)].slot = s
  BY <1>2, <1>3
<1>4. CASE r[Len(r)].slot # s
  <2>1. r[Len(r)].slot = 0 /\ NoTry(Front(r))
    <3>1. /\ r[Len(r)].slot = s \/ r[Len(r)].slot = 0
          /\ r[Len(r)].slot = s \/ NoTry(Front(r))
      BY PopTypes
    <3>2. QED BY <1>4, <3>1
  <2>2. Asked(new, r[Len(r)].slot) = FALSE
    BY <2>1 DEF Asked
  <2>3. QED BY <1>1, <1>2, <2>1, <2>2, SafeAsks
<1>5. QED BY <1>3, <1>4

LEMMA PopStep ==
  ASSUME TryTypes, running # <<>>, NEW how \in Flows, Pop(how), SameAsks,
         due' \in Dues, retval' = retval, stale' = stale,
         ~stale => Safe(Front(running), how, Asked(slots, slot), due', retval)
  PROVE  TryInv'
<1>1. /\ running' = Front(running) /\ slot' = running[Len(running)].slot /\ flow' = how
      /\ running \in Seq(Frames) /\ SlotsOK(running, slot, Len(slots))
      /\ slots \in Seq([ret : BOOLEAN, pan : BOOLEAN]) /\ slot \in 0..Len(slots)
      /\ running[Len(running)].slot \in 0..Len(slots)
  BY InnerFacts DEF Pop, TryTypes, Inner
<1>2. Front(running) \in Seq(Frames)
  BY <1>1, FrontFacts
<1>3. SlotsOK(Front(running), running[Len(running)].slot, Len(slots))
  BY <1>1, PopTypes
<1>4. Len(slots') = Len(slots) /\ slots' \in Seq([ret : BOOLEAN, pan : BOOLEAN])
  BY DEF SameAsks, SameRets
<1>5. TryTypes'
  BY <1>1, <1>2, <1>3, <1>4 DEF TryTypes, Flows
<1>6. ASSUME ~stale
      PROVE  Safe(Front(running), how, Asked(slots', running[Len(running)].slot), due', retval)
  <2>1. SameRets(slots', slots)
    BY DEF SameAsks
  <2>2. QED BY <1>1, <1>6, <2>1, PopScope
<1>7. how # "crashed" /\ how # "returned"
  BY DEF Flows
<1>8. QED BY <1>1, <1>5, <1>6, <1>7 DEF TryInv

LEMMA EnterStep ==
  ASSUME TryTypes, running # <<>>, NEW f \in Frames, f.slot = Inner.slot, EnterPart(f), SameAsks,
         due' \in Dues, retval' = retval, stale' \in BOOLEAN,
         ~stale' => Safe([running EXCEPT ![Len(running)] = f], "run", Asked(slots, f.slot), due', retval)
  PROVE  TryInv'
<1>1. /\ running' = [running EXCEPT ![Len(running)] = f] /\ slot' = f.slot /\ flow' = "run"
      /\ running \in Seq(Frames) /\ SlotsOK(running, slot, Len(slots))
      /\ slots \in Seq([ret : BOOLEAN, pan : BOOLEAN])
      /\ f.slot = running[Len(running)].slot /\ f.slot \in 0..Len(slots)
  BY InnerFacts DEF EnterPart, TryTypes, Inner
<1>2. /\ [running EXCEPT ![Len(running)] = f] \in Seq(Frames)
      /\ SlotsOK([running EXCEPT ![Len(running)] = f], f.slot, Len(slots))
  BY <1>1, EnterTypes
<1>3. Len(slots') = Len(slots) /\ slots' \in Seq([ret : BOOLEAN, pan : BOOLEAN])
  BY DEF SameAsks, SameRets
<1>4. TryTypes'
  BY <1>1, <1>2, <1>3 DEF TryTypes, Flows
<1>5. Asked(slots', f.slot) = Asked(slots, f.slot)
  <2>1. SameRets(slots', slots)
    BY DEF SameAsks
  <2>2. QED BY <1>1, <2>1, AskedSame
<1>6. QED BY <1>1, <1>4, <1>5 DEF TryInv

(* What a return or a ? does to the sentinel in scope                      *)
LEMMA SentinelFacts ==
  ASSUME NEW r \in Seq(Frames), NEW old \in Seq([ret : BOOLEAN, pan : BOOLEAN]), NEW s \in 0..Len(old),
         SlotsOK(r, s, Len(old)),
         NEW new, new = IF InTryIife(r) THEN [old EXCEPT ![s].ret = TRUE] ELSE old
  PROVE  /\ new \in Seq([ret : BOOLEAN, pan : BOOLEAN]) /\ Len(new) = Len(old)
         /\ Asked(new, s) \in BOOLEAN
         /\ Asked(old, s) \/ InTryIife(r) => Asked(new, s)
<1>1. ASSUME InTryIife(r) PROVE s \in 1..Len(old)
  <2>1. PICK i \in (DoBody(r) + 1)..Len(r) : r[i].kind = "try"
    BY <1>1 DEF InTryIife
  <2>2. i \in 1..Len(r)
    BY DoBodyIs
  <2>3. r[i] \in Frames
    BY <2>2, ElementOf
  <2>4. r[i].slot # 0
    BY <2>1, <2>3 DEF Frames, DoFrames, TryFrames
  <2>5. s # 0
    BY <2>2, <2>4 DEF SlotsOK
  <2>6. Len(old) \in Nat
    OBVIOUS
  <2>7. QED BY <2>5, <2>6
<1>2. CASE InTryIife(r)
  <2>1. new = [old EXCEPT ![s].ret = TRUE] /\ s # 0
    BY <1>1, <1>2
  <2>2. /\ new \in Seq([ret : BOOLEAN, pan : BOOLEAN]) /\ Len(new) = Len(old) /\ new[s].ret
    BY <1>1, <1>2, <2>1, MarkedPair
  <2>3. Asked(new, s) = new[s].ret
    BY <2>1 DEF Asked
  <2>4. Asked(new, s) \in BOOLEAN
    BY <2>2, AskedFacts
  <2>5. QED BY <2>2, <2>3, <2>4
<1>3. CASE ~InTryIife(r)
  <2>1. new = old
    BY <1>3
  <2>2. QED BY <1>3, <2>1, AskedFacts
<1>4. QED BY <1>2, <1>3

(* _emit_return_value: types, and the sentinel of a try on the way         *)
LEMMA EmitTypes ==
  ASSUME TryTypes, NEW r \in Seq(Frames), NEW s \in 0..Len(slots), SlotsOK(r, s, Len(slots)),
         NEW v \in {0} \cup Values, EmitReturn(r, s, v), slot' = s, due' \in Dues, stale' \in BOOLEAN
  PROVE  /\ TryTypes'
         /\ Asked(slots', s) \in BOOLEAN
         /\ InTryIife(r) => Asked(slots', s)
<1>1. /\ running' = IF DoBody(r) = 0 THEN r
                    ELSE [r EXCEPT ![DoBody(r)].flag = TRUE, ![DoBody(r)].val = v]
      /\ retval' = IF DoBody(r) = 0 THEN v ELSE retval
      /\ slots' = IF InTryIife(r) THEN [slots EXCEPT ![s].ret = TRUE] ELSE slots
      /\ flow' = "leave"
  BY DEF EmitReturn
<1>2. slots \in Seq([ret : BOOLEAN, pan : BOOLEAN]) /\ retval \in {0} \cup Values
  BY DEF TryTypes
<1>3. /\ slots' \in Seq([ret : BOOLEAN, pan : BOOLEAN]) /\ Len(slots') = Len(slots)
      /\ Asked(slots', s) \in BOOLEAN
      /\ InTryIife(r) => Asked(slots', s)
  BY <1>1, <1>2, SentinelFacts
<1>4. running' \in Seq(Frames) /\ SlotsOK(running', s, Len(slots))
  <2>1. CASE DoBody(r) = 0
    BY <1>1, <2>1
  <2>2. CASE DoBody(r) # 0
    BY <1>1, <2>2, MarkTypes
  <2>3. QED BY <2>1, <2>2
<1>5. retval' \in {0} \cup Values
  BY <1>1, <1>2
<1>6. TryTypes'
  BY <1>1, <1>3, <1>4, <1>5 DEF TryTypes, Flows
<1>7. QED BY <1>3, <1>6

(* _emit_return_value where nothing else is on its way                     *)
LEMMA EmitStep ==
  ASSUME TryTypes, NEW r \in Seq(Frames), NEW s \in 0..Len(slots), SlotsOK(r, s, Len(slots)),
         NEW v \in {0} \cup Values, EmitReturn(r, s, v), slot' = s, due' \in Dues, stale' = stale,
         ~stale => /\ v \in Values /\ due' = [kind |-> "return", val |-> v]
                   /\ \A i \in 1..Len(r) : ~FinallyAt(r, i)
                   /\ \A i \in 0..Len(r) : ~Marked(r, i, retval)
  PROVE  TryInv'
<1>1. /\ TryTypes' /\ flow' = "leave"
      /\ Asked(slots', s) \in BOOLEAN
      /\ InTryIife(r) => Asked(slots', s)
  <2>1. stale' \in BOOLEAN
    BY DEF TryTypes
  <2>2. QED BY <2>1, EmitTypes DEF EmitReturn
<1>2. /\ running' = IF DoBody(r) = 0 THEN r
                    ELSE [r EXCEPT ![DoBody(r)].flag = TRUE, ![DoBody(r)].val = v]
      /\ retval' = IF DoBody(r) = 0 THEN v ELSE retval
  BY DEF EmitReturn
<1>3. ASSUME ~stale PROVE Safe(running', "leave", Asked(slots', s), due', retval')
  BY <1>1, <1>2, <1>3, ReturnSafe
<1>4. QED BY <1>1, <1>3 DEF TryInv

(* One lemma per action                                                    *)
LEMMA ReturnStep ==
  ASSUME TryInv, NEW v \in Values, ReturnStmt(v)
  PROVE  TryInv'
<1>1. /\ TryTypes /\ running \in Seq(Frames) /\ slot \in 0..Len(slots)
      /\ SlotsOK(running, slot, Len(slots)) /\ v \in {0} \cup Values
  BY DEF TryInv, TryTypes
<1>2. /\ flow = "run" /\ EmitReturn(running, slot, v) /\ slot' = slot /\ stale' = stale
      /\ due' = [kind |-> "return", val |-> v] /\ due' \in Dues
      /\ \A i \in DOMAIN running : running[i].part # "finally"
  BY DuesFacts DEF ReturnStmt, Statement
<1>3. \A i \in 1..Len(running) : ~FinallyAt(running, i)
  BY <1>1, <1>2 DEF FinallyAt
<1>4. ASSUME ~stale, NEW i \in 0..Len(running), Marked(running, i, retval) PROVE FALSE
  <2>1. MarkOK(running, "run", Asked(slots, slot), retval)
    BY <1>2, <1>4 DEF TryInv, Safe, Flows
  <2>2. \A k \in i + 1..Len(running) : ~FinallyAt(running, k)
    BY <1>1, <1>3
  <2>3. QED BY <1>4, <2>1, <2>2 DEF MarkOK
<1>5. QED BY <1>1, <1>2, <1>3, <1>4, EmitStep

LEMMA PropagateStep ==
  ASSUME TryInv, Propagate
  PROVE  TryInv'
<1>1. /\ TryTypes /\ running \in Seq(Frames) /\ slot \in 0..Len(slots)
      /\ SlotsOK(running, slot, Len(slots)) /\ slots \in Seq([ret : BOOLEAN, pan : BOOLEAN])
      /\ stale \in BOOLEAN /\ retval \in {0} \cup Values
  BY DEF TryInv, TryTypes
<1>2. /\ flow = "run" /\ flow' = "leave" /\ slot' = slot /\ stale' = stale /\ retval' = retval
      /\ due' = [kind |-> "?"] /\ due' \in Dues
      /\ running' = [running EXCEPT ![DoBody(running)].err = TRUE]
      /\ slots' = IF InTryIife(running) THEN [slots EXCEPT ![slot].ret = TRUE] ELSE slots
      /\ DoBody(running) # 0
      /\ \A i \in DoBody(running)..Len(running) : running[i].part # "finally"
  BY DuesFacts DEF Propagate, Statement
<1>3. /\ slots' \in Seq([ret : BOOLEAN, pan : BOOLEAN]) /\ Len(slots') = Len(slots)
      /\ Asked(slots', slot) \in BOOLEAN
      /\ Asked(slots, slot) \/ InTryIife(running) => Asked(slots', slot)
  BY <1>1, <1>2, SentinelFacts
<1>4. running' \in Seq(Frames) /\ SlotsOK(running', slot, Len(slots))
  BY <1>1, <1>2, MarkTypes
<1>5. TryTypes'
  BY <1>1, <1>2, <1>3, <1>4 DEF TryTypes, Flows
<1>6. ASSUME ~stale PROVE Safe(running', "leave", Asked(slots', slot), due', retval)
  <2>1. Safe(running, "run", Asked(slots, slot), due, retval)
    BY <1>2, <1>6 DEF TryInv, Flows
  <2>2. Safe(running, "run", Asked(slots, slot), None, retval)
    BY <2>1 DEF Safe, Fits
  <2>3. \A i \in DoBody(running)..Len(running) : ~FinallyAt(running, i)
    BY <1>2 DEF FinallyAt
  <2>4. Asked(slots, slot) \in BOOLEAN
    BY <1>1, AskedFacts
  <2>5. QED BY <1>1, <1>2, <1>3, <2>2, <2>3, <2>4, FailSafe
<1>7. QED BY <1>2, <1>5, <1>6 DEF TryInv

LEMMA RaiseStep ==
  ASSUME TryInv, RaiseStmt
  PROVE  TryInv'
<1>1. /\ flow = "run" /\ flow' = "panic" /\ due' = [kind |-> "raise"] /\ due' \in Dues
      /\ UNCHANGED <<running, slots, slot, retval, stale>>
  BY DuesFacts DEF RaiseStmt, Statement
<1>2. TryTypes'
  BY <1>1 DEF TryInv, TryTypes, Flows
<1>3. ASSUME ~stale PROVE Safe(running, "panic", Asked(slots, slot), due', retval)
  <2>1. Safe(running, "run", Asked(slots, slot), None, retval)
    BY <1>1, <1>3 DEF TryInv, Flows, Safe, Fits
  <2>2. running \in Seq(Frames)
    BY DEF TryInv, TryTypes
  <2>3. QED BY <1>1, <2>1, <2>2, RaiseSafe
<1>4. QED BY <1>1, <1>2, <1>3 DEF TryInv

(* What holds of the call while a statement is under way                   *)
LEMMA UnderWay ==
  ASSUME TryInv, running # <<>>
  PROVE  /\ TryTypes /\ running \in Seq(Frames) /\ flow \in Flows /\ due \in Dues /\ stale \in BOOLEAN
         /\ slot \in 0..Len(slots) /\ slots \in Seq([ret : BOOLEAN, pan : BOOLEAN])
         /\ SlotsOK(running, slot, Len(slots)) /\ retval \in {0} \cup Values
         /\ Asked(slots, slot) \in BOOLEAN /\ (Asks(slot) <=> Asked(slots, slot))
         /\ ~stale => Safe(running, flow, Asked(slots, slot), due, retval)
<1>1. /\ TryTypes /\ running \in Seq(Frames) /\ flow \in Flows /\ due \in Dues /\ stale \in BOOLEAN
      /\ slot \in 0..Len(slots) /\ slots \in Seq([ret : BOOLEAN, pan : BOOLEAN])
      /\ SlotsOK(running, slot, Len(slots)) /\ retval \in {0} \cup Values
  BY DEF TryInv, TryTypes
<1>2. ~stale => Safe(running, flow, Asked(slots, slot), due, retval)
  BY <1>1 DEF TryInv
<1>3. Asked(slots, slot) \in BOOLEAN /\ (Asks(slot) <=> Asked(slots, slot))
  BY <1>1, AskedFacts, AsksIs
<1>4. QED BY <1>1, <1>2, <1>3

LEMMA TryStmtStep ==
  ASSUME TryInv, TryStmt
  PROVE  TryInv'
<1>1. /\ TryTypes /\ running \in Seq(Frames) /\ slots \in Seq([ret : BOOLEAN, pan : BOOLEAN])
      /\ slot \in 0..Len(slots) /\ SlotsOK(running, slot, Len(slots)) /\ Len(slots) \in Nat
      /\ retval \in {0} \cup Values /\ due \in Dues /\ stale \in BOOLEAN
  BY DEF TryInv, TryTypes
<1> DEFINE s == IF slot = 0 THEN Len(slots) + 1 ELSE slot
           f == [kind |-> "try", part |-> "body", slot |-> s, pending |-> "run", owed |-> None]
<1>2. /\ flow = "run" /\ flow' = "run" /\ retval' = retval /\ due' = due
      /\ slot' = s /\ running' = Append(running, f)
      /\ stale' = (stale \/ Asks(slot))
      /\ slots' = IF slot = 0 THEN Append(slots, [ret |-> FALSE, pan |-> FALSE])
                  ELSE [slots EXCEPT ![s] = [ret |-> FALSE, pan |-> FALSE]]
  BY DEF TryStmt, Statement
<1>3. /\ slots' \in Seq([ret : BOOLEAN, pan : BOOLEAN]) /\ Len(slots') \in Nat
      /\ Len(slots) <= Len(slots') /\ s \in 1..Len(slots') /\ (slot # 0 => s = slot)
      /\ Asked(slots', s) = FALSE
  <2>1. CASE slot = 0
    <3>1. s = Len(slots) + 1 /\ slots' = Append(slots, [ret |-> FALSE, pan |-> FALSE])
      BY <1>2, <2>1
    <3>2. [ret |-> FALSE, pan |-> FALSE] \in [ret : BOOLEAN, pan : BOOLEAN]
      OBVIOUS
    <3> HIDE DEF s
    <3>3. /\ slots' \in Seq([ret : BOOLEAN, pan : BOOLEAN]) /\ Len(slots') = Len(slots) + 1
          /\ slots'[s] = [ret |-> FALSE, pan |-> FALSE]
      BY <1>1, <3>1, <3>2
    <3>4. Asked(slots', s) = FALSE
      BY <1>1, <3>1, <3>3 DEF Asked
    <3>5. QED BY <1>1, <2>1, <3>1, <3>3, <3>4
  <2>2. CASE slot # 0
    <3>1. s = slot /\ s \in 1..Len(slots) /\ slots' = [slots EXCEPT ![s] = [ret |-> FALSE, pan |-> FALSE]]
      BY <1>1, <1>2, <2>2
    <3>2. [ret |-> FALSE, pan |-> FALSE] \in [ret : BOOLEAN, pan : BOOLEAN]
      OBVIOUS
    <3> HIDE DEF s
    <3>3. /\ slots' \in Seq([ret : BOOLEAN, pan : BOOLEAN]) /\ Len(slots') = Len(slots)
          /\ slots'[s] = [ret |-> FALSE, pan |-> FALSE]
      BY <1>1, <3>1, <3>2
    <3>4. Asked(slots', s) = FALSE
      BY <1>1, <3>1, <3>3 DEF Asked
    <3>5. QED BY <1>1, <2>2, <3>1, <3>3, <3>4
  <2>3. QED BY <2>1, <2>2
<1> HIDE DEF s
<1>4. f \in Frames /\ f.slot = s
  BY <1>3, DuesFacts DEF Frames, TryFrames, Flows
<1>5. f.kind = "try" /\ f.part = "body"
  OBVIOUS
<1> HIDE DEF f
<1>6. running' \in Seq(Frames) /\ SlotsOK(running', s, Len(slots'))
  BY <1>1, <1>2, <1>3, <1>4, PushTypes
<1>7. TryTypes'
  BY <1>1, <1>2, <1>3, <1>6 DEF TryTypes, Flows
<1>8. ASSUME ~stale' PROVE Safe(running', "run", FALSE, due, retval)
  <2>1. ~stale /\ ~Asked(slots, slot)
    BY <1>1, <1>2, <1>8, AsksIs
  <2>2. Asked(slots, slot) = FALSE
    BY <1>1, <2>1, AskedFacts
  <2>3. Safe(running, "run", Asked(slots, slot), due, retval)
    BY <1>2, <2>1 DEF TryInv, Flows
  <2>4. Safe(running, "run", FALSE, due, retval)
    BY <2>2, <2>3
  <2>5. QED BY <1>1, <1>2, <1>5, <2>4, PushSafe
<1>9. QED BY <1>2, <1>3, <1>7, <1>8 DEF TryInv

LEMMA DoStmtStep ==
  ASSUME TryInv, DoStmt
  PROVE  TryInv'
<1>1. /\ TryTypes /\ running \in Seq(Frames) /\ slots \in Seq([ret : BOOLEAN, pan : BOOLEAN])
      /\ slot \in 0..Len(slots) /\ SlotsOK(running, slot, Len(slots)) /\ Len(slots) \in Nat
      /\ Asked(slots, slot) \in BOOLEAN
  BY AskedFacts DEF TryInv, TryTypes
<1> DEFINE f == [kind |-> "do", part |-> "body", slot |-> slot, flag |-> FALSE, val |-> 0, err |-> FALSE]
<1>2. /\ flow = "run" /\ running' = Append(running, f)
      /\ UNCHANGED <<flow, slots, slot, retval, due, stale>>
  BY DEF DoStmt, Statement
<1>3. f \in Frames /\ f.slot = slot
  BY <1>1 DEF Frames, DoFrames
<1>4. f.kind = "do" /\ ~f.flag /\ ~f.err
  OBVIOUS
<1> HIDE DEF f
<1>5. running' \in Seq(Frames) /\ SlotsOK(running', slot, Len(slots))
  BY <1>1, <1>2, <1>3, PushTypes
<1>6. TryTypes'
  BY <1>1, <1>2, <1>5 DEF TryTypes, Flows
<1>7. ASSUME ~stale PROVE Safe(running', "run", Asked(slots, slot), due, retval)
  <2>1. Safe(running, "run", Asked(slots, slot), due, retval)
    BY <1>2, <1>7 DEF TryInv, Flows
  <2>2. CASE Asked(slots, slot) = TRUE
    <3>1. Safe(Append(running, f), "run", TRUE, due, retval)
      BY <1>1, <1>4, <2>1, <2>2, PushSafe
    <3>2. QED BY <1>2, <2>2, <3>1
  <2>3. CASE Asked(slots, slot) = FALSE
    <3>1. Safe(Append(running, f), "run", FALSE, due, retval)
      BY <1>1, <1>4, <2>1, <2>3, PushSafe
    <3>2. QED BY <1>2, <2>3, <3>1
  <2>4. QED BY <1>1, <2>2, <2>3
<1>8. QED BY <1>2, <1>6, <1>7 DEF TryInv

LEMMA CatchesStep ==
  ASSUME TryInv, Catches
  PROVE  TryInv'
<1> DEFINE f == [Inner EXCEPT !.part = "handler"]
<1>1. /\ running # <<>> /\ Inner.kind = "try" /\ Inner.part = "body" /\ flow = "panic"
      /\ EnterPart(f) /\ slots' = Recovered /\ retval' = retval
      /\ due' = IF due.kind = "raise" THEN None ELSE due
      /\ stale' = (stale \/ Asks(Inner.slot))
  BY DEF Catches, Running
<1>2. Inner \in TryFrames /\ Inner.slot = slot /\ Inner = running[Len(running)]
  BY <1>1, UnderWay, InnerFacts
<1>3. f \in Frames /\ f.slot = Inner.slot /\ f.kind = "try" /\ f.part = "handler"
  BY <1>1, <1>2 DEF Frames, TryFrames
<1> HIDE DEF f
<1>4. SameAsks
  BY <1>1, UnderWay, RecoveredSame DEF SameAsks
<1>5. due' \in Dues /\ stale' \in BOOLEAN
  BY <1>1, <1>2, UnderWay, DuesFacts
<1>6. ASSUME ~stale'
      PROVE  Safe([running EXCEPT ![Len(running)] = f], "run", Asked(slots, f.slot), due', retval)
  <2>1. ~stale /\ Asked(slots, slot) = FALSE
    BY <1>1, <1>2, <1>6, UnderWay
  <2>2. Safe(running, "panic", FALSE, due, retval)
    BY <1>1, <2>1, UnderWay
  <2>3. due' = None
    BY <1>1, <2>2 DEF Safe, Fits
  <2>4. TryAt(running, Len(running)) /\ running[Len(running)].part # "else"
    BY <1>1, <1>2 DEF TryAt
  <2>5. "panic" \in Flows /\ running \in Seq(Frames)
    BY <1>1, UnderWay
  <2>6. Safe([running EXCEPT ![Len(running)] = f], "run", FALSE, None, retval)
    BY <1>1, <1>3, <2>2, <2>4, <2>5, EnterSafe
  <2>7. QED BY <1>2, <1>3, <2>1, <2>3, <2>6
<1>7. QED BY <1>1, <1>3, <1>4, <1>5, <1>6, UnderWay, EnterStep

LEMMA RunFinallyStep ==
  ASSUME TryInv, RunFinally
  PROVE  TryInv'
<1> DEFINE f == [Inner EXCEPT !.part = "finally", !.pending = flow, !.owed = due]
<1>1. /\ running # <<>> /\ Inner.kind = "try" /\ Inner.part \in {"body", "handler"}
      /\ EnterPart(f) /\ slots' = Recovered /\ retval' = retval
      /\ due' = None /\ stale' = stale
  BY DEF RunFinally, Running
<1>2. /\ Inner \in TryFrames /\ Inner.slot = slot /\ Inner = running[Len(running)]
      /\ flow \in Flows /\ due \in Dues /\ stale \in BOOLEAN
  BY <1>1, UnderWay, InnerFacts
<1>3. /\ f \in Frames /\ f.slot = Inner.slot
      /\ f.kind = "try" /\ f.part = "finally" /\ f.pending = flow /\ f.owed = due
  BY <1>1, <1>2 DEF Frames, TryFrames
<1> HIDE DEF f
<1>4. SameAsks
  BY <1>1, UnderWay, RecoveredSame DEF SameAsks
<1>5. ASSUME ~stale
      PROVE  Safe([running EXCEPT ![Len(running)] = f], "run", Asked(slots, f.slot), None, retval)
  <2>1. IifeAt(running, Len(running))
    BY <1>1, <1>2 DEF IifeAt
  <2>2. Safe([running EXCEPT ![Len(running)] = f], "run", Asked(slots, slot), None, retval)
    BY <1>1, <1>3, <1>5, <2>1, UnderWay, HoldSafe
  <2>3. QED BY <1>2, <1>3, <2>2
<1>6. QED BY <1>1, <1>2, <1>3, <1>4, <1>5, UnderWay, DuesFacts, EnterStep

(* An else suite begins: nothing is due and the sentinel does not ask.     *)
LEMMA ElseStep ==
  ASSUME TryInv, NEW pending, NEW marks, running # <<>>, Inner.kind = "try",
         TryElseSuite(pending, marks), SameAsks, retval' = retval, due' \in Dues,
         ~stale /\ ~Asked(slots, slot) => due' = None /\ flow = "run"
  PROVE  TryInv'
<1> DEFINE f == [Inner EXCEPT !.part = "else"]
<1>1. EnterPart(f) /\ stale' = (stale \/ Asks(Inner.slot))
  BY DEF TryElseSuite
<1>2. Inner \in TryFrames /\ Inner.slot = slot /\ Inner = running[Len(running)]
  BY UnderWay, InnerFacts
<1>3. f \in Frames /\ f.slot = Inner.slot /\ f.kind = "try" /\ f.part = "else"
  BY <1>2 DEF Frames, TryFrames
<1> HIDE DEF f
<1>4. stale' \in BOOLEAN
  BY <1>1, <1>2, UnderWay
<1>5. ASSUME ~stale'
      PROVE  Safe([running EXCEPT ![Len(running)] = f], "run", Asked(slots, f.slot), due', retval)
  <2>1. ~stale /\ Asked(slots, slot) = FALSE /\ due' = None /\ flow = "run"
    BY <1>1, <1>2, <1>5, UnderWay
  <2>2. Safe(running, "run", FALSE, due, retval) /\ "run" \in Flows /\ running \in Seq(Frames)
    BY <2>1, UnderWay
  <2>3. Safe([running EXCEPT ![Len(running)] = f], "run", FALSE, None, retval)
    BY <1>3, <2>2, EnterSafe
  <2>4. QED BY <1>2, <1>3, <2>1, <2>3
<1>6. QED BY <1>1, <1>3, <1>4, <1>5, UnderWay, EnterStep

LEMMA LeaveIifeStep ==
  ASSUME TryInv, LeaveIife
  PROVE  TryInv'
<1>1. /\ running # <<>> /\ Inner.kind = "try" /\ Inner.part \in {"body", "handler"}
      /\ AfterIife(flow, Recovered) /\ slots' = Recovered /\ retval' = retval /\ due' = due
  BY DEF LeaveIife, Running
<1>2. /\ Inner \in TryFrames /\ Inner.slot = slot /\ slot # 0 /\ Inner = running[Len(running)]
      /\ flow \in Flows /\ due \in Dues /\ stale \in BOOLEAN
  BY <1>1, UnderWay, InnerFacts
<1>3. SameRets(Recovered, slots) /\ SameAsks
  BY <1>1, UnderWay, RecoveredSame DEF SameAsks
<1>4. TryAt(running, Len(running)) /\ IifeAt(running, Len(running))
      /\ ~FinallyAt(running, Len(running)) /\ ~BodyAt(running, Len(running))
  BY <1>1, <1>2 DEF IifeAt, TryAt, FinallyAt, BodyAt
<1>5. ASSUME ~stale
      PROVE  /\ Safe(running, flow, Asked(slots, slot), due, retval)
             /\ flow = "run" => ~Asked(slots, slot) /\ due = None
             /\ flow = "leave" => Asked(slots, slot)
  <2>1. Safe(running, flow, Asked(slots, slot), due, retval)
    BY <1>1, <1>5, UnderWay
  <2>2. flow = "run" => due = None
    BY <2>1 DEF Safe, Fits
  <2>3. QED BY <1>1, <1>4, <2>1, <2>2, UnderWay, AsksFacts
<1>6. CASE TryElseSuite(flow, Recovered)
  <2>1. ~stale /\ ~Asked(slots, slot) => due' = None /\ flow = "run"
    BY <1>1, <1>2, <1>5, <1>6 DEF TryElseSuite, Flows
  <2>2. QED BY <1>1, <1>2, <1>3, <1>6, <2>1, ElseStep
<1>7. CASE TryDone(flow, Recovered)
  <2> DEFINE how == IF flow = "panic" THEN "panic"
                    ELSE IF Recovered[Inner.slot].ret THEN "leave" ELSE "run"
  <2>1. Pop(how) /\ stale' = stale /\ how \in Flows
    BY <1>7 DEF TryDone, Flows
  <2>2. Recovered[Inner.slot].ret = Asked(slots, slot)
    <3>1. Asked(Recovered, slot) = Asked(slots, slot)
      BY <1>1, <1>3, UnderWay, AskedSame
    <3>2. Asked(Recovered, slot) = Recovered[slot].ret
      BY <1>2 DEF Asked
    <3>3. QED BY <1>2, <3>1, <3>2
  <2>3. ~stale => how = flow
    BY <1>2, <1>5, <2>2 DEF Flows
  <2> HIDE DEF how
  <2>4. ASSUME ~stale PROVE Safe(Front(running), how, Asked(slots, slot), due', retval)
    <3>1. Safe(Front(running), flow, Asked(slots, slot), due, retval)
      BY <1>1, <1>4, <1>5, <2>4, UnderWay, PopSafe
    <3>2. QED BY <1>1, <2>3, <2>4, <3>1
  <2>5. QED BY <1>1, <1>2, <1>3, <2>1, <2>4, UnderWay, PopStep
<1>8. QED BY <1>1, <1>6, <1>7 DEF AfterIife

LEMMA LeaveFinallyStep ==
  ASSUME TryInv, LeaveFinally
  PROVE  TryInv'
<1>1. /\ running # <<>> /\ Inner.kind = "try" /\ Inner.part = "finally" /\ flow # "panic"
      /\ AfterIife(Inner.pending, slots) /\ slots' = slots /\ retval' = retval /\ due' = Inner.owed
  BY DEF LeaveFinally, Running
<1>2. /\ Inner \in TryFrames /\ Inner.slot = slot /\ slot # 0 /\ Inner = running[Len(running)]
      /\ flow \in Flows /\ stale \in BOOLEAN
      /\ Inner.pending \in Flows /\ Inner.owed \in Dues
  <2>1. /\ Inner \in TryFrames /\ Inner.slot = slot /\ slot # 0 /\ Inner = running[Len(running)]
        /\ flow \in Flows /\ stale \in BOOLEAN
    BY <1>1, UnderWay, InnerFacts
  <2>2. QED BY <2>1 DEF TryFrames
<1>3. SameAsks
  BY <1>1, UnderWay, UnchangedSame DEF SameAsks
<1>4. TryAt(running, Len(running)) /\ FinallyAt(running, Len(running))
  BY <1>1, <1>2 DEF TryAt, FinallyAt
<1>5. ASSUME ~stale
      PROVE  /\ flow = "run"
             /\ Safe(Front(running), Inner.pending, Asked(slots, slot), Inner.owed, retval)
             /\ Inner.pending = "leave" => Asked(slots, slot)
             /\ Inner.pending = "run" => ~Asked(slots, slot) /\ Inner.owed = None
  <2>1. Safe(running, flow, Asked(slots, slot), due, retval)
    BY <1>1, <1>5, UnderWay
  <2>2. flow # "leave"
    BY <1>1, <1>4, <2>1, UnderWay, AsksFacts
  <2>3. flow = "run"
    BY <1>1, <1>2, <2>2 DEF Flows
  <2>4. Safe(running, "run", Asked(slots, slot), None, retval)
    BY <2>1, <2>3 DEF Safe, Fits
  <2>5. /\ Safe(Front(running), Inner.pending, Asked(slots, slot), Inner.owed, retval)
        /\ Inner.pending = "leave" => Asked(slots, slot)
        /\ Inner.pending = "run" => ~Asked(slots, slot)
    BY <1>1, <1>2, <1>4, <2>4, UnderWay, FinallySafe
  <2>6. Inner.pending = "run" => Inner.owed = None
    BY <2>5 DEF Safe, Fits
  <2>7. QED BY <2>3, <2>5, <2>6
<1>6. CASE TryElseSuite(Inner.pending, slots)
  <2>1. ~stale /\ ~Asked(slots, slot) => due' = None /\ flow = "run"
    BY <1>1, <1>2, <1>5, <1>6 DEF TryElseSuite, Flows
  <2>2. QED BY <1>1, <1>2, <1>3, <1>6, <2>1, ElseStep
<1>7. CASE TryDone(Inner.pending, slots)
  <2> DEFINE how == IF Inner.pending = "panic" THEN "panic"
                    ELSE IF slots[Inner.slot].ret THEN "leave" ELSE "run"
  <2>1. Pop(how) /\ stale' = stale /\ how \in Flows
    BY <1>7 DEF TryDone, Flows
  <2>2. slots[Inner.slot].ret = Asked(slots, slot)
    BY <1>2 DEF Asked
  <2>3. ~stale => how = Inner.pending
    BY <1>2, <1>5, <2>2 DEF Flows
  <2> HIDE DEF how
  <2>4. ASSUME ~stale PROVE Safe(Front(running), how, Asked(slots, slot), due', retval)
    BY <1>1, <1>5, <2>3, <2>4
  <2>5. QED BY <1>1, <1>2, <1>3, <2>1, <2>4, UnderWay, PopStep
<1>8. QED BY <1>1, <1>6, <1>7 DEF AfterIife

(* A suite is over, and what is on its way goes on.                        *)
LEMMA GoesOn ==
  ASSUME TryInv, running # <<>>, NEW how \in Flows, Pop(how),
         UNCHANGED <<slots, retval, due, stale>>,
         ~stale => how = flow,
         flow # "panic" => ~FinallyAt(running, Len(running)),
         flow = "leave" => ~BodyAt(running, Len(running)) \/ stale
  PROVE  TryInv'
<1>1. ASSUME ~stale PROVE Safe(Front(running), how, Asked(slots, slot), due, retval)
  <2>1. Safe(Front(running), flow, Asked(slots, slot), due, retval)
    BY <1>1, UnderWay, PopSafe
  <2>2. QED BY <1>1, <2>1
<1>2. SameAsks
  BY UnderWay, UnchangedSame DEF SameAsks
<1>3. due' \in Dues /\ TryTypes
  BY UnderWay
<1>4. QED BY <1>1, <1>2, <1>3, PopStep

LEMMA FinallyPanicsStep ==
  ASSUME TryInv, FinallyPanics
  PROVE  TryInv'
<1>1. /\ running # <<>> /\ flow = "panic" /\ Pop("panic") /\ UNCHANGED <<slots, retval, due, stale>>
  BY DEF FinallyPanics, Running
<1>2. "panic" \in Flows
  BY DEF Flows
<1>3. QED BY <1>1, <1>2, GoesOn

LEMMA LeaveElseStep ==
  ASSUME TryInv, LeaveElse
  PROVE  TryInv'
<1> DEFINE how == IF flow = "run" /\ Asks(Inner.slot) THEN "leave" ELSE flow
<1>1. /\ running # <<>> /\ Inner.kind = "try" /\ Inner.part = "else"
      /\ Pop(how) /\ UNCHANGED <<slots, retval, due, stale>>
  BY DEF LeaveElse, Running
<1>2. /\ Inner.slot = slot /\ Inner = running[Len(running)] /\ flow \in Flows
  BY <1>1, UnderWay, InnerFacts
<1>3. /\ TryAt(running, Len(running)) /\ ~FinallyAt(running, Len(running))
      /\ ~BodyAt(running, Len(running))
  BY <1>1, <1>2 DEF TryAt, FinallyAt, BodyAt
<1>4. ~stale /\ flow = "run" => ~Asks(slot)
  BY <1>1, <1>3, UnderWay, AsksFacts
<1>5. how \in Flows /\ (~stale => how = flow)
  BY <1>2, <1>4 DEF Flows
<1> HIDE DEF how
<1>6. QED BY <1>1, <1>3, <1>5, GoesOn

LEMMA LeaveDoHandlerStep ==
  ASSUME TryInv, LeaveDoHandler
  PROVE  TryInv'
<1>1. /\ running # <<>> /\ Inner.kind = "do" /\ Inner.part = "handler"
      /\ Pop(flow) /\ UNCHANGED <<slots, retval, due, stale>>
  BY DEF LeaveDoHandler, Running
<1>2. Inner = running[Len(running)] /\ flow \in Flows
  BY <1>1, UnderWay, InnerFacts
<1>3. ~FinallyAt(running, Len(running)) /\ ~BodyAt(running, Len(running))
  BY <1>1, <1>2 DEF FinallyAt, BodyAt
<1>4. QED BY <1>1, <1>2, <1>3, GoesOn

LEMMA DoDoneStep ==
  ASSUME TryInv, DoDone
  PROVE  TryInv'
<1> DEFINE how == IF flow = "leave" THEN "panic" ELSE flow
<1>1. /\ running # <<>> /\ Inner.kind = "do" /\ Inner.part = "body"
      /\ flow = "panic" \/ (~Inner.flag /\ (flow = "leave" => ~Inner.err))
      /\ Pop(how) /\ UNCHANGED <<slots, retval, due, stale>>
  BY DEF DoDone, Running
<1>2. Inner = running[Len(running)] /\ flow \in Flows /\ due \in Dues
  BY <1>1, UnderWay, InnerFacts
<1>3. BodyAt(running, Len(running)) /\ ~FinallyAt(running, Len(running))
  BY <1>1, <1>2 DEF BodyAt, FinallyAt
<1>4. ~stale => flow # "leave"
  BY <1>1, <1>2, <1>3, UnderWay, DoBodyEnds
<1>5. how \in Flows /\ (~stale => how = flow)
  BY <1>2, <1>4 DEF Flows
<1> HIDE DEF how
<1>6. QED BY <1>1, <1>3, <1>4, <1>5, GoesOn

LEMMA DoFailsStep ==
  ASSUME TryInv, DoFails
  PROVE  TryInv'
<1> DEFINE f == [Inner EXCEPT !.part = "handler"]
<1>1. /\ running # <<>> /\ Inner.kind = "do" /\ Inner.part = "body" /\ flow = "leave"
      /\ ~Inner.flag /\ Inner.err
      /\ EnterPart(f) /\ slots' = slots /\ retval' = retval
      /\ due' = IF due.kind = "?" THEN None ELSE due
      /\ stale' = (stale \/ Asks(Inner.slot))
  BY DEF DoFails, Running
<1>2. /\ Inner \in DoFrames /\ Inner = running[Len(running)]
      /\ Inner.slot \in 0..Len(slots)
  BY <1>1, UnderWay, InnerFacts
<1>3. f \in Frames /\ f.slot = Inner.slot /\ f.kind = "do" /\ f.part = "handler"
  BY <1>1, <1>2 DEF Frames, DoFrames
<1> HIDE DEF f
<1>4. SameAsks
  BY <1>1, UnderWay, UnchangedSame DEF SameAsks
<1>5. /\ due' \in Dues
      /\ Asked(slots, Inner.slot) \in BOOLEAN /\ (Asks(Inner.slot) <=> Asked(slots, Inner.slot))
      /\ stale' \in BOOLEAN
  BY <1>1, <1>2, UnderWay, DuesFacts, AskedFacts, AsksIs
<1>6. BodyAt(running, Len(running))
  BY <1>1, <1>2 DEF BodyAt
<1>7. ASSUME ~stale'
      PROVE  Safe([running EXCEPT ![Len(running)] = f], "run", Asked(slots, f.slot), due', retval)
  <2>1. ~stale /\ Asked(slots, Inner.slot) = FALSE
    BY <1>1, <1>5, <1>7, UnderWay
  <2>2. Safe(running, "leave", Asked(slots, slot), due, retval)
    BY <1>1, <2>1, UnderWay
  <2>3. due' = None
    <3>1. due.kind \in {"return", "?"}
      BY <2>2 DEF Safe, Fits
    <3>2. due.kind # "return"
      BY <1>1, <1>2, <1>6, <2>1, UnderWay, DoBodyEnds
    <3>3. QED BY <1>1, <3>1, <3>2
  <2>4. Safe(running, "leave", FALSE, due, retval)
    <3>1. CASE Inner.slot = slot
      BY <2>1, <2>2, <3>1
    <3>2. CASE Inner.slot # slot
      <4>1. NoTry(Front(running))
        BY <1>1, <1>2, <3>2, UnderWay, PopTypes
      <4>2. running \in Seq(Frames)
        BY <1>1, UnderWay
      <4>3. ASSUME NEW i \in 1..Len(running) PROVE ~TryAt(running, i)
        <5>1. CASE i = Len(running)
          BY <1>1, <1>2, <5>1 DEF TryAt
        <5>2. CASE i # Len(running)
          <6>1. i \in 1..Len(running) - 1 /\ Len(Front(running)) = Len(running) - 1
                /\ Front(running)[i] = running[i]
            BY <1>1, <4>2, <5>2, FrontFacts
          <6>2. QED BY <4>1, <6>1 DEF NoTry, TryAt
        <5>3. QED BY <5>1, <5>2
      <4>4. NoTry(running)
        BY <4>3 DEF NoTry
      <4>5. QED BY <1>1, <2>2, <4>2, <4>4, UnderWay, SafeAsks
    <3>3. QED BY <3>1, <3>2
  <2>5. Safe([running EXCEPT ![Len(running)] = f], "run", FALSE, None, retval)
    BY <1>1, <1>3, <1>6, <2>4, UnderWay, EnterSafe
  <2>6. QED BY <1>3, <2>1, <2>3, <2>5
<1>8. QED BY <1>1, <1>3, <1>4, <1>5, <1>7, UnderWay, EnterStep

LEMMA DoReturnsStep ==
  ASSUME TryInv, DoReturns
  PROVE  TryInv'
<1> DEFINE r == Front(running)
           n == Len(running)
           v == Inner.val
<1>1. /\ running # <<>> /\ Inner.kind = "do" /\ Inner.part = "body" /\ flow # "panic" /\ Inner.flag
      /\ EmitReturn(r, Inner.slot, v) /\ slot' = Inner.slot
      /\ due' = due /\ stale' = stale
  BY DEF DoReturns, Running
<1>2. /\ Inner \in DoFrames /\ Inner = running[n] /\ Inner.slot \in 0..Len(slots)
      /\ running \in Seq(Frames) /\ due \in Dues /\ TryTypes /\ flow \in Flows
      /\ Asked(slots, slot) \in BOOLEAN /\ SlotsOK(running, slot, Len(slots))
  BY <1>1, UnderWay, InnerFacts
<1>3. v \in {0} \cup Values
  BY <1>2 DEF DoFrames
<1>4. /\ r \in Seq(Frames) /\ n \in Nat /\ n > 0 /\ Len(r) = n - 1
      /\ \A i \in 1..n - 1 : r[i] = running[i]
  BY <1>1, <1>2, FrontFacts
<1>5. SlotsOK(r, Inner.slot, Len(slots))
  BY <1>1, <1>2, PopTypes
<1>6. BodyAt(running, n)
  BY <1>1, <1>2 DEF BodyAt
<1>7. ASSUME ~stale
      PROVE  /\ due.kind = "return" /\ v = due.val
             /\ \A i \in 1..n : ~FinallyAt(running, i)
             /\ \A i \in 0..n - 1 : ~Marked(running, i, retval)
  <2>1. Safe(running, flow, Asked(slots, slot), due, retval)
    BY <1>1, <1>7, UnderWay
  <2>2. /\ flow = "run" => ~Inner.flag /\ ~Inner.err
        /\ flow = "leave" /\ due.kind = "return" =>
              /\ Inner.flag /\ Inner.val = due.val
              /\ \A i \in 1..n : ~FinallyAt(running, i)
              /\ \A i \in 0..n - 1 : ~Marked(running, i, retval)
        /\ flow = "leave" /\ due.kind # "return" => ~Inner.flag /\ Inner.err
    BY <1>1, <1>2, <1>6, <2>1, DoBodyEnds
  <2>3. flow = "leave" /\ due.kind = "return"
    BY <1>1, <1>2, <2>2 DEF Flows
  <2>4. QED BY <2>2, <2>3
<1> HIDE DEF r, n, v
<1>8. ASSUME ~stale
      PROVE  /\ v \in Values /\ due' = [kind |-> "return", val |-> v]
             /\ \A i \in 1..Len(r) : ~FinallyAt(r, i)
             /\ \A i \in 0..Len(r) : ~Marked(r, i, retval)
  <2>1. v \in Values /\ due = [kind |-> "return", val |-> v]
    BY <1>2, <1>7, <1>8 DEF Dues, None
  <2>2. \A i \in 1..n - 1 : (FinallyAt(r, i) <=> FinallyAt(running, i))
                            /\ (Marked(r, i, retval) <=> Marked(running, i, retval))
    BY <1>4 DEF FinallyAt, Marked, BodyAt
  <2>3. Marked(r, 0, retval) <=> Marked(running, 0, retval)
    BY DEF Marked
  <2>4. \A i \in 1..n - 1 : i \in 1..n /\ i \in 0..n - 1
    BY <1>4
  <2>5. \A i \in 0..n - 1 : i = 0 \/ i \in 1..n - 1
    BY <1>4
  <2>6. QED BY <1>1, <1>4, <1>7, <1>8, <2>1, <2>2, <2>3, <2>4, <2>5
<1>9. QED BY <1>1, <1>2, <1>3, <1>4, <1>5, <1>8, EmitStep

LEMMA FunctionEndsStep ==
  ASSUME TryInv, FunctionEnds
  PROVE  TryInv'
<1>1. /\ running = <<>> /\ flow \in Flows
      /\ flow' = IF flow = "panic" THEN "crashed" ELSE "returned"
      /\ UNCHANGED <<running, slots, slot, retval, due, stale>>
  BY DEF FunctionEnds, Flows
<1>2. TryTypes'
  BY <1>1 DEF TryInv, TryTypes
<1>3. ASSUME ~stale
      PROVE  /\ flow = "panic" => due.kind = "raise"
             /\ flow # "panic" => due = IF retval = 0 THEN None
                                        ELSE [kind |-> "return", val |-> retval]
  <2>1. Safe(<<>>, flow, Asked(slots, slot), due, retval)
    BY <1>1, <1>3 DEF TryInv
  <2>2. Asked(slots, slot) \in BOOLEAN /\ due \in Dues
    BY AskedFacts DEF TryInv, TryTypes
  <2>3. flow = "panic" => due.kind = "raise"
    BY <2>1 DEF Safe, Fits
  <2>4. CASE flow = "run"
    <3>1. due = None /\ retval = 0
      BY <1>1, <2>1, <2>2, <2>4, EndSafe
    <3>2. QED BY <2>4, <3>1
  <2>5. CASE flow = "leave"
    <3>1. due.kind = "return" /\ retval = due.val
      BY <1>1, <2>1, <2>2, <2>5, EndSafe
    <3>2. due = [kind |-> "return", val |-> retval] /\ retval \in Values
      BY <2>2, <3>1 DEF Dues, None
    <3>3. retval # 0
      BY <3>2, ValuesAssumption
    <3>4. QED BY <2>5, <3>2, <3>3
  <2>6. QED BY <1>1, <2>3, <2>4, <2>5 DEF Flows
<1>4. QED BY <1>1, <1>2, <1>3 DEF TryInv, Flows

LEMMA TryStart == TryInit => TryInv
<1> SUFFICES ASSUME TryInit PROVE TryInv
  OBVIOUS
<1>1. /\ running = <<>> /\ flow = "run" /\ slots = <<>> /\ slot = 0 /\ retval = 0
      /\ due = None /\ stale = FALSE
  BY DEF TryInit
<1>2. TryTypes
  <2>1. <<>> \in Seq(Frames) /\ <<>> \in Seq([ret : BOOLEAN, pan : BOOLEAN]) /\ Len(<<>>) = 0
    OBVIOUS
  <2>2. SlotsOK(<<>>, 0, 0)
    BY <2>1 DEF SlotsOK
  <2>3. 0 \in 0..0
    OBVIOUS
  <2>4. QED BY <1>1, <2>1, <2>2, <2>3, DuesFacts DEF TryTypes, Flows
<1>3. Asked(slots, slot) = FALSE
  BY <1>1 DEF Asked
<1>4. Safe(running, "run", FALSE, None, 0)
  BY <1>1 DEF Safe, Fits, RunOK, FinallyOK, LeaveOK, MarkOK, Marked
<1>5. QED BY <1>1, <1>2, <1>3, <1>4 DEF TryInv

LEMMA TryInvHolds == TrySpec => []TryInv
<1>1. TryInit => TryInv
  BY TryStart
<1>2. TryInv /\ [TryNext]_tryVars => TryInv'
  <2> SUFFICES ASSUME TryInv, [TryNext]_tryVars PROVE TryInv'
    OBVIOUS
  <2>1. CASE UNCHANGED tryVars
    <3>1. UNCHANGED <<running, flow, slots, slot, retval, due, stale>>
      BY <2>1 DEF tryVars
    <3>2. QED BY <3>1 DEF TryInv, TryTypes
  <2>2. CASE \E v \in Values : ReturnStmt(v)
    BY <2>2, ReturnStep
  <2>3. CASE Propagate \/ RaiseStmt \/ TryStmt \/ DoStmt
    BY <2>3, PropagateStep, RaiseStep, TryStmtStep, DoStmtStep
  <2>4. CASE Catches \/ RunFinally \/ LeaveIife \/ LeaveFinally \/ FinallyPanics \/ LeaveElse
    BY <2>4, CatchesStep, RunFinallyStep, LeaveIifeStep, LeaveFinallyStep, FinallyPanicsStep, LeaveElseStep
  <2>5. CASE DoReturns \/ DoFails \/ DoDone \/ LeaveDoHandler \/ FunctionEnds
    BY <2>5, DoReturnsStep, DoFailsStep, DoDoneStep, LeaveDoHandlerStep, FunctionEndsStep
  <2>6. QED BY <2>1, <2>2, <2>3, <2>4, <2>5 DEF TryNext
<1>3. QED BY <1>1, <1>2, PTL DEF TrySpec

(* Exits from statements of any number and nesting get where they were     *)
(* sent, and nothing runs in between but finally suites.                   *)
THEOREM ExitsAsAskedHolds == TrySpec => []ExitsAsAsked
<1>1. TryInv => ExitsAsAsked
  <2> SUFFICES ASSUME TryInv, ~stale PROVE ExitsAsAsked
    BY DEF ExitsAsAsked
  <2>1. flow \in Flows \cup {"returned", "crashed"}
    BY DEF TryInv, TryTypes
  <2>2. flow \in Flows => Fits(flow, due)
    BY DEF TryInv, Safe
  <2>3. /\ flow = "crashed" => due.kind = "raise"
        /\ flow = "returned" => due = IF retval = 0 THEN None ELSE [kind |-> "return", val |-> retval]
    BY DEF TryInv
  <2>4. CASE flow = "run"
    BY <2>2, <2>4 DEF ExitsAsAsked, Fits, Flows
  <2>5. CASE flow = "leave"
    BY <2>2, <2>5 DEF ExitsAsAsked, Fits, Flows
  <2>6. CASE flow = "panic"
    BY <2>2, <2>6 DEF ExitsAsAsked, Fits, Flows
  <2>7. CASE flow = "crashed"
    BY <2>3, <2>7 DEF ExitsAsAsked
  <2>8. CASE flow = "returned"
    BY <2>3, <2>8 DEF ExitsAsAsked
  <2>9. QED BY <2>1, <2>4, <2>5, <2>6, <2>7, <2>8 DEF Flows
<1>2. QED BY <1>1, TryInvHolds, PTL

(* ------------------------- the narrowing of a local ---------------------- *)

(* The types that x is taken for, from more to less                        *)
LocalTypes == {"any", "optional", "A", "B", "C"}
Rank(t) == CASE t = "any" -> 3 [] t = "optional" -> 2 [] t = "A" -> 1 [] OTHER -> 0
TypePlans == [type : LocalTypes, shadow : BOOLEAN]
Facts == {NoFact, NotNone, {"A"}, {"B"}, {"C"}, {"B", "C"}}
Kinds == {"branch", "rest", "loop", "operand"}
RegionRecords == [kind : Kinds, assigns : BOOLEAN, exits : BOOLEAN, after : TypePlans,
                  type : LocalTypes, view : Instances("any") \cup {Same}]

(* A fact is true of the value v.                                          *)
TrueOf(fact, v) ==
  IF fact = NoFact THEN TRUE
  ELSE IF fact = NotNone THEN v # "none" ELSE \E c \in fact : v \in Instances(c)

LEMMA TypesOf ==
  /\ \A t \in LocalTypes : Instances(t) \subseteq Instances("any") /\ Rank(t) \in 0..3
  /\ Instances("A") = {"A", "B", "C"} /\ Instances("B") = {"B"} /\ Instances("C") = {"C"}
  /\ Instances("any") = {"none", "A", "B", "C", "other"}
  /\ Instances("optional") = {"none", "A", "B", "C"} /\ Instances("none") = {"none"}
BY DEF LocalTypes, Instances, Rank

LEMMA SetsApart ==
  /\ {} # {"object"} /\ {"A"} # {"object"} /\ {"B"} # {"object"} /\ {"C"} # {"object"}
  /\ {"B", "C"} # {"object"} /\ {"B", "C"} # {} /\ {"A"} # {} /\ {"B"} # {} /\ {"C"} # {}
  /\ \A c : {"B", "C"} # {c}
  /\ {"A"} # {"none"} /\ {"B"} # {"none"} /\ {"C"} # {"none"} /\ {"B", "C"} # {"none"}
<1>1. "B" \in {"B", "C"} /\ "C" \in {"B", "C"} /\ "B" # "C"
  OBVIOUS
<1>2. \A c : {"B", "C"} # {c}
  BY <1>1
<1>3. "object" \in {"object"} /\ "object" \notin {"B", "C"} /\ "none" \in {"none"} /\ "none" \notin {"B", "C"}
  OBVIOUS
<1>4. QED BY <1>2, <1>3

(* The type that one fact gives where x is taken for a t                   *)
LEMMA NarrowedTypeFacts ==
  ASSUME NEW t \in LocalTypes, NEW fact \in Facts, fact # NoFact, NarrowedType(t, fact) # Undecided
  PROVE  /\ NarrowedType(t, fact) \in LocalTypes /\ Rank(NarrowedType(t, fact)) < Rank(t)
         /\ \A v \in Instances(t) : TrueOf(fact, v) => v \in Instances(NarrowedType(t, fact))
<1>1. CASE fact = NotNone
  <2>1. t = "optional" /\ NarrowedType(t, fact) = "A"
    BY <1>1 DEF NarrowedType
  <2>2. QED BY <1>1, <2>1, SetsApart DEF TrueOf, NoFact, NotNone, LocalTypes, Rank, Instances
<1>2. ASSUME NEW c \in {"A", "B", "C"}, fact = {c}
      PROVE  /\ NarrowedType(t, fact) \in LocalTypes /\ Rank(NarrowedType(t, fact)) < Rank(t)
             /\ \A v \in Instances(t) : TrueOf(fact, v) => v \in Instances(NarrowedType(t, fact))
  <2>1. fact # NotNone /\ \E k \in fact : fact = {k}
    BY <1>2 DEF NotNone
  <2>2. {NarrowOne(t, k) : k \in fact} = {NarrowOne(t, c)}
    BY <1>2
  <2>3. NarrowOne(t, c) # Undecided /\ NarrowedType(t, fact) = NarrowOne(t, c)
    BY <2>1, <2>2 DEF NarrowedType
  <2>4. NarrowedType(t, fact) = c /\ Rank(c) < Rank(t) /\ c \in LocalTypes
    BY <2>3 DEF NarrowOne, Rank, LocalTypes
  <2>5. \A v : TrueOf(fact, v) => v \in Instances(c)
    BY <1>2, <2>1 DEF TrueOf
  <2>6. QED BY <2>4, <2>5
<1>3. CASE fact = {"B", "C"}
  <2>1. fact # NotNone /\ ~ \E k \in fact : fact = {k}
    BY <1>3, SetsApart DEF NotNone
  <2>2. NarrowedType(t, fact) = "A" /\ t # "A" /\ NarrowOne(t, "B") # Undecided
    BY <1>3, <2>1 DEF NarrowedType
  <2>3. t \in {"any", "optional"}
    BY <2>2 DEF NarrowOne, LocalTypes
  <2>4. \A v : TrueOf(fact, v) => v \in {"B", "C"}
    BY <1>3, <2>1, TypesOf DEF TrueOf
  <2>5. QED BY <2>2, <2>3, <2>4, TypesOf DEF Rank, LocalTypes
<1>4. QED BY <1>1, <1>2, <1>3 DEF Facts

LEMMA AddFactFacts ==
  ASSUME NEW p \in TypePlans, NEW fact \in Facts
  PROVE  /\ AddFact(p, fact) \in TypePlans
         /\ AddFact(p, fact) = p \/ Rank(AddFact(p, fact).type) < Rank(p.type)
         /\ \A v : v \in Instances(p.type) /\ TrueOf(fact, v) => v \in Instances(AddFact(p, fact).type)
<1> DEFINE t == NarrowedType(p.type, fact)
<1>1. CASE fact = NoFact \/ t = Undecided
  BY <1>1 DEF AddFact
<1>2. CASE ~(fact = NoFact \/ t = Undecided)
  <2>1. AddFact(p, fact) = [type |-> t, shadow |-> p.shadow \/ p.type # "optional" \/ t # "A"]
    BY <1>2 DEF AddFact
  <2>2. p.type \in LocalTypes
    BY DEF TypePlans
  <2>3. /\ t \in LocalTypes /\ Rank(t) < Rank(p.type)
        /\ \A v \in Instances(p.type) : TrueOf(fact, v) => v \in Instances(t)
    BY <1>2, <2>2, NarrowedTypeFacts
  <2>4. (p.shadow \/ p.type # "optional" \/ t # "A") \in BOOLEAN
    OBVIOUS
  <2> HIDE DEF t
  <2>5. QED BY <2>1, <2>3, <2>4 DEF TypePlans
<1>3. QED BY <1>1, <1>2

(* Two facts                                                               *)
FactPair(facts) == facts[1] \in Facts /\ facts[2] \in Facts
BothTrue(facts, v) == TrueOf(facts[1], v) /\ TrueOf(facts[2], v)

LEMMA ExtendFacts ==
  ASSUME NEW p \in TypePlans, NEW facts, FactPair(facts)
  PROVE  /\ Extend(p, facts) \in TypePlans
         /\ Extend(p, facts) = p \/ Rank(Extend(p, facts).type) < Rank(p.type)
         /\ \A v : v \in Instances(p.type) /\ BothTrue(facts, v) => v \in Instances(Extend(p, facts).type)
<1> DEFINE q == AddFact(p, facts[1])
           e == AddFact(q, facts[2])
<1>1. /\ q \in TypePlans /\ (q = p \/ Rank(q.type) < Rank(p.type))
      /\ \A v : v \in Instances(p.type) /\ TrueOf(facts[1], v) => v \in Instances(q.type)
  BY AddFactFacts DEF FactPair
<1> HIDE DEF q
<1>2. /\ e \in TypePlans /\ (e = q \/ Rank(e.type) < Rank(q.type))
      /\ \A v : v \in Instances(q.type) /\ TrueOf(facts[2], v) => v \in Instances(e.type)
  BY <1>1, AddFactFacts DEF FactPair
<1>3. Extend(p, facts) = e
  BY DEF Extend, q
<1> HIDE DEF e
<1>4. p.type \in LocalTypes /\ q.type \in LocalTypes /\ e.type \in LocalTypes
  BY <1>1, <1>2 DEF TypePlans
<1>5. Rank(p.type) \in Int /\ Rank(q.type) \in Int /\ Rank(e.type) \in Int
  BY <1>4 DEF Rank
<1>6. e = p \/ Rank(e.type) < Rank(p.type)
  BY <1>1, <1>2, <1>5
<1>7. QED BY <1>1, <1>2, <1>3, <1>6 DEF BothTrue

(* What one test says is true.                                             *)
LEMMA TestFactTrue ==
  ASSUME NEW c, NEW i \in {1, 2}, NEW v, i \in DOMAIN c.tests => c.tests[i] \in Tests,
         NEW truth \in BOOLEAN, i \in DOMAIN c.tests => (truth <=> Passes(c.tests[i], v))
  PROVE  TestFact(c, i, truth) \in Facts /\ TrueOf(TestFact(c, i, truth), v)
<1> DEFINE t == c.tests[i]
<1>1. CASE i \notin DOMAIN c.tests
  BY <1>1 DEF TestFact, Facts, TrueOf
<1>2. CASE i \in DOMAIN c.tests
  <2>1. /\ t.neg \in BOOLEAN /\ t.of \in {{"none"}, {"A"}, {"B"}, {"C"}, {"B", "C"}}
        /\ truth <=> (t.neg <=> \A k \in t.of : v \notin Instances(k))
        /\ TestFact(c, i, truth) = IF t.of = {"none"} THEN (IF truth <=> t.neg THEN NotNone ELSE NoFact)
                                   ELSE (IF truth <=> t.neg THEN NoFact ELSE t.of)
    BY <1>2 DEF Tests, Passes, TestFact
  <2> HIDE DEF t
  <2>2. CASE truth <=> t.neg
    <3>1. \A k \in t.of : v \notin Instances(k)
      BY <2>1, <2>2
    <3>2. CASE t.of = {"none"}
      BY <2>1, <2>2, <3>1, <3>2, TypesOf, SetsApart DEF TrueOf, Facts, NotNone, NoFact
    <3>3. CASE t.of # {"none"}
      BY <2>1, <2>2, <3>3 DEF TrueOf, Facts
    <3>4. QED BY <3>2, <3>3
  <2>3. CASE ~(truth <=> t.neg)
    <3>1. \E k \in t.of : v \in Instances(k)
      BY <2>1, <2>3
    <3>2. CASE t.of = {"none"}
      BY <2>1, <2>3, <3>2 DEF TrueOf, Facts
    <3>3. CASE t.of # {"none"}
      <4>1. TestFact(c, i, truth) = t.of
        BY <2>1, <2>3, <3>3
      <4>2. t.of \in Facts /\ t.of # NotNone
        BY <2>1, <3>3, SetsApart DEF Facts, NotNone
      <4>3. QED BY <3>1, <4>1, <4>2 DEF TrueOf
    <3>4. QED BY <3>2, <3>3
  <2>4. QED BY <2>2, <2>3
<1>3. QED BY <1>1, <1>2

(* What a condition says is true, whichever way it goes.                   *)
LEMMA ConditionFactsTrue ==
  ASSUME NEW c \in Conditions, NEW v
  PROVE  /\ FactPair(ConditionFacts(c, Holds(c, v)))
         /\ BothTrue(ConditionFacts(c, Holds(c, v)), v)
<1> DEFINE inner == IF c.op = "and" THEN \A i \in DOMAIN c.tests : Passes(c.tests[i], v)
                    ELSE \E i \in DOMAIN c.tests : Passes(c.tests[i], v)
           side == ~(Holds(c, v) <=> c.neg)
<1>1. /\ c.op \in {"and", "or"} /\ c.neg \in BOOLEAN
      /\ DOMAIN c.tests = 1..Len(c.tests) /\ Len(c.tests) \in {1, 2}
      /\ \A i \in DOMAIN c.tests : c.tests[i] \in Tests
      /\ Len(c.tests) = 1 => c.op = "and"
  <2>1. ASSUME c \in [op : {"and"}, tests : {<<t>> : t \in Tests}, neg : {FALSE}]
        PROVE  /\ c.op = "and" /\ c.neg \in BOOLEAN
               /\ DOMAIN c.tests = 1..Len(c.tests) /\ Len(c.tests) = 1
               /\ \A i \in DOMAIN c.tests : c.tests[i] \in Tests
    <3>1. PICK t \in Tests : c.tests = <<t>>
      BY <2>1
    <3>2. DOMAIN c.tests = {1} /\ Len(c.tests) = 1 /\ c.tests[1] = t /\ {1} = 1..1
      BY <3>1
    <3>3. QED BY <2>1, <3>2
  <2>2. ASSUME c \in [op : {"and", "or"}, tests : Tests \X Tests, neg : BOOLEAN]
        PROVE  /\ c.op \in {"and", "or"} /\ c.neg \in BOOLEAN
               /\ DOMAIN c.tests = 1..Len(c.tests) /\ Len(c.tests) = 2
               /\ \A i \in DOMAIN c.tests : c.tests[i] \in Tests
    <3>1. c.tests \in Tests \X Tests
      BY <2>2
    <3>2. PICK t \in Tests, u \in Tests : c.tests = <<t, u>>
      BY <3>1
    <3>3. DOMAIN c.tests = 1..2 /\ Len(c.tests) = 2 /\ c.tests[1] = t /\ c.tests[2] = u
      BY <3>2
    <3>4. \A i \in 1..2 : i = 1 \/ i = 2
      OBVIOUS
    <3>5. QED BY <2>2, <3>3, <3>4
  <2>3. \/ c \in [op : {"and"}, tests : {<<t>> : t \in Tests}, neg : {FALSE}]
        \/ c \in [op : {"and", "or"}, tests : Tests \X Tests, neg : BOOLEAN]
    BY DEF Conditions
  <2>4. CASE c \in [op : {"and"}, tests : {<<t>> : t \in Tests}, neg : {FALSE}]
    BY <2>1, <2>4
  <2>5. CASE c \in [op : {"and", "or"}, tests : Tests \X Tests, neg : BOOLEAN]
    <3>1. Len(c.tests) = 2
      BY <2>2, <2>5
    <3>2. QED BY <2>2, <2>5, <3>1
  <2>6. QED BY <2>3, <2>4, <2>5
<1>2. side \in BOOLEAN /\ (side <=> inner)
  BY <1>1 DEF Holds
<1> HIDE DEF side
<1>3. ConditionFacts(c, Holds(c, v)) =
        IF (side <=> c.op = "and") \/ Len(c.tests) = 1
        THEN <<TestFact(c, 1, side), TestFact(c, 2, side)>> ELSE <<NoFact, NoFact>>
  BY DEF ConditionFacts, side
<1>4. CASE (side <=> c.op = "and") \/ Len(c.tests) = 1
  <2>1. \A i \in DOMAIN c.tests : side <=> Passes(c.tests[i], v)
    <3>1. CASE Len(c.tests) = 1
      BY <1>1, <1>2, <3>1
    <3>2. CASE side <=> c.op = "and"
      BY <1>1, <1>2, <3>2
    <3>3. QED BY <1>4, <3>1, <3>2
  <2>2. \A i \in {1, 2} : TestFact(c, i, side) \in Facts /\ TrueOf(TestFact(c, i, side), v)
    BY <1>1, <1>2, <2>1, TestFactTrue
  <2>3. QED BY <1>3, <1>4, <2>2 DEF FactPair, BothTrue
<1>5. CASE ~((side <=> c.op = "and") \/ Len(c.tests) = 1)
  BY <1>3, <1>5 DEF FactPair, BothTrue, Facts, TrueOf
<1>6. QED BY <1>4, <1>5

LEMMA OutcomeFacts ==
  ASSUME NEW v \in Instances("any"), NEW c \in Outcomes[v]
  PROVE  FactPair(c.facts) /\ BothTrue(c.facts, v)
<1>1. PICK k \in Conditions : c = [truth |-> Holds(k, v), facts |-> ConditionFacts(k, Holds(k, v))]
  BY DEF Outcomes
<1>2. c.facts = ConditionFacts(k, Holds(k, v))
  BY <1>1
<1>3. QED BY <1>2, ConditionFactsTrue

(* A plan for what is within the regions r: it lowers the declared type,   *)
(* or leaves it where nothing around has lowered it.                       *)
PlanFits(given, d, t) ==
  given \in TypePlans /\ (Rank(given.type) < Rank(d) \/ (given.type = d /\ t = d /\ ~given.shadow))

TypeTo(r, d, i) == IF i = 0 THEN d ELSE r[i].type
ViewTo(r, i) == IF i = 0 THEN Same ELSE r[i].view

(* Whatever was assigned: x is narrowed only where no region around has an *)
(* assignment and no nested function assigns it, and only to less.         *)
StackFits(r, d, b) ==
  \A i \in 1..Len(r) :
    /\ Rank(r[i].type) < Rank(d) \/ (r[i].type = d /\ r[i].view = Same)
    /\ b = "nonlocal" \/ (\A j \in 1..i : r[j].assigns) => r[i].type = d /\ r[i].view = Same
    /\ PlanFits(r[i].after, d, TypeTo(r, d, i - 1))

(* Where no exception of the property was met: what is read is the value h *)
(* of x, of the type it is taken for, also behind the statements around.   *)
StackTrue(r, h, b) ==
  \A i \in 1..Len(r) :
    /\ r[i].view \in {Same, h} /\ h \in Instances(r[i].type)
    /\ b # "nonlocal" => h \in Instances(r[i].after.type)

NarrowTypes ==
  /\ declared \in LocalTypes /\ held \in Instances(declared)
  /\ regions \in Seq(RegionRecords)
  /\ chain.open \in BOOLEAN /\ (chain.open => PlanFits(chain.plan, declared, TypeIn(regions)) /\ chain.exits \in BOOLEAN)
  /\ rebinder \in {"later", "plain", "nonlocal"} /\ rebound \in BOOLEAN /\ reassigned \in BOOLEAN
  /\ StackFits(regions, declared, rebinder)

NarrowInv ==
  /\ NarrowTypes
  /\ ~rebound /\ ~reassigned =>
       /\ StackTrue(regions, held, rebinder)
       /\ chain.open /\ rebinder # "nonlocal" => held \in Instances(chain.plan.type)

(* The innermost region                                                    *)
LEMMA InnermostIs ==
  ASSUME NEW r \in Seq(RegionRecords)
  PROVE  /\ TypeIn(r) = TypeTo(r, declared, Len(r)) /\ ViewIn(r) = ViewTo(r, Len(r))
         /\ Len(r) \in Nat /\ (r = <<>> <=> Len(r) = 0)
         /\ \A i \in 1..Len(r) : r[i] \in RegionRecords
BY DEF TypeIn, ViewIn, TypeTo, ViewTo, Last

LEMMA TypeInFacts ==
  ASSUME NEW r \in Seq(RegionRecords), declared \in LocalTypes, held \in Instances(declared),
         StackFits(r, declared, rebinder)
  PROVE  /\ TypeIn(r) \in LocalTypes
         /\ Rank(TypeIn(r)) < Rank(declared) \/ (TypeIn(r) = declared /\ ViewIn(r) = Same)
         /\ rebinder = "nonlocal" \/ (\A j \in 1..Len(r) : r[j].assigns)
              => TypeIn(r) = declared /\ ViewIn(r) = Same
         /\ ViewIn(r) \in Instances("any") \cup {Same}
         /\ SeenIn(r) \in Instances("any")
         /\ StackTrue(r, held, rebinder) => SeenIn(r) = held /\ held \in Instances(TypeIn(r))
<1>1. /\ TypeIn(r) = TypeTo(r, declared, Len(r)) /\ ViewIn(r) = ViewTo(r, Len(r)) /\ Len(r) \in Nat
      /\ \A i \in 1..Len(r) : r[i] \in RegionRecords
  BY InnermostIs
<1>2. held \in Instances("any") /\ Same \notin Instances("any")
  BY TypesOf DEF Same
<1>3. CASE Len(r) = 0
  <2>1. TypeIn(r) = declared /\ ViewIn(r) = Same
    BY <1>1, <1>3 DEF TypeTo, ViewTo
  <2>2. SeenIn(r) = held
    BY <2>1 DEF SeenIn
  <2>3. QED BY <1>2, <2>1, <2>2
<1>4. CASE Len(r) # 0
  <2>1. Len(r) \in 1..Len(r)
    BY <1>1, <1>4
  <2>2. r[Len(r)] \in RegionRecords
    BY <1>1, <2>1
  <2>3. TypeIn(r) = r[Len(r)].type /\ ViewIn(r) = r[Len(r)].view
    BY <1>1, <1>4 DEF TypeTo, ViewTo
  <2>4. TypeIn(r) \in LocalTypes /\ ViewIn(r) \in Instances("any") \cup {Same}
    BY <2>2, <2>3 DEF RegionRecords
  <2>5. /\ Rank(TypeIn(r)) < Rank(declared) \/ (TypeIn(r) = declared /\ ViewIn(r) = Same)
        /\ rebinder = "nonlocal" \/ (\A j \in 1..Len(r) : r[j].assigns)
             => TypeIn(r) = declared /\ ViewIn(r) = Same
    BY <2>1, <2>3 DEF StackFits
  <2>6. SeenIn(r) \in Instances("any")
    BY <1>2, <2>4 DEF SeenIn
  <2>7. ASSUME StackTrue(r, held, rebinder) PROVE SeenIn(r) = held /\ held \in Instances(TypeIn(r))
    <3>1. ViewIn(r) \in {Same, held} /\ held \in Instances(TypeIn(r))
      BY <2>1, <2>3, <2>7 DEF StackTrue
    <3>2. QED BY <1>2, <3>1 DEF SeenIn
  <2>8. QED BY <2>4, <2>5, <2>6, <2>7
<1>5. QED BY <1>3, <1>4

LEMMA PlanKept ==
  ASSUME NEW r \in Seq(RegionRecords), declared \in LocalTypes, held \in Instances(declared),
         StackFits(r, declared, rebinder)
  PROVE  PlanFits(Unnarrowed(r), declared, TypeIn(r))
<1>1. /\ TypeIn(r) \in LocalTypes
      /\ Rank(TypeIn(r)) < Rank(declared) \/ TypeIn(r) = declared
  BY TypeInFacts
<1>2. Unnarrowed(r).type = TypeIn(r) /\ ~Unnarrowed(r).shadow /\ Unnarrowed(r) \in TypePlans
  BY <1>1 DEF Unnarrowed, TypePlans
<1>3. QED BY <1>1, <1>2 DEF PlanFits

LEMMA PlanExtended ==
  ASSUME NEW p, NEW d \in LocalTypes, NEW t, PlanFits(p, d, t), NEW facts, FactPair(facts)
  PROVE  PlanFits(Extend(p, facts), d, t)
<1>1. /\ Extend(p, facts) \in TypePlans /\ p \in TypePlans
      /\ Extend(p, facts) = p \/ Rank(Extend(p, facts).type) < Rank(p.type)
  BY ExtendFacts DEF PlanFits
<1>2. Rank(p.type) \in Int /\ Rank(Extend(p, facts).type) \in Int /\ Rank(d) \in Int
  BY <1>1, TypesOf DEF TypePlans
<1>3. QED BY <1>1, <1>2 DEF PlanFits

(* One more region, with a plan that fits and, where that is asked, is true *)
LEMMA RegionFits ==
  ASSUME NEW r \in Seq(RegionRecords), declared \in LocalTypes, held \in Instances(declared),
         StackFits(r, declared, rebinder), NEW kind \in Kinds, NEW assigns \in BOOLEAN, NEW exits \in BOOLEAN,
         NEW given, PlanFits(given, declared, TypeIn(r)), NEW after, PlanFits(after, declared, TypeIn(r))
  PROVE  /\ Append(r, Region(r, kind, given, assigns, exits, after)) \in Seq(RegionRecords)
         /\ StackFits(Append(r, Region(r, kind, given, assigns, exits, after)), declared, rebinder)
<1> DEFINE g == Region(r, kind, given, assigns, exits, after)
           q == Append(r, g)
           n == Len(r)
           blocked == assigns \/ rebinder = "nonlocal"
<1>1. /\ g.kind = kind /\ g.assigns = assigns /\ g.exits = exits /\ g.after = after
      /\ g.type = IF blocked THEN TypeIn(r) ELSE given.type
      /\ g.view = IF blocked \/ ~given.shadow THEN ViewIn(r) ELSE View(SeenIn(r), given.type)
      /\ g = [kind |-> g.kind, assigns |-> g.assigns, exits |-> g.exits, after |-> g.after,
              type |-> g.type, view |-> g.view]
  BY DEF Region
<1>2. /\ TypeIn(r) \in LocalTypes /\ ViewIn(r) \in Instances("any") \cup {Same} /\ SeenIn(r) \in Instances("any")
      /\ Rank(TypeIn(r)) < Rank(declared) \/ (TypeIn(r) = declared /\ ViewIn(r) = Same)
      /\ rebinder = "nonlocal" \/ (\A j \in 1..Len(r) : r[j].assigns)
           => TypeIn(r) = declared /\ ViewIn(r) = Same
  BY TypeInFacts
<1>3. given.type \in LocalTypes /\ after \in TypePlans
  BY DEF PlanFits, TypePlans
<1>4. View(SeenIn(r), given.type) \in Instances("any")
  BY <1>2, TypesOf DEF View
<1>5. g \in RegionRecords
  <2>1. g.type \in LocalTypes /\ g.view \in Instances("any") \cup {Same}
    BY <1>1, <1>2, <1>3, <1>4
  <2>2. QED BY <1>1, <1>3, <2>1 DEF RegionRecords
<1>6. /\ n \in Nat /\ Len(q) = n + 1 /\ q[n + 1] = g /\ n = Len(r)
      /\ \A i \in 1..n : q[i] = r[i]
  OBVIOUS
<1>7. q \in Seq(RegionRecords)
  BY <1>5
<1>8. /\ Rank(g.type) < Rank(declared) \/ (g.type = declared /\ g.view = Same)
      /\ rebinder = "nonlocal" \/ ((\A j \in 1..n : r[j].assigns) /\ g.assigns)
           => g.type = declared /\ g.view = Same
  <2>1. Rank(g.type) < Rank(declared) \/ (g.type = declared /\ g.view = Same)
    BY <1>1, <1>2 DEF PlanFits
  <2>2. QED BY <1>1, <1>2, <2>1
<1>9. TypeTo(q, declared, n) = TypeIn(r)
  BY <1>6, InnermostIs DEF TypeTo
<1> HIDE DEF g, q, n
<1>10. StackFits(q, declared, rebinder)
  <2>1. ASSUME NEW i \in 1..n
        PROVE  /\ Rank(q[i].type) < Rank(declared) \/ (q[i].type = declared /\ q[i].view = Same)
               /\ rebinder = "nonlocal" \/ (\A j \in 1..i : q[j].assigns) => q[i].type = declared /\ q[i].view = Same
               /\ PlanFits(q[i].after, declared, TypeTo(q, declared, i - 1))
    <3>1. \A j \in 1..i : j \in 1..n /\ q[j] = r[j]
      BY <1>6
    <3>2. q[i] = r[i] /\ TypeTo(q, declared, i - 1) = TypeTo(r, declared, i - 1)
      <4>1. i - 1 = 0 \/ i - 1 \in 1..n
        BY <1>6
      <4>2. QED BY <1>6, <4>1 DEF TypeTo
    <3>3. QED BY <1>6, <3>1, <3>2 DEF StackFits
  <2>2. /\ Rank(q[n + 1].type) < Rank(declared) \/ (q[n + 1].type = declared /\ q[n + 1].view = Same)
        /\ rebinder = "nonlocal" \/ (\A j \in 1..n + 1 : q[j].assigns)
             => q[n + 1].type = declared /\ q[n + 1].view = Same
        /\ PlanFits(q[n + 1].after, declared, TypeTo(q, declared, (n + 1) - 1))
    <3>1. (\A j \in 1..n + 1 : q[j].assigns) => (\A j \in 1..n : r[j].assigns) /\ g.assigns
      BY <1>6
    <3>2. (n + 1) - 1 = n
      BY <1>6
    <3>3. QED BY <1>1, <1>6, <1>8, <1>9, <3>1, <3>2
  <2>3. \A i \in 1..n + 1 : i \in 1..n \/ i = n + 1
    BY <1>6
  <2>4. QED BY <1>6, <2>1, <2>2, <2>3 DEF StackFits
<1>11. QED BY <1>7, <1>10 DEF q, g

LEMMA RegionTrue ==
  ASSUME NEW r \in Seq(RegionRecords), declared \in LocalTypes, held \in Instances(declared),
         StackFits(r, declared, rebinder), StackTrue(r, held, rebinder), NEW kind, NEW assigns, NEW exits,
         NEW given, NEW after,
         rebinder # "nonlocal" => held \in Instances(given.type) /\ held \in Instances(after.type)
  PROVE  StackTrue(Append(r, Region(r, kind, given, assigns, exits, after)), held, rebinder)
<1> DEFINE g == Region(r, kind, given, assigns, exits, after)
           q == Append(r, g)
           n == Len(r)
<1>1. SeenIn(r) = held /\ held \in Instances(TypeIn(r))
  BY TypeInFacts
<1>2. ViewIn(r) \in {Same, held}
  BY <1>1 DEF SeenIn
<1>3. /\ g.after = after
      /\ rebinder = "nonlocal" => g.type = TypeIn(r) /\ g.view = ViewIn(r)
      /\ g.type \in {TypeIn(r), given.type}
      /\ rebinder # "nonlocal" => g.view \in {ViewIn(r), View(SeenIn(r), given.type)}
  BY DEF Region
<1>4. rebinder # "nonlocal" => View(SeenIn(r), given.type) = held
  BY <1>1 DEF View
<1>5. /\ g.view \in {Same, held} /\ held \in Instances(g.type)
      /\ rebinder # "nonlocal" => held \in Instances(g.after.type)
  BY <1>1, <1>2, <1>3, <1>4
<1>6. /\ n \in Nat /\ Len(q) = n + 1 /\ q[n + 1] = g /\ n = Len(r)
      /\ \A i \in 1..n + 1 : i = n + 1 \/ (i \in 1..n /\ q[i] = r[i])
  OBVIOUS
<1> HIDE DEF g, q, n
<1>7. StackTrue(q, held, rebinder)
  BY <1>5, <1>6 DEF StackTrue
<1>8. QED BY <1>7 DEF q, g

(* The regions around the region k + 1                                     *)
LEMMA PrefixFits ==
  ASSUME NEW r \in Seq(RegionRecords), NEW k \in 0..Len(r), NEW d, NEW h, NEW b
  PROVE  /\ SubSeq(r, 1, k) \in Seq(RegionRecords)
         /\ StackFits(r, d, b) => StackFits(SubSeq(r, 1, k), d, b)
         /\ StackTrue(r, h, b) => StackTrue(SubSeq(r, 1, k), h, b)
<1> DEFINE q == SubSeq(r, 1, k)
<1>1. Len(r) \in Nat /\ k \in Nat /\ k <= Len(r)
  OBVIOUS
<1>2. q \in Seq(RegionRecords) /\ Len(q) = k /\ \A i \in 1..k : i \in 1..Len(r) /\ q[i] = r[i]
  BY <1>1
<1> HIDE DEF q
<1>3. \A i \in 1..k : TypeTo(q, d, i - 1) = TypeTo(r, d, i - 1)
  <2> SUFFICES ASSUME NEW i \in 1..k PROVE TypeTo(q, d, i - 1) = TypeTo(r, d, i - 1)
    OBVIOUS
  <2>1. i - 1 = 0 \/ i - 1 \in 1..k
    BY <1>1
  <2>2. QED BY <1>2, <2>1 DEF TypeTo
<1>4. \A i \in 1..k : \A j \in 1..i : j \in 1..k
  BY <1>1
<1>5. StackFits(r, d, b) => StackFits(q, d, b)
  BY <1>2, <1>3, <1>4 DEF StackFits
<1>6. StackTrue(r, h, b) => StackTrue(q, h, b)
  BY <1>2 DEF StackTrue
<1>7. QED BY <1>2, <1>5, <1>6 DEF q

(* What a step that leaves x alone must keep                               *)
LEMMA StackKept ==
  ASSUME NarrowInv, UNCHANGED <<declared, held, rebinder, rebound, reassigned>>,
         regions' \in Seq(RegionRecords), StackFits(regions', declared, rebinder), chain'.open \in BOOLEAN,
         chain'.open => /\ regions' = regions /\ PlanFits(chain'.plan, declared, TypeIn(regions))
                        /\ chain'.exits \in BOOLEAN,
         ~rebound /\ ~reassigned =>
           /\ StackTrue(regions', held, rebinder)
           /\ chain'.open /\ rebinder # "nonlocal" => held \in Instances(chain'.plan.type)
  PROVE  NarrowInv'
<1>1. NarrowTypes'
  <2>1. chain'.open => TypeIn(regions)' = TypeIn(regions)
    BY DEF TypeIn
  <2>2. QED BY <2>1 DEF NarrowInv, NarrowTypes
<1>2. QED BY <1>1 DEF NarrowInv

(* A region entered with a plan that fits and is true                      *)
LEMMA EnteredKept ==
  ASSUME NarrowInv, UNCHANGED <<declared, held, rebinder, rebound, reassigned>>, chain'.open = FALSE,
         NEW r \in Seq(RegionRecords), StackFits(r, declared, rebinder),
         ~rebound /\ ~reassigned => StackTrue(r, held, rebinder),
         NEW kind \in Kinds, NEW assigns \in BOOLEAN, NEW exits \in BOOLEAN,
         NEW given, PlanFits(given, declared, TypeIn(r)), NEW after, PlanFits(after, declared, TypeIn(r)),
         ~rebound /\ ~reassigned /\ rebinder # "nonlocal" =>
           held \in Instances(given.type) /\ held \in Instances(after.type),
         EnterRegion(r, Region(r, kind, given, assigns, exits, after))
  PROVE  NarrowInv'
<1> DEFINE q == Append(r, Region(r, kind, given, assigns, exits, after))
<1>1. regions' = q
  BY DEF EnterRegion
<1>2. declared \in LocalTypes /\ held \in Instances(declared)
  BY DEF NarrowInv, NarrowTypes
<1>3. q \in Seq(RegionRecords) /\ StackFits(q, declared, rebinder)
  BY <1>2, RegionFits
<1>4. ~rebound /\ ~reassigned => StackTrue(q, held, rebinder)
  BY <1>2, RegionTrue
<1> HIDE DEF q
<1>5. QED BY <1>1, <1>3, <1>4, StackKept

(* The type of x where no fact is added                                    *)
LEMMA UnnarrowedKnown ==
  ASSUME NarrowInv, NEW r \in Seq(RegionRecords), StackFits(r, declared, rebinder),
         ~rebound /\ ~reassigned => StackTrue(r, held, rebinder)
  PROVE  /\ PlanFits(Unnarrowed(r), declared, TypeIn(r))
         /\ ~rebound /\ ~reassigned => held \in Instances(Unnarrowed(r).type)
<1>1. declared \in LocalTypes /\ held \in Instances(declared)
  BY DEF NarrowInv, NarrowTypes
<1>2. PlanFits(Unnarrowed(r), declared, TypeIn(r))
  BY <1>1, PlanKept
<1>3. Unnarrowed(r).type = TypeIn(r)
  BY DEF Unnarrowed
<1>4. ~rebound /\ ~reassigned => held \in Instances(TypeIn(r))
  BY <1>1, TypeInFacts
<1>5. QED BY <1>2, <1>3, <1>4

(* What a condition that was met adds to a plan that fits and is true      *)
LEMMA FactsKnown ==
  ASSUME NarrowInv, NEW c \in Outcomes[SeenIn(regions)], NEW before,
         PlanFits(before, declared, TypeIn(regions)),
         ~rebound /\ ~reassigned /\ rebinder # "nonlocal" => held \in Instances(before.type)
  PROVE  /\ PlanFits(Extend(before, c.facts), declared, TypeIn(regions))
         /\ ~rebound /\ ~reassigned /\ rebinder # "nonlocal" => held \in Instances(Extend(before, c.facts).type)
<1>1. /\ declared \in LocalTypes /\ held \in Instances(declared) /\ regions \in Seq(RegionRecords)
      /\ StackFits(regions, declared, rebinder)
      /\ ~rebound /\ ~reassigned => StackTrue(regions, held, rebinder)
  BY DEF NarrowInv, NarrowTypes
<1>2. SeenIn(regions) \in Instances("any") /\ (~rebound /\ ~reassigned => SeenIn(regions) = held)
  BY <1>1, TypeInFacts
<1>3. FactPair(c.facts) /\ BothTrue(c.facts, SeenIn(regions))
  BY <1>2, OutcomeFacts
<1>4. PlanFits(Extend(before, c.facts), declared, TypeIn(regions))
  BY <1>1, <1>3, PlanExtended
<1>5. before \in TypePlans
  BY DEF PlanFits
<1>6. \A v : v \in Instances(before.type) /\ BothTrue(c.facts, v) => v \in Instances(Extend(before, c.facts).type)
  BY <1>3, <1>5, ExtendFacts
<1>7. QED BY <1>2, <1>3, <1>4, <1>6

LEMMA BranchKept ==
  ASSUME NarrowInv, UNCHANGED <<declared, held, rebinder, rebound, reassigned>>,
         NEW c \in Outcomes[SeenIn(regions)], NEW before, PlanFits(before, declared, TypeIn(regions)),
         ~rebound /\ ~reassigned /\ rebinder # "nonlocal" => held \in Instances(before.type),
         NEW exits \in BOOLEAN, NEW assigns \in BOOLEAN, Branch(c, before, exits, assigns)
  PROVE  NarrowInv'
<1> DEFINE given == Extend(before, c.facts)
<1>1. /\ regions \in Seq(RegionRecords) /\ StackFits(regions, declared, rebinder)
      /\ ~rebound /\ ~reassigned => StackTrue(regions, held, rebinder)
  BY DEF NarrowInv, NarrowTypes
<1>2. /\ PlanFits(given, declared, TypeIn(regions))
      /\ ~rebound /\ ~reassigned /\ rebinder # "nonlocal" => held \in Instances(given.type)
  BY FactsKnown
<1>3. /\ PlanFits(Unnarrowed(regions), declared, TypeIn(regions))
      /\ ~rebound /\ ~reassigned => held \in Instances(Unnarrowed(regions).type)
  BY <1>1, UnnarrowedKnown
<1>4. CASE c.truth
  <2>1. /\ EnterRegion(regions, Region(regions, "branch", given, assigns, exits, Unnarrowed(regions)))
        /\ chain'.open = FALSE
    BY <1>4 DEF Branch, NoChain
  <2>2. "branch" \in Kinds
    BY DEF Kinds
  <2> HIDE DEF given
  <2>3. QED BY <1>1, <1>2, <1>3, <2>1, <2>2, EnteredKept
<1>5. CASE ~c.truth
  <2>1. chain' = [open |-> TRUE, plan |-> given, exits |-> exits] /\ regions' = regions
    BY <1>5 DEF Branch
  <2> HIDE DEF given
  <2>2. chain'.open = TRUE /\ chain'.plan = given /\ chain'.exits = exits
    BY <2>1
  <2>3. QED BY <1>1, <1>2, <2>1, <2>2, StackKept
<1>6. QED BY <1>4, <1>5

(* Behind a statement, with a plan for the rest of its block               *)
LEMMA RestKept ==
  ASSUME NarrowInv, UNCHANGED <<declared, held, rebinder, rebound, reassigned>>, chain'.open = FALSE,
         NEW r \in Seq(RegionRecords), StackFits(r, declared, rebinder),
         ~rebound /\ ~reassigned => StackTrue(r, held, rebinder),
         NEW given, PlanFits(given, declared, TypeIn(r)),
         ~rebound /\ ~reassigned /\ rebinder # "nonlocal" => held \in Instances(given.type),
         NEW assigns \in BOOLEAN, Rest(r, given, assigns)
  PROVE  NarrowInv'
<1>1. /\ PlanFits(Unnarrowed(r), declared, TypeIn(r))
      /\ ~rebound /\ ~reassigned => held \in Instances(Unnarrowed(r).type)
  BY UnnarrowedKnown
<1>2. CASE given = Unnarrowed(r)
  <2>1. regions' = r
    BY <1>2 DEF Rest
  <2>2. QED BY <2>1, StackKept
<1>3. CASE given # Unnarrowed(r)
  <2>1. EnterRegion(r, Region(r, "rest", given, assigns, FALSE, Unnarrowed(r)))
    BY <1>3 DEF Rest
  <2>2. "rest" \in Kinds /\ FALSE \in BOOLEAN
    BY DEF Kinds
  <2>3. QED BY <1>1, <2>1, <2>2, EnteredKept
<1>4. QED BY <1>2, <1>3

(* Where x is nowhere taken for more than declared, reads go to x itself.  *)
LEMMA DeclaredEverywhere ==
  ASSUME NarrowInv, NEW v \in Instances(declared), ~Narrowed \/ rebinder = "nonlocal"
  PROVE  StackTrue(regions, v, rebinder) /\ (rebinder # "nonlocal" => ~chain.open)
<1>1. /\ declared \in LocalTypes /\ regions \in Seq(RegionRecords)
      /\ StackFits(regions, declared, rebinder)
  BY DEF NarrowInv, NarrowTypes
<1>2. DOMAIN regions = 1..Len(regions) /\ Rank(declared) \in 0..3
  BY <1>1, TypesOf
<1>3. ASSUME NEW i \in 1..Len(regions)
      PROVE  /\ regions[i].type = declared /\ regions[i].view = Same
             /\ rebinder # "nonlocal" => regions[i].after.type = declared
  <2>1. CASE rebinder = "nonlocal"
    BY <1>1, <2>1 DEF StackFits
  <2>2. CASE rebinder # "nonlocal"
    <3>1. {regions[i].type, regions[i].after.type} = {declared}
      BY <1>2, <2>2 DEF Narrowed
    <3>2. regions[i].type = declared /\ regions[i].after.type = declared
      BY <3>1
    <3>3. ~(Rank(regions[i].type) < Rank(declared))
      BY <1>2, <3>2
    <3>4. regions[i].view = Same
      BY <1>1, <3>3 DEF StackFits
    <3>5. QED BY <3>2, <3>4
  <2>3. QED BY <2>1, <2>2
<1>4. StackTrue(regions, v, rebinder)
  BY <1>3 DEF StackTrue
<1>5. QED BY <1>4 DEF Narrowed

LEMMA NarrowInitially == NarrowInit => NarrowInv
<1> SUFFICES ASSUME NarrowInit PROVE NarrowInv
  OBVIOUS
<1>1. declared \in LocalTypes /\ held \in Instances(declared) /\ chain.open = FALSE
  BY DEF NarrowInit, LocalTypes, NoChain
<1>2. regions \in Seq(RegionRecords) /\ 1..Len(regions) = {}
  BY DEF NarrowInit
<1>3. StackFits(regions, declared, rebinder) /\ StackTrue(regions, held, rebinder)
  BY <1>2 DEF StackFits, StackTrue
<1>4. QED BY <1>1, <1>2, <1>3 DEF NarrowInit, NarrowInv, NarrowTypes

LEMMA NarrowStep == NarrowInv /\ [NarrowNext]_narrowVars => NarrowInv'
<1> SUFFICES ASSUME NarrowInv, [NarrowNext]_narrowVars PROVE NarrowInv'
  OBVIOUS
<1>1. /\ declared \in LocalTypes /\ held \in Instances(declared) /\ regions \in Seq(RegionRecords)
      /\ StackFits(regions, declared, rebinder) /\ chain.open \in BOOLEAN
      /\ ~rebound /\ ~reassigned => StackTrue(regions, held, rebinder)
  BY DEF NarrowInv, NarrowTypes
<1>2. /\ PlanFits(Unnarrowed(regions), declared, TypeIn(regions))
      /\ ~rebound /\ ~reassigned => held \in Instances(Unnarrowed(regions).type)
  BY <1>1, UnnarrowedKnown
<1>3. chain.open => /\ PlanFits(chain.plan, declared, TypeIn(regions)) /\ chain.exits \in BOOLEAN
                    /\ ~rebound /\ ~reassigned /\ rebinder # "nonlocal" => held \in Instances(chain.plan.type)
  BY DEF NarrowInv, NarrowTypes
<1>4. chain.open => /\ PlanFits(AfterIf, declared, TypeIn(regions))
                    /\ ~rebound /\ ~reassigned /\ rebinder # "nonlocal" => held \in Instances(AfterIf.type)
  BY <1>2, <1>3 DEF AfterIf
<1>5. Kinds = {"branch", "rest", "loop", "operand"} /\ FALSE \in BOOLEAN /\ NoChain.open = FALSE
  BY DEF Kinds, NoChain
<1>6. \A assigns \in {MayAssign, FALSE} : assigns \in BOOLEAN
  BY DEF MayAssign
<1>7. ASSUME NEW c \in Outcomes[SeenIn(regions)], NEW assigns \in BOOLEAN, NEW exits \in BOOLEAN,
             If(c, exits, assigns)
      PROVE  NarrowInv'
  <2>1. /\ Branch(c, Unnarrowed(regions), exits, assigns)
        /\ UNCHANGED <<declared, held, rebinder, rebound, reassigned>>
    BY <1>7 DEF If
  <2>2. QED BY <1>2, <2>1, BranchKept
<1>8. ASSUME NEW c \in Outcomes[SeenIn(regions)], NEW assigns \in BOOLEAN, Elif(c, assigns)
      PROVE  NarrowInv'
  <2>1. /\ chain.open /\ Branch(c, chain.plan, chain.exits, assigns)
        /\ UNCHANGED <<declared, held, rebinder, rebound, reassigned>>
    BY <1>8 DEF Elif
  <2>2. QED BY <1>3, <2>1, BranchKept
<1>9. ASSUME NEW c \in Outcomes[SeenIn(regions)]
      PROVE  /\ PlanFits(Extend(Unnarrowed(regions), c.facts), declared, TypeIn(regions))
             /\ ~rebound /\ ~reassigned /\ rebinder # "nonlocal" =>
                  held \in Instances(Extend(Unnarrowed(regions), c.facts).type)
  BY <1>2, FactsKnown
<1>10. ASSUME NEW c \in Outcomes[SeenIn(regions)], NEW assigns \in BOOLEAN, While(c, assigns)
       PROVE  NarrowInv'
  <2> DEFINE given == Extend(Unnarrowed(regions), c.facts)
  <2>1. /\ EnterRegion(regions, Region(regions, "loop", given, assigns, FALSE, Unnarrowed(regions)))
        /\ UNCHANGED <<declared, held, chain, rebinder, rebound, reassigned>> /\ ~chain.open
    BY <1>10 DEF While, InBlock
  <2>2. /\ PlanFits(given, declared, TypeIn(regions))
        /\ ~rebound /\ ~reassigned /\ rebinder # "nonlocal" => held \in Instances(given.type)
    BY <1>9
  <2>3. chain'.open = FALSE
    BY <1>1, <2>1
  <2> HIDE DEF given
  <2>4. QED BY <1>1, <1>2, <1>5, <2>1, <2>2, <2>3, EnteredKept
<1>11. ASSUME NEW c \in Outcomes[SeenIn(regions)], Operand(c)
       PROVE  NarrowInv'
  <2> DEFINE given == Extend(Unnarrowed(regions), c.facts)
  <2>1. /\ EnterRegion(regions, Region(regions, "operand", given, FALSE, FALSE, Unnarrowed(regions)))
        /\ UNCHANGED <<declared, held, chain, rebinder, rebound, reassigned>> /\ ~chain.open
    BY <1>11 DEF Operand
  <2>2. /\ PlanFits(given, declared, TypeIn(regions))
        /\ ~rebound /\ ~reassigned /\ rebinder # "nonlocal" => held \in Instances(given.type)
    BY <1>9
  <2>3. chain'.open = FALSE
    BY <1>1, <2>1
  <2> HIDE DEF given
  <2>4. QED BY <1>1, <1>2, <1>5, <2>1, <2>2, <2>3, EnteredKept
<1>12. ASSUME NEW assigns \in BOOLEAN, NoElse(assigns)
       PROVE  NarrowInv'
  <2>1. /\ chain.open /\ Rest(regions, AfterIf, assigns) /\ chain'.open = FALSE
        /\ UNCHANGED <<declared, held, rebinder, rebound, reassigned>>
    BY <1>5, <1>12 DEF NoElse
  <2>2. QED BY <1>1, <1>4, <2>1, RestKept
<1>13. ASSUME NEW assigns \in BOOLEAN, NEW exits \in BOOLEAN, Else(exits, assigns)
       PROVE  NarrowInv'
  <2>1. /\ chain.open /\ EnterRegion(regions, Region(regions, "branch", chain.plan, assigns, exits, AfterIf))
        /\ chain'.open = FALSE /\ UNCHANGED <<declared, held, rebinder, rebound, reassigned>>
    BY <1>5, <1>13 DEF Else
  <2>2. QED BY <1>1, <1>3, <1>4, <1>5, <2>1, EnteredKept
<1>14. ASSUME NEW assigns \in BOOLEAN, EndBlock(assigns)
       PROVE  NarrowInv'
  <2>1. ~chain.open /\ UNCHANGED <<declared, held, chain, rebinder, rebound, reassigned>>
    BY <1>14 DEF EndBlock
  <2>2. PICK i \in 1..Len(regions) : Rest(SubSeq(regions, 1, i - 1), regions[i].after, assigns)
    BY <1>1, <1>14 DEF EndBlock, Blocks
  <2> DEFINE around == SubSeq(regions, 1, i - 1)
  <2>3. i - 1 \in 0..Len(regions) /\ Len(around) = i - 1
    BY <1>1
  <2>4. /\ around \in Seq(RegionRecords) /\ StackFits(around, declared, rebinder)
        /\ ~rebound /\ ~reassigned => StackTrue(around, held, rebinder)
    BY <1>1, <2>3, PrefixFits
  <2>5. TypeIn(around) = TypeTo(regions, declared, i - 1)
    <3>1. TypeIn(around) = TypeTo(around, declared, i - 1)
      BY <2>3, <2>4, InnermostIs
    <3>2. i - 1 # 0 => around[i - 1] = regions[i - 1]
      BY <1>1
    <3>3. QED BY <3>1, <3>2 DEF TypeTo
  <2>6. PlanFits(regions[i].after, declared, TypeIn(around))
    BY <1>1, <2>5 DEF StackFits
  <2>7. ~rebound /\ ~reassigned /\ rebinder # "nonlocal" => held \in Instances(regions[i].after.type)
    BY <1>1 DEF StackTrue
  <2>8. chain'.open = FALSE
    BY <1>1, <2>1
  <2> HIDE DEF around
  <2>9. Rest(around, regions[i].after, assigns)
    BY <2>2 DEF around
  <2>10. QED BY <2>1, <2>4, <2>6, <2>7, <2>8, <2>9, RestKept
<1>15. ASSUME LeaveLoop
       PROVE  NarrowInv'
  <2>1. ~chain.open /\ UNCHANGED <<declared, held, chain, rebinder, rebound, reassigned>>
    BY <1>15 DEF LeaveLoop, InBlock
  <2>2. PICK i \in 1..Len(regions) : regions' = SubSeq(regions, 1, i - 1)
    BY <1>1, <1>15 DEF LeaveLoop
  <2>3. i - 1 \in 0..Len(regions)
    BY <1>1
  <2>4. /\ regions' \in Seq(RegionRecords) /\ StackFits(regions', declared, rebinder)
        /\ ~rebound /\ ~reassigned => StackTrue(regions', held, rebinder)
    BY <1>1, <2>2, <2>3, PrefixFits
  <2>5. chain'.open = FALSE
    BY <1>1, <2>1
  <2>6. QED BY <2>1, <2>4, <2>5, StackKept
<1>16. ASSUME NEW v \in Instances("any"), AssignLocal(v)
       PROVE  NarrowInv'
  <2>1. /\ v \in Instances(declared) /\ held' = v /\ ~chain.open
        /\ reassigned' = (reassigned \/ Narrowed) /\ UNCHANGED <<declared, regions, chain, rebinder, rebound>>
    BY <1>16 DEF AssignLocal, InBlock
  <2>2. NarrowTypes'
    <3>1. reassigned' \in BOOLEAN
      BY <2>1 DEF NarrowInv, NarrowTypes, Narrowed
    <3>2. QED BY <2>1, <3>1 DEF NarrowInv, NarrowTypes, TypeIn
  <2>3. ASSUME ~reassigned' PROVE StackTrue(regions', held', rebinder')
    <3>1. ~Narrowed
      BY <2>1, <2>3
    <3>2. QED BY <2>1, <3>1, DeclaredEverywhere
  <2>4. QED BY <2>1, <2>2, <2>3 DEF NarrowInv
<1>17. ASSUME NEW v \in Instances("any"), CallRebinder(v)
       PROVE  NarrowInv'
  <2>1. /\ v \in Instances(declared) /\ held' = v /\ rebinder # "later"
        /\ rebound' = (rebound \/ (rebinder = "plain" /\ Narrowed))
        /\ UNCHANGED <<declared, regions, chain, rebinder, reassigned>>
    BY <1>17 DEF CallRebinder
  <2>2. NarrowTypes'
    <3>1. rebound' \in BOOLEAN
      BY <2>1 DEF NarrowInv, NarrowTypes, Narrowed
    <3>2. QED BY <2>1, <3>1 DEF NarrowInv, NarrowTypes, TypeIn
  <2>3. ASSUME ~rebound'
        PROVE  StackTrue(regions', held', rebinder') /\ (rebinder # "nonlocal" => ~chain.open)
    <3>1. ~Narrowed \/ rebinder = "nonlocal"
      BY <2>1, <2>3 DEF NarrowInv, NarrowTypes
    <3>2. QED BY <2>1, <3>1, DeclaredEverywhere
  <2>4. QED BY <2>1, <2>2, <2>3 DEF NarrowInv
<1>18. ASSUME DefineRebinder
       PROVE  NarrowInv'
  <2>1. /\ rebinder = "later" /\ rebinder' = "plain" /\ ~chain.open
        /\ UNCHANGED <<declared, held, regions, chain, rebound, reassigned>>
    BY <1>18 DEF DefineRebinder, InBlock
  <2>2. StackFits(regions, declared, rebinder')
    BY <1>1, <2>1 DEF StackFits
  <2>3. StackTrue(regions, held, rebinder) => StackTrue(regions, held, rebinder')
    BY <2>1 DEF StackTrue
  <2>4. NarrowTypes'
    BY <2>1, <2>2 DEF NarrowInv, NarrowTypes, TypeIn
  <2>5. QED BY <1>1, <2>1, <2>3, <2>4 DEF NarrowInv
<1>19. CASE UNCHANGED narrowVars
  BY <1>19 DEF narrowVars, NarrowInv, NarrowTypes, TypeIn
<1>20. CASE NarrowNext
  BY <1>6, <1>7, <1>8, <1>10, <1>11, <1>12, <1>13, <1>14, <1>15, <1>16, <1>17, <1>18, <1>20 DEF NarrowNext
<1>21. QED BY <1>19, <1>20

(* NarrowedHolds: where x is read, what Go reads is the value of x, and it *)
(* is of the type the checker takes x for.                                 *)
THEOREM NarrowedHoldsHolds == NarrowSpec => []NarrowedHolds
<1>1. NarrowInv => NarrowedHolds
  <2> SUFFICES ASSUME NarrowInv, ~rebound, ~reassigned
               PROVE  SeenIn(regions) = held /\ held \in Instances(TypeIn(regions))
    BY DEF NarrowedHolds
  <2>1. /\ declared \in LocalTypes /\ held \in Instances(declared) /\ regions \in Seq(RegionRecords)
        /\ StackFits(regions, declared, rebinder) /\ StackTrue(regions, held, rebinder)
    BY DEF NarrowInv, NarrowTypes
  <2>2. QED BY <2>1, TypeInFacts
<1>2. QED BY <1>1, NarrowInitially, NarrowStep, PTL DEF NarrowSpec

(* ------------------------- views of one object --------------------------- *)

(* The parents of a class come before it in h, as they do in the program.  *)
Ordered(h) == \A c \in Classes : BasesIn(h, c) \subseteq 1..(c - 1)

(* The recursive definition of a class and its ancestors conforms to its   *)
(* equation: by induction, there is such a function for the classes 1..n.  *)
LEMMA UpEquation ==
  ASSUME NEW h, Ordered(h)
  PROVE  /\ DOMAIN UpIn(h) = Classes
         /\ \A c \in Classes : UpIn(h)[c] = {c} \cup UNION {UpIn(h)[b] : b \in BasesIn(h, c)}
<1> DEFINE Within(g, n) == g = [c \in 1..n |-> {c} \cup UNION {g[b] : b \in BasesIn(h, c)}]
           Bad == {n \in Nat : n <= Depths /\ ~ \E g : Within(g, n)}
<1>1. Bad = {}
  <2> SUFFICES ASSUME Bad # {} PROVE FALSE
    OBVIOUS
  <2>1. PICK n \in Bad : \A k \in Bad : n <= k
    <3>1. Bad \subseteq Nat
      OBVIOUS
    <3> HIDE DEF Bad
    <3>2. QED BY <3>1, LeastExists
  <2>2. n \in Nat /\ n <= Depths /\ ~ \E g : Within(g, n)
    OBVIOUS
  <2>3. n # 0
    <3>1. Within(<<>>, 0)
      OBVIOUS
    <3>2. QED BY <2>2, <3>1
  <2>4. n - 1 \in Nat /\ n - 1 <= Depths /\ n - 1 \notin Bad
    <3>1. n - 1 \in Nat /\ n - 1 <= Depths /\ ~(n <= n - 1)
      BY <2>2, <2>3, DepthsAssumption
    <3> HIDE DEF Bad
    <3>2. QED BY <2>1, <3>1
  <2>5. PICK g : Within(g, n - 1)
    BY <2>4
  <2> DEFINE f == [c \in 1..n |-> IF c = n THEN {n} \cup UNION {g[b] : b \in BasesIn(h, n)} ELSE g[c]]
  <2>6. \A c \in 1..n : BasesIn(h, c) \subseteq 1..(n - 1) /\ \A b \in BasesIn(h, c) : f[b] = g[b]
    <3> SUFFICES ASSUME NEW c \in 1..n
                 PROVE  BasesIn(h, c) \subseteq 1..(n - 1) /\ \A b \in BasesIn(h, c) : f[b] = g[b]
      OBVIOUS
    <3>1. c \in Classes /\ BasesIn(h, c) \subseteq 1..(c - 1)
      BY <2>2, DepthsAssumption DEF Classes, Ordered
    <3>2. \A b \in 1..(c - 1) : b \in 1..(n - 1) /\ b \in 1..n /\ b # n
      BY <2>2
    <3>3. \A b \in BasesIn(h, c) : f[b] = g[b]
      BY <3>1, <3>2
    <3>4. QED BY <3>1, <3>2, <3>3
  <2>7. \A c \in 1..n : f[c] = {c} \cup UNION {f[b] : b \in BasesIn(h, c)}
    <3> SUFFICES ASSUME NEW c \in 1..n PROVE f[c] = {c} \cup UNION {f[b] : b \in BasesIn(h, c)}
      OBVIOUS
    <3>1. {f[b] : b \in BasesIn(h, c)} = {g[b] : b \in BasesIn(h, c)}
      BY <2>6
    <3>2. f[c] = {c} \cup UNION {g[b] : b \in BasesIn(h, c)}
      <4>1. CASE c = n
        BY <4>1
      <4>2. CASE c # n
        <5>1. c \in 1..(n - 1)
          BY <2>2, <4>2
        <5>2. QED BY <2>5, <4>2, <5>1
      <4>3. QED BY <4>1, <4>2
    <3> HIDE DEF f
    <3>3. QED BY <3>1, <3>2
  <2>8. DOMAIN f = 1..n /\ f = [c \in 1..n |-> f[c]]
    OBVIOUS
  <2> HIDE DEF f
  <2>9. Within(f, n)
    BY <2>7, <2>8
  <2>10. QED BY <2>2, <2>9
<1>2. PICK g : Within(g, Depths)
  <2>1. Depths \in Nat /\ Depths <= Depths
    BY DepthsAssumption
  <2> HIDE DEF Within
  <2>2. QED BY <1>1, <2>1
<1> DEFINE Conforms(f) == f = [c \in Classes |-> {c} \cup UNION {f[b] : b \in BasesIn(h, c)}]
<1>3. UpIn(h) = CHOOSE f : Conforms(f)
  BY DEF UpIn
<1>4. UpIn(h) = [c \in Classes |-> {c} \cup UNION {UpIn(h)[b] : b \in BasesIn(h, c)}]
  <2>1. \E f : Conforms(f)
    BY <1>2 DEF Classes
  <2> HIDE DEF Conforms
  <2>2. Conforms(UpIn(h))
    BY <1>3, <2>1
  <2>3. QED BY <2>2 DEF Conforms
<1>5. QED BY <1>4

(* What lies above a class                                                 *)
LEMMA UpFacts ==
  ASSUME NEW h, Ordered(h)
  PROVE  \A c \in Classes :
           /\ c \in UpIn(h)[c] /\ UpIn(h)[c] \subseteq 1..c
           /\ \A b \in BasesIn(h, c) : b \in Classes /\ UpIn(h)[b] \subseteq UpIn(h)[c] /\ c \notin UpIn(h)[b]
           /\ \A a \in UpIn(h)[c] : a = c \/ \E b \in BasesIn(h, c) : a \in UpIn(h)[b]
           /\ \A a \in UpIn(h)[c] : UpIn(h)[a] \subseteq UpIn(h)[c]
<1> DEFINE up == UpIn(h)
           Good(c) == /\ c \in up[c] /\ up[c] \subseteq 1..c
                      /\ \A b \in BasesIn(h, c) : b \in Classes /\ up[b] \subseteq up[c] /\ c \notin up[b]
                      /\ \A a \in up[c] : a = c \/ \E b \in BasesIn(h, c) : a \in up[b]
                      /\ \A a \in up[c] : up[a] \subseteq up[c]
           Bad == {c \in Classes : ~Good(c)}
<1>1. \A c \in Classes : up[c] = {c} \cup UNION {up[b] : b \in BasesIn(h, c)}
  BY UpEquation
<1>2. \A c \in Classes : c \in Nat /\ \A b \in 1..(c - 1) : b \in Classes /\ b < c
  BY DepthsAssumption DEF Classes
<1> HIDE DEF up
<1>3. ASSUME NEW c \in Classes, \A b \in BasesIn(h, c) : Good(b) PROVE Good(c)
  <2>1. \A b \in BasesIn(h, c) : b \in Classes /\ b < c
    BY <1>2 DEF Ordered
  <2>2. c \in up[c] /\ \A b \in BasesIn(h, c) : up[b] \subseteq up[c]
    BY <1>1
  <2>3. \A a \in up[c] : a = c \/ \E b \in BasesIn(h, c) : a \in up[b]
    BY <1>1
  <2>4. ASSUME NEW b \in BasesIn(h, c) PROVE up[b] \subseteq 1..b /\ \A a \in up[b] : up[a] \subseteq up[b]
    BY <1>3
  <2>5. ASSUME NEW b \in BasesIn(h, c) PROVE up[b] \subseteq 1..c /\ c \notin up[b]
    <3>1. \A a \in 1..b : a \in 1..c /\ a # c
      BY <1>2, <2>1
    <3>2. QED BY <2>4, <3>1
  <2>6. up[c] \subseteq 1..c
    <3>1. c \in 1..c
      BY <1>2 DEF Classes
    <3>2. QED BY <2>3, <2>5, <3>1
  <2>7. ASSUME NEW a \in up[c] PROVE up[a] \subseteq up[c]
    BY <2>2, <2>3, <2>4
  <2>8. QED BY <2>1, <2>2, <2>3, <2>5, <2>6, <2>7
<1>4. Bad = {}
  <2> SUFFICES ASSUME Bad # {} PROVE FALSE
    OBVIOUS
  <2>1. Bad \subseteq Nat
    BY <1>2
  <2>2. PICK c \in Bad : \A k \in Bad : c <= k
    <3> HIDE DEF Bad
    <3>1. QED BY <2>1, LeastExists
  <2>3. c \in Classes /\ ~Good(c)
    OBVIOUS
  <2>4. ASSUME NEW b \in BasesIn(h, c) PROVE Good(b)
    <3>1. b \in Classes /\ b < c /\ b \in Nat /\ c \in Nat
      BY <1>2, <2>3 DEF Ordered
    <3>2. b \notin Bad
      <4> HIDE DEF Bad
      <4>1. QED BY <2>2, <3>1
    <3>3. QED BY <3>1, <3>2
  <2> HIDE DEF Good, Bad
  <2>5. QED BY <1>3, <2>3, <2>4
<1>5. QED BY <1>4 DEF up

(* Without diamonds, two classes on the way to a third from one object are *)
(* on one path.                                                            *)
LEMMA OnePath ==
  ASSUME NEW h, Ordered(h), NoDiamond(h)
  PROVE  \A c \in Classes : \A x, y \in UpIn(h)[c] :
           UpIn(h)[x] \cap UpIn(h)[y] # {} => x \in UpIn(h)[y] \/ y \in UpIn(h)[x]
<1> DEFINE up == UpIn(h)
           Good(c) == \A x, y \in up[c] : up[x] \cap up[y] # {} => x \in up[y] \/ y \in up[x]
           Bad == {c \in Classes : ~Good(c)}
<1>1. \A c \in Classes :
        /\ c \in Nat
        /\ \A b \in BasesIn(h, c) : b \in Classes /\ b < c
        /\ \A a \in up[c] : a = c \/ \E b \in BasesIn(h, c) : a \in up[b]
        /\ \A b \in BasesIn(h, c) : \A a \in up[b] : up[a] \subseteq up[b]
  <2>1. \A c \in Classes : c \in Nat /\ \A b \in 1..(c - 1) : b \in Classes /\ b < c
    BY DepthsAssumption DEF Classes
  <2>2. QED BY <2>1, UpFacts DEF Ordered
<1>2. \A c \in Classes : \A p, q \in BasesIn(h, c) : up[p] \cap up[q] # {} => p = q
  BY DEF NoDiamond, BasesIn
<1> HIDE DEF up
<1>3. ASSUME NEW c \in Classes, \A b \in BasesIn(h, c) : Good(b) PROVE Good(c)
  <2> SUFFICES ASSUME NEW x \in up[c], NEW y \in up[c], NEW a \in up[x] \cap up[y]
               PROVE  x \in up[y] \/ y \in up[x]
    OBVIOUS
  <2>1. CASE x = c \/ y = c
    BY <2>1
  <2>2. CASE x # c /\ y # c
    <3>1. PICK p \in BasesIn(h, c) : x \in up[p]
      BY <1>1, <2>2
    <3>2. PICK q \in BasesIn(h, c) : y \in up[q]
      BY <1>1, <2>2
    <3>3. a \in up[p] /\ a \in up[q]
      BY <1>1, <3>1, <3>2
    <3>4. p = q
      BY <1>2, <3>3
    <3>5. QED BY <1>3, <3>1, <3>2, <3>4
  <2>3. QED BY <2>1, <2>2
<1>4. Bad = {}
  <2> SUFFICES ASSUME Bad # {} PROVE FALSE
    OBVIOUS
  <2>1. Bad \subseteq Nat
    BY <1>1
  <2>2. PICK c \in Bad : \A k \in Bad : c <= k
    <3> HIDE DEF Bad
    <3>1. QED BY <2>1, LeastExists
  <2>3. c \in Classes /\ ~Good(c)
    OBVIOUS
  <2>4. ASSUME NEW b \in BasesIn(h, c) PROVE Good(b)
    <3>1. b \in Classes /\ b < c /\ b \in Nat /\ c \in Nat
      BY <1>1, <2>3
    <3>2. b \notin Bad
      <4> HIDE DEF Bad
      <4>1. QED BY <2>2, <3>1
    <3>3. QED BY <3>1, <3>2
  <2> HIDE DEF Good, Bad
  <2>5. QED BY <1>3, <2>3, <2>4
<1>5. QED BY <1>4 DEF up

(* What the state says of the hierarchy                                    *)
ClassTypes == bases \in Hierarchies /\ defines \in [Classes -> SUBSET Methods] /\ inits \in SUBSET Classes

LEMMA HierarchyFacts ==
  ASSUME ClassTypes
  PROVE  /\ Ordered(bases) /\ NoDiamond(bases)
         /\ Classes \subseteq Nat /\ Nil \notin Classes /\ Unbound \notin Classes
         /\ \A c \in Classes :
              /\ c \in Up(c) /\ Up(c) \subseteq Classes /\ IsFiniteSet(Up(c)) /\ Up(c) \subseteq 1..c
              /\ \A b \in BasesOf(c) : b \in Classes /\ b \in Up(c) /\ Up(b) \subseteq Up(c) /\ c \notin Up(b)
              /\ \A a \in Up(c) : a = c \/ \E b \in BasesOf(c) : a \in Up(b)
              /\ \A a \in Up(c) : Up(a) \subseteq Up(c) /\ (c \in Up(a) => a = c)
<1>1. Ordered(bases)
  <2> SUFFICES ASSUME NEW c \in Classes, NEW b \in BasesIn(bases, c) PROVE b \in 1..(c - 1)
    BY DEF Ordered
  <2>1. PICK i \in DOMAIN bases[c] : b = bases[c][i]
    BY DEF BasesIn
  <2>2. b < c
    BY <2>1 DEF ClassTypes, Hierarchies
  <2>3. bases[c] \in {<<>>} \cup {<<k>> : k \in Classes} \cup (Classes \X Classes)
    BY DEF ClassTypes, Hierarchies
  <2>4. b \in Classes
    <3>1. CASE bases[c] = <<>>
      BY <2>1, <3>1
    <3>2. CASE bases[c] \in {<<k>> : k \in Classes}
      BY <2>1, <3>2
    <3>3. CASE bases[c] \in Classes \X Classes
      BY <2>1, <3>3
    <3>4. QED BY <2>3, <3>1, <3>2, <3>3
  <2>5. QED BY <2>2, <2>4, DepthsAssumption DEF Classes
<1>2. NoDiamond(bases)
  BY DEF ClassTypes, Hierarchies
<1>3. Classes \subseteq Nat /\ Nil \notin Classes /\ Unbound \notin Classes
  BY DepthsAssumption DEF Classes, Nil, Unbound
<1>4. ASSUME NEW c \in Classes
      PROVE  /\ c \in Up(c) /\ Up(c) \subseteq Classes /\ IsFiniteSet(Up(c)) /\ Up(c) \subseteq 1..c
             /\ \A b \in BasesOf(c) : b \in Classes /\ b \in Up(c) /\ Up(b) \subseteq Up(c) /\ c \notin Up(b)
             /\ \A a \in Up(c) : a = c \/ \E b \in BasesOf(c) : a \in Up(b)
             /\ \A a \in Up(c) : Up(a) \subseteq Up(c) /\ (c \in Up(a) => a = c)
  <2>1. \A k \in Classes :
           /\ k \in Up(k) /\ Up(k) \subseteq 1..k
           /\ \A b \in BasesOf(k) : b \in Classes /\ Up(b) \subseteq Up(k) /\ k \notin Up(b)
           /\ \A a \in Up(k) : a = k \/ \E b \in BasesOf(k) : a \in Up(b)
           /\ \A a \in Up(k) : Up(a) \subseteq Up(k)
    BY <1>1, UpFacts DEF Up, BasesOf
  <2>2. c \in Nat /\ 1..c \subseteq Classes
    BY DepthsAssumption DEF Classes
  <2>3. IsFiniteSet(Up(c))
    <3>1. IsFiniteSet(1..c)
      BY <2>2, FS_Interval
    <3>2. QED BY <2>1, <3>1, FS_Subset
  <2>4. ASSUME NEW a \in Up(c), c \in Up(a) PROVE a = c
    <3>1. a \in 1..c /\ a \in Classes
      BY <2>1, <2>2
    <3>2. c \in 1..a /\ a \in Nat
      BY <2>1, <2>2, <2>4, <3>1
    <3>3. QED BY <2>2, <3>1, <3>2
  <2>5. QED BY <2>1, <2>2, <2>3, <2>4
<1>5. QED BY <1>1, <1>2, <1>3, <1>4

(* Every definer is overridden by a source, or is one.                     *)
LEMMA SourceAbove ==
  ASSUME ClassTypes, NEW c \in Classes, NEW m, NEW b \in Up(c) \cap Definers(m)
  PROVE  \E w \in Sources(c, m) : b \in Up(w)
<1> DEFINE Over == {k \in Up(c) \cap Definers(m) : b \in Up(k)}
<1>1. b \in Over /\ Over \in SUBSET (1..c) /\ c \in Nat
  BY HierarchyFacts DEF Definers
<1>2. PICK w \in Over : \A k \in Over : k <= w
  <2> HIDE DEF Over
  <2>1. QED BY <1>1, GreatestExists
<1>3. ASSUME NEW k \in Up(c) \cap Definers(m), w \in Ancestors(k) PROVE FALSE
  <2>1. k \in Classes /\ w \in Up(k) /\ w # k
    BY <1>3, HierarchyFacts DEF Ancestors
  <2>2. b \in Up(k)
    BY <2>1, HierarchyFacts
  <2>3. k <= w
    BY <1>2, <2>2
  <2>4. w \in 1..k /\ k \in Nat
    BY <2>1, HierarchyFacts
  <2>5. QED BY <2>1, <2>3, <2>4
<1>4. w \in Sources(c, m)
  BY <1>3 DEF Sources
<1>5. QED BY <1>4

LEMMA OneSource ==
  ASSUME ClassTypes, NEW c \in Classes, NEW m, NEW w, Sources(c, m) = {w}
  PROVE  /\ w \in Up(c) \cap Definers(m)
         /\ \A b \in Up(c) \cap Definers(m) : b \in Up(w)
BY SourceAbove DEF Sources

(* Go promotes the definition of which all others are overridden.          *)
LEMMA PromotedIs ==
  ASSUME ClassTypes, NEW c \in Classes, NEW D, NEW w \in Up(c) \cap D,
         \A b \in Up(c) \cap D : b \in Up(w)
  PROVE  Promoted(c, D) = w
<1> DEFINE Way(a) == {d \in Up(c) : a \in Ancestors(d)}
           found == Up(c) \cap D
           top == {a \in found : \A b \in found : Distance(c, a) <= Distance(c, b)}
<1>1. \A a : Distance(c, a) = Cardinality(Way(a)) /\ Distance(c, a) \in Nat
  <2> SUFFICES ASSUME NEW a PROVE Distance(c, a) = Cardinality(Way(a)) /\ Distance(c, a) \in Nat
    OBVIOUS
  <2>1. IsFiniteSet(Way(a))
    BY HierarchyFacts, FS_Subset
  <2>2. Distance(c, a) = Cardinality(Way(a))
    BY DEF Distance
  <2>3. QED BY <2>1, <2>2, FS_CardinalityType
<1>2. ASSUME NEW b \in found, b # w PROVE Distance(c, w) < Distance(c, b)
  <2>1. b \in Up(w) /\ w \in Classes
    BY HierarchyFacts
  <2>2. ASSUME NEW d \in Way(w) PROVE d \in Way(b)
    <3>1. d \in Classes /\ w \in Up(d) /\ w # d
      BY HierarchyFacts DEF Ancestors
    <3>2. b \in Up(d)
      BY <2>1, <3>1, HierarchyFacts
    <3>3. b # d
      BY <1>2, <2>1, <3>1, HierarchyFacts
    <3>4. QED BY <3>2, <3>3 DEF Ancestors
  <2>3. w \in Way(b) /\ w \notin Way(w)
    BY <1>2, <2>1 DEF Ancestors
  <2>4. IsFiniteSet(Way(b))
    BY HierarchyFacts, FS_Subset
  <2>5. Way(w) \subseteq Way(b) /\ Way(w) # Way(b)
    BY <2>2, <2>3
  <2> HIDE DEF Way
  <2>6. Cardinality(Way(w)) <= Cardinality(Way(b)) /\ Cardinality(Way(w)) # Cardinality(Way(b))
    BY <2>4, <2>5, FS_Subset
  <2>7. QED BY <1>1, <2>6
<1>3. top = {w}
  <2> HIDE DEF Way
  <2>1. w \in top
    BY <1>1, <1>2
  <2>2. ASSUME NEW b \in top PROVE b = w
    <3>1. b \in found /\ Distance(c, b) <= Distance(c, w)
      OBVIOUS
    <3>2. QED BY <1>1, <1>2, <3>1
  <2>3. QED BY <2>1, <2>2
<1>4. Promoted(c, D) = IF Cardinality(top) = 1 THEN CHOOSE a \in top : TRUE ELSE Nil
  BY DEF Promoted
<1> HIDE DEF top
<1>5. Cardinality(top) = 1
  BY <1>3, FS_Singleton
<1>6. QED BY <1>3, <1>4, <1>5

(* A class that takes no member from two sides has one source of each      *)
(* method it has, and Go finds that one.                                   *)
LEMMA Unambiguous ==
  ASSUME ClassTypes, NEW c \in Classes, ~Ambiguous(c), NEW m \in Methods, NEW b \in Up(c) \cap Definers(m)
  PROVE  \E w \in Classes : Sources(c, m) = {w} /\ GoMethod(c, m) = w
<1>1. Sources(c, m) \subseteq Up(c) /\ IsFiniteSet(Sources(c, m)) /\ Sources(c, m) # {}
  <2>1. Sources(c, m) \subseteq Up(c) /\ Sources(c, m) # {}
    BY SourceAbove DEF Sources
  <2>2. QED BY <2>1, HierarchyFacts, FS_Subset
<1>2. Cardinality(Sources(c, m)) = 1
  <2>1. ~(Cardinality(Sources(c, m)) > 1)
    BY DEF Ambiguous
  <2>2. Cardinality(Sources(c, m)) \in Nat /\ Cardinality(Sources(c, m)) # 0
    BY <1>1, FS_CardinalityType, FS_EmptySet
  <2>3. QED BY <2>1, <2>2
<1>3. PICK w : Sources(c, m) = {w}
  BY <1>1, <1>2, FS_Singleton
<1>4. w \in Classes
  BY <1>1, <1>3, HierarchyFacts
<1>5. GoMethod(c, m) = w
  BY <1>3, OneSource, PromotedIs DEF GoMethod
<1>6. QED BY <1>3, <1>4, <1>5

LEMMA ImplementsAll ==
  ASSUME ClassTypes, NEW c \in Classes, ~Ambiguous(c), NEW a \in Up(c)
  PROVE  Implements(c, a)
<1> SUFFICES ASSUME NEW m \in VirtualMethods(a) PROVE GoMethod(c, m) # Nil
  BY DEF Implements
<1>1. a \in Classes
  BY HierarchyFacts
<1>2. m \in Methods /\ a \in Definers(m)
  BY <1>1 DEF VirtualMethods, Definers, ClassTypes
<1>3. QED BY <1>2, Unambiguous, HierarchyFacts

(* An object of class c into which c is bound, all over                    *)
Bound(c, obj) ==
  /\ DOMAIN obj = Up(c)
  /\ ~Ambiguous(c) => \A a \in Up(c) : obj[a] = IF a = c THEN Unbound ELSE c

LEMMA BoundBehaves ==
  ASSUME ClassTypes, NEW c \in Classes, NEW obj, Bound(c, obj)
  PROVE  Behaves(c, obj)
<1> SUFFICES ASSUME ~Ambiguous(c), NEW s \in Up(c)
             PROVE  /\ DynamicClass(obj, s) = c
                    /\ \A m \in Methods : Cardinality(Sources(s, m)) = 1 => Sources(c, m) = {Called(obj, s, m)}
  BY DEF Behaves
<1>1. \A a \in Up(c) : obj[a] = IF a = c THEN Unbound ELSE c
  BY DEF Bound
<1>2. c # Unbound /\ s \in Classes
  BY HierarchyFacts
<1>3. DynamicClass(obj, s) = c
  BY <1>1, <1>2 DEF DynamicClass
<1>4. ASSUME NEW m \in Methods, Cardinality(Sources(s, m)) = 1 PROVE Sources(c, m) = {Called(obj, s, m)}
  <2>1. PICK a : Sources(s, m) = {a}
    <3>1. IsFiniteSet(Sources(s, m))
      BY <1>2, HierarchyFacts, FS_Subset DEF Sources
    <3>2. QED BY <1>4, <3>1, FS_Singleton
  <2>2. a \in Up(s) \cap Definers(m) /\ \A b \in Up(s) \cap Definers(m) : b \in Up(a)
    BY <1>2, <2>1, OneSource
  <2>3. a \in Up(c) /\ a \in Classes
    BY <1>2, <2>2, HierarchyFacts
  <2>4. PICK x \in Classes : Sources(c, m) = {x} /\ GoMethod(c, m) = x
    BY <2>2, <2>3, Unambiguous
  <2>5. x \in Up(c) \cap Definers(m) /\ a \in Up(x)
    BY <2>2, <2>3, <2>4, OneSource
  <2>6. CASE NeedsVirtual(s, m)
    <3> DEFINE D == {k \in Classes : m \in VirtualMethods(k)}
    <3>1. m \in VirtualMethods(a)
      BY <2>1, <2>6 DEF NeedsVirtual
    <3>2. \A k \in D : k \in Definers(m)
      BY DEF VirtualMethods, Definers
    <3>3. Promoted(s, D) = a
      <4>1. a \in Up(s) \cap D /\ \A b \in Up(s) \cap D : b \in Up(a)
        BY <2>2, <2>3, <3>1, <3>2
      <4> HIDE DEF D
      <4>2. QED BY <1>2, <4>1, PromotedIs
    <3>4. Called(obj, s, m) = IF obj[a] = Unbound THEN a ELSE GoMethod(obj[a], m)
      BY <2>6, <3>3 DEF Called
    <3>5. CASE a = c
      <4>1. x = c
        BY <2>5, <3>5, HierarchyFacts
      <4>2. QED BY <1>1, <2>3, <2>4, <3>4, <3>5, <4>1
    <3>6. CASE a # c
      BY <1>1, <1>2, <2>3, <2>4, <3>4, <3>6
    <3>7. QED BY <3>5, <3>6
  <2>7. CASE ~NeedsVirtual(s, m)
    <3>1. Called(obj, s, m) = a
      BY <1>2, <2>2, <2>7, PromotedIs DEF Called, GoMethod
    <3>2. a = x
      <4> SUFFICES ASSUME a # x PROVE FALSE
        OBVIOUS
      <4>1. x \in Descendants(a) /\ m \in defines[x]
        BY <2>5 DEF Descendants, Ancestors, Definers
      <4>2. m \in VirtualMethods(a)
        BY <2>2, <4>1 DEF VirtualMethods, Definers
      <4>3. x \in Up(s) \/ s \in Up(x)
        <5>1. a \in UpIn(bases)[x] \cap UpIn(bases)[s] /\ x \in UpIn(bases)[c] /\ s \in UpIn(bases)[c]
          BY <2>2, <2>5 DEF Up
        <5>2. QED BY <5>1, HierarchyFacts, OnePath DEF Up
      <4>4. x \notin Up(s)
        <5>1. x \in Up(s) => x \in Up(a)
          BY <2>2, <2>5
        <5>2. QED BY <2>3, <2>5, <5>1, HierarchyFacts
      <4>5. x \in Descendants(s)
        <5>1. s # x
          BY <1>2, <4>4, HierarchyFacts
        <5>2. QED BY <4>3, <4>4, <5>1 DEF Descendants, Ancestors
      <4>6. NeedsVirtual(s, m)
        BY <2>1, <4>1, <4>2, <4>5 DEF NeedsVirtual
      <4>7. QED BY <2>7, <4>6
    <3>3. QED BY <2>4, <3>1, <3>2
  <2>8. QED BY <2>6, <2>7
<1>5. QED BY <1>3, <1>4

(* Constructors under way                                                  *)
Objects == UNION {[S -> {Unbound} \cup Classes] : S \in SUBSET Classes}
ConstructorFrames == [class : Classes, obj : Objects, todo : SUBSET Classes, must : BOOLEAN]

(* The class under way in an inner constructor is a parent of the one      *)
(* around, and each object is bound all over.                              *)
ClassInv ==
  /\ ClassTypes
  /\ making \in Seq(ConstructorFrames)
  /\ \A i \in 1..Len(making) : /\ Bound(making[i].class, making[i].obj)
                              /\ making[i].todo \subseteq BasesOf(making[i].class)
  /\ \A i \in 1..Len(making) - 1 : making[i + 1].class \in BasesOf(making[i].class)
  /\ object # <<>> => object.class \in Classes /\ Bound(object.class, object.obj)

LEMMA ObjectsAre ==
  ASSUME ClassTypes, NEW c \in Classes, NEW obj, DOMAIN obj = Up(c), obj = [a \in Up(c) |-> obj[a]],
         \A a \in Up(c) : obj[a] \in {Unbound} \cup Classes
  PROVE  obj \in Objects
<1>1. Up(c) \in SUBSET Classes
  BY HierarchyFacts
<1>2. obj \in [Up(c) -> {Unbound} \cup Classes]
  OBVIOUS
<1>3. QED BY <1>1, <1>2 DEF Objects

(* What a constructor of c does before its body                            *)
LEMMA ConstructorBound ==
  ASSUME ClassTypes, NEW c \in Classes
  PROVE  /\ Constructor(c) \in ConstructorFrames /\ Constructor(c).class = c
         /\ Bound(c, Constructor(c).obj) /\ Constructor(c).todo \subseteq BasesOf(c)
<1> DEFINE above == UNION {Up(b) : b \in BasesOf(c)}
           obj == [a \in Up(c) |-> IF a \in above /\ Implements(c, a) THEN c ELSE Unbound]
<1>1. above = Up(c) \ {c}
  BY HierarchyFacts
<1>2. BindAll(Allocate(c), c) = obj
  BY DEF BindAll, Bind, Allocate
<1>3. Bound(c, obj)
  <2>1. ~Ambiguous(c) => \A a \in Up(c) : Implements(c, a)
    BY ImplementsAll
  <2> HIDE DEF above
  <2>2. QED BY <1>1, <2>1 DEF Bound
<1>4. obj \in Objects
  <2>1. DOMAIN obj = Up(c) /\ obj = [a \in Up(c) |-> obj[a]] /\ \A a \in Up(c) : obj[a] \in {Unbound} \cup Classes
    OBVIOUS
  <2> HIDE DEF obj
  <2>2. QED BY <2>1, ObjectsAre
<1> DEFINE todo == IF c \in inits THEN BasesOf(c) ELSE IF HasInit(c) THEN {InitSource(c)} ELSE {}
<1>5. todo \subseteq BasesOf(c)
  <2>1. ASSUME c \notin inits, HasInit(c) PROVE InitSource(c) \in BasesOf(c)
    <3> DEFINE BoundTo == {i \in DOMAIN bases[c] : HasInit(bases[c][i])}
    <3>1. DOMAIN bases[c] \subseteq Nat /\ \A i \in DOMAIN bases[c], j \in Nat : j >= 1 /\ j < i => j \in DOMAIN bases[c]
      <4>1. bases[c] \in {<<>>} \cup {<<k>> : k \in Classes} \cup (Classes \X Classes)
        BY DEF ClassTypes, Hierarchies
      <4>2. DOMAIN bases[c] = {} \/ DOMAIN bases[c] = 1..1 \/ DOMAIN bases[c] = 1..2
        <5>1. CASE bases[c] = <<>>
          BY <5>1
        <5>2. CASE bases[c] \in {<<k>> : k \in Classes}
          BY <5>2
        <5>3. CASE bases[c] \in Classes \X Classes
          BY <5>3
        <5>4. QED BY <4>1, <5>1, <5>2, <5>3
      <4>3. QED BY <4>2
    <3>2. PICK a \in Up(c) : a \in inits
      BY <2>1 DEF HasInit
    <3>3. PICK b \in BasesOf(c) : a \in Up(b)
      BY <2>1, <3>2, HierarchyFacts
    <3>4. BoundTo # {} /\ BoundTo \subseteq Nat
      BY <3>1, <3>2, <3>3 DEF HasInit, BasesOf, BasesIn
    <3>5. PICK i \in BoundTo : \A j \in BoundTo : i <= j
      <4> HIDE DEF BoundTo
      <4>1. QED BY <3>4, LeastExists
    <3>6. \A j \in 1..(i - 1) : ~HasInit(bases[c][j])
      <4> SUFFICES ASSUME NEW j \in 1..(i - 1) PROVE ~HasInit(bases[c][j])
        OBVIOUS
      <4>1. i \in Nat /\ j \in Nat /\ j >= 1 /\ j < i /\ ~(i <= j)
        BY <3>1
      <4>2. j \in DOMAIN bases[c] /\ j \notin BoundTo
        <5>1. j \in DOMAIN bases[c]
          BY <3>1, <4>1
        <5> HIDE DEF BoundTo
        <5>2. QED BY <3>5, <4>1, <5>1
      <4>3. QED BY <4>2
    <3>7. \E k \in DOMAIN bases[c] : HasInit(bases[c][k]) /\ \A j \in 1..(k - 1) : ~HasInit(bases[c][j])
      BY <3>5, <3>6
    <3>8. QED BY <3>7 DEF InitSource, BasesOf, BasesIn
  <2>2. QED BY <2>1
<1>6. BasesOf(c) \subseteq Classes
  BY HierarchyFacts
<1> DEFINE must == c \notin inits /\ HasInit(c)
<1>7. Constructor(c) = [class |-> c, obj |-> obj, todo |-> todo, must |-> must]
  BY <1>2 DEF Constructor
<1>8. must \in BOOLEAN
  BY DEF HasInit
<1> HIDE DEF obj, todo, must
<1>9. QED BY <1>3, <1>4, <1>5, <1>6, <1>7, <1>8 DEF ConstructorFrames

(* A new parent, into which the object is bound again                      *)
LEMMA ReplaceBound ==
  ASSUME ClassTypes, NEW f \in ConstructorFrames, Bound(f.class, f.obj),
         NEW b \in BasesOf(f.class), NEW part \in Objects, Bound(b, part)
  PROVE  /\ Replace(f, b, part) \in ConstructorFrames /\ Bound(f.class, Replace(f, b, part).obj)
         /\ Replace(f, b, part).class = f.class /\ Replace(f, b, part).todo = f.todo
<1> DEFINE c == f.class
           old == f.obj
           obj == [a \in Up(c) |-> IF a \in Up(b) /\ Implements(c, a) THEN c
                                   ELSE IF a \in Up(b) THEN part[a] ELSE old[a]]
<1>1. /\ c \in Classes /\ old \in Objects /\ f.todo \subseteq Classes /\ f.must \in BOOLEAN
      /\ f = [class |-> f.class, obj |-> f.obj, todo |-> f.todo, must |-> f.must]
  BY DEF ConstructorFrames
<1>2. DOMAIN old = Up(c) /\ DOMAIN part = Up(b)
  BY DEF Bound
<1>3. b \in Classes /\ c \notin Up(b)
  BY <1>1, HierarchyFacts
<1>4. Replace(f, b, part) = [f EXCEPT !.obj = obj]
  BY <1>1, <1>2 DEF Replace, Bind
<1>5. Bound(c, obj)
  <2>1. ~Ambiguous(c) => \A a \in Up(c) : Implements(c, a)
    BY <1>1, ImplementsAll
  <2>2. QED BY <1>3, <2>1 DEF Bound
<1>6. obj \in Objects
  <2>1. \A a \in Up(b) : part[a] \in {Unbound} \cup Classes
    BY <1>2 DEF Objects
  <2>2. \A a \in Up(c) : old[a] \in {Unbound} \cup Classes
    BY <1>1, <1>2 DEF Objects
  <2> HIDE DEF old, c
  <2>3. DOMAIN obj = Up(c) /\ obj = [a \in Up(c) |-> obj[a]] /\ \A a \in Up(c) : obj[a] \in {Unbound} \cup Classes
    BY <1>1, <2>1, <2>2
  <2> HIDE DEF obj
  <2>4. QED BY <1>1, <2>3, ObjectsAre
<1> HIDE DEF obj
<1>7. QED BY <1>1, <1>4, <1>5, <1>6 DEF ConstructorFrames

LEMMA ClassStep == ClassInv /\ [ClassNext]_classVars => ClassInv'
<1> SUFFICES ASSUME ClassInv, [ClassNext]_classVars PROVE ClassInv'
  OBVIOUS
<1> DEFINE n == Len(making)
           FrameOK(f) == Bound(f.class, f.obj) /\ f.todo \subseteq BasesOf(f.class)
           Kept(q) == /\ q \in Seq(ConstructorFrames) /\ \A i \in 1..Len(q) : FrameOK(q[i])
                      /\ \A i \in 1..Len(q) - 1 : q[i + 1].class \in BasesOf(q[i].class)
<1>1. ClassTypes /\ Kept(making) /\ n \in Nat
  BY DEF ClassInv
<1>2. ASSUME NEW q, Kept(q), making' = q, UNCHANGED <<bases, defines, inits>>,
             object' # <<>> => object'.class \in Classes /\ Bound(object'.class, object'.obj)
      PROVE  ClassInv'
  <2>1. ClassTypes'
    BY <1>1, <1>2 DEF ClassTypes
  <2>2. \A c, obj : Bound(c, obj)' <=> Bound(c, obj)
    BY <1>2 DEF Bound, Ambiguous, Sources, Definers, Ancestors, Up
  <2>3. \A c : BasesOf(c)' = BasesOf(c)
    BY <1>2 DEF BasesOf
  <2>4. QED BY <1>2, <2>1, <2>2, <2>3 DEF ClassInv
<1>3. object # <<>> => object.class \in Classes /\ Bound(object.class, object.obj)
  BY DEF ClassInv
<1>4. ASSUME NEW c \in Classes, New(c) PROVE ClassInv'
  <2> DEFINE q == <<Constructor(c)>>
  <2>1. q \in Seq(ConstructorFrames) /\ Len(q) = 1 /\ q[1] = Constructor(c)
    BY <1>1, ConstructorBound
  <2>2. making' = q /\ UNCHANGED <<bases, defines, inits, object>>
    BY <1>4 DEF New
  <2> HIDE DEF q
  <2>3. Kept(q)
    BY <1>1, <2>1, ConstructorBound
  <2> HIDE DEF Kept
  <2>4. QED BY <1>2, <1>3, <2>2, <2>3
<1>5. n # 0 => /\ Making = making[n] /\ Making \in ConstructorFrames /\ FrameOK(Making)
  BY <1>1 DEF Making
<1>6. ASSUME NEW b \in Classes, ParentInit(b) PROVE ClassInv'
  <2> DEFINE f == [making[n] EXCEPT !.todo = @ \ {b}, !.must = FALSE]
             r == [making EXCEPT ![n] = f]
             q == Append(r, Constructor(b))
  <2>1. n # 0 /\ b \in Making.todo /\ UNCHANGED <<bases, defines, inits, object>>
    BY <1>1, <1>6 DEF ParentInit
  <2>2. making' = q
    BY <1>6 DEF ParentInit, Making
  <2>3. n \in 1..n /\ b \in BasesOf(making[n].class)
    BY <1>1, <1>5, <2>1
  <2>4. /\ f \in ConstructorFrames /\ f.class = making[n].class /\ f.obj = making[n].obj
        /\ f.todo \subseteq making[n].todo
    BY <1>5, <2>1 DEF ConstructorFrames
  <2>5. FrameOK(f)
    BY <1>5, <2>1, <2>4
  <2>6. /\ Constructor(b) \in ConstructorFrames /\ Constructor(b).class = b /\ FrameOK(Constructor(b))
    BY <1>1, ConstructorBound
  <2> HIDE DEF f, FrameOK
  <2>7. r \in Seq(ConstructorFrames) /\ Len(r) = n /\ r[n] = f /\ \A i \in 1..n : i # n => r[i] = making[i]
    BY <1>1, <2>3, <2>4
  <2> HIDE DEF r
  <2>8. /\ q \in Seq(ConstructorFrames) /\ Len(q) = n + 1 /\ q[n + 1] = Constructor(b) /\ q[n] = f
        /\ \A i \in 1..n : i # n => q[i] = making[i]
    BY <1>1, <2>3, <2>6, <2>7
  <2> HIDE DEF q
  <2>9. \A i \in 1..n + 1 : FrameOK(q[i])
    <3>1. \A i \in 1..n + 1 : i = n + 1 \/ i = n \/ (i \in 1..n /\ i # n)
      BY <1>1
    <3>2. QED BY <1>1, <2>5, <2>6, <2>8, <3>1
  <2>10. ASSUME NEW i \in 1..n PROVE q[i + 1].class \in BasesOf(q[i].class)
    <3>1. CASE i = n
      BY <2>3, <2>4, <2>6, <2>8, <3>1
    <3>2. CASE i # n
      <4>1. i \in 1..n - 1 /\ i + 1 \in 1..n
        BY <1>1, <3>2
      <4>2. q[i].class = making[i].class /\ q[i + 1].class = making[i + 1].class
        BY <2>4, <2>8, <3>2, <4>1
      <4>3. QED BY <1>1, <4>1, <4>2
    <3>3. QED BY <3>1, <3>2
  <2>11. Kept(q)
    BY <1>1, <2>8, <2>9, <2>10
  <2> HIDE DEF Kept
  <2>12. QED BY <1>2, <1>3, <2>1, <2>2, <2>11
<1>7. ASSUME Return PROVE ClassInv'
  <2> DEFINE rest == SubSeq(making, 1, n - 1)
             f == Replace(making[n - 1], making[n].class, making[n].obj)
             q == [rest EXCEPT ![n - 1] = f]
  <2>1. n > 1 /\ UNCHANGED <<bases, defines, inits, object>>
    BY <1>7 DEF Return
  <2>2. /\ rest \in Seq(ConstructorFrames) /\ Len(rest) = n - 1 /\ n - 1 \in 1..n - 1 /\ n - 1 \in 1..n /\ n \in 1..n
        /\ \A i \in 1..n - 1 : rest[i] = making[i] /\ i \in 1..n
    BY <1>1, <2>1
  <2>3. making' = q
    BY <1>7, <2>2 DEF Return, Making
  <2>4. making[n].class \in BasesOf(making[n - 1].class)
    BY <1>1, <2>1, <2>2
  <2>5. making[n - 1] \in ConstructorFrames /\ making[n] \in ConstructorFrames /\ FrameOK(making[n - 1]) /\ FrameOK(making[n])
    BY <1>1, <2>2
  <2>6. making[n].obj \in Objects
    BY <2>5 DEF ConstructorFrames
  <2>7. f \in ConstructorFrames /\ FrameOK(f) /\ f.class = making[n - 1].class
    BY <1>1, <2>4, <2>5, <2>6, ReplaceBound
  <2> HIDE DEF f, rest, FrameOK
  <2>8. /\ q \in Seq(ConstructorFrames) /\ Len(q) = n - 1 /\ q[n - 1] = f
        /\ \A i \in 1..n - 1 : i # n - 1 => q[i] = making[i]
    BY <1>1, <2>2, <2>7
  <2> HIDE DEF q
  <2>9. \A i \in 1..n - 1 : FrameOK(q[i]) /\ q[i].class = making[i].class
    BY <1>1, <2>2, <2>7, <2>8
  <2>10. \A i \in 1..(n - 1) - 1 : i \in 1..n - 1 /\ i + 1 \in 1..n - 1
    BY <1>1
  <2>11. Kept(q)
    BY <1>1, <2>8, <2>9, <2>10
  <2> HIDE DEF Kept
  <2>12. QED BY <1>2, <1>3, <2>1, <2>3, <2>11
<1>8. ASSUME Made PROVE ClassInv'
  <2>1. /\ n = 1 /\ making' = <<>> /\ UNCHANGED <<bases, defines, inits>>
        /\ object' = [class |-> Making.class, obj |-> Making.obj]
    BY <1>8 DEF Made
  <2>2. object'.class \in Classes /\ Bound(object'.class, object'.obj)
    BY <1>5, <2>1 DEF ConstructorFrames
  <2>3. Kept(<<>>)
    OBVIOUS
  <2> HIDE DEF Kept
  <2>4. QED BY <1>2, <2>1, <2>2, <2>3
<1>9. CASE UNCHANGED classVars
  <2>1. making' = making /\ UNCHANGED <<bases, defines, inits, object>>
    BY <1>9 DEF classVars
  <2> HIDE DEF Kept
  <2>2. QED BY <1>1, <1>2, <1>3, <2>1
<1>10. Depths \in Classes
  BY DepthsAssumption DEF Classes
<1>11. QED BY <1>4, <1>6, <1>7, <1>8, <1>9, <1>10 DEF ClassNext

(* For classes of any number and methods of any names, an object behaves   *)
(* as its class says, whatever base it is seen through, during             *)
(* construction and afterwards.                                            *)
THEOREM ViewsBehaveAsObjectHolds == ClassSpec => []ViewsBehaveAsObject
<1>1. ClassInit => ClassInv
  BY DEF ClassInit, ClassInv, ClassTypes
<1>2. ClassInv => ViewsBehaveAsObject
  <2> SUFFICES ASSUME ClassInv PROVE ViewsBehaveAsObject
    OBVIOUS
  <2>1. ClassTypes /\ making \in Seq(ConstructorFrames)
    BY DEF ClassInv
  <2>2. ASSUME NEW i \in DOMAIN making PROVE Behaves(making[i].class, making[i].obj)
    <3>1. i \in 1..Len(making) /\ making[i] \in ConstructorFrames
      BY <2>1
    <3>2. making[i].class \in Classes /\ Bound(making[i].class, making[i].obj)
      BY <3>1 DEF ConstructorFrames, ClassInv
    <3>3. QED BY <2>1, <3>2, BoundBehaves
  <2>3. ASSUME object # <<>> PROVE Behaves(object.class, object.obj)
    <3>1. object.class \in Classes /\ Bound(object.class, object.obj)
      BY <2>3 DEF ClassInv
    <3>2. QED BY <2>1, <3>1, BoundBehaves
  <2>4. QED BY <2>2, <2>3 DEF ViewsBehaveAsObject
<1>3. QED BY <1>1, <1>2, ClassStep, PTL DEF ClassSpec

=============================================================================
