------------------------------ MODULE Packages ------------------------------
(***************************************************************************)
(* The package manager of lamc (compiler/install_cli.py): install with its *)
(* breadth-first walk over the dependencies, uninstall, the frozen install *)
(* that follows the lock file, and tidy's edit of the manifest.  A command *)
(* works on three files that nothing keeps in step: the tree of installed  *)
(* libraries, the lock file and the project's manifest.  It may be refused *)
(* halfway by the API gate, and it may die between any two of its steps.   *)
(*                                                                         *)
(* A version is a number; the tree of a library is identified by its name  *)
(* and version, and a range of versions is the set of versions it admits.  *)
(***************************************************************************)
EXTENDS Integers, Sequences, FiniteSets

CONSTANTS
  Order,       \* the libraries, in the order sorted() gives their names
  Major,       \* Major[v]: the first number of version v; DOMAIN Major = 1..n
  Offered,     \* Offered[l]: the versions the registry lists and has not yanked
  Needs,       \* Needs[l][v]: the [dependencies] of v as <<library, range>> pairs, in file order
  GoNeeds,     \* GoNeeds[l][v]: the version of the Go module that v requires, 0 for none
  GoMajor,     \* GoMajor[g]: the major of Go version g
  Inside,      \* Inside[l]: the libraries whose directory lies in that of l (@s/a/b in @s/a)
  Mislabelled, \* {<<l, old, new>>}: the API changed more than the version number says
  Flags,       \* the <<--force, --allow-breaking>> pairs that are tried
  MaxCommands  \* bound of the model: commands in a run

VARIABLES
  disk,      \* extlibs/: the tree of each library
  pins,      \* [pins] of lamlib.lock.toml: a version, 0 for no entry
  goPins,    \* [go_pins] of lamlib.lock.toml: the version of the Go module, 0 for no table
  manifest,  \* [dependencies] of lamlib.toml: a range, Undeclared for no entry
  job,       \* the command that runs, Idle between commands
  commands,  \* bound: the commands started so far
  unsettled  \* history: some command died or was refused halfway, or took a nested library along

pkgVars == <<disk, pins, goPins, manifest, job, commands, unsettled>>

Libs == {Order[i] : i \in DOMAIN Order}
Vers == DOMAIN Major

ASSUME OrderAssumption == /\ Order \in Seq(Libs)
                          /\ \A i, j \in DOMAIN Order : Order[i] = Order[j] => i = j

\* The registry's manifests: [dependencies] is a table, no key of it comes twice.
ASSUME VersionsAssumption ==
  /\ Major \in Seq(Nat) /\ GoMajor \in Seq(Nat)
  /\ \A l \in Libs : Offered[l] \subseteq Vers /\ Inside[l] \subseteq Libs
  /\ \A l \in Libs, v \in Vers :
       /\ GoNeeds[l][v] \in {0} \cup DOMAIN GoMajor
       /\ Needs[l][v] \in Seq(Libs \X SUBSET Vers)
       /\ \A i, j \in DOMAIN Needs[l][v] : Needs[l][v][i][1] = Needs[l][v][j][1] => i = j

Undeclared == {}   \* no range admits no version
Idle == [kind |-> "none"]

\* ver = 0: there is no readable lamlib.toml
Tree == [ver : {0} \cup Vers, files : {"none", "part", "whole"}]
NoTree == [ver |-> 0, files |-> "none"]
Installed(l) == disk[l].ver # 0

Highest(S) == CHOOSE v \in S : \A w \in S : w <= v
Caret(v) == {w \in Vers : w >= v /\ Major[w] = Major[v]}
DepsOf(l, v) == {Needs[l][v][i] : i \in DOMAIN Needs[l][v]}

\* A command starts when none runs: install, uninstall and tidy are not run at once.
Begin == job = Idle /\ commands < MaxCommands /\ commands' = commands + 1

(* ------------------------------ resolution ----------------------------- *)

\* the ranges that the dependencies Ds ask of l
RangesFor(l, Ds) == {d[2] : d \in {e \in Ds : e[1] = l}}

\* The subsequence of s at the places in P
Subsequence(s, P) ==
  [n \in 1..Cardinality(P) |-> s[CHOOSE i \in P : Cardinality({j \in P : j <= i}) = n]]

\* Mutation: the libraries already on disk have no say.
StandingDemandsOfProject(root) == {<<l, manifest[l]>> : l \in {k \in Libs : manifest[k] # Undeclared}}

\* The libraries on disk, the root's old copy excepted; what they and the project ask for.
Standing(root) == {l \in Libs \ {root} : Installed(l)}
StandingDemands(root) ==
  UNION {DepsOf(l, disk[l].ver) : l \in Standing(root)}
    \cup {<<l, manifest[l]>> : l \in {k \in Libs : manifest[k] # Undeclared}}

\* Mutation: the libraries already on disk ask for no Go module.
StandingGoForgotten(root) == {}

StandingGo(root) == {GoNeeds[l][disk[l].ver] : l \in Standing(root)} \ {0}

\* _resolve_plan: the highest version of l that the spec admits
PlanOf(l, range) == <<l, Highest(Offered[l] \cap range)>>

\* install_one up to the walk.  range: what the spec admits; write: the user named
\* the library, so that the manifest gets an entry (a bare install does not write one).
Install(l, range, write, force, allow) ==
  /\ Begin
  /\ Offered[l] \cap range # {}
  /\ LET pick == PlanOf(l, range)
     IN job' = [kind |-> "walk", root |-> pick, write |-> write, force |-> force,
                allow |-> allow, queue |-> <<pick>>, found |-> [k \in {l} |-> pick[2]],
                order |-> <<>>, demands |-> StandingDemands(l), go |-> StandingGo(l)]
  /\ UNCHANGED <<disk, pins, goPins, manifest, unsettled>>

\* One round of the walk: the next manifest adds its demands, and each dependency not
\* met before is resolved against every demand known by now.
Pickable(n, Ds) == {v \in Offered[n] : \A r \in RangesFor(n, Ds) : v \in r}

\* the dependencies that were not met before, and found with what was picked for them
Fresh(deps, found) == Subsequence(deps, {i \in DOMAIN deps : deps[i][1] \notin DOMAIN found})
PicksFor(deps, Ds) == [i \in DOMAIN deps |-> <<deps[i][1], Highest(Pickable(deps[i][1], Ds))>>]
WithPicks(found, picks) ==
  [l \in DOMAIN found \cup {picks[i][1] : i \in DOMAIN picks} |->
     IF l \in DOMAIN found THEN found[l]
     ELSE picks[CHOOSE i \in DOMAIN picks : picks[i][1] = l][2]]

Descend ==
  /\ job.kind = "walk" /\ job.queue # <<>>
  /\ LET at == Head(job.queue)
         deps == Needs[at[1]][at[2]]
         demands == job.demands \cup DepsOf(at[1], at[2])
         fresh == Fresh(deps, job.found)
         picks == PicksFor(fresh, demands)
     IN IF \E i \in DOMAIN fresh : Pickable(fresh[i][1], demands) = {}
        THEN job' = Idle                                          \* DependencyConflict
        ELSE job' = [job EXCEPT
               !.queue = Tail(@) \o picks,
               !.order = @ \o picks,
               !.found = WithPicks(@, picks),
               !.demands = demands,
               !.go = @ \cup ({GoNeeds[at[1]][at[2]]} \ {0})]
  /\ UNCHANGED <<disk, pins, goPins, manifest, unsettled, commands>>

\* The final sweep: what was picked early must suit the demands met later; a library
\* that only peers ask for is not looked up, its ranges must meet pairwise.
DemandsAgree ==
  \A l \in Libs : LET R == RangesFor(l, job.demands) IN
    IF l \in DOMAIN job.found
    THEN \A r \in R : job.found[l] \in r
    ELSE \A r, s \in R : r \cap s # {}

OneGoMajor == \A g, h \in job.go : GoMajor[g] = GoMajor[h]

Sweep ==
  /\ job.kind = "walk" /\ job.queue = <<>>
  /\ job' = IF DemandsAgree /\ OneGoMajor
            THEN [kind |-> "install", todo |-> Append(job.order, job.root), phase |-> "check",
                  saved |-> {}, force |-> job.force, allow |-> job.allow, write |-> job.write,
                  root |-> job.root, found |-> job.found,
                  go |-> IF job.go = {} THEN 0 ELSE Highest(job.go)]
            ELSE Idle                                             \* DependencyConflict
  /\ UNCHANGED <<disk, pins, goPins, manifest, unsettled, commands>>

(* ---------------------- one library into the tree ----------------------- *)

Copying == job.kind \in {"install", "frozen"} /\ job.todo # <<>>
Lib == Head(job.todo)[1]
Ver == Head(job.todo)[2]
NextLib == [job EXCEPT !.todo = Tail(@), !.phase = "check", !.saved = {}]

\* Mutation: --force does not force.
KeepAlways ==
  /\ Copying /\ job.phase = "check"
  /\ disk[Lib].ver = Ver
  /\ job' = NextLib
  /\ UNCHANGED <<disk, pins, goPins, manifest, unsettled, commands>>

Keep ==
  /\ Copying /\ job.phase = "check"
  /\ disk[Lib].ver = Ver /\ ~job.force
  /\ job' = NextLib
  /\ UNCHANGED <<disk, pins, goPins, manifest, unsettled, commands>>

\* _check_semver_gate; the surface of half a tree differs in any way
Refuses == /\ Installed(Lib) /\ ~job.allow
           /\ <<Lib, disk[Lib].ver, Ver>> \in Mislabelled \/ disk[Lib].files = "part"

Refuse ==
  /\ Copying /\ job.phase = "check"
  /\ ~(disk[Lib].ver = Ver /\ ~job.force)
  /\ Refuses
  /\ job' = Idle
  /\ unsettled' = (unsettled \/ Len(job.todo) < Cardinality(DOMAIN job.found))
  /\ UNCHANGED <<disk, pins, goPins, manifest, commands>>

\* _nested_installed_package_dirs: the libraries in the directory of l that have a manifest,
\* and what lies in theirs
Nested(l) ==
  {k \in Inside[l] : Installed(k) \/ \E p \in Inside[l] : Installed(p) /\ k \in Inside[p]}

\* The nested libraries are put aside, then the directory is removed.
Replaces ==
  /\ Copying /\ job.phase = "check"
  /\ ~(disk[Lib].ver = Ver /\ ~job.force)
  /\ Installed(Lib) /\ ~job.allow => <<Lib, disk[Lib].ver, Ver>> \notin Mislabelled

\* Mutation: nothing is put aside.
AsideNothing == {}
Aside == {<<k, disk[k]>> : k \in Nested(Lib)}

RemoveTree ==
  /\ Replaces
  /\ job' = [job EXCEPT !.phase = "copy", !.saved = Aside]
  /\ disk' = [l \in Libs |-> IF l \in {Lib} \cup Inside[Lib] THEN NoTree ELSE disk[l]]
  /\ UNCHANGED <<pins, goPins, manifest, unsettled, commands>>

CopyTree ==
  /\ Copying /\ job.phase = "copy"
  /\ disk' = [l \in Libs |->
       IF l = Lib THEN [ver |-> Ver, files |-> "whole"]
       ELSE IF \E s \in job.saved : s[1] = l
            THEN (CHOOSE s \in job.saved : s[1] = l)[2] ELSE disk[l]]
  /\ job' = NextLib
  /\ UNCHANGED <<pins, goPins, manifest, unsettled, commands>>

(* ------------------------ lock file and manifest ------------------------ *)

WriteLock ==
  /\ job.kind = "install" /\ job.todo = <<>> /\ job.phase = "check"
  /\ pins' = [l \in Libs |-> IF l \in DOMAIN job.found THEN job.found[l] ELSE pins[l]]
  /\ goPins' = job.go
  /\ job' = [job EXCEPT !.phase = "locked"]
  /\ UNCHANGED <<disk, manifest, unsettled, commands>>

WriteManifest ==
  /\ job.kind = "install" /\ job.phase = "locked"
  /\ manifest' = IF job.write THEN [manifest EXCEPT ![job.root[1]] = Caret(job.root[2])]
                 ELSE manifest
  /\ job' = Idle
  /\ UNCHANGED <<disk, pins, goPins, unsettled, commands>>

\* A bare install takes each declared dependency in turn.
InstallDeclared(l, force, allow) ==
  /\ manifest[l] # Undeclared
  /\ Install(l, manifest[l], FALSE, force, allow)

(* --------------------- frozen install, uninstall, tidy ------------------ *)

Drift == \E l \in Libs : manifest[l] # Undeclared /\ pins[l] \notin manifest[l]

PlanFromPin(l) == <<l, pins[l]>>

\* sorted(S)
Sorted(S) == Subsequence(Order, {i \in DOMAIN Order : Order[i] \in S})

Frozen ==
  /\ Begin /\ ~Drift
  /\ LET pinned == {l \in Libs : pins[l] # 0}
     IN job' = [kind |-> "frozen", phase |-> "check", saved |-> {}, force |-> TRUE, allow |-> TRUE,
                todo |-> [i \in DOMAIN Sorted(pinned) |-> PlanFromPin(Sorted(pinned)[i])]]
  /\ UNCHANGED <<disk, pins, goPins, manifest, unsettled>>

FrozenDone ==
  /\ job.kind = "frozen" /\ job.todo = <<>>
  /\ job' = Idle
  /\ UNCHANGED <<disk, pins, goPins, manifest, unsettled, commands>>

\* uninstall_one: the directory goes with everything in it, then the entry of the
\* lock file; the lock file is written back without its Go table.
Uninstall(l) ==
  /\ Begin /\ \E k \in {l} \cup Inside[l] : disk[k].files # "none"
  /\ disk' = [k \in Libs |-> IF k \in {l} \cup Inside[l] THEN NoTree ELSE disk[k]]
  /\ unsettled' = (unsettled \/ \E k \in Inside[l] : Installed(k))
  /\ job' = [kind |-> "uninstall", lib |-> l]
  /\ UNCHANGED <<pins, goPins, manifest>>

Unpin ==
  /\ job.kind = "uninstall"
  /\ pins' = [pins EXCEPT ![job.lib] = 0]
  /\ goPins' = IF pins[job.lib] # 0 THEN 0 ELSE goPins
  /\ job' = Idle
  /\ UNCHANGED <<disk, manifest, unsettled, commands>>

\* tidy's edit of the manifest; the installs that follow are bare ones
Tidy(used) ==
  /\ Begin
  /\ \A l \in used : manifest[l] # Undeclared \/ Installed(l)
  /\ manifest' = [l \in Libs |->
       IF l \notin used THEN Undeclared
       ELSE IF manifest[l] # Undeclared THEN manifest[l] ELSE Caret(disk[l].ver)]
  /\ UNCHANGED <<disk, pins, goPins, job, unsettled>>

(* -------------------------------- death --------------------------------- *)

\* What rmtree may have left of the tree of l, and copytree of the one of version v.
Torn(l, v) == {NoTree} \cup [ver : {0, disk[l].ver, v}, files : {"part"}]

Emptying(l, v) ==
  \E t \in Torn(l, v) :
    disk' = [k \in Libs |-> IF k = l THEN t ELSE IF k \in Inside[l] THEN NoTree ELSE disk[k]]

Die ==
  /\ job # Idle
  /\ job' = Idle
  /\ unsettled' = TRUE
  /\ \/ UNCHANGED <<disk, pins, goPins>>
     \/ /\ Copying /\ Replaces
        /\ Emptying(Lib, disk[Lib].ver) /\ UNCHANGED <<pins, goPins>>
     \/ /\ Copying /\ job.phase = "copy"
        /\ Emptying(Lib, Ver) /\ UNCHANGED <<pins, goPins>>
     \/ /\ job.kind = "uninstall"
        /\ Emptying(job.lib, 0) /\ UNCHANGED <<pins, goPins>>
     \/ /\ job.kind = "uninstall" \/ (job.kind = "install" /\ job.todo = <<>> /\ job.phase = "check")
        /\ pins' = [l \in Libs |-> 0] /\ goPins' = 0     \* the lock file was cut, not yet written
        /\ UNCHANGED disk
  /\ UNCHANGED <<manifest, commands>>

PkgInit ==
  /\ disk = [l \in Libs |-> NoTree]
  /\ pins = [l \in Libs |-> 0]
  /\ goPins = 0
  /\ manifest = [l \in Libs |-> Undeclared]
  /\ job = Idle
  /\ commands = 0
  /\ unsettled = FALSE

PkgNext ==
  \/ \E l \in Libs, v \in Vers, f \in Flags : Install(l, {v}, TRUE, f[1], f[2])
  \/ \E l \in Libs, f \in Flags : InstallDeclared(l, f[1], f[2])
  \/ Descend \/ Sweep \/ Keep \/ Refuse \/ RemoveTree \/ CopyTree \/ WriteLock \/ WriteManifest
  \/ Frozen \/ FrozenDone
  \/ \E l \in Libs : Uninstall(l)
  \/ Unpin
  \/ \E used \in SUBSET Libs : Tidy(used)
  \/ Die

PkgSpec == PkgInit /\ [][PkgNext]_pkgVars

(* ------------------------------ properties ------------------------------ *)

\* Every library on disk finds each of its dependencies that is on disk in a version its
\* range admits, whatever was installed over what, until a command dies or stops halfway.
DemandsMet ==
  job = Idle /\ ~unsettled =>
    \A l \in Libs : Installed(l) =>
      \A d \in DepsOf(l, disk[l].ver) : Installed(d[1]) => disk[d[1]].ver \in d[2]

\* What verify hashes with the tree of l: whatever lies in its directory, but for the
\* directories of pinned libraries.
Strays(l) ==
  {k \in Inside[l] : /\ disk[k].files # "none" /\ pins[k] = 0
                     /\ ~\E p \in Inside[l] : pins[p] # 0 /\ k \in Inside[p]}

AsPinned(l) == disk[l] = [ver |-> pins[l], files |-> "whole"]

\* _verify_pin, and the exit code of lamc verify
Verified(l) == AsPinned(l) /\ Strays(l) = {}
VerifyPasses == \A l \in Libs : pins[l] # 0 => Verified(l)

\* Until a command dies or stops halfway, verify has nothing to report.
PinsMatchTrees == job = Idle /\ ~unsettled => VerifyPasses

\* Whatever earlier commands left behind, a frozen install that reports success has rebuilt
\* every pinned tree, the nested ones included, and cleared it of what dead commands left
\* there: anything else in its directory is an installed library, or lies in one.
FrozenRestores ==
  job.kind = "frozen" /\ job.todo = <<>> =>
    \A l \in Libs : pins[l] # 0 => AsPinned(l) /\ Strays(l) \subseteq Nested(l)

\* What verify advises when it reports drift (install_cli.py:2319): a frozen install repairs
\* from the lock file, so that verify passes afterwards.
FrozenRepairs == job.kind = "frozen" /\ job.todo = <<>> => VerifyPasses

\* The Go version an install locks suits every library that is then on disk, also those
\* that were there before and those it did not touch.
GoPinsCover ==
  job.kind = "install" /\ job.phase = "locked" =>
    \A l \in Libs : Installed(l) /\ GoNeeds[l][disk[l].ver] # 0 =>
      /\ goPins >= GoNeeds[l][disk[l].ver]
      /\ GoMajor[goPins] = GoMajor[GoNeeds[l][disk[l].ver]]
=============================================================================
