---------------------------- MODULE MCToolchain -----------------------------
(***************************************************************************)
(* One instance of each part of the toolchain: the package manager, the    *)
(* flow analyses of the checker, the narrowing of a local, the lowering of *)
(* classes and of try and do, the naming of definitions, builds over their *)
(* caches, and the documents of the language server.  The parts share no   *)
(* state, so a behaviour is one of one part: the others rest.              *)
(***************************************************************************)
EXTENDS MCPackages, FlowAnalysis, Dispatch, Namespaces, TryLowering, Builds,
        Narrowing, Documents

VARIABLE part   \* the part that runs

vars == <<pkgVars, flowVars, classVars, nameVars, tryVars, buildVars, narrowVars, docVars, part>>

(* Builds: app reaches core directly or through mid, and core may import mid again. *)
Source(imports, version) == [imports |-> imports, version |-> version]
DefContents ==
  [core |-> {Source(<<>>, 1), Source(<<>>, 2), Source(<<"mid">>, 1)},
   mid |-> {Source(<<"core">>, 1), Source(<<>>, 1), Source(<<"core">>, 2)},
   app |-> {Source(<<"mid">>, 1), Source(<<"core", "mid">>, 1), Source(<<"mid">>, 2)}]
DefMainImports == <<"app", "core">>
DefExtends == {{}, {"core"}, {"core", "mid"}}

(* The one state in which a part with several initial states rests *)
ClassRests ==
  /\ bases = [c \in Classes |-> <<>>] /\ defines = [c \in Classes |-> {}]
  /\ inits = {} /\ making = <<>> /\ object = <<>>
NameRests ==
  /\ symbols = [q \in {"lib", "sub", "here"} |-> <<>>]
  /\ relayed = {} /\ entry = TRUE /\ bindings = <<>>
  /\ plan = OwnPlan /\ bound = 0
BuildRests ==
  /\ files = [m \in Modules |-> CHOOSE c \in Contents[m] : c.version = 1]
  /\ subs = {} /\ markers = {} /\ entries = <<>> /\ build = NoBuild
  /\ edits = 0 /\ builds = 0
NarrowRests ==
  /\ declared = "any" /\ held = "none" /\ regions = <<>> /\ chain = NoChain
  /\ rebinder = "later" /\ rebound = FALSE /\ reassigned = FALSE
DocsRest ==
  /\ onDisk = [p \in Paths |-> Absent] /\ opened = onDisk /\ indexed = onDisk
  /\ unreported = {} /\ scanned = FALSE /\ overwritten = {}

Init ==
  /\ part \in {"packages", "flow", "classes", "names", "tries", "builds", "narrowing", "documents"}
  /\ PkgInit /\ FlowInit /\ TryInit
  /\ IF part = "classes" THEN ClassInit ELSE ClassRests
  /\ IF part = "names" THEN NameInit ELSE NameRests
  /\ IF part = "builds" THEN BuildInit ELSE BuildRests
  /\ IF part = "narrowing" THEN NarrowInit ELSE NarrowRests
  /\ IF part = "documents" THEN DocInit ELSE DocsRest

Next ==
  /\ UNCHANGED part
  /\ \/ part = "packages" /\ PkgNext /\ UNCHANGED <<flowVars, classVars, nameVars, tryVars, buildVars, narrowVars, docVars>>
     \/ part = "flow" /\ FlowNext /\ UNCHANGED <<pkgVars, classVars, nameVars, tryVars, buildVars, narrowVars, docVars>>
     \/ part = "classes" /\ ClassNext /\ UNCHANGED <<pkgVars, flowVars, nameVars, tryVars, buildVars, narrowVars, docVars>>
     \/ part = "names" /\ NameNext /\ UNCHANGED <<pkgVars, flowVars, classVars, tryVars, buildVars, narrowVars, docVars>>
     \/ part = "tries" /\ TryNext /\ UNCHANGED <<pkgVars, flowVars, classVars, nameVars, buildVars, narrowVars, docVars>>
     \/ part = "builds" /\ BuildNext /\ UNCHANGED <<pkgVars, flowVars, classVars, nameVars, tryVars, narrowVars, docVars>>
     \/ part = "narrowing" /\ NarrowNext /\ UNCHANGED <<pkgVars, flowVars, classVars, nameVars, tryVars, buildVars, docVars>>
     \/ part = "documents" /\ DocNext /\ UNCHANGED <<pkgVars, flowVars, classVars, nameVars, tryVars, buildVars, narrowVars>>

Spec == Init /\ [][Next]_vars
=============================================================================
