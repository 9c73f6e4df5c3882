----------------------------- MODULE Namespaces -----------------------------
(***************************************************************************)
(* All Lam modules of a program link into one Go package.  build_plans     *)
(* (compiler/namespacing.py) renames the definitions of different modules  *)
(* that would share a Go identifier, and for each module plans how its     *)
(* imports are spelled after the rewrite: an alias becomes the canonical   *)
(* name where that is free, a member of an imported module becomes a name  *)
(* of its own where its name is taken.                                     *)
(*                                                                         *)
(* The model plans one module, here, that imports from lib and sub; lib    *)
(* may pass on a name of sub.  One step handles one import binding.  A     *)
(* spelling is a name with the tag of the module that was appended to it.  *)
(* module_tag makes one tag of some pairs of module names (@a/b and a_b);  *)
(* a module stands here for its tag, so that such pairs are left out.      *)
(***************************************************************************)
EXTENDS Naturals, Sequences, FiniteSets

CONSTANTS
  LibKinds,   \* kinds of definitions that lib may hold, out of "func", "private func",
              \* "const" and "class"
  HereKinds   \* those that sub and here may hold

VARIABLES
  symbols,    \* top_level_symbols of each module: name -> kind
  relayed,    \* the names lib itself imports from sub
  entry,      \* here is the main module
  bindings,   \* the imports of here, in source order
  plan,       \* the plan of here so far
  bound       \* how many bindings were handled

nameVars == <<symbols, relayed, entry, bindings, plan, bound>>

Names3 == {"x", "X"}
Libraries == {"lib", "sub"}

Plain(n) == [name |-> n, tag |-> ""]
Tagged(n, tag) == [name |-> n, tag |-> tag]
Public(n) == CASE n = "x" -> "X" [] n = "y" -> "Y" [] n = "p" -> "P" [] OTHER -> n
Private(n) == CASE n = "X" -> "x" [] OTHER -> n

(* -------------------------- renaming definitions ------------------------ *)

\* A definition: its module and its name there
Definitions == UNION {{<<q, n>> : n \in DOMAIN symbols[q]} : q \in DOMAIN symbols}
Kind(d) == symbols[d[1]][d[2]]

\* Functions and types are exported in Go, private functions are not, a const keeps its
\* spelling.
DefaultGo(d) ==
  CASE Kind(d) = "const" -> d[2]
    [] Kind(d) = "private func" -> Private(d[2])
    [] OTHER -> Public(d[2])

\* Mutation: only names that are spelled alike in Lam are compared.
ClashesAsWritten(d) == \E e \in Definitions : d[1] # e[1] /\ d[2] = e[2]

Clashes(d) == \E e \in Definitions : d[1] # e[1] /\ (d[2] = e[2] \/ DefaultGo(d) = DefaultGo(e))
ValueClashes(d) ==
  Kind(d) = "const" /\ \E e \in Definitions : d[1] = e[1] /\ d # e /\ DefaultGo(d) = DefaultGo(e)
Pinned(d) == d[1] = "here" /\ entry
Renamed(d) == (Clashes(d) /\ ~Pinned(d)) \/ ValueClashes(d)

\* the Lam name of a type, and the Go identifier of any definition
LamName(d) == IF Renamed(d) THEN Tagged(d[2], d[1]) ELSE Plain(d[2])
GoName(d) == IF Renamed(d) THEN Tagged(DefaultGo(d), d[1]) ELSE Plain(DefaultGo(d))

(* ------------------------------ resolution ------------------------------ *)

Nothing == <<>>
InLibrary(q, n) ==
  IF n \in DOMAIN symbols[q] THEN <<q, n>>
  ELSE IF q = "lib" /\ n \in relayed THEN <<"sub", n>> ELSE Nothing

\* of: the name of a from-import, or the members of p that are used after import m as p
From(q, n, l) == [module |-> q, local |-> l, of |-> {n}, whole |-> FALSE]
Whole(q, members) == [module |-> q, local |-> "p", of |-> members, whole |-> TRUE]

ImportedNames == {bindings[i].local : i \in DOMAIN bindings}
OwnNames == DOMAIN symbols["here"]

\* resolve_symbol(path, name) from here
InHere(n) ==
  IF n \in OwnNames THEN <<"here", n>>
  ELSE LET named == {i \in DOMAIN bindings : ~bindings[i].whole /\ bindings[i].local = n}
           first == CHOOSE i \in named : \A j \in named : i <= j
       IN IF named = {} THEN Nothing
          ELSE InLibrary(bindings[first].module, CHOOSE m \in bindings[first].of : TRUE)

(* ------------------------------- the plan ------------------------------- *)

With(f, k, v) == [x \in DOMAIN f \cup {k} |-> IF x = k THEN v ELSE f[x]]
ClaimOf(p, n) == IF n \in DOMAIN p.claimed THEN p.claimed[n] ELSE Nothing

\* claimed: what each Lam name stands for; rewrites: Lam name -> Lam name; go: Lam name of a
\* function or const -> Go identifier; access: member of a module -> Lam name
OwnPlan ==
  LET own == [n \in {Plain(m) : m \in OwnNames} |-> <<"here", n.name>>]
      new(isType) == {n \in DOMAIN own : Renamed(own[n]) /\ (Kind(own[n]) = "class") = isType}
  IN [claimed |-> own, rewrites |-> [n \in new(TRUE) |-> LamName(own[n])],
      go |-> [n \in new(FALSE) |-> GoName(own[n])], access |-> <<>>, failed |-> FALSE]

Taken(n) == n.tag = "" /\ n.name \in OwnNames \cup ImportedNames

\* Mutation: what keeps its Lam name is taken to keep its Go identifier.
RegisterPlainKept(p, n, d) ==
  LET claims == [p EXCEPT !.claimed = With(@, n, d)]
  IN IF ClaimOf(p, n) \notin {Nothing, d} THEN [p EXCEPT !.failed = TRUE]
     ELSE IF Kind(d) = "class" THEN [claims EXCEPT !.rewrites = With(@, n, LamName(d))]
     ELSE IF n = Plain(d[2]) THEN claims
     ELSE [claims EXCEPT !.go = With(@, n, GoName(d))]

\* register: n stands for definition d from now on.
Register(p, n, d) ==
  LET claims == [p EXCEPT !.claimed = With(@, n, d)]
      isType == Kind(d) = "class"
      refused == \/ ClaimOf(p, n) \notin {Nothing, d}
                 \/ /\ isType /\ n \notin {LamName(d), Plain(d[2])}
                    /\ ~Renamed(d) /\ Taken(Plain(d[2]))
      named == IF isType THEN n = LamName(d) ELSE n = Plain(d[2]) /\ ~Renamed(d)
  IN CASE refused -> [p EXCEPT !.failed = TRUE]
       [] ~refused /\ named -> claims
       [] ~refused /\ ~named /\ isType -> [claims EXCEPT !.rewrites = With(@, n, LamName(d))]
       [] ~refused /\ ~named /\ ~isType -> [claims EXCEPT !.go = With(@, n, GoName(d))]

\* How member m of the module b imports, which is d, is spelled
Spelled(p, b, m, d) ==
  LET n == Plain(m)
      own == IF ClaimOf(p, n) # Nothing THEN ClaimOf(p, n) ELSE InHere(m)
  IN IF (Taken(n) /\ own # d) \/ ClaimOf(p, n) \notin {Nothing, d} THEN Tagged(m, b.local) ELSE n

\* import q as p, for one member that is used
Member(p, b, m) ==
  LET d == InLibrary(b.module, m)
      reached(name) == [p EXCEPT !.access = With(@, m, name)]
  IN IF d = Nothing THEN p
     ELSE IF Kind(d) # "class" THEN LET n == Spelled(p, b, m, d) IN Register(reached(n), n, d)
     ELSE IF ClaimOf(p, LamName(d)) \notin {Nothing, d} THEN [p EXCEPT !.failed = TRUE]
     ELSE [reached(LamName(d)) EXCEPT !.claimed = With(@, LamName(d), d)]

\* the members in sorted order: upper case first
Members(p, b) ==
  LET upper == IF "X" \in b.of THEN Member(p, b, "X") ELSE p
  IN IF "x" \in b.of /\ ~upper.failed THEN Member(upper, b, "x") ELSE upper

\* from q import m as l
Name(p, b) ==
  LET m == CHOOSE n \in b.of : TRUE
      d == InLibrary(b.module, m)
      canonical == b.local # m /\ ~Taken(Plain(m)) /\ ClaimOf(p, Plain(m)) \in {Nothing, d}
  IN IF d = Nothing THEN p
     ELSE IF canonical
     THEN Register([p EXCEPT !.rewrites = With(@, Plain(b.local), Plain(m))], Plain(m), d)
     ELSE Register(p, Plain(b.local), d)

HandleBinding ==
  /\ bound < Len(bindings) /\ ~plan.failed
  /\ bound' = bound + 1
  /\ plan' = LET b == bindings[bound + 1] IN IF b.whole THEN Members(plan, b) ELSE Name(plan, b)
  /\ UNCHANGED <<symbols, relayed, entry, bindings>>

Planned == bound = Len(bindings) /\ ~plan.failed

\* rewrites are followed to their end: alias, canonical name, renamed class
Rewritten(n) ==
  LET once(k) == IF k \in DOMAIN plan.rewrites THEN plan.rewrites[k] ELSE k
  IN once(once(once(n)))

\* The imports that find what they name; the checker refuses those of private functions.
IsPrivate(d) == Kind(d) = "private func"
Exported(q) == {n \in Names3 : InLibrary(q, n) # Nothing /\ ~IsPrivate(InLibrary(q, n))}
Imports == UNION {{From(q, n, l) : n \in Exported(q), l \in {"x", "X", "y"}}
                    \cup {Whole(q, ms) : ms \in (SUBSET Exported(q)) \ {{}}} : q \in Libraries}

\* The checker has refused an import whose local name is taken.
Accepted == /\ bindings[1].local # bindings[2].local
            /\ ImportedNames \cap OwnNames = {}

Tables(names, kinds) == UNION {[S -> kinds] : S \in SUBSET names}
Small(names, kinds) == {t \in Tables(names, kinds) : Cardinality(DOMAIN t) <= 1}

NameInit ==
  /\ symbols \in [lib : Tables(Names3, LibKinds), sub : Small(Names3, HereKinds), here : Small(Names3, HereKinds)]
  /\ relayed \in {{}, {n \in DOMAIN symbols["sub"] : ~IsPrivate(<<"sub", n>>)} \ DOMAIN symbols["lib"]}
  /\ entry \in BOOLEAN
  /\ bindings \in Imports \X Imports
  /\ Accepted
  /\ plan = OwnPlan
  /\ bound = 0

NameNext == HandleBinding

NameSpec == NameInit /\ [][NameNext]_nameVars

(* ------------------------------ properties ------------------------------ *)

\* Two definitions of different modules never share a Go identifier, nor do a const and another
\* definition of one module, unless that one is renamed because of a third definition elsewhere:
\* the const is renamed too, and the last part of both names is that of their module.
GoNamesApart ==
  \A d, e \in Definitions : d # e /\ GoName(d) = GoName(e) =>
    /\ d[1] = e[1]
    /\ Kind(d) = "const" => Kind(e) # "const" /\ Clashes(e) /\ ~Pinned(e)

\* What a rewritten name n stands for, as the code generator finds out
Reaches(n, d) ==
  IF Kind(d) = "class" THEN n = LamName(d) /\ ClaimOf(plan, n) \in {Nothing, d}
  ELSE /\ ClaimOf(plan, n) = d
       /\ GoName(d) = IF n \in DOMAIN plan.go THEN plan.go[n] ELSE Plain(DefaultGo(<<d[1], n.name>>))

ReferencesReachDefinitions ==
  Planned =>
    /\ \A n \in OwnNames : Reaches(Rewritten(Plain(n)), <<"here", n>>)
    /\ \A i \in DOMAIN bindings : LET b == bindings[i] IN
         \A m \in b.of : Reaches(IF b.whole THEN plan.access[m] ELSE Rewritten(Plain(b.local)),
                                 InLibrary(b.module, m))
=============================================================================
