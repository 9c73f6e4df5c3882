------------------------------ MODULE Dispatch ------------------------------
(***************************************************************************)
(* Classes over Go structs (compiler/visitors/subtyping.py and             *)
(* definitions.py): a subclass embeds a pointer to each parent, a value of *)
(* a base type is the embedded parent, and a parent keeps in _lamSelf the  *)
(* object it is part of, so that a call through it can reach an override.  *)
(* Constructors allocate the parents, bind the object into them, and do so *)
(* again whenever base.init(...) replaces a parent.                        *)
(*                                                                         *)
(* The model constructs one object, constructor by constructor, for each   *)
(* hierarchy in which no class is reached over two paths, so that a part   *)
(* of an object is named by its class.  Bases carry aliases: the checker   *)
(* then accepts members that are inherited from two sides.                 *)
(***************************************************************************)
EXTENDS Integers, Sequences, FiniteSets

CONSTANTS
  Depths,    \* bound of the model: classes of the program, 1..Depths; a base has a smaller number
  Methods    \* names of instance methods; an override has the signature of what it overrides

VARIABLES
  bases,     \* class_bases: the parents of each class, in order
  defines,   \* the methods each class declares
  inits,     \* the classes that declare init
  making,    \* the constructors under way, the innermost last
  object     \* the parts of the object once it is made

classVars == <<bases, defines, inits, making, object>>

ASSUME DepthsAssumption == Depths \in Nat \ {0}

Classes == 1..Depths
Nil == -1      \* no part there
Unbound == 0   \* _lamSelf is nil: the part is, or takes itself for, the whole object

(* ------------------------------- hierarchy ------------------------------ *)

\* In the hierarchy h: the parents of a class, and the class with all its ancestors
BasesIn(h, c) == {h[c][i] : i \in DOMAIN h[c]}
UpIn(h) == LET up[c \in Classes] == {c} \cup UNION {up[b] : b \in BasesIn(h, c)} IN up

BasesOf(c) == BasesIn(bases, c)
Up(c) == UpIn(bases)[c]
Ancestors(c) == Up(c) \ {c}
Descendants(c) == {d \in Classes : c \in Ancestors(d)}

\* No class is reached over two paths.
NoDiamond(h) ==
  \A c \in Classes : \A i, j \in DOMAIN h[c] :
    i # j => UpIn(h)[h[c][i]] \cap UpIn(h)[h[c][j]] = {}

Hierarchies ==
  {h \in [Classes -> {<<>>} \cup {<<b>> : b \in Classes} \cup (Classes \X Classes)] :
     /\ \A c \in Classes : \A i \in DOMAIN h[c] : h[c][i] < c
     /\ NoDiamond(h)}

\* Embedded pointers between an object of class c and its part a: one in each class on the way
Distance(c, a) == Cardinality({d \in Up(c) : a \in Ancestors(d)})

\* Go's promotion: the definition at the least depth, if there is only one there
Promoted(c, definers) ==
  LET found == Up(c) \cap definers
      top == {a \in found : \A b \in found : Distance(c, a) <= Distance(c, b)}
  IN IF Cardinality(top) = 1 THEN CHOOSE a \in top : TRUE ELSE Nil

Definers(m) == {c \in Classes : m \in defines[c]}
GoMethod(c, m) == Promoted(c, Definers(m))

\* The classes the checker takes m of c from: the definers that no other definer overrides
Sources(c, m) ==
  {a \in Up(c) \cap Definers(m) : \A b \in Up(c) \cap Definers(m) : a \notin Ancestors(b)}
Ambiguous(c) == \E m \in Methods : Cardinality(Sources(c, m)) > 1

\* The methods of c that get a wrapper _lamVirt_m and a place in the interface lamVirtual
VirtualMethods(c) == {m \in defines[c] : \E d \in Descendants(c) : m \in defines[d]}
Implements(c, a) == \A m \in VirtualMethods(a) : GoMethod(c, m) # Nil

(* ------------------------------ constructors ---------------------------- *)

\* &C{} with all its ancestors, and the binding of an object of class v into parts of it
Allocate(c) == [a \in Up(c) |-> Unbound]
Bind(obj, parts, v) ==
  [a \in DOMAIN obj |-> IF a \in parts /\ Implements(v, a) THEN v ELSE obj[a]]

\* into each parent and its ancestors
BindAll(obj, v) == Bind(obj, UNION {Up(b) : b \in BasesOf(v)}, v)

\* The parent whose constructor a class without init inherits: the first that has one
HasInit(c) == Up(c) \cap inits # {}
InitSource(c) == bases[c][CHOOSE i \in DOMAIN bases[c] :
                            HasInit(bases[c][i]) /\ \A j \in 1..(i - 1) : ~HasInit(bases[c][j])]

\* The constructor of c up to the first statement of its body.  todo: the parents whose init
\* the body may call; a constructor that inherits its init calls that one and no other.
Constructor(c) ==
  [class |-> c, obj |-> BindAll(Allocate(c), c),
   todo |-> IF c \in inits THEN BasesOf(c) ELSE IF HasInit(c) THEN {InitSource(c)} ELSE {},
   must |-> c \notin inits /\ HasInit(c)]

Making == making[Len(making)]

New(c) ==
  /\ making = <<>> /\ object = <<>>
  /\ making' = <<Constructor(c)>>
  /\ UNCHANGED <<bases, defines, inits, object>>

\* alias.init(...) in the body, or the call of an inherited constructor
ParentInit(b) ==
  /\ making # <<>> /\ b \in Making.todo
  /\ making' = Append([making EXCEPT ![Len(making)].todo = @ \ {b}, ![Len(making)].must = FALSE],
                      Constructor(b))
  /\ UNCHANGED <<bases, defines, inits, object>>

\* Mutation: the parts of the new parent go on believing they are all of it.
ReplaceOnly(f, b, part) == [f EXCEPT !.obj = [a \in DOMAIN @ |-> IF a \in Up(b) THEN part[a] ELSE @[a]]]

\* The new parent replaces the old one, and the object is bound into it and its ancestors.
Replace(f, b, part) ==
  [f EXCEPT !.obj = Bind([a \in DOMAIN @ |-> IF a \in Up(b) THEN part[a] ELSE @[a]], Up(b), f.class)]

Return ==
  /\ Len(making) > 1 /\ ~Making.must
  /\ LET rest == SubSeq(making, 1, Len(making) - 1)
     IN making' = [rest EXCEPT ![Len(rest)] = Replace(@, Making.class, Making.obj)]
  /\ UNCHANGED <<bases, defines, inits, object>>

Made ==
  /\ Len(making) = 1 /\ ~Making.must
  /\ object' = [class |-> Making.class, obj |-> Making.obj]
  /\ making' = <<>>
  /\ UNCHANGED <<bases, defines, inits>>

(* --------------------------------- calls -------------------------------- *)

\* A call x.m() with x of the static class s goes through the wrapper
NeedsVirtual(s, m) ==
  /\ \E c \in Sources(s, m) : m \in VirtualMethods(c)
  /\ \E d \in Descendants(s) : m \in defines[d]

\* The class whose m runs when x is the part s of obj; Nil when Go has no such method.
Called(obj, s, m) ==
  IF NeedsVirtual(s, m)
  THEN LET w == Promoted(s, {c \in Classes : m \in VirtualMethods(c)})
       IN IF obj[w] = Unbound THEN w ELSE GoMethod(obj[w], m)
  ELSE GoMethod(s, m)

\* The class that _lamDyn() of the part s finds
DynamicClass(obj, s) == IF obj[s] = Unbound THEN s ELSE obj[s]

ClassInit ==
  /\ bases \in Hierarchies
  /\ defines \in [Classes -> SUBSET Methods]
  /\ inits \in SUBSET Classes
  /\ making = <<>>
  /\ object = <<>>

ClassNext == New(Depths) \/ (\E b \in Classes : ParentInit(b)) \/ Return \/ Made

ClassSpec == ClassInit /\ [][ClassNext]_classVars

(* ------------------------------ properties ------------------------------ *)

\* Through whatever base an object is seen, a call runs the definition its own class has, and
\* a class test finds its own class: from the first statement of the constructor's body on, also
\* after parents were replaced.  A class that inherits a member from two sides is left aside: Go
\* has no such method for it, so it cannot be bound where that method is virtual.
Behaves(c, obj) ==
  ~Ambiguous(c) =>
    \A s \in Up(c) :
      /\ DynamicClass(obj, s) = c
      /\ \A m \in Methods : Cardinality(Sources(s, m)) = 1 => Sources(c, m) = {Called(obj, s, m)}

ViewsBehaveAsObject ==
  /\ \A i \in DOMAIN making : Behaves(making[i].class, making[i].obj)
  /\ object # <<>> => Behaves(object.class, object.obj)
=============================================================================
