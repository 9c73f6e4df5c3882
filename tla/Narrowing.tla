----------------------------- MODULE Narrowing ------------------------------
(***************************************************************************)
(* Where isinstance(x, T) is known to hold, the checker takes the local x  *)
(* for a T and the code generator binds a second Go variable of that name, *)
(* the shadow, to x viewed as a T (compiler/narrowing.py and the two       *)
(* modules that share it).  The facts come from the text of conditions and *)
(* from branches that all exit; a region that assigns x is not narrowed.   *)
(*                                                                         *)
(* One local x of a function, with classes B and C below A.  The function  *)
(* is not chosen beforehand: each step executes one more test or statement *)
(* and says of a region, as it is entered, whether its text assigns x.  A  *)
(* nested function may assign x, and be called anywhere.  An operand of    *)
(* and, or, or of a ternary, and a filtered comprehension, is a region in  *)
(* which nothing is executed but calls.                                    *)
(***************************************************************************)
EXTENDS Naturals, Sequences, SequencesExt

CONSTANT MaxRegions   \* bound of the model: regions inside one another

VARIABLES
  declared,   \* the declared type of x
  held,       \* the class of the value that x holds
  regions,    \* the regions around the statement that runs, the innermost last
  chain,      \* the if statement whose conditions are being tested
  rebinder,   \* the nested function that assigns x: "later", "plain" or "nonlocal"
  rebound,    \* history: it was called, without nonlocal, where x is narrowed
  reassigned  \* history: x was assigned in the else of an if that narrows it behind

narrowVars == <<declared, held, regions, chain, rebinder, rebound, reassigned>>

(* -------------------------------- types --------------------------------- *)

Instances(t) ==
  CASE t = "any" -> {"none", "A", "B", "C", "other"}
    [] t = "optional" -> {"none", "A", "B", "C"}      \* optional[A]
    [] t = "A" -> {"A", "B", "C"}
    [] OTHER -> {t}

Undecided == "no type"
NotNone == {}         \* the fact that x is not None; any other fact is a set of classes,
NoFact == {"object"}  \* but for the one that says nothing

\* _narrow_one: the type of a t where isinstance(x, c) holds
NarrowOne(t, c) ==
  IF t = "any" \/ (t \in {"A", "optional"} /\ c \in {"B", "C"}) \/ (t = "optional" /\ c = "A")
  THEN c ELSE Undecided

\* _narrowed_type: several classes give the nearest that is common to them.
NarrowedType(t, fact) ==
  LET each == {NarrowOne(t, c) : c \in fact}
  IN IF fact = NotNone THEN (IF t = "optional" THEN "A" ELSE Undecided)
     ELSE IF Undecided \in each THEN Undecided
     ELSE IF \E c \in fact : fact = {c} THEN CHOOSE c \in each : TRUE
     ELSE IF t = "A" THEN Undecided ELSE "A"

\* A plan is the type that facts give, and whether it takes a shadow: an optional[A] and an A
\* are the same Go pointer.
AddFact(p, fact) ==
  LET t == NarrowedType(p.type, fact)
  IN IF fact = NoFact \/ t = Undecided THEN p
     ELSE [type |-> t, shadow |-> p.shadow \/ p.type # "optional" \/ t # "A"]
Extend(p, facts) == AddFact(AddFact(p, facts[1]), facts[2])

\* The downcast of a value: nil if it is not of the type.
View(v, t) == IF v \in Instances(t) THEN v ELSE "none"

(* ------------------------------ conditions ------------------------------ *)

\* isinstance(x, target), negated or not; x == None is isinstance(x, None)
Tests == [of : {{"none"}, {"A"}, {"B"}, {"C"}, {"B", "C"}}, neg : BOOLEAN]
Conditions == [op : {"and"}, tests : {<<t>> : t \in Tests}, neg : {FALSE}]
                \cup [op : {"and", "or"}, tests : Tests \X Tests, neg : BOOLEAN]

Passes(t, v) == t.neg <=> \A c \in t.of : v \notin Instances(c)
Holds(c, v) ==
  c.neg <=> ~ IF c.op = "and" THEN \A i \in DOMAIN c.tests : Passes(c.tests[i], v)
                              ELSE \E i \in DOMAIN c.tests : Passes(c.tests[i], v)

\* The fact that the test number i gives where it is as truth says, if there is such a test
TestFact(c, i, truth) ==
  IF i \notin DOMAIN c.tests THEN NoFact
  ELSE LET t == c.tests[i]
       IN IF t.of = {"none"} THEN (IF truth <=> t.neg THEN NotNone ELSE NoFact)
          ELSE (IF truth <=> t.neg THEN NoFact ELSE t.of)

\* Mutation: not leaves the side of the condition as it is.
ConditionFactsUnturned(c, truth) ==
  IF truth <=> c.op = "and" THEN <<TestFact(c, 1, truth), TestFact(c, 2, truth)>> ELSE <<NoFact, NoFact>>

\* condition_facts: a true and gives the facts of its operands, so does a false or.
ConditionFacts(c, truth) ==
  LET side == ~(truth <=> c.neg)
  IN IF (side <=> c.op = "and") \/ Len(c.tests) = 1
     THEN <<TestFact(c, 1, side), TestFact(c, 2, side)>> ELSE <<NoFact, NoFact>>

\* What a condition may give where x holds v: its value, and the facts of that side
Outcomes ==
  [v \in Instances("any") |->
     {[truth |-> Holds(c, v), facts |-> ConditionFacts(c, Holds(c, v))] : c \in Conditions}]

(* ------------------------------- regions -------------------------------- *)

Same == "x"   \* reads go to x itself
TypeIn(around) == IF around = <<>> THEN declared ELSE Last(around).type
ViewIn(around) == IF around = <<>> THEN Same ELSE Last(around).view
SeenIn(around) == IF ViewIn(around) = Same THEN held ELSE ViewIn(around)

Unnarrowed(around) == [type |-> TypeIn(around), shadow |-> FALSE]
MayAssign == \A i \in DOMAIN regions : regions[i].assigns

\* A region around the statements to come.  exits: its block always leaves the one around it;
\* after: what is known of x behind it.
Region(around, kind, plan, assigns, exits, after) ==
  LET blocked == assigns \/ rebinder = "nonlocal"
  IN [kind |-> kind, assigns |-> assigns, exits |-> exits, after |-> after,
      type |-> IF blocked THEN TypeIn(around) ELSE plan.type,
      view |-> IF blocked \/ ~plan.shadow THEN ViewIn(around) ELSE View(SeenIn(around), plan.type)]

EnterRegion(around, region) == Len(around) < MaxRegions /\ regions' = Append(around, region)

NoChain == [open |-> FALSE]
InBlock == ~chain.open /\ (regions # <<>> => Last(regions).kind # "operand")

\* One condition of an if or elif, with the facts of those before it
Branch(c, before, exits, assigns) ==
  IF c.truth
  THEN /\ EnterRegion(regions, Region(regions, "branch", Extend(before, c.facts), assigns, exits, Unnarrowed(regions)))
       /\ chain' = NoChain
  ELSE /\ chain' = [open |-> TRUE, plan |-> Extend(before, c.facts), exits |-> exits]
       /\ UNCHANGED regions

\* exits: every if and elif branch does
If(c, exits, assigns) ==
  /\ InBlock
  /\ Branch(c, Unnarrowed(regions), exits, assigns)
  /\ UNCHANGED <<declared, held, rebinder, rebound, reassigned>>

Elif(c, assigns) ==
  /\ chain.open
  /\ Branch(c, chain.plan, chain.exits, assigns)
  /\ UNCHANGED <<declared, held, rebinder, rebound, reassigned>>

\* guard_facts: behind the statement, if only the else path gets there
AfterIf == IF chain.exits THEN chain.plan ELSE Unnarrowed(regions)

Else(exits, assigns) ==
  /\ chain.open
  /\ EnterRegion(regions, Region(regions, "branch", chain.plan, assigns, exits, AfterIf))
  /\ chain' = NoChain
  /\ UNCHANGED <<declared, held, rebinder, rebound, reassigned>>

\* The rest of the block around, where something is known of x
Rest(around, plan, assigns) ==
  IF plan = Unnarrowed(around) THEN ~assigns /\ regions' = around
  ELSE EnterRegion(around, Region(around, "rest", plan, assigns, FALSE, Unnarrowed(around)))

NoElse(assigns) ==
  /\ chain.open
  /\ Rest(regions, AfterIf, assigns)
  /\ chain' = NoChain
  /\ UNCHANGED <<declared, held, rebinder, rebound, reassigned>>

\* One iteration; the region is the body and the condition.
While(c, assigns) ==
  /\ InBlock /\ c.truth
  /\ EnterRegion(regions, Region(regions, "loop", Extend(Unnarrowed(regions), c.facts), assigns, FALSE, Unnarrowed(regions)))
  /\ UNCHANGED <<declared, held, chain, rebinder, rebound, reassigned>>

\* The operand behind c in an and or or, a branch of a ternary, the result of a comprehension
Operand(c) ==
  /\ ~chain.open
  /\ EnterRegion(regions, Region(regions, "operand", Extend(Unnarrowed(regions), c.facts), FALSE, FALSE, Unnarrowed(regions)))
  /\ UNCHANGED <<declared, held, chain, rebinder, rebound, reassigned>>

\* The block ends, with the rests in it.
Blocks == {i \in DOMAIN regions : regions[i].kind # "rest"}
EndBlock(assigns) ==
  /\ ~chain.open
  /\ \E i \in Blocks :
       /\ \A j \in Blocks : j <= i
       /\ ~regions[i].exits
       /\ LET around == SubSeq(regions, 1, i - 1) IN
            /\ assigns => \A j \in DOMAIN around : around[j].assigns
            /\ Rest(around, regions[i].after, assigns)
  /\ UNCHANGED <<declared, held, chain, rebinder, rebound, reassigned>>

\* break or continue; a return or raise ends the call
LeaveLoop ==
  /\ InBlock
  /\ \E i \in DOMAIN regions :
       /\ regions[i].kind = "loop" /\ \A j \in i + 1..Len(regions) : regions[j].kind # "loop"
       /\ regions' = SubSeq(regions, 1, i - 1)
  /\ UNCHANGED <<declared, held, chain, rebinder, rebound, reassigned>>

(* ------------------------------ assignments ----------------------------- *)

\* x is taken for more than it was declared, here or behind a statement around
Narrowed ==
  chain.open \/ \E i \in DOMAIN regions : {regions[i].type, regions[i].after.type} # {declared}

AssignLocal(v) ==
  /\ InBlock /\ MayAssign
  /\ v \in Instances(declared) /\ held' = v
  /\ reassigned' = (reassigned \/ Narrowed)
  /\ UNCHANGED <<declared, regions, chain, rebinder, rebound>>

\* assigned_names counts the assignments of nested functions where they are defined.
DefineRebinder ==
  /\ InBlock /\ MayAssign
  /\ rebinder = "later" /\ rebinder' = "plain"
  /\ UNCHANGED <<declared, held, regions, chain, rebound, reassigned>>

CallRebinder(v) ==
  /\ rebinder # "later"
  /\ v \in Instances(declared) /\ held' = v
  /\ rebound' = (rebound \/ (rebinder = "plain" /\ Narrowed))
  /\ UNCHANGED <<declared, regions, chain, rebinder, reassigned>>

NarrowInit ==
  /\ declared \in {"any", "optional", "A", "B"}
  /\ held \in Instances(declared)
  /\ regions = <<>> /\ chain = NoChain
  /\ rebinder \in {"later", "nonlocal"} /\ rebound = FALSE /\ reassigned = FALSE

NarrowNext ==
  \/ \E c \in Outcomes[SeenIn(regions)], assigns \in {MayAssign, FALSE} :
       \/ \E exits \in BOOLEAN : If(c, exits, assigns)
       \/ Elif(c, assigns)
       \/ While(c, assigns)
  \/ \E c \in Outcomes[SeenIn(regions)] : Operand(c)
  \/ \E assigns \in {MayAssign, FALSE} : NoElse(assigns) \/ \E exits \in BOOLEAN : Else(exits, assigns)
  \/ \E assigns \in BOOLEAN : EndBlock(assigns)
  \/ LeaveLoop
  \/ \E v \in Instances("any") : AssignLocal(v) \/ CallRebinder(v)
  \/ DefineRebinder

NarrowSpec == NarrowInit /\ [][NarrowNext]_narrowVars

(* ------------------------------ properties ------------------------------ *)

\* Where x is read, what Go reads is the value of x, and it is of the type the checker takes
\* x for.  Left aside are calls of a nested function that assigns x without nonlocal, and an
\* assignment in an else suite whose if narrows x behind it.
NarrowedHolds ==
  ~rebound /\ ~reassigned => SeenIn(regions) = held /\ held \in Instances(TypeIn(regions))

\* docs/SYNTAX.md: where isinstance(x, T) is known to hold, a local x is a T
NarrowedIsT == ~rebound => SeenIn(regions) = held /\ held \in Instances(TypeIn(regions))
=============================================================================
