---------------------------- MODULE FlowAnalysis ----------------------------
(***************************************************************************)
(* Two analyses of the checker (compiler/semantic.py): which locals are    *)
(* definitely assigned where a statement starts (_visit_if, _visit_for,    *)
(* _visit_try, ...), and whether a suite definitely terminates, by return  *)
(* or raise, so that a function needs no return at its end.                *)
(*                                                                         *)
(* The body of a function is not chosen beforehand: it grows by one step   *)
(* of the visitor at a time, each step opening, continuing or closing a    *)
(* construct or visiting a simple statement.  Beside what the visitor      *)
(* knows, the state carries what holds of the executions that get there:   *)
(* whether there is one at all, and the locals assigned in all of them.    *)
(* Every condition may come out either way and everything but a simple     *)
(* statement's own effect may raise.                                       *)
(***************************************************************************)
EXTENDS Integers, Sequences, FiniteSets

CONSTANTS
  Names,      \* locals of the function, bound in its scope before they are assigned
  MaxSteps,   \* bound of the model: steps of the visitor
  MaxDepth    \* bound of the model: constructs inside one another

VARIABLES
  at,     \* the suite being visited, up to the next statement
  open,   \* the constructs around it, the innermost last
  owed,   \* names whose mark came out of a do, or of the else of a loop that breaks
  steps

flowVars == <<at, open, owed, steps>>

\* The executions that reach a point: is there any, and what have all of them assigned?
Nowhere == [live |-> FALSE, have |-> Names]
Join(p, q) == [live |-> p.live \/ q.live, have |-> p.have \cap q.have]

\* marks: definite_names; ends: _suite_definitely_terminates; brk: _suite_contains_own_break;
\* exit: _suite_contains_loop_exit; shut: whatever follows is reported as unreachable.
Suite(marks, path) ==
  [marks |-> marks, path |-> path, ends |-> FALSE, brk |-> FALSE, exit |-> FALSE, shut |-> FALSE]

\* exits: the marks of the suites that may continue; full: one of the suites is always taken;
\* all: every suite so far terminates; hidden: names that only look assigned inside this suite.
Frame(kind, part) ==
  [kind |-> kind, part |-> part, outer |-> at, exits |-> {}, out |-> Nowhere, all |-> TRUE,
   full |-> FALSE, brk |-> FALSE, exit |-> FALSE, breaks |-> Nowhere, conts |-> Nowhere, hidden |-> {}]

Top == open[Len(open)]
In(kinds, parts) == open # <<>> /\ Top.kind \in kinds /\ Top.part \in parts
Step == steps < MaxSteps /\ steps' = steps + 1
Enter(frame) == /\ Len(open) < MaxDepth /\ ~at.shut
                /\ open' = Append(open, frame)
Continue(frame, suite) == open' = [open EXCEPT ![Len(open)] = frame] /\ at' = suite

\* The construct f is done: marks, path and ends are what it leaves to the suite around it.
Resume(f, marks, path, ends) ==
  /\ open' = SubSeq(open, 1, Len(open) - 1)
  /\ at' = [marks |-> marks, path |-> path, ends |-> f.outer.ends \/ ends,
            brk |-> f.outer.brk \/ f.brk, exit |-> f.outer.exit \/ f.exit, shut |-> FALSE]

Meet(S, incoming) == IF S = {} THEN incoming ELSE {n \in UNION S : \A s \in S : n \in s}

\* The suite just visited is one of the ways out of f.
AddSuite(f) ==
  [f EXCEPT !.exits = IF at.ends THEN @ ELSE @ \cup {at.marks},
            !.out = Join(@, at.path), !.all = @ /\ at.ends,
            !.brk = @ \/ at.brk, !.exit = @ \/ at.exit]

(* --------------------------- simple statements -------------------------- *)

Assign(n) ==
  /\ Step /\ ~at.shut
  /\ at' = [at EXCEPT !.marks = @ \cup {n}, !.path.have = @ \cup {n}]
  /\ UNCHANGED <<open, owed>>

\* return and raise
Leave ==
  /\ Step /\ ~at.shut
  /\ at' = [at EXCEPT !.path = Nowhere, !.ends = TRUE, !.shut = TRUE]
  /\ UNCHANGED <<open, owed>>

LoopBody(i) == open[i].kind \in {"for", "while"} /\ open[i].part = "body"
InnerLoop(i) == LoopBody(i) /\ \A j \in DOMAIN open : LoopBody(j) => j <= i

Break ==
  /\ Step /\ ~at.shut
  /\ \E i \in DOMAIN open :
       InnerLoop(i) /\ open' = [open EXCEPT ![i].breaks = Join(@, at.path)]
  /\ at' = [at EXCEPT !.path = Nowhere, !.brk = TRUE, !.exit = TRUE, !.shut = TRUE]
  /\ UNCHANGED owed

ContinueLoop ==
  /\ Step /\ ~at.shut
  /\ \E i \in DOMAIN open :
       InnerLoop(i) /\ open' = [open EXCEPT ![i].conts = Join(@, at.path)]
  /\ at' = [at EXCEPT !.path = Nowhere, !.exit = TRUE, !.shut = TRUE]
  /\ UNCHANGED owed

(* ------------------------------ if and match ---------------------------- *)

\* full: the first case of a match is an unguarded wildcard
OpenBranches(kind, full) ==
  /\ Step /\ Enter([Frame(kind, "branch") EXCEPT !.full = full])
  /\ kind = "if" => ~full
  /\ at' = Suite(at.marks, at.path)
  /\ UNCHANGED owed

\* elif and else, the next case; full: an else or a wildcard.  No case after a wildcard is taken.
NextBranch(full) ==
  /\ Step /\ In({"if", "match"}, {"branch"})
  /\ Top.kind = "if" => ~Top.full
  /\ Continue([AddSuite(Top) EXCEPT !.full = @ \/ full],
              Suite(Top.outer.marks, IF Top.full THEN Nowhere ELSE Top.outer.path))
  /\ UNCHANGED owed

\* Mutation: an if without else is as if one of its branches were always taken.
BranchExitsTaken(f) == f.exits
BranchExits(f) == IF f.full THEN f.exits ELSE f.exits \cup {f.outer.marks}

EndBranches ==
  /\ Step /\ In({"if", "match"}, {"branch"})
  /\ LET f == AddSuite(Top)
     IN Resume(f, Meet(BranchExits(f), f.outer.marks), IF f.full THEN f.out ELSE Join(f.out, f.outer.path),
               f.full /\ f.all)
  /\ UNCHANGED owed

(* --------------------------------- loops -------------------------------- *)

\* full: the iterable is a non-empty literal, or a range of one
OpenLoop(kind, full) ==
  /\ Step /\ Enter([Frame(kind, "body") EXCEPT !.full = full])
  /\ kind = "while" => ~full
  /\ at' = Suite(at.marks, at.path)
  /\ UNCHANGED owed

\* the marks, and the executions, when the loop has run out
AfterBody(f) == IF f.full /\ ~at.exit THEN at.marks ELSE f.outer.marks
Exhausted(f) == IF f.full THEN Join(at.path, f.conts) ELSE f.outer.path

EndLoop ==
  /\ Step /\ In({"for", "while"}, {"body"})
  /\ LET f == [Top EXCEPT !.exit = at.exit]
     IN Resume(f, AfterBody(f), Join(Exhausted(f), f.breaks), FALSE)
  /\ UNCHANGED owed

\* all: the body holds no break of this loop
LoopElse ==
  /\ Step /\ In({"for", "while"}, {"body"})
  /\ Continue([Top EXCEPT !.part = "else", !.all = ~at.brk, !.exit = at.exit,
                          !.exits = {AfterBody(Top)}],
              Suite(AfterBody(Top), Exhausted(Top)))
  /\ UNCHANGED owed

\* Mutation: a break that passes the else suite by is not looked for.
LoopTerminatesAnyway(f) == at.ends
LoopTerminates(f) == f.all /\ at.ends

\* A break of the else suite is one of the loop around.
EndLoopElse ==
  /\ Step /\ In({"for", "while"}, {"else"})
  /\ LET f == [Top EXCEPT !.brk = at.brk, !.exit = @ \/ at.exit]
     IN /\ Resume(f, at.marks, Join(at.path, f.breaks), LoopTerminates(f))
        /\ owed' = IF f.all THEN owed ELSE owed \cup (at.marks \ UNION f.exits)

(* --------------------------------- do, with ----------------------------- *)

OpenDo ==
  /\ Step /\ Enter(Frame("do", "body"))
  /\ at' = Suite(at.marks, at.path)
  /\ UNCHANGED owed

\* A ? may leave the body anywhere, yet its marks are those the handler starts with.
DoHandler ==
  /\ Step /\ In({"do"}, {"body"})
  /\ Continue([AddSuite(Top) EXCEPT !.part = "handler", !.hidden = at.marks \ Top.outer.marks],
              Suite(at.marks, Top.outer.path))
  /\ UNCHANGED owed

EndDo ==
  /\ Step /\ In({"do"}, {"handler"})
  /\ LET f == AddSuite(Top)
     IN /\ Resume(f, at.marks, f.out, f.all)
        /\ owed' = owed \cup (at.marks \ f.outer.marks)

OpenWith ==
  /\ Step /\ Enter(Frame("with", "body"))
  /\ at' = Suite(at.marks, at.path)
  /\ UNCHANGED owed

EndWith ==
  /\ Step /\ In({"with"}, {"body"})
  /\ Resume(AddSuite(Top), at.marks, at.path, FALSE)
  /\ UNCHANGED owed

(* ---------------------------------- try --------------------------------- *)

OpenTry ==
  /\ Step /\ Enter(Frame("try", "body"))
  /\ at' = Suite(at.marks, at.path)
  /\ UNCHANGED owed

\* The else suite comes after the catch clauses, but is visited before them, and only if the
\* body may continue; it does not count for termination.
TryElse ==
  /\ Step /\ In({"try"}, {"body"}) /\ ~at.ends
  /\ Continue([Top EXCEPT !.part = "else", !.all = at.ends, !.brk = at.brk, !.exit = at.exit],
              Suite(at.marks, at.path))
  /\ UNCHANGED owed

\* full: there is a catch clause
Catch ==
  /\ Step /\ In({"try"}, {"body", "else", "catch"})
  /\ Continue([AddSuite(Top) EXCEPT !.part = "catch", !.full = TRUE,
                                    !.all = IF Top.part = "else" THEN Top.all ELSE @],
              Suite(Top.outer.marks, Top.outer.path))
  /\ UNCHANGED owed

EndTry ==
  /\ Step /\ In({"try"}, {"catch"})
  /\ LET f == AddSuite(Top) IN Resume(f, Meet(f.exits, f.outer.marks), f.out, f.all)
  /\ UNCHANGED owed

\* It runs on every way out, yet is visited with the marks of those that continue.
Finally ==
  /\ Step /\ In({"try"}, {"body", "catch"})
  /\ LET f == AddSuite(Top)
         merged == Meet(f.exits, f.outer.marks)
     IN Continue([f EXCEPT !.part = "finally", !.hidden = merged \ f.outer.marks],
                 Suite(merged, f.outer.path))
  /\ UNCHANGED owed

EndFinally ==
  /\ Step /\ In({"try"}, {"finally"})
  /\ LET f == [Top EXCEPT !.brk = @ \/ at.brk, !.exit = @ \/ at.exit]
     IN Resume(f, at.marks, [live |-> f.out.live /\ at.path.live, have |-> f.out.have \cup at.path.have],
               f.full /\ f.all)
  /\ UNCHANGED owed

FlowInit ==
  /\ at = Suite({}, [live |-> TRUE, have |-> {}])
  /\ open = <<>>
  /\ owed = {}
  /\ steps = 0

FlowNext ==
  \/ \E n \in Names : Assign(n)
  \/ Leave \/ Break \/ ContinueLoop
  \/ \E kind \in {"if", "match"}, full \in BOOLEAN : OpenBranches(kind, full)
  \/ \E full \in BOOLEAN : NextBranch(full)
  \/ EndBranches
  \/ \E kind \in {"for", "while"}, full \in BOOLEAN : OpenLoop(kind, full)
  \/ EndLoop \/ LoopElse \/ EndLoopElse
  \/ OpenDo \/ DoHandler \/ EndDo \/ OpenWith \/ EndWith
  \/ OpenTry \/ TryElse \/ Catch \/ EndTry \/ Finally \/ EndFinally

FlowSpec == FlowInit /\ [][FlowNext]_flowVars

(* ------------------------------ properties ------------------------------ *)

\* A local that the checker lets be read is assigned in every execution that gets there,
\* through any nesting of the constructs.  Left aside are the marks that a do suite, a
\* finally suite and the else of a loop with a break are known to carry too far.
ReadsAssigned ==
  at.marks \ (owed \cup UNION {open[i].hidden : i \in DOMAIN open}) \subseteq at.path.have

\* No execution gets past a suite that is held to terminate, so that a function accepted
\* without a final return never falls off its end.
NoFallOffEnd == at.ends => ~at.path.live
=============================================================================
