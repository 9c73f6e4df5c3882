---------------------------- MODULE TryLowering -----------------------------
(***************************************************************************)
(* What the Go text of try and do statements does (compiler/visitors/      *)
(* statements.py), beside what the statements mean.  A try with a catch    *)
(* becomes a closure with a deferred recover, so that a return inside it   *)
(* only leaves the closure: it records its value and raises a sentinel,    *)
(* which the code after each closure passes on.  A do becomes a closure    *)
(* that returns a Result; a return inside it has a flag of its own.        *)
(*                                                                         *)
(* The body of the function is not chosen beforehand: each step executes   *)
(* one more statement, or leaves the suite that runs.  Whether a try has   *)
(* a matching clause, a finally or an else is chosen when it matters.  A   *)
(* return or ? in a finally suite, a try without catch and an async        *)
(* function are left out.                                                  *)
(***************************************************************************)
EXTENDS Naturals, Sequences, SequencesExt

CONSTANTS
  Values,      \* what a return may return
  MaxStmts,    \* bound of the model: statements executed
  MaxNesting   \* bound of the model: statements inside one another

\* 0 stands for the zero value that the named result starts with.
ASSUME ValuesAssumption == 0 \notin Values

VARIABLES
  running,    \* the try and do statements around the suite that runs, the innermost last
  flow,       \* "run", or "leave" (a Go return) or "panic" on its way out, or how the call ended
  slots,      \* every __lamShouldReturn (ret) and __lamPanicked (pan) that was declared
  slot,       \* the pair that is in scope, 0 for none
  retval,     \* the named result of the function
  due,        \* what the program asked for and did not get yet: a return, a ?, a raise
  stale,      \* history: code began to run while the sentinel in its scope asked for a return
  stmts

tryVars == <<running, flow, slots, slot, retval, due, stale, stmts>>

None == [kind |-> "none"]
Inner == running[Len(running)]
Running(kind, parts) == running # <<>> /\ Inner.kind = kind /\ Inner.part \in parts
Statement == flow = "run" /\ stmts < MaxStmts /\ stmts' = stmts + 1

Asks(s) == s # 0 /\ slots[s].ret

\* _in_try_iife and _do_return_target, inside the statements around
DoBodies(around) == {i \in DOMAIN around : around[i].kind = "do" /\ around[i].part = "body"}
DoBody(around) == IF DoBodies(around) = {} THEN 0 ELSE CHOOSE i \in DoBodies(around) : \A j \in DoBodies(around) : j <= i
InTryIife(around) ==
  \E i \in (DoBody(around) + 1)..Len(around) : around[i].kind = "try" /\ around[i].part \in {"body", "handler"}

\* The inner statement is over: how the suite around goes on
Pop(how) == running' = Front(running) /\ slot' = Inner.slot /\ flow' = how
EnterPart(frame) == running' = [running EXCEPT ![Len(running)] = frame] /\ slot' = Inner.slot /\ flow' = "run"

(* ------------------------------ statements ------------------------------ *)

\* Mutation: a return in a do body forgets that a try of the body is in its way.
EmitReturnPastTry(around, s, v) ==
  LET d == DoBody(around) IN
    /\ running' = IF d = 0 THEN around ELSE [around EXCEPT ![d].flag = TRUE, ![d].val = v]
    /\ retval' = IF d = 0 THEN v ELSE retval
    /\ slots' = IF InTryIife(around) /\ d = 0 THEN [slots EXCEPT ![s].ret = TRUE] ELSE slots
    /\ flow' = "leave"

\* _emit_return_value inside the statements around, where the pair s is in scope
EmitReturn(around, s, v) ==
  LET d == DoBody(around) IN
    /\ running' = IF d = 0 THEN around ELSE [around EXCEPT ![d].flag = TRUE, ![d].val = v]
    /\ retval' = IF d = 0 THEN v ELSE retval
    /\ slots' = IF InTryIife(around) THEN [slots EXCEPT ![s].ret = TRUE] ELSE slots
    /\ flow' = "leave"

ReturnStmt(v) ==
  /\ Statement
  /\ \A i \in DOMAIN running : running[i].part # "finally"
  /\ EmitReturn(running, slot, v)
  /\ due' = [kind |-> "return", val |-> v]
  /\ UNCHANGED <<slot, stale>>

\* A ? that fails in a do body; elsewhere it is a return of its Result.
Propagate ==
  /\ Statement
  /\ LET d == DoBody(running) IN
       /\ d # 0 /\ \A i \in d..Len(running) : running[i].part # "finally"
       /\ running' = [running EXCEPT ![d].err = TRUE]
  /\ slots' = IF InTryIife(running) THEN [slots EXCEPT ![slot].ret = TRUE] ELSE slots
  /\ flow' = "leave"
  /\ due' = [kind |-> "?"]
  /\ UNCHANGED <<slot, retval, stale>>

RaiseStmt ==
  /\ Statement
  /\ flow' = "panic"
  /\ due' = [kind |-> "raise"]
  /\ UNCHANGED <<running, slots, slot, retval, stale>>

\* The first try in a scope declares the sentinels, any other one resets them.
TryStmt ==
  /\ Statement /\ Len(running) < MaxNesting
  /\ LET s == IF slot = 0 THEN Len(slots) + 1 ELSE slot IN
       /\ slots' = IF slot = 0 THEN Append(slots, [ret |-> FALSE, pan |-> FALSE])
                   ELSE [slots EXCEPT ![s] = [ret |-> FALSE, pan |-> FALSE]]
       /\ slot' = s
       /\ running' = Append(running, [kind |-> "try", part |-> "body", slot |-> s,
                                      pending |-> "run", owed |-> None])
  /\ stale' = (stale \/ Asks(slot))
  /\ UNCHANGED <<flow, retval, due>>

DoStmt ==
  /\ Statement /\ Len(running) < MaxNesting
  /\ running' = Append(running, [kind |-> "do", part |-> "body", slot |-> slot,
                                 flag |-> FALSE, val |-> 0, err |-> FALSE])
  /\ UNCHANGED <<flow, slots, slot, retval, due, stale>>

(* ---------------------------------- try --------------------------------- *)

\* The deferred recover, whether or not a clause matches
Recovered == IF flow = "panic" THEN [slots EXCEPT ![Inner.slot].pan = TRUE] ELSE slots

Catches ==
  /\ Running("try", {"body"}) /\ flow = "panic"
  /\ EnterPart([Inner EXCEPT !.part = "handler"])
  /\ slots' = Recovered
  /\ due' = IF due.kind = "raise" THEN None ELSE due
  /\ stale' = (stale \/ Asks(Inner.slot))
  /\ UNCHANGED <<retval, stmts>>

\* The deferred finally suite runs as code of its own, with what it holds up put aside.
RunFinally ==
  /\ Running("try", {"body", "handler"})
  /\ EnterPart([Inner EXCEPT !.part = "finally", !.pending = flow, !.owed = due])
  /\ slots' = Recovered
  /\ due' = None
  /\ UNCHANGED <<retval, stale, stmts>>

\* The closure is left: the else suite, or the check of the sentinel, follows.
TryElseSuite(pending, marks) ==
  /\ pending # "panic" /\ ~marks[Inner.slot].pan
  /\ EnterPart([Inner EXCEPT !.part = "else"])
  /\ stale' = (stale \/ Asks(Inner.slot))
TryDone(pending, marks) ==
  /\ Pop(IF pending = "panic" THEN "panic" ELSE IF marks[Inner.slot].ret THEN "leave" ELSE "run")
  /\ UNCHANGED stale
AfterIife(pending, marks) == TryElseSuite(pending, marks) \/ TryDone(pending, marks)

LeaveIife ==
  /\ Running("try", {"body", "handler"})
  /\ AfterIife(flow, Recovered)
  /\ slots' = Recovered
  /\ UNCHANGED <<retval, due, stmts>>

LeaveFinally ==
  /\ Running("try", {"finally"}) /\ flow # "panic"
  /\ AfterIife(Inner.pending, slots)
  /\ due' = Inner.owed
  /\ UNCHANGED <<slots, retval, stmts>>

FinallyPanics ==
  /\ Running("try", {"finally"}) /\ flow = "panic"
  /\ Pop("panic")
  /\ UNCHANGED <<slots, retval, due, stale, stmts>>

LeaveElse ==
  /\ Running("try", {"else"})
  /\ Pop(IF flow = "run" /\ Asks(Inner.slot) THEN "leave" ELSE flow)
  /\ UNCHANGED <<slots, retval, due, stale, stmts>>

(* ---------------------------------- do ---------------------------------- *)

DoReturns ==
  /\ Running("do", {"body"}) /\ flow # "panic" /\ Inner.flag
  /\ EmitReturn(Front(running), Inner.slot, Inner.val)
  /\ slot' = Inner.slot
  /\ UNCHANGED <<due, stale, stmts>>

DoFails ==
  /\ Running("do", {"body"}) /\ flow = "leave" /\ ~Inner.flag /\ Inner.err
  /\ EnterPart([Inner EXCEPT !.part = "handler"])
  /\ due' = IF due.kind = "?" THEN None ELSE due
  /\ stale' = (stale \/ Asks(Inner.slot))
  /\ UNCHANGED <<slots, retval, stmts>>

\* A closure that is left with neither a return nor an error has returned nil, whose
\* Error is looked at.
DoDone ==
  /\ Running("do", {"body"}) /\ (flow = "panic" \/ (~Inner.flag /\ (flow = "leave" => ~Inner.err)))
  /\ Pop(IF flow = "leave" THEN "panic" ELSE flow)
  /\ UNCHANGED <<slots, retval, due, stale, stmts>>

LeaveDoHandler ==
  /\ Running("do", {"handler"})
  /\ Pop(flow)
  /\ UNCHANGED <<slots, retval, due, stale, stmts>>

FunctionEnds ==
  /\ running = <<>> /\ flow \in {"run", "leave", "panic"}
  /\ flow' = IF flow = "panic" THEN "crashed" ELSE "returned"
  /\ UNCHANGED <<running, slots, slot, retval, due, stale, stmts>>

TryInit ==
  /\ running = <<>> /\ flow = "run"
  /\ slots = <<>> /\ slot = 0
  /\ retval = 0
  /\ due = None /\ stale = FALSE
  /\ stmts = 0

TryNext ==
  \/ \E v \in Values : ReturnStmt(v)
  \/ Propagate \/ RaiseStmt \/ TryStmt \/ DoStmt
  \/ Catches \/ RunFinally \/ LeaveIife \/ LeaveFinally \/ FinallyPanics \/ LeaveElse
  \/ DoReturns \/ DoFails \/ DoDone \/ LeaveDoHandler \/ FunctionEnds

TrySpec == TryInit /\ [][TryNext]_tryVars

(* ------------------------------ properties ------------------------------ *)

\* A return, a failed ? and a raise get where they were sent, through any nesting of try and
\* do and through every finally suite on the way, and nothing else leaves a suite: code runs
\* only while nothing is due, and the call ends with the value that was returned.  Left aside
\* are calls in which code began while the sentinel of its scope still asked for a return.
ExitsAsAsked ==
  ~stale =>
    CASE flow = "run" -> due = None
      [] flow = "leave" -> due.kind \in {"return", "?"}
      [] flow \in {"panic", "crashed"} -> due.kind = "raise"
      [] OTHER -> due = IF retval = 0 THEN None ELSE [kind |-> "return", val |-> retval]
=============================================================================
