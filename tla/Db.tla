---------------------------------- MODULE Db ---------------------------------
(***************************************************************************)
(* Statements and transactions of lamdb.lam.  Db.exec sends a statement    *)
(* again when its error looks like one of the connection, up to a number   *)
(* of times; Db.transaction opens a Tx, hands it to a callback, and ends   *)
(* it by what the callback did to it and how it came back.  The callback   *)
(* may commit or roll back itself, any number of times and in any order,   *)
(* and may ignore what it is told.  An answer of the server may be lost,   *)
(* and the context may be cancelled at any time.                           *)
(*                                                                         *)
(* One call is made, on a handle of its own.  A savepoint is a statement   *)
(* like any other; database/sql and its drivers are external.              *)
(***************************************************************************)
EXTENDS Naturals

CONSTANTS
  Work,        \* the statements that are sent
  MaxRetries   \* Db.maxRetries, after setRetries

ASSUME DbAssumption == MaxRetries \in Nat

VARIABLES
  doing,       \* "nothing", "exec", "wait" (before a retry), "callback" or "finish" (after it)
  answer,      \* what the call gave: "none" yet, "ok", "rolled back", "error" or "panic"
  expired,     \* the context of the handle is cancelled
  sent,        \* exec: the attempts made
  unanswered,  \* history, exec: the attempts that took effect and gave an error
  times,       \* exec: how often the statement took effect
  connected,   \* transaction: its connection is up
  done,        \* sql.Tx: ended, by whatever side
  aborted,     \* the server refuses further statements of the transaction (PostgreSQL)
  rolledBack, committed,  \* the flags of Tx
  back,        \* how the callback came back: "ok", "error" (Err, or no Result) or "panic"
  applied,     \* the statements the callback was told Ok of
  lasting,     \* statements of the transaction that are in force for good
  inDoubt      \* history: a commit took effect and gave an error

execVars == <<sent, unanswered, times>>
txVars == <<connected, done, aborted, rolledBack, committed, back, applied, lasting, inDoubt>>
dbVars == <<doing, answer, expired, execVars, txVars>>

(* -------------------------------- exec ---------------------------------- *)

Exec ==
  /\ doing = "nothing"
  /\ doing' = "exec"
  /\ UNCHANGED <<answer, expired, execVars, txVars>>

\* A transient error is tried again.
Again(transient) == transient /\ sent < MaxRetries

\* Mutation: the loop does not stop at a success.
AttemptOn ==
  /\ doing = "exec" /\ answer = "none"
  /\ sent' = sent + 1 /\ times' = times + 1
  /\ answer' = IF sent < MaxRetries THEN "none" ELSE "ok"
  /\ UNCHANGED <<doing, expired, unanswered, txVars>>

\* One round of the loop that ends well.
Attempt ==
  /\ doing = "exec" /\ answer = "none"
  /\ sent' = sent + 1 /\ times' = times + 1 /\ answer' = "ok"
  /\ UNCHANGED <<doing, expired, unanswered, txVars>>

\* One that gives an error; effect: the statement was done all the same.
AttemptFails(transient, effect) ==
  /\ doing = "exec" /\ answer = "none"
  /\ sent' = sent + 1
  /\ IF effect THEN times' = times + 1 /\ unanswered' = unanswered + 1
               ELSE UNCHANGED <<times, unanswered>>
  /\ IF Again(transient) THEN doing' = "wait" /\ UNCHANGED answer
                         ELSE answer' = "error" /\ UNCHANGED doing
  /\ UNCHANGED <<expired, txVars>>

\* lamDbRetryWait: a cancelled context ends the loop.
Wait ==
  /\ doing = "wait"
  /\ doing' = "exec"
  /\ answer' = IF expired THEN "error" ELSE "none"
  /\ UNCHANGED <<expired, execVars, txVars>>

(* -------------------------- inside a transaction ------------------------ *)

\* begin may fail, as it does under a cancelled context.
BeginFails ==
  /\ doing = "nothing"
  /\ doing' = "finish" /\ answer' = "error"
  /\ UNCHANGED <<expired, execVars, txVars>>

Begin ==
  /\ doing = "nothing" /\ ~expired
  /\ doing' = "callback"
  /\ done' = FALSE
  /\ UNCHANGED <<answer, expired, execVars, connected, aborted, rolledBack, committed, back,
                 applied, lasting, inDoubt>>

\* The server can still take statements of the transaction.
Usable == ~done /\ connected /\ ~expired
InCallback == doing = "callback"

\* Tx.exec and Tx.query
Run(w) ==
  /\ InCallback /\ Usable /\ ~aborted
  /\ applied' = applied \cup {w}
  /\ UNCHANGED <<doing, answer, expired, execVars, connected, done, aborted, rolledBack, committed,
                 back, lasting, inDoubt>>

\* The statement fails; a server may then refuse the rest of the transaction.
RunFails ==
  /\ InCallback /\ Usable /\ ~aborted
  /\ aborted' \in BOOLEAN
  /\ UNCHANGED <<doing, answer, expired, execVars, connected, done, rolledBack, committed, back,
                 applied, lasting, inDoubt>>

\* A call in any other state gives an error and changes nothing.

(* What sql.Tx.Commit does: nothing in a transaction that is done or whose context is
   cancelled; else it is done, whatever the server says. *)
CommitWorks == Usable /\ ~aborted

TxCommit(works) ==
  /\ IF done \/ expired THEN ~works /\ UNCHANGED <<done, lasting, inDoubt>>
     ELSE /\ done' = TRUE
          /\ works => CommitWorks
          /\ \E effect \in BOOLEAN :
               /\ works => effect
               /\ effect => CommitWorks
               /\ lasting' = IF effect THEN applied ELSE lasting
               /\ inDoubt' = (inDoubt \/ (effect /\ ~works))
  /\ committed' = (committed \/ works)

\* Mutation: the flag of a rollback is set before it is tried.
TxRollbackFlagged(works) ==
  /\ works => ~done
  /\ done' = TRUE
  /\ rolledBack' = TRUE

\* sql.Tx.Rollback: what is not committed by now never is.
TxRollback(works) ==
  /\ works => ~done
  /\ done' = TRUE
  /\ rolledBack' = (rolledBack \/ works)

\* Tx.commit and Tx.rollback, called by the callback
Commit(works) ==
  /\ InCallback /\ TxCommit(works)
  /\ UNCHANGED <<doing, answer, expired, execVars, connected, aborted, rolledBack, back, applied>>

Rollback(works) ==
  /\ InCallback /\ TxRollback(works)
  /\ UNCHANGED <<doing, answer, expired, execVars, connected, aborted, committed, back, applied,
                 lasting, inDoubt>>

\* The callback comes back.
Return(how) ==
  /\ InCallback
  /\ doing' = "finish" /\ back' = how
  /\ UNCHANGED <<answer, expired, execVars, connected, done, aborted, rolledBack, committed, applied,
                 lasting, inDoubt>>

(* ----------------------- transaction, after its callback ---------------- *)

Finishing == doing = "finish" /\ answer = "none"

\* Err, no Result, or a panic: rolled back unless the callback has ended it.
EndFailed ==
  /\ Finishing /\ back # "ok"
  /\ IF rolledBack \/ committed THEN UNCHANGED <<done, rolledBack>>
     ELSE \E works \in BOOLEAN : TxRollback(works)
  /\ answer' = back
  /\ UNCHANGED <<doing, expired, execVars, connected, aborted, committed, back, applied, lasting, inDoubt>>

EndOk ==
  /\ Finishing /\ back = "ok"
  /\ IF rolledBack \/ committed
     THEN /\ answer' = IF rolledBack THEN "rolled back" ELSE "ok"
          /\ UNCHANGED <<done, committed, lasting, inDoubt>>
     ELSE \E works \in BOOLEAN : TxCommit(works) /\ answer' = IF works THEN "ok" ELSE "error"
  /\ UNCHANGED <<doing, expired, execVars, connected, aborted, rolledBack, back, applied>>

(* ------------------------------ from outside ---------------------------- *)

\* The context of the handle is cancelled, or its deadline passes.
Expire ==
  /\ ~expired /\ expired' = TRUE
  /\ UNCHANGED <<doing, answer, execVars, txVars>>

\* database/sql then rolls back, at some time.
ExpiredRollback ==
  /\ expired /\ ~done /\ done' = TRUE
  /\ UNCHANGED <<doing, answer, expired, execVars, connected, aborted, rolledBack, committed, back,
                 applied, lasting, inDoubt>>

\* The connection breaks, and the server rolls back.
Disconnect ==
  /\ connected /\ ~done /\ connected' = FALSE
  /\ UNCHANGED <<doing, answer, expired, execVars, done, aborted, rolledBack, committed, back,
                 applied, lasting, inDoubt>>

DbInit ==
  /\ doing = "nothing" /\ answer = "none" /\ expired = FALSE
  /\ sent = 0 /\ unanswered = 0 /\ times = 0
  /\ connected = TRUE /\ done = TRUE /\ aborted = FALSE
  /\ rolledBack = FALSE /\ committed = FALSE /\ back = "ok"
  /\ applied = {} /\ lasting = {} /\ inDoubt = FALSE

DbNext ==
  \/ Exec \/ Attempt \/ \E transient, effect \in BOOLEAN : AttemptFails(transient, effect)
  \/ Wait \/ Begin \/ BeginFails
  \/ \E w \in Work : Run(w)
  \/ RunFails
  \/ \E works \in BOOLEAN : Commit(works) \/ Rollback(works)
  \/ \E how \in {"ok", "error", "panic"} : Return(how)
  \/ EndFailed \/ EndOk
  \/ Expire \/ ExpiredRollback \/ Disconnect

DbSpec == DbInit /\ [][DbNext]_dbVars

(* ------------------------------ properties ------------------------------ *)

\* exec sends a statement again only when no attempt was answered, and never more often
\* than it was told: beside the attempts whose answer was lost, an Ok stands for one that
\* took effect and an error for none.
AppliedAsAnswered ==
  /\ doing = "exec" /\ answer = "ok" => times = unanswered + 1
  /\ doing = "exec" /\ answer # "ok" => times = unanswered
  /\ sent <= MaxRetries + 1

\* What transaction answers is what became of the transaction, whatever the callback did to
\* it and ignored: Ok(true), all its statements are in force; Ok(false), none is; an error or
\* a panic, none is, unless the callback had committed or the answer to a commit was lost.
\* And its connection is free again, or will be as its context is cancelled.
TransactionAnswers ==
  doing = "finish" /\ answer # "none" =>
    /\ answer = "ok" => lasting = applied
    /\ answer = "rolled back" => lasting = {}
    /\ answer \in {"error", "panic"} => lasting = {} \/ committed \/ inDoubt
    /\ done \/ expired
=============================================================================
