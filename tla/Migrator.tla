------------------------------ MODULE Migrator ------------------------------
(***************************************************************************)
(* Class Migrator of lammigrate.lam: up and down over a directory of .sql  *)
(* files and the table lam_migrations of one database.  A call lists the   *)
(* directory and the table first and works that list off; each statement,  *)
(* insert and delete is a commit of its own.  A call stops where a read, a *)
(* statement or a query fails, or where its process dies, and nothing is   *)
(* undone; another call may follow.  One call runs at a time: the code     *)
(* takes no lock.                                                          *)
(*                                                                         *)
(* Files are numbered in the order of their names.  Of the schema the      *)
(* model keeps which up statements are in force; the down section of a     *)
(* file undoes them in reverse, except for an irreversible file, whose     *)
(* down section is empty.                                                  *)
(***************************************************************************)
EXTENDS Naturals, FiniteSets

CONSTANTS Files,         \* the number of files there can be
          Statements,    \* how many up statements each file has
          Irreversible,  \* the files whose down section is empty
          Steps,         \* arguments of up and down; for up, 0 means all
          MaxCalls       \* bound on the calls of up

File == 1..Files

ASSUME MigratorAssumption == /\ Files \in Nat
                             /\ Statements \in [File -> Nat]
                             /\ Irreversible \subseteq File
                             /\ Steps \subseteq Nat
                             /\ MaxCalls \in Nat

VARIABLES disk,     \* the files in the directory
          id, batch,  \* the row of each file in lam_migrations; id 0: no row
          lastId,   \* the table's id counter, which never goes back
          inForce,  \* the up statements of each file that are in force
          pc,       \* "idle", "up" or "down"
          todo,     \* the files this call has still to run
          at,       \* statements of the file in hand: next one, 0 unread
          thisBatch,  \* the batch number of this up
          seen,     \* history: the files this call saw in the directory
          calls,    \* history: the calls of up made
          call,     \* history: the call of up that inserted each row
          torn      \* history: a call stopped amid the statements of these

table == <<id, batch, lastId>>
history == <<seen, calls, call, torn>>
vars == <<disk, table, inForce, pc, todo, at, thisBatch, history>>

Recorded == {f \in File : id[f] # 0}
MaxBatch == CHOOSE n \in {batch[f] : f \in Recorded} :
              \A f \in Recorded : batch[f] <= n

Init == /\ disk \in SUBSET File
        /\ id = [f \in File |-> 0]
        /\ batch = [f \in File |-> 0]
        /\ lastId = 0
        /\ inForce = [f \in File |-> {}]
        /\ pc = "idle"
        /\ todo = {}
        /\ at = 0
        /\ thisBatch = 0
        /\ seen = {}
        /\ calls = 0
        /\ call = [f \in File |-> 0]
        /\ torn = {}

(* The directory changes as branches are merged and checked out. *)
AddFile(f) == /\ f \notin disk
              /\ disk' = disk \cup {f}
              /\ UNCHANGED <<table, inForce, pc, todo, at, thisBatch, history>>

RemoveFile(f) == /\ f \in disk
                 /\ disk' = disk \ {f}
                 /\ UNCHANGED <<table, inForce, pc, todo, at, thisBatch, history>>
-----------------------------------------------------------------------------
NextBatchAgain ==      \* mutation: the last batch is not over
  IF Recorded = {} THEN 1 ELSE MaxBatch

(* _nextBatch *)
NextBatch == IF Recorded = {} THEN 1 ELSE MaxBatch + 1

(* list: the pending files, of which up(steps) takes the first ones. *)
Pending(steps) ==
  LET pending == disk \ Recorded IN
  {f \in pending : steps = 0 \/ Cardinality({g \in pending : g < f}) < steps}

(* down(1) takes the whole last batch, down(n) the n newest rows. *)
Target(steps) ==
  IF steps = 1
  THEN {f \in Recorded : \E g \in Recorded : /\ batch[f] = batch[g]
                                            /\ \A h \in Recorded : id[h] <= id[g]}
  ELSE {f \in Recorded : Cardinality({g \in Recorded : id[g] > id[f]}) < steps}

Up(steps) ==
  /\ pc = "idle"
  /\ calls < MaxCalls
  /\ Pending(steps) # {}
  /\ pc' = "up"
  /\ todo' = Pending(steps)
  /\ thisBatch' = NextBatch
  /\ seen' = disk
  /\ calls' = calls + 1
  /\ UNCHANGED <<disk, table, inForce, at, call, torn>>

Down(steps) ==
  /\ pc = "idle"
  /\ Target(steps) # {}
  /\ pc' = "down"
  /\ todo' = Target(steps)
  /\ UNCHANGED <<disk, table, inForce, at, thisBatch, history>>

(* The file in hand: up goes by name, down from the newest row.            *)
InHand(f) == /\ f \in todo
             /\ \A g \in todo : IF pc = "up" THEN f <= g ELSE id[g] <= id[f]

(* The number of statements in the section this call runs. *)
Length(f) == IF pc = "down" /\ f \in Irreversible THEN 0 ELSE Statements[f]

(* _sectionSql: the file is read when its turn comes. *)
ReadFile(f) == /\ InHand(f)
               /\ at = 0
               /\ f \in disk
               /\ at' = 1
               /\ UNCHANGED <<disk, table, inForce, pc, todo, thisBatch, history>>

RunUnchecked(f) ==     \* mutation: the result of exec is not looked at
  /\ InHand(f)
  /\ at \in 1..Length(f)
  /\ inForce' \in {inForce,
                   [inForce EXCEPT ![f] = IF pc = "up" THEN @ \cup {at}
                                          ELSE @ \ {Length(f) + 1 - at}]}
  /\ at' = at + 1
  /\ UNCHANGED <<disk, table, pc, todo, thisBatch, history>>

(* One statement of _runStatements succeeds.  Run again after a stop, or   *)
(* by the retry of db.exec, it changes nothing, if it does not fail.       *)
RunStatement(f) ==
  /\ InHand(f)
  /\ at \in 1..Length(f)
  /\ inForce' = [inForce EXCEPT ![f] = IF pc = "up" THEN @ \cup {at}
                                       ELSE @ \ {Length(f) + 1 - at}]
  /\ at' = at + 1
  /\ UNCHANGED <<disk, table, pc, todo, thisBatch, history>>

(* The call is done with file f and returns after the last one. *)
Finished(f) ==
  /\ todo' = todo \ {f}
  /\ pc' = IF todo = {f} THEN "idle" ELSE pc
  /\ at' = 0

(* The insert into lam_migrations that ends each file of up. *)
Record(f) == /\ pc = "up"
             /\ InHand(f)
             /\ at = Length(f) + 1
             /\ lastId' = lastId + 1
             /\ id' = [id EXCEPT ![f] = lastId + 1]
             /\ batch' = [batch EXCEPT ![f] = thisBatch]
             /\ call' = [call EXCEPT ![f] = calls]
             /\ torn' = torn \ {f}
             /\ Finished(f)
             /\ UNCHANGED <<disk, inForce, thisBatch, seen, calls>>

(* The delete that ends each file of down. *)
Forget(f) == /\ pc = "down"
             /\ InHand(f)
             /\ at = Length(f) + 1
             /\ id' = [id EXCEPT ![f] = 0]
             /\ batch' = [batch EXCEPT ![f] = 0]
             /\ call' = [call EXCEPT ![f] = 0]
             /\ torn' = torn \ {f}
             /\ Finished(f)
             /\ UNCHANGED <<disk, lastId, inForce, thisBatch, seen, calls>>

StopSkips ==           \* mutation: the call goes on with the next file
  \E f \in todo : /\ InHand(f)
                  /\ torn' = IF at > 1 THEN torn \cup {f} ELSE torn
                  /\ Finished(f)
                  /\ UNCHANGED <<disk, table, inForce, thisBatch, seen, calls, call>>

(* Any step of the call fails and up or down returns the error, or the     *)
(* process dies.                                                           *)
Stop == /\ pc # "idle"
        /\ pc' = "idle"
        /\ todo' = {}
        /\ at' = 0
        /\ torn' = torn \cup {f \in todo : InHand(f) /\ at > 1}
        /\ UNCHANGED <<disk, table, inForce, thisBatch, seen, calls, call>>
-----------------------------------------------------------------------------
Next == \/ \E f \in File : AddFile(f) \/ RemoveFile(f)
        \/ \E steps \in Steps : Up(steps) \/ Down(steps)
        \/ \E f \in File : ReadFile(f) \/ RunStatement(f) \/ Record(f) \/ Forget(f)
        \/ Stop

Spec == Init /\ [][Next]_vars
-----------------------------------------------------------------------------
(* The table tells the truth about the schema: a file amid whose           *)
(* statements no call is, or has stopped, has all its statements in force  *)
(* if it has a row, and none if it has not.  An irreversible file that was *)
(* rolled back keeps what it did.                                          *)
RecordAgrees ==
  \A f \in File \ torn :
    \/ InHand(f) /\ at > 1
    \/ inForce[f] = IF id[f] # 0 THEN 1..Statements[f] ELSE {}
    \/ f \in Irreversible /\ id[f] = 0 /\ inForce[f] = 1..Statements[f]

(* Doc of up: the files of one call share a batch number, so that down(1)  *)
(* rolls them back as a unit.  They share it with no other call, and later *)
(* rows are of the same or a later batch, whatever was rolled back or      *)
(* stopped in between.                                                     *)
BatchesFollowCalls ==
  \A f, g \in Recorded : /\ batch[f] = batch[g] <=> call[f] = call[g]
                         /\ id[f] < id[g] => batch[f] <= batch[g]

(* Files are applied in order: when a row is inserted, every earlier file  *)
(* the call saw has its row.                                               *)
NoGaps ==
  [][\A f \in File : id[f] = 0 /\ id'[f] # 0
                       => \A g \in seen : g < f => id[g] # 0]_vars

(* Doc of the class: a failure amid a file rolls back everything in that   *)
(* file.  Between calls a file is in force as a whole or not at all.       *)
FailedFileRolledBack ==
  pc = "idle" => \A f \in File : inForce[f] \in {{}, 1..Statements[f]}
=============================================================================
