--------------------------- MODULE DatabaseProofs ---------------------------
(***************************************************************************)
(* Proofs about Migrator, for any number of files and statements: the      *)
(* table tells the truth about the schema, files are applied without gaps, *)
(* batches are the calls that made them.  And about Db: the answers of     *)
(* exec and transaction, for any statements, callbacks and numbers of      *)
(* retries.  The two share no name.                                        *)
(***************************************************************************)
EXTENDS Migrator, Db, FiniteSetTheorems, WellFoundedInduction, TLAPS

(* What the steps need of the shape of the state. *)
Shape == /\ disk \subseteq File
         /\ id \in [File -> Nat]
         /\ lastId \in Nat
         /\ \A f \in File : id[f] <= lastId
         /\ inForce \in [File -> SUBSET Nat]
         /\ \A f \in File : inForce[f] \subseteq 1..Statements[f]
         /\ pc \in {"idle", "up", "down"}
         /\ todo \subseteq File
         /\ pc = "idle" => todo = {} /\ at = 0
         /\ at \in Nat
         /\ seen \subseteq File

(* Rows have ids of their own. *)
IdsDiffer == \A f, g \in File : id[f] # 0 /\ id[f] = id[g] => f = g

(* up works on files without a row, down on files with one. *)
TodoRows == \A f \in todo : id[f] = 0 <=> pc = "up"

(* The statements the call has run on the file in hand did their work. *)
Progress ==
  \A f \in todo : InHand(f) /\ at >= 1 =>
    /\ at <= Length(f) + 1
    /\ pc = "up" => 1..(at - 1) \subseteq inForce[f]
    /\ pc = "down" /\ f \notin Irreversible
         => inForce[f] \subseteq 1..(Statements[f] + 1 - at)

(* A recorded irreversible file was never left amid its statements. *)
KeptIntact == \A f \in Irreversible : id[f] # 0 => f \notin torn

(* The inductive invariant. *)
IInv == Shape /\ IdsDiffer /\ TodoRows /\ Progress /\ KeptIntact /\ RecordAgrees

(* One file is in hand at a time.                                          *)
LEMMA OneInHand ==
  ASSUME Shape, IdsDiffer, TodoRows, NEW f, NEW g, InHand(f), InHand(g)
  PROVE  f = g
<1>1. f \in File /\ g \in File /\ f \in todo /\ g \in todo
  BY DEF InHand, Shape
<1>2. CASE pc = "up"
  <2>1. f <= g /\ g <= f
    BY <1>1, <1>2 DEF InHand
  <2> QED BY <2>1, <1>1, MigratorAssumption DEF File
<1>3. CASE pc # "up"
  <2>1. id[f] <= id[g] /\ id[g] <= id[f]
    BY <1>1, <1>3 DEF InHand
  <2>2. id[f] \in Nat /\ id[g] \in Nat
    BY <1>1 DEF Shape
  <2>3. id[f] # 0
    BY <1>1, <1>3 DEF TodoRows
  <2> QED BY <1>1, <2>1, <2>2, <2>3 DEF IdsDiffer
<1> QED BY <1>2, <1>3

(* Only sections of the number of statements the file has, or none.        *)
LEMMA LengthIsNat ==
  ASSUME NEW f \in File
  PROVE  /\ Length(f) \in Nat
         /\ Statements[f] \in Nat
         /\ pc = "down" /\ f \in Irreversible => Length(f) = 0
         /\ ~(pc = "down" /\ f \in Irreversible) => Length(f) = Statements[f]
BY MigratorAssumption DEF Length

LEMMA InitIInv == Init => IInv
<1> SUFFICES ASSUME Init PROVE IInv
  OBVIOUS
<1> USE DEF Init
<1>1. Shape
  BY DEF Shape
<1>2. IdsDiffer /\ TodoRows /\ Progress /\ KeptIntact
  BY DEF IdsDiffer, TodoRows, Progress, KeptIntact
<1>3. RecordAgrees
  BY DEF RecordAgrees
<1> QED BY <1>1, <1>2, <1>3 DEF IInv
(* A step that leaves the rows, the schema and the call in progress alone. *)
LEMMA IdleSteps ==
  ASSUME IInv,
         disk' \subseteq File, seen' \subseteq File,
         UNCHANGED <<id, lastId, inForce, pc, todo, at, torn>>
  PROVE  IInv'
<1>1. Shape'
  BY DEF IInv, Shape
<1>2. IdsDiffer' /\ TodoRows' /\ KeptIntact'
  BY DEF IInv, IdsDiffer, TodoRows, KeptIntact
<1>3. Progress'
  BY DEF IInv, Progress, InHand, Length
<1>4. RecordAgrees'
  BY DEF IInv, RecordAgrees, InHand
<1> QED BY <1>1, <1>2, <1>3, <1>4 DEF IInv

(* A call begins: nothing is in hand yet.                                  *)
LEMMA BeginSteps ==
  ASSUME IInv, pc = "idle", pc' \in {"up", "down"},
         todo' \subseteq File,
         \A f \in todo' : id[f] = 0 <=> pc' = "up",
         seen' \subseteq File,
         UNCHANGED <<disk, id, lastId, inForce, at, torn>>
  PROVE  IInv'
<1>0. at = 0 /\ todo = {}
  BY DEF IInv, Shape
<1>1. Shape'
  BY DEF IInv, Shape
<1>2. IdsDiffer' /\ TodoRows' /\ KeptIntact'
  BY DEF IInv, IdsDiffer, TodoRows, KeptIntact
<1>3. Progress'
  BY <1>0 DEF Progress
<1>4. RecordAgrees'
  <2> SUFFICES ASSUME NEW f \in File, f \notin torn
               PROVE  \/ inForce[f] = IF id[f] # 0 THEN 1..Statements[f] ELSE {}
                      \/ f \in Irreversible /\ id[f] = 0 /\ inForce[f] = 1..Statements[f]
    BY DEF RecordAgrees
  <2>1. ~InHand(f)
    BY <1>0 DEF InHand
  <2> QED BY <2>1 DEF IInv, RecordAgrees
<1> QED BY <1>1, <1>2, <1>3, <1>4 DEF IInv

LEMMA UpStep == ASSUME IInv, NEW steps \in Steps, Up(steps) PROVE IInv'
<1>1. /\ pc = "idle" /\ pc' = "up"
      /\ todo' = Pending(steps) /\ seen' = disk
      /\ UNCHANGED <<disk, id, lastId, inForce, at, torn>>
  BY DEF Up, table
<1>2. \A f \in Pending(steps) : f \in disk /\ f \notin Recorded
  BY DEF Pending
<1>3. disk \subseteq File
  BY DEF IInv, Shape
<1>4. \A f \in todo' : f \in File /\ id[f] = 0
  BY <1>1, <1>2, <1>3 DEF Recorded
<1> QED BY <1>1, <1>3, <1>4, BeginSteps

LEMMA DownStep == ASSUME IInv, NEW steps \in Steps, Down(steps) PROVE IInv'
<1>1. /\ pc = "idle" /\ pc' = "down"
      /\ todo' = Target(steps)
      /\ UNCHANGED <<disk, id, lastId, inForce, at, torn, seen>>
  BY DEF Down, table, history
<1>2. \A f \in Target(steps) : f \in Recorded
  BY DEF Target
<1>3. seen \subseteq File
  BY DEF IInv, Shape
<1>4. \A f \in todo' : f \in File /\ id[f] # 0
  BY <1>1, <1>2 DEF Recorded
<1> QED BY <1>1, <1>3, <1>4, BeginSteps

LEMMA ReadFileStep == ASSUME IInv, NEW f \in File, ReadFile(f) PROVE IInv'
<1>1. /\ InHand(f) /\ at = 0 /\ at' = 1
      /\ UNCHANGED <<disk, id, lastId, inForce, pc, todo, torn, seen>>
  BY DEF ReadFile, table, history
<1>2. Shape'
  <2>1. pc # "idle"
    BY <1>1 DEF IInv, Shape, InHand
  <2> QED BY <1>1, <2>1 DEF IInv, Shape
<1>3. IdsDiffer' /\ TodoRows' /\ KeptIntact'
  BY <1>1 DEF IInv, IdsDiffer, TodoRows, KeptIntact
<1>4. Progress'
  <2> SUFFICES ASSUME NEW g \in todo
               PROVE  /\ 1 <= Length(g) + 1
                      /\ 1..0 \subseteq inForce[g]
                      /\ inForce[g] \subseteq 1..(Statements[g] + 1 - 1)
    BY <1>1 DEF Progress, InHand, Length
  <2>1. g \in File
    BY DEF IInv, Shape
  <2>2. inForce[g] \subseteq 1..Statements[g]
    BY <2>1 DEF IInv, Shape
  <2> QED BY <2>1, <2>2, LengthIsNat
<1>5. RecordAgrees'
  <2> SUFFICES ASSUME NEW g \in File, g \notin torn
               PROVE  \/ inForce[g] = IF id[g] # 0 THEN 1..Statements[g] ELSE {}
                      \/ g \in Irreversible /\ id[g] = 0 /\ inForce[g] = 1..Statements[g]
    BY <1>1 DEF RecordAgrees
  <2> QED BY <1>1 DEF IInv, RecordAgrees
<1> QED BY <1>2, <1>3, <1>4, <1>5 DEF IInv

LEMMA RunStatementStep == ASSUME IInv, NEW f \in File, RunStatement(f) PROVE IInv'
<1> DEFINE result == [inForce EXCEPT ![f] = IF pc = "up" THEN @ \cup {at}
                                            ELSE @ \ {Length(f) + 1 - at}]
<1>1. /\ InHand(f) /\ at \in 1..Length(f) /\ at' = at + 1
      /\ inForce' = result
      /\ UNCHANGED <<disk, id, lastId, pc, todo, torn, seen>>
  BY DEF RunStatement, table, history
<1>2. f \in todo /\ pc # "idle"
  BY <1>1 DEF IInv, Shape, InHand
<1>3. /\ Length(f) = Statements[f] /\ Statements[f] \in Nat
      /\ at \in Nat /\ 1 <= at /\ at <= Statements[f]
      /\ ~(pc = "down" /\ f \in Irreversible)
  BY <1>1, LengthIsNat
<1>4. inForce[f] \subseteq 1..Statements[f]
  BY DEF IInv, Shape
<1>5. /\ \A g \in File \ {f} : inForce'[g] = inForce[g]
      /\ pc = "up" => inForce'[f] = inForce[f] \cup {at}
      /\ pc # "up" => inForce'[f] = inForce[f] \ {Statements[f] + 1 - at}
      /\ inForce' \in [File -> SUBSET Nat]
  <2>1. inForce \in [File -> SUBSET Nat]
    BY DEF IInv, Shape
  <2> QED BY <1>1, <1>3, <2>1
<1>6. Shape'
  <2>1. \A g \in File : inForce'[g] \subseteq 1..Statements[g]
    <3> SUFFICES ASSUME NEW g \in File PROVE inForce'[g] \subseteq 1..Statements[g]
      OBVIOUS
    <3>1. CASE g = f
      BY <3>1, <1>3, <1>4, <1>5
    <3>2. CASE g # f
      BY <3>2, <1>5 DEF IInv, Shape
    <3> QED BY <3>1, <3>2
  <2>2. at' \in Nat
    BY <1>1, <1>3
  <2> QED BY <1>1, <1>2, <1>5, <2>1, <2>2 DEF IInv, Shape
<1>7. IdsDiffer' /\ TodoRows' /\ KeptIntact'
  BY <1>1 DEF IInv, IdsDiffer, TodoRows, KeptIntact
<1>8. \A g : InHand(g) => g = f
  BY <1>1, OneInHand DEF IInv
<1>9. Progress'
  <2> SUFFICES /\ at + 1 <= Statements[f] + 1
               /\ pc = "up" => 1..at \subseteq inForce'[f]
               /\ pc = "down" => inForce'[f] \subseteq 1..(Statements[f] + 1 - (at + 1))
    <3>1. \A g \in todo : InHand(g)' => g = f
      BY <1>1, <1>8 DEF InHand
    <3>2. Length(f)' = Statements[f]
      BY <1>1, <1>3 DEF Length
    <3>3. at' - 1 = at
      BY <1>1, <1>3
    <3> QED BY <1>1, <3>1, <3>2, <3>3 DEF Progress
  <2>1. /\ pc = "up" => 1..(at - 1) \subseteq inForce[f]
        /\ pc = "down" => inForce[f] \subseteq 1..(Statements[f] + 1 - at)
    BY <1>1, <1>2, <1>3 DEF IInv, Progress
  <2>2. pc = "up" => 1..at \subseteq inForce'[f]
    BY <1>3, <1>5, <2>1
  <2>3. pc = "down" => inForce'[f] \subseteq 1..(Statements[f] + 1 - (at + 1))
    BY <1>3, <1>5, <2>1
  <2> QED BY <1>3, <2>2, <2>3
<1>10. RecordAgrees'
  <2> SUFFICES ASSUME NEW g \in File, g \notin torn
               PROVE  \/ InHand(g)' /\ at' > 1
                      \/ inForce'[g] = IF id[g] # 0 THEN 1..Statements[g] ELSE {}
                      \/ g \in Irreversible /\ id[g] = 0 /\ inForce'[g] = 1..Statements[g]
    BY <1>1 DEF RecordAgrees
  <2>1. CASE g = f
    BY <2>1, <1>1, <1>3 DEF InHand
  <2>2. CASE g # f
    BY <2>2, <1>5, <1>8 DEF IInv, RecordAgrees
  <2> QED BY <2>1, <2>2
<1> QED BY <1>6, <1>7, <1>9, <1>10 DEF IInv

(* What the end of a file leaves in force.                                 *)
LEMMA EndOfFile ==
  ASSUME IInv, NEW f \in File, InHand(f), at = Length(f) + 1
  PROVE  /\ pc = "up" => inForce[f] = 1..Statements[f]
         /\ pc = "down" /\ f \notin Irreversible => inForce[f] = {}
         /\ pc = "down" /\ f \in Irreversible => inForce[f] = 1..Statements[f]
<1>1. f \in todo /\ pc \in {"up", "down"}
  BY DEF InHand, IInv, Shape
<1>2. inForce[f] \subseteq 1..Statements[f]
  BY DEF IInv, Shape
<1>3. at >= 1
  BY LengthIsNat
<1>4. CASE pc = "up"
  <2>1. Length(f) = Statements[f] /\ Statements[f] \in Nat /\ at - 1 = Statements[f]
    BY <1>4, LengthIsNat
  <2>2. 1..(at - 1) \subseteq inForce[f]
    BY <1>1, <1>3, <1>4 DEF IInv, Progress
  <2> QED BY <1>2, <1>4, <2>1, <2>2
<1>5. CASE pc = "down" /\ f \notin Irreversible
  <2>1. Statements[f] \in Nat /\ Statements[f] + 1 - at = 0
    BY <1>5, LengthIsNat
  <2>2. inForce[f] \subseteq 1..0
    BY <1>1, <1>3, <1>5, <2>1 DEF IInv, Progress
  <2> QED BY <1>5, <2>2
<1>6. CASE pc = "down" /\ f \in Irreversible
  <2>1. at = 1
    BY <1>6, LengthIsNat
  <2>2. id[f] # 0 /\ f \notin torn
    BY <1>1, <1>6 DEF IInv, TodoRows, KeptIntact
  <2> QED BY <1>6, <2>1, <2>2 DEF IInv, RecordAgrees
<1> QED BY <1>1, <1>4, <1>5, <1>6

(* The row of file f is inserted or deleted, and f is done.                *)
LEMMA RowSteps ==
  ASSUME IInv, NEW f \in File, InHand(f), at = Length(f) + 1, Finished(f),
         NEW row \in Nat,
         id' = [id EXCEPT ![f] = row],
         lastId' \in Nat, lastId <= lastId', row <= lastId',
         row # 0 => lastId < row,
         pc = "up" <=> row # 0,
         torn' = torn \ {f},
         UNCHANGED <<disk, inForce, seen>>
  PROVE  IInv'
<1>1. f \in todo /\ pc \in {"up", "down"}
  BY DEF InHand, IInv, Shape
<1>2. todo' = todo \ {f} /\ at' = 0 /\ pc' = IF todo = {f} THEN "idle" ELSE pc
  BY DEF Finished
<1>3. \A g \in File : id'[g] = IF g = f THEN row ELSE id[g]
  BY DEF IInv, Shape
<1>4. \A g \in File : id[g] \in Nat /\ id[g] <= lastId
  BY DEF IInv, Shape
<1>5. lastId \in Nat
  BY DEF IInv, Shape
<1>6. Shape'
  <2>1. id' \in [File -> Nat]
    BY DEF IInv, Shape
  <2>2. \A g \in File : id'[g] <= lastId'
    BY <1>3, <1>4, <1>5
  <2>3. pc' = "idle" => todo' = {}
    BY <1>1, <1>2
  <2>4. pc' \in {"idle", "up", "down"} /\ at' \in Nat /\ todo' \subseteq File
    BY <1>1, <1>2 DEF IInv, Shape
  <2> QED BY <1>2, <2>1, <2>2, <2>3, <2>4 DEF IInv, Shape
<1>7. IdsDiffer'
  <2> SUFFICES ASSUME NEW g \in File, NEW h \in File, id'[g] # 0, id'[g] = id'[h]
               PROVE  g = h
    BY DEF IdsDiffer
  <2> QED BY <1>3, <1>4, <1>5 DEF IInv, IdsDiffer
<1>8. TodoRows'
  <2> SUFFICES ASSUME NEW g \in todo' PROVE id'[g] = 0 <=> pc' = "up"
    BY DEF TodoRows
  <2>1. g \in todo /\ g # f /\ g \in File
    BY <1>2 DEF IInv, Shape
  <2>2. pc' = pc
    BY <1>2, <2>1
  <2> QED BY <1>3, <2>1, <2>2 DEF IInv, TodoRows
<1>9. Progress'
  BY <1>2 DEF Progress
<1>10. KeptIntact'
  <2> SUFFICES ASSUME NEW g \in Irreversible, id'[g] # 0 PROVE g \notin torn'
    BY DEF KeptIntact
  <2>1. g \in File
    BY MigratorAssumption
  <2> QED BY <1>3, <2>1 DEF IInv, KeptIntact
<1>11. RecordAgrees'
  <2> SUFFICES ASSUME NEW g \in File, g \notin torn'
               PROVE  \/ inForce[g] = IF id'[g] # 0 THEN 1..Statements[g] ELSE {}
                      \/ g \in Irreversible /\ id'[g] = 0 /\ inForce[g] = 1..Statements[g]
    BY DEF RecordAgrees
  <2>1. CASE g = f
    BY <2>1, <1>1, <1>3, EndOfFile
  <2>2. CASE g # f
    <3>1. ~InHand(g)
      BY <2>2, OneInHand DEF IInv
    <3>2. id'[g] = id[g] /\ g \notin torn
      BY <2>2, <1>3
    <3> QED BY <3>1, <3>2 DEF IInv, RecordAgrees
  <2> QED BY <2>1, <2>2
<1> QED BY <1>6, <1>7, <1>8, <1>9, <1>10, <1>11 DEF IInv

LEMMA RecordStep == ASSUME IInv, NEW f \in File, Record(f) PROVE IInv'
<1>1. lastId \in Nat
  BY DEF IInv, Shape
<1>2. /\ pc = "up" /\ InHand(f) /\ at = Length(f) + 1 /\ Finished(f)
      /\ id' = [id EXCEPT ![f] = lastId + 1] /\ lastId' = lastId + 1
      /\ torn' = torn \ {f}
      /\ UNCHANGED <<disk, inForce, seen>>
  BY DEF Record
<1>3. /\ lastId + 1 \in Nat /\ lastId <= lastId + 1 /\ lastId < lastId + 1
      /\ lastId + 1 # 0 /\ lastId + 1 <= lastId + 1
  BY <1>1
<1> QED BY <1>2, <1>3, RowSteps

LEMMA ForgetStep == ASSUME IInv, NEW f \in File, Forget(f) PROVE IInv'
<1>1. lastId \in Nat
  BY DEF IInv, Shape
<1>2. /\ pc = "down" /\ InHand(f) /\ at = Length(f) + 1 /\ Finished(f)
      /\ id' = [id EXCEPT ![f] = 0] /\ lastId' = lastId
      /\ torn' = torn \ {f}
      /\ UNCHANGED <<disk, inForce, seen>>
  BY DEF Forget
<1>3. 0 \in Nat /\ lastId <= lastId /\ 0 <= lastId
  BY <1>1
<1> QED BY <1>1, <1>2, <1>3, RowSteps

LEMMA StopStep == ASSUME IInv, Stop PROVE IInv'
<1>1. /\ pc # "idle" /\ pc' = "idle" /\ todo' = {} /\ at' = 0
      /\ torn' = torn \cup {f \in todo : InHand(f) /\ at > 1}
      /\ UNCHANGED <<disk, id, lastId, inForce, seen>>
  BY DEF Stop, table
<1>2. Shape'
  BY <1>1 DEF IInv, Shape
<1>3. IdsDiffer' /\ TodoRows' /\ Progress'
  BY <1>1 DEF IInv, IdsDiffer, TodoRows, Progress
<1>4. KeptIntact'
  <2> SUFFICES ASSUME NEW f \in Irreversible, id[f] # 0, f \in todo, InHand(f), at > 1
               PROVE  FALSE
    BY <1>1 DEF IInv, KeptIntact
  <2>1. f \in File /\ pc = "down"
    BY <1>1 DEF IInv, Shape, TodoRows
  <2>2. Length(f) = 0 /\ at \in Nat
    BY <2>1, LengthIsNat DEF IInv, Shape
  <2>3. at <= Length(f) + 1
    BY <2>2 DEF IInv, Progress
  <2> QED BY <2>2, <2>3
<1>5. RecordAgrees'
  <2> SUFFICES ASSUME NEW g \in File, g \notin torn'
               PROVE  \/ inForce[g] = IF id[g] # 0 THEN 1..Statements[g] ELSE {}
                      \/ g \in Irreversible /\ id[g] = 0 /\ inForce[g] = 1..Statements[g]
    BY <1>1 DEF RecordAgrees
  <2>1. g \notin torn /\ ~(InHand(g) /\ at > 1)
    BY <1>1 DEF InHand
  <2> QED BY <2>1 DEF IInv, RecordAgrees
<1> QED BY <1>2, <1>3, <1>4, <1>5 DEF IInv

LEMMA NextIInv == IInv /\ [Next]_vars => IInv'
<1> SUFFICES ASSUME IInv, [Next]_vars PROVE IInv'
  OBVIOUS
<1>1. ASSUME NEW f \in File, AddFile(f) \/ RemoveFile(f) PROVE IInv'
  <2>1. /\ UNCHANGED <<id, lastId, inForce, pc, todo, at, torn, seen>>
        /\ disk' \subseteq disk \cup {f}
    BY <1>1 DEF AddFile, RemoveFile, table, history
  <2>2. disk' \subseteq File /\ seen' \subseteq File
    BY <2>1 DEF IInv, Shape
  <2> QED BY <2>1, <2>2, IdleSteps
<1>2. ASSUME NEW steps \in Steps, Up(steps) PROVE IInv'
  BY <1>2, UpStep
<1>3. ASSUME NEW steps \in Steps, Down(steps) PROVE IInv'
  BY <1>3, DownStep
<1>4. ASSUME NEW f \in File, ReadFile(f) PROVE IInv'
  BY <1>4, ReadFileStep
<1>5. ASSUME NEW f \in File, RunStatement(f) PROVE IInv'
  BY <1>5, RunStatementStep
<1>6. ASSUME NEW f \in File, Record(f) PROVE IInv'
  BY <1>6, RecordStep
<1>7. ASSUME NEW f \in File, Forget(f) PROVE IInv'
  BY <1>7, ForgetStep
<1>8. CASE Stop
  BY <1>8, StopStep
<1>9. CASE UNCHANGED vars
  <2>1. UNCHANGED <<disk, seen, id, lastId, inForce, pc, todo, at, torn>>
    BY <1>9 DEF vars, table, history
  <2>2. disk' \subseteq File /\ seen' \subseteq File
    BY <2>1 DEF IInv, Shape
  <2> QED BY <2>1, <2>2, IdleSteps
<1> QED
  BY <1>1, <1>2, <1>3, <1>4, <1>5, <1>6, <1>7, <1>8, <1>9 DEF Next

LEMMA Invariance == Spec => []IInv
<1>1. Init => IInv
  BY InitIInv
<1>2. IInv /\ [Next]_vars => IInv'
  BY NextIInv
<1> QED BY <1>1, <1>2, PTL DEF Spec

(* The table and the schema agree on every file no call was stopped in,    *)
(* whatever calls were made, stopped and made again.                       *)
THEOREM RecordAgreesHolds == Spec => []RecordAgrees
<1>1. IInv => RecordAgrees
  BY DEF IInv
<1> QED BY <1>1, Invariance, PTL
-----------------------------------------------------------------------------
(* A file this up still has to run has no pending file before it that up   *)
(* saw and does not run too.                                               *)
SeenCovered ==
  pc = "up" => \A f \in todo, g \in seen : g < f => id[g] # 0 \/ g \in todo

(* The first of the pending files, and so many of them, have no gap.       *)
LEMMA PendingIsPrefix ==
  ASSUME Shape, NEW steps \in Steps, NEW f \in Pending(steps),
         NEW g \in disk, g < f, id[g] = 0
  PROVE  g \in Pending(steps)
<1> DEFINE pending == disk \ Recorded
           Before(h) == {k \in pending : k < h}
<1>1. pending \subseteq 1..Files /\ Files \in Nat /\ steps \in Nat
  BY MigratorAssumption DEF Shape, File
<1>2. f \in pending /\ g \in pending
  BY DEF Pending, Recorded
<1>3. CASE steps = 0
  BY <1>2, <1>3 DEF Pending
<1>4. CASE Cardinality(Before(f)) < steps
  <2>1. Before(g) \subseteq Before(f)
    BY <1>1, <1>2
  <2>2. IsFiniteSet(Before(f))
    <3>1. IsFiniteSet(1..Files)
      BY <1>1, FS_Interval
    <3>2. Before(f) \subseteq 1..Files
      BY <1>1
    <3> QED BY <3>1, <3>2, FS_Subset
  <2>3. /\ IsFiniteSet(Before(g))
        /\ Cardinality(Before(g)) <= Cardinality(Before(f))
    BY <2>1, <2>2, FS_Subset
  <2>4. Cardinality(Before(g)) \in Nat /\ Cardinality(Before(f)) \in Nat
    BY <2>2, <2>3, FS_CardinalityType
  <2>5. Cardinality(Before(g)) < steps
    BY <1>1, <1>4, <2>3, <2>4
  <2> QED BY <1>2, <2>5 DEF Pending
<1> QED BY <1>3, <1>4 DEF Pending

LEMMA SeenCoveredStep == IInv /\ SeenCovered /\ [Next]_vars => SeenCovered'
<1> SUFFICES ASSUME IInv, SeenCovered, [Next]_vars PROVE SeenCovered'
  OBVIOUS
<1>1. ASSUME UNCHANGED <<id, pc, todo, seen>> PROVE SeenCovered'
  BY <1>1 DEF SeenCovered
<1>2. ASSUME NEW steps \in Steps, Up(steps) PROVE SeenCovered'
  <2>1. todo' = Pending(steps) /\ seen' = disk /\ id' = id
    BY <1>2 DEF Up, table
  <2> SUFFICES ASSUME NEW f \in Pending(steps), NEW g \in disk, g < f, id[g] = 0
               PROVE  g \in Pending(steps)
    BY <2>1 DEF SeenCovered
  <2> QED BY PendingIsPrefix DEF IInv
<1>3. ASSUME NEW f \in File, Record(f) PROVE SeenCovered'
  <2>1. /\ pc = "up" /\ todo' = todo \ {f} /\ seen' = seen
        /\ id' = [id EXCEPT ![f] = lastId + 1]
    BY <1>3 DEF Record, Finished
  <2>2. id'[f] # 0 /\ \A g \in File \ {f} : id'[g] = id[g]
    BY <2>1 DEF IInv, Shape
  <2>3. seen \subseteq File
    BY DEF IInv, Shape
  <2> QED BY <2>1, <2>2, <2>3 DEF SeenCovered
<1>4. ASSUME NEW f \in File, Forget(f) PROVE SeenCovered'
  BY <1>4 DEF Forget, Finished, SeenCovered
<1>5. ASSUME NEW steps \in Steps, Down(steps) PROVE SeenCovered'
  BY <1>5 DEF Down, SeenCovered
<1>6. CASE Stop
  BY <1>6 DEF Stop, SeenCovered
<1>7. ASSUME NEW f \in File, AddFile(f) \/ RemoveFile(f) \/ ReadFile(f) \/ RunStatement(f)
      PROVE  SeenCovered'
  BY <1>1, <1>7 DEF AddFile, RemoveFile, ReadFile, RunStatement, table, history
<1>8. CASE UNCHANGED vars
  BY <1>1, <1>8 DEF vars, table, history
<1> QED BY <1>2, <1>3, <1>4, <1>5, <1>6, <1>7, <1>8 DEF Next

(* A row is inserted only when every earlier file the call saw has its     *)
(* row.                                                                    *)
LEMMA NoGapsStep ==
  ASSUME IInv, SeenCovered, [Next]_vars,
         NEW f \in File, id[f] = 0, id'[f] # 0, NEW g \in seen, g < f
  PROVE  id[g] # 0
<1>1. PICK h \in File : Record(h) \/ Forget(h)
  BY DEF Next, vars, table, history, AddFile, RemoveFile, Up, Down, ReadFile,
         RunStatement, Stop
<1>2. \A k \in File \ {h} : id'[k] = id[k]
  BY <1>1 DEF Record, Forget, IInv, Shape
<1>3. h = f
  BY <1>2
<1>4. Record(f)
  BY <1>1, <1>3 DEF Forget, IInv, Shape
<1>5. pc = "up" /\ InHand(f) /\ f \in todo
  BY <1>4 DEF Record, InHand
<1>6. g \notin todo
  <2>1. f \in 1..Files /\ g \in 1..Files
    BY DEF IInv, Shape, File
  <2>2. g \in todo => f <= g
    BY <1>5 DEF InHand
  <2> QED BY <2>1, <2>2, MigratorAssumption
<1> QED BY <1>5, <1>6 DEF SeenCovered

(* No call leaves a gap among the files it saw.                            *)
THEOREM NoGapsHolds == Spec => NoGaps
<1>1. Init => SeenCovered
  BY DEF Init, SeenCovered
<1>2. IInv /\ SeenCovered /\ [Next]_vars => SeenCovered'
  BY SeenCoveredStep
<1>3. IInv /\ SeenCovered /\ [Next]_vars =>
        [\A f \in File : id[f] = 0 /\ id'[f] # 0
                           => \A g \in seen : g < f => id[g] # 0]_vars
  BY NoGapsStep
<1> QED BY <1>1, <1>2, <1>3, Invariance, PTL DEF Spec, NoGaps
-----------------------------------------------------------------------------
(* A bounded set of numbers has a highest: its least upper bound. *)
LEMMA HighestOf ==
  ASSUME NEW S \in SUBSET Nat, S # {}, NEW bound \in Nat, \A s \in S : s <= bound
  PROVE  \E m \in S : \A s \in S : s <= m
<1> DEFINE Above == {b \in Nat : \A s \in S : s <= b}
<1>1. \A x, y \in Nat : <<x, y>> \in OpToRel(<, Nat) <=> x < y
  BY DEF OpToRel
<1>2. Above \subseteq Nat /\ Above # {}
  OBVIOUS
<1>3. PICK m \in Above : \A b \in Above : <<b, m>> \notin OpToRel(<, Nat)
  BY <1>2, NatLessThanWellFounded, WFMin
<1>4. \A b \in Above : ~(b < m)
  BY <1>1, <1>2, <1>3
<1>5. CASE m \in S
  BY <1>5
<1>6. CASE m \notin S
  <2>1. m \in Nat /\ \A s \in S : s \in Nat /\ s < m
    BY <1>2, <1>6
  <2>2. m # 0
    <3>1. PICK s \in S : TRUE
      OBVIOUS
    <3>2. s \in Nat /\ s < m
      BY <2>1
    <3>3. QED BY <3>2
  <2>3. m - 1 \in Nat /\ m - 1 < m /\ \A s \in S : s <= m - 1
    BY <2>1, <2>2
  <2> HIDE DEF Above
  <2>4. m - 1 \in Above
    BY <2>3 DEF Above
  <2>5. QED BY <1>4, <2>3, <2>4
<1>7. QED BY <1>5, <1>6

(* The batch of the call in progress is no lower than that of any row, and *)
(* the rows that have it are those which this call inserted.               *)
BatchInv ==
  /\ batch \in [File -> Nat] /\ call \in [File -> Nat]
  /\ calls \in Nat /\ thisBatch \in Nat
  /\ \A f \in Recorded : call[f] <= calls /\ batch[f] <= thisBatch
  /\ pc = "up" => \A f \in Recorded : batch[f] = thisBatch <=> call[f] = calls
  /\ BatchesFollowCalls

LEMMA NextBatchIsNew ==
  ASSUME BatchInv
  PROVE  NextBatch \in Nat /\ \A f \in Recorded : batch[f] < NextBatch
<1>1. CASE Recorded = {}
  BY <1>1 DEF NextBatch
<1>2. CASE Recorded # {}
  <2> DEFINE S == {batch[f] : f \in Recorded}
  <2>1. S \in SUBSET Nat /\ S # {} /\ \A s \in S : s <= thisBatch
    BY <1>2 DEF BatchInv, Recorded
  <2>2. \E n \in S : \A s \in S : s <= n
    BY <2>1, HighestOf DEF BatchInv
  <2>3. MaxBatch = CHOOSE n \in S : \A f \in Recorded : batch[f] <= n
    BY DEF MaxBatch
  <2>4. MaxBatch \in S /\ \A f \in Recorded : batch[f] <= MaxBatch
    BY <2>2, <2>3
  <2>5. MaxBatch \in Nat
    BY <2>1, <2>4
  <2>6. NextBatch = MaxBatch + 1
    BY <1>2 DEF NextBatch
  <2>7. \A f \in Recorded : batch[f] \in Nat
    BY DEF BatchInv, Recorded
  <2>8. QED BY <2>4, <2>5, <2>6, <2>7
<1>3. QED BY <1>1, <1>2

LEMMA BatchNext == IInv /\ BatchInv /\ [Next]_vars => BatchInv'
<1> SUFFICES ASSUME IInv, BatchInv, [Next]_vars PROVE BatchInv'
  OBVIOUS
<1>1. ASSUME UNCHANGED <<table, call, calls, thisBatch>>, pc' \in {pc, "idle"}
      PROVE  BatchInv'
  BY <1>1 DEF table, BatchInv, BatchesFollowCalls, Recorded
<1>2. ASSUME NEW steps \in Steps, Up(steps) PROVE BatchInv'
  <2>1. /\ UNCHANGED <<id, batch, call>> /\ thisBatch' = NextBatch /\ calls' = calls + 1
        /\ Recorded' = Recorded
    BY <1>2 DEF Up, table, Recorded
  <2>2. \A f \in Recorded : batch[f] \in Nat /\ call[f] \in Nat
    BY DEF BatchInv, Recorded
  <2>3. \A f \in Recorded : batch[f] < thisBatch' /\ call[f] < calls'
    BY <2>1, <2>2, NextBatchIsNew DEF BatchInv
  <2>4. thisBatch' \in Nat /\ calls' \in Nat
    BY <2>1, NextBatchIsNew DEF BatchInv
  <2>5. BatchesFollowCalls'
    BY <2>1 DEF BatchInv, BatchesFollowCalls
  <2>6. QED BY <2>1, <2>2, <2>3, <2>4, <2>5 DEF BatchInv
<1>3. ASSUME NEW steps \in Steps, Down(steps) PROVE BatchInv'
  <2>1. UNCHANGED <<table, call, calls, thisBatch>> /\ pc' # "up"
    BY <1>3 DEF Down, history
  <2>2. QED BY <2>1 DEF table, BatchInv, BatchesFollowCalls, Recorded
<1>4. ASSUME NEW f \in File, Record(f) PROVE BatchInv'
  <2>1. /\ pc = "up" /\ pc' \in {pc, "idle"} /\ lastId \in Nat
        /\ id' = [id EXCEPT ![f] = lastId + 1]
        /\ batch' = [batch EXCEPT ![f] = thisBatch]
        /\ call' = [call EXCEPT ![f] = calls]
        /\ UNCHANGED <<calls, thisBatch>>
    BY <1>4 DEF Record, Finished, IInv, Shape
  <2>2. id \in [File -> Nat] /\ \A g \in File : id[g] <= lastId
    BY DEF IInv, Shape
  <2>3. Recorded' = Recorded \cup {f}
    BY <2>1, <2>2 DEF Recorded
  <2>4. /\ id'[f] = lastId + 1 /\ batch'[f] = thisBatch /\ call'[f] = calls
        /\ \A g \in File : g # f => id'[g] = id[g] /\ batch'[g] = batch[g] /\ call'[g] = call[g]
    BY <2>1, <2>2 DEF BatchInv
  <2>5. \A g \in Recorded : /\ id[g] <= lastId /\ batch[g] <= thisBatch /\ call[g] <= calls
                            /\ batch[g] = thisBatch <=> call[g] = calls
    BY <2>1, <2>2 DEF BatchInv, Recorded
  <2>6. BatchesFollowCalls'
    <3> SUFFICES ASSUME NEW g \in Recorded', NEW h \in Recorded'
                 PROVE  /\ batch'[g] = batch'[h] <=> call'[g] = call'[h]
                        /\ id'[g] < id'[h] => batch'[g] <= batch'[h]
      BY DEF BatchesFollowCalls
    <3>1. CASE g # f /\ h # f
      BY <2>3, <2>4, <3>1 DEF BatchInv, BatchesFollowCalls, Recorded
    <3>2. CASE g = f /\ h = f
      BY <2>1, <2>4, <3>2 DEF BatchInv
    <3>3. CASE g = f /\ h # f
      BY <2>1, <2>2, <2>3, <2>4, <2>5, <3>3 DEF Recorded
    <3>4. CASE g # f /\ h = f
      BY <2>1, <2>2, <2>3, <2>4, <2>5, <3>4 DEF Recorded
    <3>5. QED BY <3>1, <3>2, <3>3, <3>4
  <2>7. QED BY <2>1, <2>3, <2>4, <2>5, <2>6 DEF BatchInv, Recorded
<1>5. ASSUME NEW f \in File, Forget(f) PROVE BatchInv'
  <2>1. /\ pc' # "up"
        /\ id' = [id EXCEPT ![f] = 0]
        /\ batch' = [batch EXCEPT ![f] = 0]
        /\ call' = [call EXCEPT ![f] = 0]
        /\ UNCHANGED <<calls, thisBatch>>
    BY <1>5 DEF Forget, Finished
  <2>2. id \in [File -> Nat]
    BY DEF IInv, Shape
  <2>3. Recorded' \subseteq Recorded
    BY <2>1, <2>2 DEF Recorded
  <2>4. \A g \in Recorded' : id'[g] = id[g] /\ batch'[g] = batch[g] /\ call'[g] = call[g]
    BY <2>1, <2>2 DEF BatchInv, Recorded
  <2>5. BatchesFollowCalls'
    BY <2>3, <2>4 DEF BatchInv, BatchesFollowCalls
  <2>6. QED BY <2>1, <2>3, <2>4, <2>5 DEF BatchInv
<1>6. ASSUME NEW f \in File, AddFile(f) \/ RemoveFile(f) \/ ReadFile(f) \/ RunStatement(f)
      PROVE  BatchInv'
  BY <1>1, <1>6 DEF AddFile, RemoveFile, ReadFile, RunStatement, history
<1>7. CASE Stop \/ UNCHANGED vars
  BY <1>1, <1>7 DEF Stop, vars, history
<1>8. QED BY <1>2, <1>3, <1>4, <1>5, <1>6, <1>7 DEF Next

(* Two rows have one batch exactly if one call inserted them, and batches  *)
(* grow with the ids: down(1), which takes the batch of the newest row,    *)
(* takes what the last call left, however many were rolled back or stopped *)
(* before.                                                                 *)
THEOREM BatchesFollowCallsHolds == Spec => []BatchesFollowCalls
<1>1. Init => BatchInv
  BY DEF Init, BatchInv, BatchesFollowCalls, Recorded
<1>2. BatchInv => BatchesFollowCalls
  BY DEF BatchInv
<1>3. QED BY <1>1, <1>2, BatchNext, Invariance, PTL DEF Spec
-----------------------------------------------------------------------------
(* ------------------------- statements and transactions ------------------- *)

(* What an open transaction has not done, and what the flags of Tx stand for. *)
FlagsOK ==
  /\ ~done => lasting = {} /\ ~inDoubt
  /\ rolledBack => done /\ ~committed /\ lasting = {}
  /\ committed => done /\ lasting = applied
  /\ lasting = {} \/ committed \/ inDoubt
TxInv ==
  /\ rolledBack \in BOOLEAN /\ committed \in BOOLEAN /\ done \in BOOLEAN /\ inDoubt \in BOOLEAN
  /\ back \in {"ok", "error", "panic"} /\ expired \in BOOLEAN
  /\ doing \in {"nothing", "exec", "wait"} => done /\ ~rolledBack /\ ~committed /\ lasting = {}
                                                    /\ applied = {} /\ ~inDoubt
  /\ doing = "callback" => answer = "none"
  /\ doing # "finish" /\ doing # "exec" => answer = "none"
  /\ FlagsOK
  /\ TransactionAnswers

LEMMA TxInvHolds == DbSpec => []TxInv
<1>1. DbInit => TxInv
  BY DEF DbInit, TxInv, FlagsOK, TransactionAnswers
<1>2. TxInv /\ [DbNext]_dbVars => TxInv'
  <2> SUFFICES ASSUME TxInv, [DbNext]_dbVars PROVE TxInv'
    OBVIOUS
  <2> USE DEF TxInv, FlagsOK, TransactionAnswers
  <2>1. CASE Exec \/ Attempt \/ Wait
    BY <2>1 DEF Exec, Attempt, Wait, txVars
  <2>2. ASSUME NEW transient \in BOOLEAN, NEW effect \in BOOLEAN, AttemptFails(transient, effect)
        PROVE  TxInv'
    <3>1. doing = "exec" /\ UNCHANGED <<expired, txVars>> /\ doing' \in {"exec", "wait"}
          /\ (doing' = "wait" => answer' = "none")
      BY <2>2, Zenon DEF AttemptFails
    <3>2. QED BY <3>1 DEF txVars
  <2>3. CASE Begin \/ BeginFails
    BY <2>3 DEF Begin, BeginFails, txVars
  <2>4. ASSUME NEW w \in Work, Run(w) PROVE TxInv'
    BY <2>4 DEF Run, InCallback, Usable
  <2>5. CASE RunFails BY <2>5 DEF RunFails, InCallback
  <2>6. ASSUME NEW works \in BOOLEAN, Commit(works) PROVE TxInv'
    BY <2>6 DEF Commit, InCallback, TxCommit, CommitWorks, Usable
  <2>7. ASSUME NEW works \in BOOLEAN, Rollback(works) PROVE TxInv'
    BY <2>7 DEF Rollback, InCallback, TxRollback
  <2>8. ASSUME NEW how \in {"ok", "error", "panic"}, Return(how) PROVE TxInv'
    BY <2>8 DEF Return, InCallback
  <2>9. CASE EndFailed BY <2>9 DEF EndFailed, Finishing, TxRollback
  <2>10. CASE EndOk BY <2>10 DEF EndOk, Finishing, TxCommit, CommitWorks, Usable
  <2>11. CASE Expire \/ ExpiredRollback \/ Disconnect
    <3>1. CASE Expire BY <3>1 DEF Expire, txVars
    <3>2. CASE ExpiredRollback BY <3>2 DEF ExpiredRollback
    <3>3. CASE Disconnect BY <3>3 DEF Disconnect
    <3>4. QED BY <2>11, <3>1, <3>2, <3>3
  <2>12. CASE UNCHANGED dbVars BY <2>12 DEF dbVars, txVars
  <2>13. QED
    BY <2>1, <2>2, <2>3, <2>4, <2>5, <2>6, <2>7, <2>8, <2>9, <2>10, <2>11, <2>12 DEF DbNext
<1>3. QED BY <1>1, <1>2, PTL DEF DbSpec

(* The answer of transaction is what became of it, whatever its callback did and ignored *)
(* (lamdb.lam, Db.transaction).                                                          *)
THEOREM TransactionAnswersHolds == DbSpec => []TransactionAnswers
<1>1. TxInv => TransactionAnswers BY DEF TxInv
<1>2. QED BY <1>1, TxInvHolds, PTL

(* The attempts of an exec are counted while it has no answer. *)
Doings == {"nothing", "exec", "wait", "callback", "finish"}
Answers == {"none", "ok", "rolled back", "error", "panic"}
SentOK == doing \in {"nothing", "wait"} \/ (doing = "exec" /\ answer = "none") => sent <= MaxRetries
ExecInv ==
  /\ doing \in Doings /\ answer \in Answers
  /\ sent \in Nat /\ unanswered \in Nat /\ times \in Nat
  /\ doing # "finish" /\ doing # "exec" => answer = "none"
  /\ doing \in {"nothing", "wait"} => times = unanswered
  /\ SentOK
  /\ AppliedAsAnswered

LEMMA ExecInvHolds == DbSpec => []ExecInv
<1>1. DbInit => ExecInv
  BY DbAssumption DEF DbInit, ExecInv, SentOK, AppliedAsAnswered, Doings, Answers
<1>2. TxInv /\ ExecInv /\ [DbNext]_dbVars => ExecInv'
  <2> SUFFICES ASSUME TxInv, ExecInv, [DbNext]_dbVars PROVE ExecInv'
    OBVIOUS
  <2> USE DbAssumption DEF ExecInv, SentOK, AppliedAsAnswered, Doings, Answers
  <2>1. CASE Exec BY <2>1 DEF Exec, execVars
  <2>2. CASE Attempt BY <2>2 DEF Attempt
  <2>3. ASSUME NEW transient \in BOOLEAN, NEW effect \in BOOLEAN, AttemptFails(transient, effect)
        PROVE  ExecInv'
    <3>1. doing = "exec" /\ answer = "none" /\ sent' = sent + 1
      BY <2>3 DEF AttemptFails
    <3>2. \/ times' = times + 1 /\ unanswered' = unanswered + 1
          \/ times' = times /\ unanswered' = unanswered
      BY <2>3, Zenon DEF AttemptFails
    <3>3. \/ sent < MaxRetries /\ doing' = "wait" /\ answer' = answer
          \/ answer' = "error" /\ doing' = doing
      BY <2>3, Zenon DEF AttemptFails, Again
    <3>4. answer' \in Answers /\ doing' \in Doings /\ doing' \in {"exec", "wait"}
          /\ answer' # "ok" /\ (doing' = "wait" => answer' = "none")
      BY <3>1, <3>3
    <3>6. doing' = "wait" \/ answer' = "none" => sent' <= MaxRetries
      BY <3>1, <3>3
    <3>5. /\ sent' \in Nat /\ unanswered' \in Nat /\ times' \in Nat
          /\ times' = unanswered' /\ sent' <= MaxRetries + 1
      BY <3>1, <3>2
    <3>7. AppliedAsAnswered'
      BY <3>4, <3>5
    <3>8. QED BY <3>4, <3>5, <3>6, <3>7
  <2>4. CASE Wait BY <2>4 DEF Wait, execVars
  <2>5. CASE Begin \/ BeginFails BY <2>5 DEF Begin, BeginFails, execVars
  <2>6. ASSUME NEW w \in Work, Run(w) PROVE ExecInv'
    BY <2>6 DEF Run, InCallback, execVars
  <2>7. CASE RunFails BY <2>7 DEF RunFails, InCallback, execVars
  <2>8. ASSUME NEW works \in BOOLEAN, Commit(works) \/ Rollback(works) PROVE ExecInv'
    BY <2>8 DEF Commit, Rollback, InCallback, execVars
  <2>9. ASSUME NEW how \in {"ok", "error", "panic"}, Return(how) PROVE ExecInv'
    BY <2>9 DEF Return, InCallback, execVars
  <2>10. CASE EndFailed \/ EndOk
    <3>1. doing = "finish" /\ UNCHANGED <<doing, sent, unanswered, times>>
      BY <2>10 DEF EndFailed, EndOk, Finishing, execVars
    <3>2. answer' \in Answers
      <4>1. CASE EndFailed BY <4>1 DEF EndFailed, TxInv
      <4>2. CASE EndOk
        <5>1. answer' \in {"ok", "rolled back", "error"}
          BY <4>2, Zenon DEF EndOk
        <5>2. QED BY <5>1
      <4>3. QED BY <2>10, <4>1, <4>2
    <3>3. QED BY <3>1, <3>2
  <2>11. CASE Expire \/ ExpiredRollback \/ Disconnect
    BY <2>11 DEF Expire, ExpiredRollback, Disconnect, execVars
  <2>12. CASE UNCHANGED dbVars BY <2>12 DEF dbVars, execVars
  <2>13. QED
    BY <2>1, <2>2, <2>3, <2>4, <2>5, <2>6, <2>7, <2>8, <2>9, <2>10, <2>11, <2>12 DEF DbNext
<1>3. QED BY <1>1, <1>2, TxInvHolds, PTL DEF DbSpec

(* An Ok of exec stands for one attempt that took effect, an error for none, beside those *)
(* whose answer was lost (lamdb.lam, Db._exec).                                           *)
THEOREM AppliedAsAnsweredHolds == DbSpec => []AppliedAsAnswered
<1>1. ExecInv => AppliedAsAnswered BY DEF ExecInv
<1>2. QED BY <1>1, ExecInvHolds, PTL
=============================================================================
