------------------------- MODULE FlowAnalysisProofs -------------------------
(* The flow analyses for functions of any size, any nesting and any locals. *)
EXTENDS FlowAnalysis, SequenceTheorems, TLAPS

(* ------------------------------ the invariant --------------------------- *)

Paths == {p \in [live : BOOLEAN, have : SUBSET Names] : ~p.live => p.have = Names}
Suites == [marks : SUBSET Names, path : Paths, ends : BOOLEAN, brk : BOOLEAN, exit : BOOLEAN, shut : BOOLEAN]
Frames == [kind : {"if", "match", "for", "while", "do", "with", "try"},
           part : {"branch", "body", "else", "handler", "catch", "finally"},
           outer : Suites, exits : SUBSET SUBSET Names, out : Paths, all : BOOLEAN, full : BOOLEAN,
           brk : BOOLEAN, exit : BOOLEAN, breaks : Paths, conts : Paths, hidden : SUBSET Names]
Loops == {"for", "while"}

TypesOK == at \in Suites /\ open \in Seq(Frames) /\ owed \subseteq Names

(* q comes after p: executions reach q only through p, and nothing is forgotten on the way. *)
After(p, q) == (q.live => p.live) /\ p.have \subseteq q.have

(* The names that are excepted in the suite around the i-th construct *)
Excuse(i) == owed \cup UNION {open[j].hidden : j \in 1..(i - 1)}

SuiteOK(s, excuse) == s.marks \ excuse \subseteq s.path.have /\ (s.ends => ~s.path.live)

FrameOK(f, excuse) ==
  /\ SuiteOK(f.outer, excuse)
  /\ After(f.outer.path, f.out) /\ After(f.outer.path, f.breaks) /\ After(f.outer.path, f.conts)
  /\ \A n \in Names \ excuse : (\A s \in f.exits : n \in s) => n \in f.out.have
  /\ f.all => ~f.out.live
  /\ f.kind \in Loops /\ f.part = "else" =>
       /\ f.all => ~f.breaks.live
       /\ \A n \in (UNION f.exits) \ excuse : n \in f.breaks.have
  /\ f.part = "finally" => f.hidden \ excuse \subseteq f.out.have
  /\ f.part \notin {"handler", "finally"} => f.hidden = {}
  /\ f.part = "body" => ~f.brk /\ ~f.exit
  /\ f.kind \in Loops => ~f.brk /\ ~f.out.live
  /\ f.kind = "try" /\ f.part = "else" => ~f.all

(* No break or continue was visited inside the i-th construct. *)
NoExit(i) == ~at.exit /\ \A j \in DOMAIN open : i < j => ~open[j].exit /\ ~open[j].outer.exit

(* No break that belongs to the i-th construct, a loop, was visited. *)
Own(i, j) == i < j /\ \A k \in DOMAIN open : i < k /\ k < j => ~LoopBody(k)
NoBreak(i) == /\ Own(i, Len(open) + 1) => ~at.brk
              /\ \A j \in DOMAIN open : Own(i, j) => ~open[j].brk /\ ~open[j].outer.brk

FlowInv ==
  /\ TypesOK
  /\ SuiteOK(at, Excuse(Len(open) + 1))
  /\ \A i \in DOMAIN open :
       /\ FrameOK(open[i], Excuse(i))
       /\ After(open[i].outer.path, at.path)
       /\ \A j \in DOMAIN open : i < j => After(open[i].outer.path, open[j].outer.path)
       /\ LoopBody(i) /\ NoExit(i) => ~open[i].breaks.live /\ ~open[i].conts.live
       /\ LoopBody(i) /\ NoBreak(i) => ~open[i].breaks.live

(* --------------------------------- paths -------------------------------- *)

LEMMA NowhereFacts == Nowhere \in Paths /\ ~Nowhere.live /\ Nowhere.have = Names
BY DEF Nowhere, Paths

LEMMA JoinFacts ==
  ASSUME NEW p \in Paths, NEW q \in Paths
  PROVE  /\ Join(p, q) \in Paths
         /\ Join(p, q).live <=> p.live \/ q.live
         /\ Join(p, q).have = p.have \cap q.have
BY DEF Join, Paths

LEMMA DeadHasAll == ASSUME NEW p \in Paths, ~p.live PROVE p.have = Names
BY DEF Paths

LEMMA AfterSelf == ASSUME NEW p PROVE After(p, p)
BY DEF After

LEMMA AfterTrans == ASSUME NEW p, NEW q, NEW r, After(p, q), After(q, r) PROVE After(p, r)
BY DEF After

LEMMA AfterNowhere == ASSUME NEW p \in Paths PROVE After(p, Nowhere)
BY NowhereFacts DEF After, Paths

LEMMA AfterJoin ==
  ASSUME NEW p \in Paths, NEW q \in Paths, NEW r \in Paths, After(p, q), After(p, r)
  PROVE  After(p, Join(q, r))
BY JoinFacts DEF After

(* -------------------------------- records ------------------------------- *)

LEMMA SuiteFacts ==
  ASSUME NEW marks \in SUBSET Names, NEW path \in Paths
  PROVE  /\ Suite(marks, path) \in Suites
         /\ Suite(marks, path).marks = marks /\ Suite(marks, path).path = path
         /\ ~Suite(marks, path).ends /\ ~Suite(marks, path).brk /\ ~Suite(marks, path).exit
BY DEF Suite, Suites

LEMMA FrameTypes ==
  ASSUME NEW f \in Frames
  PROVE  /\ f.outer \in Suites /\ f.outer.path \in Paths /\ f.outer.marks \in SUBSET Names
         /\ f.out \in Paths /\ f.breaks \in Paths /\ f.conts \in Paths
         /\ f.exits \in SUBSET SUBSET Names /\ f.hidden \in SUBSET Names
         /\ f.all \in BOOLEAN /\ f.full \in BOOLEAN /\ f.brk \in BOOLEAN /\ f.exit \in BOOLEAN
BY DEF Frames, Suites

LEMMA FrameWith ==
  ASSUME NEW f \in Frames, NEW exits \in SUBSET SUBSET Names, NEW out \in Paths,
         NEW all \in BOOLEAN, NEW brk \in BOOLEAN, NEW exit \in BOOLEAN
  PROVE  [f EXCEPT !.exits = exits, !.out = out, !.all = all, !.brk = brk, !.exit = exit] \in Frames
BY DEF Frames

LEMMA FrameMonotone ==
  ASSUME NEW f, NEW e, NEW e2, FrameOK(f, e), e \subseteq e2
  PROVE  FrameOK(f, e2)
BY DEF FrameOK, SuiteOK

LEMMA ExcuseTop ==
  ASSUME TypesOK, open # <<>>
  PROVE  /\ Len(open) \in DOMAIN open
         /\ Excuse(Len(open) + 1) = Excuse(Len(open)) \cup Top.hidden
BY DEF TypesOK, Excuse, Top

LEMMA PopFacts ==
  ASSUME NEW S, NEW s \in Seq(S), NEW n \in Nat, Len(s) = n + 1
  PROVE  LET t == SubSeq(s, 1, n)
         IN /\ t \in Seq(S) /\ Len(t) = n /\ DOMAIN t = 1..n
            /\ \A i \in 1..n : t[i] = s[i]
<1> DEFINE t == SubSeq(s, 1, n)
<1>1. \A i \in 1..n : s[i] \in S
  OBVIOUS
<1>2. /\ t \in Seq(S)
      /\ Len(t) = IF 1 <= n THEN n - 1 + 1 ELSE 0
      /\ \A i \in 1..(n - 1 + 1) : t[i] = s[1 + i - 1]
  BY <1>1, SubSeqProperties
<1> HIDE DEF t
<1>3. Len(t) = n
  BY <1>2
<1>4. DOMAIN t = 1..n
  BY <1>2, <1>3, LenProperties
<1>5. \A i \in 1..n : t[i] = s[i]
  BY <1>2
<1>6. QED BY <1>2, <1>3, <1>4, <1>5 DEF t

(* ------------------------------ shapes of steps ------------------------- *)

(* A construct is opened. *)
LEMMA EnterKeeps ==
  ASSUME FlowInv, NEW f \in Frames, open' = Append(open, f),
         f.outer = at, f.hidden = {}, FrameOK(f, Excuse(Len(open) + 1)),
         ~f.brk, ~f.exit, ~f.breaks.live, ~f.conts.live,
         at' = Suite(at.marks, at.path), owed' = owed
  PROVE  FlowInv'
<1>1. PICK n \in Nat :
        /\ n = Len(open) /\ DOMAIN open = 1..n
        /\ DOMAIN open' = 1..(n + 1) /\ Len(open') = n + 1
        /\ open' \in Seq(Frames)
        /\ \A i \in 1..n : open'[i] = open[i]
        /\ open'[n + 1] = f
  BY DEF FlowInv, TypesOK
<1>2. /\ at.marks \in SUBSET Names /\ at.path \in Paths
      /\ at' \in Suites /\ at'.marks = at.marks /\ at'.path = at.path
      /\ ~at'.ends /\ ~at'.brk /\ ~at'.exit
  BY SuiteFacts DEF FlowInv, TypesOK, Suites
<1>3. TypesOK'
  BY <1>1, <1>2 DEF FlowInv, TypesOK
<1>4. /\ \A i \in 1..(n + 1) : Excuse(i)' = Excuse(i)
      /\ Excuse(n + 2)' = Excuse(n + 1)
  BY <1>1 DEF Excuse
<1>5. SuiteOK(at, Excuse(Len(open) + 1))'
  <2>1. SuiteOK(at, Excuse(n + 1))
    BY <1>1 DEF FlowInv
  <2>2. Excuse(Len(open) + 1)' = Excuse(n + 1)
    BY <1>1, <1>4
  <2>3. QED BY <1>2, <2>1, <2>2 DEF SuiteOK
<1>6. ASSUME NEW i \in 1..n
      PROVE  /\ FrameOK(open[i], Excuse(i))'
             /\ After(open[i].outer.path, at.path)'
             /\ \A j \in DOMAIN open' : i < j => After(open[i].outer.path, open'[j].outer.path)
  <2>1. FrameOK(open[i], Excuse(i)) /\ After(open[i].outer.path, at.path)
    BY <1>1 DEF FlowInv
  <2>2. FrameOK(open[i], Excuse(i))' /\ After(open[i].outer.path, at.path)'
    BY <1>1, <1>2, <1>4, <2>1
  <2>3. \A j \in 1..n : i < j => After(open[i].outer.path, open'[j].outer.path)
    BY <1>1 DEF FlowInv
  <2>4. After(open[i].outer.path, open'[n + 1].outer.path)
    BY <1>1, <2>1
  <2>5. ASSUME NEW j \in 1..(n + 1), i < j
        PROVE  After(open[i].outer.path, open'[j].outer.path)
    <3>1. CASE j \in 1..n
      BY <2>3, <2>5, <3>1
    <3>2. CASE j = n + 1
      BY <2>4, <3>2
    <3>3. n \in Nat /\ j \in 1..(n + 1)
      BY <1>1, <2>5
    <3>4. j \in 1..n \/ j = n + 1
      BY <3>3
    <3>5. QED BY <3>1, <3>2, <3>4, Zenon
  <2>6. \A j \in DOMAIN open' : i < j => After(open[i].outer.path, open'[j].outer.path)
    BY <1>1, <2>5
  <2>7. QED BY <2>2, <2>6
<1>7. /\ FrameOK(open'[n + 1], Excuse(n + 1)')
      /\ After(open'[n + 1].outer.path, at'.path)
  BY <1>1, <1>2, <1>4, AfterSelf
<1>8. /\ \A i \in 1..n : LoopBody(i)' <=> LoopBody(i)
      /\ \A i \in 1..n : NoExit(i)' => NoExit(i)
  BY <1>1 DEF LoopBody, NoExit
<1>9. ASSUME NEW i \in 1..n, NoBreak(i)' PROVE NoBreak(i)
  <2>1. \A j \in 1..(n + 1) : Own(i, j)' <=> Own(i, j)
    BY <1>1, <1>8 DEF Own
  <2>2. QED BY <1>1, <1>9, <2>1 DEF NoBreak
<1>10. QED
  BY <1>1, <1>3, <1>5, <1>6, <1>7, <1>8, <1>9 DEF FlowInv

(* The innermost construct goes on with its next suite. *)
LEMMA ContinueKeeps ==
  ASSUME FlowInv, open # <<>>, NEW f \in Frames, open' = [open EXCEPT ![Len(open)] = f],
         f.outer = Top.outer, FrameOK(f, Excuse(Len(open))), f.part # "body",
         ~f.exit => ~Top.exit /\ ~at.exit,
         ~f.brk => ~Top.brk /\ (~at.brk \/ LoopBody(Len(open))),
         NEW marks \in SUBSET Names, NEW path \in Paths, at' = Suite(marks, path),
         marks \ (Excuse(Len(open)) \cup f.hidden) \subseteq path.have,
         After(f.outer.path, path),
         owed' = owed
  PROVE  FlowInv'
<1>1. PICK n \in Nat :
        /\ n = Len(open) /\ n # 0 /\ DOMAIN open = 1..n
        /\ DOMAIN open' = 1..n /\ Len(open') = n
        /\ open' \in Seq(Frames)
        /\ \A i \in 1..(n - 1) : open'[i] = open[i]
        /\ open'[n] = f
        /\ open'[n].outer = open[n].outer /\ Top = open[n]
        /\ \A i \in 1..n : open'[i].outer = open[i].outer
  BY DEF FlowInv, TypesOK, Top
<1>2. /\ at' \in Suites /\ at'.marks = marks /\ at'.path = path
      /\ ~at'.ends /\ ~at'.brk /\ ~at'.exit
  BY SuiteFacts
<1>3. TypesOK'
  BY <1>1, <1>2 DEF FlowInv, TypesOK
<1>4. /\ \A i \in 1..n : Excuse(i)' = Excuse(i)
      /\ Excuse(n + 1)' = Excuse(n) \cup f.hidden
  BY <1>1 DEF Excuse
<1>5. SuiteOK(at, Excuse(Len(open) + 1))'
  <2>1. Excuse(Len(open) + 1)' = Excuse(n) \cup f.hidden
    BY <1>1, <1>4
  <2>2. QED BY <1>1, <1>2, <2>1 DEF SuiteOK
<1>6. ASSUME NEW i \in 1..n
      PROVE  /\ FrameOK(open[i], Excuse(i))'
             /\ \A j \in DOMAIN open' : i < j => After(open[i].outer.path, open'[j].outer.path)
  BY <1>1, <1>4 DEF FlowInv
<1>7. ASSUME NEW i \in 1..n PROVE After(open[i].outer.path, at.path)'
  <2>1. After(open[n].outer.path, path)
    BY <1>1
  <2>2. i < n => After(open[i].outer.path, open[n].outer.path)
    BY <1>1 DEF FlowInv
  <2>3. After(open[i].outer.path, path)
    BY <2>1, <2>2, <1>1, AfterTrans
  <2>4. QED BY <1>1, <1>2, <2>3
<1>8. /\ ~LoopBody(n)'
      /\ \A i \in 1..(n - 1) : LoopBody(i)' <=> LoopBody(i)
      /\ \A i \in 1..(n - 1) : NoExit(i)' => NoExit(i)
  BY <1>1 DEF LoopBody, NoExit
<1>9. ASSUME NEW i \in 1..(n - 1), NoBreak(i)' PROVE NoBreak(i)
  <2>1. \A j \in 1..n : Own(i, j)' <=> Own(i, j)
    BY <1>1, <1>8 DEF Own
  <2>2. Own(i, n + 1) => Own(i, n)' /\ ~LoopBody(n)
    BY <1>1, <2>1 DEF Own
  <2>3. Own(i, n)' => ~f.brk /\ ~open'[n].outer.brk
    BY <1>1, <1>9 DEF NoBreak
  <2>4. Own(i, n + 1) => ~at.brk
    BY <1>1, <2>2, <2>3
  <2>5. \A j \in 1..(n - 1) : Own(i, j) => ~open[j].brk /\ ~open[j].outer.brk
    BY <1>1, <1>9, <2>1 DEF NoBreak
  <2>6. Own(i, n) => ~open[n].brk /\ ~open[n].outer.brk
    BY <1>1, <2>1, <2>3
  <2>7. QED BY <1>1, <2>4, <2>5, <2>6 DEF NoBreak
<1>10. ASSUME NEW i \in 1..n
       PROVE /\ LoopBody(i)' /\ NoExit(i)' => ~open'[i].breaks.live /\ ~open'[i].conts.live
             /\ LoopBody(i)' /\ NoBreak(i)' => ~open'[i].breaks.live
  BY <1>1, <1>8, <1>9 DEF FlowInv
<1>11. QED
  BY <1>1, <1>3, <1>5, <1>6, <1>7, <1>10 DEF FlowInv

(* The innermost construct is done. *)
LEMMA ResumeKeeps ==
  ASSUME FlowInv, open # <<>>, NEW f \in Frames, f.outer = Top.outer,
         ~f.exit => ~Top.exit /\ ~at.exit,
         ~f.brk => ~Top.brk /\ (~at.brk \/ LoopBody(Len(open))),
         NEW marks \in SUBSET Names, NEW path \in Paths, NEW ends \in BOOLEAN,
         Resume(f, marks, path, ends),
         owed \subseteq owed', owed' \subseteq Names,
         marks \ (Excuse(Len(open)) \cup owed') \subseteq path.have,
         ends => ~path.live,
         After(f.outer.path, path)
  PROVE  FlowInv'
<1>1. PICK n \in Nat :
        /\ n = Len(open) /\ n # 0 /\ DOMAIN open = 1..n
        /\ DOMAIN open' = 1..(n - 1) /\ Len(open') = n - 1
        /\ open' \in Seq(Frames)
        /\ \A i \in 1..(n - 1) : open'[i] = open[i]
        /\ Top = open[n] /\ open[n].outer \in Suites /\ open[n].outer.path \in Paths
  <2>1. open \in Seq(Frames) /\ open' = SubSeq(open, 1, Len(open) - 1)
    BY DEF FlowInv, TypesOK, Resume
  <2>2. /\ Len(open) \in Nat /\ Len(open) # 0 /\ DOMAIN open = 1..Len(open)
        /\ Top = open[Len(open)] /\ open[Len(open)] \in Frames
    BY <2>1 DEF Top
  <2>3. open[Len(open)].outer \in Suites /\ open[Len(open)].outer.path \in Paths
    BY <2>2 DEF Frames, Suites
  <2> DEFINE m == Len(open) - 1
  <2>4. m \in Nat /\ Len(open) = m + 1
    BY <2>2
  <2>5. /\ open' \in Seq(Frames) /\ Len(open') = m /\ DOMAIN open' = 1..m
        /\ \A i \in 1..m : open'[i] = open[i]
    BY <2>1, <2>4, PopFacts
  <2>6. QED BY <2>2, <2>3, <2>5
<1>2. /\ at' \in Suites /\ at'.marks = marks /\ at'.path = path
      /\ at'.ends => f.outer.ends \/ ends
      /\ ~at'.brk => ~f.outer.brk /\ ~f.brk
      /\ ~at'.exit => ~f.outer.exit /\ ~f.exit
  BY DEF Resume, Suites, Frames
<1>3. TypesOK'
  BY <1>1, <1>2 DEF TypesOK
<1>4. /\ \A i \in 1..n : Excuse(i) \subseteq Excuse(i)'
      /\ Excuse(n)' = Excuse(n) \cup owed'
  <2>1. \A i \in 1..n :
          {open'[j].hidden : j \in 1..(i - 1)} = {open[j].hidden : j \in 1..(i - 1)}
    BY <1>1
  <2>2. \A i \in 1..n : Excuse(i)' = owed' \cup UNION {open[j].hidden : j \in 1..(i - 1)}
    BY <2>1 DEF Excuse
  <2>3. QED BY <2>2, <1>1 DEF Excuse
<1>5. SuiteOK(at, Excuse(Len(open) + 1))'
  <2>1. Excuse(Len(open) + 1)' = Excuse(n) \cup owed'
    BY <1>1, <1>4
  <2>2. f.outer.ends => ~f.outer.path.live
    BY <1>1 DEF FlowInv, FrameOK, SuiteOK
  <2>3. at'.ends => ~path.live
    BY <1>2, <2>2 DEF After
  <2>4. QED BY <1>1, <1>2, <2>1, <2>3 DEF SuiteOK
<1>6. ASSUME NEW i \in 1..(n - 1)
      PROVE  /\ FrameOK(open[i], Excuse(i))'
             /\ \A j \in DOMAIN open' : i < j => After(open[i].outer.path, open'[j].outer.path)
  <2>1. FrameOK(open[i], Excuse(i))
    BY <1>1 DEF FlowInv
  <2>2. FrameOK(open[i], Excuse(i)')
    BY <2>1, <1>4, FrameMonotone
  <2>3. \A j \in DOMAIN open' : i < j => After(open[i].outer.path, open'[j].outer.path)
    BY <1>1 DEF FlowInv
  <2>4. QED BY <1>1, <2>2, <2>3
<1>7. ASSUME NEW i \in 1..(n - 1) PROVE After(open[i].outer.path, at.path)'
  <2>1. After(open[i].outer.path, open[n].outer.path)
    BY <1>1 DEF FlowInv
  <2>2. After(open[i].outer.path, path)
    BY <2>1, <1>1, AfterTrans
  <2>3. QED BY <1>1, <1>2, <2>2
<1>8. /\ \A i \in 1..(n - 1) : LoopBody(i)' <=> LoopBody(i)
      /\ \A i \in 1..(n - 1) : NoExit(i)' => NoExit(i)
  BY <1>1, <1>2 DEF LoopBody, NoExit
<1>9. ASSUME NEW i \in 1..(n - 1), NoBreak(i)' PROVE NoBreak(i)
  <2>1. ASSUME NEW j \in 1..n PROVE Own(i, j)' <=> Own(i, j)
    <3>1. \A k \in 1..(n - 1) : LoopBody(k)' <=> LoopBody(k)
      BY <1>8
    <3>2. \A k \in DOMAIN open : k < j => k \in 1..(n - 1)
      BY <1>1
    <3>3. \A k : k \in DOMAIN open' /\ k < j <=> k \in DOMAIN open /\ k < j
      BY <1>1
    <3>4. QED BY <3>1, <3>2, <3>3 DEF Own
  <2>2. Own(i, n + 1) => Own(i, n)' /\ ~LoopBody(n)
    BY <1>1, <2>1 DEF Own
  <2>3. Own(i, n)' => ~f.brk /\ ~f.outer.brk
    BY <1>1, <1>2, <1>9 DEF NoBreak
  <2>4. Own(i, n + 1) => ~at.brk
    BY <1>1, <2>2, <2>3
  <2>5. \A j \in 1..(n - 1) : Own(i, j) => ~open[j].brk /\ ~open[j].outer.brk
    BY <1>1, <1>9, <2>1 DEF NoBreak
  <2>6. Own(i, n) => ~open[n].brk /\ ~open[n].outer.brk
    BY <1>1, <2>1, <2>3
  <2>7. QED BY <1>1, <2>4, <2>5, <2>6 DEF NoBreak
<1>10. ASSUME NEW i \in 1..(n - 1)
       PROVE /\ LoopBody(i)' /\ NoExit(i)' => ~open'[i].breaks.live /\ ~open'[i].conts.live
             /\ LoopBody(i)' /\ NoBreak(i)' => ~open'[i].breaks.live
  BY <1>1, <1>8, <1>9 DEF FlowInv
<1>11. QED
  BY <1>1, <1>3, <1>5, <1>6, <1>7, <1>10 DEF FlowInv

(* The suite goes on. *)
LEMMA SuiteKeeps ==
  ASSUME FlowInv, open' = open, owed' = owed, at' \in Suites, After(at.path, at'.path),
         SuiteOK(at', Excuse(Len(open) + 1)), at'.brk = at.brk, at'.exit = at.exit
  PROVE  FlowInv'
<1>1. TypesOK'
  BY DEF FlowInv, TypesOK
<1>2. \A i : /\ Excuse(i)' = Excuse(i) /\ (LoopBody(i)' <=> LoopBody(i))
            /\ (NoExit(i)' <=> NoExit(i))
  BY DEF Excuse, LoopBody, NoExit
<1>3. \A i : NoBreak(i)' => NoBreak(i)
  BY <1>2 DEF NoBreak, Own
<1>4. \A i \in DOMAIN open : After(open[i].outer.path, at'.path)
  BY AfterTrans DEF FlowInv
<1>5. QED BY <1>1, <1>2, <1>3, <1>4 DEF FlowInv

(* A break or continue leaves the suite for the i-th construct. *)
LEMMA JumpKeeps ==
  ASSUME FlowInv, NEW i \in DOMAIN open, InnerLoop(i),
         NEW f \in Frames, open' = [open EXCEPT ![i] = f],
         /\ f.kind = open[i].kind /\ f.part = open[i].part /\ f.outer = open[i].outer
         /\ f.exits = open[i].exits /\ f.out = open[i].out /\ f.all = open[i].all
         /\ f.brk = open[i].brk /\ f.exit = open[i].exit /\ f.hidden = open[i].hidden,
         After(f.outer.path, f.breaks), After(f.outer.path, f.conts),
         at' \in Suites, at'.path = Nowhere, at'.marks = at.marks,
         at'.exit, at.brk => at'.brk, at'.brk \/ f.breaks = open[i].breaks,
         owed' = owed
  PROVE  FlowInv'
<1>1. PICK n \in Nat :
        /\ n = Len(open) /\ DOMAIN open = 1..n
        /\ DOMAIN open' = 1..n /\ Len(open') = n
        /\ open' \in Seq(Frames)
        /\ \A j \in 1..n : j # i => open'[j] = open[j]
        /\ open'[i] = f /\ i \in 1..n
        /\ \A j \in 1..n : /\ open'[j].outer = open[j].outer /\ open'[j].hidden = open[j].hidden
                           /\ open'[j].kind = open[j].kind /\ open'[j].part = open[j].part
                           /\ open'[j].brk = open[j].brk
  BY DEF FlowInv, TypesOK
<1>2. TypesOK'
  BY <1>1 DEF FlowInv, TypesOK
<1>3. /\ \A j \in 1..(n + 1) : Excuse(j)' = Excuse(j)
      /\ \A j \in 1..n : LoopBody(j)' <=> LoopBody(j)
      /\ \A j \in 1..n : ~NoExit(j)'
  BY <1>1 DEF Excuse, LoopBody, NoExit
<1>4. /\ SuiteOK(at, Excuse(Len(open) + 1))'
      /\ \A j \in 1..n : After(open[j].outer.path, at.path)'
  <2>1. Excuse(Len(open) + 1)' = Excuse(n + 1)
    BY <1>1, <1>3
  <2>2. SuiteOK(at', Excuse(n + 1))
    BY NowhereFacts DEF SuiteOK, Suites
  <2>3. \A j \in 1..n : open[j].outer.path \in Paths
    <3>1. \A j \in 1..n : open[j] \in Frames
      BY <1>1 DEF FlowInv, TypesOK
    <3>2. QED BY <3>1, FrameTypes
  <2>4. QED BY <1>1, <2>1, <2>2, <2>3, AfterNowhere
<1>5. LoopBody(i) /\ FrameOK(open[i], Excuse(i)) /\ FrameOK(f, Excuse(i))
  <2>1. LoopBody(i) /\ FrameOK(open[i], Excuse(i))
    BY DEF InnerLoop, FlowInv
  <2>2. QED BY <2>1 DEF FrameOK, LoopBody
<1>6. ASSUME NEW j \in 1..n
      PROVE  /\ FrameOK(open[j], Excuse(j))'
             /\ \A k \in 1..n : j < k => After(open[j].outer.path, open[k].outer.path)'
  BY <1>1, <1>3, <1>5 DEF FlowInv
<1>7. ASSUME NEW j \in 1..n PROVE NoBreak(j)' => NoBreak(j)
  <2>1. \A k \in 1..(n + 1) : Own(j, k)' <=> Own(j, k)
    BY <1>1, <1>3 DEF Own
  <2>2. QED BY <1>1, <2>1 DEF NoBreak
<1>8. Own(i, n + 1)'
  BY <1>1, <1>3 DEF Own, InnerLoop
<1>9. NoBreak(i)' => f.breaks = open[i].breaks
  BY <1>8, <1>1 DEF NoBreak
<1>10. ASSUME NEW j \in 1..n
       PROVE LoopBody(j)' /\ NoBreak(j)' => ~open'[j].breaks.live
  BY <1>1, <1>3, <1>7, <1>9 DEF FlowInv
<1>11. QED
  BY <1>1, <1>2, <1>3, <1>4, <1>6, <1>10 DEF FlowInv

(* ------------------- what a step knows of the innermost ------------------ *)

LEMMA TopFacts ==
  ASSUME FlowInv, open # <<>>
  PROVE  /\ Top \in Frames /\ at \in Suites /\ owed \subseteq Names
         /\ FrameOK(Top, Excuse(Len(open)))
         /\ SuiteOK(at, Excuse(Len(open)) \cup Top.hidden)
         /\ After(Top.outer.path, at.path)
         /\ owed \subseteq Excuse(Len(open))
         /\ LoopBody(Len(open)) <=> Top.kind \in Loops /\ Top.part = "body"
         /\ LoopBody(Len(open)) /\ ~at.exit => ~Top.breaks.live /\ ~Top.conts.live
         /\ LoopBody(Len(open)) /\ ~at.brk => ~Top.breaks.live
<1>1. PICK n \in Nat : n = Len(open) /\ n # 0 /\ DOMAIN open = 1..n
                     /\ Top = open[n] /\ Top \in Frames /\ at \in Suites /\ owed \subseteq Names
  BY DEF FlowInv, TypesOK, Top
<1>2. /\ FrameOK(Top, Excuse(n)) /\ After(Top.outer.path, at.path)
      /\ SuiteOK(at, Excuse(n) \cup Top.hidden)
  BY <1>1, ExcuseTop DEF FlowInv
<1>3. owed \subseteq Excuse(n)
  BY DEF Excuse
<1>4. ~at.exit => NoExit(n)
  BY <1>1 DEF NoExit
<1>5. ~at.brk => NoBreak(n)
  BY <1>1 DEF NoBreak, Own
<1>6. LoopBody(n) <=> Top.kind \in Loops /\ Top.part = "body"
  BY <1>1 DEF LoopBody, Loops
<1>7. QED BY <1>1, <1>2, <1>3, <1>4, <1>5, <1>6 DEF FlowInv

LEMMA AddSuiteFacts ==
  ASSUME NEW f \in Frames, NEW e, FrameOK(f, e), at \in Suites, SuiteOK(at, e),
         After(f.outer.path, at.path)
  PROVE  LET g == AddSuite(f)
         IN /\ g \in Frames
            /\ g.kind = f.kind /\ g.part = f.part /\ g.outer = f.outer /\ g.full = f.full
            /\ g.breaks = f.breaks /\ g.conts = f.conts /\ g.hidden = f.hidden
            /\ g.out = Join(f.out, at.path)
            /\ After(f.outer.path, g.out)
            /\ \A n \in Names \ e : (\A s \in g.exits : n \in s) => n \in g.out.have
            /\ g.all <=> f.all /\ at.ends
            /\ g.all => ~g.out.live
            /\ g.brk <=> f.brk \/ at.brk
            /\ g.exit <=> f.exit \/ at.exit
<1> DEFINE g == AddSuite(f)
<1>1. /\ f.out \in Paths /\ at.path \in Paths /\ f.outer.path \in Paths
      /\ f.exits \in SUBSET SUBSET Names /\ at.marks \in SUBSET Names
  BY DEF Frames, Suites
<1>2. /\ Join(f.out, at.path) \in Paths
      /\ Join(f.out, at.path).live <=> f.out.live \/ at.path.live
      /\ Join(f.out, at.path).have = f.out.have \cap at.path.have
      /\ After(f.outer.path, Join(f.out, at.path))
  BY <1>1, JoinFacts, AfterJoin DEF FrameOK
<1>3. /\ g \in Frames
      /\ g.kind = f.kind /\ g.part = f.part /\ g.outer = f.outer /\ g.full = f.full
      /\ g.breaks = f.breaks /\ g.conts = f.conts /\ g.hidden = f.hidden
      /\ g.out = Join(f.out, at.path)
      /\ g.all <=> f.all /\ at.ends
      /\ g.brk <=> f.brk \/ at.brk
      /\ g.exit <=> f.exit \/ at.exit
      /\ g.exits = IF at.ends THEN f.exits ELSE f.exits \cup {at.marks}
  <2>1. /\ g.kind = f.kind /\ g.part = f.part /\ g.outer = f.outer /\ g.full = f.full
        /\ g.breaks = f.breaks /\ g.conts = f.conts /\ g.hidden = f.hidden
    BY DEF AddSuite, Frames
  <2>2. /\ g.out = Join(f.out, at.path)
        /\ g.exits = IF at.ends THEN f.exits ELSE f.exits \cup {at.marks}
    BY DEF AddSuite, Frames
  <2>3. /\ g.all <=> f.all /\ at.ends
        /\ g.brk <=> f.brk \/ at.brk
        /\ g.exit <=> f.exit \/ at.exit
    BY DEF AddSuite, Frames
  <2>4. g \in Frames
    <3>1. /\ (IF at.ends THEN f.exits ELSE f.exits \cup {at.marks}) \in SUBSET SUBSET Names
          /\ (f.all /\ at.ends) \in BOOLEAN /\ (f.brk \/ at.brk) \in BOOLEAN
          /\ (f.exit \/ at.exit) \in BOOLEAN
      BY <1>1
    <3>2. QED BY <3>1, <1>2, FrameWith DEF AddSuite
  <2>5. QED BY <2>1, <2>2, <2>3, <2>4
<1> HIDE DEF g
<1>4. g.all => ~g.out.live
  BY <1>2, <1>3 DEF FrameOK, SuiteOK
<1>5. ASSUME NEW n \in Names \ e, \A s \in g.exits : n \in s PROVE n \in g.out.have
  <2>1. n \in f.out.have
    BY <1>3, <1>5 DEF FrameOK
  <2>2. CASE at.ends
    BY <2>1, <2>2, <1>1, <1>2, <1>3, DeadHasAll DEF SuiteOK
  <2>3. CASE ~at.ends
    BY <2>1, <2>3, <1>2, <1>3, <1>5 DEF SuiteOK
  <2>4. QED BY <2>2, <2>3
<1>6. QED BY <1>2, <1>3, <1>4, <1>5 DEF g

(* ------------------------------- the steps ------------------------------ *)

LEMMA AssignKeeps == ASSUME FlowInv, NEW n \in Names, Assign(n) PROVE FlowInv'
<1>1. /\ at \in Suites /\ at.path \in Paths /\ at.marks \in SUBSET Names
      /\ SuiteOK(at, Excuse(Len(open) + 1))
  BY DEF FlowInv, TypesOK, Suites
<1> DEFINE path == [at.path EXCEPT !.have = @ \cup {n}]
<1>2. path \in Paths /\ path.live = at.path.live /\ path.have = at.path.have \cup {n}
  BY <1>1 DEF Paths
<1>3. at' = [at EXCEPT !.marks = @ \cup {n}, !.path = path]
  BY <1>1 DEF Assign, Suites, Paths
<1> HIDE DEF path
<1>4. /\ at' \in Suites /\ at'.marks = at.marks \cup {n} /\ at'.path = path
      /\ at'.ends = at.ends /\ at'.brk = at.brk /\ at'.exit = at.exit
  BY <1>1, <1>2, <1>3 DEF Suites
<1>5. SuiteOK(at', Excuse(Len(open) + 1)) /\ After(at.path, at'.path)
  BY <1>1, <1>2, <1>4 DEF SuiteOK, After
<1>6. QED BY <1>4, <1>5, SuiteKeeps DEF Assign

LEMMA LeaveKeeps == ASSUME FlowInv, Leave PROVE FlowInv'
<1>1. at \in Suites /\ at.path \in Paths /\ at.marks \in SUBSET Names
  BY DEF FlowInv, TypesOK, Suites
<1>2. /\ at' \in Suites /\ at'.marks = at.marks /\ at'.path = Nowhere
      /\ at'.brk = at.brk /\ at'.exit = at.exit
  BY <1>1, NowhereFacts DEF Leave, Suites
<1>3. SuiteOK(at', Excuse(Len(open) + 1)) /\ After(at.path, at'.path)
  BY <1>1, <1>2, NowhereFacts, AfterNowhere DEF SuiteOK
<1>4. QED BY <1>2, <1>3, SuiteKeeps DEF Leave

LEMMA BreakKeeps == ASSUME FlowInv, Break PROVE FlowInv'
<1>1. PICK i \in DOMAIN open :
        InnerLoop(i) /\ open' = [open EXCEPT ![i].breaks = Join(@, at.path)]
  BY DEF Break
<1>2. /\ at \in Suites /\ at.path \in Paths /\ at.marks \in SUBSET Names
      /\ open \in Seq(Frames) /\ open[i] \in Frames
  BY DEF FlowInv, TypesOK, Suites
<1> DEFINE f == [open[i] EXCEPT !.breaks = Join(open[i].breaks, at.path)]
<1>3. open' = [open EXCEPT ![i] = f]
  BY <1>1, <1>2
<1>4. /\ Join(open[i].breaks, at.path) \in Paths
      /\ After(open[i].outer.path, open[i].conts)
      /\ After(open[i].outer.path, Join(open[i].breaks, at.path))
  BY <1>2, FrameTypes, JoinFacts, AfterJoin DEF FlowInv, FrameOK
<1>5. /\ f \in Frames
      /\ f.kind = open[i].kind /\ f.part = open[i].part /\ f.outer = open[i].outer
      /\ f.exits = open[i].exits /\ f.out = open[i].out /\ f.all = open[i].all
      /\ f.brk = open[i].brk /\ f.exit = open[i].exit /\ f.hidden = open[i].hidden
      /\ f.breaks = Join(open[i].breaks, at.path) /\ f.conts = open[i].conts
  BY <1>2, <1>4 DEF Frames
<1> HIDE DEF f
<1>6. /\ at' \in Suites /\ at'.marks = at.marks /\ at'.path = Nowhere /\ at'.brk /\ at'.exit
  BY <1>2, NowhereFacts DEF Break, Suites
<1>7. /\ owed' = owed /\ After(f.outer.path, f.breaks) /\ After(f.outer.path, f.conts)
      /\ at.brk => at'.brk /\ (at'.brk \/ f.breaks = open[i].breaks)
  BY <1>4, <1>5, <1>6 DEF Break
<1>8. QED BY <1>1, <1>3, <1>5, <1>6, <1>7, JumpKeeps

LEMMA ContinueLoopKeeps == ASSUME FlowInv, ContinueLoop PROVE FlowInv'
<1>1. PICK i \in DOMAIN open :
        InnerLoop(i) /\ open' = [open EXCEPT ![i].conts = Join(@, at.path)]
  BY DEF ContinueLoop
<1>2. /\ at \in Suites /\ at.path \in Paths /\ at.marks \in SUBSET Names
      /\ open \in Seq(Frames) /\ open[i] \in Frames
  BY DEF FlowInv, TypesOK, Suites
<1> DEFINE f == [open[i] EXCEPT !.conts = Join(open[i].conts, at.path)]
<1>3. open' = [open EXCEPT ![i] = f]
  BY <1>1, <1>2
<1>4. /\ Join(open[i].conts, at.path) \in Paths
      /\ After(open[i].outer.path, open[i].breaks)
      /\ After(open[i].outer.path, Join(open[i].conts, at.path))
  BY <1>2, FrameTypes, JoinFacts, AfterJoin DEF FlowInv, FrameOK
<1>5. /\ f \in Frames
      /\ f.kind = open[i].kind /\ f.part = open[i].part /\ f.outer = open[i].outer
      /\ f.exits = open[i].exits /\ f.out = open[i].out /\ f.all = open[i].all
      /\ f.brk = open[i].brk /\ f.exit = open[i].exit /\ f.hidden = open[i].hidden
      /\ f.conts = Join(open[i].conts, at.path) /\ f.breaks = open[i].breaks
  BY <1>2, <1>4 DEF Frames
<1> HIDE DEF f
<1>6. /\ at' \in Suites /\ at'.marks = at.marks /\ at'.path = Nowhere
      /\ at'.brk = at.brk /\ at'.exit
  BY <1>2, NowhereFacts DEF ContinueLoop, Suites
<1>7. /\ owed' = owed /\ After(f.outer.path, f.breaks) /\ After(f.outer.path, f.conts)
      /\ at.brk => at'.brk /\ (at'.brk \/ f.breaks = open[i].breaks)
  BY <1>4, <1>5, <1>6 DEF ContinueLoop
<1>8. QED BY <1>1, <1>3, <1>5, <1>6, <1>7, JumpKeeps

LEMMA OpenKeeps ==
  ASSUME FlowInv, NEW kind \in {"if", "match", "for", "while", "do", "with", "try"},
         NEW part \in {"branch", "body"}, kind \in Loops => part = "body",
         NEW full \in BOOLEAN,
         \/ Enter(Frame(kind, part))
         \/ Enter([Frame(kind, part) EXCEPT !.full = full]),
         at' = Suite(at.marks, at.path), owed' = owed
  PROVE  FlowInv'
<1>1. PICK f : /\ open' = Append(open, f)
               /\ f = Frame(kind, part) \/ f = [Frame(kind, part) EXCEPT !.full = full]
  BY DEF Enter
<1>2. at \in Suites /\ at.path \in Paths /\ SuiteOK(at, Excuse(Len(open) + 1))
  BY DEF FlowInv, TypesOK, Suites
<1>3. /\ f \in Frames /\ f.kind = kind /\ f.part = part /\ f.outer = at /\ f.exits = {}
      /\ f.out = Nowhere /\ f.breaks = Nowhere /\ f.conts = Nowhere /\ f.hidden = {}
      /\ ~f.brk /\ ~f.exit
  <2>1. /\ Frame(kind, part) \in Frames
        /\ [Frame(kind, part) EXCEPT !.full = full] \in Frames
    BY <1>2, NowhereFacts DEF Frame, Frames
  <2>2. CASE f = Frame(kind, part)
    BY <2>1, <2>2 DEF Frame
  <2>3. CASE f = [Frame(kind, part) EXCEPT !.full = full]
    BY <2>1, <2>3 DEF Frame
  <2>4. QED BY <1>1, <2>2, <2>3
<1>4. FrameOK(f, Excuse(Len(open) + 1))
  BY <1>2, <1>3, NowhereFacts, AfterNowhere DEF FrameOK
<1>5. QED BY <1>1, <1>3, <1>4, NowhereFacts, EnterKeeps

LEMMA MeetFacts ==
  ASSUME NEW S \in SUBSET SUBSET Names, NEW incoming \in SUBSET Names
  PROVE  /\ Meet(S, incoming) \in SUBSET Names
         /\ \A n \in Meet(S, incoming) : n \in incoming \/ S # {}
         /\ \A n \in Meet(S, incoming) : \A s \in S : n \in s
BY DEF Meet

(* What a step knows when the innermost suite is one that nothing is hidden in *)
LEMMA AddTopFacts ==
  ASSUME FlowInv, open # <<>>, Top.part \notin {"handler", "finally"}
  PROVE  LET e == Excuse(Len(open))
             g == AddSuite(Top)
         IN /\ Top \in Frames /\ at \in Suites /\ Top.hidden = {}
            /\ FrameOK(Top, e) /\ SuiteOK(at, e) /\ After(Top.outer.path, at.path)
            /\ g \in Frames
            /\ g.kind = Top.kind /\ g.part = Top.part /\ g.outer = Top.outer /\ g.full = Top.full
            /\ g.breaks = Top.breaks /\ g.conts = Top.conts /\ g.hidden = {}
            /\ g.out = Join(Top.out, at.path) /\ g.out \in Paths
            /\ After(Top.outer.path, g.out)
            /\ \A n \in Names \ e : (\A s \in g.exits : n \in s) => n \in g.out.have
            /\ g.all <=> Top.all /\ at.ends
            /\ g.all => ~g.out.live
            /\ ~g.brk => ~Top.brk /\ ~at.brk
            /\ ~g.exit => ~Top.exit /\ ~at.exit
<1>1. /\ Top \in Frames /\ at \in Suites /\ FrameOK(Top, Excuse(Len(open)))
      /\ SuiteOK(at, Excuse(Len(open)) \cup Top.hidden) /\ After(Top.outer.path, at.path)
  BY TopFacts
<1>2. Top.hidden = {}
  BY <1>1 DEF FrameOK
<1>3. SuiteOK(at, Excuse(Len(open)))
  BY <1>1, <1>2 DEF SuiteOK
<1>4. AddSuite(Top).out \in Paths
  BY <1>1, <1>3, AddSuiteFacts, FrameTypes
<1>5. QED BY <1>1, <1>2, <1>3, <1>4, AddSuiteFacts

LEMMA NextBranchKeeps == ASSUME FlowInv, NEW full \in BOOLEAN, NextBranch(full) PROVE FlowInv'
<1> DEFINE e == Excuse(Len(open))
           g == AddSuite(Top)
           f == [g EXCEPT !.full = g.full \/ full]
           path == IF Top.full THEN Nowhere ELSE Top.outer.path
<1>1. /\ open # <<>> /\ Top.kind \in {"if", "match"} /\ Top.part = "branch"
      /\ open' = [open EXCEPT ![Len(open)] = f]
      /\ at' = Suite(Top.outer.marks, path) /\ owed' = owed
  BY DEF NextBranch, In, Continue
<1>2. /\ Top \in Frames /\ at \in Suites /\ FrameOK(Top, e)
      /\ g \in Frames
      /\ g.kind = Top.kind /\ g.part = Top.part /\ g.outer = Top.outer
      /\ g.breaks = Top.breaks /\ g.conts = Top.conts /\ g.hidden = {}
      /\ After(Top.outer.path, g.out)
      /\ \A n \in Names \ e : (\A s \in g.exits : n \in s) => n \in g.out.have
      /\ g.all => ~g.out.live
      /\ ~g.brk => ~Top.brk /\ ~at.brk
      /\ ~g.exit => ~Top.exit /\ ~at.exit
  BY <1>1, AddTopFacts
<1> HIDE DEF g
<1>3. /\ f \in Frames
      /\ f.kind = g.kind /\ f.part = g.part /\ f.outer = g.outer /\ f.exits = g.exits
      /\ f.out = g.out /\ f.all = g.all /\ f.brk = g.brk /\ f.exit = g.exit
      /\ f.breaks = g.breaks /\ f.conts = g.conts /\ f.hidden = g.hidden
  BY <1>2 DEF Frames
<1> HIDE DEF f
<1>4. FrameOK(f, e)
  BY <1>1, <1>2, <1>3 DEF FrameOK, Loops
<1>5. /\ Top.outer.marks \in SUBSET Names /\ path \in Paths
      /\ After(Top.outer.path, path)
      /\ Top.outer.marks \ e \subseteq path.have
  BY <1>2, FrameTypes, NowhereFacts, AfterNowhere, AfterSelf DEF FrameOK, SuiteOK
<1> HIDE DEF e, path
<1>6. /\ f.outer = Top.outer /\ f.part # "body" /\ After(f.outer.path, path)
      /\ ~f.exit => ~Top.exit /\ ~at.exit
      /\ ~f.brk => ~Top.brk /\ (~at.brk \/ LoopBody(Len(open)))
      /\ Top.outer.marks \ (e \cup f.hidden) \subseteq path.have
  BY <1>1, <1>2, <1>3, <1>5
<1>7. QED BY <1>1, <1>3, <1>4, <1>5, <1>6, ContinueKeeps DEF e

LEMMA EndBranchesKeeps == ASSUME FlowInv, EndBranches PROVE FlowInv'
<1> DEFINE e == Excuse(Len(open))
           f == AddSuite(Top)
           marks == Meet(BranchExits(f), f.outer.marks)
           path == IF f.full THEN f.out ELSE Join(f.out, f.outer.path)
           ends == f.full /\ f.all
<1>1. /\ open # <<>> /\ Top.part = "branch"
      /\ Resume(f, marks, path, ends) /\ owed' = owed
  BY DEF EndBranches, In
<1>2. /\ Top \in Frames /\ FrameOK(Top, e) /\ f \in Frames /\ f.outer = Top.outer
      /\ f.out \in Paths /\ After(f.outer.path, f.out)
      /\ \A n \in Names \ e : (\A s \in f.exits : n \in s) => n \in f.out.have
      /\ f.all => ~f.out.live
      /\ ~f.brk => ~Top.brk /\ ~at.brk
      /\ ~f.exit => ~Top.exit /\ ~at.exit
  BY <1>1, AddTopFacts
<1> HIDE DEF f
<1>3. /\ f.outer.marks \in SUBSET Names /\ f.outer.path \in Paths /\ f.exits \in SUBSET SUBSET Names
      /\ f.all \in BOOLEAN /\ f.full \in BOOLEAN
  BY <1>2, FrameTypes
<1>4. /\ BranchExits(f) \in SUBSET SUBSET Names
      /\ \A s \in f.exits : s \in BranchExits(f)
      /\ ~f.full => f.outer.marks \in BranchExits(f)
  BY <1>3 DEF BranchExits
<1>5. /\ marks \in SUBSET Names
      /\ \A n \in marks : \A s \in f.exits : n \in s
      /\ ~f.full => marks \subseteq f.outer.marks
  BY <1>3, <1>4, MeetFacts
<1> HIDE DEF marks
<1>6. f.outer.marks \ e \subseteq f.outer.path.have
  BY <1>2 DEF FrameOK, SuiteOK
<1>7. marks \ e \subseteq f.out.have
  BY <1>2, <1>5
<1>8. /\ path \in Paths /\ After(f.outer.path, path)
      /\ marks \ e \subseteq path.have
  <2>1. CASE f.full
    BY <2>1, <1>2, <1>7
  <2>2. CASE ~f.full
    <3> DEFINE join == Join(f.out, f.outer.path)
    <3>1. join \in Paths /\ join.have = f.out.have \cap f.outer.path.have
      BY <1>2, <1>3, JoinFacts
    <3>2. After(f.outer.path, join)
      BY <1>2, <1>3, AfterJoin, AfterSelf
    <3>3. marks \ e \subseteq join.have
      BY <2>2, <3>1, <1>5, <1>6, <1>7
    <3>4. QED BY <2>2, <3>1, <3>2, <3>3
  <2>3. QED BY <2>1, <2>2
<1>9. ends \in BOOLEAN /\ (ends => ~path.live)
  BY <1>2, <1>3
<1> HIDE DEF e, path, ends
<1>10. /\ owed \subseteq owed' /\ owed' \subseteq Names
       /\ marks \ (e \cup owed') \subseteq path.have
       /\ ~f.brk => ~Top.brk /\ (~at.brk \/ LoopBody(Len(open)))
  BY <1>1, <1>2, <1>8 DEF FlowInv, TypesOK
<1>11. QED BY <1>1, <1>2, <1>5, <1>8, <1>9, <1>10, ResumeKeeps DEF e

(* When a loop runs out, also one that was left by a continue *)
LEMMA LoopEnds ==
  ASSUME FlowInv, open # <<>>, Top.kind \in Loops, Top.part = "body",
         NEW f, f.full = Top.full, f.outer = Top.outer, f.conts = Top.conts
  PROVE  /\ AfterBody(f) \in SUBSET Names /\ Exhausted(f) \in Paths
         /\ After(Top.outer.path, Exhausted(f))
         /\ AfterBody(f) \ Excuse(Len(open)) \subseteq Exhausted(f).have
         /\ AfterBody(f) \ Excuse(Len(open)) \subseteq Top.breaks.have
<1> DEFINE e == Excuse(Len(open))
<1>1. /\ Top \in Frames /\ FrameOK(Top, e) /\ at \in Suites
      /\ SuiteOK(at, e) /\ After(Top.outer.path, at.path)
  BY AddTopFacts
<1>2. ~at.exit => ~Top.breaks.live /\ ~Top.conts.live
  BY TopFacts
<1>3. /\ Top.outer.marks \in SUBSET Names /\ Top.outer.path \in Paths
      /\ Top.breaks \in Paths /\ Top.conts \in Paths
      /\ at.marks \in SUBSET Names /\ at.path \in Paths
  BY <1>1, FrameTypes DEF Suites
<1>4. /\ Top.outer.marks \ e \subseteq Top.outer.path.have
      /\ at.marks \ e \subseteq at.path.have
      /\ After(Top.outer.path, Top.breaks) /\ After(Top.outer.path, Top.conts)
  BY <1>1 DEF FrameOK, SuiteOK
<1> HIDE DEF e
<1> DEFINE join == Join(at.path, Top.conts)
<1>5. /\ join \in Paths /\ join.have = at.path.have \cap Top.conts.have
      /\ After(Top.outer.path, join)
  BY <1>1, <1>3, <1>4, JoinFacts, AfterJoin
<1> HIDE DEF join
<1>6. CASE Top.full /\ ~at.exit
  <2>1. AfterBody(f) = at.marks /\ Exhausted(f) = join
    BY <1>6 DEF AfterBody, Exhausted, join
  <2>2. Top.breaks.have = Names /\ Top.conts.have = Names
    BY <1>6, <1>2, <1>3, DeadHasAll
  <2>3. QED BY <2>1, <2>2, <1>3, <1>4, <1>5 DEF e
<1>7. CASE Top.full /\ at.exit
  <2>1. AfterBody(f) = Top.outer.marks /\ Exhausted(f) = join
    BY <1>7 DEF AfterBody, Exhausted, join
  <2>2. QED BY <2>1, <1>3, <1>4, <1>5 DEF After, e
<1>8. CASE ~Top.full
  <2>1. AfterBody(f) = Top.outer.marks /\ Exhausted(f) = Top.outer.path
    BY <1>8 DEF AfterBody, Exhausted
  <2>2. QED BY <2>1, <1>3, <1>4 DEF After, e
<1>9. QED BY <1>6, <1>7, <1>8

LEMMA EndLoopKeeps == ASSUME FlowInv, EndLoop PROVE FlowInv'
<1> DEFINE e == Excuse(Len(open))
           f == [Top EXCEPT !.exit = at.exit]
           marks == AfterBody(f)
           path == Join(Exhausted(f), f.breaks)
<1>1. /\ open # <<>> /\ Top.kind \in Loops /\ Top.part = "body"
      /\ Resume(f, marks, path, FALSE) /\ owed' = owed
  BY DEF EndLoop, In, Loops
<1>2. /\ Top \in Frames /\ at \in Suites /\ owed \subseteq Names
      /\ FrameOK(Top, e) /\ LoopBody(Len(open))
  BY <1>1, TopFacts
<1>3. /\ f \in Frames /\ f.outer = Top.outer /\ f.full = Top.full /\ f.brk = Top.brk
      /\ f.exit = at.exit /\ f.breaks = Top.breaks /\ f.conts = Top.conts
  BY <1>2 DEF Frames, Suites
<1> HIDE DEF f
<1>4. /\ marks \in SUBSET Names /\ Exhausted(f) \in Paths
      /\ After(f.outer.path, Exhausted(f))
      /\ marks \ e \subseteq Exhausted(f).have /\ marks \ e \subseteq f.breaks.have
  BY <1>1, <1>3, LoopEnds
<1> HIDE DEF marks
<1>5. f.breaks \in Paths /\ f.outer.path \in Paths /\ After(f.outer.path, f.breaks)
  BY <1>2, <1>3, FrameTypes DEF FrameOK
<1>6. /\ path \in Paths /\ After(f.outer.path, path)
      /\ path.have = Exhausted(f).have \cap f.breaks.have
  BY <1>4, <1>5, JoinFacts, AfterJoin
<1>7. ~Top.brk /\ ~Top.exit
  BY <1>1, <1>2 DEF FrameOK
<1> HIDE DEF e, path
<1>8. /\ owed \subseteq owed' /\ owed' \subseteq Names
      /\ marks \ (e \cup owed') \subseteq path.have
      /\ ~f.brk => ~Top.brk /\ (~at.brk \/ LoopBody(Len(open)))
      /\ ~f.exit => ~Top.exit /\ ~at.exit
  BY <1>1, <1>2, <1>3, <1>4, <1>6, <1>7
<1>9. QED BY <1>1, <1>3, <1>4, <1>6, <1>8, ResumeKeeps DEF e

LEMMA LoopElseKeeps == ASSUME FlowInv, LoopElse PROVE FlowInv'
<1> DEFINE e == Excuse(Len(open))
           marks == AfterBody(Top)
           path == Exhausted(Top)
           f == [Top EXCEPT !.part = "else", !.all = ~at.brk, !.exit = at.exit, !.exits = {marks}]
<1>1. /\ open # <<>> /\ Top.kind \in Loops /\ Top.part = "body"
      /\ open' = [open EXCEPT ![Len(open)] = f] /\ at' = Suite(marks, path) /\ owed' = owed
  BY DEF LoopElse, In, Loops, Continue
<1>2. /\ Top \in Frames /\ at \in Suites /\ FrameOK(Top, e) /\ LoopBody(Len(open))
      /\ ~at.brk => ~Top.breaks.live
  BY <1>1, TopFacts
<1>3. /\ marks \in SUBSET Names /\ path \in Paths
      /\ After(Top.outer.path, path)
      /\ marks \ e \subseteq path.have /\ marks \ e \subseteq Top.breaks.have
  BY <1>1, LoopEnds
<1> HIDE DEF marks, path
<1>4. /\ f \in Frames /\ f.kind = Top.kind /\ f.part = "else" /\ f.outer = Top.outer
      /\ f.exits = {marks} /\ f.out = Top.out /\ f.hidden = Top.hidden
      /\ f.all <=> ~at.brk
      /\ f.brk = Top.brk /\ f.exit = at.exit
      /\ f.breaks = Top.breaks /\ f.conts = Top.conts
  BY <1>2, <1>3 DEF Frames, Suites
<1> HIDE DEF f
<1>5. Top.out.have = Names /\ ~Top.out.live /\ Top.hidden = {} /\ ~Top.brk /\ ~Top.exit
  BY <1>1, <1>2, FrameTypes, DeadHasAll DEF FrameOK
<1>6. FrameOK(f, e)
  BY <1>1, <1>2, <1>3, <1>4, <1>5 DEF FrameOK, Loops
<1> HIDE DEF e
<1>7. /\ f.part # "body" /\ After(f.outer.path, path)
      /\ ~f.exit => ~Top.exit /\ ~at.exit
      /\ ~f.brk => ~Top.brk /\ (~at.brk \/ LoopBody(Len(open)))
      /\ marks \ (e \cup f.hidden) \subseteq path.have
  BY <1>2, <1>3, <1>4, <1>5
<1>8. QED BY <1>1, <1>3, <1>4, <1>6, <1>7, ContinueKeeps DEF e

LEMMA EndLoopElseKeeps == ASSUME FlowInv, EndLoopElse PROVE FlowInv'
<1> DEFINE e == Excuse(Len(open))
           f == [Top EXCEPT !.brk = at.brk, !.exit = Top.exit \/ at.exit]
           path == Join(at.path, f.breaks)
           ends == LoopTerminates(f)
<1>1. /\ open # <<>> /\ Top.kind \in Loops /\ Top.part = "else"
      /\ Resume(f, at.marks, path, ends)
      /\ owed' = IF f.all THEN owed ELSE owed \cup (at.marks \ UNION f.exits)
  BY DEF EndLoopElse, In, Loops
<1>2. /\ Top \in Frames /\ at \in Suites /\ FrameOK(Top, e) /\ SuiteOK(at, e)
      /\ After(Top.outer.path, at.path) /\ owed \subseteq Names
  BY <1>1, AddTopFacts, TopFacts
<1>3. /\ f \in Frames /\ f.outer = Top.outer /\ f.breaks = Top.breaks /\ f.all = Top.all
      /\ f.exits = Top.exits
      /\ f.brk = at.brk
      /\ f.exit <=> Top.exit \/ at.exit
  BY <1>2 DEF Frames, Suites
<1> HIDE DEF f
<1>4. /\ f.all => ~f.breaks.live
      /\ \A n \in (UNION f.exits) \ e : n \in f.breaks.have
      /\ ~Top.brk /\ After(f.outer.path, f.breaks)
  BY <1>1, <1>2, <1>3 DEF FrameOK
<1>5. /\ f.breaks \in Paths /\ f.outer.path \in Paths /\ f.all \in BOOLEAN
      /\ at.path \in Paths /\ at.marks \in SUBSET Names
      /\ at.marks \ e \subseteq at.path.have /\ (at.ends => ~at.path.live) /\ at.ends \in BOOLEAN
  BY <1>2, <1>3, FrameTypes DEF Suites, SuiteOK
<1>6. /\ path \in Paths /\ After(f.outer.path, path)
      /\ path.have = at.path.have \cap f.breaks.have
      /\ path.live <=> at.path.live \/ f.breaks.live
  BY <1>2, <1>3, <1>4, <1>5, JoinFacts, AfterJoin
<1> HIDE DEF path, e
<1>7. ends \in BOOLEAN /\ (ends => ~path.live)
  BY <1>4, <1>5, <1>6 DEF LoopTerminates
<1> HIDE DEF ends
<1>8. at.marks \ (e \cup owed') \subseteq path.have
  <2>1. CASE f.all
    BY <2>1, <1>4, <1>5, <1>6, DeadHasAll
  <2>2. CASE ~f.all
    BY <2>2, <1>1, <1>4, <1>5, <1>6
  <2>3. QED BY <2>1, <2>2
<1>9. /\ owed \subseteq owed' /\ owed' \subseteq Names
      /\ ~f.brk => ~Top.brk /\ (~at.brk \/ LoopBody(Len(open)))
      /\ ~f.exit => ~Top.exit /\ ~at.exit
  BY <1>1, <1>2, <1>3, <1>4, <1>5
<1>10. /\ open # <<>> /\ Resume(f, at.marks, path, ends) /\ at.marks \in SUBSET Names
       /\ f \in Frames /\ f.outer = Top.outer
       /\ path \in Paths /\ After(f.outer.path, path) /\ ends \in BOOLEAN /\ (ends => ~path.live)
       /\ at.marks \ (Excuse(Len(open)) \cup owed') \subseteq path.have
  BY <1>1, <1>3, <1>5, <1>6, <1>7, <1>8 DEF e
<1>11. QED BY <1>9, <1>10, ResumeKeeps

LEMMA DoHandlerKeeps == ASSUME FlowInv, DoHandler PROVE FlowInv'
<1> DEFINE e == Excuse(Len(open))
           g == AddSuite(Top)
           f == [g EXCEPT !.part = "handler", !.hidden = at.marks \ Top.outer.marks]
<1>1. /\ open # <<>> /\ Top.kind = "do" /\ Top.part = "body"
      /\ open' = [open EXCEPT ![Len(open)] = f]
      /\ at' = Suite(at.marks, Top.outer.path) /\ owed' = owed
  BY DEF DoHandler, In, Continue
<1>2. /\ Top \in Frames /\ at \in Suites /\ FrameOK(Top, e)
      /\ g \in Frames /\ g.kind = Top.kind /\ g.outer = Top.outer
      /\ g.breaks = Top.breaks /\ g.conts = Top.conts
      /\ After(Top.outer.path, g.out)
      /\ \A n \in Names \ e : (\A s \in g.exits : n \in s) => n \in g.out.have
      /\ g.all => ~g.out.live
      /\ ~g.brk => ~Top.brk /\ ~at.brk
      /\ ~g.exit => ~Top.exit /\ ~at.exit
  BY <1>1, AddTopFacts
<1> HIDE DEF g
<1>3. at.marks \in SUBSET Names /\ Top.outer.path \in Paths
  BY <1>2, FrameTypes DEF Suites
<1>4. /\ f \in Frames
      /\ f.kind = "do" /\ f.part = "handler" /\ f.outer = g.outer /\ f.exits = g.exits
      /\ f.out = g.out /\ f.all = g.all /\ f.brk = g.brk /\ f.exit = g.exit
      /\ f.breaks = g.breaks /\ f.conts = g.conts /\ f.hidden = at.marks \ Top.outer.marks
  BY <1>1, <1>2, <1>3 DEF Frames
<1> HIDE DEF f
<1>5. FrameOK(f, e)
  BY <1>1, <1>2, <1>4 DEF FrameOK, Loops
<1>6. Top.outer.marks \ e \subseteq Top.outer.path.have
  BY <1>2 DEF FrameOK, SuiteOK
<1> HIDE DEF e
<1>7. /\ f.outer = Top.outer /\ f.part # "body" /\ After(f.outer.path, Top.outer.path)
      /\ ~f.exit => ~Top.exit /\ ~at.exit
      /\ ~f.brk => ~Top.brk /\ (~at.brk \/ LoopBody(Len(open)))
      /\ at.marks \ (e \cup f.hidden) \subseteq Top.outer.path.have
  BY <1>2, <1>4, <1>6, AfterSelf
<1>8. QED BY <1>1, <1>3, <1>4, <1>5, <1>7, ContinueKeeps DEF e

(* The last suite of a construct in which something was hidden *)
LEMMA AddHiddenFacts ==
  ASSUME FlowInv, open # <<>>
  PROVE  LET g == AddSuite(Top)
         IN /\ Top \in Frames /\ at \in Suites
            /\ FrameOK(Top, Excuse(Len(open))) /\ After(Top.outer.path, at.path)
            /\ g \in Frames /\ g.outer = Top.outer
            /\ g.out \in Paths /\ After(Top.outer.path, g.out)
            /\ g.all => ~g.out.live
            /\ ~g.brk => ~Top.brk /\ ~at.brk
            /\ ~g.exit => ~Top.exit /\ ~at.exit
<1> DEFINE e == Excuse(Len(open)) \cup Top.hidden
<1>1. /\ Top \in Frames /\ at \in Suites /\ FrameOK(Top, Excuse(Len(open)))
      /\ SuiteOK(at, e) /\ After(Top.outer.path, at.path)
  BY TopFacts
<1>2. FrameOK(Top, e)
  BY <1>1, FrameMonotone
<1>3. AddSuite(Top) \in Frames => AddSuite(Top).out \in Paths
  BY FrameTypes
<1> HIDE DEF e
<1>4. QED BY <1>1, <1>2, <1>3, AddSuiteFacts

LEMMA EndDoKeeps == ASSUME FlowInv, EndDo PROVE FlowInv'
<1> DEFINE f == AddSuite(Top)
           path == f.out
           ends == f.all
<1>1. /\ open # <<>>
      /\ Resume(f, at.marks, path, ends) /\ owed' = owed \cup (at.marks \ f.outer.marks)
  BY DEF EndDo, In
<1>2. /\ Top \in Frames /\ at \in Suites /\ FrameOK(Top, Excuse(Len(open)))
      /\ f \in Frames /\ f.outer = Top.outer
      /\ path \in Paths /\ After(f.outer.path, path)
      /\ ends => ~path.live
      /\ ~f.brk => ~Top.brk /\ ~at.brk
      /\ ~f.exit => ~Top.exit /\ ~at.exit
  BY <1>1, AddHiddenFacts
<1>3. at.marks \in SUBSET Names /\ ends \in BOOLEAN /\ owed \subseteq Names
  BY <1>1, <1>2, FrameTypes, TopFacts DEF Suites
<1> HIDE DEF f, path, ends
<1>4. f.outer.marks \ Excuse(Len(open)) \subseteq f.outer.path.have
  BY <1>2 DEF FrameOK, SuiteOK
<1>5. /\ owed \subseteq owed' /\ owed' \subseteq Names
      /\ at.marks \ (Excuse(Len(open)) \cup owed') \subseteq path.have
      /\ ~f.brk => ~Top.brk /\ (~at.brk \/ LoopBody(Len(open)))
  BY <1>1, <1>2, <1>3, <1>4 DEF After
<1>6. QED BY <1>1, <1>2, <1>3, <1>5, ResumeKeeps

LEMMA EndWithKeeps == ASSUME FlowInv, EndWith PROVE FlowInv'
<1> DEFINE f == AddSuite(Top)
<1>1. /\ open # <<>> /\ Top.part = "body"
      /\ Resume(f, at.marks, at.path, FALSE) /\ owed' = owed
  BY DEF EndWith, In
<1>2. /\ Top \in Frames /\ at \in Suites /\ SuiteOK(at, Excuse(Len(open)))
      /\ f \in Frames /\ f.outer = Top.outer /\ After(f.outer.path, at.path)
      /\ ~f.brk => ~Top.brk /\ ~at.brk
      /\ ~f.exit => ~Top.exit /\ ~at.exit
  BY <1>1, AddTopFacts
<1> HIDE DEF f
<1>3. /\ at.marks \in SUBSET Names /\ at.path \in Paths /\ owed \subseteq Names
      /\ at.marks \ (Excuse(Len(open)) \cup owed') \subseteq at.path.have
      /\ owed \subseteq owed' /\ owed' \subseteq Names
      /\ ~f.brk => ~Top.brk /\ (~at.brk \/ LoopBody(Len(open)))
  BY <1>1, <1>2, TopFacts DEF Suites, SuiteOK
<1>4. QED BY <1>1, <1>2, <1>3, ResumeKeeps

LEMMA TryElseKeeps == ASSUME FlowInv, TryElse PROVE FlowInv'
<1> DEFINE e == Excuse(Len(open))
           f == [Top EXCEPT !.part = "else", !.all = at.ends, !.brk = at.brk, !.exit = at.exit]
<1>1. /\ open # <<>> /\ Top.kind = "try" /\ Top.part = "body" /\ ~at.ends
      /\ open' = [open EXCEPT ![Len(open)] = f]
      /\ at' = Suite(at.marks, at.path) /\ owed' = owed
  BY DEF TryElse, In, Continue
<1>2. /\ Top \in Frames /\ at \in Suites /\ FrameOK(Top, e) /\ SuiteOK(at, e)
      /\ After(Top.outer.path, at.path)
  BY <1>1, AddTopFacts
<1>3. at.marks \in SUBSET Names /\ at.path \in Paths
  BY <1>2 DEF Suites
<1>4. /\ f \in Frames
      /\ f.kind = "try" /\ f.part = "else" /\ f.outer = Top.outer /\ f.exits = Top.exits
      /\ f.out = Top.out /\ f.all = at.ends /\ f.brk = at.brk /\ f.exit = at.exit
      /\ f.breaks = Top.breaks /\ f.conts = Top.conts /\ f.hidden = Top.hidden
  BY <1>1, <1>2 DEF Frames, Suites
<1> HIDE DEF f
<1>5. FrameOK(f, e) /\ ~Top.brk /\ ~Top.exit /\ at.marks \ e \subseteq at.path.have
  BY <1>1, <1>2, <1>4 DEF FrameOK, SuiteOK, Loops
<1> HIDE DEF e
<1>6. /\ f.part # "body" /\ After(f.outer.path, at.path)
      /\ ~f.exit => ~Top.exit /\ ~at.exit
      /\ ~f.brk => ~Top.brk /\ (~at.brk \/ LoopBody(Len(open)))
      /\ at.marks \ (e \cup f.hidden) \subseteq at.path.have
  BY <1>2, <1>4, <1>5
<1>7. QED BY <1>1, <1>3, <1>4, <1>5, <1>6, ContinueKeeps DEF e

LEMMA CatchKeeps == ASSUME FlowInv, Catch PROVE FlowInv'
<1> DEFINE e == Excuse(Len(open))
           g == AddSuite(Top)
           f == [g EXCEPT !.part = "catch", !.full = TRUE,
                          !.all = IF Top.part = "else" THEN Top.all ELSE g.all]
<1>1. /\ open # <<>> /\ Top.kind = "try" /\ Top.part \in {"body", "else", "catch"}
      /\ open' = [open EXCEPT ![Len(open)] = f]
      /\ at' = Suite(Top.outer.marks, Top.outer.path) /\ owed' = owed
  BY DEF Catch, In, Continue
<1>2. /\ Top \in Frames /\ FrameOK(Top, e)
      /\ g \in Frames /\ g.kind = Top.kind /\ g.outer = Top.outer
      /\ g.breaks = Top.breaks /\ g.conts = Top.conts /\ g.hidden = {}
      /\ After(Top.outer.path, g.out)
      /\ \A n \in Names \ e : (\A s \in g.exits : n \in s) => n \in g.out.have
      /\ g.all => ~g.out.live
      /\ ~g.brk => ~Top.brk /\ ~at.brk
      /\ ~g.exit => ~Top.exit /\ ~at.exit
  BY <1>1, AddTopFacts
<1> HIDE DEF g
<1>3. Top.outer.marks \in SUBSET Names /\ Top.outer.path \in Paths /\ Top.all \in BOOLEAN
  BY <1>2, FrameTypes
<1>4. /\ f \in Frames
      /\ f.kind = "try" /\ f.part = "catch" /\ f.outer = g.outer /\ f.exits = g.exits
      /\ f.out = g.out /\ f.brk = g.brk /\ f.exit = g.exit
      /\ f.all = IF Top.part = "else" THEN Top.all ELSE g.all
      /\ f.breaks = g.breaks /\ f.conts = g.conts /\ f.hidden = g.hidden
  BY <1>1, <1>2, <1>3 DEF Frames
<1> HIDE DEF f
<1>5. f.all => ~f.out.live
  BY <1>1, <1>2, <1>4 DEF FrameOK
<1>6. FrameOK(f, e) /\ Top.outer.marks \ e \subseteq Top.outer.path.have
  BY <1>1, <1>2, <1>4, <1>5 DEF FrameOK, SuiteOK, Loops
<1> HIDE DEF e
<1>7. /\ f.outer = Top.outer /\ f.part # "body" /\ After(f.outer.path, Top.outer.path)
      /\ ~f.exit => ~Top.exit /\ ~at.exit
      /\ ~f.brk => ~Top.brk /\ (~at.brk \/ LoopBody(Len(open)))
      /\ Top.outer.marks \ (e \cup f.hidden) \subseteq Top.outer.path.have
  BY <1>2, <1>4, <1>6, AfterSelf
<1>8. QED BY <1>1, <1>3, <1>4, <1>6, <1>7, ContinueKeeps DEF e

LEMMA EndTryKeeps == ASSUME FlowInv, EndTry PROVE FlowInv'
<1> DEFINE e == Excuse(Len(open))
           f == AddSuite(Top)
           marks == Meet(f.exits, f.outer.marks)
           path == f.out
           ends == f.all
<1>1. /\ open # <<>> /\ Top.part = "catch"
      /\ Resume(f, marks, path, ends) /\ owed' = owed
  BY DEF EndTry, In
<1>2. /\ Top \in Frames /\ f \in Frames /\ f.outer = Top.outer
      /\ path \in Paths /\ After(f.outer.path, path)
      /\ \A n \in Names \ e : (\A s \in f.exits : n \in s) => n \in path.have
      /\ ends => ~path.live
      /\ ~f.brk => ~Top.brk /\ ~at.brk
      /\ ~f.exit => ~Top.exit /\ ~at.exit
  BY <1>1, AddTopFacts
<1>3. /\ f.outer.marks \in SUBSET Names /\ f.exits \in SUBSET SUBSET Names
      /\ ends \in BOOLEAN /\ owed \subseteq Names
  BY <1>1, <1>2, FrameTypes, TopFacts
<1> HIDE DEF f, path, ends
<1>4. marks \in SUBSET Names /\ marks \ e \subseteq path.have
  BY <1>2, <1>3, MeetFacts
<1> HIDE DEF marks
<1>5. /\ owed \subseteq owed' /\ owed' \subseteq Names
      /\ marks \ (Excuse(Len(open)) \cup owed') \subseteq path.have
      /\ ~f.brk => ~Top.brk /\ (~at.brk \/ LoopBody(Len(open)))
  BY <1>1, <1>2, <1>3, <1>4
<1>6. QED BY <1>1, <1>2, <1>3, <1>4, <1>5, ResumeKeeps

LEMMA FinallyKeeps == ASSUME FlowInv, Finally PROVE FlowInv'
<1> DEFINE e == Excuse(Len(open))
           g == AddSuite(Top)
           merged == Meet(g.exits, g.outer.marks)
           f == [g EXCEPT !.part = "finally", !.hidden = merged \ g.outer.marks]
<1>1. /\ open # <<>> /\ Top.kind = "try" /\ Top.part \in {"body", "catch"}
      /\ open' = [open EXCEPT ![Len(open)] = f]
      /\ at' = Suite(merged, g.outer.path) /\ owed' = owed
  BY DEF Finally, In, Continue
<1>2. /\ Top \in Frames /\ FrameOK(Top, e)
      /\ g \in Frames /\ g.kind = Top.kind /\ g.outer = Top.outer
      /\ g.breaks = Top.breaks /\ g.conts = Top.conts
      /\ After(Top.outer.path, g.out)
      /\ \A n \in Names \ e : (\A s \in g.exits : n \in s) => n \in g.out.have
      /\ g.all => ~g.out.live
      /\ ~g.brk => ~Top.brk /\ ~at.brk
      /\ ~g.exit => ~Top.exit /\ ~at.exit
  BY <1>1, AddTopFacts
<1> HIDE DEF g
<1>3. /\ g.outer.marks \in SUBSET Names /\ g.outer.path \in Paths
      /\ g.exits \in SUBSET SUBSET Names
  BY <1>2, FrameTypes
<1>4. merged \in SUBSET Names /\ \A n \in merged : \A s \in g.exits : n \in s
  BY <1>3, MeetFacts
<1> HIDE DEF merged
<1>5. /\ f \in Frames
      /\ f.kind = "try" /\ f.part = "finally" /\ f.outer = g.outer /\ f.exits = g.exits
      /\ f.out = g.out /\ f.all = g.all /\ f.brk = g.brk /\ f.exit = g.exit
      /\ f.breaks = g.breaks /\ f.conts = g.conts /\ f.hidden = merged \ g.outer.marks
  BY <1>1, <1>2, <1>4 DEF Frames
<1> HIDE DEF f
<1>6. f.hidden \ e \subseteq f.out.have
  BY <1>2, <1>4, <1>5
<1>7. FrameOK(f, e) /\ g.outer.marks \ e \subseteq g.outer.path.have
  BY <1>1, <1>2, <1>5, <1>6 DEF FrameOK, SuiteOK, Loops
<1> HIDE DEF e
<1>8. /\ f.outer = Top.outer /\ f.part # "body" /\ After(f.outer.path, g.outer.path)
      /\ ~f.exit => ~Top.exit /\ ~at.exit
      /\ ~f.brk => ~Top.brk /\ (~at.brk \/ LoopBody(Len(open)))
      /\ merged \ (e \cup f.hidden) \subseteq g.outer.path.have
  BY <1>2, <1>5, <1>7, AfterSelf
<1>9. QED BY <1>1, <1>3, <1>4, <1>5, <1>7, <1>8, ContinueKeeps DEF e

LEMMA EndFinallyKeeps == ASSUME FlowInv, EndFinally PROVE FlowInv'
<1> DEFINE e == Excuse(Len(open))
           f == [Top EXCEPT !.brk = Top.brk \/ at.brk, !.exit = Top.exit \/ at.exit]
           path == [live |-> f.out.live /\ at.path.live, have |-> f.out.have \cup at.path.have]
           ends == f.full /\ f.all
<1>1. /\ open # <<>> /\ Top.part = "finally"
      /\ Resume(f, at.marks, path, ends) /\ owed' = owed
  BY DEF EndFinally, In
<1>2. /\ Top \in Frames /\ at \in Suites /\ FrameOK(Top, e) /\ SuiteOK(at, e \cup Top.hidden)
      /\ After(Top.outer.path, at.path) /\ owed \subseteq Names
  BY <1>1, TopFacts
<1>3. /\ f \in Frames /\ f.outer = Top.outer /\ f.out = Top.out /\ f.all = Top.all
      /\ f.full = Top.full
      /\ f.brk <=> Top.brk \/ at.brk
      /\ f.exit <=> Top.exit \/ at.exit
  BY <1>2 DEF Frames, Suites
<1> HIDE DEF f
<1>4. /\ f.out \in Paths /\ at.path \in Paths /\ at.marks \in SUBSET Names
      /\ f.all \in BOOLEAN /\ f.full \in BOOLEAN
  BY <1>2, <1>3, FrameTypes DEF Suites
<1>5. /\ After(f.outer.path, f.out) /\ (f.all => ~f.out.live)
      /\ Top.hidden \ e \subseteq f.out.have
  BY <1>1, <1>2, <1>3 DEF FrameOK
<1>6. /\ path \in Paths
      /\ path.live <=> f.out.live /\ at.path.live
      /\ path.have = f.out.have \cup at.path.have
  BY <1>4 DEF Paths
<1> HIDE DEF path
<1>7. After(f.outer.path, path) /\ at.marks \ e \subseteq path.have
  BY <1>2, <1>5, <1>6 DEF After, SuiteOK
<1>8. ends \in BOOLEAN /\ (ends => ~path.live)
  BY <1>4, <1>5, <1>6
<1> HIDE DEF ends, e
<1>9. /\ owed \subseteq owed' /\ owed' \subseteq Names
      /\ at.marks \ (Excuse(Len(open)) \cup owed') \subseteq path.have
      /\ ~f.brk => ~Top.brk /\ (~at.brk \/ LoopBody(Len(open)))
      /\ ~f.exit => ~Top.exit /\ ~at.exit
  BY <1>1, <1>2, <1>3, <1>7 DEF e
<1>10. QED BY <1>1, <1>3, <1>4, <1>6, <1>7, <1>8, <1>9, ResumeKeeps

(* ------------------------------- theorems ------------------------------- *)

LEMMA FlowInvariant == FlowSpec => []FlowInv
<1>1. FlowInit => FlowInv
  <2> SUFFICES ASSUME FlowInit PROVE FlowInv
    OBVIOUS
  <2> DEFINE path == [live |-> TRUE, have |-> {}]
  <2>1. at = Suite({}, path) /\ open = <<>> /\ owed = {}
    BY DEF FlowInit
  <2>2. path \in Paths
    BY DEF Paths
  <2> HIDE DEF path
  <2>3. at \in Suites /\ at.marks = {} /\ ~at.ends
    BY <2>1, <2>2, SuiteFacts
  <2>4. DOMAIN open = {} /\ open \in Seq(Frames)
    BY <2>1
  <2>5. QED BY <2>1, <2>3, <2>4 DEF FlowInv, TypesOK, SuiteOK
<1>2. FlowInv /\ [FlowNext]_flowVars => FlowInv'
  <2> SUFFICES ASSUME FlowInv, [FlowNext]_flowVars PROVE FlowInv'
    OBVIOUS
  <2>1. CASE UNCHANGED flowVars
    <3>1. at' = at /\ open' = open /\ owed' = owed
      BY <2>1 DEF flowVars
    <3>2. /\ at \in Suites /\ After(at.path, at.path) /\ SuiteOK(at, Excuse(Len(open) + 1))
      BY AfterSelf DEF FlowInv, TypesOK
    <3>3. QED BY <3>1, <3>2, SuiteKeeps
  <2>2. ASSUME NEW n \in Names, Assign(n) PROVE FlowInv'
    BY <2>2, AssignKeeps
  <2>3. CASE Leave \/ Break \/ ContinueLoop
    BY <2>3, LeaveKeeps, BreakKeeps, ContinueLoopKeeps
  <2>4. ASSUME NEW kind \in {"if", "match"}, NEW full \in BOOLEAN, OpenBranches(kind, full)
        PROVE  FlowInv'
    BY <2>4, OpenKeeps DEF OpenBranches, Loops
  <2>5. ASSUME NEW full \in BOOLEAN, NextBranch(full) PROVE FlowInv'
    BY <2>5, NextBranchKeeps
  <2>6. ASSUME NEW kind \in {"for", "while"}, NEW full \in BOOLEAN, OpenLoop(kind, full)
        PROVE  FlowInv'
    BY <2>6, OpenKeeps DEF OpenLoop
  <2>7. CASE OpenDo \/ OpenWith \/ OpenTry
    BY <2>7, OpenKeeps DEF OpenDo, OpenWith, OpenTry
  <2>8. CASE EndBranches \/ EndLoop \/ LoopElse \/ EndLoopElse
    BY <2>8, EndBranchesKeeps, EndLoopKeeps, LoopElseKeeps, EndLoopElseKeeps
  <2>9. CASE DoHandler \/ EndDo \/ EndWith
    BY <2>9, DoHandlerKeeps, EndDoKeeps, EndWithKeeps
  <2>10. CASE TryElse \/ Catch \/ EndTry \/ Finally \/ EndFinally
    BY <2>10, TryElseKeeps, CatchKeeps, EndTryKeeps, FinallyKeeps, EndFinallyKeeps
  <2>11. QED
    BY <2>1, <2>2, <2>3, <2>4, <2>5, <2>6, <2>7, <2>8, <2>9, <2>10 DEF FlowNext
<1>3. QED BY <1>1, <1>2, PTL DEF FlowSpec

(* In a function of any size, with any locals and any nesting of its statements, a local that *)
(* may be read where the visitor stands is assigned in every execution that gets there.       *)
THEOREM ReadsAssignedHolds == FlowSpec => []ReadsAssigned
<1>1. FlowInv => ReadsAssigned
  <2> SUFFICES ASSUME FlowInv PROVE ReadsAssigned
    OBVIOUS
  <2>1. DOMAIN open = 1..Len(open) /\ Len(open) \in Nat
    BY DEF FlowInv, TypesOK
  <2>2. Excuse(Len(open) + 1) = owed \cup UNION {open[i].hidden : i \in DOMAIN open}
    BY <2>1 DEF Excuse
  <2>3. QED BY <2>2 DEF FlowInv, SuiteOK, ReadsAssigned
<1>2. QED BY <1>1, FlowInvariant, PTL

(* In such a function no execution gets past a suite that is held to terminate. *)
THEOREM NoFallOffEndHolds == FlowSpec => []NoFallOffEnd
<1>1. FlowInv => NoFallOffEnd
  BY DEF FlowInv, SuiteOK, NoFallOffEnd
<1>2. QED BY <1>1, FlowInvariant, PTL
=============================================================================
