--------------------------- MODULE PackagesProofs ---------------------------
(***************************************************************************)
(* The package manager, for any libraries, versions and manifests: a       *)
(* frozen install repairs whatever the commands before it left; the Go     *)
(* version an install locks suits every library on disk; and until a       *)
(* command dies or stops halfway the trees are those of the lock file and  *)
(* meet each other's demands.                                              *)
(***************************************************************************)
EXTENDS Packages, FiniteSetTheorems, WellFoundedInduction, TLAPS

(* --------------------------- sets and sequences -------------------------- *)

(* There are finitely many libraries.                                     *)
LEMMA LibsFinite == IsFiniteSet(Libs)
<1>1. /\ Len(Order) \in Nat
      /\ DOMAIN Order = 1..Len(Order)
  BY OrderAssumption
<1>2. IsFiniteSet(1..Len(Order))
  BY <1>1, FS_Interval
<1> DEFINE f == [i \in 1..Len(Order) |-> Order[i]]
<1>3. f \in Surjection(1..Len(Order), Libs)
  BY <1>1 DEF Libs, Surjection
<1>4. QED
  BY <1>2, <1>3, FS_Surjection

(* The n-th element of a subsequence is the one at the n-th place: rank    *)
(* counts the places up to it, and is a bijection.                         *)
LEMMA SubsequenceIs ==
  ASSUME NEW P \in SUBSET Nat, IsFiniteSet(P), NEW s
  PROVE  /\ Cardinality(P) \in Nat
         /\ \E f \in Bijection(1..Cardinality(P), P) :
              \A k \in 1..Cardinality(P) : Subsequence(s, P)[k] = s[f[k]]
<1> DEFINE c == Cardinality(P)
           UpTo(i) == {j \in P : j <= i}
           Rank(i) == Cardinality(UpTo(i))
           r == [i \in P |-> Rank(i)]
           f == [k \in 1..c |-> CHOOSE i \in P : Rank(i) = k]
<1>1. IsFiniteSet(P) /\ c \in Nat
  BY FS_CardinalityType
<1>2. ASSUME NEW i \in P
      PROVE  IsFiniteSet(UpTo(i)) /\ Rank(i) \in 1..c
  <2>1. UpTo(i) \in SUBSET P /\ i \in UpTo(i)
    OBVIOUS
  <2>2. IsFiniteSet(UpTo(i)) /\ Rank(i) <= c
    BY <1>1, <2>1, FS_Subset
  <2>3. Rank(i) \in Nat /\ Rank(i) # 0
    BY <2>1, <2>2, FS_CardinalityType, FS_EmptySet
  <2>4. QED BY <1>1, <2>2, <2>3
<1>3. ASSUME NEW i \in P, NEW m \in P, i < m PROVE Rank(i) < Rank(m)
  <2>1. UpTo(i) \in SUBSET UpTo(m)
    <3>1. i \in Nat /\ m \in Nat /\ \A j \in P : j \in Nat
      OBVIOUS
    <3>2. \A j \in P : j <= i => j <= m
      BY <1>3, <3>1
    <3>3. QED BY <3>2
  <2>2. m \in UpTo(m) /\ m \notin UpTo(i)
    <3>1. i \in Nat /\ m \in Nat
      OBVIOUS
    <3>2. QED BY <1>3, <3>1
  <2>3. /\ Rank(i) <= Rank(m)
        /\ Rank(i) = Rank(m) => UpTo(m) = UpTo(i)
    <3>1. IsFiniteSet(UpTo(m))
      BY <1>2
    <3>2. QED BY <2>1, <3>1, FS_Subset
  <2> HIDE DEF UpTo
  <2>4. Rank(i) # Rank(m)
    BY <2>2, <2>3
  <2>5. Rank(i) \in Nat /\ Rank(m) \in Nat
    BY <1>1, <1>2
  <2>6. QED BY <2>3, <2>4, <2>5
<1>4. ASSUME NEW i \in P, NEW m \in P, Rank(i) = Rank(m) PROVE i = m
  <2>1. ~(i < m) /\ ~(m < i)
    BY <1>1, <1>2, <1>3, <1>4
  <2>2. QED BY <2>1
<1>5. IsFiniteSet(1..c) /\ Cardinality(1..c) = c
  BY <1>1, FS_Interval
<1> HIDE DEF Rank, UpTo, c
<1>6. r \in Injection(P, 1..c)
  BY <1>2, <1>4 DEF Injection, IsInjective
<1>7. r \in Surjection(P, 1..c)
  BY <1>5, <1>6, FS_Injection DEF c
<1>8. \A k \in 1..c : f[k] \in P /\ Rank(f[k]) = k
  BY <1>7 DEF Surjection
<1>9. f \in Bijection(1..c, P)
  <2>1. f \in [1..c -> P]
    BY <1>8
  <2>2. \A k, m \in 1..c : f[k] = f[m] => k = m
    BY <1>8
  <2>3. ASSUME NEW i \in P PROVE \E k \in 1..c : f[k] = i
    BY <1>2, <1>4, <1>8
  <2> HIDE DEF f
  <2>4. QED BY <2>1, <2>2, <2>3 DEF Bijection, Injection, Surjection, IsInjective
<1>10. \A k \in 1..c : Subsequence(s, P)[k] = s[f[k]]
  BY DEF Subsequence, Rank, UpTo, c
<1> HIDE DEF f
<1>11. QED BY <1>1, <1>9, <1>10 DEF c

LEMMA SubsequenceFacts ==
  ASSUME NEW S, NEW s \in Seq(S), NEW P \in SUBSET DOMAIN s
  PROVE  /\ Subsequence(s, P) \in Seq(S)
         /\ \A k \in DOMAIN Subsequence(s, P) : \E i \in P : Subsequence(s, P)[k] = s[i]
         /\ \A i \in P : \E k \in DOMAIN Subsequence(s, P) : Subsequence(s, P)[k] = s[i]
         /\ (\A i, j \in P : s[i][1] = s[j][1] => i = j) =>
              \A k, m \in DOMAIN Subsequence(s, P) :
                Subsequence(s, P)[k][1] = Subsequence(s, P)[m][1] => k = m
<1> DEFINE t == Subsequence(s, P)
           c == Cardinality(P)
<1>1. Len(s) \in Nat /\ DOMAIN s = 1..Len(s)
  OBVIOUS
<1>2. /\ Cardinality(P) \in Nat
      /\ \E f \in Bijection(1..Cardinality(P), P) :
           \A k \in 1..Cardinality(P) : Subsequence(s, P)[k] = s[f[k]]
  <2>1. P \in SUBSET (1..Len(s))
    BY <1>1
  <2>2. IsFiniteSet(1..Len(s))
    BY <1>1, FS_Interval
  <2>3. P \in SUBSET Nat /\ IsFiniteSet(P)
    BY <1>1, <2>1, <2>2, FS_Subset
  <2> HIDE DEF t, c
  <2>4. QED BY <2>3, SubsequenceIs
<1>3. PICK f \in Bijection(1..c, P) : \A k \in 1..c : t[k] = s[f[k]]
  BY <1>2 DEF t, c
<1>4. /\ \A k \in 1..c : f[k] \in P
      /\ \A i \in P : \E k \in 1..c : f[k] = i
      /\ \A k, m \in 1..c : f[k] = f[m] => k = m
  BY DEF Bijection, Injection, Surjection, IsInjective
<1>5. c \in Nat /\ DOMAIN t = 1..c /\ t = [k \in 1..c |-> t[k]]
  BY <1>2 DEF Subsequence
<1> HIDE DEF t, c
<1>6. \A k \in 1..c : t[k] \in S
  BY <1>3, <1>4
<1>7. t \in Seq(S)
  <2>1. t \in [1..c -> S]
    BY <1>5, <1>6
  <2>2. QED BY <1>5, <2>1
<1>8. /\ \A k \in 1..c : \E i \in P : t[k] = s[i]
      /\ \A i \in P : \E k \in 1..c : t[k] = s[i]
  BY <1>3, <1>4
<1>9. ASSUME \A i, j \in P : s[i][1] = s[j][1] => i = j,
             NEW k \in 1..c, NEW m \in 1..c, t[k][1] = t[m][1]
      PROVE  k = m
  <2>1. f[k] \in P /\ f[m] \in P /\ s[f[k]][1] = s[f[m]][1]
    BY <1>3, <1>4, <1>9
  <2>2. f[k] = f[m]
    BY <1>9, <2>1
  <2>3. QED BY <1>4, <2>2
<1>10. QED BY <1>5, <1>7, <1>8, <1>9 DEF t

(* A bounded set of numbers has a highest: its least upper bound. *)
LEMMA HighestExists ==
  ASSUME NEW n \in Nat, NEW S \in SUBSET (1..n), S # {}
  PROVE  Highest(S) \in S /\ \A v \in S : v <= Highest(S)
<1> DEFINE Above == {b \in Nat : \A s \in S : s <= b}
<1>1. \A x, y \in Nat : <<x, y>> \in OpToRel(<, Nat) <=> x < y
  BY DEF OpToRel
<1>2. Above \subseteq Nat /\ Above # {}
  OBVIOUS
<1>3. PICK m \in Above : \A b \in Above : <<b, m>> \notin OpToRel(<, Nat)
  BY <1>2, NatLessThanWellFounded, WFMin
<1>4. \A b \in Above : ~(b < m)
  BY <1>1, <1>2, <1>3
<1>5. m \in S
  <2> SUFFICES ASSUME m \notin S PROVE FALSE
    OBVIOUS
  <2>1. m \in Nat /\ \A s \in S : s \in Nat /\ s < m
    BY <1>2
  <2>2. m # 0
    <3>1. PICK s \in S : TRUE
      OBVIOUS
    <3>2. s \in Nat /\ s < m
      BY <2>1
    <3>3. QED BY <3>2
  <2>3. m - 1 \in Nat /\ m - 1 < m /\ \A s \in S : s <= m - 1
    BY <2>1, <2>2
  <2> HIDE DEF Above
  <2>4. m - 1 \in Above
    BY <2>3 DEF Above
  <2>5. QED BY <1>4, <2>3, <2>4
<1>6. \A s \in S : s <= m
  BY <1>3
<1>7. QED BY <1>5, <1>6 DEF Highest

(* ------------------------- the invariant of commands --------------------- *)

Whole(v) == IF v = 0 THEN NoTree ELSE [ver |-> v, files |-> "whole"]
Plan == Libs \X Vers
PlanNames(q) == {q[i][1] : i \in DOMAIN q}

(* Plans for libraries that were found, in the version found               *)
Follows(q, found) ==
  /\ q \in Seq(Plan)
  /\ \A i \in DOMAIN q : q[i][1] \in DOMAIN found /\ q[i][2] = found[q[i][1]]
Apart(q) == \A i, j \in DOMAIN q : q[i][1] = q[j][1] => i = j
Picks(found) == DOMAIN found \subseteq Libs /\ found \in [DOMAIN found -> Vers]

(* What the manifest of a library that was found asks for is known.        *)
Seen(l, v, found, demands, go) ==
  /\ DepsOf(l, v) \subseteq demands
  /\ \A d \in DepsOf(l, v) : d[1] \in DOMAIN found
  /\ GoNeeds[l][v] \in {0} \cup go

(* A walk that has met found, has listed order and has queue yet to read   *)
Walked(root, queue, found, order, demands, go) ==
  /\ Picks(found) /\ Follows(queue, found) /\ Follows(order, found) /\ Apart(order)
  /\ root \in Plan /\ root[1] \in DOMAIN found /\ root[2] = found[root[1]]
  /\ root[1] \notin PlanNames(order) /\ DOMAIN found = PlanNames(order) \cup {root[1]}
  /\ go \subseteq DOMAIN GoMajor
  /\ \A l \in DOMAIN found : l \in PlanNames(queue) \/ Seen(l, found[l], found, demands, go)

WalkOK ==
  /\ {"kind", "root", "write", "force", "allow", "queue", "found", "order", "demands", "go"}
       \subseteq DOMAIN job
  /\ Walked(job.root, job.queue, job.found, job.order, job.demands, job.go)
  /\ StandingDemands(job.root[1]) \subseteq job.demands
  /\ StandingGo(job.root[1]) \subseteq job.go

(* The Go version go suits a library that requires g, 0 for none.          *)
Suits(go, g) == g = 0 \/ (go >= g /\ GoMajor[go] = GoMajor[g])

(* The tree that l has, or will have again when it is no longer put aside  *)
Kept(l) == IF \E s \in job.saved : s[1] = l THEN (CHOOSE s \in job.saved : s[1] = l)[2] ELSE disk[l]

CopyOK ==
  /\ job.todo \in Seq(Plan)
  /\ job.phase = "copy" => job.todo # <<>>
  /\ job.phase # "copy" => job.saved = {}
  /\ \A l \in Libs : Kept(l) \in Tree

CopyFields == {"kind", "todo", "phase", "saved", "force", "allow"}

InstallOK ==
  /\ CopyFields \cup {"write", "root", "found", "go"} \subseteq DOMAIN job
  /\ CopyOK /\ job.phase \in {"check", "copy", "locked"}
  /\ job.phase = "locked" => job.todo = <<>>
  /\ Picks(job.found) /\ Follows(job.todo, job.found) /\ Apart(job.todo)
  /\ Len(job.todo) <= Cardinality(DOMAIN job.found)
  /\ Len(job.todo) = Cardinality(DOMAIN job.found) => PlanNames(job.todo) = DOMAIN job.found

FrozenOK ==
  /\ CopyFields \subseteq DOMAIN job /\ job.force /\ job.allow
  /\ CopyOK /\ job.phase \in {"check", "copy"}
  /\ \A i \in DOMAIN job.todo : job.todo[i][2] = pins[job.todo[i][1]]

UninstallOK == job = [kind |-> "uninstall", lib |-> job.lib] /\ job.lib \in Libs

PkgOK ==
  /\ disk \in [Libs -> Tree] /\ pins \in [Libs -> {0} \cup Vers]
  /\ \/ job = Idle
     \/ job.kind = "uninstall" /\ UninstallOK
     \/ job.kind = "walk" /\ WalkOK
     \/ job.kind = "install" /\ InstallOK
     \/ job.kind = "frozen" /\ FrozenOK

(* The Go version to be locked suits every library that was found, and     *)
(* every other one that stays.                                             *)
GoInv ==
  job.kind = "install" =>
    /\ \A l \in DOMAIN job.found : Suits(job.go, GoNeeds[l][job.found[l]])
    /\ \A l \in Libs : Kept(l).ver # 0 =>
         IF l \in DOMAIN job.found
         THEN l \notin PlanNames(job.todo) => Kept(l).ver = job.found[l]
         ELSE Suits(job.go, GoNeeds[l][Kept(l).ver])
    /\ job.phase = "locked" => goPins = job.go

(* Libraries in the versions vers, 0 for none, meet each other's demands.  *)
Meets(vers) ==
  \A l \in Libs : vers[l] # 0 =>
    \A d \in DepsOf(l, vers[l]) : vers[d[1]] # 0 => vers[d[1]] \in d[2]

(* What the pins are about to be                                           *)
NewPins == [l \in Libs |-> IF l \in DOMAIN job.found THEN job.found[l] ELSE pins[l]]

(* Until a command dies or stops halfway, the trees are those of the pins, *)
(* but for what the command that runs has done or is about to do.          *)
Between ==
  /\ Meets(pins)
  /\ job.kind \in {"none", "walk"} => \A l \in Libs : disk[l] = Whole(pins[l])
  /\ job.kind = "uninstall" =>
       \A l \in Libs : disk[l] = IF l = job.lib THEN NoTree ELSE Whole(pins[l])
  /\ job.kind = "frozen" =>
       \A l \in Libs : (job.phase = "copy" /\ l = Lib) \/ Kept(l) = Whole(pins[l])
  /\ job.kind = "install" =>
       /\ Meets(NewPins)
       /\ \A l \in Libs :
            \/ job.phase = "copy" /\ l = Lib
            \/ Kept(l) = Whole(IF l \in PlanNames(job.todo) THEN pins[l] ELSE NewPins[l])
       /\ job.phase = "locked" => \A l \in DOMAIN job.found : pins[l] = job.found[l]

SettledInv == ~unsettled => Between

(* ------------------------- sequences of plans ---------------------------- *)

LEMMA ConcatFacts ==
  ASSUME NEW q \in Seq(Plan), NEW p \in Seq(Plan)
  PROVE  /\ q \o p \in Seq(Plan)
         /\ PlanNames(q \o p) = PlanNames(q) \cup PlanNames(p)
         /\ \A i \in DOMAIN (q \o p) : \/ \E j \in DOMAIN q : (q \o p)[i] = q[j]
                                       \/ \E j \in DOMAIN p : (q \o p)[i] = p[j]
         /\ Apart(q) /\ Apart(p) /\ PlanNames(q) \cap PlanNames(p) = {} => Apart(q \o p)
<1> DEFINE r == q \o p
<1>1. /\ r \in Seq(Plan) /\ Len(r) = Len(q) + Len(p)
      /\ Len(q) \in Nat /\ Len(p) \in Nat
      /\ DOMAIN r = 1..Len(r) /\ DOMAIN q = 1..Len(q) /\ DOMAIN p = 1..Len(p)
  OBVIOUS
<1>2. /\ \A i \in DOMAIN q : i \in DOMAIN r /\ r[i] = q[i]
      /\ \A i \in DOMAIN p : i + Len(q) \in DOMAIN r /\ r[i + Len(q)] = p[i]
  BY <1>1
<1>3. \A i \in DOMAIN r : i \notin DOMAIN q => i - Len(q) \in DOMAIN p /\ r[i] = p[i - Len(q)]
  BY <1>1
<1> HIDE DEF r
<1>4. \A i \in DOMAIN r : (\E j \in DOMAIN q : r[i] = q[j]) \/ (\E j \in DOMAIN p : r[i] = p[j])
  BY <1>2, <1>3
<1>5. PlanNames(r) = PlanNames(q) \cup PlanNames(p)
  BY <1>2, <1>4 DEF PlanNames
<1>6. ASSUME Apart(q), Apart(p), PlanNames(q) \cap PlanNames(p) = {},
             NEW i \in DOMAIN r, NEW j \in DOMAIN r, r[i][1] = r[j][1]
      PROVE  i = j
  <2>1. CASE i \in DOMAIN q /\ j \in DOMAIN q
    BY <2>1, <1>2, <1>6 DEF Apart
  <2>2. CASE i \notin DOMAIN q /\ j \notin DOMAIN q
    <3>1. i - Len(q) = j - Len(q)
      BY <2>2, <1>3, <1>6 DEF Apart
    <3>2. QED BY <3>1, <1>1
  <2>3. ASSUME NEW m \in DOMAIN r
        PROVE  r[m][1] \in PlanNames(IF m \in DOMAIN q THEN q ELSE p)
    BY <1>2, <1>3 DEF PlanNames
  <2>4. (i \in DOMAIN q) <=> (j \in DOMAIN q)
    BY <2>3, <1>6
  <2>5. QED BY <2>1, <2>2, <2>4
<1>7. QED BY <1>1, <1>4, <1>5, <1>6 DEF r, Apart

LEMMA TailFacts ==
  ASSUME NEW q \in Seq(Plan), q # <<>>
  PROVE  /\ Tail(q) \in Seq(Plan) /\ Len(Tail(q)) = Len(q) - 1 /\ Len(q) \in Nat \ {0}
         /\ Head(q) \in Plan /\ 1 \in DOMAIN q /\ Head(q) = q[1]
         /\ \A i \in DOMAIN Tail(q) : i + 1 \in DOMAIN q /\ Tail(q)[i] = q[i + 1]
         /\ PlanNames(q) = {Head(q)[1]} \cup PlanNames(Tail(q))
         /\ Apart(q) => Apart(Tail(q)) /\ Head(q)[1] \notin PlanNames(Tail(q))
<1>1. /\ Tail(q) \in Seq(Plan) /\ Len(Tail(q)) = Len(q) - 1 /\ Len(q) \in Nat \ {0}
      /\ Head(q) \in Plan /\ 1 \in DOMAIN q /\ Head(q) = q[1]
      /\ DOMAIN q = 1..Len(q) /\ DOMAIN Tail(q) = 1..(Len(q) - 1)
  OBVIOUS
<1>2. \A i \in DOMAIN Tail(q) : i + 1 \in DOMAIN q /\ i + 1 # 1 /\ Tail(q)[i] = q[i + 1]
  BY <1>1
<1>3. \A i \in DOMAIN q : i # 1 => i - 1 \in DOMAIN Tail(q) /\ Tail(q)[i - 1] = q[i]
  BY <1>1
<1>4. PlanNames(q) = {Head(q)[1]} \cup PlanNames(Tail(q))
  <2>1. \A i \in DOMAIN q : q[i][1] \in {Head(q)[1]} \cup PlanNames(Tail(q))
    BY <1>1, <1>3 DEF PlanNames
  <2>2. \A i \in DOMAIN Tail(q) : Tail(q)[i][1] \in PlanNames(q)
    BY <1>2 DEF PlanNames
  <2>3. Head(q)[1] \in PlanNames(q)
    BY <1>1 DEF PlanNames
  <2>4. QED BY <2>1, <2>2, <2>3 DEF PlanNames
<1>5. ASSUME Apart(q) PROVE Apart(Tail(q)) /\ Head(q)[1] \notin PlanNames(Tail(q))
  <2>1. ASSUME NEW i \in DOMAIN Tail(q), NEW j \in DOMAIN Tail(q), Tail(q)[i][1] = Tail(q)[j][1]
        PROVE  i = j
    <3>1. i + 1 = j + 1
      BY <1>2, <1>5, <2>1 DEF Apart
    <3>2. QED BY <3>1, <1>1
  <2>2. QED BY <2>1, <1>1, <1>2, <1>5 DEF Apart, PlanNames
<1>6. QED BY <1>1, <1>2, <1>4, <1>5

LEMMA FollowsFacts ==
  ASSUME NEW q, NEW found, Follows(q, found)
  PROVE  /\ \A p : Follows(p, found) => Follows(q \o p, found)
         /\ q # <<>> => Follows(Tail(q), found)
         /\ \A more : (\A l \in DOMAIN found : l \in DOMAIN more /\ more[l] = found[l])
                        => Follows(q, more)
<1>1. ASSUME NEW p, Follows(p, found) PROVE Follows(q \o p, found)
  BY <1>1, ConcatFacts DEF Follows
<1>2. ASSUME q # <<>> PROVE Follows(Tail(q), found)
  BY <1>2, TailFacts DEF Follows
<1>3. ASSUME NEW more, \A l \in DOMAIN found : l \in DOMAIN more /\ more[l] = found[l]
      PROVE  Follows(q, more)
  BY <1>3 DEF Follows
<1>4. QED BY <1>1, <1>2, <1>3

(* ------------------------------- the walk -------------------------------- *)

LEMMA VersFacts == Len(Major) \in Nat /\ Vers = 1..Len(Major) /\ 0 \notin Vers
BY VersionsAssumption DEF Vers

LEMMA PickHolds ==
  ASSUME NEW n \in Libs, NEW Ds, Pickable(n, Ds) # {}
  PROVE  Highest(Pickable(n, Ds)) \in Pickable(n, Ds) /\ Highest(Pickable(n, Ds)) \in Vers
<1>1. Pickable(n, Ds) \in SUBSET (1..Len(Major)) /\ Len(Major) \in Nat
  BY VersFacts, VersionsAssumption DEF Pickable
<1>2. QED BY <1>1, HighestExists, VersFacts

LEMMA FreshPicks ==
  ASSUME NEW l \in Libs, NEW v \in Vers, NEW found, NEW Ds,
         \A i \in DOMAIN Fresh(Needs[l][v], found) :
           Pickable(Fresh(Needs[l][v], found)[i][1], Ds) # {}
  PROVE  LET picks == PicksFor(Fresh(Needs[l][v], found), Ds) IN
         /\ picks \in Seq(Plan) /\ Apart(picks)
         /\ PlanNames(picks) \cap DOMAIN found = {}
         /\ \A d \in DepsOf(l, v) : d[1] \in DOMAIN found \cup PlanNames(picks)
<1> DEFINE deps == Needs[l][v]
           P == {i \in DOMAIN deps : deps[i][1] \notin DOMAIN found}
           Dep == Libs \X SUBSET Vers
           fresh == Fresh(deps, found)
           picks == PicksFor(fresh, Ds)
<1>1. /\ deps \in Seq(Dep)
      /\ \A i, j \in P : deps[i][1] = deps[j][1] => i = j
  BY VersionsAssumption
<1>2. fresh = Subsequence(deps, P) /\ P \in SUBSET DOMAIN deps
  BY DEF Fresh
<1> HIDE DEF deps, P, Dep, fresh
<1>3. /\ fresh \in Seq(Dep)
      /\ \A k \in DOMAIN fresh : \E i \in P : fresh[k] = deps[i]
      /\ \A i \in P : \E k \in DOMAIN fresh : fresh[k] = deps[i]
      /\ \A k, m \in DOMAIN fresh : fresh[k][1] = fresh[m][1] => k = m
  <2>1. /\ Subsequence(deps, P) \in Seq(Dep)
        /\ \A k \in DOMAIN Subsequence(deps, P) : \E i \in P : Subsequence(deps, P)[k] = deps[i]
        /\ \A i \in P : \E k \in DOMAIN Subsequence(deps, P) : Subsequence(deps, P)[k] = deps[i]
        /\ \A k, m \in DOMAIN Subsequence(deps, P) :
             Subsequence(deps, P)[k][1] = Subsequence(deps, P)[m][1] => k = m
    BY <1>1, <1>2, SubsequenceFacts
  <2>2. QED BY <1>2, <2>1
<1>4. /\ picks = [i \in DOMAIN fresh |-> picks[i]]
      /\ \A i \in DOMAIN fresh : /\ picks[i] = <<fresh[i][1], Highest(Pickable(fresh[i][1], Ds))>>
                                /\ picks[i][1] = fresh[i][1]
  BY DEF PicksFor
<1> HIDE DEF picks
<1>5. Len(fresh) \in Nat /\ DOMAIN fresh = 1..Len(fresh)
  BY <1>3
<1>6. \A i \in DOMAIN fresh : picks[i] \in Plan
  <2> SUFFICES ASSUME NEW i \in DOMAIN fresh PROVE picks[i] \in Plan
    OBVIOUS
  <2>1. fresh[i][1] \in Libs
    BY <1>3, <1>5 DEF Dep
  <2>2. Highest(Pickable(fresh[i][1], Ds)) \in Vers
    BY <2>1, PickHolds DEF fresh, deps
  <2>3. QED BY <1>4, <2>1, <2>2 DEF Plan
<1>7. picks \in Seq(Plan)
  <2>1. picks \in [1..Len(fresh) -> Plan]
    BY <1>4, <1>5, <1>6
  <2>2. QED BY <1>5, <2>1
<1>8. PlanNames(picks) = {deps[i][1] : i \in P}
  BY <1>3, <1>4 DEF PlanNames
<1>9. \A d \in DepsOf(l, v) : d[1] \in DOMAIN found \cup PlanNames(picks)
  BY <1>8 DEF DepsOf, deps, P
<1>10. PlanNames(picks) \cap DOMAIN found = {}
  BY <1>8 DEF P
<1>11. Apart(picks)
  BY <1>3, <1>4 DEF Apart
<1>12. QED BY <1>7, <1>9, <1>10, <1>11 DEF picks, fresh, deps

LEMMA WithPicksFacts ==
  ASSUME NEW found, Picks(found), NEW picks \in Seq(Plan), Apart(picks),
         PlanNames(picks) \cap DOMAIN found = {}
  PROVE  LET more == WithPicks(found, picks)
         IN  /\ Picks(more) /\ Follows(picks, more)
             /\ DOMAIN more = DOMAIN found \cup PlanNames(picks)
             /\ \A l \in DOMAIN found : more[l] = found[l]
<1> DEFINE more == WithPicks(found, picks)
<1>1. /\ DOMAIN more = DOMAIN found \cup PlanNames(picks)
      /\ more = [l \in DOMAIN more |-> more[l]]
      /\ \A l \in DOMAIN found : more[l] = found[l]
  BY DEF WithPicks, PlanNames
<1>2. ASSUME NEW i \in DOMAIN picks
      PROVE  /\ picks[i] = <<picks[i][1], picks[i][2]>>
             /\ picks[i][1] \in Libs /\ picks[i][2] \in Vers
             /\ picks[i][1] \in DOMAIN more /\ more[picks[i][1]] = picks[i][2]
  <2>1. picks[i] \in Plan
    OBVIOUS
  <2>2. picks[i][1] \notin DOMAIN found /\ picks[i][1] \in PlanNames(picks)
    BY DEF PlanNames
  <2>3. (CHOOSE j \in DOMAIN picks : picks[j][1] = picks[i][1]) = i
    BY DEF Apart
  <2>4. more[picks[i][1]] = picks[CHOOSE j \in DOMAIN picks : picks[j][1] = picks[i][1]][2]
    BY <2>2 DEF WithPicks, PlanNames
  <2>5. picks[i] = <<picks[i][1], picks[i][2]>> /\ picks[i][1] \in Libs /\ picks[i][2] \in Vers
    BY <2>1 DEF Plan
  <2>6. more[picks[i][1]] = picks[i][2] /\ picks[i][1] \in DOMAIN more
    BY <2>2, <2>3, <2>4, <1>1
  <2>7. QED BY <2>5, <2>6
<1> HIDE DEF more
<1>3. Follows(picks, more)
  BY <1>2 DEF Follows
<1>4. \A l \in DOMAIN more : l \in Libs /\ more[l] \in Vers
  BY <1>1, <1>2 DEF Picks, PlanNames
<1>5. Picks(more)
  BY <1>1, <1>4 DEF Picks
<1>6. QED BY <1>1, <1>3, <1>5 DEF more

LEMMA Descends ==
  ASSUME NEW root, NEW queue, NEW found, NEW order, NEW demands, NEW go,
         Walked(root, queue, found, order, demands, go), queue # <<>>,
         NEW l, NEW v, Head(queue) = <<l, v>>, NEW Ds, Ds = demands \cup DepsOf(l, v),
         \A i \in DOMAIN Fresh(Needs[l][v], found) :
           Pickable(Fresh(Needs[l][v], found)[i][1], Ds) # {}
  PROVE  LET picks == PicksFor(Fresh(Needs[l][v], found), Ds)
         IN  Walked(root, Tail(queue) \o picks, WithPicks(found, picks), order \o picks, Ds,
                    go \cup ({GoNeeds[l][v]} \ {0}))
<1> DEFINE picks == PicksFor(Fresh(Needs[l][v], found), Ds)
           more == WithPicks(found, picks)
           rest == Tail(queue) \o picks
           longer == order \o picks
           all == go \cup ({GoNeeds[l][v]} \ {0})
<1>1. /\ Picks(found) /\ Follows(queue, found) /\ Follows(order, found) /\ Apart(order)
      /\ queue \in Seq(Plan) /\ order \in Seq(Plan)
  BY DEF Walked, Follows
<1>2. l \in Libs /\ v \in Vers /\ l \in DOMAIN found /\ v = found[l]
  BY <1>1, TailFacts DEF Plan, Follows
<1>3. /\ picks \in Seq(Plan) /\ Apart(picks)
      /\ PlanNames(picks) \cap DOMAIN found = {}
      /\ \A d \in DepsOf(l, v) : d[1] \in DOMAIN found \cup PlanNames(picks)
  BY <1>2, FreshPicks
<1> HIDE DEF picks
<1>4. /\ Picks(more) /\ Follows(picks, more)
      /\ DOMAIN more = DOMAIN found \cup PlanNames(picks)
      /\ \A k \in DOMAIN found : more[k] = found[k]
  BY <1>1, <1>3, WithPicksFacts
<1> HIDE DEF more
<1>5. Tail(queue) \in Seq(Plan) /\ PlanNames(queue) = {l} \cup PlanNames(Tail(queue))
  BY <1>1, TailFacts
<1>6. Follows(rest, more) /\ Follows(longer, more)
  <2>1. Follows(Tail(queue), found)
    BY <1>1, FollowsFacts
  <2>2. \A k \in DOMAIN found : k \in DOMAIN more /\ more[k] = found[k]
    BY <1>4
  <2>3. Follows(Tail(queue), more)
    BY <2>1, <2>2, FollowsFacts
  <2>4. Follows(order, more)
    BY <1>1, <2>2, FollowsFacts
  <2>5. QED BY <1>4, <2>3, <2>4, FollowsFacts
<1>7. /\ PlanNames(rest) = PlanNames(Tail(queue)) \cup PlanNames(picks)
      /\ PlanNames(longer) = PlanNames(order) \cup PlanNames(picks)
  BY <1>1, <1>3, <1>5, ConcatFacts
<1>8. Apart(longer)
  <2>1. PlanNames(order) \subseteq DOMAIN found
    BY <1>1 DEF Follows, PlanNames
  <2>2. PlanNames(order) \cap PlanNames(picks) = {}
    BY <1>3, <2>1
  <2>3. QED BY <1>1, <1>3, <2>2, ConcatFacts
<1> HIDE DEF rest, longer
<1>9. /\ root \in Plan /\ root[1] \in DOMAIN more /\ root[2] = more[root[1]]
      /\ root[1] \notin PlanNames(longer) /\ DOMAIN more = PlanNames(longer) \cup {root[1]}
  BY <1>3, <1>4, <1>7 DEF Walked
<1>10. all \subseteq DOMAIN GoMajor
  BY <1>2, VersionsAssumption DEF Walked
<1>11. ASSUME NEW k \in DOMAIN more
       PROVE  k \in PlanNames(rest) \/ Seen(k, more[k], more, Ds, all)
  <2>1. CASE k \in PlanNames(picks)
    BY <2>1, <1>7
  <2>2. CASE k = l
    <3>1. more[k] = v
      BY <2>2, <1>2, <1>4
    <3>2. DepsOf(l, v) \subseteq Ds /\ GoNeeds[l][v] \in {0} \cup all
      OBVIOUS
    <3>3. QED BY <2>2, <3>1, <3>2, <1>3, <1>4 DEF Seen
  <2>3. CASE k \in DOMAIN found /\ k # l
    <3>1. more[k] = found[k] /\ (k \in PlanNames(queue) \/ Seen(k, found[k], found, demands, go))
      BY <2>3, <1>4 DEF Walked
    <3>2. QED BY <2>3, <3>1, <1>4, <1>5, <1>7 DEF Seen
  <2>4. QED BY <1>4, <2>1, <2>2, <2>3
<1> HIDE DEF all
<1>12. Walked(root, rest, more, longer, Ds, all)
  BY <1>4, <1>6, <1>8, <1>9, <1>10, <1>11 DEF Walked
<1>13. QED BY <1>12 DEF rest, more, longer, all, picks

(* --------------------------- from walk to install ------------------------ *)

LEMMA PlanLength ==
  ASSUME NEW q \in Seq(Plan), Apart(q)
  PROVE  Len(q) \in Nat /\ Cardinality(PlanNames(q)) = Len(q)
<1> DEFINE f == [i \in 1..Len(q) |-> q[i][1]]
<1>1. Len(q) \in Nat /\ DOMAIN q = 1..Len(q)
  OBVIOUS
<1>2. \A i \in 1..Len(q) : f[i] = q[i][1]
  OBVIOUS
<1>3. f \in [1..Len(q) -> PlanNames(q)]
  BY <1>1 DEF PlanNames
<1>4. \A n \in PlanNames(q) : \E i \in 1..Len(q) : f[i] = n
  BY <1>1, <1>2 DEF PlanNames
<1>5. \A i, j \in 1..Len(q) : f[i] = f[j] => i = j
  BY <1>1, <1>2 DEF Apart
<1> HIDE DEF f
<1>6. f \in Bijection(1..Len(q), PlanNames(q))
  BY <1>3, <1>4, <1>5 DEF Bijection, Injection, Surjection, IsInjective
<1>7. IsFiniteSet(1..Len(q)) /\ Cardinality(1..Len(q)) = Len(q)
  BY <1>1, FS_Interval
<1>8. ExistsBijection(1..Len(q), PlanNames(q))
  BY <1>6 DEF ExistsBijection
<1>9. QED BY <1>1, <1>7, <1>8, FS_Bijection

LEMMA GoChoice ==
  ASSUME NEW go \in SUBSET DOMAIN GoMajor, \A g, h \in go : GoMajor[g] = GoMajor[h],
         NEW pick, pick = IF go = {} THEN 0 ELSE Highest(go)
  PROVE  \A g \in {0} \cup go : Suits(pick, g)
<1>1. Len(GoMajor) \in Nat /\ DOMAIN GoMajor = 1..Len(GoMajor)
  BY VersionsAssumption
<1>2. CASE go = {}
  BY <1>2 DEF Suits
<1>3. CASE go # {}
  <2>1. go \in SUBSET (1..Len(GoMajor))
    BY <1>1
  <2>2. pick \in go /\ \A g \in go : g <= pick
    BY <1>1, <1>3, <2>1, HighestExists
  <2>3. \A g \in go : g \in Nat
    BY <1>1
  <2>4. QED BY <2>2, <2>3 DEF Suits
<1>4. QED BY <1>2, <1>3

(* The walk is over: what is to be copied is each library found, once.     *)
LEMMA AllFound ==
  ASSUME NEW root, NEW found, NEW order, NEW demands, NEW go,
         Walked(root, <<>>, found, order, demands, go)
  PROVE  LET todo == Append(order, root) IN
         /\ todo \in Seq(Plan) /\ Follows(todo, found) /\ Apart(todo)
         /\ PlanNames(todo) = DOMAIN found
         /\ Len(todo) \in Nat /\ Len(todo) = Cardinality(DOMAIN found)
         /\ \A l \in DOMAIN found : Seen(l, found[l], found, demands, go)
<1> DEFINE last == <<root>>
           todo == order \o last
<1>1. /\ Picks(found) /\ Follows(order, found) /\ Apart(order) /\ order \in Seq(Plan)
      /\ root \in Plan /\ root[1] \in DOMAIN found /\ root[2] = found[root[1]]
      /\ root[1] \notin PlanNames(order) /\ DOMAIN found = PlanNames(order) \cup {root[1]}
  BY DEF Walked, Follows
<1>2. last \in Seq(Plan) /\ DOMAIN last = {1} /\ last[1] = root
  BY <1>1
<1>3. Follows(last, found) /\ Apart(last) /\ PlanNames(last) = {root[1]}
  BY <1>1, <1>2 DEF Follows, Apart, PlanNames
<1> HIDE DEF last
<1>4. PlanNames(order) \cap PlanNames(last) = {}
  BY <1>1, <1>3
<1>5. todo \in Seq(Plan) /\ PlanNames(todo) = DOMAIN found /\ Apart(todo)
  <2>1. /\ todo \in Seq(Plan)
        /\ PlanNames(todo) = PlanNames(order) \cup PlanNames(last)
        /\ Apart(order) /\ Apart(last) /\ PlanNames(order) \cap PlanNames(last) = {}
             => Apart(todo)
    BY <1>1, <1>2, ConcatFacts
  <2> HIDE DEF todo
  <2>2. QED BY <1>1, <1>3, <1>4, <2>1
<1>6. Follows(todo, found)
  BY <1>1, <1>3, FollowsFacts
<1>7. todo = Append(order, root)
  BY <1>1 DEF last
<1> HIDE DEF todo
<1>8. Len(todo) \in Nat /\ Len(todo) = Cardinality(DOMAIN found)
  BY <1>5, PlanLength
<1>9. \A l \in DOMAIN found : Seen(l, found[l], found, demands, go)
  BY DEF Walked, PlanNames
<1>10. QED BY <1>5, <1>6, <1>7, <1>8, <1>9

(* ------------------------- one library into the tree --------------------- *)

LEMMA RemoveKept ==
  ASSUME job'.saved = Aside,
         disk' = [l \in Libs |-> IF l \in {Lib} \cup Inside[Lib] THEN NoTree ELSE disk[l]],
         NEW l \in Libs
  PROVE  Kept(l)' = IF l \in Nested(Lib) THEN disk[l]
                    ELSE IF l \in {Lib} \cup Inside[Lib] THEN NoTree ELSE disk[l]
<1>1. CASE l \in Nested(Lib)
  <2>1. \A s \in Aside : s[1] = l => s = <<l, disk[l]>>
    BY DEF Aside
  <2>2. <<l, disk[l]>> \in Aside
    BY <1>1 DEF Aside
  <2>3. (\E s \in Aside : s[1] = l) /\ (CHOOSE s \in Aside : s[1] = l) = <<l, disk[l]>>
    BY <2>1, <2>2
  <2>4. Kept(l)' = (CHOOSE s \in Aside : s[1] = l)[2]
    BY <2>3 DEF Kept
  <2>5. Kept(l)' = <<l, disk[l]>>[2]
    BY <2>3, <2>4
  <2>6. QED BY <1>1, <2>5
<1>2. CASE l \notin Nested(Lib)
  <2>1. ~\E s \in Aside : s[1] = l
    BY <1>2 DEF Aside
  <2>2. Kept(l)' = disk'[l]
    BY <2>1 DEF Kept
  <2>3. QED BY <1>2, <2>2
<1>3. QED BY <1>1, <1>2

LEMMA CopyKept ==
  ASSUME CopyTree, job'.saved = {}, NEW l \in Libs
  PROVE  /\ disk'[l] = IF l = Lib THEN [ver |-> Ver, files |-> "whole"] ELSE Kept(l)
         /\ Kept(l)' = disk'[l]
<1>1. disk'[l] = IF l = Lib THEN [ver |-> Ver, files |-> "whole"] ELSE Kept(l)
  BY DEF CopyTree, Kept
<1>2. Kept(l)' = disk'[l]
  BY DEF Kept
<1>3. QED BY <1>1, <1>2

LEMMA KeptHere == ASSUME job.saved = {} PROVE \A l : Kept(l) = disk[l]
BY DEF Kept

LEMMA TreeFacts ==
  /\ NoTree \in Tree /\ \A v \in Vers : [ver |-> v, files |-> "whole"] \in Tree
  /\ \A v \in {0} \cup Vers : Whole(v) \in Tree /\ Whole(v).ver = v
  /\ \A t \in Tree : t.ver \in {0} \cup Vers
BY DEF Tree, NoTree, Whole

(* The job of an install or a frozen install, and how it advances          *)
LEMMA CopyingJob ==
  ASSUME PkgOK, Copying
  PROVE  /\ CopyOK
         /\ (job.kind = "install" /\ InstallOK) \/ (job.kind = "frozen" /\ FrozenOK)
         /\ Lib \in Libs /\ Ver \in Vers /\ Head(job.todo) = <<Lib, Ver>>
         /\ job.todo[1] = <<Lib, Ver>> /\ 1 \in DOMAIN job.todo
         /\ CopyFields \subseteq DOMAIN job
<1>1. (job.kind = "install" /\ InstallOK) \/ (job.kind = "frozen" /\ FrozenOK)
  BY DEF PkgOK, Copying, Idle
<1>2. CopyOK /\ job.todo \in Seq(Plan) /\ job.todo # <<>>
  BY <1>1 DEF InstallOK, FrozenOK, CopyOK, Copying
<1>3. Head(job.todo) \in Plan /\ 1 \in DOMAIN job.todo /\ Head(job.todo) = job.todo[1]
  BY <1>2, TailFacts
<1>4. /\ Lib \in Libs /\ Ver \in Vers /\ Head(job.todo) = <<Lib, Ver>>
  BY <1>3 DEF Plan, Lib, Ver
<1>5. CopyFields \subseteq DOMAIN job
  BY <1>1 DEF InstallOK, FrozenOK
<1>6. QED BY <1>1, <1>2, <1>3, <1>4, <1>5

LEMMA PicksFinite ==
  ASSUME NEW found, Picks(found)
  PROVE  Cardinality(DOMAIN found) \in Nat
<1>1. DOMAIN found \in SUBSET Libs
  BY DEF Picks
<1>2. IsFiniteSet(DOMAIN found)
  BY <1>1, LibsFinite, FS_Subset
<1>3. QED BY <1>2, FS_CardinalityType

(* What an install or a frozen install is after a step, from its fields.   *)
LEMMA CopyingOK ==
  ASSUME PkgOK, disk' \in [Libs -> Tree], pins' = pins, DOMAIN job' = DOMAIN job,
         job'.kind = job.kind, job'.phase \in {"check", "copy"},
         job'.todo \in Seq(Plan), job'.phase = "copy" => job'.todo # <<>>,
         job'.phase # "copy" => job'.saved = {}, \A l \in Libs : Kept(l)' \in Tree
  PROVE  /\ /\ job.kind = "install" /\ InstallOK /\ job'.found = job.found
            /\ Follows(job'.todo, job.found) /\ Apart(job'.todo)
            /\ Len(job'.todo) <= Cardinality(DOMAIN job.found)
            /\ Len(job'.todo) = Cardinality(DOMAIN job.found)
                 => PlanNames(job'.todo) = DOMAIN job.found
            => PkgOK'
         /\ /\ job.kind = "frozen" /\ FrozenOK /\ job'.force = job.force /\ job'.allow = job.allow
            /\ \A i \in DOMAIN job'.todo : job'.todo[i][2] = pins[job'.todo[i][1]]
            => PkgOK'
<1>1. pins \in [Libs -> {0} \cup Vers]
  BY DEF PkgOK
<1>2. CopyOK'
  BY DEF CopyOK
<1>3. ASSUME job.kind = "install", InstallOK, job'.found = job.found,
             Follows(job'.todo, job.found), Apart(job'.todo),
             Len(job'.todo) <= Cardinality(DOMAIN job.found),
             Len(job'.todo) = Cardinality(DOMAIN job.found)
               => PlanNames(job'.todo) = DOMAIN job.found
      PROVE  PkgOK'
  <2>1. InstallOK'
    BY <1>2, <1>3 DEF InstallOK
  <2>2. QED BY <1>1, <1>3, <2>1 DEF PkgOK
<1>4. ASSUME job.kind = "frozen", FrozenOK, job'.force = job.force, job'.allow = job.allow,
             \A i \in DOMAIN job'.todo : job'.todo[i][2] = pins[job'.todo[i][1]]
      PROVE  PkgOK'
  <2>1. FrozenOK'
    BY <1>2, <1>4 DEF FrozenOK
  <2>2. QED BY <1>1, <1>4, <2>1 DEF PkgOK
<1>5. QED BY <1>3, <1>4

(* The fields of job that a step of the copying leaves alone, and the others *)
LEMMA Advances ==
  ASSUME CopyFields \subseteq DOMAIN job
  PROVE  /\ job' = NextLib =>
              /\ DOMAIN job' = DOMAIN job /\ job'.kind = job.kind
              /\ job'.force = job.force /\ job'.allow = job.allow
              /\ job'.found = job.found /\ job'.go = job.go
              /\ job'.todo = Tail(job.todo) /\ job'.phase = "check" /\ job'.saved = {}
         /\ job' = [job EXCEPT !.phase = "copy", !.saved = Aside] =>
              /\ DOMAIN job' = DOMAIN job /\ job'.kind = job.kind
              /\ job'.force = job.force /\ job'.allow = job.allow
              /\ job'.found = job.found /\ job'.go = job.go
              /\ job'.todo = job.todo /\ job'.phase = "copy" /\ job'.saved = Aside
         /\ job' = [job EXCEPT !.phase = "locked"] =>
              /\ DOMAIN job' = DOMAIN job /\ job'.kind = job.kind
              /\ job'.found = job.found /\ job'.go = job.go
              /\ job'.todo = job.todo /\ job'.phase = "locked" /\ job'.saved = job.saved
<1>1. /\ {"kind", "todo", "phase", "saved", "force", "allow"} \subseteq DOMAIN job
  BY DEF CopyFields
<1>2. ASSUME job' = NextLib
      PROVE  /\ DOMAIN job' = DOMAIN job /\ job'.kind = job.kind
             /\ job'.force = job.force /\ job'.allow = job.allow
             /\ job'.found = job.found /\ job'.go = job.go
             /\ job'.todo = Tail(job.todo) /\ job'.phase = "check" /\ job'.saved = {}
  <2>1. job' = [job EXCEPT !.todo = Tail(@), !.phase = "check", !.saved = {}]
    BY <1>2 DEF NextLib
  <2>2. /\ DOMAIN job' = DOMAIN job /\ job'.kind = job.kind
        /\ job'.force = job.force /\ job'.allow = job.allow
        /\ job'.todo = Tail(job.todo) /\ job'.phase = "check" /\ job'.saved = {}
    BY <1>1, <2>1
  <2>3. job'.found = job.found /\ job'.go = job.go
    BY <2>1
  <2>4. QED BY <2>2, <2>3
<1>3. ASSUME job' = [job EXCEPT !.phase = "copy", !.saved = Aside]
      PROVE  /\ DOMAIN job' = DOMAIN job /\ job'.kind = job.kind
             /\ job'.force = job.force /\ job'.allow = job.allow
             /\ job'.found = job.found /\ job'.go = job.go
             /\ job'.todo = job.todo /\ job'.phase = "copy" /\ job'.saved = Aside
  BY <1>1, <1>3
<1>4. ASSUME job' = [job EXCEPT !.phase = "locked"]
      PROVE  /\ DOMAIN job' = DOMAIN job /\ job'.kind = job.kind
             /\ job'.found = job.found /\ job'.go = job.go
             /\ job'.todo = job.todo /\ job'.phase = "locked" /\ job'.saved = job.saved
  BY <1>1, <1>4
<1>5. QED BY <1>2, <1>3, <1>4

LEMMA AdvancesOK ==
  ASSUME PkgOK, Copying, job' = NextLib, pins' = pins, disk' \in [Libs -> Tree]
  PROVE  PkgOK'
<1>1. /\ (job.kind = "install" /\ InstallOK) \/ (job.kind = "frozen" /\ FrozenOK)
      /\ job.todo \in Seq(Plan) /\ job.todo # <<>>
  BY CopyingJob DEF CopyOK, Copying
<1>2. /\ Tail(job.todo) \in Seq(Plan) /\ Len(Tail(job.todo)) = Len(job.todo) - 1
      /\ Len(job.todo) \in Nat
      /\ \A i \in DOMAIN Tail(job.todo) :
           i + 1 \in DOMAIN job.todo /\ Tail(job.todo)[i] = job.todo[i + 1]
  BY <1>1, TailFacts
<1>3. \A l \in Libs : Kept(l)' \in Tree
  <2>1. job'.saved = {} /\ Copying
    BY CopyingJob, Advances
  <2>2. \A l \in Libs : Kept(l)' = disk'[l]
    BY <2>1 DEF Kept
  <2>3. QED BY <2>2
<1>4. /\ DOMAIN job' = DOMAIN job /\ job'.kind = job.kind
      /\ job'.force = job.force /\ job'.allow = job.allow
      /\ job'.todo = Tail(job.todo) /\ job'.phase = "check" /\ job'.saved = {}
  BY CopyingJob, Advances
<1>5. CASE job.kind = "install" /\ InstallOK
  <2>1. /\ Picks(job.found) /\ Follows(Tail(job.todo), job.found) /\ Apart(Tail(job.todo))
        /\ Len(job.todo) <= Cardinality(DOMAIN job.found)
    BY <1>1, <1>5, TailFacts, FollowsFacts DEF InstallOK
  <2>2. /\ Len(Tail(job.todo)) <= Cardinality(DOMAIN job.found)
        /\ Len(Tail(job.todo)) # Cardinality(DOMAIN job.found)
    <3>1. Cardinality(DOMAIN job.found) \in Nat
      BY <1>5, PicksFinite DEF InstallOK
    <3>2. QED BY <1>2, <2>1, <3>1
  <2>3. job'.found = job.found
    BY CopyingJob, Advances
  <2>4. QED BY <1>2, <1>3, <1>4, <1>5, <2>1, <2>2, <2>3, CopyingOK
<1>6. CASE job.kind = "frozen" /\ FrozenOK
  <2>1. \A i \in DOMAIN Tail(job.todo) : Tail(job.todo)[i][2] = pins[Tail(job.todo)[i][1]]
    BY <1>2, <1>6 DEF FrozenOK
  <2>2. QED BY <1>2, <1>3, <1>4, <1>6, <2>1, CopyingOK
<1>7. QED BY <1>1, <1>5, <1>6

LEMMA RemoveOK ==
  ASSUME PkgOK, RemoveTree
  PROVE  /\ PkgOK' /\ Copying /\ job.phase = "check" /\ pins' = pins
         /\ job'.kind = job.kind /\ job'.saved = Aside /\ job'.phase = "copy"
         /\ job'.todo = job.todo /\ job'.found = job.found /\ job'.go = job.go
<1>1. /\ job' = [job EXCEPT !.phase = "copy", !.saved = Aside]
      /\ disk' = [l \in Libs |-> IF l \in {Lib} \cup Inside[Lib] THEN NoTree ELSE disk[l]]
      /\ pins' = pins /\ Copying /\ job.todo # <<>> /\ job.phase = "check"
  BY DEF RemoveTree, Replaces, Copying
<1>2. /\ CopyOK /\ Lib \in Libs /\ disk \in [Libs -> Tree]
      /\ (job.kind = "install" /\ InstallOK) \/ (job.kind = "frozen" /\ FrozenOK)
  BY <1>1, CopyingJob DEF PkgOK
<1>4. /\ DOMAIN job' = DOMAIN job /\ job'.kind = job.kind
      /\ job'.force = job.force /\ job'.allow = job.allow
      /\ job'.found = job.found /\ job'.go = job.go
      /\ job'.todo = job.todo /\ job'.phase = "copy" /\ job'.saved = Aside
  BY <1>1, CopyingJob, Advances
<1>5. disk' \in [Libs -> Tree]
  BY <1>1, <1>2, TreeFacts
<1>6. \A l \in Libs : Kept(l)' \in Tree
  <2> SUFFICES ASSUME NEW l \in Libs PROVE Kept(l)' \in Tree
    OBVIOUS
  <2>1. Kept(l)' = IF l \in Nested(Lib) THEN disk[l]
                   ELSE IF l \in {Lib} \cup Inside[Lib] THEN NoTree ELSE disk[l]
    BY <1>1, <1>4, RemoveKept
  <2>2. QED BY <2>1, <1>2, TreeFacts
<1>7. job.todo \in Seq(Plan) /\ PkgOK
  BY <1>2 DEF CopyOK
<1>8. CASE job.kind = "install" /\ InstallOK
  <2>1. /\ Follows(job.todo, job.found) /\ Apart(job.todo)
        /\ Len(job.todo) <= Cardinality(DOMAIN job.found)
        /\ Len(job.todo) = Cardinality(DOMAIN job.found) => PlanNames(job.todo) = DOMAIN job.found
    BY <1>8 DEF InstallOK
  <2>2. PkgOK'
    BY <1>1, <1>4, <1>5, <1>6, <1>7, <1>8, <2>1, CopyingOK
  <2>3. QED BY <1>1, <1>4, <2>2
<1>9. CASE job.kind = "frozen" /\ FrozenOK
  <2>1. \A i \in DOMAIN job.todo : job.todo[i][2] = pins[job.todo[i][1]]
    BY <1>9 DEF FrozenOK
  <2>2. PkgOK'
    BY <1>1, <1>4, <1>5, <1>6, <1>7, <1>9, <2>1, CopyingOK
  <2>3. QED BY <1>1, <1>4, <2>2
<1>10. QED BY <1>2, <1>8, <1>9

LEMMA CopyStepOK ==
  ASSUME PkgOK, CopyTree
  PROVE  /\ PkgOK'
         /\ Copying /\ job' = NextLib /\ pins' = pins
         /\ \A l \in Libs : /\ disk'[l] = IF l = Lib THEN Whole(Ver) ELSE Kept(l)
                            /\ Kept(l)' = disk'[l]
<1>1. Copying /\ job' = NextLib /\ pins' = pins
  BY DEF CopyTree
<1>2. /\ CopyOK /\ Lib \in Libs /\ Ver \in Vers
  BY <1>1, CopyingJob
<1>3. job'.saved = {}
  BY <1>1, CopyingJob, Advances
<1>4. Ver # 0
  BY <1>2, VersFacts
<1>5. \A l \in Libs : /\ disk'[l] = IF l = Lib THEN Whole(Ver) ELSE Kept(l)
                      /\ Kept(l)' = disk'[l]
  BY <1>3, <1>4, CopyKept DEF Whole
<1>6. disk' \in [Libs -> Tree]
  <2>1. disk' = [l \in Libs |-> disk'[l]]
    BY DEF CopyTree
  <2>2. \A l \in Libs : disk'[l] \in Tree
    BY <1>2, <1>5, TreeFacts DEF CopyOK
  <2>3. QED BY <2>1, <2>2
<1>7. QED BY <1>1, <1>5, <1>6, AdvancesOK

(* ----------------------- the steps keep the invariant --------------------- *)

LEMMA StandingGoKnown ==
  ASSUME PkgOK, NEW l
  PROVE  StandingGo(l) \subseteq DOMAIN GoMajor
<1>1. ASSUME NEW k \in Libs, Installed(k)
      PROVE  GoNeeds[k][disk[k].ver] \in {0} \cup DOMAIN GoMajor
  <2>1. disk[k].ver \in Vers
    BY <1>1, TreeFacts DEF PkgOK, Installed
  <2>2. QED BY <2>1, VersionsAssumption
<1>2. QED BY <1>1 DEF StandingGo, Standing

LEMMA WalkBegins ==
  ASSUME PkgOK, NEW l \in Libs, NEW range, NEW write, NEW force, NEW allow,
         Install(l, range, write, force, allow)
  PROVE  PkgOK' /\ job'.kind = "walk" /\ UNCHANGED <<disk, pins, goPins, unsettled>> /\ job = Idle
<1> DEFINE v == Highest(Offered[l] \cap range)
           pick == <<l, v>>
           queue == <<pick>>
           found == [k \in {l} |-> v]
           S == StandingDemands(l)
           G == StandingGo(l)
<1>1. v \in Vers
  <2>1. Offered[l] \cap range \in SUBSET (1..Len(Major)) /\ Len(Major) \in Nat
    BY VersFacts, VersionsAssumption
  <2>2. Offered[l] \cap range # {}
    BY DEF Install
  <2>3. QED BY <2>1, <2>2, HighestExists, VersFacts
<1>2. job' = [kind |-> "walk", root |-> pick, write |-> write, force |-> force,
              allow |-> allow, queue |-> queue, found |-> found,
              order |-> <<>>, demands |-> S, go |-> G]
  BY DEF Install, PlanOf
<1>3. UNCHANGED <<disk, pins, goPins, unsettled, manifest>> /\ job = Idle
  BY DEF Install, Begin
<1> HIDE DEF v
<1>4. /\ pick \in Plan /\ pick[1] = l /\ pick[2] = v
      /\ DOMAIN found = {l} /\ found[l] = v
      /\ queue \in Seq(Plan) /\ DOMAIN queue = {1} /\ queue[1] = pick
  BY <1>1 DEF Plan
<1>5. found = [k \in DOMAIN found |-> found[k]]
  OBVIOUS
<1>6. /\ Picks(found) /\ Follows(queue, found) /\ l \in PlanNames(queue)
  BY <1>1, <1>4, <1>5 DEF Picks, Follows, PlanNames
<1>7. Follows(<<>>, found) /\ Apart(<<>>) /\ PlanNames(<<>>) = {}
  BY DEF Follows, Apart, PlanNames
<1>8. G \subseteq DOMAIN GoMajor
  BY StandingGoKnown
<1> HIDE DEF pick, queue, found, S, G
<1>9. Walked(pick, queue, found, <<>>, S, G)
  BY <1>4, <1>6, <1>7, <1>8 DEF Walked
<1>10. /\ job'.kind = "walk" /\ job'.root = pick /\ job'.queue = queue /\ job'.found = found
       /\ job'.order = <<>> /\ job'.demands = S /\ job'.go = G
       /\ {"kind", "root", "write", "force", "allow", "queue", "found", "order", "demands", "go"}
            \subseteq DOMAIN job'
  BY <1>2
<1>11. StandingDemands(l)' = S /\ StandingGo(l)' = G
  BY <1>3 DEF S, G, StandingDemands, StandingGo, Standing, Installed
<1>12. WalkOK'
  BY <1>4, <1>9, <1>10, <1>11 DEF WalkOK
<1>13. QED BY <1>3, <1>10, <1>12 DEF PkgOK

LEMMA DescendOK ==
  ASSUME PkgOK, Descend
  PROVE  /\ PkgOK' /\ (job' = Idle \/ job'.kind = "walk")
         /\ UNCHANGED <<disk, pins, goPins, unsettled>> /\ job.kind = "walk"
<1>1. /\ job.kind = "walk" /\ job.queue # <<>>
      /\ UNCHANGED <<disk, pins, goPins, manifest, unsettled>>
  BY DEF Descend
<1>2. WalkOK /\ disk \in [Libs -> Tree] /\ pins \in [Libs -> {0} \cup Vers]
  BY <1>1 DEF PkgOK, Idle
<1>3. CASE job' = Idle
  BY <1>1, <1>2, <1>3 DEF PkgOK
<1>4. CASE job' # Idle
  <2> DEFINE l == Head(job.queue)[1]
             v == Head(job.queue)[2]
             Ds == job.demands \cup DepsOf(l, v)
             fresh == Fresh(Needs[l][v], job.found)
             picks == PicksFor(fresh, Ds)
             go == job.go \cup ({GoNeeds[l][v]} \ {0})
  <2>1. /\ \A i \in DOMAIN fresh : Pickable(fresh[i][1], Ds) # {}
        /\ job' = [job EXCEPT !.queue = Tail(@) \o picks, !.order = @ \o picks,
                              !.found = WithPicks(@, picks), !.demands = Ds,
                              !.go = go]
    BY <1>4 DEF Descend
  <2>2. Walked(job.root, job.queue, job.found, job.order, job.demands, job.go)
    BY <1>2 DEF WalkOK
  <2>3. Head(job.queue) = <<l, v>>
    <3>1. job.queue \in Seq(Plan)
      BY <2>2 DEF Walked, Follows
    <3>2. Head(job.queue) \in Plan
      BY <1>1, <3>1, TailFacts
    <3>3. QED BY <3>2 DEF Plan
  <2> HIDE DEF l, v
  <2>4. Walked(job.root, Tail(job.queue) \o picks, WithPicks(job.found, picks), job.order \o picks,
               Ds, go)
    BY <1>1, <2>1, <2>2, <2>3, Descends
  <2> HIDE DEF picks, fresh, Ds, go
  <2>5. {"kind", "root", "write", "force", "allow", "queue", "found", "order", "demands", "go"}
          \subseteq DOMAIN job
    BY <1>2 DEF WalkOK
  <2>6. /\ DOMAIN job' = DOMAIN job /\ job'.kind = job.kind /\ job'.root = job.root
        /\ job'.queue = Tail(job.queue) \o picks /\ job'.order = job.order \o picks
        /\ job'.found = WithPicks(job.found, picks) /\ job'.demands = Ds /\ job'.go = go
    BY <2>1, <2>5
  <2>7. Walked(job.root, job.queue, job.found, job.order, job.demands, job.go)'
    BY <2>4, <2>6
  <2>8. /\ StandingDemands(job.root[1])' = StandingDemands(job.root[1])
        /\ StandingGo(job.root[1])' = StandingGo(job.root[1])
    BY <1>1, <2>6 DEF StandingDemands, StandingGo, Standing, Installed
  <2>9. StandingDemands(job.root[1]) \subseteq Ds /\ StandingGo(job.root[1]) \subseteq go
    BY <1>2 DEF WalkOK, Ds, go
  <2>10. WalkOK'
    BY <2>5, <2>6, <2>7, <2>8, <2>9 DEF WalkOK
  <2>11. QED BY <1>1, <1>2, <2>6, <2>10 DEF PkgOK
<1>5. QED BY <1>1, <1>3, <1>4

(* The walk is over and nothing clashes: the plan is what was found.       *)
LEMMA SweepOK ==
  ASSUME PkgOK, Sweep
  PROVE  /\ PkgOK' /\ UNCHANGED <<disk, pins, goPins, unsettled>> /\ job.kind = "walk"
         /\ \/ job' = Idle
            \/ /\ job'.kind = "install" /\ job'.phase = "check" /\ job'.saved = {}
               /\ job'.found = job.found /\ job'.root = job.root
               /\ PlanNames(job'.todo) = DOMAIN job.found
               /\ Picks(job.found) /\ WalkOK /\ DemandsAgree
               /\ \A l \in DOMAIN job.found : Seen(l, job.found[l], job.found, job.demands, job.go)
               /\ \A g \in {0} \cup job.go : Suits(job'.go, g)
<1>1. /\ job.kind = "walk" /\ job.queue = <<>>
      /\ UNCHANGED <<disk, pins, goPins, unsettled>>
  BY DEF Sweep
<1>2. WalkOK /\ disk \in [Libs -> Tree] /\ pins \in [Libs -> {0} \cup Vers]
  BY <1>1 DEF PkgOK, Idle
<1>3. CASE job' = Idle
  BY <1>1, <1>2, <1>3 DEF PkgOK
<1>4. CASE job' # Idle
  <2> DEFINE todo == Append(job.order, job.root)
             go == IF job.go = {} THEN 0 ELSE Highest(job.go)
  <2>1. /\ DemandsAgree /\ OneGoMajor
        /\ job' = [kind |-> "install", todo |-> todo, phase |-> "check",
                   saved |-> {}, force |-> job.force, allow |-> job.allow, write |-> job.write,
                   root |-> job.root, found |-> job.found, go |-> go]
    BY <1>4 DEF Sweep
  <2>2. Walked(job.root, <<>>, job.found, job.order, job.demands, job.go)
    BY <1>1, <1>2 DEF WalkOK
  <2>3. /\ todo \in Seq(Plan) /\ Follows(todo, job.found) /\ Apart(todo)
        /\ PlanNames(todo) = DOMAIN job.found
        /\ Len(todo) \in Nat /\ Len(todo) = Cardinality(DOMAIN job.found)
        /\ \A l \in DOMAIN job.found : Seen(l, job.found[l], job.found, job.demands, job.go)
    BY <2>2, AllFound
  <2>4. \A g \in {0} \cup job.go : Suits(go, g)
    <3>1. job.go \in SUBSET DOMAIN GoMajor
      BY <2>2 DEF Walked
    <3>2. \A g, h \in job.go : GoMajor[g] = GoMajor[h]
      BY <2>1 DEF OneGoMajor
    <3>3. QED BY <3>1, <3>2, GoChoice
  <2>5. Picks(job.found)
    BY <2>2 DEF Walked
  <2> HIDE DEF todo, go
  <2>6. /\ job'.kind = "install" /\ job'.todo = todo /\ job'.phase = "check" /\ job'.saved = {}
        /\ job'.root = job.root /\ job'.found = job.found /\ job'.go = go
        /\ CopyFields \cup {"write", "root", "found", "go"} \subseteq DOMAIN job'
    BY <2>1 DEF CopyFields
  <2>7. CopyOK'
    <3>1. \A l \in Libs : Kept(l)' = disk[l]
      BY <1>1, <2>6 DEF Kept
    <3>2. QED BY <1>2, <2>3, <2>6, <3>1 DEF CopyOK
  <2>8. InstallOK'
    BY <2>3, <2>5, <2>6, <2>7 DEF InstallOK
  <2>9. PkgOK'
    BY <1>1, <1>2, <2>6, <2>8 DEF PkgOK
  <2>10. QED BY <1>1, <1>2, <2>1, <2>3, <2>4, <2>5, <2>6, <2>9
<1>5. QED BY <1>1, <1>3, <1>4

LEMMA SortedIs ==
  ASSUME NEW S \in SUBSET Libs
  PROVE  /\ Sorted(S) \in Seq(Libs)
         /\ \A i \in DOMAIN Sorted(S) : Sorted(S)[i] \in S
         /\ \A l \in S : \E i \in DOMAIN Sorted(S) : Sorted(S)[i] = l
<1> DEFINE P == {i \in DOMAIN Order : Order[i] \in S}
<1>1. Order \in Seq(Libs) /\ P \in SUBSET DOMAIN Order
  BY OrderAssumption
<1>2. Sorted(S) = Subsequence(Order, P)
  BY DEF Sorted
<1>3. /\ \A i \in P : Order[i] \in S
      /\ \A l \in S : \E i \in P : Order[i] = l
  BY DEF Libs
<1> HIDE DEF P
<1>4. /\ Subsequence(Order, P) \in Seq(Libs)
      /\ \A k \in DOMAIN Subsequence(Order, P) : \E i \in P : Subsequence(Order, P)[k] = Order[i]
      /\ \A i \in P : \E k \in DOMAIN Subsequence(Order, P) : Subsequence(Order, P)[k] = Order[i]
  BY <1>1, SubsequenceFacts
<1>5. QED BY <1>2, <1>3, <1>4

LEMMA FrozenStarts ==
  ASSUME PkgOK, Frozen
  PROVE  /\ PkgOK' /\ UNCHANGED <<disk, pins, goPins, unsettled>> /\ job = Idle
         /\ job'.kind = "frozen" /\ job'.phase = "check" /\ job'.saved = {}
<1> DEFINE P == {l \in Libs : pins[l] # 0}
           T == [i \in DOMAIN Sorted(P) |-> PlanFromPin(Sorted(P)[i])]
<1>1. /\ job' = [kind |-> "frozen", phase |-> "check", saved |-> {}, force |-> TRUE,
                 allow |-> TRUE, todo |-> T]
      /\ UNCHANGED <<disk, pins, goPins, unsettled>> /\ job = Idle
  BY DEF Frozen, Begin
<1>2. disk \in [Libs -> Tree] /\ pins \in [Libs -> {0} \cup Vers]
  BY DEF PkgOK
<1>3. Sorted(P) \in Seq(Libs) /\ \A i \in DOMAIN Sorted(P) : Sorted(P)[i] \in P
  BY SortedIs
<1>4. \A i \in DOMAIN T : T[i] \in Plan /\ T[i][2] = pins[T[i][1]]
  BY <1>2, <1>3 DEF PlanFromPin, Plan
<1>5. T \in Seq(Plan)
  <2>1. Len(Sorted(P)) \in Nat /\ DOMAIN Sorted(P) = 1..Len(Sorted(P))
    BY <1>3
  <2>2. T \in [1..Len(Sorted(P)) -> Plan]
    BY <1>4, <2>1
  <2>3. \A n \in Nat : \A f \in [1..n -> Plan] : f \in Seq(Plan)
    OBVIOUS
  <2> HIDE DEF T, P
  <2>4. QED BY <2>1, <2>2, <2>3
<1> HIDE DEF T
<1>6. /\ job'.kind = "frozen" /\ job'.phase = "check" /\ job'.saved = {} /\ job'.todo = T
      /\ job'.force /\ job'.allow /\ CopyFields \subseteq DOMAIN job'
  BY <1>1 DEF CopyFields
<1>7. \A l \in Libs : Kept(l)' = disk[l]
  BY <1>1, <1>6 DEF Kept
<1>8. CopyOK'
  BY <1>2, <1>5, <1>6, <1>7 DEF CopyOK
<1>9. FrozenOK'
  BY <1>1, <1>4, <1>6, <1>8 DEF FrozenOK
<1>10. QED BY <1>1, <1>2, <1>6, <1>9 DEF PkgOK

LEMMA LockOK ==
  ASSUME PkgOK, WriteLock
  PROVE  /\ PkgOK' /\ job.kind = "install" /\ InstallOK /\ job.todo = <<>> /\ job.saved = {}
         /\ pins' = NewPins /\ goPins' = job.go /\ UNCHANGED <<disk, unsettled>>
         /\ job'.kind = "install" /\ job'.phase = "locked" /\ job'.todo = <<>> /\ job'.saved = {}
         /\ job'.found = job.found /\ job'.go = job.go
<1>1. /\ job.kind = "install" /\ job.todo = <<>> /\ job.phase = "check"
      /\ job' = [job EXCEPT !.phase = "locked"]
      /\ pins' = NewPins /\ goPins' = job.go /\ UNCHANGED <<disk, unsettled>>
  BY DEF WriteLock, NewPins
<1>2. /\ InstallOK /\ disk \in [Libs -> Tree] /\ pins \in [Libs -> {0} \cup Vers]
  BY <1>1 DEF PkgOK, Idle
<1>3. /\ DOMAIN job' = DOMAIN job /\ job'.kind = job.kind
      /\ job'.found = job.found /\ job'.go = job.go
      /\ job'.todo = job.todo /\ job'.phase = "locked" /\ job'.saved = job.saved
  BY <1>1, <1>2, Advances DEF InstallOK
<1>4. job.saved = {}
  BY <1>1, <1>2 DEF InstallOK, CopyOK
<1>5. CopyOK'
  <2>1. \A l \in Libs : Kept(l)' = disk[l]
    BY <1>1, <1>3, <1>4 DEF Kept
  <2>2. \A l \in Libs : Kept(l)' \in Tree
    BY <1>2, <2>1
  <2>3. job.todo \in Seq(Plan)
    BY <1>2 DEF InstallOK, CopyOK
  <2>4. QED BY <1>1, <1>3, <1>4, <2>2, <2>3 DEF CopyOK
<1>6. InstallOK'
  BY <1>1, <1>2, <1>3, <1>5 DEF InstallOK
<1>7. pins' \in [Libs -> {0} \cup Vers]
  BY <1>1, <1>2 DEF NewPins, InstallOK, Picks
<1>8. QED BY <1>1, <1>2, <1>3, <1>4, <1>6, <1>7 DEF PkgOK

LEMMA EmptyingOK ==
  ASSUME PkgOK, NEW l \in Libs, NEW v \in {0} \cup Vers, Emptying(l, v)
  PROVE  disk' \in [Libs -> Tree]
<1>1. disk \in [Libs -> Tree]
  BY DEF PkgOK
<1>2. Torn(l, v) \subseteq Tree
  BY <1>1, TreeFacts DEF Torn, Tree
<1>3. QED BY <1>1, <1>2, TreeFacts DEF Emptying

LEMMA DieOK == ASSUME PkgOK, Die PROVE PkgOK'
<1>1. /\ job' = Idle /\ disk \in [Libs -> Tree] /\ pins \in [Libs -> {0} \cup Vers]
  BY DEF Die, PkgOK
<1>2. disk' \in [Libs -> Tree]
  <2>1. CASE disk' = disk
    BY <1>1, <2>1
  <2>2. CASE Copying /\ (Emptying(Lib, disk[Lib].ver) \/ Emptying(Lib, Ver))
    <3>1. Lib \in Libs /\ Ver \in Vers
      BY <2>2, CopyingJob
    <3>2. disk[Lib].ver \in {0} \cup Vers
      BY <1>1, <3>1, TreeFacts
    <3>3. QED BY <2>2, <3>1, <3>2, EmptyingOK
  <2>3. CASE job.kind = "uninstall" /\ Emptying(job.lib, 0)
    <3>1. job.lib \in Libs
      BY <2>3 DEF PkgOK, UninstallOK, Idle
    <3>2. QED BY <2>3, <3>1, EmptyingOK
  <2>4. QED BY <2>1, <2>2, <2>3 DEF Die
<1>3. pins' \in [Libs -> {0} \cup Vers]
  BY <1>1 DEF Die
<1>4. QED BY <1>1, <1>2, <1>3 DEF PkgOK

LEMMA KeepOK ==
  ASSUME PkgOK, Keep
  PROVE  /\ PkgOK' /\ Copying /\ job.kind = "install" /\ job.phase = "check"
         /\ job' = NextLib /\ UNCHANGED <<disk, pins, goPins, unsettled>>
         /\ disk[Lib].ver = Ver
<1>1. /\ Copying /\ job.phase = "check" /\ ~job.force /\ disk[Lib].ver = Ver
      /\ job' = NextLib /\ UNCHANGED <<disk, pins, goPins, unsettled>>
  BY DEF Keep
<1>2. job.kind = "install"
  BY <1>1, CopyingJob DEF FrozenOK
<1>3. PkgOK'
  BY <1>1, AdvancesOK DEF PkgOK
<1>4. QED BY <1>1, <1>2, <1>3

(* The other steps leave no command behind, or none that copies.           *)
LEMMA PlainStepOK ==
  ASSUME PkgOK,
         \/ Refuse \/ WriteManifest \/ FrozenDone \/ Unpin
         \/ \E l \in Libs : Uninstall(l)
         \/ \E used \in SUBSET Libs : Tidy(used)
  PROVE  PkgOK'
<1>1. disk \in [Libs -> Tree] /\ pins \in [Libs -> {0} \cup Vers]
  BY DEF PkgOK
<1>2. ASSUME Refuse \/ WriteManifest \/ FrozenDone \/ \E used \in SUBSET Libs : Tidy(used)
      PROVE  job' = Idle /\ UNCHANGED <<disk, pins>>
  BY <1>2 DEF Refuse, WriteManifest, FrozenDone, Tidy, Begin
<1>3. ASSUME Unpin PROVE job' = Idle /\ disk' = disk /\ pins' \in [Libs -> {0} \cup Vers]
  BY <1>1, <1>3 DEF Unpin
<1>4. ASSUME NEW l \in Libs, Uninstall(l) PROVE PkgOK'
  <2>1. /\ job' = [kind |-> "uninstall", lib |-> l] /\ pins' = pins
        /\ disk' = [k \in Libs |-> IF k \in {l} \cup Inside[l] THEN NoTree ELSE disk[k]]
    BY <1>4 DEF Uninstall
  <2>2. disk' \in [Libs -> Tree]
    BY <1>1, <2>1, TreeFacts
  <2>3. QED BY <1>1, <2>1, <2>2 DEF PkgOK, UninstallOK
<1>5. QED BY <1>1, <1>2, <1>3, <1>4 DEF PkgOK

LEMMA PkgNextOK == PkgOK /\ [PkgNext]_pkgVars => PkgOK'
<1> SUFFICES ASSUME PkgOK, [PkgNext]_pkgVars PROVE PkgOK'
  OBVIOUS
<1>1. CASE UNCHANGED pkgVars
  BY <1>1 DEF pkgVars, PkgOK, UninstallOK, WalkOK, InstallOK, FrozenOK, CopyOK, Kept,
              StandingDemands, StandingGo, Standing, Installed
<1>2. ASSUME NEW l \in Libs, NEW range, NEW write, NEW force, NEW allow,
             Install(l, range, write, force, allow)
      PROVE  PkgOK'
  BY <1>2, WalkBegins
<1>3. CASE Descend \/ Sweep \/ Keep
  BY <1>3, DescendOK, SweepOK, KeepOK
<1>4. CASE RemoveTree \/ CopyTree \/ WriteLock \/ Frozen \/ Die
  BY <1>4, RemoveOK, CopyStepOK, LockOK, FrozenStarts, DieOK
<1>5. CASE \/ Refuse \/ WriteManifest \/ FrozenDone \/ Unpin
           \/ \E l \in Libs : Uninstall(l)
           \/ \E used \in SUBSET Libs : Tidy(used)
  BY <1>5, PlainStepOK
<1>6. QED BY <1>1, <1>2, <1>3, <1>4, <1>5 DEF PkgNext, InstallDeclared

(* --------------------------- the locked Go version ------------------------ *)

LEMMA NamesOfRest ==
  ASSUME PkgOK, Copying
  PROVE  /\ PlanNames(job.todo) = {Lib} \cup PlanNames(Tail(job.todo))
         /\ job.kind = "install" => /\ Lib \in DOMAIN job.found /\ Ver = job.found[Lib]
                                    /\ Lib \notin PlanNames(Tail(job.todo))
<1>1. job.todo \in Seq(Plan) /\ job.todo # <<>>
  BY CopyingJob DEF CopyOK, Copying
<1>2. PlanNames(job.todo) = {Lib} \cup PlanNames(Tail(job.todo))
  BY <1>1, TailFacts DEF Lib
<1>3. ASSUME job.kind = "install"
      PROVE  /\ Lib \in DOMAIN job.found /\ Ver = job.found[Lib]
             /\ Lib \notin PlanNames(Tail(job.todo))
  <2>1. /\ Follows(job.todo, job.found) /\ Apart(job.todo)
        /\ job.todo[1] = <<Lib, Ver>> /\ 1 \in DOMAIN job.todo
    BY <1>3, CopyingJob DEF InstallOK
  <2>2. Lib \in DOMAIN job.found /\ Ver = job.found[Lib]
    BY <2>1 DEF Follows
  <2>3. Lib \notin PlanNames(Tail(job.todo))
    BY <1>1, <2>1, TailFacts DEF Lib
  <2>4. QED BY <2>2, <2>3
<1>4. QED BY <1>2, <1>3

LEMMA NothingAside ==
  ASSUME PkgOK, job.kind \in {"install", "frozen"}, job.phase # "copy"
  PROVE  job.saved = {} /\ \A l : Kept(l) = disk[l]
<1>1. job.saved = {}
  BY DEF PkgOK, InstallOK, FrozenOK, CopyOK, Idle
<1>2. QED BY <1>1, KeptHere

(* Each tree is removed or kept until the copy: what is put aside counts.  *)
LEMMA RemoveLoses ==
  ASSUME PkgOK, RemoveTree, NEW l \in Libs
  PROVE  Kept(l)' = NoTree \/ Kept(l)' = Kept(l)
<1>1. job'.saved = Aside /\ job.phase = "check" /\ Copying
  BY RemoveOK
<1>2. Kept(l)' = IF l \in Nested(Lib) THEN disk[l]
                 ELSE IF l \in {Lib} \cup Inside[Lib] THEN NoTree ELSE disk[l]
  BY <1>1, RemoveKept DEF RemoveTree
<1>3. Kept(l) = disk[l]
  BY <1>1, NothingAside DEF Copying
<1>4. QED BY <1>2, <1>3

(* Which steps leave an install, and which come to one                     *)
LEMMA InstallSteps ==
  ASSUME PkgOK, [PkgNext]_pkgVars, job'.kind = "install"
  PROVE  \/ UNCHANGED pkgVars
         \/ Sweep
         \/ (Keep \/ RemoveTree \/ CopyTree \/ WriteLock) /\ job.kind = "install"
<1>1. ASSUME NEW l \in Libs, NEW range, NEW write, NEW force, NEW allow,
             Install(l, range, write, force, allow)
      PROVE  FALSE
  BY <1>1, WalkBegins
<1>2. ASSUME Descend \/ Frozen PROVE FALSE
  BY <1>2, DescendOK, FrozenStarts DEF Idle
<1>3. ASSUME \/ Refuse \/ WriteManifest \/ FrozenDone \/ Unpin \/ Die
             \/ \E l \in Libs : Uninstall(l)
             \/ \E used \in SUBSET Libs : Tidy(used)
      PROVE  FALSE
  BY <1>3 DEF Refuse, WriteManifest, FrozenDone, Unpin, Die, Uninstall, Tidy, Begin, Idle
<1>4. ASSUME RemoveTree \/ Keep \/ CopyTree \/ WriteLock PROVE job.kind = "install"
  <2>1. ASSUME CopyTree PROVE job'.kind = job.kind
    BY <2>1, CopyStepOK, CopyingJob, Advances
  <2>2. QED BY <1>4, <2>1, RemoveOK, KeepOK, LockOK
<1>5. QED BY <1>1, <1>2, <1>3, <1>4 DEF PkgNext, InstallDeclared

LEMMA GoSweep ==
  ASSUME PkgOK, Sweep
  PROVE  GoInv'
<1> SUFFICES ASSUME job'.kind = "install" PROVE GoInv'
  BY DEF GoInv
<1>1. /\ job'.phase = "check" /\ job'.saved = {} /\ job'.found = job.found /\ disk' = disk
      /\ PlanNames(job'.todo) = DOMAIN job.found /\ WalkOK
      /\ \A l \in DOMAIN job.found : Seen(l, job.found[l], job.found, job.demands, job.go)
      /\ \A g \in {0} \cup job.go : Suits(job'.go, g)
  BY SweepOK DEF Idle
<1>2. \A l \in Libs : Kept(l)' = disk[l]
  BY <1>1 DEF Kept
<1>3. \A l \in DOMAIN job.found : Suits(job'.go, GoNeeds[l][job.found[l]])
  BY <1>1 DEF Seen
<1>4. ASSUME NEW l \in Libs, disk[l].ver # 0, l \notin DOMAIN job.found
      PROVE  Suits(job'.go, GoNeeds[l][disk[l].ver])
  <2>1. l # job.root[1]
    BY <1>1, <1>4 DEF WalkOK, Walked
  <2>2. GoNeeds[l][disk[l].ver] \in {0} \cup StandingGo(job.root[1])
    BY <1>4, <2>1 DEF StandingGo, Standing, Installed
  <2>3. StandingGo(job.root[1]) \subseteq job.go
    BY <1>1 DEF WalkOK
  <2>4. QED BY <1>1, <2>2, <2>3
<1>5. QED BY <1>1, <1>2, <1>3, <1>4 DEF GoInv

LEMMA GoNext == PkgOK /\ GoInv /\ [PkgNext]_pkgVars => GoInv'
<1> SUFFICES ASSUME PkgOK, GoInv, [PkgNext]_pkgVars, job'.kind = "install" PROVE GoInv'
  BY DEF GoInv
<1>1. CASE UNCHANGED pkgVars
  BY <1>1 DEF pkgVars, GoInv, Kept
<1>2. CASE Sweep
  BY <1>2, GoSweep
<1>3. ASSUME job.kind = "install"
      PROVE  /\ \A l \in DOMAIN job.found : Suits(job.go, GoNeeds[l][job.found[l]])
             /\ \A l \in Libs : Kept(l).ver # 0 =>
                  IF l \in DOMAIN job.found
                  THEN l \notin PlanNames(job.todo) => Kept(l).ver = job.found[l]
                  ELSE Suits(job.go, GoNeeds[l][Kept(l).ver])
  BY <1>3 DEF GoInv
<1>4. CASE Keep /\ job.kind = "install"
  <2>1. /\ Copying /\ disk' = disk /\ job' = NextLib /\ disk[Lib].ver = Ver /\ job.phase = "check"
    BY <1>4, KeepOK
  <2>2. /\ job'.found = job.found /\ job'.go = job.go /\ job'.todo = Tail(job.todo)
        /\ job'.phase = "check" /\ job'.saved = {}
    BY <2>1, CopyingJob, Advances
  <2>3. \A l \in Libs : Kept(l)' = disk[l] /\ Kept(l) = disk[l]
    BY <1>4, <2>1, <2>2, NothingAside DEF Kept
  <2>4. \A l \in Libs : disk[l].ver # 0 =>
          IF l \in DOMAIN job.found
          THEN l \notin PlanNames(Tail(job.todo)) => disk[l].ver = job.found[l]
          ELSE Suits(job.go, GoNeeds[l][disk[l].ver])
    BY <1>3, <1>4, <2>1, <2>3, NamesOfRest
  <2>5. QED BY <1>3, <1>4, <2>2, <2>3, <2>4 DEF GoInv
<1>5. CASE RemoveTree /\ job.kind = "install"
  <2>1. /\ job'.found = job.found /\ job'.go = job.go /\ job'.todo = job.todo /\ job'.phase = "copy"
    BY <1>5, RemoveOK
  <2>2. \A l \in Libs : Kept(l)'.ver # 0 => Kept(l)' = Kept(l)
    BY <1>5, RemoveLoses DEF NoTree
  <2>3. QED BY <1>3, <1>5, <2>1, <2>2 DEF GoInv
<1>6. CASE CopyTree /\ job.kind = "install"
  <2>1. /\ Copying /\ job' = NextLib
        /\ \A l \in Libs : Kept(l)' = IF l = Lib THEN Whole(Ver) ELSE Kept(l)
    BY <1>6, CopyStepOK
  <2>2. /\ job'.found = job.found /\ job'.go = job.go /\ job'.todo = Tail(job.todo)
        /\ job'.phase = "check"
    BY <2>1, CopyingJob, Advances
  <2>3. Whole(Ver).ver = Ver
    BY <2>1, CopyingJob, TreeFacts
  <2>4. \A l \in Libs : Kept(l)'.ver # 0 =>
          IF l \in DOMAIN job.found
          THEN l \notin PlanNames(Tail(job.todo)) => Kept(l)'.ver = job.found[l]
          ELSE Suits(job.go, GoNeeds[l][Kept(l)'.ver])
    BY <1>3, <1>6, <2>1, <2>3, NamesOfRest
  <2>5. QED BY <1>3, <1>6, <2>2, <2>4 DEF GoInv
<1>7. CASE WriteLock /\ job.kind = "install"
  <2>1. /\ job'.found = job.found /\ job'.go = job.go /\ job'.todo = <<>> /\ job.todo = <<>>
        /\ job.saved = {} /\ job'.saved = {} /\ disk' = disk /\ goPins' = job.go
    BY <1>7, LockOK
  <2>2. \A l \in Libs : Kept(l)' = Kept(l)
    BY <2>1 DEF Kept
  <2>3. QED BY <1>3, <1>7, <2>1, <2>2 DEF GoInv
<1>8. QED BY <1>1, <1>2, <1>4, <1>5, <1>6, <1>7, InstallSteps

(* The Go version that an install locks suits every library then on disk,  *)
(* whichever were there before, and in whatever state the commands before  *)
(* it left them: the walk counts those it does not touch, and no step of   *)
(* the copying brings in a version that the walk had not counted.          *)
THEOREM GoPinsCoverHolds == PkgSpec => []GoPinsCover
<1>1. PkgInit => PkgOK /\ GoInv
  BY TreeFacts DEF PkgInit, PkgOK, GoInv, Idle
<1>2. PkgOK /\ GoInv /\ [PkgNext]_pkgVars => (PkgOK /\ GoInv)'
  BY PkgNextOK, GoNext
<1>3. PkgOK /\ GoInv => GoPinsCover
  <2> SUFFICES ASSUME PkgOK, GoInv, job.kind = "install", job.phase = "locked",
                      NEW l \in Libs, Installed(l), GoNeeds[l][disk[l].ver] # 0
               PROVE  /\ goPins >= GoNeeds[l][disk[l].ver]
                      /\ GoMajor[goPins] = GoMajor[GoNeeds[l][disk[l].ver]]
    BY DEF GoPinsCover
  <2>1. Kept(l) = disk[l] /\ disk[l].ver # 0
    BY NothingAside DEF Installed
  <2>2. PlanNames(job.todo) = {}
    BY DEF PkgOK, InstallOK, PlanNames, Idle
  <2>3. Suits(job.go, GoNeeds[l][disk[l].ver])
    BY <2>1, <2>2 DEF GoInv
  <2>4. goPins = job.go
    BY DEF GoInv
  <2>5. QED BY <2>3, <2>4 DEF Suits
<1>4. QED BY <1>1, <1>2, <1>3, PTL DEF PkgSpec

(* ------------------------ trees, pins and demands ------------------------- *)

LEMMA WholeFacts ==
  \A v, w \in {0} \cup Vers : /\ Whole(v) = Whole(w) => v = w
                              /\ Whole(v).ver = v
                              /\ v = 0 <=> Whole(v) = NoTree
<1>1. \A v \in {0} \cup Vers : Whole(v).ver = v /\ (v = 0 <=> Whole(v) = NoTree)
  BY DEF Whole, NoTree
<1>2. QED BY <1>1

LEMMA DepsKnown ==
  ASSUME NEW l \in Libs, NEW v \in Vers, NEW d \in DepsOf(l, v)
  PROVE  d[1] \in Libs
<1>1. Needs[l][v] \in Seq(Libs \X SUBSET Vers)
  BY VersionsAssumption
<1>2. PICK i \in DOMAIN Needs[l][v] : d = Needs[l][v][i]
  BY DEF DepsOf
<1>3. d \in Libs \X SUBSET Vers
  BY <1>1, <1>2
<1>4. QED BY <1>3

(* What a walk found and what stays on disk meet each other's demands.     *)
LEMMA WalkMeets ==
  ASSUME PkgOK, job.kind = "walk", WalkOK, DemandsAgree, Meets(pins), Picks(job.found),
         \A l \in Libs : disk[l] = Whole(pins[l]),
         \A l \in DOMAIN job.found : Seen(l, job.found[l], job.found, job.demands, job.go)
  PROVE  Meets(NewPins)
<1> SUFFICES ASSUME NEW l \in Libs, NewPins[l] # 0, NEW d \in DepsOf(l, NewPins[l]),
                    NewPins[d[1]] # 0
             PROVE  NewPins[d[1]] \in d[2]
  BY DEF Meets
<1>1. /\ pins \in [Libs -> {0} \cup Vers]
      /\ \A k \in DOMAIN job.found : k \in Libs /\ job.found[k] \in Vers
      /\ \A k \in Libs : NewPins[k] = IF k \in DOMAIN job.found THEN job.found[k] ELSE pins[k]
  BY DEF PkgOK, Picks, NewPins
<1>2. NewPins[l] \in Vers
  BY <1>1
<1>3. d[1] \in Libs
  BY <1>2, DepsKnown
<1>4. ASSUME d \in job.demands, d[1] \in DOMAIN job.found
      PROVE  NewPins[d[1]] \in d[2]
  <2>1. d[2] \in RangesFor(d[1], job.demands)
    BY <1>4 DEF RangesFor
  <2>2. job.found[d[1]] \in d[2]
    BY <1>3, <1>4, <2>1 DEF DemandsAgree
  <2>3. QED BY <1>1, <1>3, <1>4, <2>2
<1>5. CASE l \in DOMAIN job.found
  BY <1>1, <1>4, <1>5 DEF Seen
<1>6. CASE l \notin DOMAIN job.found
  <2>1. NewPins[l] = pins[l] /\ pins[l] # 0 /\ disk[l].ver = pins[l]
    BY <1>1, <1>6, WholeFacts
  <2>2. l \in Standing(job.root[1])
    BY <1>6, <2>1 DEF Standing, Installed, WalkOK, Walked
  <2>3. d \in job.demands
    BY <2>1, <2>2 DEF StandingDemands, WalkOK
  <2>4. CASE d[1] \notin DOMAIN job.found
    BY <1>1, <1>3, <2>1, <2>4 DEF Meets
  <2>5. QED BY <1>4, <2>3, <2>4
<1>7. QED BY <1>5, <1>6

(* Copying: the tree of a library in front is being replaced, or it is as  *)
(* kept, and then the ones around it are as they were.                     *)
LEMMA RemoveSettled ==
  ASSUME PkgOK, RemoveTree, NEW l \in Libs, l # Lib, NEW v \in {0} \cup Vers, Kept(l) = Whole(v)
  PROVE  Kept(l)' = Whole(v)
<1>1. job'.saved = Aside /\ job.phase = "check" /\ Copying
  BY RemoveOK
<1>2. Kept(l)' = IF l \in Nested(Lib) THEN disk[l]
                 ELSE IF l \in {Lib} \cup Inside[Lib] THEN NoTree ELSE disk[l]
  BY <1>1, RemoveKept DEF RemoveTree
<1>3. Kept(l) = disk[l]
  BY <1>1, NothingAside DEF Copying
<1>4. CASE Installed(l)
  BY <1>2, <1>3, <1>4 DEF Nested
<1>5. CASE ~Installed(l)
  <2>1. disk[l] = NoTree
    BY <1>3, <1>5, WholeFacts DEF Installed
  <2>2. QED BY <1>2, <1>3, <2>1
<1>6. QED BY <1>4, <1>5

LEMMA SweepSettled ==
  ASSUME PkgOK, Between, Sweep
  PROVE  Between'
<1>1. /\ UNCHANGED <<disk, pins>> /\ job.kind = "walk" /\ Meets(pins)
      /\ \A l \in Libs : disk[l] = Whole(pins[l])
  BY SweepOK DEF Between
<1>2. Meets(pins)'
  BY <1>1 DEF Meets
<1>3. CASE job' = Idle
  BY <1>1, <1>2, <1>3 DEF Between, Idle
<1>4. CASE job' # Idle
  <2>1. /\ job'.kind = "install" /\ job'.phase = "check" /\ job'.saved = {}
        /\ job'.found = job.found
        /\ PlanNames(job'.todo) = DOMAIN job.found
        /\ Picks(job.found) /\ WalkOK /\ DemandsAgree
        /\ \A l \in DOMAIN job.found : Seen(l, job.found[l], job.found, job.demands, job.go)
    BY <1>4, SweepOK
  <2>2. Meets(NewPins)
    BY <1>1, <2>1, WalkMeets
  <2>3. NewPins' = NewPins
    BY <1>1, <2>1 DEF NewPins
  <2>4. Meets(NewPins)'
    BY <2>2, <2>3 DEF Meets
  <2>5. \A l \in Libs : Kept(l)' = disk[l]
    BY <1>1, <2>1 DEF Kept
  <2>6. \A l \in Libs : l \notin DOMAIN job.found => NewPins[l] = pins[l]
    BY DEF NewPins
  <2>7. \A l \in Libs :
          Kept(l)' = Whole(IF l \in PlanNames(job'.todo) THEN pins'[l] ELSE NewPins'[l])
    BY <1>1, <2>1, <2>3, <2>5, <2>6
  <2>8. QED BY <1>2, <2>1, <2>4, <2>7 DEF Between
<1>5. QED BY <1>3, <1>4

(* What Between says of an install, and of a frozen install                *)
Expected(l) ==
  Whole(IF job.kind = "install" /\ l \notin PlanNames(job.todo) THEN NewPins[l] ELSE pins[l])

LEMMA CopyingBetween ==
  ASSUME PkgOK, job.kind \in {"install", "frozen"}
  PROVE  Between <=> /\ Meets(pins)
                     /\ job.kind = "install" => Meets(NewPins)
                     /\ \A l \in Libs : (job.phase = "copy" /\ l = Lib) \/ Kept(l) = Expected(l)
                     /\ job.kind = "install" /\ job.phase = "locked" =>
                          \A l \in DOMAIN job.found : pins[l] = job.found[l]
BY DEF Between, Expected

LEMMA NewPinsFacts ==
  ASSUME PkgOK
  PROVE  /\ pins \in [Libs -> {0} \cup Vers]
         /\ job.kind = "install" =>
              /\ NewPins \in [Libs -> {0} \cup Vers] /\ DOMAIN job.found \subseteq Libs
              /\ \A l \in Libs :
                   NewPins[l] = IF l \in DOMAIN job.found THEN job.found[l] ELSE pins[l]
<1>1. pins \in [Libs -> {0} \cup Vers]
  BY DEF PkgOK
<1>2. ASSUME job.kind = "install"
      PROVE  /\ NewPins \in [Libs -> {0} \cup Vers] /\ DOMAIN job.found \subseteq Libs
             /\ \A l \in Libs :
                  NewPins[l] = IF l \in DOMAIN job.found THEN job.found[l] ELSE pins[l]
  <2>1. Picks(job.found)
    BY <1>2 DEF PkgOK, InstallOK, Idle
  <2>2. QED BY <1>1, <2>1 DEF NewPins, Picks
<1>3. QED BY <1>1, <1>2

(* A step that advances the copying, from what it leaves of each library   *)
LEMMA AdvancesSettled ==
  ASSUME PkgOK, PkgOK', Between, Copying, job' = NextLib, pins' = pins,
         \A l \in Libs : Kept(l)' = IF l = Lib THEN Whole(Ver) ELSE Kept(l)
  PROVE  Between'
<1>1. /\ job'.kind = job.kind /\ job'.found = job.found /\ job'.todo = Tail(job.todo)
      /\ job'.phase = "check" /\ job.kind \in {"install", "frozen"}
  BY CopyingJob, Advances DEF Copying
<1>2. /\ Meets(pins)
      /\ job.kind = "install" => Meets(NewPins)
      /\ \A l \in Libs : l # Lib => Kept(l) = Expected(l)
  BY <1>1, CopyingBetween
<1>3. NewPins' = NewPins
  BY <1>1 DEF NewPins
<1>4. /\ Meets(pins)'
      /\ job'.kind = "install" => Meets(NewPins)'
  BY <1>1, <1>2, <1>3 DEF Meets
<1>5. ASSUME NEW l \in Libs, l # Lib PROVE Expected(l)' = Expected(l)
  BY <1>1, <1>3, <1>5, NamesOfRest DEF Expected
<1>6. ASSUME NEW l \in Libs, l = Lib PROVE Expected(l)' = Whole(Ver)
  <2>1. CASE job.kind = "install"
    <3>1. Lib \in DOMAIN job.found /\ Ver = job.found[Lib] /\ Lib \notin PlanNames(Tail(job.todo))
      BY <2>1, NamesOfRest
    <3>2. NewPins[Lib] = Ver
      BY <2>1, <3>1, NewPinsFacts
    <3>3. QED BY <1>1, <1>3, <1>6, <2>1, <3>1, <3>2 DEF Expected
  <2>2. CASE job.kind = "frozen"
    <3>1. Ver = pins[Lib]
      BY <2>2, CopyingJob DEF FrozenOK
    <3>2. QED BY <1>1, <1>6, <2>2, <3>1 DEF Expected
  <2>3. QED BY <1>1, <2>1, <2>2
<1>7. \A l \in Libs : Kept(l)' = Expected(l)'
  BY <1>2, <1>5, <1>6
<1>8. QED BY <1>1, <1>4, <1>7, CopyingBetween DEF Between, Expected

LEMMA CopyingSettled ==
  ASSUME PkgOK, PkgOK', Between, Keep \/ RemoveTree \/ CopyTree
  PROVE  Between'
<1>1. CASE CopyTree
  BY <1>1, CopyStepOK, AdvancesSettled
<1>2. CASE Keep
  <2>1. /\ Copying /\ job.kind = "install" /\ job.phase = "check"
        /\ job' = NextLib /\ UNCHANGED <<disk, pins>> /\ disk[Lib].ver = Ver
    BY <1>2, KeepOK
  <2>2. /\ job'.saved = {} /\ job.saved = {} /\ Lib \in Libs /\ Ver \in Vers
    BY <2>1, CopyingJob, Advances, NothingAside
  <2>3. \A l \in Libs : Kept(l)' = disk[l] /\ Kept(l) = disk[l]
    BY <2>1, <2>2 DEF Kept
  <2>4. disk[Lib] = Whole(Ver)
    <3>1. disk[Lib] = Expected(Lib)
      BY <2>1, <2>2, <2>3, CopyingBetween
    <3>2. PICK v \in {0} \cup Vers : disk[Lib] = Whole(v)
      BY <2>1, <2>2, <3>1, NewPinsFacts DEF Expected
    <3>3. v = Ver
      BY <2>1, <3>2, WholeFacts
    <3>4. QED BY <3>2, <3>3
  <2>5. QED BY <2>1, <2>3, <2>4, AdvancesSettled
<1>3. CASE RemoveTree
  <2>1. /\ Copying /\ job.phase = "check" /\ pins' = pins /\ job'.kind = job.kind
        /\ job'.phase = "copy" /\ job'.todo = job.todo /\ job'.found = job.found
        /\ job.kind \in {"install", "frozen"}
    BY <1>3, RemoveOK DEF Copying
  <2>2. NewPins' = NewPins /\ Lib' = Lib /\ \A l \in Libs : Expected(l)' = Expected(l)
    BY <2>1 DEF NewPins, Lib, Expected
  <2>3. /\ Meets(pins)
        /\ job.kind = "install" => Meets(NewPins)
        /\ \A l \in Libs : Kept(l) = Expected(l)
    BY <2>1, CopyingBetween
  <2>4. Meets(pins)' /\ (job'.kind = "install" => Meets(NewPins)')
    BY <2>1, <2>2, <2>3 DEF Meets
  <2>5. ASSUME NEW l \in Libs, l # Lib PROVE Kept(l)' = Expected(l)
    <3>1. PICK v \in {0} \cup Vers : Expected(l) = Whole(v)
      BY NewPinsFacts DEF Expected
    <3>2. QED BY <1>3, <2>3, <2>5, <3>1, RemoveSettled
  <2>6. QED BY <2>1, <2>2, <2>4, <2>5 DEF Between, Expected
<1>4. QED BY <1>1, <1>2, <1>3

LEMMA LockSettled ==
  ASSUME PkgOK, PkgOK', Between, WriteLock
  PROVE  Between'
<1>1. /\ job.kind = "install" /\ job.todo = <<>> /\ job.saved = {} /\ job.phase = "check"
      /\ pins' = NewPins /\ disk' = disk
      /\ job'.kind = "install" /\ job'.phase = "locked" /\ job'.todo = <<>> /\ job'.saved = {}
      /\ job'.found = job.found
  BY LockOK DEF WriteLock
<1>2. NewPins' = NewPins /\ \A l \in DOMAIN job.found : pins'[l] = job.found[l]
  BY <1>1, NewPinsFacts DEF NewPins
<1>3. Meets(NewPins) /\ \A l \in Libs : Kept(l) = Whole(NewPins[l])
  BY <1>1, CopyingBetween DEF Expected, PlanNames
<1>4. Meets(pins)' /\ Meets(NewPins)'
  BY <1>1, <1>2, <1>3 DEF Meets
<1>5. \A l \in Libs : Kept(l)' = Kept(l)
  BY <1>1 DEF Kept
<1>6. PlanNames(job'.todo) = {}
  BY <1>1 DEF PlanNames
<1>7. QED BY <1>1, <1>2, <1>3, <1>4, <1>5, <1>6 DEF Between

(* A command ends: the trees are those of the pins.                        *)
LEMMA EndSettled ==
  ASSUME PkgOK, Between, Refuse \/ WriteManifest \/ FrozenDone, ~unsettled'
  PROVE  Between'
<1>1. job' = Idle /\ UNCHANGED <<disk, pins>>
  BY DEF Refuse, WriteManifest, FrozenDone
<1>2. job.kind \in {"install", "frozen"} /\ job.phase # "copy"
  BY DEF Refuse, WriteManifest, FrozenDone, Copying, PkgOK, FrozenOK, CopyOK, Idle
<1>3. /\ Meets(pins)
      /\ \A l \in Libs : disk[l] = Expected(l)
  BY <1>2, CopyingBetween, NothingAside
<1>4. \A l \in Libs : disk[l] = Whole(pins[l])
  <2>1. CASE job.kind = "frozen"
    BY <1>3, <2>1 DEF Expected
  <2>2. CASE WriteManifest
    <3>1. job.kind = "install" /\ job.phase = "locked"
      BY <2>2 DEF WriteManifest
    <3>2. \A l \in DOMAIN job.found : pins[l] = job.found[l]
      BY <3>1, CopyingBetween
    <3>3. QED BY <1>3, <3>1, <3>2, NewPinsFacts DEF Expected
  <2>3. CASE Refuse /\ job.kind = "install"
    <3>1. /\ Len(job.todo) <= Cardinality(DOMAIN job.found) /\ job.todo \in Seq(Plan)
          /\ Picks(job.found)
          /\ Len(job.todo) = Cardinality(DOMAIN job.found) => PlanNames(job.todo) = DOMAIN job.found
      BY <2>3 DEF PkgOK, InstallOK, CopyOK, Idle
    <3>2. ~(Len(job.todo) < Cardinality(DOMAIN job.found))
      BY <2>3 DEF Refuse
    <3>3. Len(job.todo) \in Nat /\ Cardinality(DOMAIN job.found) \in Nat
      BY <3>1, PicksFinite
    <3>4. PlanNames(job.todo) = DOMAIN job.found
      BY <3>1, <3>2, <3>3
    <3>5. QED BY <1>3, <2>3, <3>4, NewPinsFacts DEF Expected
  <2>4. QED BY <1>2, <2>1, <2>2, <2>3 DEF FrozenDone
<1>5. Meets(pins)'
  BY <1>1, <1>3 DEF Meets
<1>6. QED BY <1>1, <1>4, <1>5 DEF Between, Idle

LEMMA UninstallSettled ==
  ASSUME PkgOK, Between, ~unsettled', (\E l \in Libs : Uninstall(l)) \/ Unpin
  PROVE  Between'
<1>1. ASSUME NEW l \in Libs, Uninstall(l) PROVE Between'
  <2>1. /\ job = Idle /\ job' = [kind |-> "uninstall", lib |-> l] /\ pins' = pins
        /\ disk' = [k \in Libs |-> IF k \in {l} \cup Inside[l] THEN NoTree ELSE disk[k]]
        /\ ~\E k \in Inside[l] : Installed(k)
    BY <1>1 DEF Uninstall, Begin
  <2>2. Meets(pins) /\ \A k \in Libs : disk[k] = Whole(pins[k]) /\ pins[k] \in {0} \cup Vers
    BY <2>1 DEF Between, PkgOK, Idle
  <2>3. ASSUME NEW k \in Libs, k \in Inside[l] PROVE disk[k] = NoTree
    <3>1. disk[k].ver = 0
      BY <2>1, <2>3 DEF Installed
    <3>2. disk[k] = Whole(pins[k]) /\ pins[k] \in {0} \cup Vers
      BY <2>2
    <3>3. pins[k] = 0
      BY <3>1, <3>2, WholeFacts
    <3>4. QED BY <3>2, <3>3 DEF Whole
  <2>4. \A k \in Libs : disk'[k] = IF k = l THEN NoTree ELSE Whole(pins'[k])
    BY <2>1, <2>2, <2>3
  <2>5. Meets(pins)'
    BY <2>1, <2>2 DEF Meets
  <2>6. job'.kind = "uninstall" /\ job'.lib = l
    BY <2>1
  <2>7. QED BY <2>4, <2>5, <2>6 DEF Between
<1>2. ASSUME Unpin PROVE Between'
  <2>1. /\ job.kind = "uninstall" /\ pins' = [pins EXCEPT ![job.lib] = 0] /\ job' = Idle
        /\ disk' = disk
    BY <1>2 DEF Unpin
  <2>2. /\ Meets(pins) /\ pins \in [Libs -> {0} \cup Vers] /\ job.lib \in Libs
        /\ \A l \in Libs : disk[l] = IF l = job.lib THEN NoTree ELSE Whole(pins[l])
    BY <2>1 DEF Between, PkgOK, UninstallOK, Idle
  <2>3. \A l \in Libs : pins'[l] = IF l = job.lib THEN 0 ELSE pins[l]
    BY <2>1, <2>2
  <2>4. \A l \in Libs : disk'[l] = Whole(pins'[l])
    BY <2>1, <2>2, <2>3, WholeFacts
  <2>5. Meets(pins')
    <3> SUFFICES ASSUME NEW l \in Libs, pins'[l] # 0, NEW d \in DepsOf(l, pins'[l]), pins'[d[1]] # 0
                 PROVE  pins'[d[1]] \in d[2]
      BY DEF Meets
    <3>1. pins'[l] = pins[l] /\ pins[l] \in Vers
      BY <2>2, <2>3
    <3>2. d[1] \in Libs
      BY <3>1, DepsKnown
    <3>3. pins'[d[1]] = pins[d[1]]
      BY <2>3, <3>2
    <3>4. QED BY <2>2, <3>1, <3>3 DEF Meets
  <2>6. QED BY <2>1, <2>4, <2>5 DEF Between, Meets, Idle
<1>3. QED BY <1>1, <1>2

(* The steps that touch neither a tree nor a pin                           *)
LEMMA QuietSettled ==
  ASSUME Between, UNCHANGED <<disk, pins>>, job.kind \in {"none", "walk"},
         job'.kind \in {"none", "walk"}
  PROVE  Between'
BY DEF Between, Meets

LEMMA FrozenSettled == ASSUME PkgOK, Between, Frozen PROVE Between'
<1>1. /\ UNCHANGED <<disk, pins>> /\ job = Idle
      /\ job'.kind = "frozen" /\ job'.phase = "check" /\ job'.saved = {}
  BY FrozenStarts
<1>2. Meets(pins) /\ \A l \in Libs : disk[l] = Whole(pins[l])
  BY <1>1 DEF Between, Idle
<1>3. \A l \in Libs : Kept(l)' = disk[l]
  BY <1>1 DEF Kept
<1>4. QED BY <1>1, <1>2, <1>3 DEF Between, Meets

LEMMA SettledNext == PkgOK /\ PkgOK' /\ SettledInv /\ [PkgNext]_pkgVars => SettledInv'
<1> SUFFICES ASSUME PkgOK, PkgOK', SettledInv, [PkgNext]_pkgVars, ~unsettled' PROVE Between'
  BY DEF SettledInv
<1>1. Between
  <2>1. ~unsettled
    BY DEF PkgNext, pkgVars, Install, InstallDeclared, Descend, Sweep, Keep, Refuse, RemoveTree,
           CopyTree, WriteLock, WriteManifest, Frozen, FrozenDone, Uninstall, Unpin, Tidy, Die
  <2>2. QED BY <2>1 DEF SettledInv
<1>2. CASE UNCHANGED pkgVars
  BY <1>1, <1>2 DEF pkgVars, Between, Meets, Kept, Lib, NewPins
<1>3. ASSUME NEW l \in Libs, NEW range, NEW write, NEW force, NEW allow,
             Install(l, range, write, force, allow)
      PROVE  Between'
  BY <1>1, <1>3, WalkBegins, QuietSettled DEF Idle
<1>4. CASE Descend
  BY <1>1, <1>4, DescendOK, QuietSettled DEF Idle
<1>5. ASSUME NEW used \in SUBSET Libs, Tidy(used) PROVE Between'
  BY <1>1, <1>5, QuietSettled DEF Tidy, Begin, Idle
<1>6. CASE Sweep \/ Frozen
  BY <1>1, <1>6, SweepSettled, FrozenSettled
<1>7. CASE Keep \/ RemoveTree \/ CopyTree \/ WriteLock
  BY <1>1, <1>7, CopyingSettled, LockSettled
<1>8. CASE Refuse \/ WriteManifest \/ FrozenDone
  BY <1>1, <1>8, EndSettled
<1>9. CASE (\E l \in Libs : Uninstall(l)) \/ Unpin
  BY <1>1, <1>9, UninstallSettled
<1>10. ~Die
  BY DEF Die
<1>11. QED BY <1>2, <1>3, <1>4, <1>5, <1>6, <1>7, <1>8, <1>9, <1>10 DEF PkgNext, InstallDeclared

LEMMA SettledHolds == PkgSpec => [](PkgOK /\ SettledInv)
<1>1. PkgInit => PkgOK /\ SettledInv
  BY TreeFacts DEF PkgInit, PkgOK, SettledInv, Between, Meets, Whole, Idle
<1>2. PkgOK /\ SettledInv /\ [PkgNext]_pkgVars => (PkgOK /\ SettledInv)'
  BY PkgNextOK, SettledNext
<1>3. QED BY <1>1, <1>2, PTL DEF PkgSpec

(* Until a command dies, stops halfway or takes a nested library along, the trees are those   *)
(* the lock file records whenever no command runs: a refused install leaves them untouched,    *)
(* and what one put aside is back.                                                             *)
THEOREM PinsMatchTreesHolds == PkgSpec => []PinsMatchTrees
<1>1. PkgOK /\ SettledInv => PinsMatchTrees
  <2> SUFFICES ASSUME PkgOK, SettledInv, job = Idle, ~unsettled, NEW l \in Libs, pins[l] # 0
               PROVE  Verified(l)
    BY DEF PinsMatchTrees, VerifyPasses
  <2>1. \A k \in Libs : disk[k] = Whole(pins[k])
    BY DEF SettledInv, Between, Idle
  <2>2. Strays(l) = {}
    <3>1. \A k \in Inside[l] : pins[k] = 0 => disk[k].files = "none"
      <4> SUFFICES ASSUME NEW k \in Inside[l], pins[k] = 0 PROVE disk[k].files = "none"
        OBVIOUS
      <4>1. k \in Libs
        BY VersionsAssumption
      <4>2. disk[k] = NoTree
        BY <2>1, <4>1 DEF Whole
      <4>3. QED BY <4>2 DEF NoTree
    <3>2. QED BY <3>1 DEF Strays
  <2>3. QED BY <2>1, <2>2 DEF Verified, AsPinned, Whole
<1>2. QED BY <1>1, SettledHolds, PTL

(* ... and every library on disk has its dependencies in versions its manifest admits: the     *)
(* walk's demands are all those of what it found and of what stays on disk.                    *)
THEOREM DemandsMetHolds == PkgSpec => []DemandsMet
<1>1. PkgOK /\ SettledInv => DemandsMet
  <2> SUFFICES ASSUME PkgOK, SettledInv, job = Idle, ~unsettled, NEW l \in Libs, Installed(l),
                      NEW d \in DepsOf(l, disk[l].ver), Installed(d[1])
               PROVE  disk[d[1]].ver \in d[2]
    BY DEF DemandsMet
  <2>1. /\ Meets(pins) /\ pins \in [Libs -> {0} \cup Vers]
        /\ \A k \in Libs : disk[k] = Whole(pins[k]) /\ disk[k].ver = pins[k]
    BY WholeFacts DEF SettledInv, Between, PkgOK, Idle
  <2>2. pins[l] \in Vers
    BY <2>1 DEF Installed
  <2>3. d[1] \in Libs
    BY <2>1, <2>2, DepsKnown
  <2>4. QED BY <2>1, <2>3 DEF Meets, Installed
<1>2. QED BY <1>1, SettledHolds, PTL

(* --------------------------- the frozen install -------------------------- *)

(* What is true of a pinned library while a frozen install runs: it is yet to be copied, or *)
(* put aside while the library around it is copied, or as its pin says.                     *)
IsSeq(s) == \E S : s \in Seq(S)
Pinned(l) == [ver |-> pins[l], files |-> "whole"]
ToCopy(l) == \E i \in DOMAIN job.todo : job.todo[i] = PlanFromPin(l)
PutAside(l) == job.phase = "copy" /\ <<l, Pinned(l)>> \in job.saved

FrozenJob ==
  /\ {"phase", "saved", "force", "allow", "todo"} \subseteq DOMAIN job
  /\ job.force = TRUE /\ job.allow = TRUE
  /\ IsSeq(job.todo)
  /\ \A i \in DOMAIN job.todo : job.todo[i] = PlanFromPin(job.todo[i][1])
  /\ \A s, t \in job.saved : s[1] = t[1] => s = t
  /\ \A s \in job.saved, l \in Libs : s[1] = l => disk[l] = NoTree
  /\ \A l \in Libs : pins[l] # 0 => ToCopy(l) \/ PutAside(l) \/ disk[l] = Pinned(l)
  /\ job.phase = "copy" => job.todo # <<>>

FrozenInv == /\ "kind" \in DOMAIN job
             /\ job.kind = "frozen" => FrozenJob

LEMMA FunctionIsSeq ==
  ASSUME NEW n \in Nat, NEW R, NEW f \in [1..n -> R]
  PROVE  IsSeq(f)
<1>1. f \in Seq(R)
  OBVIOUS
<1>2. QED BY <1>1 DEF IsSeq

LEMMA SeqFacts ==
  ASSUME NEW s, IsSeq(s), s # <<>>
  PROVE  /\ IsSeq(Tail(s))
         /\ 1 \in DOMAIN s /\ Head(s) = s[1]
         /\ \A i \in DOMAIN Tail(s) : i + 1 \in DOMAIN s /\ Tail(s)[i] = s[i + 1]
         /\ \A i \in DOMAIN s : i # 1 => i - 1 \in DOMAIN Tail(s) /\ Tail(s)[i - 1] = s[i]
<1>1. PICK S : s \in Seq(S)
  BY DEF IsSeq
<1>2. Tail(s) \in Seq(S)
  BY <1>1
<1>3. QED BY <1>1, <1>2 DEF IsSeq

(* A frozen install that begins has every pinned library to copy. *)
LEMMA FrozenBegins ==
  ASSUME Frozen
  PROVE  FrozenInv' /\ \A l \in Libs : pins'[l] # 0 => ToCopy(l)'
<1> DEFINE P == {l \in Libs : pins[l] # 0}
           T == [i \in DOMAIN Sorted(P) |-> PlanFromPin(Sorted(P)[i])]
<1>1. /\ job' = [kind |-> "frozen", phase |-> "check", saved |-> {}, force |-> TRUE,
                 allow |-> TRUE, todo |-> T]
      /\ pins' = pins
  BY DEF Frozen
<1>2. /\ Sorted(P) \in Seq(Libs)
      /\ \A l \in P : \E i \in DOMAIN Sorted(P) : Sorted(P)[i] = l
  BY SortedIs
<1>3. IsSeq(T)
  <2> DEFINE R == {PlanFromPin(Sorted(P)[i]) : i \in DOMAIN Sorted(P)}
  <2>1. Len(Sorted(P)) \in Nat /\ DOMAIN Sorted(P) = 1..Len(Sorted(P))
    BY <1>2
  <2>2. T \in [1..Len(Sorted(P)) -> R]
    BY <2>1
  <2> HIDE DEF T, R, P
  <2>3. QED BY <2>1, <2>2, FunctionIsSeq
<1>4. \A l \in Libs : pins[l] # 0 => \E i \in DOMAIN T : T[i] = PlanFromPin(l)
  BY <1>2
<1>5. \A i \in DOMAIN T : T[i] = PlanFromPin(T[i][1])
  BY DEF PlanFromPin
<1> HIDE DEF T
<1>6. \A i : PlanFromPin(i)' = PlanFromPin(i)
  BY <1>1 DEF PlanFromPin
<1>7. QED
  BY <1>1, <1>3, <1>4, <1>5, <1>6 DEF FrozenInv, FrozenJob, IsSeq, ToCopy

(* A step that copies leaves no pinned library behind. *)
LEMMA RemoveKeepsFrozen == FrozenInv /\ RemoveTree => FrozenInv'
<1> SUFFICES ASSUME FrozenInv, RemoveTree PROVE FrozenInv'
  OBVIOUS
<1>1. /\ job' = [job EXCEPT !.phase = "copy", !.saved = Aside]
      /\ disk' = [l \in Libs |-> IF l \in {Lib} \cup Inside[Lib] THEN NoTree ELSE disk[l]]
      /\ pins' = pins
      /\ job.phase = "check" /\ job.todo # <<>>
  BY DEF RemoveTree, Replaces, Copying
<1>2. CASE job.kind # "frozen"
  BY <1>1, <1>2 DEF FrozenInv
<1>3. CASE job.kind = "frozen"
  <2>1. FrozenJob
    BY <1>3 DEF FrozenInv
  <2>2. /\ DOMAIN job' = DOMAIN job
        /\ job'.kind = "frozen" /\ job'.phase = "copy" /\ job'.saved = Aside
        /\ job'.force = job.force /\ job'.allow = job.allow /\ job'.todo = job.todo
    BY <1>1, <1>3, <2>1 DEF FrozenJob, FrozenInv
  <2>3. \A l : PlanFromPin(l)' = PlanFromPin(l) /\ Pinned(l)' = Pinned(l)
    BY <1>1 DEF PlanFromPin, Pinned
  <2>4. /\ \A s \in Aside : \A t \in Aside : s[1] = t[1] => s = t
        /\ \A s \in Aside, l \in Libs : s[1] = l => disk'[l] = NoTree
    BY <1>1 DEF Aside, Nested
  <2>5. ASSUME NEW l \in Libs, pins[l] # 0
        PROVE  ToCopy(l)' \/ PutAside(l)' \/ disk'[l] = Pinned(l)'
    <3>1. CASE ToCopy(l)
      BY <3>1, <2>2, <2>3 DEF ToCopy
    <3>2. CASE disk[l] = Pinned(l)
      <4>1. CASE l = Lib
        <5>1. job.todo[1] = PlanFromPin(Lib)
          BY <1>1, <2>1, SeqFacts DEF FrozenJob, Lib
        <5>2. QED BY <4>1, <5>1, <1>1, <2>1, <2>2, <2>3, SeqFacts DEF ToCopy, FrozenJob
      <4>2. CASE l # Lib /\ l \in Inside[Lib]
        <5>1. Installed(l)
          BY <3>2, <2>5 DEF Installed, Pinned
        <5>2. <<l, Pinned(l)>> \in Aside
          BY <4>2, <5>1, <3>2 DEF Aside, Nested
        <5>3. QED BY <5>2, <2>2, <2>3 DEF PutAside
      <4>3. CASE l \notin {Lib} \cup Inside[Lib]
        BY <4>3, <3>2, <1>1, <2>3
      <4>4. QED BY <4>1, <4>2, <4>3
    <3>3. QED BY <3>1, <3>2, <2>1, <2>5, <1>1 DEF FrozenJob, PutAside
  <2>6. FrozenJob'
    BY <2>1, <2>2, <2>3, <2>4, <2>5, <1>1 DEF FrozenJob
  <2>7. QED BY <2>2, <2>6 DEF FrozenInv, FrozenJob
<1>4. QED BY <1>2, <1>3

LEMMA CopyKeepsFrozen == FrozenInv /\ CopyTree => FrozenInv'
<1> SUFFICES ASSUME FrozenInv, CopyTree PROVE FrozenInv'
  OBVIOUS
<1>1. /\ job' = [job EXCEPT !.todo = Tail(@), !.phase = "check", !.saved = {}]
      /\ disk' = [l \in Libs |->
            IF l = Lib THEN [ver |-> Ver, files |-> "whole"]
            ELSE IF \E s \in job.saved : s[1] = l
                 THEN (CHOOSE s \in job.saved : s[1] = l)[2] ELSE disk[l]]
      /\ pins' = pins
      /\ job.phase = "copy" /\ job.todo # <<>>
  BY DEF CopyTree, Copying, NextLib
<1>2. CASE job.kind # "frozen"
  BY <1>1, <1>2 DEF FrozenInv
<1>3. CASE job.kind = "frozen"
  <2>1. FrozenJob
    BY <1>3 DEF FrozenInv
  <2>2. /\ DOMAIN job' = DOMAIN job
        /\ job'.kind = "frozen" /\ job'.phase = "check" /\ job'.saved = {}
        /\ job'.force = job.force /\ job'.allow = job.allow /\ job'.todo = Tail(job.todo)
    BY <1>1, <1>3, <2>1 DEF FrozenJob, FrozenInv
  <2>3. \A l : PlanFromPin(l)' = PlanFromPin(l) /\ Pinned(l)' = Pinned(l)
    BY <1>1 DEF PlanFromPin, Pinned
  <2>4. IsSeq(job.todo)
    BY <2>1 DEF FrozenJob
  <2>5. \A i \in DOMAIN Tail(job.todo) : Tail(job.todo)[i] = PlanFromPin(Tail(job.todo)[i][1])
    BY <1>1, <2>1, <2>4, SeqFacts DEF FrozenJob
  <2>6. job.todo[1] = PlanFromPin(Lib) /\ Ver = pins[Lib]
    BY <1>1, <2>1, <2>4, SeqFacts DEF FrozenJob, Lib, Ver, PlanFromPin
  <2>7. ASSUME NEW l \in Libs, pins[l] # 0
        PROVE  ToCopy(l)' \/ disk'[l] = Pinned(l)'
    <3>1. CASE l = Lib
      BY <3>1, <1>1, <2>3, <2>6 DEF Pinned
    <3>2. CASE l # Lib /\ ToCopy(l)
      <4>1. PICK i \in DOMAIN job.todo : job.todo[i] = PlanFromPin(l)
        BY <3>2 DEF ToCopy
      <4>2. i # 1
        BY <3>2, <4>1, <2>6 DEF PlanFromPin
      <4>3. i - 1 \in DOMAIN Tail(job.todo) /\ Tail(job.todo)[i - 1] = PlanFromPin(l)
        BY <4>1, <4>2, <1>1, <2>4, SeqFacts
      <4>4. QED BY <4>3, <2>2, <2>3 DEF ToCopy
    <3>3. CASE l # Lib /\ PutAside(l)
      <4>1. \A s \in job.saved : s[1] = l => s = <<l, Pinned(l)>>
        BY <3>3, <2>1 DEF FrozenJob, PutAside
      <4>2. /\ \E s \in job.saved : s[1] = l
            /\ (CHOOSE s \in job.saved : s[1] = l) = <<l, Pinned(l)>>
        BY <3>3, <4>1 DEF PutAside
      <4>3. disk'[l] = <<l, Pinned(l)>>[2]
        BY <3>3, <4>2, <1>1
      <4>4. QED BY <4>3, <2>3
    <3>4. CASE l # Lib /\ disk[l] = Pinned(l) /\ ~PutAside(l)
      <4>1. \A s \in job.saved : s[1] # l
        BY <3>4, <2>1, <2>7 DEF FrozenJob, Pinned, NoTree
      <4>2. QED BY <3>4, <4>1, <1>1, <2>3
    <3>5. QED BY <3>1, <3>2, <3>3, <3>4, <2>1, <2>7 DEF FrozenJob
  <2>8. FrozenJob'
    BY <2>1, <2>2, <2>3, <2>4, <2>5, <2>7, <1>1, SeqFacts DEF FrozenJob
  <2>9. QED BY <2>2, <2>8 DEF FrozenInv, FrozenJob
<1>4. QED BY <1>2, <1>3

(* The other steps: none of them runs within a frozen install, but for its end. *)
LEMMA OthersAreNotFrozen ==
  ASSUME FrozenInv,
         \/ \E l \in Libs, v \in Vers, f \in Flags : Install(l, {v}, TRUE, f[1], f[2])
         \/ \E l \in Libs, f \in Flags : InstallDeclared(l, f[1], f[2])
         \/ Descend \/ Sweep \/ Keep \/ Refuse \/ WriteLock \/ WriteManifest \/ FrozenDone
         \/ \E l \in Libs : Uninstall(l)
         \/ Unpin
         \/ \E used \in SUBSET Libs : Tidy(used)
         \/ Die
  PROVE  "kind" \in DOMAIN job' /\ job'.kind # "frozen"
<1>1. ASSUME NEW l, NEW range, NEW write, NEW force, NEW allow,
             Install(l, range, write, force, allow)
      PROVE  "kind" \in DOMAIN job' /\ job'.kind # "frozen"
  BY <1>1 DEF Install
<1>2. ASSUME Descend \/ Sweep PROVE "kind" \in DOMAIN job' /\ job'.kind # "frozen"
  <2>1. CASE job' = Idle
    BY <2>1 DEF Idle
  <2>2. CASE Descend /\ job' # Idle
    <3>1. job.kind = "walk"
      BY <2>2 DEF Descend
    <3>2. DOMAIN job' = DOMAIN job /\ job'.kind = job.kind
      BY <2>2 DEF Descend, FrozenInv
    <3>3. QED BY <3>1, <3>2 DEF FrozenInv
  <2>3. CASE Sweep /\ job' # Idle
    BY <2>3 DEF Sweep
  <2>4. QED BY <1>2, <2>1, <2>2, <2>3
<1>3. ASSUME Keep PROVE "kind" \in DOMAIN job' /\ job'.kind # "frozen"
  <2>1. ~job.force /\ job' = [job EXCEPT !.todo = Tail(@), !.phase = "check", !.saved = {}]
    BY <1>3 DEF Keep, NextLib
  <2>2. job.kind # "frozen"
    BY <2>1 DEF FrozenInv, FrozenJob
  <2>3. QED BY <2>1, <2>2 DEF FrozenInv
<1>4. ASSUME WriteLock PROVE "kind" \in DOMAIN job' /\ job'.kind # "frozen"
  BY <1>4 DEF WriteLock, FrozenInv
<1>5. ASSUME Refuse \/ WriteManifest \/ FrozenDone \/ Unpin \/ Die
      PROVE  "kind" \in DOMAIN job' /\ job'.kind # "frozen"
  BY <1>5 DEF Refuse, WriteManifest, FrozenDone, Unpin, Die, Idle
<1>6. ASSUME NEW l \in Libs, Uninstall(l) PROVE "kind" \in DOMAIN job' /\ job'.kind # "frozen"
  BY <1>6 DEF Uninstall
<1>7. ASSUME NEW used \in SUBSET Libs, Tidy(used)
      PROVE  "kind" \in DOMAIN job' /\ job'.kind # "frozen"
  BY <1>7 DEF Tidy, Begin, Idle
<1>8. QED
  BY <1>1, <1>2, <1>3, <1>4, <1>5, <1>6, <1>7 DEF InstallDeclared

(* What else lies in the directory of a pinned library that is not to be copied any more: *)
(* installed libraries, the one being copied among them, and what lies in those.          *)
Lives(k) == Kept(k).ver # 0 \/ (job.phase = "copy" /\ k = Lib)
Cleared(l) ==
  \A k \in Inside[l] :
    Kept(k).files # "none" => Lives(k) \/ \E p \in Inside[l] : Lives(p) /\ k \in Inside[p]

ClearInv ==
  job.kind = "frozen" =>
    /\ \A l \in Libs : pins[l] # 0 => ToCopy(l) \/ Cleared(l)
    /\ job.phase = "copy" => Cleared(Lib)

(* Removing a tree clears it of all but what is put aside, and takes from the other *)
(* directories only what is not installed.                                          *)
LEMMA RemoveKeepsClear ==
  ASSUME PkgOK, FrozenInv, ClearInv, RemoveTree, job'.kind = "frozen"
  PROVE  ClearInv'
<1>1. /\ Copying /\ job.phase = "check" /\ pins' = pins
      /\ job'.kind = job.kind /\ job'.saved = Aside /\ job'.phase = "copy"
      /\ job'.todo = job.todo
  BY RemoveOK
<1>2. FrozenJob /\ Lib \in Libs /\ Lib' = Lib
  BY <1>1, CopyingJob DEF FrozenInv, Lib
<1>3. \A l : ToCopy(l)' = ToCopy(l)
  BY <1>1 DEF ToCopy, PlanFromPin
<1>4. ToCopy(Lib)
  BY <1>1, <1>2, SeqFacts DEF FrozenJob, Copying, Lib, ToCopy
<1>5. \A l : Kept(l) = disk[l]
  BY <1>1, NothingAside DEF Copying
<1>6. ASSUME NEW l \in Libs
      PROVE  Kept(l)' = IF l \in Nested(Lib) THEN disk[l]
                        ELSE IF l \in {Lib} \cup Inside[Lib] THEN NoTree ELSE disk[l]
  BY <1>1, RemoveKept DEF RemoveTree
<1>7. ASSUME NEW l \in Libs PROVE Inside[l] \subseteq Libs
  BY VersionsAssumption
<1>8. ASSUME NEW k \in Libs, disk[k].ver # 0 PROVE Lives(k)'
  <2>1. k \in Inside[Lib] => k \in Nested(Lib)
    BY <1>8 DEF Nested, Installed
  <2>2. k # Lib => Kept(k)' = disk[k]
    BY <1>6, <2>1
  <2>3. QED BY <1>1, <1>2, <1>8, <2>2 DEF Lives
<1>9. ASSUME NEW l \in Libs, Cleared(l) PROVE Cleared(l)'
  <2> SUFFICES ASSUME NEW k \in Inside[l], Kept(k)'.files # "none"
               PROVE  Lives(k)' \/ \E p \in Inside[l] : Lives(p)' /\ k \in Inside[p]
    BY DEF Cleared
  <2>1. disk[k].files # "none"
    BY <1>6, <1>7 DEF NoTree
  <2>2. Lives(k) \/ \E p \in Inside[l] : Lives(p) /\ k \in Inside[p]
    BY <1>5, <1>9, <2>1 DEF Cleared
  <2>3. \A p \in Inside[l] : Lives(p) => disk[p].ver # 0
    BY <1>1, <1>5 DEF Lives
  <2>4. QED BY <1>7, <1>8, <2>2, <2>3
<1>10. Cleared(Lib)'
  <2> SUFFICES ASSUME NEW k \in Inside[Lib], Kept(k)'.files # "none"
               PROVE  Lives(k)' \/ \E p \in Inside[Lib] : Lives(p)' /\ k \in Inside[p]
    BY <1>2 DEF Cleared
  <2>1. k \in Nested(Lib)
    BY <1>2, <1>6, <1>7 DEF NoTree
  <2>2. QED BY <1>2, <1>7, <1>8, <2>1 DEF Nested, Installed
<1>11. \A l \in Libs : pins'[l] # 0 => ToCopy(l)' \/ Cleared(l)'
  BY <1>1, <1>3, <1>9 DEF ClearInv
<1>12. QED BY <1>10, <1>11, <1>2 DEF ClearInv

(* Copying a tree puts back what was put aside. *)
LEMMA CopyKeepsClear ==
  ASSUME PkgOK, FrozenInv, ClearInv, CopyTree, job'.kind = "frozen"
  PROVE  ClearInv'
<1>1. /\ Copying /\ pins' = pins /\ job' = NextLib /\ job.phase = "copy"
      /\ \A l \in Libs : Kept(l)' = IF l = Lib THEN Whole(Ver) ELSE Kept(l)
  BY CopyStepOK DEF CopyTree
<1>2. /\ job'.kind = job.kind /\ job'.phase = "check" /\ job'.todo = Tail(job.todo)
      /\ Lib \in Libs /\ Ver \in Vers
  BY <1>1, CopyingJob, Advances
<1>3. FrozenJob
  BY <1>2 DEF FrozenInv
<1>4. ASSUME NEW l \in Libs, ToCopy(l), l # Lib PROVE ToCopy(l)'
  <2>1. PICK i \in DOMAIN job.todo : job.todo[i] = PlanFromPin(l)
    BY <1>4 DEF ToCopy
  <2>2. i # 1
    BY <1>1, <1>3, <1>4, <2>1, SeqFacts DEF FrozenJob, Copying, Lib, PlanFromPin
  <2>3. i - 1 \in DOMAIN Tail(job.todo) /\ Tail(job.todo)[i - 1] = PlanFromPin(l)
    BY <1>1, <1>3, <2>1, <2>2, SeqFacts DEF FrozenJob, Copying
  <2>4. PlanFromPin(l)' = PlanFromPin(l)
    BY <1>1 DEF PlanFromPin
  <2>5. QED BY <1>2, <2>3, <2>4 DEF ToCopy
<1>5. ASSUME NEW l \in Libs PROVE Inside[l] \subseteq Libs
  BY VersionsAssumption
<1>6. ASSUME NEW k \in Libs, Lives(k) PROVE Lives(k)'
  <2>1. CASE k = Lib
    <3>1. Kept(k)'.ver = Ver /\ Ver # 0
      BY <1>1, <1>2, <2>1, VersFacts DEF Whole
    <3>2. QED BY <3>1 DEF Lives
  <2>2. CASE k # Lib
    BY <1>1, <1>6, <2>2 DEF Lives
  <2>3. QED BY <2>1, <2>2
<1>7. Lives(Lib)
  BY <1>1 DEF Lives
<1>8. ASSUME NEW l \in Libs, Cleared(l) PROVE Cleared(l)'
  <2> SUFFICES ASSUME NEW k \in Inside[l], Kept(k)'.files # "none"
               PROVE  Lives(k)' \/ \E p \in Inside[l] : Lives(p)' /\ k \in Inside[p]
    BY DEF Cleared
  <2>1. CASE k = Lib
    BY <1>2, <1>6, <1>7, <2>1
  <2>2. CASE k # Lib
    <3>1. Kept(k)' = Kept(k)
      BY <1>1, <1>5, <2>2
    <3>2. Lives(k) \/ \E p \in Inside[l] : Lives(p) /\ k \in Inside[p]
      BY <1>8, <3>1 DEF Cleared
    <3>3. QED BY <1>5, <1>6, <3>2
  <2>3. QED BY <2>1, <2>2
<1>9. Cleared(Lib)
  BY <1>1, <1>2 DEF ClearInv
<1>10. \A l \in Libs : pins'[l] # 0 => ToCopy(l)' \/ Cleared(l)'
  BY <1>1, <1>2, <1>4, <1>8, <1>9 DEF ClearInv
<1>11. QED BY <1>2, <1>10 DEF ClearInv

(* Whatever the commands before it left behind, trees half removed or half copied, nested      *)
(* libraries lost, a frozen install that reaches its end leaves every pinned library as pinned, *)
(* and nothing in its directory that is not an installed library or in one.                     *)
THEOREM FrozenRestoresHolds == PkgSpec => []FrozenRestores
<1>1. PkgInit => FrozenInv
  BY DEF PkgInit, FrozenInv, Idle
<1>2. FrozenInv /\ [PkgNext]_pkgVars => FrozenInv'
  <2> SUFFICES ASSUME FrozenInv, [PkgNext]_pkgVars PROVE FrozenInv'
    OBVIOUS
  <2>1. CASE UNCHANGED pkgVars
    BY <2>1 DEF pkgVars, FrozenInv, FrozenJob, IsSeq, Pinned, ToCopy, PutAside, PlanFromPin
  <2>2. CASE Frozen
    BY <2>2, FrozenBegins
  <2>3. CASE RemoveTree
    BY <2>3, RemoveKeepsFrozen
  <2>4. CASE CopyTree
    BY <2>4, CopyKeepsFrozen
  <2>5. CASE PkgNext /\ ~(Frozen \/ RemoveTree \/ CopyTree)
    BY <2>5, OthersAreNotFrozen DEF PkgNext, FrozenInv
  <2>6. QED BY <2>1, <2>2, <2>3, <2>4, <2>5
<1>3. PkgInit => ClearInv
  BY DEF PkgInit, ClearInv, Idle
<1>4. PkgOK /\ FrozenInv /\ FrozenInv' /\ ClearInv /\ [PkgNext]_pkgVars => ClearInv'
  <2> SUFFICES ASSUME PkgOK, FrozenInv, ClearInv, [PkgNext]_pkgVars, job'.kind = "frozen"
               PROVE  ClearInv'
    BY DEF ClearInv
  <2>1. CASE UNCHANGED pkgVars
    <3>1. job' = job /\ disk' = disk /\ pins' = pins
      BY <2>1 DEF pkgVars
    <3>2. /\ Lib' = Lib /\ \A l : Kept(l)' = Kept(l)
          /\ \A l : ToCopy(l)' = ToCopy(l)
      BY <3>1 DEF Lib, Kept, ToCopy, PlanFromPin
    <3>3. \A l : Lives(l)' = Lives(l)
      BY <3>1, <3>2, Zenon DEF Lives
    <3>4. \A l : Cleared(l)' = Cleared(l)
      BY <3>2, <3>3 DEF Cleared
    <3>5. QED BY <3>1, <3>2, <3>4 DEF ClearInv
  <2>2. CASE Frozen
    <3>1. \A l \in Libs : pins'[l] # 0 => ToCopy(l)'
      BY <2>2, FrozenBegins
    <3>2. job'.phase = "check"
      BY <2>2 DEF Frozen
    <3>3. QED BY <3>1, <3>2 DEF ClearInv
  <2>3. CASE RemoveTree
    BY <2>3, RemoveKeepsClear
  <2>4. CASE CopyTree
    BY <2>4, CopyKeepsClear
  <2>5. CASE PkgNext /\ ~(Frozen \/ RemoveTree \/ CopyTree)
    BY <2>5, OthersAreNotFrozen DEF PkgNext
  <2>6. QED BY <2>1, <2>2, <2>3, <2>4, <2>5
<1>5. PkgOK /\ FrozenInv /\ ClearInv => FrozenRestores
  <2> SUFFICES ASSUME PkgOK, FrozenInv, ClearInv, job.kind = "frozen", job.todo = <<>>,
                      NEW l \in Libs, pins[l] # 0
               PROVE  disk[l] = Pinned(l) /\ Strays(l) \subseteq Nested(l)
    BY DEF FrozenRestores, AsPinned, Pinned
  <2>1. FrozenJob /\ ~PutAside(l) /\ job.phase # "copy"
    BY DEF FrozenInv, FrozenJob, PutAside
  <2>2. ~ToCopy(l)
    BY DEF ToCopy
  <2>3. disk[l] = Pinned(l)
    BY <2>1, <2>2 DEF FrozenJob
  <2>4. \A k : Kept(k) = disk[k]
    BY <2>1, NothingAside
  <2>5. \A k \in Inside[l] : Lives(k) <=> Installed(k)
    BY <2>1, <2>4 DEF Lives, Installed
  <2>6. Cleared(l)
    BY <2>2 DEF ClearInv
  <2>7. Strays(l) \subseteq Nested(l)
    BY <2>4, <2>5, <2>6 DEF Cleared, Strays, Nested
  <2>8. QED BY <2>3, <2>7
<1>6. QED BY <1>1, <1>2, <1>3, <1>4, <1>5, SettledHolds, PTL DEF PkgSpec
=============================================================================
