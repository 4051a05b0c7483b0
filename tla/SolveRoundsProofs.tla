------------------------- MODULE SolveRoundsProofs -------------------------
(***************************************************************************)
(* Proofs about the rounds, for any tasks and challengers, any number of   *)
(* sandbox slots and judgments at a time, and any pool sizes.              *)
(***************************************************************************)
EXTENDS SolveRounds, CountingLemmas

-----------------------------------------------------------------------------
(* The parameters and the keys *)

LEMMA Parameters ==
  /\ Tasks \subseteq Nat /\ IsFiniteSet(Tasks)
  /\ Challengers \subseteq Nat /\ IsFiniteSet(Challengers)
  /\ Founder \in Nat \ Challengers
  /\ PoolOf \in [Tasks -> {1, 2}]
  /\ MaxContainers \in Nat \ {0} /\ Concurrency \in Nat \ {0}
BY SolveRoundsAssumption

LEMMA PairsAreFinite == IsFiniteSet(Pairs)
BY Parameters, FS_Product DEF Pairs

LEMMA KeysAreFinite == IsFiniteSet(JobKeys) /\ IsFiniteSet(DuelJobs)
<1> DEFINE sides == Challengers \cup {Founder}
           from == Pairs \X sides
           duel == [x \in from |-> SideJob(x[1][1], x[2], x[1][2])]
           qualification == [t \in Tasks |-> QualificationJob(t)]
<1>1. IsFiniteSet(sides)
  BY Parameters, FS_AddElement
<1>2. IsFiniteSet(from)
  BY <1>1, PairsAreFinite, FS_Product
<1>3. duel \in Surjection(from, DuelJobs)
  <2>1. \A x \in from : duel[x] \in DuelJobs
    BY DEF DuelJobs
  <2>2. \A j \in DuelJobs : \E x \in from : duel[x] = j
    <3> SUFFICES ASSUME NEW j \in DuelJobs PROVE \E x \in from : duel[x] = j
      OBVIOUS
    <3>1. PICK p \in Pairs, s \in sides : j = SideJob(p[1], s, p[2])
      BY DEF DuelJobs
    <3>2. <<p, s>> \in from /\ duel[<<p, s>>] = j
      BY <3>1
    <3> QED BY <3>2
  <2>3. duel \in [from -> DuelJobs]
    BY <2>1
  <2> HIDE DEF duel, from
  <2> QED BY <2>2, <2>3 DEF Surjection
<1>4. IsFiniteSet(DuelJobs)
  <2> HIDE DEF duel, from
  <2> QED BY <1>2, <1>3, FS_Surjection
<1>5. IsFiniteSet({QualificationJob(t) : t \in Tasks})
  <2>1. qualification \in Surjection(Tasks, {QualificationJob(t) : t \in Tasks})
    BY DEF Surjection
  <2> HIDE DEF qualification
  <2> QED BY <2>1, Parameters, FS_Surjection
<1> QED BY <1>4, <1>5, FS_Union DEF JobKeys

LEMMA KeysDiffer ==
  /\ DuelJobs \subseteq JobKeys
  /\ \A j \in DuelJobs : /\ j[1] = "duel" /\ j[2] \in Tasks /\ j[4] \in Challengers
                         /\ j[3] \in Challengers \cup {Founder} /\ j = SideJob(j[2], j[3], j[4])
                         /\ <<j[2], j[4]>> \in Pairs
  /\ \A t \in Tasks : QualificationJob(t) \in JobKeys \ DuelJobs
<1>1. \A j \in DuelJobs : /\ j[1] = "duel" /\ j[2] \in Tasks /\ j[4] \in Challengers
                         /\ j[3] \in Challengers \cup {Founder} /\ j = SideJob(j[2], j[3], j[4])
                         /\ <<j[2], j[4]>> \in Pairs
  <2> SUFFICES ASSUME NEW j \in DuelJobs
               PROVE  /\ j[1] = "duel" /\ j[2] \in Tasks /\ j[4] \in Challengers
                      /\ j[3] \in Challengers \cup {Founder} /\ j = SideJob(j[2], j[3], j[4])
                      /\ <<j[2], j[4]>> \in Pairs
    OBVIOUS
  <2>1. PICK p \in Pairs, s \in Challengers \cup {Founder} : j = SideJob(p[1], s, p[2])
    BY DEF DuelJobs
  <2>2. p[1] \in Tasks /\ p[2] \in Challengers /\ p = <<p[1], p[2]>>
    BY DEF Pairs
  <2>3. j[1] = "duel" /\ j[2] = p[1] /\ j[3] = s /\ j[4] = p[2]
    BY <2>1 DEF SideJob
  <2> QED BY <2>1, <2>2, <2>3
<1>2. \A t \in Tasks : QualificationJob(t)[1] # "duel" /\ QualificationJob(t) \in JobKeys
  BY DEF QualificationJob, JobKeys
<1> QED BY <1>1, <1>2 DEF JobKeys

\* Rounds and backlog are ordered without ties.
LEMMA RoundsAreOrdered == \A S \in SUBSET Pairs : Orders(Earlier, S)
<1> SUFFICES ASSUME NEW S \in SUBSET Pairs PROVE Orders(Earlier, S)
  OBVIOUS
<1>1. \A p \in S : p[1] \in Nat /\ p[2] \in Nat /\ p = <<p[1], p[2]>> /\ p \in Pairs
  <2> SUFFICES ASSUME NEW p \in S PROVE p[1] \in Nat /\ p[2] \in Nat /\ p = <<p[1], p[2]>> /\ p \in Pairs
    OBVIOUS
  <2>1. p \in Pairs
    OBVIOUS
  <2>2. p[1] \in Tasks /\ p[2] \in Challengers /\ p = <<p[1], p[2]>>
    BY <2>1 DEF Pairs
  <2> QED BY <2>1, <2>2, Parameters
<1>2. \A p, q \in S : <<p, q>> \in Earlier <=> p[1] < q[1] \/ (p[1] = q[1] /\ p[2] < q[2])
  BY <1>1 DEF Earlier
<1>3. \A p, q \in S : p # q => p[1] # q[1] \/ p[2] # q[2]
  BY <1>1
<1> QED BY <1>1, <1>2, <1>3 DEF Orders

LEMMA BacklogIsOrdered == \A S \in SUBSET Tasks : Orders(Before, S)
<1> SUFFICES ASSUME NEW S \in SUBSET Tasks PROVE Orders(Before, S)
  OBVIOUS
<1>1. \A t \in S : t \in Nat /\ PoolOf[t] \in Nat /\ t \in Tasks
  BY Parameters
<1>2. \A t, u \in S : <<t, u>> \in Before <=> PoolOf[t] < PoolOf[u] \/ (PoolOf[t] = PoolOf[u] /\ t < u)
  BY <1>1 DEF Before
<1> QED BY <1>1, <1>2 DEF Orders

\* The first n of a list.
LEMMA FirstOfIs ==
  ASSUME NEW S, NEW s \in Seq(S), NEW n \in Nat
  PROVE  /\ FirstOf(n, s) \in Seq(S)
         /\ Len(FirstOf(n, s)) = IF n < Len(s) THEN n ELSE Len(s)
         /\ Range(FirstOf(n, s)) \subseteq Range(s)
         /\ n >= Len(s) => Range(FirstOf(n, s)) = Range(s)
         /\ Distinct(s) => Distinct(FirstOf(n, s))
<1>1. PICK m \in Nat : m = (IF n < Len(s) THEN n ELSE Len(s)) /\ m <= Len(s)
  OBVIOUS
<1>2. \A i \in 1 .. m : s[i] \in S
  BY <1>1
<1>3. PICK t : t = SubSeq(s, 1, m)
  OBVIOUS
<1>4. t \in Seq(S) /\ Len(t) = (IF 1 <= m THEN m - 1 + 1 ELSE 0) /\ \A i \in 1 .. m - 1 + 1 : t[i] = s[1 + i - 1]
  BY <1>2, <1>3, SubSeqProperties
<1>5. Len(t) = m /\ \A i \in 1 .. m : t[i] = s[i]
  BY <1>1, <1>4
<1>6. DOMAIN t = 1 .. m /\ DOMAIN s = 1 .. Len(s) /\ 1 .. m \subseteq 1 .. Len(s)
  BY <1>1, <1>4, <1>5
<1>7. FirstOf(n, s) = t
  BY <1>1, <1>3 DEF FirstOf
<1>8. Range(t) \subseteq Range(s)
  BY <1>5, <1>6 DEF Range
<1>9. n >= Len(s) => Range(t) = Range(s)
  <2> SUFFICES ASSUME n >= Len(s) PROVE Range(t) = Range(s)
    OBVIOUS
  <2>1. m = Len(s)
    BY <1>1
  <2> QED BY <1>5, <1>6, <2>1 DEF Range
<1>10. Distinct(s) => Distinct(t)
  BY <1>5, <1>6 DEF Distinct
<1> QED BY <1>1, <1>4, <1>5, <1>7, <1>8, <1>9, <1>10

-----------------------------------------------------------------------------
(* What the duel query gathers *)

\* The sides of a round that have no solution.
MissingSides(p) == {SideJob(p[1], s, p[2]) : s \in Sides(p[2])} \ solutions

LEMMA SideOrderIs ==
  ASSUME NEW p \in Pairs
  PROVE  /\ SideOrder(p) \in Seq(DuelJobs) /\ Len(SideOrder(p)) = 2
         /\ Distinct(SideOrder(p))
         /\ Range(SideOrder(p)) = {SideJob(p[1], s, p[2]) : s \in Sides(p[2])}
<1>1. PICK f, c : f = SideJob(p[1], Founder, p[2]) /\ c = SideJob(p[1], p[2], p[2])
  OBVIOUS
<1>2. p[2] \in Challengers /\ p[2] # Founder
  BY Parameters DEF Pairs
<1>3. f \in DuelJobs /\ c \in DuelJobs
  BY <1>1, <1>2 DEF DuelJobs
<1>4. f # c
  BY <1>1, <1>2 DEF SideJob
<1>5. {SideJob(p[1], s, p[2]) : s \in Sides(p[2])} = {f, c}
  BY <1>1 DEF Sides
<1>6. ASSUME NEW a \in DuelJobs, NEW b \in DuelJobs, a # b
      PROVE  <<a, b>> \in Seq(DuelJobs) /\ Len(<<a, b>>) = 2 /\ Distinct(<<a, b>>) /\ Range(<<a, b>>) = {a, b}
  <2>1. <<a, b>> \in Seq(DuelJobs) /\ Len(<<a, b>>) = 2 /\ DOMAIN <<a, b>> = {1, 2}
    OBVIOUS
  <2>2. <<a, b>>[1] = a /\ <<a, b>>[2] = b
    OBVIOUS
  <2> QED BY <1>6, <2>1, <2>2 DEF Distinct, Range
<1>7. SideOrder(p) = <<f, c>> \/ SideOrder(p) = <<c, f>>
  BY <1>1 DEF SideOrder
<1>8. {f, c} = {c, f}
  OBVIOUS
<1> QED BY <1>3, <1>4, <1>5, <1>6, <1>7, <1>8

\* Lists that share no element.
LEMMA RangeOfConcat ==
  ASSUME NEW S, NEW s \in Seq(S), NEW t \in Seq(S)
  PROVE  /\ s \o t \in Seq(S) /\ Len(s \o t) = Len(s) + Len(t)
         /\ Range(s \o t) = Range(s) \cup Range(t)
         /\ Distinct(s) /\ Distinct(t) /\ Range(s) \cap Range(t) = {} => Distinct(s \o t)
<1>1. PICK n \in Nat, m \in Nat : n = Len(s) /\ m = Len(t) /\ DOMAIN s = 1 .. n /\ DOMAIN t = 1 .. m
  OBVIOUS
<1>2. PICK u : u = s \o t
  OBVIOUS
<1>3. u \in Seq(S) /\ Len(u) = n + m /\ \A i \in 1 .. n + m : u[i] = IF i <= n THEN s[i] ELSE t[i - n]
  BY <1>1, <1>2, ConcatProperties
<1>4. DOMAIN u = 1 .. n + m
  BY <1>3
<1>5. \A i \in 1 .. n : i \in 1 .. n + m /\ u[i] = s[i]
  BY <1>3
<1>6. \A i \in 1 .. m : n + i \in 1 .. n + m /\ u[n + i] = t[i]
  BY <1>3
<1>7. \A i \in 1 .. n + m : i \in 1 .. n \/ (i - n \in 1 .. m /\ i = n + (i - n))
  OBVIOUS
<1>8. Range(u) = Range(s) \cup Range(t)
  <2>1. \A x \in Range(s) : x \in Range(u)
    BY <1>1, <1>4, <1>5 DEF Range
  <2>2. \A x \in Range(t) : x \in Range(u)
    BY <1>1, <1>4, <1>6 DEF Range
  <2>3. \A x \in Range(u) : x \in Range(s) \/ x \in Range(t)
    <3> SUFFICES ASSUME NEW i \in 1 .. n + m PROVE u[i] \in Range(s) \/ u[i] \in Range(t)
      BY <1>4 DEF Range
    <3>1. CASE i \in 1 .. n
      BY <1>1, <1>5, <3>1 DEF Range
    <3>2. CASE i - n \in 1 .. m /\ i = n + (i - n)
      <4>1. u[i] = t[i - n]
        BY <1>6, <3>2
      <4> QED BY <1>1, <3>2, <4>1 DEF Range
    <3> QED BY <1>7, <3>1, <3>2
  <2> QED BY <2>1, <2>2, <2>3
<1>9. ASSUME Distinct(s), Distinct(t), Range(s) \cap Range(t) = {}
      PROVE  Distinct(u)
  <2> SUFFICES ASSUME NEW i \in 1 .. n + m, NEW j \in 1 .. n + m, u[i] = u[j] PROVE i = j
    BY <1>4 DEF Distinct
  <2>1. ASSUME NEW k \in 1 .. n PROVE u[k] \in Range(s)
    BY <1>1, <1>5 DEF Range
  <2>2. ASSUME NEW k \in 1 .. n + m, k - n \in 1 .. m PROVE u[k] = t[k - n] /\ u[k] \in Range(t)
    <3>1. u[n + (k - n)] = t[k - n] /\ n + (k - n) = k
      BY <1>6, <2>2
    <3> QED BY <1>1, <2>2, <3>1 DEF Range
  <2>3. CASE i \in 1 .. n /\ j \in 1 .. n
    BY <1>1, <1>5, <1>9, <2>3 DEF Distinct
  <2>4. CASE i - n \in 1 .. m /\ j - n \in 1 .. m
    <3>1. t[i - n] = t[j - n]
      BY <2>2, <2>4
    <3>2. i - n = j - n
      BY <1>1, <1>9, <2>4, <3>1 DEF Distinct
    <3> QED BY <3>2
  <2>5. CASE i \in 1 .. n /\ j - n \in 1 .. m
    BY <1>9, <2>1, <2>2, <2>5
  <2>6. CASE j \in 1 .. n /\ i - n \in 1 .. m
    BY <1>9, <2>1, <2>2, <2>6
  <2> QED BY <1>7, <2>3, <2>4, <2>5, <2>6
<1> QED BY <1>1, <1>2, <1>3, <1>8, <1>9

\* The jobs of the rounds in R.
JobsOf(R) == UNION {MissingSides(p) : p \in R}

LEMMA MissingSidesAre ==
  ASSUME NEW p \in Pairs
  PROVE  \A j \in MissingSides(p) : j \in DuelJobs \ solutions /\ <<j[2], j[4]>> = p
<1> SUFFICES ASSUME NEW j \in MissingSides(p) PROVE j \in DuelJobs \ solutions /\ <<j[2], j[4]>> = p
  OBVIOUS
<1>1. p = <<p[1], p[2]>> /\ p[2] \in Challengers
  BY DEF Pairs
<1>2. PICK s \in Sides(p[2]) : j = SideJob(p[1], s, p[2]) /\ j \notin solutions
  BY DEF MissingSides
<1>3. s \in Challengers \cup {Founder}
  BY <1>1 DEF Sides
<1>4. j[2] = p[1] /\ j[4] = p[2]
  BY <1>2 DEF SideJob
<1> QED BY <1>1, <1>2, <1>3, <1>4 DEF DuelJobs

\* A round is added whole, or leaves at most one place of the limit.
LEMMA AddRoundIs ==
  ASSUME NEW p \in Pairs, NEW jobs \in Seq(DuelJobs), NEW limit \in Nat, Len(jobs) <= limit
  PROVE  /\ AddRound(limit, jobs, p) \in Seq(DuelJobs) /\ Len(AddRound(limit, jobs, p)) <= limit
         /\ \/ AddRound(limit, jobs, p) = jobs /\ Len(jobs) >= limit - 1
            \/ /\ Range(AddRound(limit, jobs, p)) = Range(jobs) \cup MissingSides(p)
               /\ Len(AddRound(limit, jobs, p)) >= Len(jobs)
               /\ MissingSides(p) # {} => Len(AddRound(limit, jobs, p)) > Len(jobs)
         /\ Distinct(jobs) /\ Range(jobs) \cap MissingSides(p) = {} => Distinct(AddRound(limit, jobs, p))
<1>1. PICK m : m = Without(SideOrder(p), solutions)
  OBVIOUS
<1>2. m \in Seq(DuelJobs) /\ Len(m) <= 2 /\ Range(m) = MissingSides(p) /\ Distinct(m)
  <2>1. PICK o : o = SideOrder(p)
    OBVIOUS
  <2>2. o \in Seq(DuelJobs) /\ Len(o) = 2 /\ Distinct(o) /\ Range(o) = {SideJob(p[1], s, p[2]) : s \in Sides(p[2])}
    BY <2>1, SideOrderIs
  <2>3. /\ Without(o, solutions) \in Seq(DuelJobs) /\ Len(Without(o, solutions)) <= Len(o)
        /\ Range(Without(o, solutions)) = Range(o) \ solutions
        /\ Distinct(o) => Distinct(Without(o, solutions))
    BY <2>2, WithoutLeaves
  <2>4. m = Without(o, solutions)
    BY <1>1, <2>1
  <2> QED BY <2>2, <2>3, <2>4 DEF MissingSides
<1>3. Len(m) \in Nat /\ Len(jobs) \in Nat
  BY <1>2
<1>4. MissingSides(p) # {} => Len(m) > 0
  <2>1. DOMAIN m = 1 .. Len(m)
    BY <1>2
  <2>2. Len(m) = 0 => DOMAIN m = {}
    BY <2>1
  <2>3. DOMAIN m = {} => Range(m) = {}
    BY DEF Range
  <2> QED BY <1>2, <1>3, <2>2, <2>3
<1>5. AddRound(limit, jobs, p) = IF Len(jobs) + Len(m) > limit THEN jobs ELSE jobs \o m
  BY <1>1 DEF AddRound
<1>6. CASE Len(jobs) + Len(m) > limit
  <2>1. Len(jobs) >= limit - 1
    BY <1>2, <1>3, <1>6
  <2> QED BY <1>5, <1>6, <2>1
<1>7. CASE ~(Len(jobs) + Len(m) > limit)
  <2>1. /\ jobs \o m \in Seq(DuelJobs) /\ Len(jobs \o m) = Len(jobs) + Len(m)
        /\ Range(jobs \o m) = Range(jobs) \cup Range(m)
        /\ Distinct(jobs) /\ Distinct(m) /\ Range(jobs) \cap Range(m) = {} => Distinct(jobs \o m)
    BY <1>2, RangeOfConcat
  <2>2. Len(jobs \o m) <= limit /\ Len(jobs \o m) >= Len(jobs)
    BY <1>3, <1>7, <2>1
  <2>3. MissingSides(p) # {} => Len(jobs \o m) > Len(jobs)
    BY <1>3, <1>4, <2>1
  <2> QED BY <1>2, <1>5, <1>7, <2>1, <2>2, <2>3
<1> QED BY <1>6, <1>7

\* The rounds that a query for so many jobs reads.
Rows(limit) == FirstOf(2 * limit, InOrder(OpenRounds, Earlier))

LEMMA RowsAre ==
  ASSUME NEW limit \in Nat
  PROVE  /\ Rows(limit) \in Seq(OpenRounds) /\ Distinct(Rows(limit))
         /\ Len(Rows(limit)) >= 2 * limit \/ Range(Rows(limit)) = OpenRounds
<1>1. OpenRounds \subseteq Pairs /\ IsFiniteSet(OpenRounds)
  <2>1. OpenRounds \subseteq Pairs
    BY DEF OpenRounds
  <2> QED BY <2>1, PairsAreFinite, FS_Subset
<1>2. Orders(Earlier, OpenRounds)
  BY <1>1, RoundsAreOrdered
<1>3. PICK o : o = InOrder(OpenRounds, Earlier)
  OBVIOUS
<1>4. PICK n : n = Cardinality(OpenRounds)
  OBVIOUS
<1>5. /\ o \in Seq(OpenRounds) /\ Len(o) = n
      /\ \A x \in OpenRounds : \E i \in 1 .. n : o[i] = x
      /\ \A i, j \in 1 .. n : o[i] = o[j] => i = j
  BY <1>1, <1>2, <1>3, <1>4, InOrderLists
<1>6. DOMAIN o = 1 .. n /\ \A i \in 1 .. n : o[i] \in OpenRounds
  BY <1>5
<1>7. Distinct(o) /\ Range(o) = OpenRounds
  BY <1>5, <1>6 DEF Distinct, Range
<1>8. PICK m \in Nat : m = 2 * limit
  OBVIOUS
<1>9. Rows(limit) = FirstOf(m, o)
  BY <1>3, <1>8 DEF Rows
<1>10. /\ FirstOf(m, o) \in Seq(OpenRounds)
       /\ Len(FirstOf(m, o)) = IF m < Len(o) THEN m ELSE Len(o)
       /\ m >= Len(o) => Range(FirstOf(m, o)) = Range(o)
       /\ Distinct(o) => Distinct(FirstOf(m, o))
  BY <1>5, FirstOfIs
<1>11. Len(o) \in Nat
  BY <1>5
<1>12. m < Len(o) \/ m >= Len(o)
  BY <1>11
<1> QED BY <1>7, <1>8, <1>9, <1>10, <1>11, <1>12

\* The recursion of NextDuelJobs.
LEMMA NextDuelJobsUnfolds ==
  ASSUME NEW limit \in Nat
  PROVE  \E filled : /\ filled[0] = <<>>
                     /\ \A i \in 1 .. Len(Rows(limit)) :
                          filled[i] = AddRound(limit, filled[i - 1], Rows(limit)[i])
                     /\ NextDuelJobs(limit) = filled[Len(Rows(limit))]
<1>1. PICK r : r = Rows(limit)
  OBVIOUS
<1>2. r \in Seq(OpenRounds)
  BY <1>1, RowsAre
<1>3. PICK n \in Nat : n = Len(r)
  BY <1>2
<1>4. \A i \in 1 .. n : r[i] \in Pairs
  BY <1>2, <1>3 DEF OpenRounds
<1> DEFINE V == {jobs \in Seq(DuelJobs) : Len(jobs) <= limit}
           Solves(filled) ==
             filled = [i \in 0 .. n |-> IF i = 0 THEN <<>> ELSE AddRound(limit, filled[i - 1], r[i])]
           step == [i \in 1 .. n |-> [v \in V |-> AddRound(limit, v, r[i])]]
<1>5. step \in [1 .. n -> [V -> V]]
  <2>1. \A i \in 1 .. n : \A v \in V : AddRound(limit, v, r[i]) \in V
    BY <1>4, AddRoundIs
  <2> QED BY <2>1
<1>6. PICK f : Recursion(n, V, <<>>, step, f)
  <2>1. <<>> \in V
    <3>1. <<>> \in Seq(DuelJobs) /\ Len(<<>>) = 0
      BY EmptySeq
    <3> QED BY <3>1
  <2> HIDE DEF step, V
  <2> QED BY <1>5, <2>1, RecursionExists
<1>7. f \in [0 .. n -> V] /\ f[0] = <<>> /\ \A i \in 1 .. n : f[i] = step[i][f[i - 1]]
  <2> HIDE DEF step, V
  <2> QED BY <1>6 DEF Recursion
<1>8. \A i \in 1 .. n : f[i] = AddRound(limit, f[i - 1], r[i])
  <2> SUFFICES ASSUME NEW i \in 1 .. n PROVE f[i] = AddRound(limit, f[i - 1], r[i])
    OBVIOUS
  <2>1. i - 1 \in 0 .. n
    OBVIOUS
  <2>2. PICK v \in V : v = f[i - 1]
    <3> HIDE DEF V, step
    <3> QED BY <1>7, <2>1
  <2>3. f[i] = step[i][v]
    <3> HIDE DEF step, V
    <3> QED BY <1>7, <2>2
  <2>4. step[i] = [w \in V |-> AddRound(limit, w, r[i])]
    <3> HIDE DEF V
    <3> QED OBVIOUS
  <2> HIDE DEF step, V
  <2>5. step[i][v] = AddRound(limit, v, r[i])
    BY <2>4
  <2> QED BY <2>2, <2>3, <2>5
<1> HIDE DEF step, V
<1>9. Solves(f)
  <2>1. \A i \in 0 .. n : f[i] = IF i = 0 THEN <<>> ELSE AddRound(limit, f[i - 1], r[i])
    <3> SUFFICES ASSUME NEW i \in 0 .. n
                 PROVE  f[i] = IF i = 0 THEN <<>> ELSE AddRound(limit, f[i - 1], r[i])
      OBVIOUS
    <3>1. CASE i = 0
      BY <1>7, <3>1
    <3>2. CASE i # 0
      <4>1. i \in 1 .. n
        BY <3>2
      <4> QED BY <1>8, <3>2, <4>1
    <3> QED BY <3>1, <3>2
  <2> QED BY <1>7, <2>1
<1>10. PICK filled : filled = CHOOSE g : Solves(g)
  OBVIOUS
<1>11. Solves(filled)
  <2> HIDE DEF Solves
  <2> QED BY <1>9, <1>10
<1>12. NextDuelJobs(limit) = filled[n]
  BY <1>1, <1>3, <1>10 DEF NextDuelJobs, Rows
<1>13. filled[0] = <<>>
  BY <1>11
<1>14. \A i \in 1 .. n : filled[i] = AddRound(limit, filled[i - 1], r[i])
  <2> SUFFICES ASSUME NEW i \in 1 .. n
               PROVE  filled[i] = AddRound(limit, filled[i - 1], r[i])
    OBVIOUS
  <2>1. i \in 0 .. n /\ i # 0
    OBVIOUS
  <2>2. filled[i] = IF i = 0 THEN <<>> ELSE AddRound(limit, filled[i - 1], r[i])
    BY <1>11, <2>1
  <2> QED BY <2>1, <2>2
<1> QED BY <1>1, <1>3, <1>12, <1>13, <1>14

\* The query returns duel jobs without a solution, each once and no more than asked, and
\* it returns all of them or leaves at most one place.
LEMMA NextDuelJobsAre ==
  ASSUME NEW limit \in Nat
  PROVE  /\ NextDuelJobs(limit) \in Seq(DuelJobs) /\ Len(NextDuelJobs(limit)) <= limit
         /\ Distinct(NextDuelJobs(limit))
         /\ Range(NextDuelJobs(limit)) \subseteq JobsOf(OpenRounds)
         /\ \/ Len(NextDuelJobs(limit)) >= limit - 1
            \/ Range(NextDuelJobs(limit)) = JobsOf(OpenRounds)
<1>1. PICK r : r = Rows(limit)
  OBVIOUS
<1>2. r \in Seq(OpenRounds) /\ Distinct(r) /\ (Len(r) >= 2 * limit \/ Range(r) = OpenRounds)
  BY <1>1, RowsAre
<1>3. PICK n \in Nat : n = Len(r)
  BY <1>2
<1>4. \A i \in 1 .. n : r[i] \in OpenRounds /\ r[i] \in Pairs
  BY <1>2, <1>3 DEF OpenRounds
<1>5. PICK filled : /\ filled[0] = <<>>
                    /\ \A i \in 1 .. n : filled[i] = AddRound(limit, filled[i - 1], r[i])
                    /\ NextDuelJobs(limit) = filled[n]
  BY <1>1, <1>3, NextDuelJobsUnfolds
<1> DEFINE first(i) == {r[k] : k \in 1 .. i}
           Good(i) == /\ filled[i] \in Seq(DuelJobs) /\ Len(filled[i]) <= limit
                      /\ Distinct(filled[i]) /\ Range(filled[i]) \subseteq JobsOf(first(i))
                      /\ \/ Len(filled[i]) >= limit - 1
                         \/ Len(filled[i]) >= i /\ Range(filled[i]) = JobsOf(first(i))
<1>6. Good(0)
  <2>1. <<>> \in Seq(DuelJobs) /\ Len(<<>>) = 0 /\ DOMAIN <<>> = {}
    BY EmptySeq
  <2>2. first(0) = {}
    OBVIOUS
  <2>3. JobsOf({}) = {}
    BY DEF JobsOf
  <2>4. Range(<<>>) = {} /\ Distinct(<<>>)
    BY <2>1 DEF Range, Distinct
  <2> HIDE DEF first
  <2>5. filled[0] = <<>>
    BY <1>5
  <2>6. Len(<<>>) <= limit /\ Len(<<>>) >= 0
    BY <2>1
  <2> QED BY <2>1, <2>2, <2>3, <2>4, <2>5, <2>6
<1>7. ASSUME NEW i \in 1 .. n, Good(i - 1) PROVE Good(i)
  <2>1. PICK q \in Seq(DuelJobs) :
          /\ q = filled[i - 1] /\ Len(q) <= limit /\ Distinct(q) /\ Range(q) \subseteq JobsOf(first(i - 1))
          /\ \/ Len(q) >= limit - 1
             \/ Len(q) >= i - 1 /\ Range(q) = JobsOf(first(i - 1))
    BY <1>7
  <2>2. PICK p \in Pairs : p = r[i] /\ p \in OpenRounds
    BY <1>4
  <2>3. first(i) = first(i - 1) \cup {p}
    <3>1. \A k \in 1 .. i : k \in 1 .. i - 1 \/ k = i
      OBVIOUS
    <3>2. i \in 1 .. i /\ 1 .. i - 1 \subseteq 1 .. i
      OBVIOUS
    <3> QED BY <2>2, <3>1, <3>2
  <2>4. \A x \in first(i - 1) : x \in Pairs /\ x # p
    <3> SUFFICES ASSUME NEW k \in 1 .. i - 1 PROVE r[k] \in Pairs /\ r[k] # p
      OBVIOUS
    <3>1. k \in 1 .. n /\ k # i /\ i \in 1 .. n /\ DOMAIN r = 1 .. n
      BY <1>2, <1>3
    <3>2. r[k] = r[i] => k = i
      BY <1>2, <3>1 DEF Distinct
    <3> QED BY <1>4, <2>2, <3>1, <3>2
  <2> HIDE DEF first
  <2>5. JobsOf(first(i)) = JobsOf(first(i - 1)) \cup MissingSides(p)
    BY <2>3 DEF JobsOf
  <2>6. Range(q) \cap MissingSides(p) = {}
    <3> SUFFICES ASSUME NEW j \in Range(q), j \in MissingSides(p) PROVE FALSE
      OBVIOUS
    <3>1. PICK x \in first(i - 1) : j \in MissingSides(x)
      BY <2>1 DEF JobsOf
    <3>2. <<j[2], j[4]>> = x
      BY <2>4, <3>1, MissingSidesAre
    <3>3. <<j[2], j[4]>> = p
      BY MissingSidesAre
    <3> QED BY <2>4, <3>2, <3>3
  <2>7. MissingSides(p) # {}
    <3>1. p[2] \in Challengers /\ ~PairSolved(p[1], p[2])
      BY <2>2 DEF OpenRounds, Pairs
    <3>2. PICK s \in Sides(p[2]) : SideJob(p[1], s, p[2]) \notin solutions
      BY <3>1 DEF PairSolved, Solved, Sides
    <3> QED BY <3>2 DEF MissingSides
  <2>8. PICK a : a = AddRound(limit, q, p)
    OBVIOUS
  <2>9. /\ a \in Seq(DuelJobs) /\ Len(a) <= limit
        /\ \/ a = q /\ Len(q) >= limit - 1
           \/ /\ Range(a) = Range(q) \cup MissingSides(p)
              /\ Len(a) >= Len(q)
              /\ MissingSides(p) # {} => Len(a) > Len(q)
        /\ Distinct(q) /\ Range(q) \cap MissingSides(p) = {} => Distinct(a)
    BY <2>1, <2>8, AddRoundIs
  <2>10. filled[i] = a
    BY <1>5, <2>1, <2>2, <2>8
  <2>11. Distinct(a)
    BY <2>1, <2>6, <2>9
  <2>12. Len(a) \in Nat /\ Len(q) \in Nat
    BY <2>1, <2>9
  <2>13. CASE a = q /\ Len(q) >= limit - 1
    BY <2>1, <2>5, <2>9, <2>10, <2>11, <2>13
  <2>14. CASE Range(a) = Range(q) \cup MissingSides(p) /\ Len(a) > Len(q)
    <3>1. Range(a) \subseteq JobsOf(first(i))
      BY <2>1, <2>5, <2>14
    <3>2. Len(q) >= limit - 1 => Len(a) >= limit - 1
      BY <2>12, <2>14
    <3>3. Len(q) >= i - 1 => Len(a) >= i
      BY <2>12, <2>14
    <3>4. Range(q) = JobsOf(first(i - 1)) => Range(a) = JobsOf(first(i))
      BY <2>5, <2>14
    <3> QED BY <2>1, <2>9, <2>10, <2>11, <3>1, <3>2, <3>3, <3>4
  <2> QED BY <2>7, <2>9, <2>13, <2>14
<1>8. Good(n)
  <2> DEFINE G == {i \in 0 .. n : Good(i)}
  <2> HIDE DEF Good
  <2>1. 0 \in G
    BY <1>6
  <2>2. \A i \in 1 .. n : i - 1 \in G => i \in G
    BY <1>7
  <2> HIDE DEF G
  <2>3. \A i \in 0 .. n : i \in G
    BY <2>1, <2>2, UpTo
  <2> QED BY <2>3 DEF G
<1>9. first(n) = Range(r)
  BY <1>2, <1>3 DEF Range
<1>10. Range(r) \subseteq OpenRounds
  BY <1>3, <1>4, <1>9
<1> HIDE DEF first
<1>11. JobsOf(first(n)) \subseteq JobsOf(OpenRounds)
  BY <1>9, <1>10 DEF JobsOf
<1>12. Len(filled[n]) \in Nat
  BY <1>8
<1>13. Len(filled[n]) >= limit - 1 \/ Range(filled[n]) = JobsOf(OpenRounds)
  <2>1. CASE n >= 2 * limit /\ Len(filled[n]) >= n
    <3>1. n >= limit - 1
      BY <2>1
    <3> QED BY <1>12, <2>1, <3>1
  <2>2. CASE Range(r) = OpenRounds
    BY <1>8, <1>9, <2>2
  <2> QED BY <1>2, <1>3, <1>8, <2>1, <2>2
<1> QED BY <1>5, <1>8, <1>11, <1>13

-----------------------------------------------------------------------------
(* What a poll gathers *)

KeysOK == running \subseteq JobKeys /\ done \subseteq JobKeys /\ cooldown \subseteq JobKeys

LEMMA ExcludedAreFinite ==
  ASSUME KeysOK, NEW phase
  PROVE  /\ Excluded \subseteq JobKeys
         /\ IsFiniteSet({j \in Excluded : j[1] = phase})
         /\ \A n \in Nat : Room(n, phase) = n + Cardinality({j \in Excluded : j[1] = phase})
         /\ Cardinality({j \in Excluded : j[1] = phase}) \in Nat
         /\ \A n \in Nat : Room(n, phase) \in Nat
<1>1. Excluded \subseteq JobKeys
  BY DEF KeysOK, Excluded
<1>2. {j \in Excluded : j[1] = phase} \subseteq JobKeys
  BY <1>1
<1>3. IsFiniteSet({j \in Excluded : j[1] = phase})
  BY <1>2, KeysAreFinite, FS_Subset
<1>4. Cardinality({j \in Excluded : j[1] = phase}) \in Nat
  BY <1>3, FS_CardinalityType
<1>5. \A n \in Nat : Room(n, phase) = n + Cardinality({j \in Excluded : j[1] = phase})
  BY DEF Room
<1> QED BY <1>1, <1>3, <1>4, <1>5

\* The sides without a solution of the open rounds, without what is in flight or cools down.
LEMMA WaitingSidesAre == WaitingSides \subseteq JobsOf(OpenRounds) \ Excluded
<1> SUFFICES ASSUME NEW j \in WaitingSides PROVE j \in JobsOf(OpenRounds) \ Excluded
  OBVIOUS
<1>1. /\ j \in DuelJobs /\ <<j[2], j[4]>> \in OpenRounds /\ j[3] \in Sides(j[4])
      /\ j \notin solutions /\ j \notin Excluded
  BY DEF WaitingSides
<1>2. j = SideJob(j[2], j[3], j[4])
  BY <1>1, KeysDiffer
<1>3. PICK p \in OpenRounds : p = <<j[2], j[4]>>
  BY <1>1
<1>4. p[1] = j[2] /\ p[2] = j[4]
  BY <1>3
<1>5. j \in {SideJob(p[1], s, p[2]) : s \in Sides(p[2])}
  BY <1>1, <1>2, <1>4
<1>6. j \in MissingSides(p)
  BY <1>1, <1>5 DEF MissingSides
<1> QED BY <1>1, <1>6 DEF JobsOf

\* A poll gathers duel jobs that are neither saved, nor in flight, nor cooling down; it fills
\* its slots but one, or gathers all that wait.
LEMMA GatherDuelsAre ==
  ASSUME KeysOK, NEW slots \in Nat
  PROVE  /\ GatherDuels(slots) \in Seq(DuelJobs) /\ Len(GatherDuels(slots)) <= slots
         /\ \A j \in Range(GatherDuels(slots)) : j \notin solutions /\ j \notin Excluded
         /\ Range(GatherDuels(slots)) \subseteq JobsOf(OpenRounds)
         /\ Len(GatherDuels(slots)) >= slots - 1 \/ Len(GatherDuels(slots)) >= Cardinality(WaitingSides)
<1> DEFINE E == {j \in Excluded : j[1] = "duel"}
<1>1. PICK e \in Nat : e = Cardinality(E)
  BY ExcludedAreFinite
<1>2. IsFiniteSet(E) /\ Room(slots, "duel") = slots + e
  BY <1>1, ExcludedAreFinite
<1>3. PICK limit \in Nat : limit = slots + e
  OBVIOUS
<1>4. PICK q : q = NextDuelJobs(limit)
  OBVIOUS
<1>5. /\ q \in Seq(DuelJobs) /\ Distinct(q) /\ Range(q) \subseteq JobsOf(OpenRounds)
      /\ Len(q) >= limit - 1 \/ Range(q) = JobsOf(OpenRounds)
  BY <1>4, NextDuelJobsAre
<1>6. PICK f : f = Without(q, Excluded)
  OBVIOUS
<1>7. f \in Seq(DuelJobs) /\ Range(f) = Range(q) \ Excluded /\ Distinct(f)
  BY <1>5, <1>6, WithoutLeaves
<1>8. PICK g : g = FirstOf(slots, f)
  OBVIOUS
<1>9. /\ g \in Seq(DuelJobs) /\ Len(g) = (IF slots < Len(f) THEN slots ELSE Len(f))
      /\ Range(g) \subseteq Range(f)
  BY <1>7, <1>8, FirstOfIs
<1>10. GatherDuels(slots) = g
  BY <1>2, <1>3, <1>4, <1>6, <1>8 DEF GatherDuels, Fresh
<1>11. Len(f) \in Nat /\ Len(q) \in Nat /\ Len(g) \in Nat
  BY <1>5, <1>7, <1>9
<1>12. Len(g) <= slots
  BY <1>9, <1>11
<1>13. \A j \in Range(g) : j \notin solutions /\ j \notin Excluded
  <2> SUFFICES ASSUME NEW j \in Range(g) PROVE j \notin solutions /\ j \notin Excluded
    OBVIOUS
  <2>1. j \in Range(q) /\ j \notin Excluded
    BY <1>7, <1>9
  <2>2. PICK p \in OpenRounds : j \in MissingSides(p)
    BY <1>5, <2>1 DEF JobsOf
  <2> QED BY <2>1, <2>2 DEF MissingSides
<1>14. Range(g) \subseteq JobsOf(OpenRounds)
  BY <1>5, <1>7, <1>9
<1>15. /\ Cardinality(Range(q)) = Len(q) /\ IsFiniteSet(Range(q)) /\ Range(q) \subseteq DuelJobs
       /\ Cardinality(Range(f)) = Len(f) /\ IsFiniteSet(Range(f)) /\ Range(f) \subseteq DuelJobs
  BY <1>5, <1>7, RangeOfSequence DEF Distinct
<1>16. Range(f) = Range(q) \ (Range(q) \cap E)
  <2>1. \A j \in Range(q) : j[1] = "duel"
    BY <1>15, KeysDiffer
  <2>2. \A j \in Range(q) : j \in Excluded <=> j \in Range(q) \cap E
    BY <2>1
  <2> QED BY <1>7, <2>2
<1>17. Len(f) >= Len(q) - e
  <2>1. PICK C : C = Range(q) \cap E
    OBVIOUS
  <2>2. C \subseteq E /\ C \subseteq Range(q)
    BY <2>1
  <2>3. IsFiniteSet(C) /\ Cardinality(C) <= e /\ Cardinality(C) \in Nat
    <3> HIDE DEF E
    <3> QED BY <1>1, <1>2, <2>2, FS_Subset, FS_CardinalityType
  <2>4. Cardinality(Range(q) \ C) = Cardinality(Range(q)) - Cardinality(Range(q) \cap C)
    BY <1>15, FS_Difference
  <2>5. Range(q) \cap C = C
    BY <2>2
  <2>6. Len(f) = Len(q) - Cardinality(C)
    BY <1>15, <1>16, <2>1, <2>4, <2>5
  <2> QED BY <1>11, <2>3, <2>6
<1> HIDE DEF E
<1>18. CASE Len(q) >= limit - 1
  <2>1. Len(f) >= slots - 1
    BY <1>3, <1>11, <1>17, <1>18
  <2>2. Len(g) >= slots - 1
    BY <1>9, <1>11, <2>1
  <2> QED BY <1>9, <1>10, <1>12, <1>13, <1>14, <2>2
<1>19. CASE Range(q) = JobsOf(OpenRounds)
  <2>1. WaitingSides \subseteq Range(f)
    BY <1>7, <1>19, WaitingSidesAre
  <2>2. Cardinality(WaitingSides) <= Len(f) /\ Cardinality(WaitingSides) \in Nat
    BY <1>15, <2>1, FS_Subset, FS_CardinalityType
  <2>3. Len(g) >= slots - 1 \/ Len(g) >= Cardinality(WaitingSides)
    BY <1>9, <1>11, <2>2
  <2> QED BY <1>9, <1>10, <1>12, <1>13, <1>14, <2>3
<1> QED BY <1>5, <1>18, <1>19

\* The qualification query returns no more than asked, and no duel job.
LEMMA NextQualificationJobsAre ==
  ASSUME NEW limit \in Nat
  PROVE  NextQualificationJobs(limit) \in Seq(JobKeys \ DuelJobs)
<1>1. PICK C : C = IF king = Founder THEN {t \in Tasks : status[t] = "candidate"} ELSE {}
  OBVIOUS
<1>2. C \subseteq Tasks /\ IsFiniteSet(C)
  <2>1. C \subseteq Tasks
    BY <1>1
  <2> QED BY <2>1, Parameters, FS_Subset
<1>3. Orders(Before, C)
  BY <1>2, BacklogIsOrdered
<1>4. PICK o : o = InOrder(C, Before)
  OBVIOUS
<1>5. o \in Seq(C)
  BY <1>2, <1>3, <1>4, InOrderLists
<1>6. PICK r : r = FirstOf(limit, o)
  OBVIOUS
<1>7. r \in Seq(C)
  BY <1>5, <1>6, FirstOfIs
<1>8. \A i \in 1 .. Len(r) : r[i] \in Tasks
  BY <1>2, <1>7
<1>9. NextQualificationJobs(limit) = [i \in 1 .. Len(r) |-> QualificationJob(r[i])]
  BY <1>1, <1>4, <1>6 DEF NextQualificationJobs
<1>10. \A i \in 1 .. Len(r) : QualificationJob(r[i]) \in JobKeys \ DuelJobs
  BY <1>8, KeysDiffer
<1>11. Len(r) \in Nat
  BY <1>7
<1>12. [i \in 1 .. Len(r) |-> QualificationJob(r[i])] \in Seq(JobKeys \ DuelJobs)
  BY <1>10, <1>11, IsASeq
<1> QED BY <1>9, <1>12

LEMMA GatherQualificationsAre ==
  ASSUME KeysOK, poll.slots \in Nat, Len(poll.jobs) \in Nat, Len(poll.jobs) <= poll.slots
  PROVE  /\ GatherQualifications \in Seq(JobKeys \ DuelJobs)
         /\ Len(GatherQualifications) <= poll.slots - Len(poll.jobs)
<1>1. PICK left \in Nat : left = poll.slots - Len(poll.jobs)
  OBVIOUS
<1>2. CASE left = 0
  <2>1. GatherQualifications = <<>>
    BY <1>1, <1>2 DEF GatherQualifications
  <2>2. <<>> \in Seq(JobKeys \ DuelJobs) /\ Len(<<>>) = 0
    BY EmptySeq
  <2> QED BY <1>1, <1>2, <2>1, <2>2
<1>3. CASE left # 0
  <2>1. PICK q : q = NextQualificationJobs(Room(left, "qualification"))
    OBVIOUS
  <2>2. Room(left, "qualification") \in Nat
    BY ExcludedAreFinite
  <2>3. q \in Seq(JobKeys \ DuelJobs)
    BY <2>1, <2>2, NextQualificationJobsAre
  <2>4. PICK f : f = Without(q, Excluded)
    OBVIOUS
  <2>5. f \in Seq(JobKeys \ DuelJobs)
    BY <2>3, <2>4, WithoutLeaves
  <2>6. PICK g : g = FirstOf(left, f)
    OBVIOUS
  <2>7. g \in Seq(JobKeys \ DuelJobs) /\ Len(g) = (IF left < Len(f) THEN left ELSE Len(f))
    BY <2>5, <2>6, FirstOfIs
  <2>8. Len(f) \in Nat /\ Len(g) <= left
    BY <2>5, <2>7
  <2>9. GatherQualifications = g
    BY <1>1, <1>3, <2>1, <2>4, <2>6 DEF GatherQualifications, Fresh
  <2> QED BY <1>1, <2>7, <2>8, <2>9
<1> QED BY <1>2, <1>3

-----------------------------------------------------------------------------
(* The inductive invariant *)

Typed ==
  /\ king \in Challengers \cup {Founder}
  /\ challenge \in [Challengers -> {Absent, Closed} \cup Active]
  /\ status \in [Tasks -> {"candidate", "pending_screen", "qualified", "disqualified"}]
  /\ solutions \subseteq DuelJobs
  /\ verdict \in [Pairs -> Verdicts \cup {"none"}]
  /\ KeysOK
  /\ poll \in {Idle} \cup [step : {"gathered"}, slots : 0 .. MaxContainers, jobs : Seq(DuelJobs)]
  /\ judging \in [Pairs -> {"no", "judging", "cancelled"}]
  /\ pending \in [read : BOOLEAN, pairs : SUBSET Pairs]

\* What a poll holds fits in the slots it found free, which only become more while it
\* waits for its second query, and no thread that is at work can save one of its jobs.
PollInv ==
  /\ Cardinality(running) + poll.slots <= MaxContainers
  /\ Len(poll.jobs) <= poll.slots
  /\ \A j \in Range(poll.jobs) : j \notin solutions /\ j \notin running

\* A pair that the judge has read, or judges, has both its solutions.
PairsInv ==
  /\ \A p \in Pairs : judging[p] # "no" => PairSolved(p[1], p[2])
  /\ \A p \in pending.pairs : PairSolved(p[1], p[2])
  /\ VerdictsRestOnPairs

IInv == Typed /\ PollInv /\ PairsInv /\ JudgeWithinConcurrency

LEMMA RunningIsFinite ==
  ASSUME KeysOK
  PROVE  IsFiniteSet(running) /\ Cardinality(running) \in Nat
<1>1. IsFiniteSet(running)
  BY KeysAreFinite, FS_Subset DEF KeysOK
<1> QED BY <1>1, FS_CardinalityType

LEMMA PollIs ==
  ASSUME Typed
  PROVE  /\ poll.slots \in 0 .. MaxContainers /\ poll.slots \in Nat
         /\ poll.jobs \in Seq(DuelJobs) /\ Len(poll.jobs) \in Nat
<1>1. CASE poll = Idle
  <2>1. <<>> \in Seq(DuelJobs) /\ Len(<<>>) = 0
    BY EmptySeq
  <2> QED BY <1>1, <2>1, Parameters DEF Idle
<1>2. CASE poll \in [step : {"gathered"}, slots : 0 .. MaxContainers, jobs : Seq(DuelJobs)]
  BY <1>2, Parameters
<1> QED BY <1>1, <1>2 DEF Typed

LEMMA IdleHoldsNothing ==
  /\ Idle.slots = 0 /\ Len(Idle.jobs) = 0 /\ Range(Idle.jobs) = {}
<1>1. Idle.jobs = <<>> /\ Idle.slots = 0
  BY DEF Idle
<1>2. Len(<<>>) = 0 /\ DOMAIN <<>> = {}
  BY EmptySeq
<1> QED BY <1>1, <1>2 DEF Range

LEMMA InvInit == Init => IInv
<1> SUFFICES ASSUME Init PROVE IInv
  OBVIOUS
<1>1. Typed
  BY DEF Init, Typed, KeysOK, Absent, Closed, Idle, NotRead
<1>2. PollInv
  <2>1. Cardinality({}) = 0
    BY FS_EmptySet
  <2> QED BY <2>1, IdleHoldsNothing, Parameters DEF Init, PollInv
<1>3. PairsInv
  BY DEF Init, PairsInv, NotRead, VerdictsRestOnPairs
<1>4. JudgeWithinConcurrency
  <2>1. InJudge = {}
    BY DEF Init, InJudge
  <2> QED BY <2>1, FS_EmptySet, Parameters DEF JudgeWithinConcurrency
<1> QED BY <1>1, <1>2, <1>3, <1>4 DEF IInv

\* What judges and database writers leave alone.
LEMMA PollIsLeftAlone ==
  ASSUME PollInv, UNCHANGED <<scheduler, solutions>>
  PROVE  PollInv'
BY DEF PollInv, scheduler

\* Solutions are only added, and what has a pair of them keeps it.
LEMMA PairsAreLeftAlone ==
  ASSUME PairsInv, solutions \subseteq solutions', UNCHANGED <<verdict, judge>>
  PROVE  PairsInv'
<1>1. \A p \in Pairs : PairSolved(p[1], p[2]) => PairSolved(p[1], p[2])'
  BY DEF PairSolved, Solved
<1>2. \A p \in pending.pairs : PairSolved(p[1], p[2]) => PairSolved(p[1], p[2])'
  BY DEF PairSolved, Solved
<1> QED BY <1>1, <1>2 DEF PairsInv, VerdictsRestOnPairs, judge

LEMMA ConcurrencyIsLeftAlone ==
  ASSUME JudgeWithinConcurrency, UNCHANGED judge
  PROVE  JudgeWithinConcurrency'
BY DEF JudgeWithinConcurrency, InJudge, judge

LEMMA ScreenedStep ==
  ASSUME IInv, NEW t \in Tasks, Screened(t)
  PROVE  IInv'
<1>1. Typed'
  BY DEF IInv, Typed, Screened, scheduler, judge, KeysOK
<1>2. PollInv'
  BY PollIsLeftAlone DEF IInv, Screened
<1>3. PairsInv' /\ JudgeWithinConcurrency'
  BY PairsAreLeftAlone, ConcurrencyIsLeftAlone DEF IInv, Screened
<1> QED BY <1>1, <1>2, <1>3 DEF IInv

LEMMA ResolverMovesStep ==
  ASSUME IInv, NEW c \in Challengers, ResolverMoves(c)
  PROVE  IInv'
<1>1. Typed'
  <2>1. challenge' \in [Challengers -> {Absent, Closed} \cup Active] /\ king' \in Challengers \cup {Founder}
    BY DEF IInv, Typed, ResolverMoves, Active
  <2> QED BY <2>1 DEF IInv, Typed, ResolverMoves, scheduler, judge, KeysOK
<1>2. PollInv'
  BY PollIsLeftAlone DEF IInv, ResolverMoves
<1>3. PairsInv' /\ JudgeWithinConcurrency'
  BY PairsAreLeftAlone, ConcurrencyIsLeftAlone DEF IInv, ResolverMoves
<1> QED BY <1>1, <1>2, <1>3 DEF IInv

LEMMA PollDuelsStep ==
  ASSUME IInv, PollDuels
  PROVE  IInv'
<1>1. PICK free \in Nat : free = FreeSlots /\ free <= MaxContainers /\ free = MaxContainers - Cardinality(running)
  <2>1. Cardinality(running) \in Nat
    BY RunningIsFinite DEF IInv, Typed
  <2> QED BY <2>1, Parameters DEF PollDuels, FreeSlots
<1>2. PICK jobs : jobs = GatherDuels(free)
  OBVIOUS
<1>3. /\ jobs \in Seq(DuelJobs) /\ Len(jobs) <= free
      /\ \A j \in Range(jobs) : j \notin solutions /\ j \notin Excluded
  BY <1>1, <1>2, GatherDuelsAre DEF IInv, Typed
<1>4. poll' = [step |-> "gathered", slots |-> free, jobs |-> jobs]
  BY <1>1, <1>2 DEF PollDuels
<1>5. poll'.slots = free /\ poll'.jobs = jobs
  BY <1>4
<1>6. Typed'
  <2>1. poll' \in [step : {"gathered"}, slots : 0 .. MaxContainers, jobs : Seq(DuelJobs)]
    BY <1>1, <1>3, <1>4
  <2> QED BY <2>1 DEF IInv, Typed, PollDuels, KeysOK, database, judge
<1>7. PollInv'
  <2>1. running' = running /\ solutions' = solutions
    BY DEF PollDuels, database
  <2>2. \A j \in Range(jobs) : j \notin running
    BY <1>3 DEF Excluded
  <2>3. Cardinality(running) + free <= MaxContainers
    <3>1. Cardinality(running) \in Nat
      BY RunningIsFinite DEF IInv, Typed
    <3> QED BY <1>1, <3>1, Parameters
  <2> QED BY <1>3, <1>5, <2>1, <2>2, <2>3 DEF PollInv
<1>8. PairsInv' /\ JudgeWithinConcurrency'
  BY PairsAreLeftAlone, ConcurrencyIsLeftAlone DEF IInv, PollDuels, database
<1> QED BY <1>6, <1>7, <1>8 DEF IInv

\* What the second query and the launch put to work.
LEMMA LaunchIs ==
  ASSUME IInv, PollQualifications
  PROVE  /\ running' \subseteq JobKeys
         /\ Cardinality(running') <= MaxContainers
         /\ \A j \in running' \ running : j \notin solutions
         /\ running' \cap DuelJobs = (running \cup Range(poll.jobs)) \cap DuelJobs
<1>1. PICK q : q = GatherQualifications
  OBVIOUS
<1>2. /\ poll.slots \in Nat /\ poll.jobs \in Seq(DuelJobs) /\ Len(poll.jobs) \in Nat
      /\ Len(poll.jobs) <= poll.slots
  BY PollIs DEF IInv, PollInv
<1>3. q \in Seq(JobKeys \ DuelJobs) /\ Len(q) <= poll.slots - Len(poll.jobs)
  BY <1>1, <1>2, GatherQualificationsAre DEF IInv, Typed
<1>4. PICK a : a = Range(poll.jobs)
  OBVIOUS
<1>5. a \subseteq DuelJobs /\ IsFiniteSet(a) /\ Cardinality(a) \in Nat /\ Cardinality(a) <= Len(poll.jobs)
  BY <1>2, <1>4, RangeOfSequence
<1>6. PICK b : b = Range(q)
  OBVIOUS
<1>7. b \subseteq JobKeys \ DuelJobs /\ IsFiniteSet(b) /\ Cardinality(b) \in Nat /\ Cardinality(b) <= Len(q)
  BY <1>3, <1>6, RangeOfSequence
<1>8. running' = (running \cup a) \cup b
  BY <1>1, <1>4, <1>6 DEF PollQualifications
<1>9. IsFiniteSet(running) /\ Cardinality(running) \in Nat /\ running \subseteq JobKeys
  BY RunningIsFinite DEF IInv, Typed, KeysOK
<1>10. /\ IsFiniteSet(running \cup a) /\ Cardinality(running \cup a) \in Nat
       /\ Cardinality(running \cup a) <= Cardinality(running) + Cardinality(a)
  <2>1. IsFiniteSet(running \cup a)
    BY <1>5, <1>9, FS_Union
  <2>2. Cardinality(running \cup a) = Cardinality(running) + Cardinality(a) - Cardinality(running \cap a)
    BY <1>5, <1>9, FS_Union
  <2>3. Cardinality(running \cap a) \in Nat
    BY <1>5, <1>9, FS_Intersection, FS_CardinalityType
  <2>4. Cardinality(running \cup a) \in Nat
    BY <2>1, FS_CardinalityType
  <2> QED BY <1>5, <1>9, <2>1, <2>2, <2>3, <2>4
<1>11. Cardinality((running \cup a) \cup b) <= Cardinality(running \cup a) + Cardinality(b)
  <2>2. Cardinality((running \cup a) \cup b)
          = Cardinality(running \cup a) + Cardinality(b) - Cardinality((running \cup a) \cap b)
    BY <1>7, <1>10, FS_Union
  <2>3. Cardinality((running \cup a) \cap b) \in Nat
    BY <1>7, <1>10, FS_Intersection, FS_CardinalityType
  <2> QED BY <1>7, <1>10, <2>2, <2>3
<1>12. Cardinality((running \cup a) \cup b) \in Nat
  BY <1>7, <1>10, FS_Union, FS_CardinalityType
<1>13. Len(q) \in Nat
  BY <1>3
<1>14. Cardinality(running) + Cardinality(a) + Cardinality(b) <= Cardinality(running) + poll.slots
  BY <1>2, <1>3, <1>5, <1>7, <1>9, <1>13
<1>15. Cardinality(running) + poll.slots <= MaxContainers
  BY DEF IInv, PollInv
<1>16. Cardinality((running \cup a) \cup b) <= MaxContainers
  BY <1>2, <1>5, <1>7, <1>9, <1>10, <1>11, <1>12, <1>14, <1>15, Parameters
<1>17. \A j \in a : j \notin solutions
  BY <1>4 DEF IInv, PollInv
<1>18. \A j \in b : j \notin solutions
  BY <1>7 DEF IInv, Typed
<1>19. running' \cap DuelJobs = (running \cup Range(poll.jobs)) \cap DuelJobs
  BY <1>4, <1>7, <1>8
<1> QED BY <1>5, <1>7, <1>8, <1>9, <1>16, <1>17, <1>18, <1>19, KeysDiffer

LEMMA PollQualificationsStep ==
  ASSUME IInv, PollQualifications
  PROVE  IInv'
<1>1. running' \subseteq JobKeys /\ Cardinality(running') <= MaxContainers
  BY LaunchIs
<1>2. poll' = Idle
  BY DEF PollQualifications
<1>3. Typed'
  BY <1>1, <1>2 DEF IInv, Typed, PollQualifications, KeysOK, database, judge
<1>4. PollInv'
  <2>1. running' \subseteq JobKeys => Cardinality(running') \in Nat
    BY KeysAreFinite, FS_Subset, FS_CardinalityType
  <2> QED BY <1>1, <1>2, <2>1, IdleHoldsNothing, Parameters DEF PollInv
<1>5. PairsInv' /\ JudgeWithinConcurrency'
  BY PairsAreLeftAlone, ConcurrencyIsLeftAlone DEF IInv, PollQualifications, database
<1> QED BY <1>3, <1>4, <1>5 DEF IInv

LEMMA PollFailsStep ==
  ASSUME IInv, PollFails
  PROVE  IInv'
<1>1. Typed'
  BY DEF IInv, Typed, PollFails, KeysOK, database, judge
<1>2. PollInv'
  <2>1. Cardinality(running) \in Nat /\ Cardinality(running) + poll.slots <= MaxContainers /\ poll.slots \in Nat
    BY RunningIsFinite, PollIs DEF IInv, Typed, PollInv
  <2>2. running' = running /\ poll' = Idle
    BY DEF PollFails
  <2> QED BY <2>1, <2>2, IdleHoldsNothing, Parameters DEF PollInv
<1>3. PairsInv' /\ JudgeWithinConcurrency'
  BY PairsAreLeftAlone, ConcurrencyIsLeftAlone DEF IInv, PollFails, database
<1> QED BY <1>1, <1>2, <1>3 DEF IInv

LEMMA CooledStep ==
  ASSUME IInv, NEW j \in JobKeys, Cooled(j)
  PROVE  IInv'
<1>1. Typed'
  BY DEF IInv, Typed, Cooled, KeysOK, database, judge
<1>2. PollInv'
  BY DEF IInv, PollInv, Cooled, database
<1>3. PairsInv' /\ JudgeWithinConcurrency'
  BY PairsAreLeftAlone, ConcurrencyIsLeftAlone DEF IInv, Cooled, database
<1> QED BY <1>1, <1>2, <1>3 DEF IInv

\* A thread that ends, and saves at most its own job, leaves a poll what it holds.
LEMMA EndsKeepsPoll ==
  ASSUME IInv, NEW j \in running, Ends(j), poll' = poll, solutions' \subseteq solutions \cup {j}
  PROVE  PollInv'
<1>1. running' = running \ {j}
  BY DEF Ends
<1>2. IsFiniteSet(running) /\ Cardinality(running) \in Nat
  BY RunningIsFinite DEF IInv, Typed
<1>3. Cardinality(running') = Cardinality(running) - 1
  BY <1>1, <1>2, FS_RemoveElement
<1>4. Cardinality(running) + poll.slots <= MaxContainers /\ poll.slots \in Nat
  BY PollIs DEF IInv, PollInv
<1>5. Cardinality(running') + poll'.slots <= MaxContainers
  BY <1>2, <1>3, <1>4, Parameters
<1> QED BY <1>1, <1>5 DEF IInv, PollInv

LEMMA SolveStep ==
  ASSUME IInv, NEW j \in JobKeys, Solve(j)
  PROVE  IInv'
<1>1. j \in running /\ Ends(j) /\ UNCHANGED <<king, challenge, verdict, cooldown, poll, judge>>
  BY DEF Solve, DuelSolveSaved, QualificationSaved, SolveDropped, database
<1>2. running' \subseteq JobKeys /\ done' \subseteq JobKeys
  BY <1>1 DEF Ends, IInv, Typed, KeysOK
<1>3. /\ solutions' \subseteq solutions \cup {j} /\ solutions' \subseteq DuelJobs /\ solutions \subseteq solutions'
      /\ status' \in [Tasks -> {"candidate", "pending_screen", "qualified", "disqualified"}]
  <2>1. CASE DuelSolveSaved(j)
    <3>1. j \in DuelJobs
      BY <2>1 DEF DuelSolveSaved, JobKeys, QualificationJob
    <3> QED BY <2>1, <3>1 DEF DuelSolveSaved, IInv, Typed
  <2>2. CASE QualificationSaved(j)
    <3>1. status' \in [Tasks -> {"candidate", "pending_screen", "qualified", "disqualified"}]
      <4>1. status \in [Tasks -> {"candidate", "pending_screen", "qualified", "disqualified"}]
        BY DEF IInv, Typed
      <4>2. PICK v \in {"pending_screen", "disqualified"} :
              status' = IF king = j[3] /\ status[j[2]] = "candidate"
                        THEN [status EXCEPT ![j[2]] = v] ELSE status
        BY <2>2 DEF QualificationSaved
      <4> QED BY <4>1, <4>2
    <3> QED BY <2>2, <3>1 DEF QualificationSaved, IInv, Typed
  <2>3. CASE SolveDropped(j)
    BY <2>3 DEF SolveDropped, IInv, Typed, database
  <2> QED BY <2>1, <2>2, <2>3 DEF Solve
<1>4. Typed'
  BY <1>1, <1>2, <1>3 DEF IInv, Typed, KeysOK, judge
<1>5. PollInv'
  BY <1>1, <1>3, EndsKeepsPoll
<1>6. PairsInv' /\ JudgeWithinConcurrency'
  BY <1>1, <1>3, PairsAreLeftAlone, ConcurrencyIsLeftAlone DEF IInv
<1> QED BY <1>4, <1>5, <1>6 DEF IInv

LEMMA SolverRestartsStep ==
  ASSUME IInv, SolverRestarts
  PROVE  IInv'
<1>1. Typed'
  BY DEF IInv, Typed, SolverRestarts, KeysOK, database, judge
<1>2. PollInv'
  <2>1. Cardinality({}) = 0
    BY FS_EmptySet
  <2> QED BY <2>1, IdleHoldsNothing, Parameters DEF PollInv, SolverRestarts
<1>3. PairsInv' /\ JudgeWithinConcurrency'
  BY PairsAreLeftAlone, ConcurrencyIsLeftAlone DEF IInv, SolverRestarts, database
<1> QED BY <1>1, <1>2, <1>3 DEF IInv

LEMMA ReadPendingStep ==
  ASSUME IInv, ReadPending
  PROVE  IInv'
<1>1. Judgeable \subseteq Pairs /\ \A p \in Judgeable : PairSolved(p[1], p[2])
  BY DEF Judgeable
<1>2. pending' = [read |-> TRUE, pairs |-> Judgeable]
  BY DEF ReadPending
<1>3. Typed'
  BY <1>1, <1>2 DEF IInv, Typed, ReadPending, KeysOK, database, scheduler
<1>4. PollInv'
  BY PollIsLeftAlone DEF IInv, ReadPending, database
<1>5. PairsInv'
  <2>1. \A p : PairSolved(p[1], p[2])' <=> PairSolved(p[1], p[2])
    BY DEF ReadPending, database, PairSolved, Solved
  <2>2. \A p \in pending'.pairs : PairSolved(p[1], p[2])
    BY <1>1, <1>2
  <2> QED BY <2>1, <2>2 DEF IInv, PairsInv, VerdictsRestOnPairs, ReadPending, database
<1>6. JudgeWithinConcurrency'
  BY DEF IInv, JudgeWithinConcurrency, InJudge, ReadPending
<1> QED BY <1>3, <1>4, <1>5, <1>6 DEF IInv

\* What a tick starts is pending, not in flight, and fits in the free judgments.
LEMMA StartsAre ==
  ASSUME IInv
  PROVE  LET starts == Range(Startable(InOrder(pending.pairs \ InJudge, Earlier))) IN
         /\ starts \subseteq pending.pairs \ InJudge /\ IsFiniteSet(starts)
         /\ Cardinality(starts) \in Nat
         /\ Cardinality(starts) + Cardinality(InJudge) <= Concurrency
<1>1. PICK S : S = pending.pairs \ InJudge
  OBVIOUS
<1>2. S \subseteq Pairs /\ IsFiniteSet(S)
  <2>1. S \subseteq Pairs
    BY <1>1 DEF IInv, Typed
  <2> QED BY <2>1, PairsAreFinite, FS_Subset
<1>3. PICK o : o = InOrder(S, Earlier)
  OBVIOUS
<1>4. o \in Seq(S)
  BY <1>2, <1>3, RoundsAreOrdered, InOrderLists
<1>5. IsFiniteSet(InJudge) /\ Cardinality(InJudge) \in Nat
  <2>1. InJudge \subseteq Pairs
    BY DEF InJudge
  <2> QED BY <2>1, PairsAreFinite, FS_Subset, FS_CardinalityType
<1>6. PICK n \in Nat : n = Concurrency - Cardinality(InJudge)
  BY <1>5, Parameters DEF IInv, JudgeWithinConcurrency
<1>7. PICK f : f = FirstOf(n, o)
  OBVIOUS
<1>8. f \in Seq(S) /\ Len(f) = (IF n < Len(o) THEN n ELSE Len(o))
  BY <1>4, <1>7, FirstOfIs
<1>9. Len(o) \in Nat /\ Len(f) \in Nat
  BY <1>4, <1>8
<1>10. Len(f) <= n
  BY <1>8, <1>9
<1>11. Range(f) \subseteq S /\ IsFiniteSet(Range(f)) /\ Cardinality(Range(f)) \in Nat /\ Cardinality(Range(f)) <= Len(f)
  BY <1>8, RangeOfSequence
<1>12. Cardinality(Range(f)) + Cardinality(InJudge) <= Concurrency
  BY <1>5, <1>6, <1>9, <1>10, <1>11, Parameters
<1>13. Startable(InOrder(pending.pairs \ InJudge, Earlier)) = f
  BY <1>1, <1>3, <1>6, <1>7 DEF Startable
<1> QED BY <1>1, <1>11, <1>12, <1>13

LEMMA ReconcileStep ==
  ASSUME IInv, Reconcile
  PROVE  IInv'
<1>1. PICK starts : starts = Range(Startable(InOrder(pending.pairs \ InJudge, Earlier)))
  OBVIOUS
<1>2. /\ starts \subseteq pending.pairs \ InJudge /\ IsFiniteSet(starts) /\ Cardinality(starts) \in Nat
      /\ Cardinality(starts) + Cardinality(InJudge) <= Concurrency
  BY <1>1, StartsAre
<1>3. judging' = [p \in Pairs |->
                    IF p \in starts THEN "judging"
                    ELSE IF p \in InJudge \ pending.pairs THEN "cancelled"
                    ELSE judging[p]]
  BY <1>1 DEF Reconcile
<1>4. starts \subseteq Pairs
  BY <1>2 DEF IInv, Typed
<1>5. judging \in [Pairs -> {"no", "judging", "cancelled"}]
  BY DEF IInv, Typed
<1>6. judging' \in [Pairs -> {"no", "judging", "cancelled"}]
  BY <1>3, <1>5
<1>7. Typed'
  BY <1>6 DEF IInv, Typed, Reconcile, NotRead, KeysOK, database, scheduler
<1>8. PollInv'
  BY PollIsLeftAlone DEF IInv, Reconcile, database
<1>9. InJudge' = InJudge \cup starts
  BY <1>3, <1>4, <1>5 DEF InJudge
<1>10. PairsInv'
  <2>1. \A p : PairSolved(p[1], p[2])' <=> PairSolved(p[1], p[2])
    BY DEF Reconcile, database, PairSolved, Solved
  <2>2. \A p \in Pairs : judging'[p] # "no" => p \in InJudge \/ p \in pending.pairs
    BY <1>2, <1>9 DEF InJudge
  <2>3. pending'.pairs = {}
    BY DEF Reconcile, NotRead
  <2> QED BY <2>1, <2>2, <2>3 DEF IInv, PairsInv, VerdictsRestOnPairs, Reconcile, database, InJudge
<1>11. JudgeWithinConcurrency'
  <2>1. IsFiniteSet(InJudge) /\ Cardinality(InJudge) \in Nat
    <3>1. InJudge \subseteq Pairs
      BY DEF InJudge
    <3> QED BY <3>1, PairsAreFinite, FS_Subset, FS_CardinalityType
  <2>2. Cardinality(InJudge \cup starts) = Cardinality(InJudge) + Cardinality(starts) - Cardinality(InJudge \cap starts)
    BY <1>2, <2>1, FS_Union
  <2>3. Cardinality(InJudge \cap starts) \in Nat
    BY <1>2, <2>1, FS_Intersection, FS_CardinalityType
  <2>4. Cardinality(InJudge \cup starts) <= Concurrency
    BY <1>2, <2>1, <2>2, <2>3, Parameters
  <2> QED BY <1>9, <2>4 DEF JudgeWithinConcurrency
<1> QED BY <1>7, <1>8, <1>10, <1>11 DEF IInv

\* A judgment that ends, with or without a verdict.
LEMMA JudgmentIs ==
  ASSUME IInv, NEW p \in Pairs, Judgment(p)
  PROVE  /\ judging[p] # "no" /\ judging' = [judging EXCEPT ![p] = "no"]
         /\ verdict' = verdict \/ \E v \in Verdicts : Saved(p, v)
         /\ UNCHANGED <<king, challenge, status, solutions, scheduler, pending>>
BY DEF Judgment, JudgmentSaved, JudgmentFails, JudgmentCancelled, database

LEMMA SavedIs ==
  ASSUME IInv, NEW p \in Pairs, verdict' = verdict \/ \E v \in Verdicts : Saved(p, v)
  PROVE  /\ verdict' \in [Pairs -> Verdicts \cup {"none"}]
         /\ \A q \in Pairs : verdict[q] # "none" => verdict'[q] = verdict[q]
         /\ \A q \in Pairs \ {p} : verdict'[q] = verdict[q]
<1>1. verdict \in [Pairs -> Verdicts \cup {"none"}]
  BY DEF IInv, Typed
<1> QED BY <1>1 DEF Saved

LEMMA JudgmentStep ==
  ASSUME IInv, NEW p \in Pairs, Judgment(p)
  PROVE  IInv'
<1>1. /\ judging[p] # "no" /\ judging' = [judging EXCEPT ![p] = "no"]
      /\ verdict' = verdict \/ \E v \in Verdicts : Saved(p, v)
      /\ UNCHANGED <<king, challenge, status, solutions, scheduler, pending>>
  BY JudgmentIs
<1>2. /\ verdict' \in [Pairs -> Verdicts \cup {"none"}]
      /\ \A q \in Pairs \ {p} : verdict'[q] = verdict[q]
  BY <1>1, SavedIs
<1>3. judging \in [Pairs -> {"no", "judging", "cancelled"}]
  BY DEF IInv, Typed
<1>4. judging' \in [Pairs -> {"no", "judging", "cancelled"}]
  BY <1>1, <1>3
<1>5. Typed'
  BY <1>1, <1>2, <1>4 DEF IInv, Typed, KeysOK, scheduler
<1>6. PollInv'
  BY <1>1, PollIsLeftAlone DEF IInv
<1>7. InJudge' \subseteq InJudge
  BY <1>1, <1>3 DEF InJudge
<1>8. PairsInv'
  <2>1. \A q : PairSolved(q[1], q[2])' <=> PairSolved(q[1], q[2])
    BY <1>1 DEF PairSolved, Solved
  <2>2. \A q \in Pairs : judging'[q] # "no" => judging[q] # "no"
    BY <1>7 DEF InJudge
  <2>3. PairSolved(p[1], p[2])
    BY <1>1 DEF IInv, PairsInv
  <2>4. \A q \in Pairs : verdict'[q] # "none" => PairSolved(q[1], q[2])
    BY <1>2, <2>3 DEF IInv, PairsInv, VerdictsRestOnPairs
  <2>5. pending' = pending
    BY <1>1
  <2> QED BY <2>1, <2>2, <2>4, <2>5 DEF IInv, PairsInv, VerdictsRestOnPairs
<1>9. JudgeWithinConcurrency'
  <2>1. InJudge \subseteq Pairs
    BY DEF InJudge
  <2>2. IsFiniteSet(InJudge)
    BY <2>1, PairsAreFinite, FS_Subset
  <2>3. Cardinality(InJudge') <= Cardinality(InJudge) /\ Cardinality(InJudge) \in Nat /\ Cardinality(InJudge') \in Nat
    BY <1>7, <2>2, FS_Subset, FS_CardinalityType
  <2> QED BY <2>3, Parameters DEF IInv, JudgeWithinConcurrency
<1> QED BY <1>5, <1>6, <1>8, <1>9 DEF IInv

LEMMA JudgeRestartsStep ==
  ASSUME IInv, JudgeRestarts
  PROVE  IInv'
<1>1. Typed'
  BY DEF IInv, Typed, JudgeRestarts, NotRead, KeysOK, database, scheduler
<1>2. PollInv'
  BY PollIsLeftAlone DEF IInv, JudgeRestarts, database
<1>3. PairsInv'
  BY DEF IInv, PairsInv, VerdictsRestOnPairs, JudgeRestarts, NotRead, database, PairSolved, Solved
<1>4. JudgeWithinConcurrency'
  <2>1. InJudge' = {}
    BY DEF JudgeRestarts, InJudge
  <2> QED BY <2>1, FS_EmptySet, Parameters DEF JudgeWithinConcurrency
<1> QED BY <1>1, <1>2, <1>3, <1>4 DEF IInv

LEMMA InvStep == IInv /\ [Next]_vars => IInv'
<1> SUFFICES ASSUME IInv, [Next]_vars PROVE IInv'
  OBVIOUS
<1>1. CASE \E t \in Tasks : Screened(t)
  BY <1>1, ScreenedStep
<1>2. CASE \E c \in Challengers : ResolverMoves(c)
  BY <1>2, ResolverMovesStep
<1>3. CASE PollDuels \/ PollQualifications \/ PollFails \/ SolverRestarts
  BY <1>3, PollDuelsStep, PollQualificationsStep, PollFailsStep, SolverRestartsStep
<1>4. CASE \E j \in JobKeys : Cooled(j) \/ Solve(j)
  BY <1>4, CooledStep, SolveStep
<1>5. CASE ReadPending \/ Reconcile \/ JudgeRestarts
  BY <1>5, ReadPendingStep, ReconcileStep, JudgeRestartsStep
<1>6. CASE \E p \in Pairs : Judgment(p)
  BY <1>6, JudgmentStep
<1>7. CASE UNCHANGED vars
  BY <1>7 DEF vars, database, scheduler, judge, IInv, Typed, KeysOK, PollInv, PairsInv,
              VerdictsRestOnPairs, PairSolved, Solved, JudgeWithinConcurrency, InJudge
<1> QED BY <1>1, <1>2, <1>3, <1>4, <1>5, <1>6, <1>7 DEF Next

\* Type correctness, no more sandboxes than MAX_CONTAINERS, no more judgments than the
\* concurrency, and verdicts that rest on both solves.
LEMMA LimitsHold == IInv => TypeOK /\ SlotsRespected /\ JudgeWithinConcurrency /\ VerdictsRestOnPairs
<1> SUFFICES ASSUME IInv PROVE TypeOK /\ SlotsRespected /\ JudgeWithinConcurrency /\ VerdictsRestOnPairs
  OBVIOUS
<1>1. TypeOK
  <2>1. poll.slots \in 0 .. MaxContainers /\ poll.jobs \in Seq(DuelJobs)
    BY PollIs DEF IInv
  <2>2. Range(poll.jobs) \subseteq JobKeys
    BY <2>1, RangeOfSequence, KeysDiffer
  <2>3. poll.step \in {"idle", "gathered"}
    BY DEF IInv, Typed, Idle
  <2> QED BY <2>1, <2>2, <2>3 DEF IInv, Typed, KeysOK, TypeOK
<1>2. SlotsRespected
  <2>1. Cardinality(running) \in Nat /\ poll.slots \in Nat /\ Len(poll.jobs) \in Nat
    BY RunningIsFinite, PollIs DEF IInv, Typed
  <2> QED BY <2>1, Parameters DEF IInv, PollInv, SlotsRespected
<1> QED BY <1>1, <1>2 DEF IInv, PairsInv

\* No step launches a solve whose solution is saved, or changes a verdict that a round
\* has (_pending_work's exclusions, save_judgment).
THEOREM RecordsAreFinal == Spec => RecordsStand
<1> DEFINE Stand == /\ \A j \in running' \ running : j \notin solutions
                    /\ \A p \in Pairs : verdict[p] # "none" => verdict'[p] = verdict[p]
<1>1. IInv /\ [Next]_vars => [Stand]_vars
  <2> SUFFICES ASSUME IInv, Next PROVE Stand
    OBVIOUS
  <2>1. CASE \E t \in Tasks : Screened(t)
    BY <2>1 DEF Screened, scheduler
  <2>2. CASE \E c \in Challengers : ResolverMoves(c)
    BY <2>2 DEF ResolverMoves, scheduler
  <2>3. CASE PollQualifications
    BY <2>3, LaunchIs DEF PollQualifications, database
  <2>4. CASE PollDuels \/ PollFails \/ SolverRestarts
    BY <2>4 DEF PollDuels, PollFails, SolverRestarts, database
  <2>5. CASE \E j \in JobKeys : Cooled(j) \/ Solve(j)
    BY <2>5 DEF Cooled, Solve, DuelSolveSaved, QualificationSaved, SolveDropped, Ends, database
  <2>6. CASE ReadPending \/ Reconcile \/ JudgeRestarts
    BY <2>6 DEF ReadPending, Reconcile, JudgeRestarts, database, scheduler
  <2>7. CASE \E p \in Pairs : Judgment(p)
    <3>1. PICK p \in Pairs : Judgment(p)
      BY <2>7
    <3>2. (verdict' = verdict \/ \E v \in Verdicts : Saved(p, v)) /\ running' = running
      BY <3>1, JudgmentIs DEF scheduler
    <3>3. \A q \in Pairs : verdict[q] # "none" => verdict'[q] = verdict[q]
      BY <3>2, SavedIs
    <3> QED BY <3>2, <3>3
  <2> QED BY <2>1, <2>2, <2>3, <2>4, <2>5, <2>6, <2>7 DEF Next
<1> QED BY <1>1, InvInit, InvStep, PTL DEF Spec, RecordsStand

\* A poll leaves at most one slot to the backlog while a duel solve waits that is neither
\* in flight nor cooling down, however many rounds are open and jobs excluded: the
\* places that the query makes for the excluded jobs are enough (next_duel_jobs).
THEOREM DuelsComeFirst == Spec => DuelsFirstButOneSlot
<1> DEFINE First == PollDuels => \/ Len(poll'.jobs) >= FreeSlots - 1
                                 \/ Len(poll'.jobs) >= Cardinality(WaitingSides)
<1>1. IInv => First
  <2> SUFFICES ASSUME IInv, PollDuels
               PROVE  \/ Len(poll'.jobs) >= FreeSlots - 1
                      \/ Len(poll'.jobs) >= Cardinality(WaitingSides)
    OBVIOUS
  <2>1. PICK free \in Nat : free = FreeSlots
    <3>1. Cardinality(running) \in Nat
      BY RunningIsFinite DEF IInv, Typed
    <3> QED BY <3>1, Parameters DEF PollDuels, FreeSlots
  <2>2. poll'.jobs = GatherDuels(free)
    BY <2>1 DEF PollDuels
  <2>3. \/ Len(GatherDuels(free)) >= free - 1
        \/ Len(GatherDuels(free)) >= Cardinality(WaitingSides)
    BY <2>1, GatherDuelsAre DEF IInv, Typed
  <2> QED BY <2>1, <2>2, <2>3
<1> QED BY <1>1, InvInit, InvStep, PTL DEF Spec, DuelsFirstButOneSlot

-----------------------------------------------------------------------------
(* The promise to the resolver: DuelRounds by itself *)

LEMMA SidesBelong ==
  ASSUME NEW p \in Pairs
  PROVE  /\ SidesOfRounds[p] # {} /\ SidesOfRounds[p] \subseteq DuelJobs
         /\ \A j \in SidesOfRounds[p] : <<j[2], j[4]>> = p
<1>1. p = <<p[1], p[2]>> /\ p[2] \in Challengers
  BY DEF Pairs
<1>2. SidesOfRounds[p] = {SideJob(p[1], s, p[2]) : s \in Sides(p[2])}
  BY DEF SidesOfRounds
<1>3. Founder \in Sides(p[2]) /\ Sides(p[2]) \subseteq Challengers \cup {Founder}
  BY <1>1 DEF Sides
<1>4. \A s : SideJob(p[1], s, p[2])[2] = p[1] /\ SideJob(p[1], s, p[2])[4] = p[2]
  BY DEF SideJob
<1>5. SidesOfRounds[p] # {}
  BY <1>2, <1>3
<1>6. SidesOfRounds[p] \subseteq DuelJobs
  BY <1>2, <1>3 DEF DuelJobs
<1>7. \A j \in SidesOfRounds[p] : <<j[2], j[4]>> = p
  BY <1>1, <1>2, <1>4
<1> QED BY <1>5, <1>6, <1>7

\* What DuelRounds keeps: only a verdict of pool one leads into pool two, and only a
\* verdict of pool two to the crown.
PromiseInv ==
  /\ challenge \in [Challengers -> {Absent, Closed} \cup Active]
  /\ verdict \in [Pairs -> Verdicts \cup {"none"}]
  /\ \A c \in Challengers : challenge[c] = 2 => Promise!Judged(c, 1)
  /\ PoolTwoWaits
  /\ \A p \in Pairs : verdict[p] # "none" => SidesOfRounds[p] \subseteq solutions
  /\ king # Founder => king \in Challengers /\ Promise!Judged(king, 1) /\ Promise!Judged(king, 2)

LEMMA JudgedStays ==
  ASSUME \A p \in Pairs : verdict[p] # "none" => verdict'[p] # "none"
  PROVE  \A c \in Challengers, n \in {1, 2} : Promise!Judged(c, n) => Promise!Judged(c, n)'
<1> SUFFICES ASSUME NEW c \in Challengers, NEW n \in {1, 2}, Promise!Judged(c, n)
             PROVE  Promise!Judged(c, n)'
  OBVIOUS
<1>1. PICK t \in Tasks : PoolOf[t] = n /\ verdict[<<t, c>>] # "none"
  BY DEF Promise!Judged
<1>2. <<t, c>> \in Pairs
  BY DEF Pairs
<1>3. verdict'[<<t, c>>] # "none"
  BY <1>1, <1>2
<1> QED BY <1>1, <1>3 DEF Promise!Judged

LEMMA PromiseInit == Promise!Init => PromiseInv
<1> SUFFICES ASSUME Promise!Init PROVE PromiseInv
  OBVIOUS
<1>1. challenge = [c \in Challengers |-> -1] /\ king = Founder
  BY DEF Promise!Init, Promise!Absent
<1>2. verdict = [p \in Pairs |-> "none"] /\ Underway = {} /\ solutions = {}
  BY DEF Promise!Init, Promise!Rounds, Pairs
<1>3. PoolTwoWaits
  BY <1>2 DEF PoolTwoWaits, Promise!PoolTwoWaits, Promise!Rounds, Pairs
<1> QED BY <1>1, <1>2, <1>3 DEF PromiseInv, Absent

\* The solves of pool two wait as long as none is added and no verdict changes.
LEMMA PoolTwoStillWaits ==
  ASSUME PoolTwoWaits, UNCHANGED verdict,
         Underway' \cup solutions' \subseteq Underway \cup solutions
  PROVE  PoolTwoWaits'
<1> SUFFICES ASSUME NEW p \in Pairs, PoolOf[p[1]] = 2,
                    SidesOfRounds[p] \cap (Underway' \cup solutions') # {} \/ verdict'[p] # "none"
             PROVE  Promise!Judged(p[2], 1)'
  BY DEF PoolTwoWaits, Promise!PoolTwoWaits, Promise!Rounds, Pairs, SidesOfRounds
<1>1. SidesOfRounds[p] \cap (Underway \cup solutions) # {} \/ verdict[p] # "none"
  OBVIOUS
<1>2. Promise!Judged(p[2], 1)
  BY <1>1 DEF PoolTwoWaits, Promise!PoolTwoWaits, Promise!Rounds, Pairs
<1> QED BY <1>2 DEF Promise!Judged

LEMMA PromiseMoves ==
  ASSUME PromiseInv, NEW c \in Challengers,
         Promise!Open(c) \/ Promise!Clear(c) \/ Promise!Fall(c) \/ Promise!Crown(c)
  PROVE  PromiseInv'
<1>1. UNCHANGED <<Underway, solutions, verdict>>
  BY DEF Promise!Open, Promise!Clear, Promise!Fall, Promise!Crown, Promise!Moves
<1>2. \A d \in Challengers, n \in {1, 2} : Promise!Judged(d, n) => Promise!Judged(d, n)'
  BY <1>1, JudgedStays
<1>3. PoolTwoWaits'
  BY <1>1, PoolTwoStillWaits DEF PromiseInv
<1>4. challenge \in [Challengers -> {Absent, Closed} \cup Active]
  BY DEF PromiseInv
<1>5. \/ challenge' = [challenge EXCEPT ![c] = 1]
      \/ challenge' = [challenge EXCEPT ![c] = 2] /\ Promise!Judged(c, 1)
      \/ challenge' = [challenge EXCEPT ![c] = 0]
  BY DEF Promise!Open, Promise!Clear, Promise!Fall, Promise!Crown, Promise!Moves, Promise!Closed
<1>6. challenge' \in [Challengers -> {Absent, Closed} \cup Active]
  BY <1>4, <1>5 DEF Active, Closed
<1>7. \A d \in Challengers : challenge'[d] = 2 => challenge[d] = 2 \/ (d = c /\ Promise!Judged(c, 1))
  BY <1>4, <1>5
<1>8. \A d \in Challengers : challenge'[d] = 2 => Promise!Judged(d, 1)'
  BY <1>2, <1>7 DEF PromiseInv
<1>9. king' = king \/ (king' = c /\ Promise!Judged(c, 1) /\ Promise!Judged(c, 2))
  BY DEF PromiseInv, Promise!Open, Promise!Clear, Promise!Fall, Promise!Crown
<1>10. king' # Founder => king' \in Challengers /\ Promise!Judged(king, 1)' /\ Promise!Judged(king, 2)'
  BY <1>1, <1>9 DEF PromiseInv, Promise!Judged
<1>11. \A p \in Pairs : verdict'[p] # "none" => SidesOfRounds[p] \subseteq solutions'
  BY <1>1 DEF PromiseInv
<1> QED BY <1>1, <1>3, <1>6, <1>8, <1>10, <1>11 DEF PromiseInv, SidesOfRounds

\* A step that leaves challenges, crown and verdicts alone.
LEMMA PromiseLeavesDuels ==
  ASSUME PromiseInv, UNCHANGED <<king, challenge, verdict>>, PoolTwoWaits', solutions \subseteq solutions'
  PROVE  PromiseInv'
<1>1. \A c, n : Promise!Judged(c, n)' <=> Promise!Judged(c, n)
  BY DEF Promise!Judged
<1>2. king' # Founder => king' \in Challengers /\ Promise!Judged(king, 1)' /\ Promise!Judged(king, 2)'
  BY <1>1 DEF PromiseInv
<1> QED BY <1>1, <1>2 DEF PromiseInv, SidesOfRounds

LEMMA PromiseTakeUp ==
  ASSUME PromiseInv, NEW S \in SUBSET Promise!Waiting, Promise!TakeUp(S)
  PROVE  PromiseInv'
<1>1. /\ S \subseteq UNION {SidesOfRounds[p] : p \in Promise!OpenRounds}
      /\ Underway' = Underway \cup S
      /\ UNCHANGED <<king, challenge, solutions, verdict>>
  BY DEF Promise!TakeUp, Promise!Waiting
<1>2. PoolTwoWaits'
  <2> SUFFICES ASSUME NEW p \in Pairs, PoolOf[p[1]] = 2,
                      SidesOfRounds[p] \cap (Underway' \cup solutions') # {} \/ verdict'[p] # "none"
               PROVE  Promise!Judged(p[2], 1)'
    BY DEF PoolTwoWaits, Promise!PoolTwoWaits, Promise!Rounds, Pairs, SidesOfRounds
  <2>1. CASE SidesOfRounds[p] \cap (Underway \cup solutions) # {} \/ verdict[p] # "none"
    <3>1. Promise!Judged(p[2], 1)
      BY <2>1 DEF PromiseInv, PoolTwoWaits, Promise!PoolTwoWaits, Promise!Rounds, Pairs
    <3> QED BY <1>1, <3>1 DEF Promise!Judged
  <2>2. CASE SidesOfRounds[p] \cap S # {}
    <3>1. PICK q \in Promise!OpenRounds : SidesOfRounds[p] \cap SidesOfRounds[q] # {}
      BY <1>1, <2>2
    <3>2. q \in Pairs /\ challenge[q[2]] = PoolOf[q[1]]
      BY <3>1 DEF Promise!OpenRounds, Promise!Rounds, Pairs
    <3>3. q = p
      BY <3>1, <3>2, SidesBelong
    <3>4. p[2] \in Challengers /\ challenge[p[2]] = 2
      BY <3>2, <3>3 DEF Pairs
    <3>5. Promise!Judged(p[2], 1)
      BY <3>4 DEF PromiseInv
    <3> QED BY <1>1, <3>5 DEF Promise!Judged
  <2> QED BY <1>1, <2>1, <2>2
<1> QED BY <1>1, <1>2, PromiseLeavesDuels

LEMMA PromiseJudge ==
  ASSUME PromiseInv, NEW p \in Pairs, NEW v \in Verdicts, Promise!Judge(p, v)
  PROVE  PromiseInv'
<1>1. /\ verdict[p] = "none" /\ SidesOfRounds[p] \subseteq solutions
      /\ verdict' = [verdict EXCEPT ![p] = v]
      /\ UNCHANGED <<king, challenge, Underway, solutions>>
  BY DEF Promise!Judge
<1>2. verdict \in [Pairs -> Verdicts \cup {"none"}] /\ v # "none"
  BY SolveRoundsAssumption DEF PromiseInv
<1>3. /\ verdict' \in [Pairs -> Verdicts \cup {"none"}]
      /\ \A q \in Pairs : verdict'[q] # "none" => verdict[q] # "none" \/ q = p
      /\ \A q \in Pairs : verdict[q] # "none" => verdict'[q] # "none"
  BY <1>1, <1>2
<1>4. \A c \in Challengers, n \in {1, 2} : Promise!Judged(c, n) => Promise!Judged(c, n)'
  BY <1>3, JudgedStays
<1>5. PoolTwoWaits'
  <2> SUFFICES ASSUME NEW q \in Pairs, PoolOf[q[1]] = 2,
                      SidesOfRounds[q] \cap (Underway' \cup solutions') # {} \/ verdict'[q] # "none"
               PROVE  Promise!Judged(q[2], 1)'
    BY DEF PoolTwoWaits, Promise!PoolTwoWaits, Promise!Rounds, Pairs, SidesOfRounds
  <2>1. SidesOfRounds[q] \cap (Underway \cup solutions) # {} \/ verdict[q] # "none"
    <3>1. SidesOfRounds[p] \cap (Underway \cup solutions) # {}
      BY <1>1, SidesBelong
    <3> QED BY <1>1, <1>3, <3>1
  <2>2. Promise!Judged(q[2], 1)
    BY <2>1 DEF PromiseInv, PoolTwoWaits, Promise!PoolTwoWaits, Promise!Rounds, Pairs
  <2>3. q[2] \in Challengers
    BY DEF Pairs
  <2> QED BY <1>4, <2>2, <2>3
<1>6. \A c \in Challengers : challenge'[c] = 2 => Promise!Judged(c, 1)'
  BY <1>1, <1>4 DEF PromiseInv
<1>7. king' # Founder => king' \in Challengers /\ Promise!Judged(king, 1)' /\ Promise!Judged(king, 2)'
  <2> SUFFICES ASSUME king # Founder PROVE Promise!Judged(king, 1)' /\ Promise!Judged(king, 2)' /\ king' \in Challengers
    BY <1>1
  <2>1. king \in Challengers /\ Promise!Judged(king, 1) /\ Promise!Judged(king, 2)
    BY DEF PromiseInv
  <2>2. king' = king
    BY <1>1
  <2> QED BY <1>4, <2>1, <2>2 DEF Promise!Judged
<1>8. \A q \in Pairs : verdict'[q] # "none" => SidesOfRounds[q] \subseteq solutions'
  BY <1>1, <1>3 DEF PromiseInv
<1> QED BY <1>1, <1>3, <1>5, <1>6, <1>7, <1>8 DEF PromiseInv, SidesOfRounds

LEMMA PromiseStep == PromiseInv /\ [Promise!Next]_(Promise!vars) => PromiseInv'
<1> SUFFICES ASSUME PromiseInv, [Promise!Next]_(Promise!vars) PROVE PromiseInv'
  OBVIOUS
<1>1. CASE \E t \in Tasks : Promise!Qualify(t)
  <2>1. UNCHANGED <<king, challenge, Underway, solutions, verdict>>
    BY <1>1 DEF Promise!Qualify
  <2> QED BY <2>1, PoolTwoStillWaits, PromiseLeavesDuels DEF PromiseInv
<1>2. CASE \E c \in Challengers : \/ Promise!Open(c) \/ Promise!Clear(c)
                                  \/ Promise!Fall(c) \/ Promise!Crown(c)
  BY <1>2, PromiseMoves
<1>3. CASE \E S \in SUBSET Promise!Waiting : Promise!TakeUp(S)
  BY <1>3, PromiseTakeUp
<1>4. CASE \/ \E S \in SUBSET Underway : Promise!Drop(S)
           \/ \E s \in Underway : Promise!Save(s)
  <2>1. /\ UNCHANGED <<king, challenge, verdict>> /\ solutions \subseteq solutions'
        /\ Underway' \cup solutions' \subseteq Underway \cup solutions
    <3>1. CASE \E S \in SUBSET Underway : Promise!Drop(S)
      BY <3>1 DEF Promise!Drop
    <3>2. CASE \E s \in Underway : Promise!Save(s)
      BY <3>2 DEF Promise!Save
    <3> QED BY <1>4, <3>1, <3>2
  <2> QED BY <2>1, PoolTwoStillWaits, PromiseLeavesDuels DEF PromiseInv
<1>5. CASE \E p \in Promise!Rounds, v \in Verdicts : Promise!Judge(p, v)
  BY <1>5, PromiseJudge DEF Promise!Rounds, Pairs
<1>6. CASE UNCHANGED Promise!vars
  <2>1. UNCHANGED <<king, challenge, Underway, solutions, verdict>>
    BY <1>6 DEF Promise!vars
  <2> QED BY <2>1, PoolTwoStillWaits, PromiseLeavesDuels DEF PromiseInv
<1> QED BY <1>1, <1>2, <1>3, <1>4, <1>5, <1>6 DEF Promise!Next

LEMMA PromiseSafe == PromiseInv => PoolTwoWaits /\ CrownRestsOnRounds
<1> SUFFICES ASSUME PromiseInv, king # Founder, NEW n \in {1, 2}
             PROVE  \E t \in Tasks : /\ PoolOf[t] = n /\ verdict[<<t, king>>] # "none"
                                     /\ SidesOfRounds[<<t, king>>] \subseteq solutions
  BY DEF PromiseInv, CrownRestsOnRounds, Promise!CrownRestsOnRounds
<1>1. king \in Challengers /\ Promise!Judged(king, n)
  BY DEF PromiseInv
<1>2. PICK t \in Tasks : PoolOf[t] = n /\ verdict[<<t, king>>] # "none"
  BY <1>1 DEF Promise!Judged
<1>3. <<t, king>> \in Pairs
  BY <1>1 DEF Pairs
<1> QED BY <1>2, <1>3 DEF PromiseInv

-----------------------------------------------------------------------------
(* Solver and judge keep the promise *)

LEMMA RefinedInit == Init => Promise!Init
<1> SUFFICES ASSUME Init PROVE Promise!Init
  OBVIOUS
<1>1. king = Founder /\ challenge = [c \in Challengers |-> -1]
  BY DEF Init, Absent
<1>2. Qualified \in SUBSET Tasks
  BY DEF Qualified
<1>3. Underway = {}
  BY IdleHoldsNothing DEF Init, Underway
<1>4. solutions = {} /\ verdict = [p \in Promise!Rounds |-> "none"]
  BY DEF Init, Promise!Rounds, Pairs
<1> QED BY <1>1, <1>2, <1>3, <1>4 DEF Promise!Init, Promise!Absent

\* The writers of the tables that are neither solver nor judge.
LEMMA RefinedScreened ==
  ASSUME IInv, NEW t \in Tasks, Screened(t)
  PROVE  Promise!Qualify(t) \/ UNCHANGED Promise!vars
<1>1. UNCHANGED <<king, challenge, solutions, verdict, running, poll>>
  BY DEF Screened, scheduler
<1>2. Underway' = Underway
  BY <1>1 DEF Underway
<1>3. status \in [Tasks -> {"candidate", "pending_screen", "qualified", "disqualified"}]
  BY DEF IInv, Typed
<1>4. PICK s \in {"qualified", "disqualified"} : status' = [status EXCEPT ![t] = s] /\ status[t] = "pending_screen"
  BY DEF Screened
<1>5. CASE s = "qualified"
  <2>1. Qualified' = Qualified \cup {t}
    BY <1>3, <1>4, <1>5 DEF Qualified
  <2> QED BY <1>1, <1>2, <2>1 DEF Promise!Qualify
<1>6. CASE s = "disqualified"
  <2>1. Qualified' = Qualified
    BY <1>3, <1>4, <1>6 DEF Qualified
  <2> QED BY <1>1, <1>2, <2>1 DEF Promise!vars
<1> QED BY <1>4, <1>5, <1>6

LEMMA RefinedResolverMoves ==
  ASSUME IInv, NEW c \in Challengers, ResolverMoves(c)
  PROVE  Promise!Open(c) \/ Promise!Clear(c) \/ Promise!Fall(c) \/ Promise!Crown(c)
<1>1. UNCHANGED <<status, solutions, verdict, running, poll>>
  BY DEF ResolverMoves, scheduler
<1>2. UNCHANGED <<Qualified, Underway, solutions, verdict>>
  BY <1>1 DEF Qualified, Underway
<1>3. ASSUME NEW n \in {1, 2}, challenge[c] = n, \E t \in Tasks : InPool(c, t) /\ verdict[<<t, c>>] # "none"
      PROVE  Promise!Judged(c, n)
  BY <1>3 DEF InPool, Promise!Judged
<1>4. CASE /\ challenge[c] = Absent /\ king = Founder
           /\ \A d \in Challengers : challenge[d] \notin Active
           /\ challenge' = [challenge EXCEPT ![c] = 1] /\ king' = king
  BY <1>2, <1>4 DEF Promise!Open, Promise!Moves, Promise!Absent, Promise!Active, Absent, Active
<1>5. CASE /\ challenge[c] = 1
           /\ \E t \in Tasks : InPool(c, t) /\ verdict[<<t, c>>] # "none"
           /\ challenge' = [challenge EXCEPT ![c] = 2] /\ king' = king
  BY <1>2, <1>3, <1>5 DEF Promise!Clear, Promise!Moves
<1>6. CASE /\ challenge[c] \in Active
           /\ challenge' = [challenge EXCEPT ![c] = Closed] /\ king' = king
  BY <1>2, <1>6 DEF Promise!Fall, Promise!Moves, Promise!Active, Promise!Closed, Active, Closed
<1>7. CASE /\ challenge[c] = 2
           /\ \E t \in Tasks : InPool(c, t) /\ verdict[<<t, c>>] # "none"
           /\ challenge' = [challenge EXCEPT ![c] = Closed] /\ king' = c
  BY <1>2, <1>3, <1>7 DEF Promise!Crown, Promise!Moves, Promise!Closed, Closed
<1> QED BY <1>4, <1>5, <1>6, <1>7 DEF ResolverMoves

\* The jobs that a poll gathers are taken up.
LEMMA RefinedPollDuels ==
  ASSUME IInv, PollDuels
  PROVE  \E S \in SUBSET Promise!Waiting : Promise!TakeUp(S)
<1>1. PICK free \in Nat : free = FreeSlots
  <2>1. Cardinality(running) \in Nat
    BY RunningIsFinite DEF IInv, Typed
  <2> QED BY <2>1, Parameters DEF PollDuels, FreeSlots
<1>2. PICK S : S = Range(GatherDuels(free))
  OBVIOUS
<1>3. /\ GatherDuels(free) \in Seq(DuelJobs) /\ S \subseteq JobsOf(OpenRounds)
      /\ \A j \in S : j \notin solutions /\ j \notin Excluded
  BY <1>1, <1>2, GatherDuelsAre DEF IInv, Typed
<1>4. S \subseteq DuelJobs
  BY <1>2, <1>3, RangeOfSequence
<1>5. Range(poll.jobs) = {}
  BY IdleHoldsNothing DEF PollDuels
<1>6. Range(poll'.jobs) = S /\ running' = running /\ UNCHANGED <<king, challenge, status, solutions, verdict>>
  BY <1>1, <1>2 DEF PollDuels, database
<1>7. Underway' = Underway \cup S /\ UNCHANGED <<king, challenge, Qualified, solutions, verdict>>
  BY <1>4, <1>5, <1>6 DEF Underway, Qualified
<1>8. S \cap (Underway \cup solutions) = {}
  BY <1>3, <1>5 DEF Underway, Excluded
<1>9. S \subseteq UNION {SidesOfRounds[p] : p \in Promise!OpenRounds}
  <2> SUFFICES ASSUME NEW j \in S PROVE \E p \in Promise!OpenRounds : j \in SidesOfRounds[p]
    OBVIOUS
  <2>1. PICK p \in OpenRounds : j \in MissingSides(p)
    BY <1>3 DEF JobsOf
  <2>2. p \in Pairs /\ status[p[1]] = "qualified" /\ challenge[p[2]] = PoolOf[p[1]]
    BY DEF OpenRounds, InPool
  <2>3. p \in Promise!OpenRounds
    BY <2>2 DEF Promise!OpenRounds, Promise!Rounds, Qualified, Pairs
  <2>4. j \in SidesOfRounds[p]
    BY <2>1, <2>2 DEF MissingSides, SidesOfRounds
  <2> QED BY <2>3, <2>4
<1>10. S \in SUBSET Promise!Waiting
  BY <1>8, <1>9 DEF Promise!Waiting
<1> QED BY <1>7, <1>10 DEF Promise!TakeUp

\* The launch, and the ends of a poll and of the process.
LEMMA RefinedScheduler ==
  ASSUME IInv, PollQualifications \/ PollFails \/ SolverRestarts
  PROVE  (\E S \in SUBSET Underway : Promise!Drop(S)) \/ UNCHANGED Promise!vars
<1>1. UNCHANGED <<king, challenge, Qualified, solutions, verdict>>
  BY DEF PollQualifications, PollFails, SolverRestarts, database, Qualified
<1>2. poll' = Idle /\ Range(poll'.jobs) = {}
  BY IdleHoldsNothing DEF PollQualifications, PollFails, SolverRestarts
<1>3. Underway' = running' \cap DuelJobs
  BY <1>2 DEF Underway
<1>4. CASE PollQualifications
  <2>1. Underway' = Underway
    BY <1>3, <1>4, LaunchIs DEF Underway
  <2> QED BY <1>1, <2>1 DEF Promise!vars
<1>5. CASE PollFails
  <2>1. PICK S : S = Range(poll.jobs) \cap DuelJobs
    OBVIOUS
  <2>2. S \cap running = {} /\ running' = running
    BY <1>5, <2>1 DEF IInv, PollInv, PollFails
  <2>3. S \in SUBSET Underway /\ Underway' = Underway \ S
    BY <1>3, <2>1, <2>2 DEF Underway
  <2> QED BY <1>1, <2>3 DEF Promise!Drop
<1>6. CASE SolverRestarts
  <2>1. Underway' = Underway \ Underway /\ Underway \in SUBSET Underway
    BY <1>3, <1>6 DEF SolverRestarts
  <2> QED BY <1>1, <2>1 DEF Promise!Drop
<1> QED BY <1>4, <1>5, <1>6

\* A thread that ends; no poll holds its job.
LEMMA RefinedSolve ==
  ASSUME IInv, NEW j \in JobKeys, Solve(j)
  PROVE  \/ \E S \in SUBSET Underway : Promise!Drop(S)
         \/ \E s \in Underway : Promise!Save(s)
         \/ UNCHANGED Promise!vars
<1>1. j \in running /\ running' = running \ {j} /\ UNCHANGED <<king, challenge, verdict, poll>>
  BY DEF Solve, DuelSolveSaved, QualificationSaved, SolveDropped, Ends, database
<1>2. j \notin Range(poll.jobs)
  BY <1>1 DEF IInv, PollInv
<1>3. Underway' = Underway \ {j}
  BY <1>1, <1>2 DEF Underway
<1>4. CASE DuelSolveSaved(j)
  <2>1. j \in DuelJobs
    BY <1>4 DEF DuelSolveSaved, JobKeys, QualificationJob
  <2>2. j \in Underway
    BY <1>1, <2>1 DEF Underway
  <2>3. solutions' = solutions \cup {j} /\ Qualified' = Qualified
    BY <1>4 DEF DuelSolveSaved, Qualified
  <2> QED BY <1>1, <1>3, <2>2, <2>3 DEF Promise!Save
<1>5. CASE QualificationSaved(j)
  <2>1. solutions' = solutions /\ j \notin DuelJobs
    BY <1>5, KeysDiffer DEF QualificationSaved
  <2>2. Underway' = Underway
    BY <1>3, <2>1 DEF Underway
  <2>3. Qualified' = Qualified
    <3>1. status \in [Tasks -> {"candidate", "pending_screen", "qualified", "disqualified"}]
      BY DEF IInv, Typed
    <3>2. PICK v \in {"pending_screen", "disqualified"} :
            status' = IF king = j[3] /\ status[j[2]] = "candidate"
                      THEN [status EXCEPT ![j[2]] = v] ELSE status
      BY <1>5 DEF QualificationSaved
    <3>3. \A t \in Tasks : status'[t] = "qualified" <=> status[t] = "qualified"
      BY <3>1, <3>2
    <3> QED BY <3>3 DEF Qualified
  <2> QED BY <1>1, <2>1, <2>2, <2>3 DEF Promise!vars
<1>6. CASE SolveDropped(j)
  <2>1. UNCHANGED <<solutions, Qualified>>
    BY <1>6 DEF SolveDropped, database, Qualified
  <2>2. Underway' = Underway \ ({j} \cap Underway) /\ {j} \cap Underway \in SUBSET Underway
    BY <1>3
  <2> QED BY <1>1, <2>1, <2>2 DEF Promise!Drop
<1> QED BY <1>4, <1>5, <1>6 DEF Solve

\* The first verdict of a pair counts; a second one shows as nothing.
LEMMA RefinedJudgment ==
  ASSUME IInv, NEW p \in Pairs, Judgment(p)
  PROVE  (\E v \in Verdicts : Promise!Judge(p, v)) \/ UNCHANGED Promise!vars
<1>1. /\ judging[p] # "no"
      /\ verdict' = verdict \/ \E v \in Verdicts : Saved(p, v)
      /\ UNCHANGED <<king, challenge, status, solutions, running, poll>>
  BY JudgmentIs DEF scheduler
<1>2. UNCHANGED <<king, challenge, Qualified, Underway, solutions>>
  BY <1>1 DEF Qualified, Underway
<1>3. SidesOfRounds[p] \subseteq solutions
  <2>1. PairSolved(p[1], p[2])
    BY <1>1 DEF IInv, PairsInv
  <2> QED BY <2>1 DEF SidesOfRounds, Sides, PairSolved, Solved
<1>4. verdict \in [Pairs -> Verdicts \cup {"none"}]
  BY DEF IInv, Typed
<1>5. CASE verdict' = verdict
  BY <1>2, <1>5 DEF Promise!vars
<1>6. ASSUME NEW v \in Verdicts, Saved(p, v)
      PROVE  Promise!Judge(p, v) \/ verdict' = verdict
  <2>1. CASE verdict[p] = "none"
    <3>1. verdict' = [verdict EXCEPT ![p] = v]
      BY <1>4, <1>6, <2>1 DEF Saved
    <3> QED BY <1>2, <1>3, <2>1, <3>1 DEF Promise!Judge
  <2>2. CASE verdict[p] # "none"
    BY <1>4, <1>6, <2>2 DEF Saved
  <2> QED BY <2>1, <2>2
<1> QED BY <1>1, <1>5, <1>6

LEMMA StepRefined == IInv /\ [Next]_vars => [Promise!Next]_(Promise!vars)
<1> SUFFICES ASSUME IInv, [Next]_vars PROVE Promise!Next \/ UNCHANGED Promise!vars
  OBVIOUS
<1>1. CASE \E t \in Tasks : Screened(t)
  BY <1>1, RefinedScreened DEF Promise!Next
<1>2. CASE \E c \in Challengers : ResolverMoves(c)
  BY <1>2, RefinedResolverMoves DEF Promise!Next
<1>3. CASE PollDuels
  BY <1>3, RefinedPollDuels DEF Promise!Next
<1>4. CASE PollQualifications \/ PollFails \/ SolverRestarts
  BY <1>4, RefinedScheduler DEF Promise!Next
<1>5. CASE \E j \in JobKeys : Solve(j)
  BY <1>5, RefinedSolve DEF Promise!Next
<1>6. CASE \E p \in Pairs : Judgment(p)
  <2>1. PICK p \in Pairs : Judgment(p)
    BY <1>6
  <2>2. p \in Promise!Rounds
    BY DEF Promise!Rounds, Pairs
  <2> QED BY <2>1, <2>2, RefinedJudgment DEF Promise!Next
<1>7. CASE \/ \E j \in JobKeys : Cooled(j)
           \/ ReadPending \/ Reconcile \/ JudgeRestarts \/ UNCHANGED vars
  <2>1. UNCHANGED <<king, challenge, status, solutions, verdict, running, poll>>
    BY <1>7 DEF Cooled, ReadPending, Reconcile, JudgeRestarts, vars, database, scheduler
  <2> QED BY <2>1 DEF Promise!vars, Qualified, Underway
<1> QED BY <1>1, <1>2, <1>3, <1>4, <1>5, <1>6, <1>7 DEF Next

\* Solver and judge implement DuelRounds for any number of tasks, challengers, slots
\* and judgments: whatever polls, threads, restarts and cancellations do in between,
\* the resolver sees solves taken up once at a time while their round is open and one
\* verdict after both (run, _pending_work, _reconcile, save_judgment).
THEOREM RoundsImplementPromise == Spec => RoundsSpec
<1> QED BY RefinedInit, InvInit, InvStep, StepRefined, PTL DEF Spec, RoundsSpec, Promise!Spec

\* Whatever keeps the promise works on pool two only after a verdict in pool one, and
\* crowns only who has a verdict in each pool (promote, next_duel_jobs).
THEOREM PromiseIsSafe == RoundsSpec => [](PoolTwoWaits /\ CrownRestsOnRounds)
<1> QED BY PromiseInit, PromiseStep, PromiseSafe, PTL DEF RoundsSpec, Promise!Spec

\* So does the code.  With the limits and the pairs, in every state, for any number of
\* tasks, challengers, slots and judgments: no more sandboxes than MAX_CONTAINERS, no
\* more judgments than the concurrency, verdicts that rest on both solves, nothing of
\* pool two before a verdict in pool one, and no crown without a verdict in each pool
\* (_pending_work, _reconcile, pending_judge_requests, promote).
THEOREM RoundsAreSound == Spec => []RoundsInvariant
<1>1. Spec => [](TypeOK /\ SlotsRespected /\ JudgeWithinConcurrency /\ VerdictsRestOnPairs)
  BY LimitsHold, InvInit, InvStep, PTL DEF Spec
<1>2. Spec => [](PoolTwoWaits /\ CrownRestsOnRounds)
  BY RoundsImplementPromise, PromiseIsSafe, PTL
<1>3. (/\ TypeOK /\ SlotsRespected /\ JudgeWithinConcurrency /\ VerdictsRestOnPairs
       /\ PoolTwoWaits /\ CrownRestsOnRounds) => RoundsInvariant
  BY DEF RoundsInvariant
<1> QED BY <1>1, <1>2, <1>3, PTL
=============================================================================
