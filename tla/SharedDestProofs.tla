--------------------------- MODULE SharedDestProofs ---------------------------
(***************************************************************************)
(* The shared-destination advisory, for any number of jobs and any          *)
(* spellings: overlapComponents computes the connected components, and the  *)
(* records say whose files are lost.                                        *)
(***************************************************************************)
EXTENDS SharedDest, SequenceTheorems, FiniteSetTheorems, WellFoundedInduction, TLAPS

TypeOK ==
    /\ jobs \in Documents /\ jobs \in [Jobs -> Job]
    /\ pc \in {"group", "seed", "sweep", "warn", "mirror", "done"}
    /\ taken \in SUBSET Jobs /\ component \in SUBSET Jobs
    /\ k \in 1..(NJobs + 1) /\ grew \in BOOLEAN

\* Same host and overlapping trees.
Meet(a, b) == KeyOf(a) = KeyOf(b) /\ Overlaps(a, b)

\* Every job taken is in exactly one component, finished or growing.
TakenInv ==
    /\ pc # "sweep" => taken = UNION components
    /\ pc = "sweep" => /\ taken = component \cup UNION components
                       /\ \A C \in components : C \cap component = {}
    /\ pc \in {"mirror", "done"} => taken = Jobs

\* The growing component hangs together on one host, and the jobs a sweep that
\* added nothing has passed do not touch it.
SweepInv ==
    pc = "sweep" =>
        /\ component \subseteq Group(group) /\ Connected(component)
        /\ ~grew => \A j \in Group(group) \ taken :
                        j < k => ~overlapsAny(component, j)

\* Finished components are components.
DoneInv ==
    /\ \A C \in components : Connected(C) /\ Closed(C)
    /\ \A C, D \in components : C # D => C \cap D = {}

GrowInv == TypeOK /\ TakenInv /\ SweepInv /\ DoneInv

\* Every set of numbers has a least one, by the order on Nat being well founded.
LEMMA LeastNumber ==
    ASSUME NEW T \in SUBSET Nat, T # {}
    PROVE  \E m \in T : \A n \in T : m <= n
<1> DEFINE R == OpToRel(<, Nat)
<1>1. \E m \in T : \A n \in T : ~(<<n, m>> \in R)
  BY NatLessThanWellFounded, WFMin
<1>2. \A m, n \in Nat : m < n => <<m, n>> \in R
  BY DEF OpToRel
<1> HIDE DEF R
<1>3. PICK m \in T : \A n \in T : ~(<<n, m>> \in R)
  BY <1>1
<1>4. \A n \in T : ~(n < m)
  BY <1>2, <1>3
<1> QED
  BY <1>3, <1>4

\* Two trees touch each other or neither touches the other.
LEMMA MeetSymmetric == \A a, b : Meet(a, b) <=> Meet(b, a)
  BY DEF Meet, Overlaps

\* A single job hangs together.
LEMMA ConnectedSingle == \A i : Connected({i})
  BY DEF Connected

\* So does a component after a job that overlaps one of its members joined it.
LEMMA ConnectedGrows ==
    ASSUME NEW C, Connected(C), NEW j, NEW m \in C, Meet(m, j)
    PROVE  Connected(C \cup {j})
<1> DEFINE D == C \cup {j}
<1> SUFFICES ASSUME NEW S \in SUBSET D, S # {}, S # D
             PROVE  \E a \in S, b \in D \ S : Meet(a, b)
  BY DEF Connected, Meet
<1>a. \A T \in SUBSET C : T # {} /\ T # C => \E a \in T, b \in C \ T : Meet(a, b)
  BY DEF Connected, Meet
<1>b. Meet(j, m)
  BY MeetSymmetric
<1>1. CASE S \cap C = {}
  <2>1. j \in S /\ m \in D \ S
    BY <1>1
  <2> QED
    BY <1>b, <2>1
<1>2. CASE S \cap C # {} /\ S \cap C # C
  <2>1. PICK a \in S \cap C, b \in C \ (S \cap C) : Meet(a, b)
    BY <1>2, <1>a
  <2> QED
    BY <2>1
<1>3. CASE S \cap C = C
  <2>1. m \in S /\ j \in D \ S
    BY <1>3
  <2> QED
    BY <2>1
<1> QED
  BY <1>1, <1>2, <1>3

\* Connected and Closed are about the document, which no step changes.
LEMMA SameDocument ==
    ASSUME UNCHANGED jobs
    PROVE  /\ \A C : Connected(C)' <=> Connected(C)
           /\ \A C : Closed(C)' <=> Closed(C)
           /\ \A a, b : Meet(a, b)' <=> Meet(a, b)
           /\ \A M, j : overlapsAny(M, j)' <=> overlapsAny(M, j)
           /\ \A j : KeyOf(j)' = KeyOf(j)
           /\ \A g : Group(g)' = Group(g)
  BY DEF Connected, Closed, Meet, overlapsAny, Overlaps, KeyOf, Group

\* A sweep that added nothing leaves a component that nothing outside touches:
\* no job on its host that is free, and none an earlier component took.
LEMMA SweepCloses ==
    ASSUME GrowInv, pc = "sweep", k > NJobs, ~grew
    PROVE  Closed(component)
<1>a. NJobs \in Nat \ {0} /\ k \in 1..(NJobs + 1)
  BY DocumentAssumption DEF GrowInv, TypeOK
<1> SUFFICES ASSUME NEW a \in component, NEW b \in Jobs \ component, Meet(a, b)
             PROVE  FALSE
  BY DEF Closed, Meet
<1>1. a \in Group(group) /\ b \in Group(group)
  BY DEF GrowInv, SweepInv, Group, Meet
<1>2. CASE b \in taken
  <2>1. PICK D \in components : b \in D
    BY <1>2 DEF GrowInv, TakenInv
  <2>2. Closed(D) /\ a \notin D /\ a \in Jobs
    BY <2>1 DEF GrowInv, TakenInv, DoneInv, TypeOK
  <2> QED
    BY <2>1, <2>2, MeetSymmetric DEF Closed, Meet
<1>3. CASE b \notin taken
  <2>1. b < k
    BY <1>a DEF Jobs
  <2>2. ~overlapsAny(component, b)
    BY <1>1, <1>3, <2>1 DEF GrowInv, SweepInv
  <2> QED
    BY <2>2 DEF overlapsAny, Meet
<1> QED
  BY <1>2, <1>3

\* overlapComponents' loops keep the invariant.
LEMMA GrowStep == GrowInv /\ [Next]_vars => GrowInv'
<1> SUFFICES ASSUME GrowInv, [Next]_vars PROVE GrowInv'
  OBVIOUS
<1>a. TypeOK /\ TakenInv /\ SweepInv /\ DoneInv
  BY DEF GrowInv
<1>b. UNCHANGED jobs
  BY DEF Next, NextGroup, Seed, Absorb, SweepEnds, warnConflictingTree, Mirror, Done,
     Stop, vars
<1>c. NJobs \in Nat \ {0}
  BY DocumentAssumption
<1>d. 1 \in 1..(NJobs + 1)
  BY <1>c
<1>e. UNCHANGED components => DoneInv'
  BY <1>a, <1>b, SameDocument DEF DoneInv
\* Steps outside the sweep that take no job.
<1>f. ASSUME UNCHANGED <<taken, component, k, grew, components>>,
             pc # "sweep", pc' # "sweep",
             pc' \in {"group", "seed", "warn", "mirror", "done"},
             pc' \in {"mirror", "done"} => taken = Jobs
      PROVE  GrowInv'
  BY <1>a, <1>b, <1>e, <1>f DEF GrowInv, TypeOK, TakenInv, SweepInv
<1>1. CASE NextGroup
  BY <1>1, <1>f DEF NextGroup, loopVars
<1>2. CASE Seed
  <2>1. CASE Group(group) \ taken = {}
    BY <1>2, <1>f, <2>1 DEF Seed, loopVars
  <2>2. CASE Group(group) \ taken # {}
    <3>1. PICK i : /\ i = CHOOSE m \in Group(group) \ taken :
                             \A j \in Group(group) \ taken : m <= j
                   /\ component' = {i} /\ taken' = taken \cup {i}
                   /\ pc' = "sweep" /\ k' = 1 /\ grew' = FALSE
                   /\ pc = "seed" /\ UNCHANGED <<group, components>>
      BY <1>2, <2>2 DEF Seed
    <3>2. i \in Group(group) \ taken
      <4>1. \E m \in Group(group) \ taken : \A j \in Group(group) \ taken : m <= j
        <5>1. Group(group) \ taken \in SUBSET Nat
          BY <1>c DEF Group, Jobs
        <5> QED
          BY <2>2, <5>1, LeastNumber
      <4> QED
        BY <3>1, <4>1
    <3>3. i \in Jobs /\ i \in Group(group) /\ i \notin taken
      BY <3>2 DEF Group
    <3>4. TypeOK'
      <4>1. k' \in 1..(NJobs + 1) /\ grew' \in BOOLEAN
        BY <1>d, <3>1
      <4> QED
        BY <1>a, <1>b, <3>1, <3>3, <4>1 DEF TypeOK
    <3>5. TakenInv'
      BY <1>a, <3>1, <3>3 DEF TakenInv
    <3>6. SweepInv'
      <4>1. Connected({i})' /\ Group(group)' = Group(group)
        BY <1>b, <3>1, ConnectedSingle, SameDocument
      <4>2. \A j \in Group(group) : ~(j < 1)
        BY <1>c DEF Group, Jobs
      <4> QED
        BY <3>1, <3>3, <4>1, <4>2 DEF SweepInv
    <3> QED
      BY <1>e, <3>1, <3>4, <3>5, <3>6 DEF GrowInv
  <2> QED
    BY <2>1, <2>2
<1>3. CASE Absorb
  <2>1. /\ pc = "sweep" /\ pc' = pc /\ k \in Jobs /\ k' = k + 1
        /\ UNCHANGED <<group, components>> /\ k' \in 1..(NJobs + 1)
    BY <1>3, <1>a, <1>c DEF Absorb, TypeOK, Jobs
  <2>g. Group(group)' = Group(group)
    BY <1>b, <2>1, SameDocument
  <2>2. CASE Joins(k)
    <3>1. /\ component' = component \cup {k} /\ taken' = taken \cup {k}
          /\ grew' = TRUE
      BY <1>3, <2>2 DEF Absorb
    <3>2. PICK m \in component : Overlaps(m, k)
      BY <2>2 DEF Joins, overlapsAny
    <3>3. k \in Group(group) /\ k \notin taken /\ component \subseteq Group(group)
      BY <1>a, <2>1, <2>2 DEF Joins, SweepInv
    <3>4. Meet(m, k)
      BY <3>2, <3>3 DEF Meet, Group
    <3>5. Connected(component \cup {k})
      BY <1>a, <2>1, <3>4, ConnectedGrows DEF SweepInv
    <3>6. Connected(component)'
      <4>1. PICK D : D = component \cup {k}
        OBVIOUS
      <4>2. Connected(D)' /\ component' = D
        BY <1>b, <3>1, <3>5, <4>1, SameDocument
      <4> QED
        BY <4>2 DEF Connected, KeyOf, Overlaps
    <3>7. TypeOK'
      BY <1>a, <1>b, <2>1, <3>1 DEF TypeOK
    <3>8. TakenInv'
      BY <1>a, <2>1, <3>1, <3>3 DEF TakenInv
    <3>9. SweepInv'
      BY <2>1, <2>g, <3>1, <3>3, <3>6 DEF SweepInv
    <3> QED
      BY <1>e, <2>1, <3>7, <3>8, <3>9 DEF GrowInv
  <2>3. CASE ~Joins(k)
    <3>1. UNCHANGED <<component, taken, grew>>
      BY <1>3, <2>3 DEF Absorb
    <3>2. TypeOK' /\ TakenInv'
      BY <1>a, <1>b, <2>1, <3>1 DEF TypeOK, TakenInv
    <3>3. Connected(component)'
      BY <1>a, <1>b, <2>1, <3>1 DEF SweepInv, Connected, KeyOf, Overlaps
    <3>4. ASSUME ~grew, NEW j \in Group(group) \ taken, j < k + 1
          PROVE  ~overlapsAny(component, j)
      <4>1. j < k \/ j = k
        BY <1>c, <2>1, <3>4 DEF Group, Jobs
      <4> QED
        BY <1>a, <2>1, <2>3, <3>4, <4>1 DEF SweepInv, Joins
    <3>5. ASSUME ~grew', NEW j \in Group(group)' \ taken', j < k'
          PROVE  ~overlapsAny(component, j)'
      <4>1. ~overlapsAny(component, j)
        BY <2>1, <2>g, <3>1, <3>4, <3>5
      <4> QED
        BY <1>b, <3>1, <4>1 DEF overlapsAny, Overlaps
    <3>6. SweepInv'
      BY <1>a, <2>1, <2>g, <3>1, <3>3, <3>5 DEF SweepInv
    <3> QED
      BY <1>e, <2>1, <3>2, <3>6 DEF GrowInv
  <2> QED
    BY <2>2, <2>3
<1>4. CASE SweepEnds
  <2>1. pc = "sweep" /\ k > NJobs /\ UNCHANGED <<group, taken, component>>
    BY <1>4 DEF SweepEnds
  <2>2. CASE grew
    <3>1. k' = 1 /\ grew' = FALSE /\ UNCHANGED <<pc, components>>
      BY <1>4, <2>2 DEF SweepEnds, SweepAgain
    <3>2. TypeOK' /\ TakenInv'
      <4>1. k' \in 1..(NJobs + 1) /\ grew' \in BOOLEAN
        BY <1>d, <3>1
      <4> QED
        BY <1>a, <1>b, <2>1, <3>1, <4>1 DEF TypeOK, TakenInv
    <3>3. Connected(component)' /\ Group(group)' = Group(group)
      BY <1>a, <1>b, <2>1 DEF SweepInv, Connected, KeyOf, Overlaps, Group
    <3>4. \A j \in Group(group) : ~(j < 1)
      BY <1>c DEF Group, Jobs
    <3>5. SweepInv'
      BY <1>a, <2>1, <3>1, <3>3, <3>4 DEF SweepInv
    <3> QED
      BY <1>e, <3>1, <3>2, <3>5 DEF GrowInv
  <2>3. CASE ~grew
    <3>1. /\ pc' = "warn" /\ components' = components \cup {component}
          /\ UNCHANGED <<k, grew>>
      BY <1>4, <2>3 DEF SweepEnds, SweepAgain
    <3>2. Closed(component) /\ Connected(component)
      BY <1>a, <2>1, <2>3, SweepCloses DEF SweepInv
    <3>3. \A C \in components' : Connected(C) /\ Closed(C)
      BY <1>a, <3>1, <3>2 DEF DoneInv
    <3>4. \A C, D \in components' : C # D => C \cap D = {}
      BY <1>a, <2>1, <3>1 DEF DoneInv, TakenInv
    <3>5. DoneInv'
      BY <1>b, <3>3, <3>4, SameDocument DEF DoneInv
    <3>6. TypeOK' /\ SweepInv'
      BY <1>a, <1>b, <2>1, <3>1 DEF TypeOK, SweepInv
    <3>7. TakenInv'
      BY <1>a, <2>1, <3>1 DEF TakenInv
    <3> QED
      BY <3>5, <3>6, <3>7 DEF GrowInv
  <2> QED
    BY <2>2, <2>3
<1>5. CASE warnConflictingTree
  BY <1>5, <1>f DEF warnConflictingTree, loopVars
<1>6. CASE Mirror \/ Done
  BY <1>6, <1>a, <1>f DEF Mirror, Done, loopVars, TakenInv
<1>7. CASE UNCHANGED vars
  <2>1. UNCHANGED <<jobs, pc, group, taken, component, k, grew, components>>
    BY <1>7 DEF vars, loopVars
  <2>2. TypeOK' /\ TakenInv'
    BY <1>a, <2>1 DEF TypeOK, TakenInv
  <2>3. SweepInv'
    BY <1>a, <2>1 DEF SweepInv, Connected, overlapsAny, Overlaps, KeyOf, Group
  <2> QED
    BY <1>e, <2>1, <2>2, <2>3 DEF GrowInv
<1> QED
  BY <1>1, <1>2, <1>3, <1>4, <1>5, <1>6, <1>7 DEF Next, Stop

\* GrowInv is inductive.
LEMMA GrowInvariance == Spec => []GrowInv
<1>1. Init => GrowInv
  <2> SUFFICES ASSUME Init PROVE GrowInv
    OBVIOUS
  <2>1. NJobs \in Nat \ {0}
    BY DocumentAssumption
  <2>2. 1 \in 1..(NJobs + 1)
    BY <2>1
  <2>3. jobs \in Documents /\ jobs \in [Jobs -> Job]
    BY DocumentAssumption DEF Init
  <2> QED
    BY <2>2, <2>3 DEF Init, GrowInv, TypeOK, TakenInv, SweepInv, DoneInv
<1> QED
  BY <1>1, GrowStep, PTL DEF Spec

\* overlapComponents returns the connected components of the jobs' trees on each
\* host, whatever the order of the jobs: its repeated sweep misses no chain.
THEOREM ComponentsProved == Spec => []ComponentsExact
<1>1. GrowInv => ComponentsExact
  BY DEF GrowInv, DoneInv, TakenInv, ComponentsExact
<1> QED
  BY <1>1, GrowInvariance, PTL

-------------------------------------------------------------------------------
\* Hosts and directories.

\* A tree contains a directory if its path is a prefix of it.
LEMMA PrefixElements ==
    ASSUME NEW S, NEW p \in Seq(S), NEW q \in Seq(S)
    PROVE  IsPrefix(p, q) <=> /\ Len(p) <= Len(q)
                              /\ \A n \in 1..Len(p) : p[n] = q[n]
<1>a. Len(p) \in Nat /\ Len(q) \in Nat
  BY LenProperties
<1> SUFFICES ASSUME Len(p) <= Len(q)
             PROVE  SubSeq(p, 1, Len(p)) = SubSeq(q, 1, Len(p)) <=>
                        \A n \in 1..Len(p) : p[n] = q[n]
  BY <1>a DEF IsPrefix
<1>b. \A n \in 1..Len(p) : p[n] \in S /\ q[n] \in S
  BY <1>a, ElementOfSeq
<1> DEFINE q1 == SubSeq(q, 1, Len(p))
<1>1. SubSeq(p, 1, Len(p)) = p
  BY SubSeqFull
<1>2. q1 \in Seq(S) /\ Len(q1) = Len(p) /\ \A n \in 1..Len(p) : q1[n] = q[n]
  <2>1. /\ q1 \in Seq(S) /\ Len(q1) = IF 1 <= Len(p) THEN Len(p) - 1 + 1 ELSE 0
        /\ \A n \in 1..(Len(p) - 1 + 1) : q1[n] = q[1 + n - 1]
    BY <1>a, <1>b, SubSeqProperties
  <2>2. Len(p) - 1 + 1 = Len(p) /\ \A n \in 1..Len(p) : 1 + n - 1 = n
    BY <1>a
  <2>3. Len(q1) = Len(p)
    BY <1>a, <2>1
  <2> HIDE DEF q1
  <2> QED
    BY <2>1, <2>2, <2>3
<1> HIDE DEF q1
<1>3. p = q1 <=> \A n \in 1..Len(p) : p[n] = q1[n]
  BY <1>2, SeqEqual
<1> QED
  BY <1>1, <1>2, <1>3 DEF q1

\* One turn of Trail, with the links in L; Clean follows none.
TrailStep(p, L, f, n) ==
    IF n = 0 THEN <<>>
    ELSE IF Step(f[n - 1], p[n]) \in L THEN Links[Step(f[n - 1], p[n])]
    ELSE Step(f[n - 1], p[n])

CleanStep(p, f, n) == IF n = 0 THEN <<>> ELSE Step(f[n - 1], p[n])

\* A path is read segment by segment, so the function that defines it exists.
LEMMA TrailExists ==
    ASSUME NEW p, NEW L, NEW N \in Nat
    PROVE  \E f : f = [n \in 0..N |-> TrailStep(p, L, f, n)]
<1> DEFINE Built(m) == \E f : f = [n \in 0..m |-> TrailStep(p, L, f, n)]
           Bad == {m \in Nat : ~Built(m)}
<1>1. Built(0)
  <2>1. PICK f : f = [n \in 0..0 |-> <<>>]
    OBVIOUS
  <2>2. \A n \in 0..0 : TrailStep(p, L, f, n) = <<>>
    BY DEF TrailStep
  <2>3. f = [n \in 0..0 |-> TrailStep(p, L, f, n)]
    BY <2>1, <2>2
  <2> QED
    BY <2>3
<1>2. ASSUME NEW m \in Nat, Built(m) PROVE Built(m + 1)
  <2>1. PICK f : f = [n \in 0..m |-> TrailStep(p, L, f, n)]
    BY <1>2
  <2>2. PICK g : g = [n \in 0..(m + 1) |->
                        IF n = m + 1 THEN TrailStep(p, L, f, m + 1) ELSE f[n]]
    OBVIOUS
  <2>3. \A n \in 0..m : g[n] = f[n]
    BY <2>2
  <2>4. ASSUME NEW n \in 0..(m + 1)
        PROVE  TrailStep(p, L, f, n) = TrailStep(p, L, g, n)
    <3>1. CASE n = 0
      BY <3>1 DEF TrailStep
    <3>2. CASE n # 0
      <4>1. n - 1 \in 0..m
        BY <3>2
      <4>2. g[n - 1] = f[n - 1]
        BY <2>3, <4>1
      <4> QED
        BY <3>2, <4>2 DEF TrailStep
    <3> QED
      BY <3>1, <3>2
  <2>5. ASSUME NEW n \in 0..(m + 1) PROVE g[n] = TrailStep(p, L, f, n)
    <3>1. CASE n = m + 1
      BY <2>2, <3>1
    <3>2. CASE n # m + 1
      <4>1. n \in 0..m
        BY <3>2
      <4> QED
        BY <2>1, <2>3, <4>1
    <3> QED
      BY <3>1, <3>2
  <2>6. \A n \in 0..(m + 1) : g[n] = TrailStep(p, L, g, n)
    BY <2>4, <2>5
  <2>7. g = [n \in 0..(m + 1) |-> TrailStep(p, L, g, n)]
    BY <2>2, <2>6
  <2> QED
    BY <2>7
<1> HIDE DEF Built
<1>3. Bad = {}
  <2> SUFFICES ASSUME Bad # {} PROVE FALSE
    OBVIOUS
  <2>1. Bad \in SUBSET Nat
    OBVIOUS
  <2>2. PICK m \in Bad : \A n \in Bad : m <= n
    BY <2>1, LeastNumber
  <2>3. m \in Nat /\ ~Built(m) /\ m # 0
    BY <1>1, <2>2
  <2>4. m - 1 \in Nat /\ (m - 1) + 1 = m /\ ~(m <= m - 1)
    BY <2>3
  <2>5. Built(m - 1)
    BY <2>2, <2>4
  <2> QED
    BY <1>2, <2>3, <2>4, <2>5
<1>4. Built(N)
  BY <1>3
<1> QED
  BY <1>4 DEF Built

\* A segment leads from a directory to a directory.
LEMMA StepType ==
    ASSUME NEW d \in Seq(STRING), NEW s \in STRING
    PROVE  Step(d, s) \in Seq(STRING)
<1>1. Append(d, s) \in Seq(STRING)
  BY AppendProperties
<1>2. Front(d) \in Seq(STRING)
  <2>1. Len(d) \in Nat
    BY LenProperties
  <2>2. \A i \in 1..(Len(d) - 1) : d[i] \in STRING
    BY <2>1, ElementOfSeq
  <2> QED
    BY <2>1, <2>2, SubSeqProperties DEF Front
<1> QED
  BY <1>1, <1>2 DEF Step

\* filepath.Clean, which reads the text alone, finds the directory the kernel
\* walks to when no link is crossed.
LEMMA WalkIsClean ==
    ASSUME NEW p \in Paths
    PROVE  Walk(p) = Clean(p) /\ Clean(p) \in Seq(STRING)
<1>a. /\ p \in Seq(STRING) /\ Len(p) \in Nat
      /\ \A n \in 1..Len(p) : p[n] \in STRING
  <2>1. p \in Seq(STRING)
    BY DocumentAssumption
  <2> QED
    BY <2>1, LenProperties, ElementOfSeq
<1>1. PICK t : t = CHOOSE g : g = [n \in 0..Len(p) |-> TrailStep(p, DOMAIN Links, g, n)]
  OBVIOUS
<1>2. t = [n \in 0..Len(p) |-> TrailStep(p, DOMAIN Links, t, n)]
  BY <1>a, <1>1, TrailExists
<1>3. Trail(p) = t
  BY <1>1 DEF Trail, TrailStep
<1>4. PICK c : c = CHOOSE g : g = [n \in 0..Len(p) |-> CleanStep(p, g, n)]
  OBVIOUS
<1>5. c = [n \in 0..Len(p) |-> CleanStep(p, c, n)]
  <2>1. \E f : f = [n \in 0..Len(p) |-> CleanStep(p, f, n)]
    <3>1. PICK f : f = [n \in 0..Len(p) |-> TrailStep(p, {}, f, n)]
      BY <1>a, TrailExists
    <3>2. \A n : TrailStep(p, {}, f, n) = CleanStep(p, f, n)
      BY DEF TrailStep, CleanStep
    <3> QED
      BY <3>1, <3>2
  <2> QED
    BY <1>4, <2>1
<1>6. Clean(p) = c[Len(p)]
  BY <1>4 DEF Clean, CleanStep
<1>7. \A n \in 0..Len(p) : t[n] = TrailStep(p, DOMAIN Links, t, n) /\ c[n] = CleanStep(p, c, n)
  BY <1>2, <1>5
<1>8. \A n \in 1..Len(p) : Step(t[n - 1], p[n]) \notin DOMAIN Links
  BY <1>3, DocumentAssumption
<1> DEFINE Good(n) == t[n] = c[n] /\ c[n] \in Seq(STRING)
           Bad == {n \in 0..Len(p) : ~Good(n)}
<1>9. Bad = {}
  <2> SUFFICES ASSUME Bad # {} PROVE FALSE
    OBVIOUS
  <2>1. PICK m \in Bad : \A n \in Bad : m <= n
    <3>1. Bad \in SUBSET Nat
      BY <1>a
    <3> QED
      BY <3>1, LeastNumber
  <2>2. m \in 0..Len(p) /\ ~Good(m)
    BY <2>1
  <2>3. CASE m = 0
    <3>1. t[m] = <<>> /\ c[m] = <<>>
      BY <1>7, <2>2, <2>3 DEF TrailStep, CleanStep
    <3> QED
      BY <2>2, <3>1, EmptySeq
  <2>4. CASE m # 0
    <3>1. m \in 1..Len(p) /\ m - 1 \in 0..Len(p) /\ ~(m <= m - 1)
      BY <1>a, <2>2, <2>4
    <3>2. Good(m - 1)
      BY <2>1, <3>1
    <3>3. c[m] = Step(c[m - 1], p[m])
      BY <1>7, <2>2, <2>4 DEF CleanStep
    <3>4. t[m] = Step(t[m - 1], p[m])
      BY <1>7, <1>8, <2>2, <2>4, <3>1 DEF TrailStep
    <3>5. c[m] \in Seq(STRING)
      BY <1>a, <3>1, <3>2, <3>3, StepType
    <3> QED
      BY <2>2, <3>2, <3>3, <3>4, <3>5
  <2> QED
    BY <2>3, <2>4
<1>10. Good(Len(p))
  BY <1>a, <1>9
<1> QED
  BY <1>3, <1>6, <1>10 DEF Walk

-------------------------------------------------------------------------------
\* Hosts.

\* The first "@" is the last one, and brackets are dropped exactly where ssh
\* does not read them: the host compared is the host reached.
LEMMA ReachedIsHost ==
    ASSUME NEW raw \in Hosts
    PROVE  Reached(raw) = splitRemoteHost(raw) /\ splitRemoteHost(raw) \in Seq(Tokens)
<1> DEFINE s == splitRemoteHost(raw)
           h == Cut(raw)
           Shut == Len(h) >= 2 /\ h[1].kind = "[" /\ h[Len(h)].kind = "]" /\ ParseIP(Inner(h))
<1>1. ValidHost(raw)
  BY DocumentAssumption
<1>2. raw \in Seq(Tokens) /\ Len(raw) \in Nat /\ \A i, j \in Ats(raw) : i = j
  BY <1>1, LenProperties DEF ValidHost
<1>3. h \in Seq(Tokens) /\ AfterLogin(raw) = h
  <2>1. CASE Ats(raw) = {}
    BY <1>2, <2>1 DEF Cut, AfterLogin
  <2>2. CASE Ats(raw) # {}
    <3>1. PICK i \in Ats(raw) : TRUE
      BY <2>2
    <3>2. i \in 1..Len(raw)
      BY <3>1 DEF Ats
    <3>3. Ats(raw) = {i}
      BY <1>2, <3>1
    <3>4. (CHOOSE m \in Ats(raw) : \A j \in Ats(raw) : m <= j) = i
      BY <3>2, <3>3
    <3>5. (CHOOSE m \in Ats(raw) : \A j \in Ats(raw) : j <= m) = i
      BY <3>2, <3>3
    <3>6. h = SubSeq(raw, i + 1, Len(raw))
      BY <2>2, <3>4 DEF Cut
    <3>7. h \in Seq(Tokens)
      <4>1. \A n \in (i + 1)..Len(raw) : raw[n] \in Tokens
        BY <1>2, <3>2, ElementOfSeq
      <4> QED
        BY <1>2, <3>2, <3>6, <4>1, SubSeqProperties
    <3>8. AfterLogin(raw) = SubSeq(raw, i + 1, Len(raw))
      BY <2>2, <3>5 DEF AfterLogin
    <3> QED
      BY <3>6, <3>7, <3>8
  <2> QED
    BY <2>1, <2>2
<1>r. Reached(raw) = IF h[1].kind = "[" THEN SubSeq(h, 2, Len(h) - 1) ELSE h
  BY <1>3, Zenon DEF Reached
<1>4. Inner(h) \in Seq(Tokens)
  <2> HIDE DEF h
  <2>1. Len(h) \in Nat
    BY <1>3, LenProperties
  <2>2. \A n \in 2..(Len(h) - 1) : h[n] \in Tokens
    BY <1>3, <2>1, ElementOfSeq
  <2> QED
    BY <2>1, <2>2, SubSeqProperties DEF Inner
<1>5. s = IF Shut THEN Inner(h) ELSE h
  BY DEF splitRemoteHost
<1>6. CASE Shut
  BY <1>r, <1>4, <1>5, <1>6 DEF Inner
<1>7. CASE ~Shut
  <2>1. s = h
    BY <1>5, <1>7
  <2>2. s[1].kind # "["
    <3> HIDE DEF s
    <3>1. CASE ParseIP(s)
      BY <3>1 DEF ParseIP
    <3>2. CASE ~ParseIP(s)
      <4>1. s \in Seq(Tokens) /\ s # <<>>
        BY <1>1, <1>3, <2>1, <3>2 DEF ValidHost, s
      <4>2. Len(s) \in Nat \ {0}
        BY <4>1, EmptySeq
      <4>3. 1 \in 1..Len(s) /\ 1 % 2 = 1
        BY <4>2
      <4>4. s[1].kind = "label"
        BY <1>1, <3>2, <4>3 DEF ValidHost, s
      <4> QED
        BY <4>4
    <3> QED
      BY <3>1, <3>2
  <2> QED
    BY <1>3, <1>r, <2>1, <2>2
<1> QED
  BY <1>6, <1>7

\* A name: labels at odd places, dots at even ones.
IsName(s) ==
    /\ s \in Seq(Tokens) /\ Len(s) \in Nat \ {0}
    /\ \A i \in 1..Len(s) :
         /\ s[i].kind = IF i % 2 = 1 THEN "label" ELSE "."
         /\ s[i].form \in {"plain", "upper"}
         /\ i % 2 = 0 => s[i].text = "."

IsAddr(s) == s \in Seq(Tokens) /\ ParseIP(s)

\* A validated host is one or the other.
LEMMA HostShape ==
    ASSUME NEW raw \in Hosts
    PROVE  IsAddr(splitRemoteHost(raw)) \/ IsName(splitRemoteHost(raw))
<1>1. ValidHost(raw)
  BY DocumentAssumption
<1>2. splitRemoteHost(raw) \in Seq(Tokens)
  BY ReachedIsHost
<1>3. splitRemoteHost(raw) # <<>> => Len(splitRemoteHost(raw)) \in Nat \ {0}
  BY <1>2, EmptySeq
<1> QED
  BY <1>1, <1>2, <1>3, Zenon DEF ValidHost, IsAddr, IsName

\* The length of a name's key: a root dot is dropped when another dot is left.
KeyLen(n) == IF n = 2 THEN 2 ELSE IF n % 2 = 0 THEN n - 1 ELSE n

\* What the key of a name holds.
LEMMA NameKeyIs ==
    ASSUME NEW s, IsName(s)
    PROVE  /\ NameKey(s) \in Seq(Tokens) /\ Len(NameKey(s)) = KeyLen(Len(s))
           /\ KeyLen(Len(s)) \in 1..Len(s)
           /\ \A i \in 1..KeyLen(Len(s)) :
                NameKey(s)[i] = [kind |-> s[i].kind, text |-> s[i].text, form |-> "plain"]
<1> DEFINE n == Len(s)
           l == ToLower(s)
           t == TrimDot(l)
<1>a. /\ s \in Seq(Tokens) /\ n \in Nat \ {0}
      /\ \A i \in 1..n : /\ s[i].kind = IF i % 2 = 1 THEN "label" ELSE "."
                         /\ s[i].form \in {"plain", "upper"}
                         /\ i % 2 = 0 => s[i].text = "."
  BY Zenon DEF IsName
<1>b. \A i \in 1..n : s[i] \in Tokens
  BY <1>a, ElementOfSeq
<1>1. \A i \in 1..n : l[i] = [kind |-> s[i].kind, text |-> s[i].text, form |-> "plain"]
                      /\ l[i] \in Tokens
  <2> SUFFICES ASSUME NEW i \in 1..n
               PROVE  /\ l[i] = [kind |-> s[i].kind, text |-> s[i].text, form |-> "plain"]
                      /\ l[i] \in Tokens
    OBVIOUS
  <2>1. l[i] = IF s[i].form = "upper" THEN [s[i] EXCEPT !.form = "plain"] ELSE s[i]
    BY DEF ToLower
  <2>2. s[i] \in Tokens /\ s[i].form \in {"plain", "upper"}
    BY <1>a, <1>b
  <2> QED
    BY <2>1, <2>2 DEF Tokens
<1>2. l \in Seq(Tokens) /\ Len(l) = n
  <2>1. l \in [1..n -> Tokens]
    BY <1>1 DEF ToLower
  <2> QED
    BY <1>a, <2>1, SeqDef
<1> HIDE DEF l, n
<1>3. \A i \in 1..n : l[i].kind = IF i % 2 = 1 THEN "label" ELSE "."
  <2>1. ASSUME NEW i \in 1..n PROVE l[i].kind = s[i].kind
    <3>1. l[i] = [kind |-> s[i].kind, text |-> s[i].text, form |-> "plain"]
      BY <1>1, Zenon
    <3> QED
      BY <3>1
  <2> QED
    BY <1>a, <2>1, Zenon
<1>4. KeyLen(n) \in 1..n
  BY <1>a DEF KeyLen
<1>5. CASE n % 2 = 1
  <2>1. t = l
    BY <1>a, <1>2, <1>3, <1>5 DEF TrimDot
  <2>2. KeyLen(n) = n
    BY <1>a, <1>5 DEF KeyLen
  <2>3. NameKey(s) = l
    BY <2>1 DEF NameKey, l
  <2> QED
    BY <1>1, <1>2, <1>4, <2>2, <2>3 DEF n
<1>6. CASE n % 2 # 1
  <2>1. n % 2 = 0 /\ n \in Nat /\ n >= 2 /\ n \in 1..n
    BY <1>a, <1>6
  <2>2. l[n].kind = "."
    BY <1>3, <2>1
  <2>3. t = SubSeq(l, 1, n - 1)
    BY <1>2, <2>2 DEF TrimDot
  <2>4. /\ t \in Seq(Tokens) /\ Len(t) = n - 1
        /\ \A i \in 1..(n - 1) : t[i] = l[i]
    <3>0. \A i \in 1..(n - 1) : i \in 1..n
      BY <2>1
    <3>1. \A i \in 1..(n - 1) : l[i] \in Tokens
      BY <1>1, <3>0, Zenon
    <3>2. /\ SubSeq(l, 1, n - 1) \in Seq(Tokens)
          /\ Len(SubSeq(l, 1, n - 1)) = IF 1 <= n - 1 THEN (n - 1) - 1 + 1 ELSE 0
          /\ \A i \in 1..((n - 1) - 1 + 1) : SubSeq(l, 1, n - 1)[i] = l[1 + i - 1]
      BY <2>1, <3>1, SubSeqProperties
    <3>3. (n - 1) - 1 + 1 = n - 1 /\ \A i \in 1..(n - 1) : 1 + i - 1 = i
      BY <2>1
    <3>4. 1 <= n - 1
      BY <2>1
    <3> HIDE DEF t
    <3> QED
      BY <2>3, <3>2, <3>3, <3>4
  <2> HIDE DEF t
  <2>5. CASE n = 2
    <3>1. ~HasDot(t)
      BY <1>3, <2>4, <2>5 DEF HasDot
    <3>2. NameKey(s) = l
      BY <3>1 DEF NameKey, l, t
    <3>3. KeyLen(n) = n
      BY <2>5 DEF KeyLen
    <3> QED
      BY <1>1, <1>2, <1>4, <3>2, <3>3 DEF n
  <2>6. CASE n # 2
    <3>1. 2 \in 1..(n - 1) /\ 2 \in 1..n /\ 2 % 2 # 1
      BY <2>1, <2>6
    <3>2. HasDot(t)
      <4>1. t[2].kind = "."
        BY <1>3, <2>4, <3>1
      <4> QED
        BY <2>4, <3>1, <4>1 DEF HasDot
    <3>3. NameKey(s) = t
      BY <3>2 DEF NameKey, l, t
    <3>4. KeyLen(n) = n - 1
      BY <2>1, <2>6 DEF KeyLen
    <3>5. \A i \in 1..(n - 1) : i \in 1..n
      BY <2>1
    <3> QED
      BY <1>1, <1>4, <2>4, <3>3, <3>4, <3>5 DEF n
  <2> QED
    BY <2>5, <2>6
<1> QED
  BY <1>5, <1>6

\* Two names have keys of one length if their labels are as many and both or
\* neither are a single label without a dot.
LEMMA KeyLengths ==
    ASSUME NEW n \in Nat \ {0}, NEW m \in Nat \ {0}
    PROVE  /\ KeyLen(n) = KeyLen(m) =>
                /\ n = 1 <=> m = 1
                /\ \A i \in Nat : i % 2 = 1 => (i <= n <=> i <= m)
           /\ (n = 1 <=> m = 1) /\ (\A i \in Nat : i % 2 = 1 => (i <= n <=> i <= m))
                => KeyLen(n) = KeyLen(m)
<1>1. ASSUME KeyLen(n) = KeyLen(m)
      PROVE  /\ n = 1 <=> m = 1
             /\ \A i \in Nat : i % 2 = 1 => (i <= n <=> i <= m)
  BY <1>1 DEF KeyLen
<1>2. ASSUME n = 1 <=> m = 1, \A i \in Nat : i % 2 = 1 => (i <= n <=> i <= m)
      PROVE  KeyLen(n) = KeyLen(m)
  <2>1. /\ n % 2 = 1 => (n <= n <=> n <= m)
        /\ m % 2 = 1 => (m <= n <=> m <= m)
        /\ (n - 1) % 2 = 1 => (n - 1 <= n <=> n - 1 <= m)
        /\ (m - 1) % 2 = 1 => (m - 1 <= n <=> m - 1 <= m)
    <3>1. n \in Nat /\ m \in Nat /\ n - 1 \in Nat /\ m - 1 \in Nat
      OBVIOUS
    <3> QED
      BY <1>2, <3>1, Zenon
  <2> QED
    BY <1>2, <2>1 DEF KeyLen
<1> QED
  BY <1>1, <1>2

\* The fields of what Resolve returns.
LEMMA Fields ==
    ASSUME NEW r, NEW x, NEW f, NEW y, r = [addr |-> x, labels |-> f, search |-> y]
    PROVE  r.addr = x /\ r.labels = f /\ r.search = y
  OBVIOUS

\* hostKey tells validated hosts apart exactly as ssh and the resolver do.
LEMMA SameHost ==
    ASSUME NEW a \in Hosts, NEW b \in Hosts
    PROVE  Resolve(a) = Resolve(b) <=> hostKey(a) = hostKey(b)
<1> DEFINE s == splitRemoteHost(a)
           t == splitRemoteHost(b)
           Labels(u) == {i \in 1..Len(u) : u[i].kind = "label"}
           R(u) == [addr   |-> IF u[1].kind = "addr" THEN u[1].text ELSE "",
                    labels |-> [i \in Labels(u) |-> u[i].text],
                    search |-> u[1].kind = "label" /\ Len(u) = 1]
           K(u) == IF ParseIP(u) THEN <<[u[1] EXCEPT !.form = "plain"]>> ELSE NameKey(u)
<1>1. Resolve(a) = R(s) /\ Resolve(b) = R(t)
  BY ReachedIsHost DEF Resolve
<1>2. hostKey(a) = K(s) /\ hostKey(b) = K(t)
  BY DEF hostKey
<1>3. (IsAddr(s) \/ IsName(s)) /\ (IsAddr(t) \/ IsName(t))
  BY HostShape
<1> HIDE DEF s, t
\* Of an address.
<1>4. ASSUME NEW u, IsAddr(u)
      PROVE  /\ u[1] \in Tokens /\ u[1].kind = "addr"
             /\ K(u) = <<[kind |-> "addr", text |-> u[1].text, form |-> "plain"]>>
             /\ R(u) = [addr |-> u[1].text, labels |-> [i \in {} |-> ""], search |-> FALSE]
  <2>1. Len(u) = 1 /\ u[1].kind = "addr" /\ ParseIP(u)
    BY <1>4 DEF IsAddr, ParseIP
  <2>2. 1 \in 1..Len(u)
    BY <2>1
  <2>3. u[1] \in Tokens
    BY <1>4, <2>2, ElementOfSeq DEF IsAddr
  <2>4. [u[1] EXCEPT !.form = "plain"] = [kind |-> "addr", text |-> u[1].text, form |-> "plain"]
    BY <2>1, <2>3 DEF Tokens
  <2>5. Labels(u) = {}
    BY <2>1
  <2>6. [i \in Labels(u) |-> u[i].text] = [i \in {} |-> ""]
    BY <2>5
  <2>7. (u[1].kind = "label" /\ Len(u) = 1) = FALSE
    BY <2>1
  <2> QED
    BY <2>1, <2>3, <2>4, <2>6, <2>7
\* Of a name.
<1>5. ASSUME NEW u, IsName(u)
      PROVE  /\ Len(u) \in Nat \ {0} /\ ~ParseIP(u) /\ K(u) = NameKey(u)
             /\ u[1].kind = "label" /\ 1 \in Labels(u)
             /\ Labels(u) = {i \in 1..Len(u) : i % 2 = 1}
             /\ R(u) = [addr |-> "", labels |-> [i \in Labels(u) |-> u[i].text],
                        search |-> Len(u) = 1]
  <2>1. Len(u) \in Nat \ {0} /\ \A i \in 1..Len(u) : u[i].kind = IF i % 2 = 1 THEN "label" ELSE "."
    BY <1>5, Zenon DEF IsName
  <2>2. 1 \in 1..Len(u) /\ 1 % 2 = 1
    BY <2>1
  <2>3. u[1].kind = "label"
    BY <2>1, <2>2
  <2>4. ~ParseIP(u)
    BY <2>3 DEF ParseIP
  <2>5. Labels(u) = {i \in 1..Len(u) : i % 2 = 1}
    BY <2>1
  <2>6. (u[1].kind = "label" /\ Len(u) = 1) = (Len(u) = 1)
    BY <2>3
  <2> QED
    BY <2>1, <2>2, <2>3, <2>4, <2>5, <2>6
<1> HIDE DEF R, K
<1>6. CASE IsAddr(s) /\ IsAddr(t)
  <2>1. K(s) = K(t) <=> s[1].text = t[1].text
    BY <1>4, <1>6
  <2>2. R(s) = R(t) <=> s[1].text = t[1].text
    <3>1. PICK e : e = [i \in {} |-> ""]
      OBVIOUS
    <3>2. /\ R(s) = [addr |-> s[1].text, labels |-> e, search |-> FALSE]
          /\ R(t) = [addr |-> t[1].text, labels |-> e, search |-> FALSE]
      BY <1>4, <1>6, <3>1, Zenon
    <3>3. R(s).addr = s[1].text /\ R(t).addr = t[1].text
      BY <3>2
    <3> QED
      BY <3>2, <3>3, Zenon
  <2> QED
    BY <1>1, <1>2, <2>1, <2>2
\* An address and a name.
<1>7. ASSUME NEW u, NEW v, IsAddr(u), IsName(v)
      PROVE  K(u) # K(v) /\ R(u) # R(v)
  <2>1. K(v)[1].kind = "label"
    <3>1. NameKey(v)[1] = [kind |-> v[1].kind, text |-> v[1].text, form |-> "plain"]
      BY <1>7, NameKeyIs
    <3>2. K(v) = NameKey(v) /\ v[1].kind = "label"
      BY <1>5, <1>7, Zenon
    <3> QED
      BY <3>1, <3>2
  <2>2. K(u)[1].kind = "addr"
    BY <1>4, <1>7
  <2>3. DOMAIN R(v).labels = Labels(v) /\ 1 \in Labels(v)
    <3>1. PICK f : f = [i \in Labels(v) |-> v[i].text]
      OBVIOUS
    <3>2. PICK y : y = (Len(v) = 1)
      OBVIOUS
    <3>3. R(v) = [addr |-> "", labels |-> f, search |-> y] /\ 1 \in Labels(v)
      BY <1>5, <1>7, <3>1, <3>2, Zenon
    <3>4. R(v).labels = f
      <4>1. PICK r : r = R(v)
        OBVIOUS
      <4>2. r = [addr |-> "", labels |-> f, search |-> y]
        BY <3>3, <4>1, Zenon
      <4>3. r.labels = f
        BY <4>2, Fields
      <4> QED
        BY <4>1, <4>3, Zenon
    <3> HIDE DEF Labels
    <3>5. DOMAIN f = Labels(v)
      BY <3>1
    <3> QED
      BY <3>3, <3>4, <3>5
  <2>4. DOMAIN R(u).labels = {}
    BY <1>4, <1>7
  <2> QED
    BY <2>1, <2>2, <2>3, <2>4
<1>8. CASE IsName(s) /\ IsName(t)
  <2> DEFINE n == Len(s)
             m == Len(t)
  <2>1. /\ n \in Nat \ {0} /\ m \in Nat \ {0}
        /\ Labels(s) = {i \in 1..n : i % 2 = 1} /\ Labels(t) = {i \in 1..m : i % 2 = 1}
    BY <1>5, <1>8
  <2>2. R(s) = R(t) <=> /\ (n = 1) = (m = 1) /\ Labels(s) = Labels(t)
                        /\ \A i \in Labels(s) : s[i].text = t[i].text
    <3>1. R(s) = R(t) <=> /\ [i \in Labels(s) |-> s[i].text] = [i \in Labels(t) |-> t[i].text]
                          /\ (n = 1) = (m = 1)
      <4>1. PICK f, g, x, y : /\ f = [i \in Labels(s) |-> s[i].text] /\ x = (n = 1)
                              /\ g = [i \in Labels(t) |-> t[i].text] /\ y = (m = 1)
        OBVIOUS
      <4>2. /\ R(s) = [addr |-> "", labels |-> f, search |-> x]
            /\ R(t) = [addr |-> "", labels |-> g, search |-> y]
        BY <1>5, <1>8, <4>1, Zenon
      <4>3. /\ R(s).labels = f /\ R(s).search = x
            /\ R(t).labels = g /\ R(t).search = y
        <5>1. PICK q, r : q = R(s) /\ r = R(t)
          OBVIOUS
        <5>2. /\ q = [addr |-> "", labels |-> f, search |-> x]
              /\ r = [addr |-> "", labels |-> g, search |-> y]
          BY <4>2, <5>1, Zenon
        <5>3. q.labels = f /\ q.search = x
          BY <5>2, Fields
        <5>4. r.labels = g /\ r.search = y
          BY <5>2, Fields
        <5> QED
          BY <5>1, <5>3, <5>4, Zenon
      <4>4. R(s) = R(t) <=> f = g /\ x = y
        BY <4>2, <4>3, Zenon
      <4> QED
        BY <4>1, <4>4, Zenon
    <3>2. [i \in Labels(s) |-> s[i].text] = [i \in Labels(t) |-> t[i].text]
            <=> Labels(s) = Labels(t) /\ \A i \in Labels(s) : s[i].text = t[i].text
      <4> HIDE DEF Labels
      <4> QED
        OBVIOUS
    <3> QED
      BY <3>1, <3>2
  <2>3. /\ NameKey(s) \in Seq(Tokens) /\ Len(NameKey(s)) = KeyLen(n) /\ KeyLen(n) \in 1..n
        /\ \A i \in 1..KeyLen(n) :
             NameKey(s)[i] = [kind |-> s[i].kind, text |-> s[i].text, form |-> "plain"]
        /\ NameKey(t) \in Seq(Tokens) /\ Len(NameKey(t)) = KeyLen(m) /\ KeyLen(m) \in 1..m
        /\ \A i \in 1..KeyLen(m) :
             NameKey(t)[i] = [kind |-> t[i].kind, text |-> t[i].text, form |-> "plain"]
    BY <1>8, NameKeyIs
  <2>4. /\ \A i \in 1..n : /\ s[i].kind = IF i % 2 = 1 THEN "label" ELSE "."
                           /\ i % 2 = 0 => s[i].text = "."
        /\ \A i \in 1..m : /\ t[i].kind = IF i % 2 = 1 THEN "label" ELSE "."
                           /\ i % 2 = 0 => t[i].text = "."
    BY <1>8, Zenon DEF IsName
  <2> HIDE DEF n, m
  <2>5. \A i \in Nat : i % 2 = 1 => /\ i <= n => i <= KeyLen(n)
                                    /\ i <= m => i <= KeyLen(m)
    BY <2>1 DEF KeyLen
  <2>6. ASSUME NameKey(s) = NameKey(t)
        PROVE  /\ (n = 1) = (m = 1) /\ Labels(s) = Labels(t)
               /\ \A i \in Labels(s) : s[i].text = t[i].text
    <3>1. KeyLen(n) = KeyLen(m)
      BY <2>3, <2>6
    <3>2. (n = 1) = (m = 1) /\ \A i \in Nat : i % 2 = 1 => (i <= n <=> i <= m)
      BY <2>1, <3>1, KeyLengths
    <3>3. Labels(s) = Labels(t)
      <4> HIDE DEF Labels
      <4>1. \A i : i \in 1..n /\ i % 2 = 1 <=> i \in 1..m /\ i % 2 = 1
        BY <2>1, <3>2
      <4> QED
        BY <2>1, <4>1, Zenon
    <3>4. ASSUME NEW i \in Labels(s) PROVE s[i].text = t[i].text
      <4>0. i \in 1..n /\ i % 2 = 1
        BY <2>1, Zenon
      <4>1. i \in 1..KeyLen(n)
        BY <2>1, <2>3, <2>5, <4>0
      <4> QED
        BY <2>3, <2>6, <3>1, <4>1
    <3> QED
      BY <3>2, <3>3, <3>4
  <2>7. ASSUME (n = 1) = (m = 1), Labels(s) = Labels(t),
               \A i \in Labels(s) : s[i].text = t[i].text
        PROVE  NameKey(s) = NameKey(t)
    <3>1. \A i \in Nat : i % 2 = 1 => (i <= n <=> i <= m)
      <4>1. ASSUME NEW i \in Nat, i % 2 = 1 PROVE i <= n <=> i <= m
        <5>1. i >= 1
          BY <4>1
        <5>2. (i <= n <=> i \in Labels(s)) /\ (i <= m <=> i \in Labels(t))
          BY <2>1, <4>1, <5>1
        <5> QED
          BY <2>7, <5>2
      <4> QED
        BY <4>1
    <3>2. KeyLen(n) = KeyLen(m)
      BY <2>1, <2>7, <3>1, KeyLengths
    <3>3. ASSUME NEW i \in 1..KeyLen(n) PROVE NameKey(s)[i] = NameKey(t)[i]
      <4>1. i \in 1..n /\ i \in 1..m /\ i \in 1..KeyLen(m) /\ i \in Nat
        BY <2>1, <2>3, <3>2
      <4>2. s[i].kind = t[i].kind
        BY <2>4, <4>1
      <4>3. s[i].text = t[i].text
        <5>1. CASE i % 2 = 1
          BY <2>1, <2>7, <4>1, <5>1
        <5>2. CASE i % 2 = 0
          BY <2>4, <4>1, <5>2
        <5> QED
          BY <4>1, <5>1, <5>2
      <4> QED
        BY <2>3, <4>1, <4>2, <4>3
    <3> QED
      BY <2>3, <3>2, <3>3, SeqEqual
  <2>8. K(s) = NameKey(s) /\ K(t) = NameKey(t)
    BY <1>5, <1>8
  <2> QED
    BY <1>1, <1>2, <2>2, <2>6, <2>7, <2>8
<1> QED
  BY <1>1, <1>2, <1>3, <1>6, <1>7, <1>8

-------------------------------------------------------------------------------
\* Jobs and their trees.

LEMMA JobType ==
    ASSUME TypeOK, NEW j \in Jobs
    PROVE  /\ jobs[j].path \in Paths /\ jobs[j].host \in Hosts /\ jobs[j].del \in BOOLEAN
           /\ jobs[j].jail \in STRING
           /\ Walk(jobs[j].path) = Clean(jobs[j].path)
           /\ Clean(jobs[j].path) \in Seq(STRING)
<1>1. jobs[j] \in Job
  BY DEF TypeOK
<1>2. /\ jobs[j].path \in Paths /\ jobs[j].host \in Hosts /\ jobs[j].del \in BOOLEAN
      /\ jobs[j].jail \in STRING
  BY <1>1 DEF Job
<1> QED
  BY <1>2, WalkIsClean

\* Jobs have one key exactly when they reach one machine.
LEMMA SameMachine ==
    ASSUME TypeOK, NEW a \in Jobs, NEW b \in Jobs
    PROVE  Machine(a) = Machine(b) <=> KeyOf(a) = KeyOf(b)
  BY JobType, SameHost DEF Machine, KeyOf

\* Two prefixes of one sequence are comparable.
LEMMA Comparable ==
    ASSUME NEW p \in Seq(STRING), NEW q \in Seq(STRING), NEW d \in Seq(STRING),
           IsPrefix(p, d), IsPrefix(q, d)
    PROVE  IsPrefix(p, q) \/ IsPrefix(q, p)
<1>a. Len(p) \in Nat /\ Len(q) \in Nat
  BY LenProperties
<1>1. /\ \A n \in 1..Len(p) : p[n] = d[n]
      /\ \A n \in 1..Len(q) : q[n] = d[n]
  BY PrefixElements
<1>2. CASE Len(p) <= Len(q)
  <2>1. \A n \in 1..Len(p) : p[n] = q[n]
    BY <1>a, <1>1, <1>2
  <2> QED
    BY <1>2, <2>1, PrefixElements
<1>3. CASE Len(q) <= Len(p)
  <2>1. \A n \in 1..Len(q) : q[n] = p[n]
    BY <1>a, <1>1, <1>3
  <2> QED
    BY <1>3, <2>1, PrefixElements
<1> QED
  BY <1>a, <1>2, <1>3

\* A sequence of one.
LEMMA Singleton ==
    ASSUME NEW S, NEW r \in S
    PROVE  <<r>> \in Seq(S) /\ Len(<<r>>) = 1
  OBVIOUS

\* One directory in front of a path.
LEMMA Rooted ==
    ASSUME NEW r \in STRING, NEW p \in Seq(STRING)
    PROVE  /\ <<r>> \o p \in Seq(STRING) /\ Len(<<r>> \o p) = Len(p) + 1
           /\ (<<r>> \o p)[1] = r
           /\ \A n \in 1..Len(p) : (<<r>> \o p)[n + 1] = p[n]
<1>1. <<r>> \in Seq(STRING) /\ Len(<<r>>) = 1 /\ <<r>>[1] = r /\ Len(p) \in Nat
  <2>2. <<r>> \in Seq(STRING) /\ Len(<<r>>) = 1
    BY Singleton
  <2>3. Len(p) \in Nat
    BY LenProperties
  <2> QED
    BY <2>2, <2>3
<1>2. /\ <<r>> \o p \in Seq(STRING) /\ Len(<<r>> \o p) = Len(<<r>>) + Len(p)
      /\ \A i \in 1..(Len(<<r>>) + Len(p)) :
            (<<r>> \o p)[i] = IF i <= Len(<<r>>) THEN <<r>>[i] ELSE p[i - Len(<<r>>)]
  BY <1>1, ConcatProperties
<1>3. PICK w : w = <<r>> \o p
  OBVIOUS
<1>4. /\ w \in Seq(STRING) /\ Len(w) = 1 + Len(p)
      /\ \A i \in 1..(1 + Len(p)) : w[i] = IF i <= 1 THEN r ELSE p[i - 1]
  <2>1. ASSUME NEW i \in 1..(1 + Len(p)) PROVE w[i] = IF i <= 1 THEN r ELSE p[i - 1]
    <3>1. CASE i <= 1
      <4>1. i = 1
        BY <1>1, <3>1
      <4> QED
        BY <1>1, <1>2, <1>3, <4>1
    <3>2. CASE ~(i <= 1)
      BY <1>1, <1>2, <1>3, <3>2
    <3> QED
      BY <3>1, <3>2
  <2> QED
    BY <1>1, <1>2, <1>3, <2>1
<1>a. Len(p) \in Nat
  BY LenProperties
<1>5. w[1] = r /\ Len(w) = Len(p) + 1
  <2>1. 1 \in 1..(1 + Len(p)) /\ 1 <= 1 /\ 1 + Len(p) = Len(p) + 1
    BY <1>a
  <2> QED
    BY <1>4, <2>1
<1>6. ASSUME NEW n \in 1..Len(p) PROVE w[n + 1] = p[n]
  <2>1. n + 1 \in 1..(1 + Len(p)) /\ ~(n + 1 <= 1) /\ (n + 1) - 1 = n
    BY <1>a
  <2> QED
    BY <1>4, <2>1
<1> QED
  BY <1>3, <1>4, <1>5, <1>6

\* The directories of the model.
LEMMA DirType == Dirs \subseteq Seq(STRING)
<1>1. Walked \subseteq Seq(STRING)
  BY WalkIsClean DEF Walked
<1>2. Jails \subseteq STRING
  <2> SUFFICES ASSUME NEW doc \in Documents, NEW j \in Jobs PROVE doc[j].jail \in STRING
    BY DEF Jails
  <2>1. doc \in [Jobs -> Job]
    BY DocumentAssumption
  <2>2. doc[j] \in Job
    BY <2>1
  <2> QED
    BY <2>2 DEF Job
<1>3. ASSUME NEW r \in STRING, NEW d \in Seq(STRING) PROVE <<r>> \o d \in Seq(STRING)
  BY Rooted
<1> SUFFICES ASSUME NEW d \in Dirs PROVE d \in Seq(STRING)
  OBVIOUS
<1>4. CASE d \in Walked
  BY <1>1, <1>4
<1>5. CASE d \notin Walked
  <2>1. PICK r \in Jails, e \in Walked : d = <<r>> \o e
    BY <1>5 DEF Dirs
  <2> QED
    BY <1>1, <1>2, <1>3, <2>1
<1> QED
  BY <1>4, <1>5

\* It makes no difference to prefixes.
LEMMA RootedPrefix ==
    ASSUME NEW r \in STRING, NEW p \in Seq(STRING), NEW q \in Seq(STRING),
           IsPrefix(<<r>> \o p, <<r>> \o q)
    PROVE  IsPrefix(p, q)
<1>1. PICK v, w : v = <<r>> \o p /\ w = <<r>> \o q
  OBVIOUS
<1>2. /\ v \in Seq(STRING) /\ Len(v) = Len(p) + 1 /\ \A n \in 1..Len(p) : v[n + 1] = p[n]
      /\ w \in Seq(STRING) /\ Len(w) = Len(q) + 1 /\ \A n \in 1..Len(q) : w[n + 1] = q[n]
  <2>1. \A x \in Seq(STRING) : /\ <<r>> \o x \in Seq(STRING) /\ Len(<<r>> \o x) = Len(x) + 1
                                /\ \A n \in 1..Len(x) : (<<r>> \o x)[n + 1] = x[n]
    BY Rooted
  <2> QED
    BY <1>1, <2>1, Zenon
<1>3. Len(p) \in Nat /\ Len(q) \in Nat
  BY LenProperties
<1>4. Len(v) <= Len(w) /\ \A n \in 1..Len(v) : v[n] = w[n]
  <2>1. IsPrefix(v, w)
    BY <1>1, Zenon
  <2> QED
    BY <1>2, <2>1, PrefixElements
<1>5. Len(p) <= Len(q)
  BY <1>2, <1>3, <1>4
<1>6. ASSUME NEW n \in 1..Len(p) PROVE p[n] = q[n]
  <2>1. n + 1 \in 1..Len(v) /\ n \in 1..Len(q)
    BY <1>2, <1>3, <1>5
  <2> QED
    BY <1>2, <1>4, <2>1
<1> QED
  BY <1>5, <1>6, PrefixElements

\* A tree overlaps itself, and the empty path is in front of every other.
LEMMA PrefixSelf ==
    ASSUME NEW p \in Seq(STRING)
    PROVE  IsPrefix(p, p) /\ (p = <<>> => \A q \in Seq(STRING) : IsPrefix(p, q))
<1>1. Len(p) \in Nat
  BY LenProperties
<1>2. IsPrefix(p, p)
  BY <1>1, PrefixElements
<1>3. ASSUME p = <<>>, NEW q \in Seq(STRING) PROVE IsPrefix(p, q)
  <2>1. Len(p) = 0 /\ Len(q) \in Nat
    BY <1>3, LenProperties
  <2>2. Len(p) <= Len(q) /\ \A n \in 1..Len(p) : p[n] = q[n]
    BY <2>1
  <2> QED
    BY <2>2, PrefixElements
<1> QED
  BY <1>2, <1>3

\* Where a job's tree is.
LEMMA PlaceType ==
    ASSUME TypeOK, NEW j \in Jobs
    PROVE  /\ Place(j) \in Seq(STRING)
           /\ jobs[j].jail = NoJail => Place(j) = Clean(jobs[j].path)
           /\ jobs[j].jail # NoJail => Place(j) = <<jobs[j].jail>> \o Clean(jobs[j].path)
<1>1. /\ jobs[j].jail \in STRING /\ Walk(jobs[j].path) = Clean(jobs[j].path)
      /\ Clean(jobs[j].path) \in Seq(STRING)
  BY JobType
<1>2. <<jobs[j].jail>> \o Clean(jobs[j].path) \in Seq(STRING)
  BY <1>1, Rooted
<1> QED
  BY <1>1, <1>2, Zenon DEF Place

\* A rooted tree and one that is not meet only when the latter is everything.
LEMMA JailedApart ==
    ASSUME TypeOK, jobs \in Documents, NEW a \in Jobs, NEW b \in Jobs,
           jobs[a].jail # NoJail, jobs[b].jail = NoJail,
           IsPrefix(Place(a), Place(b)) \/ IsPrefix(Place(b), Place(a))
    PROVE  Clean(jobs[b].path) = <<>>
<1> DEFINE p == Clean(jobs[a].path)
           q == Clean(jobs[b].path)
           r == jobs[a].jail
<1>1. /\ p \in Seq(STRING) /\ q \in Seq(STRING) /\ r \in STRING /\ Len(q) \in Nat
      /\ Len(p) \in Nat /\ Walk(jobs[b].path) = q /\ jobs[b].path \in Paths
  BY JobType, LenProperties
<1>2. r \in Jails
  BY DEF Jails
<1>3. \A n \in 1..Len(q) : q[n] # r
  BY <1>1, <1>2, DocumentAssumption
<1>4. PICK w : w = <<r>> \o p
  OBVIOUS
<1>5. w \in Seq(STRING) /\ Len(w) = Len(p) + 1 /\ w[1] = r
  BY <1>1, <1>4, Rooted
<1>6. Place(a) = w /\ Place(b) = q
  BY <1>4, PlaceType
<1> HIDE DEF p, q, r
<1>7. SUFFICES ASSUME q # <<>> PROVE FALSE
  BY DEF q
<1>8. Len(q) \in Nat \ {0}
  BY <1>1, <1>7, EmptySeq
<1>9. 1 \in 1..Len(q) /\ 1 \in 1..Len(w)
  BY <1>1, <1>5, <1>8
<1>10. q[1] = w[1]
  BY <1>1, <1>5, <1>6, <1>9, PrefixElements
<1> QED
  BY <1>3, <1>5, <1>9, <1>10

\* Jobs that have a directory in common overlap as the advisory sees them,
\* wherever their keys root them.
LEMMA SharedDirectory ==
    ASSUME TypeOK, jobs \in Documents, NEW a \in Jobs, NEW b \in Jobs,
           NEW d, d \in Below(a), d \in Below(b)
    PROVE  Overlaps(a, b)
<1> DEFINE p == Clean(jobs[a].path)
           q == Clean(jobs[b].path)
<1>1. p \in Seq(STRING) /\ q \in Seq(STRING) /\ Place(a) \in Seq(STRING) /\ Place(b) \in Seq(STRING)
  BY JobType, PlaceType
<1>2. IsPrefix(Place(a), Place(b)) \/ IsPrefix(Place(b), Place(a))
  <2>1. d \in Seq(STRING) /\ IsPrefix(Place(a), d) /\ IsPrefix(Place(b), d)
    BY DirType DEF Below
  <2> QED
    BY <1>1, <2>1, Comparable
<1> SUFFICES IsPrefix(p, q) \/ IsPrefix(q, p)
  BY DEF Overlaps, RootContains
<1>3. CASE jobs[a].jail = NoJail /\ jobs[b].jail = NoJail
  BY <1>2, <1>3, PlaceType
<1>4. CASE jobs[a].jail # NoJail /\ jobs[b].jail = NoJail
  <2>1. q = <<>>
    BY <1>2, <1>4, JailedApart
  <2> HIDE DEF p, q
  <2> QED
    BY <1>1, <2>1, PrefixSelf
<1>5. CASE jobs[a].jail = NoJail /\ jobs[b].jail # NoJail
  <2>1. p = <<>>
    BY <1>2, <1>5, JailedApart
  <2> HIDE DEF p, q
  <2> QED
    BY <1>1, <2>1, PrefixSelf
<1>6. CASE jobs[a].jail # NoJail /\ jobs[b].jail # NoJail
  <2>1. PICK r, s : r = jobs[a].jail /\ s = jobs[b].jail
    OBVIOUS
  <2>2. r \in STRING /\ s \in STRING /\ Place(a) = <<r>> \o p /\ Place(b) = <<s>> \o q
    BY <1>6, <2>1, JobType, PlaceType
  <2> HIDE DEF p, q
  <2>3. r = s
    <3>1. PICK v, w : v = <<r>> \o p /\ w = <<s>> \o q
      OBVIOUS
    <3>2. /\ v \in Seq(STRING) /\ Len(v) = Len(p) + 1 /\ v[1] = r
          /\ w \in Seq(STRING) /\ Len(w) = Len(q) + 1 /\ w[1] = s
      BY <1>1, <2>2, <3>1, Rooted
    <3>3. 1 \in 1..Len(v) /\ 1 \in 1..Len(w)
      BY <1>1, <3>2, LenProperties
    <3>4. v[1] = w[1]
      <4>1. IsPrefix(v, w) \/ IsPrefix(w, v)
        BY <1>2, <2>2, <3>1, Zenon
      <4> QED
        BY <3>2, <3>3, <4>1, PrefixElements
    <3> QED
      BY <3>2, <3>4
  <2> QED
    BY <1>1, <1>2, <2>2, <2>3, RootedPrefix
<1> QED
  BY <1>3, <1>4, <1>5, <1>6

\* A tree overlaps itself.
LEMMA OverlapsSelf == ASSUME TypeOK, NEW a \in Jobs PROVE Overlaps(a, a)
  BY JobType, PrefixSelf DEF Overlaps, RootContains

\* Jobs that have a directory of one machine in common meet.
LEMMA ShareMeets ==
    ASSUME TypeOK, NEW a \in Jobs, NEW b \in Jobs, Machine(a) = Machine(b),
           NEW d, d \in Below(a), d \in Below(b)
    PROVE  Meet(a, b)
<1>1. jobs \in Documents
  BY DEF TypeOK
<1> QED
  BY <1>1, SameMachine, SharedDirectory DEF Meet

\* What a run deletes was in its tree and in its way.
LEMMA DeletionsDoomed ==
    ASSUME NEW j, NEW gone \in Deletions(j)
    PROVE  /\ gone \subseteq Doomed(j)
           /\ jobs[j].maxDelete = Unset => gone = Doomed(j)
<1>1. CASE gone = Doomed(j)
  BY <1>1
<1>2. CASE gone # Doomed(j)
  <2>1. jobs[j].maxDelete # Unset
    BY <1>2 DEF Deletions
  <2>2. PICK f \in [1..jobs[j].maxDelete -> Doomed(j)] : gone = Range(f)
    BY <1>2 DEF Deletions
  <2>3. Range(f) \subseteq Doomed(j)
    BY DEF Range
  <2> QED
    BY <2>1, <2>2, <2>3
<1> QED
  BY <1>1, <1>2

\* Trees that overlap, of jobs whose keys root nothing, have a directory in common.
LEMMA CommonDirectory ==
    ASSUME TypeOK, NEW a \in Jobs, NEW b \in Jobs,
           jobs[a].jail = NoJail, jobs[b].jail = NoJail, Overlaps(a, b)
    PROVE  \E d : d \in Below(a) /\ d \in Below(b)
<1> DEFINE p == Clean(jobs[a].path)
           q == Clean(jobs[b].path)
<1>1. /\ p \in Seq(STRING) /\ q \in Seq(STRING) /\ p \in Dirs /\ q \in Dirs
      /\ Place(a) = p /\ Place(b) = q
  <2>1. /\ p \in Seq(STRING) /\ q \in Seq(STRING) /\ Place(a) = p /\ Place(b) = q
        /\ jobs[a].path \in Paths /\ jobs[b].path \in Paths
        /\ Walk(jobs[a].path) = p /\ Walk(jobs[b].path) = q
    BY JobType, PlaceType
  <2> HIDE DEF p, q
  <2>2. p \in Walked /\ q \in Walked
    BY <2>1 DEF Walked
  <2> QED
    BY <2>1, <2>2 DEF Dirs
<1>2. IsPrefix(p, p) /\ IsPrefix(q, q)
  BY <1>1, PrefixSelf
<1>3. IsPrefix(p, q) \/ IsPrefix(q, p)
  BY DEF Overlaps, RootContains
<1> QED
  BY <1>1, <1>2, <1>3 DEF Below

-------------------------------------------------------------------------------
\* The records.

\* What warnConflictingTree logs of a component, and when.
Record(C) == [members |-> AtRisk(C), deleting |-> Deleting(C)]

Conflicting(C) == Deleting(C) # {} /\ \E a, b \in C : a # b

\* Every finished component that conflicts has its record, and every record is
\* one of these.
WarnInv ==
    /\ pc = "warn" => component \in components
    /\ \A C \in components :
         (pc = "warn" => C # component) /\ Conflicting(C) => Record(C) \in warnings
    /\ \A w \in warnings : \E C \in components : Conflicting(C) /\ w = Record(C)

\* A file on a machine is where its job puts files.
RemoteInv ==
    \A f \in remote : /\ f[3] \in Jobs /\ f[1] = Machine(f[3])
                       /\ f[2] \in Below(f[3])

\* Fewer than two members is one job on its own, or none.
LEMMA TwoMembers ==
    ASSUME NEW C \in SUBSET Jobs
    PROVE  ~(Cardinality(C) < 2) <=> \E a, b \in C : a # b
<1>1. IsFiniteSet(Jobs)
  BY DocumentAssumption, FS_Interval DEF Jobs
<1>2. IsFiniteSet(C) /\ Cardinality(C) \in Nat
  BY <1>1, FS_Subset, FS_CardinalityType
<1>3. (Cardinality(C) = 0 <=> C = {}) /\ (Cardinality(C) = 1 <=> \E x : C = {x})
  BY <1>2, FS_EmptySet, FS_Singleton
<1>4. Cardinality(C) < 2 <=> Cardinality(C) = 0 \/ Cardinality(C) = 1
  BY <1>2
<1>5. (C = {} \/ \E x : C = {x}) <=> ~\E a, b \in C : a # b
  OBVIOUS
<1> QED
  BY <1>3, <1>4, <1>5

\* A record is about the document alone.
LEMMA SameRecord ==
    ASSUME UNCHANGED jobs
    PROVE  /\ \A C : Record(C)' = Record(C) /\ (Conflicting(C)' <=> Conflicting(C))
           /\ \A j : Machine(j)' = Machine(j) /\ Below(j)' = Below(j)
           /\ \A j : Excluded(j)' = Excluded(j)
  BY DEF Record, Conflicting, AtRisk, Deleting, overlapsAny, Overlaps, Machine, Place,
     Below, Excluded

\* warnConflictingTree is called on every component before the next is grown.
LEMMA WarnStep == GrowInv /\ WarnInv /\ [Next]_vars => WarnInv'
<1> SUFFICES ASSUME GrowInv, WarnInv, [Next]_vars PROVE WarnInv'
  OBVIOUS
<1>b. UNCHANGED jobs
  BY DEF Next, NextGroup, Seed, Absorb, SweepEnds, warnConflictingTree, Mirror, Done,
     Stop, vars
<1>c. /\ \A C : Record(C)' = Record(C)
      /\ \A C : Conflicting(C)' <=> Conflicting(C)
  BY <1>b, SameRecord
<1>1. ASSUME UNCHANGED <<components, warnings>>, pc # "warn", pc' # "warn"
      PROVE  WarnInv'
  BY <1>1, <1>c DEF WarnInv
<1>2. CASE NextGroup \/ Seed \/ Absorb \/ Mirror \/ Done
  BY <1>2, <1>1 DEF NextGroup, Seed, Absorb, Mirror, Done
<1>3. CASE SweepEnds
  <2>1. CASE SweepAgain
    BY <1>1, <1>3, <2>1 DEF SweepEnds
  <2>2. CASE ~SweepAgain
    <3>1. /\ pc = "sweep" /\ pc' = "warn" /\ components' = components \cup {component}
          /\ UNCHANGED <<component, warnings>>
      BY <1>3, <2>2 DEF SweepEnds
    <3> QED
      BY <1>c, <3>1 DEF WarnInv
  <2> QED
    BY <2>1, <2>2
<1>4. CASE warnConflictingTree
  <2>1. pc = "warn" /\ pc' = "seed" /\ UNCHANGED <<component, components>>
    BY <1>4 DEF warnConflictingTree, loopVars
  <2>2. warnings' = IF Conflicting(component) THEN warnings \cup {Record(component)}
                                              ELSE warnings
    <3>1. ~(Cardinality(component) < 2) <=> \E a, b \in component : a # b
      BY TwoMembers DEF GrowInv, TypeOK
    <3> QED
      BY <1>4, <3>1 DEF warnConflictingTree, Conflicting, Record
  <2> QED
    BY <1>c, <2>1, <2>2 DEF WarnInv
<1>5. CASE UNCHANGED vars
  <2>1. UNCHANGED <<pc, component, components, warnings>>
    BY <1>5 DEF vars, loopVars
  <2> QED
    BY <1>c, <2>1 DEF WarnInv
<1> QED
  BY <1>2, <1>3, <1>4, <1>5 DEF Next, Stop

\* Jobs that meet are in one component when the passes begin; with a deleting
\* one among them it has a record, of both.
LEMMA MeetIsAdvised ==
    ASSUME GrowInv, WarnInv, pc \in {"mirror", "done"}, NEW a \in Jobs, NEW b \in Jobs,
           a # b, Meet(a, b), jobs[a].del
    PROVE  \E C \in components : /\ Record(C) \in warnings /\ a \in Deleting(C)
                                  /\ a \in AtRisk(C) /\ b \in AtRisk(C)
<1>1. PICK C \in components : a \in C
  BY DEF GrowInv, TakenInv
<1>2. b \in C
  BY <1>1 DEF GrowInv, DoneInv, Closed, Meet
<1>3. a \in Deleting(C) /\ Conflicting(C)
  BY <1>1, <1>2 DEF Deleting, Conflicting
<1>4. Record(C) \in warnings
  BY <1>1, <1>3 DEF WarnInv
<1>5. Overlaps(a, b) /\ Overlaps(a, a)
  <2>1. TypeOK
    BY DEF GrowInv
  <2> QED
    BY <2>1, OverlapsSelf DEF Meet
<1>6. a \in AtRisk(C) /\ b \in AtRisk(C)
  BY <1>1, <1>2, <1>3, <1>5 DEF AtRisk, overlapsAny
<1> QED
  BY <1>3, <1>4, <1>6

LossInv == RemoteInv /\ LossIsAdvised /\ runs \in Nat

\* A run of a job deletes only files whose jobs meet it.
LEMMA LossStep == GrowInv /\ WarnInv /\ LossInv /\ [Next]_vars => LossInv'
<1> SUFFICES ASSUME GrowInv, WarnInv, LossInv, [Next]_vars PROVE LossInv'
  OBVIOUS
<1>b. UNCHANGED jobs
  BY DEF Next, NextGroup, Seed, Absorb, SweepEnds, warnConflictingTree, Mirror, Done,
     Stop, vars
<1>c. \A j : Machine(j)' = Machine(j) /\ Below(j)' = Below(j)
  BY <1>b, SameRecord
<1>1. ASSUME UNCHANGED <<remote, lost, runs>>, warnings \subseteq warnings'
      PROVE  LossInv'
  BY <1>1, <1>c DEF LossInv, RemoteInv, LossIsAdvised
<1>2. CASE NextGroup \/ Seed \/ Absorb \/ SweepEnds \/ Done \/ UNCHANGED vars
  BY <1>1, <1>2 DEF NextGroup, Seed, Absorb, SweepEnds, Done, vars
<1>3. CASE warnConflictingTree
  BY <1>1, <1>3 DEF warnConflictingTree
<1>4. CASE Mirror
  <2>1. PICK j : j = (runs % NJobs) + 1
    OBVIOUS
  <2>2. PICK gone \in Deletions(j) :
           /\ remote' = (remote \ gone)
                        \cup {<<Machine(j), d, j>> : d \in Below(j) \ Excluded(j)}
           /\ lost' = lost \cup {<<j, f[3]>> : f \in gone}
           /\ runs' = runs + 1 /\ UNCHANGED warnings /\ pc = "mirror"
    BY <1>4, <2>1 DEF Mirror
  <2>3. j \in Jobs
    BY <2>1, DocumentAssumption DEF LossInv, Jobs
  <2>4. \A f \in remote' : /\ f[3] \in Jobs /\ f[1] = Machine(f[3])
                            /\ f[2] \in Below(f[3])
    BY <2>2, <2>3 DEF LossInv, RemoteInv
  <2>5. RemoteInv'
    BY <1>c, <2>4 DEF RemoteInv
  <2>6. ASSUME NEW f \in gone
        PROVE  \E w \in warnings : j \in w.deleting /\ {j, f[3]} \subseteq w.members
    <3>1. /\ f \in remote /\ jobs[j].del /\ f[3] # j /\ f[1] = Machine(j)
          /\ f[2] \in Below(j) /\ f[2] \in Below(f[3]) /\ f[1] = Machine(f[3])
          /\ f[3] \in Jobs
      BY DeletionsDoomed DEF LossInv, RemoteInv, Doomed
    <3>2. PICK m \in Jobs : m = f[3]
      BY <3>1
    <3>3. Meet(j, m)
      <4>1. TypeOK
        BY DEF GrowInv
      <4> QED
        BY <2>3, <3>1, <3>2, <4>1, ShareMeets
    <3>4. PICK C \in components :
               /\ Record(C) \in warnings /\ j \in Deleting(C)
               /\ j \in AtRisk(C) /\ m \in AtRisk(C)
      BY <2>2, <2>3, <3>1, <3>2, <3>3, MeetIsAdvised
    <3>5. /\ j \in Record(C).deleting /\ {j, m} \subseteq Record(C).members
      BY <3>4 DEF Record
    <3> QED
      BY <3>2, <3>4, <3>5
  <2>7. LossIsAdvised'
    <3> SUFFICES ASSUME NEW p \in lost'
                 PROVE  \E w \in warnings : p[1] \in w.deleting
                                            /\ {p[1], p[2]} \subseteq w.members
      BY <2>2 DEF LossIsAdvised
    <3>1. CASE p \in lost
      BY <3>1 DEF LossInv, LossIsAdvised
    <3>2. CASE p \notin lost
      <4>1. PICK f \in gone : p = <<j, f[3]>>
        BY <2>2, <3>2
      <4> QED
        BY <2>6, <4>1
    <3> QED
      BY <3>1, <3>2
  <2> QED
    BY <2>2, <2>5, <2>7 DEF LossInv
<1> QED
  BY <1>2, <1>3, <1>4 DEF Next, Stop

\* All three invariants hold together.
LEMMA LossInvariance == Spec => [](GrowInv /\ WarnInv /\ LossInv)
<1>1. Init => WarnInv /\ LossInv
  BY DEF Init, WarnInv, LossInv, RemoteInv, LossIsAdvised
<1>2. GrowInv /\ WarnInv /\ LossInv /\ [Next]_vars => WarnInv' /\ LossInv'
  BY WarnStep, LossStep
<1> QED
  BY <1>1, <1>2, GrowInvariance, PTL DEF Spec

\* warnSharedDestinations misses no loss: when a pass deletes what another job
\* put on the remote, one record named both before the first pass.
THEOREM LossProved == Spec => []LossIsAdvised
<1>1. LossInv => LossIsAdvised
  BY DEF LossInv
<1> QED
  BY <1>1, LossInvariance, PTL

-------------------------------------------------------------------------------
\* Whom the records are about.

\* The number of the job's last run, 0 before the first.
LastRun(j) == IF runs >= NJobs + j THEN NJobs + j ELSE IF runs >= j THEN j ELSE 0

\* Job d has run after a run of job o.
RanAfter(d, o) == (o < d /\ runs >= d) \/ runs >= NJobs + d

\* Two jobs have a directory of one machine in common.
Share(a, b, dir) ==
    Machine(a) = Machine(b) /\ dir \in Below(a) /\ dir \in Below(b)

\* Which job a pass has come to.
LEMMA RunOf ==
    ASSUME NEW r \in Nat, r < 2 * NJobs, NEW j, j = (r % NJobs) + 1
    PROVE  j \in Jobs /\ (r + 1 = j \/ r + 1 = NJobs + j)
<1>1. NJobs \in Nat \ {0}
  BY DocumentAssumption
<1>2. r % NJobs = IF r < NJobs THEN r ELSE r - NJobs
  BY <1>1
<1> QED
  BY <1>1, <1>2 DEF Jobs

\* A run of job j is the last of j, and nobody else's.
LEMMA LastRunMoves ==
    ASSUME runs \in Nat, runs' = runs + 1, NEW j \in Jobs,
           runs + 1 = j \/ runs + 1 = NJobs + j
    PROVE  /\ LastRun(j)' = runs + 1
           /\ \A i \in Jobs : LastRun(i) \in 0..runs
           /\ \A i \in Jobs : i # j => LastRun(i)' = LastRun(i)
           /\ \A d, o \in Jobs : d # j => (RanAfter(d, o)' <=> RanAfter(d, o))
           /\ \A o \in Jobs : o # j /\ RanAfter(j, o)' =>
                RanAfter(j, o) \/ LastRun(o) > LastRun(j)
<1>1. NJobs \in Nat \ {0}
  BY DocumentAssumption
<1> QED
  BY <1>1 DEF LastRun, RanAfter, Jobs

\* The passes run every job twice, in order, once the advisory is out.
RunsInv ==
    /\ runs \in 0..(2 * NJobs)
    /\ pc \notin {"mirror", "done"} => runs = 0
    /\ pc = "done" => runs = 2 * NJobs

\* A loss is between two jobs that meet, the first of them deleting.
LostInv ==
    \A a, b : <<a, b>> \in lost =>
        a \in Jobs /\ b \in Jobs /\ a # b /\ Meet(a, b) /\ jobs[a].del

\* Neither the job nor any it meets is protected.
Open(d) == Unprotected(d) /\ \A x \in Jobs : Meet(d, x) => Unprotected(x)

\* What a job that ran later left in a shared directory is still there, or what a
\* third job put in its place.
SpoilInv ==
    \A d, o \in Jobs : \A dir :
        d # o /\ jobs[d].del /\ Open(d) /\ Share(d, o, dir) /\ LastRun(o) > LastRun(d) =>
            \E x \in Jobs \ {d} : <<Machine(d), dir, x>> \in remote

\* A job that has run has its files, or has lost some.
KeepInv ==
    \A o \in Jobs : \A dir \in Below(o) :
        Unprotected(o) /\ LastRun(o) > 0 =>
            <<Machine(o), dir, o>> \in remote \/ \E x : <<x, o>> \in lost

\* A deleting job that ran after one it meets has taken files, and the other has
\* lost some.
TakeInv ==
    \A d, o \in Jobs : \A dir :
        d # o /\ jobs[d].del /\ Open(d) /\ Share(d, o, dir) /\ RanAfter(d, o) =>
            (\E x : <<d, x>> \in lost) /\ (\E x : <<x, o>> \in lost)

PassInv == RunsInv /\ LostInv /\ SpoilInv /\ KeepInv /\ TakeInv

\* Protection is about the document.
LEMMA SameProtection ==
    ASSUME UNCHANGED jobs
    PROVE  \A j : (Unprotected(j)' <=> Unprotected(j)) /\ (Open(j)' <=> Open(j))
<1>1. \A j : Unprotected(j)' <=> Unprotected(j)
  BY DEF Unprotected
<1>2. \A a, b : Meet(a, b)' <=> Meet(a, b)
  BY SameDocument
<1> QED
  BY <1>1, <1>2 DEF Open

\* Nothing is excluded from an unprotected job's tree, which its key does not move.
LEMMA UnprotectedRuns ==
    ASSUME NEW j, Unprotected(j)
    PROVE  /\ Excluded(j) = {} /\ jobs[j].maxDelete = Unset /\ jobs[j].jail = NoJail
           /\ \A gone \in Deletions(j) : gone = Doomed(j)
  BY DeletionsDoomed DEF Unprotected, Excluded

\* They are about the document, the count of runs, the files and the losses.
LEMMA SamePasses ==
    ASSUME UNCHANGED <<jobs, runs, remote, lost>>
    PROVE  /\ LostInv => LostInv'
           /\ SpoilInv => SpoilInv'
           /\ KeepInv => KeepInv'
           /\ TakeInv => TakeInv'
<1>a. /\ \A j : Machine(j)' = Machine(j) /\ Below(j)' = Below(j)
      /\ \A j : LastRun(j)' = LastRun(j)
      /\ \A d, o : RanAfter(d, o)' <=> RanAfter(d, o)
      /\ \A j : (Unprotected(j)' <=> Unprotected(j)) /\ (Open(j)' <=> Open(j))
  BY SameRecord, SameProtection DEF LastRun, RanAfter
<1>b. \A d, o, dir : Share(d, o, dir)' <=> Share(d, o, dir)
  BY <1>a DEF Share
<1>1. LostInv => LostInv'
  BY DEF LostInv, Meet, KeyOf, Overlaps
<1>2. SpoilInv => SpoilInv'
  BY <1>a, <1>b DEF SpoilInv
<1>3. KeepInv => KeepInv'
  BY <1>a DEF KeepInv
<1>4. TakeInv => TakeInv'
  BY <1>a, <1>b DEF TakeInv
<1> QED
  BY <1>1, <1>2, <1>3, <1>4

\* A run of job j: it writes its own tree, and with --delete takes what others
\* have there.
LEMMA MirrorStep ==
    ASSUME TypeOK, RemoteInv, PassInv, Mirror
    PROVE  LostInv' /\ SpoilInv' /\ KeepInv' /\ TakeInv'
<1>a. UNCHANGED jobs
  BY DEF Mirror
<1>b. /\ \A i : Machine(i)' = Machine(i) /\ Below(i)' = Below(i)
      /\ \A a, b : Meet(a, b)' <=> Meet(a, b)
      /\ \A i : (Unprotected(i)' <=> Unprotected(i)) /\ (Open(i)' <=> Open(i))
  BY <1>a, SameRecord, SameDocument, SameProtection
<1>c. \A a, b, dir : Share(a, b, dir)' <=> Share(a, b, dir)
  BY <1>b DEF Share
<1>d. LostInv /\ SpoilInv /\ KeepInv /\ TakeInv
  BY DEF PassInv
<1>1. PICK j : j = (runs % NJobs) + 1
  OBVIOUS
<1>2. PICK gone \in Deletions(j) :
         /\ remote' = (remote \ gone)
                      \cup {<<Machine(j), d, j>> : d \in Below(j) \ Excluded(j)}
         /\ lost' = lost \cup {<<j, f[3]>> : f \in gone}
         /\ runs' = runs + 1 /\ runs < 2 * NJobs
  BY <1>1 DEF Mirror
<1>g. /\ \A f \in gone : /\ f \in remote /\ jobs[j].del /\ f[3] # j /\ f[1] = Machine(j)
                           /\ f[2] \in Below(j)
      /\ Unprotected(j) =>
            \A f \in remote : jobs[j].del /\ f[3] # j /\ f[1] = Machine(j) /\ f[2] \in Below(j)
                                => f \in gone
  <2>1. gone \subseteq Doomed(j)
    BY DeletionsDoomed
  <2>2. Unprotected(j) => gone = Doomed(j) /\ Excluded(j) = {}
    BY UnprotectedRuns
  <2> QED
    BY <2>1, <2>2 DEF Doomed
<1>3. runs \in Nat
  BY DocumentAssumption DEF PassInv, RunsInv
<1>4. j \in Jobs /\ (runs + 1 = j \/ runs + 1 = NJobs + j)
  BY <1>1, <1>2, <1>3, RunOf
<1>5. /\ LastRun(j)' = runs + 1
      /\ \A i \in Jobs : LastRun(i) \in 0..runs
      /\ \A i \in Jobs : i # j => LastRun(i)' = LastRun(i)
      /\ \A d, o \in Jobs : d # j => (RanAfter(d, o)' <=> RanAfter(d, o))
      /\ \A o \in Jobs : o # j /\ RanAfter(j, o)' =>
                RanAfter(j, o) \/ LastRun(o) > LastRun(j)
  BY <1>2, <1>3, <1>4, LastRunMoves
\* What the run does to one file.
<1>6. ASSUME NEW x \in Jobs, x # j, NEW dir, <<Machine(x), dir, x>> \in remote
      PROVE  \/ <<Machine(x), dir, x>> \in remote'
             \/ /\ jobs[j].del /\ Machine(j) = Machine(x) /\ dir \in Below(j)
                /\ <<j, x>> \in lost'
  <2>1. PICK f : f = <<Machine(x), dir, x>>
    OBVIOUS
  <2>2. f \in remote /\ f[1] = Machine(x) /\ f[2] = dir /\ f[3] = x
    BY <1>6, <2>1
  <2>3. CASE f \in gone
    BY <1>2, <1>g, <2>2, <2>3
  <2>4. CASE f \notin gone
    BY <1>2, <2>1, <2>2, <2>4
  <2> QED
    BY <2>3, <2>4
<1>7. Unprotected(j) => \A dir \in Below(j) : <<Machine(j), dir, j>> \in remote'
  <2>1. Unprotected(j) => Below(j) \ Excluded(j) = Below(j)
    BY UnprotectedRuns
  <2> QED
    BY <1>2, <2>1
<1>8. \A a, b : <<a, b>> \in lost => <<a, b>> \in lost'
  BY <1>2
<1>9. LostInv'
  <2> SUFFICES ASSUME NEW a, NEW b, <<a, b>> \in lost'
               PROVE  a \in Jobs /\ b \in Jobs /\ a # b /\ Meet(a, b) /\ jobs[a].del
    BY <1>a, <1>b DEF LostInv
  <2>1. CASE <<a, b>> \in lost
    BY <1>d, <2>1 DEF LostInv
  <2>2. CASE <<a, b>> \notin lost
    <3>1. PICK f \in gone : <<a, b>> = <<j, f[3]>>
      BY <1>2, <2>2
    <3>2. a = j /\ b = f[3] /\ b # j /\ jobs[j].del /\ f \in remote
      BY <1>g, <3>1
    <3>3. /\ b \in Jobs /\ Machine(j) = Machine(b)
          /\ f[2] \in Below(j) /\ f[2] \in Below(b)
      BY <1>g, <3>1, <3>2 DEF RemoteInv
    <3>4. Meet(j, b)
      BY <1>4, <3>3, ShareMeets
    <3> QED
      BY <1>4, <3>2, <3>3, <3>4
  <2> QED
    BY <2>1, <2>2
<1>10. SpoilInv'
  <2> SUFFICES ASSUME NEW d \in Jobs, NEW o \in Jobs, NEW dir, d # o, jobs[d].del,
                      Open(d), Share(d, o, dir), LastRun(o)' > LastRun(d)'
               PROVE  \E x \in Jobs \ {d} : <<Machine(d), dir, x>> \in remote'
    BY <1>a, <1>b, <1>c DEF SpoilInv
  <2>a. \A x \in Jobs : Machine(x) = Machine(d) /\ dir \in Below(x) => Unprotected(x)
    <3>1. dir \in Below(d)
      BY DEF Share
    <3> QED
      BY <3>1, ShareMeets DEF Open
  <2>1. CASE j = o
    BY <1>7, <2>1, <2>a DEF Share
  <2>2. CASE j = d
    <3>1. LastRun(d)' = runs + 1 /\ LastRun(o)' \in 0..runs
      BY <1>5, <2>2
    <3> QED
      BY <1>3, <3>1
  <2>3. CASE j # o /\ j # d
    <3>1. LastRun(o) > LastRun(d)
      BY <1>5, <2>3
    <3>2. PICK x \in Jobs \ {d} : <<Machine(d), dir, x>> \in remote
      BY <1>d, <3>1 DEF SpoilInv
    <3>3. Machine(x) = Machine(d)
      <4>1. PICK f \in remote : f = <<Machine(d), dir, x>>
        BY <3>2
      <4>2. f[1] = Machine(d) /\ f[3] = x
        BY <4>1
      <4> QED
        BY <4>1, <4>2 DEF RemoteInv
    <3>4. CASE x = j
      <4>1. PICK f \in remote : f = <<Machine(d), dir, x>>
        BY <3>2
      <4>2. f[2] = dir /\ f[3] = x
        BY <4>1
      <4>3. dir \in Below(j)
        BY <3>4, <4>1, <4>2 DEF RemoteInv
      <4> QED
        BY <1>7, <2>3, <2>a, <3>3, <3>4, <4>3
    <3>5. CASE x # j
      BY <1>4, <1>6, <1>7, <2>3, <2>a, <3>2, <3>3, <3>5
    <3> QED
      BY <3>4, <3>5
  <2> QED
    BY <2>1, <2>2, <2>3
<1>11. KeepInv'
  <2> SUFFICES ASSUME NEW o \in Jobs, NEW dir \in Below(o), Unprotected(o), LastRun(o)' > 0
               PROVE  <<Machine(o), dir, o>> \in remote' \/ \E x : <<x, o>> \in lost'
    BY <1>b DEF KeepInv
  <2>1. CASE o = j
    BY <1>7, <2>1
  <2>2. CASE o # j
    <3>1. LastRun(o) > 0
      BY <1>5, <2>2
    <3>2. <<Machine(o), dir, o>> \in remote \/ \E x : <<x, o>> \in lost
      BY <1>d, <3>1 DEF KeepInv
    <3> QED
      BY <1>6, <1>8, <2>2, <3>2
  <2> QED
    BY <2>1, <2>2
<1>12. TakeInv'
  <2> SUFFICES ASSUME NEW d \in Jobs, NEW o \in Jobs, NEW dir, d # o, jobs[d].del,
                      Open(d), Share(d, o, dir), RanAfter(d, o)'
               PROVE  (\E x : <<d, x>> \in lost') /\ (\E x : <<x, o>> \in lost')
    BY <1>a, <1>b, <1>c DEF TakeInv
  <2>a. Unprotected(d) /\ Unprotected(o)
    BY ShareMeets DEF Open, Share
  <2>1. CASE RanAfter(d, o)
    <3>1. (\E x : <<d, x>> \in lost) /\ (\E x : <<x, o>> \in lost)
      BY <1>d, <2>1 DEF TakeInv
    <3> QED
      BY <1>8, <3>1
  <2>2. CASE ~RanAfter(d, o)
    <3>1. d = j /\ LastRun(o) > LastRun(d)
      BY <1>5, <2>2
    <3>2. LastRun(o) > 0
      <4>1. LastRun(o) \in Nat /\ LastRun(d) \in Nat
        BY <1>3, <1>5
      <4> QED
        BY <3>1, <4>1
    <3>3. PICK x \in Jobs \ {d} : <<Machine(d), dir, x>> \in remote
      BY <1>d, <3>1 DEF SpoilInv
    <3>4. <<d, x>> \in lost'
      <4>1. PICK f \in remote : f = <<Machine(d), dir, x>>
        BY <3>3
      <4>2. f[1] = Machine(d) /\ f[2] = dir /\ f[3] = x
        BY <4>1
      <4>3. f \in gone
        BY <1>g, <2>a, <3>1, <3>3, <4>1, <4>2 DEF Share
      <4> QED
        BY <1>2, <3>1, <4>2, <4>3
    <3>5. <<Machine(o), dir, o>> \in remote \/ \E y : <<y, o>> \in lost
      BY <1>d, <2>a, <3>2 DEF KeepInv, Share
    <3>6. CASE <<Machine(o), dir, o>> \in remote
      <4>1. PICK f \in remote : f = <<Machine(o), dir, o>>
        BY <3>6
      <4>2. f[1] = Machine(o) /\ f[2] = dir /\ f[3] = o
        BY <4>1
      <4>3. f \in gone
        BY <1>g, <2>a, <3>1, <4>1, <4>2 DEF Share
      <4> QED
        BY <1>2, <3>1, <3>4, <4>2, <4>3
    <3> QED
      BY <1>8, <3>4, <3>5, <3>6
  <2> QED
    BY <2>1, <2>2
<1> QED
  BY <1>9, <1>10, <1>11, <1>12

\* PassInv is kept by every step.
LEMMA PassStep == TypeOK /\ RemoteInv /\ PassInv /\ [Next]_vars => PassInv'
<1> SUFFICES ASSUME TypeOK, RemoteInv, PassInv, [Next]_vars PROVE PassInv'
  OBVIOUS
<1>a. NJobs \in Nat \ {0}
  BY DocumentAssumption
<1>b. RunsInv
  BY DEF PassInv
<1>1. ASSUME UNCHANGED <<jobs, runs, remote, lost>>, RunsInv'
      PROVE  PassInv'
  BY <1>1, SamePasses DEF PassInv
<1>2. CASE NextGroup \/ Seed \/ Absorb \/ SweepEnds \/ warnConflictingTree
  <2>1. /\ UNCHANGED <<jobs, runs, remote, lost>>
        /\ pc \notin {"mirror", "done"} /\ pc' # "done"
    BY <1>2 DEF NextGroup, Seed, Absorb, SweepEnds, warnConflictingTree
  <2>2. RunsInv'
    BY <1>a, <1>b, <2>1 DEF RunsInv
  <2> QED
    BY <1>1, <2>1, <2>2
<1>3. CASE Mirror
  <2>1. RunsInv'
    <3>1. runs' = runs + 1 /\ runs < 2 * NJobs /\ pc = "mirror" /\ pc' = pc
      BY <1>3 DEF Mirror
    <3> QED
      BY <1>a, <1>b, <3>1 DEF RunsInv
  <2> QED
    BY <1>3, <2>1, MirrorStep DEF PassInv
<1>4. CASE Done
  BY <1>1, <1>4, <1>b DEF Done, RunsInv
<1>5. CASE UNCHANGED vars
  BY <1>1, <1>5, <1>b DEF vars, RunsInv
<1> QED
  BY <1>2, <1>3, <1>4, <1>5 DEF Next, Stop

\* All four invariants hold together.
LEMMA PassInvariance == Spec => [](GrowInv /\ WarnInv /\ LossInv /\ PassInv)
<1>1. Init => PassInv
  <2> SUFFICES ASSUME Init PROVE PassInv
    OBVIOUS
  <2>1. NJobs \in Nat \ {0}
    BY DocumentAssumption
  <2>2. \A i \in Jobs : LastRun(i) = 0
    BY <2>1 DEF Init, LastRun, Jobs
  <2>3. \A d, o \in Jobs : ~RanAfter(d, o)
    BY <2>1 DEF Init, RanAfter, Jobs
  <2>4. RunsInv
    BY <2>1 DEF Init, RunsInv
  <2>5. LostInv /\ SpoilInv /\ KeepInv /\ TakeInv
    BY <2>2, <2>3 DEF Init, LostInv, SpoilInv, KeepInv, TakeInv
  <2> QED
    BY <2>4, <2>5 DEF PassInv
<1>2. GrowInv /\ LossInv /\ PassInv /\ [Next]_vars => PassInv'
  BY PassStep DEF GrowInv, LossInv
<1> QED
  BY <1>1, <1>2, LossInvariance, PTL DEF Spec

\* After two passes a deleting job has taken files from some job, and every job it
\* meets has lost some.
LEMMA MeetIsLost ==
    ASSUME TypeOK, PassInv, pc = "done", NEW d \in Jobs, NEW o \in Jobs, d # o,
           Meet(d, o), jobs[d].del, Open(d)
    PROVE  (\E x : <<d, x>> \in lost) /\ (\E x : <<x, o>> \in lost)
<1>1. NJobs \in Nat \ {0}
  BY DocumentAssumption
<1>2. RanAfter(d, o)
  BY <1>1 DEF PassInv, RunsInv, RanAfter, Jobs
<1>3. PICK dir : Share(d, o, dir)
  <2>1. jobs[d].jail = NoJail /\ jobs[o].jail = NoJail
    BY UnprotectedRuns DEF Open
  <2> QED
    BY <2>1, SameMachine, CommonDirectory DEF Meet, Share
<1> QED
  BY <1>2, <1>3 DEF PassInv, TakeInv

\* A member of a component of two meets another member, and they are all on one host.
LEMMA ConnectedMeets ==
    ASSUME NEW C \in SUBSET Jobs, Connected(C), NEW m \in C, NEW x \in C
    PROVE  /\ KeyOf(m) = KeyOf(x)
           /\ x # m => \E o \in C \ {m} : Meet(m, o)
<1>1. KeyOf(m) = KeyOf(x)
  <2> DEFINE S == {y \in C : KeyOf(y) = KeyOf(m)}
  <2>1. S = C
    <3>1. S \in SUBSET C /\ S # {}
      OBVIOUS
    <3>2. ~\E a \in S, b \in C \ S : KeyOf(a) = KeyOf(b)
      OBVIOUS
    <3> QED
      BY <3>1, <3>2 DEF Connected
  <2> QED
    BY <2>1
<1>2. ASSUME x # m PROVE \E o \in C \ {m} : Meet(m, o)
  <2>1. {m} \in SUBSET C /\ {m} # {} /\ {m} # C
    BY <1>2
  <2>2. PICK a \in {m}, b \in C \ {m} : KeyOf(a) = KeyOf(b) /\ Overlaps(a, b)
    BY <2>1 DEF Connected
  <2> QED
    BY <2>2 DEF Meet
<1> QED
  BY <1>1, <1>2

\* Where nothing protects its members, a record raises no false alarm: every job it
\* counts has taken or lost files within two passes, on account of another one.
THEOREM AdvisedProved == Spec => []AdvisedAreAffected
<1>1. ASSUME GrowInv, WarnInv, PassInv PROVE AdvisedAreAffected
  <2> SUFFICES ASSUME pc = "done", NEW w \in warnings, NEW m \in w.members,
                      \A x \in w.members : Unprotected(x)
               PROVE  \E o \in w.members \ {m} : <<m, o>> \in lost \/ <<o, m>> \in lost
    BY DEF AdvisedAreAffected
  <2>a. TypeOK /\ LostInv
    BY <1>1 DEF GrowInv, PassInv
  <2>1. PICK C \in components : Conflicting(C) /\ w = Record(C)
    BY <1>1 DEF WarnInv
  <2>2. w.members = AtRisk(C) /\ m \in AtRisk(C) /\ m \in C
    BY <2>1 DEF Record, AtRisk
  <2>3. C \in SUBSET Jobs /\ Connected(C) /\ Closed(C)
    BY <1>1, <2>1 DEF GrowInv, TakenInv, DoneInv
  <2>4. \A x \in C : \A y \in Jobs : x \in Jobs /\ Meet(x, y) => y \in C
    BY <2>3 DEF Closed, Meet
  \* Both ends of a loss are members of the record when one of them is in C.
  <2>5. ASSUME NEW a, NEW b, <<a, b>> \in lost, a \in C \/ b \in C
        PROVE  a \in AtRisk(C) /\ b \in AtRisk(C) /\ a # b
    <3>1. a \in Jobs /\ b \in Jobs /\ a # b /\ Meet(a, b) /\ Meet(b, a) /\ jobs[a].del
      BY <2>5, <2>a, MeetSymmetric DEF LostInv
    <3>2. a \in C /\ b \in C
      BY <2>4, <2>5, <3>1
    <3>3. Overlaps(a, a)
      BY <2>a, <3>1, OverlapsSelf
    <3> QED
      BY <3>1, <3>2, <3>3 DEF AtRisk, Deleting, overlapsAny, Meet
  \* A deleting member is open to all it meets: they are members.
  <2>o. ASSUME NEW d \in C, jobs[d].del PROVE Open(d)
    <3>1. d \in Jobs /\ Overlaps(d, d)
      BY <2>a, <2>3, OverlapsSelf
    <3>2. d \in AtRisk(C)
      BY <2>o, <3>1 DEF AtRisk, Deleting, overlapsAny
    <3>3. \A x \in Jobs : Meet(d, x) => x \in AtRisk(C)
      BY <2>4, <2>o, <3>1 DEF AtRisk, Deleting, overlapsAny, Meet
    <3> QED
      BY <2>2, <3>2, <3>3 DEF Open
  <2>6. CASE jobs[m].del
    <3>1. PICK x \in C : x # m
      BY <2>1 DEF Conflicting
    <3>2. PICK o \in C \ {m} : Meet(m, o)
      BY <2>2, <2>3, <3>1, ConnectedMeets
    <3>3. PICK y : <<m, y>> \in lost
      BY <1>1, <2>a, <2>2, <2>3, <2>6, <2>o, <3>2, MeetIsLost
    <3> QED
      BY <2>2, <2>5, <3>3
  <2>7. CASE ~jobs[m].del
    <3>1. PICK d \in C : jobs[d].del /\ Overlaps(d, m)
      BY <2>2 DEF AtRisk, overlapsAny, Deleting
    <3>2. Meet(d, m) /\ d # m
      BY <2>2, <2>3, <2>7, <3>1, ConnectedMeets DEF Meet
    <3>3. PICK x : <<x, m>> \in lost
      BY <1>1, <2>a, <2>2, <2>3, <2>o, <3>1, <3>2, MeetIsLost
    <3> QED
      BY <2>2, <2>5, <3>3
  <2> QED
    BY <2>6, <2>7
<1> QED
  BY <1>1, PassInvariance, PTL
===============================================================================
