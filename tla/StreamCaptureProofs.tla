-------------------------- MODULE StreamCaptureProofs --------------------------
(***************************************************************************)
(* What is kept of rsync's stderr, for any stream, any warning, any caps     *)
(* and any cut of the stream into chunks.                                    *)
(***************************************************************************)
EXTENDS StreamCapture, SequenceTheorems, FiniteSetTheorems, WellFoundedInduction, TLAPS

Captures == [prefixIndex: 0..Len(Warn), unmatched: BOOLEAN, limited: BOOLEAN]

\* Position k of s is the first of a line.
LineBegins(s, k) == k = 1 \/ s[k - 1] = Newline

\* The warning is at position k of s, which begins a line.
Warns(s, k) ==
    /\ LineBegins(s, k) /\ k + Len(Warn) - 1 <= Len(s)
    /\ \A n \in 1..Len(Warn) : s[k + n - 1] = Warn[n]

\* The line at k has not ended.
OpenLine(s, k) ==
    /\ k \in 1..(Len(s) + 1) /\ LineBegins(s, k)
    /\ \A m \in k..Len(s) : s[m] # Newline

\* What a capture that has scanned s knows of it: whether some line warned, and
\* if none did, how much of the warning the line that is open begins with.
Matched(c, s, k) ==
    /\ OpenLine(s, k) /\ c.prefixIndex < Len(Warn)
    /\ \A n \in 1..c.prefixIndex : s[k + n - 1] = Warn[n]
    /\ IF c.unmatched
         THEN /\ k + c.prefixIndex <= Len(s)
              /\ s[k + c.prefixIndex] # Warn[c.prefixIndex + 1]
         ELSE k + c.prefixIndex = Len(s) + 1

Tracks(c, s) ==
    /\ c \in Captures
    /\ c.limited <=> \E k \in 1..Len(s) : Warns(s, k)
    /\ ~c.limited => \E k \in 1..(Len(s) + 1) : Matched(c, s, k)

\* The parts of the assumption the proofs use.
LEMMA WarnType ==
    /\ Warn \in Seq(Bytes) /\ Len(Warn) \in Nat \ {0}
    /\ \A n \in 1..Len(Warn) : Warn[n] \in Bytes /\ Warn[n] # Newline
<1>1. Warn \in Seq(Bytes \ {Newline}) /\ Warn # <<>>
  BY StreamAssumption
<1>2. \A n \in 1..Len(Warn) : Warn[n] \in Bytes \ {Newline}
  BY <1>1, ElementOfSeq
<1> QED
  BY <1>1, <1>2, SeqMonotonic, EmptySeq

\* A warning that ends with the byte just read is on the line that is open.
LEMMA OnOpenLine ==
    ASSUME NEW s \in Seq(Bytes), NEW b \in Bytes, b # Newline,
           NEW u, u = Append(s, b), NEW k \in 1..(Len(s) + 1), OpenLine(s, k),
           NEW l \in 1..Len(u), Warns(u, l), l + Len(Warn) - 1 = Len(u)
    PROVE  l = k
<1>a. /\ Len(s) \in Nat /\ Len(u) = Len(s) + 1
      /\ \A m \in 1..Len(s) : u[m] = s[m]
  BY LenProperties, AppendProperties
<1>b. Len(Warn) \in Nat \ {0} /\ \A n \in 1..Len(Warn) : Warn[n] # Newline
  BY WarnType
<1>c. \A n \in 1..Len(Warn) : u[l + n - 1] # Newline
  BY <1>b DEF Warns
<1>1. ~(l > k)
  <2> SUFFICES ASSUME l > k PROVE FALSE
    OBVIOUS
  <2>1. l - 1 \in k..Len(s) /\ l - 1 \in 1..Len(s) /\ l # 1
    BY <1>a
  <2>2. u[l - 1] = Newline
    BY <2>1 DEF Warns, LineBegins
  <2> QED
    BY <1>a, <2>1, <2>2 DEF OpenLine
<1>2. ~(l < k)
  <2> SUFFICES ASSUME l < k PROVE FALSE
    OBVIOUS
  <2>1. k - 1 \in 1..Len(s) /\ k # 1
    BY <1>a
  <2>2. s[k - 1] = Newline
    BY <2>1 DEF OpenLine, LineBegins
  <2>3. k - l \in 1..Len(Warn) /\ l + (k - l) - 1 = k - 1
    BY <1>a, <1>b
  <2> QED
    BY <1>a, <1>c, <2>1, <2>2, <2>3
<1> QED
  BY <1>a, <1>1, <1>2

\* One byte more: a line that has warned goes on counting, and a new warning can
\* only end with that byte.
LEMMA WarnsGrows ==
    ASSUME NEW s \in Seq(Bytes), NEW b \in Bytes, NEW u, u = Append(s, b)
    PROVE  /\ \A k \in 1..Len(s) : Warns(s, k) => k \in 1..Len(u) /\ Warns(u, k)
           /\ \A k \in 1..Len(u) : Warns(u, k) =>
                \/ k \in 1..Len(s) /\ Warns(s, k)
                \/ k + Len(Warn) - 1 = Len(u)
<1>a. /\ Len(s) \in Nat /\ Len(u) = Len(s) + 1
      /\ \A m \in 1..Len(s) : u[m] = s[m]
  BY LenProperties, AppendProperties
<1>b. Len(Warn) \in Nat \ {0}
  BY WarnType
<1>c. ASSUME NEW k \in 1..Len(u), k + Len(Warn) - 1 <= Len(s)
      PROVE  k \in 1..Len(s) /\ (Warns(u, k) <=> Warns(s, k))
  <2>1. k \in 1..Len(s) /\ k + Len(Warn) - 1 <= Len(u)
    BY <1>a, <1>b, <1>c
  <2>2. k # 1 => k - 1 \in 1..Len(s)
    BY <1>a, <2>1
  <2>3. \A n \in 1..Len(Warn) : k + n - 1 \in 1..Len(s)
    BY <1>a, <1>b, <1>c, <2>1
  <2>4. \A n \in 1..Len(Warn) : u[k + n - 1] = s[k + n - 1]
    BY <1>a, <2>3
  <2>5. LineBegins(u, k) <=> LineBegins(s, k)
    BY <1>a, <2>2 DEF LineBegins
  <2> QED
    BY <1>c, <2>1, <2>4, <2>5 DEF Warns
<1>1. ASSUME NEW k \in 1..Len(s), Warns(s, k)
      PROVE  k \in 1..Len(u) /\ Warns(u, k)
  <2>1. k \in 1..Len(u) /\ k + Len(Warn) - 1 <= Len(s)
    BY <1>a, <1>1 DEF Warns
  <2> QED
    BY <1>1, <1>c, <2>1
<1>2. ASSUME NEW k \in 1..Len(u), Warns(u, k), k + Len(Warn) - 1 # Len(u)
      PROVE  k \in 1..Len(s) /\ Warns(s, k)
  <2>1. k + Len(Warn) - 1 <= Len(u)
    BY <1>2 DEF Warns
  <2>2. k + Len(Warn) - 1 <= Len(s)
    BY <1>a, <1>b, <1>2, <2>1
  <2> QED
    BY <1>2, <1>c, <2>2
<1> QED
  BY <1>1, <1>2

\* The scan loop's body keeps the capture on track.
LEMMA ScanTracks ==
    ASSUME NEW s \in Seq(Bytes), NEW b \in Bytes, NEW c, Tracks(c, s),
           NEW u, u = Append(s, b)
    PROVE  Tracks(ScanByte(c, b), u)
<1>a. /\ Len(s) \in Nat /\ Len(u) = Len(s) + 1 /\ u[Len(s) + 1] = b
      /\ \A m \in 1..Len(s) : u[m] = s[m]
  BY LenProperties, AppendProperties
<1>b. /\ Len(Warn) \in Nat \ {0}
      /\ \A n \in 1..Len(Warn) : Warn[n] # Newline
  BY WarnType
<1>c. c \in Captures /\ c.limited \in BOOLEAN /\ c.unmatched \in BOOLEAN
  BY DEF Tracks, Captures
<1>d. c.prefixIndex \in 0..Len(Warn)
  BY <1>c DEF Captures
<1>1. CASE c.limited
  <2>1. ScanByte(c, b) = c
    BY <1>1 DEF ScanByte
  <2>2. \E k \in 1..Len(u) : Warns(u, k)
    BY <1>1, WarnsGrows DEF Tracks
  <2> QED
    BY <1>1, <1>c, <2>1, <2>2 DEF Tracks
<1>2. CASE ~c.limited
  <2>a. ~\E k \in 1..Len(s) : Warns(s, k)
    BY <1>2 DEF Tracks
  <2>b. \A k \in 1..Len(u) : Warns(u, k) => k + Len(Warn) - 1 = Len(u)
    BY <2>a, WarnsGrows
  <2>1. PICK k \in 1..(Len(s) + 1) : Matched(c, s, k)
    BY <1>2 DEF Tracks
  <2>2. CASE b = Newline
    <3>1. PICK d : d = [c EXCEPT !.prefixIndex = 0, !.unmatched = FALSE]
      OBVIOUS
    <3>2. ScanByte(c, b) = d
      BY <1>2, <2>2, <3>1 DEF ScanByte
    <3>3. /\ d \in Captures /\ d.prefixIndex = 0 /\ d.unmatched = FALSE
          /\ d.limited = c.limited
      <4>1. 0 \in 0..Len(Warn)
        BY <1>b
      <4> QED
        BY <1>c, <3>1, <4>1 DEF Captures
    <3>4. ~\E l \in 1..Len(u) : Warns(u, l)
      <4> SUFFICES ASSUME NEW l \in 1..Len(u), Warns(u, l) PROVE FALSE
        OBVIOUS
      <4>1. l + Len(Warn) - 1 = Len(u) /\ Len(Warn) \in 1..Len(Warn)
        BY <1>b, <2>b
      <4>2. u[Len(u)] = Warn[Len(Warn)]
        BY <4>1 DEF Warns
      <4> QED
        BY <1>a, <1>b, <2>2, <4>1, <4>2
    <3>5. PICK l : l = Len(u) + 1
      OBVIOUS
    <3>6. OpenLine(u, l)
      <4>1. l \in 1..(Len(u) + 1) /\ l - 1 = Len(s) + 1
        BY <1>a, <3>5
      <4>2. l..Len(u) = {}
        BY <1>a, <3>5
      <4> QED
        BY <1>a, <2>2, <4>1, <4>2 DEF OpenLine, LineBegins
    <3>7. Matched(d, u, l)
      <4>1. l + d.prefixIndex = Len(u) + 1 /\ d.prefixIndex < Len(Warn)
        BY <1>a, <1>b, <3>3, <3>5
      <4>2. 1..d.prefixIndex = {}
        BY <3>3
      <4> QED
        BY <3>3, <3>6, <4>1, <4>2 DEF Matched
    <3>8. l \in 1..(Len(u) + 1)
      BY <1>a, <3>5
    <3> QED
      BY <1>2, <3>2, <3>3, <3>4, <3>7, <3>8 DEF Tracks
  <2>3. CASE b # Newline
    <3>a. OpenLine(u, k) /\ k \in 1..(Len(u) + 1)
      <4>1. k \in 1..(Len(u) + 1) /\ (k # 1 => k - 1 \in 1..Len(s))
        BY <1>a
      <4>2. LineBegins(u, k)
        BY <1>a, <2>1, <4>1 DEF Matched, OpenLine, LineBegins
      <4>3. ASSUME NEW m \in k..Len(u) PROVE u[m] # Newline
        <5>1. m = Len(s) + 1 \/ (m \in k..Len(s) /\ m \in 1..Len(s))
          BY <1>a
        <5> QED
          BY <1>a, <2>1, <2>3, <5>1 DEF Matched, OpenLine
      <4> QED
        BY <4>1, <4>2, <4>3 DEF OpenLine
    <3>b. \A l \in 1..Len(u) : Warns(u, l) => l = k
      BY <2>1, <2>3, <2>b, OnOpenLine DEF Matched
    <3>c. \A n \in 1..c.prefixIndex : u[k + n - 1] = Warn[n]
      <4>1. k + c.prefixIndex <= Len(s) + 1
        BY <1>a, <1>d, <2>1 DEF Matched
      <4>2. \A n \in 1..c.prefixIndex : k + n - 1 \in 1..Len(s)
        BY <1>a, <1>d, <4>1
      <4> QED
        BY <1>a, <2>1, <4>2 DEF Matched
    <3>d. c.prefixIndex < Len(Warn) /\ c.prefixIndex + 1 \in 1..Len(Warn)
      BY <1>b, <1>d, <2>1 DEF Matched
    \* A capture that stays unlimited, about a line that does not warn.
    <3>e. ASSUME NEW d \in Captures, ~d.limited, Matched(d, u, k), ~Warns(u, k)
          PROVE  Tracks(d, u)
      BY <3>a, <3>b, <3>e DEF Tracks
    \* A line that differs from the warning somewhere does not warn.
    <3>f. ASSUME NEW n \in 1..Len(Warn), u[k + n - 1] # Warn[n] PROVE ~Warns(u, k)
      BY <3>f DEF Warns
    <3>1. CASE c.unmatched
      <4>1. ScanByte(c, b) = c
        BY <1>2, <2>3, <3>1 DEF ScanByte
      <4>2. k + c.prefixIndex <= Len(s) /\ s[k + c.prefixIndex] # Warn[c.prefixIndex + 1]
        BY <2>1, <3>1 DEF Matched
      <4>3. /\ k + c.prefixIndex \in 1..Len(s) /\ k + c.prefixIndex <= Len(u)
            /\ k + (c.prefixIndex + 1) - 1 = k + c.prefixIndex
        BY SMTT(30), <1>a, <1>d, <4>2
      <4>4. u[k + c.prefixIndex] # Warn[c.prefixIndex + 1]
        BY <1>a, <4>2, <4>3
      <4>5. Matched(c, u, k)
        BY <3>1, <3>a, <3>c, <3>d, <4>3, <4>4 DEF Matched
      <4>6. ~Warns(u, k)
        BY <3>d, <3>f, <4>3, <4>4
      <4> QED
        BY <1>2, <1>c, <3>e, <4>1, <4>5, <4>6
    <3>2. CASE ~c.unmatched
      <4>1. k + c.prefixIndex = Len(s) + 1 /\ k + (c.prefixIndex + 1) - 1 = Len(s) + 1
        BY <1>a, <1>d, <2>1, <3>2 DEF Matched
      <4>2. CASE b # Warn[c.prefixIndex + 1]
        <5>1. PICK d : d = [c EXCEPT !.unmatched = TRUE]
          OBVIOUS
        <5>2. ScanByte(c, b) = d
          BY <1>2, <2>3, <3>2, <4>2, <5>1 DEF ScanByte
        <5>3. /\ d \in Captures /\ d.prefixIndex = c.prefixIndex
              /\ d.unmatched = TRUE /\ d.limited = c.limited
          BY <1>c, <5>1 DEF Captures
        <5>4. k + c.prefixIndex <= Len(u) /\ u[k + c.prefixIndex] # Warn[c.prefixIndex + 1]
          BY <1>a, <4>1, <4>2
        <5>5. Matched(d, u, k)
          BY <3>a, <3>c, <3>d, <5>3, <5>4 DEF Matched
        <5>6. ~Warns(u, k)
          BY <3>d, <3>f, <4>1, <5>4
        <5> QED
          BY <1>2, <3>e, <5>2, <5>3, <5>5, <5>6
      <4>3. CASE b = Warn[c.prefixIndex + 1]
        <5>1. PICK d : d = [c EXCEPT !.prefixIndex = @ + 1,
                                     !.limited = c.prefixIndex + 1 = Len(Warn)]
          OBVIOUS
        <5>2. ScanByte(c, b) = d
          BY <1>2, <2>3, <3>2, <4>3, <5>1 DEF ScanByte
        <5>3. /\ d \in Captures /\ d.prefixIndex = c.prefixIndex + 1
              /\ d.unmatched = c.unmatched
              /\ d.limited <=> c.prefixIndex + 1 = Len(Warn)
          <6>1. c.prefixIndex + 1 \in 0..Len(Warn)
            BY <1>b, <1>d, <3>d
          <6>2. (c.prefixIndex + 1 = Len(Warn)) \in BOOLEAN
            OBVIOUS
          <6> QED
            BY <1>c, <5>1, <6>1, <6>2 DEF Captures
        <5>4. \A n \in 1..(c.prefixIndex + 1) : u[k + n - 1] = Warn[n]
          <6>1. \A n \in 1..(c.prefixIndex + 1) :
                   n \in 1..c.prefixIndex \/ n = c.prefixIndex + 1
            BY <1>d
          <6> QED
            BY <1>a, <3>c, <4>1, <4>3, <6>1
        <5>5. CASE c.prefixIndex + 1 = Len(Warn)
          <6>1. k \in 1..Len(u) /\ k + Len(Warn) - 1 <= Len(u)
            BY <1>a, <1>d, <4>1, <5>5
          <6>2. Warns(u, k)
            BY <3>a, <5>4, <5>5, <6>1 DEF Warns, OpenLine
          <6> QED
            BY <5>2, <5>3, <5>5, <6>1, <6>2 DEF Tracks
        <5>6. CASE c.prefixIndex + 1 # Len(Warn)
          <6>1. /\ k + (c.prefixIndex + 1) = Len(u) + 1
                /\ c.prefixIndex + 1 < Len(Warn)
            BY SMTT(30), <1>a, <1>b, <1>d, <3>d, <4>1, <5>6
          <6>2. Matched(d, u, k)
            BY <3>2, <3>a, <5>3, <5>4, <6>1 DEF Matched
          <6>3. ~Warns(u, k)
            <7>1. ~(k + Len(Warn) - 1 <= Len(u))
              BY <1>a, <1>b, <1>d, <6>1
            <7> QED
              BY <7>1 DEF Warns
          <6> QED
            BY <3>e, <5>2, <5>3, <5>6, <6>2, <6>3
        <5> QED
          BY <5>5, <5>6
      <4> QED
        BY <4>2, <4>3
    <3> QED
      BY <1>c, <3>1, <3>2
  <2> QED
    BY <2>2, <2>3
<1> QED
  BY <1>c, <1>1, <1>2

-------------------------------------------------------------------------------
\* The loop over a chunk.

\* Every set of numbers has a least one, by the order on Nat being well founded.
LEMMA LeastNumber ==
    ASSUME NEW T \in SUBSET Nat, T # {}
    PROVE  \E m \in T : \A n \in T : m <= n
<1> DEFINE R == OpToRel(<, Nat)
<1>1. \E m \in T : \A n \in T : ~(<<n, m>> \in R)
  BY NatLessThanWellFounded, WFMin
<1>2. \A m, n \in Nat : m < n => <<m, n>> \in R
  BY DEF OpToRel
<1> HIDE DEF R
<1>3. PICK m \in T : \A n \in T : ~(<<n, m>> \in R)
  BY <1>1
<1>4. \A n \in T : ~(n < m)
  BY <1>2, <1>3
<1> QED
  BY <1>3, <1>4

\* The last of a set of positions.
LEMMA LastPosition ==
    ASSUME NEW n \in Nat, NEW T \in SUBSET (1..n), T # {}
    PROVE  Max(T) \in T /\ \A x \in T : x <= Max(T)
<1> DEFINE D == {n - x : x \in T}
<1>1. D \in SUBSET Nat /\ D # {}
  <2>1. \A x \in 1..n : n - x \in Nat
    OBVIOUS
  <2> QED
    BY <2>1
<1>2. PICK m \in D : \A y \in D : m <= y
  BY <1>1, LeastNumber
<1>3. PICK x \in T : m = n - x
  BY <1>2
<1>4. \A y \in T : n - x <= n - y
  BY <1>2, <1>3
<1>5. \A y \in T : y <= x
  BY <1>4
<1>6. \E z \in T : \A y \in T : z >= y
  BY <1>3, <1>5
<1>7. Max(T) \in T /\ \A y \in T : Max(T) >= y
  BY <1>6 DEF Max
<1> QED
  BY <1>7

\* What the fold makes of a set of positions, given what it makes of the smaller
\* ones.
FoldStep(c, p, f, T) ==
    IF T = {} THEN c ELSE ScanByte(f[T \ {Max(T)}], p[Max(T)])

\* The fold over a chunk is a function that this equation determines.
LEMMA FoldIs ==
    ASSUME NEW c, NEW p
    PROVE  FoldLeft(ScanByte, c, p) =
             (CHOOSE f : f = [T \in SUBSET DOMAIN p |-> FoldStep(c, p, f, T)])[DOMAIN p]
  BY DEF FoldLeft, MapThenFoldSet, FoldStep

\* There is such a function: it is built position by position.
LEMMA FoldExists ==
    ASSUME NEW c, NEW p \in Seq(Bytes)
    PROVE  \E f : f = [T \in SUBSET DOMAIN p |-> FoldStep(c, p, f, T)]
<1> DEFINE N == Len(p)
           Good(g, n) == \A T \in SUBSET (1..n) : g[T] = FoldStep(c, p, g, T)
           Bad == {n \in Nat : n <= N /\ ~\E g : Good(g, n)}
<1>a. N \in Nat /\ DOMAIN p = 1..N
  BY LenProperties
\* One round of the equation extends a good function by one position.
<1>1. ASSUME NEW n \in Nat, n <= N, NEW g, Good(g, n), NEW m \in Nat, m <= N, m <= n + 1,
             NEW h, h = [T \in SUBSET (1..N) |-> FoldStep(c, p, g, T)]
      PROVE  Good(h, m)
  <2> SUFFICES ASSUME NEW T \in SUBSET (1..m)
               PROVE  h[T] = FoldStep(c, p, h, T)
    OBVIOUS
  <2>1. T \in SUBSET (1..N) /\ h[T] = FoldStep(c, p, g, T)
    <3>1. \A x \in 1..m : x \in 1..N
      BY <1>1, <1>a
    <3>2. T \in SUBSET (1..N)
      BY <3>1
    <3> QED
      BY <1>1, <3>2
  <2>2. CASE T = {}
    BY <2>1, <2>2 DEF FoldStep
  <2>3. CASE T # {}
    <3>1. PICK r : r = T \ {Max(T)}
      OBVIOUS
    <3>2. r \in SUBSET (1..n) /\ r \in SUBSET (1..N)
      <4>1. Max(T) \in T /\ \A x \in T : x <= Max(T)
        BY <2>3, LastPosition
      <4>2. \A x \in r : x \in 1..m /\ x <= Max(T) /\ x # Max(T) /\ Max(T) \in 1..m
        BY <3>1, <4>1
      <4>3. \A x \in r : x \in 1..n
        BY <1>1, <4>2
      <4> QED
        BY <2>1, <3>1, <4>3
    <3>3. h[r] = g[r]
      BY <1>1, <3>2
    <3> QED
      BY <2>1, <2>3, <3>1, <3>3 DEF FoldStep
  <2> QED
    BY <2>2, <2>3
<1>2. \E g : Good(g, 0)
  <2>1. PICK g : g = [T \in {{}} |-> c]
    OBVIOUS
  <2>2. \A T \in SUBSET (1..0) : T = {}
    OBVIOUS
  <2>3. g[{}] = c
    BY <2>1
  <2> QED
    BY <2>2, <2>3 DEF FoldStep
<1>3. Bad = {}
  <2> SUFFICES ASSUME Bad # {} PROVE FALSE
    OBVIOUS
  <2>1. Bad \in SUBSET Nat
    OBVIOUS
  <2>2. PICK m \in Bad : \A y \in Bad : m <= y
    BY <2>1, LeastNumber
  <2>3. m \in Nat /\ m <= N /\ m # 0 /\ ~\E g : Good(g, m)
    BY <1>2, <2>2
  <2>4. m - 1 \in Nat /\ m - 1 <= N /\ ~(m <= m - 1) /\ m <= (m - 1) + 1
    BY <1>a, <2>3
  <2>5. m - 1 \notin Bad
    BY <2>2, <2>4
  <2>6. PICK g : Good(g, m - 1)
    BY <2>4, <2>5
  <2>7. PICK h : h = [T \in SUBSET (1..N) |-> FoldStep(c, p, g, T)]
    OBVIOUS
  <2> HIDE DEF Good, Bad
  <2>8. Good(h, m)
    BY <1>1, <2>3, <2>4, <2>6, <2>7
  <2> QED
    BY <2>3, <2>8
<1>4. PICK g : Good(g, N)
  <2> HIDE DEF Good, Bad
  <2>1. N \in Nat /\ N <= N
    BY <1>a
  <2>2. N \notin Bad
    BY <1>3
  <2> QED
    BY <2>1, <2>2 DEF Bad
<1>5. PICK h : h = [T \in SUBSET (1..N) |-> FoldStep(c, p, g, T)]
  OBVIOUS
<1>6. Good(h, N)
  <2>1. N <= N /\ N <= N + 1
    BY <1>a
  <2> HIDE DEF Good
  <2> QED
    BY <1>1, <1>4, <1>5, <1>a, <2>1
<1>7. h = [T \in SUBSET (1..N) |-> h[T]]
  BY <1>5
<1>8. h = [T \in SUBSET (1..N) |-> FoldStep(c, p, h, T)]
  BY <1>6, <1>7
<1> QED
  BY <1>8, <1>a

\* A scan of a whole chunk keeps the capture on track, wherever the chunk was cut.
LEMMA FoldTracks ==
    ASSUME NEW s \in Seq(Bytes), NEW c, Tracks(c, s), NEW p \in Seq(Bytes)
    PROVE  Tracks(FoldLeft(ScanByte, c, p), s \o p)
<1> DEFINE N == Len(p)
<1>a. N \in Nat /\ DOMAIN p = 1..N
  BY LenProperties
<1>1. PICK f : /\ f = [T \in SUBSET (1..N) |-> FoldStep(c, p, f, T)]
               /\ FoldLeft(ScanByte, c, p) = f[1..N]
  <2>1. PICK f : f = CHOOSE g : g = [T \in SUBSET DOMAIN p |-> FoldStep(c, p, g, T)]
    OBVIOUS
  <2>2. f = [T \in SUBSET DOMAIN p |-> FoldStep(c, p, f, T)]
    BY <2>1, FoldExists
  <2>3. FoldLeft(ScanByte, c, p) = f[DOMAIN p]
    BY <2>1, FoldIs
  <2> QED
    BY <1>a, <2>2, <2>3
<1> DEFINE Lost == {n \in Nat : n <= N /\ ~Tracks(f[1..n], s \o SubSeq(p, 1, n))}
<1>2. \A T \in SUBSET (1..N) : f[T] = FoldStep(c, p, f, T)
  BY <1>1
<1>3. Tracks(f[1..0], s \o SubSeq(p, 1, 0))
  <2>1. SubSeq(p, 1, 0) = <<>>
    BY SubSeqEmpty
  <2>2. s \o SubSeq(p, 1, 0) = s
    BY <2>1, ConcatEmptySeq
  <2>3. 1..0 = {} /\ {} \in SUBSET (1..N)
    OBVIOUS
  <2>4. f[{}] = c
    BY <1>2, <2>3 DEF FoldStep
  <2> QED
    BY <2>2, <2>3, <2>4
<1>4. ASSUME NEW n \in Nat, n + 1 <= N, Tracks(f[1..n], s \o SubSeq(p, 1, n))
      PROVE  Tracks(f[1..(n + 1)], s \o SubSeq(p, 1, n + 1))
  <2>1. n + 1 \in 1..N /\ n \in 0..N
    BY <1>a, <1>4
  <2>2. f[1..(n + 1)] = ScanByte(f[1..n], p[n + 1])
    <3>1. PICK T : T = 1..(n + 1)
      OBVIOUS
    <3>2. T \in SUBSET (1..N) /\ T # {} /\ T \in SUBSET (1..(n + 1))
      <4>1. n + 1 \in T
        BY <3>1
      <4>2. \A x \in 1..(n + 1) : x \in 1..N
        BY <1>a, <1>4
      <4> QED
        BY <3>1, <4>1, <4>2
    <3>3. n + 1 \in Nat
      OBVIOUS
    <3>4. Max(T) \in T /\ \A x \in T : x <= Max(T)
      BY <3>2, <3>3, LastPosition
    <3>5. Max(T) \in 1..(n + 1) /\ n + 1 <= Max(T)
      BY <3>1, <3>4
    <3>6. Max(T) = n + 1
      BY <3>5
    <3>7. T \ {n + 1} = 1..n
      BY <3>1
    <3> QED
      BY <1>2, <3>1, <3>2, <3>6, <3>7 DEF FoldStep
  <2>3. PICK q : q = SubSeq(p, 1, n)
    OBVIOUS
  <2>4. q \in Seq(Bytes)
    <3>1. \A x \in 1..n : x \in 1..N
      BY <1>a, <2>1
    <3>2. \A x \in 1..n : p[x] \in Bytes
      BY <3>1, ElementOfSeq
    <3> QED
      BY <2>3, <3>2, SubSeqProperties
  <2>5. p[n + 1] \in Bytes
    BY <2>1, ElementOfSeq
  <2>6. SubSeq(p, 1, n + 1) = q \o <<p[n + 1]>>
    <3>1. SubSeq(p, 1, n + 1) = SubSeq(p, 1, (n + 1) - 1) \o <<p[n + 1]>>
      <4>1. 1 \in 1..Len(p) /\ n + 1 \in 1..Len(p)
        BY <1>a, <2>1
      <4> QED
        BY <4>1, SubSeqRecursiveSecond
    <3>2. (n + 1) - 1 = n
      OBVIOUS
    <3> QED
      BY <2>3, <3>1, <3>2
  <2>7. s \o SubSeq(p, 1, n + 1) = Append(s \o q, p[n + 1])
    <3>1. <<p[n + 1]>> \in Seq(Bytes) /\ s \o q \in Seq(Bytes)
      BY <2>4, <2>5, ConcatProperties
    <3>2. s \o (q \o <<p[n + 1]>>) = (s \o q) \o <<p[n + 1]>>
      BY <2>4, <3>1, ConcatAssociative
    <3>3. Append(s \o q, p[n + 1]) = (s \o q) \o <<p[n + 1]>>
      BY <2>5, <3>1, AppendIsConcat
    <3> QED
      BY <2>6, <3>2, <3>3
  <2>8. s \o q \in Seq(Bytes)
    BY <2>4, ConcatProperties
  <2> QED
    BY <1>4, <2>2, <2>3, <2>5, <2>7, <2>8, ScanTracks
<1>5. Lost = {}
  <2> SUFFICES ASSUME Lost # {} PROVE FALSE
    OBVIOUS
  <2>1. Lost \in SUBSET Nat
    OBVIOUS
  <2>2. PICK m \in Lost : \A y \in Lost : m <= y
    BY <2>1, LeastNumber
  <2>3. m \in Nat /\ m <= N /\ m # 0 /\ ~Tracks(f[1..m], s \o SubSeq(p, 1, m))
    BY <1>3, <2>2
  <2>4. PICK n : n = m - 1
    OBVIOUS
  <2>5. n \in Nat /\ n <= N /\ ~(m <= n) /\ m = n + 1
    BY <1>a, <2>3, <2>4
  <2>6. Tracks(f[1..n], s \o SubSeq(p, 1, n))
    BY <2>2, <2>5
  <2> QED
    BY <1>4, <2>3, <2>5, <2>6
<1>6. Tracks(f[1..N], s \o SubSeq(p, 1, N))
  BY <1>5, <1>a
<1>7. SubSeq(p, 1, N) = p
  BY SubSeqFull
<1> QED
  BY <1>1, <1>6, <1>7

-------------------------------------------------------------------------------
\* The buffer.

\* The end of a stream, element by element.
LEMMA SuffixElements ==
    ASSUME NEW s \in Seq(Bytes), NEW n \in 0..Len(s)
    PROVE  /\ Suffix(s, n) \in Seq(Bytes) /\ Len(Suffix(s, n)) = n
           /\ \A m \in 1..n : Suffix(s, n)[m] = s[Len(s) - n + m]
<1>a. Len(s) \in Nat
  BY LenProperties
<1>1. PICK k : k = Len(s) - n + 1
  OBVIOUS
<1>2. k \in Int /\ Len(s) \in Int /\ \A m \in k..Len(s) : m \in 1..Len(s)
  BY <1>a, <1>1
<1>3. \A m \in k..Len(s) : s[m] \in Bytes
  BY <1>2, ElementOfSeq
<1>4. PICK t : t = SubSeq(s, k, Len(s))
  OBVIOUS
<1>5. /\ t \in Seq(Bytes)
      /\ Len(t) = IF k <= Len(s) THEN Len(s) - k + 1 ELSE 0
      /\ \A m \in 1..(Len(s) - k + 1) : t[m] = s[k + m - 1]
  BY <1>2, <1>3, <1>4, SubSeqProperties
<1>6. Len(s) - k + 1 = n
  BY <1>a, <1>1
<1>7. Len(t) = n
  BY <1>a, <1>1, <1>5
<1>8. \A m \in 1..n : k + m - 1 = Len(s) - n + m
  BY <1>a, <1>1
<1>9. t = Suffix(s, n)
  BY <1>1, <1>4 DEF Suffix
<1> QED
  BY <1>5, <1>6, <1>7, <1>8, <1>9

\* As many bytes as the buffer holds of a stream of this length.
Held(n) == IF n < MaxBytes THEN n ELSE MaxBytes

\* cappedBuffer.Write keeps the end of the stream, whatever the chunk's size.
LEMMA AppendKeepsEnd ==
    ASSUME NEW s \in Seq(Bytes), NEW p \in Seq(Bytes)
    PROVE  CappedAppend(Suffix(s, Held(Len(s))), p) = Suffix(s \o p, Held(Len(s \o p)))
<1>a. Len(s) \in Nat /\ Len(p) \in Nat /\ MaxBytes \in Nat \ {0}
  BY LenProperties, StreamAssumption
<1>1. PICK u : u = s \o p
  OBVIOUS
<1>2. /\ u \in Seq(Bytes) /\ Len(u) = Len(s) + Len(p)
      /\ \A m \in 1..(Len(s) + Len(p)) :
           u[m] = IF m <= Len(s) THEN s[m] ELSE p[m - Len(s)]
  BY <1>1, ConcatProperties
<1>3. PICK b : b = Suffix(s, Held(Len(s)))
  OBVIOUS
<1>4. Held(Len(s)) \in 0..Len(s) /\ Held(Len(u)) \in 0..Len(u)
  BY <1>a, <1>2 DEF Held
<1>5. /\ b \in Seq(Bytes) /\ Len(b) = Held(Len(s))
      /\ \A m \in 1..Held(Len(s)) : b[m] = s[Len(s) - Held(Len(s)) + m]
  BY <1>3, <1>4, SuffixElements
<1>6. PICK e : e = Suffix(u, Held(Len(u)))
  OBVIOUS
<1>7. /\ e \in Seq(Bytes) /\ Len(e) = Held(Len(u))
      /\ \A m \in 1..Held(Len(u)) : e[m] = u[Len(u) - Held(Len(u)) + m]
  BY <1>2, <1>4, <1>6, SuffixElements
<1>8. PICK r : r = CappedAppend(b, p)
  OBVIOUS
\* Every byte of the result is the byte of the stream that far from its end.
<1>9. /\ r \in Seq(Bytes) /\ Len(r) = Held(Len(u))
      /\ \A m \in 1..Held(Len(u)) : r[m] = u[Len(u) - Held(Len(u)) + m]
  <2>1. CASE Len(p) >= MaxBytes
    <3>1. r = Suffix(p, MaxBytes) /\ Held(Len(u)) = MaxBytes /\ MaxBytes \in 0..Len(p)
      BY <1>a, <1>2, <1>8, <2>1 DEF CappedAppend, Held
    <3>2. /\ r \in Seq(Bytes) /\ Len(r) = MaxBytes
          /\ \A m \in 1..MaxBytes : r[m] = p[Len(p) - MaxBytes + m]
      BY <3>1, SuffixElements
    <3>3. ASSUME NEW m \in 1..MaxBytes
          PROVE  u[Len(u) - MaxBytes + m] = p[Len(p) - MaxBytes + m]
      <4>1. PICK x : x = Len(u) - MaxBytes + m
        OBVIOUS
      <4>2. /\ x \in 1..(Len(s) + Len(p)) /\ ~(x <= Len(s))
            /\ x - Len(s) = Len(p) - MaxBytes + m
        BY <1>a, <1>2, <2>1, <4>1
      <4> QED
        BY <1>2, <4>1, <4>2
    <3> QED
      BY <3>1, <3>2, <3>3
  <2>2. CASE ~(Len(p) >= MaxBytes) /\ Len(b) + Len(p) > MaxBytes
    <3>1. PICK k : k = (Len(b) + Len(p)) - MaxBytes + 1
      OBVIOUS
    <3>2. PICK q : q = SubSeq(b, k, Len(b))
      OBVIOUS
    <3>3. r = q \o p
      BY <1>8, <2>2, <3>1, <3>2 DEF CappedAppend
    <3>a. /\ Len(b) \in Nat /\ k \in 1..(Len(b) + 1) /\ Held(Len(u)) = MaxBytes
          /\ Len(b) - k + 1 = MaxBytes - Len(p)
      <4>1. Len(b) \in Nat /\ Len(b) <= MaxBytes /\ Len(b) <= Len(s)
        BY <1>a, <1>5 DEF Held
      <4>2. k \in 1..(Len(b) + 1) /\ Len(b) - k + 1 = MaxBytes - Len(p)
        BY <1>a, <2>2, <3>1, <4>1
      <4>3. ~(Len(u) < MaxBytes)
        BY <1>a, <1>2, <2>2, <4>1
      <4> QED
        BY <4>1, <4>2, <4>3 DEF Held
    <3>4. /\ q \in Seq(Bytes) /\ Len(q) = MaxBytes - Len(p)
          /\ \A m \in 1..(MaxBytes - Len(p)) : q[m] = b[k + m - 1]
      <4>1. k \in Int /\ Len(b) \in Int /\ \A m \in k..Len(b) : m \in 1..Len(b)
        BY <3>a
      <4>2. \A m \in k..Len(b) : b[m] \in Bytes
        BY <1>5, <4>1, ElementOfSeq
      <4>3. /\ q \in Seq(Bytes)
            /\ Len(q) = IF k <= Len(b) THEN Len(b) - k + 1 ELSE 0
            /\ \A m \in 1..(Len(b) - k + 1) : q[m] = b[k + m - 1]
        BY <3>2, <4>1, <4>2, SubSeqProperties
      <4>4. (IF k <= Len(b) THEN Len(b) - k + 1 ELSE 0) = MaxBytes - Len(p)
        BY <1>a, <2>2, <3>a
      <4> QED
        BY <3>a, <4>3, <4>4
    <3>5. /\ r \in Seq(Bytes) /\ Len(r) = Len(q) + Len(p)
          /\ \A m \in 1..(Len(q) + Len(p)) :
               r[m] = IF m <= Len(q) THEN q[m] ELSE p[m - Len(q)]
      BY <3>3, <3>4, ConcatProperties
    <3>6. Len(q) + Len(p) = MaxBytes
      BY <1>a, <3>4
    <3>7. ASSUME NEW m \in 1..MaxBytes
          PROVE  r[m] = u[Len(u) - MaxBytes + m]
      <4>1. PICK x : x = Len(u) - MaxBytes + m
        OBVIOUS
      <4>2. x \in 1..(Len(s) + Len(p))
        BY <1>a, <1>2, <1>5, <2>2, <4>1 DEF Held
      <4>3. CASE m <= Len(q)
        <5>1. x <= Len(s)
          BY <1>a, <1>2, <3>4, <4>1, <4>3
        <5>2. /\ k + m - 1 \in 1..Held(Len(s))
              /\ Len(s) - Held(Len(s)) + (k + m - 1) = x
          <6>1. Len(b) <= Len(s) /\ Len(u) = Len(s) + Len(p) /\ m <= MaxBytes - Len(p)
            BY <1>a, <1>2, <1>4, <1>5, <3>4, <4>3
          <6>2. k + m - 1 \in 1..Len(b) /\ Len(s) - Len(b) + (k + m - 1) = x
            BY <1>a, <3>1, <3>a, <4>1, <6>1
          <6> QED
            BY <1>5, <6>2
        <5>3. r[m] = b[k + m - 1]
          <6>1. m \in 1..(Len(q) + Len(p)) /\ m \in 1..(MaxBytes - Len(p))
            <7>1. Len(q) = MaxBytes - Len(p)
              BY <3>4
            <7> QED
              BY <1>a, <3>6, <4>3, <7>1
          <6>2. r[m] = q[m]
            BY <3>5, <4>3, <6>1
          <6>3. q[m] = b[k + m - 1]
            BY <3>4, <6>1
          <6> QED
            BY <6>2, <6>3
        <5>4. b[k + m - 1] = s[x]
          BY <1>5, <5>2
        <5> QED
          BY <1>2, <4>1, <4>2, <5>1, <5>3, <5>4
      <4>4. CASE ~(m <= Len(q))
        <5>1. ~(x <= Len(s)) /\ x - Len(s) = m - Len(q)
          BY <1>a, <1>2, <3>4, <4>1, <4>4
        <5> QED
          BY <1>2, <3>5, <3>6, <4>1, <4>2, <4>4, <5>1
      <4> QED
        BY <4>3, <4>4
    <3> QED
      BY <3>5, <3>6, <3>7, <3>a
  <2>3. CASE ~(Len(p) >= MaxBytes) /\ ~(Len(b) + Len(p) > MaxBytes)
    <3>1. r = b \o p
      BY <1>8, <2>3 DEF CappedAppend
    <3>2. Len(b) \in Nat /\ Held(Len(u)) = Len(b) + Len(p)
      BY <1>a, <1>2, <1>5, <2>3 DEF Held
    <3>3. /\ r \in Seq(Bytes) /\ Len(r) = Len(b) + Len(p)
          /\ \A m \in 1..(Len(b) + Len(p)) :
               r[m] = IF m <= Len(b) THEN b[m] ELSE p[m - Len(b)]
      BY <1>5, <3>1, ConcatProperties
    <3>4. ASSUME NEW m \in 1..(Len(b) + Len(p))
          PROVE  r[m] = u[Len(u) - (Len(b) + Len(p)) + m]
      <4>1. PICK x : x = Len(u) - (Len(b) + Len(p)) + m
        OBVIOUS
      <4>2. x = Len(s) - Len(b) + m /\ Len(b) <= Len(s)
        BY <1>a, <1>2, <1>4, <1>5, <3>2, <4>1
      <4>3. x \in 1..(Len(s) + Len(p))
        BY <1>a, <3>2, <4>2
      <4>4. CASE m <= Len(b)
        <5>1. x <= Len(s) /\ m \in 1..Held(Len(s))
          BY <1>a, <1>5, <3>2, <4>2, <4>4
        <5>2. b[m] = s[x]
          BY <1>5, <4>2, <5>1
        <5> QED
          BY <1>2, <3>3, <4>1, <4>3, <4>4, <5>1, <5>2
      <4>5. CASE ~(m <= Len(b))
        <5>1. ~(x <= Len(s)) /\ x - Len(s) = m - Len(b)
          BY <1>a, <3>2, <4>2, <4>5
        <5> QED
          BY <1>2, <3>3, <4>1, <4>3, <4>5, <5>1
      <4> QED
        BY <4>4, <4>5
    <3> QED
      BY <3>2, <3>3, <3>4
  <2> QED
    BY <2>1, <2>2, <2>3
<1>10. r = e
  <2>1. Len(r) = Len(e)
    BY <1>7, <1>9
  <2>2. \A m \in 1..Len(r) : r[m] = e[m]
    BY <1>7, <1>9
  <2> QED
    BY <1>7, <1>9, <2>1, <2>2, SeqEqual
<1> QED
  BY <1>1, <1>3, <1>6, <1>8, <1>10

-------------------------------------------------------------------------------
\* The invariant and the properties.

\* The capture knows the whole stream, and the buffer is its end.
CaptureInv ==
    /\ stream \in Seq(Bytes) /\ Len(stream) <= MaxStream
    /\ Tracks(capture, stream) /\ buf = Suffix(stream, Held(Len(stream)))

\* Nothing has been written yet.
LEMMA CaptureInit == Init => CaptureInv
<1> SUFFICES ASSUME Init PROVE CaptureInv
  OBVIOUS
<1>a. Len(Warn) \in Nat \ {0} /\ MaxBytes \in Nat \ {0} /\ MaxStream \in Nat
  BY WarnType, StreamAssumption
<1>1. capture = NewCapture /\ buf = <<>> /\ stream = <<>>
  BY DEF Init
<1>2. stream \in Seq(Bytes) /\ Len(stream) = 0
  BY <1>1, EmptySeq
<1>3. buf = Suffix(stream, Held(Len(stream)))
  <2>1. PICK t : t = Suffix(stream, Held(Len(stream)))
    OBVIOUS
  <2>2. Held(Len(stream)) = 0 /\ 0 \in 0..Len(stream)
    BY <1>2, <1>a DEF Held
  <2>3. t \in Seq(Bytes) /\ Len(t) = 0
    BY <1>2, <2>1, <2>2, SuffixElements
  <2>4. t = <<>>
    BY <2>3, EmptySeq
  <2> QED
    BY <1>1, <2>1, <2>4
<1>4. Tracks(NewCapture, stream)
  <2>1. PICK c : c = NewCapture
    OBVIOUS
  <2>2. 0 \in 0..Len(Warn) /\ 1..0 = {} /\ 1 \in 1..(Len(stream) + 1)
    BY <1>2, <1>a
  <2>3. /\ c \in Captures /\ c.prefixIndex = 0 /\ c.unmatched = FALSE
        /\ c.limited = FALSE
    BY <2>1, <2>2 DEF NewCapture, Captures
  <2>4. OpenLine(stream, 1)
    BY <1>2, <2>2 DEF OpenLine, LineBegins
  <2>5. 1 + c.prefixIndex = Len(stream) + 1 /\ c.prefixIndex < Len(Warn)
    BY <1>2, <1>a, <2>3
  <2>6. Matched(c, stream, 1)
    BY <2>2, <2>3, <2>4, <2>5 DEF Matched
  <2>7. 1..Len(stream) = {}
    BY <1>2
  <2> QED
    BY <2>1, <2>2, <2>3, <2>6, <2>7 DEF Tracks
<1> QED
  BY <1>1, <1>2, <1>3, <1>4, <1>a DEF CaptureInv

\* Every Write keeps it.
LEMMA CaptureStep == CaptureInv /\ [Next]_vars => CaptureInv'
<1> SUFFICES ASSUME CaptureInv, [Next]_vars PROVE CaptureInv'
  OBVIOUS
<1>1. ASSUME NEW p \in BoundedSeq(Bytes, MaxChunk), Write(p) PROVE CaptureInv'
  <2>1. p \in Seq(Bytes)
    <3>1. p \in UNION {[1..m -> Bytes] : m \in 0..MaxChunk}
      BY <1>1 DEF BoundedSeq, SeqOf
    <3>2. 0..MaxChunk \subseteq Nat
      BY StreamAssumption
    <3> QED
      BY <3>1, <3>2, SeqDef
  <2>2. PICK u : u = stream \o p
    OBVIOUS
  <2>3. u \in Seq(Bytes) /\ Len(u) = Len(stream) + Len(p)
    BY <2>1, <2>2, ConcatProperties DEF CaptureInv
  <2>4. Len(u) <= MaxStream
    BY <1>1, <2>3 DEF Write
  <2>5. PICK c : c = FoldLeft(ScanByte, capture, p)
    OBVIOUS
  <2>6. Tracks(c, u)
    BY <2>1, <2>2, <2>5, FoldTracks DEF CaptureInv
  <2>7. CappedAppend(buf, p) = Suffix(u, Held(Len(u)))
    BY <2>1, <2>2, AppendKeepsEnd DEF CaptureInv
  <2>8. stream' = u /\ capture' = c /\ buf' = Suffix(u, Held(Len(u)))
    BY <1>1, <2>2, <2>5, <2>7 DEF Write
  <2> QED
    BY <2>3, <2>4, <2>6, <2>8 DEF CaptureInv
<1>2. CASE UNCHANGED vars
  BY <1>2 DEF vars, CaptureInv
<1> QED
  BY <1>1, <1>2 DEF Next, Closed

\* CaptureInv is inductive.
LEMMA CaptureInvariance == Spec => []CaptureInv
  BY CaptureInit, CaptureStep, PTL DEF Spec

\* cappedBuffer never holds more than its cap, and delLimitCapture never indexes
\* the warning outside its bounds.
THEOREM TypeCorrect == Spec => []TypeOK
<1>1. CaptureInv => TypeOK
  <2> SUFFICES ASSUME CaptureInv PROVE TypeOK
    OBVIOUS
  <2>1. Len(stream) \in Nat /\ MaxBytes \in Nat
    BY LenProperties, StreamAssumption DEF CaptureInv
  <2>2. Held(Len(stream)) \in 0..Len(stream) /\ Held(Len(stream)) <= MaxBytes
    BY <2>1 DEF Held
  <2>3. buf \in Seq(Bytes) /\ Len(buf) = Held(Len(stream))
    BY <2>2, SuffixElements DEF CaptureInv
  <2> QED
    BY <2>2, <2>3 DEF CaptureInv, Tracks, Captures, TypeOK
<1> QED
  BY <1>1, CaptureInvariance, PTL

\* cappedBuffer holds the end of the stream, full to the cap and no further,
\* whatever the sizes of the chunks and of the cap.
THEOREM BufferProved == Spec => []BufferIsEndOfStream
<1>1. CaptureInv => BufferIsEndOfStream
  BY DEF CaptureInv, Held, BufferIsEndOfStream
<1> QED
  BY <1>1, CaptureInvariance, PTL

\* One sequence begins with another if their elements agree.
LEMMA PrefixElements ==
    ASSUME NEW p \in Seq(Bytes), NEW q \in Seq(Bytes)
    PROVE  IsPrefix(p, q) <=> /\ Len(p) <= Len(q)
                              /\ \A n \in 1..Len(p) : p[n] = q[n]
<1>a. Len(p) \in Nat /\ Len(q) \in Nat
  BY LenProperties
<1> SUFFICES ASSUME Len(p) <= Len(q)
             PROVE  SubSeq(p, 1, Len(p)) = SubSeq(q, 1, Len(p)) <=>
                        \A n \in 1..Len(p) : p[n] = q[n]
  BY <1>a DEF IsPrefix
<1>b. \A n \in 1..Len(p) : q[n] \in Bytes
  BY <1>a, ElementOfSeq
<1>1. SubSeq(p, 1, Len(p)) = p
  BY SubSeqFull
<1>2. PICK t : t = SubSeq(q, 1, Len(p))
  OBVIOUS
<1>3. /\ t \in Seq(Bytes) /\ Len(t) = IF 1 <= Len(p) THEN Len(p) - 1 + 1 ELSE 0
      /\ \A n \in 1..(Len(p) - 1 + 1) : t[n] = q[1 + n - 1]
  BY <1>a, <1>b, <1>2, SubSeqProperties
<1>4. Len(p) - 1 + 1 = Len(p) /\ \A n \in 1..Len(p) : 1 + n - 1 = n
  BY <1>a
<1>5. Len(t) = Len(p)
  BY <1>a, <1>3
<1>6. \A n \in 1..Len(p) : t[n] = q[n]
  BY <1>3, <1>4
<1>7. p = t <=> \A n \in 1..Len(p) : p[n] = t[n]
  BY <1>3, <1>5, SeqEqual
<1> QED
  BY <1>1, <1>2, <1>6, <1>7

\* delLimitCapture reports the limit exactly when some line of the whole stream
\* begins with rsync's warning, however the stream was cut into chunks.
THEOREM LimitedProved == Spec => []LimitedIffLineWarns
<1>1. ASSUME CaptureInv PROVE LimitedIffLineWarns
  <2>a. stream \in Seq(Bytes) /\ Len(stream) \in Nat
    BY <1>1, LenProperties DEF CaptureInv
  <2>b. Warn \in Seq(Bytes) /\ Len(Warn) \in Nat \ {0}
    BY WarnType
  <2>1. ASSUME NEW k \in 1..Len(stream)
        PROVE  Warns(stream, k) <=>
                 LineStart(k) /\ IsPrefix(Warn, SubSeq(stream, k, Len(stream)))
    <3>1. PICK t : t = SubSeq(stream, k, Len(stream))
      OBVIOUS
    <3>2. \A n \in k..Len(stream) : stream[n] \in Bytes
      <4>1. \A n \in k..Len(stream) : n \in 1..Len(stream)
        BY <2>a
      <4> QED
        BY <2>a, <4>1, ElementOfSeq
    <3>3. /\ t \in Seq(Bytes)
          /\ Len(t) = IF k <= Len(stream) THEN Len(stream) - k + 1 ELSE 0
          /\ \A n \in 1..(Len(stream) - k + 1) : t[n] = stream[k + n - 1]
      <4>1. k \in Int /\ Len(stream) \in Int
        BY <2>a
      <4> QED
        BY <3>1, <3>2, <4>1, SubSeqProperties
    <3>4. Len(t) = Len(stream) - k + 1
      BY <2>a, <3>3
    <3>5. Len(Warn) <= Len(t) <=> k + Len(Warn) - 1 <= Len(stream)
      BY <2>a, <2>b, <3>4
    <3>6. Len(Warn) <= Len(t) =>
            \A n \in 1..Len(Warn) : n \in 1..(Len(stream) - k + 1)
      BY <2>a, <2>b, <3>4
    <3>7. IsPrefix(Warn, t) <=> /\ Len(Warn) <= Len(t)
                                /\ \A n \in 1..Len(Warn) : Warn[n] = t[n]
      BY <2>b, <3>3, PrefixElements
    <3>8. IsPrefix(Warn, t) <=>
            /\ k + Len(Warn) - 1 <= Len(stream)
            /\ \A n \in 1..Len(Warn) : stream[k + n - 1] = Warn[n]
      BY <3>3, <3>5, <3>6, <3>7
    <3> QED
      BY <3>1, <3>8 DEF Warns, LineBegins, LineStart
  <2>2. capture.limited <=> \E k \in 1..Len(stream) : Warns(stream, k)
    BY <1>1 DEF CaptureInv, Tracks
  <2> QED
    BY <2>1, <2>2 DEF LimitedIffLineWarns
<1> QED
  BY <1>1, CaptureInvariance, PTL

\* tail never logs the rest of a rune whose start was cut off, by itself or by
\* the buffer before it.
THEOREM TailProved == Spec => []TailStartsAtRune
<1>1. ASSUME CaptureInv PROVE TailStartsAtRune
  <2>a. /\ Len(stream) \in Nat /\ MaxBytes \in Nat /\ TailBytes \in Nat \ {0}
        /\ TailBytes < MaxBytes /\ stream \in Seq(Bytes)
    BY <1>1, LenProperties, StreamAssumption DEF CaptureInv
  <2>b. Held(Len(stream)) \in 0..Len(stream)
    BY <2>a DEF Held
  <2>c. /\ buf \in Seq(Bytes) /\ Len(buf) = Held(Len(stream))
        /\ \A m \in 1..Held(Len(stream)) :
             buf[m] = stream[Len(stream) - Held(Len(stream)) + m]
    BY <1>1, <2>a, <2>b, SuffixElements DEF CaptureInv
  <2>d. Len(buf) \in Nat
    BY <2>b, <2>c
  <2> SUFFICES ASSUME NEW t, t = tail(buf, TailBytes), t # <<>>, t # stream
               PROVE  Head(t) \notin Continuations
    BY DEF TailStartsAtRune
  <2>1. CASE Len(buf) <= TailBytes
    <3>1. t = buf
      BY <2>1 DEF tail
    <3>2. Len(buf) = Len(stream)
      BY <2>1, <2>a, <2>c DEF Held
    <3>3. \A m \in 1..Len(buf) : buf[m] = stream[m]
      <4>1. \A m \in 1..Len(buf) : Len(stream) - Held(Len(stream)) + m = m
        BY <2>a, <2>c, <3>2
      <4> QED
        BY <2>c, <4>1
    <3>4. buf = stream
      BY <2>a, <2>c, <3>2, <3>3, SeqEqual
    <3> QED
      BY <3>1, <3>4
  <2>2. CASE ~(Len(buf) <= TailBytes)
    <3> DEFINE starts == {k \in Len(buf) - TailBytes + 1 .. Len(buf) :
                             buf[k] \notin Continuations}
    <3>1. t = IF starts = {} THEN <<>>
              ELSE SubSeq(buf, CHOOSE k \in starts : \A m \in starts : k <= m, Len(buf))
      BY <2>2 DEF tail
    <3>2. starts # {}
      BY <3>1
    <3>3. starts \in SUBSET Nat /\ \A k \in starts : k \in 1..Len(buf)
      BY <2>2, <2>a, <2>d
    <3>4. \E k \in starts : \A m \in starts : k <= m
      BY <3>2, <3>3, LeastNumber
    <3>5. PICK k : k = CHOOSE l \in starts : \A m \in starts : l <= m
      OBVIOUS
    <3>6. k \in starts
      BY <3>4, <3>5
    <3>7. t = SubSeq(buf, k, Len(buf)) /\ buf[k] \notin Continuations
      BY <3>1, <3>2, <3>5, <3>6
    <3>8. k \in 1..Len(buf) /\ Len(buf) \in k..Len(buf)
      BY <2>d, <3>3, <3>6
    <3>9. Head(SubSeq(buf, k, Len(buf))) = buf[k]
      BY <2>c, <3>8, HeadTailOfSubSeq
    <3> QED
      BY <3>7, <3>9
  <2> QED
    BY <2>1, <2>2
<1> QED
  BY <1>1, CaptureInvariance, PTL
================================================================================
