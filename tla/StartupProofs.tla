----------------------------- MODULE StartupProofs -----------------------------
(***************************************************************************)
(* The start, for any document, any mounts and any operator who writes to   *)
(* them meanwhile: what runs is the whole of a valid document, under the    *)
(* host keys that known_hosts pins, and every job of it as it was written.  *)
(***************************************************************************)
EXTENDS Startup, SequenceTheorems, FiniteSetTheorems, WellFoundedInduction, TLAPS

TypeOK ==
    /\ jobs \in Seq(Range(jobs)) /\ size \in Nat /\ text \in Seq(Runes)
    /\ \A j \in Range(jobs) : j.remoteHost \in Seq(STRING)
    /\ pc \in {"open config", "read config", "validate", "advise", "open hosts",
               "scan", "run", "refused"}
    /\ got \in Nat /\ i \in Nat \ {0} /\ pos \in 1..(Len(text) + 1)

\* Past the read the document is whole, and within the cap.
ReadInv ==
    pc \in {"validate", "advise", "open hosts", "scan", "run"} =>
        atEnd /\ got <= configCapBytes

\* The first n jobs are valid, and no two of them have one name.
Checked(n) ==
    /\ \A k \in 1..n : validate(jobs[k])
    /\ \A k, l \in 1..n : k # l => jobs[k].name # jobs[l].name

\* config.validate has checked the jobs before i and remembers all their names.
CheckInv ==
    /\ pc \in {"open config", "read config"} => i = 1 /\ seen = {}
    /\ pc = "validate" => /\ i <= Len(jobs) + 1 /\ Checked(i - 1)
                          /\ seen = {jobs[k].name : k \in 1..(i - 1)}
    /\ pc \in {"advise", "open hosts", "scan", "run"} =>
         jobs # <<>> /\ Checked(Len(jobs))

LoadInv == TypeOK /\ ReadInv /\ CheckInv

\* What a list of the right type has.
LEMMA ListType ==
    ASSUME TypeOK
    PROVE  /\ Len(jobs) \in Nat /\ Len(text) \in Nat
           /\ \A n \in 1..Len(jobs) : jobs[n] \in Range(jobs)
           /\ \A n \in 1..Len(text) : text[n] \in Runes
  BY LenProperties, ElementOfSeq DEF TypeOK

\* The start begins with a well-formed list of jobs and a readable text.
LEMMA LoadInit == Init => LoadInv
<1> SUFFICES ASSUME Init PROVE LoadInv
  OBVIOUS
<1>1. PICK g \in Groups : \E input \in Inputs(g), m \in Mounts(g) :
         /\ jobs = input.jobs /\ size = m.size /\ text = m.text
  BY DEF Init
<1>2. /\ jobs \in Seq(Range(jobs)) /\ size \in Nat /\ text \in Seq(Runes)
      /\ \A j \in Range(jobs) : j.remoteHost \in Seq(STRING)
  BY <1>1, InputAssumption
<1>3. Len(text) \in Nat
  BY <1>2, LenProperties
<1>4. 1 \in 1..(Len(text) + 1)
  BY <1>3
<1>5. got \in Nat /\ i \in Nat \ {0} /\ pos \in 1..(Len(text) + 1)
  <2>1. got = 0 /\ i = 1 /\ pos = 1
    BY DEF Init
  <2> QED
    BY <1>4, <2>1
<1>6. TypeOK
  BY <1>2, <1>5 DEF Init, TypeOK
<1>7. ReadInv /\ CheckInv
  BY DEF Init, ReadInv, CheckInv
<1> QED
  BY <1>6, <1>7 DEF LoadInv

\* The types are kept.
LEMMA TypeStep == TypeOK /\ [Next]_vars => TypeOK'
<1> SUFFICES ASSUME TypeOK, [Next]_vars PROVE TypeOK'
  OBVIOUS
<1>a. /\ Len(jobs) \in Nat /\ Len(text) \in Nat
      /\ size \in Nat /\ got \in Nat /\ i \in Nat \ {0} /\ pos \in 1..(Len(text) + 1)
  BY ListType DEF TypeOK
<1>d. pc \in {"open config", "read config", "validate", "advise", "open hosts",
              "scan", "run", "refused"}
  BY DEF TypeOK
<1>b. UNCHANGED jobs
  BY DEF Next, Step, OpenConfig, ReadConfig, ConfigEnds, Validate, adviseConfig,
     OpenHosts, classifyKnownHosts, ReadError, RunNext, Edit, Stop, inputVars, vars
<1>c. /\ jobs' \in Seq(Range(jobs)')
      /\ \A j \in Range(jobs)' : j.remoteHost \in Seq(STRING)
  BY <1>b DEF TypeOK, Range
<1>1. ASSUME UNCHANGED <<size, text>>, got' \in Nat, i' \in Nat \ {0},
             pc' \in {"open config", "read config", "validate", "advise",
                      "open hosts", "scan", "run", "refused"},
             pos' \in 1..(Len(text) + 1)
      PROVE  TypeOK'
  BY <1>1, <1>c DEF TypeOK
<1>2. CASE OpenConfig
  BY <1>1, <1>2 DEF OpenConfig, fileVars, readVars, docVars, scanVars, TypeOK
<1>3. CASE ReadConfig
  <2>1. /\ UNCHANGED <<size, text, pc, i, pos>>
        /\ \E n \in 1..MaxBytes : got' = got + n
    BY <1>3 DEF ReadConfig, fileVars, docVars, scanVars
  <2>2. got' \in Nat
    BY <1>a, <2>1, BoundsAssumption
  <2> QED
    BY <1>1, <1>a, <1>d, <2>1, <2>2
<1>4. CASE ConfigEnds
  BY <1>1, <1>4 DEF ConfigEnds, fileVars, docVars, scanVars, TypeOK
<1>5. CASE Validate
  <2>1. /\ UNCHANGED <<size, text, got, pos>>
        /\ pc' \in {"refused", "advise", pc} /\ i' \in {1, i, i + 1}
    BY <1>5 DEF Validate, fileVars, readVars, scanVars
  <2>2. i' \in Nat \ {0}
    BY <1>a, <2>1
  <2> QED
    BY <1>1, <1>a, <1>d, <2>1, <2>2
<1>6. CASE adviseConfig
  BY <1>1, <1>6 DEF adviseConfig, fileVars, readVars, scanVars, TypeOK
<1>7. CASE OpenHosts
  BY <1>1, <1>7 DEF OpenHosts, fileVars, readVars, docVars, TypeOK
<1>8. CASE classifyKnownHosts
  <2>1. /\ UNCHANGED <<size, text, got, i>> /\ pc' \in {pc, "run", "refused"}
        /\ pos' = pos \/ (pos <= Len(text) /\ pos' = pos + 1)
    BY <1>8 DEF classifyKnownHosts, ScanRune, fileVars, readVars, docVars, scanVars
  <2>2. pos' \in 1..(Len(text) + 1)
    BY <1>a, <2>1
  <2> QED
    BY <1>1, <1>a, <1>d, <2>1, <2>2
<1>9. CASE ReadError
  BY <1>1, <1>9 DEF ReadError, fileVars, readVars, docVars, scanVars, TypeOK
<1>10. CASE RunNext
  BY <1>1, <1>10 DEF RunNext, fileVars, readVars, scanVars, TypeOK
<1>11. CASE Edit
  <2>1. UNCHANGED <<pc, got, i, pos>>
    BY <1>11 DEF Edit, readVars, docVars, scanVars
  <2>2. size' \in Nat
    <3>1. size' \in 0..MaxBytes \/ size' = size
      BY <1>11 DEF Edit
    <3> QED
      BY <1>a, <3>1, BoundsAssumption
  <2>3. /\ text' \in Seq(Runes) /\ pos' \in 1..(Len(text)' + 1)
    <3>1. CASE UNCHANGED text
      BY <2>1, <3>1 DEF TypeOK
    <3>2. CASE \E r \in Runes : text' = Append(text, r)
      <4>1. PICK r \in Runes : text' = Append(text, r)
        BY <3>2
      <4>2. text' \in Seq(Runes) /\ Len(text') = Len(text) + 1
        BY <4>1, AppendProperties DEF TypeOK
      <4> QED
        BY <1>a, <2>1, <4>2
    <3> QED
      BY <1>11, <3>1, <3>2 DEF Edit
  <2> QED
    BY <1>a, <1>c, <1>d, <2>1, <2>2, <2>3 DEF TypeOK
<1>12. CASE UNCHANGED vars
  BY <1>1, <1>12 DEF vars, fileVars, readVars, docVars, scanVars, TypeOK
<1> QED
  BY <1>2, <1>3, <1>4, <1>5, <1>6, <1>7, <1>8, <1>9, <1>10, <1>11, <1>12
  DEF Next, Step, Stop

\* Only config.validate's loop and the read decide what counts as checked.
LEMMA LoadStep == LoadInv /\ [Next]_vars => LoadInv'
<1> SUFFICES ASSUME LoadInv, [Next]_vars PROVE LoadInv'
  OBVIOUS
<1>a. /\ TypeOK /\ ReadInv /\ CheckInv /\ Len(jobs) \in Nat
      /\ size \in Nat /\ got \in Nat /\ i \in Nat \ {0}
  BY ListType DEF LoadInv, TypeOK
<1>b. TypeOK'
  BY TypeStep DEF LoadInv
<1>c. UNCHANGED jobs
  BY DEF Next, Step, OpenConfig, ReadConfig, ConfigEnds, Validate, adviseConfig,
     OpenHosts, classifyKnownHosts, ReadError, RunNext, Edit, Stop, inputVars, vars
<1>d. \A n : Checked(n)' <=> Checked(n)
  BY <1>c DEF Checked
<1>1. ASSUME ReadInv', CheckInv' PROVE LoadInv'
  BY <1>1, <1>b DEF LoadInv
\* Steps after validation, and those that leave everything checked as it was.
<1>2. ASSUME UNCHANGED <<got, atEnd>>,
             pc \in {"advise", "open hosts", "scan", "run"},
             pc' \in {"open hosts", "scan", "run", "refused"}
      PROVE  LoadInv'
  <2>1. ReadInv'
    BY <1>2, <1>a DEF ReadInv
  <2>2. Checked(Len(jobs))'
    BY <1>2, <1>a, <1>c DEF CheckInv, Checked
  <2>3. CheckInv'
    BY <1>2, <1>a, <1>c, <2>2 DEF CheckInv
  <2> QED
    BY <1>1, <2>1, <2>3
<1>3. CASE OpenConfig
  <2>1. pc = "open config" /\ pc' \in {"read config", "refused"} /\ UNCHANGED <<i, seen>>
    BY <1>3 DEF OpenConfig, docVars
  <2> QED
    BY <1>1, <1>a, <2>1 DEF ReadInv, CheckInv
<1>4. CASE ReadConfig
  <2>1. pc = "read config" /\ UNCHANGED <<pc, i, seen>>
    BY <1>4 DEF ReadConfig, docVars
  <2> QED
    BY <1>1, <1>a, <2>1 DEF ReadInv, CheckInv
<1>5. CASE ConfigEnds
  <2>1. /\ pc = "read config" /\ (got >= size \/ got >= configCapBytes + 1)
        /\ pc' \in IF got > configCapBytes THEN {"refused"} ELSE {"validate", "refused"}
        /\ atEnd' = (got >= size) /\ UNCHANGED <<got, i, seen>>
    BY <1>5 DEF ConfigEnds, Limit, docVars
  <2>2. CASE pc' = "refused"
    BY <1>1, <2>2 DEF ReadInv, CheckInv
  <2>3. CASE pc' = "validate" /\ ~(got > configCapBytes)
    <3>1. atEnd' /\ got' <= configCapBytes
      <4>1. got >= size /\ got <= configCapBytes
        <5>1. got >= size \/ got >= configCapBytes + 1
          BY <2>1
        <5>2. got \in Nat /\ size \in Nat
          BY <1>a
        <5> QED
          BY <2>3, <5>1, <5>2, BoundsAssumption
      <4> QED
        BY <2>1, <4>1
    <3>2. i' = 1 /\ seen' = {}
      BY <1>5, <1>a, <2>1 DEF ConfigEnds, CheckInv
    <3>3. i' - 1 = 0 /\ i' <= Len(jobs) + 1
      BY <1>a, <3>2
    <3>4. 1..0 = {}
      OBVIOUS
    <3>5. Checked(i - 1)' /\ {jobs'[k].name : k \in 1..(i' - 1)} = {}
      BY <3>3, <3>4 DEF Checked
    <3> QED
      BY <1>1, <1>c, <2>3, <3>1, <3>2, <3>3, <3>5 DEF ReadInv, CheckInv
  <2> QED
    BY <2>1, <2>2, <2>3
<1>6. CASE Validate
  <2>a. pc = "validate" /\ UNCHANGED <<got, atEnd>>
    BY <1>6 DEF Validate, readVars
  <2>b. /\ i <= Len(jobs) + 1 /\ Checked(i - 1)
        /\ seen = {jobs[k].name : k \in 1..(i - 1)}
    BY <1>a, <2>a DEF CheckInv
  <2>1. CASE pc' = "refused"
    BY <1>1, <2>1 DEF ReadInv, CheckInv
  <2>2. CASE pc' # "refused" /\ i > Len(jobs)
    <3>1. jobs # <<>> /\ pc' = "advise"
      BY <1>6, <2>2 DEF Validate
    <3>2. i - 1 = Len(jobs)
      BY <1>a, <2>b, <2>2
    <3>3. Checked(Len(jobs))'
      BY <1>c, <2>b, <3>2 DEF Checked
    <3> QED
      BY <1>1, <1>a, <1>c, <2>a, <3>1, <3>3 DEF ReadInv, CheckInv
  <2>3. CASE pc' # "refused" /\ ~(i > Len(jobs))
    <3>1. /\ jobs[i].name \notin seen /\ validate(jobs[i]) /\ i' = i + 1
          /\ seen' = seen \cup {jobs[i].name} /\ pc' = "validate"
      BY <1>6, <2>a, <2>3 DEF Validate, Remember
    <3>2. i' - 1 = i /\ i' <= Len(jobs) + 1
      BY <1>a, <2>3, <3>1
    <3>3. 1..i = 1..(i - 1) \cup {i}
      BY <1>a
    <3>4. Checked(i)
      BY <2>b, <3>1, <3>3 DEF Checked
    <3>5. Checked(i - 1)'
      BY <1>c, <3>2, <3>4 DEF Checked
    <3>6. seen' = {jobs'[k].name : k \in 1..(i' - 1)}
      BY <1>c, <2>b, <3>1, <3>2, <3>3
    <3> QED
      BY <1>1, <1>a, <1>c, <2>a, <3>1, <3>2, <3>5, <3>6 DEF ReadInv, CheckInv
  <2> QED
    BY <2>1, <2>2, <2>3
<1>7. CASE adviseConfig \/ OpenHosts \/ classifyKnownHosts \/ RunNext
  <2>1. UNCHANGED <<got, atEnd>>
    BY <1>7 DEF adviseConfig, OpenHosts, classifyKnownHosts, RunNext, readVars
  <2>2. /\ pc \in {"advise", "open hosts", "scan", "run"}
        /\ pc' \in {"open hosts", "scan", "run", "refused"}
    BY <1>7 DEF adviseConfig, OpenHosts, classifyKnownHosts, ScanRune, RunNext
  <2> QED
    BY <1>2, <2>1, <2>2
<1>8. CASE ReadError
  BY <1>1, <1>8 DEF ReadError, ReadInv, CheckInv
<1>9. CASE Edit \/ UNCHANGED vars
  <2>1. UNCHANGED <<pc, got, atEnd, i, seen>>
    BY <1>9 DEF Edit, vars, readVars, docVars
  <2>2. ReadInv'
    BY <1>a, <2>1 DEF ReadInv
  <2>3. CheckInv'
    BY <1>a, <1>c, <2>1 DEF CheckInv, Checked
  <2> QED
    BY <1>1, <2>2, <2>3
<1> QED
  BY <1>3, <1>4, <1>5, <1>6, <1>7, <1>8, <1>9 DEF Next, Step, Stop

\* A list whose names differ has as many names as jobs.
LEMMA NamesCount ==
    ASSUME TypeOK, Checked(Len(jobs))
    PROVE  Cardinality({jobs[k].name : k \in 1..Len(jobs)}) = Len(jobs)
<1> DEFINE Names == {jobs[k].name : k \in 1..Len(jobs)}
           f == [k \in 1..Len(jobs) |-> jobs[k].name]
<1>1. Len(jobs) \in Nat
  BY ListType
<1>2. IsFiniteSet(1..Len(jobs)) /\ Cardinality(1..Len(jobs)) = Len(jobs)
  <2>1. PICK n \in Nat : n = Len(jobs)
    BY <1>1
  <2>2. IsFiniteSet(1..n) /\ Cardinality(1..n) = IF 1 > n THEN 0 ELSE n - 1 + 1
    BY FS_Interval
  <2>3. (IF 1 > n THEN 0 ELSE n - 1 + 1) = n
    OBVIOUS
  <2> QED
    BY <2>1, <2>2, <2>3
<1>3. f \in Bijection(1..Len(jobs), Names)
  BY DEF Bijection, Injection, Surjection, IsInjective, Checked
<1>4. ExistsBijection(1..Len(jobs), Names)
  BY <1>3 DEF ExistsBijection
<1> QED
  BY <1>2, <1>4, FS_Bijection

\* The parts of LoadInv are inductive together.
LEMMA LoadInvariance == Spec => []LoadInv
  BY LoadInit, LoadStep, PTL DEF Spec

\* loadConfig lets nothing but a whole and valid document through, whatever an
\* operator writes to the file while it is read and wherever in the list an
\* offending job stands.
THEOREM DocumentProved == Spec => []WholeDocument
<1>1. LoadInv => WholeDocument
  <2> SUFFICES ASSUME LoadInv, pc \in {"advise", "open hosts", "scan", "run"}
               PROVE  /\ atEnd /\ got <= configCapBytes
                      /\ jobs # <<>> /\ \A k \in 1..Len(jobs) : validate(jobs[k])
                      /\ Cardinality({jobs[k].name : k \in 1..Len(jobs)}) = Len(jobs)
    BY DEF WholeDocument
  <2>1. TypeOK /\ jobs # <<>> /\ Checked(Len(jobs))
    BY DEF LoadInv, CheckInv
  <2>2. atEnd /\ got <= configCapBytes
    BY DEF LoadInv, ReadInv
  <2>3. \A k \in 1..Len(jobs) : validate(jobs[k])
    BY <2>1 DEF Checked
  <2> QED
    BY <2>1, <2>2, <2>3, NamesCount
<1> QED
  BY <1>1, LoadInvariance, PTL

-------------------------------------------------------------------------------
\* The scan of known_hosts.

\* Rune n begins an entry: it is neither blank nor inside a comment.
Entry(t, n) ==
    t[n] = "other" /\ \A m \in 1..n : t[m] = "#" => \E l \in m..n : t[l] = "newline"

\* After n runes the scan is inside a comment.
Commented(t, n) ==
    \E m \in 1..n : t[m] = "#" /\ \A l \in m..n : t[l] # "newline"

\* The verdict is "strict" once an entry has been read, and not before; while
\* the scan goes on, its flag says whether a comment is open.
ScanInv ==
    /\ inComment \in BOOLEAN
    /\ pc \in {"open config", "read config", "validate", "advise", "open hosts"} =>
         posture = "none" /\ pos = 1 /\ ~inComment
    /\ pc = "scan" => /\ mount.hosts = "regular" /\ posture = "none"
                      /\ inComment <=> Commented(text, pos - 1)
    /\ pc = "run" => posture # "none"
    /\ posture = "accept-new" => mount.hosts = "absent"
    /\ posture = "strict" => mount.hosts = "regular"
    /\ posture = "strict" <=> \E n \in 1..(pos - 1) : Entry(text, n)

\* One more rune: the loop body computes both notions from the flag alone.
LEMMA OneRune ==
    ASSUME NEW t, NEW n \in Nat \ {0}
    PROVE  /\ Entry(t, n) <=> t[n] = "other" /\ ~Commented(t, n - 1)
           /\ Commented(t, n) <=> t[n] # "newline" /\ (Commented(t, n - 1) \/ t[n] = "#")
<1>1. 1..n = 1..(n - 1) \cup {n} /\ n \in n..n /\ n \notin 1..(n - 1)
  OBVIOUS
<1>2. \A m \in 1..(n - 1) : m..n = m..(n - 1) \cup {n}
  OBVIOUS
<1>3. n..n = {n}
  OBVIOUS
<1>4. Entry(t, n) <=> t[n] = "other" /\ ~Commented(t, n - 1)
  <2>1. ASSUME t[n] = "other"
        PROVE  Entry(t, n) <=> ~Commented(t, n - 1)
    <3>1. \A m \in 1..(n - 1) : (\E l \in m..n : t[l] = "newline")
                                  <=> \E l \in m..(n - 1) : t[l] = "newline"
      BY <1>2, <2>1
    <3>2. Entry(t, n) <=> \A m \in 1..(n - 1) : t[m] = "#" =>
                             \E l \in m..(n - 1) : t[l] = "newline"
      BY <1>1, <2>1, <3>1 DEF Entry
    <3> QED
      BY <3>2 DEF Commented
  <2> QED
    BY <2>1 DEF Entry
<1>5. Commented(t, n) <=> t[n] # "newline" /\ (Commented(t, n - 1) \/ t[n] = "#")
  <2>1. CASE t[n] = "newline"
    <3>1. \A m \in 1..n : n \in m..n
      OBVIOUS
    <3> QED
      BY <2>1, <3>1 DEF Commented
  <2>2. CASE t[n] # "newline"
    <3>1. \A m \in 1..(n - 1) : (\A l \in m..n : t[l] # "newline")
                                  <=> \A l \in m..(n - 1) : t[l] # "newline"
      BY <1>2, <2>2
    <3>2. Commented(t, n) <=>
            \/ \E m \in 1..(n - 1) : t[m] = "#" /\ \A l \in m..n : t[l] # "newline"
            \/ t[n] = "#" /\ \A l \in n..n : t[l] # "newline"
      BY <1>1 DEF Commented
    <3> QED
      BY <1>3, <2>2, <3>1, <3>2 DEF Commented
  <2> QED
    BY <2>1, <2>2
<1> QED
  BY <1>4, <1>5

\* Both are about the runes up to n, so that what is appended does not matter.
LEMMA SameRunes ==
    ASSUME NEW t, NEW u, NEW n \in Nat, \A m \in 1..n : t[m] = u[m]
    PROVE  /\ Commented(t, n) <=> Commented(u, n)
           /\ \A m \in 1..n : Entry(t, m) <=> Entry(u, m)
<1>1. \A m \in 1..n : \A l \in m..n : l \in 1..n
  OBVIOUS
<1>2. Commented(t, n) <=> Commented(u, n)
  BY <1>1 DEF Commented
<1>3. ASSUME NEW m \in 1..n
      PROVE  Entry(t, m) <=> Entry(u, m)
  <2>1. \A k \in 1..m : k \in 1..n /\ \A l \in k..m : l \in 1..n
    OBVIOUS
  <2> QED
    BY <2>1 DEF Entry
<1> QED
  BY <1>2, <1>3

\* HasEntry of what has been read.
LEMMA ReadEntries ==
    ASSUME NEW t \in Seq(Runes), NEW n \in 0..Len(t)
    PROVE  HasEntry(SubSeq(t, 1, n)) <=> \E m \in 1..n : Entry(t, m)
<1>a. Len(t) \in Nat /\ n \in Nat /\ \A m \in 1..n : m \in 1..Len(t)
  BY LenProperties
<1>b. \A m \in 1..n : t[m] \in Runes
  BY <1>a, ElementOfSeq
<1>1. PICK u : u = SubSeq(t, 1, n)
  OBVIOUS
<1>2. /\ Len(u) = IF 1 <= n THEN n - 1 + 1 ELSE 0
      /\ \A m \in 1..(n - 1 + 1) : u[m] = t[1 + m - 1]
  BY <1>a, <1>b, <1>1, SubSeqProperties
<1>3. n - 1 + 1 = n /\ \A m \in 1..n : 1 + m - 1 = m
  BY <1>a
<1>4. Len(u) = n
  BY <1>a, <1>2
<1>5. \A m \in 1..n : t[m] = u[m]
  BY <1>2, <1>3
<1>6. HasEntry(u) <=> \E m \in 1..n : Entry(u, m)
  BY <1>4 DEF HasEntry, Entry
<1> QED
  BY <1>a, <1>1, <1>5, <1>6, SameRunes

\* The scan keeps its invariant, whatever is appended to the file behind it.
LEMMA ScanStep == TypeOK /\ ScanInv /\ [Next]_vars => ScanInv'
<1> SUFFICES ASSUME TypeOK, ScanInv, [Next]_vars PROVE ScanInv'
  OBVIOUS
<1>a. Len(text) \in Nat /\ pos \in 1..(Len(text) + 1) /\ text \in Seq(Runes)
  BY ListType DEF TypeOK
<1>b. UNCHANGED mount
  BY DEF Next, Step, OpenConfig, ReadConfig, ConfigEnds, Validate, adviseConfig,
     OpenHosts, classifyKnownHosts, ReadError, RunNext, Edit, Stop, inputVars, vars
\* Steps before the scan and after it.
<1>1. ASSUME UNCHANGED <<text, pos, inComment, posture>>,
             pc' = pc \/ pc' = "refused"
                \/ (pc \notin {"scan", "run"} /\ pc' \notin {"scan", "run"}
                     /\ posture = "none" /\ pos = 1 /\ ~inComment)
      PROVE  ScanInv'
  BY <1>1, <1>b DEF ScanInv
<1>2. CASE OpenConfig \/ ReadConfig \/ ConfigEnds \/ Validate \/ adviseConfig
  <2>1. UNCHANGED <<text, pos, inComment, posture>>
    BY <1>2 DEF OpenConfig, ReadConfig, ConfigEnds, Validate, adviseConfig, fileVars,
       scanVars
  <2>2. /\ pc \in {"open config", "read config", "validate", "advise"}
        /\ pc' \in {"read config", "validate", "advise", "open hosts", "refused"}
    BY <1>2 DEF OpenConfig, ReadConfig, ConfigEnds, Validate, adviseConfig
  <2>3. posture = "none" /\ pos = 1 /\ ~inComment
    BY <2>2 DEF ScanInv
  <2> QED
    BY <1>1, <2>1, <2>2, <2>3
<1>3. CASE OpenHosts
  <2>1. /\ pc = "open hosts" /\ UNCHANGED <<text, pos, inComment>>
        /\ posture = "none" /\ pos = 1 /\ ~inComment
    BY <1>3 DEF OpenHosts, fileVars, ScanInv
  <2>2. pos' - 1 = 0 /\ 1..0 = {}
    <3>1. pos' = 1
      BY <2>1
    <3> QED
      BY <3>1
  <2>3. ~Commented(text, pos - 1)' /\ ~\E n \in 1..(pos' - 1) : Entry(text', n)
    BY <2>2 DEF Commented
  <2>4. \/ /\ mount.hosts = "regular" /\ pc' = "scan" /\ posture' = "none"
        \/ /\ mount.hosts = "absent" /\ pc' = "run" /\ posture' = "accept-new"
        \/ /\ pc' = "refused" /\ posture' = "none"
    BY <1>3 DEF OpenHosts, openRegular
  <2> QED
    BY <1>b, <2>1, <2>3, <2>4 DEF ScanInv
<1>4. CASE classifyKnownHosts
  <2>1. /\ pc = "scan" /\ UNCHANGED text
        /\ mount.hosts = "regular" /\ posture = "none" /\ inComment \in BOOLEAN
        /\ inComment <=> Commented(text, pos - 1)
        /\ ~\E n \in 1..(pos - 1) : Entry(text, n)
    BY <1>4 DEF classifyKnownHosts, fileVars, ScanInv
  <2>2. CASE pos <= Len(text)
    <3>1. ScanRune(text[pos]) /\ pos' = pos + 1
      BY <1>4, <2>2 DEF classifyKnownHosts
    <3>2. pos' - 1 = pos /\ 1..pos = 1..(pos - 1) \cup {pos} /\ pos \in Nat \ {0}
      BY <1>a, <3>1
    <3>3. /\ Entry(text, pos) <=> text[pos] = "other" /\ ~inComment
          /\ Commented(text, pos) <=>
               text[pos] # "newline" /\ (inComment \/ text[pos] = "#")
      BY <2>1, <3>2, OneRune
    <3>4. (\E n \in 1..(pos' - 1) : Entry(text', n)) <=> Entry(text, pos)
      BY <2>1, <3>2
    <3>5. Commented(text, pos - 1)' <=> Commented(text, pos)
      BY <2>1, <3>2
    <3>6. CASE text[pos] = "other" /\ ~inComment
      BY <1>b, <2>1, <3>1, <3>3, <3>4, <3>6 DEF ScanRune, ScanInv
    <3>7. CASE ~(text[pos] = "other" /\ ~inComment)
      <4>1. /\ UNCHANGED <<pc, posture>>
            /\ inComment' = (text[pos] # "newline" /\ (inComment \/ text[pos] = "#"))
        BY <3>1, <3>7 DEF ScanRune
      <4>2. inComment' \in BOOLEAN /\ (inComment' <=> Commented(text, pos))
        BY <3>3, <4>1
      <4>3. ~Entry(text, pos)
        BY <3>3, <3>7
      <4> QED
        BY <1>b, <2>1, <3>4, <3>5, <4>1, <4>2, <4>3 DEF ScanInv
    <3> QED
      BY <3>6, <3>7
  <2>3. CASE ~(pos <= Len(text))
    BY <1>1, <1>4, <2>1, <2>3 DEF classifyKnownHosts, scanVars
  <2> QED
    BY <2>2, <2>3
<1>5. CASE ReadError
  BY <1>1, <1>5 DEF ReadError, fileVars, scanVars
<1>6. CASE RunNext
  BY <1>1, <1>6 DEF RunNext, fileVars, scanVars
<1>7. CASE Edit
  <2>1. UNCHANGED <<pc, pos, inComment, posture>>
    BY <1>7 DEF Edit, scanVars
  <2>2. CASE UNCHANGED text
    BY <1>1, <2>1, <2>2
  <2>3. CASE \E r \in Runes : text' = Append(text, r)
    <3>1. PICK r \in Runes : text' = Append(text, r)
      BY <2>3
    <3>2. PICK u : u = Append(text, r)
      OBVIOUS
    <3>3. \A m \in 1..Len(text) : u[m] = text[m]
      BY <1>a, <3>2, AppendProperties
    <3>4. pos - 1 \in Nat /\ \A m \in 1..(pos - 1) : m \in 1..Len(text)
      BY <1>a
    <3>5. /\ Commented(u, pos - 1) <=> Commented(text, pos - 1)
          /\ \A m \in 1..(pos - 1) : Entry(u, m) <=> Entry(text, m)
      BY <3>3, <3>4, SameRunes
    <3>6. text' = u /\ pos' - 1 = pos - 1
      BY <2>1, <3>1, <3>2
    <3>7. /\ Commented(text, pos - 1)' <=> Commented(text, pos - 1)
          /\ (\E m \in 1..(pos' - 1) : Entry(text', m))
               <=> \E m \in 1..(pos - 1) : Entry(text, m)
      BY <3>5, <3>6
    <3> QED
      BY <1>b, <2>1, <3>7 DEF ScanInv
  <2> QED
    BY <1>7, <2>2, <2>3 DEF Edit
<1>8. CASE UNCHANGED vars
  BY <1>1, <1>8 DEF vars, fileVars, scanVars
<1> QED
  BY <1>2, <1>3, <1>4, <1>5, <1>6, <1>7, <1>8 DEF Next, Step, Stop

\* The scan's invariant holds of every start.
LEMMA ScanInvariance == Spec => [](LoadInv /\ ScanInv)
<1>1. Init => ScanInv
  <2> SUFFICES ASSUME Init PROVE ScanInv
    OBVIOUS
  <2>1. /\ pos = 1 /\ inComment = FALSE /\ posture = "none" /\ pc = "open config"
    BY DEF Init
  <2>2. pos - 1 = 0 /\ 1..0 = {}
    <3>1. pos = 1
      BY <2>1
    <3> QED
      BY <3>1
  <2> QED
    BY <2>1, <2>2 DEF ScanInv
<1>2. LoadInv /\ ScanInv /\ [Next]_vars => ScanInv'
  BY ScanStep DEF LoadInv
<1> QED
  BY <1>1, <1>2, LoadInvariance, PTL DEF Spec

\* classifyKnownHosts never mistakes a file without an entry for a pinning one,
\* nor the other way, and only an absent file lets the daemon accept new keys.
THEOREM PostureProved == Spec => []PostureExact
<1>1. ASSUME LoadInv, ScanInv PROVE PostureExact
  <2>1. TypeOK /\ text \in Seq(Runes) /\ Len(text) \in Nat /\ pos \in 1..(Len(text) + 1)
    BY <1>1, ListType DEF LoadInv, TypeOK
  <2>2. pos - 1 \in 0..Len(text)
    BY <2>1
  <2>3. HasEntry(SubSeq(text, 1, pos - 1)) <=> \E n \in 1..(pos - 1) : Entry(text, n)
    BY <2>1, <2>2, ReadEntries
  <2> QED
    BY <1>1, <2>3 DEF ScanInv, PostureExact
<1> QED
  BY <1>1, ScanInvariance, PTL

-------------------------------------------------------------------------------
\* What validateRemoteHost accepts.

\* The two forms of the contract.
NameForm(h) ==
    h # <<>> /\ h[1] # "-name" /\ Range(h) \subseteq {"name", "-name", "ip4"}

HostForm(h) ==
    NameForm(h) \/ h \in {<<a>> : a \in Addresses}
                \/ h \in {<<"[", a, "]">> : a \in Addresses}

\* Every set of numbers has a least one, by the order on Nat being well founded.
LEMMA LeastNumber ==
    ASSUME NEW T \in SUBSET Nat, T # {}
    PROVE  \E m \in T : \A n \in T : m <= n
<1> DEFINE R == OpToRel(<, Nat)
<1>1. \E m \in T : \A n \in T : ~(<<n, m>> \in R)
  BY NatLessThanWellFounded, WFMin
<1>2. \A m, n \in Nat : m < n => <<m, n>> \in R
  BY DEF OpToRel
<1> HIDE DEF R
<1>3. PICK m \in T : \A n \in T : ~(<<n, m>> \in R)
  BY <1>1
<1>4. \A n \in T : ~(n < m)
  BY <1>2, <1>3
<1> QED
  BY <1>3, <1>4

\* strings.Cut at the first "@".
LEMMA CutAtFirst ==
    ASSUME NEW W, NEW raw \in Seq(W)
    PROVE  \/ /\ "@" \notin Range(raw)
              /\ Cut(raw) = <<<<>>, raw>>
           \/ \E n \in 1..Len(raw) :
                /\ raw[n] = "@" /\ \A m \in 1..(n - 1) : raw[m] # "@"
                /\ Cut(raw) = <<SubSeq(raw, 1, n - 1), SubSeq(raw, n + 1, Len(raw))>>
<1> DEFINE I == {n \in 1..Len(raw) : raw[n] = "@"}
           at == IF I # {} THEN Min(I) ELSE 0
<1>a. Len(raw) \in Nat /\ DOMAIN raw = 1..Len(raw)
  BY LenProperties
<1>1. Cut(raw) = IF at = 0 THEN <<<<>>, raw>>
                 ELSE <<SubSeq(raw, 1, at - 1), SubSeq(raw, at + 1, Len(raw))>>
  BY DEF Cut, SelectInSeq
<1>2. CASE I = {}
  <2>1. at = 0 /\ "@" \notin Range(raw)
    BY <1>2, <1>a DEF Range
  <2> QED
    BY <1>1, <2>1
<1>3. CASE I # {}
  <2>1. I \in SUBSET Nat
    BY <1>a
  <2>2. \E x \in I : \A y \in I : x <= y
    BY <1>3, <2>1, LeastNumber
  <2>3. at \in I /\ \A y \in I : at <= y
    BY <1>3, <2>2 DEF Min
  <2> HIDE DEF at
  <2>4. at \in 1..Len(raw) /\ raw[at] = "@" /\ at # 0
    BY <1>a, <2>3
  <2>5. \A m \in 1..(at - 1) : raw[m] # "@"
    BY <1>a, <2>3, <2>4
  <2> QED
    BY <1>1, <2>4, <2>5
<1> QED
  BY <1>2, <1>3

\* The character class is the name of the contract.
LEMMA NameClass ==
    ASSUME NEW h \in Seq(STRING)
    PROVE  hostnameRE(h) <=> NameForm(h)
<1>1. h # <<>> => h[1] \in Range(h)
  <2>1. Len(h) \in Nat /\ DOMAIN h = 1..Len(h)
    BY LenProperties
  <2>2. h # <<>> => Len(h) \in Nat \ {0}
    BY EmptySeq
  <2>3. h # <<>> => 1 \in DOMAIN h
    BY <2>1, <2>2
  <2> QED
    BY <2>3 DEF Range
<1> QED
  BY <1>1 DEF hostnameRE, NameForm

\* A piece of a text.
LEMMA Piece ==
    ASSUME NEW W, NEW h \in Seq(W), NEW m \in 1..(Len(h) + 1), NEW n \in 0..Len(h)
    PROVE  /\ SubSeq(h, m, n) \in Seq(W)
           /\ Len(SubSeq(h, m, n)) = IF m <= n THEN n - m + 1 ELSE 0
           /\ \A l \in 1..(n - m + 1) : SubSeq(h, m, n)[l] = h[m + l - 1]
<1>1. Len(h) \in Nat
  BY LenProperties
<1>2. \A l \in m..n : l \in 1..Len(h)
  BY <1>1
<1>3. \A l \in m..n : h[l] \in W
  BY <1>2, ElementOfSeq
<1>4. m \in Int /\ n \in Int
  BY <1>1
<1> QED
  BY <1>3, <1>4, SubSeqProperties

\* Texts of one and of three tokens.
LEMMA ShortTexts ==
    ASSUME NEW h \in Seq(STRING)
    PROVE  /\ Len(h) = 1 => h = <<h[1]>>
           /\ Len(h) = 3 => h = <<h[1], h[2], h[3]>>
<1>1. ASSUME Len(h) = 1 PROVE h = <<h[1]>>
  <2>1. h[1] \in STRING
    BY <1>1, ElementOfSeq
  <2> QED
    BY <1>1, <2>1, SeqEqual
<1>2. ASSUME Len(h) = 3 PROVE h = <<h[1], h[2], h[3]>>
  <2>1. h[1] \in STRING /\ h[2] \in STRING /\ h[3] \in STRING
    <3>1. 1 \in 1..Len(h) /\ 2 \in 1..Len(h) /\ 3 \in 1..Len(h)
      BY <1>2
    <3> QED
      BY <3>1, ElementOfSeq
  <2>2. \A l \in 1..3 : l = 1 \/ l = 2 \/ l = 3
    OBVIOUS
  <2> QED
    BY <1>2, <2>1, <2>2, SeqEqual
<1> QED
  BY <1>1, <1>2

\* Brackets count when they hold an address, and only then.
LEMMA BracketForm ==
    ASSUME NEW h \in Seq(STRING)
    PROVE  /\ Bracketed(h) /\ ParseIP(Inner(h)) <=> h \in {<<"[", a, "]">> : a \in Addresses}
           /\ ParseIP(h) <=> h \in {<<a>> : a \in Addresses}
<1>a. Len(h) \in Nat
  BY LenProperties
<1>1. ASSUME Bracketed(h), ParseIP(Inner(h))
      PROVE  h \in {<<"[", a, "]">> : a \in Addresses}
  <2>1. Len(h) >= 2 /\ h[1] = "[" /\ h[Len(h)] = "]"
    BY <1>1 DEF Bracketed
  <2>2. 2 \in 1..(Len(h) + 1) /\ Len(h) - 1 \in 0..Len(h)
    BY <1>a, <2>1
  <2>3. PICK u : u = SubSeq(h, 2, Len(h) - 1)
    OBVIOUS
  <2>4. /\ Len(u) = IF 2 <= Len(h) - 1 THEN Len(h) - 1 - 2 + 1 ELSE 0
        /\ \A l \in 1..(Len(h) - 1 - 2 + 1) : u[l] = h[2 + l - 1]
    BY <2>2, <2>3, Piece
  <2>5. Len(u) = 1 /\ u[1] \in Addresses
    BY <1>1, <2>3 DEF ParseIP, Inner
  <2>6. Len(h) = 3
    <3>1. ASSUME NEW m \in Nat, 1 = IF 2 <= m - 1 THEN m - 1 - 2 + 1 ELSE 0
          PROVE  m = 3
      BY <3>1
    <3>2. 1 = IF 2 <= Len(h) - 1 THEN Len(h) - 1 - 2 + 1 ELSE 0
      BY <2>4, <2>5
    <3> QED
      BY <1>a, <3>1, <3>2
  <2>7. u[1] = h[2]
    BY <2>4, <2>6
  <2> QED
    BY <2>1, <2>5, <2>6, <2>7, ShortTexts
<1>2. ASSUME NEW a \in Addresses, h = <<"[", a, "]">>
      PROVE  Bracketed(h) /\ ParseIP(Inner(h))
  <2>1. Len(h) = 3 /\ h[1] = "[" /\ h[2] = a /\ h[3] = "]"
    BY <1>2
  <2>2. PICK u : u = SubSeq(h, 2, Len(h) - 1)
    OBVIOUS
  <2>3. 2 \in 1..(Len(h) + 1) /\ Len(h) - 1 \in 0..Len(h)
    BY <1>a, <2>1
  <2>4. /\ Len(u) = IF 2 <= Len(h) - 1 THEN Len(h) - 1 - 2 + 1 ELSE 0
        /\ \A l \in 1..(Len(h) - 1 - 2 + 1) : u[l] = h[2 + l - 1]
    BY <2>2, <2>3, Piece
  <2>5. Len(u) = 1 /\ u[1] = h[2]
    BY <2>1, <2>4
  <2> QED
    BY <2>1, <2>2, <2>5 DEF Bracketed, ParseIP, Inner
<1>3. ParseIP(h) <=> h \in {<<a>> : a \in Addresses}
  <2>1. ASSUME NEW a \in Addresses, h = <<a>> PROVE ParseIP(h)
    BY <2>1 DEF ParseIP
  <2>2. ASSUME ParseIP(h) PROVE h \in {<<a>> : a \in Addresses}
    BY <2>2, ShortTexts DEF ParseIP
  <2> QED
    BY <2>1, <2>2
<1> QED
  BY <1>1, <1>2, <1>3

\* The host part is accepted in exactly the forms of the contract.
LEMMA HostClass ==
    ASSUME NEW h \in Seq(STRING), NEW s,
           s = IF Bracketed(h) /\ ParseIP(Inner(h)) THEN Inner(h) ELSE h
    PROVE  ParseIP(s) \/ hostnameRE(s) <=> HostForm(h)
<1>1. CASE Bracketed(h) /\ ParseIP(Inner(h))
  BY <1>1, BracketForm DEF HostForm
<1>2. CASE ~(Bracketed(h) /\ ParseIP(Inner(h)))
  BY <1>2, BracketForm, NameClass DEF HostForm
<1> QED
  BY <1>1, <1>2

\* No form of the contract has an "@" in it.
LEMMA NoAtInForm ==
    ASSUME NEW h \in Seq(STRING), HostForm(h)
    PROVE  "@" \notin Range(h) /\ h # <<>>
<1>1. CASE NameForm(h)
  BY <1>1 DEF NameForm
<1>2. CASE h \in {<<a>> : a \in Addresses}
  <2>1. PICK a \in Addresses : h = <<a>>
    BY <1>2
  <2>2. Len(h) = 1 /\ h[1] = a /\ DOMAIN h = 1..Len(h)
    BY <2>1, LenProperties
  <2>3. \A l \in DOMAIN h : l = 1
    BY <2>2
  <2>4. "@" \notin Range(h)
    BY <2>2, <2>3 DEF Range, Addresses
  <2>5. h # <<>>
    BY <2>1
  <2> QED
    BY <2>4, <2>5
<1>3. CASE h \in {<<"[", a, "]">> : a \in Addresses}
  <2>1. PICK a \in Addresses : h = <<"[", a, "]">>
    BY <1>3
  <2>2. Len(h) = 3 /\ h[1] = "[" /\ h[2] = a /\ h[3] = "]" /\ DOMAIN h = 1..Len(h)
    BY <2>1, LenProperties
  <2>3. \A l \in DOMAIN h : l = 1 \/ l = 2 \/ l = 3
    BY <2>2
  <2>4. "@" \notin Range(h)
    BY <2>2, <2>3 DEF Range, Addresses
  <2>5. h # <<>>
    BY SMTT(30), <2>2, EmptySeq
  <2> QED
    BY <2>4, <2>5
<1> QED
  BY <1>1, <1>2, <1>3 DEF HostForm

\* validateRemoteHost accepts exactly the contract, for every text.
LEMMA HostAccepted ==
    ASSUME NEW raw \in Seq(STRING)
    PROVE  validateRemoteHost(raw) <=>
              \/ HostForm(raw)
              \/ \E n \in 2..(Len(raw) - 1) :
                   /\ raw[n] = "@" /\ NameForm(SubSeq(raw, 1, n - 1))
                   /\ HostForm(SubSeq(raw, n + 1, Len(raw)))
<1> DEFINE Split(n) == /\ raw[n] = "@" /\ NameForm(SubSeq(raw, 1, n - 1))
                       /\ HostForm(SubSeq(raw, n + 1, Len(raw)))
<1>a. Len(raw) \in Nat /\ DOMAIN raw = 1..Len(raw)
  BY LenProperties
<1>1. CASE "@" \notin Range(raw)
  <2>1. Cut(raw) = <<<<>>, raw>>
    <3>1. \A n \in 1..Len(raw) : raw[n] # "@"
      BY <1>1, <1>a DEF Range
    <3> QED
      BY <3>1, CutAtFirst
  <2>2. PICK s : s = IF Bracketed(raw) /\ ParseIP(Inner(raw)) THEN Inner(raw) ELSE raw
    OBVIOUS
  <2>3. splitRemoteHost(raw).host = s
    BY <2>1, <2>2 DEF splitRemoteHost
  <2>4. validateRemoteHost(raw) <=> HostForm(raw)
    BY <1>1, <2>2, <2>3, HostClass DEF validateRemoteHost
  <2>5. ~\E n \in 2..(Len(raw) - 1) : raw[n] = "@"
    BY <1>1, <1>a DEF Range
  <2> QED
    BY <2>4, <2>5
<1>2. CASE "@" \in Range(raw)
  <2>1. PICK n \in 1..Len(raw) :
             /\ raw[n] = "@" /\ \A m \in 1..(n - 1) : raw[m] # "@"
             /\ Cut(raw) = <<SubSeq(raw, 1, n - 1), SubSeq(raw, n + 1, Len(raw))>>
    BY <1>2, CutAtFirst
  <2>2. PICK u, h : u = SubSeq(raw, 1, n - 1) /\ h = SubSeq(raw, n + 1, Len(raw))
    OBVIOUS
  <2>3. /\ u \in Seq(STRING) /\ Len(u) = IF 1 <= n - 1 THEN n - 1 - 1 + 1 ELSE 0
    <3>1. 1 \in 1..(Len(raw) + 1) /\ n - 1 \in 0..Len(raw)
      BY <1>a
    <3> QED
      BY <2>2, <3>1, Piece
  <2>4. /\ h \in Seq(STRING)
        /\ Len(h) = IF n + 1 <= Len(raw) THEN Len(raw) - (n + 1) + 1 ELSE 0
    <3>1. n + 1 \in 1..(Len(raw) + 1) /\ Len(raw) \in 0..Len(raw)
      BY <1>a
    <3> QED
      BY <2>2, <3>1, Piece
  <2>5. PICK s : s = IF Bracketed(h) /\ ParseIP(Inner(h)) THEN Inner(h) ELSE h
    OBVIOUS
  <2>6. splitRemoteHost(raw).user = u /\ splitRemoteHost(raw).host = s
    BY <2>1, <2>2, <2>5 DEF splitRemoteHost
  <2>7. validateRemoteHost(raw) <=> NameForm(u) /\ HostForm(h)
    BY <1>2, <2>3, <2>4, <2>5, <2>6, HostClass, NameClass DEF validateRemoteHost
  <2>8. ~HostForm(raw)
    BY <1>2, NoAtInForm
  <2>9. ASSUME NameForm(u), HostForm(h)
        PROVE  n \in 2..(Len(raw) - 1) /\ Split(n)
    <3>1. u # <<>> /\ h # <<>>
      BY <2>4, <2>9, NoAtInForm DEF NameForm
    <3>2. Len(u) # 0 /\ Len(h) # 0
      BY <2>3, <2>4, <3>1, EmptySeq
    <3>3. n \in 2..(Len(raw) - 1)
      <4>1. 1 <= n - 1 /\ n + 1 <= Len(raw)
        BY <2>3, <2>4, <3>2
      <4>2. \A x \in Nat : n + 1 <= x => n <= x - 1
        BY <1>a
      <4> QED
        BY <1>a, <4>1, <4>2
    <3> QED
      BY <2>1, <2>2, <2>9, <3>3
  <2>10. ASSUME NEW l \in 2..(Len(raw) - 1), Split(l)
         PROVE  NameForm(u) /\ HostForm(h)
    <3>1. l = n
      <4>1. ~(l < n)
        BY <1>a, <2>1, <2>10
      <4>2. ~(n < l)
        <5> SUFFICES ASSUME n < l PROVE FALSE
          OBVIOUS
        <5>1. PICK v : v = SubSeq(raw, 1, l - 1)
          OBVIOUS
        <5>2. 1 \in 1..(Len(raw) + 1) /\ l - 1 \in 0..Len(raw)
          BY <1>a
        <5>3. /\ v \in Seq(STRING) /\ Len(v) = IF 1 <= l - 1 THEN l - 1 - 1 + 1 ELSE 0
              /\ \A m \in 1..(l - 1 - 1 + 1) : v[m] = raw[1 + m - 1]
          BY <5>1, <5>2, Piece
        <5>4. n \in 1..(l - 1 - 1 + 1) /\ 1 + n - 1 = n /\ n \in 1..Len(v)
          BY <1>a, <5>3
        <5>5. v[n] = "@"
          BY <2>1, <5>3, <5>4
        <5>6. "@" \in Range(v)
          BY <5>3, <5>4, <5>5, LenProperties DEF Range
        <5> QED
          BY <2>10, <5>1, <5>6 DEF NameForm
      <4> QED
        BY <1>a, <4>1, <4>2
    <3> QED
      BY <2>2, <2>10, <3>1
  <2> HIDE DEF Split
  <2>11. validateRemoteHost(raw) <=> \E l \in 2..(Len(raw) - 1) : Split(l)
    BY <2>7, <2>9, <2>10
  <2> QED
    BY <2>8, <2>11 DEF Split
<1> QED
  BY <1>1, <1>2

\* validateRemoteHost accepts what its contract says and nothing else, for every
\* remote_host of every document.
THEOREM HostProved == Spec => []HostContract
<1>1. ASSUME LoadInv PROVE HostContract
  <2> SUFFICES ASSUME i <= Len(jobs)
               PROVE  validateRemoteHost(jobs[i].remoteHost) <=>
                        LET raw == jobs[i].remoteHost IN
                        \/ HostForm(raw)
                        \/ \E n \in 2..(Len(raw) - 1) :
                             /\ raw[n] = "@" /\ NameForm(SubSeq(raw, 1, n - 1))
                             /\ HostForm(SubSeq(raw, n + 1, Len(raw)))
    BY DEF HostContract, HostForm, NameForm
  <2>1. TypeOK /\ Len(jobs) \in Nat /\ i \in Nat \ {0}
    BY <1>1, ListType DEF LoadInv, TypeOK
  <2>2. jobs[i] \in Range(jobs)
    BY <2>1, ListType
  <2>3. jobs[i].remoteHost \in Seq(STRING)
    BY <2>1, <2>2 DEF TypeOK
  <2> QED
    BY <2>3, HostAccepted
<1> QED
  BY <1>1, LoadInvariance, PTL

-------------------------------------------------------------------------------
\* The loop over the excludes.

\* What the loop has after n patterns, given what it had before.
TakeStep(s, P, f, n) ==
    IF n = 0 THEN <<>> ELSE IF n \in P THEN Append(f[n - 1], s[n]) ELSE f[n - 1]

\* The list is built pattern by pattern, so the function that defines it exists.
LEMMA TakenExists ==
    ASSUME NEW s, NEW P, NEW N \in Nat
    PROVE  \E f : f = [n \in 0..N |-> TakeStep(s, P, f, n)]
<1> DEFINE Built(m) == \E f : f = [n \in 0..m |-> TakeStep(s, P, f, n)]
           Bad == {m \in Nat : ~Built(m)}
<1>1. Built(0)
  <2>1. PICK f : f = [n \in 0..0 |-> <<>>]
    OBVIOUS
  <2>2. \A n \in 0..0 : TakeStep(s, P, f, n) = <<>>
    BY DEF TakeStep
  <2>3. f = [n \in 0..0 |-> TakeStep(s, P, f, n)]
    BY <2>1, <2>2
  <2> QED
    BY <2>3
<1>2. ASSUME NEW m \in Nat, Built(m) PROVE Built(m + 1)
  <2>1. PICK f : f = [n \in 0..m |-> TakeStep(s, P, f, n)]
    BY <1>2
  <2>2. PICK g : g = [n \in 0..(m + 1) |->
                        IF n = m + 1 THEN TakeStep(s, P, f, m + 1) ELSE f[n]]
    OBVIOUS
  <2>3. \A n \in 0..m : g[n] = f[n]
    BY <2>2
  <2>4. ASSUME NEW n \in 0..(m + 1)
        PROVE  TakeStep(s, P, f, n) = TakeStep(s, P, g, n)
    <3>1. CASE n = 0
      BY <3>1 DEF TakeStep
    <3>2. CASE n # 0
      <4>1. n - 1 \in 0..m
        BY <3>2
      <4>2. g[n - 1] = f[n - 1]
        BY <2>3, <4>1
      <4> QED
        BY <3>2, <4>2 DEF TakeStep
    <3> QED
      BY <3>1, <3>2
  <2>5. ASSUME NEW n \in 0..(m + 1) PROVE g[n] = TakeStep(s, P, f, n)
    <3>1. CASE n = m + 1
      BY <2>2, <3>1
    <3>2. CASE n # m + 1
      <4>1. n \in 0..m
        BY <3>2
      <4> QED
        BY <2>1, <2>3, <4>1
    <3> QED
      BY <3>1, <3>2
  <2>6. \A n \in 0..(m + 1) : g[n] = TakeStep(s, P, g, n)
    BY <2>4, <2>5
  <2>7. g = [n \in 0..(m + 1) |-> TakeStep(s, P, g, n)]
    BY <2>2, <2>6
  <2> QED
    BY <2>7
<1> HIDE DEF Built
<1>3. Bad = {}
  <2> SUFFICES ASSUME Bad # {} PROVE FALSE
    OBVIOUS
  <2>1. Bad \in SUBSET Nat
    OBVIOUS
  <2>2. PICK m \in Bad : \A n \in Bad : m <= n
    BY <2>1, LeastNumber
  <2>3. m \in Nat /\ ~Built(m) /\ m # 0
    BY <1>1, <2>2
  <2>4. m - 1 \in Nat /\ (m - 1) + 1 = m /\ ~(m <= m - 1)
    BY <2>3
  <2>5. Built(m - 1)
    BY <2>2, <2>4
  <2> QED
    BY <1>2, <2>3, <2>4, <2>5
<1>4. Built(N)
  BY <1>3
<1> QED
  BY <1>4 DEF Built

\* What the loop has after each of its turns.
LEMMA Taken ==
    ASSUME NEW s, NEW P, Len(s) \in Nat
    PROVE  \E f : /\ f[0] = <<>> /\ ElementsAt(s, P) = f[Len(s)]
                  /\ \A n \in 1..Len(s) :
                       f[n] = IF n \in P THEN Append(f[n - 1], s[n]) ELSE f[n - 1]
<1>1. PICK f : f = CHOOSE g : g = [n \in 0..Len(s) |-> TakeStep(s, P, g, n)]
  OBVIOUS
<1>2. f = [n \in 0..Len(s) |-> TakeStep(s, P, f, n)]
  BY <1>1, TakenExists
<1>3. ElementsAt(s, P) = f[Len(s)]
  BY <1>1 DEF ElementsAt, TakeStep
<1>4. \A n \in 0..Len(s) : f[n] = TakeStep(s, P, f, n)
  BY <1>2
<1>5. f[0] = <<>>
  BY <1>4 DEF TakeStep
<1>6. \A n \in 1..Len(s) : f[n] = IF n \in P THEN Append(f[n - 1], s[n]) ELSE f[n - 1]
  BY <1>4 DEF TakeStep
<1> QED
  BY <1>3, <1>5, <1>6

\* The positions up to n.
UpTo(P, n) == P \cap 1..n

\* One more position.
LEMMA UpToCount ==
    ASSUME NEW P, NEW n \in Nat
    PROVE  /\ IsFiniteSet(UpTo(P, n)) /\ Cardinality(UpTo(P, n)) \in Nat
           /\ UpTo(P, 0) = {} /\ Cardinality(UpTo(P, 0)) = 0
           /\ n + 1 \in P => Cardinality(UpTo(P, n + 1)) = Cardinality(UpTo(P, n)) + 1
           /\ n + 1 \notin P => UpTo(P, n + 1) = UpTo(P, n)
<1>1. IsFiniteSet(1..n) /\ UpTo(P, n) \in SUBSET (1..n)
  BY FS_Interval DEF UpTo
<1>2. IsFiniteSet(UpTo(P, n)) /\ Cardinality(UpTo(P, n)) \in Nat
  BY <1>1, FS_Subset, FS_CardinalityType
<1>3. UpTo(P, 0) = {}
  BY DEF UpTo
<1>4. 1..(n + 1) = 1..n \cup {n + 1} /\ n + 1 \notin 1..n
  OBVIOUS
<1>5. ASSUME n + 1 \in P
      PROVE  Cardinality(UpTo(P, n + 1)) = Cardinality(UpTo(P, n)) + 1
  <2>1. UpTo(P, n + 1) = UpTo(P, n) \cup {n + 1} /\ n + 1 \notin UpTo(P, n)
    BY <1>4, <1>5 DEF UpTo
  <2> QED
    BY <1>2, <2>1, FS_AddElement
<1>6. ASSUME n + 1 \notin P PROVE UpTo(P, n + 1) = UpTo(P, n)
  BY <1>4, <1>6 DEF UpTo
<1> QED
  BY <1>2, <1>3, <1>5, <1>6, FS_EmptySet

\* r holds the elements of s at the positions of P up to n, each where the
\* positions before it put it.
Holds(r, s, P, n) ==
    /\ Len(r) = Cardinality(UpTo(P, n))
    /\ \A k \in UpTo(P, n) : /\ Cardinality(UpTo(P, k)) \in 1..Len(r)
                             /\ r[Cardinality(UpTo(P, k))] = s[k]
    /\ \A m \in 1..Len(r) : \E k \in UpTo(P, n) : r[m] = s[k]

\* One turn of the loop.
LEMMA HoldsMore ==
    ASSUME NEW S, NEW s \in Seq(S), NEW P, NEW n \in Nat, n + 1 <= Len(s),
           NEW r \in Seq(S), Holds(r, s, P, n), NEW q,
           q = IF n + 1 \in P THEN Append(r, s[n + 1]) ELSE r
    PROVE  q \in Seq(S) /\ Holds(q, s, P, n + 1)
<1>a. Len(s) \in Nat /\ Len(r) \in Nat /\ n + 1 \in 1..Len(s)
  BY LenProperties
<1>b. s[n + 1] \in S
  BY <1>a, ElementOfSeq
<1>1. CASE n + 1 \notin P
  BY <1>1, UpToCount DEF Holds
<1>2. CASE n + 1 \in P
  <2>1. /\ q \in Seq(S) /\ Len(q) = Len(r) + 1 /\ q[Len(r) + 1] = s[n + 1]
        /\ \A m \in 1..Len(r) : q[m] = r[m]
    BY <1>2, <1>b, AppendProperties
  <2>2. Cardinality(UpTo(P, n + 1)) = Len(r) + 1
    BY <1>2, UpToCount DEF Holds
  <2>3. UpTo(P, n + 1) = UpTo(P, n) \cup {n + 1}
    BY <1>2 DEF UpTo
  <2>4. ASSUME NEW k \in UpTo(P, n + 1)
        PROVE  /\ Cardinality(UpTo(P, k)) \in 1..Len(q)
               /\ q[Cardinality(UpTo(P, k))] = s[k]
    <3>1. CASE k = n + 1
      <4>1. Len(r) + 1 \in 1..Len(q)
        BY <1>a, <2>1
      <4> QED
        BY <2>1, <2>2, <3>1, <4>1
    <3>2. CASE k \in UpTo(P, n)
      <4>1. PICK c : c = Cardinality(UpTo(P, k))
        OBVIOUS
      <4>2. c \in 1..Len(r) /\ r[c] = s[k]
        BY <3>2, <4>1 DEF Holds
      <4>3. c \in 1..Len(q)
        BY <1>a, <2>1, <4>2
      <4> QED
        BY <2>1, <4>1, <4>2, <4>3
    <3> QED
      BY <2>3, <3>1, <3>2
  <2>5. ASSUME NEW m \in 1..Len(q) PROVE \E k \in UpTo(P, n + 1) : q[m] = s[k]
    <3>1. m \in 1..Len(r) \/ m = Len(r) + 1
      BY <1>a, <2>1
    <3>2. CASE m = Len(r) + 1
      BY <2>1, <2>3, <3>2
    <3>3. CASE m \in 1..Len(r)
      <4>1. PICK k \in UpTo(P, n) : r[m] = s[k]
        BY <3>3 DEF Holds
      <4>2. q[m] = s[k] /\ k \in UpTo(P, n + 1)
        BY <2>1, <2>3, <3>3, <4>1
      <4> QED
        BY <4>2
    <3> QED
      BY <3>1, <3>2, <3>3
  <2> QED
    BY <2>1, <2>2, <2>4, <2>5 DEF Holds
<1> QED
  BY <1>1, <1>2

\* The loop keeps the patterns at its positions, all of them and in their order.
LEMMA ElementsHeld ==
    ASSUME NEW S, NEW s \in Seq(S), NEW P
    PROVE  ElementsAt(s, P) \in Seq(S) /\ Holds(ElementsAt(s, P), s, P, Len(s))
<1>a. Len(s) \in Nat
  BY LenProperties
<1>1. PICK f : /\ f[0] = <<>> /\ ElementsAt(s, P) = f[Len(s)]
               /\ \A n \in 1..Len(s) :
                    f[n] = IF n \in P THEN Append(f[n - 1], s[n]) ELSE f[n - 1]
  BY <1>a, Taken
<1> DEFINE Good(n) == f[n] \in Seq(S) /\ Holds(f[n], s, P, n)
           Bad == {n \in Nat : n <= Len(s) /\ ~Good(n)}
<1>2. Good(0)
  <2>1. UpTo(P, 0) = {} /\ Cardinality(UpTo(P, 0)) = 0
    BY UpToCount
  <2>2. f[0] \in Seq(S) /\ Len(f[0]) = 0
    BY <1>1, EmptySeq
  <2>3. 1..Len(f[0]) = {}
    BY <2>2
  <2> QED
    BY <2>1, <2>2, <2>3 DEF Holds
<1>3. ASSUME NEW n \in Nat, n + 1 <= Len(s), Good(n) PROVE Good(n + 1)
  <2>1. n + 1 \in 1..Len(s) /\ (n + 1) - 1 = n
    BY <1>a, <1>3
  <2>2. f[n + 1] = IF n + 1 \in P THEN Append(f[n], s[n + 1]) ELSE f[n]
    BY <1>1, <2>1
  <2>3. PICK r : r = f[n]
    OBVIOUS
  <2>4. PICK q : q = f[n + 1]
    OBVIOUS
  <2>5. q \in Seq(S) /\ Holds(q, s, P, n + 1)
    BY <1>3, <2>2, <2>3, <2>4, HoldsMore
  <2> QED
    BY <2>4, <2>5
<1> HIDE DEF Good
<1>4. Bad = {}
  <2> SUFFICES ASSUME Bad # {} PROVE FALSE
    OBVIOUS
  <2>1. Bad \in SUBSET Nat
    OBVIOUS
  <2>2. PICK m \in Bad : \A n \in Bad : m <= n
    BY <2>1, LeastNumber
  <2>3. m \in Nat /\ m <= Len(s) /\ ~Good(m) /\ m # 0
    BY <1>2, <2>2
  <2>4. m - 1 \in Nat /\ (m - 1) + 1 = m /\ ~(m <= m - 1) /\ m - 1 <= Len(s)
    BY <1>a, <2>3
  <2>5. Good(m - 1)
    BY <2>2, <2>4
  <2> QED
    BY <1>3, <2>3, <2>4, <2>5
<1>5. Good(Len(s))
  BY <1>4, <1>a
<1> QED
  BY <1>1, <1>5 DEF Good

\* P are the positions after m.
LastOnes(P, s, m) == m \in 0..Len(s) /\ P = (m + 1)..Len(s)

\* They select the end of the list.
LEMMA ElementsOfEnd ==
    ASSUME NEW S, NEW s \in Seq(S), NEW m, NEW P, LastOnes(P, s, m)
    PROVE  /\ ElementsAt(s, P) \in Seq(S) /\ Len(ElementsAt(s, P)) = Len(s) - m
           /\ \A k \in 1..(Len(s) - m) : ElementsAt(s, P)[k] = s[m + k]
<1>a. Len(s) \in Nat /\ m \in 0..Len(s)
  BY LenProperties DEF LastOnes
<1>b. P = (m + 1)..Len(s)
  BY DEF LastOnes
<1>1. PICK r : r = ElementsAt(s, P)
  OBVIOUS
<1>2. r \in Seq(S) /\ Holds(r, s, P, Len(s))
  BY <1>1, ElementsHeld
<1>3. ASSUME NEW k \in 0..Len(s), k >= m PROVE Cardinality(UpTo(P, k)) = k - m
  <2>1. UpTo(P, k) = (m + 1)..k
    BY <1>a, <1>b, <1>3 DEF UpTo
  <2>2. Cardinality((m + 1)..k) = IF m + 1 > k THEN 0 ELSE k - (m + 1) + 1
    BY <1>a, FS_Interval
  <2>3. (IF m + 1 > k THEN 0 ELSE k - (m + 1) + 1) = k - m
    BY <1>a, <1>3
  <2> QED
    BY <2>1, <2>2, <2>3
<1>4. Len(r) = Len(s) - m
  BY <1>2, <1>3, <1>a DEF Holds
<1>5. ASSUME NEW k \in 1..(Len(s) - m) PROVE r[k] = s[m + k]
  <2>1. m + k \in 0..Len(s) /\ m + k >= m /\ m + k \in UpTo(P, Len(s)) /\ (m + k) - m = k
    BY <1>a, <1>b DEF UpTo
  <2>2. Cardinality(UpTo(P, m + k)) = k
    BY <1>3, <2>1
  <2> QED
    BY <1>2, <2>1, <2>2 DEF Holds
<1> QED
  BY <1>1, <1>2, <1>4, <1>5

-------------------------------------------------------------------------------
\* The command, part by part.

\* The flags a job can get, and those that it gets.
PossibleFlags(j, tr) ==
    {Opt("-rlptD", ""), Opt("-A", ""), Opt("-X", ""), Opt("-z", ""),
     Opt("--compress-choice", tr.compress), Opt("--delete", ""),
     Opt("--max-delete", j.maxDelete), Opt("--chown", <<j.uid, j.gid>>),
     Opt("--super", ""), Opt("--stats", ""), sshCommand(j.sshKey, tr.strict)}

IsFlag(j, tr, a) ==
    \/ a = Opt("-rlptD", "") \/ a = Opt("--stats", "")
    \/ a = sshCommand(j.sshKey, tr.strict)
    \/ tr.acls /\ a = Opt("-A", "")
    \/ tr.xattrs /\ a = Opt("-X", "")
    \/ tr.compress # "" /\ a = Opt("-z", "")
    \/ tr.compress \notin {"", "auto"} /\ a = Opt("--compress-choice", tr.compress)
    \/ j.delete /\ a = Opt("--delete", "")
    \/ j.delete /\ j.maxDelete # Unset /\ a = Opt("--max-delete", j.maxDelete)
    \/ /\ j.uid # Unset /\ j.gid # Unset
       /\ a = Opt("--chown", <<j.uid, j.gid>>) \/ a = Opt("--super", "")

\* What two lists hold when joined.
LEMMA JoinRange ==
    ASSUME NEW U, NEW s \in Seq(U), NEW t \in Seq(U)
    PROVE  s \o t \in Seq(U) /\ Range(s \o t) = Range(s) \cup Range(t)
<1>a. Len(s) \in Nat /\ Len(t) \in Nat /\ DOMAIN s = 1..Len(s) /\ DOMAIN t = 1..Len(t)
  BY LenProperties
<1>1. PICK u : u = s \o t
  OBVIOUS
<1>2. /\ u \in Seq(U) /\ Len(u) = Len(s) + Len(t)
      /\ \A n \in 1..(Len(s) + Len(t)) :
           u[n] = IF n <= Len(s) THEN s[n] ELSE t[n - Len(s)]
  BY <1>1, ConcatProperties
<1>3. DOMAIN u = 1..(Len(s) + Len(t))
  BY <1>2, LenProperties
<1>4. ASSUME NEW n \in 1..(Len(s) + Len(t)) PROVE u[n] \in Range(s) \cup Range(t)
  <2>1. CASE n <= Len(s)
    <3>1. n \in DOMAIN s /\ u[n] = s[n]
      BY <1>2, <1>a, <2>1
    <3> QED
      BY <3>1 DEF Range
  <2>2. CASE ~(n <= Len(s))
    <3>1. n - Len(s) \in DOMAIN t /\ u[n] = t[n - Len(s)]
      BY <1>2, <1>a, <2>2
    <3> QED
      BY <3>1 DEF Range
  <2> QED
    BY <2>1, <2>2
<1>5. ASSUME NEW n \in DOMAIN s PROVE s[n] \in Range(u)
  <2>1. n \in DOMAIN u /\ u[n] = s[n]
    BY <1>2, <1>3, <1>a
  <2> QED
    BY <2>1 DEF Range
<1>6. ASSUME NEW n \in DOMAIN t PROVE t[n] \in Range(u)
  <2>1. Len(s) + n \in DOMAIN u /\ ~(Len(s) + n <= Len(s)) /\ (Len(s) + n) - Len(s) = n
    BY <1>3, <1>a
  <2>2. u[Len(s) + n] = t[n]
    BY <1>2, <1>3, <2>1
  <2> QED
    BY <2>1, <2>2 DEF Range
<1>7. Range(u) = Range(s) \cup Range(t)
  <2>1. Range(u) \subseteq Range(s) \cup Range(t)
    BY <1>3, <1>4 DEF Range
  <2>2. Range(s) \subseteq Range(u)
    BY <1>5 DEF Range
  <2>3. Range(t) \subseteq Range(u)
    BY <1>6 DEF Range
  <2> QED
    BY <2>1, <2>2, <2>3
<1> QED
  BY <1>1, <1>2, <1>7

\* What a list of none holds.
LEMMA NoneRange ==
    ASSUME NEW U, NEW s, s = <<>>
    PROVE  s \in Seq(U) /\ Range(s) = {}
BY EmptySeq DEF Range

\* A list of one.
LEMMA OneRange ==
    ASSUME NEW U, NEW a \in U, NEW s, s = <<a>>
    PROVE  s \in Seq(U) /\ Range(s) = {a}
<1>1. DOMAIN s = 1..1 /\ s[1] = a /\ s \in Seq(U)
  OBVIOUS
<1> QED
  BY <1>1 DEF Range

\* A list of two.
LEMMA TwoRange ==
    ASSUME NEW U, NEW a \in U, NEW b \in U, NEW s, s = <<a, b>>
    PROVE  s \in Seq(U) /\ Range(s) = {a, b}
<1>1. DOMAIN s = 1..2 /\ s[1] = a /\ s[2] = b /\ s \in Seq(U)
  OBVIOUS
<1>2. \A n \in 1..2 : n = 1 \/ n = 2
  OBVIOUS
<1>3. 1 \in 1..2 /\ 2 \in 1..2
  OBVIOUS
<1> QED
  BY <1>1, <1>2, <1>3 DEF Range

\* The flags are those the settings ask for.
LEMMA FlagsAre ==
    ASSUME NEW j, NEW tr
    PROVE  /\ Flags(j, tr) \in Seq(PossibleFlags(j, tr))
           /\ \A a : a \in Range(Flags(j, tr)) <=> IsFlag(j, tr, a)
<1>1. PICK U : U = PossibleFlags(j, tr)
  OBVIOUS
<1>o1. PICK o1 : o1 = Opt("-rlptD", "")
  OBVIOUS
<1>o2. PICK o2 : o2 = Opt("-A", "")
  OBVIOUS
<1>o3. PICK o3 : o3 = Opt("-X", "")
  OBVIOUS
<1>o4. PICK o4 : o4 = Opt("-z", "")
  OBVIOUS
<1>o5. PICK o5 : o5 = Opt("--compress-choice", tr.compress)
  OBVIOUS
<1>o6. PICK o6 : o6 = Opt("--delete", "")
  OBVIOUS
<1>o7. PICK o7 : o7 = Opt("--max-delete", j.maxDelete)
  OBVIOUS
<1>o8. PICK o8 : o8 = Opt("--chown", <<j.uid, j.gid>>)
  OBVIOUS
<1>o9. PICK o9 : o9 = Opt("--super", "")
  OBVIOUS
<1>o10. PICK o10 : o10 = Opt("--stats", "")
  OBVIOUS
<1>o11. PICK o11 : o11 = sshCommand(j.sshKey, tr.strict)
  OBVIOUS
<1>2. /\ o1 \in U /\ o2 \in U /\ o3 \in U /\ o4 \in U /\ o5 \in U /\ o6 \in U
      /\ o7 \in U /\ o8 \in U /\ o9 \in U /\ o10 \in U /\ o11 \in U
  BY <1>1, <1>o1, <1>o2, <1>o3, <1>o4, <1>o5, <1>o6, <1>o7, <1>o8, <1>o9, <1>o10, <1>o11
     DEF PossibleFlags
<1>p1. PICK a1 : a1 = <<o1>>
  OBVIOUS
<1>r1. a1 \in Seq(U) /\ Range(a1) = {o1}
  BY <1>2, <1>p1, OneRange
<1>p2. PICK a2 : a2 = When(tr.acls, <<o2>>)
  OBVIOUS
<1>r2. /\ a2 \in Seq(U)
       /\ (tr.acls) => Range(a2) = {o2}
       /\ ~(tr.acls) => Range(a2) = {}
  <2>1. CASE tr.acls
    <3>1. a2 = <<o2>>
      BY <1>p2, <2>1 DEF When
    <3>2. a2 \in Seq(U) /\ Range(a2) = {o2}
      BY <1>2, <3>1, OneRange
    <3> QED
      BY <2>1, <3>2
  <2>2. CASE ~(tr.acls)
    <3>1. a2 = <<>>
      BY <1>p2, <2>2 DEF When
    <3>2. a2 \in Seq(U) /\ Range(a2) = {}
      BY <3>1, NoneRange
    <3> QED
      BY <2>2, <3>2
  <2> QED
    BY <2>1, <2>2
<1>p3. PICK a3 : a3 = When(tr.xattrs, <<o3>>)
  OBVIOUS
<1>r3. /\ a3 \in Seq(U)
       /\ (tr.xattrs) => Range(a3) = {o3}
       /\ ~(tr.xattrs) => Range(a3) = {}
  <2>1. CASE tr.xattrs
    <3>1. a3 = <<o3>>
      BY <1>p3, <2>1 DEF When
    <3>2. a3 \in Seq(U) /\ Range(a3) = {o3}
      BY <1>2, <3>1, OneRange
    <3> QED
      BY <2>1, <3>2
  <2>2. CASE ~(tr.xattrs)
    <3>1. a3 = <<>>
      BY <1>p3, <2>2 DEF When
    <3>2. a3 \in Seq(U) /\ Range(a3) = {}
      BY <3>1, NoneRange
    <3> QED
      BY <2>2, <3>2
  <2> QED
    BY <2>1, <2>2
<1>p4. PICK a4 : a4 = When(tr.compress # "", <<o4>>)
  OBVIOUS
<1>r4. /\ a4 \in Seq(U)
       /\ (tr.compress # "") => Range(a4) = {o4}
       /\ ~(tr.compress # "") => Range(a4) = {}
  <2>1. CASE tr.compress # ""
    <3>1. a4 = <<o4>>
      BY <1>p4, <2>1 DEF When
    <3>2. a4 \in Seq(U) /\ Range(a4) = {o4}
      BY <1>2, <3>1, OneRange
    <3> QED
      BY <2>1, <3>2
  <2>2. CASE ~(tr.compress # "")
    <3>1. a4 = <<>>
      BY <1>p4, <2>2 DEF When
    <3>2. a4 \in Seq(U) /\ Range(a4) = {}
      BY <3>1, NoneRange
    <3> QED
      BY <2>2, <3>2
  <2> QED
    BY <2>1, <2>2
<1>p5. PICK a5 : a5 = When(tr.compress \notin {"", "auto"}, <<o5>>)
  OBVIOUS
<1>r5. /\ a5 \in Seq(U)
       /\ (tr.compress \notin {"", "auto"}) => Range(a5) = {o5}
       /\ ~(tr.compress \notin {"", "auto"}) => Range(a5) = {}
  <2>1. CASE tr.compress \notin {"", "auto"}
    <3>1. a5 = <<o5>>
      BY <1>p5, <2>1 DEF When
    <3>2. a5 \in Seq(U) /\ Range(a5) = {o5}
      BY <1>2, <3>1, OneRange
    <3> QED
      BY <2>1, <3>2
  <2>2. CASE ~(tr.compress \notin {"", "auto"})
    <3>1. a5 = <<>>
      BY <1>p5, <2>2 DEF When
    <3>2. a5 \in Seq(U) /\ Range(a5) = {}
      BY <3>1, NoneRange
    <3> QED
      BY <2>2, <3>2
  <2> QED
    BY <2>1, <2>2
<1>p6. PICK a6 : a6 = When(j.delete, <<o6>>)
  OBVIOUS
<1>r6. /\ a6 \in Seq(U)
       /\ (j.delete) => Range(a6) = {o6}
       /\ ~(j.delete) => Range(a6) = {}
  <2>1. CASE j.delete
    <3>1. a6 = <<o6>>
      BY <1>p6, <2>1 DEF When
    <3>2. a6 \in Seq(U) /\ Range(a6) = {o6}
      BY <1>2, <3>1, OneRange
    <3> QED
      BY <2>1, <3>2
  <2>2. CASE ~(j.delete)
    <3>1. a6 = <<>>
      BY <1>p6, <2>2 DEF When
    <3>2. a6 \in Seq(U) /\ Range(a6) = {}
      BY <3>1, NoneRange
    <3> QED
      BY <2>2, <3>2
  <2> QED
    BY <2>1, <2>2
<1>p7. PICK a7 : a7 = When(j.delete /\ j.maxDelete # Unset, <<o7>>)
  OBVIOUS
<1>r7. /\ a7 \in Seq(U)
       /\ (j.delete /\ j.maxDelete # Unset) => Range(a7) = {o7}
       /\ ~(j.delete /\ j.maxDelete # Unset) => Range(a7) = {}
  <2>1. CASE j.delete /\ j.maxDelete # Unset
    <3>1. a7 = <<o7>>
      BY <1>p7, <2>1 DEF When
    <3>2. a7 \in Seq(U) /\ Range(a7) = {o7}
      BY <1>2, <3>1, OneRange
    <3> QED
      BY <2>1, <3>2
  <2>2. CASE ~(j.delete /\ j.maxDelete # Unset)
    <3>1. a7 = <<>>
      BY <1>p7, <2>2 DEF When
    <3>2. a7 \in Seq(U) /\ Range(a7) = {}
      BY <3>1, NoneRange
    <3> QED
      BY <2>2, <3>2
  <2> QED
    BY <2>1, <2>2
<1>p8. PICK a8 : a8 = When(j.uid # Unset /\ j.gid # Unset, <<o8, o9>>)
  OBVIOUS
<1>r8. /\ a8 \in Seq(U)
       /\ (j.uid # Unset /\ j.gid # Unset) => Range(a8) = {o8, o9}
       /\ ~(j.uid # Unset /\ j.gid # Unset) => Range(a8) = {}
  <2>1. CASE j.uid # Unset /\ j.gid # Unset
    <3>1. a8 = <<o8, o9>>
      BY <1>p8, <2>1 DEF When
    <3>2. a8 \in Seq(U) /\ Range(a8) = {o8, o9}
      BY <1>2, <3>1, TwoRange
    <3> QED
      BY <2>1, <3>2
  <2>2. CASE ~(j.uid # Unset /\ j.gid # Unset)
    <3>1. a8 = <<>>
      BY <1>p8, <2>2 DEF When
    <3>2. a8 \in Seq(U) /\ Range(a8) = {}
      BY <3>1, NoneRange
    <3> QED
      BY <2>2, <3>2
  <2> QED
    BY <2>1, <2>2
<1>p9. PICK a9 : a9 = <<o10, o11>>
  OBVIOUS
<1>r9. a9 \in Seq(U) /\ Range(a9) = {o10, o11}
  BY <1>2, <1>p9, TwoRange
<1>t. /\ a1 \in Seq(U) /\ a2 \in Seq(U) /\ a3 \in Seq(U) /\ a4 \in Seq(U) /\ a5 \in Seq(U)
      /\ a6 \in Seq(U) /\ a7 \in Seq(U) /\ a8 \in Seq(U) /\ a9 \in Seq(U)
  BY <1>r1, <1>r2, <1>r3, <1>r4, <1>r5, <1>r6, <1>r7, <1>r8, <1>r9
<1>q2. PICK b2 : b2 = a1 \o a2
  OBVIOUS
<1>s2. b2 \in Seq(U) /\ Range(b2) = Range(a1) \cup Range(a2)
  BY <1>t, <1>q2, JoinRange
<1>q3. PICK b3 : b3 = b2 \o a3
  OBVIOUS
<1>s3. b3 \in Seq(U) /\ Range(b3) = Range(b2) \cup Range(a3)
  BY <1>t, <1>s2, <1>q3, JoinRange
<1>q4. PICK b4 : b4 = b3 \o a4
  OBVIOUS
<1>s4. b4 \in Seq(U) /\ Range(b4) = Range(b3) \cup Range(a4)
  BY <1>t, <1>s3, <1>q4, JoinRange
<1>q5. PICK b5 : b5 = b4 \o a5
  OBVIOUS
<1>s5. b5 \in Seq(U) /\ Range(b5) = Range(b4) \cup Range(a5)
  BY <1>t, <1>s4, <1>q5, JoinRange
<1>q6. PICK b6 : b6 = b5 \o a6
  OBVIOUS
<1>s6. b6 \in Seq(U) /\ Range(b6) = Range(b5) \cup Range(a6)
  BY <1>t, <1>s5, <1>q6, JoinRange
<1>q7. PICK b7 : b7 = b6 \o a7
  OBVIOUS
<1>s7. b7 \in Seq(U) /\ Range(b7) = Range(b6) \cup Range(a7)
  BY <1>t, <1>s6, <1>q7, JoinRange
<1>q8. PICK b8 : b8 = b7 \o a8
  OBVIOUS
<1>s8. b8 \in Seq(U) /\ Range(b8) = Range(b7) \cup Range(a8)
  BY <1>t, <1>s7, <1>q8, JoinRange
<1>q9. PICK b9 : b9 = b8 \o a9
  OBVIOUS
<1>s9. b9 \in Seq(U) /\ Range(b9) = Range(b8) \cup Range(a9)
  BY <1>t, <1>s8, <1>q9, JoinRange
<1>11. Flags(j, tr) = b9
  BY <1>q2, <1>q3, <1>q4, <1>q5, <1>q6, <1>q7, <1>q8, <1>q9,
     <1>p1, <1>p2, <1>p3, <1>p4, <1>p5, <1>p6, <1>p7, <1>p8, <1>p9,
     <1>o1, <1>o2, <1>o3, <1>o4, <1>o5, <1>o6, <1>o7, <1>o8, <1>o9, <1>o10, <1>o11
     DEF Flags
<1>12. ASSUME NEW a PROVE a \in Range(b9) <=> IsFlag(j, tr, a)
  <2>1. a \in Range(b9) <=>
          \/ a \in Range(a1) \/ a \in Range(a2) \/ a \in Range(a3) \/ a \in Range(a4)
          \/ a \in Range(a5) \/ a \in Range(a6) \/ a \in Range(a7) \/ a \in Range(a8)
          \/ a \in Range(a9)
    BY <1>s2, <1>s3, <1>s4, <1>s5, <1>s6, <1>s7, <1>s8, <1>s9
  <2>2. IsFlag(j, tr, a) <=>
          \/ a = o1 \/ a = o10 \/ a = o11
          \/ tr.acls /\ a = o2
          \/ tr.xattrs /\ a = o3
          \/ tr.compress # "" /\ a = o4
          \/ tr.compress \notin {"", "auto"} /\ a = o5
          \/ j.delete /\ a = o6
          \/ j.delete /\ j.maxDelete # Unset /\ a = o7
          \/ j.uid # Unset /\ j.gid # Unset /\ (a = o8 \/ a = o9)
    BY <1>o1, <1>o2, <1>o3, <1>o4, <1>o5, <1>o6, <1>o7, <1>o8, <1>o9, <1>o10, <1>o11
       DEF IsFlag
  <2> QED
    BY <1>r1, <1>r2, <1>r3, <1>r4, <1>r5, <1>r6, <1>r7, <1>r8, <1>r9, <2>1, <2>2
<1> QED
  BY <1>1, <1>s9, <1>11, <1>12


\* The place of the first of them.
LEMMA LeastIs ==
    ASSUME NEW T \in SUBSET Nat, NEW m \in T, \A n \in T : m <= n
    PROVE  T # {} /\ Min(T) = m
<1>1. PICK l : l = Min(T)
  OBVIOUS
<1>2. l \in T /\ \A n \in T : l <= n
  BY <1>1 DEF Min
<1> QED
  BY <1>1, <1>2

\* A list over some elements is one over more.
LEMMA Wider ==
    ASSUME NEW S, NEW U, S \subseteq U, NEW s \in Seq(S)
    PROVE  s \in Seq(U)
<1>1. Len(s) \in Nat /\ s \in [1..Len(s) -> S]
  BY LenProperties
<1>2. s \in [1..Len(s) -> U]
  BY <1>1
<1> QED
  BY <1>1, <1>2, SeqDef

\* One rule for each pattern.
LEMMA RulesAre ==
    ASSUME NEW S, NEW p \in Seq(S)
    PROVE  /\ Rules(p) \in Seq({AsFilter(e) : e \in S}) /\ Len(Rules(p)) = Len(p)
           /\ \A k \in 1..Len(p) : Rules(p)[k] = AsFilter(p[k])
<1>1. Len(p) \in Nat /\ \A k \in 1..Len(p) : p[k] \in S
  BY LenProperties, ElementOfSeq
<1>2. PICK r : r = [k \in 1..Len(p) |-> AsFilter(p[k])]
  OBVIOUS
<1>3. r \in [1..Len(p) -> {AsFilter(e) : e \in S}]
  BY <1>1, <1>2
<1>4. r \in Seq({AsFilter(e) : e \in S})
  BY <1>1, <1>3, SeqDef
<1>5. Len(r) = Len(p)
  <2>1. DOMAIN r = 1..Len(p)
    BY <1>2
  <2> QED
    BY <1>1, <1>4, <2>1, LenProperties
<1>6. \A k \in 1..Len(p) : r[k] = AsFilter(p[k])
  BY <1>2
<1> QED
  BY <1>2, <1>4, <1>5, <1>6 DEF Rules

\* The first m elements of a list.
LEMMA FirstPart ==
    ASSUME NEW U, NEW s \in Seq(U), NEW m \in 0..Len(s)
    PROVE  /\ SubSeq(s, 1, m) \in Seq(U) /\ Len(SubSeq(s, 1, m)) = m
           /\ \A n \in 1..m : SubSeq(s, 1, m)[n] = s[n]
<1>1. Len(s) \in Nat
  BY LenProperties
<1>2. m \in Int /\ 1 \in Int /\ \A n \in 1..m : n \in 1..Len(s)
  BY <1>1
<1>3. \A n \in 1..m : s[n] \in U
  BY <1>2, ElementOfSeq
<1>4. /\ SubSeq(s, 1, m) \in Seq(U)
      /\ Len(SubSeq(s, 1, m)) = IF 1 <= m THEN m - 1 + 1 ELSE 0
      /\ \A n \in 1..(m - 1 + 1) : SubSeq(s, 1, m)[n] = s[1 + n - 1]
  BY <1>2, <1>3, SubSeqProperties
<1>5. m - 1 + 1 = m /\ \A n \in 1..m : 1 + n - 1 = n
  BY <1>2
<1>6. (IF 1 <= m THEN m - 1 + 1 ELSE 0) = m
  BY <1>1
<1> QED
  BY <1>4, <1>5, <1>6

\* No "--" in it.
OnlyOptions(body) == \A n \in 1..Len(body) : body[n].name # "--"

\* rsync takes everything before "--" for an option.
LEMMA OptionsAre ==
    ASSUME NEW U, NEW body \in Seq(U), OnlyOptions(body),
           NEW t \in Seq(U), Len(t) = 3, t[1].name = "--",
           NEW line, line = body \o t
    PROVE  /\ Options(line) = body /\ Len(line) = Len(body) + 3
           /\ line[Len(body) + 2] = t[2] /\ line[Len(body) + 3] = t[3]
<1>a. Len(body) \in Nat
  BY LenProperties
<1>3. /\ line \in Seq(U) /\ Len(line) = Len(body) + Len(t)
      /\ \A n \in 1..(Len(body) + Len(t)) :
           line[n] = IF n <= Len(body) THEN body[n] ELSE t[n - Len(body)]
  BY ConcatProperties
<1>4. PICK m : m = Len(body)
  OBVIOUS
<1>5. /\ m + 1 \in 1..(m + 3) /\ m + 2 \in 1..(m + 3) /\ m + 3 \in 1..(m + 3)
      /\ ~(m + 1 <= m) /\ ~(m + 2 <= m) /\ ~(m + 3 <= m)
      /\ (m + 1) - m = 1 /\ (m + 2) - m = 2 /\ (m + 3) - m = 3
      /\ (m + 1) - 1 = m /\ \A n \in 1..m : n \in 1..(m + 3) /\ n <= m
  BY <1>a, <1>4
<1>6. Len(line) = m + 3 /\ line[m + 1] = t[1] /\ line[m + 2] = t[2] /\ line[m + 3] = t[3]
  BY <1>3, <1>4, <1>5
<1>7. \A n \in 1..m : line[n] = body[n]
  BY <1>3, <1>4, <1>5
<1>8. PICK T : T = {n \in 1..Len(line) : line[n].name = "--"}
  OBVIOUS
<1>9. Min(T) = m + 1 /\ T # {}
  <2>1. T \in SUBSET Nat /\ m + 1 \in T
    BY <1>5, <1>6, <1>8, <1>a, <1>4
  <2>2. ASSUME NEW n \in T PROVE m + 1 <= n
    <3>1. n \in 1..(m + 3) /\ line[n].name = "--"
      BY <1>6, <1>8
    <3>2. n \notin 1..m
      BY <1>4, <1>7, <3>1 DEF OnlyOptions
    <3> QED
      BY <1>a, <1>4, <3>1, <3>2
  <2> QED
    BY <2>1, <2>2, LeastIs
<1>10. Options(line) = SubSeq(line, 1, Min(T) - 1)
  BY <1>8, <1>9 DEF Options, SelectInSeq
<1>11. PICK r : r = SubSeq(line, 1, m)
  OBVIOUS
<1>12. Options(line) = r
  BY <1>5, <1>9, <1>10, <1>11
<1>13. m \in 0..Len(line)
  BY <1>a, <1>4, <1>6
<1>14. r \in Seq(U) /\ Len(r) = m /\ \A n \in 1..m : r[n] = line[n]
  BY <1>3, <1>11, <1>13, FirstPart
<1>15. r = body
  BY <1>4, <1>7, <1>14, SeqEqual
<1> QED
  BY <1>4, <1>6, <1>12, <1>15

\* The excludes that make a rule.
Written(excludes) == {k \in 1..Len(excludes) : ~excludes[k].empty}

Kept(excludes) == ElementsAt(excludes, Written(excludes))

\* Everything a command can be made of.
PossibleArgs(j, tr) ==
    PossibleFlags(j, tr) \cup {AsFilter(e) : e \in Range(globalExcludes)}
    \cup {AsFilter(e) : e \in Range(j.excludes)}
    \cup {Opt("--", ""), Opt("source", j.local), Opt("dest", remoteDest(j))}

\* The global list is one pattern.
LEMMA OneGlobal ==
    /\ globalExcludes \in Seq(Range(globalExcludes)) /\ Len(globalExcludes) = 1
    /\ ~globalExcludes[1].empty /\ globalExcludes[1].has = {}
<1>1. PICK g : g = [pattern |-> "global", has |-> {}, empty |-> FALSE]
  OBVIOUS
<1>2. PICK s : s = <<g>>
  OBVIOUS
<1>3. PICK U : U = {g}
  OBVIOUS
<1>4. s \in Seq(U) /\ Range(s) = {g}
  BY <1>2, <1>3, OneRange
<1>5. Len(s) = 1 /\ s[1] = g
  BY <1>2
<1>6. globalExcludes = s
  BY <1>1, <1>2 DEF globalExcludes
<1>7. ~g.empty /\ g.has = {}
  BY <1>1
<1> QED
  BY <1>3, <1>4, <1>5, <1>6, <1>7

\* An option, and what is none.
LEMMA Names ==
    ASSUME NEW j, NEW tr
    PROVE  /\ \A a \in PossibleFlags(j, tr) : a.name # "--" /\ ~IsRule(a)
           /\ \A e : /\ AsFilter(e).name # "--" /\ IsRule(AsFilter(e))
                     /\ AsFilter(e).val = e /\ AsFilter(e).name # "--exclude"
           /\ \A x : Opt("--", x).name = "--" /\ Opt("source", x).val = x /\ Opt("dest", x).val = x
  BY DEF PossibleFlags, Opt, sshCommand, AsFilter, IsRule

\* The options o are the flags f, the global rule and those of the patterns kept.
Laid(o, f, kept) ==
    /\ Len(f) \in Nat /\ Len(kept) \in Nat /\ Len(o) = (Len(f) + 1) + Len(kept)
    /\ \A k \in 1..Len(f) : o[k] = f[k]
    /\ o[Len(f) + 1] = AsFilter(globalExcludes[1])
    /\ \A k \in 1..Len(kept) : o[(Len(f) + 1) + k] = AsFilter(kept[k])

\* What stands where in a command.
LEMMA CommandParts ==
    ASSUME NEW j, NEW tr, j.excludes \in Seq(Range(j.excludes)),
           NEW line, line = buildRsyncArgs(j, tr)
    PROVE  /\ Options(line) \in Seq(PossibleArgs(j, tr))
           /\ Laid(Options(line), Flags(j, tr), Kept(j.excludes))
           /\ Len(line) \in Nat
           /\ line[Len(line) - 1] = Opt("source", j.local)
           /\ line[Len(line)] = Opt("dest", remoteDest(j))
<1>1. PICK U, P : U = PossibleArgs(j, tr) /\ P = PossibleFlags(j, tr)
  OBVIOUS
<1>f. PICK f, kept : f = Flags(j, tr) /\ kept = Kept(j.excludes)
  OBVIOUS
<1>2. f \in Seq(P)
  BY <1>1, <1>f, FlagsAre
<1>3. P \subseteq U
  BY <1>1 DEF PossibleArgs
<1>4. f \in Seq(U)
  BY <1>2, <1>3, Wider
<1>5. PICK S : S = Range(j.excludes)
  OBVIOUS
<1>6. kept \in Seq(S)
  BY <1>f, <1>5, ElementsHeld DEF Kept
<1>7. PICK T, g : T = {AsFilter(e) : e \in S} /\ g = Rules(kept)
  OBVIOUS
<1>8. g \in Seq(T) /\ Len(g) = Len(kept) /\ \A k \in 1..Len(kept) : g[k] = AsFilter(kept[k])
  BY <1>6, <1>7, RulesAre
<1>9. T \subseteq U
  BY <1>1, <1>5, <1>7 DEF PossibleArgs
<1>10. g \in Seq(U)
  BY <1>8, <1>9, Wider
<1>11. PICK V, G, gl : /\ V = Range(globalExcludes) /\ G = {AsFilter(e) : e \in V}
                       /\ gl = globalExcludes
  OBVIOUS
<1>12. gl \in Seq(V) /\ Len(gl) = 1
  BY <1>11, OneGlobal
<1>13. PICK h : h = Rules(gl)
  OBVIOUS
<1>14. h \in Seq(G) /\ Len(h) = 1 /\ h[1] = AsFilter(gl[1])
  <2>1. h \in Seq(G) /\ Len(h) = Len(gl) /\ \A k \in 1..Len(gl) : h[k] = AsFilter(gl[k])
    BY <1>11, <1>12, <1>13, RulesAre
  <2>2. 1 \in 1..Len(gl)
    BY <1>12
  <2> QED
    BY <1>12, <2>1, <2>2
<1>15. G \subseteq U
  BY <1>1, <1>11 DEF PossibleArgs
<1>16. h \in Seq(U)
  BY <1>14, <1>15, Wider
<1>17. PICK v : v = f \o h
  OBVIOUS
<1>18. PICK body : body = v \o g
  OBVIOUS
<1>19. Len(f) \in Nat /\ Len(kept) \in Nat /\ Len(g) \in Nat
  BY <1>4, <1>6, <1>8, LenProperties
<1>20. /\ v \in Seq(U) /\ Len(v) = Len(f) + 1
       /\ \A k \in 1..Len(f) : v[k] = f[k]
       /\ v[Len(f) + 1] = h[1]
  <2>1. /\ v \in Seq(U) /\ Len(v) = Len(f) + Len(h)
        /\ \A k \in 1..(Len(f) + Len(h)) :
             v[k] = IF k <= Len(f) THEN f[k] ELSE h[k - Len(f)]
    BY <1>4, <1>16, <1>17, ConcatProperties
  <2>2. PICK m \in Nat : m = Len(f)
    BY <1>19
  <2>3. /\ m + 1 \in 1..(m + 1) /\ ~(m + 1 <= m) /\ (m + 1) - m = 1
        /\ \A k \in 1..m : k \in 1..(m + 1) /\ k <= m
    OBVIOUS
  <2> QED
    BY <1>14, <2>1, <2>2, <2>3
<1>21. /\ body \in Seq(U) /\ Len(body) = (Len(f) + 1) + Len(kept)
       /\ \A k \in 1..(Len(f) + 1) : body[k] = v[k]
       /\ \A k \in 1..Len(kept) : body[(Len(f) + 1) + k] = g[k]
  <2>1. /\ body \in Seq(U) /\ Len(body) = Len(v) + Len(g)
        /\ \A k \in 1..(Len(v) + Len(g)) :
             body[k] = IF k <= Len(v) THEN v[k] ELSE g[k - Len(v)]
    BY <1>10, <1>18, <1>20, ConcatProperties
  <2>2. PICK m \in Nat, n \in Nat : m = Len(f) + 1 /\ n = Len(g)
    BY <1>19
  <2>3. /\ \A k \in 1..n : m + k \in 1..(m + n) /\ ~(m + k <= m) /\ (m + k) - m = k
        /\ \A k \in 1..m : k \in 1..(m + n) /\ k <= m
    OBVIOUS
  <2>4. /\ Len(v) = m /\ Len(g) = n /\ Len(kept) = n
    BY <1>8, <1>20, <2>2
  <2>5. /\ \A k \in 1..m : body[k] = v[k]
        /\ \A k \in 1..n : body[m + k] = g[k]
    BY <2>1, <2>3, <2>4
  <2> QED
    BY <2>1, <2>2, <2>4, <2>5
<1>22. PICK a, b, c : /\ a = Opt("--", "") /\ b = Opt("source", j.local)
                      /\ c = Opt("dest", remoteDest(j))
  OBVIOUS
<1>23. a \in U /\ b \in U /\ c \in U /\ a.name = "--"
  BY <1>1, <1>22, Names DEF PossibleArgs
<1>t. PICK t : t = <<a, b, c>>
  OBVIOUS
<1>24. line = body \o t
  BY <1>t, <1>f, <1>7, <1>11, <1>13, <1>17, <1>18, <1>22 DEF buildRsyncArgs, Kept, Written
<1>25. ASSUME NEW n \in 1..Len(body) PROVE body[n].name # "--"
  <2>1. CASE n \in 1..Len(f)
    <3>1. body[n] = f[n] /\ f[n] \in P
      <4>1. n \in 1..(Len(f) + 1)
        BY <1>19, <2>1
      <4> QED
        BY <1>2, <1>20, <1>21, <2>1, <4>1, ElementOfSeq
    <3> QED
      BY <1>1, <3>1, Names
  <2>2. CASE n = Len(f) + 1
    <3>1. body[n] = AsFilter(gl[1])
      <4>1. n \in 1..(Len(f) + 1)
        BY <1>19, <2>2
      <4> QED
        BY <1>14, <1>20, <1>21, <2>2, <4>1
    <3> QED
      BY <3>1, Names
  <2>3. CASE n > Len(f) + 1
    <3>1. PICK k \in 1..Len(kept) : n = (Len(f) + 1) + k
      <4>1. n - (Len(f) + 1) \in 1..Len(kept) /\ n = (Len(f) + 1) + (n - (Len(f) + 1))
        BY <1>19, <1>21, <2>3
      <4> QED
        BY <4>1
    <3>2. body[n] = AsFilter(kept[k])
      BY <1>8, <1>21, <3>1
    <3> QED
      BY <3>2, Names
  <2>4. n \in 1..Len(f) \/ n = Len(f) + 1 \/ n > Len(f) + 1
    <3>1. n \in 1..((Len(f) + 1) + Len(kept))
      BY <1>21
    <3> QED
      BY <1>19, <3>1
  <2> QED
    BY <2>1, <2>2, <2>3, <2>4
<1>26. /\ Options(line) = body /\ Len(line) = Len(body) + 3
       /\ line[Len(body) + 2] = b /\ line[Len(body) + 3] = c
  <2>1. body \in Seq(U)
    BY <1>21
  <2>2. OnlyOptions(body)
    BY <1>25 DEF OnlyOptions
  <2>3. t \in Seq(U) /\ Len(t) = 3 /\ t[1] = a /\ t[2] = b /\ t[3] = c
    BY <1>t, <1>23
  <2>4. t[1].name = "--"
    BY <1>23, <2>3
  <2>5. /\ Options(line) = body /\ Len(line) = Len(body) + 3
        /\ line[Len(body) + 2] = t[2] /\ line[Len(body) + 3] = t[3]
    BY <1>24, <2>1, <2>2, <2>3, <2>4, OptionsAre
  <2> QED
    BY <2>3, <2>5
<1>27. Len(line) \in Nat /\ Len(line) - 1 = Len(body) + 2
  <2>1. Len(body) \in Nat
    BY <1>19, <1>21
  <2> QED
    BY <1>26, <2>1
<1>28. /\ \A k \in 1..Len(f) : body[k] = f[k]
       /\ body[Len(f) + 1] = AsFilter(globalExcludes[1])
       /\ \A k \in 1..Len(kept) : body[(Len(f) + 1) + k] = AsFilter(kept[k])
  <2>1. /\ \A k \in 1..Len(f) : k \in 1..(Len(f) + 1)
        /\ Len(f) + 1 \in 1..(Len(f) + 1)
    BY <1>19
  <2> QED
    BY <1>8, <1>11, <1>14, <1>20, <1>21, <2>1
<1>29. /\ line[Len(line) - 1] = Opt("source", j.local)
       /\ line[Len(line)] = Opt("dest", remoteDest(j))
  BY <1>22, <1>26, <1>27
<1>30. Laid(body, f, kept)
  BY <1>19, <1>21, <1>28 DEF Laid
<1> QED
  BY <1>1, <1>f, <1>21, <1>26, <1>27, <1>29, <1>30

\* Apart from the rules, what rsync is given are the flags.
LEMMA GivenAreFlags ==
    ASSUME NEW j, NEW tr, j.excludes \in Seq(Range(j.excludes)),
           NEW line, line = buildRsyncArgs(j, tr), NEW a, a.name # "--filter=-"
    PROVE  a \in Range(Options(line)) <=> IsFlag(j, tr, a)
<1>1. PICK f, kept, o : f = Flags(j, tr) /\ kept = Kept(j.excludes) /\ o = Options(line)
  OBVIOUS
<1>2. o \in Seq(PossibleArgs(j, tr)) /\ Laid(o, f, kept)
  BY <1>1, CommandParts
<1>m. PICK m, n : m = Len(f) /\ n = Len(kept)
  OBVIOUS
<1>3. /\ m \in Nat /\ n \in Nat /\ Len(o) = (m + 1) + n
      /\ \A k \in 1..m : o[k] = f[k]
      /\ o[m + 1] = AsFilter(globalExcludes[1])
      /\ \A k \in 1..n : o[(m + 1) + k] = AsFilter(kept[k])
  BY <1>m, <1>2 DEF Laid
<1>n. m \in Nat /\ n \in Nat
  BY <1>3
<1>4. DOMAIN o = 1..((m + 1) + n)
  BY <1>2, <1>3, LenProperties
<1>5. f \in Seq(PossibleFlags(j, tr)) /\ (a \in Range(f) <=> IsFlag(j, tr, a))
  BY <1>1, FlagsAre
<1>6. DOMAIN f = 1..m
  BY <1>m, <1>5, LenProperties
<1>7. ASSUME NEW e PROVE a # AsFilter(e)
  BY DEF AsFilter, Opt
<1>8. ASSUME a \in Range(o) PROVE a \in Range(f)
  <2>1. PICK k \in 1..((m + 1) + n) : o[k] = a
    BY <1>4, <1>8 DEF Range
  <2>2. k # m + 1
    BY <1>3, <1>7, <2>1
  <2>3. ASSUME k > m + 1 PROVE FALSE
    <3>1. k - (m + 1) \in 1..n /\ (m + 1) + (k - (m + 1)) = k
      BY <1>n, <2>1, <2>3
    <3>2. PICK l \in 1..n : (m + 1) + l = k
      BY <3>1
    <3>3. o[k] = AsFilter(kept[l])
      BY <1>3, <3>2
    <3> QED
      BY <1>7, <2>1, <3>3
  <2>4. k \in 1..m
    BY <1>n, <2>1, <2>2, <2>3
  <2>5. f[k] = a
    BY <1>3, <2>1, <2>4
  <2> QED
    BY <1>6, <2>4, <2>5 DEF Range
<1>9. ASSUME a \in Range(f) PROVE a \in Range(o)
  <2>1. PICK k \in 1..m : f[k] = a
    BY <1>6, <1>9 DEF Range
  <2>2. k \in 1..((m + 1) + n)
    BY <1>n, <2>1
  <2>3. k \in DOMAIN o /\ o[k] = a
    BY <1>3, <1>4, <2>1, <2>2
  <2> QED
    BY <2>3 DEF Range
<1> QED
  BY <1>1, <1>5, <1>8, <1>9

\* Each flag has a name of its own.
LEMMA FlagNamed ==
    ASSUME NEW j, NEW tr, NEW a, IsFlag(j, tr, a)
    PROVE  /\ a.name = "-A" => tr.acls
           /\ a.name = "-X" => tr.xattrs
           /\ a.name = "-z" => tr.compress # ""
           /\ a.name = "--delete" => j.delete
           /\ a.name = "--max-delete" =>
                j.delete /\ j.maxDelete # Unset /\ a.val = j.maxDelete
           /\ a.name = "--chown" =>
                j.uid # Unset /\ j.gid # Unset /\ a.val = <<j.uid, j.gid>>
           /\ a.name = "--compress-choice" =>
                tr.compress \notin {"", "auto"} /\ a.val = tr.compress
           /\ a.name = "-e" => a = sshCommand(j.sshKey, tr.strict)
<1>a. ASSUME NEW name, NEW val, a = Opt(name, val)
      PROVE  a.name = name /\ a.val = val
  BY <1>a DEF Opt
<1>b. sshCommand(j.sshKey, tr.strict).name = "-e"
  BY DEF sshCommand, Opt
<1>n. /\ a = Opt("-rlptD", "") => a.name = "-rlptD"
      /\ a = Opt("--stats", "") => a.name = "--stats"
      /\ a = Opt("-A", "") => a.name = "-A"
      /\ a = Opt("-X", "") => a.name = "-X"
      /\ a = Opt("-z", "") => a.name = "-z"
      /\ a = Opt("--compress-choice", tr.compress) =>
           a.name = "--compress-choice" /\ a.val = tr.compress
      /\ a = Opt("--delete", "") => a.name = "--delete"
      /\ a = Opt("--max-delete", j.maxDelete) => a.name = "--max-delete" /\ a.val = j.maxDelete
      /\ a = Opt("--chown", <<j.uid, j.gid>>) => a.name = "--chown" /\ a.val = <<j.uid, j.gid>>
      /\ a = Opt("--super", "") => a.name = "--super"
  BY <1>a
<1>c. \/ a = sshCommand(j.sshKey, tr.strict) /\ a.name = "-e"
      \/ a.name = "-rlptD"
      \/ a.name = "--stats"
      \/ tr.acls /\ a.name = "-A"
      \/ tr.xattrs /\ a.name = "-X"
      \/ tr.compress # "" /\ a.name = "-z"
      \/ tr.compress \notin {"", "auto"} /\ a.name = "--compress-choice" /\ a.val = tr.compress
      \/ j.delete /\ a.name = "--delete"
      \/ j.delete /\ j.maxDelete # Unset /\ a.name = "--max-delete" /\ a.val = j.maxDelete
      \/ j.uid # Unset /\ j.gid # Unset /\ a.name = "--chown" /\ a.val = <<j.uid, j.gid>>
      \/ j.uid # Unset /\ j.gid # Unset /\ a.name = "--super"
  BY <1>n, <1>b DEF IsFlag
<1>1. a.name = "-A" => tr.acls
  BY <1>c
<1>2. a.name = "-X" => tr.xattrs
  BY <1>c
<1>3. a.name = "-z" => tr.compress # ""
  BY <1>c
<1>4. a.name = "--delete" => j.delete
  BY <1>c
<1>5. a.name = "--max-delete" => j.delete /\ j.maxDelete # Unset /\ a.val = j.maxDelete
  BY <1>c
<1>6. a.name = "--chown" =>
        j.uid # Unset /\ j.gid # Unset /\ a.val = <<j.uid, j.gid>>
  BY <1>c
<1>7. a.name = "-e" => a = sshCommand(j.sshKey, tr.strict)
  BY <1>c
<1>8. a.name = "--compress-choice" =>
        tr.compress \notin {"", "auto"} /\ a.val = tr.compress
  BY <1>c
<1> QED
  BY <1>1, <1>2, <1>3, <1>4, <1>5, <1>6, <1>7, <1>8

\* What rsync finds on its command line, and with which value.
LEMMA GivenFlags ==
    ASSUME NEW j, NEW tr, j.excludes \in Seq(Range(j.excludes)),
           NEW line, line = buildRsyncArgs(j, tr)
    PROVE  /\ Given(line, "-A") <=> tr.acls
           /\ Given(line, "-X") <=> tr.xattrs
           /\ Given(line, "-z") <=> tr.compress # ""
           /\ Given(line, "--delete") <=> j.delete
           /\ Given(line, "--max-delete") <=> j.delete /\ j.maxDelete # Unset
           /\ Given(line, "--max-delete") => Value(line, "--max-delete") = j.maxDelete
           /\ Given(line, "--chown") <=> j.uid # Unset /\ j.gid # Unset
           /\ Given(line, "--chown") => Value(line, "--chown") = <<j.uid, j.gid>>
           /\ j.uid # Unset /\ j.gid # Unset => Given(line, "--super")
           /\ Given(line, "--compress-choice") <=> tr.compress \notin {"", "auto"}
           /\ Given(line, "--compress-choice") =>
                Value(line, "--compress-choice") = tr.compress
           /\ Value(line, "-e") = sshCommand(j.sshKey, tr.strict).val
<1>1. PICK R : R = Range(Options(line))
  OBVIOUS
<1>2. \A a : a.name # "--filter=-" => (a \in R <=> IsFlag(j, tr, a))
  BY <1>1, GivenAreFlags
<1>3. \A name : Given(line, name) <=> \E a \in R : a.name = name
  BY <1>1 DEF Given
<1>4. \A name : Value(line, name) = (CHOOSE a \in R : a.name = name).val
  BY <1>1 DEF Value
<1>5. /\ \A a \in R : a.name = "-A" => tr.acls
      /\ \A a \in R : a.name = "-X" => tr.xattrs
      /\ \A a \in R : a.name = "-z" => tr.compress # ""
      /\ \A a \in R : a.name = "--delete" => j.delete
      /\ \A a \in R : a.name = "--max-delete" =>
                        j.delete /\ j.maxDelete # Unset /\ a.val = j.maxDelete
      /\ \A a \in R : a.name = "--chown" =>
                        j.uid # Unset /\ j.gid # Unset /\ a.val = <<j.uid, j.gid>>
      /\ \A a \in R : a.name = "--compress-choice" =>
                        tr.compress \notin {"", "auto"} /\ a.val = tr.compress
      /\ \A a \in R : a.name = "-e" => a = sshCommand(j.sshKey, tr.strict)
  BY <1>2, FlagNamed
<1>6. /\ tr.acls => Opt("-A", "") \in R /\ Opt("-A", "").name = "-A"
      /\ tr.xattrs => Opt("-X", "") \in R /\ Opt("-X", "").name = "-X"
      /\ tr.compress # "" => Opt("-z", "") \in R /\ Opt("-z", "").name = "-z"
      /\ j.delete => Opt("--delete", "") \in R /\ Opt("--delete", "").name = "--delete"
      /\ j.delete /\ j.maxDelete # Unset =>
           /\ Opt("--max-delete", j.maxDelete) \in R
           /\ Opt("--max-delete", j.maxDelete).name = "--max-delete"
      /\ j.uid # Unset /\ j.gid # Unset =>
           /\ Opt("--chown", <<j.uid, j.gid>>) \in R
           /\ Opt("--chown", <<j.uid, j.gid>>).name = "--chown"
           /\ Opt("--super", "") \in R /\ Opt("--super", "").name = "--super"
      /\ tr.compress \notin {"", "auto"} =>
           /\ Opt("--compress-choice", tr.compress) \in R
           /\ Opt("--compress-choice", tr.compress).name = "--compress-choice"
      /\ sshCommand(j.sshKey, tr.strict) \in R /\ sshCommand(j.sshKey, tr.strict).name = "-e"
  <2>1. \A name, val : Opt(name, val).name = name
    BY DEF Opt
  <2>2. sshCommand(j.sshKey, tr.strict).name = "-e"
    BY DEF sshCommand, Opt
  <2>3. \A name, val : name # "--filter=-" /\ IsFlag(j, tr, Opt(name, val)) =>
          Opt(name, val) \in R /\ Opt(name, val).name = name
    BY <1>2, <2>1
  <2>4. /\ tr.acls => IsFlag(j, tr, Opt("-A", ""))
        /\ tr.xattrs => IsFlag(j, tr, Opt("-X", ""))
        /\ tr.compress # "" => IsFlag(j, tr, Opt("-z", ""))
        /\ j.delete => IsFlag(j, tr, Opt("--delete", ""))
    BY DEF IsFlag
  <2>5. /\ j.delete /\ j.maxDelete # Unset => IsFlag(j, tr, Opt("--max-delete", j.maxDelete))
        /\ j.uid # Unset /\ j.gid # Unset =>
             /\ IsFlag(j, tr, Opt("--chown", <<j.uid, j.gid>>))
             /\ IsFlag(j, tr, Opt("--super", ""))
        /\ tr.compress \notin {"", "auto"} =>
             IsFlag(j, tr, Opt("--compress-choice", tr.compress))
    BY DEF IsFlag
  <2>6. sshCommand(j.sshKey, tr.strict) \in R
    BY <1>2, <2>2 DEF IsFlag
  <2> QED
    BY <2>2, <2>3, <2>4, <2>5, <2>6
<1>7. /\ Given(line, "-A") <=> tr.acls
      /\ Given(line, "-X") <=> tr.xattrs
      /\ Given(line, "-z") <=> tr.compress # ""
      /\ Given(line, "--delete") <=> j.delete
  BY <1>3, <1>5, <1>6
<1>8. /\ Given(line, "--max-delete") <=> j.delete /\ j.maxDelete # Unset
      /\ Given(line, "--chown") <=> j.uid # Unset /\ j.gid # Unset
      /\ j.uid # Unset /\ j.gid # Unset => Given(line, "--super")
      /\ Given(line, "--compress-choice") <=> tr.compress \notin {"", "auto"}
      /\ Given(line, "-e")
  BY <1>3, <1>5, <1>6
<1>9. ASSUME NEW name, Given(line, name)
      PROVE  \E a \in R : a.name = name /\ Value(line, name) = a.val
  BY <1>3, <1>4, <1>9
<1>10. ASSUME Given(line, "--max-delete") PROVE Value(line, "--max-delete") = j.maxDelete
  <2>1. PICK a \in R : a.name = "--max-delete" /\ Value(line, "--max-delete") = a.val
    BY <1>9, <1>10
  <2> QED
    BY <1>5, <2>1
<1>11. ASSUME Given(line, "--chown") PROVE Value(line, "--chown") = <<j.uid, j.gid>>
  <2>1. PICK a \in R : a.name = "--chown" /\ Value(line, "--chown") = a.val
    BY <1>9, <1>11
  <2> QED
    BY <1>5, <2>1
<1>12. Value(line, "-e") = sshCommand(j.sshKey, tr.strict).val
  BY <1>5, <1>8, <1>9
<1>13. ASSUME Given(line, "--compress-choice")
       PROVE  Value(line, "--compress-choice") = tr.compress
  <2>1. PICK a \in R : /\ a.name = "--compress-choice"
                       /\ Value(line, "--compress-choice") = a.val
    BY <1>9, <1>13
  <2> QED
    BY <1>5, <2>1
<1> QED
  BY <1>7, <1>8, <1>10, <1>11, <1>12, <1>13

-------------------------------------------------------------------------------
\* The rules rsync reads.

\* A pattern without control characters goes through as it is.
LEMMA ReadRuleIs ==
    ASSUME NEW e, ~e.empty, "control" \notin e.has
    PROVE  ReadRule(AsFilter(e)) = e
<1>1. PICK a : a = AsFilter(e)
  OBVIOUS
<1>2. a.name = "--filter=-" /\ a.val = e
  BY <1>1 DEF AsFilter, Opt
<1>3. a.name # "--exclude"
  BY <1>2
<1>4. ~(a.val.empty \/ "control" \in a.val.has)
  BY <1>2
<1>5. ReadRule(a) = a.val
  BY <1>3, <1>4, Zenon DEF ReadRule
<1> QED
  BY <1>1, <1>2, <1>5

\* The rules are what follows the flags.
LEMMA RulesFollow ==
    ASSUME NEW j, NEW tr, j.excludes \in Seq(Range(j.excludes)),
           NEW line, line = buildRsyncArgs(j, tr), NEW kept, kept = Kept(j.excludes)
    PROVE  \E rules :
             /\ ReadFilters(line) = [k \in 1..Len(rules) |-> ReadRule(rules[k])]
             /\ Len(kept) \in Nat /\ Len(rules) = 1 + Len(kept)
             /\ rules[1] = AsFilter(globalExcludes[1])
             /\ \A k \in 1..Len(kept) : rules[1 + k] = AsFilter(kept[k])
<1>1. PICK f, o, U : f = Flags(j, tr) /\ o = Options(line) /\ U = PossibleArgs(j, tr)
  OBVIOUS
<1>2. o \in Seq(U) /\ Laid(o, f, kept)
  BY <1>1, CommandParts
<1>m. PICK m, n : m = Len(f) /\ n = Len(kept)
  OBVIOUS
<1>3. /\ m \in Nat /\ n \in Nat /\ Len(o) = (m + 1) + n
      /\ \A k \in 1..m : o[k] = f[k]
      /\ o[m + 1] = AsFilter(globalExcludes[1])
      /\ \A k \in 1..n : o[(m + 1) + k] = AsFilter(kept[k])
  BY <1>m, <1>2 DEF Laid
<1>n. m \in Nat /\ n \in Nat
  BY <1>3
<1>4. PICK P : P = {k \in 1..Len(o) : IsRule(o[k])}
  OBVIOUS
<1>5. P = (m + 1)..Len(o)
  <2>1. ASSUME NEW k \in 1..m PROVE ~IsRule(o[k])
    <3>1. f[k] \in PossibleFlags(j, tr)
      BY <1>1, <1>m, FlagsAre, ElementOfSeq
    <3>2. \A a \in PossibleFlags(j, tr) : ~IsRule(a)
      BY Names
    <3> QED
      BY <1>3, <3>1, <3>2
  <2>2. ASSUME NEW k \in (m + 2)..((m + 1) + n) PROVE IsRule(o[k])
    <3>1. k - (m + 1) \in 1..n /\ (m + 1) + (k - (m + 1)) = k
      BY <1>n
    <3>2. PICK l \in 1..n : (m + 1) + l = k
      BY <3>1
    <3>3. o[k] = AsFilter(kept[l])
      BY <1>3, <3>2
    <3> QED
      BY <3>3, Names
  <2>3. IsRule(o[m + 1])
    BY <1>3, Names
  <2>4. \A k \in 1..((m + 1) + n) : k \in 1..m \/ k = m + 1 \/ k \in (m + 2)..((m + 1) + n)
    BY <1>n
  <2>5. \A k \in (m + 1)..((m + 1) + n) :
          k \in 1..((m + 1) + n) /\ (k = m + 1 \/ k \in (m + 2)..((m + 1) + n))
    BY <1>n
  <2>6. \A k \in 1..((m + 1) + n) : k \notin 1..m => k \in (m + 1)..((m + 1) + n)
    BY <1>n
  <2>7. P \subseteq (m + 1)..((m + 1) + n)
    BY <1>3, <1>4, <2>1, <2>6
  <2>8. (m + 1)..((m + 1) + n) \subseteq P
    BY <1>3, <1>4, <2>2, <2>3, <2>5
  <2> QED
    BY <1>3, <2>7, <2>8
<1>6. PICK rules : rules = ElementsAt(o, P)
  OBVIOUS
<1>7. /\ Len(rules) = Len(o) - m
      /\ \A k \in 1..(Len(o) - m) : rules[k] = o[m + k]
  <2>1. m \in 0..Len(o)
    BY <1>3
  <2>2. o \in Seq(U)
    BY <1>2
  <2>3. LastOnes(P, o, m)
    BY <1>5, <2>1 DEF LastOnes
  <2>4. /\ Len(ElementsAt(o, P)) = Len(o) - m
        /\ \A k \in 1..(Len(o) - m) : ElementsAt(o, P)[k] = o[m + k]
    BY <2>2, <2>3, ElementsOfEnd
  <2> QED
    BY <1>6, <2>4
<1>8. /\ Len(o) - m = 1 + n /\ 1 \in 1..(1 + n)
      /\ \A k \in 1..n : 1 + k \in 1..(1 + n) /\ m + (1 + k) = (m + 1) + k
  <2>1. Len(o) = (m + 1) + n
    BY <1>3
  <2> QED
    BY <1>n, <2>1
<1>9. rules[1] = AsFilter(globalExcludes[1])
  BY <1>3, <1>7, <1>8
<1>10. ASSUME NEW k \in 1..n PROVE rules[1 + k] = AsFilter(kept[k])
  BY <1>3, <1>7, <1>8
<1>11. ReadFilters(line) = [k \in 1..Len(rules) |-> ReadRule(rules[k])]
  BY <1>1, <1>4, <1>6 DEF ReadFilters
<1> QED
  BY <1>m, <1>n, <1>7, <1>8, <1>9, <1>10, <1>11

\* rsync applies the global rules, then those of the job, in the order written.
LEMMA RulesRead ==
    ASSUME NEW j, NEW tr, j.excludes \in Seq(Range(j.excludes)),
           \A e \in Range(j.excludes) : "control" \notin e.has,
           NEW line, line = buildRsyncArgs(j, tr)
    PROVE  RulesAsWritten(ReadFilters(line), j.excludes)
<1>1. PICK s, S, P : s = j.excludes /\ S = Range(j.excludes) /\ P = Written(j.excludes)
  OBVIOUS
<1>2. PICK kept : kept = ElementsAt(s, P)
  OBVIOUS
<1>3. s \in Seq(S) /\ Len(s) \in Nat
  BY <1>1, LenProperties
<1>4. kept \in Seq(S) /\ Holds(kept, s, P, Len(s))
  BY <1>2, <1>3, ElementsHeld
<1>5. P = {k \in 1..Len(s) : ~s[k].empty}
  BY <1>1 DEF Written
<1>6. UpTo(P, Len(s)) = P
  BY <1>5 DEF UpTo
<1>7. /\ Len(kept) = Cardinality(P)
      /\ \A k \in P : /\ Cardinality(UpTo(P, k)) \in 1..Len(kept)
                      /\ kept[Cardinality(UpTo(P, k))] = s[k]
      /\ \A n \in 1..Len(kept) : \E k \in P : kept[n] = s[k]
  BY <1>4, <1>6 DEF Holds
<1>8. PICK rules : /\ ReadFilters(line) = [k \in 1..Len(rules) |-> ReadRule(rules[k])]
                   /\ Len(kept) \in Nat /\ Len(rules) = 1 + Len(kept)
                   /\ rules[1] = AsFilter(globalExcludes[1])
                   /\ \A k \in 1..Len(kept) : rules[1 + k] = AsFilter(kept[k])
  BY <1>1, <1>2, RulesFollow DEF Kept
<1>9. PICK r : r = ReadFilters(line)
  OBVIOUS
<1>10. r[1] = globalExcludes[1]
  <2>1. 1 \in 1..Len(rules)
    BY <1>8
  <2>2. r[1] = ReadRule(AsFilter(globalExcludes[1]))
    BY <1>8, <1>9, <2>1
  <2>3. ~globalExcludes[1].empty /\ "control" \notin globalExcludes[1].has
    BY OneGlobal
  <2> QED
    BY <2>2, <2>3, ReadRuleIs
<1>11. ASSUME NEW n \in 1..Len(kept) PROVE r[1 + n] = kept[n]
  <2>1. 1 + n \in 1..Len(rules)
    BY <1>8
  <2>2. r[1 + n] = ReadRule(AsFilter(kept[n]))
    BY <1>8, <1>9, <2>1
  <2>3. PICK k \in P : kept[n] = s[k]
    BY <1>7
  <2>4. k \in 1..Len(s) /\ ~s[k].empty
    BY <1>5
  <2>5. s[k] \in S
    BY <1>3, <2>4, ElementOfSeq
  <2>6. ~kept[n].empty /\ "control" \notin kept[n].has
    BY <1>1, <2>3, <2>4, <2>5
  <2> QED
    BY <2>2, <2>6, ReadRuleIs
<1>12. Len(r) = 1 + Cardinality(P)
  <2>1. PICK N \in Nat : N = Len(rules)
    BY <1>8
  <2>2. r = [k \in 1..N |-> ReadRule(rules[k])]
    BY <1>8, <1>9, <2>1
  <2>3. Len(r) = N
    BY <2>2
  <2> QED
    BY <1>7, <1>8, <2>1, <2>3
<1>13. ASSUME NEW k \in P
       PROVE  r[1 + Cardinality({l \in P : l <= k})] = s[k]
  <2>1. {l \in P : l <= k} = UpTo(P, k)
    BY <1>3, <1>5 DEF UpTo
  <2> QED
    BY <1>7, <1>11, <2>1
<1>14. Len(globalExcludes) = 1
  BY OneGlobal
<1>15. /\ Len(r) = Len(globalExcludes) + Cardinality(P)
       /\ \A k \in 1..Len(globalExcludes) : r[k] = globalExcludes[k]
       /\ \A k \in P : r[Len(globalExcludes) + Cardinality({l \in P : l <= k})] = s[k]
  <2>1. \A k \in 1..1 : k = 1
    OBVIOUS
  <2> QED
    BY <1>10, <1>12, <1>13, <1>14, <2>1
<1> QED
  BY <1>1, <1>5, <1>9, <1>15 DEF RulesAsWritten

-------------------------------------------------------------------------------
\* The host rsync reads.

\* An accepted remote_host falls into a login, or none, and a host.
LEMMA HostParts ==
    ASSUME NEW raw \in Seq(STRING), validateRemoteHost(raw)
    PROVE  \E u, h \in Seq(STRING) :
             Cut(raw) = <<u, h>> /\ (u = <<>> \/ NameForm(u)) /\ HostForm(h)
<1>a. Len(raw) \in Nat /\ DOMAIN raw = 1..Len(raw)
  BY LenProperties
<1>1. CASE "@" \notin Range(raw)
  <2>1. Cut(raw) = <<<<>>, raw>>
    <3>1. \A n \in 1..Len(raw) : raw[n] # "@"
      BY <1>1, <1>a DEF Range
    <3> QED
      BY <3>1, CutAtFirst
  <2>2. PICK s : s = IF Bracketed(raw) /\ ParseIP(Inner(raw)) THEN Inner(raw) ELSE raw
    OBVIOUS
  <2>3. splitRemoteHost(raw).host = s
    BY <2>1, <2>2 DEF splitRemoteHost
  <2>4. HostForm(raw)
    BY <2>2, <2>3, HostClass DEF validateRemoteHost
  <2>5. <<>> \in Seq(STRING)
    BY EmptySeq
  <2> QED
    BY <2>1, <2>4, <2>5
<1>2. CASE "@" \in Range(raw)
  <2>1. PICK n \in 1..Len(raw) :
             Cut(raw) = <<SubSeq(raw, 1, n - 1), SubSeq(raw, n + 1, Len(raw))>>
    BY <1>2, CutAtFirst
  <2>2. PICK u, h : u = SubSeq(raw, 1, n - 1) /\ h = SubSeq(raw, n + 1, Len(raw))
    OBVIOUS
  <2>3. u \in Seq(STRING)
    <3>1. 1 \in 1..(Len(raw) + 1) /\ n - 1 \in 0..Len(raw)
      BY <1>a
    <3> QED
      BY <2>2, <3>1, Piece
  <2>4. h \in Seq(STRING)
    <3>1. n + 1 \in 1..(Len(raw) + 1) /\ Len(raw) \in 0..Len(raw)
      BY <1>a
    <3> QED
      BY <2>2, <3>1, Piece
  <2>5. PICK s : s = IF Bracketed(h) /\ ParseIP(Inner(h)) THEN Inner(h) ELSE h
    OBVIOUS
  <2>6. splitRemoteHost(raw).user = u /\ splitRemoteHost(raw).host = s
    BY <2>1, <2>2, <2>5 DEF splitRemoteHost
  <2>7. NameForm(u) /\ HostForm(h)
    BY <1>2, <2>3, <2>4, <2>5, <2>6, HostClass, NameClass DEF validateRemoteHost
  <2> QED
    BY <2>1, <2>2, <2>3, <2>4, <2>7
<1> QED
  BY <1>1, <1>2

\* The first token of a name.
LEMMA NameStarts ==
    ASSUME NEW W, NEW h \in Seq(W), NameForm(h)
    PROVE  /\ Len(h) \in Nat \ {0} /\ h[1] \in {"name", "ip4"}
           /\ \A n \in 1..Len(h) : h[n] \in {"name", "-name", "ip4"}
<1>1. Len(h) \in Nat /\ DOMAIN h = 1..Len(h)
  BY LenProperties
<1>2. Len(h) \in Nat \ {0}
  BY <1>1, EmptySeq DEF NameForm
<1>3. \A n \in 1..Len(h) : h[n] \in {"name", "-name", "ip4"}
  BY <1>1 DEF NameForm, Range
<1>4. 1 \in 1..Len(h)
  BY <1>2
<1> QED
  BY <1>2, <1>3, <1>4 DEF NameForm

\* The host without its brackets: what splitRemoteHost returns is what is meant.
LEMMA HostMeant ==
    ASSUME NEW h \in Seq(STRING), HostForm(h), NEW s,
           s = IF Bracketed(h) /\ ParseIP(Inner(h)) THEN Inner(h) ELSE h
    PROVE  /\ s = (IF h[1] = "[" THEN Inner(h) ELSE h)
           /\ s \in Seq(STRING) /\ (NameForm(s) \/ s = <<"ip6">>)
<1>1. ASSUME NEW a \in Addresses, NEW t, t = <<a>>
      PROVE  NameForm(t) \/ t = <<"ip6">>
  <2>1. PICK U : U = {a}
    OBVIOUS
  <2>2. Range(t) = {a}
    BY <1>1, <2>1, OneRange
  <2>3. t[1] = a /\ t # <<>>
    BY <1>1
  <2>4. a = "ip4" \/ a = "ip6"
    BY DEF Addresses
  <2>5. a = "ip4" => NameForm(t)
    BY <2>2, <2>3 DEF NameForm
  <2> QED
    BY <1>1, <2>4, <2>5
<1>2. CASE NameForm(h)
  <2>1. h[1] # "["
    BY <1>2, NameStarts
  <2>2. ~Bracketed(h)
    BY <2>1 DEF Bracketed
  <2> QED
    BY <1>2, <2>1, <2>2
<1>3. CASE h \in {<<a>> : a \in Addresses}
  <2>1. PICK a \in Addresses : h = <<a>>
    BY <1>3
  <2>2. h[1] = a
    BY <2>1
  <2>3. h[1] # "["
    BY <2>2 DEF Addresses
  <2>4. ~Bracketed(h)
    BY <2>3 DEF Bracketed
  <2> QED
    BY <1>1, <2>1, <2>3, <2>4
<1>4. CASE h \in {<<"[", a, "]">> : a \in Addresses}
  <2>1. Bracketed(h) /\ ParseIP(Inner(h))
    BY <1>4, BracketForm
  <2>2. h[1] = "["
    BY <2>1 DEF Bracketed
  <2>3. Inner(h) \in Seq(STRING)
    <3>1. Len(h) \in Nat /\ Len(h) >= 2
      BY <2>1, LenProperties DEF Bracketed
    <3>2. 2 \in 1..(Len(h) + 1) /\ Len(h) - 1 \in 0..Len(h)
      BY <3>1
    <3> QED
      BY <3>2, Piece DEF Inner
  <2>4. Inner(h) \in {<<a>> : a \in Addresses}
    BY <2>1, <2>3, BracketForm
  <2>5. PICK a \in Addresses : Inner(h) = <<a>>
    BY <2>4
  <2>6. s = <<a>>
    BY <2>1, <2>5
  <2> QED
    BY <1>1, <2>1, <2>2, <2>3, <2>5, <2>6
<1> QED
  BY <1>2, <1>3, <1>4 DEF HostForm

\* d is the login u, an "@" and t.
LoginAnd(d, u, t) ==
    /\ Len(d) = (Len(u) + 1) + Len(t) /\ d[Len(u) + 1] = "@"
    /\ \A k \in 1..Len(u) : d[k] = u[k]
    /\ \A k \in 1..Len(t) : d[(Len(u) + 1) + k] = t[k]

\* A login, an "@" and the rest come apart again.
LEMMA CutJoined ==
    ASSUME NEW W, NEW u \in Seq(W), NEW t \in Seq(W), NEW d \in Seq(W),
           LoginAnd(d, u, t), "@" \notin Range(u)
    PROVE  Cut(d) = <<u, t>>
<1>a. /\ Len(u) \in Nat /\ Len(t) \in Nat
      /\ DOMAIN u = 1..Len(u)
  BY LenProperties
<1>1. PICK m, n : m = Len(u) /\ n = Len(t)
  OBVIOUS
<1>b. m \in Nat /\ n \in Nat
  BY <1>a, <1>1
<1>5. /\ Len(d) = (m + 1) + n
      /\ \A k \in 1..n : d[(m + 1) + k] = t[k]
  BY <1>1 DEF LoginAnd
<1>6. /\ d[m + 1] = "@" /\ \A k \in 1..m : d[k] = u[k]
  BY <1>1 DEF LoginAnd
<1>7. \A k \in 1..m : d[k] # "@"
  BY <1>1, <1>6, <1>a DEF Range
<1>8. m + 1 \in 1..Len(d) /\ "@" \in Range(d)
  <2>1. m + 1 \in 1..Len(d)
    BY <1>5, <1>b
  <2>2. DOMAIN d = 1..Len(d)
    BY <1>5, LenProperties
  <2> QED
    BY <1>6, <2>1, <2>2 DEF Range
<1>9. PICK l \in 1..Len(d) :
           /\ d[l] = "@" /\ \A k \in 1..(l - 1) : d[k] # "@"
           /\ Cut(d) = <<SubSeq(d, 1, l - 1), SubSeq(d, l + 1, Len(d))>>
  BY <1>5, <1>8, CutAtFirst
<1>10. l = m + 1
  <2>1. l \in Nat \ {0}
    BY <1>5, <1>b
  <2>2. l \notin 1..m
    BY <1>7, <1>9
  <2>3. m + 1 \notin 1..(l - 1)
    BY <1>6, <1>9
  <2> QED
    BY <1>b, <2>1, <2>2, <2>3
<1>11. PICK v, w : v = SubSeq(d, 1, m) /\ w = SubSeq(d, m + 2, (m + 1) + n)
  OBVIOUS
<1>12. v = u
  <2>1. m \in 0..Len(d)
    BY <1>5, <1>b
  <2>2. v \in Seq(W) /\ Len(v) = m /\ \A k \in 1..m : v[k] = d[k]
    BY <1>5, <1>11, <2>1, FirstPart
  <2> QED
    BY <1>1, <1>6, <2>2, SeqEqual
<1>13. w = t
  <2>a. PICK x, y : x = m + 2 /\ y = (m + 1) + n
    OBVIOUS
  <2>1. x \in 1..(Len(d) + 1) /\ y \in 0..Len(d)
    BY <1>5, <1>b, <2>a
  <2>b. w = SubSeq(d, x, y)
    BY <1>11, <2>a
  <2>2. /\ w \in Seq(W)
        /\ Len(w) = IF x <= y THEN y - x + 1 ELSE 0
        /\ \A k \in 1..(y - x + 1) : w[k] = d[x + k - 1]
    BY <2>1, <2>b, Piece
  <2>3. /\ y - x + 1 = n
        /\ (IF x <= y THEN y - x + 1 ELSE 0) = n
        /\ \A k \in 1..n : x + k - 1 = (m + 1) + k
    BY <1>b, <2>a
  <2>4. Len(w) = n /\ \A k \in 1..n : w[k] = t[k]
    BY <1>5, <2>2, <2>3
  <2> QED
    BY <1>1, <2>2, <2>4, SeqEqual
<1>14. l - 1 = m /\ l + 1 = m + 2
  BY <1>b, <1>10
<1> QED
  BY <1>5, <1>9, <1>11, <1>12, <1>13, <1>14

\* d is p and then t.
After(d, p, t) ==
    /\ Len(p) \in Nat /\ Len(t) \in Nat /\ Len(d) = Len(p) + Len(t)
    /\ \A k \in 1..Len(p) : d[k] = p[k]
    /\ \A k \in 1..Len(t) : d[Len(p) + k] = t[k]

\* That is what joining makes.
LEMMA JoinAfter ==
    ASSUME NEW W, NEW p \in Seq(W), NEW t \in Seq(W)
    PROVE  p \o t \in Seq(W) /\ After(p \o t, p, t)
<1>1. PICK m, n : m = Len(p) /\ n = Len(t)
  OBVIOUS
<1>2. m \in Nat /\ n \in Nat
  BY <1>1, LenProperties
<1>3. PICK d : d = p \o t
  OBVIOUS
<1>4. /\ d \in Seq(W) /\ Len(d) = m + n
      /\ \A k \in 1..(m + n) : d[k] = IF k <= m THEN p[k] ELSE t[k - m]
  BY <1>1, <1>3, ConcatProperties
<1>5. /\ \A k \in 1..n : m + k \in 1..(m + n) /\ ~(m + k <= m) /\ (m + k) - m = k
      /\ \A k \in 1..m : k \in 1..(m + n) /\ k <= m
  BY <1>2
<1>6. /\ \A k \in 1..m : d[k] = p[k]
      /\ \A k \in 1..n : d[m + k] = t[k]
  BY <1>4, <1>5
<1> QED
  BY <1>1, <1>2, <1>3, <1>4, <1>6 DEF After

\* A text with a colon after it.
LEMMA ColonAfter ==
    ASSUME NEW W, ":" \in W, NEW r \in Seq(W), NEW t, t = r \o <<":">>
    PROVE  /\ t \in Seq(W) /\ Len(r) \in Nat /\ Len(t) = Len(r) + 1
           /\ t[Len(r) + 1] = ":" /\ \A k \in 1..Len(r) : t[k] = r[k]
<1>1. PICK m : m = Len(r)
  OBVIOUS
<1>2. PICK c : c = <<":">>
  OBVIOUS
<1>3. c \in Seq(W) /\ Len(c) = 1 /\ c[1] = ":"
  BY <1>2
<1>4. m \in Nat
  BY <1>1, LenProperties
<1>5. /\ t \in Seq(W) /\ Len(t) = m + Len(c)
      /\ \A k \in 1..(m + Len(c)) : t[k] = IF k <= m THEN r[k] ELSE c[k - m]
  BY <1>1, <1>2, <1>3, ConcatProperties
<1>6. /\ m + 1 \in 1..(m + 1) /\ ~(m + 1 <= m) /\ (m + 1) - m = 1
      /\ \A k \in 1..m : k \in 1..(m + 1) /\ k <= m
  BY <1>4
<1>7. Len(t) = m + 1 /\ t[m + 1] = ":" /\ \A k \in 1..m : t[k] = r[k]
  BY <1>3, <1>5, <1>6
<1> QED
  BY <1>1, <1>4, <1>5, <1>7

\* Joining does not depend on the order.
LEMMA Regroup ==
    ASSUME NEW W, NEW p \in Seq(W), NEW r \in Seq(W), NEW c \in Seq(W),
           NEW v, v = p \o r, NEW t, t = r \o c, NEW d, d = v \o c
    PROVE  d = p \o t
  BY ConcatAssociative

\* A name ends at the colon.
LEMMA ReadName ==
    ASSUME NEW W, ":" \in W, NEW s \in Seq(W), NameForm(s), NEW t, t = s \o <<":">>,
           NEW u, NEW d, Cut(d) = <<u, t>>
    PROVE  ReadHost(d) = [user |-> u, host |-> s]
<1>1. PICK m : m = Len(s)
  OBVIOUS
<1>2. /\ t \in Seq(W) /\ m \in Nat /\ Len(t) = m + 1
      /\ t[m + 1] = ":" /\ \A k \in 1..m : t[k] = s[k]
  BY <1>1, ColonAfter
<1>3. /\ m \in Nat \ {0} /\ s[1] \in {"name", "ip4"}
      /\ \A n \in 1..m : s[n] \in {"name", "-name", "ip4"}
  BY <1>1, NameStarts
<1>4. /\ 1 \in 1..m /\ m + 1 \in 1..(m + 1) /\ (m + 1) - 1 = m /\ m + 1 # 1
      /\ \A n \in 1..(m + 1) : n \notin 1..m => m + 1 <= n
  BY <1>3
<1>5. t[1] # "[" /\ t[1] # "-name"
  BY <1>2, <1>3, <1>4
<1>6. PICK T : T = {n \in 1..Len(t) : t[n] \in {":", "ip6"}}
  OBVIOUS
<1>7. T # {} /\ Min(T) = m + 1
  <2>1. T \in SUBSET Nat
    BY <1>6
  <2>2. m + 1 \in T
    BY <1>2, <1>4, <1>6
  <2>3. ASSUME NEW n \in 1..m PROVE n \notin T
    BY <1>2, <1>3, <1>6
  <2>4. \A n \in T : m + 1 <= n
    BY <1>2, <1>4, <1>6, <2>3
  <2> QED
    BY <2>1, <2>2, <2>4, LeastIs
<1>8. SelectInSeq(t, LAMBDA x : x \in {":", "ip6"}) = m + 1
  BY <1>6, <1>7 DEF SelectInSeq
<1>9. PICK r : r = SubSeq(t, 1, m)
  OBVIOUS
<1>10. r = s
  <2>1. m \in 0..Len(t)
    BY <1>2
  <2>2. r \in Seq(W) /\ Len(r) = m /\ \A k \in 1..m : r[k] = t[k]
    BY <1>2, <1>9, <2>1, FirstPart
  <2> QED
    BY <1>1, <1>2, <2>2, SeqEqual
<1>11. Cut(d)[1] = u /\ Cut(d)[2] = t
  OBVIOUS
<1>12. ReadHost(d) = [user |-> u, host |-> SubSeq(t, 1, (m + 1) - 1)]
  BY <1>2, <1>4, <1>5, <1>8, <1>11 DEF ReadHost
<1> QED
  BY <1>4, <1>9, <1>10, <1>12

\* An address in brackets.
SixInBrackets(r) == Len(r) = 3 /\ r[1] = "[" /\ r[2] = "ip6" /\ r[3] = "]"

\* An address ends at its bracket, and the colon follows.
LEMMA ReadAddress ==
    ASSUME NEW W, ":" \in W, NEW r \in Seq(W), SixInBrackets(r),
           NEW t, t = r \o <<":">>, NEW u, NEW d, Cut(d) = <<u, t>>
    PROVE  ReadHost(d) = [user |-> u, host |-> <<"ip6">>]
<1>1. Len(r) = 3 /\ r[1] = "[" /\ r[2] = "ip6" /\ r[3] = "]"
  BY DEF SixInBrackets
<1>2. /\ t \in Seq(W) /\ Len(t) = Len(r) + 1
      /\ t[Len(r) + 1] = ":" /\ \A k \in 1..Len(r) : t[k] = r[k]
  BY ColonAfter
<1>3. 1 \in 1..3 /\ 2 \in 1..3 /\ 3 \in 1..3 /\ 3 + 1 = 4
  OBVIOUS
<1>4. /\ Len(t) = 4 /\ t[1] = "[" /\ t[2] = "ip6" /\ t[3] = "]" /\ t[4] = ":"
  BY <1>1, <1>2, <1>3
<1>5. PICK T : T = {n \in 1..Len(t) : t[n] = "]"}
  OBVIOUS
<1>6. T # {} /\ Min(T) = 3
  <2>1. T = {3}
    <3>1. \A n \in 1..4 : n = 1 \/ n = 2 \/ n = 3 \/ n = 4
      OBVIOUS
    <3> QED
      BY <1>4, <1>5, <3>1
  <2>2. T \in SUBSET Nat /\ 3 \in T /\ \A n \in T : 3 <= n
    BY <2>1
  <2> QED
    BY <2>2, LeastIs
<1>7. SelectInSeq(t, LAMBDA x : x = "]") = 3
  BY <1>5, <1>6 DEF SelectInSeq
<1>8. PICK v : v = SubSeq(t, 2, 2)
  OBVIOUS
<1>9. v = <<"ip6">>
  <2>1. 2 \in 1..(Len(t) + 1) /\ 2 \in 0..Len(t)
    BY <1>4
  <2>a. PICK x : x = 2
    OBVIOUS
  <2>b. x \in 1..(Len(t) + 1) /\ x \in 0..Len(t) /\ v = SubSeq(t, x, x)
    BY <1>8, <2>1, <2>a
  <2>2. /\ v \in Seq(W) /\ Len(v) = IF x <= x THEN x - x + 1 ELSE 0
        /\ \A l \in 1..(x - x + 1) : v[l] = t[x + l - 1]
    BY <1>2, <2>b, Piece
  <2>c. /\ (IF x <= x THEN x - x + 1 ELSE 0) = 1 /\ x - x + 1 = 1
        /\ 1 \in 1..1 /\ x + 1 - 1 = 2
    BY <2>a
  <2>3. Len(v) = 1 /\ v[1] = t[2]
    BY <2>2, <2>c
  <2>4. PICK y : y = "ip6" /\ y = v[1]
    BY <1>4, <2>3
  <2>5. PICK w : w = <<y>>
    OBVIOUS
  <2>6. y \in W
    <3>1. 1 \in 1..Len(v)
      BY <2>3
    <3> QED
      BY <2>2, <2>4, <3>1, ElementOfSeq
  <2>7. w \in Seq(W) /\ Len(w) = 1 /\ w[1] = y
    BY <2>5, <2>6
  <2>8. v = w
    <3>1. \A n \in 1..1 : n = 1
      OBVIOUS
    <3>2. \A n \in 1..Len(v) : v[n] = w[n]
      BY <2>3, <2>4, <2>7, <3>1
    <3> QED
      BY <2>2, <2>3, <2>7, <3>2, SeqEqual
  <2> QED
    BY <2>4, <2>5, <2>8
<1>10. Cut(d)[1] = u /\ Cut(d)[2] = t
  OBVIOUS
<1>11. 4 - 1 = 3 /\ 3 - 1 = 2
  OBVIOUS
<1>12. ReadHost(d) = [user |-> u, host |-> SubSeq(t, 2, 3 - 1)]
  BY <1>4, <1>7, <1>10, <1>11 DEF ReadHost
<1> QED
  BY <1>8, <1>9, <1>11, <1>12

\* rsync and ssh reach the login and the host that remote_host means.
LEMMA HostRead ==
    ASSUME NEW j, j.remoteHost \in Seq(STRING), validateRemoteHost(j.remoteHost)
    PROVE  ReadHost(remoteDest(j).host) = Meant(j.remoteHost)
<1>1. PICK raw : raw = j.remoteHost
  OBVIOUS
<1>2. PICK u, h \in Seq(STRING) :
           Cut(raw) = <<u, h>> /\ (u = <<>> \/ NameForm(u)) /\ HostForm(h)
  BY <1>1, HostParts
<1>3. PICK s : s = IF Bracketed(h) /\ ParseIP(Inner(h)) THEN Inner(h) ELSE h
  OBVIOUS
<1>4. /\ s = (IF h[1] = "[" THEN Inner(h) ELSE h)
      /\ s \in Seq(STRING) /\ (NameForm(s) \/ s = <<"ip6">>)
  BY <1>2, <1>3, HostMeant
<1>5. Cut(raw)[1] = u /\ Cut(raw)[2] = h
  BY <1>2
<1>6. Meant(raw) = [user |-> u, host |-> s]
  BY <1>4, <1>5 DEF Meant
<1>7. splitRemoteHost(raw).user = u /\ splitRemoteHost(raw).host = s
  BY <1>3, <1>5 DEF splitRemoteHost
<1>8. PICK r : r = Rebracketed(s)
  OBVIOUS
<1>9. PICK p : p = When(u # <<>>, u \o <<"@">>)
  OBVIOUS
<1>v. PICK v : v = p \o r
  OBVIOUS
<1>10. PICK d : d = v \o <<":">>
  OBVIOUS
<1>11. remoteDest(j).host = d
  BY <1>1, <1>7, <1>8, <1>9, <1>v, <1>10 DEF remoteDest
<1>12. PICK W : W = STRING \cup {"@", ":", "[", "ip6", "]"}
  OBVIOUS
<1>13. "@" \in W /\ ":" \in W /\ "[" \in W /\ "ip6" \in W /\ "]" \in W /\ STRING \subseteq W
  BY <1>12
<1>14. u \in Seq(W) /\ s \in Seq(W)
  BY <1>2, <1>4, <1>13, Wider
<1>15. /\ \/ NameForm(s) /\ r = s
          \/ s = <<"ip6">> /\ SixInBrackets(r)
       /\ r \in Seq(W)
  <2>1. CASE NameForm(s)
    <3>1. Range(s) \cap {"ip6", ":"} = {}
      BY <2>1 DEF NameForm
    <3> QED
      BY <1>8, <1>14, <2>1, <3>1 DEF Rebracketed
  <2>2. CASE s = <<"ip6">>
    <3>1. Range(s) = {"ip6"}
      BY <1>13, <2>2, OneRange
    <3>2. PICK x, z : x = <<"[">> /\ z = <<"]">>
      OBVIOUS
    <3>w. PICK w : w = x \o s
      OBVIOUS
    <3>3. r = w \o z
      BY <1>8, <3>1, <3>2, <3>w DEF Rebracketed
    <3>4. /\ x \in Seq(W) /\ Len(x) = 1 /\ x[1] = "["
          /\ s \in Seq(W) /\ Len(s) = 1 /\ s[1] = "ip6"
          /\ z \in Seq(W) /\ Len(z) = 1 /\ z[1] = "]"
      BY <1>13, <1>14, <2>2, <3>2
    <3>5. w \in Seq(W) /\ After(w, x, s)
      BY <3>w, <3>4, JoinAfter
    <3>6. r \in Seq(W) /\ After(r, w, z)
      BY <3>3, <3>4, <3>5, JoinAfter
    <3>7. 1 \in 1..1 /\ 1 + 1 = 2 /\ 2 + 1 = 3 /\ 1 \in 1..2 /\ 2 \in 1..2
      OBVIOUS
    <3>8. Len(w) = 2 /\ w[1] = x[1] /\ w[2] = s[1]
      BY <3>4, <3>5, <3>7 DEF After
    <3>9. Len(r) = 3 /\ r[1] = w[1] /\ r[2] = w[2] /\ r[3] = z[1]
      BY <3>4, <3>6, <3>7, <3>8 DEF After
    <3> QED
      BY <2>2, <3>4, <3>6, <3>8, <3>9 DEF SixInBrackets
  <2> QED
    BY <1>4, <2>1, <2>2
<1>16. r \in Seq(W)
  BY <1>15
<1>17. PICK t : t = r \o <<":">>
  OBVIOUS
<1>18. t \in Seq(W)
  BY <1>13, <1>16, <1>17, ColonAfter
<1>19. Cut(d) = <<u, t>>
  <2>1. CASE u = <<>>
    <3>1. p = <<>>
      BY <1>9, <2>1 DEF When
    <3>2. v = r
      BY <1>v, <1>16, <3>1, ConcatEmptySeq
    <3>3. d = t
      BY <1>10, <1>17, <3>2
    <3>4. "@" \notin Range(t)
      <4>1. Len(r) \in Nat /\ \A n \in 1..Len(r) : r[n] # "@"
        <5>1. CASE NameForm(s) /\ r = s
          BY <1>14, <5>1, NameStarts
        <5>2. CASE SixInBrackets(r)
          <6>1. Len(r) = 3 /\ r[1] = "[" /\ r[2] = "ip6" /\ r[3] = "]"
            BY <5>2 DEF SixInBrackets
          <6>2. \A n \in 1..3 : n = 1 \/ n = 2 \/ n = 3
            OBVIOUS
          <6> QED
            BY <6>1, <6>2
        <5> QED
          BY <1>15, <5>1, <5>2
      <4>2. /\ Len(t) = Len(r) + 1
            /\ t[Len(r) + 1] = ":" /\ \A k \in 1..Len(r) : t[k] = r[k]
        BY <1>13, <1>16, <1>17, ColonAfter
      <4>3. DOMAIN t = 1..(Len(r) + 1)
        BY <1>18, <4>2, LenProperties
      <4>4. \A n \in 1..(Len(r) + 1) : n \in 1..Len(r) \/ n = Len(r) + 1
        BY <4>1
      <4> QED
        BY <4>1, <4>2, <4>3, <4>4 DEF Range
    <3>5. \A n \in 1..Len(t) : t[n] # "@"
      BY <1>18, <3>4, LenProperties DEF Range
    <3>6. Cut(t) = <<<<>>, t>>
      BY <1>18, <3>5, CutAtFirst
    <3> QED
      BY <2>1, <3>3, <3>6
  <2>2. CASE u # <<>>
    <3>1. p = u \o <<"@">>
      BY <1>9, <2>2 DEF When
    <3>2. "@" \notin Range(u)
      BY <1>2, <2>2 DEF NameForm
    <3>3. PICK c, e : c = <<":">> /\ e = <<"@">>
      OBVIOUS
    <3>4. c \in Seq(W) /\ e \in Seq(W)
      BY <1>13, <3>3
    <3>5. p \in Seq(W)
      BY <1>14, <3>1, <3>3, <3>4, ConcatProperties
    <3>6. d = p \o t
      BY <1>v, <1>10, <1>16, <1>17, <3>3, <3>4, <3>5, Regroup
    <3>7. After(p, u, e) /\ Len(e) = 1 /\ e[1] = "@"
      BY <1>14, <3>1, <3>3, <3>4, JoinAfter
    <3>8. d \in Seq(W) /\ After(d, p, t)
      BY <1>18, <3>5, <3>6, JoinAfter
    <3>9. LoginAnd(d, u, t)
      <4>1. PICK m, n : m = Len(u) /\ n = Len(t)
        OBVIOUS
      <4>2. /\ m \in Nat /\ n \in Nat /\ Len(p) = m + 1
            /\ \A k \in 1..m : p[k] = u[k]
            /\ \A k \in 1..1 : p[m + k] = e[k]
        BY <3>7, <3>8, <4>1 DEF After
      <4>3. /\ Len(d) = (m + 1) + n
            /\ \A k \in 1..(m + 1) : d[k] = p[k]
            /\ \A k \in 1..n : d[(m + 1) + k] = t[k]
        BY <3>8, <4>1, <4>2 DEF After
      <4>4. /\ 1 \in 1..1 /\ m + 1 \in 1..(m + 1)
            /\ \A k \in 1..m : k \in 1..(m + 1)
        BY <4>2
      <4>5. d[m + 1] = "@" /\ \A k \in 1..m : d[k] = u[k]
        BY <3>7, <4>2, <4>3, <4>4
      <4> QED
        BY <4>1, <4>3, <4>5 DEF LoginAnd
    <3> QED
      BY <1>14, <1>18, <3>2, <3>8, <3>9, CutJoined
  <2> QED
    BY <2>1, <2>2
<1>20. ReadHost(d) = [user |-> u, host |-> s]
  <2>1. CASE NameForm(s) /\ r = s
    BY <1>13, <1>14, <1>17, <1>19, <2>1, ReadName
  <2>2. CASE s = <<"ip6">> /\ SixInBrackets(r)
    BY <1>13, <1>16, <1>17, <1>19, <2>2, ReadAddress
  <2> QED
    BY <1>15, <2>1, <2>2
<1> QED
  BY <1>1, <1>6, <1>11, <1>20

-------------------------------------------------------------------------------
\* The command of the job that runs.

\* What adviseConfig reports, and the command of job k.
AllAdvice == UNION {{<<k, w>> : w \in warnInertSettings(jobs[k])} : k \in 1..Len(jobs)}

CommandOf(k) == buildRsyncArgs(jobs[k], loadTransport(env, posture))

\* Between validation and the first job the loop variable is back at the first
\* job; from then on the advice is all there is to report and the arguments are
\* those of the job before i.
ArgsInv ==
    /\ env \in Environments
    /\ \A j \in Range(jobs) : j.excludes \in Seq(Range(j.excludes))
    /\ posture \in {"none", "accept-new", "strict"}
    /\ pc \in {"advise", "open hosts", "scan"} => i = 1
    /\ pc \in {"open hosts", "scan", "run"} => advice = AllAdvice
    /\ pc = "run" => i <= Len(jobs) + 1 /\ (i > 1 => args = CommandOf(i - 1))

\* The start keeps it.
LEMMA ArgsStep == TypeOK /\ ArgsInv /\ [Next]_vars => ArgsInv'
<1> SUFFICES ASSUME TypeOK, ArgsInv, [Next]_vars PROVE ArgsInv'
  OBVIOUS
<1>a. Len(jobs) \in Nat /\ i \in Nat \ {0}
  BY ListType DEF TypeOK
<1>b. UNCHANGED <<jobs, env>>
  BY DEF Next, Step, OpenConfig, ReadConfig, ConfigEnds, Validate, adviseConfig,
     OpenHosts, classifyKnownHosts, ReadError, RunNext, Edit, Stop, inputVars, vars
<1>c. /\ env' \in Environments
      /\ \A j \in Range(jobs)' : j.excludes \in Seq(Range(j.excludes))
      /\ AllAdvice' = AllAdvice
  <2>1. /\ env \in Environments
        /\ \A j \in Range(jobs) : j.excludes \in Seq(Range(j.excludes))
    BY DEF ArgsInv
  <2>2. Range(jobs)' = Range(jobs)
    BY <1>b DEF Range
  <2>3. AllAdvice' = AllAdvice
    BY <1>b DEF AllAdvice
  <2> QED
    BY <1>b, <2>1, <2>2, <2>3
<1>d. posture \in {"none", "accept-new", "strict"}
  BY DEF ArgsInv
<1>e. ASSUME i' = 1 PROVE i' <= Len(jobs') + 1 /\ ~(i' > 1)
  <2>1. i' <= Len(jobs) + 1 /\ ~(i' > 1)
    BY <1>a, <1>e
  <2> QED
    BY <1>b, <2>1
\* Before validation is over there is nothing to keep.
<1>1. ASSUME UNCHANGED posture, pc' \notin {"advise", "open hosts", "scan", "run"}
      PROVE  ArgsInv'
  BY <1>1, <1>c, <1>d DEF ArgsInv
<1>2. CASE OpenConfig \/ ReadConfig \/ ConfigEnds \/ ReadError
  <2>1. UNCHANGED posture
    BY <1>2 DEF OpenConfig, ReadConfig, ConfigEnds, ReadError, scanVars
  <2>2. pc' \notin {"advise", "open hosts", "scan", "run"}
    BY <1>2 DEF OpenConfig, ReadConfig, ConfigEnds, ReadError
  <2> QED
    BY <1>1, <2>1, <2>2
<1>3. CASE Validate
  <2>1. UNCHANGED posture
    BY <1>3 DEF Validate, scanVars
  <2>2. pc' \in {"validate", "refused"} \/ (pc' = "advise" /\ i' = 1)
    BY <1>3 DEF Validate
  <2>3. CASE pc' \in {"validate", "refused"}
    BY <1>1, <2>1, <2>3
  <2>4. CASE pc' = "advise" /\ i' = 1
    BY <1>c, <1>d, <2>1, <2>4 DEF ArgsInv
  <2> QED
    BY <2>2, <2>3, <2>4
<1>4. CASE adviseConfig
  <2>1. /\ pc = "advise" /\ pc' = "open hosts" /\ advice' = AllAdvice
        /\ UNCHANGED <<i, posture>>
    BY <1>4 DEF adviseConfig, AllAdvice, scanVars
  <2>2. i' = 1
    BY <2>1 DEF ArgsInv
  <2> QED
    BY <1>c, <1>d, <2>1, <2>2 DEF ArgsInv
<1>5. CASE OpenHosts
  <2>1. /\ pc = "open hosts" /\ UNCHANGED <<i, advice>>
        /\ pc' \in {"scan", "run", "refused"} /\ posture' \in {"accept-new", "none"}
    BY <1>5 DEF OpenHosts, docVars
  <2>2. i' = 1 /\ advice' = AllAdvice
    BY <2>1 DEF ArgsInv
  <2> QED
    BY <1>c, <1>e, <2>1, <2>2 DEF ArgsInv
<1>6. CASE classifyKnownHosts
  <2>1. /\ pc = "scan" /\ UNCHANGED <<i, advice>> /\ pc' \in {"scan", "run", "refused"}
        /\ posture' \in {posture, "strict"}
    BY <1>6 DEF classifyKnownHosts, ScanRune, docVars, scanVars
  <2>2. i' = 1 /\ advice' = AllAdvice
    BY <2>1 DEF ArgsInv
  <2> QED
    BY <1>c, <1>d, <1>e, <2>1, <2>2 DEF ArgsInv
<1>7. CASE RunNext
  <2>1. /\ pc = "run" /\ pc' = "run" /\ i <= Len(jobs) /\ i' = i + 1
        /\ args' = CommandOf(i) /\ UNCHANGED <<advice, posture>>
    BY <1>7 DEF RunNext, CommandOf, scanVars
  <2>2. i' - 1 = i /\ i' <= Len(jobs) + 1
    BY <1>a, <2>1
  <2>3. args' = CommandOf(i - 1)'
    BY <1>b, <2>1, <2>2 DEF CommandOf
  <2>4. advice' = AllAdvice
    BY <2>1 DEF ArgsInv
  <2>5. i' <= Len(jobs') + 1
    BY <1>b, <2>2
  <2> QED
    BY <1>c, <1>d, <2>1, <2>3, <2>4, <2>5 DEF ArgsInv
<1>8. CASE Edit \/ UNCHANGED vars
  <2>1. UNCHANGED <<pc, i, advice, posture, args>>
    BY <1>8 DEF Edit, vars, docVars, scanVars
  <2>2. CommandOf(i - 1)' = CommandOf(i - 1) /\ Len(jobs') = Len(jobs)
    BY <1>b, <2>1 DEF CommandOf
  <2> QED
    BY <1>c, <1>d, <2>1, <2>2 DEF ArgsInv
<1> QED
  BY <1>2, <1>3, <1>4, <1>5, <1>6, <1>7, <1>8 DEF Next, Step, Stop

\* The three invariants hold of every start.
LEMMA ArgsInvariance == Spec => [](LoadInv /\ ScanInv /\ ArgsInv)
<1>1. Init => ArgsInv
  <2> SUFFICES ASSUME Init PROVE ArgsInv
    OBVIOUS
  <2>1. PICK g \in Groups : \E input \in Inputs(g) : jobs = input.jobs /\ env = input.env
    BY DEF Init
  <2>2. /\ env \in Environments
        /\ \A j \in Range(jobs) : j.excludes \in Seq(Range(j.excludes))
    BY <2>1, InputAssumption
  <2>3. pc = "open config" /\ posture = "none"
    BY DEF Init
  <2> QED
    BY <2>2, <2>3 DEF ArgsInv
<1>2. LoadInv /\ ScanInv /\ ArgsInv /\ [Next]_vars => ArgsInv'
  BY ArgsStep DEF LoadInv
<1> QED
  BY <1>1, <1>2, ScanInvariance, PTL DEF Spec

\* What is known when a job has been run.
LEMMA RanFacts ==
    ASSUME LoadInv, ScanInv, ArgsInv, Ran
    PROVE  /\ i - 1 \in 1..Len(jobs) /\ Job \in Range(jobs)
           /\ Job.remoteHost \in Seq(STRING) /\ Job.excludes \in Seq(Range(Job.excludes))
           /\ validate(Job) /\ args = buildRsyncArgs(Job, loadTransport(env, posture))
           /\ advice = AllAdvice
           /\ posture = "strict" <=> mount.hosts = "regular"
<1>1. TypeOK /\ Len(jobs) \in Nat /\ i \in Nat \ {0} /\ pc = "run" /\ i > 1
  BY ListType DEF LoadInv, TypeOK, Ran
<1>2. i <= Len(jobs) + 1 /\ args = CommandOf(i - 1) /\ advice = AllAdvice
  BY <1>1 DEF ArgsInv
<1>3. i - 1 \in 1..Len(jobs)
  BY <1>1, <1>2
<1>4. Job \in Range(jobs)
  BY <1>1, <1>3, ListType DEF Job
<1>5. validate(Job)
  BY <1>1, <1>3 DEF LoadInv, CheckInv, Checked, Job
<1>6. Job.remoteHost \in Seq(STRING)
  BY <1>1, <1>4 DEF TypeOK
<1>7. Job.excludes \in Seq(Range(Job.excludes))
  BY <1>4 DEF ArgsInv
<1>8. args = buildRsyncArgs(Job, loadTransport(env, posture))
  BY <1>2 DEF CommandOf, Job
<1>9. posture = "strict" <=> mount.hosts = "regular"
  <2>1. posture # "none" /\ posture \in {"none", "accept-new", "strict"}
    BY <1>1 DEF ScanInv, ArgsInv
  <2>2. /\ posture = "accept-new" => mount.hosts = "absent"
        /\ posture = "strict" => mount.hosts = "regular"
    BY DEF ScanInv
  <2> QED
    BY <2>1, <2>2
<1> QED
  BY <1>2, <1>3, <1>4, <1>5, <1>6, <1>7, <1>8, <1>9

\* One check of warnInertSettings for each kind of advice.
LEMMA Told ==
    ASSUME ArgsInv, i - 1 \in 1..Len(jobs), advice = AllAdvice
    PROVE  /\ <<i - 1, "max_delete">> \in advice <=> Job.maxDelete # Unset /\ ~Job.delete
           /\ <<i - 1, "ids">> \in advice <=> LoneId(Job)
           /\ <<i - 1, "empty exclude">> \in advice <=> \E e \in Range(Job.excludes) : e.empty
           /\ <<i - 1, "padding">> \in advice <=>
                \E e \in Range(Job.excludes) : "pad" \in e.has
<1>1. PICK k : k = i - 1
  OBVIOUS
<1>2. ASSUME NEW w PROVE <<k, w>> \in advice <=> w \in warnInertSettings(Job)
  <2>1. ASSUME NEW l, NEW v, <<k, w>> = <<l, v>> PROVE k = l /\ w = v
    BY <2>1
  <2>2. k \in 1..Len(jobs) /\ Job = jobs[k]
    BY <1>1 DEF Job
  <2> QED
    BY <2>1, <2>2 DEF AllAdvice
<1>3. "max_delete" \in warnInertSettings(Job) <=> Job.maxDelete # Unset /\ ~Job.delete
  BY ZenonT(30) DEF warnInertSettings
<1>4. "ids" \in warnInertSettings(Job) <=> LoneId(Job)
  BY ZenonT(30) DEF warnInertSettings
<1>5. "empty exclude" \in warnInertSettings(Job) <=> \E e \in Range(Job.excludes) : e.empty
  BY ZenonT(30) DEF warnInertSettings
<1>6. "padding" \in warnInertSettings(Job) <=>
        \E e \in Range(Job.excludes) : "pad" \in e.has
  BY ZenonT(30) DEF warnInertSettings
<1> QED
  BY <1>1, <1>2, <1>3, <1>4, <1>5, <1>6

\* Every setting of an accepted document is in force when its job runs or has
\* been reported as inert, and none is in force unasked, whatever the document,
\* the environment and the mounts say.
THEOREM SettingsProved == Spec => []SettingsInForceOrAdvised
<1>1. ASSUME LoadInv, ScanInv, ArgsInv PROVE SettingsInForceOrAdvised
  <2> SUFFICES ASSUME Ran
      PROVE  /\ Given(args, "--delete") <=> Job.delete
             /\ Job.maxDelete # Unset <=>
                  \/ <<i - 1, "max_delete">> \in advice
                  \/ /\ Given(args, "--max-delete")
                     /\ Value(args, "--max-delete") = Job.maxDelete
             /\ Job.uid # Unset \/ Job.gid # Unset <=>
                  \/ <<i - 1, "ids">> \in advice
                  \/ /\ Given(args, "--chown")
                     /\ Value(args, "--chown") = <<Job.uid, Job.gid>>
                     /\ Given(args, "--super")
             /\ (\E e \in Range(Job.excludes) : e.empty) <=>
                  <<i - 1, "empty exclude">> \in advice
             /\ (\E e \in Range(Job.excludes) : "pad" \in e.has) <=>
                  <<i - 1, "padding">> \in advice
             /\ Given(args, "-A") = env.acls /\ Given(args, "-X") = env.xattrs
             /\ Given(args, "-z") <=> env.compress \in {"on", "auto", "zstd"}
             /\ env.compress = "zstd" <=>
                  /\ Given(args, "--compress-choice")
                  /\ Value(args, "--compress-choice") = "zstd"
             /\ Given(args, "--compress-choice") => env.compress = "zstd"
             /\ mount.hosts = "regular" <=>
                  /\ Value(args, "-e").checking = "yes"
                  /\ Value(args, "-e").hostsFile = "pinned"
    BY DEF SettingsInForceOrAdvised
  <2>1. PICK j, tr : j = Job /\ tr = loadTransport(env, posture)
    OBVIOUS
  <2>2. /\ i - 1 \in 1..Len(jobs) /\ j.excludes \in Seq(Range(j.excludes))
        /\ args = buildRsyncArgs(j, tr) /\ advice = AllAdvice
        /\ posture = "strict" <=> mount.hosts = "regular"
    BY <1>1, <2>1, RanFacts
  <2>3. /\ Given(args, "-A") <=> tr.acls
        /\ Given(args, "-X") <=> tr.xattrs
        /\ Given(args, "-z") <=> tr.compress # ""
        /\ Given(args, "--delete") <=> j.delete
        /\ Given(args, "--max-delete") <=> j.delete /\ j.maxDelete # Unset
        /\ Given(args, "--max-delete") => Value(args, "--max-delete") = j.maxDelete
        /\ Given(args, "--chown") <=> j.uid # Unset /\ j.gid # Unset
        /\ Given(args, "--chown") => Value(args, "--chown") = <<j.uid, j.gid>>
        /\ j.uid # Unset /\ j.gid # Unset => Given(args, "--super")
        /\ Given(args, "--compress-choice") <=> tr.compress \notin {"", "auto"}
        /\ Given(args, "--compress-choice") =>
             Value(args, "--compress-choice") = tr.compress
        /\ Value(args, "-e") = sshCommand(j.sshKey, tr.strict).val
    BY <2>2, GivenFlags
  <2>4. /\ <<i - 1, "max_delete">> \in advice <=> j.maxDelete # Unset /\ ~j.delete
        /\ <<i - 1, "ids">> \in advice <=> LoneId(j)
        /\ <<i - 1, "empty exclude">> \in advice <=> \E e \in Range(j.excludes) : e.empty
        /\ <<i - 1, "padding">> \in advice <=> \E e \in Range(j.excludes) : "pad" \in e.has
    BY <1>1, <2>1, <2>2, Told
  <2>5. j.maxDelete # Unset <=>
          \/ <<i - 1, "max_delete">> \in advice
          \/ Given(args, "--max-delete") /\ Value(args, "--max-delete") = j.maxDelete
    BY <2>3, <2>4
  <2>6. j.uid # Unset \/ j.gid # Unset <=>
          \/ <<i - 1, "ids">> \in advice
          \/ /\ Given(args, "--chown") /\ Value(args, "--chown") = <<j.uid, j.gid>>
             /\ Given(args, "--super")
    BY <2>3, <2>4 DEF LoneId
  <2>7. env \in Environments
    BY <1>1 DEF ArgsInv
  <2>8. Given(args, "-A") = env.acls /\ Given(args, "-X") = env.xattrs
    <3>1. tr.acls = env.acls /\ tr.xattrs = env.xattrs
      BY <2>1 DEF loadTransport
    <3>2. env.acls \in BOOLEAN /\ env.xattrs \in BOOLEAN
      BY <2>7 DEF Environments
    <3>3. Given(args, "-A") \in BOOLEAN /\ Given(args, "-X") \in BOOLEAN
      BY DEF Given
    <3> QED
      BY <2>3, <3>1, <3>2, <3>3
  <2>9. /\ Given(args, "-z") <=> env.compress \in {"on", "auto", "zstd"}
        /\ env.compress = "zstd" <=>
             /\ Given(args, "--compress-choice")
             /\ Value(args, "--compress-choice") = "zstd"
        /\ Given(args, "--compress-choice") => env.compress = "zstd"
    <3>1. env.compress \in {"", "off", "unknown", "on", "auto", "zstd"}
      BY <2>7 DEF Environments
    <3>2. tr.compress = IF env.compress \in {"", "off", "unknown"} THEN ""
                        ELSE IF env.compress \in {"on", "auto"} THEN "auto" ELSE env.compress
      BY <2>1 DEF loadTransport
    <3>3. tr.compress # "" <=> env.compress \in {"on", "auto", "zstd"}
      BY <3>1, <3>2
    <3>4. /\ tr.compress \notin {"", "auto"} <=> env.compress = "zstd"
          /\ env.compress = "zstd" => tr.compress = "zstd"
      BY <3>1, <3>2
    <3> QED
      BY <2>3, <3>3, <3>4
  <2>10. mount.hosts = "regular" <=>
           /\ Value(args, "-e").checking = "yes"
           /\ Value(args, "-e").hostsFile = "pinned"
    <3>1. tr.strict <=> posture = "strict"
      BY <2>1 DEF loadTransport
    <3>2. PICK val : val = sshCommand(j.sshKey, tr.strict).val
      OBVIOUS
    <3>3. /\ val.checking = IF tr.strict THEN "yes" ELSE "accept-new"
          /\ val.hostsFile = IF tr.strict THEN "pinned" ELSE "default"
      BY <3>2 DEF sshCommand, Opt
    <3>4. tr.strict <=> val.checking = "yes" /\ val.hostsFile = "pinned"
      BY <3>3
    <3> QED
      BY <2>2, <2>3, <3>1, <3>2, <3>4
  <2>11. /\ Given(args, "--delete") <=> j.delete
         /\ (\E e \in Range(j.excludes) : e.empty) <=> <<i - 1, "empty exclude">> \in advice
         /\ (\E e \in Range(j.excludes) : "pad" \in e.has) <=> <<i - 1, "padding">> \in advice
    BY <2>3, <2>4
  <2> QED
    BY <2>1, <2>5, <2>6, <2>8, <2>9, <2>10, <2>11
<1> QED
  BY <1>1, ArgsInvariance, PTL

\* Every job validation accepts is carried out as it was written: rsync, ssh and
\* the remote side read the same source, key, login, host, path and rules from
\* the command, whatever the document says.
THEOREM CommandProved == Spec => []CommandAsWritten
<1>1. ASSUME LoadInv, ScanInv, ArgsInv PROVE CommandAsWritten
  <2> SUFFICES ASSUME Ran
      PROVE  /\ ReadSource(args[Len(args) - 1].val) = Job.local
             /\ ReadKey(args) = Job.sshKey
             /\ ReadHost(args[Len(args)].val.host) = Meant(Job.remoteHost)
             /\ ReadPath(args[Len(args)].val.path) = Job.remotePath
             /\ RulesAsWritten(ReadFilters(args), Job.excludes)
    BY DEF CommandAsWritten
  <2>1. PICK j, tr : j = Job /\ tr = loadTransport(env, posture)
    OBVIOUS
  <2>2. /\ j.remoteHost \in Seq(STRING) /\ j.excludes \in Seq(Range(j.excludes))
        /\ validate(j) /\ args = buildRsyncArgs(j, tr)
    BY <1>1, <2>1, RanFacts
  <2>3. /\ args[Len(args) - 1] = Opt("source", j.local)
        /\ args[Len(args)] = Opt("dest", remoteDest(j))
    BY <2>2, CommandParts
  <2>4. /\ args[Len(args) - 1].val = j.local
        /\ args[Len(args)].val = remoteDest(j)
    <3>1. Opt("source", j.local).val = j.local /\ Opt("dest", remoteDest(j)).val = remoteDest(j)
      BY DEF Opt
    <3> QED
      BY <2>3, <3>1
  <2>5. /\ j.local.abs /\ validateRemoteHost(j.remoteHost) /\ checkNoForbiddenChars(j)
    BY <2>2 DEF validate
  <2>6. /\ "control" \notin j.local.has /\ "control" \notin j.sshKey.has
        /\ \A e \in Range(j.excludes) : "control" \notin e.has
        /\ j.remotePath.has \cap {"space", "meta", "quote", "glob", "control"} = {}
        /\ j.sshKey.has \cap {"space", "quote", "control"} = {}
    <3>1. \A t \in {j.name, j.local, j.sshKey} \cup Range(j.excludes) : "control" \notin t.has
      BY <2>5 DEF checkNoForbiddenChars, hasControl
    <3>2. /\ "control" \notin j.remotePath.has /\ "meta" \notin j.remotePath.has
          /\ "quote" \notin j.remotePath.has
      BY <2>5 DEF checkNoForbiddenChars, hasShellMeta, hasControl
    <3>3. /\ j.remotePath.has \cap {"space", "glob"} = {}
          /\ j.sshKey.has \cap {"space", "quote"} = {}
      BY <2>5 DEF checkNoForbiddenChars
    <3>4. "control" \notin j.local.has /\ "control" \notin j.sshKey.has
      BY <3>1
    <3>5. \A e \in Range(j.excludes) : "control" \notin e.has
      BY <3>1
    <3> QED
      BY <3>2, <3>3, <3>4, <3>5
  <2>7. ReadSource(args[Len(args) - 1].val) = j.local
    BY <2>4, <2>5, <2>6 DEF ReadSource
  <2>8. ReadKey(args) = j.sshKey
    <3>1. Value(args, "-e") = sshCommand(j.sshKey, tr.strict).val
      BY <2>2, GivenFlags
    <3>2. sshCommand(j.sshKey, tr.strict).val.key = j.sshKey
      BY DEF sshCommand, Opt
    <3>3. Value(args, "-e").key = j.sshKey
      BY <3>1, <3>2
    <3> QED
      BY <2>6, <3>3 DEF ReadKey
  <2>9. ReadHost(args[Len(args)].val.host) = Meant(j.remoteHost)
    <3>1. ReadHost(remoteDest(j).host) = Meant(j.remoteHost)
      BY <2>2, <2>5, HostRead
    <3> QED
      BY <2>4, <3>1
  <2>10. ReadPath(args[Len(args)].val.path) = j.remotePath
    <3>1. remoteDest(j).path = j.remotePath
      BY DEF remoteDest
    <3> QED
      BY <2>4, <2>6, <3>1 DEF ReadPath
  <2>11. RulesAsWritten(ReadFilters(args), j.excludes)
    BY <2>2, <2>6, RulesRead
  <2> QED
    BY <2>1, <2>7, <2>8, <2>9, <2>10, <2>11
<1> QED
  BY <1>1, ArgsInvariance, PTL
================================================================================
