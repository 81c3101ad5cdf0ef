--------------------------- MODULE SourceGuardProofs ---------------------------
(***************************************************************************)
(* What the empty-source guard keeps an rsync that deletes from doing, for  *)
(* every set of names, every exclude list and every batch size.             *)
(***************************************************************************)
EXTENDS SourceGuard, FiniteSetTheorems, TLAPS

Names == Entries \cup globalExcludes

TypeOK ==
    /\ job \in [delete: BOOLEAN, maxDelete: {Unset, 0, 1}, excludes: SUBSET Entries]
    /\ source \in (SUBSET Names) \cup {Missing}
    /\ remote \in SUBSET Entries /\ listed \in SUBSET Entries
    /\ lasting \in SUBSET Entries /\ moved \in BOOLEAN
    /\ pc \in {"open", "read", "list", "transfer", "success", "skipped", "failed"}

\* The guard has yet to meet every entry that was there all along.
ReadInv ==
    /\ pc = "read" => lasting \subseteq unread
    /\ SkipMeansEmpty

\* As long as nobody touched the source, what the guard reads is what it holds,
\* the entry that let the job through is still there, and rsync found it.
StillInv ==
    ~moved => /\ pc = "read" => source \in SUBSET Names /\ unread \subseteq source
              /\ pc = "list" => Present # {}
              /\ pc = "transfer" => listed # {}

IInv == TypeOK /\ ReadInv /\ StillInv

\* The guard and rsync are right about the source at every step.
LEMMA IInvStep == IInv /\ [Next]_vars => IInv'
<1> SUFFICES ASSUME IInv, [Next]_vars PROVE IInv'
  OBVIOUS
<1> USE DEF IInv, TypeOK, ReadInv, StillInv, SkipMeansEmpty, Present, Names
<1>1. CASE Open
  <2>1. CASE source = Missing
    BY <1>1, <2>1 DEF Open
  <2>2. CASE source # Missing
    <3>1. /\ pc' = "read" /\ unread' = source /\ lasting' = source \cap Entries
          /\ moved' = FALSE /\ UNCHANGED <<job, source, remote, listed>>
      BY <1>1, <2>2 DEF Open
    <3>2. source \in SUBSET Names
      BY <2>2
    <3>3. TypeOK'
      BY <3>1
    <3>4. ReadInv' /\ StillInv'
      BY <3>1, <3>2
    <3> QED
      BY <3>3, <3>4
  <2> QED
    BY <2>1, <2>2
<1>2. CASE ReadBatch
  <2>1. PICK names \in SUBSET unread :
             pc' = AfterBatch(names) /\ unread' = unread \ names
    BY <1>2 DEF ReadBatch
  <2>2. pc = "read" /\ UNCHANGED <<job, source, remote, listed, lasting, moved>>
    BY <1>2 DEF ReadBatch
  <2>3. CASE Mirrorable(names)
    <3>1. pc' = "list"
      BY <2>1, <2>3 DEF AfterBatch
    <3>2. ASSUME ~moved PROVE Present # {}
      <4>1. PICK n \in names : n \notin globalExcludes
        BY <2>3 DEF Mirrorable
      <4>2. n \in source /\ source \in SUBSET Names
        BY <2>1, <2>2, <3>2, <4>1
      <4> QED
        BY <4>1, <4>2
    <3> QED
      BY <2>2, <3>1, <3>2
  <2>4. CASE ~Mirrorable(names)
    <3>1. pc' = "read" /\ names \subseteq globalExcludes
      BY <2>1, <2>4 DEF AfterBatch, Mirrorable
    <3>2. lasting \subseteq unread'
      BY <2>1, <2>2, <3>1, GuardAssumption
    <3> QED
      BY <2>1, <2>2, <3>1, <3>2
  <2> QED
    BY <2>3, <2>4
<1>3. CASE ReadEnds
  BY <1>3 DEF ReadEnds
<1>4. CASE List
  BY <1>4 DEF List
<1>5. CASE Transfer
  <2>1. /\ pc = "transfer" /\ pc' \in {"failed", "success"}
        /\ remote' \in SUBSET Entries
        /\ UNCHANGED <<job, source, unread, listed, lasting, moved>>
    BY <1>5 DEF Transfer
  <2> QED
    BY <2>1
<1>6. CASE NextPass
  BY <1>6 DEF NextPass
<1>7. CASE Change
  <2>1. /\ source' \in (SUBSET Names) \cup {Missing}
        /\ lasting' = lasting \cap source'
        /\ UNCHANGED <<job, remote, pc, listed>>
        /\ moved' = (moved \/ pc \in {"read", "list"})
    BY <1>7 DEF Change
  <2>2. pc = "read" => \/ unread' = unread \/ unread' = unread \cap source'
                       \/ unread' = unread \cup (source' \ Missing)
    BY <1>7 DEF Change
  <2>3. pc = "read" => lasting' \subseteq unread'
    BY <2>1, <2>2
  <2> QED
    BY <2>1, <2>3
<1>8. CASE UNCHANGED vars
  BY <1>8 DEF vars
<1> QED
  BY <1>1, <1>2, <1>3, <1>4, <1>5, <1>6, <1>7, <1>8 DEF Next

\* IInv is inductive.
LEMMA Invariance == Spec => []IInv
<1>1. Init => IInv
  BY DEF Init, IInv, TypeOK, ReadInv, StillInv, SkipMeansEmpty, Names
<1> QED
  BY <1>1, IInvStep, PTL DEF Spec

\* runJob skips a job as empty only if no mirrorable entry was in the folder all
\* the time sourceIsEmpty was reading it, batch by batch.
THEOREM SkipProved == Spec => []SkipMeansEmpty
<1>1. IInv => SkipMeansEmpty
  BY DEF IInv, ReadInv
<1> QED
  BY <1>1, Invariance, PTL

\* The receiver loses its last entry only to a job that deletes, within its cap,
\* and only because the job's own excludes match all there is or because the
\* source changed after the guard began to look.
THEOREM WipeProved == Spec => WipeExplained
<1>1. IInv /\ [Next]_vars =>
        [remote # {} /\ remote' = {} =>
           /\ job.delete
           /\ job.maxDelete = Unset \/ Cardinality(remote) <= job.maxDelete
           /\ moved \/ (listed # {} /\ listed \subseteq job.excludes)]_vars
  <2> SUFFICES ASSUME IInv, [Next]_vars, remote # {}, remote' = {}
               PROVE  /\ job.delete
                      /\ job.maxDelete = Unset \/ Cardinality(remote) <= job.maxDelete
                      /\ moved \/ (listed # {} /\ listed \subseteq job.excludes)
    OBVIOUS
  <2>1. Transfer
    BY DEF Next, Open, ReadBatch, ReadEnds, List, NextPass, Change, vars
  <2>2. PICK gone \in SUBSET (remote \ ((listed \ job.excludes) \cup job.excludes)) :
             /\ Cardinality(gone) <= Allowed
             /\ remote' = (remote \ gone) \cup (listed \ job.excludes)
    BY <2>1 DEF Transfer
  <2>3. gone = remote /\ listed \subseteq job.excludes
    BY <2>2
  <2>4. IsFiniteSet(remote)
    BY GuardAssumption, FS_Subset DEF IInv, TypeOK
  <2>5. Cardinality(remote) \in Nat /\ Cardinality(remote) # 0
    BY <2>4, FS_CardinalityType, FS_EmptySet
  <2>6. Cardinality(remote) <= Allowed
    BY <2>2, <2>3
  <2>7. job.delete \in BOOLEAN /\ job.maxDelete \in {Unset, 0, 1}
    BY DEF IInv, TypeOK
  <2>8. job.delete
    BY <2>5, <2>6, <2>7 DEF Allowed
  <2>9. job.maxDelete = Unset \/ Cardinality(remote) <= job.maxDelete
    BY <2>6, <2>7, <2>8 DEF Allowed
  <2>10. moved \/ listed # {}
    BY <2>1 DEF Transfer, IInv, StillInv
  <2> QED
    BY <2>3, <2>8, <2>9, <2>10
<1> QED
  BY <1>1, Invariance, PTL DEF Spec, WipeExplained
===============================================================================
