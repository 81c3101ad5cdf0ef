------------------------------ MODULE SourceGuard ------------------------------
(***************************************************************************)
(* The empty-source guard (sync.go, sourceIsEmpty, and its use in runJob)   *)
(* in front of an rsync that deletes, pass after pass, on a source that is  *)
(* filled, emptied, unmounted and mounted at any time: while the guard      *)
(* reads the directory batch by batch, between its answer and rsync's own   *)
(* listing, and after that.                                                 *)
(***************************************************************************)
EXTENDS Integers, FiniteSets

CONSTANTS Entries,        \* names worth mirroring
          globalExcludes, \* names no job mirrors
          Batch           \* names one Readdirnames returns at most

ASSUME GuardAssumption ==
    Batch \in Nat \ {0} /\ Entries \cap globalExcludes = {} /\ IsFiniteSet(Entries)

Unset   == -1
Missing == {"missing"}

VARIABLES
    job,      \* delete, max_delete and the entries its excludes match
    source,   \* names in the folder, or Missing
    remote,   \* entries on the receiver
    pc,       \* where runJob is
    unread,   \* names the directory has yet to return
    listed,   \* entries rsync found in the source
    lasting,  \* history: entries there ever since the guard began to read
    moved     \* history: the source changed since then

vars == <<job, source, remote, pc, unread, listed, lasting, moved>>

Present == source \cap Entries

Init ==
    /\ job \in [delete: BOOLEAN, maxDelete: {Unset, 0, 1}, excludes: SUBSET Entries]
    /\ source \in (SUBSET (Entries \cup globalExcludes)) \cup {Missing}
    /\ remote \in SUBSET Entries
    /\ pc = "open" /\ unread = {} /\ listed = {} /\ lasting = {} /\ moved = FALSE

-------------------------------------------------------------------------------
\* runJob: a source that cannot be opened fails the job.
Open ==
    /\ pc = "open"
    /\ IF source = Missing
         THEN pc' = "failed" /\ UNCHANGED <<unread, lasting>>
         ELSE pc' = "read" /\ unread' = source /\ lasting' = Present
    /\ moved' = FALSE
    /\ UNCHANGED <<job, source, remote, listed>>

AnyName(names) == names # {}

\* One of the names is not globally excluded.
Mirrorable(names) == names \ globalExcludes # {}

\* A guard that looks at the first batch only.
AfterOneBatch(names) == IF Mirrorable(names) THEN "list" ELSE "skipped"

AfterBatch(names) == IF Mirrorable(names) THEN "list" ELSE "read"

\* One turn of sourceIsEmpty's loop: the first mirrorable name ends it.
ReadBatch ==
    /\ pc = "read" /\ unread # {}
    /\ \E names \in SUBSET unread :
         /\ names # {} /\ Cardinality(names) <= Batch
         /\ pc' = AfterBatch(names)
         /\ unread' = unread \ names
    /\ UNCHANGED <<job, source, remote, listed, lasting, moved>>

\* End of the directory, or an error.
ReadEnds ==
    /\ pc = "read"
    /\ (unread = {} /\ pc' = "skipped") \/ pc' = "failed"
    /\ UNCHANGED <<job, source, remote, unread, listed, lasting, moved>>

\* rsync (external) lists the source; a missing one is exit 23.
List ==
    /\ pc = "list"
    /\ pc' = IF source = Missing THEN "failed" ELSE "transfer"
    /\ listed' = Present
    /\ UNCHANGED <<job, source, remote, unread, lasting, moved>>

\* --max-delete on every job that has one, --delete or not, and nothing else.
CapWithoutDelete == job.maxDelete

\* buildRsyncArgs: how many deletions the command allows.
Allowed == IF ~job.delete THEN 0
           ELSE IF job.maxDelete = Unset THEN Cardinality(remote) ELSE job.maxDelete

\* It sends what it listed and deletes what is neither listed nor excluded, as
\* far as it may; a capped deletion is exit 25.
Transfer ==
    /\ pc = "transfer"
    /\ LET flist  == listed \ job.excludes
           doomed == remote \ (flist \cup job.excludes) IN
       \E gone \in SUBSET doomed :
         /\ Cardinality(gone) <= Allowed
         /\ gone # doomed => Cardinality(gone) = Allowed
         /\ remote' = (remote \ gone) \cup flist
         /\ pc' = IF job.delete /\ gone # doomed THEN "failed" ELSE "success"
    /\ UNCHANGED <<job, source, unread, listed, lasting, moved>>

NextPass ==
    /\ pc \in {"success", "skipped", "failed"}
    /\ pc' = "open" /\ unread' = {} /\ listed' = {} /\ lasting' = {}
    /\ UNCHANGED <<job, source, remote, moved>>

\* Files come and go, the folder too.  The directory being read returns what
\* came or went, or does not.
Change ==
    /\ source' \in (SUBSET (Entries \cup globalExcludes)) \cup {Missing}
    /\ unread' \in IF pc # "read" THEN {unread}
                  ELSE {unread, unread \cap source', unread \cup (source' \ Missing)}
    /\ lasting' = lasting \cap source'
    /\ moved' = (moved \/ pc \in {"read", "list"})
    /\ UNCHANGED <<job, remote, pc, listed>>

Next == Open \/ ReadBatch \/ ReadEnds \/ List \/ Transfer \/ NextPass \/ Change

Spec == Init /\ [][Next]_vars

-------------------------------------------------------------------------------
\* Properties.

\* A job is skipped only if nothing worth mirroring was there all the time its
\* guard was reading, however many excluded names came first.
SkipMeansEmpty == pc = "skipped" => lasting = {}

\* A pass takes the last entry from the receiver only if the job deletes and its
\* cap allows that many, and only in two ways: the job's own excludes match all
\* that the source has, or the source changed between the guard's first look
\* and rsync's.  An empty, junk-only or missing source alone never does it.
WipeExplained ==
    [][remote # {} /\ remote' = {} =>
         /\ job.delete
         /\ job.maxDelete = Unset \/ Cardinality(remote) <= job.maxDelete
         /\ moved \/ (listed # {} /\ listed \subseteq job.excludes)]_vars
===============================================================================
