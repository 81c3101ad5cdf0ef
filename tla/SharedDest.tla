------------------------------ MODULE SharedDest ------------------------------
(***************************************************************************)
(* The shared-destination advisory of config.go: warnSharedDestinations     *)
(* groups the jobs by host, overlapComponents grows sets of overlapping     *)
(* trees, warnConflictingTree reports the members a deleting job reaches.   *)
(* Two passes over the jobs follow, on remote machines that keep what rsync *)
(* leaves there, to compare the advice with the losses it is about.         *)
(***************************************************************************)
EXTENDS Integers, Sequences, SequencesExt, FiniteSets

CONSTANTS NJobs,      \* jobs of a document
          Hosts,      \* spellings of remote_host, sequences of tokens
          Paths,      \* spellings of remote_path, sequences of segments
          Links,      \* the remotes' symbolic links: directory -> directory
          Documents   \* the documents, functions from jobs to their fields

Unset == -1     \* no max_delete
NoJail == ""    \* a key whose wrapper roots no path

\* A token is "@", "[", "]", ".", a label or an address, with the text it stands
\* for and its form: capitals, an address written out, or IPv4 mapped to IPv6.
Tokens == [kind: {"@", "[", "]", ".", "label", "addr"}, text: STRING,
           form: {"plain", "upper", "long", "mapped"}]

Job == [host: Hosts, path: Paths, del: BOOLEAN, excludes: SUBSET Seq(STRING),
        maxDelete: Nat \cup {Unset}, jail: STRING]

Jobs == 1..NJobs

VARIABLES
    jobs,       \* the document
    pc,         \* where the advisory is, then the passes
    group,      \* the host group being partitioned
    taken,      \* jobs already in a component
    component,  \* the component being grown
    k, grew,    \* overlapComponents' inner loop
    components, \* finished components
    warnings,   \* records warnConflictingTree logged
    runs,       \* jobs run after the advisory, two passes of them
    remote,     \* <<machine, directory, job>>: a file of the job is there
    lost        \* history: <<d, m>>, job d deleted a file of job m

loopVars == <<taken, component, k, grew>>
vars == <<jobs, pc, group, loopVars, components, warnings, runs, remote, lost>>

NoGroup == <<>>

-------------------------------------------------------------------------------
\* Host and path as the advisory compares them.

Ats(raw) == {i \in 1..Len(raw) : raw[i].kind = "@"}

\* strings.Cut: what follows the first "@".
Cut(raw) ==
    IF Ats(raw) = {} THEN raw
    ELSE SubSeq(raw, (CHOOSE i \in Ats(raw) : \A j \in Ats(raw) : i <= j) + 1, Len(raw))

Inner(h) == SubSeq(h, 2, Len(h) - 1)

\* net.ParseIP takes it (external).
ParseIP(h) == Len(h) = 1 /\ h[1].kind = "addr"

\* The login goes, and the brackets of an address.
splitRemoteHost(raw) ==
    LET h == Cut(raw)
    IN  IF Len(h) >= 2 /\ h[1].kind = "[" /\ h[Len(h)].kind = "]" /\ ParseIP(Inner(h))
        THEN Inner(h) ELSE h

\* strings.ToLower; it does not shorten an address.
ToLower(h) ==
    [i \in 1..Len(h) |-> IF h[i].form = "upper" THEN [h[i] EXCEPT !.form = "plain"] ELSE h[i]]

TrimDot(h) == IF h[Len(h)].kind = "." THEN SubSeq(h, 1, Len(h) - 1) ELSE h

HasDot(h) == \E i \in 1..Len(h) : h[i].kind = "."

\* The root dot dropped from every name.
DotlessNameKey(h) == TrimDot(ToLower(h))

\* A root dot is dropped from a name that has another dot, and kept on a single
\* label.
NameKey(h) == IF HasDot(TrimDot(ToLower(h))) THEN TrimDot(ToLower(h)) ELSE ToLower(h)

\* The host as the operator wrote it, login included.
RawHost(raw) == raw

\* Addresses compared by their letters.
UnparsedHost(raw) == NameKey(splitRemoteHost(raw))

\* IP.String has one form for an address.
hostKey(raw) ==
    LET host == splitRemoteHost(raw)
    IN  IF ParseIP(host) THEN <<[host[1] EXCEPT !.form = "plain"]>> ELSE NameKey(host)

\* One segment of a path: a name goes down, ".." up, "" and "." nowhere.
Step(dir, segment) ==
    IF segment \in {"", "."} THEN dir
    ELSE IF segment = ".." THEN Front(dir) ELSE Append(dir, segment)

\* filepath.Clean without its handling of "..".
NamesOnly(p) == SelectSeq(p, LAMBDA s : s \notin {"", ".", ".."})

\* filepath.Clean: it looks at the text alone.
Clean(p) ==
    LET at[n \in 0..Len(p)] == IF n = 0 THEN <<>> ELSE Step(at[n - 1], p[n])
    IN  at[Len(p)]

KeyOf(j) == hostKey(jobs[j].host)

\* pathinside.Root(p).Contains(q)
RootContains(p, q) == IsPrefix(p, q)

Overlaps(a, b) ==
    LET p == Clean(jobs[a].path)
        q == Clean(jobs[b].path)
    IN  RootContains(p, q) \/ RootContains(q, p)

overlapsAny(members, j) == \E m \in members : Overlaps(m, j)

Group(g) == {j \in Jobs : KeyOf(j) = g}

-------------------------------------------------------------------------------
Init ==
    /\ jobs \in Documents
    /\ pc = "group" /\ group = NoGroup
    /\ taken = {} /\ component = {} /\ k = 1 /\ grew = FALSE
    /\ components = {} /\ warnings = {}
    /\ runs = 0 /\ remote = {} /\ lost = {}

\* The next host of warnSharedDestinations; the groups do not interact, so the
\* sorted order of their keys is left open.
NextGroup ==
    /\ pc = "group"
    /\ IF taken = Jobs
         THEN pc' = "mirror" /\ UNCHANGED group
         ELSE pc' = "seed" /\ group' \in {KeyOf(j) : j \in Jobs \ taken}
    /\ UNCHANGED <<jobs, loopVars, components, warnings, runs, remote, lost>>

\* The outer loop of overlapComponents: the first job nobody took.
Seed ==
    /\ pc = "seed"
    /\ LET left == Group(group) \ taken IN
         IF left = {}
           THEN pc' = "group" /\ UNCHANGED loopVars
           ELSE LET i == CHOOSE i \in left : \A j \in left : i <= j IN
                /\ pc' = "sweep"
                /\ component' = {i} /\ taken' = taken \cup {i}
                /\ k' = 1 /\ grew' = FALSE
    /\ UNCHANGED <<jobs, group, components, warnings, runs, remote, lost>>

Joins(j) == j \in Group(group) \ taken /\ overlapsAny(component, j)

\* One turn of the inner loop.
Absorb ==
    /\ pc = "sweep" /\ k <= NJobs
    /\ IF Joins(k)
         THEN /\ component' = component \cup {k} /\ taken' = taken \cup {k}
              /\ grew' = TRUE
         ELSE UNCHANGED <<component, taken, grew>>
    /\ k' = k + 1
    /\ UNCHANGED <<jobs, pc, group, components, warnings, runs, remote, lost>>

\* A single sweep over the group.
SweepOnce == FALSE

\* A sweep that grew the component is repeated; otherwise it is complete.
SweepAgain == grew

SweepEnds ==
    /\ pc = "sweep" /\ k > NJobs
    /\ IF SweepAgain
         THEN k' = 1 /\ grew' = FALSE /\ UNCHANGED <<pc, components>>
         ELSE /\ pc' = "warn" /\ components' = components \cup {component}
              /\ UNCHANGED <<k, grew>>
    /\ UNCHANGED <<jobs, group, taken, component, warnings, runs, remote, lost>>

Deleting(members) == {m \in members : jobs[m].del}

\* The whole component.
AtRiskAll(members) == members

\* Members whose tree overlaps a deleting member's.
AtRisk(members) == {m \in members : overlapsAny(Deleting(members), m)}

\* One record per component of two or more jobs with a deleting one.  Its text
\* counts its members and spells out the outermost three.
warnConflictingTree ==
    /\ pc = "warn"
    /\ warnings' = IF Cardinality(component) < 2 \/ Deleting(component) = {}
                     THEN warnings
                     ELSE warnings \cup {[members  |-> AtRisk(component),
                                          deleting |-> Deleting(component)]}
    /\ pc' = "seed"
    /\ UNCHANGED <<jobs, group, loopVars, components, runs, remote, lost>>

-------------------------------------------------------------------------------
\* rsync and the remote machines (external).

\* A login ends at the last "@".
AfterLogin(raw) ==
    IF Ats(raw) = {} THEN raw
    ELSE SubSeq(raw, (CHOOSE i \in Ats(raw) : \A j \in Ats(raw) : j <= i) + 1, Len(raw))

\* The host ssh connects to, without brackets.
Reached(raw) ==
    LET h == AfterLogin(raw)
    IN  IF h[1].kind = "[" THEN SubSeq(h, 2, Len(h) - 1) ELSE h

\* The machine: an address is what it stands for; a name is its labels, letter
\* case apart, and goes through the search list when it has no dot at all.
Resolve(raw) ==
    LET h == Reached(raw)
        labels == {i \in 1..Len(h) : h[i].kind = "label"}
    IN  [addr   |-> IF h[1].kind = "addr" THEN h[1].text ELSE "",
         labels |-> [i \in labels |-> h[i].text],
         search |-> h[1].kind = "label" /\ Len(h) = 1]

Machine(j) == Resolve(jobs[j].host)

\* The directories the kernel walks through, following links.
Trail(p) ==
    LET at[n \in 0..Len(p)] ==
          IF n = 0 THEN <<>>
          ELSE LET d == Step(at[n - 1], p[n])
               IN  IF d \in DOMAIN Links THEN Links[d] ELSE d
    IN  at

Walk(p) == Trail(p)[Len(p)]

\* The directories of the model: those the paths lead to, in and out of a jail.
Jails == {doc[j].jail : doc \in Documents, j \in Jobs} \ {NoJail}

Walked == {Walk(p) : p \in Paths}

Dirs == Walked \cup UNION {{<<r>> \o d : d \in Walked} : r \in Jails}

\* Where the job's tree really is: its key's wrapper may root the path.
Place(j) ==
    IF jobs[j].jail = NoJail THEN Walk(jobs[j].path)
    ELSE <<jobs[j].jail>> \o Walk(jobs[j].path)

Below(j) == {d \in Dirs : IsPrefix(Place(j), d)}

\* Directories the job's excludes keep rsync out of.
Excluded(j) == {d \in Below(j) : \E e \in jobs[j].excludes : IsPrefix(e, d)}

\* Files of others that --delete finds in the tree.
Doomed(j) ==
    {f \in remote : /\ jobs[j].del /\ f[3] # j /\ f[1] = Machine(j)
                    /\ f[2] \in Below(j) \ Excluded(j)}

\* What it removes: all of them, or as many as --max-delete allows.
Deletions(j) ==
    IF jobs[j].maxDelete = Unset \/ Cardinality(Doomed(j)) <= jobs[j].maxDelete
    THEN {Doomed(j)}
    ELSE {gone \in {Range(f) : f \in [1..jobs[j].maxDelete -> Doomed(j)]} :
             Cardinality(gone) = jobs[j].maxDelete}

\* The next job of the pass puts its files wherever its tree may have some, and
\* with --delete removes others.
Mirror ==
    /\ pc = "mirror" /\ runs < 2 * NJobs
    /\ LET j == (runs % NJobs) + 1 IN
         \E gone \in Deletions(j) :
            /\ remote' = (remote \ gone)
                         \cup {<<Machine(j), d, j>> : d \in Below(j) \ Excluded(j)}
            /\ lost' = lost \cup {<<j, f[3]>> : f \in gone}
    /\ runs' = runs + 1
    /\ UNCHANGED <<jobs, pc, group, loopVars, components, warnings>>

\* The documents are validated ones: a host is an address, in brackets or not,
\* or a name that starts with a label, and only a login is followed by "@".  Two
\* dots in a row are a name no resolver takes.  Beyond what the code checks:
\* no remote_path crosses a symbolic link, and none leads into a directory that
\* another job's key is rooted in.
ValidHost(raw) ==
    LET s == splitRemoteHost(raw) IN
    /\ raw \in Seq(Tokens) /\ \A i, j \in Ats(raw) : i = j
    /\ \/ ParseIP(s)
       \/ /\ s # <<>>
          /\ \A i \in 1..Len(s) :
               /\ s[i].kind = IF i % 2 = 1 THEN "label" ELSE "."
               /\ s[i].form \in {"plain", "upper"}
               /\ i % 2 = 0 => s[i].text = "."

ASSUME DocumentAssumption ==
    /\ NJobs \in Nat \ {0}
    /\ \A h \in Hosts : ValidHost(h)
    /\ \A p \in Paths :
         /\ p \in Seq(STRING)
         /\ \A n \in 1..Len(p) : Step(Trail(p)[n - 1], p[n]) \notin DOMAIN Links
         /\ \A n \in 1..Len(Walk(p)) : Walk(p)[n] \notin Jails
    /\ \A doc \in Documents : doc \in [Jobs -> Job]

Done == /\ pc = "mirror" /\ runs = 2 * NJobs
        /\ pc' = "done"
        /\ UNCHANGED <<jobs, group, loopVars, components, warnings, runs, remote,
                       lost>>

Stop == pc = "done" /\ UNCHANGED vars

Next == NextGroup \/ Seed \/ Absorb \/ SweepEnds \/ warnConflictingTree \/ Mirror
        \/ Done \/ Stop

Spec == Init /\ [][Next]_vars

-------------------------------------------------------------------------------
\* Properties.

\* No way to split the set leaves its parts apart.
Connected(C) ==
    \A S \in SUBSET C : S # {} /\ S # C =>
        \E a \in S, b \in C \ S : KeyOf(a) = KeyOf(b) /\ Overlaps(a, b)

\* Nothing outside the set touches it.
Closed(C) ==
    \A a \in C, b \in Jobs \ C : ~(KeyOf(a) = KeyOf(b) /\ Overlaps(a, b))

\* overlapComponents returns the connected components of "equal or nested" on
\* one host, in whatever order the jobs are listed: each one hangs together,
\* nothing outside belongs to it, and no job is left out.
ComponentsExact ==
    /\ \A C \in components : Connected(C) /\ Closed(C)
    /\ \A C, D \in components : C # D => C \cap D = {}
    /\ pc = "mirror" => UNION components = Jobs

\* Whenever a job deletes what another one put on the remote, one record of the
\* advisory is about both of them, and counts the first as deleting.
LossIsAdvised ==
    \A p \in lost : \E w \in warnings :
        p[1] \in w.deleting /\ {p[1], p[2]} \subseteq w.members

\* A job nothing of its own or of its key keeps from mirroring its whole tree.
Unprotected(j) ==
    jobs[j].excludes = {} /\ jobs[j].maxDelete = Unset /\ jobs[j].jail = NoJail

\* The advisory says "may delete": excludes, max_delete or a rooted key can keep a
\* set safe, and it does not look.  Where no member has any of these it is right:
\* once the jobs have run twice, every member of the record has lost files to, or
\* taken them from, another member.
AdvisedAreAffected ==
    pc = "done" =>
        \A w \in warnings :
            (\A m \in w.members : Unprotected(m)) =>
                \A m \in w.members :
                    \E o \in w.members \ {m} : <<m, o>> \in lost \/ <<o, m>> \in lost
===============================================================================
