-------------------------------- MODULE Startup --------------------------------
(***************************************************************************)
(* From the mounted files to the first pass: loadConfig reads, parses and    *)
(* validates config.yaml (config.go), adviseConfig reports inert settings,   *)
(* classifyKnownHosts decides the host-key posture (sync.go), and the jobs'  *)
(* commands are built.  The mounts may be anything, and an operator may be   *)
(* writing to them while they are read.                                      *)
(***************************************************************************)
EXTENDS RsyncCommand

CONSTANTS Groups, Inputs(_),  \* groups of inputs: documents with their environment
          Mounts(_),          \* the mounts and editors to go with each group
          configCapBytes,     \* the config's size limit
          MaxBytes,           \* bound: bytes of a config file
          MaxRunes            \* bound: runes of a known_hosts file

ASSUME BoundsAssumption ==
    configCapBytes \in Nat /\ MaxBytes \in Nat /\ MaxRunes \in Nat

Runes == {"newline", "space", "#", "other"}

\* The switches, and what SYNC_COMPRESS asks for; "zstd" stands for any codec.
Environments == [acls: BOOLEAN, xattrs: BOOLEAN,
                 compress: {"", "off", "unknown", "on", "auto", "zstd"}]

\* A document is a list of jobs, a file has a size or a text.
ASSUME InputAssumption ==
    \A g \in Groups :
        /\ \A input \in Inputs(g) :
             /\ input.jobs \in Seq(Range(input.jobs))
             /\ \A j \in Range(input.jobs) : /\ j.remoteHost \in Seq(STRING)
                                             /\ j.excludes \in Seq(Range(j.excludes))
             /\ input.env \in Environments
        /\ \A m \in Mounts(g) : m.size \in Nat /\ m.text \in Seq(Runes)

VARIABLES
    mount,         \* kind of config and of known_hosts, and whether somebody edits
    size,          \* bytes of config.yaml now
    text,          \* runes of known_hosts now
    jobs, env,     \* what config.yaml says, and the environment
    pc,            \* where the start is
    got,           \* bytes of config.yaml read
    atEnd,         \* history: they were all the file had
    i, seen,       \* config.validate's loop and its names
    advice,        \* <<job, field>> that warnInertSettings reported
    pos, inComment, posture,  \* classifyKnownHosts' scan and hostKeyMode
    args           \* the command of the last job run

inputVars == <<mount, jobs, env>>
fileVars  == <<size, text>>
readVars  == <<got, atEnd>>
docVars   == <<i, seen, advice>>
scanVars  == <<pos, inComment, posture>>
vars == <<inputVars, fileVars, pc, readVars, docVars, scanVars, args>>

Init ==
    /\ \E g \in Groups : \E input \in Inputs(g), m \in Mounts(g) :
         /\ jobs = input.jobs /\ env = input.env
         /\ mount = m.mount /\ size = m.size /\ text = m.text
    /\ pc = "open config" /\ got = 0 /\ atEnd = FALSE
    /\ i = 1 /\ seen = {} /\ advice = {} /\ args = <<>>
    /\ pos = 1 /\ inComment = FALSE /\ posture = "none"

-------------------------------------------------------------------------------
\* loadConfig.

OpenConfig ==
    /\ pc = "open config" /\ openRegular(mount.config) # "waits"
    /\ pc' = IF openRegular(mount.config) = "ok" THEN "read config" ELSE "refused"
    /\ UNCHANGED <<inputVars, fileVars, readVars, docVars, scanVars, args>>

\* A reader that stops at the limit itself.
LimitAtCap == configCapBytes

\* io.LimitReader's bound.
Limit == configCapBytes + 1

\* io.ReadAll takes what one read gives, up to the limit.
ReadConfig ==
    /\ pc = "read config"
    /\ \E n \in 1..MaxBytes : got + n <= Limit /\ got + n <= size /\ got' = got + n
    /\ UNCHANGED <<inputVars, fileVars, pc, atEnd, docVars, scanVars, args>>

\* End of file or of the limit: a document over the cap is refused, one within
\* it parses or not.
ConfigEnds ==
    /\ pc = "read config" /\ (got >= size \/ got >= Limit)
    /\ pc' \in IF got > configCapBytes THEN {"refused"} ELSE {"validate", "refused"}
    /\ atEnd' = (got >= size)
    /\ UNCHANGED <<inputVars, fileVars, got, docVars, scanVars, args>>

\* Only the name before is remembered.
RememberLast(name) == {name}

Remember(name) == seen \cup {name}

\* One turn of config.validate; an empty list has none.
Validate ==
    /\ pc = "validate"
    /\ IF i > Len(jobs)
         THEN pc' = (IF jobs = <<>> THEN "refused" ELSE "advise") /\ i' = 1 /\ UNCHANGED seen
         ELSE /\ openRegular(jobs[i].keyFile) # "waits"
              /\ IF jobs[i].name.empty \/ jobs[i].name \in seen \/ ~validate(jobs[i])
                   THEN pc' = "refused" /\ UNCHANGED <<i, seen>>
                   ELSE i' = i + 1 /\ seen' = Remember(jobs[i].name) /\ UNCHANGED pc
    /\ UNCHANGED <<inputVars, fileVars, readVars, advice, scanVars, args>>

adviseConfig ==
    /\ pc = "advise"
    /\ advice' = UNION {{<<k, w>> : w \in warnInertSettings(jobs[k])} : k \in 1..Len(jobs)}
    /\ pc' = "open hosts"
    /\ UNCHANGED <<inputVars, fileVars, readVars, i, seen, scanVars, args>>

-------------------------------------------------------------------------------
\* classifyKnownHosts.

\* Only an absent path means accept-new.
OpenHosts ==
    /\ pc = "open hosts"
    /\ LET open == openRegular(mount.hosts) IN
         /\ open # "waits"
         /\ pc' = IF open = "ok" THEN "scan"
                  ELSE IF open = "not exist" THEN "run" ELSE "refused"
         /\ posture' = IF open = "not exist" THEN "accept-new" ELSE "none"
    /\ UNCHANGED <<inputVars, fileVars, readVars, docVars, pos, inComment, args>>

\* A comment that ends with its first word.
ScanCommentWord(r) ==
    /\ inComment' = (r = "#" \/ (inComment /\ r = "other"))
    /\ IF r = "other" /\ ~inComment THEN pc' = "run" /\ posture' = "strict"
                                    ELSE UNCHANGED <<pc, posture>>

\* The loop body: a comment lasts to the end of its line, the first rune of
\* anything else is an entry.
ScanRune(r) ==
    /\ inComment' = (r # "newline" /\ (inComment \/ r = "#"))
    /\ IF r = "other" /\ ~inComment THEN pc' = "run" /\ posture' = "strict"
                                    ELSE UNCHANGED <<pc, posture>>

classifyKnownHosts ==
    /\ pc = "scan"
    /\ IF pos <= Len(text)
         THEN ScanRune(text[pos]) /\ pos' = pos + 1
         ELSE pc' = "refused" /\ UNCHANGED scanVars
    /\ UNCHANGED <<inputVars, fileVars, readVars, docVars, args>>

\* A read of either file fails.
ReadError ==
    /\ pc \in {"read config", "scan"}
    /\ pc' = "refused"
    /\ UNCHANGED <<inputVars, fileVars, readVars, docVars, scanVars, args>>

-------------------------------------------------------------------------------
\* runPass reaches the next job and runJob builds its command.
RunNext ==
    /\ pc = "run" /\ i <= Len(jobs)
    /\ args' = buildRsyncArgs(jobs[i], loadTransport(env, posture))
    /\ i' = i + 1
    /\ UNCHANGED <<inputVars, fileVars, pc, readVars, seen, advice, scanVars>>

\* The operator writes to the files meanwhile.  MaxRunes bounds what TLC
\* explores of a growing known_hosts; the code has no such limit.
Edit ==
    /\ mount.edited /\ pc \notin {"run", "refused"}
    /\ \/ /\ size' \in IF mount.config = "regular" THEN 0..MaxBytes ELSE {size}
          /\ UNCHANGED text
       \/ /\ mount.hosts = "regular" /\ Len(text) < MaxRunes /\ UNCHANGED size
          /\ \E r \in Runes : text' = Append(text, r)
    /\ UNCHANGED <<inputVars, pc, readVars, docVars, scanVars, args>>

Stop == (pc = "refused" \/ (pc = "run" /\ i > Len(jobs))) /\ UNCHANGED vars

Step == OpenConfig \/ ReadConfig \/ ConfigEnds \/ Validate \/ adviseConfig
        \/ OpenHosts \/ classifyKnownHosts

Next == Step \/ ReadError \/ RunNext \/ Edit \/ Stop

Spec == Init /\ [][Next]_vars /\ WF_vars(Step)

-------------------------------------------------------------------------------
\* Properties.

\* What gets past validation is a whole and valid document: all the bytes the
\* file had when its end was seen, no more of them than the cap, so that no
\* prefix with its last jobs missing runs; and a list in which every job is
\* valid and has a name of its own, wherever an offending one might stand.
WholeDocument ==
    pc \in {"advise", "open hosts", "scan", "run"} =>
        /\ atEnd /\ got <= configCapBytes
        /\ jobs # <<>> /\ \A k \in 1..Len(jobs) : validate(jobs[k])
        /\ Cardinality({jobs[k].name : k \in 1..Len(jobs)}) = Len(jobs)

\* Some line of the text starts, after blanks, with something else than "#".
HasEntry(t) ==
    \E n \in 1..Len(t) :
        t[n] = "other" /\ \A m \in 1..n : t[m] = "#" => \E l \in m..n : t[l] = "newline"

\* The daemon starts strict exactly when known_hosts pins something, and falls
\* back to accept-new only when nothing is mounted: a file without an entry,
\* however its comments and blanks are laid out, refuses the start.
PostureExact ==
    /\ posture = "accept-new" => mount.hosts = "absent"
    /\ posture = "strict" <=> mount.hosts = "regular" /\ HasEntry(SubSeq(text, 1, pos - 1))
    /\ pc = "run" => posture # "none"

\* The start comes to a verdict whatever is mounted: neither a FIFO without a
\* writer nor a config.yaml that keeps growing, shrinking and growing again
\* holds it up.  classifyKnownHosts reads without a cap, so of known_hosts this
\* asks that it does not grow for ever.
PreflightEnds == <>[][FALSE]_text => <>(pc \in {"run", "refused"})

Ran == pc = "run" /\ i > 1

Job == jobs[i - 1]

\* What the operator means by a remote_host.
Meant(raw) ==
    LET h == Cut(raw)[2]
    IN  [user |-> Cut(raw)[1], host |-> IF h[1] = "[" THEN Inner(h) ELSE h]

\* The global rules come first; then there is one for each exclude that is not
\* empty, after those for the ones before it.
RulesAsWritten(rules, excludes) ==
    LET written  == {k \in 1..Len(excludes) : ~excludes[k].empty}
        place(k) == Len(globalExcludes) + Cardinality({l \in written : l <= k})
    IN  /\ Len(rules) = Len(globalExcludes) + Cardinality(written)
        /\ \A k \in 1..Len(globalExcludes) : rules[k] = globalExcludes[k]
        /\ \A k \in written : rules[place(k)] = excludes[k]

\* Every job validation accepts is carried out as it was written: rsync reads
\* back the same source, key, login, host, path and rules from the command.
CommandAsWritten ==
    Ran => LET j == Job IN
        /\ ReadSource(args[Len(args) - 1].val) = j.local
        /\ ReadKey(args) = j.sshKey
        /\ ReadHost(args[Len(args)].val.host) = Meant(j.remoteHost)
        /\ ReadPath(args[Len(args)].val.path) = j.remotePath
        /\ RulesAsWritten(ReadFilters(args), j.excludes)

\* Every setting an accepted document makes is in force when its job runs, or
\* the operator has been told that it is not, and none is in force unasked;
\* ssh checks against known_hosts exactly when that file pins something.
SettingsInForceOrAdvised ==
    Ran => LET j == Job
               on(name)      == Given(args, name)
               is(name, val) == Given(args, name) /\ Value(args, name) = val
               told(w)       == <<i - 1, w>> \in advice
               ssh           == Value(args, "-e")
           IN
        /\ on("--delete") <=> j.delete
        /\ j.maxDelete # Unset <=> told("max_delete") \/ is("--max-delete", j.maxDelete)
        /\ j.uid # Unset \/ j.gid # Unset <=>
             told("ids") \/ (is("--chown", <<j.uid, j.gid>>) /\ on("--super"))
        /\ (\E e \in Range(j.excludes) : e.empty) <=> told("empty exclude")
        /\ (\E e \in Range(j.excludes) : "pad" \in e.has) <=> told("padding")
        /\ on("-A") = env.acls /\ on("-X") = env.xattrs
        /\ on("-z") <=> env.compress \in {"on", "auto", "zstd"}
        /\ env.compress = "zstd" <=> is("--compress-choice", "zstd")
        /\ on("--compress-choice") => env.compress = "zstd"
        /\ mount.hosts = "regular" <=> ssh.checking = "yes" /\ ssh.hostsFile = "pinned"

\* remote_host's contract, from both sides: an optional login, then a name or
\* an address, bare or in brackets; all of it is accepted and nothing else.
HostContract ==
    pc = "validate" /\ i <= Len(jobs) =>
        LET raw  == jobs[i].remoteHost
            Name(h) == /\ h # <<>> /\ h[1] # "-name"
                       /\ Range(h) \subseteq {"name", "-name", "ip4"}
            Host(h) == Name(h) \/ h \in {<<a>> : a \in Addresses}
                       \/ h \in {<<"[", a, "]">> : a \in Addresses}
        IN  validateRemoteHost(raw) <=>
              \/ Host(raw)
              \/ \E n \in 2..Len(raw) - 1 : /\ raw[n] = "@"
                                            /\ Name(SubSeq(raw, 1, n - 1))
                                            /\ Host(SubSeq(raw, n + 1, Len(raw)))
===============================================================================
