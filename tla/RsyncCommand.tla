----------------------------- MODULE RsyncCommand -----------------------------
(***************************************************************************)
(* From a job of config.yaml to the command rsync runs, as functions:        *)
(* job.validate and its helpers, the inert-setting advice, loadTransport,    *)
(* remoteDest (config.go), sshCommand and buildRsyncArgs (sync.go); then how *)
(* rsync, ssh and the remote side read that command.  Startup runs them.     *)
(*                                                                           *)
(* A text is the kinds of character it holds; a remote_host is a sequence of *)
(* tokens, an address being one token.                                       *)
(***************************************************************************)
EXTENDS Integers, Sequences, SequencesExt, FiniteSets

CONSTANTS MaxUint32  \* the largest id

ASSUME IdAssumption == MaxUint32 \in Nat

Unset == -1  \* a setting the document leaves out

-------------------------------------------------------------------------------
\* Validation.

\* An open without O_NONBLOCK waits for a FIFO's writer.
OpenBlocking(kind) == IF kind = "fifo" THEN "waits"
                      ELSE IF kind = "regular" THEN "ok"
                      ELSE IF kind = "absent" THEN "not exist" ELSE "error"

\* A FIFO, a device or a directory opens at once and is refused by its mode.
openRegular(kind) == IF kind = "regular" THEN "ok"
                     ELSE IF kind = "absent" THEN "not exist" ELSE "error"

checkReadable(kind) == openRegular(kind) = "ok"

hasControl(t) == "control" \in t.has

hasShellMeta(t) == hasControl(t) \/ t.has \cap {"meta", "quote"} # {}

Addresses == {"ip4", "ip6"}

\* net.ParseIP (external)
ParseIP(h) == Len(h) = 1 /\ h[1] \in Addresses

Cut(h) == LET at == SelectInSeq(h, LAMBDA t : t = "@")
          IN  IF at = 0 THEN <<<<>>, h>>
              ELSE <<SubSeq(h, 1, at - 1), SubSeq(h, at + 1, Len(h))>>

Bracketed(h) == Len(h) >= 2 /\ h[1] = "[" /\ h[Len(h)] = "]"

Inner(h) == SubSeq(h, 2, Len(h) - 1)

\* Brackets go only when an address is inside.
splitRemoteHost(raw) ==
    LET u == Cut(raw)[1]
        h == Cut(raw)[2]
    IN  [user |-> u, host |-> IF Bracketed(h) /\ ParseIP(Inner(h)) THEN Inner(h) ELSE h]

\* A class that takes colons for part of a name.
NameOrColons(h) == h # <<>> /\ h[1] \in {"name", "ip4", "ip6"}
                   /\ Range(h) \subseteq {"name", "-name", "ip4", "ip6", ":"}

\* userRE and hostnameRE: one class, starting with a letter or a digit.
hostnameRE(h) == h # <<>> /\ h[1] \in {"name", "ip4"}
                 /\ Range(h) \subseteq {"name", "-name", "ip4"}

validateRemoteHost(raw) ==
    LET s == splitRemoteHost(raw)
    IN  /\ "@" \in Range(raw) => hostnameRE(s.user)
        /\ ParseIP(s.host) \/ hostnameRE(s.host)

checkNoForbiddenChars(j) ==
    /\ ~hasShellMeta(j.remotePath)
    /\ \A t \in {j.name, j.local, j.sshKey} \cup Range(j.excludes) : ~hasControl(t)
    /\ j.remotePath.has \cap {"space", "glob"} = {}
    /\ j.sshKey.has \cap {"space", "quote"} = {}

checkOwnership(j) == j.uid # MaxUint32 /\ j.gid # MaxUint32

validate(j) ==
    /\ <<>> # j.remoteHost
    /\ \A t \in {j.local, j.remotePath, j.sshKey} : ~t.empty
    /\ j.local.abs /\ j.remotePath.abs
    /\ validateRemoteHost(j.remoteHost)
    /\ checkNoForbiddenChars(j)
    /\ checkReadable(j.keyFile)
    /\ j.maxDelete = Unset \/ j.maxDelete >= 0
    /\ checkOwnership(j)

-------------------------------------------------------------------------------
\* Advice and command.

\* A check that wants both ids to be missing.
NoId(j) == j.uid = Unset /\ j.gid = Unset

LoneId(j) == (j.uid = Unset) # (j.gid = Unset)

warnInertSettings(j) ==
    (IF j.maxDelete # Unset /\ ~j.delete THEN {"max_delete"} ELSE {})
    \cup (IF LoneId(j) THEN {"ids"} ELSE {})
    \cup (IF \E e \in Range(j.excludes) : e.empty THEN {"empty exclude"} ELSE {})
    \cup (IF \E e \in Range(j.excludes) : "pad" \in e.has THEN {"padding"} ELSE {})

\* An unknown word leaves compression off, an affirmative one leaves the
\* choice to rsync.
loadTransport(env, hostKeys) ==
    [acls |-> env.acls, xattrs |-> env.xattrs, strict |-> hostKeys = "strict",
     compress |-> IF env.compress \in {"", "off", "unknown"} THEN ""
                  ELSE IF env.compress \in {"on", "auto"} THEN "auto" ELSE env.compress]

Opt(name, val) == [name |-> name, val |-> val]

When(cond, options) == IF cond THEN options ELSE <<>>

\* The strict form names the pinned file.
sshCommand(key, strict) ==
    Opt("-e", [key |-> key, checking |-> IF strict THEN "yes" ELSE "accept-new",
               hostsFile |-> IF strict THEN "pinned" ELSE "default"])

\* Brackets left off.
Bare(h) == h

\* A host with a colon in it is an address and gets its brackets back.
Rebracketed(h) == IF Range(h) \cap {"ip6", ":"} # {} THEN <<"[">> \o h \o <<"]">> ELSE h

remoteDest(j) ==
    LET s == splitRemoteHost(j.remoteHost)
    IN  [host |-> When(s.user # <<>>, s.user \o <<"@">>) \o Rebracketed(s.host) \o <<":">>,
         path |-> j.remotePath]

globalExcludes == <<[pattern |-> "global", has |-> {}, empty |-> FALSE]>>

\* --exclude, which reads a prefix in the value.
AsExclude(e) == Opt("--exclude", e)

AsFilter(e) == Opt("--filter=-", e)

\* The elements of s at the positions in P, in order.
ElementsAt(s, P) ==
    LET taken[n \in 0..Len(s)] ==
          IF n = 0 THEN <<>>
          ELSE IF n \in P THEN Append(taken[n - 1], s[n]) ELSE taken[n - 1]
    IN  taken[Len(s)]

Rules(patterns) == [k \in 1..Len(patterns) |-> AsFilter(patterns[k])]

Flags(j, tr) ==
    <<Opt("-rlptD", "")>>
    \o When(tr.acls, <<Opt("-A", "")>>)
    \o When(tr.xattrs, <<Opt("-X", "")>>)
    \o When(tr.compress # "", <<Opt("-z", "")>>)
    \o When(tr.compress \notin {"", "auto"}, <<Opt("--compress-choice", tr.compress)>>)
    \o When(j.delete, <<Opt("--delete", "")>>)
    \o When(j.delete /\ j.maxDelete # Unset, <<Opt("--max-delete", j.maxDelete)>>)
    \o When(j.uid # Unset /\ j.gid # Unset,
            <<Opt("--chown", <<j.uid, j.gid>>), Opt("--super", "")>>)
    \o <<Opt("--stats", ""), sshCommand(j.sshKey, tr.strict)>>

\* An empty pattern makes no rule.
buildRsyncArgs(j, tr) ==
    Flags(j, tr)
    \o Rules(globalExcludes)
    \o Rules(ElementsAt(j.excludes, {k \in 1..Len(j.excludes) : ~j.excludes[k].empty}))
    \o <<Opt("--", ""), Opt("source", j.local), Opt("dest", remoteDest(j))>>

-------------------------------------------------------------------------------
\* How rsync reads its command (external).  Misread stands for an error, another
\* tree, another host or another protocol: all that nobody asked for.

Misread == [misread |-> TRUE]

Options(args) == SubSeq(args, 1, SelectInSeq(args, LAMBDA a : a.name = "--") - 1)

Given(args, name) == \E a \in Range(Options(args)) : a.name = name

Value(args, name) == (CHOOSE a \in Range(Options(args)) : a.name = name).val

\* -e is split at spaces and quotes; the key's path is one word of it.
ReadKey(args) ==
    IF Value(args, "-e").key.has \cap {"space", "quote", "control"} # {}
    THEN Misread ELSE Value(args, "-e").key

\* A host part ends at the first colon outside brackets; a second colon asks
\* for an rsync daemon; ssh takes a leading dash for an option.
ReadHost(dest) ==
    LET u == Cut(dest)[1]
        h == Cut(dest)[2]
        close == SelectInSeq(h, LAMBDA t : t = "]")
        colon == SelectInSeq(h, LAMBDA t : t \in {":", "ip6"})
    IN  IF h[1] = "[" THEN IF close = Len(h) - 1 THEN [user |-> u, host |-> SubSeq(h, 2, close - 1)]
                           ELSE Misread
        ELSE IF colon # Len(h) \/ h[1] = "-name" \/ colon = 1 THEN Misread
        ELSE [user |-> u, host |-> SubSeq(h, 1, colon - 1)]

\* The remote shell and rsync's receiver both see the path.
ReadPath(p) ==
    IF p.has \cap {"space", "meta", "quote", "glob", "control"} # {} THEN Misread ELSE p

\* A source that does not start with a slash may be an option or a host.
ReadSource(s) == IF ~s.abs \/ "control" \in s.has THEN Misread ELSE s

\* One rule: --filter takes the pattern as it is, --exclude reads a prefix.
ReadRule(a) ==
    IF a.val.empty \/ "control" \in a.val.has
       \/ (a.name = "--exclude" /\ a.val.pattern \in {"!", "- p", "+ p"})
    THEN Misread ELSE a.val

IsRule(a) == a.name \in {"--filter=-", "--exclude"}

ReadFilters(args) ==
    LET given == Options(args)
        rules == ElementsAt(given, {k \in 1..Len(given) : IsRule(given[k])})
    IN  [k \in 1..Len(rules) |-> ReadRule(rules[k])]
===============================================================================
