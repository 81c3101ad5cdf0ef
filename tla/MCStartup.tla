------------------------------- MODULE MCStartup -------------------------------
(* TLC instance of Startup.  Documents of one job vary one group of fields at  *)
(* a time: every remote_host of up to four tokens, and of up to three after a  *)
(* login; every mixture of character kinds; every combination of settings;     *)
(* every list of two excludes.  Documents of up to three jobs vary the names   *)
(* and which job is invalid.  The last group varies the mounts, under a plain  *)
(* job: every kind of file, every size around the cap, every short             *)
(* known_hosts, with an operator who writes to them.                           *)
EXTENDS Startup

Kinds == {"absent", "denied", "fifo", "directory", "regular"}

Text(kinds) == [empty |-> FALSE, abs |-> TRUE, has |-> kinds]

Name(n) == [empty |-> n = "", has |-> {}, name |-> n]

Base == [name |-> Name("a"), local |-> Text({}), remoteHost |-> <<"name">>,
         remotePath |-> Text({}), sshKey |-> Text({}), keyFile |-> "regular",
         excludes |-> <<>>, delete |-> TRUE, maxDelete |-> Unset,
         uid |-> Unset, gid |-> Unset]

BaseEnv == [acls |-> FALSE, xattrs |-> FALSE, compress |-> ""]

Tokens == {"name", "-name", "ip4", "ip6", "@", "[", "]", ":"}

SeqsUpTo(S, n) == UNION {[1..m -> S] : m \in 0..n}

BareHosts == {[Base EXCEPT !.remoteHost = h] : h \in SeqsUpTo(Tokens, 4)}

LoginHosts == {[Base EXCEPT !.remoteHost = <<l, "@">> \o h] :
                 l \in Tokens, h \in SeqsUpTo(Tokens, 3)}

Texts(kinds) == [empty: {FALSE}, abs: BOOLEAN, has: SUBSET kinds]
                \cup {[empty |-> TRUE, abs |-> FALSE, has |-> {}]}

CharJobs ==
    {[Base EXCEPT !.local = l, !.remotePath = p, !.sshKey = k, !.keyFile = r,
                  !.name.has = n] :
        l \in Texts({"control"}), p \in Texts({"control", "meta", "quote", "space", "glob"}),
        k \in Texts({"control", "space", "quote"}), r \in {"regular", "denied"},
        n \in SUBSET {"control"}}

SettingJobs ==
    {[Base EXCEPT !.delete = d, !.maxDelete = m, !.uid = u, !.gid = g] :
        d \in BOOLEAN, m \in {Unset, -2, 0, 3},
        u \in {Unset, 0, MaxUint32}, g \in {Unset, 0, MaxUint32}}

Patterns == [pattern: {"p", "!", "- p", "+ p"}, empty: {FALSE}, has: SUBSET {"control", "pad"}]
            \cup {[pattern |-> "", empty |-> TRUE, has |-> {}]}

ExcludeJobs == {[Base EXCEPT !.excludes = e] : e \in SeqsUpTo(Patterns, 2)}

Named == {[Base EXCEPT !.name = Name(n), !.keyFile = r] :
            n \in {"", "a", "b"}, r \in {"regular", "absent"}}

MCInputs(group) ==
    CASE group = "host"     -> {[jobs |-> <<j>>, env |-> BaseEnv] : j \in BareHosts}
      [] group = "login"    -> {[jobs |-> <<j>>, env |-> BaseEnv] : j \in LoginHosts}
      [] group = "chars"    -> {[jobs |-> <<j>>, env |-> BaseEnv] : j \in CharJobs}
      [] group = "excludes" -> {[jobs |-> <<j>>, env |-> BaseEnv] : j \in ExcludeJobs}
      [] group = "settings" -> {[jobs |-> <<j>>, env |-> e] : j \in SettingJobs, e \in Environments}
      [] group = "lists"    -> {[jobs |-> d, env |-> BaseEnv] : d \in SeqsUpTo(Named, 3)}
      [] group = "mounts"   -> {[jobs |-> <<[Base EXCEPT !.keyFile = f]>>, env |-> BaseEnv] :
                                  f \in Kinds}

Mount(config, hosts, bytes, runes, edited) ==
    [mount |-> [config |-> config, hosts |-> hosts, edited |-> edited],
     size |-> bytes, text |-> runes]

MCMounts(group) ==
    CASE group = "mounts" ->
           UNION {{Mount(c, h, b, t, TRUE) : b \in IF c = "regular" THEN 0..MaxBytes ELSE {0},
                     t \in IF h = "regular" THEN SeqsUpTo(Runes, MaxRunes) ELSE {<<>>}} :
                  c, h \in Kinds}
      [] group = "settings" -> {Mount("regular", "absent", 1, <<>>, FALSE),
                                Mount("regular", "regular", 1, <<"other">>, FALSE)}
      [] OTHER -> {Mount("regular", "absent", 1, <<>>, FALSE)}
================================================================================
