------------------------------ MODULE MCSharedDest ------------------------------
(* TLC instance of SharedDest.  Documents of three jobs vary one thing at a    *)
(* time: the spellings of the hosts of two jobs; the spellings of the trees;   *)
(* what protects the jobs from each other.  Each is combined with every choice *)
(* of deleting jobs.                                                           *)
EXTENDS SharedDest

Mark(m) == [kind |-> m, text |-> m, form |-> "plain"]

Label(t, f) == [kind |-> "label", text |-> t, form |-> f]

Addr(t, f) == <<[kind |-> "addr", text |-> t, form |-> f]>>

Dot == Mark(".")

Login == <<Label("root", "plain"), Mark("@")>>

Bracketed(h) == <<Mark("[")>> \o h \o <<Mark("]")>>

Plain == <<Label("db", "plain"), Dot, Label("example", "plain")>>

\* db.example in five spellings, db in two and db. (another name), an IPv6 address
\* in five and an IPv4 address in three.
MCHosts ==
    {Plain, Plain \o <<Dot>>, Login \o Plain,
     <<Label("db", "upper"), Dot, Label("example", "plain")>>,
     Login \o <<Label("db", "plain"), Dot, Label("example", "upper"), Dot>>,
     <<Label("db", "plain")>>, <<Label("db", "upper")>>, <<Label("db", "plain"), Dot>>,
     Addr("2001:db8::1", "plain"), Addr("2001:db8::1", "upper"),
     Addr("2001:db8::1", "long"), Bracketed(Addr("2001:db8::1", "plain")),
     Login \o Bracketed(Addr("2001:db8::1", "long")),
     Addr("192.0.2.1", "plain"), Addr("192.0.2.1", "mapped"),
     Login \o Bracketed(Addr("192.0.2.1", "mapped"))}

\* "/", "/a" and "/b", each also spelled untidily, and "/a/c".
MCPaths == {<<>>, <<"..", "b", "..">>, <<"a">>, <<"", ".", "a", "">>, <<"b">>,
            <<"a", "..", "b">>, <<"a", "c">>}

MCLinks == (<<"l">> :> <<"a">>)

Bare == [host |-> Plain, path |-> <<>>, del |-> FALSE, excludes |-> {},
         maxDelete |-> Unset, jail |-> NoJail]

HostDocs ==
    {[j \in Jobs |-> [Bare EXCEPT !.host = IF j = 3 THEN Plain ELSE h[j], !.del = d[j]]] :
        h \in [1..2 -> MCHosts], d \in [Jobs -> BOOLEAN]}

PathDocs ==
    {[j \in Jobs |-> [Bare EXCEPT !.path = p[j], !.del = d[j]]] :
        p \in [Jobs -> MCPaths], d \in [Jobs -> BOOLEAN]}

Guarded ==
    {[Bare EXCEPT !.path = p, !.del = d] : p \in {<<>>, <<"a">>, <<"b">>}, d \in BOOLEAN}
    \cup {[Bare EXCEPT !.path = p, !.del = TRUE, !.excludes = {<<"a">>}] : p \in {<<>>, <<"a">>}}
    \cup {[Bare EXCEPT !.path = p, !.del = TRUE, !.maxDelete = m] :
            p \in {<<>>, <<"a">>}, m \in 0..1}
    \cup {[Bare EXCEPT !.path = p, !.del = d, !.jail = r] :
            p \in {<<>>, <<"a">>}, d \in BOOLEAN, r \in {"jail", "cell"}}

GuardDocs == [Jobs -> Guarded]

MCDocuments == HostDocs \cup PathDocs \cup GuardDocs
================================================================================
