----------------------------- MODULE MCSnapshot -----------------------------
EXTENDS Snapshot

CONSTANTS r1, r2

Decl(id, effect, risk, reversible, kind, ceiling, hostOnly) ==
  [id |-> id, effect |-> effect, risk |-> risk, reversible |-> reversible,
   kind |-> kind, ceiling |-> ceiling, hostOnly |-> hostOnly]

ReplyDoor == Decl(<<"surface", "reply">>, "reply", "low", "no", "none", 3, FALSE)
MemoryDoor == Decl(<<"memory", "write">>, "memory", "low", "no", "tenant", 3, FALSE)
Http == Decl(<<"sys", "http">>, "egress", "medium", "yes", "url-read", 3, FALSE)
Search == Decl(<<"sys", "search">>, "egress", "medium", "yes", "query", 3, TRUE)
Write == Decl(<<"fs", "write">>, "host", "medium", "undoable", "path", 3, TRUE)
Shell == Decl(<<"sys", "shell", "write">>, "host", "high", "no", "none", 2, TRUE)
Processes == Decl(<<"sys", "process", "list">>, "context", "low", "yes", "none", 1, TRUE)
Save == Decl(<<"vault", "write">>, "vault", "medium", "undoable", "none", 3, TRUE)
Schedule == Decl(<<"jobs", "schedule">>, "context", "low", "yes", "none", 3, TRUE)
Reads == Decl(<<"mcp", "s", "read">>, "external", "medium", "yes", "none", 3, TRUE)
Acts == Decl(<<"mcp", "s", "act">>, "external", "medium", "no", "none", 3, TRUE)

Shipped == {ReplyDoor, MemoryDoor, Http, Search, Write, Shell, Processes, Save,
            Schedule, Reads, Acts}

To(kind, composed) == [kind |-> kind, site |-> "listed", composed |-> composed]

Made == {<<Http, To("url-read", TRUE)>>, <<Write, To("path", FALSE)>>,
         <<Reads, NoResource>>}

Silent == [readable |-> TRUE,
           rows |-> [e \in EffectRow |-> [asks |-> FALSE, denyAbove |-> 3]],
           params |-> 3, search |-> 3, never |-> {}, forbidden |-> {},
           grants |-> [t \in Room \cup Elsewhere |-> {}], named |-> {}]

\* A file that tightens rows and lists, one that opens rooms, one that asks too much.
Tightens == [Silent EXCEPT !.rows["reply"] = [asks |-> TRUE, denyAbove |-> 1],
                           !.rows["external"].denyAbove = 0,
                           !.rows["host"].denyAbove = 2,
                           !.params = 0, !.search = 1,
                           !.never = {<<"mcp", "*">>},
                           !.forbidden = {<<"sys", "*">>}]
Opens == [Silent EXCEPT !.named = {r1}, !.grants[r1] = {<<"vault", "write">>, <<"sys", "search">>},
                        !.rows["external"].denyAbove = 0]
Refused == [Opens EXCEPT !.grants[r1] = {<<"vault", "write">>, <<"fs", "write">>}]

Files == {Silent, Tightens, Opens, Refused}

Turns == {[kind |-> "owner", home |-> Host, tenant |-> Host],
          [kind |-> "member", home |-> r1, tenant |-> r1],
          [kind |-> "member", home |-> r2, tenant |-> r2],
          [kind |-> "system", home |-> Host, tenant |-> Host]}
=============================================================================
