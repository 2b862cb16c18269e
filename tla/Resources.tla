-------------------------------- MODULE Resources --------------------------------
(***************************************************************************)
(* The connections, GitHub sources and subscriptions of one user           *)
(* (src/modules/connection, github_source and subscription) and the        *)
(* requests of the user's browser for them.  A use case that reads a row   *)
(* before it writes takes two steps, as its READ COMMITTED transaction     *)
(* does:                                                                   *)
(*                                                                         *)
(*    "sent" --> "read" --> "done"                                         *)
(*                                                                         *)
(* `doubtful' remembers what a browser cannot put in order: a list was     *)
(* loaded while something was being changed, two requests were about one   *)
(* row, or an answer was lost.                                             *)
(***************************************************************************)
EXTENDS Naturals, FiniteSets

CONSTANTS
    Conn, Source, Sub,  \* ids of rows
    Value,              \* what a connection's name and credentials can be
    Slot,               \* the requests in flight
    NoId,
    MaxEvents           \* bound on requests that change something, and failures

ASSUME ResourceAssumption ==
    /\ MaxEvents \in Nat
    /\ NoId \notin Conn \cup Source \cup Sub \cup Value
    /\ Conn \cap Source = {}
    /\ Value \cap (Conn \cup Source \cup Sub) = {}

VARIABLES
    conn,       \* the connections: deleted ones are soft-deleted
    source,     \* the GitHub sources
    sub,        \* the subscriptions
    req,
    events,
    doubtful    \* history, see above

\* A row, or that there is none (yet).
ConnRow == [state : {"new", "live", "deleted"}, value : Value]
SourceRow == {"new", "stored", "removed"}
SubRow == [state : {"new", "stored", "removed"}, source : Source]

tables == <<conn, source, sub>>
resourceVars == <<tables, req, events, doubtful>>

Loads == {"listActive", "listDeleted", "overview", "listSubs"}

Changes == {"createConn", "edit", "deleteConn", "restore",
            "createSource", "deleteSource", "createSub", "deleteSub"}

\* ConnectionDto.
Dto == [id : Conn, value : Value]
DtoOf(c) == [id |-> c, value |-> conn[c].value]

NoRequest == [op |-> "none", at |-> "idle", id |-> NoId, to |-> NoId, then |-> "nothing",
              answer |-> "none", result |-> {}, dropped |-> FALSE]

Request(op, id, to, then) ==
    [NoRequest EXCEPT !.op = op, !.at = "sent", !.id = id, !.to = to, !.then = then]

InFlight(s) == req[s].at # "idle"

\* One free slot is as good as another.
Free(s) == (\E t \in Slot : ~InFlight(t)) /\ s = CHOOSE t \in Slot : ~InFlight(t)

Busy(id) == \E s \in Slot : InFlight(s) /\ req[s].id = id

ResourceTypeOK ==
    /\ conn \in [Conn -> ConnRow] /\ source \in [Source -> SourceRow]
    /\ sub \in [Sub -> SubRow]
    /\ \A s \in Slot :
           /\ req[s].op \in Loads \cup Changes \cup {"none"}
           /\ req[s].at \in {"idle", "sent", "read", "done"}
           /\ req[s].at = "done" <=> req[s].answer # "none"
           /\ req[s].answer = "refused" => req[s].result = {}
           /\ req[s].op = "overview" => req[s].result \subseteq Source \cup Conn
           /\ req[s].op = "listSubs" => req[s].result \subseteq Sub
           /\ req[s].op \in {"listActive", "listDeleted", "createConn", "edit", "restore"} =>
                  req[s].result \subseteq Dto
    /\ events \in 0 .. MaxEvents
    /\ doubtful \in BOOLEAN

Event == events < MaxEvents /\ events' = events + 1

------------------------------------------------------------------------------
(* The browser sends.                                                      *)

\* The rows a request is about.
About(r) == {r.id, r.to} \cap (Conn \cup Source \cup Sub)

Races(r) ==
    \E s \in Slot :
        /\ InFlight(s)
        /\ \/ (r.op \in Loads) # (req[s].op \in Loads)
           \/ r.op = "listSubs" /\ req[s].op = "listSubs"
           \/ r.op \in Changes /\ About(r) \cap About(req[s]) # {}

Send(s, r) ==
    /\ Free(s)
    /\ req' = [req EXCEPT ![s] = r]
    /\ doubtful' = (doubtful \/ Races(r))

------------------------------------------------------------------------------
(* The server.                                                             *)

Is(s, at, ops) == req[s].at = at /\ req[s].op \in ops

Answer(s, answer, result) ==
    req' = [req EXCEPT ![s].at = "done", ![s].answer = answer, ![s].result = result]

\* Mutant of Refuse: what was read is answered all the same.
RefuseOpenly(s) == Answer(s, "refused", req[s].result) /\ UNCHANGED tables

Refuse(s) == Answer(s, "refused", {}) /\ UNCHANGED tables

\* A restoration answers with the row as it was read.
Proceed(s) ==
    /\ req' = [req EXCEPT ![s].at = "read",
                          ![s].result = IF req[s].op = "restore" THEN {DtoOf(req[s].id)} ELSE {}]
    /\ UNCHANGED tables

ListActive(s) ==
    /\ Is(s, "sent", {"listActive"})
    /\ Answer(s, "ok", {DtoOf(c) : c \in {d \in Conn : conn[d].state = "live"}})
    /\ UNCHANGED tables

ListDeleted(s) ==
    /\ Is(s, "sent", {"listDeleted"})
    /\ Answer(s, "ok", {DtoOf(c) : c \in {d \in Conn : conn[d].state = "deleted"}})
    /\ UNCHANGED tables

\* The two lists of the tab of the notifications, in either order.
ListSources(s) ==
    /\ Is(s, "sent", {"overview"})
    /\ req' = [req EXCEPT ![s].at = "read",
                          ![s].result = {t \in Source : source[t] = "stored"}]
    /\ UNCHANGED tables

ListChannels(s) ==
    /\ Is(s, "read", {"overview"})
    /\ Answer(s, "ok", req[s].result \cup {c \in Conn : conn[c].state = "live"})
    /\ UNCHANGED tables

\* What a use case looks at before it goes on.
Found(r) ==
    CASE r.op \in {"edit", "deleteConn"} -> conn[r.id].state = "live"
      [] r.op = "restore"                -> conn[r.id].state = "deleted"
      [] r.op = "deleteSource"           -> source[r.id] = "stored"
      [] r.op \in {"listSubs", "createSub"} -> source[r.to] = "stored"
      [] r.op = "deleteSub"              -> sub[r.id].state = "stored"

Read(s) ==
    /\ Is(s, "sent", {"edit", "deleteConn", "restore", "deleteSource", "listSubs", "createSub",
                      "deleteSub"})
    /\ IF Found(req[s]) THEN Proceed(s) ELSE Refuse(s)

ListSubs(s) ==
    /\ Is(s, "read", {"listSubs"})
    /\ Answer(s, "ok", {u \in Sub : sub[u] = [state |-> "stored", source |-> req[s].to]})
    /\ UNCHANGED tables

CreateConn(s) ==
    /\ Is(s, "sent", {"createConn"})
    /\ conn' = [conn EXCEPT ![req[s].id] = [state |-> "live", value |-> req[s].to]]
    /\ Answer(s, "ok", {[id |-> req[s].id, value |-> req[s].to]})
    /\ UNCHANGED <<source, sub>>

\* The whole row is written, also when it was deleted meanwhile.
Edit(s) ==
    /\ Is(s, "read", {"edit"})
    /\ conn' = [conn EXCEPT ![req[s].id].value = req[s].to]
    /\ Answer(s, "ok", {[id |-> req[s].id, value |-> req[s].to]})
    /\ UNCHANGED <<source, sub>>

DeleteConn(s) ==
    /\ Is(s, "read", {"deleteConn"})
    /\ conn' = [conn EXCEPT ![req[s].id].state = "deleted"]
    /\ Answer(s, "ok", {})
    /\ UNCHANGED <<source, sub>>

RestoreConn(s) ==
    /\ Is(s, "read", {"restore"})
    /\ conn' = [conn EXCEPT ![req[s].id].state = "live"]
    /\ Answer(s, "ok", req[s].result)
    /\ UNCHANGED <<source, sub>>

CreateSource(s) ==
    /\ Is(s, "sent", {"createSource"})
    /\ source' = [source EXCEPT ![req[s].id] = "stored"]
    /\ Answer(s, "ok", {})
    /\ UNCHANGED <<conn, sub>>

\* The subscriptions of a source go with it.
DeleteSource(s) ==
    /\ Is(s, "read", {"deleteSource"})
    /\ source' = [source EXCEPT ![req[s].id] = "removed"]
    /\ sub' = [u \in Sub |-> IF sub[u] = [state |-> "stored", source |-> req[s].id]
                             THEN [sub[u] EXCEPT !.state = "removed"] ELSE sub[u]]
    /\ Answer(s, "ok", {})
    /\ UNCHANGED conn

\* Mutant of CreateSub: the check that was made before is enough.
CreateSubUnchecked(s) ==
    /\ Is(s, "read", {"createSub"})
    /\ sub' = [sub EXCEPT ![req[s].id] = [state |-> "stored", source |-> req[s].to]]
    /\ Answer(s, "ok", {})
    /\ UNCHANGED <<conn, source>>

\* The foreign key is checked again when the row is inserted.
CreateSub(s) ==
    /\ Is(s, "read", {"createSub"})
    /\ IF source[req[s].to] = "stored"
       THEN /\ sub' = [sub EXCEPT ![req[s].id] = [state |-> "stored", source |-> req[s].to]]
            /\ Answer(s, "ok", {})
            /\ UNCHANGED <<conn, source>>
       ELSE Refuse(s)

\* The source is read between: gone meanwhile, it refuses the request or, gone
\* after it was read, leaves nothing to delete.
DeleteSub(s) ==
    /\ Is(s, "read", {"deleteSub"})
    /\ \/ /\ sub' = [sub EXCEPT ![req[s].id].state = "removed"]
          /\ Answer(s, "ok", {})
          /\ UNCHANGED <<conn, source>>
       \/ source[sub[req[s].id].source] = "removed" /\ Refuse(s)

Handle(s) ==
    \/ ListActive(s) \/ ListDeleted(s) \/ ListSources(s) \/ ListChannels(s)
    \/ Read(s)
    \/ ListSubs(s)
    \/ CreateConn(s) \/ Edit(s) \/ DeleteConn(s) \/ RestoreConn(s)
    \/ CreateSource(s) \/ DeleteSource(s)
    \/ CreateSub(s) \/ DeleteSub(s)

RequestFails(s) ==
    /\ req[s].at \in {"sent", "read"}
    /\ Event
    /\ Refuse(s)
    /\ UNCHANGED doubtful

LoseAnswer(s) ==
    /\ req[s].at = "done" /\ req[s].answer = "ok"
    /\ Event
    /\ doubtful' = TRUE
    /\ Refuse(s)

------------------------------------------------------------------------------
(* Properties.                                                             *)

\* A subscription never outlives its source, also when it is created while the
\* source is deleted: SubscriptionCreateUseCase checks the source before it
\* inserts, and the two are not one step.
NoOrphans ==
    \A u \in Sub : sub[u].state = "stored" => source[sub[u].source] = "stored"
==============================================================================
