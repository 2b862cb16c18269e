----------------------------- MODULE DashboardProofs -----------------------------
(***************************************************************************)
(* What Dashboard promises for any rows, values, number of requests in     *)
(* flight and number of events.  The invariant IInv says of each request   *)
(* what is known of its row by how far it has got, and of each list that   *)
(* it differs from the table only by answers that are on their way: when   *)
(* nothing is in flight they agree.  It needs that changes in flight are   *)
(* about different rows and alone (InOrder), which is what `doubtful'      *)
(* stands for when it is FALSE.                                            *)
(***************************************************************************)
EXTENDS Dashboard, TLAPS

------------------------------------------------------------------------------
(* The inductive invariant.                                                *)

ConnOps == {"listActive", "listDeleted", "createConn", "edit", "deleteConn", "restore"}

SubOps == {"overview", "listSubs", "createSource", "deleteSource", "createSub", "deleteSub"}

\* What a request may ask, and what may have been answered.
MayAsk(o, i, v) ==
    /\ o \in {"createConn", "edit"} => i \in Conn /\ v \in Value
    /\ o \in {"deleteConn", "restore"} => i \in Conn
    /\ o \in {"createSource", "deleteSource"} => i \in Source
    /\ o = "listSubs" => v \in Source
    /\ o = "createSub" => i \in Sub /\ v \in Source
    /\ o = "deleteSub" => i \in Sub

AskedOK(r) == MayAsk(r.op, r.id, r.to)

AnswerOK(r) ==
    /\ r.at = "done" <=> r.answer # "none"
    /\ r.answer = "refused" => r.result = {}
    /\ r.op \in ConnOps => r.result \subseteq Dto
    /\ r.op = "overview" => r.result \subseteq Source \cup Conn
    /\ r.op = "listSubs" => r.result \subseteq Sub

RequestRecord ==
    [op : ConnOps \cup SubOps \cup {"none"},
     at : {"idle", "sent", "read", "done"},
     id : Conn \cup Source \cup Sub \cup {NoId},
     to : Value \cup Source \cup {NoId},
     then : {"nothing", "overview", "deletion"},
     answer : {"none", "ok", "refused"},
     result : SUBSET (Dto \cup Source \cup Conn \cup Sub),
     dropped : BOOLEAN]

RequestsOK ==
    /\ req \in [Slot -> RequestRecord]
    /\ \A s \in Slot :
           /\ req[s].at = "idle" <=> req[s].op = "none"
           /\ AskedOK(req[s]) /\ AnswerOK(req[s])

TabOf(o) == IF o \in ConnOps THEN "connections" ELSE "github"

\* A request the tab still listens to is one of its own.
OwnRequests ==
    \A s \in Slot :
        InFlight(s) /\ ~req[s].dropped =>
            currentTab = TabOf(req[s].op)

TablesOK ==
    /\ conn \in [Conn -> ConnRow]
    /\ source \in [Source -> SourceRow]
    /\ sub \in [Sub -> SubRow]

SubTabOK ==
    /\ sources \subseteq Source
    /\ channels \subseteq Conn
    /\ selectedSourceId \in Source \cup {NoId}
    /\ subscriptions \subseteq Sub
    /\ {sourcesLoading, sourceLoading, subsLoading, subLoading} \subseteq BOOLEAN
    /\ deletingSourceId \in Source \cup {NoId}
    /\ deletingSubId \in Sub \cup {NoId}

\* A tab that is not mounted has no state.
MountedOK ==
    /\ currentTab \in {"connections", "github", "other"}
    /\ currentTab # "connections" => ConnTabFresh
    /\ currentTab # "github" => SubTabFresh

TInv ==
    /\ TablesOK
    /\ RequestsOK
    /\ OwnRequests
    /\ events \in 0 .. MaxEvents
    /\ doubtful \in BOOLEAN
    /\ ConnTabTypeOK
    /\ SubTabOK
    /\ MountedOK

\* What the tab shows can be put in order with what it has asked for.
Trusted == ~doubtful /\ currentTab # "other"

Changing(s) == InFlight(s) /\ req[s].op \in Changes

Heard(s, ops) == InFlight(s) /\ ~req[s].dropped /\ req[s].op \in ops

Granting(s, ops, id) == req[s].op \in ops /\ req[s].answer = "ok" /\ req[s].id = id

\* Changes are alone with changes of other rows, and their answers are heard.
InOrder ==
    \A s \in Slot : Changing(s) =>
        /\ ~req[s].dropped
        /\ \A t \in Slot \ {s} : InFlight(t) =>
               Changing(t) /\ About(req[s]) \cap About(req[t]) = {}

RowsIn(state) == {DtoOf(c) : c \in {d \in Conn : conn[d].state = state}}

RowOf(dtos, c) == {d \in dtos : d.id = c}

\* What is known of the row of a connection while a request for it is in flight.
ChangeFits(s, c) ==
    LET r == req[s]
    IN  /\ r.op = "createConn" /\ r.at = "sent" => conn[c].state = "new"
        /\ r.op \in {"edit", "deleteConn"} /\ r.at = "read" => conn[c].state = "live"
        /\ r.op = "restore" /\ r.at = "read" =>
               conn[c].state = "deleted" /\ r.result = {DtoOf(c)}
        /\ r.op \in {"createConn", "edit", "restore"} /\ r.answer = "ok" =>
               conn[c].state = "live" /\ r.result = {DtoOf(c)}
        /\ r.op = "deleteConn" /\ r.answer = "ok" => conn[c].state = "deleted"
        /\ r.op = "edit" => RowOf(connections, c) # {}
        /\ r.op = "deleteConn" => RowOf(connections, c) = {DtoOf(c)}

\* A list is answered as it still is.
ConnRequestFits(s) ==
    /\ Heard(s, {"listActive"}) /\ req[s].answer = "ok" => req[s].result = RowsIn("live")
    /\ Heard(s, {"listDeleted"}) /\ req[s].answer = "ok" => req[s].result = RowsIn("deleted")
    /\ \A c \in Conn : req[s].id = c => ChangeFits(s, c)

\* The lists differ from the table only by answers that are on their way.
ActiveAt(c) ==
    /\ conn[c].state = "live" =>
           \/ DtoOf(c) \in connections
           \/ \E s \in Slot : Granting(s, {"createConn", "edit", "restore"}, c)
    /\ \A d \in RowOf(connections, c) :
           \/ conn[c].state = "live" /\ d = DtoOf(c)
           \/ \E s \in Slot : Granting(s, {"edit", "deleteConn"}, c)

DeletedAt(c) ==
    /\ conn[c].state = "deleted" =>
           \/ DtoOf(c) \in deletedConnections
           \/ \E s \in Slot : Granting(s, {"deleteConn"}, c)
    /\ \A d \in RowOf(deletedConnections, c) :
           \/ conn[c].state = "deleted" /\ d = DtoOf(c)
           \/ \E s \in Slot : Granting(s, {"restore"}, c)

ActiveFits == (\A s \in Slot : ~Heard(s, {"listActive"})) => \A c \in Conn : ActiveAt(c)

DeletedFits ==
    /\ deletedLoaded => \A c \in Conn : DeletedAt(c)
    /\ ~deletedLoaded => deletedConnections = {}

ConnFit == (\A s \in Slot : ConnRequestFits(s)) /\ ActiveFits /\ DeletedFits

ConnectionsFit == currentTab = "connections" /\ ~doubtful => ConnFit

StoredSources == {t \in Source : source[t] = "stored"}

InSelection(u) == sub[u] = [state |-> "stored", source |-> selectedSourceId]

\* The lists of the mounted tab are empty until the first answer; a list is
\* answered as it still is.
OverviewFits(s) ==
    Heard(s, {"overview"}) =>
        /\ sources = {} /\ selectedSourceId = NoId /\ subscriptions = {}
        /\ req[s].at = "read" => req[s].result = StoredSources
        /\ req[s].answer = "ok" => req[s].result \cap Source = StoredSources

SubsLoadFits(s) ==
    Heard(s, {"listSubs"}) =>
        /\ req[s].to = selectedSourceId
        /\ req[s].answer = "ok" => req[s].result = {u \in Sub : InSelection(u)}

\* What is known of a source or a subscription while a request for it is in flight.
SourceChangeFits(s, t) ==
    /\ req[s].op = "createSource" /\ req[s].answer = "ok" => source[t] = "stored"
    /\ req[s].op = "deleteSource" /\ req[s].answer = "ok" => source[t] # "stored"

SubChangeFits(s, u) ==
    /\ req[s].op = "createSub" => req[s].to = selectedSourceId
    /\ req[s].op = "createSub" /\ req[s].answer = "ok" => InSelection(u)
    /\ req[s].op = "deleteSub" /\ req[s].answer = "ok" => sub[u].state # "stored"

SubRequestFits(s) ==
    /\ OverviewFits(s)
    /\ SubsLoadFits(s)
    /\ \A t \in Source : req[s].id = t => SourceChangeFits(s, t)
    /\ \A u \in Sub : req[s].id = u => SubChangeFits(s, u)

\* One of the sources is selected if there is any.
SelectedFits == IF sources = {} THEN selectedSourceId = NoId ELSE selectedSourceId \in sources

\* The lists differ from the tables only by answers that are on their way; the
\* subscriptions also go with the selected source.
SourceAt(t) ==
    /\ source[t] = "stored" =>
           t \in sources \/ \E s \in Slot : Granting(s, {"createSource"}, t)
    /\ t \in sources =>
           source[t] = "stored" \/ \E s \in Slot : Granting(s, {"deleteSource"}, t)

SelectionGoes ==
    \E s \in Slot :
        req[s].op = "deleteSource" /\ req[s].answer = "ok" /\ req[s].id = selectedSourceId

SubAt(u) ==
    /\ InSelection(u) => u \in subscriptions \/ \E s \in Slot : Granting(s, {"createSub"}, u)
    /\ u \in subscriptions =>
           InSelection(u) \/ SelectionGoes \/ \E s \in Slot : Granting(s, {"deleteSub"}, u)

SourcesFit == (\A s \in Slot : ~Heard(s, {"overview"})) => \A t \in Source : SourceAt(t)

SubsFit == (\A s \in Slot : ~Heard(s, {"overview", "listSubs"})) => \A u \in Sub : SubAt(u)

SubFit == (\A s \in Slot : SubRequestFits(s)) /\ SelectedFits /\ SourcesFit /\ SubsFit

SubscriptionsFit == currentTab = "github" /\ ~doubtful => SubFit

IInv ==
    /\ TInv
    /\ NoOrphans
    /\ Trusted => InOrder
    /\ ConnectionsFit
    /\ SubscriptionsFit

------------------------------------------------------------------------------
(* The requests.                                                           *)

\* One request is replaced by another.
LEMMA OneRequest ==
    ASSUME RequestsOK, NEW s \in Slot, NEW r \in RequestRecord,
           req' = [req EXCEPT ![s] = r],
           r.at = "idle" <=> r.op = "none", AskedOK(r), AnswerOK(r)
    PROVE  RequestsOK' /\ req'[s] = r /\ \A t \in Slot \ {s} : req'[t] = req[t]
<1>1. req' \in [Slot -> RequestRecord] /\ req'[s] = r /\ \A t \in Slot \ {s} : req'[t] = req[t]
  BY DEF RequestsOK
<1> QED
  BY <1>1 DEF RequestsOK

\* A request that may be sent, for what it asks.
Sendable(r) ==
    /\ r \in RequestRecord
    /\ r.op # "none" /\ r.at = "sent" /\ r.answer = "none" /\ r.result = {}
    /\ ~r.dropped
    /\ AskedOK(r)

Asks(r, o, i, v) == Sendable(r) /\ r.op = o /\ r.id = i /\ r.to = v

\* A request that is made asks what it may ask, and has no answer.
LEMMA RequestAsks ==
    ASSUME NEW o \in ConnOps \cup SubOps, NEW i \in Conn \cup Source \cup Sub \cup {NoId},
           NEW v \in Value \cup Source \cup {NoId},
           NEW k \in {"nothing", "overview", "deletion"}, MayAsk(o, i, v)
    PROVE  Asks(Request(o, i, v, k), o, i, v)
<1>1. /\ NoRequest \in RequestRecord
      /\ NoRequest.answer = "none" /\ NoRequest.result = {} /\ NoRequest.dropped = FALSE
  BY DEF NoRequest, RequestRecord
<1> DEFINE r == [NoRequest EXCEPT !.op = o, !.at = "sent", !.id = i, !.to = v, !.then = k]
<1>2. /\ r.op = o /\ r.at = "sent" /\ r.id = i /\ r.to = v
      /\ r.answer = "none" /\ r.result = {} /\ ~r.dropped
  BY <1>1 DEF RequestRecord
<1>3. r \in RequestRecord
  BY <1>1 DEF RequestRecord
<1>4. r = Request(o, i, v, k)
  BY DEF Request
<1> HIDE DEF r
<1>5. AskedOK(r) /\ r.op # "none"
  BY <1>2 DEF AskedOK, MayAsk, ConnOps, SubOps
<1> QED
  BY <1>2, <1>3, <1>4, <1>5 DEF Asks, Sendable

\* The requests the handlers of the two tabs send.
LEMMA ConnRequests ==
    /\ \A o \in {"listActive", "listDeleted"} :
           Asks(Request(o, NoId, NoId, "nothing"), o, NoId, NoId)
    /\ \A c \in Conn, v \in Value, o \in {"createConn", "edit"} :
           Asks(Request(o, c, v, "nothing"), o, c, v)
    /\ \A c \in Conn, o \in {"deleteConn", "restore"} :
           Asks(Request(o, c, NoId, "nothing"), o, c, NoId)
  BY RequestAsks DEF MayAsk, ConnOps, SubOps

\* The same for the requests of the tab of the notifications.
LEMMA SubRequests ==
    /\ Asks(Request("overview", NoId, NoId, "nothing"), "overview", NoId, NoId)
    /\ \A t \in Source, k \in {"nothing", "overview", "deletion"} :
           Asks(Request("listSubs", NoId, t, k), "listSubs", NoId, t)
    /\ \A t \in Source, o \in {"createSource", "deleteSource"} :
           Asks(Request(o, t, NoId, "nothing"), o, t, NoId)
    /\ \A u \in Sub, t \in Source :
           Asks(Request("createSub", u, t, "nothing"), "createSub", u, t)
    /\ \A u \in Sub : Asks(Request("deleteSub", u, NoId, "nothing"), "deleteSub", u, NoId)
  BY RequestAsks DEF MayAsk, ConnOps, SubOps

\* Sending takes a slot that was free.
Sends(s, r) ==
    /\ ~InFlight(s) /\ req[s].op = "none"
    /\ Sendable(r) /\ RequestsOK' /\ req'[s] = r
    /\ \A t \in Slot \ {s} : req'[t] = req[t]
    /\ doubtful' \in BOOLEAN
    /\ ~doubtful' => ~doubtful /\ ~Races(r)

\* A request that is sent takes its slot, and no other.
LEMMA SendTakes ==
    ASSUME RequestsOK, doubtful \in BOOLEAN, NEW s \in Slot, NEW r, Sendable(r), Send(s, r)
    PROVE  Sends(s, r)
<1>1. ~InFlight(s)
  BY DEF Send, Free
<1>2. AnswerOK(r) /\ r \in RequestRecord /\ r.at # "idle" /\ r.op # "none" /\ AskedOK(r)
  BY DEF Sendable, AnswerOK
<1>3. RequestsOK' /\ req'[s] = r /\ \A t \in Slot \ {s} : req'[t] = req[t]
  BY <1>2, OneRequest DEF Send
<1>4. req[s].op = "none"
  BY <1>1 DEF InFlight, RequestsOK
<1>5. doubtful' \in BOOLEAN /\ (~doubtful' => ~doubtful /\ ~Races(r))
  BY Zenon DEF Send
<1> QED
  BY <1>1, <1>3, <1>4, <1>5 DEF Sends

\* The slot is free again.
LEMMA SlotFreed ==
    ASSUME RequestsOK, NEW s \in Slot, req' = [req EXCEPT ![s] = NoRequest]
    PROVE  /\ RequestsOK' /\ req'[s] = NoRequest
           /\ \A t \in Slot \ {s} : req'[t] = req[t]
<1>1. NoRequest \in RequestRecord /\ AskedOK(NoRequest) /\ AnswerOK(NoRequest)
      /\ NoRequest.at = "idle" /\ NoRequest.op = "none"
  BY DEF NoRequest, RequestRecord, AskedOK, MayAsk, AnswerOK, ConnOps
<1> QED
  BY <1>1, OneRequest

\* What a request asks for is not changed by the server.
Serves(s) ==
    LET r == req[s]
        q == req'[s]
    IN  /\ InFlight(s) /\ q.at \in {"read", "done"}
        /\ q.op = r.op /\ q.id = r.id /\ q.to = r.to /\ q.then = r.then
        /\ q.dropped = r.dropped
        /\ \A t \in Slot \ {s} : req'[t] = req[t]

\* A request is answered, or goes on with what was read.
Settles(s, a, R) ==
    /\ RequestsOK' /\ Serves(s)
    /\ req'[s].at = "done" /\ req'[s].answer = a /\ req'[s].result = R

GoesOn(s, R) ==
    /\ RequestsOK' /\ Serves(s)
    /\ req'[s].at = "read" /\ req'[s].answer = "none" /\ req'[s].result = R

\* The server answers.
LEMMA AnswerServes ==
    ASSUME RequestsOK, NEW s \in Slot, InFlight(s), NEW a \in {"ok", "refused"},
           NEW R, Answer(s, a, R), R \in SUBSET (Dto \cup Source \cup Conn \cup Sub),
           a = "refused" => R = {},
           req[s].op \in ConnOps => R \subseteq Dto,
           req[s].op = "overview" => R \subseteq Source \cup Conn,
           req[s].op = "listSubs" => R \subseteq Sub
    PROVE  Settles(s, a, R)
<1> DEFINE r == [req[s] EXCEPT !.at = "done", !.answer = a, !.result = R]
<1>1. req[s] \in RequestRecord /\ req[s].at # "idle" /\ req[s].op # "none" /\ AskedOK(req[s])
  BY DEF RequestsOK, InFlight
<1>2. /\ r \in RequestRecord
      /\ r.at = "done" /\ r.answer = a /\ r.result = R /\ r.dropped = req[s].dropped
      /\ r.op = req[s].op /\ r.id = req[s].id /\ r.to = req[s].to /\ r.then = req[s].then
  BY <1>1 DEF RequestRecord
<1>3. req' = [req EXCEPT ![s] = r]
  BY <1>1 DEF Answer, RequestsOK
<1> HIDE DEF r
<1>4. AskedOK(r) /\ AnswerOK(r) /\ r.op # "none"
  BY <1>1, <1>2 DEF AskedOK, MayAsk, AnswerOK
<1>5. RequestsOK' /\ req'[s] = r /\ \A t \in Slot \ {s} : req'[t] = req[t]
  BY <1>2, <1>3, <1>4, OneRequest
<1> QED
  BY <1>2, <1>5 DEF Serves, Settles

\* The server refuses.
LEMMA RefuseServes ==
    ASSUME RequestsOK, NEW s \in Slot, InFlight(s), Refuse(s)
    PROVE  Settles(s, "refused", {}) /\ UNCHANGED tables
  BY AnswerServes DEF Refuse

\* The server has read and goes on.
LEMMA ReadServes ==
    ASSUME RequestsOK, NEW s \in Slot, req[s].at = "sent",
           NEW R, req' = [req EXCEPT ![s].at = "read", ![s].result = R],
           R \in SUBSET (Dto \cup Source \cup Conn \cup Sub),
           req[s].op \in ConnOps => R \subseteq Dto,
           req[s].op = "overview" => R \subseteq Source \cup Conn,
           req[s].op = "listSubs" => R \subseteq Sub
    PROVE  GoesOn(s, R)
<1> DEFINE r == [req[s] EXCEPT !.at = "read", !.result = R]
<1>1. /\ req[s] \in RequestRecord /\ req[s].at # "idle" /\ req[s].op # "none"
      /\ AskedOK(req[s]) /\ req[s].answer = "none"
  BY DEF RequestsOK, AnswerOK, RequestRecord
<1>2. /\ r \in RequestRecord
      /\ r.at = "read" /\ r.answer = "none" /\ r.result = R /\ r.dropped = req[s].dropped
      /\ r.op = req[s].op /\ r.id = req[s].id /\ r.to = req[s].to /\ r.then = req[s].then
  BY <1>1 DEF RequestRecord
<1>3. req' = [req EXCEPT ![s] = r]
  BY <1>1 DEF RequestsOK
<1> HIDE DEF r
<1>4. AskedOK(r) /\ AnswerOK(r) /\ r.op # "none"
  BY <1>1, <1>2 DEF AskedOK, MayAsk, AnswerOK
<1>5. RequestsOK' /\ req'[s] = r /\ \A t \in Slot \ {s} : req'[t] = req[t]
  BY <1>2, <1>3, <1>4, OneRequest
<1> QED
  BY <1>1, <1>2, <1>5 DEF Serves, GoesOn, InFlight

------------------------------------------------------------------------------
(* What each step of the server does.                                      *)

\* The DTOs of rows.
LEMMA DtosTyped ==
    ASSUME TablesOK
    PROVE  /\ \A c \in Conn : DtoOf(c) \in Dto /\ DtoOf(c).id = c
           /\ \A state : RowsIn(state) \subseteq Dto
<1>1. ASSUME NEW c \in Conn PROVE DtoOf(c) \in Dto /\ DtoOf(c).id = c
  BY DEF TablesOK, ConnRow, DtoOf, Dto
<1> QED
  BY <1>1 DEF RowsIn

\* The loads.
LEMMA ListActiveServes ==
    ASSUME RequestsOK, TablesOK, NEW s \in Slot, ListActive(s)
    PROVE  /\ req[s].op = "listActive" /\ UNCHANGED tables
           /\ Settles(s, "ok", RowsIn("live"))
<1>1. /\ req[s].op = "listActive" /\ InFlight(s) /\ UNCHANGED tables
      /\ Answer(s, "ok", RowsIn("live"))
  BY DEF ListActive, Is, InFlight, RowsIn
<1> QED
  BY <1>1, DtosTyped, AnswerServes

\* The deleted connections are answered as they are.
LEMMA ListDeletedServes ==
    ASSUME RequestsOK, TablesOK, NEW s \in Slot, ListDeleted(s)
    PROVE  /\ req[s].op = "listDeleted" /\ UNCHANGED tables
           /\ Settles(s, "ok", RowsIn("deleted"))
<1>1. /\ req[s].op = "listDeleted" /\ InFlight(s) /\ UNCHANGED tables
      /\ Answer(s, "ok", RowsIn("deleted"))
  BY DEF ListDeleted, Is, InFlight, RowsIn
<1> QED
  BY <1>1, DtosTyped, AnswerServes

\* The first half of an overview: the sources, as they are.
LEMMA ListSourcesServes ==
    ASSUME RequestsOK, NEW s \in Slot, ListSources(s)
    PROVE  /\ req[s].op = "overview" /\ UNCHANGED tables
           /\ GoesOn(s, StoredSources)
<1>1. /\ req[s].op = "overview" /\ req[s].at = "sent" /\ UNCHANGED tables
      /\ req' = [req EXCEPT ![s].at = "read", ![s].result = StoredSources]
      /\ StoredSources \subseteq Source
  BY DEF ListSources, Is, StoredSources
<1>2. "overview" \notin ConnOps
  BY DEF ConnOps
<1> QED
  BY <1>1, <1>2, ReadServes

\* The second half of an overview adds the connections that are live.
LEMMA ListChannelsServes ==
    ASSUME RequestsOK, NEW s \in Slot, ListChannels(s)
    PROVE  /\ req[s].op = "overview" /\ req[s].at = "read" /\ UNCHANGED tables
           /\ Settles(s, "ok", req[s].result \cup {c \in Conn : conn[c].state = "live"})
<1> DEFINE R == req[s].result \cup {c \in Conn : conn[c].state = "live"}
<1>1. /\ req[s].op = "overview" /\ req[s].at = "read" /\ InFlight(s) /\ UNCHANGED tables
      /\ Answer(s, "ok", R)
  BY DEF ListChannels, Is, InFlight
<1>2. R \subseteq Source \cup Conn
  BY <1>1 DEF RequestsOK, AnswerOK
<1>3. "overview" \notin ConnOps
  BY DEF ConnOps
<1> QED
  BY <1>1, <1>2, <1>3, AnswerServes

SubsOf(t) == {u \in Sub : sub[u] = [state |-> "stored", source |-> t]}

\* The subscriptions of a source are answered as they are.
LEMMA ListSubsServes ==
    ASSUME RequestsOK, NEW s \in Slot, ListSubs(s)
    PROVE  /\ req[s].op = "listSubs" /\ UNCHANGED tables
           /\ Settles(s, "ok", SubsOf(req[s].to))
<1> DEFINE R == SubsOf(req[s].to)
<1>1. /\ req[s].op = "listSubs" /\ InFlight(s) /\ UNCHANGED tables
      /\ Answer(s, "ok", R)
  BY DEF ListSubs, Is, InFlight, SubsOf
<1>2. R \subseteq Sub
  BY DEF SubsOf
<1>3. "listSubs" \notin ConnOps
  BY DEF ConnOps
<1> HIDE DEF R
<1>4. Settles(s, "ok", R)
  BY <1>1, <1>2, <1>3, AnswerServes
<1> QED
  BY <1>1, <1>4 DEF R

ReadingOps == {"edit", "deleteConn", "restore", "deleteSource", "listSubs", "createSub",
               "deleteSub"}

\* What a use case has found before it goes on.
LEMMA ReadServesAll ==
    ASSUME RequestsOK, TablesOK, NEW s \in Slot, Read(s)
    PROVE  /\ req[s].op \in ReadingOps /\ req[s].at = "sent" /\ UNCHANGED tables
           /\ \/ Settles(s, "refused", {})
              \/ /\ GoesOn(s, IF req[s].op = "restore" THEN {DtoOf(req[s].id)} ELSE {})
                 /\ req[s].op \in {"edit", "deleteConn"} => conn[req[s].id].state = "live"
                 /\ req[s].op = "restore" => conn[req[s].id].state = "deleted"
<1> DEFINE R == IF req[s].op = "restore" THEN {DtoOf(req[s].id)} ELSE {}
<1>1. req[s].op \in ReadingOps /\ req[s].at = "sent" /\ InFlight(s)
  BY DEF Read, Is, ReadingOps, InFlight
<1>2. CASE ~Found(req[s])
  <2>1. Refuse(s)
    BY <1>2 DEF Read
  <2> QED
    BY <1>1, <2>1, RefuseServes
<1>3. CASE Found(req[s])
  <2>1. Proceed(s)
    BY <1>3 DEF Read
  <2>2. req' = [req EXCEPT ![s].at = "read", ![s].result = R] /\ UNCHANGED tables
    BY <2>1 DEF Proceed
  <2>3. req[s].op = "restore" => req[s].id \in Conn
    BY DEF RequestsOK, AskedOK, MayAsk
  <2>4. R \in SUBSET (Dto \cup Source \cup Conn \cup Sub) /\ R \subseteq Dto
        /\ (req[s].op = "overview" => R \subseteq Source \cup Conn)
        /\ (req[s].op = "listSubs" => R \subseteq Sub)
    <3>1. req[s].op # "restore" => R = {}
      OBVIOUS
    <3> QED
      BY <2>3, <3>1, DtosTyped
  <2> HIDE DEF R
  <2>5. GoesOn(s, R)
    BY <1>1, <2>2, <2>4, ReadServes
  <2>6. /\ req[s].op \in {"edit", "deleteConn"} => conn[req[s].id].state = "live"
        /\ req[s].op = "restore" => conn[req[s].id].state = "deleted"
    BY <1>3 DEF Found
  <2> QED
    BY <1>1, <2>2, <2>5, <2>6 DEF R
<1> QED
  BY <1>2, <1>3

\* The DTO of a row after the step.
Renewed(c) == [id |-> c, value |-> conn'[c].value]

\* A row of the connections is created, edited, deleted or restored.
LEMMA CreateConnServes ==
    ASSUME RequestsOK, TablesOK, NEW s \in Slot, CreateConn(s)
    PROVE  /\ req[s].op = "createConn" /\ req[s].at = "sent"
           /\ \E c \in Conn :
                  /\ req[s].id = c
                  /\ conn'[c].state = "live"
                  /\ \A d \in Conn \ {c} : conn'[d] = conn[d]
                  /\ UNCHANGED <<source, sub>> /\ TablesOK'
                  /\ Settles(s, "ok", {Renewed(c)})
<1>1. /\ req[s].op = "createConn" /\ req[s].at = "sent" /\ InFlight(s)
      /\ req[s].id \in Conn /\ req[s].to \in Value /\ UNCHANGED <<source, sub>>
  BY DEF CreateConn, Is, InFlight, RequestsOK, AskedOK, MayAsk
<1>2. PICK c \in Conn : req[s].id = c
  BY <1>1
<1> DEFINE row == [state |-> "live", value |-> req[s].to]
           R == {[id |-> c, value |-> req[s].to]}
<1>3. conn' = [conn EXCEPT ![c] = row] /\ Answer(s, "ok", R)
  BY <1>2 DEF CreateConn
<1>4. row \in ConnRow /\ row.state = "live" /\ row.value = req[s].to
  BY <1>1, <1>2 DEF ConnRow
<1>5. TablesOK' /\ conn'[c] = row /\ \A d \in Conn \ {c} : conn'[d] = conn[d]
  BY <1>1, <1>2, <1>3, <1>4 DEF TablesOK
<1>6. R = {Renewed(c)}
  BY <1>4, <1>5 DEF Renewed
<1>7. R \subseteq Dto
  BY <1>1, <1>2 DEF Dto
<1> HIDE DEF R, row
<1>8. Settles(s, "ok", R)
  BY <1>1, <1>2, <1>3, <1>7, AnswerServes
<1> QED
  BY <1>1, <1>2, <1>4, <1>5, <1>6, <1>8

\* An edit gives its row the values it asks for, and answers them.
LEMMA EditServes ==
    ASSUME RequestsOK, TablesOK, NEW s \in Slot, Edit(s)
    PROVE  /\ req[s].op = "edit" /\ req[s].at = "read"
           /\ \E c \in Conn :
                  /\ req[s].id = c
                  /\ conn'[c].state = conn[c].state
                  /\ \A d \in Conn \ {c} : conn'[d] = conn[d]
                  /\ UNCHANGED <<source, sub>> /\ TablesOK'
                  /\ Settles(s, "ok", {Renewed(c)})
<1>1. /\ req[s].op = "edit" /\ req[s].at = "read" /\ InFlight(s)
      /\ req[s].id \in Conn /\ req[s].to \in Value /\ UNCHANGED <<source, sub>>
  BY DEF Edit, Is, InFlight, RequestsOK, AskedOK, MayAsk
<1>2. PICK c \in Conn : req[s].id = c
  BY <1>1
<1> DEFINE row == [conn[c] EXCEPT !.value = req[s].to]
           R == {[id |-> c, value |-> req[s].to]}
<1>3. conn' = [conn EXCEPT ![c] = row] /\ Answer(s, "ok", R)
  BY <1>1, <1>2 DEF Edit
<1>4. row \in ConnRow /\ row.state = conn[c].state /\ row.value = req[s].to
  BY <1>1, <1>2 DEF ConnRow, TablesOK
<1>5. TablesOK' /\ conn'[c] = row /\ \A d \in Conn \ {c} : conn'[d] = conn[d]
  BY <1>1, <1>2, <1>3, <1>4 DEF TablesOK
<1>6. R = {Renewed(c)}
  BY <1>4, <1>5 DEF Renewed
<1>7. R \subseteq Dto
  BY <1>1, <1>2 DEF Dto
<1> HIDE DEF R, row
<1>8. Settles(s, "ok", R)
  BY <1>1, <1>2, <1>3, <1>7, AnswerServes
<1> QED
  BY <1>1, <1>2, <1>4, <1>5, <1>6, <1>8

\* A deletion marks its row as deleted; the values stay.
LEMMA DeleteConnServes ==
    ASSUME RequestsOK, TablesOK, NEW s \in Slot, DeleteConn(s)
    PROVE  /\ req[s].op = "deleteConn" /\ req[s].at = "read"
           /\ \E c \in Conn :
                  /\ req[s].id = c
                  /\ conn'[c].state = "deleted"
                  /\ conn'[c].value = conn[c].value
                  /\ \A d \in Conn \ {c} : conn'[d] = conn[d]
                  /\ UNCHANGED <<source, sub>> /\ TablesOK'
                  /\ Settles(s, "ok", {})
<1>1. /\ req[s].op = "deleteConn" /\ req[s].at = "read" /\ InFlight(s)
      /\ req[s].id \in Conn /\ UNCHANGED <<source, sub>> /\ Answer(s, "ok", {})
  BY DEF DeleteConn, Is, InFlight, RequestsOK, AskedOK, MayAsk
<1>2. PICK c \in Conn : req[s].id = c
  BY <1>1
<1> DEFINE row == [conn[c] EXCEPT !.state = "deleted"]
<1>3. conn' = [conn EXCEPT ![c] = row]
  BY <1>1, <1>2 DEF DeleteConn
<1>4. row \in ConnRow /\ row.state = "deleted" /\ row.value = conn[c].value
  BY <1>1, <1>2 DEF ConnRow, TablesOK
<1>5. TablesOK' /\ conn'[c] = row /\ \A d \in Conn \ {c} : conn'[d] = conn[d]
  BY <1>1, <1>2, <1>3, <1>4 DEF TablesOK
<1>6. conn'[c].value = conn[c].value
  BY <1>4, <1>5 DEF Renewed
<1> HIDE DEF row
<1> QED
  BY <1>1, <1>2, <1>4, <1>5, <1>6, AnswerServes

\* A restoration makes its row live again, and answers it as it was read.
LEMMA RestoreConnServes ==
    ASSUME RequestsOK, TablesOK, NEW s \in Slot, RestoreConn(s)
    PROVE  /\ req[s].op = "restore" /\ req[s].at = "read"
           /\ \E c \in Conn :
                  /\ req[s].id = c
                  /\ conn'[c].state = "live"
                  /\ conn'[c].value = conn[c].value
                  /\ \A d \in Conn \ {c} : conn'[d] = conn[d]
                  /\ UNCHANGED <<source, sub>> /\ TablesOK'
                  /\ Settles(s, "ok", req[s].result)
<1>1. /\ req[s].op = "restore" /\ req[s].at = "read" /\ InFlight(s)
      /\ req[s].id \in Conn /\ UNCHANGED <<source, sub>> /\ Answer(s, "ok", req[s].result)
      /\ req[s].result \subseteq Dto
  BY DEF RestoreConn, Is, InFlight, RequestsOK, AskedOK, MayAsk, AnswerOK, ConnOps
<1>2. PICK c \in Conn : req[s].id = c
  BY <1>1
<1> DEFINE row == [conn[c] EXCEPT !.state = "live"]
           R == req[s].result
<1>3. conn' = [conn EXCEPT ![c] = row]
  BY <1>1, <1>2 DEF RestoreConn
<1>4. row \in ConnRow /\ row.state = "live" /\ row.value = conn[c].value
  BY <1>1, <1>2 DEF ConnRow, TablesOK
<1>5. TablesOK' /\ conn'[c] = row /\ \A d \in Conn \ {c} : conn'[d] = conn[d]
  BY <1>1, <1>2, <1>3, <1>4 DEF TablesOK
<1>6. conn'[c].value = conn[c].value
  BY <1>4, <1>5 DEF Renewed
<1>7. Answer(s, "ok", R) /\ R \subseteq Dto
  BY <1>1, <1>2
<1> HIDE DEF row, R
<1>8. Settles(s, "ok", R)
  BY <1>1, <1>2, <1>7, AnswerServes
<1> QED
  BY <1>1, <1>2, <1>4, <1>5, <1>6, <1>8 DEF R

\* A source is created, or deleted with its subscriptions.
LEMMA CreateSourceServes ==
    ASSUME RequestsOK, TablesOK, NEW s \in Slot, CreateSource(s)
    PROVE  /\ req[s].op = "createSource"
           /\ req[s].id \in Source
           /\ source'[req[s].id] = "stored"
           /\ \A t \in Source \ {req[s].id} : source'[t] = source[t]
           /\ UNCHANGED <<conn, sub>> /\ TablesOK'
           /\ Settles(s, "ok", {})
<1>1. /\ req[s].op = "createSource" /\ InFlight(s)
      /\ req[s].id \in Source /\ UNCHANGED <<conn, sub>> /\ Answer(s, "ok", {})
      /\ source' = [source EXCEPT ![req[s].id] = "stored"]
  BY DEF CreateSource, Is, InFlight, RequestsOK, AskedOK, MayAsk
<1>2. TablesOK'
  BY <1>1 DEF TablesOK, SourceRow
<1> QED
  BY <1>1, <1>2, AnswerServes DEF TablesOK

\* The deletion of a source takes its subscriptions with it.
LEMMA DeleteSourceServes ==
    ASSUME RequestsOK, TablesOK, NEW s \in Slot, DeleteSource(s)
    PROVE  /\ req[s].op = "deleteSource"
           /\ req[s].id \in Source
           /\ source'[req[s].id] = "removed"
           /\ \A t \in Source \ {req[s].id} : source'[t] = source[t]
           /\ \A u \in Sub : IF sub[u] = [state |-> "stored", source |-> req[s].id]
                             THEN sub'[u].state = "removed" ELSE sub'[u] = sub[u]
           /\ UNCHANGED conn /\ TablesOK'
           /\ Settles(s, "ok", {})
<1>1. /\ req[s].op = "deleteSource" /\ InFlight(s)
      /\ req[s].id \in Source /\ UNCHANGED conn /\ Answer(s, "ok", {})
      /\ source' = [source EXCEPT ![req[s].id] = "removed"]
      /\ sub' = [u \in Sub |-> IF sub[u] = [state |-> "stored", source |-> req[s].id]
                               THEN [sub[u] EXCEPT !.state = "removed"] ELSE sub[u]]
  BY DEF DeleteSource, Is, InFlight, RequestsOK, AskedOK, MayAsk
<1>2. ASSUME NEW u \in Sub
      PROVE  [sub[u] EXCEPT !.state = "removed"] \in SubRow
             /\ [sub[u] EXCEPT !.state = "removed"].state = "removed" /\ sub[u] \in SubRow
  BY DEF TablesOK, SubRow
<1>3. sub' \in [Sub -> SubRow]
  BY <1>1, <1>2
<1>4. \A u \in Sub : IF sub[u] = [state |-> "stored", source |-> req[s].id]
                     THEN sub'[u].state = "removed" ELSE sub'[u] = sub[u]
  BY <1>1, <1>2
<1>5. TablesOK'
  BY <1>1, <1>3 DEF TablesOK, SourceRow
<1> QED
  BY <1>1, <1>4, <1>5, AnswerServes DEF TablesOK

\* A subscription is created, unless its source has gone, or deleted.
LEMMA CreateSubServes ==
    ASSUME RequestsOK, TablesOK, NEW s \in Slot, CreateSub(s)
    PROVE  /\ req[s].op = "createSub"
           /\ req[s].id \in Sub /\ req[s].to \in Source
           /\ \/ Settles(s, "refused", {}) /\ UNCHANGED tables
              \/ /\ source[req[s].to] = "stored"
                 /\ sub'[req[s].id] = [state |-> "stored", source |-> req[s].to]
                 /\ \A u \in Sub \ {req[s].id} : sub'[u] = sub[u]
                 /\ UNCHANGED <<conn, source>> /\ TablesOK'
                 /\ Settles(s, "ok", {})
<1>1. /\ req[s].op = "createSub" /\ InFlight(s)
      /\ req[s].id \in Sub /\ req[s].to \in Source
  BY DEF CreateSub, Is, InFlight, RequestsOK, AskedOK, MayAsk
<1>2. CASE source[req[s].to] # "stored"
  BY <1>1, <1>2, RefuseServes DEF CreateSub
<1>3. CASE source[req[s].to] = "stored"
  <2> DEFINE row == [state |-> "stored", source |-> req[s].to]
  <2>1. /\ sub' = [sub EXCEPT ![req[s].id] = row]
        /\ Answer(s, "ok", {}) /\ UNCHANGED <<conn, source>>
    BY <1>3 DEF CreateSub
  <2>2. row \in SubRow
    BY <1>1 DEF SubRow
  <2>3. /\ TablesOK' /\ sub'[req[s].id] = row
        /\ \A u \in Sub \ {req[s].id} : sub'[u] = sub[u]
    BY <1>1, <2>1, <2>2 DEF TablesOK
  <2>4. Settles(s, "ok", {})
    BY <1>1, <2>1, AnswerServes
  <2> QED
    BY <1>1, <1>3, <2>1, <2>3, <2>4
<1> QED
  BY <1>2, <1>3

\* The deletion of a subscription removes its row, or is refused.
LEMMA DeleteSubServes ==
    ASSUME RequestsOK, TablesOK, NEW s \in Slot, DeleteSub(s)
    PROVE  /\ req[s].op = "deleteSub"
           /\ req[s].id \in Sub
           /\ \/ Settles(s, "refused", {}) /\ UNCHANGED tables
              \/ /\ sub'[req[s].id].state = "removed"
                 /\ \A u \in Sub \ {req[s].id} : sub'[u] = sub[u]
                 /\ UNCHANGED <<conn, source>> /\ TablesOK'
                 /\ Settles(s, "ok", {})
<1>1. /\ req[s].op = "deleteSub" /\ InFlight(s) /\ req[s].id \in Sub
  BY DEF DeleteSub, Is, InFlight, RequestsOK, AskedOK, MayAsk
<1>2. CASE Refuse(s)
  BY <1>1, <1>2, RefuseServes
<1>3. CASE /\ sub' = [sub EXCEPT ![req[s].id].state = "removed"]
           /\ Answer(s, "ok", {}) /\ UNCHANGED <<conn, source>>
  <2> DEFINE row == [sub[req[s].id] EXCEPT !.state = "removed"]
  <2>1. sub' = [sub EXCEPT ![req[s].id] = row]
    BY <1>1, <1>3
  <2>2. row \in SubRow /\ row.state = "removed"
    BY <1>1 DEF SubRow, TablesOK
  <2>3. /\ TablesOK' /\ sub'[req[s].id] = row
        /\ \A u \in Sub \ {req[s].id} : sub'[u] = sub[u]
    BY <1>1, <1>3, <2>1, <2>2 DEF TablesOK
  <2>4. Settles(s, "ok", {})
    BY <1>1, <1>3, AnswerServes
  <2> QED
    BY <1>1, <1>3, <2>2, <2>3, <2>4
<1> QED
  BY <1>2, <1>3 DEF DeleteSub

------------------------------------------------------------------------------
(* Types.                                                                  *)

\* The type invariant of the specification follows.
LEMMA TypesImplied == TInv => TypeOK
<1> SUFFICES ASSUME TInv PROVE TypeOK
  OBVIOUS
<1>1. ASSUME NEW s \in Slot
      PROVE  /\ req[s].op \in Loads \cup Changes \cup {"none"}
             /\ req[s].at \in {"idle", "sent", "read", "done"}
             /\ req[s].at = "done" <=> req[s].answer # "none"
             /\ req[s].answer = "refused" => req[s].result = {}
             /\ req[s].op = "overview" => req[s].result \subseteq Source \cup Conn
             /\ req[s].op = "listSubs" => req[s].result \subseteq Sub
             /\ req[s].op \in {"listActive", "listDeleted", "createConn", "edit", "restore"} =>
                    req[s].result \subseteq Dto
             /\ req[s].then \in {"nothing", "overview", "deletion"}
  <2>1. req[s] \in RequestRecord /\ AnswerOK(req[s])
    BY DEF TInv, RequestsOK
  <2>2. req[s].op \in ConnOps \cup SubOps \cup {"none"}
        /\ req[s].at \in {"idle", "sent", "read", "done"}
        /\ req[s].then \in {"nothing", "overview", "deletion"}
    BY <2>1 DEF RequestRecord
  <2>3. ConnOps \cup SubOps = Loads \cup Changes
    BY DEF ConnOps, SubOps, Loads, Changes
  <2> QED
    BY <2>1, <2>2, <2>3 DEF AnswerOK, ConnOps
<1>2. ResourceTypeOK
  BY <1>1 DEF TInv, TablesOK, ResourceTypeOK
<1>3. SubTabTypeOK
  BY <1>1 DEF TInv, SubTabOK, SubTabTypeOK
<1> QED
  BY <1>2, <1>3 DEF TInv, MountedOK, TypeOK

\* The first state has the types of the invariant.
LEMMA InitTypes == Init => TInv
<1> SUFFICES ASSUME Init PROVE TInv
  OBVIOUS
<1>1. TablesOK
  <2>1. conn \in [Conn -> ConnRow]
    BY DashboardAssumption DEF Init, ConnRow
  <2>2. source \in [Source -> SourceRow]
    BY DEF Init, SourceRow
  <2>3. PICK t \in StoredSource :
            sub = [u \in Sub |-> [state |-> IF u \in StoredSub THEN "stored" ELSE "new",
                                  source |-> t]]
    BY DEF Init
  <2>4. sub \in [Sub -> SubRow]
    BY <2>3, DashboardAssumption DEF SubRow
  <2> QED
    BY <2>1, <2>2, <2>4 DEF TablesOK
<1>2. NoRequest \in RequestRecord /\ AskedOK(NoRequest) /\ AnswerOK(NoRequest)
      /\ NoRequest.at = "idle" /\ NoRequest.op = "none"
  BY DEF NoRequest, RequestRecord, AskedOK, MayAsk, AnswerOK, ConnOps
<1>3. RequestsOK /\ OwnRequests
  BY <1>2 DEF Init, RequestsOK, OwnRequests, InFlight
<1>4. ConnTabTypeOK /\ SubTabOK /\ MountedOK
  BY DEF Init, ConnTabFresh, SubTabFresh, ConnTabTypeOK, SubTabOK, MountedOK
<1>5. events \in 0 .. MaxEvents
  BY ResourceAssumption DEF Init
<1>6. doubtful \in BOOLEAN
  BY DEF Init
<1> QED
  BY <1>1, <1>3, <1>4, <1>5, <1>6 DEF TInv

\* A step of the server changes the tables and answers.
LEMMA HandleServes ==
    ASSUME TInv, NEW s \in Slot, Handle(s)
    PROVE  RequestsOK' /\ TablesOK' /\ Serves(s)
<1> USE DEF TInv, Settles, GoesOn
<1>1. UNCHANGED tables => TablesOK'
  BY DEF tables, TablesOK
<1>2. CASE ListActive(s)
  BY <1>1, <1>2, ListActiveServes
<1>3. CASE ListDeleted(s)
  BY <1>1, <1>3, ListDeletedServes
<1>4. CASE ListSources(s)
  BY <1>1, <1>4, ListSourcesServes
<1>5. CASE ListChannels(s)
  BY <1>1, <1>5, ListChannelsServes
<1>6. CASE Read(s)
  BY <1>1, <1>6, ReadServesAll
<1>7. CASE ListSubs(s)
  BY <1>1, <1>7, ListSubsServes
<1>8. CASE CreateConn(s)
  BY <1>8, CreateConnServes
<1>9. CASE Edit(s)
  BY <1>9, EditServes
<1>10. CASE DeleteConn(s)
  BY <1>10, DeleteConnServes
<1>11. CASE RestoreConn(s)
  BY <1>11, RestoreConnServes
<1>12. CASE CreateSource(s)
  BY <1>12, CreateSourceServes
<1>13. CASE DeleteSource(s)
  BY <1>13, DeleteSourceServes
<1>14. CASE CreateSub(s)
  BY <1>1, <1>14, CreateSubServes
<1>15. CASE DeleteSub(s)
  BY <1>1, <1>15, DeleteSubServes
<1> QED
  BY <1>2, <1>3, <1>4, <1>5, <1>6, <1>7, <1>8, <1>9, <1>10, <1>11, <1>12, <1>13, <1>14,
     <1>15
  DEF Handle

\* A failure answers a request, or replaces its answer, with a refusal.
LEMMA FailsServes ==
    ASSUME RequestsOK, NEW s \in Slot, Fails(s)
    PROVE  Settles(s, "refused", {}) /\ UNCHANGED tables
<1>1. InFlight(s) /\ Refuse(s)
  BY DEF Fails, RequestFails, LoseAnswer, InFlight
<1> QED
  BY <1>1, RefuseServes

\* Whatever the server does, or fails to do, keeps the types.
LEMMA ServerKeepsTypes ==
    ASSUME TInv, NEW s \in Slot, Server(s) \/ Fails(s)
    PROVE  TInv'
<1>1. RequestsOK' /\ TablesOK' /\ Serves(s)
  <2>1. CASE Server(s)
    BY <2>1, HandleServes DEF Server
  <2>2. CASE Fails(s)
    <3>1. Settles(s, "refused", {}) /\ UNCHANGED tables
      BY <2>2, FailsServes DEF TInv
    <3> QED
      BY <3>1 DEF Settles, tables, TablesOK, TInv
  <2> QED
    BY <2>1, <2>2
<1>2. UNCHANGED <<connTabVars, subTabVars, currentTab>>
  BY DEF Server, Fails
<1>3. events' \in 0 .. MaxEvents
  BY ResourceAssumption DEF Server, Fails, RequestFails, LoseAnswer, Event, TInv
<1>4. OwnRequests'
  BY <1>1, <1>2 DEF Serves, OwnRequests, InFlight, TInv
<1>5. ConnTabTypeOK' /\ SubTabOK' /\ MountedOK'
  BY <1>2 DEF TInv, ConnTabTypeOK, SubTabOK, MountedOK, ConnTabFresh, SubTabFresh,
              connTabVars, connLists, connFlags, subTabVars, subTabLists, subTabFlags
<1>6. doubtful' \in BOOLEAN
  BY ZenonT(20) DEF Server, Fails, RequestFails, LoseAnswer, TInv
<1> QED
  BY <1>1, <1>3, <1>4, <1>5, <1>6 DEF TInv

------------------------------------------------------------------------------
(* What the user does.                                                     *)

\* A tab is mounted: it asks for its list.
LEMMA MountSends ==
    ASSUME TInv, NEW s \in Slot
    PROVE  /\ OpenConnections(s) =>
                  /\ currentTab' = "connections"
                  /\ ConnTabTypeOK' /\ UNCHANGED <<connLists, deletedLoaded>>
                  /\ \E r \in RequestRecord : Sends(s, r) /\ r.op = "listActive"
           /\ OpenGithub(s) =>
                  /\ currentTab' = "github"
                  /\ SubTabOK' /\ UNCHANGED subTabLists
                  /\ \E r \in RequestRecord : Sends(s, r) /\ r.op = "overview"
<1>1. ASSUME OpenConnections(s)
      PROVE  /\ currentTab' = "connections"
             /\ ConnTabTypeOK' /\ UNCHANGED <<connLists, deletedLoaded>>
             /\ \E r \in RequestRecord : Sends(s, r) /\ r.op = "listActive"
  <2> DEFINE r == Request("listActive", NoId, NoId, "nothing")
  <2>1. Send(s, r)
    BY <1>1 DEF OpenConnections, ConnTabMounts
  <2>2. Asks(r, "listActive", NoId, NoId)
    BY ConnRequests
  <2> HIDE DEF r
  <2>3. Sends(s, r) /\ r.op = "listActive" /\ r \in RequestRecord
    BY <2>1, <2>2, SendTakes DEF TInv, Asks, Sendable
  <2>4. ConnTabTypeOK' /\ UNCHANGED <<connLists, deletedLoaded>> /\ currentTab' = "connections"
    BY <1>1 DEF OpenConnections, ConnTabMounts, TInv, ConnTabTypeOK, connLists
  <2> QED
    BY <2>3, <2>4
<1>2. ASSUME OpenGithub(s)
      PROVE  /\ currentTab' = "github"
             /\ SubTabOK' /\ UNCHANGED subTabLists
             /\ \E r \in RequestRecord : Sends(s, r) /\ r.op = "overview"
  <2> DEFINE r == Request("overview", NoId, NoId, "nothing")
  <2>1. Send(s, r)
    BY <1>2 DEF OpenGithub, SubTabMounts
  <2>2. Asks(r, "overview", NoId, NoId)
    BY SubRequests
  <2> HIDE DEF r
  <2>3. Sends(s, r) /\ r.op = "overview" /\ r \in RequestRecord
    BY <2>1, <2>2, SendTakes DEF TInv, Asks, Sendable
  <2>4. SubTabOK' /\ UNCHANGED subTabLists /\ currentTab' = "github"
    BY <1>2 DEF OpenGithub, SubTabMounts, TInv, SubTabOK, subTabLists
  <2> QED
    BY <2>3, <2>4
<1> QED
  BY <1>1, <1>2

\* What the tab of the connections asks for when the user clicks.
ConnClickAsks(r) ==
    /\ r.op \in ConnOps \ {"listActive"}
    /\ r.op = "createConn" => conn[r.id].state = "new"
    /\ r.op \in {"edit", "deleteConn"} => r.id \in Ids(connections)

ConnSends(s) == \E r \in RequestRecord : Sends(s, r) /\ ConnClickAsks(r)

\* A click that sends a request keeps the requests in their ranges.
LEMMA SendsOne ==
    ASSUME TInv, NEW s \in Slot, NEW r, NEW o, NEW i, NEW v, Asks(r, o, i, v), Send(s, r)
    PROVE  Sends(s, r) /\ r.op = o /\ r.id = i /\ r.to = v /\ r \in RequestRecord
  BY SendTakes DEF TInv, Asks, Sendable

\* A click in the tab of the connections sends one request, or none.
LEMMA ConnectionsClickSends ==
    ASSUME TInv, ConnectionsClick
    PROVE  /\ currentTab = "connections"
           /\ UNCHANGED <<tables, subTabVars, currentTab, connLists, deletedLoaded>>
           /\ ConnTabTypeOK' /\ events' \in 0 .. MaxEvents
           /\ UNCHANGED <<req, doubtful>> \/ \E s \in Slot : ConnSends(s)
<1> USE DEF TInv, ConnTabTypeOK, connLists, ConnOps
<1> DEFINE Goal == /\ UNCHANGED <<connLists, deletedLoaded>>
                   /\ ConnTabTypeOK' /\ events' \in 0 .. MaxEvents
                   /\ UNCHANGED <<req, doubtful>> \/ \E s \in Slot : ConnSends(s)
<1>0. Event => events' \in 0 .. MaxEvents
  BY ResourceAssumption DEF Event
<1>1. ASSUME NEW s \in Slot, HandleCreate(s), Event PROVE Goal
  <2>1. PICK c \in Conn, v \in Value :
            conn[c].state = "new" /\ Send(s, Request("createConn", c, v, "nothing"))
    BY <1>1 DEF HandleCreate
  <2> DEFINE r == Request("createConn", c, v, "nothing")
  <2>2. Sends(s, r) /\ r.op = "createConn" /\ r.id = c /\ r.to = v /\ r \in RequestRecord
    BY <2>1, ConnRequests, SendsOne
  <2> HIDE DEF r
  <2>3. ConnSends(s)
    BY <2>1, <2>2 DEF ConnSends, ConnClickAsks
  <2> QED
    BY <1>0, <1>1, <2>3 DEF HandleCreate
<1>2. ASSUME NEW s \in Slot, HandleEdit(s), Event PROVE Goal
  <2>1. PICK v \in Value : Send(s, Request("edit", editingId, v, "nothing"))
    BY <1>2 DEF HandleEdit
  <2> DEFINE r == Request("edit", editingId, v, "nothing")
  <2>2. editingId \in Ids(connections) /\ editingId \in Conn
    BY <1>2 DEF HandleEdit, EditForm, Ids, Dto
  <2>3. Sends(s, r) /\ r.op = "edit" /\ r.id = editingId /\ r.to = v /\ r \in RequestRecord
    BY <2>1, <2>2, ConnRequests, SendsOne
  <2> HIDE DEF r
  <2>4. ConnSends(s)
    BY <2>2, <2>3 DEF ConnSends, ConnClickAsks
  <2> QED
    BY <1>0, <1>2, <2>4 DEF HandleEdit
<1>3. ASSUME NEW s \in Slot, NEW c \in Conn, HandleDelete(s, c), Event PROVE Goal
  <2> DEFINE r == Request("deleteConn", c, NoId, "nothing")
  <2>1. Send(s, r)
    BY <1>3 DEF HandleDelete
  <2>2. Sends(s, r) /\ r.op = "deleteConn" /\ r.id = c /\ r \in RequestRecord
    BY <2>1, ConnRequests, SendsOne
  <2> HIDE DEF r
  <2>3. ConnSends(s)
    BY <1>3, <2>2 DEF ConnSends, ConnClickAsks, HandleDelete
  <2> QED
    BY <1>0, <1>3, <2>3 DEF HandleDelete
<1>4. ASSUME NEW s \in Slot, NEW c \in Conn, HandleRestore(s, c), Event PROVE Goal
  <2> DEFINE r == Request("restore", c, NoId, "nothing")
  <2>1. Send(s, r)
    BY <1>4 DEF HandleRestore
  <2>2. Sends(s, r) /\ r.op = "restore" /\ r.id = c /\ r \in RequestRecord
    BY <2>1, ConnRequests, SendsOne
  <2> HIDE DEF r
  <2>3. ConnSends(s)
    BY <2>2 DEF ConnSends, ConnClickAsks
  <2> QED
    BY <1>0, <1>4, <2>3 DEF HandleRestore
<1>5. ASSUME NEW c \in Conn, OpenEdit(c), UNCHANGED <<req, events, doubtful>> PROVE Goal
  BY <1>5 DEF OpenEdit
<1>6. ASSUME NEW s \in Slot, ToggleDeleted(s), UNCHANGED events PROVE Goal
  <2>1. CASE LoadsDeleted
    <3> DEFINE r == Request("listDeleted", NoId, NoId, "nothing")
    <3>1. Send(s, r)
      BY <1>6, <2>1 DEF ToggleDeleted
    <3>2. Sends(s, r) /\ r.op = "listDeleted" /\ r \in RequestRecord
      BY <3>1, ConnRequests, SendsOne
    <3> HIDE DEF r
    <3>3. ConnSends(s)
      BY <3>2 DEF ConnSends, ConnClickAsks
    <3> QED
      BY <1>6, <2>1, <3>3 DEF ToggleDeleted
  <2>2. CASE ~LoadsDeleted
    BY <1>6, <2>2 DEF ToggleDeleted
  <2> QED
    BY <2>1, <2>2
<1>7. UNCHANGED <<tables, subTabVars, currentTab>> /\ currentTab = "connections"
  BY DEF ConnectionsClick
<1> HIDE DEF TInv, ConnTabTypeOK, connLists, ConnOps
<1>8. Goal
  <2> HIDE DEF Goal
  <2> QED
    BY <1>1, <1>2, <1>3, <1>4, <1>5, <1>6 DEF ConnectionsClick
<1> QED
  BY <1>7, <1>8

\* What the tab of the notifications asks for when the user clicks.
SubClickAsks(r) ==
    /\ r.op \in SubOps \ {"overview"}
    /\ r.op \in {"listSubs", "createSub"} => r.to = selectedSourceId'
    /\ r.op # "listSubs" => UNCHANGED selectedSourceId
    /\ r.op = "listSubs" => selectedSourceId' \in sources

SubSends(s) == \E r \in RequestRecord : Sends(s, r) /\ SubClickAsks(r)

\* A click in the tab of the notifications sends one request.
LEMMA GithubClickSends ==
    ASSUME TInv, GithubClick
    PROVE  /\ currentTab = "github"
           /\ UNCHANGED <<tables, connTabVars, currentTab, sources, channels, subscriptions>>
           /\ SubTabOK' /\ events' \in 0 .. MaxEvents
           /\ \E s \in Slot : SubSends(s)
<1> USE DEF TInv, SubTabOK, subTabLists, SubOps
<1> DEFINE Goal == /\ UNCHANGED <<sources, channels, subscriptions>>
                   /\ SubTabOK' /\ events' \in 0 .. MaxEvents
                   /\ \E s \in Slot : SubSends(s)
<1>0. Event => events' \in 0 .. MaxEvents
  BY ResourceAssumption DEF Event
<1>1. ASSUME NEW s \in Slot, NEW t \in Source, SelectSource(s, t), UNCHANGED events PROVE Goal
  <2> DEFINE r == Request("listSubs", NoId, t, "nothing")
  <2>1. Send(s, r)
    BY <1>1 DEF SelectSource
  <2>2. Sends(s, r) /\ r.op = "listSubs" /\ r.to = t /\ r \in RequestRecord
    BY <2>1, SubRequests, SendsOne
  <2> HIDE DEF r
  <2>3. SubSends(s)
    BY <1>1, <2>2 DEF SubSends, SubClickAsks, SelectSource
  <2> QED
    BY <1>1, <2>3 DEF SelectSource
<1>2. ASSUME NEW s \in Slot, HandleCreateSource(s), Event PROVE Goal
  <2>1. PICK t \in Source : Send(s, Request("createSource", t, NoId, "nothing"))
    BY <1>2 DEF HandleCreateSource
  <2> DEFINE r == Request("createSource", t, NoId, "nothing")
  <2>2. Sends(s, r) /\ r.op = "createSource" /\ r \in RequestRecord
    BY <2>1, SubRequests, SendsOne
  <2> HIDE DEF r
  <2>3. SubSends(s)
    BY <1>2, <2>2 DEF SubSends, SubClickAsks, HandleCreateSource
  <2> QED
    BY <1>0, <1>2, <2>3 DEF HandleCreateSource
<1>3. ASSUME NEW s \in Slot, NEW t \in Source, HandleDeleteSource(s, t), Event PROVE Goal
  <2> DEFINE r == Request("deleteSource", t, NoId, "nothing")
  <2>1. Send(s, r)
    BY <1>3 DEF HandleDeleteSource
  <2>2. Sends(s, r) /\ r.op = "deleteSource" /\ r \in RequestRecord
    BY <2>1, SubRequests, SendsOne
  <2> HIDE DEF r
  <2>3. SubSends(s)
    BY <1>3, <2>2 DEF SubSends, SubClickAsks, HandleDeleteSource
  <2> QED
    BY <1>0, <1>3, <2>3 DEF HandleDeleteSource
<1>4. ASSUME NEW s \in Slot, HandleCreateSub(s), Event PROVE Goal
  <2>1. PICK u \in Sub : Send(s, Request("createSub", u, selectedSourceId, "nothing"))
    BY <1>4 DEF HandleCreateSub
  <2> DEFINE r == Request("createSub", u, selectedSourceId, "nothing")
  <2>2. selectedSourceId \in Source
    BY <1>4 DEF HandleCreateSub
  <2>3. Sends(s, r) /\ r.op = "createSub" /\ r.to = selectedSourceId /\ r \in RequestRecord
    BY <2>1, <2>2, SubRequests, SendsOne
  <2> HIDE DEF r
  <2>4. SubSends(s)
    BY <1>4, <2>3 DEF SubSends, SubClickAsks, HandleCreateSub
  <2> QED
    BY <1>0, <1>4, <2>4 DEF HandleCreateSub
<1>5. ASSUME NEW s \in Slot, NEW u \in Sub, HandleDeleteSub(s, u), Event PROVE Goal
  <2> DEFINE r == Request("deleteSub", u, NoId, "nothing")
  <2>1. Send(s, r)
    BY <1>5 DEF HandleDeleteSub
  <2>2. Sends(s, r) /\ r.op = "deleteSub" /\ r \in RequestRecord
    BY <2>1, SubRequests, SendsOne
  <2> HIDE DEF r
  <2>3. SubSends(s)
    BY <1>5, <2>2 DEF SubSends, SubClickAsks, HandleDeleteSub
  <2> QED
    BY <1>0, <1>5, <2>3 DEF HandleDeleteSub
<1>6. UNCHANGED <<tables, connTabVars, currentTab>> /\ currentTab = "github"
  BY DEF GithubClick
<1> HIDE DEF TInv, SubTabOK, subTabLists, SubOps
<1>7. Goal
  <2> HIDE DEF Goal
  <2> QED
    BY <1>1, <1>2, <1>3, <1>4, <1>5 DEF GithubClick
<1> QED
  BY <1>6, <1>7

\* The user's steps keep the types.
LEMMA SendKeepsTypes ==
    ASSUME TInv, NEW s \in Slot, NEW r, Sends(s, r),
           currentTab \in {"other", TabOf(r.op)}, currentTab' = TabOf(r.op)
    PROVE  RequestsOK' /\ OwnRequests' /\ doubtful' \in BOOLEAN
<1>1. ASSUME NEW t \in Slot, InFlight(t)', ~req'[t].dropped
      PROVE  currentTab' = TabOf(req'[t].op)
  <2>1. CASE t = s
    BY <2>1 DEF Sends
  <2>2. CASE t # s
    <3>1. InFlight(t) /\ ~req[t].dropped /\ req'[t] = req[t]
      BY <1>1, <2>2 DEF Sends, InFlight
    <3>2. currentTab = TabOf(req[t].op) /\ currentTab # "other"
      BY <3>1 DEF TInv, OwnRequests, TabOf
    <3> QED
      BY <3>1, <3>2
  <2> QED
    BY <2>1, <2>2
<1> QED
  BY <1>1 DEF Sends, OwnRequests

\* Whatever the user does keeps the types.
LEMMA UserKeepsTypes ==
    ASSUME TInv, \/ \E s \in Slot : OpenConnections(s) \/ OpenGithub(s)
                 \/ ConnectionsClick
                 \/ GithubClick
    PROVE  TInv'
<1> USE DEF TInv
<1>1. ASSUME NEW s \in Slot, OpenConnections(s) PROVE TInv'
  <2>1. /\ currentTab = "other" /\ currentTab' = "connections"
        /\ UNCHANGED <<tables, events, subTabVars>>
    BY <1>1 DEF OpenConnections
  <2>2. PICK r \in RequestRecord : Sends(s, r) /\ r.op = "listActive"
    BY <1>1, MountSends
  <2>3. RequestsOK' /\ OwnRequests' /\ doubtful' \in BOOLEAN
    BY <2>1, <2>2, SendKeepsTypes DEF TabOf, ConnOps
  <2>4. ConnTabTypeOK'
    BY <1>1, MountSends
  <2>5. TablesOK' /\ SubTabOK' /\ MountedOK'
    BY <2>1 DEF MountedOK, SubTabFresh, SubTabOK, TablesOK, tables, subTabVars, subTabLists,
                subTabFlags
  <2> QED
    BY <2>1, <2>3, <2>4, <2>5
<1>2. ASSUME NEW s \in Slot, OpenGithub(s) PROVE TInv'
  <2>1. /\ currentTab = "other" /\ currentTab' = "github"
        /\ UNCHANGED <<tables, events, connTabVars>>
    BY <1>2 DEF OpenGithub
  <2>2. PICK r \in RequestRecord : Sends(s, r) /\ r.op = "overview"
    BY <1>2, MountSends
  <2>3. RequestsOK' /\ OwnRequests' /\ doubtful' \in BOOLEAN
    BY <2>1, <2>2, SendKeepsTypes DEF TabOf, ConnOps
  <2>4. SubTabOK'
    BY <1>2, MountSends
  <2>5. TablesOK' /\ ConnTabTypeOK' /\ MountedOK'
    BY <2>1
    DEF MountedOK, ConnTabFresh, ConnTabTypeOK, TablesOK, tables, connTabVars, connLists,
                connFlags
  <2> QED
    BY <2>1, <2>3, <2>4, <2>5
<1>3. CASE ConnectionsClick
  <2>1. /\ currentTab = "connections" /\ ConnTabTypeOK' /\ events' \in 0 .. MaxEvents
        /\ UNCHANGED <<tables, subTabVars, currentTab>>
        /\ UNCHANGED <<req, doubtful>> \/ \E s \in Slot : ConnSends(s)
    BY <1>3, ConnectionsClickSends
  <2>2. RequestsOK' /\ OwnRequests' /\ doubtful' \in BOOLEAN
    <3>1. ASSUME NEW s \in Slot, ConnSends(s)
          PROVE  RequestsOK' /\ OwnRequests' /\ doubtful' \in BOOLEAN
      <4>1. PICK r \in RequestRecord : Sends(s, r) /\ r.op \in ConnOps
        BY <3>1 DEF ConnSends, ConnClickAsks
      <4> QED
        BY <2>1, <4>1, SendKeepsTypes DEF TabOf
    <3>2. CASE UNCHANGED <<req, doubtful>>
      BY <2>1, <3>2 DEF RequestsOK, OwnRequests, InFlight
    <3> QED
      BY <2>1, <3>1, <3>2
  <2>3. TablesOK' /\ SubTabOK' /\ MountedOK'
    BY <2>1 DEF MountedOK, SubTabFresh, SubTabOK, TablesOK, tables, subTabVars, subTabLists,
                subTabFlags
  <2> QED
    BY <2>1, <2>2, <2>3
<1>4. CASE GithubClick
  <2>1. /\ currentTab = "github" /\ SubTabOK' /\ events' \in 0 .. MaxEvents
        /\ UNCHANGED <<tables, connTabVars, currentTab>>
        /\ \E s \in Slot : SubSends(s)
    BY <1>4, GithubClickSends
  <2>2. PICK s \in Slot, r \in RequestRecord : Sends(s, r) /\ r.op \in SubOps
    BY <2>1 DEF SubSends, SubClickAsks
  <2>3. RequestsOK' /\ OwnRequests' /\ doubtful' \in BOOLEAN
    BY <2>1, <2>2, SendKeepsTypes DEF TabOf, SubOps, ConnOps
  <2>4. TablesOK' /\ ConnTabTypeOK' /\ MountedOK'
    BY <2>1
    DEF MountedOK, ConnTabFresh, ConnTabTypeOK, TablesOK, tables, connTabVars, connLists,
                connFlags
  <2> QED
    BY <2>1, <2>3, <2>4
<1> QED
  BY <1>1, <1>2, <1>3, <1>4

\* Whoever leaves a tab does not listen to its requests any more.
LEMMA LeaveDrops ==
    ASSUME TInv, Leave
    PROVE  /\ RequestsOK' /\ currentTab' = "other" /\ ConnTabFresh' /\ SubTabFresh'
           /\ \A s \in Slot : InFlight(s)' => InFlight(s) /\ req'[s].dropped
           /\ UNCHANGED tables /\ doubtful' \in BOOLEAN /\ events' \in 0 .. MaxEvents
<1> USE DEF TInv
<1>1. ASSUME NEW s \in Slot
      PROVE  LET q == IF InFlight(s) THEN [req[s] EXCEPT !.dropped = TRUE] ELSE req[s]
             IN  /\ q \in RequestRecord
                 /\ q.op = req[s].op /\ q.at = req[s].at /\ q.id = req[s].id /\ q.to = req[s].to
                 /\ q.answer = req[s].answer /\ q.result = req[s].result
                 /\ InFlight(s) => q.dropped
  BY DEF RequestsOK, RequestRecord
<1>2. /\ req' \in [Slot -> RequestRecord]
      /\ \A s \in Slot :
             /\ req'[s].op = req[s].op /\ req'[s].at = req[s].at
             /\ req'[s].id = req[s].id /\ req'[s].to = req[s].to
             /\ req'[s].answer = req[s].answer /\ req'[s].result = req[s].result
             /\ InFlight(s) => req'[s].dropped
  BY <1>1 DEF Leave
<1>3. RequestsOK'
  <2>1. ASSUME NEW s \in Slot
        PROVE  /\ req'[s].at = "idle" <=> req'[s].op = "none"
               /\ AskedOK(req'[s]) /\ AnswerOK(req'[s])
    BY <1>2 DEF RequestsOK, AskedOK, AnswerOK
  <2> QED
    BY <1>2, <2>1 DEF RequestsOK
<1>4. events' \in 0 .. MaxEvents
  BY ResourceAssumption DEF Leave, Event
<1>5. ConnTabFresh' /\ SubTabFresh' /\ currentTab' = "other" /\ UNCHANGED tables
  BY DEF Leave, ConnTabReset, SubTabReset, ConnTabFresh, SubTabFresh
<1>6. doubtful' \in BOOLEAN
  BY DEF Leave
<1> QED
  BY <1>2, <1>3, <1>4, <1>5, <1>6 DEF InFlight

\* Leaving a tab keeps the types.
LEMMA LeaveKeepsTypes ==
    ASSUME TInv, Leave
    PROVE  TInv'
<1>1. TablesOK' /\ OwnRequests' /\ MountedOK'
  BY LeaveDrops DEF TInv, TablesOK, tables, OwnRequests, MountedOK
<1>2. ConnTabTypeOK' /\ SubTabOK'
  BY LeaveDrops DEF ConnTabTypeOK, SubTabOK, ConnTabFresh, SubTabFresh
<1> QED
  BY <1>1, <1>2, LeaveDrops DEF TInv

------------------------------------------------------------------------------
(* What an answer does to the requests and the types.                      *)

\* The slot of an answer is free, or is that of the load that follows.
Frees(s) ==
    /\ RequestsOK' /\ req'[s] = NoRequest
    /\ \A t \in Slot \ {s} : req'[t] = req[t]
    /\ doubtful' \in BOOLEAN
    /\ ~doubtful' => ~doubtful

Follows(s) ==
    /\ RequestsOK'
    /\ req'[s].op = "listSubs" /\ req'[s].at = "sent" /\ req'[s].answer = "none"
    /\ ~req'[s].dropped
    /\ req'[s].to = selectedSourceId' /\ selectedSourceId' \in Source
    /\ subsLoading' \in BOOLEAN
    /\ \A t \in Slot \ {s} : req'[t] = req[t]
    /\ doubtful' \in BOOLEAN
    /\ ~doubtful' => ~doubtful /\ \A t \in Slot \ {s} : ~InFlight(t)

\* The load that follows an answer takes its slot.
LEMMA LoadTakes ==
    ASSUME TInv, NEW s \in Slot, NEW t \in Source,
           NEW k \in {"nothing", "overview", "deletion"}, LoadSubscriptions(s, t, k)
    PROVE  Follows(s)
<1> DEFINE r == Request("listSubs", NoId, t, k)
<1>1. Asks(r, "listSubs", NoId, t)
  BY SubRequests
<1>2. req' = [req EXCEPT ![s] = r]
  BY DEF LoadSubscriptions
<1> HIDE DEF r
<1>3. /\ r \in RequestRecord /\ AskedOK(r) /\ AnswerOK(r)
      /\ r.op = "listSubs" /\ r.at = "sent" /\ r.answer = "none" /\ ~r.dropped /\ r.to = t
  BY <1>1 DEF Asks, Sendable, AnswerOK
<1>4. RequestsOK' /\ req'[s] = r /\ \A x \in Slot \ {s} : req'[x] = req[x]
  BY <1>2, <1>3, OneRequest DEF TInv
<1>5. selectedSourceId' = t /\ subsLoading' \in BOOLEAN
  BY DEF LoadSubscriptions
<1>6. doubtful' \in BOOLEAN /\ (~doubtful' => ~doubtful /\ \A x \in Slot \ {s} : ~InFlight(x))
  BY Zenon DEF LoadSubscriptions, TInv
<1> QED
  BY <1>3, <1>4, <1>5, <1>6 DEF Follows

\* An answer nobody listens to frees its slot.
LEMMA IgnoredFrees ==
    ASSUME TInv, NEW s \in Slot, Ignored(s)
    PROVE  Frees(s)
<1>1. req' = [req EXCEPT ![s] = NoRequest]
  BY DEF Ignored
<1>2. doubtful' \in BOOLEAN /\ (~doubtful' => ~doubtful)
  BY Zenon DEF Ignored, TInv
<1> QED
  BY <1>1, <1>2, SlotFreed DEF TInv, Frees

\* An answer of the tab of the connections frees its slot.
LEMMA ConnAnswered ==
    ASSUME TInv, NEW s \in Slot, req[s].at = "done", ~req[s].dropped, ConnectionsAnswered(s)
    PROVE  /\ currentTab = "connections" /\ req[s].op \in ConnOps
           /\ Frees(s) /\ ConnTabTypeOK'
           /\ req[s].op = "listActive" /\ ~doubtful' => Ok(s)
<1>1. req' = [req EXCEPT ![s] = NoRequest]
  BY DEF ConnectionsAnswered
<1>2. /\ doubtful' \in BOOLEAN /\ (~doubtful' => ~doubtful)
      /\ req[s].op = "listActive" /\ ~doubtful' => Ok(s)
  BY Zenon DEF ConnectionsAnswered, TInv
<1>3. req[s].op \in ConnOps
  BY DEF ConnectionsAnswered, ConnTabAnswered, ListActiveAnswered, ListDeletedAnswered,
         CreateAnswered, EditAnswered, DeleteAnswered, RestoreAnswered, ConnOps
<1>4. currentTab = "connections"
  BY <1>3 DEF TInv, OwnRequests, InFlight, TabOf
<1>5. req[s].result \subseteq Dto
  BY <1>3 DEF TInv, RequestsOK, AnswerOK
<1>6. ConnTabTypeOK'
  <2> USE DEF ConnTabTypeOK, TInv
  <2>1. CASE ListActiveAnswered(s)
    BY <1>5, <2>1 DEF ListActiveAnswered
  <2>2. CASE ListDeletedAnswered(s)
    <3>1. deletedLoaded' \in BOOLEAN
      BY <2>2 DEF ListDeletedAnswered
    <3> QED
      BY <1>5, <2>2, <3>1 DEF ListDeletedAnswered
  <2>3. CASE CreateAnswered(s)
    BY <1>5, <2>3 DEF CreateAnswered
  <2>4. CASE EditAnswered(s)
    BY <1>5, <2>4 DEF EditAnswered, Without
  <2>5. CASE DeleteAnswered(s)
    BY <2>5 DEF DeleteAnswered, Without
  <2>6. CASE RestoreAnswered(s)
    BY <1>5, <2>6 DEF RestoreAnswered, Without
  <2> QED
    BY <2>1, <2>2, <2>3, <2>4, <2>5, <2>6 DEF ConnectionsAnswered, ConnTabAnswered
<1> QED
  BY <1>1, <1>2, <1>3, <1>4, <1>6, SlotFreed DEF TInv, Frees

\* An answer of the tab of the notifications frees its slot, or a load follows.
LEMMA SubAnswered ==
    ASSUME TInv, NEW s \in Slot, req[s].at = "done", ~req[s].dropped, SubTabAnswered(s)
    PROVE  /\ currentTab = "github" /\ req[s].op \in SubOps
           /\ Frees(s) \/ Follows(s)
           /\ SubTabOK'
           /\ req[s].op \in {"overview", "listSubs"} /\ ~doubtful' => Granted(s)
<1>1. req[s].op \in SubOps
  BY DEF SubTabAnswered, OverviewAnswered, SubsAnswered, CreateSourceAnswered,
         DeleteSourceAnswered, CreateSubAnswered, DeleteSubAnswered, SubOps
<1>2. currentTab = "github"
  BY <1>1 DEF TInv, OwnRequests, InFlight, TabOf, ConnOps, SubOps
<1>3. /\ req[s].op = "overview" => req[s].result \subseteq Source \cup Conn
      /\ req[s].op = "listSubs" => req[s].result \subseteq Sub
      /\ req[s].answer = "refused" => req[s].result = {}
      /\ req[s].answer \in {"ok", "refused"}
      /\ AskedOK(req[s])
  BY DEF TInv, RequestsOK, AnswerOK, RequestRecord
<1>4. Released(s) => Frees(s)
  <2> SUFFICES ASSUME Released(s) PROVE Frees(s)
    OBVIOUS
  <2>1. req' = [req EXCEPT ![s] = NoRequest]
    BY DEF Released
  <2>2. doubtful' \in BOOLEAN /\ (~doubtful' => ~doubtful)
    BY Zenon DEF Released, TInv
  <2> QED
    BY <2>1, <2>2, SlotFreed DEF TInv, Frees
<1>5. ASSUME req' = [req EXCEPT ![s] = NoRequest], doubtful' = (doubtful \/ ~Granted(s))
      PROVE  Frees(s) /\ (~doubtful' => Granted(s))
  <2>1. doubtful' \in BOOLEAN /\ (~doubtful' => ~doubtful /\ Granted(s))
    BY <1>5, Zenon DEF TInv
  <2> QED
    BY <1>5, <2>1, SlotFreed DEF TInv, Frees
<1> DEFINE Goal == /\ Frees(s) \/ Follows(s)
                   /\ SubTabOK'
                   /\ req[s].op \in {"overview", "listSubs"} /\ ~doubtful' => Granted(s)
<1>6. ASSUME OverviewAnswered(s) PROVE Goal
  <2>1. /\ sources' \subseteq Source /\ channels' \subseteq Conn
        /\ UNCHANGED <<subscriptions, sourceLoading, subLoading, deletingSourceId,
                       deletingSubId>>
    BY <1>6, <1>3 DEF OverviewAnswered, TInv, SubTabOK
  <2>2. CASE Granted(s) /\ sources' # {}
    <3>1. PICK t \in sources' : LoadSubscriptions(s, t, "overview")
      BY <1>6, <2>2 DEF OverviewAnswered
    <3>2. Follows(s)
      BY <2>1, <3>1, LoadTakes
    <3>3. UNCHANGED sourcesLoading
      BY <1>6, <2>2 DEF OverviewAnswered
    <3>4. SubTabOK'
      BY <2>1, <3>2, <3>3 DEF TInv, SubTabOK, Follows
    <3> QED
      BY <2>2, <3>2, <3>4
  <2>3. CASE ~(Granted(s) /\ sources' # {})
    <3>1. /\ sourcesLoading' = FALSE
          /\ req' = [req EXCEPT ![s] = NoRequest]
          /\ doubtful' = (doubtful \/ ~Granted(s))
          /\ UNCHANGED <<selectedSourceId, subsLoading>>
      BY <1>6, <2>3 DEF OverviewAnswered
    <3>2. Frees(s) /\ (~doubtful' => Granted(s))
      BY <1>5, <3>1
    <3>3. SubTabOK'
      BY <2>1, <3>1 DEF TInv, SubTabOK
    <3> QED
      BY <3>2, <3>3
  <2> QED
    BY <2>2, <2>3
<1>7. ASSUME SubsAnswered(s) PROVE Goal
  <2>1. Frees(s) /\ (~doubtful' => Granted(s))
    BY <1>5, <1>7 DEF SubsAnswered
  <2>2. sourcesLoading' \in BOOLEAN
    BY <1>7 DEF SubsAnswered
  <2>3. SubTabOK'
    BY <1>3, <1>7, <2>2 DEF SubsAnswered, TInv, SubTabOK
  <2> QED
    BY <2>1, <2>3
<1>8. ASSUME CreateSourceAnswered(s) PROVE Goal
  <2>1. req[s].id \in Source /\ req[s].op = "createSource"
    BY <1>3, <1>8 DEF CreateSourceAnswered, AskedOK, MayAsk
  <2>2. /\ sources' \subseteq Source /\ sourceLoading' = FALSE
        /\ UNCHANGED <<channels, subscriptions, sourcesLoading, subLoading, deletingSourceId,
                       deletingSubId>>
    BY <1>8, <2>1 DEF CreateSourceAnswered, TInv, SubTabOK
  <2>3. CASE Granted(s) /\ selectedSourceId = NoId
    <3>1. Follows(s)
      BY <1>8, <2>1, <2>3, LoadTakes DEF CreateSourceAnswered
    <3>2. SubTabOK'
      BY <2>2, <3>1 DEF TInv, SubTabOK, Follows
    <3> QED
      BY <2>1, <3>1, <3>2
  <2>4. CASE ~(Granted(s) /\ selectedSourceId = NoId)
    <3>1. Released(s) /\ UNCHANGED <<selectedSourceId, subsLoading>>
      BY <1>8, <2>4 DEF CreateSourceAnswered
    <3>2. SubTabOK'
      BY <2>2, <3>1 DEF TInv, SubTabOK
    <3> QED
      BY <1>4, <2>1, <3>1, <3>2
  <2> QED
    BY <2>3, <2>4
<1>9. ASSUME DeleteSourceAnswered(s) PROVE Goal
  <2>1. /\ sources' \subseteq Source /\ req[s].op = "deleteSource"
        /\ UNCHANGED <<channels, sourcesLoading, sourceLoading, subLoading, deletingSubId>>
    BY <1>9 DEF DeleteSourceAnswered, TInv, SubTabOK
  <2>2. CASE /\ \E t \in sources' : LoadSubscriptions(s, t, "deletion")
             /\ UNCHANGED <<subscriptions, deletingSourceId>>
    <3>1. PICK t \in sources' : LoadSubscriptions(s, t, "deletion")
      BY <2>2
    <3>2. Follows(s)
      BY <2>1, <3>1, LoadTakes
    <3>3. SubTabOK'
      BY <2>1, <2>2, <3>2 DEF TInv, SubTabOK, Follows
    <3> QED
      BY <2>1, <3>2, <3>3
  <2>3. CASE /\ selectedSourceId' = NoId /\ subscriptions' = {} /\ deletingSourceId' = NoId
             /\ Released(s) /\ UNCHANGED subsLoading
    <3>1. SubTabOK'
      BY <2>1, <2>3 DEF TInv, SubTabOK
    <3> QED
      BY <1>4, <2>1, <2>3, <3>1
  <2>4. CASE /\ deletingSourceId' = NoId /\ Released(s)
             /\ UNCHANGED <<selectedSourceId, subscriptions, subsLoading>>
    <3>1. SubTabOK'
      BY <2>1, <2>4 DEF TInv, SubTabOK
    <3> QED
      BY <1>4, <2>1, <2>4, <3>1
  <2> HIDE DEF Goal
  <2> QED
    BY <1>9, <2>2, <2>3, <2>4 DEF DeleteSourceAnswered
<1>10. ASSUME CreateSubAnswered(s) PROVE Goal
  <2>1. req[s].id \in Sub /\ req[s].op = "createSub"
    BY <1>3, <1>10 DEF CreateSubAnswered, AskedOK, MayAsk
  <2>2. SubTabOK'
    BY <1>10, <2>1 DEF CreateSubAnswered, TInv, SubTabOK
  <2> QED
    BY <1>4, <1>10, <2>1, <2>2 DEF CreateSubAnswered
<1>11. ASSUME DeleteSubAnswered(s) PROVE Goal
  <2>1. req[s].op = "deleteSub"
    BY <1>11 DEF DeleteSubAnswered
  <2>2. SubTabOK'
    BY <1>11 DEF DeleteSubAnswered, TInv, SubTabOK
  <2> QED
    BY <1>4, <1>11, <2>1, <2>2 DEF DeleteSubAnswered
<1>12. Goal
  <2> HIDE DEF Goal
  <2> QED
    BY <1>6, <1>7, <1>8, <1>9, <1>10, <1>11 DEF SubTabAnswered
<1> QED
  BY <1>1, <1>2, <1>12

\* Whatever is answered keeps the types.
LEMMA AnswerKeepsTypes ==
    ASSUME TInv, NEW s \in Slot, Answered(s)
    PROVE  TInv'
<1> USE DEF TInv
<1>1. UNCHANGED <<tables, events, currentTab>> /\ req[s].at = "done"
  BY DEF Answered
<1>2. TablesOK'
  BY <1>1 DEF tables, TablesOK
<1>3. /\ Frees(s) \/ Follows(s)
      /\ ConnTabTypeOK' /\ SubTabOK' /\ MountedOK'
      /\ Follows(s) => Frees(s) \/ currentTab = "github"
  <2>1. CASE Ignored(s)
    <3>1. UNCHANGED <<connTabVars, subTabVars>>
      BY <2>1 DEF Ignored
    <3> QED
      BY <1>1, <2>1, <3>1, IgnoredFrees
      DEF ConnTabTypeOK, SubTabOK, MountedOK, ConnTabFresh, SubTabFresh, connTabVars,
          connLists,
          connFlags, subTabVars, subTabLists, subTabFlags
  <2>2. CASE ~req[s].dropped /\ ConnectionsAnswered(s)
    <3>1. UNCHANGED subTabVars
      BY <2>2 DEF ConnectionsAnswered
    <3>2. currentTab = "connections" /\ Frees(s) /\ ConnTabTypeOK'
      BY <1>1, <2>2, ConnAnswered
    <3> QED
      BY <1>1, <3>1, <3>2
      DEF SubTabOK, MountedOK, SubTabFresh, subTabVars, subTabLists, subTabFlags
  <2>3. CASE ~req[s].dropped /\ SubTabAnswered(s) /\ UNCHANGED connTabVars
    <3>1. currentTab = "github" /\ (Frees(s) \/ Follows(s)) /\ SubTabOK'
      BY <1>1, <2>3, SubAnswered
    <3> QED
      BY <1>1, <2>3, <3>1
      DEF ConnTabTypeOK, MountedOK, ConnTabFresh, connTabVars, connLists, connFlags
  <2> QED
    BY <2>1, <2>2, <2>3 DEF Answered
<1>4. OwnRequests'
  <2>1. CASE Frees(s)
    <3>1. ~InFlight(s)'
      BY <2>1 DEF Frees, InFlight, NoRequest
    <3>2. ASSUME NEW t \in Slot, InFlight(t)', ~req'[t].dropped
          PROVE  currentTab' = TabOf(req'[t].op)
      BY <1>1, <2>1, <3>1, <3>2 DEF Frees, InFlight, OwnRequests
    <3> QED
      BY <3>2 DEF OwnRequests
  <2>2. CASE Follows(s) /\ currentTab = "github"
    <3>1. ASSUME NEW t \in Slot, InFlight(t)', ~req'[t].dropped
          PROVE  currentTab' = TabOf(req'[t].op)
      <4>1. CASE t = s
        BY <1>1, <2>2, <4>1 DEF Follows, TabOf, ConnOps
      <4>2. CASE t # s
        BY <1>1, <2>2, <3>1, <4>2 DEF Follows, InFlight, OwnRequests
      <4> QED
        BY <4>1, <4>2
    <3> QED
      BY <3>1 DEF OwnRequests
  <2> QED
    BY <1>3, <2>1, <2>2
<1> QED
  BY <1>1, <1>2, <1>3, <1>4 DEF Frees, Follows

\* The types are inductive by themselves.
LEMMA NextKeepsTypes ==
    ASSUME TInv, [Next]_vars
    PROVE  TInv'
<1>1. CASE UNCHANGED vars
  <2>1. UNCHANGED <<tables, req, events, doubtful, connTabVars, subTabVars, currentTab>>
    BY <1>1 DEF vars, resourceVars
  <2>2. TablesOK' /\ RequestsOK' /\ OwnRequests'
    BY <2>1 DEF TInv, TablesOK, tables, RequestsOK, OwnRequests, InFlight
  <2>3. ConnTabTypeOK' /\ SubTabOK' /\ MountedOK'
    BY <2>1
    DEF TInv, ConnTabTypeOK, SubTabOK, MountedOK, ConnTabFresh, SubTabFresh, connTabVars,
                connLists, connFlags, subTabVars, subTabLists, subTabFlags
  <2> QED
    BY <2>1, <2>2, <2>3 DEF TInv
<1>2. CASE Next
  <2>1. ASSUME NEW s \in Slot, OpenConnections(s) \/ OpenGithub(s) PROVE TInv'
    BY <2>1, UserKeepsTypes
  <2>2. CASE Leave
    BY <2>2, LeaveKeepsTypes
  <2>3. CASE ConnectionsClick \/ GithubClick
    BY <2>3, UserKeepsTypes
  <2>4. ASSUME NEW s \in Slot, Server(s) \/ Fails(s) PROVE TInv'
    BY <2>4, ServerKeepsTypes
  <2>5. ASSUME NEW s \in Slot, Answered(s) PROVE TInv'
    BY <2>5, AnswerKeepsTypes
  <2> QED
    BY <1>2, <2>1, <2>2, <2>3, <2>4, <2>5 DEF Next
<1> QED
  BY <1>1, <1>2

\* Every behaviour stays within the types of the invariant.
LEMMA Typed == Spec => []TInv
<1>1. TInv /\ [Next]_vars => TInv'
  BY NextKeepsTypes
<1> QED
  BY <1>1, InitTypes, PTL DEF Spec

\* The tables, the requests, whoever listens to them and what the tabs hold are
\* what the model declares: a tab that is not mounted has no state, and a
\* request that is answered for a mounted tab is one of its own.
THEOREM DashboardTypeCorrect == Spec => []TypeOK
  BY Typed, TypesImplied, PTL

------------------------------------------------------------------------------
(* Orphans.                                                                *)

\* Only the server changes the tables.
LEMMA TablesChange ==
    ASSUME [Next]_vars
    PROVE  UNCHANGED tables \/ \E s \in Slot : Server(s) \/ Fails(s)
  BY DEF Next, vars, resourceVars, OpenConnections, OpenGithub, Leave, ConnectionsClick,
         GithubClick, Answered

\* No step of the server leaves a subscription without its source.
LEMMA HandleKeepsNoOrphans ==
    ASSUME TInv, NoOrphans, NEW s \in Slot, Handle(s)
    PROVE  NoOrphans'
<1> USE DEF TInv
<1>1. CASE UNCHANGED <<source, sub>>
  BY <1>1 DEF NoOrphans
<1>2. CASE CreateSource(s)
  <2>1. /\ source'[req[s].id] = "stored" /\ UNCHANGED sub
        /\ \A t \in Source \ {req[s].id} : source'[t] = source[t]
    BY <1>2, CreateSourceServes
  <2>2. ASSUME NEW u \in Sub PROVE sub[u].source \in Source
    BY DEF TablesOK, SubRow
  <2> QED
    BY <2>1, <2>2 DEF NoOrphans
<1>3. CASE DeleteSource(s)
  <2>1. /\ \A t \in Source \ {req[s].id} : source'[t] = source[t]
        /\ \A u \in Sub : IF sub[u] = [state |-> "stored", source |-> req[s].id]
                          THEN sub'[u].state = "removed" ELSE sub'[u] = sub[u]
    BY <1>3, DeleteSourceServes
  <2>2. ASSUME NEW u \in Sub, sub'[u].state = "stored"
        PROVE  source'[sub'[u].source] = "stored"
    <3>1. sub'[u] = sub[u] /\ sub[u] # [state |-> "stored", source |-> req[s].id]
      BY <2>1, <2>2
    <3>2. sub[u].source # req[s].id /\ sub[u].source \in Source
      BY <2>2, <3>1 DEF TablesOK, SubRow
    <3> QED
      BY <2>1, <2>2, <3>1, <3>2 DEF NoOrphans
  <2> QED
    BY <2>2 DEF NoOrphans
<1>4. CASE CreateSub(s)
  <2>1. \/ UNCHANGED tables
        \/ /\ source[req[s].to] = "stored"
           /\ sub'[req[s].id] = [state |-> "stored", source |-> req[s].to]
           /\ \A u \in Sub \ {req[s].id} : sub'[u] = sub[u]
           /\ UNCHANGED source
    BY <1>4, CreateSubServes
  <2> QED
    BY <2>1 DEF NoOrphans, tables
<1>5. CASE DeleteSub(s)
  <2>1. \/ UNCHANGED tables
        \/ /\ sub'[req[s].id].state = "removed"
           /\ \A u \in Sub \ {req[s].id} : sub'[u] = sub[u]
           /\ UNCHANGED source
    BY <1>5, DeleteSubServes
  <2> QED
    BY <2>1 DEF NoOrphans, tables
<1>6. \/ UNCHANGED <<source, sub>>
      \/ CreateSource(s) \/ DeleteSource(s) \/ CreateSub(s) \/ DeleteSub(s)
  BY DEF Handle, ListActive, ListDeleted, ListSources, ListChannels, Read, Proceed, Refuse,
         ListSubs, CreateConn, Edit, DeleteConn, RestoreConn, tables
<1> QED
  BY <1>1, <1>2, <1>3, <1>4, <1>5, <1>6

\* Only the server writes the tables.
LEMMA NextKeepsNoOrphans ==
    ASSUME TInv, NoOrphans, [Next]_vars
    PROVE  NoOrphans'
<1>1. CASE UNCHANGED tables
  BY <1>1 DEF tables, NoOrphans
<1>2. ASSUME NEW s \in Slot, Server(s) PROVE NoOrphans'
  BY <1>2, HandleKeepsNoOrphans DEF Server
<1>3. ASSUME NEW s \in Slot, Fails(s) PROVE NoOrphans'
  BY <1>1, <1>3, FailsServes DEF TInv
<1> QED
  BY <1>1, <1>2, <1>3, TablesChange

\* No subscription is without its source, in whatever order the use cases that
\* create and delete them read and write, also when their users have left.
THEOREM NeverOrphaned == Spec => []NoOrphans
<1>1. Init => NoOrphans
  BY DashboardAssumption DEF Init, NoOrphans
<1>2. TInv /\ NoOrphans /\ [Next]_vars => NoOrphans'
  BY NextKeepsNoOrphans
<1> QED
  BY <1>1, <1>2, Typed, PTL DEF Spec

------------------------------------------------------------------------------
(* The order of the requests.                                              *)

\* Every request loads a list or changes a row.
LEMMA LoadOrChange ==
    /\ ConnOps \cup SubOps = Loads \cup Changes
    /\ Loads \cap Changes = {}
    /\ "none" \notin Loads \cup Changes
  BY DEF ConnOps, SubOps, Loads, Changes

\* Nothing is sent that races with what is in flight.
LEMMA SendKeepsOrder ==
    ASSUME TInv, NEW s \in Slot, NEW r \in RequestRecord, Sends(s, r), ~doubtful',
           \/ Trusted /\ InOrder
           \/ r.op \in Loads
    PROVE  InOrder'
<1>1. /\ ~Races(r) /\ req'[s] = r /\ r.at = "sent" /\ ~r.dropped
      /\ \A t \in Slot \ {s} : req'[t] = req[t]
      /\ r.op \in Loads \cup Changes
  BY LoadOrChange DEF Sends, Sendable, RequestRecord
<1>2. ASSUME NEW t \in Slot \ {s}, InFlight(t)
      PROVE  /\ req[t].op \in Loads \cup Changes
             /\ req[t].op \in Changes <=> r.op \in Changes
             /\ r.op \in Changes => About(r) \cap About(req[t]) = {}
  <2>1. req[t].op \in Loads \cup Changes
    BY <1>2, LoadOrChange DEF InFlight, TInv, RequestsOK, RequestRecord
  <2>2. (r.op \in Loads <=> req[t].op \in Loads)
        /\ (r.op \in Changes => About(r) \cap About(req[t]) = {})
    BY <1>1, <1>2 DEF Races
  <2> QED
    BY <1>1, <2>1, <2>2, LoadOrChange
<1>3. CASE r.op \in Loads
  <2>1. \A t \in Slot : ~Changing(t)'
    BY <1>1, <1>2, <1>3, LoadOrChange DEF Changing, InFlight
  <2> QED
    BY <2>1 DEF InOrder
<1>4. CASE r.op \in Changes /\ InOrder
  <2>1. ASSUME NEW x \in Slot, Changing(x)'
        PROVE  /\ ~req'[x].dropped
               /\ \A t \in Slot \ {x} : InFlight(t)' =>
                      Changing(t)' /\ About(req'[x]) \cap About(req'[t]) = {}
    <3>1. CASE x = s
      BY <1>1, <1>2, <1>4, <3>1 DEF Changing, InFlight
    <3>2. CASE x # s
      <4>1. Changing(x) /\ req'[x] = req[x] /\ InFlight(x)
        BY <1>1, <2>1, <3>2 DEF Changing, InFlight
      <4>2. ~req'[x].dropped
        BY <1>4, <4>1 DEF InOrder
      <4>3. Changing(s)' /\ About(req'[x]) \cap About(req'[s]) = {}
        BY <1>1, <1>2, <1>4, <3>2, <4>1 DEF Changing, InFlight
      <4>4. ASSUME NEW t \in Slot \ {x}, t # s, InFlight(t)'
            PROVE  Changing(t)' /\ About(req'[x]) \cap About(req'[t]) = {}
        <5>1. req'[t] = req[t] /\ InFlight(t)
          BY <1>1, <4>4 DEF InFlight
        <5>2. Changing(t) /\ About(req[x]) \cap About(req[t]) = {}
          BY <1>4, <4>1, <5>1 DEF InOrder
        <5> QED
          BY <4>1, <4>4, <5>1, <5>2 DEF Changing
      <4> QED
        BY <4>2, <4>3, <4>4
    <3> QED
      BY <3>1, <3>2
  <2> QED
    BY <2>1 DEF InOrder
<1> QED
  BY <1>1, <1>3, <1>4, LoadOrChange

\* What the server does to a request leaves its place in the order.
LEMMA ServeKeepsOrder ==
    ASSUME InOrder, NEW s \in Slot, Serves(s)
    PROVE  InOrder'
<1>1. ASSUME NEW t \in Slot
      PROVE  /\ InFlight(t)' <=> InFlight(t)
             /\ Changing(t)' <=> Changing(t)
             /\ About(req'[t]) = About(req[t])
             /\ req'[t].dropped = req[t].dropped
  BY DEF Serves, InFlight, Changing, About
<1> QED
  BY <1>1 DEF InOrder

\* A slot that is freed disturbs no order.
LEMMA FreeKeepsOrder ==
    ASSUME InOrder, NEW s \in Slot, Frees(s)
    PROVE  InOrder'
<1>1. ~InFlight(s)' /\ ~Changing(s)'
  BY DEF Frees, InFlight, Changing, NoRequest
<1>2. \A t \in Slot \ {s} : req'[t] = req[t]
  BY DEF Frees
<1>3. \A t \in Slot \ {s} : (InFlight(t)' <=> InFlight(t)) /\ (Changing(t)' <=> Changing(t))
  BY <1>2 DEF InFlight, Changing
<1> QED
  BY <1>1, <1>2, <1>3 DEF InOrder

\* A load that follows an answer finds nothing else in flight.
LEMMA FollowKeepsOrder ==
    ASSUME NEW s \in Slot, Follows(s), ~doubtful'
    PROVE  InOrder'
<1>1. \A t \in Slot : ~Changing(t)'
  BY DEF Follows, Changing, InFlight, Changes
<1> QED
  BY <1>1 DEF InOrder

\* What an answer does to the slot.
LEMMA AnswerTakes ==
    ASSUME TInv, NEW s \in Slot, Answered(s)
    PROVE  Frees(s) \/ Follows(s)
<1>1. req[s].at = "done"
  BY DEF Answered
<1> QED
  BY <1>1, IgnoredFrees, ConnAnswered, SubAnswered DEF Answered

\* What has been sent is in order as long as it is not doubtful.
LEMMA NextKeepsOrder ==
    ASSUME TInv, Trusted => InOrder, [Next]_vars, Trusted'
    PROVE  InOrder'
<1>1. ASSUME NEW s \in Slot, OpenConnections(s) \/ OpenGithub(s) PROVE InOrder'
  <2>1. PICK r \in RequestRecord : Sends(s, r) /\ r.op \in Loads
    BY <1>1, MountSends DEF Loads
  <2> QED
    BY <2>1, SendKeepsOrder DEF Trusted
<1>2. CASE Leave
  BY <1>2 DEF Leave, Trusted
<1>3. ASSUME NEW s \in Slot, NEW r \in RequestRecord, Sends(s, r), UNCHANGED currentTab
      PROVE  InOrder'
  <2>1. Trusted
    BY <1>3 DEF Sends, Trusted
  <2> QED
    BY <1>3, <2>1, SendKeepsOrder DEF Trusted
<1>4. ASSUME UNCHANGED <<req, doubtful, currentTab>> PROVE InOrder'
  <2>1. Trusted
    BY <1>4 DEF Trusted
  <2> QED
    BY <1>4, <2>1 DEF InOrder, InFlight, Changing
<1>5. CASE ConnectionsClick
  BY <1>3, <1>4, <1>5, ConnectionsClickSends DEF ConnSends
<1>6. CASE GithubClick
  BY <1>3, <1>6, GithubClickSends DEF SubSends
<1>7. ASSUME NEW s \in Slot, Server(s) \/ Fails(s) PROVE InOrder'
  <2>1. Serves(s)
    BY <1>7, HandleServes, FailsServes DEF Server, TInv, Settles
  <2>2. ~doubtful /\ UNCHANGED currentTab
    BY <1>7 DEF Server, Fails, RequestFails, LoseAnswer, Trusted
  <2> QED
    BY <2>1, <2>2, ServeKeepsOrder DEF Trusted
<1>8. ASSUME NEW s \in Slot, Answered(s) PROVE InOrder'
  <2>1. UNCHANGED currentTab
    BY <1>8 DEF Answered
  <2>2. CASE Frees(s)
    <3>1. Trusted
      BY <2>1, <2>2 DEF Frees, Trusted
    <3> QED
      BY <2>2, <3>1, FreeKeepsOrder
  <2>3. CASE Follows(s)
    BY <2>3, FollowKeepsOrder DEF Trusted
  <2> QED
    BY <1>8, <2>2, <2>3, AnswerTakes
<1> QED
  BY <1>1, <1>2, <1>4, <1>5, <1>6, <1>7, <1>8 DEF Next, vars, resourceVars

------------------------------------------------------------------------------
(* The tab of the connections.                                             *)

ConnChanges == {"createConn", "edit", "deleteConn", "restore"}

\* The row of a change has no other request.
LEMMA RowAlone ==
    ASSUME TInv, InOrder, NEW s \in Slot, Changing(s), NEW c \in Conn, req[s].id = c
    PROVE  /\ ~req[s].dropped
           /\ \A t \in Slot \ {s} :
                  /\ InFlight(t) => req[t].op \in Changes /\ req[t].id # c
                  /\ req[t].op = "none" \/ req[t].op \in Changes
<1>1. ASSUME NEW t \in Slot \ {s}, InFlight(t)
      PROVE  req[t].op \in Changes /\ req[t].id # c
  <2>1. Changing(t) /\ About(req[s]) \cap About(req[t]) = {}
    BY <1>1 DEF InOrder
  <2>2. c \in About(req[s])
    BY DEF About
  <2> QED
    BY <2>1, <2>2 DEF Changing, About
<1> QED
  BY <1>1 DEF InOrder, InFlight, TInv, RequestsOK

\* A load in flight leaves no change in flight.
LEMMA LoadAlone ==
    ASSUME TInv, InOrder, NEW s \in Slot, InFlight(s), req[s].op \in Loads, NEW t \in Slot
    PROVE  req[t].op \notin Changes
<1>1. ~Changing(s)
  BY LoadOrChange DEF Changing
<1>2. ~Changing(t)
  BY <1>1 DEF InOrder
<1> QED
  BY <1>2, LoadOrChange DEF Changing, InFlight, TInv, RequestsOK

\* A request grants as before, or has nothing to grant for the row.
GrantsAs(t, c) ==
    \/ req'[t].op = req[t].op /\ req'[t].answer = req[t].answer /\ req'[t].id = req[t].id
    \/ /\ req[t].op \in ConnChanges /\ req[t].id = c => req[t].answer # "ok"
       /\ req'[t].op \in ConnChanges /\ req'[t].id = c => req'[t].answer # "ok"

\* A row that is not touched, and for which nothing new is granted.
LEMMA ActiveRowKept ==
    ASSUME NEW c \in Conn, conn'[c] = conn[c], RowOf(connections', c) = RowOf(connections, c),
           \A t \in Slot : GrantsAs(t, c), ActiveAt(c)
    PROVE  ActiveAt(c)'
<1>1. DtoOf(c)' = DtoOf(c) /\ DtoOf(c).id = c
  BY DEF DtoOf
<1>2. DtoOf(c) \in connections' <=> DtoOf(c) \in connections
  BY <1>1 DEF RowOf
<1>3. ASSUME NEW O \in SUBSET ConnChanges
      PROVE  (\E t \in Slot : Granting(t, O, c)) <=> (\E t \in Slot : Granting(t, O, c)')
  BY DEF GrantsAs, Granting
<1>4. {"createConn", "edit", "restore"} \in SUBSET ConnChanges
      /\ {"edit", "deleteConn"} \in SUBSET ConnChanges
  BY DEF ConnChanges
<1>5. /\ (\E t \in Slot : Granting(t, {"createConn", "edit", "restore"}, c)) =>
             \E t \in Slot : Granting(t, {"createConn", "edit", "restore"}, c)'
      /\ (\E t \in Slot : Granting(t, {"edit", "deleteConn"}, c)) =>
             \E t \in Slot : Granting(t, {"edit", "deleteConn"}, c)'
  BY <1>3, <1>4
<1> QED
  BY <1>1, <1>2, <1>5 DEF ActiveAt

\* The same for the list of the deleted connections.
LEMMA DeletedRowKept ==
    ASSUME NEW c \in Conn, conn'[c] = conn[c],
           RowOf(deletedConnections', c) = RowOf(deletedConnections, c),
           \A t \in Slot : GrantsAs(t, c), DeletedAt(c)
    PROVE  DeletedAt(c)'
<1>1. DtoOf(c)' = DtoOf(c) /\ DtoOf(c).id = c
  BY DEF DtoOf
<1>2. DtoOf(c) \in deletedConnections' <=> DtoOf(c) \in deletedConnections
  BY <1>1 DEF RowOf
<1>3. ASSUME NEW O \in SUBSET ConnChanges
      PROVE  (\E t \in Slot : Granting(t, O, c)) <=> (\E t \in Slot : Granting(t, O, c)')
  BY DEF GrantsAs, Granting
<1>4. {"deleteConn"} \in SUBSET ConnChanges /\ {"restore"} \in SUBSET ConnChanges
  BY DEF ConnChanges
<1>5. /\ (\E t \in Slot : Granting(t, {"deleteConn"}, c)) =>
             \E t \in Slot : Granting(t, {"deleteConn"}, c)'
      /\ (\E t \in Slot : Granting(t, {"restore"}, c)) =>
             \E t \in Slot : Granting(t, {"restore"}, c)'
  BY <1>3, <1>4
<1> QED
  BY <1>1, <1>2, <1>5 DEF DeletedAt

\* A request that is not touched, and of which neither is the row.
LEMMA ChangeKept ==
    ASSUME NEW t \in Slot, req'[t] = req[t], NEW c \in Conn, ChangeFits(t, c),
           req[t].op \in ConnChanges =>
               conn'[c] = conn[c] /\ RowOf(connections', c) = RowOf(connections, c)
    PROVE  ChangeFits(t, c)'
<1>1. CASE req[t].op \in ConnChanges
  <2>1. DtoOf(c)' = DtoOf(c) /\ RowOf(connections, c)' = RowOf(connections, c)
    BY <1>1 DEF DtoOf, RowOf
  <2> QED
    BY <1>1, <2>1 DEF ChangeFits
<1>2. CASE req[t].op \notin ConnChanges
  BY <1>2 DEF ChangeFits, ConnChanges
<1> QED
  BY <1>1, <1>2

\* A request that is not touched still fits, if its row is as it was.
LEMMA RequestKept ==
    ASSUME NEW t \in Slot, req'[t] = req[t], ConnRequestFits(t),
           \A c \in Conn : req[t].id = c /\ req[t].op \in ConnChanges =>
               conn'[c] = conn[c] /\ RowOf(connections', c) = RowOf(connections, c),
           Heard(t, {"listActive", "listDeleted"}) => UNCHANGED conn
    PROVE  ConnRequestFits(t)'
<1>1. ASSUME NEW c \in Conn, req'[t].id = c PROVE ChangeFits(t, c)'
  BY <1>1, ChangeKept DEF ConnRequestFits
<1>2. /\ Heard(t, {"listActive"})' <=> Heard(t, {"listActive"})
      /\ Heard(t, {"listDeleted"})' <=> Heard(t, {"listDeleted"})
      /\ Heard(t, {"listActive", "listDeleted"}) <=>
             Heard(t, {"listActive"}) \/ Heard(t, {"listDeleted"})
  BY DEF Heard, InFlight
<1>3. ASSUME UNCHANGED conn
      PROVE  RowsIn("live")' = RowsIn("live") /\ RowsIn("deleted")' = RowsIn("deleted")
  BY <1>3 DEF RowsIn, DtoOf
<1> QED
  BY <1>1, <1>2, <1>3 DEF ConnRequestFits

\* What the lists hold of the row of a change.
LEMMA RowShown ==
    ASSUME TInv, InOrder, ConnFit, NEW s \in Slot, Changing(s), NEW c \in Conn, req[s].id = c
    PROVE  /\ req[s].op \notin {"edit", "deleteConn"} \/ req[s].answer # "ok" =>
                  \A d \in RowOf(connections, c) : conn[c].state = "live" /\ d = DtoOf(c)
           /\ req[s].op \notin {"createConn", "edit", "restore"} \/ req[s].answer # "ok" =>
                  (conn[c].state = "live" => DtoOf(c) \in connections)
           /\ deletedLoaded /\ (req[s].op # "restore" \/ req[s].answer # "ok") =>
                  \A d \in RowOf(deletedConnections, c) :
                      conn[c].state = "deleted" /\ d = DtoOf(c)
           /\ deletedLoaded /\ (req[s].op # "deleteConn" \/ req[s].answer # "ok") =>
                  (conn[c].state = "deleted" => DtoOf(c) \in deletedConnections)
           /\ \A t \in Slot : ~Heard(t, Loads)
<1>1. \A t \in Slot \ {s} :
          /\ InFlight(t) => req[t].op \in Changes /\ req[t].id # c
          /\ req[t].op = "none" \/ req[t].op \in Changes
  BY RowAlone
<1>2. \A t \in Slot : ~Heard(t, Loads)
  BY <1>1, LoadOrChange DEF Heard, Changing
<1>3. ASSUME NEW t \in Slot \ {s}, NEW O \in SUBSET ConnChanges PROVE ~Granting(t, O, c)
  BY <1>1 DEF Granting, ConnChanges, InFlight, TInv, RequestsOK
<1>4. ActiveAt(c) /\ (deletedLoaded => DeletedAt(c))
  <2>1. \A t \in Slot : ~Heard(t, {"listActive"})
    BY <1>2 DEF Heard, Loads
  <2> QED
    BY <2>1 DEF ConnFit, ActiveFits, DeletedFits
<1>5. ASSUME NEW O \in SUBSET ConnChanges, \E t \in Slot : Granting(t, O, c)
      PROVE  req[s].op \in O /\ req[s].answer = "ok"
  BY <1>3, <1>5 DEF Granting
<1>6. /\ {"createConn", "edit", "restore"} \in SUBSET ConnChanges
      /\ {"edit", "deleteConn"} \in SUBSET ConnChanges
      /\ {"deleteConn"} \in SUBSET ConnChanges /\ {"restore"} \in SUBSET ConnChanges
  BY DEF ConnChanges
<1>7. /\ (\E t \in Slot : Granting(t, {"createConn", "edit", "restore"}, c)) =>
             req[s].op \in {"createConn", "edit", "restore"} /\ req[s].answer = "ok"
      /\ (\E t \in Slot : Granting(t, {"edit", "deleteConn"}, c)) =>
             req[s].op \in {"edit", "deleteConn"} /\ req[s].answer = "ok"
      /\ (\E t \in Slot : Granting(t, {"deleteConn"}, c)) =>
             req[s].op = "deleteConn" /\ req[s].answer = "ok"
      /\ (\E t \in Slot : Granting(t, {"restore"}, c)) =>
             req[s].op = "restore" /\ req[s].answer = "ok"
  BY <1>5, <1>6
<1> QED
  BY <1>2, <1>4, <1>7 DEF ActiveAt, DeletedAt

\* Something is sent, read or refused, or a list is answered: neither the table
\* nor the lists change.
LEMMA QuietStepFits ==
    ASSUME TInv, ConnFit, NEW s \in Slot,
           \A t \in Slot \ {s} : req'[t] = req[t],
           UNCHANGED <<conn, connLists, deletedLoaded>>,
           Heard(s, {"listActive"}) => Heard(s, {"listActive"})',
           \A c \in Conn : GrantsAs(s, c),
           ConnRequestFits(s)'
    PROVE  ConnFit'
<1>1. ASSUME NEW t \in Slot PROVE ConnRequestFits(t)'
  <2>1. ASSUME t # s PROVE ConnRequestFits(t)'
    BY <2>1, RequestKept DEF ConnFit, connLists
  <2> QED
    BY <2>1
<1>2. ASSUME NEW c \in Conn
      PROVE  (ActiveAt(c) => ActiveAt(c)') /\ (DeletedAt(c) => DeletedAt(c)')
  <2>1. \A t \in Slot : GrantsAs(t, c)
    BY DEF GrantsAs
  <2> QED
    BY <2>1, ActiveRowKept, DeletedRowKept DEF connLists
<1>3. (\A t \in Slot : ~Heard(t, {"listActive"})') => \A t \in Slot : ~Heard(t, {"listActive"})
  BY DEF Heard, InFlight
<1>4. ActiveFits'
  BY <1>2, <1>3 DEF ConnFit, ActiveFits
<1>5. DeletedFits'
  BY <1>2 DEF ConnFit, DeletedFits, connLists
<1> QED
  BY <1>1, <1>4, <1>5 DEF ConnFit

\* A row is changed, or the answer of its change is taken: the rest is as it was.
LEMMA RowStepFits ==
    ASSUME TInv, InOrder, ConnFit, NEW s \in Slot, Changing(s), req[s].op \in ConnChanges,
           NEW c \in Conn, req[s].id = c,
           \A t \in Slot \ {s} : req'[t] = req[t],
           \A d \in Conn \ {c} : /\ conn'[d] = conn[d]
                                 /\ RowOf(connections', d) = RowOf(connections, d)
                                 /\ RowOf(deletedConnections', d) = RowOf(deletedConnections, d)
                                 /\ GrantsAs(s, d),
           UNCHANGED deletedLoaded,
           ~deletedLoaded => deletedConnections' = {},
           ConnRequestFits(s)', ActiveAt(c)', deletedLoaded => DeletedAt(c)'
    PROVE  ConnFit'
<1>1. \A t \in Slot \ {s} :
          /\ InFlight(t) => req[t].op \in Changes /\ req[t].id # c
          /\ req[t].op = "none" \/ req[t].op \in Changes
  BY RowAlone
<1>2. ASSUME NEW t \in Slot PROVE ConnRequestFits(t)'
  <2>1. ASSUME t # s PROVE ConnRequestFits(t)'
    <3>1. ~Heard(t, {"listActive", "listDeleted"})
      BY <1>1, <2>1 DEF Heard, Changes
    <3>2. \A d \in Conn : req[t].id = d /\ req[t].op \in ConnChanges =>
              conn'[d] = conn[d] /\ RowOf(connections', d) = RowOf(connections, d)
      BY <1>1, <2>1 DEF ConnChanges, InFlight, TInv, RequestsOK
    <3> QED
      BY <2>1, <3>1, <3>2, RequestKept DEF ConnFit
  <2> QED
    BY <2>1
<1>3. ASSUME NEW d \in Conn, d # c
      PROVE  (ActiveAt(d) => ActiveAt(d)') /\ (DeletedAt(d) => DeletedAt(d)')
  <2>1. \A t \in Slot : GrantsAs(t, d)
    BY <1>3 DEF GrantsAs
  <2> QED
    BY <1>3, <2>1, ActiveRowKept, DeletedRowKept
<1>4. \A t \in Slot : ~Heard(t, {"listActive"})
  BY RowShown DEF Heard, Loads
<1>5. ActiveFits'
  BY <1>3, <1>4 DEF ConnFit, ActiveFits
<1>6. DeletedFits'
  BY <1>3 DEF ConnFit, DeletedFits
<1> QED
  BY <1>2, <1>5, <1>6 DEF ConnFit

\* The tab is mounted: its lists are empty and one is being loaded.
LEMMA MountFits ==
    ASSUME TInv, NEW s \in Slot, OpenConnections(s), ~doubtful'
    PROVE  ConnFit'
<1>1. PICK r \in RequestRecord : Sends(s, r) /\ r.op = "listActive"
  BY MountSends
<1>2. /\ req'[s] = r /\ r.at = "sent" /\ r.answer = "none" /\ ~r.dropped
      /\ \A t \in Slot \ {s} : req'[t] = req[t]
      /\ ~Races(r)
  BY <1>1 DEF Sends, Sendable
<1>3. ASSUME NEW t \in Slot \ {s}, InFlight(t) PROVE req[t].dropped /\ req[t].op \in Loads
  <2>1. req[t].dropped
    BY <1>3 DEF TInv, OwnRequests, OpenConnections, TabOf
  <2>2. req[t].op \in Loads
    BY <1>1, <1>2, <1>3 DEF Races, Loads
  <2> QED
    BY <2>1, <2>2
<1>4. ASSUME NEW t \in Slot PROVE ConnRequestFits(t)'
  <2>1. CASE t = s
    BY <1>1, <1>2, <2>1 DEF ConnRequestFits, ChangeFits
  <2>2. CASE t # s
    <3>1. ~Heard(t, {"listActive"})' /\ ~Heard(t, {"listDeleted"})'
      BY <1>2, <1>3, <2>2 DEF Heard, InFlight
    <3>2. req'[t].op \notin ConnChanges
      BY <1>2, <1>3, <2>2 DEF ConnChanges, Loads, InFlight, TInv, RequestsOK
    <3> QED
      BY <3>1, <3>2 DEF ConnRequestFits, ChangeFits, ConnChanges
  <2> QED
    BY <2>1, <2>2
<1>5. Heard(s, {"listActive"})'
  BY <1>1, <1>2 DEF Heard, InFlight
<1>6. ~deletedLoaded' /\ deletedConnections' = {}
  <2>1. ConnTabFresh /\ UNCHANGED <<connLists, deletedLoaded>>
    BY MountSends DEF TInv, MountedOK, OpenConnections
  <2> QED
    BY <2>1 DEF ConnTabFresh, connLists
<1> QED
  BY <1>4, <1>5, <1>6 DEF ConnFit, ActiveFits, DeletedFits

\* The user clicks.
LEMMA ClickFits ==
    ASSUME TInv, ConnFit, ConnectionsClick, ~doubtful'
    PROVE  ConnFit'
<1>1. UNCHANGED <<conn, connLists, deletedLoaded>>
  BY ConnectionsClickSends DEF tables
<1>2. CASE UNCHANGED <<req, doubtful>>
  <2>1. UNCHANGED <<conn, req, connections, deletedConnections, deletedLoaded>>
    BY <1>1, <1>2 DEF connLists
  <2>2. \A t \in Slot, c \in Conn : ChangeFits(t, c)' <=> ChangeFits(t, c)
    BY <2>1 DEF ChangeFits, RowOf, DtoOf
  <2>3. \A t \in Slot : ConnRequestFits(t) => ConnRequestFits(t)'
    BY <2>1, <2>2 DEF ConnRequestFits, Heard, InFlight, RowsIn, DtoOf
  <2>4. \A c \in Conn : (ActiveAt(c) => ActiveAt(c)') /\ (DeletedAt(c) => DeletedAt(c)')
    BY <2>1 DEF ActiveAt, DeletedAt, RowOf, DtoOf, Granting
  <2>5. (\A t \in Slot : ~Heard(t, {"listActive"})') => \A t \in Slot : ~Heard(t, {"listActive"})
    BY <2>1 DEF Heard, InFlight
  <2> QED
    BY <2>1, <2>3, <2>4, <2>5 DEF ConnFit, ActiveFits, DeletedFits
<1>3. ASSUME NEW s \in Slot, ConnSends(s) PROVE ConnFit'
  <2>1. PICK r \in RequestRecord : Sends(s, r) /\ ConnClickAsks(r)
    BY <1>3 DEF ConnSends
  <2>2. /\ ~InFlight(s) /\ req[s].op = "none"
        /\ req'[s] = r /\ r.at = "sent" /\ r.answer = "none" /\ AskedOK(r)
        /\ \A t \in Slot \ {s} : req'[t] = req[t]
        /\ ~Races(r)
    BY <2>1 DEF Sends, Sendable
  <2>3. \A c \in Conn : GrantsAs(s, c)
    BY <2>2 DEF GrantsAs, ConnChanges
  <2>4. ASSUME NEW c \in Conn, r.id = c, r.op \in {"edit", "deleteConn"}
        PROVE  RowOf(connections, c) = {DtoOf(c)}
    <3>1. \A t \in Slot : InFlight(t) => req[t].op \notin Loads /\ req[t].id # c
      <4>1. r.op \in Changes /\ r.op \notin Loads /\ c \in About(r)
        BY <2>4 DEF Changes, Loads, About
      <4> QED
        BY <2>2, <4>1 DEF Races, About
    <3>2. \A t \in Slot : ~Heard(t, {"listActive"}) /\ ~Granting(t, {"edit", "deleteConn"}, c)
      BY <3>1 DEF Heard, Granting, Loads, InFlight, TInv, RequestsOK
    <3>3. ActiveAt(c)
      BY <3>2 DEF ConnFit, ActiveFits
    <3>4. \A d \in RowOf(connections, c) : d = DtoOf(c)
      BY <3>2, <3>3 DEF ActiveAt
    <3>5. RowOf(connections, c) # {}
      BY <2>1, <2>4 DEF ConnClickAsks, Ids, RowOf
    <3> QED
      BY <3>4, <3>5
  <2>5. ASSUME NEW c \in Conn, r.id = c PROVE ChangeFits(s, c)'
    <3>1. DtoOf(c)' = DtoOf(c) /\ RowOf(connections, c)' = RowOf(connections, c)
      BY <1>1 DEF DtoOf, RowOf, connLists
    <3>2. r.op = "createConn" => conn[c].state = "new"
      BY <2>1, <2>5 DEF ConnClickAsks
    <3> QED
      BY <1>1, <2>2, <2>4, <2>5, <3>1, <3>2 DEF ChangeFits
  <2>6. ConnRequestFits(s)'
    BY <2>2, <2>5 DEF ConnRequestFits
  <2> QED
    BY <1>1, <2>2, <2>3, <2>6, QuietStepFits DEF Heard
<1> QED
  BY <1>2, <1>3, ConnectionsClickSends

\* The server changes a row: the change is alone with it.
LEMMA RowServedFits ==
    ASSUME TInv, InOrder, ConnFit, NEW s \in Slot, req[s].op \in ConnChanges,
           NEW c \in Conn, req[s].id = c, req[s].answer = "none",
           \A d \in Conn \ {c} : conn'[d] = conn[d],
           NEW R, Settles(s, "ok", R), UNCHANGED <<connLists, deletedLoaded>>,
           \/ /\ req[s].op = "createConn" /\ conn[c].state = "new"
              /\ conn'[c].state = "live" /\ R = {Renewed(c)}
           \/ /\ req[s].op = "edit" /\ conn[c].state = "live"
              /\ conn'[c].state = "live" /\ R = {Renewed(c)}
           \/ /\ req[s].op = "deleteConn" /\ conn[c].state = "live"
              /\ conn'[c].state = "deleted" /\ conn'[c].value = conn[c].value
           \/ /\ req[s].op = "restore" /\ conn[c].state = "deleted"
              /\ conn'[c].state = "live" /\ conn'[c].value = conn[c].value /\ R = {Renewed(c)}
    PROVE  ConnFit'
<1>1. /\ Changing(s) /\ Serves(s)
      /\ req'[s].op = req[s].op /\ req'[s].id = c
      /\ req'[s].at = "done" /\ req'[s].answer = "ok" /\ req'[s].result = R
      /\ \A t \in Slot \ {s} : req'[t] = req[t]
  BY DEF Settles, Serves, Changing, ConnChanges, Changes
<1>2. /\ DtoOf(c)' = Renewed(c)
      /\ conn'[c].value = conn[c].value => Renewed(c) = DtoOf(c)
  BY DEF DtoOf, Renewed
<1>3. /\ connections' = connections /\ deletedConnections' = deletedConnections
      /\ deletedLoaded' = deletedLoaded
      /\ RowOf(connections, c)' = RowOf(connections, c)
      /\ RowOf(deletedConnections, c)' = RowOf(deletedConnections, c)
  BY DEF connLists, RowOf
<1>4. ChangeFits(s, c)
  BY DEF ConnFit, ConnRequestFits
<1>5. ChangeFits(s, c)'
  BY <1>1, <1>2, <1>3, <1>4 DEF ChangeFits
<1>6. ConnRequestFits(s)'
  BY <1>1, <1>5 DEF ConnRequestFits, Heard, ConnChanges
<1>7. /\ \A d \in RowOf(connections, c) : conn[c].state = "live" /\ d = DtoOf(c)
      /\ conn[c].state = "live" => DtoOf(c) \in connections
      /\ deletedLoaded => \A d \in RowOf(deletedConnections, c) :
                              conn[c].state = "deleted" /\ d = DtoOf(c)
      /\ deletedLoaded => (conn[c].state = "deleted" => DtoOf(c) \in deletedConnections)
  BY <1>1, RowShown
<1>8. \A O : req[s].op \in O => \E t \in Slot : Granting(t, O, c)'
  BY <1>1 DEF Granting
<1>9. ActiveAt(c)'
  <2>1. CASE req[s].op \in {"createConn", "restore"}
    <3>1. RowOf(connections, c) = {}
      BY <1>7, <2>1
    <3> QED
      BY <1>3, <1>8, <2>1, <3>1 DEF ActiveAt
  <2>2. CASE req[s].op = "edit"
    BY <1>8, <2>2 DEF ActiveAt
  <2>3. CASE req[s].op = "deleteConn"
    <3>1. conn'[c].state # "live"
      BY <2>3
    <3> QED
      BY <1>8, <2>3, <3>1 DEF ActiveAt
  <2> QED
    BY <2>1, <2>2, <2>3 DEF ConnChanges
<1>10. ASSUME deletedLoaded PROVE DeletedAt(c)'
  <2>1. CASE req[s].op \in {"createConn", "edit"}
    <3>1. RowOf(deletedConnections, c) = {} /\ conn'[c].state # "deleted"
      BY <1>7, <1>10, <2>1
    <3> QED
      BY <1>3, <3>1 DEF DeletedAt
  <2>2. CASE req[s].op = "deleteConn"
    <3>1. RowOf(deletedConnections, c) = {}
      BY <1>7, <1>10, <2>2
    <3> QED
      BY <1>3, <1>8, <2>2, <3>1 DEF DeletedAt
  <2>3. CASE req[s].op = "restore"
    <3>1. conn'[c].state # "deleted"
      BY <2>3
    <3> QED
      BY <1>8, <2>3, <3>1 DEF DeletedAt
  <2> QED
    BY <2>1, <2>2, <2>3 DEF ConnChanges
<1>11. \A d \in Conn \ {c} : GrantsAs(s, d)
  BY <1>1 DEF GrantsAs
<1>12. ~deletedLoaded => deletedConnections' = {}
  BY <1>3 DEF ConnFit, DeletedFits
<1> QED
  BY <1>1, <1>3, <1>6, <1>9, <1>10, <1>11, <1>12, RowStepFits

\* The server answers or reads without a change to the connections.
LEMMA ServedQuietly ==
    ASSUME TInv, ConnFit, NEW s \in Slot, Serves(s), UNCHANGED <<conn, connLists, deletedLoaded>>,
           req[s].op \in ConnChanges => req[s].answer # "ok" /\ req'[s].answer # "ok",
           ConnRequestFits(s)'
    PROVE  ConnFit'
<1>1. /\ req'[s].op = req[s].op /\ req'[s].dropped = req[s].dropped /\ InFlight(s)'
      /\ \A t \in Slot \ {s} : req'[t] = req[t]
  BY DEF Serves, InFlight
<1>2. \A c \in Conn : GrantsAs(s, c)
  BY <1>1 DEF GrantsAs
<1>3. Heard(s, {"listActive"}) => Heard(s, {"listActive"})'
  BY <1>1 DEF Heard
<1> QED
  BY <1>1, <1>2, <1>3, QuietStepFits

\* The requests of the other tab say nothing of the connections.
LEMMA OtherRequest ==
    ASSUME NEW s \in Slot, req'[s].op \in SubOps
    PROVE  ConnRequestFits(s)'
  BY DEF ConnRequestFits, ChangeFits, Heard, SubOps

\* Whatever the server does, the tab of the connections fits.
LEMMA HandleFits ==
    ASSUME TInv, InOrder, ConnFit, NEW s \in Slot, Handle(s),
           UNCHANGED <<connLists, deletedLoaded>>
    PROVE  ConnFit'
<1> USE DEF TInv, Settles
<1>1. CASE ListActive(s)
  <2>1. /\ req[s].op = "listActive" /\ UNCHANGED tables /\ Serves(s)
        /\ req'[s].result = RowsIn("live")
    BY <1>1, ListActiveServes
  <2>2. req'[s].op = "listActive" /\ RowsIn("live")' = RowsIn("live")
    BY <2>1 DEF Serves, RowsIn, DtoOf, tables
  <2>3. ConnRequestFits(s)'
    BY <2>1, <2>2 DEF ConnRequestFits, Heard, ChangeFits
  <2> QED
    BY <2>1, <2>3, ServedQuietly DEF tables, ConnChanges
<1>2. CASE ListDeleted(s)
  <2>1. /\ req[s].op = "listDeleted" /\ UNCHANGED tables /\ Serves(s)
        /\ req'[s].result = RowsIn("deleted")
    BY <1>2, ListDeletedServes
  <2>2. req'[s].op = "listDeleted" /\ RowsIn("deleted")' = RowsIn("deleted")
    BY <2>1 DEF Serves, RowsIn, DtoOf, tables
  <2>3. ConnRequestFits(s)'
    BY <2>1, <2>2 DEF ConnRequestFits, Heard, ChangeFits
  <2> QED
    BY <2>1, <2>3, ServedQuietly DEF tables, ConnChanges
<1>3. ASSUME req[s].op \in SubOps, UNCHANGED conn PROVE ConnFit'
  <2>1. Serves(s)
    BY HandleServes
  <2>2. req'[s].op \in SubOps
    BY <1>3, <2>1 DEF Serves
  <2> QED
    BY <1>3, <2>1, <2>2, OtherRequest, ServedQuietly DEF SubOps, ConnChanges
<1>4. CASE ListSources(s) \/ ListChannels(s) \/ ListSubs(s) \/ CreateSource(s) \/ DeleteSource(s)
           \/ CreateSub(s) \/ DeleteSub(s)
  <2>1. req[s].op \in SubOps /\ UNCHANGED conn
    BY <1>4 DEF ListSources, ListChannels, ListSubs, CreateSource, DeleteSource, CreateSub,
                DeleteSub, Refuse, Is, SubOps, tables
  <2> QED
    BY <1>3, <2>1
<1>5. CASE Read(s)
  <2>1. /\ req[s].op \in ReadingOps /\ req[s].at = "sent" /\ UNCHANGED tables
        /\ \/ Settles(s, "refused", {})
           \/ /\ GoesOn(s, IF req[s].op = "restore" THEN {DtoOf(req[s].id)} ELSE {})
              /\ req[s].op \in {"edit", "deleteConn"} => conn[req[s].id].state = "live"
              /\ req[s].op = "restore" => conn[req[s].id].state = "deleted"
    BY <1>5, ReadServesAll
  <2>2. CASE req[s].op \in SubOps
    BY <1>3, <2>1, <2>2 DEF tables
  <2>3. CASE req[s].op \notin SubOps
    <3>1. req[s].op \in {"edit", "deleteConn", "restore"} /\ req[s].answer # "ok"
      BY <2>1, <2>3 DEF ReadingOps, SubOps, RequestsOK, AnswerOK
    <3>2. PICK c \in Conn : req[s].id = c
      BY <3>1 DEF RequestsOK, AskedOK, MayAsk
    <3>3. /\ Serves(s) /\ req'[s].answer # "ok"
          /\ req'[s].at = "read" =>
                 /\ req[s].op \in {"edit", "deleteConn"} => conn[c].state = "live"
                 /\ req[s].op = "restore" =>
                        conn[c].state = "deleted" /\ req'[s].result = {DtoOf(c)}
      BY <2>1, <3>2 DEF GoesOn
    <3>4. /\ req'[s].op = req[s].op /\ req'[s].id = c
          /\ DtoOf(c)' = DtoOf(c) /\ RowOf(connections, c)' = RowOf(connections, c)
      BY <2>1, <3>2, <3>3 DEF Serves, DtoOf, RowOf, tables, connLists
    <3>5. ChangeFits(s, c)
      BY <3>2 DEF ConnFit, ConnRequestFits
    <3>6. ChangeFits(s, c)'
      BY <2>1, <3>1, <3>3, <3>4, <3>5 DEF ChangeFits, tables
    <3>7. ConnRequestFits(s)'
      BY <3>1, <3>4, <3>6 DEF ConnRequestFits, Heard
    <3> QED
      BY <2>1, <3>1, <3>3, <3>7, ServedQuietly DEF tables
  <2> QED
    BY <2>2, <2>3
<1>6. \A t \in Slot : req[t].at # "done" => req[t].answer = "none"
  BY DEF RequestsOK, AnswerOK
<1>7. \A c \in Conn : req[s].id = c => ChangeFits(s, c)
  BY DEF ConnFit, ConnRequestFits
<1>8. CASE CreateConn(s)
  <2>1. req[s].op = "createConn" /\ req[s].at = "sent"
    BY <1>8, CreateConnServes
  <2>2. PICK c \in Conn :
            /\ req[s].id = c /\ conn'[c].state = "live"
            /\ \A d \in Conn \ {c} : conn'[d] = conn[d]
            /\ Settles(s, "ok", {Renewed(c)})
    BY <1>8, CreateConnServes
  <2>3. conn[c].state = "new"
    BY <1>7, <2>1, <2>2 DEF ChangeFits
  <2> QED
    BY <1>6, <2>1, <2>2, <2>3, RowServedFits DEF ConnChanges
<1>9. CASE Edit(s)
  <2>1. req[s].op = "edit" /\ req[s].at = "read"
    BY <1>9, EditServes
  <2>2. PICK c \in Conn :
            /\ req[s].id = c /\ conn'[c].state = conn[c].state
            /\ \A d \in Conn \ {c} : conn'[d] = conn[d]
            /\ Settles(s, "ok", {Renewed(c)})
    BY <1>9, EditServes
  <2>3. conn[c].state = "live"
    BY <1>7, <2>1, <2>2 DEF ChangeFits
  <2> QED
    BY <1>6, <2>1, <2>2, <2>3, RowServedFits DEF ConnChanges
<1>10. CASE DeleteConn(s)
  <2>1. req[s].op = "deleteConn" /\ req[s].at = "read"
    BY <1>10, DeleteConnServes
  <2>2. PICK c \in Conn :
            /\ req[s].id = c /\ conn'[c].state = "deleted" /\ conn'[c].value = conn[c].value
            /\ \A d \in Conn \ {c} : conn'[d] = conn[d]
            /\ Settles(s, "ok", {})
    BY <1>10, DeleteConnServes
  <2>3. conn[c].state = "live"
    BY <1>7, <2>1, <2>2 DEF ChangeFits
  <2> QED
    BY <1>6, <2>1, <2>2, <2>3, RowServedFits DEF ConnChanges
<1>11. CASE RestoreConn(s)
  <2>1. req[s].op = "restore" /\ req[s].at = "read"
    BY <1>11, RestoreConnServes
  <2>2. PICK c \in Conn :
            /\ req[s].id = c /\ conn'[c].state = "live" /\ conn'[c].value = conn[c].value
            /\ \A d \in Conn \ {c} : conn'[d] = conn[d]
            /\ Settles(s, "ok", req[s].result)
    BY <1>11, RestoreConnServes
  <2>3. conn[c].state = "deleted" /\ req[s].result = {DtoOf(c)}
    BY <1>7, <2>1, <2>2 DEF ChangeFits
  <2>4. Renewed(c) = DtoOf(c)
    BY <2>2 DEF Renewed, DtoOf
  <2> HIDE DEF Settles
  <2>5. Settles(s, "ok", {Renewed(c)})
    BY <2>2, <2>3, <2>4
  <2> QED
    BY <1>6, <2>1, <2>2, <2>3, <2>5, RowServedFits DEF ConnChanges
<1> QED
  BY <1>1, <1>2, <1>4, <1>5, <1>8, <1>9, <1>10, <1>11 DEF Handle

\* A request fails before it has changed anything.
LEMMA FailFits ==
    ASSUME TInv, ConnFit, NEW s \in Slot, Fails(s), ~doubtful',
           UNCHANGED <<connLists, deletedLoaded>>
    PROVE  ConnFit'
<1>1. Settles(s, "refused", {}) /\ UNCHANGED tables
  BY FailsServes DEF TInv
<1>2. req[s].answer = "none"
  BY DEF Fails, RequestFails, LoseAnswer, TInv, RequestsOK, AnswerOK
<1>3. /\ req'[s].op = req[s].op /\ req'[s].id = req[s].id
      /\ req'[s].at = "done" /\ req'[s].answer = "refused" /\ Serves(s)
  BY <1>1 DEF Settles, Serves
<1>4. ASSUME NEW c \in Conn, req[s].id = c PROVE ChangeFits(s, c)'
  <2>1. DtoOf(c)' = DtoOf(c) /\ RowOf(connections, c)' = RowOf(connections, c)
    BY <1>1 DEF DtoOf, RowOf, tables, connLists
  <2>2. ChangeFits(s, c)
    BY <1>4 DEF ConnFit, ConnRequestFits
  <2> QED
    BY <1>3, <2>1, <2>2 DEF ChangeFits
<1>5. ConnRequestFits(s)'
  BY <1>3, <1>4 DEF ConnRequestFits
<1> QED
  BY <1>1, <1>2, <1>3, <1>5, ServedQuietly DEF tables

\* The answer to a change is taken: both lists hold of the row what the table does.
LEMMA RowAnsweredFits ==
    ASSUME TInv, InOrder, ConnFit, NEW s \in Slot, Changing(s), req[s].op \in ConnChanges,
           NEW c \in Conn, req[s].id = c, Frees(s), UNCHANGED <<conn, deletedLoaded>>,
           \A d \in Conn \ {c} : /\ RowOf(connections', d) = RowOf(connections, d)
                                 /\ RowOf(deletedConnections', d) = RowOf(deletedConnections, d),
           RowOf(connections', c) = IF conn[c].state = "live" THEN {DtoOf(c)} ELSE {},
           deletedLoaded => RowOf(deletedConnections', c) =
                                IF conn[c].state = "deleted" THEN {DtoOf(c)} ELSE {},
           ~deletedLoaded => deletedConnections' = {}
    PROVE  ConnFit'
<1>1. /\ req'[s].op = "none" /\ req'[s].answer = "none" /\ req'[s].at = "idle"
      /\ \A t \in Slot \ {s} : req'[t] = req[t]
  BY DEF Frees, NoRequest
<1>2. ConnRequestFits(s)'
  BY <1>1 DEF ConnRequestFits, ChangeFits, Heard
<1>3. \A d \in Conn \ {c} : GrantsAs(s, d)
  BY <1>1 DEF GrantsAs, ConnChanges
<1>4. DtoOf(c)' = DtoOf(c)
  BY DEF DtoOf
<1>5. ActiveAt(c)'
  <2>1. /\ conn'[c].state = "live" => DtoOf(c) \in connections'
        /\ \A d \in RowOf(connections', c) : conn'[c].state = "live" /\ d = DtoOf(c)
    BY DEF RowOf
  <2>2. RowOf(connections, c)' = RowOf(connections', c)
    BY DEF RowOf
  <2> QED
    BY <1>4, <2>1, <2>2 DEF ActiveAt
<1>6. ASSUME deletedLoaded PROVE DeletedAt(c)'
  <2>1. /\ conn'[c].state = "deleted" => DtoOf(c) \in deletedConnections'
        /\ \A d \in RowOf(deletedConnections', c) : conn'[c].state = "deleted" /\ d = DtoOf(c)
    BY <1>6 DEF RowOf
  <2>2. RowOf(deletedConnections, c)' = RowOf(deletedConnections', c)
    BY DEF RowOf
  <2> QED
    BY <1>4, <2>1, <2>2 DEF DeletedAt
<1> QED
  BY <1>1, <1>2, <1>3, <1>5, <1>6, RowStepFits

\* An answer that changes nothing of what the tab shows.
LEMMA FreedFits ==
    ASSUME TInv, ConnFit, NEW s \in Slot, Frees(s), UNCHANGED <<conn, connLists, deletedLoaded>>,
           ~Heard(s, {"listActive"}), req[s].op \in ConnChanges => req[s].answer # "ok"
    PROVE  ConnFit'
<1>1. /\ req'[s].op = "none" /\ req'[s].answer = "none" /\ req'[s].at = "idle"
      /\ \A t \in Slot \ {s} : req'[t] = req[t]
  BY DEF Frees, NoRequest
<1>2. ConnRequestFits(s)'
  BY <1>1 DEF ConnRequestFits, ChangeFits, Heard
<1>3. \A c \in Conn : GrantsAs(s, c)
  BY <1>1 DEF GrantsAs, ConnChanges
<1> QED
  BY <1>1, <1>2, <1>3, QuietStepFits

\* The rows of a table are those of its DTOs.
LEMMA RowsOf ==
    ASSUME NEW state
    PROVE  /\ \A c \in Conn :
                  RowOf(RowsIn(state), c) = IF conn[c].state = state THEN {DtoOf(c)} ELSE {}
           /\ \A c \in Conn : DtoOf(c) \in RowsIn(state) <=> conn[c].state = state
<1>1. \A c, d \in Conn : DtoOf(c) = DtoOf(d) => c = d
  BY DEF DtoOf
<1>2. \A c \in Conn : DtoOf(c).id = c
  BY DEF DtoOf
<1>3. \A c \in Conn : DtoOf(c) \in RowsIn(state) <=> conn[c].state = state
  BY <1>1 DEF RowsIn
<1>4. ASSUME NEW c \in Conn, NEW d \in RowsIn(state), d.id = c PROVE d = DtoOf(c)
  BY <1>2, <1>4 DEF RowsIn
<1>5. ASSUME NEW c \in Conn
      PROVE  RowOf(RowsIn(state), c) = IF conn[c].state = state THEN {DtoOf(c)} ELSE {}
  BY <1>2, <1>3, <1>4 DEF RowOf
<1> QED
  BY <1>3, <1>5

\* A list is loaded: nothing is being changed.
LEMMA ListAnsweredFits ==
    ASSUME TInv, InOrder, ConnFit, NEW s \in Slot, InFlight(s), ~req[s].dropped,
           req[s].at = "done", ~doubtful', ConnectionsAnswered(s), UNCHANGED conn,
           ListActiveAnswered(s) \/ ListDeletedAnswered(s)
    PROVE  ConnFit'
<1>1. req[s].op \in Loads
  BY DEF ListActiveAnswered, ListDeletedAnswered, Loads
<1>2. \A t \in Slot : req[t].op \notin ConnChanges
  BY <1>1, LoadAlone DEF ConnChanges, Changes
<1>3. /\ Frees(s)
      /\ req[s].op = "listActive" => Ok(s)
  BY ConnAnswered
<1>4. /\ req'[s].op = "none" /\ req'[s].answer = "none" /\ req'[s].at = "idle"
      /\ \A t \in Slot \ {s} : req'[t] = req[t]
  BY <1>3 DEF Frees, NoRequest
<1>5. \A t \in Slot : ConnRequestFits(t)'
  <2>1. ASSUME NEW t \in Slot, t # s PROVE ConnRequestFits(t)'
    BY <1>2, <1>4, <2>1, RequestKept DEF ConnFit
  <2>2. ConnRequestFits(s)'
    BY <1>4 DEF ConnRequestFits, ChangeFits, Heard
  <2> QED
    BY <2>1, <2>2
<1>6. \A t \in Slot, c \in Conn : GrantsAs(t, c)
  BY <1>2, <1>4 DEF GrantsAs, ConnChanges
<1>7. \A c \in Conn, x \in {"live", "deleted"} :
          /\ RowOf(RowsIn(x), c) = IF conn[c].state = x THEN {DtoOf(c)} ELSE {}
          /\ DtoOf(c) \in RowsIn(x) <=> conn[c].state = x
          /\ DtoOf(c)' = DtoOf(c)
  BY RowsOf DEF DtoOf
<1>8. CASE ListActiveAnswered(s)
  <2>1. connections' = RowsIn("live") /\ UNCHANGED <<deletedConnections, deletedLoaded>>
    BY <1>3, <1>8 DEF ListActiveAnswered, ConnFit, ConnRequestFits, Heard, Ok
  <2>2. ASSUME NEW c \in Conn PROVE ActiveAt(c)'
    <3>1. RowOf(connections, c)' = IF conn[c].state = "live" THEN {DtoOf(c)} ELSE {}
      BY <1>7, <2>1 DEF RowOf
    <3> QED
      BY <1>7, <2>1, <3>1 DEF ActiveAt
  <2>3. DeletedFits'
    <3>1. ASSUME NEW c \in Conn, DeletedAt(c) PROVE DeletedAt(c)'
      BY <1>6, <2>1, <3>1, DeletedRowKept
    <3> QED
      BY <2>1, <3>1 DEF ConnFit, DeletedFits
  <2> QED
    BY <1>5, <2>2, <2>3 DEF ConnFit, ActiveFits
<1>9. CASE ListDeletedAnswered(s)
  <2>1. ActiveFits'
    <3>1. ASSUME NEW c \in Conn, ActiveAt(c) PROVE ActiveAt(c)'
      BY <1>6, <1>9, <3>1, ActiveRowKept DEF ListDeletedAnswered
    <3>2. (\A t \in Slot : ~Heard(t, {"listActive"})') => \A t \in Slot : ~Heard(t, {"listActive"})
      BY <1>4, <1>9 DEF Heard, InFlight, ListDeletedAnswered
    <3> QED
      BY <3>1, <3>2 DEF ConnFit, ActiveFits
  <2>2. CASE Ok(s)
    <3>1. deletedConnections' = RowsIn("deleted") /\ deletedLoaded'
      BY <1>9, <2>2 DEF ListDeletedAnswered, ConnFit, ConnRequestFits, Heard, Ok
    <3>2. ASSUME NEW c \in Conn PROVE DeletedAt(c)'
      <4>1. RowOf(deletedConnections, c)' = IF conn[c].state = "deleted" THEN {DtoOf(c)} ELSE {}
        BY <1>7, <3>1 DEF RowOf
      <4> QED
        BY <1>7, <3>1, <4>1 DEF DeletedAt
    <3> QED
      BY <1>5, <2>1, <3>1, <3>2 DEF ConnFit, DeletedFits
  <2>3. CASE ~Ok(s)
    <3>1. deletedConnections' = deletedConnections
      BY <1>9, <2>3 DEF ListDeletedAnswered
    <3>2. deletedLoaded' <=> deletedLoaded
      BY <1>9, <2>3, Zenon DEF ListDeletedAnswered
    <3>3. ASSUME NEW c \in Conn, DeletedAt(c) PROVE DeletedAt(c)'
      BY <1>6, <3>1, <3>3, DeletedRowKept
    <3> QED
      BY <1>5, <2>1, <3>1, <3>2, <3>3 DEF ConnFit, DeletedFits
  <2> QED
    BY <2>2, <2>3
<1> QED
  BY <1>8, <1>9

\* The answer to a change patches the lists.
LEMMA ChangeAnsweredFits ==
    ASSUME TInv, InOrder, ConnFit, NEW s \in Slot, req[s].at = "done",
           ~req[s].dropped, ConnectionsAnswered(s), UNCHANGED conn,
           CreateAnswered(s) \/ EditAnswered(s) \/ DeleteAnswered(s) \/ RestoreAnswered(s)
    PROVE  ConnFit'
<1>1. /\ req[s].op \in ConnChanges /\ Changing(s) /\ Frees(s)
      /\ req[s].answer \in {"ok", "refused"}
      /\ req[s].answer = "refused" => req[s].result = {}
  <2>1. req[s].op \in ConnChanges
    BY DEF CreateAnswered, EditAnswered, DeleteAnswered, RestoreAnswered, ConnChanges
  <2>2. Frees(s)
    BY ConnAnswered
  <2> QED
    BY <2>1, <2>2 DEF Changing, InFlight, ConnChanges, Changes, TInv, RequestsOK, AnswerOK,
                      RequestRecord
<1>2. PICK c \in Conn : req[s].id = c
  BY <1>1 DEF ConnChanges, TInv, RequestsOK, AskedOK, MayAsk
<1>3. UNCHANGED deletedLoaded
  BY DEF CreateAnswered, EditAnswered, DeleteAnswered, RestoreAnswered
<1>4. CASE ~Ok(s)
  <2>1. req[s].result = {}
    BY <1>1, <1>4 DEF Ok
  <2>2. UNCHANGED connLists
    BY <1>4, <2>1
    DEF CreateAnswered, EditAnswered, DeleteAnswered, RestoreAnswered, connLists
  <2> QED
    BY <1>1, <1>3, <1>4, <2>2, FreedFits DEF Ok, Heard, ConnChanges
<1>5. CASE Ok(s)
  <2>1. ChangeFits(s, c)
    BY <1>2 DEF ConnFit, ConnRequestFits
  <2>2. /\ req[s].op \notin {"edit", "deleteConn"} =>
               \A d \in RowOf(connections, c) : conn[c].state = "live" /\ d = DtoOf(c)
        /\ deletedLoaded /\ req[s].op # "restore" =>
               \A d \in RowOf(deletedConnections, c) : conn[c].state = "deleted" /\ d = DtoOf(c)
    BY <1>1, <1>2, RowShown
  <2>3. DtoOf(c).id = c
    BY DEF DtoOf
  <2>4. ~deletedLoaded => deletedConnections = {}
    BY DEF ConnFit, DeletedFits
  <2> DEFINE Others ==
                 \A d \in Conn \ {c} :
                     /\ RowOf(connections', d) = RowOf(connections, d)
                     /\ RowOf(deletedConnections', d) = RowOf(deletedConnections, d)
             Row ==
                 /\ RowOf(connections', c) = IF conn[c].state = "live" THEN {DtoOf(c)} ELSE {}
                 /\ deletedLoaded => RowOf(deletedConnections', c) =
                                         IF conn[c].state = "deleted" THEN {DtoOf(c)} ELSE {}
                 /\ ~deletedLoaded => deletedConnections' = {}
  <2>5. CASE CreateAnswered(s)
    <3>1. conn[c].state = "live" /\ req[s].result = {DtoOf(c)} /\ req[s].op = "createConn"
      BY <1>5, <2>1, <2>5 DEF ChangeFits, CreateAnswered, Ok
    <3>2. connections' = connections \cup {DtoOf(c)} /\ deletedConnections' = deletedConnections
      BY <2>5, <3>1 DEF CreateAnswered
    <3>3. Others
      BY <2>3, <3>2 DEF RowOf
    <3>4. RowOf(connections', c) = {DtoOf(c)}
      BY <2>2, <2>3, <3>1, <3>2 DEF RowOf
    <3>5. Row
      BY <2>2, <2>4, <3>1, <3>2, <3>4
    <3> QED
      BY <1>1, <1>2, <1>3, <3>3, <3>5, RowAnsweredFits
  <2>6. CASE EditAnswered(s)
    <3>1. /\ conn[c].state = "live" /\ req[s].result = {DtoOf(c)} /\ req[s].op = "edit"
          /\ RowOf(connections, c) # {}
      BY <1>5, <2>1, <2>6 DEF ChangeFits, EditAnswered, Ok
    <3>2. c \in Ids(connections)
      BY <3>1 DEF RowOf, Ids
    <3>3. /\ connections' = Without(connections, c) \cup {DtoOf(c)}
          /\ deletedConnections' = deletedConnections
      BY <1>2, <1>5, <2>6, <3>1, <3>2 DEF EditAnswered
    <3>4. Others
      BY <2>3, <3>3 DEF RowOf, Without
    <3>5. RowOf(connections', c) = {DtoOf(c)}
      BY <2>3, <3>3 DEF RowOf, Without
    <3>6. Row
      BY <2>2, <2>4, <3>1, <3>3, <3>5
    <3> QED
      BY <1>1, <1>2, <1>3, <3>4, <3>6, RowAnsweredFits
  <2>7. CASE DeleteAnswered(s)
    <3>1. /\ conn[c].state = "deleted" /\ req[s].op = "deleteConn"
          /\ RowOf(connections, c) = {DtoOf(c)}
      BY <1>5, <2>1, <2>7 DEF ChangeFits, DeleteAnswered, Ok
    <3>2. /\ connections' = Without(connections, c)
          /\ deletedConnections' = IF deletedLoaded THEN deletedConnections \cup {DtoOf(c)}
                                   ELSE deletedConnections
      BY <1>2, <1>5, <2>7, <3>1 DEF DeleteAnswered, RowOf
    <3>3. Others
      BY <2>3, <3>2 DEF RowOf, Without
    <3>4. RowOf(connections', c) = {}
      BY <3>2 DEF RowOf, Without
    <3>5. deletedLoaded => RowOf(deletedConnections', c) = {DtoOf(c)}
      BY <2>2, <2>3, <3>1, <3>2 DEF RowOf
    <3>6. Row
      BY <2>4, <3>1, <3>2, <3>4, <3>5
    <3> QED
      BY <1>1, <1>2, <1>3, <3>3, <3>6, RowAnsweredFits
  <2>8. CASE RestoreAnswered(s)
    <3>1. conn[c].state = "live" /\ req[s].result = {DtoOf(c)} /\ req[s].op = "restore"
      BY <1>5, <2>1, <2>8 DEF ChangeFits, RestoreAnswered, Ok
    <3>2. /\ connections' = connections \cup {DtoOf(c)}
          /\ deletedConnections' = Without(deletedConnections, c)
      BY <1>2, <1>5, <2>8, <3>1 DEF RestoreAnswered
    <3>3. Others
      BY <2>3, <3>2 DEF RowOf, Without
    <3>4. RowOf(connections', c) = {DtoOf(c)} /\ RowOf(deletedConnections', c) = {}
      BY <2>2, <2>3, <3>1, <3>2 DEF RowOf, Without
    <3>5. Row
      BY <2>4, <3>1, <3>2, <3>4 DEF Without
    <3> QED
      BY <1>1, <1>2, <1>3, <3>3, <3>5, RowAnsweredFits
  <2> QED
    BY <2>5, <2>6, <2>7, <2>8
<1> QED
  BY <1>4, <1>5

\* Whatever is done, the tab fits.
LEMMA NextKeepsConnections ==
    ASSUME TInv, Trusted => InOrder, ConnectionsFit, [Next]_vars
    PROVE  ConnectionsFit'
<1> SUFFICES ASSUME currentTab' = "connections", ~doubtful' PROVE ConnFit'
  BY DEF ConnectionsFit
<1>1. ASSUME NEW s \in Slot, OpenConnections(s) PROVE ConnFit'
  BY <1>1, MountFits
<1>2. ASSUME NEW s \in Slot PROVE ~OpenGithub(s)
  BY DEF OpenGithub
<1>3. ~Leave
  BY DEF Leave
<1>4. CASE ConnectionsClick
  <2>1. currentTab = "connections" /\ ~doubtful
    BY <1>4, ConnectionsClickSends DEF ConnSends, Sends
  <2> QED
    BY <1>4, <2>1, ClickFits DEF ConnectionsFit
<1>5. ~GithubClick
  BY DEF GithubClick
<1>6. ASSUME NEW s \in Slot, Server(s) \/ Fails(s) PROVE ConnFit'
  <2>1. /\ currentTab = "connections" /\ ~doubtful
        /\ UNCHANGED <<connLists, deletedLoaded>>
    BY <1>6 DEF Server, Fails, RequestFails, LoseAnswer, connTabVars, connFlags
  <2>2. ConnFit /\ InOrder
    BY <2>1 DEF ConnectionsFit, Trusted
  <2> QED
    BY <1>6, <2>1, <2>2, HandleFits, FailFits DEF Server
<1>7. ASSUME NEW s \in Slot, Answered(s) PROVE ConnFit'
  <2>1. /\ currentTab = "connections" /\ ~doubtful /\ UNCHANGED conn /\ req[s].at = "done"
    BY <1>7, AnswerTakes DEF Answered, tables, Frees, Follows
  <2>2. ConnFit /\ InOrder
    BY <2>1 DEF ConnectionsFit, Trusted
  <2>3. CASE Ignored(s)
    <3>1. Frees(s)
      BY <2>3, IgnoredFrees
    <3>2. UNCHANGED <<connLists, deletedLoaded>> /\ req[s].dropped
      BY <2>3 DEF Ignored, connTabVars, connFlags
    <3>3. req[s].op \notin ConnChanges
      BY <2>1, <2>2, <3>2 DEF InOrder, Changing, InFlight, ConnChanges, Changes
    <3> QED
      BY <2>1, <2>2, <3>1, <3>2, <3>3, FreedFits DEF Heard
  <2>4. CASE ~req[s].dropped /\ ConnectionsAnswered(s)
    BY <2>1, <2>2, <2>4, ListAnsweredFits, ChangeAnsweredFits
    DEF ConnectionsAnswered, ConnTabAnswered, InFlight
  <2>5. ~(~req[s].dropped /\ SubTabAnswered(s))
    BY <2>1, SubAnswered
  <2> QED
    BY <1>7, <2>3, <2>4, <2>5 DEF Answered
<1>8. CASE UNCHANGED vars
  <2>1. UNCHANGED <<conn, req, connections, deletedConnections, deletedLoaded, currentTab,
                    doubtful>>
    BY <1>8 DEF vars, resourceVars, tables, connTabVars, connLists, connFlags
  <2>2. ConnFit
    BY <2>1 DEF ConnectionsFit
  <2> QED
    BY <2>1, <2>2
    DEF ConnFit, ConnRequestFits, ChangeFits, ActiveFits, ActiveAt, DeletedFits,
                      DeletedAt, Heard, InFlight, Granting, RowOf, RowsIn, DtoOf
<1> QED
  BY <1>1, <1>2, <1>3, <1>4, <1>5, <1>6, <1>7, <1>8 DEF Next

\* Once nothing is in flight, what fits is what the table holds.
LEMMA ConnectionsFitShown ==
    ASSUME TInv, ConnectionsFit
    PROVE  ConnectionsShown
<1> SUFFICES ASSUME currentTab = "connections", Undoubted PROVE ConnTabAgrees
  BY DEF ConnectionsShown
<1>1. \A t \in Slot : req[t].op = "none"
  BY DEF Undoubted, InFlight, TInv, RequestsOK
<1>2. ConnFit
  BY DEF Undoubted, ConnectionsFit
<1>3. \A t \in Slot : ~Heard(t, {"listActive"})
  BY DEF Undoubted, Heard
<1>4. ASSUME NEW c \in Conn, NEW O \in SUBSET ConnChanges
      PROVE  \A t \in Slot : ~Granting(t, O, c)
  BY <1>1 DEF Granting, ConnChanges
<1>5. ASSUME NEW c \in Conn
      PROVE  /\ conn[c].state = "live" => DtoOf(c) \in connections
             /\ \A d \in connections : d.id = c => conn[c].state = "live" /\ d = DtoOf(c)
             /\ deletedLoaded =>
                    /\ conn[c].state = "deleted" => DtoOf(c) \in deletedConnections
                    /\ \A d \in deletedConnections :
                           d.id = c => conn[c].state = "deleted" /\ d = DtoOf(c)
  <2>1. ActiveAt(c) /\ (deletedLoaded => DeletedAt(c))
    BY <1>2, <1>3 DEF ConnFit, ActiveFits, DeletedFits
  <2>2. /\ \A t \in Slot : ~Granting(t, {"createConn", "edit", "restore"}, c)
        /\ \A t \in Slot : ~Granting(t, {"edit", "deleteConn"}, c)
        /\ \A t \in Slot : ~Granting(t, {"deleteConn"}, c)
        /\ \A t \in Slot : ~Granting(t, {"restore"}, c)
    BY <1>4 DEF ConnChanges
  <2> QED
    BY <2>1, <2>2 DEF ActiveAt, DeletedAt, RowOf
<1>6. /\ \A d \in connections : d.id \in Conn
      /\ \A d \in deletedConnections : d.id \in Conn
  BY DEF TInv, ConnTabTypeOK, Dto
<1>7. connections = {DtoOf(c) : c \in {d \in Conn : conn[d].state = "live"}}
  BY <1>5, <1>6
<1>8. deletedLoaded =>
          deletedConnections = {DtoOf(c) : c \in {d \in Conn : conn[d].state = "deleted"}}
  BY <1>5, <1>6
<1> QED
  BY <1>7, <1>8 DEF ConnTabAgrees

\* The types and the order of the requests hold throughout.
LEMMA InOrderInvariant ==
    Spec => [](TInv /\ (Trusted => InOrder))
<1>1. Init => (Trusted => InOrder)
  BY DEF Init, Trusted
<1>2. TInv /\ (Trusted => InOrder) /\ [Next]_vars => (Trusted => InOrder)'
  BY NextKeepsOrder
<1> QED
  BY <1>1, <1>2, Typed, PTL DEF Spec

\* With nothing in flight and nothing doubtful, the tab of the connections shows
\* the rows of the database: for every number of rows and requests, whatever
\* the order in which creations, edits, deletions and restorations of several
\* rows are sent, processed, refused and answered.
THEOREM ConnectionsAlwaysShown == Spec => []ConnectionsShown
<1>1. Init => ConnectionsFit
  BY DEF Init, ConnectionsFit
<1>2. TInv /\ (Trusted => InOrder) /\ ConnectionsFit /\ [Next]_vars => ConnectionsFit'
  BY NextKeepsConnections
<1>3. TInv /\ ConnectionsFit => ConnectionsShown
  BY ConnectionsFitShown
<1> QED
  BY <1>1, <1>2, <1>3, InOrderInvariant, PTL DEF Spec

------------------------------------------------------------------------------
(* The tab of the notifications.                                           *)

SubChanges == {"createSource", "deleteSource", "createSub", "deleteSub"}

\* What a change is about is in no other request.
LEMMA ChangeAlone ==
    ASSUME TInv, InOrder, NEW s \in Slot, Changing(s), NEW t \in Slot \ {s}
    PROVE  /\ ~req[s].dropped
           /\ req[t].op = "none" \/ req[t].op \in Changes
           /\ \A x \in Conn \cup Source \cup Sub :
                  x \in {req[s].id, req[s].to} /\ req[t].op # "none" =>
                      x \notin {req[t].id, req[t].to}
<1>1. ASSUME InFlight(t) PROVE Changing(t) /\ About(req[s]) \cap About(req[t]) = {}
  BY <1>1 DEF InOrder
<1>2. InFlight(t) \/ req[t].op = "none"
  BY DEF InFlight, TInv, RequestsOK
<1> QED
  BY <1>1, <1>2 DEF InOrder, Changing, About, InFlight, TInv, RequestsOK

GrantsSource(t) == req[t].op \in {"createSource", "deleteSource"} /\ req[t].answer = "ok"
GrantsSub(t) == req[t].op \in {"createSub", "deleteSub"} /\ req[t].answer = "ok"

\* A request that is not touched.
LEMMA SubRequestKept ==
    ASSUME NEW t \in Slot, req'[t] = req[t], SubRequestFits(t), UNCHANGED selectedSourceId,
           Heard(t, {"overview"}) => sources' = {} /\ subscriptions' = {} /\ UNCHANGED source,
           Heard(t, {"listSubs"}) => UNCHANGED sub,
           \A x \in Source : req[t].id = x /\ GrantsSource(t) => source'[x] = source[x],
           \A u \in Sub : req[t].id = u /\ GrantsSub(t) => sub'[u] = sub[u]
    PROVE  SubRequestFits(t)'
<1>1. /\ Heard(t, {"overview"})' <=> Heard(t, {"overview"})
      /\ Heard(t, {"listSubs"})' <=> Heard(t, {"listSubs"})
  BY DEF Heard, InFlight
<1>2. OverviewFits(t)'
  BY <1>1 DEF SubRequestFits, OverviewFits, StoredSources
<1>3. SubsLoadFits(t)'
  BY <1>1 DEF SubRequestFits, SubsLoadFits, InSelection
<1>4. ASSUME NEW x \in Source, req'[t].id = x PROVE SourceChangeFits(t, x)'
  BY <1>4 DEF SubRequestFits, SourceChangeFits, GrantsSource
<1>5. ASSUME NEW u \in Sub, req'[t].id = u PROVE SubChangeFits(t, u)'
  BY <1>5 DEF SubRequestFits, SubChangeFits, GrantsSub, InSelection
<1> QED
  BY <1>2, <1>3, <1>4, <1>5 DEF SubRequestFits

\* A request grants as before, or has nothing to grant for the row.
SubGrantsAs(t, x) ==
    \/ req'[t].op = req[t].op /\ req'[t].answer = req[t].answer /\ req'[t].id = req[t].id
    \/ /\ req[t].op \in SubChanges /\ req[t].id = x => req[t].answer # "ok"
       /\ req'[t].op \in SubChanges /\ req'[t].id = x => req'[t].answer # "ok"

\* What is granted for a row stays granted.
LEMMA SubGrantsSame ==
    ASSUME NEW x, \A t \in Slot : SubGrantsAs(t, x), NEW o \in SubChanges
    PROVE  (\E t \in Slot : Granting(t, {o}, x)) <=> (\E t \in Slot : Granting(t, {o}, x)')
  BY DEF SubGrantsAs, Granting

\* A source nothing is done to.
LEMMA SourceRowKept ==
    ASSUME NEW x \in Source, source'[x] = source[x], x \in sources' <=> x \in sources,
           \A t \in Slot : SubGrantsAs(t, x), SourceAt(x)
    PROVE  SourceAt(x)'
<1>1. "createSource" \in SubChanges /\ "deleteSource" \in SubChanges
  BY DEF SubChanges
<1>2. /\ (\E t \in Slot : Granting(t, {"createSource"}, x)) =>
             \E t \in Slot : Granting(t, {"createSource"}, x)'
      /\ (\E t \in Slot : Granting(t, {"deleteSource"}, x)) =>
             \E t \in Slot : Granting(t, {"deleteSource"}, x)'
  BY <1>1, SubGrantsSame
<1> QED
  BY <1>2 DEF SourceAt

\* A subscription nothing is done to.
LEMMA SubRowKept ==
    ASSUME NEW u \in Sub, sub'[u] = sub[u], u \in subscriptions' <=> u \in subscriptions,
           UNCHANGED selectedSourceId, SelectionGoes => SelectionGoes',
           \A t \in Slot : SubGrantsAs(t, u), SubAt(u)
    PROVE  SubAt(u)'
<1>1. "createSub" \in SubChanges /\ "deleteSub" \in SubChanges
  BY DEF SubChanges
<1>2. /\ (\E t \in Slot : Granting(t, {"createSub"}, u)) =>
             \E t \in Slot : Granting(t, {"createSub"}, u)'
      /\ (\E t \in Slot : Granting(t, {"deleteSub"}, u)) =>
             \E t \in Slot : Granting(t, {"deleteSub"}, u)'
  BY <1>1, SubGrantsSame
<1>3. InSelection(u)' <=> InSelection(u)
  BY DEF InSelection
<1> QED
  BY <1>2, <1>3 DEF SubAt

\* Something is sent, read or refused, or a list is answered by the server.
LEMMA SubQuietFits ==
    ASSUME TInv, SubFit, NEW s \in Slot,
           \A t \in Slot \ {s} : req'[t] = req[t],
           UNCHANGED <<source, sub, sources, selectedSourceId, subscriptions>>,
           Heard(s, {"overview"}) => Heard(s, {"overview"})',
           Heard(s, {"overview", "listSubs"}) => Heard(s, {"overview", "listSubs"})',
           \A x : SubGrantsAs(s, x),
           SubRequestFits(s)'
    PROVE  SubFit'
<1>1. ASSUME NEW t \in Slot PROVE SubRequestFits(t)'
  <2>1. ASSUME t # s PROVE SubRequestFits(t)'
    <3>1. SubRequestFits(t) /\ req'[t] = req[t]
      BY <2>1 DEF SubFit
    <3>2. Heard(t, {"overview"}) => sources' = {} /\ subscriptions' = {}
      BY <3>1 DEF SubRequestFits, OverviewFits
    <3> QED
      BY <3>1, <3>2, SubRequestKept
  <2> QED
    BY <2>1
<1>2. \A t \in Slot : \A x : SubGrantsAs(t, x)
  BY DEF SubGrantsAs
<1>3. SelectionGoes => SelectionGoes'
  <2>1. \A t \in Slot : SubGrantsAs(t, selectedSourceId)
    BY <1>2
  <2> QED
    BY <2>1 DEF SelectionGoes, SubGrantsAs, SubChanges
<1>4. /\ (\A t \in Slot : ~Heard(t, {"overview"})') => \A t \in Slot : ~Heard(t, {"overview"})
      /\ (\A t \in Slot : ~Heard(t, {"overview", "listSubs"})') =>
             \A t \in Slot : ~Heard(t, {"overview", "listSubs"})
  BY DEF Heard, InFlight
<1>5. SourcesFit'
  BY <1>2, <1>4, SourceRowKept DEF SubFit, SourcesFit
<1>6. SubsFit'
  BY <1>2, <1>3, <1>4, SubRowKept DEF SubFit, SubsFit
<1>7. SelectedFits'
  BY DEF SubFit, SelectedFits
<1> QED
  BY <1>1, <1>5, <1>6, <1>7 DEF SubFit

\* A change is made, or its answer is taken; the rest is as it was.
LEMMA SubChangeStepFits ==
    ASSUME TInv, InOrder, SubFit, NEW s \in Slot, Changing(s),
           \A t \in Slot \ {s} : req'[t] = req[t],
           UNCHANGED selectedSourceId,
           \A t \in Slot \ {s}, x \in Source :
               req[t].id = x /\ GrantsSource(t) => source'[x] = source[x],
           \A t \in Slot \ {s}, u \in Sub :
               req[t].id = u /\ GrantsSub(t) => sub'[u] = sub[u],
           SubRequestFits(s)', SelectedFits',
           \A x \in Source : SourceAt(x) => SourceAt(x)',
           \A u \in Sub : SubAt(u) => SubAt(u)'
    PROVE  SubFit'
<1>1. \A t \in Slot : ~Heard(t, {"overview"}) /\ ~Heard(t, {"overview", "listSubs"})
                      /\ ~Heard(t, {"listSubs"})
  BY ChangeAlone DEF Heard, Changing, Changes, InFlight
<1>2. ASSUME NEW t \in Slot PROVE SubRequestFits(t)'
  <2>1. ASSUME t # s PROVE SubRequestFits(t)'
    BY <1>1, <2>1, SubRequestKept DEF SubFit
  <2> QED
    BY <2>1
<1>3. SourcesFit' /\ SubsFit'
  BY <1>1 DEF SubFit, SourcesFit, SubsFit
<1> QED
  BY <1>2, <1>3 DEF SubFit

\* The requests of the other tab say nothing of the sources.
LEMMA OtherSubRequest ==
    ASSUME NEW s \in Slot, req'[s].op \in ConnOps \cup {"none"}
    PROVE  SubRequestFits(s)'
  BY DEF SubRequestFits, OverviewFits, SubsLoadFits, SourceChangeFits, SubChangeFits, Heard,
         ConnOps

\* The tab is mounted: its lists are empty and are being loaded.
LEMMA SubMountFits ==
    ASSUME TInv, NEW s \in Slot, OpenGithub(s), ~doubtful'
    PROVE  SubFit'
<1>1. PICK r \in RequestRecord : Sends(s, r) /\ r.op = "overview"
  BY MountSends
<1>2. /\ req'[s] = r /\ r.at = "sent" /\ r.answer = "none" /\ ~r.dropped
      /\ \A t \in Slot \ {s} : req'[t] = req[t]
      /\ ~Races(r)
  BY <1>1 DEF Sends, Sendable
<1>3. ASSUME NEW t \in Slot \ {s}, InFlight(t) PROVE req[t].dropped /\ req[t].op \in Loads
  <2>1. req[t].dropped
    BY <1>3 DEF TInv, OwnRequests, OpenGithub, TabOf
  <2>2. req[t].op \in Loads
    BY <1>1, <1>2, <1>3 DEF Races, Loads
  <2> QED
    BY <2>1, <2>2
<1>4. sources' = {} /\ selectedSourceId' = NoId /\ subscriptions' = {}
  <2>1. SubTabFresh /\ UNCHANGED subTabLists
    BY MountSends DEF TInv, MountedOK, OpenGithub
  <2> QED
    BY <2>1 DEF SubTabFresh, subTabLists
<1>5. ASSUME NEW t \in Slot PROVE SubRequestFits(t)'
  <2>1. CASE t = s
    <3>1. req'[t].op = "overview" /\ req'[t].at = "sent" /\ req'[t].answer = "none"
      BY <1>1, <1>2, <2>1
    <3> QED
      BY <1>4, <3>1 DEF SubRequestFits, OverviewFits, SubsLoadFits, SourceChangeFits,
                        SubChangeFits, Heard
  <2>2. CASE t # s
    <3>1. ~Heard(t, {"overview"})' /\ ~Heard(t, {"listSubs"})'
      BY <1>2, <1>3, <2>2 DEF Heard, InFlight
    <3>2. req'[t].op \notin SubChanges
      BY <1>2, <1>3, <2>2 DEF SubChanges, Loads, InFlight, TInv, RequestsOK
    <3> QED
      BY <3>1, <3>2 DEF SubRequestFits, OverviewFits, SubsLoadFits, SourceChangeFits,
                        SubChangeFits, SubChanges
  <2> QED
    BY <2>1, <2>2
<1>6. Heard(s, {"overview"})' /\ Heard(s, {"overview", "listSubs"})'
  BY <1>1, <1>2 DEF Heard, InFlight
<1> QED
  BY <1>4, <1>5, <1>6 DEF SubFit, SelectedFits, SourcesFit, SubsFit

\* The user clicks.
LEMMA SubClickFits ==
    ASSUME TInv, SubFit, GithubClick, ~doubtful'
    PROVE  SubFit'
<1>1. UNCHANGED <<source, sub, sources, subscriptions>>
  BY GithubClickSends DEF tables
<1>2. PICK s \in Slot, r \in RequestRecord : Sends(s, r) /\ SubClickAsks(r)
  BY GithubClickSends DEF SubSends
<1>3. /\ ~InFlight(s) /\ req[s].op = "none"
      /\ req'[s] = r /\ r.at = "sent" /\ r.answer = "none" /\ ~r.dropped
      /\ \A t \in Slot \ {s} : req'[t] = req[t]
      /\ ~Races(r)
  BY <1>2 DEF Sends, Sendable
<1>4. /\ r.op \in {"listSubs", "createSource", "deleteSource", "createSub", "deleteSub"}
      /\ r.op \in {"listSubs", "createSub"} => r.to = selectedSourceId'
      /\ r.op # "listSubs" => UNCHANGED selectedSourceId
      /\ r.op = "listSubs" => selectedSourceId' \in sources
  BY <1>2 DEF SubClickAsks, SubOps
<1>5. SubRequestFits(s)'
  BY <1>3, <1>4
  DEF SubRequestFits, OverviewFits, SubsLoadFits, SourceChangeFits, SubChangeFits,
                    Heard
<1>6. \A x : SubGrantsAs(s, x)
  BY <1>3 DEF SubGrantsAs, SubChanges
<1>7. CASE r.op # "listSubs"
  BY <1>1, <1>3, <1>4, <1>5, <1>6, <1>7, SubQuietFits DEF Heard
<1>8. CASE r.op = "listSubs"
  <2>1. ASSUME NEW t \in Slot, t # s PROVE SubRequestFits(t)'
    <3>1. ~Heard(t, {"overview"})
      BY <1>4, <1>8 DEF SubFit, SubRequestFits, OverviewFits
    <3>2. ~Heard(t, {"listSubs"}) /\ req[t].op \notin SubChanges
      BY <1>3, <1>8 DEF Races, Heard, InFlight, SubChanges, Loads, TInv, RequestsOK
    <3>3. /\ ~Heard(t, {"overview"})' /\ ~Heard(t, {"listSubs"})'
          /\ req'[t].op \notin SubChanges
      BY <1>3, <2>1, <3>1, <3>2 DEF Heard, InFlight
    <3> QED
      BY <3>3
      DEF SubRequestFits, OverviewFits, SubsLoadFits, SourceChangeFits, SubChangeFits,
                  SubChanges
  <2>2. Heard(s, {"overview", "listSubs"})'
    BY <1>3, <1>8 DEF Heard, InFlight
  <2>3. SubsFit'
    BY <2>2 DEF SubsFit
  <2>4. SourcesFit'
    <3>1. \A x \in Source : SourceAt(x) => SourceAt(x)'
      BY <1>1, <1>3, <1>6, SourceRowKept DEF SubGrantsAs
    <3>2. (\A t \in Slot : ~Heard(t, {"overview"})') => \A t \in Slot : ~Heard(t, {"overview"})
      BY <1>3 DEF Heard, InFlight
    <3> QED
      BY <3>1, <3>2 DEF SubFit, SourcesFit
  <2>5. SelectedFits'
    BY <1>1, <1>4, <1>8 DEF SelectedFits
  <2> QED
    BY <1>5, <2>1, <2>3, <2>4, <2>5 DEF SubFit
<1> QED
  BY <1>7, <1>8

\* The server answers or reads without a change to the sources and subscriptions.
LEMMA SubServedQuietly ==
    ASSUME TInv, SubFit, NEW s \in Slot, Serves(s), UNCHANGED <<source, sub, subTabLists>>,
           req[s].op \in SubChanges => req[s].answer # "ok" /\ req'[s].answer # "ok",
           SubRequestFits(s)'
    PROVE  SubFit'
<1>1. /\ req'[s].op = req[s].op /\ req'[s].dropped = req[s].dropped /\ InFlight(s)'
      /\ \A t \in Slot \ {s} : req'[t] = req[t]
  BY DEF Serves, InFlight
<1>2. \A x : SubGrantsAs(s, x)
  BY <1>1 DEF SubGrantsAs
<1>3. /\ Heard(s, {"overview"}) => Heard(s, {"overview"})'
      /\ Heard(s, {"overview", "listSubs"}) => Heard(s, {"overview", "listSubs"})'
  BY <1>1 DEF Heard
<1> QED
  BY <1>1, <1>2, <1>3, SubQuietFits DEF subTabLists

\* A request that has not been granted anything yet, and is not granted now.
LEMMA SubRefusedFits ==
    ASSUME TInv, SubFit, NEW s \in Slot, Serves(s), UNCHANGED <<source, sub, subTabLists>>,
           req[s].answer # "ok", req'[s].answer # "ok",
           req[s].op = "overview" => req'[s].at # "read"
    PROVE  SubFit'
<1>1. /\ req'[s].op = req[s].op /\ req'[s].dropped = req[s].dropped /\ req'[s].id = req[s].id
      /\ req'[s].to = req[s].to /\ (Heard(s, {"overview"})' <=> Heard(s, {"overview"}))
      /\ (Heard(s, {"listSubs"})' <=> Heard(s, {"listSubs"}))
  BY DEF Serves, InFlight, Heard
<1>2. SubRequestFits(s)
  BY DEF SubFit
<1>3. OverviewFits(s)' /\ SubsLoadFits(s)'
  BY <1>1, <1>2 DEF SubRequestFits, OverviewFits, SubsLoadFits, subTabLists, Heard
<1>4. ASSUME NEW x \in Source, req'[s].id = x PROVE SourceChangeFits(s, x)'
  BY DEF SourceChangeFits
<1>5. ASSUME NEW u \in Sub, req'[s].id = u PROVE SubChangeFits(s, u)'
  BY <1>1, <1>2, <1>5 DEF SubRequestFits, SubChangeFits, subTabLists
<1>6. SubRequestFits(s)'
  BY <1>3, <1>4, <1>5 DEF SubRequestFits
<1> QED
  BY <1>6, SubServedQuietly

\* The server creates or deletes a source, and the subscriptions with it.
LEMMA SourceServedFits ==
    ASSUME TInv, InOrder, SubFit, NEW s \in Slot, UNCHANGED subTabLists,
           CreateSource(s) \/ DeleteSource(s)
    PROVE  SubFit'
<1> USE DEF TInv
<1>1. PICK x \in Source : req[s].id = x
  BY CreateSourceServes, DeleteSourceServes
<1>2. /\ req[s].op \in {"createSource", "deleteSource"}
      /\ Settles(s, "ok", {})
      /\ \A y \in Source \ {x} : source'[y] = source[y]
      /\ req[s].op = "createSource" => source'[x] = "stored" /\ UNCHANGED sub
      /\ req[s].op = "deleteSource" =>
             /\ source'[x] = "removed"
             /\ \A u \in Sub : IF sub[u] = [state |-> "stored", source |-> x]
                               THEN sub'[u].state = "removed" ELSE sub'[u] = sub[u]
  BY <1>1, CreateSourceServes, DeleteSourceServes
<1>3. /\ Changing(s) /\ req'[s].op = req[s].op /\ req'[s].id = x /\ req'[s].answer = "ok"
      /\ \A t \in Slot \ {s} : req'[t] = req[t]
  BY <1>1, <1>2 DEF Settles, Serves, Changing, Changes
<1>4. UNCHANGED <<sources, selectedSourceId, subscriptions>>
  BY DEF subTabLists
<1>5. req[s].answer # "ok"
  BY DEF CreateSource, DeleteSource, Is, RequestsOK, AnswerOK
<1>6. ASSUME NEW t \in Slot \ {s}, req[t].op # "none" PROVE req[t].id # x /\ req[t].to # x
  BY <1>1, <1>3, <1>6, ChangeAlone
<1>7. ASSUME NEW t \in Slot \ {s}, NEW y \in Source, req[t].id = y, GrantsSource(t)
      PROVE  source'[y] = source[y]
  BY <1>2, <1>6, <1>7 DEF GrantsSource
<1>8. ASSUME NEW u \in Sub, sub[u] # [state |-> "stored", source |-> x]
      PROVE  sub'[u] = sub[u]
  BY <1>2, <1>8
<1>9. ASSUME NEW t \in Slot \ {s}, NEW u \in Sub, req[t].id = u, GrantsSub(t)
      PROVE  sub'[u] = sub[u]
  <2>1. SubChangeFits(t, u)
    BY <1>9 DEF SubFit, SubRequestFits
  <2>2. CASE req[t].op = "createSub"
    <3>1. sub[u] = [state |-> "stored", source |-> req[t].to] /\ req[t].to # x
      BY <1>6, <1>9, <2>1, <2>2 DEF SubChangeFits, GrantsSub, InSelection
    <3>2. sub[u].source # x
      BY <3>1
    <3> QED
      BY <1>8, <3>2
  <2>3. CASE req[t].op = "deleteSub"
    <3>1. sub[u].state # "stored"
      BY <1>9, <2>1, <2>3 DEF SubChangeFits, GrantsSub
    <3> QED
      BY <1>8, <3>1
  <2> QED
    BY <1>9, <2>2, <2>3 DEF GrantsSub
<1>10. SubRequestFits(s)'
  <2>1. SourceChangeFits(s, x)'
    BY <1>2, <1>3 DEF SourceChangeFits
  <2> QED
    BY <1>2, <1>3, <2>1
    DEF SubRequestFits, OverviewFits, SubsLoadFits, SubChangeFits, Heard
<1>11. SelectedFits'
  BY <1>4 DEF SubFit, SelectedFits
<1>12. ASSUME NEW y \in Source, SourceAt(y) PROVE SourceAt(y)'
  <2>1. CASE y = x
    <3>1. CASE req[s].op = "createSource"
      <4>1. \E t \in Slot : Granting(t, {"createSource"}, x)'
        BY <1>3, <3>1 DEF Granting
      <4> QED
        BY <1>2, <2>1, <3>1, <4>1 DEF SourceAt
    <3>2. CASE req[s].op = "deleteSource"
      <4>1. \E t \in Slot : Granting(t, {"deleteSource"}, x)'
        BY <1>3, <3>2 DEF Granting
      <4> QED
        BY <1>2, <2>1, <3>2, <4>1 DEF SourceAt
    <3> QED
      BY <1>2, <3>1, <3>2
  <2>2. CASE y # x
    <3>1. \A t \in Slot : SubGrantsAs(t, y)
      BY <1>1, <1>3, <2>2 DEF SubGrantsAs
    <3> QED
      BY <1>2, <1>4, <1>12, <2>2, <3>1, SourceRowKept
  <2> QED
    BY <2>1, <2>2
<1>13. SelectionGoes => SelectionGoes'
  BY <1>3, <1>4, <1>5 DEF SelectionGoes
<1>14. ASSUME NEW u \in Sub, SubAt(u) PROVE SubAt(u)'
  <2>1. \A t \in Slot, o \in {"createSub", "deleteSub"} :
            Granting(t, {o}, u)' <=> Granting(t, {o}, u)
    BY <1>2, <1>3 DEF Granting
  <2>2. InSelection(u)' => InSelection(u)
    <3>1. CASE sub[u] = [state |-> "stored", source |-> x]
      BY <1>2, <1>4, <3>1 DEF InSelection
    <3> QED
      BY <1>4, <1>8, <3>1 DEF InSelection
  <2>3. InSelection(u) => InSelection(u)' \/ SelectionGoes'
    <3>1. ASSUME InSelection(u), selectedSourceId # x PROVE InSelection(u)'
      <4>1. sub[u].source # x
        BY <3>1 DEF InSelection
      <4> QED
        BY <1>4, <1>8, <3>1, <4>1 DEF InSelection
    <3>2. ASSUME selectedSourceId = x, req[s].op = "deleteSource" PROVE SelectionGoes'
      BY <1>3, <1>4, <3>2 DEF SelectionGoes
    <3>3. req[s].op = "createSource" => (InSelection(u)' <=> InSelection(u))
      BY <1>2, <1>4 DEF InSelection
    <3> QED
      BY <1>2, <3>1, <3>2, <3>3
  <2> QED
    BY <1>4, <1>13, <1>14, <2>1, <2>2, <2>3 DEF SubAt
<1> QED
  BY <1>3, <1>4, <1>7, <1>9, <1>10, <1>11, <1>12, <1>14, SubChangeStepFits

\* The server creates or deletes a subscription.
LEMMA SubServedFits ==
    ASSUME TInv, InOrder, SubFit, NEW s \in Slot, UNCHANGED subTabLists,
           req[s].op \in {"createSub", "deleteSub"}, req[s].answer # "ok",
           NEW u \in Sub, req[s].id = u, UNCHANGED source,
           \A w \in Sub \ {u} : sub'[w] = sub[w],
           req[s].op = "createSub" => sub'[u] = [state |-> "stored", source |-> req[s].to],
           req[s].op = "deleteSub" => sub'[u].state # "stored",
           Settles(s, "ok", {})
    PROVE  SubFit'
<1>1. /\ Changing(s) /\ req'[s].op = req[s].op /\ req'[s].id = u /\ req'[s].answer = "ok"
      /\ req'[s].to = req[s].to
      /\ \A t \in Slot \ {s} : req'[t] = req[t]
  BY DEF Settles, Serves, Changing, Changes
<1>2. UNCHANGED <<sources, selectedSourceId, subscriptions>>
  BY DEF subTabLists
<1>3. SubChangeFits(s, u)
  BY DEF SubFit, SubRequestFits
<1>4. req[s].op = "createSub" => req[s].to = selectedSourceId /\ InSelection(u)'
  BY <1>2, <1>3 DEF SubChangeFits, InSelection
<1>5. SubRequestFits(s)'
  <2>1. SubChangeFits(s, u)'
    BY <1>1, <1>2, <1>4 DEF SubChangeFits
  <2> QED
    BY <1>1, <2>1 DEF SubRequestFits, OverviewFits, SubsLoadFits, SourceChangeFits, Heard
<1>6. SelectedFits'
  BY <1>2 DEF SubFit, SelectedFits
<1>7. ASSUME NEW t \in Slot \ {s}, NEW w \in Sub, req[t].id = w, GrantsSub(t)
      PROVE  sub'[w] = sub[w]
  <2>1. req[t].op # "none"
    BY <1>7 DEF GrantsSub
  <2> QED
    BY <1>1, <1>7, <2>1, ChangeAlone
<1>8. ASSUME NEW x \in Source, SourceAt(x) PROVE SourceAt(x)'
  <2>1. \A t \in Slot, o \in {"createSource", "deleteSource"} :
            Granting(t, {o}, x)' <=> Granting(t, {o}, x)
    BY <1>1 DEF Granting
  <2> QED
    BY <1>2, <1>8, <2>1 DEF SourceAt
<1>9. SelectionGoes' <=> SelectionGoes
  BY <1>1, <1>2 DEF SelectionGoes
<1>10. ASSUME NEW w \in Sub, SubAt(w) PROVE SubAt(w)'
  <2>1. CASE w = u
    <3>1. CASE req[s].op = "createSub"
      <4>1. \E t \in Slot : Granting(t, {"createSub"}, u)'
        BY <1>1, <3>1 DEF Granting
      <4> QED
        BY <1>4, <2>1, <3>1, <4>1 DEF SubAt
    <3>2. CASE req[s].op = "deleteSub"
      <4>1. \E t \in Slot : Granting(t, {"deleteSub"}, u)'
        BY <1>1, <3>2 DEF Granting
      <4>2. ~InSelection(u)'
        BY <3>2 DEF InSelection
      <4> QED
        BY <2>1, <4>1, <4>2 DEF SubAt
    <3> QED
      BY <3>1, <3>2
  <2>2. CASE w # u
    <3>1. \A t \in Slot : SubGrantsAs(t, w)
      BY <1>1, <2>2 DEF SubGrantsAs
    <3> QED
      BY <1>2, <1>9, <1>10, <2>2, <3>1, SubRowKept
  <2> QED
    BY <2>1, <2>2
<1> QED
  BY <1>1, <1>2, <1>5, <1>6, <1>7, <1>8, <1>10, SubChangeStepFits

\* Whatever the server does, the tab of the notifications fits.
LEMMA SubHandleFits ==
    ASSUME TInv, InOrder, SubFit, NEW s \in Slot, Handle(s), UNCHANGED subTabLists
    PROVE  SubFit'
<1> USE DEF TInv
<1>1. Serves(s) /\ req'[s].op = req[s].op
  BY HandleServes DEF Serves
<1>2. ASSUME req[s].op \in ConnOps, UNCHANGED <<source, sub>> PROVE SubFit'
  BY <1>1, <1>2, OtherSubRequest, SubServedQuietly DEF ConnOps, SubChanges
<1>3. CASE ListActive(s) \/ ListDeleted(s) \/ CreateConn(s) \/ Edit(s) \/ DeleteConn(s)
           \/ RestoreConn(s)
  <2>1. req[s].op \in ConnOps /\ UNCHANGED <<source, sub>>
    BY <1>3
    DEF ListActive, ListDeleted, CreateConn, Edit, DeleteConn, RestoreConn, Is, ConnOps,
                tables
  <2> QED
    BY <1>2, <2>1
<1>4. CASE ListSources(s)
  <2>1. /\ req[s].op = "overview" /\ UNCHANGED tables
        /\ req'[s].at = "read" /\ req'[s].answer = "none" /\ req'[s].result = StoredSources
    BY <1>4, ListSourcesServes DEF GoesOn
  <2>2. OverviewFits(s)
    BY DEF SubFit, SubRequestFits
  <2>3. Heard(s, {"overview"})' <=> Heard(s, {"overview"})
    BY <1>1, <2>1 DEF Serves, Heard, InFlight
  <2>4. OverviewFits(s)'
    BY <2>1, <2>2, <2>3 DEF OverviewFits, StoredSources, tables, subTabLists
  <2>5. SubRequestFits(s)'
    BY <1>1, <2>1, <2>4
    DEF SubRequestFits, SubsLoadFits, SourceChangeFits, SubChangeFits, Heard
  <2> QED
    BY <1>1, <2>1, <2>5, SubServedQuietly DEF tables, SubChanges
<1>5. CASE ListChannels(s)
  <2>1. /\ req[s].op = "overview" /\ req[s].at = "read" /\ UNCHANGED tables
        /\ req'[s].at = "done"
        /\ req'[s].result = req[s].result \cup {c \in Conn : conn[c].state = "live"}
    BY <1>5, ListChannelsServes DEF Settles
  <2>2. OverviewFits(s)
    BY DEF SubFit, SubRequestFits
  <2>3. Heard(s, {"overview"})' <=> Heard(s, {"overview"})
    BY <1>1, <2>1 DEF Serves, Heard, InFlight
  <2>4. req[s].result = StoredSources => req'[s].result \cap Source = StoredSources
    BY <2>1, ResourceAssumption DEF StoredSources
  <2>5. StoredSources' = StoredSources
    BY <2>1 DEF StoredSources, tables
  <2>6. OverviewFits(s)'
    BY <2>1, <2>2, <2>3, <2>4, <2>5 DEF OverviewFits, subTabLists
  <2>7. SubRequestFits(s)'
    BY <1>1, <2>1, <2>6
    DEF SubRequestFits, SubsLoadFits, SourceChangeFits, SubChangeFits, Heard
  <2> QED
    BY <1>1, <2>1, <2>7, SubServedQuietly DEF tables, SubChanges
<1>6. CASE ListSubs(s)
  <2>1. /\ req[s].op = "listSubs" /\ UNCHANGED tables
        /\ req'[s].result = SubsOf(req[s].to)
    BY <1>6, ListSubsServes DEF Settles
  <2>2. SubsLoadFits(s)
    BY DEF SubFit, SubRequestFits
  <2>3. (Heard(s, {"listSubs"})' <=> Heard(s, {"listSubs"})) /\ req'[s].to = req[s].to
    BY <1>1, <2>1 DEF Serves, Heard, InFlight
  <2>4. SubsLoadFits(s)'
    BY <2>1, <2>2, <2>3 DEF SubsLoadFits, SubsOf, InSelection, tables, subTabLists
  <2>5. SubRequestFits(s)'
    BY <1>1, <2>1, <2>4
    DEF SubRequestFits, OverviewFits, SourceChangeFits, SubChangeFits, Heard
  <2> QED
    BY <1>1, <2>1, <2>5, SubServedQuietly DEF tables, SubChanges
<1>7. CASE Read(s)
  <2>1. /\ req[s].op \in ReadingOps /\ req[s].at = "sent" /\ UNCHANGED tables
        /\ req'[s].answer # "ok"
    BY <1>7, ReadServesAll DEF Settles, GoesOn
  <2>2. req[s].answer # "ok" /\ req[s].op # "overview"
    BY <2>1 DEF RequestsOK, AnswerOK, ReadingOps
  <2> QED
    BY <1>1, <2>1, <2>2, SubRefusedFits DEF tables
<1>8. CASE CreateSource(s) \/ DeleteSource(s)
  BY <1>8, SourceServedFits
<1>9. ASSUME Settles(s, "refused", {}), UNCHANGED tables,
             req[s].op \in {"createSub", "deleteSub"},
             req[s].answer # "ok"
      PROVE  SubFit'
  BY <1>1, <1>9, SubRefusedFits DEF Settles, tables
<1>10. (CreateSub(s) \/ DeleteSub(s)) => req[s].answer # "ok"
  BY DEF CreateSub, DeleteSub, Is, RequestsOK, AnswerOK
<1>11. CASE CreateSub(s)
  <2>1. PICK u \in Sub : req[s].id = u
    BY <1>11, CreateSubServes
  <2> QED
    BY <1>9, <1>10, <1>11, <2>1, CreateSubServes, SubServedFits
<1>12. CASE DeleteSub(s)
  <2>1. PICK u \in Sub : req[s].id = u
    BY <1>12, DeleteSubServes
  <2>2. req[s].op = "deleteSub"
    BY <1>12, DeleteSubServes
  <2>3. CASE Settles(s, "refused", {}) /\ UNCHANGED tables
    BY <1>9, <1>10, <1>12, <2>2, <2>3
  <2>4. CASE /\ sub'[u].state = "removed"
             /\ \A w \in Sub \ {u} : sub'[w] = sub[w]
             /\ UNCHANGED source /\ Settles(s, "ok", {})
    BY <1>10, <1>12, <2>1, <2>2, <2>4, SubServedFits
  <2> QED
    BY <1>12, <2>1, <2>3, <2>4, DeleteSubServes
<1> QED
  BY <1>3, <1>4, <1>5, <1>6, <1>7, <1>8, <1>11, <1>12 DEF Handle

\* So it does when a request fails.
LEMMA SubFailFits ==
    ASSUME TInv, SubFit, NEW s \in Slot, Fails(s), ~doubtful', UNCHANGED subTabLists
    PROVE  SubFit'
<1>1. Settles(s, "refused", {}) /\ UNCHANGED tables
  BY FailsServes DEF TInv
<1>2. req[s].answer = "none"
  BY DEF Fails, RequestFails, LoseAnswer, TInv, RequestsOK, AnswerOK
<1> QED
  BY <1>1, <1>2, SubRefusedFits DEF tables, Settles

\* A slot whose answer has been taken is free.
LEMMA SlotEmptied ==
    ASSUME TInv, NEW s \in Slot, req' = [req EXCEPT ![s] = NoRequest]
    PROVE  /\ RequestsOK' /\ req'[s].op = "none"
           /\ \A t \in Slot \ {s} : req'[t] = req[t]
<1>1. RequestsOK' /\ req'[s] = NoRequest /\ \A t \in Slot \ {s} : req'[t] = req[t]
  BY SlotFreed DEF TInv
<1> QED
  BY <1>1 DEF NoRequest

\* An answer that changes nothing of what the tab shows.
LEMMA SubFreedFits ==
    ASSUME TInv, SubFit, NEW s \in Slot, Frees(s),
           UNCHANGED <<source, sub, sources, selectedSourceId, subscriptions>>,
           ~Heard(s, {"overview", "listSubs"}), req[s].op \in SubChanges => req[s].answer # "ok"
    PROVE  SubFit'
<1>1. /\ req'[s].op = "none" /\ req'[s].answer = "none"
      /\ \A t \in Slot \ {s} : req'[t] = req[t]
  BY DEF Frees, NoRequest
<1>2. SubRequestFits(s)' /\ ~Heard(s, {"overview"})
  BY <1>1, OtherSubRequest DEF Heard
<1>3. \A x : SubGrantsAs(s, x)
  BY <1>1 DEF SubGrantsAs, SubChanges
<1> QED
  BY <1>1, <1>2, <1>3, SubQuietFits

\* A source has been selected and nothing but its list is in flight.
LEMMA SelectedLoads ==
    ASSUME TInv, NEW s \in Slot, Follows(s), ~doubtful', selectedSourceId' \in sources',
           \A x \in Source : x \in sources' <=> source'[x] = "stored"
    PROVE  SubFit'
<1>1. /\ req'[s].op = "listSubs" /\ req'[s].at = "sent" /\ req'[s].answer = "none"
      /\ req'[s].to = selectedSourceId' /\ ~req'[s].dropped
      /\ \A t \in Slot \ {s} : req'[t] = req[t] /\ req[t].op = "none"
  BY DEF Follows, InFlight, TInv, RequestsOK
<1>2. \A t \in Slot : SubRequestFits(t)'
  <2>1. SubRequestFits(s)'
    BY <1>1
    DEF SubRequestFits, OverviewFits, SubsLoadFits, SourceChangeFits, SubChangeFits, Heard
  <2>2. ASSUME NEW t \in Slot, t # s PROVE SubRequestFits(t)'
    BY <1>1, <2>2, OtherSubRequest
  <2> QED
    BY <2>1, <2>2
<1>3. SelectedFits'
  BY DEF SelectedFits
<1>4. SourcesFit'
  BY DEF SourcesFit, SourceAt
<1>5. SubsFit'
  <2>1. Heard(s, {"overview", "listSubs"})'
    BY <1>1 DEF Heard, InFlight
  <2> QED
    BY <2>1 DEF SubsFit
<1> QED
  BY <1>2, <1>3, <1>4, <1>5 DEF SubFit

\* What the sources are when nothing else is in flight.
LEMMA SourcesShown ==
    ASSUME TInv, SubFit, NEW s \in Slot, ~Heard(s, {"overview"}),
           \A t \in Slot \ {s} : ~InFlight(t), NEW x \in Source
    PROVE  /\ source[x] = "stored" => x \in sources \/ Granting(s, {"createSource"}, x)
           /\ x \in sources => source[x] = "stored" \/ Granting(s, {"deleteSource"}, x)
<1>1. \A t \in Slot \ {s} : req[t].op = "none"
  BY DEF InFlight, TInv, RequestsOK
<1>2. \A t \in Slot : ~Heard(t, {"overview"})
  BY DEF Heard
<1>3. SourceAt(x)
  BY <1>2 DEF SubFit, SourcesFit
<1> QED
  BY <1>1, <1>3 DEF SourceAt, Granting

\* The tab has its sources: the first is selected, if there is one.
LEMMA OverviewAnsweredFits ==
    ASSUME TInv, InOrder, SubFit, NEW s \in Slot, req[s].at = "done", ~req[s].dropped,
           OverviewAnswered(s), ~doubtful', UNCHANGED <<source, sub>>
    PROVE  SubFit'
<1>1. req[s].op = "overview" /\ SubTabAnswered(s)
  BY DEF OverviewAnswered, SubTabAnswered
<1>2. Heard(s, {"overview"}) /\ Granted(s)
  BY <1>1, SubAnswered DEF Heard, InFlight
<1>3. OverviewFits(s)
  BY DEF SubFit, SubRequestFits
<1>4. /\ sources' = StoredSources
      /\ sources = {} /\ selectedSourceId = NoId /\ subscriptions = {}
      /\ UNCHANGED subscriptions
  BY <1>2, <1>3 DEF OverviewFits, OverviewAnswered, Granted
<1>5. \A x \in Source : x \in sources' <=> source'[x] = "stored"
  BY <1>4 DEF StoredSources
<1>6. CASE sources' # {}
  <2>1. PICK t \in sources' : LoadSubscriptions(s, t, "overview")
    BY <1>2, <1>6 DEF OverviewAnswered
  <2>2. Follows(s) /\ selectedSourceId' \in sources'
    BY <1>4, <2>1, LoadTakes DEF StoredSources, LoadSubscriptions
  <2> QED
    BY <1>5, <2>2, SelectedLoads
<1>7. CASE sources' = {}
  <2>1. req' = [req EXCEPT ![s] = NoRequest] /\ UNCHANGED selectedSourceId
    BY <1>7 DEF OverviewAnswered
  <2>2. RequestsOK' /\ req'[s].op = "none" /\ \A t \in Slot \ {s} : req'[t] = req[t]
    BY <2>1, SlotEmptied
  <2>3. \A t \in Slot : req'[t].op \notin SubChanges
    BY <1>1, <2>2, LoadAlone DEF SubChanges, Changes, Loads, InFlight
  <2>4. \A t \in Slot : SubRequestFits(t)'
    <3>1. SubRequestFits(s)'
      BY <2>2, OtherSubRequest
    <3>2. ASSUME NEW t \in Slot, t # s PROVE SubRequestFits(t)'
      BY <1>4, <1>7, <2>1, <2>2, <3>2, SubRequestKept DEF SubFit
    <3> QED
      BY <3>1, <3>2
  <2>5. SelectedFits' /\ SourcesFit'
    BY <1>4, <1>5, <1>7, <2>1 DEF SelectedFits, SourcesFit, SourceAt
  <2>6. SubsFit'
    <3>1. ASSUME NEW u \in Sub PROVE SubAt(u)'
      <4>1. sub[u].source \in Source
        BY DEF TInv, TablesOK, SubRow
      <4>2. ~InSelection(u)'
        BY <1>4, <2>1, <4>1, ResourceAssumption DEF InSelection
      <4> QED
        BY <1>4, <4>2 DEF SubAt
    <3> QED
      BY <3>1 DEF SubsFit
  <2> QED
    BY <2>4, <2>5, <2>6 DEF SubFit
<1> QED
  BY <1>6, <1>7

\* The subscriptions of the selected source are shown.
LEMMA SubsAnsweredFits ==
    ASSUME TInv, InOrder, SubFit, NEW s \in Slot, req[s].at = "done", ~req[s].dropped,
           SubsAnswered(s), ~doubtful', UNCHANGED <<source, sub>>
    PROVE  SubFit'
<1>1. req[s].op = "listSubs" /\ SubTabAnswered(s)
  BY DEF SubsAnswered, SubTabAnswered
<1>2. Heard(s, {"listSubs"}) /\ Granted(s)
  BY <1>1, SubAnswered DEF Heard, InFlight
<1>3. SubsLoadFits(s) /\ req[s].to \in Source
  BY <1>1 DEF SubFit, SubRequestFits, TInv, RequestsOK, AskedOK, MayAsk
<1>4. /\ subscriptions' = {u \in Sub : InSelection(u)}
      /\ selectedSourceId \in Source
      /\ UNCHANGED <<sources, selectedSourceId>>
      /\ req' = [req EXCEPT ![s] = NoRequest]
  BY <1>2, <1>3 DEF SubsLoadFits, SubsAnswered, Granted
<1>5. req'[s].op = "none" /\ \A t \in Slot \ {s} : req'[t] = req[t]
  BY <1>4, SlotEmptied
<1>6. \A t \in Slot : ~Heard(t, {"overview"})
  BY <1>4, ResourceAssumption DEF SubFit, SubRequestFits, OverviewFits
<1>7. \A t \in Slot : req[t].op \notin SubChanges
  BY <1>1, LoadAlone DEF SubChanges, Changes, Loads, InFlight
<1>8. \A t \in Slot : SubRequestFits(t)'
  <2>1. SubRequestFits(s)'
    BY <1>5, OtherSubRequest
  <2>2. ASSUME NEW t \in Slot, t # s PROVE SubRequestFits(t)'
    BY <1>4, <1>5, <1>6, <2>2, SubRequestKept DEF SubFit
  <2> QED
    BY <2>1, <2>2
<1>9. SelectedFits'
  BY <1>4 DEF SubFit, SelectedFits
<1>10. SourcesFit'
  <2>1. ASSUME NEW x \in Source PROVE SourceAt(x)'
    <3>1. \A t \in Slot : SubGrantsAs(t, x)
      BY <1>5, <1>7 DEF SubGrantsAs, SubChanges
    <3>2. SourceAt(x)
      BY <1>6 DEF SubFit, SourcesFit
    <3> QED
      BY <1>4, <3>1, <3>2, SourceRowKept
  <2> QED
    BY <2>1 DEF SourcesFit
<1>11. SubsFit'
  <2>1. ASSUME NEW u \in Sub PROVE SubAt(u)'
    <3>1. InSelection(u)' <=> InSelection(u)
      BY <1>4 DEF InSelection
    <3> QED
      BY <1>4, <3>1 DEF SubAt
  <2> QED
    BY <2>1 DEF SubsFit
<1> QED
  BY <1>8, <1>9, <1>10, <1>11 DEF SubFit

\* A change that was refused.
LEMMA SubRefusalTaken ==
    ASSUME TInv, SubFit, NEW s \in Slot, Frees(s), req[s].op \in SubChanges, ~Granted(s),
           UNCHANGED <<source, sub, sources, selectedSourceId, subscriptions>>
    PROVE  SubFit'
  BY SubFreedFits DEF Granted, Heard, SubChanges

\* A source is added, and is selected when it is the first one.
LEMMA CreateSourceAnsweredFits ==
    ASSUME TInv, InOrder, SubFit, NEW s \in Slot, req[s].at = "done", ~req[s].dropped,
           CreateSourceAnswered(s), ~doubtful', UNCHANGED <<source, sub>>
    PROVE  SubFit'
<1>1. /\ req[s].op = "createSource" /\ SubTabAnswered(s) /\ UNCHANGED subscriptions
      /\ Changing(s) /\ ~Heard(s, {"overview"})
  BY DEF CreateSourceAnswered, SubTabAnswered, Changing, InFlight, Changes, Heard
<1>2. PICK x \in Source : req[s].id = x
  BY <1>1 DEF TInv, RequestsOK, AskedOK, MayAsk
<1>3. Frees(s) \/ Follows(s)
  BY <1>1, SubAnswered
<1>4. CASE ~Granted(s)
  <2>1. /\ UNCHANGED <<sources, selectedSourceId>>
        /\ req' = [req EXCEPT ![s] = NoRequest]
    BY <1>4 DEF CreateSourceAnswered, Released
  <2>2. Frees(s)
    BY <1>3, <2>1, SlotFreed DEF TInv, Frees, Follows
  <2> QED
    BY <1>1, <1>4, <2>1, <2>2, SubRefusalTaken DEF SubChanges
<1>5. CASE Granted(s) /\ selectedSourceId = NoId
  <2>1. LoadSubscriptions(s, x, "nothing") /\ sources' = sources \cup {x}
    BY <1>2, <1>5 DEF CreateSourceAnswered
  <2>2. Follows(s) /\ selectedSourceId' = x
    BY <2>1, LoadTakes DEF LoadSubscriptions
  <2>3. source[x] = "stored"
    BY <1>1, <1>2, <1>5 DEF SubFit, SubRequestFits, SourceChangeFits, Granted
  <2>4. \A t \in Slot \ {s} : ~InFlight(t)
    BY <2>2 DEF Follows
  <2>5. ASSUME NEW y \in Source PROVE y \in sources' <=> source'[y] = "stored"
    <3>1. /\ source[y] = "stored" => y \in sources \/ y = x
          /\ y \in sources => source[y] = "stored"
      BY <1>1, <1>2, <2>4, SourcesShown DEF Granting
    <3> QED
      BY <2>1, <2>3, <3>1
  <2> QED
    BY <2>1, <2>2, <2>5, SelectedLoads
<1>6. CASE Granted(s) /\ selectedSourceId # NoId
  <2>1. Released(s) /\ UNCHANGED selectedSourceId /\ sources' = sources \cup {x}
    BY <1>2, <1>6 DEF CreateSourceAnswered
  <2>2. req'[s].op = "none" /\ \A t \in Slot \ {s} : req'[t] = req[t]
    BY <2>1, SlotEmptied DEF Released
  <2>3. source[x] = "stored"
    BY <1>1, <1>2, <1>6 DEF SubFit, SubRequestFits, SourceChangeFits, Granted
  <2>4. SubRequestFits(s)'
    BY <2>2, OtherSubRequest
  <2>5. SelectedFits'
    BY <1>6, <2>1 DEF SubFit, SelectedFits
  <2>6. ASSUME NEW y \in Source, SourceAt(y) PROVE SourceAt(y)'
    <3>1. CASE y = x
      BY <2>1, <2>3, <3>1 DEF SourceAt
    <3>2. CASE y # x
      <4>1. \A t \in Slot : SubGrantsAs(t, y)
        BY <1>2, <2>2, <3>2 DEF SubGrantsAs, SubChanges
      <4> QED
        BY <2>1, <2>6, <3>2, <4>1, SourceRowKept
    <3> QED
      BY <3>1, <3>2
  <2>7. SelectionGoes => SelectionGoes'
    BY <1>1, <2>1, <2>2 DEF SelectionGoes
  <2>8. ASSUME NEW u \in Sub, SubAt(u) PROVE SubAt(u)'
    <3>1. \A t \in Slot, o \in {"createSub", "deleteSub"} :
              Granting(t, {o}, u)' <=> Granting(t, {o}, u)
      BY <1>1, <2>2 DEF Granting
    <3>2. InSelection(u)' <=> InSelection(u)
      BY <2>1 DEF InSelection
    <3> QED
      BY <1>1, <2>7, <2>8, <3>1, <3>2 DEF SubAt
  <2> QED
    BY <1>1, <2>1, <2>2, <2>4, <2>5, <2>6, <2>8, SubChangeStepFits
<1> QED
  BY <1>4, <1>5, <1>6

\* A source is deleted that is not the selected one, or a deletion was refused;
\* or it was selected, and another is selected, if there is one.
LEMMA DeleteSourceAnsweredFits ==
    ASSUME TInv, InOrder, SubFit, NEW s \in Slot, req[s].at = "done", ~req[s].dropped,
           DeleteSourceAnswered(s), ~doubtful', UNCHANGED <<source, sub>>
    PROVE  SubFit'
<1>1. /\ req[s].op = "deleteSource" /\ SubTabAnswered(s)
      /\ Changing(s) /\ ~Heard(s, {"overview"})
  BY DEF DeleteSourceAnswered, SubTabAnswered, Changing, InFlight, Changes, Heard
<1>2. PICK x \in Source : req[s].id = x
  BY <1>1 DEF TInv, RequestsOK, AskedOK, MayAsk
<1>3. Frees(s) \/ Follows(s)
  BY <1>1, SubAnswered
<1>4. Granted(s) => source[x] # "stored" /\ sources' = sources \ {x}
  BY <1>1, <1>2 DEF SubFit, SubRequestFits, SourceChangeFits, Granted, DeleteSourceAnswered
<1>5. CASE ~Granted(s)
  <2>1. /\ UNCHANGED <<sources, selectedSourceId, subscriptions>>
        /\ req' = [req EXCEPT ![s] = NoRequest]
    BY <1>5 DEF DeleteSourceAnswered, Released
  <2>2. Frees(s)
    BY <1>3, <2>1, SlotFreed DEF TInv, Frees, Follows
  <2> QED
    BY <1>1, <1>5, <2>1, <2>2, SubRefusalTaken DEF SubChanges
<1>6. CASE Granted(s) /\ selectedSourceId = x /\ sources' # {}
  <2>1. PICK t \in sources' : LoadSubscriptions(s, t, "deletion")
    BY <1>2, <1>6 DEF DeleteSourceAnswered
  <2>2. sources \subseteq Source
    BY DEF TInv, SubTabOK
  <2>3. Follows(s) /\ selectedSourceId' \in sources'
    BY <1>4, <1>6, <2>1, <2>2, LoadTakes DEF LoadSubscriptions
  <2>4. \A q \in Slot \ {s} : ~InFlight(q)
    BY <2>3 DEF Follows
  <2>5. ASSUME NEW y \in Source PROVE y \in sources' <=> source'[y] = "stored"
    <3>1. /\ source[y] = "stored" => y \in sources
          /\ y \in sources => source[y] = "stored" \/ y = x
      BY <1>1, <1>2, <2>4, SourcesShown DEF Granting
    <3> QED
      BY <1>4, <1>6, <3>1
  <2> QED
    BY <2>3, <2>5, SelectedLoads
<1>7. ASSUME Granted(s), req' = [req EXCEPT ![s] = NoRequest], NEW y \in Source, SourceAt(y)
      PROVE  SourceAt(y)'
  <2>1. req'[s].op = "none" /\ \A t \in Slot \ {s} : req'[t] = req[t]
    BY <1>7, SlotEmptied
  <2>2. CASE y = x
    BY <1>4, <1>7, <2>2 DEF SourceAt
  <2>3. CASE y # x
    <3>1. \A t \in Slot : SubGrantsAs(t, y)
      BY <1>2, <2>1, <2>3 DEF SubGrantsAs, SubChanges
    <3> QED
      BY <1>4, <1>7, <2>3, <3>1, SourceRowKept
  <2> QED
    BY <2>2, <2>3
<1>8. CASE Granted(s) /\ selectedSourceId = x /\ sources' = {}
  <2>1. selectedSourceId' = NoId /\ subscriptions' = {} /\ Released(s)
    BY <1>2, <1>8 DEF DeleteSourceAnswered
  <2>2. req'[s].op = "none" /\ \A t \in Slot \ {s} : req'[t] = req[t]
    BY <2>1, SlotEmptied DEF Released
  <2>3. ASSUME NEW t \in Slot, t # s PROVE SubRequestFits(t)'
    <3>1. /\ req[t].op = "none" \/ req[t].op \in Changes
          /\ req[t].op = "createSub" => req[t].to # x
      BY <1>1, <1>2, <2>3, ChangeAlone
    <3>2. SubRequestFits(t) /\ req'[t] = req[t]
      BY <2>2, <2>3 DEF SubFit
    <3>3. req'[t].op # "overview" /\ req'[t].op # "listSubs"
      BY <3>1, <3>2 DEF Changes
    <3>4. ASSUME NEW y \in Source, req'[t].id = y PROVE SourceChangeFits(t, y)'
      BY <3>2, <3>4 DEF SubRequestFits, SourceChangeFits
    <3>5. ASSUME NEW u \in Sub, req'[t].id = u PROVE SubChangeFits(t, u)'
      <4>1. SubChangeFits(t, u)
        BY <3>2, <3>5 DEF SubRequestFits
      <4>2. req[t].op # "createSub"
        BY <1>8, <3>1, <4>1 DEF SubChangeFits
      <4> QED
        BY <3>2, <4>1, <4>2 DEF SubChangeFits
    <3> QED
      BY <3>3, <3>4, <3>5 DEF SubRequestFits, OverviewFits, SubsLoadFits, Heard
  <2>4. SubRequestFits(s)'
    BY <2>2, OtherSubRequest
  <2>5. SelectedFits'
    BY <1>8, <2>1 DEF SelectedFits
  <2>6. SourcesFit'
    <3>1. \A t \in Slot : ~Heard(t, {"overview"})
      BY <1>1, ChangeAlone DEF Heard, Changing, Changes, InFlight
    <3>2. \A y \in Source : SourceAt(y)
      BY <3>1 DEF SubFit, SourcesFit
    <3> QED
      BY <1>7, <1>8, <2>1, <3>2 DEF SourcesFit, Released
  <2>7. SubsFit'
    <3>1. ASSUME NEW u \in Sub PROVE SubAt(u)'
      <4>1. sub[u].source \in Source
        BY DEF TInv, TablesOK, SubRow
      <4>2. ~InSelection(u)'
        BY <2>1, <4>1, ResourceAssumption DEF InSelection
      <4> QED
        BY <2>1, <4>2 DEF SubAt
    <3> QED
      BY <3>1 DEF SubsFit
  <2> QED
    BY <2>3, <2>4, <2>5, <2>6, <2>7 DEF SubFit
<1>9. CASE Granted(s) /\ selectedSourceId # x
  <2>1. Released(s) /\ UNCHANGED <<selectedSourceId, subscriptions>>
    BY <1>2, <1>9 DEF DeleteSourceAnswered
  <2>2. req'[s].op = "none" /\ \A t \in Slot \ {s} : req'[t] = req[t]
    BY <2>1, SlotEmptied DEF Released
  <2>3. SubRequestFits(s)'
    BY <2>2, OtherSubRequest
  <2>4. SelectedFits'
    <3>1. SelectedFits /\ sources' = sources \ {x}
      BY <1>4, <1>9 DEF SubFit
    <3>2. sources # {} => selectedSourceId \in sources'
      BY <1>9, <3>1 DEF SelectedFits
    <3> QED
      BY <2>1, <3>1, <3>2 DEF SelectedFits
  <2>5. SelectionGoes => SelectionGoes'
    BY <1>2, <1>9, <2>1, <2>2 DEF SelectionGoes
  <2>6. ASSUME NEW u \in Sub, SubAt(u) PROVE SubAt(u)'
    <3>1. \A t \in Slot, o \in {"createSub", "deleteSub"} :
              Granting(t, {o}, u)' <=> Granting(t, {o}, u)
      BY <1>1, <2>2 DEF Granting
    <3>2. InSelection(u)' <=> InSelection(u)
      BY <2>1 DEF InSelection
    <3> QED
      BY <2>1, <2>5, <2>6, <3>1, <3>2 DEF SubAt
  <2>7. \A y \in Source : SourceAt(y) => SourceAt(y)'
    BY <1>7, <1>9, <2>1 DEF Released
  <2> QED
    BY <1>1, <2>1, <2>2, <2>3, <2>4, <2>6, <2>7, SubChangeStepFits
<1> QED
  BY <1>5, <1>6, <1>8, <1>9

\* A subscription is added to the list, or taken from it.
LEMMA SubChangeAnsweredFits ==
    ASSUME TInv, InOrder, SubFit, NEW s \in Slot, req[s].at = "done", ~req[s].dropped,
           CreateSubAnswered(s) \/ DeleteSubAnswered(s), UNCHANGED <<source, sub>>
    PROVE  SubFit'
<1>1. /\ req[s].op \in {"createSub", "deleteSub"} /\ Changing(s) /\ SubTabAnswered(s)
      /\ UNCHANGED <<sources, selectedSourceId>> /\ Released(s)
  BY DEF CreateSubAnswered, DeleteSubAnswered, SubTabAnswered, Changing, InFlight, Changes
<1>2. PICK u \in Sub : req[s].id = u
  BY <1>1 DEF TInv, RequestsOK, AskedOK, MayAsk
<1>3. req'[s].op = "none" /\ \A t \in Slot \ {s} : req'[t] = req[t]
  BY <1>1, SlotEmptied DEF Released
<1>4. CASE ~Granted(s)
  <2>1. UNCHANGED subscriptions
    BY <1>4 DEF CreateSubAnswered, DeleteSubAnswered
  <2>2. Frees(s)
    BY <1>1, <1>3, SubAnswered DEF Follows
  <2> QED
    BY <1>1, <1>4, <2>1, <2>2, SubRefusalTaken DEF SubChanges
<1>5. CASE Granted(s)
  <2>1. SubChangeFits(s, u)
    BY <1>2 DEF SubFit, SubRequestFits
  <2>2. /\ req[s].op = "createSub" =>
               InSelection(u) /\ subscriptions' = subscriptions \cup {u}
        /\ req[s].op = "deleteSub" =>
               ~InSelection(u) /\ subscriptions' = subscriptions \ {u}
    BY <1>2, <1>5, <2>1
    DEF CreateSubAnswered, DeleteSubAnswered, SubChangeFits, Granted, InSelection
  <2>3. SubRequestFits(s)'
    BY <1>3, OtherSubRequest
  <2>4. SelectedFits'
    BY <1>1 DEF SubFit, SelectedFits
  <2>5. SelectionGoes => SelectionGoes'
    BY <1>1, <1>3 DEF SelectionGoes
  <2>6. ASSUME NEW x \in Source, SourceAt(x) PROVE SourceAt(x)'
    <3>1. \A t \in Slot, o \in {"createSource", "deleteSource"} :
              Granting(t, {o}, x)' <=> Granting(t, {o}, x)
      BY <1>1, <1>3 DEF Granting
    <3> QED
      BY <1>1, <2>6, <3>1 DEF SourceAt
  <2>7. ASSUME NEW w \in Sub, SubAt(w) PROVE SubAt(w)'
    <3>1. CASE w = u
      <4>1. InSelection(u)' <=> InSelection(u)
        BY <1>1 DEF InSelection
      <4> QED
        BY <1>1, <2>2, <3>1, <4>1 DEF SubAt
    <3>2. CASE w # u
      <4>1. \A t \in Slot : SubGrantsAs(t, w)
        BY <1>2, <1>3, <3>2 DEF SubGrantsAs, SubChanges
      <4>2. w \in subscriptions' <=> w \in subscriptions
        BY <1>1, <2>2, <3>2
      <4> QED
        BY <1>1, <2>5, <2>7, <4>1, <4>2, SubRowKept
    <3> QED
      BY <3>1, <3>2
  <2> QED
    BY <1>1, <1>3, <2>3, <2>4, <2>6, <2>7, SubChangeStepFits
<1> QED
  BY <1>4, <1>5

\* Whatever is done, the tab of the notifications fits.
LEMMA NextKeepsSubscriptions ==
    ASSUME TInv, Trusted => InOrder, SubscriptionsFit, [Next]_vars
    PROVE  SubscriptionsFit'
<1> SUFFICES ASSUME currentTab' = "github", ~doubtful' PROVE SubFit'
  BY DEF SubscriptionsFit
<1>1. ASSUME NEW s \in Slot PROVE ~OpenConnections(s)
  BY DEF OpenConnections
<1>2. ASSUME NEW s \in Slot, OpenGithub(s) PROVE SubFit'
  BY <1>2, SubMountFits
<1>3. ~Leave
  BY DEF Leave
<1>4. ~ConnectionsClick
  BY DEF ConnectionsClick
<1>5. CASE GithubClick
  <2>1. currentTab = "github" /\ ~doubtful
    BY <1>5, GithubClickSends DEF SubSends, Sends
  <2> QED
    BY <1>5, <2>1, SubClickFits DEF SubscriptionsFit
<1>6. ASSUME NEW s \in Slot, Server(s) \/ Fails(s) PROVE SubFit'
  <2>1. currentTab = "github" /\ ~doubtful /\ UNCHANGED subTabLists
    BY <1>6 DEF Server, Fails, RequestFails, LoseAnswer, subTabVars
  <2>2. SubFit /\ InOrder
    BY <2>1 DEF SubscriptionsFit, Trusted
  <2> QED
    BY <1>6, <2>1, <2>2, SubHandleFits, SubFailFits DEF Server
<1>7. ASSUME NEW s \in Slot, Answered(s) PROVE SubFit'
  <2>1. /\ currentTab = "github" /\ ~doubtful /\ UNCHANGED <<source, sub>>
        /\ req[s].at = "done"
    BY <1>7, AnswerTakes DEF Answered, tables, Frees, Follows
  <2>2. SubFit /\ InOrder
    BY <2>1 DEF SubscriptionsFit, Trusted
  <2>3. CASE Ignored(s)
    <3>1. Frees(s)
      BY <2>3, IgnoredFrees
    <3>2. UNCHANGED <<sources, selectedSourceId, subscriptions>> /\ req[s].dropped
      BY <2>3 DEF Ignored, subTabVars, subTabLists
    <3>3. req[s].op \notin SubChanges
      BY <2>1, <2>2, <3>2 DEF InOrder, Changing, InFlight, SubChanges, Changes
    <3> QED
      BY <2>1, <2>2, <3>1, <3>2, <3>3, SubFreedFits DEF Heard
  <2>4. ~(~req[s].dropped /\ ConnectionsAnswered(s))
    BY <2>1, ConnAnswered
  <2>5. CASE ~req[s].dropped /\ SubTabAnswered(s)
    BY <2>1, <2>2, <2>5, OverviewAnsweredFits, SubsAnsweredFits, CreateSourceAnsweredFits,
       DeleteSourceAnsweredFits, SubChangeAnsweredFits
    DEF SubTabAnswered
  <2> QED
    BY <1>7, <2>3, <2>4, <2>5 DEF Answered
<1>8. CASE UNCHANGED vars
  <2>1. UNCHANGED <<source, sub, req, sources, selectedSourceId, subscriptions, currentTab,
                    doubtful>>
    BY <1>8 DEF vars, resourceVars, tables, subTabVars, subTabLists
  <2>2. SubFit
    BY <2>1 DEF SubscriptionsFit
  <2>3. \A t \in Slot : SubRequestFits(t)'
    BY <2>1, <2>2 DEF SubFit, SubRequestFits, OverviewFits, SubsLoadFits, SourceChangeFits,
                      SubChangeFits, Heard, InFlight, StoredSources, InSelection
  <2>4. SelectedFits'
    BY <2>1, <2>2 DEF SubFit, SelectedFits
  <2>5. SourcesFit'
    BY <2>1, <2>2 DEF SubFit, SourcesFit, SourceAt, Heard, InFlight, Granting
  <2>6. SubsFit'
    BY <2>1, <2>2 DEF SubFit, SubsFit, SubAt, Heard, InFlight, Granting, InSelection,
                      SelectionGoes
  <2> QED
    BY <2>3, <2>4, <2>5, <2>6 DEF SubFit
<1> QED
  BY <1>1, <1>2, <1>3, <1>4, <1>5, <1>6, <1>7, <1>8 DEF Next

\* Once nothing is in flight, what fits is what the tables hold.
LEMMA SubscriptionsFitShown ==
    ASSUME TInv, SubscriptionsFit
    PROVE  SubscriptionsShown
<1> SUFFICES ASSUME currentTab = "github", Undoubted PROVE SubTabAgrees
  BY DEF SubscriptionsShown
<1>1. \A t \in Slot : req[t].op = "none"
  BY DEF Undoubted, InFlight, TInv, RequestsOK
<1>2. SubFit
  BY DEF Undoubted, SubscriptionsFit
<1>3. \A t \in Slot : ~Heard(t, {"overview"}) /\ ~Heard(t, {"overview", "listSubs"})
  BY DEF Undoubted, Heard
<1>4. sources \subseteq Source /\ subscriptions \subseteq Sub
  BY DEF TInv, SubTabOK
<1>5. ASSUME NEW x \in Source PROVE x \in sources <=> source[x] = "stored"
  <2>1. SourceAt(x)
    BY <1>2, <1>3 DEF SubFit, SourcesFit
  <2> QED
    BY <1>1, <2>1 DEF SourceAt, Granting
<1>6. ASSUME NEW u \in Sub PROVE u \in subscriptions <=> InSelection(u)
  <2>1. SubAt(u) /\ ~SelectionGoes
    BY <1>1, <1>2, <1>3 DEF SubFit, SubsFit, SelectionGoes
  <2> QED
    BY <1>1, <2>1 DEF SubAt, Granting
<1>7. sources = {t \in Source : source[t] = "stored"}
  BY <1>4, <1>5
<1>8. subscriptions = {u \in Sub : sub[u] = [state |-> "stored", source |-> selectedSourceId]}
  BY <1>4, <1>6 DEF InSelection
<1> QED
  BY <1>2, <1>7, <1>8 DEF SubTabAgrees, SubFit, SelectedFits

\* With nothing in flight and nothing doubtful, the tab of the notifications
\* shows the sources of the database, one of them selected if there is any, and
\* the subscriptions of the selected one: for every number of sources,
\* subscriptions and requests, whatever the order in which they are added and
\* removed, the selected source included.
THEOREM SubscriptionsAlwaysShown == Spec => []SubscriptionsShown
<1>1. Init => SubscriptionsFit
  BY DEF Init, SubscriptionsFit
<1>2. TInv /\ (Trusted => InOrder) /\ SubscriptionsFit /\ [Next]_vars => SubscriptionsFit'
  BY NextKeepsSubscriptions
<1>3. TInv /\ SubscriptionsFit => SubscriptionsShown
  BY SubscriptionsFitShown
<1> QED
  BY <1>1, <1>2, <1>3, InOrderInvariant, PTL DEF Spec
==============================================================================
