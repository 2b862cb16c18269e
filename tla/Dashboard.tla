-------------------------------- MODULE Dashboard --------------------------------
(***************************************************************************)
(* The two tabs of DashboardView.vue that share the tables of Resources.   *)
(* The view mounts one tab at a time; a tab that is left takes its state   *)
(* with it, but not the requests it has sent.                              *)
(***************************************************************************)
EXTENDS ConnectionsTab, GithubNotificationsTab

CONSTANTS
    StoredConn, DeletedConn, StoredSource, \* the rows there are at first
    StoredSub,
    FirstValue

ASSUME DashboardAssumption ==
    /\ StoredSource \subseteq Source
    /\ FirstValue \in Value

VARIABLE currentTab

vars == <<resourceVars, connTabVars, subTabVars, currentTab>>

TypeOK ==
    /\ ResourceTypeOK
    /\ ConnTabTypeOK
    /\ SubTabTypeOK
    /\ currentTab \in {"connections", "github", "other"}
    /\ currentTab # "connections" => ConnTabFresh
    /\ currentTab # "github" => SubTabFresh

\* Every subscription there is, or will be, is first of some source there is.
Init ==
    /\ conn = [c \in Conn |->
                  [state |-> CASE c \in StoredConn  -> "live"
                               [] c \in DeletedConn -> "deleted"
                               [] OTHER             -> "new",
                   value |-> FirstValue]]
    /\ source = [t \in Source |-> IF t \in StoredSource THEN "stored" ELSE "new"]
    /\ \E t \in StoredSource :
           sub = [u \in Sub |-> [state |-> IF u \in StoredSub THEN "stored" ELSE "new",
                                 source |-> t]]
    /\ req = [s \in Slot |-> NoRequest]
    /\ events = 0
    /\ doubtful = FALSE
    /\ ConnTabFresh
    /\ SubTabFresh
    /\ currentTab = "other"

------------------------------------------------------------------------------
OpenConnections(s) ==
    /\ currentTab = "other"
    /\ currentTab' = "connections"
    /\ ConnTabMounts(s)
    /\ UNCHANGED <<tables, events, subTabVars>>

OpenGithub(s) ==
    /\ currentTab = "other"
    /\ currentTab' = "github"
    /\ SubTabMounts(s)
    /\ UNCHANGED <<tables, events, connTabVars>>

\* Bound: leaving with requests in flight is one of the events.
Leave ==
    /\ currentTab # "other"
    /\ IF \E s \in Slot : InFlight(s) THEN Event ELSE UNCHANGED events
    /\ currentTab' = "other"
    /\ ConnTabReset
    /\ SubTabReset
    /\ req' = [s \in Slot |-> IF InFlight(s) THEN [req[s] EXCEPT !.dropped = TRUE] ELSE req[s]]
    /\ doubtful' = FALSE
    /\ UNCHANGED tables

ConnectionsClick ==
    /\ currentTab = "connections"
    /\ UNCHANGED <<tables, subTabVars, currentTab>>
    /\ \/ \E s \in Slot : HandleCreate(s) /\ Event
       \/ \E s \in Slot : HandleEdit(s) /\ Event
       \/ \E s \in Slot, c \in Conn : HandleDelete(s, c) /\ Event
       \/ \E s \in Slot, c \in Conn : HandleRestore(s, c) /\ Event
       \/ \E c \in Conn : OpenEdit(c) /\ UNCHANGED <<req, events, doubtful>>
       \/ \E s \in Slot : ToggleDeleted(s) /\ UNCHANGED events

GithubClick ==
    /\ currentTab = "github"
    /\ UNCHANGED <<tables, connTabVars, currentTab>>
    /\ \/ \E s \in Slot, t \in Source : SelectSource(s, t) /\ UNCHANGED events
       \/ \E s \in Slot : HandleCreateSource(s) /\ Event
       \/ \E s \in Slot, t \in Source : HandleDeleteSource(s, t) /\ Event
       \/ \E s \in Slot : HandleCreateSub(s) /\ Event
       \/ \E s \in Slot, u \in Sub : HandleDeleteSub(s, u) /\ Event

Server(s) ==
    /\ Handle(s)
    /\ UNCHANGED <<events, doubtful, connTabVars, subTabVars, currentTab>>

Fails(s) ==
    /\ RequestFails(s) \/ LoseAnswer(s)
    /\ UNCHANGED <<connTabVars, subTabVars, currentTab>>

ConnectionsAnswered(s) ==
    /\ ConnTabAnswered(s)
    /\ req' = [req EXCEPT ![s] = NoRequest]
    /\ doubtful' = (doubtful \/ (req[s].op = "listActive" /\ ~Ok(s)))
    /\ UNCHANGED subTabVars

Ignored(s) ==
    /\ req[s].dropped
    /\ req' = [req EXCEPT ![s] = NoRequest]
    /\ UNCHANGED <<doubtful, connTabVars, subTabVars>>

Answered(s) ==
    /\ req[s].at = "done"
    /\ \/ Ignored(s)
       \/ ~req[s].dropped /\ ConnectionsAnswered(s)
       \/ ~req[s].dropped /\ SubTabAnswered(s) /\ UNCHANGED connTabVars
    /\ UNCHANGED <<tables, events, currentTab>>

Next ==
    \/ \E s \in Slot : OpenConnections(s) \/ OpenGithub(s)
    \/ Leave
    \/ ConnectionsClick
    \/ GithubClick
    \/ \E s \in Slot : Server(s) \/ Answered(s)
    \/ \E s \in Slot : Fails(s)

\* Every request is processed and its answer taken; users and failures are not
\* fair.
Fairness == \A s \in Slot : WF_vars(Server(s) \/ Answered(s))

Spec == Init /\ [][Next]_vars /\ Fairness

------------------------------------------------------------------------------
(* Properties.                                                             *)

Undoubted == ~doubtful /\ \A s \in Slot : ~InFlight(s)

\* The tab of the connections shows the rows of the database when nothing is
\* in flight: the handlers that patch the active and the deleted list locally
\* agree with the table in whatever order creations, edits, deletions and
\* restorations of several rows are answered.
ConnectionsShown == currentTab = "connections" /\ Undoubted => ConnTabAgrees

\* The tab of the notifications shows the sources of the database and the
\* subscriptions of the selected one, which goes on being one that exists when
\* sources are removed and added.
SubscriptionsShown == currentTab = "github" /\ Undoubted => SubTabAgrees

\* Every button that waits, and every list that loads, returns: whichever
\* handler awaits a request or the load that follows it is resumed, also when
\* it fails or another one uses the same flag.
ButtonsReturn == []<>(ConnTabQuiet /\ SubTabQuiet)
==============================================================================
