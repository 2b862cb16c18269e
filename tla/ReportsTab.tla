------------------------------- MODULE ReportsTab -------------------------------
(***************************************************************************)
(* The tab of the weekly reports (WeeklyReportsTab.vue) over Reports: the  *)
(* list it loads when it is mounted and after each generation, and the     *)
(* buttons that create, delete and generate.  Every request is answered in *)
(* its own time, and the handler goes on where it awaited it.              *)
(***************************************************************************)
EXTENDS Reports

CONSTANTS
    Slot,       \* the requests in flight, generations apart
    OpenHours,  \* bound: the hours of the week in which the tab is opened
    NoConfig

VARIABLES
    mounted,
    shown,          \* the ids of configs.value
    listLoading, listError, createLoading, deletingId, generatingId,
    req,
    pressed,        \* the generations whose button belongs to the mounted tab
    doubtful        \* history: a load overlapped a change, or an answer was lost

flags == <<listLoading, listError, createLoading, deletingId, generatingId>>
tabVars == <<mounted, shown, flags, req, pressed, doubtful>>
vars == <<reportVars, tabVars>>

NoRequest == [op |-> "none", at |-> "idle", config |-> NoConfig, answer |-> "none",
              result |-> {}, dropped |-> FALSE]

\* A load remembers in `config' the generation that waits for it, if any.
Started(op, c) == [NoRequest EXCEPT !.op = op, !.at = "sent", !.config = c]

InFlight(s) == req[s].at # "idle"

\* One free slot is as good as another.
Free(s) == (\E t \in Slot : ~InFlight(t)) /\ s = CHOOSE t \in Slot : ~InFlight(t)

Changing == \E s \in Slot : InFlight(s) /\ req[s].op # "list"
Loading == \E s \in Slot : InFlight(s) /\ req[s].op = "list"

TypeOK ==
    /\ ReportTypeOK
    /\ {mounted, listLoading, listError, createLoading, doubtful} \subseteq BOOLEAN
    /\ shown \subseteq Config
    /\ pressed \subseteq {m \in Manual : gen[m].at # "idle"}
    /\ {deletingId, generatingId} \subseteq Config \cup {NoConfig}
    /\ req \in [Slot -> [op : {"none", "list", "create", "delete"},
                         at : {"idle", "sent", "found", "done"},
                         config : Config \cup {NoConfig},
                         answer : {"none", "ok", "refused"},
                         result : SUBSET Config,
                         dropped : BOOLEAN]]
    /\ \A s \in Slot : req[s].at = "found" => req[s].op = "delete"

Cleared ==
    /\ shown = {}
    /\ listLoading = FALSE
    /\ listError = FALSE
    /\ createLoading = FALSE
    /\ deletingId = NoConfig
    /\ generatingId = NoConfig

Init ==
    /\ ReportInit
    /\ mounted = FALSE
    /\ Cleared
    /\ pressed = {}
    /\ req = [s \in Slot |-> NoRequest]
    /\ doubtful = FALSE

------------------------------------------------------------------------------
(* The user.                                                               *)

\* loadConfigs is called.
LoadConfigs(s, c) ==
    /\ Free(s)
    /\ req' = [req EXCEPT ![s] = Started("list", c)]
    /\ listLoading' = TRUE
    /\ listError' = FALSE

Mount(s) ==
    /\ ~mounted
    /\ hour \in OpenHours
    /\ mounted' = TRUE
    /\ LoadConfigs(s, NoConfig)
    /\ doubtful' = Changing
    /\ UNCHANGED <<reportVars, shown, createLoading, deletingId, generatingId, pressed>>

\* The refs go with the component; nobody hears the answers.
Unmount ==
    /\ mounted
    /\ mounted' = FALSE
    /\ shown' = {}
    /\ listLoading' = FALSE
    /\ listError' = FALSE
    /\ createLoading' = FALSE
    /\ deletingId' = NoConfig
    /\ generatingId' = NoConfig
    /\ pressed' = {}
    /\ req' = [s \in Slot |-> IF InFlight(s) THEN [req[s] EXCEPT !.dropped = TRUE]
                              ELSE req[s]]
    /\ doubtful' = FALSE
    /\ UNCHANGED reportVars

Change(s, op, c) ==
    /\ mounted
    /\ Free(s)
    /\ Event
    /\ req' = [req EXCEPT ![s] = Started(op, c)]
    /\ doubtful' = (doubtful \/ Loading)
    /\ UNCHANGED <<dataVars, gen, hour, ticked, historyVars, mounted, shown,
                   listLoading, listError, generatingId, pressed>>

\* The form is there while the list loads.
HandleCreate(s) ==
    /\ ~createLoading
    /\ createLoading' = TRUE
    /\ \E c \in Config :
           /\ status[c] = "new" /\ \A t \in Slot : InFlight(t) => req[t].config # c
           /\ Change(s, "create", c)
    /\ UNCHANGED deletingId

\* The buttons of a row, which is not shown while the list loads or after a
\* load has failed.
RowShown(c) == c \in shown /\ ~listLoading /\ ~listError

HandleDelete(s, c) ==
    /\ RowShown(c)
    /\ deletingId # c
    /\ deletingId' = c
    /\ Change(s, "delete", c)
    /\ UNCHANGED createLoading

HandleGenerate(m, c) ==
    /\ mounted
    /\ RowShown(c)
    /\ generatingId # c
    /\ generatingId' = c
    /\ pressed' = pressed \cup {m}
    /\ Event
    /\ GenerateRequest(m, c)
    /\ UNCHANGED <<mounted, shown, listLoading, listError, createLoading, deletingId,
                   req, doubtful>>

------------------------------------------------------------------------------
(* The server.                                                             *)

Answer(s, answer) == req' = [req EXCEPT ![s].at = "done", ![s].answer = answer]

List(s) ==
    /\ req[s].op = "list" /\ req[s].at = "sent"
    /\ req' = [req EXCEPT ![s].at = "done", ![s].answer = "ok",
                          ![s].result = {c \in Config : status[c] = "stored"}]
    /\ UNCHANGED reportVars

Create(s) ==
    /\ req[s].op = "create" /\ req[s].at = "sent"
    /\ IF CanCreate(req[s].config)
       THEN CreateConfig(req[s].config) /\ UNCHANGED events /\ Answer(s, "ok")
       ELSE UNCHANGED reportVars /\ Answer(s, "refused")

DeleteFinds(s) ==
    /\ req[s].op = "delete" /\ req[s].at = "sent"
    /\ IF status[req[s].config] = "stored"
       THEN req' = [req EXCEPT ![s].at = "found"] ELSE Answer(s, "refused")
    /\ UNCHANGED reportVars

Delete(s) ==
    /\ req[s].at = "found"
    /\ DeleteConfig(req[s].config)
    /\ Answer(s, "ok")
    /\ UNCHANGED events

RequestFails(s) ==
    /\ req[s].at \in {"sent", "found"}
    /\ Event
    /\ Answer(s, "refused")
    /\ UNCHANGED <<dataVars, gen, hour, ticked, historyVars, doubtful>>

LoseAnswer(s) ==
    /\ req[s].at = "done" /\ req[s].answer = "ok"
    /\ Event
    /\ Answer(s, "refused")
    /\ doubtful' = TRUE
    /\ UNCHANGED <<dataVars, gen, hour, ticked, historyVars>>

------------------------------------------------------------------------------
(* Answers.                                                                *)

Ok(s) == req[s].answer = "ok"

\* The end of loadConfigs, and of the generation that called it.
ListAnswered(s) ==
    /\ shown' = IF Ok(s) THEN req[s].result ELSE shown
    /\ listError' = ~Ok(s)
    /\ listLoading' = FALSE
    /\ generatingId' = IF req[s].config = NoConfig THEN generatingId ELSE NoConfig
    /\ UNCHANGED <<createLoading, deletingId>>

\* Mutant of CreateAnswered: the list is not extended.
CreateAnsweredSilent(s) ==
    /\ createLoading' = FALSE
    /\ UNCHANGED <<shown, listLoading, listError, deletingId, generatingId>>

CreateAnswered(s) ==
    /\ shown' = IF Ok(s) THEN shown \cup {req[s].config} ELSE shown
    /\ createLoading' = FALSE
    /\ UNCHANGED <<listLoading, listError, deletingId, generatingId>>

\* Whichever row the button is disabled for is enabled.
DeleteAnswered(s) ==
    /\ shown' = IF Ok(s) THEN shown \ {req[s].config} ELSE shown
    /\ deletingId' = NoConfig
    /\ UNCHANGED <<listLoading, listError, createLoading, generatingId>>

Answered(s) ==
    /\ req[s].at = "done"
    /\ req' = [req EXCEPT ![s] = NoRequest]
    /\ IF req[s].dropped THEN UNCHANGED <<shown, flags>>
       ELSE CASE req[s].op = "list"   -> ListAnswered(s)
              [] req[s].op = "create" -> CreateAnswered(s)
              [] req[s].op = "delete" -> DeleteAnswered(s)
    /\ UNCHANGED <<reportVars, mounted, pressed, doubtful>>

\* Mutant of GenerateRefused: the button is not enabled again.
GenerateRefusedForgets == UNCHANGED <<flags, req, doubtful>>

GenerateRefused ==
    /\ generatingId' = NoConfig
    /\ UNCHANGED <<listLoading, listError, createLoading, deletingId, req, doubtful>>

\* The list is loaded again after a generation.
GenerateAnswered(m) ==
    /\ gen[m].at = "done"
    /\ gen' = [gen EXCEPT ![m] = Idle]
    /\ pressed' = pressed \ {m}
    /\ \/ m \notin pressed /\ UNCHANGED <<flags, req, doubtful>>
       \/ m \in pressed /\ gen[m].answer = "refused" /\ GenerateRefused
       \/ /\ m \in pressed /\ gen[m].answer = "ok"
          /\ \E s \in Slot : LoadConfigs(s, gen[m].config)
          /\ doubtful' = (doubtful \/ Changing)
          /\ UNCHANGED <<createLoading, deletingId, generatingId>>
    /\ UNCHANGED <<dataVars, hour, ticked, events, historyVars, mounted, shown>>

------------------------------------------------------------------------------
\* Bound: the tab is closed while an hour passes.
TabClosed == ~mounted /\ (\A s \in Slot : ~InFlight(s)) /\ \A m \in Manual : gen[m].at # "done"

WorkerStep ==
    /\ Worker \/ (TabClosed /\ Hour)
    /\ UNCHANGED tabVars

Server(s) ==
    /\ \/ List(s)
       \/ Create(s)
       \/ DeleteFinds(s)
       \/ Delete(s)
    /\ UNCHANGED <<mounted, shown, flags, pressed, doubtful>>

Next ==
    \/ WorkerStep
    \/ \E s \in Slot : Server(s) \/ Answered(s)
    \/ \E s \in Slot : (RequestFails(s) \/ LoseAnswer(s)) /\ UNCHANGED <<mounted, shown, flags, pressed>>
    \/ \E s \in Slot : Mount(s) \/ HandleCreate(s)
    \/ \E s \in Slot, c \in Config : HandleDelete(s, c)
    \/ \E m \in Manual, c \in Config : HandleGenerate(m, c)
    \/ \E m \in Manual : GenerateAnswered(m)
    \/ Unmount

\* Every request is processed and its answer taken; users, failures and the
\* clock are not fair.
Fairness ==
    /\ \A s \in Slot : WF_vars(Server(s) \/ Answered(s))
    /\ \A m \in Manual :
           WF_vars((Generate(m) /\ UNCHANGED tabVars) \/ GenerateAnswered(m))

Spec == Init /\ [][Next]_vars /\ Fairness

------------------------------------------------------------------------------
(* Properties.                                                             *)

\* With no request in flight the schedules the tab lists are those the server
\* has, unless a load overlapped a change or an answer was lost: the handlers
\* of WeeklyReportsTab.vue that patch the list locally agree with the table on
\* its ids, whatever the order of the answers.  The connection, the frequency
\* and the day of a row never change once it is created; last_sent_at, which
\* the worker changes behind the tab, is not compared.
ShownConfigs ==
    /\ mounted /\ ~doubtful /\ ~listError
    /\ \A s \in Slot : ~InFlight(s)
    => shown = {c \in Config : status[c] = "stored"}

\* Every button that waits is enabled again, also when the request fails,
\* another one starts with the same flag, or the list is loaded in between.
ButtonsReturn ==
    []<>( /\ ~createLoading
          /\ ~listLoading
          /\ deletingId = NoConfig
          /\ generatingId = NoConfig )
==============================================================================
