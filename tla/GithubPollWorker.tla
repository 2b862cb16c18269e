----------------------------- MODULE GithubPollWorker -----------------------------
(***************************************************************************)
(* The GitHub poll worker: the BullMQ tick of workers/worker.bootstrap.ts  *)
(* and GithubPollWorker.processSubscription of workers/github.poll.worker, *)
(* together with the subscription and connection rows they read and write  *)
(* and the requests that change those rows meanwhile.                      *)
(*                                                                         *)
(* A tick loads the active subscriptions with their checkpoints and runs   *)
(* processSubscription for all of them concurrently (Promise.allSettled).  *)
(* Each await in processSubscription is a step here:                       *)
(*                                                                         *)
(*    "poll" --> "save" --> "fetch" --> "send" --> (one send per event)    *)
(*                                                                         *)
(* The module is open: what the GitHub call of the "poll" step answers is  *)
(* the parameter r of PollReturns, and the order of the sends is chosen by *)
(* the modules that extend this one.                                       *)
(***************************************************************************)
EXTENDS GithubPoller

CONSTANTS
    Sub,        \* ids of github_subscriptions rows
    Conn,       \* ids of connections rows
    ConnOf,     \* connection_id of each subscription; no request changes it
    Event,      \* the items that can be notified about
    Seen,       \* the possible values of last_seen
    EmptySeen,  \* the value `{}' of last_seen
    MaxFaults,  \* bound on failing calls and process crashes
    Undecryptable   \* the subscriptions of sources whose access token cannot be
                    \* decrypted any more once they are stored

ASSUME WorkerAssumption ==
    /\ ConnOf \in [Sub -> Conn]
    /\ Event \subseteq Nat \ {None}
    /\ EmptySeen \in Seen
    /\ MaxFaults \in Nat
    /\ Undecryptable \subseteq Sub

VARIABLES
    status,     \* the row of a subscription: absent, stored, removed
    lastSeen,   \* its last_seen column
    conn,       \* the row of a connection: active, deleted (soft), gone
    task,       \* the run of processSubscription of each subscription
    faults,     \* number of failures so far
    sent,       \* history: how often an item was dispatched for a subscription
    dropped,    \* history: items given up, by a failure or by the poll itself
    saveFailed, \* history: failed updates of last_seen
    ineligible  \* history: subscriptions that were not active at the last tick

rowVars     == <<status, lastSeen, conn>>
historyVars == <<sent, dropped, saveFailed, ineligible>>
workerVars  == <<status, lastSeen, conn, task, faults,
                 sent, dropped, saveFailed, ineligible>>

------------------------------------------------------------------------------
Task == [pc : {"idle", "poll", "save", "fetch", "send"},
         snap : Seen, new : Seen, pending : SUBSET Event]

\* No run of processSubscription: its locals are out of scope.
NoTask == [pc |-> "idle", snap |-> EmptySeen, new |-> EmptySeen, pending |-> {}]

WorkerTypeOK ==
    /\ status \in [Sub -> {"absent", "stored", "removed"}]
    /\ lastSeen \in [Sub -> Seen]
    /\ conn \in [Conn -> {"active", "deleted", "gone"}]
    /\ task \in [Sub -> Task]
    /\ faults \in 0 .. MaxFaults
    /\ sent \in [Sub -> [Event -> Nat]]
    /\ dropped \in [Sub -> SUBSET Event]
    /\ saveFailed \in [Sub -> Nat]
    /\ ineligible \in SUBSET Sub

WorkerInit ==
    /\ status = [s \in Sub |-> "absent"]
    /\ lastSeen = [s \in Sub |-> EmptySeen]
    /\ conn = [c \in Conn |-> "active"]
    /\ task = [s \in Sub |-> NoTask]
    /\ faults = 0
    /\ sent = [s \in Sub |-> [e \in Event |-> 0]]
    /\ dropped = [s \in Sub |-> {}]
    /\ saveFailed = [s \in Sub |-> 0]
    /\ ineligible = {}

\* A subscription its user has, on a connection that is in use.
Subscribed(s) == status[s] = "stored" /\ conn[ConnOf[s]] = "active"

\* A call to GitHub, to the database or to a provider fails.
Fault == faults < MaxFaults /\ faults' = faults + 1

------------------------------------------------------------------------------
(* The tick.                                                               *)

\* Mutant of ActiveSubscriptions: the join forgets c.is_deleted = false.
SubscriptionsOfAnyConnection ==
    {s \in Sub : status[s] = "stored" /\ conn[ConnOf[s]] # "gone"}

\* getActiveSubscriptions: the rows joined with an undeleted connection.
ActiveSubscriptions ==
    {s \in Sub : status[s] = "stored" /\ conn[ConnOf[s]] = "active"}

\* Ticks do not overlap: the queue has one worker of concurrency 1, and a
\* job ends when every processSubscription it started has settled.
NoTickRunning == \A s \in Sub : task[s].pc = "idle"

\* The tokens of all rows are decrypted in the query: while one of them cannot
\* be, no tick starts (it returns at once, which changes nothing).
TickStart ==
    /\ NoTickRunning
    /\ ActiveSubscriptions \cap Undecryptable = {}
    /\ task' = [s \in Sub |->
                    IF s \in ActiveSubscriptions
                    THEN [NoTask EXCEPT !.pc = "poll", !.snap = lastSeen[s]]
                    ELSE task[s]]
    /\ ineligible' = {s \in Sub : ~Subscribed(s)}
    /\ UNCHANGED <<rowVars, faults, sent, dropped, saveFailed>>

\* The query fails: no subscription is processed in this tick.
TickLoadFails ==
    /\ NoTickRunning
    /\ Fault
    /\ UNCHANGED <<rowVars, task, historyVars>>

------------------------------------------------------------------------------
(* processSubscription.                                                    *)

\* The poll returns r; `missed' are the listed items r passes over.
PollReturns(s, r, missed) ==
    /\ task[s].pc = "poll"
    /\ task' = [task EXCEPT ![s] =
                    [@ EXCEPT !.pc = "save", !.new = r.lastSeen,
                              !.pending = IF r.initialized THEN {} ELSE r.events]]
    /\ dropped' = [dropped EXCEPT ![s] = @ \cup missed]
    /\ UNCHANGED <<rowVars, faults, sent, saveFailed, ineligible>>

PollFails(s) ==
    /\ task[s].pc = "poll"
    /\ Fault
    /\ task' = [task EXCEPT ![s] = NoTask]
    /\ UNCHANGED <<rowVars, historyVars>>

\* After the update of last_seen, whether it failed or not: the early returns
\* on an initialised subscription and on no events.
AfterSave(s) ==
    task' = [task EXCEPT ![s] =
                IF @.pending = {} THEN NoTask ELSE [@ EXCEPT !.pc = "fetch"]]

\* Mutant of Save: the checkpoint that was loaded is written back.
SaveSnapshot(s) ==
    /\ task[s].pc = "save"
    /\ lastSeen' = [lastSeen EXCEPT ![s] = WithBootstrap(task[s].snap.cursor)]
    /\ AfterSave(s)
    /\ UNCHANGED <<status, conn, faults, historyVars>>

\* UPDATE ... SET last_seen WHERE id: no row is changed when the subscription
\* was deleted meanwhile.
UpdateLastSeen(s) ==
    lastSeen' = IF status[s] = "stored"
                THEN [lastSeen EXCEPT ![s] = task[s].new]
                ELSE lastSeen

Save(s) ==
    /\ task[s].pc = "save"
    /\ UpdateLastSeen(s)
    /\ AfterSave(s)
    /\ UNCHANGED <<status, conn, faults, historyVars>>

\* The failure is logged and the run goes on; the update may have been done
\* and only its answer lost.
SaveFails(s) ==
    /\ task[s].pc = "save"
    /\ Fault
    /\ UpdateLastSeen(s) \/ UNCHANGED lastSeen
    /\ saveFailed' = [saveFailed EXCEPT ![s] = @ + 1]
    /\ AfterSave(s)
    /\ UNCHANGED <<status, conn, sent, dropped, ineligible>>

\* getConnectionById finds the row, soft-deleted or not.
FetchConnection(s) ==
    /\ task[s].pc = "fetch"
    /\ conn[ConnOf[s]] # "gone"
    /\ task' = [task EXCEPT ![s].pc = "send"]
    /\ UNCHANGED <<rowVars, faults, historyVars>>

\* getConnectionById returns null or throws: the events are given up.
ConnectionMissing(s) ==
    /\ task[s].pc = "fetch"
    /\ \/ conn[ConnOf[s]] = "gone" /\ UNCHANGED faults
       \/ Fault
    /\ task' = [task EXCEPT ![s] = NoTask]
    /\ dropped' = [dropped EXCEPT ![s] = @ \cup task[s].pending]
    /\ UNCHANGED <<rowVars, sent, saveFailed, ineligible>>

\* Mutant of EventDone: a run that has other events left keeps this one too.
EventDoneKeeps(s, e) ==
    task' = [task EXCEPT ![s] = IF @.pending = {e} THEN NoTask ELSE @]

\* The loop goes on with the next event; the run ends after the last one.
EventDone(s, e) ==
    LET rest == task[s].pending \ {e}
    IN  task' = [task EXCEPT ![s] =
                    IF rest = {} THEN NoTask ELSE [task[s] EXCEPT !.pending = rest]]

Dispatch(s, e) ==
    /\ task[s].pc = "send"
    /\ e \in task[s].pending
    /\ sent' = [sent EXCEPT ![s][e] = @ + 1]
    /\ EventDone(s, e)
    /\ UNCHANGED <<rowVars, faults, dropped, saveFailed, ineligible>>

\* Mutant of DispatchFails: the error leaves the loop.
DispatchFailsStops(s, e) ==
    /\ task[s].pc = "send"
    /\ e \in task[s].pending
    /\ Fault
    /\ dropped' = [dropped EXCEPT ![s] = @ \cup {e}]
    /\ task' = [task EXCEPT ![s] = NoTask]
    /\ UNCHANGED <<rowVars, sent, saveFailed, ineligible>>

\* The failure is logged and the event is never tried again; the provider may
\* have accepted the message before the call failed.
DispatchFails(s, e) ==
    /\ task[s].pc = "send"
    /\ e \in task[s].pending
    /\ Fault
    /\ \/ UNCHANGED sent
       \/ sent' = [sent EXCEPT ![s][e] = @ + 1]
    /\ dropped' = [dropped EXCEPT ![s] = @ \cup {e}]
    /\ EventDone(s, e)
    /\ UNCHANGED <<rowVars, saveFailed, ineligible>>

\* The process dies and is started again: the running tick is lost.  BullMQ
\* returns the stalled job to the queue, which is one more TickStart.
Crash ==
    /\ ~NoTickRunning
    /\ Fault
    /\ task' = [s \in Sub |-> NoTask]
    /\ dropped' = [s \in Sub |-> IF task[s].pc \in {"fetch", "send"}
                                 THEN dropped[s] \cup task[s].pending
                                 ELSE dropped[s]]
    /\ UNCHANGED <<rowVars, sent, saveFailed, ineligible>>

------------------------------------------------------------------------------
(* Requests that change the rows while the worker runs.                    *)

\* Mutant of CreateSubscription: an upsert that starts the row again.
UpsertSubscription(s, initial) ==
    /\ status[s] # "removed"
    /\ conn[ConnOf[s]] # "gone"
    /\ status' = [status EXCEPT ![s] = "stored"]
    /\ lastSeen' = [lastSeen EXCEPT ![s] = initial]
    /\ UNCHANGED <<conn, task, faults, historyVars>>

\* The foreign keys need the connection row, not that it is undeleted.
CreateSubscription(s, initial) ==
    /\ status[s] = "absent"
    /\ conn[ConnOf[s]] # "gone"
    /\ status' = [status EXCEPT ![s] = "stored"]
    /\ lastSeen' = [lastSeen EXCEPT ![s] = initial]
    /\ UNCHANGED <<conn, task, faults, historyVars>>

\* DELETE of the row; deleting its source does the same by cascade.
DeleteSubscription(s) ==
    /\ status[s] = "stored"
    /\ status' = [status EXCEPT ![s] = "removed"]
    /\ UNCHANGED <<lastSeen, conn, task, faults, historyVars>>

SoftDeleteConnection(c) ==
    /\ conn[c] = "active"
    /\ conn' = [conn EXCEPT ![c] = "deleted"]
    /\ UNCHANGED <<status, lastSeen, task, faults, historyVars>>

RestoreConnection(c) ==
    /\ conn[c] = "deleted"
    /\ conn' = [conn EXCEPT ![c] = "active"]
    /\ UNCHANGED <<status, lastSeen, task, faults, historyVars>>

\* The purge job deletes the account that owns c: the connection row and the
\* subscriptions on it go with it by ON DELETE CASCADE.
PurgeAccount(c) ==
    /\ conn[c] # "gone"
    /\ conn' = [conn EXCEPT ![c] = "gone"]
    /\ status' = [s \in Sub |-> IF ConnOf[s] = c /\ status[s] = "stored"
                                THEN "removed" ELSE status[s]]
    /\ UNCHANGED <<lastSeen, task, faults, historyVars>>

Requests ==
    \/ \E s \in Sub : DeleteSubscription(s)
    \/ \E c \in Conn : \/ SoftDeleteConnection(c)
                       \/ RestoreConnection(c)
                       \/ PurgeAccount(c)
==============================================================================
