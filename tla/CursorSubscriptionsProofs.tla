------------------------- MODULE CursorSubscriptionsProofs -------------------------
(***************************************************************************)
(* Proofs about CursorSubscriptions, for every set of subscriptions, feeds *)
(* and items and every page size: type correctness, the silence towards    *)
(* subscriptions that are switched off and, when GitHub removes no item,   *)
(* the freshness of the loaded checkpoint, at-most-once notification up to *)
(* failed updates and a checkpoint that never goes back.                   *)
(***************************************************************************)
EXTENDS CursorSubscriptions, FiniteSetTheorems, TLAPS

------------------------------------------------------------------------------
(* The poll functions.                                                     *)

\* The fields of a cursor checkpoint.
LEMMA SeenFields ==
    ASSUME NEW ls \in Seen
    PROVE  ls.boot \in BOOLEAN /\ ls.cursor \in Event \cup {None}
  BY FeedAssumption DEF CursorSeen

\* Items are positive integers.
LEMMA EventIsPositive ==
    \A e \in Event : e \in Nat /\ e > None
  BY WorkerAssumption DEF None

\* A page is a subset of the listing, and what is listed before an item of the
\* page is on the page too.
LEMMA PageIsTop ==
    ASSUME NEW S \in SUBSET Event, IsFiniteSet(S), NEW n \in Nat,
           NEW e \in Page(S, n), NEW x \in S, x > e
    PROVE  x \in Page(S, n)
<1> DEFINE above(y) == {z \in S : z > y}
<1>1. e \in S /\ Cardinality(above(e)) < n
  BY DEF Page
<1>2. e \in Nat /\ x \in Nat /\ \A z \in S : z \in Nat
  BY <1>1, EventIsPositive
<1>3. above(x) \in SUBSET above(e)
  <2>1. ASSUME NEW z \in S, z > x
        PROVE  z > e
    BY <2>1, <1>2
  <2> QED
    BY <2>1
<1>4. IsFiniteSet(above(e))
  BY FS_Subset, above(e) \in SUBSET S
<1>5. IsFiniteSet(above(x)) /\ Cardinality(above(x)) <= Cardinality(above(e))
  BY <1>3, <1>4, FS_Subset
<1>6. Cardinality(above(x)) \in Nat /\ Cardinality(above(e)) \in Nat
  BY <1>4, <1>5, FS_CardinalityType
<1>7. Cardinality(above(x)) < n
  BY <1>1, <1>5, <1>6
<1> QED
  BY <1>7 DEF Page

\* On a listing that still holds the cursor, what PollCursor reports lies
\* between the old cursor and the new one, and the cursor does not go back.
LEMMA PollCursorOutcome ==
    ASSUME NEW S, NEW n, NEW R, NEW ls, NEW data, NEW latest,
           S \in SUBSET Event, IsFiniteSet(S), n \in Nat, R \in SUBSET S,
           ls \in Seen, ls.cursor \in R \cup {None},
           data = Page(S, n) \cap R, IsLatest(latest, data)
    PROVE  /\ PollCursor(data, latest, ls).lastSeen = [boot |-> TRUE, cursor |-> latest]
           /\ ls.cursor <= latest
           /\ \A e \in PollCursor(data, latest, ls).events : ls.cursor < e /\ e <= latest
<1> USE DEF IsLatest
<1>1. data \subseteq S /\ latest \in Event /\ latest \in Nat /\ latest > 0
  BY EventIsPositive DEF Page, None
<1>2. ls.cursor \in Nat
  BY EventIsPositive DEF None
<1>3. ls.cursor <= latest
  <2>1. CASE ls.cursor \in data
    BY <2>1
  <2>2. CASE ls.cursor = None
    BY <2>2, <1>1 DEF None
  <2>3. CASE ls.cursor \in R \ Page(S, n)
    <3>1. ~ (ls.cursor > latest)
      BY <2>3, PageIsTop, <1>1
    <3> QED
      BY <3>1, <1>1, <1>2
  <2> QED
    BY <2>1, <2>2, <2>3
<1>4. \A e \in NewItems(data, latest, ls.cursor) :
          e \in Event /\ e <= latest /\ (latest # ls.cursor => ls.cursor < e)
  BY <1>1, <1>2, <1>3, EventIsPositive DEF NewItems
<1>5. PollCursor(data, latest, ls).lastSeen = [boot |-> TRUE, cursor |-> latest]
  BY DEF PollCursor, PollResult, WithBootstrap
<1>6. \A e \in PollCursor(data, latest, ls).events :
          e \in NewItems(data, latest, ls.cursor) /\ latest # ls.cursor
  BY DEF PollCursor, PollResult
<1> QED
  BY <1>3, <1>4, <1>5, <1>6

\* The same for a listing the cursor may have been removed from: types only.
LEMMA PollCursorType ==
    ASSUME NEW data \in SUBSET Event, NEW latest \in data, NEW ls \in Seen
    PROVE  /\ PollCursor(data, latest, ls).lastSeen \in Seen
           /\ PollCursor(data, latest, ls).events \in SUBSET Event
<1>1. PollCursor(data, latest, ls).lastSeen = [boot |-> TRUE, cursor |-> latest]
  BY DEF PollCursor, PollResult, WithBootstrap
<1>2. NewItems(data, latest, ls.cursor) \in SUBSET Event
  BY DEF NewItems
<1>3. [boot |-> TRUE, cursor |-> latest] \in Seen
  BY FeedAssumption DEF CursorSeen
<1>4. PollCursor(data, latest, ls).events \in SUBSET Event
  BY <1>2 DEF PollCursor, PollResult
<1> QED
  BY <1>1, <1>3, <1>4

\* The checkpoint of an empty listing.
LEMMA PollEmptyOutcome ==
    ASSUME NEW ls \in Seen
    PROVE  /\ PollEmpty(ls).lastSeen = [boot |-> TRUE, cursor |-> ls.cursor]
           /\ PollEmpty(ls).lastSeen \in Seen
           /\ PollEmpty(ls).events = {}
<1>1. /\ PollEmpty(ls).lastSeen = [boot |-> TRUE, cursor |-> ls.cursor]
      /\ PollEmpty(ls).events = {}
  BY DEF PollEmpty, PollResult, WithBootstrap
<1>2. [boot |-> TRUE, cursor |-> ls.cursor] \in Seen
  BY SeenFields, FeedAssumption DEF CursorSeen
<1> QED
  BY <1>1, <1>2

------------------------------------------------------------------------------
(* Type correctness.                                                       *)

\* The steps of processSubscription keep a task a task.
LEMMA TaskFields ==
    ASSUME NEW s \in Sub, task \in [Sub -> Task]
    PROVE  /\ task[s].pc \in {"idle", "poll", "save", "fetch", "send"}
           /\ task[s].snap \in Seen /\ task[s].new \in Seen
           /\ task[s].pending \in SUBSET Event
           /\ NoTask \in Task
  BY WorkerAssumption DEF Task, NoTask

LEMMA FaultType == ASSUME faults \in 0 .. MaxFaults, Fault PROVE faults' \in 0 .. MaxFaults
  BY WorkerAssumption DEF Fault

LEMMA PollReturnsType ==
    ASSUME TypeOK, NEW s \in Sub, NEW r, NEW missed \in SUBSET Event,
           r.lastSeen \in Seen, r.events \in SUBSET Event, PollReturns(s, r, missed)
    PROVE  WorkerTypeOK'
<1> USE DEF TypeOK, WorkerTypeOK, PollReturns, rowVars
<1>1. task' \in [Sub -> Task]
  BY TaskFields DEF Task
<1>2. dropped' \in [Sub -> SUBSET Event]
  OBVIOUS
<1> QED
  BY <1>1, <1>2

LEMMA PollStepType ==
    ASSUME TypeOK, NEW s \in Sub, PollStep(s)
    PROVE  TypeOK'
<1>1. FeedOf[s] \in Feed
  BY FeedAssumption
<1>2. feed[FeedOf[s]] \in SUBSET Event /\ Data(FeedOf[s]) \in SUBSET Event
  BY <1>1 DEF TypeOK, Data, Page
<1>3. task[s].snap \in Seen
  BY TaskFields DEF TypeOK, WorkerTypeOK
<1>4. CASE PollEmptyFeed(s)
  <2>1. WorkerTypeOK'
    BY <1>3, <1>4, PollEmptyOutcome, PollReturnsType DEF PollEmptyFeed
  <2> QED
    BY <2>1, <1>2, <1>4 DEF TypeOK, PollEmptyFeed, RecordBaseline, githubVars
<1>5. CASE PollFeed(s)
  <2>1. PICK latest \in Data(FeedOf[s]) :
            PollReturns(s, PollCursor(Data(FeedOf[s]), latest, task[s].snap),
                        PassedOver(s, latest))
    BY <1>5 DEF PollFeed
  <2>2. PassedOver(s, latest) \in SUBSET Event
    BY <1>2 DEF PassedOver, Reportable
  <2>3. WorkerTypeOK'
    BY <2>1, <2>2, <1>2, <1>3, PollCursorType, PollReturnsType
  <2> QED
    BY <2>3, <1>2, <1>5 DEF TypeOK, PollFeed, RecordBaseline, githubVars
<1> QED
  BY <1>4, <1>5 DEF PollStep

LEMMA RowStepType ==
    ASSUME TypeOK, NEW s \in Sub, RowStep(s)
    PROVE  TypeOK'
<1> USE DEF TypeOK, WorkerTypeOK, rowVars, historyVars, githubVars
<1>1. CASE PollFails(s)
  BY <1>1, TaskFields, FaultType DEF PollFails, RowStep
<1>2. ASSUME AfterSave(s) PROVE task' \in [Sub -> Task]
  BY <1>2, TaskFields DEF AfterSave, Task
<1>3. CASE Save(s)
  BY <1>2, <1>3, TaskFields DEF Save, UpdateLastSeen, RowStep
<1>4. CASE SaveFails(s)
  <2>1. lastSeen' \in [Sub -> Seen]
    BY <1>4, TaskFields DEF SaveFails, UpdateLastSeen
  <2>2. saveFailed' \in [Sub -> Nat]
    BY <1>4 DEF SaveFails
  <2> QED
    BY <1>2, <1>4, <2>1, <2>2, FaultType DEF SaveFails, RowStep
<1>5. CASE FetchConnection(s)
  <2>1. task' \in [Sub -> Task]
    BY <1>5, TaskFields DEF FetchConnection, Task
  <2> QED
    BY <2>1, <1>5 DEF FetchConnection, RowStep
<1>6. CASE ConnectionMissing(s)
  BY <1>6, TaskFields, FaultType DEF ConnectionMissing, RowStep
<1> QED
  BY <1>1, <1>3, <1>4, <1>5, <1>6 DEF RowStep

LEMMA SendStepType ==
    ASSUME TypeOK, NEW s \in Sub, SendStep(s)
    PROVE  TypeOK'
<1> USE DEF TypeOK, WorkerTypeOK, rowVars, githubVars
<1>1. ASSUME NEW e, EventDone(s, e) PROVE task' \in [Sub -> Task]
  <2>1. [task[s] EXCEPT !.pending = task[s].pending \ {e}] \in Task
    BY TaskFields DEF Task
  <2> QED
    BY <1>1, <2>1, TaskFields DEF EventDone
<1>2. CASE SendNewest(s)
  <2>1. PICK e \in Event : Dispatch(s, e)
    BY <1>2 DEF SendNewest
  <2> QED
    BY <2>1, <1>1, <1>2 DEF Dispatch, SendNewest
<1>3. CASE SendNewestFails(s)
  <2>1. PICK e \in Event : DispatchFails(s, e)
    BY <1>3 DEF SendNewestFails
  <2>2. sent' \in [Sub -> [Event -> Nat]]
    <3>1. \A t \in Sub : sent[t] \in [Event -> Nat]
      OBVIOUS
    <3>2. [sent[s] EXCEPT ![e] = @ + 1] \in [Event -> Nat]
      BY <3>1
    <3> QED
      BY <2>1, <3>1, <3>2 DEF DispatchFails
  <2>3. dropped' \in [Sub -> SUBSET Event]
    BY <2>1 DEF DispatchFails
  <2>4. task' \in [Sub -> Task] /\ faults' \in 0 .. MaxFaults
    BY <2>1, <1>1, FaultType DEF DispatchFails
  <2> QED
    BY <2>1, <2>2, <2>3, <2>4, <1>3 DEF DispatchFails, SendNewestFails
<1> QED
  BY <1>2, <1>3 DEF SendStep

LEMMA TickStepType ==
    ASSUME TypeOK, TickStep
    PROVE  TypeOK'
<1> USE DEF TypeOK, WorkerTypeOK, rowVars, historyVars, githubVars
<1>1. CASE TickStart
  <2>1. task' \in [Sub -> Task]
    BY <1>1, WorkerAssumption DEF TickStart, Task, NoTask
  <2> QED
    BY <2>1, <1>1 DEF TickStart, TickStep
<1>2. CASE TickLoadFails
  BY <1>2, FaultType DEF TickLoadFails, TickStep
<1>3. CASE Crash
  <2>1. task' \in [Sub -> Task]
    BY <1>3, WorkerAssumption DEF Crash, Task, NoTask
  <2>2. dropped' \in [Sub -> SUBSET Event]
    BY <1>3, TaskFields DEF Crash
  <2> QED
    BY <2>1, <2>2, <1>3, FaultType DEF Crash, TickStep
<1> QED
  BY <1>1, <1>2, <1>3 DEF TickStep

LEMMA RequestStepType ==
    ASSUME TypeOK, RequestStep
    PROVE  TypeOK'
<1> USE DEF TypeOK, WorkerTypeOK, historyVars, githubVars
<1>1. ASSUME NEW s \in Sub, CreateSubscription(s, EmptySeen) PROVE TypeOK'
  BY <1>1, WorkerAssumption DEF CreateSubscription, RequestStep
<1>2. ASSUME NEW s \in Sub, DeleteSubscription(s) PROVE TypeOK'
  BY <1>2 DEF DeleteSubscription, RequestStep
<1>3. ASSUME NEW c \in Conn, SoftDeleteConnection(c) PROVE TypeOK'
  BY <1>3 DEF SoftDeleteConnection, RequestStep
<1>4. ASSUME NEW c \in Conn, RestoreConnection(c) PROVE TypeOK'
  BY <1>4 DEF RestoreConnection, RequestStep
<1>5. ASSUME NEW c \in Conn, PurgeAccount(c) PROVE TypeOK'
  BY <1>5 DEF PurgeAccount, RequestStep
<1> QED
  BY <1>1, <1>2, <1>3, <1>4, <1>5 DEF RequestStep, Requests

\* Every behaviour stays within the declared types.
THEOREM TypeCorrect == Spec => []TypeOK
<1>1. Init => TypeOK
  BY WorkerAssumption, FeedAssumption
  DEF Init, WorkerInit, TypeOK, WorkerTypeOK, Task, NoTask
<1>2. TypeOK /\ [Next]_vars => TypeOK'
  <2> SUFFICES ASSUME TypeOK, [Next]_vars PROVE TypeOK'
    OBVIOUS
  <2>1. CASE GithubStep
    <3> USE DEF TypeOK, WorkerTypeOK, workerVars
    <3>1. ASSUME NEW f \in Feed, NEW e \in Event, Publish(f, e) PROVE TypeOK'
      BY <3>1 DEF Publish
    <3>2. ASSUME NEW f \in Feed, NEW e \in Event, Remove(f, e) PROVE TypeOK'
      BY <3>2 DEF Remove
    <3> QED
      BY <2>1, <3>1, <3>2 DEF GithubStep
  <2>2. ASSUME NEW s \in Sub, ProcessSubscription(s) PROVE TypeOK'
    BY <2>2, PollStepType, RowStepType, SendStepType DEF ProcessSubscription
  <2>3. CASE UNCHANGED vars
    BY <2>3 DEF vars, TypeOK, WorkerTypeOK
  <2> QED
    BY <2>1, <2>2, <2>3, RequestStepType, TickStepType DEF Next
<1> QED
  BY <1>1, <1>2, PTL DEF Spec

------------------------------------------------------------------------------
(* The inductive invariant.                                                *)

\* The types a step starts from, as the leaves below need them.
LEMMA Types ==
    ASSUME TypeOK, NEW s \in Sub
    PROVE  /\ lastSeen[s] \in Seen /\ lastSeen[s].cursor \in Nat
           /\ task[s].snap.cursor \in Nat /\ task[s].new.cursor \in Nat
           /\ task[s].pending \subseteq Event
           /\ saveFailed[s] \in Nat
           /\ \A e \in Event : e \in Nat /\ sent[s][e] \in Nat
<1>1. lastSeen[s] \in Seen /\ task[s].snap \in Seen /\ task[s].new \in Seen
  BY TaskFields DEF TypeOK, WorkerTypeOK
<1>2. \A ls \in Seen : ls.cursor \in Nat
  BY SeenFields, EventIsPositive DEF None
<1>3. task[s].pending \subseteq Event
  BY TaskFields DEF TypeOK, WorkerTypeOK
<1>4. saveFailed[s] \in Nat /\ \A e \in Event : sent[s][e] \in Nat
  BY DEF TypeOK, WorkerTypeOK
<1> QED
  BY <1>1, <1>2, <1>3, <1>4, EventIsPositive

\* The steps of GitHub: a published item extends what the cursors may name.
LEMMA GithubKeepsIInv ==
    ASSUME TypeOK, IInv, Removable = {}, GithubStep
    PROVE  IInv'
<1>1. PICK f \in Feed, e \in Event : Publish(f, e)
  BY DEF GithubStep, Remove
<1>2. UNCHANGED workerVars /\ feed' = [feed EXCEPT ![f] = @ \cup {e}]
  BY <1>1 DEF Publish
<1>3. FeedsFinite'
  BY <1>2, FS_AddElement DEF IInv, FeedsFinite, TypeOK
<1>4. CursorsListed'
  <2>1. \A g \in Feed : Reportable(g) \subseteq Reportable(g)'
    BY <1>2 DEF Reportable, TypeOK
  <2> QED
    BY <1>2, <2>1, FeedAssumption DEF IInv, CursorsListed, workerVars
<1>5. /\ NothingBeforeCreation' /\ SnapshotFresh' /\ RunsInPhase' /\ SendBudget'
  BY <1>2 DEF IInv, workerVars, NothingBeforeCreation, SnapshotFresh, RunsInPhase,
              SendBudget, Sending
<1> QED
  BY <1>3, <1>4, <1>5 DEF IInv

\* The requests: they touch a row, never a run of the worker.
LEMMA RequestKeepsIInv ==
    ASSUME TypeOK, IInv, RequestStep
    PROVE  IInv'
<1> USE DEF IInv, historyVars, githubVars
<1>1. UNCHANGED <<feed, task, sent, saveFailed>> /\ FeedsFinite' /\ RunsInPhase'
  BY DEF RequestStep, Requests, CreateSubscription, DeleteSubscription,
         SoftDeleteConnection, RestoreConnection, PurgeAccount, FeedsFinite, RunsInPhase
<1>2. ASSUME NEW s \in Sub, CreateSubscription(s, EmptySeen) PROVE IInv'
  <2>1. /\ status[s] = "absent" /\ lastSeen[s] = EmptySeen
        /\ status' = [status EXCEPT ![s] = "stored"]
        /\ lastSeen' = lastSeen
    BY <1>2 DEF CreateSubscription, NothingBeforeCreation, TypeOK, WorkerTypeOK
  <2>2. task[s].pc = "idle" /\ \A e \in Event : sent[s][e] = 0
    BY <2>1 DEF NothingBeforeCreation, NoTask
  <2>3. NothingBeforeCreation' /\ SnapshotFresh'
    BY <1>1, <2>1, <2>2 DEF NothingBeforeCreation, SnapshotFresh, TypeOK, WorkerTypeOK
  <2>4. CursorsListed'
    BY <1>1, <2>1 DEF CursorsListed, Reportable
  <2>5. SendBudget'
    <3> SUFFICES ASSUME NEW t \in Sub, NEW e \in Event
                 PROVE  SendBudget!(t, e)'
      BY DEF SendBudget
    <3>1. CASE t = s
      BY <3>1, <1>1, <2>1, <2>2, Types DEF SendBudget, Sending
    <3>2. CASE t # s
      BY <3>2, <1>1, <2>1 DEF SendBudget, Sending, TypeOK, WorkerTypeOK
    <3> QED
      BY <3>1, <3>2
  <2> QED
    BY <1>1, <2>3, <2>4, <2>5
<1>3. ASSUME lastSeen' = lastSeen,
             \A s \in Sub : \/ status'[s] = status[s]
                            \/ status[s] = "stored" /\ status'[s] = "removed"
      PROVE  IInv'
  <2>1. NothingBeforeCreation' /\ SnapshotFresh'
    BY <1>1, <1>3 DEF NothingBeforeCreation, SnapshotFresh
  <2>2. CursorsListed'
    BY <1>1, <1>3 DEF CursorsListed, Reportable
  <2>3. SendBudget'
    BY <1>1, <1>3 DEF SendBudget, Sending
  <2> QED
    BY <1>1, <2>1, <2>2, <2>3
<1>4. CASE Requests
  <2>1. /\ lastSeen' = lastSeen
        /\ \A s \in Sub :
               \/ status'[s] = status[s]
               \/ status[s] = "stored" /\ status'[s] = "removed"
    <3> USE DEF TypeOK, WorkerTypeOK
    <3>1. CASE \E s \in Sub : DeleteSubscription(s)
      BY <3>1 DEF DeleteSubscription
    <3>2. CASE \E c \in Conn : SoftDeleteConnection(c) \/ RestoreConnection(c)
      BY <3>2 DEF SoftDeleteConnection, RestoreConnection
    <3>3. CASE \E c \in Conn : PurgeAccount(c)
      BY <3>3 DEF PurgeAccount
    <3> QED
      BY <1>4, <3>1, <3>2, <3>3 DEF Requests
  <2> QED
    BY <2>1, <1>3
<1> QED
  BY <1>2, <1>4 DEF RequestStep

\* The tick: a run starts from the stored checkpoint, or all runs are gone.
LEMMA TickKeepsIInv ==
    ASSUME TypeOK, IInv, TickStep
    PROVE  IInv'
<1> USE DEF IInv, historyVars, rowVars, githubVars
<1>1. UNCHANGED <<feed, status, lastSeen, sent, saveFailed>> /\ FeedsFinite'
  BY DEF TickStep, TickStart, TickLoadFails, Crash, FeedsFinite
<1>2. EmptySeen.cursor = None
  BY FeedAssumption DEF EmptyCursor
<1>3. CASE TickStart
  <2>1. ASSUME NEW s \in Sub
        PROVE  /\ task[s].pc = "idle"
               /\ \/ task'[s] = task[s]
                  \/ /\ status[s] = "stored"
                     /\ task'[s].pc = "poll" /\ task'[s].snap = lastSeen[s]
                     /\ task'[s].new = EmptySeen /\ task'[s].pending = {}
    BY <1>3 DEF TickStart, NoTickRunning, ActiveSubscriptions, NoTask
  <2>2. NothingBeforeCreation' /\ SnapshotFresh' /\ RunsInPhase'
    BY <1>1, <2>1 DEF NothingBeforeCreation, SnapshotFresh, RunsInPhase
  <2>3. CursorsListed'
    BY <1>1, <1>2, <2>1 DEF CursorsListed, Reportable
  <2>4. SendBudget'
    BY <1>1, <2>1 DEF SendBudget, Sending
  <2> QED
    BY <1>1, <2>2, <2>3, <2>4
<1>4. CASE TickLoadFails
  BY <1>1, <1>4 DEF TickLoadFails, NothingBeforeCreation, SnapshotFresh, RunsInPhase,
                    CursorsListed, Reportable, SendBudget, Sending
<1>5. CASE Crash
  <2>1. \A s \in Sub : task'[s] = NoTask
    BY <1>5 DEF Crash
  <2>2. NothingBeforeCreation'
    BY <1>1, <2>1 DEF NothingBeforeCreation
  <2>6. SnapshotFresh'
    BY <2>1 DEF SnapshotFresh, NoTask
  <2>5. RunsInPhase'
    BY <2>1 DEF RunsInPhase, NoTask
  <2>3. CursorsListed'
    BY <1>1, <1>2, <2>1 DEF CursorsListed, Reportable, NoTask
  <2>4. SendBudget'
    BY <1>1, <2>1, Types DEF SendBudget, Sending, NoTask
  <2> QED
    BY <1>1, <2>2, <2>3, <2>4, <2>5, <2>6
<1> QED
  BY <1>3, <1>4, <1>5 DEF TickStep

\* A step of one run: the other subscriptions keep all that IInv speaks of.
LEMMA OneRun ==
    ASSUME TypeOK, IInv, NEW s \in Sub,
           UNCHANGED <<feed, status>>,
           \A t \in Sub \ {s} :
               /\ task'[t] = task[t] /\ lastSeen'[t] = lastSeen[t]
               /\ sent'[t] = sent[t] /\ saveFailed'[t] = saveFailed[t],
           status[s] # "absent",
           task'[s].pc \in {"poll", "save"} /\ status[s] = "stored"
               => task'[s].snap = lastSeen'[s],
           {lastSeen'[s].cursor, task'[s].snap.cursor, task'[s].new.cursor}
               \subseteq Reportable(FeedOf[s]) \cup {None},
           RunsInPhase!(s)',
           \A e \in Event : SendBudget!(s, e)'
    PROVE  IInv'
<1> USE DEF IInv
<1>1. FeedsFinite'
  BY DEF FeedsFinite
<1>2. NothingBeforeCreation'
  BY DEF NothingBeforeCreation
<1>3. SnapshotFresh'
  BY DEF SnapshotFresh
<1>4. CursorsListed'
  BY DEF CursorsListed, Reportable
<1>5. RunsInPhase'
  BY DEF RunsInPhase
<1>6. SendBudget'
  BY DEF SendBudget, Sending
<1> QED
  BY <1>1, <1>2, <1>3, <1>4, <1>5, <1>6

\* Polling starts nothing new to be sent below the cursor.
LEMMA PollKeepsIInv ==
    ASSUME TypeOK, IInv, NEW s \in Sub, PollStep(s)
    PROVE  IInv'
<1> DEFINE f == FeedOf[s]
           R == Reportable(f)
<1> USE DEF IInv
<1>1. f \in Feed /\ feed[f] \in SUBSET Event /\ IsFiniteSet(feed[f])
      /\ PageSize[f] \in Nat /\ R \in SUBSET feed[f]
  BY FeedAssumption DEF TypeOK, FeedsFinite, Reportable
<1>2. task[s].snap \in Seen /\ task[s].snap.cursor \in R \cup {None}
  BY TaskFields DEF TypeOK, WorkerTypeOK, CursorsListed
<1>3. ASSUME NEW r, NEW missed, PollReturns(s, r, missed), UNCHANGED feed,
             NEW c \in R \cup {None}, r.lastSeen = [boot |-> TRUE, cursor |-> c],
             task[s].snap.cursor <= c,
             \A e \in r.events : task[s].snap.cursor < e /\ e <= c
      PROVE  IInv'
  <2>1. /\ UNCHANGED <<status, lastSeen, sent, saveFailed>>
        /\ task[s].pc = "poll"
        /\ task'[s].pc = "save" /\ task'[s].snap = task[s].snap
        /\ task'[s].new = r.lastSeen
        /\ task'[s].pending \subseteq r.events
        /\ \A t \in Sub \ {s} : task'[t] = task[t]
    BY <1>3, TaskFields DEF PollReturns, rowVars, TypeOK, WorkerTypeOK, Task
  <2>2. status[s] # "absent"
    BY <2>1 DEF NothingBeforeCreation, NoTask
  <2>3. task'[s].pc \in {"poll", "save"} /\ status[s] = "stored"
            => task'[s].snap = lastSeen'[s]
    BY <2>1 DEF SnapshotFresh
  <2>4. {lastSeen'[s].cursor, task'[s].snap.cursor, task'[s].new.cursor}
            \subseteq R \cup {None}
    BY <1>3, <2>1 DEF CursorsListed
  <2>5. RunsInPhase!(s)'
    BY <1>3, <2>1
  <2>6. \A e \in Event : SendBudget!(s, e)'
    BY <2>1 DEF SendBudget, Sending
  <2> QED
    BY <1>3, <2>1, <2>2, <2>3, <2>4, <2>5, <2>6, OneRun
<1>4. CASE PollEmptyFeed(s)
  <2> DEFINE r == PollEmpty(task[s].snap)
             c == task[s].snap.cursor
  <2>1. UNCHANGED feed /\ PollReturns(s, r, {})
    BY <1>4 DEF PollEmptyFeed, githubVars
  <2>2. c <= c
    BY Types
  <2>3. r.lastSeen = [boot |-> TRUE, cursor |-> c] /\ r.events = {}
    BY <1>2, PollEmptyOutcome
  <2> HIDE DEF r, c, R
  <2> QED
    BY <1>2, <1>3, <2>1, <2>2, <2>3 DEF c
<1>5. CASE PollFeed(s)
  <2>1. PICK latest \in Data(f) :
            /\ IsLatest(latest, Data(f))
            /\ PollReturns(s, PollCursor(Data(f), latest, task[s].snap),
                           PassedOver(s, latest))
    BY <1>5 DEF PollFeed
  <2> DEFINE r == PollCursor(Data(f), latest, task[s].snap)
  <2>2. Data(f) = Page(feed[f], PageSize[f]) \cap R
    BY DEF Data
  <2>3. UNCHANGED feed /\ latest \in R
    BY <1>5, <2>2 DEF PollFeed, githubVars
  <2>4. /\ r.lastSeen = [boot |-> TRUE, cursor |-> latest]
        /\ task[s].snap.cursor <= latest
        /\ \A e \in r.events : task[s].snap.cursor < e /\ e <= latest
    <3> HIDE DEF R, f
    <3> DEFINE ls == task[s].snap
               d  == Data(f)
               S  == feed[f]
               n  == PageSize[f]
    <3>1. /\ S \in SUBSET Event /\ IsFiniteSet(S) /\ n \in Nat /\ R \in SUBSET S
          /\ ls \in Seen /\ ls.cursor \in R \cup {None}
          /\ d = Page(S, n) \cap R /\ latest \in d /\ IsLatest(latest, d)
      BY <1>1, <1>2, <2>1, <2>2
    <3> HIDE DEF ls, d, S, n
    <3>2. /\ PollCursor(d, latest, ls).lastSeen = [boot |-> TRUE, cursor |-> latest]
          /\ ls.cursor <= latest
          /\ \A e \in PollCursor(d, latest, ls).events : ls.cursor < e /\ e <= latest
      BY ONLY <3>1, PollCursorOutcome
    <3> QED
      BY <3>2 DEF ls, d
  <2>5. PollReturns(s, r, PassedOver(s, latest))
    BY <2>1
  <2> HIDE DEF r, R
  <2> QED
    BY <1>3, <2>3, <2>4, <2>5
<1> QED
  BY <1>4, <1>5 DEF PollStep

\* A run that ends without touching its row.
LEMMA EndedRunKeepsIInv ==
    ASSUME TypeOK, IInv, NEW s \in Sub, task[s].pc # "idle",
           task' = [task EXCEPT ![s] = NoTask],
           UNCHANGED <<feed, status, lastSeen, sent, saveFailed>>
    PROVE  IInv'
<1> USE DEF IInv
<1>1. task'[s] = NoTask /\ \A t \in Sub \ {s} : task'[t] = task[t]
  BY DEF TypeOK, WorkerTypeOK
<1>2. status[s] # "absent"
  BY DEF NothingBeforeCreation, NoTask
<1>3. {lastSeen'[s].cursor, task'[s].snap.cursor, task'[s].new.cursor}
          \subseteq Reportable(FeedOf[s]) \cup {None}
  <2>1. EmptySeen.cursor = None
    BY FeedAssumption DEF EmptyCursor
  <2> QED
    BY <1>1, <2>1 DEF CursorsListed, NoTask
<1>4. RunsInPhase!(s)'
  BY <1>1 DEF NoTask
<1>5. \A e \in Event : SendBudget!(s, e)'
  BY <1>1, Types DEF SendBudget, Sending, NoTask
<1>6. ~ (task'[s].pc \in {"poll", "save"})
  BY <1>1 DEF NoTask
<1> QED
  BY <1>1, <1>2, <1>3, <1>4, <1>5, <1>6, OneRun

\* After the update of last_seen: the checkpoint has passed what is about to
\* be sent, or one more update has failed.
LEMMA SavedRunKeepsIInv ==
    ASSUME TypeOK, IInv, NEW s \in Sub, Save(s) \/ SaveFails(s), UNCHANGED feed
    PROVE  IInv'
<1> USE DEF IInv
<1>1. /\ task[s].pc = "save"
      /\ UNCHANGED <<status, sent>>
      /\ \A t \in Sub \ {s} : /\ task'[t] = task[t] /\ lastSeen'[t] = lastSeen[t]
                              /\ saveFailed'[t] = saveFailed[t]
  BY DEF Save, SaveFails, UpdateLastSeen, AfterSave, historyVars, TypeOK, WorkerTypeOK
<1>2. \/ task'[s] = NoTask
      \/ /\ task'[s].pc = "fetch" /\ task'[s].snap = task[s].snap
         /\ task'[s].new = task[s].new /\ task'[s].pending = task[s].pending
  BY TaskFields DEF Save, SaveFails, AfterSave, TypeOK, WorkerTypeOK, Task
<1>3. \/ /\ lastSeen'[s] = IF status[s] = "stored" THEN task[s].new ELSE lastSeen[s]
         /\ saveFailed'[s] \in {saveFailed[s], saveFailed[s] + 1}
      \/ lastSeen'[s] = lastSeen[s] /\ saveFailed'[s] = saveFailed[s] + 1
  BY DEF Save, SaveFails, UpdateLastSeen, historyVars, TypeOK, WorkerTypeOK
<1>4. status[s] # "absent"
  BY <1>1 DEF NothingBeforeCreation, NoTask
<1>5. {lastSeen'[s].cursor, task'[s].snap.cursor, task'[s].new.cursor}
          \subseteq Reportable(FeedOf[s]) \cup {None}
  <2>1. EmptySeen.cursor = None
    BY FeedAssumption DEF EmptyCursor
  <2>2. /\ lastSeen[s].cursor \in Reportable(FeedOf[s]) \cup {None}
        /\ task[s].snap.cursor \in Reportable(FeedOf[s]) \cup {None}
        /\ task[s].new.cursor \in Reportable(FeedOf[s]) \cup {None}
    BY DEF CursorsListed
  <2>3. lastSeen'[s].cursor \in Reportable(FeedOf[s]) \cup {None}
    BY <2>2, <1>3
  <2>4. /\ task'[s].snap.cursor \in Reportable(FeedOf[s]) \cup {None}
        /\ task'[s].new.cursor \in Reportable(FeedOf[s]) \cup {None}
    BY <2>1, <2>2, <1>2 DEF NoTask
  <2> QED
    BY <2>3, <2>4
<1>6. RunsInPhase!(s)'
  BY <1>2 DEF NoTask
<1>7. \A e \in Event : SendBudget!(s, e)'
  <2> SUFFICES ASSUME NEW e \in Event PROVE SendBudget!(s, e)'
    OBVIOUS
  <2>1. /\ e \in Nat /\ sent[s][e] \in Nat /\ saveFailed[s] \in Nat
        /\ lastSeen[s].cursor \in Nat /\ task[s].snap.cursor \in Nat
        /\ task[s].new.cursor \in Nat
    BY Types
  <2>2. /\ status[s] = "stored" => task[s].snap = lastSeen[s]
        /\ task[s].snap.cursor <= task[s].new.cursor
        /\ e \in task[s].pending =>
               task[s].snap.cursor < e /\ e <= task[s].new.cursor
    BY <1>1 DEF SnapshotFresh, RunsInPhase
  <2>3. /\ e > task[s].snap.cursor => sent[s][e] <= saveFailed[s]
        /\ sent[s][e] <= 1 + saveFailed[s]
        /\ status[s] = "stored" /\ e > lastSeen[s].cursor => sent[s][e] <= saveFailed[s]
    BY <1>1 DEF SendBudget, Sending
  <2>4. /\ Sending(s, e)' => e \in task[s].pending
        /\ ~ (task'[s].pc \in {"poll", "save"})
    BY <1>2 DEF Sending, NoTask
  <2> HIDE DEF IInv
  <2>5. sent'[s][e] <= 1 + saveFailed'[s]
    BY <1>1, <1>3, <2>1, <2>3
  <2>6. status'[s] = "stored" /\ e > lastSeen'[s].cursor => sent'[s][e] <= saveFailed'[s]
    BY <1>1, <1>3, <2>1, <2>2, <2>3
  <2>7. Sending(s, e)' =>
            /\ sent'[s][e] <= saveFailed'[s]
            /\ status'[s] = "stored" /\ e > lastSeen'[s].cursor
                   => sent'[s][e] + 1 <= saveFailed'[s]
    BY <1>1, <1>3, <2>1, <2>2, <2>3, <2>4
  <2> QED
    BY <2>4, <2>5, <2>6, <2>7
<1>8. ~ (task'[s].pc \in {"poll", "save"})
  BY <1>2 DEF NoTask
<1> QED
  BY <1>1, <1>4, <1>5, <1>6, <1>7, <1>8, OneRun

\* The steps that are the same for every event type.
LEMMA RowKeepsIInv ==
    ASSUME TypeOK, IInv, NEW s \in Sub, RowStep(s)
    PROVE  IInv'
<1>1. UNCHANGED feed
  BY DEF RowStep, githubVars
<1>2. CASE PollFails(s)
  BY <1>1, <1>2, EndedRunKeepsIInv DEF PollFails, rowVars, historyVars
<1>3. CASE Save(s) \/ SaveFails(s)
  BY <1>1, <1>3, SavedRunKeepsIInv
<1>4. CASE FetchConnection(s)
  <2>1. /\ UNCHANGED <<status, lastSeen, sent, saveFailed>>
        /\ task[s].pc = "fetch" /\ task'[s].pc = "send"
        /\ task'[s].snap = task[s].snap /\ task'[s].new = task[s].new
        /\ task'[s].pending = task[s].pending
        /\ \A t \in Sub \ {s} : task'[t] = task[t]
    BY <1>4, TaskFields DEF FetchConnection, rowVars, historyVars, TypeOK, WorkerTypeOK, Task
  <2>2. status[s] # "absent"
    BY <2>1 DEF IInv, NothingBeforeCreation, NoTask
  <2>3. {lastSeen'[s].cursor, task'[s].snap.cursor, task'[s].new.cursor}
            \subseteq Reportable(FeedOf[s]) \cup {None}
    BY <2>1 DEF IInv, CursorsListed
  <2>4. RunsInPhase!(s)'
    BY <2>1
  <2>5. \A e \in Event : SendBudget!(s, e)'
    BY <2>1 DEF IInv, SendBudget, Sending
  <2> QED
    BY <1>1, <2>1, <2>2, <2>3, <2>4, <2>5, OneRun
<1>5. CASE ConnectionMissing(s)
  BY <1>1, <1>5, EndedRunKeepsIInv DEF ConnectionMissing, rowVars
<1> QED
  BY <1>2, <1>3, <1>4, <1>5 DEF RowStep

\* A dispatch uses up what SendBudget left for it.
LEMMA SendKeepsIInv ==
    ASSUME TypeOK, IInv, NEW s \in Sub, SendStep(s)
    PROVE  IInv'
<1> USE DEF IInv
<1>1. PICK e \in Event : Dispatch(s, e) \/ DispatchFails(s, e)
  BY DEF SendStep, SendNewest, SendNewestFails
<1>2. /\ UNCHANGED <<feed, status, lastSeen, saveFailed>>
      /\ task[s].pc = "send" /\ e \in task[s].pending
      /\ EventDone(s, e)
  BY <1>1 DEF SendStep, SendNewest, SendNewestFails, Dispatch, DispatchFails,
              rowVars, githubVars
<1>3. /\ sent'[s][e] \in {sent[s][e], sent[s][e] + 1}
      /\ \A x \in Event \ {e} : sent'[s][x] = sent[s][x]
      /\ \A t \in Sub \ {s} : sent'[t] = sent[t]
  BY <1>1 DEF Dispatch, DispatchFails, TypeOK, WorkerTypeOK
<1>4. /\ \A t \in Sub \ {s} : task'[t] = task[t]
      /\ \/ task'[s] = NoTask
         \/ /\ task'[s].pc = "send" /\ task'[s].snap = task[s].snap
            /\ task'[s].new = task[s].new
            /\ task'[s].pending = task[s].pending \ {e}
  BY <1>2, TaskFields DEF EventDone, TypeOK, WorkerTypeOK, Task
<1>5. status[s] # "absent"
  BY <1>2 DEF NothingBeforeCreation, NoTask
<1>6. {lastSeen'[s].cursor, task'[s].snap.cursor, task'[s].new.cursor}
          \subseteq Reportable(FeedOf[s]) \cup {None}
  <2>1. EmptySeen.cursor = None
    BY FeedAssumption DEF EmptyCursor
  <2> QED
    BY <1>2, <1>4, <2>1 DEF CursorsListed, NoTask
<1>7. RunsInPhase!(s)'
  BY <1>4 DEF NoTask
<1>8. \A x \in Event : SendBudget!(s, x)'
  <2> SUFFICES ASSUME NEW x \in Event PROVE SendBudget!(s, x)'
    OBVIOUS
  <2>1. ~ (task'[s].pc \in {"poll", "save"})
    BY <1>4 DEF NoTask
  <2>2. /\ x \in Nat /\ sent[s][x] \in Nat /\ saveFailed[s] \in Nat
        /\ lastSeen[s].cursor \in Nat
    BY Types
  <2>3. CASE x = e
    <3>1. ~ Sending(s, e)'
      BY <1>4 DEF Sending, NoTask
    <3>2. /\ sent[s][e] <= saveFailed[s]
          /\ status[s] = "stored" /\ e > lastSeen[s].cursor
                 => sent[s][e] + 1 <= saveFailed[s]
      BY <1>2 DEF SendBudget, Sending
    <3> QED
      BY <1>2, <1>3, <2>1, <2>2, <2>3, <3>1, <3>2
  <2>4. CASE x # e
    <3>1. Sending(s, x)' => Sending(s, x)
      BY <1>2, <1>4 DEF Sending, NoTask
    <3>2. /\ sent[s][x] <= 1 + saveFailed[s]
          /\ status[s] = "stored" /\ x > lastSeen[s].cursor
                 => sent[s][x] <= saveFailed[s]
          /\ Sending(s, x) =>
                /\ sent[s][x] <= saveFailed[s]
                /\ status[s] = "stored" /\ x > lastSeen[s].cursor
                       => sent[s][x] + 1 <= saveFailed[s]
      BY <2>2 DEF SendBudget
    <3> QED
      BY <1>2, <1>3, <2>1, <2>2, <2>4, <3>1, <3>2
  <2> QED
    BY <2>3, <2>4
<1>9. ~ (task'[s].pc \in {"poll", "save"})
  BY <1>4 DEF NoTask
<1> QED
  BY <1>2, <1>3, <1>4, <1>5, <1>6, <1>7, <1>8, <1>9, OneRun

\* IInv is inductive, given the types, when GitHub removes no item.
LEMMA IInvInductive ==
    ASSUME TypeOK, IInv, Removable = {}, [Next]_vars
    PROVE  IInv'
<1>1. ASSUME NEW s \in Sub, ProcessSubscription(s) PROVE IInv'
  BY <1>1, PollKeepsIInv, RowKeepsIInv, SendKeepsIInv DEF ProcessSubscription
<1>2. CASE UNCHANGED vars
  BY <1>2 DEF vars, IInv, NothingBeforeCreation, FeedsFinite, SnapshotFresh,
              CursorsListed, RunsInPhase, SendBudget, Sending, Reportable
<1> QED
  BY <1>1, <1>2, GithubKeepsIInv, RequestKeepsIInv, TickKeepsIInv DEF Next

LEMMA InitIInv == Init => IInv
<1> SUFFICES ASSUME Init PROVE IInv
  OBVIOUS
<1>1. EmptySeen.cursor = None
  BY FeedAssumption DEF EmptyCursor
<1>2. NothingBeforeCreation /\ SnapshotFresh
  BY DEF Init, WorkerInit, NothingBeforeCreation, SnapshotFresh, NoTask
<1>3. FeedsFinite
  BY FS_EmptySet DEF Init, FeedsFinite
<1>4. CursorsListed
  BY <1>1 DEF Init, WorkerInit, CursorsListed, NoTask
<1>5. RunsInPhase
  BY DEF Init, WorkerInit, RunsInPhase, NoTask
<1>6. SendBudget
  BY DEF Init, WorkerInit, SendBudget, Sending, NoTask
<1> QED
  BY <1>2, <1>3, <1>4, <1>5, <1>6 DEF IInv

\* The inductive invariant holds when GitHub removes no item.
THEOREM InductiveInvariant == ASSUME Removable = {} PROVE Spec => []IInv
<1>1. TypeOK /\ IInv /\ [Next]_vars => IInv'
  BY IInvInductive
<1> QED
  BY <1>1, InitIInv, TypeCorrect, PTL DEF Spec

------------------------------------------------------------------------------
(* What follows from it.                                                   *)

\* No writer of last_seen and no second tick gets between the load of a
\* checkpoint and the poll that compares with it.
THEOREM SnapshotIsFresh == ASSUME Removable = {} PROVE Spec => []SnapshotFresh
<1>1. IInv => SnapshotFresh
  BY DEF IInv
<1> QED
  BY <1>1, InductiveInvariant, PTL

\* What a poll reports lies strictly above the stored checkpoint and not above
\* the one about to be stored.
THEOREM OnlyNewReported == ASSUME Removable = {} PROVE Spec => []ReportsOnlyNew
<1>1. IInv => ReportsOnlyNew
  BY DEF IInv, RunsInPhase, SnapshotFresh, ReportsOnlyNew
<1> QED
  BY <1>1, InductiveInvariant, PTL

\* An item is dispatched at most once, plus once for each failed update.
THEOREM AtMostOnce == ASSUME Removable = {} PROVE Spec => []AtMostOncePerSave
<1>1. IInv => AtMostOncePerSave
  BY DEF IInv, SendBudget, AtMostOncePerSave
<1> QED
  BY <1>1, InductiveInvariant, PTL

\* No step takes a checkpoint back: only Save and CreateSubscription write it.
LEMMA CheckpointGoesUp ==
    ASSUME TypeOK, IInv, [Next]_vars, NEW t \in Sub
    PROVE  /\ lastSeen'[t].cursor >= lastSeen[t].cursor
           /\ lastSeen[t].boot => lastSeen'[t].boot
<1> DEFINE Up == /\ lastSeen'[t].cursor >= lastSeen[t].cursor
                 /\ lastSeen[t].boot => lastSeen'[t].boot
<1>1. lastSeen[t].cursor \in Nat /\ lastSeen \in [Sub -> Seen]
  BY Types DEF TypeOK, WorkerTypeOK
<1>2. CASE lastSeen'[t] = lastSeen[t]
  BY <1>1, <1>2
<1>3. ASSUME NEW s \in Sub, CreateSubscription(s, EmptySeen)
      PROVE  lastSeen'[t] = lastSeen[t]
  BY <1>1, <1>3 DEF CreateSubscription, IInv, NothingBeforeCreation
<1>4. ASSUME NEW s \in Sub, task[s].pc = "save", UpdateLastSeen(s)
      PROVE  Up
  <2>1. CASE s = t /\ status[s] = "stored"
    <3>1. lastSeen'[t] = task[t].new /\ task[t].snap = lastSeen[t]
      BY <1>1, <1>4, <2>1 DEF UpdateLastSeen, IInv, SnapshotFresh
    <3>2. task[t].snap.cursor <= task[t].new.cursor /\ task[t].new.boot
      BY <1>4, <2>1 DEF IInv, RunsInPhase
    <3> QED
      BY <3>1, <3>2, Types
  <2>2. CASE ~ (s = t /\ status[s] = "stored")
    BY <1>1, <1>2, <1>4, <2>2 DEF UpdateLastSeen
  <2> QED
    BY <2>1, <2>2
<1>5. ASSUME UNCHANGED lastSeen PROVE Up
  BY <1>2, <1>5
<1>6. CASE GithubStep
  BY <1>5, <1>6 DEF GithubStep, Publish, Remove, workerVars
<1>7. CASE RequestStep
  BY <1>2, <1>3, <1>5, <1>7
  DEF RequestStep, Requests, DeleteSubscription, SoftDeleteConnection,
      RestoreConnection, PurgeAccount
<1>8. CASE TickStep
  BY <1>5, <1>8 DEF TickStep, TickStart, TickLoadFails, Crash, rowVars
<1>9. ASSUME NEW s \in Sub, ProcessSubscription(s) PROVE Up
  <2>1. CASE PollStep(s)
    BY <1>5, <2>1 DEF PollStep, PollEmptyFeed, PollFeed, PollReturns, rowVars
  <2>2. CASE RowStep(s)
    BY <1>4, <1>5, <2>2 DEF RowStep, PollFails, Save, SaveFails, FetchConnection,
                            ConnectionMissing, rowVars
  <2>3. CASE SendStep(s)
    BY <1>5, <2>3 DEF SendStep, SendNewest, SendNewestFails, Dispatch,
                      DispatchFails, rowVars
  <2> QED
    BY <1>9, <2>1, <2>2, <2>3 DEF ProcessSubscription
<1>10. CASE UNCHANGED vars
  BY <1>5, <1>10 DEF vars
<1> QED
  BY <1>6, <1>7, <1>8, <1>9, <1>10 DEF Next

\* The stored checkpoint never goes back to an older item.
THEOREM CheckpointNeverGoesBack == ASSUME Removable = {} PROVE Spec => CheckpointMonotone
<1>1. TypeOK /\ IInv /\ [Next]_vars => [NoCheckpointGoesBack]_vars
  BY CheckpointGoesUp DEF NoCheckpointGoesBack
<1> QED
  BY <1>1, TypeCorrect, InductiveInvariant, PTL DEF Spec, CheckpointMonotone

------------------------------------------------------------------------------
(* What a subscription gets that was switched off before the tick.         *)

\* A subscription that the running tick did not find active has no run in it.
IneligibleIdle == \A s \in ineligible : task[s].pc = "idle"

\* A step of one run: it is not an idle one, and the others go on unchanged.
LEMMA OnlyOwnRun ==
    ASSUME TypeOK, NEW s \in Sub, ProcessSubscription(s)
    PROVE  /\ task[s].pc # "idle" /\ ineligible' = ineligible
           /\ \A t \in Sub \ {s} : task'[t] = task[t] /\ sent'[t] = sent[t]
<1> USE DEF TypeOK, WorkerTypeOK, rowVars, historyVars
<1>1. CASE PollStep(s)
  <2>1. PICK r, missed : PollReturns(s, r, missed)
    BY <1>1 DEF PollStep, PollEmptyFeed, PollFeed
  <2>2. /\ task[s].pc = "poll" /\ UNCHANGED <<sent, ineligible>>
        /\ \A t \in Sub \ {s} : task'[t] = task[t]
    BY <2>1 DEF PollReturns
  <2> QED
    BY <2>2
<1>2. CASE RowStep(s)
  BY <1>2 DEF RowStep, PollFails, Save, SaveFails, FetchConnection, ConnectionMissing,
              AfterSave
<1>3. CASE SendStep(s)
  <2>1. PICK e \in Event : Dispatch(s, e) \/ DispatchFails(s, e)
    BY <1>3 DEF SendStep, SendNewest, SendNewestFails
  <2>2. /\ task[s].pc = "send" /\ ineligible' = ineligible /\ EventDone(s, e)
        /\ \/ sent' = sent
           \/ sent' = [sent EXCEPT ![s][e] = @ + 1]
    BY <2>1 DEF Dispatch, DispatchFails
  <2> QED
    BY <2>2 DEF EventDone
<1> QED
  BY <1>1, <1>2, <1>3 DEF ProcessSubscription

\* Only a run dispatches.
LEMMA OnlyRunsSend ==
    ASSUME GithubStep \/ RequestStep \/ TickStep
    PROVE  sent' = sent
<1>1. CASE GithubStep
  BY <1>1 DEF GithubStep, Publish, Remove, workerVars
<1>2. CASE RequestStep
  BY <1>2 DEF RequestStep, Requests, CreateSubscription, DeleteSubscription,
              SoftDeleteConnection, RestoreConnection, PurgeAccount, historyVars
<1>3. CASE TickStep
  <2>1. TickStart \/ Crash => UNCHANGED sent
    BY Zenon DEF TickStart, Crash
  <2>2. TickLoadFails => UNCHANGED sent
    BY DEF TickLoadFails, historyVars
  <2> QED
    BY <1>3, <2>1, <2>2 DEF TickStep
<1> QED
  BY <1>1, <1>2, <1>3

\* A tick starts a run for what it finds active only, no request starts one, and
\* a run does nothing for another subscription.
LEMMA IneligibleStayIdle ==
    ASSUME TypeOK, IneligibleIdle, [Next]_vars
    PROVE  IneligibleIdle'
<1> USE DEF IneligibleIdle, historyVars
<1>0. ineligible \subseteq Sub
  BY DEF TypeOK, WorkerTypeOK
<1>1. CASE GithubStep
  BY <1>1 DEF GithubStep, Publish, Remove, workerVars
<1>2. CASE RequestStep
  BY <1>2 DEF RequestStep, Requests, CreateSubscription, DeleteSubscription,
              SoftDeleteConnection, RestoreConnection, PurgeAccount
<1>3. CASE TickStep
  <2>1. CASE TickStart
    <3>1. ineligible' = {s \in Sub : ~Subscribed(s)} /\ NoTickRunning
      BY <2>1, Zenon DEF TickStart
    <3>2. \A s \in Sub : ~Subscribed(s) => s \notin ActiveSubscriptions
      BY DEF ActiveSubscriptions, Subscribed
    <3>3. \A s \in Sub : s \notin ActiveSubscriptions => task'[s] = task[s]
      BY <2>1, Zenon DEF TickStart
    <3> QED
      BY <3>1, <3>2, <3>3, Zenon DEF NoTickRunning
  <2>2. CASE TickLoadFails
    BY <2>2 DEF TickLoadFails
  <2>3. CASE Crash
    BY <2>3, <1>0 DEF Crash, NoTask
  <2> QED
    BY <1>3, <2>1, <2>2, <2>3 DEF TickStep
<1>4. ASSUME NEW s \in Sub, ProcessSubscription(s) PROVE IneligibleIdle'
  <2>1. s \notin ineligible
    BY <1>4, OnlyOwnRun
  <2> QED
    BY <1>0, <1>4, <2>1, OnlyOwnRun
<1>5. CASE UNCHANGED vars
  BY <1>5 DEF vars
<1> QED
  BY <1>1, <1>2, <1>3, <1>4, <1>5 DEF Next

\* What was deleted before a tick started, itself or its connection, gets
\* nothing from that tick, also when it is created or restored meanwhile.
THEOREM IneligibleGetNothing == Spec => IneligibleSilent
<1>1. Init => IneligibleIdle
  BY DEF Init, WorkerInit, IneligibleIdle
<1>2. TypeOK /\ IneligibleIdle /\ [Next]_vars => IneligibleIdle'
  BY IneligibleStayIdle
<1>3. TypeOK /\ IneligibleIdle /\ [Next]_vars
          => [\A s \in ineligible : sent'[s] = sent[s]]_vars
  <2> SUFFICES ASSUME TypeOK, IneligibleIdle, Next, NEW t \in ineligible
               PROVE  sent'[t] = sent[t]
    OBVIOUS
  <2>1. t \in Sub /\ task[t].pc = "idle"
    BY DEF TypeOK, WorkerTypeOK, IneligibleIdle
  <2>2. ASSUME NEW s \in Sub, ProcessSubscription(s) PROVE sent'[t] = sent[t]
    BY <2>1, <2>2, OnlyOwnRun
  <2> QED
    BY <2>2, OnlyRunsSend DEF Next
<1> QED
  BY <1>1, <1>2, <1>3, TypeCorrect, PTL DEF Spec, IneligibleSilent
==============================================================================
