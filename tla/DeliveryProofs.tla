----------------------------- MODULE DeliveryProofs -----------------------------
(***************************************************************************)
(* CursorSubscriptions implements Delivery when GitHub removes no item,    *)
(* for every set of subscriptions, feeds and items and every page size.    *)
(* The inductive invariant of CursorSubscriptionsProofs supplies what is   *)
(* not in a single step: a poll only queues items that its checkpoint does *)
(* not cover, and those were sent at most once per failed update.          *)
(***************************************************************************)
EXTENDS CursorSubscriptionsProofs

------------------------------------------------------------------------------
\* The first state has empty queues and nothing sent.
LEMMA InitDelivers == Init => Promise!Init
  BY DEF Init, WorkerInit, NoTask, Promise!Init

\* A step that leaves every queue, what was sent and the failures as they are.
LEMMA Stutters ==
    ASSUME \A r \in Sub : task'[r].pending = task[r].pending,
           UNCHANGED <<sent, saveFailed>>
    PROVE  UNCHANGED Promise!vars
  BY DEF Promise!vars

\* A run that is replaced changes the queue of its subscription only.
LEMMA OneQueue ==
    ASSUME TypeOK, NEW s \in Sub, NEW t, task' = [task EXCEPT ![s] = t]
    PROVE  [r \in Sub |-> task[r].pending]'
             = [[r \in Sub |-> task[r].pending] EXCEPT ![s] = t.pending]
<1>1. task \in [Sub -> Task]
  BY DEF TypeOK, WorkerTypeOK
<1> QED
  BY <1>1

\* Before its poll a run has nothing to send.
LEMMA NothingQueued ==
    ASSUME IInv, NEW s \in Sub, task[s].pc \in {"idle", "poll"}
    PROVE  task[s].pending = {}
  BY DEF IInv, RunsInPhase

\* A tick starts runs with empty queues, or loses all queues in a crash.
LEMMA TickDelivers ==
    ASSUME TypeOK, IInv, TickStep
    PROVE  [Promise!Next]_(Promise!vars)
<1>1. CASE TickStart
  <2>1. \A r \in Sub : task[r].pending = {} /\ task'[r].pending = {}
    BY <1>1, NothingQueued DEF TickStart, NoTickRunning, NoTask
  <2> QED
    BY <1>1, <2>1, Stutters DEF TickStart
<1>2. CASE TickLoadFails
  BY <1>2, Stutters DEF TickLoadFails, historyVars
<1>3. CASE Crash
  <2>1. Promise!GiveUp(Sub)
    BY <1>3 DEF Crash, NoTask, Promise!GiveUp
  <2> QED
    BY <2>1 DEF Promise!Next
<1> QED
  BY <1>1, <1>2, <1>3 DEF TickStep

\* A poll queues what it reports.
LEMMA PollDelivers ==
    ASSUME TypeOK, IInv, TypeOK', IInv', NEW s \in Sub, PollStep(s)
    PROVE  Promise!Next
<1>1. PICK r, missed : PollReturns(s, r, missed)
  BY DEF PollStep, PollEmptyFeed, PollFeed
<1> DEFINE items == IF r.initialized THEN {} ELSE r.events
           t == [task[s] EXCEPT !.pc = "save", !.new = r.lastSeen, !.pending = items]
<1>2. task[s].pc = "poll" /\ task' = [task EXCEPT ![s] = t]
  BY <1>1 DEF PollReturns
<1>3. task[s] \in Task /\ task'[s] = t
  BY <1>2 DEF TypeOK, WorkerTypeOK
<1>4. t.pending = items /\ t.snap = task[s].snap /\ t.pc = "save"
  BY <1>3 DEF Task
<1>5. items \in SUBSET Event
  <2>1. task'[s] \in Task
    BY DEF TypeOK, WorkerTypeOK
  <2> QED
    BY <2>1, <1>3, <1>4 DEF Task
<1>6. \A e \in items : sent[s][e] <= saveFailed[s]
  <2>1. \A e \in items : task[s].snap.cursor < e
    BY <1>3, <1>4 DEF IInv, RunsInPhase
  <2>2. \A e \in items : e \in Nat /\ task[s].snap.cursor \in Nat
    BY <1>5, EventIsPositive, Types
  <2> QED
    BY <1>2, <1>5, <2>1, <2>2 DEF IInv, SendBudget
<1>7. Promise!Queue(s, items)
  <2>1. [q \in Sub |-> task[q].pending][s] = {}
    BY <1>2, NothingQueued
  <2>2. UNCHANGED <<sent, saveFailed>>
    BY <1>1 DEF PollReturns
  <2>3. [q \in Sub |-> task[q].pending]'
          = [[q \in Sub |-> task[q].pending] EXCEPT ![s] = t.pending]
    BY <1>2, OneQueue
  <2>4. [q \in Sub |-> task[q].pending]'
          = [[q \in Sub |-> task[q].pending] EXCEPT ![s] = items]
    BY <1>4, <2>3
  <2> HIDE DEF items, t
  <2> QED
    BY <1>6, <2>1, <2>2, <2>4 DEF Promise!Queue
<1> QED
  BY <1>5, <1>7 DEF Promise!Next

\* The end of a run, or its next phase: the queue stays or is given up.
LEMMA RowDelivers ==
    ASSUME TypeOK, IInv, NEW s \in Sub, RowStep(s)
    PROVE  [Promise!Next]_(Promise!vars)
<1>1. task \in [Sub -> Task] /\ saveFailed \in [Sub -> Nat]
  BY DEF TypeOK, WorkerTypeOK
<1>2. ASSUME AfterSave(s)
      PROVE  \A r \in Sub : task'[r].pending = task[r].pending
  BY <1>1, <1>2 DEF AfterSave, NoTask, Task
<1>3. CASE PollFails(s)
  <2>1. task[s].pending = {}
    BY <1>3, NothingQueued DEF PollFails
  <2>2. \A r \in Sub : task'[r].pending = task[r].pending
    BY <1>1, <1>3, <2>1 DEF PollFails, NoTask
  <2> QED
    BY <1>3, <2>2, Stutters DEF PollFails, historyVars
<1>4. CASE Save(s)
  BY <1>2, <1>4, Stutters DEF Save, historyVars
<1>5. CASE SaveFails(s)
  <2>1. Promise!Lose(s)
    BY <1>2, <1>5 DEF SaveFails, Promise!Lose
  <2> QED
    BY <2>1 DEF Promise!Next
<1>6. CASE FetchConnection(s)
  <2>1. \A r \in Sub : task'[r].pending = task[r].pending
    BY <1>1, <1>6 DEF FetchConnection, Task
  <2> QED
    BY <1>6, <2>1, Stutters DEF FetchConnection, historyVars
<1>7. CASE ConnectionMissing(s)
  <2>1. Promise!GiveUp({s})
    BY <1>1, <1>7 DEF ConnectionMissing, NoTask, Promise!GiveUp
  <2> QED
    BY <2>1 DEF Promise!Next
<1> QED
  BY <1>3, <1>4, <1>5, <1>6, <1>7 DEF RowStep

\* A dispatch, failed or not, takes one item from the queue.
LEMMA SendDelivers ==
    ASSUME TypeOK, NEW s \in Sub, SendStep(s)
    PROVE  Promise!Next
<1>1. task \in [Sub -> Task]
  BY DEF TypeOK, WorkerTypeOK
<1>2. PICK e \in Event : Dispatch(s, e) \/ DispatchFails(s, e)
  BY DEF SendStep, SendNewest, SendNewestFails
<1>3. e \in task[s].pending /\ EventDone(s, e) /\ UNCHANGED saveFailed
  BY <1>2 DEF Dispatch, DispatchFails
<1>4. [r \in Sub |-> task[r].pending]'
        = [[r \in Sub |-> task[r].pending] EXCEPT ![s] = @ \ {e}]
  BY <1>1, <1>3 DEF EventDone, NoTask, Task
<1>5. sent' \in {sent, [sent EXCEPT ![s][e] = @ + 1]}
  BY <1>2 DEF Dispatch, DispatchFails
<1>6. Promise!Leave(s, e)
  BY <1>3, <1>4, <1>5 DEF Promise!Leave
<1> QED
  BY <1>6 DEF Promise!Next

\* Every step of the worker is a step of Delivery or changes nothing of it.
LEMMA StepDelivers ==
    ASSUME TypeOK, IInv, TypeOK', IInv', [Next]_vars
    PROVE  [Promise!Next]_(Promise!vars)
<1>1. CASE GithubStep
  BY <1>1, Stutters DEF GithubStep, Publish, Remove, workerVars
<1>2. CASE RequestStep
  BY <1>2, Stutters
  DEF RequestStep, Requests, CreateSubscription, DeleteSubscription,
      SoftDeleteConnection, RestoreConnection, PurgeAccount, historyVars
<1>3. CASE TickStep
  BY <1>3, TickDelivers
<1>4. ASSUME NEW s \in Sub, ProcessSubscription(s)
      PROVE  [Promise!Next]_(Promise!vars)
  BY <1>4, PollDelivers, RowDelivers, SendDelivers DEF ProcessSubscription
<1>5. CASE UNCHANGED vars
  BY <1>5, Stutters DEF vars
<1> QED
  BY <1>1, <1>2, <1>3, <1>4, <1>5 DEF Next

\* The worker keeps what Delivery promises: nothing is queued again for a
\* subscription unless an update of its checkpoint has failed.
THEOREM ImplementsDelivery == ASSUME Removable = {} PROVE Spec => DeliveryPromise
<1>1. TypeOK /\ IInv /\ TypeOK' /\ IInv' /\ [Next]_vars
        => [Promise!Next]_(Promise!vars)
  BY StepDelivers
<1> QED
  BY <1>1, InitDelivers, TypeCorrect, InductiveInvariant, PTL
  DEF Spec, DeliveryPromise, Promise!Spec
==============================================================================
