-------------------------- MODULE CheckpointProofs --------------------------
(***************************************************************************)
(* What a checkpoint stands for: the first poll of a subscription is       *)
(* silent for good, and every item that the checkpoint has passed is       *)
(* accounted for.  Both are proved for every set of subscriptions, feeds   *)
(* and items and every page size, when GitHub removes no item; the second  *)
(* also needs that new items are listed first.                             *)
(***************************************************************************)
EXTENDS CursorSubscriptionsProofs

------------------------------------------------------------------------------
(* The inductive invariants.                                               *)

\* A poll that starts from ls does not report e.
Passed(s, e, ls) == ls.boot => e <= ls.cursor \/ e \notin Data(FeedOf[s])

\* Until its first poll is stored nothing is sent for a subscription, and what
\* that poll has seen lies below its checkpoint or outside the page for good.
Covered(s) ==
    /\ task[s].pc \in {"poll", "save"} => task[s].snap = lastSeen[s]
    /\ ~lastSeen[s].boot => /\ lastSeen[s].cursor = None
                            /\ task[s].pending = {}
                            /\ \A e \in Event : sent[s][e] = 0
    /\ \A e \in baseline[s] :
           /\ e \in feed[FeedOf[s]]
           /\ sent[s][e] = 0
           /\ e \notin task[s].pending
           /\ Passed(s, e, lastSeen[s])
           /\ task[s].pc = "save" => Passed(s, e, task[s].new)

BaselineCovered == \A s \in Sub : Covered(s)

Accounted(s, e) ==
    e \in baseline[s] \cup task[s].pending \cup dropped[s] \/ sent[s][e] > 0

\* What the stored checkpoint has passed is accounted for, and so is what the
\* one about to be stored has passed.
Accounts(s) ==
    \A e \in Reportable(FeedOf[s]) :
        /\ lastSeen[s].boot /\ e <= lastSeen[s].cursor => Accounted(s, e)
        /\ task[s].pc = "save" /\ e <= task[s].new.cursor => Accounted(s, e)

ListedWasCreated == \A f \in Feed : feed[f] \subseteq created[f]

PassedAccounted == ListedWasCreated /\ \A s \in Sub : Accounts(s)

------------------------------------------------------------------------------
(* Pages and polls.                                                        *)

\* The fields of a listing a poll reads.
LEMMA FeedFields ==
    ASSUME TypeOK, IInv, NEW s \in Sub
    PROVE  /\ FeedOf[s] \in Feed
           /\ feed[FeedOf[s]] \in SUBSET Event /\ IsFiniteSet(feed[FeedOf[s]])
           /\ PageSize[FeedOf[s]] \in Nat
           /\ Reportable(FeedOf[s]) \subseteq feed[FeedOf[s]]
           /\ Data(FeedOf[s]) \subseteq feed[FeedOf[s]]
  BY FeedAssumption DEF TypeOK, IInv, FeedsFinite, Reportable, Data, Page

\* What is pushed off a page by additions was on it before.
LEMMA PageShrinks ==
    ASSUME NEW T, IsFiniteSet(T), NEW S \in SUBSET T, NEW n \in Nat,
           NEW x \in S, x \in Page(T, n)
    PROVE  x \in Page(S, n)
<1> DEFINE above(U) == {y \in U : y > x}
<1>1. IsFiniteSet(above(T)) /\ Cardinality(above(T)) < n
  BY FS_Subset, above(T) \in SUBSET T DEF Page
<1>2. above(S) \in SUBSET above(T)
  OBVIOUS
<1>3. IsFiniteSet(above(S)) /\ Cardinality(above(S)) <= Cardinality(above(T))
  BY <1>1, <1>2, FS_Subset
<1>4. Cardinality(above(S)) \in Nat /\ Cardinality(above(T)) \in Nat
  BY <1>1, <1>3, FS_CardinalityType
<1>5. Cardinality(above(S)) < n
  BY <1>1, <1>3, <1>4
<1> QED
  BY <1>5 DEF Page

\* A poll reports P and passes over M, and its checkpoint is c.
Answers(s, c, P, M) ==
    LET snap == task[s].snap
    IN  /\ task[s].pc = "poll"
        /\ task' = [task EXCEPT ![s] = [@ EXCEPT !.pc = "save", !.new = WithBootstrap(c),
                                                 !.pending = P]]
        /\ dropped' = [dropped EXCEPT ![s] = @ \cup M]
        /\ RecordBaseline(s)
        /\ UNCHANGED <<feed, created, lastSeen, sent>>
        /\ \A e \in Data(FeedOf[s]) : e <= c
        /\ \A e \in P : snap.cursor < e
        /\ snap.cursor = None /\ ~snap.boot => P = {}
        /\ snap.boot => \A e \in Reportable(FeedOf[s]) :
                            e <= c => e <= snap.cursor \/ e \in P \cup M

\* Whatever the listing, a poll of s is one of these answers: it reports only what
\* is above its cursor, and what it passes it has seen, reports or passes over.
LEMMA PollAnswers ==
    ASSUME TypeOK, IInv, NEW s \in Sub, PollStep(s)
    PROVE  \E c \in Nat, P \in SUBSET Data(FeedOf[s]), M \in SUBSET Event :
               Answers(s, c, P, M)
<1> DEFINE f == FeedOf[s]
           snap == task[s].snap
<1>1. /\ snap \in Seen /\ snap.cursor \in Nat
      /\ snap.cursor \in Reportable(f) \cup {None}
  BY TaskFields, Types DEF TypeOK, WorkerTypeOK, IInv, CursorsListed
<1>2. \A e \in feed[f] : e \in Nat
  BY FeedFields, EventIsPositive
<1>3. CASE PollEmptyFeed(s)
  <2>1. Data(f) = {} /\ PollReturns(s, PollEmpty(snap), {}) /\ RecordBaseline(s)
        /\ UNCHANGED <<feed, created>>
    BY <1>3 DEF PollEmptyFeed, githubVars
  <2>2. PollEmpty(snap).lastSeen = WithBootstrap(snap.cursor) /\ PollEmpty(snap).events = {}
    BY DEF PollEmpty, PollResult
  <2>3. Answers(s, snap.cursor, {}, {})
    BY <1>1, <2>1, <2>2 DEF Answers, PollReturns, rowVars
  <2> QED
    BY <1>1, <2>3
<1>4. CASE PollFeed(s)
  <2>1. PICK latest \in Data(f) :
            /\ IsLatest(latest, Data(f))
            /\ PollReturns(s, PollCursor(Data(f), latest, snap), PassedOver(s, latest))
    BY <1>4 DEF PollFeed
  <2> DEFINE r == PollCursor(Data(f), latest, snap)
             P == IF r.initialized THEN {} ELSE r.events
             M == PassedOver(s, latest)
  <2>2. RecordBaseline(s) /\ UNCHANGED <<feed, created>>
    BY <1>4 DEF PollFeed, githubVars
  <2>3. /\ r.lastSeen = WithBootstrap(latest) /\ snap.cursor <= latest
        /\ \A e \in r.events : snap.cursor < e
    <3> DEFINE d == Data(f)
               S == feed[f]
               n == PageSize[f]
               R == Reportable(f)
               ls == snap
    <3>1. /\ S \in SUBSET Event /\ IsFiniteSet(S) /\ n \in Nat /\ R \in SUBSET S
          /\ ls \in Seen /\ ls.cursor \in R \cup {None}
          /\ d = Page(S, n) \cap R /\ latest \in d /\ IsLatest(latest, d)
      BY <1>1, <2>1, FeedFields DEF Data
    <3>2. r = PollCursor(d, latest, ls)
      OBVIOUS
    <3> HIDE DEF d, S, n, R, ls, r, P, M, f, snap
    <3>3. /\ PollCursor(d, latest, ls).lastSeen = [boot |-> TRUE, cursor |-> latest]
          /\ ls.cursor <= latest
          /\ \A e \in PollCursor(d, latest, ls).events : ls.cursor < e /\ e <= latest
      BY ONLY <3>1, PollCursorOutcome
    <3> QED
      BY <3>2, <3>3 DEF WithBootstrap, ls
  <2>4. /\ r.initialized = (snap.cursor = None /\ ~snap.boot)
        /\ r.events = IF r.initialized \/ latest = snap.cursor THEN {}
                      ELSE NewItems(Data(f), latest, snap.cursor)
    BY DEF PollCursor, PollResult, IsBootstrapped
  <2>5. P \in SUBSET Data(f) /\ M \in SUBSET Event /\ latest \in Nat
    BY <1>2, <2>4, FeedFields DEF NewItems, PassedOver
  <2>6. ASSUME snap.boot, NEW e \in Reportable(f), e <= latest
        PROVE  e <= snap.cursor \/ e \in P \cup M
    <3>1. e \in feed[f] /\ e \in Nat
      BY <1>2, FeedFields
    <3>2. CASE snap.cursor \notin Data(f)
      <4>1. CASE e = latest
        <5>1. latest \in NewItems(Data(f), latest, snap.cursor) /\ latest # snap.cursor
          BY <3>2 DEF NewItems
        <5> QED
          BY <2>4, <2>6, <4>1, <5>1
      <4>2. CASE e < latest
        BY <1>1, <2>6, <3>1, <3>2, <4>2 DEF PassedOver
      <4> QED
        BY <2>5, <2>6, <3>1, <4>1, <4>2
    <3>3. CASE snap.cursor \in Data(f) /\ e > snap.cursor
      <4>1. e \in Data(f)
        <5> DEFINE S == feed[f]
                   n == PageSize[f]
                   c == snap.cursor
        <5>1. S \in SUBSET Event /\ IsFiniteSet(S) /\ n \in Nat
              /\ c \in Page(S, n) /\ e \in S /\ e > c
          BY <3>1, <3>3, FeedFields DEF Data
        <5> HIDE DEF S, n, c
        <5>2. e \in Page(S, n)
          BY ONLY <5>1, PageIsTop
        <5> QED
          BY <2>6, <5>2 DEF S, n, Data
      <4>2. latest # snap.cursor
        BY <1>1, <2>5, <2>6, <3>1, <3>3
      <4>3. e \in NewItems(Data(f), latest, snap.cursor)
        BY <3>3, <4>1 DEF NewItems
      <4> QED
        BY <2>4, <2>6, <4>2, <4>3
    <3> QED
      BY <1>1, <3>1, <3>2, <3>3
  <2>7. \A e \in Data(f) : e <= latest
    BY <2>1 DEF IsLatest
  <2>8. snap.cursor = None /\ ~snap.boot => P = {}
    BY <2>4
  <2>9. \A e \in P : snap.cursor < e
    BY <2>3
  <2>10. /\ task[s].pc = "poll"
         /\ task' = [task EXCEPT ![s] = [@ EXCEPT !.pc = "save",
                          !.new = WithBootstrap(latest), !.pending = P]]
         /\ dropped' = [dropped EXCEPT ![s] = @ \cup M]
         /\ UNCHANGED <<lastSeen, sent>>
    BY <2>1, <2>3 DEF PollReturns, rowVars
  <2> HIDE DEF r, P, M
  <2>11. Answers(s, latest, P, M)
    BY <2>2, <2>3, <2>6, <2>7, <2>8, <2>9, <2>10 DEF Answers
  <2> QED
    BY <2>5, <2>11
<1> QED
  BY <1>3, <1>4 DEF PollStep

------------------------------------------------------------------------------
(* The first poll is silent.                                               *)

\* What GitHub adds brings nothing onto a page that was not there.
LEMMA PageOnlyLoses ==
    ASSUME TypeOK, IInv, NEW f \in Feed, NEW e \in Event, Publish(f, e),
           NEW g \in Feed, NEW x \in feed[g], x \in Data(g)'
    PROVE  x \in Data(g)
<1>1. feed'[g] \in {feed[g], feed[g] \cup {e}} /\ IsFiniteSet(feed[g])
  BY DEF Publish, TypeOK, IInv, FeedsFinite
<1>2. IsFiniteSet(feed'[g]) /\ feed[g] \in SUBSET feed'[g]
  BY <1>1, FS_AddElement
<1>3. x \in Page(feed'[g], PageSize[g]) /\ PageSize[g] \in Nat
  BY FeedAssumption DEF Data
<1>4. x \in Page(feed[g], PageSize[g])
  BY <1>2, <1>3, PageShrinks
<1>5. x \in Reportable(g)
  BY DEF Data, Reportable
<1> QED
  BY <1>4, <1>5 DEF Data

\* What GitHub adds leaves the baselines covered, since it brings nothing back.
LEMMA GithubKeepsCovered ==
    ASSUME TypeOK, IInv, BaselineCovered, Removable = {}, GithubStep
    PROVE  BaselineCovered'
<1>1. PICK f \in Feed, e \in Event : Publish(f, e)
  BY DEF GithubStep, Remove
<1>2. UNCHANGED <<task, lastSeen, sent, baseline>>
      /\ \A g \in Feed : feed[g] \subseteq feed'[g]
  BY <1>1 DEF Publish, workerVars, TypeOK
<1>3. SUFFICES ASSUME NEW s \in Sub PROVE Covered(s)'
  BY DEF BaselineCovered
<1>4. Covered(s) /\ FeedOf[s] \in Feed
  BY FeedAssumption DEF BaselineCovered
<1>5. \A x \in feed[FeedOf[s]] : x \in Data(FeedOf[s])' => x \in Data(FeedOf[s])
  BY <1>1, <1>4, PageOnlyLoses
<1> QED
  BY <1>2, <1>4, <1>5 DEF Covered, Passed

\* A step that touches neither runs nor checkpoints nor feeds.
LEMMA SameKeepsCovered ==
    ASSUME BaselineCovered, UNCHANGED <<task, lastSeen, sent, baseline, feed>>
    PROVE  BaselineCovered'
  BY DEF BaselineCovered, Covered, Passed, Data, Reportable

\* A new row has the checkpoint it had before: none.
LEMMA RequestKeepsCovered ==
    ASSUME TypeOK, IInv, BaselineCovered, RequestStep
    PROVE  BaselineCovered'
<1>1. UNCHANGED <<task, sent, baseline, feed>>
  BY DEF RequestStep, Requests, CreateSubscription, DeleteSubscription,
         SoftDeleteConnection, RestoreConnection, PurgeAccount, historyVars, githubVars
<1>2. ASSUME NEW s \in Sub, CreateSubscription(s, EmptySeen) PROVE UNCHANGED lastSeen
  BY <1>2 DEF CreateSubscription, IInv, NothingBeforeCreation, TypeOK, WorkerTypeOK
<1>3. UNCHANGED lastSeen
  BY <1>2 DEF RequestStep, Requests, DeleteSubscription,
              SoftDeleteConnection, RestoreConnection, PurgeAccount
<1> QED
  BY <1>1, <1>3, SameKeepsCovered

\* A tick starts runs from the stored checkpoints, or loses all runs.
LEMMA TickKeepsCovered ==
    ASSUME TypeOK, IInv, BaselineCovered, TickStep
    PROVE  BaselineCovered'
<1>1. UNCHANGED <<lastSeen, sent, baseline, feed>>
  BY DEF TickStep, TickStart, TickLoadFails, Crash, rowVars, historyVars, githubVars
<1>2. SUFFICES ASSUME NEW s \in Sub PROVE Covered(s)'
  BY DEF BaselineCovered
<1>3. Covered(s)
  BY DEF BaselineCovered
<1>4. \/ task'[s] = task[s]
      \/ task'[s].pc = "poll" /\ task'[s].snap = lastSeen[s] /\ task'[s].pending = {}
      \/ task'[s] = NoTask
  BY DEF TickStep, TickStart, TickLoadFails, Crash, NoTask
<1>5. CASE task'[s] = task[s]
  BY <1>1, <1>3, <1>5 DEF Covered, Passed, Data, Reportable
<1>6. CASE task'[s].pc = "poll" /\ task'[s].snap = lastSeen[s] /\ task'[s].pending = {}
  BY <1>1, <1>3, <1>6 DEF Covered, Passed, Data, Reportable
<1>7. CASE task'[s] = NoTask
  BY <1>1, <1>3, <1>7 DEF Covered, NoTask, Passed, Data, Reportable
<1> QED
  BY <1>4, <1>5, <1>6, <1>7

\* A step of one run leaves the other subscriptions alone.
LEMMA OneRunCovered ==
    ASSUME BaselineCovered, NEW s \in Sub, UNCHANGED feed,
           \A t \in Sub \ {s} :
               /\ task'[t] = task[t] /\ lastSeen'[t] = lastSeen[t]
               /\ sent'[t] = sent[t] /\ baseline'[t] = baseline[t],
           Covered(s)'
    PROVE  BaselineCovered'
  BY DEF BaselineCovered, Covered, Passed, Data, Reportable

\* A first poll covers what it has seen; a later one reports nothing of it.
LEMMA PollKeepsCovered ==
    ASSUME TypeOK, IInv, BaselineCovered, NEW s \in Sub, PollStep(s)
    PROVE  BaselineCovered'
<1> DEFINE f == FeedOf[s]
           snap == task[s].snap
<1>1. PICK c \in Nat, P \in SUBSET Data(f), M \in SUBSET Event : Answers(s, c, P, M)
  BY PollAnswers
<1>2. /\ task[s].pc = "poll" /\ snap = lastSeen[s] /\ Covered(s)
      /\ UNCHANGED <<feed, lastSeen, sent>>
  BY <1>1 DEF Answers, BaselineCovered, Covered
<1>3. /\ task'[s].pc = "save" /\ task'[s].snap = snap
      /\ task'[s].new = WithBootstrap(c) /\ task'[s].pending = P
      /\ \A t \in Sub \ {s} : task'[t] = task[t] /\ baseline'[t] = baseline[t]
      /\ baseline'[s] = IF snap.boot THEN baseline[s] ELSE baseline[s] \cup feed[f]
  BY <1>1, TaskFields DEF Answers, RecordBaseline, TypeOK, WorkerTypeOK, Task
<1>4. Data(f)' = Data(f) /\ feed[f] \subseteq Event
  BY <1>2, FeedFields DEF Data, Reportable
<1>5. ~lastSeen[s].boot => P = {} /\ \A e \in feed[f] : sent[s][e] = 0
  BY <1>1, <1>2, <1>4 DEF Answers, Covered
<1>6. ASSUME NEW e \in baseline'[s]
      PROVE  /\ e \in feed[f] /\ sent[s][e] = 0
             /\ e \notin P
             /\ Passed(s, e, lastSeen[s])
             /\ Passed(s, e, WithBootstrap(c))
  <2>1. e \in feed[f] /\ sent[s][e] = 0 /\ Passed(s, e, lastSeen[s])
    BY <1>2, <1>3, <1>5 DEF Covered, Passed
  <2>2. /\ e \in Data(f) => e <= c
        /\ e \in P => e \in Data(f) /\ snap.cursor < e
    BY <1>1 DEF Answers
  <2>3. snap.cursor \in Nat /\ e \in Nat
    BY <2>1, <1>4, Types, EventIsPositive
  <2>4. e \notin P
    BY <1>2, <1>5, <2>1, <2>2, <2>3 DEF Passed
  <2>5. Passed(s, e, WithBootstrap(c))
    BY <2>2 DEF Passed, WithBootstrap
  <2> QED
    BY <2>1, <2>4, <2>5
<1>7. Covered(s)'
  BY <1>2, <1>3, <1>4, <1>5, <1>6 DEF Covered, Passed
<1> QED
  BY <1>2, <1>3, <1>7, OneRunCovered

\* The checkpoint becomes the one of the poll, or stays; the run goes on or ends.
LEMMA RowKeepsCovered ==
    ASSUME TypeOK, IInv, BaselineCovered, NEW s \in Sub, RowStep(s)
    PROVE  BaselineCovered'
<1>1. /\ UNCHANGED <<feed, sent, baseline>> /\ Covered(s)
      /\ \A t \in Sub \ {s} : task'[t] = task[t] /\ lastSeen'[t] = lastSeen[t]
  BY DEF RowStep, PollFails, Save, SaveFails, UpdateLastSeen, AfterSave, FetchConnection,
         ConnectionMissing, rowVars, historyVars, githubVars, BaselineCovered,
         TypeOK, WorkerTypeOK
<1>2. \/ lastSeen'[s] = lastSeen[s]
      \/ task[s].pc = "save" /\ lastSeen'[s] = task[s].new
  BY DEF RowStep, PollFails, Save, SaveFails, UpdateLastSeen, FetchConnection,
         ConnectionMissing, rowVars, TypeOK, WorkerTypeOK
<1>3. \/ task'[s] = NoTask
      \/ task'[s].pc \in {"fetch", "send"} /\ task'[s].pending = task[s].pending
  BY TaskFields DEF RowStep, PollFails, Save, SaveFails, AfterSave, FetchConnection,
         ConnectionMissing, TypeOK, WorkerTypeOK, Task
<1>4. task[s].pc = "save" => task[s].new.boot
  BY DEF IInv, RunsInPhase
<1>5. /\ task'[s].pc \notin {"poll", "save"}
      /\ task'[s].pending \subseteq task[s].pending
  BY <1>3 DEF NoTask
<1>6. Covered(s)'
  BY <1>1, <1>2, <1>4, <1>5 DEF Covered, Passed, Data, Reportable
<1> QED
  BY <1>1, <1>6, OneRunCovered

\* A dispatch is of what the poll reported.
LEMMA SendKeepsCovered ==
    ASSUME TypeOK, IInv, BaselineCovered, NEW s \in Sub, SendStep(s)
    PROVE  BaselineCovered'
<1>1. PICK e \in Event : Dispatch(s, e) \/ DispatchFails(s, e)
  BY DEF SendStep, SendNewest, SendNewestFails
<1>2. /\ UNCHANGED <<feed, lastSeen, baseline>> /\ Covered(s)
      /\ task[s].pc = "send" /\ e \in task[s].pending /\ EventDone(s, e)
      /\ \A t \in Sub \ {s} : sent'[t] = sent[t]
      /\ \A x \in Event \ {e} : sent'[s][x] = sent[s][x]
  BY <1>1 DEF SendStep, SendNewest, SendNewestFails, Dispatch, DispatchFails,
              rowVars, githubVars, BaselineCovered, TypeOK, WorkerTypeOK
<1>3. /\ task'[s].pc \notin {"poll", "save"}
      /\ task'[s].pending \subseteq task[s].pending
      /\ \A t \in Sub \ {s} : task'[t] = task[t]
  BY <1>2, TaskFields DEF EventDone, NoTask, TypeOK, WorkerTypeOK, Task
<1>4. e \notin baseline[s] /\ lastSeen[s].boot /\ baseline[s] \subseteq Event
  BY <1>2 DEF Covered, TypeOK
<1>5. Covered(s)'
  BY <1>2, <1>3, <1>4 DEF Covered, Passed, Data, Reportable
<1> QED
  BY <1>2, <1>3, <1>5, OneRunCovered

\* Every step of the workers, of the requests and of GitHub keeps BaselineCovered.
LEMMA BaselineCoveredInductive ==
    ASSUME TypeOK, IInv, BaselineCovered, Removable = {}, [Next]_vars
    PROVE  BaselineCovered'
<1>1. ASSUME NEW s \in Sub, ProcessSubscription(s) PROVE BaselineCovered'
  BY <1>1, PollKeepsCovered, RowKeepsCovered, SendKeepsCovered DEF ProcessSubscription
<1>2. CASE UNCHANGED vars
  BY <1>2, SameKeepsCovered DEF vars
<1> QED
  BY <1>1, <1>2, GithubKeepsCovered, RequestKeepsCovered, TickKeepsCovered DEF Next

\* Before the first poll no subscription has a baseline.
LEMMA InitCovered == Init => BaselineCovered
  BY FeedAssumption
  DEF Init, WorkerInit, BaselineCovered, Covered, NoTask, EmptyCursor

\* In every reachable state the baselines are covered by their checkpoints.
THEOREM CoveredInvariant == ASSUME Removable = {} PROVE Spec => []BaselineCovered
<1>1. TypeOK /\ IInv /\ BaselineCovered /\ [Next]_vars => BaselineCovered'
  BY BaselineCoveredInductive
<1> QED
  BY <1>1, InitCovered, TypeCorrect, InductiveInvariant, PTL DEF Spec

\* What was listed when a subscription had no checkpoint yet is never notified,
\* however often its first poll or the update after it failed.
THEOREM FirstPollSilent == ASSUME Removable = {} PROVE Spec => []BaselineSilent
<1>1. BaselineCovered => BaselineSilent
  BY DEF BaselineCovered, Covered, BaselineSilent
<1> QED
  BY <1>1, CoveredInvariant, PTL

------------------------------------------------------------------------------
(* The checkpoint accounts for what it has passed.                         *)

\* A published item is listed before the cursors, which are all listed.
LEMMA GithubKeepsAccounts ==
    ASSUME TypeOK, IInv, PassedAccounted, Removable = {}, InOrder, GithubStep
    PROVE  PassedAccounted'
<1>1. PICK f \in Feed, e \in Event : Publish(f, e)
  BY DEF GithubStep, Remove
<1>2. UNCHANGED <<task, lastSeen, sent, dropped, baseline>>
      /\ feed' = [feed EXCEPT ![f] = @ \cup {e}]
      /\ created' = [created EXCEPT ![f] = @ \cup {e}]
      /\ \A x \in created[f] : x < e
  BY <1>1 DEF Publish, workerVars
<1>3. ListedWasCreated'
  BY <1>2 DEF PassedAccounted, ListedWasCreated, TypeOK
<1>4. ASSUME NEW s \in Sub PROVE Accounts(s)'
  <2> DEFINE g == FeedOf[s]
  <2>1. SUFFICES ASSUME NEW x \in Reportable(g)', x \notin Reportable(g)
                 PROVE  x > lastSeen[s].cursor /\ x > task[s].new.cursor
    <3>1. /\ lastSeen[s].cursor \in Nat /\ task[s].new.cursor \in Nat
          /\ \A x \in Reportable(g)' : x \in Nat
      BY <1>2, Types, EventIsPositive, FeedAssumption DEF Reportable, TypeOK
    <3>2. \A x \in Reportable(g)' \ Reportable(g) :
              x > lastSeen[s].cursor /\ x > task[s].new.cursor
      BY <2>1
    <3>3. Accounts(s)
      BY DEF PassedAccounted
    <3> QED
      BY <1>2, <3>1, <3>2, <3>3 DEF Accounts, Accounted
  <2>2. x = e /\ g = f /\ e \in Nat /\ e > None
    BY <1>2, <2>1, FeedAssumption, EventIsPositive DEF Reportable, TypeOK
  <2>3. {lastSeen[s].cursor, task[s].new.cursor} \subseteq created[f] \cup {None}
    BY <2>2 DEF IInv, CursorsListed, Reportable, PassedAccounted, ListedWasCreated
  <2>4. lastSeen[s].cursor \in Nat /\ task[s].new.cursor \in Nat
    BY Types
  <2> QED
    BY <1>2, <2>2, <2>3, <2>4
<1> QED
  BY <1>3, <1>4 DEF PassedAccounted

\* A step after which s has the same checkpoint, no new one to store, and lacks
\* nothing of what accounted for its items.
LEMMA AccountsKept ==
    ASSUME NEW s \in Sub, Accounts(s), UNCHANGED feed,
           lastSeen'[s] = lastSeen[s], task'[s].pc # "save",
           \A e \in Reportable(FeedOf[s]) :
               lastSeen[s].boot /\ e <= lastSeen[s].cursor /\ Accounted(s, e)
                   => Accounted(s, e)'
    PROVE  Accounts(s)'
  BY DEF Accounts, Reportable

\* A request of a user moves no checkpoint and takes nothing that is pending.
LEMMA RequestKeepsAccounts ==
    ASSUME TypeOK, IInv, PassedAccounted, RequestStep
    PROVE  PassedAccounted'
<1>1. UNCHANGED <<task, sent, dropped, baseline, feed, created>>
  BY DEF RequestStep, Requests, CreateSubscription, DeleteSubscription,
         SoftDeleteConnection, RestoreConnection, PurgeAccount, historyVars, githubVars
<1>2. ASSUME NEW s \in Sub, CreateSubscription(s, EmptySeen) PROVE UNCHANGED lastSeen
  BY <1>2 DEF CreateSubscription, IInv, NothingBeforeCreation, TypeOK, WorkerTypeOK
<1>3. UNCHANGED lastSeen
  BY <1>2 DEF RequestStep, Requests, DeleteSubscription,
              SoftDeleteConnection, RestoreConnection, PurgeAccount
<1> QED
  BY <1>1, <1>3 DEF PassedAccounted, ListedWasCreated, Accounts, Accounted, Reportable

\* A crash loses what a run has polled: while its checkpoint is not stored, that
\* is above the stored one; afterwards it is known to be given up.
LEMMA TickKeepsAccounts ==
    ASSUME TypeOK, IInv, BaselineCovered, PassedAccounted, TickStep
    PROVE  PassedAccounted'
<1>1. UNCHANGED <<lastSeen, sent, baseline, feed, created>>
  BY DEF TickStep, TickStart, TickLoadFails, Crash, rowVars, historyVars, githubVars
<1>2. ASSUME NEW s \in Sub PROVE Accounts(s)'
  <2>1. Accounts(s)
    BY DEF PassedAccounted
  <2>2. CASE TickStart
    <3>1. task[s].pc = "idle" /\ task[s].pending = {} /\ dropped' = dropped
      BY <2>2 DEF TickStart, NoTickRunning, IInv, RunsInPhase
    <3>2. task'[s].pc # "save"
      BY <2>2, <3>1 DEF TickStart, NoTask
    <3> QED
      BY <1>1, <2>1, <3>1, <3>2, AccountsKept DEF Accounted
  <2>3. CASE TickLoadFails
    BY <1>1, <2>1, <2>3 DEF TickLoadFails, historyVars, Accounts, Accounted, Reportable
  <2>4. CASE Crash
    <3>1. task'[s] = NoTask
          /\ dropped'[s] = IF task[s].pc \in {"fetch", "send"}
                           THEN dropped[s] \cup task[s].pending ELSE dropped[s]
      BY <2>4 DEF Crash
    <3>2. ASSUME NEW e \in task[s].pending, e <= lastSeen[s].cursor
          PROVE  task[s].pc \in {"fetch", "send"}
      <4>1. task[s].pc \notin {"idle", "poll"}
        BY <3>2 DEF IInv, RunsInPhase
      <4>2. task[s].pc # "save"
        <5>1. task[s].pc = "save" => lastSeen[s].cursor < e
          BY DEF IInv, RunsInPhase, BaselineCovered, Covered
        <5>2. e \in Nat /\ lastSeen[s].cursor \in Nat
          BY Types
        <5> QED
          BY <3>2, <5>1, <5>2
      <4> QED
        BY <4>1, <4>2, TaskFields DEF TypeOK, WorkerTypeOK
    <3> QED
      BY <1>1, <2>1, <3>1, <3>2, AccountsKept DEF Accounted, NoTask
  <2> QED
    BY <2>2, <2>3, <2>4 DEF TickStep
<1> QED
  BY <1>1, <1>2 DEF PassedAccounted, ListedWasCreated

\* A step of one run leaves the accounts of the other subscriptions alone.
LEMMA OneRunAccounts ==
    ASSUME PassedAccounted, NEW s \in Sub, UNCHANGED <<feed, created>>,
           \A t \in Sub \ {s} :
               /\ task'[t] = task[t] /\ lastSeen'[t] = lastSeen[t] /\ sent'[t] = sent[t]
               /\ dropped'[t] = dropped[t] /\ baseline'[t] = baseline[t],
           Accounts(s)'
    PROVE  PassedAccounted'
  BY DEF PassedAccounted, ListedWasCreated, Accounts, Accounted, Reportable

\* What the new checkpoint passes is pending, passed over, or passed before.
LEMMA PollKeepsAccounts ==
    ASSUME TypeOK, IInv, BaselineCovered, PassedAccounted, NEW s \in Sub, PollStep(s)
    PROVE  PassedAccounted'
<1> DEFINE f == FeedOf[s]
           snap == task[s].snap
<1>1. PICK c \in Nat, P \in SUBSET Data(f), M \in SUBSET Event : Answers(s, c, P, M)
  BY PollAnswers
<1>2. /\ task[s].pc = "poll" /\ snap = lastSeen[s] /\ task[s].pending = {}
      /\ UNCHANGED <<feed, created, lastSeen, sent>> /\ Accounts(s)
  BY <1>1 DEF Answers, BaselineCovered, Covered, IInv, RunsInPhase, PassedAccounted
<1>3. /\ task'[s].new = WithBootstrap(c) /\ task'[s].pending = P
      /\ dropped'[s] = dropped[s] \cup M
      /\ \A t \in Sub \ {s} : /\ task'[t] = task[t] /\ baseline'[t] = baseline[t]
                              /\ dropped'[t] = dropped[t]
      /\ baseline'[s] = IF snap.boot THEN baseline[s] ELSE baseline[s] \cup feed[f]
  BY <1>1, TaskFields DEF Answers, RecordBaseline, TypeOK, WorkerTypeOK, Task
<1>4. \A e : Accounted(s, e) => Accounted(s, e)'
  BY <1>2, <1>3 DEF Accounted
<1>5. ASSUME NEW e \in Reportable(f), e <= c PROVE Accounted(s, e)'
  <2>1. CASE ~snap.boot
    BY <1>3, <2>1, FeedFields DEF Accounted
  <2>2. CASE snap.boot
    <3>1. e <= snap.cursor \/ e \in P \cup M
      BY <1>1, <1>5, <2>2 DEF Answers
    <3>2. e <= snap.cursor => Accounted(s, e)
      BY <1>2, <2>2 DEF Accounts
    <3> QED
      BY <1>3, <1>4, <3>1, <3>2 DEF Accounted
  <2> QED
    BY <2>1, <2>2
<1>6. Accounts(s)'
  <2>1. Reportable(f)' = Reportable(f) /\ task'[s].new.cursor = c
    BY <1>2, <1>3 DEF Reportable, WithBootstrap
  <2>2. \A e \in Reportable(f) :
            lastSeen[s].boot /\ e <= lastSeen[s].cursor => Accounted(s, e)'
    BY <1>2, <1>4 DEF Accounts
  <2> HIDE DEF f
  <2> QED
    BY <1>2, <1>5, <2>1, <2>2 DEF Accounts, f
<1> QED
  BY <1>2, <1>3, <1>6, OneRunAccounts

\* The events of a run whose connection is gone are given up; those of a run
\* that ends before are none.
LEMMA RowKeepsAccounts ==
    ASSUME TypeOK, IInv, PassedAccounted, NEW s \in Sub, RowStep(s)
    PROVE  PassedAccounted'
<1> USE DEF rowVars, historyVars, githubVars
<1>1. /\ UNCHANGED <<feed, created, sent, baseline>> /\ Accounts(s)
      /\ \A t \in Sub \ {s} : /\ task'[t] = task[t] /\ lastSeen'[t] = lastSeen[t]
                              /\ dropped'[t] = dropped[t]
  BY DEF RowStep, PollFails, Save, SaveFails, UpdateLastSeen, AfterSave, FetchConnection,
         ConnectionMissing, PassedAccounted, TypeOK, WorkerTypeOK
<1>2. \/ lastSeen'[s] = lastSeen[s]
      \/ task[s].pc = "save" /\ lastSeen'[s] = task[s].new
  BY DEF RowStep, PollFails, Save, SaveFails, UpdateLastSeen, FetchConnection,
         ConnectionMissing, TypeOK, WorkerTypeOK
<1>3. /\ task'[s].pc # "save"
      /\ task[s].pending \cup dropped[s] \subseteq task'[s].pending \cup dropped'[s]
  <2>1. CASE PollFails(s)
    BY <2>1 DEF PollFails, NoTask, IInv, RunsInPhase, TypeOK, WorkerTypeOK
  <2>2. CASE Save(s) \/ SaveFails(s)
    <3>1. task'[s] = IF task[s].pending = {} THEN NoTask
                                             ELSE [task[s] EXCEPT !.pc = "fetch"]
      BY <2>2 DEF Save, SaveFails, AfterSave, TypeOK, WorkerTypeOK
    <3>2. task[s] \in Task
      BY DEF TypeOK, WorkerTypeOK
    <3>3. task'[s].pc # "save" /\ task'[s].pending = task[s].pending
      BY <3>1, <3>2 DEF NoTask, Task
    <3>4. dropped' = dropped
      BY <2>2 DEF Save, SaveFails
    <3> QED
      BY <3>3, <3>4
  <2>3. CASE FetchConnection(s)
    BY <2>3, TaskFields DEF FetchConnection, TypeOK, WorkerTypeOK, Task
  <2>4. CASE ConnectionMissing(s)
    BY <2>4 DEF ConnectionMissing, NoTask, TypeOK, WorkerTypeOK
  <2> QED
    BY <2>1, <2>2, <2>3, <2>4 DEF RowStep
<1>4. \A e : Accounted(s, e) => Accounted(s, e)'
  BY <1>1, <1>3 DEF Accounted
<1>5. Accounts(s)'
  BY <1>1, <1>2, <1>3, <1>4 DEF Accounts, Reportable
<1> QED
  BY <1>1, <1>5, OneRunAccounts

\* An event that is no longer pending was dispatched or is known to be given up.
LEMMA SendKeepsAccounts ==
    ASSUME TypeOK, IInv, PassedAccounted, NEW s \in Sub, SendStep(s)
    PROVE  PassedAccounted'
<1>1. PICK e \in Event : Dispatch(s, e) \/ DispatchFails(s, e)
  BY DEF SendStep, SendNewest, SendNewestFails
<1>2. /\ UNCHANGED <<feed, created, lastSeen, baseline>> /\ Accounts(s)
      /\ EventDone(s, e)
      /\ \A t \in Sub \ {s} : sent'[t] = sent[t] /\ dropped'[t] = dropped[t]
  BY <1>1 DEF SendStep, SendNewest, SendNewestFails, Dispatch, DispatchFails,
              rowVars, githubVars, PassedAccounted, TypeOK, WorkerTypeOK
<1>3. /\ task'[s].pc # "save"
      /\ task[s].pending \ {e} \subseteq task'[s].pending
      /\ \A t \in Sub \ {s} : task'[t] = task[t]
  <2>1. task[s] \in Task /\ task[s].pc = "send"
    BY <1>1 DEF Dispatch, DispatchFails, TypeOK, WorkerTypeOK
  <2>2. \/ task'[s] = NoTask /\ task[s].pending \ {e} = {}
        \/ task'[s] = [task[s] EXCEPT !.pending = task[s].pending \ {e}]
    BY <1>2 DEF EventDone, TypeOK, WorkerTypeOK
  <2>3. \A t \in Sub \ {s} : task'[t] = task[t]
    BY <1>2 DEF EventDone, TypeOK, WorkerTypeOK
  <2> QED
    BY <2>1, <2>2, <2>3 DEF NoTask, Task
<1>4. /\ dropped[s] \subseteq dropped'[s]
      /\ e \in dropped'[s] \/ sent'[s][e] > 0
      /\ \A x \in Event : sent[s][x] > 0 => sent'[s][x] > 0
  <2>1. sent[s] \in [Event -> Nat] /\ dropped[s] \in SUBSET Event
    BY DEF TypeOK, WorkerTypeOK
  <2>2. CASE Dispatch(s, e)
    BY <2>1, <2>2 DEF Dispatch, TypeOK, WorkerTypeOK
  <2>3. CASE DispatchFails(s, e)
    <3>1. dropped'[s] = dropped[s] \cup {e}
      BY <2>3 DEF DispatchFails, TypeOK, WorkerTypeOK
    <3>2. \/ sent' = sent
          \/ sent'[s] = [sent[s] EXCEPT ![e] = @ + 1]
      BY <2>3 DEF DispatchFails, TypeOK, WorkerTypeOK
    <3> QED
      BY <2>1, <3>1, <3>2
  <2> QED
    BY <1>1, <2>2, <2>3
<1>5. \A x \in Event : Accounted(s, x) => Accounted(s, x)'
  BY <1>2, <1>3, <1>4 DEF Accounted
<1>6. Accounts(s)'
  BY <1>2, <1>3, <1>5, FeedFields, AccountsKept
<1> QED
  BY <1>2, <1>3, <1>6, OneRunAccounts

\* Every step of the workers, of the requests and of GitHub keeps PassedAccounted.
LEMMA PassedAccountedInductive ==
    ASSUME TypeOK, IInv, BaselineCovered, PassedAccounted, Removable = {}, InOrder,
           [Next]_vars
    PROVE  PassedAccounted'
<1>1. ASSUME NEW s \in Sub, ProcessSubscription(s) PROVE PassedAccounted'
  BY <1>1, PollKeepsAccounts, RowKeepsAccounts, SendKeepsAccounts DEF ProcessSubscription
<1>2. CASE UNCHANGED vars
  BY <1>2 DEF vars, PassedAccounted, ListedWasCreated, Accounts, Accounted, Reportable
<1> QED
  BY <1>1, <1>2, GithubKeepsAccounts, RequestKeepsAccounts, TickKeepsAccounts DEF Next

\* Before the first poll no checkpoint has passed anything.
LEMMA InitAccounted == Init => PassedAccounted
  BY FeedAssumption
  DEF Init, WorkerInit, PassedAccounted, ListedWasCreated, Accounts, Reportable

\* In every reachable state what a checkpoint has passed is accounted for.
THEOREM AccountedInvariant ==
    ASSUME Removable = {}, InOrder PROVE Spec => []PassedAccounted
<1>1. TypeOK /\ IInv /\ BaselineCovered /\ PassedAccounted /\ [Next]_vars
        => PassedAccounted'
  BY PassedAccountedInductive
<1> QED
  BY <1>1, InitAccounted, TypeCorrect, InductiveInvariant, CoveredInvariant, PTL DEF Spec

\* An item that the stored checkpoint has passed was there at the start, was
\* dispatched, is about to be, or is known to be given up: no crash and no
\* failed update makes one disappear unnoticed.
THEOREM CheckpointAccountsForAll ==
    ASSUME Removable = {}, InOrder PROVE Spec => []CheckpointAccounts
<1>1. TypeOK /\ IInv /\ PassedAccounted => CheckpointAccounts
  <2> SUFFICES ASSUME TypeOK, IInv, PassedAccounted,
                      NEW s \in Sub, lastSeen[s].boot,
                      NEW e \in Reportable(FeedOf[s])
               PROVE  e > lastSeen[s].cursor \/ Accounted(s, e)
    BY DEF CheckpointAccounts, Accounted
  <2>1. e \in Nat /\ lastSeen[s].cursor \in Nat
    BY FeedFields, EventIsPositive, Types
  <2> QED
    BY <2>1 DEF PassedAccounted, Accounts
<1> QED
  BY <1>1, TypeCorrect, InductiveInvariant, AccountedInvariant, PTL
==============================================================================
