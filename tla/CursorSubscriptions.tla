---------------------------- MODULE CursorSubscriptions ----------------------------
(***************************************************************************)
(* The poll worker over GitHub feeds that are polled by a cursor: new      *)
(* releases, new commits, opened issues, opened pull requests, completed   *)
(* workflow runs.  A feed is one repository and one such event type.       *)
(* GitHub adds items to a feed, and removes the removable ones (a deleted  *)
(* release, a commit dropped by a force push, a deleted workflow run).     *)
(***************************************************************************)
EXTENDS GithubPollWorker

CONSTANTS
    Feed,        \* the polled feeds
    FeedOf,      \* the repository and event type of each subscription
    PageSize,    \* per_page of the listing of each feed
    IssueFeed,   \* the feeds of type issue_opened
    PullRequest, \* the items of an issue listing that are pull requests
    Removable,   \* the items GitHub may remove again
    InOrder      \* TRUE: a new item is always listed before all older ones

ASSUME FeedAssumption ==
    /\ FeedOf \in [Sub -> Feed]
    /\ PageSize \in [Feed -> Nat \ {0}]
    /\ IssueFeed \subseteq Feed
    /\ PullRequest \subseteq Event
    /\ Removable \subseteq Event
    /\ InOrder \in BOOLEAN
    /\ Seen = CursorSeen(Event)
    /\ EmptySeen = EmptyCursor

VARIABLES
    feed,       \* the items each feed lists now
    created,    \* history: the items a feed has ever listed
    baseline    \* history: the items listed by the polls of a subscription
                \* that had not been bootstrapped

githubVars == <<feed, created>>
vars == <<status, lastSeen, conn, task, faults, sent, dropped, saveFailed,
          ineligible, feed, created, baseline>>

Init ==
    /\ WorkerInit
    /\ feed = [f \in Feed |-> {}]
    /\ created = [f \in Feed |-> {}]
    /\ baseline = [s \in Sub |-> {}]

------------------------------------------------------------------------------
(* GitHub.                                                                 *)

Publish(f, e) ==
    /\ e \notin created[f]
    /\ InOrder => \A x \in created[f] : x < e
    /\ feed' = [feed EXCEPT ![f] = @ \cup {e}]
    /\ created' = [created EXCEPT ![f] = @ \cup {e}]
    /\ UNCHANGED <<workerVars, baseline>>

Remove(f, e) ==
    /\ e \in feed[f] \cap Removable
    /\ feed' = [feed EXCEPT ![f] = @ \ {e}]
    /\ UNCHANGED <<workerVars, created, baseline>>

------------------------------------------------------------------------------
(* The poll step for a cursor feed.                                        *)

\* The items of a feed that its poll function can report.
Reportable(f) == IF f \in IssueFeed THEN feed[f] \ PullRequest ELSE feed[f]

\* The array `data' of the poll functions: one page, with the pull requests
\* of an issue listing filtered out of it.
Data(f) == Page(feed[f], PageSize[f]) \cap Reportable(f)

IsLatest(e, data) == e \in data /\ \A x \in data : x <= e

RecordBaseline(s) ==
    baseline' = [baseline EXCEPT ![s] =
                    IF task[s].snap.boot THEN @ ELSE @ \cup feed[FeedOf[s]]]

PollEmptyFeed(s) ==
    /\ Data(FeedOf[s]) = {}
    /\ PollReturns(s, PollEmpty(task[s].snap), {})
    /\ RecordBaseline(s)
    /\ UNCHANGED githubVars

\* Between the cursor and the newest item, but not on the page or, for a page
\* without the cursor, not the newest: the listing has moved past them.
PassedOver(s, latest) ==
    LET seen == task[s].snap.cursor
        data == Data(FeedOf[s])
    IN  {e \in Reportable(FeedOf[s]) :
            seen \notin data /\ task[s].snap.boot /\ seen < e /\ e < latest}

PollFeed(s) ==
    /\ \E latest \in Data(FeedOf[s]) :
        /\ IsLatest(latest, Data(FeedOf[s]))
        /\ PollReturns(s, PollCursor(Data(FeedOf[s]), latest, task[s].snap),
                       PassedOver(s, latest))
    /\ RecordBaseline(s)
    /\ UNCHANGED githubVars

\* The loop over result.events, which is in listing order: newest first.
SendNewest(s) ==
    /\ \E e \in Event : IsLatest(e, task[s].pending) /\ Dispatch(s, e)
    /\ UNCHANGED <<githubVars, baseline>>

SendNewestFails(s) ==
    /\ \E e \in Event : IsLatest(e, task[s].pending) /\ DispatchFails(s, e)
    /\ UNCHANGED <<githubVars, baseline>>

------------------------------------------------------------------------------
GithubStep == \E f \in Feed, e \in Event : Publish(f, e) \/ Remove(f, e)

\* Every cursor subscription starts with last_seen = {}.
RequestStep ==
    /\ \/ \E s \in Sub : CreateSubscription(s, EmptySeen)
       \/ Requests
    /\ UNCHANGED <<githubVars, baseline>>

TickStep ==
    /\ TickStart \/ TickLoadFails \/ Crash
    /\ UNCHANGED <<githubVars, baseline>>

PollStep(s) == PollEmptyFeed(s) \/ PollFeed(s)

\* The steps of processSubscription that are the same for every event type.
RowStep(s) ==
    /\ \/ PollFails(s)
       \/ Save(s)
       \/ SaveFails(s)
       \/ FetchConnection(s)
       \/ ConnectionMissing(s)
    /\ UNCHANGED <<githubVars, baseline>>

SendStep(s) == SendNewest(s) \/ SendNewestFails(s)

ProcessSubscription(s) == PollStep(s) \/ RowStep(s) \/ SendStep(s)

Next ==
    \/ GithubStep
    \/ RequestStep
    \/ TickStep
    \/ \E s \in Sub : ProcessSubscription(s)

Spec == Init /\ [][Next]_vars

\* The repeating job keeps firing, and every call made by processSubscription
\* returns or throws.  Users, GitHub and failures are not fair.
TickStartStep == TickStart /\ UNCHANGED <<githubVars, baseline>>

Fairness ==
    /\ WF_vars(TickStartStep)
    /\ \A s \in Sub : WF_vars(ProcessSubscription(s))

FairSpec == Spec /\ Fairness

------------------------------------------------------------------------------
(* Properties.                                                             *)

\* Every variable stays in its range.
TypeOK ==
    /\ WorkerTypeOK
    /\ feed \in [Feed -> SUBSET Event]
    /\ created \in [Feed -> SUBSET Event]
    /\ baseline \in [Sub -> SUBSET Event]

\* While a subscription is being polled, the checkpoint the poll compares with
\* is the one in the database: no other writer and no second tick has changed
\* it since the tick loaded it.
SnapshotFresh ==
    \A s \in Sub :
        task[s].pc \in {"poll", "save"} /\ status[s] = "stored"
            => task[s].snap = lastSeen[s]

\* What a poll reports is newer than the stored checkpoint, and no newer than
\* the checkpoint about to be stored: `last_seen' lets the poller detect new
\* events without re-processing old ones.
ReportsOnlyNew ==
    \A s \in Sub : \A e \in task[s].pending :
        task[s].pc = "save" =>
            /\ status[s] = "stored" => lastSeen[s].cursor < e
            /\ e <= task[s].new.cursor

\* An item is notified again only when an update of last_seen has failed in
\* between: at most once, plus once for each failed update.
AtMostOncePerSave ==
    \A s \in Sub, e \in Event : sent[s][e] <= 1 + saveFailed[s]

\* The first poll records the state without notifying: what was listed while
\* a subscription was not bootstrapped is never notified.
BaselineSilent ==
    \A s \in Sub : \A e \in baseline[s] : sent[s][e] = 0

\* The checkpoint accounts for every item: one that the checkpoint has passed
\* was there at the start, was dispatched, is about to be, or is known to be
\* given up (a failed call, a crash, a page that no longer held the cursor).
CheckpointAccounts ==
    \A s \in Sub : status[s] = "stored" /\ lastSeen[s].boot =>
        \A e \in Reportable(FeedOf[s]) :
            \/ e > lastSeen[s].cursor
            \/ e \in baseline[s]
            \/ sent[s][e] > 0
            \/ e \in task[s].pending
            \/ e \in dropped[s]

NoCheckpointGoesBack ==
    \A s \in Sub :
        /\ lastSeen'[s].cursor >= lastSeen[s].cursor
        /\ lastSeen[s].boot => lastSeen'[s].boot

\* The stored checkpoint of a subscription never goes back to an older item,
\* whatever the order of polls, failed updates and crashes.
CheckpointMonotone == [][NoCheckpointGoesBack]_vars

\* A subscription that was deleted, or whose connection was deleted, before a
\* tick started gets nothing from that tick or from the ones after it, until
\* a tick finds it active again.
IneligibleSilent ==
    [][\A s \in ineligible : sent'[s] = sent[s]]_vars

Awaited(s, e) ==
    /\ Subscribed(s) /\ lastSeen[s].boot
    /\ e \in Reportable(FeedOf[s]) /\ e > lastSeen[s].cursor

Settled(s, e) ==
    \/ sent[s][e] > 0 \/ e \in dropped[s]
    \/ ~Subscribed(s) \/ e \notin Reportable(FeedOf[s])

\* A new item of an active, bootstrapped subscription is dispatched or given
\* up by a failure or a page overflow in the end, unless GitHub removes it; it
\* is not forgotten because of a crash or of a failed tick.
NewItemSettles == \A s \in Sub, e \in Event : Awaited(s, e) ~> Settled(s, e)

\* A failure in one subscription does not block the others (TECHNICAL.md:343),
\* also when the failure is that its access token cannot be decrypted: their new
\* items settle.  It is violated, because getActiveSubscriptions decrypts the
\* tokens of all.
OthersNotBlocked ==
    \A s \in Sub \ Undecryptable, e \in Event : Awaited(s, e) ~> Settled(s, e)

------------------------------------------------------------------------------
(* The worker implements the abstract delivery: the queue of a             *)
(* subscription is what its run has still to send, and the memory that may *)
(* be lost is the checkpoint.                                              *)

Promise == INSTANCE Delivery WITH
    queue  <- [s \in Sub |-> task[s].pending],
    losses <- saveFailed

\* Polls, saves, crashes, requests and failures only do what Delivery allows:
\* an item goes from queued to sent or given up, and none is queued again but
\* after a failed update of last_seen.
DeliveryPromise == Promise!Spec

------------------------------------------------------------------------------
(* The inductive invariant behind SnapshotFresh, ReportsOnlyNew and        *)
(* AtMostOncePerSave.  It holds as long as GitHub removes no item.         *)

\* Before its row exists a subscription has no run and no history.
NothingBeforeCreation ==
    \A s \in Sub : status[s] = "absent" =>
        /\ task[s] = NoTask
        /\ lastSeen[s] = EmptySeen
        /\ \A e \in Event : sent[s][e] = 0

FeedsFinite == \A f \in Feed : IsFiniteSet(feed[f])

\* Every cursor, stored or held by a run, is an item the feed still lists.
CursorsListed ==
    \A s \in Sub :
        {lastSeen[s].cursor, task[s].snap.cursor, task[s].new.cursor}
            \subseteq Reportable(FeedOf[s]) \cup {None}

\* A run holds events only once it has polled, and what it is about to store
\* covers what it is about to send.
RunsInPhase ==
    \A s \in Sub :
        /\ task[s].pc \in {"idle", "poll"} => task[s].pending = {}
        /\ task[s].pc = "save" =>
            /\ task[s].new.boot
            /\ task[s].snap.cursor <= task[s].new.cursor
            /\ \A e \in task[s].pending :
                   task[s].snap.cursor < e /\ e <= task[s].new.cursor

Sending(s, e) == task[s].pc \in {"fetch", "send"} /\ e \in task[s].pending

\* An item the checkpoint has not passed was sent at most once per failed
\* update; one about to be sent leaves room for that dispatch.
SendBudget ==
    \A s \in Sub, e \in Event :
        /\ status[s] = "stored" /\ e > lastSeen[s].cursor /\ ~Sending(s, e)
               => sent[s][e] <= saveFailed[s]
        /\ task[s].pc \in {"poll", "save"} /\ e > task[s].snap.cursor
               => sent[s][e] <= saveFailed[s]
        /\ Sending(s, e) =>
               /\ sent[s][e] <= saveFailed[s]
               /\ status[s] = "stored" /\ e > lastSeen[s].cursor
                      => sent[s][e] + 1 <= saveFailed[s]
        /\ sent[s][e] <= 1 + saveFailed[s]

IInv ==
    /\ NothingBeforeCreation
    /\ FeedsFinite
    /\ SnapshotFresh
    /\ CursorsListed
    /\ RunsInPhase
    /\ SendBudget
==============================================================================
