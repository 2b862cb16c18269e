-------------------------- MODULE ListingSubscriptions --------------------------
(***************************************************************************)
(* The poll worker over what is polled without a cursor: branches and tags *)
(* (names), merged pull requests, closed issues, and the milestones of a   *)
(* repository.  GitHub lists closed pull requests and issues by their last *)
(* update, so an old one that is updated comes first again.                *)
(***************************************************************************)
EXTENDS GithubPollWorker, ListingPolls, SequencesExt

CONSTANTS
    PageSize,   \* per_page of the listings
    Other,      \* closed pull requests that are not merged; pull requests
                \* among the closed issues
    Goal,       \* the milestone of the config
    Reached,    \* the event of a milestone
    MaxCount,   \* bound on stars and forks
    MaxTime,    \* bound on the clock, in seconds
    MaxMoves    \* bound on changes of the repository

ASSUME ListingAssumption ==
    /\ PageSize \in Nat \ {0}
    /\ Other \subseteq Event
    /\ Reached \in Event
    /\ Goal \in Nat /\ MaxCount \in Nat /\ MaxMoves \in Nat
    /\ MaxTime \in Nat \ {0}
    /\ Seen = ListingSeen(Event, MaxTime, MaxCount)
    /\ EmptySeen = EmptyListing

Kind == {"names", "merged", "closed", "milestone"}

VARIABLES
    kind,       \* the event type of each subscription
    listing,    \* names, closed pull requests or closed issues, first one first
    closedAt,   \* the second in which an issue was closed
    count,      \* stars or forks
    clock,
    now,        \* the second in which the last tick started
    seed,       \* the count the creation of a subscription has read
    moves,
    baseline,   \* history: the items the checkpoint covered silently
    forgets     \* history: how often a poll let go of an item it had covered
                \* or reported

githubVars == <<listing, closedAt, count, moves>>
otherVars == <<kind, githubVars, clock, now, seed, baseline, forgets>>
vars == <<workerVars, otherVars>>

\* Bound: time passes only where it is read.
Init ==
    /\ WorkerInit
    /\ \E k \in Kind : kind = [s \in Sub |-> k]
    /\ listing = <<>>
    /\ closedAt = [e \in Event |-> None]
    /\ count \in 0 .. MaxCount
    /\ clock = IF \E s \in Sub : kind[s] = "closed" THEN 1 ELSE MaxTime
    /\ now = 0
    /\ seed = [s \in Sub |-> Undefined]
    /\ moves = 0
    /\ baseline = [s \in Sub |-> {}]
    /\ forgets = [s \in Sub |-> [e \in Event |-> 0]]

------------------------------------------------------------------------------
(* GitHub.                                                                 *)

Polled(k) == \E s \in Sub : kind[s] = k
Listed == ToSet(listing)

Move ==
    /\ moves < MaxMoves
    /\ moves' = moves + 1
    /\ UNCHANGED <<workerVars, kind, clock, now, seed, baseline, forgets>>

\* A name takes its place in the order of the listing.
AddName(e) ==
    /\ Polled("names") /\ Move
    /\ e \notin Listed
    /\ \E i \in 1 .. Len(listing) + 1 : listing' = InsertAt(listing, i, e)
    /\ UNCHANGED <<closedAt, count>>

RemoveName(i) ==
    /\ Polled("names") /\ Move
    /\ listing' = RemoveAt(listing, i)
    /\ UNCHANGED <<closedAt, count>>

Close(e) ==
    /\ Polled("merged") \/ (Polled("closed") /\ clock < MaxTime)
    /\ Move
    /\ e \notin Listed
    /\ listing' = <<e>> \o listing
    /\ closedAt' = [closedAt EXCEPT ![e] = clock]
    /\ UNCHANGED count

\* A comment on what is closed.
Update(i) ==
    /\ Polled("merged") \/ Polled("closed")
    /\ Move
    /\ listing' = <<listing[i]>> \o RemoveAt(listing, i)
    /\ UNCHANGED <<closedAt, count>>

Stars ==
    /\ Polled("milestone") /\ Move
    /\ count' \in 0 .. MaxCount
    /\ count' # count
    /\ UNCHANGED <<listing, closedAt>>

GithubStep ==
    \/ \E e \in Event : AddName(e) \/ Close(e)
    \/ \E i \in DOMAIN listing : RemoveName(i) \/ Update(i)
    \/ Stars

------------------------------------------------------------------------------
(* Polls.                                                                  *)

OnPage == {listing[i] : i \in {j \in DOMAIN listing : j <= PageSize}}

Result(s) ==
    LET ls == task[s].snap
    IN  CASE kind[s] = "names"     -> PollNames(OnPage, ls)
          [] kind[s] = "merged"    -> PollMerged(OnPage \ Other, ls)
          [] kind[s] = "closed"    ->
                 PollClosed({e \in OnPage \ Other : ClosedSince(closedAt[e], ls.at)}, now, ls)
          [] kind[s] = "milestone" -> PollMilestone(count, Goal, {Reached}, ls)

\* What a checkpoint takes to be known.
Covers(s, seen) ==
    CASE kind[s] \in {"names", "merged"} -> seen.items
      [] kind[s] = "closed"    -> {e \in Listed \ Other : closedAt[e] < seen.at}
      [] kind[s] = "milestone" -> IF seen.count >= Goal THEN {Reached} ELSE {}

\* Closed issues of the window that the page has no room for.
PassedOver(s) ==
    LET ls == task[s].snap
    IN  IF kind[s] = "closed" /\ ls.at # None
        THEN {e \in Listed \ (Other \cup OnPage) : ls.at <= closedAt[e] /\ closedAt[e] < now}
        ELSE {}

Forgotten(s) ==
    (Covers(s, task[s].snap) \cup Result(s).events) \ Covers(s, Result(s).lastSeen)

PollListing(s) ==
    /\ PollReturns(s, Result(s), PassedOver(s))
    /\ baseline' = [baseline EXCEPT ![s] =
                       IF IsBootstrapped(task[s].snap) THEN @ ELSE Covers(s, Result(s).lastSeen)]
    /\ forgets' = [forgets EXCEPT ![s] =
                      [e \in Event |-> IF e \in Forgotten(s) THEN @[e] + 1 ELSE @[e]]]
    /\ UNCHANGED <<kind, githubVars, clock, now, seed>>

------------------------------------------------------------------------------
(* Requests, ticks, and the rest of processSubscription.                   *)

\* Mutant of ReadCount: the count is read for every event type.
ReadCountAlways(s) ==
    /\ status[s] = "absent"
    /\ seed' = [seed EXCEPT ![s] = count]
    /\ UNCHANGED <<workerVars, kind, githubVars, clock, now, baseline, forgets>>

\* A creation asks GitHub for the count first, and does without it when GitHub
\* does not answer.
ReadCount(s) ==
    /\ kind[s] = "milestone" /\ status[s] = "absent"
    /\ seed' = [seed EXCEPT ![s] = count]
    /\ UNCHANGED <<workerVars, kind, githubVars, clock, now, baseline, forgets>>

Initial(s) ==
    IF seed[s] = Undefined THEN EmptyListing
    ELSE [EmptyListing EXCEPT !.boot = TRUE, !.count = seed[s]]

Create(s) ==
    /\ CreateSubscription(s, Initial(s))
    /\ baseline' = [baseline EXCEPT ![s] = Covers(s, Initial(s))]
    /\ UNCHANGED <<kind, githubVars, clock, now, seed, forgets>>

\* Two ticks do not start within a second.  Bound: the clock stops at MaxTime.
TickListing ==
    /\ now < clock \/ clock = MaxTime
    /\ TickStart
    /\ now' = clock
    /\ UNCHANGED <<kind, githubVars, clock, seed, baseline, forgets>>

Advance ==
    /\ clock < MaxTime
    /\ clock' = clock + 1
    /\ UNCHANGED <<workerVars, kind, githubVars, now, seed, baseline, forgets>>

RowStep(s) ==
    /\ \/ PollFails(s)
       \/ Save(s)
       \/ SaveFails(s)
       \/ FetchConnection(s)
       \/ ConnectionMissing(s)
       \/ \E e \in Event : Dispatch(s, e) \/ DispatchFails(s, e)
    /\ UNCHANGED otherVars

ProcessSubscription(s) == PollListing(s) \/ RowStep(s)

Next ==
    \/ GithubStep
    \/ \E s \in Sub : ReadCount(s) \/ Create(s)
    \/ \E c \in Conn : (SoftDeleteConnection(c) \/ RestoreConnection(c)) /\ UNCHANGED otherVars
    \/ (TickLoadFails \/ Crash) /\ UNCHANGED otherVars
    \/ TickListing
    \/ Advance
    \/ \E s \in Sub : ProcessSubscription(s)

\* The repeating job keeps firing, time passes, and every call returns or
\* throws.  Users, GitHub and failures are not fair.
Fairness ==
    /\ WF_vars(TickListing)
    /\ WF_vars(Advance)
    /\ \A s \in Sub : WF_vars(ProcessSubscription(s))

Spec == Init /\ [][Next]_vars /\ Fairness

------------------------------------------------------------------------------
(* Properties.                                                             *)

\* Every variable stays in its range, and a checkpoint holds what its event
\* type stores.
TypeOK ==
    /\ WorkerTypeOK
    /\ kind \in [Sub -> Kind]
    /\ listing \in Seq(Event) /\ IsInjective(listing)
    /\ closedAt \in [Event -> {None} \cup 1 .. MaxTime]
    /\ count \in 0 .. MaxCount
    /\ clock \in 1 .. MaxTime /\ now \in 0 .. clock
    /\ moves \in 0 .. MaxMoves
    /\ baseline \in [Sub -> SUBSET Event]
    /\ \A s \in Sub :
           /\ lastSeen[s].items # {} => kind[s] \in {"names", "merged"}
           /\ lastSeen[s].at # None => kind[s] = "closed"
           /\ lastSeen[s].count # Undefined => kind[s] = "milestone"

\* A checkpoint never covers an item nobody was told about: it was there from
\* the start, was dispatched, is about to be, or is known to be given up.  It
\* holds for an issue closed while the page is being asked for and for a goal
\* crossed while the subscription is being created.
ListingAccounts ==
    \A s \in Sub : status[s] = "stored" =>
        Covers(s, lastSeen[s]) \subseteq
            baseline[s] \cup {e \in Event : sent[s][e] > 0} \cup task[s].pending \cup dropped[s]

\* An item is dispatched again only when the checkpoint has let go of it (it
\* left the page, its window was left open, the count fell) or was not stored.
RepeatsForgotten ==
    \A s \in Sub, e \in Event : sent[s][e] <= 1 + saveFailed[s] + forgets[s][e]

\* What was there when a subscription began is not notified, unless the
\* checkpoint has let go of it.
ListingBaselineSilent ==
    \A s \in Sub : \A e \in baseline[s] : forgets[s][e] = 0 => sent[s][e] = 0

OnOffer(s, e) ==
    /\ Subscribed(s)
    /\ CASE kind[s] = "names"     -> e \in OnPage
         [] kind[s] = "merged"    -> e \in OnPage \ Other
         [] kind[s] = "closed"    -> e \in Listed \ Other
         [] kind[s] = "milestone" -> e = Reached /\ count >= Goal

\* What goes on being on GitHub's page, or above its goal, is dispatched in the
\* end, given up, or was there from the start.
OfferSettles ==
    \A s \in Sub, e \in Event :
        []<>(OnOffer(s, e) => e \in baseline[s] \cup dropped[s] \/ sent[s][e] > 0)
==============================================================================
