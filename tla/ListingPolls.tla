------------------------------ MODULE ListingPolls ------------------------------
(***************************************************************************)
(* The polls of github.poller.ts that keep no cursor, as operators from a  *)
(* listing of GitHub and a checkpoint to a PollResult:                     *)
(*                                                                         *)
(*    items  the branches, tags or merged pull requests of the last page   *)
(*    at     last_closed_at: the second in which the last window ended     *)
(*    count  the stars or forks of the last poll                           *)
(***************************************************************************)
EXTENDS Integers, GithubPoller

\* A count that was never stored.
Undefined == -1

ListingSeen(Event, maxTime, maxCount) ==
    [boot : BOOLEAN, items : SUBSET Event, at : {None} \cup 1 .. maxTime,
     count : {Undefined} \cup 0 .. maxCount]

EmptyListing == [boot |-> FALSE, items |-> {}, at |-> None, count |-> Undefined]

\* Mutants of PollNames: the first poll is not silent; what was seen is not
\* consulted.
PollNamesLoud(page, ls) ==
    PollResult(FALSE, [ls EXCEPT !.boot = TRUE, !.items = page], page \ ls.items)

PollNamesAll(page, ls) ==
    PollResult(~IsBootstrapped(ls), [ls EXCEPT !.boot = TRUE, !.items = page],
               IF IsBootstrapped(ls) THEN page ELSE {})

\* Branches, tags: what was not on the last page is new.
PollNames(page, ls) ==
    LET first == ls.items = {} /\ ~IsBootstrapped(ls)
    IN  PollResult(first, [ls EXCEPT !.boot = TRUE, !.items = page],
                   IF first THEN {} ELSE page \ ls.items)

\* A page without a merged pull request leaves the ids of an earlier one.
PollMerged(merged, ls) ==
    IF merged = {}
    THEN PollResult(~IsBootstrapped(ls), [ls EXCEPT !.boot = TRUE], {})
    ELSE PollNames(merged, ls)

\* Mutant of ClosedSince: both times are cut to the second.
ClosedAfter(closedAt, at) == closedAt > at

\* closed_at > since, of strings: "...:05Z" is greater than "...:05.123Z".
ClosedSince(closedAt, at) == closedAt >= at

\* `closed' are the issues of the page that were closed since ls.at.
PollClosed(closed, now, ls) ==
    IF ls.at = None
    THEN PollResult(~IsBootstrapped(ls), [ls EXCEPT !.boot = TRUE, !.at = now], {})
    ELSE PollResult(FALSE, [ls EXCEPT !.boot = TRUE, !.at = now], closed)

\* Mutant of Crosses: the goal has to be passed.
CrossesAbove(seen, count, goal) == seen # Undefined /\ seen < goal /\ count > goal

Crosses(seen, count, goal) == seen # Undefined /\ seen < goal /\ count >= goal

\* `reached' is what is notified when the goal is crossed.
PollMilestone(count, goal, reached, ls) ==
    LET first == ls.count = Undefined /\ ~IsBootstrapped(ls)
    IN  PollResult(first, [ls EXCEPT !.boot = TRUE, !.count = count],
                   IF ~first /\ Crosses(ls.count, count, goal) THEN reached ELSE {})
==============================================================================
