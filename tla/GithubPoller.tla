------------------------------- MODULE GithubPoller -------------------------------
(***************************************************************************)
(* The poll functions of src/workers/github.poller.ts that keep a cursor,  *)
(* as pure operators (the others are in ListingPolls).  Each takes what    *)
(* the GitHub API call returned and the checkpoint `last_seen' of the      *)
(* subscription and yields a PollResult:                                   *)
(*                                                                         *)
(*    initialized   the first poll, which records the state silently       *)
(*    lastSeen      the checkpoint the worker stores (newLastSeen)         *)
(*    events        the items to notify about                              *)
(*                                                                         *)
(* An item of a listing is a positive integer: its place in GitHub's own   *)
(* order, a larger number being listed first.  The texts of an item (tag   *)
(* name, title, url) are left out.                                         *)
(***************************************************************************)
EXTENDS Naturals, FiniteSets

\* The value `undefined' of an absent cursor.
None == 0

\* The items on the first page of a listing: those with fewer than n items
\* listed before them.
Page(listing, n) ==
    {e \in listing : Cardinality({x \in listing : x > e}) < n}

PollResult(initialized, lastSeen, events) ==
    [initialized |-> initialized, lastSeen |-> lastSeen, events |-> events]

------------------------------------------------------------------------------
(***************************************************************************)
(* Cursor polls: releases, commits, opened issues, opened pull requests    *)
(* and completed workflow runs.  The checkpoint holds the id of the newest *)
(* item seen.                                                              *)
(***************************************************************************)
CursorSeen(Event) == [boot : BOOLEAN, cursor : Event \cup {None}]

\* The `{}' a subscription row starts with.
EmptyCursor == [boot |-> FALSE, cursor |-> None]

IsBootstrapped(ls) == ls.boot

WithBootstrap(cursor) == [boot |-> TRUE, cursor |-> cursor]

\* Mutant of PollEmpty: every empty listing resets the checkpoint.
PollEmptyForgets(ls) ==
    PollResult(TRUE, WithBootstrap(None), {})

\* An empty listing: only the bootstrap marker is stored.
PollEmpty(ls) == PollResult(~IsBootstrapped(ls), WithBootstrap(ls.cursor), {})

\* Mutants of NewItems: the slice includes the item already seen; the fallback
\* is the stored cursor.
NewItemsInclusive(data, latest, cursor) ==
    IF cursor \in data THEN {e \in data : e >= cursor} ELSE {latest}

NewItemsStale(data, latest, cursor) ==
    IF cursor \in data THEN {e \in data : e > cursor} ELSE {cursor}

\* seenIdx === -1 ? [data[0]] : data.slice(0, seenIdx)
NewItems(data, latest, cursor) ==
    IF cursor \in data THEN {e \in data : e > cursor} ELSE {latest}

\* Mutants of PollCursor: the first poll is not silent; the bootstrap marker is
\* not consulted.
PollCursorLoud(data, latest, ls) ==
    PollResult(FALSE, WithBootstrap(latest),
               IF latest = ls.cursor THEN {} ELSE NewItems(data, latest, ls.cursor))

PollCursorUnmarked(data, latest, ls) ==
    PollResult(ls.cursor = None, WithBootstrap(latest),
               IF latest = ls.cursor THEN {} ELSE NewItems(data, latest, ls.cursor))

\* A nonempty listing `data' whose first item is `latest'.
PollCursor(data, latest, ls) ==
    LET first == ls.cursor = None /\ ~IsBootstrapped(ls)
        seen  == WithBootstrap(latest)
    IN  PollResult(first, seen,
                   IF first \/ latest = ls.cursor
                   THEN {}
                   ELSE NewItems(data, latest, ls.cursor))
==============================================================================
