------------------------------- MODULE ListingProofs -------------------------------
(***************************************************************************)
(* Proofs about ListingSubscriptions, for every set of subscriptions and   *)
(* items, every page size, clock and number of failures: type correctness, *)
(* a checkpoint that covers nothing unaccounted for, repetitions only of   *)
(* what a checkpoint let go of, and silence about what was there before.   *)
(* The inductive invariant follows a checkpoint from the poll that makes   *)
(* it, through the update of the row, to the sends it was made for: what   *)
(* it covers is known or on its way, and what it does not cover leaves     *)
(* room for being sent once more.                                          *)
(***************************************************************************)
EXTENDS ListingSubscriptions, SequenceTheorems, TLAPS

------------------------------------------------------------------------------
(* The inductive invariant.                                                *)

\* A checkpoint holds what the polls of its event type store, and is `{}' until
\* the first one.
SeenFits(s, ls) ==
    /\ ls.items # {} => kind[s] \in {"names", "merged"}
    /\ ls.at # None => kind[s] = "closed"
    /\ ls.count # Undefined => kind[s] = "milestone"
    /\ ls.at <= now
    /\ ls.boot /\ kind[s] = "closed" => ls.at # None
    /\ ls.boot /\ kind[s] = "milestone" => ls.count # Undefined
    /\ ~ls.boot => ls = EmptyListing

\* All subscriptions are of one kind.
Typed ==
    /\ TypeOK
    /\ seed \in [Sub -> {Undefined} \cup 0 .. MaxCount]
    /\ forgets \in [Sub -> [Event -> Nat]]
    /\ \A s, t \in Sub : kind[s] = kind[t]
    /\ \A s \in Sub :
           /\ seed[s] # Undefined => kind[s] = "milestone"
           /\ task[s].pc # "idle" => now \in 1 .. MaxTime
           /\ \A ls \in Seen :
                  ls \in {lastSeen[s], task[s].snap, task[s].new} => SeenFits(s, ls)

Quiet(s) == \A e \in Event : sent[s][e] = 0

\* A run starts from the checkpoint in the database, which nobody else writes,
\* and holds no items before it has polled.
RunFits(s) ==
    /\ status[s] # "removed"
    /\ status[s] = "absent" =>
           task[s] = NoTask /\ lastSeen[s] = EmptySeen /\ Quiet(s) /\ baseline[s] = {}
    /\ task[s].pc \in {"poll", "save"} => task[s].snap = lastSeen[s]
    /\ task[s].pc \in {"idle", "poll"} => task[s].pending = {}
    /\ task[s].pending # {} => lastSeen[s].boot
    /\ task[s].pc = "save" => task[s].new.boot

Room(s, e) == saveFailed[s] + forgets[s][e]

Known(s) == baseline[s] \cup {e \in Event : sent[s][e] > 0} \cup dropped[s]

Once(e, sending) == IF e \in sending THEN 1 ELSE 0

\* What a checkpoint that is in the database, or is about to be, covers: what
\* is known or is going to be sent.  What it does not cover may be sent once
\* more, and what was there from the start is covered until it is forgotten.
CoverFits(s, ls, sending) ==
    /\ Covers(s, ls) \subseteq Known(s) \cup sending
    /\ \A e \in Event \ Covers(s, ls) : sent[s][e] + Once(e, sending) <= Room(s, e)
    /\ ls.boot => \A e \in baseline[s] : forgets[s][e] = 0 => e \in Covers(s, ls)

Sending(s) == IF task[s].pc \in {"fetch", "send"} THEN task[s].pending ELSE {}

CheckpointFits(s) ==
    \A ls \in Seen, sending \in SUBSET Event :
        /\ ls = lastSeen[s] /\ sending = Sending(s) =>
               CoverFits(s, ls, sending) /\ (~ls.boot => Quiet(s))
        /\ task[s].pc = "save" /\ ls = task[s].new /\ sending = task[s].pending =>
               CoverFits(s, ls, sending)

ItemFits(s, e) ==
    /\ sent[s][e] <= 1 + Room(s, e)
    /\ e \in task[s].pending => sent[s][e] <= Room(s, e)
    /\ e \in baseline[s] /\ forgets[s][e] = 0 => sent[s][e] = 0 /\ e \notin task[s].pending

RowFits(s) ==
    /\ RunFits(s)
    /\ CheckpointFits(s)
    /\ \A e \in Event : ItemFits(s, e)

IInv == \A s \in Sub : RowFits(s)

------------------------------------------------------------------------------
(* Listings.                                                               *)

\* What is left of a listing when one place is taken out.
LEMMA RemovedAt ==
    ASSUME NEW S, NEW q \in Seq(S), NEW i \in 1 .. Len(q)
    PROVE  /\ RemoveAt(q, i) \in Seq(S)
           /\ Len(RemoveAt(q, i)) = Len(q) - 1
           /\ \A j \in 1 .. Len(q) - 1 :
                  RemoveAt(q, i)[j] = IF j < i THEN q[j] ELSE q[j + 1]
<1> DEFINE a == SubSeq(q, 1, i - 1)
           b == SubSeq(q, i + 1, Len(q))
<1>1. Len(q) \in Nat /\ i \in Nat /\ i >= 1 /\ i <= Len(q)
  BY LenProperties
<1>2. a \in Seq(S) /\ Len(a) = i - 1 /\ \A j \in 1 .. i - 1 : a[j] = q[j]
  BY <1>1, SubSeqProperties
<1>3. b \in Seq(S) /\ Len(b) = Len(q) - i /\ \A j \in 1 .. Len(q) - i : b[j] = q[j + i]
  BY <1>1, SubSeqProperties
<1>4. RemoveAt(q, i) = a \o b
  BY DEF RemoveAt
<1> HIDE DEF a, b
<1>5. /\ a \o b \in Seq(S) /\ Len(a \o b) = Len(q) - 1
      /\ \A j \in 1 .. Len(q) - 1 : (a \o b)[j] = IF j < i THEN a[j] ELSE b[j - i + 1]
  <2>1. /\ a \o b \in Seq(S) /\ Len(a \o b) = Len(a) + Len(b)
        /\ \A j \in 1 .. Len(a) + Len(b) :
               (a \o b)[j] = IF j <= Len(a) THEN a[j] ELSE b[j - Len(a)]
    BY <1>2, <1>3, ConcatProperties
  <2>2. Len(a) + Len(b) = Len(q) - 1
    BY <1>1, <1>2, <1>3
  <2>3. ASSUME NEW j \in 1 .. Len(q) - 1
        PROVE  (a \o b)[j] = IF j < i THEN a[j] ELSE b[j - i + 1]
    <3>1. (j <= Len(a) <=> j < i) /\ j - Len(a) = j - i + 1
      BY <1>1, <1>2
    <3> QED
      BY <2>1, <2>2, <3>1
  <2> QED
    BY <2>1, <2>2, <2>3
<1>6. ASSUME NEW j \in 1 .. Len(q) - 1
      PROVE  (a \o b)[j] = IF j < i THEN q[j] ELSE q[j + 1]
  <2>1. CASE j < i
    BY <1>1, <1>2, <1>5, <2>1
  <2>2. CASE j >= i
    <3>1. j - i + 1 \in 1 .. Len(q) - i
      BY <1>1, <2>2
    <3>2. b[j - i + 1] = q[(j - i + 1) + i] /\ (j - i + 1) + i = j + 1
      BY <1>1, <1>3, <3>1
    <3> QED
      BY <1>1, <1>5, <2>2, <3>2
  <2>3. j < i \/ j >= i
    BY <1>1
  <2> QED
    BY <2>1, <2>2, <2>3
<1> QED
  BY <1>4, <1>5, <1>6

\* A place taken out of a listing without repetitions takes its item with it.
LEMMA RemovedListing ==
    ASSUME NEW S, NEW q \in Seq(S), IsInjective(q), NEW i \in 1 .. Len(q)
    PROVE  /\ RemoveAt(q, i) \in Seq(S) /\ IsInjective(RemoveAt(q, i))
           /\ ToSet(RemoveAt(q, i)) = ToSet(q) \ {q[i]}
<1> DEFINE r == RemoveAt(q, i)
<1>1. /\ r \in Seq(S) /\ Len(r) = Len(q) - 1
      /\ \A j \in 1 .. Len(q) - 1 : r[j] = IF j < i THEN q[j] ELSE q[j + 1]
  BY RemovedAt
<1> HIDE DEF r
<1>2. /\ DOMAIN q = 1 .. Len(q) /\ Len(q) \in Nat /\ DOMAIN r = 1 .. Len(q) - 1
  BY <1>1, LenProperties
<1>3. \A j, k \in 1 .. Len(q) : q[j] = q[k] => j = k
  BY <1>2 DEF IsInjective
<1>4. IsInjective(r)
  <2> SUFFICES ASSUME NEW j \in 1 .. Len(q) - 1, NEW k \in 1 .. Len(q) - 1, r[j] = r[k]
               PROVE  j = k
    BY <1>2 DEF IsInjective
  <2> DEFINE up(n) == IF n < i THEN n ELSE n + 1
  <2>1. ASSUME NEW n \in 1 .. Len(q) - 1 PROVE up(n) \in 1 .. Len(q) /\ r[n] = q[up(n)]
    BY <1>1, <1>2
  <2>2. up(j) = up(k) => j = k
    BY <1>2
  <2> HIDE DEF up
  <2> QED
    BY <1>3, <2>1, <2>2
<1>5. ASSUME NEW x \in ToSet(r) PROVE x \in ToSet(q) \ {q[i]}
  <2>1. PICK j \in 1 .. Len(q) - 1 : x = r[j]
    BY <1>2 DEF ToSet
  <2>2. PICK k \in 1 .. Len(q) : x = q[k] /\ k # i
    BY <1>1, <1>2, <2>1
  <2> QED
    BY <1>2, <1>3, <2>2 DEF ToSet
<1>6. ASSUME NEW x \in ToSet(q), x # q[i] PROVE x \in ToSet(r)
  <2>1. PICK k \in 1 .. Len(q) : x = q[k]
    BY <1>2 DEF ToSet
  <2>2. CASE k < i
    <3>1. k \in 1 .. Len(q) - 1 /\ r[k] = x
      BY <1>1, <1>2, <2>1, <2>2
    <3> QED
      BY <1>2, <3>1 DEF ToSet
  <2>3. CASE k > i
    <3>1. k - 1 \in 1 .. Len(q) - 1 /\ r[k - 1] = x
      BY <1>1, <1>2, <2>1, <2>3
    <3> QED
      BY <1>2, <3>1 DEF ToSet
  <2> QED
    BY <1>2, <1>6, <2>1, <2>2, <2>3
<1> QED
  BY <1>1, <1>4, <1>5, <1>6 DEF r

\* An item put first.
LEMMA PrependedListing ==
    ASSUME NEW S, NEW q \in Seq(S), IsInjective(q), NEW e \in S, e \notin ToSet(q)
    PROVE  /\ <<e>> \o q \in Seq(S) /\ IsInjective(<<e>> \o q)
           /\ ToSet(<<e>> \o q) = ToSet(q) \cup {e}
<1> DEFINE r == <<e>> \o q
<1>1. /\ r \in Seq(S) /\ Len(r) = Len(q) + 1
      /\ \A j \in 1 .. Len(q) + 1 : r[j] = IF j = 1 THEN e ELSE q[j - 1]
  <2>1. <<e>> \in Seq(S) /\ Len(<<e>>) = 1 /\ <<e>>[1] = e
    OBVIOUS
  <2> QED
    BY <2>1, ConcatProperties, LenProperties
<1> HIDE DEF r
<1>2. /\ DOMAIN q = 1 .. Len(q) /\ Len(q) \in Nat /\ DOMAIN r = 1 .. Len(q) + 1
  BY <1>1, LenProperties
<1>3. /\ \A j, k \in 1 .. Len(q) : q[j] = q[k] => j = k
      /\ \A j \in 1 .. Len(q) : q[j] # e
  BY <1>2 DEF IsInjective, ToSet
<1>4. IsInjective(r)
  <2> SUFFICES ASSUME NEW j \in 1 .. Len(q) + 1, NEW k \in 1 .. Len(q) + 1, r[j] = r[k]
               PROVE  j = k
    BY <1>2 DEF IsInjective
  <2>1. /\ j = 1 => r[j] = e
        /\ j # 1 => j - 1 \in 1 .. Len(q) /\ r[j] = q[j - 1]
        /\ k = 1 => r[k] = e
        /\ k # 1 => k - 1 \in 1 .. Len(q) /\ r[k] = q[k - 1]
    BY <1>1, <1>2
  <2> QED
    BY <1>3, <2>1
<1>5. ASSUME NEW x \in ToSet(r) PROVE x \in ToSet(q) \cup {e}
  <2>1. PICK j \in 1 .. Len(q) + 1 : x = r[j]
    BY <1>2 DEF ToSet
  <2>2. x = e \/ \E k \in 1 .. Len(q) : x = q[k]
    BY <1>1, <1>2, <2>1
  <2> QED
    BY <1>2, <2>2 DEF ToSet
<1>6. ASSUME NEW x \in ToSet(q) \cup {e} PROVE x \in ToSet(r)
  <2>1. CASE x = e
    BY <1>1, <1>2, <2>1 DEF ToSet
  <2>2. ASSUME NEW k \in 1 .. Len(q), x = q[k] PROVE x \in ToSet(r)
    <3>1. k + 1 \in 1 .. Len(q) + 1 /\ r[k + 1] = x
      BY <1>1, <1>2, <2>2
    <3> QED
      BY <1>2, <3>1 DEF ToSet
  <2> QED
    BY <1>2, <1>6, <2>1, <2>2 DEF ToSet
<1> QED
  BY <1>1, <1>4, <1>5, <1>6 DEF r

\* An item put anywhere.
LEMMA InsertedListing ==
    ASSUME NEW S, NEW q \in Seq(S), IsInjective(q), NEW e \in S, e \notin ToSet(q),
           NEW i \in 1 .. Len(q) + 1
    PROVE  InsertAt(q, i, e) \in Seq(S) /\ IsInjective(InsertAt(q, i, e))
<1> DEFINE a == SubSeq(q, 1, i - 1)
           b == SubSeq(q, i, Len(q))
           r == InsertAt(q, i, e)
<1>1. Len(q) \in Nat /\ i \in Nat /\ i >= 1 /\ i <= Len(q) + 1
  BY LenProperties
<1>2. a \in Seq(S) /\ Len(a) = i - 1 /\ \A j \in 1 .. i - 1 : a[j] = q[j]
  BY <1>1, SubSeqProperties
<1>3. /\ b \in Seq(S) /\ Len(b) = Len(q) - i + 1
      /\ \A j \in 1 .. Len(q) - i + 1 : b[j] = q[i + j - 1]
  BY <1>1, SubSeqProperties
<1>4. r = (a \o <<e>>) \o b
  BY DEF InsertAt
<1>5. <<e>> \in Seq(S) /\ Len(<<e>>) = 1 /\ <<e>>[1] = e
  OBVIOUS
<1> HIDE DEF a, b, r
<1>6. /\ a \o <<e>> \in Seq(S) /\ Len(a \o <<e>>) = i
      /\ \A j \in 1 .. i : (a \o <<e>>)[j] = IF j < i THEN q[j] ELSE e
  BY <1>1, <1>2, <1>5, ConcatProperties
<1>7. /\ r \in Seq(S) /\ Len(r) = Len(q) + 1
      /\ \A j \in 1 .. Len(q) + 1 :
             r[j] = IF j <= i THEN (a \o <<e>>)[j] ELSE b[j - i]
  <2> DEFINE c == a \o <<e>>
  <2>1. c \in Seq(S) /\ Len(c) = i /\ r = c \o b
    BY <1>4, <1>6
  <2> HIDE DEF c
  <2>2. /\ r \in Seq(S) /\ Len(r) = Len(c) + Len(b)
        /\ \A j \in 1 .. Len(c) + Len(b) :
               r[j] = IF j <= Len(c) THEN c[j] ELSE b[j - Len(c)]
    BY <1>3, <2>1, ConcatProperties
  <2>3. Len(c) + Len(b) = Len(q) + 1
    BY <1>1, <1>3, <2>1
  <2>4. /\ r \in Seq(S) /\ Len(r) = Len(q) + 1
        /\ \A j \in 1 .. Len(q) + 1 : r[j] = IF j <= i THEN c[j] ELSE b[j - i]
    BY <2>1, <2>2, <2>3
  <2> QED
    BY <2>4 DEF c
<1>8. ASSUME NEW j \in 1 .. Len(q) + 1
      PROVE  r[j] = IF j < i THEN q[j] ELSE IF j = i THEN e ELSE q[j - 1]
  <2>1. CASE j <= i
    <3>1. j \in 1 .. i /\ (j < i \/ j = i)
      BY <1>1, <2>1
    <3>2. r[j] = (a \o <<e>>)[j]
      BY <1>7, <2>1
    <3>3. (a \o <<e>>)[j] = IF j < i THEN q[j] ELSE e
      BY <1>6, <3>1
    <3> QED
      BY <1>1, <3>1, <3>2, <3>3
  <2>2. CASE j > i
    <3>1. j - i \in 1 .. Len(q) - i + 1 /\ i + (j - i) - 1 = j - 1
      BY <1>1, <2>2
    <3>2. b[j - i] = q[j - 1]
      BY <1>3, <3>1
    <3> QED
      BY <1>1, <1>7, <2>2, <3>2
  <2> QED
    BY <1>1, <2>1, <2>2
<1>9. /\ DOMAIN q = 1 .. Len(q) /\ DOMAIN r = 1 .. Len(q) + 1
      /\ \A j, k \in 1 .. Len(q) : q[j] = q[k] => j = k
      /\ \A j \in 1 .. Len(q) : q[j] # e
  <2>1. DOMAIN q = 1 .. Len(q) /\ DOMAIN r = 1 .. Len(q) + 1
    BY <1>7, LenProperties
  <2> QED
    BY <2>1 DEF IsInjective, ToSet
<1>10. IsInjective(r)
  <2> SUFFICES ASSUME NEW j \in 1 .. Len(q) + 1, NEW k \in 1 .. Len(q) + 1, r[j] = r[k]
               PROVE  j = k
    BY <1>9 DEF IsInjective
  <2> DEFINE down(n) == IF n < i THEN n ELSE n - 1
  <2>1. ASSUME NEW n \in 1 .. Len(q) + 1, n # i
        PROVE  down(n) \in 1 .. Len(q) /\ r[n] = q[down(n)]
    BY <1>1, <1>8, <2>1
  <2>2. r[i] = e
    BY <1>1, <1>8
  <2>3. j # i /\ k # i /\ down(j) = down(k) => j = k
    BY <1>1
  <2> HIDE DEF down
  <2>4. CASE j = i \/ k = i
    BY <1>9, <2>1, <2>2, <2>4
  <2>5. CASE j # i /\ k # i
    BY <1>9, <2>1, <2>3, <2>5
  <2> QED
    BY <2>4, <2>5
<1> QED
  BY <1>7, <1>10 DEF r

------------------------------------------------------------------------------
(* The polls.                                                              *)

\* The fields of a checkpoint, and that they make one.
LEMMA SeenFields ==
    /\ \A ls \in Seen :
           /\ ls.boot \in BOOLEAN /\ ls.items \in SUBSET Event
           /\ ls.at \in {None} \cup 1 .. MaxTime
           /\ ls.count \in {Undefined} \cup 0 .. MaxCount
           /\ ls = [boot |-> ls.boot, items |-> ls.items, at |-> ls.at, count |-> ls.count]
    /\ \A b \in BOOLEAN, i \in SUBSET Event, a \in {None} \cup 1 .. MaxTime,
          c \in {Undefined} \cup 0 .. MaxCount :
           [boot |-> b, items |-> i, at |-> a, count |-> c] \in Seen
  BY ListingAssumption DEF ListingSeen

\* The fields of a result.
LEMMA ResultFields ==
    ASSUME NEW first, NEW next, NEW events, NEW r, r = PollResult(first, next, events)
    PROVE  /\ r.lastSeen = next /\ r.events = events
           /\ r.initialized <=> first
  BY DEF PollResult

\* A poll marks the checkpoint and changes one field of it.
LEMMA SeenMarked ==
    ASSUME NEW ls \in Seen
    PROVE  /\ [ls EXCEPT !.boot = TRUE] =
                  [boot |-> TRUE, items |-> ls.items, at |-> ls.at, count |-> ls.count]
           /\ \A i \in SUBSET Event : [ls EXCEPT !.boot = TRUE, !.items = i] =
                  [boot |-> TRUE, items |-> i, at |-> ls.at, count |-> ls.count]
           /\ \A a \in {None} \cup 1 .. MaxTime : [ls EXCEPT !.boot = TRUE, !.at = a] =
                  [boot |-> TRUE, items |-> ls.items, at |-> a, count |-> ls.count]
           /\ \A c \in {Undefined} \cup 0 .. MaxCount :
                  [ls EXCEPT !.boot = TRUE, !.count = c] =
                  [boot |-> TRUE, items |-> ls.items, at |-> ls.at, count |-> c]
<1> DEFINE S == SUBSET Event
           T == {None} \cup 1 .. MaxTime
           U == {Undefined} \cup 0 .. MaxCount
<1>1. ls \in [boot : BOOLEAN, items : S, at : T, count : U]
  BY ListingAssumption DEF ListingSeen
<1> HIDE DEF S, T, U
<1>2. ASSUME NEW x, x = [ls EXCEPT !.boot = TRUE]
      PROVE  x = [boot |-> TRUE, items |-> ls.items, at |-> ls.at, count |-> ls.count]
  BY <1>1, <1>2
<1>3. ASSUME NEW i \in S, NEW x, x = [ls EXCEPT !.boot = TRUE, !.items = i]
      PROVE  x = [boot |-> TRUE, items |-> i, at |-> ls.at, count |-> ls.count]
  BY <1>1, <1>3
<1>4. ASSUME NEW a \in T, NEW x, x = [ls EXCEPT !.boot = TRUE, !.at = a]
      PROVE  x = [boot |-> TRUE, items |-> ls.items, at |-> a, count |-> ls.count]
  BY <1>1, <1>4
<1>5. ASSUME NEW c \in U, NEW x, x = [ls EXCEPT !.boot = TRUE, !.count = c]
      PROVE  x = [boot |-> TRUE, items |-> ls.items, at |-> ls.at, count |-> c]
  BY <1>1, <1>5
<1> QED
  BY <1>2, <1>3, <1>4, <1>5, Zenon DEF S, T, U

\* The `{}' of a new subscription.
LEMMA EmptyFields ==
    /\ EmptyListing \in Seen /\ EmptySeen = EmptyListing
    /\ ~EmptyListing.boot /\ EmptyListing.items = {}
    /\ EmptyListing.at = None /\ EmptyListing.count = Undefined
  BY ListingAssumption, WorkerAssumption DEF EmptyListing

\* What a poll makes of the checkpoint ls: the next one, and the items it
\* reports; it is silent when it is the first.
Outcome(s, ls, next, events) ==
    /\ Result(s).lastSeen = next /\ Result(s).events = events
    /\ Result(s).initialized <=> ~ls.boot
    /\ next.boot /\ SeenFits(s, next)
    /\ ls.boot =>
           /\ events \cap Covers(s, ls) = {}
           /\ Covers(s, next) \subseteq Covers(s, ls) \cup events \cup PassedOver(s)

\* Names, and merged pull requests when the page has one.
LEMMA NamesOutcome ==
    ASSUME NEW page \in SUBSET Event, NEW ls \in Seen, ~ls.boot => ls = EmptyListing
    PROVE  /\ PollNames(page, ls).lastSeen =
                  [boot |-> TRUE, items |-> page, at |-> ls.at, count |-> ls.count]
           /\ PollNames(page, ls).events = IF ls.boot THEN page \ ls.items ELSE {}
           /\ PollNames(page, ls).initialized <=> ~ls.boot
<1>1. ~ls.boot => ls.items = {}
  BY EmptyFields
<1>2. PollNames(page, ls).lastSeen = [ls EXCEPT !.boot = TRUE, !.items = page]
  BY DEF PollNames, PollResult
<1> QED
  BY <1>1, <1>2, SeenMarked DEF PollNames, PollResult, IsBootstrapped

\* Every poll of a listing has an outcome of this form.
LEMMA PollOutcome ==
    ASSUME Typed, NEW s \in Sub, task[s].pc = "poll", NEW ls \in Seen, task[s].snap = ls
    PROVE  \E next \in Seen, events \in SUBSET Event : Outcome(s, ls, next, events)
<1>1. OnPage \subseteq Event
  BY DEF Typed, TypeOK, OnPage
<1>2. /\ SeenFits(s, ls) /\ now \in 1 .. MaxTime /\ kind[s] \in Kind
      /\ count \in 0 .. MaxCount
  BY DEF Typed, TypeOK
<1>3. /\ ls.boot \in BOOLEAN /\ ls.items \in SUBSET Event
      /\ ls.at \in {None} \cup 1 .. MaxTime /\ ls.count \in {Undefined} \cup 0 .. MaxCount
  BY SeenFields
<1>4. ~ls.boot => ls = EmptyListing
  BY <1>2 DEF SeenFits
<1>5. ASSUME NEW page \in SUBSET Event, Result(s) = PollNames(page, ls),
             kind[s] \in {"names", "merged"}
      PROVE  \E next \in Seen, events \in SUBSET Event : Outcome(s, ls, next, events)
  <2> DEFINE next == [boot |-> TRUE, items |-> page, at |-> ls.at, count |-> ls.count]
             events == IF ls.boot THEN page \ ls.items ELSE {}
  <2>1. next \in Seen /\ events \in SUBSET Event
    BY <1>3, SeenFields
  <2>2. /\ Result(s).lastSeen = next /\ Result(s).events = events
        /\ Result(s).initialized <=> ~ls.boot
    BY <1>4, <1>5, NamesOutcome
  <2>3. next.boot /\ SeenFits(s, next)
    BY <1>2, <1>5 DEF SeenFits
  <2>4. Covers(s, ls) = ls.items /\ Covers(s, next) = page
    BY <1>5 DEF Covers
  <2>5. Outcome(s, ls, next, events)
    BY <2>2, <2>3, <2>4 DEF Outcome
  <2> QED
    BY <2>1, <2>5
<1>6. CASE kind[s] = "names"
  <2>1. Result(s) = PollNames(OnPage, ls)
    BY <1>6 DEF Result
  <2> QED
    BY <1>1, <1>5, <1>6, <2>1
<1>7. CASE kind[s] = "merged"
  <2>1. Result(s) = PollMerged(OnPage \ Other, ls)
    BY <1>7 DEF Result
  <2>2. CASE OnPage \ Other # {}
    <3>1. Result(s) = PollNames(OnPage \ Other, ls)
      BY <2>1, <2>2 DEF PollMerged
    <3> QED
      BY <1>1, <1>5, <1>7, <3>1
  <2>3. CASE OnPage \ Other = {}
    <3> DEFINE next == [boot |-> TRUE, items |-> ls.items, at |-> ls.at, count |-> ls.count]
    <3>1. next \in Seen /\ {} \in SUBSET Event
      BY <1>3, SeenFields
    <3>2. /\ Result(s).lastSeen = next /\ Result(s).events = {}
          /\ Result(s).initialized <=> ~ls.boot
      <4>1. /\ Result(s).lastSeen = [ls EXCEPT !.boot = TRUE] /\ Result(s).events = {}
            /\ Result(s).initialized <=> ~ls.boot
        <5> DEFINE marked == [ls EXCEPT !.boot = TRUE]
                   first == ~ls.boot
        <5>1. Result(s) = PollResult(first, marked, {})
          BY <2>1, <2>3, Zenon DEF PollMerged, IsBootstrapped
        <5>2. marked = [ls EXCEPT !.boot = TRUE]
          OBVIOUS
        <5>3. first <=> ~ls.boot
          OBVIOUS
        <5> HIDE DEF marked, first
        <5> QED
          BY <5>1, <5>2, <5>3, ResultFields
      <4> QED
        BY <4>1, SeenMarked, Zenon
    <3>3. next.boot /\ SeenFits(s, next)
      BY <1>2, <1>7 DEF SeenFits
    <3>4. Covers(s, ls) = ls.items /\ Covers(s, next) = ls.items
      BY <1>7 DEF Covers
    <3>5. Outcome(s, ls, next, {})
      BY <3>2, <3>3, <3>4 DEF Outcome
    <3> QED
      BY <3>1, <3>5
  <2> QED
    BY <2>2, <2>3
<1>8. CASE kind[s] = "closed"
  <2> DEFINE closed == {e \in OnPage \ Other : ClosedSince(closedAt[e], ls.at)}
             next == [boot |-> TRUE, items |-> ls.items, at |-> now, count |-> ls.count]
             events == IF ls.at = None THEN {} ELSE closed
  <2>1. Result(s) = PollClosed(closed, now, ls)
    BY <1>8 DEF Result
  <2>2. ls.boot <=> ls.at # None
    BY <1>2, <1>4, <1>8, EmptyFields DEF SeenFits
  <2>3. next \in Seen /\ events \in SUBSET Event
    BY <1>1, <1>2, <1>3, SeenFields
  <2>4. /\ Result(s).lastSeen = next /\ Result(s).events = events
        /\ Result(s).initialized <=> ~ls.boot
    <3>1. CASE ls.at = None
      <4>1. /\ Result(s).lastSeen = [ls EXCEPT !.boot = TRUE, !.at = now]
            /\ Result(s).events = {}
            /\ Result(s).initialized <=> ~ls.boot
        <5> DEFINE marked == [ls EXCEPT !.boot = TRUE, !.at = now]
                   first == ~ls.boot
        <5>1. Result(s) = PollResult(first, marked, {})
          BY <2>1, <3>1, Zenon DEF PollClosed, IsBootstrapped
        <5>2. marked = [ls EXCEPT !.boot = TRUE, !.at = now]
          OBVIOUS
        <5>3. first <=> ~ls.boot
          OBVIOUS
        <5> HIDE DEF marked, first
        <5> QED
          BY <5>1, <5>2, <5>3, ResultFields
      <4> QED
        BY <1>2, <3>1, <4>1, SeenMarked, Zenon
    <3>2. CASE ls.at # None
      <4>1. /\ Result(s).lastSeen = [ls EXCEPT !.boot = TRUE, !.at = now]
            /\ Result(s).events = closed
            /\ Result(s).initialized <=> FALSE
        <5> DEFINE marked == [ls EXCEPT !.boot = TRUE, !.at = now]
                   first == FALSE
        <5>1. Result(s) = PollResult(first, marked, closed)
          BY <2>1, <3>2, Zenon DEF PollClosed
        <5>2. marked = [ls EXCEPT !.boot = TRUE, !.at = now]
          OBVIOUS
        <5>3. first <=> FALSE
          OBVIOUS
        <5> HIDE DEF marked, first
        <5> QED
          BY <5>1, <5>2, <5>3, ResultFields
      <4> QED
        BY <1>2, <2>2, <3>2, <4>1, SeenMarked, Zenon
    <3> QED
      BY <3>1, <3>2
  <2>5. next.boot /\ SeenFits(s, next)
    BY <1>2, <1>8 DEF SeenFits, None
  <2>6. /\ Covers(s, ls) = {e \in Listed \ Other : closedAt[e] < ls.at}
        /\ Covers(s, next) = {e \in Listed \ Other : closedAt[e] < now}
    BY <1>8 DEF Covers
  <2>7. \A e \in Event : closedAt[e] \in Nat
    BY DEF Typed, TypeOK, None
  <2>8. Listed \subseteq Event
    BY DEF Typed, TypeOK, Listed, ToSet
  <2>9. ls.at \in Nat /\ now \in Nat
    BY <1>2, <1>3 DEF None
  <2>10. ASSUME ls.boot PROVE events \cap Covers(s, ls) = {}
    BY <1>1, <2>2, <2>6, <2>7, <2>9, <2>10 DEF ClosedSince
  <2>11. ASSUME ls.boot
         PROVE  Covers(s, next) \subseteq Covers(s, ls) \cup events \cup PassedOver(s)
    <3>1. PassedOver(s) =
              {e \in Listed \ (Other \cup OnPage) : ls.at <= closedAt[e]
                  /\ closedAt[e] < now}
      BY <1>8, <2>2, <2>11 DEF PassedOver
    <3> QED
      <4> SUFFICES ASSUME NEW e \in Covers(s, next), e \notin Covers(s, ls),
                          e \notin PassedOver(s)
                   PROVE  e \in events
        OBVIOUS
      <4>1. e \in Listed \ Other /\ closedAt[e] < now /\ e \in Event
        BY <2>6, <2>8
      <4>2. ls.at <= closedAt[e]
        BY <2>6, <2>7, <2>9, <4>1
      <4>3. e \in OnPage
        BY <3>1, <4>1, <4>2
      <4> QED
        BY <2>2, <2>7, <2>9, <2>11, <4>1, <4>2, <4>3 DEF ClosedSince
  <2>12. Outcome(s, ls, next, events)
    BY <2>4, <2>5, <2>10, <2>11 DEF Outcome
  <2> QED
    BY <2>3, <2>12
<1>9. CASE kind[s] = "milestone"
  <2> DEFINE next == [boot |-> TRUE, items |-> ls.items, at |-> ls.at, count |-> count]
             events == IF ls.boot /\ Crosses(ls.count, count, Goal) THEN {Reached} ELSE {}
  <2>1. Result(s) = PollMilestone(count, Goal, {Reached}, ls)
    BY <1>9 DEF Result
  <2>2. ls.boot <=> ls.count # Undefined
    BY <1>2, <1>4, <1>9, EmptyFields DEF SeenFits
  <2>3. next \in Seen /\ events \in SUBSET Event
    BY <1>2, <1>3, SeenFields, ListingAssumption
  <2>4. /\ Result(s).lastSeen = next /\ Result(s).events = events
        /\ Result(s).initialized <=> ~ls.boot
    <3>1. ls.count = Undefined /\ ~ls.boot <=> ~ls.boot
      BY <2>2
    <3>2. /\ Result(s).lastSeen = [ls EXCEPT !.boot = TRUE, !.count = count]
          /\ Result(s).events = events
          /\ Result(s).initialized <=> ~ls.boot
      <4> DEFINE first == ls.count = Undefined /\ ~ls.boot
                 news == IF ~first /\ Crosses(ls.count, count, Goal) THEN {Reached} ELSE {}
                 marked == [ls EXCEPT !.boot = TRUE, !.count = count]
      <4>1. Result(s) = PollResult(first, marked, news)
        BY <2>1, Zenon DEF PollMilestone, IsBootstrapped
      <4>2. news = events /\ (first <=> ~ls.boot)
        BY <3>1
      <4>3. marked = [ls EXCEPT !.boot = TRUE, !.count = count]
        OBVIOUS
      <4> HIDE DEF first, news, marked
      <4> QED
        BY <4>1, <4>2, <4>3, ResultFields
    <3> QED
      BY <1>2, <3>2, SeenMarked, Zenon
  <2>5. next.boot /\ SeenFits(s, next)
    BY <1>2, <1>9 DEF SeenFits, Undefined
  <2>6. /\ Covers(s, ls) = IF ls.count >= Goal THEN {Reached} ELSE {}
        /\ Covers(s, next) = IF count >= Goal THEN {Reached} ELSE {}
    BY <1>9 DEF Covers
  <2>7. ls.boot => /\ events \cap Covers(s, ls) = {}
                   /\ Covers(s, next) \subseteq Covers(s, ls) \cup events
    BY <1>2, <1>3, <2>2, <2>6, ListingAssumption DEF Crosses, Undefined
  <2>8. Outcome(s, ls, next, events)
    BY <2>4, <2>5, <2>7 DEF Outcome
  <2> QED
    BY <2>3, <2>8
<1> QED
  BY <1>2, <1>6, <1>7, <1>8, <1>9 DEF Kind

------------------------------------------------------------------------------
(* What the steps of processSubscription do to the variables of the worker. *)

\* The fields of a task.
LEMMA TaskFields ==
    /\ NoTask \in Task
    /\ NoTask.pc = "idle" /\ NoTask.snap = EmptySeen /\ NoTask.new = EmptySeen
    /\ NoTask.pending = {}
    /\ \A t \in Task :
           /\ t.pc \in {"idle", "poll", "save", "fetch", "send"}
           /\ t.snap \in Seen /\ t.new \in Seen /\ t.pending \in SUBSET Event
  BY WorkerAssumption DEF Task, NoTask

\* Failures are bounded.
LEMMA FaultType == ASSUME faults \in 0 .. MaxFaults, Fault PROVE faults' \in 0 .. MaxFaults
  BY WorkerAssumption DEF Fault

\* The row and the history of s stay as they are.
SameHistory(s) ==
    /\ sent'[s] = sent[s] /\ dropped'[s] = dropped[s] /\ saveFailed'[s] = saveFailed[s]
    /\ lastSeen'[s] = lastSeen[s]

\* A step of the run of s alone: it leaves it with the task t.
RunsTo(s, t) ==
    /\ WorkerTypeOK' /\ status' = status
    /\ task'[s] = t /\ t \in Task
    /\ \A r \in Sub \ {s} : task'[r] = task[r] /\ SameHistory(r)

\* A poll that fails ends the run.
LEMMA PollFailsOutcome ==
    ASSUME WorkerTypeOK, NEW s \in Sub, PollFails(s)
    PROVE  /\ task[s].pc = "poll"
           /\ RunsTo(s, NoTask) /\ SameHistory(s)
<1> USE DEF PollFails, rowVars, historyVars
<1>1. faults' \in 0 .. MaxFaults /\ task' \in [Sub -> Task]
  BY TaskFields, FaultType DEF WorkerTypeOK
<1>2. WorkerTypeOK'
  BY <1>1 DEF WorkerTypeOK
<1> QED
  BY <1>2, TaskFields DEF WorkerTypeOK, RunsTo, SameHistory

\* What is left to do after the update of last_seen.
AfterSaveTask(s) ==
    IF task[s].pending = {} THEN NoTask ELSE [task[s] EXCEPT !.pc = "fetch"]

\* Only a failure keeps the new checkpoint out of a row that is stored.
LEMMA SaveOutcome ==
    ASSUME WorkerTypeOK, NEW s \in Sub, Save(s) \/ SaveFails(s)
    PROVE  /\ task[s].pc = "save"
           /\ RunsTo(s, AfterSaveTask(s))
           /\ sent'[s] = sent[s] /\ dropped'[s] = dropped[s]
           /\ \/ /\ saveFailed'[s] = saveFailed[s]
                 /\ lastSeen'[s] = IF status[s] = "stored" THEN task[s].new ELSE lastSeen[s]
              \/ /\ saveFailed'[s] = saveFailed[s] + 1
                 /\ lastSeen'[s] \in {lastSeen[s], task[s].new}
<1> USE DEF rowVars, historyVars
<1>1. AfterSaveTask(s) \in Task
  BY TaskFields DEF WorkerTypeOK, AfterSaveTask, Task
<1>2. task' = [task EXCEPT ![s] = AfterSaveTask(s)]
  BY DEF Save, SaveFails, AfterSave, AfterSaveTask
<1>3. /\ faults' \in 0 .. MaxFaults /\ lastSeen' \in [Sub -> Seen]
      /\ \A r \in Sub \ {s} : lastSeen'[r] = lastSeen[r]
  BY TaskFields, FaultType DEF WorkerTypeOK, Save, SaveFails, UpdateLastSeen
<1>4. /\ saveFailed' \in [Sub -> Nat]
      /\ \A r \in Sub \ {s} : saveFailed'[r] = saveFailed[r]
  BY DEF WorkerTypeOK, Save, SaveFails
<1>5. /\ task[s].pc = "save"
      /\ UNCHANGED <<status, conn, sent, dropped, ineligible>>
  BY DEF Save, SaveFails
<1>6. task' \in [Sub -> Task]
  BY <1>1, <1>2 DEF WorkerTypeOK
<1>7. WorkerTypeOK'
  BY <1>3, <1>4, <1>5, <1>6 DEF WorkerTypeOK
<1>8. RunsTo(s, AfterSaveTask(s))
  BY <1>1, <1>2, <1>3, <1>4, <1>5, <1>7 DEF WorkerTypeOK, RunsTo, SameHistory
<1>9. \/ /\ saveFailed'[s] = saveFailed[s]
         /\ lastSeen'[s] = IF status[s] = "stored" THEN task[s].new ELSE lastSeen[s]
      \/ /\ saveFailed'[s] = saveFailed[s] + 1
         /\ lastSeen'[s] \in {lastSeen[s], task[s].new}
  <2>1. CASE Save(s)
    BY <2>1 DEF WorkerTypeOK, Save, UpdateLastSeen
  <2>2. CASE SaveFails(s)
    BY <2>2 DEF WorkerTypeOK, SaveFails, UpdateLastSeen
  <2> QED
    BY <2>1, <2>2
<1> QED
  BY <1>5, <1>8, <1>9

\* The connection was found: the items are sent next.
LEMMA FetchOutcome ==
    ASSUME WorkerTypeOK, NEW s \in Sub, FetchConnection(s)
    PROVE  /\ task[s].pc = "fetch"
           /\ RunsTo(s, [task[s] EXCEPT !.pc = "send"]) /\ SameHistory(s)
<1> USE DEF FetchConnection, rowVars, historyVars
<1>1. [task[s] EXCEPT !.pc = "send"] \in Task
  BY DEF WorkerTypeOK, Task
<1>2. task' = [task EXCEPT ![s] = [task[s] EXCEPT !.pc = "send"]]
  BY DEF WorkerTypeOK
<1>3. WorkerTypeOK'
  BY <1>1, <1>2 DEF WorkerTypeOK
<1> QED
  BY <1>1, <1>2, <1>3 DEF WorkerTypeOK, RunsTo, SameHistory

\* The connection was not found: the items are given up.
LEMMA MissingOutcome ==
    ASSUME WorkerTypeOK, NEW s \in Sub, ConnectionMissing(s)
    PROVE  /\ task[s].pc = "fetch"
           /\ RunsTo(s, NoTask)
           /\ sent'[s] = sent[s] /\ saveFailed'[s] = saveFailed[s]
           /\ lastSeen'[s] = lastSeen[s]
           /\ dropped'[s] = dropped[s] \cup task[s].pending
<1> USE DEF ConnectionMissing, rowVars
<1>1. faults' \in 0 .. MaxFaults /\ task' \in [Sub -> Task]
          /\ dropped' \in [Sub -> SUBSET Event]
  BY TaskFields, FaultType DEF WorkerTypeOK
<1>2. WorkerTypeOK'
  BY <1>1 DEF WorkerTypeOK
<1> QED
  BY <1>2, TaskFields DEF WorkerTypeOK, RunsTo, SameHistory

\* What is left to do after the dispatch of e.
RestTask(s, e) ==
    IF task[s].pending \ {e} = {} THEN NoTask
    ELSE [task[s] EXCEPT !.pending = task[s].pending \ {e}]

\* An item is counted as sent, once more, or as dropped, or as both.
LEMMA DispatchOutcome ==
    ASSUME WorkerTypeOK, NEW s \in Sub, NEW e \in Event,
           Dispatch(s, e) \/ DispatchFails(s, e)
    PROVE  /\ task[s].pc = "send" /\ e \in task[s].pending
           /\ RunsTo(s, RestTask(s, e))
           /\ lastSeen'[s] = lastSeen[s] /\ saveFailed'[s] = saveFailed[s]
           /\ \A x \in Event \ {e} : sent'[s][x] = sent[s][x]
           /\ dropped[s] \subseteq dropped'[s]
           /\ \/ sent'[s][e] = sent[s][e] + 1
              \/ sent'[s][e] = sent[s][e] /\ e \in dropped'[s]
<1> USE DEF rowVars
<1>1. RestTask(s, e) \in Task
  BY TaskFields DEF WorkerTypeOK, RestTask, Task
<1>2. task' = [task EXCEPT ![s] = RestTask(s, e)]
  BY DEF Dispatch, DispatchFails, EventDone, RestTask
<1>3. sent[s] \in [Event -> Nat] /\ dropped[s] \in SUBSET Event
  BY DEF WorkerTypeOK
<1>4. [sent EXCEPT ![s][e] = @ + 1] \in [Sub -> [Event -> Nat]]
  <2>1. [sent[s] EXCEPT ![e] = @ + 1] \in [Event -> Nat]
    BY <1>3
  <2> QED
    BY <2>1 DEF WorkerTypeOK
<1>5. /\ sent' \in [Sub -> [Event -> Nat]]
      /\ \A r \in Sub \ {s} : sent'[r] = sent[r]
      /\ \A x \in Event \ {e} : sent'[s][x] = sent[s][x]
      /\ sent'[s][e] = sent[s][e] + 1 \/ (sent'[s][e] = sent[s][e] /\ DispatchFails(s, e))
  <2>1. CASE sent' = [sent EXCEPT ![s][e] = @ + 1]
    BY <1>3, <1>4, <2>1 DEF WorkerTypeOK
  <2>2. CASE sent' = sent /\ DispatchFails(s, e)
    BY <2>2 DEF WorkerTypeOK
  <2> QED
    BY <2>1, <2>2 DEF Dispatch, DispatchFails
<1>6. /\ dropped' \in [Sub -> SUBSET Event]
      /\ \A r \in Sub \ {s} : dropped'[r] = dropped[r]
      /\ dropped[s] \subseteq dropped'[s]
      /\ DispatchFails(s, e) => e \in dropped'[s]
  <2>1. dropped \in [Sub -> SUBSET Event]
    BY DEF WorkerTypeOK
  <2>2. CASE dropped' = dropped /\ ~DispatchFails(s, e)
    BY <2>1, <2>2
  <2>3. CASE dropped' = [dropped EXCEPT ![s] = @ \cup {e}]
    BY <2>1, <2>3
  <2> QED
    BY <2>2, <2>3 DEF Dispatch, DispatchFails
<1>7. faults' \in 0 .. MaxFaults
  BY FaultType DEF WorkerTypeOK, Dispatch, DispatchFails
<1>8. /\ task[s].pc = "send" /\ e \in task[s].pending
      /\ UNCHANGED <<rowVars, saveFailed, ineligible>>
  BY DEF Dispatch, DispatchFails
<1>9. task' \in [Sub -> Task]
  BY <1>1, <1>2 DEF WorkerTypeOK
<1>10. WorkerTypeOK'
  BY <1>5, <1>6, <1>7, <1>8, <1>9 DEF WorkerTypeOK
<1>11. RunsTo(s, RestTask(s, e))
  BY <1>1, <1>2, <1>5, <1>6, <1>8, <1>10 DEF WorkerTypeOK, RunsTo, SameHistory
<1> QED
  BY <1>5, <1>6, <1>8, <1>11

\* The poll that answers with r.
PollTask(s, r) ==
    [task[s] EXCEPT !.pc = "save", !.new = r.lastSeen,
                    !.pending = IF r.initialized THEN {} ELSE r.events]

\* It stores nothing yet.
LEMMA PollReturnsOutcome ==
    ASSUME WorkerTypeOK, NEW s \in Sub, NEW r, NEW missed \in SUBSET Event,
           r.lastSeen \in Seen, r.events \in SUBSET Event, PollReturns(s, r, missed)
    PROVE  /\ task[s].pc = "poll"
           /\ RunsTo(s, PollTask(s, r))
           /\ sent'[s] = sent[s] /\ saveFailed'[s] = saveFailed[s]
           /\ lastSeen'[s] = lastSeen[s]
           /\ dropped'[s] = dropped[s] \cup missed
<1> USE DEF PollReturns, rowVars
<1>1. PollTask(s, r) \in Task
  <2>1. task[s] \in Task /\ (IF r.initialized THEN {} ELSE r.events) \in SUBSET Event
    BY DEF WorkerTypeOK
  <2> QED
    BY <2>1 DEF PollTask, Task
<1>2. task' = [task EXCEPT ![s] = PollTask(s, r)]
  BY DEF PollTask
<1>3. task' \in [Sub -> Task] /\ dropped' \in [Sub -> SUBSET Event]
  BY <1>1, <1>2 DEF WorkerTypeOK
<1>4. WorkerTypeOK'
  BY <1>3 DEF WorkerTypeOK
<1> QED
  BY <1>1, <1>2, <1>4 DEF WorkerTypeOK, RunsTo, SameHistory

------------------------------------------------------------------------------
(* Type correctness.                                                       *)

\* The fields of the tasks a step leaves.
LEMMA NextTasks ==
    ASSUME WorkerTypeOK, NEW s \in Sub
    PROVE  /\ task[s].pending = {} => AfterSaveTask(s) = NoTask
           /\ task[s].pending # {} =>
                  /\ AfterSaveTask(s).pc = "fetch"
                  /\ AfterSaveTask(s).snap = task[s].snap
                  /\ AfterSaveTask(s).new = task[s].new
                  /\ AfterSaveTask(s).pending = task[s].pending
           /\ \A e : task[s].pending \ {e} = {} => RestTask(s, e) = NoTask
           /\ \A e : task[s].pending \ {e} # {} =>
                  /\ RestTask(s, e).pc = task[s].pc
                  /\ RestTask(s, e).snap = task[s].snap /\ RestTask(s, e).new = task[s].new
                  /\ RestTask(s, e).pending = task[s].pending \ {e}
<1>1. task[s] \in Task
  BY DEF WorkerTypeOK
<1> QED
  BY <1>1 DEF AfterSaveTask, RestTask, Task

\* The fields of the task the sends start from.
LEMMA FetchTask ==
    ASSUME WorkerTypeOK, NEW s \in Sub, NEW t, t = [task[s] EXCEPT !.pc = "send"]
    PROVE  /\ t.pc = "send" /\ t.snap = task[s].snap /\ t.new = task[s].new
           /\ t.pending = task[s].pending
<1>1. task[s] \in Task
  BY DEF WorkerTypeOK
<1> QED
  BY <1>1 DEF Task

\* An empty checkpoint fits every kind.
LEMMA EmptyFits ==
    ASSUME Typed, NEW s \in Sub
    PROVE  SeenFits(s, EmptySeen)
  BY EmptyFields DEF Typed, TypeOK, SeenFits, None

\* A step of one run, from checkpoints the worker already holds.
LEMMA RunKeepsTyped ==
    ASSUME Typed, NEW s \in Sub, NEW t, RunsTo(s, t), UNCHANGED otherVars,
           t.snap \in {EmptySeen, task[s].snap}, t.new \in {EmptySeen, task[s].new},
           lastSeen'[s] \in {lastSeen[s], task[s].new},
           t.pc # "idle" => task[s].pc # "idle"
    PROVE  Typed'
<1> USE DEF otherVars, githubVars
<1>1. \A r \in Sub : \A ls \in Seen : SeenFits(r, ls)' = SeenFits(r, ls)
  BY DEF SeenFits
<1>2. \A r \in Sub : \A ls \in Seen :
          ls \in {lastSeen'[r], task'[r].snap, task'[r].new} => SeenFits(r, ls)
  <2> SUFFICES ASSUME NEW r \in Sub, NEW ls \in Seen,
                      ls \in {lastSeen'[r], task'[r].snap, task'[r].new}
               PROVE  SeenFits(r, ls)
    OBVIOUS
  <2>1. ls \in {EmptySeen, lastSeen[r], task[r].snap, task[r].new}
    BY DEF RunsTo, SameHistory
  <2> QED
    BY <2>1, EmptyFits DEF Typed
<1>3. \A r \in Sub : task'[r].pc # "idle" => task[r].pc # "idle"
  BY DEF RunsTo
<1>4. \A r \in Sub : lastSeen'[r] \in Seen
  BY DEF RunsTo, WorkerTypeOK
<1>5. \A r \in Sub :
          /\ lastSeen'[r].items # {} => kind[r] \in {"names", "merged"}
          /\ lastSeen'[r].at # None => kind[r] = "closed"
          /\ lastSeen'[r].count # Undefined => kind[r] = "milestone"
  BY <1>2, <1>4 DEF SeenFits
<1>6. TypeOK'
  BY <1>5 DEF Typed, TypeOK, RunsTo
<1> QED
  BY <1>1, <1>2, <1>3, <1>6 DEF Typed

\* Whatever a run does after its poll keeps the types.
LEMMA RowKeepsTyped ==
    ASSUME Typed, NEW s \in Sub, RowStep(s)
    PROVE  Typed'
<1> USE DEF RowStep
<1>1. WorkerTypeOK
  BY DEF Typed, TypeOK
<1>2. CASE PollFails(s)
  BY <1>1, <1>2, PollFailsOutcome, TaskFields, RunKeepsTyped DEF SameHistory
<1>3. CASE Save(s) \/ SaveFails(s)
  <2>1. /\ RunsTo(s, AfterSaveTask(s)) /\ lastSeen'[s] \in {lastSeen[s], task[s].new}
        /\ task[s].pc # "idle"
    BY <1>1, <1>3, SaveOutcome
  <2>2. /\ AfterSaveTask(s).snap \in {EmptySeen, task[s].snap}
        /\ AfterSaveTask(s).new \in {EmptySeen, task[s].new}
    BY <1>1, NextTasks, TaskFields
  <2> QED
    BY <2>1, <2>2, RunKeepsTyped
<1>4. CASE FetchConnection(s)
  <2>1. PICK t : t = [task[s] EXCEPT !.pc = "send"]
    OBVIOUS
  <2>2. task[s].pc = "fetch" /\ RunsTo(s, t) /\ SameHistory(s)
    BY <1>1, <1>4, <2>1, FetchOutcome
  <2>3. t.pc = "send" /\ t.snap = task[s].snap /\ t.new = task[s].new
    BY <1>1, <2>1, FetchTask
  <2> QED
    BY <2>2, <2>3, RunKeepsTyped DEF SameHistory
<1>5. CASE ConnectionMissing(s)
  BY <1>1, <1>5, MissingOutcome, TaskFields, RunKeepsTyped
<1>6. ASSUME NEW e \in Event, Dispatch(s, e) \/ DispatchFails(s, e) PROVE Typed'
  <2>1. /\ RunsTo(s, RestTask(s, e)) /\ lastSeen'[s] = lastSeen[s] /\ task[s].pc # "idle"
    BY <1>1, <1>6, DispatchOutcome
  <2>2. /\ RestTask(s, e).snap \in {EmptySeen, task[s].snap}
        /\ RestTask(s, e).new \in {EmptySeen, task[s].new}
    BY <1>1, NextTasks, TaskFields
  <2> QED
    BY <2>1, <2>2, RunKeepsTyped
<1> QED
  BY <1>2, <1>3, <1>4, <1>5, <1>6

\* The fields of the task a poll leaves.
LEMMA PollTaskFields ==
    ASSUME WorkerTypeOK, NEW s \in Sub, NEW r, NEW t, t = PollTask(s, r)
    PROVE  /\ t.pc = "save" /\ t.snap = task[s].snap /\ t.new = r.lastSeen
           /\ t.pending = IF r.initialized THEN {} ELSE r.events
<1>1. task[s] \in Task
  BY DEF WorkerTypeOK
<1> QED
  BY <1>1 DEF Task, PollTask

\* What a poll does, in terms of the outcome of the poll function.
PollEffect(s, ls, next, events) ==
    /\ task[s].pc = "poll" /\ task[s].snap = ls
    /\ Outcome(s, ls, next, events)
    /\ WorkerTypeOK' /\ status' = status
    /\ task'[s].pc = "save" /\ task'[s].snap = ls /\ task'[s].new = next
    /\ task'[s].pending = IF ls.boot THEN events ELSE {}
    /\ sent'[s] = sent[s] /\ saveFailed'[s] = saveFailed[s] /\ lastSeen'[s] = lastSeen[s]
    /\ dropped'[s] = dropped[s] \cup PassedOver(s)
    /\ baseline' \in [Sub -> SUBSET Event]
    /\ baseline'[s] = IF ls.boot THEN baseline[s] ELSE Covers(s, next)
    /\ forgets' \in [Sub -> [Event -> Nat]]
    /\ \A e \in Event :
           forgets'[s][e] = IF e \in (Covers(s, ls) \cup events) \ Covers(s, next)
                            THEN forgets[s][e] + 1 ELSE forgets[s][e]
    /\ \A r \in Sub \ {s} :
           /\ task'[r] = task[r] /\ SameHistory(r)
           /\ baseline'[r] = baseline[r] /\ forgets'[r] = forgets[r]
    /\ UNCHANGED <<kind, githubVars, clock, now, seed>>

\* Every poll has such an effect.
LEMMA PollListingEffect ==
    ASSUME Typed, NEW s \in Sub, PollListing(s)
    PROVE  \E ls, next \in Seen, events \in SUBSET Event : PollEffect(s, ls, next, events)
<1>1. WorkerTypeOK /\ Listed \subseteq Event
  BY DEF Typed, TypeOK, Listed, ToSet
<1>2. task[s].pc = "poll" /\ task[s] \in Task
  BY <1>1 DEF PollListing, PollReturns, WorkerTypeOK
<1>3. PICK ls \in Seen : task[s].snap = ls
  BY <1>2, TaskFields
<1>4. PICK next \in Seen, events \in SUBSET Event : Outcome(s, ls, next, events)
  BY <1>2, <1>3, PollOutcome
<1>5. PassedOver(s) \in SUBSET Event
  BY <1>1 DEF PassedOver
<1> DEFINE missed == PassedOver(s)
           forgotten == (Covers(s, ls) \cup events) \ Covers(s, next)
           covered == IF ls.boot THEN baseline[s] ELSE Covers(s, next)
<1>6. Covers(s, next) \in SUBSET Event
  <2>1. next.items \in SUBSET Event /\ kind[s] \in Kind
    BY SeenFields DEF Typed, TypeOK
  <2> QED
    BY <1>1, <2>1, ListingAssumption DEF Covers, Kind
<1>7. PICK r : r = Result(s)
  OBVIOUS
<1>8. /\ r.lastSeen = next /\ r.events = events /\ (r.initialized <=> ~ls.boot)
  BY <1>4, <1>7 DEF Outcome
<1>9. /\ PollReturns(s, r, missed)
      /\ baseline' = [baseline EXCEPT ![s] = covered]
      /\ forgets' = [forgets EXCEPT ![s] =
                        [e \in Event |-> IF e \in forgotten THEN forgets[s][e] + 1
                            ELSE forgets[s][e]]]
      /\ UNCHANGED <<kind, githubVars, clock, now, seed>>
  <2>1. Forgotten(s) = forgotten
    BY <1>3, <1>4 DEF Forgotten, Outcome
  <2>2. baseline' = [baseline EXCEPT ![s] = covered]
    BY <1>3, <1>4 DEF PollListing, IsBootstrapped, Outcome
  <2>3. forgets' = [forgets EXCEPT ![s] =
            [e \in Event |-> IF e \in forgotten THEN forgets[s][e] + 1 ELSE forgets[s][e]]]
    BY <2>1 DEF PollListing
  <2> QED
    BY <1>7, <2>2, <2>3 DEF PollListing
<1>10. /\ RunsTo(s, PollTask(s, r))
       /\ sent'[s] = sent[s] /\ saveFailed'[s] = saveFailed[s] /\ lastSeen'[s] = lastSeen[s]
       /\ dropped'[s] = dropped[s] \cup missed
  BY <1>1, <1>5, <1>8, <1>9, PollReturnsOutcome
<1>11. /\ task'[s].pc = "save" /\ task'[s].snap = ls /\ task'[s].new = next
       /\ task'[s].pending = IF ls.boot THEN events ELSE {}
  <2>1. task'[s] = PollTask(s, r)
    BY <1>10 DEF RunsTo
  <2> QED
    BY <1>1, <1>3, <1>8, <2>1, PollTaskFields
<1>12. /\ baseline' \in [Sub -> SUBSET Event] /\ baseline'[s] = covered
       /\ \A q \in Sub \ {s} : baseline'[q] = baseline[q]
  BY <1>6, <1>9 DEF Typed, TypeOK
<1>13. /\ forgets' \in [Sub -> [Event -> Nat]]
       /\ \A e \in Event :
              forgets'[s][e] = IF e \in forgotten THEN forgets[s][e] + 1 ELSE forgets[s][e]
       /\ \A q \in Sub \ {s} : forgets'[q] = forgets[q]
  <2>1. forgets \in [Sub -> [Event -> Nat]] /\ forgets[s] \in [Event -> Nat]
    BY DEF Typed
  <2>2. [e \in Event |-> IF e \in forgotten THEN forgets[s][e] + 1 ELSE forgets[s][e]]
            \in [Event -> Nat]
    BY <2>1
  <2> HIDE DEF forgotten
  <2> QED
    BY <1>9, <2>1, <2>2
<1>14. PollEffect(s, ls, next, events)
  BY <1>2, <1>3, <1>4, <1>9, <1>10, <1>11, <1>12, <1>13 DEF PollEffect, RunsTo
<1> QED
  BY <1>14

\* The next checkpoint fits the kind of the subscription.
LEMMA PollKeepsTyped ==
    ASSUME Typed, NEW s \in Sub, PollListing(s)
    PROVE  Typed'
<1>1. PICK ls \in Seen, next \in Seen, events \in SUBSET Event :
          PollEffect(s, ls, next, events)
  BY PollListingEffect
<1>2. \A r \in Sub : \A x \in Seen : SeenFits(r, x)' = SeenFits(r, x)
  BY <1>1 DEF PollEffect, SeenFits
<1>3. SeenFits(s, next)
  BY <1>1 DEF PollEffect, Outcome
<1>4. \A r \in Sub : \A x \in Seen :
          x \in {lastSeen'[r], task'[r].snap, task'[r].new} => SeenFits(r, x)
  BY <1>1, <1>3 DEF Typed, PollEffect, SameHistory
<1>5. \A r \in Sub : task'[r].pc # "idle" => task[r].pc # "idle"
  BY <1>1 DEF PollEffect
<1>6. \A r \in Sub : lastSeen'[r] = lastSeen[r]
  BY <1>1 DEF PollEffect, SameHistory
<1>7. TypeOK'
  <2>1. /\ WorkerTypeOK' /\ baseline' \in [Sub -> SUBSET Event]
        /\ UNCHANGED <<kind, githubVars, clock, now>>
    BY <1>1 DEF PollEffect
  <2> QED
    BY <1>6, <2>1 DEF Typed, TypeOK, githubVars
<1> QED
  BY <1>1, <1>2, <1>4, <1>5, <1>7 DEF Typed, PollEffect

\* What an update puts first was in the listing before.
LEMMA UpdatedListing ==
    ASSUME Typed, NEW i \in DOMAIN listing, Update(i)
    PROVE  /\ listing' \in Seq(Event) /\ IsInjective(listing')
           /\ UNCHANGED <<closedAt, count>>
           /\ ToSet(listing') = ToSet(listing)
<1>1. /\ listing \in Seq(Event) /\ IsInjective(listing)
      /\ DOMAIN listing = 1 .. Len(listing)
  BY LenProperties DEF Typed, TypeOK
<1>2. i \in 1 .. Len(listing) /\ listing[i] \in ToSet(listing) /\ listing[i] \in Event
  BY <1>1 DEF ToSet
<1> DEFINE rest == RemoveAt(listing, i)
<1>3. rest \in Seq(Event) /\ IsInjective(rest)
          /\ ToSet(rest) = ToSet(listing) \ {listing[i]}
  BY <1>1, <1>2, RemovedListing
<1>4. listing' = <<listing[i]>> \o rest /\ UNCHANGED <<closedAt, count>>
  BY DEF Update
<1> HIDE DEF rest
<1>5. /\ <<listing[i]>> \o rest \in Seq(Event) /\ IsInjective(<<listing[i]>> \o rest)
      /\ ToSet(<<listing[i]>> \o rest) = ToSet(rest) \cup {listing[i]}
  BY <1>2, <1>3, PrependedListing
<1> QED
  BY <1>2, <1>3, <1>4, <1>5

\* A change of the repository.
LEMMA GithubListing ==
    ASSUME Typed, GithubStep
    PROVE  /\ listing' \in Seq(Event) /\ IsInjective(listing')
           /\ closedAt' \in [Event -> {None} \cup 1 .. MaxTime]
           /\ count' \in 0 .. MaxCount /\ moves' \in 0 .. MaxMoves
           /\ UNCHANGED <<workerVars, kind, clock, now, seed, baseline, forgets>>
<1> USE DEF Listed
<1>1. /\ listing \in Seq(Event) /\ IsInjective(listing) /\ Len(listing) \in Nat
      /\ closedAt \in [Event -> {None} \cup 1 .. MaxTime] /\ clock \in 1 .. MaxTime
      /\ count \in 0 .. MaxCount /\ DOMAIN listing = 1 .. Len(listing)
  BY LenProperties DEF Typed, TypeOK
<1>2. moves' \in 0 .. MaxMoves
      /\ UNCHANGED <<workerVars, kind, clock, now, seed, baseline, forgets>>
  <2>1. Move
    BY DEF GithubStep, AddName, RemoveName, Close, Update, Stars
  <2> QED
    BY <2>1, ListingAssumption DEF Move, Typed, TypeOK
<1>3. ASSUME NEW e \in Event, AddName(e)
      PROVE  listing' \in Seq(Event) /\ IsInjective(listing')
                 /\ UNCHANGED <<closedAt, count>>
  <2>1. PICK i \in 1 .. Len(listing) + 1 : listing' = InsertAt(listing, i, e)
    BY <1>3 DEF AddName
  <2> QED
    BY <1>1, <1>3, <2>1, InsertedListing DEF AddName
<1>4. ASSUME NEW i \in DOMAIN listing, RemoveName(i)
      PROVE  listing' \in Seq(Event) /\ IsInjective(listing')
                 /\ UNCHANGED <<closedAt, count>>
  BY <1>1, <1>4, RemovedListing DEF RemoveName
<1>5. ASSUME NEW e \in Event, Close(e)
      PROVE  /\ listing' \in Seq(Event) /\ IsInjective(listing')
             /\ closedAt' \in [Event -> {None} \cup 1 .. MaxTime] /\ count' = count
  BY <1>1, <1>5, PrependedListing DEF Close
<1>6. ASSUME NEW i \in DOMAIN listing, Update(i)
      PROVE  /\ listing' \in Seq(Event) /\ IsInjective(listing')
             /\ UNCHANGED <<closedAt, count>>
  BY <1>6, UpdatedListing
<1>7. ASSUME Stars
      PROVE  /\ listing' \in Seq(Event) /\ IsInjective(listing')
             /\ count' \in 0 .. MaxCount /\ UNCHANGED <<listing, closedAt>>
  BY <1>1, <1>7 DEF Stars
<1> QED
  BY <1>1, <1>2, <1>3, <1>4, <1>5, <1>6, <1>7 DEF GithubStep

\* Nothing GitHub does concerns the worker.
LEMMA GithubKeepsTyped ==
    ASSUME Typed, GithubStep
    PROVE  Typed'
<1>1. /\ listing' \in Seq(Event) /\ IsInjective(listing')
      /\ closedAt' \in [Event -> {None} \cup 1 .. MaxTime]
      /\ count' \in 0 .. MaxCount /\ moves' \in 0 .. MaxMoves
      /\ UNCHANGED <<workerVars, kind, clock, now, seed, baseline, forgets>>
  BY GithubListing
<1>2. \A r \in Sub : \A x \in Seen : SeenFits(r, x)' = SeenFits(r, x)
  BY <1>1 DEF SeenFits
<1>3. TypeOK'
  BY <1>1 DEF Typed, TypeOK, WorkerTypeOK, workerVars
<1> QED
  BY <1>1, <1>2, <1>3 DEF Typed, workerVars

\* Only milestones are created with a count.
LEMMA ReadCountKeepsTyped ==
    ASSUME Typed, NEW s \in Sub, ReadCount(s)
    PROVE  Typed'
<1> USE DEF ReadCount, workerVars, githubVars
<1>1. \A r \in Sub : \A x \in Seen : SeenFits(r, x)' = SeenFits(r, x)
  BY DEF SeenFits
<1>2. TypeOK'
  BY DEF Typed, TypeOK, WorkerTypeOK
<1>3. /\ seed' \in [Sub -> {Undefined} \cup 0 .. MaxCount]
      /\ \A r \in Sub : seed'[r] # Undefined => kind[r] = "milestone"
  BY DEF Typed, TypeOK
<1> QED
  BY <1>1, <1>2, <1>3 DEF Typed

\* The checkpoint of a new row.
LEMMA InitialFields ==
    ASSUME Typed, NEW s \in Sub, NEW ls, ls = Initial(s)
    PROVE  /\ ls \in Seen /\ ls.items = {} /\ ls.at = None /\ ls.count = seed[s]
           /\ ls.boot <=> seed[s] # Undefined
           /\ ~ls.boot => ls = EmptyListing
<1>1. CASE seed[s] = Undefined
  BY <1>1, EmptyFields DEF Initial
<1>2. CASE seed[s] # Undefined
  <2>1. seed[s] \in 0 .. MaxCount
    BY <1>2 DEF Typed
  <2>2. ls = [EmptyListing EXCEPT !.boot = TRUE, !.count = seed[s]]
    BY <1>2 DEF Initial
  <2>3. ls = [boot |-> TRUE, items |-> {}, at |-> None, count |-> seed[s]]
    BY <2>1, <2>2, EmptyFields, SeenMarked, Zenon
  <2>4. ls \in Seen
    <3>1. /\ TRUE \in BOOLEAN /\ {} \in SUBSET Event /\ None \in {None} \cup 1 .. MaxTime
          /\ seed[s] \in {Undefined} \cup 0 .. MaxCount
      BY <2>1
    <3>2. [boot |-> TRUE, items |-> {}, at |-> None, count |-> seed[s]] \in Seen
      BY <3>1, SeenFields
    <3> QED
      BY <2>3, <3>2
  <2> QED
    BY <1>2, <2>3, <2>4
<1> QED
  BY <1>1, <1>2

\* It fits the kind of the subscription.
LEMMA CreateKeepsTyped ==
    ASSUME Typed, NEW s \in Sub, Create(s)
    PROVE  Typed'
<1>1. PICK ls : ls = Initial(s)
  OBVIOUS
<1>2. /\ ls \in Seen /\ ls.items = {} /\ ls.at = None /\ ls.count = seed[s]
      /\ ls.boot <=> seed[s] # Undefined
      /\ ~ls.boot => ls = EmptyListing
  BY <1>1, InitialFields
<1>3. /\ status' = [status EXCEPT ![s] = "stored"]
      /\ lastSeen' = [lastSeen EXCEPT ![s] = ls]
      /\ baseline' = [baseline EXCEPT ![s] = Covers(s, ls)]
      /\ UNCHANGED <<conn, task, faults, historyVars, kind, githubVars, clock, now, seed,
                     forgets>>
  BY <1>1 DEF Create, CreateSubscription
<1>4. SeenFits(s, ls)
  BY <1>2 DEF Typed, TypeOK, SeenFits, None, Kind
<1>5. \A r \in Sub : \A x \in Seen : SeenFits(r, x)' = SeenFits(r, x)
  BY <1>3 DEF SeenFits
<1>6. Covers(s, ls) \in SUBSET Event
  BY <1>2, ListingAssumption DEF Covers, Kind, Typed, TypeOK, Listed, ToSet
<1>7. \A r \in Sub : lastSeen'[r] = IF r = s THEN ls ELSE lastSeen[r]
  BY <1>3 DEF Typed, TypeOK, WorkerTypeOK
<1>8. \A r \in Sub :
          /\ lastSeen'[r].items # {} => kind[r] \in {"names", "merged"}
          /\ lastSeen'[r].at # None => kind[r] = "closed"
          /\ lastSeen'[r].count # Undefined => kind[r] = "milestone"
  <2> SUFFICES ASSUME NEW r \in Sub
               PROVE  /\ lastSeen'[r].items # {} => kind[r] \in {"names", "merged"}
                      /\ lastSeen'[r].at # None => kind[r] = "closed"
                      /\ lastSeen'[r].count # Undefined => kind[r] = "milestone"
    OBVIOUS
  <2>1. CASE r = s
    BY <1>4, <1>7, <2>1 DEF SeenFits
  <2>2. CASE r # s
    BY <1>7, <2>2 DEF Typed, TypeOK
  <2> QED
    BY <2>1, <2>2
<1>9. TypeOK'
  BY <1>2, <1>3, <1>6, <1>8 DEF Typed, TypeOK, WorkerTypeOK, historyVars, githubVars
<1> QED
  BY <1>3, <1>4, <1>5, <1>7, <1>9 DEF Typed

\* Steps that only change rows of connections or a counter of failures.
LEMMA ConnectionKeepsTyped ==
    ASSUME Typed, NEW c \in Conn, SoftDeleteConnection(c) \/ RestoreConnection(c),
           UNCHANGED otherVars
    PROVE  Typed'
<1> USE DEF otherVars, githubVars, historyVars
<1>1. /\ conn' \in [Conn -> {"active", "deleted", "gone"}]
      /\ UNCHANGED <<status, lastSeen, task, faults, historyVars>>
  BY DEF SoftDeleteConnection, RestoreConnection, Typed, TypeOK, WorkerTypeOK
<1>2. \A r \in Sub : \A x \in Seen : SeenFits(r, x)' = SeenFits(r, x)
  BY DEF SeenFits
<1>3. TypeOK'
  BY <1>1 DEF Typed, TypeOK, WorkerTypeOK
<1> QED
  BY <1>1, <1>2, <1>3 DEF Typed

\* A tick that cannot load the subscriptions.
LEMMA LoadFailsKeepsTyped ==
    ASSUME Typed, TickLoadFails, UNCHANGED otherVars
    PROVE  Typed'
<1> USE DEF TickLoadFails, otherVars, githubVars, historyVars, rowVars
<1>1. faults' \in 0 .. MaxFaults
  BY FaultType DEF Typed, TypeOK, WorkerTypeOK
<1>2. \A r \in Sub : \A x \in Seen : SeenFits(r, x)' = SeenFits(r, x)
  BY DEF SeenFits
<1>3. TypeOK'
  BY <1>1 DEF Typed, TypeOK, WorkerTypeOK
<1> QED
  BY <1>1, <1>2, <1>3 DEF Typed

\* A crash leaves no run.
LEMMA CrashKeepsTyped ==
    ASSUME Typed, Crash, UNCHANGED otherVars
    PROVE  Typed'
<1> USE DEF Crash, otherVars, githubVars, rowVars
<1>1. /\ faults' \in 0 .. MaxFaults /\ task' \in [Sub -> Task]
      /\ dropped' \in [Sub -> SUBSET Event]
      /\ \A r \in Sub : task'[r] = NoTask
  BY FaultType, TaskFields DEF Typed, TypeOK, WorkerTypeOK
<1>2. \A r \in Sub : \A x \in Seen : SeenFits(r, x)' = SeenFits(r, x)
  BY DEF SeenFits
<1>3. TypeOK'
  BY <1>1 DEF Typed, TypeOK, WorkerTypeOK
<1> QED
  BY <1>1, <1>2, <1>3, TaskFields, EmptyFits DEF Typed

\* Time passes.
LEMMA AdvanceKeepsTyped ==
    ASSUME Typed, Advance
    PROVE  Typed'
<1> USE DEF Advance, workerVars, githubVars
<1>1. \A r \in Sub : \A x \in Seen : SeenFits(r, x)' = SeenFits(r, x)
  BY DEF SeenFits
<1>2. TypeOK'
  BY ListingAssumption DEF Typed, TypeOK, WorkerTypeOK
<1> QED
  BY <1>1, <1>2 DEF Typed

\* The tasks of a tick: the checkpoint of every row that is loaded.
LEMMA TickOutcome ==
    ASSUME WorkerTypeOK, TickStart
    PROVE  /\ WorkerTypeOK'
           /\ UNCHANGED <<status, lastSeen, sent, dropped, saveFailed>>
           /\ \A r \in Sub :
                  \/ task'[r] = task[r] /\ task[r].pc = "idle"
                  \/ /\ task'[r].pc = "poll" /\ task'[r].snap = lastSeen[r]
                     /\ task'[r].new = EmptySeen /\ task'[r].pending = {}
                     /\ status[r] = "stored"
<1> USE DEF TickStart, rowVars
<1>1. ASSUME NEW r \in Sub
      PROVE  /\ task'[r] \in Task
             /\ \/ task'[r] = task[r] /\ task[r].pc = "idle"
                \/ /\ task'[r].pc = "poll" /\ task'[r].snap = lastSeen[r]
                   /\ task'[r].new = EmptySeen /\ task'[r].pending = {}
                   /\ status[r] = "stored"
  <2>1. task[r].pc = "idle" /\ task[r] \in Task
    BY DEF NoTickRunning, WorkerTypeOK
  <2>2. CASE r \in ActiveSubscriptions
    <3>1. task'[r] = [pc |-> "poll", snap |-> lastSeen[r], new |-> EmptySeen,
                      pending |-> {}]
      BY <2>2 DEF NoTask
    <3>2. status[r] = "stored" /\ lastSeen[r] \in Seen
      BY <2>2 DEF ActiveSubscriptions, WorkerTypeOK
    <3> HIDE DEF TickStart, rowVars
    <3>3. task'[r] \in Task
      BY <3>1, <3>2, WorkerAssumption DEF Task
    <3> QED
      BY <3>1, <3>2, <3>3
  <2>3. CASE r \notin ActiveSubscriptions
    BY <2>1, <2>3
  <2> QED
    BY <2>2, <2>3
<1>2. task' \in [Sub -> Task]
  BY <1>1
<1> QED
  BY <1>1, <1>2 DEF WorkerTypeOK

\* No checkpoint is of a later second than the tick.
LEMMA TickKeepsTyped ==
    ASSUME Typed, TickListing
    PROVE  Typed'
<1>1. /\ WorkerTypeOK' /\ lastSeen' = lastSeen
      /\ \A r \in Sub :
             \/ task'[r] = task[r] /\ task[r].pc = "idle"
             \/ task'[r].snap = lastSeen[r] /\ task'[r].new = EmptySeen
  BY TickOutcome DEF Typed, TypeOK, TickListing
<1>2. /\ now' = clock /\ clock \in 1 .. MaxTime /\ now \in Nat /\ now <= clock
      /\ UNCHANGED <<kind, githubVars, clock, seed, baseline, forgets>>
  BY ListingAssumption DEF Typed, TypeOK, TickListing
<1>3. \A r \in Sub : \A x \in Seen : SeenFits(r, x) => SeenFits(r, x)'
  <2> SUFFICES ASSUME NEW r \in Sub, NEW x \in Seen, SeenFits(r, x) PROVE SeenFits(r, x)'
    OBVIOUS
  <2>1. x.at \in Nat
    BY SeenFields DEF None
  <2> QED
    BY <1>2, <2>1 DEF SeenFits
<1>4. \A r \in Sub : \A x \in Seen :
          x \in {lastSeen'[r], task'[r].snap, task'[r].new} => SeenFits(r, x)
  <2> SUFFICES ASSUME NEW r \in Sub, NEW x \in Seen,
                      x \in {lastSeen'[r], task'[r].snap, task'[r].new}
               PROVE  SeenFits(r, x)
    OBVIOUS
  <2>1. x \in {EmptySeen, lastSeen[r], task[r].snap, task[r].new}
    BY <1>1
  <2> QED
    BY <2>1, EmptyFits DEF Typed
<1>5. TypeOK'
  BY <1>1, <1>2 DEF Typed, TypeOK, githubVars
<1> QED
  BY <1>1, <1>2, <1>3, <1>4, <1>5 DEF Typed

\* No checkpoint holds anything at first.
LEMMA InitTyped == Init => Typed
<1> SUFFICES ASSUME Init PROVE Typed
  OBVIOUS
<1> USE DEF Init, WorkerInit
<1>1. PICK k \in Kind : kind = [s \in Sub |-> k]
  OBVIOUS
<1>2. WorkerTypeOK
  BY WorkerAssumption, TaskFields DEF WorkerTypeOK
<1>3. /\ listing = <<>> /\ clock \in 1 .. MaxTime /\ now = 0 /\ moves = 0
      /\ count \in 0 .. MaxCount
  BY ListingAssumption
<1>4. listing \in Seq(Event) /\ IsInjective(listing)
  BY <1>3 DEF IsInjective
<1>5. \A s \in Sub : lastSeen[s] = EmptyListing
  BY EmptyFields
<1>6. TypeOK
  BY <1>1, <1>2, <1>3, <1>4, <1>5, EmptyFields, ListingAssumption DEF TypeOK
<1>7. \A s \in Sub : SeenFits(s, EmptyListing)
  BY <1>3, EmptyFields DEF SeenFits, None
<1>8. \A s \in Sub : task[s] = NoTask /\ lastSeen[s] = EmptyListing
  BY <1>5
<1> QED
  BY <1>1, <1>6, <1>7, <1>8, EmptyFields, TaskFields DEF Typed

\* The model is typed, and its checkpoints fit the kind of their subscription.
LEMMA TypedInductive == Typed /\ [Next]_vars => Typed'
<1> SUFFICES ASSUME Typed, [Next]_vars PROVE Typed'
  OBVIOUS
<1>1. CASE UNCHANGED vars
  <2> USE DEF vars, workerVars, otherVars, githubVars
  <2>1. \A r \in Sub : \A x \in Seen : SeenFits(r, x)' = SeenFits(r, x)
    BY <1>1 DEF SeenFits
  <2>2. TypeOK'
    BY <1>1 DEF Typed, TypeOK, WorkerTypeOK
  <2> QED
    BY <1>1, <2>1, <2>2 DEF Typed
<1>2. CASE Next
  BY <1>2, GithubKeepsTyped, ReadCountKeepsTyped, CreateKeepsTyped, ConnectionKeepsTyped,
     LoadFailsKeepsTyped, CrashKeepsTyped, TickKeepsTyped, AdvanceKeepsTyped,
     PollKeepsTyped, RowKeepsTyped DEF Next, ProcessSubscription
<1> QED
  BY <1>1, <1>2

\* It holds throughout.
THEOREM TypedInvariant == Spec => []Typed
  BY InitTyped, TypedInductive, PTL DEF Spec

\* Every variable stays in its range, and a checkpoint holds what the polls of
\* its event type store.
THEOREM ListingTypeCorrect == Spec => []TypeOK
<1>1. Typed => TypeOK
  BY DEF Typed
<1> QED
  BY <1>1, TypedInvariant, PTL

------------------------------------------------------------------------------
(* The invariant, step by step.                                            *)

\* The types of the parts of the invariant, named for the arithmetic.
LEMMA RowTypes ==
    ASSUME Typed, NEW s \in Sub
    PROVE  /\ task[s] \in Task /\ lastSeen[s] \in Seen /\ Sending(s) \in SUBSET Event
           /\ task[s].pending \in SUBSET Event /\ task[s].new \in Seen
           /\ task[s].snap \in Seen
           /\ task[s].pc \in {"idle", "poll", "save", "fetch", "send"}
           /\ baseline[s] \in SUBSET Event /\ dropped[s] \in SUBSET Event
           /\ saveFailed[s] \in Nat
           /\ \A e \in Event : sent[s][e] \in Nat /\ forgets[s][e] \in Nat
                  /\ Room(s, e) \in Nat
<1>1. /\ task[s] \in Task /\ lastSeen[s] \in Seen /\ baseline[s] \in SUBSET Event
      /\ dropped[s] \in SUBSET Event /\ saveFailed[s] \in Nat
      /\ \A e \in Event : sent[s][e] \in Nat /\ forgets[s][e] \in Nat
  BY DEF Typed, TypeOK, WorkerTypeOK
<1>2. \A e \in Event : Room(s, e) \in Nat
  BY <1>1 DEF Room
<1> QED
  BY <1>1, <1>2, TaskFields DEF Sending

\* An item is in a set once or not at all.
LEMMA OnceType == \A e, S : Once(e, S) \in {0, 1} /\ (Once(e, S) = 1 <=> e \in S)
  BY DEF Once

\* A checkpoint covers items.
LEMMA CoversItems ==
    ASSUME Typed, NEW s \in Sub, NEW ls \in Seen
    PROVE  Covers(s, ls) \in SUBSET Event
<1>1. ls.items \in SUBSET Event /\ kind[s] \in Kind
  BY SeenFields DEF Typed, TypeOK
<1>2. Listed \subseteq Event
  BY DEF Typed, TypeOK, Listed, ToSet
<1> QED
  BY <1>1, <1>2, ListingAssumption DEF Covers, Kind

\* The checkpoint `{}' covers nothing.
LEMMA EmptyCovers ==
    ASSUME Typed, NEW s \in Sub
    PROVE  Covers(s, EmptyListing) = {}
<1>1. kind[s] \in Kind /\ Goal \in Nat /\ \A e \in Listed : closedAt[e] \in Nat
  <2>1. Listed \subseteq Event
    BY DEF Typed, TypeOK, Listed, ToSet
  <2>2. kind[s] \in Kind /\ \A e \in Event : closedAt[e] \in Nat
    BY DEF Typed, TypeOK, None
  <2> QED
    BY <2>1, <2>2, ListingAssumption
<1> QED
  BY <1>1, EmptyFields DEF Covers, Kind, None, Undefined

\* A step leaves covered what was covered: a coverage fits when nothing that
\* is known or on its way gets lost, and what is sent or on its way makes no
\* more than the room for it.
LEMMA CoverKept ==
    ASSUME Typed, Typed', NEW s \in Sub, NEW ls \in Seen,
           NEW before \in SUBSET Event, NEW after \in SUBSET Event,
           CoverFits(s, ls, before), Covers(s, ls)' = Covers(s, ls),
           baseline'[s] = baseline[s],
           \A e \in Event : forgets'[s][e] >= forgets[s][e],
           Known(s) \cup before \subseteq Known(s)' \cup after,
           \A e \in Event : sent'[s][e] + Once(e, after) + Room(s, e)
                                <= sent[s][e] + Once(e, before) + Room(s, e)'
    PROVE  CoverFits(s, ls, after)'
<1>1. Covers(s, ls) \subseteq Known(s)' \cup after
  BY DEF CoverFits
<1>2. ASSUME NEW e \in Event \ Covers(s, ls)
      PROVE  sent'[s][e] + Once(e, after) <= Room(s, e)'
  <2>1. sent[s][e] + Once(e, before) <= Room(s, e)
    BY DEF CoverFits
  <2>2. /\ sent[s][e] \in Nat /\ Room(s, e) \in Nat
        /\ Once(e, before) \in Nat /\ Once(e, after) \in Nat
    BY RowTypes, OnceType
  <2>3. sent'[s][e] \in Nat /\ Room(s, e)' \in Nat
    <3>1. sent'[s] \in [Event -> Nat] /\ saveFailed'[s] \in Nat
              /\ forgets'[s] \in [Event -> Nat]
      <4>1. /\ sent' \in [Sub -> [Event -> Nat]] /\ saveFailed' \in [Sub -> Nat]
            /\ forgets' \in [Sub -> [Event -> Nat]]
        BY DEF Typed, TypeOK, WorkerTypeOK
      <4> QED
        BY <4>1
    <3> QED
      BY <3>1 DEF Room
  <2>4. sent'[s][e] + Once(e, after) + Room(s, e)
            <= sent[s][e] + Once(e, before) + Room(s, e)'
    OBVIOUS
  <2> QED
    BY <2>1, <2>2, <2>3, <2>4
<1>3. ASSUME ls.boot, NEW e \in baseline'[s], forgets'[s][e] = 0
      PROVE  e \in Covers(s, ls)
  <2>1. e \in baseline[s] /\ e \in Event /\ forgets[s][e] \in Nat /\ forgets'[s][e] \in Nat
    BY RowTypes DEF Typed
  <2>2. forgets[s][e] = 0
    BY <1>3, <2>1
  <2> QED
    BY <1>3, <2>1, <2>2 DEF CoverFits
<1> QED
  BY <1>1, <1>2, <1>3 DEF CoverFits

\* What a step does to other rows.
CoversSame(s) == \A ls \in Seen : ls.at <= now => Covers(s, ls)' = Covers(s, ls)

\* A row that nothing is done to.
LEMMA SameRowFits ==
    ASSUME Typed, Typed', NEW s \in Sub, RowFits(s),
           status'[s] = status[s], task'[s] = task[s], SameHistory(s),
           baseline'[s] = baseline[s], forgets'[s] = forgets[s], CoversSame(s)
    PROVE  RowFits(s)'
<1> USE DEF SameHistory
<1>1. RunFits(s)'
  BY DEF RowFits, RunFits, Quiet
<1>2. \A e \in Event : Room(s, e)' = Room(s, e)
  BY DEF Room
<1>3. ASSUME NEW e \in Event PROVE ItemFits(s, e)'
  BY <1>2 DEF RowFits, ItemFits
<1>4. ASSUME NEW ls \in Seen, NEW sending \in SUBSET Event,
             ls \in {lastSeen[s], task[s].new}, CoverFits(s, ls, sending)
      PROVE  CoverFits(s, ls, sending)'
  <2>1. ls.at <= now
    BY <1>4 DEF Typed, SeenFits
  <2>2. Covers(s, ls)' = Covers(s, ls)
    BY <2>1 DEF CoversSame
  <2> QED
    BY <1>2, <1>4, <2>2 DEF CoverFits, Known
<1>5. Sending(s)' = Sending(s) /\ (Quiet(s) => Quiet(s)')
  BY DEF Sending, Quiet
<1>6. CheckpointFits(s)'
  <2> SUFFICES ASSUME NEW ls \in Seen, NEW sending \in SUBSET Event
               PROVE  /\ ls = lastSeen[s] /\ sending = Sending(s) =>
                             CoverFits(s, ls, sending)' /\ (~ls.boot => Quiet(s)')
                      /\ task[s].pc = "save" /\ ls = task[s].new
                         /\ sending = task[s].pending =>
                             CoverFits(s, ls, sending)'
    BY <1>5 DEF CheckpointFits
  <2> QED
    BY <1>4, <1>5 DEF RowFits, CheckpointFits
<1> QED
  BY <1>1, <1>3, <1>6 DEF RowFits

\* Steps that leave the listing alone leave what is covered alone.
LEMMA UnlistedCovers ==
    ASSUME UNCHANGED <<kind, listing, closedAt>>, NEW s \in Sub
    PROVE  CoversSame(s) /\ \A ls \in Seen : Covers(s, ls)' = Covers(s, ls)
  BY DEF CoversSame, Covers, Listed

\* GitHub lists as closed, later, only what is closed after the last window.
LEMMA GithubCovers ==
    ASSUME Typed, GithubStep, NEW s \in Sub
    PROVE  CoversSame(s)
<1>1. kind' = kind
  BY GithubListing
<1>2. kind[s] \in Kind /\ \A r \in Sub : kind[r] = kind[s]
  BY DEF Typed, TypeOK
<1>3. CASE kind[s] # "closed"
  BY <1>1, <1>2, <1>3 DEF CoversSame, Covers, Kind
<1>4. CASE kind[s] = "closed"
  <2>1. ~Polled("names") /\ ~Polled("milestone")
    BY <1>2, <1>4 DEF Polled
  <2>2. ASSUME NEW e \in Event, Close(e)
        PROVE  CoversSame(s)
    <3>1. Listed' = Listed \cup {e} /\ e \notin Listed /\ e \in Event
      BY <2>2, PrependedListing DEF Typed, TypeOK, Close, Listed
    <3>2. /\ closedAt'[e] = clock /\ clock >= now /\ clock \in Nat /\ now \in Nat
          /\ \A x \in Event \ {e} : closedAt'[x] = closedAt[x]
      BY <2>2 DEF Typed, TypeOK, Close
    <3>3. ASSUME NEW ls \in Seen, ls.at <= now
          PROVE  Covers(s, ls)' = Covers(s, ls)
      <4>1. ls.at \in Nat /\ Listed \subseteq Event
        BY SeenFields DEF None, Typed, TypeOK, Listed, ToSet
      <4>2. ~(closedAt'[e] < ls.at)
        BY <3>2, <3>3, <4>1
      <4>3. {x \in Listed' \ Other : closedAt'[x] < ls.at}
                = {x \in Listed \ Other : closedAt[x] < ls.at}
        BY <3>1, <3>2, <4>1, <4>2
      <4> QED
        BY <1>1, <1>4, <4>3 DEF Covers
    <3> QED
      BY <3>3 DEF CoversSame
  <2>3. ASSUME NEW i \in DOMAIN listing, Update(i)
        PROVE  CoversSame(s)
    <3>1. Listed' = Listed /\ closedAt' = closedAt
      BY <2>3, UpdatedListing DEF Listed
    <3> QED
      BY <1>1, <3>1 DEF CoversSame, Covers
  <2> QED
    BY <2>1, <2>2, <2>3 DEF GithubStep, AddName, RemoveName, Stars
<1> QED
  BY <1>3, <1>4

\* So nothing GitHub does disturbs the invariant.
LEMMA GithubKeepsIInv ==
    ASSUME Typed, Typed', IInv, GithubStep
    PROVE  IInv'
<1>1. UNCHANGED <<workerVars, kind, clock, now, seed, baseline, forgets>>
  BY GithubListing
<1>2. ASSUME NEW s \in Sub PROVE RowFits(s)'
  BY <1>1, GithubCovers, SameRowFits DEF IInv, workerVars, SameHistory
<1> QED
  BY <1>2 DEF IInv

\* Of a step of one run, the other rows see nothing.
LEMMA OneRow ==
    ASSUME Typed, Typed', IInv, NEW s \in Sub, RowFits(s)',
           status' = status, UNCHANGED <<kind, listing, closedAt>>,
           \A r \in Sub \ {s} : /\ task'[r] = task[r] /\ SameHistory(r)
                                /\ baseline'[r] = baseline[r] /\ forgets'[r] = forgets[r]
    PROVE  IInv'
<1>1. ASSUME NEW r \in Sub \ {s} PROVE RowFits(r)'
  <2>1. RowFits(r) /\ CoversSame(r)
    BY UnlistedCovers DEF IInv
  <2> QED
    BY <2>1, SameRowFits
<1> QED
  BY <1>1 DEF IInv

\* A run that does not hold a new checkpoint afterwards: what has to be shown
\* of the stored one.
LEMMA RunKeepsRow ==
    ASSUME Typed, Typed', NEW s \in Sub, RowFits(s), NEW t, RunsTo(s, t),
           UNCHANGED otherVars,
           t.pc \in {"idle", "fetch", "send"}, t.pc = "idle" => t.pending = {},
           NEW before \in SUBSET Event, NEW ls \in Seen, CoverFits(s, ls, before),
           lastSeen'[s] = ls, ls.boot \/ (t.pending = {} /\ Quiet(s) /\ sent'[s] = sent[s]),
           task[s].pc # "idle",
           Known(s) \cup before \subseteq Known(s)' \cup t.pending,
           \A e \in Event :
               /\ sent'[s][e] + Once(e, t.pending) + Room(s, e)
                      <= sent[s][e] + Once(e, before) + Room(s, e)'
               /\ ItemFits(s, e)'
    PROVE  RowFits(s)'
<1> USE DEF otherVars, githubVars
<1>1. task'[s] = t /\ t.pending \in SUBSET Event /\ status' = status
  BY TaskFields DEF RunsTo
<1>2. Sending(s)' = t.pending
  BY <1>1 DEF Sending
<1>3. RunFits(s)'
  <2>1. status[s] # "removed" /\ status[s] # "absent"
    BY TaskFields DEF RowFits, RunFits
  <2> QED
    BY <1>1, <2>1 DEF RunFits
<1>4. CoverFits(s, ls, t.pending)'
  <2>1. \A e \in Event : forgets'[s][e] >= forgets[s][e]
    BY RowTypes
  <2> QED
    BY <1>1, <2>1, UnlistedCovers, CoverKept
<1>5. CheckpointFits(s)'
  <2> SUFFICES ASSUME NEW x \in Seen, NEW sending \in SUBSET Event,
                      x = lastSeen'[s], sending = Sending(s)'
               PROVE  CoverFits(s, x, sending)' /\ (~x.boot => Quiet(s)')
    BY <1>1 DEF CheckpointFits
  <2>1. x = ls /\ sending = t.pending
    BY <1>2
  <2> QED
    BY <1>4, <2>1 DEF Quiet
<1> QED
  BY <1>3, <1>5 DEF RowFits

\* What is known of a row at the start of a step, in the form the steps use.
LEMMA RowFacts ==
    ASSUME Typed, NEW s \in Sub, RowFits(s), NEW ls \in Seen, lastSeen[s] = ls
    PROVE  /\ CoverFits(s, ls, Sending(s)) /\ (~ls.boot => Quiet(s))
           /\ task[s].pc = "save" =>
                  CoverFits(s, task[s].new, task[s].pending) /\ task[s].new.boot
           /\ task[s].pending # {} => ls.boot
           /\ status[s] # "removed"
           /\ task[s].pc # "idle" => status[s] # "absent"
  BY RowTypes, TaskFields DEF RowFits, CheckpointFits, RunFits

\* A poll that fails has changed nothing.
LEMMA PollFailsKeepsIInv ==
    ASSUME Typed, Typed', IInv, NEW s \in Sub, PollFails(s), UNCHANGED otherVars
    PROVE  IInv'
<1> USE DEF otherVars, githubVars
<1>1. /\ task[s].pc = "poll" /\ RunsTo(s, NoTask) /\ SameHistory(s) /\ RowFits(s)
  BY PollFailsOutcome DEF Typed, TypeOK, IInv
<1>2. PICK ls \in Seen : lastSeen[s] = ls
  BY RowTypes
<1>3. CoverFits(s, ls, {}) /\ (~ls.boot => Quiet(s))
  BY <1>1, <1>2, RowFacts DEF Sending
<1>4. \A e \in Event : /\ Room(s, e)' = Room(s, e) /\ sent'[s][e] = sent[s][e]
                       /\ ItemFits(s, e)'
  BY <1>1, TaskFields DEF SameHistory, Room, RowFits, ItemFits, RunsTo
<1>5. Known(s)' = Known(s)
  BY <1>1 DEF Known, SameHistory
<1>6. \A e \in Event : sent'[s][e] + Once(e, {}) + Room(s, e)
          <= sent[s][e] + Once(e, {}) + Room(s, e)'
  BY <1>4, RowTypes, OnceType
<1>7. RowFits(s)'
  BY <1>1, <1>2, <1>3, <1>4, <1>5, <1>6, TaskFields, RunKeepsRow DEF SameHistory
<1> QED
  BY <1>1, <1>7, OneRow DEF RunsTo

\* The checkpoint is stored and the items are sent from now on; when the
\* update fails, the old one has room for them.
LEMMA SaveKeepsIInv ==
    ASSUME Typed, Typed', IInv, NEW s \in Sub, Save(s) \/ SaveFails(s), UNCHANGED otherVars
    PROVE  IInv'
<1> USE DEF otherVars, githubVars
<1> DEFINE P == task[s].pending
           n == task[s].new
<1>1. /\ task[s].pc = "save" /\ RunsTo(s, AfterSaveTask(s)) /\ RowFits(s)
      /\ sent'[s] = sent[s] /\ dropped'[s] = dropped[s]
      /\ \/ /\ saveFailed'[s] = saveFailed[s]
            /\ lastSeen'[s] = IF status[s] = "stored" THEN n ELSE lastSeen[s]
         \/ /\ saveFailed'[s] = saveFailed[s] + 1
            /\ lastSeen'[s] \in {lastSeen[s], n}
  BY SaveOutcome DEF Typed, TypeOK, IInv
<1>2. PICK old \in Seen : lastSeen[s] = old
  BY RowTypes
<1>3. /\ CoverFits(s, old, {}) /\ (~old.boot => Quiet(s))
      /\ CoverFits(s, n, P) /\ n.boot
      /\ P # {} => old.boot
      /\ status[s] # "removed" /\ status[s] # "absent"
  BY <1>1, <1>2, RowFacts DEF Sending
<1>4. status[s] = "stored"
  BY <1>3 DEF Typed, TypeOK, WorkerTypeOK
<1>5. PICK t : t = AfterSaveTask(s)
  OBVIOUS
<1>6. /\ t.pc \in {"idle", "fetch"} /\ t.pending = P /\ (t.pc = "idle" => P = {})
      /\ RunsTo(s, t)
  BY <1>1, <1>5, NextTasks, TaskFields DEF Typed, TypeOK
<1>7. Known(s)' = Known(s)
  BY <1>1 DEF Known
<1>8. P \in SUBSET Event /\ n \in Seen /\ saveFailed[s] \in Nat
      /\ \A e \in Event : sent[s][e] \in Nat /\ forgets[s][e] \in Nat
  BY RowTypes
<1>9. \A e \in Event : /\ sent'[s][e] = sent[s][e] /\ forgets'[s][e] = forgets[s][e]
                       /\ Room(s, e)' \in {Room(s, e), Room(s, e) + 1} /\ Room(s, e) \in Nat
                       /\ Room(s, e)' >= Room(s, e)
  BY <1>1, <1>8 DEF Room
<1>10. ASSUME NEW e \in Event PROVE ItemFits(s, e)'
  <2>1. ItemFits(s, e) /\ task'[s].pending = P /\ baseline'[s] = baseline[s]
    BY <1>1, <1>6 DEF RowFits, RunsTo
  <2> QED
    BY <1>8, <1>9, <2>1 DEF ItemFits
<1>11. CASE lastSeen'[s] = n
  <2>1. \A e \in Event : sent'[s][e] + Once(e, P) + Room(s, e)
            <= sent[s][e] + Once(e, P) + Room(s, e)'
    BY <1>8, <1>9, OnceType
  <2>2. RowFits(s)'
    BY <1>1, <1>3, <1>6, <1>7, <1>8, <1>10, <1>11, <2>1, RunKeepsRow
  <2> QED
    BY <1>6, <2>2, OneRow DEF RunsTo
<1>12. CASE lastSeen'[s] = old /\ saveFailed'[s] = saveFailed[s] + 1
  <2>1. \A e \in Event : Room(s, e)' = Room(s, e) + 1
    BY <1>8, <1>12 DEF Room
  <2>2. \A e \in Event : Once(e, P) \in {0, 1} /\ Once(e, {}) = 0
    BY OnceType DEF Once
  <2>3. \A e \in Event : sent'[s][e] + Once(e, P) + Room(s, e)
            <= sent[s][e] + Once(e, {}) + Room(s, e)'
    BY <1>8, <1>9, <2>1, <2>2
  <2>4. old.boot \/ (t.pending = {} /\ Quiet(s) /\ sent'[s] = sent[s])
    BY <1>1, <1>3, <1>6
  <2>5. /\ t.pc \in {"idle", "fetch", "send"} /\ (t.pc = "idle" => t.pending = {})
        /\ {} \in SUBSET Event /\ lastSeen'[s] = old /\ task[s].pc # "idle"
        /\ Known(s) \cup {} \subseteq Known(s)' \cup t.pending
    BY <1>1, <1>6, <1>7, <1>12
  <2>6. \A e \in Event : sent'[s][e] + Once(e, t.pending) + Room(s, e)
                             <= sent[s][e] + Once(e, {}) + Room(s, e)'
    BY <1>6, <2>3
  <2>7. RowFits(s)'
    BY <1>1, <1>3, <1>6, <1>10, <2>4, <2>5, <2>6, RunKeepsRow
  <2> QED
    BY <1>6, <2>7, OneRow DEF RunsTo
<1> QED
  BY <1>1, <1>2, <1>4, <1>11, <1>12

\* The connection is found.
LEMMA FetchKeepsIInv ==
    ASSUME Typed, Typed', IInv, NEW s \in Sub, FetchConnection(s), UNCHANGED otherVars
    PROVE  IInv'
<1> USE DEF otherVars, githubVars
<1>1. PICK t : t = [task[s] EXCEPT !.pc = "send"]
  OBVIOUS
<1>2. task[s].pc = "fetch" /\ RunsTo(s, t) /\ SameHistory(s) /\ RowFits(s)
  BY <1>1, FetchOutcome DEF Typed, TypeOK, IInv
<1>3. t.pc = "send" /\ t.pending = task[s].pending /\ Sending(s) = task[s].pending
  BY <1>1, <1>2, FetchTask DEF Typed, TypeOK, Sending
<1>4. PICK ls \in Seen : lastSeen[s] = ls
  BY RowTypes
<1>5. CoverFits(s, ls, t.pending) /\ (~ls.boot => Quiet(s)) /\ (t.pending # {} => ls.boot)
  BY <1>2, <1>3, <1>4, RowFacts
<1>6. \A e \in Event : /\ Room(s, e)' = Room(s, e) /\ sent'[s][e] = sent[s][e]
                       /\ ItemFits(s, e)'
  BY <1>2, <1>3 DEF SameHistory, Room, RowFits, ItemFits, RunsTo
<1>7. Known(s)' = Known(s)
  BY <1>2 DEF Known, SameHistory
<1>8. t.pending \in SUBSET Event
  BY <1>3, RowTypes
<1>9. \A e \in Event : sent'[s][e] + Once(e, t.pending) + Room(s, e)
                           <= sent[s][e] + Once(e, t.pending) + Room(s, e)'
  BY <1>6, RowTypes, OnceType
<1>10. RowFits(s)'
  BY <1>2, <1>3, <1>4, <1>5, <1>6, <1>7, <1>8, <1>9, RunKeepsRow DEF SameHistory
<1> QED
  BY <1>2, <1>10, OneRow DEF RunsTo

\* What is given up is known.
LEMMA MissingKeepsIInv ==
    ASSUME Typed, Typed', IInv, NEW s \in Sub, ConnectionMissing(s), UNCHANGED otherVars
    PROVE  IInv'
<1> USE DEF otherVars, githubVars
<1> DEFINE P == task[s].pending
<1>1. /\ task[s].pc = "fetch" /\ RunsTo(s, NoTask) /\ RowFits(s)
      /\ sent'[s] = sent[s] /\ saveFailed'[s] = saveFailed[s] /\ lastSeen'[s] = lastSeen[s]
      /\ dropped'[s] = dropped[s] \cup P
  BY MissingOutcome DEF Typed, TypeOK, IInv
<1>2. PICK ls \in Seen : lastSeen[s] = ls
  BY RowTypes
<1>3. CoverFits(s, ls, P) /\ (~ls.boot => Quiet(s)) /\ P \in SUBSET Event
  BY <1>1, <1>2, RowFacts, RowTypes DEF Sending
<1>4. \A e \in Event : /\ Room(s, e)' = Room(s, e) /\ sent'[s][e] = sent[s][e]
                       /\ ItemFits(s, e)'
  BY <1>1, TaskFields DEF Room, RowFits, ItemFits, RunsTo
<1>5. Known(s) \cup P \subseteq Known(s)'
  BY <1>1 DEF Known
<1>6. \A e \in Event : sent'[s][e] + Once(e, {}) + Room(s, e)
          <= sent[s][e] + Once(e, P) + Room(s, e)'
  <2>1. \A e \in Event : Once(e, P) \in {0, 1} /\ Once(e, {}) = 0
    BY OnceType DEF Once
  <2> QED
    BY <1>4, <2>1, RowTypes
<1>7. RowFits(s)'
  BY <1>1, <1>2, <1>3, <1>4, <1>5, <1>6, TaskFields, RunKeepsRow
<1> QED
  BY <1>1, <1>7, OneRow DEF RunsTo

\* An item that was on its way is sent, given up, or both.
LEMMA DispatchKeepsIInv ==
    ASSUME Typed, Typed', IInv, NEW s \in Sub, NEW e \in Event,
           Dispatch(s, e) \/ DispatchFails(s, e), UNCHANGED otherVars
    PROVE  IInv'
<1> USE DEF otherVars, githubVars
<1> DEFINE P == task[s].pending
<1>1. /\ task[s].pc = "send" /\ e \in P /\ RunsTo(s, RestTask(s, e)) /\ RowFits(s)
      /\ lastSeen'[s] = lastSeen[s] /\ saveFailed'[s] = saveFailed[s]
      /\ \A x \in Event \ {e} : sent'[s][x] = sent[s][x]
      /\ dropped[s] \subseteq dropped'[s]
      /\ \/ sent'[s][e] = sent[s][e] + 1
         \/ sent'[s][e] = sent[s][e] /\ e \in dropped'[s]
  BY DispatchOutcome DEF Typed, TypeOK, IInv
<1>2. PICK t : t = RestTask(s, e)
  OBVIOUS
<1>3. /\ t.pc \in {"idle", "send"} /\ t.pending = P \ {e}
      /\ t.pc = "idle" => t.pending = {}
      /\ RunsTo(s, t)
  <2>1. WorkerTypeOK
    BY DEF Typed, TypeOK
  <2>2. CASE P \ {e} = {}
    <3>1. t = NoTask
      BY <1>2, <2>1, <2>2, NextTasks
    <3> QED
      BY <1>1, <1>2, <2>2, <3>1, TaskFields
  <2>3. CASE P \ {e} # {}
    <3>1. t.pc = task[s].pc /\ t.pending = P \ {e}
      BY <1>2, <2>1, <2>3, NextTasks
    <3> QED
      BY <1>1, <1>2, <2>3, <3>1
  <2> QED
    BY <2>2, <2>3
<1>4. PICK ls \in Seen : lastSeen[s] = ls
  BY RowTypes
<1>5. CoverFits(s, ls, P) /\ ls.boot /\ P \in SUBSET Event
  BY <1>1, <1>4, RowFacts, RowTypes DEF Sending
<1>6. \A x \in Event : /\ Room(s, x)' = Room(s, x) /\ forgets'[s][x] = forgets[s][x]
                       /\ sent[s][x] \in Nat /\ Room(s, x) \in Nat
  BY <1>1, RowTypes DEF Room
<1>7. Known(s) \cup P \subseteq Known(s)' \cup t.pending
  <2> SUFFICES ASSUME NEW x \in Known(s) \cup P, x \notin P \ {e}
               PROVE  x \in Known(s)'
    BY <1>3
  <2>1. CASE x = e
    BY <1>1, <1>6, <2>1 DEF Known
  <2>2. CASE x \in Known(s) /\ x # e
    BY <1>1, <2>2 DEF Known
  <2> QED
    BY <2>1, <2>2
<1>8. \A x \in Event : sent'[s][x] + Once(x, t.pending) + Room(s, x)
          <= sent[s][x] + Once(x, P) + Room(s, x)'
  <2> SUFFICES ASSUME NEW x \in Event
               PROVE  sent'[s][x] + Once(x, t.pending) + Room(s, x)
                          <= sent[s][x] + Once(x, P) + Room(s, x)'
    OBVIOUS
  <2>1. CASE x = e
    BY <1>1, <1>3, <1>6, <2>1 DEF Once
  <2>2. CASE x # e
    BY <1>1, <1>3, <1>6, <2>2 DEF Once
  <2> QED
    BY <2>1, <2>2
<1>9. ASSUME NEW x \in Event PROVE ItemFits(s, x)'
  <2>1. /\ ItemFits(s, x) /\ ItemFits(s, e) /\ task'[s].pending = P \ {e}
        /\ baseline'[s] = baseline[s]
    BY <1>1, <1>3 DEF RowFits, RunsTo
  <2>2. CASE x = e
    BY <1>1, <1>6, <2>1, <2>2 DEF ItemFits
  <2>3. CASE x # e
    BY <1>1, <1>6, <2>1, <2>3 DEF ItemFits
  <2> QED
    BY <2>2, <2>3
<1>10. RowFits(s)'
  BY <1>1, <1>3, <1>4, <1>5, <1>7, <1>8, <1>9, RunKeepsRow
<1> QED
  BY <1>3, <1>10, OneRow DEF RunsTo

\* Every step of a run after its poll.
LEMMA RowStepKeepsIInv ==
    ASSUME Typed, Typed', IInv, NEW s \in Sub, RowStep(s)
    PROVE  IInv'
  BY PollFailsKeepsIInv, SaveKeepsIInv, FetchKeepsIInv, MissingKeepsIInv, DispatchKeepsIInv
     DEF RowStep

\* A poll: what the next checkpoint covers beyond the old one is reported or
\* passed over, and what it lets go of is counted.
LEMMA PollKeepsIInv ==
    ASSUME Typed, Typed', IInv, NEW s \in Sub, PollListing(s)
    PROVE  IInv'
<1>1. PICK ls \in Seen, next \in Seen, events \in SUBSET Event :
          PollEffect(s, ls, next, events)
  BY PollListingEffect
<1> DEFINE old == Covers(s, ls)
           new == Covers(s, next)
           P == IF ls.boot THEN events ELSE {}
<1>2. /\ task[s].pc = "poll" /\ task[s].snap = ls /\ RowFits(s) /\ lastSeen[s] = ls
      /\ task[s].pending = {} /\ status[s] # "removed" /\ status[s] # "absent"
  BY <1>1, TaskFields DEF PollEffect, IInv, RowFits, RunFits
<1>3. /\ CoverFits(s, ls, {}) /\ (~ls.boot => Quiet(s))
  BY <1>2, RowFacts DEF Sending
<1>4. /\ status' = status /\ task'[s].pc = "save" /\ task'[s].snap = ls
      /\ task'[s].new = next
      /\ task'[s].pending = P
      /\ sent'[s] = sent[s] /\ saveFailed'[s] = saveFailed[s] /\ lastSeen'[s] = ls
      /\ dropped'[s] = dropped[s] \cup PassedOver(s)
      /\ baseline'[s] = IF ls.boot THEN baseline[s] ELSE new
      /\ \A e \in Event :
             forgets'[s][e] = IF e \in (old \cup events) \ new
                              THEN forgets[s][e] + 1 ELSE forgets[s][e]
      /\ UNCHANGED <<kind, listing, closedAt>>
  BY <1>1, <1>2 DEF PollEffect, githubVars
<1>5. /\ next.boot
      /\ ls.boot => events \cap old = {} /\ new \subseteq old \cup events \cup PassedOver(s)
  BY <1>1 DEF PollEffect, Outcome
<1>6. /\ old \in SUBSET Event /\ new \in SUBSET Event /\ baseline[s] \in SUBSET Event
      /\ saveFailed[s] \in Nat
      /\ \A e \in Event : sent[s][e] \in Nat /\ forgets[s][e] \in Nat /\ Room(s, e) \in Nat
  BY CoversItems, RowTypes
<1>7. \A x \in Seen : Covers(s, x)' = Covers(s, x)
  BY <1>4, UnlistedCovers
<1>8. ~ls.boot => ls = EmptyListing /\ old = {}
  <2>1. SeenFits(s, ls)
    BY <1>2 DEF Typed
  <2> QED
    BY <2>1, EmptyCovers DEF SeenFits
<1>9. ASSUME NEW e \in Event
      PROVE  /\ Room(s, e)' = IF e \in (old \cup events) \ new
                               THEN Room(s, e) + 1 ELSE Room(s, e)
             /\ Room(s, e)' \in Nat /\ Room(s, e)' >= Room(s, e)
             /\ forgets'[s][e] = 0
                    <=> forgets[s][e] = 0 /\ e \notin (old \cup events) \ new
  BY <1>4, <1>6 DEF Room
<1>10. /\ \A e \in Event \ old : sent[s][e] <= Room(s, e)
       /\ \A e \in Event : sent[s][e] <= 1 + Room(s, e)
       /\ ls.boot => \A e \in baseline[s] : forgets[s][e] = 0 => e \in old /\ sent[s][e] = 0
       /\ old \subseteq Known(s)
  <2>1. ASSUME NEW e \in Event \ old PROVE sent[s][e] <= Room(s, e)
    <3>1. sent[s][e] + Once(e, {}) <= Room(s, e) /\ Once(e, {}) = 0
      BY <1>3 DEF CoverFits, Once
    <3> QED
      BY <1>6, <3>1
  <2>2. \A e \in Event : ItemFits(s, e)
    BY <1>2 DEF RowFits
  <2> QED
    BY <1>3, <1>6, <2>1, <2>2 DEF CoverFits, ItemFits
<1> HIDE DEF old, new, P
<1>11. RunFits(s)'
  BY <1>2, <1>4, <1>5 DEF RunFits, P
<1>12. CoverFits(s, ls, {})'
  <2>1. Covers(s, ls)' \subseteq Known(s)'
    BY <1>4, <1>7, <1>8, <1>10 DEF Known, old
  <2>2. ASSUME NEW e \in Event \ old PROVE sent'[s][e] + Once(e, {}) <= Room(s, e)'
    <3>1. Once(e, {}) = 0 /\ sent'[s][e] = sent[s][e]
      BY <1>4 DEF Once
    <3> QED
      BY <1>6, <1>9, <1>10, <2>2, <3>1
  <2>3. ASSUME ls.boot, NEW e \in baseline'[s], forgets'[s][e] = 0 PROVE e \in old
    BY <1>4, <1>6, <1>9, <1>10, <2>3
  <2> QED
    BY <1>7, <2>1, <2>2, <2>3 DEF CoverFits, old
<1>13. CoverFits(s, next, P)'
  <2>1. Covers(s, next)' \subseteq Known(s)' \cup P
    <3>1. CASE ls.boot
      BY <1>4, <1>5, <1>7, <1>10, <3>1 DEF Known, new, P
    <3>2. CASE ~ls.boot
      BY <1>4, <1>7, <3>2 DEF Known, new
    <3> QED
      BY <3>1, <3>2
  <2>2. ASSUME NEW e \in Event \ new PROVE sent'[s][e] + Once(e, P) <= Room(s, e)'
    <3>1. CASE ls.boot /\ e \in old
      <4>1. e \notin P /\ Room(s, e)' = Room(s, e) + 1
        BY <1>5, <1>9, <2>2, <3>1 DEF P
      <4> QED
        BY <1>4, <1>6, <1>10, <4>1 DEF Once
    <3>2. CASE ls.boot /\ e \notin old /\ e \in events
      <4>1. Room(s, e)' = Room(s, e) + 1 /\ Once(e, P) \in {0, 1}
        BY <1>9, <2>2, <3>2, OnceType
      <4> QED
        BY <1>4, <1>6, <1>10, <3>2, <4>1
    <3>3. CASE ls.boot /\ e \notin old /\ e \notin events
      <4>1. Once(e, P) = 0
        BY <3>3 DEF Once, P
      <4> QED
        BY <1>4, <1>6, <1>9, <1>10, <3>3, <4>1
    <3>4. CASE ~ls.boot
      <4>1. sent[s][e] = 0 /\ Once(e, P) = 0
        BY <1>3, <3>4 DEF Once, P, Quiet
      <4> QED
        BY <1>4, <1>9, <4>1
    <3> QED
      BY <3>1, <3>2, <3>3, <3>4
  <2>3. ASSUME NEW e \in baseline'[s], forgets'[s][e] = 0 PROVE e \in new
    <3>1. CASE ls.boot
      BY <1>4, <1>6, <1>9, <1>10, <2>3, <3>1
    <3>2. CASE ~ls.boot
      BY <1>4, <2>3, <3>2
    <3> QED
      BY <3>1, <3>2
  <2> QED
    BY <1>7, <2>1, <2>2, <2>3 DEF CoverFits, new
<1>14. CheckpointFits(s)'
  <2> SUFFICES ASSUME NEW x \in Seen, NEW sending \in SUBSET Event
               PROVE  /\ x = lastSeen'[s] /\ sending = Sending(s)' =>
                             CoverFits(s, x, sending)' /\ (~x.boot => Quiet(s)')
                      /\ x = task'[s].new /\ sending = task'[s].pending =>
                             CoverFits(s, x, sending)'
    BY DEF CheckpointFits
  <2>1. Sending(s)' = {} /\ (Quiet(s) => Quiet(s)')
    BY <1>4 DEF Sending, Quiet
  <2> QED
    BY <1>3, <1>4, <1>12, <1>13, <2>1
<1>15. ASSUME NEW e \in Event PROVE ItemFits(s, e)'
  <2>1. sent'[s][e] <= 1 + Room(s, e)'
    BY <1>4, <1>6, <1>9, <1>10
  <2>2. ASSUME e \in P PROVE sent'[s][e] <= Room(s, e)'
    <3>1. e \notin old
      BY <1>5, <2>2 DEF P
    <3> QED
      BY <1>4, <1>6, <1>9, <1>10, <3>1
  <2>3. ASSUME e \in baseline'[s], forgets'[s][e] = 0 PROVE sent'[s][e] = 0 /\ e \notin P
    <3>1. CASE ls.boot
      <4>1. forgets[s][e] = 0 /\ e \in baseline[s] /\ e \in old /\ sent[s][e] = 0
        BY <1>4, <1>9, <1>10, <2>3, <3>1
      <4> QED
        BY <1>4, <1>5, <3>1, <4>1 DEF P
    <3>2. CASE ~ls.boot
      BY <1>3, <1>4, <3>2 DEF P, Quiet
    <3> QED
      BY <3>1, <3>2
  <2> QED
    BY <1>4, <2>1, <2>2, <2>3 DEF ItemFits
<1>16. RowFits(s)'
  BY <1>11, <1>14, <1>15 DEF RowFits
<1>17. \A r \in Sub \ {s} : /\ task'[r] = task[r] /\ SameHistory(r)
                            /\ baseline'[r] = baseline[r] /\ forgets'[r] = forgets[r]
  BY <1>1 DEF PollEffect
<1> QED
  BY <1>4, <1>16, <1>17, OneRow

\* A new row covers what its creation has read, and nothing was sent for it.
LEMMA CreateKeepsIInv ==
    ASSUME Typed, Typed', IInv, NEW s \in Sub, Create(s)
    PROVE  IInv'
<1>1. PICK ls : ls = Initial(s)
  OBVIOUS
<1>2. ls \in Seen
  BY <1>1, InitialFields
<1>3. /\ status[s] = "absent" /\ status' = [status EXCEPT ![s] = "stored"]
      /\ lastSeen' = [lastSeen EXCEPT ![s] = ls]
      /\ baseline' = [baseline EXCEPT ![s] = Covers(s, ls)]
      /\ UNCHANGED <<task, historyVars, kind, githubVars, forgets>>
  BY <1>1 DEF Create, CreateSubscription
<1>4. task[s] = NoTask /\ Quiet(s) /\ RowFits(s)
  BY <1>3 DEF IInv, RowFits, RunFits
<1>5. /\ status'[s] = "stored" /\ lastSeen'[s] = ls /\ baseline'[s] = Covers(s, ls)
      /\ \A r \in Sub \ {s} : /\ status'[r] = status[r] /\ lastSeen'[r] = lastSeen[r]
                              /\ baseline'[r] = baseline[r]
  BY <1>3 DEF Typed, TypeOK, WorkerTypeOK
<1>6. UNCHANGED <<kind, listing, closedAt, task, sent, dropped, saveFailed, forgets>>
  BY <1>3 DEF historyVars, githubVars
<1>7. Covers(s, ls)' = Covers(s, ls)
  BY <1>2, <1>6, UnlistedCovers
<1>8. \A e \in Event : sent'[s][e] = 0 /\ Room(s, e)' \in Nat
  BY <1>4, <1>6, RowTypes DEF Quiet, Room
<1>9. RunFits(s)'
  BY <1>4, <1>5, <1>6, TaskFields DEF RunFits
<1>10. CoverFits(s, ls, {})'
  <2>1. \A e \in Event : sent'[s][e] + Once(e, {}) <= Room(s, e)'
    BY <1>8 DEF Once
  <2> QED
    BY <1>5, <1>7, <2>1 DEF CoverFits, Known
<1>11. CheckpointFits(s)'
  <2> SUFFICES ASSUME NEW x \in Seen, NEW sending \in SUBSET Event,
                      x = lastSeen'[s], sending = Sending(s)'
               PROVE  CoverFits(s, x, sending)' /\ (~x.boot => Quiet(s)')
    BY <1>4, <1>6, TaskFields DEF CheckpointFits
  <2>1. sending = {} /\ Quiet(s)'
    BY <1>4, <1>6, <1>8, TaskFields DEF Sending, Quiet
  <2> QED
    BY <1>5, <1>10, <2>1
<1>12. \A e \in Event : ItemFits(s, e)'
  BY <1>4, <1>6, <1>8, TaskFields DEF ItemFits
<1>13. RowFits(s)'
  BY <1>9, <1>11, <1>12 DEF RowFits
<1>14. ASSUME NEW r \in Sub \ {s} PROVE RowFits(r)'
  <2>1. RowFits(r) /\ CoversSame(r)
    BY <1>6, UnlistedCovers DEF IInv
  <2> QED
    BY <1>5, <1>6, <2>1, SameRowFits DEF SameHistory
<1> QED
  BY <1>13, <1>14 DEF IInv

\* A run that has not polled holds nothing: starting it, and ending it, keeps
\* what holds of the checkpoint.
LEMMA StartKeepsRow ==
    ASSUME Typed, Typed', NEW s \in Sub, RowFits(s), status'[s] = status[s],
           UNCHANGED <<kind, listing, closedAt, baseline, forgets>>,
           sent'[s] = sent[s], saveFailed'[s] = saveFailed[s], lastSeen'[s] = lastSeen[s],
           dropped'[s] = dropped[s] \cup Sending(s),
           task'[s].pending = {},
           \/ task'[s] = NoTask
           \/ task'[s].pc = "poll" /\ task'[s].snap = lastSeen[s] /\ status[s] = "stored"
    PROVE  RowFits(s)'
<1>1. PICK ls \in Seen : lastSeen[s] = ls
  BY RowTypes
<1>2. /\ CoverFits(s, ls, Sending(s)) /\ (~ls.boot => Quiet(s))
             /\ Sending(s) \in SUBSET Event
  BY <1>1, RowFacts, RowTypes
<1>3. task'[s].pc \in {"idle", "poll"}
  BY TaskFields
<1>4. RunFits(s)'
  BY TaskFields, <1>3 DEF RowFits, RunFits, Quiet
<1>5. \A e \in Event : Room(s, e)' = Room(s, e) /\ forgets'[s][e] >= forgets[s][e]
  BY RowTypes DEF Room
<1>6. ASSUME NEW e \in Event PROVE ItemFits(s, e)'
  BY <1>5 DEF RowFits, ItemFits
<1>7. CoverFits(s, ls, {})'
  <2>1. PICK before \in SUBSET Event : before = Sending(s)
    BY <1>2
  <2>2. Known(s) \cup before \subseteq Known(s)' \cup {}
    BY <2>1 DEF Known
  <2>3. \A e \in Event : sent'[s][e] + Once(e, {}) + Room(s, e)
                             <= sent[s][e] + Once(e, before) + Room(s, e)'
    <3>1. \A e \in Event : Once(e, before) \in {0, 1} /\ Once(e, {}) = 0
      BY OnceType DEF Once
    <3> QED
      BY <1>5, <3>1, RowTypes
  <2>4. CoverFits(s, ls, before) /\ Covers(s, ls)' = Covers(s, ls)
            /\ baseline'[s] = baseline[s]
    BY <1>2, <2>1, UnlistedCovers
  <2> QED
    BY <1>5, <2>2, <2>3, <2>4, CoverKept
<1>8. CheckpointFits(s)'
  <2> SUFFICES ASSUME NEW x \in Seen, NEW sending \in SUBSET Event,
                      x = lastSeen'[s], sending = Sending(s)'
               PROVE  CoverFits(s, x, sending)' /\ (~x.boot => Quiet(s)')
    BY <1>3 DEF CheckpointFits
  <2>1. sending = {} /\ x = ls
    BY <1>1, <1>3 DEF Sending
  <2> QED
    BY <1>2, <1>7, <2>1 DEF Quiet
<1> QED
  BY <1>4, <1>6, <1>8 DEF RowFits

\* A tick starts from the stored checkpoints.
LEMMA TickKeepsIInv ==
    ASSUME Typed, Typed', IInv, TickListing
    PROVE  IInv'
<1>1. /\ UNCHANGED <<status, lastSeen, sent, dropped, saveFailed>>
      /\ \A r \in Sub :
             \/ task'[r] = task[r] /\ task[r].pc = "idle"
             \/ /\ task'[r].pc = "poll" /\ task'[r].snap = lastSeen[r]
                /\ task'[r].pending = {} /\ status[r] = "stored"
  BY TickOutcome DEF Typed, TypeOK, TickListing
<1>2. UNCHANGED <<kind, listing, closedAt, baseline, forgets>>
  BY DEF TickListing, githubVars
<1>3. ASSUME NEW s \in Sub PROVE RowFits(s)'
  <2>1. RowFits(s) /\ CoversSame(s)
    BY <1>2, UnlistedCovers DEF IInv
  <2>2. CASE task'[s] = task[s]
    BY <1>1, <1>2, <2>1, <2>2, SameRowFits DEF SameHistory
  <2>3. CASE /\ task'[s].pc = "poll" /\ task'[s].snap = lastSeen[s]
             /\ task'[s].pending = {} /\ status[s] = "stored" /\ task'[s] # task[s]
    <3>1. task[s].pc = "idle"
      BY DEF TickListing, TickStart, NoTickRunning
    <3>2. dropped'[s] = dropped[s] \cup Sending(s)
      BY <1>1, <3>1 DEF Sending
    <3> QED
      BY <1>1, <1>2, <2>1, <2>3, <3>2, StartKeepsRow
  <2> QED
    BY <1>1, <2>2, <2>3
<1> QED
  BY <1>3 DEF IInv

\* A crash gives up what was about to be sent.
LEMMA CrashKeepsIInv ==
    ASSUME Typed, Typed', IInv, Crash, UNCHANGED otherVars
    PROVE  IInv'
<1>1. UNCHANGED <<status, lastSeen, sent, saveFailed, kind, listing, closedAt, baseline,
                  forgets>>
  BY DEF Crash, rowVars, otherVars, githubVars
<1>2. ASSUME NEW s \in Sub PROVE RowFits(s)'
  <2>1. task'[s] = NoTask /\ dropped'[s] = dropped[s] \cup Sending(s)
    BY DEF Crash, Sending
  <2> QED
    BY <1>1, <2>1, TaskFields, StartKeepsRow DEF IInv
<1> QED
  BY <1>2 DEF IInv

\* The steps that touch none of what the invariant relates.
LEMMA OtherKeepsIInv ==
    ASSUME Typed, Typed', IInv,
           UNCHANGED <<status, lastSeen, task, sent, dropped, saveFailed,
                       kind, listing, closedAt, baseline, forgets>>
    PROVE  IInv'
<1>1. ASSUME NEW s \in Sub PROVE RowFits(s)'
  <2>1. RowFits(s) /\ CoversSame(s)
    BY UnlistedCovers DEF IInv
  <2> QED
    BY <2>1, SameRowFits DEF SameHistory
<1> QED
  BY <1>1 DEF IInv

\* The invariant is inductive, given the types.
LEMMA IInvInductive == Typed /\ IInv /\ [Next]_vars => IInv'
<1> SUFFICES ASSUME Typed, IInv, [Next]_vars PROVE IInv'
  OBVIOUS
<1> USE DEF otherVars, githubVars, workerVars, historyVars, rowVars
<1>1. Typed'
  BY TypedInductive
<1>2. CASE UNCHANGED vars
  BY <1>1, <1>2, OtherKeepsIInv DEF vars
<1>3. CASE GithubStep
  BY <1>1, <1>3, GithubKeepsIInv
<1>4. ASSUME NEW s \in Sub, ReadCount(s) PROVE IInv'
  BY <1>1, <1>4, OtherKeepsIInv DEF ReadCount
<1>5. ASSUME NEW s \in Sub, Create(s) PROVE IInv'
  BY <1>1, <1>5, CreateKeepsIInv
<1>6. ASSUME NEW c \in Conn, SoftDeleteConnection(c) \/ RestoreConnection(c),
             UNCHANGED otherVars
      PROVE  IInv'
  BY <1>1, <1>6, OtherKeepsIInv DEF SoftDeleteConnection, RestoreConnection
<1>7. CASE TickLoadFails /\ UNCHANGED otherVars
  BY <1>1, <1>7, OtherKeepsIInv DEF TickLoadFails
<1>8. CASE Crash /\ UNCHANGED otherVars
  BY <1>1, <1>8, CrashKeepsIInv
<1>9. CASE TickListing
  BY <1>1, <1>9, TickKeepsIInv
<1>10. CASE Advance
  BY <1>1, <1>10, OtherKeepsIInv DEF Advance
<1>11. ASSUME NEW s \in Sub, ProcessSubscription(s) PROVE IInv'
  BY <1>1, <1>11, PollKeepsIInv, RowStepKeepsIInv DEF ProcessSubscription
<1> QED
  BY <1>2, <1>3, <1>4, <1>5, <1>6, <1>7, <1>8, <1>9, <1>10, <1>11 DEF Next

\* Nothing is covered, known or sent at first.
LEMMA InitIInv == Init => IInv
<1> SUFFICES ASSUME Init, NEW s \in Sub PROVE RowFits(s)
  BY DEF IInv
<1>1. Typed
  BY InitTyped
<1>2. /\ status[s] = "absent" /\ lastSeen[s] = EmptySeen /\ task[s] = NoTask /\ Quiet(s)
      /\ baseline[s] = {} /\ \A e \in Event : sent[s][e] = 0
  BY DEF Init, WorkerInit, Quiet
<1>3. \A e \in Event : Room(s, e) \in Nat
  BY <1>1, RowTypes
<1>4. RunFits(s)
  BY <1>2, TaskFields DEF RunFits
<1>5. Covers(s, EmptySeen) = {}
  BY <1>1, EmptyCovers, EmptyFields
<1>6. CoverFits(s, EmptySeen, {})
  BY <1>2, <1>3, <1>5, EmptyFields DEF CoverFits, Once
<1>7. CheckpointFits(s)
  BY <1>2, <1>6, TaskFields DEF CheckpointFits, Sending
<1>8. \A e \in Event : ItemFits(s, e)
  BY <1>2, <1>3, TaskFields DEF ItemFits
<1> QED
  BY <1>4, <1>7, <1>8 DEF RowFits

\* The types and the invariant hold throughout.
THEOREM ListingInvariant == Spec => [](Typed /\ IInv)
  BY InitTyped, InitIInv, TypedInductive, IInvInductive, PTL DEF Spec

------------------------------------------------------------------------------
(* What follows from it.                                                   *)

\* A checkpoint never covers an item nobody was told about.
THEOREM ListingAccountsForAll == Spec => []ListingAccounts
<1>1. Typed /\ IInv => ListingAccounts
  <2> SUFFICES ASSUME Typed, IInv, NEW s \in Sub
               PROVE  Covers(s, lastSeen[s]) \subseteq
                          baseline[s] \cup {e \in Event : sent[s][e] > 0}
                              \cup task[s].pending
                              \cup dropped[s]
    BY DEF ListingAccounts
  <2>1. PICK ls \in Seen : lastSeen[s] = ls
    BY RowTypes
  <2>2. CoverFits(s, ls, Sending(s))
    BY <2>1, RowFacts DEF IInv
  <2>3. Sending(s) \subseteq task[s].pending
    BY DEF Sending
  <2> QED
    BY <2>1, <2>2, <2>3 DEF CoverFits, Known
<1> QED
  BY <1>1, ListingInvariant, PTL

\* An item is sent again only when the checkpoint let go of it or was not
\* stored.
THEOREM RepeatsOnlyForgotten == Spec => []RepeatsForgotten
<1>1. Typed /\ IInv => RepeatsForgotten
  <2> SUFFICES ASSUME Typed, IInv, NEW s \in Sub, NEW e \in Event
               PROVE  sent[s][e] <= 1 + saveFailed[s] + forgets[s][e]
    BY DEF RepeatsForgotten
  <2>1. sent[s][e] <= 1 + Room(s, e)
    BY DEF IInv, RowFits, ItemFits
  <2> QED
    BY <2>1, RowTypes DEF Room
<1> QED
  BY <1>1, ListingInvariant, PTL

\* What was there when a subscription began is not notified.
THEOREM ListingBaselineIsSilent == Spec => []ListingBaselineSilent
<1>1. Typed /\ IInv => ListingBaselineSilent
  <2> SUFFICES ASSUME Typed, IInv, NEW s \in Sub, NEW e \in baseline[s], forgets[s][e] = 0
               PROVE  sent[s][e] = 0
    BY DEF ListingBaselineSilent
  <2>1. e \in Event /\ ItemFits(s, e)
    BY RowTypes DEF IInv, RowFits
  <2> QED
    BY <2>1 DEF ItemFits
<1> QED
  BY <1>1, ListingInvariant, PTL
==============================================================================
