-------------------------------- MODULE Reports --------------------------------
(***************************************************************************)
(* Periodic reports (src/modules/report, src/workers/report.worker.ts):    *)
(* every hour a BullMQ tick looks for the configurations that are due, and *)
(* GenerateReportService sends the report of each; a user may ask for the  *)
(* same report at any moment.  Each await of generateForConfig is a step:  *)
(*                                                                         *)
(*    "config" --> "connection" --> "fetch" --> "send" --> "store"         *)
(*                                                                         *)
(* Time passes in hours.  What happens within an hour has no order on the  *)
(* clock: a report sent exactly Period hours ago may have been sent a      *)
(* little earlier or a little later in its hour than this tick.            *)
(***************************************************************************)
EXTENDS Naturals, FiniteSets

CONSTANTS
    Config,     \* ids of report_configurations rows
    Conn,       \* ids of connections rows
    Stored,     \* the configurations there are at first
    Manual,     \* generations asked for by requests
    Rows,       \* what the rows may hold, for all configurations together
    DayHours, WeekDays, MonthDays,  \* the calendar
    Cap,        \* hours are counted up to this number
    MaxEvents   \* bound on requests that change something, and failures

Period(f) ==
    DayHours * (CASE f = "daily"   -> 1
                  [] f = "weekly"  -> WeekDays
                  [] f = "monthly" -> MonthDays)

Row == [connection : Conn, frequency : {"daily", "weekly", "monthly"},
        schedule_day : 0 .. WeekDays - 1]

ASSUME ReportAssumption ==
    /\ {DayHours, WeekDays, MonthDays} \subseteq Nat \ {0}
    /\ Stored \subseteq Config
    /\ Rows \subseteq [Config -> Row]
    /\ Cap \in Nat /\ 2 * Period("weekly") < Cap /\ Period("monthly") + 1 < Cap
    /\ MaxEvents \in Nat
    /\ Config \cap Manual = {}

\* A generation of the tick is named after its configuration.
Generation == Config \cup Manual

Never == Cap + 1

VARIABLES
    conn,       \* the row of a connection: live or deleted (soft)
    status,     \* of a configuration: new, stored, removed
    row,        \* its connection, frequency and day
    lastSent,   \* last_sent_at, in hours from now
    gen,        \* the runs of generateForConfig
    hour,       \* of the week
    ticked,     \* the tick of this hour has fired
    events,
    since,      \* history: hours since a report of a configuration was sent
    unstored,   \* history: the last report sent is not in last_sent_at
    overlapped, \* history: a request generates the report during this tick
    waiting     \* history: hours the worker could have sent a report

dataVars == <<conn, status, row, lastSent>>
historyVars == <<since, unstored, overlapped, waiting>>
reportVars == <<dataVars, gen, hour, ticked, events, historyVars>>

Idle == [at |-> "idle", config |-> "none", answer |-> "none"]

Running(g) == gen[g].at \in {"config", "connection", "fetch", "send", "store"}

WorkerIdle == \A c \in Config : gen[c].at = "idle"

ReportTypeOK ==
    /\ conn \in [Conn -> {"live", "deleted"}]
    /\ status \in [Config -> {"new", "stored", "removed"}]
    /\ row \in Rows
    /\ {lastSent, since} \subseteq [Config -> 0 .. Never]
    /\ \A g \in Generation :
           /\ gen[g].at \in {"idle", "config", "connection", "fetch", "send", "store", "done"}
           /\ gen[g].at # "idle" => gen[g].config \in Config
           /\ g \in Config /\ gen[g].at # "idle" => gen[g].config = g
           /\ gen[g].at # "done" => gen[g].answer = "none"
    /\ hour \in 0 .. DayHours * WeekDays - 1
    /\ ticked \in BOOLEAN
    /\ events \in 0 .. MaxEvents
    /\ {unstored, overlapped} \subseteq SUBSET Config
    /\ waiting \in [Config -> 0 .. Cap]

\* The configurations that are there have never been sent.
ReportInit ==
    /\ conn = [n \in Conn |-> "live"]
    /\ status = [c \in Config |-> IF c \in Stored THEN "stored" ELSE "new"]
    /\ row \in Rows
    /\ lastSent = [c \in Config |-> Never]
    /\ gen = [g \in Generation |-> Idle]
    /\ hour = 0
    /\ ticked = FALSE
    /\ events = 0
    /\ since = [c \in Config |-> Never]
    /\ unstored = {}
    /\ overlapped = {}
    /\ waiting = [c \in Config |-> 0]

Event == events < MaxEvents /\ events' = events + 1

------------------------------------------------------------------------------
(* The clock and the tick.                                                 *)

Older(h) == IF h < Cap THEN h + 1 ELSE h

Aged(hours) == [c \in Config |-> IF status[c] = "stored" THEN Older(hours[c]) ELSE Never]

\* Bound: a generation ends in the hour it started in.
Hour ==
    /\ ticked
    /\ \A g \in Generation : ~Running(g)
    /\ hour' = (hour + 1) % (DayHours * WeekDays)
    /\ ticked' = FALSE
    /\ lastSent' = Aged(lastSent)
    /\ since' = Aged(since)
    /\ waiting' = [c \in Config |->
                      IF status[c] = "stored" /\ conn[row[c].connection] = "live"
                      THEN Older(waiting[c]) ELSE 0]
    /\ overlapped' = {}
    /\ UNCHANGED <<conn, status, row, gen, events, unstored>>

GetDay == hour \div DayHours

\* Mutant of IsDue: what was never sent is not due.
IsDueSent(c, elapsed) ==
    /\ lastSent[c] # Never
    /\ elapsed >= Period(row[c].frequency)
    /\ row[c].frequency = "weekly" => GetDay = row[c].schedule_day

\* isDue, when `elapsed' whole hours have passed.
IsDue(c, elapsed) ==
    \/ lastSent[c] = Never
    \/ /\ elapsed >= Period(row[c].frequency)
       /\ row[c].frequency = "weekly" => GetDay = row[c].schedule_day

\* The whole hours between a moment of an earlier hour and one of this hour.
Elapsed(c) == IF lastSent[c] \in {0, Cap} THEN {lastSent[c]} ELSE {lastSent[c] - 1, lastSent[c]}

StartTick(due) ==
    /\ ~ticked
    /\ WorkerIdle
    /\ ticked' = TRUE
    /\ gen' = [g \in Generation |-> IF g \in due THEN [Idle EXCEPT !.at = "config", !.config = g]
                                    ELSE gen[g]]
    /\ overlapped' = {c \in Config : \E m \in Manual : Running(m) /\ gen[m].config = c}
    /\ UNCHANGED <<dataVars, hour, events, since, unstored, waiting>>

\* The active configurations that are due are generated at once.  Nothing
\* ever sets is_active to false.
TickStart ==
    \E due \in SUBSET {c \in Config : status[c] = "stored"} :
        /\ \A c \in Config : status[c] = "stored" =>
               \E elapsed \in Elapsed(c) : c \in due <=> IsDue(c, elapsed)
        /\ StartTick(due)

\* The query fails, or the process is down at this hour.
TickFails ==
    /\ ~ticked
    /\ WorkerIdle
    /\ Event
    /\ ticked' = TRUE
    /\ waiting' = [c \in Config |-> 0]
    /\ UNCHANGED <<dataVars, gen, hour, since, unstored, overlapped>>

------------------------------------------------------------------------------
(* generateForConfig.                                                      *)

\* Mutant of Ended: the answer of a generation of the tick is kept.
EndedKeeps(g, answer) ==
    gen' = [gen EXCEPT ![g].at = IF g \in Config THEN "idle" ELSE "done", ![g].answer = answer]

\* A generation of the tick is forgotten (allSettled), a request is answered.
Ended(g, answer) ==
    gen' = [gen EXCEPT ![g] = IF g \in Config THEN Idle
                              ELSE [@ EXCEPT !.at = "done", !.answer = answer]]

Goes(g, at) == gen' = [gen EXCEPT ![g].at = at]

LoadConfig(g) ==
    /\ gen[g].at = "config"
    /\ IF status[gen[g].config] = "stored" THEN Goes(g, "connection") ELSE Ended(g, "refused")
    /\ UNCHANGED <<dataVars, hour, ticked, events, historyVars>>

LoadConnection(g) ==
    /\ gen[g].at = "connection"
    /\ IF conn[row[gen[g].config].connection] = "live"
       THEN Goes(g, "fetch") ELSE Ended(g, "refused")
    /\ UNCHANGED <<dataVars, hour, ticked, events, historyVars>>

\* The activity of every source is fetched; a call to GitHub that fails counts
\* as no activity.
Fetch(g) ==
    /\ gen[g].at = "fetch"
    /\ Goes(g, "send")
    /\ UNCHANGED <<dataVars, hour, ticked, events, historyVars>>

Delivered(c) ==
    /\ since' = [since EXCEPT ![c] = 0]
    /\ waiting' = [waiting EXCEPT ![c] = 0]

\* The PDF is rendered and sent.
Send(g) ==
    /\ gen[g].at = "send"
    /\ Delivered(gen[g].config)
    /\ Goes(g, "store")
    /\ UNCHANGED <<dataVars, hour, ticked, events, unstored, overlapped>>

\* The sources cannot be read, the rendering fails, or the provider does, which
\* may have delivered the report all the same.
SendFails(g) ==
    /\ gen[g].at \in {"fetch", "send"}
    /\ Event
    /\ \/ gen[g].at = "send" /\ Delivered(gen[g].config)
          /\ unstored' = unstored \cup {gen[g].config}
       \/ /\ waiting' = [waiting EXCEPT ![gen[g].config] = 0]
          /\ UNCHANGED <<since, unstored>>
    /\ Ended(g, "refused")
    /\ UNCHANGED <<dataVars, hour, ticked, overlapped>>

\* Mutant of Store: last_sent_at is set only for the reports of the tick.
StoreOfTick(g) ==
    /\ gen[g].at = "store"
    /\ lastSent' = IF g \in Config THEN [lastSent EXCEPT ![g] = 0] ELSE lastSent
    /\ unstored' = unstored \ {gen[g].config}
    /\ Ended(g, "ok")
    /\ UNCHANGED <<conn, status, row, hour, ticked, events, since, overlapped, waiting>>

\* updateLastSentAt; no row is changed when it is removed meanwhile.
Store(g) ==
    /\ gen[g].at = "store"
    /\ lastSent' = [lastSent EXCEPT ![gen[g].config] = 0]
    /\ unstored' = unstored \ {gen[g].config}
    /\ Ended(g, "ok")
    /\ UNCHANGED <<conn, status, row, hour, ticked, events, since, overlapped, waiting>>

\* The update fails, or it is done and only its answer is lost.
StoreFails(g) ==
    /\ gen[g].at = "store"
    /\ Event
    /\ \/ UNCHANGED lastSent /\ unstored' = unstored \cup {gen[g].config}
       \/ /\ lastSent' = [lastSent EXCEPT ![gen[g].config] = 0]
          /\ unstored' = unstored \ {gen[g].config}
    /\ Ended(g, "refused")
    /\ UNCHANGED <<conn, status, row, hour, ticked, since, overlapped, waiting>>

\* The process dies: a request gets no answer, and BullMQ may give the
\* stalled job to the restarted worker within the hour.
Crash ==
    /\ \E g \in Generation : Running(g)
    /\ Event
    /\ gen' = [g \in Generation |->
                  IF ~Running(g) THEN gen[g]
                  ELSE IF g \in Config THEN Idle
                  ELSE [gen[g] EXCEPT !.at = "done", !.answer = "refused"]]
    /\ unstored' = unstored \cup {gen[g].config : g \in {h \in Generation : gen[h].at = "store"}}
    /\ ticked' \in {FALSE, ticked}
    /\ waiting' = [c \in Config |-> 0]
    /\ UNCHANGED <<dataVars, hour, since, overlapped>>

Generate(g) ==
    \/ LoadConfig(g)
    \/ LoadConnection(g)
    \/ Fetch(g)
    \/ Send(g)
    \/ Store(g)

------------------------------------------------------------------------------
(* Requests.                                                               *)

GenerateRequest(m, c) ==
    /\ gen[m].at = "idle"
    /\ gen' = [gen EXCEPT ![m] = [Idle EXCEPT !.at = "config", !.config = c]]
    /\ overlapped' = overlapped \cup {c}
    /\ UNCHANGED <<dataVars, hour, ticked, since, unstored, waiting>>

\* The connection must not be deleted.
CanCreate(c) == status[c] = "new" /\ conn[row[c].connection] = "live"

CreateConfig(c) ==
    /\ CanCreate(c)
    /\ status' = [status EXCEPT ![c] = "stored"]
    /\ waiting' = [waiting EXCEPT ![c] = 0]
    /\ UNCHANGED <<conn, row, lastSent, gen, hour, ticked, since, unstored, overlapped>>

DeleteConfig(c) ==
    /\ status' = [status EXCEPT ![c] = "removed"]
    /\ UNCHANGED <<conn, row, lastSent, gen, hour, ticked, historyVars>>

\* The tab of the connections, or another browser.
SoftDelete(n) ==
    /\ conn[n] = "live"
    /\ Event
    /\ conn' = [conn EXCEPT ![n] = "deleted"]
    /\ UNCHANGED <<status, row, lastSent, gen, hour, ticked, historyVars>>

Restore(n) ==
    /\ conn[n] = "deleted"
    /\ conn' = [conn EXCEPT ![n] = "live"]
    /\ waiting' = [c \in Config |-> IF row[c].connection = n THEN 0 ELSE waiting[c]]
    /\ UNCHANGED <<status, row, lastSent, gen, hour, ticked, events, since, unstored, overlapped>>

Worker ==
    \/ TickStart
    \/ TickFails
    \/ \E g \in Generation : Generate(g) \/ SendFails(g) \/ StoreFails(g)
    \/ Crash
    \/ \E n \in Conn : SoftDelete(n) \/ Restore(n)

------------------------------------------------------------------------------
(* Properties.                                                             *)

\* The worker does not repeat a report: since the last one, sent by itself or
\* for a request, a whole period has passed, or its last_sent_at could not be
\* stored, or a request was generating the same report during the tick.
NoRepeat ==
    [][\A c \in Config :
           gen[c].at = "send" /\ gen'[c].at = "store" =>
               \/ since[c] >= Period(row[c].frequency)
               \/ c \in unstored
               \/ c \in overlapped]_reportVars

\* A weekly report goes out on its day (README.md:401: `a weekly report sent
\* every Monday'), in each week in which nothing stood in its way on that day.
\* It is violated without any request or failure: isDue wants seven whole days
\* since last_sent_at, which is stored after the tick that sent the report has
\* fired, so the tick a week later comes too early and the next hour sends it,
\* until the day has no next hour.
SentOnItsDay ==
    \A c \in Config :
        /\ status[c] = "stored" /\ conn[row[c].connection] = "live"
        /\ row[c].frequency = "weekly" /\ GetDay = row[c].schedule_day
        /\ hour % DayHours = DayHours - 1 /\ ticked /\ gen[c].at = "idle"
        => waiting[c] < DayHours

\* What the code keeps of that promise.  A report that nothing stands in the
\* way of (its connection is live, no call fails, no tick is missed) is sent
\* within a period and an hour; a weekly one, which also needs its day, passes
\* over one of its days (see SentOnItsDay), but never over two in a row, however
\* requests, drift and failures before it have moved last_sent_at.
LongestWait(f) == IF f = "weekly" THEN 2 * Period(f) - DayHours + 1 ELSE Period(f) + 1

NotForgotten ==
    \A c \in Config :
        status[c] = "stored" => waiting[c] <= LongestWait(row[c].frequency)
==============================================================================
