------------------------------ MODULE ReportProofs ------------------------------
(***************************************************************************)
(* Proofs about ReportsTab and the Reports it works on, for every set of   *)
(* configurations, connections, requests and slots, every calendar and     *)
(* every row: type correctness, no report repeated, none passed over twice *)
(* in a row, and a tab that lists the stored ones.  The inductive          *)
(* invariant has a part for each: what last_sent_at says of the last       *)
(* report sent (RepeatFits), how long each hour of the week leaves a       *)
(* report waiting (WaitFits), and what the requests in flight owe the list *)
(* that is shown (TabFits).                                                *)
(***************************************************************************)
EXTENDS ReportsTab, TLAPS

------------------------------------------------------------------------------
(* Types.                                                                   *)

\* The steps of a generation.
GenAt == {"idle", "config", "connection", "fetch", "send", "store", "done"}

\* A row of gen, and a request of the tab.
GenRow == [at : GenAt, config : Config \cup {"none"}, answer : {"none", "ok", "refused"}]

ReqRow == [op : {"none", "list", "create", "delete"},
          at : {"idle", "sent", "found", "done"},
           config : Config \cup {NoConfig}, answer : {"none", "ok", "refused"},
           result : SUBSET Config, dropped : BOOLEAN]

\* TypeOK, and what the answers of the handlers take for granted.
TInv ==
    /\ TypeOK
    /\ gen \in [Generation -> GenRow]
    /\ \A c \in Config : gen[c].at # "done"
    /\ \A s \in Slot :
           /\ InFlight(s) => req[s].op # "none"
           /\ req[s].op \in {"create", "delete"} => req[s].config \in Config

------------------------------------------------------------------------------
(* Reports.                                                                 *)

\* A report of c was sent and is about to be stored.
StoreFor(c) == \E g \in Generation : gen[g].at = "store" /\ gen[g].config = c

\* last_sent_at is never earlier than the last report, unless that is not stored.
SinceStored == \A c \in Config : since[c] >= lastSent[c] \/ c \in unstored \/ StoreFor(c)

\* A request that generates what the tick does is known to overlap it.
Overlaps ==
    \A c \in Config, m \in Manual :
        Running(c) /\ Running(m) /\ gen[m].config = c => c \in overlapped

\* What the tick generates was due and still is.
DueLoaded ==
    \A c \in Config :
        gen[c].at \in {"config", "connection", "fetch", "send"} =>
            since[c] >= Period(row[c].frequency) \/ c \in unstored \/ c \in overlapped

RepeatFits == SinceStored /\ Overlaps /\ DueLoaded

------------------------------------------------------------------------------
(* Waiting.                                                                 *)

Week == DayHours * WeekDays

\* A day of the week is the hours from here.
FirstHour(d) == DayHours * d

\* The worker may send the report at this hour of the week.
OnDay(c) == row[c].frequency = "weekly" => GetDay = row[c].schedule_day

\* The hours a weekly report may have waited before the tick of hour h, when its
\* day starts at hour a: it was due on that day but for the hours it lacked, or
\* became due on a later one.
AllowedOf(a, h) ==
    IF h < a THEN Week + (h + Week - a - DayHours + 1)
    ELSE IF h = a THEN 2 * Week - DayHours + 1
    ELSE IF h < a + DayHours THEN Week + 1
    ELSE Week + (h - a - DayHours + 1)

\* The same for every report; the others are sent as soon as they are due.
Allowed(c) ==
    IF row[c].frequency = "weekly" THEN AllowedOf(FirstHour(row[c].schedule_day), hour)
    ELSE Period(row[c].frequency) + 1

\* The wait ends when a report is sent.
StoreSent == \A g \in Generation : gen[g].at = "store" => waiting[gen[g].config] = 0

\* Nothing waits longer than since last_sent_at.
WaitingSent == \A c \in Config : status[c] = "stored" => waiting[c] <= lastSent[c]

\* The bound of the hour.
WaitingAllowed == \A c \in Config : status[c] = "stored" => waiting[c] <= Allowed(c)

\* What the tick did not generate was not due, on a day it could be.
WaitingTicked ==
    \A c \in Config :
        /\ status[c] = "stored" /\ conn[row[c].connection] = "live"
        /\ ticked /\ gen[c].at = "idle" /\ OnDay(c)
        => waiting[c] <= Period(row[c].frequency)

WaitFits == StoreSent /\ WaitingSent /\ WaitingAllowed /\ WaitingTicked

------------------------------------------------------------------------------
(* The tab.                                                                 *)

\* What GET /report-configs returns.
StoredSet == {c \in Config : status[c] = "stored"}

\* The requests in flight, by what they ask for.
InList(s) == InFlight(s) /\ req[s].op = "list"
InChange(s) == InFlight(s) /\ req[s].op # "list"
InCreate(s) == InFlight(s) /\ req[s].op = "create"

\* The answer is on its way.
DoneOk(s, op) == req[s].at = "done" /\ req[s].op = op /\ req[s].answer = "ok"

\* A load in flight whose answer is heard.
Live == \E s \in Slot : InList(s) /\ ~req[s].dropped

\* Ids in the tab are of rows that were stored once, and an answer says what
\* became of its row.
Known ==
    /\ \A c \in shown : status[c] # "new"
    /\ \A s \in Slot :
          /\ \A c \in req[s].result : status[c] # "new"
          /\ DoneOk(s, "create") => status[req[s].config] # "new"
          /\ DoneOk(s, "delete") => status[req[s].config] = "removed"

\* Nobody hears the answers once the tab is closed.
Away == ~mounted => pressed = {} /\ \A s \in Slot : InFlight(s) => req[s].dropped

\* The histories that let ShownConfigs hold.
Trusted == mounted /\ ~doubtful

\* No load overlaps a change.
Apart == Trusted => \A s, t \in Slot : ~(InList(s) /\ InChange(t))

\* The tab hears what becomes of its changes.
ChangesHeard == Trusted => \A s \in Slot : InChange(s) => ~req[s].dropped

\* A row that is created is of no other request and is not shown before.
CreatesAlone ==
    Trusted => \A s \in Slot : InCreate(s) =>
        /\ req[s].config \notin shown
        /\ \A t \in Slot : InChange(t) /\ req[t].config = req[s].config => t = s
        /\ DoneOk(s, "create") => status[req[s].config] = "stored"

\* A load returns what is stored still.
ListsFit ==
    Trusted => \A s \in Slot :
        DoneOk(s, "list") /\ ~req[s].dropped => req[s].result = StoredSet

\* With no load in flight the list differs from the table by the answers on
\* their way.
Agree ==
    Trusted /\ ~listError /\ ~Live =>
        \A c \in Config :
            /\ c \in shown => \/ status[c] = "stored"
                              \/ \E s \in Slot : DoneOk(s, "delete") /\ req[s].config = c
            /\ status[c] = "stored" => \/ c \in shown
                                       \/ \E s \in Slot : DoneOk(s, "create")
                                          /\ req[s].config = c

TabFits == Known /\ Away /\ Apart /\ ChangesHeard /\ CreatesAlone /\ ListsFit /\ Agree

IInv == TInv /\ RepeatFits /\ WaitFits /\ TabFits

------------------------------------------------------------------------------
(* Constants and hours.                                                     *)

\* The calendar.
LEMMA DaysAndWeeks ==
    /\ DayHours \in Nat \ {0} /\ WeekDays \in Nat \ {0} /\ MonthDays \in Nat \ {0}
    /\ Week \in Nat \ {0} /\ DayHours <= Week
    /\ Cap \in Nat /\ 2 * Week < Cap
    /\ Period("daily") = DayHours
    /\ Period("weekly") = Week
    /\ Period("monthly") \in Nat /\ Period("monthly") + 1 < Cap
  <1>1. DayHours \in Nat \ {0} /\ WeekDays \in Nat \ {0} /\ MonthDays \in Nat \ {0}
        /\ Cap \in Nat
    BY ReportAssumption
  <1>2. \A d, w \in Nat \ {0} : d * w \in Nat \ {0} /\ d <= d * w
    <2> SUFFICES ASSUME NEW d \in Nat \ {0}, NEW w \in Nat \ {0}
                 PROVE  d * w \in Nat \ {0} /\ d <= d * w
      OBVIOUS
    <2>1. w >= 1 /\ d >= 1
      OBVIOUS
    <2>2. d * w >= d * 1
      BY <2>1
    <2> QED
      BY <2>1, <2>2
  <1>3. Period("daily") = DayHours /\ Period("weekly") = Week
        /\ Period("monthly") = DayHours * MonthDays
    BY <1>1 DEF Period, Week
  <1>4. 2 * Period("weekly") < Cap /\ Period("monthly") + 1 < Cap
    BY ReportAssumption
  <1>5. Week \in Nat \ {0} /\ DayHours <= Week /\ DayHours * MonthDays \in Nat
    BY <1>1, <1>2 DEF Week
  <1> QED
    BY <1>1, <1>3, <1>4, <1>5

\* Every period is shorter than the hours that are counted.
LEMMA Periods ==
    ASSUME NEW f \in {"daily", "weekly", "monthly"}
    PROVE  Period(f) \in Nat /\ Period(f) + 1 < Cap
  <1>1. CASE f = "daily"
    BY <1>1, DaysAndWeeks
  <1>2. CASE f = "weekly"
    BY <1>2, DaysAndWeeks
  <1>3. CASE f = "monthly"
    BY <1>3, DaysAndWeeks
  <1> QED
    BY <1>1, <1>2, <1>3

\* Hours of the week are counted modulo the week.
LEMMA NextHour ==
    ASSUME NEW n \in Nat \ {0}, NEW h \in 0 .. n - 1
    PROVE  (h + 1) % n = IF h = n - 1 THEN 0 ELSE h + 1
  <1>1. CASE h = n - 1
    BY <1>1
  <1>2. CASE h # n - 1
    BY <1>2
  <1> QED
    BY <1>1, <1>2

\* A day is the hours from its first one.
LEMMA DayOf ==
    ASSUME NEW d \in Nat \ {0}, NEW h \in Nat, NEW k \in Nat
    PROVE  (h \div d = k) <=> (d * k <= h /\ h < d * k + d)
  OBVIOUS

------------------------------------------------------------------------------
(* The generations.                                                         *)

\* The types of the generations.
GenOK ==
    /\ gen \in [Generation -> GenRow]
    /\ \A g \in Generation :
           /\ gen[g].at # "idle" => gen[g].config \in Config
           /\ g \in Config /\ gen[g].at # "idle" => gen[g].config = g
           /\ g \in Config => gen[g].at # "done"
           /\ gen[g].at # "done" => gen[g].answer = "none"

\* A step is about the generation g.
OthersStay(g) == \A h \in Generation \ {g} : gen'[h] = gen[h]

\* A generation that is idle.
LEMMA IdleFields ==
    Idle \in GenRow /\ Idle.at = "idle" /\ Idle.config = "none" /\ Idle.answer = "none"
  BY DEF Idle, GenRow, GenAt

\* What a step to `at' leaves of a generation.
LEMMA GoesTo ==
    ASSUME GenOK, NEW g \in Generation, NEW at \in GenAt, Goes(g, at)
    PROVE  /\ gen' \in [Generation -> GenRow]
           /\ gen'[g].at = at /\ gen'[g].config = gen[g].config
           /\ gen'[g].answer = gen[g].answer
           /\ OthersStay(g)
  BY DEF GenOK, Goes, GenRow, GenAt, OthersStay

\* A step between two awaits keeps the types.
LEMMA GoesOK ==
    ASSUME GenOK, NEW g \in Generation, NEW at \in GenAt \ {"idle", "done"}, Goes(g, at),
           gen[g].at \notin {"idle", "done"}
    PROVE  GenOK'
  <1>1. /\ gen' \in [Generation -> GenRow]
        /\ gen'[g].at = at /\ gen'[g].config = gen[g].config
        /\ gen'[g].answer = gen[g].answer
        /\ OthersStay(g)
    BY GoesTo
  <1> QED
    BY <1>1 DEF GenOK, OthersStay

\* What the end of a generation leaves of it.
LEMMA EndedTo ==
    ASSUME GenOK, NEW g \in Generation, NEW answer \in {"ok", "refused"}, Ended(g, answer)
    PROVE  /\ gen' \in [Generation -> GenRow]
           /\ g \in Config => gen'[g] = Idle
           /\ g \notin Config => /\ gen'[g].at = "done" /\ gen'[g].config = gen[g].config
                                 /\ gen'[g].answer = answer
           /\ OthersStay(g)
  <1>1. CASE g \in Config
    <2>1. gen' = [gen EXCEPT ![g] = Idle]
      BY <1>1 DEF Ended
    <2> QED
      BY <1>1, <2>1, IdleFields DEF GenOK, OthersStay
  <1>2. CASE g \notin Config
    <2> DEFINE r == [gen[g] EXCEPT !.at = "done", !.answer = answer]
    <2>1. gen' = [gen EXCEPT ![g] = r]
      BY <1>2 DEF Ended
    <2>2. gen[g] \in GenRow
      BY DEF GenOK
    <2>3. r \in GenRow /\ r.at = "done" /\ r.config = gen[g].config /\ r.answer = answer
      BY <2>2 DEF GenRow, GenAt
    <2> HIDE DEF r
    <2> QED
      BY <1>2, <2>1, <2>3 DEF GenOK, OthersStay
  <1> QED
    BY <1>1, <1>2

\* The end keeps the types.
LEMMA EndedOK ==
    ASSUME GenOK, NEW g \in Generation, NEW answer \in {"ok", "refused"}, Ended(g, answer),
           gen[g].at # "idle"
    PROVE  GenOK'
  <1>1. /\ gen' \in [Generation -> GenRow]
        /\ g \in Config => gen'[g] = Idle
        /\ g \notin Config => /\ gen'[g].at = "done" /\ gen'[g].config = gen[g].config
                              /\ gen'[g].answer = answer
        /\ OthersStay(g)
    BY EndedTo
  <1> QED
    BY <1>1, IdleFields DEF GenOK, OthersStay

\* A row of gen that is replaced.
LEMMA SetTo ==
    ASSUME GenOK, NEW g \in Generation, NEW r \in GenRow, gen' = [gen EXCEPT ![g] = r]
    PROVE  gen' \in [Generation -> GenRow] /\ gen'[g] = r /\ OthersStay(g)
  BY DEF GenOK, OthersStay

(* What the steps of Reports do to the generations.                         *)

\* A request is no configuration,
LEMMA ManualApart == \A m \in Manual : m \in Generation /\ m \notin Config
  BY ReportAssumption DEF Generation

\* and every configuration has a generation.
LEMMA ConfigsGenerate == \A c \in Config : c \in Generation
  BY DEF Generation

\* A generation of c that starts.
Asked(c) == [Idle EXCEPT !.at = "config", !.config = c]

\* A generation that starts.
LEMMA AskedFields ==
    ASSUME NEW c \in Config
    PROVE  /\ Asked(c) \in GenRow /\ Asked(c).at = "config" /\ Asked(c).config = c
           /\ Asked(c).answer = "none"
  BY DEF Asked, Idle, GenRow, GenAt

\* The tick starts the generations that are due and no other.
LEMMA TickGenerates ==
    ASSUME GenOK, NEW due \in SUBSET Config, StartTick(due)
    PROVE  /\ GenOK'
           /\ \A c \in Config : c \in due => gen'[c].at = "config" /\ gen'[c].config = c
           /\ \A g \in Generation : g \notin due => gen'[g] = gen[g]
  <1>1. gen' = [g \in Generation |-> IF g \in due THEN Asked(g) ELSE gen[g]]
    BY DEF StartTick, Asked
  <1>2. \A g \in due : g \in Config /\ g \in Generation
    BY DEF Generation
  <1>3. \A g \in due : /\ gen'[g] \in GenRow /\ gen'[g].at = "config" /\ gen'[g].config = g
                       /\ gen'[g].answer = "none"
    BY <1>1, <1>2, AskedFields
  <1>4. \A g \in Generation : g \notin due => gen'[g] = gen[g]
    BY <1>1
  <1>5. gen' \in [Generation -> GenRow]
    BY <1>1, <1>3, <1>4, <1>2 DEF GenOK
  <1> QED
    BY <1>2, <1>3, <1>4, <1>5 DEF GenOK

\* What a crash leaves.
Died ==
    \A g \in Generation :
        /\ ~Running(g) => gen'[g] = gen[g]
        /\ Running(g) /\ g \in Config => gen'[g] = Idle
        /\ Running(g) /\ g \notin Config =>
               gen'[g].at = "done" /\ gen'[g].config = gen[g].config

\* A crash ends every generation that runs.
LEMMA CrashEnds ==
    ASSUME GenOK, Crash
    PROVE  GenOK' /\ Died
  <1> DEFINE Dead(g) == [gen[g] EXCEPT !.at = "done", !.answer = "refused"]
  <1>1. gen' = [g \in Generation |->
                  IF ~Running(g) THEN gen[g] ELSE IF g \in Config THEN Idle ELSE Dead(g)]
    BY DEF Crash
  <1>2. \A g \in Generation :
           /\ Dead(g) \in GenRow
           /\ Dead(g).at = "done"
           /\ Dead(g).config = gen[g].config
    <2> TAKE g \in Generation
    <2>1. gen[g] \in GenRow
      BY DEF GenOK
    <2> QED
      BY <2>1 DEF GenRow, GenAt
  <1>3. \A g \in Generation : gen[g] \in GenRow
    BY DEF GenOK
  <1> HIDE DEF Dead
  <1>4. gen' \in [Generation -> GenRow]
    BY <1>1, <1>2, <1>3, IdleFields
  <1>5. Died
    BY <1>1, <1>2 DEF Died
  <1>6. \A g \in Generation : Running(g) => gen[g].at # "idle"
    BY DEF Running
  <1>7. ASSUME NEW g \in Generation
        PROVE  /\ gen'[g].at # "idle" => gen'[g].config \in Config
               /\ g \in Config /\ gen'[g].at # "idle" => gen'[g].config = g
               /\ g \in Config => gen'[g].at # "done"
               /\ gen'[g].at # "done" => gen'[g].answer = "none"
    <2>1. CASE ~Running(g)
      BY <2>1, <1>5 DEF Died, GenOK
    <2>2. CASE Running(g) /\ g \in Config
      BY <2>2, <1>5, IdleFields DEF Died
    <2>3. CASE Running(g) /\ g \notin Config
      BY <2>3, <1>5, <1>6 DEF Died, GenOK
    <2> QED
      BY <2>1, <2>2, <2>3
  <1> QED
    BY <1>4, <1>5, <1>7 DEF GenOK

------------------------------------------------------------------------------
(* The steps of Reports that a step of ReportsTab is made of.               *)

\* GenerateAnswered, as Reports sees it.
Taken(m) ==
    /\ gen[m].at = "done"
    /\ gen' = [gen EXCEPT ![m] = Idle]
    /\ UNCHANGED <<dataVars, hour, ticked, historyVars>>

\* Events apart, Reports sees nothing.
Untouched == UNCHANGED <<dataVars, gen, hour, ticked, historyVars>>

\* The run of one generation.
RunStep(g) ==
    \/ LoadConfig(g)
    \/ LoadConnection(g)
    \/ Fetch(g)
    \/ Send(g)
    \/ Store(g)
    \/ SendFails(g)
    \/ StoreFails(g)

ReportStep ==
    \/ TickStart
    \/ TickFails
    \/ \E g \in Generation : RunStep(g)
    \/ Crash
    \/ \E n \in Conn : SoftDelete(n) \/ Restore(n)
    \/ Hour
    \/ \E m \in Manual, c \in Config : GenerateRequest(m, c)
    \/ \E c \in Config : CanCreate(c) /\ CreateConfig(c)
    \/ \E c \in Config : DeleteConfig(c)
    \/ \E m \in Manual : Taken(m)
    \/ Untouched

\* Whatever the tab and its requests do is such a step of Reports.
LEMMA ReportSteps ==
    ASSUME TInv, [Next]_vars
    PROVE  ReportStep /\ (events' = events \/ Event)
  <1> USE DEF dataVars, historyVars
  <1>1. CASE WorkerStep
    <2>1. CASE Worker
      <3>1. ReportStep
        BY <2>1 DEF Worker, Generate, RunStep, ReportStep
      <3>2. events' = events \/ Event
        BY <2>1 DEF Worker, Generate, TickStart, StartTick, TickFails, LoadConfig,
           LoadConnection, Fetch, Send, Store, SendFails, StoreFails, Crash, SoftDelete,
           Restore
      <3> QED
        BY <3>1, <3>2
    <2>2. CASE Hour
      BY <2>2 DEF Hour, ReportStep
    <2> QED
      BY <1>1, <2>1, <2>2 DEF WorkerStep
  <1>2. ASSUME NEW s \in Slot, Server(s)
        PROVE  ReportStep /\ (events' = events \/ Event)
    <2>1. CASE List(s)
      BY <2>1 DEF List, ReportStep, Untouched, reportVars
    <2>2. CASE Create(s)
      <3>1. req[s].config \in Config
        BY <2>2 DEF Create, TInv
      <3> QED
        BY <2>2, <3>1 DEF Create, ReportStep, Untouched, reportVars
    <2>3. CASE DeleteFinds(s)
      BY <2>3 DEF DeleteFinds, ReportStep, Untouched, reportVars
    <2>4. CASE Delete(s)
      <3>1. req[s].config \in Config
        BY <2>4 DEF Delete, TInv, TypeOK
      <3> QED
        BY <2>4, <3>1 DEF Delete, ReportStep
    <2> QED
      BY <1>2, <2>1, <2>2, <2>3, <2>4 DEF Server
  <1>3. ASSUME NEW s \in Slot, Answered(s)
        PROVE  ReportStep /\ (events' = events \/ Event)
    BY <1>3 DEF Answered, ReportStep, Untouched, reportVars
  <1>4. ASSUME NEW s \in Slot, RequestFails(s) \/ LoseAnswer(s)
        PROVE  ReportStep /\ (events' = events \/ Event)
    BY <1>4 DEF RequestFails, LoseAnswer, ReportStep, Untouched
  <1>5. ASSUME NEW s \in Slot, Mount(s) \/ HandleCreate(s)
        PROVE  ReportStep /\ (events' = events \/ Event)
    BY <1>5 DEF Mount, HandleCreate, Change, ReportStep, Untouched, reportVars
  <1>6. ASSUME NEW s \in Slot, NEW c \in Config, HandleDelete(s, c)
        PROVE  ReportStep /\ (events' = events \/ Event)
    BY <1>6 DEF HandleDelete, Change, ReportStep, Untouched
  <1>7. ASSUME NEW m \in Manual, NEW c \in Config, HandleGenerate(m, c)
        PROVE  ReportStep /\ (events' = events \/ Event)
    BY <1>7 DEF HandleGenerate, ReportStep
  <1>8. ASSUME NEW m \in Manual, GenerateAnswered(m)
        PROVE  ReportStep /\ (events' = events \/ Event)
    <2>1. Taken(m)
      BY <1>8 DEF GenerateAnswered, Taken
    <2>2. events' = events
      BY <1>8 DEF GenerateAnswered
    <2> QED
      BY <2>1, <2>2 DEF ReportStep
  <1>9. CASE Unmount \/ UNCHANGED vars
    BY <1>9 DEF Unmount, vars, ReportStep, Untouched, reportVars
  <1> QED
    BY <1>1, <1>2, <1>3, <1>4, <1>5, <1>6, <1>7, <1>8, <1>9 DEF Next

------------------------------------------------------------------------------
(* Types of Reports.                                                        *)

\* The types of Reports.
RType ==
    /\ GenOK
    /\ conn \in [Conn -> {"live", "deleted"}]
    /\ status \in [Config -> {"new", "stored", "removed"}]
    /\ row \in Rows
    /\ lastSent \in [Config -> 0 .. Never]
    /\ since \in [Config -> 0 .. Never]
    /\ hour \in 0 .. Week - 1
    /\ ticked \in BOOLEAN
    /\ unstored \in SUBSET Config
    /\ overlapped \in SUBSET Config
    /\ waiting \in [Config -> 0 .. Cap]

\* The fields of a row.
LEMMA RowsTyped ==
    ASSUME row \in Rows, NEW c \in Config
    PROVE  /\ row[c].connection \in Conn
           /\ row[c].frequency \in {"daily", "weekly", "monthly"}
           /\ row[c].schedule_day \in 0 .. WeekDays - 1
  BY ReportAssumption DEF Row

\* Hours are counted up to Cap.
LEMMA AgedTyped ==
    ASSUME NEW hours \in [Config -> 0 .. Never]
    PROVE  Aged(hours) \in [Config -> 0 .. Never]
  BY DaysAndWeeks DEF Aged, Older, Never

\* A run keeps the types of the generations,
LEMMA RunKeepsGenOK ==
    ASSUME GenOK, NEW g \in Generation, RunStep(g)
    PROVE  GenOK'
  <1>1. CASE LoadConfig(g)
    BY <1>1, GoesOK, EndedOK DEF LoadConfig, GenAt
  <1>2. CASE LoadConnection(g)
    BY <1>2, GoesOK, EndedOK DEF LoadConnection, GenAt
  <1>3. CASE Fetch(g)
    BY <1>3, GoesOK DEF Fetch, GenAt
  <1>4. CASE Send(g)
    BY <1>4, GoesOK DEF Send, GenAt
  <1>5. CASE Store(g)
    BY <1>5, EndedOK DEF Store
  <1>6. CASE SendFails(g)
    BY <1>6, EndedOK DEF SendFails
  <1>7. CASE StoreFails(g)
    BY <1>7, EndedOK DEF StoreFails
  <1> QED
    BY <1>1, <1>2, <1>3, <1>4, <1>5, <1>6, <1>7 DEF RunStep

\* and so does a row that is set to idle or asked for,
LEMMA SetOK ==
    ASSUME GenOK, NEW g \in Generation, NEW r \in GenRow, gen' = [gen EXCEPT ![g] = r],
           \/ r.at = "idle" /\ r.answer = "none"
           \/ r.at = "config" /\ r.config \in Config /\ g \notin Config /\ r.answer = "none"
    PROVE  GenOK'
  <1>1. gen' \in [Generation -> GenRow] /\ gen'[g] = r /\ OthersStay(g)
    BY SetTo
  <1> QED
    BY <1>1 DEF GenOK, OthersStay

\* and every other step.
LEMMA StepKeepsGenOK ==
    ASSUME GenOK, ReportStep
    PROVE  GenOK'
  <1>1. ASSUME NEW due \in SUBSET {c \in Config : status[c] = "stored"}, StartTick(due)
        PROVE  GenOK'
    BY <1>1, TickGenerates
  <1>2. ASSUME NEW m \in Manual, NEW c \in Config, GenerateRequest(m, c)
        PROVE  GenOK'
    <2>1. gen' = [gen EXCEPT ![m] = Asked(c)]
      BY <1>2 DEF GenerateRequest, Asked
    <2> QED
      BY <2>1, AskedFields, ManualApart, SetOK
  <1>3. ASSUME NEW m \in Manual, Taken(m)
        PROVE  GenOK'
    BY <1>3, IdleFields, ManualApart, SetOK DEF Taken
  <1>4. ASSUME NEW g \in Generation, RunStep(g)
        PROVE  GenOK'
    BY <1>4, RunKeepsGenOK
  <1>5. CASE Crash
    BY <1>5, CrashEnds
  <1>6. ASSUME gen' = gen
        PROVE  GenOK'
    BY <1>6 DEF GenOK
  <1>7. CASE Untouched
    BY <1>7, <1>6 DEF Untouched
  <1>8. ASSUME NEW n \in Conn, SoftDelete(n) \/ Restore(n)
        PROVE  GenOK'
    BY <1>8, <1>6 DEF SoftDelete, Restore
  <1>9. CASE Hour \/ TickFails
    BY <1>9, <1>6 DEF Hour, TickFails
  <1>10. ASSUME NEW c \in Config, CreateConfig(c) \/ DeleteConfig(c)
         PROVE  GenOK'
    BY <1>10, <1>6 DEF CreateConfig, DeleteConfig
  <1> QED
    BY <1>1, <1>2, <1>3, <1>4, <1>5, <1>7, <1>8, <1>9, <1>10 DEF ReportStep, TickStart

\* No step changes a row.
LEMMA RowsStay ==
    ASSUME ReportStep
    PROVE  row' = row
  BY DEF ReportStep, TickStart, StartTick, TickFails, RunStep, LoadConfig, LoadConnection,
     Fetch, Send, Store, SendFails, StoreFails, Crash, SoftDelete, Restore, Hour,
     GenerateRequest, CreateConfig, DeleteConfig, Taken, Untouched, dataVars

\* A run keeps the types of Reports,
LEMMA RunTyped ==
    ASSUME RType, NEW g \in Generation, RunStep(g)
    PROVE  RType'
  <1> USE DEF RType, dataVars, historyVars
  <1>1. GenOK'
    BY RunKeepsGenOK
  <1>2. gen[g].at # "idle" => gen[g].config \in Config
    BY DEF GenOK
  <1>3. CASE LoadConfig(g) \/ LoadConnection(g) \/ Fetch(g)
    BY <1>1, <1>3 DEF LoadConfig, LoadConnection, Fetch
  <1>4. ASSUME NEW c \in Config, Delivered(c)
        PROVE  since' \in [Config -> 0 .. Never] /\ waiting' \in [Config -> 0 .. Cap]
    BY <1>4, DaysAndWeeks DEF Delivered, Never
  <1>5. CASE Send(g)
    <2>1. gen[g].config \in Config
      BY <1>2, <1>5 DEF Send
    <2>2. since' \in [Config -> 0 .. Never] /\ waiting' \in [Config -> 0 .. Cap]
      BY <1>4, <1>5, <2>1 DEF Send
    <2> QED
      BY <1>1, <1>5, <2>2 DEF Send
  <1>6. CASE Store(g)
    <2>1. gen[g].config \in Config
      BY <1>2, <1>6 DEF Store
    <2>2. lastSent' \in [Config -> 0 .. Never] /\ unstored' \in SUBSET Config
      BY <1>6, <2>1, DaysAndWeeks DEF Store, Never
    <2> QED
      BY <1>1, <1>6, <2>2 DEF Store
  <1>7. CASE SendFails(g)
    <2>1. gen[g].config \in Config
      BY <1>2, <1>7 DEF SendFails
    <2>2. CASE Delivered(gen[g].config) /\ unstored' = unstored \cup {gen[g].config}
      <3>1. since' \in [Config -> 0 .. Never] /\ waiting' \in [Config -> 0 .. Cap]
        BY <1>4, <2>1, <2>2
      <3> QED
        BY <1>1, <1>7, <2>1, <2>2, <3>1 DEF SendFails
    <2>3. CASE /\ waiting' = [waiting EXCEPT ![gen[g].config] = 0]
               /\ UNCHANGED <<since, unstored>>
      <3>1. waiting' \in [Config -> 0 .. Cap]
        BY <2>3, <2>1, DaysAndWeeks
      <3> QED
        BY <1>1, <1>7, <2>3, <3>1 DEF SendFails
    <2> QED
      BY <1>7, <2>2, <2>3 DEF SendFails
  <1>8. CASE StoreFails(g)
    <2>1. gen[g].config \in Config
      BY <1>2, <1>8 DEF StoreFails
    <2>2. lastSent' \in [Config -> 0 .. Never] /\ unstored' \in SUBSET Config
      BY <1>8, <2>1, DaysAndWeeks DEF StoreFails, Never
    <2> QED
      BY <1>1, <1>8, <2>2 DEF StoreFails
  <1> QED
    BY <1>3, <1>5, <1>6, <1>7, <1>8 DEF RunStep

\* and so does every other step.
LEMMA StepTyped ==
    ASSUME RType, ReportStep
    PROVE  RType'
  <1> USE DEF RType, dataVars, historyVars
  <1>1. GenOK' /\ row' = row
    BY StepKeepsGenOK, RowsStay
  <1>2. ASSUME NEW due \in SUBSET {c \in Config : status[c] = "stored"}, StartTick(due)
        PROVE  RType'
    BY <1>1, <1>2 DEF StartTick
  <1>3. CASE TickFails
    <2>1. waiting' \in [Config -> 0 .. Cap]
      BY <1>3, DaysAndWeeks DEF TickFails
    <2> QED
      BY <1>1, <1>3, <2>1 DEF TickFails
  <1>4. CASE Crash
    <2> DEFINE storing == {h \in Generation : gen[h].at = "store"}
    <2>0. /\ waiting' = [c \in Config |-> 0]
          /\ unstored' = unstored \cup {gen[g].config : g \in storing}
      BY <1>4 DEF Crash
    <2>1. waiting' \in [Config -> 0 .. Cap]
      BY <2>0, DaysAndWeeks
    <2>2. \A g \in Generation : gen[g].at = "store" => gen[g].config \in Config
      BY DEF GenOK
    <2>3. unstored' \in SUBSET Config
      BY <2>0, <2>2
    <2>4. ticked' \in BOOLEAN
      BY <1>4 DEF Crash
    <2> QED
      BY <1>1, <1>4, <2>1, <2>3, <2>4 DEF Crash
  <1>5. ASSUME NEW n \in Conn, SoftDelete(n) \/ Restore(n)
        PROVE  RType'
    <2>1. conn' \in [Conn -> {"live", "deleted"}]
      BY <1>5 DEF SoftDelete, Restore
    <2>2. waiting' \in [Config -> 0 .. Cap]
      BY <1>5, DaysAndWeeks DEF SoftDelete, Restore
    <2> QED
      BY <1>1, <1>5, <2>1, <2>2 DEF SoftDelete, Restore
  <1>6. CASE Hour
    <2>1. lastSent' \in [Config -> 0 .. Never] /\ since' \in [Config -> 0 .. Never]
      BY <1>6, AgedTyped DEF Hour
    <2>2. waiting' \in [Config -> 0 .. Cap]
      BY <1>6, DaysAndWeeks DEF Hour, Older
    <2>3. hour' = (hour + 1) % Week
      BY <1>6 DEF Hour, Week
    <2>4. hour' \in 0 .. Week - 1
      BY <2>3, DaysAndWeeks, NextHour
    <2> QED
      BY <1>1, <1>6, <2>1, <2>2, <2>4 DEF Hour
  <1>7. ASSUME NEW m \in Manual, NEW c \in Config, GenerateRequest(m, c)
        PROVE  RType'
    BY <1>1, <1>7 DEF GenerateRequest
  <1>8. ASSUME NEW c \in Config, CreateConfig(c)
        PROVE  RType'
    <2>1. status' \in [Config -> {"new", "stored", "removed"}]
          /\ waiting' \in [Config -> 0 .. Cap]
      BY <1>8, DaysAndWeeks DEF CreateConfig
    <2> QED
      BY <1>1, <1>8, <2>1 DEF CreateConfig
  <1>9. ASSUME NEW c \in Config, DeleteConfig(c)
        PROVE  RType'
    BY <1>1, <1>9 DEF DeleteConfig
  <1>10. ASSUME NEW m \in Manual, Taken(m)
         PROVE  RType'
    BY <1>1, <1>10 DEF Taken
  <1>11. CASE Untouched
    BY <1>1, <1>11 DEF Untouched
  <1>12. ASSUME NEW g \in Generation, RunStep(g)
         PROVE  RType'
    BY <1>12, RunTyped
  <1> QED
    BY <1>2, <1>3, <1>4, <1>5, <1>6, <1>7, <1>8, <1>9, <1>10, <1>11, <1>12 DEF ReportStep,
       TickStart

------------------------------------------------------------------------------
(* No report is repeated.                                                   *)

\* The steps of a generation up to the one that sends.
BeforeStore == {"config", "connection", "fetch", "send"}

\* A generation goes on, or ends; a report that was sent is not forgotten.
MovesOn(g) ==
    \/ gen'[g] = gen[g]
    \/ /\ gen'[g].at \in {"idle", "done"}
       /\ gen[g].at = "store" => gen[g].config \in unstored'
    \/ /\ gen[g].at \in BeforeStore /\ gen'[g].at \in BeforeStore
       /\ gen'[g].config = gen[g].config

\* A step that sends nothing and stores nothing.
LEMMA NothingSent ==
    ASSUME RType, RepeatFits, row' = row, since' = since, lastSent' = lastSent,
           unstored \subseteq unstored', overlapped \subseteq overlapped',
           \A g \in Generation : MovesOn(g)
    PROVE  RepeatFits'
  <1>1. ASSUME NEW c \in Config
        PROVE  since'[c] >= lastSent'[c] \/ c \in unstored' \/ StoreFor(c)'
    <2>1. CASE since[c] >= lastSent[c] \/ c \in unstored
      BY <2>1
    <2>2. ASSUME NEW g \in Generation, gen[g].at = "store", gen[g].config = c
          PROVE  c \in unstored' \/ StoreFor(c)'
      <3>1. CASE gen'[g] = gen[g]
        BY <2>2, <3>1 DEF StoreFor
      <3>2. CASE gen'[g] # gen[g]
        BY <2>2, <3>2 DEF MovesOn, BeforeStore
      <3> QED
        BY <3>1, <3>2
    <2> QED
      BY <2>1, <2>2 DEF RepeatFits, SinceStored, StoreFor
  <1>2. ASSUME NEW g \in Generation, Running(g)'
        PROVE  Running(g) /\ gen'[g].config = gen[g].config
    BY <1>2 DEF MovesOn, Running, BeforeStore
  <1>3. ASSUME NEW c \in Config, NEW m \in Manual, Running(c)', Running(m)',
               gen'[m].config = c
        PROVE  c \in overlapped'
    <2>1. Running(c) /\ Running(m) /\ gen[m].config = c
      BY <1>2, <1>3, ConfigsGenerate, ManualApart
    <2> QED
      BY <2>1 DEF RepeatFits, Overlaps
  <1>4. ASSUME NEW c \in Config, gen'[c].at \in BeforeStore
        PROVE  since'[c] >= Period(row'[c].frequency) \/ c \in unstored'
               \/ c \in overlapped'
    <2>1. c \in Generation
      BY ConfigsGenerate
    <2>2. gen[c].at \in BeforeStore
      BY <1>4, <2>1 DEF MovesOn, BeforeStore
    <2>3. since[c] >= Period(row[c].frequency) \/ c \in unstored \/ c \in overlapped
      BY <2>2 DEF RepeatFits, DueLoaded, BeforeStore
    <2> QED
      BY <2>3
  <1>5. SinceStored'
    BY <1>1 DEF SinceStored
  <1>6. Overlaps'
    BY <1>3 DEF Overlaps
  <1>7. DueLoaded'
    BY <1>4 DEF DueLoaded, BeforeStore
  <1> QED
    BY <1>5, <1>6, <1>7 DEF RepeatFits

\* A report is sent: the tick that would repeat it overlaps the request.
LEMMA SentNoRepeat ==
    ASSUME RType, RepeatFits, NEW g \in Generation, gen[g].at = "send",
           row' = row, lastSent' = lastSent, overlapped' = overlapped,
           since' = [since EXCEPT ![gen[g].config] = 0],
           unstored \subseteq unstored',
           gen' \in [Generation -> GenRow], OthersStay(g),
           \/ gen'[g].at = "store" /\ gen'[g].config = gen[g].config
           \/ gen'[g].at \in {"idle", "done"} /\ gen[g].config \in unstored'
    PROVE  RepeatFits'
  <1> DEFINE k == gen[g].config
  <1>1. k \in Config /\ (g \in Config => g = k)
    BY DEF RType, GenOK
  <1>2. since'[k] = 0 /\ \A c \in Config : c # k => since'[c] = since[c]
    BY <1>1 DEF RType
  <1>3. k \in unstored' \/ StoreFor(k)'
    BY DEF StoreFor
  <1>4. ASSUME NEW c \in Config, c # k
        PROVE  since'[c] >= lastSent'[c] \/ c \in unstored' \/ StoreFor(c)'
    <2>1. StoreFor(c) => StoreFor(c)'
      BY <1>4 DEF StoreFor, OthersStay
    <2> QED
      BY <1>2, <1>4, <2>1 DEF RepeatFits, SinceStored
  <1>5. SinceStored'
    BY <1>3, <1>4 DEF SinceStored
  <1>6. ASSUME NEW h \in Generation, Running(h)'
        PROVE  Running(h) /\ gen'[h].config = gen[h].config
    BY <1>6 DEF OthersStay, Running
  <1>7. ASSUME NEW c \in Config, NEW m \in Manual, Running(c)', Running(m)',
               gen'[m].config = c
        PROVE  c \in overlapped'
    <2>1. Running(c) /\ Running(m) /\ gen[m].config = c
      BY <1>6, <1>7, ConfigsGenerate, ManualApart
    <2> QED
      BY <2>1 DEF RepeatFits, Overlaps
  <1>8. Overlaps'
    BY <1>7 DEF Overlaps
  <1>9. ASSUME NEW c \in Config, gen'[c].at \in BeforeStore
        PROVE  since'[c] >= Period(row'[c].frequency) \/ c \in unstored'
               \/ c \in overlapped'
    <2>1. c \in Generation /\ c # g
      BY <1>9, ConfigsGenerate DEF BeforeStore
    <2>2. gen'[c] = gen[c]
      BY <2>1 DEF OthersStay
    <2>3. since[c] >= Period(row[c].frequency) \/ c \in unstored \/ c \in overlapped
      BY <1>9, <2>2 DEF RepeatFits, DueLoaded, BeforeStore
    <2>4. CASE c # k
      BY <1>2, <2>3, <2>4
    <2>5. CASE c = k
      <3>1. g \in Manual
        BY <1>1, <2>1, <2>5 DEF Generation
      <3>2. Running(c) /\ Running(g)
        BY <1>9, <2>2 DEF Running, BeforeStore
      <3> QED
        BY <2>5, <3>1, <3>2 DEF RepeatFits, Overlaps
    <2> QED
      BY <2>4, <2>5
  <1>10. DueLoaded'
    BY <1>9 DEF DueLoaded, BeforeStore
  <1> QED
    BY <1>5, <1>8, <1>10 DEF RepeatFits

\* last_sent_at is set; what still runs for the configuration overlaps.
LEMMA StoreNoRepeat ==
    ASSUME RType, RepeatFits, NEW g \in Generation, row' = row,
           gen[g].at = "store", NEW answer \in {"ok", "refused"}, Ended(g, answer),
           lastSent' = [lastSent EXCEPT ![gen[g].config] = 0],
           unstored' = unstored \ {gen[g].config},
           since' = since, overlapped' = overlapped
    PROVE  RepeatFits'
  <1> DEFINE k == gen[g].config
  <1>1. k \in Config /\ (g \in Config => g = k)
    BY DEF RType, GenOK
  <1>2. /\ gen' \in [Generation -> GenRow]
        /\ OthersStay(g)
        /\ gen'[g].at \in {"idle", "done"}
    BY EndedTo, IdleFields DEF RType
  <1>3. /\ since' = since /\ overlapped' = overlapped /\ unstored' = unstored \ {k}
        /\ lastSent' = [lastSent EXCEPT ![k] = 0]
    OBVIOUS
  <1>4. lastSent'[k] = 0 /\ \A c \in Config : c # k => lastSent'[c] = lastSent[c]
    BY <1>1, <1>3 DEF RType
  <1>5. ASSUME NEW c \in Config
        PROVE  since'[c] >= lastSent'[c] \/ c \in unstored' \/ StoreFor(c)'
    <2>1. CASE c = k
      <3>1. since[k] \in 0 .. Never
        BY <1>1 DEF RType
      <3>2. since[k] >= 0
        BY <3>1, DaysAndWeeks DEF Never
      <3> QED
        BY <1>3, <1>4, <2>1, <3>2
    <2>2. CASE c # k
      <3>1. StoreFor(c) => StoreFor(c)'
        BY <1>2, <2>2 DEF StoreFor, OthersStay
      <3> QED
        BY <1>3, <1>4, <2>2, <3>1 DEF RepeatFits, SinceStored
    <2> QED
      BY <2>1, <2>2
  <1>6. ASSUME NEW h \in Generation, Running(h)'
        PROVE  h # g /\ gen'[h] = gen[h]
    BY <1>2, <1>6 DEF OthersStay, Running
  <1>7. ASSUME NEW c \in Config, NEW m \in Manual, Running(c)', Running(m)',
               gen'[m].config = c
        PROVE  c \in overlapped'
    <2>1. Running(c) /\ Running(m) /\ gen[m].config = c
      BY <1>6, <1>7, ConfigsGenerate, ManualApart DEF Running
    <2> QED
      BY <1>3, <2>1 DEF RepeatFits, Overlaps
  <1>8. ASSUME NEW c \in Config, gen'[c].at \in BeforeStore
        PROVE  since'[c] >= Period(row'[c].frequency) \/ c \in unstored'
               \/ c \in overlapped'
    <2>1. c \in Generation /\ c # g
      BY <1>2, <1>8, ConfigsGenerate DEF BeforeStore
    <2>2. gen'[c] = gen[c]
      BY <1>2, <2>1 DEF OthersStay
    <2>3. since[c] >= Period(row[c].frequency) \/ c \in unstored \/ c \in overlapped
      BY <1>8, <2>2 DEF RepeatFits, DueLoaded, BeforeStore
    <2>4. CASE c # k
      BY <1>3, <2>3, <2>4
    <2>5. CASE c = k
      <3>1. g \in Manual
        BY <1>1, <2>1, <2>5 DEF Generation
      <3>2. Running(c) /\ Running(g)
        BY <1>8, <2>2 DEF Running, BeforeStore
      <3> QED
        BY <1>3, <2>5, <3>1, <3>2 DEF RepeatFits, Overlaps
    <2> QED
      BY <2>4, <2>5
  <1>9. SinceStored'
    BY <1>5 DEF SinceStored
  <1>10. Overlaps'
    BY <1>7 DEF Overlaps
  <1>11. DueLoaded'
    BY <1>8 DEF DueLoaded, BeforeStore
  <1> QED
    BY <1>9, <1>10, <1>11 DEF RepeatFits

\* Every step of a run.
LEMMA RunNoRepeat ==
    ASSUME RType, RepeatFits, NEW g \in Generation, RunStep(g), row' = row
    PROVE  RepeatFits'
  <1> USE DEF dataVars, historyVars
  <1>0. GenOK
    BY DEF RType
  <1>1. ASSUME NEW at \in BeforeStore, Goes(g, at), gen[g].at \in BeforeStore,
               UNCHANGED <<dataVars, historyVars>>
        PROVE  RepeatFits'
    <2>1. gen'[g].at = at /\ gen'[g].config = gen[g].config /\ OthersStay(g)
      BY <1>0, <1>1, GoesTo DEF BeforeStore, GenAt
    <2>2. \A h \in Generation : MovesOn(h)
      BY <1>1, <2>1 DEF MovesOn, OthersStay
    <2> QED
      BY <1>1, <2>2, NothingSent
  <1>2. ASSUME NEW answer \in {"ok", "refused"}, Ended(g, answer)
        PROVE  gen'[g].at \in {"idle", "done"} /\ OthersStay(g)
               /\ gen' \in [Generation -> GenRow]
    BY <1>0, <1>2, EndedTo, IdleFields
  <1>3. ASSUME NEW answer \in {"ok", "refused"}, Ended(g, answer),
               gen[g].at = "store" => gen[g].config \in unstored',
               since' = since, lastSent' = lastSent, overlapped' = overlapped,
               unstored \subseteq unstored'
        PROVE  RepeatFits'
    <2>1. \A h \in Generation : MovesOn(h)
      BY <1>2, <1>3 DEF MovesOn, OthersStay
    <2> QED
      BY <1>3, <2>1, NothingSent
  <1>4. CASE LoadConfig(g) \/ LoadConnection(g) \/ Fetch(g)
    BY <1>1, <1>3, <1>4 DEF LoadConfig, LoadConnection, Fetch, BeforeStore
  <1>5. CASE Send(g)
    <2>1. gen'[g].at = "store" /\ gen'[g].config = gen[g].config /\ OthersStay(g)
          /\ gen' \in [Generation -> GenRow]
      BY <1>0, <1>5, GoesTo DEF Send, GenAt
    <2> QED
      BY <1>5, <2>1, SentNoRepeat DEF Send, Delivered
  <1>6. CASE Store(g)
    BY <1>6, StoreNoRepeat DEF Store
  <1>7. CASE SendFails(g)
    <2>1. CASE /\ gen[g].at = "send" /\ Delivered(gen[g].config)
               /\ unstored' = unstored \cup {gen[g].config}
      <3>1. gen'[g].at \in {"idle", "done"} /\ OthersStay(g)
            /\ gen' \in [Generation -> GenRow]
        BY <1>2, <1>7 DEF SendFails
      <3> QED
        BY <1>7, <2>1, <3>1, SentNoRepeat DEF SendFails, Delivered
    <2>2. CASE UNCHANGED <<since, unstored>>
      BY <1>3, <1>7, <2>2 DEF SendFails
    <2> QED
      BY <1>7, <2>1, <2>2 DEF SendFails
  <1>8. CASE StoreFails(g)
    <2>1. CASE UNCHANGED lastSent /\ unstored' = unstored \cup {gen[g].config}
      BY <1>3, <1>8, <2>1 DEF StoreFails
    <2>2. CASE /\ lastSent' = [lastSent EXCEPT ![gen[g].config] = 0]
               /\ unstored' = unstored \ {gen[g].config}
      BY <1>8, <2>2, StoreNoRepeat DEF StoreFails
    <2> QED
      BY <1>8, <2>1, <2>2 DEF StoreFails
  <1> QED
    BY <1>4, <1>5, <1>6, <1>7, <1>8 DEF RunStep

\* What the tick starts is due by last_sent_at, hence by the last report.
LEMMA TickNoRepeat ==
    ASSUME RType, RepeatFits, TickStart, row' = row
    PROVE  RepeatFits'
  <1>1. PICK due \in SUBSET {c \in Config : status[c] = "stored"} :
            /\ \A c \in Config : status[c] = "stored" =>
                   \E elapsed \in Elapsed(c) : c \in due <=> IsDue(c, elapsed)
            /\ StartTick(due)
    BY DEF TickStart
  <1>2. due \in SUBSET Config /\ GenOK
    BY <1>1 DEF RType
  <1>3. /\ \A c \in Config : c \in due => gen'[c].at = "config" /\ gen'[c].config = c
        /\ \A g \in Generation : g \notin due => gen'[g] = gen[g]
    BY <1>1, <1>2, TickGenerates
  <1>4. /\ since' = since /\ lastSent' = lastSent /\ unstored' = unstored
        /\ overlapped' = {c \in Config : \E m \in Manual : Running(m) /\ gen[m].config = c}
        /\ \A c \in Config : gen[c].at = "idle"
    BY <1>1 DEF StartTick, WorkerIdle, dataVars
  <1>5. ASSUME NEW c \in Config
        PROVE  StoreFor(c) => StoreFor(c)' /\ c \in overlapped'
    <2> SUFFICES ASSUME NEW g \in Generation, gen[g].at = "store", gen[g].config = c
                 PROVE  StoreFor(c)' /\ c \in overlapped'
      BY DEF StoreFor
    <2>1. g \notin Config
      BY <1>4
    <2>2. g \in Manual /\ g \notin due
      BY <1>2, <2>1 DEF Generation
    <2>3. Running(g) /\ gen'[g] = gen[g]
      BY <1>3, <2>2 DEF Running
    <2> QED
      BY <1>4, <2>2, <2>3 DEF StoreFor
  <1>6. SinceStored'
    BY <1>4, <1>5 DEF RepeatFits, SinceStored
  <1>7. Overlaps'
    <2> SUFFICES ASSUME NEW c \in Config, NEW m \in Manual, Running(m)', gen'[m].config = c
                 PROVE  c \in overlapped'
      BY DEF Overlaps
    <2>1. gen'[m] = gen[m]
      BY <1>2, <1>3, ManualApart
    <2>2. Running(m) /\ gen[m].config = c
      BY <2>1 DEF Running
    <2> QED
      BY <1>4, <2>2
  <1>8. DueLoaded'
    <2> SUFFICES ASSUME NEW c \in Config, gen'[c].at \in BeforeStore
                 PROVE  \/ since'[c] >= Period(row'[c].frequency)
                        \/ c \in unstored' \/ c \in overlapped'
      BY DEF DueLoaded, BeforeStore
    <2>1. c \in due
      BY <1>3, <1>4, ConfigsGenerate DEF BeforeStore
    <2>2. PICK elapsed \in Elapsed(c) : IsDue(c, elapsed)
      BY <1>1, <2>1
    <2>3. CASE c \in unstored \/ StoreFor(c)
      BY <1>4, <1>5, <2>3
    <2>4. CASE since[c] >= lastSent[c]
      <3>1. /\ row[c].frequency \in {"daily", "weekly", "monthly"}
            /\ Period(row[c].frequency) \in Nat /\ Period(row[c].frequency) + 1 < Cap
        BY RowsTyped, Periods DEF RType
      <3>2. since[c] \in 0 .. Never /\ lastSent[c] \in 0 .. Never /\ Cap \in Nat
        BY DaysAndWeeks DEF RType
      <3>3. CASE lastSent[c] = Never
        BY <1>4, <2>4, <3>1, <3>2, <3>3 DEF Never
      <3>4. CASE elapsed >= Period(row[c].frequency)
        <4>1. elapsed \in Nat /\ elapsed <= lastSent[c]
          BY <3>2 DEF Elapsed, Never
        <4>2. since[c] >= Period(row[c].frequency)
          BY <2>4, <3>1, <3>2, <3>4, <4>1 DEF Never
        <4> QED
          BY <1>4, <4>2
      <3> QED
        BY <2>2, <3>3, <3>4 DEF IsDue
    <2> QED
      BY <2>3, <2>4 DEF RepeatFits, SinceStored
  <1> QED
    BY <1>6, <1>7, <1>8 DEF RepeatFits

\* Hours that pass keep the order of two moments.
LEMMA OlderKeepsOrder ==
    ASSUME NEW x \in 0 .. Never, NEW y \in 0 .. Never, x <= y
    PROVE  Older(x) <= Older(y) /\ Older(x) <= x + 1
  BY DaysAndWeeks DEF Older, Never

\* An hour makes both moments older, and nothing runs.
LEMMA HourNoRepeat ==
    ASSUME RType, RepeatFits, Hour
    PROVE  RepeatFits'
  <1>1. /\ lastSent' = Aged(lastSent) /\ since' = Aged(since)
        /\ gen' = gen /\ unstored' = unstored /\ \A g \in Generation : ~Running(g)
    BY DEF Hour
  <1>2. ASSUME NEW c \in Config
        PROVE  since'[c] >= lastSent'[c] \/ c \in unstored'
    <2>1. CASE c \in unstored
      BY <1>1, <2>1
    <2>2. CASE status[c] # "stored"
      <3>1. since'[c] = Never /\ lastSent'[c] = Never
        BY <1>1, <2>2 DEF Aged
      <3> QED
        BY <3>1, DaysAndWeeks DEF Never
    <2>3. CASE c \notin unstored /\ status[c] = "stored"
      <3>1. ~StoreFor(c)
        BY <1>1 DEF StoreFor, Running
      <3>2. since[c] >= lastSent[c]
        BY <2>3, <3>1 DEF RepeatFits, SinceStored
      <3>3. since'[c] = Older(since[c]) /\ lastSent'[c] = Older(lastSent[c])
        BY <1>1, <2>3 DEF Aged
      <3>4. Older(since[c]) >= Older(lastSent[c])
        <4>1. since[c] \in 0 .. Never /\ lastSent[c] \in 0 .. Never /\ Never \in Nat
          BY DaysAndWeeks DEF RType, Never
        <4>2. Older(lastSent[c]) <= Older(since[c])
          BY <3>2, <4>1, OlderKeepsOrder
        <4>3. Older(lastSent[c]) \in Nat /\ Older(since[c]) \in Nat
          BY <4>1 DEF Older
        <4> QED
          BY <4>2, <4>3
      <3> QED
        BY <3>3, <3>4
    <2> QED
      BY <2>1, <2>2, <2>3
  <1>3. \A g \in Generation : ~Running(g)'
    BY <1>1 DEF Running
  <1>4. SinceStored'
    BY <1>2 DEF SinceStored
  <1>5. Overlaps'
    BY <1>3, ConfigsGenerate DEF Overlaps
  <1>6. DueLoaded'
    BY <1>3, ConfigsGenerate DEF DueLoaded, Running
  <1> QED
    BY <1>4, <1>5, <1>6 DEF RepeatFits

\* A request is known to overlap what it joins.
LEMMA RequestNoRepeat ==
    ASSUME RType, RepeatFits, NEW m \in Manual, NEW c \in Config, GenerateRequest(m, c),
           row' = row
    PROVE  RepeatFits'
  <1>1. gen' = [gen EXCEPT ![m] = Asked(c)] /\ gen[m].at = "idle"
    BY DEF GenerateRequest, Asked
  <1>2. m \in Generation /\ m \notin Config
    BY ManualApart
  <1>3. gen'[m] = Asked(c) /\ OthersStay(m)
    BY <1>1, <1>2, AskedFields, SetTo DEF RType
  <1>4. /\ since' = since /\ lastSent' = lastSent /\ unstored' = unstored
        /\ overlapped' = overlapped \cup {c}
    BY DEF GenerateRequest, dataVars
  <1>5. \A k \in Config : k \in Generation /\ gen'[k] = gen[k]
    BY <1>2, <1>3, ConfigsGenerate DEF OthersStay
  <1>6. ASSUME NEW k \in Config
        PROVE  StoreFor(k) => StoreFor(k)'
    BY <1>1, <1>3 DEF StoreFor, OthersStay
  <1>7. SinceStored'
    BY <1>4, <1>6 DEF RepeatFits, SinceStored
  <1>8. Overlaps'
    <2> SUFFICES ASSUME NEW k \in Config, NEW n \in Manual, Running(k)', Running(n)',
                        gen'[n].config = k
                 PROVE  k \in overlapped'
      BY DEF Overlaps
    <2>1. CASE n = m
      BY <1>3, <1>4, <2>1, AskedFields
    <2>2. CASE n # m
      <3>1. n \in Generation /\ gen'[n] = gen[n] /\ gen'[k] = gen[k]
        BY <1>3, <1>5, <2>2, ManualApart DEF OthersStay
      <3>2. Running(k) /\ Running(n) /\ gen[n].config = k
        BY <3>1 DEF Running
      <3> QED
        BY <1>4, <3>2 DEF RepeatFits, Overlaps
    <2> QED
      BY <2>1, <2>2
  <1>9. DueLoaded'
    BY <1>4, <1>5 DEF RepeatFits, DueLoaded
  <1> QED
    BY <1>7, <1>8, <1>9 DEF RepeatFits

\* Every step keeps RepeatFits.
LEMMA StepNoRepeat ==
    ASSUME RType, RepeatFits, ReportStep
    PROVE  RepeatFits'
  <1> USE DEF dataVars, historyVars
  <1>0. GenOK /\ row' = row
    BY RowsStay DEF RType
  <1>1. CASE TickStart
    BY <1>0, <1>1, TickNoRepeat
  <1>2. ASSUME NEW g \in Generation, RunStep(g)
        PROVE  RepeatFits'
    BY <1>0, <1>2, RunNoRepeat
  <1>3. CASE Crash
    <2>1. Died
      BY <1>0, <1>3, CrashEnds
    <2>2. /\ since' = since /\ lastSent' = lastSent /\ overlapped' = overlapped
          /\ unstored' = unstored \cup
                 {gen[g].config : g \in {h \in Generation : gen[h].at = "store"}}
      BY <1>3 DEF Crash
    <2>3. \A g \in Generation : gen[g].at = "store" => gen[g].config \in unstored'
      BY <2>2
    <2>4. \A g \in Generation : MovesOn(g)
      BY <2>1, <2>3, IdleFields DEF Died, MovesOn
    <2> QED
      BY <1>0, <2>2, <2>4, NothingSent
  <1>4. CASE Hour
    BY <1>4, HourNoRepeat
  <1>5. ASSUME NEW m \in Manual, NEW c \in Config, GenerateRequest(m, c)
        PROVE  RepeatFits'
    BY <1>0, <1>5, RequestNoRepeat
  <1>6. ASSUME since' = since, lastSent' = lastSent, unstored' = unstored,
               overlapped' = overlapped, gen' = gen
        PROVE  RepeatFits'
    <2>1. \A g \in Generation : MovesOn(g)
      BY <1>6 DEF MovesOn
    <2> QED
      BY <1>0, <1>6, <2>1, NothingSent
  <1>7. CASE TickFails \/ Untouched
    BY <1>6, <1>7 DEF TickFails, Untouched
  <1>8. ASSUME NEW n \in Conn, SoftDelete(n) \/ Restore(n)
        PROVE  RepeatFits'
    BY <1>6, <1>8 DEF SoftDelete, Restore
  <1>9. ASSUME NEW c \in Config, CreateConfig(c) \/ DeleteConfig(c)
        PROVE  RepeatFits'
    BY <1>6, <1>9 DEF CreateConfig, DeleteConfig
  <1>10. ASSUME NEW m \in Manual, Taken(m)
         PROVE  RepeatFits'
    <2>1. gen'[m] = Idle /\ OthersStay(m)
      BY <1>0, <1>10, IdleFields, ManualApart, SetTo DEF Taken
    <2>2. \A g \in Generation : MovesOn(g)
      BY <1>10, <2>1, IdleFields DEF MovesOn, OthersStay, Taken
    <2> QED
      BY <1>0, <1>10, <2>2, NothingSent DEF Taken
  <1> QED
    BY <1>1, <1>2, <1>3, <1>4, <1>5, <1>7, <1>8, <1>9, <1>10 DEF ReportStep

------------------------------------------------------------------------------
(* No report is forgotten.                                                  *)

\* The days of a week follow each other.
LEMMA DayFits ==
    ASSUME NEW d \in Nat \ {0}, NEW w \in Nat \ {0}, NEW k \in 0 .. w - 1
    PROVE  d * k \in Nat /\ d * k + d <= d * w
  <1>1. k \in Nat /\ k + 1 <= w /\ k + 1 \in Nat
    OBVIOUS
  <1>2. \A x, y, z \in Nat : y <= z => x * y <= x * z
    OBVIOUS
  <1>3. d * (k + 1) <= d * w
    BY <1>1, <1>2
  <1>4. d * (k + 1) = d * k + d
    BY <1>1
  <1> QED
    BY <1>1, <1>3, <1>4

\* Every day ends within the week.
LEMMA FirstHourFits ==
    ASSUME NEW k \in 0 .. WeekDays - 1
    PROVE  FirstHour(k) \in Nat /\ FirstHour(k) + DayHours <= Week
  BY DaysAndWeeks, DayFits DEF FirstHour, Week

\* A weekly report never waits longer than LongestWait.
LEMMA AllowedOfBounds ==
    ASSUME NEW a \in Nat, a + DayHours <= Week, NEW h \in 0 .. Week - 1
    PROVE  /\ AllowedOf(a, h) \in Nat
           /\ AllowedOf(a, h) <= 2 * Week - DayHours + 1
           /\ Week + 1 <= AllowedOf(a, h)
  BY DaysAndWeeks DEF AllowedOf

\* On the other days the bound grows with the hour.
LEMMA AllowedOfNext ==
    ASSUME NEW a \in Nat, a + DayHours <= Week, NEW h \in 0 .. Week - 1,
           ~(a <= h /\ h < a + DayHours)
    PROVE  AllowedOf(a, h) + 1 <= AllowedOf(a, IF h = Week - 1 THEN 0 ELSE h + 1)
  BY DaysAndWeeks DEF AllowedOf

\* The bounds of every frequency.
LEMMA AllowedBounds ==
    ASSUME RType, NEW c \in Config
    PROVE  /\ Allowed(c) \in Nat
           /\ Period(row[c].frequency) + 1 <= Allowed(c)
           /\ Allowed(c) <= LongestWait(row[c].frequency)
  <1>1. /\ row[c].frequency \in {"daily", "weekly", "monthly"}
        /\ row[c].schedule_day \in 0 .. WeekDays - 1
    BY RowsTyped DEF RType
  <1>2. Period(row[c].frequency) \in Nat
    BY <1>1, Periods
  <1>3. CASE row[c].frequency # "weekly"
    BY <1>2, <1>3 DEF Allowed, LongestWait
  <1>4. CASE row[c].frequency = "weekly"
    <2> DEFINE a == FirstHour(row[c].schedule_day)
    <2>1. a \in Nat /\ a + DayHours <= Week
      BY <1>1, FirstHourFits
    <2> HIDE DEF a
    <2>2. hour \in 0 .. Week - 1
      BY DEF RType
    <2>3. /\ AllowedOf(a, hour) \in Nat
          /\ AllowedOf(a, hour) <= 2 * Week - DayHours + 1
          /\ Week + 1 <= AllowedOf(a, hour)
      BY <2>1, <2>2, AllowedOfBounds
    <2>4. Allowed(c) = AllowedOf(a, hour)
      BY <1>4 DEF Allowed, a
    <2> QED
      BY <1>4, <2>3, <2>4, DaysAndWeeks DEF LongestWait
  <1> QED
    BY <1>3, <1>4

\* On the day the wait may start again, on every other hour it may go on.
LEMMA AllowedNext ==
    ASSUME RType, NEW c \in Config, Hour, row' = row, RType'
    PROVE  /\ ~OnDay(c) => Allowed(c) + 1 <= Allowed(c)'
           /\ Period(row[c].frequency) + 1 <= Allowed(c)'
  <1>1. /\ row[c].frequency \in {"daily", "weekly", "monthly"}
        /\ row[c].schedule_day \in 0 .. WeekDays - 1
    BY RowsTyped DEF RType
  <1>2. hour \in 0 .. Week - 1 /\ hour' = (hour + 1) % Week
    BY DEF Hour, Week, RType
  <1>3. hour' = IF hour = Week - 1 THEN 0 ELSE hour + 1
    BY <1>2, NextHour, DaysAndWeeks
  <1>4. hour' \in 0 .. Week - 1
    BY DEF RType
  <1>5. CASE row[c].frequency # "weekly"
    <2>1. OnDay(c)
      BY <1>5 DEF OnDay
    <2>2. Period(row[c].frequency) \in Nat /\ Allowed(c)' = Period(row[c].frequency) + 1
      BY <1>1, <1>5, Periods DEF Allowed
    <2> QED
      BY <2>1, <2>2
  <1>6. CASE row[c].frequency = "weekly"
    <2> DEFINE a == FirstHour(row[c].schedule_day)
    <2>1. a \in Nat /\ a + DayHours <= Week
      BY <1>1, FirstHourFits
    <2>2. OnDay(c) <=> (a <= hour /\ hour < a + DayHours)
      <3>1. hour \in Nat /\ row[c].schedule_day \in Nat /\ DayHours \in Nat \ {0}
        BY <1>1, <1>2, DaysAndWeeks
      <3> QED
        BY <1>6, <3>1, DayOf DEF OnDay, GetDay, FirstHour
    <2>3. Allowed(c) = AllowedOf(a, hour) /\ Allowed(c)' = AllowedOf(a, hour')
      BY <1>6 DEF Allowed
    <2> HIDE DEF a
    <2>4. Week + 1 <= AllowedOf(a, hour')
      BY <1>4, <2>1, AllowedOfBounds
    <2>5. ~OnDay(c) => AllowedOf(a, hour) + 1 <= AllowedOf(a, hour')
      BY <1>2, <1>3, <2>1, <2>2, AllowedOfNext
    <2> QED
      BY <1>6, <2>3, <2>4, <2>5, DaysAndWeeks
  <1> QED
    BY <1>5, <1>6

\* Where nothing but a report sent ends the wait.
Waits(c) == waiting'[c] = waiting[c] \/ waiting'[c] = 0

\* A step after which everything waits as before or no more.
LEMMA NoLongerWait ==
    ASSUME RType, WaitFits, row' = row, hour' = hour, RType',
           \A c \in Config : Waits(c),
           \A c \in Config : \/ waiting'[c] = 0
                             \/ lastSent'[c] = lastSent[c]
                                /\ (status'[c] = "stored" => status[c] = "stored"),
           \A g \in Generation : gen'[g].at = "store" =>
               waiting'[gen'[g].config] = 0 \/ gen'[g] = gen[g],
           \A c \in Config :
               /\ status'[c] = "stored" /\ conn'[row[c].connection] = "live"
               /\ ticked' /\ gen'[c].at = "idle" /\ OnDay(c)
               => \/ waiting'[c] = 0
                  \/ /\ status[c] = "stored" /\ conn[row[c].connection] = "live"
                     /\ ticked /\ gen[c].at = "idle"
                  \/ waiting[c] <= Period(row[c].frequency)
    PROVE  WaitFits'
  <1>1. ASSUME NEW c \in Config
        PROVE  /\ waiting[c] \in Nat /\ waiting'[c] \in Nat
               /\ lastSent'[c] \in Nat
               /\ Allowed(c) \in Nat /\ Allowed(c)' = Allowed(c)
               /\ Period(row[c].frequency) \in Nat
    <2>1. waiting[c] \in 0 .. Cap /\ waiting'[c] \in 0 .. Cap /\ lastSent'[c] \in 0 .. Never
      BY DEF RType
    <2>2. Period(row[c].frequency) \in Nat
      BY RowsTyped, Periods DEF RType
    <2>3. Allowed(c) \in Nat
      BY AllowedBounds
    <2>4. Allowed(c)' = Allowed(c)
      BY DEF Allowed
    <2> QED
      BY <2>1, <2>2, <2>3, <2>4
  <1>2. StoreSent'
    <2> SUFFICES ASSUME NEW g \in Generation, gen'[g].at = "store"
                 PROVE  waiting'[gen'[g].config] = 0
      BY DEF StoreSent
    <2>1. gen'[g].config \in Config
      BY DEF RType, GenOK
    <2> QED
      BY <2>1 DEF WaitFits, StoreSent, Waits
  <1>3. WaitingSent'
    <2> SUFFICES ASSUME NEW c \in Config, status'[c] = "stored"
                 PROVE  waiting'[c] <= lastSent'[c]
      BY DEF WaitingSent
    <2>1. CASE waiting'[c] = 0
      BY <1>1, <2>1
    <2>2. CASE waiting'[c] # 0
      BY <1>1, <2>2 DEF WaitFits, WaitingSent, Waits
    <2> QED
      BY <2>1, <2>2
  <1>4. WaitingAllowed'
    <2> SUFFICES ASSUME NEW c \in Config, status'[c] = "stored"
                 PROVE  waiting'[c] <= Allowed(c)'
      BY DEF WaitingAllowed
    <2>1. CASE waiting'[c] = 0
      BY <1>1, <2>1
    <2>2. CASE waiting'[c] # 0
      BY <1>1, <2>2 DEF WaitFits, WaitingAllowed, Waits
    <2> QED
      BY <2>1, <2>2
  <1>5. WaitingTicked'
    <2> SUFFICES ASSUME NEW c \in Config, status'[c] = "stored",
                        conn'[row'[c].connection] = "live", ticked', gen'[c].at = "idle",
                        OnDay(c)'
                 PROVE  waiting'[c] <= Period(row'[c].frequency)
      BY DEF WaitingTicked
    <2>1. OnDay(c)
      BY DEF OnDay, GetDay
    <2>2. CASE waiting'[c] = 0
      BY <1>1, <2>2
    <2>3. CASE waiting'[c] # 0
      <3>1. waiting'[c] = waiting[c]
        BY <2>3 DEF Waits
      <3>2. waiting[c] <= Period(row[c].frequency)
        BY <2>1, <2>3 DEF WaitFits, WaitingTicked
      <3> QED
        BY <3>1, <3>2
    <2> QED
      BY <2>2, <2>3
  <1> QED
    BY <1>2, <1>3, <1>4, <1>5 DEF WaitFits

\* What the tick leaves out was sent within a period, or not on its day.
LEMMA TickForgetsNone ==
    ASSUME RType, WaitFits, TickStart, row' = row, RType'
    PROVE  WaitFits'
  <1>1. PICK due \in SUBSET {c \in Config : status[c] = "stored"} :
            /\ \A c \in Config : status[c] = "stored" =>
                   \E elapsed \in Elapsed(c) : c \in due <=> IsDue(c, elapsed)
            /\ StartTick(due)
    BY DEF TickStart
  <1>2. due \in SUBSET Config /\ GenOK
    BY <1>1 DEF RType
  <1>3. /\ \A c \in Config : c \in due => gen'[c].at = "config" /\ gen'[c].config = c
        /\ \A g \in Generation : g \notin due => gen'[g] = gen[g]
    BY <1>1, <1>2, TickGenerates
  <1>4. /\ waiting' = waiting /\ lastSent' = lastSent /\ status' = status /\ hour' = hour
    BY <1>1 DEF StartTick, dataVars
  <1>5. \A g \in Generation : gen'[g].at = "store" => gen'[g] = gen[g]
    BY <1>2, <1>3
  <1>6. ASSUME NEW c \in Config, status[c] = "stored", gen'[c].at = "idle", OnDay(c)
        PROVE  waiting[c] <= Period(row[c].frequency)
    <2>1. c \notin due
      BY <1>3, <1>6
    <2>2. PICK elapsed \in Elapsed(c) : ~IsDue(c, elapsed)
      BY <1>1, <1>6, <2>1
    <2>3. lastSent[c] # Never /\ ~(elapsed >= Period(row[c].frequency))
      BY <1>6, <2>2 DEF IsDue, OnDay
    <2>4. waiting[c] <= lastSent[c]
      BY <1>6 DEF WaitFits, WaitingSent
    <2>5. lastSent[c] \in Nat /\ waiting[c] \in Nat /\ Cap \in Nat
      BY DaysAndWeeks DEF RType, Never
    <2>6. Period(row[c].frequency) \in Nat
      BY RowsTyped, Periods DEF RType
    <2>7. elapsed \in Nat /\ lastSent[c] <= elapsed + 1
      BY <2>5 DEF Elapsed
    <2> QED
      BY <2>3, <2>4, <2>5, <2>6, <2>7
  <1>7. \A c \in Config : Waits(c)
    BY <1>4 DEF Waits
  <1> QED
    BY <1>4, <1>5, <1>6, <1>7, NoLongerWait

\* The bound of the next hour is a number.
LEMMA AllowedTyped ==
    ASSUME RType, RType', row' = row, NEW c \in Config
    PROVE  Allowed(c)' \in Nat
  <1>1. /\ row[c].frequency \in {"daily", "weekly", "monthly"}
        /\ row[c].schedule_day \in 0 .. WeekDays - 1
    BY RowsTyped DEF RType
  <1>2. Period(row[c].frequency) \in Nat /\ hour' \in 0 .. Week - 1
    BY <1>1, Periods DEF RType
  <1>3. AllowedOf(FirstHour(row[c].schedule_day), hour') \in Nat
    BY <1>1, <1>2, FirstHourFits, AllowedOfBounds
  <1> QED
    BY <1>2, <1>3 DEF Allowed

\* An hour passes: the bound of the next hour has room for it.
LEMMA HourForgetsNone ==
    ASSUME RType, WaitFits, Hour, row' = row, RType'
    PROVE  WaitFits'
  <1>1. /\ status' = status /\ gen' = gen /\ ticked /\ ~ticked' /\ conn' = conn
        /\ lastSent' = Aged(lastSent)
        /\ \A g \in Generation : ~Running(g)
    BY DEF Hour
  <1>2. \A c \in Config :
            waiting'[c] = IF status[c] = "stored" /\ conn[row[c].connection] = "live"
                          THEN Older(waiting[c]) ELSE 0
    BY DEF Hour
  <1>3. StoreSent'
    BY <1>1 DEF StoreSent, Running
  <1>4. ASSUME NEW c \in Config, status'[c] = "stored"
        PROVE  waiting'[c] <= lastSent'[c]
    <2>1. waiting[c] \in 0 .. Cap /\ lastSent[c] \in 0 .. Never
          /\ lastSent'[c] \in 0 .. Never
      BY DEF RType
    <2>2. waiting[c] \in 0 .. Never /\ Cap \in Nat
      BY <2>1, DaysAndWeeks DEF Never
    <2>3. waiting[c] <= lastSent[c]
      BY <1>1, <1>4 DEF WaitFits, WaitingSent
    <2>4. lastSent'[c] = Older(lastSent[c])
      BY <1>1, <1>4 DEF Aged
    <2>5. Older(waiting[c]) <= Older(lastSent[c])
      BY <2>1, <2>2, <2>3, OlderKeepsOrder
    <2> QED
      BY <1>2, <2>1, <2>2, <2>4, <2>5
  <1>5. ASSUME NEW c \in Config, status'[c] = "stored"
        PROVE  waiting'[c] <= Allowed(c)'
    <2>1. Allowed(c)' \in Nat /\ Allowed(c) \in Nat /\ Period(row[c].frequency) \in Nat
      <3>1. Allowed(c) \in Nat
        BY AllowedBounds
      <3>2. Period(row[c].frequency) \in Nat
        BY RowsTyped, Periods DEF RType
      <3> QED
        BY <3>1, <3>2, AllowedTyped
    <2>2. CASE conn[row[c].connection] # "live"
      BY <1>2, <2>1, <2>2
    <2>3. CASE conn[row[c].connection] = "live"
      <3>1. waiting'[c] = Older(waiting[c])
        BY <1>1, <1>2, <1>5, <2>3
      <3>2. waiting[c] \in 0 .. Cap /\ waiting[c] \in 0 .. Never /\ Cap \in Nat
        BY DaysAndWeeks DEF RType, Never
      <3>3. Older(waiting[c]) \in Nat /\ Older(waiting[c]) <= waiting[c] + 1
        BY <3>2 DEF Older
      <3>4. /\ ~OnDay(c) => Allowed(c) + 1 <= Allowed(c)'
            /\ Period(row[c].frequency) + 1 <= Allowed(c)'
        BY AllowedNext
      <3>5. CASE OnDay(c)
        <4>1. gen[c].at = "idle"
          BY <1>1, ConfigsGenerate DEF RType, GenOK, GenRow, GenAt, Running
        <4>2. waiting[c] <= Period(row[c].frequency)
          BY <1>1, <1>5, <2>3, <3>5, <4>1 DEF WaitFits, WaitingTicked
        <4> QED
          BY <2>1, <3>1, <3>2, <3>3, <3>4, <3>5, <4>2
      <3>6. CASE ~OnDay(c)
        <4>1. waiting[c] <= Allowed(c)
          BY <1>1, <1>5 DEF WaitFits, WaitingAllowed
        <4> QED
          BY <2>1, <3>1, <3>2, <3>3, <3>4, <3>6, <4>1
      <3> QED
        BY <3>5, <3>6
    <2> QED
      BY <2>2, <2>3
  <1>6. WaitingSent'
    BY <1>4 DEF WaitingSent
  <1>7. WaitingAllowed'
    BY <1>5 DEF WaitingAllowed
  <1>8. WaitingTicked'
    BY <1>1 DEF WaitingTicked
  <1> QED
    BY <1>3, <1>6, <1>7, <1>8 DEF WaitFits

\* Where no wait changes.
LEMMA SameWait ==
    ASSUME RType, WaitFits, row' = row, hour' = hour, RType', waiting' = waiting,
           \A c \in Config : lastSent'[c] = lastSent[c] \/ waiting[c] = 0,
           \A c \in Config : status'[c] = "stored" => status[c] = "stored",
           \A c \in Config :
               conn'[row[c].connection] = "live" => conn[row[c].connection] = "live",
           \A g \in Generation : gen'[g].at = "store" => gen'[g] = gen[g],
           ticked' = ticked,
           \A c \in Config :
               gen'[c].at = "idle" =>
                   \/ gen[c].at = "idle"
                   \/ waiting[c] = 0
                   \/ ~(status'[c] = "stored" /\ conn'[row[c].connection] = "live")
    PROVE  WaitFits'
  <1>1. \A c \in Config : Waits(c)
    BY DEF Waits
  <1> QED
    BY <1>1, NoLongerWait

\* A run that ends without a report has lost its row or its connection.
LEMMA RunForgetsNone ==
    ASSUME RType, WaitFits, NEW g \in Generation, RunStep(g), row' = row, RType'
    PROVE  WaitFits'
  <1> USE DEF dataVars, historyVars
  <1>0. GenOK
    BY DEF RType
  <1> DEFINE k == gen[g].config
  <1>1. gen[g].at # "idle" => k \in Config /\ (g \in Config => g = k)
    BY <1>0 DEF GenOK
  <1>2. ASSUME NEW at \in BeforeStore, Goes(g, at),
               UNCHANGED <<dataVars, hour, ticked, historyVars>>
        PROVE  WaitFits'
    <2>1. gen'[g].at = at /\ OthersStay(g)
      BY <1>0, <1>2, GoesTo DEF BeforeStore, GenAt
    <2>2. \A h \in Generation : gen'[h].at = "store" => gen'[h] = gen[h]
      BY <2>1 DEF OthersStay, BeforeStore
    <2>3. \A c \in Config : gen'[c].at = "idle" => gen[c].at = "idle"
      BY <2>1, ConfigsGenerate DEF OthersStay, BeforeStore
    <2> QED
      BY <1>2, <2>2, <2>3, SameWait
  <1>3. ASSUME NEW answer \in {"ok", "refused"}, Ended(g, answer)
        PROVE  /\ OthersStay(g) /\ gen'[g].at # "store"
               /\ \A h \in Generation : gen'[h].at = "store" => gen'[h] = gen[h]
    <2>1. gen'[g].at \in {"idle", "done"} /\ OthersStay(g)
      BY <1>0, <1>3, EndedTo, IdleFields
    <2> QED
      BY <2>1 DEF OthersStay
  <1>4. ASSUME NEW answer \in {"ok", "refused"}, Ended(g, answer),
               UNCHANGED <<dataVars, hour, ticked, historyVars>>,
               gen[g].at # "idle",
               status[k] # "stored" \/ conn[row[k].connection] # "live"
        PROVE  WaitFits'
    <2>1. \A c \in Config : gen'[c].at = "idle" =>
             \/ gen[c].at = "idle"
             \/ ~(status'[c] = "stored" /\ conn'[row[c].connection] = "live")
      BY <1>1, <1>3, <1>4, ConfigsGenerate DEF OthersStay
    <2> QED
      BY <1>3, <1>4, <2>1, SameWait
  <1>5. ASSUME k \in Config, waiting' = [waiting EXCEPT ![k] = 0],
               UNCHANGED <<dataVars, hour, ticked>>, OthersStay(g),
               g \in Config => g = k,
               gen'[g].at = "store" => gen'[g].config = k
        PROVE  WaitFits'
    <2>1. waiting'[k] = 0 /\ \A c \in Config : c # k => waiting'[c] = waiting[c]
      BY <1>5 DEF RType
    <2>2. \A c \in Config : Waits(c)
      BY <2>1 DEF Waits
    <2>3. \A h \in Generation : gen'[h].at = "store" =>
              waiting'[gen'[h].config] = 0 \/ gen'[h] = gen[h]
      BY <1>5, <2>1 DEF OthersStay
    <2>4. \A c \in Config : gen'[c].at = "idle" => gen[c].at = "idle" \/ waiting'[c] = 0
      BY <1>5, <2>1, ConfigsGenerate DEF OthersStay
    <2> QED
      BY <1>5, <2>2, <2>3, <2>4, NoLongerWait
  <1>6. CASE LoadConfig(g)
    <2>1. CASE status[k] = "stored"
      BY <1>2, <1>6, <2>1 DEF LoadConfig, BeforeStore
    <2>2. CASE status[k] # "stored"
      BY <1>4, <1>6, <2>2 DEF LoadConfig
    <2> QED
      BY <2>1, <2>2
  <1>7. CASE LoadConnection(g)
    <2>1. CASE conn[row[k].connection] = "live"
      BY <1>2, <1>7, <2>1 DEF LoadConnection, BeforeStore
    <2>2. CASE conn[row[k].connection] # "live"
      BY <1>4, <1>7, <2>2 DEF LoadConnection
    <2> QED
      BY <2>1, <2>2
  <1>8. CASE Fetch(g)
    BY <1>2, <1>8 DEF Fetch, BeforeStore
  <1>9. CASE Send(g)
    <2>1. gen'[g].config = k /\ OthersStay(g)
      BY <1>0, <1>9, GoesTo DEF Send, GenAt
    <2>2. waiting' = [waiting EXCEPT ![k] = 0]
      BY <1>9 DEF Send, Delivered
    <2>3. UNCHANGED <<dataVars, hour, ticked>> /\ gen[g].at = "send"
      BY <1>9 DEF Send
    <2> QED
      BY <1>1, <1>5, <2>1, <2>2, <2>3
  <1>10. CASE SendFails(g)
    <2>1. waiting' = [waiting EXCEPT ![k] = 0]
      BY <1>10 DEF SendFails, Delivered
    <2>2. UNCHANGED <<dataVars, hour, ticked>> /\ gen[g].at # "idle" /\ Ended(g, "refused")
      BY <1>10 DEF SendFails
    <2> QED
      BY <1>1, <1>3, <1>5, <2>1, <2>2
  <1>11. ASSUME gen[g].at = "store"
         PROVE  waiting[k] = 0
    BY <1>11 DEF WaitFits, StoreSent
  <1>12. ASSUME NEW answer \in {"ok", "refused"}, gen[g].at = "store", Ended(g, answer)
         PROVE  \A c \in Config :
                    gen'[c].at = "idle" => gen[c].at = "idle" \/ waiting[c] = 0
    BY <1>1, <1>3, <1>11, <1>12, ConfigsGenerate DEF OthersStay
  <1>13. CASE Store(g)
    <2>1. /\ gen[g].at = "store" /\ Ended(g, "ok") /\ lastSent' = [lastSent EXCEPT ![k] = 0]
          /\ UNCHANGED <<conn, status, hour, ticked, waiting>>
      BY <1>13 DEF Store
    <2>2. \A c \in Config : lastSent'[c] = lastSent[c] \/ waiting[c] = 0
      BY <1>1, <1>11, <2>1 DEF RType
    <2> QED
      BY <1>3, <1>12, <2>1, <2>2, SameWait
  <1>14. CASE StoreFails(g)
    <2>1. /\ gen[g].at = "store" /\ Ended(g, "refused")
          /\ \/ lastSent' = lastSent
             \/ lastSent' = [lastSent EXCEPT ![k] = 0]
          /\ UNCHANGED <<conn, status, hour, ticked, waiting>>
      BY <1>14 DEF StoreFails
    <2>2. \A c \in Config : lastSent'[c] = lastSent[c] \/ waiting[c] = 0
      BY <1>1, <1>11, <2>1 DEF RType
    <2> QED
      BY <1>3, <1>12, <2>1, <2>2, SameWait
  <1> QED
    BY <1>6, <1>7, <1>8, <1>9, <1>10, <1>13, <1>14 DEF RunStep

\* Every step keeps WaitFits.
LEMMA StepForgetsNone ==
    ASSUME RType, WaitFits, ReportStep, RType'
    PROVE  WaitFits'
  <1> USE DEF dataVars, historyVars
  <1>0. GenOK /\ row' = row
    BY RowsStay DEF RType
  <1>1. CASE TickStart
    BY <1>0, <1>1, TickForgetsNone
  <1>2. ASSUME NEW g \in Generation, RunStep(g)
        PROVE  WaitFits'
    BY <1>0, <1>2, RunForgetsNone
  <1>3. CASE Hour
    BY <1>0, <1>3, HourForgetsNone
  <1>4. ASSUME waiting' = [c \in Config |-> 0], UNCHANGED <<dataVars, hour>>
        PROVE  WaitFits'
    <2>1. \A c \in Config : waiting'[c] = 0
      BY <1>4
    <2>2. \A g \in Generation : gen'[g].at = "store" => gen'[g].config \in Config
      BY DEF RType, GenOK
    <2> QED
      BY <1>0, <1>4, <2>1, <2>2, NoLongerWait DEF Waits
  <1>5. CASE Crash \/ TickFails
    BY <1>4, <1>5 DEF Crash, TickFails
  <1>6. ASSUME gen' = gen, waiting' = waiting, lastSent' = lastSent, hour' = hour,
               ticked' = ticked,
               \A c \in Config : status'[c] = "stored" => status[c] = "stored",
               \A c \in Config :
                   conn'[row[c].connection] = "live" => conn[row[c].connection] = "live"
        PROVE  WaitFits'
    BY <1>0, <1>6, SameWait
  <1>7. CASE Untouched
    BY <1>6, <1>7 DEF Untouched
  <1>8. ASSUME NEW n \in Conn, SoftDelete(n)
        PROVE  WaitFits'
    <2>1. \A c \in Config :
              conn'[row[c].connection] = "live" => conn[row[c].connection] = "live"
      BY <1>8, RowsTyped DEF SoftDelete, RType
    <2> QED
      BY <1>6, <1>8, <2>1 DEF SoftDelete
  <1>9. ASSUME NEW n \in Conn, Restore(n)
        PROVE  WaitFits'
    <2>1. \A c \in Config :
              waiting'[c] = IF row[c].connection = n THEN 0 ELSE waiting[c]
      BY <1>9 DEF Restore
    <2>2. \A c \in Config : Waits(c)
      BY <2>1 DEF Waits
    <2>3. \A c \in Config : row[c].connection # n =>
              conn'[row[c].connection] = conn[row[c].connection]
      BY <1>9, RowsTyped DEF Restore, RType
    <2>4. /\ gen' = gen /\ status' = status /\ lastSent' = lastSent /\ ticked' = ticked
          /\ hour' = hour
      BY <1>9 DEF Restore
    <2> QED
      BY <1>0, <2>1, <2>2, <2>3, <2>4, NoLongerWait
  <1>10. ASSUME NEW c \in Config, CreateConfig(c)
         PROVE  WaitFits'
    <2>1. waiting'[c] = 0 /\ \A k \in Config : k # c => waiting'[k] = waiting[k]
      BY <1>10 DEF CreateConfig, RType
    <2>2. \A k \in Config : k # c => status'[k] = status[k]
      BY <1>10 DEF CreateConfig, RType
    <2>3. gen' = gen /\ conn' = conn /\ lastSent' = lastSent /\ ticked' = ticked
          /\ hour' = hour
      BY <1>10 DEF CreateConfig
    <2>4. \A k \in Config : Waits(k)
      BY <2>1 DEF Waits
    <2> QED
      BY <1>0, <2>1, <2>2, <2>3, <2>4, NoLongerWait
  <1>11. ASSUME NEW c \in Config, DeleteConfig(c)
         PROVE  WaitFits'
    <2>1. \A k \in Config : status'[k] = "stored" => status[k] = "stored"
      BY <1>11 DEF DeleteConfig, RType
    <2> QED
      BY <1>6, <1>11, <2>1 DEF DeleteConfig
  <1>12. ASSUME NEW m \in Manual, GenOK, gen'[m].at # "store", OthersStay(m),
                UNCHANGED <<dataVars, hour, ticked, waiting>>
         PROVE  WaitFits'
    <2>1. \A c \in Config : gen'[c] = gen[c]
      BY <1>12, ConfigsGenerate, ManualApart DEF OthersStay
    <2>2. \A g \in Generation : gen'[g].at = "store" => gen'[g] = gen[g]
      BY <1>12 DEF OthersStay
    <2> QED
      BY <1>0, <1>12, <2>1, <2>2, SameWait
  <1>13. ASSUME NEW m \in Manual, NEW c \in Config, GenerateRequest(m, c)
         PROVE  WaitFits'
    <2>1. gen' = [gen EXCEPT ![m] = Asked(c)]
      BY <1>13 DEF GenerateRequest, Asked
    <2>2. gen'[m] = Asked(c) /\ OthersStay(m)
      BY <1>0, <2>1, AskedFields, ManualApart, SetTo
    <2>3. UNCHANGED <<dataVars, hour, ticked, waiting>>
      BY <1>13 DEF GenerateRequest
    <2> QED
      BY <1>0, <1>12, <2>2, <2>3, AskedFields
  <1>14. ASSUME NEW m \in Manual, Taken(m)
         PROVE  WaitFits'
    <2>1. gen'[m] = Idle /\ OthersStay(m)
      BY <1>0, <1>14, IdleFields, ManualApart, SetTo DEF Taken
    <2> QED
      BY <1>0, <1>12, <1>14, <2>1, IdleFields DEF Taken
  <1> QED
    BY <1>1, <1>2, <1>3, <1>5, <1>7, <1>8, <1>9, <1>10, <1>11, <1>13, <1>14 DEF ReportStep

------------------------------------------------------------------------------
(* The requests of the tab.                                                 *)

\* The types of the requests.
ReqOK ==
    /\ req \in [Slot -> ReqRow]
    /\ \A s \in Slot :
           /\ req[s].at = "found" => req[s].op = "delete"
           /\ InFlight(s) => req[s].op # "none"
           /\ req[s].op \in {"create", "delete"} => req[s].config \in Config

\* A step is about the request of slot s.
SlotsStay(s) == \A t \in Slot \ {s} : req'[t] = req[t]

\* A slot that is free.
LEMMA NoRequestFields ==
    /\ NoRequest \in ReqRow
    /\ NoRequest.op = "none" /\ NoRequest.at = "idle" /\ NoRequest.result = {}
  BY DEF NoRequest, ReqRow

\* A request that starts.
LEMMA StartedFields ==
    ASSUME NEW op \in {"list", "create", "delete"}, NEW c \in Config \cup {NoConfig}
    PROVE  /\ Started(op, c) \in ReqRow
           /\ Started(op, c).op = op /\ Started(op, c).at = "sent"
              /\ Started(op, c).config = c
           /\ Started(op, c).answer = "none" /\ Started(op, c).result = {}
           /\ ~Started(op, c).dropped
  BY DEF Started, NoRequest, ReqRow

\* Free finds a slot that is free.
LEMMA FreeSlot ==
    ASSUME NEW s, Free(s)
    PROVE  s \in Slot /\ ~InFlight(s)
  BY DEF Free

\* A slot whose request is replaced.
LEMMA PutTo ==
    ASSUME ReqOK, NEW s \in Slot, NEW r \in ReqRow, req' = [req EXCEPT ![s] = r],
           r.at = "found" => r.op = "delete",
           r.at # "idle" => r.op # "none",
           r.op \in {"create", "delete"} => r.config \in Config
    PROVE  ReqOK' /\ req'[s] = r /\ SlotsStay(s)
  <1>1. req' \in [Slot -> ReqRow] /\ req'[s] = r /\ SlotsStay(s)
    BY DEF ReqOK, SlotsStay
  <1> QED
    BY <1>1 DEF ReqOK, InFlight, SlotsStay

\* What an answer leaves of a request.
LEMMA AnswerTo ==
    ASSUME ReqOK, NEW s \in Slot, NEW answer \in {"ok", "refused"}, Answer(s, answer),
           InFlight(s)
    PROVE  /\ ReqOK' /\ SlotsStay(s)
           /\ req'[s].at = "done" /\ req'[s].answer = answer
           /\ req'[s].op = req[s].op /\ req'[s].config = req[s].config
           /\ req'[s].result = req[s].result /\ req'[s].dropped = req[s].dropped
  <1> DEFINE r == [req[s] EXCEPT !.at = "done", !.answer = answer]
  <1>1. req[s] \in ReqRow
    BY DEF ReqOK
  <1>2. /\ r \in ReqRow /\ r.at = "done" /\ r.answer = answer /\ r.op = req[s].op
        /\ r.config = req[s].config /\ r.result = req[s].result
           /\ r.dropped = req[s].dropped
    BY <1>1 DEF ReqRow
  <1>3. req' = [req EXCEPT ![s] = r]
    BY DEF Answer
  <1> HIDE DEF r
  <1>4. r.op # "none" /\ (r.op \in {"create", "delete"} => r.config \in Config)
    BY <1>2 DEF ReqOK
  <1>5. ReqOK' /\ req'[s] = r /\ SlotsStay(s)
    BY <1>2, <1>3, <1>4, PutTo
  <1> QED
    BY <1>2, <1>5

\* What GET /report-configs leaves of it.
LEMMA ListTo ==
    ASSUME ReqOK, NEW s \in Slot, List(s)
    PROVE  /\ ReqOK' /\ SlotsStay(s)
           /\ req'[s].at = "done" /\ req'[s].answer = "ok" /\ req'[s].op = "list"
           /\ req'[s].dropped = req[s].dropped /\ req'[s].result = StoredSet
           /\ req[s].at = "sent" /\ req[s].op = "list"
  <1> DEFINE r == [req[s] EXCEPT !.at = "done", !.answer = "ok", !.result = StoredSet]
  <1>1. req[s] \in ReqRow /\ StoredSet \in SUBSET Config
    BY DEF ReqOK, StoredSet
  <1>2. req[s].op = "list" /\ req[s].at = "sent" /\ req' = [req EXCEPT ![s] = r]
    BY DEF List, StoredSet
  <1>3. /\ r \in ReqRow /\ r.at = "done" /\ r.answer = "ok" /\ r.op = req[s].op
        /\ r.result = StoredSet /\ r.dropped = req[s].dropped
    <2> DEFINE stored == StoredSet
    <2>1. stored \in SUBSET Config
      BY <1>1
    <2> HIDE DEF stored
    <2> QED
      BY <1>1, <2>1 DEF ReqRow
  <1> HIDE DEF r
  <1>4. ReqOK' /\ req'[s] = r /\ SlotsStay(s)
    BY <1>2, <1>3, PutTo
  <1> QED
    BY <1>2, <1>3, <1>4

\* What findById of a deletion leaves of it.
LEMMA FoundTo ==
    ASSUME ReqOK, NEW s \in Slot, req' = [req EXCEPT ![s].at = "found"],
           req[s].op = "delete"
    PROVE  /\ ReqOK' /\ SlotsStay(s)
           /\ req'[s].at = "found" /\ req'[s].op = "delete"
              /\ req'[s].config = req[s].config
           /\ req'[s].result = req[s].result /\ req'[s].dropped = req[s].dropped
  <1> DEFINE r == [req[s] EXCEPT !.at = "found"]
  <1>1. req[s] \in ReqRow
    BY DEF ReqOK
  <1>2. /\ r \in ReqRow /\ r.at = "found" /\ r.op = req[s].op
        /\ r.config = req[s].config /\ r.result = req[s].result
           /\ r.dropped = req[s].dropped
    BY <1>1 DEF ReqRow
  <1>3. req' = [req EXCEPT ![s] = r]
    OBVIOUS
  <1> HIDE DEF r
  <1>4. r.config \in Config
    BY <1>2 DEF ReqOK
  <1>5. ReqOK' /\ req'[s] = r /\ SlotsStay(s)
    BY <1>2, <1>3, <1>4, PutTo
  <1> QED
    BY <1>2, <1>5

\* What a request that starts puts into its slot.
LEMMA StartTo ==
    ASSUME ReqOK, NEW s, Free(s), NEW op \in {"list", "create", "delete"},
           NEW c \in Config \cup {NoConfig}, op # "list" => c \in Config,
           req' = [req EXCEPT ![s] = Started(op, c)]
    PROVE  /\ s \in Slot /\ ~InFlight(s)
           /\ ReqOK' /\ SlotsStay(s)
           /\ req'[s].op = op /\ req'[s].at = "sent" /\ req'[s].config = c
           /\ req'[s].result = {} /\ ~req'[s].dropped
  <1>1. s \in Slot /\ ~InFlight(s)
    BY FreeSlot
  <1> DEFINE r == Started(op, c)
  <1>2. /\ r \in ReqRow /\ r.op = op /\ r.at = "sent" /\ r.config = c
        /\ r.result = {} /\ ~r.dropped
    BY StartedFields
  <1> HIDE DEF r
  <1>3. req' = [req EXCEPT ![s] = r]
    BY DEF r
  <1>4. ReqOK' /\ req'[s] = r /\ SlotsStay(s)
    BY <1>1, <1>2, <1>3, PutTo
  <1> QED
    BY <1>1, <1>2, <1>4

\* The slot is free again.
LEMMA AnsweredTo ==
    ASSUME ReqOK, NEW s \in Slot, Answered(s)
    PROVE  /\ ReqOK' /\ SlotsStay(s)
           /\ ~InFlight(s)' /\ req'[s].result = {}
  <1>1. req' = [req EXCEPT ![s] = NoRequest]
    BY DEF Answered
  <1>2. ReqOK' /\ req'[s] = NoRequest /\ SlotsStay(s)
    BY <1>1, NoRequestFields, PutTo
  <1> QED
    BY <1>2, NoRequestFields DEF InFlight

\* Every request in flight is dropped and is otherwise as it was.
LEMMA UnmountTo ==
    ASSUME ReqOK, Unmount
    PROVE  /\ ReqOK'
           /\ \A s \in Slot :
                  /\ InFlight(s) => req'[s].dropped
                  /\ InFlight(s)' <=> InFlight(s)
                  /\ req'[s].result = req[s].result
                  /\ req'[s].at = req[s].at /\ req'[s].op = req[s].op
                  /\ req'[s].answer = req[s].answer /\ req'[s].config = req[s].config
  <1> DEFINE Drop(s) == [req[s] EXCEPT !.dropped = TRUE]
  <1>1. req' = [s \in Slot |-> IF InFlight(s) THEN Drop(s) ELSE req[s]]
    BY DEF Unmount
  <1>2. \A s \in Slot : req[s] \in ReqRow
    BY DEF ReqOK
  <1>3. \A s \in Slot :
           /\ Drop(s) \in ReqRow /\ Drop(s).dropped
           /\ Drop(s).result = req[s].result /\ Drop(s).at = req[s].at
              /\ Drop(s).op = req[s].op
           /\ Drop(s).answer = req[s].answer /\ Drop(s).config = req[s].config
    <2> TAKE s \in Slot
    <2> QED
      BY <1>2 DEF ReqRow
  <1> HIDE DEF Drop
  <1>4. req' \in [Slot -> ReqRow]
    BY <1>1, <1>2, <1>3
  <1>5. \A s \in Slot :
            /\ InFlight(s) => req'[s].dropped
            /\ req'[s].result = req[s].result
            /\ req'[s].at = req[s].at /\ req'[s].op = req[s].op
            /\ req'[s].answer = req[s].answer /\ req'[s].config = req[s].config
    BY <1>1, <1>3
  <1>6. ReqOK'
    BY <1>4, <1>5 DEF ReqOK, InFlight
  <1> QED
    BY <1>5, <1>6 DEF InFlight

------------------------------------------------------------------------------
(* Types of the tab.                                                        *)

\* The types of the tab.
TabOK ==
    /\ mounted \in BOOLEAN /\ doubtful \in BOOLEAN
    /\ listLoading \in BOOLEAN /\ listError \in BOOLEAN /\ createLoading \in BOOLEAN
    /\ shown \in SUBSET Config
    /\ deletingId \in Config \cup {NoConfig}
    /\ generatingId \in Config \cup {NoConfig}

\* A button that waits belongs to a generation.
PressedOK == pressed \subseteq Manual /\ \A m \in pressed : gen[m].at # "idle"

\* All types.
AllTyped == RType /\ ReqOK /\ TabOK /\ PressedOK /\ events \in 0 .. MaxEvents

\* The types, part by part,
LEMMA TypesTaken ==
    ASSUME TInv
    PROVE  AllTyped
  <1>1. GenOK
    BY DEF TInv, TypeOK, ReportTypeOK, GenOK
  <1>2. RType
    BY <1>1 DEF TInv, TypeOK, ReportTypeOK, RType, Week
  <1>3. ReqOK
    BY DEF TInv, TypeOK, ReqOK, ReqRow
  <1>4. TabOK /\ PressedOK
    BY DEF TInv, TypeOK, TabOK, PressedOK
  <1>5. events \in 0 .. MaxEvents
    BY DEF TInv, TypeOK, ReportTypeOK
  <1> QED
    BY <1>2, <1>3, <1>4, <1>5 DEF AllTyped

\* and put together again.
LEMMA TypesGiven ==
    ASSUME AllTyped'
    PROVE  TInv'
  <1>1. gen' \in [Generation -> GenRow] /\ GenOK'
    BY DEF AllTyped, RType, GenOK
  <1>2. \A g \in Generation : gen'[g].at \in GenAt
    BY <1>1 DEF GenRow
  <1>3. ReportTypeOK'
    BY <1>1, <1>2 DEF AllTyped, RType, ReportTypeOK, GenOK, GenAt, Week
  <1>4. TypeOK'
    BY <1>3 DEF AllTyped, TypeOK, TabOK, PressedOK, ReqOK, ReqRow
  <1>5. \A c \in Config : gen'[c].at # "done"
    BY <1>1, ConfigsGenerate DEF GenOK
  <1> QED
    BY <1>1, <1>4, <1>5 DEF TInv, AllTyped, ReqOK

\* A request that generates is not forgotten before its answer is taken,
LEMMA RunKeepsManual ==
    ASSUME GenOK, NEW g \in Generation, RunStep(g)
    PROVE  \A m \in Manual : gen[m].at # "idle" => gen'[m].at # "idle"
  <1>1. ASSUME NEW at \in GenAt, at # "idle", Goes(g, at)
        PROVE  \A m \in Manual : gen[m].at # "idle" => gen'[m].at # "idle"
    <2>1. gen'[g].at = at /\ OthersStay(g)
      BY <1>1, GoesTo
    <2> QED
      BY <1>1, <2>1, ManualApart DEF OthersStay
  <1>2. ASSUME NEW answer \in {"ok", "refused"}, Ended(g, answer)
        PROVE  \A m \in Manual : gen[m].at # "idle" => gen'[m].at # "idle"
    <2>1. (g \notin Config => gen'[g].at = "done") /\ OthersStay(g)
      BY <1>2, EndedTo
    <2> QED
      BY <2>1, ManualApart DEF OthersStay
  <1> QED
    BY <1>1, <1>2 DEF RunStep, LoadConfig, LoadConnection, Fetch, Send, Store, SendFails,
       StoreFails, GenAt

\* whatever the worker does.
LEMMA WorkerKeepsManual ==
    ASSUME GenOK, Worker \/ Hour
    PROVE  \A m \in Manual : gen[m].at # "idle" => gen'[m].at # "idle"
  <1>1. ASSUME NEW due \in SUBSET {c \in Config : status[c] = "stored"}, StartTick(due)
        PROVE  \A m \in Manual : gen[m].at # "idle" => gen'[m].at # "idle"
    <2>1. due \in SUBSET Config
      BY <1>1
    <2>2. \A g \in Generation : g \notin due => gen'[g] = gen[g]
      BY <1>1, <2>1, TickGenerates
    <2> QED
      BY <2>1, <2>2, ManualApart
  <1>2. ASSUME NEW g \in Generation, RunStep(g)
        PROVE  \A m \in Manual : gen[m].at # "idle" => gen'[m].at # "idle"
    BY <1>2, RunKeepsManual
  <1>3. CASE Crash
    <2>1. Died
      BY <1>3, CrashEnds
    <2> QED
      BY <2>1, ManualApart DEF Died
  <1>4. ASSUME gen' = gen
        PROVE  \A m \in Manual : gen[m].at # "idle" => gen'[m].at # "idle"
    BY <1>4
  <1>5. CASE TickFails \/ Hour
    BY <1>4, <1>5 DEF TickFails, Hour
  <1>6. ASSUME NEW n \in Conn, SoftDelete(n) \/ Restore(n)
        PROVE  \A m \in Manual : gen[m].at # "idle" => gen'[m].at # "idle"
    BY <1>4, <1>6 DEF SoftDelete, Restore
  <1> QED
    BY <1>1, <1>2, <1>3, <1>5, <1>6 DEF Worker, Generate, TickStart, RunStep

\* The part that Reports does not see.
TabTyped == ReqOK' /\ TabOK' /\ PressedOK'

\* The server keeps the types of the tab.
LEMMA ServerTyped ==
    ASSUME AllTyped, NEW s \in Slot, Server(s)
    PROVE  TabTyped
  <1> USE DEF AllTyped
  <1>1. gen' = gen
    BY DEF Server, List, Create, DeleteFinds, Delete, CreateConfig, DeleteConfig, reportVars
  <1>2. TabOK' /\ PressedOK'
    BY <1>1 DEF Server, flags, TabOK, PressedOK
  <1>3. CASE List(s)
    BY <1>2, <1>3, ListTo DEF TabTyped
  <1>4. ASSUME NEW answer \in {"ok", "refused"}, Answer(s, answer),
               req[s].at \in {"sent", "found"}
        PROVE  ReqOK'
    BY <1>4, AnswerTo DEF InFlight
  <1>5. CASE Create(s)
    BY <1>2, <1>4, <1>5 DEF Create, TabTyped
  <1>6. CASE DeleteFinds(s)
    BY <1>2, <1>4, <1>6, FoundTo DEF DeleteFinds, TabTyped
  <1>7. CASE Delete(s)
    BY <1>2, <1>4, <1>7 DEF Delete, TabTyped
  <1> QED
    BY <1>2, <1>3, <1>5, <1>6, <1>7 DEF Server, TabTyped

\* So do the handlers of the answers,
LEMMA AnsweredTyped ==
    ASSUME AllTyped, NEW s \in Slot, Answered(s)
    PROVE  TabTyped
  <1> USE DEF AllTyped
  <1>1. ReqOK'
    BY AnsweredTo
  <1>2. gen' = gen /\ pressed' = pressed /\ mounted' = mounted /\ doubtful' = doubtful
    BY DEF Answered, reportVars
  <1>3. PressedOK'
    BY <1>2 DEF PressedOK
  <1>4. req[s].op \in {"list", "create", "delete"} /\ req[s].result \in SUBSET Config
    BY DEF Answered, ReqOK, ReqRow, InFlight
  <1>5. req[s].op \in {"create", "delete"} => req[s].config \in Config
    BY DEF ReqOK
  <1>6. CASE req[s].dropped
    BY <1>1, <1>2, <1>3, <1>6 DEF Answered, flags, TabOK, TabTyped
  <1>7. CASE ~req[s].dropped /\ req[s].op = "list"
    <2>1. ListAnswered(s)
      BY <1>7 DEF Answered
    <2>2. TabOK'
      BY <1>2, <1>4, <2>1 DEF ListAnswered, TabOK, Ok
    <2> QED
      BY <1>1, <1>3, <2>2 DEF TabTyped
  <1>8. CASE ~req[s].dropped /\ req[s].op = "create"
    <2>1. CreateAnswered(s)
      BY <1>8 DEF Answered
    <2>2. TabOK'
      BY <1>2, <1>5, <1>8, <2>1 DEF CreateAnswered, TabOK, Ok
    <2> QED
      BY <1>1, <1>3, <2>2 DEF TabTyped
  <1>9. CASE ~req[s].dropped /\ req[s].op = "delete"
    <2>1. DeleteAnswered(s)
      BY <1>9 DEF Answered
    <2>2. TabOK'
      BY <1>2, <1>5, <1>9, <2>1 DEF DeleteAnswered, TabOK, Ok
    <2> QED
      BY <1>1, <1>3, <2>2 DEF TabTyped
  <1> QED
    BY <1>4, <1>6, <1>7, <1>8, <1>9

\* the first load,
LEMMA MountTyped ==
    ASSUME AllTyped, NEW s \in Slot, Mount(s)
    PROVE  TabTyped
  <1> USE DEF AllTyped
  <1>1. Free(s) /\ req' = [req EXCEPT ![s] = Started("list", NoConfig)] /\ gen' = gen
        /\ pressed' = pressed
    BY DEF Mount, LoadConfigs, reportVars
  <1>2. ReqOK'
    BY <1>1, StartTo
  <1>3. doubtful' \in BOOLEAN
    BY DEF Mount, Changing
  <1>4. TabOK'
    BY <1>3 DEF Mount, LoadConfigs, TabOK
  <1>5. PressedOK'
    BY <1>1 DEF PressedOK
  <1> QED
    BY <1>2, <1>4, <1>5 DEF TabTyped

\* a change that starts,
LEMMA ChangeTyped ==
    ASSUME AllTyped, NEW s \in Slot, NEW op \in {"create", "delete"}, NEW c \in Config,
           Change(s, op, c)
    PROVE  /\ ReqOK' /\ PressedOK'
           /\ doubtful' \in BOOLEAN
           /\ UNCHANGED <<mounted, shown, listLoading, listError, generatingId>>
  <1> USE DEF AllTyped
  <1>1. Free(s) /\ req' = [req EXCEPT ![s] = Started(op, c)] /\ gen' = gen
        /\ pressed' = pressed
    BY DEF Change
  <1>2. ReqOK'
    BY <1>1, StartTo
  <1>3. doubtful' \in BOOLEAN
    BY DEF Change, Loading
  <1>4. PressedOK'
    BY <1>1 DEF PressedOK
  <1> QED
    BY <1>2, <1>3, <1>4 DEF Change

\* of one kind
LEMMA CreateTyped ==
    ASSUME AllTyped, NEW s \in Slot, HandleCreate(s)
    PROVE  TabTyped
  <1>1. PICK c \in Config : Change(s, "create", c)
    BY DEF HandleCreate
  <1>2. createLoading' = TRUE /\ deletingId' = deletingId
    BY DEF HandleCreate
  <1> QED
    BY <1>1, <1>2, ChangeTyped DEF AllTyped, TabTyped, TabOK

\* or the other,
LEMMA DeleteTyped ==
    ASSUME AllTyped, NEW s \in Slot, NEW c \in Config, HandleDelete(s, c)
    PROVE  TabTyped
  <1>1. Change(s, "delete", c) /\ createLoading' = createLoading /\ deletingId' = c
    BY DEF HandleDelete
  <1> QED
    BY <1>1, ChangeTyped DEF AllTyped, TabTyped, TabOK

\* a generation that starts
LEMMA GenerateTyped ==
    ASSUME AllTyped, NEW m \in Manual, NEW c \in Config, HandleGenerate(m, c)
    PROVE  TabTyped
  <1> USE DEF AllTyped
  <1>1. gen' = [gen EXCEPT ![m] = Asked(c)]
    BY DEF HandleGenerate, GenerateRequest, Asked
  <1>2. gen'[m].at = "config" /\ OthersStay(m)
    BY <1>1, AskedFields, ManualApart, SetTo DEF RType
  <1>3. PressedOK'
    BY <1>2, ManualApart DEF HandleGenerate, PressedOK, OthersStay
  <1>4. TabOK'
    BY DEF HandleGenerate, TabOK
  <1>5. ReqOK'
    BY DEF HandleGenerate, ReqOK, InFlight
  <1> QED
    BY <1>3, <1>4, <1>5 DEF TabTyped

\* and its answer.
LEMMA GeneratedTyped ==
    ASSUME AllTyped, NEW m \in Manual, GenerateAnswered(m)
    PROVE  TabTyped
  <1> USE DEF AllTyped
  <1>1. OthersStay(m)
    BY IdleFields, ManualApart, SetTo DEF RType, GenerateAnswered
  <1>2. PressedOK'
    BY <1>1, ManualApart DEF GenerateAnswered, PressedOK, OthersStay
  <1>3. mounted' = mounted /\ shown' = shown
    BY DEF GenerateAnswered
  <1>4. CASE UNCHANGED <<flags, req, doubtful>>
    BY <1>2, <1>3, <1>4 DEF TabTyped, TabOK, flags, ReqOK, InFlight
  <1>5. CASE GenerateRefused
    BY <1>2, <1>3, <1>5 DEF TabTyped, TabOK, GenerateRefused, ReqOK, InFlight
  <1>6. ASSUME NEW s \in Slot, LoadConfigs(s, gen[m].config),
               doubtful' = (doubtful \/ Changing),
               UNCHANGED <<createLoading, deletingId, generatingId>>
        PROVE  TabTyped
    <2>1. gen[m].at # "idle"
      BY DEF GenerateAnswered
    <2>2. gen[m].config \in Config
      BY <2>1, ManualApart DEF RType, GenOK
    <2>3. ReqOK'
      BY <1>6, <2>2, StartTo DEF LoadConfigs
    <2>4. doubtful' \in BOOLEAN
      BY <1>6 DEF TabOK, Changing
    <2>5. TabOK'
      BY <1>3, <1>6, <2>4 DEF TabOK, LoadConfigs
    <2> QED
      BY <1>2, <2>3, <2>5 DEF TabTyped
  <1> QED
    BY <1>4, <1>5, <1>6 DEF GenerateAnswered

\* Every step keeps the types.
LEMMA NextTyped ==
    ASSUME TInv, [Next]_vars
    PROVE  TInv'
  <1>0. AllTyped
    BY TypesTaken
  <1> USE <1>0 DEF AllTyped
  <1>1. RType' /\ (events' = events \/ Event)
    BY ReportSteps, StepTyped
  <1>2. events' \in 0 .. MaxEvents
    <2>1. MaxEvents \in Nat
      BY ReportAssumption
    <2> QED
      BY <1>1, <2>1 DEF Event
  <1>3. ASSUME WorkerStep
        PROVE  TabTyped
    <2>1. \A m \in Manual : gen[m].at # "idle" => gen'[m].at # "idle"
      BY <1>3, WorkerKeepsManual DEF WorkerStep, RType
    <2>2. UNCHANGED tabVars
      BY <1>3 DEF WorkerStep
    <2> QED
      BY <2>1, <2>2 DEF tabVars, flags, TabTyped, TabOK, ReqOK, InFlight, PressedOK
  <1>4. ASSUME NEW s \in Slot, RequestFails(s) \/ LoseAnswer(s),
               UNCHANGED <<mounted, shown, flags, pressed>>
        PROVE  TabTyped
    <2>1. Answer(s, "refused") /\ InFlight(s) /\ doubtful' \in BOOLEAN /\ gen' = gen
      BY <1>4 DEF RequestFails, LoseAnswer, InFlight, TabOK
    <2>2. ReqOK'
      BY <2>1, AnswerTo
    <2> QED
      BY <1>4, <2>1, <2>2 DEF TabTyped, TabOK, PressedOK, flags
  <1>5. ASSUME Unmount
        PROVE  TabTyped
    <2>1. ReqOK'
      BY <1>5, UnmountTo
    <2>2. TabOK' /\ PressedOK'
      BY <1>5 DEF Unmount, TabOK, PressedOK
    <2> QED
      BY <2>1, <2>2 DEF TabTyped
  <1>6. ASSUME UNCHANGED vars
        PROVE  TabTyped
    BY <1>6 DEF vars, reportVars, tabVars, flags, TabTyped, TabOK, ReqOK, InFlight,
       PressedOK
  <1>7. ASSUME NEW s \in Slot, Mount(s) \/ HandleCreate(s)
        PROVE  TabTyped
    BY <1>7, MountTyped, CreateTyped
  <1>8. TabTyped
    BY <1>3, <1>4, <1>5, <1>6, <1>7, ServerTyped, AnsweredTyped, DeleteTyped, GenerateTyped,
       GeneratedTyped DEF Next
  <1>9. AllTyped'
    BY <1>1, <1>2, <1>8 DEF TabTyped
  <1> QED
    BY <1>9, TypesGiven

------------------------------------------------------------------------------
(* The tab shows what is stored.                                            *)

\* A slot that nothing is done to.
LEMMA SameSlot ==
    ASSUME NEW t, req'[t] = req[t]
    PROVE  /\ InFlight(t)' <=> InFlight(t)
           /\ InList(t)' <=> InList(t)
           /\ InChange(t)' <=> InChange(t)
           /\ InCreate(t)' <=> InCreate(t)
           /\ \A op \in {"list", "create", "delete"} : DoneOk(t, op)' <=> DoneOk(t, op)
  BY DEF InFlight, InList, InChange, InCreate, DoneOk

\* A step that the list and the requests do not notice.
LEMMA SameTab ==
    ASSUME TabFits, ~mounted => pressed' = {},
           UNCHANGED <<status, shown, req, mounted, doubtful, listError>>
    PROVE  TabFits'
  <1> USE DEF TabFits, InFlight, InList, InChange, InCreate, DoneOk, Trusted
  <1>1. Known'
    BY DEF Known
  <1>2. Away'
    BY DEF Away
  <1>3. Apart'
    BY DEF Apart
  <1>4. ChangesHeard'
    BY DEF ChangesHeard
  <1>5. CreatesAlone'
    BY DEF CreatesAlone
  <1>6. ListsFit'
    BY DEF ListsFit, StoredSet
  <1>7. Agree'
    BY DEF Agree, Live
  <1> QED
    BY <1>1, <1>2, <1>3, <1>4, <1>5, <1>6, <1>7

\* loadConfigs: what is in flight is not heard or is a load too.
LEMMA StartListFits ==
    ASSUME AllTyped, TabFits, NEW s, Free(s), NEW c \in Config \cup {NoConfig},
           req' = [req EXCEPT ![s] = Started("list", c)],
           mounted', UNCHANGED <<status, shown>>,
           ~doubtful' => ~Changing /\ (mounted => ~doubtful)
    PROVE  TabFits'
  <1>0. /\ s \in Slot /\ ~InFlight(s) /\ SlotsStay(s)
        /\ req'[s].op = "list" /\ req'[s].at = "sent" /\ req'[s].result = {}
           /\ ~req'[s].dropped
    BY StartTo DEF AllTyped
  <1>1. Known'
    BY <1>0 DEF TabFits, Known, SlotsStay, DoneOk
  <1>2. Away'
    BY DEF Away
  <1>3. Live'
    BY <1>0 DEF Live, InList, InFlight
  <1>4. ASSUME Trusted'
        PROVE  \A t \in Slot : ~InChange(t)'
    <2>1. \A t \in Slot : ~InChange(t)
      BY <1>4 DEF Trusted, Changing, InChange
    <2> QED
      BY <1>0, <2>1 DEF SlotsStay, InChange, InFlight
  <1>5. Apart' /\ ChangesHeard'
    BY <1>4 DEF Apart, ChangesHeard
  <1>6. CreatesAlone'
    BY <1>4 DEF CreatesAlone, InCreate, InChange
  <1>7. ListsFit'
    <2> SUFFICES ASSUME Trusted', NEW t \in Slot, DoneOk(t, "list")', ~req'[t].dropped
                 PROVE  req'[t].result = StoredSet'
      BY DEF ListsFit
    <2>1. t # s /\ req'[t] = req[t]
      BY <1>0 DEF SlotsStay, DoneOk
    <2>2. DoneOk(t, "list") /\ ~req[t].dropped /\ InFlight(t)
      BY <2>1 DEF DoneOk, InFlight
    <2>3. mounted
      BY <2>2 DEF TabFits, Away
    <2>4. Trusted
      BY <2>3 DEF Trusted
    <2> QED
      BY <2>1, <2>2, <2>4 DEF TabFits, ListsFit, StoredSet
  <1>8. Agree'
    BY <1>3 DEF Agree
  <1> QED
    BY <1>1, <1>2, <1>5, <1>6, <1>7, <1>8 DEF TabFits

\* A change starts: a doubtful one when a load is in flight.
LEMMA StartChangeFits ==
    ASSUME AllTyped, TabFits, NEW s, NEW op \in {"create", "delete"}, NEW c \in Config,
           Change(s, op, c),
           op = "create" =>
               status[c] = "new" /\ \A t \in Slot : InFlight(t) => req[t].config # c,
           op = "delete" => c \in shown
    PROVE  TabFits'
  <1>0. /\ s \in Slot /\ ~InFlight(s) /\ SlotsStay(s)
        /\ req'[s].op = op /\ req'[s].at = "sent" /\ req'[s].result = {} /\ ~req'[s].dropped
        /\ req'[s].config = c
    BY StartTo DEF AllTyped, Change
  <1>1. /\ mounted /\ mounted' /\ (doubtful' <=> doubtful \/ Loading)
        /\ shown' = shown /\ status' = status /\ listError' = listError
    BY DEF Change, dataVars
  <1>2. Known'
    BY <1>0, <1>1 DEF TabFits, Known, SlotsStay, DoneOk
  <1>3. Away'
    BY <1>1 DEF Away
  <1>4. ASSUME Trusted'
        PROVE  Trusted /\ \A t \in Slot : ~InList(t) /\ ~InList(t)'
    <2>1. Trusted /\ ~Loading
      BY <1>1, <1>4 DEF Trusted
    <2>2. \A t \in Slot : ~InList(t)
      BY <2>1 DEF Loading, InList
    <2>3. \A t \in Slot : ~InList(t)'
      BY <1>0, <2>2 DEF SlotsStay, InList, InFlight
    <2> QED
      BY <2>1, <2>2, <2>3
  <1>5. Apart'
    BY <1>4 DEF Apart
  <1>6. ChangesHeard'
    BY <1>0, <1>4 DEF ChangesHeard, TabFits, SlotsStay, InChange, InFlight
  <1>7. CreatesAlone'
    <2> SUFFICES ASSUME Trusted', NEW t \in Slot, InCreate(t)'
                 PROVE  /\ req'[t].config \notin shown
                        /\ \A u \in Slot :
                               InChange(u)' /\ req'[u].config = req'[t].config => u = t
                        /\ DoneOk(t, "create")' => status[req'[t].config] = "stored"
      BY <1>1 DEF CreatesAlone
    <2>1. Trusted
      BY <1>4
    <2>2. CASE t = s
      <3>1. op = "create" /\ ~DoneOk(s, "create")'
        BY <1>0, <2>2 DEF InCreate, DoneOk
      <3>2. c \notin shown
        BY <3>1 DEF TabFits, Known
      <3>3. \A u \in Slot : InChange(u)' /\ req'[u].config = c => u = s
        BY <1>0, <3>1 DEF SlotsStay, InChange, InFlight
      <3> QED
        BY <1>0, <2>2, <3>1, <3>2, <3>3
    <2>3. CASE t # s
      <3>1. req'[t] = req[t] /\ InCreate(t)
            /\ (DoneOk(t, "create")' <=> DoneOk(t, "create"))
        BY <1>0, <2>3 DEF SlotsStay, InCreate, InFlight, DoneOk
      <3>2. /\ req[t].config \notin shown
            /\ \A u \in Slot : InChange(u) /\ req[u].config = req[t].config => u = t
            /\ DoneOk(t, "create") => status[req[t].config] = "stored"
        BY <2>1, <3>1 DEF TabFits, CreatesAlone
      <3>3. req[t].config # c
        BY <3>1, <3>2 DEF InCreate
      <3>4. \A u \in Slot : InChange(u)' /\ req'[u].config = req'[t].config => u = t
        BY <1>0, <3>1, <3>2, <3>3 DEF SlotsStay, InChange, InFlight
      <3> QED
        BY <3>1, <3>2, <3>4
    <2> QED
      BY <2>2, <2>3
  <1>8. ListsFit'
    BY <1>4 DEF ListsFit, DoneOk, InList, InFlight
  <1>9. Agree'
    <2> SUFFICES ASSUME Trusted', ~listError, NEW k \in Config
                 PROVE  /\ k \in shown => \/ status[k] = "stored"
                              \/ \E t \in Slot : DoneOk(t, "delete")' /\ req'[t].config = k
                        /\ status[k] = "stored" => \/ k \in shown
                              \/ \E t \in Slot : DoneOk(t, "create")' /\ req'[t].config = k
      BY <1>1 DEF Agree
    <2>1. Trusted /\ ~Live
      BY <1>4 DEF Live
    <2>2. \A t \in Slot : DoneOk(t, "create") \/ DoneOk(t, "delete") => req'[t] = req[t]
      BY <1>0 DEF SlotsStay, DoneOk, InFlight
    <2> QED
      BY <2>1, <2>2 DEF TabFits, Agree, DoneOk
  <1> QED
    BY <1>2, <1>3, <1>5, <1>6, <1>7, <1>8, <1>9 DEF TabFits

\* A request goes on or fails and changes nothing.
LEMMA NoNewsFits ==
    ASSUME AllTyped, TabFits, NEW s \in Slot, SlotsStay(s),
           req[s].at \in {"sent", "found"}, req'[s].at # "idle", req'[s].op = req[s].op,
           req'[s].config = req[s].config, req'[s].result = req[s].result,
           req'[s].dropped = req[s].dropped, req'[s].at = "done" => req'[s].answer # "ok",
           UNCHANGED <<status, shown, mounted, doubtful, listError, pressed>>
    PROVE  TabFits'
  <1>0. /\ \A t \in Slot : /\ InFlight(t)' <=> InFlight(t)
                           /\ InList(t)' <=> InList(t)
                           /\ InChange(t)' <=> InChange(t)
                           /\ InCreate(t)' <=> InCreate(t)
                           /\ req'[t].config = req[t].config
                           /\ req'[t].dropped = req[t].dropped
                           /\ req'[t].result = req[t].result
    BY DEF SlotsStay, InFlight, InList, InChange, InCreate
  <1>1. \A t \in Slot : \A op \in {"list", "create", "delete"} :
            DoneOk(t, op)' <=> DoneOk(t, op)
    BY DEF SlotsStay, DoneOk
  <1>2. Trusted' <=> Trusted
    BY DEF Trusted
  <1>3. Known'
    BY <1>0, <1>1 DEF TabFits, Known
  <1>4. Away'
    BY <1>0 DEF TabFits, Away
  <1>5. Apart'
    BY <1>0, <1>2 DEF TabFits, Apart
  <1>6. ChangesHeard'
    BY <1>0, <1>2 DEF TabFits, ChangesHeard
  <1>7. CreatesAlone'
    BY <1>0, <1>1, <1>2 DEF TabFits, CreatesAlone
  <1>8. ListsFit'
    BY <1>0, <1>1, <1>2 DEF TabFits, ListsFit, StoredSet
  <1>9. Live' <=> Live
    BY <1>0 DEF Live
  <1>10. Agree'
    BY <1>0, <1>1, <1>2, <1>9 DEF TabFits, Agree
  <1> QED
    BY <1>3, <1>4, <1>5, <1>6, <1>7, <1>8, <1>10 DEF TabFits

\* GET /report-configs is answered.
LEMMA ListFits ==
    ASSUME AllTyped, TabFits, NEW s \in Slot, Server(s), List(s)
    PROVE  TabFits'
  <1>0. /\ SlotsStay(s)
        /\ req'[s].at = "done" /\ req'[s].answer = "ok" /\ req'[s].op = "list"
        /\ req'[s].dropped = req[s].dropped /\ req'[s].result = StoredSet
        /\ req[s].at = "sent" /\ req[s].op = "list"
    BY ListTo DEF AllTyped
  <1>1. UNCHANGED <<status, shown, mounted, doubtful, listError, pressed>>
    BY DEF Server, List, reportVars, dataVars, flags
  <1>2. /\ \A t \in Slot : /\ InFlight(t)' <=> InFlight(t)
                           /\ InList(t)' <=> InList(t)
                           /\ InChange(t)' <=> InChange(t)
                           /\ InCreate(t)' <=> InCreate(t)
                           /\ req'[t].dropped = req[t].dropped
                           /\ InChange(t) => req'[t] = req[t]
        /\ \A t \in Slot, op \in {"create", "delete"} : DoneOk(t, op)' <=> DoneOk(t, op)
        /\ \A t \in Slot : DoneOk(t, "create") \/ DoneOk(t, "delete") => req'[t] = req[t]
    BY <1>0 DEF SlotsStay, InFlight, InList, InChange, InCreate, DoneOk
  <1>3. Trusted' <=> Trusted
    BY <1>1 DEF Trusted
  <1>4. \A c \in req'[s].result : status[c] # "new"
    BY <1>0 DEF StoredSet
  <1>5. Known'
    BY <1>0, <1>1, <1>2, <1>4 DEF TabFits, Known, SlotsStay
  <1>6. Away'
    BY <1>1, <1>2 DEF TabFits, Away
  <1>7. Apart'
    BY <1>2, <1>3 DEF TabFits, Apart
  <1>8. ChangesHeard'
    BY <1>2, <1>3 DEF TabFits, ChangesHeard
  <1>9. CreatesAlone'
    <2>1. \A t \in Slot : InCreate(t) => InChange(t)
      BY DEF InCreate, InChange
    <2> QED
      BY <1>1, <1>2, <1>3, <2>1 DEF TabFits, CreatesAlone
  <1>10. ListsFit'
    BY <1>0, <1>1, <1>3 DEF TabFits, ListsFit, StoredSet, SlotsStay, DoneOk
  <1>11. Live' <=> Live
    BY <1>2 DEF Live
  <1>12. Agree'
    BY <1>1, <1>2, <1>3, <1>11 DEF TabFits, Agree
  <1> QED
    BY <1>5, <1>6, <1>7, <1>8, <1>9, <1>10, <1>12 DEF TabFits

\* A change that is done is the answer of its request.
LEMMA DoneFits ==
    ASSUME AllTyped, TabFits, NEW s \in Slot, NEW c \in Config, SlotsStay(s),
           InChange(s), ~DoneOk(s, "create"), ~DoneOk(s, "delete"), req[s].config = c,
           req'[s].at = "done", req'[s].answer = "ok",
           req'[s].op = req[s].op, req'[s].config = c, req'[s].result = req[s].result,
           req'[s].dropped = req[s].dropped,
           \/ req[s].op = "create" /\ status[c] = "new"
              /\ status' = [status EXCEPT ![c] = "stored"]
           \/ req[s].op = "delete" /\ status' = [status EXCEPT ![c] = "removed"],
           UNCHANGED <<shown, mounted, doubtful, listError, pressed>>
    PROVE  TabFits'
  <1>1. /\ \A k \in Config : k # c => status'[k] = status[k]
        /\ req[s].op = "create" => status'[c] = "stored"
        /\ req[s].op = "delete" => status'[c] = "removed"
    BY DEF AllTyped, RType
  <1>2. /\ \A t \in Slot : /\ InFlight(t)' <=> InFlight(t)
                           /\ InList(t)' <=> InList(t)
                           /\ InChange(t)' <=> InChange(t)
                           /\ InCreate(t)' <=> InCreate(t)
                           /\ req'[t].config = req[t].config
                           /\ req'[t].dropped = req[t].dropped
                           /\ req'[t].result = req[t].result
    BY DEF SlotsStay, InFlight, InList, InChange, InCreate
  <1>3. /\ \A t \in Slot, op \in {"list", "create", "delete"} :
              t # s => (DoneOk(t, op)' <=> DoneOk(t, op))
        /\ DoneOk(s, "create")' <=> req[s].op = "create"
        /\ DoneOk(s, "delete")' <=> req[s].op = "delete"
        /\ ~DoneOk(s, "list")'
    BY DEF SlotsStay, DoneOk, InChange
  <1>4. Trusted' <=> Trusted
    BY DEF Trusted
  <1>5. ASSUME NEW k \in Config, status[k] # "new"
        PROVE  status'[k] # "new"
    BY <1>1, <1>5
  <1>6. ASSUME NEW k \in Config, status[k] = "removed"
        PROVE  status'[k] = "removed"
    BY <1>1, <1>6
  <1>7. /\ shown \subseteq Config
        /\ \A t \in Slot : req[t].result \subseteq Config
        /\ \A t \in Slot : InChange(t) => req[t].config \in Config
    BY DEF AllTyped, TabOK, ReqOK, ReqRow, InChange, InFlight
  <1>8. \A t \in Slot, op \in {"create", "delete"} : DoneOk(t, op) => InChange(t)
    BY DEF DoneOk, InChange, InFlight
  <1>9. Known'
    <2>1. \A k \in shown : status'[k] # "new"
      BY <1>5, <1>7 DEF TabFits, Known
    <2>2. ASSUME NEW t \in Slot
          PROVE  /\ \A k \in req'[t].result : status'[k] # "new"
                 /\ DoneOk(t, "create")' => status'[req'[t].config] # "new"
                 /\ DoneOk(t, "delete")' => status'[req'[t].config] = "removed"
      <3>1. \A k \in req'[t].result : status'[k] # "new"
        BY <1>2, <1>5, <1>7 DEF TabFits, Known
      <3>2. CASE t = s
        BY <1>1, <1>3, <3>1, <3>2
      <3>3. CASE t # s
        BY <1>2, <1>3, <1>5, <1>6, <1>7, <1>8, <3>1, <3>3 DEF TabFits, Known
      <3> QED
        BY <3>2, <3>3
    <2> QED
      BY <2>1, <2>2 DEF Known
  <1>10. Away'
    BY <1>2 DEF TabFits, Away
  <1>11. Apart'
    BY <1>2, <1>4 DEF TabFits, Apart
  <1>12. ChangesHeard'
    BY <1>2, <1>4 DEF TabFits, ChangesHeard
  <1>13. CreatesAlone'
    <2> SUFFICES ASSUME Trusted, NEW t \in Slot, InCreate(t)
                 PROVE  /\ req[t].config \notin shown
                        /\ \A u \in Slot :
                               InChange(u) /\ req[u].config = req[t].config => u = t
                        /\ DoneOk(t, "create")' => status'[req[t].config] = "stored"
      BY <1>2, <1>4 DEF CreatesAlone
    <2>1. /\ req[t].config \notin shown
          /\ \A u \in Slot : InChange(u) /\ req[u].config = req[t].config => u = t
          /\ DoneOk(t, "create") => status[req[t].config] = "stored"
      BY DEF TabFits, CreatesAlone
    <2>2. CASE t = s
      BY <1>1, <2>1, <2>2 DEF InCreate
    <2>3. CASE t # s
      <3>1. req[t].config # c /\ req[t].config \in Config
        BY <1>7, <2>1, <2>3 DEF InCreate, InChange
      <3> QED
        BY <1>1, <1>3, <2>1, <2>3, <3>1
    <2> QED
      BY <2>2, <2>3
  <1>14. ListsFit'
    BY <1>4 DEF TabFits, Apart, ListsFit, DoneOk, InList, InFlight, SlotsStay, InChange
  <1>15. Live' <=> Live
    BY <1>2 DEF Live
  <1>16. Agree'
    <2> SUFFICES ASSUME Trusted, ~listError, ~Live, NEW k \in Config
                 PROVE  /\ k \in shown => \/ status'[k] = "stored"
                              \/ \E t \in Slot : DoneOk(t, "delete")' /\ req'[t].config = k
                        /\ status'[k] = "stored" => \/ k \in shown
                              \/ \E t \in Slot : DoneOk(t, "create")' /\ req'[t].config = k
      BY <1>4, <1>15 DEF Agree
    <2>1. /\ k \in shown => \/ status[k] = "stored"
                            \/ \E t \in Slot : DoneOk(t, "delete") /\ req[t].config = k
          /\ status[k] = "stored" => \/ k \in shown
                            \/ \E t \in Slot : DoneOk(t, "create") /\ req[t].config = k
      BY DEF TabFits, Agree
    <2>2. \A t \in Slot, op \in {"create", "delete"} :
             DoneOk(t, op) => t # s /\ DoneOk(t, op)'
      BY <1>3
    <2>3. CASE k # c
      BY <1>1, <1>2, <2>1, <2>2, <2>3
    <2>4. CASE k = c /\ req[s].op = "create"
      BY <1>1, <1>3, <2>4
    <2>5. CASE k = c /\ req[s].op = "delete"
      BY <1>1, <1>3, <2>5
    <2> QED
      BY <2>3, <2>4, <2>5
  <1> QED
    BY <1>9, <1>10, <1>11, <1>12, <1>13, <1>14, <1>16 DEF TabFits

\* Every step of the server.
LEMMA ServerFits ==
    ASSUME AllTyped, TabFits, NEW s \in Slot, Server(s)
    PROVE  TabFits'
  <1>0. UNCHANGED <<shown, mounted, doubtful, listError, pressed>> /\ ReqOK
    BY DEF Server, flags, AllTyped
  <1>1. ASSUME NEW answer \in {"ok", "refused"}, Answer(s, answer),
               req[s].at \in {"sent", "found"}
        PROVE  /\ SlotsStay(s)
               /\ req'[s].at = "done" /\ req'[s].answer = answer
               /\ req'[s].op = req[s].op /\ req'[s].config = req[s].config
               /\ req'[s].result = req[s].result /\ req'[s].dropped = req[s].dropped
    BY <1>0, <1>1, AnswerTo DEF InFlight
  <1>2. CASE List(s)
    BY <1>2, ListFits
  <1>3. ASSUME Answer(s, "refused"), req[s].at \in {"sent", "found"}, status' = status
        PROVE  TabFits'
    BY <1>0, <1>1, <1>3, NoNewsFits
  <1>4. CASE Create(s)
    <2> DEFINE c == req[s].config
    <2>1. c \in Config /\ req[s].at = "sent" /\ req[s].op = "create"
      BY <1>0, <1>4 DEF Create, ReqOK
    <2>2. CASE CanCreate(c)
      <3>1. Answer(s, "ok") /\ status[c] = "new"
            /\ status' = [status EXCEPT ![c] = "stored"]
        BY <1>4, <2>2 DEF Create, CanCreate, CreateConfig
      <3>2. InChange(s) /\ ~DoneOk(s, "create") /\ ~DoneOk(s, "delete")
        BY <2>1 DEF InChange, InFlight, DoneOk
      <3>3. /\ SlotsStay(s) /\ req'[s].at = "done" /\ req'[s].answer = "ok"
            /\ req'[s].op = req[s].op /\ req'[s].config = c
            /\ req'[s].result = req[s].result /\ req'[s].dropped = req[s].dropped
        BY <1>1, <2>1, <3>1
      <3> QED
        BY <1>0, <2>1, <3>1, <3>2, <3>3, DoneFits
    <2>3. CASE ~CanCreate(c)
      BY <1>3, <1>4, <2>1, <2>3 DEF Create, reportVars, dataVars
    <2> QED
      BY <2>2, <2>3
  <1>5. CASE DeleteFinds(s)
    <2>1. req[s].op = "delete" /\ req[s].at = "sent" /\ status' = status
      BY <1>5 DEF DeleteFinds, reportVars, dataVars
    <2>2. CASE req' = [req EXCEPT ![s].at = "found"]
      <3>1. /\ SlotsStay(s)
            /\ req'[s].at = "found" /\ req'[s].op = "delete"
               /\ req'[s].config = req[s].config
            /\ req'[s].result = req[s].result /\ req'[s].dropped = req[s].dropped
        BY <1>0, <2>1, <2>2, FoundTo
      <3> QED
        BY <1>0, <2>1, <3>1, NoNewsFits
    <2>3. CASE Answer(s, "refused")
      BY <1>3, <2>1, <2>3
    <2> QED
      BY <1>5, <2>2, <2>3 DEF DeleteFinds
  <1>6. CASE Delete(s)
    <2> DEFINE c == req[s].config
    <2>1. req[s].at = "found" /\ req[s].op = "delete" /\ c \in Config
      BY <1>0, <1>6 DEF Delete, ReqOK
    <2>2. Answer(s, "ok") /\ status' = [status EXCEPT ![c] = "removed"]
      BY <1>6 DEF Delete, DeleteConfig
    <2>3. InChange(s) /\ ~DoneOk(s, "create") /\ ~DoneOk(s, "delete")
      BY <2>1 DEF InChange, InFlight, DoneOk
    <2>4. /\ SlotsStay(s) /\ req'[s].at = "done" /\ req'[s].answer = "ok"
          /\ req'[s].op = req[s].op /\ req'[s].config = c
          /\ req'[s].result = req[s].result /\ req'[s].dropped = req[s].dropped
      BY <1>1, <2>1, <2>2
    <2> QED
      BY <1>0, <2>1, <2>2, <2>3, <2>4, DoneFits
  <1> QED
    BY <1>2, <1>4, <1>5, <1>6 DEF Server

\* Where nothing is promised of the list.
LEMMA DoubtfulFits ==
    ASSUME Known', Away', ~Trusted'
    PROVE  TabFits'
  BY DEF TabFits, Apart, ChangesHeard, CreatesAlone, ListsFit, Agree

\* A request fails, or its answer is lost.
LEMMA FailureFits ==
    ASSUME AllTyped, TabFits, NEW s \in Slot, RequestFails(s) \/ LoseAnswer(s),
           UNCHANGED <<mounted, shown, flags, pressed>>
    PROVE  TabFits'
  <1>0. Answer(s, "refused") /\ InFlight(s) /\ status' = status /\ ReqOK
    BY DEF RequestFails, LoseAnswer, InFlight, dataVars, AllTyped
  <1>1. /\ SlotsStay(s)
        /\ req'[s].at = "done" /\ req'[s].answer = "refused"
        /\ req'[s].op = req[s].op /\ req'[s].config = req[s].config
        /\ req'[s].result = req[s].result /\ req'[s].dropped = req[s].dropped
    BY <1>0, AnswerTo
  <1>2. CASE RequestFails(s)
    BY <1>0, <1>1, <1>2, NoNewsFits DEF RequestFails, flags
  <1>3. CASE LoseAnswer(s)
    <2>1. ~Trusted'
      BY <1>3 DEF LoseAnswer, Trusted
    <2>2. Known'
      BY <1>0, <1>1 DEF TabFits, Known, SlotsStay, DoneOk
    <2>3. Away'
      BY <1>0, <1>1 DEF TabFits, Away, SlotsStay, InFlight
    <2> QED
      BY <2>1, <2>2, <2>3, DoubtfulFits
  <1> QED
    BY <1>2, <1>3

\* The tab is closed.
LEMMA UnmountFits ==
    ASSUME AllTyped, TabFits, Unmount
    PROVE  TabFits'
  <1>1. \A s \in Slot :
            /\ InFlight(s) => req'[s].dropped
            /\ InFlight(s)' <=> InFlight(s)
            /\ req'[s].result = req[s].result
            /\ req'[s].at = req[s].at /\ req'[s].op = req[s].op
            /\ req'[s].answer = req[s].answer /\ req'[s].config = req[s].config
    BY UnmountTo DEF AllTyped
  <1>2. ~mounted' /\ shown' = {} /\ pressed' = {} /\ status' = status
    BY DEF Unmount, reportVars, dataVars
  <1>3. ~Trusted'
    BY <1>2 DEF Trusted
  <1>4. Known'
    BY <1>1, <1>2 DEF TabFits, Known, DoneOk
  <1>5. Away'
    BY <1>1, <1>2 DEF Away
  <1> QED
    BY <1>3, <1>4, <1>5, DoubtfulFits

\* An answer is taken; what the list becomes agrees with what is left.
LEMMA TakenFits ==
    ASSUME AllTyped, TabFits, NEW s \in Slot, SlotsStay(s), InFlight(s), ~InFlight(s)',
           req'[s].result = {},
           UNCHANGED <<status, mounted, doubtful, pressed>>,
           \A c \in shown' : status[c] # "new",
           Trusted => \A t \in Slot : t # s /\ InCreate(t) => req[t].config \notin shown',
           /\ Trusted /\ ~listError'
           /\ \A t \in Slot : t # s => ~(InList(t) /\ ~req[t].dropped)
           =>
               \A c \in Config :
                   /\ c \in shown' => \/ status[c] = "stored"
                          \/ \E t \in Slot : t # s /\ DoneOk(t, "delete")
                             /\ req[t].config = c
                   /\ status[c] = "stored" => \/ c \in shown'
                          \/ \E t \in Slot : t # s /\ DoneOk(t, "create")
                             /\ req[t].config = c
    PROVE  TabFits'
  <1>1. /\ ~InList(s)' /\ ~InChange(s)' /\ ~InCreate(s)'
        /\ \A op \in {"list", "create", "delete"} : ~DoneOk(s, op)'
    BY DEF InFlight, InList, InChange, InCreate, DoneOk
  <1>2. ASSUME NEW t \in Slot, t # s
        PROVE  /\ req'[t] = req[t]
               /\ InFlight(t)' <=> InFlight(t)
               /\ InList(t)' <=> InList(t)
               /\ InChange(t)' <=> InChange(t)
               /\ InCreate(t)' <=> InCreate(t)
               /\ \A op \in {"list", "create", "delete"} : DoneOk(t, op)' <=> DoneOk(t, op)
    <2>1. req'[t] = req[t]
      BY <1>2 DEF SlotsStay
    <2> QED
      BY <2>1, SameSlot
  <1>3. Trusted' <=> Trusted
    BY DEF Trusted
  <1>4. Known'
    <2>1. ASSUME NEW t \in Slot
          PROVE  /\ \A c \in req'[t].result : status[c] # "new"
                 /\ DoneOk(t, "create")' => status[req'[t].config] # "new"
                 /\ DoneOk(t, "delete")' => status[req'[t].config] = "removed"
      <3>1. CASE t = s
        BY <1>1, <3>1
      <3>2. CASE t # s
        BY <1>2, <3>2 DEF TabFits, Known
      <3> QED
        BY <3>1, <3>2
    <2> QED
      BY <2>1 DEF Known
  <1>5. Away'
    BY <1>2 DEF TabFits, Away
  <1>6. Apart'
    BY <1>1, <1>2, <1>3 DEF TabFits, Apart
  <1>7. ChangesHeard'
    BY <1>1, <1>2, <1>3 DEF TabFits, ChangesHeard
  <1>8. CreatesAlone'
    <2> SUFFICES ASSUME Trusted, NEW t \in Slot, InCreate(t)'
                 PROVE  /\ req'[t].config \notin shown'
                        /\ \A u \in Slot :
                               InChange(u)' /\ req'[u].config = req'[t].config => u = t
                        /\ DoneOk(t, "create")' => status[req'[t].config] = "stored"
      BY <1>3 DEF CreatesAlone
    <2>1. t # s /\ InCreate(t) /\ req'[t] = req[t]
      BY <1>1, <1>2
    <2>2. /\ \A u \in Slot : InChange(u) /\ req[u].config = req[t].config => u = t
          /\ DoneOk(t, "create") => status[req[t].config] = "stored"
      BY <2>1 DEF TabFits, CreatesAlone
    <2>3. \A u \in Slot : InChange(u)' /\ req'[u].config = req'[t].config => u = t
      BY <1>1, <1>2, <2>1, <2>2
    <2> QED
      BY <1>2, <2>1, <2>2, <2>3
  <1>9. ListsFit'
    <2> SUFFICES ASSUME Trusted, NEW t \in Slot, DoneOk(t, "list")', ~req'[t].dropped
                 PROVE  req'[t].result = StoredSet
      BY <1>3 DEF ListsFit, StoredSet
    <2>1. t # s /\ DoneOk(t, "list") /\ req'[t] = req[t]
      BY <1>1, <1>2
    <2> QED
      BY <2>1 DEF TabFits, ListsFit
  <1>10. Agree'
    <2> SUFFICES ASSUME Trusted, ~listError', ~Live', NEW c \in Config
                 PROVE  /\ c \in shown' => \/ status[c] = "stored"
                              \/ \E t \in Slot : DoneOk(t, "delete")' /\ req'[t].config = c
                        /\ status[c] = "stored" => \/ c \in shown'
                              \/ \E t \in Slot : DoneOk(t, "create")' /\ req'[t].config = c
      BY <1>3 DEF Agree
    <2>1. \A t \in Slot : t # s => ~(InList(t) /\ ~req[t].dropped)
      BY <1>2 DEF Live
    <2>2. /\ c \in shown' => \/ status[c] = "stored"
                 \/ \E t \in Slot : t # s /\ DoneOk(t, "delete") /\ req[t].config = c
          /\ status[c] = "stored" => \/ c \in shown'
                 \/ \E t \in Slot : t # s /\ DoneOk(t, "create") /\ req[t].config = c
      BY <2>1
    <2>3. \A t \in Slot, op \in {"create", "delete"} :
              t # s /\ DoneOk(t, op) => DoneOk(t, op)' /\ req'[t].config = req[t].config
      BY <1>2
    <2> QED
      BY <2>2, <2>3
  <1> QED
    BY <1>4, <1>5, <1>6, <1>7, <1>8, <1>9, <1>10 DEF TabFits

\* Every answer.
LEMMA AnsweredFits ==
    ASSUME AllTyped, TabFits, NEW s \in Slot, Answered(s)
    PROVE  TabFits'
  <1>0. /\ SlotsStay(s) /\ ~InFlight(s)' /\ req'[s].result = {}
        /\ req[s].at = "done" /\ InFlight(s)
        /\ UNCHANGED <<status, mounted, doubtful, pressed>>
    BY AnsweredTo DEF Answered, InFlight, reportVars, dataVars, AllTyped
  <1>1. req[s].op \in {"list", "create", "delete"}
    BY <1>0 DEF ReqOK, ReqRow, InFlight, AllTyped
  <1>2. /\ \A c \in shown : status[c] # "new"
        /\ \A c \in req[s].result : status[c] # "new"
        /\ DoneOk(s, "create") => status[req[s].config] # "new"
        /\ DoneOk(s, "delete") => status[req[s].config] = "removed"
    BY DEF TabFits, Known
  <1>3. ASSUME Trusted, NEW t \in Slot, InCreate(t)
        PROVE  /\ req[t].config \notin shown
               /\ \A u \in Slot : InChange(u) /\ req[u].config = req[t].config => u = t
               /\ DoneOk(t, "create") => status[req[t].config] = "stored"
    BY <1>3 DEF TabFits, CreatesAlone
  <1>4. ASSUME Trusted, ~listError, ~Live, NEW c \in Config
        PROVE  /\ c \in shown => \/ status[c] = "stored"
                                 \/ \E t \in Slot : DoneOk(t, "delete") /\ req[t].config = c
               /\ status[c] = "stored" => \/ c \in shown
                                          \/ \E t \in Slot : DoneOk(t, "create")
                                             /\ req[t].config = c
    BY <1>4 DEF TabFits, Agree
  <1>5. ASSUME ~(InList(s) /\ ~req[s].dropped),
               \A t \in Slot : t # s => ~(InList(t) /\ ~req[t].dropped)
        PROVE  ~Live
    BY <1>5 DEF Live
  <1>6. ASSUME req[s].dropped
        PROVE  TabFits'
    <2>1. shown' = shown /\ listError' = listError
      BY <1>6 DEF Answered, flags
    <2>2. Trusted => ~InChange(s)
      BY <1>6 DEF TabFits, ChangesHeard
    <2>3. Trusted => ~DoneOk(s, "delete") /\ ~DoneOk(s, "create")
      BY <2>2 DEF DoneOk, InChange, InFlight
    <2>4. ASSUME Trusted, ~listError,
                 \A t \in Slot : t # s => ~(InList(t) /\ ~req[t].dropped),
                 NEW c \in Config
          PROVE  /\ c \in shown => \/ status[c] = "stored"
                        \/ \E t \in Slot : t # s /\ DoneOk(t, "delete") /\ req[t].config = c
                 /\ status[c] = "stored" => \/ c \in shown
                        \/ \E t \in Slot : t # s /\ DoneOk(t, "create") /\ req[t].config = c
      BY <1>4, <1>5, <1>6, <2>3, <2>4
    <2> QED
      BY <1>0, <1>2, <1>3, <2>1, <2>4, TakenFits
  <1>7. ASSUME ~req[s].dropped, req[s].op = "list"
        PROVE  TabFits'
    <2>1. shown' = (IF Ok(s) THEN req[s].result ELSE shown) /\ (listError' <=> ~Ok(s))
      BY <1>7 DEF Answered, ListAnswered
    <2>2. Trusted => \A t \in Slot : ~InChange(t)
      BY <1>0, <1>7 DEF TabFits, Apart, InList
    <2>3. ASSUME Trusted, ~listError', NEW c \in Config
          PROVE  c \in shown' <=> status[c] = "stored"
      <3>1. DoneOk(s, "list") /\ Ok(s)
        BY <1>0, <1>7, <2>1, <2>3 DEF DoneOk, Ok
      <3>2. req[s].result = StoredSet
        BY <1>7, <2>3, <3>1 DEF TabFits, ListsFit
      <3> QED
        BY <2>1, <3>1, <3>2 DEF StoredSet
    <2>4. \A c \in shown' : status[c] # "new"
      BY <1>2, <2>1
    <2>5. Trusted => \A t \in Slot : ~InCreate(t)
      BY <2>2 DEF InCreate, InChange
    <2> QED
      BY <1>0, <2>3, <2>4, <2>5, TakenFits
  <1>8. ASSUME ~req[s].dropped, req[s].op = "create"
        PROVE  TabFits'
    <2> DEFINE k == req[s].config
    <2>1. shown' = (IF Ok(s) THEN shown \cup {k} ELSE shown) /\ listError' = listError
      BY <1>8 DEF Answered, CreateAnswered
    <2>2. InCreate(s) /\ InChange(s) /\ (Ok(s) <=> DoneOk(s, "create"))
          /\ ~DoneOk(s, "delete")
          /\ ~InList(s)
      BY <1>0, <1>8 DEF InCreate, InChange, InList, Ok, DoneOk
    <2>3. \A c \in shown' : status[c] # "new"
      BY <1>2, <2>1, <2>2
    <2>4. ASSUME Trusted, NEW t \in Slot, t # s, InCreate(t)
          PROVE  req[t].config \notin shown'
      BY <1>3, <2>1, <2>2, <2>4
    <2>5. ASSUME Trusted, ~listError,
                 \A t \in Slot : t # s => ~(InList(t) /\ ~req[t].dropped),
                 NEW c \in Config
          PROVE  /\ c \in shown' => \/ status[c] = "stored"
                        \/ \E t \in Slot : t # s /\ DoneOk(t, "delete") /\ req[t].config = c
                 /\ status[c] = "stored" => \/ c \in shown'
                        \/ \E t \in Slot : t # s /\ DoneOk(t, "create") /\ req[t].config = c
      <3>1. /\ c \in shown => \/ status[c] = "stored"
                              \/ \E t \in Slot : t # s /\ DoneOk(t, "delete")
                                 /\ req[t].config = c
            /\ status[c] = "stored" => \/ c \in shown
                                       \/ \E t \in Slot : DoneOk(t, "create")
                                          /\ req[t].config = c
        BY <1>4, <1>5, <2>2, <2>5
      <3>2. DoneOk(s, "create") => status[k] = "stored"
        BY <1>3, <2>2, <2>5
      <3>3. c \in shown' => c \in shown \/ (c = k /\ DoneOk(s, "create"))
        BY <2>1, <2>2
      <3>4. c \in shown \/ (c = k /\ DoneOk(s, "create")) => c \in shown'
        BY <2>1, <2>2
      <3> QED
        BY <3>1, <3>2, <3>3, <3>4
    <2> QED
      BY <1>0, <2>1, <2>3, <2>4, <2>5, TakenFits
  <1>9. ASSUME ~req[s].dropped, req[s].op = "delete"
        PROVE  TabFits'
    <2> DEFINE k == req[s].config
    <2>1. shown' = (IF Ok(s) THEN shown \ {k} ELSE shown) /\ listError' = listError
      BY <1>9 DEF Answered, DeleteAnswered
    <2>2. (Ok(s) <=> DoneOk(s, "delete")) /\ ~DoneOk(s, "create") /\ ~InList(s)
      BY <1>0, <1>9 DEF InList, Ok, DoneOk
    <2>3. \A c \in shown' : status[c] # "new"
      BY <1>2, <2>1
    <2>4. ASSUME Trusted, NEW t \in Slot, t # s, InCreate(t)
          PROVE  req[t].config \notin shown'
      BY <1>3, <2>1, <2>4
    <2>5. ASSUME Trusted, ~listError,
                 \A t \in Slot : t # s => ~(InList(t) /\ ~req[t].dropped),
                 NEW c \in Config
          PROVE  /\ c \in shown' => \/ status[c] = "stored"
                        \/ \E t \in Slot : t # s /\ DoneOk(t, "delete") /\ req[t].config = c
                 /\ status[c] = "stored" => \/ c \in shown'
                        \/ \E t \in Slot : t # s /\ DoneOk(t, "create") /\ req[t].config = c
      <3>1. /\ c \in shown => \/ status[c] = "stored"
                              \/ \E t \in Slot : DoneOk(t, "delete") /\ req[t].config = c
            /\ status[c] = "stored" => \/ c \in shown
                              \/ \E t \in Slot : t # s /\ DoneOk(t, "create")
                                 /\ req[t].config = c
        BY <1>4, <1>5, <2>2, <2>5
      <3>2. DoneOk(s, "delete") => status[k] = "removed"
        BY <1>2
      <3>3. c \in shown' => c \in shown /\ ~(c = k /\ DoneOk(s, "delete"))
        BY <2>1, <2>2
      <3>4. c \in shown /\ ~(c = k /\ DoneOk(s, "delete")) => c \in shown'
        BY <2>1, <2>2
      <3> QED
        BY <3>1, <3>2, <3>3, <3>4
    <2> QED
      BY <1>0, <2>1, <2>3, <2>4, <2>5, TakenFits
  <1> QED
    BY <1>1, <1>6, <1>7, <1>8, <1>9

\* Only requests create and delete configurations.
LEMMA StatusStays ==
    ASSUME Worker \/ Hour
    PROVE  status' = status
  BY DEF Worker, Generate, TickStart, StartTick, TickFails, LoadConfig, LoadConnection,
     Fetch, Send, Store, SendFails, StoreFails, Crash, SoftDelete, Restore, Hour, dataVars

\* Every step keeps TabFits.
LEMMA NextFits ==
    ASSUME AllTyped, TabFits, [Next]_vars
    PROVE  TabFits'
  <1> USE DEF dataVars, flags
  <1>1. CASE WorkerStep
    <2>1. status' = status
      BY <1>1, StatusStays DEF WorkerStep
    <2>2. UNCHANGED <<shown, req, mounted, doubtful, listError, pressed>>
      BY <1>1 DEF WorkerStep, tabVars
    <2> QED
      BY <2>1, <2>2, SameTab DEF TabFits, Away
  <1>2. ASSUME NEW s \in Slot, Server(s) \/ Answered(s)
        PROVE  TabFits'
    BY <1>2, ServerFits, AnsweredFits
  <1>3. ASSUME NEW s \in Slot, RequestFails(s) \/ LoseAnswer(s),
               UNCHANGED <<mounted, shown, flags, pressed>>
        PROVE  TabFits'
    BY <1>3, FailureFits
  <1>4. ASSUME NEW s \in Slot, Mount(s)
        PROVE  TabFits'
    <2>1. /\ Free(s) /\ req' = [req EXCEPT ![s] = Started("list", NoConfig)]
          /\ ~mounted /\ mounted' /\ UNCHANGED <<status, shown>> /\ (doubtful' <=> Changing)
      BY <1>4 DEF Mount, LoadConfigs, reportVars
    <2> QED
      BY <2>1, StartListFits
  <1>5. ASSUME NEW s \in Slot, HandleCreate(s)
        PROVE  TabFits'
    <2>1. PICK c \in Config :
              /\ status[c] = "new"
              /\ \A t \in Slot : InFlight(t) => req[t].config # c
              /\ Change(s, "create", c)
      BY <1>5 DEF HandleCreate
    <2> QED
      BY <2>1, StartChangeFits
  <1>6. ASSUME NEW s \in Slot, NEW c \in Config, HandleDelete(s, c)
        PROVE  TabFits'
    BY <1>6, StartChangeFits DEF HandleDelete, RowShown
  <1>7. ASSUME NEW m \in Manual, NEW c \in Config, HandleGenerate(m, c)
        PROVE  TabFits'
    <2>1. mounted /\ UNCHANGED <<status, shown, req, mounted, doubtful, listError>>
      BY <1>7 DEF HandleGenerate, GenerateRequest
    <2> QED
      BY <2>1, SameTab
  <1>8. ASSUME NEW m \in Manual, GenerateAnswered(m)
        PROVE  TabFits'
    <2>1. UNCHANGED <<status, shown, mounted>> /\ pressed' = pressed \ {m}
          /\ gen[m].at = "done"
      BY <1>8 DEF GenerateAnswered
    <2>2. CASE UNCHANGED <<req, doubtful, listError>>
      <3>1. ~mounted => pressed' = {}
        BY <2>1 DEF TabFits, Away
      <3> QED
        BY <2>1, <2>2, <3>1, SameTab
    <2>3. ASSUME m \in pressed, NEW s \in Slot, LoadConfigs(s, gen[m].config),
                 doubtful' = (doubtful \/ Changing)
          PROVE  TabFits'
      <3>1. mounted /\ mounted'
        BY <2>1, <2>3 DEF TabFits, Away
      <3>2. gen[m].config \in Config
        BY <2>1, ManualApart DEF AllTyped, RType, GenOK
      <3> QED
        BY <2>1, <2>3, <3>1, <3>2, StartListFits DEF LoadConfigs
    <2> QED
      BY <1>8, <2>2, <2>3 DEF GenerateAnswered, GenerateRefused
  <1>9. CASE Unmount
    BY <1>9, UnmountFits
  <1>10. CASE UNCHANGED vars
    BY <1>10, SameTab DEF vars, tabVars, reportVars, TabFits, Away
  <1> QED
    BY <1>1, <1>2, <1>3, <1>4, <1>5, <1>6, <1>7, <1>8, <1>9, <1>10 DEF Next

------------------------------------------------------------------------------
(* The invariant and the theorems.                                          *)

\* The invariant holds at first.
LEMMA InitFits ==
    ASSUME Init
    PROVE  IInv
  <1> USE DEF Init, ReportInit, Cleared
  <1>1. gen = [g \in Generation |-> Idle] /\ req = [s \in Slot |-> NoRequest]
    OBVIOUS
  <1>2. \A g \in Generation : gen[g] = Idle
    BY <1>1
  <1>3. \A s \in Slot : req[s] = NoRequest
    BY <1>1
  <1>4. gen \in [Generation -> GenRow] /\ req \in [Slot -> ReqRow]
    BY <1>1, IdleFields, NoRequestFields
  <1>5. \A s \in Slot : ~InFlight(s) /\ req[s].op = "none" /\ req[s].result = {}
                        /\ req[s].at = "idle"
    BY <1>3, NoRequestFields DEF InFlight
  <1>6. \A g \in Generation : gen[g].at = "idle" /\ gen[g].answer = "none"
    BY <1>2, IdleFields
  <1>7. ReportTypeOK
    <2>1. lastSent \in [Config -> 0 .. Never] /\ since \in [Config -> 0 .. Never]
          /\ waiting \in [Config -> 0 .. Cap]
      BY DaysAndWeeks DEF Never
    <2>2. hour \in 0 .. DayHours * WeekDays - 1
      BY DaysAndWeeks DEF Week
    <2>3. events \in 0 .. MaxEvents
      BY ReportAssumption
    <2>4. /\ conn \in [Conn -> {"live", "deleted"}]
          /\ status \in [Config -> {"new", "stored", "removed"}]
          /\ row \in Rows /\ ticked \in BOOLEAN
          /\ {unstored, overlapped} \subseteq SUBSET Config
      OBVIOUS
    <2> QED
      BY <1>6, <2>1, <2>2, <2>3, <2>4 DEF ReportTypeOK
  <1>8. TypeOK
    BY <1>4, <1>5, <1>7 DEF TypeOK, ReqRow
  <1>9. TInv
    BY <1>4, <1>5, <1>6, <1>8, ConfigsGenerate DEF TInv
  <1>10. RepeatFits
    <2>1. SinceStored
      BY DaysAndWeeks DEF SinceStored, Never
    <2> QED
      BY <1>6, <2>1, ConfigsGenerate DEF RepeatFits, Overlaps, DueLoaded, Running
  <1>11. WaitFits
    <2>1. RType
      BY <1>9, TypesTaken DEF AllTyped
    <2>2. \A c \in Config : waiting[c] = 0
      OBVIOUS
    <2>3. \A c \in Config : Allowed(c) \in Nat /\ lastSent[c] \in Nat
      BY <2>1, AllowedBounds DEF RType
    <2>4. WaitingSent /\ WaitingAllowed
      BY <2>2, <2>3 DEF WaitingSent, WaitingAllowed
    <2> QED
      BY <1>6, <2>4 DEF WaitFits, StoreSent, WaitingTicked
  <1>12. TabFits
    BY <1>5 DEF TabFits, Known, Away, Apart, ChangesHeard, CreatesAlone, ListsFit, Agree,
       Trusted, DoneOk
  <1> QED
    BY <1>9, <1>10, <1>11, <1>12 DEF IInv

\* Every step keeps it.
LEMMA NextKeepsIInv ==
    ASSUME IInv, [Next]_vars
    PROVE  IInv'
  <1>1. TInv'
    BY NextTyped DEF IInv
  <1>2. AllTyped /\ RType
    BY TypesTaken DEF IInv, AllTyped
  <1>3. ReportStep
    BY ReportSteps DEF IInv
  <1>4. RType'
    BY <1>2, <1>3, StepTyped
  <1>5. RepeatFits'
    BY <1>2, <1>3, StepNoRepeat DEF IInv
  <1>6. WaitFits'
    BY <1>2, <1>3, <1>4, StepForgetsNone DEF IInv
  <1>7. TabFits'
    BY <1>2, NextFits DEF IInv
  <1> QED
    BY <1>1, <1>5, <1>6, <1>7 DEF IInv

\* The inductive invariant holds throughout.
THEOREM ReportInvariant == Spec => []IInv
  BY InitFits, NextKeepsIInv, PTL DEF Spec

\* Every variable of Reports and of the tab has its type, and the handlers of
\* WeeklyReportsTab.vue find the requests they expect.
THEOREM ReportTypeCorrect == Spec => []TypeOK
  <1>1. IInv => TypeOK
    BY DEF IInv, TInv
  <1> QED
    BY <1>1, ReportInvariant, PTL

\* A report that nothing stands in the way of is sent within a period and an
\* hour, and a weekly one never misses two of its days in a row, whatever the
\* calendar and the rows.  It may miss one: isDue of report_config.ts asks for
\* seven whole days since the last report was stored (see SentOnItsDay).
THEOREM NeverForgotten == Spec => []NotForgotten
  <1>1. IInv => NotForgotten
    <2> SUFFICES ASSUME IInv, NEW c \in Config, status[c] = "stored"
                 PROVE  waiting[c] <= LongestWait(row[c].frequency)
      BY DEF NotForgotten
    <2>1. RType
      BY TypesTaken DEF IInv, AllTyped
    <2>2. waiting[c] <= Allowed(c)
      BY DEF IInv, WaitFits, WaitingAllowed
    <2>3. Allowed(c) \in Nat /\ Allowed(c) <= LongestWait(row[c].frequency)
      BY <2>1, AllowedBounds
    <2>4. waiting[c] \in Nat
      BY <2>1, DaysAndWeeks DEF RType
    <2>5. LongestWait(row[c].frequency) \in Nat
      <3>1. row[c].frequency \in {"daily", "weekly", "monthly"}
        BY <2>1, RowsTyped DEF RType
      <3> QED
        BY <3>1, Periods, DaysAndWeeks DEF LongestWait
    <2> QED
      BY <2>2, <2>3, <2>4, <2>5
  <1> QED
    BY <1>1, ReportInvariant, PTL

\* generateForConfig sends a report of the tick only when a whole period has
\* passed since the last one, or when updateLastSentAt failed or a request
\* overlaps, for every number of requests.
THEOREM NeverRepeated == Spec => NoRepeat
  <1>1. IInv /\ [Next]_vars =>
          [\A c \in Config :
              gen[c].at = "send" /\ gen'[c].at = "store" =>
                  \/ since[c] >= Period(row[c].frequency)
                  \/ c \in unstored
                  \/ c \in overlapped]_reportVars
    BY DEF IInv, RepeatFits, DueLoaded
  <1> QED
    BY <1>1, ReportInvariant, PTL DEF Spec, NoRepeat

\* The handlers of WeeklyReportsTab.vue that patch the list locally keep the
\* ids it lists those of the stored configurations, for every number of
\* requests and whatever the order of their answers.  It says nothing of
\* last_sent_at, which the worker changes behind the tab.
THEOREM ConfigsAlwaysShown == Spec => []ShownConfigs
  <1>1. IInv => ShownConfigs
    <2> SUFFICES ASSUME IInv, mounted, ~doubtful, ~listError, \A s \in Slot : ~InFlight(s)
                 PROVE  shown = {c \in Config : status[c] = "stored"}
      BY DEF ShownConfigs
    <2>1. Trusted /\ ~Live
      BY DEF Trusted, Live, InList
    <2>2. \A s \in Slot, op \in {"create", "delete"} : ~DoneOk(s, op)
      BY DEF DoneOk, InFlight
    <2>3. \A c \in Config : c \in shown <=> status[c] = "stored"
      BY <2>1, <2>2 DEF IInv, TabFits, Agree
    <2>4. shown \subseteq Config
      BY DEF IInv, TInv, TypeOK
    <2> QED
      BY <2>3, <2>4
  <1> QED
    BY <1>1, ReportInvariant, PTL
==============================================================================
