--------------------------- MODULE DownloadSchedules ---------------------------
(***************************************************************************)
(* The download schedules of the API (apps/api/downloader_routes.py): a    *)
(* dictionary in memory under a lock, its copy in a file that is written   *)
(* in place outside the lock, the requests that change both, and the tick  *)
(* that reads them and creates jobs.  The tick and the requests use the    *)
(* trade calendar too.                                                     *)
(*                                                                         *)
(* All schedules have one trigger time, and the interface decides which    *)
(* frequency a schedule has.  The run key of a minute is its day.  Of the  *)
(* jobs only whether they keep the next one from starting is kept.         *)
(***************************************************************************)
EXTENDS TradeCalendar

CONSTANTS
    Interface,
    TradeDaily,     \* interfaces with the frequency trade_day; others are daily
    Request,        \* threads that serve requests
    tick,           \* the thread of the schedule loop
    Ranges,         \* the days that a request may refresh the calendar for
    LastDay,        \* bound on the date
    None

ASSUME SchedulesAssumption ==
    /\ TradeDaily \subseteq Interface
    /\ tick \notin Request
    /\ User = Request \cup {tick}
    /\ LastDay \in Nat
    /\ Ranges \subseteq SUBSET Int
    /\ None \notin Interface

VARIABLES
    clock,          \* before, at or after the trigger time of today
    memory,         \* _schedules
    file,           \* whether the file is missing, good or torn
    disk,           \* the schedules in it
    blocked,        \* interfaces whose next job would be skipped
    pc,             \* where each thread is
    item,           \* the interface it works on
    snap,           \* the schedules it has read or is about to write
    shared,         \* those of them that are still objects of the memory
    tickDay,        \* the tick's day at the trigger time, otherwise 0
    todo,           \* due schedules that the tick has not reached
    startedOn,      \* history: the run key of an interface's last job
    disturbed       \* history: days with a request or a crash since the trigger time

storeVars == <<memory, file, disk>>
threadVars == <<pc, item, snap, shared, tickDay, todo>>
historyVars == <<startedOn, disturbed>>
timeVars == <<today, clock>>
vars == <<timeVars, calendarVars, storeVars, blocked, threadVars, historyVars>>

Thread == Request \cup {tick}
Absent == [state |-> "absent", key |-> 0]
Nothing == [i \in Interface |-> Absent]

Init ==
    /\ today = 1
    /\ clock = "before"
    /\ InitCalendar
    /\ disk \in [Interface -> {Absent, [state |-> "on", key |-> 0]}]
    /\ file = IF disk = Nothing THEN "missing" ELSE "good"
    /\ memory = disk
    /\ blocked = {}
    /\ pc = [t \in Thread |-> "idle"]
    /\ item = [t \in Thread |-> None]
    /\ snap = [t \in Thread |-> Nothing]
    /\ shared = [t \in Thread |-> {}]
    /\ tickDay = 0 /\ todo = {}
    /\ startedOn = [i \in Interface |-> 0]
    /\ disturbed = {}

Go(t, s) == pc' = [pc EXCEPT ![t] = s]
Disturb(t) ==
    disturbed' = IF t = tick THEN disturbed ELSE disturbed \cup ({today, tickDay} \ {0})

-----------------------------------------------------------------------------
(* Reading the file: _load_schedules_from_disk. *)
AfterLoad(t) ==
    CASE t = tick -> "listing"
      [] t # tick /\ item[t] = None -> "idle"
      [] OTHER -> "disabling"

ReadFile(t) ==
    /\ pc[t] = "loading"
    /\ Go(t, IF file = "good" THEN "installing" ELSE AfterLoad(t))
    /\ memory' = IF file = "missing" THEN Nothing ELSE memory
    /\ snap' = [snap EXCEPT ![t] = IF file = "good" THEN disk ELSE @]
    /\ shared' = IF file = "missing" THEN [u \in Thread |-> {}] ELSE shared
    /\ Disturb(t)
    /\ UNCHANGED <<timeVars, calendarVars, file, disk, blocked, item, tickDay, todo, startedOn>>

Install(t) ==
    /\ pc[t] = "installing"
    /\ memory' = snap[t]
    /\ shared' = [u \in Thread |-> {}]
    /\ snap' = [snap EXCEPT ![t] = Nothing]
    /\ Go(t, AfterLoad(t))
    /\ Disturb(t)
    /\ UNCHANGED <<timeVars, calendarVars, file, disk, blocked, item, tickDay, todo, startedOn>>

(***************************************************************************)
(* Writing it: the dictionary that is written is a copy, but its entries   *)
(* are the objects of the memory until they are turned into text.          *)
(***************************************************************************)
OpenFile(t) ==
    /\ pc[t] = "dumping"
    /\ file' = "torn"
    /\ shared' = [shared EXCEPT ![t] = {}]
    /\ Go(t, "filling")
    /\ Disturb(t)
    /\ UNCHANGED <<timeVars, calendarVars, memory, disk, blocked, item, snap, tickDay, todo, startedOn>>

FillFile(t) ==
    /\ pc[t] \in {"filling", "overlaid"}
    /\ disk' = snap[t]
    /\ snap' = [snap EXCEPT ![t] = Nothing]
    /\ file' \in IF pc[t] = "overlaid" THEN {"good", "torn"} ELSE {"good"}
    /\ pc' = [u \in Thread |->
          CASE u = t -> IF t = tick THEN "serving" ELSE "idle"
            [] u # t /\ pc[u] = "filling" -> "overlaid"
            [] OTHER -> pc[u]]
    /\ Disturb(t)
    /\ UNCHANGED <<timeVars, calendarVars, memory, blocked, item, shared, tickDay, todo, startedOn>>

\* A new entry takes the place of the old one.
Put(t, i, entry) ==
    /\ memory' = [memory EXCEPT ![i] = entry]
    /\ snap' = [snap EXCEPT ![t] = memory']
    /\ shared' = [u \in Thread |-> IF u = t THEN Interface ELSE shared[u] \ {i}]

\* The entry is changed, in every copy of the dictionary that has it.
Change(i, entry) ==
    /\ memory' = [memory EXCEPT ![i] = entry]
    /\ snap' = [u \in Thread |->
          CASE u = tick -> memory'
            [] u # tick /\ i \in shared[u] -> [snap[u] EXCEPT ![i] = entry]
            [] OTHER -> snap[u]]
    /\ shared' = [shared EXCEPT ![tick] = Interface]

-----------------------------------------------------------------------------
(* Requests. *)
Accept(t, i, s) ==
    /\ pc[t] = "idle"
    /\ Go(t, s)
    /\ item' = [item EXCEPT ![t] = i]
    /\ Disturb(t)
    /\ UNCHANGED <<timeVars, cached, unreadable, storeVars, blocked, snap, shared, tickDay, todo,
                   startedOn>>

EnableStarts(t, i) ==
    IF i \in TradeDaily
    THEN Accept(t, i, "asking") /\ EnsureToday(t, today)
    ELSE Accept(t, i, "enabling") /\ UNCHANGED call

DisableStarts(t, i) == Accept(t, i, "loading") /\ UNCHANGED call
GetSchedule(t) == Accept(t, None, "loading") /\ UNCHANGED call

\* calendar_routes.refresh_calendar_cache, and the maintenance of the API
RefreshCalendar(t) ==
    /\ Accept(t, None, "refreshing")
    /\ \/ \E days \in Ranges : Refresh(t, days, RecheckPast)
       \/ Ensure(t)

CalendarDone(t) == call[t].step \in {"answered", "raised"}
HangUp(t) == call' = [call EXCEPT ![t] = NoCall]

CalendarAnswers(t) ==
    /\ pc[t] \in {"asking", "refreshing"}
    /\ CalendarDone(t)
    /\ Go(t, IF pc[t] = "asking" /\ call[t].step = "answered" THEN "enabling" ELSE "idle")
    /\ HangUp(t)
    /\ Disturb(t)
    /\ UNCHANGED <<timeVars, cached, unreadable, storeVars, blocked, item, snap, shared, tickDay,
                   todo, startedOn>>

\* The marks of the previous schedule stay.  Options that differ make another
\* signature, of which there is no job yet.
Enable(t) ==
    /\ pc[t] = "enabling"
    /\ \E s \in {"on", "off"} : Put(t, item[t], [memory[item[t]] EXCEPT !.state = s])
    /\ blocked' = blocked \/ blocked' = blocked \ {item[t]}
    /\ Go(t, "dumping")
    /\ Disturb(t)
    /\ UNCHANGED <<timeVars, calendarVars, file, disk, item, tickDay, todo, startedOn>>

Disable(t) ==
    /\ pc[t] = "disabling"
    /\ IF memory[item[t]] = Absent
       THEN Go(t, "idle") /\ UNCHANGED <<memory, snap, shared>>
       ELSE Go(t, "dumping") /\ Put(t, item[t], [memory[item[t]] EXCEPT !.state = "off"])
    /\ Disturb(t)
    /\ UNCHANGED <<timeVars, calendarVars, file, disk, blocked, item, tickDay, todo, startedOn>>

-----------------------------------------------------------------------------
(* The tick: _tick_download_schedules.  Its time is that of its beginning. *)
TickStarts ==
    /\ pc[tick] = "idle"
    /\ tickDay' = IF clock = "at" THEN today ELSE 0
    /\ Go(tick, "loading")
    /\ UNCHANGED <<timeVars, calendarVars, storeVars, blocked, item, snap, shared, todo, historyVars>>

\* _schedule_due on copies of the entries
Due(i) == tickDay # 0 /\ memory[i].state = "on" /\ memory[i].key # tickDay

TakeList ==
    /\ pc[tick] = "listing"
    /\ todo' = {i \in Interface : Due(i)}
    /\ Go(tick, "serving")
    /\ UNCHANGED <<timeVars, calendarVars, storeVars, blocked, item, snap, shared, tickDay, historyVars>>

\* Variant: the calendar is asked for the date at the time of the call.
DayNow == today

DayAsked == tickDay

Serve(i) ==
    /\ pc[tick] = "serving"
    /\ i \in todo
    /\ todo' = todo \ {i}
    /\ item' = [item EXCEPT ![tick] = i]
    /\ IF i \in TradeDaily
       THEN Go(tick, "asking") /\ EnsureToday(tick, DayAsked)
       ELSE Go(tick, "creating") /\ UNCHANGED calendarVars
    /\ UNCHANGED <<timeVars, storeVars, blocked, snap, shared, tickDay, historyVars>>

\* An exception of the calendar ends the whole tick.
TradeDayKnown ==
    /\ pc[tick] = "asking"
    /\ CalendarDone(tick)
    /\ HangUp(tick)
    /\ IF call[tick].step = "raised"
       THEN Go(tick, "idle") /\ todo' = {}
       ELSE Go(tick, IF call[tick].open THEN "creating" ELSE "checked") /\ UNCHANGED todo
    /\ UNCHANGED <<timeVars, cached, unreadable, storeVars, blocked, item, snap, shared, tickDay,
                   historyVars>>

\* _resolve_resource_request may raise.
ResolveFails ==
    /\ pc[tick] = "creating"
    /\ Go(tick, "checked")
    /\ UNCHANGED <<timeVars, calendarVars, storeVars, blocked, item, snap, shared, tickDay, todo,
                   historyVars>>

\* _create_job, without the details of DownloadJobs
CreateJob(i) ==
    /\ pc[tick] = "creating"
    /\ i = item[tick]
    /\ Go(tick, "marking")
    /\ blocked' = blocked \cup {i}
    /\ startedOn' = IF i \in blocked THEN startedOn ELSE [startedOn EXCEPT ![i] = tickDay]
    /\ UNCHANGED <<timeVars, calendarVars, storeVars, item, snap, shared, tickDay, todo, disturbed>>

\* Variant: the run key is left to the next successful job.
OnlyChecked(i) == memory[i]

Marked(i) == [memory[i] EXCEPT !.key = tickDay]

\* _mark_schedule_triggered and _mark_schedule_checked
Mark(i) ==
    /\ pc[tick] \in {"marking", "checked"}
    /\ i = item[tick]
    /\ IF memory[i] = Absent
       THEN Go(tick, "serving") /\ UNCHANGED <<memory, snap, shared>>
       ELSE /\ Go(tick, "dumping")
            /\ Change(i, IF pc[tick] = "marking" THEN Marked(i) ELSE memory[i])
    /\ UNCHANGED <<timeVars, calendarVars, file, disk, blocked, item, tickDay, todo, historyVars>>

TickEnds ==
    /\ pc[tick] = "serving"
    /\ todo = {}
    /\ Go(tick, "idle")
    /\ UNCHANGED <<timeVars, calendarVars, storeVars, blocked, item, snap, shared, tickDay, todo,
                   historyVars>>

-----------------------------------------------------------------------------
(* The world around. *)
CalendarWorks(t) ==
    /\ CalendarStep(t)
    /\ UNCHANGED <<timeVars, storeVars, blocked, threadVars, historyVars>>

\* Its job has ended with an error that has no backoff, or what kept the next
\* one from starting, a success or a backoff, is out of date.
Unblock(i) ==
    /\ i \in blocked
    /\ blocked' = blocked \ {i}
    /\ UNCHANGED <<timeVars, calendarVars, storeVars, threadVars, historyVars>>

ClockTicks ==
    /\ clock # "after"
    /\ clock' = IF clock = "before" THEN "at" ELSE "after"
    /\ disturbed' = IF clock = "before" THEN disturbed \ {today} ELSE disturbed
    /\ UNCHANGED <<today, calendarVars, storeVars, blocked, threadVars, startedOn>>

NextDay ==
    /\ clock = "after"
    /\ today < LastDay
    /\ today' = today + 1
    /\ clock' = "before"
    /\ UNCHANGED <<calendarVars, storeVars, blocked, threadVars, historyVars>>

\* The process ends anywhere and starts again: what it was writing stays torn.
Restart ==
    /\ memory' = IF file = "good" THEN disk ELSE Nothing
    /\ blocked' = {}
    /\ pc' = [t \in Thread |-> "idle"]
    /\ item' = [t \in Thread |-> None]
    /\ snap' = [t \in Thread |-> Nothing]
    /\ shared' = [t \in Thread |-> {}]
    /\ tickDay' = 0 /\ todo' = {}
    /\ call' = [u \in User |-> NoCall]
    /\ disturbed' = disturbed \cup ({today, tickDay} \ {0})
    /\ UNCHANGED <<timeVars, cached, unreadable, file, disk, startedOn>>

TickStep ==
    \/ TickStarts \/ TakeList \/ TradeDayKnown \/ ResolveFails \/ TickEnds
    \/ \E i \in Interface : Serve(i) \/ CreateJob(i) \/ Mark(i)

RequestStarts(t) ==
    \/ GetSchedule(t) \/ RefreshCalendar(t)
    \/ \E i \in Interface : EnableStarts(t, i) \/ DisableStarts(t, i)

RequestStep(t) == CalendarAnswers(t) \/ Enable(t) \/ Disable(t)

FileStep(t) == ReadFile(t) \/ Install(t) \/ OpenFile(t) \/ FillFile(t)

Continue ==
    \/ TickStep \/ ClockTicks \/ NextDay
    \/ \E t \in Request : RequestStep(t)
    \/ \E t \in Thread : FileStep(t) \/ CalendarWorks(t)
    \/ \E i \in Interface : Unblock(i)

Next == Continue \/ (\E t \in Request : RequestStarts(t)) \/ Restart

Spec == Init /\ [][Next]_vars

-----------------------------------------------------------------------------
Schedules == [Interface -> [state : {"absent", "on", "off"}, key : Nat]]
ThreadStep == {"idle", "loading", "installing", "listing", "serving", "asking", "creating",
               "marking", "checked", "dumping", "filling", "overlaid",
               "enabling", "disabling", "refreshing"}

\* Every variable keeps its type, and an entry that several threads share has
\* one value (the copies made by dict(_schedules) are shallow).
TypeOK ==
    /\ CalendarTypeOK
    /\ clock \in {"before", "at", "after"}
    /\ memory \in Schedules /\ disk \in Schedules
    /\ file \in {"missing", "good", "torn"}
    /\ blocked \subseteq Interface
    /\ pc \in [Thread -> ThreadStep]
    /\ item \in [Thread -> Interface \cup {None}]
    /\ snap \in [Thread -> Schedules]
    /\ shared \in [Thread -> SUBSET Interface]
    /\ \A t \in Thread : \A i \in shared[t] : snap[t][i] = memory[i]
    /\ tickDay \in Nat
    /\ todo \subseteq Interface
    /\ startedOn \in [Interface -> Nat]
    /\ disturbed \subseteq Nat

\* A schedule starts one job in its minute, although the loop looks more than
\* once and although its job may end at once without a backoff; unless
\* a request or a crash comes between the job and its mark.
OncePerMinute ==
    [][\A i \in blocked' \ blocked : startedOn[i] = tickDay => tickDay \in disturbed]_vars

\* A schedule for trading days starts no job for another day, however late the
\* tick gets there, and no thread is told that a trading day is none unless
\* another thread wrote to the calendar in the meantime.
TradeDaysOnly ==
    /\ \A i \in TradeDaily : startedOn[i] \in OpenDays \cup {0}
    /\ \A u \in User :
         call[u].step = "answered" /\ call[u].alone /\ call[u].ensure =>
            (call[u].open <=> call[u].day \in OpenDays)
=============================================================================
