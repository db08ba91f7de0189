------------------------- MODULE DownloadSchedulesProofs -------------------------
(***************************************************************************)
(* Proofs about TradeCalendar and DownloadSchedules, for any days,         *)
(* interfaces and requests.                                                *)
(***************************************************************************)
EXTENDS DownloadSchedules, TLAPS

\* The days that a call of ensure_trade_calendar_cache has to cover.
Ahead(c) == (c.day .. c.day + Future) \cap Published

\* What a call has made of its days.
CallFits(c) ==
    /\ c.open => c.day \in OpenDays
    /\ c.ensure =>
         /\ c.step = "reading" => Ahead(c) \subseteq c.days /\ c.recheck <= c.day
         /\ c.step = "fetching" => Ahead(c) \subseteq c.days
         /\ c.step \in {"merged", "writing", "overlaid"} => Ahead(c) \subseteq c.rows
         /\ c.step = "written" /\ c.alone => Ahead(c) \subseteq cached
         /\ c.step = "answered" /\ c.alone => (c.open <=> c.day \in OpenDays)

CallsFit == \A u \in User : CallFits(call[u])

\* The tick asks for its own day and creates jobs on trading days only.
AskedFits ==
    /\ pc[tick] = "asking" /\ call[tick].step # "raised" => call[tick].day = tickDay
    /\ pc[tick] = "creating" /\ item[tick] \in TradeDaily => tickDay \in OpenDays
    /\ \A i \in TradeDaily : startedOn[i] \in OpenDays \cup {0}

\* No job is of a later day than its tick, and no tick of a later day than today.
DatesFit ==
    /\ today \in Nat
    /\ tickDay <= today
    /\ \A i \in Interface : startedOn[i] <= today /\ (tickDay # 0 => startedOn[i] <= tickDay)
    /\ clock = "before" => tickDay < today /\ \A i \in Interface : startedOn[i] < today

\* What the tick has taken up and not yet started.
Pending == todo \cup IF pc[tick] \in {"asking", "creating"} THEN {item[tick]} ELSE {}

TickFits ==
    /\ pc[tick] \in {"idle", "loading", "installing", "listing"} => todo = {}
    /\ pc[tick] \in {"asking", "creating", "marking", "checked"} =>
         item[tick] \notin todo /\ tickDay # 0
    /\ todo # {} => tickDay # 0

PendingFits ==
    tickDay \notin disturbed =>
        \A i \in Pending : startedOn[i] # tickDay /\ memory[i] # Absent

\* A job whose day nobody has disturbed is marked in the memory and in the
\* file, or the tick is about to do it.
Unmarked(i) ==
    pc[tick] = "marking" /\ item[tick] = i /\ startedOn[i] = tickDay /\ memory[i] # Absent

IsMarked(i) ==
    /\ memory[i].key = startedOn[i]
    /\ pc[tick] \in {"installing", "dumping", "filling", "overlaid"} => snap[tick][i].key = startedOn[i]
    /\ pc[tick] \notin {"dumping", "filling", "overlaid"} =>
         file # "missing" /\ (file = "good" => disk[i].key = startedOn[i])

MarksFit ==
    \A i \in Interface :
        startedOn[i] \in {today, tickDay} \ ({0} \cup disturbed) => Unmarked(i) \/ IsMarked(i)

-----------------------------------------------------------------------------
(* Types. *)

Calls == [step : CallStep, day : Int, days : SUBSET Int, recheck : Int,
          rows : SUBSET Published, ensure : BOOLEAN, alone : BOOLEAN, open : BOOLEAN]

Entries == [state : {"absent", "on", "off"}, key : Nat]

LEMMA NoCallIsCall == NoCall \in Calls
  BY DEF NoCall, Calls, CallStep

LEMMA EnsuringIsCall == ASSUME NEW d \in Int PROVE Ensuring(d) \in Calls
  <1>1. d - Past .. d + Future \in SUBSET Int
    BY CalendarAssumption
  <1>2. (IF d \in FirstOfMonth THEN d - RecheckPast ELSE d) \in Int
    BY CalendarAssumption
  <1> QED BY <1>1, <1>2 DEF Ensuring, NoCall, Calls, CallStep

LEMMA AnswerIsCall ==
    ASSUME NEW c \in Calls, NEW d \in Int, NEW b \in BOOLEAN
    PROVE  /\ [c EXCEPT !.step = "answered", !.open = b] \in Calls
           /\ [c EXCEPT !.step = "answered", !.day = d, !.open = b] \in Calls
           /\ [c EXCEPT !.step = "raised"] \in Calls
  BY DEF Calls, CallStep

\* A call that is put in the place of another.
LEMMA CallTypes ==
    ASSUME call \in [User -> Calls], NEW u \in User, NEW c \in Calls, Step(u, c)
    PROVE  call' \in [User -> Calls]
  BY DEF Step

LEMMA CalendarStepTypes ==
    ASSUME CalendarTypeOK, today' = today, NEW u \in User, CalendarStep(u)
    PROVE  CalendarTypeOK'
  <1>0. call \in [User -> Calls] /\ call[u] \in Calls
    BY DEF CalendarTypeOK, Calls
  <1>1. ASSUME Raise(u) PROVE call' \in [User -> Calls]
    <2>1. [call[u] EXCEPT !.step = "raised"] \in Calls
      BY <1>0 DEF Calls, CallStep
    <2> QED BY <1>0, <1>1, <2>1, CallTypes DEF Raise
  <1>2. ASSUME ReadCache(u) PROVE CalendarTypeOK'
    <2>1. [call[u] EXCEPT !.step = "fetching", !.rows = cached,
              !.alone = TRUE, !.days = Missing(@, cached, call[u].recheck)] \in Calls
      BY <1>0 DEF Calls, CallStep, CalendarTypeOK, Missing
    <2>2. call' \in [User -> Calls]
      BY <1>0, <1>1, <1>2, <2>1, CallTypes DEF ReadCache
    <2> QED BY <1>2, <2>2 DEF ReadCache, CalendarTypeOK, Calls
  <1>3. ASSUME Fetch(u) PROVE CalendarTypeOK'
    <2>1. [call[u] EXCEPT !.step = "merged", !.rows = @ \cup (call[u].days \cap Published)] \in Calls
      BY <1>0 DEF Calls, CallStep
    <2>2. call' \in [User -> Calls]
      BY <1>0, <1>1, <1>3, <2>1, CallTypes DEF Fetch
    <2> QED BY <1>3, <2>2 DEF Fetch, CalendarTypeOK, Calls
  <1>4. ASSUME OpenCache(u) PROVE CalendarTypeOK'
    <2>1. [call[u] EXCEPT !.step = "writing"] \in Calls
      BY <1>0 DEF Calls, CallStep
    <2>2. call' \in [User -> Calls]
      BY <1>0, <1>4, <2>1, CallTypes DEF OpenCache
    <2> QED BY <1>4, <2>2 DEF OpenCache, CalendarTypeOK, Calls
  <1>5. ASSUME FillCache(u) PROVE CalendarTypeOK'
    <2>1. [call[u] EXCEPT !.step = "written", !.days = {}, !.rows = {}] \in Calls
      BY <1>0 DEF Calls, CallStep
    <2>2. ASSUME NEW w \in User
          PROVE  [call[w] EXCEPT !.step = IF @ = "writing" THEN "overlaid" ELSE @, !.alone = FALSE] \in Calls
      BY <1>0 DEF Calls, CallStep
    <2>3. call' \in [User -> Calls]
      BY <1>5, <2>1, <2>2 DEF FillCache
    <2>4. cached' \subseteq Published /\ unreadable' \in BOOLEAN
      BY <1>0, <1>5 DEF FillCache, Calls
    <2> QED BY <2>3, <2>4 DEF CalendarTypeOK, Calls
  <1>6. ASSUME ReadBack(u) PROVE CalendarTypeOK'
    <2>1. [call[u] EXCEPT !.step = "answered", !.open = call[u].day \in cached \cap OpenDays] \in Calls
      <3>1. (call[u].day \in cached \cap OpenDays) \in BOOLEAN /\ 0 \in Int
        OBVIOUS
      <3> QED BY <1>0, <3>1, AnswerIsCall, Zenon
    <2>2. call' \in [User -> Calls]
      BY <1>0, <1>1, <1>6, <2>1, CallTypes DEF ReadBack
    <2> QED BY <1>6, <2>2 DEF ReadBack, CalendarTypeOK, Calls
  <1> QED BY <1>2, <1>3, <1>4, <1>5, <1>6 DEF CalendarStep

LEMMA CalendarStartTypes ==
    ASSUME CalendarTypeOK, today' = today, NEW u \in User,
           (\E days \in SUBSET Int : Refresh(u, days, RecheckPast)) \/ Ensure(u)
             \/ (\E d \in Int : EnsureToday(u, d))
             \/ (call' = [call EXCEPT ![u] = NoCall] /\ UNCHANGED <<cached, unreadable>>)
    PROVE  CalendarTypeOK'
  <1>0. call \in [User -> Calls]
    BY DEF CalendarTypeOK, Calls
  <1>1. ASSUME NEW days \in SUBSET Int, Refresh(u, days, RecheckPast) PROVE CalendarTypeOK'
    <2>1. [NoCall EXCEPT !.step = "reading", !.day = today, !.days = days, !.recheck = today - RecheckPast] \in Calls
      <3>1. today \in Int /\ today - RecheckPast \in Int
        BY CalendarAssumption DEF CalendarTypeOK
      <3> QED BY <3>1, NoCallIsCall DEF Calls, CallStep
    <2>2. call' \in [User -> Calls]
      BY <1>0, <1>1, <2>1, CallTypes DEF Refresh
    <2> QED BY <1>1, <2>2 DEF Refresh, CalendarTypeOK, Calls
  <1>2. ASSUME Ensure(u) PROVE CalendarTypeOK'
    <2>1. call' \in [User -> Calls]
      BY <1>0, <1>2, EnsuringIsCall, CallTypes DEF Ensure, CalendarTypeOK
    <2> QED BY <1>2, <2>1 DEF Ensure, CalendarTypeOK, Calls
  <1>3. ASSUME NEW d \in Int, EnsureToday(u, d) PROVE CalendarTypeOK'
    <2>1. /\ [NoCall EXCEPT !.step = "raised"] \in Calls
          /\ [NoCall EXCEPT !.step = "answered", !.day = d, !.open = d \in OpenDays] \in Calls
      <3>1. (d \in OpenDays) \in BOOLEAN
        OBVIOUS
      <3> QED BY <3>1, NoCallIsCall, AnswerIsCall, Zenon
    <2>2. call' \in [User -> Calls]
      BY <1>0, <1>3, <2>1, EnsuringIsCall, CallTypes DEF EnsureToday
    <2> QED BY <1>3, <2>2 DEF EnsureToday, CalendarTypeOK, Calls
  <1>4. ASSUME call' = [call EXCEPT ![u] = NoCall], UNCHANGED <<cached, unreadable>> PROVE CalendarTypeOK'
    BY <1>0, <1>4, NoCallIsCall DEF CalendarTypeOK, Calls
  <1> QED BY <1>1, <1>2, <1>3, <1>4

\* Only what is about to be written is shared with the memory.
SharedFits == \A t \in Thread : pc[t] # "dumping" => shared[t] = {}

Types == TypeOK /\ today \in Nat /\ SharedFits

\* What the threads and the store keep.
ScheduleTypes ==
    /\ today \in Nat
    /\ clock \in {"before", "at", "after"}
    /\ memory \in [Interface -> Entries] /\ disk \in [Interface -> Entries]
    /\ file \in {"missing", "good", "torn"}
    /\ blocked \subseteq Interface
    /\ pc \in [Thread -> ThreadStep]
    /\ item \in [Thread -> Interface \cup {None}]
    /\ snap \in [Thread -> [Interface -> Entries]]
    /\ shared \in [Thread -> SUBSET Interface]
    /\ SharedFits
    /\ \A t \in Thread : \A i \in shared[t] : snap[t][i] = memory[i]
    /\ tickDay \in Nat
    /\ todo \subseteq Interface
    /\ startedOn \in [Interface -> Nat]
    /\ disturbed \subseteq Nat

LEMMA TypeParts == Types <=> CalendarTypeOK /\ ScheduleTypes
  BY DEF Types, TypeOK, ScheduleTypes, Schedules, Entries, CalendarTypeOK

LEMMA ThreadIsUser == Thread = User /\ tick \in Thread /\ Request \subseteq Thread
  BY SchedulesAssumption DEF Thread

LEMMA CalendarRests ==
    ASSUME CalendarTypeOK, UNCHANGED <<cached, unreadable, call>>, today' \in Int
    PROVE  CalendarTypeOK'
  BY DEF CalendarTypeOK

LEMMA TypesInit == Init => Types
  <1> SUFFICES ASSUME Init PROVE Types
    OBVIOUS
  <1>1. CalendarTypeOK
    <2>1. call \in [User -> Calls]
      BY NoCallIsCall DEF Init, InitCalendar
    <2>2. today \in Int /\ cached \subseteq Published /\ unreadable \in BOOLEAN
      <3>1. InitCalendar /\ today \in Int
        BY DEF Init
      <3> QED BY <3>1, Zenon DEF InitCalendar
    <2> QED BY <2>1, <2>2 DEF CalendarTypeOK, Calls
  <1>2. Absent \in Entries /\ [state |-> "on", key |-> 0] \in Entries
    BY DEF Absent, Entries
  <1>3. Nothing \in [Interface -> Entries] /\ disk \in [Interface -> Entries] /\ memory = disk
    BY <1>2 DEF Nothing, Init
  <1>4. ScheduleTypes
    BY <1>3 DEF Init, ScheduleTypes, SharedFits, ThreadStep
  <1> QED BY <1>1, <1>4, TypeParts

LEMMA CalendarTypesStep == ASSUME Types, [Next]_vars PROVE CalendarTypeOK'
  <1> USE TypeParts, ThreadIsUser DEF timeVars, calendarVars
  <1>1. ASSUME NEW t \in Thread, CalendarWorks(t) PROVE CalendarTypeOK'
    BY <1>1, CalendarStepTypes DEF CalendarWorks
  <1>2. ASSUME NEW t \in Request, RequestStarts(t) PROVE CalendarTypeOK'
    <2>1. CASE GetSchedule(t)
      BY <2>1, CalendarRests DEF GetSchedule, Accept, CalendarTypeOK
    <2>2. CASE RefreshCalendar(t)
      <3>1. today' = today
        BY <2>2 DEF RefreshCalendar, Accept
      <3>2. (\E days \in SUBSET Int : Refresh(t, days, RecheckPast)) \/ Ensure(t)
        BY <2>2, SchedulesAssumption DEF RefreshCalendar
      <3> QED BY <3>1, <3>2, CalendarStartTypes
    <2>3. ASSUME NEW i \in Interface, EnableStarts(t, i) PROVE CalendarTypeOK'
      <3>1. today' = today /\ today \in Int /\ (cached' = cached /\ unreadable' = unreadable)
        BY <2>3 DEF EnableStarts, Accept, CalendarTypeOK
      <3>2. CASE EnsureToday(t, today)
        BY <3>1, <3>2, CalendarStartTypes
      <3>3. CASE call' = call
        BY <3>1, <3>3, CalendarRests
      <3> QED BY <2>3, <3>2, <3>3 DEF EnableStarts
    <2>4. ASSUME NEW i \in Interface, DisableStarts(t, i) PROVE CalendarTypeOK'
      BY <2>4, CalendarRests DEF DisableStarts, Accept, CalendarTypeOK
    <2> QED BY <1>2, <2>1, <2>2, <2>3, <2>4 DEF RequestStarts
  <1>3. ASSUME NEW t \in Thread, call' = [call EXCEPT ![t] = NoCall], UNCHANGED <<cached, unreadable, today>>
        PROVE  CalendarTypeOK'
    BY <1>3, CalendarStartTypes
  <1>4. ASSUME NEW i \in Interface, Serve(i) PROVE CalendarTypeOK'
    <2>1. today' = today /\ tickDay \in Int /\ DayAsked = tickDay
      BY <1>4 DEF Serve, ScheduleTypes, DayAsked
    <2>2. EnsureToday(tick, tickDay) \/ UNCHANGED calendarVars
      BY <1>4, <2>1 DEF Serve
    <2> QED BY <2>1, <2>2, CalendarStartTypes, CalendarRests DEF CalendarTypeOK
  <1>5. CASE Restart
    <2>1. call' \in [User -> Calls] /\ UNCHANGED <<cached, unreadable, today>>
      BY <1>5, NoCallIsCall DEF Restart
    <2> QED BY <2>1 DEF CalendarTypeOK, Calls
  <1>6. CASE NextDay
    BY <1>6, CalendarRests DEF NextDay, ScheduleTypes
  <1>7. ASSUME UNCHANGED <<calendarVars, today>> PROVE CalendarTypeOK'
    BY <1>7, CalendarRests DEF CalendarTypeOK
  <1>8. ASSUME NEW t \in Request, RequestStep(t) PROVE CalendarTypeOK'
    BY <1>3, <1>7, <1>8 DEF RequestStep, CalendarAnswers, HangUp, Enable, Disable
  <1>9. CASE TradeDayKnown
    BY <1>3, <1>9 DEF TradeDayKnown, HangUp
  <1>10. ASSUME TickStep, ~TradeDayKnown, \A i \in Interface : ~Serve(i) PROVE CalendarTypeOK'
    BY <1>7, <1>10 DEF TickStep, TickStarts, TakeList, ResolveFails, TickEnds, CreateJob, Mark
  <1>11. ASSUME NEW t \in Thread, FileStep(t) PROVE CalendarTypeOK'
    BY <1>7, <1>11 DEF FileStep, ReadFile, Install, OpenFile, FillFile
  <1>12. ASSUME NEW i \in Interface, Unblock(i) PROVE CalendarTypeOK'
    BY <1>7, <1>12 DEF Unblock
  <1>13. CASE ClockTicks \/ UNCHANGED vars
    BY <1>7, <1>13 DEF ClockTicks, vars
  <1> QED BY <1>1, <1>2, <1>4, <1>5, <1>6, <1>8, <1>9, <1>10, <1>11, <1>12, <1>13 DEF Next, Continue

LEMMA ChangedEntries ==
    ASSUME NEW e \in Entries, NEW s \in {"on", "off"}, NEW d \in Nat
    PROVE  [e EXCEPT !.state = s] \in Entries /\ [e EXCEPT !.key = d] \in Entries
  BY DEF Entries

\* What the threads share is as it was put or changed.
StoreTypes ==
    /\ memory \in [Interface -> Entries]
    /\ snap \in [Thread -> [Interface -> Entries]]
    /\ shared \in [Thread -> SUBSET Interface]
    /\ \A t \in Thread : \A i \in shared[t] : snap[t][i] = memory[i]

LEMMA PutTypes ==
    ASSUME StoreTypes, SharedFits, NEW t \in Thread, NEW i, NEW entry,
           i \in Interface => entry \in Entries,
           Put(t, i, entry), pc \in [Thread -> ThreadStep], pc' = [pc EXCEPT ![t] = "dumping"]
    PROVE  StoreTypes' /\ SharedFits'
  <1>1. memory' \in [Interface -> Entries] /\ \A j \in Interface : j # i => memory'[j] = memory[j]
    BY DEF Put, StoreTypes
  <1>2. /\ snap' \in [Thread -> [Interface -> Entries]] /\ snap'[t] = memory'
        /\ \A u \in Thread : u # t => snap'[u] = snap[u]
    BY <1>1 DEF Put, StoreTypes
  <1>3. /\ shared' \in [Thread -> SUBSET Interface]
        /\ \A u \in Thread : u # t => shared'[u] = shared[u] \ {i}
    BY DEF Put, StoreTypes
  <1>4. SharedFits'
    BY <1>3 DEF SharedFits
  <1>5. ASSUME NEW u \in Thread, NEW j \in shared'[u] PROVE snap'[u][j] = memory'[j]
    BY <1>1, <1>2, <1>3, <1>5 DEF StoreTypes
  <1> QED BY <1>1, <1>2, <1>3, <1>4, <1>5 DEF StoreTypes

LEMMA ChangeTypes ==
    ASSUME StoreTypes, SharedFits, NEW i \in Interface, NEW entry \in Entries,
           Change(i, entry), pc \in [Thread -> ThreadStep], pc' = [pc EXCEPT ![tick] = "dumping"]
    PROVE  StoreTypes' /\ SharedFits'
  <1>1. memory' \in [Interface -> Entries] /\ memory'[i] = entry /\ \A j \in Interface : j # i => memory'[j] = memory[j]
    BY DEF Change, StoreTypes
  <1>2. /\ snap' \in [Thread -> [Interface -> Entries]] /\ snap'[tick] = memory'
        /\ \A u \in Thread : u # tick => snap'[u] = IF i \in shared[u] THEN [snap[u] EXCEPT ![i] = entry] ELSE snap[u]
    BY <1>1, ThreadIsUser DEF Change, StoreTypes
  <1>3. /\ shared' \in [Thread -> SUBSET Interface]
        /\ \A u \in Thread : u # tick => shared'[u] = shared[u]
    BY DEF Change, StoreTypes
  <1>4. SharedFits'
    BY <1>3 DEF SharedFits
  <1>5. ASSUME NEW u \in Thread, NEW j \in shared'[u] PROVE snap'[u][j] = memory'[j]
    <2>1. CASE u = tick
      BY <1>2, <2>1
    <2>2. CASE u # tick
      <3>1. j \in shared[u] /\ j \in Interface /\ snap[u] \in [Interface -> Entries] /\ snap[u][j] = memory[j]
        BY <1>3, <1>5, <2>2 DEF StoreTypes
      <3>2. CASE j = i
        BY <1>1, <1>2, <2>2, <3>1, <3>2
      <3>3. CASE j # i
        BY <1>1, <1>2, <2>2, <3>1, <3>3
      <3> QED BY <3>2, <3>3
    <2> QED BY <2>1, <2>2
  <1> QED BY <1>1, <1>2, <1>3, <1>4, <1>5 DEF StoreTypes

\* A step of the calendar alone, or none of the schedules' variables changes.
LEMMA ScheduleTypesStep == ASSUME ScheduleTypes, [Next]_vars PROVE ScheduleTypes'
  <1> USE ThreadIsUser
      DEF ScheduleTypes, SharedFits, timeVars, storeVars, threadVars, historyVars, Go, Disturb, ThreadStep
  <1>0. Nothing \in [Interface -> Entries]
    BY DEF Nothing, Absent, Entries
  <1>1. ASSUME NEW t \in Thread, CalendarWorks(t) PROVE ScheduleTypes'
    BY <1>1 DEF CalendarWorks
  <1>2. ASSUME NEW t \in Request, RequestStarts(t) PROVE ScheduleTypes'
    <2>1. \E i \in Interface \cup {None}, s \in ThreadStep : Accept(t, i, s)
      BY <1>2 DEF RequestStarts, GetSchedule, RefreshCalendar, EnableStarts, DisableStarts
    <2> QED BY <2>1 DEF Accept
  <1>3. ASSUME NEW t \in Thread, ReadFile(t) PROVE ScheduleTypes'
    BY <1>0, <1>3 DEF ReadFile, AfterLoad
  <1>4. ASSUME NEW t \in Thread, Install(t) PROVE ScheduleTypes'
    BY <1>0, <1>4 DEF Install, AfterLoad
  <1>5. ASSUME NEW t \in Thread, OpenFile(t) PROVE ScheduleTypes'
    BY <1>5 DEF OpenFile
  <1>6. ASSUME NEW t \in Thread, FillFile(t) PROVE ScheduleTypes'
    BY <1>0, <1>6 DEF FillFile
  <1>7. ASSUME NEW t \in Request, CalendarAnswers(t) PROVE ScheduleTypes'
    BY <1>7 DEF CalendarAnswers
  <1>s. StoreTypes
    BY DEF StoreTypes
  <1>8. ASSUME NEW t \in Request, Enable(t) PROVE ScheduleTypes'
    <2>1. PICK s \in {"on", "off"} : Put(t, item[t], [memory[item[t]] EXCEPT !.state = s])
      BY <1>8 DEF Enable
    <2>2. item[t] \in Interface => [memory[item[t]] EXCEPT !.state = s] \in Entries
      BY ChangedEntries
    <2>3. StoreTypes' /\ SharedFits'
      BY <1>8, <1>s, <2>1, <2>2, PutTypes DEF Enable
    <2> QED BY <1>8, <2>3 DEF Enable, StoreTypes
  <1>9. ASSUME NEW t \in Request, Disable(t) PROVE ScheduleTypes'
    <2>1. CASE memory[item[t]] = Absent
      <3>1. pc' = [pc EXCEPT ![t] = "idle"] /\ pc[t] = "disabling" /\ UNCHANGED <<memory, snap, shared>>
        BY <1>9, <2>1 DEF Disable
      <3>2. pc' \in [Thread -> ThreadStep] /\ SharedFits'
        BY <3>1
      <3> QED BY <1>9, <3>1, <3>2 DEF Disable
    <2>2. CASE memory[item[t]] # Absent
      <3>1. item[t] \in Interface => [memory[item[t]] EXCEPT !.state = "off"] \in Entries
        BY ChangedEntries
      <3>2. StoreTypes' /\ SharedFits'
        BY <1>9, <1>s, <2>2, <3>1, PutTypes DEF Disable
      <3> QED BY <1>9, <2>2, <3>2 DEF Disable, StoreTypes
    <2> QED BY <2>1, <2>2
  <1>10. CASE TickStarts \/ TakeList \/ TradeDayKnown \/ ResolveFails \/ TickEnds
    <2>1. CASE TickStarts
      BY <2>1 DEF TickStarts
    <2>2. CASE TakeList
      BY <2>2 DEF TakeList
    <2>3. CASE TradeDayKnown
      BY <2>3 DEF TradeDayKnown
    <2>4. CASE ResolveFails
      BY <2>4 DEF ResolveFails
    <2>5. CASE TickEnds
      BY <2>5 DEF TickEnds
    <2> QED BY <1>10, <2>1, <2>2, <2>3, <2>4, <2>5
  <1>11. ASSUME NEW i \in Interface, Serve(i) PROVE ScheduleTypes'
    BY <1>11 DEF Serve
  <1>12. ASSUME NEW i \in Interface, CreateJob(i) PROVE ScheduleTypes'
    BY <1>12 DEF CreateJob
  <1>13. ASSUME NEW i \in Interface, Mark(i) PROVE ScheduleTypes'
    <2>1. memory[i] \in Entries /\ tickDay \in Nat
      OBVIOUS
    <2>2. Marked(i) \in Entries
      BY <2>1, ChangedEntries DEF Marked
    <2>3. CASE memory[i] = Absent
      <3>1. pc' = [pc EXCEPT ![tick] = "serving"] /\ pc[tick] # "dumping" /\ UNCHANGED <<memory, snap, shared>>
        BY <1>13, <2>3 DEF Mark
      <3>2. pc' \in [Thread -> ThreadStep] /\ SharedFits'
        BY <3>1
      <3> QED BY <1>13, <3>1, <3>2 DEF Mark
    <2>4. CASE memory[i] # Absent
      <3>1. \E entry \in Entries : Change(i, entry)
        BY <1>13, <2>1, <2>2, <2>4 DEF Mark
      <3>2. StoreTypes' /\ SharedFits'
        BY <1>13, <1>s, <2>4, <3>1, ChangeTypes DEF Mark
      <3> QED BY <1>13, <2>4, <3>2 DEF Mark, StoreTypes
    <2> QED BY <2>3, <2>4
  <1>14. ASSUME NEW i \in Interface, Unblock(i) PROVE ScheduleTypes'
    BY <1>14 DEF Unblock
  <1>15. CASE ClockTicks \/ NextDay
    <2>1. CASE ClockTicks
      BY <2>1 DEF ClockTicks
    <2>2. CASE NextDay
      BY <2>2 DEF NextDay
    <2> QED BY <1>15, <2>1, <2>2
  <1>16. CASE Restart
    BY <1>0, <1>16 DEF Restart
  <1>17. CASE UNCHANGED vars
    BY <1>17 DEF vars
  <1> QED BY <1>1, <1>2, <1>3, <1>4, <1>5, <1>6, <1>7, <1>8, <1>9, <1>10, <1>11, <1>12, <1>13, <1>14, <1>15,
             <1>16, <1>17 DEF Next, Continue, TickStep, RequestStep, FileStep

LEMMA TypesInvariant == Spec => []Types
  <1>1. Types /\ [Next]_vars => Types'
    <2>1. Types' <=> (CalendarTypeOK /\ ScheduleTypes)'
      BY TypeParts, PTL
    <2> QED BY <2>1, TypeParts, CalendarTypesStep, ScheduleTypesStep
  <1> QED BY <1>1, TypesInit, PTL DEF Spec

\* Every variable keeps its type, and an entry that several threads share has
\* one value.
THEOREM TypeCorrect == Spec => []TypeOK
  <1>1. Types => TypeOK
    BY DEF Types
  <1> QED BY <1>1, TypesInvariant, PTL

-----------------------------------------------------------------------------
(* The calendar. *)

LEMMA OneCall ==
    ASSUME CallsFit, call \in [User -> Calls], NEW u \in User, NEW c \in Calls, CallFits(c),
           Step(u, c), cached' = cached
    PROVE  CallsFit'
  <1>1. \A d : CallFits(d)' <=> CallFits(d)
    BY DEF CallFits, Ahead
  <1>2. \A w \in User : call'[w] = IF w = u THEN c ELSE call[w]
    BY DEF Step
  <1>3. \A w \in User : CallFits(call'[w])
    BY <1>2 DEF CallsFit
  <1>4. CallsFit' <=> \A w \in User : CallFits(call'[w])
    BY DEF CallsFit, CallFits, Ahead
  <1> QED BY <1>3, <1>4

LEMMA FreshCallsFit == /\ CallFits(NoCall)
                       /\ \A d \in Int : CallFits(Ensuring(d))
                       /\ CallFits([NoCall EXCEPT !.step = "raised"])
                       /\ \A d \in Int : CallFits([NoCall EXCEPT !.step = "answered", !.day = d,
                                                                 !.open = d \in OpenDays])
                       /\ \A d, r \in Int, days \in SUBSET Int :
                            CallFits([NoCall EXCEPT !.step = "reading", !.day = d, !.days = days,
                                                    !.recheck = r])
  <1>1. CallFits(NoCall) /\ CallFits([NoCall EXCEPT !.step = "raised"])
    BY DEF CallFits, NoCall
  <1>2. ASSUME NEW d \in Int PROVE CallFits(Ensuring(d))
    <2>1. Ahead(Ensuring(d)) \subseteq d - Past .. d + Future
      BY <1>2, CalendarAssumption DEF Ahead, Ensuring, NoCall
    <2>2. Ensuring(d).recheck <= d
      BY <1>2, CalendarAssumption DEF Ensuring, NoCall
    <2> QED BY <2>1, <2>2 DEF CallFits, Ensuring, NoCall
  <1>3. ASSUME NEW d \in Int
        PROVE  CallFits([NoCall EXCEPT !.step = "answered", !.day = d, !.open = d \in OpenDays])
    BY <1>3 DEF CallFits, NoCall
  <1>4. ASSUME NEW d \in Int, NEW days \in SUBSET Int, NEW r \in Int
        PROVE  CallFits([NoCall EXCEPT !.step = "reading", !.day = d, !.days = days, !.recheck = r])
    BY <1>4 DEF CallFits, NoCall
  <1> QED BY <1>1, <1>2, <1>3, <1>4

LEMMA AheadIsMissing ==
    ASSUME NEW c \in Calls, c.ensure, c.step = "reading", CallFits(c), cached \subseteq Published
    PROVE  Ahead(c) \subseteq Missing(c.days, cached, c.recheck)
  <1>1. \A d \in Ahead(c) : d \in c.days /\ d >= c.recheck
    BY CalendarAssumption DEF CallFits, Ahead, Calls
  <1> QED BY <1>1 DEF Missing

LEMMA CalendarStepFits ==
    ASSUME CalendarTypeOK, CallsFit, NEW u \in User, CalendarStep(u)
    PROVE  CallsFit'
  <1>0. call \in [User -> Calls] /\ call[u] \in Calls /\ CallFits(call[u]) /\ cached \subseteq Published
    BY DEF CalendarTypeOK, Calls, CallsFit
  <1>1. ASSUME Raise(u), cached' = cached PROVE CallsFit'
    <2>1. [call[u] EXCEPT !.step = "raised"] \in Calls
      BY <1>0 DEF Calls, CallStep
    <2>2. CallFits([call[u] EXCEPT !.step = "raised"])
      BY <1>0 DEF CallFits, Calls
    <2> QED BY <1>0, <1>1, <2>1, <2>2, OneCall DEF Raise
  <1>2. ASSUME ReadCache(u) PROVE CallsFit'
    <2> DEFINE c == [call[u] EXCEPT !.step = "fetching", !.rows = cached,
                        !.alone = TRUE, !.days = Missing(@, cached, call[u].recheck)]
    <2>1. CASE unreadable
      BY <1>1, <1>2, <2>1 DEF ReadCache
    <2>2. CASE ~unreadable
      <3>1. c \in Calls
        BY <1>0 DEF Calls, CallStep, Missing
      <3>2. c.open = call[u].open /\ c.day = call[u].day /\ c.ensure = call[u].ensure
            /\ c.step = "fetching" /\ c.days = Missing(call[u].days, cached, call[u].recheck)
        BY <1>0 DEF Calls
      <3>3. c.ensure => Ahead(c) \subseteq c.days
        BY <1>0, <1>2, <3>2, AheadIsMissing DEF ReadCache, Ahead
      <3>4. CallFits(c)
        BY <1>0, <3>2, <3>3 DEF CallFits
      <3>5. Step(u, c) /\ cached' = cached
        BY <1>2, <2>2 DEF ReadCache
      <3> HIDE DEF c
      <3> QED BY <1>0, <3>1, <3>4, <3>5, OneCall
    <2> QED BY <2>1, <2>2
  <1>3. ASSUME Fetch(u) PROVE CallsFit'
    <2> DEFINE c == [call[u] EXCEPT !.step = "merged", !.rows = @ \cup (call[u].days \cap Published)]
    <2>1. CASE Raise(u)
      BY <1>1, <1>3, <2>1 DEF Fetch
    <2>2. CASE ~Raise(u)
      <3>1. c \in Calls
        BY <1>0 DEF Calls, CallStep
      <3>2. c.open = call[u].open /\ c.day = call[u].day /\ c.ensure = call[u].ensure
            /\ c.step = "merged" /\ call[u].days \cap Published \subseteq c.rows
        BY <1>0 DEF Calls
      <3>3. c.ensure => Ahead(c) \subseteq c.rows
        BY <1>0, <1>3, <3>2 DEF Fetch, Ahead, CallFits
      <3>4. CallFits(c)
        BY <1>0, <3>2, <3>3 DEF CallFits
      <3>5. Step(u, c) /\ cached' = cached
        BY <1>3, <2>2 DEF Fetch
      <3> HIDE DEF c
      <3> QED BY <1>0, <3>1, <3>4, <3>5, OneCall
    <2> QED BY <2>1, <2>2
  <1>4. ASSUME OpenCache(u) PROVE CallsFit'
    <2>1. [call[u] EXCEPT !.step = "writing"] \in Calls
      BY <1>0 DEF Calls, CallStep
    <2>2. CallFits([call[u] EXCEPT !.step = "writing"])
      BY <1>0, <1>4 DEF OpenCache, CallFits, Calls, Ahead
    <2> QED BY <1>0, <1>4, <2>1, <2>2, OneCall DEF OpenCache
  <1>5. ASSUME FillCache(u) PROVE CallsFit'
    <2>1. ASSUME NEW w \in User, w # u PROVE CallFits(call[w])'
      <3>1. call[w] \in Calls /\ CallFits(call[w])
        BY <1>0 DEF CallsFit
      <3>2. call'[w] = [call[w] EXCEPT !.step = IF @ = "writing" THEN "overlaid" ELSE @, !.alone = FALSE]
        BY <1>5, <2>1 DEF FillCache
      <3>3. /\ call'[w].open = call[w].open /\ call'[w].day = call[w].day /\ call'[w].ensure = call[w].ensure
            /\ call'[w].days = call[w].days /\ call'[w].rows = call[w].rows /\ call'[w].recheck = call[w].recheck
            /\ call'[w].alone = FALSE /\ call'[w].step = IF call[w].step = "writing" THEN "overlaid" ELSE call[w].step
        BY <3>1, <3>2 DEF Calls
      <3> QED BY <3>1, <3>3 DEF CallFits, Ahead
    <2>2. CallFits(call[u])'
      <3>1. call'[u] = [call[u] EXCEPT !.step = "written", !.days = {}, !.rows = {}] /\ cached' = call[u].rows
            /\ call[u].step \in {"writing", "overlaid"}
        BY <1>5 DEF FillCache
      <3>2. call'[u].open = call[u].open /\ call'[u].day = call[u].day /\ call'[u].ensure = call[u].ensure
            /\ call'[u].step = "written"
        BY <1>0, <3>1 DEF Calls
      <3> QED BY <1>0, <3>1, <3>2 DEF CallFits, Ahead
    <2> QED BY <2>1, <2>2 DEF CallsFit
  <1>6. ASSUME ReadBack(u) PROVE CallsFit'
    <2> DEFINE b == call[u].day \in cached \cap OpenDays
    <2> DEFINE c == [call[u] EXCEPT !.step = "answered", !.open = b]
    <2>1. CASE unreadable
      BY <1>1, <1>6, <2>1 DEF ReadBack
    <2>2. CASE ~unreadable
      <3>1. c \in Calls
        <4>1. b \in BOOLEAN /\ 0 \in Int
          OBVIOUS
        <4> QED BY <1>0, <4>1, AnswerIsCall, Zenon
      <3>2. (c.open <=> b) /\ c.day = call[u].day /\ c.ensure = call[u].ensure /\ c.alone = call[u].alone
            /\ c.step = "answered"
        BY <1>0 DEF Calls
      <3>3. call[u].day \in Int
        BY <1>0 DEF Calls
      <3>4. call[u].ensure /\ call[u].alone /\ call[u].day \in OpenDays => call[u].day \in cached
        BY <1>0, <1>6, <3>3, CalendarAssumption DEF ReadBack, CallFits, Ahead
      <3>5. CallFits(c)
        BY <3>2, <3>4 DEF CallFits
      <3>6. Step(u, c) /\ cached' = cached
        BY <1>6, <2>2 DEF ReadBack
      <3> HIDE DEF c
      <3> QED BY <1>0, <3>1, <3>5, <3>6, OneCall
    <2> QED BY <2>1, <2>2
  <1> QED BY <1>2, <1>3, <1>4, <1>5, <1>6 DEF CalendarStep

\* A thread hangs up, or takes up a call of one of the three kinds.
LEMMA CalendarStartFits ==
    ASSUME CalendarTypeOK, CallsFit, NEW u \in User,
           (\E days \in SUBSET Int : Refresh(u, days, RecheckPast)) \/ Ensure(u)
             \/ (\E d \in Int : EnsureToday(u, d))
             \/ (call' = [call EXCEPT ![u] = NoCall] /\ UNCHANGED <<cached, unreadable>>)
    PROVE  CallsFit'
  <1>0. call \in [User -> Calls] /\ today \in Int
    BY DEF CalendarTypeOK, Calls
  <1>1. ASSUME NEW days \in SUBSET Int, Refresh(u, days, RecheckPast) PROVE CallsFit'
    <2> DEFINE c == [NoCall EXCEPT !.step = "reading", !.day = today, !.days = days, !.recheck = today - RecheckPast]
    <2>1. today - RecheckPast \in Int
      BY <1>0, CalendarAssumption
    <2>2. c \in Calls
      BY <1>0, <2>1, NoCallIsCall DEF Calls, CallStep
    <2>3. CallFits(c)
      BY <1>0, <2>1, FreshCallsFit
    <2>4. Step(u, c) /\ cached' = cached
      BY <1>1 DEF Refresh
    <2> HIDE DEF c
    <2> QED BY <1>0, <2>2, <2>3, <2>4, OneCall
  <1>2. ASSUME Ensure(u) PROVE CallsFit'
    BY <1>0, <1>2, EnsuringIsCall, FreshCallsFit, OneCall DEF Ensure
  <1>3. ASSUME NEW d \in Int, EnsureToday(u, d) PROVE CallsFit'
    <2> DEFINE b == d \in OpenDays
    <2>1. CASE unreadable
      <3>1. [NoCall EXCEPT !.step = "raised"] \in Calls /\ CallFits([NoCall EXCEPT !.step = "raised"])
        <4>1. TRUE \in BOOLEAN /\ 0 \in Int
          OBVIOUS
        <4> QED BY <4>1, NoCallIsCall, AnswerIsCall, FreshCallsFit
      <3>2. Step(u, [NoCall EXCEPT !.step = "raised"]) /\ cached' = cached
        BY <1>3, <2>1 DEF EnsureToday
      <3> QED BY <1>0, <3>1, <3>2, OneCall
    <2>2. CASE ~unreadable /\ d \in cached
      <3> DEFINE c == [NoCall EXCEPT !.step = "answered", !.day = d, !.open = d \in OpenDays]
      <3>1. c \in Calls
        <4>1. (d \in OpenDays) \in BOOLEAN
          OBVIOUS
        <4> QED BY <4>1, NoCallIsCall, AnswerIsCall, Zenon
      <3>2. CallFits(c)
        BY FreshCallsFit, Zenon
      <3>3. Step(u, c) /\ cached' = cached
        BY <1>3, <2>2 DEF EnsureToday
      <3> HIDE DEF c
      <3> QED BY <1>0, <3>1, <3>2, <3>3, OneCall
    <2>3. CASE ~unreadable /\ d \notin cached
      <3>1. Step(u, Ensuring(d)) /\ cached' = cached
        BY <1>3, <2>3 DEF EnsureToday
      <3> QED BY <1>0, <3>1, EnsuringIsCall, FreshCallsFit, OneCall
    <2> QED BY <2>1, <2>2, <2>3
  <1>4. ASSUME call' = [call EXCEPT ![u] = NoCall], UNCHANGED <<cached, unreadable>> PROVE CallsFit'
    BY <1>0, <1>4, NoCallIsCall, FreshCallsFit, OneCall DEF Step
  <1> QED BY <1>1, <1>2, <1>3, <1>4

LEMMA CallsRest == ASSUME CallsFit, UNCHANGED <<cached, call>> PROVE CallsFit'
  BY DEF CallsFit, CallFits, Ahead

LEMMA CallsFitStep == ASSUME Types, CallsFit, [Next]_vars PROVE CallsFit'
  <1> USE TypeParts, ThreadIsUser DEF timeVars, calendarVars
  <1>0. CalendarTypeOK /\ today \in Int /\ tickDay \in Int
    BY DEF ScheduleTypes
  <1>1. ASSUME NEW t \in Thread, CalendarWorks(t) PROVE CallsFit'
    BY <1>0, <1>1, CalendarStepFits DEF CalendarWorks
  <1>2. ASSUME NEW t \in Request, RequestStarts(t) PROVE CallsFit'
    <2>1. CASE GetSchedule(t)
      BY <2>1, CallsRest DEF GetSchedule, Accept
    <2>2. CASE RefreshCalendar(t)
      <3>1. (\E days \in SUBSET Int : Refresh(t, days, RecheckPast)) \/ Ensure(t)
        BY <2>2, SchedulesAssumption DEF RefreshCalendar
      <3> QED BY <1>0, <3>1, CalendarStartFits
    <2>3. ASSUME NEW i \in Interface, EnableStarts(t, i) PROVE CallsFit'
      <3>1. cached' = cached /\ (EnsureToday(t, today) \/ call' = call)
        BY <2>3 DEF EnableStarts, Accept
      <3> QED BY <1>0, <3>1, CalendarStartFits, CallsRest
    <2>4. ASSUME NEW i \in Interface, DisableStarts(t, i) PROVE CallsFit'
      BY <2>4, CallsRest DEF DisableStarts, Accept
    <2> QED BY <1>2, <2>1, <2>2, <2>3, <2>4 DEF RequestStarts
  <1>3. ASSUME NEW t \in Thread, call' = [call EXCEPT ![t] = NoCall], UNCHANGED <<cached, unreadable>>
        PROVE  CallsFit'
    BY <1>0, <1>3, CalendarStartFits
  <1>4. ASSUME NEW i \in Interface, Serve(i) PROVE CallsFit'
    <2>1. EnsureToday(tick, tickDay) \/ UNCHANGED calendarVars
      BY <1>4 DEF Serve, DayAsked
    <2> QED BY <1>0, <2>1, CalendarStartFits, CallsRest
  <1>5. CASE Restart
    <2>1. cached' = cached /\ call' = [u \in User |-> NoCall]
      BY <1>5 DEF Restart
    <2>2. \A u \in User : CallFits(call'[u])
      BY <2>1, FreshCallsFit
    <2> QED BY <2>1, <2>2 DEF CallsFit, CallFits, Ahead
  <1>6. ASSUME UNCHANGED calendarVars PROVE CallsFit'
    BY <1>6, CallsRest
  <1>7. ASSUME NEW t \in Request, RequestStep(t) PROVE CallsFit'
    BY <1>3, <1>6, <1>7 DEF RequestStep, CalendarAnswers, HangUp, Enable, Disable
  <1>8. CASE TradeDayKnown
    BY <1>3, <1>8 DEF TradeDayKnown, HangUp
  <1>9. ASSUME TickStep, ~TradeDayKnown, \A i \in Interface : ~Serve(i) PROVE CallsFit'
    BY <1>6, <1>9 DEF TickStep, TickStarts, TakeList, ResolveFails, TickEnds, CreateJob, Mark
  <1>10. ASSUME NEW t \in Thread, FileStep(t) PROVE CallsFit'
    BY <1>6, <1>10 DEF FileStep, ReadFile, Install, OpenFile, FillFile
  <1>11. ASSUME NEW i \in Interface, Unblock(i) PROVE CallsFit'
    BY <1>6, <1>11 DEF Unblock
  <1>12. CASE ClockTicks \/ NextDay \/ UNCHANGED vars
    BY <1>6, <1>12 DEF ClockTicks, NextDay, vars
  <1> QED BY <1>1, <1>2, <1>4, <1>5, <1>7, <1>8, <1>9, <1>10, <1>11, <1>12 DEF Next, Continue

LEMMA CallsFitInit == Init => CallsFit
  <1> SUFFICES ASSUME Init, NEW u \in User PROVE CallFits(call[u])
    BY DEF CallsFit
  <1>1. InitCalendar
    BY DEF Init
  <1>2. call[u] = NoCall
    BY <1>1 DEF InitCalendar
  <1> QED BY <1>2, FreshCallsFit

LEMMA CallsInvariant == Spec => [](Types /\ CallsFit)
  BY CallsFitInit, CallsFitStep, TypesInvariant, PTL DEF Spec

\* What ensure_trade_calendar_cache leaves in the file has a row for every
\* published day from its day on, unless another thread wrote in the meantime.
THEOREM CoverageAhead == Spec => []AheadIsCovered
  <1>1. Types /\ CallsFit => AheadIsCovered
    BY DEF Types, TypeOK, CalendarTypeOK, CallsFit, CallFits, Ahead, AheadIsCovered
  <1> QED BY <1>1, CallsInvariant, PTL

-----------------------------------------------------------------------------
(* The tick.  What a request does counts as a disturbance of its day. *)

Fits == AskedFits /\ DatesFit /\ TickFits /\ PendingFits /\ MarksFit

\* A step of a request as the tick sees it.
RequestForm ==
    /\ UNCHANGED <<today, clock, tickDay, todo, startedOn>>
    /\ item'[tick] = item[tick] /\ call'[tick] = call[tick]
    /\ pc'[tick] = pc[tick] \/ (pc[tick] = "filling" /\ pc'[tick] = "overlaid")
    /\ disturbed' = disturbed \cup ({today, tickDay} \ {0})
    /\ blocked' \subseteq blocked

\* A step of the calendar or of a job.
QuietForm ==
    /\ UNCHANGED <<timeVars, storeVars, threadVars, historyVars>>
    /\ call'[tick].day = call[tick].day
    /\ call[tick].step = "raised" => call'[tick].step = "raised"
    /\ blocked' \subseteq blocked

LEMMA RequestHasForm ==
    ASSUME Types, NEW t \in Request, RequestStarts(t) \/ RequestStep(t) \/ FileStep(t)
    PROVE  RequestForm
  <1>0. ScheduleTypes /\ CalendarTypeOK /\ t \in Thread /\ tick \in Thread /\ t # tick
    BY TypeParts, ThreadIsUser, SchedulesAssumption
  <1>c. \A c : Step(t, c) => call'[tick] = call[tick]
    BY <1>0, ThreadIsUser DEF Step, CalendarTypeOK
  <1> USE <1>0 DEF RequestForm, Go, Disturb, timeVars, storeVars, calendarVars, ScheduleTypes
  <1>1. CASE RequestStarts(t)
    <2>1. PICK i, s : Accept(t, i, s)
      BY <1>1 DEF RequestStarts, GetSchedule, RefreshCalendar, EnableStarts, DisableStarts
    <2>2. call'[tick] = call[tick]
      BY <1>1, <1>c DEF RequestStarts, GetSchedule, RefreshCalendar, EnableStarts, DisableStarts, Refresh, Ensure,
                        EnsureToday
    <2> QED BY <2>1, <2>2 DEF Accept
  <1>2. CASE CalendarAnswers(t)
    BY <1>2 DEF CalendarAnswers, HangUp
  <1>3. CASE Enable(t)
    BY <1>3 DEF Enable
  <1>4. CASE Disable(t)
    BY <1>4 DEF Disable
  <1>5. CASE ReadFile(t)
    BY <1>5 DEF ReadFile
  <1>6. CASE Install(t)
    BY <1>6 DEF Install
  <1>7. CASE OpenFile(t)
    BY <1>7 DEF OpenFile
  <1>8. CASE FillFile(t)
    BY <1>8 DEF FillFile
  <1> QED BY <1>1, <1>2, <1>3, <1>4, <1>5, <1>6, <1>7, <1>8 DEF RequestStep, FileStep

LEMMA CalendarHasForm ==
    ASSUME Types, NEW t \in Thread, CalendarWorks(t)
    PROVE  QuietForm
  <1>0. call \in [User -> Calls] /\ call[t] \in Calls /\ call[tick] \in Calls /\ t \in User /\ tick \in User
    BY TypeParts, ThreadIsUser DEF CalendarTypeOK, Calls
  <1>1. ASSUME NEW c, Step(t, c), c.day = call[t].day, call[t].step # "raised"
        PROVE  /\ call'[tick].day = call[tick].day
               /\ call[tick].step = "raised" => call'[tick].step = "raised"
    BY <1>0, <1>1 DEF Step
  <1>2. ASSUME Raise(t), call[t].step # "raised"
        PROVE  /\ call'[tick].day = call[tick].day
               /\ call[tick].step = "raised" => call'[tick].step = "raised"
    BY <1>0, <1>1, <1>2 DEF Raise, Calls
  <1>3. /\ call'[tick].day = call[tick].day
        /\ call[tick].step = "raised" => call'[tick].step = "raised"
    <2>1. CASE ReadCache(t)
      <3>1. [call[t] EXCEPT !.step = "fetching", !.rows = cached, !.alone = TRUE,
                            !.days = Missing(@, cached, call[t].recheck)].day = call[t].day
        BY <1>0 DEF Calls
      <3> QED BY <1>1, <1>2, <2>1, <3>1 DEF ReadCache
    <2>2. CASE Fetch(t)
      <3>1. [call[t] EXCEPT !.step = "merged", !.rows = @ \cup (call[t].days \cap Published)].day = call[t].day
        BY <1>0 DEF Calls
      <3> QED BY <1>1, <1>2, <2>2, <3>1 DEF Fetch
    <2>3. CASE OpenCache(t)
      <3>1. [call[t] EXCEPT !.step = "writing"].day = call[t].day
        BY <1>0 DEF Calls
      <3> QED BY <1>1, <2>3, <3>1 DEF OpenCache
    <2>4. CASE FillCache(t)
      <3>1. CASE t = tick
        BY <1>0, <2>4, <3>1 DEF FillCache, Calls
      <3>2. CASE t # tick
        <4>1. call'[tick] = [call[tick] EXCEPT !.step = IF @ = "writing" THEN "overlaid" ELSE @, !.alone = FALSE]
          BY <1>0, <2>4, <3>2 DEF FillCache
        <4> QED BY <1>0, <4>1 DEF Calls
      <3> QED BY <3>1, <3>2
    <2>5. CASE ReadBack(t)
      <3>1. [call[t] EXCEPT !.step = "answered", !.open = call[t].day \in cached \cap OpenDays].day = call[t].day
        BY <1>0 DEF Calls
      <3> QED BY <1>1, <1>2, <2>5, <3>1 DEF ReadBack
    <2> QED BY <2>1, <2>2, <2>3, <2>4, <2>5 DEF CalendarWorks, CalendarStep
  <1> QED BY <1>3 DEF CalendarWorks, QuietForm

LEMMA UnblockHasForm == ASSUME NEW i \in Interface, Unblock(i) PROVE QuietForm
  BY DEF Unblock, QuietForm, calendarVars

LEMMA RequestFormFits == ASSUME Types, Fits, RequestForm PROVE Fits'
  <1>0. ScheduleTypes
    BY TypeParts
  <1> USE DEF RequestForm, Fits
  <1>1. AskedFits'
    BY DEF AskedFits
  <1>2. DatesFit'
    BY DEF DatesFit
  <1>3. TickFits'
    BY DEF TickFits
  <1>4. PendingFits'
    <2>1. tickDay \notin disturbed' => Pending' = {}
      BY DEF TickFits, Pending
    <2> QED BY <2>1 DEF PendingFits
  <1>5. MarksFit'
    BY DEF MarksFit
  <1> QED BY <1>1, <1>2, <1>3, <1>4, <1>5

LEMMA QuietFormFits == ASSUME Fits, QuietForm PROVE Fits'
  <1> USE DEF QuietForm, Fits, timeVars, storeVars, threadVars, historyVars
  <1>1. AskedFits'
    BY DEF AskedFits
  <1>2. DatesFit' /\ TickFits' /\ PendingFits'
    BY DEF DatesFit, TickFits, PendingFits, Pending
  <1>3. MarksFit'
    BY DEF MarksFit, Unmarked, IsMarked
  <1> QED BY <1>1, <1>2, <1>3

LEMMA FitsInit == ASSUME Init PROVE Fits
  <1>1. /\ today = 1 /\ clock = "before" /\ tickDay = 0 /\ todo = {} /\ disturbed = {}
        /\ pc[tick] = "idle" /\ \A i \in Interface : startedOn[i] = 0
    BY ThreadIsUser DEF Init
  <1>2. TradeDaily \subseteq Interface
    BY SchedulesAssumption
  <1> QED BY <1>1, <1>2 DEF Fits, AskedFits, DatesFit, TickFits, PendingFits, Pending, MarksFit

\* The steps of the tick that only take it further.
LEMMA TickMovesFit ==
    ASSUME Types, CallsFit, Fits,
           TickStarts \/ TakeList \/ TradeDayKnown \/ ResolveFails \/ TickEnds \/ \E i \in Interface : Serve(i)
    PROVE  Fits'
  <1>0. ScheduleTypes /\ CalendarTypeOK /\ tick \in Thread
    BY TypeParts, ThreadIsUser
  <1> USE <1>0 DEF Fits, Go, ScheduleTypes, timeVars, storeVars, threadVars, historyVars, calendarVars
  <1>1. CASE TickStarts
    <2>1. AskedFits' /\ TickFits'
      BY <1>1 DEF TickStarts, AskedFits, TickFits
    <2>2. DatesFit'
      BY <1>1 DEF TickStarts, DatesFit
    <2>3. PendingFits'
      BY <1>1 DEF TickStarts, PendingFits, Pending, TickFits
    <2>4. MarksFit'
      BY <1>1 DEF TickStarts, MarksFit, Unmarked, IsMarked
    <2> QED BY <2>1, <2>2, <2>3, <2>4
  <1>2. CASE TakeList
    <2>1. AskedFits'
      BY <1>2 DEF TakeList, AskedFits
    <2>2. TickFits'
      BY <1>2 DEF TakeList, TickFits, Due
    <2>3. DatesFit'
      BY <1>2 DEF TakeList, DatesFit
    <2>4. ASSUME NEW i \in Interface, Due(i), tickDay \notin disturbed
          PROVE  startedOn[i] # tickDay /\ memory[i] # Absent
      <3>1. memory[i].state = "on" /\ memory[i].key # tickDay /\ tickDay # 0
        BY <2>4 DEF Due
      <3>2. startedOn[i] = tickDay => memory[i].key = startedOn[i]
        BY <1>2, <2>4, <3>1 DEF MarksFit, Unmarked, IsMarked, TakeList
      <3> QED BY <3>1, <3>2 DEF Absent
    <2>5. PendingFits'
      BY <1>2, <2>4 DEF TakeList, PendingFits, Pending
    <2>6. MarksFit'
      BY <1>2 DEF TakeList, MarksFit, Unmarked, IsMarked
    <2> QED BY <2>1, <2>2, <2>3, <2>5, <2>6
  <1>3. CASE TradeDayKnown
    <2>1. AskedFits'
      <3>1. call[tick].open => call[tick].day \in OpenDays
        BY ThreadIsUser DEF CallsFit, CallFits
      <3> QED BY <1>3, <3>1 DEF TradeDayKnown, AskedFits
    <2>2. TickFits'
      BY <1>3 DEF TradeDayKnown, TickFits
    <2>3. DatesFit'
      BY <1>3 DEF TradeDayKnown, DatesFit
    <2>4. PendingFits'
      BY <1>3 DEF TradeDayKnown, PendingFits, Pending
    <2>5. MarksFit'
      BY <1>3 DEF TradeDayKnown, MarksFit, Unmarked, IsMarked
    <2> QED BY <2>1, <2>2, <2>3, <2>4, <2>5
  <1>4. CASE ResolveFails
    <2>1. AskedFits' /\ TickFits' /\ DatesFit'
      BY <1>4 DEF ResolveFails, AskedFits, TickFits, DatesFit
    <2>2. PendingFits'
      BY <1>4 DEF ResolveFails, PendingFits, Pending
    <2>3. MarksFit'
      BY <1>4 DEF ResolveFails, MarksFit, Unmarked, IsMarked
    <2> QED BY <2>1, <2>2, <2>3
  <1>5. CASE TickEnds
    <2>1. AskedFits' /\ TickFits' /\ DatesFit'
      BY <1>5 DEF TickEnds, AskedFits, TickFits, DatesFit
    <2>2. PendingFits'
      BY <1>5 DEF TickEnds, PendingFits, Pending
    <2>3. MarksFit'
      BY <1>5 DEF TickEnds, MarksFit, Unmarked, IsMarked
    <2> QED BY <2>1, <2>2, <2>3
  <1>6. ASSUME NEW i \in Interface, Serve(i) PROVE Fits'
    <2>1. AskedFits'
      <3>1. \A j \in TradeDaily : startedOn'[j] \in OpenDays \cup {0}
        BY <1>6 DEF Serve, AskedFits
      <3>2. CASE i \in TradeDaily
        <4>1. pc'[tick] = "asking" /\ tickDay' = tickDay /\ EnsureToday(tick, tickDay)
          BY <1>6, <3>2 DEF Serve, DayAsked
        <4>2. call'[tick].step # "raised" => call'[tick].day = tickDay
          <5>1. call \in [User -> Calls] /\ tick \in User
            BY ThreadIsUser DEF CalendarTypeOK, Calls
          <5>2. CASE unreadable
            BY <4>1, <5>1, <5>2 DEF EnsureToday, Step, NoCall
          <5>3. CASE ~unreadable
            <6>1. \/ call'[tick] = Ensuring(tickDay)
                  \/ call'[tick] = [NoCall EXCEPT !.step = "answered", !.day = tickDay, !.open = tickDay \in OpenDays]
              BY <4>1, <5>1, <5>3 DEF EnsureToday, Step
            <6> QED BY <6>1 DEF Ensuring, NoCall
          <5> QED BY <5>2, <5>3
        <4> QED BY <3>1, <4>1, <4>2 DEF AskedFits
      <3>3. CASE i \notin TradeDaily
        <4>1. pc'[tick] = "creating" /\ item'[tick] = i
          BY <1>6, <3>3 DEF Serve
        <4> QED BY <3>1, <3>3, <4>1 DEF AskedFits
      <3> QED BY <3>2, <3>3
    <2>2. TickFits'
      BY <1>6 DEF Serve, TickFits
    <2>3. DatesFit'
      BY <1>6 DEF Serve, DatesFit
    <2>4. PendingFits'
      BY <1>6 DEF Serve, PendingFits, Pending
    <2>5. MarksFit'
      BY <1>6 DEF Serve, MarksFit, Unmarked, IsMarked
    <2> QED BY <2>1, <2>2, <2>3, <2>4, <2>5
  <1> QED BY <1>1, <1>2, <1>3, <1>4, <1>5, <1>6

\* The step that starts a job: it is the first of its day.
LEMMA CreateJobFits ==
    ASSUME Types, Fits, NEW i \in Interface, CreateJob(i)
    PROVE  /\ Fits'
           /\ startedOn[i] = tickDay => tickDay \in disturbed
  <1>0. ScheduleTypes /\ tick \in Thread
    BY TypeParts, ThreadIsUser
  <1> USE <1>0 DEF Fits, Go, ScheduleTypes, timeVars, storeVars, calendarVars
  <1>1. i \in Pending /\ i \notin todo /\ tickDay # 0 /\ i = item[tick]
    BY DEF CreateJob, Pending, TickFits
  <1>2. tickDay \notin disturbed => startedOn[i] # tickDay /\ memory[i] # Absent
    BY <1>1 DEF PendingFits
  <1>3. AskedFits'
    BY DEF CreateJob, AskedFits
  <1>4. TickFits' /\ DatesFit'
    BY <1>1 DEF CreateJob, TickFits, DatesFit
  <1>5. PendingFits'
    BY <1>1 DEF CreateJob, PendingFits, Pending
  <1>6. MarksFit'
    <2>1. ASSUME NEW j \in Interface, startedOn'[j] \in {today, tickDay} \ ({0} \cup disturbed)
          PROVE  Unmarked(j)' \/ IsMarked(j)'
      <3>1. CASE startedOn'[j] = startedOn[j]
        <4>1. IsMarked(j) \/ Unmarked(j)
          BY <2>1, <3>1 DEF MarksFit
        <4>2. IsMarked(j)
          BY <4>1 DEF Unmarked, CreateJob
        <4> QED BY <3>1, <4>2 DEF IsMarked, CreateJob
      <3>2. CASE startedOn'[j] # startedOn[j]
        <4>1. j = i /\ startedOn'[i] = tickDay
          BY <3>2 DEF CreateJob
        <4> QED BY <1>1, <1>2, <2>1, <4>1 DEF Unmarked, CreateJob
      <3> QED BY <3>1, <3>2
    <2> QED BY <2>1 DEF MarksFit, CreateJob
  <1> QED BY <1>2, <1>3, <1>4, <1>5, <1>6

\* The step that marks it.
LEMMA MarkFits == ASSUME Types, Fits, NEW i \in Interface, Mark(i) PROVE Fits'
  <1>0. ScheduleTypes /\ tick \in Thread
    BY TypeParts, ThreadIsUser
  <1> USE <1>0 DEF Fits, Go, ScheduleTypes, timeVars, calendarVars, historyVars
  <1>1. /\ pc[tick] \in {"marking", "checked"} /\ i = item[tick] /\ i \notin todo /\ tickDay # 0
        /\ UNCHANGED <<today, clock, tickDay, todo, startedOn, disturbed, item, file, disk>>
        /\ pc'[tick] \in {"serving", "dumping"}
    BY DEF Mark, TickFits
  <1>2. AskedFits' /\ TickFits' /\ DatesFit'
    BY <1>1 DEF AskedFits, TickFits, DatesFit
  <1>3. \A j \in Interface : j # i => memory'[j] = memory[j]
    BY DEF Mark, Change
  <1>4. PendingFits'
    BY <1>1, <1>3 DEF PendingFits, Pending
  <1>5. ASSUME NEW j \in Interface, startedOn[j] \in {today, tickDay} \ ({0} \cup disturbed)
        PROVE  IsMarked(j)'
    <2>1. startedOn[j] = tickDay
      <3>1. startedOn[j] \in Nat /\ tickDay \in Nat /\ today \in Nat /\ startedOn[j] \in {today, tickDay}
        BY <1>5
      <3>2. startedOn[j] <= tickDay /\ tickDay <= today
        BY <1>1 DEF DatesFit
      <3>3. startedOn[j] = today => startedOn[j] = tickDay
        BY <3>1, <3>2
      <3> QED BY <3>1, <3>3
    <2>2. Unmarked(j) \/ IsMarked(j)
      BY <1>5 DEF MarksFit
    <2>3. CASE memory[i] = Absent
      <3>1. pc'[tick] = "serving" /\ memory' = memory
        BY <2>3 DEF Mark
      <3>2. IsMarked(j)
        BY <1>1, <2>2, <2>3 DEF Unmarked
      <3> QED BY <1>1, <3>1, <3>2 DEF IsMarked
    <2>4. CASE memory[i] # Absent
      <3>1. pc'[tick] = "dumping" /\ snap'[tick] = memory'
        BY <2>4 DEF Mark, Change
      <3>2. memory'[j].key = tickDay
        <4>1. CASE j # i
          BY <1>1, <1>3, <2>1, <2>2, <4>1 DEF Unmarked, IsMarked
        <4>2. CASE j = i /\ pc[tick] = "marking"
          <5>1. memory'[i] = Marked(i) /\ memory[i] \in Entries
            BY <2>4, <4>2 DEF Mark, Change
          <5>2. Marked(i).key = tickDay
            BY <5>1 DEF Marked, Entries
          <5> QED BY <4>2, <5>1, <5>2
        <4>3. CASE j = i /\ pc[tick] = "checked"
          <5>1. memory'[i] = memory[i]
            BY <2>4, <4>3 DEF Mark, Change
          <5> QED BY <2>1, <2>2, <4>3, <5>1 DEF Unmarked, IsMarked
        <4> QED BY <1>1, <4>1, <4>2, <4>3
      <3> QED BY <1>1, <2>1, <3>1, <3>2 DEF IsMarked
    <2> QED BY <2>3, <2>4
  <1>6. MarksFit'
    BY <1>1, <1>5 DEF MarksFit
  <1> QED BY <1>2, <1>4, <1>6

\* The steps with which it reads and writes the file.
LEMMA TickFilesFit == ASSUME Types, Fits, FileStep(tick) PROVE Fits'
  <1>0. ScheduleTypes /\ tick \in Thread
    BY TypeParts, ThreadIsUser
  <1> USE <1>0 DEF Fits, Go, Disturb, ScheduleTypes, timeVars, calendarVars
  <1>1. CASE ReadFile(tick)
    <2>1. pc[tick] = "loading" /\ pc'[tick] = IF file = "good" THEN "installing" ELSE "listing"
      BY <1>1 DEF ReadFile, AfterLoad
    <2>2. AskedFits' /\ TickFits' /\ DatesFit'
      BY <1>1, <2>1 DEF ReadFile, AskedFits, TickFits, DatesFit
    <2>3. PendingFits'
      BY <1>1, <2>1 DEF ReadFile, PendingFits, Pending, TickFits
    <2>4. MarksFit'
      BY <1>1, <2>1 DEF ReadFile, MarksFit, Unmarked, IsMarked
    <2> QED BY <2>2, <2>3, <2>4
  <1>2. CASE Install(tick)
    <2>1. pc[tick] = "installing" /\ pc'[tick] = "listing"
      BY <1>2 DEF Install, AfterLoad
    <2>2. AskedFits' /\ TickFits' /\ DatesFit'
      BY <1>2, <2>1 DEF Install, AskedFits, TickFits, DatesFit
    <2>3. PendingFits'
      BY <1>2, <2>1 DEF Install, PendingFits, Pending, TickFits
    <2>4. MarksFit'
      BY <1>2, <2>1 DEF Install, MarksFit, Unmarked, IsMarked
    <2> QED BY <2>2, <2>3, <2>4
  <1>3. CASE OpenFile(tick)
    <2>1. AskedFits' /\ TickFits' /\ DatesFit'
      BY <1>3 DEF OpenFile, AskedFits, TickFits, DatesFit
    <2>2. PendingFits'
      BY <1>3 DEF OpenFile, PendingFits, Pending
    <2>3. MarksFit'
      BY <1>3 DEF OpenFile, MarksFit, Unmarked, IsMarked
    <2> QED BY <2>1, <2>2, <2>3
  <1>4. CASE FillFile(tick)
    <2>1. pc[tick] \in {"filling", "overlaid"} /\ pc'[tick] = "serving" /\ file' # "missing"
      BY <1>4 DEF FillFile
    <2>2. AskedFits' /\ TickFits' /\ DatesFit'
      BY <1>4, <2>1 DEF FillFile, AskedFits, TickFits, DatesFit
    <2>3. PendingFits'
      BY <1>4, <2>1 DEF FillFile, PendingFits, Pending
    <2>4. MarksFit'
      BY <1>4, <2>1 DEF FillFile, MarksFit, Unmarked, IsMarked
    <2> QED BY <2>2, <2>3, <2>4
  <1> QED BY <1>1, <1>2, <1>3, <1>4 DEF FileStep

\* Time, and a restart.
LEMMA WorldFits == ASSUME Types, Fits, ClockTicks \/ NextDay \/ Restart PROVE Fits'
  <1>0. ScheduleTypes /\ tick \in Thread
    BY TypeParts, ThreadIsUser
  <1> USE <1>0 DEF Fits, ScheduleTypes, timeVars, storeVars, threadVars, historyVars, calendarVars
  <1>1. CASE ClockTicks
    <2>1. AskedFits' /\ TickFits' /\ DatesFit'
      BY <1>1 DEF ClockTicks, AskedFits, TickFits, DatesFit
    <2>2. tickDay \notin disturbed' => tickDay \notin disturbed
      BY <1>1 DEF ClockTicks, DatesFit
    <2>3. PendingFits'
      BY <1>1, <2>2 DEF ClockTicks, PendingFits, Pending
    <2>4. \A i \in Interface : startedOn[i] \notin disturbed' => startedOn[i] \notin disturbed
      BY <1>1 DEF ClockTicks, DatesFit
    <2>5. MarksFit'
      BY <1>1, <2>4 DEF ClockTicks, MarksFit, Unmarked, IsMarked
    <2> QED BY <2>1, <2>3, <2>5
  <1>2. CASE NextDay
    <2>1. AskedFits' /\ TickFits' /\ DatesFit'
      BY <1>2 DEF NextDay, AskedFits, TickFits, DatesFit
    <2>2. PendingFits'
      BY <1>2 DEF NextDay, PendingFits, Pending
    <2>3. \A i \in Interface : startedOn[i] # today'
      BY <1>2 DEF NextDay, DatesFit
    <2>4. MarksFit'
      BY <1>2, <2>3 DEF NextDay, MarksFit, Unmarked, IsMarked
    <2> QED BY <2>1, <2>2, <2>4
  <1>3. CASE Restart
    <2>1. pc'[tick] = "idle" /\ tickDay' = 0 /\ todo' = {} /\ (today # 0 => today \in disturbed')
          /\ UNCHANGED <<today, clock, startedOn>>
      BY <1>3 DEF Restart
    <2>2. AskedFits' /\ TickFits' /\ DatesFit'
      BY <2>1 DEF AskedFits, TickFits, DatesFit
    <2>3. PendingFits' /\ MarksFit'
      BY <2>1 DEF PendingFits, Pending, MarksFit
    <2> QED BY <2>2, <2>3
  <1> QED BY <1>1, <1>2, <1>3

LEMMA FitsStep == ASSUME Types, CallsFit, Fits, [Next]_vars PROVE Fits'
  <1>1. ASSUME NEW t \in Thread, CalendarWorks(t) PROVE Fits'
    BY <1>1, CalendarHasForm, QuietFormFits
  <1>2. ASSUME NEW i \in Interface, Unblock(i) PROVE Fits'
    BY <1>2, UnblockHasForm, QuietFormFits
  <1>3. ASSUME NEW t \in Request, RequestStarts(t) \/ RequestStep(t) \/ FileStep(t) PROVE Fits'
    BY <1>3, RequestHasForm, RequestFormFits
  <1>4. CASE TickStep
    BY <1>4, TickMovesFit, CreateJobFits, MarkFits DEF TickStep
  <1>5. CASE UNCHANGED vars
    <2>1. QuietForm
      BY <1>5 DEF vars, QuietForm, calendarVars
    <2> QED BY <2>1, QuietFormFits
  <1> QED BY <1>1, <1>2, <1>3, <1>4, <1>5, TickFilesFit, WorldFits DEF Next, Continue, Thread

LEMMA InductiveInvariant == Spec => [](Types /\ CallsFit /\ Fits)
  BY FitsInit, FitsStep, CallsInvariant, PTL DEF Spec

\* A schedule for trading days starts no job for another day, and a thread whose
\* call wrote alone is told what its day is.
THEOREM TradeDaysAreKept == Spec => []TradeDaysOnly
  <1>1. CallsFit /\ Fits => TradeDaysOnly
    BY DEF CallsFit, CallFits, Fits, AskedFits, TradeDaysOnly
  <1> QED BY <1>1, InductiveInvariant, PTL

\* In one minute a schedule starts one job, unless a request or a restart comes
\* between the job and its mark.
THEOREM StartsOncePerMinute == Spec => OncePerMinute
  <1>1. Types /\ Fits /\ [Next]_vars => [\A i \in blocked' \ blocked : startedOn[i] = tickDay => tickDay \in disturbed]_vars
    <2> SUFFICES ASSUME Types, Fits, [Next]_vars, NEW i \in blocked' \ blocked PROVE startedOn[i] = tickDay => tickDay \in disturbed
      OBVIOUS
    <2>0. blocked \subseteq Interface /\ ScheduleTypes
      BY TypeParts DEF ScheduleTypes
    <2>1. CASE \E j \in Interface : CreateJob(j)
      <3>1. PICK j \in Interface : CreateJob(j)
        BY <2>1
      <3>2. i = j
        BY <3>1 DEF CreateJob
      <3> QED BY <3>1, <3>2, CreateJobFits
    <2>2. ASSUME ~\E j \in Interface : CreateJob(j) PROVE FALSE
      <3>1. \A t \in Thread : CalendarWorks(t) => blocked' \subseteq blocked
        BY DEF CalendarWorks
      <3>2. \A t \in Request : RequestStarts(t) => blocked' \subseteq blocked
        BY DEF RequestStarts, GetSchedule, RefreshCalendar, EnableStarts, DisableStarts, Accept
      <3>3. \A t \in Request : RequestStep(t) => blocked' \subseteq blocked
        BY DEF RequestStep, CalendarAnswers, Enable, Disable
      <3>4. \A t \in Thread : FileStep(t) => blocked' \subseteq blocked
        BY DEF FileStep, ReadFile, Install, OpenFile, FillFile
      <3>5. TickStep => blocked' \subseteq blocked
        BY <2>2 DEF TickStep, TickStarts, TakeList, TradeDayKnown, ResolveFails, TickEnds, Serve, Mark
      <3>6. ClockTicks \/ NextDay \/ Restart \/ UNCHANGED vars => blocked' \subseteq blocked
        BY DEF ClockTicks, NextDay, Restart, vars
      <3>7. \A j \in Interface : Unblock(j) => blocked' \subseteq blocked
        BY DEF Unblock
      <3> QED BY <3>1, <3>2, <3>3, <3>4, <3>5, <3>6, <3>7 DEF Next, Continue
    <2> QED BY <2>1, <2>2
  <1> QED BY <1>1, InductiveInvariant, PTL DEF Spec, OncePerMinute
=============================================================================
