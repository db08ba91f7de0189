----------------------------- MODULE TradeCalendar -----------------------------
(***************************************************************************)
(* The cache of the exchange's trading calendar                            *)
(* (libs/axdata_core/axdata_core/trade_calendar_cache.py): one file that   *)
(* several threads of the API read, extend and write back in place,        *)
(* without a lock.                                                         *)
(*                                                                         *)
(* A day is a number.  Whether a day is open never changes, so the cache   *)
(* is the set of days it has a row for.  A call is one record per thread,  *)
(* and each of its steps ends where other threads can come in between.     *)
(* The ranges to fetch are one set of days: only the number of requests    *)
(* depends on how they are merged, and if one fails nothing is written.    *)
(***************************************************************************)
EXTENDS Integers

CONSTANTS
    User,           \* threads that use the calendar
    Past, Future,   \* past_days and future_days
    RecheckPast,    \* monthly_recheck_past_days
    FirstOfMonth,   \* first days of a month
    Published,      \* days of which the exchange tells whether they are open
    OpenDays        \* trading days

ASSUME CalendarAssumption ==
    /\ Past \in Nat /\ Future \in Nat /\ RecheckPast \in Nat
    /\ FirstOfMonth \subseteq Int
    /\ OpenDays \subseteq Published
    /\ Published \subseteq Int

VARIABLES
    today,          \* the date
    cached,         \* days in the cache file
    unreadable,     \* whether the file is no Parquet file
    call            \* what each thread does with the cache

calendarVars == <<cached, unreadable, call>>

NoCall == [step |-> "idle", day |-> 0, days |-> {}, recheck |-> 0, rows |-> {},
           ensure |-> FALSE, alone |-> TRUE, open |-> FALSE]

\* The cache as any earlier refreshes have left it.
InitCalendar ==
    /\ cached \in SUBSET Published
    /\ unreadable = FALSE
    /\ call = [u \in User |-> NoCall]

\* A step of one call, or its end by an exception when the file is unreadable.
Step(u, c) == call' = [call EXCEPT ![u] = c]
Raise(u) == Step(u, [call[u] EXCEPT !.step = "raised"])

-----------------------------------------------------------------------------
\* Variant: the rows of the range are not fetched again.
OutsideCoverage(days, rows, recheck) ==
    {d \in days : (\A r \in rows : d < r) \/ (\A r \in rows : r < d)}

\* _missing_ranges: before the first and after the last row, and from recheck
\* on.  A gap between two rows is missing only from recheck on.
Missing(days, rows, recheck) ==
    {d \in days : (\A r \in rows : d < r) \/ (\A r \in rows : r < d) \/ d >= recheck}

Refresh(u, days, recheckPast) ==
    /\ call[u].step = "idle"
    /\ Step(u, [NoCall EXCEPT !.step = "reading", !.day = today, !.days = days,
                              !.recheck = today - recheckPast])
    /\ UNCHANGED <<cached, unreadable>>

\* ensure_trade_calendar_cache for the day d
Ensuring(d) ==
    [NoCall EXCEPT !.step = "reading", !.day = d, !.days = d - Past .. d + Future,
                   !.recheck = IF d \in FirstOfMonth THEN d - RecheckPast ELSE d,
                   !.ensure = TRUE]

Ensure(u) ==
    /\ call[u].step = "idle"
    /\ Step(u, Ensuring(today))
    /\ UNCHANGED <<cached, unreadable>>

\* _ensure_calendar_for_today: a day in the cache is answered from there.
EnsureToday(u, d) ==
    /\ call[u].step = "idle"
    /\ Step(u, CASE unreadable -> [NoCall EXCEPT !.step = "raised"]
                 [] ~unreadable /\ d \in cached ->
                      [NoCall EXCEPT !.step = "answered", !.day = d, !.open = d \in OpenDays]
                 [] OTHER -> Ensuring(d))
    /\ UNCHANGED <<cached, unreadable>>

ReadCache(u) ==
    /\ call[u].step = "reading"
    /\ IF unreadable
       THEN Raise(u)
       ELSE Step(u, [call[u] EXCEPT !.step = "fetching", !.rows = cached,
                        !.alone = TRUE, !.days = Missing(@, cached, call[u].recheck)])
    /\ UNCHANGED <<cached, unreadable>>

\* Variant: a day that the exchange does not know is taken for a closed one.
FetchAndFill(u) ==
    /\ call[u].step = "fetching"
    /\ Step(u, [call[u] EXCEPT !.step = "merged", !.rows = @ \cup call[u].days])
    /\ UNCHANGED <<cached, unreadable>>

Fetch(u) ==
    /\ call[u].step = "fetching"
    /\ \/ Step(u, [call[u] EXCEPT !.step = "merged", !.rows = @ \cup (call[u].days \cap Published)])
       \/ Raise(u)
    /\ UNCHANGED <<cached, unreadable>>

\* _write_cache truncates the file
OpenCache(u) ==
    /\ call[u].step = "merged"
    /\ unreadable' = TRUE
    /\ Step(u, [call[u] EXCEPT !.step = "writing"])
    /\ UNCHANGED cached

\* and fills it; of two writers the second may leave a mixture.
FillCache(u) ==
    /\ call[u].step \in {"writing", "overlaid"}
    /\ cached' = call[u].rows
    /\ unreadable' \in IF call[u].step = "overlaid" THEN BOOLEAN ELSE {FALSE}
    /\ call' = [w \in User |->
          IF w = u THEN [call[u] EXCEPT !.step = "written", !.days = {}, !.rows = {}]
          ELSE [call[w] EXCEPT !.step = IF @ = "writing" THEN "overlaid" ELSE @,
                               !.alone = FALSE]]

\* The status that the caller gets is read from the file again.
ReadBack(u) ==
    /\ call[u].step = "written"
    /\ IF unreadable
       THEN Raise(u)
       ELSE Step(u, [call[u] EXCEPT !.step = "answered",
                        !.open = call[u].day \in cached \cap OpenDays])
    /\ UNCHANGED <<cached, unreadable>>

CalendarStep(u) ==
    ReadCache(u) \/ Fetch(u) \/ OpenCache(u) \/ FillCache(u) \/ ReadBack(u)

-----------------------------------------------------------------------------
CallStep == {"idle", "reading", "fetching", "merged", "writing", "overlaid", "written",
             "answered", "raised"}

CalendarTypeOK ==
    /\ today \in Int
    /\ cached \subseteq Published
    /\ unreadable \in BOOLEAN
    /\ call \in [User -> [step : CallStep, day : Int, days : SUBSET Int, recheck : Int,
                          rows : SUBSET Published, ensure : BOOLEAN, alone : BOOLEAN,
                          open : BOOLEAN]]

\* What ensure_trade_calendar_cache leaves in the file has a row for every day
\* from its day to the end of the range that the exchange has published,
\* whatever gaps the file had, unless another thread wrote in the meantime.
AheadIsCovered ==
    \A u \in User :
        call[u].ensure /\ call[u].alone /\ call[u].step = "written" =>
            (call[u].day .. call[u].day + Future) \cap Published \subseteq cached
=============================================================================
