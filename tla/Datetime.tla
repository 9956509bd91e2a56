------------------------------ MODULE Datetime ------------------------------
(***************************************************************************)
(* datetime: a time_t read and set field by field through localtime() and   *)
(* mktime(), by several threads, each with datetimes of its own.  The       *)
(* broken-down time is a buffer of the C library that all threads share, so *)
(* a call has a step for each access to it.  With it go the locale of a     *)
(* thread, which as_gmt() and i18n set.  A small calendar, with a summer    *)
(* time.                                                                    *)
(***************************************************************************)
EXTENDS Integers, Sequences, FiniteSetsExt

CONSTANTS TimeThreads,
          MonthDays,          \* the days of each month of a year
          SummerMonths,
          Years,              \* 0..the last one; 0 is the year of the epoch
          StartTimes,         \* the broken-down times of the first datetimes
          SetValues,          \* field -> the values it is set to
          LocaleNames,        \* besides "C"
          MaxTimeCalls

VARIABLES time,      \* thread -> the _t of its datetime
          tm,        \* the buffer of localtime() and gmtime()
          call,      \* thread -> the call it is in, or the last one
          timeCalls, \* calls so far
          locales,   \* thread -> the locale installed, the one asked for
          freed      \* locales that were freed

timeVars == <<time, tm, call, timeCalls, locales, freed>>

(* Units of time: two of each in the next larger one. *)
Minute == 2
Hour == 4
Day == 8
Months == DOMAIN MonthDays
TimeFields == {"year", "month", "day", "hour", "minute", "second"}

-----------------------------------------------------------------------------
(* The C library.  A broken-down time of out-of-range fields stands for the one
   the excess carries it to.                                               *)
DaysBefore(month) == MapThenSumSet(LAMBDA m : MonthDays[m], 1..month - 1)
YearDays == DaysBefore(Len(MonthDays) + 1)

Seconds(t) ==
  LET year  == t.year + (t.month - 1) \div Len(MonthDays)
      month == 1 + ((t.month - 1) % Len(MonthDays))
  IN (year * YearDays + DaysBefore(month) + t.day - 1) * Day
       + t.hour * Hour + t.minute * Minute + t.second

BrokenDown ==
  UNION { [year: Years, month: {m}, day: 1..MonthDays[m], hour: 0..1, minute: 0..1, second: 0..1,
           isdst: {FALSE}] : m \in Months }
GmTimes == [t \in 0..Cardinality(Years) * YearDays * Day - 1 |-> CHOOSE b \in BrokenDown : Seconds(b) = t]
gmtime(t) == GmTimes[t]
localtime(t) ==
  IF gmtime(t).month \in SummerMonths THEN [gmtime(t + Hour) EXCEPT !.isdst = TRUE] ELSE gmtime(t)
mktime(b) == Seconds(b) - (IF b.isdst THEN Hour ELSE 0)

-----------------------------------------------------------------------------
NoCall == [op |-> "none", step |-> "done", mixed |-> FALSE]

TimeInit ==
  /\ \E b \in StartTimes : time = [th \in TimeThreads |-> mktime(b)]
  /\ tm = gmtime(0)
  /\ call = [th \in TimeThreads |-> NoCall]
  /\ timeCalls = 0
  /\ locales = [th \in TimeThreads |-> [now |-> "C", asked |-> "C"]]
  /\ freed = {}

(* The buffer gets b: whoever is between two of its steps has lost what it put
   there.                                                                  *)
Mixed(th) ==
  [u \in TimeThreads |-> IF u # th /\ call[u].step # "done" THEN [call[u] EXCEPT !.mixed = TRUE] ELSE call[u]]
Buffer(th, b, step) ==
  /\ tm' = b
  /\ call' = [Mixed(th) EXCEPT ![th].step = step]

Begin(th, c, b) ==
  /\ call[th].step = "done" /\ timeCalls < MaxTimeCalls
  /\ timeCalls' = timeCalls + 1
  /\ tm' = b
  /\ call' = [Mixed(th) EXCEPT ![th] = c]
  /\ UNCHANGED <<time, locales, freed>>

(* year() ... second(): read a field of the buffer.                        *)
GetField(th, field) ==
  Begin(th, [op |-> "get", field |-> field, from |-> time[th], step |-> "read", mixed |-> FALSE],
        localtime(time[th]))
ReadField(th) ==
  /\ call[th].step = "read" /\ call[th].op = "get"
  /\ call' = [call EXCEPT ![th] = [op |-> "get", field |-> @.field, from |-> @.from, is |-> tm[@.field],
                                   step |-> "done", mixed |-> @.mixed]]
  /\ UNCHANGED <<time, tm, timeCalls, locales, freed>>

(* year(val) ... second(val)                                               *)
SetField(th, field, val) ==
  Begin(th, [op |-> "set", field |-> field, val |-> val, from |-> time[th], step |-> "change", mixed |-> FALSE],
        localtime(time[th]))
ChangeField(th) ==
  /\ call[th].step = "change"
  /\ Buffer(th, [tm EXCEPT ![call[th].field] = call[th].val], "make")
  /\ UNCHANGED <<time, timeCalls, locales, freed>>


(* mktime() brings the buffer into range, too.                             *)
MakeTime(th) ==
  /\ call[th].step = "make"
  /\ time' = [time EXCEPT ![th] = mktime(tm)]
  /\ Buffer(th, localtime(time'[th]), "done")
  /\ UNCHANGED <<timeCalls, locales, freed>>

(* datetime(src, fmt): the buffer is one of its own, but strptime() fills only
   the fields of the format, and none says whether it is summer.           *)
Parse(th, b) ==
  /\ call[th].step = "done" /\ timeCalls < MaxTimeCalls
  /\ \E summer \in BOOLEAN : time' = [time EXCEPT ![th] = mktime([b EXCEPT !.isdst = summer])]
  /\ tm' = localtime(time'[th])
  /\ call' = [Mixed(th) EXCEPT ![th] = [op |-> "parse", given |-> b, step |-> "done", mixed |-> FALSE]]
  /\ timeCalls' = timeCalls + 1
  /\ UNCHANGED <<locales, freed>>

(* as_gmt(): its own locale is that of C, which is never really freed.     *)
BreakDown(th) ==
  Begin(th, [op |-> "gmt", from |-> time[th], old |-> locales[th].now, step |-> "locale", mixed |-> FALSE],
        gmtime(time[th]))
UseLocale(th) ==
  /\ call[th].step = "locale"
  /\ locales' = [locales EXCEPT ![th].now = "C"]
  /\ call' = [call EXCEPT ![th].step = "write"]
  /\ UNCHANGED <<time, tm, timeCalls, freed>>
WriteTime(th) ==
  /\ call[th].step = "write"
  /\ locales' = [locales EXCEPT ![th].now = call[th].old]
  /\ call' = [call EXCEPT ![th] = [op |-> "gmt", from |-> @.from, is |-> tm, locale |-> locales[th].now,
                                   step |-> "done", mixed |-> @.mixed]]
  /\ UNCHANGED <<time, tm, timeCalls, freed>>

(* i18n::locale(name), and with the locale that one returned.              *)
SetLocale(th, name) ==
  /\ call[th].step = "done"
  /\ locales' = [locales EXCEPT ![th] = [now |-> name, asked |-> name]]
  /\ freed' = freed \cup ({name} \ {"C"})
  /\ UNCHANGED <<time, tm, call, timeCalls>>

TimeNext ==
  \/ \E th \in TimeThreads : \/ ReadField(th) \/ ChangeField(th) \/ MakeTime(th)
                             \/ BreakDown(th) \/ UseLocale(th) \/ WriteTime(th)
  \/ \E th \in TimeThreads, f \in TimeFields : GetField(th, f) \/ \E v \in SetValues[f] : SetField(th, f, v)
  \/ \E th \in TimeThreads, b \in StartTimes : Parse(th, b)
  \/ \E th \in TimeThreads, name \in LocaleNames \cup {"C"} : SetLocale(th, name)

-----------------------------------------------------------------------------
Unit == [f \in {"day", "hour", "minute", "second"} |->
           CASE f = "day" -> Day [] f = "hour" -> Hour [] f = "minute" -> Minute [] f = "second" -> 1]

(* The date that was asked for is one of the calendar.                     *)
InCalendar(b) == b.month \in Months /\ b.day <= MonthDays[b.month]

(* A call that no other thread came between does what its name says.  A field
   that is read is the one of the local time.  A day, an hour, a minute or a
   second that is set moves the time by the difference, whatever the calendar
   does there; a month or a year that is set changes nothing else, save an hour
   when one of the two dates is in summer, if the date exists.  A time that is
   parsed is an hour early at most, and one that is written as GMT is written in
   the C locale, and leaves the locale of its thread as it was.            *)
CallMeaning(th) ==
  LET c == call[th]
      old == localtime(c.from)
      now == localtime(time[th])
      new == [old EXCEPT ![c.field] = c.val] IN
  CASE c.op = "get" -> c.is = old[c.field]
    [] c.op = "set" /\ c.field \in DOMAIN Unit ->
         time[th] - c.from = (c.val - old[c.field]) * Unit[c.field]
    [] c.op = "set" /\ c.field \notin DOMAIN Unit ->
         InCalendar(new) => Seconds(now) - Seconds(new) \in IF now.isdst = old.isdst THEN {0} ELSE {Hour, -Hour}
    [] c.op = "parse" -> Seconds(c.given) - time[th] \in {0, Hour}
    [] c.op = "gmt" -> c.is = gmtime(c.from) /\ c.locale = "C" /\ locales[th].now = locales[th].asked
    [] OTHER -> TRUE


(* "Set month of the date": the month of a date is then the one it was set to. *)
MonthIsSet ==
  \A th \in TimeThreads :
    call[th].op = "set" /\ call[th].step = "done" /\ call[th].field = "month" /\ ~call[th].mixed
      /\ call[th].val \in Months
    => localtime(time[th]).month = call[th].val

(* "Set the locale for the current thread": what a thread then uses exists. *)
LocaleLives == \A th \in TimeThreads : locales[th].now \notin freed
=============================================================================
