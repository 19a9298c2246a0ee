----------------------------- MODULE DateRanges -----------------------------
(***************************************************************************)
(* Time periods: the entries of a period become date ranges (days) with    *)
(* time ranges in the day; the searches look for the next valid and the    *)
(* next invalid time. A timestamp is DayLength * day + second of the day.  *)
(* The calendar of the C library (months, weekdays) is external: every     *)
(* year has the same months, no day is longer than another.                *)
(***************************************************************************)
EXTENDS Integers, Sequences, SequencesExt, FiniteSets, FiniteSetsExt

CONSTANTS
  DayLength,   \* seconds of a day, 86400
  MonthStart,  \* the day of the year each month begins on, then the length of the year
  Horizon      \* days a search looks ahead: 365, 366 for the loop of the valid times

None == -1

\* The search raises.
Raised == -2

-----------------------------------------------------------------------------
(* The calendar *)

Months == 1..(Len(MonthStart) - 1)
YearLength == MonthStart[Len(MonthStart)]
LengthOf(m) == MonthStart[m + 1] - MonthStart[m]

Day(y, m, d) == y * YearLength + MonthStart[m] + d - 1
Year(day) == day \div YearLength
Month(day) == CHOOSE m \in Months : day % YearLength \in MonthStart[m]..(MonthStart[m + 1] - 1)
GetWday(day) == day % 7

\* get_start_of_day, get_end_of_day, get_day, get_sec_from_morning
GetStartOfDay(day) == day * DayLength
GetEndOfDay(day) == day * DayLength + DayLength - 1
DayOf(t) == t \div DayLength
GetDay(t) == GetStartOfDay(DayOf(t))
GetSecFromMorning(t) == t % DayLength

\* find_day_by_weekday_offset: the n-th such weekday of the month, from its end if n < 0
FindDayByWeekdayOffset(y, m, wday, offset) ==
  LET Same(low, high) == Cardinality({e \in low..high : GetWday(Day(y, m, e)) = wday})
      days == {d \in 1..LengthOf(m) : /\ GetWday(Day(y, m, d)) = wday
                                      /\ IF offset > 0 THEN Same(1, d) = offset
                                         ELSE Same(d, LengthOf(m)) = -offset}
  IN IF days = {} THEN None ELSE Min(days)

\* find_day_by_offset: a day after the end of the month is its last one.
FindDayByOffset(y, m, offset) ==
  IF offset >= 0 THEN Min({offset, LengthOf(m)}) ELSE Max({1, LengthOf(m) + offset + 1})

-----------------------------------------------------------------------------
(* The entries of a period. A point of an entry is [unit, year, mon, wday, num]; the  *)
(* units are "date" (2024-01-31), "month_weekday" (monday 2 january), "weekday"       *)
(* (monday 2), "month" (january 10), "day" (day 3) and "standard" (monday). An end is  *)
(* a point, a number alone, or missing.                                               *)

Point(unit, year, mon, wday, num) ==
  [unit |-> unit, year |-> year, mon |-> mon, wday |-> wday, num |-> num]

\* The end of an entry without one is its start; a number is one of the start's kind.
EndPoint(entry) ==
  CASE entry.end = <<>> -> entry.start
    [] entry.end # <<>> /\ entry.end[1].unit = "number" ->
         [entry.start EXCEPT !.num = entry.end[1].num]
    [] OTHER -> entry.end[1]

Daterange(kind, s, e, ranges) ==
  [kind |-> kind, start |-> s, end |-> e, syear |-> s.year, eyear |-> e.year, ranges |-> ranges]

\* resolve_daterange for "2024-01-31 - 2024-02-02"
ResolveCalendar(entry) == Daterange("Calendar", entry.start, EndPoint(entry), entry.ranges)

\* resolve_daterange for two points with a "-"; a skip interval is read and kept, never used.
ResolvePoints(entry) ==
  LET kind == CASE entry.start.unit = "month_weekday" -> "MonthWeekDay"
                [] entry.start.unit = "weekday" -> "WeekDay"
                [] entry.start.unit = "month" -> "MonthDate"
                [] entry.start.unit = "day" -> "MonthDay"
  IN Daterange(kind, entry.start, EndPoint(entry), entry.ranges)

\* resolve_daterange for one point: "monday 2 january", "monday 2", "january 10", "day 3"
ResolveOnePoint(entry) == ResolvePoints([entry EXCEPT !.end = <<>>])

\* resolve_daterange for "monday"
ResolveStandard(entry) == Daterange("Standard", entry.start, entry.start, entry.ranges)

\* What no pattern matches is an invalid entry.
ResolveDaterange(entry) ==
  CASE entry.start.unit = "date" -> <<ResolveCalendar(entry)>>
    [] entry.start.unit = "standard" -> <<ResolveStandard(entry)>>
    [] entry.start.unit \notin {"date", "standard"} /\ EndPoint(entry).unit # entry.start.unit -> <<>>
    [] OTHER -> <<IF entry.end = <<>> THEN ResolveOnePoint(entry) ELSE ResolvePoints(entry)>>

-----------------------------------------------------------------------------
(* get_start_and_end_time. A range without a year takes the one of the first time it is    *)
(* asked about, and keeps it; the years of WeekDay and MonthDay move when a month is added  *)
(* or taken in their first or last month. So an answer is a pair: the days that are found,  *)
(* and the date range that the call leaves.                                                 *)

Between(s, e) == [start |-> GetStartOfDay(s), end |-> GetEndOfDay(e)]
Found(dr, s, e) == [days |-> Between(s, e), left |-> dr]

\* The years are set by the first call.
Dated(dr, t) ==
  [dr EXCEPT !.syear = IF @ = 0 THEN Year(DayOf(t)) ELSE @,
             !.eyear = IF @ = 0 THEN Year(DayOf(t)) ELSE @]

StartOfCalendar(dr) ==
  Found(dr, Day(dr.syear, dr.start.mon, dr.start.num), Day(dr.eyear, dr.end.mon, dr.end.num))

StartOfStandard(dr, t) ==
  LET day == DayOf(t) + ((dr.start.wday - GetWday(DayOf(t))) % 7)
  IN Found(dr, day, day)

WeekdayDay(p, y, m) == Day(y, m, FindDayByWeekdayOffset(y, m, p.wday, p.num))
OffsetDay(p, y, m) == Day(y, m, FindDayByOffset(y, m, p.num))

\* The day of a point in a month, by its weekday or by its number
PointDay(dr, p, y, m) ==
  IF dr.kind \in {"MonthWeekDay", "WeekDay"} THEN WeekdayDay(p, y, m) ELSE OffsetDay(p, y, m)

\* The range of the years of dr, or of the next ones; between two years, one year is moved:
\* lastStart is the start of last year.
YearRange(dr, t, lastStart) ==
  LET S(n) == PointDay(dr, dr.start, dr.syear + n, dr.start.mon)
      E(n) == PointDay(dr, dr.end, dr.eyear + n, dr.end.mon)
      late == t > GetEndOfDay(E(0))
  IN IF S(0) > E(0)
     THEN IF late THEN Found(dr, S(0), E(1)) ELSE Found(dr, lastStart, E(0))
     ELSE IF late THEN Found(dr, S(1), E(1)) ELSE Found(dr, S(0), E(0))

StartOfMonthWeekDay(range, t) ==
  LET dr == Dated(range, t)
  IN YearRange(dr, t, WeekdayDay(dr.start, dr.syear - 1, dr.start.mon))

\* The start of last year is computed with emday, the day of the end.
StartOfMonthDate(range, t) ==
  LET dr == Dated(range, t)
  IN YearRange(dr, t, OffsetDay(dr.end, dr.syear - 1, dr.start.mon))

\* The month before and the month after, with their years
Before(y, m) == IF m = 1 THEN <<y - 1, Max(Months)>> ELSE <<y, m - 1>>
\* Mutant: the year is not moved with the month.
After_SameYear(y, m) == IF m = Max(Months) THEN <<y, 1>> ELSE <<y, m + 1>>

After(y, m) == IF m = Max(Months) THEN <<y + 1, 1>> ELSE <<y, m + 1>>

StartDay(dr, x) == PointDay(dr, dr.start, x[1], x[2])
EndDay(dr, x) == PointDay(dr, dr.end, x[1], x[2])

\* Whether in the month m the end comes before the start
Turned(dr, m) == StartDay(dr, <<dr.syear, m>>) > EndDay(dr, <<dr.eyear, m>>)

\* From the months sm and em, <<year, month>>, or from the next ones if the end is over;
\* their years stay in dr.
MonthRange(dr, t, sm, em) ==
  LET late == GetEndOfDay(EndDay(dr, em)) < t
      s == IF late THEN After(sm[1], sm[2]) ELSE sm
      e == IF late THEN After(em[1], em[2]) ELSE em
  IN Found([dr EXCEPT !.syear = s[1], !.eyear = e[1]], StartDay(dr, s), EndDay(dr, e))

\* An end before the start is the one of the next month.
StartOfWeekDay(range, t) ==
  LET dr == Dated(range, t)
      m == Month(DayOf(t))
  IN MonthRange(dr, t, <<dr.syear, m>>, IF Turned(dr, m) THEN After(dr.eyear, m) ELSE <<dr.eyear, m>>)

\* A start after the end is the one of the month before.
StartOfMonthDay(range, t) ==
  LET dr == Dated(range, t)
      m == Month(DayOf(t))
  IN MonthRange(dr, t, IF Turned(dr, m) THEN Before(dr.syear, m) ELSE <<dr.syear, m>>, <<dr.eyear, m>>)

StartAndEndTime(dr, t) ==
  CASE dr.kind = "Calendar" -> StartOfCalendar(dr)
    [] dr.kind = "Standard" -> StartOfStandard(dr, t)
    [] dr.kind = "MonthWeekDay" -> StartOfMonthWeekDay(dr, t)
    [] dr.kind = "MonthDate" -> StartOfMonthDate(dr, t)
    [] dr.kind = "WeekDay" -> StartOfWeekDay(dr, t)
    [] dr.kind = "MonthDay" -> StartOfMonthDay(dr, t)

\* What it returns, and the date range afterwards
GetStartAndEndTime(dr, t) == StartAndEndTime(dr, t).days
LeftBy(dr, t) == StartAndEndTime(dr, t).left

-----------------------------------------------------------------------------
(* The searches in a date range, for Calendar and Standard: no call changes these. A time   *)
(* range is [from, to], "to" included; 24:00 is DayLength.                                  *)

Within(se, t) == se.start <= t /\ t <= se.end

IsTimeDayValid(dr, t) == Within(GetStartAndEndTime(dr, t), t)

DaterangeValid(dr, t) ==
  /\ IsTimeDayValid(dr, t)
  /\ \E r \in dr.ranges : r.from <= GetSecFromMorning(t) /\ GetSecFromMorning(t) <= r.to

\* get_next_future_timerange_valid, get_next_future_timerange_invalid
NextRangeStart(dr, t) ==
  LET starts == {r.from : r \in {r \in dr.ranges : r.from >= GetSecFromMorning(t)}}
  IN IF starts = {} THEN None ELSE Min(starts)

NextRangeEnd(dr, t) ==
  LET ends == {IF r.to = DayLength THEN r.to - 1 ELSE r.to :
                r \in {r \in dr.ranges : r.to >= GetSecFromMorning(t)}}
  IN IF ends = {} THEN None ELSE Min(ends)

\* The day of a range that begins later, or the day of t if the range has it
ValidDay(dr, start, t) ==
  CASE t <= start -> GetDay(start)
    [] t > start /\ IsTimeDayValid(dr, t) -> GetDay(t)
    [] OTHER -> None

GetNextValidDay(dr, t) ==
  LET ref == IF NextRangeStart(dr, t) = None THEN GetDay(t) + DayLength ELSE t
  IN ValidDay(dr, GetStartAndEndTime(dr, ref).start, t)

\* The first second of a range in that day, from a second of it on
InDay(day, sec) == IF day = None \/ sec = None THEN None ELSE day + sec
FirstOf(dr, day) == InDay(day, NextRangeStart(dr, day))

\* When the day has no range left, the search goes on with the next day, once.
FromDay(dr, t, day) ==
  LET first == InDay(day, NextRangeStart(dr, IF t < day THEN day ELSE t))
  IN CASE day = None -> None
       [] day # None /\ first # None -> first
       [] OTHER -> FirstOf(dr, GetNextValidDay(dr, GetDay(t) + DayLength))

DaterangeNextValid(dr, t) ==
  IF DaterangeValid(dr, t) THEN t ELSE FromDay(dr, t, GetNextValidDay(dr, t))

GetNextInvalidDay(dr, t) ==
  CASE ~IsTimeDayValid(dr, t) -> t
    [] IsTimeDayValid(dr, t) /\ NextRangeEnd(dr, t) # None -> GetDay(t)
    [] OTHER -> GetDay(GetStartAndEndTime(dr, GetDay(t)).end + 1)

AfterEnd(day, sec) == day + sec + 1

FromInvalidDay(dr, t, day) ==
  LET sec == NextRangeEnd(dr, IF t < day THEN day ELSE t)
  IN IF sec # None THEN AfterEnd(day, sec) ELSE day

DaterangeNextInvalid(dr, t) ==
  IF DaterangeValid(dr, t) THEN FromInvalidDay(dr, t, GetNextInvalidDay(dr, t)) ELSE t

-----------------------------------------------------------------------------
(* The searches in a period: [ranges |-> a sequence of date ranges, exclude |-> periods]  *)

RECURSIVE IsTimeValid(_, _)

IsTimeValid(tp, t) ==
  /\ \A k \in DOMAIN tp.exclude : ~IsTimeValid(tp.exclude[k], t)
  /\ \E k \in DOMAIN tp.ranges : DaterangeValid(tp.ranges[k], t)

RECURSIVE Spans(_, _, _)

\* One (start, end) pair of a date range, and the next ones
SpansFrom(dr, t, start, end) ==
  {<<start, end>>} \cup (IF end > t + DayLength * Horizon THEN {} ELSE Spans(dr, t, end))

\* The (start, end) pairs of a date range from t on, for a year
Spans(dr, t, from) ==
  LET From(start) == IF start = None THEN {}
                     ELSE SpansFrom(dr, t, start, DaterangeNextInvalid(dr, start))
  IN From(DaterangeNextValid(dr, from))

Earlier(p, q) == p[1] < q[1] \/ (p[1] = q[1] /\ p[3] < q[3])

\* merge_periods, for <<start, end, rank>>: by start, then in the order of the date ranges;
\* the end of the last one that is merged counts.
MergePeriods(pairs) ==
  FoldLeft(LAMBDA merged, p :
             IF merged # <<>> /\ Last(merged)[2] >= p[1]
             THEN [merged EXCEPT ![Len(merged)] = <<@[1], p[2], @[3]>>]
             ELSE Append(merged, p),
           <<>>, [k \in 1..Cardinality(pairs) |->
                    CHOOSE p \in pairs : Cardinality({q \in pairs : Earlier(q, p)}) = k - 1])

\* What get_next_invalid_time_from_t makes of the merged periods
FirstInvalid(periods, excluded, t) ==
  CASE periods = <<>> -> Raised
    [] periods # <<>> /\ periods[1][1] > t -> t
    [] OTHER -> IF excluded # <<>> /\ excluded[1][1] < periods[1][2]
                THEN excluded[1][1] ELSE periods[1][2]

GetNextInvalidTimeFromT(tp, t) ==
  LET Periods(drs) ==
        MergePeriods(UNION {{<<p[1], p[2], k>> : p \in Spans(drs[k], t, t)} : k \in DOMAIN drs})
  IN FirstInvalid(Periods(tp.ranges),
                  Periods(FlattenSeq([k \in DOMAIN tp.exclude |-> tp.exclude[k].ranges])), t)

RECURSIVE SearchValid(_, _, _)

\* One turn of the loop of get_next_valid_time_from_t, from the valid times of the date
\* ranges; one exclusion that does not hold is enough to accept a time.
Accepted(tp, times) ==
  {x \in times : tp.exclude = <<>> \/ \E k \in DOMAIN tp.exclude : ~IsTimeValid(tp.exclude[k], x)}

\* Otherwise the loop goes on with the first time at which an exclusion ends.
Later(tp, times) ==
  IF times = {} THEN {}
  ELSE {GetNextInvalidTimeFromT(tp.exclude[k], Min(times)) : k \in DOMAIN tp.exclude}

Turn(tp, accepted, later, original) ==
  LET found == IF accepted # {} THEN Min(accepted) ELSE IF later = {} THEN None ELSE Min(later)
  IN CASE found = None -> None
       [] found # None /\ found > original + DayLength * (Horizon + 1) + 1 -> None
       [] OTHER -> IF accepted # {} THEN found ELSE SearchValid(tp, found, original)

SearchValid(tp, t, original) ==
  LET From(times) == Turn(tp, Accepted(tp, times), Later(tp, times), original)
  IN From({DaterangeNextValid(tp.ranges[k], t) : k \in DOMAIN tp.ranges} \ {None})

\* get_next_valid_time_from_t; what the cache holds for t is this answer.
GetNextValidTimeFromT(tp, t) == SearchValid(tp, t, t)
=============================================================================
