----------------------------- MODULE TimePeriod -----------------------------
(***************************************************************************)
(* The time a business activity has spent in a state, counted inside a     *)
(* reporting period: timeperiod and timerange of core/src/time, the        *)
(* durations reporting_stream stores of a closed event, and the share of   *)
(* each day that availability_thread and availability_builder compute.     *)
(*                                                                         *)
(* A behaviour is about one event of one BA with one time period.  Time is *)
(* counted in hours, a day has DayLength of them and a week WeekLength     *)
(* days.  The clock of the time zone may be put forward ("summer") or back *)
(* ("winter") by one hour, once, in the first half of a day.  Exceptions   *)
(* and excluded periods are stored by timeperiod and used by nothing.      *)
(***************************************************************************)
EXTENDS Integers, Sequences, FiniteSets, FiniteSetsExt, SequencesExt

CONSTANTS
    DayLength, WeekLength,  \* 24 and 7 in the code
    RangeLists,     \* the lists of time ranges <<start, end>> a weekday may have
    Shifts,         \* changes of the clock: [to, at]
    MaxLength       \* bound: length of the event

ASSUME TimeAssumption ==
    /\ DayLength \in Nat \ {0, 1} /\ WeekLength \in Nat \ {0}
    /\ MaxLength \in Nat \ {0}
    /\ \A s \in Shifts : s.to \in {"none", "summer", "winter"} /\ s.at \in Nat

VARIABLES
    ranges,         \* timeperiod::_timeranges, by weekday
    shift,          \* the change of the clock
    event,          \* ba_event: start and end
    stored,         \* the ba_duration_event of the closed event, or NoRow
    first,          \* _build_availabilities: the day to write, NoTime before
    walk,           \* the call of duration_intersect under way, or Idle
    total,          \* sum of the availabilities written for the event
    opened,         \* sum of the events counted as opened on their day
    closed          \* the thread has found the event closed

timeVars == <<ranges, shift, event, stored, first, walk, total, opened, closed>>

NoTime == -1
NoRow == [start |-> NoTime, sla |-> 0]
Idle == [on |-> FALSE]

-----------------------------------------------------------------------------
(* The C library, for one time zone.  mktime believes tm_isdst, also where *)
(* it is not the one of that day.                                          *)

Dst(t) == CASE shift.to = "none" -> 0
            [] shift.to = "summer" -> IF t < shift.at THEN 0 ELSE 1
            [] shift.to = "winter" -> IF t < shift.at THEN 1 ELSE 0

LocalTime(t) ==
    [day |-> (t + Dst(t)) \div DayLength, hour |-> (t + Dst(t)) % DayLength,
     isdst |-> Dst(t)]

MkTime(tm) == tm.day * DayLength + tm.hour - tm.isdst

-----------------------------------------------------------------------------
(* timeperiod and timerange. *)

(* The midnight before t, with the tm_isdst of t. *)
StartOfDay(t) == MkTime([LocalTime(t) EXCEPT !.hour = 0])

AddRoundDaysToMidnight(midnight, days) ==
    LET t == midnight + days * DayLength
    IN  IF LocalTime(t).hour = 0 THEN t ELSE StartOfDay(t + DayLength \div 2)

RangeStart(r, midnight) == MkTime([midnight EXCEPT !.hour = r[1]])
(* The tm that mktime has filled for the start is used again. *)
RangeEnd(r, midnight) ==
    MkTime([LocalTime(RangeStart(r, midnight)) EXCEPT !.hour = r[2]])

(* Day i from the day of t on: its midnight and the ranges of its weekday. *)
DayStart(t, i) == AddRoundDaysToMidnight(StartOfDay(t), i)
RangesOn(t, i) == ranges[(LocalTime(t).day + i) % WeekLength]
AheadDays == 0 .. WeekLength

GetNextValid(t) ==
    LET Candidates(i) ==
            LET midnight == LocalTime(DayStart(t, i))
                Open == {r \in ToSet(RangesOn(t, i)) : t < RangeEnd(r, midnight)}
            IN  {Max({RangeStart(r, midnight), t}) : r \in Open}
        Found == {i \in AheadDays : Candidates(i) # {}}
    IN  IF t = NoTime \/ Found = {} THEN NoTime ELSE Min(Candidates(Min(Found)))

(* One pass of the inner loop leaves every range the time is in when its   *)
(* turn comes; passes are made until none does, and each leaves one range  *)
(* for good.                                                               *)
GetNextInvalid(t) ==
    LET Leave(i, time, r) ==
            LET midnight == LocalTime(DayStart(t, i))
            IN  IF RangeStart(r, midnight) <= time /\ time < RangeEnd(r, midnight)
                THEN RangeEnd(r, midnight) ELSE time
        Pass(i, time) ==
            FoldLeft(LAMBDA acc, r : Leave(i, acc, r), time, RangesOn(t, i))
        Outside(i) ==
            FoldLeft(LAMBDA acc, r : Pass(i, acc), Max({t, DayStart(t, i)}), RangesOn(t, i))
        Found == {i \in AheadDays :
                    Outside(i) < AddRoundDaysToMidnight(DayStart(t, i), 1)}
    IN  IF t = NoTime \/ Found = {} THEN NoTime ELSE Outside(Min(Found))

(* duration_intersect: the call, and one turn of its loop. *)
DurationIntersect(start, end) ==
    [on |-> start <= end, from |-> start, at |-> start, end |-> end, duration |-> 0,
     turns |-> 0]

(* Mutant: the last stretch is not cut at the end of the interval. *)
TurnUncut(w) ==
    LET start == GetNextValid(w.at)
        end == GetNextInvalid(start)
    IN  IF start = NoTime \/ start > w.end THEN [w EXCEPT !.on = FALSE]
        ELSE IF end = NoTime \/ end > w.end
        THEN [w EXCEPT !.on = FALSE, !.duration = @ + Max({end, w.end}) - start]
        ELSE [w EXCEPT !.at = end, !.duration = @ + end - start, !.turns = @ + 1]

TurnOf(w) ==
    LET start == GetNextValid(w.at)
        end == GetNextInvalid(start)
    IN  IF start = NoTime \/ start > w.end THEN [w EXCEPT !.on = FALSE]
        ELSE IF end = NoTime \/ end > w.end
        THEN [w EXCEPT !.on = FALSE, !.duration = @ + w.end - start]
        ELSE [w EXCEPT !.at = end, !.duration = @ + end - start, !.turns = @ + 1]

Turn ==
    /\ walk.on
    /\ walk' = TurnOf(walk)
    /\ UNCHANGED <<ranges, shift, event, stored, first, total, opened, closed>>

-----------------------------------------------------------------------------
(* The event is closed: reporting_stream::_compute_event_durations. *)
ComputeEventDurations ==
    LET start == GetNextValid(event.start)
    IN  /\ stored = NoRow /\ first = NoTime /\ walk = Idle
        /\ IF start # NoTime /\ start < event.end
           THEN /\ stored' = [start |-> start, sla |-> 0]
                /\ walk' = DurationIntersect(start, event.end)
                /\ UNCHANGED first
           ELSE /\ first' = StartOfDay(event.start)
                /\ UNCHANGED <<stored, walk>>
        /\ UNCHANGED <<ranges, shift, event, total, opened, closed>>

StoreDuration ==
    /\ first = NoTime /\ walk # Idle /\ ~walk.on
    /\ stored' = [stored EXCEPT !.sla = walk.duration]
    /\ first' = StartOfDay(event.start)
    /\ walk' = Idle
    /\ UNCHANGED <<ranges, shift, event, total, opened, closed>>

(* availability_thread::_build_daily_availabilities takes the row of the   *)
(* durations of a closed event, or the event as long as it is not closed,  *)
(* and availability_builder::add_event cuts it at the limits of the day.   *)
NextDay == AddRoundDaysToMidnight(first, 1)
Selected(isClosed) ==
    IF isClosed THEN stored # NoRow /\ stored.start < NextDay /\ event.end >= first
                ELSE event.start < NextDay
AddEvent(start, end) ==
    /\ walk' = DurationIntersect(Max({start, first}), Min({end, NextDay}))
    /\ opened' = opened + (IF first <= start /\ start < NextDay THEN 1 ELSE 0)

(* An event that ends after the day may be closed or not when the thread   *)
(* comes to that day: at midnight, late, or in a rebuild.                  *)
BuildDay(isClosed) ==
    /\ first # NoTime /\ walk = Idle /\ first <= event.end
    /\ isClosed \/ (~closed /\ event.end > NextDay)
    /\ closed' = isClosed
    /\ IF Selected(isClosed)
       THEN /\ IF isClosed THEN AddEvent(stored.start, event.end)
                           ELSE AddEvent(event.start, NextDay)
            /\ UNCHANGED first
       ELSE /\ first' = NextDay
            /\ UNCHANGED <<walk, opened>>
    /\ UNCHANGED <<ranges, shift, event, stored, total>>

WriteAvailability ==
    /\ first # NoTime /\ walk # Idle /\ ~walk.on
    /\ total' = total + walk.duration
    /\ first' = NextDay
    /\ walk' = Idle
    /\ UNCHANGED <<ranges, shift, event, stored, opened, closed>>

-----------------------------------------------------------------------------
TimeInit ==
    /\ ranges \in [0 .. WeekLength - 1 -> RangeLists]
    /\ shift \in Shifts
    /\ \E start \in DayLength .. 2 * DayLength - 1, length \in 1 .. MaxLength :
           event = [start |-> start, end |-> start + length]
    /\ stored = NoRow /\ first = NoTime /\ walk = Idle /\ total = 0
    /\ opened = 0 /\ closed = FALSE

TimeNext ==
    \/ ComputeEventDurations \/ StoreDuration \/ Turn
    \/ \E isClosed \in BOOLEAN : BuildDay(isClosed)
    \/ WriteAvailability

TimeSpec == TimeInit /\ [][TimeNext]_timeVars

-----------------------------------------------------------------------------
(* The hours between two times that lie in the ranges of their weekday, by *)
(* the clock of the time zone.                                             *)
InPeriod(t) ==
    LET tm == LocalTime(t)
    IN  \E r \in ToSet(ranges[tm.day % WeekLength]) : r[1] <= tm.hour /\ tm.hour < r[2]
HoursInPeriod(from, to) == Cardinality({t \in from .. to - 1 : InPeriod(t)})

Done == first # NoTime /\ first > event.end
ClockQuiet ==
    \/ shift.to = "none"
    \/ LocalTime(shift.at).day \notin LocalTime(event.start).day .. LocalTime(event.end).day

(* The walk of duration_intersect always advances, so that it ends.        *)
WalkAdvances == walk # Idle => walk.turns <= walk.at - walk.from

(* An event with time in the period is counted as opened on one day, or on *)
(* two if it was open at the midnight before it entered the period: on the *)
(* day of its own start and on the day of the start that was stored.       *)
OpenedOnce ==
    stored # NoRow =>
       /\ opened \in {1, 2}
       /\ opened = 2 => LocalTime(event.start).day < LocalTime(stored.start).day

(* The SLA duration stored for a closed event, and the availabilities of   *)
(* its days together, are the hours of the event inside the period, whether *)
(* a day was computed while the event was open or after it was closed, and *)
(* its opening is counted; ranges may overlap, touch, be empty, inverted or *)
(* pass midnight.  Only a day on which the clock changes is excepted.      *)
SlaExact ==
    /\ WalkAdvances
    /\ ClockQuiet /\ first # NoTime =>
         stored.sla = HoursInPeriod(event.start, event.end)
    /\ ClockQuiet /\ Done =>
         total = HoursInPeriod(event.start, event.end) /\ OpenedOnce

(* "We're now sure to be in the proper day (DST shift is +-1h) we only have *)
(* to reset time to midnight, convert back and we're done." (timeperiod.cc) *)
MidnightsAreMidnights ==
    LET t == AddRoundDaysToMidnight(StartOfDay(event.start), 0)
    IN  LocalTime(t) = [LocalTime(event.start) EXCEPT !.hour = 0, !.isdst = Dst(t)]

=============================================================================
