-------------------------------- MODULE Cron --------------------------------
(***************************************************************************)
(* Cron schedules (src/pkg/cron/cron.go): Parse, and the search of Next    *)
(* for the earliest time that matches, which skips months, days, hours and *)
(* minutes on the wall clock of a time zone.  Schedulers call Next again   *)
(* with the time that it returned.                                         *)
(*                                                                         *)
(* Time is counted in minutes.  The lengths of hours, days and weeks and   *)
(* the calendar are parameters, since TLC cannot go through eight years of *)
(* minutes: the code depends on them only through package time, which is   *)
(* external.  A time zone changes its offset at most once.                 *)
(***************************************************************************)
EXTENDS Integers, Sequences, FiniteSetsExt

CONSTANTS
  MinutesPerHour, HoursPerDay, DaysPerWeek,
  Calendar,       \* the days of a cycle of years, one after the other: the year, the
                  \* month and its length, and the day; dates repeat every 400 years
  LimitYears,     \* Next looks ahead this far (8)
  Zones,          \* time zones: the offsets before and after a transition, and
                  \* the one that package time chooses if in doubt
  Specs,          \* the specifications, as fields
  Intervals,      \* the durations of @every, at least a second
  Start,          \* the time of the first call
  LastCall        \* bound: no call with a later time

MinutesPerDay == MinutesPerHour * HoursPerDay

\* The days of the cycle, from 0.
CycleDays == Len(Calendar)
Days == 0..(CycleDays - 1)
DateOf == [k \in Days |-> Calendar[k + 1]]

CycleYears == Max({DateOf[k].year : k \in Days})
MonthsPerYear == Max({DateOf[k].month : k \in Days})
DaysPerMonth == Max({DateOf[k].length : k \in Days})

ASSUME CronAssumption ==
  /\ {MinutesPerHour, HoursPerDay, DaysPerWeek, LimitYears} \subseteq Nat \ {0}
  /\ {Start, LastCall} \subseteq Int
  /\ Intervals \subseteq Nat \ {0}
  /\ Specs \subseteq LET field == SUBSET [from : Int, to : Int, step : Nat]
                     IN  [minutes : field, hours : field, daysOfMonth : field,
                          months : field, daysOfWeek : field]

\* One day after the other.
ASSUME CalendarAssumption ==
  /\ Calendar \in Seq([year : Nat, month : Nat, length : Nat, day : Nat])
  /\ Calendar # << >>
  /\ \A k \in Days :
       LET today == DateOf[k]
           tomorrow == DateOf[(k + 1) % CycleDays]
       IN  /\ today.day \in 1..today.length
           /\ today.day < today.length => tomorrow = [today EXCEPT !.day = @ + 1]
           /\ today.day = today.length =>
                /\ tomorrow.day = 1
                /\ tomorrow.month = 1 + (today.month % MonthsPerYear)

ASSUME ZoneAssumption ==
  \A z \in Zones : /\ {z.at, z.before, z.after} \subseteq Int
                   /\ z.unclear \in {z.before, z.after}

-----------------------------------------------------------------------------
(* Parse.  A part of a field is a record: the range from..to, either of    *)
(* which may be the value Star, and a step, or 0 if there is none.         *)

Star == -1

Invalid == {}

\* parseValue: as a day of the week, 7 is Sunday too.
ParseValue(v, size, days) == IF days /\ v = size THEN 0 ELSE v

ValidValue(v, size, zeroUnused, days) ==
  ParseValue(v, size, days) \in (IF zeroUnused THEN 1 ELSE 0)..(size - 1)

\* parsePart: the indexes that the part sets, or Invalid.  A range of days of the week
\* may end with Sunday.
ParsePart(part, size, zeroUnused, days) ==
  LET low  == IF zeroUnused THEN 1 ELSE 0
      from == IF part.from = Star THEN low ELSE ParseValue(part.from, size, days)
      end  == CASE part.from = Star -> size - 1
                [] part.to = Star   -> from
                [] OTHER            -> ParseValue(part.to, size, days)
      toSunday == days /\ from > 0 /\ end = 0
      to   == IF toSunday THEN DaysPerWeek ELSE end
      step == IF part.step = 0 THEN 1 ELSE part.step
      valid == /\ part.step \in 0..(size - 1)
               /\ part.from # Star => ValidValue(part.from, size, zeroUnused, days)
               /\ part.to # Star => ValidValue(part.to, size, zeroUnused, days)
               /\ part.from = Star => part.to = Star
               /\ part.from # Star /\ part.to = Star => part.step = 0
  IN  IF ~valid \/ from > to THEN Invalid
      ELSE {i % size : i \in {j \in from..to : (j - from) % step = 0}}

\* parseField: all parts must be valid.
ParseField(parts, size, zeroUnused, days) ==
  LET sets == {ParsePart(p, size, zeroUnused, days) : p \in parts}
  IN  IF Invalid \in sets THEN Invalid ELSE UNION sets

Everything == {[from |-> Star, to |-> Star, step |-> 0]}

\* The five fields of a specification.
Parse(spec) ==
  [kind |-> "fields",
   minutes |-> ParseField(spec.minutes, MinutesPerHour, FALSE, FALSE),
   hours |-> ParseField(spec.hours, HoursPerDay, FALSE, FALSE),
   daysOfMonth |-> ParseField(spec.daysOfMonth, DaysPerMonth + 1, TRUE, FALSE),
   months |-> ParseField(spec.months, MonthsPerYear + 1, TRUE, FALSE),
   daysOfWeek |-> ParseField(spec.daysOfWeek, DaysPerWeek, FALSE, TRUE),
   domRestricted |-> spec.daysOfMonth # Everything,
   dowRestricted |-> spec.daysOfWeek # Everything]

\* The schedules that Parse returns: of five fields, @every and @once.
Schedules ==
  {s \in {Parse(spec) : spec \in Specs} :
     Invalid \notin {s.minutes, s.hours, s.daysOfMonth, s.months, s.daysOfWeek}}
  \cup {[kind |-> "every", interval |-> i] : i \in Intervals}
  \cup {[kind |-> "once"]}

VARIABLES
  sched,          \* the schedule
  oneTimeLeft,    \* of a schedule that runs once
  zone,           \* its time zone
  pc,             \* idle, loop, returned, or none: Next returned the zero time
  after,          \* the parameter of Next
  next, limit     \* its local variables

cronVars == <<sched, oneTimeLeft, zone, pc, after, next, limit>>

-----------------------------------------------------------------------------
(* Package time, as far as Next uses it.                                   *)

Wall(t) == t + (IF t < zone.at THEN zone.before ELSE zone.after)

DayNumber(t) == Wall(t) \div MinutesPerDay
Hour(t) == (Wall(t) \div MinutesPerHour) % HoursPerDay
Minute(t) == Wall(t) % MinutesPerHour
Weekday(t) == DayNumber(t) % DaysPerWeek
Date(t) == DateOf[DayNumber(t) % CycleDays]

\* time.Date: it does not say which offset a wall clock time that does not exist, or
\* exists twice, has.
Instant(wall) ==
  LET exact == {t \in {wall - zone.before, wall - zone.after} : Wall(t) = wall}
  IN  IF Cardinality(exact) = 1 THEN Max(exact) ELSE wall - zone.unclear

At(day, hour) == Instant(day * MinutesPerDay + hour * MinutesPerHour)

\* The first day of the next month.
NextMonth(t) == DayNumber(t) + 1 + Date(t).length - Date(t).day

\* The first day of the month of t, in another year.
SameMonth(t, years) ==
  LET year == Date(t).year - 1 + years
      first == CHOOSE k \in Days :
                 /\ DateOf[k].year = 1 + (year % CycleYears)
                 /\ DateOf[k].month = Date(t).month /\ DateOf[k].day = 1
  IN  (DayNumber(t) \div CycleDays + year \div CycleYears) * CycleDays + first

\* Mutant: a year less.
AddDateShort(t) ==
  Instant((SameMonth(t, LimitYears - 1) + Date(t).day) * MinutesPerDay
            + (Wall(t) % MinutesPerDay))

\* after.AddDate(8, 0, 1)
AddDate(t) ==
  Instant((SameMonth(t, LimitYears) + Date(t).day) * MinutesPerDay
            + (Wall(t) % MinutesPerDay))

-----------------------------------------------------------------------------
CronInit ==
  /\ sched \in Schedules /\ zone \in Zones
  /\ oneTimeLeft = (sched.kind = "once")
  /\ pc = "idle" /\ after = Start
  /\ next = Start /\ limit = Start

dayMatches(t) ==
  LET dom == Date(t).day \in sched.daysOfMonth
      dow == Weekday(t) \in sched.daysOfWeek
  IN  CASE sched.domRestricted /\ sched.dowRestricted -> dom \/ dow
        [] sched.domRestricted # sched.dowRestricted  -> dom /\ dow
        [] OTHER                                      -> TRUE

CanCall == pc \in {"idle", "returned"} /\ next <= LastCall

\* Next of the schedules that do not look for a match; seconds are not modelled.  A
\* schedule that runs once does so now, which is not before the last call.
CallSimple ==
  /\ CanCall
  /\ after' = next
  /\ CASE sched.kind = "every" -> next' = next + sched.interval /\ pc' = "returned"
       [] sched.kind = "once" /\ oneTimeLeft ->
            (\E delay \in 0..1 : next' = next + delay) /\ pc' = "returned"
       [] sched.kind = "once" /\ ~oneTimeLeft -> next' = next /\ pc' = "none"
       [] OTHER -> FALSE
  /\ oneTimeLeft' = FALSE
  /\ UNCHANGED <<sched, zone, limit>>

\* Next is called with the time that it returned last, and starts to look for a match.
Call ==
  /\ CanCall /\ sched.kind = "fields"
  /\ after' = next
  /\ next' = next + 1
  /\ limit' = AddDate(next)
  /\ pc' = "loop"
  /\ UNCHANGED <<sched, oneTimeLeft, zone>>

\* Mutant: time.Date's result is taken as it is.
SkipToBlindly(day) ==
  /\ next' = At(day, 0)
  /\ UNCHANGED <<sched, oneTimeLeft, zone, pc, after, limit>>

\* Midnight, or 1 AM if there is no midnight after next.
SkipTo(day) ==
  /\ next' = IF At(day, 0) > next THEN At(day, 0) ELSE At(day, 1)
  /\ UNCHANGED <<sched, oneTimeLeft, zone, pc, after, limit>>

Looking == pc = "loop" /\ next < limit

MonthMatches(t) == Date(t).month \in sched.months

SkipMonth ==
  /\ Looking /\ ~MonthMatches(next)
  /\ SkipTo(NextMonth(next))

SkipDay ==
  /\ Looking /\ MonthMatches(next) /\ ~dayMatches(next)
  /\ SkipTo(DayNumber(next) + 1)

\* Mutant: the same minute of the next hour.
SkipWholeHour ==
  /\ Looking /\ MonthMatches(next) /\ dayMatches(next)
  /\ Hour(next) \notin sched.hours
  /\ next' = next + MinutesPerHour
  /\ UNCHANGED <<sched, oneTimeLeft, zone, pc, after, limit>>

SkipHour ==
  /\ Looking /\ MonthMatches(next) /\ dayMatches(next)
  /\ Hour(next) \notin sched.hours
  /\ next' = next + MinutesPerHour - Minute(next)
  /\ UNCHANGED <<sched, oneTimeLeft, zone, pc, after, limit>>

\* To the next minute that matches, or to the next hour.
SkipMinute ==
  LET rest == {m \in sched.minutes : m > Minute(next)}
  IN  /\ Looking /\ MonthMatches(next) /\ dayMatches(next)
      /\ Hour(next) \in sched.hours /\ Minute(next) \notin sched.minutes
      /\ next' = next - Minute(next) + (IF rest = {} THEN MinutesPerHour ELSE Min(rest))
      /\ UNCHANGED <<sched, oneTimeLeft, zone, pc, after, limit>>

Matches(t) ==
  /\ MonthMatches(t) /\ dayMatches(t)
  /\ Hour(t) \in sched.hours /\ Minute(t) \in sched.minutes

Found ==
  /\ Looking /\ Matches(next)
  /\ pc' = "returned"
  /\ UNCHANGED <<sched, oneTimeLeft, zone, after, next, limit>>

NotFound ==
  /\ pc = "loop" /\ next >= limit
  /\ pc' = "none"
  /\ UNCHANGED <<sched, oneTimeLeft, zone, after, next, limit>>

CronLoop == SkipMonth \/ SkipDay \/ SkipHour \/ SkipMinute \/ Found \/ NotFound

CronNext == Call \/ CallSimple \/ CronLoop

CronSpec == CronInit /\ [][CronNext]_cronVars

\* The loop goes on; nobody has to call Next.
CronFairness == WF_cronVars(CronLoop)

-----------------------------------------------------------------------------
(* Properties.                                                             *)

\* What the comment of Next says: it returns the earliest match, or finds none before its
\* limit.  The search passes over none.
Earliest ==
  sched.kind = "fields" =>
    /\ pc # "idle" => \A t \in (after + 1)..(next - 1) : ~Matches(t)
    /\ pc = "returned" => after < next /\ Matches(next)
    /\ pc = "none" => next >= limit

\* The offset changes when the clock shows a full hour, by an hour at most, and by an
\* hour if it skips midnight.  So do most time zones, but not Pacific/Chatham, where it
\* changes at 2:45.
OnTheHour(z) ==
  /\ (z.at + z.before) % MinutesPerHour = 0
  /\ z.after - z.before \in (-MinutesPerHour)..MinutesPerHour
  /\ (z.at + z.before) % MinutesPerDay = 0 /\ z.after > z.before
       => z.after - z.before = MinutesPerHour

\* If the clock shows midnight twice, package time takes the first.
FirstMidnight(z) ==
  \/ z.unclear = z.before
  \/ \A w \in (z.at + z.after)..(z.at + z.before - 1) : w % MinutesPerDay # 0

\* In the time zones whose offset changes on the hour, Next returns the earliest match,
\* at the ends of months and years and around the change, unless package time takes the
\* second of two midnights.
NextIsEarliest == OnTheHour(zone) /\ FirstMidnight(zone) => Earliest

\* What the documentation of schedules says: a time that occurs twice, when the clock is
\* turned back, runs twice.  Next passes over neither of the two.
RunsTwice ==
  sched.kind = "fields" /\ pc # "idle" =>
    \A t \in (after + 1)..(next - 1) :
      Cardinality({u \in {Wall(t) - zone.before, Wall(t) - zone.after} : Wall(u) = Wall(t)}) = 2
        => ~Matches(t)

\* Next gives up only on schedules that never match, such as February 30: eight years
\* and a day are enough for February 29, even if a leap year in between is left out.
GivesUpRightly ==
  sched.kind = "fields" /\ pc = "none" =>
    \A t \in (after + 1)..(after + MinutesPerDay * CycleDays) : ~Matches(t)

\* Every call returns: no change of the offset stops the search from advancing.
CallsReturn == pc = "loop" ~> pc # "loop"
=============================================================================
