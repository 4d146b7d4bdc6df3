------------------------------- MODULE MCCron -------------------------------
(* Instances of Cron for TLC. *)
EXTENDS Cron

\* Seven years of two months: the first month has four days, the second two, or three in
\* the leap years 1, 5 and 7.  There is a leap year every other year, except that year 3
\* is none.
MCLength(year, month) == IF month = 1 THEN 4 ELSE IF year \in {1, 5, 7} THEN 3 ELSE 2
MCMonth(year, month) ==
  [d \in 1..MCLength(year, month) |->
     [year |-> year, month |-> month, length |-> MCLength(year, month), day |-> d]]
MCYear(year) == MCMonth(year, 1) \o MCMonth(year, 2)
MCCalendar ==
  MCYear(1) \o MCYear(2) \o MCYear(3) \o MCYear(4) \o MCYear(5) \o MCYear(6) \o MCYear(7)

\* Days of six minutes in three hours.
MCZone(b, a, t) == {[before |-> b, after |-> a, at |-> t, unclear |-> o] : o \in {b, a}}
MCZones ==
  MCZone(0, 0, 0)                            \* UTC
    \cup MCZone(0, 2, 24) \cup MCZone(0, 2, 42)  \* from midnight to 1:00, in month and year
    \cup MCZone(0, 2, 26)                    \* from 1:00 to 2:00
    \cup MCZone(2, 0, 24)                    \* from 1:00 back to midnight
    \cup MCZone(2, 0, 22)                    \* from midnight back to 2:00
    \cup MCZone(1, 0, 25)                    \* from 1:00 back by half an hour

MCPart(from, to, step) == [from |-> from, to |-> to, step |-> step]
MCValue(v) == {MCPart(v, Star, 0)}
MCSpecs ==
  [minutes : {Everything, MCValue(1)},
   hours : {Everything, MCValue(0), {MCPart(1, 2, 0)}, {MCPart(2, 1, 0)}},
   daysOfMonth : {Everything, MCValue(3), MCValue(4), {MCPart(Star, Star, 3)},
                  MCValue(1) \cup MCValue(2)},
   months : {Everything, MCValue(1), MCValue(2)},
   daysOfWeek : {Everything, MCValue(3), {MCPart(2, 3, 0)}}]

\* Half past two every day, and a clock that goes from 1:30 to 2:30.
MCHalfPastTwo == [minutes : {MCValue(1)}, hours : {MCValue(2)}, daysOfMonth : {Everything},
                  months : {Everything}, daysOfWeek : {Everything}]
MCOffHour == MCZone(0, 2, 27)

\* Midnight on the first of the month, and a clock that goes from 1:00 back to midnight;
\* it is east of UTC, where package time takes the second of two equal times.
MCMonthly == [minutes : {MCValue(0)}, hours : {MCValue(0)}, daysOfMonth : {MCValue(1)},
              months : {Everything}, daysOfWeek : {Everything}]
MCTwoMidnights == {z \in MCZone(2, 0, 24) : z.unclear = z.after}
=============================================================================
