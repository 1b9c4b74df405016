------------------------------ MODULE Calendar ------------------------------
(* When a schedule runs: the arithmetic of a parsed expression, from       *)
(* internal/agentd/schedule.go (spec.next, matchesDay, monthDay, spread).  *)
(*                                                                         *)
(* An instant is an integer, a clock tick of UTC; Day ticks make a day of  *)
(* 24 hours, and wall time is the instant plus the offset the zone has at  *)
(* it.  A zone is a record with one change of offset, [before, after, at]: *)
(* enough for a day that is shorter or longer than the others.  A year is  *)
(* the sequence Months of month lengths, and the years are alike.          *)
(*                                                                         *)
(* An expression is what parseSchedule reads, a record with the fields     *)
(*   kind    every, once, daily, weekly, weekdays, weekends or monthly     *)
(*   every   the interval of an "every"                                    *)
(*   at      the wall time of a "once on"                                  *)
(*   times   the times of day of a clock form                              *)
(*   day     the weekday of a "weekly", the day of month of a "monthly"    *)
(*           (0 is the last)                                               *)
(*   until   the day of the "until" clause, or Zero                        *)
(*   pinned  whether it names a zone of its own, which is then in zone     *)
EXTENDS Integers, Sequences

CONSTANTS Day,          \* ticks in a day
          Week,         \* days in a week; the last two are the weekend
          Months,       \* the lengths of the months, in days
          SearchLimit,  \* daySearchLimit: days that next walks
          Exprs,        \* expressions that get booked
          Zones         \* zones the person may be in

ASSUME CalendarAssumption == /\ Day \in Nat \ {0}
                             /\ Week \in Nat \ {0, 1}
                             /\ Months \in Seq(Nat \ {0})
                             /\ Months # <<>>
                             /\ SearchLimit \in Nat \ {0}

Zero == -1    \* the zero time, which no run has
Never == Zero \* the until of an expression without the clause

First(S) == CHOOSE x \in S : \A y \in S : x <= y

\* The zones there can be.
ZoneRecs == [before : Int, after : Int, at : Int]

\* What parseSchedule makes of an expression: an interval is of some length, a time
\* of day is within the day.
ASSUME ExprsAssumption ==
  /\ Zones \subseteq ZoneRecs
  /\ \A e \in Exprs : /\ e.every \in Nat /\ e.at \in Int /\ e.until \in Int
                      /\ e.times \subseteq 0 .. Day - 1
                      /\ e.kind = "every" => e.every > 0
                      /\ e.pinned => e.zone \in ZoneRecs

ClockKinds == {"daily", "weekly", "weekdays", "weekends", "monthly"}

-----------------------------------------------------------------------------
(* Go's time package, as the schedules use it.                             *)

Offset(z, t) == IF t < z.at THEN z.before ELSE z.after

\* The wall time of an instant, Time.In, and the day it falls on, Time.Date.
Wall(z, t) == t + Offset(z, t)
DayOf(z, t) == Wall(z, t) \div Day

\* time.Date: the instant of a wall time.  It looks the offset up as if the
\* wall time were UTC, and once more when the answer is across the change.  A
\* wall time that the change skips comes out before it or after it.
Date(z, wall) ==
  LET guess == Offset(z, wall)
      utc == wall - guess
      sameSide == (utc < z.at) <=> (wall < z.at)
  IN  IF guess = 0 \/ sameSide THEN utc ELSE wall - Offset(z, utc)

MonthStart[m \in 1 .. Len(Months) + 1] ==
  IF m = 1 THEN 0 ELSE MonthStart[m - 1] + Months[m - 1]

DayOfYear(n) == n % MonthStart[Len(Months) + 1]
MonthOf(n) == CHOOSE m \in 1 .. Len(Months) :
                MonthStart[m] <= DayOfYear(n) /\ DayOfYear(n) < MonthStart[m + 1]
DayOfMonth(n) == DayOfYear(n) - MonthStart[MonthOf(n)] + 1
Weekend(n) == n % Week \in {Week - 2, Week - 1}

-----------------------------------------------------------------------------
(* The schedule's own arithmetic.                                          *)

\* spread: the times of day of "every step between start and end".
Spread(start, end, step) ==
  LET span == (end - start) % Day
  IN  {(start + k * step) % Day : k \in 0 .. span \div step}

MonthDay_Overflows(e, n) == e.day
\* monthDay: the day asked for, clamped to the month of day n.
MonthDay(e, n) == LET last == Months[MonthOf(n)]
                  IN  IF e.day = 0 \/ e.day > last THEN last ELSE e.day

MatchesDay(e, n) == CASE e.kind = "weekly"   -> n % Week = e.day
                      [] e.kind = "weekdays" -> ~Weekend(n)
                      [] e.kind = "weekends" -> Weekend(n)
                      [] e.kind = "monthly"  -> DayOfMonth(n) = MonthDay(e, n)
                      [] OTHER               -> TRUE

\* The location parseSchedule settles on: the expression's own, or the person's.
Loc(e, z) == IF e.pinned THEN e.zone ELSE z

\* takeUntil: the last instant of the named day.
UntilAt(e, z) == Date(Loc(e, z), (e.until + 1) * Day) - 1

NextClock_FromTomorrow(e, z, after) ==
  LET loc == Loc(e, z)
      day(k) == DayOf(loc, Date(loc, (DayOf(loc, after) + (k \div Day)) * Day))
      run(k) == Date(loc, (day(k) * Day) + (k % Day))
      ahead == {k \in Day .. SearchLimit * Day :
                  k % Day \in e.times /\ MatchesDay(e, day(k)) /\ run(k) > after}
  IN  IF ahead = {} THEN Zero ELSE run(First(ahead))

\* The walk of nextRaw, day by day and over the times of each: k counts both.
\* A candidate day is the one that its own midnight, as Date makes it, falls on.
NextClock(e, z, after) ==
  LET loc == Loc(e, z)
      day(k) == DayOf(loc, Date(loc, (DayOf(loc, after) + (k \div Day)) * Day))
      run(k) == Date(loc, (day(k) * Day) + (k % Day))
      ahead == {k \in 0 .. SearchLimit * Day - 1 :
                  k % Day \in e.times /\ MatchesDay(e, day(k)) /\ run(k) > after}
  IN  IF ahead = {} THEN Zero ELSE run(First(ahead))

NextRaw(e, z, after) ==
  CASE e.kind = "every" -> after + e.every
    [] e.kind = "once"  -> LET at == Date(Loc(e, z), e.at)
                           IN  IF at > after THEN at ELSE Zero
    [] OTHER            -> NextClock(e, z, after)

NextRun_UntilMidnight(e, z, after) ==
  LET at == NextRaw(e, z, after)
  IN  IF e.until # Never /\ at > Date(Loc(e, z), e.until * Day) THEN Zero ELSE at

\* next: the first run strictly after an instant, or Zero.
NextRun(e, z, after) ==
  LET at == NextRaw(e, z, after)
  IN  IF e.until # Never /\ at > UntilAt(e, z) THEN Zero ELSE at

-----------------------------------------------------------------------------
(* What an expression says.                                                *)

\* The instants of the wall times it names, in the days next looks at, that are
\* after an instant and not past the end date.
Named(e, z, after) ==
  LET loc == Loc(e, z)
      days == DayOf(loc, after) .. DayOf(loc, after) + SearchLimit - 1
  IN  {at \in {Date(loc, n * Day + c) :
                 n \in {d \in days : MatchesDay(e, d)}, c \in e.times} :
         at > after /\ (e.until = Never \/ DayOf(loc, at) <= e.until)}

\* The wall times that the change of a zone skips, or that come twice.
Changed(z) == (z.at + z.before .. z.at + z.after - 1)
                \union (z.at + z.after .. z.at + z.before - 1)

\* The change takes none of the times of the expression, and a midnight only as
\* its first tick, which Date puts as far into the day as the change is.
Spared(e, z) ==
  LET loc == Loc(e, z)
  IN  /\ loc.after - loc.before < Day
      /\ \A w \in Changed(loc) :
           /\ w % Day \notin e.times
           /\ w % Day = 0 => w - 1 \notin Changed(loc) /\ Date(loc, w) = w - loc.before

=============================================================================
