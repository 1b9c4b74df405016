----------------------------- MODULE MCCalendar -----------------------------
(* A day of eight ticks, a week of four days and a year of three months.   *)
EXTENDS CalendarWalk

MCMonths == <<3, 5, 4>>

Clock(kind, day, times, until, own) ==
  [kind |-> kind, every |-> 0, at |-> 0, times |-> times, day |-> day, until |-> until,
   pinned |-> own # {}, zone |-> IF own = {} THEN 0 ELSE CHOOSE z \in own : TRUE]

\* UTC; a zone ahead that changes at its midnight; two behind, one with a
\* shorter day by an hour skipped at 02:00, one with a longer day.
UTC == [before |-> 0, after |-> 0, at |-> 0]
East == [before |-> 2, after |-> 3, at |-> 5 * 8 - 2]
West == [before |-> -3, after |-> -2, at |-> 6 * 8 + 2 + 3]
Autumn == [before |-> -2, after |-> -3, at |-> 6 * 8 + 1 + 2]
\* A zone behind UTC that goes forward at midnight, as Santiago's does.
Santiago == [before |-> -3, after |-> -2, at |-> 6 * 8 + 3]

Bases == {<<"daily", 0>>, <<"weekly", 1>>, <<"weekdays", 0>>, <<"weekends", 0>>,
          <<"monthly", 0>>, <<"monthly", 1>>, <<"monthly", 4>>}
Lists == {{5}, {4, 7}, Spread(6, 5, 3)}

MCExprs == {Clock(b[1], b[2], ts, until, own) :
              b \in Bases, ts \in Lists, until \in {Never, 7}, own \in {{}, {East}}}
MCZones == {UTC, East, West, Autumn}

\* No change of these zones takes a time of these expressions.
ASSUME MCSpared == \A e \in MCExprs, z \in MCZones : Spared(e, z)

DailyOnly == {Clock("daily", 0, {5}, Never, {})}
MidnightZones == {Santiago}
CloseTimes == {Clock("daily", 0, {3, 4}, Never, {})}
OnlyUTC == {UTC}
=============================================================================
