---------------------------- MODULE CalendarWalk ----------------------------
(* The runs of one schedule, one after the other: booked at some instant,  *)
(* and moved to the next run by each sweep that finds it due.              *)
EXTENDS Calendar

CONSTANTS MinInterval,  \* minInterval, in ticks
          Horizon       \* bound: the last instant looked at

VARIABLES expr,   \* the booked expression
          place,  \* the person's zone
          last,   \* the instant next is asked about: the booking, then each run
          fired   \* runs so far, 0, 1, or 2 for more

walkVars == <<expr, place, last, fired>>

WalkTypeOK == /\ expr \in Exprs
              /\ place \in Zones
              /\ last \in 0 .. Horizon
              /\ fired \in 0 .. 2

\* planSchedule refuses an expression with no run left.
WalkInit == /\ expr \in Exprs
            /\ place \in Zones
            /\ last \in 0 .. Day * Len(Months)
            /\ fired = 0
            /\ NextRun(expr, place, last) # Zero

\* A sweep finds the run due and asks for the one after it.
Run == LET at == NextRun(expr, place, last)
       IN  /\ at \in 0 .. Horizon
           /\ last' = at
           /\ fired' = IF fired = 2 THEN 2 ELSE fired + 1
           /\ UNCHANGED <<expr, place>>

WalkSpec == WalkInit /\ [][Run]_walkVars

-----------------------------------------------------------------------------
\* next answers the first of the wall times the expression names that is still
\* ahead, and the zero time only when none is left: no run is skipped and none
\* is repeated, over month ends, weekends, end dates and changes of offset.
NextIsFirst ==
  expr.kind \in ClockKinds =>
    LET named == Named(expr, place, last)
    IN  NextRun(expr, place, last) = IF named = {} THEN Zero ELSE First(named)

\* "a day that is 23 or 25 hours long over a DST change still fires at the
\* stated wall-clock time" (schedule.go, nextRaw): no day the expression
\* matches is passed over between two runs.
NoDaySkipped ==
  [][expr.kind \in ClockKinds =>
       \A n \in DayOf(Loc(expr, place), last) + 1 .. DayOf(Loc(expr, place), last') - 1 :
         ~MatchesDay(expr, n)]_walkVars

\* "minInterval is the tightest schedule allowed" (schedule.go): two runs of a
\* schedule are never closer than that.
NothingTighter == [][fired > 0 => last' - last >= MinInterval]_walkVars

=============================================================================
