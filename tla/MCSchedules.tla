---------------------------- MODULE MCSchedules -----------------------------
(* A day of four ticks, two zones a tick apart.                            *)
EXTENDS Schedules

MCMonths == <<3>>
Fixed(o) == [before |-> o, after |-> o, at |-> 0]
Greenwich == Fixed(0)
Azores == Fixed(-1)
MCZones == {Greenwich, Azores}

Expr(kind, every, at, times, until, pinned) ==
  [kind |-> kind, every |-> every, at |-> at, times |-> times, day |-> 0, until |-> until,
   pinned |-> pinned, zone |-> Greenwich]

Every == Expr("every", 2, 0, {}, Never, FALSE)
Once == Expr("once", 0, 3, {}, Never, FALSE)
Daily == Expr("daily", 0, 0, {2}, Never, FALSE)
DailyOwn == Expr("daily", 0, 0, {2}, Never, TRUE)
Bounded == Expr("daily", 0, 0, {1, 2}, 0, FALSE)

AllExprs == {Every, Once, Daily, DailyOwn, Bounded}
Lasts == {Once, Bounded}
OnlyOnce == {Once}
OnlyDaily == {Daily}
OnlyBounded == {Bounded}
OnlyEvery == {Every}
=============================================================================
