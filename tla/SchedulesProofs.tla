--------------------------- MODULE SchedulesProofs --------------------------
(***************************************************************************)
(* Theorems about Calendar, CalendarWalk and Schedules, for any calendar   *)
(* and any number of schedules, agents, expressions, zones, crashes and    *)
(* failed writes.                                                          *)
(***************************************************************************)
EXTENDS Schedules, CalendarWalk, NumberLemmas

-----------------------------------------------------------------------------
(* The calendar.                                                           *)

\* An instant is an integer on both sides of a conversion.
LEMMA DateType ==
  ASSUME NEW z \in ZoneRecs, NEW t \in Int
  PROVE  Date(z, t) \in Int /\ DayOf(z, t) \in Int
<1>1. \A u \in Int : Offset(z, u) \in Int
  <2>1. z.before \in Int /\ z.after \in Int
    BY DEF ZoneRecs
  <2> QED
    BY <2>1 DEF Offset
<1>2. Date(z, t) \in Int
  <2>1. t - Offset(z, t) \in Int
    BY <1>1
  <2>2. Offset(z, t - Offset(z, t)) \in Int
    BY <1>1, <2>1
  <2> QED
    BY <2>1, <2>2 DEF Date
<1>3. Wall(z, t) \in Int
  BY <1>1 DEF Wall
<1> QED
  BY <1>2, <1>3, CalendarAssumption DEF DayOf

\* First picks a member of any non-empty set of naturals.
LEMMA FirstIn ==
  ASSUME NEW S \in SUBSET Nat, S # {}
  PROVE  First(S) \in S
BY LeastNatural DEF First

\* The walk answers the zero time or a run strictly ahead, whatever the zone
\* makes of a midnight and whichever days match.
LEMMA NextClockAhead ==
  ASSUME NEW e, NEW z, Loc(e, z) \in ZoneRecs, NEW after \in Nat
  PROVE  \/ NextClock(e, z, after) = Zero
         \/ NextClock(e, z, after) \in Int /\ NextClock(e, z, after) > after
<1> DEFINE loc == Loc(e, z)
           day(k) == DayOf(loc, Date(loc, (DayOf(loc, after) + (k \div Day)) * Day))
           run(k) == Date(loc, (day(k) * Day) + (k % Day))
           ahead == {k \in 0 .. SearchLimit * Day - 1 :
                       k % Day \in e.times /\ MatchesDay(e, day(k)) /\ run(k) > after}
<1>1. NextClock(e, z, after) = IF ahead = {} THEN Zero ELSE run(First(ahead))
  BY Zenon DEF NextClock
<1>2. CASE ahead = {}
  BY <1>1, <1>2
<1>3. CASE ahead # {}
  <2>1. ahead \in SUBSET Nat
    BY CalendarAssumption
  <2> DEFINE k == First(ahead)
  <2> HIDE DEF k
  <2>2. k \in ahead
    BY <1>3, <2>1, FirstIn, Zenon DEF k
  <2>3. k \in Nat /\ run(k) > after
    BY <2>1, <2>2
  <2>4. k \div Day \in Int /\ k % Day \in Int
    BY <2>3, CalendarAssumption
  <2>5. (DayOf(loc, after) + (k \div Day)) * Day \in Int
    <3> DEFINE d == DayOf(loc, after) + (k \div Day)
    <3>1. DayOf(loc, after) \in Int
      BY DateType
    <3>2. d \in Int
      BY <2>4, <3>1
    <3> HIDE DEF d
    <3>3. d * Day \in Int
      BY <3>2, CalendarAssumption
    <3> QED
      BY <3>3 DEF d
  <2>6. day(k) \in Int
    BY <2>5, DateType
  <2>7. (day(k) * Day) + (k % Day) \in Int
    <3> HIDE DEF day
    <3> QED
      BY <2>4, <2>6, CalendarAssumption
  <2>8. run(k) \in Int
    BY <2>7, DateType
  <2> QED
    BY <1>1, <1>3, <2>3, <2>8 DEF k
<1> QED
  BY <1>2, <1>3

\* next never answers an instant that has come: a schedule that is advanced,
\* rolled forward or moved is not due again, for any calendar and expression.
THEOREM NextIsAhead ==
  ASSUME NEW e, NEW z, Loc(e, z) \in ZoneRecs, NEW after \in Nat,
         e.every \in Nat, e.kind = "every" => e.every > 0, e.at \in Int
  PROVE  /\ NextRun(e, z, after) = Zero \/ NextRun(e, z, after) > after
         /\ NextRun(e, z, after) \in Nat \union {Zero}
<1>1. NextRaw(e, z, after) = Zero \/ (NextRaw(e, z, after) \in Int /\ NextRaw(e, z, after) > after)
  <2>1. CASE e.kind = "every"
    BY <2>1 DEF NextRaw
  <2>2. CASE e.kind = "once"
    BY <2>2, DateType DEF NextRaw
  <2>3. CASE e.kind \notin {"every", "once"}
    BY <2>3, NextClockAhead DEF NextRaw
  <2> QED
    BY <2>1, <2>2, <2>3
<1>2. NextRun(e, z, after) \in {Zero, NextRaw(e, z, after)}
  BY DEF NextRun
<1> QED
  BY <1>1, <1>2 DEF Zero

\* The run of a schedule of the store, in the person's zone.
LEMMA RunIs ==
  ASSUME NEW e \in Exprs, NEW z \in Zones, NEW after \in Nat
  PROVE  /\ NextRun(e, z, after) = Zero \/ NextRun(e, z, after) > after
         /\ NextRun(e, z, after) \in Nat \union {Zero}
<1>1. Loc(e, z) \in ZoneRecs
  BY ExprsAssumption DEF Loc
<1>2. e.every \in Nat /\ (e.kind = "every" => e.every > 0) /\ e.at \in Int
  BY ExprsAssumption
<1> QED
  BY <1>1, <1>2, NextIsAhead

-----------------------------------------------------------------------------
(* Which run next answers.                                                 *)

\* A wall time that the change spares is read by the offset of its own side.
LEMMA DateOfSide ==
  ASSUME NEW z \in ZoneRecs, NEW w \in Int, w \notin Changed(z)
  PROVE  \/ w < z.at + z.before /\ w < z.at + z.after /\ Date(z, w) = w - z.before
         \/ w >= z.at + z.before /\ w >= z.at + z.after /\ Date(z, w) = w - z.after
<1>1. z.before \in Int /\ z.after \in Int /\ z.at \in Int
  BY DEF ZoneRecs
<1> DEFINE before == z.before
           after == z.after
           at == z.at
<1> HIDE DEF before, after, at
<1>2. before \in Int /\ after \in Int /\ at \in Int
  BY <1>1 DEF before, after, at
<1>3. \A t : Offset(z, t) = IF t < at THEN before ELSE after
  BY DEF Offset, before, after, at
<1>4. (w < at + before /\ w < at + after) \/ (w >= at + before /\ w >= at + after)
  <2>1. w \notin (at + before .. at + after - 1) \union (at + after .. at + before - 1)
    BY DEF Changed, before, after, at
  <2> QED
    BY <1>2, <2>1
<1>5. Date(z, w) = IF Offset(z, w) = 0
                      \/ ((w - Offset(z, w) < at) <=> (w < at))
                   THEN w - Offset(z, w) ELSE w - Offset(z, w - Offset(z, w))
  BY DEF Date, at
<1>6. CASE w < at + before /\ w < at + after
  <2>1. CASE w < at
    BY <1>2, <1>3, <1>5, <1>6, <2>1 DEF before, after, at
  <2>2. CASE ~(w < at)
    <3>1. Offset(z, w) = after /\ after # 0
      BY <1>2, <1>3, <1>6, <2>2
    <3>2. w - after < at
      BY <1>2, <1>6
    <3> QED
      BY <1>2, <1>3, <1>5, <1>6, <2>2, <3>1, <3>2 DEF before, after, at
  <2> QED
    BY <2>1, <2>2
<1>7. CASE w >= at + before /\ w >= at + after
  <2>1. CASE w < at
    <3>1. Offset(z, w) = before /\ before # 0
      BY <1>2, <1>3, <1>7, <2>1
    <3>2. ~(w - before < at)
      BY <1>2, <1>7
    <3> QED
      BY <1>2, <1>3, <1>5, <1>7, <2>1, <3>1, <3>2 DEF before, after, at
  <2>2. CASE ~(w < at)
    BY <1>2, <1>3, <1>5, <1>7, <2>2 DEF before, after, at
  <2> QED
    BY <2>1, <2>2
<1> QED
  BY <1>4, <1>6, <1>7

\* At its instant the clocks show it, and later wall times have later instants.
LEMMA DateRises ==
  ASSUME NEW z \in ZoneRecs, NEW v \in Int, NEW w \in Int,
         v \notin Changed(z), w \notin Changed(z)
  PROVE  /\ Wall(z, Date(z, w)) = w
         /\ v < w => Date(z, v) < Date(z, w)
<1>1. z.before \in Int /\ z.after \in Int /\ z.at \in Int
  BY DEF ZoneRecs
<1>2. Wall(z, Date(z, w)) = w
  BY <1>1, DateOfSide DEF Wall, Offset
<1>3. v < w => Date(z, v) < Date(z, w)
  <2>1. \/ v < z.at + z.before /\ v < z.at + z.after /\ Date(z, v) = v - z.before
        \/ v >= z.at + z.before /\ v >= z.at + z.after /\ Date(z, v) = v - z.after
    BY DateOfSide
  <2>2. \/ w < z.at + z.before /\ w < z.at + z.after /\ Date(z, w) = w - z.before
        \/ w >= z.at + z.before /\ w >= z.at + z.after /\ Date(z, w) = w - z.after
    BY DateOfSide
  <2> QED
    BY <1>1, <2>1, <2>2
<1> QED
  BY <1>2, <1>3

\* The first tick of a day is where the instants of the day begin, even where
\* the change takes it, as long as it takes no tick before.
LEMMA MidnightDivides ==
  ASSUME NEW z \in ZoneRecs, z.after - z.before < Day, NEW w \in Int,
         w \in Changed(z) => w - 1 \notin Changed(z) /\ Date(z, w) = w - z.before
  PROVE  /\ Wall(z, Date(z, w)) \in w .. w + Day - 1
         /\ \A t \in Int : t < Date(z, w) <=> Wall(z, t) < w
<1>1. z.before \in Int /\ z.after \in Int /\ z.at \in Int
  BY DEF ZoneRecs
<1>2. Day \in Nat \ {0}
  BY CalendarAssumption
<1>3. CASE w \notin Changed(z)
  <2>1. Wall(z, Date(z, w)) = w
    BY <1>3, DateRises
  <2>2. \/ w < z.at + z.before /\ w < z.at + z.after /\ Date(z, w) = w - z.before
        \/ w >= z.at + z.before /\ w >= z.at + z.after /\ Date(z, w) = w - z.after
    BY <1>3, DateOfSide
  <2>3. \A t \in Int : t < Date(z, w) <=> Wall(z, t) < w
    BY <1>1, <2>2 DEF Wall, Offset
  <2> QED
    BY <1>2, <2>1, <2>3
<1>4. CASE w \in Changed(z)
  <2>1. Date(z, w) = w - z.before
    BY <1>4
  <2>2. \/ w = z.at + z.before /\ z.before < z.after
        \/ w = z.at + z.after /\ z.after < z.before
    BY <1>1, <1>4 DEF Changed
  <2>3. Wall(z, Date(z, w)) \in w .. w + Day - 1
    BY <1>1, <1>2, <2>1, <2>2 DEF Wall, Offset
  <2>4. \A t \in Int : t < Date(z, w) <=> Wall(z, t) < w
    BY <1>1, <2>1, <2>2 DEF Wall, Offset
  <2> QED
    BY <2>3, <2>4
<1> QED
  BY <1>3, <1>4

\* A day and a time of day make a wall time, and no other two make the same.
LEMMA DayAndTime ==
  ASSUME NEW D \in Nat \ {0}, NEW n \in Int, NEW c \in 0 .. D - 1
  PROVE  /\ n * D + c \in Int
         /\ (n * D + c) \div D = n
         /\ (n * D + c) % D = c
<1> DEFINE x == n * D + c
           q == x \div D
           r == x % D
<1>1. x \in Int
  OBVIOUS
<1> HIDE DEF x
<1>2. q \in Int /\ r \in 0 .. D - 1 /\ x = D * q + r
  BY <1>1
<1> HIDE DEF q, r
<1>3. x = n * D + c
  BY DEF x
<1>4. q = n
  <2> DEFINE k == q - n
  <2>1. k \in Int /\ D * k = D * q - D * n
    BY <1>2
  <2>2. D * k = c - r
    BY <1>2, <1>3, <2>1
  <2>3. \/ k = 0
        \/ k >= 1
        \/ k <= -1
    BY <2>1
  <2> HIDE DEF k
  <2>4. k >= 1 => D * k >= D
    BY <2>1
  <2>5. k <= -1 => D * k <= -D
    BY <2>1
  <2>6. D * k < D /\ D * k > -D
    BY <1>2, <2>2
  <2>7. k = 0
    BY <2>1, <2>3, <2>4, <2>5, <2>6
  <2> QED
    BY <1>2, <2>7 DEF k
<1>5. r = c
  BY <1>2, <1>3, <1>4
<1> QED
  BY <1>1, <1>4, <1>5 DEF x, q, r

\* A wall time is before a day when its own day is.
LEMMA DaysInOrder ==
  ASSUME NEW D \in Nat \ {0}, NEW n \in Int, NEW x \in Int
  PROVE  /\ x \div D \in Int /\ x % D \in 0 .. D - 1
         /\ x = (x \div D) * D + (x % D)
         /\ x \div D < n <=> x < n * D
         /\ x \in n * D .. n * D + D - 1 => x \div D = n
<1> DEFINE q == x \div D
           r == x % D
<1>1. q \in Int /\ r \in 0 .. D - 1 /\ x = q * D + r
  OBVIOUS
<1> HIDE DEF q, r
<1> DEFINE k == n - q
<1>2. k \in Int /\ n * D = q * D + k * D
  BY <1>1
<1> HIDE DEF k
<1>3. k >= 1 => k * D >= D
  BY <1>2
<1>4. k <= 0 => k * D <= 0
  BY <1>2
<1>5. k <= -1 => k * D <= -D
  BY <1>2
<1>6. k * D \in Int /\ q * D \in Int
  BY <1>1, <1>2
<1>7. k >= 1 <=> x < n * D
  BY <1>1, <1>2, <1>3, <1>4, <1>6
<1>8. x \in n * D .. n * D + D - 1 => k = 0
  BY <1>1, <1>2, <1>3, <1>5, <1>6
<1>9. (k >= 1 <=> q < n) /\ (k = 0 => q = n)
  BY <1>1 DEF k
<1> QED
  BY <1>1, <1>7, <1>8, <1>9 DEF q, r

\* First picks the least member of a set that has one.
LEMMA FirstIs ==
  ASSUME NEW S \in SUBSET Int, NEW m \in S, \A x \in S : m <= x
  PROVE  First(S) = m
<1>1. \E y \in S : \A x \in S : y <= x
  OBVIOUS
<1>2. First(S) \in S /\ \A x \in S : First(S) <= x
  BY <1>1, Zenon DEF First
<1>3. m <= First(S) /\ First(S) <= m /\ m \in Int /\ First(S) \in Int
  BY <1>2
<1> QED
  BY <1>3

\* What the walk counts: the day a count is in, and its run.
DayAt(e, z, after, k) == DayOf(Loc(e, z), after) + (k \div Day)
RunAt(e, z, after, k) ==
  Date(Loc(e, z), DayAt(e, z, after, k) * Day + (k % Day))

\* The counts of the walk that are a run.
Counts(e, z, after) ==
  {k \in 0 .. SearchLimit * Day - 1 :
     k % Day \in e.times /\ MatchesDay(e, DayAt(e, z, after, k)) /\ RunAt(e, z, after, k) > after}

\* The expressions of a clock, in a zone whose change spares them.
Clean(e, z) == /\ Loc(e, z) \in ZoneRecs
               /\ e.times \in SUBSET (0 .. Day - 1)
               /\ e.until \in Int
               /\ Spared(e, z)

\* The midnight of a day is on that day, and divides the instants.
LEMMA SparedMidnight ==
  ASSUME NEW e, NEW z, Clean(e, z), NEW n \in Int
  PROVE  /\ n * Day \in Int
         /\ DayOf(Loc(e, z), Date(Loc(e, z), n * Day)) = n
         /\ \A t \in Int : t < Date(Loc(e, z), n * Day) <=> DayOf(Loc(e, z), t) < n
<1> DEFINE loc == Loc(e, z)
           w == n * Day
<1>1. loc \in ZoneRecs /\ loc.after - loc.before < Day /\ Day \in Nat \ {0}
  BY CalendarAssumption DEF Clean, Spared
<1>2. w \in Int /\ w % Day = 0
  <2>1. 0 \in 0 .. Day - 1
    BY <1>1
  <2>2. n * Day + 0 \in Int /\ (n * Day + 0) % Day = 0
    BY <1>1, <2>1, DayAndTime
  <2>3. n * Day \in Int
    BY <1>1
  <2> QED
    BY <2>2, <2>3
<1>3. w \in Changed(loc) => w - 1 \notin Changed(loc) /\ Date(loc, w) = w - loc.before
  BY <1>2 DEF Clean, Spared
<1> HIDE DEF w, loc
<1>4. /\ Wall(loc, Date(loc, w)) \in w .. w + Day - 1
      /\ \A t \in Int : t < Date(loc, w) <=> Wall(loc, t) < w
  BY <1>1, <1>2, <1>3, MidnightDivides
<1>5. \A t \in Int : Wall(loc, t) \in Int
  BY <1>1 DEF Wall, Offset, ZoneRecs
<1>6. DayOf(loc, Date(loc, w)) = n
  <2>1. Wall(loc, Date(loc, w)) \in Int
    BY <1>2, <1>4
  <2> QED
    BY <1>1, <1>4, <2>1, DaysInOrder DEF DayOf, w
<1>7. ASSUME NEW t \in Int PROVE t < Date(loc, w) <=> DayOf(loc, t) < n
  <2>1. DayOf(loc, t) < n <=> Wall(loc, t) < n * Day
    BY <1>1, <1>5, DaysInOrder DEF DayOf
  <2> QED
    BY <1>4, <2>1 DEF w
<1> QED
  BY <1>2, <1>6, <1>7 DEF w, loc

\* A time the expression names is spared on every day.
LEMMA SparedTime ==
  ASSUME NEW e, NEW z, Clean(e, z), NEW n \in Int, NEW c \in e.times
  PROVE  n * Day + c \in Int \ Changed(Loc(e, z))
<1>1. c \in 0 .. Day - 1 /\ Day \in Nat \ {0}
  BY CalendarAssumption DEF Clean
<1>2. n * Day + c \in Int /\ (n * Day + c) % Day = c
  BY <1>1, DayAndTime
<1> QED
  BY <1>2 DEF Clean, Spared

\* Where the midnights are spared, the walk counts the days one by one.
LEMMA WalkIs ==
  ASSUME NEW e, NEW z, Clean(e, z), NEW after \in Nat
  PROVE  NextClock(e, z, after) =
           IF Counts(e, z, after) = {} THEN Zero
           ELSE RunAt(e, z, after, First(Counts(e, z, after)))
<1> DEFINE loc == Loc(e, z)
           day(k) == DayOf(loc, Date(loc, (DayOf(loc, after) + (k \div Day)) * Day))
           run(k) == Date(loc, (day(k) * Day) + (k % Day))
           ahead == {k \in 0 .. SearchLimit * Day - 1 :
                       k % Day \in e.times /\ MatchesDay(e, day(k)) /\ run(k) > after}
<1>1. NextClock(e, z, after) = IF ahead = {} THEN Zero ELSE run(First(ahead))
  BY Zenon DEF NextClock
<1>2. Day \in Nat \ {0} /\ SearchLimit \in Nat \ {0} /\ SearchLimit * Day \in Int
  BY CalendarAssumption
<1>3. DayOf(loc, after) \in Int
  BY DateType DEF Clean
<1>4. ASSUME NEW k \in Int PROVE day(k) = DayAt(e, z, after, k) /\ run(k) = RunAt(e, z, after, k)
  <2>1. k \div Day \in Int
    BY <1>2
  <2>2. DayOf(loc, after) + (k \div Day) \in Int
    BY <1>3, <2>1
  <2>3. day(k) = DayAt(e, z, after, k)
    BY <2>2, SparedMidnight DEF DayAt
  <2> QED
    BY <2>3 DEF RunAt
<1>5. ahead = Counts(e, z, after)
  <2> HIDE DEF day, run
  <2>1. \A k \in 0 .. SearchLimit * Day - 1 : k \in Int
    BY <1>2
  <2> QED
    BY <1>4, <2>1 DEF Counts
<1>6. Counts(e, z, after) # {} => First(Counts(e, z, after)) \in Int
  <2>1. Counts(e, z, after) \in SUBSET Nat
    BY <1>2 DEF Counts
  <2>2. ASSUME Counts(e, z, after) # {}
        PROVE  \E k \in Counts(e, z, after) : \A j \in Counts(e, z, after) : k <= j
    BY <2>1, <2>2, LeastNatural
  <2> QED
    BY <2>1, <2>2 DEF First
<1> HIDE DEF day, run, ahead
<1> QED
  BY <1>1, <1>4, <1>5, <1>6

\* A count is a day and a time of day, and its run is the instant of a wall time
\* that is spared.
LEMMA CountIs ==
  ASSUME NEW e, NEW z, Clean(e, z), NEW after \in Nat, NEW k \in Counts(e, z, after)
  PROVE  /\ k \in Nat /\ k % Day \in e.times /\ MatchesDay(e, DayAt(e, z, after, k))
         /\ DayAt(e, z, after, k) \in DayOf(Loc(e, z), after)
                                        .. DayOf(Loc(e, z), after) + SearchLimit - 1
         /\ RunAt(e, z, after, k) \in Int /\ RunAt(e, z, after, k) > after
         /\ DayOf(Loc(e, z), after) * Day + k \in Int \ Changed(Loc(e, z))
         /\ RunAt(e, z, after, k) = Date(Loc(e, z), DayOf(Loc(e, z), after) * Day + k)
<1> DEFINE loc == Loc(e, z)
           D0 == DayOf(loc, after)
           n == DayAt(e, z, after, k)
           q == k \div Day
<1>1. Day \in Nat \ {0} /\ SearchLimit \in Nat \ {0} /\ loc \in ZoneRecs
  BY CalendarAssumption DEF Clean
<1>2. D0 \in Int
  BY <1>1, DateType
<1>3. SearchLimit * Day \in Int
  BY <1>1
<1>4. /\ k \in Nat /\ k < SearchLimit * Day
      /\ k % Day \in e.times /\ MatchesDay(e, n) /\ RunAt(e, z, after, k) > after
  BY <1>3 DEF Counts
<1>5. q \in Int /\ k % Day \in Int /\ k = q * Day + (k % Day)
  BY <1>1, <1>4, DaysInOrder
<1>6. q \in 0 .. SearchLimit - 1
  <2>1. q < SearchLimit
    BY <1>1, <1>4, DaysInOrder
  <2>2. ~(q < 0)
    <3>1. q < 0 <=> k < 0 * Day
      BY <1>1, <1>4, DaysInOrder
    <3> QED
      BY <1>1, <1>4, <3>1
  <2> QED
    BY <1>1, <1>5, <2>1, <2>2
<1>7. n = D0 + q /\ n \in D0 .. D0 + SearchLimit - 1
  BY <1>1, <1>2, <1>6 DEF DayAt
<1>8. n * Day + (k % Day) = D0 * Day + k
  <2> HIDE DEF n, D0, q
  <2>1. (D0 + q) * Day = D0 * Day + q * Day
    BY <1>1, <1>2, <1>5
  <2>2. D0 * Day \in Int /\ q * Day \in Int
    BY <1>1, <1>2, <1>5
  <2> QED
    BY <1>5, <1>7, <2>1, <2>2
<1>9. D0 * Day + k \in Int \ Changed(loc)
  <2>1. n * Day + (k % Day) \in Int \ Changed(loc)
    BY <1>2, <1>4, <1>7, SparedTime
  <2> QED
    BY <1>8, <2>1
<1>10. RunAt(e, z, after, k) = Date(loc, D0 * Day + k)
  BY <1>8 DEF RunAt
<1>11. RunAt(e, z, after, k) \in Int
  BY <1>1, <1>9, <1>10, DateType
<1> QED
  BY <1>4, <1>7, <1>9, <1>10, <1>11

\* A later count has a later run.
LEMMA CountsRise ==
  ASSUME NEW e, NEW z, Clean(e, z), NEW after \in Nat,
         NEW j \in Counts(e, z, after), NEW k \in Counts(e, z, after), j <= k
  PROVE  RunAt(e, z, after, j) <= RunAt(e, z, after, k)
<1> DEFINE loc == Loc(e, z)
           v == DayOf(loc, after) * Day + j
           w == DayOf(loc, after) * Day + k
<1>1. /\ v \in Int \ Changed(loc) /\ RunAt(e, z, after, j) = Date(loc, v)
      /\ w \in Int \ Changed(loc) /\ RunAt(e, z, after, k) = Date(loc, w)
      /\ j \in Nat /\ k \in Nat
  BY CountIs
<1>2. loc \in ZoneRecs
  BY DEF Clean
<1>3. Date(loc, v) \in Int
  BY <1>1, <1>2, DateType
<1>4. j = k \/ v < w
  <2>1. DayOf(loc, after) * Day \in Int
    BY <1>2, DateType, CalendarAssumption
  <2> QED
    BY <1>1, <2>1
<1>5. v < w => Date(loc, v) < Date(loc, w)
  BY <1>1, <1>2, DateRises
<1>6. Date(loc, w) \in Int
  BY <1>1, <1>2, DateType
<1> QED
  BY <1>1, <1>3, <1>4, <1>5, <1>6

\* The runs an expression names are the runs of the counts, up to the end date.
LEMMA NamedIs ==
  ASSUME NEW e, NEW z, Clean(e, z), NEW after \in Nat
  PROVE  Named(e, z, after) =
           {at \in {RunAt(e, z, after, k) : k \in Counts(e, z, after)} :
              e.until = Never \/ DayOf(Loc(e, z), at) <= e.until}
<1> DEFINE loc == Loc(e, z)
           D0 == DayOf(loc, after)
           days == D0 .. D0 + SearchLimit - 1
           all == {Date(loc, n * Day + c) : n \in {d \in days : MatchesDay(e, d)}, c \in e.times}
           counted == {RunAt(e, z, after, k) : k \in Counts(e, z, after)}
<1>1. Day \in Nat \ {0} /\ SearchLimit \in Nat \ {0} /\ loc \in ZoneRecs
      /\ e.times \in SUBSET (0 .. Day - 1)
  BY CalendarAssumption DEF Clean
<1>2. D0 \in Int
  BY <1>1, DateType
<1>3. ASSUME NEW n \in days, MatchesDay(e, n), NEW c \in e.times, Date(loc, n * Day + c) > after
      PROVE  Date(loc, n * Day + c) \in counted
  <2> DEFINE i == n - D0
             k == i * Day + c
  <2>1. i \in 0 .. SearchLimit - 1 /\ i \in Int /\ n = D0 + i
    BY <1>1, <1>2
  <2>2. c \in 0 .. Day - 1
    BY <1>1
  <2> HIDE DEF i
  <2>3. k \in Int /\ k \div Day = i /\ k % Day = c
    BY <1>1, <2>1, <2>2, DayAndTime
  <2>4. k \in 0 .. SearchLimit * Day - 1
    <3> HIDE DEF k
    <3>1. k < SearchLimit * Day
      <4>1. k \div Day < SearchLimit <=> k < SearchLimit * Day
        BY <1>1, <2>3, DaysInOrder
      <4> QED
        BY <1>1, <2>1, <2>3, <4>1
    <3>2. ~(k < 0 * Day)
      <4>1. k \div Day < 0 <=> k < 0 * Day
        BY <1>1, <2>3, DaysInOrder
      <4> QED
        BY <2>1, <2>3, <4>1
    <3>3. SearchLimit * Day \in Int /\ 0 * Day = 0
      BY <1>1
    <3> QED
      BY <2>3, <3>1, <3>2, <3>3
  <2>5. DayAt(e, z, after, k) = n
    BY <2>1, <2>3 DEF DayAt
  <2>6. RunAt(e, z, after, k) = Date(loc, n * Day + c)
    BY <2>3, <2>5 DEF RunAt
  <2> HIDE DEF k
  <2>7. k \in Counts(e, z, after)
    BY <1>3, <2>3, <2>4, <2>5, <2>6 DEF Counts
  <2> QED
    BY <2>6, <2>7
<1>4. ASSUME NEW k \in Counts(e, z, after)
      PROVE  RunAt(e, z, after, k) \in all /\ RunAt(e, z, after, k) > after
  <2>1. /\ k % Day \in e.times /\ MatchesDay(e, DayAt(e, z, after, k))
        /\ DayAt(e, z, after, k) \in days
        /\ RunAt(e, z, after, k) > after
    BY CountIs
  <2>2. RunAt(e, z, after, k) = Date(loc, DayAt(e, z, after, k) * Day + (k % Day))
    BY DEF RunAt
  <2> QED
    BY <2>1, <2>2
<1>5. Named(e, z, after) =
        {at \in all : at > after /\ (e.until = Never \/ DayOf(loc, at) <= e.until)}
  BY DEF Named
<1>6. \A at \in all : at > after => at \in counted
  BY <1>3
<1>7. \A at \in counted : at \in all /\ at > after
  BY <1>4
<1> HIDE DEF all, counted, loc
<1>8. Named(e, z, after) = {at \in counted : e.until = Never \/ DayOf(loc, at) <= e.until}
  BY <1>5, <1>6, <1>7
<1> QED
  BY <1>8 DEF counted, loc

\* next answers the first instant that the expression names after the one it is
\* asked about, and the zero time only when it names none: in a zone whose change
\* spares its times, whatever the length of the months and of the day of a change.
THEOREM NextIsFirstNamed ==
  ASSUME NEW e, NEW z, Clean(e, z), e.kind \in ClockKinds, NEW after \in Nat
  PROVE  NextRun(e, z, after) =
           IF Named(e, z, after) = {} THEN Zero ELSE First(Named(e, z, after))
<1> DEFINE C == Counts(e, z, after)
           counted == {RunAt(e, z, after, k) : k \in C}
           within(at) == e.until = Never \/ DayOf(Loc(e, z), at) <= e.until
<1>1. NextRaw(e, z, after) = IF C = {} THEN Zero ELSE RunAt(e, z, after, First(C))
  BY WalkIs DEF NextRaw, ClockKinds
<1>2. Named(e, z, after) = {at \in counted : within(at)}
  BY NamedIs
<1>3. C \in SUBSET Nat /\ counted \in SUBSET Int
  BY CountIs
<1>4. Loc(e, z) \in ZoneRecs /\ e.until \in Int
  BY DEF Clean
\* The end date lets a run pass when its own day does.
<1>5. ASSUME NEW at \in Int
      PROVE  e.until # Never => (at > UntilAt(e, z) <=> DayOf(Loc(e, z), at) > e.until)
  <2>1. e.until + 1 \in Int
    BY <1>4
  <2> DEFINE m == Date(Loc(e, z), (e.until + 1) * Day)
             d == DayOf(Loc(e, z), at)
  <2>2. (e.until + 1) * Day \in Int /\ (at < m <=> d < e.until + 1)
    BY <2>1, SparedMidnight
  <2>3. m \in Int /\ d \in Int
    BY <1>4, <2>2, DateType
  <2>4. UntilAt(e, z) = m - 1
    BY DEF UntilAt
  <2> HIDE DEF m, d
  <2>5. at > m - 1 <=> d > e.until
    BY <1>4, <2>2, <2>3
  <2> QED
    BY <2>4, <2>5 DEF d
<1>6. CASE C = {}
  <2>1. Named(e, z, after) = {}
    BY <1>2, <1>6
  <2>2. NextRun(e, z, after) = Zero
    BY <1>1, <1>6 DEF NextRun
  <2> QED
    BY <2>1, <2>2
<1>7. CASE C # {}
  <2> DEFINE k == First(C)
             first == RunAt(e, z, after, k)
  <2>1. k \in C /\ \A j \in C : k <= j
    <3>1. \E m \in C : \A j \in C : m <= j
      BY <1>3, <1>7, LeastNatural
    <3> QED
      BY <3>1, Zenon DEF First
  <2> HIDE DEF k
  <2>2. first \in counted /\ first \in Int
    BY <1>3, <2>1
  <2>3. \A at \in counted : first <= at
    BY <2>1, CountsRise
  <2>4. NextRun(e, z, after) =
          IF e.until # Never /\ first > UntilAt(e, z) THEN Zero ELSE first
    BY <1>1, <1>7, Zenon DEF NextRun, k
  <2> HIDE DEF first, counted, C
  <2>5. CASE within(first)
    <3>1. NextRun(e, z, after) = first
      <4>1. DayOf(Loc(e, z), first) \in Int
        BY <1>4, <2>2, DateType
      <4>2. e.until # Never => ~(DayOf(Loc(e, z), first) > e.until)
        BY <1>4, <2>5, <4>1
      <4> QED
        BY <1>5, <2>2, <2>4, <4>2
    <3>2. first \in Named(e, z, after) /\ Named(e, z, after) \in SUBSET Int
      BY <1>2, <1>3, <2>2, <2>5
    <3>3. \A at \in Named(e, z, after) : first <= at
      BY <1>2, <2>3
    <3>4. First(Named(e, z, after)) = first
      BY <3>2, <3>3, FirstIs
    <3> QED
      BY <3>1, <3>2, <3>4
  <2>6. CASE ~within(first)
    <3>1. DayOf(Loc(e, z), first) \in Int
      BY <1>4, <2>2, DateType
    <3>2. e.until # Never /\ first > UntilAt(e, z)
      BY <1>4, <1>5, <2>2, <2>6, <3>1
    <3>3. ASSUME NEW at \in counted PROVE ~within(at)
      <4>1. at \in Int /\ first <= at
        BY <1>3, <2>3
      <4>2. UntilAt(e, z) \in Int
        <5>1. e.until + 1 \in Int /\ (e.until + 1) * Day \in Int
          BY <1>4, CalendarAssumption
        <5> QED
          BY <1>4, <5>1, DateType DEF UntilAt
      <4>3. at > UntilAt(e, z)
        BY <2>2, <3>2, <4>1, <4>2
      <4>4. DayOf(Loc(e, z), at) > e.until /\ DayOf(Loc(e, z), at) \in Int
        BY <1>4, <1>5, <3>2, <4>1, <4>3, DateType
      <4> QED
        BY <1>4, <3>2, <4>4
    <3>4. Named(e, z, after) = {}
      BY <1>2, <3>3
    <3> QED
      BY <2>4, <3>2, <3>4
  <2> QED
    BY <2>5, <2>6
<1> QED
  BY <1>6, <1>7

\* NextIsFirst of CalendarWalk, for every calendar, expression and zone whose
\* change takes no time of the expression: no run of a schedule is skipped and
\* none is repeated, however many have gone before.
THEOREM NextIsAlwaysFirst ==
  ASSUME \A e \in Exprs, z \in Zones : e.kind \in ClockKinds => Spared(e, z)
  PROVE  WalkSpec => []NextIsFirst
<1> DEFINE WalkInv == expr \in Exprs /\ place \in Zones /\ last \in Nat
<1>1. WalkInit => WalkInv
  BY DEF WalkInit
<1>2. WalkInv /\ [Run]_walkVars => WalkInv'
  BY DEF Run, walkVars
<1>3. WalkInv => NextIsFirst
  <2> SUFFICES ASSUME WalkInv, expr.kind \in ClockKinds
               PROVE  NextRun(expr, place, last) =
                        IF Named(expr, place, last) = {} THEN Zero
                        ELSE First(Named(expr, place, last))
    BY DEF NextIsFirst
  <2>1. Loc(expr, place) \in ZoneRecs
    BY ExprsAssumption DEF Loc
  <2>2. Clean(expr, place)
    BY <2>1, ExprsAssumption DEF Clean
  <2> QED
    BY <2>2, NextIsFirstNamed
<1> QED
  BY <1>1, <1>2, <1>3, PTL DEF WalkSpec

-----------------------------------------------------------------------------
\* The only run of a "once", in the one zone.
OnceAt(e) == Date(Loc(e, UTC), e.at)

\* A "once" has that run, until it has come.
LEMMA OnceRun ==
  ASSUME NEW e \in Exprs, NEW after \in Nat, e.kind = "once"
  PROVE  /\ NextRun(e, UTC, after) \in {Zero, OnceAt(e)}
         /\ OnceAt(e) <= after => NextRun(e, UTC, after) = Zero
<1>1. Loc(e, UTC) \in ZoneRecs /\ e.at \in Int
  BY ExprsAssumption, SchedulesAssumption DEF Loc
<1>2. OnceAt(e) \in Int
  BY <1>1, DateType DEF OnceAt
<1>3. NextRaw(e, UTC, after) = IF OnceAt(e) > after THEN OnceAt(e) ELSE Zero
  BY DEF NextRaw, OnceAt
<1>4. NextRun(e, UTC, after) \in {Zero, NextRaw(e, UTC, after)}
  BY DEF NextRun
<1> QED
  BY <1>2, <1>3, <1>4

-----------------------------------------------------------------------------
(* A confirmed cancellation is final.                                      *)

\* Add is the only way into the store and is taken once per schedule; so a
\* schedule that is or was in the store, in memory or on disk, has its booking
\* behind it.
BookedOnce == \A id \in Ids : \/ book[id].pc = "over"
                              \/ mem[id] = Gone /\ disk[id] = Gone /\ id \notin cancelled

Shape == DOMAIN mem = Ids /\ DOMAIN disk = Ids /\ DOMAIN book = Ids /\ cancelled \subseteq Ids

IInv == Shape /\ BookedOnce /\ CancelledStaysGone

\* The strengthened invariant holds of a machine with no schedule.
LEMMA IndInit == Init => IInv
BY DEF Init, IInv, Shape, BookedOnce, CancelledStaysGone, NotBooked

\* Update leaves a schedule that is not there alone, in memory and on disk.
LEMMA UpdateKeeps ==
  ASSUME IInv, NEW id, NEW rec, Update(id, rec), UNCHANGED <<book, cancelled>>
  PROVE  IInv'
<1>1. CASE mem[id] = Gone
  BY <1>1 DEF Update, store, IInv, Shape, BookedOnce, CancelledStaysGone
<1>2. CASE mem[id] # Gone
  <2>1. mem' = [mem EXCEPT ![id] = rec] /\ (disk' = mem' \/ disk' = disk)
    BY <1>2 DEF Update, Save
  <2>2. Shape'
    BY <2>1 DEF IInv, Shape
  <2>3. \A i \in Ids : mem[i] = Gone => mem'[i] = Gone
    BY <1>2, <2>1 DEF IInv, Shape
  <2>4. \A i \in Ids : mem[i] = Gone /\ disk[i] = Gone => mem'[i] = Gone /\ disk'[i] = Gone
    BY <2>1, <2>3
  <2> QED
    BY <2>2, <2>4 DEF IInv, Shape, BookedOnce, CancelledStaysGone
<1> QED
  BY <1>1, <1>2

\* What a step does that touches neither the store nor the bookings.
LEMMA StoreKept == IInv /\ UNCHANGED <<mem, disk, book, cancelled>> => IInv'
BY DEF IInv, Shape, BookedOnce, CancelledStaysGone

\* Every step of the scheduler and of its clients keeps it.
LEMMA IndStep == IInv /\ [Next]_vars => IInv'
<1> SUFFICES ASSUME IInv, [Next]_vars PROVE IInv'
  OBVIOUS
<1> USE DEF store, hist
<1>1. CASE Tick
  BY <1>1, StoreKept DEF Tick
<1>2. CASE Agent
  BY <1>2, StoreKept DEF Agent, BeginTurn, EndTurn
<1>3. CASE Person
  <2>1. ASSUME NEW a \in Agents, PersonSends(a) \/ Dismiss(a) \/ Hire(a) PROVE IInv'
    BY <2>1, StoreKept DEF PersonSends, Dismiss, Hire
  <2>2. ASSUME NEW id \in Ids, NEW a \in Agents, NEW e \in Exprs, Plan(id, a, e) PROVE IInv'
    <3>1. book[id].pc # "over" /\ UNCHANGED <<mem, disk, cancelled>>
      BY <2>2 DEF Plan
    <3>2. DOMAIN book' = Ids /\ \A i \in Ids \ {id} : book'[i] = book[i]
      BY <2>2 DEF Plan, IInv, Shape
    <3> QED
      BY <3>1, <3>2 DEF IInv, Shape, BookedOnce, CancelledStaysGone
  <2>3. ASSUME NEW id \in Ids, Refuse(id) PROVE IInv'
    <3>1. DOMAIN book' = Ids /\ book'[id].pc = "over" /\ \A i \in Ids \ {id} : book'[i] = book[i]
      BY <2>3 DEF Refuse, Over, NotBooked, IInv, Shape
    <3>2. UNCHANGED <<mem, disk, cancelled>>
      BY <2>3 DEF Refuse
    <3> QED
      BY <3>1, <3>2 DEF IInv, Shape, BookedOnce, CancelledStaysGone
  <2>4. ASSUME NEW id \in Ids, Add(id) PROVE IInv'
    <3>1. DOMAIN book' = Ids /\ book'[id].pc = "over" /\ \A i \in Ids \ {id} : book'[i] = book[i]
      BY <2>4 DEF Add, Over, NotBooked, IInv, Shape
    <3>2. DOMAIN mem' = Ids /\ \A i \in Ids \ {id} : mem'[i] = mem[i]
      BY <2>4 DEF Add, IInv, Shape
    <3>3. DOMAIN disk' = Ids /\ \A i \in Ids \ {id} : disk'[i] \in {disk[i], mem[i]}
      BY <2>4, <3>2 DEF Add, Save, IInv, Shape
    <3>4. id \notin cancelled /\ cancelled' = cancelled
      BY <2>4 DEF Add, IInv, BookedOnce
    <3> QED
      BY <3>1, <3>2, <3>3, <3>4 DEF IInv, Shape, BookedOnce, CancelledStaysGone
  <2>5. ASSUME NEW id \in Ids, Delete(id) PROVE IInv'
    <3>1. CASE UNCHANGED <<mem, disk, cancelled>>
      BY <2>5, <3>1, StoreKept DEF Delete
    <3>2. CASE mem' = [mem EXCEPT ![id] = Gone] /\ disk' = mem' /\ cancelled' = cancelled \union {id}
      <4>1. DOMAIN mem' = Ids /\ mem'[id] = Gone /\ \A i \in Ids \ {id} : mem'[i] = mem[i]
        BY <3>2 DEF IInv, Shape
      <4>2. book' = book /\ book[id].pc = "over"
        BY <2>5 DEF Delete, Booked, IInv, BookedOnce
      <4> QED
        BY <3>2, <4>1, <4>2 DEF IInv, Shape, BookedOnce, CancelledStaysGone
    <3> QED
      BY <2>5, <3>1, <3>2 DEF Delete
  <2>6. ASSUME NEW z \in Zones, EmptyZoneFile(z) PROVE IInv'
    BY <2>6, StoreKept DEF EmptyZoneFile
  <2> QED
    BY <1>3, <2>1, <2>2, <2>3, <2>4, <2>5, <2>6 DEF Person
<1>4. CASE Rezone
  <2>1. CASE WriteZoneFile \/ ListMoved \/ MoveEnds
    BY <2>1, StoreKept DEF WriteZoneFile, ListMoved, MoveEnds
  <2>2. CASE MoveOne
    BY <2>2, UpdateKeeps DEF MoveOne
  <2> QED
    BY <1>4, <2>1, <2>2 DEF Rezone
<1>5. CASE RunSchedules
  <2>1. CASE Sweep \/ SweepEnds \/ FireNext \/ FireIdle \/ SendFails \/ FireSend
    BY <2>1, StoreKept DEF Sweep, SweepEnds, FireNext, FireIdle, SendFails, FireSend
  <2>2. CASE FireAdvance
    BY <2>2, UpdateKeeps, StoreKept DEF FireAdvance, Disable
  <2>3. CASE FireRoster
    BY <2>3, UpdateKeeps, StoreKept DEF FireRoster, Disable
  <2>4. CASE FireStamp
    BY <2>4, UpdateKeeps DEF FireStamp
  <2> QED
    BY Zenon, <1>5, <2>1, <2>2, <2>3, <2>4 DEF RunSchedules, Fire
<1>6. CASE Crash
  <2>1. mem' = [id \in Ids |-> Gone] /\ UNCHANGED <<disk, cancelled>>
    BY <1>6 DEF Crash
  <2>2. DOMAIN book' = Ids /\ \A id \in Ids : book[id].pc = "over" => book'[id].pc = "over"
    BY <1>6 DEF Crash, IInv, Shape
  <2> QED
    BY <2>1, <2>2 DEF IInv, Shape, BookedOnce, CancelledStaysGone
<1>7. CASE Boot
  <2>1. DOMAIN mem' = Ids /\ \A id \in Ids : disk[id] = Gone => mem'[id] = Gone
    BY <1>7 DEF Boot
  <2>2. /\ DOMAIN disk' = Ids
        /\ \A id \in Ids : disk'[id] \in {mem'[id], disk[id]}
    BY <1>7 DEF Boot, SaveSome
  <2>3. UNCHANGED <<book, cancelled>>
    BY <1>7 DEF Boot
  <2> QED
    BY <2>1, <2>2, <2>3 DEF IInv, Shape, BookedOnce, CancelledStaysGone
<1>8. CASE UNCHANGED vars
  BY <1>8, StoreKept DEF vars
<1> QED
  BY <1>1, <1>2, <1>3, <1>4, <1>5, <1>6, <1>7, <1>8 DEF Next

\* A schedule whose cancellation was confirmed is in neither memory nor the
\* file again, whatever the sweep and a zone change hold copies of, and over
\* any crashes and failed writes (Delete, Update, saveLocked).
THEOREM CancellationIsFinal == Spec => []CancelledStaysGone
<1>1. IInv => CancelledStaysGone
  BY DEF IInv
<1> QED
  BY IndInit, IndStep, <1>1, PTL DEF Spec

-----------------------------------------------------------------------------
(* Types.                                                                  *)

Firing == sweep.pc \notin {"idle", "next"}

SchedTypes == TypeOK /\ (Firing => sweep.cur \in Recs)

\* What TypeOK says, part by part.
LEMMA TypeFacts ==
  ASSUME TypeOK
  PROVE  /\ now \in 0 .. MaxTime /\ now \in Nat
         /\ mem \in [Ids -> Recs \union {Gone}] /\ disk \in [Ids -> Recs \union {Gone}]
         /\ sweep \in Sweeps /\ rezone \in Rezones /\ zone \in Zones
         /\ book \in [Ids -> Bookings]
         /\ \A id \in Ids : book[id].pc = "planned" => book[id] \in PlannedBookings
         /\ roster \in [Agents -> 0 .. MaxHires] /\ hires \in [Agents -> 1 .. MaxHires]
         /\ inbox \in [Agents -> Seq({"person", "timer"})]
         /\ state \in [Agents -> {"idle", "working"}]
         /\ moves \in Nat /\ crashes \in Nat /\ faults \in Nat /\ sends \in Nat
         /\ cancelled \subseteq Ids /\ runs \in [Ids -> Nat] /\ strayed \subseteq Ids
<1>1. now \in 0 .. MaxTime
  BY Zenon DEF TypeOK
<1>2. now \in Nat
  BY <1>1, SchedulesAssumption
<1>3. mem \in [Ids -> Recs \union {Gone}] /\ disk \in [Ids -> Recs \union {Gone}]
  BY Zenon DEF TypeOK
<1>4. sweep \in Sweeps /\ rezone \in Rezones /\ zone \in Zones
  BY Zenon DEF TypeOK
<1>5. /\ book \in [Ids -> Bookings]
      /\ \A id \in Ids : book[id].pc = "planned" => book[id] \in PlannedBookings
  BY Zenon DEF TypeOK
<1>6. roster \in [Agents -> 0 .. MaxHires] /\ hires \in [Agents -> 1 .. MaxHires]
  BY Zenon DEF TypeOK
<1>7. /\ inbox \in [Agents -> Seq({"person", "timer"})]
      /\ state \in [Agents -> {"idle", "working"}]
  BY Zenon DEF TypeOK
<1>8. {moves, crashes, faults, sends} \subseteq Nat
  BY Zenon DEF TypeOK
<1>9. cancelled \subseteq Ids /\ runs \in [Ids -> Nat] /\ strayed \subseteq Ids
  BY Zenon DEF TypeOK
<1> QED
  BY <1>1, <1>2, <1>3, <1>4, <1>5, <1>6, <1>7, <1>8, <1>9

\* The daemon's first start, with no schedule (Init).
LEMMA SchedTypesInit == Init => SchedTypes
<1> SUFFICES ASSUME Init PROVE SchedTypes
  OBVIOUS
<1>1. NotBooked \in Bookings /\ NotBooked.pc # "planned"
  BY SchedulesAssumption DEF NotBooked, Bookings
<1>2. NoSweep \in Sweeps /\ NoSweep.pc = "idle"
  BY SchedulesAssumption DEF NoSweep, Sweeps, Copies
<1>3. NoMove \in Rezones
  BY SchedulesAssumption DEF NoMove, Rezones
<1>4. now \in 0 .. MaxTime /\ roster \in [Agents -> 0 .. MaxHires] /\ hires \in [Agents -> 1 .. MaxHires]
  BY SchedulesAssumption DEF Init
<1> QED
  BY <1>1, <1>2, <1>3, <1>4, SchedulesAssumption DEF Init, SchedTypes, TypeOK, Firing

\* saveLocked leaves the file as it was, or as the store is now.
LEMMA SaveTypes ==
  ASSUME TypeOK, Save, mem' \in [Ids -> Recs \union {Gone}]
  PROVE  /\ disk' \in [Ids -> Recs \union {Gone}] /\ faults' \in Nat
         /\ disk' \in {disk, mem'}
BY DEF Save, TypeOK

\* Update changes the record it is given, and only if it is there.
LEMMA UpdateIs ==
  ASSUME TypeOK, NEW id \in Ids, NEW rec, mem[id] # Gone => rec \in Recs, Update(id, rec)
  PROVE  /\ mem' \in [Ids -> Recs \union {Gone}]
         /\ disk' \in [Ids -> Recs \union {Gone}] /\ faults' \in Nat
         /\ disk' \in {disk, mem'}
         /\ mem[id] = Gone => mem' = mem
         /\ mem[id] # Gone => mem'[id] = rec
         /\ \A i \in Ids : i # id => mem'[i] = mem[i]
<1>1. CASE mem[id] = Gone
  BY <1>1 DEF Update, store, TypeOK
<1>2. CASE mem[id] # Gone
  <2>1. mem' = [mem EXCEPT ![id] = rec] /\ Save
    BY <1>2 DEF Update
  <2>2. mem' \in [Ids -> Recs \union {Gone}]
    BY <1>2, <2>1 DEF TypeOK
  <2> QED
    BY <1>2, <2>1, <2>2, SaveTypes DEF TypeOK
<1> QED
  BY <1>1, <1>2

\* The edits the sweep and a zone change make of a record leave a record.
LEMMA EditTypes ==
  ASSUME NEW rec \in Recs
  PROVE  /\ \A t \in Nat : [rec EXCEPT !.next = t] \in Recs
         /\ [rec EXCEPT !.on = FALSE] \in Recs
         /\ \A b \in BOOLEAN, t \in Nat : [rec EXCEPT !.fired = t, !.on = b] \in Recs
BY DEF Recs

\* rollForward moves the next run of a record ahead, or leaves it.
LEMMA RolledIs ==
  ASSUME TypeOK, NEW rec \in Recs
  PROVE  /\ RolledForward(rec) \in Recs
         /\ RolledForward(rec).id = rec.id /\ RolledForward(rec).expr = rec.expr
         /\ RolledForward(rec).on = rec.on /\ RolledForward(rec).fired = rec.fired
         /\ RolledForward(rec).next = rec.next \/ RolledForward(rec).next > now
<1> DEFINE at == NextRun(rec.expr, zone, now)
<1>1. rec.expr \in Exprs /\ zone \in Zones /\ now \in Nat
  BY SchedulesAssumption DEF Recs, TypeOK
<1>2. at \in Nat \union {Zero} /\ (at = Zero \/ at > now)
  BY <1>1, RunIs
<1>3. RolledForward(rec) = IF rec = Gone \/ rec.next > now \/ at = Zero THEN rec
                                                                       ELSE [rec EXCEPT !.next = at]
  BY DEF RolledForward
<1> HIDE DEF at
<1>4. CASE at \in Nat
  <2>1. /\ [rec EXCEPT !.next = at] \in Recs
        /\ [rec EXCEPT !.next = at].id = rec.id /\ [rec EXCEPT !.next = at].expr = rec.expr
        /\ [rec EXCEPT !.next = at].on = rec.on /\ [rec EXCEPT !.next = at].fired = rec.fired
        /\ [rec EXCEPT !.next = at].next = at
    BY <1>4 DEF Recs
  <2> QED
    BY <1>2, <1>3, <1>4, <2>1 DEF Zero
<1>5. CASE at = Zero
  BY <1>3, <1>5
<1> QED
  BY <1>2, <1>4, <1>5

\* A schedule that is due is on, and its time has come.
LEMMA DueIs ==
  ASSUME TypeOK, NEW id \in Ids, Due(mem[id])
  PROVE  mem[id] \in Recs /\ mem[id].on /\ mem[id].next <= now
BY DEF Due, TypeOK

\* A step of fire goes on with the same copy, or with none.
LEMMA SweepStepTypes ==
  ASSUME SchedTypes
  PROVE  /\ \A step \in {"roster", "idle?", "send", "stamp"} :
              Firing /\ SweepStep(step) => sweep' \in Sweeps /\ Firing' /\ sweep'.cur \in Recs
         /\ FireOver => sweep' \in Sweeps /\ ~ Firing'
         /\ sweep' = NoSweep => sweep' \in Sweeps /\ ~ Firing'
<1>0. sweep \in Sweeps /\ (Firing => sweep.cur \in Recs)
  BY DEF SchedTypes, TypeOK
<1>1. ASSUME NEW step \in {"roster", "idle?", "send", "stamp"}, Firing, SweepStep(step)
      PROVE  sweep' \in Sweeps /\ Firing' /\ sweep'.cur \in Recs
  BY <1>0, <1>1 DEF SweepStep, Sweeps, Firing
<1>2. ASSUME FireOver PROVE sweep' \in Sweeps /\ ~ Firing'
  BY <1>0, <1>2 DEF FireOver, Sweeps, Firing, Copies
<1>3. ASSUME sweep' = NoSweep PROVE sweep' \in Sweeps /\ ~ Firing'
  BY <1>3, SchedulesAssumption DEF NoSweep, Sweeps, Firing, Copies
<1> QED
  BY <1>1, <1>2, <1>3

\* Every step keeps the types (Next).
LEMMA SchedTypesStep ==
  ASSUME SchedTypes, [Next]_vars
  PROVE  SchedTypes'
<1> USE SchedulesAssumption
<1> USE DEF store, team, hist
<1>t. TypeOK /\ (Firing => sweep.cur \in Recs)
  BY DEF SchedTypes
<1>0. TypeOK /\ mem \in [Ids -> Recs \union {Gone}] /\ disk \in [Ids -> Recs \union {Gone}]
      /\ now \in Nat /\ (Firing => sweep.cur \in Recs)
  BY <1>t, TypeFacts
<1>n. now \in 0 .. MaxTime
  BY <1>t, TypeFacts
<1>s. sweep \in Sweeps /\ rezone \in Rezones /\ zone \in Zones
  BY <1>t, TypeFacts
<1>k. /\ book \in [Ids -> Bookings]
      /\ \A id \in Ids : book[id].pc = "planned" => book[id] \in PlannedBookings
  BY <1>t, TypeFacts
<1>r. roster \in [Agents -> 0 .. MaxHires] /\ hires \in [Agents -> 1 .. MaxHires]
  BY <1>t, TypeFacts
<1>i. /\ inbox \in [Agents -> Seq({"person", "timer"})]
      /\ state \in [Agents -> {"idle", "working"}]
  BY <1>t, TypeFacts
<1>h. /\ moves \in Nat /\ crashes \in Nat /\ faults \in Nat /\ sends \in Nat
      /\ cancelled \subseteq Ids /\ runs \in [Ids -> Nat] /\ strayed \subseteq Ids
  BY <1>t, TypeFacts
<1>a. UNCHANGED sweep => (Firing' <=> Firing)
  BY DEF Firing
<1>1. CASE Tick
  <2>1. now' \in 0 .. MaxTime
    BY <1>n, <1>1 DEF Tick
  <2> QED
    BY <1>t, <1>1, <1>a, <2>1 DEF Tick, TypeOK, SchedTypes
<1>2. CASE Agent
  <2>1. PICK a \in Agents : BeginTurn(a) \/ EndTurn(a)
    BY <1>2 DEF Agent
  <2>2. state' \in [Agents -> {"idle", "working"}]
    BY <1>i, <2>1 DEF BeginTurn, EndTurn
  <2>3. inbox' \in [Agents -> Seq({"person", "timer"})]
    <3>1. inbox[a] \in Seq({"person", "timer"})
      BY <1>i
    <3>2. inbox[a] # <<>> => Tail(inbox[a]) \in Seq({"person", "timer"})
      BY <3>1
    <3> QED
      BY <1>i, <2>1, <3>2 DEF BeginTurn, EndTurn
  <2> QED
    BY <1>t, <2>1, <2>2, <2>3, <1>a DEF BeginTurn, EndTurn, TypeOK, SchedTypes
<1>3. ASSUME NEW a \in Agents, PersonSends(a) \/ Dismiss(a) \/ Hire(a) PROVE SchedTypes'
  <2>0. inbox \in [Agents -> Seq({"person", "timer"})]
    BY <1>i
  <2>1. CASE PersonSends(a)
    <3>1. Append(inbox[a], "person") \in Seq({"person", "timer"})
      BY <2>0
    <3>2. inbox' \in [Agents -> Seq({"person", "timer"})]
      BY <2>0, <2>1, <3>1 DEF PersonSends
    <3>3. sends' \in Nat
      BY <1>h, <2>1 DEF PersonSends
    <3> QED
      BY <1>t, <2>1, <3>2, <3>3, <1>a DEF PersonSends, TypeOK, SchedTypes
  <2>2. CASE Dismiss(a)
    <3>1. inbox' \in [Agents -> Seq({"person", "timer"})]
      BY <2>0, <2>2 DEF Dismiss
    <3>2. roster' \in [Agents -> 0 .. MaxHires] /\ state' \in [Agents -> {"idle", "working"}]
      BY <1>i, <1>r, <2>2 DEF Dismiss
    <3> QED
      BY <1>t, <2>2, <3>1, <3>2, <1>a DEF Dismiss, TypeOK, SchedTypes
  <2>3. CASE Hire(a)
    <3>1. hires' \in [Agents -> 1 .. MaxHires] /\ hires'[a] \in 1 .. MaxHires
      BY <1>r, <2>3 DEF Hire
    <3>2. roster' \in [Agents -> 0 .. MaxHires]
      BY <1>r, <2>3, <3>1 DEF Hire
    <3> QED
      BY <1>t, <2>3, <3>1, <3>2, <1>a DEF Hire, TypeOK, SchedTypes
  <2> QED
    BY <1>3, <2>1, <2>2, <2>3
<1>4. ASSUME NEW id \in Ids, NEW a \in Agents, NEW e \in Exprs, Plan(id, a, e) PROVE SchedTypes'
  <2>1. NextRun(e, zone, now) \in Nat
    BY <1>0, <1>s, <1>4, RunIs DEF Plan
  <2> DEFINE b == [pc |-> "planned", agent |-> a, hire |-> roster[a], expr |-> e,
                   at |-> NextRun(e, zone, now)]
  <2>2. a \in Agents /\ roster[a] \in 1 .. MaxHires
    BY <1>r, <1>4 DEF Plan
  <2>3. b \in Bookings /\ b \in PlannedBookings
    BY <1>4, <2>1, <2>2 DEF Bookings, PlannedBookings
  <2>4. book' = [book EXCEPT ![id] = b]
    BY <1>4 DEF Plan
  <2> HIDE DEF b
  <2>5. /\ book' \in [Ids -> Bookings]
        /\ \A i \in Ids : book'[i].pc = "planned" => book'[i] \in PlannedBookings
    BY <1>k, <2>3, <2>4
  <2> QED
    BY <1>t, <1>4, <1>a, <2>5 DEF Plan, TypeOK, SchedTypes
<1>5. ASSUME NEW id \in Ids, Refuse(id) PROVE SchedTypes'
  <2>1. Over \in Bookings /\ Over.pc # "planned"
    BY DEF Over, NotBooked, Bookings
  <2> QED
    BY <1>t, <1>5, <1>a, <2>1 DEF Refuse, TypeOK, SchedTypes
<1>6. ASSUME NEW id \in Ids, Add(id) PROVE SchedTypes'
  <2>1. Over \in Bookings /\ Over.pc # "planned"
    BY DEF Over, NotBooked, Bookings
  <2> DEFINE rec == [id |-> id, agent |-> book[id].agent, hire |-> book[id].hire,
                     expr |-> book[id].expr, next |-> book[id].at, on |-> TRUE, fired |-> Zero]
  <2>2. book[id] \in PlannedBookings
    BY <1>k, <1>6 DEF Add
  <2>r. rec \in Recs
    BY <2>2 DEF PlannedBookings, Recs
  <2>3. mem' = [mem EXCEPT ![id] = rec]
    BY <1>6 DEF Add
  <2> HIDE DEF rec
  <2>4. mem' \in [Ids -> Recs \union {Gone}]
    BY <1>0, <2>r, <2>3
  <2>5. disk' \in [Ids -> Recs \union {Gone}] /\ faults' \in Nat
    BY <1>0, <1>6, <2>4, SaveTypes DEF Add
  <2> QED
    BY <1>t, <1>6, <1>a, <2>1, <2>4, <2>5 DEF Add, TypeOK, SchedTypes
<1>7. ASSUME NEW id \in Ids, Delete(id) PROVE SchedTypes'
  <2>1. mem' \in [Ids -> Recs \union {Gone}] /\ disk' \in [Ids -> Recs \union {Gone}]
    <3>1. CASE UNCHANGED <<mem, disk>>
      BY <1>0, <3>1
    <3>2. CASE mem' = [mem EXCEPT ![id] = Gone] /\ disk' = mem'
      BY <1>0, <3>2
    <3> QED
      BY <1>7, <3>1, <3>2 DEF Delete
  <2>2. faults' \in Nat /\ cancelled' \subseteq Ids
    BY <1>h, <1>7 DEF Delete, Save
  <2> QED
    BY <1>t, <1>7, <1>a, <2>1, <2>2 DEF Delete, TypeOK, SchedTypes
<1>8. ASSUME NEW z \in Zones, EmptyZoneFile(z) PROVE SchedTypes'
  <2>1. rezone' \in Rezones
    BY <1>8 DEF EmptyZoneFile, NoMove, Rezones
  <2>2. moves' \in Nat /\ zone' \in Zones
    BY <1>h, <1>s, <1>8 DEF EmptyZoneFile
  <2> QED
    BY <1>t, <1>8, <1>a, <2>1, <2>2 DEF EmptyZoneFile, TypeOK, SchedTypes
<1>9. CASE WriteZoneFile \/ MoveEnds
  <2>1. rezone' \in Rezones
    BY <1>9 DEF WriteZoneFile, MoveEnds, NoMove, Rezones
  <2>2. zone' \in Zones
    BY <1>s, <1>9 DEF WriteZoneFile, MoveEnds, Rezones
  <2> QED
    BY <1>t, <1>9, <1>a, <2>1, <2>2 DEF WriteZoneFile, MoveEnds, TypeOK, SchedTypes
<1>10. CASE ListMoved
  <2> DEFINE todo == {<<id, NextRun(mem[id].expr, zone, now)>> : id \in {i \in Ids : Moved(i)}}
  <2>1. ASSUME NEW id \in Ids, Moved(id) PROVE NextRun(mem[id].expr, zone, now) \in Nat
    <3>1. mem[id] \in Recs /\ NextRun(mem[id].expr, zone, now) # Zero
      BY <1>0, <2>1 DEF Moved
    <3> QED
      BY <1>0, <1>s, <3>1, RunIs DEF Recs
  <2>2. todo \in SUBSET (Ids \X Nat)
    BY <2>1
  <2>3. rezone' = [NoMove EXCEPT !.pc = "move", !.todo = todo]
    BY <1>10 DEF ListMoved
  <2> HIDE DEF todo
  <2>4. rezone' \in Rezones
    BY <2>2, <2>3 DEF NoMove, Rezones
  <2> QED
    BY <1>t, <1>10, <1>a, <2>4 DEF ListMoved, TypeOK, SchedTypes
<1>11. CASE MoveOne
  <2>1. PICK m \in rezone.todo :
          /\ Update(m[1], [mem[m[1]] EXCEPT !.next = m[2]])
          /\ rezone' = [rezone EXCEPT !.todo = @ \ {m}]
    BY <1>11 DEF MoveOne
  <2>2. m[1] \in Ids /\ m[2] \in Nat
    BY <1>s DEF Rezones
  <2>3. mem[m[1]] # Gone => [mem[m[1]] EXCEPT !.next = m[2]] \in Recs
    BY <1>0, <2>2, EditTypes
  <2>4. /\ mem' \in [Ids -> Recs \union {Gone}]
        /\ disk' \in [Ids -> Recs \union {Gone}] /\ faults' \in Nat
    BY <1>0, <2>1, <2>2, <2>3, UpdateIs
  <2>5. rezone' \in Rezones
    BY <1>s, <2>1 DEF Rezones
  <2> QED
    BY <1>t, <1>11, <1>a, <2>4, <2>5 DEF MoveOne, TypeOK, SchedTypes
<1>12. CASE Sweep
  <2> DEFINE todo == {mem[id] : id \in {i \in Ids : Due(mem[i])}}
  <2>1. todo \in SUBSET Recs
    BY <1>0, DueIs
  <2>2. sweep' = [NoSweep EXCEPT !.pc = "next", !.now = now, !.todo = todo]
    BY <1>12 DEF Sweep
  <2> HIDE DEF todo
  <2>3. sweep' \in Sweeps /\ ~ Firing'
    BY <1>n, <2>1, <2>2 DEF NoSweep, Sweeps, Firing, Copies
  <2> QED
    BY <1>t, <1>12, <2>3 DEF Sweep, TypeOK, SchedTypes
<1>13. CASE SweepEnds
  BY <1>t, <1>13, SweepStepTypes DEF SweepEnds, TypeOK, SchedTypes
<1>14. CASE FireNext
  <2>1. PICK rec \in sweep.todo :
          sweep' = [sweep EXCEPT !.pc = "advance", !.cur = rec, !.todo = @ \ {rec},
                                 !.at = NextRun(rec.expr, zone, sweep.now)]
    BY <1>14 DEF FireNext
  <2>a. zone \in Zones /\ sweep \in Sweeps
    BY <1>s
  <2>2. rec \in Recs /\ rec.expr \in Exprs /\ sweep.now \in Nat
    BY <2>a DEF Sweeps, Recs
  <2> DEFINE at == NextRun(rec.expr, zone, sweep.now)
  <2>3. at \in Nat \union {Zero}
    BY <2>2, <2>a, RunIs
  <2>4. sweep' = [sweep EXCEPT !.pc = "advance", !.cur = rec, !.todo = @ \ {rec}, !.at = at]
    BY <2>1
  <2> HIDE DEF at
  <2>5. sweep' \in Sweeps /\ sweep'.cur = rec
    BY <1>s, <2>2, <2>3, <2>4 DEF Sweeps, Copies
  <2> QED
    BY <1>t, <1>14, <2>2, <2>5 DEF FireNext, TypeOK, SchedTypes
<1>b. Firing => sweep.cur.id \in Ids /\ sweep.cur.agent \in Agents
  BY <1>t DEF Recs
<1>c. ASSUME Firing, Disable(sweep.cur.id)
      PROVE  /\ mem' \in [Ids -> Recs \union {Gone}]
             /\ disk' \in [Ids -> Recs \union {Gone}] /\ faults' \in Nat
  <2>1. mem[sweep.cur.id] # Gone => [mem[sweep.cur.id] EXCEPT !.on = FALSE] \in Recs
    BY <1>0, <1>b, <1>c, EditTypes
  <2> QED
    BY <1>0, <1>b, <1>c, <2>1, UpdateIs DEF Disable
<1>15. CASE FireAdvance
  <2>0. Firing
    BY <1>15 DEF FireAdvance, Firing
  <2>1. CASE UNCHANGED store
    <3>1. sweep' \in Sweeps /\ (Firing' => sweep'.cur \in Recs)
      BY <1>15, <2>0, SweepStepTypes DEF FireAdvance
    <3> QED
      BY <1>t, <1>15, <2>1, <3>1 DEF FireAdvance, TypeOK, SchedTypes
  <2>2. CASE Disable(sweep.cur.id)
    <3>1. sweep' \in Sweeps /\ (Firing' => sweep'.cur \in Recs)
      BY <1>15, <2>0, SweepStepTypes DEF FireAdvance
    <3> QED
      BY <1>t, <1>15, <1>c, <2>0, <2>2, <3>1 DEF FireAdvance, TypeOK, SchedTypes
  <2>3. CASE ~ Last /\ Update(sweep.cur.id, [mem[sweep.cur.id] EXCEPT !.next = sweep.at])
    <3>1. sweep' \in Sweeps /\ (Firing' => sweep'.cur \in Recs)
      BY <1>15, <2>0, SweepStepTypes DEF FireAdvance
    <3>2. sweep.at \in Nat
      BY <1>s, <2>3 DEF Last, Sweeps
    <3>3. mem[sweep.cur.id] # Gone => [mem[sweep.cur.id] EXCEPT !.next = sweep.at] \in Recs
      BY <1>0, <1>b, <2>0, <3>2, EditTypes
    <3>4. /\ mem' \in [Ids -> Recs \union {Gone}]
          /\ disk' \in [Ids -> Recs \union {Gone}] /\ faults' \in Nat
      BY <1>0, <1>b, <2>0, <2>3, <3>3, UpdateIs
    <3> QED
      BY <1>t, <1>15, <3>1, <3>4 DEF FireAdvance, TypeOK, SchedTypes
  <2> QED
    BY <1>15, <2>1, <2>2, <2>3 DEF FireAdvance
<1>16. CASE FireRoster
  <2>0. Firing
    BY <1>16 DEF FireRoster, Firing
  <2>1. sweep' \in Sweeps /\ (Firing' => sweep'.cur \in Recs)
    BY <1>16, <2>0, SweepStepTypes DEF FireRoster
  <2>2. /\ mem' \in [Ids -> Recs \union {Gone}]
        /\ disk' \in [Ids -> Recs \union {Gone}] /\ faults' \in Nat
    BY <1>16, <1>0, <1>h, <1>c, <2>0 DEF FireRoster
  <2> QED
    BY <1>t, <1>16, <2>1, <2>2 DEF FireRoster, TypeOK, SchedTypes
<1>17. CASE FireIdle \/ SendFails
  <2>1. sweep' \in Sweeps /\ (Firing' => sweep'.cur \in Recs)
    BY <1>17, SweepStepTypes DEF FireIdle, SendFails, Firing
  <2> QED
    BY <1>t, <1>17, <2>1 DEF FireIdle, SendFails, TypeOK, SchedTypes
<1>18. CASE FireSend
  <2>0. Firing
    BY <1>18 DEF FireSend, Firing
  <2>1. sweep' \in Sweeps /\ (Firing' => sweep'.cur \in Recs)
    BY <1>18, <2>0, SweepStepTypes DEF FireSend
  <2>2. inbox' \in [Agents -> Seq({"person", "timer"})]
    BY <1>i, <1>18, <1>b, <2>0 DEF FireSend
  <2>3. runs' \in [Ids -> Nat] /\ strayed' \subseteq Ids
    <3>0. runs \in [Ids -> Nat] /\ sweep.cur.id \in Ids
      BY <1>b, <1>h, <2>0
    <3>1. runs[sweep.cur.id] + 1 \in Nat
      BY <3>0
    <3>2. runs' = [runs EXCEPT ![sweep.cur.id] = runs[sweep.cur.id] + 1]
      BY <1>18 DEF FireSend
    <3>3. runs' \in [Ids -> Nat]
      BY <3>0, <3>1, <3>2
    <3> QED
      BY <1>18, <1>b, <1>h, <2>0, <3>3 DEF FireSend
  <2> QED
    BY <1>t, <1>18, <2>1, <2>2, <2>3 DEF FireSend, TypeOK, SchedTypes
<1>19. CASE FireStamp
  <2>0. Firing
    BY <1>19 DEF FireStamp, Firing
  <2>1. sweep' \in Sweeps /\ (Firing' => sweep'.cur \in Recs)
    BY <1>19, <2>0, SweepStepTypes DEF FireStamp
  <2> DEFINE b == ~ Last
  <2>2. b \in BOOLEAN /\ sweep.now \in Nat
    BY <1>s DEF Sweeps
  <2>3. Update(sweep.cur.id, [mem[sweep.cur.id] EXCEPT !.fired = sweep.now, !.on = b])
    BY <1>19 DEF FireStamp
  <2> HIDE DEF b
  <2>4. mem[sweep.cur.id] # Gone
          => [mem[sweep.cur.id] EXCEPT !.fired = sweep.now, !.on = b] \in Recs
    BY <1>0, <1>b, <2>0, <2>2, EditTypes
  <2>5. /\ mem' \in [Ids -> Recs \union {Gone}]
        /\ disk' \in [Ids -> Recs \union {Gone}] /\ faults' \in Nat
    BY <1>0, <1>b, <2>0, <2>3, <2>4, UpdateIs
  <2> QED
    BY <1>t, <1>19, <2>1, <2>5 DEF FireStamp, TypeOK, SchedTypes
<1>20. CASE Crash
  <2>1. sweep' \in Sweeps /\ ~ Firing'
    BY <1>20, SweepStepTypes DEF Crash
  <2>2. Over \in Bookings /\ Over.pc # "planned"
    BY DEF Over, NotBooked, Bookings
  <2>3. /\ book' \in [Ids -> Bookings]
        /\ \A id \in Ids : book'[id].pc # "planned"
    BY <1>20, <1>k, <2>2 DEF Crash
  <2>4. NoMove \in Rezones
    BY DEF NoMove, Rezones
  <2>5. /\ mem' \in [Ids -> Recs \union {Gone}]
        /\ inbox' \in [Agents -> Seq({"person", "timer"})] /\ state' \in [Agents -> {"idle", "working"}]
    BY <1>20, <1>0 DEF Crash
  <2>6. crashes' \in Nat
    BY <1>20, <1>h DEF Crash
  <2>7. sweep' \in Sweeps /\ rezone' \in Rezones /\ up' \in BOOLEAN
    BY <1>20, <2>1, <2>4 DEF Crash
  <2>8. UNCHANGED <<now, zone, disk, faults, roster, hires, sends, moves, cancelled, runs, strayed>>
    BY <1>20 DEF Crash
  <2>9. TypeOK'
    BY <1>0, <2>3, <2>5, <2>6, <2>7, <2>8 DEF TypeOK
  <2> QED
    BY Zenon, <2>1, <2>9 DEF SchedTypes
<1>21. CASE Boot
  <2>1. mem' \in [Ids -> Recs \union {Gone}]
    BY <1>21, <1>0, RolledIs DEF Boot
  <2>2. disk' \in [Ids -> Recs \union {Gone}] /\ faults' \in Nat
    <3>1. disk \in [Ids -> Recs \union {Gone}] /\ faults \in Nat
      BY <1>0, <1>t, <1>21 DEF SchedTypes, TypeOK
    <3>2. SaveSome
      BY <1>21 DEF Boot
    <3>3. PICK moved \in SUBSET Ids :
            disk' = [id \in Ids |-> IF id \in moved THEN mem'[id] ELSE disk[id]]
      BY <3>2 DEF SaveSome
    <3>4. faults' \in {faults, faults + 1}
      BY <3>2 DEF SaveSome
    <3> QED
      BY <2>1, <3>1, <3>3, <3>4
  <2> QED
    BY <1>t, <1>21, <1>a, <2>1, <2>2 DEF Boot, TypeOK, SchedTypes
<1>22. CASE UNCHANGED vars
  BY <1>t, <1>22, <1>a DEF vars, TypeOK, SchedTypes
<1> QED
  BY <1>1, <1>2, <1>3, <1>4, <1>5, <1>6, <1>7, <1>8, <1>9, <1>10, <1>11, <1>12, <1>13, <1>14,
     <1>15, <1>16, <1>17, <1>18, <1>19, <1>20, <1>21, <1>22
     DEF Next, Person, Rezone, RunSchedules, Fire

\* The types, of every behaviour (Spec).
THEOREM SchedulesTypeCorrect == Spec => []TypeOK
<1>1. SchedTypes => TypeOK
  BY DEF SchedTypes
<1>2. SchedTypes /\ [Next]_vars => SchedTypes'
  BY SchedTypesStep
<1> QED
  BY SchedTypesInit, <1>1, <1>2, PTL DEF Spec

-----------------------------------------------------------------------------
(* What a step does to a schedule and to the sweep.                        *)

\* A record comes by Add, and by a start; it goes with Delete or the daemon; and
\* otherwise it is edited by the sweep that holds a copy of it or by a zone change.
\* The file holds what it held, or what the store holds now.
LEMMA RecordMoves ==
  ASSUME SchedTypes, [Next]_vars, NEW id \in Ids
  PROVE  /\ disk'[id] \in {disk[id], mem'[id]}
         /\ \/ mem'[id] = mem[id]
            \/ mem'[id] = Gone
            \/ Add(id) /\ mem'[id] = [id |-> id, agent |-> book[id].agent, hire |-> book[id].hire,
                                      expr |-> book[id].expr, next |-> book[id].at, on |-> TRUE,
                                      fired |-> Zero]
            \/ Boot /\ disk[id] # Gone /\ mem'[id] = RolledForward(disk[id])
            \/ /\ mem[id] # Gone
               /\ \/ MoveOne /\ \E t \in Nat : mem'[id] = [mem[id] EXCEPT !.next = t]
                  \/ /\ Firing /\ sweep.cur.id = id
                     /\ \/ FireAdvance /\ ~ Last /\ mem'[id] = [mem[id] EXCEPT !.next = sweep.at]
                        \/ FireOver /\ mem'[id] = [mem[id] EXCEPT !.on = FALSE]
                        \/ FireStamp /\ mem'[id] = [mem[id] EXCEPT !.fired = sweep.now, !.on = ~Last]
<1> DEFINE Kept == disk'[id] \in {disk[id], mem'[id]}
           Edited == \/ MoveOne /\ \E t \in Nat : mem'[id] = [mem[id] EXCEPT !.next = t]
                     \/ /\ Firing /\ sweep.cur.id = id
                        /\ \/ FireAdvance /\ ~ Last /\ mem'[id] = [mem[id] EXCEPT !.next = sweep.at]
                           \/ FireOver /\ mem'[id] = [mem[id] EXCEPT !.on = FALSE]
                           \/ FireStamp /\ mem'[id] = [mem[id] EXCEPT !.fired = sweep.now, !.on = ~Last]
           New == [id |-> id, agent |-> book[id].agent, hire |-> book[id].hire,
                   expr |-> book[id].expr, next |-> book[id].at, on |-> TRUE, fired |-> Zero]
           Goal == /\ Kept
                   /\ \/ mem'[id] = mem[id]
                      \/ mem'[id] = Gone
                      \/ Add(id) /\ mem'[id] = New
                      \/ Boot /\ disk[id] # Gone /\ mem'[id] = RolledForward(disk[id])
                      \/ mem[id] # Gone /\ Edited
<1> USE DEF store
<1>0. /\ TypeOK /\ now \in Nat /\ (Firing => sweep.cur \in Recs)
      /\ mem \in [Ids -> Recs \union {Gone}] /\ disk \in [Ids -> Recs \union {Gone}]
  <2>1. TypeOK /\ (Firing => sweep.cur \in Recs)
    BY DEF SchedTypes
  <2>2. /\ now \in Nat
        /\ mem \in [Ids -> Recs \union {Gone}] /\ disk \in [Ids -> Recs \union {Gone}]
    BY <2>1, TypeFacts
  <2> QED
    BY <2>1, <2>2
<1>a. ASSUME UNCHANGED <<mem, disk>> PROVE Goal
  BY <1>a
<1>b. ASSUME NEW i, NEW rec, Update(i, rec), i \in Ids
      PROVE  /\ disk'[id] \in {disk[id], mem'[id]}
             /\ mem'[id] = mem[id] \/ (i = id /\ mem[id] # Gone /\ mem'[id] = rec)
  <2>1. CASE mem[i] = Gone
    BY <1>b, <2>1 DEF Update
  <2>2. CASE mem[i] # Gone
    BY <1>b, <1>0, <2>2 DEF Update, Save
  <2> QED
    BY <2>1, <2>2
<1>c. Firing => sweep.cur.id \in Ids
  BY <1>0 DEF Recs
<1>1. CASE Tick \/ Agent
  BY <1>1, <1>a DEF Tick, Agent, BeginTurn, EndTurn
<1>2. ASSUME NEW a \in Agents, PersonSends(a) \/ Dismiss(a) \/ Hire(a) PROVE Goal
  BY <1>2, <1>a DEF PersonSends, Dismiss, Hire
<1>3. ASSUME NEW i \in Ids, NEW a \in Agents, NEW e \in Exprs, Plan(i, a, e) PROVE Goal
  BY <1>3, <1>a DEF Plan
<1>4. ASSUME NEW i \in Ids, Refuse(i) PROVE Goal
  BY <1>4, <1>a DEF Refuse
<1>5. ASSUME NEW i \in Ids, Add(i) PROVE Goal
  <2>1. disk'[id] \in {disk[id], mem'[id]}
    BY <1>5 DEF Add, Save
  <2>2. CASE i = id
    <3>1. mem'[id] = New
      BY <1>5, <1>0, <2>2 DEF Add
    <3> QED
      BY <1>5, <2>1, <2>2, <3>1
  <2>3. CASE i # id
    BY <1>5, <1>0, <2>1, <2>3 DEF Add
  <2> QED
    BY <2>2, <2>3
<1>6. ASSUME NEW i \in Ids, Delete(i) PROVE Goal
  BY <1>6, <1>0 DEF Delete
<1>7. ASSUME NEW z \in Zones, EmptyZoneFile(z) PROVE Goal
  BY <1>7, <1>a DEF EmptyZoneFile
<1>8. CASE WriteZoneFile \/ ListMoved \/ MoveEnds
  BY <1>8, <1>a DEF WriteZoneFile, ListMoved, MoveEnds
<1>9. CASE MoveOne
  <2>1. PICK m \in rezone.todo : Update(m[1], [mem[m[1]] EXCEPT !.next = m[2]])
    BY <1>9 DEF MoveOne
  <2>2. rezone \in Rezones
    BY <1>0, TypeFacts
  <2>a. rezone.todo \in SUBSET (Ids \X Nat)
    BY <2>2 DEF Rezones
  <2>3. m[1] \in Ids /\ m[2] \in Nat
    BY <2>a
  <2> QED
    BY <1>9, <1>b, <2>1, <2>3
<1>10. CASE Sweep \/ SweepEnds \/ FireNext \/ FireIdle \/ SendFails \/ FireSend
  BY <1>10, <1>a DEF Sweep, SweepEnds, FireNext, FireIdle, SendFails, FireSend
<1>11. CASE FireAdvance
  <2>1. Firing
    BY <1>11 DEF FireAdvance, Firing
  <2>2. CASE UNCHANGED store
    BY <1>a, <2>2
  <2>3. CASE ~ Last /\ Update(sweep.cur.id, [mem[sweep.cur.id] EXCEPT !.next = sweep.at])
    BY <1>11, <1>b, <1>c, <2>1, <2>3
  <2>4. CASE Disable(sweep.cur.id) /\ FireOver
    <3>1. /\ disk'[id] \in {disk[id], mem'[id]}
          /\ mem'[id] = mem[id] \/ (sweep.cur.id = id /\ mem[id] # Gone
                                   /\ mem'[id] = [mem[sweep.cur.id] EXCEPT !.on = FALSE])
      BY <1>b, <1>c, <2>1, <2>4 DEF Disable
    <3> QED
      BY <2>1, <2>4, <3>1
  <2> QED
    BY <1>11, <2>2, <2>3, <2>4 DEF FireAdvance
<1>12. CASE FireRoster
  <2>1. Firing
    BY <1>12 DEF FireRoster, Firing
  <2>2. CASE UNCHANGED store
    BY <1>a, <2>2
  <2>3. CASE Disable(sweep.cur.id) /\ FireOver
    <3>1. /\ disk'[id] \in {disk[id], mem'[id]}
          /\ mem'[id] = mem[id] \/ (sweep.cur.id = id /\ mem[id] # Gone
                                   /\ mem'[id] = [mem[sweep.cur.id] EXCEPT !.on = FALSE])
      BY <1>b, <1>c, <2>1, <2>3 DEF Disable
    <3> QED
      BY <2>1, <2>3, <3>1
  <2> QED
    BY <1>12, <2>2, <2>3 DEF FireRoster
<1>13. CASE FireStamp
  <2>1. Firing /\ Update(sweep.cur.id, [mem[sweep.cur.id] EXCEPT !.fired = sweep.now, !.on = ~Last])
    BY <1>13 DEF FireStamp, Firing
  <2>2. /\ disk'[id] \in {disk[id], mem'[id]}
        /\ mem'[id] = mem[id]
             \/ (sweep.cur.id = id /\ mem[id] # Gone
                 /\ mem'[id] = [mem[sweep.cur.id] EXCEPT !.fired = sweep.now, !.on = ~Last])
    BY <1>b, <1>c, <2>1
  <2> QED
    BY <1>13, <2>1, <2>2
<1>14. CASE Crash
  BY <1>14 DEF Crash
<1>15. CASE Boot
  <2>1. disk'[id] \in {disk[id], mem'[id]}
    BY <1>15 DEF Boot, SaveSome
  <2> QED
    BY <1>15, <2>1 DEF Boot
<1>16. CASE UNCHANGED vars
  BY <1>16, <1>a DEF vars
<1> QED
  BY <1>1, <1>2, <1>3, <1>4, <1>5, <1>6, <1>7, <1>8, <1>9, <1>10, <1>11, <1>12, <1>13, <1>14,
     <1>15, <1>16
     DEF Next, Person, Rezone, RunSchedules, Fire

\* The sweep begins with copies, takes them one by one, and steps through fire
\* with one of them; it ends, or stops with the daemon.
LEMMA SweepMoves ==
  ASSUME SchedTypes, [Next]_vars
  PROVE  \/ sweep' = sweep
         \/ sweep' = NoSweep /\ (sweep.pc = "next" \/ Crash)
         \/ Sweep
         \/ FireNext
         \/ /\ Firing
            /\ sweep'.todo = sweep.todo /\ sweep'.now = sweep.now
            /\ \/ sweep'.pc = "next" /\ (sweep.pc = "stamp" => FireStamp)
               \/ /\ sweep'.pc \in {"roster", "idle?", "send", "stamp"}
                  /\ sweep'.cur = sweep.cur /\ sweep'.at = sweep.at
                  /\ sweep.pc # "stamp" /\ ~ FireStamp
                  /\ sweep.pc = "advance" => FireAdvance
                  /\ sweep'.pc = "stamp" => FireSend
<1> DEFINE Same == Firing /\ sweep'.todo = sweep.todo /\ sweep'.now = sweep.now
           On == /\ sweep'.pc \in {"roster", "idle?", "send", "stamp"}
                 /\ sweep'.cur = sweep.cur /\ sweep'.at = sweep.at
                 /\ sweep.pc # "stamp" /\ ~ FireStamp
                 /\ sweep.pc = "advance" => FireAdvance
                 /\ sweep'.pc = "stamp" => FireSend
           Out == sweep'.pc = "next" /\ (sweep.pc = "stamp" => FireStamp)
           Goal == \/ sweep' = sweep \/ Sweep \/ FireNext
                   \/ sweep' = NoSweep /\ (sweep.pc = "next" \/ Crash)
                   \/ Same /\ (Out \/ On)
<1>0. sweep \in Sweeps
  BY DEF SchedTypes, TypeOK
<1>a. ASSUME UNCHANGED sweep PROVE Goal
  BY <1>a
<1>b. ASSUME Firing, FireOver, sweep.pc = "stamp" => FireStamp PROVE Goal
  <2>1. Same /\ Out
    BY <1>0, <1>b DEF FireOver, Sweeps
  <2> QED
    BY <2>1
<1>c. ASSUME NEW step, SweepStep(step)
      PROVE  /\ sweep'.pc = step /\ sweep'.todo = sweep.todo /\ sweep'.now = sweep.now
             /\ sweep'.cur = sweep.cur /\ sweep'.at = sweep.at
  BY <1>0, <1>c DEF SweepStep, Sweeps
<1>1. CASE Tick \/ Agent
  BY <1>1, <1>a DEF Tick, Agent, BeginTurn, EndTurn
<1>2. ASSUME NEW a \in Agents, PersonSends(a) \/ Dismiss(a) \/ Hire(a) PROVE Goal
  BY <1>2, <1>a DEF PersonSends, Dismiss, Hire
<1>3. ASSUME NEW i \in Ids, NEW a \in Agents, NEW e \in Exprs, Plan(i, a, e) PROVE Goal
  BY <1>3, <1>a DEF Plan
<1>4. ASSUME NEW i \in Ids, Refuse(i) \/ Add(i) \/ Delete(i) PROVE Goal
  BY <1>4, <1>a DEF Refuse, Add, Delete
<1>5. ASSUME NEW z \in Zones, EmptyZoneFile(z) PROVE Goal
  BY <1>5, <1>a DEF EmptyZoneFile
<1>6. CASE Rezone
  BY <1>6, <1>a DEF Rezone, WriteZoneFile, ListMoved, MoveOne, MoveEnds
<1>7. CASE Sweep \/ FireNext
  BY <1>7
<1>8. CASE SweepEnds \/ Crash
  BY <1>8 DEF SweepEnds, Crash
<1>9. CASE FireAdvance
  <2>1. Firing /\ ~ FireStamp /\ sweep.pc = "advance"
    BY <1>9 DEF FireAdvance, Firing, FireStamp
  <2>2. FireOver \/ SweepStep("roster")
    BY <1>9 DEF FireAdvance
  <2> QED
    BY <1>9, <1>b, <1>c, <2>1, <2>2
<1>10. CASE FireRoster \/ FireIdle
  <2>1. Firing /\ ~ FireStamp /\ sweep.pc \notin {"advance", "stamp"}
    BY <1>10 DEF FireRoster, FireIdle, Firing, FireStamp
  <2>2. FireOver \/ SweepStep("idle?") \/ SweepStep("send")
    BY <1>10 DEF FireRoster, FireIdle
  <2> QED
    BY <1>b, <1>c, <2>1, <2>2
<1>11. CASE SendFails
  BY <1>11, <1>b DEF SendFails, Firing
<1>12. CASE FireSend
  <2>1. Firing /\ ~ FireStamp /\ sweep.pc \notin {"advance", "stamp"} /\ SweepStep("stamp")
    BY <1>12 DEF FireSend, Firing, FireStamp
  <2> QED
    BY <1>12, <1>c, <2>1
<1>13. CASE FireStamp
  BY <1>13, <1>b DEF FireStamp, Firing
<1>14. CASE Boot \/ UNCHANGED vars
  BY <1>14, <1>a DEF Boot, vars
<1> QED
  BY <1>1, <1>2, <1>3, <1>4, <1>5, <1>6, <1>7, <1>8, <1>9, <1>10, <1>11, <1>12, <1>13, <1>14
     DEF Next, Person, RunSchedules, Fire

\* The clock, the agents, a zone change and a start leave the bookings alone.
LEMMA Unbooked ==
  ASSUME Tick \/ Agent \/ Rezone \/ Boot \/ UNCHANGED vars
  PROVE  UNCHANGED book
<1>1. CASE Tick
  BY <1>1 DEF Tick
<1>2. CASE Agent
  BY <1>2 DEF Agent, BeginTurn, EndTurn
<1>3. CASE Rezone
  BY <1>3 DEF Rezone, WriteZoneFile, ListMoved, MoveOne, MoveEnds
<1>4. CASE Boot
  BY <1>4 DEF Boot
<1>5. CASE UNCHANGED vars
  BY <1>5 DEF vars
<1> QED
  BY <1>1, <1>2, <1>3, <1>4, <1>5

\* A booking is taken once.
LEMMA OverStays ==
  ASSUME SchedTypes, [Next]_vars, NEW id \in Ids, book[id].pc = "over"
  PROVE  book'[id].pc = "over" /\ ~ Add(id)
<1>0. book \in [Ids -> Bookings]
  BY TypeFacts DEF SchedTypes
<1>1. Over.pc = "over"
  BY DEF Over, NotBooked
<1>2. ~ Add(id)
  BY DEF Add
<1>3. ASSUME UNCHANGED book PROVE book'[id].pc = "over"
  BY <1>3
<1>4. CASE Tick \/ Agent \/ Rezone \/ Boot \/ UNCHANGED vars
  <2>1. UNCHANGED book
    BY Zenon, <1>4, Unbooked
  <2> QED
    BY <1>2, <1>3, <2>1
<1>5. CASE RunSchedules
  BY <1>5, <1>2
     DEF RunSchedules, Sweep, SweepEnds, Fire, FireNext, FireAdvance, FireRoster, FireIdle,
         SendFails, FireSend, FireStamp
<1>6. ASSUME NEW a \in Agents, PersonSends(a) \/ Dismiss(a) \/ Hire(a) PROVE book'[id].pc = "over"
  BY <1>6 DEF PersonSends, Dismiss, Hire
<1>7. ASSUME NEW i \in Ids, NEW a \in Agents, NEW e \in Exprs, Plan(i, a, e)
      PROVE  book'[id].pc = "over"
  BY <1>0, <1>7 DEF Plan
<1>8. ASSUME NEW i \in Ids, Refuse(i) \/ Add(i) \/ Delete(i) PROVE book'[id].pc = "over"
  BY <1>0, <1>1, <1>8 DEF Refuse, Add, Delete
<1>9. ASSUME NEW z \in Zones, EmptyZoneFile(z) PROVE book'[id].pc = "over"
  BY <1>9 DEF EmptyZoneFile
<1>10. CASE Crash
  BY <1>10, <1>1, <1>2 DEF Crash
<1> QED
  BY <1>2, <1>4, <1>5, <1>6, <1>7, <1>8, <1>9, <1>10 DEF Next, Person

\* The clock does not go back; the daemon ends and starts; without a zone change
\* there is the one zone; only fire gives an agent its work.
LEMMA OthersMove ==
  ASSUME SchedTypes, [Next]_vars
  PROVE  /\ now' >= now
         /\ up' = up \/ Crash \/ Boot
         /\ crashes' = 0 => crashes = 0 /\ ~ Crash
         /\ moves' = 0 => /\ moves = 0
                          /\ rezone.pc = "idle" => zone' = zone /\ (rezone' = rezone \/ rezone' = NoMove)
         /\ runs' = runs \/ FireSend
<1> DEFINE Goal == /\ now' >= now
                   /\ up' = up \/ Crash \/ Boot
                   /\ crashes' = 0 => crashes = 0 /\ ~ Crash
                   /\ moves' = 0 => /\ moves = 0
                                    /\ rezone.pc = "idle"
                                         => zone' = zone /\ (rezone' = rezone \/ rezone' = NoMove)
                   /\ runs' = runs \/ FireSend
<1>0. now \in Nat /\ crashes \in Nat /\ moves \in Nat
  BY SchedulesAssumption DEF SchedTypes, TypeOK
<1>a. Crash => crashes' = crashes + 1 /\ crashes' # 0
  BY <1>0 DEF Crash
<1>1. CASE Tick
  BY <1>0, <1>a, <1>1 DEF Tick, hist
<1>2. CASE Agent
  BY <1>0, <1>a, <1>2 DEF Agent, BeginTurn, EndTurn, hist
<1>3. ASSUME NEW a \in Agents, PersonSends(a) \/ Dismiss(a) \/ Hire(a) PROVE Goal
  BY <1>0, <1>a, <1>3 DEF PersonSends, Dismiss, Hire, hist
<1>4. ASSUME NEW i \in Ids, NEW a \in Agents, NEW e \in Exprs, Plan(i, a, e) PROVE Goal
  BY <1>0, <1>a, <1>4 DEF Plan, hist
<1>5. ASSUME NEW i \in Ids, Refuse(i) \/ Add(i) \/ Delete(i) PROVE Goal
  BY <1>0, <1>a, <1>5 DEF Refuse, Add, Delete, hist
<1>6. ASSUME NEW z \in Zones, EmptyZoneFile(z) PROVE Goal
  BY <1>0, <1>a, <1>6 DEF EmptyZoneFile, hist
<1>7. CASE Rezone
  BY <1>0, <1>a, <1>7 DEF Rezone, WriteZoneFile, ListMoved, MoveOne, MoveEnds, hist
<1>b. ASSUME UNCHANGED <<now, up, zone, rezone, moves, crashes, runs>> PROVE Goal
  BY <1>0, <1>a, <1>b
<1>8. CASE Sweep \/ SweepEnds \/ FireNext \/ FireAdvance \/ FireRoster \/ FireIdle \/
           SendFails \/ FireStamp
  <2>1. UNCHANGED <<now, up, zone, rezone, moves, crashes, runs>>
    BY <1>8
       DEF Sweep, SweepEnds, FireNext, FireAdvance, FireRoster, FireIdle, SendFails, FireStamp, hist
  <2> QED
    BY <1>b, <2>1
<1>9. CASE FireSend
  BY <1>0, <1>a, <1>9 DEF FireSend
<1>10. CASE Crash
  <2>1. now' = now /\ runs' = runs
    BY <1>10 DEF Crash, hist
  <2>2. moves' = moves /\ zone' = zone /\ rezone' = NoMove
    BY <1>10 DEF Crash
  <2> QED
    BY <1>0, <1>a, <1>10, <2>1, <2>2
<1>11. CASE Boot
  <2>1. UNCHANGED <<now, zone, rezone, moves, crashes, runs>>
    BY <1>11 DEF Boot, hist
  <2> QED
    BY <1>0, <1>a, <1>11, <2>1
<1>12. CASE UNCHANGED vars
  BY <1>0, <1>a, <1>12 DEF vars, hist
<1> QED
  BY <1>1, <1>2, <1>3, <1>4, <1>5, <1>6, <1>7, <1>8, <1>9, <1>10, <1>11, <1>12
     DEF Next, Person, RunSchedules, Fire

-----------------------------------------------------------------------------
(* The copies of the sweep.                                                *)

\* A copy is of a schedule that was booked, and whose expression never changes.
Copied(rec) == /\ book[rec.id].pc = "over"
               /\ mem[rec.id] # Gone => mem[rec.id].expr = rec.expr

\* The store is keyed by id; the sweep holds one copy of a schedule at most.
CopyInv ==
  /\ \A id \in Ids : /\ mem[id] # Gone => mem[id].id = id
                     /\ disk[id] # Gone => disk[id].id = id
  /\ sweep.pc = "idle" => sweep.todo = {}
  /\ ~ up => sweep.pc = "idle"
  /\ \A rec \in sweep.todo : Copied(rec)
  /\ \A rec, other \in sweep.todo : rec.id = other.id => rec = other
  /\ Firing => /\ Copied(sweep.cur)
               /\ \A rec \in sweep.todo : rec.id # sweep.cur.id

\* A daemon that starts has no sweep and an empty store.
LEMMA CopyInvInit == Init => CopyInv
BY DEF Init, CopyInv, NoSweep, Firing

\* What the sweep does next: the fields of FireNext and of Sweep.
LEMMA FireNextIs ==
  ASSUME SchedTypes, FireNext
  PROVE  \E rec \in sweep.todo :
           /\ sweep'.pc = "advance" /\ sweep'.cur = rec /\ sweep'.todo = sweep.todo \ {rec}
           /\ sweep'.now = sweep.now /\ sweep'.at = NextRun(rec.expr, zone, sweep.now)
<1>1. PICK rec \in sweep.todo :
        sweep' = [sweep EXCEPT !.pc = "advance", !.cur = rec, !.todo = @ \ {rec},
                               !.at = NextRun(rec.expr, zone, sweep.now)]
  BY DEF FireNext
<1> DEFINE at == NextRun(rec.expr, zone, sweep.now)
<1>2. sweep' = [sweep EXCEPT !.pc = "advance", !.cur = rec, !.todo = @ \ {rec}, !.at = at]
  BY <1>1
<1> HIDE DEF at
<1>3. sweep \in Sweeps
  BY DEF SchedTypes, TypeOK
<1>4. /\ sweep'.pc = "advance" /\ sweep'.cur = rec /\ sweep'.todo = sweep.todo \ {rec}
      /\ sweep'.now = sweep.now /\ sweep'.at = at
  BY <1>2, <1>3 DEF Sweeps
<1> QED
  BY <1>4 DEF at

\* Sweep takes the copies of what is due, and the time at which it does.
LEMMA SweepIs ==
  ASSUME SchedTypes, Sweep
  PROVE  /\ sweep'.pc = "next" /\ sweep'.now = now /\ ~ Firing'
         /\ sweep'.todo = {mem[id] : id \in {i \in Ids : Due(mem[i])}}
<1> DEFINE todo == {mem[id] : id \in {i \in Ids : Due(mem[i])}}
<1>1. sweep' = [NoSweep EXCEPT !.pc = "next", !.now = now, !.todo = todo]
  BY DEF Sweep
<1> HIDE DEF todo
<1>2. sweep'.pc = "next" /\ sweep'.now = now /\ sweep'.todo = todo
  BY <1>1 DEF NoSweep
<1> QED
  BY <1>2 DEF todo, Firing

\* A copy stays one of the schedule it was made of.
LEMMA CopiedStays ==
  ASSUME SchedTypes, CopyInv, [Next]_vars, NEW rec \in Recs, Copied(rec), up
  PROVE  Copied(rec)'
<1>0. rec.id \in Ids /\ mem \in [Ids -> Recs \union {Gone}]
  BY DEF Recs, SchedTypes, TypeOK
<1>1. book'[rec.id].pc = "over" /\ ~ Add(rec.id)
  BY <1>0, OverStays DEF Copied
<1>2. ~ Boot
  BY DEF Boot
<1>3. mem[rec.id] # Gone => mem[rec.id] \in Recs
  BY <1>0
<1>4. ASSUME mem'[rec.id] # Gone PROVE mem[rec.id] # Gone /\ mem'[rec.id].expr = mem[rec.id].expr
  <2>1. CASE mem'[rec.id] = mem[rec.id]
    BY <1>4, <2>1
  <2>2. CASE /\ mem[rec.id] # Gone
             /\ \/ \E t \in Nat : mem'[rec.id] = [mem[rec.id] EXCEPT !.next = t]
                \/ mem'[rec.id] = [mem[rec.id] EXCEPT !.next = sweep.at]
                \/ mem'[rec.id] = [mem[rec.id] EXCEPT !.on = FALSE]
                \/ mem'[rec.id] = [mem[rec.id] EXCEPT !.fired = sweep.now, !.on = ~Last]
    BY <1>3, <2>2 DEF Recs
  <2> QED
    BY <1>0, <1>1, <1>2, <1>4, <2>1, <2>2, RecordMoves
<1> QED
  BY <1>1, <1>4 DEF Copied

\* Every step of the store, the sweep and the daemon keeps it.
LEMMA CopyInvStep ==
  ASSUME SchedTypes, IInv, CopyInv, [Next]_vars
  PROVE  CopyInv'
<1>0. /\ sweep \in Sweeps /\ (Firing => sweep.cur \in Recs)
      /\ mem \in [Ids -> Recs \union {Gone}] /\ disk \in [Ids -> Recs \union {Gone}]
  BY DEF SchedTypes, TypeOK
<1>1. ASSUME NEW id \in Ids
      PROVE  /\ mem'[id] # Gone => mem'[id].id = id
             /\ disk'[id] # Gone => disk'[id].id = id
  <2>1. mem[id] # Gone => mem[id] \in Recs /\ mem[id].id = id
    BY <1>0 DEF CopyInv
  <2>2. disk[id] # Gone => disk[id] \in Recs /\ disk[id].id = id
    BY <1>0 DEF CopyInv
  <2>3. ASSUME mem'[id] # Gone PROVE mem'[id].id = id
    <3>1. CASE mem'[id] = mem[id]
      BY <2>1, <2>3, <3>1
    <3>2. CASE /\ mem[id] # Gone
               /\ \/ \E t \in Nat : mem'[id] = [mem[id] EXCEPT !.next = t]
                  \/ mem'[id] = [mem[id] EXCEPT !.next = sweep.at]
                  \/ mem'[id] = [mem[id] EXCEPT !.on = FALSE]
                  \/ mem'[id] = [mem[id] EXCEPT !.fired = sweep.now, !.on = ~Last]
      BY <2>1, <3>2 DEF Recs
    <3>3. CASE disk[id] # Gone /\ mem'[id] = RolledForward(disk[id])
      BY <2>2, <3>3, RolledIs DEF SchedTypes
    <3>4. CASE mem'[id] = [id |-> id, agent |-> book[id].agent, hire |-> book[id].hire,
                           expr |-> book[id].expr, next |-> book[id].at, on |-> TRUE, fired |-> Zero]
      BY <3>4
    <3> QED
      BY <2>3, <3>1, <3>2, <3>3, <3>4, RecordMoves
  <2> QED
    BY <2>2, <2>3, RecordMoves
<1>2. CASE sweep' = NoSweep
  <2>1. sweep'.pc = "idle" /\ sweep'.todo = {}
    BY <1>2 DEF NoSweep
  <2> QED
    BY <1>1, <2>1 DEF CopyInv, Firing
<1>3. CASE sweep' = sweep /\ ~ up
  <2>1. sweep.pc = "idle" /\ sweep.todo = {}
    BY <1>3 DEF CopyInv
  <2> QED
    BY <1>1, <1>3, <2>1 DEF CopyInv, Firing
<1>4. up \/ sweep' = sweep
  <2>1. ~ up => ~ Firing /\ sweep.todo = {} /\ ~ Sweep
    BY DEF CopyInv, Firing, Sweep
  <2>2. ~ up => ~ FireNext
    BY <2>1 DEF FireNext
  <2>3. ~ up => ~ Crash /\ ~ SweepEnds
    BY DEF Crash, SweepEnds, CopyInv
  <2>4. sweep' = NoSweep /\ ~ up => sweep' = sweep
    <3>1. SUFFICES ASSUME sweep' = NoSweep, ~ up PROVE sweep' = sweep
      OBVIOUS
    <3>2. CASE Tick \/ Agent \/ Rezone \/ Boot \/ UNCHANGED vars
      BY <3>2
         DEF Tick, Agent, BeginTurn, EndTurn, Rezone, WriteZoneFile, ListMoved, MoveOne, MoveEnds,
             Boot, vars
    <3>3. CASE Person
      BY Zenon, <3>3
         DEF Person, PersonSends, Dismiss, Hire, Plan, Refuse, Add, Delete, EmptyZoneFile
    <3>4. ~ Fire
      BY <3>1 DEF Fire, FireNext, FireAdvance, FireRoster, FireIdle, SendFails, FireSend, FireStamp,
                  CopyInv
    <3> QED
      BY <2>1, <2>3, <3>1, <3>2, <3>3, <3>4 DEF Next, RunSchedules
  <2> QED
    BY <2>1, <2>2, <2>4, SweepMoves
<1>c. ASSUME up, sweep' # NoSweep PROVE up'
  <2>1. ~ Crash
    BY <1>c DEF Crash
  <2> QED
    BY <1>c, <2>1, OthersMove DEF Boot
<1> DEFINE Stays(rec) == /\ book'[rec.id].pc = "over"
                         /\ mem'[rec.id] # Gone => mem'[rec.id].expr = rec.expr
<1>a. ASSUME up, NEW rec \in sweep.todo PROVE Stays(rec)
  <2>1. rec \in Recs /\ Copied(rec)
    BY <1>0 DEF Sweeps, CopyInv
  <2> QED
    BY <1>a, <2>1, CopiedStays DEF Copied
<1>b. ASSUME up, Firing PROVE Stays(sweep.cur)
  <2>1. sweep.cur \in Recs /\ Copied(sweep.cur)
    BY <1>0, <1>b DEF CopyInv
  <2>2. \A rec \in Recs : Copied(rec) => Stays(rec)
    BY <1>b, CopiedStays DEF Copied
  <2> QED
    BY <2>1, <2>2
<1>5. CASE up /\ sweep' # NoSweep
  <2>0. up'
    BY <1>5, <1>c
  <2>1. CASE sweep' = sweep
    BY <1>1, <1>5, <1>a, <1>b, <2>0, <2>1 DEF CopyInv, Copied, Firing
  <2>2. CASE Sweep
    <3>1. ASSUME NEW rec \in sweep'.todo
          PROVE  \E id \in Ids : rec = mem[id] /\ mem[id] # Gone /\ rec.id = id
      BY <1>0, <2>2, SweepIs DEF Due, CopyInv
    <3>2. ASSUME NEW rec \in sweep'.todo PROVE Stays(rec)
      <4>1. PICK id \in Ids : rec = mem[id] /\ mem[id] # Gone /\ rec.id = id
        BY <3>1
      <4>2. UNCHANGED <<mem, book>> /\ book[id].pc = "over"
        BY <2>2, <4>1 DEF Sweep, store, IInv, BookedOnce
      <4> QED
        BY <4>1, <4>2
    <3>3. \A rec, other \in sweep'.todo : rec.id = other.id => rec = other
      BY <3>1
    <3>4. sweep'.pc = "next"
      BY <2>2, SweepIs
    <3> QED
      BY <1>1, <2>0, <3>2, <3>3, <3>4 DEF CopyInv, Copied, Firing
  <2>3. CASE FireNext
    <3>1. PICK rec \in sweep.todo :
            sweep'.pc = "advance" /\ sweep'.cur = rec /\ sweep'.todo = sweep.todo \ {rec}
      BY <2>3, FireNextIs
    <3>2. \A r \in sweep.todo : Stays(r)
      BY <1>5, <1>a
    <3>3. \A r, other \in sweep.todo : r.id = other.id => r = other
      BY DEF CopyInv
    <3> QED
      BY <1>1, <2>0, <3>1, <3>2, <3>3 DEF CopyInv, Copied, Firing
  <2>4. CASE /\ Firing
             /\ sweep'.todo = sweep.todo
             /\ \/ sweep'.pc = "next"
                \/ sweep'.pc # "idle" /\ sweep'.cur = sweep.cur
    <3>1. \A r \in sweep.todo : Stays(r)
      BY <1>5, <1>a
    <3>2. Stays(sweep.cur) /\ \A r \in sweep.todo : r.id # sweep.cur.id
      BY <1>5, <1>b, <2>4 DEF CopyInv
    <3>3. \A r, other \in sweep.todo : r.id = other.id => r = other
      BY DEF CopyInv
    <3>4. sweep'.pc # "idle"
      BY <2>4
    <3> QED
      BY <1>1, <2>0, <2>4, <3>1, <3>2, <3>3, <3>4 DEF CopyInv, Copied, Firing
  <2> QED
    BY <1>5, <2>1, <2>2, <2>3, <2>4, SweepMoves
<1> QED
  BY <1>2, <1>3, <1>4, <1>5

-----------------------------------------------------------------------------
(* What has run is not due again.                                          *)

\* The next run of a schedule that is on lies ahead of its last one.
Ahead(rec) == rec.on /\ rec.fired # Zero => rec.next > rec.fired

\* Nothing has fired later than the clock, nor than the sweep that goes on; the run
\* after this one lies ahead of the sweep; and, for one zone, it is in the store
\* once fire has advanced it.
FiredInv ==
  /\ sweep.now <= now
  /\ \A id \in Ids :
       /\ mem[id] # Gone => /\ mem[id].fired <= now
                            /\ sweep.pc # "idle" => mem[id].fired <= sweep.now
       /\ disk[id] # Gone => disk[id].fired <= now
  /\ Firing => sweep.at = Zero \/ sweep.at > sweep.now
  /\ moves = 0 =>
       /\ rezone = NoMove /\ zone = UTC
       /\ Firing /\ sweep.pc # "advance" /\ sweep.at # Zero /\ mem[sweep.cur.id] # Gone
            => mem[sweep.cur.id].next = sweep.at
       /\ \A id \in Ids : /\ mem[id] # Gone => Ahead(mem[id])
                          /\ disk[id] # Gone => Ahead(disk[id])

\* Nothing is booked, under way or moved when the daemon first starts.
LEMMA FiredInvInit == Init => FiredInv
BY DEF Init, FiredInv, NoSweep, Firing

\* Who is under way is one of a daemon that is up, and of a schedule whose booking
\* is behind it.
LEMMA FiringIs ==
  ASSUME SchedTypes, CopyInv, [Next]_vars, Firing
  PROVE  /\ up /\ ~ Boot
         /\ sweep.cur \in Recs /\ sweep.cur.id \in Ids
         /\ ~ Add(sweep.cur.id)
<1>1. up /\ ~ Boot
  BY DEF CopyInv, Firing, Boot
<1>2. sweep.cur \in Recs /\ sweep.cur.id \in Ids
  BY DEF SchedTypes, Recs
<1>3. ~ Add(sweep.cur.id)
  BY <1>2, OverStays DEF CopyInv, Copied
<1> QED
  BY <1>1, <1>2, <1>3

\* The edits that a step makes of a record, field by field.
LEMMA EditIs ==
  ASSUME SchedTypes, [Next]_vars, NEW id \in Ids, mem'[id] # Gone
  PROVE  \/ mem'[id] = mem[id]
         \/ /\ Add(id)
            /\ mem'[id].fired = Zero /\ mem'[id].on
            /\ mem'[id].expr = book[id].expr /\ mem'[id].next = book[id].at
         \/ /\ Boot /\ disk[id] # Gone
            /\ mem'[id].fired = disk[id].fired /\ mem'[id].on = disk[id].on
            /\ mem'[id].next = disk[id].next \/ mem'[id].next > now
         \/ /\ mem[id] # Gone /\ mem'[id].expr = mem[id].expr
            /\ \/ MoveOne /\ mem'[id].fired = mem[id].fired /\ mem'[id].on = mem[id].on
               \/ /\ Firing /\ sweep.cur.id = id
                  /\ \/ /\ FireAdvance /\ ~ Last /\ mem'[id].next = sweep.at
                        /\ mem'[id].fired = mem[id].fired /\ mem'[id].on = mem[id].on
                     \/ /\ FireOver /\ ~ mem'[id].on
                        /\ mem'[id].fired = mem[id].fired /\ mem'[id].next = mem[id].next
                     \/ /\ FireStamp /\ mem'[id].fired = sweep.now /\ mem'[id].on = ~ Last
                        /\ mem'[id].next = mem[id].next
<1> DEFINE Moved1 == /\ mem[id] # Gone /\ mem'[id].expr = mem[id].expr
                     /\ MoveOne /\ mem'[id].fired = mem[id].fired /\ mem'[id].on = mem[id].on
           Adv == /\ mem[id] # Gone /\ mem'[id].expr = mem[id].expr
                  /\ Firing /\ sweep.cur.id = id
                  /\ FireAdvance /\ ~ Last /\ mem'[id].next = sweep.at
                  /\ mem'[id].fired = mem[id].fired /\ mem'[id].on = mem[id].on
           Off == /\ mem[id] # Gone /\ mem'[id].expr = mem[id].expr
                  /\ Firing /\ sweep.cur.id = id
                  /\ FireOver /\ ~ mem'[id].on
                  /\ mem'[id].fired = mem[id].fired /\ mem'[id].next = mem[id].next
           Stamp == /\ mem[id] # Gone /\ mem'[id].expr = mem[id].expr
                    /\ Firing /\ sweep.cur.id = id
                    /\ FireStamp /\ mem'[id].fired = sweep.now /\ mem'[id].on = ~ Last
                    /\ mem'[id].next = mem[id].next
           New == /\ Add(id)
                  /\ mem'[id].fired = Zero /\ mem'[id].on
                  /\ mem'[id].expr = book[id].expr /\ mem'[id].next = book[id].at
           Started == /\ Boot /\ disk[id] # Gone
                      /\ mem'[id].fired = disk[id].fired /\ mem'[id].on = disk[id].on
                      /\ mem'[id].next = disk[id].next \/ mem'[id].next > now
<1>0. /\ mem[id] # Gone => mem[id] \in Recs
      /\ disk[id] # Gone => disk[id] \in Recs
      /\ TypeOK
  BY DEF SchedTypes, TypeOK
<1>1. CASE Add(id) /\ mem'[id] = [id |-> id, agent |-> book[id].agent, hire |-> book[id].hire,
                                  expr |-> book[id].expr, next |-> book[id].at, on |-> TRUE,
                                  fired |-> Zero]
  <2>1. New
    BY <1>1
  <2> QED
    BY <2>1
<1>2. CASE Boot /\ disk[id] # Gone /\ mem'[id] = RolledForward(disk[id])
  <2>1. Started
    BY <1>0, <1>2, RolledIs
  <2> QED
    BY <2>1
<1>3. CASE mem[id] # Gone /\ MoveOne /\ \E t \in Nat : mem'[id] = [mem[id] EXCEPT !.next = t]
  <2>1. Moved1
    BY <1>0, <1>3 DEF Recs
  <2> QED
    BY <2>1
<1>4. CASE /\ mem[id] # Gone /\ Firing /\ sweep.cur.id = id
           /\ FireAdvance /\ ~ Last /\ mem'[id] = [mem[id] EXCEPT !.next = sweep.at]
  <2>1. Adv
    BY <1>0, <1>4 DEF Recs
  <2> QED
    BY <2>1
<1>5. CASE /\ mem[id] # Gone /\ Firing /\ sweep.cur.id = id
           /\ FireOver /\ mem'[id] = [mem[id] EXCEPT !.on = FALSE]
  <2>1. Off
    BY <1>0, <1>5 DEF Recs
  <2> QED
    BY <2>1
<1>6. CASE /\ mem[id] # Gone /\ Firing /\ sweep.cur.id = id
           /\ FireStamp /\ mem'[id] = [mem[id] EXCEPT !.fired = sweep.now, !.on = ~Last]
  <2> DEFINE b == ~ Last
  <2>1. mem'[id] = [mem[id] EXCEPT !.fired = sweep.now, !.on = b]
    BY <1>6
  <2> HIDE DEF b
  <2>2. /\ mem'[id].expr = mem[id].expr /\ mem'[id].next = mem[id].next
        /\ mem'[id].fired = sweep.now /\ mem'[id].on = b
    BY <1>0, <1>6, <2>1 DEF Recs
  <2>3. Stamp
    BY <1>6, <2>2 DEF b
  <2> QED
    BY <2>3
<1> QED
  BY Zenon, <1>1, <1>2, <1>3, <1>4, <1>5, <1>6, RecordMoves

\* An advanced run is in the store, unless the schedule is gone.
LEMMA AdvancedIs ==
  ASSUME SchedTypes, FireAdvance, ~ Last
  PROVE  mem'[sweep.cur.id] # Gone => mem'[sweep.cur.id].next = sweep.at
<1>0. /\ TypeOK /\ sweep.cur \in Recs /\ sweep.cur.id \in Ids /\ sweep.at \in Nat
      /\ mem[sweep.cur.id] # Gone => mem[sweep.cur.id] \in Recs
  <2>1. TypeOK /\ sweep.cur \in Recs
    BY DEF SchedTypes, FireAdvance, Firing
  <2>2. sweep.at \in Nat /\ mem \in [Ids -> Recs \union {Gone}]
    <3>1. sweep \in Sweeps /\ mem \in [Ids -> Recs \union {Gone}]
      BY <2>1, TypeFacts
    <3> QED
      BY <3>1 DEF Sweeps, Last
  <2> QED
    BY <2>1, <2>2 DEF Recs
<1>1. Update(sweep.cur.id, [mem[sweep.cur.id] EXCEPT !.next = sweep.at])
  BY DEF FireAdvance
<1>2. mem[sweep.cur.id] # Gone => [mem[sweep.cur.id] EXCEPT !.next = sweep.at] \in Recs
  BY <1>0, EditTypes
<1>3. /\ mem[sweep.cur.id] = Gone => mem' = mem
      /\ mem[sweep.cur.id] # Gone
           => mem'[sweep.cur.id] = [mem[sweep.cur.id] EXCEPT !.next = sweep.at]
  BY <1>0, <1>1, <1>2, UpdateIs
<1>4. mem[sweep.cur.id] # Gone => [mem[sweep.cur.id] EXCEPT !.next = sweep.at].next = sweep.at
  BY <1>0 DEF Recs
<1> QED
  BY <1>3, <1>4

\* Every step of the clock, the sweep, a zone change and the daemon keeps it.
LEMMA FiredInvStep ==
  ASSUME SchedTypes, CopyInv, FiredInv, [Next]_vars
  PROVE  FiredInv'
<1>0. /\ sweep \in Sweeps /\ sweep.now \in Nat /\ now \in Nat /\ now' \in Nat /\ now' >= now
      /\ sweep.now <= now /\ zone \in Zones
      /\ \A id \in Ids : /\ mem[id] # Gone => mem[id] \in Recs
                         /\ disk[id] # Gone => disk[id] \in Recs
      /\ \A rec \in Recs : rec.fired \in Int /\ rec.next \in Nat
  <2>1. sweep \in Sweeps /\ now \in Nat /\ zone \in Zones
    BY TypeFacts DEF SchedTypes
  <2>2. now' \in Nat
    <3>1. TypeOK'
      BY SchedTypesStep DEF SchedTypes
    <3>2. now' \in 0 .. MaxTime
      BY Zenon, <3>1 DEF TypeOK
    <3> QED
      BY <3>2, SchedulesAssumption
  <2>3. \A id \in Ids : /\ mem[id] # Gone => mem[id] \in Recs
                        /\ disk[id] # Gone => disk[id] \in Recs
    BY DEF SchedTypes, TypeOK
  <2>4. \A rec \in Recs : rec.fired \in Int /\ rec.next \in Nat
    BY DEF Recs, Zero
  <2>5. sweep.now \in Nat
    BY <2>1, SchedulesAssumption DEF Sweeps
  <2> QED
    BY <2>1, <2>2, <2>3, <2>4, <2>5, OthersMove DEF FiredInv
<1>1. sweep'.now <= now'
  <2>1. CASE sweep' = NoSweep
    BY <1>0, <2>1 DEF NoSweep
  <2>2. CASE Sweep
    BY <1>0, <2>2, SweepIs
  <2>3. CASE FireNext
    BY <1>0, <2>3, FireNextIs
  <2> QED
    BY <1>0, <2>1, <2>2, <2>3, SweepMoves
<1>2. ASSUME NEW id \in Ids, mem'[id] # Gone
      PROVE  \/ mem[id] # Gone /\ mem'[id].fired = mem[id].fired
             \/ mem'[id].fired = Zero
             \/ Boot /\ disk[id] # Gone /\ mem'[id].fired = disk[id].fired
             \/ Firing /\ mem'[id].fired = sweep.now
  BY <1>2, EditIs
<1>3. ASSUME NEW id \in Ids, mem'[id] # Gone PROVE mem'[id].fired <= now /\ mem'[id].fired \in Int
  BY <1>0, <1>2, <1>3 DEF FiredInv, Zero
<1>4. ASSUME NEW id \in Ids, mem'[id] # Gone, sweep'.pc # "idle"
      PROVE  mem'[id].fired <= sweep'.now
  <2>1. CASE Sweep
    BY <1>0, <1>3, <1>4, <2>1, SweepIs
  <2>2. CASE sweep.pc # "idle" /\ sweep'.now = sweep.now
    <3>1. ~ Boot
      BY <2>2 DEF Boot, CopyInv
    <3> QED
      BY <1>0, <1>2, <1>4, <2>2, <3>1 DEF FiredInv, Zero
  <2>3. CASE sweep' = NoSweep
    BY <1>4, <2>3 DEF NoSweep
  <2>4. CASE FireNext
    <3>1. sweep.pc # "idle" /\ sweep'.now = sweep.now
      BY <2>4, FireNextIs DEF FireNext
    <3> QED
      BY <2>2, <3>1
  <2> QED
    BY <1>4, <2>1, <2>2, <2>3, <2>4, SweepMoves DEF Firing
<1>5. ASSUME NEW id \in Ids, disk'[id] # Gone PROVE disk'[id].fired <= now'
  <2>1. CASE disk'[id] = disk[id]
    BY <1>0, <1>5, <2>1 DEF FiredInv
  <2>2. CASE disk'[id] = mem'[id]
    BY <1>0, <1>3, <1>5, <2>2
  <2> QED
    BY <2>1, <2>2, RecordMoves
<1>6. Firing' => sweep'.at = Zero \/ sweep'.at > sweep'.now
  <2>1. CASE FireNext
    <3>1. PICK rec \in sweep.todo :
            sweep'.now = sweep.now /\ sweep'.at = NextRun(rec.expr, zone, sweep.now)
      BY <2>1, FireNextIs
    <3>2. rec.expr \in Exprs
      BY <1>0 DEF Sweeps, Recs
    <3> QED
      BY <1>0, <3>1, <3>2, RunIs
  <2>2. CASE Sweep \/ sweep' = NoSweep
    BY <2>2, SweepIs DEF NoSweep, Firing
  <2>3. CASE sweep' = sweep
    BY <2>3 DEF Firing, FiredInv
  <2>4. CASE Firing /\ sweep'.now = sweep.now /\ (sweep'.pc = "next" \/ sweep'.at = sweep.at)
    BY <2>4 DEF Firing, FiredInv
  <2> QED
    BY <2>1, <2>2, <2>3, <2>4, SweepMoves
<1>7. ASSUME moves' = 0
      PROVE  /\ rezone' = NoMove /\ zone' = UTC
             /\ Firing' /\ sweep'.pc # "advance" /\ sweep'.at # Zero /\ mem'[sweep'.cur.id] # Gone
                  => mem'[sweep'.cur.id].next = sweep'.at
             /\ \A id \in Ids : /\ mem'[id] # Gone => Ahead(mem'[id])
                                /\ disk'[id] # Gone => Ahead(disk'[id])
  <2>0. /\ moves = 0 /\ rezone = NoMove /\ zone = UTC /\ rezone.pc = "idle"
        /\ Firing /\ sweep.pc # "advance" /\ sweep.at # Zero /\ mem[sweep.cur.id] # Gone
             => mem[sweep.cur.id].next = sweep.at
        /\ \A id \in Ids : /\ mem[id] # Gone => Ahead(mem[id])
                           /\ disk[id] # Gone => Ahead(disk[id])
    BY <1>7, OthersMove DEF FiredInv, NoMove
  <2>1. rezone' = NoMove /\ zone' = UTC /\ ~ MoveOne
    BY <1>7, <2>0, OthersMove DEF MoveOne
  <2>2. ASSUME NEW id \in Ids, mem'[id] # Gone PROVE Ahead(mem'[id])
    <3>1. CASE mem'[id] = mem[id]
      BY <2>0, <2>2, <3>1
    <3>2. CASE mem'[id].fired = Zero \/ ~ mem'[id].on
      BY <3>2 DEF Ahead
    <3>3. CASE /\ Boot /\ disk[id] # Gone
               /\ mem'[id].fired = disk[id].fired /\ mem'[id].on = disk[id].on
               /\ mem'[id].next = disk[id].next \/ mem'[id].next > now
      <4>1. Ahead(disk[id]) /\ disk[id].fired <= now /\ disk[id] \in Recs
        BY <1>0, <2>0, <3>3 DEF FiredInv
      <4>2. mem'[id] \in Recs
        BY <2>2, SchedTypesStep DEF SchedTypes, TypeOK
      <4> QED
        BY <1>0, <3>3, <4>1, <4>2 DEF Ahead
    <3>4. CASE /\ mem[id] # Gone /\ Firing /\ FireAdvance /\ ~ Last /\ mem'[id].next = sweep.at
               /\ mem'[id].fired = mem[id].fired
      <4>1. sweep.at > sweep.now /\ mem[id].fired <= sweep.now /\ mem[id] \in Recs
        BY <1>0, <3>4 DEF FiredInv, Last, Firing
      <4>2. sweep.at \in Nat
        BY <1>0, <3>4 DEF Last, Sweeps
      <4> QED
        BY <1>0, <3>4, <4>1, <4>2 DEF Ahead
    <3>5. CASE /\ mem[id] # Gone /\ Firing /\ sweep.cur.id = id
               /\ FireStamp /\ mem'[id].fired = sweep.now /\ mem'[id].on = ~ Last
               /\ mem'[id].next = mem[id].next
      <4>1. CASE Last
        BY <3>5, <4>1 DEF Ahead
      <4>2. CASE ~ Last
        <5>1. mem[id].next = sweep.at /\ sweep.at > sweep.now
          BY <2>0, <3>5, <4>2 DEF FireStamp, Last, FiredInv
        <5> QED
          BY <3>5, <5>1 DEF Ahead
      <4> QED
        BY <4>1, <4>2
    <3> QED
      BY <2>1, <2>2, <3>1, <3>2, <3>3, <3>4, <3>5, EditIs
  <2>3. ASSUME NEW id \in Ids, disk'[id] # Gone PROVE Ahead(disk'[id])
    <3>1. disk'[id] \in {disk[id], mem'[id]}
      BY RecordMoves
    <3> QED
      BY <2>0, <2>2, <2>3, <3>1
  <2>4. ASSUME Firing', sweep'.pc # "advance", sweep'.at # Zero, mem'[sweep'.cur.id] # Gone
        PROVE  mem'[sweep'.cur.id].next = sweep'.at
    <3>1. /\ Firing /\ sweep'.cur = sweep.cur /\ sweep'.at = sweep.at
          /\ \/ sweep' = sweep
             \/ ~ FireStamp /\ (sweep.pc = "advance" => FireAdvance)
      <4>1. ~ Sweep /\ ~ FireNext /\ sweep' # NoSweep /\ sweep'.pc # "next"
        BY <2>4, SweepIs, FireNextIs DEF NoSweep, Firing
      <4>2. sweep' = sweep => Firing
        BY <2>4 DEF Firing
      <4> QED
        BY <4>1, <4>2, SweepMoves
    <3>2. CASE sweep.pc = "advance"
      <4>1. FireAdvance
        BY <2>4, <3>1, <3>2
      <4>2. ~ Last
        BY <2>4, <3>1 DEF Last
      <4> QED
        BY <2>4, <3>1, <4>1, <4>2, AdvancedIs
    <3>3. CASE sweep.pc # "advance"
      <4>1. ~ FireOver /\ ~ FireAdvance
        BY <2>4, <3>3, <1>0 DEF FireOver, FireAdvance, Firing, Sweeps
      <4>2. ~ FireStamp
        BY <4>1 DEF FireStamp
      <4>3. sweep.cur.id \in Ids /\ ~ Boot /\ ~ Add(sweep.cur.id)
        BY <3>1, FiringIs
      <4>4. mem'[sweep.cur.id] = mem[sweep.cur.id]
        BY <2>1, <2>4, <3>1, <4>1, <4>2, <4>3, EditIs
      <4> QED
        BY <2>0, <2>4, <3>1, <3>3, <4>4
    <3> QED
      BY <3>2, <3>3
  <2> QED
    BY <2>1, <2>2, <2>3, <2>4
<1> QED
  BY <1>0, <1>1, <1>3, <1>4, <1>5, <1>6, <1>7 DEF FiredInv, Ahead

-----------------------------------------------------------------------------
(* A one-off runs once.                                                    *)

\* For one zone and one life of the daemon: a one-off waits for its only run, at the
\* time that was planned; what has run is off, or fire is about to turn it off; and
\* a copy that fire has not sent is of one that has not run, and its last run.
OnceInv ==
  /\ crashes = 0 => up
  /\ \A id \in Ids : runs[id] > 0 => book[id].pc = "over"
  /\ moves = 0 /\ crashes = 0 =>
       /\ \A id \in Ids : book[id].pc = "planned" /\ book[id].expr.kind = "once"
                            => book[id].at = OnceAt(book[id].expr)
       /\ \A id \in Ids : mem[id] # Gone /\ mem[id].expr.kind = "once" =>
            /\ mem[id].next = OnceAt(mem[id].expr)
            /\ runs[id] <= 1
            /\ runs[id] = 1 => ~ mem[id].on \/ (sweep.pc = "stamp" /\ sweep.cur.id = id)
       /\ \A rec \in sweep.todo : rec.expr.kind = "once" =>
            /\ rec.next <= sweep.now /\ rec.next = OnceAt(rec.expr)
            /\ mem[rec.id] # Gone => runs[rec.id] = 0
       /\ Firing /\ sweep.cur.expr.kind = "once" =>
            /\ Last
            /\ sweep.pc # "stamp" /\ mem[sweep.cur.id] # Gone => runs[sweep.cur.id] = 0

\* Nothing has run when the daemon first starts.
LEMMA OnceInvInit == Init => OnceInv
BY DEF Init, OnceInv, NoSweep, Firing, NotBooked

\* Plan is the only way to a planned booking, and plans the run that is next.
LEMMA PlannedMoves ==
  ASSUME SchedTypes, [Next]_vars, NEW id \in Ids, book'[id].pc = "planned"
  PROVE  \/ book'[id] = book[id]
         \/ \E e \in Exprs : /\ book'[id].expr = e /\ book'[id].at = NextRun(e, zone, now)
                             /\ book'[id].at # Zero
<1> DEFINE Goal == \/ book'[id] = book[id]
                   \/ \E e \in Exprs : /\ book'[id].expr = e /\ book'[id].at = NextRun(e, zone, now)
                                       /\ book'[id].at # Zero
<1>0. book \in [Ids -> Bookings] /\ Over.pc = "over"
  BY TypeFacts DEF SchedTypes, Over, NotBooked
<1>1. CASE Tick \/ Agent \/ Rezone \/ Boot \/ UNCHANGED vars
  <2>1. UNCHANGED book
    BY Zenon, <1>1, Unbooked
  <2> QED
    BY <2>1
<1>2. CASE RunSchedules
  BY <1>2
     DEF RunSchedules, Sweep, SweepEnds, Fire, FireNext, FireAdvance, FireRoster, FireIdle,
         SendFails, FireSend, FireStamp
<1>3. ASSUME NEW a \in Agents, PersonSends(a) \/ Dismiss(a) \/ Hire(a) PROVE Goal
  BY <1>3 DEF PersonSends, Dismiss, Hire
<1>4. ASSUME NEW i \in Ids, NEW a \in Agents, NEW e \in Exprs, Plan(i, a, e) PROVE Goal
  <2> DEFINE at == NextRun(e, zone, now)
  <2>1. /\ book' = [book EXCEPT ![i] = [pc |-> "planned", agent |-> a, hire |-> roster[a],
                                        expr |-> e, at |-> at]]
        /\ at # Zero
    BY <1>4 DEF Plan
  <2> HIDE DEF at
  <2>2. CASE i = id
    <3>1. book'[id].expr = e /\ book'[id].at = at
      BY <1>0, <2>1, <2>2
    <3> QED
      BY <2>1, <3>1 DEF at
  <2>3. CASE i # id
    BY <1>0, <2>1, <2>3
  <2> QED
    BY <2>2, <2>3
<1>5. ASSUME NEW i \in Ids, Refuse(i) \/ Add(i) \/ Delete(i) PROVE Goal
  BY <1>0, <1>5 DEF Refuse, Add, Delete
<1>6. ASSUME NEW z \in Zones, EmptyZoneFile(z) PROVE Goal
  BY <1>6 DEF EmptyZoneFile
<1>7. CASE Crash
  BY <1>0, <1>7 DEF Crash
<1> QED
  BY <1>1, <1>2, <1>3, <1>4, <1>5, <1>6, <1>7 DEF Next, Person

\* Once the stamp is written a last run is over, unless the schedule is gone.
LEMMA StampedIs ==
  ASSUME SchedTypes, FireStamp
  PROVE  mem'[sweep.cur.id] # Gone => (mem'[sweep.cur.id].on <=> ~ Last)
<1> DEFINE b == ~ Last
<1>0. /\ TypeOK /\ sweep.cur \in Recs /\ sweep.cur.id \in Ids /\ sweep.now \in Nat
      /\ mem[sweep.cur.id] # Gone => mem[sweep.cur.id] \in Recs
  <2>1. TypeOK /\ sweep.cur \in Recs
    BY DEF SchedTypes, FireStamp, Firing
  <2>2. sweep.now \in Nat /\ mem \in [Ids -> Recs \union {Gone}]
    BY <2>1, SchedulesAssumption DEF TypeOK, Sweeps
  <2> QED
    BY <2>1, <2>2 DEF Recs
<1>1. Update(sweep.cur.id, [mem[sweep.cur.id] EXCEPT !.fired = sweep.now, !.on = b])
  BY DEF FireStamp
<1>2. b \in BOOLEAN
  OBVIOUS
<1> HIDE DEF b
<1>3. mem[sweep.cur.id] # Gone
        => [mem[sweep.cur.id] EXCEPT !.fired = sweep.now, !.on = b] \in Recs
  BY <1>0, <1>2, EditTypes
<1>4. /\ mem[sweep.cur.id] = Gone => mem' = mem
      /\ mem[sweep.cur.id] # Gone
           => mem'[sweep.cur.id] = [mem[sweep.cur.id] EXCEPT !.fired = sweep.now, !.on = b]
  BY <1>0, <1>1, <1>3, UpdateIs
<1>5. mem[sweep.cur.id] # Gone
        => [mem[sweep.cur.id] EXCEPT !.fired = sweep.now, !.on = b].on = b
  BY <1>0 DEF Recs
<1>6. mem'[sweep.cur.id] # Gone => mem'[sweep.cur.id].on = b
  BY <1>4, <1>5
<1> QED
  BY <1>6 DEF b

\* What a send does: one run more of the schedule that fire holds.
LEMMA SendIs ==
  ASSUME SchedTypes, FireSend
  PROVE  /\ UNCHANGED <<mem, book>> /\ Firing /\ sweep.pc = "send"
         /\ sweep'.pc = "stamp" /\ sweep'.cur = sweep.cur /\ sweep'.todo = sweep.todo
         /\ runs'[sweep.cur.id] = runs[sweep.cur.id] + 1
         /\ \A id \in Ids : id # sweep.cur.id => runs'[id] = runs[id]
<1>1. UNCHANGED <<mem, book>> /\ sweep.pc = "send" /\ Firing
  BY DEF FireSend, store, Firing
<1>2. sweep \in Sweeps /\ runs \in [Ids -> Nat] /\ sweep.cur.id \in Ids
  BY <1>1 DEF SchedTypes, TypeOK, Recs
<1>3. sweep'.pc = "stamp" /\ sweep'.cur = sweep.cur /\ sweep'.todo = sweep.todo
  BY <1>2 DEF FireSend, SweepStep, Sweeps
<1>4. runs' = [runs EXCEPT ![sweep.cur.id] = runs[sweep.cur.id] + 1]
  BY DEF FireSend
<1> QED
  BY <1>1, <1>2, <1>3, <1>4

\* Every step keeps it.
LEMMA OnceInvStep ==
  ASSUME SchedTypes, CopyInv, FiredInv, OnceInv, [Next]_vars
  PROVE  OnceInv'
<1>0. /\ runs \in [Ids -> Nat] /\ book \in [Ids -> Bookings] /\ sweep \in Sweeps
      /\ sweep.now \in Nat /\ now \in Nat
      /\ \A id \in Ids : mem[id] # Gone => mem[id] \in Recs
  <2>1. /\ runs \in [Ids -> Nat] /\ book \in [Ids -> Bookings] /\ sweep \in Sweeps
        /\ mem \in [Ids -> Recs \union {Gone}] /\ now \in 0 .. MaxTime
    BY DEF SchedTypes, TypeOK
  <2> QED
    BY <2>1, SchedulesAssumption DEF Sweeps
<1>1. crashes' = 0 => up'
  BY OthersMove DEF OnceInv, Boot
<1>2. ASSUME NEW id \in Ids, runs'[id] > 0 PROVE book'[id].pc = "over"
  <2>1. CASE runs'[id] = runs[id]
    BY <1>2, <2>1, OverStays DEF OnceInv
  <2>2. CASE FireSend
    <3>1. book[sweep.cur.id].pc = "over"
      BY <2>2, SendIs DEF CopyInv, Copied
    <3> QED
      BY <1>2, <2>1, <2>2, <3>1, SendIs
  <2> QED
    BY <2>1, <2>2, OthersMove
<1>3. SUFFICES ASSUME moves' = 0, crashes' = 0
               PROVE  /\ \A id \in Ids : book'[id].pc = "planned" /\ book'[id].expr.kind = "once"
                                           => book'[id].at = OnceAt(book'[id].expr)
                      /\ \A id \in Ids : mem'[id] # Gone /\ mem'[id].expr.kind = "once" =>
                           /\ mem'[id].next = OnceAt(mem'[id].expr)
                           /\ runs'[id] <= 1
                           /\ runs'[id] = 1
                                => ~ mem'[id].on \/ (sweep'.pc = "stamp" /\ sweep'.cur.id = id)
                      /\ \A rec \in sweep'.todo : rec.expr.kind = "once" =>
                           /\ rec.next <= sweep'.now /\ rec.next = OnceAt(rec.expr)
                           /\ mem'[rec.id] # Gone => runs'[rec.id] = 0
                      /\ Firing' /\ sweep'.cur.expr.kind = "once" =>
                           /\ Last'
                           /\ sweep'.pc # "stamp" /\ mem'[sweep'.cur.id] # Gone
                                => runs'[sweep'.cur.id] = 0
  BY <1>1, <1>2 DEF OnceInv, OnceAt
<1>4. /\ moves = 0 /\ crashes = 0 /\ up /\ zone = UTC
      /\ ~ Crash /\ ~ Boot /\ ~ MoveOne
  <2>1. moves = 0 /\ crashes = 0 /\ ~ Crash
    BY <1>3, OthersMove
  <2>2. up /\ zone = UTC /\ rezone = NoMove
    BY <2>1 DEF OnceInv, FiredInv
  <2> QED
    BY <2>1, <2>2 DEF Boot, MoveOne, NoMove
<1>5. /\ \A id \in Ids : book[id].pc = "planned" /\ book[id].expr.kind = "once"
                           => book[id].at = OnceAt(book[id].expr)
      /\ \A id \in Ids : mem[id] # Gone /\ mem[id].expr.kind = "once" =>
           /\ mem[id].next = OnceAt(mem[id].expr)
           /\ runs[id] <= 1
           /\ runs[id] = 1 => ~ mem[id].on \/ (sweep.pc = "stamp" /\ sweep.cur.id = id)
      /\ \A rec \in sweep.todo : rec.expr.kind = "once" =>
           /\ rec.next <= sweep.now /\ rec.next = OnceAt(rec.expr)
           /\ mem[rec.id] # Gone => runs[rec.id] = 0
      /\ Firing /\ sweep.cur.expr.kind = "once" =>
           /\ Last
           /\ sweep.pc # "stamp" /\ mem[sweep.cur.id] # Gone => runs[sweep.cur.id] = 0
  BY <1>4 DEF OnceInv
<1>6. ASSUME NEW id \in Ids, book[id].pc = "over", mem'[id] # Gone PROVE mem[id] # Gone
  BY <1>4, <1>6, OverStays, EditIs
<1>7. Firing /\ mem[sweep.cur.id] # Gone
        => sweep.cur.id \in Ids /\ mem[sweep.cur.id].expr = sweep.cur.expr
  BY FiringIs DEF CopyInv, Copied
<1>8. ASSUME NEW id \in Ids, book'[id].pc = "planned", book'[id].expr.kind = "once"
      PROVE  book'[id].at = OnceAt(book'[id].expr)
  BY <1>0, <1>4, <1>5, <1>8, PlannedMoves, OnceRun
<1>9. ASSUME NEW id \in Ids, mem'[id] # Gone, mem'[id].expr.kind = "once"
      PROVE  /\ mem'[id].next = OnceAt(mem'[id].expr)
             /\ runs'[id] <= 1
             /\ runs'[id] = 1 => ~ mem'[id].on \/ (sweep'.pc = "stamp" /\ sweep'.cur.id = id)
  <2>1. CASE FireSend
    <3>1. mem' = mem /\ sweep.pc = "send" /\ Firing /\ sweep'.pc = "stamp" /\ sweep'.cur = sweep.cur
      BY <2>1, SendIs
    <3>2. CASE id = sweep.cur.id
      <4>1. runs[id] = 0
        BY <1>5, <1>7, <1>9, <3>1, <3>2
      <4>2. runs'[id] = 1
        BY <2>1, <3>2, <4>1, SendIs
      <4> QED
        BY <1>5, <1>9, <3>1, <3>2, <4>2
    <3>3. CASE id # sweep.cur.id
      <4>1. runs'[id] = runs[id]
        BY <2>1, <3>3, SendIs
      <4> QED
        BY <1>5, <1>9, <3>1, <4>1
    <3> QED
      BY <3>2, <3>3
  <2>2. CASE ~ FireSend
    <3>0. runs' = runs
      BY <2>2, OthersMove
    <3>1. CASE mem'[id] = mem[id]
      <4>1. /\ mem'[id].next = OnceAt(mem'[id].expr) /\ runs'[id] <= 1
            /\ runs'[id] = 1 => ~ mem'[id].on \/ (sweep.pc = "stamp" /\ sweep.cur.id = id)
        BY <1>5, <1>9, <3>0, <3>1
      <4>2. ASSUME sweep.pc = "stamp", sweep.cur.id = id, mem'[id].on
            PROVE  sweep'.pc = "stamp" /\ sweep'.cur.id = id
        <5>1. Last /\ Firing
          BY <1>5, <1>7, <1>9, <3>1, <4>2 DEF Firing
        <5>2. ~ FireStamp
          BY <1>9, <4>2, <5>1, StampedIs
        <5>3. ~ Sweep /\ ~ FireNext
          BY <4>2 DEF Sweep, FireNext
        <5> QED
          BY <1>4, <4>2, <5>2, <5>3, SweepMoves
      <4> QED
        BY <4>1, <4>2
    <3>2. CASE Add(id) /\ mem'[id].expr = book[id].expr /\ mem'[id].next = book[id].at
      <4>1. book[id].pc = "planned"
        BY <3>2 DEF Add
      <4>2. runs[id] = 0
        <5>1. ~ (runs[id] > 0) /\ runs[id] \in Nat
          BY <1>0, <4>1 DEF OnceInv
        <5> QED
          BY <5>1
      <4> QED
        BY <1>5, <1>9, <3>0, <3>2, <4>1, <4>2
    <3>3. CASE /\ mem[id] # Gone /\ mem'[id].expr = mem[id].expr /\ mem'[id].next = mem[id].next
               /\ ~ mem'[id].on
      BY <1>5, <1>9, <3>0, <3>3
    <3>4. CASE /\ mem[id] # Gone /\ mem'[id].expr = mem[id].expr /\ Firing /\ sweep.cur.id = id
      <4>1. Last
        BY <1>5, <1>7, <1>9, <3>4
      <4> QED
        BY <1>4, <1>9, <3>1, <3>3, <3>4, <4>1, EditIs, FiringIs
    <3> QED
      BY <1>4, <1>9, <3>1, <3>2, <3>4, EditIs
  <2> QED
    BY <2>1, <2>2
<1>10. ASSUME NEW rec \in sweep.todo, rec.expr.kind = "once", mem'[rec.id] # Gone
       PROVE  runs'[rec.id] = 0
  <2>1. rec.id \in Ids /\ book[rec.id].pc = "over"
    BY <1>0 DEF Sweeps, Recs, CopyInv, Copied
  <2>2. runs[rec.id] = 0
    BY <1>5, <1>6, <1>10, <2>1
  <2>3. CASE FireSend
    BY <2>1, <2>2, <2>3, SendIs DEF CopyInv
  <2> QED
    BY <2>2, <2>3, OthersMove
<1>11. ASSUME NEW rec \in sweep'.todo, rec.expr.kind = "once"
       PROVE  /\ rec.next <= sweep'.now /\ rec.next = OnceAt(rec.expr)
              /\ mem'[rec.id] # Gone => runs'[rec.id] = 0
  <2>1. CASE Sweep
    <3>1. PICK id \in Ids : rec = mem[id] /\ Due(mem[id])
      BY <1>11, <2>1, SweepIs
    <3>2. rec # Gone /\ rec.on /\ rec.next <= now /\ rec.id = id
      BY <3>1 DEF Due, CopyInv
    <3>3. sweep.pc = "idle" /\ runs' = runs
      BY <2>1 DEF Sweep, hist
    <3>4. rec.next = OnceAt(rec.expr) /\ runs[id] = 0
      <4>1. rec.next = OnceAt(rec.expr) /\ runs[id] <= 1 /\ runs[id] # 1
        BY <1>5, <1>11, <3>1, <3>2, <3>3
      <4> QED
        BY <1>0, <4>1
    <3> QED
      BY <2>1, <3>2, <3>3, <3>4, SweepIs
  <2>2. CASE rec \in sweep.todo /\ sweep'.now = sweep.now
    BY <1>5, <1>10, <1>11, <2>2
  <2>3. CASE sweep' = NoSweep
    BY <1>11, <2>3 DEF NoSweep
  <2>4. CASE FireNext
    BY <1>11, <2>2, <2>4, FireNextIs
  <2> QED
    BY <1>11, <2>1, <2>2, <2>3, <2>4, SweepMoves
<1>12. ASSUME Firing', sweep'.cur.expr.kind = "once"
       PROVE  /\ sweep'.at = Zero
              /\ sweep'.pc # "stamp" /\ mem'[sweep'.cur.id] # Gone => runs'[sweep'.cur.id] = 0
  <2>1. CASE FireNext
    <3>1. PICK rec \in sweep.todo :
            /\ sweep'.cur = rec /\ sweep'.now = sweep.now
            /\ sweep'.at = NextRun(rec.expr, zone, sweep.now)
      BY <2>1, FireNextIs
    <3>2. rec.expr \in Exprs /\ OnceAt(rec.expr) <= sweep.now
      BY <1>0, <1>5, <1>12, <3>1 DEF Sweeps, Recs
    <3>3. sweep'.at = Zero
      BY <1>0, <1>4, <1>12, <3>1, <3>2, OnceRun
    <3> QED
      BY <1>10, <1>12, <3>1, <3>3
  <2>2. CASE Firing /\ sweep'.cur = sweep.cur /\ sweep'.at = sweep.at
             /\ (sweep' = sweep \/ sweep.pc # "stamp") /\ (sweep'.pc = "stamp" \/ ~ FireSend)
    <3>1. sweep'.at = Zero
      BY <1>5, <1>12, <2>2 DEF Last
    <3>2. ASSUME sweep'.pc # "stamp", mem'[sweep.cur.id] # Gone PROVE runs'[sweep.cur.id] = 0
      <4>1. sweep.cur.id \in Ids /\ book[sweep.cur.id].pc = "over"
        BY <2>2, FiringIs DEF CopyInv, Copied
      <4>2. mem[sweep.cur.id] # Gone /\ sweep.pc # "stamp"
        BY <1>6, <2>2, <3>2, <4>1
      <4>3. runs[sweep.cur.id] = 0
        BY <1>5, <1>12, <2>2, <4>2
      <4> QED
        BY <2>2, <3>2, <4>3, OthersMove
    <3> QED
      BY <2>2, <3>1, <3>2
  <2>3. CASE Sweep \/ sweep' = NoSweep
    BY <1>12, <2>3, SweepIs DEF NoSweep, Firing
  <2>4. CASE sweep' = sweep
    <3>1. Firing /\ ~ FireSend
      BY <1>12, <2>4, SendIs DEF Firing
    <3> QED
      BY <2>2, <2>4, <3>1
  <2>5. CASE Firing /\ sweep'.pc # "next" /\ sweep.pc # "stamp" /\ sweep'.cur = sweep.cur
             /\ sweep'.at = sweep.at
    <3>1. FireSend => sweep'.pc = "stamp"
      BY SendIs
    <3> QED
      BY <2>2, <2>5, <3>1
  <2> QED
    BY <1>12, <2>1, <2>3, <2>4, <2>5, SweepMoves DEF Firing
<1> QED
  BY <1>8, <1>9, <1>11, <1>12 DEF Last

-----------------------------------------------------------------------------
(* The invariants of every behaviour.                                      *)

SchedulesInv == SchedTypes /\ IInv /\ CopyInv /\ FiredInv /\ OnceInv

\* All of it (Spec).
LEMMA SchedulesInvAlways == Spec => []SchedulesInv
<1>1. Init => SchedulesInv
  BY SchedTypesInit, IndInit, CopyInvInit, FiredInvInit, OnceInvInit DEF SchedulesInv
<1>2. SchedulesInv /\ [Next]_vars => SchedulesInv'
  BY SchedTypesStep, IndStep, CopyInvStep, FiredInvStep, OnceInvStep DEF SchedulesInv
<1> QED
  BY <1>1, <1>2, PTL DEF Spec

\* What has run is not due again, also after a restart and whatever was not
\* written, for a person who keeps to one zone (fire, rollForward).
THEOREM NothingRefired == Spec => []NotRefired
<1>1. SchedulesInv => NotRefired
  BY DEF SchedulesInv, FiredInv, NotRefired, Booked, Ahead
<1> QED
  BY <1>1, SchedulesInvAlways, PTL

\* A one-off reaches its agent once, however busy the agent and whatever writes
\* fail, in one zone and one life of the daemon (parseBase, fire).
THEOREM OnceAlwaysRunsOnce == Spec => []OnceRunsOnce
<1>1. SchedulesInv => OnceRunsOnce
  <2> SUFFICES ASSUME SchedulesInv, moves = 0, crashes = 0, NEW id \in Ids, mem[id] # Gone,
                      mem[id].expr.kind = "once"
               PROVE  runs[id] <= 1
    BY DEF OnceRunsOnce, Booked
  <2> QED
    BY DEF SchedulesInv, OnceInv
<1> QED
  BY <1>1, SchedulesInvAlways, PTL

=============================================================================
