----------------------------- MODULE Schedules ------------------------------
(* Scheduled work: the store of schedules.go, the sweep that fires what is *)
(* due, the zone change that moves it, and the handlers that book and      *)
(* cancel (routes_schedules.go, tools_schedule.go) of internal/agentd.     *)
(*                                                                         *)
(* The sweep is one goroutine and works on a copy of the store; a zone     *)
(* change, a booking and a cancellation are each a goroutine of their own. *)
(* Every hold of the store's lock, every read or write of the zone file    *)
(* and every call on an agent is one action.  The clock moves between any  *)
(* two of them, and as far as it likes: the VM may be paused.              *)
EXTENDS Calendar, FiniteSets

CONSTANTS Ids,         \* schedules; mintScheduleID repeats none of them
          Agents,      \* ids an agent may have
          UTC,         \* the zone of an empty zone file
          Grace,       \* oneShotGrace, in ticks
          MaxTime,     \* bound: the last instant
          MaxMoves,    \* bound: zone changes
          MaxCrashes,  \* bound: ends of the daemon
          MaxFaults,   \* bound: writes of the store that fail
          MaxHires,    \* bound: agents that ever have an id
          MaxSends,    \* bound: messages of the person
          Gone         \* no schedule under this id

ASSUME SchedulesAssumption ==
  /\ UTC \in Zones
  /\ {Grace, MaxTime, MaxMoves, MaxCrashes, MaxFaults, MaxSends} \subseteq Nat
  /\ MaxHires \in Nat \ {0}
  /\ IsFiniteSet(Ids)

VARIABLES now,       \* the clock
          up,        \* whether the daemon runs
          zone,      \* the zone file, as loadZone reads it
          mem,       \* ScheduleStore.by
          disk,      \* schedules.json
          roster,    \* which hire has this agent id now; 0 is none
          hires,     \* hires this id has had
          inbox,     \* who queued the messages of an agent: the person or a timer
          state,     \* what the agent shows
          book,      \* a booking of this schedule, by the route or by the tool
          sweep,     \* the sweep goroutine
          rezone,    \* a change of zone
          moves, crashes, faults, sends,  \* counts behind the bounds
          cancelled, \* history: schedules whose cancellation was confirmed
          runs,      \* history: times each schedule reached an agent
          strayed    \* history: schedules that reached another agent than theirs

store == <<mem, disk, faults>>
team == <<roster, hires, inbox, state, sends>>
hist == <<cancelled, runs, strayed>>
vars == <<now, up, zone, store, team, book, sweep, rezone, moves, crashes, hist>>

NoRec == [id |-> Gone, agent |-> Gone, hire |-> 0, expr |-> Gone, next |-> Zero]
NotBooked == [pc |-> "no", agent |-> Gone, hire |-> 0, expr |-> Gone, at |-> Zero]
Over == [NotBooked EXCEPT !.pc = "over"]
NoSweep == [pc |-> "idle", now |-> 0, todo |-> {}, cur |-> NoRec, at |-> Zero]
NoMove == [pc |-> "idle", zone |-> UTC, todo |-> {}]

Init == /\ now = 0
        /\ up = TRUE
        /\ zone = UTC
        /\ mem = [id \in Ids |-> Gone]
        /\ disk = mem
        /\ roster = [a \in Agents |-> 1]
        /\ hires = roster
        /\ inbox = [a \in Agents |-> <<>>]
        /\ state = [a \in Agents |-> "idle"]
        /\ book = [id \in Ids |-> NotBooked]
        /\ sweep = NoSweep
        /\ rezone = NoMove
        /\ moves = 0 /\ crashes = 0 /\ faults = 0 /\ sends = 0
        /\ cancelled = {}
        /\ runs = [id \in Ids |-> 0]
        /\ strayed = {}

Booked == {id \in Ids : mem[id] # Gone}

\* saveLocked: the whole store, atomically, or an error.
Save == \/ /\ disk' = mem'
           /\ UNCHANGED faults
        \/ /\ faults < MaxFaults
           /\ faults' = faults + 1
           /\ UNCHANGED disk

\* Update: an edit of the record that is there now; no record, no edit.
Update(id, rec) == IF mem[id] = Gone
                   THEN UNCHANGED store
                   ELSE mem' = [mem EXCEPT ![id] = rec] /\ Save

-----------------------------------------------------------------------------
(* The clock, and the agents as far as a schedule meets them.              *)

Tick == /\ now < MaxTime
        /\ now' = now + 1
        /\ UNCHANGED <<up, zone, store, team, book, sweep, rezone, moves, crashes, hist>>

\* enqueue, for the person.
PersonSends(a) == /\ up
                  /\ roster[a] # 0
                  /\ sends < MaxSends
                  /\ sends' = sends + 1
                  /\ inbox' = [inbox EXCEPT ![a] = Append(@, "person")]
                  /\ UNCHANGED <<now, up, zone, store, roster, hires, state, book, sweep,
                                 rezone, moves, crashes, hist>>

\* Run takes a message, and turn shows it is working.
BeginTurn(a) == /\ state[a] = "idle"
                /\ inbox[a] # <<>>
                /\ inbox' = [inbox EXCEPT ![a] = Tail(@)]
                /\ state' = [state EXCEPT ![a] = "working"]
                /\ UNCHANGED <<now, up, zone, store, roster, hires, sends, book, sweep,
                               rezone, moves, crashes, hist>>

EndTurn(a) == /\ state[a] = "working"
              /\ state' = [state EXCEPT ![a] = "idle"]
              /\ UNCHANGED <<now, up, zone, store, roster, hires, inbox, sends, book,
                             sweep, rezone, moves, crashes, hist>>

\* Supervisor.Delete: the agent goes, and its schedules stay.
Dismiss(a) == /\ up
              /\ roster[a] # 0
              /\ roster' = [roster EXCEPT ![a] = 0]
              /\ inbox' = [inbox EXCEPT ![a] = <<>>]
              /\ state' = [state EXCEPT ![a] = "idle"]
              /\ UNCHANGED <<now, up, zone, store, hires, sends, book, sweep, rezone,
                             moves, crashes, hist>>

\* freeIDLocked: the first id that is not taken, which may have been another's.
Hire(a) == /\ up
           /\ roster[a] = 0
           /\ hires[a] < MaxHires
           /\ hires' = [hires EXCEPT ![a] = @ + 1]
           /\ roster' = [roster EXCEPT ![a] = hires'[a]]
           /\ UNCHANGED <<now, up, zone, store, inbox, state, sends, book, sweep, rezone,
                          moves, crashes, hist>>

-----------------------------------------------------------------------------
(* Booking and cancelling.                                                 *)

\* The handler finds the agent and plans the schedule in the current zone.
\* The route adds it next; the tool asks the person first, which may take long.
Plan(id, a, e) ==
  LET at == NextRun(e, zone, now)
  IN  /\ up
      /\ book[id].pc = "no"
      /\ roster[a] # 0
      /\ at # Zero
      /\ book' = [book EXCEPT ![id] = [pc |-> "planned", agent |-> a, hire |-> roster[a],
                                       expr |-> e, at |-> at]]
      /\ UNCHANGED <<now, up, zone, store, team, sweep, rezone, moves, crashes, hist>>

\* The person refuses the tool's request, or the turn ends while it waits.
Refuse(id) == /\ book[id].pc = "planned"
              /\ book' = [book EXCEPT ![id] = Over]
              /\ UNCHANGED <<now, up, zone, store, team, sweep, rezone, moves, crashes, hist>>

\* Add: a write that fails is reported, and the schedule stays in memory.
Add(id) == /\ book[id].pc = "planned"
           /\ book' = [book EXCEPT ![id] = Over]
           /\ mem' = [mem EXCEPT ![id] =
                        [id |-> id, agent |-> book[id].agent, hire |-> book[id].hire,
                         expr |-> book[id].expr, next |-> book[id].at, on |-> TRUE,
                         fired |-> Zero]]
           /\ Save
           /\ UNCHANGED <<now, up, zone, team, sweep, rezone, moves, crashes, hist>>

\* Delete: confirmed once it is on disk; after a failed write the record is
\* put back and the error reported.
Delete(id) ==
  /\ up
  /\ id \in Booked
  /\ \/ /\ mem' = [mem EXCEPT ![id] = Gone]
        /\ disk' = mem'
        /\ cancelled' = cancelled \union {id}
        /\ UNCHANGED faults
     \/ /\ faults < MaxFaults
        /\ faults' = faults + 1
        /\ UNCHANGED <<mem, disk, cancelled>>
  /\ UNCHANGED <<now, up, zone, team, book, sweep, rezone, moves, crashes, runs, strayed>>

-----------------------------------------------------------------------------
(* The sweep.                                                              *)

SweepStep(step) == sweep' = [sweep EXCEPT !.pc = step]
FireOver == sweep' = [sweep EXCEPT !.pc = "next", !.cur = NoRec, !.at = Zero]

Due(rec) == rec # Gone /\ rec.on /\ rec.next <= now

\* The ticker fires: the sweep copies the store and keeps what is due.  now
\* stays the time of that tick for the whole sweep.
Sweep == /\ up
         /\ sweep.pc = "idle"
         /\ \E id \in Ids : Due(mem[id])
         /\ sweep' = [NoSweep EXCEPT !.pc = "next", !.now = now,
                                     !.todo = {mem[id] : id \in {i \in Ids : Due(mem[i])}}]
         /\ UNCHANGED <<now, up, zone, store, team, book, rezone, moves, crashes, hist>>

SweepEnds == /\ sweep.pc = "next"
             /\ sweep.todo = {}
             /\ sweep' = NoSweep
             /\ UNCHANGED <<now, up, zone, store, team, book, rezone, moves, crashes, hist>>

\* fire: the next copy, and its run after this one in the zone of the moment.
FireNext == /\ sweep.pc = "next"
            /\ \E rec \in sweep.todo :
                 sweep' = [sweep EXCEPT !.pc = "advance", !.cur = rec,
                                        !.todo = @ \ {rec},
                                        !.at = NextRun(rec.expr, zone, sweep.now)]
            /\ UNCHANGED <<now, up, zone, store, team, book, rezone, moves, crashes, hist>>

Last == sweep.at = Zero
Disable(id) == Update(id, [mem[id] EXCEPT !.on = FALSE])

FireAdvance_OnlyWhenSent ==
  /\ sweep.pc = "advance"
  /\ \/ /\ ~Last
        /\ SweepStep("roster")
        /\ UNCHANGED store
     \/ /\ Last
        /\ sweep.now - sweep.cur.next > Grace
        /\ Disable(sweep.cur.id)
        /\ FireOver
     \/ /\ Last
        /\ sweep.now - sweep.cur.next <= Grace
        /\ SweepStep("roster")
        /\ UNCHANGED store
  /\ UNCHANGED <<now, up, zone, team, book, rezone, moves, crashes, hist>>

FireAdvance_NoGrace ==
  /\ sweep.pc = "advance"
  /\ IF Last THEN UNCHANGED store
             ELSE Update(sweep.cur.id, [mem[sweep.cur.id] EXCEPT !.next = sweep.at])
  /\ SweepStep("roster")
  /\ UNCHANGED <<now, up, zone, team, book, rezone, moves, crashes, hist>>

\* A repeating run is advanced before anything else; a last run too late for
\* its grace turns the schedule off; any other last run stays due.
FireAdvance ==
  /\ sweep.pc = "advance"
  /\ \/ /\ ~Last
        /\ Update(sweep.cur.id, [mem[sweep.cur.id] EXCEPT !.next = sweep.at])
        /\ SweepStep("roster")
     \/ /\ Last
        /\ sweep.now - sweep.cur.next > Grace
        /\ Disable(sweep.cur.id)
        /\ FireOver
     \/ /\ Last
        /\ sweep.now - sweep.cur.next <= Grace
        /\ SweepStep("roster")
        /\ UNCHANGED store
  /\ UNCHANGED <<now, up, zone, team, book, rezone, moves, crashes, hist>>

FireRoster ==
  /\ sweep.pc = "roster"
  /\ IF roster[sweep.cur.agent] = 0
     THEN Disable(sweep.cur.id) /\ FireOver
     ELSE SweepStep("idle?") /\ UNCHANGED store
  /\ UNCHANGED <<now, up, zone, team, book, rezone, moves, crashes, hist>>

FireIdle ==
  LET a == sweep.cur.agent
  IN  /\ sweep.pc = "idle?"
      /\ IF roster[a] # 0 /\ state[a] = "idle" THEN SweepStep("send") ELSE FireOver
      /\ UNCHANGED <<now, up, zone, store, team, book, rezone, moves, crashes, hist>>

\* sendTo: no such agent any more, or no capacity for it.
SendFails == /\ sweep.pc = "send"
             /\ FireOver
             /\ UNCHANGED <<now, up, zone, store, team, book, rezone, moves, crashes, hist>>

FireSend ==
  LET a == sweep.cur.agent
      id == sweep.cur.id
  IN  /\ sweep.pc = "send"
      /\ roster[a] # 0
      /\ inbox' = [inbox EXCEPT ![a] = Append(@, "timer")]
      /\ runs' = [runs EXCEPT ![id] = @ + 1]
      /\ strayed' = IF roster[a] = sweep.cur.hire THEN strayed ELSE strayed \union {id}
      /\ SweepStep("stamp")
      /\ UNCHANGED <<now, up, zone, store, roster, hires, state, sends, book, rezone,
                     moves, crashes, cancelled>>

FireStamp_KeepsOn ==
  /\ sweep.pc = "stamp"
  /\ Update(sweep.cur.id, [mem[sweep.cur.id] EXCEPT !.fired = sweep.now])
  /\ FireOver
  /\ UNCHANGED <<now, up, zone, team, book, rezone, moves, crashes, hist>>

FireStamp_WritesItsCopy ==
  /\ sweep.pc = "stamp"
  /\ mem' = [mem EXCEPT ![sweep.cur.id] = [sweep.cur EXCEPT !.fired = sweep.now, !.on = ~Last]]
  /\ Save
  /\ FireOver
  /\ UNCHANGED <<now, up, zone, team, book, rezone, moves, crashes, hist>>

FireStamp ==
  /\ sweep.pc = "stamp"
  /\ Update(sweep.cur.id, [mem[sweep.cur.id] EXCEPT !.fired = sweep.now, !.on = ~Last])
  /\ FireOver
  /\ UNCHANGED <<now, up, zone, team, book, rezone, moves, crashes, hist>>

Fire == FireNext \/ FireAdvance \/ FireRoster \/ FireIdle \/ SendFails \/ FireSend \/ FireStamp

RunSchedules == Sweep \/ SweepEnds \/ Fire

-----------------------------------------------------------------------------
(* A change of zone: Supervisor.RememberZone.                              *)

\* os.WriteFile empties the file before it writes it.
EmptyZoneFile(z) == /\ up
                    /\ rezone.pc = "idle"
                    /\ z # zone
                    /\ moves < MaxMoves
                    /\ moves' = moves + 1
                    /\ zone' = UTC
                    /\ rezone' = [NoMove EXCEPT !.pc = "write", !.zone = z]
                    /\ UNCHANGED <<now, up, store, team, book, sweep, crashes, hist>>

WriteZoneFile == /\ rezone.pc = "write"
                 /\ zone' = rezone.zone
                 /\ rezone' = [NoMove EXCEPT !.pc = "list"]
                 /\ UNCHANGED <<now, up, store, team, book, sweep, moves, crashes, hist>>

Moved_All(id) == LET rec == mem[id]
                 IN  /\ rec # Gone
                     /\ rec.on
                     /\ NextRun(rec.expr, zone, now) # Zero

\* The schedules rezone moves: those on the person's clock with a run left.
Moved(id) == LET rec == mem[id]
             IN  /\ rec # Gone
                 /\ rec.on
                 /\ rec.expr.kind # "every"
                 /\ ~rec.expr.pinned
                 /\ NextRun(rec.expr, zone, now) # Zero

\* rezone reads the clock, the zone and the store.
ListMoved == /\ rezone.pc = "list"
             /\ rezone' = [NoMove EXCEPT !.pc = "move",
                             !.todo = {<<id, NextRun(mem[id].expr, zone, now)>> :
                                         id \in {i \in Ids : Moved(i)}}]
             /\ UNCHANGED <<now, up, zone, store, team, book, sweep, moves, crashes, hist>>

MoveOne == /\ rezone.pc = "move"
           /\ \E m \in rezone.todo :
                /\ Update(m[1], [mem[m[1]] EXCEPT !.next = m[2]])
                /\ rezone' = [rezone EXCEPT !.todo = @ \ {m}]
           /\ UNCHANGED <<now, up, zone, team, book, sweep, moves, crashes, hist>>

MoveEnds == /\ rezone.pc = "move"
            /\ rezone.todo = {}
            /\ rezone' = NoMove
            /\ UNCHANGED <<now, up, zone, store, team, book, sweep, moves, crashes, hist>>

Rezone == WriteZoneFile \/ ListMoved \/ MoveOne \/ MoveEnds

-----------------------------------------------------------------------------
(* The daemon's end and its next start.                                    *)

\* A crash, or a signal: what is in memory is gone, what was under way stops.
Crash == /\ up
         /\ crashes < MaxCrashes
         /\ crashes' = crashes + 1
         /\ up' = FALSE
         /\ mem' = [id \in Ids |-> Gone]
         /\ inbox' = [a \in Agents |-> <<>>]
         /\ state' = [a \in Agents |-> "idle"]
         /\ book' = [id \in Ids |-> IF book[id].pc = "planned" THEN Over ELSE book[id]]
         /\ sweep' = NoSweep
         /\ rezone' = NoMove
         /\ UNCHANGED <<now, zone, disk, faults, roster, hires, sends, moves, hist>>

RolledForward_Zeroes(rec) ==
  LET at == NextRun(rec.expr, zone, now)
  IN  IF rec = Gone \/ rec.next > now THEN rec ELSE [rec EXCEPT !.next = at]

\* rollForward: past the runs missed while the machine was off.
RolledForward(rec) ==
  LET at == NextRun(rec.expr, zone, now)
  IN  IF rec = Gone \/ rec.next > now \/ at = Zero THEN rec ELSE [rec EXCEPT !.next = at]

\* Each record is moved by an Update of its own, that may not be saved: the file has
\* what the last save that did not fail found moved.
SaveSome == /\ \E moved \in SUBSET Ids :
                 disk' = [id \in Ids |-> IF id \in moved THEN mem'[id] ELSE disk[id]]
            /\ \/ /\ disk' = mem'
                  /\ UNCHANGED faults
               \/ /\ disk' # mem'
                  /\ faults < MaxFaults
                  /\ faults' = faults + 1

\* NewSupervisor: load the store and roll it forward before the first sweep.
Boot == /\ ~up
        /\ up' = TRUE
        /\ mem' = [id \in Ids |-> IF disk[id] = Gone THEN Gone ELSE RolledForward(disk[id])]
        /\ SaveSome
        /\ UNCHANGED <<now, zone, team, book, sweep, rezone, moves, crashes, hist>>

Agent == \E a \in Agents : BeginTurn(a) \/ EndTurn(a)

Person == \/ \E a \in Agents : PersonSends(a) \/ Dismiss(a) \/ Hire(a)
          \/ \E id \in Ids : \/ \E a \in Agents, e \in Exprs : Plan(id, a, e)
                             \/ Refuse(id) \/ Add(id) \/ Delete(id)
          \/ \E z \in Zones : EmptyZoneFile(z)

Next == \/ Tick \/ Agent \/ Person \/ Rezone
        \/ RunSchedules
        \/ Crash \/ Boot

Spec == Init /\ [][Next]_vars

\* The sweep ticks every half minute and is one goroutine; turns end and the
\* clock goes on.  Nobody has to send, book or cancel anything, and an agent may
\* be out of capacity every time.
FairSpec == /\ Spec
            /\ WF_vars(Tick)
            /\ WF_vars(RunSchedules)
            /\ WF_vars(Agent)

-----------------------------------------------------------------------------
Recs == [id : Ids, agent : Agents, hire : 1 .. MaxHires, expr : Exprs,
         next : Nat, on : BOOLEAN, fired : Nat \union {Zero}]

Copies == Recs \union {NoRec}

Bookings == [pc : {"no", "planned", "over"}, agent : Agents \union {Gone}, hire : 0 .. MaxHires,
             expr : Exprs \union {Gone}, at : Nat \union {Zero}]

PlannedBookings ==
  [pc : {"planned"}, agent : Agents, hire : 1 .. MaxHires, expr : Exprs, at : Nat]

Sweeps == [pc : {"idle", "next", "advance", "roster", "idle?", "send", "stamp"},
           now : 0 .. MaxTime, todo : SUBSET Recs, cur : Copies, at : Nat \union {Zero}]

Rezones == [pc : {"idle", "write", "list", "move"}, zone : Zones, todo : SUBSET (Ids \X Nat)]

TypeOK ==
  /\ now \in 0 .. MaxTime
  /\ up \in BOOLEAN
  /\ zone \in Zones
  /\ mem \in [Ids -> Recs \union {Gone}]
  /\ disk \in [Ids -> Recs \union {Gone}]
  /\ roster \in [Agents -> 0 .. MaxHires]
  /\ hires \in [Agents -> 1 .. MaxHires]
  /\ inbox \in [Agents -> Seq({"person", "timer"})]
  /\ state \in [Agents -> {"idle", "working"}]
  /\ book \in [Ids -> Bookings]
  /\ \A id \in Ids : book[id].pc = "planned" => book[id] \in PlannedBookings
  /\ sweep \in Sweeps
  /\ rezone \in Rezones
  /\ {moves, crashes, faults, sends} \subseteq Nat
  /\ cancelled \subseteq Ids
  /\ runs \in [Ids -> Nat]
  /\ strayed \subseteq Ids

\* A confirmed cancellation is final: neither a sweep or a zone change that
\* still holds a copy, nor a restart, nor a failed write brings it back.
CancelledStaysGone == \A id \in cancelled : mem[id] = Gone /\ disk[id] = Gone

\* What has run is not due again: an enabled schedule lies ahead of its last
\* run, except while fire has yet to write that down.  No backlog, no burst,
\* also after a restart.  Stated for a person who has not changed zone: rezone
\* may write the next run it computed before the sweep ran it.
NotRefired ==
  moves = 0 =>
    \A id \in Booked : mem[id].on /\ mem[id].fired # Zero => mem[id].next > mem[id].fired

\* A one-off runs once: "this one spends exactly one" turn (schedule.go,
\* parseBase), however busy its agent and whatever writes fail.  Stated for one
\* zone and one life of the daemon: a crash between the send and its record
\* sends the run again, and a zone change during fire makes it repeat.
OnceRunsOnce ==
  moves = 0 /\ crashes = 0 =>
    \A id \in Booked : mem[id].expr.kind = "once" => runs[id] <= 1

\* A zone change neither moves nor spends a run that is not on the person's
\* clock: an interval or a pinned schedule is moved by its own sweep only.
RezoneLeavesAlone ==
  [][\A id \in Booked :
       /\ mem'[id] # Gone
       /\ mem[id].expr.kind = "every" \/ mem[id].expr.pinned
       /\ mem'[id].next # mem[id].next
       => sweep.pc = "advance" /\ sweep.cur.id = id]_vars

\* A last run does not stay due for ever: it reaches its agent or is given up
\* after its grace, however busy the agent and however often it is refused.
LastRunSettles ==
  \A id \in Ids :
    (/\ mem[id] # Gone
     /\ mem[id].on
     /\ mem[id].next <= now
     /\ NextRun(mem[id].expr, zone, now) = Zero
     /\ mem[id].next + Grace < MaxTime)
      ~> (mem[id] = Gone \/ ~mem[id].on)

-----------------------------------------------------------------------------
(* What comments and tests say, and the code does not always do.           *)

\* RememberZone moves the clock schedules, so that none fires "at the old 9am
\* ... before the schedule settled onto the new zone" (schedule.go).
OnItsClock ==
  (up /\ sweep = NoSweep /\ rezone = NoMove) =>
    \A id \in Booked :
      LET rec == mem[id]
      IN  rec.on /\ rec.expr.kind \in ClockKinds /\ ~rec.expr.pinned /\ rec.next > now =>
            rec.next = NextRun(rec.expr, zone, now)

\* The final run of a series is "left due and retried on each sweep instead,
\* bounded by oneShotGrace" (schedule.go, fire): the sweep gives it up only
\* when no run of the expression lies within the grace.
LastRunNotLost ==
  [][\A id \in Booked :
       (sweep.pc = "advance" /\ mem[id].on /\ mem'[id] # Gone /\ ~mem'[id].on) =>
         NextRun(mem[id].expr, zone, sweep.now - Grace - 1) = Zero]_vars

\* planSchedule exists so that no creation site stores a run that has gone by
\* (schedule.go).
BookedAhead ==
  [][\A id \in Ids : (up /\ mem[id] = Gone /\ mem'[id] # Gone) => mem'[id].next > now]_vars

\* A client told "deleted" must not have "something that still fires"
\* (routes_schedules.go).
NoRunAfterCancel == [][\A id \in cancelled : runs'[id] = runs[id]]_vars

\* An agent mid-turn "must not have a timer's work queued behind the person's
\* own" (schedule.go, idle).
NotBehindPerson ==
  [][\A id \in Ids : runs'[id] > runs[id] =>
       LET a == sweep.cur.agent
       IN  state[a] = "idle" /\ inbox[a] = <<>>]_vars

\* "The agent it belonged to is gone" turns a schedule off (schedule.go, fire):
\* it reaches the agent it was booked for, or nobody.
RunsForItsOwner == strayed = {}

=============================================================================
