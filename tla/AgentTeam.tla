----------------------------- MODULE AgentTeam -----------------------------
(* The agents of one machine and the supervisor that starts, recycles and  *)
(* stops them: internal/agentd supervisor.go, loop.go, compact.go and      *)
(* registry.go.                                                            *)
(*                                                                         *)
(* An agent is a roster record; an INSTANCE is one *Agent built from it,   *)
(* with an inbox and, once started, one goroutine.  The map s.agents holds *)
(* the instance that is live for an id.  Two locks matter: s.mu guards the *)
(* map, a.mu guards one instance's inbox, state and stopped flag.  Every   *)
(* action below is one hold of one of them (or one file operation), and    *)
(* nothing but the locks orders the actions of different goroutines.       *)
(*                                                                         *)
(* A conversation is the set of items whose turns it contains.  Which of   *)
(* several idle agents is evicted (the least recently used) is left open.  *)
EXTENDS Naturals, Sequences, FiniteSets, Functions

CONSTANTS Agents,        \* ids the roster may hold
          Boss,          \* BossID, which can be neither deleted nor refused
          Specialists,   \* agents on the roster at the start, besides the boss
          Instances,     \* *Agent values, reused once nothing points at them
          Callers,       \* HTTP handlers and timers that send messages
          Messages,      \* what is said, each once
          MaxLive,       \* s.maxLive
          InboxDepth,    \* inboxDepth
          None,          \* nil
          MaxEvict,      \* bound: calls of EvictIdle
          MaxUpdate,     \* bound: calls of Update
          MaxDelete,     \* bound: calls of Delete
          MaxSkill,      \* bound: calls of create_skill
          MaxCompact     \* bound: compactions begun

ASSUME TeamAssumption ==
  /\ Boss \in Agents
  /\ Specialists \subseteq Agents \ {Boss}
  /\ None \notin Agents \union Instances
  /\ Callers \intersect Instances = {}
  /\ MaxLive \in Nat \ {0}
  /\ InboxDepth \in Nat \ {0}
  /\ {MaxEvict, MaxUpdate, MaxDelete, MaxSkill, MaxCompact} \subseteq Nat
  /\ IsFiniteSet(Agents)

VARIABLES roster,    \* agents on the roster
          version,   \* which edition of its record an agent's roster entry is
          dir,       \* agents whose state directory exists
          disk,      \* conversation.json, per agent
          agents,    \* s.agents
          inst,      \* the instances
          send,      \* the sendTo call each caller and each instance is in
          admin,     \* how far an Update or a Delete of an agent has come
          used,      \* how much of each bound is spent
          posted,    \* items somebody has set out to send
          begun,     \* history: items whose turn has begun
          done,      \* history: per agent, items whose turn ended well
          dropped    \* history: work whose report reached nobody

vars == <<roster, version, dir, disk, agents, inst, send, admin, used,
          posted, begun, done, dropped>>

-----------------------------------------------------------------------------
(* Data.                                                                   *)

\* inbound: somebody's message or a piece of work; reply is replyTo.  A note
\* is a message_agent call of the worker, a report what report() sends.
Items == [msg : Messages, reply : Agents \union {None}, kind : {"task", "note", "report"}]
Task(m, a) == [msg |-> m, reply |-> a, kind |-> "task"]
Answer(item, k) == [msg |-> item.msg, reply |-> None, kind |-> k]

Phases == {"unborn", "built", "select", "taken", "turn", "adopt", "report",
           "save", "compact", "summarise", "resave", "boundary", "recycle", "exited"}

Unborn == [id |-> None, ver |-> 0, pc |-> "unborn", inbox |-> <<>>, cur |-> None,
           hist |-> {}, ok |-> FALSE, told |-> FALSE, reload |-> FALSE,
           stopped |-> FALSE, killed |-> FALSE]

\* New: the prompt is the record's, the history is the file's.
NewAgent(a) == [Unborn EXCEPT !.id = a, !.ver = version[a], !.pc = "built",
                              !.hist = disk[a]]

Idle == [pc |-> "idle", to |-> None, attempt |-> 0, target |-> None,
         item |-> None, err |-> "none"]
SendTo(a, it) == [Idle EXCEPT !.pc = "get", !.to = a, !.item = it]
Returned(s, e) == [Idle EXCEPT !.pc = "done", !.item = send[s].item, !.err = e]

Senders == Callers \union Instances
Errors == {"none", "gone", "capacity", "busy", "stopped"}

\* An instance nothing points at any more, so that its name may be used again.
Garbage(i) == /\ inst[i].pc \in {"unborn", "exited"}
              /\ \A s \in Senders : send[s].target # i

LiveAgents == {a \in Agents : agents[a] # None}

\* a.state: "working" from the start of a turn to finish(), and again while a
\* compaction runs.
State(i) == IF inst[i].pc \in {"turn", "adopt", "summarise", "resave"}
              THEN "working" ELSE "idle"

\* What quiesce() asks before it marks the instance stopped.
Quiescable(i) == /\ ~inst[i].stopped
                 /\ State(i) = "idle"
                 /\ inst[i].inbox = <<>>

QuiescableAgents == {a \in LiveAgents : Quiescable(agents[a])}

Room_Off(a) == Cardinality(LiveAgents) =< MaxLive \/ a = Boss

\* makeRoomLocked, first line: below the ceiling, or the exempt boss.
Room(a) == Cardinality(LiveAgents) < MaxLive \/ a = Boss

Init == /\ roster = {Boss} \union Specialists
        /\ version = [a \in Agents |-> 0]
        /\ dir = {}
        /\ disk = [a \in Agents |-> {}]
        /\ agents = [a \in Agents |-> None]
        /\ inst = [i \in Instances |-> Unborn]
        /\ send = [s \in Senders |-> Idle]
        /\ admin = [a \in Agents |-> "idle"]
        /\ used = [evict |-> 0, update |-> 0, delete |-> 0, skill |-> 0, compact |-> 0]
        /\ posted = {}
        /\ begun = {}
        /\ done = [a \in Agents |-> {}]
        /\ dropped = {}

-----------------------------------------------------------------------------
(* sendTo: look the agent up, start it if need be, put the item on its     *)
(* inbox, and go round once more if the instance was stopped meanwhile.    *)

\* A handler or a timer starts a call.
Post(c, a, m) ==
  /\ send[c].pc \in {"idle", "done"}
  /\ \A it \in posted : it.msg # m
  /\ posted' = posted \union {Task(m, None)}
  /\ send' = [send EXCEPT ![c] = SendTo(a, Task(m, None))]
  /\ UNCHANGED <<roster, version, dir, disk, agents, inst, admin, used, begun, done, dropped>>

\* Get, under s.mu.
Lookup(s) ==
  /\ send[s].pc = "get"
  /\ LET i == agents[send[s].to]
     IN  send' = [send EXCEPT ![s].pc = IF i = None THEN "new" ELSE "put",
                              ![s].target = i]
  /\ UNCHANGED <<roster, version, dir, disk, agents, inst, admin, used, posted, begun, done, dropped>>

\* Get's roster.Get and start's New, under no lock of the supervisor's.
Build(s) ==
  LET a == send[s].to
  IN  /\ send[s].pc = "new"
      /\ \/ /\ a \notin roster
            /\ send' = [send EXCEPT ![s] = Returned(s, "gone")]
            /\ UNCHANGED <<inst, dir>>
         \/ /\ a \in roster
            /\ \E i \in Instances :
                 /\ Garbage(i)
                 /\ inst' = [inst EXCEPT ![i] = NewAgent(a)]
                 /\ send' = [send EXCEPT ![s].pc = "start", ![s].target = i]
            /\ dir' = dir \union {a}
      /\ UNCHANGED <<roster, version, disk, agents, admin, used, posted, begun, done, dropped>>

StartLost_Overwrites(s) ==
  /\ send[s].pc = "start"
  /\ agents[send[s].to] # None
  /\ agents' = [agents EXCEPT ![send[s].to] = send[s].target]
  /\ inst' = [inst EXCEPT ![send[s].target].pc = "select"]
  /\ send' = [send EXCEPT ![s].pc = "put"]
  /\ UNCHANGED <<roster, version, dir, disk, admin, used, posted, begun, done, dropped>>

\* start under s.mu, when another caller's instance got there first.
StartLost(s) ==
  LET i == agents[send[s].to]
  IN  /\ send[s].pc = "start"
      /\ i # None
      /\ inst' = [inst EXCEPT ![send[s].target] = Unborn]
      /\ send' = [send EXCEPT ![s].pc = "put", ![s].target = i]
      /\ UNCHANGED <<roster, version, dir, disk, agents, admin, used, posted, begun, done, dropped>>

\* start under s.mu, with room or after evicting one idle agent.
Start(s) ==
  LET a == send[s].to  i == send[s].target
  IN  /\ send[s].pc = "start"
      /\ agents[a] = None
      /\ \/ /\ Room(a)
            /\ agents' = [agents EXCEPT ![a] = i]
            /\ inst' = [inst EXCEPT ![i].pc = "select"]
         \/ /\ ~Room(a)
            /\ \E v \in QuiescableAgents :
                 /\ agents' = [agents EXCEPT ![v] = None, ![a] = i]
                 /\ inst' = [inst EXCEPT ![agents[v]].stopped = TRUE, ![i].pc = "select"]
      /\ send' = [send EXCEPT ![s].pc = "put"]
      /\ UNCHANGED <<roster, version, dir, disk, admin, used, posted, begun, done, dropped>>

\* ErrNoCapacity: every live agent is busy.
StartRefused(s) ==
  /\ send[s].pc = "start"
  /\ agents[send[s].to] = None
  /\ ~Room(send[s].to)
  /\ QuiescableAgents = {}
  /\ inst' = [inst EXCEPT ![send[s].target] = Unborn]
  /\ send' = [send EXCEPT ![s] = Returned(s, "capacity")]
  /\ UNCHANGED <<roster, version, dir, disk, agents, admin, used, posted, begun, done, dropped>>

\* A refusal that has already left the message behind.
Put_AppendsFirst(s) ==
  LET i == send[s].target
  IN  /\ send[s].pc = "put"
      /\ inst' = [inst EXCEPT ![i].inbox =
                    IF Len(@) < InboxDepth THEN Append(@, send[s].item) ELSE @]
      /\ send' = [send EXCEPT ![s] = IF inst[i].stopped /\ send[s].attempt = 0
                    THEN [@ EXCEPT !.pc = "get", !.attempt = 1, !.target = None]
                    ELSE Returned(s, "none")]
      /\ UNCHANGED <<roster, version, dir, disk, agents, admin, used, posted, begun, done, dropped>>

Put_IgnoresStopped(s) ==
  LET i == send[s].target
  IN  /\ send[s].pc = "put"
      /\ \/ /\ Len(inst[i].inbox) < InboxDepth
            /\ inst' = [inst EXCEPT ![i].inbox = Append(@, send[s].item)]
            /\ send' = [send EXCEPT ![s] = Returned(s, "none")]
         \/ /\ Len(inst[i].inbox) = InboxDepth
            /\ send' = [send EXCEPT ![s] = Returned(s, "busy")]
            /\ inst' = inst
      /\ UNCHANGED <<roster, version, dir, disk, agents, admin, used, posted, begun, done, dropped>>

Put_ThirdTry(s) ==
  LET i == send[s].target
  IN  /\ send[s].pc = "put"
      /\ \/ /\ inst[i].stopped
            /\ send' = [send EXCEPT ![s] = IF send[s].attempt =< 1
                          THEN [@ EXCEPT !.pc = "get", !.attempt = @ + 1, !.target = None]
                          ELSE Returned(s, "stopped")]
            /\ inst' = inst
         \/ /\ ~inst[i].stopped
            /\ Len(inst[i].inbox) < InboxDepth
            /\ inst' = [inst EXCEPT ![i].inbox = Append(@, send[s].item)]
            /\ send' = [send EXCEPT ![s] = Returned(s, "none")]
         \/ /\ ~inst[i].stopped
            /\ Len(inst[i].inbox) >= InboxDepth
            /\ send' = [send EXCEPT ![s] = Returned(s, "busy")]
            /\ inst' = inst
      /\ UNCHANGED <<roster, version, dir, disk, agents, admin, used, posted, begun, done, dropped>>

\* enqueue, under a.mu, and what sendTo makes of its answer.
Put(s) ==
  LET i == send[s].target
  IN  /\ send[s].pc = "put"
      /\ \/ /\ inst[i].stopped
            /\ send' = [send EXCEPT ![s] = IF send[s].attempt = 0
                          THEN [@ EXCEPT !.pc = "get", !.attempt = 1, !.target = None]
                          ELSE Returned(s, "stopped")]
            /\ inst' = inst
         \/ /\ ~inst[i].stopped
            /\ Len(inst[i].inbox) < InboxDepth
            /\ inst' = [inst EXCEPT ![i].inbox = Append(@, send[s].item)]
            /\ send' = [send EXCEPT ![s] = Returned(s, "none")]
         \/ /\ ~inst[i].stopped
            /\ Len(inst[i].inbox) >= InboxDepth
            /\ send' = [send EXCEPT ![s] = Returned(s, "busy")]
            /\ inst' = inst
      /\ UNCHANGED <<roster, version, dir, disk, agents, admin, used, posted, begun, done, dropped>>

SendStep(s) == \/ Lookup(s) \/ Build(s) \/ StartLost(s) \/ Start(s)
               \/ StartRefused(s) \/ Put(s)

-----------------------------------------------------------------------------
(* One instance's goroutine: Run, one turn at a time.                      *)

\* The select in Run, when it takes the inbox.  The item has left the inbox and
\* the state still reads "idle".
Receive(i) ==
  /\ inst[i].pc = "select"
  /\ inst[i].inbox # <<>>
  /\ inst' = [inst EXCEPT ![i].pc = "taken", ![i].cur = Head(inst[i].inbox),
                          ![i].inbox = Tail(@)]
  /\ UNCHANGED <<roster, version, dir, disk, agents, send, admin, used, posted, begun, done, dropped>>

\* The select in Run, when it takes ctx.Done().
StopRun(i) ==
  /\ inst[i].pc = "select"
  /\ inst[i].stopped
  /\ inst' = [inst EXCEPT ![i] = [Unborn EXCEPT !.pc = "exited", !.stopped = TRUE,
                                    !.killed = inst[i].killed, !.inbox = inst[i].inbox]]
  /\ UNCHANGED <<roster, version, dir, disk, agents, send, admin, used, posted, begun, done, dropped>>

\* turn's setState("working").
BeginTurn(i) ==
  /\ inst[i].pc = "taken"
  /\ inst' = [inst EXCEPT ![i].pc = "turn"]
  /\ begun' = begun \union {inst[i].cur}
  /\ UNCHANGED <<roster, version, dir, disk, agents, send, admin, used, posted, done, dropped>>

\* create_skill.
CreateSkill(i) ==
  /\ inst[i].pc = "turn"
  /\ used.skill < MaxSkill
  /\ used' = [used EXCEPT !.skill = @ + 1]
  /\ inst' = [inst EXCEPT ![i].reload = TRUE]
  /\ UNCHANGED <<roster, version, dir, disk, agents, send, admin, posted, begun, done, dropped>>

\* delegate, which only the boss's profile has, to an agent on the roster.
Delegate(i, b, m) ==
  /\ inst[i].pc = "turn"
  /\ inst[i].id = Boss
  /\ send[i].pc = "idle"
  /\ b \in roster
  /\ \A it \in posted : it.msg # m
  /\ posted' = posted \union {Task(m, Boss)}
  /\ send' = [send EXCEPT ![i] = SendTo(b, Task(m, Boss))]
  /\ UNCHANGED <<roster, version, dir, disk, agents, inst, admin, used, begun, done, dropped>>

\* message_agent to the delegator; one note per item is enough to tell it.
MessageAgent(i) ==
  LET note == Answer(inst[i].cur, "note")
  IN  /\ inst[i].pc = "turn"
      /\ send[i].pc = "idle"
      /\ inst[i].cur.reply \notin {None, inst[i].id}
      /\ note \notin posted
      /\ posted' = posted \union {note}
      /\ send' = [send EXCEPT ![i] = SendTo(inst[i].cur.reply, note)]
      /\ UNCHANGED <<roster, version, dir, disk, agents, inst, admin, used, begun, done, dropped>>

\* A tool call's answer reaches the model.  message_agent first logs what it
\* sent, through whichever instance is live for this agent, if any.
ToolReturns(i) ==
  /\ inst[i].pc = "turn"
  /\ send[i].pc = "done"
  /\ inst' = [inst EXCEPT ![i].told = \/ @
                                      \/ /\ send[i].item.kind = "note"
                                         /\ send[i].err = "none"
                                         /\ agents[inst[i].id] # None]
  /\ send' = [send EXCEPT ![i] = Idle]
  /\ UNCHANGED <<roster, version, dir, disk, agents, admin, used, posted, begun, done, dropped>>

\* drain returns without an error, which it cannot under a cancelled context.
Drained(i) ==
  /\ inst[i].pc = "turn"
  /\ send[i].pc = "idle"
  /\ ~inst[i].stopped
  /\ inst' = [inst EXCEPT ![i].pc = "adopt"]
  /\ UNCHANGED <<roster, version, dir, disk, agents, send, admin, used, posted, begun, done, dropped>>

\* adopt, then finish, which makes the agent idle.
TurnSucceeds(i) ==
  LET a == inst[i].id
  IN  /\ inst[i].pc = "adopt"
      /\ inst' = [inst EXCEPT ![i].pc = "report", ![i].ok = TRUE,
                              ![i].hist = @ \union {inst[i].cur}]
      /\ done' = [done EXCEPT ![a] = @ \union {inst[i].cur}]
      /\ UNCHANGED <<roster, version, dir, disk, agents, send, admin, used, posted, begun, dropped>>

\* drain returns an error: the model call failed, or Interrupt or the
\* supervisor cancelled the context.  The history stays as it was.
TurnFails(i) ==
  /\ inst[i].pc = "turn"
  /\ send[i].pc = "idle"
  /\ inst' = [inst EXCEPT ![i].pc = "report"]
  /\ UNCHANGED <<roster, version, dir, disk, agents, send, admin, used, posted, begun, done, dropped>>

AfterReport(i) == IF inst[i].ok THEN "save" ELSE "compact"

\* report: nobody to tell, told already, or the boss gave itself the work and
\* Deliver refuses to carry a message to its sender; else Deliver.
Report(i) ==
  LET r == inst[i].cur.reply
      it == Answer(inst[i].cur, "report")
      quiet == r \in {None, inst[i].id} \/ inst[i].told
  IN  /\ inst[i].pc = "report"
      /\ send[i].pc = "idle"
      /\ \/ /\ quiet
            /\ inst' = [inst EXCEPT ![i].pc = AfterReport(i)]
            /\ UNCHANGED <<send, posted>>
         \/ /\ ~quiet
            /\ send' = [send EXCEPT ![i] = SendTo(r, it)]
            /\ posted' = posted \union {it}
            /\ inst' = inst
      /\ UNCHANGED <<roster, version, dir, disk, agents, admin, used, begun, done, dropped>>

\* Deliver returns to report, which drops its error.
ReportReturns(i) ==
  /\ inst[i].pc = "report"
  /\ send[i].pc = "done"
  /\ inst' = [inst EXCEPT ![i].pc = AfterReport(i)]
  /\ send' = [send EXCEPT ![i] = Idle]
  /\ dropped' = IF send[i].err = "none" THEN dropped ELSE dropped \union {inst[i].cur.msg}
  /\ UNCHANGED <<roster, version, dir, disk, agents, admin, used, posted, begun, done>>

\* What save leaves on disk: the directory may have been purged.
Saved(i) == IF inst[i].id \in dir THEN [disk EXCEPT ![inst[i].id] = inst[i].hist] ELSE disk

\* turn's last statement.
Save(i) ==
  /\ inst[i].pc = "save"
  /\ disk' = Saved(i)
  /\ inst' = [inst EXCEPT ![i].pc = "compact"]
  /\ UNCHANGED <<roster, version, dir, agents, send, admin, used, posted, begun, done, dropped>>

\* compactIfNeeded: small enough, nowhere to cut, or setState("working").
Compact(i) ==
  /\ inst[i].pc = "compact"
  /\ \/ /\ inst' = [inst EXCEPT ![i].pc = "boundary"]
        /\ used' = used
     \/ /\ used.compact < MaxCompact
        /\ used' = [used EXCEPT !.compact = @ + 1]
        /\ inst' = [inst EXCEPT ![i].pc = "summarise"]
  /\ UNCHANGED <<roster, version, dir, disk, agents, send, admin, posted, begun, done, dropped>>

\* The summary comes back, or fails, as it must under a cancelled context.
Summarise(i) ==
  /\ inst[i].pc = "summarise"
  /\ \/ /\ ~inst[i].stopped
        /\ inst' = [inst EXCEPT ![i].pc = "resave"]
     \/ inst' = [inst EXCEPT ![i].pc = "boundary"]
  /\ UNCHANGED <<roster, version, dir, disk, agents, send, admin, used, posted, begun, done, dropped>>

\* applyCompaction's save, then the deferred setState("idle").
Resave(i) ==
  /\ inst[i].pc = "resave"
  /\ disk' = Saved(i)
  /\ inst' = [inst EXCEPT ![i].pc = "boundary"]
  /\ UNCHANGED <<roster, version, dir, agents, send, admin, used, posted, begun, done, dropped>>

\* recycleIfStale's reload.take().
TakeReload(i) ==
  /\ inst[i].pc = "boundary"
  /\ inst' = [inst EXCEPT ![i].pc = IF inst[i].reload THEN "recycle" ELSE "select",
                          ![i].reload = FALSE, ![i].cur = None,
                          ![i].ok = FALSE, ![i].told = FALSE]
  /\ UNCHANGED <<roster, version, dir, disk, agents, send, admin, used, posted, begun, done, dropped>>

Recycle_ForgetsRefusal(i) ==
  LET a == inst[i].id  j == agents[a]
  IN  /\ inst[i].pc = "recycle"
      /\ \/ /\ a \in QuiescableAgents
            /\ inst' = [inst EXCEPT ![i].pc = "select", ![j].stopped = TRUE]
            /\ agents' = [agents EXCEPT ![a] = None]
         \/ /\ a \notin QuiescableAgents
            /\ inst' = [inst EXCEPT ![i].pc = "select"]
            /\ agents' = agents
      /\ UNCHANGED <<roster, version, dir, disk, send, admin, used, posted, begun, done, dropped>>

\* Recycle under s.mu: the id's live instance, which need not be this one, is
\* stopped if it is quiescable; otherwise the flag is put back.
Recycle(i) ==
  LET a == inst[i].id  j == agents[a]
  IN  /\ inst[i].pc = "recycle"
      /\ \/ /\ a \in QuiescableAgents
            /\ inst' = [inst EXCEPT ![i].pc = "select", ![j].stopped = TRUE]
            /\ agents' = [agents EXCEPT ![a] = None]
         \/ /\ a \notin QuiescableAgents
            /\ inst' = [inst EXCEPT ![i].pc = "select", ![i].reload = TRUE]
            /\ agents' = agents
      /\ UNCHANGED <<roster, version, dir, disk, send, admin, used, posted, begun, done, dropped>>

InstanceStep(i) ==
  \/ Receive(i) \/ StopRun(i) \/ BeginTurn(i) \/ CreateSkill(i) \/ MessageAgent(i)
  \/ ToolReturns(i) \/ Drained(i) \/ TurnSucceeds(i) \/ TurnFails(i)
  \/ Report(i) \/ ReportReturns(i) \/ Save(i)
  \/ Compact(i) \/ Summarise(i) \/ Resave(i) \/ TakeReload(i) \/ Recycle(i)

-----------------------------------------------------------------------------
(* What the person and the agents do to the team.                          *)

\* EvictIdle, under s.mu: everybody quiescable goes.
EvictIdle ==
  /\ used.evict < MaxEvict
  /\ used' = [used EXCEPT !.evict = @ + 1]
  /\ LET gone == {agents[a] : a \in QuiescableAgents}
     IN  inst' = [i \in Instances |-> IF i \in gone THEN [inst[i] EXCEPT !.stopped = TRUE]
                                                    ELSE inst[i]]
  /\ agents' = [a \in Agents |-> IF a \in QuiescableAgents THEN None ELSE agents[a]]
  /\ UNCHANGED <<roster, version, dir, disk, send, admin, posted, begun, done, dropped>>

\* Update's roster half.
Update(a) ==
  /\ a \in roster
  /\ admin[a] = "idle"
  /\ used.update < MaxUpdate
  /\ used' = [used EXCEPT !.update = @ + 1]
  /\ version' = [version EXCEPT ![a] = @ + 1]
  /\ admin' = [admin EXCEPT ![a] = "refresh"]
  /\ UNCHANGED <<roster, dir, disk, agents, inst, send, posted, begun, done, dropped>>

\* refresh, under s.mu: nobody live, or stop it, or have it recycle itself.
Refresh(a) ==
  LET i == agents[a]
  IN  /\ admin[a] = "refresh"
      /\ \/ /\ i = None
            /\ UNCHANGED <<inst, agents>>
         \/ /\ a \in QuiescableAgents
            /\ inst' = [inst EXCEPT ![i].stopped = TRUE]
            /\ agents' = [agents EXCEPT ![a] = None]
         \/ /\ i # None
            /\ a \notin QuiescableAgents
            /\ inst' = [inst EXCEPT ![i].reload = TRUE]
            /\ agents' = agents
      /\ admin' = [admin EXCEPT ![a] = "idle"]
      /\ UNCHANGED <<roster, version, dir, disk, send, used, posted, begun, done, dropped>>

\* Delete's roster.Remove: anyone on the roster but the boss.
Remove(a) ==
  /\ a \in roster \ {Boss}
  /\ admin[a] = "idle"
  /\ used.delete < MaxDelete
  /\ used' = [used EXCEPT !.delete = @ + 1]
  /\ roster' = roster \ {a}
  /\ admin' = [admin EXCEPT ![a] = "stop"]
  /\ UNCHANGED <<version, dir, disk, agents, inst, send, posted, begun, done, dropped>>

StopDeleted_LeavesRunning(a) ==
  /\ admin[a] = "stop"
  /\ agents' = [agents EXCEPT ![a] = None]
  /\ admin' = [admin EXCEPT ![a] = "purge"]
  /\ UNCHANGED <<roster, version, dir, disk, inst, send, used, posted, begun, done, dropped>>

\* Delete's stopLocked, under s.mu: whatever the instance is doing.
StopDeleted(a) ==
  LET i == agents[a]
  IN  /\ admin[a] = "stop"
      /\ inst' = IF i = None THEN inst
                   ELSE [inst EXCEPT ![i].stopped = TRUE, ![i].killed = TRUE]
      /\ agents' = [agents EXCEPT ![a] = None]
      /\ admin' = [admin EXCEPT ![a] = "purge"]
      /\ UNCHANGED <<roster, version, dir, disk, send, used, posted, begun, done, dropped>>

\* Delete's last line: with purge the directory goes, without it stays.
Purge(a) ==
  /\ admin[a] = "purge"
  /\ admin' = [admin EXCEPT ![a] = "idle"]
  /\ \/ /\ dir' = dir \ {a}
        /\ disk' = [disk EXCEPT ![a] = {}]
        /\ done' = [done EXCEPT ![a] = {}]
     \/ UNCHANGED <<dir, disk, done>>
  /\ UNCHANGED <<roster, version, agents, inst, send, used, posted, begun, dropped>>

\* CreateWith: the id is free again once Remove has run.
Add(a) ==
  /\ a \notin roster
  /\ roster' = roster \union {a}
  /\ version' = [version EXCEPT ![a] = @ + 1]
  /\ UNCHANGED <<dir, disk, agents, inst, send, admin, used, posted, begun, done, dropped>>

AdminStep(a) == Refresh(a) \/ StopDeleted(a) \/ Purge(a)

Next ==
  \/ \E c \in Callers, a \in Agents, m \in Messages : Post(c, a, m)
  \/ \E s \in Senders : SendStep(s)
  \/ \E i \in Instances : InstanceStep(i)
  \/ \E i \in Instances, b \in Agents, m \in Messages : Delegate(i, b, m)
  \/ EvictIdle
  \/ \E a \in Agents : Update(a) \/ Remove(a) \/ Add(a) \/ AdminStep(a)

Spec == Init /\ [][Next]_vars

\* Goroutines and handlers in flight are scheduled, and model calls, tools and
\* summaries end; nobody has to send, edit, delete or evict anything.
Fairness == /\ \A s \in Senders : WF_vars(SendStep(s))
            /\ \A i \in Instances : WF_vars(InstanceStep(i))
            /\ \A a \in Agents : WF_vars(AdminStep(a))

FairSpec == Spec /\ Fairness

-----------------------------------------------------------------------------
(* Properties.                                                             *)

InstanceType ==
  [id : Agents \union {None}, ver : Nat, pc : Phases, inbox : Seq(Items),
   cur : Items \union {None}, hist : SUBSET Items, ok : BOOLEAN, told : BOOLEAN,
   reload : BOOLEAN, stopped : BOOLEAN, killed : BOOLEAN]

SendType ==
  [pc : {"idle", "get", "new", "start", "put", "done"}, to : Agents \union {None},
   attempt : {0, 1}, target : Instances \union {None}, item : Items \union {None},
   err : Errors]

\* Every variable keeps its type.
TypeOK ==
  /\ roster \subseteq Agents
  /\ version \in [Agents -> Nat]
  /\ dir \subseteq Agents
  /\ disk \in [Agents -> SUBSET Items]
  /\ agents \in [Agents -> Instances \union {None}]
  /\ inst \in [Instances -> InstanceType]
  /\ send \in [Senders -> SendType]
  /\ admin \in [Agents -> {"idle", "refresh", "stop", "purge"}]
  /\ used \in [evict : 0..MaxEvict, update : 0..MaxUpdate, delete : 0..MaxDelete,
               skill : 0..MaxSkill, compact : 0..MaxCompact]
  /\ posted \subseteq Items
  /\ begun \subseteq Items
  /\ done \in [Agents -> SUBSET Items]
  /\ dropped \subseteq Messages

Running(i) == inst[i].pc \notin {"unborn", "built", "exited"}

\* The map and the goroutines agree: an instance is running and not stopped
\* exactly when it is the one s.agents holds for its id.  So no agent ever has
\* two goroutines taking messages, whoever starts, evicts, recycles or deletes
\* it (start, stopLocked).
MapIsLive ==
  /\ \A i \in Instances : Running(i) /\ ~inst[i].stopped => agents[inst[i].id] = i
  /\ \A a \in LiveAgents : /\ Running(agents[a])
                           /\ ~inst[agents[a]].stopped
                           /\ inst[agents[a]].id = a

\* Eviction, recycling and refreshing never strand a message: an instance that
\* was stopped other than by Delete has nothing on its inbox, then or later
\* (enqueue and quiesce under a.mu).
StoppedInboxEmpty ==
  \A i \in Instances : inst[i].stopped /\ ~inst[i].killed => inst[i].inbox = <<>>

\* The places an item can be on its way to its turn.
Held(i) == Range(inst[i].inbox) \union (IF inst[i].pc = "taken" THEN {inst[i].cur} ELSE {})

\* An item is handed to one turn at most: sendTo's retry never leaves it on a
\* second inbox, and an item a turn has begun is on none.
HandledOnce ==
  \A i \in Instances :
    /\ IsInjective(inst[i].inbox)
    /\ Held(i) \intersect begun = {}
    /\ \A j \in Instances \ {i} : Held(i) \intersect Held(j) = {}

\* A specialist takes a slot over the ceiling only if another gives one up:
\* the number of live agents grows past MaxLive by the boss alone
\* (makeRoomLocked).
OnlyTheBossExceeds ==
  [][\A a \in Agents \ {Boss} :
       agents[a] = None /\ agents'[a] # None /\ Cardinality(LiveAgents) >= MaxLive
         => Cardinality(LiveAgents') =< Cardinality(LiveAgents)]_vars

\* A message that was accepted gets its turn, unless its agent is deleted
\* first: an inbox that holds something is emptied, and only a turn takes from
\* one (enqueue, Run).
InboxDrains ==
  \A i \in Instances :
    (inst[i].inbox # <<>> /\ ~inst[i].killed) ~> (inst[i].inbox = <<>> \/ inst[i].killed)

\* An agent marked stale is replaced once it has nothing left to do, so the
\* flag is not lost by a recycle that was refused (recycleIfStale, refresh).
ReloadHonoured ==
  \A i \in Instances : (inst[i].reload /\ ~inst[i].stopped) ~> inst[i].stopped

-----------------------------------------------------------------------------
(* What comments of the source say, and the code does not do.              *)

\* quiesce's callers stop only an agent at rest: one that was stopped other
\* than by Delete has no message in hand ("Nothing can fall between the two").
WorkNotInterrupted ==
  \A i \in Instances : inst[i].stopped /\ ~inst[i].killed
                         => inst[i].pc \notin {"taken", "turn", "adopt"}

\* Eviction loses nothing because the conversation is on disk: the next
\* instance of an agent knows every turn that ended well and was not purged.
HistoryKept == \A a \in LiveAgents : done[a] \subseteq inst[agents[a]].hist

\* No caller of sendTo is told the agent was recycled.
NeverErrStopped == \A c \in Callers : send[c].err # "stopped"

\* Whoever delegated a piece of work hears how it ended.
ReportDelivered == dropped = {}

\* No more than the ceiling hold a goroutine, with the boss exempt.
CeilingHeld == Cardinality(LiveAgents \ {Boss}) =< MaxLive

\* Once Update has returned, the agent's next message finds its new record or
\* an instance marked to reload.
PromptFresh ==
  \A a \in LiveAgents :
    LET i == agents[a]
    IN  \/ admin[a] # "idle"
        \/ inst[i].ver = version[a]
        \/ inst[i].reload
        \/ inst[i].pc = "recycle"

\* Once Delete has stopped the agent, nothing of that id is left running.
DeletedIsGone == \A a \in LiveAgents : a \in roster \/ admin[a] = "stop"
=============================================================================
