-------------------------- MODULE AgentTeamProofs --------------------------
(* MapIsLive, HandledOnce and what they rest on, for any number of agents, *)
(* instances, callers and messages and any ceiling: TeamInv is about which *)
(* instance is whose, OnceInv about where each item is.                    *)
EXTENDS AgentTeam, FiniteSetTheorems, TLAPS

-----------------------------------------------------------------------------
(* The invariants.                                                         *)

\* A call of sendTo that has not returned.
Flying(s) == send[s].pc \in {"get", "new", "start", "put"}

\* A goroutine with a message in hand.
Busy(i) == inst[i].pc \in {"taken", "turn", "adopt", "report"}

\* A turn that may still report.
Unreported(i) == \/ inst[i].pc \in {"turn", "adopt"}
                 \/ inst[i].pc = "report" /\ send[i].pc = "idle"

\* A call knows whom it writes to, and from start on an instance to give it to.
Calls ==
  \A s \in Senders :
    /\ Flying(s) => send[s].to \in Agents /\ send[s].item \in Items
    /\ send[s].pc \in {"start", "put"} => send[s].target \in Instances

\* A goroutine knows whose it is, and what it works on.
Workers ==
  \A i \in Instances : /\ Running(i) => inst[i].id \in Agents
                       /\ Busy(i) => inst[i].cur \in Items

\* What start is about to put in the map is built for it, and not running.
Starters ==
  \A s \in Senders : send[s].pc = "start" =>
    /\ inst[send[s].target].pc = "built"
    /\ inst[send[s].target].id = send[s].to
    /\ ~ inst[send[s].target].stopped

\* It is its caller's alone.
OwnStarters ==
  \A s, t \in Senders : send[s].pc = "start" /\ send[t].pc = "start" /\ s # t
                          => send[s].target # send[t].target

TeamInv == TypeOK /\ Calls /\ Workers /\ Starters /\ OwnStarters /\ MapIsLive /\ StoppedInboxEmpty

\* A turn under way, its report included.
InTurn(i) == inst[i].pc \in {"turn", "adopt", "report"}

\* What travels, waits or has begun was posted.
OnRecord == /\ begun \subseteq posted
            /\ \A i \in Instances : Held(i) \subseteq posted
            /\ \A s \in Senders : Flying(s) => send[s].item \in posted

\* What travels is nowhere else.
OnItsWay == /\ \A s \in Senders : Flying(s) => send[s].item \notin begun
            /\ \A s \in Senders, i \in Instances : Flying(s) => send[s].item \notin Held(i)
            /\ \A s, t \in Senders : Flying(s) /\ Flying(t) /\ s # t
                                       => send[s].item # send[t].item

\* What has been taken from an inbox is not on it any more.
InHand == \A i \in Instances : inst[i].pc = "taken" => inst[i].cur \notin Range(inst[i].inbox)

\* One turn works on an item, and no two.
Turns == /\ \A i \in Instances : InTurn(i) => inst[i].cur \in begun
         /\ \A i, j \in Instances : InTurn(i) /\ InTurn(j) /\ i # j => inst[i].cur # inst[j].cur

\* Only work is answered for, work is posted once, and it is reported once,
\* after its turn began.
Reports ==
  /\ \A p \in posted : p.kind # "task" => p.reply = None
  /\ \A p, q \in posted : p.kind = "task" /\ q.kind = "task" /\ p.msg = q.msg => p = q
  /\ \A p \in posted : p.kind = "report" =>
       \E q \in begun : q.kind = "task" /\ q.msg = p.msg
  /\ \A i \in Instances : Unreported(i) /\ inst[i].cur.kind = "task"
                            => Answer(inst[i].cur, "report") \notin posted

OnceInv == HandledOnce /\ OnRecord /\ OnItsWay /\ InHand /\ Turns /\ Reports
-----------------------------------------------------------------------------
(* Sequences.                                                              *)

\* An inbox that gets one item more.
LEMMA Appended ==
  ASSUME NEW S, NEW q \in Seq(S), NEW e \in S
  PROVE  /\ Append(q, e) \in Seq(S)
         /\ Range(Append(q, e)) = Range(q) \union {e}
         /\ IsInjective(q) /\ e \notin Range(q) => IsInjective(Append(q, e))
<1>1. Append(q, e) \in Seq(S) /\ Len(Append(q, e)) = Len(q) + 1
  OBVIOUS
<1>2. /\ DOMAIN q = 1 .. Len(q) /\ DOMAIN Append(q, e) = 1 .. Len(q) + 1
      /\ Len(q) \in Nat
  BY <1>1
<1>3. /\ \A k \in 1 .. Len(q) : Append(q, e)[k] = q[k]
      /\ Append(q, e)[Len(q) + 1] = e
  OBVIOUS
<1>4. Range(Append(q, e)) = Range(q) \union {e}
  <2>1. \A x : x \in Range(q) <=> \E k \in 1 .. Len(q) : q[k] = x
    BY <1>2 DEF Range
  <2>2. \A x : x \in Range(Append(q, e)) <=> \E k \in 1 .. Len(q) + 1 : Append(q, e)[k] = x
    BY <1>2 DEF Range
  <2>3. ASSUME NEW x \in Range(Append(q, e)) PROVE x \in Range(q) \union {e}
    BY <1>2, <1>3, <2>1, <2>2
  <2>4. ASSUME NEW x \in Range(q) \union {e} PROVE x \in Range(Append(q, e))
    BY <1>2, <1>3, <2>1, <2>2
  <2> QED
    BY <2>3, <2>4
<1>5. ASSUME IsInjective(q), e \notin Range(q) PROVE IsInjective(Append(q, e))
  BY <1>2, <1>3, <1>5 DEF IsInjective, Range
<1> QED
  BY <1>1, <1>4, <1>5

\* An inbox whose first item is taken.
LEMMA Popped ==
  ASSUME NEW S, NEW q \in Seq(S), q # <<>>
  PROVE  /\ Head(q) \in S /\ Tail(q) \in Seq(S)
         /\ Range(q) = {Head(q)} \union Range(Tail(q))
         /\ IsInjective(q) => IsInjective(Tail(q)) /\ Head(q) \notin Range(Tail(q))
<1>1. Head(q) \in S /\ Tail(q) \in Seq(S) /\ Head(q) = q[1]
  OBVIOUS
<1>2. /\ Len(q) \in Nat /\ Len(q) > 0 /\ DOMAIN q = 1 .. Len(q)
      /\ DOMAIN Tail(q) = 1 .. Len(q) - 1
  OBVIOUS
<1>3. \A k \in 1 .. Len(q) - 1 : Tail(q)[k] = q[k + 1]
  OBVIOUS
<1>4. \A x : x \in Range(q) <=> \E k \in 1 .. Len(q) : q[k] = x
  BY <1>2 DEF Range
<1>5. \A x : x \in Range(Tail(q)) <=> \E k \in 1 .. Len(q) - 1 : Tail(q)[k] = x
  BY <1>2 DEF Range
<1>6. ASSUME NEW x \in Range(q) PROVE x = Head(q) \/ x \in Range(Tail(q))
  <2>1. PICK k \in 1 .. Len(q) : q[k] = x
    BY <1>4
  <2>2. CASE k # 1
    <3>1. k - 1 \in 1 .. Len(q) - 1 /\ Tail(q)[k - 1] = x
      BY <1>2, <1>3, <2>1, <2>2
    <3> QED
      BY <1>5, <3>1
  <2> QED
    BY <1>1, <2>1, <2>2
<1>7. ASSUME NEW x \in Range(Tail(q)) PROVE x \in Range(q)
  <2>1. PICK k \in 1 .. Len(q) - 1 : Tail(q)[k] = x
    BY <1>5
  <2>2. k + 1 \in 1 .. Len(q) /\ q[k + 1] = x
    BY <1>2, <1>3, <2>1
  <2> QED
    BY <1>4, <2>2
<1>8. Head(q) \in Range(q)
  BY <1>1, <1>2, <1>4
<1>9. ASSUME IsInjective(q) PROVE IsInjective(Tail(q)) /\ Head(q) \notin Range(Tail(q))
  <2>1. \A a, b \in 1 .. Len(q) : q[a] = q[b] => a = b
    BY <1>2, <1>9 DEF IsInjective
  <2>2. IsInjective(Tail(q))
    BY <1>2, <1>3, <2>1 DEF IsInjective
  <2>3. Head(q) \notin Range(Tail(q))
    BY <1>1, <1>2, <1>3, <1>5, <2>1
  <2> QED
    BY <2>2, <2>3
<1> QED
  BY <1>1, <1>6, <1>7, <1>8, <1>9

\* An inbox as New makes it.
LEMMA NothingIn == <<>> \in Seq(Items) /\ Range(<<>>) = {} /\ IsInjective(<<>>)
BY DEF Range, IsInjective

-----------------------------------------------------------------------------
(* The records.                                                            *)

\* What an instance is when nothing points at it, and when New has built it.
LEMMA InstanceStates ==
  /\ Unborn \in InstanceType
  /\ Unborn.pc = "unborn" /\ Unborn.inbox = <<>> /\ ~ Unborn.stopped
  /\ \A a \in Agents : version \in [Agents -> Nat] /\ disk \in [Agents -> SUBSET Items] =>
       /\ NewAgent(a) \in InstanceType
       /\ NewAgent(a).id = a /\ NewAgent(a).pc = "built" /\ NewAgent(a).inbox = <<>>
       /\ ~ NewAgent(a).stopped
BY NothingIn DEF Unborn, NewAgent, InstanceType, Phases

\* What a call is before it begins, when it begins and when it has returned.
LEMMA SendStates ==
  /\ Idle \in SendType /\ Idle.pc = "idle"
  /\ \A a \in Agents, it \in Items :
       /\ SendTo(a, it) \in SendType
       /\ SendTo(a, it).pc = "get" /\ SendTo(a, it).to = a /\ SendTo(a, it).item = it
  /\ \A s \in Senders, e \in Errors : send \in [Senders -> SendType] =>
       Returned(s, e) \in SendType /\ Returned(s, e).pc = "done"
BY DEF Idle, SendTo, Returned, SendType, Errors

\* What is said is an item.
LEMMA ItemsMade ==
  ASSUME TeamAssumption
  PROVE  /\ \A m \in Messages :
              /\ Task(m, None) \in Items /\ Task(m, Boss) \in Items
              /\ Task(m, None).msg = m /\ Task(m, None).kind = "task"
              /\ Task(m, Boss).msg = m /\ Task(m, Boss).kind = "task"
         /\ \A it \in Items, k \in {"note", "report"} :
              /\ Answer(it, k) \in Items /\ Answer(it, k).msg = it.msg
              /\ Answer(it, k).kind = k /\ Answer(it, k).reply = None
BY DEF TeamAssumption, Task, Answer, Items

-----------------------------------------------------------------------------
(* What a step does to one instance, and to one call.                      *)

\* Instance i alone changed.
Alone(i) == /\ inst' \in [Instances -> InstanceType]
            /\ \A j \in Instances : j # i => inst'[j] = inst[j]

\* A goroutine went from one statement to the next, on the item it had or,
\* between two turns, on none.
Moves(i) == /\ Alone(i)
            /\ inst'[i].id = inst[i].id /\ inst'[i].inbox = inst[i].inbox
            /\ inst'[i].stopped = inst[i].stopped /\ inst'[i].killed = inst[i].killed
            /\ Running(i) /\ inst'[i].pc \notin {"unborn", "built", "exited", "taken"}
            /\ Busy(i)' => Busy(i) /\ inst'[i].cur = inst[i].cur

\* A call alone changed.
Calling(s) == /\ send' \in [Senders -> SendType]
              /\ \A t \in Senders : t # s => send'[t] = send[t]

\* The steps of a goroutine that stay with its item and leave the map alone.
Works(i) == \/ BeginTurn(i) \/ CreateSkill(i) \/ ToolReturns(i) \/ Drained(i) \/ TurnSucceeds(i)
            \/ TurnFails(i) \/ ReportReturns(i) \/ Save(i) \/ Compact(i) \/ Summarise(i)
            \/ Resave(i) \/ TakeReload(i)

\* A record of an instance with another statement to run.
LEMMA AtStatement ==
  ASSUME NEW y \in InstanceType, NEW pc \in Phases
  PROVE  /\ [y EXCEPT !.pc = pc] \in InstanceType
         /\ [y EXCEPT !.pc = pc].pc = pc
         /\ [y EXCEPT !.pc = pc].id = y.id /\ [y EXCEPT !.pc = pc].inbox = y.inbox
         /\ [y EXCEPT !.pc = pc].stopped = y.stopped /\ [y EXCEPT !.pc = pc].killed = y.killed
         /\ [y EXCEPT !.pc = pc].cur = y.cur
BY DEF InstanceType

\* A goroutine that only goes on.
LEMMA GoesOn ==
  ASSUME TypeOK, NEW i \in Instances, NEW pc \in Phases, Running(i),
         inst' = [inst EXCEPT ![i].pc = pc], pc \notin {"unborn", "built", "exited", "taken"},
         pc \in {"turn", "adopt", "report"} => Busy(i)
  PROVE  Moves(i) /\ inst'[i].pc = pc
<1>1. inst[i] \in InstanceType /\ inst \in [Instances -> InstanceType]
  BY DEF TypeOK
<1>2. inst' = [inst EXCEPT ![i] = [inst[i] EXCEPT !.pc = pc]]
  OBVIOUS
<1>3. [inst[i] EXCEPT !.pc = pc] \in InstanceType /\ inst'[i] = [inst[i] EXCEPT !.pc = pc]
  BY <1>1, <1>2, AtStatement
<1>4. Alone(i)
  BY <1>1, <1>2, <1>3 DEF Alone
<1> QED
  BY <1>1, <1>3, <1>4, AtStatement DEF Moves, Busy

\* Each of them.
LEMMA WorksMove ==
  ASSUME TypeOK, Workers, NEW i \in Instances, Works(i)
  PROVE  Moves(i)
<1>0. inst[i] \in InstanceType /\ inst \in [Instances -> InstanceType]
  BY DEF TypeOK
<1> USE DEF Phases
<1>1. CASE BeginTurn(i)
  BY <1>1, GoesOn DEF BeginTurn, Running, Busy
<1>2. CASE CreateSkill(i)
  <2> DEFINE y == [inst[i] EXCEPT !.reload = TRUE]
  <2>1. inst' = [inst EXCEPT ![i] = y] /\ inst[i].pc = "turn"
    BY <1>2 DEF CreateSkill
  <2>2. y \in InstanceType
    BY <1>0 DEF InstanceType
  <2>3. /\ y.pc = inst[i].pc /\ y.id = inst[i].id /\ y.inbox = inst[i].inbox
        /\ y.stopped = inst[i].stopped /\ y.killed = inst[i].killed /\ y.cur = inst[i].cur
    BY <1>0 DEF InstanceType
  <2> HIDE DEF y
  <2> QED
    BY <1>0, <2>1, <2>2, <2>3 DEF Moves, Alone, Running, Busy
<1>3. CASE ToolReturns(i)
  <2>1. PICK told \in BOOLEAN : inst' = [inst EXCEPT ![i].told = told]
    BY <1>0, <1>3 DEF ToolReturns
  <2> DEFINE y == [inst[i] EXCEPT !.told = told]
  <2>2. inst' = [inst EXCEPT ![i] = y] /\ inst[i].pc = "turn"
    BY <1>3, <2>1 DEF ToolReturns
  <2>3. y \in InstanceType
    BY <1>0 DEF InstanceType
  <2>4. /\ y.pc = inst[i].pc /\ y.id = inst[i].id /\ y.inbox = inst[i].inbox
        /\ y.stopped = inst[i].stopped /\ y.killed = inst[i].killed /\ y.cur = inst[i].cur
    BY <1>0 DEF InstanceType
  <2> HIDE DEF y
  <2> QED
    BY <1>0, <2>2, <2>3, <2>4 DEF Moves, Alone, Running, Busy
<1>4. CASE Drained(i)
  BY <1>4, GoesOn DEF Drained, Running, Busy
<1>5. CASE TurnSucceeds(i)
  <2> DEFINE y == [inst[i] EXCEPT !.pc = "report", !.ok = TRUE,
                                  !.hist = @ \union {inst[i].cur}]
  <2>1. inst' = [inst EXCEPT ![i] = y] /\ inst[i].pc = "adopt"
    BY <1>0, <1>5 DEF TurnSucceeds
  <2>2. inst[i].cur \in Items
    BY <2>1 DEF Workers, Busy
  <2>3. y \in InstanceType
    BY <1>0, <2>2 DEF InstanceType
  <2>4. /\ y.pc = "report" /\ y.id = inst[i].id /\ y.inbox = inst[i].inbox
        /\ y.stopped = inst[i].stopped /\ y.killed = inst[i].killed /\ y.cur = inst[i].cur
    BY <1>0 DEF InstanceType
  <2> HIDE DEF y
  <2> QED
    BY <1>0, <2>1, <2>3, <2>4 DEF Moves, Alone, Running, Busy
<1>6. CASE TurnFails(i)
  BY <1>6, GoesOn DEF TurnFails, Running, Busy
<1>7. CASE ReportReturns(i)
  BY <1>7, GoesOn DEF ReportReturns, AfterReport, Running, Busy
<1>8. CASE Save(i)
  BY <1>8, GoesOn DEF Save, Running, Busy
<1>9. CASE Compact(i)
  BY <1>9, GoesOn DEF Compact, Running, Busy
<1>10. CASE Summarise(i)
  BY <1>10, GoesOn DEF Summarise, Running, Busy
<1>11. CASE Resave(i)
  BY <1>11, GoesOn DEF Resave, Running, Busy
<1>12. CASE TakeReload(i)
  <2>1. PICK pc \in {"recycle", "select"} :
          inst' = [inst EXCEPT ![i].pc = pc, ![i].reload = FALSE, ![i].cur = None,
                               ![i].ok = FALSE, ![i].told = FALSE]
    BY <1>12 DEF TakeReload
  <2> DEFINE y == [inst[i] EXCEPT !.pc = pc, !.reload = FALSE, !.cur = None,
                                  !.ok = FALSE, !.told = FALSE]
  <2>2. inst' = [inst EXCEPT ![i] = y] /\ inst[i].pc = "boundary"
    BY <1>0, <1>12, <2>1 DEF TakeReload
  <2>3. y \in InstanceType
    BY <1>0 DEF InstanceType
  <2>4. /\ y.pc = pc /\ y.id = inst[i].id /\ y.inbox = inst[i].inbox
        /\ y.stopped = inst[i].stopped /\ y.killed = inst[i].killed
    BY <1>0 DEF InstanceType
  <2> HIDE DEF y
  <2> QED
    BY <1>0, <2>2, <2>3, <2>4 DEF Moves, Alone, Running, Busy
<1> QED
  BY <1>1, <1>2, <1>3, <1>4, <1>5, <1>6, <1>7, <1>8, <1>9, <1>10, <1>11, <1>12 DEF Works

\* The steps of a goroutine end a call of its own, or no call.
LEMMA WorksCalls ==
  ASSUME TypeOK, NEW i \in Instances, Works(i)
  PROVE  /\ UNCHANGED <<agents, posted>>
         /\ \/ UNCHANGED send
            \/ Calling(i) /\ send[i].pc = "done" /\ send'[i] = Idle
BY SendStates
   DEF Works, BeginTurn, CreateSkill, ToolReturns, Drained, TurnSucceeds, TurnFails,
       ReportReturns, Save, Compact, Summarise, Resave, TakeReload, TypeOK, Calling, Senders

\* Somebody sets out to send an item to an agent.
Sets(s, a, it) == /\ Calling(s) /\ send'[s] = SendTo(a, it)
                  /\ posted' = posted \union {it}
                  /\ UNCHANGED <<agents, inst, begun>>

\* A handler's call.
LEMMA PostSets ==
  ASSUME TypeOK, NEW c \in Callers, NEW a \in Agents, NEW m \in Messages, Post(c, a, m)
  PROVE  Sets(c, a, Task(m, None)) /\ Task(m, None) \in Items /\ ~ Flying(c)
BY SendStates, ItemsMade, TeamAssumption DEF TypeOK, Post, Sets, Calling, Senders, Flying

\* The boss's call.
LEMMA DelegateSets ==
  ASSUME TypeOK, NEW i \in Instances, NEW b \in Agents, NEW m \in Messages, Delegate(i, b, m)
  PROVE  Sets(i, b, Task(m, Boss)) /\ Task(m, Boss) \in Items /\ ~ Flying(i)
BY SendStates, ItemsMade, TeamAssumption DEF TypeOK, Delegate, Sets, Calling, Senders, Flying

\* A worker's note.
LEMMA NoteSets ==
  ASSUME TypeOK, Workers, NEW i \in Instances, MessageAgent(i)
  PROVE  /\ Sets(i, inst[i].cur.reply, Answer(inst[i].cur, "note"))
         /\ inst[i].cur \in Items /\ inst[i].cur.reply \in Agents
         /\ Answer(inst[i].cur, "note") \in Items /\ ~ Flying(i)
<1>1. inst[i].cur \in Items /\ inst[i].cur.reply \in Agents
  BY DEF MessageAgent, Workers, Busy, Items
<1> QED
  BY <1>1, SendStates, ItemsMade, TeamAssumption
     DEF TypeOK, MessageAgent, Sets, Calling, Senders, Flying

\* A report: nothing to tell, or a call.
LEMMA ReportSets ==
  ASSUME TypeOK, Workers, NEW i \in Instances, Report(i)
  PROVE  /\ inst[i].cur \in Items /\ ~ Flying(i)
         /\ Answer(inst[i].cur, "report") \in Items
         /\ \/ /\ Moves(i) /\ inst'[i].pc \in {"save", "compact"}
               /\ UNCHANGED <<agents, send, posted, begun>>
            \/ /\ inst[i].cur.reply \in Agents
               /\ Sets(i, inst[i].cur.reply, Answer(inst[i].cur, "report"))
<1>1. inst[i].cur \in Items
  BY DEF Report, Workers, Busy
<1>2. Answer(inst[i].cur, "report") \in Items
  BY <1>1, ItemsMade, TeamAssumption
<1>3. CASE inst' = [inst EXCEPT ![i].pc = AfterReport(i)] /\ UNCHANGED <<send, posted>>
  BY <1>1, <1>2, <1>3, GoesOn DEF Report, AfterReport, Phases, Running, Busy, Flying
<1>4. CASE /\ inst[i].cur.reply \notin {None, inst[i].id}
           /\ send' = [send EXCEPT ![i] = SendTo(inst[i].cur.reply, Answer(inst[i].cur, "report"))]
           /\ posted' = posted \union {Answer(inst[i].cur, "report")}
           /\ UNCHANGED inst
  <2>1. inst[i].cur.reply \in Agents
    BY <1>1, <1>4 DEF Items
  <2> QED
    BY <1>1, <1>2, <1>4, <2>1, SendStates DEF Report, TypeOK, Sets, Calling, Senders, Flying
<1> QED
  BY <1>3, <1>4 DEF Report

\* Get, under s.mu.
LEMMA LookupIs ==
  ASSUME TypeOK, Calls, NEW s \in Senders, Lookup(s)
  PROVE  /\ Calling(s) /\ UNCHANGED <<agents, inst, posted, begun>>
         /\ send[s].pc = "get"
         /\ send'[s].to = send[s].to /\ send'[s].item = send[s].item
         /\ \/ send'[s].pc = "new"
            \/ send'[s].pc = "put" /\ send'[s].target \in Instances
<1>1. send[s].to \in Agents /\ agents[send[s].to] \in Instances \union {None}
  BY DEF Lookup, Calls, Flying, TypeOK
<1>2. send[s] \in SendType /\ send \in [Senders -> SendType]
  BY DEF TypeOK
<1>3. ASSUME NEW pc \in {"new", "put"}, NEW i \in Instances \union {None},
             send' = [send EXCEPT ![s].pc = pc, ![s].target = i]
      PROVE  /\ Calling(s)
             /\ send'[s].to = send[s].to /\ send'[s].item = send[s].item
             /\ send'[s].pc = pc /\ send'[s].target = i
  <2> DEFINE y == [send[s] EXCEPT !.pc = pc, !.target = i]
  <2>1. send' = [send EXCEPT ![s] = y]
    BY <1>2, <1>3
  <2>2. /\ y \in SendType /\ y.to = send[s].to /\ y.item = send[s].item
        /\ y.pc = pc /\ y.target = i
    BY <1>2 DEF SendType
  <2> HIDE DEF y
  <2> QED
    BY <1>2, <2>1, <2>2 DEF Calling
<1>4. CASE agents[send[s].to] = None
  <2>1. send' = [send EXCEPT ![s].pc = "new", ![s].target = None]
    BY <1>4 DEF Lookup
  <2>2. send'[s].to = send[s].to /\ send'[s].item = send[s].item /\ send'[s].pc = "new" /\ Calling(s)
    BY <1>3, <2>1
  <2> QED
    BY <2>2 DEF Lookup
<1>5. CASE agents[send[s].to] \in Instances
  BY <1>1, <1>3, <1>5, TeamAssumption DEF Lookup, TeamAssumption
<1> QED
  BY <1>1, <1>4, <1>5

\* The agent is off the roster, or New builds an instance of it.
LEMMA BuildIs ==
  ASSUME TypeOK, Calls, NEW s \in Senders, Build(s)
  PROVE  /\ Calling(s) /\ UNCHANGED <<agents, posted, begun>> /\ send[s].pc = "new"
         /\ \/ send'[s].pc = "done" /\ UNCHANGED inst
            \/ \E i \in Instances :
                 /\ Garbage(i) /\ Alone(i)
                 /\ inst'[i] = NewAgent(send[s].to)
                 /\ send'[s].to = send[s].to /\ send'[s].item = send[s].item
                 /\ send'[s].pc = "start" /\ send'[s].target = i
<1>1. send[s].to \in Agents
  BY DEF Build, Calls, Flying
<1>2. send[s] \in SendType /\ send \in [Senders -> SendType]
  BY DEF TypeOK
<1>3. CASE send' = [send EXCEPT ![s] = Returned(s, "gone")] /\ UNCHANGED inst
  BY <1>2, <1>3, SendStates DEF Build, Calling, Errors
<1>4. ASSUME NEW i \in Instances, Garbage(i), inst' = [inst EXCEPT ![i] = NewAgent(send[s].to)],
             send' = [send EXCEPT ![s].pc = "start", ![s].target = i]
      PROVE  /\ Alone(i) /\ inst'[i] = NewAgent(send[s].to) /\ Calling(s)
             /\ send'[s].to = send[s].to /\ send'[s].item = send[s].item
             /\ send'[s].pc = "start" /\ send'[s].target = i
  <2> DEFINE y == [send[s] EXCEPT !.pc = "start", !.target = i]
  <2>1. send' = [send EXCEPT ![s] = y]
    BY <1>2, <1>4
  <2>2. /\ y \in SendType /\ y.to = send[s].to /\ y.item = send[s].item
        /\ y.pc = "start" /\ y.target = i
    BY <1>2 DEF SendType
  <2> HIDE DEF y
  <2>3. NewAgent(send[s].to) \in InstanceType
    BY <1>1, InstanceStates DEF TypeOK
  <2>4. Alone(i) /\ inst'[i] = NewAgent(send[s].to)
    BY <1>4, <2>3 DEF TypeOK, Alone
  <2> QED
    BY <1>2, <2>1, <2>2, <2>4 DEF Calling
<1> QED
  BY <1>3, <1>4 DEF Build

\* A call that goes on to put, with the instance it is to give its item to.
LEMMA ToPut ==
  ASSUME TypeOK, NEW s \in Senders, NEW i \in Instances,
         send' = [send EXCEPT ![s].pc = "put", ![s].target = i]
  PROVE  /\ Calling(s) /\ send'[s].pc = "put" /\ send'[s].target = i
         /\ send'[s].to = send[s].to /\ send'[s].item = send[s].item
<1>1. send[s] \in SendType /\ send \in [Senders -> SendType]
  BY DEF TypeOK
<1> DEFINE y == [send[s] EXCEPT !.pc = "put", !.target = i]
<1>2. send' = [send EXCEPT ![s] = y]
  BY <1>1
<1>3. /\ y \in SendType /\ y.to = send[s].to /\ y.item = send[s].item
      /\ y.pc = "put" /\ y.target = i
  BY <1>1 DEF SendType
<1> HIDE DEF y
<1> QED
  BY <1>1, <1>2, <1>3 DEF Calling

\* Another caller's instance got there first.
LEMMA StartLostIs ==
  ASSUME TypeOK, Calls, NEW s \in Senders, StartLost(s)
  PROVE  /\ send[s].pc = "start" /\ send[s].target \in Instances
         /\ Alone(send[s].target) /\ inst'[send[s].target] = Unborn
         /\ Calling(s) /\ send'[s].pc = "put"
         /\ send'[s].target = agents[send[s].to] /\ send'[s].target \in Instances
         /\ send'[s].to = send[s].to /\ send'[s].item = send[s].item
         /\ UNCHANGED <<agents, posted, begun>>
<1>1. /\ send[s].pc = "start" /\ send[s].target \in Instances /\ send[s].to \in Agents
      /\ agents[send[s].to] \in Instances
  BY DEF StartLost, Calls, Flying, TypeOK
<1>2. Alone(send[s].target) /\ inst'[send[s].target] = Unborn
  BY <1>1, InstanceStates DEF StartLost, TypeOK, Alone
<1> QED
  BY <1>1, <1>2, ToPut DEF StartLost

\* An instance's record once it is stopped, killed, marked or written to.
LEMMA Marked ==
  ASSUME NEW y \in InstanceType
  PROVE  /\ [y EXCEPT !.stopped = TRUE] \in InstanceType
         /\ [y EXCEPT !.stopped = TRUE].stopped
         /\ [y EXCEPT !.stopped = TRUE].pc = y.pc /\ [y EXCEPT !.stopped = TRUE].id = y.id
         /\ [y EXCEPT !.stopped = TRUE].inbox = y.inbox
         /\ [y EXCEPT !.stopped = TRUE].cur = y.cur
         /\ [y EXCEPT !.stopped = TRUE].killed = y.killed
BY DEF InstanceType

\* stopLocked on whatever the instance is doing.
LEMMA Killed ==
  ASSUME NEW y \in InstanceType
  PROVE  LET z == [y EXCEPT !.stopped = TRUE, !.killed = TRUE]
         IN  /\ z \in InstanceType /\ z.stopped /\ z.killed
             /\ z.pc = y.pc /\ z.id = y.id /\ z.inbox = y.inbox /\ z.cur = y.cur
BY DEF InstanceType

\* The reload flag goes up.
LEMMA Flagged ==
  ASSUME NEW y \in InstanceType
  PROVE  LET z == [y EXCEPT !.reload = TRUE]
         IN  /\ z \in InstanceType /\ z.stopped = y.stopped /\ z.killed = y.killed
             /\ z.pc = y.pc /\ z.id = y.id /\ z.inbox = y.inbox /\ z.cur = y.cur
BY DEF InstanceType

\* The inbox is another.
LEMMA Refilled ==
  ASSUME NEW y \in InstanceType, NEW q \in Seq(Items)
  PROVE  LET z == [y EXCEPT !.inbox = q]
         IN  /\ z \in InstanceType /\ z.inbox = q
             /\ z.pc = y.pc /\ z.id = y.id /\ z.cur = y.cur
             /\ z.stopped = y.stopped /\ z.killed = y.killed
BY DEF InstanceType

\* start puts instance i in the map for agent a: there is room, or an idle
\* agent goes.
Started(s, a, i) ==
  /\ send[s].pc = "start" /\ a \in Agents /\ i \in Instances /\ agents[a] = None
  /\ Calling(s) /\ send'[s].pc = "put" /\ send'[s].target = i
  /\ send'[s].to = a /\ send'[s].item = send[s].item
  /\ inst' \in [Instances -> InstanceType]
  /\ inst'[i] = [inst[i] EXCEPT !.pc = "select"]
  /\ UNCHANGED <<posted, begun>>
  /\ \/ /\ Room(a)
        /\ agents' = [agents EXCEPT ![a] = i]
        /\ \A j \in Instances : j # i => inst'[j] = inst[j]
     \/ \E v \in QuiescableAgents :
          /\ v # a /\ agents[v] \in Instances \ {i}
          /\ agents' = [agents EXCEPT ![v] = None, ![a] = i]
          /\ inst'[agents[v]] = [inst[agents[v]] EXCEPT !.stopped = TRUE]
          /\ \A j \in Instances : j \notin {i, agents[v]} => inst'[j] = inst[j]

\* So it does.
LEMMA StartIs ==
  ASSUME TypeOK, Calls, Starters, MapIsLive, NEW s \in Senders, Start(s)
  PROVE  Started(s, send[s].to, send[s].target)
<1> DEFINE a == send[s].to
           i == send[s].target
<1>1. send[s].pc = "start" /\ a \in Agents /\ i \in Instances /\ agents[a] = None
  BY DEF Start, Calls, Flying
<1>2. /\ Calling(s) /\ send'[s].pc = "put" /\ send'[s].target = i
      /\ send'[s].to = a /\ send'[s].item = send[s].item
  <2>1. send' = [send EXCEPT ![s].pc = "put", ![s].target = i]
    BY <1>1 DEF Start, TypeOK, SendType
  <2> QED
    BY <1>1, <2>1, ToPut
<1>3. inst \in [Instances -> InstanceType] /\ inst[i].pc = "built"
  BY <1>1 DEF TypeOK, Starters
<1>4. [inst[i] EXCEPT !.pc = "select"] \in InstanceType
  BY <1>1, <1>3, AtStatement DEF Phases
<1>5. CASE Room(a) /\ agents' = [agents EXCEPT ![a] = i] /\ inst' = [inst EXCEPT ![i].pc = "select"]
  BY <1>1, <1>2, <1>3, <1>4, <1>5 DEF Start, Started
<1>6. ASSUME NEW v \in QuiescableAgents, agents' = [agents EXCEPT ![v] = None, ![a] = i],
             inst' = [inst EXCEPT ![agents[v]].stopped = TRUE, ![i].pc = "select"]
      PROVE  /\ v # a /\ agents[v] \in Instances \ {i}
             /\ inst' \in [Instances -> InstanceType]
             /\ inst'[i] = [inst[i] EXCEPT !.pc = "select"]
             /\ inst'[agents[v]] = [inst[agents[v]] EXCEPT !.stopped = TRUE]
             /\ \A j \in Instances : j \notin {i, agents[v]} => inst'[j] = inst[j]
  <2>1. v # a /\ agents[v] \in Instances
    BY <1>1, TeamAssumption DEF QuiescableAgents, LiveAgents, TypeOK
  <2>2. Running(agents[v])
    BY DEF QuiescableAgents, MapIsLive
  <2>3. agents[v] # i
    BY <1>3, <2>2 DEF Running
  <2>4. [inst[agents[v]] EXCEPT !.stopped = TRUE] \in InstanceType
    BY <1>3, <2>1, Marked
  <2>5. inst' = [inst EXCEPT ![agents[v]] = [inst[agents[v]] EXCEPT !.stopped = TRUE],
                             ![i] = [inst[i] EXCEPT !.pc = "select"]]
    BY <1>1, <1>3, <1>6, <2>1, <2>3
  <2> QED
    BY <1>1, <1>3, <1>4, <2>1, <2>3, <2>4, <2>5
<1>7. \/ Room(a) /\ agents' = [agents EXCEPT ![a] = i] /\ inst' = [inst EXCEPT ![i].pc = "select"]
      \/ \E v \in QuiescableAgents :
           /\ agents' = [agents EXCEPT ![v] = None, ![a] = i]
           /\ inst' = [inst EXCEPT ![agents[v]].stopped = TRUE, ![i].pc = "select"]
  BY DEF Start
<1>8. UNCHANGED <<posted, begun>>
  BY DEF Start
<1> QED
  BY <1>1, <1>2, <1>5, <1>6, <1>7, <1>8 DEF Started

\* ErrNoCapacity.
LEMMA StartRefusedIs ==
  ASSUME TypeOK, Calls, NEW s \in Senders, StartRefused(s)
  PROVE  /\ send[s].pc = "start" /\ send[s].target \in Instances
         /\ Alone(send[s].target) /\ inst'[send[s].target] = Unborn
         /\ Calling(s) /\ send'[s].pc = "done"
         /\ UNCHANGED <<agents, posted, begun>>
<1>1. send[s].pc = "start" /\ send[s].target \in Instances
  BY DEF StartRefused, Calls
<1>2. Alone(send[s].target) /\ inst'[send[s].target] = Unborn
  BY <1>1, InstanceStates DEF StartRefused, TypeOK, Alone
<1>3. Calling(s) /\ send'[s].pc = "done"
  BY SendStates DEF StartRefused, TypeOK, Calling, Errors
<1> QED
  BY <1>1, <1>2, <1>3 DEF StartRefused

\* enqueue, and sendTo's second try or its return.
LEMMA PutIs ==
  ASSUME TypeOK, Calls, NEW s \in Senders, Put(s), NEW i, i = send[s].target
  PROVE  /\ send[s].pc = "put" /\ i \in Instances /\ Calling(s)
         /\ UNCHANGED <<agents, posted, begun>>
         /\ \/ /\ UNCHANGED inst /\ send'[s].pc = "get"
               /\ send'[s].to = send[s].to /\ send'[s].item = send[s].item
            \/ UNCHANGED inst /\ send'[s].pc = "done"
            \/ /\ send'[s].pc = "done" /\ ~inst[i].stopped /\ Alone(i)
               /\ inst'[i] = [inst[i] EXCEPT !.inbox = Append(@, send[s].item)]
<1>1. send[s].pc = "put" /\ i \in Instances /\ send[s].item \in Items
  BY DEF Put, Calls, Flying
<1>2. /\ send[s] \in SendType /\ send \in [Senders -> SendType]
      /\ inst \in [Instances -> InstanceType]
  BY DEF TypeOK
<1>3. CASE /\ send' = [send EXCEPT ![s] = [@ EXCEPT !.pc = "get", !.attempt = 1, !.target = None]]
           /\ UNCHANGED inst
  <2> DEFINE y == [send[s] EXCEPT !.pc = "get", !.attempt = 1, !.target = None]
  <2>1. send' = [send EXCEPT ![s] = y]
    BY <1>3
  <2>2. y \in SendType /\ y.pc = "get" /\ y.to = send[s].to /\ y.item = send[s].item
    BY <1>2 DEF SendType
  <2> HIDE DEF y
  <2>3. Calling(s) /\ send'[s] = y
    BY <1>2, <2>1, <2>2 DEF Calling
  <2> QED
    BY <1>1, <1>3, <2>2, <2>3 DEF Put
<1>4. ASSUME NEW e \in Errors, send' = [send EXCEPT ![s] = Returned(s, e)]
      PROVE  Calling(s) /\ send'[s].pc = "done"
  BY <1>2, <1>4, SendStates DEF Calling
<1>5. ASSUME inst' = [inst EXCEPT ![i].inbox = Append(@, send[s].item)]
      PROVE  Alone(i) /\ inst'[i] = [inst[i] EXCEPT !.inbox = Append(@, send[s].item)]
  <2> DEFINE y == [inst[i] EXCEPT !.inbox = Append(@, send[s].item)]
  <2>1. inst' = [inst EXCEPT ![i] = y]
    BY <1>5
  <2>2. inst[i].inbox \in Seq(Items)
    BY <1>1, <1>2 DEF InstanceType
  <2>3. Append(inst[i].inbox, send[s].item) \in Seq(Items)
    BY <1>1, <2>2, Appended
  <2>4. y \in InstanceType
    <3>1. \A q \in Seq(Items) : [inst[i] EXCEPT !.inbox = q] \in InstanceType
      BY <1>1, <1>2, Refilled
    <3>2. y = [inst[i] EXCEPT !.inbox = Append(inst[i].inbox, send[s].item)]
      OBVIOUS
    <3> QED
      BY <2>3, <3>1, <3>2
  <2> HIDE DEF y
  <2>5. Alone(i) /\ inst'[i] = y
    BY <1>1, <1>2, <2>1, <2>4 DEF Alone
  <2> QED
    BY <2>5 DEF y
<1>6. UNCHANGED <<agents, posted, begun>>
  BY DEF Put
<1>7. \/ /\ send' = [send EXCEPT ![s] = [@ EXCEPT !.pc = "get", !.attempt = 1, !.target = None]]
         /\ UNCHANGED inst
      \/ \E e \in Errors : send' = [send EXCEPT ![s] = Returned(s, e)] /\ UNCHANGED inst
      \/ /\ \E e \in Errors : send' = [send EXCEPT ![s] = Returned(s, e)]
         /\ ~inst[i].stopped
         /\ inst' = [inst EXCEPT ![i].inbox = Append(@, send[s].item)]
  <2> USE DEF Errors
  <2>1. CASE inst[i].stopped
    BY <2>1 DEF Put
  <2>2. CASE ~inst[i].stopped
    BY <2>2 DEF Put
  <2> QED
    BY <2>1, <2>2
<1> QED
  BY <1>1, <1>3, <1>4, <1>5, <1>6, <1>7

\* The select takes the inbox.
LEMMA ReceiveIs ==
  ASSUME TypeOK, NEW i \in Instances, Receive(i)
  PROVE  /\ UNCHANGED <<agents, send, posted, begun>>
         /\ inst[i].pc = "select" /\ inst[i].inbox \in Seq(Items) /\ inst[i].inbox # <<>>
         /\ Alone(i)
         /\ inst'[i].pc = "taken" /\ inst'[i].cur = Head(inst[i].inbox)
         /\ inst'[i].inbox = Tail(inst[i].inbox)
         /\ inst'[i].id = inst[i].id /\ inst'[i].stopped = inst[i].stopped
         /\ inst'[i].killed = inst[i].killed
<1>1. inst[i] \in InstanceType /\ inst \in [Instances -> InstanceType]
  BY DEF TypeOK
<1>2. inst[i].inbox \in Seq(Items) /\ inst[i].inbox # <<>>
  BY <1>1 DEF Receive, InstanceType
<1>3. Head(inst[i].inbox) \in Items /\ Tail(inst[i].inbox) \in Seq(Items)
  BY <1>2, Popped
<1> DEFINE y == [inst[i] EXCEPT !.pc = "taken", !.cur = Head(inst[i].inbox), !.inbox = Tail(@)]
<1>4. inst' = [inst EXCEPT ![i] = y]
  BY <1>1 DEF Receive
<1>5. y \in InstanceType
  BY <1>1, <1>3 DEF InstanceType, Phases
<1>6. /\ y.pc = "taken" /\ y.cur = Head(inst[i].inbox) /\ y.inbox = Tail(inst[i].inbox)
      /\ y.id = inst[i].id /\ y.stopped = inst[i].stopped /\ y.killed = inst[i].killed
  BY <1>1 DEF InstanceType
<1> HIDE DEF y
<1>7. Alone(i) /\ inst'[i] = y
  BY <1>1, <1>4, <1>5 DEF Alone
<1> QED
  BY <1>2, <1>6, <1>7 DEF Receive

\* The select takes ctx.Done().
LEMMA StopRunIs ==
  ASSUME TypeOK, NEW i \in Instances, StopRun(i)
  PROVE  /\ UNCHANGED <<agents, send, posted, begun>>
         /\ inst[i].pc = "select" /\ inst[i].stopped /\ Alone(i)
         /\ inst'[i].pc = "exited" /\ inst'[i].stopped /\ inst'[i].inbox = inst[i].inbox
         /\ inst'[i].killed = inst[i].killed
<1>1. inst[i] \in InstanceType /\ inst \in [Instances -> InstanceType]
  BY DEF TypeOK
<1> DEFINE y == [Unborn EXCEPT !.pc = "exited", !.stopped = TRUE,
                               !.killed = inst[i].killed, !.inbox = inst[i].inbox]
<1>2. inst' = [inst EXCEPT ![i] = y]
  BY DEF StopRun
<1>3. y \in InstanceType
  BY <1>1, InstanceStates DEF InstanceType, Phases
<1>4. y.pc = "exited" /\ y.stopped /\ y.inbox = inst[i].inbox /\ y.killed = inst[i].killed
  BY DEF Unborn
<1> HIDE DEF y
<1>5. Alone(i) /\ inst'[i] = y
  BY <1>1, <1>2, <1>3 DEF Alone
<1> QED
  BY <1>4, <1>5 DEF StopRun

\* A set of agents loses its live instances; one at recycle goes on.
Halts(V) ==
  /\ V \subseteq LiveAgents
  /\ agents' \in [Agents -> Instances \union {None}]
  /\ \A a \in Agents : agents'[a] = IF a \in V THEN None ELSE agents[a]
  /\ inst' \in [Instances -> InstanceType]
  /\ \A i \in Instances :
       /\ inst'[i].id = inst[i].id /\ inst'[i].inbox = inst[i].inbox
       /\ inst'[i].cur = inst[i].cur
       /\ inst'[i].stopped <=> (inst[i].stopped \/ \E a \in V : agents[a] = i)
       /\ inst'[i].killed = inst[i].killed \/ inst'[i].killed
       /\ (\E a \in V : agents[a] = i) => inst[i].inbox = <<>> \/ inst'[i].killed
       /\ \/ inst'[i].pc = inst[i].pc
          \/ inst[i].pc = "recycle" /\ inst'[i].pc = "select"
  /\ UNCHANGED <<send, posted, begun>>

\* EvictIdle.
LEMMA EvictHalts ==
  ASSUME TypeOK, EvictIdle
  PROVE  Halts(QuiescableAgents)
<1> DEFINE V == QuiescableAgents
<1>1. V \subseteq LiveAgents /\ \A a \in V : Quiescable(agents[a])
  BY DEF QuiescableAgents
<1>2. agents \in [Agents -> Instances \union {None}] /\ inst \in [Instances -> InstanceType]
  BY DEF TypeOK
<1>3. /\ agents' \in [Agents -> Instances \union {None}]
      /\ \A a \in Agents : agents'[a] = IF a \in V THEN None ELSE agents[a]
  BY <1>2 DEF EvictIdle
<1>4. inst' = [i \in Instances |-> IF \E a \in V : agents[a] = i
                                   THEN [inst[i] EXCEPT !.stopped = TRUE] ELSE inst[i]]
  BY DEF EvictIdle
<1> HIDE DEF V
<1>5. ASSUME NEW i \in Instances, \E a \in V : agents[a] = i
      PROVE  /\ inst'[i] = [inst[i] EXCEPT !.stopped = TRUE]
             /\ inst[i].inbox = <<>>
  BY <1>1, <1>4, <1>5 DEF Quiescable
<1>6. ASSUME NEW i \in Instances, ~ \E a \in V : agents[a] = i
      PROVE  inst'[i] = inst[i]
  BY <1>4, <1>6
<1>7. inst' \in [Instances -> InstanceType]
  <2>1. \A i \in Instances : inst'[i] \in InstanceType
    BY <1>2, <1>5, <1>6, Marked
  <2>2. inst' = [i \in Instances |-> inst'[i]]
    BY <1>4
  <2> QED
    BY <2>1, <2>2
<1>8. UNCHANGED <<send, posted, begun>>
  BY DEF EvictIdle
<1>9. ASSUME NEW i \in Instances
      PROVE  /\ inst'[i].id = inst[i].id /\ inst'[i].inbox = inst[i].inbox
             /\ inst'[i].cur = inst[i].cur /\ inst'[i].killed = inst[i].killed
             /\ inst'[i].stopped <=> (inst[i].stopped \/ \E a \in V : agents[a] = i)
             /\ (\E a \in V : agents[a] = i) => inst[i].inbox = <<>>
             /\ inst'[i].pc = inst[i].pc
  <2>1. CASE \E a \in V : agents[a] = i
    <3>1. inst'[i] = [inst[i] EXCEPT !.stopped = TRUE] /\ inst[i].inbox = <<>>
      BY <1>5, <2>1
    <3>2. inst[i] \in InstanceType
      BY <1>2
    <3> QED
      BY <2>1, <3>1, <3>2, Marked
  <2>2. CASE ~ \E a \in V : agents[a] = i
    BY <1>6, <2>2
  <2> QED
    BY <2>1, <2>2
<1>10. Halts(V)
  BY <1>1, <1>3, <1>7, <1>8, <1>9 DEF Halts
<1> QED
  BY <1>10 DEF V

\* One agent loses its instance, which was idle or is killed.
LEMMA OneHalts ==
  ASSUME TypeOK, MapIsLive, NEW a \in LiveAgents, NEW y \in InstanceType,
         inst' = [inst EXCEPT ![agents[a]] = y],
         agents' = [agents EXCEPT ![a] = None],
         y.id = inst[agents[a]].id, y.inbox = inst[agents[a]].inbox,
         y.cur = inst[agents[a]].cur, y.stopped,
         y.killed = inst[agents[a]].killed \/ y.killed,
         y.inbox = <<>> \/ y.killed,
         \/ y.pc = inst[agents[a]].pc
         \/ inst[agents[a]].pc = "recycle" /\ y.pc = "select",
         UNCHANGED <<send, posted, begun>>
  PROVE  Halts({a})
<1>1. a \in Agents /\ agents[a] \in Instances /\ {a} \subseteq LiveAgents
  BY DEF LiveAgents, TypeOK
<1>2. /\ agents' \in [Agents -> Instances \union {None}]
      /\ \A b \in Agents : agents'[b] = IF b \in {a} THEN None ELSE agents[b]
  BY <1>1 DEF TypeOK
<1>3. /\ inst' \in [Instances -> InstanceType] /\ inst'[agents[a]] = y
      /\ \A j \in Instances : j # agents[a] => inst'[j] = inst[j]
  BY <1>1 DEF TypeOK
<1>4. \A i \in Instances : (\E b \in {a} : agents[b] = i) <=> i = agents[a]
  OBVIOUS
<1> QED
  BY <1>1, <1>2, <1>3, <1>4 DEF Halts

\* refresh.
LEMMA RefreshHalts ==
  ASSUME TypeOK, MapIsLive, NEW a \in Agents, Refresh(a)
  PROVE  \E V \in SUBSET Agents : Halts(V)
<1> DEFINE i == agents[a]
<1>1. inst \in [Instances -> InstanceType] /\ agents \in [Agents -> Instances \union {None}]
  BY DEF TypeOK
<1>2. CASE UNCHANGED <<inst, agents>>
  <2>1. Halts({})
    BY <1>1, <1>2 DEF Halts, Refresh
  <2> QED
    BY <2>1
<1>3. CASE /\ a \in QuiescableAgents /\ inst' = [inst EXCEPT ![i].stopped = TRUE]
           /\ agents' = [agents EXCEPT ![a] = None]
  <2>1. a \in LiveAgents /\ i \in Instances /\ inst[i].inbox = <<>>
    BY <1>1, <1>3 DEF QuiescableAgents, LiveAgents, Quiescable
  <2> DEFINE y == [inst[i] EXCEPT !.stopped = TRUE]
  <2>2. inst' = [inst EXCEPT ![i] = y] /\ inst[i] \in InstanceType
    BY <1>1, <1>3, <2>1
  <2>3. /\ y \in InstanceType
        /\ y.pc = inst[i].pc /\ y.id = inst[i].id /\ y.inbox = inst[i].inbox
        /\ y.stopped /\ y.killed = inst[i].killed /\ y.cur = inst[i].cur
    BY <2>2, Marked
  <2>4. UNCHANGED <<send, posted, begun>>
    BY DEF Refresh
  <2> HIDE DEF y
  <2>5. Halts({a})
    BY <1>3, <2>1, <2>2, <2>3, <2>4, OneHalts
  <2> QED
    BY <2>5
<1>4. CASE /\ i # None /\ inst' = [inst EXCEPT ![i].reload = TRUE] /\ UNCHANGED agents
  <2> DEFINE y == [inst[i] EXCEPT !.reload = TRUE]
  <2>1. i \in Instances /\ inst' = [inst EXCEPT ![i] = y]
    BY <1>1, <1>4
  <2>2. inst[i] \in InstanceType
    BY <1>1, <2>1
  <2>3. /\ y \in InstanceType
        /\ y.pc = inst[i].pc /\ y.id = inst[i].id /\ y.inbox = inst[i].inbox
        /\ y.stopped = inst[i].stopped /\ y.killed = inst[i].killed /\ y.cur = inst[i].cur
    BY <2>2, Flagged
  <2> HIDE DEF y
  <2>4. /\ inst' \in [Instances -> InstanceType] /\ inst'[i] = y
        /\ \A j \in Instances : j # i => inst'[j] = inst[j]
    BY <1>1, <2>1, <2>3
  <2>5. Halts({})
    BY <1>1, <1>4, <2>3, <2>4 DEF Halts, Refresh
  <2> QED
    BY <2>5
<1> QED
  BY <1>2, <1>3, <1>4 DEF Refresh

\* Delete's stopLocked.
LEMMA StopDeletedHalts ==
  ASSUME TypeOK, MapIsLive, NEW a \in Agents, StopDeleted(a)
  PROVE  \E V \in SUBSET Agents : Halts(V)
<1> DEFINE i == agents[a]
<1>1. inst \in [Instances -> InstanceType] /\ agents \in [Agents -> Instances \union {None}]
  BY DEF TypeOK
<1>2. CASE i = None
  <2>1. UNCHANGED <<inst, agents, send, posted, begun>>
    BY <1>1, <1>2 DEF StopDeleted
  <2>2. Halts({})
    BY <1>1, <2>1 DEF Halts
  <2> QED
    BY <2>2
<1>3. CASE i # None
  <2> DEFINE y == [inst[i] EXCEPT !.stopped = TRUE, !.killed = TRUE]
  <2>1. i \in Instances /\ inst' = [inst EXCEPT ![i] = y] /\ a \in LiveAgents
    BY <1>1, <1>3 DEF StopDeleted, LiveAgents
  <2>2. inst[i] \in InstanceType
    BY <1>1, <2>1
  <2>3. /\ y \in InstanceType
        /\ y.pc = inst[i].pc /\ y.id = inst[i].id /\ y.inbox = inst[i].inbox
        /\ y.stopped /\ y.killed /\ y.cur = inst[i].cur
    BY <2>2, Killed
  <2>4. /\ agents' = [agents EXCEPT ![a] = None]
        /\ UNCHANGED <<send, posted, begun>>
    BY DEF StopDeleted
  <2>5. y.killed = inst[i].killed \/ y.killed
    BY <2>3
  <2> HIDE DEF y
  <2>6. Halts({a})
    BY <2>1, <2>3, <2>4, <2>5, OneHalts
  <2> QED
    BY <2>6
<1> QED
  BY <1>2, <1>3

\* Recycle: the instance that asks need not be the one that is stopped.
LEMMA RecycleHalts ==
  ASSUME TypeOK, Workers, MapIsLive, NEW i \in Instances, Recycle(i)
  PROVE  \E V \in SUBSET Agents : Halts(V)
<1> DEFINE a == inst[i].id
           j == agents[a]
<1>1. inst \in [Instances -> InstanceType] /\ agents \in [Agents -> Instances \union {None}]
  BY DEF TypeOK
<1>2. inst[i].pc = "recycle" /\ a \in Agents /\ UNCHANGED <<send, posted, begun>>
  BY DEF Recycle, Workers, Running
<1>3. CASE /\ a \in QuiescableAgents
           /\ inst' = [inst EXCEPT ![i].pc = "select", ![j].stopped = TRUE]
           /\ agents' = [agents EXCEPT ![a] = None]
  <2>1. a \in LiveAgents /\ j \in Instances /\ inst[j].inbox = <<>>
    BY <1>1, <1>2, <1>3 DEF QuiescableAgents, LiveAgents, Quiescable
  <2>2. CASE i = j
    <3> DEFINE y == [inst[i] EXCEPT !.pc = "select", !.stopped = TRUE]
    <3>1. inst' = [inst EXCEPT ![j] = y]
      BY <1>1, <1>3, <2>2
    <3>2. /\ y \in InstanceType
          /\ y.pc = "select" /\ y.id = inst[i].id /\ y.inbox = inst[i].inbox
          /\ y.stopped /\ y.killed = inst[i].killed /\ y.cur = inst[i].cur
      <4> DEFINE z == [inst[i] EXCEPT !.pc = "select"]
      <4>1. inst[i] \in InstanceType /\ "select" \in Phases
        BY <1>1 DEF Phases
      <4>2. /\ z \in InstanceType
            /\ z.pc = "select" /\ z.id = inst[i].id /\ z.inbox = inst[i].inbox
            /\ z.killed = inst[i].killed /\ z.cur = inst[i].cur
        BY <4>1, AtStatement
      <4>3. y = [z EXCEPT !.stopped = TRUE]
        OBVIOUS
      <4> HIDE DEF y, z
      <4> QED
        BY <4>2, <4>3, Marked
    <3> HIDE DEF y
    <3>3. Halts({a})
      BY <1>2, <1>3, <2>1, <2>2, <3>1, <3>2, OneHalts
    <3> QED
      BY <1>2, <3>3
  <2>3. CASE i # j
    <3> DEFINE x == [inst[i] EXCEPT !.pc = "select"]
               y == [inst[j] EXCEPT !.stopped = TRUE]
    <3>1. inst' = [inst EXCEPT ![i] = x, ![j] = y]
      BY <1>1, <1>3, <2>1, <2>3
    <3>0. "select" \in Phases /\ inst[i] \in InstanceType
      BY <1>1 DEF Phases
    <3>2. /\ x \in InstanceType
          /\ x.pc = "select" /\ x.id = inst[i].id /\ x.inbox = inst[i].inbox
          /\ x.stopped = inst[i].stopped /\ x.killed = inst[i].killed /\ x.cur = inst[i].cur
      BY <3>0, AtStatement
    <3>3. /\ y \in InstanceType
          /\ y.pc = inst[j].pc /\ y.id = inst[j].id /\ y.inbox = inst[j].inbox
          /\ y.stopped /\ y.killed = inst[j].killed /\ y.cur = inst[j].cur
      BY <1>1, <2>1, Marked
    <3> HIDE DEF x, y
    <3>4. /\ inst' \in [Instances -> InstanceType] /\ inst'[i] = x /\ inst'[j] = y
          /\ \A k \in Instances : k \notin {i, j} => inst'[k] = inst[k]
      BY <1>1, <2>1, <2>3, <3>1, <3>2, <3>3
    <3>5. /\ {a} \subseteq LiveAgents
          /\ agents' \in [Agents -> Instances \union {None}]
          /\ \A b \in Agents : agents'[b] = IF b \in {a} THEN None ELSE agents[b]
      BY <1>1, <1>2, <1>3, <2>1
    <3>6. \A k \in Instances : (\E b \in {a} : agents[b] = k) <=> k = j
      OBVIOUS
    <3> HIDE DEF a, j
    <3>7. Halts({a})
      BY <1>2, <2>1, <2>3, <3>2, <3>3, <3>4, <3>5, <3>6 DEF Halts
    <3> QED
      BY <1>2, <3>7
  <2> QED
    BY <2>2, <2>3
<1>4. CASE inst' = [inst EXCEPT ![i].pc = "select", ![i].reload = TRUE] /\ UNCHANGED agents
  <2> DEFINE y == [inst[i] EXCEPT !.pc = "select", !.reload = TRUE]
             z == [inst[i] EXCEPT !.pc = "select"]
  <2>1. inst' = [inst EXCEPT ![i] = y]
    BY <1>1, <1>4
  <2>z. /\ z \in InstanceType
        /\ z.pc = "select" /\ z.id = inst[i].id /\ z.inbox = inst[i].inbox
        /\ z.stopped = inst[i].stopped /\ z.killed = inst[i].killed /\ z.cur = inst[i].cur
    <3>1. inst[i] \in InstanceType /\ "select" \in Phases
      BY <1>1 DEF Phases
    <3> QED
      BY <3>1, AtStatement
  <2>y. y = [z EXCEPT !.reload = TRUE]
    OBVIOUS
  <2> HIDE DEF y, z
  <2>2. y \in InstanceType
    BY <2>z, <2>y, Flagged
  <2>3. /\ y.pc = "select" /\ y.id = inst[i].id /\ y.inbox = inst[i].inbox
        /\ y.stopped = inst[i].stopped /\ y.killed = inst[i].killed /\ y.cur = inst[i].cur
    BY <2>z, <2>y, Flagged
  <2> HIDE DEF y
  <2>4. /\ inst' \in [Instances -> InstanceType] /\ inst'[i] = y
        /\ \A k \in Instances : k # i => inst'[k] = inst[k]
    BY <1>1, <2>1, <2>2
  <2>5. Halts({})
    BY <1>1, <1>2, <1>4, <2>3, <2>4 DEF Halts
  <2> QED
    BY <2>5
<1> QED
  BY <1>3, <1>4 DEF Recycle

-----------------------------------------------------------------------------
(* Which instance is whose.                                                *)

\* What TeamInv says besides the types.
Whose == Calls /\ Workers /\ Starters /\ OwnStarters /\ MapIsLive /\ StoppedInboxEmpty

\* Nothing of it changed.
LEMMA NothingKeepsWhose ==
  ASSUME TeamInv, UNCHANGED <<agents, inst, send>>
  PROVE  Whose'
<1> USE DEF TeamInv
<1>2. Calls'
  BY DEF Calls, Flying, TypeOK
<1>3. Workers'
  BY DEF Workers, Running, Busy, TypeOK
<1>4. Starters'
  BY DEF Starters, OwnStarters, Calls, Running, TypeOK
<1>o. OwnStarters'
  BY DEF OwnStarters, TypeOK
<1>5. MapIsLive'
  BY DEF MapIsLive, Workers, LiveAgents, Running, TypeOK
<1>6. StoppedInboxEmpty'
  BY DEF StoppedInboxEmpty, TypeOK
<1> QED
  BY <1>2, <1>3, <1>4, <1>o, <1>5, <1>6 DEF Whose

\* A call begins.
LEMMA SetsKeepWhose ==
  ASSUME TeamInv, NEW s \in Senders, NEW a \in Agents, NEW it \in Items, Sets(s, a, it)
  PROVE  Whose'
<1> USE DEF TeamInv
<1>1. /\ UNCHANGED <<agents, inst>>
      /\ \A t \in Senders : t # s => send'[t] = send[t]
      /\ send'[s].pc = "get" /\ send'[s].to = a /\ send'[s].item = it
  BY SendStates DEF Sets, Calling
<1>2. Calls'
  BY <1>1 DEF Calls, Flying, TypeOK
<1>3. Workers'
  BY <1>1 DEF Workers, Running, Busy, TypeOK
<1>4. Starters'
  BY <1>1 DEF Starters, OwnStarters, Calls, Running, TypeOK
<1>o. OwnStarters'
  BY <1>1 DEF OwnStarters, TypeOK
<1>5. MapIsLive'
  BY <1>1 DEF MapIsLive, Workers, LiveAgents, Running, TypeOK
<1>6. StoppedInboxEmpty'
  BY <1>1 DEF StoppedInboxEmpty, TypeOK
<1> QED
  BY <1>2, <1>3, <1>4, <1>o, <1>5, <1>6 DEF Whose

\* A goroutine goes on, with a call of its own over or not.
LEMMA MovesKeepWhose ==
  ASSUME TeamInv, NEW i \in Instances, Moves(i), UNCHANGED agents,
         UNCHANGED send \/ (Calling(i) /\ send'[i] = Idle)
  PROVE  Whose'
<1> USE DEF TeamInv
<1>1. /\ \A j \in Instances : j # i => inst'[j] = inst[j]
      /\ inst'[i].id = inst[i].id /\ inst'[i].inbox = inst[i].inbox
      /\ inst'[i].stopped = inst[i].stopped /\ inst'[i].killed = inst[i].killed
      /\ Running(i) /\ inst'[i].pc \notin {"unborn", "built", "exited"}
      /\ Busy(i)' => Busy(i) /\ inst'[i].cur = inst[i].cur
      /\ \A t \in Senders : send'[t] = send[t] \/ send'[t].pc = "idle"
  BY SendStates DEF Moves, Alone, Calling
<1>2. Calls'
  BY <1>1 DEF Calls, Flying, TypeOK
<1>3. Workers'
  BY <1>1 DEF Workers, Running, Busy, TypeOK
<1>4. Starters'
  BY <1>1 DEF Starters, OwnStarters, Calls, Running, TypeOK
<1>o. OwnStarters'
  BY <1>1 DEF OwnStarters, TypeOK
<1>5. MapIsLive'
  BY <1>1 DEF MapIsLive, Workers, LiveAgents, Running, TypeOK
<1>6. StoppedInboxEmpty'
  BY <1>1 DEF StoppedInboxEmpty, TypeOK
<1> QED
  BY <1>2, <1>3, <1>4, <1>o, <1>5, <1>6 DEF Whose

\* A message is taken.
LEMMA ReceiveKeepsWhose ==
  ASSUME TeamInv, NEW i \in Instances, Receive(i)
  PROVE  Whose'
<1> USE DEF TeamInv
<1>1. /\ UNCHANGED <<agents, send>>
      /\ inst[i].pc = "select" /\ inst'[i].pc = "taken" /\ inst'[i].cur \in Items
      /\ \A j \in Instances : j # i => inst'[j] = inst[j]
      /\ inst'[i].id = inst[i].id /\ inst'[i].stopped = inst[i].stopped
      /\ inst'[i].killed = inst[i].killed /\ inst[i].inbox # <<>>
  BY ReceiveIs, Popped DEF Alone
<1>a. \A j \in Instances : /\ inst'[j].pc \in {"unborn", "built", "exited"}
                                     <=> inst[j].pc \in {"unborn", "built", "exited"}
                           /\ inst'[j].id = inst[j].id /\ inst'[j].stopped = inst[j].stopped
  BY <1>1
<1>2. Calls'
  BY <1>1 DEF Calls, Flying, TypeOK
<1>3. Workers'
  BY <1>1 DEF Workers, Running, Busy, TypeOK
<1>4. Starters'
  BY <1>1 DEF Starters, OwnStarters, Calls, Running, TypeOK
<1>o. OwnStarters'
  BY <1>1 DEF OwnStarters, TypeOK
<1>5. MapIsLive'
  <2>1. ASSUME NEW j \in Instances, inst'[j].pc \notin {"unborn", "built", "exited"},
               ~ inst'[j].stopped
        PROVE  agents'[inst'[j].id] = j
    BY <1>1, <1>a, <2>1 DEF MapIsLive, Running
  <2>2. ASSUME NEW a \in Agents, agents'[a] # None
        PROVE  /\ inst'[agents'[a]].pc \notin {"unborn", "built", "exited"}
               /\ ~ inst'[agents'[a]].stopped /\ inst'[agents'[a]].id = a
    <3>1. agents'[a] = agents[a] /\ a \in LiveAgents /\ agents[a] \in Instances
      BY <1>1, <2>2 DEF LiveAgents, TypeOK
    <3>2. /\ inst[agents[a]].pc \notin {"unborn", "built", "exited"}
          /\ ~ inst[agents[a]].stopped /\ inst[agents[a]].id = a
      BY <3>1 DEF MapIsLive, Running
    <3> QED
      BY <1>a, <3>1, <3>2
  <2> QED
    BY <2>1, <2>2 DEF MapIsLive, LiveAgents, Running
<1>6. StoppedInboxEmpty'
  BY <1>1 DEF StoppedInboxEmpty, TypeOK
<1> QED
  BY <1>2, <1>3, <1>4, <1>o, <1>5, <1>6 DEF Whose

\* A goroutine ends.
LEMMA StopRunKeepsWhose ==
  ASSUME TeamInv, NEW i \in Instances, StopRun(i)
  PROVE  Whose'
<1> USE DEF TeamInv
<1>1. /\ UNCHANGED <<agents, send>>
      /\ inst[i].pc = "select" /\ inst[i].stopped
      /\ inst'[i].pc = "exited" /\ inst'[i].stopped /\ inst'[i].inbox = inst[i].inbox
      /\ inst'[i].killed = inst[i].killed
      /\ \A j \in Instances : j # i => inst'[j] = inst[j]
  BY StopRunIs DEF Alone
<1>2. Calls'
  BY <1>1 DEF Calls, Flying, TypeOK
<1>3. Workers'
  BY <1>1 DEF Workers, Running, Busy, TypeOK
<1>4. Starters'
  BY <1>1 DEF Starters, OwnStarters, Calls, Running, TypeOK
<1>o. OwnStarters'
  BY <1>1 DEF OwnStarters, TypeOK
<1>5. MapIsLive'
  BY <1>1 DEF MapIsLive, Workers, LiveAgents, Running, TypeOK
<1>6. StoppedInboxEmpty'
  BY <1>1 DEF StoppedInboxEmpty, TypeOK
<1> QED
  BY <1>2, <1>3, <1>4, <1>o, <1>5, <1>6 DEF Whose

\* Get looks the agent up.
LEMMA LookupKeepsWhose ==
  ASSUME TeamInv, NEW s \in Senders, Lookup(s)
  PROVE  Whose'
<1> USE DEF TeamInv
<1>1. /\ UNCHANGED <<agents, inst>> /\ send[s].pc = "get"
      /\ \A t \in Senders : t # s => send'[t] = send[t]
      /\ send'[s].to = send[s].to /\ send'[s].item = send[s].item
      /\ \/ send'[s].pc = "new"
         \/ send'[s].pc = "put" /\ send'[s].target \in Instances
  BY LookupIs DEF Calling
<1>2. Calls'
  BY <1>1 DEF Calls, Flying, TypeOK
<1>3. Workers'
  BY <1>1 DEF Workers, Running, Busy, TypeOK
<1>4. Starters'
  BY <1>1 DEF Starters, OwnStarters, Calls, Running, TypeOK
<1>o. OwnStarters'
  BY <1>1 DEF OwnStarters, TypeOK
<1>5. MapIsLive'
  BY <1>1 DEF MapIsLive, Workers, LiveAgents, Running, TypeOK
<1>6. StoppedInboxEmpty'
  BY <1>1 DEF StoppedInboxEmpty, TypeOK
<1> QED
  BY <1>2, <1>3, <1>4, <1>o, <1>5, <1>6 DEF Whose

\* What New built is thrown away.
LEMMA StartLostKeepsWhose ==
  ASSUME TeamInv, NEW s \in Senders, StartLost(s)
  PROVE  Whose'
<1> USE DEF TeamInv
<1>1. /\ UNCHANGED agents /\ send[s].pc = "start" /\ send[s].target \in Instances
      /\ \A j \in Instances : j # send[s].target => inst'[j] = inst[j]
      /\ inst'[send[s].target].pc = "unborn" /\ ~ inst'[send[s].target].stopped
      /\ \A t \in Senders : t # s => send'[t] = send[t]
      /\ send'[s].pc = "put" /\ send'[s].target \in Instances
      /\ send'[s].to = send[s].to /\ send'[s].item = send[s].item
  BY StartLostIs, InstanceStates DEF Alone, Calling
<1>a. inst[send[s].target].pc = "built"
  BY <1>1 DEF Starters
<1>2. Calls'
  BY <1>1 DEF Calls, Flying, TypeOK
<1>3. Workers'
  BY <1>1, <1>a DEF Workers, Running, Busy, TypeOK
<1>4. Starters'
  BY <1>1, <1>a DEF Starters, OwnStarters, Calls, Running, TypeOK
<1>o. OwnStarters'
  BY <1>1 DEF OwnStarters, TypeOK
<1>5. MapIsLive'
  BY <1>1, <1>a DEF MapIsLive, Workers, LiveAgents, Running, TypeOK
<1>6. StoppedInboxEmpty'
  BY <1>1 DEF StoppedInboxEmpty, TypeOK
<1> QED
  BY <1>2, <1>3, <1>4, <1>o, <1>5, <1>6 DEF Whose

\* So it is when there is no room.
LEMMA StartRefusedKeepsWhose ==
  ASSUME TeamInv, NEW s \in Senders, StartRefused(s)
  PROVE  Whose'
<1> USE DEF TeamInv
<1>1. /\ UNCHANGED agents /\ send[s].pc = "start" /\ send[s].target \in Instances
      /\ \A j \in Instances : j # send[s].target => inst'[j] = inst[j]
      /\ inst'[send[s].target].pc = "unborn" /\ ~ inst'[send[s].target].stopped
      /\ \A t \in Senders : t # s => send'[t] = send[t]
      /\ send'[s].pc = "done"
  BY StartRefusedIs, InstanceStates DEF Alone, Calling
<1>a. inst[send[s].target].pc = "built"
  BY <1>1 DEF Starters
<1>2. Calls'
  BY <1>1 DEF Calls, Flying, TypeOK
<1>3. Workers'
  BY <1>1, <1>a DEF Workers, Running, Busy, TypeOK
<1>4. Starters'
  BY <1>1, <1>a DEF Starters, OwnStarters, Calls, Running, TypeOK
<1>o. OwnStarters'
  BY <1>1 DEF OwnStarters, TypeOK
<1>5. MapIsLive'
  BY <1>1, <1>a DEF MapIsLive, Workers, LiveAgents, Running, TypeOK
<1>6. StoppedInboxEmpty'
  BY <1>1 DEF StoppedInboxEmpty, TypeOK
<1> QED
  BY <1>2, <1>3, <1>4, <1>o, <1>5, <1>6 DEF Whose

\* An item is put on an inbox, or its call returns or goes round.
LEMMA PutKeepsWhose ==
  ASSUME TeamInv, NEW s \in Senders, Put(s)
  PROVE  Whose'
<1> USE DEF TeamInv
<1>0. send[s].target \in Instances /\ inst \in [Instances -> InstanceType]
  BY PutIs DEF TypeOK
<1>q. LET i == send[s].target
      IN  inst'[i] = [inst[i] EXCEPT !.inbox = Append(@, send[s].item)] =>
            /\ inst'[i].pc = inst[i].pc /\ inst'[i].id = inst[i].id /\ inst'[i].cur = inst[i].cur
            /\ inst'[i].stopped = inst[i].stopped /\ inst'[i].killed = inst[i].killed
  BY <1>0 DEF InstanceType
<1>1. /\ UNCHANGED agents /\ send[s].pc = "put"
      /\ \A t \in Senders : t # s => send'[t] = send[t]
      /\ \/ send'[s].pc = "get" /\ send'[s].to = send[s].to /\ send'[s].item = send[s].item
         \/ send'[s].pc = "done"
      /\ \A j \in Instances :
           \/ inst'[j] = inst[j]
           \/ /\ inst'[j].pc = inst[j].pc /\ inst'[j].id = inst[j].id /\ inst'[j].cur = inst[j].cur
              /\ inst'[j].stopped = inst[j].stopped /\ inst'[j].killed = inst[j].killed
              /\ ~inst[j].stopped
  BY <1>0, <1>q, PutIs DEF Alone, Calling
<1>2. Calls'
  BY <1>1 DEF Calls, Flying, TypeOK
<1>3. Workers'
  BY <1>1 DEF Workers, Running, Busy, TypeOK
<1>4. Starters'
  BY <1>1 DEF Starters, OwnStarters, Calls, Running, TypeOK
<1>o. OwnStarters'
  BY <1>1 DEF OwnStarters, TypeOK
<1>5. MapIsLive'
  BY <1>1 DEF MapIsLive, Workers, LiveAgents, Running, TypeOK
<1>6. StoppedInboxEmpty'
  BY <1>1 DEF StoppedInboxEmpty, TypeOK
<1> QED
  BY <1>2, <1>3, <1>4, <1>o, <1>5, <1>6 DEF Whose

\* Instances are stopped.
LEMMA HaltsKeepWhose ==
  ASSUME TeamInv, NEW V \in SUBSET Agents, Halts(V)
  PROVE  Whose'
<1> USE DEF TeamInv
<1>1. /\ UNCHANGED send
      /\ V \subseteq LiveAgents
      /\ \A a \in Agents : agents'[a] = IF a \in V THEN None ELSE agents[a]
      /\ \A i \in Instances :
           /\ inst'[i].id = inst[i].id /\ inst'[i].inbox = inst[i].inbox
           /\ inst'[i].cur = inst[i].cur
           /\ inst'[i].stopped <=> (inst[i].stopped \/ \E a \in V : agents[a] = i)
           /\ inst'[i].killed = inst[i].killed \/ inst'[i].killed
           /\ (\E a \in V : agents[a] = i) => inst[i].inbox = <<>> \/ inst'[i].killed
           /\ \/ inst'[i].pc = inst[i].pc
              \/ inst[i].pc = "recycle" /\ inst'[i].pc = "select"
  BY DEF Halts
<1>a. \A a \in V : agents[a] \in Instances /\ Running(agents[a])
  BY <1>1 DEF MapIsLive, LiveAgents, TypeOK
<1>b. \A i \in Instances : inst'[i].pc \in {"unborn", "built", "exited"}
                             <=> inst[i].pc \in {"unborn", "built", "exited"}
  BY <1>1
<1>c. \A s \in Senders : send[s].pc = "start" => /\ ~ Running(send[s].target)
                                                 /\ send[s].target \in Instances
  BY DEF Starters, Calls, Running
<1>2. Calls'
  BY <1>1 DEF Calls, Flying, TypeOK
<1>3. Workers'
  BY <1>1 DEF Workers, Running, Busy, TypeOK
<1>4. Starters'
  <2>1. ASSUME NEW s \in Senders, send[s].pc = "start"
        PROVE  LET i == send[s].target
               IN  /\ inst'[i].pc = "built" /\ inst'[i].id = send[s].to /\ ~ inst'[i].stopped
    <3> DEFINE i == send[s].target
    <3>1. /\ i \in Instances /\ inst[i].pc = "built" /\ inst[i].id = send[s].to
          /\ ~ inst[i].stopped /\ ~ Running(i)
      BY <1>c, <2>1 DEF Starters
    <3>2. ~ \E a \in V : agents[a] = i
      BY <1>a, <3>1
    <3> HIDE DEF i
    <3>3. inst'[i].pc = "built" /\ inst'[i].id = send[s].to /\ ~ inst'[i].stopped
      BY <1>1, <3>1, <3>2
    <3> QED
      BY <3>3 DEF i
  <2> QED
    BY <1>1, <2>1 DEF Starters
<1>o. OwnStarters'
  BY <1>1 DEF OwnStarters, TypeOK
<1>5. MapIsLive'
  <2>1. ASSUME NEW j \in Instances, inst'[j].pc \notin {"unborn", "built", "exited"},
               ~ inst'[j].stopped
        PROVE  agents'[inst'[j].id] = j
    <3>1. agents[inst[j].id] = j /\ inst[j].id \in Agents
      BY <1>1, <1>b, <2>1 DEF MapIsLive, Workers, Running
    <3>2. inst[j].id \notin V
      BY <1>1, <2>1, <3>1
    <3> QED
      BY <1>1, <3>1, <3>2
  <2>2. ASSUME NEW a \in Agents, agents'[a] # None
        PROVE  /\ inst'[agents'[a]].pc \notin {"unborn", "built", "exited"}
               /\ ~ inst'[agents'[a]].stopped /\ inst'[agents'[a]].id = a
    <3>1. /\ a \notin V /\ agents'[a] = agents[a] /\ a \in LiveAgents
          /\ agents[a] \in Instances
      BY <1>1, <2>2 DEF LiveAgents, TypeOK
    <3>2. /\ inst[agents[a]].pc \notin {"unborn", "built", "exited"}
          /\ ~ inst[agents[a]].stopped /\ inst[agents[a]].id = a
      BY <3>1 DEF MapIsLive, Running
    <3>3. ASSUME NEW b \in V PROVE agents[b] # agents[a]
      <4>1. inst[agents[b]].id = b
        BY <1>1 DEF MapIsLive
      <4> QED
        BY <3>1, <3>2, <4>1
    <3> QED
      BY <1>1, <1>b, <3>1, <3>2, <3>3
  <2> QED
    BY <2>1, <2>2 DEF MapIsLive, LiveAgents, Running
<1>6. StoppedInboxEmpty'
  <2>1. ASSUME NEW i \in Instances, inst'[i].stopped, ~ inst'[i].killed
        PROVE  inst'[i].inbox = <<>>
    <3>1. CASE \E a \in V : agents[a] = i
      BY <1>1, <2>1, <3>1
    <3>2. CASE ~ \E a \in V : agents[a] = i
      <4>1. inst[i].stopped /\ ~ inst[i].killed /\ inst'[i].inbox = inst[i].inbox
        BY <1>1, <2>1, <3>2
      <4> QED
        BY <4>1 DEF StoppedInboxEmpty
    <3> QED
      BY <3>1, <3>2
  <2> QED
    BY <2>1 DEF StoppedInboxEmpty
<1> QED
  BY <1>2, <1>3, <1>4, <1>o, <1>5, <1>6 DEF Whose

\* New builds an instance.
LEMMA BuildKeepsWhose ==
  ASSUME TeamInv, NEW s \in Senders, Build(s)
  PROVE  Whose'
<1> USE DEF TeamInv
<1>1. CASE send'[s].pc = "done" /\ UNCHANGED inst
  <2>1. /\ UNCHANGED <<agents, inst>> /\ send'[s].pc = "done"
        /\ \A t \in Senders : t # s => send'[t] = send[t]
    BY <1>1, BuildIs DEF Calling
  <2>2. Calls'
    BY <2>1 DEF Calls, Flying
  <2>3. Workers' /\ MapIsLive' /\ StoppedInboxEmpty'
    BY <2>1 DEF Workers, Running, Busy, MapIsLive, LiveAgents, StoppedInboxEmpty
  <2>4. Starters'
    BY <2>1 DEF Starters
  <2>5. OwnStarters'
    BY <2>1 DEF OwnStarters
  <2> QED
    BY <2>2, <2>3, <2>4, <2>5 DEF Whose
<1>2. ASSUME NEW i \in Instances, Garbage(i), Alone(i), inst'[i] = NewAgent(send[s].to),
             send'[s].to = send[s].to, send'[s].item = send[s].item,
             send'[s].pc = "start", send'[s].target = i
      PROVE  Whose'
  <2>1. /\ UNCHANGED agents /\ send[s].pc = "new" /\ send[s].to \in Agents
        /\ \A t \in Senders : t # s => send'[t] = send[t]
        /\ \A j \in Instances : j # i => inst'[j] = inst[j]
    BY <1>2, BuildIs DEF Calling, Alone, Calls, Flying
  <2>2. /\ inst'[i].id = send[s].to /\ inst'[i].pc = "built" /\ inst'[i].inbox = <<>>
        /\ ~ inst'[i].stopped
    <3>1. version \in [Agents -> Nat] /\ disk \in [Agents -> SUBSET Items]
      BY DEF TypeOK
    <3> QED
      BY <1>2, <2>1, <3>1, InstanceStates
  <2>3. /\ inst[i].pc \in {"unborn", "exited"}
        /\ \A t \in Senders : send[t].target # i
    BY <1>2 DEF Garbage
  <2>4. Calls'
    BY <1>2, <2>1 DEF Calls, Flying
  <2>5. Workers'
    BY <2>1, <2>2 DEF Workers, Running, Busy
  <2>6. Starters'
    BY <1>2, <2>1, <2>2, <2>3 DEF Starters, Calls
  <2>7. OwnStarters'
    BY <1>2, <2>1, <2>3 DEF OwnStarters
  <2>8. MapIsLive'
    <3>1. \A a \in LiveAgents : agents[a] # i
      BY <2>3 DEF MapIsLive, Running
    <3> QED
      BY <2>1, <2>2, <3>1 DEF MapIsLive, Running, LiveAgents, TypeOK
  <2>9. StoppedInboxEmpty'
    BY <2>1, <2>2 DEF StoppedInboxEmpty
  <2> QED
    BY <2>4, <2>5, <2>6, <2>7, <2>8, <2>9 DEF Whose
<1> QED
  BY <1>1, <1>2, BuildIs

\* start puts an instance in the map, and may take another out.
LEMMA StartKeepsWhose ==
  ASSUME TeamInv, NEW s \in Senders, Start(s)
  PROVE  Whose'
<1> USE DEF TeamInv
<1> DEFINE a == send[s].to
           i == send[s].target
<1>1. /\ send[s].pc = "start" /\ a \in Agents /\ i \in Instances /\ agents[a] = None
      /\ send'[s].pc = "put" /\ send'[s].target = i
      /\ send'[s].to = a /\ send'[s].item = send[s].item
      /\ \A t \in Senders : t # s => send'[t] = send[t]
      /\ inst'[i] = [inst[i] EXCEPT !.pc = "select"]
  BY StartIs DEF Started, Calling
<1>2. inst[i].pc = "built" /\ inst[i].id = a /\ ~ inst[i].stopped
  BY <1>1 DEF Starters
<1>3. inst'[i].pc = "select" /\ inst'[i].id = a /\ ~ inst'[i].stopped
  BY <1>1, <1>2 DEF TypeOK, InstanceType
<1>4. \A t \in Senders : t # s /\ send[t].pc = "start" => send[t].target \in Instances \ {i}
  BY <1>1 DEF OwnStarters, Calls
<1>5. \A b \in LiveAgents : agents[b] \in Instances \ {i}
  BY <1>2 DEF MapIsLive, Running, LiveAgents, TypeOK
<1>6. Calls'
  BY <1>1 DEF Calls, Flying
<1>7. OwnStarters'
  BY <1>1 DEF OwnStarters
<1>8. CASE /\ agents' = [agents EXCEPT ![a] = i]
           /\ \A j \in Instances : j # i => inst'[j] = inst[j]
  <2> HIDE DEF a, i
  <2>1. /\ agents'[a] = i
        /\ \A b \in Agents : b # a => agents'[b] = agents[b]
    BY <1>1, <1>8 DEF TypeOK
  <2>2. Workers'
    BY <1>1, <1>3, <1>8 DEF Workers, Running, Busy
  <2>3. Starters'
    BY <1>1, <1>4, <1>8 DEF Starters
  <2>4. MapIsLive'
    <3>1. ASSUME NEW j \in Instances, Running(j)', ~ inst'[j].stopped
          PROVE  agents'[inst'[j].id] = j
      <4>1. CASE j = i
        BY <1>3, <2>1, <4>1
      <4>2. CASE j # i
        <5>1. inst'[j] = inst[j]
          BY <1>8, <4>2
        <5>2. agents[inst[j].id] = j /\ inst[j].id \in Agents
          BY <3>1, <5>1 DEF MapIsLive, Workers, Running
        <5>3. inst[j].id # a
          BY <1>1, <5>2, TeamAssumption DEF TeamAssumption
        <5> QED
          BY <2>1, <5>1, <5>2, <5>3
      <4> QED
        BY <4>1, <4>2
    <3>2. ASSUME NEW b \in Agents, agents'[b] # None
          PROVE  /\ inst'[agents'[b]].pc \notin {"unborn", "built", "exited"}
                 /\ ~ inst'[agents'[b]].stopped /\ inst'[agents'[b]].id = b
      BY <1>3, <1>5, <1>8, <2>1, <3>2 DEF MapIsLive, Running, LiveAgents
    <3> QED
      BY <3>1, <3>2 DEF MapIsLive, Running, LiveAgents
  <2>5. StoppedInboxEmpty'
    BY <1>3, <1>8 DEF StoppedInboxEmpty
  <2> QED
    BY <1>6, <1>7, <2>2, <2>3, <2>4, <2>5 DEF Whose
<1>9. ASSUME NEW v \in QuiescableAgents, v # a, agents[v] \in Instances \ {i},
             agents' = [agents EXCEPT ![v] = None, ![a] = i],
             inst'[agents[v]] = [inst[agents[v]] EXCEPT !.stopped = TRUE],
             \A j \in Instances : j \notin {i, agents[v]} => inst'[j] = inst[j]
      PROVE  Whose'
  <2> DEFINE k == agents[v]
  <2>1. /\ v \in LiveAgents /\ v \in Agents /\ k \in Instances \ {i} /\ inst[k].inbox = <<>>
        /\ inst[k].pc \notin {"unborn", "built", "exited"} /\ inst[k].id = v
    BY <1>9 DEF QuiescableAgents, LiveAgents, Quiescable, MapIsLive, Running
  <2>2. /\ inst'[k].stopped /\ inst'[k].inbox = <<>>
        /\ inst'[k].id = v /\ inst'[k].pc = inst[k].pc
        /\ inst'[k].cur = inst[k].cur
    BY <1>9, <2>1, Marked DEF TypeOK
  <2>3. \A j \in Instances : j \notin {i, k} => inst'[j] = inst[j]
    BY <1>9
  <2>4. /\ agents'[a] = i /\ agents'[v] = None
        /\ \A b \in Agents : b \notin {a, v} => agents'[b] = agents[b]
    BY <1>1, <1>9, <2>1 DEF TypeOK
  <2>5. \A b \in LiveAgents : b # v => agents[b] # k
    BY <2>1 DEF MapIsLive
  <2>6. agents[v] = k
    OBVIOUS
  <2> HIDE DEF a, i, k
  <2>7. Workers'
    <3>1. ASSUME NEW j \in Instances
          PROVE  /\ inst'[j].pc \notin {"unborn", "built", "exited"} => inst'[j].id \in Agents
                 /\ inst'[j].pc \in {"taken", "turn", "adopt", "report"} => inst'[j].cur \in Items
      <4>1. CASE j = i
        BY <1>1, <1>3, <4>1
      <4>2. CASE j = k
        BY <2>1, <2>2, <4>2 DEF Workers, Busy
      <4>3. CASE j \notin {i, k}
        BY <2>3, <4>3 DEF Workers, Running, Busy
      <4> QED
        BY <4>1, <4>2, <4>3
    <3> QED
      BY <3>1 DEF Workers, Running, Busy
  <2>8. Starters'
    BY <1>1, <1>4, <2>1, <2>2, <2>3 DEF Starters
  <2>9. MapIsLive'
    <3>1. ASSUME NEW j \in Instances, Running(j)', ~ inst'[j].stopped
          PROVE  agents'[inst'[j].id] = j
      <4>1. CASE j = i
        BY <1>3, <2>4, <4>1
      <4>2. CASE j # i
        <5>1. j # k /\ inst'[j] = inst[j]
          BY <2>2, <2>3, <3>1, <4>2
        <5>2. agents[inst[j].id] = j /\ inst[j].id \in Agents
          BY <3>1, <5>1 DEF MapIsLive, Workers, Running
        <5>3. inst[j].id \notin {a, v}
          BY <1>1, <2>6, <4>2, <5>1, <5>2, TeamAssumption DEF TeamAssumption
        <5> QED
          BY <2>4, <5>1, <5>2, <5>3
      <4> QED
        BY <4>1, <4>2
    <3>2. ASSUME NEW b \in Agents, agents'[b] # None
          PROVE  /\ inst'[agents'[b]].pc \notin {"unborn", "built", "exited"}
                 /\ ~ inst'[agents'[b]].stopped /\ inst'[agents'[b]].id = b
      <4>1. CASE b = a
        BY <1>3, <2>4, <4>1
      <4>2. CASE b # a
        <5>1. b # v /\ agents'[b] = agents[b] /\ b \in LiveAgents
          BY <2>4, <3>2, <4>2 DEF LiveAgents
        <5>2. agents[b] \in Instances \ {i} /\ agents[b] # k
          BY <1>5, <2>5, <5>1
        <5>3. inst'[agents[b]] = inst[agents[b]]
          BY <2>3, <5>2
        <5> QED
          BY <5>1, <5>3 DEF MapIsLive, Running
      <4> QED
        BY <4>1, <4>2
    <3> QED
      BY <3>1, <3>2 DEF MapIsLive, Running, LiveAgents
  <2>10. StoppedInboxEmpty'
    BY <1>3, <2>2, <2>3 DEF StoppedInboxEmpty
  <2> QED
    BY <1>6, <1>7, <2>7, <2>8, <2>9, <2>10 DEF Whose
<1>10. \/ /\ agents' = [agents EXCEPT ![a] = i]
          /\ \A j \in Instances : j # i => inst'[j] = inst[j]
       \/ \E v \in QuiescableAgents :
            /\ v # a /\ agents[v] \in Instances \ {i}
            /\ agents' = [agents EXCEPT ![v] = None, ![a] = i]
            /\ inst'[agents[v]] = [inst[agents[v]] EXCEPT !.stopped = TRUE]
            /\ \A j \in Instances : j \notin {i, agents[v]} => inst'[j] = inst[j]
  BY StartIs DEF Started
<1> HIDE DEF a, i
<1> QED
  BY <1>8, <1>9, <1>10

-----------------------------------------------------------------------------
(* Every step.                                                             *)

\* The steps by what they do to instances, calls and the map.
LEMMA StepIs ==
  ASSUME TeamInv, [Next]_vars
  PROVE  \/ \E s \in Senders, a \in Agents, it \in Items : Sets(s, a, it)
         \/ \E s \in Senders : \/ Lookup(s) \/ Build(s) \/ StartLost(s) \/ Start(s)
                               \/ StartRefused(s) \/ Put(s)
         \/ \E i \in Instances : \/ Works(i) \/ Receive(i) \/ StopRun(i)
                                 \/ (/\ Report(i) /\ Moves(i)
                                     /\ UNCHANGED <<agents, send, posted, begun>>)
         \/ \E V \in SUBSET Agents : Halts(V)
         \/ UNCHANGED <<agents, inst, send, posted, begun>>
<1> USE DEF TeamInv
<1> DEFINE Goal ==
         \/ \E s \in Senders, a \in Agents, it \in Items : Sets(s, a, it)
         \/ \E s \in Senders : \/ Lookup(s) \/ Build(s) \/ StartLost(s) \/ Start(s)
                               \/ StartRefused(s) \/ Put(s)
         \/ \E i \in Instances : \/ Works(i) \/ Receive(i) \/ StopRun(i)
                                 \/ (/\ Report(i) /\ Moves(i)
                                     /\ UNCHANGED <<agents, send, posted, begun>>)
         \/ \E V \in SUBSET Agents : Halts(V)
         \/ UNCHANGED <<agents, inst, send, posted, begun>>
<1>1. ASSUME NEW c \in Callers, NEW a \in Agents, NEW m \in Messages, Post(c, a, m) PROVE Goal
  <2>1. c \in Senders
    BY DEF Senders
  <2> QED
    BY <1>1, <2>1, PostSets
<1>2. ASSUME NEW s \in Senders, SendStep(s) PROVE Goal
  BY <1>2 DEF SendStep
<1>3. ASSUME NEW i \in Instances, InstanceStep(i) PROVE Goal
  <2>0. i \in Senders
    BY DEF Senders
  <2>1. CASE Works(i) \/ Receive(i) \/ StopRun(i)
    BY <2>1
  <2>2. CASE MessageAgent(i)
    BY <2>0, <2>2, NoteSets
  <2>3. CASE Report(i)
    BY <2>0, <2>3, ReportSets
  <2>4. CASE Recycle(i)
    BY <2>4, RecycleHalts
  <2> QED
    BY <1>3, <2>1, <2>2, <2>3, <2>4 DEF InstanceStep, Works
<1>4. ASSUME NEW i \in Instances, NEW b \in Agents, NEW m \in Messages, Delegate(i, b, m) PROVE Goal
  <2>1. i \in Senders
    BY DEF Senders
  <2> QED
    BY <1>4, <2>1, DelegateSets
<1>5. ASSUME EvictIdle PROVE Goal
  <2>1. QuiescableAgents \in SUBSET Agents
    BY DEF QuiescableAgents, LiveAgents
  <2> QED
    BY <1>5, <2>1, EvictHalts
<1>6. ASSUME NEW a \in Agents, Update(a) \/ Remove(a) \/ Add(a) \/ Purge(a) PROVE Goal
  <2>1. UNCHANGED <<agents, inst, send, posted, begun>>
    BY <1>6 DEF Update, Remove, Add, Purge
  <2> QED
    BY <2>1
<1>7. ASSUME NEW a \in Agents, Refresh(a) \/ StopDeleted(a) PROVE Goal
  BY <1>7, RefreshHalts, StopDeletedHalts
<1>8. ASSUME UNCHANGED vars PROVE Goal
  <2>1. UNCHANGED <<agents, inst, send, posted, begun>>
    BY <1>8 DEF vars
  <2> QED
    BY <2>1
<1> HIDE DEF Goal
<1>9. Goal
  <2>1. CASE Next
    <3>1. CASE \E a \in Agents : Update(a) \/ Remove(a) \/ Add(a) \/ AdminStep(a)
      BY <1>6, <1>7, <3>1 DEF AdminStep
    <3> QED
      BY <1>1, <1>2, <1>3, <1>4, <1>5, <2>1, <3>1, Zenon DEF Next
  <2> QED
    BY <1>8, <2>1
<1> QED
  BY <1>9 DEF Goal

\* Every step keeps the map and the goroutines in agreement.
LEMMA WhoseStep ==
  ASSUME TeamInv, [Next]_vars
  PROVE  Whose'
<1> USE DEF TeamInv
<1>1. ASSUME NEW s \in Senders, NEW a \in Agents, NEW it \in Items, Sets(s, a, it) PROVE Whose'
  BY <1>1, SetsKeepWhose
<1>2. ASSUME NEW s \in Senders, \/ Lookup(s) \/ Build(s) \/ StartLost(s) \/ Start(s)
                                \/ StartRefused(s) \/ Put(s)
      PROVE  Whose'
  BY <1>2, LookupKeepsWhose, BuildKeepsWhose, StartLostKeepsWhose, StartKeepsWhose,
     StartRefusedKeepsWhose, PutKeepsWhose
<1>3. ASSUME NEW i \in Instances, Works(i) PROVE Whose'
  BY <1>3, WorksMove, WorksCalls, MovesKeepWhose
<1>4. ASSUME NEW i \in Instances, Receive(i) \/ StopRun(i) PROVE Whose'
  BY <1>4, ReceiveKeepsWhose, StopRunKeepsWhose
<1>5. ASSUME NEW i \in Instances, Moves(i), UNCHANGED <<agents, send>> PROVE Whose'
  BY <1>5, MovesKeepWhose
<1>6. ASSUME NEW V \in SUBSET Agents, Halts(V) PROVE Whose'
  BY <1>6, HaltsKeepWhose
<1>7. CASE UNCHANGED <<agents, inst, send, posted, begun>>
  BY <1>7, NothingKeepsWhose
<1> HIDE DEF TeamInv
<1> QED
  BY <1>1, <1>2, <1>3, <1>4, <1>5, <1>6, <1>7, StepIs

\* Every step keeps the types of the map, the instances and the calls.
LEMMA RecordsStep ==
  ASSUME TeamInv, [Next]_vars
  PROVE  /\ agents' \in [Agents -> Instances \union {None}]
         /\ inst' \in [Instances -> InstanceType]
         /\ send' \in [Senders -> SendType]
<1> USE DEF TeamInv
<1>0. /\ agents \in [Agents -> Instances \union {None}]
      /\ inst \in [Instances -> InstanceType]
      /\ send \in [Senders -> SendType]
  BY DEF TypeOK
<1> DEFINE Goal == /\ agents' \in [Agents -> Instances \union {None}]
                   /\ inst' \in [Instances -> InstanceType]
                   /\ send' \in [Senders -> SendType]
<1>1. ASSUME NEW s \in Senders, NEW a \in Agents, NEW it \in Items, Sets(s, a, it) PROVE Goal
  BY <1>0, <1>1 DEF Sets, Calling
<1>2. ASSUME NEW s \in Senders, Lookup(s) \/ StartLost(s) \/ StartRefused(s) \/ Put(s) PROVE Goal
  BY <1>0, <1>2, LookupIs, StartLostIs, StartRefusedIs, PutIs DEF Calling, Alone
<1>3. ASSUME NEW s \in Senders, Build(s) PROVE Goal
  BY <1>0, <1>3, BuildIs DEF Calling, Alone
<1>4. ASSUME NEW s \in Senders, Start(s) PROVE Goal
  <2>1. /\ Calling(s) /\ inst' \in [Instances -> InstanceType]
        /\ send[s].to \in Agents /\ send[s].target \in Instances
    BY <1>4, StartIs DEF Started
  <2>2. \/ agents' = [agents EXCEPT ![send[s].to] = send[s].target]
        \/ \E v \in QuiescableAgents :
             agents' = [agents EXCEPT ![v] = None, ![send[s].to] = send[s].target]
    BY <1>4 DEF Start
  <2> QED
    BY <1>0, <2>1, <2>2 DEF Calling
<1>5. ASSUME NEW i \in Instances, Works(i) PROVE Goal
  BY <1>0, <1>5, WorksMove, WorksCalls DEF Moves, Alone, Calling
<1>6. ASSUME NEW i \in Instances, Receive(i) \/ StopRun(i) PROVE Goal
  BY <1>0, <1>6, ReceiveIs, StopRunIs DEF Alone
<1>7. ASSUME NEW i \in Instances, Moves(i), UNCHANGED <<agents, send>> PROVE Goal
  BY <1>0, <1>7 DEF Moves, Alone
<1>8. ASSUME NEW V \in SUBSET Agents, Halts(V) PROVE Goal
  BY <1>0, <1>8 DEF Halts
<1>9. ASSUME UNCHANGED <<agents, inst, send, posted, begun>> PROVE Goal
  BY <1>0, <1>9
<1> HIDE DEF TeamInv, Goal
<1>10. Goal
  <2>1. ASSUME NEW s \in Senders, \/ Lookup(s) \/ Build(s) \/ StartLost(s) \/ Start(s)
                                  \/ StartRefused(s) \/ Put(s)
        PROVE  Goal
    BY <1>2, <1>3, <1>4, <2>1
  <2> QED
    BY <1>1, <1>5, <1>6, <1>7, <1>8, <1>9, <2>1, StepIs, Zenon
<1> QED
  BY <1>10 DEF Goal

\* Every step keeps the types of the rest: files, roster, counts and histories.
Papers ==
  /\ roster \subseteq Agents
  /\ version \in [Agents -> Nat]
  /\ dir \subseteq Agents
  /\ disk \in [Agents -> SUBSET Items]
  /\ admin \in [Agents -> {"idle", "refresh", "stop", "purge"}]
  /\ used \in [evict : 0..MaxEvict, update : 0..MaxUpdate, delete : 0..MaxDelete,
               skill : 0..MaxSkill, compact : 0..MaxCompact]
  /\ posted \subseteq Items
  /\ begun \subseteq Items
  /\ done \in [Agents -> SUBSET Items]
  /\ dropped \subseteq Messages

LEMMA PapersStep ==
  ASSUME TeamInv, [Next]_vars
  PROVE  Papers'
<1> USE DEF TeamInv
<1>0. Papers
  BY DEF TypeOK, Papers
<1>b. {MaxEvict, MaxUpdate, MaxDelete, MaxSkill, MaxCompact} \subseteq Nat /\ Boss \in Agents
  BY TeamAssumption DEF TeamAssumption
<1>1. ASSUME NEW c \in Callers, NEW a \in Agents, NEW m \in Messages, Post(c, a, m) PROVE Papers'
  <2>1. posted' \subseteq Items
    BY <1>0, <1>1, PostSets DEF Sets, Papers
  <2> QED
    BY <1>0, <1>1, <2>1 DEF Post, Papers
<1>2. ASSUME NEW s \in Senders, SendStep(s) PROVE Papers'
  <2>1. CASE Build(s)
    <3>1. send[s].to \in Agents
      BY <2>1 DEF Build, Calls, Flying
    <3>2. dir' \subseteq Agents
      BY <1>0, <2>1, <3>1 DEF Build, Papers
    <3> QED
      BY <1>0, <2>1, <3>2 DEF Build, Papers
  <2>2. CASE ~ Build(s)
    <3>1. UNCHANGED <<roster, version, dir, disk, admin, used, posted, begun, done, dropped>>
      BY <1>2, <2>2 DEF SendStep, Lookup, StartLost, Start, StartRefused, Put
    <3> QED
      BY <1>0, <3>1 DEF Papers
  <2> QED
    BY <2>1, <2>2
<1>3. ASSUME NEW i \in Instances, InstanceStep(i) PROVE Papers'
  <2>0. inst[i].hist \subseteq Items /\ (Running(i) => inst[i].id \in Agents)
    BY DEF TypeOK, InstanceType, Workers
  <2>1. CASE BeginTurn(i)
    <3>1. inst[i].cur \in Items
      BY <2>1 DEF BeginTurn, Workers, Busy
    <3> QED
      BY <1>0, <2>1, <3>1 DEF BeginTurn, Papers
  <2>2. CASE CreateSkill(i)
    <3>1. used' \in [evict : 0..MaxEvict, update : 0..MaxUpdate, delete : 0..MaxDelete,
                     skill : 0..MaxSkill, compact : 0..MaxCompact]
      BY <1>0, <1>b, <2>2 DEF CreateSkill, Papers
    <3> QED
      BY <1>0, <2>2, <3>1 DEF CreateSkill, Papers
  <2>3. CASE MessageAgent(i)
    <3>1. posted' \subseteq Items
      BY <1>0, <2>3, NoteSets DEF Sets, Papers
    <3> QED
      BY <1>0, <2>3, <3>1 DEF MessageAgent, Papers
  <2>4. CASE Report(i)
    <3>1. posted' \subseteq Items
      BY <1>0, <2>4, ReportSets DEF Sets, Papers
    <3> QED
      BY <1>0, <2>4, <3>1 DEF Report, Papers
  <2>5. CASE TurnSucceeds(i)
    <3>1. inst[i].cur \in Items /\ inst[i].id \in Agents
      BY <2>0, <2>5 DEF TurnSucceeds, Workers, Busy, Running
    <3>2. done' \in [Agents -> SUBSET Items]
      BY <1>0, <2>5, <3>1 DEF TurnSucceeds, Papers
    <3> QED
      BY <1>0, <2>5, <3>2 DEF TurnSucceeds, Papers
  <2>6. CASE ReportReturns(i)
    <3>1. inst[i].cur \in Items
      BY <2>6 DEF ReportReturns, Workers, Busy
    <3>2. inst[i].cur.msg \in Messages
      BY <3>1 DEF Items
    <3> QED
      BY <1>0, <2>6, <3>2 DEF ReportReturns, Papers
  <2>7. CASE Save(i) \/ Resave(i)
    <3>1. inst[i].id \in Agents
      BY <2>0, <2>7 DEF Save, Resave, Running
    <3>2. disk' \in [Agents -> SUBSET Items]
      BY <1>0, <2>0, <2>7, <3>1 DEF Save, Resave, Saved, Papers
    <3> QED
      BY <1>0, <2>7, <3>2 DEF Save, Resave, Papers
  <2>8. CASE Compact(i)
    <3>1. used' \in [evict : 0..MaxEvict, update : 0..MaxUpdate, delete : 0..MaxDelete,
                     skill : 0..MaxSkill, compact : 0..MaxCompact]
      BY <1>0, <1>b, <2>8 DEF Compact, Papers
    <3> QED
      BY <1>0, <2>8, <3>1 DEF Compact, Papers
  <2>9. CASE \/ Receive(i) \/ StopRun(i) \/ ToolReturns(i) \/ Drained(i) \/ TurnFails(i)
             \/ Summarise(i) \/ TakeReload(i) \/ Recycle(i)
    <3>1. UNCHANGED <<roster, version, dir, disk, admin, used, posted, begun, done, dropped>>
      BY <2>9 DEF Receive, StopRun, ToolReturns, Drained, TurnFails, Summarise, TakeReload, Recycle
    <3> QED
      BY <1>0, <3>1 DEF Papers
  <2> QED
    BY <1>3, <2>1, <2>2, <2>3, <2>4, <2>5, <2>6, <2>7, <2>8, <2>9 DEF InstanceStep
<1>4. ASSUME NEW i \in Instances, NEW b \in Agents, NEW m \in Messages, Delegate(i, b, m)
      PROVE  Papers'
  <2>1. posted' \subseteq Items
    BY <1>0, <1>4, DelegateSets DEF Sets, Papers
  <2> QED
    BY <1>0, <1>4, <2>1 DEF Delegate, Papers
<1>5. CASE EvictIdle
  <2>1. used' \in [evict : 0..MaxEvict, update : 0..MaxUpdate, delete : 0..MaxDelete,
                   skill : 0..MaxSkill, compact : 0..MaxCompact]
    BY <1>0, <1>b, <1>5 DEF EvictIdle, Papers
  <2> QED
    BY <1>0, <1>5, <2>1 DEF EvictIdle, Papers
<1>6. ASSUME NEW a \in Agents, Update(a) \/ Remove(a) PROVE Papers'
  <2>1. used' \in [evict : 0..MaxEvict, update : 0..MaxUpdate, delete : 0..MaxDelete,
                   skill : 0..MaxSkill, compact : 0..MaxCompact]
    BY <1>0, <1>b, <1>6 DEF Update, Remove, Papers
  <2>2. /\ roster' \subseteq Agents /\ version' \in [Agents -> Nat]
        /\ admin' \in [Agents -> {"idle", "refresh", "stop", "purge"}]
    BY <1>0, <1>6 DEF Update, Remove, Papers
  <2> QED
    BY <1>0, <1>6, <2>1, <2>2 DEF Update, Remove, Papers
<1>7. ASSUME NEW a \in Agents, Add(a) \/ AdminStep(a) PROVE Papers'
  <2>1. /\ roster' \subseteq Agents /\ version' \in [Agents -> Nat]
        /\ admin' \in [Agents -> {"idle", "refresh", "stop", "purge"}]
    BY <1>0, <1>7 DEF Add, AdminStep, Refresh, StopDeleted, Purge, Papers
  <2>2. /\ dir' \subseteq Agents /\ disk' \in [Agents -> SUBSET Items]
        /\ done' \in [Agents -> SUBSET Items]
    BY <1>0, <1>7 DEF Add, AdminStep, Refresh, StopDeleted, Purge, Papers
  <2>3. UNCHANGED <<used, posted, begun, dropped>>
    BY <1>7 DEF Add, AdminStep, Refresh, StopDeleted, Purge
  <2> QED
    BY <1>0, <2>1, <2>2, <2>3 DEF Papers
<1>8. CASE UNCHANGED vars
  BY <1>0, <1>8 DEF vars, Papers
<1>9. CASE Next
  <2>1. CASE \E a \in Agents : Update(a) \/ Remove(a) \/ Add(a) \/ AdminStep(a)
    BY <1>6, <1>7, <2>1
  <2> QED
    BY <1>1, <1>2, <1>3, <1>4, <1>5, <1>9, <2>1, Zenon DEF Next
<1> QED
  BY <1>8, <1>9

\* A machine that has just started (NewSupervisor).
LEMMA TeamInit == Init => TeamInv
<1> SUFFICES ASSUME Init PROVE TeamInv
  OBVIOUS
<1>1. {MaxEvict, MaxUpdate, MaxDelete, MaxSkill, MaxCompact} \subseteq Nat /\ Boss \in Agents
  BY TeamAssumption DEF TeamAssumption
<1>2. TypeOK
  <2>1. inst \in [Instances -> InstanceType] /\ send \in [Senders -> SendType]
    BY InstanceStates, SendStates DEF Init
  <2>2. used \in [evict : 0..MaxEvict, update : 0..MaxUpdate, delete : 0..MaxDelete,
                  skill : 0..MaxSkill, compact : 0..MaxCompact]
    BY <1>1 DEF Init
  <2> QED
    BY <1>1, <2>1, <2>2, TeamAssumption DEF Init, TypeOK, TeamAssumption
<1>3. /\ \A i \in Instances : inst[i].pc = "unborn" /\ ~ inst[i].stopped
      /\ \A s \in Senders : send[s].pc = "idle"
  BY InstanceStates, SendStates DEF Init
<1>4. Calls /\ Starters /\ OwnStarters
  BY <1>3 DEF Calls, Flying, Starters, OwnStarters
<1>5. Workers /\ StoppedInboxEmpty
  BY <1>3 DEF Workers, Running, Busy, StoppedInboxEmpty
<1>6. MapIsLive
  BY <1>3 DEF Init, MapIsLive, Running, LiveAgents
<1> QED
  BY <1>2, <1>4, <1>5, <1>6 DEF TeamInv

\* Every step keeps it.
LEMMA TeamStep ==
  ASSUME TeamInv, [Next]_vars
  PROVE  TeamInv'
<1>1. TypeOK'
  BY RecordsStep, PapersStep DEF TypeOK, Papers
<1> QED
  BY <1>1, WhoseStep DEF TeamInv, Whose

\* So it always holds.
LEMMA TeamInvAlways == Spec => []TeamInv
<1>1. TeamInv /\ [Next]_vars => TeamInv'
  BY TeamStep
<1> QED
  BY <1>1, TeamInit, PTL DEF Spec

\* The map of live agents and the goroutines agree: an instance runs and is not
\* stopped exactly when the map holds it for its id, so that no agent has two
\* goroutines taking messages, whoever starts, evicts, recycles or deletes it
\* (start, stopLocked, EvictIdle, Recycle, Delete).
THEOREM OneGoroutinePerAgent == Spec => []MapIsLive
<1>1. TeamInv => MapIsLive
  BY DEF TeamInv
<1> QED
  BY <1>1, TeamInvAlways, PTL

\* No message is stranded: an instance stopped other than by Delete has nothing
\* on its inbox, then or later (enqueue and quiesce, both under a.mu).
THEOREM NothingStranded == Spec => []StoppedInboxEmpty
<1>1. TeamInv => StoppedInboxEmpty
  BY DEF TeamInv
<1> QED
  BY <1>1, TeamInvAlways, PTL

-----------------------------------------------------------------------------
(* Where each item is.                                                     *)

\* A step that brings nothing new: an item leaves a place or stays, and no turn
\* begins.
Settles ==
  /\ UNCHANGED <<posted, begun>>
  /\ \A s \in Senders : Flying(s)' => Flying(s) /\ send'[s].item = send[s].item
  /\ \A i \in Instances :
       /\ IsInjective(inst[i].inbox) => IsInjective(inst'[i].inbox)
       /\ Held(i)' \subseteq Held(i)
       /\ inst'[i].pc = "taken" =>
            \/ inst[i].pc = "taken" /\ inst'[i].cur = inst[i].cur /\ inst'[i].inbox = inst[i].inbox
            \/ /\ IsInjective(inst[i].inbox)
               => inst'[i].cur \notin Range(inst'[i].inbox)
       /\ InTurn(i)' => InTurn(i) /\ inst'[i].cur = inst[i].cur
       /\ Unreported(i)' => Unreported(i)

\* Such a step keeps everything in its place.
LEMMA SettlesKeeps ==
  ASSUME OnceInv, Settles
  PROVE  OnceInv'
<1> USE DEF OnceInv
<1>1. /\ UNCHANGED <<posted, begun>>
      /\ \A s \in Senders : Flying(s)' => Flying(s) /\ send'[s].item = send[s].item
      /\ \A i \in Instances : Held(i)' \subseteq Held(i)
  BY DEF Settles
<1>2. \A i \in Instances : InTurn(i)' => InTurn(i) /\ inst'[i].cur = inst[i].cur
  BY DEF Settles
<1>3. \A i \in Instances : Unreported(i)' => Unreported(i) /\ InTurn(i)'
  BY DEF Settles, Unreported, InTurn
<1>4. HandledOnce'
  <2>1. \A i \in Instances : IsInjective(inst'[i].inbox)
    BY DEF Settles, HandledOnce
  <2> QED
    BY <1>1, <2>1 DEF HandledOnce
<1>5. OnRecord'
  BY <1>1 DEF OnRecord
<1>6. OnItsWay'
  BY <1>1 DEF OnItsWay
<1>7. InHand'
  BY DEF Settles, InHand, HandledOnce
<1>8. Turns'
  BY <1>1, <1>2 DEF Turns
<1>9. Reports'
  <2>1. \A i \in Instances : Unreported(i)' => Unreported(i) /\ inst'[i].cur = inst[i].cur
    BY <1>2, <1>3
  <2> QED
    BY <1>1, <2>1 DEF Reports, Answer
<1> QED
  BY <1>4, <1>5, <1>6, <1>7, <1>8, <1>9

\* An instance that is as it was, or has nothing on its inbox.
LEMMA SameOrEmpty ==
  ASSUME NEW i \in Instances, inst'[i] = inst[i] \/ inst'[i].inbox = <<>>,
         inst'[i].pc \notin {"taken", "turn", "adopt", "report"} \/ inst'[i] = inst[i]
  PROVE  /\ IsInjective(inst[i].inbox) => IsInjective(inst'[i].inbox)
         /\ Held(i)' \subseteq Held(i)
         /\ inst'[i].pc = "taken" =>
              inst[i].pc = "taken" /\ inst'[i].cur = inst[i].cur /\ inst'[i].inbox = inst[i].inbox
         /\ InTurn(i)' => InTurn(i) /\ inst'[i].cur = inst[i].cur
<1>1. CASE inst'[i] = inst[i]
  BY <1>1 DEF Held, InTurn
<1>2. CASE inst'[i].inbox = <<>> /\ inst'[i].pc \notin {"taken", "turn", "adopt", "report"}
  BY <1>2, NothingIn DEF Held, InTurn
<1> QED
  BY <1>1, <1>2

\* An instance that keeps its inbox and its item, and begins nothing.
LEMMA SameInbox ==
  ASSUME NEW i \in Instances, inst'[i].inbox = inst[i].inbox,
         inst'[i].pc = "taken" => inst[i].pc = "taken" /\ inst'[i].cur = inst[i].cur,
         InTurn(i)' => InTurn(i) /\ inst'[i].cur = inst[i].cur
  PROVE  /\ IsInjective(inst[i].inbox) => IsInjective(inst'[i].inbox)
         /\ Held(i)' \subseteq Held(i)
         /\ inst'[i].pc = "taken" =>
              inst[i].pc = "taken" /\ inst'[i].cur = inst[i].cur /\ inst'[i].inbox = inst[i].inbox
         /\ InTurn(i)' => InTurn(i) /\ inst'[i].cur = inst[i].cur
BY DEF Held

\* A step that only concerns a call, or throws away what New built, settles.
LEMMA CallSettles ==
  ASSUME TeamInv, NEW s \in Senders, UNCHANGED <<posted, begun>>,
         Calling(s), send'[s].pc # "idle",
         Flying(s)' => Flying(s) /\ send'[s].item = send[s].item,
         \A i \in Instances :
           \/ inst'[i] = inst[i]
           \/ inst'[i].inbox = <<>> /\ inst'[i].pc \notin {"taken", "turn", "adopt", "report"}
           \/ /\ inst'[i].inbox = inst[i].inbox
              /\ inst'[i].cur = inst[i].cur
              /\ inst'[i].pc = inst[i].pc \/ inst'[i].pc = "select"
  PROVE  Settles
<1>1. \A t \in Senders : Flying(t)' => Flying(t) /\ send'[t].item = send[t].item
  BY DEF Calling, Flying
<1>2. ASSUME NEW i \in Instances
      PROVE  /\ IsInjective(inst[i].inbox) => IsInjective(inst'[i].inbox)
             /\ Held(i)' \subseteq Held(i)
             /\ inst'[i].pc = "taken" =>
                  /\ inst[i].pc = "taken" /\ inst'[i].cur = inst[i].cur
                  /\ inst'[i].inbox = inst[i].inbox
             /\ InTurn(i)' => InTurn(i) /\ inst'[i].cur = inst[i].cur
  <2>1. CASE \/ inst'[i] = inst[i]
             \/ inst'[i].inbox = <<>> /\ inst'[i].pc \notin {"taken", "turn", "adopt", "report"}
    BY <2>1, SameOrEmpty
  <2>2. CASE /\ inst'[i].inbox = inst[i].inbox
             /\ inst'[i].cur = inst[i].cur
             /\ inst'[i].pc = inst[i].pc \/ inst'[i].pc = "select"
    BY <2>2, SameInbox DEF InTurn
  <2> QED
    BY <2>1, <2>2
<1>3. ASSUME NEW i \in Instances PROVE Unreported(i)' => Unreported(i)
  <2>1. i \in Senders /\ (send'[i].pc = "idle" => send[i].pc = "idle")
    BY DEF Senders, Calling
  <2>2. inst'[i].pc = inst[i].pc \/ inst'[i].pc \notin {"turn", "adopt", "report"}
    OBVIOUS
  <2> QED
    BY <2>1, <2>2 DEF Unreported
<1> QED
  BY <1>1, <1>2, <1>3 DEF Settles

\* Get, start and their refusals.
LEMMA SendSettles ==
  ASSUME TeamInv, NEW s \in Senders,
         Lookup(s) \/ Build(s) \/ StartLost(s) \/ Start(s) \/ StartRefused(s)
  PROVE  Settles
<1> USE DEF TeamInv
<1>1. CASE Lookup(s)
  BY <1>1, LookupIs, CallSettles DEF Flying
<1>2. CASE Build(s)
  <2>1. Calling(s) /\ UNCHANGED <<posted, begun>> /\ send[s].pc = "new"
    BY <1>2, BuildIs
  <2>2. CASE send'[s].pc = "done" /\ UNCHANGED inst
    BY <2>1, <2>2, CallSettles DEF Flying
  <2>3. ASSUME NEW i \in Instances, Alone(i), inst'[i] = NewAgent(send[s].to),
               send'[s].item = send[s].item, send'[s].pc = "start"
        PROVE  Settles
    <3>1. version \in [Agents -> Nat] /\ disk \in [Agents -> SUBSET Items] /\ send[s].to \in Agents
      BY <2>1 DEF TypeOK, Calls, Flying
    <3>2. inst'[i].inbox = <<>> /\ inst'[i].pc = "built"
      BY <2>3, <3>1, InstanceStates
    <3> QED
      BY <2>1, <2>3, <3>2, CallSettles DEF Flying, Alone
  <2> QED
    BY <1>2, <2>2, <2>3, BuildIs
<1>3. CASE StartLost(s) \/ StartRefused(s)
  <2>1. /\ Calling(s) /\ UNCHANGED <<posted, begun>> /\ send[s].pc = "start"
        /\ \/ send'[s].pc = "put" /\ send'[s].item = send[s].item
           \/ send'[s].pc = "done"
        /\ \A j \in Instances : inst'[j] = inst[j] \/ inst'[j] = Unborn
    BY <1>3, StartLostIs, StartRefusedIs DEF Alone
  <2>2. \A j \in Instances :
          \/ inst'[j] = inst[j]
          \/ inst'[j].inbox = <<>> /\ inst'[j].pc \notin {"taken", "turn", "adopt", "report"}
    BY <2>1, InstanceStates
  <2> QED
    BY <2>1, <2>2, CallSettles DEF Flying
<1>4. CASE Start(s)
  <2> DEFINE a == send[s].to
             i == send[s].target
  <2>1. /\ Calling(s) /\ UNCHANGED <<posted, begun>> /\ send[s].pc = "start"
        /\ send'[s].pc = "put" /\ send'[s].item = send[s].item /\ i \in Instances
        /\ inst'[i] = [inst[i] EXCEPT !.pc = "select"]
        /\ \/ \A j \in Instances : j # i => inst'[j] = inst[j]
           \/ \E v \in QuiescableAgents :
                /\ agents[v] \in Instances \ {i}
                /\ inst'[agents[v]] = [inst[agents[v]] EXCEPT !.stopped = TRUE]
                /\ \A j \in Instances : j \notin {i, agents[v]} => inst'[j] = inst[j]
    BY <1>4, StartIs DEF Started
  <2>2. /\ inst'[i].inbox = inst[i].inbox /\ inst'[i].cur = inst[i].cur
        /\ inst'[i].pc = "select"
    BY <2>1, AtStatement DEF TypeOK, Phases
  <2> HIDE DEF a, i
  <2>3. \A j \in Instances :
          /\ inst'[j].inbox = inst[j].inbox
          /\ inst'[j].cur = inst[j].cur
          /\ inst'[j].pc = inst[j].pc \/ inst'[j].pc = "select"
    <3>1. CASE \A j \in Instances : j # i => inst'[j] = inst[j]
      BY <2>2, <3>1
    <3>2. ASSUME NEW k \in Instances \ {i}, inst'[k] = [inst[k] EXCEPT !.stopped = TRUE],
                 \A j \in Instances : j \notin {i, k} => inst'[j] = inst[j],
                 NEW j \in Instances
          PROVE  /\ inst'[j].inbox = inst[j].inbox
                 /\ inst'[j].cur = inst[j].cur
                 /\ inst'[j].pc = inst[j].pc \/ inst'[j].pc = "select"
      <4>1. inst'[k].inbox = inst[k].inbox /\ inst'[k].cur = inst[k].cur /\ inst'[k].pc = inst[k].pc
        BY <3>2, Marked DEF TypeOK
      <4> QED
        BY <2>2, <3>2, <4>1
    <3> QED
      BY <2>1, <3>1, <3>2
  <2> QED
    BY <2>1, <2>3, CallSettles DEF Flying
<1> QED
  BY <1>1, <1>2, <1>3, <1>4

\* A goroutine that goes on from anything but a message it has just taken.
LEMMA MovesSettle ==
  ASSUME TeamInv, NEW i \in Instances, Moves(i), inst[i].pc # "taken",
         UNCHANGED <<posted, begun>>,
         UNCHANGED send \/ (Calling(i) /\ send[i].pc = "done" /\ send'[i] = Idle),
         Unreported(i)' => Unreported(i)
  PROVE  Settles
<1>1. \A s \in Senders : Flying(s)' => Flying(s) /\ send'[s].item = send[s].item
  BY SendStates DEF Calling, Flying
<1>2. /\ \A j \in Instances : j # i => inst'[j] = inst[j]
      /\ inst'[i].inbox = inst[i].inbox /\ inst'[i].pc # "taken"
      /\ InTurn(i)' => InTurn(i) /\ inst'[i].cur = inst[i].cur
  BY DEF Moves, Alone, Busy, InTurn
<1>3. ASSUME NEW j \in Instances
      PROVE  /\ IsInjective(inst[j].inbox) => IsInjective(inst'[j].inbox)
             /\ Held(j)' \subseteq Held(j)
             /\ inst'[j].pc = "taken" =>
                  /\ inst[j].pc = "taken" /\ inst'[j].cur = inst[j].cur
                  /\ inst'[j].inbox = inst[j].inbox
             /\ InTurn(j)' => InTurn(j) /\ inst'[j].cur = inst[j].cur
  <2>1. CASE j = i
    BY <1>2, <2>1, SameInbox
  <2>2. CASE j # i
    BY <1>2, <2>2, SameOrEmpty
  <2> QED
    BY <2>1, <2>2
<1>4. ASSUME NEW j \in Instances PROVE Unreported(j)' => Unreported(j)
  <2>1. CASE j # i
    <3>1. inst'[j] = inst[j] /\ send'[j] = send[j]
      BY <1>2, <2>1 DEF Calling, Senders
    <3> QED
      BY <3>1 DEF Unreported
  <2> QED
    BY <2>1
<1> QED
  BY <1>1, <1>2, <1>3, <1>4 DEF Settles

\* The statements of a goroutine between two turns, and the ends of a turn.
LEMMA WorksSettle ==
  ASSUME TeamInv, NEW i \in Instances, Works(i), ~ BeginTurn(i)
  PROVE  Settles
<1> USE DEF TeamInv
<1>1. inst[i].pc # "taken" /\ UNCHANGED begun
  BY DEF Works, CreateSkill, ToolReturns, Drained, TurnSucceeds, TurnFails, ReportReturns, Save,
         Compact, Summarise, Resave, TakeReload
<1>2. inst[i] \in InstanceType /\ inst \in [Instances -> InstanceType]
  BY DEF TypeOK
<1>3. Unreported(i)' => Unreported(i)
  <2>1. CASE CreateSkill(i) \/ ToolReturns(i) \/ Drained(i) \/ TurnSucceeds(i) \/ TurnFails(i)
    BY <2>1 DEF CreateSkill, ToolReturns, Drained, TurnSucceeds, TurnFails, Unreported
  <2>2. CASE \/ ReportReturns(i) \/ Save(i) \/ Compact(i) \/ Summarise(i) \/ Resave(i)
             \/ TakeReload(i)
    <3>1. inst'[i].pc \notin {"turn", "adopt", "report"}
      <4>1. ASSUME NEW pc \in Phases, inst' = [inst EXCEPT ![i].pc = pc]
            PROVE  inst'[i].pc = pc
        <5>1. inst' = [inst EXCEPT ![i] = [inst[i] EXCEPT !.pc = pc]]
          BY <4>1
        <5> QED
          BY <1>2, <5>1, AtStatement
      <4>2. CASE ReportReturns(i) \/ Save(i) \/ Compact(i) \/ Summarise(i) \/ Resave(i)
        BY <4>1, <4>2 DEF ReportReturns, AfterReport, Save, Compact, Summarise, Resave, Phases
      <4>3. CASE TakeReload(i)
        BY <1>2, <4>3 DEF TakeReload, InstanceType
      <4> QED
        BY <2>2, <4>2, <4>3
    <3> QED
      BY <3>1 DEF Unreported
  <2> QED
    BY <2>1, <2>2 DEF Works
<1> QED
  BY <1>1, <1>3, WorksMove, WorksCalls, MovesSettle

\* A message is taken, or a goroutine ends.
LEMMA SelectSettles ==
  ASSUME TeamInv, NEW i \in Instances, Receive(i) \/ StopRun(i)
  PROVE  Settles
<1> USE DEF TeamInv
<1>1. /\ UNCHANGED <<send, posted, begun>> /\ inst[i].pc = "select"
      /\ \A j \in Instances : j # i => inst'[j] = inst[j]
      /\ inst'[i].pc \in {"taken", "exited"}
  BY ReceiveIs, StopRunIs DEF Alone
<1>2. CASE Receive(i)
  <2>1. /\ inst'[i].cur = Head(inst[i].inbox) /\ inst'[i].inbox = Tail(inst[i].inbox)
        /\ inst[i].inbox \in Seq(Items) /\ inst[i].inbox # <<>>
    BY <1>2, ReceiveIs
  <2>2. /\ Held(i)' \subseteq Held(i)
        /\ IsInjective(inst[i].inbox) =>
             /\ IsInjective(inst'[i].inbox)
             /\ inst'[i].cur \notin Range(inst'[i].inbox)
    BY <1>1, <2>1, Popped DEF Held
  <2> QED
    BY <1>1, <2>2, SameOrEmpty DEF Settles, Flying, InTurn, Unreported
<1>3. CASE StopRun(i)
  <2>1. inst'[i].inbox = inst[i].inbox /\ inst'[i].pc = "exited"
    BY <1>3, StopRunIs
  <2>2. /\ Held(i)' \subseteq Held(i)
        /\ IsInjective(inst[i].inbox) => IsInjective(inst'[i].inbox)
    BY <1>1, <2>1 DEF Held
  <2> QED
    BY <1>1, <2>1, <2>2, SameOrEmpty DEF Settles, Flying, InTurn, Unreported
<1> QED
  BY <1>2, <1>3

\* Instances are stopped.
LEMMA HaltsSettle ==
  ASSUME TeamInv, NEW V \in SUBSET Agents, Halts(V)
  PROVE  Settles
<1>1. /\ UNCHANGED <<send, posted, begun>>
      /\ \A i \in Instances :
           /\ inst'[i].inbox = inst[i].inbox /\ inst'[i].cur = inst[i].cur
           /\ inst'[i].pc = inst[i].pc \/ inst'[i].pc = "select"
  BY DEF Halts
<1>2. \A s \in Senders : Flying(s)' => Flying(s) /\ send'[s].item = send[s].item
  BY <1>1 DEF Flying
<1>3. \A i \in Instances : /\ InTurn(i)' => InTurn(i) /\ inst'[i].cur = inst[i].cur
                           /\ Unreported(i)' => Unreported(i)
  BY <1>1 DEF InTurn, Unreported
<1> QED
  BY <1>1, <1>2, <1>3, SameInbox DEF Settles

\* Nothing changed.
LEMMA NothingSettles ==
  ASSUME UNCHANGED <<inst, send, posted, begun>>
  PROVE  Settles
BY SameOrEmpty DEF Settles, Flying, InTurn, Unreported

-----------------------------------------------------------------------------
(* The steps that bring something new.                                     *)

\* Somebody sets out to send an item that was not posted before: work nobody
\* has posted, or an answer to work in hand.
LEMMA SetsKeepOnce ==
  ASSUME TeamInv, OnceInv, NEW s \in Senders, NEW a \in Agents, NEW it \in Items, Sets(s, a, it),
         it \notin posted,
         it.kind # "task" => it.reply = None,
         it.kind = "task" => \A p \in posted : p.msg # it.msg,
         it.kind = "report" => \E q \in begun : q.kind = "task" /\ q.msg = it.msg,
         \A i \in Instances : i # s /\ Unreported(i) /\ inst[i].cur.kind = "task"
                                => Answer(inst[i].cur, "report") # it,
         it.kind = "report" \/ \A p \in Items : Answer(p, "report") # it,
         s \in Instances /\ it.kind = "report" => inst[s].pc = "report"
  PROVE  OnceInv'
<1> USE DEF OnceInv
<1>1. /\ UNCHANGED <<inst, begun>> /\ posted' = posted \union {it}
      /\ \A t \in Senders : t # s => send'[t] = send[t]
      /\ send'[s].pc = "get" /\ send'[s].item = it
  BY SendStates DEF Sets, Calling
<1>2. /\ it \notin begun
      /\ \A i \in Instances : it \notin Held(i)
      /\ \A t \in Senders : Flying(t) => send[t].item # it
  BY DEF OnRecord
<1>3. /\ \A i \in Instances : Held(i)' = Held(i)
      /\ \A i \in Instances : InTurn(i)' <=> InTurn(i)
      /\ \A t \in Senders : t # s => (Flying(t)' <=> Flying(t))
  BY <1>1 DEF Held, InTurn, Flying
<1>4. HandledOnce'
  BY <1>1, <1>3 DEF HandledOnce
<1>5. OnRecord'
  <2>1. \A t \in Senders : Flying(t)' => send'[t].item \in posted'
    BY <1>1, <1>3 DEF OnRecord
  <2> QED
    BY <1>1, <1>3, <2>1 DEF OnRecord
<1>6. OnItsWay'
  <2>1. ASSUME NEW t \in Senders, Flying(t)'
        PROVE  /\ send'[t].item \notin begun
               /\ \A i \in Instances : send'[t].item \notin Held(i)
               /\ \A r \in Senders : Flying(r)' /\ t # r => send'[t].item # send'[r].item
    <3>1. CASE t = s
      BY <1>1, <1>2, <1>3, <3>1
    <3>2. CASE t # s
      BY <1>1, <1>2, <1>3, <2>1, <3>2 DEF OnItsWay
    <3> QED
      BY <3>1, <3>2
  <2> QED
    BY <1>1, <1>3, <2>1 DEF OnItsWay
<1>7. InHand'
  BY <1>1 DEF InHand
<1>8. Turns'
  BY <1>1, <1>3 DEF Turns
<1>9. Reports'
  <2>1. \A p \in posted' : p.kind # "task" => p.reply = None
    BY <1>1 DEF Reports
  <2>2. \A p, q \in posted' : p.kind = "task" /\ q.kind = "task" /\ p.msg = q.msg => p = q
    BY <1>1 DEF Reports
  <2>3. \A p \in posted' : p.kind = "report" => \E q \in begun : q.kind = "task" /\ q.msg = p.msg
    BY <1>1 DEF Reports
  <2>4. ASSUME NEW i \in Instances, Unreported(i)', inst[i].cur.kind = "task"
        PROVE  Answer(inst[i].cur, "report") \notin posted'
    <3>1. Unreported(i)
      BY <1>1, <2>4 DEF Unreported, Senders
    <3>2. inst[i].cur \in Items
      BY <3>1 DEF TeamInv, Workers, Unreported, Busy
    <3>3. Answer(inst[i].cur, "report") # it
      <4>1. CASE i # s
        BY <2>4, <3>1, <4>1
      <4>2. CASE i = s
        <5>1. inst[i].pc # "report"
          BY <1>1, <2>4, <4>2 DEF Unreported
        <5> QED
          BY <3>2, <4>2, <5>1
      <4> QED
        BY <4>1, <4>2
    <3> QED
      BY <1>1, <2>4, <3>1, <3>3 DEF Reports
  <2>5. \A i \in Instances : Unreported(i)' /\ inst'[i].cur.kind = "task"
                               => Answer(inst'[i].cur, "report") \notin posted'
    BY <1>1, <2>4
  <2> QED
    BY <1>1, <2>1, <2>2, <2>3, <2>5 DEF Reports, Answer
<1> QED
  BY <1>4, <1>5, <1>6, <1>7, <1>8, <1>9

\* A handler's message, or the boss's.
LEMMA TaskKeepsOnce ==
  ASSUME TeamInv, OnceInv, NEW s \in Senders, NEW a \in Agents, NEW m \in Messages,
         NEW it \in {Task(m, None), Task(m, Boss)}, Sets(s, a, it),
         \A p \in posted : p.msg # m
  PROVE  OnceInv'
<1>1. it \in Items /\ it.msg = m /\ it.kind = "task"
  BY ItemsMade, TeamAssumption
<1>2. \A p \in Items : Answer(p, "report") # it
  BY <1>1, ItemsMade, TeamAssumption
<1>3. \A i \in Instances : Unreported(i) => inst[i].cur \in Items
  BY DEF TeamInv, Workers, Unreported, Busy
<1> QED
  BY <1>1, <1>2, <1>3, SetsKeepOnce

\* The work a turn has in hand: posted once, begun, and nobody else's.
LEMMA WorkInHand ==
  ASSUME TeamInv, OnceInv, NEW i \in Instances, InTurn(i), inst[i].cur.reply # None
  PROVE  /\ inst[i].cur \in Items /\ inst[i].cur \in begun /\ inst[i].cur.kind = "task"
         /\ \A j \in Instances : j # i /\ InTurn(j) /\ inst[j].cur.kind = "task"
                                   => inst[j].cur.msg # inst[i].cur.msg
<1>1. inst[i].cur \in Items /\ inst[i].cur \in begun /\ inst[i].cur \in posted
  BY DEF TeamInv, OnceInv, Workers, InTurn, Busy, Turns, OnRecord
<1>2. inst[i].cur.kind = "task"
  BY <1>1 DEF OnceInv, Reports
<1>3. ASSUME NEW j \in Instances, j # i, InTurn(j), inst[j].cur.kind = "task",
             inst[j].cur.msg = inst[i].cur.msg
      PROVE  FALSE
  <2>1. inst[j].cur \in posted /\ inst[j].cur # inst[i].cur
    BY <1>3 DEF OnceInv, Turns, OnRecord
  <2> QED
    BY <1>1, <1>2, <1>3, <2>1 DEF OnceInv, Reports
<1> QED
  BY <1>1, <1>2, <1>3

\* A worker's note.
LEMMA NoteKeepsOnce ==
  ASSUME TeamInv, OnceInv, NEW i \in Instances, MessageAgent(i)
  PROVE  OnceInv'
<1> DEFINE it == Answer(inst[i].cur, "note")
<1>1. Sets(i, inst[i].cur.reply, it) /\ inst[i].cur.reply \in Agents /\ it \in Items /\ i \in Senders
  BY NoteSets DEF TeamInv, Senders
<1>2. it \notin posted
  BY DEF MessageAgent
<1>3. it.kind = "note" /\ it.reply = None
  BY NoteSets, ItemsMade, TeamAssumption DEF TeamInv
<1>4. \A p \in Items : Answer(p, "report") # it
  BY <1>3, ItemsMade, TeamAssumption
<1>5. \A j \in Instances : Unreported(j) => inst[j].cur \in Items
  BY DEF TeamInv, Workers, Unreported, Busy
<1> HIDE DEF it
<1> QED
  BY <1>1, <1>2, <1>3, <1>4, <1>5, SetsKeepOnce

\* A report that has somebody to go to.
LEMMA ReportKeepsOnce ==
  ASSUME TeamInv, OnceInv, NEW i \in Instances, Report(i), inst[i].cur.reply \in Agents,
         Sets(i, inst[i].cur.reply, Answer(inst[i].cur, "report"))
  PROVE  OnceInv'
<1> DEFINE it == Answer(inst[i].cur, "report")
<1>1. it \in Items /\ inst[i].cur \in Items /\ i \in Senders
  BY ReportSets DEF TeamInv, Senders
<1>2. it.kind = "report" /\ it.reply = None /\ it.msg = inst[i].cur.msg
  BY <1>1, ItemsMade, TeamAssumption
<1>3. inst[i].pc = "report" /\ send[i].pc = "idle" /\ InTurn(i) /\ Unreported(i)
  BY DEF Report, InTurn, Unreported
<1>4. inst[i].cur.reply # None
  BY TeamAssumption DEF TeamAssumption
<1>5. /\ inst[i].cur \in begun /\ inst[i].cur.kind = "task"
      /\ \A j \in Instances : j # i /\ InTurn(j) /\ inst[j].cur.kind = "task"
                                => inst[j].cur.msg # inst[i].cur.msg
  BY <1>3, <1>4, WorkInHand
<1>6. it \notin posted
  BY <1>3, <1>5 DEF OnceInv, Reports
<1>7. ASSUME NEW j \in Instances, j # i, Unreported(j), inst[j].cur.kind = "task"
      PROVE  Answer(inst[j].cur, "report") # it
  <2>1. InTurn(j) /\ inst[j].cur \in Items
    BY <1>7 DEF Unreported, InTurn, TeamInv, Workers, Busy
  <2>2. Answer(inst[j].cur, "report").msg = inst[j].cur.msg
    BY <2>1, ItemsMade, TeamAssumption
  <2> QED
    BY <1>2, <1>5, <1>7, <2>1, <2>2
<1>8. Sets(i, inst[i].cur.reply, it)
  OBVIOUS
<1> HIDE DEF it
<1> QED
  BY <1>1, <1>2, <1>3, <1>5, <1>6, <1>7, <1>8, SetsKeepOnce
\* An inbox accepts an item, and the call returns.
LEMMA AcceptKeepsOnce ==
  ASSUME TeamInv, OnceInv, NEW s \in Senders, NEW i \in Instances, Flying(s),
         Calling(s), send'[s].pc = "done", UNCHANGED <<posted, begun>>, Alone(i),
         inst'[i] = [inst[i] EXCEPT !.inbox = Append(@, send[s].item)]
  PROVE  OnceInv'
<1> USE DEF OnceInv
<1> DEFINE it == send[s].item
<1>1. /\ it \in Items /\ it \in posted /\ it \notin begun
      /\ \A j \in Instances : it \notin Held(j)
      /\ \A t \in Senders : Flying(t) /\ t # s => send[t].item # it
  BY DEF TeamInv, Calls, OnRecord, OnItsWay
<1>2. inst[i].inbox \in Seq(Items) /\ inst[i] \in InstanceType
  BY DEF TeamInv, TypeOK, InstanceType
<1>3. /\ Append(inst[i].inbox, it) \in Seq(Items)
      /\ Range(Append(inst[i].inbox, it)) = Range(inst[i].inbox) \union {it}
      /\ IsInjective(inst[i].inbox) /\ it \notin Range(inst[i].inbox)
           => IsInjective(Append(inst[i].inbox, it))
  BY <1>1, <1>2, Appended
<1>4. /\ inst'[i].inbox = Append(inst[i].inbox, it)
      /\ inst'[i].pc = inst[i].pc /\ inst'[i].cur = inst[i].cur
  BY <1>2, <1>3, Refilled
<1>5. /\ \A j \in Instances : j # i => inst'[j] = inst[j]
      /\ \A t \in Senders : t # s => send'[t] = send[t]
  BY DEF Alone, Calling
<1> HIDE DEF it
<1>6. Held(i)' = Held(i) \union {it} /\ \A j \in Instances : j # i => Held(j)' = Held(j)
  BY <1>3, <1>4, <1>5 DEF Held
<1>7. \A t \in Senders : Flying(t)' => Flying(t) /\ t # s /\ send'[t] = send[t]
  BY <1>5 DEF Flying
<1>8. \A j \in Instances :
        /\ inst'[j].pc = inst[j].pc /\ inst'[j].cur = inst[j].cur
        /\ Unreported(j)' => Unreported(j)
        /\ InTurn(j)' <=> InTurn(j)
  <2>1. \A j \in Instances : inst'[j].pc = inst[j].pc /\ inst'[j].cur = inst[j].cur
    BY <1>4, <1>5
  <2>2. \A j \in Instances : send'[j].pc = "idle" => send[j].pc = "idle"
    BY <1>5 DEF Senders
  <2> QED
    BY <2>1, <2>2 DEF Unreported, InTurn
<1>9. HandledOnce'
  <2>1. \A j \in Instances : IsInjective(inst'[j].inbox)
    <3>1. it \notin Range(inst[i].inbox)
      BY <1>1 DEF Held
    <3> QED
      BY <1>3, <1>4, <1>5, <3>1 DEF HandledOnce
  <2>2. \A j \in Instances : Held(j)' \intersect begun' = {}
    BY <1>1, <1>6 DEF HandledOnce
  <2>3. ASSUME NEW j \in Instances, NEW k \in Instances, j # k
        PROVE  Held(j)' \intersect Held(k)' = {}
    <3>1. Held(j) \intersect Held(k) = {} /\ it \notin Held(j) /\ it \notin Held(k)
      BY <1>1, <2>3 DEF HandledOnce
    <3> QED
      BY <1>6, <2>3, <3>1
  <2> QED
    BY <2>1, <2>2, <2>3 DEF HandledOnce
<1>10. OnRecord'
  BY <1>1, <1>6, <1>7 DEF OnRecord
<1>11. OnItsWay'
  BY <1>1, <1>6, <1>7 DEF OnItsWay
<1>12. InHand'
  <2>1. \A j \in Instances : inst[j].pc = "taken" => inst[j].cur \notin Range(inst[j].inbox)
    BY DEF InHand
  <2>2. inst[i].pc = "taken" => inst[i].cur # it
    BY <1>1 DEF Held
  <2>3. inst'[i].pc = "taken" => inst'[i].cur \notin Range(inst'[i].inbox)
    BY <1>3, <1>4, <2>1, <2>2
  <2>4. ASSUME NEW j \in Instances, j # i
        PROVE  inst'[j].pc = "taken" => inst'[j].cur \notin Range(inst'[j].inbox)
    BY <1>5, <2>1, <2>4
  <2> QED
    BY <2>3, <2>4 DEF InHand
<1>13. Turns'
  BY <1>8 DEF Turns
<1>14. Reports'
  BY <1>8 DEF Reports, Answer
<1> QED
  BY <1>9, <1>10, <1>11, <1>12, <1>13, <1>14

\* enqueue, and sendTo's second try or its return.
LEMMA PutKeepsOnce ==
  ASSUME TeamInv, OnceInv, NEW s \in Senders, Put(s)
  PROVE  OnceInv'
<1> DEFINE i == send[s].target
<1>1. /\ send[s].pc = "put" /\ i \in Instances /\ Calling(s)
      /\ UNCHANGED <<posted, begun>>
      /\ \/ UNCHANGED inst /\ send'[s].pc = "get" /\ send'[s].item = send[s].item
         \/ UNCHANGED inst /\ send'[s].pc = "done"
         \/ /\ send'[s].pc = "done" /\ Alone(i)
            /\ inst'[i] = [inst[i] EXCEPT !.inbox = Append(@, send[s].item)]
  BY PutIs DEF TeamInv
<1> HIDE DEF i
<1>2. Flying(s)
  BY <1>1 DEF Flying
<1>3. CASE UNCHANGED inst
  <2>1. Settles
    BY <1>1, <1>2, <1>3, CallSettles DEF Flying
  <2> QED
    BY <2>1, SettlesKeeps
<1>4. CASE /\ send'[s].pc = "done" /\ Alone(i)
           /\ inst'[i] = [inst[i] EXCEPT !.inbox = Append(@, send[s].item)]
  BY <1>1, <1>2, <1>4, AcceptKeepsOnce
<1> QED
  BY <1>1, <1>3, <1>4

\* The turn of a message that was taken begins.
LEMMA BeginKeepsOnce ==
  ASSUME TeamInv, OnceInv, NEW i \in Instances, BeginTurn(i)
  PROVE  OnceInv'
<1> USE DEF OnceInv
<1> DEFINE it == inst[i].cur
<1>1. /\ inst[i].pc = "taken" /\ begun' = begun \union {it}
      /\ UNCHANGED <<send, posted>> /\ Moves(i) /\ inst'[i].pc = "turn"
  <2>1. Running(i) /\ Busy(i) /\ "turn" \in Phases
    BY DEF BeginTurn, Running, Busy, Phases
  <2> QED
    BY <2>1, GoesOn DEF BeginTurn, TeamInv
<1>2. /\ \A j \in Instances : j # i => inst'[j] = inst[j]
      /\ inst'[i].inbox = inst[i].inbox /\ inst'[i].cur = it
  BY <1>1 DEF Moves, Alone, Busy
<1>3. it \in Items /\ it \in Held(i) /\ it \in posted /\ it \notin begun
  BY <1>1 DEF TeamInv, Workers, Busy, Held, OnRecord, HandledOnce
<1> HIDE DEF it
<1>4. /\ Held(i)' \subseteq Held(i) /\ it \notin Held(i)'
      /\ \A j \in Instances : j # i => Held(j)' = Held(j) /\ it \notin Held(j)
  <2>1. Held(i)' = Range(inst[i].inbox)
    BY <1>1, <1>2 DEF Held
  <2>2. it \notin Range(inst[i].inbox)
    BY <1>1 DEF InHand, it
  <2>3. \A j \in Instances : j # i => Held(j)' = Held(j)
    BY <1>2 DEF Held
  <2>4. \A j \in Instances : j # i => it \notin Held(j)
    BY <1>3 DEF HandledOnce
  <2> QED
    BY <2>1, <2>2, <2>3, <2>4 DEF Held
<1>5. \A s \in Senders : Flying(s)' <=> Flying(s)
  BY <1>1 DEF Flying
<1>6. \A j \in Instances : j # i => (InTurn(j)' <=> InTurn(j)) /\ inst[j].cur = inst'[j].cur
  BY <1>2 DEF InTurn
<1>7. HandledOnce'
  <2>1. \A j \in Instances : IsInjective(inst'[j].inbox)
    BY <1>2 DEF HandledOnce
  <2>2. \A j \in Instances : Held(j)' \intersect begun' = {}
    BY <1>1, <1>4 DEF HandledOnce
  <2>3. \A j, k \in Instances : j # k => Held(j)' \intersect Held(k)' = {}
    BY <1>4 DEF HandledOnce
  <2> QED
    BY <2>1, <2>2, <2>3 DEF HandledOnce
<1>8. OnRecord'
  <2>1. begun' \subseteq posted
    BY <1>1, <1>3 DEF OnRecord
  <2> QED
    BY <1>1, <1>4, <1>5, <2>1 DEF OnRecord
<1>9. OnItsWay'
  <2>1. \A s \in Senders : Flying(s) => send[s].item # it
    BY <1>3 DEF OnItsWay
  <2> QED
    BY <1>1, <1>4, <1>5, <2>1 DEF OnItsWay
<1>10. InHand'
  BY <1>1, <1>2 DEF InHand
<1>11. Turns'
  <2>1. \A j \in Instances : j # i /\ InTurn(j) => inst[j].cur # it
    BY <1>3 DEF Turns
  <2> QED
    BY <1>1, <1>2, <1>6, <2>1 DEF Turns
<1>12. Reports'
  <2>1. ASSUME it.kind = "task" PROVE Answer(it, "report") \notin posted
    <3>1. SUFFICES ASSUME Answer(it, "report") \in posted PROVE FALSE
      OBVIOUS
    <3>2. Answer(it, "report").kind = "report" /\ Answer(it, "report").msg = it.msg
      BY <1>3, ItemsMade, TeamAssumption
    <3>3. PICK q \in begun : q.kind = "task" /\ q.msg = it.msg
      BY <3>1, <3>2 DEF Reports
    <3> QED
      BY <1>3, <2>1, <3>3 DEF Reports, OnRecord
  <2>2. \A j \in Instances : j # i => (Unreported(j)' <=> Unreported(j))
    BY <1>1, <1>2 DEF Unreported
  <2>3. \A j \in Instances : Unreported(j)' /\ inst'[j].cur.kind = "task"
                               => Answer(inst'[j].cur, "report") \notin posted
    BY <1>2, <2>1, <2>2 DEF Reports
  <2> QED
    BY <1>1, <2>3 DEF Reports, Answer
<1> QED
  BY <1>7, <1>8, <1>9, <1>10, <1>11, <1>12

-----------------------------------------------------------------------------
(* An item's whole way.                                                    *)

\* At the start there is none.
LEMMA OnceInit == Init => OnceInv
<1> SUFFICES ASSUME Init PROVE OnceInv
  OBVIOUS
<1>1. /\ \A i \in Instances : inst[i].pc = "unborn" /\ inst[i].inbox = <<>>
      /\ \A s \in Senders : send[s].pc = "idle"
      /\ posted = {} /\ begun = {}
  BY InstanceStates, SendStates DEF Init
<1>2. /\ \A i \in Instances : Held(i) = {} /\ ~ InTurn(i) /\ ~ Unreported(i)
      /\ \A s \in Senders : ~ Flying(s)
  BY <1>1, NothingIn DEF Held, InTurn, Unreported, Flying
<1>3. HandledOnce
  BY <1>1, <1>2, NothingIn DEF HandledOnce
<1> QED
  BY <1>1, <1>2, <1>3 DEF OnceInv, OnRecord, OnItsWay, InHand, Turns, Reports

\* Every step keeps each item in one place.
LEMMA OnceStep ==
  ASSUME TeamInv, OnceInv, [Next]_vars
  PROVE  OnceInv'
<1> DEFINE Goal == OnceInv'
<1>1. ASSUME Settles PROVE Goal
  BY <1>1, SettlesKeeps
<1>2. ASSUME NEW c \in Callers, NEW a \in Agents, NEW m \in Messages, Post(c, a, m) PROVE Goal
  <2>1. Sets(c, a, Task(m, None)) /\ c \in Senders /\ \A p \in posted : p.msg # m
    BY <1>2, PostSets DEF TeamInv, Senders, Post
  <2> QED
    BY <2>1, TaskKeepsOnce
<1>3. ASSUME NEW i \in Instances, NEW b \in Agents, NEW m \in Messages, Delegate(i, b, m) PROVE Goal
  <2>1. Sets(i, b, Task(m, Boss)) /\ i \in Senders /\ \A p \in posted : p.msg # m
    BY <1>3, DelegateSets DEF TeamInv, Senders, Delegate
  <2> QED
    BY <2>1, TaskKeepsOnce
<1>4. ASSUME NEW s \in Senders, SendStep(s) PROVE Goal
  BY <1>1, <1>4, SendSettles, PutKeepsOnce DEF SendStep
<1>5. ASSUME NEW i \in Instances, InstanceStep(i) PROVE Goal
  <2>1. CASE BeginTurn(i)
    BY <2>1, BeginKeepsOnce
  <2>2. CASE Works(i) /\ ~ BeginTurn(i)
    BY <1>1, <2>2, WorksSettle
  <2>3. CASE Receive(i) \/ StopRun(i)
    BY <1>1, <2>3, SelectSettles
  <2>4. CASE MessageAgent(i)
    BY <2>4, NoteKeepsOnce
  <2>5. CASE Report(i)
    <3>1. CASE /\ Moves(i) /\ inst'[i].pc \in {"save", "compact"}
               /\ UNCHANGED <<agents, send, posted, begun>>
      <4>1. ~ Unreported(i)' /\ inst[i].pc # "taken"
        BY <2>5, <3>1 DEF Unreported, Report
      <4> QED
        BY <1>1, <3>1, <4>1, MovesSettle
    <3> QED
      BY <2>5, <3>1, ReportSets, ReportKeepsOnce DEF TeamInv
  <2>6. CASE Recycle(i)
    BY <1>1, <2>6, RecycleHalts, HaltsSettle DEF TeamInv
  <2> QED
    BY <1>5, <2>1, <2>2, <2>3, <2>4, <2>5, <2>6 DEF InstanceStep, Works
<1>6. ASSUME EvictIdle PROVE Goal
  <2>1. QuiescableAgents \in SUBSET Agents
    BY DEF QuiescableAgents, LiveAgents
  <2> QED
    BY <1>1, <1>6, <2>1, EvictHalts, HaltsSettle DEF TeamInv
<1>7. ASSUME NEW a \in Agents, Update(a) \/ Remove(a) \/ Add(a) \/ Purge(a) PROVE Goal
  <2>1. UNCHANGED <<agents, inst, send, posted, begun>>
    BY <1>7 DEF Update, Remove, Add, Purge
  <2> QED
    BY <1>1, <2>1, NothingSettles
<1>8. ASSUME NEW a \in Agents, Refresh(a) \/ StopDeleted(a) PROVE Goal
  BY <1>1, <1>8, RefreshHalts, StopDeletedHalts, HaltsSettle DEF TeamInv
<1>9. ASSUME UNCHANGED vars PROVE Goal
  BY <1>1, <1>9, NothingSettles DEF vars
<1> HIDE DEF Goal
<1>10. Goal
  <2>1. CASE Next
    <3>1. CASE \E a \in Agents : Update(a) \/ Remove(a) \/ Add(a) \/ AdminStep(a)
      BY <1>7, <1>8, <3>1 DEF AdminStep
    <3> QED
      BY <1>2, <1>3, <1>4, <1>5, <1>6, <2>1, <3>1, Zenon DEF Next
  <2> QED
    BY <1>9, <2>1
<1> QED
  BY <1>10 DEF Goal

\* An item gets one turn at most.  No retry of sendTo leaves it on a second
\* inbox, no restart, eviction or deletion of an agent takes it a second time,
\* and nothing that a turn has begun is still waiting anywhere (sendTo, enqueue,
\* Run).
THEOREM HandledAtMostOnce == Spec => []HandledOnce
<1>1. TeamInv /\ OnceInv /\ [Next]_vars => (TeamInv /\ OnceInv)'
  BY TeamStep, OnceStep
<1>2. Init => TeamInv /\ OnceInv
  BY TeamInit, OnceInit
<1>3. TeamInv /\ OnceInv => HandledOnce
  BY DEF OnceInv
<1> QED
  BY <1>1, <1>2, <1>3, PTL DEF Spec

-----------------------------------------------------------------------------
(* The ceiling.                                                            *)

\* One agent that comes for one that goes leaves as many.
LEMMA SwapCounts ==
  ASSUME NEW S, IsFiniteSet(S), NEW v \in S, NEW a, a \notin S
  PROVE  Cardinality((S \ {v}) \union {a}) = Cardinality(S)
<1>1. /\ IsFiniteSet(S \ {v}) /\ Cardinality(S \ {v}) = Cardinality(S) - 1
      /\ Cardinality(S) \in Nat
  BY FS_RemoveElement, FS_CardinalityType
<1>2. Cardinality((S \ {v}) \union {a}) = Cardinality(S \ {v}) + 1
  BY <1>1, FS_AddElement
<1> QED
  BY <1>1, <1>2

\* Only start brings an agent to life.
LEMMA OnlyStartAdds ==
  ASSUME TeamInv, [Next]_vars, NEW a \in Agents, agents[a] = None, agents'[a] # None
  PROVE  \E s \in Senders, b \in Agents : \E i \in Instances : Started(s, b, i)
<1> USE DEF TeamInv
<1>1. ASSUME NEW s \in Senders, \/ Lookup(s) \/ Build(s) \/ StartLost(s) \/ StartRefused(s) \/ Put(s)
      PROVE  UNCHANGED agents
  BY <1>1, LookupIs, BuildIs, StartLostIs, StartRefusedIs, PutIs
<1>2. ASSUME NEW i \in Instances, Works(i) \/ Receive(i) \/ StopRun(i) PROVE UNCHANGED agents
  BY <1>2, WorksCalls, ReceiveIs, StopRunIs
<1>3. ASSUME NEW V \in SUBSET Agents, Halts(V) PROVE FALSE
  BY <1>3 DEF Halts
<1>4. ASSUME NEW s \in Senders, Start(s)
      PROVE  /\ Started(s, send[s].to, send[s].target)
             /\ send[s].to \in Agents /\ send[s].target \in Instances
  BY <1>4, StartIs DEF Started
<1>5. PICK s \in Senders : Start(s)
  BY <1>1, <1>2, <1>3, StepIs DEF Sets
<1> QED
  BY <1>4, <1>5

\* What start does to the number of live agents.
LEMMA StartKeepsCeiling ==
  ASSUME TeamInv, [Next]_vars, NEW a \in Agents \ {Boss}, agents[a] = None, agents'[a] # None,
         Cardinality(LiveAgents) >= MaxLive
  PROVE  Cardinality(LiveAgents') =< Cardinality(LiveAgents)
<1>1. PICK s \in Senders, b \in Agents : \E i \in Instances : Started(s, b, i)
  BY OnlyStartAdds
<1>2. PICK i \in Instances : Started(s, b, i)
  BY <1>1
<1>3. agents \in [Agents -> Instances \union {None}] /\ None \notin Instances
  BY TeamAssumption DEF TeamInv, TypeOK, TeamAssumption
<1>4. IsFiniteSet(LiveAgents) /\ Cardinality(LiveAgents) \in Nat /\ MaxLive \in Nat
  BY TeamAssumption, FS_Subset, FS_CardinalityType DEF TeamAssumption, LiveAgents
<1>5. CASE Room(b) /\ agents' = [agents EXCEPT ![b] = i]
  <2>1. a = b
    BY <1>3, <1>5
  <2> QED
    BY <1>4, <1>5, <2>1 DEF Room
<1>6. ASSUME NEW v \in QuiescableAgents, v # b, agents' = [agents EXCEPT ![v] = None, ![b] = i]
      PROVE  Cardinality(LiveAgents') =< Cardinality(LiveAgents)
  <2>1. v \in LiveAgents /\ v \in Agents /\ b \notin LiveAgents
    BY <1>2 DEF QuiescableAgents, LiveAgents, Started
  <2>2. LiveAgents' = (LiveAgents \ {v}) \union {b}
    BY <1>3, <1>6, <2>1 DEF LiveAgents
  <2> QED
    BY <1>4, <2>1, <2>2, SwapCounts
<1> QED
  BY <1>2, <1>5, <1>6 DEF Started

\* Past the ceiling the number of live agents grows by the boss alone: nobody
\* else is started there unless an idle agent gives up its slot in the same
\* hold of s.mu (makeRoomLocked, start).
THEOREM OnlyBossExceeds == Spec => OnlyTheBossExceeds
<1>1. ASSUME TeamInv, [Next]_vars
      PROVE  [\A a \in Agents \ {Boss} :
                agents[a] = None /\ agents'[a] # None /\ Cardinality(LiveAgents) >= MaxLive
                  => Cardinality(LiveAgents') =< Cardinality(LiveAgents)]_vars
  BY <1>1, StartKeepsCeiling
<1> QED
  BY <1>1, TeamInvAlways, PTL DEF Spec, OnlyTheBossExceeds
=============================================================================
