------------------------------- MODULE VMPower -------------------------------
(* One machine's power: the record's state, which Pause, Resume and Inspect *)
(* read before they call firecracker and write after it answers, and the    *)
(* guest those calls act on, while Create finishes, Delete walks its ladder *)
(* and the process may die.  No lock is held during a call.                 *)
(*                                                                          *)
(* What becomes of slots, files and ids is in VMRegistry; here a machine is *)
(* listed until its cleanup, and a rollback's kill and cleanup are one step *)
(* as nothing here comes between them.                                      *)
EXTENDS Naturals, VMStates

CONSTANTS Callers,   \* handlers of pause, resume, get, list and stats
          MaxCalls   \* bound: their requests

ASSUME PowerAssumption == MaxCalls \in Nat

VARIABLES record,    \* v.State
          guest,     \* firecracker: none yet, its own state, or gone
          listed,    \* the registry has the machine
          boot,      \* Create
          call,      \* each handler: its operation, where it is, what it will write
          asked,     \* requests so far
          ladder,    \* Delete
          prev,      \* the state beginStop read
          watched,   \* watchProcess has seen the end
          keyed,     \* history: the guest as Ctrl+Alt+Del reached it
          late,      \* history: after shutdown made sure that the guest runs, a
                     \* pause reached it, or shutdown could not make sure
          answered   \* history: the guest's agent answered Create

powerVars == <<record, guest, listed, boot, call, asked, ladder, prev, watched,
               keyed, late, answered>>

Ops == {"pause", "resume", "refresh", "inspect"}
Alive == {"Running", "Paused"}
Resting == [op |-> "none", pc |-> "idle", to |-> "creating"]

\* The states an operation goes on from.
Accepts == [pause |-> {"running"}, resume |-> {"paused"},
            refresh |-> {"running", "paused"}, inspect |-> States]

\* What a firecracker state is called in the record (Inspect's want).
want == [Running |-> "running", Paused |-> "paused"]

After(to) == IF record = to \/ canTransition(record, to) THEN to ELSE record

PowerInit ==
  /\ record = "creating" /\ guest = "none" /\ listed = TRUE
  /\ boot = "spawn"
  /\ call = [c \in Callers |-> Resting]
  /\ asked = 0
  /\ ladder = "idle" /\ prev = "creating"
  /\ watched = FALSE
  /\ keyed = "none" /\ late = FALSE /\ answered = FALSE

-----------------------------------------------------------------------------
(* Create, the watcher, and the end of the process.                        *)

spawn == /\ boot = "spawn" /\ guest = "none"
         /\ guest' = "Running" /\ boot' = "wait"
         /\ UNCHANGED <<record, listed, call, asked, ladder, prev, watched, keyed, late, answered>>

\* A paused guest does not answer.
waitForAgent == /\ boot = "wait"
                /\ \/ guest = "Running" /\ boot' = "run" /\ answered' = TRUE
                   \/ boot' = "rollback" /\ UNCHANGED answered
                /\ UNCHANGED <<record, guest, listed, call, asked, ladder, prev, watched, keyed, late>>

BootedUp ==
  /\ boot = "run"
  /\ record' = After("running")
  /\ boot' = IF record' = "running" THEN "up" ELSE "rollback"
  /\ UNCHANGED <<guest, listed, call, asked, ladder, prev, watched, keyed, late, answered>>

\* boot fails before the process started, or Create gives the machine up.
Rollback == /\ boot \in {"spawn", "rollback"}
            /\ boot' = "off"
            /\ guest' = IF guest \in Alive THEN "gone" ELSE guest
            /\ listed' = FALSE
            /\ UNCHANGED <<record, call, asked, ladder, prev, watched, keyed, late, answered>>

Exit == /\ guest \in Alive
        /\ guest' = "gone"
        /\ UNCHANGED <<record, listed, boot, call, asked, ladder, prev, watched, keyed, late, answered>>

\* An exit Delete did not ask for: failed, and cleaned up.
ExitSeen ==
  /\ guest = "gone" /\ ~watched
  /\ watched' = TRUE
  /\ IF ladder \in {"idle", "begin"}
     THEN record' = After("failed") /\ listed' = FALSE
     ELSE UNCHANGED <<record, listed>>
  /\ UNCHANGED <<guest, boot, call, asked, ladder, prev, keyed, late, answered>>

-----------------------------------------------------------------------------
(* Pause, Resume, Refresh, Inspect.                                        *)

\* The handler found the machine, and the state it needs.
Ask(c, op) == /\ listed /\ call[c].pc = "idle" /\ asked < MaxCalls
              /\ record \in Accepts[op]
              /\ asked' = asked + 1
              /\ call' = [call EXCEPT ![c] = [op |-> op, pc |-> "call", to |-> "creating"]]
              /\ UNCHANGED <<record, guest, listed, boot, ladder, prev, watched, keyed, late, answered>>

\* The call is refused, unanswered or given up after five seconds.
NoAnswer(c) == /\ call[c].pc = "call"
               /\ call' = [call EXCEPT ![c] = Resting]
               /\ UNCHANGED <<record, guest, listed, boot, asked, ladder, prev, watched, keyed, late, answered>>

\* firecracker does as told, and its answer comes or does not.
SetVMState(c) ==
  /\ call[c].pc = "call" /\ call[c].op \in {"pause", "resume"}
  /\ guest \in Alive
  /\ guest' = IF call[c].op = "pause" THEN "Paused" ELSE "Running"
  /\ late' = (late \/ (call[c].op = "pause" /\ ladder = "key"))
  /\ \/ call' = [call EXCEPT ![c] = [@ EXCEPT !.pc = "set", !.to = want[guest']]]
     \/ call' = [call EXCEPT ![c] = Resting]
  /\ UNCHANGED <<record, listed, boot, asked, ladder, prev, watched, keyed, answered>>

\* A poll's reply: the state as it is now.
Describe(c) ==
  /\ call[c].pc = "call" /\ call[c].op \in {"refresh", "inspect"}
  /\ guest \in Alive
  /\ call' = [call EXCEPT ![c] = [@ EXCEPT !.pc = "set", !.to = want[guest]]]
  /\ UNCHANGED <<record, guest, listed, boot, asked, ladder, prev, watched, keyed, late, answered>>

\* SetState, whatever became of the machine meanwhile.
SetAfter(c) ==
  /\ call[c].pc = "set"
  /\ record' = After(call[c].to)
  /\ call' = [call EXCEPT ![c] = Resting]
  /\ UNCHANGED <<guest, listed, boot, asked, ladder, prev, watched, keyed, late, answered>>

-----------------------------------------------------------------------------
(* Delete.                                                                 *)

beginStop == /\ ladder = "idle" /\ listed
             /\ prev' = record
             /\ ladder' = "begin"
             /\ UNCHANGED <<record, guest, listed, boot, call, asked, watched, keyed, late, answered>>

\* The other half of beginStop.  Without a process there is nothing to shut down.
Stopping == /\ ladder = "begin"
            /\ record' = After("stopping")
            /\ ladder' = IF guest = "none" THEN "cleanup" ELSE "look"
            /\ UNCHANGED <<guest, listed, boot, call, asked, prev, watched, keyed, late, answered>>

\* shutdown believes the record without asking.
Look_Unasked == /\ ladder = "look"
                /\ ladder' = IF prev = "paused" THEN "resume" ELSE "key"
                /\ UNCHANGED <<record, guest, listed, boot, call, asked, prev, watched, keyed, late, answered>>

\* shutdown: paused, by the record or when asked (wasPaused).
Look == /\ ladder = "look"
        /\ \/ /\ prev = "paused" \/ guest = "Paused"
              /\ ladder' = "resume" /\ UNCHANGED late
           \/ /\ prev # "paused" /\ guest # "Paused"
              /\ ladder' = "key" /\ UNCHANGED late
           \/ /\ prev # "paused"
              /\ ladder' = "key" /\ late' = TRUE
        /\ UNCHANGED <<record, guest, listed, boot, call, asked, prev, watched, keyed, answered>>

ResumeFirst ==
  /\ ladder = "resume"
  /\ ladder' = "key"
  /\ \/ guest' = (IF guest = "Paused" THEN "Running" ELSE guest) /\ UNCHANGED late
     \/ late' = TRUE /\ UNCHANGED guest
  /\ UNCHANGED <<record, listed, boot, call, asked, prev, watched, keyed, answered>>

\* SendCtrlAltDel; a call that fails is only logged.
SendKey == /\ ladder = "key"
           /\ ladder' = "wait"
           /\ keyed' \in {guest, "none"}
           /\ UNCHANGED <<record, guest, listed, boot, call, asked, prev, watched, late, answered>>

\* The guest shuts down in time, or escalate kills it.
WaitExit == /\ ladder = "wait"
            /\ ladder' = "cleanup"
            /\ guest' = "gone"
            /\ UNCHANGED <<record, listed, boot, call, asked, prev, watched, keyed, late, answered>>

cleanup == /\ ladder = "cleanup"
           /\ ladder' = "done"
           /\ listed' = FALSE
           /\ UNCHANGED <<record, guest, boot, call, asked, prev, watched, keyed, late, answered>>

PowerNext ==
  \/ spawn \/ waitForAgent \/ BootedUp \/ Rollback \/ Exit \/ ExitSeen
  \/ \E c \in Callers : \/ \E op \in Ops : Ask(c, op)
                        \/ NoAnswer(c) \/ SetVMState(c) \/ Describe(c) \/ SetAfter(c)
  \/ beginStop \/ Stopping \/ Look \/ ResumeFirst \/ SendKey \/ WaitExit \/ cleanup

PowerSpec == PowerInit /\ [][PowerNext]_powerVars

-----------------------------------------------------------------------------
(* Properties.                                                             *)

PowerTypeOK ==
  /\ record \in States /\ prev \in States
  /\ guest \in Alive \union {"none", "gone"} /\ keyed \in Alive \union {"none", "gone"}
  /\ boot \in {"spawn", "wait", "run", "up", "rollback", "off"}
  /\ call \in [Callers -> [op : Ops \union {"none"}, pc : {"idle", "call", "set"}, to : States]]
  /\ asked \in 0 .. MaxCalls
  /\ ladder \in {"idle", "begin", "look", "resume", "key", "wait", "cleanup", "done"}
  /\ listed \in BOOLEAN /\ watched \in BOOLEAN /\ late \in BOOLEAN /\ answered \in BOOLEAN

\* A machine is asked to shut down while it runs, however wrong the record was
\* when it was read and whatever was done to it since; what is left is a pause
\* in the very last moment and a firecracker that does not answer (shutdown,
\* wasPaused).
KeySeen == keyed = "Paused" => late

\* The late answer of a call never brings back a machine that is being deleted
\* or has failed (SetState after a call of Pause, Resume, Inspect).
StaysOver == /\ ladder \notin {"idle", "begin"} => record = "stopping"
             /\ watched => record \in {"failed", "stopping"}

\* The power calls race the end of a machine harmlessly.
PowerSound == KeySeen /\ StaysOver

\* "so resume it first or every paused delete burns the full graceful timeout"
\* (shutdown).  It can burn all the same: a pause may come between.
NeverKeyedAsleep == keyed # "Paused"

\* "Inspect reconciles our record like Refresh" (Inspect).  Not so while the
\* machine boots: it is called running before its agent has answered.
RunningHasAnswered == record \in {"running", "paused"} => answered

\* "Refresh reconciles our record with firecracker's own view of the VM"
\* (Refresh).  Not so of a poll during which another call begins and ends: it
\* writes what was true before.
PollReconciles ==
  [][\A c \in Callers :
       /\ call[c].pc = "set" /\ call[c].op \in {"refresh", "inspect"} /\ call'[c].pc = "idle"
       /\ \A d \in Callers \ {c} : call[d].pc = "idle"
       /\ record' \in {"running", "paused"} /\ guest \in Alive
       => record' = want[guest]]_powerVars
=============================================================================
