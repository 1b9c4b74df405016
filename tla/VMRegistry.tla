----------------------------- MODULE VMRegistry -----------------------------
(***************************************************************************)
(* The control plane's VM registry (internal/vm): the fixed slot table,    *)
(* the id index, and every goroutine that walks a machine through its      *)
(* life.  A machine is a VM pointer; ids and slots are reused by later     *)
(* machines, and the host resources are named after the id or the slot,    *)
(* never after the pointer.                                                *)
(*                                                                         *)
(* Goroutines: one creator per machine (the POST handler in Create), one   *)
(* watcher per spawned process (watchProcess), and jobs, the callers of    *)
(* Delete and cleanup: DELETE handlers, the drain and killRemaining.  Each *)
(* step is one critical section of Registry.mu or one host operation.      *)
(***************************************************************************)
EXTENDS Naturals, FiniteSets, VMStates

CONSTANTS
    Ids,         \* machine ids a caller may ask for
    NumSlots,    \* MaxVMs
    VMs,         \* VM pointers: one is spent by each Allocate
    Deleters,    \* DELETE handlers, each serving one request
    Drainer,     \* the goroutine of DrainAll
    Killer,      \* DrainAll's caller once the budget is exceeded
    None,        \* nil
    MaxDrains,   \* bound: shutdowns that reach DrainAll
    MaxRestarts  \* bound: exits of the process with a new one after it

Slots == 0 .. NumSlots - 1

ASSUME RegistryConstants ==
    /\ NumSlots \in Nat \ {0}
    /\ None \notin VMs /\ None \notin Slots
    /\ None \notin Ids
    /\ Drainer # Killer /\ Drainer \notin Deleters /\ Killer \notin Deleters
    /\ MaxDrains \in Nat /\ MaxRestarts \in Nat

Jobs == Deleters \cup {Drainer, Killer}

VARIABLES
    slots,      \* Registry.slots
    byID,       \* Registry.byID
    vm,         \* the fields of each VM struct
    proc,       \* each machine's firecracker process on the host
    workspace,  \* the disk file of each id
    tap,        \* the tap device of each slot: the machine that made it
    runDir,     \* the run directory of each id: absent, or whose vm.json
    creator,    \* program counter of each machine's Create
    watcher,    \* program counter of each machine's watchProcess
    job,        \* each job's program counter, arguments and machine
    draining,   \* the machines Drainer and Killer have still to take
    drains,     \* shutdowns so far
    serving,    \* the HTTP server still accepts requests
    restarts,   \* restarts so far
    erased,     \* history: a purge of this id was reported, none created since
    recorded    \* history: whose vm.json each id's last write was meant to leave

registryVars == <<slots, byID, vm>>
hostVars == <<proc, workspace, tap, runDir>>
drainVars == <<draining, drains, serving>>
history == <<erased, recorded>>
vars == <<registryVars, hostVars, creator, watcher, job, drainVars, restarts,
          history>>

-----------------------------------------------------------------------------
(* Values.                                                                 *)

NoDir == "no directory"
NoFile == "no vm.json"

\* A vm.json is told from the lack of one, or of its directory.
ASSUME RunDirConstants == NoDir \notin VMs /\ NoFile \notin VMs

NewVM(i, s) ==
    [id |-> i, slot |-> s, state |-> "creating", spawned |-> FALSE,
     stopping |-> FALSE, isNew |-> FALSE]

Unborn == [id |-> None, slot |-> None, state |-> "creating", spawned |-> FALSE,
           stopping |-> FALSE, isNew |-> FALSE]

IdleJob == [pc |-> "idle", id |-> None, vm |-> None, purge |-> FALSE]

CreatorPCs == {"idle", "mkdir", "stat", "mkfs", "tap", "spawn", "record",
               "wait", "run", "reap", "remove", "ok", "failed", "leaked", "lost"}
WatcherPCs == {"none", "wait", "remove", "end"}
JobPCs == {"idle", "begin", "mark", "ladder", "reap", "remove",
           "purge", "ok", "err"}

VMStruct ==
    [id : Ids \cup {None}, slot : Slots \cup {None}, state : States,
     spawned : BOOLEAN, stopping : BOOLEAN, isNew : BOOLEAN]
JobStruct ==
    [pc : JobPCs, id : Ids \cup {None}, vm : VMs \cup {None}, purge : BOOLEAN]

\* A Create that has allocated its machine and not yet returned.
Booting == {"mkdir", "stat", "mkfs", "tap", "spawn", "record", "wait", "run",
            "reap", "remove"}

Registered(v) == vm[v].id # None /\ byID[vm[v].id] = v

Live == {v \in VMs : Registered(v)}

TypeOK ==
    /\ slots \in [Slots -> VMs \cup {None}]
    /\ byID \in [Ids -> VMs \cup {None}]
    /\ vm \in [VMs -> VMStruct]
    /\ proc \in [VMs -> {"none", "up", "gone"}]
    /\ workspace \in [Ids -> {"absent", "blank", "data"}]
    /\ tap \in [Slots -> VMs \cup {None}]
    /\ runDir \in [Ids -> VMs \cup {NoDir, NoFile}]
    /\ creator \in [VMs -> CreatorPCs]
    /\ watcher \in [VMs -> WatcherPCs]
    /\ job \in [Jobs -> JobStruct]
    /\ draining \in [{Drainer, Killer} -> SUBSET VMs]
    /\ drains \in Nat
    /\ serving \in BOOLEAN
    /\ restarts \in Nat
    /\ erased \in [Ids -> BOOLEAN]
    /\ recorded \in [Ids -> VMs \cup {None}]

Init ==
    /\ slots = [s \in Slots |-> None]
    /\ byID = [i \in Ids |-> None]
    /\ vm = [v \in VMs |-> Unborn]
    /\ proc = [v \in VMs |-> "none"]
    /\ workspace \in [Ids -> {"absent", "data"}]
    /\ tap = [s \in Slots |-> None]
    /\ runDir = [i \in Ids |-> NoDir]
    /\ creator = [v \in VMs |-> "idle"]
    /\ watcher = [v \in VMs |-> "none"]
    /\ job = [j \in Jobs |-> IdleJob]
    /\ draining = [j \in {Drainer, Killer} |-> {}]
    /\ drains = 0
    /\ serving = TRUE
    /\ restarts = 0
    /\ erased = [i \in Ids |-> FALSE]
    /\ recorded = [i \in Ids |-> None]

-----------------------------------------------------------------------------
(* The critical sections of Registry.mu.                                   *)

FreeSlots == {s \in Slots : slots[s] = None}

freeSlot == CHOOSE s \in FreeSlots : \A t \in FreeSlots : s <= t

\* SetState accepts the state the machine is already in, then any legal move.
MaySet(v, to) == vm[v].state = to \/ canTransition(vm[v].state, to)

SetState(v, to) == vm' = IF MaySet(v, to) THEN [vm EXCEPT ![v].state = to] ELSE vm

\* Mutant: the id is released whoever holds it.
releaseLocked_AnyHolder(v) ==
    /\ slots' = [s \in Slots |-> IF slots[s] = v THEN None ELSE slots[s]]
    /\ byID' = [i \in Ids |-> IF i = vm[v].id THEN None ELSE byID[i]]

releaseLocked(v) ==
    /\ slots' = [s \in Slots |-> IF s = vm[v].slot /\ slots[s] = v
                                 THEN None ELSE slots[s]]
    /\ byID' = [i \in Ids |-> IF i = vm[v].id /\ byID[i] = v
                              THEN None ELSE byID[i]]

\* Mutant: a late cleanup does not look at who holds the id.
Replaced_Unchecked(v) == FALSE

Replaced(v) == byID[vm[v].id] \notin {v, None}

\* An unlink that fails for a reason other than absence.
UnlinkMayFail(i, purge, fails) == fails => purge /\ workspace[i] # "absent"

\* The part of cleanup under Registry.mu: nothing addressed by id or slot is
\* touched once a newer machine holds the id.
RemoveResources(v, purge, fails) ==
    LET i == vm[v].id IN
    /\ releaseLocked(v)
    /\ IF Replaced(v)
       THEN UNCHANGED <<tap, runDir, workspace>>
       ELSE /\ tap' = [tap EXCEPT ![vm[v].slot] = None]
            /\ runDir' = [runDir EXCEPT ![i] = NoDir]
            /\ workspace' = [workspace EXCEPT ![i] =
                                IF purge /\ ~fails THEN "absent" ELSE @]

\* Mutant: cleanup without reap.
Kill_Skipped(v) == UNCHANGED proc

\* reap: SIGKILL to the group of a process that has not been reaped yet.
Kill(v) == proc' = IF vm[v].spawned /\ proc[v] = "up"
                   THEN [proc EXCEPT ![v] = "gone"] ELSE proc

-----------------------------------------------------------------------------
(* Create: Allocate, the steps of boot, SetState(running), the rollback.   *)

CreatorStep(v, from, to) ==
    /\ creator[v] = from
    /\ creator' = [creator EXCEPT ![v] = to]

Allocate(v, i) ==
    /\ serving
    /\ CreatorStep(v, "idle", "mkdir")
    /\ byID[i] = None
    /\ FreeSlots # {}
    /\ vm' = [vm EXCEPT ![v] = NewVM(i, freeSlot)]
    /\ slots' = [slots EXCEPT ![freeSlot] = v]
    /\ byID' = [byID EXCEPT ![i] = v]
    /\ erased' = [erased EXCEPT ![i] = FALSE]
    /\ recorded' = [recorded EXCEPT ![i] = None]
    /\ UNCHANGED <<hostVars, watcher, job, drainVars, restarts>>

MakeRunDir(v) ==
    /\ CreatorStep(v, "mkdir", "stat")
    /\ runDir' = [runDir EXCEPT ![vm[v].id] = IF @ = NoDir THEN NoFile ELSE @]
    /\ UNCHANGED <<registryVars, proc, workspace, tap, watcher, job, drainVars,
                   restarts, history>>

\* prepareWorkspace: an existing disk is repaired and kept, else one is made.
StatWorkspace(v) ==
    /\ CreatorStep(v, "stat", IF workspace[vm[v].id] = "absent" THEN "mkfs" ELSE "tap")
    /\ UNCHANGED <<registryVars, hostVars, watcher, job, drainVars, restarts,
                   history>>

FormatWorkspace(v) ==
    /\ CreatorStep(v, "mkfs", "tap")
    /\ workspace' = [workspace EXCEPT ![vm[v].id] = "blank"]
    /\ vm' = [vm EXCEPT ![v].isNew = TRUE]
    /\ UNCHANGED <<slots, byID, proc, tap, runDir, watcher, job, drainVars,
                   restarts, history>>

\* A failed mkfs removes the file, a failed truncate leaves what there was.
FormatFails(v) ==
    /\ CreatorStep(v, "mkfs", "reap")
    /\ \/ workspace' = [workspace EXCEPT ![vm[v].id] = "absent"]
       \/ UNCHANGED workspace
    /\ UNCHANGED <<registryVars, proc, tap, runDir, watcher, job, drainVars,
                   restarts, history>>

CreateTap(v) ==
    /\ CreatorStep(v, "tap", "spawn")
    /\ tap' = [tap EXCEPT ![vm[v].slot] = v]
    /\ UNCHANGED <<registryVars, proc, workspace, runDir, watcher, job,
                   drainVars, restarts, history>>

\* writeConfigJSON and the console file need the run directory; then
\* firecracker starts.
Spawn(v) ==
    /\ CreatorStep(v, "spawn", "record")
    /\ runDir[vm[v].id] # NoDir
    /\ proc' = [proc EXCEPT ![v] = "up"]
    /\ vm' = [vm EXCEPT ![v].spawned = TRUE]
    /\ UNCHANGED <<slots, byID, workspace, tap, runDir, watcher, job, drainVars,
                   restarts, history>>

\* writeStateFile only logs its failure: vm.json is written whole, is cut short
\* and cannot be read, or is not opened and stays as it was, as it does where
\* there is no directory.  The watcher starts after it.
RecordState(v) ==
    LET i == vm[v].id IN
    /\ CreatorStep(v, "record", "wait")
    /\ \/ /\ runDir' = [runDir EXCEPT ![i] = IF @ = NoDir THEN NoDir ELSE v]
          /\ recorded' = [recorded EXCEPT ![i] = v]
       \/ /\ runDir' = [runDir EXCEPT ![i] = IF @ = NoDir THEN NoDir ELSE NoFile]
          /\ recorded' = [recorded EXCEPT ![i] = None]
       \/ UNCHANGED <<runDir, recorded>>
    /\ watcher' = [watcher EXCEPT ![v] = "wait"]
    /\ UNCHANGED <<registryVars, proc, workspace, tap, job, drainVars, restarts,
                   erased>>

\* Any command of boot may fail; waitForAgent fails on exit or on its timeout.
BootFails(v) ==
    /\ \E pc \in {"mkdir", "stat", "tap", "spawn", "wait"} : CreatorStep(v, pc, "reap")
    /\ UNCHANGED <<registryVars, hostVars, watcher, job, drainVars, restarts,
                   history>>

\* waitForAgent dials the slot's address: whichever guest is there answers.
AgentAnswers(v) ==
    /\ CreatorStep(v, "wait", "run")
    /\ tap[vm[v].slot] # None
    /\ \E u \in VMs : proc[u] = "up" /\ vm[u].slot = vm[v].slot
    /\ UNCHANGED <<registryVars, hostVars, watcher, job, drainVars, restarts,
                   history>>

\* From here on the person writes to the disk: a blank one holds data.
BecomeRunning(v) ==
    /\ MaySet(v, "running")
    /\ CreatorStep(v, "run", "ok")
    /\ SetState(v, "running")
    /\ workspace' = [workspace EXCEPT ![vm[v].id] =
                        IF @ = "blank" THEN "data" ELSE @]
    /\ UNCHANGED <<slots, byID, proc, tap, runDir, watcher, job, drainVars,
                   restarts, history>>

\* A delete moved the machine to stopping (or its process died) meanwhile.
LoseRunning(v) ==
    /\ ~MaySet(v, "running")
    /\ CreatorStep(v, "run", "reap")
    /\ UNCHANGED <<registryVars, hostVars, watcher, job, drainVars, restarts,
                   history>>

RollbackReap(v) ==
    /\ CreatorStep(v, "reap", "remove")
    /\ Kill(v)
    /\ UNCHANGED <<registryVars, workspace, tap, runDir, watcher, job, drainVars,
                   restarts, history>>

\* Mutant: the rollback keeps a disk it has just made.
RollbackRemove_Keeps(v) ==
    /\ creator[v] = "remove"
    /\ \E fails \in BOOLEAN :
        /\ UnlinkMayFail(vm[v].id, FALSE, fails)
        /\ CreatorStep(v, "remove", IF fails /\ ~Replaced(v) THEN "leaked" ELSE "failed")
        /\ RemoveResources(v, FALSE, fails)
    /\ UNCHANGED <<vm, proc, watcher, job, drainVars, restarts, history>>

\* Mutant: the rollback purges a disk it found.
RollbackRemove_Purges(v) ==
    /\ creator[v] = "remove"
    /\ \E fails \in BOOLEAN :
        /\ UnlinkMayFail(vm[v].id, TRUE, fails)
        /\ CreatorStep(v, "remove", IF fails /\ ~Replaced(v) THEN "leaked" ELSE "failed")
        /\ RemoveResources(v, TRUE, fails)
    /\ UNCHANGED <<vm, proc, watcher, job, drainVars, restarts, history>>

\* cleanup(v, v.workspaceIsNew): the error of a failed unlink is dropped.
RollbackRemove(v) ==
    /\ creator[v] = "remove"
    /\ \E fails \in BOOLEAN :
        /\ UnlinkMayFail(vm[v].id, vm[v].isNew, fails)
        /\ CreatorStep(v, "remove", IF fails /\ ~Replaced(v) THEN "leaked" ELSE "failed")
        /\ RemoveResources(v, vm[v].isNew, fails)
    /\ UNCHANGED <<vm, proc, watcher, job, drainVars, restarts, history>>

Create(v) ==
    \/ \E i \in Ids : Allocate(v, i)
    \/ MakeRunDir(v) \/ StatWorkspace(v) \/ FormatWorkspace(v) \/ FormatFails(v)
    \/ CreateTap(v) \/ Spawn(v) \/ RecordState(v) \/ BootFails(v)
    \/ AgentAnswers(v) \/ BecomeRunning(v) \/ LoseRunning(v)
    \/ RollbackReap(v) \/ RollbackRemove(v)

-----------------------------------------------------------------------------
(* The firecracker process and watchProcess.                               *)

\* The guest powers off, or firecracker crashes.
ProcExit(v) ==
    /\ proc[v] = "up"
    /\ proc' = [proc EXCEPT ![v] = "gone"]
    /\ UNCHANGED <<registryVars, workspace, tap, runDir, creator, watcher, job,
                   drainVars, restarts, history>>

WatcherStep(v, from, to) ==
    /\ watcher[v] = from
    /\ watcher' = [watcher EXCEPT ![v] = to]

\* Mutant: the watcher fails the machine and leaves its slot taken.
WatchJudge_NoCleanup(v) ==
    /\ WatcherStep(v, "wait", "end")
    /\ proc[v] = "gone"
    /\ IF vm[v].stopping THEN UNCHANGED vm ELSE SetState(v, "failed")
    /\ UNCHANGED <<slots, byID, hostVars, creator, job, drainVars, restarts, history>>

\* cmd.Wait returns, v.done is closed (WaitedExit reads proc instead, which
\* does not change any more), and v.stopping is read: an exit nobody asked for
\* fails the machine and reclaims its slot.
WatchJudge(v) ==
    /\ WatcherStep(v, "wait", IF vm[v].stopping THEN "end" ELSE "remove")
    /\ proc[v] = "gone"
    /\ IF vm[v].stopping THEN UNCHANGED vm ELSE SetState(v, "failed")
    /\ UNCHANGED <<slots, byID, hostVars, creator, job, drainVars, restarts, history>>

\* cleanup(v, false), whose reap has nothing left to kill.
WatchRemove(v) ==
    /\ WatcherStep(v, "remove", "end")
    /\ RemoveResources(v, FALSE, FALSE)
    /\ UNCHANGED <<vm, proc, creator, job, drainVars, restarts, history>>

watchProcess(v) == WatchJudge(v) \/ WatchRemove(v)

-----------------------------------------------------------------------------
(* DELETE handlers, and Delete itself.                                     *)

JobEnds(j, result) == job' = [job EXCEPT ![j] = [IdleJob EXCEPT !.pc = result]]

JobStep(j, from, to) ==
    /\ job[j].pc = from
    /\ job' = [job EXCEPT ![j].pc = to]

\* handleDelete: Get, and PurgeWorkspace when nothing is registered.
GetForDelete(j, i, purge) ==
    /\ serving
    /\ j \in Deleters
    /\ job[j].pc = "idle"
    /\ byID[i] # None \/ purge
    /\ job' = [job EXCEPT ![j] =
                 [pc |-> IF byID[i] = None THEN "purge" ELSE "begin",
                  id |-> i, vm |-> byID[i], purge |-> purge]]
    /\ UNCHANGED <<registryVars, hostVars, creator, watcher, drainVars, restarts,
                   history>>

\* The absence check and the unlink are one critical section.
PurgeWorkspace(j) ==
    LET i == job[j].id IN
    /\ job[j].pc = "purge"
    /\ \E fails \in BOOLEAN :
        /\ UnlinkMayFail(i, TRUE, fails)
        /\ JobEnds(j, IF byID[i] = None /\ ~fails THEN "ok" ELSE "err")
        /\ IF byID[i] = None /\ ~fails
           THEN /\ workspace' = [workspace EXCEPT ![i] = "absent"]
                /\ erased' = [erased EXCEPT ![i] = TRUE]
           ELSE UNCHANGED <<workspace, erased>>
        /\ UNCHANGED <<registryVars, proc, tap, runDir, creator, watcher,
                       drainVars, restarts, recorded>>

\* beginStop: SetState(stopping), then v.stopping outside the mutex.
BeginStop(j) ==
    LET v == job[j].vm IN
    /\ job[j].pc = "begin"
    /\ IF MaySet(v, "stopping") THEN JobStep(j, "begin", "mark") ELSE JobEnds(j, "err")
    /\ SetState(v, "stopping")
    /\ UNCHANGED <<slots, byID, hostVars, creator, watcher, drainVars, restarts,
                   history>>

\* Then shutdown: a machine that has not spawned has no process to walk down
\* the ladder.  Only a watcher, and so only after a spawn, tells the two apart.
MarkStopping(j) ==
    /\ JobStep(j, "mark", IF vm[job[j].vm].spawned THEN "ladder" ELSE "reap")
    /\ vm' = [vm EXCEPT ![job[j].vm].stopping = TRUE]
    /\ UNCHANGED <<slots, byID, hostVars, creator, watcher, drainVars, restarts,
                   history>>

\* Mutant: the ladder ends at Ctrl+Alt+Del.
Escalate_Never(j) == FALSE /\ UNCHANGED vars

\* waitExit outlasted: SIGTERM, then SIGKILL.
Escalate(j) ==
    /\ job[j].pc = "ladder"
    /\ proc[job[j].vm] = "up"
    /\ proc' = [proc EXCEPT ![job[j].vm] = "gone"]
    /\ UNCHANGED <<registryVars, workspace, tap, runDir, creator, watcher, job,
                   drainVars, restarts, history>>

\* The process is gone and v.done is closed, or killWait has run out meanwhile;
\* cleanup's reap has nothing left to kill.
WaitedExit(j) ==
    /\ JobStep(j, "ladder", "remove")
    /\ proc[job[j].vm] = "gone"
    /\ UNCHANGED <<registryVars, hostVars, creator, watcher, drainVars, restarts,
                   history>>

CleanupReap(j) ==
    /\ JobStep(j, "reap", "remove")
    /\ Kill(job[j].vm)
    /\ UNCHANGED <<registryVars, workspace, tap, runDir, creator, watcher,
                   drainVars, restarts, history>>

\* A purge that was skipped or whose unlink failed is an error to the caller.
CleanupRemove(j) ==
    LET v == job[j].vm
        purge == job[j].purge
    IN
    /\ job[j].pc = "remove"
    /\ \E fails \in BOOLEAN :
        /\ UnlinkMayFail(vm[v].id, purge, fails)
        /\ LET kept == purge /\ (Replaced(v) \/ fails) IN
           /\ JobEnds(j, IF kept THEN "err" ELSE "ok")
           /\ erased' = IF purge /\ ~kept
                        THEN [erased EXCEPT ![vm[v].id] = TRUE] ELSE erased
        /\ RemoveResources(v, purge, fails)
        /\ UNCHANGED <<vm, proc, creator, watcher, drainVars, restarts, recorded>>

Delete(j) ==
    \/ BeginStop(j) \/ MarkStopping(j) \/ Escalate(j)
    \/ WaitedExit(j) \/ CleanupReap(j) \/ CleanupRemove(j)

-----------------------------------------------------------------------------
(* DrainAll and killRemaining, on the way out; Sweep, on the way back in.  *)

Free(j) == job[j].pc \in {"idle", "ok", "err"}

\* srv.Shutdown stops accepting requests; those accepted have reached the
\* registry by the end of its five seconds and may still be anywhere in it.
\* DrainAll lists the machines once and deletes them one after the other.
DrainAll ==
    /\ serving
    /\ drains < MaxDrains
    /\ serving' = FALSE
    /\ Live # {}
    /\ Free(Drainer) /\ draining[Drainer] = {}
    /\ drains' = drains + 1
    /\ draining' = [draining EXCEPT ![Drainer] = Live]
    /\ UNCHANGED <<registryVars, hostVars, creator, watcher, job, restarts, history>>

\* Mutant: the drain passes over machines that are not running.
DrainNext_RunningOnly ==
    /\ Free(Drainer)
    /\ \E v \in draining[Drainer] :
        /\ draining' = [draining EXCEPT ![Drainer] = @ \ {v}]
        /\ job' = IF vm[v].state = "running"
                  THEN [job EXCEPT ![Drainer] = [pc |-> "begin", id |-> vm[v].id,
                                                 vm |-> v, purge |-> FALSE]]
                  ELSE job
    /\ UNCHANGED <<registryVars, hostVars, creator, watcher, drains, serving,
                   restarts, history>>

\* The list is in slot order.
DrainNext ==
    /\ Free(Drainer)
    /\ \E v \in draining[Drainer] :
        /\ \A u \in draining[Drainer] : vm[v].slot <= vm[u].slot
        /\ draining' = [draining EXCEPT ![Drainer] = @ \ {v}]
        /\ job' = [job EXCEPT ![Drainer] =
                     [pc |-> "begin", id |-> vm[v].id, vm |-> v, purge |-> FALSE]]
    /\ UNCHANGED <<registryVars, hostVars, creator, watcher, drains,
                   serving, restarts, history>>

\* The budget ran out before the drain did.
killRemaining ==
    /\ ~serving
    /\ draining[Drainer] # {} \/ ~Free(Drainer)
    /\ job[Killer].pc = "idle" /\ draining[Killer] = {}
    /\ draining' = [draining EXCEPT ![Killer] = Live]
    /\ UNCHANGED <<registryVars, hostVars, creator, watcher, job, drains, serving,
                   restarts, history>>

\* SIGKILL to the group, then cleanup: no state change, no ladder.
KillNext ==
    /\ Free(Killer)
    /\ \E v \in draining[Killer] :
        /\ \A u \in draining[Killer] : vm[v].slot <= vm[u].slot
        /\ draining' = [draining EXCEPT ![Killer] = @ \ {v}]
        /\ Kill(v)
        /\ job' = [job EXCEPT ![Killer] =
                     [pc |-> "reap", id |-> vm[v].id, vm |-> v, purge |-> FALSE]]
    /\ UNCHANGED <<registryVars, workspace, tap, runDir, creator, watcher, drains,
                   serving, restarts, history>>

\* The server's process ends, by a crash or after a drain, taking its
\* goroutines along; any of the firecrackers may outlive it.  The next process
\* sweeps before it serves: what a vm.json names is killed, every tap and the
\* whole run root are removed, workspaces are left.  The structs are gone; which
\* id each was for is kept, for the properties.
Restart ==
    /\ restarts < MaxRestarts
    /\ restarts' = restarts + 1
    /\ slots' = [s \in Slots |-> None]
    /\ byID' = [i \in Ids |-> None]
    /\ \E survivors \in SUBSET {v \in VMs : proc[v] = "up"} :
         proc' = [v \in VMs |->
                    IF proc[v] = "up" /\ (v \notin survivors
                                          \/ \E i \in Ids : runDir[i] = v)
                    THEN "gone" ELSE proc[v]]
    /\ tap' = [s \in Slots |-> None]
    /\ runDir' = [i \in Ids |-> NoDir]
    /\ creator' = [v \in VMs |-> IF creator[v] = "idle" THEN "idle" ELSE "lost"]
    /\ watcher' = [v \in VMs |-> IF watcher[v] = "none" THEN "none" ELSE "end"]
    /\ job' = [j \in Jobs |-> IF j \in Deleters /\ job[j].pc # "idle"
                              THEN [IdleJob EXCEPT !.pc = "err"] ELSE IdleJob]
    /\ draining' = [j \in {Drainer, Killer} |-> {}]
    /\ serving' = TRUE
    /\ vm' = [v \in VMs |-> [Unborn EXCEPT !.id = vm[v].id]]
    /\ recorded' = [i \in Ids |-> None]
    /\ UNCHANGED <<workspace, drains, erased>>

Next ==
    \/ \E v \in VMs : Create(v)
    \/ \E v \in VMs : ProcExit(v)
    \/ \E v \in VMs : watchProcess(v)
    \/ \E j \in Deleters, i \in Ids, purge \in BOOLEAN : GetForDelete(j, i, purge)
    \/ \E j \in Deleters : PurgeWorkspace(j)
    \/ \E j \in Jobs : Delete(j)
    \/ DrainAll \/ DrainNext \/ killRemaining \/ KillNext
    \/ Restart

\* Goroutines run: every step of one that has started is eventually taken.
\* Nobody has to create, delete, drain, crash or restart.
CreatorRuns(v) == \E pc \in Booting : creator[v] = pc /\ Create(v)
JobRuns(j) == Delete(j) \/ (j \in Deleters /\ PurgeWorkspace(j))
Fairness ==
    /\ \A v \in VMs : WF_vars(CreatorRuns(v)) /\ WF_vars(watchProcess(v))
    /\ \A j \in Jobs : WF_vars(JobRuns(j))
    /\ WF_vars(DrainNext) /\ WF_vars(KillNext)

Spec == Init /\ [][Next]_vars
FairSpec == Spec /\ Fairness

-----------------------------------------------------------------------------
(* Properties.                                                             *)

\* The slot table and the id index are two views of one set of machines
\* (Allocate and releaseLocked write both): a machine is found under its id
\* exactly when it holds its slot, through every late or repeated cleanup.
RegistryAgrees ==
    /\ \A s \in Slots : slots[s] # None =>
          /\ vm[slots[s]].slot = s
          /\ vm[slots[s]].id # None
          /\ byID[vm[slots[s]].id] = slots[s]
    /\ \A i \in Ids : byID[i] # None =>
          /\ vm[byID[i]].id = i
          /\ vm[byID[i]].slot # None
          /\ slots[vm[byID[i]].slot] = byID[i]

\* No firecracker outlives the record of it (reap's promise): a process whose
\* machine is no longer registered still has a Create that will roll it back,
\* unless the server's process ended first.  On the way out killRemaining may
\* let go of a machine whose creation goes on; the exit that follows ends both.
NoOrphanProcess ==
    \A v \in VMs : serving /\ proc[v] = "up" /\ ~Registered(v) =>
        creator[v] \in {"record", "wait", "run", "reap", "lost"}

\* A disk once reported purged stays gone (Create's rollback purges what a
\* racing creation made): with no creation of that id since and none still in
\* progress, there is no disk to come back on the next sign-in.  Stated while
\* the server serves: on the way out a creation may finish unregistered.
ErasedStaysErased ==
    \A i \in Ids :
        /\ serving
        /\ erased[i]
        /\ \A v \in VMs : vm[v].id = i => creator[v] \in {"ok", "failed"}
        => workspace[i] = "absent"

\* A creation of id i whose machine was let go of is formatting in this step.
StaleFormats(i) ==
    \E v \in VMs : /\ vm[v].id = i /\ ~Registered(v)
                  /\ creator[v] = "mkfs" /\ creator'[v] # "mkfs"

\* Such a creation, having made a disk of that id, is rolling it back.
StaleRollsBack(i) ==
    \E v \in VMs : /\ vm[v].id = i /\ ~Registered(v) /\ vm[v].isNew
                  /\ creator[v] = "remove" /\ creator'[v] # "remove"

HasDisk(v) ==
    /\ Registered(v)
    /\ vm[v].state = "running"
    /\ workspace[vm[v].id] # "absent"

\* The disk of a running, registered machine is never taken from it: not by
\* the purge of a stopped id, not by a cleanup or a rollback arriving late
\* (cleanup and PurgeWorkspace test the id under the lock Allocate takes).  The
\* one step that can is the mkfs of an earlier creation of the same id, still
\* on its way after a delete let go of its machine.
RunningKeepsDisk ==
    [][\A v \in VMs :
        HasDisk(v) /\ Registered(v)' /\ ~HasDisk(v)' => vm'[v].state # "running"
                                                      \/ StaleFormats(vm[v].id)]_vars

\* What a person wrote is lost only to a DELETE that asked for the purge of
\* that id, or to a creation whose machine was let go of while it ran on, by its
\* mkfs or by the rollback of a disk it had made: the creation that holds the
\* id, a crash, a drain, a plain DELETE and a restart all keep it (cleanup's
\* purge argument on each exit path).
KeptUnlessAsked ==
    [][\A i \in Ids : workspace[i] = "data" /\ workspace'[i] # "data" =>
        \/ StaleFormats(i) \/ StaleRollsBack(i)
        \/ \E j \in Deleters : job[j].id = i /\ job[j].purge /\ job'[j] # job[j]]_vars

\* An exit of firecracker never strands capacity (watchProcess): the slot of
\* a machine whose process is gone is eventually free of it.
CrashFreesSlot ==
    \A v \in VMs : (proc[v] = "gone") ~> ~(\E s \in Slots : slots[s] = v)

\* Every machine the drain listed is let go of before the process exits: a
\* state no delete may leave, or a machine another delete is already stopping,
\* cannot make DrainAll skip it (Delete's error there is only logged).
DrainReleases ==
    \A v \in VMs : (v \in draining[Drainer]) ~> ~Registered(v)

\* Every DELETE is answered: no job waits forever on the ladder, whatever else
\* happens to its machine.
DeleteAnswered ==
    \A j \in Deleters : (job[j].pc # "idle") ~> (job[j].pc \in {"ok", "err"})

\* A crash of the server orphans no machine it had recorded: a registered
\* machine whose write of vm.json did not fail by itself, and was not followed by
\* that of another machine of its id, is killed by the next Sweep.  So no late
\* cleanup may have taken the directory away before the write, or the file since.
SweepReaps ==
    [][restarts' # restarts =>
        \A v \in VMs : Registered(v) /\ recorded[vm[v].id] = v => proc'[v] # "up"]_vars

-----------------------------------------------------------------------------
(* What the comments and the README claim, and the code does not do.       *)

\* beginStop "marks the VM stopping so concurrent deletes conflict"
\* (teardown.go): two deletes are never both past beginStop.
ConcurrentDeletesConflict ==
    \A j, k \in Deleters :
        j # k /\ job[j].pc \in {"mark", "ladder", "reap", "remove"}
        /\ job[k].pc \in {"mark", "ladder", "reap", "remove"}
            => job[j].vm # job[k].vm

\* "writeStateFile records the pid and tap so a restart can reap this process"
\* (create.go).  Not if it fails: the machine runs on, and after a crash of the
\* server nobody knows of it.
RestartReaps ==
    [][restarts' # restarts =>
        \A v \in VMs : Registered(v) /\ watcher[v] # "none" => proc'[v] # "up"]_vars

\* "a workspace that was already there is a returning person's data, and a boot
\* that fails for its own reasons must not take it" (purge_test.go).  The mkfs of
\* a creation that was deleted meanwhile takes it, and so does its rollback.
ReturnersDataKept ==
    [][\A i \in Ids : workspace[i] = "data" /\ workspace'[i] # "data" =>
        \E j \in Deleters : job[j].id = i /\ job[j].purge /\ job'[j] # job[j]]_vars

\* cleanup's check is there because a late cleanup "would take that machine's
\* tap" (teardown.go): a tap made by the machine that holds the slot is taken
\* away only when that machine lets the slot go.
LateCleanupSparesTap ==
    [][\A s \in Slots :
        slots[s] # None /\ tap[s] = slots[s] /\ tap'[s] # tap[s]
            => slots'[s] # slots[s]]_vars
=============================================================================
