-------------------------- MODULE VMRegistryProofs --------------------------
(***************************************************************************)
(* VMRegistry's type invariant, RegistryAgrees, NoOrphanProcess and        *)
(* ErasedStaysErased, and the action properties KeptUnlessAsked,           *)
(* RunningKeepsDisk and SweepReaps, for any number of ids, slots, machines *)
(* and handlers, and any number of drains and restarts.                    *)
(*                                                                         *)
(* Three inductive invariants, each over the one before: IInv (the         *)
(* registry's tables); ServesInv: what each goroutine has made certain of  *)
(* a machine by the time it lets go of it; and KeepsInv: whom a purge is   *)
(* for, whose the run directories are, and what those who go on creating a *)
(* machine that was let go of can still do.                                *)
(*                                                                         *)
(* At the end PowerSound of VMPower, which shares nothing with them but    *)
(* the table of transitions.                                               *)
(***************************************************************************)
EXTENDS VMRegistry, VMPower, NumberLemmas

\* The history is named in every action's frame and nowhere else.
USE DEF history

\* A VM pointer Allocate has not spent yet has no id, so it is nowhere in the
\* registry: what Allocate needs for the entry it makes to be the only one.
Unspent == \A v \in VMs : creator[v] = "idle" => vm[v].id = None

\* The inductive invariant.
IInv == TypeOK /\ RegistryAgrees /\ Unspent

-----------------------------------------------------------------------------
(* Operators.                                                              *)

\* freeSlot returns an unused slot whenever there is one (the slot index that
\* Allocate writes to is nil).
LEMMA FreeSlotIsFree ==
    ASSUME FreeSlots # {}
    PROVE  freeSlot \in FreeSlots /\ freeSlot \in Slots /\ slots[freeSlot] = None
<1>1. FreeSlots \in SUBSET Nat
  BY RegistryConstants DEF FreeSlots, Slots
<1>2. PICK s \in FreeSlots : \A t \in FreeSlots : s <= t
  BY <1>1, LeastNatural
<1>3. freeSlot \in FreeSlots
  BY <1>2 DEF freeSlot
<1> QED
  BY <1>3 DEF FreeSlots
-----------------------------------------------------------------------------
(* TypeOK.                                                                 *)

\* An empty registry is well typed (NewManager).
LEMMA TypeInit == Init => TypeOK
BY RegistryConstants
   DEF Init, TypeOK, Unborn, IdleJob, Jobs, States, CreatorPCs, WatcherPCs, JobPCs,
       VMStruct, JobStruct

\* Assigning the state field of a VM struct leaves the table of VMs well typed.
LEMMA VMStateTypes ==
    ASSUME NEW f \in [VMs -> VMStruct], NEW v, NEW st \in States
    PROVE  [f EXCEPT ![v].state = st] \in [VMs -> VMStruct]
<1>1. ASSUME NEW u \in VMs PROVE [f[u] EXCEPT !.state = st] \in VMStruct
  BY DEF VMStruct
<1> QED
  BY <1>1

\* So does setting one of its flags.
LEMMA VMFlagTypes ==
    ASSUME NEW f \in [VMs -> VMStruct], NEW v
    PROVE  /\ [f EXCEPT ![v].spawned = TRUE] \in [VMs -> VMStruct]
           /\ [f EXCEPT ![v].stopping = TRUE] \in [VMs -> VMStruct]
           /\ [f EXCEPT ![v].isNew = TRUE] \in [VMs -> VMStruct]
<1>1. ASSUME NEW u \in VMs
      PROVE  /\ [f[u] EXCEPT !.spawned = TRUE] \in VMStruct
             /\ [f[u] EXCEPT !.stopping = TRUE] \in VMStruct
             /\ [f[u] EXCEPT !.isNew = TRUE] \in VMStruct
  BY DEF VMStruct
<1> QED
  BY <1>1

\* So does giving a job a new program counter, or ending it.
LEMMA JobTypes ==
    ASSUME NEW f \in [Jobs -> JobStruct], NEW j, NEW pc \in JobPCs
    PROVE  [f EXCEPT ![j].pc = pc] \in [Jobs -> JobStruct]
<1>1. ASSUME NEW k \in Jobs PROVE [f[k] EXCEPT !.pc = pc] \in JobStruct
  BY DEF JobStruct
<1> QED
  BY <1>1

\* Ending a job leaves the state well typed (a handler's return).
LEMMA EndedJobTypes ==
    ASSUME TypeOK, NEW j, NEW result \in {"ok", "err"}, JobEnds(j, result)
    PROVE  job' \in [Jobs -> JobStruct]
<1>1. [IdleJob EXCEPT !.pc = result] \in JobStruct
  BY DEF IdleJob, JobStruct, JobPCs
<1> QED
  BY <1>1 DEF TypeOK, JobEnds

\* SetState writes nothing but a legal value of the state field.
LEMMA SetStateTypes ==
    ASSUME TypeOK, NEW v, NEW to \in States, SetState(v, to)
    PROVE  vm' \in [VMs -> VMStruct]
BY VMStateTypes DEF TypeOK, SetState

\* releaseLocked keeps both tables well typed.
LEMMA ReleaseTypes ==
    ASSUME TypeOK, NEW v, NEW purge \in BOOLEAN, NEW fails \in BOOLEAN,
           RemoveResources(v, purge, fails)
    PROVE  /\ slots' \in [Slots -> VMs \cup {None}]
           /\ byID' \in [Ids -> VMs \cup {None}]
           /\ tap' \in [Slots -> VMs \cup {None}]
           /\ runDir' \in [Ids -> VMs \cup {NoDir, NoFile}]
           /\ workspace' \in [Ids -> {"absent", "blank", "data"}]
<1>1. slots' \in [Slots -> VMs \cup {None}] /\ byID' \in [Ids -> VMs \cup {None}]
  BY DEF TypeOK, RemoveResources, releaseLocked
<1>2. tap' \in [Slots -> VMs \cup {None}]
  BY DEF TypeOK, RemoveResources
<1>3. runDir' \in [Ids -> VMs \cup {NoDir, NoFile}]
  BY DEF TypeOK, RemoveResources
<1>4. workspace' \in [Ids -> {"absent", "blank", "data"}]
  BY DEF TypeOK, RemoveResources
<1> QED
  BY <1>1, <1>2, <1>3, <1>4

\* Every handler keeps the types.
LEMMA TypeStep == TypeOK /\ [Next]_vars => TypeOK'
<1> SUFFICES ASSUME TypeOK, [Next]_vars PROVE TypeOK'
  OBVIOUS
<1> USE DEF registryVars, hostVars, drainVars, CreatorPCs, WatcherPCs, JobPCs, Jobs
<1>1. ASSUME NEW v \in VMs, NEW i \in Ids, Allocate(v, i) PROVE TypeOK'
  BY <1>1, FreeSlotIsFree DEF TypeOK, Allocate, CreatorStep, NewVM, States, VMStruct
<1>2. ASSUME NEW v \in VMs, MakeRunDir(v) PROVE TypeOK'
  BY <1>2 DEF TypeOK, MakeRunDir, CreatorStep
<1>3. ASSUME NEW v \in VMs, StatWorkspace(v) PROVE TypeOK'
  BY <1>3 DEF TypeOK, StatWorkspace, CreatorStep
<1>4. ASSUME NEW v \in VMs, FormatWorkspace(v) PROVE TypeOK'
  <2>1. vm' \in [VMs -> VMStruct]
    BY <1>4, VMFlagTypes DEF TypeOK, FormatWorkspace
  <2> QED
    BY <1>4, <2>1 DEF TypeOK, FormatWorkspace, CreatorStep
<1>5. ASSUME NEW v \in VMs, FormatFails(v) PROVE TypeOK'
  BY <1>5 DEF TypeOK, FormatFails, CreatorStep
<1>6. ASSUME NEW v \in VMs, CreateTap(v) PROVE TypeOK'
  BY <1>6 DEF TypeOK, CreateTap, CreatorStep
<1>7. ASSUME NEW v \in VMs, Spawn(v) PROVE TypeOK'
  <2>1. vm' \in [VMs -> VMStruct]
    BY <1>7, VMFlagTypes DEF TypeOK, Spawn
  <2> QED
    BY <1>7, <2>1 DEF TypeOK, Spawn, CreatorStep
<1>8. ASSUME NEW v \in VMs, RecordState(v) PROVE TypeOK'
  BY <1>8 DEF TypeOK, RecordState, CreatorStep
<1>9. ASSUME NEW v \in VMs, BootFails(v) PROVE TypeOK'
  BY <1>9 DEF TypeOK, BootFails, CreatorStep
<1>10. ASSUME NEW v \in VMs, AgentAnswers(v) PROVE TypeOK'
  BY <1>10 DEF TypeOK, AgentAnswers, CreatorStep
<1>11. ASSUME NEW v \in VMs, BecomeRunning(v) PROVE TypeOK'
  <2>1. vm' \in [VMs -> VMStruct]
    BY <1>11, SetStateTypes DEF BecomeRunning, States
  <2> QED
    BY <1>11, <2>1 DEF TypeOK, BecomeRunning, CreatorStep
<1>12. ASSUME NEW v \in VMs, LoseRunning(v) PROVE TypeOK'
  BY <1>12 DEF TypeOK, LoseRunning, CreatorStep
<1>13. ASSUME NEW v \in VMs, RollbackReap(v) PROVE TypeOK'
  BY <1>13 DEF TypeOK, RollbackReap, CreatorStep, Kill
<1>14. ASSUME NEW v \in VMs, RollbackRemove(v) PROVE TypeOK'
  <2>1. PICK fails \in BOOLEAN : RemoveResources(v, vm[v].isNew, fails)
    BY <1>14 DEF RollbackRemove
  <2>2. vm[v].isNew \in BOOLEAN
    BY DEF TypeOK, VMStruct
  <2>4. /\ slots' \in [Slots -> VMs \cup {None}]
        /\ byID' \in [Ids -> VMs \cup {None}]
        /\ tap' \in [Slots -> VMs \cup {None}]
        /\ runDir' \in [Ids -> VMs \cup {NoDir, NoFile}]
        /\ workspace' \in [Ids -> {"absent", "blank", "data"}]
    BY <2>1, <2>2, ReleaseTypes
  <2>3. creator' \in [VMs -> CreatorPCs]
    BY <1>14 DEF RollbackRemove, CreatorStep, TypeOK
  <2> QED
    BY <1>14, <2>3, <2>4 DEF TypeOK, RollbackRemove
<1>15. ASSUME NEW v \in VMs, ProcExit(v) PROVE TypeOK'
  BY <1>15 DEF TypeOK, ProcExit
<1>16. ASSUME NEW v \in VMs, WatchJudge(v) PROVE TypeOK'
  <2>1. vm' \in [VMs -> VMStruct]
    BY <1>16, SetStateTypes DEF WatchJudge, States, TypeOK
  <2> QED
    BY <1>16, <2>1 DEF TypeOK, WatchJudge, WatcherStep
<1>17. ASSUME NEW v \in VMs, WatchRemove(v) PROVE TypeOK'
  <2>1. RemoveResources(v, FALSE, FALSE)
    BY <1>17 DEF WatchRemove
  <2> QED
    BY <1>17, <2>1, ReleaseTypes DEF TypeOK, WatchRemove, WatcherStep
<1>18. ASSUME NEW j \in Jobs, NEW i \in Ids, NEW purge \in BOOLEAN,
              GetForDelete(j, i, purge)
      PROVE  TypeOK'
  BY <1>18 DEF TypeOK, GetForDelete, JobStruct
<1>19. ASSUME NEW j \in Jobs, PurgeWorkspace(j) PROVE TypeOK'
  <2>1. job' \in [Jobs -> JobStruct]
    <3>1. JobEnds(j, "ok") \/ JobEnds(j, "err")
      BY <1>19 DEF PurgeWorkspace
    <3> QED
      BY <3>1, EndedJobTypes
  <2>2. workspace' \in [Ids -> {"absent", "blank", "data"}] /\ erased' \in [Ids -> BOOLEAN]
    BY <1>19 DEF TypeOK, PurgeWorkspace
  <2> QED
    BY <1>19, <2>1, <2>2 DEF TypeOK, PurgeWorkspace
<1>20. ASSUME NEW j \in Jobs, BeginStop(j) PROVE TypeOK'
  <2>1. vm' \in [VMs -> VMStruct]
    BY <1>20, SetStateTypes DEF BeginStop, States
  <2>2. job' \in [Jobs -> JobStruct]
    <3>1. JobStep(j, "begin", "mark") \/ JobEnds(j, "err")
      BY <1>20 DEF BeginStop
    <3>2. CASE JobStep(j, "begin", "mark")
      BY <3>2, JobTypes DEF TypeOK, JobStep
    <3> QED
      BY <3>1, <3>2, EndedJobTypes
  <2> QED
    BY <1>20, <2>1, <2>2 DEF TypeOK, BeginStop
<1>21. ASSUME NEW j \in Jobs, MarkStopping(j) PROVE TypeOK'
  <2>1. job' \in [Jobs -> JobStruct]
    BY <1>21, JobTypes DEF TypeOK, MarkStopping, JobStep
  <2>2. vm' \in [VMs -> VMStruct]
    BY <1>21, VMFlagTypes DEF TypeOK, MarkStopping
  <2> QED
    BY <1>21, <2>1, <2>2 DEF TypeOK, MarkStopping
<1>22. ASSUME NEW j \in Jobs, Escalate(j) PROVE TypeOK'
  BY <1>22 DEF TypeOK, Escalate
<1>23. ASSUME NEW j \in Jobs, WaitedExit(j) PROVE TypeOK'
  BY <1>23, JobTypes DEF TypeOK, WaitedExit, JobStep
<1>24. ASSUME NEW j \in Jobs, CleanupReap(j) PROVE TypeOK'
  BY <1>24, JobTypes DEF TypeOK, CleanupReap, JobStep, Kill
<1>25. ASSUME NEW j \in Jobs, CleanupRemove(j) PROVE TypeOK'
  <2>1. PICK fails \in BOOLEAN :
            RemoveResources(job[j].vm, job[j].purge, fails)
    BY <1>25 DEF CleanupRemove
  <2>2. job[j].purge \in BOOLEAN
    BY DEF TypeOK, JobStruct
  <2>5. /\ slots' \in [Slots -> VMs \cup {None}]
        /\ byID' \in [Ids -> VMs \cup {None}]
        /\ tap' \in [Slots -> VMs \cup {None}]
        /\ runDir' \in [Ids -> VMs \cup {NoDir, NoFile}]
        /\ workspace' \in [Ids -> {"absent", "blank", "data"}]
    BY <2>1, <2>2, ReleaseTypes
  <2>3. job' \in [Jobs -> JobStruct]
    <3>1. JobEnds(j, "ok") \/ JobEnds(j, "err")
      BY <1>25 DEF CleanupRemove
    <3> QED
      BY <3>1, EndedJobTypes
  <2>4. erased' \in [Ids -> BOOLEAN]
    BY <1>25 DEF TypeOK, CleanupRemove
  <2> QED
    BY <1>25, <2>3, <2>4, <2>5 DEF TypeOK, CleanupRemove
<1>26. CASE DrainAll
  <2>1. Live \in SUBSET VMs
    BY DEF Live
  <2>2. drains' \in Nat
    BY <1>26 DEF TypeOK, DrainAll
  <2>3. draining' \in [{Drainer, Killer} -> SUBSET VMs]
    BY <1>26, <2>1 DEF TypeOK, DrainAll
  <2> QED
    BY <1>26, <2>2, <2>3 DEF TypeOK, DrainAll
<1>27. CASE DrainNext
  BY <1>27, RegistryConstants DEF TypeOK, DrainNext, JobStruct, VMStruct
<1>28. CASE killRemaining
  BY <1>28, RegistryConstants DEF TypeOK, killRemaining, Live
<1>29. CASE KillNext
  BY <1>29, RegistryConstants DEF TypeOK, KillNext, Kill, JobStruct, VMStruct
<1>30. CASE Restart
  <2>1. job' \in [Jobs -> JobStruct]
    <3>1. IdleJob \in JobStruct /\ [IdleJob EXCEPT !.pc = "err"] \in JobStruct
      BY DEF IdleJob, JobStruct, JobPCs
    <3> QED
      BY <1>30, <3>1 DEF Restart
  <2>2. restarts' \in Nat
    BY <1>30 DEF TypeOK, Restart
  <2>3. proc' \in [VMs -> {"none", "up", "gone"}]
    BY <1>30 DEF TypeOK, Restart
  <2>4. creator' \in [VMs -> CreatorPCs] /\ watcher' \in [VMs -> WatcherPCs]
    BY <1>30 DEF TypeOK, Restart
  <2>5. vm' \in [VMs -> VMStruct]
    <3>1. ASSUME NEW v \in VMs PROVE [Unborn EXCEPT !.id = vm[v].id] \in VMStruct
      BY DEF TypeOK, Unborn, VMStruct, States
    <3> QED
      BY <1>30, <3>1 DEF Restart
  <2> QED
    BY <1>30, <2>1, <2>2, <2>3, <2>4, <2>5 DEF TypeOK, Restart
<1>31. CASE UNCHANGED vars
  BY <1>31 DEF TypeOK, vars
<1> QED
  BY <1>1, <1>2, <1>3, <1>4, <1>5, <1>6, <1>7, <1>8, <1>9, <1>10, <1>11, <1>12, <1>13, <1>14,
     <1>15, <1>16, <1>17, <1>18, <1>19, <1>20, <1>21, <1>22, <1>23, <1>24, <1>25, <1>26, <1>27,
     <1>28, <1>29, <1>30, <1>31
  DEF Next, Create, watchProcess, Delete

-----------------------------------------------------------------------------
(* RegistryAgrees.                                                         *)

\* What a step other than Allocate and Restart may do to the registry: leave
\* both tables alone or release one machine from both, and never change the id
\* or the slot of a machine.
SameNames ==
    /\ \A u \in VMs : vm'[u].id = vm[u].id /\ vm'[u].slot = vm[u].slot
    /\ \/ UNCHANGED <<slots, byID>>
       \/ \E v \in VMs : releaseLocked(v)

\* A Create that has begun never becomes one that has not.
NeverUnspent == \A u \in VMs : creator'[u] = "idle" => creator[u] = "idle"

\* releaseLocked compares the pointer in both tables, so it takes a machine out
\* of both or out of neither.
LEMMA SameNamesAgrees ==
    ASSUME TypeOK, RegistryAgrees, SameNames
    PROVE  RegistryAgrees'
<1>1. CASE UNCHANGED <<slots, byID>>
  BY <1>1 DEF TypeOK, RegistryAgrees, SameNames
<1>2. ASSUME NEW v \in VMs, releaseLocked(v) PROVE RegistryAgrees'
  <2>1. ASSUME NEW s \in Slots, slots'[s] # None
        PROVE  /\ slots'[s] \in VMs
               /\ vm'[slots'[s]].slot = s
               /\ vm'[slots'[s]].id # None
               /\ byID'[vm'[slots'[s]].id] = slots'[s]
    <3>1. slots'[s] = slots[s] /\ slots[s] \in VMs /\ slots[s] # None
      BY <1>2, <2>1 DEF releaseLocked, TypeOK
    <3>2. /\ vm[slots[s]].slot = s /\ vm[slots[s]].id # None
          /\ byID[vm[slots[s]].id] = slots[s]
      BY <3>1 DEF RegistryAgrees
    <3>3. slots[s] # v
      BY <1>2, <2>1, <3>1, <3>2 DEF releaseLocked
    <3>4. vm[slots[s]].id \in Ids
      BY <3>1, <3>2 DEF TypeOK, VMStruct
    <3>5. byID'[vm[slots[s]].id] = slots[s]
      BY <1>2, <3>2, <3>3, <3>4 DEF releaseLocked
    <3> QED
      BY <3>1, <3>2, <3>5 DEF SameNames
  <2>2. ASSUME NEW i \in Ids, byID'[i] # None
        PROVE  /\ byID'[i] \in VMs
               /\ vm'[byID'[i]].id = i
               /\ vm'[byID'[i]].slot # None
               /\ slots'[vm'[byID'[i]].slot] = byID'[i]
    <3>1. byID'[i] = byID[i] /\ byID[i] \in VMs /\ byID[i] # None
      BY <1>2, <2>2 DEF releaseLocked, TypeOK
    <3>2. /\ vm[byID[i]].id = i /\ vm[byID[i]].slot # None
          /\ slots[vm[byID[i]].slot] = byID[i]
      BY <3>1 DEF RegistryAgrees
    <3>3. byID[i] # v
      BY <1>2, <2>2, <3>1, <3>2 DEF releaseLocked
    <3>4. vm[byID[i]].slot \in Slots
      BY <3>1, <3>2 DEF TypeOK, VMStruct
    <3>5. slots'[vm[byID[i]].slot] = byID[i]
      BY <1>2, <3>2, <3>3, <3>4 DEF releaseLocked
    <3> QED
      BY <3>1, <3>2, <3>5 DEF SameNames
  <2> QED
    BY <2>1, <2>2 DEF RegistryAgrees
<1> QED
  BY <1>1, <1>2 DEF SameNames

\* A step that gives no machine an id begins no Create either.
LEMMA SameNamesUnspent ==
    ASSUME Unspent, SameNames, NeverUnspent
    PROVE  Unspent'
BY DEF Unspent, SameNames, NeverUnspent

\* Allocate writes one machine that was in neither table into a free slot and
\* under a free id.
LEMMA AllocateAgrees ==
    ASSUME IInv, NEW v \in VMs, NEW i \in Ids, Allocate(v, i)
    PROVE  RegistryAgrees' /\ Unspent'
<1> DEFINE s0 == freeSlot
<1>1. s0 \in Slots /\ slots[s0] = None /\ byID[i] = None
  BY FreeSlotIsFree DEF Allocate
<1> HIDE DEF s0
<1>2. /\ slots' = [slots EXCEPT ![s0] = v]
      /\ byID' = [byID EXCEPT ![i] = v]
      /\ vm' = [vm EXCEPT ![v] = NewVM(i, s0)]
      /\ creator[v] = "idle" /\ creator' = [creator EXCEPT ![v] = "mkdir"]
  BY DEF Allocate, CreatorStep, s0
<1>3. /\ vm'[v].id = i /\ vm'[v].slot = s0
      /\ \A u \in VMs \ {v} : vm'[u] = vm[u]
  BY <1>2 DEF IInv, TypeOK, NewVM
<1>4. v # None /\ i # None /\ s0 # None
  <2>1. v # None /\ i # None
    BY RegistryConstants
  <2>2. s0 # None
    BY <1>1, RegistryConstants
  <2> QED
    BY <2>1, <2>2
<1>5. \A s \in Slots : slots[s] # v
  BY <1>2, <1>4 DEF IInv, Unspent, RegistryAgrees
<1>6. \A k \in Ids : byID[k] # v
  BY <1>2, <1>4, RegistryConstants DEF IInv, Unspent, RegistryAgrees
<1>7. ASSUME NEW s \in Slots, slots'[s] # None
      PROVE  /\ vm'[slots'[s]].slot = s
             /\ vm'[slots'[s]].id # None
             /\ byID'[vm'[slots'[s]].id] = slots'[s]
  <2>1. CASE s = s0
    BY <1>1, <1>2, <1>3, <1>4, <2>1 DEF IInv, TypeOK
  <2>2. CASE s # s0
    BY <1>1, <1>2, <1>3, <1>4, <1>5, <1>7, <2>2
       DEF IInv, TypeOK, RegistryAgrees, VMStruct
  <2> QED
    BY <2>1, <2>2
<1>8. ASSUME NEW k \in Ids, byID'[k] # None
      PROVE  /\ vm'[byID'[k]].id = k
             /\ vm'[byID'[k]].slot # None
             /\ slots'[vm'[byID'[k]].slot] = byID'[k]
  <2>1. CASE k = i
    BY <1>1, <1>2, <1>3, <1>4, <2>1 DEF IInv, TypeOK
  <2>2. CASE k # i
    BY <1>1, <1>2, <1>3, <1>4, <1>6, <1>8, <2>2
       DEF IInv, TypeOK, RegistryAgrees, VMStruct
  <2> QED
    BY <2>1, <2>2
<1>9. Unspent'
  BY <1>2, <1>3 DEF IInv, TypeOK, Unspent
<1> QED
  BY <1>7, <1>8, <1>9 DEF RegistryAgrees

\* The strengthened invariant holds of the empty registry.
LEMMA IndInit == Init => IInv
BY TypeInit DEF Init, IInv, RegistryAgrees, Unspent, Unborn

\* No step but Allocate and a restart gives a machine an id or a slot; none but
\* releaseLocked writes the tables.
LEMMA NamesKept ==
    ASSUME IInv, [Next]_vars, ~ \E v \in VMs, i \in Ids : Allocate(v, i), ~Restart
    PROVE  SameNames /\ NeverUnspent
<1> USE DEF registryVars, hostVars, drainVars
<1>1. ASSUME NEW v \in VMs, MakeRunDir(v) PROVE SameNames /\ NeverUnspent
  BY <1>1 DEF MakeRunDir, CreatorStep, SameNames, NeverUnspent, IInv, TypeOK
<1>2. ASSUME NEW v \in VMs, StatWorkspace(v) PROVE SameNames /\ NeverUnspent
  BY <1>2 DEF StatWorkspace, CreatorStep, SameNames, NeverUnspent, IInv, TypeOK
<1>3. ASSUME NEW v \in VMs, FormatFails(v) PROVE SameNames /\ NeverUnspent
  BY <1>3 DEF FormatFails, CreatorStep, SameNames, NeverUnspent, IInv, TypeOK
<1>4. ASSUME NEW v \in VMs, CreateTap(v) PROVE SameNames /\ NeverUnspent
  BY <1>4 DEF CreateTap, CreatorStep, SameNames, NeverUnspent, IInv, TypeOK
<1>5. ASSUME NEW v \in VMs, RecordState(v) PROVE SameNames /\ NeverUnspent
  BY <1>5 DEF RecordState, CreatorStep, SameNames, NeverUnspent, IInv, TypeOK
<1>6. ASSUME NEW v \in VMs, BootFails(v) PROVE SameNames /\ NeverUnspent
  BY <1>6 DEF BootFails, CreatorStep, SameNames, NeverUnspent, IInv, TypeOK
<1>7. ASSUME NEW v \in VMs, AgentAnswers(v) PROVE SameNames /\ NeverUnspent
  BY <1>7 DEF AgentAnswers, CreatorStep, SameNames, NeverUnspent, IInv, TypeOK
<1>8. ASSUME NEW v \in VMs, LoseRunning(v) PROVE SameNames /\ NeverUnspent
  BY <1>8 DEF LoseRunning, CreatorStep, SameNames, NeverUnspent, IInv, TypeOK
<1>9. ASSUME NEW v \in VMs, RollbackReap(v) PROVE SameNames /\ NeverUnspent
  BY <1>9 DEF RollbackReap, CreatorStep, SameNames, NeverUnspent, IInv, TypeOK
<1>10. ASSUME NEW v \in VMs, ProcExit(v) PROVE SameNames /\ NeverUnspent
  BY <1>10 DEF ProcExit, SameNames, NeverUnspent, IInv, TypeOK
<1>11. ASSUME NEW v \in VMs, FormatWorkspace(v) PROVE SameNames /\ NeverUnspent
  BY <1>11 DEF FormatWorkspace, CreatorStep, SameNames, NeverUnspent, IInv, TypeOK, VMStruct
<1>12. ASSUME NEW v \in VMs, Spawn(v) PROVE SameNames /\ NeverUnspent
  BY <1>12 DEF Spawn, CreatorStep, SameNames, NeverUnspent, IInv, TypeOK, VMStruct
<1>13. ASSUME NEW v \in VMs, BecomeRunning(v) PROVE SameNames /\ NeverUnspent
  BY <1>13 DEF BecomeRunning, CreatorStep, SetState, SameNames, NeverUnspent, IInv, TypeOK, VMStruct
<1>14. ASSUME NEW v \in VMs, WatchJudge(v) PROVE SameNames /\ NeverUnspent
  <2>1. /\ vm' = vm \/ vm' = [vm EXCEPT ![v].state = "failed"]
        /\ UNCHANGED <<slots, byID, creator>>
    BY <1>14 DEF WatchJudge, SetState
  <2>2. \A u \in VMs : vm'[u].id = vm[u].id /\ vm'[u].slot = vm[u].slot
    <3>1. CASE vm' = [vm EXCEPT ![v].state = "failed"]
      BY <3>1 DEF IInv, TypeOK, VMStruct
    <3> QED
      BY <2>1, <3>1
  <2> QED
    BY <2>1, <2>2 DEF SameNames, NeverUnspent
<1>15. ASSUME NEW v \in VMs, RollbackRemove(v) PROVE SameNames /\ NeverUnspent
  BY <1>15 DEF RollbackRemove, CreatorStep, RemoveResources, SameNames, NeverUnspent, IInv, TypeOK
<1>16. ASSUME NEW v \in VMs, WatchRemove(v) PROVE SameNames /\ NeverUnspent
  BY <1>16 DEF WatchRemove, RemoveResources, SameNames, NeverUnspent, IInv, TypeOK
<1>17. ASSUME NEW j \in Jobs, NEW i \in Ids, NEW purge \in BOOLEAN,
              GetForDelete(j, i, purge)
      PROVE  SameNames /\ NeverUnspent
  BY <1>17 DEF GetForDelete, SameNames, NeverUnspent
<1>18. ASSUME NEW j \in Jobs, PurgeWorkspace(j) PROVE SameNames /\ NeverUnspent
  BY <1>18 DEF PurgeWorkspace, SameNames, NeverUnspent
<1>19. ASSUME NEW j \in Jobs, Escalate(j) PROVE SameNames /\ NeverUnspent
  BY <1>19 DEF Escalate, SameNames, NeverUnspent
<1>20. ASSUME NEW j \in Jobs, WaitedExit(j) PROVE SameNames /\ NeverUnspent
  BY <1>20 DEF WaitedExit, SameNames, NeverUnspent
<1>21. ASSUME NEW j \in Jobs, CleanupReap(j) PROVE SameNames /\ NeverUnspent
  BY <1>21 DEF CleanupReap, SameNames, NeverUnspent
<1>22. ASSUME NEW j \in Jobs, BeginStop(j) PROVE SameNames /\ NeverUnspent
  BY <1>22 DEF BeginStop, SetState, SameNames, NeverUnspent, IInv, TypeOK, VMStruct
<1>23. ASSUME NEW j \in Jobs, MarkStopping(j) PROVE SameNames /\ NeverUnspent
  BY <1>23 DEF MarkStopping, SameNames, NeverUnspent, IInv, TypeOK, VMStruct
<1>24. ASSUME NEW j \in Jobs, CleanupRemove(j) PROVE SameNames /\ NeverUnspent
  <2>1. releaseLocked(job[j].vm) /\ UNCHANGED <<vm, creator>>
    BY <1>24 DEF CleanupRemove, RemoveResources
  <2>2. job[j].vm \in VMs \cup {None}
    BY DEF IInv, TypeOK, JobStruct
  <2>3. ASSUME job[j].vm = None PROVE UNCHANGED <<slots, byID>>
    BY <2>1, <2>3 DEF releaseLocked, IInv, TypeOK
  <2> QED
    BY <2>1, <2>2, <2>3 DEF SameNames, NeverUnspent
<1>25. CASE DrainAll
  BY <1>25 DEF DrainAll, SameNames, NeverUnspent
<1>26. CASE DrainNext
  BY <1>26 DEF DrainNext, SameNames, NeverUnspent
<1>27. CASE killRemaining
  BY <1>27 DEF killRemaining, SameNames, NeverUnspent
<1>28. CASE KillNext
  BY <1>28 DEF KillNext, SameNames, NeverUnspent
<1>29. CASE UNCHANGED vars
  BY <1>29 DEF vars, SameNames, NeverUnspent
<1> QED
  BY <1>1, <1>2, <1>3, <1>4, <1>5, <1>6, <1>7, <1>8, <1>9, <1>10, <1>11, <1>12, <1>13, <1>14,
     <1>15, <1>16, <1>17, <1>18, <1>19, <1>20, <1>21, <1>22, <1>23, <1>24, <1>25, <1>26, <1>27,
     <1>28, <1>29
  DEF Next, Create, watchProcess, Delete, Jobs

\* Every handler keeps the strengthened invariant.
LEMMA IndStep == IInv /\ [Next]_vars => IInv'
<1> SUFFICES ASSUME IInv, [Next]_vars PROVE RegistryAgrees' /\ Unspent'
  BY TypeStep DEF IInv
<1>1. CASE Restart
  <2>1. RegistryAgrees'
    BY <1>1 DEF Restart, RegistryAgrees
  <2>2. ASSUME NEW v \in VMs PROVE vm'[v].id = vm[v].id
    BY <1>1 DEF Restart, Unborn
  <2>3. ASSUME NEW v \in VMs, creator'[v] = "idle" PROVE creator[v] = "idle"
    BY <1>1, <2>3 DEF Restart
  <2> QED
    BY <2>1, <2>2, <2>3 DEF IInv, Unspent
<1> QED
  BY <1>1, NamesKept, AllocateAgrees, SameNamesAgrees, SameNamesUnspent DEF IInv

-----------------------------------------------------------------------------

\* Every field of the registry, of the host and of every goroutine stays in
\* its type, whatever the numbers of ids, slots, machines and requests.
THEOREM TypeCorrect == Spec => []TypeOK
<1>1. IInv => TypeOK
  BY DEF IInv
<1> QED
  BY IndInit, IndStep, <1>1, PTL DEF Spec

\* The slot table and the id index never disagree (Allocate, releaseLocked).
THEOREM RegistryAlwaysAgrees == Spec => []RegistryAgrees
<1>1. IInv => RegistryAgrees
  BY DEF IInv
<1> QED
  BY IndInit, IndStep, <1>1, PTL DEF Spec

-----------------------------------------------------------------------------
(* No orphan, and no disk back from the dead.                              *)

\* A record in one of these states is never made running again.
Leaving(v) == vm[v].state \in {"stopping", "failed"}

\* A process is its Create's, and the struct says so until the server ends; a
\* watcher that cleans up has seen the exit.
ProcessKnown ==
    \A v \in VMs :
        /\ creator[v] \in {"idle", "mkdir", "stat", "mkfs", "tap", "spawn"} => proc[v] = "none"
        /\ proc[v] = "up" => creator[v] \in {"record", "wait", "run", "reap", "ok", "lost"}
        /\ proc[v] = "up" /\ creator[v] # "lost" => vm[v].spawned
        /\ watcher[v] = "remove" => proc[v] = "gone" /\ Leaving(v)

\* A DELETE past beginStop has left its machine no way back to running, and one
\* that has reaped leaves no process but one its Create has still to roll back.
DeletesLeave ==
    \A j \in Deleters :
        /\ job[j].pc \in {"begin", "mark", "ladder", "reap", "remove"} =>
              job[j].vm \in VMs /\ creator[job[j].vm] # "idle"
        /\ job[j].pc \in {"mark", "ladder", "reap", "remove"} => Leaving(job[j].vm)
        /\ job[j].pc = "remove" /\ proc[job[j].vm] = "up" => creator[job[j].vm] # "ok"

\* While the server serves nobody drains or kills.
NobodyDrains ==
    serving => \A j \in {Drainer, Killer} : job[j].pc = "idle" /\ draining[j] = {}

\* A Create whose machine was taken from the registry fails in the end.
DroppedFails ==
    serving => \A v \in VMs : ~Registered(v) =>
        /\ creator[v] \in Booting => Leaving(v)
        /\ creator[v] = "ok" => proc[v] # "up"

\* A purge is reported for an id nobody holds.
ErasedIsFree == \A i \in Ids : erased[i] => byID[i] = None

\* A disk of a purged id was made by a Create that has still to remove it, or
\* that could not: the unlink failed, or the server's process ended.
Makes(v) == \/ creator[v] \in {"lost", "leaked"}
            \/ creator[v] \in Booting /\ vm[v].isNew
DiskHasMaker ==
    \A i \in Ids : erased[i] /\ workspace[i] # "absent" =>
        \E v \in VMs : /\ vm[v].id = i
                       /\ creator[v] # "idle"
                       /\ serving => Makes(v)

ServesInv == /\ IInv
             /\ ProcessKnown /\ DeletesLeave /\ NobodyDrains /\ DroppedFails
             /\ ErasedIsFree /\ DiskHasMaker

-----------------------------------------------------------------------------
(* Frames.                                                                 *)

\* A Create moves on by its own steps, and becomes ok by one of them.
LEMMA CreatorMoves ==
    ASSUME TypeOK, [Next]_vars, NEW w \in VMs
    PROVE  /\ creator'[w] \in Booting => creator[w] \in Booting \cup {"idle"}
           /\ creator'[w] = "ok" /\ creator[w] # "ok" => BecomeRunning(w)
           /\ creator[w] # "idle" => creator'[w] # "idle"
           /\ creator[w] = "idle" /\ creator'[w] # "idle" => \E i \in Ids : Allocate(w, i)
<1> DEFINE Goal == /\ creator'[w] \in Booting => creator[w] \in Booting \cup {"idle"}
                   /\ creator'[w] = "ok" /\ creator[w] # "ok" => BecomeRunning(w)
                   /\ creator[w] # "idle" => creator'[w] # "idle"
                   /\ creator[w] = "idle" /\ creator'[w] # "idle" => \E i \in Ids : Allocate(w, i)
<1> USE DEF registryVars, hostVars, drainVars
<1>1. ASSUME NEW v \in VMs, NEW i \in Ids, Allocate(v, i) PROVE Goal
  <2>1. creator[v] = "idle" /\ creator' = [creator EXCEPT ![v] = "mkdir"]
    BY <1>1 DEF Allocate, CreatorStep
  <2> QED
    BY <1>1, <2>1 DEF TypeOK, Booting
<1>2. ASSUME NEW v \in VMs, BecomeRunning(v) PROVE Goal
  <2>1. creator[v] = "run" /\ creator' = [creator EXCEPT ![v] = "ok"]
    BY <1>2 DEF BecomeRunning, CreatorStep
  <2> QED
    BY <1>2, <2>1 DEF TypeOK, Booting
<1>3. ASSUME NEW v \in VMs, RollbackRemove(v) PROVE Goal
  BY <1>3 DEF RollbackRemove, RemoveResources, CreatorStep, TypeOK, Booting
<1>4. ASSUME NEW v \in VMs,
         \/ MakeRunDir(v) \/ StatWorkspace(v) \/ FormatWorkspace(v) \/ FormatFails(v)
         \/ CreateTap(v) \/ Spawn(v) \/ RecordState(v) \/ BootFails(v)
         \/ AgentAnswers(v) \/ LoseRunning(v) \/ RollbackReap(v) \/ ProcExit(v)
         \/ WatchJudge(v) \/ WatchRemove(v)
      PROVE  Goal
  BY <1>4 DEF MakeRunDir, StatWorkspace, FormatWorkspace, FormatFails, CreateTap,
     Spawn, RecordState, BootFails, AgentAnswers, LoseRunning, RollbackReap, ProcExit,
     WatchJudge, WatchRemove, CreatorStep, Kill, SetState, WatcherStep,
     RemoveResources, TypeOK, Booting
<1>5. ASSUME NEW j \in Deleters, NEW i \in Ids, NEW purge \in BOOLEAN, GetForDelete(j, i, purge)
      PROVE  Goal
  BY <1>5 DEF GetForDelete, TypeOK, Booting
<1>6. ASSUME NEW j \in Jobs,
         \/ BeginStop(j) \/ MarkStopping(j) \/ Escalate(j) \/ WaitedExit(j)
         \/ CleanupReap(j) \/ CleanupRemove(j) \/ PurgeWorkspace(j)
      PROVE  Goal
  BY <1>6 DEF BeginStop, MarkStopping, Escalate, WaitedExit, CleanupReap,
     CleanupRemove, PurgeWorkspace, SetState, JobStep, JobEnds, Kill, RemoveResources,
     TypeOK, Booting
<1>7. CASE Restart
  BY <1>7 DEF Restart, TypeOK, Booting
<1>8. CASE DrainAll \/ DrainNext \/ killRemaining \/ KillNext
  BY <1>8 DEF DrainAll, DrainNext, killRemaining, KillNext, Kill, TypeOK, Booting
<1>9. CASE UNCHANGED vars
  BY <1>9 DEF vars, TypeOK, Booting
<1> QED
  BY <1>1, <1>2, <1>3, <1>4, <1>5, <1>6, <1>7, <1>8, <1>9
  DEF Next, Create, watchProcess, Delete, Jobs

\* A process comes up by its Create's spawn, and once.
LEMMA ProcessMoves ==
    ASSUME TypeOK, [Next]_vars, NEW w \in VMs
    PROVE  proc'[w] = "up" /\ proc[w] # "up" => Spawn(w)
<1> DEFINE Goal == proc'[w] = "up" /\ proc[w] # "up" => Spawn(w)
<1> USE DEF registryVars, hostVars, drainVars
<1>1. ASSUME NEW v \in VMs, NEW i \in Ids, Allocate(v, i) PROVE Goal
  BY <1>1 DEF Allocate, CreatorStep, TypeOK
<1>2. ASSUME NEW v \in VMs, Spawn(v) PROVE Goal
  <2>1. proc' = [proc EXCEPT ![v] = "up"]
    BY <1>2 DEF Spawn
  <2> QED
    BY <1>2, <2>1 DEF TypeOK
<1>3. ASSUME NEW v \in VMs,
         \/ MakeRunDir(v) \/ StatWorkspace(v) \/ FormatWorkspace(v) \/ FormatFails(v)
         \/ CreateTap(v) \/ RecordState(v) \/ BootFails(v) \/ AgentAnswers(v)
         \/ BecomeRunning(v) \/ LoseRunning(v) \/ RollbackReap(v) \/ RollbackRemove(v)
         \/ ProcExit(v) \/ WatchJudge(v) \/ WatchRemove(v)
      PROVE  Goal
  BY <1>3 DEF MakeRunDir, StatWorkspace, FormatWorkspace, FormatFails, CreateTap,
     RecordState, BootFails, AgentAnswers, BecomeRunning, LoseRunning, RollbackReap,
     RollbackRemove, ProcExit, WatchJudge, WatchRemove, CreatorStep, SetState, Kill,
     RemoveResources, WatcherStep, TypeOK
<1>4. ASSUME NEW j \in Deleters, NEW i \in Ids, NEW purge \in BOOLEAN, GetForDelete(j, i, purge)
      PROVE  Goal
  BY <1>4 DEF GetForDelete, TypeOK
<1>5. ASSUME NEW j \in Jobs,
         \/ BeginStop(j) \/ MarkStopping(j) \/ Escalate(j) \/ WaitedExit(j)
         \/ CleanupReap(j) \/ CleanupRemove(j) \/ PurgeWorkspace(j)
      PROVE  Goal
  BY <1>5 DEF BeginStop, MarkStopping, Escalate, WaitedExit, CleanupReap,
     CleanupRemove, PurgeWorkspace, SetState, JobStep, JobEnds, Kill, RemoveResources,
     TypeOK
<1>6. CASE Restart
  BY <1>6 DEF Restart, TypeOK
<1>7. CASE DrainAll \/ DrainNext \/ killRemaining \/ KillNext
  BY <1>7 DEF DrainAll, DrainNext, killRemaining, KillNext, Kill, TypeOK
<1>8. CASE UNCHANGED vars
  BY <1>8 DEF vars, TypeOK
<1> QED
  BY <1>1, <1>2, <1>3, <1>4, <1>5, <1>6, <1>7, <1>8
  DEF Next, Create, watchProcess, Delete, Jobs

\* A machine whose Create has begun keeps its id, and its isNew until a restart.
LEMMA FieldsKept ==
    ASSUME TypeOK, [Next]_vars, NEW w \in VMs, creator[w] # "idle"
    PROVE  /\ vm'[w].id = vm[w].id
           /\ vm[w].isNew /\ ~Restart => vm'[w].isNew
           /\ vm[w].spawned /\ ~Restart => vm'[w].spawned
<1> DEFINE Goal == /\ vm'[w].id = vm[w].id
                   /\ vm[w].isNew /\ ~Restart => vm'[w].isNew
                   /\ vm[w].spawned /\ ~Restart => vm'[w].spawned
<1> USE DEF registryVars, hostVars, drainVars
<1>1. ASSUME NEW v \in VMs, NEW i \in Ids, Allocate(v, i) PROVE Goal
  <2>1. vm' = [vm EXCEPT ![v] = NewVM(i, freeSlot)] /\ v # w
    BY <1>1 DEF Allocate, CreatorStep
  <2> QED
    BY <2>1 DEF TypeOK
<1>2. ASSUME NEW v \in VMs, FormatWorkspace(v) PROVE Goal
  BY <1>2 DEF FormatWorkspace, CreatorStep, TypeOK, VMStruct
<1>3. ASSUME NEW v \in VMs, Spawn(v) PROVE Goal
  BY <1>3 DEF Spawn, CreatorStep, TypeOK, VMStruct
<1>4. ASSUME NEW v \in VMs, BecomeRunning(v) PROVE Goal
  BY <1>4 DEF BecomeRunning, SetState, CreatorStep, TypeOK, VMStruct
<1>5. ASSUME NEW v \in VMs, WatchJudge(v) PROVE Goal
  <2>1. vm' = vm \/ vm' = [vm EXCEPT ![v].state = "failed"]
    BY <1>5 DEF WatchJudge, SetState
  <2>2. /\ vm'[w].id = vm[w].id /\ vm'[w].isNew = vm[w].isNew
        /\ vm'[w].spawned = vm[w].spawned
    <3>1. CASE vm' = vm
      BY <3>1
    <3>2. CASE vm' = [vm EXCEPT ![v].state = "failed"]
      BY <3>2 DEF TypeOK, VMStruct
    <3> QED
      BY <2>1, <3>1, <3>2
  <2> QED
    BY <2>2
<1>6. ASSUME NEW v \in VMs,
         \/ MakeRunDir(v) \/ StatWorkspace(v) \/ FormatFails(v) \/ CreateTap(v)
         \/ RecordState(v) \/ BootFails(v) \/ AgentAnswers(v) \/ LoseRunning(v)
         \/ RollbackReap(v) \/ RollbackRemove(v) \/ ProcExit(v) \/ WatchRemove(v)
      PROVE  Goal
  BY <1>6 DEF MakeRunDir, StatWorkspace, FormatFails, CreateTap, RecordState,
     BootFails, AgentAnswers, LoseRunning, RollbackReap, RollbackRemove, ProcExit,
     WatchRemove, CreatorStep, Kill, RemoveResources, WatcherStep, TypeOK, VMStruct
<1>7. ASSUME NEW j \in Deleters, NEW i \in Ids, NEW purge \in BOOLEAN, GetForDelete(j, i, purge)
      PROVE  Goal
  BY <1>7 DEF GetForDelete, TypeOK, VMStruct
<1>8. ASSUME NEW j \in Jobs, BeginStop(j) PROVE Goal
  BY <1>8 DEF BeginStop, SetState, JobStep, JobEnds, TypeOK, VMStruct
<1>9. ASSUME NEW j \in Jobs, MarkStopping(j) PROVE Goal
  BY <1>9 DEF MarkStopping, JobStep, TypeOK, VMStruct
<1>10. ASSUME NEW j \in Jobs,
         \/ Escalate(j) \/ WaitedExit(j) \/ CleanupReap(j) \/ CleanupRemove(j)
         \/ PurgeWorkspace(j)
      PROVE  Goal
  BY <1>10 DEF Escalate, WaitedExit, CleanupReap, CleanupRemove, PurgeWorkspace,
     JobStep, Kill, RemoveResources, JobEnds, TypeOK, VMStruct
<1>11. CASE Restart
  BY <1>11 DEF Restart, Unborn
<1>12. CASE DrainAll \/ DrainNext \/ killRemaining \/ KillNext
  BY <1>12 DEF DrainAll, DrainNext, killRemaining, KillNext, Kill, TypeOK, VMStruct
<1>13. CASE UNCHANGED vars
  BY <1>13 DEF vars, TypeOK, VMStruct
<1> QED
  BY <1>1, <1>2, <1>3, <1>4, <1>5, <1>6, <1>7, <1>8, <1>9, <1>10, <1>11, <1>12, <1>13
  DEF Next, Create, watchProcess, Delete, Jobs

\* SetState makes nothing of a machine that is on its way out but that, and what
\* it is told to stop or fail is on its way out.
LEMMA SetStateLeaves ==
    ASSUME TypeOK, NEW v, NEW to \in States, SetState(v, to), NEW w \in VMs
    PROVE  /\ Leaving(w) => vm'[w].state \in {"stopping", "failed"}
           /\ v \in VMs /\ to = "failed" => vm'[v].state \in {"stopping", "failed"}
           /\ v \in VMs /\ to = "stopping" /\ MaySet(v, to) => vm'[v].state \in {"stopping", "failed"}
<1>1. \A u \in VMs : vm[u].state \in States
  BY DEF TypeOK, VMStruct
<1>2. \A u \in VMs : vm'[u].state = IF u = v /\ MaySet(v, to) THEN to ELSE vm[u].state
  BY DEF TypeOK, SetState
<1>3. /\ legalTransitions["stopping"] = {} /\ legalTransitions["failed"] = {"stopping"}
      /\ "failed" \in legalTransitions["creating"] /\ "failed" \in legalTransitions["running"]
      /\ "failed" \in legalTransitions["paused"]
  BY DEF legalTransitions, States
<1>4. MaySet(v, to) <=> vm[v].state = to \/ to \in legalTransitions[vm[v].state]
  BY DEF MaySet, canTransition
<1>5. Leaving(w) => vm'[w].state \in {"stopping", "failed"}
  BY <1>2, <1>3, <1>4 DEF Leaving
<1>6. v \in VMs /\ to = "failed" => vm'[v].state \in {"stopping", "failed"}
  BY <1>1, <1>2, <1>3, <1>4 DEF States
<1>7. v \in VMs /\ to = "stopping" /\ MaySet(v, to) => vm'[v].state \in {"stopping", "failed"}
  BY <1>2
<1> QED
  BY <1>5, <1>6, <1>7

\* A record in a state that leads nowhere but out stays in one, until a restart.
LEMMA LeavingKept ==
    ASSUME TypeOK, [Next]_vars, ~Restart, NEW w \in VMs, creator[w] # "idle", Leaving(w)
    PROVE  Leaving(w)'
<1> DEFINE Goal == vm'[w].state \in {"stopping", "failed"}
<1> SUFFICES Goal
  BY DEF Leaving
<1>0. vm[w].state \in {"stopping", "failed"}
  BY DEF Leaving
<1> USE DEF registryVars, hostVars, drainVars
<1>1. ASSUME NEW v \in VMs, NEW i \in Ids, Allocate(v, i) PROVE Goal
  <2>1. vm' = [vm EXCEPT ![v] = NewVM(i, freeSlot)] /\ v # w
    BY <1>1 DEF Allocate, CreatorStep
  <2> QED
    BY <1>0, <2>1 DEF TypeOK
<1>2. ASSUME NEW v \in VMs, FormatWorkspace(v) PROVE Goal
  BY <1>2, <1>0 DEF FormatWorkspace, CreatorStep, TypeOK, VMStruct
<1>3. ASSUME NEW v \in VMs, Spawn(v) PROVE Goal
  BY <1>3, <1>0 DEF Spawn, CreatorStep, TypeOK, VMStruct
<1>4. ASSUME NEW v \in VMs, BecomeRunning(v) PROVE Goal
  <2>1. MaySet(v, "running") /\ SetState(v, "running")
    BY <1>4 DEF BecomeRunning
  <2> QED
    BY <1>0, <2>1, SetStateLeaves DEF Leaving, States
<1>5. ASSUME NEW v \in VMs, WatchJudge(v) PROVE Goal
  <2>1. UNCHANGED vm \/ SetState(v, "failed")
    BY <1>5 DEF WatchJudge
  <2> QED
    BY <1>0, <2>1, SetStateLeaves DEF Leaving, States
<1>6. ASSUME NEW v \in VMs,
         \/ MakeRunDir(v) \/ StatWorkspace(v) \/ FormatFails(v) \/ CreateTap(v)
         \/ RecordState(v) \/ BootFails(v) \/ AgentAnswers(v) \/ LoseRunning(v)
         \/ RollbackReap(v) \/ RollbackRemove(v) \/ ProcExit(v) \/ WatchRemove(v)
      PROVE  Goal
  BY <1>6, <1>0 DEF MakeRunDir, StatWorkspace, FormatFails, CreateTap, RecordState,
     BootFails, AgentAnswers, LoseRunning, RollbackReap, RollbackRemove, ProcExit,
     WatchRemove, CreatorStep, Kill, RemoveResources, WatcherStep, TypeOK, VMStruct
<1>7. ASSUME NEW j \in Deleters, NEW i \in Ids, NEW purge \in BOOLEAN, GetForDelete(j, i, purge)
      PROVE  Goal
  BY <1>7, <1>0 DEF GetForDelete, TypeOK, VMStruct
<1>8. ASSUME NEW j \in Jobs, BeginStop(j) PROVE Goal
  <2>1. SetState(job[j].vm, "stopping")
    BY <1>8 DEF BeginStop
  <2> QED
    BY <1>0, <2>1, SetStateLeaves DEF Leaving, States
<1>9. ASSUME NEW j \in Jobs, MarkStopping(j) PROVE Goal
  BY <1>9, <1>0 DEF MarkStopping, JobStep, TypeOK, VMStruct
<1>10. ASSUME NEW j \in Jobs,
         \/ Escalate(j) \/ WaitedExit(j) \/ CleanupReap(j) \/ CleanupRemove(j)
         \/ PurgeWorkspace(j)
      PROVE  Goal
  BY <1>10, <1>0 DEF Escalate, WaitedExit, CleanupReap, CleanupRemove, PurgeWorkspace,
     JobStep, Kill, RemoveResources, JobEnds, TypeOK, VMStruct
<1>11. CASE DrainAll \/ DrainNext \/ killRemaining \/ KillNext
  BY <1>11, <1>0 DEF DrainAll, DrainNext, killRemaining, KillNext, Kill, TypeOK,
     VMStruct
<1>12. CASE UNCHANGED vars
  BY <1>12, <1>0 DEF vars, TypeOK, VMStruct
<1> QED
  BY <1>1, <1>2, <1>3, <1>4, <1>5, <1>6, <1>7, <1>8, <1>9, <1>10, <1>11, <1>12
  DEF Next, Create, watchProcess, Delete, Jobs

-----------------------------------------------------------------------------
(* Each part of the invariant is kept.                                     *)

\* Who lets go of a machine: its own rollback, its watcher, a DELETE.
LEMMA WhoReleases ==
    ASSUME IInv, [Next]_vars, ~Restart, NEW w \in VMs, creator[w] # "idle"
    PROVE  /\ Registered(w)' => Registered(w)
           /\ Registered(w) /\ ~Registered(w)' =>
                \/ RollbackRemove(w) \/ WatchRemove(w)
                \/ \E j \in Jobs : CleanupRemove(j) /\ job[j].vm = w
<1>1. TypeOK /\ vm'[w].id = vm[w].id /\ vm[w].id \in Ids \cup {None}
  BY FieldsKept DEF IInv, TypeOK, VMStruct
<1>2. ASSUME NEW v \in VMs, NEW i \in Ids, Allocate(v, i)
      PROVE  Registered(w)' <=> Registered(w)
  <2>1. v # w /\ byID[i] = None /\ byID' = [byID EXCEPT ![i] = v]
    BY <1>2 DEF Allocate, CreatorStep
  <2>2. w # None
    BY RegistryConstants
  <2> QED
    BY <1>1, <2>1, <2>2, RegistryConstants DEF Registered, TypeOK
<1>3. ASSUME NEW u, releaseLocked(u)
      PROVE  /\ Registered(w)' => Registered(w)
             /\ Registered(w) /\ ~Registered(w)' => u = w
  BY <1>1, <1>3, RegistryConstants DEF Registered, releaseLocked, TypeOK
<1>4. CASE UNCHANGED byID
  BY <1>1, <1>4 DEF Registered
<1>5. \/ UNCHANGED byID
      \/ \E v \in VMs, i \in Ids : Allocate(v, i)
      \/ \E v \in VMs : (RollbackRemove(v) \/ WatchRemove(v)) /\ releaseLocked(v)
      \/ \E j \in Jobs : CleanupRemove(j) /\ releaseLocked(job[j].vm)
  <2> DEFINE Goal ==
        \/ UNCHANGED byID
        \/ \E v \in VMs, i \in Ids : Allocate(v, i)
        \/ \E v \in VMs : (RollbackRemove(v) \/ WatchRemove(v)) /\ releaseLocked(v)
        \/ \E j \in Jobs : CleanupRemove(j) /\ releaseLocked(job[j].vm)
  <2>1. ASSUME NEW v \in VMs, RollbackRemove(v) PROVE Goal
    <3>1. releaseLocked(v)
      BY <2>1 DEF RollbackRemove, RemoveResources
    <3> QED
      BY <2>1, <3>1
  <2>2. ASSUME NEW v \in VMs, WatchRemove(v) PROVE Goal
    <3>1. releaseLocked(v)
      BY <2>2 DEF WatchRemove, RemoveResources
    <3> QED
      BY <2>2, <3>1
  <2>3. ASSUME NEW j \in Jobs, CleanupRemove(j) PROVE Goal
    <3>1. releaseLocked(job[j].vm)
      BY <2>3 DEF CleanupRemove, RemoveResources
    <3> QED
      BY <2>3, <3>1
  <2>4. ASSUME NEW v \in VMs, Create(v), ~RollbackRemove(v) PROVE Goal
    BY <2>4 DEF Create, MakeRunDir, StatWorkspace, FormatWorkspace, FormatFails, CreateTap,
       Spawn, RecordState, BootFails, AgentAnswers, BecomeRunning, LoseRunning, RollbackReap,
       registryVars
  <2>5. ASSUME NEW v \in VMs, ProcExit(v) \/ WatchJudge(v) PROVE Goal
    BY <2>5 DEF ProcExit, WatchJudge, registryVars
  <2>6. ASSUME NEW j \in Jobs, Delete(j), ~CleanupRemove(j) PROVE Goal
    BY <2>6 DEF Delete, BeginStop, MarkStopping, Escalate, WaitedExit, CleanupReap, registryVars
  <2>7. CASE \/ \E j \in Deleters, i \in Ids, purge \in BOOLEAN : GetForDelete(j, i, purge)
             \/ \E j \in Deleters : PurgeWorkspace(j)
             \/ DrainAll \/ DrainNext \/ killRemaining \/ KillNext
    BY <2>7 DEF GetForDelete, PurgeWorkspace, DrainAll, DrainNext, killRemaining, KillNext,
       registryVars
  <2>8. CASE UNCHANGED vars
    BY <2>8 DEF vars, registryVars
  <2> QED
    BY <2>1, <2>2, <2>3, <2>4, <2>5, <2>6, <2>7, <2>8 DEF Next, watchProcess
<1>6. CASE \E v \in VMs : (RollbackRemove(v) \/ WatchRemove(v)) /\ releaseLocked(v)
  BY <1>3, <1>6
<1>7. CASE \E j \in Jobs : CleanupRemove(j) /\ releaseLocked(job[j].vm)
  <2>1. PICK j \in Jobs : CleanupRemove(j) /\ releaseLocked(job[j].vm)
    BY <1>7
  <2> QED
    BY <1>3, <2>1
<1> QED
  BY <1>2, <1>4, <1>5, <1>6, <1>7

\* ProcessKnown: the kills of cleanup, the watcher's judgement.
LEMMA ProcessKnownStep ==
    ASSUME IInv, ProcessKnown, [Next]_vars
    PROVE  ProcessKnown'
<1> DEFINE Known(v) ==
        /\ creator'[v] \in {"idle", "mkdir", "stat", "mkfs", "tap", "spawn"} => proc'[v] = "none"
        /\ proc'[v] = "up" => creator'[v] \in {"record", "wait", "run", "reap", "ok", "lost"}
        /\ proc'[v] = "up" /\ creator'[v] # "lost" => vm'[v].spawned
        /\ watcher'[v] = "remove" => proc'[v] = "gone"
<1> SUFFICES ASSUME NEW w \in VMs
             PROVE  Known(w) /\ (watcher'[w] = "remove" => Leaving(w)')
  BY DEF ProcessKnown
<1>a. TypeOK
  BY DEF IInv
<1>b. /\ creator[w] \in {"idle", "mkdir", "stat", "mkfs", "tap", "spawn"} => proc[w] = "none"
      /\ proc[w] = "up" => creator[w] \in {"record", "wait", "run", "reap", "ok", "lost"}
      /\ proc[w] = "up" /\ creator[w] # "lost" => vm[w].spawned
      /\ watcher[w] = "remove" => proc[w] = "gone" /\ Leaving(w)
  BY DEF ProcessKnown
<1>c. watcher'[w] = "remove" => Leaving(w)'
  <2>1. CASE watcher[w] = "remove"
    <3>1. ~Restart \/ watcher'[w] # "remove"
      BY DEF Restart
    <3>2. creator[w] # "idle"
      BY <1>b, <2>1
    <3> QED
      BY <1>a, <1>b, <2>1, <3>1, <3>2, LeavingKept
  <2>2. CASE watcher[w] # "remove" /\ watcher'[w] = "remove"
    <3>1. WatchJudge(w)
      <4> USE <1>a, <2>2 DEF TypeOK, registryVars, hostVars, drainVars
      <4>1. ASSUME NEW v \in VMs, RecordState(v) PROVE FALSE
        BY <4>1 DEF RecordState, CreatorStep
      <4>2. ASSUME NEW v \in VMs, WatchJudge(v) PROVE v = w
        BY <4>2 DEF WatchJudge, WatcherStep
      <4>3. ASSUME NEW v \in VMs, WatchRemove(v) PROVE FALSE
        BY <4>3 DEF WatchRemove, WatcherStep
      <4>4. ~Restart
        BY DEF Restart
      <4>5. ASSUME NEW v \in VMs, Create(v), ~RecordState(v) PROVE FALSE
        BY <4>5 DEF Create, Allocate, MakeRunDir, StatWorkspace, FormatWorkspace, FormatFails,
           CreateTap, Spawn, BootFails, AgentAnswers, BecomeRunning, LoseRunning, RollbackReap,
           RollbackRemove
      <4>6. ASSUME NEW j \in Jobs, Delete(j) PROVE FALSE
        BY <4>6 DEF Delete, BeginStop, MarkStopping, Escalate, WaitedExit, CleanupReap,
           CleanupRemove
      <4>7. ~ \E j \in Deleters : \/ PurgeWorkspace(j)
                                  \/ \E i \in Ids, purge \in BOOLEAN : GetForDelete(j, i, purge)
        BY DEF GetForDelete, PurgeWorkspace
      <4>8. ~ (DrainAll \/ DrainNext \/ killRemaining \/ KillNext)
        BY DEF DrainAll, DrainNext, killRemaining, KillNext
      <4>9. ~ UNCHANGED vars /\ ~ \E v \in VMs : ProcExit(v)
        BY DEF vars, ProcExit
      <4> QED
        BY <4>1, <4>2, <4>3, <4>4, <4>5, <4>6, <4>7, <4>8, <4>9 DEF Next, watchProcess
    <3>2. SetState(w, "failed")
      BY <1>a, <2>2, <3>1 DEF WatchJudge, WatcherStep, TypeOK
    <3> QED
      BY <1>a, <3>2, SetStateLeaves DEF Leaving, States
  <2> QED
    BY <2>1, <2>2
<1> USE DEF registryVars, hostVars, drainVars
<1> SUFFICES Known(w)
  BY <1>c
<1>1. ASSUME NEW v \in VMs, NEW i \in Ids, Allocate(v, i) PROVE Known(w)
  <2>1. creator[v] = "idle" /\ creator' = [creator EXCEPT ![v] = "mkdir"]
    BY <1>1 DEF Allocate, CreatorStep
  <2>2. UNCHANGED <<proc, watcher>> /\ vm' = [vm EXCEPT ![v] = NewVM(i, freeSlot)]
    BY <1>1 DEF Allocate
  <2> QED
    BY <1>a, <1>b, <2>1, <2>2 DEF TypeOK
<1>2. ASSUME NEW v \in VMs, MakeRunDir(v) PROVE Known(w)
  BY <1>2, <1>a, <1>b DEF MakeRunDir, CreatorStep, TypeOK, VMStruct
<1>3. ASSUME NEW v \in VMs, StatWorkspace(v) PROVE Known(w)
  BY <1>3, <1>a, <1>b DEF StatWorkspace, CreatorStep, TypeOK, VMStruct
<1>4. ASSUME NEW v \in VMs, FormatWorkspace(v) PROVE Known(w)
  BY <1>4, <1>a, <1>b DEF FormatWorkspace, CreatorStep, TypeOK, VMStruct
<1>5. ASSUME NEW v \in VMs, FormatFails(v) PROVE Known(w)
  BY <1>5, <1>a, <1>b DEF FormatFails, CreatorStep, TypeOK, VMStruct
<1>6. ASSUME NEW v \in VMs, CreateTap(v) PROVE Known(w)
  BY <1>6, <1>a, <1>b DEF CreateTap, CreatorStep, TypeOK, VMStruct
<1>7. ASSUME NEW v \in VMs, Spawn(v) PROVE Known(w)
  BY <1>7, <1>a, <1>b DEF Spawn, CreatorStep, TypeOK, VMStruct
<1>8. ASSUME NEW v \in VMs, RecordState(v) PROVE Known(w)
  BY <1>8, <1>a, <1>b DEF RecordState, CreatorStep, TypeOK, VMStruct
<1>9. ASSUME NEW v \in VMs, BootFails(v) PROVE Known(w)
  BY <1>9, <1>a, <1>b DEF BootFails, CreatorStep, TypeOK, VMStruct
<1>10. ASSUME NEW v \in VMs, AgentAnswers(v) PROVE Known(w)
  BY <1>10, <1>a, <1>b DEF AgentAnswers, CreatorStep, TypeOK, VMStruct
<1>11. ASSUME NEW v \in VMs, BecomeRunning(v) PROVE Known(w)
  BY <1>11, <1>a, <1>b DEF BecomeRunning, SetState, CreatorStep, TypeOK, VMStruct
<1>12. ASSUME NEW v \in VMs, LoseRunning(v) PROVE Known(w)
  BY <1>12, <1>a, <1>b DEF LoseRunning, CreatorStep, TypeOK, VMStruct
<1>13. ASSUME NEW v \in VMs, RollbackReap(v) PROVE Known(w)
  BY <1>13, <1>a, <1>b DEF RollbackReap, Kill, CreatorStep, TypeOK, VMStruct
<1>14. ASSUME NEW v \in VMs, RollbackRemove(v) PROVE Known(w)
  BY <1>14, <1>a, <1>b DEF RollbackRemove, RemoveResources, CreatorStep, TypeOK,
     VMStruct
<1>15. ASSUME NEW v \in VMs, ProcExit(v) PROVE Known(w)
  BY <1>15, <1>a, <1>b DEF ProcExit, TypeOK, VMStruct
<1>16. ASSUME NEW v \in VMs, WatchJudge(v) PROVE Known(w)
  BY <1>16, <1>a, <1>b DEF WatchJudge, SetState, WatcherStep, TypeOK, VMStruct
<1>17. ASSUME NEW v \in VMs, WatchRemove(v) PROVE Known(w)
  BY <1>17, <1>a, <1>b DEF WatchRemove, RemoveResources, WatcherStep, TypeOK, VMStruct
<1>18. ASSUME NEW j \in Deleters, NEW i \in Ids, NEW purge \in BOOLEAN, GetForDelete(j, i, purge)
      PROVE  Known(w)
  BY <1>18, <1>a, <1>b DEF GetForDelete, TypeOK, VMStruct
<1>19. ASSUME NEW j \in Jobs, BeginStop(j) PROVE Known(w)
  BY <1>19, <1>a, <1>b DEF BeginStop, SetState, JobStep, JobEnds, TypeOK, VMStruct
<1>20. ASSUME NEW j \in Jobs, MarkStopping(j) PROVE Known(w)
  BY <1>20, <1>a, <1>b DEF MarkStopping, JobStep, TypeOK, VMStruct
<1>21. ASSUME NEW j \in Jobs, Escalate(j) PROVE Known(w)
  BY <1>21, <1>a, <1>b DEF Escalate, TypeOK, VMStruct
<1>22. ASSUME NEW j \in Jobs, CleanupReap(j) PROVE Known(w)
  BY <1>22, <1>a, <1>b DEF CleanupReap, JobStep, Kill, TypeOK, VMStruct
<1>23. ASSUME NEW j \in Jobs,
         \/ WaitedExit(j) \/ CleanupRemove(j) \/ PurgeWorkspace(j)
      PROVE  Known(w)
  BY <1>23, <1>a, <1>b DEF WaitedExit, CleanupRemove, PurgeWorkspace, JobStep,
     RemoveResources, JobEnds, TypeOK, VMStruct
<1>24. CASE KillNext
  BY <1>24, <1>a, <1>b DEF KillNext, Kill, TypeOK, VMStruct
<1>25. CASE Restart
  BY <1>25, <1>a, <1>b DEF Restart, TypeOK, VMStruct
<1>26. CASE DrainAll \/ DrainNext \/ killRemaining
  BY <1>26, <1>a, <1>b DEF DrainAll, DrainNext, killRemaining, TypeOK, VMStruct
<1>27. CASE UNCHANGED vars
  BY <1>27, <1>a, <1>b DEF vars, TypeOK, VMStruct
<1> QED
  BY <1>1, <1>2, <1>3, <1>4, <1>5, <1>6, <1>7, <1>8, <1>9, <1>10, <1>11, <1>12, <1>13,
     <1>14, <1>15, <1>16, <1>17, <1>18, <1>19, <1>20, <1>21, <1>22, <1>23, <1>24,
     <1>25, <1>26, <1>27
  DEF Next, Create, watchProcess, Delete, Jobs

\* SetState(running) refuses a machine that is on its way out.
LEMMA NoWayBack ==
    ASSUME NEW w \in VMs, Leaving(w)
    PROVE  ~MaySet(w, "running")
BY DEF Leaving, MaySet, canTransition, legalTransitions, States

\* A DELETE's job moves by its own steps.
LEMMA JobMoves ==
    ASSUME TypeOK, [Next]_vars, NEW d \in Deleters
    PROVE  \/ job'[d] = job[d] \/ Restart
           \/ \E i \in Ids, purge \in BOOLEAN : GetForDelete(d, i, purge)
           \/ BeginStop(d) \/ MarkStopping(d) \/ WaitedExit(d) \/ CleanupReap(d)
           \/ CleanupRemove(d) \/ PurgeWorkspace(d)
<1>0. d # Drainer /\ d # Killer /\ d \in Jobs
  BY RegistryConstants DEF Jobs
<1> DEFINE Goal == \/ job'[d] = job[d] \/ Restart
                   \/ \E i \in Ids, purge \in BOOLEAN : GetForDelete(d, i, purge)
                   \/ BeginStop(d) \/ MarkStopping(d) \/ WaitedExit(d) \/ CleanupReap(d)
                   \/ CleanupRemove(d) \/ PurgeWorkspace(d)
<1>1. ASSUME NEW v \in VMs, Create(v) PROVE UNCHANGED job
  BY <1>1 DEF Create, Allocate, MakeRunDir, StatWorkspace, FormatWorkspace, FormatFails, CreateTap,
     Spawn, RecordState, BootFails, AgentAnswers, BecomeRunning, LoseRunning, RollbackReap,
     RollbackRemove
<1>2. ASSUME NEW v \in VMs, ProcExit(v) \/ watchProcess(v) PROVE UNCHANGED job
  BY <1>2 DEF ProcExit, watchProcess, WatchJudge, WatchRemove
<1>3. ASSUME NEW j \in Deleters, NEW i \in Ids, NEW purge \in BOOLEAN, GetForDelete(j, i, purge)
      PROVE  Goal
  <2>1. CASE j = d
    BY <1>3, <2>1
  <2>2. CASE j # d
    BY <1>3, <2>2 DEF GetForDelete, TypeOK
  <2> QED
    BY <2>1, <2>2
<1>4. ASSUME NEW j \in Jobs, Delete(j) \/ PurgeWorkspace(j) PROVE Goal
  <2>1. CASE j = d
    <3>1. CASE Escalate(d)
      BY <3>1 DEF Escalate
    <3> QED
      BY <1>4, <2>1, <3>1 DEF Delete
  <2>2. CASE j # d
    <3>1. job'[d] = job[d]
      BY <1>0, <1>4, <2>2 DEF Delete, BeginStop, MarkStopping, Escalate, WaitedExit, CleanupReap,
         CleanupRemove, PurgeWorkspace, JobStep, JobEnds, TypeOK
    <3> QED
      BY <3>1
  <2> QED
    BY <2>1, <2>2
<1>5. CASE DrainAll \/ DrainNext \/ killRemaining \/ KillNext
  <2>1. job'[d] = job[d]
    BY <1>0, <1>5 DEF DrainAll, DrainNext, killRemaining, KillNext, TypeOK
  <2> QED
    BY <2>1
<1>6. CASE UNCHANGED vars
  BY <1>6 DEF vars
<1> QED
  BY <1>1, <1>2, <1>3, <1>4, <1>5, <1>6 DEF Next, Jobs

\* DeletesLeave: beginStop, and the reap of a machine whose Create goes on.
LEMMA DeletesLeaveStep ==
    ASSUME IInv, ProcessKnown, DeletesLeave, [Next]_vars
    PROVE  DeletesLeave'
<1> DEFINE Good(j) ==
        /\ job'[j].pc \in {"begin", "mark", "ladder", "reap", "remove"} =>
              job'[j].vm \in VMs /\ creator'[job'[j].vm] # "idle"
        /\ job'[j].pc \in {"mark", "ladder", "reap", "remove"} => vm'[job'[j].vm].state \in {"stopping", "failed"}
        /\ job'[j].pc = "remove" /\ proc'[job'[j].vm] = "up" => creator'[job'[j].vm] # "ok"
<1> SUFFICES ASSUME NEW j \in Deleters
             PROVE  Good(j)
  BY DEF DeletesLeave, Leaving
<1> DEFINE w == job[j].vm
<1>1. TypeOK /\ j \in Jobs
  BY DEF IInv, Jobs
<1>2. /\ job[j].pc \in {"begin", "mark", "ladder", "reap", "remove"} =>
            w \in VMs /\ creator[w] # "idle" /\ creator'[w] # "idle"
      /\ job[j].pc \in {"mark", "ladder", "reap", "remove"} => Leaving(w)
      /\ job[j].pc = "remove" /\ proc[w] = "up" => creator[w] # "ok"
  BY <1>1, CreatorMoves DEF DeletesLeave
<1>3. job[j].pc \in {"mark", "ladder", "reap", "remove"} /\ ~Restart =>
        vm'[w].state \in {"stopping", "failed"}
  <2>1. \A u \in VMs : creator[u] # "idle" /\ Leaving(u) /\ ~Restart =>
          vm'[u].state \in {"stopping", "failed"}
    BY <1>1, LeavingKept DEF Leaving
  <2> QED
    BY <1>2, <2>1
<1> HIDE DEF w
<1>4. CASE Restart
  <2>1. job'[j].pc \in {"idle", "err"}
    BY <1>1, <1>4 DEF Restart, IdleJob
  <2> QED
    BY <2>1
<1>5. CASE job'[j] = job[j] /\ ~Restart
  <2>1. job[j].pc = "remove" /\ proc'[w] = "up" => creator'[w] # "ok"
    <3>1. SUFFICES ASSUME job[j].pc = "remove", proc'[w] = "up", creator'[w] = "ok" PROVE FALSE
      OBVIOUS
    <3>2. w \in VMs /\ Leaving(w)
      BY <1>2, <3>1
    <3>3. ~ BecomeRunning(w)
      BY <3>2, NoWayBack DEF BecomeRunning
    <3>4. creator[w] = "ok"
      BY <1>1, <3>1, <3>2, <3>3, CreatorMoves
    <3>5. ~ Spawn(w)
      BY <3>4 DEF Spawn, CreatorStep
    <3> QED
      BY <1>1, <1>2, <3>1, <3>2, <3>4, <3>5, ProcessMoves
  <2> QED
    BY <1>2, <1>3, <1>5, <2>1 DEF w
<1>6. ASSUME NEW i \in Ids, NEW purge \in BOOLEAN, GetForDelete(j, i, purge) PROVE Good(j)
  <2>1. /\ job'[j].pc = IF byID[i] = None THEN "purge" ELSE "begin"
        /\ job'[j].vm = byID[i] /\ UNCHANGED creator
    BY <1>1, <1>6 DEF GetForDelete, TypeOK
  <2>2. byID[i] # None => byID[i] \in VMs /\ creator[byID[i]] # "idle"
    BY RegistryConstants DEF IInv, TypeOK, RegistryAgrees, Unspent
  <2> QED
    BY <2>1, <2>2
<1>7. CASE BeginStop(j)
  <2>1. SetState(w, "stopping") /\ job[j].pc = "begin"
    BY <1>7 DEF BeginStop, w
  <2>2. \/ MaySet(w, "stopping") /\ JobStep(j, "begin", "mark")
        \/ JobEnds(j, "err")
    BY <1>7 DEF BeginStop, w
  <2>3. CASE MaySet(w, "stopping") /\ JobStep(j, "begin", "mark")
    <3>1. job'[j].pc = "mark" /\ job'[j].vm = w
      BY <1>1, <2>3 DEF JobStep, TypeOK, JobStruct, w
    <3>2. vm'[w].state \in {"stopping", "failed"}
      BY <1>1, <1>2, <2>1, <2>3, SetStateLeaves DEF States
    <3> QED
      BY <1>2, <2>1, <3>1, <3>2
  <2>4. CASE JobEnds(j, "err")
    BY <1>1, <2>4 DEF JobEnds, IdleJob, TypeOK
  <2> QED
    BY <2>2, <2>3, <2>4
<1>8. CASE MarkStopping(j) \/ WaitedExit(j) \/ CleanupReap(j)
  <2>1. /\ job[j].pc \in {"mark", "ladder", "reap"} /\ job'[j].vm = w
        /\ job'[j].pc \in {"ladder", "reap", "remove"}
    BY <1>1, <1>8 DEF MarkStopping, WaitedExit, CleanupReap, JobStep, TypeOK, JobStruct, w
  <2>2. ~Restart
    BY <1>1, <2>1 DEF Restart, IdleJob
  <2>3. w \in VMs
    BY <1>2, <2>1
  <2>4. job'[j].pc = "remove" /\ proc'[w] = "up" => creator'[w] # "ok"
    <3>1. CASE MarkStopping(j)
      BY <1>1, <3>1 DEF MarkStopping, JobStep, TypeOK
    <3>2. CASE WaitedExit(j)
      BY <1>1, <3>2 DEF WaitedExit, hostVars, w
    <3>3. CASE CleanupReap(j)
      <4>1. UNCHANGED <<creator, vm>> /\ Kill(w)
        BY <3>3 DEF CleanupReap, registryVars, w
      <4>2. proc'[w] = "up" => proc[w] = "up" /\ ~vm[w].spawned
        BY <1>1, <2>3, <4>1 DEF Kill, TypeOK
      <4> QED
        BY <2>3, <4>1, <4>2 DEF ProcessKnown
    <3> QED
      BY <1>8, <3>1, <3>2, <3>3
  <2> QED
    BY <1>2, <1>3, <2>1, <2>2, <2>3, <2>4
<1>9. CASE CleanupRemove(j) \/ PurgeWorkspace(j)
  <2>1. JobEnds(j, "ok") \/ JobEnds(j, "err")
    BY <1>9 DEF CleanupRemove, PurgeWorkspace
  <2>2. job'[j].pc \in {"ok", "err"}
    BY <1>1, <2>1 DEF JobEnds, IdleJob, TypeOK
  <2> QED
    BY <2>2
<1> QED
  BY <1>1, <1>4, <1>5, <1>6, <1>7, <1>8, <1>9, JobMoves

\* NobodyDrains: DrainAll stops the server first, and only a restart starts it.
LEMMA NobodyDrainsStep ==
    ASSUME IInv, NobodyDrains, [Next]_vars
    PROVE  NobodyDrains'
<1> SUFFICES ASSUME serving', NEW k \in {Drainer, Killer}
             PROVE  job'[k].pc = "idle" /\ draining'[k] = {}
  BY DEF NobodyDrains
<1> DEFINE Goal == job'[k].pc = "idle" /\ draining'[k] = {}
<1>0. TypeOK /\ k \notin Deleters /\ k \in Jobs
  BY RegistryConstants DEF IInv, Jobs
<1>90. serving => job[k].pc = "idle" /\ draining[k] = {}
  BY DEF NobodyDrains
<1>91. serving => job[Drainer].pc = "idle" /\ draining[Drainer] = {} /\ draining[Killer] = {}
  BY DEF NobodyDrains
<1> USE DEF registryVars, hostVars, drainVars
<1>1. ASSUME NEW v \in VMs, NEW i \in Ids, Allocate(v, i) PROVE Goal
  BY <1>1, <1>0, <1>90, <1>91 DEF Allocate, CreatorStep, TypeOK
<1>2. ASSUME NEW v \in VMs,
         \/ MakeRunDir(v) \/ StatWorkspace(v) \/ FormatWorkspace(v) \/ FormatFails(v)
         \/ CreateTap(v) \/ Spawn(v) \/ RecordState(v) \/ BootFails(v)
         \/ AgentAnswers(v) \/ BecomeRunning(v) \/ LoseRunning(v) \/ RollbackReap(v)
         \/ RollbackRemove(v) \/ ProcExit(v) \/ WatchJudge(v) \/ WatchRemove(v)
      PROVE  Goal
  BY <1>2, <1>0, <1>90, <1>91 DEF MakeRunDir, StatWorkspace, FormatWorkspace,
     FormatFails, CreateTap, Spawn, RecordState, BootFails, AgentAnswers,
     BecomeRunning, LoseRunning, RollbackReap, RollbackRemove, ProcExit, WatchJudge,
     WatchRemove, CreatorStep, SetState, Kill, RemoveResources, WatcherStep, TypeOK
<1>3. ASSUME NEW j \in Deleters, NEW i \in Ids, NEW purge \in BOOLEAN, GetForDelete(j, i, purge)
      PROVE  Goal
  BY <1>3, <1>0, <1>90, <1>91 DEF GetForDelete, TypeOK
<1>4. ASSUME NEW j \in Jobs,
         \/ BeginStop(j) \/ MarkStopping(j) \/ Escalate(j) \/ WaitedExit(j)
         \/ CleanupReap(j) \/ CleanupRemove(j) \/ PurgeWorkspace(j)
      PROVE  Goal
  BY <1>4, <1>0, <1>90, <1>91 DEF BeginStop, MarkStopping, Escalate, WaitedExit,
     CleanupReap, CleanupRemove, PurgeWorkspace, SetState, JobStep, JobEnds, Kill,
     RemoveResources, TypeOK
<1>5. CASE DrainAll
  BY <1>5, <1>0, <1>90, <1>91 DEF DrainAll, TypeOK
<1>6. CASE DrainNext
  BY <1>6, <1>0, <1>90, <1>91 DEF DrainNext, TypeOK
<1>7. CASE killRemaining
  BY <1>7, <1>0, <1>90, <1>91 DEF killRemaining, TypeOK
<1>8. CASE KillNext
  BY <1>8, <1>0, <1>90, <1>91 DEF KillNext, Kill, TypeOK
<1>9. CASE Restart
  BY <1>9, <1>0 DEF Restart, IdleJob
<1>10. CASE UNCHANGED vars
  BY <1>10, <1>0, <1>90, <1>91 DEF vars, TypeOK
<1> QED
  BY <1>1, <1>2, <1>3, <1>4, <1>5, <1>6, <1>7, <1>8, <1>9, <1>10
  DEF Next, Create, watchProcess, Delete, Jobs

\* Only the next process serves again.
LEMMA ServesSince ==
    ASSUME [Next]_vars, serving'
    PROVE  serving \/ Restart
<1> USE DEF drainVars
<1>1. ASSUME NEW v \in VMs, Create(v) PROVE serving
  BY <1>1 DEF Create, Allocate, MakeRunDir, StatWorkspace, FormatWorkspace, FormatFails, CreateTap,
     Spawn, RecordState, BootFails, AgentAnswers, BecomeRunning, LoseRunning, RollbackReap,
     RollbackRemove
<1>2. ASSUME NEW v \in VMs, ProcExit(v) \/ watchProcess(v) PROVE serving
  BY <1>2 DEF ProcExit, watchProcess, WatchJudge, WatchRemove
<1>3. ASSUME NEW j, Delete(j) \/ PurgeWorkspace(j) PROVE serving
  BY <1>3 DEF Delete, BeginStop, MarkStopping, Escalate, WaitedExit, CleanupReap, CleanupRemove,
     PurgeWorkspace
<1>4. ASSUME NEW j, NEW i, NEW purge, GetForDelete(j, i, purge) PROVE serving
  BY <1>4 DEF GetForDelete
<1>5. CASE DrainAll \/ DrainNext \/ killRemaining \/ KillNext
  BY <1>5 DEF DrainAll, DrainNext, killRemaining, KillNext
<1>6. CASE UNCHANGED vars
  BY <1>6 DEF vars
<1> QED
  BY <1>1, <1>2, <1>3, <1>4, <1>5, <1>6 DEF Next

\* DroppedFails: whoever lets go of a machine has made sure that its Create,
\* if it goes on, loses its SetState(running), or has reaped its process.
LEMMA DroppedFailsStep ==
    ASSUME IInv, ProcessKnown, DeletesLeave, NobodyDrains, DroppedFails, [Next]_vars
    PROVE  DroppedFails'
<1> SUFFICES ASSUME serving', NEW w \in VMs, ~Registered(w)'
             PROVE  /\ creator'[w] \in Booting => vm'[w].state \in {"stopping", "failed"}
                    /\ creator'[w] = "ok" => proc'[w] # "up"
  BY DEF DroppedFails, Leaving
<1> DEFINE Goal == /\ creator'[w] \in Booting => vm'[w].state \in {"stopping", "failed"}
                   /\ creator'[w] = "ok" => proc'[w] # "up"
<1>0. TypeOK
  BY DEF IInv
<1>1. CASE Restart
  <2>1. creator'[w] \in {"idle", "lost"}
    BY <1>1 DEF Restart
  <2> QED
    BY <2>1 DEF Booting
<1>2. CASE creator[w] = "idle" /\ ~Restart
  <2>1. CASE creator'[w] = "idle"
    BY <2>1 DEF Booting
  <2>2. CASE creator'[w] # "idle"
    <3>1. PICK i \in Ids : Allocate(w, i)
      BY <1>0, <1>2, <2>2, CreatorMoves
    <3>2. /\ vm' = [vm EXCEPT ![w] = NewVM(i, freeSlot)]
          /\ byID' = [byID EXCEPT ![i] = w]
      BY <3>1 DEF Allocate
    <3>3. vm'[w].id = i /\ byID'[i] = w
      BY <1>0, <3>2 DEF TypeOK, NewVM
    <3>4. Registered(w)'
      BY <3>3, RegistryConstants DEF Registered
    <3> QED
      BY <3>4
  <2> QED
    BY <2>1, <2>2
<1>3. CASE creator[w] # "idle" /\ ~Restart
  <2>1. serving
    BY <1>3, ServesSince
  <2>2. Leaving(w) => vm'[w].state \in {"stopping", "failed"}
    BY <1>0, <1>3, LeavingKept DEF Leaving
  <2>3. CASE ~Registered(w)
    <3>1. /\ creator[w] \in Booting => Leaving(w)
          /\ creator[w] = "ok" => proc[w] # "up"
      BY <2>1, <2>3 DEF DroppedFails
    <3>2. creator'[w] \in Booting => vm'[w].state \in {"stopping", "failed"}
      BY <1>0, <1>3, <2>2, <3>1, CreatorMoves
    <3>3. ASSUME creator'[w] = "ok", proc'[w] = "up" PROVE FALSE
      <4>1. ~ BecomeRunning(w)
        <5>1. SUFFICES ASSUME BecomeRunning(w) PROVE FALSE
          OBVIOUS
        <5>2. creator[w] = "run" /\ MaySet(w, "running")
          BY <5>1 DEF BecomeRunning, CreatorStep
        <5> QED
          BY <3>1, <5>2, NoWayBack DEF Booting
      <4>2. creator[w] = "ok"
        BY <1>0, <3>3, <4>1, CreatorMoves
      <4>3. ~ Spawn(w)
        BY <4>2 DEF Spawn, CreatorStep
      <4> QED
        BY <1>0, <3>1, <3>3, <4>2, <4>3, ProcessMoves
    <3> QED
      BY <3>2, <3>3
  <2>4. CASE Registered(w) /\ RollbackRemove(w)
    <3>1. creator'[w] \in {"leaked", "failed"}
      BY <1>0, <2>4 DEF RollbackRemove, CreatorStep, TypeOK
    <3> QED
      BY <3>1 DEF Booting
  <2>5. CASE Registered(w) /\ WatchRemove(w)
    <3>1. watcher[w] = "remove" /\ UNCHANGED proc
      BY <2>5 DEF WatchRemove, WatcherStep
    <3>2. proc[w] = "gone" /\ Leaving(w)
      BY <3>1 DEF ProcessKnown
    <3> QED
      BY <2>2, <3>1, <3>2
  <2>6. ASSUME Registered(w), NEW j \in Jobs, CleanupRemove(j), job[j].vm = w PROVE Goal
    <3>1. job[j].pc = "remove" /\ UNCHANGED <<proc, creator>>
      BY <2>6 DEF CleanupRemove
    <3>2. j \in Deleters
      BY <2>1, <3>1 DEF Jobs, NobodyDrains
    <3>3. Leaving(w) /\ (proc[w] = "up" => creator[w] # "ok")
      BY <2>6, <3>1, <3>2 DEF DeletesLeave
    <3> QED
      BY <2>2, <3>1, <3>3
  <2> QED
    BY <1>3, <2>3, <2>4, <2>5, <2>6, WhoReleases
<1> QED
  BY <1>1, <1>2, <1>3

\* ErasedIsFree: a purge is reported under the lock, of an id that is free or
\* that this cleanup frees, and Allocate begins a new history of the id.
LEMMA ErasedIsFreeStep ==
    ASSUME IInv, ErasedIsFree, [Next]_vars
    PROVE  ErasedIsFree'
<1> SUFFICES ASSUME NEW k \in Ids, erased'[k]
             PROVE  byID'[k] = None
  BY DEF ErasedIsFree
<1>0. TypeOK /\ (erased[k] => byID[k] = None)
  BY DEF IInv, ErasedIsFree
<1> USE DEF registryVars
<1>1. ASSUME NEW v \in VMs, NEW i \in Ids, Allocate(v, i) PROVE byID'[k] = None
  <2>1. /\ byID' = [byID EXCEPT ![i] = v]
        /\ erased' = [erased EXCEPT ![i] = FALSE]
    BY <1>1 DEF Allocate
  <2> QED
    BY <1>0, <2>1 DEF TypeOK
<1>2. ASSUME NEW v, releaseLocked(v), UNCHANGED erased PROVE byID'[k] = None
  BY <1>0, <1>2 DEF releaseLocked
<1>3. CASE UNCHANGED <<byID, erased>>
  BY <1>0, <1>3
<1>4. ASSUME NEW v \in VMs, Create(v), ~ \E i \in Ids : Allocate(v, i) PROVE byID'[k] = None
  <2>1. CASE RollbackRemove(v)
    <3>1. releaseLocked(v) /\ UNCHANGED erased
      BY <2>1 DEF RollbackRemove, RemoveResources
    <3> QED
      BY <1>2, <3>1
  <2>2. CASE ~RollbackRemove(v)
    <3>1. UNCHANGED <<byID, erased>>
      BY <1>4, <2>2 DEF Create, MakeRunDir, StatWorkspace, FormatWorkspace, FormatFails, CreateTap,
         Spawn, RecordState, BootFails, AgentAnswers, BecomeRunning, LoseRunning, RollbackReap
    <3> QED
      BY <1>3, <3>1
  <2> QED
    BY <2>1, <2>2
<1>5. ASSUME NEW v \in VMs, ProcExit(v) \/ WatchJudge(v) PROVE byID'[k] = None
  BY <1>3, <1>5 DEF ProcExit, WatchJudge
<1>6. ASSUME NEW v \in VMs, WatchRemove(v) PROVE byID'[k] = None
  <2>1. releaseLocked(v) /\ UNCHANGED erased
    BY <1>6 DEF WatchRemove, RemoveResources
  <2> QED
    BY <1>2, <2>1
<1>7. ASSUME NEW j \in Jobs, CleanupRemove(j) PROVE byID'[k] = None
  <2> DEFINE v == job[j].vm
             i == vm[v].id
  <2>1. releaseLocked(v)
    BY <1>7 DEF CleanupRemove, RemoveResources
  <2>2. \/ UNCHANGED erased
        \/ byID[i] \in {v, None} /\ erased' = [erased EXCEPT ![i] = TRUE]
    BY <1>7 DEF CleanupRemove, Replaced
  <2> HIDE DEF v
  <2>3. CASE UNCHANGED erased
    BY <1>2, <2>1, <2>3
  <2>4. CASE byID[i] \in {v, None} /\ erased' = [erased EXCEPT ![i] = TRUE]
    <3>1. CASE k = i
      BY <2>1, <2>4, <3>1 DEF releaseLocked
    <3>2. CASE k # i
      <4>1. erased[k]
        BY <1>0, <2>4, <3>2 DEF TypeOK
      <4> QED
        BY <1>0, <2>1, <4>1 DEF releaseLocked
    <3> QED
      BY <3>1, <3>2
  <2> QED
    BY <2>2, <2>3, <2>4
<1>8. ASSUME NEW j \in Jobs, PurgeWorkspace(j) PROVE byID'[k] = None
  <2> DEFINE i == job[j].id
  <2>1. /\ UNCHANGED byID
        /\ \/ UNCHANGED erased
           \/ byID[i] = None /\ erased' = [erased EXCEPT ![i] = TRUE]
    BY <1>8 DEF PurgeWorkspace
  <2> HIDE DEF i
  <2> QED
    BY <1>0, <2>1 DEF TypeOK
<1>9. ASSUME NEW j \in Jobs, Delete(j), ~CleanupRemove(j) PROVE byID'[k] = None
  BY <1>3, <1>9 DEF Delete, BeginStop, MarkStopping, Escalate, WaitedExit, CleanupReap
<1>10. ASSUME NEW j, NEW i, NEW purge, GetForDelete(j, i, purge) PROVE byID'[k] = None
  BY <1>3, <1>10 DEF GetForDelete
<1>11. CASE DrainAll \/ DrainNext \/ killRemaining \/ KillNext
  BY <1>3, <1>11 DEF DrainAll, DrainNext, killRemaining, KillNext
<1>12. CASE Restart
  BY <1>12 DEF Restart
<1>13. CASE UNCHANGED vars
  BY <1>3, <1>13 DEF vars
<1> QED
  BY <1>1, <1>4, <1>5, <1>6, <1>7, <1>8, <1>9, <1>10, <1>11, <1>12, <1>13
  DEF Next, watchProcess, Jobs

\* A disk appears only under a creation's mkfs.
LEMMA DiskMoves ==
    ASSUME TypeOK, [Next]_vars, NEW k \in Ids, workspace[k] = "absent", workspace'[k] # "absent"
    PROVE  \E v \in VMs : FormatWorkspace(v) /\ vm[v].id = k
<1> USE DEF registryVars, hostVars, TypeOK
<1>1. ASSUME NEW v \in VMs, Create(v), ~FormatWorkspace(v) PROVE FALSE
  BY <1>1 DEF Create, Allocate, MakeRunDir, StatWorkspace, FormatFails, CreateTap,
     Spawn, RecordState, BootFails, AgentAnswers, BecomeRunning, LoseRunning, RollbackReap,
     RollbackRemove, RemoveResources
<1>2. ASSUME NEW v \in VMs, FormatWorkspace(v) PROVE vm[v].id = k
  BY <1>2 DEF FormatWorkspace
<1>3. ASSUME NEW v \in VMs, ProcExit(v) \/ watchProcess(v) PROVE FALSE
  BY <1>3 DEF ProcExit, watchProcess, WatchJudge, WatchRemove, RemoveResources
<1>4. ASSUME NEW j \in Jobs, Delete(j) \/ PurgeWorkspace(j) PROVE FALSE
  BY <1>4 DEF Delete, BeginStop, MarkStopping, Escalate, WaitedExit, CleanupReap, CleanupRemove,
     PurgeWorkspace, RemoveResources
<1>5. ASSUME NEW j, NEW i, NEW purge, GetForDelete(j, i, purge) PROVE FALSE
  BY <1>5 DEF GetForDelete
<1>6. ~ (DrainAll \/ DrainNext \/ killRemaining \/ KillNext \/ Restart)
  BY DEF DrainAll, DrainNext, killRemaining, KillNext, Restart
<1>7. ~ UNCHANGED vars
  BY DEF vars
<1> QED
  BY <1>1, <1>2, <1>3, <1>4, <1>5, <1>6, <1>7 DEF Next, Jobs

\* Whoever reports a purge has just unlinked the disk.
LEMMA ErasedIsAbsent ==
    ASSUME TypeOK, [Next]_vars, NEW k \in Ids, ~erased[k], erased'[k]
    PROVE  workspace'[k] = "absent"
<1> USE DEF registryVars
<1>1. ASSUME NEW j \in Jobs, CleanupRemove(j) PROVE workspace'[k] = "absent"
  <2> DEFINE v == job[j].vm
             i == vm[v].id
  <2>1. PICK fails \in BOOLEAN :
          /\ erased' = IF job[j].purge /\ ~(job[j].purge /\ (Replaced(v) \/ fails))
                       THEN [erased EXCEPT ![i] = TRUE] ELSE erased
          /\ RemoveResources(v, job[j].purge, fails)
    BY <1>1 DEF CleanupRemove
  <2> HIDE DEF v
  <2>2. job[j].purge /\ ~Replaced(v) /\ ~fails /\ k = i
    BY <2>1 DEF TypeOK
  <2>3. workspace' = [workspace EXCEPT ![i] = IF job[j].purge /\ ~fails THEN "absent" ELSE @]
    BY <2>1, <2>2 DEF RemoveResources
  <2> QED
    BY <2>2, <2>3 DEF TypeOK
<1>2. ASSUME NEW j \in Jobs, PurgeWorkspace(j) PROVE workspace'[k] = "absent"
  <2> DEFINE i == job[j].id
  <2>1. \/ UNCHANGED erased
        \/ /\ workspace' = [workspace EXCEPT ![i] = "absent"]
           /\ erased' = [erased EXCEPT ![i] = TRUE]
    BY <1>2 DEF PurgeWorkspace
  <2> HIDE DEF i
  <2> QED
    BY <2>1 DEF TypeOK
<1>3. ASSUME NEW v \in VMs, Create(v) PROVE FALSE
  BY <1>3 DEF Create, Allocate, MakeRunDir, StatWorkspace, FormatWorkspace, FormatFails, CreateTap,
     Spawn, RecordState, BootFails, AgentAnswers, BecomeRunning, LoseRunning, RollbackReap,
     RollbackRemove, TypeOK
<1>4. ASSUME NEW v \in VMs, ProcExit(v) \/ watchProcess(v) PROVE FALSE
  BY <1>4 DEF ProcExit, watchProcess, WatchJudge, WatchRemove
<1>5. ASSUME NEW j \in Jobs, Delete(j), ~CleanupRemove(j) PROVE FALSE
  BY <1>5 DEF Delete, BeginStop, MarkStopping, Escalate, WaitedExit, CleanupReap
<1>6. ASSUME NEW j, NEW i, NEW purge, GetForDelete(j, i, purge) PROVE FALSE
  BY <1>6 DEF GetForDelete
<1>7. ~ (DrainAll \/ DrainNext \/ killRemaining \/ KillNext \/ Restart)
  BY DEF DrainAll, DrainNext, killRemaining, KillNext, Restart
<1>8. ~ UNCHANGED vars
  BY DEF vars
<1> QED
  BY <1>1, <1>2, <1>3, <1>4, <1>5, <1>6, <1>7, <1>8 DEF Next, Jobs

\* A Create is moved on by nobody else while the server lives.
LEMMA CreatorIsOwn ==
    ASSUME TypeOK, [Next]_vars, ~Restart, NEW w \in VMs
    PROVE  creator'[w] = creator[w] \/ Create(w)
<1> DEFINE Goal == creator'[w] = creator[w] \/ Create(w)
<1>1. ASSUME NEW v \in VMs, Create(v) PROVE Goal
  <2>1. CASE v = w
    BY <1>1, <2>1
  <2>2. CASE v # w
    <3>1. creator'[w] = creator[w]
      BY <1>1, <2>2 DEF Create, Allocate, MakeRunDir, StatWorkspace, FormatWorkspace, FormatFails,
         CreateTap, Spawn, RecordState, BootFails, AgentAnswers, BecomeRunning, LoseRunning,
         RollbackReap, RollbackRemove, CreatorStep, TypeOK
    <3> QED
      BY <3>1
  <2> QED
    BY <2>1, <2>2
<1>2. CASE UNCHANGED creator
  BY <1>2
<1>3. ASSUME NEW v \in VMs, ProcExit(v) \/ watchProcess(v) PROVE UNCHANGED creator
  BY <1>3 DEF ProcExit, watchProcess, WatchJudge, WatchRemove
<1>4. ASSUME NEW j, Delete(j) \/ PurgeWorkspace(j) PROVE UNCHANGED creator
  BY <1>4 DEF Delete, BeginStop, MarkStopping, Escalate, WaitedExit, CleanupReap, CleanupRemove,
     PurgeWorkspace
<1>5. ASSUME NEW j, NEW i, NEW purge, GetForDelete(j, i, purge) PROVE UNCHANGED creator
  BY <1>5 DEF GetForDelete
<1>6. CASE DrainAll \/ DrainNext \/ killRemaining \/ KillNext
  BY <1>2, <1>6 DEF DrainAll, DrainNext, killRemaining, KillNext
<1>7. CASE UNCHANGED vars
  BY <1>2, <1>7 DEF vars
<1> QED
  BY <1>1, <1>2, <1>3, <1>4, <1>5, <1>6, <1>7 DEF Next

\* DiskHasMaker: a creation that formats a purged id again has been dropped, so
\* it cannot become running, and its rollback removes what it made.
LEMMA DiskHasMakerStep ==
    ASSUME IInv, DroppedFails, ErasedIsFree, DiskHasMaker, [Next]_vars
    PROVE  DiskHasMaker'
<1> DEFINE Made(v) == \/ creator'[v] \in {"lost", "leaked"}
                      \/ creator'[v] \in Booting /\ vm'[v].isNew
<1> SUFFICES ASSUME NEW k \in Ids, erased'[k], workspace'[k] # "absent"
             PROVE  \E v \in VMs : /\ vm'[v].id = k
                                   /\ creator'[v] # "idle"
                                   /\ serving' => Made(v)
  BY DEF DiskHasMaker, Makes
<1>0. TypeOK
  BY DEF IInv
<1>1. erased[k]
  BY <1>0, ErasedIsAbsent
<1>2. CASE workspace[k] = "absent"
  <2>1. PICK v \in VMs : FormatWorkspace(v) /\ vm[v].id = k
    BY <1>0, <1>2, DiskMoves
  <2>2. creator'[v] = "tap" /\ vm'[v].isNew
    BY <1>0, <2>1 DEF FormatWorkspace, CreatorStep, TypeOK, VMStruct
  <2>3. creator[v] # "idle"
    BY <2>1 DEF FormatWorkspace, CreatorStep
  <2>4. vm'[v].id = k
    BY <1>0, <2>1, <2>3, FieldsKept
  <2> QED
    BY <2>2, <2>4 DEF Booting
<1>3. CASE workspace[k] # "absent"
  <2>1. PICK v \in VMs : /\ vm[v].id = k
                         /\ creator[v] # "idle"
                         /\ serving => Makes(v)
    BY <1>1, <1>3 DEF DiskHasMaker
  <2>2. vm'[v].id = k /\ creator'[v] # "idle"
    BY <1>0, <2>1, CreatorMoves, FieldsKept
  <2>3. ASSUME serving' PROVE Made(v)
    <3>1. CASE Restart
      <4>1. creator'[v] = "lost"
        BY <2>1, <3>1 DEF Restart
      <4> QED
        BY <4>1
    <3>2. CASE ~Restart
      <4>1. Makes(v)
        BY <2>1, <2>3, <3>2, ServesSince
      <4>2. vm[v].isNew => vm'[v].isNew
        BY <1>0, <2>1, <3>2, FieldsKept
      <4>3. CASE creator'[v] = creator[v]
        BY <4>1, <4>2, <4>3 DEF Makes
      <4>4. CASE Create(v) /\ creator[v] \in {"lost", "leaked"}
        BY <4>4 DEF Create, Allocate, MakeRunDir, StatWorkspace, FormatWorkspace, FormatFails,
           CreateTap, Spawn, RecordState, BootFails, AgentAnswers, BecomeRunning, LoseRunning,
           RollbackReap, RollbackRemove, CreatorStep
      <4>5. CASE RollbackRemove(v) /\ vm[v].isNew
        <5>1. byID[k] = None
          BY <1>1 DEF ErasedIsFree
        <5>2. PICK fails \in BOOLEAN :
                /\ creator' = [creator EXCEPT ![v] = IF fails /\ ~Replaced(v) THEN "leaked" ELSE "failed"]
                /\ RemoveResources(v, TRUE, fails)
          BY <4>5 DEF RollbackRemove, CreatorStep
        <5>3. ~Replaced(v)
          BY <2>1, <5>1 DEF Replaced
        <5>4. workspace' = [workspace EXCEPT ![k] = IF ~fails THEN "absent" ELSE @]
          BY <2>1, <5>2, <5>3 DEF RemoveResources
        <5>5. fails
          BY <1>0, <5>4 DEF TypeOK
        <5>6. creator'[v] = "leaked"
          BY <1>0, <5>2, <5>3, <5>5 DEF TypeOK
        <5> QED
          BY <5>6
      <4>6. CASE Create(v) /\ creator[v] \in Booting /\ ~RollbackRemove(v)
        <5>1. ~Registered(v)
          BY <1>1, <2>1, RegistryConstants DEF Registered, ErasedIsFree
        <5>2. Leaving(v)
          BY <2>1, <2>3, <3>2, <4>6, <5>1, ServesSince DEF DroppedFails
        <5>3. ~BecomeRunning(v)
          BY <5>2, NoWayBack DEF BecomeRunning
        <5>4. ~ \E i \in Ids : Allocate(v, i)
          BY <2>1 DEF Allocate, CreatorStep
        <5>5. creator'[v] \in Booting
          BY <1>0, <4>6, <5>3, <5>4 DEF Create, MakeRunDir, StatWorkspace, FormatWorkspace,
             FormatFails, CreateTap, Spawn, RecordState, BootFails, AgentAnswers, LoseRunning,
             RollbackReap, CreatorStep, TypeOK, Booting
        <5>6. vm[v].isNew
          BY <4>1, <4>6 DEF Makes, Booting
        <5> QED
          BY <4>2, <5>5, <5>6
      <4>7. creator[v] \in Booting => vm[v].isNew
        BY <4>1 DEF Makes, Booting
      <4>8. RollbackRemove(v) => creator[v] \in Booting
        BY DEF RollbackRemove, Booting
      <4>9. creator[v] \in {"lost", "leaked"} \cup Booting
        BY <4>1 DEF Makes
      <4> QED
        BY <1>0, <3>2, <4>3, <4>4, <4>5, <4>6, <4>7, <4>8, <4>9, CreatorIsOwn
    <3> QED
      BY <3>1, <3>2
  <2> QED
    BY <2>1, <2>2, <2>3
<1> QED
  BY <1>2, <1>3

-----------------------------------------------------------------------------
(* The two theorems.                                                       *)

\* An empty registry, with disks but no machine, satisfies every part.
LEMMA ServesInit == Init => ServesInv
<1> SUFFICES ASSUME Init PROVE ServesInv
  OBVIOUS
<1>1. IInv
  BY IndInit
<1>2. ProcessKnown
  BY DEF Init, ProcessKnown
<1>3. DeletesLeave /\ NobodyDrains
  BY DEF Init, DeletesLeave, NobodyDrains, IdleJob, Jobs
<1>4. DroppedFails
  BY DEF Init, DroppedFails, Booting
<1>5. ErasedIsFree /\ DiskHasMaker
  BY DEF Init, ErasedIsFree, DiskHasMaker
<1> QED
  BY <1>1, <1>2, <1>3, <1>4, <1>5 DEF ServesInv

\* Every step keeps every part.
LEMMA ServesStep == ServesInv /\ [Next]_vars => ServesInv'
<1> SUFFICES ASSUME ServesInv, [Next]_vars PROVE ServesInv'
  OBVIOUS
<1> USE DEF ServesInv
<1>1. IInv'
  BY IndStep
<1>2. ProcessKnown' /\ DeletesLeave' /\ NobodyDrains'
  BY ProcessKnownStep, DeletesLeaveStep, NobodyDrainsStep
<1>3. DroppedFails'
  BY DroppedFailsStep
<1>4. ErasedIsFree' /\ DiskHasMaker'
  BY ErasedIsFreeStep, DiskHasMakerStep
<1> QED
  BY <1>1, <1>2, <1>3, <1>4

\* No firecracker outlives the record of it while the server serves, but under
\* a Create that will roll it back or after the server's end (reap's promise).
THEOREM NoOrphan == Spec => []NoOrphanProcess
<1>1. ServesInv => NoOrphanProcess
  <2> SUFFICES ASSUME ServesInv, NEW v \in VMs, serving, proc[v] = "up", ~Registered(v)
               PROVE  creator[v] \in {"record", "wait", "run", "reap", "lost"}
    BY DEF NoOrphanProcess
  <2>1. creator[v] \in {"record", "wait", "run", "reap", "ok", "lost"}
    BY DEF ServesInv, ProcessKnown
  <2>2. creator[v] # "ok"
    BY DEF ServesInv, DroppedFails
  <2> QED
    BY <2>1, <2>2
<1> QED
  BY ServesInit, ServesStep, <1>1, PTL DEF Spec

\* A disk reported purged does not come back with a creation that raced the
\* DELETE (cleanup's purge argument in Create's rollback).
THEOREM PurgedStaysPurged == Spec => []ErasedStaysErased
<1>1. ServesInv => ErasedStaysErased
  <2> SUFFICES ASSUME ServesInv, NEW i \in Ids, serving, erased[i],
                      \A v \in VMs : vm[v].id = i => creator[v] \in {"ok", "failed"}
               PROVE  workspace[i] = "absent"
    BY DEF ErasedStaysErased
  <2>1. SUFFICES ASSUME workspace[i] # "absent" PROVE FALSE
    OBVIOUS
  <2>2. PICK v \in VMs : vm[v].id = i /\ Makes(v)
    BY <2>1 DEF ServesInv, DiskHasMaker
  <2> QED
    BY <2>2 DEF Makes, Booting
<1> QED
  BY ServesInit, ServesStep, <1>1, PTL DEF Spec

-----------------------------------------------------------------------------
(* What a step may never do: take the disk of a running machine, lose what *)
(* a person wrote unasked, or leave the next Sweep a firecracker it cannot *)
(* find.                                                                   *)

Laying == {"stat", "mkfs", "tap", "spawn", "record"}
Cleaning == {"begin", "mark", "ladder", "reap", "remove"}

\* A purge is a DELETE's, and of the id the DELETE was for (GetForDelete).
PurgeAsked ==
    \A j \in Jobs :
        /\ job[j].purge => j \in Deleters
        /\ job[j].pc = "purge" => job[j].purge
        /\ job[j].purge /\ job[j].pc \in Cleaning =>
              /\ job[j].vm \in VMs
              /\ creator[job[j].vm] # "idle"
              /\ vm[job[j].vm].id = job[j].id

\* Between its mkdir and its record a registered machine has its run directory,
\* and the vm.json of a registered machine that recorded itself is there.
DirKept ==
    \A v \in VMs :
        /\ Registered(v) /\ creator[v] \in Laying => runDir[vm[v].id] # NoDir
        /\ Registered(v) /\ recorded[vm[v].id] = v => runDir[vm[v].id] = v

\* Whoever is still creating a machine of an id that has gone to another is on
\* its way out.
RivalsLeave ==
    \A v, w \in VMs :
        Registered(v) /\ w # v /\ vm[w].id = vm[v].id /\ creator[w] \in Booting => Leaving(w)

\* The disk a registered machine's Create makes, or has made, holds no data.
OwnDisk ==
    \A v \in VMs :
        /\ Registered(v) /\ creator[v] \in Booting
        /\ creator[v] = "mkfs" \/ vm[v].isNew
        => workspace[vm[v].id] # "data"

\* A machine is running when its Create has returned it.
RunningReturned == \A v \in VMs : vm[v].state = "running" => creator[v] = "ok"

KeepsInv == ServesInv /\ PurgeAsked /\ DirKept /\ RivalsLeave /\ OwnDisk /\ RunningReturned

\* What a cleanup takes away is nobody's: whoever is found under an id after it
\* keeps the disk and the run directory of that id (cleanup's check).
LEMMA RemovedIsNobodys ==
    ASSUME TypeOK, NEW u, NEW purge \in BOOLEAN, NEW fails \in BOOLEAN,
           RemoveResources(u, purge, fails),
           NEW k \in Ids, NEW w \in VMs, byID'[k] = w
    PROVE  byID[k] = w /\ runDir'[k] = runDir[k] /\ workspace'[k] = workspace[k]
<1> DEFINE i == vm[u].id
<1>1. byID'[k] = IF k = i /\ byID[k] = u THEN None ELSE byID[k]
  BY DEF RemoveResources, releaseLocked
<1>2. \/ Replaced(u) /\ UNCHANGED <<runDir, workspace>>
      \/ /\ ~Replaced(u)
         /\ runDir' = [runDir EXCEPT ![i] = NoDir]
         /\ workspace' = [workspace EXCEPT ![i] = IF purge /\ ~fails THEN "absent" ELSE @]
  BY DEF RemoveResources
<1>3. Replaced(u) <=> byID[i] \notin {u, None}
  BY DEF Replaced
<1> HIDE DEF i
<1>4. byID[k] = w /\ w # None /\ ~(k = i /\ w = u)
  BY <1>1, RegistryConstants
<1>5. CASE k = i
  BY <1>2, <1>3, <1>4, <1>5
<1>6. CASE k # i
  BY <1>2, <1>4, <1>6 DEF TypeOK
<1> QED
  BY <1>5, <1>6

\* The id of a registered machine is one, and the machine's Create has begun.
LEMMA RegisteredIsSpent ==
    ASSUME IInv, NEW w \in VMs, Registered(w)
    PROVE  vm[w].id \in Ids /\ byID[vm[w].id] = w /\ creator[w] # "idle"
  BY DEF IInv, TypeOK, VMStruct, Registered, Unspent

\* Only the next process counts a restart.
LEMMA OnlyRestartCounts ==
    ASSUME [Next]_vars, restarts' # restarts
    PROVE  Restart
<1>1. ASSUME NEW v \in VMs, Create(v) PROVE FALSE
  BY <1>1 DEF Create, Allocate, MakeRunDir, StatWorkspace, FormatWorkspace, FormatFails, CreateTap,
     Spawn, RecordState, BootFails, AgentAnswers, BecomeRunning, LoseRunning, RollbackReap,
     RollbackRemove
<1>2. ASSUME NEW v \in VMs, ProcExit(v) \/ watchProcess(v) PROVE FALSE
  BY <1>2 DEF ProcExit, watchProcess, WatchJudge, WatchRemove
<1>3. ASSUME NEW j, Delete(j) \/ PurgeWorkspace(j) PROVE FALSE
  BY <1>3 DEF Delete, BeginStop, MarkStopping, Escalate, WaitedExit, CleanupReap, CleanupRemove,
     PurgeWorkspace
<1>4. ASSUME NEW j, NEW i, NEW purge, GetForDelete(j, i, purge) PROVE FALSE
  BY <1>4 DEF GetForDelete
<1>5. ~ (DrainAll \/ DrainNext \/ killRemaining \/ KillNext)
  BY DEF DrainAll, DrainNext, killRemaining, KillNext
<1>6. ~ UNCHANGED vars
  BY DEF vars
<1> QED
  BY <1>1, <1>2, <1>3, <1>4, <1>5, <1>6 DEF Next

\* A machine becomes running, and the owner of a disk, by its own Create.
LEMMA StructMoves ==
    ASSUME TypeOK, [Next]_vars, NEW w \in VMs
    PROVE  /\ vm'[w].isNew => vm[w].isNew \/ FormatWorkspace(w)
           /\ vm'[w].state = "running" => vm[w].state = "running" \/ BecomeRunning(w)
<1> DEFINE Goal == /\ vm'[w].isNew => vm[w].isNew \/ FormatWorkspace(w)
                   /\ vm'[w].state = "running" => vm[w].state = "running" \/ BecomeRunning(w)
<1> USE DEF registryVars, hostVars, drainVars
<1>1. ASSUME NEW v \in VMs, NEW i \in Ids, Allocate(v, i) PROVE Goal
  <2>1. vm' = [vm EXCEPT ![v] = NewVM(i, freeSlot)]
    BY <1>1 DEF Allocate
  <2> QED
    BY <2>1 DEF TypeOK, NewVM
<1>2. ASSUME NEW v \in VMs, FormatWorkspace(v) PROVE Goal
  <2>1. CASE v = w
    BY <1>2, <2>1 DEF FormatWorkspace, TypeOK, VMStruct
  <2>2. CASE v # w
    BY <1>2, <2>2 DEF FormatWorkspace, TypeOK, VMStruct
  <2> QED
    BY <2>1, <2>2
<1>3. ASSUME NEW v \in VMs, Spawn(v) PROVE Goal
  BY <1>3 DEF Spawn, TypeOK, VMStruct
<1>4. ASSUME NEW v, NEW to \in {"stopping", "failed"}, SetState(v, to) PROVE Goal
  BY <1>4 DEF SetState, TypeOK, VMStruct
<1>5. ASSUME NEW v \in VMs, BecomeRunning(v) PROVE Goal
  <2>1. vm' = vm \/ vm' = [vm EXCEPT ![v].state = "running"]
    BY <1>5 DEF BecomeRunning, SetState
  <2>2. vm'[w].isNew = vm[w].isNew
    BY <2>1 DEF TypeOK, VMStruct
  <2>3. v # w => vm'[w].state = vm[w].state
    BY <2>1 DEF TypeOK, VMStruct
  <2> QED
    BY <1>5, <2>2, <2>3
<1>6. ASSUME NEW v \in VMs, WatchJudge(v) PROVE Goal
  <2>1. UNCHANGED vm \/ SetState(v, "failed")
    BY <1>6 DEF WatchJudge
  <2> QED
    BY <1>4, <2>1
<1>7. ASSUME NEW v \in VMs, Create(v) \/ ProcExit(v) \/ watchProcess(v),
             ~(\E i \in Ids : Allocate(v, i)), ~FormatWorkspace(v), ~Spawn(v), ~BecomeRunning(v), ~WatchJudge(v)
      PROVE  UNCHANGED vm
  BY <1>7 DEF Create, MakeRunDir, StatWorkspace, FormatFails, CreateTap, RecordState,
     BootFails, AgentAnswers, LoseRunning, RollbackReap, RollbackRemove, ProcExit,
     watchProcess, WatchRemove
<1>8. ASSUME NEW j \in Jobs, BeginStop(j) PROVE Goal
  <2>1. SetState(job[j].vm, "stopping")
    BY <1>8 DEF BeginStop
  <2> QED
    BY <1>4, <2>1
<1>9. ASSUME NEW j \in Jobs, MarkStopping(j) PROVE Goal
  BY <1>9 DEF MarkStopping, TypeOK, VMStruct
<1>10. ASSUME NEW j \in Jobs, Delete(j) \/ PurgeWorkspace(j), ~BeginStop(j), ~MarkStopping(j)
       PROVE  UNCHANGED vm
  BY <1>10 DEF Delete, Escalate, WaitedExit, CleanupReap, CleanupRemove, PurgeWorkspace
<1>11. ASSUME NEW j, NEW i, NEW purge, GetForDelete(j, i, purge) PROVE UNCHANGED vm
  BY <1>11 DEF GetForDelete
<1>12. CASE DrainAll \/ DrainNext \/ killRemaining \/ KillNext
  <2>1. UNCHANGED vm
    BY <1>12 DEF DrainAll, DrainNext, killRemaining, KillNext
  <2> QED
    BY <2>1
<1>13. CASE Restart
  BY <1>13 DEF Restart, Unborn
<1>14. CASE UNCHANGED vars
  BY <1>14 DEF vars
<1> QED
  BY <1>1, <1>2, <1>3, <1>5, <1>6, <1>7, <1>8, <1>9, <1>10, <1>11, <1>12, <1>13, <1>14
  DEF Next, Jobs

\* A disk comes to hold data when its machine becomes running.
LEMMA DataMoves ==
    ASSUME TypeOK, [Next]_vars, NEW k \in Ids, workspace[k] # "data", workspace'[k] = "data"
    PROVE  \E v \in VMs : BecomeRunning(v) /\ vm[v].id = k
<1> USE DEF registryVars, hostVars, TypeOK
<1>1. ASSUME NEW v \in VMs, Create(v), ~BecomeRunning(v) PROVE FALSE
  BY <1>1 DEF Create, Allocate, MakeRunDir, StatWorkspace, FormatWorkspace, FormatFails, CreateTap,
     Spawn, RecordState, BootFails, AgentAnswers, LoseRunning, RollbackReap, RollbackRemove,
     RemoveResources
<1>2. ASSUME NEW v \in VMs, BecomeRunning(v) PROVE vm[v].id = k
  BY <1>2 DEF BecomeRunning
<1>3. ASSUME NEW v \in VMs, ProcExit(v) \/ watchProcess(v) PROVE FALSE
  BY <1>3 DEF ProcExit, watchProcess, WatchJudge, WatchRemove, RemoveResources
<1>4. ASSUME NEW j \in Jobs, Delete(j) \/ PurgeWorkspace(j) PROVE FALSE
  BY <1>4 DEF Delete, BeginStop, MarkStopping, Escalate, WaitedExit, CleanupReap, CleanupRemove,
     PurgeWorkspace, RemoveResources
<1>5. ASSUME NEW j, NEW i, NEW purge, GetForDelete(j, i, purge) PROVE FALSE
  BY <1>5 DEF GetForDelete
<1>6. ~ (DrainAll \/ DrainNext \/ killRemaining \/ KillNext \/ Restart)
  BY DEF DrainAll, DrainNext, killRemaining, KillNext, Restart
<1>7. ~ UNCHANGED vars
  BY DEF vars
<1> QED
  BY <1>1, <1>2, <1>3, <1>4, <1>5, <1>6, <1>7 DEF Next, Jobs

\* Whoever is registered after a step was so before it, under the same id, or is
\* its Allocate's.
LEMMA RegisteredMoves ==
    ASSUME IInv, [Next]_vars, ~Restart, NEW w \in VMs, Registered(w)'
    PROVE  \/ \E i \in Ids : Allocate(w, i)
           \/ /\ Registered(w) /\ creator[w] # "idle"
              /\ vm[w].id \in Ids /\ vm'[w].id = vm[w].id /\ byID'[vm[w].id] = w
<1>0. TypeOK
  BY DEF IInv
<1>1. CASE creator[w] = "idle"
  <2>1. creator'[w] # "idle"
    BY IndStep DEF IInv, Unspent, Registered
  <2> QED
    BY <1>0, <1>1, <2>1, CreatorMoves
<1>2. CASE creator[w] # "idle"
  <2>1. Registered(w)
    BY <1>2, WhoReleases
  <2> QED
    BY <1>0, <1>2, <2>1, RegisteredIsSpent, FieldsKept DEF Registered
<1> QED
  BY <1>1, <1>2

\* Sweep leaves nobody registered.
LEMMA NobodyAfterRestart ==
    ASSUME TypeOK, Restart, NEW w \in VMs
    PROVE  ~Registered(w)'
<1>1. vm'[w].id \in Ids \cup {None}
  BY DEF Restart, Unborn, TypeOK, VMStruct
<1>2. \A i \in Ids : byID'[i] = None
  BY DEF Restart
<1> QED
  BY <1>1, <1>2, RegistryConstants DEF Registered

\* A Create comes to lay out its machine by its mkdir.
LEMMA LayingMoves ==
    ASSUME TypeOK, [Next]_vars, ~Restart, NEW w \in VMs, creator'[w] \in Laying
    PROVE  creator[w] \in Laying \/ MakeRunDir(w)
<1>1. CASE creator'[w] = creator[w]
  BY <1>1
<1>2. ASSUME Create(w), ~MakeRunDir(w) PROVE creator[w] \in Laying
  <2>1. ASSUME NEW i \in Ids, Allocate(w, i) PROVE FALSE
    BY <2>1 DEF Allocate, CreatorStep, TypeOK, Laying
  <2>2. CASE StatWorkspace(w) \/ FormatWorkspace(w) \/ CreateTap(w) \/ Spawn(w) \/ RecordState(w)
             \/ FormatFails(w)
    BY <2>2 DEF StatWorkspace, FormatWorkspace, CreateTap, Spawn, RecordState, FormatFails,
       CreatorStep, Laying
  <2>3. ~ (BootFails(w) \/ AgentAnswers(w) \/ BecomeRunning(w) \/ LoseRunning(w)
           \/ RollbackReap(w) \/ RollbackRemove(w))
    BY DEF BootFails, AgentAnswers, BecomeRunning, LoseRunning, RollbackReap, RollbackRemove,
       CreatorStep, TypeOK, Laying
  <2> QED
    BY <1>2, <2>1, <2>2, <2>3 DEF Create
<1> QED
  BY <1>1, <1>2, CreatorIsOwn

\* While the server lives, the run directory of an id somebody holds stays, and
\* so does its vm.json unless another machine of the id writes one.
LEMMA DirMoves ==
    ASSUME TypeOK, [Next]_vars, ~Restart, NEW k \in Ids, NEW w \in VMs, byID'[k] = w
    PROVE  /\ runDir[k] # NoDir => runDir'[k] # NoDir
           /\ /\ recorded'[k] = w
              /\ recorded[k] = w => runDir[k] = w
              /\ RecordState(w) => runDir[k] # NoDir
              => runDir'[k] = w
<1> DEFINE Goal == /\ runDir[k] # NoDir => runDir'[k] # NoDir
                   /\ /\ recorded'[k] = w
                      /\ recorded[k] = w => runDir[k] = w
                      /\ RecordState(w) => runDir[k] # NoDir
                      => runDir'[k] = w
<1> USE DEF hostVars
<1>1. CASE runDir'[k] = runDir[k] /\ recorded'[k] = recorded[k]
  BY <1>1
<1>2. ASSUME NEW v \in VMs, MakeRunDir(v) PROVE Goal
  <2> DEFINE i == vm[v].id
  <2>1. runDir' = [runDir EXCEPT ![i] = IF @ = NoDir THEN NoFile ELSE @] /\ UNCHANGED recorded
    BY <1>2 DEF MakeRunDir
  <2>2. w # NoDir
    BY RunDirConstants
  <2> HIDE DEF i
  <2> QED
    BY <2>1, <2>2 DEF TypeOK, NoDir, NoFile
<1>3. ASSUME NEW v \in VMs, RecordState(v) PROVE Goal
  <2> DEFINE i == vm[v].id
  <2>1. \/ /\ runDir' = [runDir EXCEPT ![i] = IF @ = NoDir THEN NoDir ELSE v]
           /\ recorded' = [recorded EXCEPT ![i] = v]
        \/ /\ runDir' = [runDir EXCEPT ![i] = IF @ = NoDir THEN NoDir ELSE NoFile]
           /\ recorded' = [recorded EXCEPT ![i] = None]
        \/ UNCHANGED <<runDir, recorded>>
    BY <1>3 DEF RecordState
  <2>2. v # NoDir /\ w # None /\ NoFile # NoDir
    BY RunDirConstants, RegistryConstants DEF NoDir, NoFile
  <2> HIDE DEF i, NoDir, NoFile
  <2>3. CASE k # i
    <3>1. runDir'[k] = runDir[k] /\ recorded'[k] = recorded[k]
      BY <2>1, <2>3 DEF TypeOK
    <3> QED
      BY <1>1, <3>1
  <2>4. CASE k = i
    <3>1. runDir[k] # NoDir => runDir'[k] # NoDir
      BY <2>1, <2>2, <2>4 DEF TypeOK
    <3>2. ASSUME recorded'[k] = w, recorded[k] = w => runDir[k] = w,
                 RecordState(w) => runDir[k] # NoDir
          PROVE  runDir'[k] = w
      <4>1. CASE UNCHANGED <<runDir, recorded>>
        BY <3>2, <4>1
      <4>2. CASE /\ runDir' = [runDir EXCEPT ![i] = IF @ = NoDir THEN NoDir ELSE v]
                 /\ recorded' = [recorded EXCEPT ![i] = v]
        <5>1. v = w
          BY <2>4, <3>2, <4>2 DEF TypeOK
        <5> QED
          BY <1>3, <2>4, <3>2, <4>2, <5>1 DEF TypeOK
      <4>3. CASE recorded' = [recorded EXCEPT ![i] = None]
        BY <2>2, <2>4, <3>2, <4>3 DEF TypeOK
      <4> QED
        BY <2>1, <4>1, <4>2, <4>3
    <3> QED
      BY <3>1, <3>2
  <2> QED
    BY <2>3, <2>4
<1>4. ASSUME NEW v \in VMs, NEW i \in Ids, Allocate(v, i) PROVE Goal
  <2>1. UNCHANGED runDir /\ recorded' = [recorded EXCEPT ![i] = None]
    BY <1>4 DEF Allocate
  <2> QED
    BY <2>1, RegistryConstants DEF TypeOK
<1>5. ASSUME NEW u, NEW purge \in BOOLEAN, NEW fails \in BOOLEAN,
             RemoveResources(u, purge, fails), UNCHANGED recorded
      PROVE  Goal
  BY <1>1, <1>5, RemovedIsNobodys
<1>6. ASSUME NEW v \in VMs, RollbackRemove(v) PROVE Goal
  <2>1. PICK fails \in BOOLEAN : RemoveResources(v, vm[v].isNew, fails)
    BY <1>6 DEF RollbackRemove
  <2>2. vm[v].isNew \in BOOLEAN /\ UNCHANGED recorded
    BY <1>6 DEF TypeOK, VMStruct, RollbackRemove
  <2> QED
    BY <1>5, <2>1, <2>2
<1>7. ASSUME NEW v \in VMs, WatchRemove(v) PROVE Goal
  <2>1. RemoveResources(v, FALSE, FALSE) /\ UNCHANGED recorded
    BY <1>7 DEF WatchRemove
  <2> QED
    BY <1>5, <2>1
<1>8. ASSUME NEW j \in Jobs, CleanupRemove(j) PROVE Goal
  <2>1. PICK fails \in BOOLEAN :
          RemoveResources(job[j].vm, job[j].purge, fails) /\ UNCHANGED recorded
    BY <1>8 DEF CleanupRemove
  <2>2. job[j].purge \in BOOLEAN
    BY DEF TypeOK, JobStruct
  <2> QED
    BY <1>5, <2>1, <2>2
<1>9. ASSUME NEW v \in VMs, Create(v), ~MakeRunDir(v), ~RecordState(v), ~RollbackRemove(v),
             ~ \E i \in Ids : Allocate(v, i)
      PROVE  UNCHANGED <<runDir, recorded>>
  BY <1>9 DEF Create, StatWorkspace, FormatWorkspace, FormatFails, CreateTap,
     Spawn, BootFails, AgentAnswers, BecomeRunning, LoseRunning, RollbackReap
<1>10. ASSUME NEW v \in VMs, ProcExit(v) \/ WatchJudge(v) PROVE UNCHANGED <<runDir, recorded>>
  BY <1>10 DEF ProcExit, WatchJudge
<1>11. ASSUME NEW j, Delete(j), ~CleanupRemove(j) PROVE UNCHANGED <<runDir, recorded>>
  BY <1>11 DEF Delete, BeginStop, MarkStopping, Escalate, WaitedExit, CleanupReap
<1>12. ASSUME NEW j, PurgeWorkspace(j) PROVE UNCHANGED <<runDir, recorded>>
  BY <1>12 DEF PurgeWorkspace
<1>13. ASSUME NEW j, NEW i, NEW purge, GetForDelete(j, i, purge)
       PROVE  UNCHANGED <<runDir, recorded>>
  BY <1>13 DEF GetForDelete
<1>14. CASE DrainAll \/ DrainNext \/ killRemaining \/ KillNext
  <2>1. UNCHANGED <<runDir, recorded>>
    BY <1>14 DEF DrainAll, DrainNext, killRemaining, KillNext
  <2> QED
    BY <1>1, <2>1
<1>15. CASE UNCHANGED vars
  BY <1>1, <1>15 DEF vars
<1> HIDE DEF Goal
<1>16. Goal
  <2>1. ASSUME NEW v \in VMs, Create(v) PROVE Goal
    BY <1>1, <1>2, <1>3, <1>4, <1>6, <1>9, <2>1 DEF Goal
  <2> QED
    BY <1>1, <1>7, <1>8, <1>10, <1>11, <1>12, <1>13, <1>14, <1>15, <2>1
    DEF Next, watchProcess, Jobs, Goal
<1> QED
  BY <1>16 DEF Goal

\* DirKept: mkdir makes the directory, writeStateFile its vm.json, and a cleanup
\* takes them from nobody.
LEMMA DirKeptStep ==
    ASSUME IInv, DirKept, [Next]_vars
    PROVE  DirKept'
<1>0. TypeOK
  BY DEF IInv
<1> SUFFICES ASSUME NEW w \in VMs, Registered(w)'
             PROVE  /\ creator'[w] \in Laying => runDir'[vm'[w].id] # NoDir
                    /\ recorded'[vm'[w].id] = w => runDir'[vm'[w].id] = w
  BY DEF DirKept
<1>1. ~Restart
  BY <1>0, NobodyAfterRestart
<1>2. ASSUME NEW i \in Ids, Allocate(w, i)
      PROVE  creator'[w] \notin Laying /\ recorded'[vm'[w].id] # w
  <2>1. /\ creator[w] = "idle" /\ creator' = [creator EXCEPT ![w] = "mkdir"]
        /\ vm' = [vm EXCEPT ![w] = NewVM(i, freeSlot)]
        /\ recorded' = [recorded EXCEPT ![i] = None]
    BY <1>2 DEF Allocate, CreatorStep
  <2>2. creator'[w] = "mkdir" /\ vm'[w].id = i /\ recorded'[i] = None
    BY <1>0, <2>1 DEF TypeOK, NewVM
  <2> QED
    BY <2>2, RegistryConstants DEF Laying
<1>3. CASE ~ \E i \in Ids : Allocate(w, i)
  <2> DEFINE k == vm[w].id
  <2>1. Registered(w) /\ k \in Ids /\ vm'[w].id = k /\ byID'[k] = w
    BY <1>1, <1>3, RegisteredMoves
  <2>2. /\ creator[w] \in Laying => runDir[k] # NoDir
        /\ recorded[k] = w => runDir[k] = w
    BY <2>1 DEF DirKept
  <2>3. MakeRunDir(w) => runDir'[k] # NoDir
    BY <1>0, <2>1 DEF MakeRunDir, TypeOK, NoDir, NoFile
  <2>4. RecordState(w) => creator[w] \in Laying
    BY DEF RecordState, CreatorStep, Laying
  <2> HIDE DEF k
  <2>5. /\ runDir[k] # NoDir => runDir'[k] # NoDir
        /\ recorded'[k] = w => runDir'[k] = w
    BY <1>0, <1>1, <2>1, <2>2, <2>4, DirMoves
  <2>6. creator'[w] \in Laying => runDir'[k] # NoDir
    BY <1>0, <1>1, <2>2, <2>3, <2>5, LayingMoves
  <2> QED
    BY <2>1, <2>5, <2>6
<1> QED
  BY <1>2, <1>3

\* RivalsLeave: an id is given out again when the registry has let go of its
\* machine, and by then the creation of that machine cannot succeed.
LEMMA RivalsLeaveStep ==
    ASSUME ServesInv, RivalsLeave, [Next]_vars
    PROVE  RivalsLeave'
<1>0. IInv /\ TypeOK
  BY DEF ServesInv, IInv
<1> SUFFICES ASSUME NEW v \in VMs, NEW w \in VMs, Registered(v)', w # v,
                    vm'[w].id = vm'[v].id, creator'[w] \in Booting
             PROVE  vm'[w].state \in {"stopping", "failed"}
  BY DEF RivalsLeave, Leaving
<1>1. ~Restart
  BY <1>0, NobodyAfterRestart
<1>2. creator[w] # "idle"
  <2>1. SUFFICES ASSUME creator[w] = "idle" PROVE FALSE
    OBVIOUS
  <2>2. PICK i \in Ids : Allocate(w, i)
    BY <1>0, <2>1, CreatorMoves DEF Booting
  <2>3. vm' = [vm EXCEPT ![w] = NewVM(i, freeSlot)] /\ byID' = [byID EXCEPT ![i] = w]
    BY <2>2 DEF Allocate
  <2>4. vm'[w].id = i /\ byID'[i] = w
    BY <1>0, <2>3 DEF TypeOK, NewVM
  <2> QED
    BY <2>4 DEF Registered
<1>3. creator[w] \in Booting /\ vm'[w].id = vm[w].id
  BY <1>0, <1>2, CreatorMoves, FieldsKept
<1>4. Leaving(w)
  <2>1. ASSUME NEW i \in Ids, Allocate(v, i) PROVE Leaving(w)
    <3>1. serving /\ byID[i] = None /\ vm' = [vm EXCEPT ![v] = NewVM(i, freeSlot)]
      BY <2>1 DEF Allocate
    <3>2. vm'[v].id = i
      BY <1>0, <3>1 DEF TypeOK, NewVM
    <3>3. ~Registered(w)
      BY <1>3, <3>1, <3>2, RegistryConstants DEF Registered
    <3> QED
      BY <1>3, <3>1, <3>3 DEF ServesInv, DroppedFails
  <2>2. CASE ~ \E i \in Ids : Allocate(v, i)
    BY <1>0, <1>1, <1>3, <2>2, RegisteredMoves DEF RivalsLeave
  <2> QED
    BY <2>1, <2>2
<1> QED
  BY <1>0, <1>1, <1>2, <1>4, LeavingKept DEF Leaving

\* OwnDisk: a disk that was absent, or has just been made, comes to hold data by
\* a machine of its id that becomes running, and no other can.
LEMMA OwnDiskStep ==
    ASSUME ServesInv, RivalsLeave, OwnDisk, [Next]_vars
    PROVE  OwnDisk'
<1>0. IInv /\ TypeOK
  BY DEF ServesInv, IInv
<1> SUFFICES ASSUME NEW v \in VMs, Registered(v)', creator'[v] \in Booting,
                    creator'[v] = "mkfs" \/ vm'[v].isNew
             PROVE  workspace'[vm'[v].id] # "data"
  BY DEF OwnDisk
<1>1. ~Restart
  BY <1>0, NobodyAfterRestart
<1>2. ASSUME NEW i \in Ids, Allocate(v, i) PROVE FALSE
  <2>1. /\ creator[v] = "idle" /\ creator' = [creator EXCEPT ![v] = "mkdir"]
        /\ vm' = [vm EXCEPT ![v] = NewVM(i, freeSlot)]
    BY <1>2 DEF Allocate, CreatorStep
  <2>2. creator'[v] = "mkdir" /\ ~vm'[v].isNew
    BY <1>0, <2>1 DEF TypeOK, NewVM
  <2> QED
    BY <2>2
<1> DEFINE k == vm[v].id
<1>3. /\ Registered(v) /\ creator[v] # "idle"
      /\ k \in Ids /\ vm'[v].id = k
  BY <1>0, <1>1, <1>2, RegisteredMoves
<1>4. creator[v] \in Booting
  BY <1>0, <1>3, CreatorMoves
<1>5. (creator[v] = "mkfs" \/ vm[v].isNew) => workspace[k] # "data"
  BY <1>3, <1>4 DEF OwnDisk
<1>6. CASE FormatWorkspace(v)
  <2>1. workspace' = [workspace EXCEPT ![k] = "blank"]
    BY <1>6 DEF FormatWorkspace
  <2> HIDE DEF k
  <2>2. workspace'[k] = "blank"
    BY <1>0, <1>3, <2>1 DEF TypeOK
  <2> QED
    BY <1>3, <2>2
<1>7. CASE StatWorkspace(v) /\ creator'[v] = "mkfs"
  <2>1. workspace[k] = "absent" /\ UNCHANGED workspace
    BY <1>0, <1>7 DEF StatWorkspace, CreatorStep, TypeOK, hostVars
  <2> QED
    BY <1>3, <2>1
<1>8. CASE ~FormatWorkspace(v) /\ ~(StatWorkspace(v) /\ creator'[v] = "mkfs")
  <2>1. creator'[v] = "mkfs" => creator[v] = "mkfs"
    <3>1. ASSUME Create(v), creator'[v] = "mkfs" PROVE StatWorkspace(v)
      BY <1>0, <1>2, <3>1 DEF Create, MakeRunDir, FormatWorkspace, FormatFails, CreateTap,
         Spawn, RecordState, BootFails, AgentAnswers, BecomeRunning, LoseRunning, RollbackReap,
         RollbackRemove, CreatorStep, TypeOK
    <3> QED
      BY <1>0, <1>1, <1>8, <3>1, CreatorIsOwn
  <2>2. vm'[v].isNew => vm[v].isNew
    BY <1>0, <1>8, StructMoves
  <2>3. workspace[k] # "data"
    BY <1>5, <2>1, <2>2
  <2>4. ASSUME workspace'[k] = "data" PROVE FALSE
    <3>1. PICK u \in VMs : BecomeRunning(u) /\ vm[u].id = k
      BY <1>0, <1>3, <2>3, <2>4, DataMoves
    <3>2. creator[u] = "run" /\ creator'[u] = "ok" /\ MaySet(u, "running")
      BY <1>0, <3>1 DEF BecomeRunning, CreatorStep, TypeOK
    <3>3. u # v
      BY <3>2 DEF Booting
    <3>4. Leaving(u)
      BY <1>3, <3>1, <3>2, <3>3 DEF RivalsLeave, Booting
    <3> QED
      BY <3>2, <3>4, NoWayBack
  <2> QED
    BY <1>3, <2>4
<1> QED
  BY <1>6, <1>7, <1>8

\* RunningReturned: SetState(running) is Create's last step.
LEMMA RunningReturnedStep ==
    ASSUME IInv, RunningReturned, [Next]_vars
    PROVE  RunningReturned'
<1>0. TypeOK
  BY DEF IInv
<1> SUFFICES ASSUME NEW v \in VMs, vm'[v].state = "running"
             PROVE  creator'[v] = "ok"
  BY DEF RunningReturned
<1>1. CASE Restart
  BY <1>1 DEF Restart, Unborn
<1>2. CASE BecomeRunning(v)
  BY <1>0, <1>2 DEF BecomeRunning, CreatorStep, TypeOK
<1>3. CASE ~Restart /\ ~BecomeRunning(v)
  <2>1. creator[v] = "ok"
    BY <1>0, <1>3, StructMoves DEF RunningReturned
  <2>2. ~Create(v)
    BY <2>1 DEF Create, Allocate, MakeRunDir, StatWorkspace, FormatWorkspace, FormatFails,
       CreateTap, Spawn, RecordState, BootFails, AgentAnswers, BecomeRunning, LoseRunning,
       RollbackReap, RollbackRemove, CreatorStep
  <2> QED
    BY <1>0, <1>3, <2>1, <2>2, CreatorIsOwn
<1> QED
  BY <1>1, <1>2, <1>3

\* The jobs of a shutdown never come to purge.
LEMMA ShutdownPurgesNothing ==
    ASSUME TypeOK, [Next]_vars, NEW d \in {Drainer, Killer}, ~job[d].purge, job[d].pc # "purge"
    PROVE  ~job'[d].purge /\ job'[d].pc # "purge"
<1>0. d \in Jobs /\ d \notin Deleters
  BY RegistryConstants DEF Jobs
<1> DEFINE Goal == ~job'[d].purge /\ job'[d].pc # "purge"
<1>1. CASE job'[d] = job[d]
  BY <1>1
<1>2. ASSUME NEW v \in VMs, Create(v) PROVE Goal
  BY <1>2 DEF Create, Allocate, MakeRunDir, StatWorkspace, FormatWorkspace, FormatFails, CreateTap,
     Spawn, RecordState, BootFails, AgentAnswers, BecomeRunning, LoseRunning, RollbackReap,
     RollbackRemove
<1>3. ASSUME NEW v \in VMs, ProcExit(v) \/ watchProcess(v) PROVE Goal
  BY <1>3 DEF ProcExit, watchProcess, WatchJudge, WatchRemove
<1>4. ASSUME NEW j \in Deleters, NEW i \in Ids, NEW purge \in BOOLEAN, GetForDelete(j, i, purge)
      PROVE  Goal
  BY <1>0, <1>4 DEF GetForDelete, TypeOK
<1>5. ASSUME NEW j \in Jobs, NEW pc \in JobPCs \ {"purge"}, job' = [job EXCEPT ![j].pc = pc]
      PROVE  Goal
  BY <1>0, <1>5 DEF TypeOK, JobStruct
<1>6. ASSUME NEW j \in Jobs, JobEnds(j, "ok") \/ JobEnds(j, "err") PROVE Goal
  BY <1>0, <1>6 DEF JobEnds, IdleJob, TypeOK
<1>7. ASSUME NEW j \in Jobs, Delete(j) PROVE Goal
  <2>1. CASE BeginStop(j) \/ MarkStopping(j) \/ WaitedExit(j) \/ CleanupReap(j)
    BY <1>5, <1>6, <2>1 DEF BeginStop, MarkStopping, WaitedExit, CleanupReap, JobStep, JobPCs
  <2>2. CASE CleanupRemove(j)
    BY <1>6, <2>2 DEF CleanupRemove
  <2>3. CASE Escalate(j)
    BY <1>1, <2>3 DEF Escalate
  <2> QED
    BY <1>7, <2>1, <2>2, <2>3 DEF Delete
<1>8. ASSUME NEW j \in Deleters, PurgeWorkspace(j) PROVE Goal
  BY <1>6, <1>8 DEF PurgeWorkspace, Jobs
<1>9. CASE DrainAll \/ killRemaining
  BY <1>9 DEF DrainAll, killRemaining
<1>10. CASE DrainNext \/ KillNext
  BY <1>0, <1>10 DEF DrainNext, KillNext, TypeOK
<1>11. CASE Restart
  BY <1>0, <1>11 DEF Restart, IdleJob
<1>12. CASE UNCHANGED vars
  BY <1>12 DEF vars
<1> QED
  BY <1>2, <1>3, <1>4, <1>7, <1>8, <1>9, <1>10, <1>11, <1>12 DEF Next

\* PurgeAsked: a DELETE's job carries the id it came with to the end.
LEMMA PurgeAskedStep ==
    ASSUME IInv, PurgeAsked, [Next]_vars
    PROVE  PurgeAsked'
<1> DEFINE Asked(f, i) ==
        f.pc \in Cleaning => f.vm \in VMs /\ creator'[f.vm] # "idle" /\ vm'[f.vm].id = i
<1>0. TypeOK
  BY DEF IInv
<1> SUFFICES ASSUME NEW j \in Jobs
             PROVE  /\ job'[j].purge => j \in Deleters
                    /\ job'[j].pc = "purge" => job'[j].purge
                    /\ job'[j].purge => Asked(job'[j], job'[j].id)
  BY DEF PurgeAsked
<1>1. CASE j \notin Deleters
  <2>1. j \in {Drainer, Killer} /\ ~job[j].purge /\ job[j].pc # "purge"
    BY <1>1 DEF PurgeAsked, Jobs
  <2> QED
    BY <1>0, <2>1, ShutdownPurgesNothing
<1>2. CASE j \in Deleters
  <2> DEFINE Goal == /\ job'[j].pc = "purge" => job'[j].purge
                     /\ job'[j].purge => Asked(job'[j], job'[j].id)
  <2>1. job[j].purge => Asked(job[j], job[j].id)
    BY <1>0, CreatorMoves, FieldsKept DEF PurgeAsked
  <2>2. job[j].pc = "purge" => job[j].purge
    BY DEF PurgeAsked
  <2>3. ASSUME job'[j] = job[j] PROVE Goal
    BY <2>1, <2>2, <2>3
  <2>4. ASSUME NEW from \in Cleaning, NEW to \in Cleaning, JobStep(j, from, to) PROVE Goal
    <3>1. /\ job[j].pc \in Cleaning /\ job'[j].pc \in Cleaning
          /\ job'[j].purge = job[j].purge /\ job'[j].vm = job[j].vm /\ job'[j].id = job[j].id
      BY <1>0, <2>4 DEF JobStep, TypeOK, JobStruct
    <3> QED
      BY <2>1, <3>1 DEF Cleaning
  <2>5. ASSUME JobEnds(j, "ok") \/ JobEnds(j, "err") PROVE Goal
    <3>1. ~job'[j].purge /\ job'[j].pc # "purge"
      BY <1>0, <2>5 DEF JobEnds, IdleJob, TypeOK
    <3> QED
      BY <3>1
  <2>6. ASSUME Restart PROVE Goal
    <3>1. ~job'[j].purge /\ job'[j].pc # "purge"
      BY <1>0, <2>6 DEF Restart, IdleJob
    <3> QED
      BY <3>1
  <2>7. ASSUME NEW i \in Ids, NEW purge \in BOOLEAN, GetForDelete(j, i, purge) PROVE Goal
    <3>1. /\ job'[j] = [pc |-> IF byID[i] = None THEN "purge" ELSE "begin",
                        id |-> i, vm |-> byID[i], purge |-> purge]
          /\ byID[i] # None \/ purge
          /\ UNCHANGED <<vm, creator>>
      BY <1>0, <2>7 DEF GetForDelete, registryVars, TypeOK
    <3>2. CASE byID[i] = None
      BY <3>1, <3>2 DEF Cleaning
    <3>3. CASE byID[i] # None
      <4>1. byID[i] \in VMs /\ vm[byID[i]].id = i /\ creator[byID[i]] # "idle"
        BY <3>3, RegistryConstants DEF IInv, TypeOK, RegistryAgrees, Unspent
      <4> QED
        BY <3>1, <3>3, <4>1
    <3> QED
      BY <3>2, <3>3
  <2> HIDE DEF Goal
  <2>8. ASSUME BeginStop(j) \/ MarkStopping(j) \/ WaitedExit(j) \/ CleanupReap(j) PROVE Goal
    BY <2>4, <2>5, <2>8 DEF BeginStop, MarkStopping, WaitedExit, CleanupReap, Cleaning, JobStep
  <2>9. ASSUME CleanupRemove(j) \/ PurgeWorkspace(j) PROVE Goal
    BY <2>5, <2>9 DEF CleanupRemove, PurgeWorkspace
  <2>10. Goal
    BY <1>0, <1>2, <2>3, <2>6, <2>7, <2>8, <2>9, JobMoves
  <2> QED
    BY <1>2, <2>10 DEF Goal
<1> QED
  BY <1>1, <1>2

\* Nothing is purged, recorded or registered at first.
LEMMA KeepsInit == Init => KeepsInv
<1> SUFFICES ASSUME Init PROVE KeepsInv
  OBVIOUS
<1>1. PurgeAsked
  BY DEF Init, PurgeAsked, IdleJob
<1>2. \A v \in VMs : ~Registered(v) /\ vm[v].state # "running"
  BY DEF Init, Registered, Unborn
<1> QED
  BY <1>1, <1>2, ServesInit
  DEF KeepsInv, DirKept, RivalsLeave, OwnDisk, RunningReturned

\* Every step keeps KeepsInv.
LEMMA KeepsStep == KeepsInv /\ [Next]_vars => KeepsInv'
<1> SUFFICES ASSUME KeepsInv, [Next]_vars PROVE KeepsInv'
  OBVIOUS
<1>1. ServesInv' /\ PurgeAsked' /\ DirKept'
  BY ServesStep, PurgeAskedStep, DirKeptStep DEF KeepsInv, ServesInv
<1>2. RivalsLeave' /\ OwnDisk' /\ RunningReturned'
  BY RivalsLeaveStep, OwnDiskStep, RunningReturnedStep DEF KeepsInv, ServesInv
<1> QED
  BY <1>1, <1>2 DEF KeepsInv

\* Who takes a disk away, or empties it: a creation at its mkfs, or a purge.
LEMMA DiskTaken ==
    ASSUME KeepsInv, [Next]_vars, NEW k \in Ids,
           workspace'[k] # workspace[k], workspace[k] = "data" \/ workspace'[k] = "absent"
    PROVE  \/ \E v \in VMs : (FormatWorkspace(v) \/ FormatFails(v)) /\ vm[v].id = k
           \/ \E v \in VMs : RollbackRemove(v) /\ vm[v].id = k /\ vm[v].isNew
           \/ \E j \in Deleters : /\ job[j].id = k /\ job[j].purge
                                  /\ CleanupRemove(j) \/ (byID[k] = None /\ PurgeWorkspace(j))
<1> DEFINE Goal == \/ \E v \in VMs : (FormatWorkspace(v) \/ FormatFails(v)) /\ vm[v].id = k
                   \/ \E v \in VMs : RollbackRemove(v) /\ vm[v].id = k /\ vm[v].isNew
                   \/ \E j \in Deleters :
                        /\ job[j].id = k /\ job[j].purge
                        /\ CleanupRemove(j) \/ (byID[k] = None /\ PurgeWorkspace(j))
<1>0. IInv /\ TypeOK
  BY DEF KeepsInv, ServesInv, IInv
<1> USE DEF hostVars
<1>1. ASSUME NEW v \in VMs, FormatWorkspace(v) \/ FormatFails(v) PROVE Goal
  <2>1. vm[v].id = k
    BY <1>0, <1>1 DEF FormatWorkspace, FormatFails, TypeOK
  <2> QED
    BY <1>1, <2>1
<1>2. ASSUME NEW v \in VMs, BecomeRunning(v) PROVE FALSE
  BY <1>0, <1>2 DEF BecomeRunning, TypeOK
<1>3. ASSUME NEW u, NEW purge \in BOOLEAN, NEW fails \in BOOLEAN, RemoveResources(u, purge, fails)
      PROVE  purge /\ vm[u].id = k
  BY <1>0, <1>3 DEF RemoveResources, TypeOK
<1>4. ASSUME NEW v \in VMs, RollbackRemove(v) PROVE Goal
  <2>1. PICK fails \in BOOLEAN : RemoveResources(v, vm[v].isNew, fails)
    BY <1>4 DEF RollbackRemove
  <2>2. vm[v].isNew \in BOOLEAN
    BY <1>0 DEF TypeOK, VMStruct
  <2> QED
    BY <1>3, <1>4, <2>1, <2>2
<1>5. ASSUME NEW v \in VMs, WatchRemove(v) PROVE FALSE
  BY <1>3, <1>5 DEF WatchRemove
<1>6. ASSUME NEW j \in Jobs, CleanupRemove(j) PROVE Goal
  <2>1. PICK fails \in BOOLEAN : RemoveResources(job[j].vm, job[j].purge, fails)
    BY <1>6 DEF CleanupRemove
  <2>2. job[j].purge \in BOOLEAN
    BY <1>0 DEF TypeOK, JobStruct
  <2>3. job[j].purge /\ vm[job[j].vm].id = k
    BY <1>3, <2>1, <2>2
  <2>4. j \in Deleters /\ job[j].id = k
    BY <1>6, <2>3 DEF KeepsInv, PurgeAsked, Cleaning, CleanupRemove
  <2> QED
    BY <1>6, <2>3, <2>4
<1>7. ASSUME NEW j \in Deleters, PurgeWorkspace(j) PROVE Goal
  <2>1. job[j].id = k /\ byID[k] = None
    BY <1>0, <1>7 DEF PurgeWorkspace, TypeOK
  <2>2. job[j].purge
    BY <1>7 DEF KeepsInv, PurgeAsked, PurgeWorkspace, Jobs
  <2> QED
    BY <1>7, <2>1, <2>2
<1>8. ASSUME NEW v \in VMs, Create(v), ~FormatWorkspace(v), ~FormatFails(v), ~BecomeRunning(v),
             ~RollbackRemove(v)
      PROVE  FALSE
  BY <1>8 DEF Create, Allocate, MakeRunDir, StatWorkspace, CreateTap, Spawn, RecordState,
     BootFails, AgentAnswers, LoseRunning, RollbackReap
<1>9. ASSUME NEW v \in VMs, ProcExit(v) \/ WatchJudge(v) PROVE FALSE
  BY <1>9 DEF ProcExit, WatchJudge
<1>10. ASSUME NEW j, Delete(j), ~CleanupRemove(j) PROVE FALSE
  BY <1>10 DEF Delete, BeginStop, MarkStopping, Escalate, WaitedExit, CleanupReap
<1>11. ASSUME NEW j, NEW i, NEW purge, GetForDelete(j, i, purge) PROVE FALSE
  BY <1>11 DEF GetForDelete
<1>12. ~ (DrainAll \/ DrainNext \/ killRemaining \/ KillNext \/ Restart)
  BY DEF DrainAll, DrainNext, killRemaining, KillNext, Restart
<1>13. ~ UNCHANGED vars
  BY DEF vars
<1> HIDE DEF Goal
<1>14. Goal
  BY <1>1, <1>2, <1>4, <1>5, <1>6, <1>7, <1>8, <1>9, <1>10, <1>11, <1>12, <1>13
  DEF Next, watchProcess
<1> QED
  BY <1>14 DEF Goal

\* A creation that takes a disk with data away, at its mkfs or in its rollback,
\* is no longer in the registry.
LEMMA TakerIsStale ==
    ASSUME KeepsInv, [Next]_vars, NEW k \in Ids, workspace[k] = "data", NEW v \in VMs, vm[v].id = k
    PROVE  /\ FormatWorkspace(v) \/ FormatFails(v) => StaleFormats(k)
           /\ RollbackRemove(v) /\ vm[v].isNew => StaleRollsBack(k)
<1>0. TypeOK
  BY DEF KeepsInv, ServesInv, IInv
<1>1. ASSUME FormatWorkspace(v) \/ FormatFails(v) PROVE StaleFormats(k)
  <2>1. creator[v] = "mkfs" /\ creator'[v] # "mkfs"
    BY <1>0, <1>1 DEF FormatWorkspace, FormatFails, CreatorStep, TypeOK
  <2>2. ~Registered(v)
    BY <2>1 DEF KeepsInv, OwnDisk, Booting
  <2> QED
    BY <2>1, <2>2 DEF StaleFormats
<1>2. ASSUME RollbackRemove(v), vm[v].isNew PROVE StaleRollsBack(k)
  <2>1. creator[v] = "remove" /\ creator'[v] # "remove"
    BY <1>0, <1>2 DEF RollbackRemove, CreatorStep, TypeOK
  <2>2. ~Registered(v)
    BY <1>2, <2>1 DEF KeepsInv, OwnDisk, Booting
  <2> QED
    BY <1>2, <2>1, <2>2 DEF StaleRollsBack
<1> QED
  BY <1>1, <1>2

\* What a person wrote is lost only to a purge asked for, or to a creation that
\* runs on after its machine was let go of (cleanup's purge argument).
THEOREM DataIsKept == Spec => KeptUnlessAsked
<1> DEFINE Kept ==
      \A i \in Ids : workspace[i] = "data" /\ workspace'[i] # "data" =>
        \/ StaleFormats(i) \/ StaleRollsBack(i)
        \/ \E j \in Deleters : job[j].id = i /\ job[j].purge /\ job'[j] # job[j]
<1>1. KeepsInv /\ [Next]_vars => [Kept]_vars
  <2> SUFFICES ASSUME KeepsInv, [Next]_vars, NEW i \in Ids,
                      workspace[i] = "data", workspace'[i] # "data"
               PROVE  \/ StaleFormats(i) \/ StaleRollsBack(i)
                      \/ \E j \in Deleters : job[j].id = i /\ job[j].purge /\ job'[j] # job[j]
    OBVIOUS
  <2>0. TypeOK
    BY DEF KeepsInv, ServesInv, IInv
  <2>1. ASSUME NEW j \in Deleters, CleanupRemove(j) \/ PurgeWorkspace(j) PROVE job'[j] # job[j]
    <3>1. JobEnds(j, "ok") \/ JobEnds(j, "err")
      BY <2>1 DEF CleanupRemove, PurgeWorkspace
    <3>2. job'[j].pc \in {"ok", "err"}
      BY <2>0, <3>1 DEF JobEnds, IdleJob, TypeOK, Jobs
    <3>3. job[j].pc \in {"remove", "purge"}
      BY <2>1 DEF CleanupRemove, PurgeWorkspace
    <3> QED
      BY <3>2, <3>3
  <2>2. \A v \in VMs : vm[v].id = i =>
          /\ FormatWorkspace(v) \/ FormatFails(v) => StaleFormats(i)
          /\ RollbackRemove(v) /\ vm[v].isNew => StaleRollsBack(i)
    BY TakerIsStale
  <2> QED
    BY <2>1, <2>2, DiskTaken
<1> QED
  BY KeepsInit, KeepsStep, <1>1, PTL DEF Spec, KeptUnlessAsked

\* The disk of a running machine that stays registered is taken by no purge and
\* by no late cleanup, only by the mkfs of a creation let go of earlier.
THEOREM RunningKeepsItsDisk == Spec => RunningKeepsDisk
<1> DEFINE Kept ==
      \A v \in VMs : HasDisk(v) /\ Registered(v)' /\ ~HasDisk(v)' =>
        vm'[v].state # "running" \/ StaleFormats(vm[v].id)
<1>1. KeepsInv /\ [Next]_vars => [Kept]_vars
  <2> SUFFICES ASSUME KeepsInv, [Next]_vars, NEW w \in VMs,
                      HasDisk(w), Registered(w)', ~HasDisk(w)', vm'[w].state = "running"
               PROVE  StaleFormats(vm[w].id)
    OBVIOUS
  <2> DEFINE k == vm[w].id
  <2>0. IInv /\ TypeOK
    BY DEF KeepsInv, ServesInv, IInv
  <2>1. k \in Ids /\ byID[k] = w /\ creator[w] = "ok" /\ workspace[k] # "absent"
    BY <2>0, RegisteredIsSpent DEF HasDisk, KeepsInv, RunningReturned
  <2>2. vm'[w].id = k
    BY <2>0, <2>1, FieldsKept
  <2>3. byID'[k] = w /\ workspace'[k] = "absent"
    BY <2>2 DEF Registered, HasDisk
  <2> HIDE DEF k
  <2>4. ASSUME NEW u, NEW purge \in BOOLEAN, NEW fails \in BOOLEAN,
               RemoveResources(u, purge, fails)
        PROVE  FALSE
    BY <2>0, <2>1, <2>3, <2>4, RemovedIsNobodys
  <2>5. ASSUME NEW v \in VMs, RollbackRemove(v) PROVE FALSE
    <3>1. vm[v].isNew \in BOOLEAN
      BY <2>0 DEF TypeOK, VMStruct
    <3> QED
      BY <2>4, <2>5, <3>1 DEF RollbackRemove
  <2>6. ASSUME NEW j \in Deleters, CleanupRemove(j) PROVE FALSE
    <3>1. job[j].purge \in BOOLEAN
      BY <2>0 DEF TypeOK, JobStruct, Jobs
    <3> QED
      BY <2>4, <2>6, <3>1 DEF CleanupRemove
  <2>7. byID[k] # None
    BY <2>1, RegistryConstants
  <2>8. PICK u \in VMs : (FormatWorkspace(u) \/ FormatFails(u)) /\ vm[u].id = k
    BY <2>1, <2>3, <2>5, <2>6, <2>7, DiskTaken
  <2>9. creator[u] = "mkfs" /\ creator'[u] # "mkfs"
    BY <2>0, <2>8 DEF FormatWorkspace, FormatFails, CreatorStep, TypeOK
  <2>10. ~Registered(u)
    BY <2>1, <2>8, <2>9 DEF Registered
  <2>11. StaleFormats(k)
    BY <2>8, <2>9, <2>10 DEF StaleFormats
  <2> QED
    BY <2>11 DEF k
<1> QED
  BY KeepsInit, KeepsStep, <1>1, PTL DEF Spec, RunningKeepsDisk

\* A crash of the server leaves no registered machine whose vm.json was written
\* to run unseen: Sweep kills it, unless another machine of its id wrote later.
THEOREM SweepFinds == Spec => SweepReaps
<1> DEFINE Found ==
      restarts' # restarts =>
        \A v \in VMs : Registered(v) /\ recorded[vm[v].id] = v => proc'[v] # "up"
<1>1. KeepsInv /\ [Next]_vars => [Found]_vars
  <2> SUFFICES ASSUME KeepsInv, [Next]_vars, restarts' # restarts,
                      NEW v \in VMs, Registered(v), recorded[vm[v].id] = v
               PROVE  proc'[v] # "up"
    OBVIOUS
  <2>1. Restart
    BY OnlyRestartCounts
  <2>2. vm[v].id \in Ids /\ runDir[vm[v].id] = v
    BY RegisteredIsSpent DEF KeepsInv, ServesInv, DirKept
  <2>3. PICK survivors \in SUBSET {u \in VMs : proc[u] = "up"} :
          proc' = [u \in VMs |->
                     IF proc[u] = "up" /\ (u \notin survivors \/ \E i \in Ids : runDir[i] = u)
                     THEN "gone" ELSE proc[u]]
    BY <2>1 DEF Restart
  <2> QED
    BY <2>2, <2>3
<1> QED
  BY KeepsInit, KeepsStep, <1>1, PTL DEF Spec, SweepReaps

-----------------------------------------------------------------------------
(* The power calls race the end of a machine harmlessly, for any number of *)
(* handlers and requests.                                                  *)

\* Between the check that the guest runs and the keystroke, it runs or a late
\* pause is on record.
AwakeAtKey == ladder = "key" /\ guest = "Paused" => late

PowerInv == PowerTypeOK /\ KeySeen /\ StaysOver /\ AwakeAtKey

\* SetState keeps a record among the states, leaves "stopping" for nothing,
\* leaves "failed" for "stopping" alone, and always reaches "stopping".
LEMMA AfterKeepsTheEnd ==
    ASSUME record \in States, NEW to \in States
    PROVE  /\ After(to) \in States
           /\ record = "stopping" => After(to) = "stopping"
           /\ record = "failed" => After(to) \in {"failed", "stopping"}
           /\ After("stopping") = "stopping"
  BY DEF After, canTransition, legalTransitions, States

\* An exit nobody asked for ends in "failed", or in "stopping" when a delete
\* came first.
LEMMA AfterFailed ==
    ASSUME record \in States
    PROVE  After("failed") \in {"failed", "stopping"}
  BY DEF After, canTransition, legalTransitions, States

\* A new machine.
LEMMA PowerInvInit == PowerInit => PowerInv
<1> SUFFICES ASSUME PowerInit PROVE PowerInv
  OBVIOUS
<1>1. call \in [Callers -> [op : Ops \union {"none"}, pc : {"idle", "call", "set"}, to : States]]
  BY DEF PowerInit, Resting, States
<1>2. asked \in 0 .. MaxCalls
  BY PowerAssumption DEF PowerInit
<1>3. PowerTypeOK
  BY <1>1, <1>2 DEF PowerInit, PowerTypeOK, States
<1> QED
  BY <1>3 DEF PowerInit, PowerInv, KeySeen, StaysOver, AwakeAtKey

\* Every step of the handlers, of Create, of the watcher and of Delete.
LEMMA PowerInvStep == PowerInv /\ [PowerNext]_powerVars => PowerInv'
<1> SUFFICES ASSUME PowerInv, [PowerNext]_powerVars PROVE PowerInv'
  OBVIOUS
<1> USE PowerAssumption
<1> USE DEF PowerInv, PowerTypeOK, KeySeen, StaysOver, AwakeAtKey, Alive
<1>1. CASE spawn
  BY <1>1 DEF spawn
<1>2. CASE waitForAgent
  <2>1. CASE boot' = "run"
    BY <1>2, <2>1 DEF waitForAgent
  <2>2. CASE boot' = "rollback"
    BY <1>2, <2>2 DEF waitForAgent
  <2> QED
    BY <1>2, <2>1, <2>2 DEF waitForAgent
<1>3. CASE BootedUp
  BY <1>3, AfterKeepsTheEnd DEF BootedUp, States
<1>4. CASE Rollback
  BY <1>4 DEF Rollback
<1>5. CASE Exit
  BY <1>5 DEF Exit
<1>6. CASE ExitSeen
  <2>1. CASE ladder \in {"idle", "begin"}
    <3>1. record' \in States /\ record' \in {"failed", "stopping"}
      BY <1>6, <2>1, AfterFailed DEF ExitSeen, States
    <3> QED
      BY <1>6, <2>1, <3>1 DEF ExitSeen
  <2>2. CASE ladder \notin {"idle", "begin"}
    BY <1>6, <2>2 DEF ExitSeen
  <2> QED
    BY <2>1, <2>2
<1>7. ASSUME NEW c \in Callers, NEW op \in Ops, Ask(c, op) PROVE PowerInv'
  <2>1. call' \in [Callers -> [op : Ops \union {"none"}, pc : {"idle", "call", "set"}, to : States]]
    BY <1>7 DEF Ask, States
  <2> QED
    BY <1>7, <2>1 DEF Ask
<1>8. ASSUME NEW c \in Callers, NoAnswer(c) PROVE PowerInv'
  BY <1>8 DEF NoAnswer, Resting, States
<1>9. ASSUME NEW c \in Callers, SetVMState(c) PROVE PowerInv'
  <2>1. guest' \in Alive /\ want[guest'] \in States
    BY <1>9 DEF SetVMState, want, States
  <2>2. call' \in [Callers -> [op : Ops \union {"none"}, pc : {"idle", "call", "set"}, to : States]]
    <3>1. CASE call' = [call EXCEPT ![c] = [@ EXCEPT !.pc = "set", !.to = want[guest']]]
      BY <2>1, <3>1
    <3>2. CASE call' = [call EXCEPT ![c] = Resting]
      BY <3>2 DEF Resting, States
    <3> QED
      BY <1>9, <3>1, <3>2 DEF SetVMState
  <2>3. CASE call[c].op = "pause" /\ ladder = "key"
    <3>1. late'
      BY <1>9, <2>3 DEF SetVMState
    <3> QED
      BY <1>9, <2>1, <2>2, <3>1 DEF SetVMState
  <2>4. CASE ~(call[c].op = "pause" /\ ladder = "key")
    <3>1. late' = late
      BY <1>9, <2>4 DEF SetVMState
    <3>2. ladder = "key" => guest' # "Paused"
      BY <1>9, <2>4 DEF SetVMState
    <3> QED
      BY <1>9, <2>1, <2>2, <3>1, <3>2 DEF SetVMState
  <2> QED
    BY <2>3, <2>4
<1>10. ASSUME NEW c \in Callers, Describe(c) PROVE PowerInv'
  <2>1. want[guest] \in States
    BY <1>10 DEF Describe, want, States
  <2>2. call' \in [Callers -> [op : Ops \union {"none"}, pc : {"idle", "call", "set"}, to : States]]
    BY <1>10, <2>1 DEF Describe
  <2> QED
    BY <1>10, <2>2 DEF Describe
<1>11. ASSUME NEW c \in Callers, SetAfter(c) PROVE PowerInv'
  <2>1. call[c].to \in States
    OBVIOUS
  <2>2. call' \in [Callers -> [op : Ops \union {"none"}, pc : {"idle", "call", "set"}, to : States]]
    BY <1>11 DEF SetAfter, Resting, States
  <2> QED
    BY <1>11, <2>1, <2>2, AfterKeepsTheEnd DEF SetAfter
<1>12. CASE beginStop
  BY <1>12 DEF beginStop
<1>13. CASE Stopping
  BY <1>13, AfterKeepsTheEnd DEF Stopping, States
<1>14. CASE Look
  <2>1. CASE ladder' = "resume"
    BY <1>14, <2>1 DEF Look
  <2>2. CASE late' = TRUE /\ ladder' = "key"
    BY <1>14, <2>2 DEF Look
  <2>3. CASE guest # "Paused" /\ UNCHANGED late /\ ladder' = "key"
    BY <1>14, <2>3 DEF Look
  <2> QED
    BY <1>14, <2>1, <2>2, <2>3 DEF Look
<1>15. CASE ResumeFirst
  <2>1. CASE guest' = (IF guest = "Paused" THEN "Running" ELSE guest) /\ UNCHANGED late
    BY <1>15, <2>1 DEF ResumeFirst
  <2>2. CASE late' = TRUE /\ UNCHANGED guest
    BY <1>15, <2>2 DEF ResumeFirst
  <2> QED
    BY <1>15, <2>1, <2>2 DEF ResumeFirst
<1>16. CASE SendKey
  BY <1>16 DEF SendKey
<1>17. CASE WaitExit
  BY <1>17 DEF WaitExit
<1>18. CASE cleanup
  BY <1>18 DEF cleanup
<1>19. CASE UNCHANGED powerVars
  BY <1>19 DEF powerVars
<1> QED
  BY <1>1, <1>2, <1>3, <1>4, <1>5, <1>6, <1>7, <1>8, <1>9, <1>10, <1>11, <1>12, <1>13,
     <1>14, <1>15, <1>16, <1>17, <1>18, <1>19 DEF PowerNext

\* A machine is asked to shut down while it runs, unless a pause came at the
\* last moment or firecracker did not answer, and the late answer of a power
\* call never brings a machine back that is being deleted or has failed
\* (shutdown, SetState).
THEOREM PowerAlwaysSound == PowerSpec => []PowerSound
<1>1. PowerInv => PowerSound
  BY DEF PowerInv, PowerSound
<1> QED
  BY <1>1, PowerInvInit, PowerInvStep, PTL DEF PowerSpec
=============================================================================
