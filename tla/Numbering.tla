----------------------------- MODULE Numbering -----------------------------
(* The two stores whose files are named by number, page snapshots and      *)
(* sent files, and the tool handlers of a turn that write to them at once. *)
(* A number already told -- to the model, as a path; to the person, as a   *)
(* message with a file -- must go on naming the same file, so the counters *)
(* resume from what is on disk.                                            *)
EXTENDS Naturals, FiniteSets, FiniteSetsExt

CONSTANTS Handlers,   \* tool handlers that run at once
          MaxNumber,  \* bound: files ever begun
          SnapshotKeep,  \* snapshotKeep
          MaxUnwell,  \* bound: failed writes, exits and power cuts
          NoOne       \* what no handler wrote

ASSUME NumberingAssumption == MaxNumber \in Nat /\ SnapshotKeep \in Nat \ {0} /\ NoOne = 0

Stores == {"snapshots", "outbox"}
Numbers == 1 .. MaxNumber

VARIABLES seq,      \* each store's counter
          stored,   \* what is at each number on disk, NoOne when no file is
          safe,     \* numbers whose files have reached the disk itself
          handler,  \* what each handler is doing
          told,     \* what each number was told to name
          writes,   \* files begun, to tell their contents apart
          unwell,
          parted    \* history: the files on disk were not all there were

numberVars == <<seq, stored, safe, handler, told, writes, unwell, parted>>

Unused == [pc |-> "idle", store |-> "outbox", number |-> 0, full |-> NoOne, old |-> {}]
NoFiles == [s \in Stores |-> [n \in Numbers |-> NoOne]]

OnDisk(s) == {n \in Numbers : stored[s][n] # NoOne}

\* A restart that counts the files, where some are gone.
highestSeq_Count(files) == Cardinality(files)

\* highestSeq: where a counter resumes.
highestSeq(files) == Max(files \union {0})

NumberInit ==
  /\ seq = [s \in Stores |-> 0]
  /\ stored = NoFiles /\ told = NoFiles
  /\ safe = [s \in Stores |-> {}]
  /\ handler = [h \in Handlers |-> Unused]
  /\ writes = 0 /\ unwell = 0
  /\ parted = FALSE

GoesWrong == unwell < MaxUnwell /\ unwell' = unwell + 1

\* snapshotStore.write and outbox.reserve: the next number, under the lock.
reserve(h, s) ==
  /\ handler[h].pc = "idle" /\ writes < MaxNumber
  /\ seq' = [seq EXCEPT ![s] = @ + 1]
  /\ writes' = writes + 1
  /\ handler' = [handler EXCEPT ![h] = [pc |-> "write", store |-> s, number |-> seq'[s],
                                       full |-> writes', old |-> {}]]
  /\ UNCHANGED <<stored, safe, told, unwell, parted>>

At(h) == <<handler[h].store, handler[h].number>>
StoreAt(h, what) == stored' = [stored EXCEPT ![handler[h].store][handler[h].number] = what]

\* os.WriteFile, copyFile or scrotTo, over whatever is at that number.
WriteFile(h) ==
  /\ handler[h].pc = "write"
  /\ StoreAt(h, handler[h].full)
  /\ handler' = [handler EXCEPT ![h].pc = IF handler[h].store = "snapshots" THEN "rotate" ELSE "tell"]
  /\ UNCHANGED <<seq, safe, told, writes, unwell, parted>>

\* A failed write leaves a part of the file or nothing.  A send takes it away
\* again; a snapshot does not, and gives the model no path.
WriteFails(h) ==
  /\ handler[h].pc = "write"
  /\ GoesWrong
  /\ StoreAt(h, NoOne) \/ StoreAt(h, handler[h].full)
  /\ handler' = [handler EXCEPT ![h] = IF @.store = "outbox" THEN [@ EXCEPT !.pc = "undo"] ELSE Unused]
  /\ UNCHANGED <<seq, safe, told, writes, parted>>

RemoveFailed(h) ==
  /\ handler[h].pc = "undo"
  /\ StoreAt(h, NoOne)
  /\ handler' = [handler EXCEPT ![h] = Unused]
  /\ UNCHANGED <<seq, safe, told, writes, unwell, parted>>

\* rotate reads the directory, and then removes all but the newest of it.
rotate(h) ==
  /\ handler[h].pc = "rotate"
  /\ handler' = [handler EXCEPT ![h].pc = "remove", ![h].old =
       {n \in OnDisk("snapshots") : Cardinality({m \in OnDisk("snapshots") : m > n}) >= SnapshotKeep}]
  /\ UNCHANGED <<seq, stored, safe, told, writes, unwell, parted>>

RemoveOld(h) ==
  /\ handler[h].pc = "remove"
  /\ stored' = [stored EXCEPT !["snapshots"] =
                  [n \in Numbers |-> IF n \in handler[h].old THEN NoOne ELSE @[n]]]
  /\ handler' = [handler EXCEPT ![h].pc = "tell", ![h].old = {}]
  /\ UNCHANGED <<seq, safe, told, writes, unwell, parted>>

\* digest's path to the model, announce's message to the person.
Tell(h) ==
  /\ handler[h].pc = "tell"
  /\ told' = [told EXCEPT ![handler[h].store][handler[h].number] = handler[h].full]
  /\ handler' = [handler EXCEPT ![h] = Unused]
  /\ UNCHANGED <<seq, stored, safe, writes, unwell, parted>>

\* newSnapshotStore and newOutbox, when the agent's next instance is built.
Resume(files) == seq' = [s \in Stores |-> highestSeq({n \in Numbers : files[s][n] # NoOne})]
Stopped == handler' = [h \in Handlers |-> Unused]

\* The agent is evicted, or its daemon exits.
RestartStores == /\ GoesWrong
                 /\ stored' = stored
                 /\ Stopped /\ Resume(stored)
                 /\ UNCHANGED <<safe, told, writes, parted>>

\* The kernel writes back what it has: nothing here asks it to.
WriteBack == /\ \E s \in Stores : safe[s] # OnDisk(s)
             /\ safe' = [s \in Stores |-> OnDisk(s)]
             /\ UNCHANGED <<seq, stored, handler, told, writes, unwell, parted>>

\* The machine is killed, and boots with the files that had been written back.
PowerCut == /\ GoesWrong
            /\ stored' = [s \in Stores |-> [n \in Numbers |-> IF n \in safe[s] THEN stored[s][n] ELSE NoOne]]
            /\ Stopped /\ Resume(stored')
            /\ parted' = TRUE
            /\ UNCHANGED <<safe, told, writes>>

\* The agent is deleted in its turn and one of its name is created and started:
\* the handlers that were at work finish beside those of the new instance.
Succeed == /\ GoesWrong
           /\ Resume(stored)
           /\ parted' = (parted \/ \E h \in Handlers : handler[h].pc # "idle")
           /\ UNCHANGED <<stored, safe, handler, told, writes>>

NumberNext == \/ Succeed \/ RestartStores \/ PowerCut \/ WriteBack
              \/ \E h \in Handlers :
                   \/ \E s \in Stores : reserve(h, s)
                   \/ WriteFile(h) \/ WriteFails(h) \/ RemoveFailed(h)
                   \/ rotate(h) \/ RemoveOld(h) \/ Tell(h)

-----------------------------------------------------------------------------
(* Properties.                                                             *)

\* What was told keeps: a sent file is there and is the one that was sent, and
\* a snapshot is the page it was taken of or has been rotated away, whichever
\* handlers wrote at once, whatever failed and however often the agent was
\* rebuilt -- while the machine is up and no agent is deleted at work.
NumbersStand ==
  ~parted => \A n \in Numbers :
            /\ told["outbox"][n] # NoOne => stored["outbox"][n] = told["outbox"][n]
            /\ told["snapshots"][n] # NoOne => stored["snapshots"][n] \in {NoOne, told["snapshots"][n]}

\* "a reused name serves different bytes for a URL already sitting in a message
\* on the person's phone", which the resumed number is there to prevent
\* (outbox).  Not so of a machine killed before the file was written back, nor of
\* an agent created under the name of one deleted at work.
NeverAnotherFile ==
  \A n \in Numbers : told["outbox"][n] # NoOne =>
                       stored["outbox"][n] \in {NoOne, told["outbox"][n]}
=============================================================================
