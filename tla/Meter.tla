------------------------------- MODULE Meter -------------------------------
(* The machine's spend counter: rows by agent, by what they count and by   *)
(* day, folded into a lifetime row when they are old, and saved after      *)
(* every change by whichever agent made it.                                *)
(*                                                                         *)
(* The rows are changed and encoded under the lock; the file is written    *)
(* outside it, through one temporary file for every writer.  Files are     *)
(* inodes here, because a writer goes on writing the inode it opened after *)
(* another renamed it.  A response costs one unit.                         *)
EXTENDS Naturals, FiniteSets, FiniteSetsExt

CONSTANTS Spenders,   \* agents, each a goroutine that books what it spends
          Nobody,     \* agentapi.UnattributedAgent
          Counted,      \* models, and Turns for the rows that count turns
          Turns,
          KeepDays,   \* meterKeepDays
          MaxDay,     \* bound: days that pass
          MaxBooked,  \* bound: bookings of all agents
          MaxRestarts,   \* bound: restarts of the daemon
          Inodes,
          NoFile,
          Unreadable  \* a file cut short, or overwritten in part

ASSUME MeterAssumption == /\ Turns \in Counted /\ Nobody \notin Spenders
                          /\ KeepDays \in Nat
                          /\ MaxDay \in Nat \ {0}
                          /\ NoFile \notin Inodes

VARIABLES day,        \* the day on the person's clock
          rows,
          folded,     \* the day the fold last ran
          saver,      \* each agent's booking in hand
          content,    \* what each inode holds
          tmp, path,  \* the inodes of usage.json.tmp and of usage.json
          logged,     \* usage and turn_complete events in each agent's log
          carried,    \* history: what a file of version 1 had counted
          restarts,
          spoilt      \* history: two writers, or a save that failed, since one
                      \* agent last saved alone

files == <<content, tmp, path>>
meterVars == <<day, rows, folded, saver, files, logged, carried, restarts, spoilt>>

Carry == 0            \* the day of a lifetime row
Owners == Spenders \union {Nobody}
RowKeys == Owners \X Counted \X (Carry .. MaxDay)
NoRows == [k \in RowKeys |-> 0]

Resting == [pc |-> "idle", kind |-> Turns, now |-> 1, buf |-> NoRows, file |-> NoFile]

\* What one owner spent, over all days, of a kind.
Lifetime(r, owner, kind) == MapThenSumSet(LAMBDA d : r[<<owner, kind, d>>], Carry .. MaxDay)

\* A fold that takes over calls and forgets turns.
fold_CallsOnly(r, now) ==
  LET old == {d \in 1 .. MaxDay : d + KeepDays < now}
  IN  [k \in RowKeys |->
         IF k[3] \in old THEN 0
         ELSE IF k[3] = Carry /\ k[2] # Turns
              THEN r[k] + MapThenSumSet(LAMBDA d : r[<<k[1], k[2], d>>], old)
              ELSE r[k]]

\* foldLocked, on a day it has not run on yet.
fold(r, now) ==
  LET old == {d \in 1 .. MaxDay : d + KeepDays < now}
  IN  [k \in RowKeys |->
         IF k[3] \in old THEN 0
         ELSE IF k[3] = Carry
              THEN r[k] + MapThenSumSet(LAMBDA d : r[<<k[1], k[2], d>>], old)
              ELSE r[k]]

foldLocked(r, last, now) == IF now = last THEN r ELSE fold(r, now)

\* A version-1 total becomes the lifetime rows of nobody.
migrateV1(total) == [k \in RowKeys |-> IF k[1] = Nobody /\ k[3] = Carry THEN total[k[2]] ELSE 0]

\* OpenMeter: an unreadable file starts from zero, and from a fold yet to run.
Missing(i) == i = NoFile \/ content[i] = Unreadable

\* A first boot, or the first one of this version over a file of the last.
MeterInit ==
  /\ day = 1
  /\ \E total \in {0, 1} : carried = [k \in Counted |-> total]
  /\ \E i \in Inodes : /\ \A j \in Inodes : i =< j
                      /\ content = [j \in Inodes |-> IF j = i THEN migrateV1(carried) ELSE Unreadable]
                      /\ path \in {i} \union (IF carried[Turns] = 0 THEN {NoFile} ELSE {})
  /\ rows = migrateV1(carried)
  /\ folded = IF path = NoFile THEN Carry ELSE day
  /\ saver = [a \in Spenders |-> Resting]
  /\ tmp = NoFile
  /\ logged = [a \in Spenders |-> [k \in Counted |-> 0]]
  /\ restarts = 0
  /\ spoilt = TRUE

\* The day changes on the person's clock, or a change of zone takes it back.
Midnight == /\ day' \in {day - 1, day + 1} \intersect 1 .. MaxDay
            /\ UNCHANGED <<rows, folded, saver, files, logged, carried, restarts, spoilt>>

\* bookUsage and finish: the log has it first.
LogSpend(a, kind) ==
  /\ saver[a].pc = "idle"
  /\ MapThenSumSet(LAMBDA o : MapThenSumSet(LAMBDA k : logged[o][k], Counted), Spenders) < MaxBooked
  /\ logged' = [logged EXCEPT ![a][kind] = @ + 1]
  /\ saver' = [saver EXCEPT ![a].pc = "add", ![a].kind = kind, ![a].now = day]
  /\ UNCHANGED <<day, rows, folded, files, carried, restarts, spoilt>>

\* Record and FinishTurn count on the day they read before the lock.
Record(a) ==
  /\ saver[a].pc = "add"
  /\ rows' = [rows EXCEPT ![<<a, saver[a].kind, saver[a].now>>] = @ + 1]
  /\ saver' = [saver EXCEPT ![a].pc = "save"]
  /\ UNCHANGED <<day, folded, files, logged, carried, restarts, spoilt>>

Saving == {a \in Spenders : saver[a].pc \in {"open", "write", "rename"}}
Written == {saver[a].file : a \in Spenders}

Encode_ThenFold(a) ==
  /\ saver[a].pc = "save"
  /\ rows' = foldLocked(rows, folded, saver[a].now)
  /\ folded' = saver[a].now
  /\ saver' = [saver EXCEPT ![a].pc = "open", ![a].buf = rows]
  /\ spoilt' = (Saving # {})
  /\ UNCHANGED <<day, files, logged, carried, restarts>>

\* save, under the lock.
Encode(a) ==
  /\ saver[a].pc = "save"
  /\ rows' = foldLocked(rows, folded, saver[a].now)
  /\ folded' = saver[a].now
  /\ saver' = [saver EXCEPT ![a].pc = "open", ![a].buf = rows']
  /\ spoilt' = (Saving # {})
  /\ UNCHANGED <<day, files, logged, carried, restarts>>

\* An inode nobody has open and no name leads to.
FreeInodes == Inodes \ ({tmp, path} \union Written)

\* writeAtomic: os.WriteFile opens the file and cuts it to nothing ...
Open(a) ==
  /\ saver[a].pc = "open"
  /\ \E i \in IF tmp = NoFile THEN FreeInodes ELSE {tmp} :
       /\ \A j \in FreeInodes : tmp = NoFile => i =< j
       /\ tmp' = i
       /\ content' = [content EXCEPT ![i] = Unreadable]
       /\ saver' = [saver EXCEPT ![a].pc = "write", ![a].file = i]
  /\ UNCHANGED <<day, rows, folded, path, logged, carried, restarts, spoilt>>

\* ... and writes from its start: over what another wrote there, whose tail
\* stays when it is longer.
Write(a) ==
  LET i == saver[a].file IN
  /\ saver[a].pc = "write"
  /\ \E left \in IF content[i] = Unreadable THEN {saver[a].buf} ELSE {saver[a].buf, Unreadable} :
       content' = [content EXCEPT ![i] = left]
  /\ saver' = [saver EXCEPT ![a].pc = "rename"]
  /\ UNCHANGED <<day, rows, folded, tmp, path, logged, carried, restarts, spoilt>>

\* The rename finds no file when another writer has renamed it.  What it
\* replaces is gone, unless somebody is still writing to it.
Rename(a) ==
  /\ saver[a].pc = "rename"
  /\ path' = IF tmp = NoFile THEN path ELSE tmp
  /\ tmp' = NoFile
  /\ saver' = [saver EXCEPT ![a] = Resting]
  /\ content' = [i \in Inodes |-> IF i \in {path'} \union Written' THEN content[i] ELSE Unreadable]
  /\ UNCHANGED <<day, rows, folded, logged, carried, restarts, spoilt>>

\* The file cannot be opened, written to its end or renamed: save logs it, and
\* the meter carries on with a stale file on disk.
StaysStale(a) ==
  /\ a \in Saving
  /\ spoilt' = TRUE
  /\ saver' = [saver EXCEPT ![a] = Resting]
  /\ \E cut \in IF saver[a].pc = "write" THEN {{}, {saver[a].file}} ELSE {{}} :
       content' = [i \in Inodes |-> IF i \in ({tmp, path} \union Written') \ cut THEN content[i]
                                    ELSE Unreadable]
  /\ UNCHANGED <<day, rows, folded, tmp, path, logged, carried, restarts>>

\* The daemon stops, or its machine does, and starts again: OpenMeter.
OpenMeter ==
  /\ restarts < MaxRestarts
  /\ restarts' = restarts + 1
  /\ rows' = IF Missing(path) THEN NoRows ELSE fold(content[path], day)
  /\ folded' = IF Missing(path) THEN Carry ELSE day
  /\ saver' = [a \in Spenders |-> Resting]
  /\ spoilt' = TRUE
  /\ UNCHANGED <<day, files, logged, carried>>

MeterNext == \/ Midnight \/ OpenMeter
             \/ \E a \in Spenders : \/ \E k \in Counted : LogSpend(a, k)
                                    \/ Record(a) \/ Encode(a) \/ Open(a) \/ Write(a) \/ Rename(a)
                                    \/ StaysStale(a)

-----------------------------------------------------------------------------
(* Properties.                                                             *)

\* Bookings that are in the log and not yet in the rows.
Ahead(a, kind) == IF saver[a].pc = "add" /\ saver[a].kind = kind THEN 1 ELSE 0

\* What an agent is said to have spent in all is what its log says it spent:
\* no fold, no change of day and no zone adds or loses any of it, and after an
\* exit it is never more.  Nobody keeps what version 1 had counted.
SpendIsCounted ==
  /\ \A a \in Spenders, k \in Counted :
       /\ Lifetime(rows, a, k) + Ahead(a, k) =< logged[a][k]
       /\ restarts = 0 => Lifetime(rows, a, k) + Ahead(a, k) = logged[a][k]
  /\ restarts = 0 => \A k \in Counted : Lifetime(rows, Nobody, k) = carried[k]

\* Once nobody is saving, the file is the rows, if the last writer was alone and
\* its save did not fail.  So one that does puts right what two writers or a
\* failed save had left on disk.
FileCatchesUp ==
  (\A a \in Spenders : saver[a].pc = "idle") /\ ~spoilt
    => path # NoFile /\ content[path] = rows

\* The billing record: what was spent is counted once, and what is counted is
\* on disk after a save that was alone and did not fail (Record, FinishTurn,
\* foldLocked, save, writeAtomic, OpenMeter).
BillIsKept == SpendIsCounted /\ FileCatchesUp

\* "a crash between a turn and a flush would lose money" (save): between
\* bookings the file has all that is counted.  Not so: of two writers the later
\* to rename may have encoded the earlier rows, and a save that fails is only
\* logged ("the meter carries on with a stale file on disk", writeAtomic).
NothingUnsaved ==
  (\A a \in Spenders : saver[a].pc = "idle" /\ logged[a] # [k \in Counted |-> 0]) /\ restarts = 0
    => path # NoFile /\ content[path] = rows

\* "a crash mid-write leaves the previous contents rather than a truncated one"
\* (writeAtomic).  Not so of two writers at the one temporary file.
NeverTorn == path # NoFile => content[path] # Unreadable
=============================================================================
