------------------------------ MODULE EventLog ------------------------------
(* One agent's event log: the ids an instance of the agent stamps, the     *)
(* lines that reach events.jsonl, and a client that follows the log over a *)
(* stream and comes back with its Last-Event-ID.                           *)
(*                                                                         *)
(* A line is the id of its event; a line that will not parse is none.  An  *)
(* instance stopped in the middle of a turn goes on appending beside the   *)
(* one that was started after it, each with subscribers of its own.        *)
EXTENDS Naturals, Sequences, FiniteSets, FiniteSetsExt, SequencesExt

CONSTANTS Instances,   \* the agent's instances, in the order they start
          LogBuffer,   \* frames a subscriber may be behind
          MaxEvents,   \* bound: ids
          MaxMishaps,  \* bound: failed writes and exits
          MaxConnects  \* bound: streams opened

ASSUME EventLogAssumption == /\ Instances \subseteq Nat /\ Instances # {}
                             /\ {LogBuffer, MaxEvents, MaxMishaps, MaxConnects} \subseteq Nat

VARIABLES nextID,    \* of each instance that has started
          running,   \* the instances that may append
          lines,     \* the ids in the file that can be read
          partial,   \* the file ends in a part of a line
          stream,    \* the client's stream
          got,       \* the ids the client has been sent
          lastEventID,  \* the last of them
          mishaps, connects,
          beside,    \* history: two instances have appended
          missed     \* history: a frame was dropped, or a line lost

logVars == <<nextID, running, lines, partial, stream, got, lastEventID, mishaps, connects, beside, missed>>

NoStream == [pc |-> "none", on |-> 0, ch |-> <<>>]
First == Min(Instances)

\* A resume after as many events as there are.
OpenLog_Count(file) == Len(file) + 1

\* OpenLog: after the last entry.
OpenLog(file) == IF file = <<>> THEN 1 ELSE Last(file) + 1

\* after: the events of the file from the first that is newer than the id.
After(file, id) ==
  LET newer == {k \in 1 .. Len(file) : file[k] > id}
  IN  IF newer = {} THEN <<>> ELSE SubSeq(file, Min(newer), Len(file))

LogInit == /\ nextID = [i \in Instances |-> 1]
           /\ running = {First}
           /\ lines = <<>> /\ partial = FALSE
           /\ stream = NoStream
           /\ got = {} /\ lastEventID = 0
           /\ mishaps = 0 /\ connects = 0
           /\ beside = FALSE /\ missed = FALSE

Mishap == mishaps < MaxMishaps /\ mishaps' = mishaps + 1

\* Fan-out to a subscriber of this instance; one too far behind misses it.
Subscribed(i) == stream.pc \in {"replay", "live"} /\ stream.on = i
FanOut(i) ==
  LET full == Len(stream.ch) >= LogBuffer IN
  /\ stream' = IF Subscribed(i) /\ ~full THEN [stream EXCEPT !.ch = Append(@, nextID[i])] ELSE stream
  /\ missed' = (missed \/ (Subscribed(i) /\ full) \/ lines' = lines)

\* Append stamps the event, writes it and hands it on.  Written to the end of a
\* part of a line it becomes one line with it that nobody can read.
Stamp(i) ==
  /\ i \in running /\ nextID[i] =< MaxEvents
  /\ nextID' = [nextID EXCEPT ![i] = @ + 1]
  /\ FanOut(i)
  /\ beside' = (beside \/ Cardinality(running) > 1)
  /\ UNCHANGED <<running, got, lastEventID, connects>>

AppendEvent(i) == /\ lines' = IF partial THEN lines ELSE Append(lines, nextID[i])
                  /\ partial' = FALSE
                  /\ Stamp(i)
                  /\ UNCHANGED mishaps

\* The write fails, or stops short; the event is handed on all the same.
WriteLost(i) == /\ UNCHANGED lines
                /\ partial' \in {partial, TRUE}
                /\ Stamp(i)
                /\ Mishap

\* The next instance opens the log, alone or beside those still in a turn.
Start(i) == /\ \A j \in running : j < i
            /\ \E left \in SUBSET running : running' = left \union {i}
            /\ nextID' = [nextID EXCEPT ![i] = OpenLog(lines)]
            /\ UNCHANGED <<lines, partial, stream, got, lastEventID, mishaps, connects, beside, missed>>

\* A turn that was stopped has wound down.
WindDown(i) == /\ i \in running /\ i < Max(running)
               /\ running' = running \ {i}
               /\ UNCHANGED <<nextID, lines, partial, stream, got, lastEventID, mishaps, connects, beside, missed>>

\* The machine stops, in the middle of a line perhaps, and starts the agent.  Lines
\* are not synced: killed, it leaves the file without the last of them.
RestartLog == /\ Mishap
              /\ running' = {First}
              /\ \E kept \in 0 .. Len(lines) : lines' = SubSeq(lines, 1, kept)
              /\ missed' = (missed \/ lines' # lines)
              /\ nextID' = [nextID EXCEPT ![First] = OpenLog(lines')]
              /\ partial' \in BOOLEAN
              /\ stream' = NoStream
              /\ UNCHANGED <<got, lastEventID, connects, beside>>

\* Client.Stream and handleEvents: a stream to the instance of now.
Connect == /\ stream.pc = "none"
           /\ connects < MaxConnects
           /\ connects' = connects + 1
           /\ stream' = [pc |-> "open", on |-> Max(running), ch |-> <<>>]
           /\ UNCHANGED <<nextID, running, lines, partial, got, lastEventID, mishaps, beside, missed>>

\* emit: nothing that is not newer is sent.
Emit(ids) ==
  LET newer == {id \in ids : id > lastEventID} IN
  /\ got' = got \union newer
  /\ lastEventID' = Max({lastEventID} \union newer)

Step(from, to) == stream.pc = from /\ stream' = [stream EXCEPT !.pc = to]

\* stream subscribes ...
Subscribe ==
  /\ Step("open", "replay")
  /\ UNCHANGED <<nextID, running, lines, partial, got, lastEventID, mishaps, connects, beside, missed>>

\* ... and replays the file from the client's Last-Event-ID ...
Replay ==
  /\ Step("replay", "live")
  /\ Emit(ToSet(After(lines, lastEventID)))
  /\ UNCHANGED <<nextID, running, lines, partial, mishaps, connects, beside, missed>>

\* ... and then forwards what is appended: pump.
Forward ==
  /\ stream.pc = "live" /\ stream.ch # <<>>
  /\ stream' = [stream EXCEPT !.ch = Tail(@)]
  /\ Emit({Head(stream.ch)})
  /\ UNCHANGED <<nextID, running, lines, partial, mishaps, connects, beside, missed>>

\* The connection breaks, or the client hears nothing for stallAfter.
Break == /\ stream.pc # "none"
         /\ stream' = NoStream
         /\ UNCHANGED <<nextID, running, lines, partial, got, lastEventID, mishaps, connects, beside, missed>>

LogNext == \/ RestartLog \/ Connect \/ Subscribe \/ Replay \/ Forward \/ Break
           \/ \E i \in Instances : AppendEvent(i) \/ WriteLost(i) \/ Start(i) \/ WindDown(i)

-----------------------------------------------------------------------------
(* Properties.                                                             *)

\* The file's ids ascend, however often the agent is started and whatever lines
\* are lost, as long as no instance appends beside another (OpenLog, Append,
\* ReadAll).
LogAscends == ~beside => \A k \in 1 .. Len(lines) - 1 : lines[k] < lines[k + 1]

\* A client has been sent all of the file up to its Last-Event-ID, so that what
\* it is sent on its return leaves no gap, unless a frame was dropped for it, a
\* line was lost or two instances wrote (stream, pump, emit, after).
NoGap == ~beside /\ ~missed => \A id \in ToSet(lines) : id =< lastEventID => id \in got

LogStands == LogAscends /\ NoGap

\* "resuming ids after the last entry so a restart continues the sequence
\* rather than replaying ids a client has already seen" (OpenLog).  Not so of
\* an event whose line did not reach the file.
IdsAreNew == [][Len(lines') > Len(lines) /\ ~beside' => Last(lines') \notin got]_logVars

\* "stream replays what the client missed, then forwards live events".  Not so
\* when the agent is rebuilt: the stream stays with the log of the instance it
\* was opened on, and beats.
StreamForwards ==
  [][stream.pc = "live" /\ Len(lines') > Len(lines) /\ Len(stream.ch) < LogBuffer
       => stream'.ch = Append(stream.ch, Last(lines'))]_logVars

\* "a truncated final line after a hard kill must not blind the whole log"
\* (ReadAll).  It does not, but it takes the event after it along.
AppendedIsRead == [][nextID' # nextID /\ mishaps' = mishaps /\ running' = running => lines' # lines]_logVars

\* "SSE replay needs them unique" (recycleIfStale, of ids).  They are not when
\* an agent is stopped in its turn.
IdsAreUnique == \A j, k \in 1 .. Len(lines) : lines[j] = lines[k] => j = k
=============================================================================
