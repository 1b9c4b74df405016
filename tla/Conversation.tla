---------------------------- MODULE Conversation ----------------------------
(* One agent's conversation: what a turn asks the model with, what of a    *)
(* turn is kept, what is written to conversation.json, and how the oldest  *)
(* part is replaced by a summary between turns.                            *)
(*                                                                         *)
(* A message is what the model service's rules tell apart: an ask or a     *)
(* summary (a user message without tool results), results, a say, or uses  *)
(* (an assistant message without and with tool calls).  A turn's results   *)
(* answer all the calls of the message before them.  One goroutine does    *)
(* all of this; an instance that outlives its successor's start is in      *)
(* AgentTeam.                                                              *)
EXTENDS Naturals, Sequences, FiniteSetsExt, Functions

CONSTANTS MaxIterations,   \* maxIterations: replies of one turn
          CompactAt,       \* compactAtTokens and compactAtBytes, in messages
          KeepDivisor,     \* keepDivisor
          MaxTurns,        \* bound: turns
          MaxFaults,       \* bound: failed calls and exits
          Torn             \* a file cut short

ASSUME ConversationAssumption == /\ MaxIterations \in Nat \ {0}
                                 /\ CompactAt \in Nat
                                 /\ KeepDivisor \in Nat \ {0}
                                 /\ MaxTurns \in Nat
                                 /\ MaxFaults \in Nat

VARIABLES hist,        \* a.messages
          cand,        \* the runner's messages
          iterations,  \* the runner's replies
          disk,        \* conversation.json
          prev,        \* conversation.prev.json
          step,        \* where the goroutine is
          lastInput, convBytes,
          turns,
          faults,
          gone         \* history: what the file has lost since it was copied

talkVars == <<hist, cand, iterations, disk, prev, step, lastInput, convBytes, turns, faults, gone>>

Kinds == {"ask", "summary", "results", "say", "uses"}
Messages == [kind : Kinds, turn : Nat]
Starts == {"ask", "summary"}      \* user messages without tool results
Message(kind) == [kind |-> kind, turn |-> turns]

\* The model service's rule: calls are answered by the very next message, and
\* nothing is answered that was not called.
Answered(h) ==
  /\ Len(h) > 0 => h[1].kind \in Starts
  /\ \A i \in 1 .. Len(h) : h[i].kind = "results" => i > 1 /\ h[i - 1].kind = "uses"
  /\ \A i \in 1 .. Len(h) - 1 : h[i].kind = "uses" => h[i + 1].kind = "results"

danglingUses(h) == Len(h) > 0 /\ h[Len(h)].kind = "uses"
WellFormed(h) == Answered(h) /\ ~danglingUses(h)

repairTail(h) == IF danglingUses(h) THEN Append(h, [kind |-> "results", turn |-> h[Len(h)].turn])
                 ELSE h

\* A cut at any user message, which loses sight of the call a result answers.
cutPoint_AnyUser(h, target) ==
  LET safe == {i \in target + 1 .. Len(h) : h[i].kind \in Starts \union {"results"}}
  IN  IF safe = {} THEN 0 ELSE Min(safe)

\* The message a history can be cut before, at or after target (counted from
\* zero there); 0 when there is none.
cutPoint(h, target) ==
  LET safe == {i \in target + 1 .. Len(h) : h[i].kind \in Starts}
  IN  IF safe = {} THEN 0 ELSE Min(safe)

Target(h) == Len(h) - Len(h) \div KeepDivisor

synthPair == <<[kind |-> "summary", turn |-> 0], [kind |-> "say", turn |-> 0]>>
Compacted(h, cut) == synthPair \o SubSeq(h, cut, Len(h))

\* A file of an older version may end in calls nobody answered.
TalkInit ==
  /\ \E legacy \in {<<>>, <<[kind |-> "ask", turn |-> 0], [kind |-> "uses", turn |-> 0]>>} :
       /\ disk = legacy
       /\ hist = repairTail(legacy)
       /\ convBytes = Len(legacy)
  /\ cand = <<>> /\ iterations = 0
  /\ prev = <<>>
  /\ step = "idle"
  /\ lastInput = 0
  /\ turns = 0 /\ faults = 0
  /\ gone = {}

\* Something fails that may fail.
Fault == faults < MaxFaults /\ faults' = faults + 1

\* turn: the candidate is a copy with the message at its end.
Turn == /\ step = "idle" /\ turns < MaxTurns
        /\ turns' = turns + 1
        /\ cand' = Append(hist, [kind |-> "ask", turn |-> turns'])
        /\ iterations' = 0
        /\ step' = "asking"
        /\ UNCHANGED <<hist, disk, prev, lastInput, convBytes, faults, gone>>

\* NextMessage: the model's reply.  A reply without calls ends the turn well,
\* and so does one with calls that it broke off (refusal, max_tokens).
Reply == /\ step = "asking"
         /\ iterations' = iterations + 1
         /\ lastInput' = Len(cand)
         /\ \E kind \in {"say", "uses"} :
              /\ cand' = Append(cand, Message(kind))
              /\ step' \in IF kind = "uses" THEN {"tools", "adopt"} ELSE {"adopt"}
         /\ UNCHANGED <<hist, disk, prev, convBytes, turns, faults, gone>>

\* NextMessage again: the ceiling is looked at before the calls are run.
RunTools == /\ step = "tools"
            /\ IF iterations >= MaxIterations
               THEN step' = "adopt" /\ UNCHANGED cand
               ELSE step' = "asking" /\ cand' = Append(cand, Message("results"))
            /\ UNCHANGED <<hist, iterations, disk, prev, lastInput, convBytes, turns, faults, gone>>

\* The request fails, or the person stops the turn: the candidate is dropped.
Rollback == /\ step \in {"asking", "tools"}
            /\ Fault
            /\ cand' = <<>> /\ iterations' = 0
            /\ step' = "compact"
            /\ UNCHANGED <<hist, disk, prev, lastInput, convBytes, turns, gone>>

adopt == /\ step = "adopt"
         /\ hist' = repairTail(cand)
         /\ cand' = <<>> /\ iterations' = 0
         /\ step' = "save"
         /\ UNCHANGED <<disk, prev, lastInput, convBytes, turns, faults, gone>>

\* save, of a turn or of a compaction: the file is replaced by a rename.
save == /\ step \in {"save", "saveCompacted"}
        /\ disk' = hist
        /\ convBytes' = Len(hist)
        /\ gone' = gone \union (Range(disk) \ Range(hist))
        /\ step' = IF step = "save" THEN "compact" ELSE "idle"
        /\ UNCHANGED <<hist, cand, iterations, prev, lastInput, turns, faults>>

\* The write fails, or the rename after the size was noted: nobody is told of
\* it after a turn, and the agent goes on with what it has in memory.
SaveFails == /\ step \in {"save", "saveCompacted"}
             /\ Fault
             /\ convBytes' \in {convBytes, Len(hist)}
             /\ step' = IF step = "save" THEN "compact" ELSE "idle"
             /\ UNCHANGED <<hist, cand, iterations, disk, prev, lastInput, turns, gone>>

needsCompaction == lastInput > CompactAt \/ convBytes > CompactAt
cut == cutPoint(hist, Target(hist))

\* compactIfNeeded: nothing to do, nowhere to cut, or a summary to ask for.
Measure == /\ step = "compact"
           /\ step' = IF needsCompaction /\ cut > 1 THEN "summarize" ELSE "idle"
           /\ UNCHANGED <<hist, cand, iterations, disk, prev, lastInput, convBytes, turns, faults, gone>>

Summarize == /\ step = "summarize"
             /\ \/ step' = "backup" /\ UNCHANGED faults
                \/ step' = "idle" /\ Fault
             /\ UNCHANGED <<hist, cand, iterations, disk, prev, lastInput, convBytes, turns, gone>>

\* backupConversation, with no file to copy at first; a failed copy stays.
Backup == /\ step = "backup"
          /\ \/ /\ prev' = IF disk = <<>> THEN prev ELSE disk
                /\ gone' = {}
                /\ step' = "swap" /\ UNCHANGED faults
             \/ /\ prev' \in {prev, Torn}
                /\ step' = "idle" /\ Fault /\ UNCHANGED gone
          /\ UNCHANGED <<hist, cand, iterations, disk, lastInput, convBytes, turns>>

applyCompaction ==
  /\ step = "swap"
  /\ hist' = Compacted(hist, cut)
  /\ lastInput' = 0
  /\ step' = "saveCompacted"
  /\ UNCHANGED <<cand, iterations, disk, prev, convBytes, turns, faults, gone>>

\* The daemon exits, in the middle of the copy perhaps, and load reads what is
\* on disk.
Restart ==
  /\ Fault
  /\ prev' \in IF step = "backup" THEN {prev, Torn} ELSE {prev}
  /\ hist' = repairTail(disk)
  /\ cand' = <<>> /\ iterations' = 0
  /\ step' = "idle"
  /\ lastInput' = 0
  /\ convBytes' = Len(disk)
  /\ UNCHANGED <<disk, turns, gone>>

TalkNext == \/ Turn \/ Reply \/ RunTools \/ Rollback \/ adopt \/ save \/ SaveFails
            \/ Measure \/ Summarize \/ Backup \/ applyCompaction \/ Restart

TalkSpec == TalkInit /\ [][TalkNext]_talkVars

-----------------------------------------------------------------------------
(* Properties.                                                             *)

TalkTypeOK ==
  /\ hist \in Seq(Messages) /\ cand \in Seq(Messages) /\ disk \in Seq(Messages)
  /\ prev \in Seq(Messages) \union {Torn}
  /\ iterations \in Nat /\ lastInput \in Nat /\ convBytes \in Nat
  /\ turns \in Nat /\ faults \in Nat
  /\ gone \subseteq Messages
  /\ step \in {"idle", "asking", "tools", "adopt", "save", "compact",
               "summarize", "backup", "swap", "saveCompacted"}

\* No request is ever malformed: what the model is asked with answers each call
\* in the next message and nothing that was not called, whatever stopped the
\* turns before, wherever the history was cut and whenever the daemon exited
\* (turn, adopt, repairTail, cutPoint, load).
RequestsWellFormed == step = "asking" => WellFormed(cand)

\* What the file lost to a compaction is in the copy beside it, as long as a
\* later compaction has not begun to make its own (backupConversation,
\* applyCompaction, save).
RollbackKept == prev # Torn => gone \subseteq Range(prev)

\* The conversation can always go on, and what was summarised can be read back.
ConversationSound == RequestsWellFormed /\ RollbackKept

\* "keeping one rollback copy. Any failure leaves the conversation as it was"
\* (applyCompaction).  Not so: when the compacted history cannot be saved, the
\* agent goes on with it.
FailureLeavesConversation ==
  [][step = "saveCompacted" /\ step' = "idle" /\ disk' = disk => hist' = disk']_talkVars

\* "so a bad summary is recoverable" (backupConversation).  Not so of a turn
\* whose save failed: the copy is of the file.
SummaryRecoverable ==
  [][step' = "saveCompacted" /\ step = "swap" => Range(hist) \ Range(hist') \subseteq Range(prev)]_talkVars

\* "The API needs the roles to alternate" (ackSummary).  Not so of a request:
\* results put in for calls that never ran are followed by the next message.
RolesAlternate ==
  step = "asking" => \A i \in 1 .. Len(cand) - 1 :
                       (cand[i].kind \in {"say", "uses"}) # (cand[i + 1].kind \in {"say", "uses"})
=============================================================================
