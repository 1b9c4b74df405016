----------------------------- MODULE TurnProofs -----------------------------
(* Proofs of what a turn leaves on disk.  A conversation can always go on, *)
(* and what was summarised can be read back, for every ceiling, every size *)
(* at which it is compacted and every number of turns and faults.  The     *)
(* numbers an agent gives its files and its events go on meaning what they *)
(* meant, for every number of handlers, instances, files kept and frames   *)
(* buffered.  What was spent is counted once and is on disk between        *)
(* bookings, and the host says no more of it than it cost, for every       *)
(* number of agents, calendar, report, price table and number of polls.    *)
EXTENDS MCTurn, NumberLemmas, SequenceTheorems, FiniteSetTheorems

\* The turn's candidate: well-formed whenever the model is asked, and the
\* history with more at its end.
CandidateSound ==
    step \in {"asking", "tools", "adopt"} =>
      /\ Len(cand) > 0
      /\ Answered(cand)
      /\ step = "asking" => ~danglingUses(cand)
      /\ step = "tools" => danglingUses(cand)
      /\ Range(hist) \subseteq Range(cand)

\* A compaction under way has a place to cut at.
CutFound == step \in {"summarize", "backup", "swap"} => cut > 1

\* What the file has lost, and what its next save will lose, is in the copy.
CopyHolds == prev # Torn => gone \union (Range(disk) \ Range(hist)) \subseteq Range(prev)

\* The copy a compaction is about to rely on is of the file as it is.
CopyFresh == step = "swap" /\ prev # Torn => Range(disk) \subseteq Range(prev)

TalkInv == /\ TalkTypeOK
           /\ WellFormed(hist) /\ Answered(disk)
           /\ CandidateSound /\ CutFound /\ CopyHolds /\ CopyFresh

-----------------------------------------------------------------------------
(* Histories.                                                              *)

\* A message that is not results may follow a history that is well-formed, and
\* a user message may begin one (turn, NextMessage).
LEMMA AppendKeepsAnswered ==
    ASSUME NEW h \in Seq(Messages), WellFormed(h), NEW m \in Messages,
           m.kind # "results", Len(h) = 0 => m.kind \in Starts
    PROVE  Answered(Append(h, m))
<1> DEFINE g == Append(h, m)
<1>1. /\ Len(g) = Len(h) + 1 /\ Len(h) \in Nat
      /\ \A i \in 1 .. Len(h) : g[i] = h[i]
      /\ g[Len(h) + 1] = m
  OBVIOUS
<1> HIDE DEF g
<1>2. Len(g) > 0 => g[1].kind \in Starts
  BY <1>1 DEF WellFormed, Answered
<1>3. \A i \in 1 .. Len(g) : g[i].kind = "results" => i > 1 /\ g[i - 1].kind = "uses"
  <2> SUFFICES ASSUME NEW i \in 1 .. Len(g), g[i].kind = "results"
               PROVE  i > 1 /\ g[i - 1].kind = "uses"
    OBVIOUS
  <2>1. i \in 1 .. Len(h) /\ h[i].kind = "results"
    BY <1>1
  <2>2. i > 1 /\ h[i - 1].kind = "uses"
    BY <2>1 DEF WellFormed, Answered
  <2> QED
    BY <1>1, <2>1, <2>2
<1>4. \A i \in 1 .. Len(g) - 1 : g[i].kind = "uses" => g[i + 1].kind = "results"
  <2> SUFFICES ASSUME NEW i \in 1 .. Len(g) - 1, g[i].kind = "uses"
               PROVE  g[i + 1].kind = "results"
    OBVIOUS
  <2>1. i \in 1 .. Len(h) /\ h[i].kind = "uses"
    BY <1>1
  <2>2. i # Len(h)
    BY <2>1 DEF WellFormed, danglingUses
  <2>3. i \in 1 .. Len(h) - 1 /\ i + 1 \in 1 .. Len(h)
    BY <1>1, <2>1, <2>2
  <2>4. h[i + 1].kind = "results"
    BY <2>1, <2>3 DEF WellFormed, Answered
  <2> QED
    BY <1>1, <2>3, <2>4
<1> QED
  BY <1>2, <1>3, <1>4 DEF Answered, g

\* Results answer the calls at the end (RunTools, repairTail).
LEMMA ResultsAnswer ==
    ASSUME NEW h \in Seq(Messages), Answered(h), danglingUses(h),
           NEW m \in Messages, m.kind = "results"
    PROVE  WellFormed(Append(h, m))
<1> DEFINE g == Append(h, m)
<1>1. /\ Len(g) = Len(h) + 1 /\ Len(h) \in Nat \ {0}
      /\ \A i \in 1 .. Len(h) : g[i] = h[i]
      /\ g[Len(h) + 1] = m
      /\ h[Len(h)].kind = "uses"
  BY DEF danglingUses
<1> HIDE DEF g
<1>2. g[1].kind \in Starts
  BY <1>1 DEF Answered
<1>3. \A i \in 1 .. Len(g) : g[i].kind = "results" => i > 1 /\ g[i - 1].kind = "uses"
  <2> SUFFICES ASSUME NEW i \in 1 .. Len(g), g[i].kind = "results"
               PROVE  i > 1 /\ g[i - 1].kind = "uses"
    OBVIOUS
  <2>1. CASE i = Len(h) + 1
    BY <1>1, <2>1
  <2>2. CASE i # Len(h) + 1
    <3>1. i \in 1 .. Len(h) /\ h[i].kind = "results"
      BY <1>1, <2>2
    <3>2. i > 1 /\ h[i - 1].kind = "uses"
      BY <3>1 DEF Answered
    <3> QED
      BY <1>1, <3>1, <3>2
  <2> QED
    BY <2>1, <2>2
<1>4. \A i \in 1 .. Len(g) - 1 : g[i].kind = "uses" => g[i + 1].kind = "results"
  <2> SUFFICES ASSUME NEW i \in 1 .. Len(g) - 1, g[i].kind = "uses"
               PROVE  g[i + 1].kind = "results"
    OBVIOUS
  <2>1. CASE i = Len(h)
    BY <1>1, <2>1
  <2>2. CASE i # Len(h)
    <3>1. i \in 1 .. Len(h) - 1 /\ i + 1 \in 1 .. Len(h) /\ h[i].kind = "uses"
      BY <1>1, <2>2
    <3>2. h[i + 1].kind = "results"
      BY <3>1 DEF Answered
    <3> QED
      BY <1>1, <3>1, <3>2
  <2> QED
    BY <2>1, <2>2
<1>5. ~danglingUses(g)
  BY <1>1 DEF danglingUses
<1> QED
  BY <1>2, <1>3, <1>4, <1>5 DEF WellFormed, Answered, g

\* Nothing is lost by appending.
LEMMA AppendKeepsAll ==
    ASSUME NEW h \in Seq(Messages), NEW m \in Messages
    PROVE  Append(h, m) \in Seq(Messages) /\ Range(h) \subseteq Range(Append(h, m))
<1>1. \A i \in DOMAIN h : i \in DOMAIN Append(h, m) /\ Append(h, m)[i] = h[i]
  OBVIOUS
<1> QED
  BY <1>1 DEF Range

\* A repaired history can be sent, and has all that it had (repairTail).
LEMMA RepairSound ==
    ASSUME NEW h \in Seq(Messages), Answered(h)
    PROVE  /\ repairTail(h) \in Seq(Messages)
           /\ WellFormed(repairTail(h))
           /\ Range(h) \subseteq Range(repairTail(h))
<1>1. CASE danglingUses(h)
  <2>0. h[Len(h)] \in Messages
    BY <1>1 DEF danglingUses
  <2>1. [kind |-> "results", turn |-> h[Len(h)].turn] \in Messages
    BY <2>0 DEF Messages, Kinds
  <2> QED
    BY <1>1, <2>1, ResultsAnswer, AppendKeepsAll DEF repairTail
<1>2. CASE ~danglingUses(h)
  BY <1>2 DEF repairTail, WellFormed
<1> QED
  BY <1>1, <1>2

\* Where there is a place to cut, it is a message that begins a conversation
\* (cutPoint).
LEMMA CutIsSafe ==
    ASSUME NEW h \in Seq(Messages), NEW target \in Nat, cutPoint(h, target) > 1
    PROVE  /\ cutPoint(h, target) \in 2 .. Len(h)
           /\ h[cutPoint(h, target)].kind \in Starts
<1> DEFINE allowed == {i \in target + 1 .. Len(h) : h[i].kind \in Starts}
<1>1. allowed # {} /\ cutPoint(h, target) = Min(allowed)
  BY DEF cutPoint
<1>2. allowed \in SUBSET Nat
  OBVIOUS
<1>3. Min(allowed) \in allowed
  BY <1>1, <1>2, LeastNatural DEF Min
<1> QED
  BY <1>1, <1>3

\* The newer part of a history is what is kept (compactIfNeeded).
LEMMA TargetIsNatural == ASSUME NEW h \in Seq(Messages) PROVE Target(h) \in Nat
<1>1. Len(h) \in Nat /\ KeepDivisor \in Nat \ {0}
  BY ConversationAssumption
<1>2. Len(h) \div KeepDivisor \in 0 .. Len(h)
  BY <1>1, Z3
<1> QED
  BY <1>1, <1>2 DEF Target

\* What follows the summary of a history is a history (applyCompaction).
LEMMA CompactedSound ==
    ASSUME NEW h \in Seq(Messages), WellFormed(h), NEW c \in 2 .. Len(h), h[c].kind \in Starts
    PROVE  Compacted(h, c) \in Seq(Messages) /\ WellFormed(Compacted(h, c))
<1> DEFINE tail == SubSeq(h, c, Len(h))
           g == synthPair \o tail
<1>1. synthPair \in Seq(Messages) /\ Len(synthPair) = 2
      /\ synthPair[1].kind = "summary" /\ synthPair[2].kind = "say"
  BY DEF synthPair, Messages, Kinds
<1>2. /\ tail \in Seq(Messages) /\ Len(tail) = Len(h) - c + 1
      /\ \A i \in 1 .. Len(tail) : tail[i] = h[c + i - 1]
  OBVIOUS
<1> HIDE DEF tail
<1>3. /\ g \in Seq(Messages) /\ Len(g) = Len(h) - c + 3
      /\ g[1] = synthPair[1] /\ g[2] = synthPair[2]
      /\ \A i \in 3 .. Len(g) : g[i] = h[c + i - 3]
  <2>1. /\ g \in Seq(Messages) /\ Len(g) = Len(synthPair) + Len(tail)
        /\ \A i \in 1 .. Len(synthPair) + Len(tail) :
             g[i] = IF i <= Len(synthPair) THEN synthPair[i] ELSE tail[i - Len(synthPair)]
    BY <1>1, <1>2, ConcatProperties
  <2> HIDE DEF g
  <2>2. Len(tail) \in Nat /\ Len(h) \in Nat /\ Len(g) = 2 + Len(tail)
    BY <1>1, <1>2, <2>1
  <2>3. \A i \in 1 .. 2 + Len(tail) : g[i] = IF i <= 2 THEN synthPair[i] ELSE tail[i - 2]
    BY <1>1, <2>1
  <2>4. g[1] = synthPair[1] /\ g[2] = synthPair[2]
    BY <2>2, <2>3
  <2>5. ASSUME NEW i \in 3 .. Len(g) PROVE g[i] = h[c + i - 3]
    <3>1. i - 2 \in 1 .. Len(tail) /\ c + (i - 2) - 1 = c + i - 3
      BY <2>2
    <3>2. g[i] = tail[i - 2]
      BY <2>2, <2>3
    <3> QED
      BY <1>2, <3>1, <3>2
  <2>6. Len(g) = Len(h) - c + 3
    BY <1>2, <2>2
  <2> QED
    BY <2>1, <2>4, <2>5, <2>6
<1> HIDE DEF g
<1>4. g[1].kind \in Starts
  BY <1>1, <1>3 DEF Starts
<1>5. \A i \in 1 .. Len(g) : g[i].kind = "results" => i > 1 /\ g[i - 1].kind = "uses"
  <2> SUFFICES ASSUME NEW i \in 1 .. Len(g), g[i].kind = "results"
               PROVE  i > 1 /\ g[i - 1].kind = "uses"
    OBVIOUS
  <2>1. i \in 3 .. Len(g)
    BY <1>1, <1>3
  <2>2. i # 3
    BY <1>3, <2>1 DEF Starts
  <2>3. c + i - 3 \in 1 .. Len(h) /\ h[c + i - 3].kind = "results"
    BY <1>3, <2>1
  <2>4. h[(c + i - 3) - 1].kind = "uses"
    BY <2>3 DEF WellFormed, Answered
  <2>5. i - 1 \in 3 .. Len(g) /\ g[i - 1] = h[c + (i - 1) - 3] /\ c + (i - 1) - 3 = (c + i - 3) - 1
    BY <1>3, <2>1, <2>2
  <2> QED
    BY <2>1, <2>4, <2>5
<1>6. \A i \in 1 .. Len(g) - 1 : g[i].kind = "uses" => g[i + 1].kind = "results"
  <2> SUFFICES ASSUME NEW i \in 1 .. Len(g) - 1, g[i].kind = "uses"
               PROVE  g[i + 1].kind = "results"
    OBVIOUS
  <2>1. i \in 3 .. Len(g)
    BY <1>1, <1>3
  <2>2. /\ c + i - 3 \in 1 .. Len(h) - 1 /\ h[c + i - 3].kind = "uses"
        /\ c + (i + 1) - 3 = (c + i - 3) + 1 /\ i + 1 \in 3 .. Len(g)
    BY <1>3, <2>1
  <2>3. h[(c + i - 3) + 1].kind = "results"
    BY <2>2 DEF WellFormed, Answered
  <2> QED
    BY <1>3, <2>2, <2>3
<1>7. ~danglingUses(g)
  <2>1. Len(g) \in 3 .. Len(g) /\ c + Len(g) - 3 = Len(h) /\ g[Len(g)] = h[Len(h)] /\ Len(h) > 0
    BY <1>3
  <2> QED
    BY <2>1 DEF danglingUses, WellFormed
<1> QED
  BY <1>3, <1>4, <1>5, <1>6, <1>7 DEF WellFormed, Answered, Compacted, g, tail

-----------------------------------------------------------------------------
(* The daemon.                                                             *)

\* A file that ends in calls nobody answered is a history, to be repaired.
LEMMA InitEstablishes == TalkInit => TalkInv
<1> SUFFICES ASSUME TalkInit PROVE TalkInv
  OBVIOUS
<1>1. /\ cand = <<>> /\ iterations = 0 /\ prev = <<>> /\ step = "idle" /\ lastInput = 0
      /\ turns = 0 /\ faults = 0 /\ gone = {}
      /\ hist = repairTail(disk) /\ convBytes = Len(disk)
  BY DEF TalkInit
<1>2. disk \in Seq(Messages) /\ Answered(disk)
  <2>1. CASE disk = <<>>
    BY <2>1 DEF Answered
  <2>2. CASE disk = <<[kind |-> "ask", turn |-> 0], [kind |-> "uses", turn |-> 0]>>
    <3>1. disk \in Seq(Messages) /\ Len(disk) = 2
      BY <2>2 DEF Messages, Kinds
    <3>2. disk[1].kind = "ask" /\ disk[2].kind = "uses"
      BY <2>2
    <3> QED
      BY <3>1, <3>2 DEF Answered, Starts
  <2> QED
    BY <2>1, <2>2 DEF TalkInit
<1>3. hist \in Seq(Messages) /\ WellFormed(hist) /\ Range(disk) \subseteq Range(hist)
  BY <1>1, <1>2, RepairSound
<1>4. cand \in Seq(Messages) /\ prev \in Seq(Messages) /\ convBytes \in Nat
  BY <1>1, <1>2
<1> QED
  BY <1>1, <1>2, <1>3, <1>4 DEF TalkInv, TalkTypeOK, CandidateSound, CutFound, CopyHolds, CopyFresh

\* A step that moves neither the history nor the file nor its copy.
LEMMA FilesStand ==
    ASSUME TalkInv, UNCHANGED <<hist, disk, prev, gone>>, step' \notin {"summarize", "backup", "swap"}
    PROVE  /\ hist' \in Seq(Messages) /\ disk' \in Seq(Messages)
           /\ prev' \in Seq(Messages) \union {Torn} /\ gone' \subseteq Messages
           /\ WellFormed(hist') /\ Answered(disk')
           /\ CutFound' /\ CopyHolds' /\ CopyFresh'
  BY DEF TalkInv, TalkTypeOK, CutFound, CopyHolds, CopyFresh

\* Every step of the agent's goroutine, and the exit of the daemon.
LEMMA StepPreserves == TalkInv /\ [TalkNext]_talkVars => TalkInv'
<1> SUFFICES ASSUME TalkInv, [TalkNext]_talkVars PROVE TalkInv'
  OBVIOUS
<1> USE ConversationAssumption
<1>1. CASE Turn
  <2>1. Message("ask")' \in Messages /\ Message("ask")'.kind = "ask"
    BY <1>1 DEF Turn, Message, Messages, Kinds, TalkInv, TalkTypeOK
  <2>2. cand' = Append(hist, Message("ask")')
    BY <1>1 DEF Turn, Message
  <2>3. hist \in Seq(Messages) /\ WellFormed(hist)
    BY DEF TalkInv, TalkTypeOK
  <2>4. cand' \in Seq(Messages) /\ Answered(cand') /\ Range(hist) \subseteq Range(cand')
    BY <2>1, <2>2, <2>3, AppendKeepsAnswered, AppendKeepsAll DEF Starts
  <2>5. Len(cand') > 0 /\ ~danglingUses(cand')
    BY <2>1, <2>2, <2>3 DEF danglingUses
  <2>6. step' = "asking" /\ UNCHANGED <<hist, disk, prev, gone>>
    BY <1>1 DEF Turn
  <2>7. TalkTypeOK'
    BY <1>1, <2>4, <2>6, FilesStand DEF Turn, TalkInv, TalkTypeOK
  <2>8. CandidateSound'
    BY <2>4, <2>5, <2>6 DEF CandidateSound
  <2> QED
    BY <2>6, <2>7, <2>8, FilesStand DEF TalkInv
<1>2. CASE Reply
  <2>1. PICK kind \in {"say", "uses"} :
          /\ cand' = Append(cand, Message(kind))
          /\ step' \in IF kind = "uses" THEN {"tools", "adopt"} ELSE {"adopt"}
    BY <1>2 DEF Reply
  <2>2. Message(kind) \in Messages /\ Message(kind).kind = kind
    BY <2>1 DEF Message, Messages, Kinds, TalkInv, TalkTypeOK
  <2>3. /\ cand \in Seq(Messages) /\ WellFormed(cand) /\ Len(cand) > 0
        /\ Range(hist) \subseteq Range(cand)
    BY <1>2 DEF Reply, TalkInv, TalkTypeOK, CandidateSound, WellFormed
  <2>4. cand' \in Seq(Messages) /\ Answered(cand') /\ Range(hist) \subseteq Range(cand')
    BY <2>1, <2>2, <2>3, AppendKeepsAnswered, AppendKeepsAll
  <2>5. Len(cand') > 0 /\ (kind = "uses" => danglingUses(cand'))
    BY <2>1, <2>2, <2>3 DEF danglingUses
  <2>6. step' \in {"tools", "adopt"} /\ UNCHANGED <<hist, disk, prev, gone>>
    BY <1>2, <2>1 DEF Reply
  <2>7. TalkTypeOK'
    <3>1. lastInput' \in Nat /\ iterations' \in Nat
      BY <1>2, <2>3 DEF Reply, TalkInv, TalkTypeOK
    <3> QED
      BY <1>2, <2>4, <2>6, <3>1, FilesStand DEF Reply, TalkInv, TalkTypeOK
  <2>8. CandidateSound'
    BY <2>1, <2>4, <2>5, <2>6 DEF CandidateSound
  <2> QED
    BY <2>6, <2>7, <2>8, FilesStand DEF TalkInv
<1>3. CASE RunTools
  <2>1. /\ cand \in Seq(Messages) /\ Answered(cand) /\ danglingUses(cand)
        /\ Len(cand) > 0 /\ Range(hist) \subseteq Range(cand)
    BY <1>3 DEF RunTools, TalkInv, TalkTypeOK, CandidateSound
  <2>2. UNCHANGED <<hist, disk, prev, gone>> /\ step' \in {"adopt", "asking"}
    BY <1>3 DEF RunTools
  <2>3. Message("results") \in Messages /\ Message("results").kind = "results"
    BY DEF Message, Messages, Kinds, TalkInv, TalkTypeOK
  <2>4. CASE step' = "adopt" /\ UNCHANGED cand
    <3>1. CandidateSound'
      BY <2>1, <2>2, <2>4 DEF CandidateSound
    <3>2. TalkTypeOK'
      BY <1>3, <2>1, <2>2, <2>4, FilesStand DEF RunTools, TalkInv, TalkTypeOK
    <3> QED
      BY <2>2, <3>1, <3>2, FilesStand DEF TalkInv
  <2>5. CASE step' = "asking" /\ cand' = Append(cand, Message("results"))
    <3>1. /\ cand' \in Seq(Messages) /\ WellFormed(cand') /\ Range(hist) \subseteq Range(cand')
      BY <2>1, <2>3, <2>5, ResultsAnswer, AppendKeepsAll
    <3>2. Len(cand') > 0
      BY <2>1, <2>3, <2>5
    <3>3. CandidateSound'
      BY <2>2, <2>5, <3>1, <3>2 DEF CandidateSound, WellFormed
    <3>4. TalkTypeOK'
      BY <1>3, <2>2, <2>5, <3>1, FilesStand DEF RunTools, TalkInv, TalkTypeOK
    <3> QED
      BY <2>2, <3>3, <3>4, FilesStand DEF TalkInv
  <2> QED
    BY <1>3, <2>4, <2>5 DEF RunTools
<1>4. CASE Rollback
  <2>1. UNCHANGED <<hist, disk, prev, gone>> /\ step' = "compact" /\ cand' \in Seq(Messages)
    BY <1>4 DEF Rollback
  <2>2. TalkTypeOK'
    BY <1>4, <2>1, FilesStand DEF Rollback, Fault, TalkInv, TalkTypeOK
  <2> QED
    BY <2>1, <2>2, FilesStand DEF TalkInv, CandidateSound
<1>5. CASE adopt
  <2>1. cand \in Seq(Messages) /\ Answered(cand) /\ Range(hist) \subseteq Range(cand)
    BY <1>5 DEF adopt, TalkInv, TalkTypeOK, CandidateSound
  <2>2. hist' \in Seq(Messages) /\ WellFormed(hist') /\ Range(cand) \subseteq Range(hist')
    BY <1>5, <2>1, RepairSound DEF adopt
  <2>3. UNCHANGED <<disk, prev, gone>> /\ step' = "save" /\ cand' = <<>>
    BY <1>5 DEF adopt
  <2>4. CopyHolds'
    BY <2>1, <2>2, <2>3 DEF TalkInv, CopyHolds
  <2>5. TalkTypeOK'
    BY <1>5, <2>2, <2>3 DEF adopt, TalkInv, TalkTypeOK
  <2> QED
    BY <2>2, <2>3, <2>4, <2>5 DEF TalkInv, CandidateSound, CutFound, CopyFresh
<1>6. CASE save
  <2>1. /\ disk' = hist /\ gone' = gone \union (Range(disk) \ Range(hist))
        /\ UNCHANGED <<hist, cand, prev, iterations, lastInput, turns, faults>>
        /\ step' \in {"compact", "idle"} /\ convBytes' = Len(hist)
    BY <1>6 DEF save
  <2>2. hist \in Seq(Messages) /\ disk \in Seq(Messages) /\ gone \subseteq Messages /\ WellFormed(hist)
    BY DEF TalkInv, TalkTypeOK
  <2>3. Range(disk) \subseteq Messages /\ convBytes' \in Nat
    BY <2>1, <2>2 DEF Range
  <2>4. TalkTypeOK'
    BY <2>1, <2>2, <2>3 DEF TalkInv, TalkTypeOK
  <2>5. CopyHolds'
    BY <2>1 DEF TalkInv, CopyHolds
  <2> QED
    BY <2>1, <2>2, <2>4, <2>5 DEF TalkInv, CandidateSound, CutFound, CopyFresh, WellFormed
<1>7. CASE SaveFails
  <2>1. UNCHANGED <<hist, disk, prev, gone, cand>> /\ step' \in {"compact", "idle"}
    BY <1>7 DEF SaveFails
  <2>2. convBytes' \in Nat /\ cand' \in Seq(Messages)
    BY <1>7 DEF SaveFails, TalkInv, TalkTypeOK
  <2>3. TalkTypeOK'
    BY <1>7, <2>1, <2>2, FilesStand DEF SaveFails, Fault, TalkInv, TalkTypeOK
  <2> QED
    BY <2>1, <2>3, FilesStand DEF TalkInv, CandidateSound
<1>8. CASE Measure
  <2>1. UNCHANGED <<hist, cand, iterations, disk, prev, lastInput, convBytes, turns, faults, gone>>
    BY <1>8 DEF Measure
  <2>2. step' \in {"summarize", "idle"} /\ (step' = "summarize" => cut > 1)
    BY <1>8 DEF Measure
  <2>3. CutFound'
    BY <2>1, <2>2 DEF CutFound, cut
  <2> QED
    BY <2>1, <2>2, <2>3 DEF TalkInv, TalkTypeOK, CandidateSound, CopyHolds, CopyFresh
<1>9. CASE Summarize
  <2>1. UNCHANGED <<hist, cand, iterations, disk, prev, lastInput, convBytes, turns, gone>>
    BY <1>9 DEF Summarize
  <2>2. step' \in {"backup", "idle"} /\ cut > 1 /\ faults' \in Nat
    BY <1>9 DEF Summarize, Fault, TalkInv, TalkTypeOK, CutFound
  <2>3. CutFound'
    BY <2>1, <2>2 DEF CutFound, cut
  <2> QED
    BY <2>1, <2>2, <2>3 DEF TalkInv, TalkTypeOK, CandidateSound, CopyHolds, CopyFresh
<1>10. CASE Backup
  <2>1. UNCHANGED <<hist, cand, iterations, disk, lastInput, convBytes, turns>> /\ cut > 1
    BY <1>10 DEF Backup, TalkInv, CutFound
  <2>2. step' \in {"swap", "idle"} /\ faults' \in Nat /\ gone' \subseteq Messages
    BY <1>10 DEF Backup, Fault, TalkInv, TalkTypeOK
  <2>3. prev' \in Seq(Messages) \union {Torn}
    BY <1>10 DEF Backup, TalkInv, TalkTypeOK
  <2>4. CutFound'
    BY <2>1, <2>2 DEF CutFound, cut
  <2>5. TalkTypeOK'
    BY <2>1, <2>2, <2>3 DEF TalkInv, TalkTypeOK
  <2>6. CASE step' = "swap" /\ gone' = {} /\ prev' = IF disk = <<>> THEN prev ELSE disk
    <3>1. disk = <<>> => Range(disk) = {}
      BY DEF Range
    <3>2. prev' # Torn => Range(disk) \subseteq Range(prev')
      BY <2>6, <3>1
    <3>3. CopyHolds' /\ CopyFresh'
      BY <2>1, <2>6, <3>2 DEF CopyHolds, CopyFresh
    <3> QED
      BY <2>1, <2>2, <2>4, <2>5, <3>3 DEF TalkInv, CandidateSound
  <2>7. CASE step' = "idle" /\ prev' \in {prev, Torn} /\ UNCHANGED gone
    <3>1. CopyHolds' /\ CopyFresh'
      BY <2>1, <2>7 DEF TalkInv, CopyHolds, CopyFresh
    <3> QED
      BY <2>1, <2>2, <2>4, <2>5, <3>1 DEF TalkInv, CandidateSound
  <2> QED
    BY <1>10, <2>6, <2>7 DEF Backup
<1>11. CASE applyCompaction
  <2>1. /\ hist' = Compacted(hist, cut) /\ step' = "saveCompacted" /\ lastInput' = 0
        /\ UNCHANGED <<cand, iterations, disk, prev, convBytes, turns, faults, gone>>
    BY <1>11 DEF applyCompaction
  <2>2. hist \in Seq(Messages) /\ WellFormed(hist) /\ cut > 1
    BY <1>11 DEF applyCompaction, TalkInv, TalkTypeOK, CutFound
  <2>3. cut \in 2 .. Len(hist) /\ hist[cut].kind \in Starts
    BY <2>2, TargetIsNatural, CutIsSafe DEF cut
  <2>4. hist' \in Seq(Messages) /\ WellFormed(hist')
    BY <2>1, <2>2, <2>3, CompactedSound
  <2>5. CopyHolds'
    BY <1>11, <2>1 DEF applyCompaction, TalkInv, CopyHolds, CopyFresh
  <2>6. TalkTypeOK'
    BY <2>1, <2>4 DEF TalkInv, TalkTypeOK
  <2> QED
    BY <2>1, <2>4, <2>5, <2>6 DEF TalkInv, CandidateSound, CutFound, CopyFresh
<1>12. CASE Restart
  <2>1. /\ prev' \in {prev, Torn} /\ hist' = repairTail(disk) /\ cand' = <<>> /\ iterations' = 0
        /\ step' = "idle" /\ lastInput' = 0 /\ convBytes' = Len(disk)
        /\ UNCHANGED <<disk, turns, gone>>
    BY <1>12 DEF Restart
  <2>2. disk \in Seq(Messages) /\ Answered(disk)
    BY DEF TalkInv, TalkTypeOK
  <2>3. hist' \in Seq(Messages) /\ WellFormed(hist') /\ Range(disk) \subseteq Range(hist')
    BY <2>1, <2>2, RepairSound
  <2>4. faults' \in Nat /\ convBytes' \in Nat
    BY <1>12, <2>1, <2>2 DEF Restart, Fault, TalkInv, TalkTypeOK
  <2>5. TalkTypeOK'
    BY <2>1, <2>2, <2>3, <2>4 DEF TalkInv, TalkTypeOK
  <2>6. CopyHolds'
    BY <2>1, <2>3 DEF TalkInv, CopyHolds
  <2> QED
    BY <2>1, <2>2, <2>3, <2>5, <2>6 DEF TalkInv, CandidateSound, CutFound, CopyFresh
<1>13. CASE UNCHANGED talkVars
  BY <1>13 DEF talkVars, TalkInv, TalkTypeOK, CandidateSound, CutFound, cut, CopyHolds, CopyFresh
<1> QED
  BY <1>1, <1>2, <1>3, <1>4, <1>5, <1>6, <1>7, <1>8, <1>9, <1>10, <1>11, <1>12, <1>13 DEF TalkNext

\* No request is ever malformed and what was summarised can be read back:
\* whatever stopped the turns before, wherever the history was cut, whichever
\* save failed and whenever the daemon exited (turn, adopt, repairTail,
\* cutPoint, backupConversation, load).
THEOREM ConversationAlwaysSound == TalkSpec => []ConversationSound
<1>1. TalkInv => ConversationSound
  BY DEF TalkInv, CandidateSound, CopyHolds, ConversationSound, RequestsWellFormed, RollbackKept,
     WellFormed
<1> QED
  BY <1>1, InitEstablishes, StepPreserves, PTL DEF TalkSpec

-----------------------------------------------------------------------------
(* The numbers of the files.                                               *)

\* A file newer than the number is there.
Covered(n) == \E m \in OnDisk("snapshots") : m > n

\* What is at a number is what was put there, or a snapshot rotated away.
Stands(s, n, what) ==
    \/ stored[s][n] = what
    \/ s = "snapshots" /\ stored[s][n] = NoOne /\ Covered(n)

Works == [pc : {"idle", "write", "undo", "rotate", "remove", "tell"}, store : Stores,
          number : 0 .. MaxNumber, full : 0 .. MaxNumber, old : SUBSET Numbers]

Busy == {h \in Handlers : handler[h].pc # "idle"}

\* Of every state, whatever happened to the files: numbers and contents are
\* among those begun.
NumberTypeOK ==
    /\ writes \in 0 .. MaxNumber
    /\ seq \in [Stores -> 0 .. MaxNumber]
    /\ stored \in [Stores -> [Numbers -> 0 .. MaxNumber]]
    /\ told \in [Stores -> [Numbers -> 0 .. MaxNumber]]
    /\ handler \in [Handlers -> Works]
    /\ \A s \in Stores : seq[s] =< writes /\ \A n \in OnDisk(s) : n =< writes
    /\ \A h \in Busy : handler[h].number \in 1 .. writes /\ handler[h].full \in 1 .. writes

\* A counter is past every file, and past what its handlers have in hand.
CountersLead ==
    /\ \A s \in Stores : \A n \in OnDisk(s) : n =< seq[s]
    /\ \A h \in Busy : handler[h].number =< seq[handler[h].store]

\* A number is one handler's, and nothing was told of it before.
NumbersApart ==
    /\ \A h, g \in Busy : h # g /\ handler[h].store = handler[g].store
                            => handler[h].number # handler[g].number
    /\ \A h \in Busy : told[handler[h].store][handler[h].number] = NoOne

\* What a handler has made certain of its file by where it is.
HandlersSound ==
    \A h \in Handlers :
      /\ handler[h].pc = "write" => stored[handler[h].store][handler[h].number] = NoOne
      /\ handler[h].pc = "undo" => handler[h].store = "outbox"
      /\ handler[h].pc \in {"rotate", "remove"} => handler[h].store = "snapshots"
      /\ handler[h].pc \in {"rotate", "remove", "tell"}
           => Stands(handler[h].store, handler[h].number, handler[h].full)

\* What a rotation is about to remove is never the newest.
OldIsCovered == \A h \in Handlers : \A n \in handler[h].old : Covered(n)

\* What was told is there or was rotated away.
ToldStands ==
    \A s \in Stores, n \in Numbers : told[s][n] # NoOne => Stands(s, n, told[s][n])

Together == CountersLead /\ NumbersApart /\ HandlersSound /\ OldIsCovered /\ ToldStands

NumberInv == NumberTypeOK /\ (~parted => Together)

\* highestSeq is the newest file's number, or none.
LEMMA HighestIs ==
    ASSUME NEW f \in SUBSET Numbers
    PROVE  /\ highestSeq(f) \in f \union {0}
           /\ \A n \in f : n =< highestSeq(f)
<1> DEFINE S == f \union {0}
<1>1. MaxNumber \in Nat /\ S \in SUBSET (0 .. MaxNumber) /\ S # {}
  BY NumberingAssumption DEF Numbers
<1> HIDE DEF S
<1>2. \E m \in S : \A n \in S : n =< m
  BY <1>1, GreatestNatural
<1>3. \E m \in S : \A n \in S : m >= n
  BY <1>1, <1>2
<1>4. Max(S) \in S /\ \A n \in S : Max(S) >= n
  BY <1>3 DEF Max
<1>5. \A n \in S : n \in Nat
  BY <1>1
<1>6. \A n \in S : n =< Max(S)
  BY <1>4, <1>5
<1> QED
  BY <1>4, <1>6 DEF highestSeq, S

\* A handler that is at work has a number a file may have.
LEMMA BusyNumber ==
    ASSUME NumberTypeOK, NEW h \in Handlers, handler[h].pc # "idle"
    PROVE  /\ handler[h].store \in Stores /\ handler[h].number \in Numbers
           /\ handler[h].number =< writes
           /\ handler[h].full \in 1 .. writes /\ handler[h].full \in 1 .. MaxNumber
           /\ handler[h].full # NoOne
<1>1. h \in Busy
  BY DEF Busy
<1>2. /\ handler[h].number \in 1 .. writes /\ handler[h].full \in 1 .. writes
      /\ writes \in 0 .. MaxNumber
  BY <1>1 DEF NumberTypeOK
<1>3. handler[h].store \in Stores
  BY DEF NumberTypeOK, Works
<1> QED
  BY <1>2, <1>3, NumberingAssumption DEF Numbers

\* A write touches its own number alone (StoreAt).
LEMMA StoreMoves ==
    ASSUME NumberTypeOK, NEW h \in Handlers, handler[h].pc # "idle",
           NEW what \in 0 .. MaxNumber, StoreAt(h, what)
    PROVE  /\ stored' \in [Stores -> [Numbers -> 0 .. MaxNumber]]
           /\ stored'[handler[h].store][handler[h].number] = what
           /\ \A s \in Stores, n \in Numbers :
                ~(s = handler[h].store /\ n = handler[h].number) => stored'[s][n] = stored[s][n]
<1> DEFINE t == handler[h].store
           k == handler[h].number
<1>1. t \in Stores /\ k \in Numbers
  BY BusyNumber
<1>2. stored \in [Stores -> [Numbers -> 0 .. MaxNumber]]
  BY DEF NumberTypeOK
<1>3. stored' = [stored EXCEPT ![t][k] = what]
  BY DEF StoreAt
<1> HIDE DEF t, k
<1>4. stored' = [s \in Stores |-> IF s = t THEN [stored[s] EXCEPT ![k] = what] ELSE stored[s]]
  BY <1>1, <1>2, <1>3
<1>5. \A s \in Stores : stored'[s] \in [Numbers -> 0 .. MaxNumber]
  BY <1>1, <1>2, <1>4
<1>6. stored' \in [Stores -> [Numbers -> 0 .. MaxNumber]]
  BY <1>4, <1>5
<1>7. stored'[t][k] = what
  BY <1>1, <1>2, <1>4
<1>8. \A s \in Stores, n \in Numbers : ~(s = t /\ n = k) => stored'[s][n] = stored[s][n]
  BY <1>1, <1>2, <1>4
<1> QED
  BY <1>6, <1>7, <1>8 DEF t, k

\* Where a counter resumes is past every file and among the numbers begun.
LEMMA ResumedIsPast ==
    ASSUME NEW f \in [Stores -> [Numbers -> 0 .. MaxNumber]], NEW w \in 0 .. MaxNumber,
           \A s \in Stores, n \in Numbers : f[s][n] # NoOne => n =< w,
           Resume(f)
    PROVE  /\ seq' \in [Stores -> 0 .. MaxNumber]
           /\ \A s \in Stores : seq'[s] =< w
           /\ \A s \in Stores, n \in Numbers : f[s][n] # NoOne => n =< seq'[s]
<1> DEFINE On(s) == {n \in Numbers : f[s][n] # NoOne}
<1>1. seq' = [s \in Stores |-> highestSeq(On(s))]
  BY DEF Resume
<1>2. ASSUME NEW s \in Stores
      PROVE  /\ highestSeq(On(s)) \in 0 .. MaxNumber /\ highestSeq(On(s)) =< w
             /\ \A n \in Numbers : f[s][n] # NoOne => n =< highestSeq(On(s))
  <2>1. On(s) \in SUBSET Numbers /\ \A n \in On(s) : n =< w
    OBVIOUS
  <2>2. \A n \in Numbers : f[s][n] # NoOne <=> n \in On(s)
    OBVIOUS
  <2> HIDE DEF On
  <2>3. /\ highestSeq(On(s)) \in On(s) \union {0}
        /\ \A n \in On(s) : n =< highestSeq(On(s))
    BY <2>1, HighestIs
  <2> QED
    BY <2>1, <2>2, <2>3, NumberingAssumption DEF Numbers
<1> HIDE DEF On
<1> QED
  BY <1>1, <1>2

-----------------------------------------------------------------------------

\* Nothing written yet.
LEMMA NumberInvInit == NumberInit => NumberInv
<1> SUFFICES ASSUME NumberInit PROVE NumberInv
  OBVIOUS
<1>1. /\ handler = [h \in Handlers |-> Unused] /\ writes = 0
      /\ seq = [s \in Stores |-> 0] /\ stored = NoFiles /\ told = NoFiles
  BY DEF NumberInit
<1>2. /\ MaxNumber \in Nat /\ NoOne = 0
      /\ \A s \in Stores, n \in Numbers : stored[s][n] = NoOne /\ told[s][n] = NoOne
  BY <1>1, NumberingAssumption DEF NoFiles
<1>3. Busy = {} /\ \A s \in Stores : OnDisk(s) = {}
  BY <1>1, <1>2 DEF Busy, Unused, OnDisk
<1>4. /\ seq \in [Stores -> 0 .. MaxNumber] /\ writes \in 0 .. MaxNumber
      /\ stored \in [Stores -> [Numbers -> 0 .. MaxNumber]]
      /\ told \in [Stores -> [Numbers -> 0 .. MaxNumber]]
  BY <1>1, <1>2 DEF NoFiles
<1>5. handler \in [Handlers -> Works]
  BY <1>1, <1>2 DEF Unused, Stores, Works
<1>6. NumberTypeOK
  BY <1>1, <1>3, <1>4, <1>5 DEF NumberTypeOK
<1>7. Together
  BY <1>1, <1>2, <1>3 DEF Together, CountersLead, NumbersApart, HandlersSound, OldIsCovered,
     ToldStands, Unused
<1> QED
  BY <1>6, <1>7 DEF NumberInv

\* A handler goes on, keeping its number and its file.
Moved(h, pc, old) ==
    /\ handler' \in [Handlers -> Works]
    /\ handler'[h].pc = pc /\ handler'[h].old = old
    /\ handler'[h].store = handler[h].store
    /\ handler'[h].number = handler[h].number
    /\ handler'[h].full = handler[h].full
    /\ \A g \in Handlers \ {h} : handler'[g] = handler[g]

\* A handler has finished.
Ended(h) ==
    /\ handler' \in [Handlers -> Works]
    /\ handler'[h] = Unused
    /\ \A g \in Handlers \ {h} : handler'[g] = handler[g]

\* What each step makes of its handler.
LEMMA HandlerMoves ==
    ASSUME NumberTypeOK, NEW h \in Handlers
    PROVE  /\ WriteFile(h) => Moved(h, IF handler[h].store = "snapshots" THEN "rotate" ELSE "tell",
                                    handler[h].old)
           /\ WriteFails(h) => \/ handler[h].store = "outbox" /\ Moved(h, "undo", handler[h].old)
                               \/ handler[h].store = "snapshots" /\ Ended(h)
           /\ RemoveFailed(h) => Ended(h)
           /\ rotate(h) => \E o \in SUBSET Numbers : Moved(h, "remove", o)
           /\ RemoveOld(h) => Moved(h, "tell", {})
           /\ Tell(h) => Ended(h)
<1>1. handler \in [Handlers -> Works] /\ handler[h] \in Works
  BY DEF NumberTypeOK
<1>2. Unused \in Works
  BY NumberingAssumption DEF Unused, Works, Stores
<1>3. ASSUME handler' = [handler EXCEPT ![h] = Unused] PROVE Ended(h)
  BY <1>1, <1>2, <1>3 DEF Ended
<1>4. ASSUME NEW pc \in {"undo", "rotate", "tell"}, handler' = [handler EXCEPT ![h].pc = pc]
      PROVE  Moved(h, pc, handler[h].old)
  <2>1. [handler[h] EXCEPT !.pc = pc] \in Works
    BY <1>1 DEF Works
  <2> QED
    BY <1>1, <1>4, <2>1 DEF Moved, Works
<1>5. ASSUME NEW pc \in {"remove", "tell"}, NEW o \in SUBSET Numbers,
             handler' = [handler EXCEPT ![h].pc = pc, ![h].old = o]
      PROVE  Moved(h, pc, o)
  <2>1. [[handler[h] EXCEPT !.pc = pc] EXCEPT !.old = o] \in Works
    BY <1>1 DEF Works
  <2> QED
    BY <1>1, <1>5, <2>1 DEF Moved, Works
<1>6. handler[h].store \in {"snapshots", "outbox"}
  BY <1>1 DEF Works, Stores
<1>7. WriteFile(h) => Moved(h, IF handler[h].store = "snapshots" THEN "rotate" ELSE "tell",
                            handler[h].old)
  BY <1>4 DEF WriteFile
<1>8. WriteFails(h) => \/ handler[h].store = "outbox" /\ Moved(h, "undo", handler[h].old)
                       \/ handler[h].store = "snapshots" /\ Ended(h)
  <2>1. ASSUME WriteFails(h), handler[h].store = "outbox"
        PROVE  handler' = [handler EXCEPT ![h].pc = "undo"]
    BY <2>1 DEF WriteFails
  <2>2. ASSUME WriteFails(h), handler[h].store = "snapshots"
        PROVE  handler' = [handler EXCEPT ![h] = Unused]
    BY <2>2 DEF WriteFails
  <2> QED
    BY <1>3, <1>4, <1>6, <2>1, <2>2
<1>9. rotate(h) => \E o \in SUBSET Numbers : Moved(h, "remove", o)
  <2>1. {n \in OnDisk("snapshots") :
            Cardinality({m \in OnDisk("snapshots") : m > n}) >= SnapshotKeep} \in SUBSET Numbers
    BY DEF OnDisk
  <2> QED
    BY <1>5, <2>1 DEF rotate
<1>10. RemoveOld(h) => Moved(h, "tell", {})
  BY <1>5 DEF RemoveOld
<1> QED
  BY <1>3, <1>7, <1>8, <1>9, <1>10 DEF RemoveFailed, Tell

\* Types are kept, and nothing gets a number or a content before it is begun.
LEMMA NumberTypeStep == NumberTypeOK /\ [NumberNext]_numberVars => NumberTypeOK'
<1> SUFFICES ASSUME NumberTypeOK, [NumberNext]_numberVars PROVE NumberTypeOK'
  OBVIOUS
<1>0. /\ writes \in 0 .. MaxNumber /\ MaxNumber \in Nat /\ NoOne = 0
      /\ seq \in [Stores -> 0 .. MaxNumber]
      /\ stored \in [Stores -> [Numbers -> 0 .. MaxNumber]]
      /\ told \in [Stores -> [Numbers -> 0 .. MaxNumber]]
      /\ handler \in [Handlers -> Works]
      /\ \A s \in Stores : seq[s] =< writes /\ \A n \in OnDisk(s) : n =< writes
      /\ \A h \in Busy : handler[h].number \in 1 .. writes /\ handler[h].full \in 1 .. writes
  BY NumberingAssumption DEF NumberTypeOK
<1>a. \A s \in Stores, n \in Numbers : stored[s][n] # NoOne => n =< writes
  BY <1>0 DEF OnDisk
<1>1. ASSUME NEW h \in Handlers, NEW s \in Stores, reserve(h, s) PROVE NumberTypeOK'
  <2> DEFINE r == [pc |-> "write", store |-> s, number |-> seq'[s], full |-> writes', old |-> {}]
  <2>1. /\ writes' = writes + 1 /\ writes < MaxNumber /\ seq' = [seq EXCEPT ![s] = @ + 1]
        /\ handler' = [handler EXCEPT ![h] = r]
        /\ UNCHANGED <<stored, told>>
    BY <1>1 DEF reserve
  <2>2. seq'[s] = seq[s] + 1 /\ seq[s] \in 0 .. writes /\ writes' \in 1 .. MaxNumber
    BY <1>0, <2>1
  <2>3. r \in Works /\ r.number \in 1 .. writes' /\ r.full \in 1 .. writes'
    BY <1>0, <2>1, <2>2 DEF Works
  <2> HIDE DEF r
  <2>4. handler' \in [Handlers -> Works]
    BY <1>0, <2>1, <2>3
  <2>5. \A g \in Busy' : handler'[g].number \in 1 .. writes' /\ handler'[g].full \in 1 .. writes'
    <3> SUFFICES ASSUME NEW g \in Handlers, handler'[g].pc # "idle"
                 PROVE  handler'[g].number \in 1 .. writes' /\ handler'[g].full \in 1 .. writes'
      BY DEF Busy
    <3>1. CASE g = h
      BY <1>0, <2>1, <2>3, <3>1
    <3>2. CASE g # h
      <4>1. handler'[g] = handler[g] /\ g \in Busy
        BY <1>0, <2>1, <3>2 DEF Busy
      <4> QED
        BY <1>0, <2>1, <4>1
    <3> QED
      BY <3>1, <3>2
  <2>6. seq' \in [Stores -> 0 .. MaxNumber] /\ \A t \in Stores : seq'[t] =< writes'
    BY <1>0, <2>1, <2>2
  <2>7. \A t \in Stores : \A n \in OnDisk(t)' : n =< writes'
    BY <1>0, <1>a, <2>1 DEF OnDisk, Numbers
  <2> QED
    BY <1>0, <2>1, <2>2, <2>4, <2>5, <2>6, <2>7 DEF NumberTypeOK
<1>2. ASSUME NEW h \in Handlers, \/ \E p, o : Moved(h, p, o)
                                 \/ Ended(h)
      PROVE  /\ handler' \in [Handlers -> Works]
             /\ \A g \in Busy' : g = h \/ (g \in Busy /\ handler'[g] = handler[g])
             /\ handler[h].pc # "idle" =>
                  \A g \in Busy' : /\ handler'[g].number \in 1 .. writes
                                    /\ handler'[g].full \in 1 .. writes
  <2>1. handler' \in [Handlers -> Works] /\ \A g \in Handlers \ {h} : handler'[g] = handler[g]
    BY <1>2 DEF Moved, Ended
  <2>2. \A g \in Busy' : g = h \/ (g \in Busy /\ handler'[g] = handler[g])
    BY <2>1 DEF Busy
  <2>3. h \in Busy' => handler'[h].number = handler[h].number /\ handler'[h].full = handler[h].full
    BY <1>2 DEF Moved, Ended, Busy, Unused
  <2>4. handler[h].pc # "idle" => h \in Busy
    BY DEF Busy
  <2> QED
    BY <1>0, <2>1, <2>2, <2>3, <2>4
<1>3. ASSUME NEW h \in Handlers, handler[h].pc # "idle",
             \/ \E p, o : Moved(h, p, o)
             \/ Ended(h),
             stored' \in [Stores -> [Numbers -> 0 .. MaxNumber]],
             \A s \in Stores, n \in Numbers : stored'[s][n] # NoOne => n =< writes,
             told' \in [Stores -> [Numbers -> 0 .. MaxNumber]],
             UNCHANGED <<seq, writes>>
      PROVE  NumberTypeOK'
  <2>1. \A t \in Stores : \A n \in OnDisk(t)' : n =< writes'
    BY <1>3 DEF OnDisk
  <2> QED
    BY <1>0, <1>2, <1>3, <2>1 DEF NumberTypeOK
<1>4. ASSUME NEW h \in Handlers, NEW what \in 0 .. MaxNumber,
             handler[h].pc # "idle", StoreAt(h, what)
      PROVE  /\ stored' \in [Stores -> [Numbers -> 0 .. MaxNumber]]
             /\ \A s \in Stores, n \in Numbers : stored'[s][n] # NoOne => n =< writes
  BY <1>a, <1>4, StoreMoves, BusyNumber
<1>5. ASSUME NEW h \in Handlers, WriteFile(h) PROVE NumberTypeOK'
  <2>1. handler[h].pc # "idle" /\ StoreAt(h, handler[h].full) /\ UNCHANGED <<seq, writes, told>>
    BY <1>5 DEF WriteFile
  <2>2. handler[h].full \in 0 .. MaxNumber
    BY <1>0 DEF Works
  <2> QED
    BY <1>0, <1>3, <1>4, <1>5, <2>1, <2>2, HandlerMoves
<1>6. ASSUME NEW h \in Handlers, WriteFails(h) PROVE NumberTypeOK'
  <2>1. /\ handler[h].pc # "idle" /\ UNCHANGED <<seq, writes, told>>
        /\ StoreAt(h, NoOne) \/ StoreAt(h, handler[h].full)
    BY <1>6 DEF WriteFails
  <2>2. handler[h].full \in 0 .. MaxNumber /\ NoOne \in 0 .. MaxNumber
    BY <1>0 DEF Works
  <2> QED
    BY <1>0, <1>3, <1>4, <1>6, <2>1, <2>2, HandlerMoves
<1>7. ASSUME NEW h \in Handlers, RemoveFailed(h) PROVE NumberTypeOK'
  <2>1. handler[h].pc # "idle" /\ StoreAt(h, NoOne) /\ UNCHANGED <<seq, writes, told>>
    BY <1>7 DEF RemoveFailed
  <2>2. NoOne \in 0 .. MaxNumber
    BY <1>0
  <2> QED
    BY <1>0, <1>3, <1>4, <1>7, <2>1, <2>2, HandlerMoves
<1>8. ASSUME NEW h \in Handlers, rotate(h) PROVE NumberTypeOK'
  <2>1. handler[h].pc # "idle" /\ UNCHANGED <<seq, writes, told, stored>>
    BY <1>8 DEF rotate
  <2> QED
    BY <1>0, <1>a, <1>3, <1>8, <2>1, HandlerMoves
<1>9. ASSUME NEW h \in Handlers, RemoveOld(h) PROVE NumberTypeOK'
  <2>1. /\ handler[h].pc # "idle" /\ UNCHANGED <<seq, writes, told>>
        /\ stored' = [stored EXCEPT !["snapshots"] =
                        [n \in Numbers |-> IF n \in handler[h].old THEN NoOne ELSE @[n]]]
    BY <1>9 DEF RemoveOld
  <2>2. /\ stored' \in [Stores -> [Numbers -> 0 .. MaxNumber]]
        /\ \A s \in Stores, n \in Numbers : stored'[s][n] \in {NoOne, stored[s][n]}
    BY <1>0, <2>1 DEF Stores
  <2>3. \A s \in Stores, n \in Numbers : stored'[s][n] # NoOne => n =< writes
    BY <1>a, <2>2
  <2> QED
    BY <1>0, <1>3, <1>9, <2>1, <2>2, <2>3, HandlerMoves
<1>10. ASSUME NEW h \in Handlers, Tell(h) PROVE NumberTypeOK'
  <2>1. /\ handler[h].pc # "idle" /\ UNCHANGED <<seq, writes, stored>>
        /\ told' = [told EXCEPT ![handler[h].store][handler[h].number] = handler[h].full]
    BY <1>10 DEF Tell
  <2>2. handler[h].full \in 0 .. MaxNumber
    BY <1>0 DEF Works
  <2>3. told' \in [Stores -> [Numbers -> 0 .. MaxNumber]]
    BY <1>0, <2>1, <2>2
  <2> QED
    BY <1>0, <1>a, <1>3, <1>10, <2>1, <2>3, HandlerMoves
<1>11. ASSUME stored' \in [Stores -> [Numbers -> 0 .. MaxNumber]],
              \A s \in Stores, n \in Numbers : stored'[s][n] # NoOne => n =< writes,
              Resume(stored'), UNCHANGED <<told, writes>>,
              Stopped \/ UNCHANGED handler
       PROVE  NumberTypeOK'
  <2>1. seq' \in [Stores -> 0 .. MaxNumber] /\ \A s \in Stores : seq'[s] =< writes
    BY <1>0, <1>11, ResumedIsPast
  <2>2. handler' \in [Handlers -> Works]
    BY <1>0, <1>11 DEF Stopped, Unused, Works, Stores
  <2>3. \A h \in Busy' : handler'[h].number \in 1 .. writes /\ handler'[h].full \in 1 .. writes
    BY <1>0, <1>11 DEF Stopped, Unused, Busy
  <2>4. \A t \in Stores : \A n \in OnDisk(t)' : n =< writes'
    BY <1>11 DEF OnDisk
  <2> QED
    BY <1>0, <1>11, <2>1, <2>2, <2>3, <2>4 DEF NumberTypeOK
<1>12. CASE RestartStores
  BY <1>0, <1>a, <1>11, <1>12 DEF RestartStores
<1>13. CASE Succeed
  BY <1>0, <1>a, <1>11, <1>13 DEF Succeed
<1>14. CASE PowerCut
  <2>1. /\ stored' = [s \in Stores |->
                        [n \in Numbers |-> IF n \in safe[s] THEN stored[s][n] ELSE NoOne]]
        /\ Stopped /\ Resume(stored') /\ UNCHANGED <<told, writes>>
    BY <1>14 DEF PowerCut
  <2>2. /\ stored' \in [Stores -> [Numbers -> 0 .. MaxNumber]]
        /\ \A s \in Stores, n \in Numbers : stored'[s][n] # NoOne => n =< writes
    BY <1>0, <1>a, <2>1
  <2> QED
    BY <1>11, <2>1, <2>2
<1>15. CASE WriteBack \/ UNCHANGED numberVars
  <2>1. UNCHANGED <<seq, stored, handler, told, writes>>
    BY <1>15 DEF WriteBack, numberVars
  <2> QED
    BY <1>0, <2>1 DEF NumberTypeOK, Busy, OnDisk
<1> QED
  BY <1>1, <1>5, <1>6, <1>7, <1>8, <1>9, <1>10, <1>12, <1>13, <1>14, <1>15 DEF NumberNext


\* Nothing is on disk at a number a handler has yet to write, and its number
\* is its own (HandlersSound, NumbersApart, CountersLead).
LEMMA NumberIsOwn ==
    ASSUME NumberTypeOK, Together, NEW h \in Busy
    PROVE  /\ \A g \in Busy \ {h} : At(g) # At(h)
           /\ told[handler[h].store][handler[h].number] = NoOne
           /\ handler[h].number =< seq[handler[h].store]
           /\ handler[h].pc = "write" => stored[handler[h].store][handler[h].number] = NoOne
  BY DEF Together, NumbersApart, CountersLead, HandlersSound, At, Busy

\* What was found at a number is found there as long as no step takes it, but
\* in a rotation, which leaves a newer file.
Spared(s, n) ==
    \/ stored'[s][n] = stored[s][n]
    \/ s = "snapshots" /\ stored'[s][n] = NoOne /\ Covered(n)'

\* What will be found at a number (Stands, of the next state).
StandsNext(s, n, what) ==
    \/ stored'[s][n] = what
    \/ s = "snapshots" /\ stored'[s][n] = NoOne /\ Covered(n)'

\* What stood stands.
LEMMA StandsOn ==
    ASSUME NEW s, NEW n, NEW what, Spared(s, n), Covered(n) => Covered(n)'
    PROVE  /\ Stands(s, n, what) => StandsNext(s, n, what)
           /\ stored[s][n] = NoOne => stored'[s][n] = NoOne
  BY DEF Spared, Stands, StandsNext

\* A handler's step leaves what the others and what was told stand on, when it
\* spares all but the file at its own number and keeps its own promises.
LEMMA HandlerStep ==
    ASSUME NumberTypeOK, Together, NEW h \in Busy,
           UNCHANGED seq,
           \A g \in Handlers \ {h} : handler'[g] = handler[g],
           \/ handler'[h].pc = "idle"
           \/ /\ handler'[h].store = handler[h].store /\ handler'[h].number = handler[h].number
              /\ handler'[h].full = handler[h].full,
           \A s \in Stores, n \in Numbers : stored'[s][n] # NoOne => n =< seq[s],
           \A n \in Numbers : Covered(n) => Covered(n)',
           \A s \in Stores, n \in Numbers :
             <<s, n>> # At(h) => Spared(s, n) /\ told'[s][n] = told[s][n],
           LET k == told'[handler[h].store][handler[h].number]
           IN  k # NoOne => /\ handler'[h].pc = "idle"
                            /\ k = handler[h].full
                            /\ StandsNext(handler[h].store, handler[h].number, handler[h].full),
           handler'[h].pc = "undo" => handler[h].store = "outbox",
           handler'[h].pc \in {"rotate", "remove"} => handler[h].store = "snapshots",
           handler'[h].pc # "write",
           handler'[h].pc \in {"rotate", "remove", "tell"}
             => StandsNext(handler[h].store, handler[h].number, handler[h].full),
           \A n \in handler'[h].old : Covered(n)'
    PROVE  Together'
<1>1. /\ \A g \in Handlers : handler[g] \in Works
      /\ \A g \in Busy : handler[g].store \in Stores /\ handler[g].number \in Numbers
  BY BusyNumber DEF NumberTypeOK, Busy
<1>2. \A g \in Busy' : g = h \/ (g \in Busy \ {h} /\ handler'[g] = handler[g])
  BY DEF Busy
<1>3. \A g \in Busy \ {h} : At(g) # At(h)
  BY NumberIsOwn
<1>4. CountersLead'
  <2>1. \A s \in Stores : \A n \in OnDisk(s)' : n =< seq'[s]
    BY DEF OnDisk
  <2>2. \A g \in Busy : handler[g].number =< seq[handler[g].store]
    BY DEF Together, CountersLead
  <2>3. \A g \in Busy' : handler'[g].number =< seq'[handler'[g].store]
    BY <1>2, <2>2 DEF Busy
  <2> QED
    BY <2>1, <2>3 DEF CountersLead
<1>5. NumbersApart'
  <2>1. \A f, g \in Busy : f # g /\ handler[f].store = handler[g].store
                             => handler[f].number # handler[g].number
    BY DEF Together, NumbersApart
  <2>2. \A f, g \in Busy' : f # g /\ handler'[f].store = handler'[g].store
                             => handler'[f].number # handler'[g].number
    BY <1>2, <2>1 DEF Busy
  <2>3. \A g \in Busy' : told'[handler'[g].store][handler'[g].number] = NoOne
    <3> SUFFICES ASSUME NEW g \in Busy' PROVE told'[handler'[g].store][handler'[g].number] = NoOne
      OBVIOUS
    <3>1. CASE g = h
      BY <3>1 DEF Busy
    <3>2. CASE g \in Busy \ {h} /\ handler'[g] = handler[g]
      <4>1. told'[handler[g].store][handler[g].number] = told[handler[g].store][handler[g].number]
        BY <1>1, <1>3, <3>2 DEF At
      <4> QED
        BY <3>2, <4>1, NumberIsOwn
    <3> QED
      BY <1>2, <3>1, <3>2
  <2> QED
    BY <2>2, <2>3 DEF NumbersApart
<1>6. HandlersSound'
  <2> DEFINE Sound(g) ==
        /\ handler[g].pc = "write" => stored[handler[g].store][handler[g].number] = NoOne
        /\ handler[g].pc = "undo" => handler[g].store = "outbox"
        /\ handler[g].pc \in {"rotate", "remove"} => handler[g].store = "snapshots"
        /\ handler[g].pc \in {"rotate", "remove", "tell"}
             => Stands(handler[g].store, handler[g].number, handler[g].full)
  <2>1. \A g \in Handlers : Sound(g)
    BY DEF Together, HandlersSound
  <2>2. Sound(h)'
    BY DEF StandsNext, Stands
  <2>3. ASSUME NEW g \in Handlers \ {h} PROVE Sound(g)'
    <3>1. handler'[g] = handler[g]
      OBVIOUS
    <3>2. CASE handler[g].pc = "idle"
      BY <3>1, <3>2
    <3>3. CASE handler[g].pc # "idle"
      <4>1. g \in Busy \ {h}
        BY <3>3 DEF Busy
      <4>2. handler[g].store \in Stores /\ handler[g].number \in Numbers /\ At(g) # At(h)
        BY <1>1, <1>3, <4>1
      <4>3. Spared(handler[g].store, handler[g].number)
        BY <4>2 DEF At
      <4>4. Covered(handler[g].number) => Covered(handler[g].number)'
        BY <4>2
      <4>5. /\ Stands(handler[g].store, handler[g].number, handler[g].full)
                 => StandsNext(handler[g].store, handler[g].number, handler[g].full)
            /\ stored[handler[g].store][handler[g].number] = NoOne
                 => stored'[handler[g].store][handler[g].number] = NoOne
        BY <4>3, <4>4, StandsOn
      <4> QED
        BY <2>1, <3>1, <4>5 DEF Stands, StandsNext
    <3> QED
      BY <3>2, <3>3
  <2> QED
    BY <2>2, <2>3 DEF HandlersSound
<1>7. OldIsCovered'
  <2>1. \A g \in Handlers : \A n \in handler[g].old : Covered(n) /\ n \in Numbers
    BY <1>1 DEF Together, OldIsCovered, Works
  <2>2. \A g \in Handlers \ {h} : \A n \in handler'[g].old : Covered(n)'
    BY <2>1
  <2> QED
    BY <2>2 DEF OldIsCovered
<1>8. ToldStands'
  <2> SUFFICES ASSUME NEW s \in Stores, NEW n \in Numbers, told'[s][n] # NoOne
               PROVE  StandsNext(s, n, told'[s][n])
    BY DEF ToldStands, Stands, StandsNext
  <2>1. CASE <<s, n>> = At(h)
    <3>1. s = handler[h].store /\ n = handler[h].number
      BY <2>1 DEF At
    <3> QED
      BY <3>1
  <2>2. CASE <<s, n>> # At(h)
    <3>1. told'[s][n] = told[s][n] /\ Spared(s, n)
      BY <2>2
    <3>2. Stands(s, n, told[s][n])
      BY <3>1 DEF Together, ToldStands
    <3> QED
      BY <3>1, <3>2, StandsOn
  <2> QED
    BY <2>1, <2>2
<1> QED
  BY <1>4, <1>5, <1>6, <1>7, <1>8 DEF Together

\* A number is reserved past all that is on disk and all that was told (reserve).
LEMMA TogetherReserve ==
    ASSUME NumberTypeOK, NumberTypeOK', Together,
           NEW h \in Handlers, NEW s \in Stores, reserve(h, s)
    PROVE  Together'
<1> DEFINE k == seq[s] + 1
           r == [pc |-> "write", store |-> s, number |-> k, full |-> writes', old |-> {}]
<1>1. /\ handler[h].pc = "idle" /\ seq' = [seq EXCEPT ![s] = @ + 1]
      /\ seq \in [Stores -> 0 .. MaxNumber] /\ seq' \in [Stores -> 0 .. MaxNumber]
      /\ handler \in [Handlers -> Works]
      /\ UNCHANGED <<stored, told>>
  BY DEF reserve, NumberTypeOK
<1>2. seq'[s] = k /\ k \in Numbers /\ \A t \in Stores : seq[t] =< seq'[t]
  BY <1>1, NumberingAssumption DEF Numbers
<1>3. handler' = [handler EXCEPT ![h] = r]
  BY <1>2 DEF reserve
<1>4. handler'[h] = r /\ \A g \in Handlers \ {h} : handler'[g] = handler[g]
  BY <1>1, <1>3
<1>5. h \notin Busy /\ \A g \in Busy' : g = h \/ (g \in Busy /\ handler'[g] = handler[g])
  BY <1>1, <1>4 DEF Busy
<1>6. \A t \in Stores : \A n \in OnDisk(t) : n \in Numbers /\ n =< seq[t]
  BY DEF Together, CountersLead, OnDisk
<1>7. stored[s][k] = NoOne
  BY <1>1, <1>2, <1>6 DEF OnDisk
<1>8. told[s][k] = NoOne
  <2> SUFFICES ASSUME told[s][k] # NoOne PROVE FALSE
    OBVIOUS
  <2>1. Stands(s, k, told[s][k])
    BY <1>2 DEF Together, ToldStands
  <2>2. s = "snapshots" /\ Covered(k)
    BY <1>7, <2>1 DEF Stands
  <2>3. PICK m \in OnDisk(s) : m > k
    BY <2>2 DEF Covered
  <2>4. m \in Nat /\ m =< seq[s] /\ seq[s] \in Nat
    BY <1>1, <1>6, NumberingAssumption DEF Numbers
  <2> QED
    BY <2>3, <2>4
<1>9. ASSUME NEW g \in Busy
      PROVE  /\ handler[g].number =< seq[handler[g].store]
             /\ handler[g].number \in Nat /\ handler[g].store \in Stores
  BY BusyNumber, NumberIsOwn, NumberingAssumption DEF Busy, Numbers
<1>10. CountersLead'
  <2>1. \A t \in Stores : \A n \in OnDisk(t)' : n =< seq'[t]
    BY <1>1, <1>2, <1>6, NumberingAssumption DEF OnDisk, Numbers
  <2>2. \A g \in Busy' : handler'[g].number =< seq'[handler'[g].store]
    <3> SUFFICES ASSUME NEW g \in Busy' PROVE handler'[g].number =< seq'[handler'[g].store]
      OBVIOUS
    <3>1. CASE g = h
      BY <1>1, <1>2, <1>4, <3>1
    <3>2. CASE g \in Busy /\ handler'[g] = handler[g]
      BY <1>1, <1>2, <1>9, <3>2
    <3> QED
      BY <1>5, <3>1, <3>2
  <2> QED
    BY <2>1, <2>2 DEF CountersLead
<1>11. NumbersApart'
  <2>1. \A g \in Busy : handler[g].store = s => handler[g].number # k
    BY <1>1, <1>9
  <2>2. \A f, g \in Busy : f # g /\ handler[f].store = handler[g].store
                             => handler[f].number # handler[g].number
    BY DEF Together, NumbersApart
  <2>3. \A f, g \in Busy' : f # g /\ handler'[f].store = handler'[g].store
                             => handler'[f].number # handler'[g].number
    BY <1>4, <1>5, <2>1, <2>2
  <2>4. \A g \in Busy : told[handler[g].store][handler[g].number] = NoOne
    BY NumberIsOwn
  <2>5. \A g \in Busy' : told'[handler'[g].store][handler'[g].number] = NoOne
    BY <1>1, <1>4, <1>5, <1>8, <2>4
  <2> QED
    BY <2>3, <2>5 DEF NumbersApart
<1>12. HandlersSound'
  BY <1>1, <1>4, <1>7 DEF Together, HandlersSound, Stands, Covered, OnDisk
<1>13. OldIsCovered' /\ ToldStands'
  BY <1>1, <1>4 DEF Together, OldIsCovered, ToldStands, Stands, Covered, OnDisk
<1> QED
  BY <1>10, <1>11, <1>12, <1>13 DEF Together

\* A write puts the file at the handler's own number, where nothing was
\* (WriteFile, WriteFails).
LEMMA TogetherWrite ==
    ASSUME NumberTypeOK, Together, NEW h \in Handlers, WriteFile(h) \/ WriteFails(h)
    PROVE  Together'
<1> DEFINE t == handler[h].store
           k == handler[h].number
<1>1. /\ handler[h].pc = "write" /\ UNCHANGED <<seq, told>>
      /\ StoreAt(h, NoOne) \/ StoreAt(h, handler[h].full)
      /\ WriteFile(h) => StoreAt(h, handler[h].full)
  BY DEF WriteFile, WriteFails
<1>2. h \in Busy /\ t \in Stores /\ k \in Numbers
  BY <1>1, BusyNumber DEF Busy
<1>3. PICK what \in {NoOne, handler[h].full} :
        StoreAt(h, what) /\ (WriteFile(h) => what = handler[h].full)
  BY <1>1
<1>4. handler[h].full \in 1 .. MaxNumber /\ what \in 0 .. MaxNumber
  BY <1>1, BusyNumber, NumberingAssumption
<1>5. /\ stored'[t][k] = what
      /\ \A s \in Stores, n \in Numbers : ~(s = t /\ n = k) => stored'[s][n] = stored[s][n]
  BY <1>1, <1>3, <1>4, StoreMoves
<1>6. stored[t][k] = NoOne /\ told[t][k] = NoOne /\ k =< seq[t]
  BY <1>1, <1>2, NumberIsOwn
<1>7. \A n \in Numbers : Covered(n) => Covered(n)'
  <2>1. "snapshots" \in Stores
    BY DEF Stores
  <2>2. \A m \in Numbers : stored["snapshots"][m] # NoOne => stored'["snapshots"][m] # NoOne
    BY <1>5, <1>6, <2>1
  <2> QED
    BY <2>2 DEF Covered, OnDisk
<1>8. \A s \in Stores, n \in Numbers : stored'[s][n] # NoOne => n =< seq[s]
  BY <1>5, <1>6 DEF Together, CountersLead, OnDisk
<1>9. \A s \in Stores, n \in Numbers : <<s, n>> # At(h) => Spared(s, n) /\ told'[s][n] = told[s][n]
  BY <1>1, <1>5 DEF At, Spared
<1>10. \A n \in handler[h].old : Covered(n)'
  BY <1>7 DEF Together, OldIsCovered, NumberTypeOK, Works
<1>11. t \in {"snapshots", "outbox"}
  BY <1>2 DEF Stores
<1>12. CASE WriteFile(h)
  <2>1. Moved(h, IF t = "snapshots" THEN "rotate" ELSE "tell", handler[h].old)
    BY <1>12, HandlerMoves
  <2>2. StandsNext(t, k, handler[h].full)
    BY <1>3, <1>5, <1>12 DEF StandsNext
  <2> QED
    BY <1>1, <1>2, <1>6, <1>7, <1>8, <1>9, <1>10, <2>1, <2>2, HandlerStep DEF Moved
<1>13. CASE WriteFails(h)
  <2>1. \/ t = "outbox" /\ Moved(h, "undo", handler[h].old)
        \/ Ended(h)
    BY <1>13, HandlerMoves
  <2>2. CASE t = "outbox" /\ Moved(h, "undo", handler[h].old)
    BY <1>1, <1>2, <1>6, <1>7, <1>8, <1>9, <1>10, <2>2, HandlerStep DEF Moved
  <2>3. CASE Ended(h)
    BY <1>1, <1>2, <1>6, <1>7, <1>8, <1>9, <2>3, HandlerStep DEF Ended, Unused
  <2> QED
    BY <2>1, <2>2, <2>3
<1> QED
  BY <1>12, <1>13

\* A send that failed takes its part of a file away (RemoveFailed).
LEMMA TogetherRemoveFailed ==
    ASSUME NumberTypeOK, Together, NEW h \in Handlers, RemoveFailed(h)
    PROVE  Together'
<1> DEFINE t == handler[h].store
           k == handler[h].number
<1>1. handler[h].pc = "undo" /\ UNCHANGED <<seq, told>> /\ StoreAt(h, NoOne)
  BY DEF RemoveFailed
<1>2. h \in Busy /\ t = "outbox" /\ k \in Numbers /\ NoOne \in 0 .. MaxNumber
  BY <1>1, BusyNumber, NumberingAssumption DEF Busy, Together, HandlersSound
<1>3. /\ stored'[t][k] = NoOne
      /\ \A s \in Stores, n \in Numbers : ~(s = t /\ n = k) => stored'[s][n] = stored[s][n]
  BY <1>1, <1>2, StoreMoves
<1>4. told[t][k] = NoOne
  BY <1>2, NumberIsOwn
<1>5. \A n \in Numbers : Covered(n) => Covered(n)'
  BY <1>2, <1>3 DEF Covered, OnDisk, Stores
<1>6. \A s \in Stores, n \in Numbers : stored'[s][n] # NoOne => n =< seq[s]
  BY <1>3 DEF Together, CountersLead, OnDisk
<1>7. \A s \in Stores, n \in Numbers : <<s, n>> # At(h) => Spared(s, n) /\ told'[s][n] = told[s][n]
  BY <1>1, <1>3 DEF At, Spared
<1>8. Ended(h)
  BY HandlerMoves
<1> QED
  BY <1>1, <1>2, <1>4, <1>5, <1>6, <1>7, <1>8, HandlerStep DEF Ended, Unused

\* A rotation picks what a newer file covers, since it keeps one at least
\* (rotate).
LEMMA TogetherRotate ==
    ASSUME NumberTypeOK, Together, NEW h \in Handlers, rotate(h)
    PROVE  Together'
<1> DEFINE t == handler[h].store
           k == handler[h].number
           On == OnDisk("snapshots")
           old == {n \in On : Cardinality({m \in On : m > n}) >= SnapshotKeep}
<1>1. /\ handler[h].pc = "rotate" /\ UNCHANGED <<seq, told, stored>>
      /\ handler' = [handler EXCEPT ![h].pc = "remove", ![h].old = old]
  BY DEF rotate
<1>2. h \in Busy /\ t = "snapshots" /\ k \in Numbers /\ Stands(t, k, handler[h].full)
  BY <1>1, BusyNumber DEF Busy, Together, HandlersSound
<1>3. \A n \in old : Covered(n)
  <2> SUFFICES ASSUME NEW n \in old, ~Covered(n) PROVE FALSE
    OBVIOUS
  <2>1. {m \in On : m > n} = {}
    BY DEF Covered
  <2>2. Cardinality({m \in On : m > n}) = 0
    BY <2>1, FS_EmptySet
  <2>3. Cardinality({m \in On : m > n}) >= SnapshotKeep
    OBVIOUS
  <2> QED
    BY <2>2, <2>3, NumberingAssumption
<1>4. handler \in [Handlers -> Works]
  BY DEF NumberTypeOK
<1> HIDE DEF old
<1>5. /\ handler'[h].pc = "remove" /\ handler'[h].old = old
      /\ handler'[h].store = t /\ handler'[h].number = k /\ handler'[h].full = handler[h].full
      /\ \A g \in Handlers \ {h} : handler'[g] = handler[g]
  BY <1>1, <1>4 DEF Works
<1>6. told[t][k] = NoOne
  BY <1>2, NumberIsOwn
<1>7. /\ \A n : Covered(n) => Covered(n)'
      /\ \A n \in old : Covered(n)'
      /\ StandsNext(t, k, handler[h].full)
  <2>1. \A n : Covered(n) => Covered(n)'
    BY <1>1 DEF Covered, OnDisk
  <2>2. Spared(t, k)
    BY <1>1 DEF Spared
  <2> QED
    BY <1>2, <1>3, <2>1, <2>2, StandsOn
<1>8. \A s \in Stores, n \in Numbers : stored'[s][n] # NoOne => n =< seq[s]
  BY <1>1 DEF Together, CountersLead, OnDisk
<1>9. \A s \in Stores, n \in Numbers : <<s, n>> # At(h) => Spared(s, n) /\ told'[s][n] = told[s][n]
  BY <1>1 DEF At, Spared
<1> QED
  BY <1>1, <1>2, <1>5, <1>6, <1>7, <1>8, <1>9, HandlerStep

\* What is removed has a newer file before and after: the newest of all is never
\* among it (RemoveOld).
LEMMA TogetherRemoveOld ==
    ASSUME NumberTypeOK, Together, NEW h \in Handlers, RemoveOld(h)
    PROVE  Together'
<1> DEFINE t == handler[h].store
           k == handler[h].number
           old == handler[h].old
<1>1. /\ handler[h].pc = "remove" /\ UNCHANGED <<seq, told>>
      /\ stored' = [stored EXCEPT !["snapshots"] =
                      [n \in Numbers |-> IF n \in old THEN NoOne ELSE @[n]]]
      /\ Moved(h, "tell", {})
  BY HandlerMoves DEF RemoveOld
<1>2. /\ h \in Busy /\ t = "snapshots" /\ t \in Stores /\ k \in Numbers
      /\ Stands(t, k, handler[h].full) /\ \A n \in old : Covered(n)
  BY <1>1, BusyNumber DEF Busy, Together, HandlersSound, OldIsCovered
<1>3. stored \in [Stores -> [Numbers -> 0 .. MaxNumber]]
  BY DEF NumberTypeOK
<1> HIDE DEF t, k, old
<1>4. /\ \A n \in Numbers : stored'["snapshots"][n] =
                                IF n \in old THEN NoOne ELSE stored["snapshots"][n]
      /\ \A s \in Stores, n \in Numbers : s # "snapshots" => stored'[s][n] = stored[s][n]
  BY <1>1, <1>3 DEF Stores
<1>5. ASSUME NEW n \in Numbers, Covered(n) PROVE Covered(n)'
  <2> DEFINE newer == {m \in OnDisk("snapshots") : m > n}
  <2>1. newer \in SUBSET (0 .. MaxNumber) /\ newer # {} /\ MaxNumber \in Nat
    BY <1>5, NumberingAssumption DEF Covered, OnDisk, Numbers
  <2> HIDE DEF newer
  <2>2. PICK m \in newer : \A o \in newer : o <= m
    BY <2>1, GreatestNatural
  <2>3. m \in OnDisk("snapshots") /\ m > n /\ m \in Nat /\ n \in Nat
    BY <2>2, NumberingAssumption DEF newer, OnDisk, Numbers
  <2>4. ~Covered(m)
    <3> SUFFICES ASSUME NEW o \in OnDisk("snapshots"), o > m PROVE FALSE
      BY DEF Covered
    <3>1. o \in Nat
      BY NumberingAssumption DEF OnDisk, Numbers
    <3>2. o \in newer
      BY <2>3, <3>1 DEF newer
    <3> QED
      BY <2>2, <2>3, <3>1, <3>2
  <2>5. m \notin old
    BY <1>2, <2>4
  <2>6. m \in OnDisk("snapshots")'
    BY <1>4, <2>3, <2>5 DEF OnDisk
  <2> QED
    BY <2>3, <2>6 DEF Covered
<1>6. \A s \in Stores, n \in Numbers : Spared(s, n)
  BY <1>2, <1>4, <1>5 DEF Spared
<1>7. StandsNext(t, k, handler[h].full)
  BY <1>2, <1>5, <1>6, StandsOn
<1>8. told[t][k] = NoOne
  BY <1>2, NumberIsOwn DEF t, k
<1>9. \A s \in Stores, n \in Numbers : stored'[s][n] # NoOne => n =< seq[s]
  BY <1>6 DEF Together, CountersLead, OnDisk, Spared
<1> QED
  BY <1>1, <1>2, <1>5, <1>6, <1>7, <1>8, <1>9, HandlerStep DEF Moved, t, k

\* What is told is what stands there (Tell).
LEMMA TogetherTell ==
    ASSUME NumberTypeOK, Together, NEW h \in Handlers, Tell(h)
    PROVE  Together'
<1> DEFINE t == handler[h].store
           k == handler[h].number
<1>1. /\ handler[h].pc = "tell" /\ UNCHANGED <<seq, stored>> /\ Ended(h)
      /\ told' = [told EXCEPT ![t][k] = handler[h].full]
  BY HandlerMoves DEF Tell
<1>2. h \in Busy /\ t \in Stores /\ k \in Numbers /\ Stands(t, k, handler[h].full)
  BY <1>1, BusyNumber DEF Busy, Together, HandlersSound
<1>3. told \in [Stores -> [Numbers -> 0 .. MaxNumber]]
  BY DEF NumberTypeOK
<1> HIDE DEF t, k
<1>4. /\ told'[t][k] = handler[h].full
      /\ \A s \in Stores, n \in Numbers : ~(s = t /\ n = k) => told'[s][n] = told[s][n]
  BY <1>1, <1>2, <1>3
<1>5. \A s \in Stores, n \in Numbers : <<s, n>> # At(h) => Spared(s, n) /\ told'[s][n] = told[s][n]
  BY <1>1, <1>4 DEF At, Spared, t, k
<1>6. StandsNext(t, k, handler[h].full) /\ \A n : Covered(n) => Covered(n)'
  <2>1. \A n : Covered(n) => Covered(n)'
    BY <1>1 DEF Covered, OnDisk
  <2>2. Spared(t, k)
    BY <1>1 DEF Spared
  <2> QED
    BY <1>2, <2>1, <2>2, StandsOn
<1>7. \A s \in Stores, n \in Numbers : stored'[s][n] # NoOne => n =< seq[s]
  BY <1>1 DEF Together, CountersLead, OnDisk
<1>8. /\ handler'[h].pc = "idle" /\ handler'[h].old = {}
      /\ \A g \in Handlers \ {h} : handler'[g] = handler[g]
  BY <1>1 DEF Ended, Unused
<1> QED
  BY <1>1, <1>2, <1>4, <1>5, <1>6, <1>7, <1>8, HandlerStep DEF t, k

\* A store that is built anew beside no handler resumes past every file
\* (RestartStores, Succeed).
LEMMA TogetherResumed ==
    ASSUME NumberTypeOK, Together, Resume(stored), UNCHANGED <<stored, told>>,
           \A h \in Handlers : handler'[h].pc = "idle" /\ handler'[h].old \subseteq handler[h].old
    PROVE  Together'
<1>1. Busy' = {}
  BY DEF Busy
<1>2. \A s \in Stores, n \in Numbers : stored[s][n] # NoOne => n =< seq'[s]
  <2>1. /\ stored \in [Stores -> [Numbers -> 0 .. MaxNumber]] /\ writes \in 0 .. MaxNumber
        /\ \A s \in Stores, n \in Numbers : stored[s][n] # NoOne => n =< writes
    BY DEF NumberTypeOK, OnDisk
  <2> QED
    BY <2>1, ResumedIsPast
<1> QED
  BY <1>1, <1>2 DEF Together, CountersLead, NumbersApart, HandlersSound, OldIsCovered, ToldStands,
     Stands, Covered, OnDisk

\* Every step.
LEMMA NumberInvStep == NumberInv /\ [NumberNext]_numberVars => NumberInv'
<1> SUFFICES ASSUME NumberInv, [NumberNext]_numberVars PROVE NumberInv'
  OBVIOUS
<1>1. NumberTypeOK /\ NumberTypeOK'
  BY NumberTypeStep DEF NumberInv
<1> SUFFICES ASSUME ~parted' PROVE Together'
  BY <1>1 DEF NumberInv
<1>2. CASE UNCHANGED numberVars
  BY <1>2 DEF NumberInv, Together, CountersLead, NumbersApart, HandlersSound, OldIsCovered,
     ToldStands, Stands, Covered, OnDisk, Busy, numberVars
<1>3. CASE PowerCut
  BY <1>3 DEF PowerCut
<1>4. CASE WriteBack
  BY <1>4 DEF WriteBack, NumberInv, Together, CountersLead, NumbersApart, HandlersSound,
     OldIsCovered, ToldStands, Stands, Covered, OnDisk, Busy
<1>5. CASE RestartStores
  <2>1. /\ Together /\ Resume(stored) /\ UNCHANGED <<stored, told>>
        /\ handler' = [h \in Handlers |-> Unused]
    BY <1>5 DEF RestartStores, NumberInv, Stopped
  <2> QED
    BY <1>1, <2>1, TogetherResumed DEF Unused
<1>6. CASE Succeed
  <2>1. /\ Together /\ Resume(stored) /\ UNCHANGED <<stored, told, handler>>
        /\ \A h \in Handlers : handler[h].pc = "idle"
    BY <1>6 DEF Succeed, NumberInv
  <2> QED
    BY <1>1, <2>1, TogetherResumed
<1>7. ASSUME NEW h \in Handlers,
             \/ \E s \in Stores : reserve(h, s)
             \/ WriteFile(h) \/ WriteFails(h) \/ RemoveFailed(h)
             \/ rotate(h) \/ RemoveOld(h) \/ Tell(h)
      PROVE  Together'
  <2>1. ~parted
    BY <1>7 DEF reserve, WriteFile, WriteFails, RemoveFailed, rotate, RemoveOld, Tell
  <2>2. Together
    BY <2>1 DEF NumberInv
  <2> QED
    BY <1>1, <1>7, <2>2, TogetherReserve, TogetherWrite, TogetherRemoveFailed, TogetherRotate,
       TogetherRemoveOld, TogetherTell
<1> QED
  BY <1>2, <1>3, <1>4, <1>5, <1>6, <1>7 DEF NumberNext

\* What was told keeps.
LEMMA NumberInvStands == NumberInv => NumbersStand
  BY DEF NumberInv, Together, ToldStands, Stands, Stores, NumbersStand

-----------------------------------------------------------------------------
(* The ids of the events.                                                  *)

\* Types, and ids from 1.
LogTypeOK ==
    /\ nextID \in [Instances -> Nat \ {0}]
    /\ running \subseteq Instances /\ IsFiniteSet(running)
    /\ lines \in Seq(Nat \ {0})
    /\ stream \in [pc : {"none", "open", "replay", "live"}, on : Nat, ch : Seq(Nat \ {0})]
    /\ beside \in BOOLEAN /\ missed \in BOOLEAN

\* The instance that was started last.
Newest(n) == n \in running /\ \A j \in running : j =< n

\* One runs that was started last, and no stream is to one started after it.
OneIsNewest == \E n \in Instances : Newest(n) /\ stream.on =< n

\* The ids of the file ascend to less than the next of the newest instance.
LinesAscend ==
    /\ \A j, k \in 1 .. Len(lines) : j < k => lines[j] < lines[k]
    /\ \A n \in Instances : Newest(n) => \A k \in 1 .. Len(lines) : lines[k] < nextID[n]
    /\ lastEventID \in Nat

\* The client has been sent the file to its Last-Event-ID, and waits for lines
\* of the file.
SentToLast ==
    /\ \A id \in ToSet(lines) : id =< lastEventID => id \in got
    /\ lastEventID # 0 => lastEventID \in ToSet(lines)
    /\ ToSet(stream.ch) \subseteq ToSet(lines)

\* What a live stream is yet to forward leaves out no line before it, and, of
\* the newest instance, no line at all.
ChannelIsWhole ==
    stream.pc = "live" =>
      /\ \A k \in 1 .. Len(stream.ch), id \in ToSet(lines) :
           lastEventID < id /\ id < stream.ch[k] => \E j \in 1 .. (k - 1) : stream.ch[j] = id
      /\ Newest(stream.on) => \A id \in ToSet(lines) : lastEventID < id => id \in ToSet(stream.ch)

LogInv ==
    /\ LogTypeOK /\ OneIsNewest
    /\ ~beside => LinesAscend
    /\ ~beside /\ ~missed => SentToLast /\ ChannelIsWhole

\* A sequence has the elements at its places.
LEMMA Places ==
    ASSUME NEW s \in Seq(Nat)
    PROVE  ToSet(s) = {s[k] : k \in 1 .. Len(s)}
<1>1. DOMAIN s = 1 .. Len(s)
  OBVIOUS
<1> QED
  BY <1>1 DEF ToSet

\* The elements of a file with one more line, and of a channel with one fewer.
LEMMA Elements ==
    ASSUME NEW s \in Seq(Nat)
    PROVE  /\ ToSet(s) \subseteq Nat
           /\ \A id : id \in ToSet(s) <=> \E k \in 1 .. Len(s) : s[k] = id
           /\ \A x \in Nat : /\ Append(s, x) \in Seq(Nat)
                             /\ ToSet(Append(s, x)) = ToSet(s) \union {x}
           /\ s # <<>> => /\ Head(s) \in ToSet(s)
                          /\ ToSet(s) = ToSet(Tail(s)) \union {Head(s)}
                          /\ Tail(s) \in Seq(Nat) /\ Len(Tail(s)) = Len(s) - 1
                          /\ \A k \in 1 .. Len(Tail(s)) : Tail(s)[k] = s[k + 1]
<1>1. ToSet(s) = {s[k] : k \in 1 .. Len(s)}
  BY Places
<1>2. ASSUME NEW x \in Nat
      PROVE  Append(s, x) \in Seq(Nat) /\ ToSet(Append(s, x)) = ToSet(s) \union {x}
  <2>1. /\ Append(s, x) \in Seq(Nat) /\ Len(Append(s, x)) = Len(s) + 1
        /\ \A k \in 1 .. Len(s) : Append(s, x)[k] = s[k]
        /\ Append(s, x)[Len(s) + 1] = x
    OBVIOUS
  <2>2. ToSet(Append(s, x)) = {Append(s, x)[k] : k \in 1 .. (Len(s) + 1)}
    BY <2>1, Places
  <2>3. ToSet(Append(s, x)) \subseteq ToSet(s) \union {x}
    <3> SUFFICES ASSUME NEW k \in 1 .. (Len(s) + 1) PROVE Append(s, x)[k] \in ToSet(s) \union {x}
      BY <2>2
    <3>1. CASE k = Len(s) + 1
      BY <2>1, <3>1
    <3>2. CASE k \in 1 .. Len(s)
      BY <1>1, <2>1, <3>2
    <3> QED
      BY <3>1, <3>2
  <2>4. \A k \in 1 .. Len(s) : s[k] \in ToSet(Append(s, x))
    <3> TAKE k \in 1 .. Len(s)
    <3>1. k \in 1 .. (Len(s) + 1)
      OBVIOUS
    <3> QED
      BY <2>1, <2>2, <3>1
  <2>5. x \in ToSet(Append(s, x))
    <3>1. Len(s) + 1 \in 1 .. (Len(s) + 1)
      OBVIOUS
    <3> QED
      BY <2>1, <2>2, <3>1
  <2> QED
    BY <1>1, <2>1, <2>3, <2>4, <2>5
<1>3. ASSUME s # <<>>
      PROVE  /\ Head(s) \in ToSet(s)
             /\ ToSet(s) = ToSet(Tail(s)) \union {Head(s)}
             /\ Tail(s) \in Seq(Nat) /\ Len(Tail(s)) = Len(s) - 1
             /\ \A k \in 1 .. Len(Tail(s)) : Tail(s)[k] = s[k + 1]
  <2>1. /\ Len(s) \in Nat \ {0} /\ Head(s) = s[1]
        /\ Tail(s) \in Seq(Nat) /\ Len(Tail(s)) = Len(s) - 1
        /\ \A k \in 1 .. (Len(s) - 1) : Tail(s)[k] = s[k + 1]
    BY <1>3
  <2>2. ToSet(Tail(s)) = {Tail(s)[k] : k \in 1 .. (Len(s) - 1)}
    BY <2>1, Places
  <2>3. Head(s) \in ToSet(s) /\ ToSet(Tail(s)) \subseteq ToSet(s)
    <3>1. 1 \in 1 .. Len(s) /\ \A k \in 1 .. (Len(s) - 1) : k + 1 \in 1 .. Len(s)
      BY <2>1
    <3> QED
      BY <1>1, <2>1, <2>2, <3>1
  <2>4. ASSUME NEW k \in 1 .. Len(s) PROVE s[k] \in ToSet(Tail(s)) \union {Head(s)}
    <3>1. CASE k = 1
      BY <2>1, <3>1
    <3>2. CASE k # 1
      <4>1. k - 1 \in 1 .. (Len(s) - 1) /\ (k - 1) + 1 = k
        BY <2>1, <3>2
      <4> QED
        BY <2>1, <2>2, <4>1
    <3> QED
      BY <3>1, <3>2
  <2> QED
    BY <1>1, <2>1, <2>3, <2>4
<1> QED
  BY <1>1, <1>2, <1>3

\* after: nothing but lines of the file, and every line that is newer.
LEMMA AfterHasNewer ==
    ASSUME NEW s \in Seq(Nat), NEW id \in Nat
    PROVE  /\ ToSet(After(s, id)) \subseteq ToSet(s)
           /\ \A x \in ToSet(s) : x > id => x \in ToSet(After(s, id))
<1> DEFINE newer == {k \in 1 .. Len(s) : s[k] > id}
<1>1. newer \in SUBSET Nat
  OBVIOUS
<1>2. After(s, id) = IF newer = {} THEN <<>> ELSE SubSeq(s, Min(newer), Len(s))
  BY DEF After
<1>3. CASE newer = {}
  <2>1. ToSet(<<>>) = {}
    BY DEF ToSet
  <2>2. \A k \in 1 .. Len(s) : ~(s[k] > id)
    BY <1>3
  <2>3. After(s, id) = <<>>
    BY <1>2, <1>3
  <2>4. \A x \in ToSet(s) : ~(x > id)
    BY <2>2, Places
  <2> QED
    BY <2>1, <2>3, <2>4
<1>4. CASE newer # {}
  <2> DEFINE m == Min(newer)
  <2>1. m \in newer /\ \A k \in newer : m =< k
    <3> HIDE DEF newer
    <3>1. \E k \in newer : \A j \in newer : k <= j
      BY <1>1, <1>4, LeastNatural
    <3> QED
      BY <3>1 DEF Min
  <2>2. m \in 1 .. Len(s)
    BY <2>1
  <2> HIDE DEF m
  <2> DEFINE t == SubSeq(s, m, Len(s))
  <2>3. /\ t \in Seq(Nat) /\ Len(t) = Len(s) - m + 1
        /\ \A k \in 1 .. (Len(s) - m + 1) : t[k] = s[m + k - 1]
    <3>1. /\ m \in Int /\ Len(s) \in Int /\ m =< Len(s)
          /\ \A k \in m .. Len(s) : s[k] \in Nat
      BY <2>2
    <3> QED
      BY <3>1, SubSeqProperties
  <2>4. ToSet(t) = {t[k] : k \in 1 .. (Len(s) - m + 1)}
    BY <2>3, Places
  <2>5. After(s, id) = t
    BY <1>2, <1>4 DEF m
  <2> HIDE DEF t
  <2>6. ToSet(t) \subseteq ToSet(s)
    <3> SUFFICES ASSUME NEW k \in 1 .. (Len(s) - m + 1) PROVE t[k] \in ToSet(s)
      BY <2>4
    <3>1. m + k - 1 \in 1 .. Len(s) /\ t[k] = s[m + k - 1]
      BY <2>2, <2>3
    <3>2. s[m + k - 1] \in ToSet(s)
      BY <3>1, Places
    <3> QED
      BY <3>1, <3>2
  <2>7. ASSUME NEW k \in 1 .. Len(s), s[k] > id PROVE s[k] \in ToSet(t)
    <3>1. m =< k
      BY <2>1, <2>7
    <3>2. k - m + 1 \in 1 .. (Len(s) - m + 1) /\ m + (k - m + 1) - 1 = k
      BY <2>2, <3>1
    <3> QED
      BY <2>3, <2>4, <3>2
  <2> QED
    BY <2>5, <2>6, <2>7, Elements
<1> QED
  BY <1>3, <1>4

\* emit takes the client to the greatest of what it is sent.
LEMMA EmitMoves ==
    ASSUME NEW ids \in SUBSET Nat, lastEventID \in Nat, Emit(ids),
           NEW g \in ids \union {lastEventID}, \A n \in ids \union {lastEventID} : n =< g
    PROVE  /\ lastEventID' = g
           /\ got \subseteq got'
           /\ \A id \in ids : id > lastEventID => id \in got'
<1> DEFINE newer == {id \in ids : id > lastEventID}
           S == {lastEventID} \union newer
<1>1. got' = got \union newer /\ lastEventID' = Max(S)
  BY DEF Emit
<1>2. g \in Nat /\ g >= lastEventID
  OBVIOUS
<1>3. g \in S /\ \A n \in S : n \in Nat /\ n =< g
  BY <1>2
<1> HIDE DEF S
<1>4. Max(S) \in S /\ \A n \in S : Max(S) >= n
  <2>1. \A n \in S : g >= n
    BY <1>2, <1>3
  <2> QED
    BY <1>3, <2>1 DEF Max
<1>5. Max(S) \in Nat /\ Max(S) =< g /\ Max(S) >= g
  BY <1>3, <1>4
<1> QED
  BY <1>1, <1>2, <1>5

\* One instance is the newest.
LEMMA NewestIs ==
    ASSUME LogTypeOK, NEW m \in Instances, Newest(m), NEW n, Newest(n)
    PROVE  n = m
<1>1. m \in Nat /\ n \in Nat /\ m =< n /\ n =< m
  BY EventLogAssumption DEF LogTypeOK, Newest
<1> QED
  BY <1>1

\* There is a first instance.
LEMMA FirstStarts == First \in Instances
<1>1. Instances \in SUBSET Nat /\ Instances # {}
  BY EventLogAssumption
<1>2. \E m \in Instances : \A n \in Instances : m <= n
  BY <1>1, LeastNatural
<1> QED
  BY <1>2 DEF First, Min

\* The first instance starts an empty log.
LEMMA LogInvInit == LogInit => LogInv
<1> SUFFICES ASSUME LogInit PROVE LogInv
  OBVIOUS
<1>1. /\ nextID = [i \in Instances |-> 1] /\ running = {First} /\ lines = <<>>
      /\ stream = NoStream /\ lastEventID = 0 /\ beside = FALSE /\ missed = FALSE
  BY DEF LogInit
<1>2. First \in Instances
  BY FirstStarts
<1>3. LogTypeOK
  <2>1. nextID \in [Instances -> Nat \ {0}] /\ lines \in Seq(Nat \ {0})
    BY <1>1
  <2>2. stream \in [pc : {"none", "open", "replay", "live"}, on : Nat, ch : Seq(Nat \ {0})]
    BY <1>1 DEF NoStream
  <2>3. running \subseteq Instances /\ IsFiniteSet(running)
    BY <1>1, <1>2, FS_Singleton
  <2> QED
    BY <1>1, <2>1, <2>2, <2>3 DEF LogTypeOK
<1>4. OneIsNewest
  BY <1>1, <1>2, EventLogAssumption DEF OneIsNewest, Newest, NoStream
<1>5. LinesAscend /\ SentToLast /\ ChannelIsWhole
  BY <1>1 DEF LinesAscend, SentToLast, ChannelIsWhole, NoStream, ToSet
<1> QED
  BY <1>3, <1>4, <1>5 DEF LogInv

\* Two things that differ are two.
LEMMA TwoApart ==
    ASSUME NEW a, NEW b, a # b
    PROVE  Cardinality({a, b}) = 2
<1>1. IsFiniteSet({a}) /\ Cardinality({a}) = 1
  BY FS_Singleton
<1>2. Cardinality({a} \union {b}) = Cardinality({a}) + 1
  BY <1>1, FS_AddElement
<1>3. {a} \union {b} = {a, b}
  OBVIOUS
<1> QED
  BY <1>1, <1>2, <1>3

\* What an event stamped does: the counter of its instance goes on, and whoever
\* is subscribed to that instance is handed it or misses it.
LEMMA StampMoves ==
    ASSUME LogTypeOK, NEW i \in Instances, Stamp(i)
    PROVE  /\ i \in running /\ running' = running
           /\ nextID' \in [Instances -> Nat \ {0}] /\ nextID'[i] = nextID[i] + 1
           /\ \A j \in Instances \ {i} : nextID'[j] = nextID[j]
           /\ stream' \in [pc : {"none", "open", "replay", "live"}, on : Nat, ch : Seq(Nat \ {0})]
           /\ stream'.pc = stream.pc /\ stream'.on = stream.on
           /\ \/ stream'.ch = stream.ch
              \/ stream.on = i /\ stream'.ch = Append(stream.ch, nextID[i])
           /\ UNCHANGED <<got, lastEventID>>
           /\ beside' \in BOOLEAN /\ (~beside' => ~beside /\ running = {i})
           /\ missed' \in BOOLEAN
           /\ ~missed' => /\ ~missed /\ lines' # lines
                          /\ stream.pc = "live" /\ stream.on = i
                               => stream'.ch = Append(stream.ch, nextID[i])
<1>1. /\ i \in running /\ running' = running /\ nextID' = [nextID EXCEPT ![i] = @ + 1]
      /\ FanOut(i) /\ beside' = (beside \/ Cardinality(running) > 1)
      /\ UNCHANGED <<got, lastEventID>>
  BY DEF Stamp
<1>2. /\ nextID \in [Instances -> Nat \ {0}] /\ running \subseteq Instances /\ IsFiniteSet(running)
      /\ stream \in [pc : {"none", "open", "replay", "live"}, on : Nat, ch : Seq(Nat \ {0})]
      /\ beside \in BOOLEAN /\ missed \in BOOLEAN
  BY DEF LogTypeOK
<1>3. /\ nextID' \in [Instances -> Nat \ {0}] /\ nextID'[i] = nextID[i] + 1
      /\ \A j \in Instances \ {i} : nextID'[j] = nextID[j]
  BY <1>1, <1>2
<1>4. ~beside' => ~beside /\ running = {i}
  <2> SUFFICES ASSUME ~beside' PROVE running = {i}
    BY <1>1
  <2>1. Cardinality(running) \in Nat /\ ~(Cardinality(running) > 1)
    BY <1>1, <1>2, FS_CardinalityType
  <2> SUFFICES ASSUME NEW j \in running, j # i PROVE FALSE
    BY <1>1
  <2>2. {i, j} \subseteq running /\ Cardinality({i, j}) = 2
    BY <1>1, TwoApart
  <2>3. Cardinality({i, j}) =< Cardinality(running)
    BY <1>2, <2>2, FS_Subset
  <2> QED
    BY <2>1, <2>2, <2>3
<1>5. /\ \/ stream' = stream
         \/ Subscribed(i) /\ stream' = [stream EXCEPT !.ch = Append(@, nextID[i])]
      /\ missed' = (missed \/ (Subscribed(i) /\ Len(stream.ch) >= LogBuffer) \/ lines' = lines)
      /\ Subscribed(i) /\ ~(Len(stream.ch) >= LogBuffer)
           => stream' = [stream EXCEPT !.ch = Append(@, nextID[i])]
  BY <1>1 DEF FanOut
<1>6. nextID[i] \in Nat \ {0} /\ Append(stream.ch, nextID[i]) \in Seq(Nat \ {0})
  BY <1>2
<1>7. ASSUME stream' = [stream EXCEPT !.ch = Append(@, nextID[i])]
      PROVE  /\ stream' \in [pc : {"none", "open", "replay", "live"}, on : Nat, ch : Seq(Nat \ {0})]
             /\ stream'.pc = stream.pc /\ stream'.on = stream.on
             /\ stream'.ch = Append(stream.ch, nextID[i])
  BY <1>2, <1>6, <1>7
<1>8. /\ stream' \in [pc : {"none", "open", "replay", "live"}, on : Nat, ch : Seq(Nat \ {0})]
      /\ stream'.pc = stream.pc /\ stream'.on = stream.on
      /\ \/ stream'.ch = stream.ch
         \/ stream.on = i /\ stream'.ch = Append(stream.ch, nextID[i])
  BY <1>2, <1>5, <1>7 DEF Subscribed
<1>9. ~missed' => /\ ~missed /\ lines' # lines
                  /\ stream.pc = "live" /\ stream.on = i
                       => stream'.ch = Append(stream.ch, nextID[i])
  BY <1>5, <1>7 DEF Subscribed
<1>10. beside' \in BOOLEAN /\ missed' \in BOOLEAN
  BY <1>1, <1>5
<1> QED
  BY <1>1, <1>3, <1>4, <1>8, <1>9, <1>10

\* What a step leaves of the log: the file grows by the event stamped, at the
\* most.
LEMMA LinesMove ==
    ASSUME LogTypeOK, NEW i \in Instances, AppendEvent(i) \/ WriteLost(i)
    PROVE  Stamp(i) /\ lines' \in {lines, Append(lines, nextID[i])} /\ lines' \in Seq(Nat \ {0})
<1>1. nextID[i] \in Nat \ {0} /\ lines \in Seq(Nat \ {0})
  BY DEF LogTypeOK
<1>2. Append(lines, nextID[i]) \in Seq(Nat \ {0})
  BY <1>1
<1> QED
  BY <1>1, <1>2 DEF AppendEvent, WriteLost

\* OpenLog: past the last line, which of an ascending file is past them all.
LEMMA OpenedIsPast ==
    ASSUME NEW s \in Seq(Nat \ {0})
    PROVE  /\ OpenLog(s) \in Nat \ {0}
           /\ (\A j, k \in 1 .. Len(s) : j < k => s[j] < s[k])
                => \A k \in 1 .. Len(s) : s[k] < OpenLog(s)
<1>1. CASE s = <<>>
  BY <1>1 DEF OpenLog
<1>2. CASE s # <<>>
  <2> DEFINE l == Len(s)
  <2>1. l \in Nat \ {0} /\ l \in 1 .. l
    BY <1>2
  <2>2. s[l] \in Nat \ {0} /\ OpenLog(s) = s[l] + 1
    BY <1>2, <2>1 DEF OpenLog, Last
  <2>3. ASSUME \A j, k \in 1 .. l : j < k => s[j] < s[k], NEW k \in 1 .. l
        PROVE  s[k] < OpenLog(s)
    <3>1. s[k] \in Nat
      OBVIOUS
    <3>2. k = l \/ s[k] < s[l]
      BY <2>1, <2>3
    <3> QED
      BY <2>2, <3>1, <3>2
  <2> QED
    BY <2>2, <2>3
<1> QED
  BY <1>1, <1>2

\* Where a stream is opened: on the newest instance.
LEMMA MaxIsNewest ==
    ASSUME LogTypeOK, NEW n \in Instances, Newest(n)
    PROVE  Max(running) = n /\ n \in Nat
<1>1. n \in running /\ \A j \in running : j \in Nat /\ n >= j
  BY EventLogAssumption DEF LogTypeOK, Newest
<1>2. Max(running) \in running /\ \A j \in running : Max(running) >= j
  BY <1>1 DEF Max
<1>3. Max(running) \in Nat /\ Max(running) >= n /\ n >= Max(running)
  BY <1>1, <1>2
<1> QED
  BY <1>1, <1>3

\* A client that is sent what it missed has the whole file (Replay).
LEMMA ReplayMoves ==
    ASSUME LogTypeOK, LinesAscend, Emit(ToSet(After(lines, lastEventID)))
    PROVE  /\ lastEventID' \in Nat /\ lastEventID' \in ToSet(lines) \union {lastEventID}
           /\ \A id \in ToSet(lines) : id =< lastEventID'
           /\ got \subseteq got' /\ \A id \in ToSet(lines) : id > lastEventID => id \in got'
<1> DEFINE ids == ToSet(After(lines, lastEventID))
           l == Len(lines)
<1>1. lines \in Seq(Nat) /\ lastEventID \in Nat
  BY DEF LogTypeOK, LinesAscend
<1>2. /\ ids \subseteq ToSet(lines) /\ ToSet(lines) \subseteq Nat
      /\ \A x \in ToSet(lines) : x > lastEventID => x \in ids
  BY <1>1, AfterHasNewer, Elements
<1>3. ToSet(lines) = {lines[k] : k \in 1 .. l}
  BY <1>1, Places
<1> HIDE DEF ids
<1>4. \E g \in ids \union {lastEventID} : \A n \in ToSet(lines) \union {lastEventID} : n =< g
  <2>1. CASE \A x \in ToSet(lines) : ~(x > lastEventID)
    <3>1. \A n \in ToSet(lines) \union {lastEventID} : n =< lastEventID
      BY <1>1, <1>2, <2>1
    <3> QED
      BY <3>1
  <2>2. CASE \E x \in ToSet(lines) : x > lastEventID
    <3>1. PICK k \in 1 .. l : lines[k] > lastEventID
      BY <1>3, <2>2
    <3>2. l \in 1 .. l /\ \A j \in 1 .. l : lines[j] \in Nat
      BY <1>1
    <3>3. \A j \in 1 .. l : lines[j] =< lines[l]
      BY <3>2 DEF LinesAscend
    <3>4. lines[l] \in ToSet(lines) /\ lines[l] > lastEventID
      BY <1>1, <1>3, <3>1, <3>2, <3>3
    <3>5. lines[l] \in ids /\ \A n \in ToSet(lines) \union {lastEventID} : n =< lines[l]
      BY <1>1, <1>2, <1>3, <3>2, <3>3, <3>4
    <3> QED
      BY <3>5
  <2> QED
    BY <2>1, <2>2
<1>5. PICK g \in ids \union {lastEventID} : \A n \in ToSet(lines) \union {lastEventID} : n =< g
  BY <1>4
<1>6. /\ lastEventID' = g /\ got \subseteq got'
      /\ \A id \in ids : id > lastEventID => id \in got'
  <2>1. Emit(ids) /\ ids \in SUBSET Nat /\ \A n \in ids \union {lastEventID} : n =< g
    BY <1>2, <1>5 DEF ids
  <2> QED
    BY <1>1, <1>5, <2>1, EmitMoves
<1> QED
  BY <1>1, <1>2, <1>5, <1>6

\* A client that is sent one event goes on to it, if it is a newer one (Forward).
LEMMA ForwardMoves ==
    ASSUME lastEventID \in Nat, NEW id \in Nat, Emit({id})
    PROVE  /\ lastEventID' = (IF id > lastEventID THEN id ELSE lastEventID)
           /\ got \subseteq got' /\ (id > lastEventID => id \in got')
<1> DEFINE g == IF id > lastEventID THEN id ELSE lastEventID
<1>1. /\ {id} \in SUBSET Nat /\ g \in {id} \union {lastEventID}
      /\ \A n \in {id} \union {lastEventID} : n =< g
  OBVIOUS
<1> HIDE DEF g
<1>2. /\ lastEventID' = g /\ got \subseteq got'
      /\ \A x \in {id} : x > lastEventID => x \in got'
  BY <1>1, EmitMoves
<1> QED
  BY <1>2 DEF g

\* What the steps of the stream make of the stream.
LEMMA StreamMoves ==
    ASSUME LogTypeOK, OneIsNewest, Connect \/ Subscribe \/ Replay \/ Forward \/ Break
    PROVE  /\ UNCHANGED <<nextID, running, lines, beside, missed>>
           /\ stream' \in [pc : {"none", "open", "replay", "live"}, on : Nat, ch : Seq(Nat \ {0})]
           /\ stream'.on \in {stream.on, 0} \/ Newest(stream'.on)
           /\ Replay \/ Forward \/ UNCHANGED <<got, lastEventID>>
           /\ Replay => /\ stream'.pc = "live" /\ stream'.on = stream.on /\ stream'.ch = stream.ch
                        /\ Emit(ToSet(After(lines, lastEventID)))
           /\ Forward => /\ stream.pc = "live" /\ stream'.pc = "live" /\ stream'.on = stream.on
                         /\ stream.ch # <<>> /\ stream'.ch = Tail(stream.ch)
                         /\ Emit({Head(stream.ch)})
           /\ Replay \/ Forward \/ (stream'.pc # "live" /\ stream'.ch \in {<<>>, stream.ch})
<1>1. stream \in [pc : {"none", "open", "replay", "live"}, on : Nat, ch : Seq(Nat \ {0})]
  BY DEF LogTypeOK
<1>2. CASE Connect
  <2>1. PICK n \in Instances : Newest(n)
    BY DEF OneIsNewest
  <2>2. stream' = [pc |-> "open", on |-> n, ch |-> <<>>] /\ n \in Nat
    BY <1>2, <2>1, MaxIsNewest DEF Connect
  <2> QED
    BY <1>2, <2>1, <2>2 DEF Connect, Replay, Forward, Step
<1>3. CASE Subscribe
  <2>1. stream' = [stream EXCEPT !.pc = "replay"]
    BY <1>3 DEF Subscribe, Step
  <2> QED
    BY <1>1, <1>3, <2>1 DEF Subscribe, Replay, Forward, Step
<1>4. CASE Replay
  <2>1. stream' = [stream EXCEPT !.pc = "live"] /\ stream.pc = "replay"
    BY <1>4 DEF Replay, Step
  <2> QED
    BY <1>1, <1>4, <2>1 DEF Replay, Forward, Step
<1>5. CASE Forward
  <2>1. stream' = [stream EXCEPT !.ch = Tail(stream.ch)] /\ stream.pc = "live" /\ stream.ch # <<>>
    BY <1>5 DEF Forward
  <2>2. Tail(stream.ch) \in Seq(Nat \ {0})
    BY <1>1, <2>1, HeadTailProperties
  <2> QED
    BY <1>1, <1>5, <2>1, <2>2 DEF Replay, Forward, Step
<1>6. CASE Break
  <2>1. stream' = NoStream
    BY <1>6 DEF Break
  <2> QED
    BY <1>1, <1>6, <2>1 DEF Break, NoStream, Replay, Forward, Step
<1> QED
  BY <1>2, <1>3, <1>4, <1>5, <1>6

\* What a start leaves: the instance it starts is the newest.
LEMMA StartMoves ==
    ASSUME LogTypeOK, OneIsNewest, NEW i \in Instances, Start(i) \/ (RestartLog /\ i = First)
    PROVE  /\ running' \subseteq Instances /\ IsFiniteSet(running')
           /\ \A m \in Instances : Newest(m)' <=> m = i
           /\ stream' \in [pc : {"none", "open", "replay", "live"}, on : Nat, ch : Seq(Nat \ {0})]
           /\ stream'.on =< i /\ (stream' = NoStream \/ (stream' = stream /\ stream.on # i))
           /\ nextID' \in [Instances -> Nat \ {0}] /\ nextID'[i] = OpenLog(lines')
           /\ lines' \in Seq(Nat \ {0}) /\ Len(lines') =< Len(lines)
           /\ \A k \in 1 .. Len(lines') : lines'[k] = lines[k]
           /\ missed' \in BOOLEAN /\ (~missed' => ~missed /\ lines' = lines)
           /\ UNCHANGED <<got, lastEventID, beside>>
<1>1. /\ nextID \in [Instances -> Nat \ {0}] /\ lines \in Seq(Nat \ {0})
      /\ running \subseteq Instances /\ IsFiniteSet(running) /\ Instances \subseteq Nat
      /\ stream \in [pc : {"none", "open", "replay", "live"}, on : Nat, ch : Seq(Nat \ {0})]
  BY EventLogAssumption DEF LogTypeOK
<1>a. /\ lines' \in Seq(Nat \ {0}) /\ Len(lines') =< Len(lines)
      /\ \A k \in 1 .. Len(lines') : lines'[k] = lines[k]
      /\ missed' \in BOOLEAN /\ (~missed' => ~missed /\ lines' = lines)
  <2>1. CASE Start(i)
    <3>1. UNCHANGED <<lines, missed>>
      BY <2>1 DEF Start
    <3>2. missed \in BOOLEAN
      BY DEF LogTypeOK
    <3> QED
      BY <1>1, <3>1, <3>2
  <2>2. CASE RestartLog
    <3>1. PICK kept \in 0 .. Len(lines) : lines' = SubSeq(lines, 1, kept)
      BY <2>2 DEF RestartLog
    <3>2. missed' \in BOOLEAN /\ (~missed' => ~missed /\ lines' = lines)
      BY <2>2 DEF RestartLog, LogTypeOK
    <3> QED
      BY <1>1, <3>1, <3>2
  <2> QED
    BY <2>1, <2>2
<1>2. /\ nextID' = [nextID EXCEPT ![i] = OpenLog(lines')]
      /\ UNCHANGED <<got, lastEventID, beside>>
  BY DEF Start, RestartLog
<1>3. nextID' \in [Instances -> Nat \ {0}] /\ nextID'[i] = OpenLog(lines')
  BY <1>1, <1>a, <1>2, OpenedIsPast
<1>4. PICK n \in Instances : Newest(n) /\ stream.on =< n
  BY DEF OneIsNewest
<1>5. CASE Start(i)
  <2>1. /\ \A j \in running : j < i
        /\ stream' = stream
    BY <1>5 DEF Start
  <2>2. PICK left \in SUBSET running : running' = left \union {i}
    BY <1>5 DEF Start
  <2>3. running' \subseteq Instances /\ IsFiniteSet(running')
    BY <1>1, <2>2, FS_Subset, FS_AddElement
  <2>4. stream.on < i
    BY <1>1, <1>4, <2>1 DEF Newest
  <2>5. i \in running' /\ \A j \in running' \ {i} : j < i
    BY <2>1, <2>2
  <2>6. \A m \in Instances : Newest(m)' <=> m = i
    BY <1>1, <2>3, <2>5 DEF Newest
  <2> QED
    <3>1. stream'.on =< i /\ stream' = stream /\ stream.on # i
      BY <1>1, <2>1, <2>4
    <3> QED
      BY <1>1, <1>a, <1>2, <1>3, <2>3, <2>6, <3>1
<1>6. CASE RestartLog /\ i = First
  <2>1. running' = {i} /\ stream' = NoStream
    BY <1>6 DEF RestartLog
  <2>2. IsFiniteSet(running')
    BY <2>1, FS_Singleton
  <2>3. stream'.on =< i /\ stream' \in [pc : {"none", "open", "replay", "live"}, on : Nat,
                                        ch : Seq(Nat \ {0})]
    BY <1>1, <2>1 DEF NoStream
  <2>4. \A m \in Instances : Newest(m)' <=> m = i
    BY <1>1, <2>1 DEF Newest
  <2> QED
    BY <1>1, <1>a, <1>2, <1>3, <2>1, <2>2, <2>3, <2>4
<1> QED
  BY <1>5, <1>6

\* What a turn that winds down leaves: the newest instance.
LEMMA WindDownMoves ==
    ASSUME LogTypeOK, OneIsNewest, NEW i \in Instances, WindDown(i)
    PROVE  /\ running' \subseteq Instances /\ IsFiniteSet(running')
           /\ \A m \in Instances : Newest(m)' <=> Newest(m)
           /\ UNCHANGED <<nextID, lines, stream, got, lastEventID, beside, missed>>
<1>1. /\ running \subseteq Instances /\ IsFiniteSet(running) /\ Instances \subseteq Nat
  BY EventLogAssumption DEF LogTypeOK
<1>2. PICK n \in Instances : Newest(n)
  BY DEF OneIsNewest
<1>3. /\ i < Max(running) /\ running' = running \ {i}
      /\ UNCHANGED <<nextID, lines, stream, got, lastEventID, beside, missed>>
  BY DEF WindDown
<1>4. i < n
  BY <1>2, <1>3, MaxIsNewest
<1>5. IsFiniteSet(running')
  BY <1>1, <1>3, FS_RemoveElement
<1>6. n \in running' /\ \A j \in running' : j \in running
  BY <1>1, <1>2, <1>3, <1>4 DEF Newest
<1>7. ASSUME NEW m \in Instances, Newest(m)' PROVE Newest(m)
  <2>1. m \in running /\ n =< m
    BY <1>6, <1>7 DEF Newest
  <2>2. \A j \in running : j =< n
    BY <1>2 DEF Newest
  <2> QED
    BY <1>1, <2>1, <2>2 DEF Newest
<1>8. ASSUME NEW m \in Instances, Newest(m) PROVE Newest(m)'
  <2>1. m = n
    BY <1>2, <1>8, NewestIs
  <2> QED
    BY <1>6, <1>8, <2>1 DEF Newest
<1> QED
  BY <1>1, <1>3, <1>5, <1>7, <1>8

\* Types are kept, and so is a newest instance.
LEMMA LogTypeStep ==
    ASSUME LogTypeOK, OneIsNewest, [LogNext]_logVars
    PROVE  LogTypeOK' /\ OneIsNewest'
<1>1. /\ nextID \in [Instances -> Nat \ {0}] /\ lines \in Seq(Nat \ {0})
      /\ running \subseteq Instances /\ IsFiniteSet(running) /\ Instances \subseteq Nat
      /\ stream \in [pc : {"none", "open", "replay", "live"}, on : Nat, ch : Seq(Nat \ {0})]
      /\ beside \in BOOLEAN /\ missed \in BOOLEAN
  BY EventLogAssumption DEF LogTypeOK
<1>2. PICK n \in Instances : Newest(n) /\ stream.on =< n
  BY DEF OneIsNewest
<1>3. ASSUME NEW i \in Instances, AppendEvent(i) \/ WriteLost(i) PROVE LogTypeOK' /\ OneIsNewest'
  <2>1. Stamp(i) /\ lines' \in Seq(Nat \ {0})
    BY <1>3, LinesMove
  <2>2. LogTypeOK'
    BY <1>1, <2>1, StampMoves DEF LogTypeOK
  <2>3. running' = running /\ stream'.on = stream.on
    BY <2>1, StampMoves
  <2> QED
    BY <1>2, <2>2, <2>3 DEF OneIsNewest, Newest
<1>4. ASSUME NEW i \in Instances, Start(i) \/ (RestartLog /\ i = First)
      PROVE  LogTypeOK' /\ OneIsNewest'
  <2>1. LogTypeOK'
    <3>1. beside' = beside /\ beside \in BOOLEAN /\ missed' \in BOOLEAN
      BY <1>1, <1>4, StartMoves DEF LogTypeOK
    <3> QED
      BY <1>1, <1>4, <3>1, StartMoves DEF LogTypeOK
  <2>2. Newest(i)' /\ stream'.on =< i
    BY <1>4, StartMoves
  <2> QED
    BY <2>1, <2>2 DEF OneIsNewest
<1>5. ASSUME NEW i \in Instances, WindDown(i) PROVE LogTypeOK' /\ OneIsNewest'
  <2>1. LogTypeOK'
    BY <1>1, <1>5, WindDownMoves DEF LogTypeOK
  <2>2. Newest(n)' /\ stream'.on =< n
    BY <1>2, <1>5, WindDownMoves
  <2> QED
    BY <2>1, <2>2 DEF OneIsNewest
<1>6. ASSUME Connect \/ Subscribe \/ Replay \/ Forward \/ Break PROVE LogTypeOK' /\ OneIsNewest'
  <2>1. /\ UNCHANGED <<nextID, running, lines, beside, missed>>
        /\ stream' \in [pc : {"none", "open", "replay", "live"}, on : Nat, ch : Seq(Nat \ {0})]
        /\ stream'.on \in {stream.on, 0} \/ Newest(stream'.on)
    BY <1>6, StreamMoves
  <2>2. Newest(stream'.on) => stream'.on = n
    BY <1>2, NewestIs
  <2>3. stream'.on =< n /\ Newest(n)'
    BY <1>1, <1>2, <2>1, <2>2 DEF Newest
  <2> QED
    BY <1>1, <2>1, <2>3 DEF LogTypeOK, OneIsNewest
<1>7. CASE UNCHANGED logVars
  BY <1>7 DEF logVars, LogTypeOK, OneIsNewest, Newest
<1> QED
  BY <1>3, <1>4, <1>5, <1>6, <1>7, FirstStarts DEF LogNext

\* The ids ascend as long as one instance writes.
LEMMA LinesAscendStep ==
    ASSUME LogTypeOK, OneIsNewest, ~beside => LinesAscend, ~beside', [LogNext]_logVars
    PROVE  LinesAscend'
<1>1. /\ nextID \in [Instances -> Nat \ {0}] /\ lines \in Seq(Nat \ {0})
      /\ running \subseteq Instances /\ Instances \subseteq Nat
  BY EventLogAssumption DEF LogTypeOK
<1>2. PICK n \in Instances : Newest(n)
  BY DEF OneIsNewest
<1>3. ASSUME NEW i \in Instances, AppendEvent(i) \/ WriteLost(i) PROVE LinesAscend'
  <2>1. Stamp(i) /\ lines' \in {lines, Append(lines, nextID[i])}
    BY <1>3, LinesMove
  <2>2. /\ ~beside /\ running = {i} /\ running' = running /\ nextID'[i] = nextID[i] + 1
        /\ lastEventID' = lastEventID
    BY <2>1, StampMoves
  <2>3. LinesAscend /\ Newest(i) /\ \A m \in Instances : Newest(m)' => m = i
    BY <1>1, <2>2 DEF Newest
  <2>4. \A k \in 1 .. Len(lines) : lines[k] \in Nat /\ lines[k] < nextID[i]
    BY <1>1, <2>3 DEF LinesAscend
  <2>5. nextID[i] \in Nat
    BY <1>1
  <2>6. CASE lines' = lines
    BY <2>2, <2>3, <2>4, <2>5, <2>6 DEF LinesAscend
  <2>7. CASE lines' = Append(lines, nextID[i])
    <3>1. /\ Len(lines') = Len(lines) + 1 /\ lines'[Len(lines) + 1] = nextID[i]
          /\ \A k \in 1 .. Len(lines) : lines'[k] = lines[k]
      BY <1>1, <2>7
    <3>2. ASSUME NEW j \in 1 .. Len(lines'), NEW k \in 1 .. Len(lines'), j < k
          PROVE  lines'[j] < lines'[k]
      <4>1. j \in 1 .. Len(lines)
        BY <3>1, <3>2
      <4>2. k \in 1 .. Len(lines) \/ k = Len(lines) + 1
        BY <3>1
      <4> QED
        BY <2>3, <2>4, <3>1, <3>2, <4>1, <4>2 DEF LinesAscend
    <3>3. \A k \in 1 .. Len(lines') : lines'[k] < nextID'[i]
      <4> TAKE k \in 1 .. Len(lines')
      <4>1. k \in 1 .. Len(lines) \/ k = Len(lines) + 1
        BY <3>1
      <4> QED
        BY <2>2, <2>4, <2>5, <3>1, <4>1
    <3>4. lastEventID' \in Nat
      BY <2>2, <2>3 DEF LinesAscend
    <3> QED
      BY <2>3, <3>2, <3>3, <3>4 DEF LinesAscend
  <2> QED
    BY <2>1, <2>6, <2>7
<1>4. ASSUME NEW i \in Instances, Start(i) \/ (RestartLog /\ i = First) PROVE LinesAscend'
  <2>1. /\ UNCHANGED <<lastEventID, beside>> /\ nextID'[i] = OpenLog(lines')
        /\ lines' \in Seq(Nat \ {0}) /\ Len(lines') =< Len(lines)
        /\ \A k \in 1 .. Len(lines') : lines'[k] = lines[k]
        /\ \A m \in Instances : Newest(m)' => m = i
    BY <1>4, StartMoves
  <2>2. LinesAscend /\ \A j, k \in 1 .. Len(lines') : j < k => lines'[j] < lines'[k]
    <3>1. LinesAscend /\ Len(lines) \in Nat /\ Len(lines') \in Nat
      BY <1>1, <2>1
    <3>2. \A k \in 1 .. Len(lines') : k \in 1 .. Len(lines)
      BY <2>1, <3>1
    <3> QED
      BY <2>1, <3>1, <3>2 DEF LinesAscend
  <2>3. \A k \in 1 .. Len(lines') : lines'[k] < OpenLog(lines')
    BY <2>1, <2>2, OpenedIsPast
  <2> QED
    BY <2>1, <2>2, <2>3 DEF LinesAscend
<1>5. ASSUME NEW i \in Instances, WindDown(i) PROVE LinesAscend'
  <2>1. /\ UNCHANGED <<nextID, lines, lastEventID, beside>>
        /\ \A m \in Instances : Newest(m)' <=> Newest(m)
    BY <1>5, WindDownMoves
  <2> QED
    BY <2>1 DEF LinesAscend
<1>6. ASSUME Connect \/ Subscribe \/ Replay \/ Forward \/ Break PROVE LinesAscend'
  <2>1. UNCHANGED <<nextID, running, lines, beside>> /\ LinesAscend
    BY <1>6, StreamMoves
  <2>2. lastEventID' \in Nat
    <3>1. CASE Replay
      BY <2>1, <3>1, StreamMoves, ReplayMoves
    <3>2. CASE Forward
      <4>1. Emit({Head(stream.ch)}) /\ stream.ch # <<>> /\ stream.ch \in Seq(Nat \ {0})
        BY <3>2, StreamMoves DEF LogTypeOK
      <4>2. Head(stream.ch) \in Nat /\ lastEventID \in Nat
        BY <2>1, <4>1 DEF LinesAscend
      <4> QED
        BY <4>1, <4>2, ForwardMoves
    <3>3. CASE UNCHANGED <<got, lastEventID>>
      BY <2>1, <3>3 DEF LinesAscend
    <3> QED
      BY <1>6, <3>1, <3>2, <3>3, StreamMoves
  <2> QED
    BY <2>1, <2>2 DEF LinesAscend, Newest
<1>7. CASE UNCHANGED logVars
  BY <1>7 DEF logVars, LinesAscend, Newest
<1> QED
  BY <1>3, <1>4, <1>5, <1>6, <1>7, FirstStarts DEF LogNext

\* An event that is written and handed on is past all that was sent, and next in
\* the channel of whoever follows the newest instance (AppendEvent).
LEMMA SentStamp ==
    ASSUME LogTypeOK, OneIsNewest, LinesAscend, SentToLast, ChannelIsWhole,
           NEW i \in Instances, AppendEvent(i) \/ WriteLost(i), ~beside', ~missed'
    PROVE  SentToLast' /\ ChannelIsWhole'
<1> DEFINE x == nextID[i]
<1>1. Stamp(i) /\ lines' \in {lines, Append(lines, x)}
  BY LinesMove
<1>2. /\ running = {i} /\ running' = running /\ UNCHANGED <<got, lastEventID>>
      /\ stream'.pc = stream.pc /\ stream'.on = stream.on
      /\ stream'.ch = stream.ch \/ (stream.on = i /\ stream'.ch = Append(stream.ch, x))
      /\ lines' # lines
      /\ stream.pc = "live" /\ stream.on = i => stream'.ch = Append(stream.ch, x)
  BY <1>1, StampMoves
<1>3. /\ lines \in Seq(Nat) /\ stream.ch \in Seq(Nat) /\ x \in Nat \ {0} /\ lastEventID \in Nat
      /\ Instances \subseteq Nat
  BY EventLogAssumption DEF LogTypeOK, LinesAscend
<1>4. Newest(i)
  BY <1>2, <1>3 DEF Newest
<1>5. \A id \in ToSet(lines) : id \in Nat /\ id < x
  BY <1>3, <1>4, Elements DEF LinesAscend
<1>a. x \in Nat
  BY <1>3
<1> HIDE DEF x
<1>6. ToSet(lines') = ToSet(lines) \union {x}
  <2>1. lines' = Append(lines, x)
    BY <1>1, <1>2
  <2> QED
    BY <1>3, <1>a, <2>1, Elements
<1>7. ToSet(stream.ch) \subseteq ToSet(lines) /\ lastEventID < x
  BY <1>3, <1>5 DEF SentToLast
<1>8. SentToLast'
  <2>1. ToSet(stream'.ch) \subseteq ToSet(stream.ch) \union {x}
    <3>1. ToSet(Append(stream.ch, x)) = ToSet(stream.ch) \union {x}
      BY <1>3, <1>a, Elements
    <3> QED
      BY <1>2, <3>1
  <2>2. ToSet(stream'.ch) \subseteq ToSet(lines')
    BY <1>6, <1>7, <2>1
  <2>3. \A id \in ToSet(lines') : id =< lastEventID' => id \in got'
    BY <1>2, <1>3, <1>6, <1>7 DEF SentToLast
  <2>4. lastEventID' # 0 => lastEventID' \in ToSet(lines')
    BY <1>2, <1>6 DEF SentToLast
  <2> QED
    BY <2>2, <2>3, <2>4 DEF SentToLast
<1>9. ASSUME stream.pc = "live"
      PROVE  \A k \in 1 .. Len(stream'.ch), id \in ToSet(lines') :
               lastEventID < id /\ id < stream'.ch[k] => \E j \in 1 .. (k - 1) : stream'.ch[j] = id
  <2>1. \A k \in 1 .. Len(stream.ch) : stream.ch[k] \in Nat /\ stream.ch[k] < x
    BY <1>3, <1>5, <1>7, Elements
  <2>2. ASSUME NEW k \in 1 .. Len(stream.ch), NEW id \in ToSet(lines'),
               lastEventID < id, id < stream.ch[k]
        PROVE  \E j \in 1 .. (k - 1) : stream.ch[j] = id
    <3>1. id \in ToSet(lines)
      BY <1>3, <1>6, <2>1, <2>2
    <3> QED
      BY <1>9, <2>2, <3>1 DEF ChannelIsWhole
  <2>3. CASE stream'.ch = stream.ch
    BY <2>2, <2>3
  <2>4. CASE stream'.ch = Append(stream.ch, x) /\ stream.on = i
    <3>1. /\ Len(stream'.ch) = Len(stream.ch) + 1 /\ stream'.ch[Len(stream.ch) + 1] = x
          /\ \A k \in 1 .. Len(stream.ch) : stream'.ch[k] = stream.ch[k]
      BY <1>3, <2>4
    <3> SUFFICES ASSUME NEW k \in 1 .. Len(stream'.ch), NEW id \in ToSet(lines'),
                        lastEventID < id, id < stream'.ch[k]
                 PROVE  \E j \in 1 .. (k - 1) : stream'.ch[j] = id
      OBVIOUS
    <3>2. CASE k \in 1 .. Len(stream.ch)
      <4>1. PICK j \in 1 .. (k - 1) : stream.ch[j] = id
        BY <2>2, <3>1, <3>2
      <4>2. j \in 1 .. Len(stream.ch)
        BY <3>2
      <4> QED
        BY <3>1, <4>1, <4>2
    <3>3. CASE k = Len(stream.ch) + 1
      <4>1. id \in ToSet(lines)
        BY <1>3, <1>6, <3>1, <3>3
      <4>2. id \in ToSet(stream.ch)
        BY <1>4, <1>9, <2>4, <4>1 DEF ChannelIsWhole
      <4>3. PICK j \in 1 .. Len(stream.ch) : stream.ch[j] = id
        BY <1>3, <4>2, Elements
      <4>4. j \in 1 .. (k - 1)
        BY <3>3
      <4> QED
        BY <3>1, <4>3, <4>4
    <3> QED
      BY <3>1, <3>2, <3>3
  <2> QED
    BY <1>2, <2>3, <2>4
<1>10. ASSUME stream.pc = "live", Newest(stream.on)'
       PROVE  \A id \in ToSet(lines') : lastEventID < id => id \in ToSet(stream'.ch)
  <2>1. stream.on = i
    BY <1>2, <1>10 DEF Newest
  <2>2. stream'.ch = Append(stream.ch, x)
    BY <1>2, <1>10, <2>1
  <2>3. ToSet(stream'.ch) = ToSet(stream.ch) \union {x}
    BY <1>3, <2>2, Elements
  <2> QED
    BY <1>4, <1>6, <1>10, <2>1, <2>3 DEF ChannelIsWhole
<1>11. ChannelIsWhole'
  BY <1>2, <1>9, <1>10 DEF ChannelIsWhole, Newest
<1> QED
  BY <1>8, <1>11

\* A client that is sent what it missed lacks no line.
LEMMA SentReplay ==
    ASSUME LogTypeOK, OneIsNewest, LinesAscend, SentToLast, Replay
    PROVE  SentToLast' /\ ChannelIsWhole'
<1>1. /\ lines' = lines /\ stream'.ch = stream.ch /\ Emit(ToSet(After(lines, lastEventID)))
  BY StreamMoves
<1>2. /\ lastEventID' \in Nat /\ lastEventID' \in ToSet(lines) \union {lastEventID}
      /\ \A id \in ToSet(lines) : id =< lastEventID'
      /\ got \subseteq got' /\ \A id \in ToSet(lines) : id > lastEventID => id \in got'
  BY <1>1, ReplayMoves
<1>3. ToSet(lines) \subseteq Nat /\ lastEventID \in Nat
  <2>1. lines \in Seq(Nat)
    BY DEF LogTypeOK
  <2> QED
    BY <2>1, Elements DEF LinesAscend
<1>4. \A id \in ToSet(lines) : id \in got'
  BY <1>2, <1>3 DEF SentToLast
<1>5. \A id \in ToSet(lines) : ~(lastEventID' < id)
  BY <1>2, <1>3
<1> QED
  BY <1>1, <1>2, <1>4, <1>5 DEF SentToLast, ChannelIsWhole

\* What is forwarded is the next line of the file the client lacks, if it lacks
\* it (Forward).
LEMMA SentForward ==
    ASSUME LogTypeOK, OneIsNewest, LinesAscend, SentToLast, ChannelIsWhole, Forward
    PROVE  SentToLast' /\ ChannelIsWhole'
<1> DEFINE c == stream.ch
           h == Head(stream.ch)
<1>1. /\ UNCHANGED <<lines, running>> /\ stream.pc = "live" /\ stream'.on = stream.on
      /\ c # <<>> /\ stream'.ch = Tail(c) /\ Emit({h})
  BY StreamMoves
<1>2. /\ lines \in Seq(Nat) /\ c \in Seq(Nat) /\ lastEventID \in Nat
  BY DEF LogTypeOK, LinesAscend
<1>3. /\ ToSet(lines) \subseteq Nat /\ h \in ToSet(c) /\ h \in Nat /\ h = c[1]
      /\ ToSet(c) = ToSet(Tail(c)) \union {h}
      /\ Len(c) \in Nat \ {0} /\ Len(Tail(c)) = Len(c) - 1
      /\ \A k \in 1 .. Len(Tail(c)) : Tail(c)[k] = c[k + 1]
  BY <1>1, <1>2, Elements
<1>4. /\ lastEventID' = (IF h > lastEventID THEN h ELSE lastEventID)
      /\ got \subseteq got' /\ (h > lastEventID => h \in got')
  BY <1>1, <1>2, <1>3, ForwardMoves
<1>5. /\ lastEventID' \in Nat /\ lastEventID =< lastEventID' /\ h =< lastEventID'
  BY <1>2, <1>3, <1>4
<1>6. \A k \in 1 .. Len(c), id \in ToSet(lines) :
        lastEventID < id /\ id < c[k] => \E j \in 1 .. (k - 1) : c[j] = id
  BY <1>1 DEF ChannelIsWhole
<1>7. ToSet(c) \subseteq ToSet(lines)
  BY DEF SentToLast
<1> HIDE DEF c, h
<1>8. \A id \in ToSet(lines) : ~(lastEventID < id /\ id < h)
  <2>1. 1 \in 1 .. Len(c)
    BY <1>3
  <2> QED
    BY <1>3, <1>6, <2>1
<1>9. SentToLast'
  <2>1. ASSUME NEW id \in ToSet(lines), id =< lastEventID' PROVE id \in got'
    <3>1. id \in Nat /\ (id =< lastEventID \/ (id = h /\ h > lastEventID))
      BY <1>2, <1>3, <1>4, <1>8, <2>1
    <3> QED
      BY <1>4, <3>1 DEF SentToLast
  <2>2. lastEventID' # 0 => lastEventID' \in ToSet(lines)
    BY <1>3, <1>4, <1>7 DEF SentToLast
  <2> QED
    BY <1>1, <1>3, <1>7, <2>1, <2>2 DEF SentToLast
<1>10. ASSUME NEW k \in 1 .. Len(Tail(c)), NEW id \in ToSet(lines),
              lastEventID' < id, id < Tail(c)[k]
       PROVE  \E j \in 1 .. (k - 1) : Tail(c)[j] = id
  <2>1. k + 1 \in 1 .. Len(c) /\ id \in Nat
    BY <1>3
  <2>2. lastEventID < id /\ id < c[k + 1] /\ id # h
    BY <1>2, <1>3, <1>5, <1>10, <2>1
  <2>3. PICK j \in 1 .. k : c[j] = id
    BY <1>6, <2>1, <2>2
  <2>4. j # 1
    BY <1>3, <2>2, <2>3
  <2>5. j - 1 \in 1 .. (k - 1) /\ j - 1 \in 1 .. Len(Tail(c)) /\ (j - 1) + 1 = j
    BY <2>3, <2>4
  <2>6. Tail(c)[j - 1] = id
    BY <1>3, <2>3, <2>5
  <2> QED
    BY <2>5, <2>6
<1>11. ASSUME Newest(stream.on), NEW id \in ToSet(lines), lastEventID' < id
       PROVE  id \in ToSet(Tail(c))
  <2>1. id \in Nat /\ lastEventID < id /\ id # h
    BY <1>2, <1>3, <1>5, <1>11
  <2>2. id \in ToSet(c)
    BY <1>1, <1>11, <2>1 DEF ChannelIsWhole, c
  <2> QED
    BY <1>3, <2>1, <2>2
<1>12. ChannelIsWhole'
  BY <1>1, <1>10, <1>11 DEF ChannelIsWhole, Newest
<1> QED
  BY <1>9, <1>12

\* Nothing is left out of what a client is sent, as long as one instance writes
\* and no frame and no line is lost.
LEMMA SentStep ==
    ASSUME LogTypeOK, OneIsNewest,
           ~beside /\ ~missed => LinesAscend /\ SentToLast /\ ChannelIsWhole,
           ~beside', ~missed', [LogNext]_logVars
    PROVE  SentToLast' /\ ChannelIsWhole'
<1>1. ASSUME NEW i \in Instances, AppendEvent(i) \/ WriteLost(i)
      PROVE  SentToLast' /\ ChannelIsWhole'
  <2>1. ~beside /\ ~missed
    BY <1>1, LinesMove, StampMoves
  <2> QED
    BY <1>1, <2>1, SentStamp
<1>2. ASSUME NEW i \in Instances, Start(i) \/ (RestartLog /\ i = First)
      PROVE  SentToLast' /\ ChannelIsWhole'
  <2>1. /\ UNCHANGED <<lines, got, lastEventID, beside>> /\ ~missed
        /\ \A m \in Instances : Newest(m)' <=> m = i
        /\ stream' = NoStream \/ (stream' = stream /\ stream.on # i)
    BY <1>2, StartMoves
  <2>2. SentToLast /\ ChannelIsWhole
    BY <2>1
  <2>3. CASE stream' = NoStream
    <3>1. ToSet(<<>>) = {}
      BY DEF ToSet
    <3> QED
      BY <2>1, <2>2, <2>3, <3>1 DEF SentToLast, ChannelIsWhole, NoStream
  <2>4. CASE stream' = stream /\ stream.on # i
    <3>1. ~Newest(stream.on)'
      BY <1>2, <2>1, <2>4, StartMoves DEF Newest
    <3> QED
      BY <2>1, <2>2, <2>4, <3>1 DEF SentToLast, ChannelIsWhole, Newest
  <2> QED
    BY <2>1, <2>3, <2>4
<1>3. ASSUME NEW i \in Instances, WindDown(i) PROVE SentToLast' /\ ChannelIsWhole'
  <2>1. /\ UNCHANGED <<nextID, lines, stream, got, lastEventID, beside, missed>>
        /\ running' \subseteq Instances /\ \A m \in Instances : Newest(m)' <=> Newest(m)
    BY <1>3, WindDownMoves
  <2>2. Newest(stream.on)' => Newest(stream.on)
    BY <2>1 DEF Newest
  <2> QED
    BY <2>1, <2>2 DEF SentToLast, ChannelIsWhole
<1>4. ASSUME Connect \/ Subscribe \/ Replay \/ Forward \/ Break PROVE SentToLast' /\ ChannelIsWhole'
  <2>1. UNCHANGED <<running, lines, beside, missed>> /\ LinesAscend /\ SentToLast /\ ChannelIsWhole
    BY <1>4, StreamMoves
  <2>2. CASE Replay
    BY <2>1, <2>2, SentReplay
  <2>3. CASE Forward
    BY <2>1, <2>3, SentForward
  <2>4. CASE ~Replay /\ ~Forward
    <3>1. /\ UNCHANGED <<got, lastEventID>>
          /\ stream'.pc # "live" /\ stream'.ch \in {<<>>, stream.ch}
      BY <1>4, <2>4, StreamMoves
    <3>2. ToSet(<<>>) = {}
      BY DEF ToSet
    <3> QED
      BY <2>1, <3>1, <3>2 DEF SentToLast, ChannelIsWhole
  <2> QED
    BY <2>2, <2>3, <2>4
<1>5. CASE UNCHANGED logVars
  BY <1>5 DEF logVars, SentToLast, ChannelIsWhole, Newest
<1> QED
  BY <1>1, <1>2, <1>3, <1>4, <1>5, FirstStarts DEF LogNext

\* Every step.
LEMMA LogInvStep == LogInv /\ [LogNext]_logVars => LogInv'
  BY LogTypeStep, LinesAscendStep, SentStep DEF LogInv

\* The file ascends and leaves no gap in what a client was sent.
LEMMA LogInvStands == LogInv => LogStands
<1> SUFFICES ASSUME LogInv PROVE LogStands
  OBVIOUS
<1>1. LogAscends
  <2> SUFFICES ASSUME ~beside, NEW k \in 1 .. Len(lines) - 1 PROVE lines[k] < lines[k + 1]
    BY DEF LogAscends
  <2>1. Len(lines) \in Nat /\ LinesAscend
    BY DEF LogInv, LogTypeOK
  <2>2. k \in 1 .. Len(lines) /\ k + 1 \in 1 .. Len(lines) /\ k < k + 1
    BY <2>1
  <2> QED
    BY <2>1, <2>2 DEF LinesAscend
<1>2. NoGap
  BY DEF LogInv, SentToLast, NoGap
<1> QED
  BY <1>1, <1>2 DEF LogStands

-----------------------------------------------------------------------------
(* The meter.                                                              *)

Days == Carry .. MaxDay
Tables == [RowKeys -> Nat]

\* A row's counts by day.
By(r, o, k) == [d \in Days |-> r[<<o, k, d>>]]

\* A booking in hand.
Saver == [pc : {"idle", "add", "save", "open", "write", "rename"}, kind : Counted,
          now : 1 .. MaxDay, buf : Tables, file : Inodes \union {NoFile}]

\* Every agent and its booking in hand.
Savers == [Spenders -> Saver]

\* Types.
MeterTypeOK ==
    /\ day \in 1 .. MaxDay
    /\ rows \in Tables
    /\ saver \in Savers
    /\ content \in [Inodes -> Tables \union {Unreadable}]
    /\ tmp \in Inodes \union {NoFile} /\ path \in Inodes \union {NoFile}
    /\ logged \in [Spenders -> [Counted -> Nat]]
    /\ carried \in [Counted -> Nat]
    /\ restarts \in Nat /\ spoilt \in BOOLEAN

\* No table, on its way to the file or in it, counts more than the logs say.
TablesCounted ==
    \A a \in Spenders, k \in Counted :
      /\ \A i \in Inodes : content[i] # Unreadable => Lifetime(content[i], a, k) =< logged[a][k]
      /\ \A b \in Spenders : Lifetime(saver[b].buf, a, k) =< logged[a][k]

\* A booking that is counted and not yet encoded.
Unsaved == \E a \in Spenders : saver[a].pc = "save"

\* The last writer is alone and has not failed: the temporary file is its own, and what it wrote
\* there, or what was renamed, is the rows, or those that are about to be saved
\* again.
LastIsAlone ==
    ~spoilt =>
      /\ \A a, b \in Saving : a = b
      /\ \A a \in Saving :
           /\ saver[a].pc \in {"write", "rename"} => tmp = saver[a].file /\ tmp # NoFile
           /\ saver[a].pc = "write" => content[tmp] = Unreadable
           /\ saver[a].pc = "rename" => content[tmp] = saver[a].buf
           /\ rows = saver[a].buf \/ Unsaved
      /\ Saving = {} => (path # NoFile /\ content[path] = rows) \/ Unsaved

MeterInv == MeterTypeOK /\ SpendIsCounted /\ TablesCounted /\ LastIsAlone

\* A table with one booking more.
Booked(r, o, k, n) == [r EXCEPT ![<<o, k, n>>] = @ + 1]

\* The days of the rows, the lifetime's with them.
LEMMA DaysAre ==
    /\ Carry = 0 /\ MaxDay \in Nat \ {0} /\ Carry \in Days /\ 1 .. MaxDay \subseteq Days
    /\ IsFiniteSet(Days)
    /\ \A d \in Days : d = Carry \/ d \in 1 .. MaxDay
<1>1. Carry = 0 /\ MaxDay \in Nat \ {0}
  BY MeterAssumption DEF Carry
<1>2. IsFiniteSet(Days)
  BY <1>1, FS_Interval DEF Days
<1> QED
  BY <1>1, <1>2 DEF Days

\* A sum over days of one row is a total, as of fold and as of Lifetime.
LEMMA RowsSum ==
    ASSUME NEW r \in Tables, NEW o \in Owners, NEW k \in Counted, NEW S \in SUBSET Days
    PROVE  /\ \A d \in Days : By(r, o, k)[d] = r[<<o, k, d>>] /\ r[<<o, k, d>>] \in Nat
           /\ IsFiniteSet(S)
           /\ MapThenSumSet(LAMBDA d : r[<<o, k, d>>], S) = Total(By(r, o, k), S)
<1> DEFINE f == By(r, o, k)
           Rec(g) == [T \in SUBSET S |-> IF T = {} THEN 0
                                         ELSE r[<<o, k, CHOOSE x \in T : TRUE>>]
                                                + g[T \ {CHOOSE x \in T : TRUE}]]
           h == CHOOSE g : g = Rec(g)
<1>1. \A d \in Days : f[d] = r[<<o, k, d>>] /\ r[<<o, k, d>>] \in Nat
  BY DEF By, Tables, RowKeys, Days
<1>2. IsFiniteSet(S)
  BY DaysAre, FS_Subset
<1>3. MapThenSumSet(LAMBDA d : r[<<o, k, d>>], S) = h[S]
  BY DEF MapThenSumSet, MapThenFoldSet
<1> HIDE DEF f
<1>4. ASSUME NEW g PROVE Rec(g) = [T \in SUBSET S |-> IF T = {} THEN 0
                                                        ELSE f[One(T)] + g[T \ {One(T)}]]
  <2>1. \A T \in SUBSET S : T # {} => One(T) \in Days
    BY DEF One
  <2>2. \A T \in SUBSET S : T # {} => f[One(T)] = r[<<o, k, CHOOSE x \in T : TRUE>>]
    BY <1>1, <2>1 DEF One
  <2> QED
    BY <2>2 DEF One
<1>5. PICK g \in [SUBSET S -> Nat] : Sums(g, f, S)
  BY <1>1, <1>2, SumsExist
<1>6. g = Rec(g)
  BY <1>4, <1>5 DEF Sums
<1>7. h = Rec(h)
  <2> HIDE DEF Rec
  <2> QED
    BY <1>6
<1> HIDE DEF h
<1>8. Sums(h, f, S)
  BY <1>4, <1>7 DEF Sums
<1>9. Total(f, S) = h[S]
  <2>1. \A x \in S : f[x] \in Nat /\ f[x] = f[x]
    BY <1>1
  <2>2. S \subseteq S
    OBVIOUS
  <2> QED
    BY <1>2, <1>8, <2>1, <2>2, TotalIs
<1> QED
  BY <1>1, <1>2, <1>3, <1>9 DEF f

\* A lifetime is a total.
LEMMA LifetimeIs ==
    ASSUME NEW r \in Tables, NEW o \in Owners, NEW k \in Counted
    PROVE  Lifetime(r, o, k) = Total(By(r, o, k), Days) /\ Lifetime(r, o, k) \in Nat
<1>1. Days \in SUBSET Days
  OBVIOUS
<1>2. Lifetime(r, o, k) = Total(By(r, o, k), Days)
  BY <1>1, RowsSum DEF Lifetime, Days
<1>3. Total(By(r, o, k), Days) \in Nat
  <2>1. IsFiniteSet(Days) /\ \A d \in Days : By(r, o, k)[d] \in Nat
    BY <1>1, RowsSum
  <2> QED
    BY <2>1, TotalSplit
<1> QED
  BY <1>2, <1>3

\* Of two tables that agree on a row.
LEMMA LifetimeSame ==
    ASSUME NEW r \in Tables, NEW q \in Tables, NEW o \in Owners, NEW k \in Counted,
           \A d \in Days : r[<<o, k, d>>] = q[<<o, k, d>>]
    PROVE  Lifetime(r, o, k) = Lifetime(q, o, k)
  BY LifetimeIs DEF By

\* A booking counts once (Record).
LEMMA LifetimeAdd ==
    ASSUME NEW r \in Tables, NEW o \in Owners, NEW k \in Counted, NEW n \in 1 .. MaxDay
    PROVE  /\ Booked(r, o, k, n) \in Tables
           /\ Lifetime(Booked(r, o, k, n), o, k) = Lifetime(r, o, k) + 1
           /\ \A p \in Owners, j \in Counted :
                <<p, j>> # <<o, k>> => Lifetime(Booked(r, o, k, n), p, j) = Lifetime(r, p, j)
<1> DEFINE q == Booked(r, o, k, n)
<1>0. q = [r EXCEPT ![<<o, k, n>>] = @ + 1]
  BY DEF Booked
<1> HIDE DEF q
<1>1. <<o, k, n>> \in RowKeys /\ n \in Days
  BY DaysAre DEF RowKeys, Days
<1>2. q \in Tables
  BY <1>0, <1>1 DEF Tables
<1>3. q[<<o, k, n>>] = r[<<o, k, n>>] + 1 /\ \A x \in RowKeys \ {<<o, k, n>>} : q[x] = r[x]
  BY <1>0, <1>1 DEF Tables
<1>4. ASSUME NEW p \in Owners, NEW j \in Counted, <<p, j>> # <<o, k>>
      PROVE  Lifetime(q, p, j) = Lifetime(r, p, j)
  <2>1. \A d \in Days : <<p, j, d>> \in RowKeys \ {<<o, k, n>>}
    BY <1>4 DEF RowKeys, Days
  <2>2. \A d \in Days : r[<<p, j, d>>] = q[<<p, j, d>>]
    BY <1>3, <2>1
  <2> QED
    BY <1>2, <2>2, LifetimeSame
<1>5. Lifetime(q, o, k) = Lifetime(r, o, k) + 1
  <2> DEFINE f == By(r, o, k)
             e == By(q, o, k)
             R == Days \ {n}
  <2>1. /\ \A d \in Days : f[d] = r[<<o, k, d>>] /\ f[d] \in Nat
        /\ \A d \in Days : e[d] = q[<<o, k, d>>] /\ e[d] \in Nat
    BY <1>2, RowsSum
  <2>2. e[n] = f[n] + 1 /\ \A d \in R : e[d] = f[d]
    <3>1. \A d \in R : <<o, k, d>> \in RowKeys \ {<<o, k, n>>}
      BY DEF RowKeys, Days
    <3> QED
      BY <1>1, <1>3, <2>1, <3>1
  <2> HIDE DEF f, e
  <2>3. IsFiniteSet(Days) /\ IsFiniteSet(R)
    BY DaysAre, FS_Subset
  <2>4. Total(f, Days) = f[n] + Total(f, R) /\ Total(e, Days) = e[n] + Total(e, R)
    BY <1>1, <2>1, <2>3, TotalSplit
  <2>5. Total(e, R) = Total(f, R)
    BY <2>1, <2>2, <2>3, TotalSame
  <2>6. f[n] \in Nat /\ Total(f, R) \in Nat
    BY <1>1, <2>1, <2>3, TotalSplit
  <2> QED
    BY <1>2, <2>2, <2>4, <2>5, <2>6, LifetimeIs DEF f, e
<1> QED
  BY <1>2, <1>4, <1>5 DEF q

\* A fold moves counts, and loses none (foldLocked).
LEMMA FoldKeeps ==
    ASSUME NEW r \in Tables, NEW now \in 1 .. MaxDay
    PROVE  /\ fold(r, now) \in Tables
           /\ \A o \in Owners, k \in Counted : Lifetime(fold(r, now), o, k) = Lifetime(r, o, k)
<1> DEFINE old == {d \in 1 .. MaxDay : d + KeepDays < now}
           q == fold(r, now)
           f(o, k) == By(r, o, k)
<1>1. old \in SUBSET Days /\ Carry \notin old /\ IsFiniteSet(old)
  BY DaysAre, FS_Subset
<1>2. ASSUME NEW x \in RowKeys
      PROVE x[1] \in Owners /\ x[2] \in Counted /\ x[3] \in Days /\ r[x] \in Nat
  BY DEF RowKeys, Tables, Days
<1>3. q = [x \in RowKeys |->
             IF x[3] \in old THEN 0
             ELSE IF x[3] = Carry
                  THEN r[x] + MapThenSumSet(LAMBDA d : r[<<x[1], x[2], d>>], old)
                  ELSE r[x]]
  BY DEF fold
<1> HIDE DEF old, q
<1>4. \A x \in RowKeys : /\ MapThenSumSet(LAMBDA d : r[<<x[1], x[2], d>>], old)
                              = Total(f(x[1], x[2]), old)
                         /\ Total(f(x[1], x[2]), old) \in Nat
  <2> TAKE x \in RowKeys
  <2>1. x[1] \in Owners /\ x[2] \in Counted
    BY <1>2
  <2>2. /\ MapThenSumSet(LAMBDA d : r[<<x[1], x[2], d>>], old) = Total(f(x[1], x[2]), old)
        /\ \A d \in Days : f(x[1], x[2])[d] = r[<<x[1], x[2], d>>] /\ r[<<x[1], x[2], d>>] \in Nat
    BY <1>1, <2>1, RowsSum
  <2>3. \A d \in old : f(x[1], x[2])[d] \in Nat
    BY <1>1, <2>2
  <2>4. Total(f(x[1], x[2]), old) \in Nat
    BY <1>1, <2>3, TotalSplit
  <2> QED
    BY <2>2, <2>4
<1>5. \A x \in RowKeys : q[x] = IF x[3] \in old THEN 0
                                ELSE IF x[3] = Carry THEN r[x] + Total(f(x[1], x[2]), old)
                                ELSE r[x]
  BY <1>3, <1>4
<1>6. q \in Tables
  <2>1. ASSUME NEW x \in RowKeys PROVE q[x] \in Nat
    <3>1. r[x] \in Nat /\ Total(f(x[1], x[2]), old) \in Nat
      BY <1>2, <1>4
    <3> HIDE DEF f
    <3> QED
      BY <1>5, <3>1
  <2> QED
    BY <1>3, <2>1 DEF Tables
<1>7. ASSUME NEW o \in Owners, NEW k \in Counted PROVE Lifetime(q, o, k) = Lifetime(r, o, k)
  <2> DEFINE a == By(r, o, k)
             b == By(q, o, k)
             L == Days \ ({Carry} \union old)
  <2>1. /\ \A d \in Days : a[d] = r[<<o, k, d>>] /\ a[d] \in Nat
        /\ \A d \in Days : b[d] = q[<<o, k, d>>] /\ b[d] \in Nat
    BY <1>6, RowsSum
  <2>2. \A d \in Days : <<o, k, d>> \in RowKeys
    BY DEF RowKeys, Days
  <2>3. /\ \A d \in old : b[d] = 0
        /\ b[Carry] = a[Carry] + Total(a, old)
        /\ \A d \in L : b[d] = a[d]
    <3>1. \A d \in Days : q[<<o, k, d>>] = IF d \in old THEN 0
                                           ELSE IF d = Carry THEN r[<<o, k, d>>] + Total(a, old)
                                           ELSE r[<<o, k, d>>]
      BY <1>5, <2>2
    <3>2. \A d \in Days : b[d] = IF d \in old THEN 0
                                 ELSE IF d = Carry THEN a[d] + Total(a, old) ELSE a[d]
      <4> HIDE DEF a, b
      <4> QED
        BY <2>1, <3>1
    <3> HIDE DEF a, b
    <3> QED
      BY <1>1, <3>2, DaysAre
  <2>4. Lifetime(q, o, k) = Total(b, Days) /\ Lifetime(r, o, k) = Total(a, Days)
    BY <1>6, LifetimeIs
  <2> HIDE DEF a, b
  <2>5. /\ IsFiniteSet(L) /\ IsFiniteSet(old \union L) /\ IsFiniteSet(Days)
        /\ old \cap L = {} /\ Days \ {Carry} = old \union L /\ old \union L \subseteq Days
        /\ Carry \in Days
    BY <1>1, DaysAre, FS_Subset
  <2>6. /\ Total(a, Days) = a[Carry] + Total(a, old \union L)
        /\ Total(b, Days) = b[Carry] + Total(b, old \union L)
    <3>1. Total(a, Days) = a[Carry] + Total(a, Days \ {Carry})
      BY <2>1, <2>5, TotalSplit
    <3>2. Total(b, Days) = b[Carry] + Total(b, Days \ {Carry})
      BY <2>1, <2>5, TotalSplit
    <3> QED
      BY <2>5, <3>1, <3>2
  <2>7. /\ Total(a, old \union L) = Total(a, old) + Total(a, L)
        /\ Total(b, old \union L) = Total(b, old) + Total(b, L)
    BY <1>1, <2>1, <2>5, TotalUnion
  <2>8. Total(b, old) = 0 /\ Total(b, L) = Total(a, L)
    <3>1. Total(b, old) = 0
      BY <1>1, <2>3, TotalZero
    <3>2. \A d \in L : b[d] \in Nat /\ b[d] = a[d]
      BY <2>1, <2>3
    <3>3. Total(b, L) = Total(a, L)
      BY <2>5, <3>2, TotalSame
    <3> QED
      BY <3>1, <3>3
  <2>9. Total(a, old) \in Nat /\ Total(a, L) \in Nat /\ a[Carry] \in Nat
    BY <1>1, <2>1, <2>5, TotalSplit
  <2> HIDE DEF L
  <2> QED
    BY <2>3, <2>4, <2>6, <2>7, <2>8, <2>9
<1> QED
  BY <1>6, <1>7 DEF q

\* A first file, and a version-1 file taken over (OpenMeter, migrateV1).
LEMMA MigrateIs ==
    ASSUME NEW t \in [Counted -> Nat]
    PROVE  /\ migrateV1(t) \in Tables /\ NoRows \in Tables
           /\ \A k \in Counted : Lifetime(migrateV1(t), Nobody, k) = t[k]
           /\ \A a \in Spenders, k \in Counted : Lifetime(migrateV1(t), a, k) = 0
           /\ \A o \in Owners, k \in Counted : Lifetime(NoRows, o, k) = 0
<1>1. migrateV1(t) \in Tables /\ NoRows \in Tables
  BY DEF migrateV1, NoRows, Tables, RowKeys
<1>2. \A o \in Owners, k \in Counted, d \in Days : <<o, k, d>> \in RowKeys
  BY DEF RowKeys, Days
<1>3. ASSUME NEW r \in Tables, NEW o \in Owners, NEW k \in Counted,
             \A d \in Days : r[<<o, k, d>>] = 0
      PROVE  Lifetime(r, o, k) = 0
  <2>1. \A d \in Days : By(r, o, k)[d] = 0
    BY <1>3 DEF By
  <2> QED
    BY <2>1, DaysAre, TotalZero, LifetimeIs
<1>4. \A a \in Spenders, k \in Counted : Lifetime(migrateV1(t), a, k) = 0
  <2> TAKE a \in Spenders, k \in Counted
  <2>1. a \in Owners /\ a # Nobody
    BY MeterAssumption DEF Owners
  <2>2. \A d \in Days : migrateV1(t)[<<a, k, d>>] = 0
    BY <1>2, <2>1 DEF migrateV1
  <2> QED
    BY <1>1, <1>3, <2>1, <2>2
<1>5. \A o \in Owners, k \in Counted : Lifetime(NoRows, o, k) = 0
  BY <1>1, <1>2, <1>3 DEF NoRows
<1>6. ASSUME NEW k \in Counted PROVE Lifetime(migrateV1(t), Nobody, k) = t[k]
  <2> DEFINE f == By(migrateV1(t), Nobody, k)
             R == Days \ {Carry}
  <2>1. Nobody \in Owners
    BY DEF Owners
  <2>2. f[Carry] = t[k] /\ (\A d \in R : f[d] = 0) /\ t[k] \in Nat
    BY <1>2, <2>1, DaysAre DEF migrateV1, By
  <2>3. \A d \in Days : f[d] \in Nat
    BY <2>2
  <2>4. Lifetime(migrateV1(t), Nobody, k) = Total(f, Days)
    BY <1>1, <2>1, LifetimeIs
  <2> HIDE DEF f
  <2>5. IsFiniteSet(R) /\ IsFiniteSet(Days) /\ Carry \in Days
    BY DaysAre, FS_Subset
  <2>6. Total(f, Days) = f[Carry] + Total(f, R)
    BY <2>3, <2>5, TotalSplit
  <2>7. Total(f, R) = 0
    BY <2>2, <2>5, TotalZero
  <2> QED
    BY <2>2, <2>4, <2>6, <2>7
<1> QED
  BY <1>1, <1>4, <1>5, <1>6

\* Owners, and what a fold of a table leaves of a lifetime.
LEMMA OwnersAre ==
    /\ Nobody \in Owners /\ Spenders \subseteq Owners /\ Turns \in Counted
    /\ 1 \in 1 .. MaxDay /\ NoFile \notin Inodes
    /\ Resting = [pc |-> "idle", kind |-> Turns, now |-> 1, buf |-> NoRows, file |-> NoFile]
    /\ NoRows \in Tables
  BY MeterAssumption DEF Owners, Resting, NoRows, Tables

\* A booking in hand is one of its agent, counted on a day of the calendar.
LEMMA SaverIs ==
    ASSUME MeterTypeOK, NEW a \in Spenders
    PROVE  /\ saver[a].pc \in {"idle", "add", "save", "open", "write", "rename"}
           /\ saver[a].kind \in Counted /\ saver[a].now \in 1 .. MaxDay
           /\ saver[a].buf \in Tables /\ saver[a].file \in Inodes \union {NoFile}
  BY DEF MeterTypeOK, Savers, Saver

\* A machine that starts has counted what version 1 had, and saved it.
LEMMA MeterInvInit == MeterInit => MeterInv
<1> SUFFICES ASSUME MeterInit PROVE MeterInv
  OBVIOUS
<1>1. carried \in [Counted -> Nat]
  BY DEF MeterInit
<1>2. rows = migrateV1(carried) /\ rows \in Tables
  BY <1>1, MigrateIs DEF MeterInit
<1>3. /\ \A a \in Spenders : saver[a] = Resting /\ saver[a].pc = "idle" /\ saver[a].buf = NoRows
      /\ \A a \in Spenders, k \in Counted : logged[a][k] = 0
      /\ spoilt = TRUE
  BY OwnersAre DEF MeterInit
<1>4. \A i \in Inodes : content[i] = Unreadable \/ content[i] = rows
  BY <1>2 DEF MeterInit
<1>5. MeterTypeOK
  <2>1. content \in [Inodes -> Tables \union {Unreadable}]
    <3>1. content = [i \in Inodes |-> content[i]]
      BY DEF MeterInit
    <3> QED
      BY <1>2, <1>4, <3>1
  <2>2. /\ day \in 1 .. MaxDay /\ restarts \in Nat /\ spoilt \in BOOLEAN
        /\ tmp \in Inodes \union {NoFile} /\ path \in Inodes \union {NoFile}
        /\ logged \in [Spenders -> [Counted -> Nat]]
    BY OwnersAre DEF MeterInit
  <2>3. saver \in Savers
    BY OwnersAre DEF MeterInit, Savers, Saver
  <2> QED
    BY <1>1, <1>2, <2>1, <2>2, <2>3 DEF MeterTypeOK
<1>6. SpendIsCounted
  <2>1. \A a \in Spenders, k \in Counted : Lifetime(rows, a, k) = 0 /\ Ahead(a, k) = 0
    BY <1>1, <1>2, <1>3, MigrateIs DEF Ahead
  <2>2. \A k \in Counted : Lifetime(rows, Nobody, k) = carried[k]
    BY <1>1, <1>2, MigrateIs
  <2> QED
    BY <1>3, <2>1, <2>2 DEF SpendIsCounted
<1>7. TablesCounted
  <2>1. \A a \in Spenders, k \in Counted : Lifetime(rows, a, k) = 0 /\ Lifetime(NoRows, a, k) = 0
    BY <1>1, <1>2, MigrateIs, OwnersAre
  <2> QED
    BY <1>3, <1>4, <2>1 DEF TablesCounted
<1>8. LastIsAlone
  BY <1>3 DEF LastIsAlone
<1> QED
  BY <1>5, <1>6, <1>7, <1>8 DEF MeterInv

\* A day more or less changes nothing that is counted (Midnight).
LEMMA MidnightKeeps ==
    ASSUME MeterInv, Midnight \/ UNCHANGED meterVars
    PROVE  MeterInv'
<1>1. day' \in 1 .. MaxDay
          /\ UNCHANGED <<rows, folded, saver, files, logged, carried, restarts, spoilt>>
  BY DEF MeterInv, MeterTypeOK, Midnight, meterVars
<1>2. MeterTypeOK'
  BY <1>1 DEF MeterInv, MeterTypeOK, files
<1>3. SpendIsCounted' /\ TablesCounted'
  BY <1>1 DEF MeterInv, SpendIsCounted, Ahead, TablesCounted, files
<1>4. LastIsAlone'
  BY <1>1 DEF MeterInv, LastIsAlone, Saving, Unsaved, files
<1> QED
  BY <1>2, <1>3, <1>4 DEF MeterInv

\* The log has it first (bookUsage, finish).
LEMMA LogSpendKeeps ==
    ASSUME MeterInv, NEW a \in Spenders, NEW k \in Counted, LogSpend(a, k)
    PROVE  MeterInv'
<1>1. /\ saver[a].pc = "idle"
      /\ logged' = [logged EXCEPT ![a][k] = @ + 1]
      /\ saver' = [saver EXCEPT ![a].pc = "add", ![a].kind = k, ![a].now = day]
      /\ UNCHANGED <<day, rows, folded, content, tmp, path, carried, restarts, spoilt>>
  BY DEF LogSpend, files
<1>2. MeterTypeOK /\ saver \in Savers /\ day \in 1 .. MaxDay
  BY DEF MeterInv, MeterTypeOK
<1>3. /\ saver'[a].pc = "add" /\ saver'[a].kind = k /\ saver'[a].buf = saver[a].buf
      /\ \A b \in Spenders \ {a} : saver'[b] = saver[b]
  BY <1>1, <1>2 DEF Savers, Saver
<1>4. \A b \in Spenders, j \in Counted :
        /\ logged[b][j] \in Nat
        /\ logged'[b][j] = IF b = a /\ j = k THEN logged[b][j] + 1 ELSE logged[b][j]
  BY <1>1, <1>2 DEF MeterTypeOK
<1>5. MeterTypeOK'
  <2>1. logged' \in [Spenders -> [Counted -> Nat]]
    BY <1>1, <1>2 DEF MeterTypeOK
  <2>2. saver' \in Savers
    <3>1. [saver[a] EXCEPT !.pc = "add", !.kind = k, !.now = day] \in Saver
      BY <1>2 DEF Savers, Saver
    <3>2. saver' = [saver EXCEPT ![a] = [saver[a] EXCEPT !.pc = "add", !.kind = k, !.now = day]]
      BY <1>1
    <3> QED
      BY <1>2, <3>1, <3>2 DEF Savers, Saver
  <2> QED
    BY <1>1, <1>2, <2>1, <2>2 DEF MeterTypeOK
<1>6. SpendIsCounted'
  <2>1. \A b \in Spenders, j \in Counted :
          Ahead(b, j)' = (IF b = a /\ j = k THEN Ahead(b, j) + 1 ELSE Ahead(b, j))
    <3>1. ASSUME NEW b \in Spenders, NEW j \in Counted, b # a PROVE Ahead(b, j)' = Ahead(b, j)
      BY <1>3, <3>1 DEF Ahead
    <3>2. \A j \in Counted : Ahead(a, j) = 0 /\ Ahead(a, j)' = (IF j = k THEN 1 ELSE 0)
      BY <1>1, <1>3 DEF Ahead
    <3>3. \A j \in Counted : Ahead(a, j)' = (IF j = k THEN Ahead(a, j) + 1 ELSE Ahead(a, j))
      BY <3>2
    <3> QED
      BY <3>1, <3>3
  <2>2. \A b \in Spenders, j \in Counted : Ahead(b, j) \in Nat /\ Lifetime(rows, b, j) \in Nat
    BY <1>2, LifetimeIs, OwnersAre DEF Ahead, MeterTypeOK
  <2>3. \A b \in Spenders, j \in Counted :
          /\ Lifetime(rows, b, j) + Ahead(b, j) =< logged[b][j]
          /\ restarts = 0 => Lifetime(rows, b, j) + Ahead(b, j) = logged[b][j]
    BY DEF MeterInv, SpendIsCounted
  <2>4. \A b \in Spenders, j \in Counted :
          /\ Lifetime(rows, b, j) + Ahead(b, j)' =< logged'[b][j]
          /\ restarts = 0 => Lifetime(rows, b, j) + Ahead(b, j)' = logged'[b][j]
    <3> TAKE b \in Spenders, j \in Counted
    <3> DEFINE L == Lifetime(rows, b, j)
               A == Ahead(b, j)
               B == Ahead(b, j)'
    <3>1. /\ L \in Nat /\ A \in Nat /\ logged[b][j] \in Nat
          /\ L + A =< logged[b][j]
          /\ restarts = 0 => L + A = logged[b][j]
          /\ B = (IF b = a /\ j = k THEN A + 1 ELSE A)
          /\ logged'[b][j] = IF b = a /\ j = k THEN logged[b][j] + 1 ELSE logged[b][j]
      BY <1>4, <2>1, <2>2, <2>3
    <3> HIDE DEF L, A, B
    <3>2. L + B =< logged'[b][j] /\ (restarts = 0 => L + B = logged'[b][j])
      BY <3>1
    <3> QED
      BY <3>2 DEF L, B
  <2> QED
    BY <1>1, <2>4 DEF MeterInv, SpendIsCounted
<1>7. TablesCounted'
  <2>1. \A b \in Spenders, j \in Counted : logged[b][j] =< logged'[b][j]
    BY <1>4
  <2>2. \A b \in Spenders : saver'[b].buf = saver[b].buf
    BY <1>3
  <2> SUFFICES ASSUME NEW b \in Spenders, NEW j \in Counted
               PROVE  /\ \A i \in Inodes : content[i] # Unreadable =>
                           Lifetime(content[i], b, j) =< logged'[b][j]
                      /\ \A c \in Spenders : Lifetime(saver[c].buf, b, j) =< logged'[b][j]
    BY <1>1, <2>2 DEF TablesCounted
  <2>3. ASSUME NEW r \in Tables, Lifetime(r, b, j) =< logged[b][j]
        PROVE Lifetime(r, b, j) =< logged'[b][j]
    <3>1. Lifetime(r, b, j) \in Nat /\ logged[b][j] \in Nat /\ logged'[b][j] \in Nat
      BY <1>4, LifetimeIs, OwnersAre
    <3> QED
      BY <2>1, <2>3, <3>1
  <2>4. /\ \A i \in Inodes : content[i] # Unreadable => content[i] \in Tables
        /\ \A c \in Spenders : saver[c].buf \in Tables
    BY <1>2, SaverIs DEF MeterTypeOK
  <2> QED
    BY <2>3, <2>4 DEF MeterInv, TablesCounted
<1>8. LastIsAlone'
  <2>1. Saving' = Saving /\ a \notin Saving
    BY <1>1, <1>3 DEF Saving
  <2>2. \A b \in Saving : saver'[b] = saver[b]
    BY <1>3, <2>1 DEF Saving
  <2>3. Unsaved => Unsaved'
    BY <1>1, <1>3 DEF Unsaved
  <2> QED
    BY <1>1, <2>1, <2>2, <2>3 DEF MeterInv, LastIsAlone
<1> QED
  BY <1>5, <1>6, <1>7, <1>8 DEF MeterInv

\* What was logged is counted, once, and has yet to be saved (Record,
\* FinishTurn).
LEMMA RecordKeeps ==
    ASSUME MeterInv, NEW a \in Spenders, Record(a)
    PROVE  MeterInv'
<1> DEFINE k == saver[a].kind
           n == saver[a].now
<1>1. /\ saver[a].pc = "add"
      /\ rows' = [rows EXCEPT ![<<a, k, n>>] = @ + 1]
      /\ saver' = [saver EXCEPT ![a].pc = "save"]
      /\ UNCHANGED <<day, folded, content, tmp, path, logged, carried, restarts, spoilt>>
  BY DEF Record, files
<1>2. MeterTypeOK /\ rows \in Tables /\ saver \in Savers
  BY DEF MeterInv, MeterTypeOK
<1>3. k \in Counted /\ n \in 1 .. MaxDay /\ a \in Owners /\ a # Nobody
  BY <1>2, SaverIs, OwnersAre, MeterAssumption
<1> HIDE DEF k, n
<1>4. /\ saver'[a].pc = "save" /\ saver'[a].buf = saver[a].buf
      /\ \A b \in Spenders \ {a} : saver'[b] = saver[b]
  BY <1>1, <1>2 DEF Savers, Saver
<1>5. /\ rows' \in Tables /\ Lifetime(rows', a, k) = Lifetime(rows, a, k) + 1
      /\ \A p \in Owners, j \in Counted : (p # a \/ j # k) =>
             Lifetime(rows', p, j) = Lifetime(rows, p, j)
  <2>1. rows' = Booked(rows, a, k, n)
    BY <1>1 DEF Booked
  <2> QED
    BY <1>2, <1>3, <2>1, LifetimeAdd
<1>6. MeterTypeOK'
  <2>1. saver' \in Savers
    BY <1>1, <1>2 DEF Savers, Saver
  <2> QED
    BY <1>1, <1>2, <1>5, <2>1 DEF MeterTypeOK
<1>7. SpendIsCounted'
  <2>1. Ahead(a, k) = 1 /\ \A b \in Spenders, j \in Counted :
          Ahead(b, j)' = (IF b = a /\ j = k THEN 0 ELSE Ahead(b, j))
    BY <1>1, <1>4 DEF Ahead, k
  <2>2. \A b \in Spenders, j \in Counted :
          Lifetime(rows', b, j) + Ahead(b, j)' = Lifetime(rows, b, j) + Ahead(b, j)
    <3>1. Lifetime(rows, a, k) \in Nat
      BY <1>2, <1>3, LifetimeIs
    <3>2. Ahead(a, k)' = 0
      BY <1>4 DEF Ahead
    <3>3. Lifetime(rows', a, k) + 0 = Lifetime(rows, a, k) + 1
      BY <1>5, <3>1
    <3>4. ASSUME NEW b \in Spenders, NEW j \in Counted, b # a \/ j # k
          PROVE  Lifetime(rows', b, j) = Lifetime(rows, b, j) /\ Ahead(b, j)' = Ahead(b, j)
      BY <1>5, <2>1, <3>4, OwnersAre
    <3> QED
      BY <2>1, <3>2, <3>3, <3>4
  <2>3. \A j \in Counted : Lifetime(rows', Nobody, j) = Lifetime(rows, Nobody, j)
    BY <1>3, <1>5, OwnersAre
  <2>4. /\ \A b \in Spenders, j \in Counted :
             /\ Lifetime(rows, b, j) + Ahead(b, j) =< logged[b][j]
             /\ restarts = 0 => Lifetime(rows, b, j) + Ahead(b, j) = logged[b][j]
        /\ restarts = 0 => \A j \in Counted : Lifetime(rows, Nobody, j) = carried[j]
    BY DEF MeterInv, SpendIsCounted
  <2>5. /\ \A b \in Spenders, j \in Counted :
             /\ Lifetime(rows', b, j) + Ahead(b, j)' =< logged[b][j]
             /\ restarts = 0 => Lifetime(rows', b, j) + Ahead(b, j)' = logged[b][j]
        /\ restarts = 0 => \A j \in Counted : Lifetime(rows', Nobody, j) = carried[j]
    BY <2>2, <2>3, <2>4
  <2> QED
    BY <1>1, <2>5 DEF SpendIsCounted
<1>8. TablesCounted'
  <2>1. \A b \in Spenders : saver'[b].buf = saver[b].buf
    BY <1>4
  <2> QED
    BY <1>1, <2>1 DEF MeterInv, TablesCounted
<1>9. LastIsAlone'
  <2>1. Saving' = Saving /\ a \notin Saving
    BY <1>1, <1>4 DEF Saving
  <2>2. \A b \in Saving : saver'[b] = saver[b]
    BY <1>4, <2>1 DEF Saving
  <2>3. Unsaved'
    BY <1>4 DEF Unsaved
  <2> QED
    BY <1>1, <2>1, <2>2, <2>3 DEF MeterInv, LastIsAlone
<1> QED
  BY <1>6, <1>7, <1>8, <1>9 DEF MeterInv

\* A fold that ran on this day already leaves the table as it is (foldLocked).
LEMMA FoldLockedKeeps ==
    ASSUME NEW r \in Tables, NEW last, NEW now \in 1 .. MaxDay
    PROVE  /\ foldLocked(r, last, now) \in Tables
           /\ \A o \in Owners, k \in Counted :
                Lifetime(foldLocked(r, last, now), o, k) = Lifetime(r, o, k)
  BY FoldKeeps DEF foldLocked

\* The rows are folded and encoded, and lose nothing by it (save).
LEMMA EncodeKeeps ==
    ASSUME MeterInv, NEW a \in Spenders, Encode(a)
    PROVE  MeterInv'
<1>1. /\ saver[a].pc = "save"
      /\ rows' = foldLocked(rows, folded, saver[a].now)
      /\ saver' = [saver EXCEPT ![a].pc = "open", ![a].buf = rows']
      /\ spoilt' = (Saving # {})
      /\ UNCHANGED <<day, content, tmp, path, logged, carried, restarts>>
  BY DEF Encode, files
<1>2. MeterTypeOK /\ saver \in Savers /\ rows \in Tables
  BY DEF MeterInv, MeterTypeOK
<1>3. /\ rows' \in Tables
      /\ \A o \in Owners, k \in Counted : Lifetime(rows', o, k) = Lifetime(rows, o, k)
  BY <1>1, <1>2, SaverIs, FoldLockedKeeps
<1>4. /\ saver'[a].pc = "open" /\ saver'[a].buf = rows'
      /\ \A b \in Spenders \ {a} : saver'[b] = saver[b]
  BY <1>1, <1>2 DEF Savers, Saver
<1>5. MeterTypeOK'
  <2>1. saver' \in Savers
    <3>1. [saver[a] EXCEPT !.pc = "open", !.buf = rows'] \in Saver
      BY <1>2, <1>3 DEF Savers, Saver
    <3>2. saver' = [saver EXCEPT ![a] = [saver[a] EXCEPT !.pc = "open", !.buf = rows']]
      BY <1>1
    <3> QED
      BY <1>2, <3>1, <3>2 DEF Savers, Saver
  <2> QED
    BY <1>1, <1>2, <1>3, <2>1 DEF MeterTypeOK
<1>6. SpendIsCounted'
  <2>1. \A b \in Spenders, k \in Counted : Ahead(b, k)' = Ahead(b, k)
    BY <1>1, <1>4 DEF Ahead
  <2>2. /\ \A b \in Spenders, k \in Counted : Lifetime(rows', b, k) = Lifetime(rows, b, k)
        /\ \A k \in Counted : Lifetime(rows', Nobody, k) = Lifetime(rows, Nobody, k)
    BY <1>3, OwnersAre
  <2> QED
    BY <1>1, <2>1, <2>2 DEF MeterInv, SpendIsCounted
<1>7. TablesCounted'
  <2>1. ASSUME NEW b \in Spenders, NEW k \in Counted
        PROVE  \A c \in Spenders : Lifetime(saver'[c].buf, b, k) =< logged[b][k]
    <3>1. Lifetime(rows', b, k) =< logged[b][k]
      <4>1. Lifetime(rows, b, k) + Ahead(b, k) =< logged[b][k]
                /\ Lifetime(rows', b, k) = Lifetime(rows, b, k)
        BY <1>3, OwnersAre DEF MeterInv, SpendIsCounted
      <4>2. Lifetime(rows, b, k) \in Nat /\ Ahead(b, k) \in Nat /\ logged[b][k] \in Nat
        BY <1>2, LifetimeIs, OwnersAre DEF Ahead, MeterTypeOK
      <4> QED
        BY <4>1, <4>2
    <3>2. \A c \in Spenders \ {a} : Lifetime(saver'[c].buf, b, k) =< logged[b][k]
      BY <1>4 DEF MeterInv, TablesCounted
    <3> QED
      BY <1>4, <3>1, <3>2
  <2> QED
    BY <1>1, <2>1 DEF MeterInv, TablesCounted
<1>8. LastIsAlone'
  <2> SUFFICES ASSUME ~spoilt' PROVE LastIsAlone'
    BY DEF LastIsAlone
  <2>1. Saving' = {a}
    BY <1>1, <1>4 DEF Saving
  <2> QED
    BY <1>4, <2>1 DEF LastIsAlone
<1> QED
  BY <1>5, <1>6, <1>7, <1>8 DEF MeterInv

\* The temporary file is opened, and empty (writeAtomic).
LEMMA OpenKeeps ==
    ASSUME MeterInv, NEW a \in Spenders, Open(a)
    PROVE  MeterInv'
<1>1. MeterTypeOK /\ saver \in Savers
  BY DEF MeterInv, MeterTypeOK
<1>2. PICK i \in Inodes : /\ saver[a].pc = "open" /\ tmp' = i
                          /\ content' = [content EXCEPT ![i] = Unreadable]
                          /\ saver' = [saver EXCEPT ![a].pc = "write", ![a].file = i]
                          /\ UNCHANGED <<day, rows, folded, path, logged, carried, restarts, spoilt>>
  BY <1>1 DEF Open, FreeInodes, MeterTypeOK
<1>3. /\ saver'[a].pc = "write" /\ saver'[a].file = i /\ saver'[a].buf = saver[a].buf
      /\ \A b \in Spenders \ {a} : saver'[b] = saver[b]
  BY <1>1, <1>2 DEF Savers, Saver
<1>4. content'[i] = Unreadable /\ \A j \in Inodes \ {i} : content'[j] = content[j]
  BY <1>1, <1>2 DEF MeterTypeOK
<1>5. MeterTypeOK'
  <2>1. saver' \in Savers
    <3>1. [saver[a] EXCEPT !.pc = "write", !.file = i] \in Saver
      BY <1>1 DEF Savers, Saver
    <3>2. saver' = [saver EXCEPT ![a] = [saver[a] EXCEPT !.pc = "write", !.file = i]]
      BY <1>2
    <3> QED
      BY <1>1, <3>1, <3>2 DEF Savers, Saver
  <2>2. content' \in [Inodes -> Tables \union {Unreadable}]
    BY <1>1, <1>2 DEF MeterTypeOK
  <2> QED
    BY <1>1, <1>2, <2>1, <2>2 DEF MeterTypeOK
<1>6. SpendIsCounted'
  <2>1. \A b \in Spenders, k \in Counted : Ahead(b, k)' = Ahead(b, k)
    BY <1>2, <1>3 DEF Ahead
  <2> QED
    BY <1>2, <2>1 DEF MeterInv, SpendIsCounted
<1>7. TablesCounted'
  <2>1. \A b \in Spenders : saver'[b].buf = saver[b].buf
    BY <1>3
  <2> QED
    BY <1>2, <1>4, <2>1 DEF MeterInv, TablesCounted
<1>8. LastIsAlone'
  <2> SUFFICES ASSUME ~spoilt' PROVE LastIsAlone'
    BY DEF LastIsAlone
  <2>1. Saving' = Saving /\ a \in Saving
    BY <1>2, <1>3 DEF Saving
  <2>2. \A b \in Saving : b = a
    BY <1>2, <2>1 DEF MeterInv, LastIsAlone
  <2>3. Unsaved => Unsaved'
    BY <1>2, <1>3 DEF Unsaved
  <2>4. rows = saver[a].buf \/ Unsaved
    BY <1>2, <2>1 DEF MeterInv, LastIsAlone
  <2>5. i # NoFile
    BY MeterAssumption
  <2> QED
    BY <1>2, <1>3, <1>4, <2>1, <2>2, <2>3, <2>4, <2>5 DEF LastIsAlone
<1> QED
  BY <1>5, <1>6, <1>7, <1>8 DEF MeterInv

\* It is written, over what another may have written there (writeAtomic).
LEMMA WriteKeeps ==
    ASSUME MeterInv, NEW a \in Spenders, Write(a)
    PROVE  MeterInv'
<1> DEFINE i == saver[a].file
<1>1. MeterTypeOK /\ saver \in Savers /\ content \in [Inodes -> Tables \union {Unreadable}]
  BY DEF MeterInv, MeterTypeOK
<1>2. PICK left \in {saver[a].buf, Unreadable} :
        /\ saver[a].pc = "write"
        /\ content[i] = Unreadable => left = saver[a].buf
        /\ content' = [content EXCEPT ![i] = left]
        /\ saver' = [saver EXCEPT ![a].pc = "rename"]
        /\ UNCHANGED <<day, rows, folded, tmp, path, logged, carried, restarts, spoilt>>
  BY DEF Write
<1>3. /\ saver'[a].pc = "rename" /\ saver'[a].file = i /\ saver'[a].buf = saver[a].buf
      /\ \A b \in Spenders \ {a} : saver'[b] = saver[b]
  BY <1>1, <1>2 DEF Savers, Saver
<1>4. i \in Inodes \union {NoFile} /\ saver[a].buf \in Tables
  BY <1>1, SaverIs
<1> HIDE DEF i
<1>5. \A j \in Inodes : content'[j] = IF j = i THEN left ELSE content[j]
  BY <1>1, <1>2
<1>6. MeterTypeOK'
  <2>1. saver' \in Savers
    BY <1>1, <1>2 DEF Savers, Saver
  <2>2. content' \in [Inodes -> Tables \union {Unreadable}]
    BY <1>1, <1>2, <1>4
  <2> QED
    BY <1>1, <1>2, <2>1, <2>2 DEF MeterTypeOK
<1>7. SpendIsCounted'
  <2>1. \A b \in Spenders, k \in Counted : Ahead(b, k)' = Ahead(b, k)
    BY <1>2, <1>3 DEF Ahead
  <2> QED
    BY <1>2, <2>1 DEF MeterInv, SpendIsCounted
<1>8. TablesCounted'
  <2>1. \A b \in Spenders : saver'[b].buf = saver[b].buf
    BY <1>3
  <2>2. \A j \in Inodes : content'[j] # Unreadable =>
            content'[j] = content[j] \/ content'[j] = saver[a].buf
    BY <1>5
  <2> QED
    BY <1>2, <2>1, <2>2 DEF MeterInv, TablesCounted
<1>9. LastIsAlone'
  <2> SUFFICES ASSUME ~spoilt' PROVE LastIsAlone'
    BY DEF LastIsAlone
  <2>1. Saving' = Saving /\ a \in Saving
    BY <1>2, <1>3 DEF Saving
  <2>2. /\ \A b \in Saving : b = a
        /\ tmp = i /\ tmp # NoFile /\ content[tmp] = Unreadable
        /\ rows = saver[a].buf \/ Unsaved
    BY <1>2, <2>1 DEF MeterInv, LastIsAlone, i
  <2>3. Unsaved => Unsaved'
    BY <1>2, <1>3 DEF Unsaved
  <2>4. content'[tmp] = saver[a].buf
    BY <1>2, <1>4, <1>5, <2>2
  <2> QED
    BY <1>2, <1>3, <2>1, <2>2, <2>3, <2>4 DEF LastIsAlone
<1> QED
  BY <1>6, <1>7, <1>8, <1>9 DEF MeterInv

\* What is renamed is what was written, when one writer was at it (writeAtomic).
LEMMA RenameKeeps ==
    ASSUME MeterInv, NEW a \in Spenders, Rename(a)
    PROVE  MeterInv'
<1>1. MeterTypeOK /\ saver \in Savers /\ content \in [Inodes -> Tables \union {Unreadable}]
  BY DEF MeterInv, MeterTypeOK
<1>2. /\ saver[a].pc = "rename"
      /\ path' = (IF tmp = NoFile THEN path ELSE tmp)
      /\ tmp' = NoFile
      /\ saver' = [saver EXCEPT ![a] = Resting]
      /\ content' = [i \in Inodes |-> IF i \in {path'} \union Written' THEN content[i]
             ELSE Unreadable]
      /\ UNCHANGED <<day, rows, folded, logged, carried, restarts, spoilt>>
  BY DEF Rename
<1>3. /\ saver'[a].pc = "idle" /\ saver'[a].buf = NoRows
      /\ \A b \in Spenders \ {a} : saver'[b] = saver[b]
  BY <1>1, <1>2, OwnersAre DEF Savers, Saver
<1>4. \A j \in Inodes : /\ content'[j] \in {content[j], Unreadable}
                        /\ j = path' => content'[j] = content[j]
  BY <1>2
<1>5. MeterTypeOK'
  <2>1. saver' \in Savers
    BY <1>1, <1>2, OwnersAre DEF Savers, Saver
  <2>2. content' \in [Inodes -> Tables \union {Unreadable}]
    BY <1>1, <1>2
  <2>3. path' \in Inodes \union {NoFile}
    BY <1>1, <1>2 DEF MeterTypeOK
  <2> QED
    BY <1>1, <1>2, <2>1, <2>2, <2>3 DEF MeterTypeOK
<1>6. SpendIsCounted'
  <2>1. \A b \in Spenders, k \in Counted : Ahead(b, k)' = Ahead(b, k)
    BY <1>2, <1>3 DEF Ahead
  <2> QED
    BY <1>2, <2>1 DEF MeterInv, SpendIsCounted
<1>7. TablesCounted'
  <2>1. ASSUME NEW b \in Spenders, NEW k \in Counted
        PROVE  \A c \in Spenders : Lifetime(saver'[c].buf, b, k) =< logged[b][k]
    <3>1. Lifetime(NoRows, b, k) = 0 /\ logged[b][k] \in Nat
      <4>1. carried \in [Counted -> Nat] /\ logged[b][k] \in Nat
        BY <1>1 DEF MeterTypeOK
      <4> QED
        BY <4>1, MigrateIs, OwnersAre
    <3>2. \A c \in Spenders \ {a} : Lifetime(saver'[c].buf, b, k) =< logged[b][k]
      BY <1>3 DEF MeterInv, TablesCounted
    <3> QED
      BY <1>3, <3>1, <3>2
  <2> QED
    BY <1>2, <1>4, <2>1 DEF MeterInv, TablesCounted
<1>8. LastIsAlone'
  <2> SUFFICES ASSUME ~spoilt' PROVE LastIsAlone'
    BY DEF LastIsAlone
  <2>1. a \in Saving
    BY <1>2 DEF Saving
  <2>2. /\ \A b \in Saving : b = a
        /\ tmp # NoFile /\ content[tmp] = saver[a].buf
        /\ rows = saver[a].buf \/ Unsaved
    BY <1>2, <2>1 DEF MeterInv, LastIsAlone
  <2>3. Saving' = {}
    BY <1>3, <2>2 DEF Saving
  <2>4. Unsaved => Unsaved'
    BY <1>2, <1>3 DEF Unsaved
  <2>5. path' # NoFile /\ path' \in Inodes /\ content'[path'] = saver[a].buf
    BY <1>1, <1>2, <1>4, <2>2 DEF MeterTypeOK
  <2> QED
    BY <1>2, <2>2, <2>3, <2>4, <2>5 DEF LastIsAlone
<1> QED
  BY <1>5, <1>6, <1>7, <1>8 DEF MeterInv

\* A save that fails leaves a stale file, and is down as one (save, writeAtomic).
LEMMA StaysStaleKeeps ==
    ASSUME MeterInv, NEW a \in Spenders, StaysStale(a)
    PROVE  MeterInv'
<1>1. MeterTypeOK /\ saver \in Savers /\ content \in [Inodes -> Tables \union {Unreadable}]
  BY DEF MeterInv, MeterTypeOK
<1>2. /\ a \in Saving /\ spoilt' = TRUE
      /\ saver' = [saver EXCEPT ![a] = Resting]
      /\ content' \in [Inodes -> Tables \union {Unreadable}]
      /\ \A j \in Inodes : content'[j] \in {content[j], Unreadable}
      /\ UNCHANGED <<day, rows, folded, tmp, path, logged, carried, restarts>>
  BY <1>1 DEF StaysStale
<1>3. /\ saver'[a].pc = "idle" /\ saver'[a].buf = NoRows
      /\ \A b \in Spenders \ {a} : saver'[b] = saver[b]
  BY <1>1, <1>2, OwnersAre DEF Savers, Saver
<1>4. saver[a].pc # "add"
  BY <1>2 DEF Saving
<1>5. MeterTypeOK'
  <2>1. saver' \in Savers
    BY <1>1, <1>2, OwnersAre DEF Savers, Saver
  <2> QED
    BY <1>1, <1>2, <2>1 DEF MeterTypeOK
<1>6. SpendIsCounted'
  <2>1. \A b \in Spenders, k \in Counted : Ahead(b, k)' = Ahead(b, k)
    BY <1>2, <1>3, <1>4 DEF Ahead
  <2> QED
    BY <1>2, <2>1 DEF MeterInv, SpendIsCounted
<1>7. TablesCounted'
  <2>1. ASSUME NEW b \in Spenders, NEW k \in Counted
        PROVE  \A c \in Spenders : Lifetime(saver'[c].buf, b, k) =< logged[b][k]
    <3>1. Lifetime(NoRows, b, k) = 0 /\ logged[b][k] \in Nat
      <4>1. carried \in [Counted -> Nat] /\ logged[b][k] \in Nat
        BY <1>1 DEF MeterTypeOK
      <4> QED
        BY <4>1, MigrateIs, OwnersAre
    <3>2. \A c \in Spenders \ {a} : Lifetime(saver'[c].buf, b, k) =< logged[b][k]
      BY <1>3 DEF MeterInv, TablesCounted
    <3> QED
      BY <1>3, <3>1, <3>2
  <2> QED
    BY <1>2, <2>1 DEF MeterInv, TablesCounted
<1>8. LastIsAlone'
  BY <1>2 DEF LastIsAlone
<1> QED
  BY <1>5, <1>6, <1>7, <1>8 DEF MeterInv

\* A daemon that starts again counts what its file has, or from nothing
\* (OpenMeter).
LEMMA OpenMeterKeeps ==
    ASSUME MeterInv, OpenMeter
    PROVE  MeterInv'
<1>1. MeterTypeOK
  BY DEF MeterInv
<1>2. /\ restarts' = restarts + 1 /\ spoilt' = TRUE
      /\ rows' = (IF Missing(path) THEN NoRows ELSE fold(content[path], day))
      /\ saver' = [b \in Spenders |-> Resting]
      /\ UNCHANGED <<day, content, tmp, path, logged, carried>>
  BY DEF OpenMeter, files
<1>3. \A b \in Spenders : saver'[b].pc = "idle" /\ saver'[b].buf = NoRows
  BY <1>2, OwnersAre
<1>4. \A b \in Spenders, k \in Counted : Lifetime(NoRows, b, k) = 0 /\ logged[b][k] \in Nat
  <2>1. carried \in [Counted -> Nat]
    BY <1>1 DEF MeterTypeOK
  <2>2. \A b \in Spenders, k \in Counted : logged[b][k] \in Nat
    BY <1>1 DEF MeterTypeOK
  <2> QED
    BY <2>1, <2>2, MigrateIs, OwnersAre
<1>5. rows' \in Tables /\ \A b \in Spenders, k \in Counted : Lifetime(rows', b, k) =< logged[b][k]
  <2>1. CASE Missing(path)
    BY <1>2, <1>4, <2>1, OwnersAre
  <2>2. CASE ~Missing(path)
    <3>1. path \in Inodes /\ content[path] # Unreadable /\ content[path] \in Tables
              /\ day \in 1 .. MaxDay
      BY <1>1, <2>2 DEF Missing, MeterTypeOK
    <3>2. rows' = fold(content[path], day)
      BY <1>2, <2>2
    <3>3. rows' \in Tables
      BY <3>1, <3>2, FoldKeeps
    <3>4. \A b \in Spenders, k \in Counted : Lifetime(rows', b, k) = Lifetime(content[path], b, k)
      BY <3>1, <3>2, FoldKeeps, OwnersAre
    <3>5. \A b \in Spenders, k \in Counted : Lifetime(content[path], b, k) =< logged[b][k]
      BY <3>1 DEF MeterInv, TablesCounted
    <3> QED
      BY <3>3, <3>4, <3>5
  <2> QED
    BY <2>1, <2>2
<1>6. MeterTypeOK'
  <2>1. saver' \in Savers
    BY <1>2, OwnersAre DEF Savers, Saver
  <2> QED
    BY <1>1, <1>2, <1>5, <2>1 DEF MeterTypeOK
<1>7. SpendIsCounted'
  <2>1. \A b \in Spenders, k \in Counted : Ahead(b, k)' = 0
    BY <1>3 DEF Ahead
  <2>2. \A b \in Spenders, k \in Counted : Lifetime(rows', b, k) + 0 =< logged[b][k]
    <3> TAKE b \in Spenders, k \in Counted
    <3>1. Lifetime(rows', b, k) \in Nat
      BY <1>5, LifetimeIs, OwnersAre
    <3> QED
      BY <1>5, <3>1
  <2>3. restarts' # 0
    BY <1>1, <1>2 DEF MeterTypeOK
  <2> QED
    BY <1>2, <2>1, <2>2, <2>3 DEF SpendIsCounted
<1>8. TablesCounted'
  BY <1>2, <1>3, <1>4 DEF MeterInv, TablesCounted
<1>9. LastIsAlone'
  BY <1>2 DEF LastIsAlone
<1> QED
  BY <1>6, <1>7, <1>8, <1>9 DEF MeterInv

\* So it stands after every step.
LEMMA MeterInvStep == MeterInv /\ [MeterNext]_meterVars => MeterInv'
<1> SUFFICES ASSUME MeterInv, [MeterNext]_meterVars PROVE MeterInv'
  OBVIOUS
<1>1. CASE Midnight \/ OpenMeter \/ UNCHANGED meterVars
  BY <1>1, MidnightKeeps, OpenMeterKeeps
<1>2. ASSUME NEW a \in Spenders, NEW k \in Counted, LogSpend(a, k) PROVE MeterInv'
  BY <1>2, LogSpendKeeps
<1>3. ASSUME NEW a \in Spenders, Record(a) \/ Encode(a) \/ Open(a)
      PROVE  MeterInv'
  BY <1>3, RecordKeeps, EncodeKeeps, OpenKeeps
<1>4. ASSUME NEW a \in Spenders, Write(a) \/ Rename(a) \/ StaysStale(a)
      PROVE  MeterInv'
  BY <1>4, WriteKeeps, RenameKeeps, StaysStaleKeeps
<1> QED
  BY <1>1, <1>2, <1>3, <1>4 DEF MeterNext

\* And the bill with it.
LEMMA MeterInvKeeps == MeterInv => BillIsKept
<1> SUFFICES ASSUME MeterInv, \A a \in Spenders : saver[a].pc = "idle", ~spoilt
             PROVE  path # NoFile /\ content[path] = rows
  BY DEF MeterInv, BillIsKept, FileCatchesUp
<1>1. Saving = {} /\ ~Unsaved
  BY DEF Saving, Unsaved
<1> QED
  BY <1>1 DEF MeterInv, LastIsAlone

-----------------------------------------------------------------------------
(* What the host says was spent.                                           *)

\* Reports, totals, and the names of the table with none of them.
Reports == [Ids -> [tokens : Nat, charged : Nat]]
TotalsSet == [cost : Nat, of : Nat]
Listed == DOMAIN priceTable \union {<<>>}

\* A request.
Request == [pc : {"idle", "asked", "price"}, shown : TotalsSet, rows : Reports,
            billed : Nat, of : Nat, prices : [Ids -> Listed]]

\* What a report costs at list price, by model.
Bill(r) == [id \in Ids |-> IF r[id].charged > 0 THEN r[id].charged
                             ELSE r[id].tokens * ListPrice(id)]

\* A report's cost is no more than what its calls cost, and that when every
\* model's calls were priced in one way.
Costs(r, b) == LET cost == Total(Bill(r), Ids) IN cost =< b /\ (OneWay(r) => cost = b)

\* Types.
SpendTypeOK == /\ deletes \in 0 .. MaxDeletes /\ life \in 1 .. deletes + 1
               /\ report \in Reports /\ bills \in [Lives -> Nat]
               /\ byID \in TotalsSet /\ poll \in [Pollers -> Request] /\ owed \in Nat

\* The report costs what the bill of its overlay says, those to come have none
\* yet, and an endpoint charges for no call but those it was asked.
ReportCosts == /\ Costs(report, bills[life])
               /\ \A l \in Lives : l > life => bills[l] = 0
               /\ \A id \in Ids : report[id].charged =< report[id].tokens * Charged

\* Totals are of an overlay that is or was, and have no more than its bill.
NoFurther(t) == t.of =< life /\ NoMoreThan(t)

\* A report that was taken costs what it cost then, at the list's prices, and
\* is no further than its overlay's bill.
PollsCost ==
    \A p \in Pollers :
      /\ NoFurther(poll[p].shown)
      /\ poll[p].pc = "price" =>
           /\ Costs(poll[p].rows, poll[p].billed)
           /\ \A id \in Ids : Rate(poll[p].prices[id]) = ListPrice(id)
           /\ poll[p].of \in 1 .. life /\ poll[p].billed =< bills[poll[p].of]

SpendInv == SpendTypeOK /\ ReportCosts /\ PollsCost /\ NoFurther(byID) /\ OwnUnlessLate

\* A life is one of those that are bounded.
LEMMA LivesAre ==
    ASSUME SpendTypeOK
    PROVE  /\ life \in Lives /\ life \in Nat \ {0} /\ billed = bills[life] /\ billed \in Nat
           /\ \A l \in 1 .. life : l \in Lives /\ bills[l] \in Nat
           /\ deletes < MaxDeletes => life + 1 \in Lives
  BY SpendAssumption DEF SpendTypeOK, Lives, billed

\* A prefix says how a sequence begins.
LEMMA PrefixIs ==
    ASSUME NEW A, NEW B, NEW s \in Seq(A), NEW t \in Seq(B)
    PROVE  IsPrefix(s, t) <=> Len(s) =< Len(t) /\ \A k \in 1 .. Len(s) : s[k] = t[k]
<1>1. SubSeq(s, 1, Len(s)) = s
  BY SubSeqFull
<1>2. CASE Len(s) =< Len(t)
  <2>1. /\ SubSeq(t, 1, Len(s)) \in Seq(B) /\ Len(SubSeq(t, 1, Len(s))) = Len(s)
        /\ \A k \in 1 .. Len(s) : SubSeq(t, 1, Len(s))[k] = t[k]
    BY <1>2
  <2>2. (\A k \in 1 .. Len(s) : s[k] = t[k]) => s = SubSeq(t, 1, Len(s))
    <3> DEFINE u == SubSeq(t, 1, Len(s))
    <3>1. u \in Seq(B) /\ Len(u) = Len(s) /\ \A k \in 1 .. Len(s) : u[k] = t[k]
      BY <2>1
    <3> HIDE DEF u
    <3>2. ASSUME \A k \in 1 .. Len(s) : s[k] = t[k] PROVE s = u
      BY <3>1, <3>2, SeqEqual
    <3> QED
      BY <3>2 DEF u
  <2> QED
    BY <1>1, <1>2, <2>1, <2>2 DEF IsPrefix
<1>3. CASE ~(Len(s) =< Len(t))
  BY <1>3 DEF IsPrefix
<1> QED
  BY <1>2, <1>3

\* Of two prefixes of one sequence the shorter begins the longer, and no other
\* is as long.
LEMMA PrefixesNest ==
    ASSUME NEW A, NEW B, NEW C, NEW s \in Seq(A), NEW q \in Seq(B), NEW t \in Seq(C),
           IsPrefix(s, t), IsPrefix(q, t)
    PROVE  IsPrefix(q, s) <=> Len(q) =< Len(s)
<1>1. /\ Len(s) =< Len(t) /\ \A k \in 1 .. Len(s) : s[k] = t[k]
      /\ Len(q) =< Len(t) /\ \A k \in 1 .. Len(q) : q[k] = t[k]
  BY PrefixIs
<1>2. IsPrefix(q, s) <=> Len(q) =< Len(s) /\ \A k \in 1 .. Len(q) : q[k] = s[k]
  BY PrefixIs
<1>3. Len(q) =< Len(s) => \A k \in 1 .. Len(q) : k \in 1 .. Len(s)
  OBVIOUS
<1> QED
  BY <1>1, <1>2, <1>3

\* Prefixes of one another are the same.
LEMMA PrefixesSame ==
    ASSUME NEW A, NEW B, NEW s \in Seq(A), NEW q \in Seq(B), IsPrefix(q, s), IsPrefix(s, q)
    PROVE  q = s
<1>1. Len(q) = Len(s) /\ \A k \in 1 .. Len(s) : q[k] = s[k]
  BY PrefixIs
<1> QED
  BY <1>1, SeqEqual

\* An id in the table's dialect is a sequence.
LEMMA NormalIs ==
    ASSUME NEW id \in Ids
    PROVE  Normal(id) \in Seq(Range(id) \union {Dash})
<1> DEFINE R == Range(id)
           slash == {k \in 1 .. Len(id) : id[k] = Slash}
           bare == IF slash = {} THEN id ELSE SubSeq(id, Min(slash) + 1, Len(id))
<1>1. id \in Seq(R)
  BY SpendAssumption
<1> HIDE DEF R
<1>2. slash # {} => Min(slash) \in 1 .. Len(id)
  <2> SUFFICES ASSUME slash # {} PROVE Min(slash) \in slash
    OBVIOUS
  <2>1. slash \in SUBSET Nat
    OBVIOUS
  <2> HIDE DEF slash
  <2>2. \E m \in slash : \A n \in slash : m <= n
    BY <2>1, LeastNatural
  <2> QED
    BY <2>2 DEF Min
<1> HIDE DEF slash
<1>3. bare \in Seq(R)
  <2>1. CASE slash = {}
    BY <1>1, <2>1
  <2>2. CASE slash # {}
    <3>1. Min(slash) + 1 \in 1 .. (Len(id) + 1) /\ Len(id) \in Nat
      BY <1>1, <1>2, <2>2
    <3>2. SubSeq(id, Min(slash) + 1, Len(id)) \in Seq(R)
      BY <1>1, <3>1, SubSeqProperties
    <3> QED
      BY <2>2, <3>2
  <2> QED
    BY <2>1, <2>2
<1>4. Normal(id) = [k \in 1 .. Len(bare) |-> IF bare[k] = Dot THEN Dash ELSE bare[k]]
  BY DEF Normal, slash
<1> HIDE DEF bare
<1>5. \A k \in 1 .. Len(bare) : bare[k] \in R
  BY <1>3
<1>6. Len(bare) \in Nat
  BY <1>3
<1> QED
  BY <1>4, <1>5, <1>6 DEF R

\* The loop over the table stops at the longest name that fits, wherever it
\* meets it (rateFor).
LEMMA RateForIs ==
    ASSUME NEW id \in Ids, NEW order \in Orders
    PROVE  LET best == rateFor(id, order) IN
           /\ best \in Listed
           /\ best # <<>> => best \in Fitting(id)
           /\ \A p \in Fitting(id) : Len(p) =< Len(best)
<1> DEFINE N == Normal(id)
           D == DOMAIN priceTable
           n == Cardinality(D)
           S == 1 .. n
           Rec(g) == [T \in SUBSET S |->
                        IF T = {} THEN <<>>
                        ELSE IF /\ IsPrefix(order[Max(T)], N)
                                /\ Len(order[Max(T)]) > Len(g[T \ {Max(T)}])
                             THEN order[Max(T)] ELSE g[T \ {Max(T)}]]
           h == CHOOSE g : g = Rec(g)
           pick == [T \in SUBSET S |-> Max(T)]
           meet == [x \in Listed \X S |->
                      IF IsPrefix(order[x[2]], N) /\ Len(order[x[2]]) > Len(x[1])
                      THEN order[x[2]] ELSE x[1]]
<1>1. n \in Nat /\ IsFiniteSet(S) /\ Cardinality(S) = n
  BY SpendAssumption, FS_CardinalityType, FS_Interval
<1>2. order \in [S -> D] /\ \A i, j \in S : i # j => order[i] # order[j]
  BY DEF Orders, SetToSeqs
<1>3. \A p \in D : \E i \in S : order[i] = p
  <2>1. order \in Injection(S, D)
    BY <1>2 DEF Injection, IsInjective
  <2>2. order \in Surjection(S, D)
    BY <1>1, <2>1, SpendAssumption, FS_Injection
  <2> QED
    BY <2>2 DEF Surjection
<1>4. rateFor(id, order) = h[S]
  <2>1. DOMAIN order = S
    BY <1>2
  <2> QED
    BY <2>1 DEF rateFor, FoldLeft, MapThenFoldSet
<1>5. ASSUME NEW T \in SUBSET S, T # {} PROVE Max(T) \in T
  <2>1. T \in SUBSET (0 .. n)
    BY <1>1
  <2>2. \E m \in T : \A k \in T : k <= m
    BY <1>1, <1>5, <2>1, GreatestNatural
  <2>3. \E m \in T : \A k \in T : m >= k
    BY <2>2
  <2> QED
    BY <2>3 DEF Max
<1>6. \A i \in S : order[i] \in D /\ order[i] \in Listed
  BY <1>2 DEF Listed
<1>7. h = Rec(h)
  <2>1. \A T \in SUBSET S : T # {} => pick[T] = Max(T) /\ pick[T] \in T
    BY <1>5
  <2>2. \A v \in Listed, x \in S :
          /\ meet[<<v, x>>] = IF IsPrefix(order[x], N) /\ Len(order[x]) > Len(v)
                              THEN order[x] ELSE v
          /\ meet[<<v, x>>] \in Listed
    BY <1>6
  <2>3. <<>> \in Listed
    BY DEF Listed
  <2> HIDE DEF pick, meet, N, D, n, S
  <2>4. PICK g \in [SUBSET S -> Listed] : Folds(g, <<>>, pick, meet, S)
    <3>1. /\ \A T \in SUBSET S : T # {} => pick[T] \in T
          /\ \A v \in Listed, x \in S : meet[<<v, x>>] \in Listed
      BY <2>1, <2>2
    <3> QED
      BY <1>1, <2>3, <3>1, FoldsExist
  <2>5. \A T \in SUBSET S : g[T] = IF T = {} THEN <<>> ELSE meet[<<g[T \ {pick[T]}], pick[T]>>]
    BY <2>4 DEF Folds
  <2>6. ASSUME NEW T \in SUBSET S, T # {}
        PROVE  g[T] = IF IsPrefix(order[Max(T)], N) /\ Len(order[Max(T)]) > Len(g[T \ {Max(T)}])
                      THEN order[Max(T)] ELSE g[T \ {Max(T)}]
    <3>1. T \ {Max(T)} \in SUBSET S /\ Max(T) \in S /\ pick[T] = Max(T)
      BY <2>1, <2>6
    <3>2. g[T \ {Max(T)}] \in Listed
      BY <2>4, <3>1
    <3>3. g[T] = meet[<<g[T \ {Max(T)}], Max(T)>>]
      BY <2>5, <2>6, <3>1
    <3> DEFINE v == g[T \ {Max(T)}]
               x == Max(T)
    <3>4. v \in Listed /\ x \in S /\ g[T] = meet[<<v, x>>]
      BY <3>1, <3>2, <3>3
    <3> HIDE DEF v, x
    <3>5. g[T] = IF IsPrefix(order[x], N) /\ Len(order[x]) > Len(v) THEN order[x] ELSE v
      BY <2>2, <3>4
    <3> QED
      BY <3>5 DEF v, x
  <2>7. g = Rec(g)
    <3>1. \A T \in SUBSET S : g[T] = Rec(g)[T]
      BY <2>5, <2>6
    <3>2. DOMAIN g = SUBSET S /\ g = [T \in SUBSET S |-> g[T]]
      BY <2>4
    <3> QED
      BY <3>1, <3>2
  <2> HIDE DEF Rec
  <2> QED
    BY <2>7
<1> HIDE DEF h
<1> DEFINE Fits(p) == IsPrefix(p, N)
           Good(k) == LET best == h[1 .. k] IN
                      /\ best \in Listed
                      /\ best # <<>> => best \in D /\ Fits(best)
                      /\ \A i \in 1 .. k : Fits(order[i]) => Len(order[i]) =< Len(best)
           Bad == {k \in 0 .. n : ~Good(k)}
<1>8. \A p \in Listed : Len(p) \in Nat
  <2>1. \A p \in D : p \in Seq(Range(p))
    BY SpendAssumption
  <2>2. \A p \in D : Len(p) \in Nat
    BY <2>1
  <2> QED
    BY <2>2 DEF Listed
<1>9. Good(0)
  <2>1. h[{}] = <<>>
    BY <1>7
  <2>2. 1 .. 0 = {}
    OBVIOUS
  <2> QED
    BY <2>1, <2>2 DEF Listed
<1>10. ASSUME NEW k \in 1 .. n, Good(k - 1) PROVE Good(k)
  <2> DEFINE T == 1 .. k
             last == h[1 .. (k - 1)]
  <2>1. /\ T \in SUBSET S /\ T # {} /\ T \ {k} = 1 .. (k - 1) /\ k \in S /\ k \in Nat
        /\ \A i \in T : i \in 1 .. (k - 1) \/ i = k
    BY <1>1
  <2>2. Max(T) = k
    <3>1. k \in T /\ \A i \in T : k >= i
      BY <1>1
    <3>2. \A m \in T : (\A i \in T : m >= i) => m = k
      BY <1>1, <3>1
    <3> QED
      BY <3>1, <3>2 DEF Max
  <2>3. h[T] = IF IsPrefix(order[k], N) /\ Len(order[k]) > Len(last) THEN order[k] ELSE last
    <3> HIDE DEF T
    <3> QED
      BY <1>7, <2>1, <2>2
  <2>4. /\ last \in Listed /\ (last # <<>> => last \in D /\ Fits(last))
        /\ \A i \in 1 .. (k - 1) : Fits(order[i]) => Len(order[i]) =< Len(last)
    BY <1>10
  <2>5. order[k] \in D /\ order[k] \in Listed /\ Len(order[k]) \in Nat /\ Len(last) \in Nat
    BY <1>6, <1>8, <2>1, <2>4
  <2>6. \A i \in 1 .. (k - 1) : Len(order[i]) \in Nat
    BY <1>6, <1>8, <2>1
  <2> HIDE DEF last
  <2>7. CASE IsPrefix(order[k], N) /\ Len(order[k]) > Len(last)
    <3>1. h[T] = order[k]
      BY <2>3, <2>7
    <3>2. \A i \in T : Fits(order[i]) => Len(order[i]) =< Len(order[k])
      BY <2>1, <2>4, <2>5, <2>6, <2>7
    <3> QED
      BY <2>5, <2>7, <3>1, <3>2
  <2>8. CASE ~(IsPrefix(order[k], N) /\ Len(order[k]) > Len(last))
    <3>1. h[T] = last
      BY <2>3, <2>8
    <3>2. \A i \in T : Fits(order[i]) => Len(order[i]) =< Len(last)
      BY <2>1, <2>4, <2>5, <2>8
    <3> QED
      BY <2>4, <3>1, <3>2
  <2> QED
    BY <2>7, <2>8
<1> HIDE DEF Good
<1>11. Good(n)
  <2> SUFFICES ASSUME Bad # {} PROVE FALSE
    BY <1>1
  <2>1. PICK m \in Bad : \A k \in Bad : m <= k
    <3>1. Bad \in SUBSET Nat
      OBVIOUS
    <3> QED
      BY <3>1, LeastNatural
  <2>2. m \in 1 .. n /\ ~Good(m)
    BY <1>1, <1>9, <2>1
  <2>3. m - 1 \in 0 .. n /\ m - 1 \notin Bad
    BY <1>1, <2>1, <2>2
  <2> QED
    BY <1>10, <2>2, <2>3
<1>12. /\ h[S] \in Listed
       /\ h[S] # <<>> => h[S] \in D /\ Fits(h[S])
       /\ \A i \in S : Fits(order[i]) => Len(order[i]) =< Len(h[S])
  BY <1>11 DEF Good
<1>13. Fitting(id) = {p \in D : Fits(p)}
  BY DEF Fitting
<1> HIDE DEF Fits, D, S
<1> QED
  BY <1>3, <1>4, <1>12, <1>13

\* So every order of the table leads to the closest name's price (rateFor).
LEMMA RateIsListed ==
    ASSUME NEW id \in Ids, NEW order \in Orders
    PROVE  Rate(rateFor(id, order)) = ListPrice(id)
<1> DEFINE best == rateFor(id, order)
           F == Fitting(id)
           T == Range(id) \union {Dash}
<1>1. /\ best \in Listed /\ (best # <<>> => best \in F)
      /\ \A p \in F : Len(p) =< Len(best)
  BY RateForIs
<1>2. \A p \in F : p \in DOMAIN priceTable /\ p # <<>> /\ p \in Seq(Range(p))
          /\ IsPrefix(p, Normal(id))
  BY SpendAssumption DEF Fitting
<1>3. Normal(id) \in Seq(T)
  BY NormalIs
<1> HIDE DEF best, F, T
<1>4. \A p, q \in F : IsPrefix(q, p) <=> Len(q) =< Len(p)
  BY <1>2, <1>3, PrefixesNest
<1>5. CASE best = <<>>
  <2>1. ASSUME NEW p \in F PROVE FALSE
    <3>1. Len(p) =< 0 /\ p \in Seq(Range(p)) /\ p # <<>>
      BY <1>1, <1>2, <1>5
    <3> QED
      BY <3>1, EmptySeq
  <2> QED
    BY <1>5, <2>1 DEF Rate, ListPrice, F, best
<1>6. CASE best # <<>>
  <2>1. best \in F /\ \A q \in F : IsPrefix(q, best)
    BY <1>1, <1>4, <1>6
  <2>2. \A p \in F : (\A q \in F : IsPrefix(q, p)) => p = best
    <3> TAKE p \in F
    <3> HAVE \A q \in F : IsPrefix(q, p)
    <3>1. IsPrefix(best, p) /\ IsPrefix(p, best)
      BY <2>1
    <3>2. p \in Seq(Range(p)) /\ best \in Seq(Range(best))
      BY <1>2, <2>1
    <3> QED
      BY <3>1, <3>2, PrefixesSame
  <2>3. (CHOOSE p \in F : \A q \in F : IsPrefix(q, p)) = best
    BY <2>1, <2>2
  <2>4. F # {} /\ ListPrice(id) = priceTable[best]
    BY <2>1, <2>3 DEF ListPrice, F
  <2> QED
    BY <1>6, <2>4 DEF Rate, best
<1> QED
  BY <1>5, <1>6

\* The list's prices are numbers.
LEMMA ListPriceIs == \A id \in Ids : ListPrice(id) \in Nat
<1> SUFFICES ASSUME NEW id \in Ids PROVE ListPrice(id) \in Nat
  OBVIOUS
<1>1. PICK order : order \in Orders
  <2>1. ExistsBijection(1 .. Cardinality(DOMAIN priceTable), DOMAIN priceTable)
    BY SpendAssumption, FS_CardinalityType
  <2> QED
    BY <2>1 DEF ExistsBijection, Bijection, Injection, IsInjective, Orders, SetToSeqs
<1>2. rateFor(id, order) \in Listed /\ Rate(rateFor(id, order)) = ListPrice(id)
  BY <1>1, RateForIs, RateIsListed
<1> QED
  BY <1>2, SpendAssumption DEF Rate, Listed

\* What a model has cost is a number.
LEMMA BillIs ==
    ASSUME NEW r \in Reports, NEW id \in Ids
    PROVE  Bill(r)[id] \in Nat
<1>1. r[id].tokens \in Nat /\ r[id].charged \in Nat /\ ListPrice(id) \in Nat
  BY ListPriceIs DEF Reports
<1>2. r[id].tokens * ListPrice(id) \in Nat
  BY <1>1
<1> QED
  BY <1>1, <1>2 DEF Bill

\* A poll's price is what its report costs at list price, when it looked the
\* prices up at the list (Price, costOf).
LEMMA PriceIs ==
    ASSUME NEW r \in Reports, NEW prices, \A id \in Ids : Rate(prices[id]) = ListPrice(id)
    PROVE  Price(r, prices) = Total(Bill(r), Ids)
<1> DEFINE f == Bill(r)
           Rec(g) == [T \in SUBSET Ids |->
                        IF T = {} THEN 0
                        ELSE costOf(r[CHOOSE x \in T : TRUE], prices[CHOOSE x \in T : TRUE])
                               + g[T \ {CHOOSE x \in T : TRUE}]]
           h == CHOOSE g : g = Rec(g)
<1>1. \A id \in Ids : f[id] = costOf(r[id], prices[id])
  BY DEF Bill, costOf
<1>2. \A id \in Ids : f[id] \in Nat
  BY BillIs
<1>3. Price(r, prices) = h[Ids]
  BY DEF Price, MapThenSumSet, MapThenFoldSet
<1> HIDE DEF f
<1>4. ASSUME NEW g PROVE Rec(g) = [T \in SUBSET Ids |-> IF T = {} THEN 0
                                                          ELSE f[One(T)] + g[T \ {One(T)}]]
  <2>1. \A T \in SUBSET Ids : T # {} => One(T) \in Ids
    BY DEF One
  <2>2. \A T \in SUBSET Ids : T # {} => f[One(T)] = costOf(r[One(T)], prices[One(T)])
    BY <1>1, <2>1
  <2> QED
    BY <2>2 DEF One
<1>5. PICK g \in [SUBSET Ids -> Nat] : Sums(g, f, Ids)
  BY <1>2, SpendAssumption, SumsExist
<1>6. g = Rec(g)
  BY <1>4, <1>5 DEF Sums
<1>7. h = Rec(h)
  <2> HIDE DEF Rec
  <2> QED
    BY <1>6
<1> HIDE DEF h
<1>8. Sums(h, f, Ids)
  BY <1>4, <1>7 DEF Sums
<1>9. Total(f, Ids) = h[Ids]
  <2>1. \A x \in Ids : f[x] \in Nat /\ f[x] = f[x]
    BY <1>2
  <2>2. Ids \subseteq Ids
    OBVIOUS
  <2> QED
    BY <1>8, <2>1, <2>2, SpendAssumption, TotalIs
<1> QED
  BY <1>3, <1>9 DEF f

\* A report with a call more.
Called(r, id, charge) ==
    [r EXCEPT ![id] = [tokens |-> @.tokens + 1, charged |-> @.charged + charge]]

\* A call adds to the report no more than it cost, and just that when every
\* model's calls are priced in one way (Call).
LEMMA CallCosts ==
    ASSUME NEW r \in Reports, NEW b \in Nat, NEW id \in Ids, NEW charge \in {0, Charged},
           Costs(r, b), \A i \in Ids : r[i].charged =< r[i].tokens * Charged
    PROVE  /\ Called(r, id, charge) \in Reports
           /\ Costs(Called(r, id, charge), b + (IF charge > 0 THEN charge ELSE ListPrice(id)))
           /\ \A i \in Ids : Called(r, id, charge)[i].charged =<
                  Called(r, id, charge)[i].tokens * Charged
<1> DEFINE q == Called(r, id, charge)
           n == r[id].tokens
           c == r[id].charged
           L == ListPrice(id)
           more == IF charge > 0 THEN charge ELSE L
           f == Bill(r)
           e == Bill(q)
           Rest == Ids \ {id}
<1>1. n \in Nat /\ c \in Nat /\ L \in Nat /\ Charged \in Nat \ {0} /\ charge \in {0, Charged}
  BY ListPriceIs, SpendAssumption DEF Reports
<1>2. /\ q \in Reports /\ q[id].tokens = n + 1 /\ q[id].charged = c + charge
      /\ \A i \in Rest : q[i] = r[i]
  <2>1. q = [r EXCEPT ![id] = [tokens |-> n + 1, charged |-> c + charge]]
    BY DEF Called
  <2> HIDE DEF q, n, c
  <2>2. [tokens |-> n + 1, charged |-> c + charge] \in [tokens : Nat, charged : Nat]
    BY <1>1
  <2>3. q \in Reports
    BY <2>1, <2>2 DEF Reports
  <2>4. q[id] = [tokens |-> n + 1, charged |-> c + charge] /\ \A i \in Rest : q[i] = r[i]
    BY <2>1 DEF Reports
  <2> QED
    BY <2>3, <2>4
<1> HIDE DEF q
<1>3. c =< n * Charged /\ (n + 1) * Charged = n * Charged + Charged /\ (n + 1) * L = n * L + L
      /\ n * Charged \in Nat /\ n * L \in Nat
  <2>1. c =< n * Charged
    OBVIOUS
  <2> HIDE DEF c, n, L
  <2>2. (n + 1) * Charged = n * Charged + Charged /\ (n + 1) * L = n * L + L
        /\ n * Charged \in Nat /\ n * L \in Nat
    BY <1>1
  <2> QED
    BY <2>1, <2>2
<1>4. /\ f[id] = (IF c > 0 THEN c ELSE n * L)
      /\ e[id] = (IF c + charge > 0 THEN c + charge ELSE (n + 1) * L)
  <2>1. f[id] = (IF r[id].charged > 0 THEN r[id].charged ELSE r[id].tokens * L)
    BY DEF Bill
  <2>2. e[id] = (IF q[id].charged > 0 THEN q[id].charged ELSE q[id].tokens * L)
    BY DEF Bill
  <2> QED
    BY <1>2, <2>1, <2>2
<1>5. \A i \in Rest : e[i] = f[i]
  BY <1>2 DEF Bill
<1>6. (\A i \in Ids : f[i] \in Nat /\ e[i] \in Nat) /\ IsFiniteSet(Ids) /\ IsFiniteSet(Rest)
  BY <1>2, BillIs, SpendAssumption, FS_Subset
<1> HIDE DEF f, e
<1>7. /\ Total(f, Ids) = f[id] + Total(f, Rest) /\ Total(e, Ids) = e[id] + Total(e, Rest)
      /\ Total(f, Rest) \in Nat /\ Total(e, Rest) = Total(f, Rest)
  <2>1. \A i \in Rest : f[i] \in Nat /\ e[i] \in Nat /\ e[i] = f[i]
    BY <1>5, <1>6
  <2>2. Total(e, Rest) = Total(f, Rest)
    BY <1>6, <2>1, TotalSame
  <2>3. Total(f, Rest) \in Nat
    BY <1>6, <2>1, TotalSplit
  <2>4. Total(f, Ids) = f[id] + Total(f, Rest)
    BY <1>6, TotalSplit
  <2>5. Total(e, Ids) = e[id] + Total(e, Rest)
    BY <1>6, TotalSplit
  <2> QED
    BY <2>2, <2>3, <2>4, <2>5
<1>8. Total(f, Ids) =< b /\ (OneWay(r) => Total(f, Ids) = b)
  BY DEF Costs, f
<1>9. OneWay(q) => OneWay(r) /\ (charge = 0 => c = 0) /\ (charge > 0 => c = n * Charged)
  <2> SUFFICES ASSUME OneWay(q)
      PROVE OneWay(r) /\ (charge = 0 => c = 0) /\ (charge > 0 => c = n * Charged)
    OBVIOUS
  <2>1. c + charge \in {0, (n + 1) * Charged}
    BY <1>2 DEF OneWay
  <2> HIDE DEF c, n, L
  <2>2. (charge = 0 => c = 0) /\ (charge > 0 => c = n * Charged)
    BY <1>1, <1>3, <2>1
  <2>3. c \in {0, n * Charged}
    BY <1>1, <2>2
  <2>4. \A i \in Rest : r[i].charged \in {0, r[i].tokens * Charged}
    BY <1>2 DEF OneWay
  <2>5. OneWay(r)
    BY <2>3, <2>4 DEF OneWay, c, n
  <2> QED
    BY <2>2, <2>5
<1> HIDE DEF c, n, L, Rest
<1>10. e[id] =< f[id] + more
  BY <1>1, <1>3, <1>4
<1>11. (charge = 0 => c = 0) /\ (charge > 0 => c = n * Charged) => e[id] = f[id] + more
  <2>1. CASE charge = 0
    BY <1>1, <1>3, <1>4, <2>1
  <2>2. CASE charge > 0 /\ n = 0
    BY <1>1, <1>3, <1>4, <2>2
  <2>3. CASE charge > 0 /\ n # 0
    <3>1. n * Charged > 0
      BY <1>1, <2>3
    <3> QED
      BY <1>1, <1>3, <1>4, <2>3, <3>1
  <2> QED
    BY <1>1, <2>1, <2>2, <2>3
<1>12. Costs(q, b + more)
  <2> DEFINE A == Total(f, Rest)
             E == Total(e, Ids)
             F == Total(f, Ids)
             m == more
  <2>1. A \in Nat /\ e[id] \in Nat /\ f[id] \in Nat /\ m \in Nat /\ E = e[id] + A /\ F = f[id] + A
    BY <1>1, <1>6, <1>7
  <2>2. e[id] =< f[id] + m /\ (OneWay(q) => e[id] = f[id] + m) /\ F =< b /\ (OneWay(q) => F = b)
    BY <1>8, <1>9, <1>10, <1>11
  <2> HIDE DEF A, E, F, m
  <2>3. E =< b + m /\ (OneWay(q) => E = b + m)
    BY <2>1, <2>2
  <2> QED
    BY <2>3 DEF Costs, E, e, m
<1>13. \A i \in Ids : q[i].charged =< q[i].tokens * Charged
  <2>1. q[id].charged =< q[id].tokens * Charged
    BY <1>1, <1>2, <1>3
  <2>2. \A i \in Rest : q[i].charged =< q[i].tokens * Charged
    BY <1>2 DEF Rest
  <2> QED
    BY <2>1, <2>2 DEF Rest
<1> QED
  BY <1>2, <1>12, <1>13 DEF q, L

\* An empty report costs nothing.
LEMMA NothingCosts ==
    /\ NoReport \in Reports /\ Costs(NoReport, 0)
    /\ \A id \in Ids : NoReport[id].charged =< NoReport[id].tokens * Charged
<1>1. NoReport \in Reports /\ \A id \in Ids : NoReport[id].tokens = 0 /\ NoReport[id].charged = 0
  BY DEF NoReport, Reports
<1>2. \A id \in Ids : Bill(NoReport)[id] = 0
  <2>1. \A id \in Ids : 0 * ListPrice(id) = 0
    BY ListPriceIs
  <2> QED
    BY <1>1, <2>1 DEF Bill
<1>3. Total(Bill(NoReport), Ids) = 0
  BY <1>2, SpendAssumption, TotalZero
<1>4. 0 * Charged = 0
  BY SpendAssumption
<1> QED
  BY <1>1, <1>3, <1>4 DEF Costs

\* A request that waits for nothing shows what it was answered.
LEMMA WaitingIs ==
    ASSUME NEW t \in TotalsSet
    PROVE  /\ Waiting.pc = "idle" /\ Waiting.shown = Nothing /\ Nothing \in TotalsSet
           /\ Nothing.of = 0 /\ Nothing.cost = 0
           /\ [Waiting EXCEPT !.shown = t].pc = "idle" /\ [Waiting EXCEPT !.shown = t].shown = t
           /\ Waiting.rows = NoReport /\ Waiting.billed = 0 /\ Waiting.of = 0
           /\ Waiting.prices = [id \in Ids |-> <<>>]
  BY DEF Waiting, Nothing, TotalsSet

\* A request that waits is one.
LEMMA WaitingType ==
    ASSUME NEW t \in TotalsSet
    PROVE  /\ Waiting \in Request /\ [Waiting EXCEPT !.shown = t] \in Request
           /\ [Waiting EXCEPT !.pc = "asked"] \in Request
<1>1. NoReport \in Reports /\ [id \in Ids |-> <<>>] \in [Ids -> Listed]
  BY NothingCosts DEF Listed
<1>2. Waiting \in Request
  BY <1>1, WaitingIs DEF Waiting, Request
<1> QED
  BY <1>2 DEF Request

\* At first nothing was spent.
LEMMA SpendInvInit == SpendInit => SpendInv
<1> SUFFICES ASSUME SpendInit PROVE SpendInv
  OBVIOUS
<1>1. Nothing \in TotalsSet /\ Nothing.of = 0 /\ Waiting.shown = Nothing /\ Waiting.pc = "idle"
  BY DEF Nothing, TotalsSet, Waiting
<1>2. SpendTypeOK
  <2>1. Waiting \in Request
    BY <1>1, WaitingType
  <2>2. poll \in [Pollers -> Request]
    BY <2>1 DEF SpendInit, Request
  <2>3. bills \in [Lives -> Nat] /\ deletes \in 0 .. MaxDeletes /\ life \in 1 .. deletes + 1
    BY SpendAssumption DEF SpendInit
  <2> QED
    BY <1>1, <2>2, <2>3, NothingCosts DEF SpendInit, SpendTypeOK
<1>3. ReportCosts
  <2>1. life \in Lives /\ \A l \in Lives : bills[l] = 0
    BY <1>2, LivesAre DEF SpendInit
  <2>2. report = NoReport /\ bills[life] = 0
    BY <2>1 DEF SpendInit
  <2> QED
    BY <2>1, <2>2, NothingCosts DEF ReportCosts
<1>4. NoFurther(Nothing)
  BY <1>1 DEF SpendInit, NoFurther, NoMoreThan
<1>5. NoFurther(byID) /\ PollsCost /\ OwnUnlessLate
  BY <1>1, <1>4 DEF SpendInit, PollsCost, OwnUnlessLate
<1> QED
  BY <1>2, <1>3, <1>5 DEF SpendInv

\* What the invariant says of one request.
PollCosts(r) ==
    /\ NoFurther(r.shown)
    /\ r.pc = "price" => /\ Costs(r.rows, r.billed)
                         /\ \A id \in Ids : Rate(r.prices[id]) = ListPrice(id)
                         /\ r.of \in 1 .. life /\ r.billed =< bills[r.of]

\* A step of one request (probeGuest, Usage, UsageFails, Update).
LEMMA PollKeeps ==
    ASSUME SpendInv, NEW p \in Pollers, NEW r \in Request, PollCosts(r),
           poll' = [poll EXCEPT ![p] = r], UNCHANGED <<guest, owed, deletes>>,
           byID' \in TotalsSet, NoFurther(byID'), OwnUnlessLate'
    PROVE  SpendInv'
<1>1. UNCHANGED <<life, report, bills, owed, deletes>>
  BY DEF guest
<1>2. poll \in [Pollers -> Request] /\ SpendTypeOK
  BY DEF SpendInv, SpendTypeOK, Request
<1>3. poll' \in [Pollers -> Request]
  BY <1>2
<1>4. SpendTypeOK'
  BY <1>1, <1>2, <1>3 DEF SpendTypeOK, Request
<1>5. ReportCosts'
  BY <1>1 DEF SpendInv, ReportCosts
<1>7. NoFurther(byID)'
  BY <1>1 DEF NoFurther, NoMoreThan
<1>8. PollsCost'
  <2>1. \A q \in Pollers : poll'[q] = r \/ poll'[q] = poll[q]
    BY <1>2
  <2>2. \A q \in Pollers : PollCosts(poll[q])
    BY DEF SpendInv, PollsCost, PollCosts
  <2>3. \A q \in Pollers : PollCosts(poll'[q])
    BY <2>1, <2>2
  <2>4. ASSUME NEW q \in Pollers
        PROVE  /\ NoFurther(poll[q].shown)'
               /\ poll'[q].pc = "price" =>
                    /\ Costs(poll'[q].rows, poll'[q].billed)
                    /\ \A id \in Ids : Rate(poll'[q].prices[id]) = ListPrice(id)
                    /\ poll'[q].of \in 1 .. life' /\ poll'[q].billed =< bills'[poll'[q].of]
    BY <1>1, <2>3 DEF PollCosts, NoFurther, NoMoreThan
  <2> QED
    BY <2>4 DEF PollsCost
<1> QED
  BY <1>4, <1>5, <1>7, <1>8 DEF SpendInv

\* An answer that is of one overlay, and no further, is fit to be shown.
LEMMA AnswerKeeps ==
    ASSUME SpendInv, NEW p \in Pollers, NEW t \in TotalsSet, NoFurther(t),
           poll' = [poll EXCEPT ![p] = [Waiting EXCEPT !.shown = t]],
           UNCHANGED <<guest, owed, deletes>>, byID' \in TotalsSet, NoFurther(byID'),
           OwnUnlessLate'
    PROVE  SpendInv'
<1> DEFINE r == [Waiting EXCEPT !.shown = t]
<1>1. r \in Request /\ r.pc = "idle" /\ r.shown = t
  BY WaitingIs, WaitingType
<1> HIDE DEF r
<1>2. PollCosts(r)
  BY <1>1 DEF PollCosts
<1>3. poll' = [poll EXCEPT ![p] = r]
  BY DEF r
<1> QED
  BY <1>1, <1>2, <1>3, PollKeeps

\* A request is sent, or answered from memory (collect, handleVMStats).
LEMMA probeGuestKeeps == ASSUME SpendInv, NEW p \in Pollers, probeGuest(p) PROVE SpendInv'
<1>1. /\ UNCHANGED <<guest, owed, deletes>> /\ byID' = byID /\ byID \in TotalsSet
      /\ NoFurther(byID) /\ OwnUnlessLate'
  BY DEF probeGuest, SpendInv, SpendTypeOK, OwnUnlessLate, totals, guest
<1>2. CASE machine = "running"
  <2> DEFINE r == [Waiting EXCEPT !.pc = "asked"]
  <2>1. r \in Request /\ r.pc = "asked" /\ r.shown = Nothing
    BY <1>1, WaitingType DEF Waiting
  <2>2. poll' = [poll EXCEPT ![p] = r]
    BY <1>2 DEF probeGuest
  <2>3. NoFurther(Nothing)
    BY LivesAre DEF SpendInv, NoFurther, NoMoreThan, Nothing
  <2> HIDE DEF r
  <2>4. PollCosts(r)
    BY <2>1, <2>3 DEF PollCosts
  <2> QED
    BY <1>1, <2>1, <2>2, <2>4, PollKeeps
<1>3. CASE machine # "running"
  <2>1. poll' = [poll EXCEPT ![p] = [Waiting EXCEPT !.shown = byID]]
    BY <1>3 DEF probeGuest, Answer
  <2> QED
    BY <1>1, <2>1, AnswerKeeps
<1> QED
  BY <1>2, <1>3

\* The guest answers, and the table is walked for each model (Usage, rateFor).
LEMMA UsageKeeps == ASSUME SpendInv, NEW p \in Pollers, Usage(p) PROVE SpendInv'
<1>1. PICK order \in Orders :
        poll' = [poll EXCEPT ![p] = [Waiting EXCEPT !.pc = "price", !.rows = report,
                  !.billed = billed, !.of = life, !.prices = [id \in Ids |-> rateFor(id, order)]]]
  BY Zenon DEF Usage
<1>2. /\ UNCHANGED <<guest, owed, deletes>> /\ byID' = byID /\ byID \in TotalsSet
      /\ NoFurther(byID) /\ SpendTypeOK /\ OwnUnlessLate'
  BY DEF Usage, SpendInv, SpendTypeOK, OwnUnlessLate, totals, guest
<1>a. /\ life \in Nat \ {0} /\ billed = bills[life] /\ billed \in Nat
      /\ bills[life] \in Nat
  BY <1>2, LivesAre
<1> DEFINE prices == [id \in Ids |-> rateFor(id, order)]
           r == [Waiting EXCEPT !.pc = "price", !.rows = report, !.billed = billed,
                   !.of = life, !.prices = prices]
<1>3. prices \in [Ids -> Listed] /\ \A id \in Ids : Rate(prices[id]) = ListPrice(id)
  BY RateForIs, RateIsListed
<1>4. poll' = [poll EXCEPT ![p] = r]
  BY <1>1
<1> HIDE DEF prices
<1>5. /\ r.pc = "price" /\ r.rows = report /\ r.billed = billed /\ r.of = life /\ r.prices = prices
      /\ r.shown = Nothing
  BY DEF Waiting
<1>6. r \in Request
  BY <1>2, <1>a, <1>3, WaitingIs DEF Waiting, SpendTypeOK, Request
<1>7. NoFurther(Nothing)
  BY <1>a DEF NoFurther, NoMoreThan, Nothing
<1> HIDE DEF r
<1>8. PollCosts(r)
  BY <1>a, <1>3, <1>5, <1>7 DEF PollCosts, SpendInv, ReportCosts
<1> QED
  BY <1>2, <1>4, <1>6, <1>8, PollKeeps

\* The guest does not answer (probeGuest).
LEMMA UsageFailsKeeps == ASSUME SpendInv, NEW p \in Pollers, UsageFails(p) PROVE SpendInv'
<1>1. /\ UNCHANGED <<guest, owed, deletes>> /\ byID' = byID /\ byID \in TotalsSet
      /\ NoFurther(byID) /\ OwnUnlessLate'
  BY DEF UsageFails, SpendInv, SpendTypeOK, OwnUnlessLate, totals, guest
<1>2. poll' = [poll EXCEPT ![p] = [Waiting EXCEPT !.shown = byID]]
  BY DEF UsageFails, Answer
<1> QED
  BY <1>1, <1>2, AnswerKeeps

\* The totals are kept, and shown (Update).
LEMMA UpdateKeeps == ASSUME SpendInv, NEW p \in Pollers, Update(p) PROVE SpendInv'
<1> DEFINE q == poll[p]
           t == [cost |-> Price(q.rows, q.prices), of |-> q.of]
<1>1. /\ UNCHANGED <<guest, owed, deletes>> /\ byID' = t /\ q.pc = "price" /\ SpendTypeOK
      /\ late' = (q.of # life)
  BY DEF Update, SpendInv
<1>2. poll' = [poll EXCEPT ![p] = [Waiting EXCEPT !.shown = t]]
  BY <1>1 DEF Update, Answer
<1>3. q \in Request
  BY <1>1 DEF SpendTypeOK, Request
<1>4. /\ Costs(q.rows, q.billed) /\ \A id \in Ids : Rate(q.prices[id]) = ListPrice(id)
      /\ q.of \in 1 .. life /\ q.billed =< bills[q.of]
  BY <1>1 DEF SpendInv, PollsCost
<1> HIDE DEF q
<1>5. q.rows \in Reports /\ q.of \in Nat /\ q.billed \in Nat /\ bills[q.of] \in Nat
  BY <1>1, <1>3, <1>4, LivesAre DEF Request
<1>6. Price(q.rows, q.prices) = Total(Bill(q.rows), Ids)
  BY <1>4, <1>5, PriceIs
<1>7. Price(q.rows, q.prices) \in Nat
  <2>1. \A id \in Ids : Bill(q.rows)[id] \in Nat
    BY <1>5, BillIs
  <2> QED
    BY <1>6, <2>1, SpendAssumption, TotalSplit
<1>8. Price(q.rows, q.prices) =< q.billed
  BY <1>4, <1>6 DEF Costs
<1>9. t.cost = Price(q.rows, q.prices) /\ t.of = q.of /\ t \in TotalsSet
  BY <1>5, <1>7 DEF TotalsSet
<1> HIDE DEF t
<1>10. NoFurther(t)
  <2> DEFINE c == Price(q.rows, q.prices)
  <2>1. c \in Nat /\ c =< q.billed
    BY <1>7, <1>8
  <2> HIDE DEF c
  <2>2. c =< bills[q.of]
    BY <1>4, <1>5, <2>1
  <2>3. q.of =< life
    BY <1>4
  <2> QED
    BY <1>9, <2>2, <2>3 DEF NoFurther, NoMoreThan, c
<1>11. OwnUnlessLate'
  <2>1. life' = life /\ byID'.of = q.of
    BY <1>1, <1>9 DEF guest
  <2> QED
    BY <1>1, <2>1 DEF OwnUnlessLate
<1> QED
  BY <1>1, <1>2, <1>9, <1>10, <1>11, AnswerKeeps

\* A machine may change beneath its totals: what it has spent only grows, or
\* it is another's (Call, handleDelete, Forget, create, pause, resume).
LEMMA MachineKeeps ==
    ASSUME SpendInv, UNCHANGED poll, byID' \in {byID, Nothing},
           deletes' \in 0 .. MaxDeletes, life' \in 1 .. deletes' + 1, life =< life',
           report' \in Reports, bills' \in [Lives -> Nat], owed' \in Nat,
           \A l \in Lives : bills[l] =< bills'[l], ReportCosts', OwnUnlessLate'
    PROVE  SpendInv'
<1>1. SpendTypeOK /\ Nothing \in TotalsSet /\ Nothing.of = 0
  BY DEF SpendInv, Nothing, TotalsSet
<1>2. byID \in TotalsSet /\ poll \in [Pollers -> Request]
  BY <1>1 DEF SpendTypeOK, Request
<1>3. SpendTypeOK'
  BY <1>1, <1>2 DEF SpendTypeOK
<1>a. /\ life \in Nat /\ life' \in Nat
      /\ \A l \in 1 .. life : l \in Lives /\ bills[l] \in Nat /\ bills'[l] \in Nat
                           /\ bills[l] =< bills'[l]
  BY <1>1, LivesAre
<1>4. ASSUME NEW t \in TotalsSet, NoFurther(t)
      PROVE  t.of =< life' /\ (t.of # 0 => t.cost =< bills'[t.of])
  <2>1. t.of \in Nat /\ t.cost \in Nat /\ t.of =< life /\ (t.of # 0 => t.cost =< bills[t.of])
    BY <1>4 DEF TotalsSet, NoFurther, NoMoreThan
  <2>2. t.of # 0 => t.of \in 1 .. life
    BY <1>a, <2>1
  <2> QED
    BY <1>a, <2>1, <2>2
<1>5. NoFurther(byID)'
  <2>1. CASE byID' = byID
    BY <1>2, <1>4, <2>1 DEF SpendInv, NoFurther, NoMoreThan
  <2>2. CASE byID' = Nothing
    BY <1>1, <1>a, <2>2 DEF NoFurther, NoMoreThan
  <2> QED
    BY <2>1, <2>2
<1>6. PollsCost'
  <2> SUFFICES ASSUME NEW p \in Pollers
               PROVE  /\ poll[p].shown.of =< life'
                      /\ poll[p].shown.of # 0 => poll[p].shown.cost =< bills'[poll[p].shown.of]
                      /\ poll[p].pc = "price" =>
                           /\ Costs(poll[p].rows, poll[p].billed)
                           /\ \A id \in Ids : Rate(poll[p].prices[id]) = ListPrice(id)
                           /\ poll[p].of \in 1 .. life'
                           /\ poll[p].billed =< bills'[poll[p].of]
    BY DEF PollsCost, NoFurther, NoMoreThan
  <2>1. poll[p].shown \in TotalsSet /\ poll[p].of \in Nat /\ poll[p].billed \in Nat
    BY <1>2 DEF Request
  <2>2. NoFurther(poll[p].shown)
    BY DEF SpendInv, PollsCost
  <2>3. /\ poll[p].shown.of =< life'
        /\ poll[p].shown.of # 0 => poll[p].shown.cost =< bills'[poll[p].shown.of]
    BY <1>4, <2>1, <2>2
  <2>4. poll[p].pc = "price" =>
          /\ Costs(poll[p].rows, poll[p].billed)
          /\ \A id \in Ids : Rate(poll[p].prices[id]) = ListPrice(id)
          /\ poll[p].of \in 1 .. life /\ poll[p].billed =< bills[poll[p].of]
    BY DEF SpendInv, PollsCost
  <2>5. poll[p].pc = "price" => /\ poll[p].of \in 1 .. life'
                                /\ poll[p].billed =< bills'[poll[p].of]
    BY <1>a, <2>1, <2>4
  <2> QED
    BY <2>3, <2>4, <2>5
<1> QED
  BY <1>3, <1>5, <1>6 DEF SpendInv

\* A response costs its machine what the list says, or what its endpoint does
\* (Call).
LEMMA CallKeeps == ASSUME SpendInv, NEW id \in Ids, Call(id) PROVE SpendInv'
<1>1. PICK charge \in {0, Charged} :
        /\ report' = [report EXCEPT ![id] = [tokens |-> @.tokens + 1,
                                                  charged |-> @.charged + charge]]
        /\ bills' = [bills EXCEPT ![life] = @ + (IF charge > 0 THEN charge ELSE ListPrice(id))]
  BY DEF Call
<1>2. UNCHANGED <<life, byID, late, poll, owed, deletes>>
  BY DEF Call, totals
<1>3. SpendTypeOK /\ ReportCosts /\ report \in Reports /\ bills \in [Lives -> Nat]
  BY DEF SpendInv, SpendTypeOK
<1> DEFINE b == bills[life]
           more == IF charge > 0 THEN charge ELSE ListPrice(id)
<1>4. report' = Called(report, id, charge)
  BY <1>1 DEF Called
<1>5. /\ b \in Nat /\ more \in Nat /\ life \in Lives /\ life \in Nat
  BY <1>1, <1>3, LivesAre, ListPriceIs, SpendAssumption
<1>6. /\ report' \in Reports /\ Costs(report', b + more)
      /\ \A i \in Ids : report'[i].charged =< report'[i].tokens * Charged
  <2>1. Costs(report, b) /\ \A i \in Ids : report[i].charged =< report[i].tokens * Charged
    BY <1>3 DEF ReportCosts
  <2> HIDE DEF b
  <2>2. /\ Called(report, id, charge) \in Reports
        /\ Costs(Called(report, id, charge), b + more)
        /\ \A i \in Ids : Called(report, id, charge)[i].charged
                           =< Called(report, id, charge)[i].tokens * Charged
    BY <1>1, <1>3, <1>5, <2>1, CallCosts
  <2>3. \A q : q = Called(report, id, charge) =>
              /\ q \in Reports /\ Costs(q, b + more)
              /\ \A i \in Ids : q[i].charged =< q[i].tokens * Charged
    BY <2>2 DEF Costs, OneWay, Bill
  <2> QED
    BY <1>4, <2>3
<1> HIDE DEF b, more
<1>7. /\ bills' = [bills EXCEPT ![life] = b + more]
      /\ bills'[life] = b + more /\ \A l \in Lives \ {life} : bills'[l] = bills[l]
      /\ bills' \in [Lives -> Nat] /\ bills[life] = b
  BY <1>1, <1>3, <1>5 DEF b, more
<1>8. ReportCosts'
  <2>1. Costs(report', bills'[life])
    BY <1>6, <1>7
  <2>2. Costs(report, bills[life])'
    BY <1>2, <2>1 DEF Costs, OneWay, Bill
  <2>3. \A l \in Lives : l > life => bills'[l] = 0
    BY <1>3, <1>5, <1>7 DEF ReportCosts
  <2> QED
    BY <1>2, <1>6, <2>2, <2>3 DEF ReportCosts
<1>9. \A l \in Lives : bills[l] =< bills'[l]
  BY <1>3, <1>5, <1>7
<1>10. OwnUnlessLate'
  BY <1>2 DEF SpendInv, OwnUnlessLate
<1>11. deletes' \in 0 .. MaxDeletes /\ life' \in 1 .. deletes' + 1 /\ life =< life' /\ owed' \in Nat
  BY <1>2, <1>3, <1>5 DEF SpendTypeOK
<1> QED
  BY <1>2, <1>6, <1>7, <1>8, <1>9, <1>10, <1>11, MachineKeeps

\* A machine that is purged is another when it comes back, and its delete has its
\* totals still to forget (handleDelete).
LEMMA handleDeleteKeeps == ASSUME SpendInv, handleDelete PROVE SpendInv'
<1>1. /\ UNCHANGED <<bills, byID, late, poll>>
      /\ deletes < MaxDeletes /\ deletes' = deletes + 1 /\ owed' = owed + 1
      /\ \/ life' = life + 1 /\ report' = NoReport
         \/ UNCHANGED <<life, report>>
  BY DEF handleDelete, totals
<1>2. SpendTypeOK /\ ReportCosts
  BY DEF SpendInv
<1>3. /\ life \in Nat \ {0} /\ life + 1 \in Lives
      /\ bills \in [Lives -> Nat] /\ \A l \in Lives : bills[l] \in Nat
  BY <1>1, <1>2, LivesAre DEF SpendTypeOK
<1>4. /\ deletes' \in 0 .. MaxDeletes /\ life' \in 1 .. deletes' + 1 /\ life =< life'
      /\ owed' \in Nat /\ owed' > 0
  BY <1>1, <1>2, SpendAssumption DEF SpendTypeOK
<1>5. OwnUnlessLate'
  BY <1>4 DEF OwnUnlessLate
<1>6. CASE life' = life + 1 /\ report' = NoReport
  <2>1. bills'[life'] = 0
    BY <1>1, <1>2, <1>3, <1>6 DEF ReportCosts
  <2>2. Costs(report, bills[life])'
    BY <1>6, <2>1, NothingCosts DEF Costs, OneWay, Bill
  <2>3. \A l \in Lives : l > life' => bills'[l] = 0
    BY <1>1, <1>2, <1>3, <1>6 DEF ReportCosts, Lives
  <2>4. ReportCosts'
    BY <1>6, <2>2, <2>3, NothingCosts DEF ReportCosts
  <2> QED
    BY <1>1, <1>3, <1>4, <1>5, <1>6, <2>4, NothingCosts, MachineKeeps
<1>7. CASE UNCHANGED <<life, report>>
  <2>1. ReportCosts' /\ report' \in Reports
    BY <1>1, <1>2, <1>7 DEF ReportCosts, SpendTypeOK
  <2> QED
    BY <1>1, <1>3, <1>4, <1>5, <2>1, MachineKeeps
<1> QED
  BY <1>1, <1>6, <1>7

\* Totals are forgotten, or the machine turned on or off, or nothing done.
LEMMA RestKeeps == ASSUME SpendInv, Forget \/ Turned \/ UNCHANGED spendVars PROVE SpendInv'
<1>1. UNCHANGED <<life, report, bills, poll, deletes>> /\ byID' \in {byID, Nothing}
  BY DEF Forget, Turned, spendVars, guest, totals
<1>2. SpendTypeOK /\ ReportCosts
  BY DEF SpendInv
<1>3. ReportCosts'
  BY <1>1, <1>2 DEF ReportCosts
<1>4. owed' \in Nat
  BY <1>2 DEF Forget, Turned, spendVars, SpendTypeOK
<1>5. OwnUnlessLate'
  BY <1>1 DEF SpendInv, OwnUnlessLate, Forget, Turned, spendVars, totals, Nothing
<1>6. /\ deletes' \in 0 .. MaxDeletes /\ life' \in 1 .. deletes' + 1 /\ life =< life'
      /\ report' \in Reports /\ bills' \in [Lives -> Nat]
      /\ \A l \in Lives : bills[l] =< bills'[l]
  BY <1>1, <1>2 DEF SpendTypeOK
<1> QED
  BY <1>1, <1>3, <1>4, <1>5, <1>6, MachineKeeps

\* So it stands after every step.
LEMMA SpendInvStep == SpendInv /\ [SpendNext]_spendVars => SpendInv'
  BY handleDeleteKeeps, RestKeeps, CallKeeps, probeGuestKeeps, UsageKeeps, UsageFailsKeeps,
      UpdateKeeps
  DEF SpendNext

\* And what is shown, and what is about to be, is what was spent.
LEMMA SpendInvPriced == SpendInv => SpendIsPriced
<1> SUFFICES ASSUME SpendInv PROVE SpendIsPriced
  OBVIOUS
<1>1. ASSUME NEW p \in Pollers, poll[p].pc = "price"
      PROVE  LET cost == Price(poll[p].rows, poll[p].prices)
             IN  cost =< poll[p].billed /\ (OneWay(poll[p].rows) => cost = poll[p].billed)
  <2>1. /\ Costs(poll[p].rows, poll[p].billed)
        /\ \A id \in Ids : Rate(poll[p].prices[id]) = ListPrice(id)
    BY <1>1 DEF SpendInv, PollsCost
  <2>2. poll[p].rows \in Reports
    BY DEF SpendInv, SpendTypeOK, Request
  <2>3. Price(poll[p].rows, poll[p].prices) = Total(Bill(poll[p].rows), Ids)
    BY <2>1, <2>2, PriceIs
  <2> QED
    BY <2>1, <2>3 DEF Costs
<1>2. TotalsAreOfOne /\ OwnUnlessLate
  BY DEF SpendInv, PollsCost, NoFurther, TotalsAreOfOne
<1> QED
  BY <1>1, <1>2 DEF SpendIsPriced, ReportIsPriced

-----------------------------------------------------------------------------
(* All of them, in whichever of them the behaviour moves.                  *)

\* The numbers an agent gives out keep what they mean: a file that was sent is
\* there and is the one that was sent, a snapshot's path leads to its page or
\* to nothing, the event log ascends, and a client that comes back with its
\* Last-Event-ID has missed nothing before it, for any number of tool handlers
\* and of instances of the agent (reserve, rotate, highestSeq, OpenLog, Append,
\* stream, emit, pump).
THEOREM NumbersAlwaysKeep == Spec => []NumbersKeep
<1> DEFINE Inv == NumberInv /\ LogInv
           vars == <<scene, meterVars, talkVars, numberVars, logVars, spendVars>>
<1>1. Init => Inv
  BY NumberInvInit, LogInvInit DEF Init
<1>2. Inv /\ [Next]_vars => Inv'
  <2>1. [Next]_vars => [NumberNext]_numberVars /\ [LogNext]_logVars
    BY DEF Next
  <2> QED
    BY <2>1, NumberInvStep, LogInvStep
<1>3. Inv => NumbersKeep
  BY NumberInvStands, LogInvStands DEF NumbersKeep
<1> QED
  BY <1>1, <1>2, <1>3, PTL DEF Spec

\* The billing record keeps: what was spent is counted once, on no day twice
\* and after no restart more than the logs have, and what is counted is on disk
\* between bookings when the last save was alone and did not fail (Record,
\* FinishTurn, foldLocked, save, writeAtomic, OpenMeter).
THEOREM BillAlwaysKept == Spec => []BillIsKept
<1> DEFINE vars == <<scene, meterVars, talkVars, numberVars, logVars, spendVars>>
<1>1. Init => MeterInv
  BY MeterInvInit DEF Init
<1>2. MeterInv /\ [Next]_vars => MeterInv'
  <2>1. [Next]_vars => [MeterNext]_meterVars
    BY DEF Next
  <2> QED
    BY <2>1, MeterInvStep
<1>3. MeterInv => BillIsKept
  BY MeterInvKeeps
<1> QED
  BY <1>1, <1>2, <1>3, PTL DEF Spec

\* What the host makes of a report is no more than the calls in it cost, nor less
\* when a model's calls were all priced in one way, whatever order its price table
\* is walked in; a total it keeps or shows is of one overlay, and no more than that
\* one's calls cost, however late the poll; and the total of an overlay that is
\* gone is kept past its delete by a late poll alone (rateFor, costOf, Price,
\* Update, Forget).
THEOREM SpendAlwaysPriced == Spec => []SpendIsPriced
<1> DEFINE vars == <<scene, meterVars, talkVars, numberVars, logVars, spendVars>>
<1>1. Init => SpendInv
  BY SpendInvInit DEF Init
<1>2. SpendInv /\ [Next]_vars => SpendInv'
  <2>1. [Next]_vars => [SpendNext]_spendVars
    BY DEF Next
  <2> QED
    BY <2>1, SpendInvStep
<1>3. SpendInv => SpendIsPriced
  BY SpendInvPriced
<1> QED
  BY <1>1, <1>2, <1>3, PTL DEF Spec
=============================================================================
