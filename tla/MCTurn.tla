------------------------------- MODULE MCTurn -------------------------------
(* What a turn leaves on disk and what is made of it: five stores of the   *)
(* machine and its host that share no state, one of them in motion in each *)
(* behaviour while the others rest.                                        *)
EXTENDS Meter, Conversation, Numbering, EventLog, Spend, TLC

VARIABLE scene

Opus == <<"claude-opus", "-", "4">>
Opus45 == Opus \o <<"-", "5">>
Rates == Opus :> 3 @@ Opus45 :> 1 @@ <<"claude-haiku", "-", "4">> :> 2
OpusIds == {<<"anthropic", "/", "claude-opus", "-", "4", ".", "5">>, Opus \o <<"-", "2025">>}

Scenes == {"meter", "talk", "numbers", "log", "spend"}

\* At rest a store is as it first was, empty.
Init == /\ scene \in Scenes
        /\ MeterInit /\ (scene # "meter" => path = NoFile)
        /\ TalkInit /\ (scene # "talk" => disk = <<>>)
        /\ NumberInit /\ LogInit /\ SpendInit

Next == /\ UNCHANGED scene
        /\ \/ scene = "meter" /\ MeterNext /\ UNCHANGED <<talkVars, numberVars, logVars, spendVars>>
           \/ scene = "talk" /\ TalkNext /\ UNCHANGED <<meterVars, numberVars, logVars, spendVars>>
           \/ scene = "numbers" /\ NumberNext /\ UNCHANGED <<meterVars, talkVars, logVars, spendVars>>
           \/ scene = "log" /\ LogNext /\ UNCHANGED <<meterVars, talkVars, numberVars, spendVars>>
           \/ scene = "spend" /\ SpendNext /\ UNCHANGED <<meterVars, talkVars, numberVars, logVars>>

Spec == Init /\ [][Next]_<<scene, meterVars, talkVars, numberVars, logVars, spendVars>>

\* The numbers an agent gives out go on meaning what they meant: those of its
\* files (NumbersStand) and those of its events (LogStands).
NumbersKeep == NumbersStand /\ LogStands
=============================================================================
