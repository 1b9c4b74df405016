----------------------------- MODULE CardBoard -----------------------------
(* What the raised-hand cards of a machine promise the people who watch    *)
(* it: a card belongs to a hand that was raised, and goes when that hand   *)
(* has gone down.  How hands are carried to the board is not said here.    *)
(*                                                                         *)
(* A board is calm unless a consumer that was told to stop is, or has just *)
(* been, at work on it beside its successor, or a change was lost on its   *)
(* way: then a card may go too early, and come back.                       *)
CONSTANT Hands

VARIABLES hand,     \* each hand: "never" raised, "up" or "down"
          board,    \* the hands whose cards are up
          calm

BoardInit == /\ hand = [h \in Hands |-> "never"]
             /\ board = {}
             /\ calm = TRUE

GoesUp == \E h \in Hands : hand[h] = "never" /\ hand' = [hand EXCEPT ![h] = "up"]

\* One hand is answered or given up, or the machine stops and takes them all.
GoesDown == /\ hand' # hand
            /\ hand' \in [Hands -> {"never", "up", "down"}]
            /\ \A h \in Hands : hand'[h] # hand[h] => hand[h] = "up" /\ hand'[h] = "down"

Show == \E h \in Hands : h \notin board /\ hand[h] # "never" /\ board' = board \union {h}

TakeDown == /\ board' # board
            /\ board' \subseteq board
            /\ calm => \A h \in board \ board' : hand[h] = "down"

\* Whether the board is calm is nothing a step has to preserve.
Step == /\ \/ (GoesUp \/ GoesDown) /\ UNCHANGED board
           \/ (Show \/ TakeDown) /\ UNCHANGED hand
           \/ UNCHANGED <<hand, board>>
        /\ calm' \in BOOLEAN

BoardSpec == BoardInit /\ [][Step]_<<hand, board, calm>>
=============================================================================
