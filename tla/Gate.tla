-------------------------------- MODULE Gate --------------------------------
(* One agent's approval gate and the raised hands of the machine: gate.go  *)
(* and interactions.go of internal/agentd, with the parts of loop.go that  *)
(* show a person whether the agent waits (addWait, setState, Interrupt).   *)
(*                                                                         *)
(* A CALL is one run of a tool handler.  The SDK runs the handlers of one  *)
(* turn concurrently; the person answers over HTTP, and may interrupt at   *)
(* any moment.  Three locks are involved, g.mu, the hub's h.mu and a.mu,   *)
(* and each action is one hold of one of them or one channel operation.    *)
(* A call's id is the call: register hands out a new one each time.        *)
EXTENDS Naturals, FiniteSets

CONSTANTS Calls,      \* runs of tool handlers that go through the gate
          Tools,      \* tools that need an approval
          ToolOf,     \* the tool of a call; None is a question, from Ask
          None,       \* the empty string, or no value
          MaxUses,    \* uses in a batch consent
          MaxTurns    \* bound: turns of the agent

Decisions == {"allow", "batch", "deny"}
Outcomes == Decisions \union {"interrupted", "timeout", "cancelled", "granted"}

ASSUME GateAssumption ==
  /\ None \notin Tools \union Outcomes
  /\ ToolOf \in [Calls -> Tools \union {None}]
  /\ MaxUses \in Nat \ {0}
  /\ MaxTurns \in Nat
  /\ IsFiniteSet(Calls)

VARIABLES pc,         \* how far each call has come
          result,     \* what await returned to the call
          pending,    \* g.pending
          answer,     \* what is in each call's channel, which holds one value
          grants,     \* uses left of g.grants, per tool
          raised,     \* the hub's raised hands
          waiting,    \* a.waiting
          state,      \* a.state
          cancelled,  \* the turn's context
          turns,      \* turns begun
          res,        \* a Resolve of this call and how far it has come
          said,       \* the decision that Resolve carries
          revoke,     \* how far an Interrupt has come
          toDeny,     \* the pending calls it took and has yet to deny
          given,      \* history: uses granted by batch consents, per tool
          spent,      \* history: calls let through by a grant, per tool
          early       \* history: calls answered before their hand was up

waitVars == <<waiting, state>>
personVars == <<res, said, revoke, toDeny>>
histVars == <<given, spent, early>>
vars == <<pc, result, pending, answer, grants, raised, waitVars, cancelled, turns,
          personVars, histVars>>

Steps == {"idle", "consume", "register", "log", "raise", "waitup", "showwaiting",
          "parked", "forget", "lower", "waitdown", "showup", "showdown", "done"}

Init == /\ pc = [c \in Calls |-> "idle"]
        /\ result = [c \in Calls |-> None]
        /\ pending = {}
        /\ answer = [c \in Calls |-> None]
        /\ grants = [t \in Tools |-> 0]
        /\ raised = {}
        /\ waiting = 0
        /\ state = "idle"
        /\ cancelled = FALSE
        /\ turns = 0
        /\ res = [c \in Calls |-> "no"]
        /\ said = [c \in Calls |-> None]
        /\ revoke = "no"
        /\ toDeny = {}
        /\ given = [t \in Tools |-> 0]
        /\ spent = [t \in Tools |-> 0]
        /\ early = {}

Goto(c, step) == pc' = [pc EXCEPT ![c] = step]

-----------------------------------------------------------------------------
(* The turn, as far as the gate sees it.                                   *)

BeginTurn == /\ state = "idle"
             /\ turns < MaxTurns
             /\ turns' = turns + 1
             /\ state' = "working"
             /\ cancelled' = FALSE
             /\ UNCHANGED <<pc, result, pending, answer, grants, raised, waiting,
                            personVars, histVars>>

\* finish: every handler of the turn has returned.
EndTurn == /\ state # "idle"
           /\ \A c \in Calls : pc[c] \in {"idle", "done"}
           /\ state' = "idle"
           /\ UNCHANGED <<pc, result, pending, answer, grants, raised, waiting,
                          cancelled, turns, personVars, histVars>>

-----------------------------------------------------------------------------
(* A handler: Check or Ask.                                                *)

\* The runner calls a handler, which asks for an approval or puts a question.
Call(c) == /\ pc[c] = "idle"
           /\ state # "idle"
           /\ ~cancelled
           /\ Goto(c, IF ToolOf[c] = None THEN "register" ELSE "consume")
           /\ UNCHANGED <<result, pending, answer, grants, raised, waitVars,
                          cancelled, turns, personVars, histVars>>

\* Mutant: consume without the lock.  A use taken while another handler looks
\* for one is not seen to be gone.
Consume_Unlocked(c) ==
  LET t == ToolOf[c]
      watched == \E d \in Calls \ {c} : pc[d] = "consume" /\ ToolOf[d] = t
  IN  /\ pc[c] = "consume"
      /\ \/ /\ grants[t] > 0
            /\ grants' = IF watched THEN grants ELSE [grants EXCEPT ![t] = @ - 1]
            /\ result' = [result EXCEPT ![c] = "granted"]
            /\ spent' = [spent EXCEPT ![t] = @ + 1]
            /\ Goto(c, "done")
         \/ /\ grants[t] = 0
            /\ Goto(c, "register")
            /\ UNCHANGED <<grants, result, spent>>
      /\ UNCHANGED <<pending, answer, raised, waitVars, cancelled, turns,
                     personVars, given, early>>

\* consume, under g.mu: a use of a grant that is neither spent nor expired.
Consume(c) ==
  LET t == ToolOf[c]
  IN  /\ pc[c] = "consume"
      /\ \/ /\ grants[t] > 0
            /\ grants' = [grants EXCEPT ![t] = @ - 1]
            /\ result' = [result EXCEPT ![c] = "granted"]
            /\ spent' = [spent EXCEPT ![t] = @ + 1]
            /\ Goto(c, "done")
         \/ /\ grants[t] = 0
            /\ Goto(c, "register")
            /\ UNCHANGED <<grants, result, spent>>
      /\ UNCHANGED <<pending, answer, raised, waitVars, cancelled, turns,
                     personVars, given, early>>

\* register, under g.mu.
Register(c) == /\ pc[c] = "register"
               /\ pending' = pending \union {c}
               /\ Goto(c, "log")
               /\ UNCHANGED <<result, answer, grants, raised, waitVars, cancelled,
                              turns, personVars, histVars>>

\* await's log.Append: from here on a client can know the id.
LogAsk(c) == /\ pc[c] = "log"
             /\ Goto(c, "raise")
             /\ UNCHANGED <<result, pending, answer, grants, raised, waitVars,
                            cancelled, turns, personVars, histVars>>

\* hub.Raise, under h.mu, whatever has become of the interaction meanwhile.
Raise(c) == /\ pc[c] = "raise"
            /\ raised' = raised \union {c}
            /\ Goto(c, "waitup")
            /\ UNCHANGED <<result, pending, answer, grants, waitVars, cancelled,
                           turns, personVars, histVars>>

\* addWait(1)'s count, under a.mu; the state it publishes follows outside.
WaitUp(c) == /\ pc[c] = "waitup"
             /\ waiting' = waiting + 1
             /\ Goto(c, "showwaiting")
             /\ UNCHANGED <<result, pending, answer, grants, raised, state, cancelled,
                            turns, personVars, histVars>>

ShowWaiting(c) == /\ pc[c] = "showwaiting"
                  /\ state' = "waiting"
                  /\ Goto(c, "parked")
                  /\ UNCHANGED <<result, pending, answer, grants, raised, waiting,
                                 cancelled, turns, personVars, histVars>>

Return(c, how, step) ==
  /\ pc[c] = "parked"
  /\ result' = [result EXCEPT ![c] = how]
  /\ Goto(c, step)
  /\ UNCHANGED <<pending, grants, raised, waitVars, cancelled, turns, personVars, histVars>>

\* await's select: any branch that is ready may be the one taken.
TakeAnswer(c) == /\ answer[c] # None
                 /\ Return(c, answer[c], "waitdown")
                 /\ answer' = [answer EXCEPT ![c] = None]
Timeout_OnlyUnasked(c) == /\ c \notin pending
                          /\ Return(c, "timeout", "forget")
                          /\ answer' = answer
Timeout(c) == /\ Return(c, "timeout", "forget")
              /\ answer' = answer
Cancelled(c) == /\ cancelled
                /\ Return(c, "cancelled", "forget")
                /\ answer' = answer

\* forget: g.pending under g.mu, then the hub.
Forget(c) == /\ pc[c] = "forget"
             /\ pending' = pending \ {c}
             /\ Goto(c, "lower")
             /\ UNCHANGED <<result, answer, grants, raised, waitVars, cancelled, turns,
                            personVars, histVars>>

Lower(c) == /\ pc[c] = "lower"
            /\ raised' = raised \ {c}
            /\ Goto(c, "waitdown")
            /\ UNCHANGED <<result, pending, answer, grants, waitVars, cancelled, turns,
                           personVars, histVars>>

WaitDown_Twice(c) == /\ pc[c] = "waitdown"
                     /\ waiting' = waiting - 2
                     /\ Goto(c, "showdown")
                     /\ UNCHANGED <<result, pending, answer, grants, raised, state, cancelled,
                                    turns, personVars, histVars>>

WaitDown_Skipped(c) == /\ pc[c] = "waitdown"
                       /\ Goto(c, "done")
                       /\ UNCHANGED <<result, pending, answer, grants, raised, waitVars,
                                      cancelled, turns, personVars, histVars>>

\* The deferred addWait(-1): the count, and what it will have the state say.
WaitDown(c) == /\ pc[c] = "waitdown"
               /\ waiting' = waiting - 1
               /\ Goto(c, IF waiting > 1 THEN "showup" ELSE "showdown")
               /\ UNCHANGED <<result, pending, answer, grants, raised, state, cancelled,
                              turns, personVars, histVars>>

ShowDown(c) == /\ pc[c] \in {"showup", "showdown"}
               /\ state' = IF pc[c] = "showup" THEN "waiting" ELSE "working"
               /\ Goto(c, "done")
               /\ UNCHANGED <<result, pending, answer, grants, raised, waiting, cancelled,
                              turns, personVars, histVars>>

Handler(c) == \/ Consume(c) \/ Register(c) \/ LogAsk(c) \/ Raise(c) \/ WaitUp(c)
              \/ ShowWaiting(c) \/ TakeAnswer(c) \/ Timeout(c) \/ Cancelled(c)
              \/ Forget(c) \/ Lower(c) \/ WaitDown(c) \/ ShowDown(c)

-----------------------------------------------------------------------------
(* The person.                                                             *)

ResolveTake_Keeps(c, d) ==
  /\ res[c] = "no"
  /\ c \in pending
  /\ pc[c] # "log"
  /\ LET batch == d = "batch" /\ ToolOf[c] # None
     IN  /\ grants' = IF batch THEN [grants EXCEPT ![ToolOf[c]] = @ + MaxUses] ELSE grants
         /\ given' = IF batch THEN [given EXCEPT ![ToolOf[c]] = @ + MaxUses] ELSE given
  /\ res' = [res EXCEPT ![c] = "lower"]
  /\ said' = [said EXCEPT ![c] = d]
  /\ early' = IF pc[c] = "raise" THEN early \union {c} ELSE early
  /\ UNCHANGED <<pc, result, pending, answer, raised, waitVars, cancelled, turns, revoke,
                 toDeny, spent>>

\* Resolve under g.mu, of an id a client has seen: the interaction is the
\* answer's, and a batch consent becomes a grant (applyScope).
ResolveTake(c, d) ==
  /\ res[c] = "no"
  /\ c \in pending
  /\ pc[c] # "log"
  /\ pending' = pending \ {c}
  /\ LET batch == d = "batch" /\ ToolOf[c] # None
     IN  /\ grants' = IF batch THEN [grants EXCEPT ![ToolOf[c]] = @ + MaxUses] ELSE grants
         /\ given' = IF batch THEN [given EXCEPT ![ToolOf[c]] = @ + MaxUses] ELSE given
  /\ res' = [res EXCEPT ![c] = "lower"]
  /\ said' = [said EXCEPT ![c] = d]
  /\ early' = IF pc[c] = "raise" THEN early \union {c} ELSE early
  /\ UNCHANGED <<pc, result, answer, raised, waitVars, cancelled, turns, revoke, toDeny, spent>>

\* Resolve's hub.Clear.
ResolveLower(c) == /\ res[c] = "lower"
                   /\ raised' = raised \ {c}
                   /\ res' = [res EXCEPT ![c] = "send"]
                   /\ UNCHANGED <<pc, result, pending, answer, grants, waitVars, cancelled,
                                  turns, said, revoke, toDeny, histVars>>

\* Resolve's send, and its true to the person.  The channel holds one value.
ResolveSend(c) == /\ res[c] = "send"
                  /\ answer[c] = None
                  /\ answer' = [answer EXCEPT ![c] = said[c]]
                  /\ res' = [res EXCEPT ![c] = "told"]
                  /\ UNCHANGED <<pc, result, pending, grants, raised, waitVars, cancelled,
                                 turns, said, revoke, toDeny, histVars>>

\* A grant runs out of time.
Expire(t) == /\ grants[t] > 0
             /\ grants' = [grants EXCEPT ![t] = 0]
             /\ UNCHANGED <<pc, result, pending, answer, raised, waitVars, cancelled, turns,
                            personVars, histVars>>

\* Interrupt calls RevokeAll, which under g.mu takes the grants and everything
\* pending.
Interrupt == /\ revoke = "no"
             /\ revoke' = "deny"
             /\ grants' = [t \in Tools |-> 0]
             /\ toDeny' = pending
             /\ pending' = {}
             /\ early' = early \union {c \in pending : pc[c] \in {"log", "raise"}}
             /\ UNCHANGED <<pc, result, answer, raised, waitVars, cancelled, turns, res,
                            said, given, spent>>

RevokeLower_LeavesHand(c) == /\ revoke = "deny"
                             /\ c \in toDeny
                             /\ revoke' = "send"
                             /\ said' = [said EXCEPT ![c] = "interrupted"]
                             /\ UNCHANGED <<pc, result, pending, answer, grants, raised,
                                            waitVars, cancelled, turns, res, toDeny, histVars>>

\* RevokeAll's loop: hub.Clear, then the send, for one interaction.
RevokeLower(c) == /\ revoke = "deny"
                  /\ c \in toDeny
                  /\ raised' = raised \ {c}
                  /\ revoke' = "send"
                  /\ toDeny' = toDeny
                  /\ said' = [said EXCEPT ![c] = "interrupted"]
                  /\ UNCHANGED <<pc, result, pending, answer, grants, waitVars, cancelled,
                                 turns, res, histVars>>

RevokeSend(c) == /\ revoke = "send"
                 /\ c \in toDeny
                 /\ said[c] = "interrupted"
                 /\ answer[c] = None
                 /\ answer' = [answer EXCEPT ![c] = "interrupted"]
                 /\ toDeny' = toDeny \ {c}
                 /\ revoke' = "deny"
                 /\ UNCHANGED <<pc, result, pending, grants, raised, waitVars, cancelled,
                                turns, res, said, histVars>>

\* Interrupt's second half, under a.mu: cancel the turn in flight, if any.
CancelTurn == /\ revoke = "deny"
              /\ toDeny = {}
              /\ revoke' = "no"
              /\ cancelled' = (state # "idle")
              /\ UNCHANGED <<pc, result, pending, answer, grants, raised, waitVars, turns,
                             res, said, toDeny, histVars>>

Person(c) == \/ ResolveLower(c) \/ ResolveSend(c) \/ RevokeLower(c) \/ RevokeSend(c)

Next == \/ BeginTurn \/ EndTurn \/ Interrupt \/ CancelTurn
        \/ \E c \in Calls : Call(c) \/ Handler(c) \/ Person(c)
        \/ \E c \in Calls, d \in Decisions : ResolveTake(c, d)
        \/ \E t \in Tools : Expire(t)

Spec == Init /\ [][Next]_vars

\* Handlers run and their timers fire; whoever has begun to answer or to
\* interrupt goes on.  Nobody has to answer.
FairSpec == /\ Spec
            /\ \A c \in Calls : WF_vars(Handler(c)) /\ WF_vars(Person(c))
            /\ WF_vars(CancelTurn)

-----------------------------------------------------------------------------
(* Properties.                                                             *)

\* Every variable keeps its type.
TypeOK ==
  /\ pc \in [Calls -> Steps]
  /\ result \in [Calls -> Outcomes \union {None}]
  /\ pending \subseteq Calls
  /\ answer \in [Calls -> Decisions \union {"interrupted", None}]
  /\ grants \in [Tools -> Nat]
  /\ raised \subseteq Calls
  /\ waiting \in 0..Cardinality(Calls)
  /\ state \in {"idle", "working", "waiting"}
  /\ cancelled \in BOOLEAN
  /\ turns \in 0..MaxTurns
  /\ res \in [Calls -> {"no", "lower", "send", "told"}]
  /\ said \in [Calls -> Decisions \union {"interrupted", None}]
  /\ revoke \in {"no", "deny", "send"}
  /\ toDeny \subseteq Calls
  /\ given \in [Tools -> Nat]
  /\ early \subseteq Calls
  /\ spent \in [Tools -> Nat]

\* A Resolve and an Interrupt never both answer one call: its channel holds one
\* value, and the second sender would hang (Resolve, RevokeAll, register).
OneAnswerer ==
  \A c \in Calls :
    LET owners == (IF c \in pending THEN 1 ELSE 0)
                  + (IF res[c] \in {"lower", "send"} THEN 1 ELSE 0)
                  + (IF c \in toDeny THEN 1 ELSE 0)
    IN  owners =< 1 /\ (answer[c] # None => owners = 0)

\* A batch consent lets through no more calls than it says, whatever handlers
\* run at once (consume).
GrantNotOverspent == \A t \in Tools : spent[t] + grants[t] =< given[t]

\* The calls counted as waiting are those between the two addWait calls, so
\* the count is back at zero when they are all done (await's defer).
WaitsBalance ==
  waiting = Cardinality({c \in Calls : pc[c] \in {"showwaiting", "parked", "forget",
                                                   "lower", "waitdown"}})

\* A hand that is up can still be answered, or is being taken down, unless it
\* went up after its answer (await, Resolve, RevokeAll, forget).
HandIsLive ==
  \A c \in raised \ early : \/ c \in pending \union toDeny
                            \/ res[c] = "lower"
                            \/ pc[c] = "lower"

\* Nobody waits for a person for ever: a call that asked comes back.
EveryAskEnds == \A c \in Calls : (pc[c] = "register") ~> (pc[c] = "done")

-----------------------------------------------------------------------------
(* What comments of the source say, and the code does not do.              *)

\* Every exit from a wait takes the card down: no hand is up for a call whose
\* handler has returned.
NoDeadCard == \A c \in raised : pc[c] # "done"

\* An answer that Resolve reported as delivered is what the call got.
AnswerHonoured == \A c \in Calls : pc[c] = "done" /\ res[c] = "told" => result[c] = said[c]

\* Once the handlers have published what they counted, the state says
\* "waiting" exactly while somebody is waited for.
StateShowsWaiting ==
  (\A c \in Calls : pc[c] \in {"idle", "parked", "done"}) /\ state # "idle"
     => (state = "waiting" <=> waiting > 0)

\* When Interrupt returns, no consent given for the interrupted work is left.
ConsentNotCarried == [][CancelTurn => \A t \in Tools : grants[t] = 0]_vars
=============================================================================
