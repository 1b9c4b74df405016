----------------------------- MODULE FeedProofs -----------------------------
(***************************************************************************)
(* The approval gate and the feed of its asks, for any number of calls,    *)
(* tools, uses, turns and connections.  First Gate on its own: at most one *)
(* answer is on its way to a call, a grant is not overspent, a raised hand *)
(* can be answered or is being lowered, and the count of waits is exact.   *)
(* Then Feed, each of whose steps is one of Gate's or leaves it alone, so  *)
(* that all of this holds there too, and with it that consent is pressed   *)
(* and what the app shows as approved was approved.                        *)
(***************************************************************************)
EXTENDS Feed, FiniteSetTheorems, TLAPS

\* The types, without the bound of the count of waits.
GateTypes ==
  /\ pc \in [Calls -> Steps]
  /\ result \in [Calls -> Outcomes \union {None}]
  /\ pending \subseteq Calls
  /\ answer \in [Calls -> Decisions \union {"interrupted", None}]
  /\ grants \in [Tools -> Nat]
  /\ raised \subseteq Calls
  /\ state \in {"idle", "working", "waiting"}
  /\ cancelled \in BOOLEAN
  /\ turns \in 0..MaxTurns
  /\ res \in [Calls -> {"no", "lower", "send", "told"}]
  /\ said \in [Calls -> Decisions \union {"interrupted", None}]
  /\ revoke \in {"no", "deny", "send"}
  /\ toDeny \subseteq Calls
  /\ given \in [Tools -> Nat]
  /\ early \subseteq Calls
  /\ spent \in [Tools -> Nat]

\* A call that has not registered has no interaction that anyone could answer,
\* and no answer (register hands out the id).
Unasked == {"idle", "consume", "register"}
UnaskedIsUntouched ==
  \A c \in Calls : pc[c] \in Unasked =>
    /\ c \notin pending \union toDeny \union raised
    /\ res[c] = "no"
    /\ said[c] = None
    /\ answer[c] = None

\* Only a call of a gated tool looks for a grant.
ConsumesATool == \A c \in Calls : pc[c] = "consume" => ToolOf[c] \in Tools

\* Whoever takes an interaction out of g.pending alone answers it.
TakenOnce ==
  \A c \in Calls :
    /\ c \in pending => c \notin toDeny /\ res[c] = "no" /\ said[c] = None
    /\ c \in toDeny => res[c] = "no"
    /\ res[c] # "no" => said[c] \in Decisions
    /\ answer[c] # None => c \notin pending \union toDeny /\ res[c] \in {"no", "told"}

\* RevokeAll denies all it took before it returns.
DeniesAll == revoke = "no" => toDeny = {}

\* A hand about to go up is that of a pending call, or one answered before.
PendingUntilUp == \A c \in Calls : pc[c] \in {"log", "raise"} => c \in pending \union early

\* An interaction RevokeAll is about to send to has had its hand lowered.
LoweredFirst ==
  \A c \in Calls : c \in toDeny /\ said[c] = "interrupted" => c \notin raised \ early

GateInv ==
  /\ GateTypes
  /\ UnaskedIsUntouched
  /\ ConsumesATool
  /\ TakenOnce
  /\ DeniesAll
  /\ PendingUntilUp
  /\ LoweredFirst
  /\ HandIsLive
  /\ GrantNotOverspent

-----------------------------------------------------------------------------
(* Gate.                                                                   *)

\* A gate before its first turn.
LEMMA GateInit == Init => GateInv
<1> SUFFICES ASSUME Init PROVE GateInv
  OBVIOUS
<1> USE GateAssumption DEF Init
<1>1. GateTypes
  <2>1. cancelled \in BOOLEAN
    OBVIOUS
  <2>2. turns \in 0..MaxTurns
    OBVIOUS
  <2> QED
    BY <2>1, <2>2 DEF GateTypes, Steps
<1>2. UnaskedIsUntouched /\ ConsumesATool /\ TakenOnce /\ DeniesAll
  BY DEF UnaskedIsUntouched, ConsumesATool, TakenOnce, DeniesAll
<1>3. PendingUntilUp /\ LoweredFirst /\ HandIsLive /\ GrantNotOverspent
  BY DEF PendingUntilUp, LoweredFirst, HandIsLive, GrantNotOverspent
<1> QED
  BY <1>1, <1>2, <1>3 DEF GateInv

\* Every action of the gate writes values of the variables' types.
LEMMA TypesStep == GateInv /\ [Next]_vars => GateTypes'
<1> SUFFICES ASSUME GateTypes, ConsumesATool, [Next]_vars PROVE GateTypes'
  BY DEF GateInv
<1> USE GateAssumption
<1> USE DEF GateTypes, ConsumesATool, Steps, Outcomes, Decisions, Goto, Return,
            waitVars, personVars, histVars
<1>1. CASE BeginTurn
  <2>1. cancelled' \in BOOLEAN
    BY <1>1 DEF BeginTurn
  <2>2. turns' \in 0..MaxTurns
    BY <1>1 DEF BeginTurn
  <2> QED
    BY <1>1, <2>1, <2>2 DEF BeginTurn
<1>2. CASE EndTurn
  BY <1>2 DEF EndTurn
<1>3. CASE Interrupt
  BY <1>3 DEF Interrupt
<1>4. CASE CancelTurn
  BY <1>4 DEF CancelTurn
<1>5. ASSUME NEW c \in Calls, Call(c) PROVE GateTypes'
  BY <1>5 DEF Call
<1>6. ASSUME NEW c \in Calls, Consume(c) PROVE GateTypes'
  BY <1>6 DEF Consume
<1>7. ASSUME NEW c \in Calls, Register(c) PROVE GateTypes'
  BY <1>7 DEF Register
<1>8. ASSUME NEW c \in Calls, LogAsk(c) PROVE GateTypes'
  BY <1>8 DEF LogAsk
<1>9. ASSUME NEW c \in Calls, Raise(c) PROVE GateTypes'
  BY <1>9 DEF Raise
<1>10. ASSUME NEW c \in Calls, WaitUp(c) PROVE GateTypes'
  BY <1>10 DEF WaitUp
<1>11. ASSUME NEW c \in Calls, ShowWaiting(c) PROVE GateTypes'
  BY <1>11 DEF ShowWaiting
<1>12. ASSUME NEW c \in Calls, TakeAnswer(c) PROVE GateTypes'
  BY <1>12 DEF TakeAnswer
<1>13. ASSUME NEW c \in Calls, Timeout(c) PROVE GateTypes'
  BY <1>13 DEF Timeout
<1>14. ASSUME NEW c \in Calls, Cancelled(c) PROVE GateTypes'
  BY <1>14 DEF Cancelled
<1>15. ASSUME NEW c \in Calls, Forget(c) PROVE GateTypes'
  BY <1>15 DEF Forget
<1>16. ASSUME NEW c \in Calls, Lower(c) PROVE GateTypes'
  BY <1>16 DEF Lower
<1>17. ASSUME NEW c \in Calls, WaitDown(c) PROVE GateTypes'
  BY <1>17 DEF WaitDown
<1>18. ASSUME NEW c \in Calls, ShowDown(c) PROVE GateTypes'
  BY <1>18 DEF ShowDown
<1>19. ASSUME NEW c \in Calls, ResolveLower(c) PROVE GateTypes'
  BY <1>19 DEF ResolveLower
<1>20. ASSUME NEW c \in Calls, ResolveSend(c) PROVE GateTypes'
  BY <1>20 DEF ResolveSend
<1>21. ASSUME NEW c \in Calls, RevokeLower(c) PROVE GateTypes'
  BY <1>21 DEF RevokeLower
<1>22. ASSUME NEW c \in Calls, RevokeSend(c) PROVE GateTypes'
  BY <1>22 DEF RevokeSend
<1>23. ASSUME NEW c \in Calls, NEW d \in Decisions, ResolveTake(c, d) PROVE GateTypes'
  BY <1>23 DEF ResolveTake
<1>24. ASSUME NEW t \in Tools, Expire(t) PROVE GateTypes'
  BY <1>24 DEF Expire
<1>25. CASE UNCHANGED vars
  BY <1>25 DEF vars
<1> QED
  BY <1>1, <1>2, <1>3, <1>4, <1>5, <1>6, <1>7, <1>8, <1>9, <1>10, <1>11, <1>12,
     <1>13, <1>14, <1>15, <1>16, <1>17, <1>18, <1>19, <1>20, <1>21, <1>22, <1>23,
     <1>24, <1>25
     DEF Next, Handler, Person

\* Whatever the order in which handlers register and give up, a person answers
\* and an interrupt takes everything pending, one of them answers a call.
LEMMA OwnersStep ==
  GateInv /\ [Next]_vars => (UnaskedIsUntouched /\ ConsumesATool /\ TakenOnce /\ DeniesAll)'
<1> DEFINE Owners == UnaskedIsUntouched /\ ConsumesATool /\ TakenOnce /\ DeniesAll
<1> SUFFICES ASSUME GateTypes, Owners, [Next]_vars PROVE Owners'
  BY DEF GateInv
<1> USE GateAssumption
<1> USE DEF GateTypes, UnaskedIsUntouched, ConsumesATool, TakenOnce, DeniesAll, Unasked,
            Steps, Decisions, Goto, Return, waitVars, personVars, histVars
<1>1. CASE BeginTurn \/ EndTurn
  BY <1>1 DEF BeginTurn, EndTurn
<1>2. CASE Interrupt
  BY <1>2 DEF Interrupt
<1>3. CASE CancelTurn
  BY <1>3 DEF CancelTurn
<1>4. ASSUME NEW c \in Calls, Call(c) PROVE Owners'
  BY <1>4 DEF Call
<1>5. ASSUME NEW c \in Calls, Consume(c) PROVE Owners'
  BY <1>5 DEF Consume
<1>6. ASSUME NEW c \in Calls, Register(c) PROVE Owners'
  BY <1>6 DEF Register
<1>7. ASSUME NEW c \in Calls, LogAsk(c) PROVE Owners'
  BY <1>7 DEF LogAsk
<1>8. ASSUME NEW c \in Calls, Raise(c) PROVE Owners'
  BY <1>8 DEF Raise
<1>9. ASSUME NEW c \in Calls, WaitUp(c) PROVE Owners'
  BY <1>9 DEF WaitUp
<1>10. ASSUME NEW c \in Calls, ShowWaiting(c) PROVE Owners'
  BY <1>10 DEF ShowWaiting
<1>11. ASSUME NEW c \in Calls, TakeAnswer(c) PROVE Owners'
  BY <1>11 DEF TakeAnswer
<1>12. ASSUME NEW c \in Calls, Timeout(c) PROVE Owners'
  BY <1>12 DEF Timeout
<1>13. ASSUME NEW c \in Calls, Cancelled(c) PROVE Owners'
  BY <1>13 DEF Cancelled
<1>14. ASSUME NEW c \in Calls, Forget(c) PROVE Owners'
  BY <1>14 DEF Forget
<1>15. ASSUME NEW c \in Calls, Lower(c) PROVE Owners'
  BY <1>15 DEF Lower
<1>16. ASSUME NEW c \in Calls, WaitDown(c) PROVE Owners'
  BY <1>16 DEF WaitDown
<1>17. ASSUME NEW c \in Calls, ShowDown(c) PROVE Owners'
  BY <1>17 DEF ShowDown
<1>18. ASSUME NEW c \in Calls, ResolveLower(c) PROVE Owners'
  BY <1>18 DEF ResolveLower
<1>19. ASSUME NEW c \in Calls, ResolveSend(c) PROVE Owners'
  BY <1>19 DEF ResolveSend
<1>20. ASSUME NEW c \in Calls, RevokeLower(c) PROVE Owners'
  BY <1>20 DEF RevokeLower
<1>21. ASSUME NEW c \in Calls, RevokeSend(c) PROVE Owners'
  BY <1>21 DEF RevokeSend
<1>22. ASSUME NEW c \in Calls, NEW d \in Decisions, ResolveTake(c, d) PROVE Owners'
  BY <1>22 DEF ResolveTake
<1>23. ASSUME NEW t \in Tools, Expire(t) PROVE Owners'
  BY <1>23 DEF Expire
<1>24. CASE UNCHANGED vars
  BY <1>24 DEF vars
<1> QED
  BY <1>1, <1>2, <1>3, <1>4, <1>5, <1>6, <1>7, <1>8, <1>9, <1>10, <1>11, <1>12,
     <1>13, <1>14, <1>15, <1>16, <1>17, <1>18, <1>19, <1>20, <1>21, <1>22, <1>23,
     <1>24
     DEF Next, Handler, Person

\* A hand goes up for a call that is pending, or was answered before, and every
\* way an interaction ends lowers it.
LEMMA HandsStep ==
  GateInv /\ [Next]_vars => (PendingUntilUp /\ LoweredFirst /\ HandIsLive)'
<1> DEFINE Lowered == PendingUntilUp /\ LoweredFirst /\ HandIsLive
<1> SUFFICES ASSUME GateTypes, UnaskedIsUntouched, TakenOnce, DeniesAll, Lowered, [Next]_vars
             PROVE  Lowered'
  BY DEF GateInv
<1> USE GateAssumption
<1> USE DEF GateTypes, PendingUntilUp, LoweredFirst, HandIsLive, UnaskedIsUntouched, TakenOnce,
            DeniesAll, Unasked, Steps, Decisions, Goto, Return, waitVars, personVars, histVars
<1>1. CASE BeginTurn \/ EndTurn
  BY <1>1 DEF BeginTurn, EndTurn
<1>2. CASE Interrupt
  <2>1. \A c \in Calls : c \in pending => c \in toDeny' /\ said'[c] = None
    BY <1>2 DEF Interrupt
  <2>2. \A c \in Calls : pc[c] \in {"log", "raise"} => c \in early'
    BY <1>2 DEF Interrupt
  <2>3. \A c \in Calls : c \in early => c \in early'
    BY <1>2 DEF Interrupt
  <2>4. PendingUntilUp'
    BY <1>2, <2>2 DEF Interrupt
  <2>5. LoweredFirst'
    BY <1>2, <2>1 DEF Interrupt, Outcomes
  <2>6. HandIsLive'
    BY <1>2, <2>1, <2>3 DEF Interrupt
  <2> QED
    BY <2>4, <2>5, <2>6
<1>3. CASE CancelTurn
  BY <1>3 DEF CancelTurn
<1>4. ASSUME NEW c \in Calls, Call(c) PROVE Lowered'
  BY <1>4 DEF Call
<1>5. ASSUME NEW c \in Calls, Consume(c) PROVE Lowered'
  BY <1>5 DEF Consume
<1>6. ASSUME NEW c \in Calls, Register(c) PROVE Lowered'
  BY <1>6 DEF Register
<1>7. ASSUME NEW c \in Calls, LogAsk(c) PROVE Lowered'
  BY <1>7 DEF LogAsk
<1>8. ASSUME NEW c \in Calls, Raise(c) PROVE Lowered'
  BY <1>8 DEF Raise
<1>9. ASSUME NEW c \in Calls, WaitUp(c) PROVE Lowered'
  BY <1>9 DEF WaitUp
<1>10. ASSUME NEW c \in Calls, ShowWaiting(c) PROVE Lowered'
  BY <1>10 DEF ShowWaiting
<1>11. ASSUME NEW c \in Calls, TakeAnswer(c) PROVE Lowered'
  BY <1>11 DEF TakeAnswer
<1>12. ASSUME NEW c \in Calls, Timeout(c) PROVE Lowered'
  BY <1>12 DEF Timeout
<1>13. ASSUME NEW c \in Calls, Cancelled(c) PROVE Lowered'
  BY <1>13 DEF Cancelled
<1>14. ASSUME NEW c \in Calls, Forget(c) PROVE Lowered'
  BY <1>14 DEF Forget
<1>15. ASSUME NEW c \in Calls, Lower(c) PROVE Lowered'
  BY <1>15 DEF Lower
<1>16. ASSUME NEW c \in Calls, WaitDown(c) PROVE Lowered'
  BY <1>16 DEF WaitDown
<1>17. ASSUME NEW c \in Calls, ShowDown(c) PROVE Lowered'
  BY <1>17 DEF ShowDown
<1>18. ASSUME NEW c \in Calls, ResolveLower(c) PROVE Lowered'
  BY <1>18 DEF ResolveLower
<1>19. ASSUME NEW c \in Calls, ResolveSend(c) PROVE Lowered'
  BY <1>19 DEF ResolveSend
<1>20. ASSUME NEW c \in Calls, RevokeLower(c) PROVE Lowered'
  BY <1>20 DEF RevokeLower
<1>21. ASSUME NEW c \in Calls, RevokeSend(c) PROVE Lowered'
  BY <1>21 DEF RevokeSend
<1>22. ASSUME NEW c \in Calls, NEW d \in Decisions, ResolveTake(c, d) PROVE Lowered'
  BY <1>22 DEF ResolveTake
<1>23. ASSUME NEW t \in Tools, Expire(t) PROVE Lowered'
  BY <1>23 DEF Expire
<1>24. CASE UNCHANGED vars
  BY <1>24 DEF vars
<1> QED
  BY <1>1, <1>2, <1>3, <1>4, <1>5, <1>6, <1>7, <1>8, <1>9, <1>10, <1>11, <1>12,
     <1>13, <1>14, <1>15, <1>16, <1>17, <1>18, <1>19, <1>20, <1>21, <1>22, <1>23,
     <1>24
     DEF Next, Handler, Person

\* Uses move from given to grants by a consent, and from grants to spent one at
\* a time; expiry and an interrupt only take them away.
LEMMA GrantsStep == GateInv /\ [Next]_vars => GrantNotOverspent'
<1> SUFFICES ASSUME GateTypes, ConsumesATool, GrantNotOverspent, [Next]_vars
             PROVE  GrantNotOverspent'
  BY DEF GateInv
<1> USE GateAssumption
<1> USE DEF GateTypes, ConsumesATool, GrantNotOverspent, Goto, Return, waitVars, personVars,
            histVars
<1>1. CASE BeginTurn \/ EndTurn \/ CancelTurn
  BY <1>1 DEF BeginTurn, EndTurn, CancelTurn
<1>2. CASE Interrupt
  BY <1>2 DEF Interrupt
<1>3. ASSUME NEW c \in Calls, Consume(c) PROVE GrantNotOverspent'
  BY <1>3 DEF Consume
<1>4. ASSUME NEW c \in Calls,
         \/ Call(c) \/ Register(c) \/ LogAsk(c) \/ Raise(c) \/ WaitUp(c)
         \/ ShowWaiting(c) \/ TakeAnswer(c) \/ Timeout(c) \/ Cancelled(c) \/ Forget(c)
         \/ Lower(c) \/ WaitDown(c) \/ ShowDown(c) \/ ResolveLower(c) \/ ResolveSend(c)
         \/ RevokeLower(c) \/ RevokeSend(c)
      PROVE  GrantNotOverspent'
  BY <1>4 DEF Call, Register, LogAsk, Raise, WaitUp, ShowWaiting, TakeAnswer, Timeout,
              Cancelled, Forget, Lower, WaitDown, ShowDown, ResolveLower, ResolveSend, RevokeLower, RevokeSend
<1>5. ASSUME NEW c \in Calls, NEW d \in Decisions, ResolveTake(c, d) PROVE GrantNotOverspent'
  BY <1>5 DEF ResolveTake
<1>6. ASSUME NEW t \in Tools, Expire(t) PROVE GrantNotOverspent'
  BY <1>6 DEF Expire
<1>7. CASE UNCHANGED vars
  BY <1>7 DEF vars
<1> QED
  BY <1>1, <1>2, <1>3, <1>4, <1>5, <1>6, <1>7
     DEF Next, Handler, Person

\* Every step of a handler, a person, a timer or an interrupt.
LEMMA GateStep == GateInv /\ [Next]_vars => GateInv'
<1> SUFFICES ASSUME GateInv, [Next]_vars PROVE GateInv'
  OBVIOUS
<1> QED
  BY TypesStep, OwnersStep, HandsStep, GrantsStep DEF GateInv

\* A call between its two addWait calls.
Counted == {"showwaiting", "parked", "forget", "lower", "waitdown"}

\* addWait's count follows the handlers between its two calls.
LEMMA WaitsStep ==
  ASSUME GateTypes, WaitsBalance, [Next]_vars
  PROVE  WaitsBalance'
<1> DEFINE Waits == {c \in Calls : pc[c] \in Counted}
<1>1. IsFiniteSet(Waits)
  BY GateAssumption, FS_Subset
<1>2. waiting = Cardinality(Waits) /\ waiting \in Nat
  BY <1>1, FS_CardinalityType DEF WaitsBalance, Counted
<1>3. ASSUME NEW c \in Calls, WaitUp(c) PROVE waiting' = Cardinality(Waits')
  <2>1. Waits' = Waits \union {c} /\ c \notin Waits
    BY <1>3 DEF WaitUp, Goto, GateTypes, Counted
  <2>2. waiting' = waiting + 1
    BY <1>3 DEF WaitUp
  <2> QED
    BY <1>1, <1>2, <2>1, <2>2, FS_AddElement
<1>4. ASSUME NEW c \in Calls, WaitDown(c) PROVE waiting' = Cardinality(Waits')
  <2>1. Waits' = Waits \ {c} /\ c \in Waits
    BY <1>4 DEF WaitDown, Goto, GateTypes, Counted
  <2>2. waiting' = waiting - 1
    BY <1>4 DEF WaitDown
  <2> QED
    BY <1>1, <1>2, <2>1, <2>2, FS_RemoveElement
<1>5. ASSUME NEW c \in Calls,
         \/ Call(c) \/ Consume(c) \/ Register(c) \/ LogAsk(c) \/ Raise(c) \/ ShowWaiting(c)
         \/ TakeAnswer(c) \/ Timeout(c) \/ Cancelled(c) \/ Forget(c) \/ Lower(c) \/ ShowDown(c)
      PROVE waiting' = Cardinality(Waits')
  <2>1. Waits' = Waits
    BY <1>5 DEF Call, Consume, Register, LogAsk, Raise, ShowWaiting, TakeAnswer, Timeout,
                Cancelled, Forget, Lower, ShowDown, Return, Goto, GateTypes, Counted
  <2>2. waiting' = waiting
    BY <1>5 DEF Call, Consume, Register, LogAsk, Raise, ShowWaiting, TakeAnswer, Timeout,
                Cancelled, Forget, Lower, ShowDown, Return, waitVars
  <2> QED
    BY <1>2, <2>1, <2>2
<1>6. ASSUME UNCHANGED <<pc, waiting>> PROVE waiting' = Cardinality(Waits')
  <2>1. Waits' = Waits
    BY <1>6
  <2> QED
    BY <1>2, <1>6, <2>1
<1>7. waiting' = Cardinality(Waits')
  <2>1. UNCHANGED <<pc, waiting>> \/ \E c \in Calls : Call(c) \/ Handler(c)
    BY DEF Next, vars, waitVars, BeginTurn, EndTurn, Interrupt, CancelTurn, Person,
           ResolveLower, ResolveSend, RevokeLower, RevokeSend, ResolveTake, Expire
  <2> HIDE DEF Waits
  <2>2. CASE \E c \in Calls : Call(c) \/ Handler(c)
    BY <1>3, <1>4, <1>5, <2>2 DEF Handler
  <2> QED
    BY <1>6, <2>1, <2>2
<1> QED
  BY <1>7 DEF WaitsBalance, Counted

\* GateInv and the exact count of waits hold throughout.
LEMMA GateAlways == Spec => [](GateInv /\ WaitsBalance)
<1>1. Init => WaitsBalance
  <2> SUFFICES ASSUME Init PROVE WaitsBalance
    OBVIOUS
  <2>1. {c \in Calls : pc[c] \in {"showwaiting", "parked", "forget", "lower", "waitdown"}} = {}
    BY DEF Init
  <2> QED
    BY <2>1, FS_EmptySet DEF Init, WaitsBalance
<1>2. GateInv /\ WaitsBalance /\ [Next]_vars => GateInv' /\ WaitsBalance'
  BY GateStep, WaitsStep DEF GateInv
<1> QED
  BY <1>1, <1>2, GateInit, PTL DEF Spec

\* Every variable of the gate keeps its type; the count of waits, which addWait
\* moves up and down from many handlers, never leaves 0..Cardinality(Calls).
THEOREM GateTypeCorrect == Spec => []TypeOK
<1>1. GateInv /\ WaitsBalance => TypeOK
  <2> SUFFICES ASSUME GateInv, WaitsBalance PROVE TypeOK
    OBVIOUS
  <2> DEFINE Waits == {c \in Calls : pc[c] \in Counted}
  <2>1. Cardinality(Waits) \in 0..Cardinality(Calls)
    BY GateAssumption, FS_Subset, FS_CardinalityType
  <2> QED
    BY <2>1 DEF GateInv, GateTypes, WaitsBalance, TypeOK, Counted
<1> QED
  BY <1>1, GateAlways, PTL

\* A Resolve and an Interrupt never both answer one call, whatever number of
\* handlers, answers and interrupts is under way (Resolve, RevokeAll).
THEOREM AnsweredOnce == Spec => []OneAnswerer
<1>1. GateInv => OneAnswerer
  BY DEF GateInv, GateTypes, TakenOnce, OneAnswerer
<1> QED
  BY <1>1, GateAlways, PTL

\* However many handlers spend a batch consent at once, they spend no more uses
\* than were given (consume, applyScope).
THEOREM GrantsAreKept == Spec => []GrantNotOverspent
<1>1. GateInv => GrantNotOverspent
  BY DEF GateInv
<1> QED
  BY <1>1, GateAlways, PTL

\* A hand that is up is that of an ask somebody can still answer, or is being
\* lowered, or went up after its answer (await, Resolve, RevokeAll, forget).
THEOREM RaisedHandsAreLive == Spec => []HandIsLive
<1>1. GateInv => HandIsLive
  BY DEF GateInv
<1> QED
  BY <1>1, GateAlways, PTL

-----------------------------------------------------------------------------
(* Feed.                                                                   *)

\* What the log, the feed and the app hold.
Events == [type : {"ask"}, call : Calls]
            \union [type : {"decision"}, call : Calls, decision : Decisions]
FeedTypes ==
  /\ log \in Seq(Events)
  /\ last \in Nat
  /\ cursor \in Nat \union {-1}
  /\ cursor =< Len(log)
  /\ last =< Len(log)
  /\ shown \subseteq Calls
  /\ card \in [Calls -> {"none", "live"} \union Verdicts]
  /\ pressed \subseteq Calls

\* An approving word for a gated call, wherever it has got to, was pressed.
Approving == {"allow", "batch"}
PressedFirst ==
  \A c \in Calls :
    ToolOf[c] # None /\ (said[c] \in Approving \/ answer[c] \in Approving \/ result[c] \in Approving)
      => c \in pressed

\* A decision in the log is what its Resolve said, and that Resolve is over.
LogTruthful ==
  \A e \in ToSet(log) : e.type = "decision" => res[e.call] = "told" /\ said[e.call] = e.decision

\* So is the decision an approved card shows.
CardTruthful ==
  \A c \in Calls : card[c] = "approved" => res[c] = "told" /\ said[c] \in Approving

FeedInv == GateInv /\ FeedTypes /\ PressedFirst /\ LogTruthful /\ CardTruthful


-----------------------------------------------------------------------------
(* What a button, a verdict or typed words become.                         *)

\* A tap in the app decides something the guest knows, and lets a gated call
\* through only with the verdict "approved" (decisionBody, normalise).
LEMMA TapDecides ==
  ASSUME NEW kind \in AskKinds, NEW verdict, NEW words, decisionBody(kind, verdict, words) # NoBody
  PROVE  /\ normalise(decisionBody(kind, verdict, words)) \in Decisions
         /\ kind = "approval" /\ normalise(decisionBody(kind, verdict, words)) \in Approving
              => verdict = "approved"
<1> DEFINE body == decisionBody(kind, verdict, words)
<1> USE DEF NoBody, Deciding, Answering, Decisions, Approving
<1>1. verdict \in Verdicts
  BY DEF decisionBody
<1>2. body = IF verdict = "denied" THEN denyBody(kind) ELSE allowBody(kind, words)
  BY DEF decisionBody
<1>3. normalise(denyBody(kind)) \in Decisions
  BY DEF denyBody, normalise, AskKinds, QuestionKinds
<1>4. kind = "approval" => normalise(denyBody(kind)) = "deny"
  BY DEF denyBody, normalise
<1>5. allowBody(kind, words) # NoBody => normalise(allowBody(kind, words)) = "allow"
  BY AnswersAssumption DEF allowBody, normalise, AskKinds, QuestionKinds
<1> QED
  BY <1>1, <1>2, <1>3, <1>4, <1>5 DEF Verdicts

\* What the guest makes of each body a card can carry (normalise, applyScope).
LEMMA BodiesMean ==
  /\ normalise(Deciding("allow")) = "allow"
  /\ normalise([Deciding("allow") EXCEPT !.batch = TRUE]) = "batch"
  /\ normalise(Deciding("deny")) = "deny"
  /\ \A a : a # "" => normalise(Answering(a)) = "allow"
<1>1. normalise(Deciding("allow")) = "allow"
  BY DEF normalise, Deciding
<1>2. normalise([Deciding("allow") EXCEPT !.batch = TRUE]) = "batch"
  BY DEF normalise, Deciding
<1>3. normalise(Deciding("deny")) = "deny"
  BY DEF normalise, Deciding
<1>4. ASSUME NEW a, a # "" PROVE normalise(Answering(a)) = "allow"
  BY <1>4 DEF normalise, Answering
<1> QED
  BY <1>1, <1>2, <1>3, <1>4

\* So does an option of the operator's page, and only "once" and "batch" let a
\* gated call through (Pending.Body, buildPending, normalise).
LEMMA PressDecides ==
  ASSUME NEW kind \in AskKinds, NEW option, NEW words, Body(kind, option, words) # NoBody
  PROVE  /\ normalise(Body(kind, option, words)) \in Decisions
         /\ kind = "approval" /\ normalise(Body(kind, option, words)) \in Approving
              => option \in {"once", "batch"}
<1> DEFINE body == Body(kind, option, words)
<1>1. CASE option = freeText
  BY <1>1, BodiesMean DEF Body, cardKind, Decisions, Approving
<1>2. CASE option # freeText
  <2>1. body = bodies(kind)[option]
    BY <1>2 DEF Body
  <2>2. option \in DOMAIN bodies(kind)
    BY <1>2 DEF Body
  <2>3. CASE kind = "approval"
    <3>1. bodies(kind) = [once |-> Deciding("allow"),
                          batch |-> [Deciding("allow") EXCEPT !.batch = TRUE],
                          deny |-> Deciding("deny")]
      BY <2>3 DEF bodies, cardKind
    <3>2. ASSUME option = "once" PROVE body = Deciding("allow")
      BY <2>1, <3>1, <3>2
    <3>3. ASSUME option = "batch" PROVE body = [Deciding("allow") EXCEPT !.batch = TRUE]
      BY <2>1, <3>1, <3>3
    <3>4. ASSUME option = "deny" PROVE body = Deciding("deny")
      BY <2>1, <3>1, <3>4
    <3>5. option \in {"once", "batch", "deny"}
      BY <2>2, <3>1
    <3> QED
      BY <2>3, <3>2, <3>3, <3>4, <3>5, BodiesMean DEF Decisions, Approving
  <2>4. CASE kind = "confirm"
    <3>1. bodies(kind) = [yes |-> Answering("yes"), no |-> Answering("no")]
      BY <2>4 DEF bodies, cardKind
    <3>2. ASSUME option = "yes" PROVE body = Answering("yes")
      BY <2>1, <3>1, <3>2
    <3>3. ASSUME option = "no" PROVE body = Answering("no")
      BY <2>1, <3>1, <3>3
    <3>4. option \in {"yes", "no"}
      BY <2>2, <3>1
    <3>5. normalise(body) = "allow"
      BY <3>2, <3>3, <3>4, BodiesMean
    <3> QED
      BY <2>4, <3>5 DEF Decisions
  <2>5. CASE kind = "choice"
    <3>1. bodies(kind) = [c \in Offers |-> Answering(c)]
      BY <2>5 DEF bodies, cardKind
    <3>2. option \in Offers /\ body = Answering(option)
      BY <2>1, <2>2, <3>1
    <3>3. option # ""
      BY <3>2, AnswersAssumption
    <3> QED
      BY <2>5, <3>2, <3>3, BodiesMean DEF Decisions, Approving
  <2>6. CASE kind = "handoff"
    <3>1. bodies(kind) = [done |-> Answering("done"), cancel |-> Answering(notNow)]
      BY <2>6 DEF bodies, cardKind
    <3>2. ASSUME option = "done" PROVE body = Answering("done")
      BY <2>1, <3>1, <3>2
    <3>3. ASSUME option = "cancel" PROVE body = Answering(notNow)
      BY <2>1, <3>1, <3>3
    <3>4. option \in {"done", "cancel"}
      BY <2>2, <3>1
    <3>5. notNow # ""
      BY DEF notNow
    <3>6. normalise(body) = "allow"
      BY <3>2, <3>3, <3>4, <3>5, BodiesMean
    <3> QED
      BY <2>6, <3>6 DEF Decisions
  <2>7. CASE kind \in {"connect", "text"}
    <3>1. bodies(kind) = [skip |-> Deciding("deny")]
      BY <2>7 DEF bodies, cardKind
    <3>2. ASSUME option = "skip" PROVE body = Deciding("deny")
      BY <2>1, <3>1, <3>2
    <3>3. option \in {"skip"}
      BY <2>2, <3>1
    <3> QED
      BY <2>7, <3>2, <3>3, BodiesMean DEF Decisions, Approving
  <2> QED
    BY <2>3, <2>4, <2>5, <2>6, <2>7 DEF AskKinds, QuestionKinds
<1> QED
  BY <1>1, <1>2

\* A tap is the person's step of the gate, with an approving word for a gated
\* call only when it is recorded as pressed (resolveApproval, handleResolve).
LEMMA TapResolves ==
  ASSUME NEW c \in Calls, NEW verdict, NEW words, Tap(c, verdict, words)
  PROVE  \E d \in Decisions :
           /\ ResolveTake(c, d)
           /\ ToolOf[c] # None /\ d \in Approving => c \in pressed'
<1> DEFINE d == normalise(decisionBody(KindOf[c], verdict, words))
<1>1. KindOf[c] \in AskKinds /\ (ToolOf[c] # None => KindOf[c] = "approval")
  BY FeedAssumption
<1>2. decisionBody(KindOf[c], verdict, words) # NoBody /\ ResolveTake(c, d)
  BY DEF Tap, Answer
<1>3. d \in Decisions /\ (ToolOf[c] # None /\ d \in Approving => verdict = "approved")
  BY <1>1, <1>2, TapDecides
<1>4. verdict = "approved" => c \in pressed'
  BY DEF Tap
<1> HIDE DEF d
<1> QED
  BY <1>2, <1>3, <1>4

\* So is a press of an option on the operator's page.
LEMMA PressResolves ==
  ASSUME NEW c \in Calls, NEW option, NEW words, Press(c, option, words)
  PROVE  \E d \in Decisions :
           /\ ResolveTake(c, d)
           /\ ToolOf[c] # None /\ d \in Approving => c \in pressed'
<1> DEFINE d == normalise(Body(KindOf[c], option, words))
<1>1. KindOf[c] \in AskKinds /\ (ToolOf[c] # None => KindOf[c] = "approval")
  BY FeedAssumption
<1>2. Body(KindOf[c], option, words) # NoBody /\ ResolveTake(c, d)
  BY DEF Press, Answer
<1>3. d \in Decisions /\ (ToolOf[c] # None /\ d \in Approving => option \in {"once", "batch"})
  BY <1>1, <1>2, PressDecides
<1>4. option \in {"once", "batch"} => c \in pressed'
  BY DEF Press
<1> HIDE DEF d
<1> QED
  BY <1>2, <1>3, <1>4

-----------------------------------------------------------------------------
(* Every step of Feed is a step of Gate, or leaves the gate alone.         *)

\* Each action of Feed is its gate action with more, or no gate action.
LEMMA FeedStepsGate == FeedNext => [Next]_vars
<1> SUFFICES ASSUME FeedNext PROVE [Next]_vars
  OBVIOUS
<1>1. CASE AgentStep
  BY <1>1 DEF AgentStep, LogAskLine, LogDecision, Silently, Next, Handler, Person
<1>2. CASE \/ Connect \/ Disconnect \/ Fetch \/ SweepRoster \/ SweepEvents \/ SweepUnread
           \/ SweepExpiries \/ SweepUnlisted
  BY <1>2 DEF Connect, Disconnect, Fetch, SweepRoster, SweepEvents, SweepUnread,
              SweepExpiries, SweepUnlisted
<1>3. ASSUME NEW c \in Calls, NEW v, NEW w, Tap(c, v, w) PROVE Next
  BY <1>3, TapResolves DEF Next
<1>4. ASSUME NEW c \in Calls, NEW o, NEW w, Press(c, o, w) PROVE Next
  BY <1>4, PressResolves DEF Next
<1> QED
  BY <1>1, <1>2, <1>3, <1>4 DEF FeedNext

\* The gate that the feed watches and the app answers is Gate: what holds of
\* every behaviour of the one holds of the other.
THEOREM FeedKeepsGate == FeedSpec => Spec
<1>1. FeedInit => Init
  BY DEF FeedInit
<1>2. [FeedNext]_allVars => [Next]_vars
  BY FeedStepsGate DEF allVars
<1> QED
  BY <1>1, <1>2, PTL DEF FeedSpec, Spec

-----------------------------------------------------------------------------
(* What a step of the gate does to a decision.                             *)

\* A Resolve that has begun keeps its decision, and when it is over it is over.
LEMMA SaidStays ==
  ASSUME GateInv, [Next]_vars, NEW c \in Calls, res[c] # "no"
  PROVE  said'[c] = said[c] /\ (res[c] = "told" => res'[c] = "told")
<1> USE DEF GateInv, GateTypes, TakenOnce
<1>1. ASSUME NEW k \in Calls, NEW d \in Decisions, ResolveTake(k, d)
      PROVE  said'[c] = said[c] /\ (res[c] = "told" => res'[c] = "told")
  BY <1>1 DEF ResolveTake
<1>2. ASSUME NEW k \in Calls, ResolveLower(k) \/ ResolveSend(k) \/ RevokeLower(k) \/ RevokeSend(k)
      PROVE  said'[c] = said[c] /\ (res[c] = "told" => res'[c] = "told")
  BY <1>2 DEF ResolveLower, ResolveSend, RevokeLower, RevokeSend
<1>3. ASSUME UNCHANGED <<res, said>>
      PROVE  said'[c] = said[c] /\ (res[c] = "told" => res'[c] = "told")
  BY <1>3
<1>4. \/ UNCHANGED <<res, said>>
      \/ \E k \in Calls : ResolveLower(k) \/ ResolveSend(k) \/ RevokeLower(k) \/ RevokeSend(k)
      \/ \E k \in Calls, d \in Decisions : ResolveTake(k, d)
  BY DEF Next, vars, Handler, Person, BeginTurn, EndTurn, Interrupt, CancelTurn, Call, Consume,
         Register, LogAsk, Raise, WaitUp, ShowWaiting, TakeAnswer, Timeout, Cancelled, Forget,
         Lower, WaitDown, ShowDown, Expire, Return, personVars
<1> QED
  BY <1>1, <1>2, <1>3, <1>4

\* An approving word of a call is new only when a Resolve takes the call.
Approved(c) == said[c] \in Approving \/ answer[c] \in Approving \/ result[c] \in Approving

\* No other step of the gate brings one up: answers and results are copies.
LEMMA NoOtherApproval ==
  ASSUME GateInv, NEW c \in Calls,
         \/ BeginTurn \/ EndTurn \/ Interrupt \/ CancelTurn
         \/ \E k \in Calls : Call(k) \/ Handler(k) \/ Person(k)
         \/ \E t \in Tools : Expire(t)
         \/ UNCHANGED vars
  PROVE  Approved(c)' => Approved(c)
<1> USE DEF Approved, Approving, GateInv, GateTypes, Decisions
<1>1. ASSUME UNCHANGED <<said, answer, result>> PROVE Approved(c)' => Approved(c)
  BY <1>1
<1>2. ASSUME NEW k \in Calls, Consume(k) PROVE Approved(c)' => Approved(c)
  BY <1>2 DEF Consume, personVars
<1>3. ASSUME NEW k \in Calls, TakeAnswer(k) \/ Timeout(k) \/ Cancelled(k)
      PROVE  Approved(c)' => Approved(c)
  BY <1>3, GateAssumption DEF TakeAnswer, Timeout, Cancelled, Return, personVars, Outcomes
<1>4. ASSUME NEW k \in Calls, ResolveSend(k) \/ RevokeLower(k) \/ RevokeSend(k)
      PROVE  Approved(c)' => Approved(c)
  BY <1>4 DEF ResolveSend, RevokeLower, RevokeSend
<1>5. \/ UNCHANGED <<said, answer, result>>
      \/ \E k \in Calls : Consume(k) \/ TakeAnswer(k) \/ Timeout(k) \/ Cancelled(k)
                            \/ ResolveSend(k) \/ RevokeLower(k) \/ RevokeSend(k)
  BY DEF vars, Handler, Person, BeginTurn, EndTurn, Interrupt, CancelTurn, Call,
         Register, LogAsk, Raise, WaitUp, ShowWaiting, Forget, Lower, WaitDown, ShowDown,
         Expire, ResolveLower, personVars
<1> QED
  BY <1>1, <1>2, <1>3, <1>4, <1>5

-----------------------------------------------------------------------------
(* Readings of the log.                                                    *)

\* An append adds one event (events.go's log only grows).
LEMMA AppendedEvents ==
  ASSUME NEW S, NEW events \in Seq(S), NEW e \in S
  PROVE  ToSet(Append(events, e)) = ToSet(events) \union {e}
<1>1. /\ Len(Append(events, e)) = Len(events) + 1
      /\ \A i \in 1..Len(events) : Append(events, e)[i] = events[i]
      /\ Append(events, e)[Len(events) + 1] = e
  OBVIOUS
<1>2. /\ DOMAIN events = 1..Len(events)
      /\ DOMAIN Append(events, e) = 1..(Len(events) + 1)
      /\ Len(events) \in Nat
  BY <1>1
<1>3. \A i \in 1..(Len(events) + 1) : i \in 1..Len(events) \/ i = Len(events) + 1
  BY <1>2
<1>4. ToSet(events) \union {e} \subseteq ToSet(Append(events, e))
  BY <1>1, <1>2 DEF ToSet
<1>5. ToSet(Append(events, e)) \subseteq ToSet(events) \union {e}
  BY <1>1, <1>2, <1>3 DEF ToSet
<1> QED
  BY <1>4, <1>5

\* What is read from a position on is part of the log (EventsSince).
LEMMA TailEvents ==
  ASSUME NEW S, NEW events \in Seq(S), NEW from \in Nat, NEW to \in Nat, to =< Len(events)
  PROVE  ToSet(SubSeq(events, from + 1, to)) \subseteq ToSet(events)
<1> DEFINE tail == SubSeq(events, from + 1, to)
<1>1. SUFFICES ASSUME NEW i \in DOMAIN tail PROVE tail[i] \in ToSet(events)
  BY DEF ToSet
<1>2. /\ i \in 1..(to - from)
      /\ tail[i] = events[from + i]
  OBVIOUS
<1>3. from + i \in DOMAIN events
  BY <1>2
<1> QED
  BY <1>2, <1>3 DEF ToSet

\* The decision found for a settled ask is the one its Resolve carried, and only
\* an approving one reads "approved" (decisionFor, verdictOf).
LEMMA DecisionIsSaid ==
  ASSUME LogTruthful, NEW events, ToSet(events) \subseteq ToSet(log), NEW c \in Settled(events)
  PROVE  /\ verdictOf(DecisionIn(events, c)) \in Verdicts
         /\ verdictOf(DecisionIn(events, c)) = "approved" => res[c] = "told" /\ said[c] \in Approving
<1> DEFINE Is(e) == e.type = "decision" /\ e.call = c
<1>1. \E e \in ToSet(events) : Is(e)
  BY DEF Settled
<1>2. (CHOOSE e \in ToSet(events) : Is(e)) \in ToSet(events) /\ Is(CHOOSE e \in ToSet(events) : Is(e))
  BY <1>1, Zenon
<1>3. DecisionIn(events, c) = said[c] /\ res[c] = "told"
  BY <1>2 DEF LogTruthful, DecisionIn
<1> QED
  BY <1>3 DEF verdictOf, Verdicts, Approving

-----------------------------------------------------------------------------
(* FeedInv.                                                                *)

\* Nothing asked, nothing logged, nothing shown.
LEMMA FeedEstablishes == FeedInit => FeedInv
<1> SUFFICES ASSUME FeedInit PROVE FeedInv
  OBVIOUS
<1>1. GateInv
  BY GateInit DEF FeedInit
<1>2. FeedTypes
  BY DEF FeedInit, FeedTypes
<1>3. LogTruthful /\ CardTruthful
  BY DEF FeedInit, LogTruthful, CardTruthful, ToSet
<1>4. PressedFirst
  BY GateAssumption DEF FeedInit, Init, PressedFirst, Approving, Outcomes, Decisions
<1> QED
  BY <1>1, <1>2, <1>3, <1>4 DEF FeedInv

\* The gate's own steps, which the feed and the app do not see.
AgentAlone == \/ BeginTurn \/ EndTurn \/ Interrupt \/ CancelTurn
              \/ \E c \in Calls : Silently(c)
              \/ \E t \in Tools : Expire(t)

\* They write no log, and no card hears of them.
LEMMA AgentAlonePreserves ==
  ASSUME FeedInv, AgentAlone, UNCHANGED appVars
  PROVE  FeedInv'
<1>1. [Next]_vars
  BY DEF AgentAlone, Silently, Next, Handler, Person
<1>2. GateInv'
  BY <1>1, GateStep DEF FeedInv
<1>3. FeedTypes'
  BY DEF FeedInv, FeedTypes, appVars, feedVars
<1>4. PressedFirst'
  <2> SUFFICES ASSUME NEW c \in Calls, ToolOf[c] # None, Approved(c)' PROVE c \in pressed'
    BY DEF PressedFirst, Approved
  <2>1. Approved(c)
    BY NoOtherApproval DEF FeedInv, AgentAlone, Silently, Handler, Person
  <2> QED
    BY <2>1 DEF FeedInv, PressedFirst, Approved, appVars
<1>5. LogTruthful'
  <2> SUFFICES ASSUME NEW e \in ToSet(log), e.type = "decision"
               PROVE  res'[e.call] = "told" /\ said'[e.call] = e.decision
    BY DEF LogTruthful, appVars
  <2>1. e.call \in Calls
    BY DEF FeedInv, FeedTypes, Events, ToSet
  <2>2. res[e.call] = "told" /\ said[e.call] = e.decision
    BY DEF FeedInv, LogTruthful
  <2> QED
    BY <1>1, <2>1, <2>2, SaidStays DEF FeedInv
<1>6. CardTruthful'
  <2> SUFFICES ASSUME NEW c \in Calls, card[c] = "approved"
               PROVE  res'[c] = "told" /\ said'[c] \in Approving
    BY DEF CardTruthful, appVars, feedVars
  <2>1. res[c] = "told" /\ said[c] \in Approving
    BY DEF FeedInv, CardTruthful
  <2> QED
    BY <1>1, <2>1, SaidStays DEF FeedInv
<1> QED
  BY <1>2, <1>3, <1>4, <1>5, <1>6 DEF FeedInv

\* An ask reaches the log, and says nothing of a decision.
LEMMA LogAskPreserves ==
  ASSUME FeedInv, NEW c \in Calls, LogAskLine(c)
  PROVE  FeedInv'
<1>1. GateInv'
  BY GateStep DEF LogAskLine, FeedInv, Next, Handler
<1>2. UNCHANGED <<said, answer, result, res>>
  BY DEF LogAskLine, LogAsk, personVars
<1>3. Ask(c) \in Events /\ Ask(c).type # "decision"
  BY DEF Ask, Events
<1>4. log \in Seq(Events) /\ log' = Append(log, Ask(c)) /\ ToSet(log') = ToSet(log) \union {Ask(c)}
  BY <1>3, AppendedEvents DEF LogAskLine, FeedInv, FeedTypes
<1>5. FeedTypes'
  BY <1>3, <1>4 DEF LogAskLine, feedVars, FeedInv, FeedTypes
<1>6. LogTruthful'
  BY <1>2, <1>3, <1>4 DEF FeedInv, LogTruthful
<1>7. PressedFirst' /\ CardTruthful'
  BY <1>2 DEF LogAskLine, feedVars, FeedInv, PressedFirst, CardTruthful
<1> QED
  BY <1>1, <1>5, <1>6, <1>7 DEF FeedInv

\* A Resolve writes what it was told to, and from then on does not change it.
LEMMA LogDecisionPreserves ==
  ASSUME FeedInv, NEW c \in Calls, LogDecision(c), said[c] \in Decisions
  PROVE  FeedInv'
<1>1. [Next]_vars /\ GateInv'
  BY GateStep DEF LogDecision, FeedInv, Next, Person
<1>2. /\ res[c] = "send" /\ res' = [res EXCEPT ![c] = "told"]
      /\ UNCHANGED <<said, result, card, pressed, last, cursor, shown>>
      /\ answer' = [answer EXCEPT ![c] = said[c]]
  BY DEF LogDecision, ResolveSend, feedVars
<1>3. Decided(c, said[c]) \in Events
  BY DEF Decided, Events
<1>4. /\ log \in Seq(Events) /\ log' = Append(log, Decided(c, said[c]))
      /\ ToSet(log') = ToSet(log) \union {Decided(c, said[c])}
  BY <1>3, AppendedEvents DEF LogDecision, FeedInv, FeedTypes
<1>5. FeedTypes'
  BY <1>2, <1>3, <1>4 DEF FeedInv, FeedTypes
<1>6. LogTruthful'
  <2> SUFFICES ASSUME NEW e \in ToSet(log'), e.type = "decision"
               PROVE  res'[e.call] = "told" /\ said'[e.call] = e.decision
    BY DEF LogTruthful
  <2>1. CASE e = Decided(c, said[c])
    <3>1. e.call = c /\ e.decision = said[c]
      BY <2>1 DEF Decided
    <3> QED
      BY <3>1, <1>2 DEF FeedInv, GateInv, GateTypes
  <2>2. CASE e \in ToSet(log)
    <3>1. e.call \in Calls /\ res[e.call] = "told" /\ said[e.call] = e.decision
      BY <2>2 DEF FeedInv, LogTruthful, FeedTypes, Events, ToSet
    <3> QED
      BY <3>1, <1>1, SaidStays DEF FeedInv
  <2> QED
    BY <1>4, <2>1, <2>2
<1>7. PressedFirst'
  BY <1>2 DEF FeedInv, PressedFirst, GateInv, GateTypes
<1>8. CardTruthful'
  BY <1>2 DEF FeedInv, CardTruthful, GateInv, GateTypes
<1> QED
  BY <1>1, <1>5, <1>6, <1>7, <1>8 DEF FeedInv

\* A Resolve takes an ask with the word of a button, and the ask was undecided.
LEMMA ResolveTakePreserves ==
  ASSUME FeedInv, NEW c \in Calls, NEW d \in Decisions, ResolveTake(c, d), UNCHANGED <<log, feedVars>>,
         pressed' \in SUBSET Calls, pressed \subseteq pressed',
         ToolOf[c] # None /\ d \in Approving => c \in pressed'
  PROVE  FeedInv'
<1>1. [Next]_vars
  BY DEF Next
<1>2. GateInv'
  BY <1>1, GateStep DEF FeedInv
<1>3. /\ said' = [said EXCEPT ![c] = d] /\ UNCHANGED <<answer, result, card, last, cursor, shown>>
      /\ res[c] = "no" /\ log' = log
  BY DEF ResolveTake, feedVars
<1>4. FeedTypes'
  BY <1>3 DEF FeedInv, FeedTypes
<1>5. PressedFirst'
  BY <1>3 DEF FeedInv, PressedFirst, GateInv, GateTypes
<1>6. LogTruthful'
  <2> SUFFICES ASSUME NEW e \in ToSet(log), e.type = "decision"
               PROVE  res'[e.call] = "told" /\ said'[e.call] = e.decision
    BY <1>3 DEF LogTruthful
  <2>1. e.call \in Calls /\ res[e.call] = "told" /\ said[e.call] = e.decision
    BY DEF FeedInv, LogTruthful, FeedTypes, Events, ToSet
  <2> QED
    BY <2>1, <1>1, SaidStays DEF FeedInv
<1>7. CardTruthful'
  <2> SUFFICES ASSUME NEW k \in Calls, card[k] = "approved"
               PROVE  res'[k] = "told" /\ said'[k] \in Approving
    BY <1>3 DEF CardTruthful
  <2>1. res[k] = "told" /\ said[k] \in Approving
    BY DEF FeedInv, CardTruthful
  <2> QED
    BY <1>1, <2>1, SaidStays DEF FeedInv
<1> QED
  BY <1>2, <1>4, <1>5, <1>6, <1>7 DEF FeedInv

\* The feed and the threads read; what they show comes from the log.
LEMMA ReadingPreserves ==
  ASSUME FeedInv, UNCHANGED <<vars, log, pressed>>, FeedTypes', CardTruthful'
  PROVE  FeedInv'
<1>1. GateInv'
  BY GateStep DEF FeedInv
<1>2. PressedFirst' /\ LogTruthful'
  BY DEF vars, personVars, FeedInv, PressedFirst, LogTruthful
<1> QED
  BY <1>1, <1>2 DEF FeedInv

\* Every step of the agent, the feed, the app and the page.
LEMMA FeedStep == FeedInv /\ [FeedNext]_allVars => FeedInv'
<1> SUFFICES ASSUME FeedInv, [FeedNext]_allVars PROVE FeedInv'
  OBVIOUS
<1> USE DEF FeedInv
<1>1. ASSUME NEW c \in Calls, LogAskLine(c) PROVE FeedInv'
  BY <1>1, LogAskPreserves
<1>2. ASSUME NEW c \in Calls, LogDecision(c) PROVE FeedInv'
  <2>1. said[c] \in Decisions
    BY <1>2 DEF LogDecision, ResolveSend, GateInv, TakenOnce
  <2> QED
    BY <1>2, <2>1, LogDecisionPreserves
<1>3. ASSUME AgentAlone, UNCHANGED appVars PROVE FeedInv'
  BY <1>3, AgentAlonePreserves
<1>4. CASE Connect \/ Disconnect \/ SweepRoster \/ SweepUnread \/ SweepUnlisted
  <2>1. FeedTypes'
    BY <1>4 DEF Connect, Disconnect, SweepRoster, SweepUnread, SweepUnlisted, FeedTypes
  <2>2. UNCHANGED <<vars, log, card, pressed>>
    BY <1>4 DEF Connect, Disconnect, SweepRoster, SweepUnread, SweepUnlisted
  <2>3. CardTruthful'
    BY <2>2 DEF CardTruthful, vars, personVars
  <2> QED
    BY <2>1, <2>2, <2>3, ReadingPreserves
<1>5. CASE SweepEvents
  <2>1. UNCHANGED <<vars, log, pressed>>
    BY <1>5 DEF SweepEvents
  <2>2. CASE UNCHANGED <<shown, card>>
    <3>1. FeedTypes'
      BY <1>5, <2>2 DEF SweepEvents, FeedTypes
    <3>2. CardTruthful'
      BY <2>1, <2>2 DEF CardTruthful, vars, personVars
    <3> QED
      BY <2>1, <3>1, <3>2, ReadingPreserves
  <2>3. ASSUME NEW read \in last .. Len(log),
               cursor # -1 /\ cursor' = Len(log) /\ Forward(SubSeq(log, cursor + 1, read))
        PROVE  FeedInv'
    <3> DEFINE events == SubSeq(log, cursor + 1, read)
    <3>1. ToSet(events) \subseteq ToSet(log)
      <4>1. cursor \in Nat /\ read \in Nat /\ read =< Len(log)
        BY <2>3 DEF FeedTypes
      <4> QED
        BY <4>1, TailEvents DEF FeedTypes
    <3> HIDE DEF events
    <3>2. Asked(events) \subseteq Calls
      BY <3>1 DEF Asked, FeedTypes, Events, ToSet
    <3>3. \A c \in Calls : /\ card'[c] \in {"none", "live"} \union Verdicts
                           /\ card'[c] = "approved" => res[c] = "told" /\ said[c] \in Approving
      BY <2>3, <3>1, DecisionIsSaid DEF events, Forward, CardsAfter, FeedTypes, CardTruthful
    <3>4. FeedTypes'
      BY <1>5, <2>1, <2>3, <3>2, <3>3 DEF events, SweepEvents, Forward, CardsAfter, FeedTypes
    <3>5. CardTruthful'
      BY <2>1, <3>3 DEF CardTruthful, vars, personVars
    <3> QED
      BY <2>1, <3>4, <3>5, ReadingPreserves
  <2> QED
    BY <1>5, <2>2, <2>3 DEF SweepEvents
<1>6. CASE SweepExpiries
  <2>1. UNCHANGED <<vars, log, pressed>>
    BY <1>6 DEF SweepExpiries
  <2>2. FeedTypes'
    BY <1>6 DEF SweepExpiries, FeedTypes, Verdicts
  <2>3. CardTruthful'
    BY <1>6, <2>1 DEF SweepExpiries, CardTruthful, vars, personVars
  <2> QED
    BY <2>1, <2>2, <2>3, ReadingPreserves
<1>7. CASE Fetch
  <2>1. UNCHANGED <<vars, log, pressed>>
    BY <1>7 DEF Fetch
  <2>2. \A c \in Calls : /\ card'[c] \in {"none", "live"} \union Verdicts
                         /\ card'[c] = "approved" => res[c] = "told" /\ said[c] \in Approving
    BY <1>7, DecisionIsSaid DEF Fetch, CardsAfter, FeedTypes, CardTruthful
  <2>3. FeedTypes'
    BY <1>7, <2>1, <2>2 DEF Fetch, CardsAfter, FeedTypes
  <2>4. CardTruthful'
    BY <2>1, <2>2 DEF CardTruthful, vars, personVars
  <2> QED
    BY <2>1, <2>3, <2>4, ReadingPreserves
<1>8. ASSUME NEW c \in Calls, NEW v, NEW w, Tap(c, v, w) PROVE FeedInv'
  BY <1>8, TapResolves, ResolveTakePreserves DEF Tap, Answer, FeedTypes
<1>9. ASSUME NEW c \in Calls, NEW o, NEW w, Press(c, o, w) PROVE FeedInv'
  BY <1>9, PressResolves, ResolveTakePreserves DEF Press, Answer, FeedTypes
<1>10. CASE UNCHANGED allVars
  <2>1. FeedTypes' /\ CardTruthful'
    BY <1>10 DEF allVars, appVars, feedVars, vars, personVars, FeedTypes, CardTruthful
  <2> QED
    BY <1>10, <2>1, ReadingPreserves DEF allVars, appVars
<1> QED
  BY <1>1, <1>2, <1>3, <1>4, <1>5, <1>6, <1>7, <1>8, <1>9, <1>10
     DEF FeedNext, AgentStep, AgentAlone

\* FeedInv holds throughout.
LEMMA FeedAlways == FeedSpec => []FeedInv
BY FeedEstablishes, FeedStep, PTL DEF FeedSpec

\* A gated call is let through only because a person pressed an approving button
\* for it, whatever typed words, misspelt verdicts and forged options arrive and
\* in whatever order app, page, timers and interrupts act (decisionBody,
\* Pending.Body, normalise, Resolve).
THEOREM ConsentIsAlwaysPressed == FeedSpec => []ConsentIsPressed
<1>1. FeedInv => ConsentIsPressed
  BY DEF FeedInv, PressedFirst, ConsentIsPressed, Approving
<1> QED
  BY <1>1, FeedAlways, PTL

\* What the app shows as approved a person approved: a sweep, a fetch and a new
\* connection read decisions at any position of the log and never mix two asks
\* up (emitDecision, applyDecisions, verdictOf).
THEOREM ApprovedIsAlwaysTrue == FeedSpec => []ApprovedIsTrue
<1>1. FeedInv => ApprovedIsTrue
  BY DEF FeedInv, PressedFirst, CardTruthful, ApprovedIsTrue, Approving
<1> QED
  BY <1>1, FeedAlways, PTL

=============================================================================
