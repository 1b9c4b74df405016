-------------------------------- MODULE Feed --------------------------------
(* The asks of one agent as a person sees and answers them: the gate and   *)
(* the hub of Gate, the agent's log, the app's live feed (feed.go), its    *)
(* threads (threads.go, messages.go), and the two ways an answer comes     *)
(* back, from the app (approval.go) and from the operator's page.          *)
(*                                                                         *)
(* The feed polls.  A sweep reads the roster, then the log, then the hub,  *)
(* and the agent runs on between the reads; any read may fail.  The log is *)
(* the file's two kinds of line that matter here, an ask and a decision.   *)
(* The app is the client of the wire format and not in the repository: a   *)
(* card of it is what the last frame or the last fetch said of it.         *)
EXTENDS Gate, Answers, SequencesExt

CONSTANTS KindOf,    \* the kind of ask each call puts up
          MaxOpens   \* bound: connections and fetches of the app

ASSUME FeedAssumption ==
  /\ KindOf \in [Calls -> AskKinds]
  /\ \A c \in Calls : KindOf[c] = "approval" <=> ToolOf[c] # None
  /\ MaxOpens \in Nat

VARIABLES log,      \* the agent's event log
          conn,     \* the app's connection, and how far its sweep has come
          last,     \* LastEventID in the roster this sweep read, 0 between sweeps
          cursor,   \* f.cursor: events forwarded, -1 before the first sweep of a connection
          shown,    \* f.pending: asks this connection forwarded, not yet settled
          card,     \* each ask on the app's screen
          opens,    \* connections and fetches so far
          pressed   \* history: calls a person pressed an approving button for

feedVars == <<conn, last, cursor, shown, card, opens>>
appVars == <<log, feedVars, pressed>>
allVars == <<vars, appVars>>

FeedInit == /\ Init
            /\ log = <<>>
            /\ conn = "off"
            /\ last = 0
            /\ cursor = -1
            /\ shown = {}
            /\ card = [c \in Calls |-> "none"]
            /\ opens = 0
            /\ pressed = {}

Ask(c) == [type |-> "ask", call |-> c]
Decided(c, d) == [type |-> "decision", call |-> c, decision |-> d]

Asked(events) == {e.call : e \in {x \in ToSet(events) : x.type = "ask"}}
Settled(events) == {e.call : e \in {x \in ToSet(events) : x.type = "decision"}}
DecisionIn(events, c) ==
  (CHOOSE e \in ToSet(events) : e.type = "decision" /\ e.call = c).decision

-----------------------------------------------------------------------------
(* The agent, with what it writes to its log.  Answers come from below.    *)

LogAskLine(c) == /\ LogAsk(c)
                 /\ log' = Append(log, Ask(c))
                 /\ UNCHANGED <<feedVars, pressed>>

\* Resolve appends the decision after taking the hand down and before sending
\* the answer to the handler.
LogDecision(c) == /\ ResolveSend(c)
                  /\ log' = Append(log, Decided(c, said[c]))
                  /\ UNCHANGED <<feedVars, pressed>>

Silently(c) == \/ Call(c) \/ Consume(c) \/ Register(c) \/ Raise(c) \/ WaitUp(c)
               \/ ShowWaiting(c) \/ TakeAnswer(c) \/ Timeout(c) \/ Cancelled(c)
               \/ Forget(c) \/ Lower(c) \/ WaitDown(c) \/ ShowDown(c)
               \/ ResolveLower(c) \/ RevokeLower(c) \/ RevokeSend(c)

AgentStep == \/ \E c \in Calls : LogAskLine(c) \/ LogDecision(c)
             \/ /\ \/ BeginTurn \/ EndTurn \/ Interrupt \/ CancelTurn
                   \/ \E c \in Calls : Silently(c)
                   \/ \E t \in Tools : Expire(t)
                /\ UNCHANGED appVars

-----------------------------------------------------------------------------
(* The feed.                                                               *)

\* streamV1, newFeed: nothing is known of what the client has.
Connect == /\ conn = "off"
           /\ opens < MaxOpens
           /\ opens' = opens + 1
           /\ conn' = "idle"
           /\ UNCHANGED <<vars, log, last, cursor, shown, card, pressed>>

\* The client leaves, or run ends the stream: the machine is gone, has moved or
\* has been unresolvable for staleLimit polls.
Disconnect == /\ conn # "off"
              /\ conn' = "off"
              /\ last' = 0
              /\ cursor' = -1
              /\ shown' = {}
              /\ UNCHANGED <<vars, log, card, opens, pressed>>

\* sweep reads the roster.  When that fails the sweep is over.
SweepRoster == /\ conn = "idle"
               /\ last' = Len(log)
               /\ conn' = "events"
               /\ UNCHANGED <<vars, log, cursor, shown, card, opens, pressed>>

\* What the cards show once these events have been read: the decisions in settled
\* win over the asks (emitDecision, applyDecisions).
CardsAfter(events, settled) ==
  [c \in Calls |-> IF c \in settled THEN verdictOf(DecisionIn(events, c))
                   ELSE IF c \in Asked(events) THEN "live" ELSE card[c]]

Forward_Untracked(events) ==
  LET known == shown \union Asked(events)
  IN  /\ shown' = shown
      /\ card' = CardsAfter(events, known \intersect Settled(events))

\* forward, emitMessage, emitDecision: an ask is shown and remembered, and a
\* decision is passed on for an ask this connection has shown.
Forward(events) ==
  LET known == shown \union Asked(events)
  IN  /\ shown' = known \ Settled(events)
      /\ card' = CardsAfter(events, known \intersect Settled(events))

\* emitEvents: a new connection starts from what the roster said; after that
\* the log is read again, past what the roster said.  History takes the events
\* first and the last id after them: what is appended in between is skipped.
SweepEvents == /\ conn = "events"
               /\ conn' = "expiries"
               /\ last' = 0
               /\ \/ /\ cursor = -1
                     /\ cursor' = last
                     /\ UNCHANGED <<shown, card>>
                  \/ /\ cursor # -1
                     /\ last =< cursor
                     /\ UNCHANGED <<cursor, shown, card>>
                  \/ /\ cursor # -1
                     /\ last > cursor
                     /\ cursor' = Len(log)
                     /\ \E read \in last .. Len(log) : Forward(SubSeq(log, cursor + 1, read))
               /\ UNCHANGED <<vars, log, opens, pressed>>

\* EventsSince fails: the sweep goes on without the events.
SweepUnread == /\ conn = "events"
               /\ last > cursor
               /\ cursor # -1
               /\ conn' = "expiries"
               /\ last' = 0
               /\ UNCHANGED <<vars, log, cursor, shown, card, opens, pressed>>

SweepExpiries_Never ==
  /\ conn = "expiries"
  /\ conn' = "idle"
  /\ UNCHANGED <<vars, log, last, cursor, shown, card, opens, pressed>>

\* emitExpiries: whatever this connection shows and the hub no longer holds is
\* taken for timed out, and settled as denied.
SweepExpiries == /\ conn = "expiries"
                 /\ conn' = "idle"
                 /\ shown' = shown \intersect raised
                 /\ card' = [c \in Calls |-> IF c \in shown \ raised THEN "denied" ELSE card[c]]
                 /\ UNCHANGED <<vars, log, last, cursor, opens, pressed>>

\* Pending fails, and the next sweep asks again.
SweepUnlisted == /\ conn = "expiries"
                 /\ shown # {}
                 /\ conn' = "idle"
                 /\ UNCHANGED <<vars, log, last, cursor, shown, card, opens, pressed>>

Fetch_ByPosition ==
  /\ opens < MaxOpens
  /\ opens' = opens + 1
  /\ card' = [c \in Calls |-> IF c \in Asked(log) THEN "approved" ELSE card[c]]
  /\ UNCHANGED <<vars, log, conn, last, cursor, shown, pressed>>

\* getThread, buildThread, applyDecisions: each ask of the log, with the
\* decision of its own approval id if the log has one.
Fetch == /\ opens < MaxOpens
         /\ opens' = opens + 1
         /\ card' = CardsAfter(log, Settled(log))
         /\ UNCHANGED <<vars, log, conn, last, cursor, shown, pressed>>

-----------------------------------------------------------------------------
(* The person.                                                             *)

\* A body reaches handleResolve.  When nothing is pending under the id any
\* more, the guest says 404 and nothing changes.
Answer(c, body) == /\ body # NoBody
                   /\ ResolveTake(c, normalise(body))
                   /\ UNCHANGED <<log, feedVars>>

\* resolveApproval: the message id is looked up in the agent's own log.
Tap(c, verdict, words) ==
  /\ card[c] = "live"
  /\ c \in Asked(log)
  /\ Answer(c, decisionBody(KindOf[c], verdict, words))
  /\ pressed' = IF verdict = "approved" THEN pressed \union {c} ELSE pressed

\* resolvePending, for a card the operator's page has.
Press(c, option, words) ==
  /\ pc[c] \notin {"idle", "consume", "register", "log", "raise"}
  /\ Answer(c, Body(KindOf[c], option, words))
  /\ pressed' = IF option \in {"once", "batch", "yes", "done"} THEN pressed \union {c} ELSE pressed

FeedNext == \/ AgentStep
            \/ Connect \/ Disconnect \/ Fetch
            \/ SweepRoster \/ SweepEvents \/ SweepUnread \/ SweepExpiries \/ SweepUnlisted
            \/ \E c \in Calls, v \in Verdicts \union {"aproved"}, w \in Typed \union {""} :
                 Tap(c, v, w)
            \/ \E c \in Calls, o \in Options, w \in Typed \union {""} : Press(c, o, w)

\* The agent's own fairness is Gate's.  While a connection lasts its ticker
\* fires, and a guest that is up answers in the end.
FeedSpec == /\ FeedInit
            /\ [][FeedNext]_allVars
            /\ \A c \in Calls : WF_vars(Handler(c)) /\ WF_vars(Person(c))
            /\ WF_vars(CancelTurn)
            /\ WF_allVars(SweepRoster)
            /\ SF_allVars(SweepEvents)
            /\ SF_allVars(SweepExpiries)

-----------------------------------------------------------------------------
(* Properties.                                                             *)

\* A gated call is let through only because a person pressed an approving
\* button for that call: no typed words, misspelt verdict or forged option is
\* consent (decisionBody, Pending.Body, normalise).
ConsentIsPressed ==
  \A c \in Calls : ToolOf[c] # None /\ result[c] \in {"allow", "batch"} => c \in pressed

\* What the app shows as approved a person approved, whether the word came by
\* the feed or with the thread (emitDecision, applyDecisions, verdictOf).
ApprovedIsTrue ==
  \A c \in Calls : ToolOf[c] # None /\ card[c] = "approved" => c \in pressed /\ said[c] # "deny"

\* An ask that a connection has shown does not stay live on the screen once its
\* call is over, as long as the connection lasts and the hand was up before it
\* was answered (emitDecision, emitExpiries).
ShownAskSettles ==
  \A c \in Calls : (c \in shown /\ pc[c] = "done")
                     ~> (card[c] # "live" \/ conn = "off" \/ c \in early)

-----------------------------------------------------------------------------
(* What comments of the source say, and the code does not do.              *)

\* "emitExpiries settles any ask that timed out": what the app shows as denied was
\* not approved.  Not so of an ask answered between the read of the log and that
\* of the hub, which has left the hub all the same.
DeniedIsTrue == \A c \in Calls : card[c] = "denied" => result[c] \notin {"allow", "batch"}

\* "by then the client is already showing the card and only needs to know it is
\* settled" (applyDecisions): a settled card stays settled.  Not so of one whose
\* call timed out: with no decision in the log the next fetch has it live again.
SettledStaysSettled ==
  [][\A c \in Calls : card[c] \in Verdicts => card'[c] # "live"]_card

\* "Without this the card sits on the phone looking live and fails when tapped"
\* (emitExpiries).  It does so of an ask that came with the thread, or was shown by
\* an earlier connection, and times out.
EveryCardSettles ==
  \A c \in Calls : (card[c] = "live" /\ pc[c] = "done")
                     ~> (card[c] # "live" \/ conn = "off" \/ c \in early)
=============================================================================
