------------------------------- MODULE Hands -------------------------------
(* How a raised hand becomes a card on the operator's page, and how the    *)
(* card is taken down: the guest's hub and its live listeners, the stream  *)
(* of changes, the bridge of the chat server with the consumers it starts  *)
(* and stops, and one page that comes, goes and comes back.                *)
(*                                                                         *)
(* Gate has the calls behind the hands.  Here a hand is raised once and    *)
(* cleared once.  Every lock section is a step.  Of a page the cards it    *)
(* shows are kept; its transcript, which travels on another stream, is not *)
(* modelled.                                                               *)
EXTENDS Naturals, Sequences, FiniteSets

CONSTANTS Hands,
          Consumers,  \* bound: the pending consumers a bridge may start, 1 to n
          HubBuffer,  \* what a hub listener's channel holds
          PageBuffer, \* what a page's channel holds
          MaxVisits,  \* bound: connections of the page
          MaxBreaks   \* bound: lost streams and restarts of the guest

ASSUME HandsAssumption ==
  /\ Consumers \subseteq Nat \ {0} /\ 1 \in Consumers
  /\ HubBuffer \in Nat \ {0}
  /\ PageBuffer \in Nat \ {0}

VARIABLES hand,     \* h.raised and what it has held: "never", "up" or "down"
          duty,     \* changes made to h.raised and not yet published
          con,      \* each consumer, and the guest's handler at its other end
          cards,    \* b.pending
          live,     \* the consumer whose context is not cancelled, 0 for none
          started,  \* consumers started so far
          idle,     \* b.idle: the timer runs
          page,     \* the page: connection, channel, cards shown
          visits,
          breaks,
          lost      \* history: hands of which the board may rightly be wrong

hub == <<hand, duty>>
bridge == <<cards, live, started, idle>>
vars == <<hub, con, bridge, page, visits, breaks, lost>>

up == {h \in Hands : hand[h] = "up"}

Raised(h) == [kind |-> "raised", hand |-> h]
Cleared(h) == [kind |-> "cleared", hand |-> h]
NoChange == [kind |-> "none", hand |-> 0]

\* A consumer between polls.  now is what it polled, gone what it has to take
\* down, snap and queue what the stream still has for it, out the frame it is
\* about to publish.
Fresh == [pc |-> "poll", now |-> {}, gone |-> {}, snap |-> {}, queue |-> <<>>, out |-> NoChange]
Unborn == [Fresh EXCEPT !.pc = "none"]
Ended == [Fresh EXCEPT !.pc = "ended"]

\* The loop of reconnect looks at its context before each round.
Round(c) == IF c = live THEN Fresh ELSE Ended
Away == [pc |-> "away", frames |-> <<>>, screen |-> {}, blind |-> FALSE]

Init == /\ hand = [h \in Hands |-> "never"]
        /\ duty = {}
        /\ con = [c \in Consumers |-> IF c = 1 THEN Fresh ELSE Unborn]
        /\ cards = {}
        /\ live = 1
        /\ started = 1
        /\ idle = FALSE
        /\ page = Away
        /\ visits = 0
        /\ breaks = 0
        /\ lost = {}

\* Consumers that were cancelled and have not returned.
Old == {c \in Consumers : con[c] \notin {Unborn, Ended} /\ c # live}

-----------------------------------------------------------------------------
(* The hub.                                                                *)

\* Raise and Clear change the set under the lock and publish under the next.
Raise(h) == /\ hand[h] = "never"
            /\ hand' = [hand EXCEPT ![h] = "up"]
            /\ duty' = duty \union {Raised(h)}
            /\ UNCHANGED <<con, bridge, page, visits, breaks, lost>>

Clear(h) == /\ hand[h] = "up"
            /\ hand' = [hand EXCEPT ![h] = "down"]
            /\ duty' = duty \union {Cleared(h)}
            /\ UNCHANGED <<con, bridge, page, visits, breaks, lost>>

Listening(c) == con[c].pc \in {"list", "open"}
Full(c) == Len(con[c].queue) >= HubBuffer

\* The live consumer will not hear of this change: it has polled and does not
\* listen yet, its channel is full, or the change overtook a later one.
Unheard(n) == \/ n.kind = "raised" /\ hand[n.hand] = "down"
              \/ /\ live # 0
                 /\ \/ con[live].pc \in {"diff", "gone", "add", "connect"}
                    \/ Listening(live) /\ Full(live)

\* publish drops a change for a listener that is full.
Publish(n) == /\ n \in duty
              /\ duty' = duty \ {n}
              /\ con' = [c \in Consumers |->
                           IF Listening(c) /\ ~ Full(c)
                           THEN [con[c] EXCEPT !.queue = Append(@, n)] ELSE con[c]]
              /\ lost' = IF Unheard(n) THEN lost \union {n.hand} ELSE lost
              /\ UNCHANGED <<hand, bridge, page, visits, breaks>>

\* agentd restarts, or its machine does: no hand is up, and nobody publishes it.
GuestRestart ==
  /\ breaks < MaxBreaks
  /\ breaks' = breaks + 1
  /\ hand' = [h \in Hands |-> IF hand[h] = "up" THEN "down" ELSE hand[h]]
  /\ duty' = {}
  /\ con' = [c \in Consumers |-> IF con[c].pc \in {"list", "open"} THEN [Round(c) EXCEPT !.out = con[c].out] ELSE con[c]]
  /\ lost' = IF live # 0 /\ con[live].pc \in {"diff", "gone", "add", "connect"}
             THEN lost \union up \union {n.hand : n \in duty} ELSE lost
  /\ UNCHANGED <<bridge, page, visits>>

-----------------------------------------------------------------------------
(* A consumer: reconnect, consumePending.                                  *)

At(c, pc) == con[c].pc = pc /\ con[c].out = NoChange
To(c, state) == con' = [con EXCEPT ![c] = state]

\* Once a consumer is old, what it does to the board is not its successor's doing.
Touched(c, hs) == lost' = IF c = live THEN lost ELSE lost \union hs

\* Pending.  The request carries no context, so an old consumer's goes through.
\* What the answer says the board will be brought to say.
Poll(c) == /\ At(c, "poll")
           /\ To(c, [con[c] EXCEPT !.pc = "diff", !.now = up])
           /\ lost' = IF c = live THEN {} ELSE lost
           /\ UNCHANGED <<hub, bridge, page, visits, breaks>>

\* While it waits for its next round a cancelled consumer returns.
Stops(c) == /\ At(c, "poll")
            /\ c # live
            /\ To(c, Ended)
            /\ UNCHANGED <<hub, bridge, page, visits, breaks, lost>>

DropMissing_All(c) == /\ At(c, "diff")
                      /\ To(c, [con[c] EXCEPT !.pc = "gone", !.gone = cards])
                      /\ cards' = {}
                      /\ Touched(c, cards)
                      /\ UNCHANGED <<hub, live, started, idle, page, visits, breaks>>

\* resync, dropMissing: cards the hub no longer holds.
DropMissing(c) == /\ At(c, "diff")
                  /\ To(c, [con[c] EXCEPT !.pc = "gone", !.gone = cards \ con[c].now])
                  /\ cards' = cards \intersect con[c].now
                  /\ Touched(c, cards \ con[c].now)
                  /\ UNCHANGED <<hub, live, started, idle, page, visits, breaks>>

Announce(c) == /\ At(c, "gone")
               /\ IF con[c].gone = {}
                  THEN To(c, [con[c] EXCEPT !.pc = "add"])
                  ELSE \E h \in con[c].gone :
                         To(c, [con[c] EXCEPT !.gone = @ \ {h}, !.out = Cleared(h)])
               /\ UNCHANGED <<hub, bridge, page, visits, breaks, lost>>

\* cardFor: the card is stored first and published afterwards.
Store(c, h, next) == /\ cards' = cards \union {h}
                     /\ To(c, [next EXCEPT !.out = IF h \in cards THEN NoChange ELSE Raised(h)])

Add(c) == /\ At(c, "add")
          /\ IF con[c].now = {}
             THEN /\ To(c, [con[c] EXCEPT !.pc = "connect"])
                  /\ UNCHANGED <<cards, lost>>
             ELSE \E h \in con[c].now :
                    /\ Store(c, h, [con[c] EXCEPT !.now = @ \ {h}])
                    /\ Touched(c, {h})
          /\ UNCHANGED <<hub, live, started, idle, page, visits, breaks>>

\* StreamPending reaches handlePendingEvents, which subscribes first.
Connect(c) == /\ At(c, "connect")
              /\ To(c, IF c = live THEN [con[c] EXCEPT !.pc = "list"] ELSE Ended)
              /\ UNCHANGED <<hub, bridge, page, visits, breaks, lost>>

List_BeforeSubscribe(c) ==
  /\ At(c, "list")
  /\ To(c, [con[c] EXCEPT !.pc = "open", !.snap = up, !.queue = <<>>])
  /\ UNCHANGED <<hub, bridge, page, visits, breaks, lost>>

\* Then it lists what is up, ahead of whatever its channel has.
List(c) == /\ At(c, "list")
           /\ To(c, [con[c] EXCEPT !.pc = "open", !.snap = up])
           /\ UNCHANGED <<hub, bridge, page, visits, breaks, lost>>

\* onPending, of the snapshot and then of the channel.  Taking the card down
\* and telling the pages are two steps, as storing it and telling them are.
OnRaised(c, h, next) == Store(c, h, next)
OnCleared(c, h, next) == /\ cards' = cards \ {h}
                         /\ To(c, [next EXCEPT !.out = Cleared(h)])

OnPending(c) ==
  /\ At(c, "open")
  /\ \/ \E h \in con[c].snap :
          /\ OnRaised(c, h, [con[c] EXCEPT !.snap = @ \ {h}])
          /\ Touched(c, {h})
     \/ /\ con[c].snap = {}
        /\ con[c].queue # <<>>
        /\ LET n == Head(con[c].queue)
               next == [con[c] EXCEPT !.queue = Tail(@)]
           IN  /\ IF n.kind = "raised" THEN OnRaised(c, n.hand, next)
                                       ELSE OnCleared(c, n.hand, next)
               /\ Touched(c, {n.hand})
  /\ UNCHANGED <<hub, live, started, idle, page, visits, breaks>>

\* emit: a page whose channel is full misses the frame.
Emit(c) == /\ con[c].out # NoChange
           /\ To(c, [con[c] EXCEPT !.out = NoChange])
           /\ page' = IF page.pc = "away" THEN page
                      ELSE IF Len(page.frames) < PageBuffer
                           THEN [page EXCEPT !.frames = Append(@, con[c].out)]
                           ELSE [page EXCEPT !.blind = TRUE]
           /\ UNCHANGED <<hub, bridge, visits, breaks, lost>>

\* The stream ends, stalls, or its context is cancelled.
StreamEnds(c) == /\ con[c].pc \in {"list", "open"}
                 /\ con[c].out = NoChange
                 /\ IF c = live THEN breaks < MaxBreaks /\ breaks' = breaks + 1
                                ELSE UNCHANGED breaks
                 /\ To(c, Round(c))
                 /\ UNCHANGED <<hub, bridge, page, visits, lost>>

-----------------------------------------------------------------------------
(* The page.                                                               *)

Subscribe_NoRevive(screen) ==
  /\ page' = [pc |-> "history", frames |-> <<>>, screen |-> screen,
               blind |-> screen # {} \/ Old # {} \/ lost # {}]
  /\ visits' = visits + 1
  /\ idle' = FALSE
  /\ UNCHANGED <<hub, con, cards, live, started, breaks, lost>>

\* Subscribe: the timer is stopped, and a bridge that had stopped revives.
Subscribe(screen) ==
  /\ page' = [pc |-> "history", frames |-> <<>>, screen |-> screen, 
               blind |-> screen # {} \/ Old # {} \/ lost # {}]
  /\ visits' = visits + 1
  /\ idle' = FALSE
  /\ IF live = 0
     THEN /\ started' = started + 1
          /\ live' = started'
          /\ To(started', Fresh)
     ELSE UNCHANGED <<live, started, con>>
  /\ UNCHANGED <<hub, cards, breaks, lost>>

CanVisit == /\ page.pc = "away"
            /\ visits < MaxVisits
            /\ live = 0 => started + 1 \in Consumers

\* A page load.
Load == CanVisit /\ Subscribe({})

\* The page's EventSource reconnects by itself, and keeps what it shows.
Reconnect == CanVisit /\ page.screen # {} /\ Subscribe(page.screen)

History_Window == /\ page.pc = "history"
                  /\ page' = [page EXCEPT !.pc = "live"]
                  /\ UNCHANGED <<hub, con, bridge, visits, breaks, lost>>

\* history, withPending: the cards follow the transcript, if the guest gave one.
History == /\ page.pc = "history"
           /\ page' = [page EXCEPT !.pc = "live", !.screen = @ \union cards]
           /\ UNCHANGED <<hub, con, bridge, visits, breaks, lost>>

NoHistory == /\ page.pc = "history"
             /\ page' = [page EXCEPT !.pc = "live", !.blind = TRUE]
             /\ UNCHANGED <<hub, con, bridge, visits, breaks, lost>>

\* renderPending passes over a card it shows; renderResolved closes it.
Shown(n, screen) == IF n.kind = "raised" THEN screen \union {n.hand} ELSE screen \ {n.hand}

\* pump and emitFrame: a frame without an id is always forwarded.
Render == /\ page.pc = "live"
          /\ page.frames # <<>>
          /\ LET n == Head(page.frames) IN
               page' = [page EXCEPT !.frames = Tail(@), !.screen = Shown(n, @)]
          /\ UNCHANGED <<hub, con, bridge, visits, breaks, lost>>

\* Unsubscribe: the last one out starts the timer.
Leave == /\ page.pc # "away"
         /\ page' = [Away EXCEPT !.screen = page.screen]
         /\ idle' = TRUE
         /\ UNCHANGED <<hub, con, cards, live, started, visits, breaks, lost>>

\* stopIfEmpty, after idleGrace.
StopIfEmpty == /\ idle
               /\ page.pc = "away"
               /\ live # 0
               /\ live' = 0
               /\ UNCHANGED <<hub, con, cards, started, idle, page, visits, breaks, lost>>

-----------------------------------------------------------------------------

Consume(c) == \/ Poll(c) \/ Stops(c) \/ DropMissing(c) \/ Announce(c) \/ Add(c)
              \/ Connect(c) \/ List(c) \/ OnPending(c) \/ Emit(c) \/ StreamEnds(c)

Next == \/ \E h \in Hands : Raise(h) \/ Clear(h)
        \/ \E n \in duty : Publish(n)
        \/ GuestRestart
        \/ \E c \in Consumers : Consume(c)
        \/ Load \/ Reconnect \/ History \/ NoHistory \/ Render \/ Leave \/ StopIfEmpty

Spec == Init /\ [][Next]_vars

\* A goroutine that can take its next step takes it, a retried request gets
\* through in the end, and a page that is connected reads.
Goes(c) == \/ DropMissing(c) \/ Announce(c) \/ Add(c) \/ Connect(c) \/ List(c)
           \/ OnPending(c) \/ Emit(c)

FairSpec == /\ Spec
            /\ \A h \in Hands : WF_vars(Publish(Raised(h))) /\ WF_vars(Publish(Cleared(h)))
            /\ \A c \in Consumers : WF_vars(Goes(c)) /\ SF_vars(Poll(c))
            /\ WF_vars(History \/ NoHistory)
            /\ WF_vars(Render)

-----------------------------------------------------------------------------
(* Properties.                                                             *)

\* The bridge has dealt with everything its stream gave it.
Settled == /\ live # 0
           /\ con[live].pc = "open"
           /\ con[live].snap = {} /\ con[live].queue = <<>> /\ con[live].out = NoChange
           /\ duty = {}

\* Between changes the bridge's cards are the hands that are up, except for a
\* change that fell between its poll and its stream, was dropped for a full
\* listener or was published out of order (resync, onPending, publish,
\* handlePendingEvents).
BoardAgrees == Settled /\ Old = {} => \A h \in Hands \ lost : h \in cards <=> h \in up

\* A page that was loaded shows the bridge's cards once it has read its frames,
\* however old the cards are: a frame that is in the history too does no harm
\* (pump, withPending, renderPending, renderResolved).
PageAgrees ==
  /\ page.pc = "live"
  /\ page.frames = <<>>
  /\ ~ page.blind
  /\ \A c \in Consumers : con[c].out = NoChange /\ con[c].gone = {}
  => page.screen = cards

\* A hand that is up while somebody watches gets its card on the page, unless it
\* goes down, the page leaves or misses frames, or the change was lost.
UpIsSeen ==
  \A h \in Hands :
    (h \in up /\ page.pc # "away")
      ~> (h \in page.screen \/ h \notin up \/ page.pc = "away" \/ page.blind \/ h \in lost)

\* What stream.go says of a dropped frame: "a dropped frame heals itself".  Not so
\* of a hand that goes down between the poll and the stream, or whose notice a
\* full listener dropped: its card stays until the stream breaks.
DroppedHeals ==
  \A h \in Hands :
    (h \in cards /\ hand[h] = "down") ~> (h \notin cards \/ live = 0)

\* A bridge alone at work, with no change lost since it polled, takes down only
\* cards of hands that are down (resync, onPending, cardFor, forget).
Board == INSTANCE CardBoard WITH board <- cards, calm <- (Old = {} /\ lost = {})
BoardPromise == Board!BoardSpec
=============================================================================
