----------------------------- MODULE HandsProofs -----------------------------
(***************************************************************************)
(* The cards of the operator's page, for any number of hands, consumers,   *)
(* visits, lost streams and restarts, and channels of any size: the board  *)
(* keeps CardBoard's promise, agrees with the hub when its stream is       *)
(* settled, and a page that missed nothing shows the board.                *)
(***************************************************************************)
EXTENDS Hands, TLAPS

-----------------------------------------------------------------------------
(* Types.                                                                  *)

Changes == [kind : {"raised", "cleared"}, hand : Hands]

PCs == {"none", "poll", "diff", "gone", "add", "connect", "list", "open", "ended"}
Consumer == [pc : PCs, now : SUBSET Hands, gone : SUBSET Hands, snap : SUBSET Hands,
             queue : Seq(Changes), out : Changes \union {NoChange}]

HandsTypes ==
  /\ hand \in [Hands -> {"never", "up", "down"}]
  /\ duty \subseteq Changes
  /\ con \in [Consumers -> Consumer]
  /\ cards \subseteq Hands
  /\ live \in Consumers \union {0}
  /\ page \in [pc : {"away", "history", "live"}, frames : Seq(Changes),
               screen : SUBSET Hands, blind : BOOLEAN]
  /\ lost \subseteq Hands

\* What a consumer holds at each stage: its poll until the cards are stored, the
\* cards to take down while it announces them, the stream once it listens.
Stages ==
  \A c \in Consumers :
    /\ con[c].pc \notin {"diff", "gone", "add"} => con[c].now = {}
    /\ con[c].pc # "gone" => con[c].gone = {}
    /\ con[c].pc # "open" => con[c].snap = {}
    /\ con[c].pc \notin {"list", "open"} => con[c].queue = <<>>

-----------------------------------------------------------------------------
(* What travels was true once.                                             *)

InQueue(q, n) == \E i \in 1..Len(q) : q[i] = n

\* A change says of a hand what has come to pass, and a hand is raised once.
Happened(n) == /\ hand[n.hand] # "never"
               /\ n.kind = "cleared" => hand[n.hand] = "down"

AllHappened ==
  /\ \A n \in duty : Happened(n)
  /\ \A c \in Consumers : \A i \in 1..Len(con[c].queue) : Happened(con[c].queue[i])
  /\ \A c \in Consumers : \A h \in con[c].now \union con[c].snap : hand[h] # "never"
  /\ \A h \in cards : hand[h] # "never"

-----------------------------------------------------------------------------
(* What the live consumer has still to hear.                               *)

L == con[live]
Polled == {"diff", "gone", "add", "connect", "list", "open"}

\* A card that the poll did not list is of a hand that is down.
DropsDown(h) == L.pc = "diff" /\ h \in cards \ L.now => hand[h] = "down"

\* A hand that is up has its card, or the consumer has it before it.
UpComes(h) ==
  hand[h] = "up" /\ L.pc \in Polled =>
    \/ Raised(h) \in duty \/ InQueue(L.queue, Raised(h))
    \/ h \in L.now \union L.snap
    \/ L.pc # "diff" /\ h \in cards

\* A hand that is down has no card, or the consumer has the change before it, and
\* behind any notice that the hand is up.
DownComes(h) ==
  hand[h] = "down" /\ L.pc \in Polled =>
    /\ h \in L.now \union L.snap \/ (L.pc # "diff" /\ h \in cards)
         => Cleared(h) \in duty \/ InQueue(L.queue, Cleared(h))
    /\ \A i \in 1..Len(L.queue) : L.queue[i] = Raised(h) =>
         Cleared(h) \in duty \/ \E k \in (i + 1)..Len(L.queue) : L.queue[k] = Cleared(h)

Hears(h) == DropsDown(h) /\ UpComes(h) /\ DownComes(h)
Comes == live # 0 => \A h \in Hands \ lost : Hears(h)

BoardInv == HandsTypes /\ Stages /\ AllHappened /\ Comes

-----------------------------------------------------------------------------
(* What a page has still to read.                                          *)

\* The consumer at work tells of the cards what is so.
TellsTrue(h) == /\ L.out = Raised(h) => h \in cards
                /\ L.out = Cleared(h) => h \notin cards
                /\ h \in L.gone => h \notin cards
TellsLive == live # 0 => \A h \in Hands \ lost : TellsTrue(h)

\* Of a hand the consumer has nothing to tell, the last frame says what is so;
\* with no frame left, the screen does.
Untold(h) == h \notin L.gone /\ L.out # Raised(h) /\ L.out # Cleared(h)
LastFrame(i, h) == /\ page.frames[i].hand = h
                   /\ \A k \in (i + 1)..Len(page.frames) : page.frames[k].hand # h
FramesTrue(h) ==
  Untold(h) =>
    /\ \A i \in 1..Len(page.frames) :
         LastFrame(i, h) => (page.frames[i].kind = "raised" <=> h \in cards)
    /\ page.pc = "live" /\ (\A i \in 1..Len(page.frames) : page.frames[i].hand # h)
         => (h \in page.screen <=> h \in cards)

Reading == page.pc # "away" /\ ~ page.blind

PageInv == Reading => /\ live # 0 /\ Old = {}
                      /\ page.pc = "history" => page.screen = {}
                      /\ \A h \in Hands : TellsTrue(h) /\ FramesTrue(h)

-----------------------------------------------------------------------------
(* Sequences.                                                              *)

\* publish and emit append to a channel.
LEMMA Appended ==
  ASSUME NEW S, NEW s \in Seq(S), NEW e \in S
  PROVE  /\ Append(s, e) \in Seq(S)
         /\ Len(Append(s, e)) = Len(s) + 1
         /\ \A i \in 1..Len(s) : Append(s, e)[i] = s[i]
         /\ Append(s, e)[Len(s) + 1] = e
OBVIOUS

\* onPending and pump take from its head.
LEMMA Headed ==
  ASSUME NEW S, NEW s \in Seq(S), s # <<>>
  PROVE  /\ Head(s) = s[1] /\ Head(s) \in S
         /\ Tail(s) \in Seq(S)
         /\ Len(s) \in Nat \ {0} /\ Len(Tail(s)) = Len(s) - 1
         /\ \A i \in 1..Len(Tail(s)) : Tail(s)[i] = s[i + 1]
OBVIOUS

-----------------------------------------------------------------------------
(* What each step of a consumer makes of its state.                        *)

\* Consumer c has come to this, and the others are as they were.
Becomes(c, pc, now, gone, snap, queue, out) ==
  /\ con' \in [Consumers -> Consumer]
  /\ \A d \in Consumers : d # c => con'[d] = con[d]
  /\ con'[c].pc = pc
  /\ con'[c].now = now
  /\ con'[c].gone = gone
  /\ con'[c].snap = snap
  /\ con'[c].queue = queue
  /\ con'[c].out = out

\* The three states a consumer is set to.
LEMMA ConsumerStates ==
  /\ Fresh \in Consumer /\ Unborn \in Consumer /\ Ended \in Consumer
  /\ Fresh.pc = "poll" /\ Unborn.pc = "none" /\ Ended.pc = "ended"
  /\ \A x \in {Fresh, Unborn, Ended} :
       x.now = {} /\ x.gone = {} /\ x.snap = {} /\ x.queue = <<>> /\ x.out = NoChange
<1>1. <<>> \in Seq(Changes)
  OBVIOUS
<1>2. Fresh \in Consumer
  <2>1. \A q : q \in Seq(Changes) =>
          [pc |-> "poll", now |-> {}, gone |-> {}, snap |-> {}, queue |-> q, out |-> NoChange]
             \in Consumer
    BY DEF Consumer, PCs
  <2> QED
    BY <1>1, <2>1 DEF Fresh
<1>3. Unborn \in Consumer /\ Ended \in Consumer
  BY <1>2 DEF Unborn, Ended, Consumer, PCs
<1>4. /\ Fresh.pc = "poll" /\ Fresh.now = {} /\ Fresh.gone = {} /\ Fresh.snap = {}
      /\ Fresh.queue = <<>> /\ Fresh.out = NoChange
  BY DEF Fresh
<1>5. /\ Unborn.pc = "none" /\ Unborn.now = {} /\ Unborn.gone = {} /\ Unborn.snap = {}
      /\ Unborn.queue = <<>> /\ Unborn.out = NoChange
  BY <1>2, <1>4 DEF Unborn, Consumer
<1>6. /\ Ended.pc = "ended" /\ Ended.now = {} /\ Ended.gone = {} /\ Ended.snap = {}
      /\ Ended.queue = <<>> /\ Ended.out = NoChange
  BY <1>2, <1>4 DEF Ended, Consumer
<1> QED
  BY <1>2, <1>3, <1>4, <1>5, <1>6

\* reconnect starts a round, or returns.
LEMMA Rounds ==
  ASSUME NEW c
  PROVE  /\ Round(c) \in Consumer /\ Round(c) \in {Fresh, Ended}
         /\ Round(c).pc = IF c = live THEN "poll" ELSE "ended"
         /\ Round(c).now = {} /\ Round(c).gone = {} /\ Round(c).snap = {}
         /\ Round(c).queue = <<>> /\ Round(c).out = NoChange
BY ConsumerStates DEF Round

\* A consumer is set to a state.
LEMMA SetTo ==
  ASSUME HandsTypes, NEW c \in Consumers, NEW y \in Consumer, To(c, y)
  PROVE  Becomes(c, y.pc, y.now, y.gone, y.snap, y.queue, y.out)
BY DEF HandsTypes, To, Becomes

\* Pending: the consumer has what is up, and takes the difference next.
LEMMA PollDoes ==
  ASSUME HandsTypes, NEW c \in Consumers, Poll(c)
  PROVE  Becomes(c, "diff", up, con[c].gone, con[c].snap, con[c].queue, NoChange)
<1> DEFINE y == [con[c] EXCEPT !.pc = "diff", !.now = up]
<1>1. con[c] \in Consumer /\ up \in SUBSET Hands /\ "diff" \in PCs /\ con[c].out = NoChange
  BY DEF HandsTypes, PCs, up, Poll, At
<1>2. y \in Consumer
  BY <1>1 DEF Consumer
<1>3. /\ y.pc = "diff" /\ y.now = up /\ y.gone = con[c].gone /\ y.snap = con[c].snap
      /\ y.queue = con[c].queue /\ y.out = NoChange
  BY <1>1 DEF Consumer
<1>4. To(c, y)
  BY DEF Poll
<1> HIDE DEF y
<1> QED
  BY <1>2, <1>3, <1>4, SetTo

\* A cancelled consumer returns with nothing in its hands.
LEMMA StopsDoes ==
  ASSUME HandsTypes, NEW c \in Consumers, Stops(c)
  PROVE  Becomes(c, "ended", {}, {}, {}, <<>>, NoChange)
BY ConsumerStates, SetTo DEF Stops

\* dropMissing: the cards that are not in the poll have to be announced.
LEMMA DropMissingDoes ==
  ASSUME HandsTypes, NEW c \in Consumers, DropMissing(c)
  PROVE  Becomes(c, "gone", con[c].now, cards \ con[c].now, con[c].snap, con[c].queue, NoChange)
<1> DEFINE y == [con[c] EXCEPT !.pc = "gone", !.gone = cards \ con[c].now]
<1>1. con[c] \in Consumer /\ cards \in SUBSET Hands /\ "gone" \in PCs /\ con[c].out = NoChange
  BY DEF HandsTypes, PCs, DropMissing, At
<1>2. y \in Consumer
  BY <1>1 DEF Consumer
<1>3. /\ y.pc = "gone" /\ y.now = con[c].now /\ y.gone = cards \ con[c].now
      /\ y.snap = con[c].snap /\ y.queue = con[c].queue /\ y.out = NoChange
  BY <1>1 DEF Consumer
<1>4. To(c, y)
  BY DEF DropMissing
<1> HIDE DEF y
<1> QED
  BY <1>2, <1>3, <1>4, SetTo

\* One card after the other, and on when there is none.
LEMMA AnnounceDoes ==
  ASSUME HandsTypes, NEW c \in Consumers, Announce(c)
  PROVE  \/ /\ con[c].gone = {}
            /\ Becomes(c, "add", con[c].now, {}, con[c].snap, con[c].queue, NoChange)
         \/ \E h \in con[c].gone :
              Becomes(c, "gone", con[c].now, con[c].gone \ {h}, con[c].snap, con[c].queue, Cleared(h))
<1>1. con[c] \in Consumer /\ "add" \in PCs /\ con[c].pc = "gone" /\ con[c].out = NoChange
  BY DEF HandsTypes, PCs, Announce, At
<1>2. CASE con[c].gone = {}
  <2> DEFINE y == [con[c] EXCEPT !.pc = "add"]
  <2>1. y \in Consumer
    BY <1>1 DEF Consumer
  <2>2. /\ y.pc = "add" /\ y.now = con[c].now /\ y.gone = {} /\ y.snap = con[c].snap
        /\ y.queue = con[c].queue /\ y.out = NoChange
    BY <1>1, <1>2 DEF Consumer
  <2>3. To(c, y)
    BY <1>2 DEF Announce
  <2> HIDE DEF y
  <2> QED
    BY <1>2, <2>1, <2>2, <2>3, SetTo
<1>3. CASE con[c].gone # {}
  <2>1. PICK h \in con[c].gone : To(c, [con[c] EXCEPT !.gone = @ \ {h}, !.out = Cleared(h)])
    BY <1>3 DEF Announce
  <2> DEFINE y == [con[c] EXCEPT !.gone = @ \ {h}, !.out = Cleared(h)]
  <2>2. h \in Hands /\ Cleared(h) \in Changes
    BY <1>1, <2>1 DEF Consumer, Cleared, Changes
  <2>3. y \in Consumer
    BY <1>1, <2>2 DEF Consumer
  <2>4. /\ y.pc = "gone" /\ y.now = con[c].now /\ y.gone = con[c].gone \ {h}
        /\ y.snap = con[c].snap /\ y.queue = con[c].queue /\ y.out = Cleared(h)
    BY <1>1 DEF Consumer
  <2> HIDE DEF y
  <2>5. To(c, y)
    BY <2>1 DEF y
  <2> QED
    BY <2>1, <2>3, <2>4, <2>5, SetTo
<1> QED
  BY <1>2, <1>3

\* What cardFor tells the pages of a card it has stored.
Told(h) == IF h \in cards THEN NoChange ELSE Raised(h)

\* cardFor stores a card, and the frame is for a card that was not there.
LEMMA StoreDoes ==
  ASSUME HandsTypes, NEW c \in Consumers, NEW h \in Hands, NEW x \in Consumer, x.out = NoChange,
         Store(c, h, x)
  PROVE  /\ cards' = cards \union {h}
         /\ Becomes(c, x.pc, x.now, x.gone, x.snap, x.queue, Told(h))
<1> DEFINE y == [x EXCEPT !.out = Told(h)]
<1>1. Told(h) \in Changes \union {NoChange}
  BY DEF Told, Raised, Changes
<1>2. To(c, y) /\ cards' = cards \union {h}
  BY DEF Store, Told
<1>3. y \in Consumer
  BY <1>1 DEF Consumer
<1>4. /\ y.pc = x.pc /\ y.now = x.now /\ y.gone = x.gone /\ y.snap = x.snap
      /\ y.queue = x.queue /\ y.out = Told(h)
  BY DEF Consumer
<1> HIDE DEF y
<1> QED
  BY <1>2, <1>3, <1>4, SetTo

\* resync goes through the poll hand by hand, and on to the stream at the end.
LEMMA AddDoes ==
  ASSUME HandsTypes, NEW c \in Consumers, Add(c)
  PROVE  \/ /\ con[c].now = {}
            /\ UNCHANGED <<cards, lost>>
            /\ Becomes(c, "connect", {}, con[c].gone, con[c].snap, con[c].queue, NoChange)
         \/ \E h \in con[c].now :
              /\ cards' = cards \union {h}
              /\ lost' = IF c = live THEN lost ELSE lost \union {h}
              /\ Becomes(c, "add", con[c].now \ {h}, con[c].gone, con[c].snap, con[c].queue,
                         Told(h))
<1>1. con[c] \in Consumer /\ "connect" \in PCs /\ con[c].pc = "add" /\ con[c].out = NoChange
  BY DEF HandsTypes, PCs, Add, At
<1>2. CASE con[c].now = {}
  <2> DEFINE y == [con[c] EXCEPT !.pc = "connect"]
  <2>1. y \in Consumer
    BY <1>1 DEF Consumer
  <2>2. /\ y.pc = "connect" /\ y.now = {} /\ y.gone = con[c].gone /\ y.snap = con[c].snap
        /\ y.queue = con[c].queue /\ y.out = NoChange
    BY <1>1, <1>2 DEF Consumer
  <2>3. To(c, y) /\ UNCHANGED <<cards, lost>>
    BY <1>2 DEF Add
  <2> HIDE DEF y
  <2> QED
    BY <1>2, <2>1, <2>2, <2>3, SetTo
<1>3. CASE con[c].now # {}
  <2>1. PICK h \in con[c].now : /\ Store(c, h, [con[c] EXCEPT !.now = @ \ {h}])
                                /\ Touched(c, {h})
    BY <1>3 DEF Add
  <2> DEFINE x == [con[c] EXCEPT !.now = @ \ {h}]
  <2>2. x \in Consumer /\ h \in Hands
    BY <1>1, <2>1 DEF Consumer
  <2>3. /\ x.pc = "add" /\ x.now = con[c].now \ {h} /\ x.gone = con[c].gone
        /\ x.snap = con[c].snap /\ x.queue = con[c].queue /\ x.out = NoChange
    BY <1>1 DEF Consumer
  <2> HIDE DEF x
  <2>4. Store(c, h, x)
    BY <2>1 DEF x
  <2>5. /\ cards' = cards \union {h}
        /\ Becomes(c, x.pc, x.now, x.gone, x.snap, x.queue, Told(h))
    BY <2>2, <2>3, <2>4, StoreDoes
  <2>6. Becomes(c, "add", con[c].now \ {h}, con[c].gone, con[c].snap, con[c].queue, Told(h))
    BY <2>3, <2>5
  <2>7. lost' = IF c = live THEN lost ELSE lost \union {h}
    BY <2>1 DEF Touched
  <2> QED
    BY <2>1, <2>5, <2>6, <2>7
<1> QED
  BY <1>2, <1>3

\* StreamPending: the live consumer listens, a cancelled one returns.
LEMMA ConnectDoes ==
  ASSUME HandsTypes, NEW c \in Consumers, Connect(c)
  PROVE  \/ /\ c = live
            /\ Becomes(c, "list", con[c].now, con[c].gone, con[c].snap, con[c].queue, NoChange)
         \/ c # live /\ Becomes(c, "ended", {}, {}, {}, <<>>, NoChange)
<1>1. CASE c = live
  <2> DEFINE y == [con[c] EXCEPT !.pc = "list"]
  <2>1. con[c] \in Consumer /\ "list" \in PCs /\ con[c].out = NoChange
    BY DEF HandsTypes, PCs, Connect, At
  <2>2. y \in Consumer
    BY <2>1 DEF Consumer
  <2>3. /\ y.pc = "list" /\ y.now = con[c].now /\ y.gone = con[c].gone /\ y.snap = con[c].snap
        /\ y.queue = con[c].queue /\ y.out = NoChange
    BY <2>1 DEF Consumer
  <2>4. To(c, y)
    BY <1>1 DEF Connect
  <2> HIDE DEF y
  <2> QED
    BY <1>1, <2>2, <2>3, <2>4, SetTo
<1>2. CASE c # live
  BY <1>2, ConsumerStates, SetTo DEF Connect
<1> QED
  BY <1>1, <1>2

\* handlePendingEvents: the snapshot goes ahead of what the channel has.
LEMMA ListDoes ==
  ASSUME HandsTypes, NEW c \in Consumers, List(c)
  PROVE  Becomes(c, "open", con[c].now, con[c].gone, up, con[c].queue, NoChange)
<1> DEFINE y == [con[c] EXCEPT !.pc = "open", !.snap = up]
<1>1. con[c] \in Consumer /\ up \in SUBSET Hands /\ "open" \in PCs /\ con[c].out = NoChange
  BY DEF HandsTypes, PCs, up, List, At
<1>2. y \in Consumer
  BY <1>1 DEF Consumer
<1>3. /\ y.pc = "open" /\ y.now = con[c].now /\ y.gone = con[c].gone /\ y.snap = up
      /\ y.queue = con[c].queue /\ y.out = NoChange
  BY <1>1 DEF Consumer
<1>4. To(c, y)
  BY DEF List
<1> HIDE DEF y
<1> QED
  BY <1>2, <1>3, <1>4, SetTo

\* A hand of the snapshot, or the head of the channel when there is none.
LEMMA OnPendingDoes ==
  ASSUME HandsTypes, NEW c \in Consumers, OnPending(c)
  PROVE  \/ \E h \in con[c].snap :
              /\ cards' = cards \union {h}
              /\ lost' = IF c = live THEN lost ELSE lost \union {h}
              /\ Becomes(c, "open", con[c].now, con[c].gone, con[c].snap \ {h}, con[c].queue,
                         Told(h))
         \/ /\ con[c].snap = {} /\ con[c].queue # <<>>
            /\ LET n == Head(con[c].queue) IN
                 /\ n \in Changes
                 /\ lost' = IF c = live THEN lost ELSE lost \union {n.hand}
                 /\ \/ /\ n = Raised(n.hand)
                       /\ cards' = cards \union {n.hand}
                       /\ Becomes(c, "open", con[c].now, con[c].gone, {}, Tail(con[c].queue),
                                  Told(n.hand))
                    \/ /\ n = Cleared(n.hand)
                       /\ cards' = cards \ {n.hand}
                       /\ Becomes(c, "open", con[c].now, con[c].gone, {}, Tail(con[c].queue),
                                  Cleared(n.hand))
<1>1. con[c] \in Consumer /\ con[c].pc = "open" /\ con[c].out = NoChange
  BY DEF HandsTypes, OnPending, At
<1>2. ASSUME NEW h \in con[c].snap, OnRaised(c, h, [con[c] EXCEPT !.snap = @ \ {h}]), Touched(c, {h})
      PROVE  /\ cards' = cards \union {h}
             /\ lost' = IF c = live THEN lost ELSE lost \union {h}
             /\ Becomes(c, "open", con[c].now, con[c].gone, con[c].snap \ {h}, con[c].queue,
                        Told(h))
  <2> DEFINE x == [con[c] EXCEPT !.snap = @ \ {h}]
  <2>1. x \in Consumer /\ h \in Hands
    BY <1>1 DEF Consumer
  <2>2. /\ x.pc = "open" /\ x.now = con[c].now /\ x.gone = con[c].gone
        /\ x.snap = con[c].snap \ {h} /\ x.queue = con[c].queue /\ x.out = NoChange
    BY <1>1 DEF Consumer
  <2> HIDE DEF x
  <2>3. Store(c, h, x)
    BY <1>2 DEF x, OnRaised
  <2>4. /\ cards' = cards \union {h}
        /\ Becomes(c, x.pc, x.now, x.gone, x.snap, x.queue, Told(h))
    BY <2>1, <2>2, <2>3, StoreDoes
  <2>5. Becomes(c, "open", con[c].now, con[c].gone, con[c].snap \ {h}, con[c].queue, Told(h))
    BY <2>2, <2>4
  <2> QED
    BY <1>2, <2>4, <2>5 DEF Touched
<1>3. ASSUME con[c].snap = {}, con[c].queue # <<>>,
             LET n == Head(con[c].queue)
                 next == [con[c] EXCEPT !.queue = Tail(@)]
             IN  /\ IF n.kind = "raised" THEN OnRaised(c, n.hand, next)
                                         ELSE OnCleared(c, n.hand, next)
                 /\ Touched(c, {n.hand})
      PROVE  LET n == Head(con[c].queue) IN
               /\ n \in Changes
               /\ lost' = IF c = live THEN lost ELSE lost \union {n.hand}
               /\ \/ /\ n = Raised(n.hand)
                     /\ cards' = cards \union {n.hand}
                     /\ Becomes(c, "open", con[c].now, con[c].gone, {}, Tail(con[c].queue),
                                Told(n.hand))
                  \/ /\ n = Cleared(n.hand)
                     /\ cards' = cards \ {n.hand}
                     /\ Becomes(c, "open", con[c].now, con[c].gone, {}, Tail(con[c].queue),
                                Cleared(n.hand))
  <2> DEFINE n == Head(con[c].queue)
  <2> DEFINE x == [con[c] EXCEPT !.queue = Tail(@)]
  <2>1. con[c].queue \in Seq(Changes)
    BY <1>1 DEF Consumer
  <2>2. n \in Changes /\ Tail(con[c].queue) \in Seq(Changes)
    BY <1>3, <2>1, Headed
  <2>3. x \in Consumer
    BY <1>1, <2>2 DEF Consumer
  <2>4. /\ x.pc = "open" /\ x.now = con[c].now /\ x.gone = con[c].gone
        /\ x.snap = {} /\ x.queue = Tail(con[c].queue) /\ x.out = NoChange
    BY <1>1, <1>3 DEF Consumer
  <2>5. /\ IF n.kind = "raised" THEN OnRaised(c, n.hand, x) ELSE OnCleared(c, n.hand, x)
        /\ Touched(c, {n.hand})
    BY <1>3
  <2> HIDE DEF n, x
  <2>6. n.hand \in Hands
    BY <2>2 DEF Changes
  <2>7. CASE n.kind = "raised"
    <3>1. n = Raised(n.hand)
      BY <2>2, <2>7 DEF Changes, Raised
    <3>2. Store(c, n.hand, x)
      BY <2>5, <2>7 DEF OnRaised
    <3>3. /\ cards' = cards \union {n.hand}
          /\ Becomes(c, x.pc, x.now, x.gone, x.snap, x.queue, Told(n.hand))
      BY <2>3, <2>4, <2>6, <3>2, StoreDoes
    <3>4. Becomes(c, "open", con[c].now, con[c].gone, {}, Tail(con[c].queue), Told(n.hand))
      BY <2>4, <3>3
    <3> QED
      BY <2>2, <2>5, <3>1, <3>3, <3>4 DEF n, Touched
  <2>8. CASE n.kind # "raised"
    <3>1. n = Cleared(n.hand)
      BY <2>2, <2>8 DEF Changes, Cleared
    <3> DEFINE y == [x EXCEPT !.out = Cleared(n.hand)]
    <3>2. cards' = cards \ {n.hand} /\ To(c, y)
      BY <2>5, <2>8 DEF OnCleared
    <3>3. Cleared(n.hand) \in Changes
      BY <2>6 DEF Cleared, Changes
    <3>4. y \in Consumer
      BY <2>3, <3>3 DEF Consumer
    <3>5. /\ y.pc = "open" /\ y.now = con[c].now /\ y.gone = con[c].gone
          /\ y.snap = {} /\ y.queue = Tail(con[c].queue) /\ y.out = Cleared(n.hand)
      BY <2>3, <2>4 DEF Consumer
    <3> HIDE DEF y
    <3>6. Becomes(c, "open", con[c].now, con[c].gone, {}, Tail(con[c].queue), Cleared(n.hand))
      BY <3>2, <3>4, <3>5, SetTo
    <3> QED
      BY <2>2, <2>5, <3>1, <3>2, <3>6 DEF n, Touched
  <2> QED
    BY <2>7, <2>8
<1> QED
  BY <1>2, <1>3 DEF OnPending

\* emit: the frame is out, and nothing else of the consumer has changed.
LEMMA EmitDoes ==
  ASSUME HandsTypes, NEW c \in Consumers, Emit(c)
  PROVE  /\ con[c].out \in Changes
         /\ Becomes(c, con[c].pc, con[c].now, con[c].gone, con[c].snap, con[c].queue, NoChange)
<1> DEFINE y == [con[c] EXCEPT !.out = NoChange]
<1>1. con[c] \in Consumer
  BY DEF HandsTypes
<1>2. con[c].out \in Changes
  BY <1>1 DEF Consumer, Emit
<1>3. y \in Consumer
  BY <1>1 DEF Consumer
<1>4. /\ y.pc = con[c].pc /\ y.now = con[c].now /\ y.gone = con[c].gone /\ y.snap = con[c].snap
      /\ y.queue = con[c].queue /\ y.out = NoChange
  BY <1>1 DEF Consumer
<1>5. To(c, y)
  BY DEF Emit
<1> HIDE DEF y
<1> QED
  BY <1>2, <1>3, <1>4, <1>5, SetTo

\* reconnect: the consumer is back at the top of its loop, or returns.
LEMMA StreamEndsDoes ==
  ASSUME HandsTypes, NEW c \in Consumers, StreamEnds(c)
  PROVE  Becomes(c, IF c = live THEN "poll" ELSE "ended", {}, {}, {}, <<>>, NoChange)
<1>1. To(c, Round(c))
  BY DEF StreamEnds
<1> HIDE DEF Round
<1> QED
  BY <1>1, Rounds, SetTo

\* publish appends to the channels of those who listen.
LEMMA PublishDoes ==
  ASSUME HandsTypes, NEW n \in duty, Publish(n)
  PROVE  /\ n \in Changes
         /\ con' \in [Consumers -> Consumer]
         /\ \A c \in Consumers :
              /\ con'[c].pc = con[c].pc /\ con'[c].now = con[c].now /\ con'[c].gone = con[c].gone
              /\ con'[c].snap = con[c].snap /\ con'[c].out = con[c].out
              /\ con'[c].queue = IF Listening(c) /\ ~ Full(c) THEN Append(con[c].queue, n)
                                                              ELSE con[c].queue
<1>1. n \in Changes
  BY DEF HandsTypes
<1>2. ASSUME NEW c \in Consumers
      PROVE  /\ con'[c] \in Consumer
             /\ con'[c].pc = con[c].pc /\ con'[c].now = con[c].now /\ con'[c].gone = con[c].gone
             /\ con'[c].snap = con[c].snap /\ con'[c].out = con[c].out
             /\ con'[c].queue = IF Listening(c) /\ ~ Full(c) THEN Append(con[c].queue, n)
                                                             ELSE con[c].queue
  <2> DEFINE q == Append(con[c].queue, n)
  <2> DEFINE y == [con[c] EXCEPT !.queue = q]
  <2>1. con[c] \in Consumer /\ con[c].queue \in Seq(Changes)
    BY DEF HandsTypes, Consumer
  <2>2. q \in Seq(Changes)
    BY <1>1, <2>1, Appended
  <2>3. con'[c] = IF Listening(c) /\ ~ Full(c) THEN y ELSE con[c]
    BY DEF Publish
  <2> HIDE DEF q
  <2>4. y \in Consumer
    BY <2>1, <2>2 DEF Consumer
  <2>5. /\ y.pc = con[c].pc /\ y.now = con[c].now /\ y.gone = con[c].gone
        /\ y.snap = con[c].snap /\ y.out = con[c].out /\ y.queue = q
    BY <2>1 DEF Consumer
  <2> HIDE DEF y
  <2> QED
    BY <2>1, <2>3, <2>4, <2>5 DEF q
<1>3. con' \in [Consumers -> Consumer]
  <2> HIDE DEF Consumer
  <2>1. con' = [c \in Consumers |-> con'[c]]
    BY DEF Publish
  <2> QED
    BY <1>2, <2>1
<1> QED
  BY <1>1, <1>2, <1>3

\* The guest stops: those at its stream start a round or return, and tell what
\* they had to tell.
LEMMA GuestRestartDoes ==
  ASSUME HandsTypes, GuestRestart
  PROVE  /\ con' \in [Consumers -> Consumer]
         /\ \A c \in Consumers : con[c].pc \notin {"list", "open"} => con'[c] = con[c]
         /\ \A c \in Consumers : con[c].pc \in {"list", "open"} =>
              /\ con'[c].pc = IF c = live THEN "poll" ELSE "ended"
              /\ con'[c].now = {} /\ con'[c].gone = {} /\ con'[c].snap = {}
              /\ con'[c].queue = <<>> /\ con'[c].out = con[c].out
<1>1. ASSUME NEW c \in Consumers, con[c].pc \notin {"list", "open"}
      PROVE  con'[c] = con[c] /\ con'[c] \in Consumer
  BY <1>1 DEF GuestRestart, HandsTypes
<1>2. ASSUME NEW c \in Consumers, con[c].pc \in {"list", "open"}
      PROVE  /\ con'[c] \in Consumer
             /\ con'[c].pc = IF c = live THEN "poll" ELSE "ended"
             /\ con'[c].now = {} /\ con'[c].gone = {} /\ con'[c].snap = {}
             /\ con'[c].queue = <<>> /\ con'[c].out = con[c].out
  <2> DEFINE y == [Round(c) EXCEPT !.out = con[c].out]
  <2>1. con'[c] = y
    BY <1>2 DEF GuestRestart
  <2>2. con[c].out \in Changes \union {NoChange}
    BY DEF HandsTypes, Consumer
  <2>3. Round(c) \in Consumer
    BY Rounds
  <2> HIDE DEF Round
  <2>4. y \in Consumer
    BY <2>2, <2>3 DEF Consumer
  <2>5. /\ y.pc = Round(c).pc /\ y.now = Round(c).now /\ y.gone = Round(c).gone
        /\ y.snap = Round(c).snap /\ y.queue = Round(c).queue /\ y.out = con[c].out
    BY <2>3 DEF Consumer
  <2> HIDE DEF y
  <2> QED
    BY <2>1, <2>4, <2>5, Rounds
<1>3. con' \in [Consumers -> Consumer]
  <2>1. con' = [c \in Consumers |-> con'[c]]
    BY DEF GuestRestart
  <2> QED
    BY <1>1, <1>2, <2>1
<1> QED
  BY <1>1, <1>2, <1>3

\* A page finds the bridge at work, or revives it.
LEMMA SubscribeDoes ==
  ASSUME HandsTypes, NEW screen \in SUBSET Hands, CanVisit, Subscribe(screen)
  PROVE  /\ page' = [pc |-> "history", frames |-> <<>>, screen |-> screen,
                     blind |-> screen # {} \/ Old # {} \/ lost # {}]
         /\ UNCHANGED <<hub, cards, breaks, lost>>
         /\ \/ live # 0 /\ UNCHANGED <<live, con>>
            \/ /\ live = 0 /\ live' \in Consumers
               /\ Becomes(live', "poll", {}, {}, {}, <<>>, NoChange)
<1>1. CASE live # 0
  BY <1>1 DEF Subscribe
<1>2. CASE live = 0
  <2>1. live' \in Consumers /\ To(live', Fresh)
    BY <1>2 DEF CanVisit, Subscribe
  <2>2. Becomes(live', "poll", {}, {}, {}, <<>>, NoChange)
    BY <2>1, ConsumerStates DEF Becomes, To, HandsTypes
  <2> QED
    BY <1>2, <2>1, <2>2 DEF Subscribe
<1> QED
  BY <1>1, <1>2

-----------------------------------------------------------------------------
(* Types and stages.                                                       *)

\* A consumer polls, and the page is away.
LEMMA TypesInit == Init => HandsTypes /\ Stages
<1> SUFFICES ASSUME Init PROVE HandsTypes /\ Stages
  OBVIOUS
<1>1. con \in [Consumers -> Consumer]
  BY ConsumerStates DEF Init
<1>2. page \in [pc : {"away", "history", "live"}, frames : Seq(Changes),
                screen : SUBSET Hands, blind : BOOLEAN]
  BY DEF Init, Away
<1>3. HandsTypes
  BY <1>1, <1>2, HandsAssumption DEF Init, HandsTypes
<1>4. Stages
  BY ConsumerStates DEF Init, Stages
<1> QED
  BY <1>3, <1>4

\* A consumer that has become something keeps the stages if that does.
LEMMA StagesKept ==
  ASSUME Stages, NEW c \in Consumers, NEW pc, NEW now, NEW gone, NEW snap, NEW queue, NEW out,
         Becomes(c, pc, now, gone, snap, queue, out),
         pc \notin {"diff", "gone", "add"} => now = {},
         pc # "gone" => gone = {},
         pc # "open" => snap = {},
         pc \notin {"list", "open"} => queue = <<>>
  PROVE  con' \in [Consumers -> Consumer] /\ Stages'
BY DEF Becomes, Stages

\* Each consumer's step.
LEMMA ConsumersStep ==
  ASSUME HandsTypes, Stages, [Next]_vars
  PROVE  con' \in [Consumers -> Consumer] /\ Stages'
<1> DEFINE Goal == con' \in [Consumers -> Consumer] /\ Stages'
<1>1. ASSUME NEW c \in Consumers, Poll(c) PROVE Goal
  <2>1. Becomes(c, "diff", up, con[c].gone, con[c].snap, con[c].queue, NoChange)
    BY <1>1, PollDoes
  <2> QED
    BY <1>1, <2>1 DEF Becomes, Poll, At, Stages
<1>2. ASSUME NEW c \in Consumers, Stops(c) PROVE Goal
  BY <1>2, StopsDoes, StagesKept
<1>3. ASSUME NEW c \in Consumers, DropMissing(c) PROVE Goal
  <2>1. Becomes(c, "gone", con[c].now, cards \ con[c].now, con[c].snap, con[c].queue, NoChange)
    BY <1>3, DropMissingDoes
  <2> QED
    BY <1>3, <2>1 DEF Becomes, DropMissing, At, Stages
<1>4. ASSUME NEW c \in Consumers, Announce(c) PROVE Goal
  <2>1. \/ Becomes(c, "add", con[c].now, {}, con[c].snap, con[c].queue, NoChange)
        \/ \E h \in con[c].gone :
             Becomes(c, "gone", con[c].now, con[c].gone \ {h}, con[c].snap, con[c].queue, Cleared(h))
    BY <1>4, AnnounceDoes
  <2>2. con[c].pc = "gone"
    BY <1>4 DEF Announce, At
  <2> QED
    BY <2>1, <2>2 DEF Becomes, Stages
<1>5. ASSUME NEW c \in Consumers, Add(c) PROVE Goal
  <2>1. \/ Becomes(c, "connect", {}, con[c].gone, con[c].snap, con[c].queue, NoChange)
        \/ \E h \in con[c].now :
             Becomes(c, "add", con[c].now \ {h}, con[c].gone, con[c].snap, con[c].queue, Told(h))
    BY <1>5, AddDoes
  <2>2. con[c].pc = "add"
    BY <1>5 DEF Add, At
  <2> QED
    BY <2>1, <2>2 DEF Becomes, Stages
<1>6. ASSUME NEW c \in Consumers, Connect(c) PROVE Goal
  BY <1>6, ConnectDoes DEF Becomes, Connect, At, Stages
<1>7. ASSUME NEW c \in Consumers, List(c) PROVE Goal
  BY <1>7, ListDoes, StagesKept DEF List, At, Stages
<1>8. ASSUME NEW c \in Consumers, OnPending(c) PROVE Goal
  <2>1. \E snap, queue, out :
           Becomes(c, "open", con[c].now, con[c].gone, snap, queue, out)
    BY <1>8, OnPendingDoes
  <2>2. con[c].now = {} /\ con[c].gone = {}
    BY <1>8 DEF OnPending, At, Stages
  <2> QED
    BY <2>1, <2>2, StagesKept
<1>9. ASSUME NEW c \in Consumers, Emit(c) PROVE Goal
  BY <1>9, EmitDoes, StagesKept DEF Stages
<1>10. ASSUME NEW c \in Consumers, StreamEnds(c) PROVE Goal
  BY <1>10, StreamEndsDoes, StagesKept
<1>11. ASSUME NEW n \in duty, Publish(n) PROVE Goal
  BY <1>11, PublishDoes DEF Stages, Listening
<1>12. CASE GuestRestart
  BY <1>12, GuestRestartDoes DEF Stages
<1>13. ASSUME NEW screen \in SUBSET Hands, CanVisit, Subscribe(screen) PROVE Goal
  BY <1>13, SubscribeDoes DEF Becomes, Stages, HandsTypes
<1>14. CASE Load \/ Reconnect
  <2>1. \E screen \in SUBSET Hands : CanVisit /\ Subscribe(screen)
    BY <1>14 DEF Load, Reconnect, HandsTypes
  <2> QED
    BY <1>13, <2>1
<1>15. CASE UNCHANGED con
  BY <1>15 DEF HandsTypes, Stages
<1> QED
  BY <1>1, <1>2, <1>3, <1>4, <1>5, <1>6, <1>7, <1>8, <1>9, <1>10, <1>11, <1>12, <1>14, <1>15
     DEF Next, Consume, Raise, Clear, History, NoHistory, Render, Leave, StopIfEmpty, vars

\* A page's frames are a channel's: what the bridge emits, read in order.
LEMMA PageStep ==
  ASSUME HandsTypes, [Next]_vars
  PROVE  page' \in [pc : {"away", "history", "live"}, frames : Seq(Changes),
                    screen : SUBSET Hands, blind : BOOLEAN]
<1> DEFINE Pages == [pc : {"away", "history", "live"}, frames : Seq(Changes),
                     screen : SUBSET Hands, blind : BOOLEAN]
<1> DEFINE Goal == page' \in Pages
<1>1. page \in Pages /\ page.frames \in Seq(Changes) /\ cards \subseteq Hands
  BY DEF HandsTypes
<1>2. ASSUME NEW c \in Consumers, Emit(c) PROVE Goal
  <2>1. con[c].out \in Changes
    BY <1>2, EmitDoes
  <2>2. Append(page.frames, con[c].out) \in Seq(Changes)
    BY <1>1, <2>1, Appended
  <2> QED
    BY <1>1, <1>2, <2>2 DEF Emit
<1>3. ASSUME NEW screen \in SUBSET Hands, CanVisit, Subscribe(screen) PROVE Goal
  <2> DEFINE b == screen # {} \/ Old # {} \/ lost # {}
  <2>1. b \in BOOLEAN
    OBVIOUS
  <2>2. page' = [pc |-> "history", frames |-> <<>>, screen |-> screen, blind |-> b]
    BY <1>3, SubscribeDoes
  <2> HIDE DEF b
  <2> QED
    BY <2>1, <2>2
<1>4. CASE Load \/ Reconnect
  <2>1. \E screen \in SUBSET Hands : CanVisit /\ Subscribe(screen)
    BY <1>4 DEF Load, Reconnect, HandsTypes
  <2> QED
    BY <1>3, <2>1
<1>5. CASE History \/ NoHistory
  BY <1>1, <1>5 DEF History, NoHistory
<1>6. CASE Render
  <2>1. Tail(page.frames) \in Seq(Changes) /\ Head(page.frames) \in Changes
    BY <1>1, <1>6, Headed DEF Render
  <2>2. Shown(Head(page.frames), page.screen) \subseteq Hands
    BY <1>1, <2>1 DEF Shown, Changes
  <2> QED
    BY <1>1, <1>6, <2>1, <2>2 DEF Render
<1>7. CASE Leave
  <2>1. page' = [pc |-> "away", frames |-> <<>>, screen |-> page.screen, blind |-> FALSE]
    BY <1>7 DEF Leave, Away
  <2> QED
    BY <1>1, <2>1
<1>8. CASE UNCHANGED page
  BY <1>1, <1>8
<1> QED
  BY <1>2, <1>4, <1>5, <1>6, <1>7, <1>8
     DEF Next, Consume, Raise, Clear, Publish, GuestRestart, Poll, Stops, DropMissing, Announce,
         Add, Connect, List, OnPending, StreamEnds, StopIfEmpty, vars

\* The cards, and the hands of which the board may be wrong, are hands.
LEMMA BoardStep ==
  ASSUME HandsTypes, [Next]_vars
  PROVE  cards' \subseteq Hands /\ lost' \subseteq Hands
<1> DEFINE Goal == cards' \subseteq Hands /\ lost' \subseteq Hands
<1>1. cards \subseteq Hands /\ lost \subseteq Hands /\ up \subseteq Hands
  BY DEF HandsTypes, up
<1>2. \A n \in Changes : n.hand \in Hands
  BY DEF Changes
<1>3. \A c \in Consumers : con[c].now \subseteq Hands /\ con[c].snap \subseteq Hands
  BY DEF HandsTypes, Consumer
<1>4. ASSUME NEW c \in Consumers, DropMissing(c) PROVE Goal
  BY <1>1, <1>4 DEF DropMissing, Touched
<1>5. ASSUME NEW c \in Consumers, Add(c) PROVE Goal
  BY <1>1, <1>3, <1>5, AddDoes
<1>6. ASSUME NEW c \in Consumers, OnPending(c) PROVE Goal
  <2>1. \/ \E h \in con[c].snap : /\ cards' = cards \union {h}
                                 /\ lost' = IF c = live THEN lost ELSE lost \union {h}
        \/ \E h \in Hands : /\ cards' = cards \union {h} \/ cards' = cards \ {h}
                            /\ lost' = IF c = live THEN lost ELSE lost \union {h}
    BY <1>2, <1>6, OnPendingDoes
  <2> QED
    BY <1>1, <1>3, <2>1
<1>7. ASSUME NEW n \in duty, Publish(n) PROVE Goal
  BY <1>1, <1>2, <1>7 DEF Publish, HandsTypes, bridge
<1>8. CASE GuestRestart
  BY <1>1, <1>2, <1>8 DEF GuestRestart, HandsTypes, bridge
<1>9. CASE Load \/ Reconnect
  BY <1>1, <1>9 DEF Load, Reconnect, Subscribe
<1>10. ASSUME NEW c \in Consumers, Poll(c) PROVE Goal
  BY <1>1, <1>10 DEF Poll, bridge
<1>11. CASE UNCHANGED <<cards, lost>>
  BY <1>1, <1>11
<1> QED
  BY <1>4, <1>5, <1>6, <1>7, <1>8, <1>9, <1>10, <1>11
     DEF Next, Consume, Raise, Clear, Stops, Announce, Connect, List, Emit, StreamEnds,
         History, NoHistory, Render, Leave, StopIfEmpty, vars, bridge

\* Every step keeps the types.
LEMMA TypesStep == HandsTypes /\ Stages /\ [Next]_vars => HandsTypes' /\ Stages'
<1> SUFFICES ASSUME HandsTypes, Stages, [Next]_vars PROVE HandsTypes' /\ Stages'
  OBVIOUS
<1>1. /\ con' \in [Consumers -> Consumer] /\ Stages'
      /\ page' \in [pc : {"away", "history", "live"}, frames : Seq(Changes),
                    screen : SUBSET Hands, blind : BOOLEAN]
      /\ cards' \subseteq Hands /\ lost' \subseteq Hands
  BY ConsumersStep, PageStep, BoardStep
<1>2. hand' \in [Hands -> {"never", "up", "down"}]
  <2>1. UNCHANGED hand \/ GuestRestart \/ \E h \in Hands : Raise(h) \/ Clear(h)
    BY DEF Next, Consume, Publish, Poll, Stops, DropMissing, Announce, Add, Connect, List,
           OnPending, Emit, StreamEnds, Load, Reconnect, Subscribe, History, NoHistory, Render,
           Leave, StopIfEmpty, vars, hub
  <2> QED
    BY <2>1 DEF HandsTypes, GuestRestart, Raise, Clear
<1>3. duty' \subseteq Changes
  <2>1. \/ UNCHANGED duty \/ GuestRestart \/ \E n \in duty : Publish(n)
        \/ \E h \in Hands : Raise(h) \/ Clear(h)
    BY DEF Next, Consume, Poll, Stops, DropMissing, Announce, Add, Connect, List,
           OnPending, Emit, StreamEnds, Load, Reconnect, Subscribe, History, NoHistory, Render,
           Leave, StopIfEmpty, vars, hub
  <2>2. \A h \in Hands : Raised(h) \in Changes /\ Cleared(h) \in Changes
    BY DEF Raised, Cleared, Changes
  <2> QED
    BY <2>1, <2>2 DEF HandsTypes, GuestRestart, Raise, Clear, Publish
<1>4. live' \in Consumers \union {0}
  <2>1. UNCHANGED live \/ Load \/ Reconnect \/ live' = 0
    BY DEF Next, Consume, Raise, Clear, Publish, GuestRestart, Poll, Stops, DropMissing, Announce,
           Add, Connect, List, OnPending, Emit, StreamEnds, History, NoHistory, Render, Leave,
           StopIfEmpty, vars, bridge
  <2> QED
    BY <2>1 DEF HandsTypes, Load, Reconnect, Subscribe, CanVisit
<1> QED
  BY <1>1, <1>2, <1>3, <1>4 DEF HandsTypes

-----------------------------------------------------------------------------
(* What travels was true once.                                             *)

\* A hand goes up once and down once.
LEMMA HandsAge ==
  ASSUME HandsTypes, [Next]_vars, NEW h \in Hands
  PROVE  /\ hand[h] # "never" => hand'[h] # "never"
         /\ hand[h] = "down" => hand'[h] = "down"
<1>1. UNCHANGED hand \/ GuestRestart \/ \E g \in Hands : Raise(g) \/ Clear(g)
  BY DEF Next, Consume, Publish, Poll, Stops, DropMissing, Announce, Add, Connect, List,
         OnPending, Emit, StreamEnds, Load, Reconnect, Subscribe, History, NoHistory, Render,
         Leave, StopIfEmpty, vars, hub
<1> QED
  BY <1>1 DEF HandsTypes, GuestRestart, Raise, Clear

\* What has come to pass stays so.
LEMMA StaysSo ==
  ASSUME HandsTypes, [Next]_vars, NEW n \in Changes, Happened(n)
  PROVE  Happened(n)'
BY HandsAge DEF Changes, Happened

\* Raise and Clear publish what they did; a change leaves the set by publish.
LEMMA DutyHappened ==
  ASSUME HandsTypes, AllHappened, [Next]_vars
  PROVE  \A n \in duty' : Happened(n)'
<1> SUFFICES ASSUME NEW n \in duty' PROVE Happened(n)'
  OBVIOUS
<1>1. \/ duty' \subseteq duty
      \/ \E h \in Hands : Raise(h) \/ Clear(h)
  BY DEF Next, Consume, Publish, Poll, Stops, DropMissing, Announce, Add, Connect, List,
         OnPending, Emit, StreamEnds, Load, Reconnect, Subscribe, History, NoHistory, Render,
         Leave, StopIfEmpty, vars, hub, GuestRestart
<1>2. CASE n \in duty
  BY <1>2, StaysSo DEF AllHappened, HandsTypes
<1>3. CASE n \notin duty
  <2>1. PICK h \in Hands : Raise(h) \/ Clear(h)
    BY <1>1, <1>3
  <2>2. CASE Raise(h)
    <3>1. n = Raised(h)
      BY <1>3, <2>2 DEF Raise
    <3>2. hand'[h] = "up"
      BY <2>2 DEF HandsTypes, Raise
    <3> QED
      BY <3>1, <3>2 DEF Happened, Raised
  <2>3. CASE Clear(h)
    <3>1. n = Cleared(h)
      BY <1>3, <2>3 DEF Clear
    <3>2. hand'[h] = "down"
      BY <2>3 DEF HandsTypes, Clear
    <3> QED
      BY <3>1, <3>2 DEF Happened, Cleared
  <2> QED
    BY <2>1, <2>2, <2>3
<1> QED
  BY <1>2, <1>3

\* A channel has what was published to it, and no more.
LEMMA QueueFrom ==
  ASSUME HandsTypes, [Next]_vars, NEW c \in Consumers, NEW i \in 1..Len(con'[c].queue)
  PROVE  \/ \E k \in 1..Len(con[c].queue) : con'[c].queue[i] = con[c].queue[k]
         \/ con'[c].queue[i] \in duty
<1> DEFINE Goal == \/ \E k \in 1..Len(con[c].queue) : con'[c].queue[i] = con[c].queue[k]
                   \/ con'[c].queue[i] \in duty
<1>1. con[c].queue \in Seq(Changes)
  BY DEF HandsTypes, Consumer
<1>2. CASE con'[c].queue = con[c].queue
  BY <1>2
<1>3. CASE con'[c].queue = <<>>
  BY <1>3
<1>4. CASE con[c].queue # <<>> /\ con'[c].queue = Tail(con[c].queue)
  <2>1. i + 1 \in 1..Len(con[c].queue) /\ con'[c].queue[i] = con[c].queue[i + 1]
    BY <1>1, <1>4, Headed
  <2> QED
    BY <2>1
<1>5. ASSUME NEW n \in duty, con'[c].queue = Append(con[c].queue, n)
      PROVE  Goal
  <2>1. n \in Changes
    BY DEF HandsTypes
  <2>2. i \in 1..Len(con[c].queue) \/ i = Len(con[c].queue) + 1
    BY <1>1, <1>5, <2>1, Appended
  <2> QED
    BY <1>1, <1>5, <2>1, <2>2, Appended
<1>6. \/ con'[c].queue = con[c].queue
      \/ con'[c].queue = <<>>
      \/ con[c].queue # <<>> /\ con'[c].queue = Tail(con[c].queue)
      \/ \E n \in duty : con'[c].queue = Append(con[c].queue, n)
  <2> DEFINE So == \/ con'[c].queue = con[c].queue
                   \/ con'[c].queue = <<>>
                   \/ con[c].queue # <<>> /\ con'[c].queue = Tail(con[c].queue)
                   \/ \E n \in duty : con'[c].queue = Append(con[c].queue, n)
  <2>1. ASSUME NEW d \in Consumers, Consume(d)
        PROVE  So
    <3>1. CASE c # d
      <4>1. con'[c] = con[c]
        BY <2>1, <3>1 DEF Consume, HandsTypes, Poll, Stops, DropMissing, Announce, Add, Connect,
           List, OnPending, Emit, StreamEnds, To, Store, OnRaised, OnCleared
      <4> QED
        BY <4>1
    <3>2. CASE c = d
      <4>1. CASE Poll(c)
        BY <4>1, PollDoes DEF Becomes
      <4>2. CASE Stops(c) \/ StreamEnds(c)
        BY <4>2, StopsDoes, StreamEndsDoes DEF Becomes
      <4>3. CASE DropMissing(c)
        BY <4>3, DropMissingDoes DEF Becomes
      <4>4. CASE Announce(c)
        BY <4>4, AnnounceDoes DEF Becomes
      <4>5. CASE Add(c)
        BY <4>5, AddDoes DEF Becomes
      <4>6. CASE Connect(c)
        BY <4>6, ConnectDoes DEF Becomes
      <4>7. CASE List(c)
        BY <4>7, ListDoes DEF Becomes
      <4>8. CASE OnPending(c)
        BY <4>8, OnPendingDoes DEF Becomes
      <4>9. CASE Emit(c)
        BY <4>9, EmitDoes DEF Becomes
      <4> QED
        BY <2>1, <3>2, <4>1, <4>2, <4>3, <4>4, <4>5, <4>6, <4>7, <4>8, <4>9 DEF Consume
    <3> QED
      BY <3>1, <3>2
  <2>2. ASSUME NEW n \in duty, Publish(n) PROVE So
    BY <2>2, PublishDoes
  <2>3. CASE GuestRestart
    BY <2>3, GuestRestartDoes
  <2>4. CASE Load \/ Reconnect
    <3>1. PICK screen \in SUBSET Hands : CanVisit /\ Subscribe(screen)
      BY <2>4 DEF Load, Reconnect, HandsTypes
    <3>2. \/ UNCHANGED con
          \/ live' \in Consumers /\ Becomes(live', "poll", {}, {}, {}, <<>>, NoChange)
      BY <3>1, SubscribeDoes
    <3> QED
      BY <3>2 DEF Becomes
  <2>5. CASE UNCHANGED con
    BY <2>5
  <2> QED
    BY <2>1, <2>2, <2>3, <2>4, <2>5 DEF Next, Raise, Clear, History, NoHistory, Render, Leave,
       StopIfEmpty, vars
<1> QED
  BY <1>2, <1>3, <1>4, <1>5, <1>6

\* What a consumer holds of a poll or a snapshot was up when it asked.
LEMMA HeldFrom ==
  ASSUME HandsTypes, [Next]_vars, NEW c \in Consumers
  PROVE  con'[c].now \union con'[c].snap \subseteq con[c].now \union con[c].snap \union up
<1> DEFINE So == con'[c].now \union con'[c].snap \subseteq con[c].now \union con[c].snap \union up
<1>1. ASSUME NEW d \in Consumers, Consume(d)
      PROVE  So
  <2>1. CASE c # d
    <3>1. con'[c] = con[c]
      BY <1>1, <2>1 DEF Consume, HandsTypes, Poll, Stops, DropMissing, Announce, Add, Connect,
         List, OnPending, Emit, StreamEnds, To, Store, OnRaised, OnCleared
    <3> QED
      BY <3>1
  <2>2. CASE c = d
    <3>1. CASE Poll(c)
      BY <3>1, PollDoes DEF Becomes
    <3>2. CASE Stops(c) \/ StreamEnds(c)
      BY <3>2, StopsDoes, StreamEndsDoes DEF Becomes
    <3>3. CASE DropMissing(c)
      BY <3>3, DropMissingDoes DEF Becomes
    <3>4. CASE Announce(c)
      BY <3>4, AnnounceDoes DEF Becomes
    <3>5. CASE Add(c)
      BY <3>5, AddDoes DEF Becomes
    <3>6. CASE Connect(c)
      BY <3>6, ConnectDoes DEF Becomes
    <3>7. CASE List(c)
      BY <3>7, ListDoes DEF Becomes
    <3>8. CASE OnPending(c)
      BY <3>8, OnPendingDoes DEF Becomes
    <3>9. CASE Emit(c)
      BY <3>9, EmitDoes DEF Becomes
    <3> QED
      BY <1>1, <2>2, <3>1, <3>2, <3>3, <3>4, <3>5, <3>6, <3>7, <3>8, <3>9 DEF Consume
  <2> QED
    BY <2>1, <2>2
<1>2. ASSUME NEW n \in duty, Publish(n) PROVE So
  BY <1>2, PublishDoes
<1>3. CASE GuestRestart
  BY <1>3, GuestRestartDoes
<1>4. CASE Load \/ Reconnect
  <2>1. PICK screen \in SUBSET Hands : CanVisit /\ Subscribe(screen)
    BY <1>4 DEF Load, Reconnect, HandsTypes
  <2>2. \/ UNCHANGED con
        \/ live' \in Consumers /\ Becomes(live', "poll", {}, {}, {}, <<>>, NoChange)
    BY <2>1, SubscribeDoes
  <2> QED
    BY <2>2 DEF Becomes
<1>5. CASE UNCHANGED con
  BY <1>5
<1> QED
  BY <1>1, <1>2, <1>3, <1>4, <1>5 DEF Next, Raise, Clear, History, NoHistory, Render, Leave,
     StopIfEmpty, vars

\* A card is stored for a hand the consumer was told of, and by no other step.
LEMMA CardsFrom ==
  ASSUME HandsTypes, [Next]_vars, NEW h \in cards'
  PROVE  \/ h \in cards
         \/ \E c \in Consumers : \/ h \in con[c].now \union con[c].snap
                                 \/ \E i \in 1..Len(con[c].queue) : con[c].queue[i].hand = h
<1>1. CASE cards' \subseteq cards
  BY <1>1
<1>2. ASSUME NEW c \in Consumers, Add(c)
      PROVE  h \in cards \/ h \in con[c].now
  BY <1>2, AddDoes
<1>3. ASSUME NEW c \in Consumers, OnPending(c)
      PROVE  \/ h \in cards \/ h \in con[c].snap
             \/ \E i \in 1..Len(con[c].queue) : con[c].queue[i].hand = h
  <2>1. \/ h \in cards \/ h \in con[c].snap
        \/ con[c].queue # <<>> /\ h = Head(con[c].queue).hand
    BY <1>3, OnPendingDoes
  <2>2. con[c].queue \in Seq(Changes)
    BY DEF HandsTypes, Consumer
  <2>3. ASSUME con[c].queue # <<>>
        PROVE  1 \in 1..Len(con[c].queue) /\ Head(con[c].queue) = con[c].queue[1]
    BY <2>2, <2>3, Headed
  <2> QED
    BY <2>1, <2>3
<1> QED
  BY <1>1, <1>2, <1>3
     DEF Next, Consume, Raise, Clear, Publish, GuestRestart, Poll, Stops, DropMissing, Announce,
         Connect, List, Emit, StreamEnds, Load, Reconnect, Subscribe, History, NoHistory,
         Render, Leave, StopIfEmpty, vars, bridge

\* Every step keeps it.
LEMMA HappenedStep == HandsTypes /\ AllHappened /\ [Next]_vars => AllHappened'
<1> SUFFICES ASSUME HandsTypes, AllHappened, [Next]_vars PROVE AllHappened'
  OBVIOUS
<1>1. \A n \in duty' : Happened(n)'
  BY DutyHappened
<1>2. ASSUME NEW c \in Consumers, NEW i \in 1..Len(con'[c].queue)
      PROVE  /\ hand'[con'[c].queue[i].hand] # "never"
             /\ con'[c].queue[i].kind = "cleared" => hand'[con'[c].queue[i].hand] = "down"
  <2>1. \A n \in duty : n \in Changes /\ Happened(n)
    BY DEF HandsTypes, AllHappened
  <2>2. \A k \in 1..Len(con[c].queue) : con[c].queue[k] \in Changes /\ Happened(con[c].queue[k])
    <3>1. con[c].queue \in Seq(Changes)
      BY DEF HandsTypes, Consumer
    <3> QED
      BY <3>1 DEF AllHappened
  <2> DEFINE n == con'[c].queue[i]
  <2>3. n \in Changes /\ Happened(n)
    BY <2>1, <2>2, QueueFrom
  <2>4. hand[n.hand] # "never" /\ (n.kind = "cleared" => hand[n.hand] = "down") /\ n.hand \in Hands
    BY <2>3 DEF Happened, Changes
  <2> QED
    BY <2>4, HandsAge
<1>3. ASSUME NEW c \in Consumers, NEW h \in con'[c].now \union con'[c].snap
      PROVE  hand'[h] # "never"
  <2>1. h \in Hands /\ hand[h] # "never"
    BY <1>3, HeldFrom DEF HandsTypes, AllHappened, Consumer, up
  <2> QED
    BY <2>1, HandsAge
<1>4. ASSUME NEW h \in cards'
      PROVE  hand'[h] # "never"
  <2>1. \A c \in Consumers : con[c].queue \in Seq(Changes)
    BY DEF HandsTypes, Consumer
  <2>2. \A c \in Consumers : \A i \in 1..Len(con[c].queue) :
          con[c].queue[i].hand \in Hands /\ hand[con[c].queue[i].hand] # "never"
    <3>1. \A c \in Consumers : \A i \in 1..Len(con[c].queue) :
            con[c].queue[i] \in Changes /\ Happened(con[c].queue[i])
      BY <2>1 DEF AllHappened
    <3> QED
      BY <3>1 DEF Happened, Changes
  <2>3. \A c \in Consumers : con[c].now \subseteq Hands /\ con[c].snap \subseteq Hands
    BY DEF HandsTypes, Consumer
  <2>4. h \in Hands /\ hand[h] # "never"
    BY <1>4, <2>2, <2>3, CardsFrom DEF AllHappened, HandsTypes
  <2> QED
    BY <2>4, HandsAge
<1> QED
  BY <1>1, <1>2, <1>3, <1>4 DEF AllHappened, Happened

-----------------------------------------------------------------------------
(* What the live consumer has still to hear.                               *)

\* A step that leaves alone what the live consumer has of a hand.
LEMMA ViewKept ==
  ASSUME NEW h, Hears(h), L' = L \/ /\ L'.pc = L.pc /\ L'.now = L.now
                                    /\ L'.snap = L.snap /\ L'.queue = L.queue,
         hand'[h] = hand[h], h \in cards' <=> h \in cards,
         Raised(h) \in duty' <=> Raised(h) \in duty,
         Cleared(h) \in duty' <=> Cleared(h) \in duty
  PROVE  Hears(h)'
BY DEF Hears, DropsDown, UpComes, DownComes, InQueue, L, Polled

\* A consumer that does not listen has nothing to be told.
LEMMA NotPolled ==
  ASSUME NEW h, L'.pc \notin Polled
  PROVE  Hears(h)'
BY DEF Hears, DropsDown, UpComes, DownComes, L, Polled

\* A consumer's step leaves the hub, the bridge's consumer and the others alone.
LEMMA ConsumeFrame ==
  ASSUME HandsTypes, NEW c \in Consumers, Consume(c)
  PROVE  /\ UNCHANGED <<hand, duty, live>>
         /\ \A d \in Consumers : d # c => con'[d] = con[d]
<1>1. UNCHANGED <<hand, duty, live>>
  BY DEF Consume, Poll, Stops, DropMissing, Announce, Add, Connect, List, OnPending, Emit,
         StreamEnds, hub, bridge
<1>2. \A d \in Consumers : d # c => con'[d] = con[d]
  BY DEF Consume, HandsTypes, Poll, Stops, DropMissing, Announce, Add, Connect, List, OnPending,
         Emit, StreamEnds, To, Store, OnRaised, OnCleared
<1> QED
  BY <1>1, <1>2

\* An old consumer's doings count as lost: of any other hand nothing changes.
LEMMA OldTouch ==
  ASSUME HandsTypes, NEW c \in Consumers, Consume(c), c # live, NEW h \in Hands \ lost'
  PROVE  h \notin lost /\ (h \in cards' <=> h \in cards)
<1> DEFINE Goal == h \notin lost /\ (h \in cards' <=> h \in cards)
<1>1. CASE DropMissing(c)
  BY <1>1 DEF DropMissing, Touched
<1>2. CASE Add(c)
  BY <1>2, AddDoes
<1>3. CASE OnPending(c)
  BY <1>3, OnPendingDoes
<1>4. CASE UNCHANGED <<cards, lost>>
  BY <1>4
<1> QED
  BY <1>1, <1>2, <1>3, <1>4 DEF Consume, Poll, Stops, Announce, Connect, List, Emit, StreamEnds,
     bridge

\* A step of an old consumer leaves what the live one has to hear.
LEMMA OldHears ==
  ASSUME HandsTypes, Comes, live # 0, NEW c \in Consumers, Consume(c), c # live,
         NEW h \in Hands \ lost'
  PROVE  Hears(h)'
<1>1. live \in Consumers /\ L' = L /\ hand'[h] = hand[h] /\ UNCHANGED duty
  BY ConsumeFrame DEF L, HandsTypes
<1>2. h \notin lost /\ (h \in cards' <=> h \in cards)
  BY OldTouch
<1>3. Hears(h)
  BY <1>2 DEF Comes
<1> QED
  BY <1>1, <1>2, <1>3, ViewKept

\* Raise and Clear leave the change for publish.
LEMMA RaiseHears ==
  ASSUME HandsTypes, AllHappened, Comes, live # 0, NEW g \in Hands, Raise(g) \/ Clear(g),
         NEW h \in Hands \ lost
  PROVE  Hears(h)'
<1>1. L' = L /\ UNCHANGED <<cards, live>> /\ live \in Consumers
  BY DEF L, Raise, Clear, bridge, HandsTypes
<1>2. Hears(h)
  BY DEF Comes
<1>3. CASE g # h
  <2>1. hand'[h] = hand[h]
    BY <1>3 DEF Raise, Clear, HandsTypes
  <2>2. Raised(h) # Raised(g) /\ Raised(h) # Cleared(g) /\ Cleared(h) # Raised(g) /\ Cleared(h) # Cleared(g)
    BY <1>3 DEF Raised, Cleared
  <2>3. duty' = duty \union {Raised(g)} \/ duty' = duty \union {Cleared(g)}
    BY DEF Raise, Clear
  <2> QED
    BY <1>1, <1>2, <2>1, <2>2, <2>3, ViewKept
<1>4. CASE g = h /\ Raise(g)
  <2>1. hand'[h] = "up" /\ hand[h] = "never" /\ Raised(h) \in duty'
    BY <1>4 DEF Raise, HandsTypes
  <2>2. h \notin cards'
    BY <1>1, <2>1 DEF AllHappened
  <2> QED
    BY <2>1, <2>2 DEF Hears, DropsDown, UpComes, DownComes
<1>5. CASE g = h /\ Clear(g)
  <2>1. hand'[h] = "down" /\ Cleared(h) \in duty'
    BY <1>5 DEF Clear, HandsTypes
  <2> QED
    BY <2>1 DEF Hears, DropsDown, UpComes, DownComes
<1> QED
  BY <1>3, <1>4, <1>5

\* publish puts the change in the channel, or the hand counts as lost.
LEMMA PublishHears ==
  ASSUME HandsTypes, AllHappened, Comes, live # 0, NEW n \in duty, Publish(n),
         NEW h \in Hands \ lost'
  PROVE  Hears(h)'
<1> DEFINE Heard == Listening(live) /\ ~ Full(live)
<1>1. /\ live \in Consumers /\ UNCHANGED <<hand, cards, live>> /\ duty' = duty \ {n}
      /\ lost' = IF Unheard(n) THEN lost \union {n.hand} ELSE lost
  BY DEF Publish, HandsTypes, bridge
<1>2. /\ n \in Changes
      /\ L'.pc = L.pc /\ L'.now = L.now /\ L'.snap = L.snap
      /\ L'.queue = IF Heard THEN Append(L.queue, n) ELSE L.queue
  BY <1>1, PublishDoes DEF L
<1>3. h \notin lost /\ Hears(h) /\ L.queue \in Seq(Changes)
  BY <1>1 DEF Comes, HandsTypes, Consumer, L
<1> DEFINE q == L'.queue
<1>4. /\ q \in Seq(Changes)
      /\ Len(q) = IF Heard THEN Len(L.queue) + 1 ELSE Len(L.queue)
      /\ \A i \in 1..Len(L.queue) : q[i] = L.queue[i]
      /\ Heard => q[Len(L.queue) + 1] = n
  BY <1>2, <1>3, Appended
<1> HIDE DEF q
<1>5. \A m : InQueue(L.queue, m) => InQueue(q, m)
  BY <1>3, <1>4 DEF InQueue
<1>6. CASE n.hand # h
  <2>1. n # Raised(h) /\ n # Cleared(h)
    BY <1>6 DEF Raised, Cleared
  <2>2. DropsDown(h)' /\ UpComes(h)'
    BY <1>1, <1>2, <1>3, <1>5, <2>1 DEF q, Hears, DropsDown, UpComes, L
  <2>3. DownComes(h)'
    <3>1. ASSUME NEW i \in 1..Len(q), q[i] = Raised(h)
          PROVE  i \in 1..Len(L.queue) /\ L.queue[i] = Raised(h)
      BY <1>3, <1>4, <2>1, <3>1
    <3>2. ASSUME NEW i \in 1..Len(q), NEW k \in (i + 1)..Len(L.queue), L.queue[k] = Cleared(h)
          PROVE  k \in (i + 1)..Len(q) /\ q[k] = Cleared(h)
      BY <1>3, <1>4, <3>2
    <3>3. DownComes(h)
      BY <1>3 DEF Hears
    <3>4. ASSUME hand[h] = "down", L.pc \in Polled
          PROVE  \A i \in 1..Len(q) : q[i] = Raised(h) =>
                   Cleared(h) \in duty \/ \E k \in (i + 1)..Len(q) : q[k] = Cleared(h)
      BY <3>1, <3>2, <3>3, <3>4 DEF DownComes
    <3>5. ASSUME hand[h] = "down", L.pc \in Polled,
                 h \in L.now \union L.snap \/ (L.pc # "diff" /\ h \in cards)
          PROVE  Cleared(h) \in duty \/ InQueue(q, Cleared(h))
      BY <1>5, <3>3, <3>5 DEF DownComes
    <3>6. Cleared(h) \in duty' <=> Cleared(h) \in duty
      BY <1>1, <2>1
    <3> QED
      BY <1>1, <1>2, <3>4, <3>5, <3>6 DEF DownComes, q, L
  <2> QED
    BY <2>2, <2>3 DEF Hears
<1>7. CASE n.hand = h
  <2>1. ~ Unheard(n)
    BY <1>1, <1>7
  <2>2. CASE ~ Heard
    <3>1. L.pc \notin Polled
      BY <1>2, <2>1, <2>2 DEF Unheard, Listening, Polled, L
    <3> QED
      BY <1>2, <3>1, NotPolled
  <2>3. CASE Heard
    <3>1. InQueue(q, n)
      BY <1>3, <1>4, <2>3 DEF InQueue
    <3>2. DropsDown(h)'
      BY <1>1, <1>2, <1>3 DEF Hears, DropsDown, L
    <3>3. CASE n.kind = "raised"
      <4>1. n = Raised(h) /\ hand[h] # "down"
        BY <1>2, <1>7, <2>1, <3>3 DEF Unheard, Changes, Raised
      <4>2. UpComes(h)' /\ DownComes(h)'
        BY <1>1, <3>1, <4>1 DEF UpComes, DownComes, q
      <4> QED
        BY <3>2, <4>2 DEF Hears
    <3>4. CASE n.kind # "raised"
      <4>1. n = Cleared(h)
        BY <1>2, <1>7, <3>4 DEF Changes, Cleared
      <4>2. hand[h] = "down"
        BY <4>1 DEF AllHappened, Happened, Cleared
      <4>3. \A i \in 1..Len(q) : q[i] = Raised(h) => i \in 1..Len(L.queue)
        <5>1. Raised(h) # Cleared(h)
          BY DEF Raised, Cleared
        <5> QED
          BY <1>3, <1>4, <2>3, <4>1, <5>1
      <4>4. \A i \in 1..Len(L.queue) : Len(L.queue) + 1 \in (i + 1)..Len(q)
        BY <1>3, <1>4, <2>3
      <4>5. \A i \in 1..Len(q) : q[i] = Raised(h) => \E k \in (i + 1)..Len(q) : q[k] = Cleared(h)
        BY <1>4, <2>3, <4>1, <4>3, <4>4
      <4>6. UpComes(h)' /\ DownComes(h)'
        BY <1>1, <3>1, <4>1, <4>2, <4>5 DEF UpComes, DownComes, q
      <4> QED
        BY <3>2, <4>6 DEF Hears
    <3> QED
      BY <3>3, <3>4
  <2> QED
    BY <2>2, <2>3
<1> QED
  BY <1>6, <1>7

\* Whoever polls or listens for the bridge loses its stream, or what was up counts
\* as lost.
LEMMA RestartHears ==
  ASSUME HandsTypes, Stages, Comes, live # 0, GuestRestart, NEW h \in Hands \ lost'
  PROVE  Hears(h)'
<1>1. live \in Consumers /\ UNCHANGED <<cards, live>> /\ duty' = {}
  BY DEF GuestRestart, HandsTypes, bridge
<1>2. CASE L.pc \in {"list", "open"}
  <2>1. L'.pc = "poll"
    BY <1>1, <1>2, GuestRestartDoes DEF L
  <2> QED
    BY <2>1, NotPolled DEF Polled
<1>3. CASE L.pc \in {"diff", "gone", "add", "connect"}
  <2>1. L' = L
    BY <1>1, <1>3, GuestRestartDoes DEF L
  <2>2. lost' = lost \union up \union {n.hand : n \in duty}
    BY <1>3 DEF GuestRestart, L
  <2>3. h \notin lost /\ hand'[h] = hand[h] /\ hand[h] # "up"
    BY <2>2 DEF GuestRestart, up, HandsTypes
  <2>4. Raised(h) \notin duty /\ Cleared(h) \notin duty
    BY <2>2 DEF Raised, Cleared
  <2> QED
    BY <1>1, <2>1, <2>3, <2>4, ViewKept DEF Comes
<1>4. CASE L.pc \notin {"diff", "gone", "add", "connect", "list", "open"}
  <2>1. L' = L
    BY <1>1, <1>4, GuestRestartDoes DEF L
  <2> QED
    BY <1>4, <2>1, NotPolled DEF Polled
<1> QED
  BY <1>2, <1>3, <1>4

\* What it polls is what the board will be brought to say.
LEMMA PollHears ==
  ASSUME HandsTypes, Stages, AllHappened, live \in Consumers, Poll(live), NEW h \in Hands
  PROVE  Hears(h)'
<1>1. UNCHANGED <<hand, duty, cards, live>>
  BY DEF Poll, hub, bridge
<1>2. L'.pc = "diff" /\ L'.now = up /\ L'.snap = {} /\ L'.queue = <<>>
  <2>1. L.snap = {} /\ L.queue = <<>>
    BY DEF Stages, Poll, At, L
  <2> QED
    BY <1>1, <2>1, PollDoes DEF Becomes, L
<1>3. DropsDown(h)'
  BY <1>1, <1>2 DEF DropsDown, AllHappened, up, HandsTypes
<1>4. UpComes(h)'
  BY <1>1, <1>2 DEF UpComes, up
<1>5. DownComes(h)'
  <2>1. hand[h] = "down" => h \notin L'.now \union L'.snap
    BY <1>2 DEF up
  <2>2. Len(L'.queue) = 0
    BY <1>2
  <2> QED
    BY <1>1, <1>2, <2>1, <2>2 DEF DownComes
<1> QED
  BY <1>3, <1>4, <1>5 DEF Hears

\* dropMissing takes down cards of hands that are down.
LEMMA DropMissingHears ==
  ASSUME HandsTypes, Comes, live \in Consumers, live # 0, DropMissing(live), NEW h \in Hands \ lost
  PROVE  Hears(h)'
<1>1. UNCHANGED <<hand, duty, live>> /\ cards' = cards \intersect L.now /\ L.pc = "diff"
  BY DEF DropMissing, At, hub, L
<1>2. L'.pc = "gone" /\ L'.now = L.now /\ L'.snap = L.snap /\ L'.queue = L.queue
  BY <1>1, DropMissingDoes DEF Becomes, L
<1>3. UpComes(h) /\ DownComes(h)
  BY DEF Comes, Hears
<1>4. DropsDown(h)' /\ UpComes(h)'
  BY <1>1, <1>2, <1>3 DEF DropsDown, UpComes, Polled
<1>5. DownComes(h)'
  BY <1>1, <1>2, <1>3 DEF DownComes, Polled
<1> QED
  BY <1>4, <1>5 DEF Hears

\* Announcing takes nothing from what it holds.
LEMMA AnnounceHears ==
  ASSUME HandsTypes, Comes, live \in Consumers, live # 0, Announce(live), NEW h \in Hands \ lost
  PROVE  Hears(h)'
<1>1. UNCHANGED <<hand, duty, cards, live>> /\ L.pc = "gone"
  BY DEF Announce, At, hub, bridge, L
<1>2. L'.pc \in {"gone", "add"} /\ L'.now = L.now /\ L'.snap = L.snap /\ L'.queue = L.queue
  BY <1>1, AnnounceDoes DEF Becomes, L
<1>3. UpComes(h) /\ DownComes(h)
  BY DEF Comes, Hears
<1>4. DropsDown(h)' /\ UpComes(h)'
  BY <1>1, <1>2, <1>3 DEF DropsDown, UpComes, Polled
<1>5. DownComes(h)'
  BY <1>1, <1>2, <1>3 DEF DownComes, Polled
<1> QED
  BY <1>4, <1>5 DEF Hears

\* resync stores a card of each hand it polled.
LEMMA AddHears ==
  ASSUME HandsTypes, Stages, Comes, live \in Consumers, live # 0, Add(live), NEW h \in Hands \ lost
  PROVE  Hears(h)'
<1>1. UNCHANGED <<hand, duty, live>> /\ L.pc = "add"
  BY DEF Add, At, hub, L
<1>2. /\ L'.pc \in {"add", "connect"} /\ L'.snap = L.snap /\ L'.queue = L.queue
      /\ L'.now \subseteq L.now
      /\ h \in L'.now \union L.snap \/ h \in cards' <=> h \in L.now \union L.snap \/ h \in cards
  <2>1. CASE /\ L.now = {} /\ UNCHANGED <<cards, lost>>
             /\ Becomes(live, "connect", {}, L.gone, L.snap, L.queue, NoChange)
    BY <1>1, <2>1 DEF Becomes, L
  <2>2. ASSUME NEW g \in L.now, cards' = cards \union {g},
               Becomes(live, "add", L.now \ {g}, L.gone, L.snap, L.queue, Told(g))
        PROVE  /\ L'.pc = "add" /\ L'.snap = L.snap /\ L'.queue = L.queue
               /\ L'.now = L.now \ {g}
    BY <1>1, <2>2 DEF Becomes, L
  <2>3. \/ /\ L.now = {} /\ UNCHANGED <<cards, lost>>
           /\ Becomes(live, "connect", {}, L.gone, L.snap, L.queue, NoChange)
        \/ \E g \in L.now :
             /\ cards' = cards \union {g}
             /\ Becomes(live, "add", L.now \ {g}, L.gone, L.snap, L.queue, Told(g))
    BY AddDoes DEF L
  <2>4. CASE /\ L.now = {} /\ UNCHANGED <<cards, lost>>
             /\ Becomes(live, "connect", {}, L.gone, L.snap, L.queue, NoChange)
    BY <2>1, <2>4
  <2>5. ASSUME NEW g \in L.now, cards' = cards \union {g},
               Becomes(live, "add", L.now \ {g}, L.gone, L.snap, L.queue, Told(g))
        PROVE  /\ L'.pc \in {"add", "connect"} /\ L'.snap = L.snap /\ L'.queue = L.queue
               /\ L'.now \subseteq L.now
               /\ h \in L'.now \union L.snap \/ h \in cards'
                     <=> h \in L.now \union L.snap \/ h \in cards
    BY <2>2, <2>5
  <2> QED
    BY <2>3, <2>4, <2>5
<1>3. UpComes(h) /\ DownComes(h)
  BY DEF Comes, Hears
<1>4. DropsDown(h)' /\ UpComes(h)'
  BY <1>1, <1>2, <1>3 DEF DropsDown, UpComes, Polled
<1>5. DownComes(h)'
  BY <1>1, <1>2, <1>3 DEF DownComes, Polled
<1> QED
  BY <1>4, <1>5 DEF Hears

\* Beginning to listen takes nothing from what it holds.
LEMMA ConnectHears ==
  ASSUME HandsTypes, Comes, live \in Consumers, live # 0, Connect(live), NEW h \in Hands \ lost
  PROVE  Hears(h)'
<1>1. UNCHANGED <<hand, duty, cards, live>> /\ L.pc = "connect"
  BY DEF Connect, At, hub, bridge, L
<1>2. L'.pc = "list" /\ L'.now = L.now /\ L'.snap = L.snap /\ L'.queue = L.queue
  BY <1>1, ConnectDoes DEF Becomes, L
<1>3. UpComes(h) /\ DownComes(h)
  BY DEF Comes, Hears
<1>4. DropsDown(h)' /\ UpComes(h)'
  BY <1>1, <1>2, <1>3 DEF DropsDown, UpComes, Polled
<1>5. DownComes(h)'
  BY <1>1, <1>2, <1>3 DEF DownComes, Polled
<1> QED
  BY <1>4, <1>5 DEF Hears

\* handlePendingEvents lists what is up, once it listens.
LEMMA ListHears ==
  ASSUME HandsTypes, Stages, Comes, live \in Consumers, live # 0, List(live), NEW h \in Hands \ lost
  PROVE  Hears(h)'
<1>1. UNCHANGED <<hand, duty, cards, live>> /\ L.pc = "list" /\ L.snap = {}
  BY DEF List, At, hub, bridge, L, Stages
<1>2. L'.pc = "open" /\ L'.now = L.now /\ L'.snap = up /\ L'.queue = L.queue
  BY <1>1, ListDoes DEF Becomes, L
<1>3. UpComes(h) /\ DownComes(h)
  BY DEF Comes, Hears
<1>4. DropsDown(h)' /\ UpComes(h)'
  BY <1>1, <1>2 DEF DropsDown, UpComes, up
<1>5. hand[h] = "down" => h \notin up
  BY DEF up
<1>6. DownComes(h)'
  BY <1>1, <1>2, <1>3, <1>5 DEF DownComes, Polled
<1> QED
  BY <1>4, <1>6 DEF Hears

\* The stream: what the snapshot or a change says is taken to the board.
LEMMA OnPendingHears ==
  ASSUME HandsTypes, Stages, AllHappened, Comes, live \in Consumers, live # 0, OnPending(live),
         NEW h \in Hands \ lost
  PROVE  Hears(h)'
<1>1. UNCHANGED <<hand, duty, live>> /\ L.pc = "open" /\ L.now = {} /\ L.queue \in Seq(Changes)
  BY DEF OnPending, At, hub, L, Stages, HandsTypes, Consumer
<1>2. UpComes(h) /\ DownComes(h)
  BY DEF Comes, Hears
<1>3. ASSUME NEW g \in L.snap, cards' = cards \union {g},
             Becomes(live, "open", L.now, L.gone, L.snap \ {g}, L.queue, Told(g))
      PROVE  Hears(h)'
  <2>1. L'.pc = "open" /\ L'.now = L.now /\ L'.snap = L.snap \ {g} /\ L'.queue = L.queue
    BY <1>1, <1>3 DEF Becomes, L
  <2>2. DropsDown(h)' /\ UpComes(h)'
    BY <1>1, <1>2, <1>3, <2>1 DEF DropsDown, UpComes, Polled
  <2>3. DownComes(h)'
    BY <1>1, <1>2, <1>3, <2>1 DEF DownComes, Polled
  <2> QED
    BY <2>2, <2>3 DEF Hears
<1>4. ASSUME L.snap = {}, L.queue # <<>>
      PROVE  \A i \in 1..Len(Tail(L.queue)) : i + 1 \in 1..Len(L.queue) /\ Tail(L.queue)[i] = L.queue[i + 1]
  BY <1>1, <1>4, Headed
<1>5. ASSUME L.snap = {}, L.queue # <<>>,
             \/ /\ cards' = cards \union {Head(L.queue).hand}
                /\ Head(L.queue) = Raised(Head(L.queue).hand)
             \/ /\ cards' = cards \ {Head(L.queue).hand}
                /\ Head(L.queue) = Cleared(Head(L.queue).hand),
             L'.pc = "open", L'.now = {}, L'.snap = {}, L'.queue = Tail(L.queue)
      PROVE  Hears(h)'
  <2> DEFINE n == Head(L.queue)
  <2> DEFINE q == Tail(L.queue)
  <2>1. /\ n = L.queue[1] /\ 1 \in 1..Len(L.queue)
        /\ q \in Seq(Changes) /\ Len(q) = Len(L.queue) - 1 /\ Len(L.queue) \in Nat
    BY <1>1, <1>5, Headed
  <2>2. \A i \in 1..Len(q) : q[i] = L.queue[i + 1]
    BY <1>1, <1>5, Headed
  <2>3. \/ cards' = cards \union {n.hand} /\ n = Raised(n.hand)
        \/ cards' = cards \ {n.hand} /\ n = Cleared(n.hand)
    BY <1>5
  <2>4. L'.queue = q
    BY <1>5
  <2> HIDE DEF n, q
  <2>5. \A m : InQueue(L.queue, m) /\ m # n => InQueue(q, m)
    <3>1. ASSUME NEW m, NEW i \in 1..Len(L.queue), L.queue[i] = m, m # n
          PROVE  InQueue(q, m)
      <4>1. i - 1 \in 1..Len(q) /\ q[i - 1] = m
        BY <2>1, <2>2, <3>1
      <4> QED
        BY <4>1 DEF InQueue
    <3> QED
      BY <3>1 DEF InQueue
  \* A notice further back has its answer further back still.
  <2>6. \A i \in 1..Len(q) : \A k \in (i + 2)..Len(L.queue) :
          k - 1 \in (i + 1)..Len(q) /\ q[k - 1] = L.queue[k]
    BY <2>1, <2>2
  <2>7. ASSUME hand[h] = "down", NEW i \in 1..Len(q), q[i] = Raised(h)
        PROVE  Cleared(h) \in duty \/ \E k \in (i + 1)..Len(q) : q[k] = Cleared(h)
    <3>1. i + 1 \in 1..Len(L.queue) /\ L.queue[i + 1] = Raised(h)
      BY <2>1, <2>2, <2>7
    <3>2. Cleared(h) \in duty \/ \E k \in (i + 1 + 1)..Len(L.queue) : L.queue[k] = Cleared(h)
      BY <1>1, <1>2, <2>7, <3>1 DEF DownComes, Polled
    <3>3. i + 1 + 1 = i + 2
      OBVIOUS
    <3> QED
      BY <2>6, <3>2, <3>3
  <2>8. DropsDown(h)'
    BY <1>5 DEF DropsDown
  <2>9. UpComes(h)'
    <3>1. n = Cleared(h) => hand[h] = "down"
      <4>1. Happened(n)
        BY <2>1 DEF AllHappened, L
      <4> QED
        BY <4>1 DEF Happened, Cleared
    <3>2. ASSUME hand[h] = "up"
          PROVE  Raised(h) \in duty \/ InQueue(q, Raised(h)) \/ h \in cards'
      <4>1. Raised(h) \in duty \/ InQueue(L.queue, Raised(h)) \/ h \in cards
        BY <1>1, <1>2, <1>5, <3>2 DEF UpComes, Polled
      <4>2. n = Raised(h) => n.hand = h
        BY DEF Raised
      <4> QED
        BY <2>3, <2>5, <3>1, <3>2, <4>1, <4>2
    <3> QED
      BY <1>1, <1>5, <2>4, <3>2 DEF UpComes
  <2>10. ASSUME hand[h] = "down", h \in cards'
         PROVE  Cleared(h) \in duty \/ InQueue(q, Cleared(h))
    <3>1. CASE n.hand # h
      <4>1. h \in cards /\ Cleared(h) # n
        BY <2>3, <2>10, <3>1 DEF Cleared
      <4> QED
        BY <1>1, <1>2, <2>5, <2>10, <4>1 DEF DownComes, Polled
    <3>2. CASE n.hand = h
      <4>1. n = Raised(h)
        BY <2>3, <2>10, <3>2
      <4>2. Cleared(h) \in duty \/ \E k \in (1 + 1)..Len(L.queue) : L.queue[k] = Cleared(h)
        BY <1>1, <1>2, <2>1, <2>10, <4>1 DEF DownComes, Polled
      <4>3. Cleared(h) # n
        BY <4>1 DEF Cleared, Raised
      <4>4. \A k \in (1 + 1)..Len(L.queue) : k \in 1..Len(L.queue)
        BY <2>1
      <4> QED
        BY <2>5, <4>2, <4>3, <4>4 DEF InQueue
    <3> QED
      BY <3>1, <3>2
  <2>11. DownComes(h)'
    BY <1>1, <1>5, <2>4, <2>7, <2>10 DEF DownComes
  <2> QED
    BY <2>8, <2>9, <2>11 DEF Hears
<1>6. \/ \E g \in L.snap :
           /\ cards' = cards \union {g}
           /\ Becomes(live, "open", L.now, L.gone, L.snap \ {g}, L.queue, Told(g))
      \/ /\ L.snap = {} /\ L.queue # <<>>
         /\ \/ /\ Head(L.queue) = Raised(Head(L.queue).hand)
               /\ cards' = cards \union {Head(L.queue).hand}
               /\ Becomes(live, "open", L.now, L.gone, {}, Tail(L.queue), Told(Head(L.queue).hand))
            \/ /\ Head(L.queue) = Cleared(Head(L.queue).hand)
               /\ cards' = cards \ {Head(L.queue).hand}
               /\ Becomes(live, "open", L.now, L.gone, {}, Tail(L.queue),
                          Cleared(Head(L.queue).hand))
  BY OnPendingDoes DEF L
<1>7. ASSUME NEW out, Becomes(live, "open", L.now, L.gone, {}, Tail(L.queue), out)
      PROVE  L'.pc = "open" /\ L'.now = {} /\ L'.snap = {} /\ L'.queue = Tail(L.queue)
  BY <1>1, <1>7 DEF Becomes, L
<1>8. CASE \E g \in L.snap :
             /\ cards' = cards \union {g}
             /\ Becomes(live, "open", L.now, L.gone, L.snap \ {g}, L.queue, Told(g))
  BY <1>3, <1>8
<1>9. CASE /\ L.snap = {} /\ L.queue # <<>>
           /\ \/ /\ Head(L.queue) = Raised(Head(L.queue).hand)
                 /\ cards' = cards \union {Head(L.queue).hand}
                 /\ Becomes(live, "open", L.now, L.gone, {}, Tail(L.queue), Told(Head(L.queue).hand))
              \/ /\ Head(L.queue) = Cleared(Head(L.queue).hand)
                 /\ cards' = cards \ {Head(L.queue).hand}
                 /\ Becomes(live, "open", L.now, L.gone, {}, Tail(L.queue),
                            Cleared(Head(L.queue).hand))
  <2>1. L'.pc = "open" /\ L'.now = {} /\ L'.snap = {} /\ L'.queue = Tail(L.queue)
    BY <1>7, <1>9
  <2>2. L.snap = {} /\ L.queue # <<>>
    BY <1>9
  <2>3. \/ cards' = cards \union {Head(L.queue).hand} /\ Head(L.queue) = Raised(Head(L.queue).hand)
        \/ cards' = cards \ {Head(L.queue).hand} /\ Head(L.queue) = Cleared(Head(L.queue).hand)
    BY <1>9
  <2> QED
    BY <1>5, <2>1, <2>2, <2>3
<1> QED
  BY <1>6, <1>8, <1>9

\* Emitting, and a stream that ends.
LEMMA EmitHears ==
  ASSUME HandsTypes, Comes, live \in Consumers, live # 0, Emit(live), NEW h \in Hands \ lost
  PROVE  Hears(h)'
<1>1. UNCHANGED <<hand, duty, cards, live>>
  BY DEF Emit, hub, bridge
<1>2. L'.pc = L.pc /\ L'.now = L.now /\ L'.snap = L.snap /\ L'.queue = L.queue
  BY <1>1, EmitDoes DEF Becomes, L
<1> QED
  BY <1>1, <1>2, ViewKept DEF Comes

\* A stream that ends sends the consumer back to its poll.
LEMMA EndsHears ==
  ASSUME HandsTypes, live \in Consumers, StreamEnds(live), NEW h
  PROVE  Hears(h)'
<1>1. live' = live
  BY DEF StreamEnds, bridge
<1>2. L'.pc = "poll"
  BY <1>1, StreamEndsDoes DEF Becomes, L
<1> QED
  BY <1>2, NotPolled DEF Polled

\* Every step keeps what comes.
LEMMA ComesStep == HandsTypes /\ Stages /\ AllHappened /\ Comes /\ 0 \notin Consumers /\ [Next]_vars => Comes'
<1> SUFFICES ASSUME HandsTypes, Stages, AllHappened, Comes, 0 \notin Consumers, [Next]_vars, live' # 0,
                    NEW h \in Hands \ lost'
             PROVE  Hears(h)'
  BY DEF Comes
<1>1. ASSUME NEW c \in Consumers, Consume(c)
      PROVE  Hears(h)'
  <2>1. live' = live /\ live # 0 /\ live \in Consumers
    BY <1>1, ConsumeFrame DEF HandsTypes
  <2>2. CASE c # live
    BY <1>1, <2>1, <2>2, OldHears
  <2>3. CASE c = live
    <3>1. CASE Poll(c)
      BY <2>1, <2>3, <3>1, PollHears
    <3>2. ASSUME ~ Poll(c)
          PROVE  h \in Hands \ lost
      <4>1. UNCHANGED lost \/ Touched(c, {h}) \/ \E hs : Touched(c, hs)
        BY <1>1, <3>2 DEF Consume, Stops, DropMissing, Announce, Add, Connect, List, OnPending,
           Emit, StreamEnds
      <4> QED
        BY <2>3, <4>1 DEF Touched
    <3>3. CASE Stops(c)
      BY <2>3, <3>3 DEF Stops
    <3>4. CASE DropMissing(c)
      BY <2>1, <2>3, <3>1, <3>2, <3>4, DropMissingHears
    <3>5. CASE Announce(c)
      BY <2>1, <2>3, <3>1, <3>2, <3>5, AnnounceHears
    <3>6. CASE Add(c)
      BY <2>1, <2>3, <3>1, <3>2, <3>6, AddHears
    <3>7. CASE Connect(c)
      BY <2>1, <2>3, <3>1, <3>2, <3>7, ConnectHears
    <3>8. CASE List(c)
      BY <2>1, <2>3, <3>1, <3>2, <3>8, ListHears
    <3>9. CASE OnPending(c)
      BY <2>1, <2>3, <3>1, <3>2, <3>9, OnPendingHears
    <3>10. CASE Emit(c)
      BY <2>1, <2>3, <3>1, <3>2, <3>10, EmitHears
    <3>11. CASE StreamEnds(c)
      BY <2>1, <2>3, <3>11, EndsHears
    <3> QED
      BY <1>1, <3>1, <3>3, <3>4, <3>5, <3>6, <3>7, <3>8, <3>9, <3>10, <3>11 DEF Consume
  <2> QED
    BY <2>2, <2>3
<1>2. ASSUME NEW g \in Hands, Raise(g) \/ Clear(g)
      PROVE  Hears(h)'
  <2>1. live # 0 /\ h \in Hands \ lost
    BY <1>2 DEF Raise, Clear, bridge
  <2> QED
    BY <1>2, <2>1, RaiseHears
<1>3. ASSUME NEW n \in duty, Publish(n)
      PROVE  Hears(h)'
  <2>1. live # 0
    BY <1>3 DEF Publish, bridge
  <2> QED
    BY <1>3, <2>1, PublishHears
<1>4. CASE GuestRestart
  <2>1. live # 0
    BY <1>4 DEF GuestRestart, bridge
  <2> QED
    BY <1>4, <2>1, RestartHears
<1>5. CASE Load \/ Reconnect
  <2>1. PICK screen \in SUBSET Hands : CanVisit /\ Subscribe(screen)
    BY <1>5 DEF Load, Reconnect, HandsTypes
  <2>2. CASE live = 0
    <3>1. L'.pc = "poll"
      BY <2>1, <2>2, SubscribeDoes DEF Becomes, L
    <3> QED
      BY <3>1, NotPolled DEF Polled
  <2>3. CASE live # 0
    <3>1. UNCHANGED <<hand, duty, cards, lost, live, con>>
      BY <2>1, <2>3, SubscribeDoes DEF hub
    <3> QED
      BY <2>3, <3>1, ViewKept DEF Comes, L
  <2> QED
    BY <2>2, <2>3
<1>6. CASE UNCHANGED <<hand, duty, cards, lost, live, con>>
  BY <1>6, ViewKept DEF Comes, L
<1>7. CASE StopIfEmpty
  BY <1>7 DEF StopIfEmpty
<1> QED
  BY <1>1, <1>2, <1>3, <1>4, <1>5, <1>6, <1>7
     DEF Next, History, NoHistory, Render, Leave, vars, hub, bridge

\* With nothing raised there is nothing to come.
LEMMA BoardInit == Init => BoardInv
<1> SUFFICES ASSUME Init PROVE BoardInv
  OBVIOUS
<1>1. HandsTypes /\ Stages
  BY TypesInit
<1>2. \A c \in Consumers : con[c] \in {Fresh, Unborn, Ended}
  BY DEF Init
<1>3. \A c \in Consumers : con[c].now = {} /\ con[c].snap = {} /\ con[c].queue = <<>>
  BY <1>2, ConsumerStates
<1>4. AllHappened
  BY <1>3 DEF Init, AllHappened
<1>5. L.pc = "poll"
  BY HandsAssumption, ConsumerStates DEF Init, L
<1>6. Comes
  BY <1>5 DEF Comes, Hears, DropsDown, UpComes, DownComes, Polled
<1> QED
  BY <1>1, <1>4, <1>6 DEF BoardInv

\* Every step keeps the whole of it.
LEMMA BoardKept == BoardInv /\ [Next]_vars => BoardInv'
<1>1. 0 \notin Consumers
  BY HandsAssumption
<1> QED
  BY <1>1, TypesStep, HappenedStep, ComesStep DEF BoardInv

\* What is on its way to the bridge is the whole of what the board does not yet
\* say (resync, onPending, publish, handlePendingEvents).
LEMMA BoardAlways == Spec => []BoardInv
<1>1. Init => BoardInv
  BY BoardInit
<1>2. BoardInv /\ [Next]_vars => BoardInv'
  BY BoardKept
<1> QED
  BY <1>1, <1>2, PTL DEF Spec

\* When the stream is settled nothing is on its way, and the cards are the hands
\* that are up.
LEMMA SettledAgrees == BoardInv => BoardAgrees
<1> SUFFICES ASSUME BoardInv, Settled, Old = {}, NEW h \in Hands \ lost
             PROVE  h \in cards <=> h \in up
  BY DEF BoardAgrees
<1>1. /\ live # 0 /\ L.pc = "open" /\ L.now = {} /\ L.snap = {} /\ L.queue = <<>> /\ duty = {}
  BY DEF Settled, BoardInv, Stages, L, HandsTypes
<1>2. UpComes(h) /\ DownComes(h) /\ hand[h] \in {"never", "up", "down"}
  BY <1>1 DEF BoardInv, Comes, Hears, HandsTypes
<1>3. \A m : ~ InQueue(L.queue, m)
  BY <1>1 DEF InQueue
<1>4. hand[h] = "up" => h \in cards
  BY <1>1, <1>2, <1>3 DEF UpComes, Polled
<1>5. hand[h] = "down" => h \notin cards
  BY <1>1, <1>2, <1>3 DEF DownComes, Polled
<1>6. hand[h] = "never" => h \notin cards
  BY DEF BoardInv, AllHappened
<1> QED
  BY <1>2, <1>4, <1>5, <1>6 DEF up

\* For any number of hands and consumers and any size of channel: between changes
\* the bridge's cards are the hands that are up, except for a change that was lost
\* (resync, onPending, publish, handlePendingEvents).
THEOREM BoardIsRight == Spec => []BoardAgrees
BY BoardAlways, SettledAgrees, PTL

-----------------------------------------------------------------------------
(* The promise of CardBoard.                                               *)

Calm == Old = {} /\ lost = {}

\* A consumer that acts has been started and has not returned.
LEMMA ActorsAreHere ==
  ASSUME HandsTypes, NEW c \in Consumers, Consume(c), ~ Stops(c), ~ Emit(c), Old = {}
  PROVE  c = live
<1>1. con[c].pc \notin {"none", "ended"}
  BY DEF Consume, Poll, DropMissing, Announce, Add, Connect, List, OnPending, StreamEnds, At
<1>2. con[c] \notin {Unborn, Ended}
  BY <1>1, ConsumerStates
<1> QED
  BY <1>2 DEF Old

\* A hand goes up, or goes down, or they all do.
LEMMA HubSteps ==
  ASSUME HandsTypes, Next, hand' # hand
  PROVE  (Board!GoesUp \/ Board!GoesDown) /\ UNCHANGED cards
<1>1. \/ \E h \in Hands : Raise(h) \/ Clear(h)
      \/ GuestRestart
  BY DEF Next, Consume, Publish, Poll, Stops, DropMissing, Announce, Add, Connect, List, OnPending,
         Emit, StreamEnds, Load, Reconnect, Subscribe, History, NoHistory, Render, Leave,
         StopIfEmpty, hub
<1>2. ASSUME NEW h \in Hands, Raise(h)
      PROVE  Board!GoesUp /\ UNCHANGED cards
  BY <1>2 DEF Raise, bridge, Board!GoesUp
<1>3. ASSUME NEW h \in Hands, Clear(h)
      PROVE  Board!GoesDown /\ UNCHANGED cards
  <2>1. /\ hand' \in [Hands -> {"never", "up", "down"}]
        /\ \A g \in Hands : hand'[g] # hand[g] => hand[g] = "up" /\ hand'[g] = "down"
    BY <1>3 DEF Clear, HandsTypes
  <2>2. UNCHANGED cards
    BY <1>3 DEF Clear, bridge
  <2> QED
    BY <2>1, <2>2 DEF Board!GoesDown
<1>4. ASSUME GuestRestart
      PROVE  Board!GoesDown /\ UNCHANGED cards
  <2>1. /\ hand' \in [Hands -> {"never", "up", "down"}]
        /\ \A g \in Hands : hand'[g] # hand[g] => hand[g] = "up" /\ hand'[g] = "down"
    BY <1>4 DEF GuestRestart, HandsTypes
  <2>2. UNCHANGED cards
    BY <1>4 DEF GuestRestart, bridge
  <2> QED
    BY <2>1, <2>2 DEF Board!GoesDown
<1> QED
  BY <1>1, <1>2, <1>3, <1>4

\* cardFor shows a card of a hand that was raised; resync and onPending take down
\* those of hands that have gone down.
LEMMA CardSteps ==
  ASSUME BoardInv, Next, cards' # cards
  PROVE  (Board!Show \/ Board!TakeDown) /\ UNCHANGED hand
<1>1. \E c \in Consumers : DropMissing(c) \/ Add(c) \/ OnPending(c)
  BY DEF Next, Consume, Raise, Clear, Publish, GuestRestart, Poll, Stops, Announce, Connect, List,
         Emit, StreamEnds, Load, Reconnect, Subscribe, History, NoHistory, Render, Leave,
         StopIfEmpty, bridge
<1>2. PICK c \in Consumers : DropMissing(c) \/ Add(c) \/ OnPending(c)
  BY <1>1
<1>3. HandsTypes /\ Stages /\ AllHappened /\ Comes /\ con[c] \in Consumer /\ UNCHANGED hand
  BY <1>2, ConsumeFrame DEF BoardInv, HandsTypes, Consume
<1>4. Old = {} => c = live
  BY <1>2, <1>3, ActorsAreHere DEF Consume, Stops, Emit, DropMissing, Add, OnPending, At
<1>5. CASE DropMissing(c)
  <2>1. cards' = cards \intersect con[c].now /\ con[c].pc = "diff"
    BY <1>5 DEF DropMissing, At
  <2>2. ASSUME Calm, NEW h \in cards \ cards'
        PROVE  hand[h] = "down"
    <3>1. c = live /\ live # 0 /\ h \in Hands \ lost
      BY <1>3, <1>4, <2>2, HandsAssumption DEF Calm, HandsTypes
    <3>2. DropsDown(h)
      BY <1>3, <3>1 DEF Comes, Hears
    <3> QED
      BY <2>1, <2>2, <3>1, <3>2 DEF DropsDown, L
  <2>3. cards' \subseteq cards
    BY <2>1
  <2> QED
    BY <1>3, <2>2, <2>3 DEF Board!TakeDown, Calm
<1>6. ASSUME NEW h, h \in con[c].now \union con[c].snap, cards' = cards \union {h}
      PROVE  Board!Show
  <2>1. h \in Hands /\ hand[h] # "never"
    BY <1>3, <1>6 DEF AllHappened, Consumer
  <2> QED
    BY <1>6, <2>1 DEF Board!Show
<1>7. CASE Add(c)
  <2>1. \E h \in con[c].now : cards' = cards \union {h}
    BY <1>3, <1>7, AddDoes
  <2> QED
    BY <1>3, <1>6, <2>1
<1>8. CASE OnPending(c)
  <2>1. \/ \E h \in con[c].snap : cards' = cards \union {h}
        \/ /\ con[c].queue # <<>>
           /\ LET n == Head(con[c].queue) IN
                \/ n = Raised(n.hand) /\ cards' = cards \union {n.hand}
                \/ n = Cleared(n.hand) /\ cards' = cards \ {n.hand}
    BY <1>3, <1>8, OnPendingDoes
  <2>2. CASE \E h \in con[c].snap : cards' = cards \union {h}
    BY <1>3, <1>6, <2>2
  <2>3. CASE /\ con[c].queue # <<>>
             /\ LET n == Head(con[c].queue) IN
                  \/ n = Raised(n.hand) /\ cards' = cards \union {n.hand}
                  \/ n = Cleared(n.hand) /\ cards' = cards \ {n.hand}
    <3> DEFINE n == Head(con[c].queue)
    <3>1. con[c].queue \in Seq(Changes)
      BY <1>3 DEF Consumer
    <3>2. n = con[c].queue[1] /\ n \in Changes /\ 1 \in 1..Len(con[c].queue)
      BY <2>3, <3>1, Headed
    <3>3. n.hand \in Hands /\ Happened(n)
      BY <1>3, <3>2 DEF AllHappened, Changes
    <3>4. \/ n = Raised(n.hand) /\ cards' = cards \union {n.hand}
          \/ n = Cleared(n.hand) /\ cards' = cards \ {n.hand}
      BY <2>3
    <3> HIDE DEF n
    <3>5. CASE n = Raised(n.hand) /\ cards' = cards \union {n.hand}
      <4>1. hand[n.hand] # "never"
        BY <3>3 DEF Happened
      <4> QED
        BY <1>3, <3>3, <3>5, <4>1 DEF Board!Show
    <3>6. CASE n = Cleared(n.hand) /\ cards' = cards \ {n.hand}
      <4>1. n.kind = "cleared"
        BY <3>6 DEF Cleared
      <4>2. hand[n.hand] = "down"
        BY <3>3, <4>1 DEF Happened
      <4> QED
        BY <1>3, <3>6, <4>2 DEF Board!TakeDown
    <3> QED
      BY <3>4, <3>5, <3>6
  <2> QED
    BY <2>1, <2>2, <2>3
<1> QED
  BY <1>2, <1>5, <1>7, <1>8

\* Every step is one of CardBoard's or leaves its variables alone.
LEMMA BoardStepRefines == BoardInv /\ [Next]_vars => [Board!Step]_<<hand, cards, Calm>>
<1> SUFFICES ASSUME BoardInv, [Next]_vars PROVE [Board!Step]_<<hand, cards, Calm>>
  OBVIOUS
<1>1. CASE vars' = vars
  BY <1>1 DEF vars, hub, bridge, Calm, Old
<1>2. CASE Next
  <2>1. Calm' \in BOOLEAN
    BY DEF Calm
  <2>2. \/ (Board!GoesUp \/ Board!GoesDown) /\ UNCHANGED cards
        \/ (Board!Show \/ Board!TakeDown) /\ UNCHANGED hand
        \/ UNCHANGED <<hand, cards>>
    BY <1>2, HubSteps, CardSteps DEF BoardInv
  <2> QED
    BY <2>1, <2>2 DEF Board!Step, Calm
<1> QED
  BY <1>1, <1>2

\* The bridge keeps what CardBoard promises the people at the page: a card is of a
\* hand that was raised, and goes only when that hand is down, while no change was
\* lost and no old consumer is at work (resync, onPending, cardFor, forget).
THEOREM BoardKeepsItsPromise == Spec => BoardPromise
<1>1. Init => Board!BoardInit
  <2> SUFFICES ASSUME Init PROVE Board!BoardInit
    OBVIOUS
  <2>1. Old = {}
    BY DEF Init, Old
  <2> QED
    BY <2>1 DEF Init, Board!BoardInit
<1>2. BoardInv /\ [Next]_vars => [Board!Step]_<<hand, cards, (Old = {} /\ lost = {})>>
  BY BoardStepRefines DEF Calm
<1> QED
  BY <1>1, <1>2, BoardAlways, PTL DEF Spec, BoardPromise, Board!BoardSpec

-----------------------------------------------------------------------------
(* What a page has still to read.                                          *)

\* The consumer's own step: what it then has to tell is so, and of a hand it has
\* nothing to tell it had nothing to tell before, and the card is as it was.
Tells(h) == /\ TellsTrue(h) => TellsTrue(h)'
            /\ Untold(h)' => Untold(h) /\ (h \in cards' <=> h \in cards)

\* Two changes of different hands, or of different kinds, are not the same.
LEMMA ChangesDiffer ==
  \A h, g : /\ Raised(h) # Cleared(g) /\ Raised(h) # NoChange /\ Cleared(h) # NoChange
            /\ h # g => Raised(h) # Raised(g) /\ Cleared(h) # Cleared(g)
BY DEF Raised, Cleared, NoChange

\* A step that keeps the cards, the frame to come and the announcements to come.
LEMMA TellsAsBefore ==
  ASSUME NEW h, UNCHANGED cards, L'.out = L.out, L'.gone = L.gone
  PROVE  Tells(h)
BY DEF Tells, TellsTrue, Untold

\* A consumer between two announcements has none to make.
LEMMA Silent ==
  ASSUME HandsTypes, Stages, live \in Consumers, L.pc # "gone"
  PROVE  L.gone = {}
BY DEF Stages, L

\* The round starts, ends, or goes on to the stream, with nothing to tell.
LEMMA QuietTells ==
  ASSUME HandsTypes, Stages, live \in Consumers, NEW h,
         \/ Poll(live) \/ Connect(live) \/ List(live) \/ StreamEnds(live)
  PROVE  Tells(h) /\ TellsTrue(h)'
<1>1. UNCHANGED <<cards, live>> /\ L.out = NoChange /\ L.pc # "gone"
  BY DEF Poll, Connect, List, StreamEnds, At, bridge, L
<1>2. L.gone = {}
  BY <1>1, Silent
<1>3. L'.out = NoChange /\ L'.gone = {}
  <2>1. CASE Poll(live)
    BY <1>1, <1>2, <2>1, PollDoes DEF Becomes, L
  <2>2. CASE Connect(live)
    BY <1>1, <1>2, <2>2, ConnectDoes DEF Becomes, L
  <2>3. CASE List(live)
    BY <1>1, <1>2, <2>3, ListDoes DEF Becomes, L
  <2>4. CASE StreamEnds(live)
    BY <1>1, <2>4, StreamEndsDoes DEF Becomes, L
  <2> QED
    BY <2>1, <2>2, <2>3, <2>4
<1> QED
  BY <1>1, <1>2, <1>3, TellsAsBefore, ChangesDiffer DEF TellsTrue

\* dropMissing: every card it takes down it has to announce.
LEMMA DropMissingTells ==
  ASSUME HandsTypes, Stages, live \in Consumers, NEW h, DropMissing(live)
  PROVE  Tells(h)
<1>1. /\ cards' = cards \intersect L.now /\ live' = live /\ L.out = NoChange /\ L.pc = "diff"
  BY DEF DropMissing, At, L
<1>2. L'.out = NoChange /\ L'.gone = cards \ L.now /\ L.gone = {}
  BY <1>1, Silent, DropMissingDoes DEF Becomes, L
<1> QED
  BY <1>1, <1>2, ChangesDiffer DEF Tells, TellsTrue, Untold

\* resync announces cards that are already down.
LEMMA AnnounceTells ==
  ASSUME HandsTypes, Stages, live \in Consumers, NEW h, Announce(live)
  PROVE  Tells(h)
<1>1. UNCHANGED <<cards, live>> /\ L.out = NoChange
  BY DEF Announce, At, bridge, L
<1>2. \/ L.gone = {} /\ L'.gone = {} /\ L'.out = NoChange
      \/ \E g \in L.gone : L'.gone = L.gone \ {g} /\ L'.out = Cleared(g)
  BY <1>1, AnnounceDoes DEF Becomes, L
<1> QED
  BY <1>1, <1>2, ChangesDiffer DEF Tells, TellsTrue, Untold

\* cardFor: of a card that was there nothing is told, of another that it is.
LEMMA StoreTells ==
  ASSUME NEW h, NEW g, L.out = NoChange, L.gone = {}, L'.gone = {},
         cards' = cards \union {g}, L'.out = Told(g)
  PROVE  Tells(h)
<1>1. CASE g \in cards
  <2>1. UNCHANGED cards /\ L'.out = NoChange
    BY <1>1 DEF Told
  <2> QED
    BY <2>1, TellsAsBefore
<1>2. CASE g \notin cards
  <2>1. L'.out = Raised(g)
    BY <1>2 DEF Told
  <2> QED
    BY <1>2, <2>1, ChangesDiffer DEF Tells, TellsTrue, Untold
<1> QED
  BY <1>1, <1>2

\* resync tells of the cards it stores, and of no other.
LEMMA AddTells ==
  ASSUME HandsTypes, Stages, live \in Consumers, NEW h, Add(live)
  PROVE  Tells(h)
<1>1. live' = live /\ L.out = NoChange /\ L.gone = {}
  BY Silent DEF Add, At, L
<1>2. \/ UNCHANGED cards /\ L'.gone = {} /\ L'.out = NoChange
      \/ \E g \in L.now : cards' = cards \union {g} /\ L'.gone = {} /\ L'.out = Told(g)
  BY <1>1, AddDoes DEF Becomes, L
<1>3. CASE UNCHANGED cards /\ L'.gone = {} /\ L'.out = NoChange
  BY <1>1, <1>3, TellsAsBefore
<1>4. CASE \E g \in L.now : cards' = cards \union {g} /\ L'.gone = {} /\ L'.out = Told(g)
  BY <1>1, <1>4, StoreTells
<1> QED
  BY <1>2, <1>3, <1>4

\* onPending: a card taken down is told to be gone.
LEMMA OnPendingTells ==
  ASSUME HandsTypes, Stages, live \in Consumers, NEW h, OnPending(live)
  PROVE  Tells(h)
<1>1. live' = live /\ L.out = NoChange /\ L.gone = {}
  BY Silent DEF OnPending, At, L
<1>2. \E g : /\ L'.gone = {}
             /\ \/ cards' = cards \union {g} /\ L'.out = Told(g)
                \/ cards' = cards \ {g} /\ L'.out = Cleared(g)
  BY <1>1, OnPendingDoes DEF Becomes, L
<1>3. PICK g : /\ L'.gone = {}
               /\ \/ cards' = cards \union {g} /\ L'.out = Told(g)
                  \/ cards' = cards \ {g} /\ L'.out = Cleared(g)
  BY <1>2
<1>4. CASE cards' = cards \union {g} /\ L'.out = Told(g)
  BY <1>1, <1>3, <1>4, StoreTells
<1>5. CASE cards' = cards \ {g} /\ L'.out = Cleared(g)
  BY <1>1, <1>3, <1>5, ChangesDiffer DEF Tells, TellsTrue, Untold
<1> QED
  BY <1>3, <1>4, <1>5

\* The guest's end of a stream is not where the frame to come is kept.
LEMMA RestartTells ==
  ASSUME HandsTypes, Stages, live \in Consumers, NEW h, GuestRestart
  PROVE  Tells(h)
<1>1. UNCHANGED <<cards, live>>
  BY DEF GuestRestart, bridge
<1>2. L'.out = L.out /\ L'.gone = L.gone
  <2>1. CASE L.pc \in {"list", "open"}
    BY <1>1, <2>1, Silent, GuestRestartDoes DEF L
  <2>2. CASE L.pc \notin {"list", "open"}
    BY <1>1, <2>2, GuestRestartDoes DEF L
  <2> QED
    BY <2>1, <2>2
<1> QED
  BY <1>1, <1>2, TellsAsBefore

\* What the live consumer's step, that emits nothing, does to a hand's telling.
LEMMA LiveTells ==
  ASSUME HandsTypes, Stages, live \in Consumers, NEW h, Consume(live), ~ Emit(live)
  PROVE  Tells(h)
<1>1. CASE Stops(live)
  BY <1>1 DEF Stops
<1> QED
  BY <1>1, QuietTells, DropMissingTells, AnnounceTells, AddTells, OnPendingTells DEF Consume

\* Every step keeps what the consumer has to tell true.
LEMMA TellsStep ==
  HandsTypes /\ Stages /\ TellsLive /\ 0 \notin Consumers /\ [Next]_vars => TellsLive'
<1> SUFFICES ASSUME HandsTypes, Stages, TellsLive, 0 \notin Consumers, [Next]_vars, live' # 0,
                    NEW h \in Hands \ lost'
             PROVE  TellsTrue(h)'
  BY DEF TellsLive
<1>1. ASSUME NEW c \in Consumers, Consume(c)
      PROVE  TellsTrue(h)'
  <2>1. live' = live /\ live # 0 /\ live \in Consumers
    BY <1>1, ConsumeFrame DEF HandsTypes
  <2>2. CASE c # live
    <3>1. h \notin lost /\ (h \in cards' <=> h \in cards)
      BY <1>1, <2>2, OldTouch
    <3>2. L' = L
      BY <1>1, <2>1, <2>2, ConsumeFrame DEF L
    <3> QED
      BY <2>1, <3>1, <3>2 DEF TellsLive, TellsTrue
  <2>3. CASE c = live
    <3>1. CASE Poll(c)
      BY <2>1, <2>3, <3>1, QuietTells
    <3>2. CASE Emit(c)
      <4>1. UNCHANGED <<cards, lost>> /\ L'.out = NoChange /\ L'.gone = L.gone
        BY <2>1, <2>3, <3>2, EmitDoes DEF Emit, bridge, Becomes, L
      <4> QED
        BY <2>1, <4>1, ChangesDiffer DEF TellsLive, TellsTrue
    <3>3. CASE ~ Poll(c) /\ ~ Emit(c)
      <4>1. UNCHANGED lost \/ \E hs : Touched(c, hs)
        BY <1>1, <3>3 DEF Consume, Stops, DropMissing, Announce, Add, Connect, List, OnPending,
           StreamEnds
      <4>2. h \notin lost
        BY <2>3, <4>1 DEF Touched
      <4>3. Tells(h)
        BY <1>1, <2>1, <2>3, <3>3, LiveTells
      <4> QED
        BY <2>1, <4>2, <4>3 DEF TellsLive, Tells
    <3> QED
      BY <3>1, <3>2, <3>3
  <2> QED
    BY <2>2, <2>3
<1>2. ASSUME NEW n \in duty, Publish(n)
      PROVE  TellsTrue(h)'
  <2>1. UNCHANGED <<live, cards>> /\ live \in Consumers /\ live # 0 /\ h \notin lost
    BY <1>2 DEF Publish, bridge, HandsTypes
  <2>2. L'.out = L.out /\ L'.gone = L.gone
    BY <1>2, <2>1, PublishDoes DEF L
  <2> QED
    BY <2>1, <2>2 DEF TellsLive, TellsTrue
<1>3. CASE GuestRestart
  <2>1. live' = live /\ live \in Consumers /\ live # 0
    BY <1>3 DEF GuestRestart, bridge, HandsTypes
  <2>2. Tells(h)
    BY <1>3, <2>1, RestartTells
  <2>3. h \notin lost
    BY <1>3 DEF GuestRestart
  <2> QED
    BY <2>1, <2>2, <2>3 DEF TellsLive, Tells
<1>4. CASE Load \/ Reconnect
  <2>1. PICK screen \in SUBSET Hands : CanVisit /\ Subscribe(screen)
    BY <1>4 DEF Load, Reconnect, HandsTypes
  <2>2. CASE live = 0
    <3>1. L'.out = NoChange /\ L'.gone = {}
      BY <2>1, <2>2, SubscribeDoes DEF Becomes, L
    <3> QED
      BY <3>1, ChangesDiffer DEF TellsTrue
  <2>3. CASE live # 0
    <3>1. UNCHANGED <<cards, lost, live, con>>
      BY <2>1, <2>3, SubscribeDoes
    <3> QED
      BY <2>3, <3>1 DEF TellsLive, TellsTrue, L
  <2> QED
    BY <2>2, <2>3
<1>5. CASE UNCHANGED <<cards, lost, live, con>>
  BY <1>5 DEF TellsLive, TellsTrue, L
<1>6. CASE StopIfEmpty
  BY <1>6 DEF StopIfEmpty
<1> QED
  BY <1>1, <1>2, <1>3, <1>4, <1>5, <1>6
     DEF Next, Raise, Clear, History, NoHistory, Render, Leave, vars, bridge

\* With no old consumer about, only the live one acts, and none becomes old while
\* the bridge runs.
LEMMA OnlyLiveActs ==
  ASSUME HandsTypes, Old = {}, NEW c \in Consumers, Consume(c)
  PROVE  c = live
<1>1. con[c] \notin {Unborn, Ended}
  <2>1. con[c].pc \notin {"none", "ended"} \/ con[c].out # NoChange
    BY DEF Consume, Poll, Stops, DropMissing, Announce, Add, Connect, List, OnPending, Emit,
       StreamEnds, At
  <2> QED
    BY <2>1, ConsumerStates
<1> QED
  BY <1>1 DEF Old

\* A consumer becomes old only when its bridge stops (stopIfEmpty).
LEMMA NoneGrowsOld ==
  ASSUME HandsTypes, Old = {}, [Next]_vars, live' # 0
  PROVE  Old' = {}
<1> SUFFICES ASSUME NEW c \in Consumers, c # live' PROVE con'[c] \in {Unborn, Ended}
  BY DEF Old
<1>1. c # live => con[c] \in {Unborn, Ended} /\ con[c].pc \notin {"list", "open"}
  BY ConsumerStates DEF Old
<1>2. ASSUME NEW d \in Consumers, Consume(d)
      PROVE  con'[c] \in {Unborn, Ended}
  <2>1. d = live /\ live' = live
    BY <1>2, OnlyLiveActs, ConsumeFrame
  <2> QED
    BY <1>1, <1>2, <2>1, ConsumeFrame
<1>3. ASSUME NEW n \in duty, Publish(n)
      PROVE  con'[c] \in {Unborn, Ended}
  <2>1. live' = live /\ ~ Listening(c) /\ con'[c] = con[c]
    BY <1>1, <1>3 DEF Publish, bridge, Listening
  <2> QED
    BY <1>1, <2>1
<1>4. CASE GuestRestart
  <2>1. live' = live
    BY <1>4 DEF GuestRestart, bridge
  <2> QED
    BY <1>1, <1>4, <2>1, GuestRestartDoes
<1>5. CASE Load \/ Reconnect
  <2>1. PICK screen \in SUBSET Hands : CanVisit /\ Subscribe(screen)
    BY <1>5 DEF Load, Reconnect, HandsTypes
  <2>2. c # live
    BY <2>1, SubscribeDoes, HandsAssumption
  <2>3. con'[c] = con[c]
    BY <2>1, SubscribeDoes DEF Becomes
  <2> QED
    BY <1>1, <2>2, <2>3
<1>6. CASE UNCHANGED <<live, con>>
  BY <1>1, <1>6
<1> QED
  BY <1>2, <1>3, <1>4, <1>5, <1>6
     DEF Next, Raise, Clear, History, NoHistory, Render, Leave, StopIfEmpty, vars, bridge

\* A page that reads keeps what its frames say while the page, the card and the
\* telling stay.
LEMMA FramesKept ==
  ASSUME NEW h, FramesTrue(h), UNCHANGED page,
         Untold(h)' => Untold(h) /\ (h \in cards' <=> h \in cards)
  PROVE  FramesTrue(h)'
BY DEF FramesTrue, LastFrame

\* emit: the frame at the end says what is so of its hand.
LEMMA EmitFrames ==
  ASSUME HandsTypes, live \in Consumers, Emit(live), page.pc # "away", ~ page'.blind, ~ page.blind,
         NEW h \in Hands, TellsTrue(h), FramesTrue(h)
  PROVE  FramesTrue(h)'
<1>1. live' = live /\ UNCHANGED cards /\ L.out \in Changes /\ L'.out = NoChange /\ L'.gone = L.gone
  BY EmitDoes DEF Emit, bridge, Becomes, L
<1> DEFINE n == L.out
<1> DEFINE q == page'.frames
<1> DEFINE s == page.frames
<1>2. s \in Seq(Changes) /\ page \in [pc : {"away", "history", "live"}, frames : Seq(Changes),
                                      screen : SUBSET Hands, blind : BOOLEAN]
  BY DEF HandsTypes
<1>3. q = Append(s, n) /\ page'.pc = page.pc /\ page'.screen = page.screen
  <2>1. page' = [page EXCEPT !.frames = Append(@, L.out)] \/ page' = [page EXCEPT !.blind = TRUE]
    BY DEF Emit, L
  <2>2. page' # [page EXCEPT !.blind = TRUE]
    BY <1>2
  <2> QED
    BY <1>2, <2>1, <2>2
<1>4. /\ Len(q) = Len(s) + 1 /\ Len(s) \in Nat
      /\ \A i \in 1..Len(s) : q[i] = s[i]
      /\ q[Len(s) + 1] = n
  BY <1>1, <1>2, <1>3, Appended
<1>5. n = Raised(n.hand) \/ n = Cleared(n.hand)
  BY <1>1 DEF Changes, Raised, Cleared
<1>6. CASE n.hand = h
  <2>1. n.kind = "raised" <=> h \in cards
    BY <1>5, <1>6 DEF TellsTrue, Raised, Cleared
  <2>2. ASSUME NEW i \in 1..Len(q), LastFrame(i, h)'
        PROVE  q[i] = n
    <3>1. ASSUME i # Len(s) + 1
          PROVE  FALSE
      <4>1. Len(s) + 1 \in (i + 1)..Len(q)
        BY <1>4, <3>1
      <4> QED
        BY <1>4, <1>6, <2>2, <4>1 DEF LastFrame
    <3> QED
      BY <1>4, <3>1
  <2>3. ~ \A i \in 1..Len(q) : q[i].hand # h
    BY <1>4, <1>6
  <2> QED
    BY <1>1, <2>1, <2>2, <2>3 DEF FramesTrue
<1>7. CASE n.hand # h
  <2>1. Untold(h)' => Untold(h)
    BY <1>1, <1>7 DEF Untold, Raised, Cleared
  <2>2. ASSUME NEW i \in 1..Len(q), LastFrame(i, h)'
        PROVE  i \in 1..Len(s) /\ LastFrame(i, h) /\ q[i] = s[i]
    <3>1. i \in 1..Len(s) /\ q[i] = s[i]
      BY <1>4, <1>7, <2>2 DEF LastFrame
    <3>2. ASSUME NEW k \in (i + 1)..Len(s)
          PROVE  s[k].hand # h
      <4>1. k \in (i + 1)..Len(q) /\ q[k] = s[k]
        BY <1>4, <3>1
      <4> QED
        BY <2>2, <4>1 DEF LastFrame
    <3> QED
      BY <2>2, <3>1, <3>2 DEF LastFrame
  <2>3. (\A i \in 1..Len(q) : q[i].hand # h) => \A i \in 1..Len(s) : s[i].hand # h
    BY <1>4
  <2> HIDE DEF n
  <2> QED
    BY <1>1, <1>3, <2>1, <2>2, <2>3 DEF FramesTrue
<1> QED
  BY <1>6, <1>7

\* Reading a frame brings the screen to what it says.
LEMMA RenderFrames ==
  ASSUME HandsTypes, Render, NEW h \in Hands, FramesTrue(h)
  PROVE  FramesTrue(h)'
<1> DEFINE s == page.frames
<1> DEFINE q == page'.frames
<1>1. s \in Seq(Changes) /\ page \in [pc : {"away", "history", "live"}, frames : Seq(Changes),
                                      screen : SUBSET Hands, blind : BOOLEAN]
  BY DEF HandsTypes
<1>2. /\ s # <<>> /\ page.pc = "live" /\ q = Tail(s) /\ page'.pc = page.pc
      /\ page'.screen = Shown(Head(s), page.screen)
  BY <1>1 DEF Render
<1>3. /\ Head(s) = s[1] /\ s[1] \in Changes /\ Len(s) \in Nat \ {0} /\ Len(q) = Len(s) - 1
      /\ \A i \in 1..Len(q) : q[i] = s[i + 1]
  BY <1>1, <1>2, Headed
<1>4. UNCHANGED cards /\ (Untold(h)' <=> Untold(h))
  BY DEF Render, bridge, Untold, L
<1> HIDE DEF s, q
<1>5. ASSUME NEW i \in 1..Len(q), LastFrame(i, h)'
      PROVE  i + 1 \in 1..Len(s) /\ LastFrame(i + 1, h) /\ q[i] = s[i + 1]
  <2>1. i + 1 \in 1..Len(s) /\ q[i] = s[i + 1] /\ q[i].hand = h
    BY <1>3, <1>5 DEF LastFrame, q
  <2>2. ASSUME NEW k \in (i + 1 + 1)..Len(s)
        PROVE  s[k].hand # h
    <3>1. k - 1 \in (i + 1)..Len(q) /\ q[k - 1] = s[k]
      BY <1>3, <2>1
    <3> QED
      BY <1>5, <3>1 DEF LastFrame, q
  <2> QED
    BY <2>1, <2>2 DEF LastFrame, s
<1>6. ASSUME \A i \in 1..Len(q) : q[i].hand # h, Untold(h)
      PROVE  h \in page'.screen <=> h \in cards
  <2>1. \A k \in 2..Len(s) : s[k].hand # h
    <3>1. ASSUME NEW k \in 2..Len(s)
          PROVE  s[k].hand # h
      <4>1. k - 1 \in 1..Len(q) /\ q[k - 1] = s[k]
        BY <1>3
      <4> QED
        BY <1>6, <4>1
    <3> QED
      BY <3>1
  <2>2. CASE s[1].hand = h
    <3>1. LastFrame(1, h) /\ 1 \in 1..Len(s)
      BY <1>3, <2>1, <2>2 DEF LastFrame, s
    <3>2. s[1].kind = "raised" <=> h \in cards
      BY <1>6, <3>1 DEF FramesTrue, s
    <3> QED
      BY <1>2, <1>3, <2>2, <3>2 DEF Shown
  <2>3. CASE s[1].hand # h
    <3>1. \A i \in 1..Len(s) : s[i].hand # h
      BY <1>3, <2>1, <2>3
    <3>2. h \in page.screen <=> h \in cards
      BY <1>2, <1>6, <3>1 DEF FramesTrue, s
    <3> QED
      BY <1>2, <1>3, <2>3, <3>2 DEF Shown
  <2> QED
    BY <2>2, <2>3
<1> QED
  BY <1>4, <1>5, <1>6 DEF FramesTrue, s, q

\* Subscribe: a page that begins has read nothing and shows nothing, and the bridge
\* has nothing untrue to tell it.
LEMMA SubscribeReads ==
  ASSUME HandsTypes, TellsLive, NEW screen \in SUBSET Hands, CanVisit, Subscribe(screen), Reading',
         NEW h \in Hands
  PROVE  /\ page'.pc = "history" /\ page'.screen = {} /\ Old = {} /\ live' # 0
         /\ TellsTrue(h)' /\ FramesTrue(h)'
<1> DEFINE b == screen # {} \/ Old # {} \/ lost # {}
<1>1. page' = [pc |-> "history", frames |-> <<>>, screen |-> screen, blind |-> b]
  BY SubscribeDoes
<1>2. page'.pc = "history" /\ page'.frames = <<>> /\ page'.screen = screen /\ (page'.blind = b)
  BY <1>1
<1>3. ~ b
  BY <1>2 DEF Reading
<1>4. screen = {} /\ Old = {} /\ lost = {}
  BY <1>3
<1>5. live' # 0 /\ TellsTrue(h)'
  <2>1. CASE live # 0
    <3>1. UNCHANGED <<cards, live, con>>
      BY <2>1, SubscribeDoes
    <3> QED
      BY <1>4, <2>1, <3>1 DEF TellsLive, TellsTrue, L
  <2>2. CASE live = 0
    <3>1. live' \in Consumers /\ L'.out = NoChange /\ L'.gone = {}
      BY <2>2, SubscribeDoes DEF Becomes, L
    <3> QED
      BY <3>1, ChangesDiffer, HandsAssumption DEF TellsTrue
  <2> QED
    BY <2>1, <2>2
<1>6. FramesTrue(h)'
  <2>1. Len(page'.frames) = 0
    BY <1>2
  <2> QED
    BY <1>2, <2>1 DEF FramesTrue
<1> QED
  BY <1>2, <1>4, <1>5, <1>6

\* A page that reads stays one that reads what is so.
LEMMA PageKept ==
  ASSUME HandsTypes, Stages, TellsLive, PageInv, [Next]_vars
  PROVE  PageInv'
<1> SUFFICES ASSUME Reading'
             PROVE  /\ live' # 0 /\ Old' = {}
                    /\ page'.pc = "history" => page'.screen = {}
                    /\ \A h \in Hands : TellsTrue(h)' /\ FramesTrue(h)'
  BY DEF PageInv
<1> DEFINE Goal == /\ live' # 0 /\ Old' = {}
                   /\ page'.pc = "history" => page'.screen = {}
                   /\ \A h \in Hands : TellsTrue(h)' /\ FramesTrue(h)'
<1>1. ASSUME Reading
      PROVE  /\ live # 0 /\ live \in Consumers /\ Old = {}
             /\ page.pc = "history" => page.screen = {}
             /\ \A h \in Hands : TellsTrue(h) /\ FramesTrue(h)
  BY <1>1 DEF PageInv, HandsTypes
<1>2. ASSUME Old = {}, live' # 0
      PROVE  Old' = {}
  BY <1>2, NoneGrowsOld
<1>3. ASSUME Reading, UNCHANGED <<page, live>>, \A h \in Hands : Tells(h)
      PROVE  Goal
  BY <1>1, <1>2, <1>3, FramesKept DEF Tells
<1>4. ASSUME NEW c \in Consumers, Emit(c)
      PROVE  Goal
  <2>1. /\ live' = live /\ UNCHANGED cards
        /\ page.pc # "away" /\ ~ page.blind /\ ~ page'.blind
        /\ page'.pc = page.pc /\ page'.screen = page.screen
    BY <1>4 DEF Emit, bridge, Reading, HandsTypes
  <2>2. Reading
    BY <2>1 DEF Reading
  <2>3. c = live
    BY <1>1, <1>4, <2>2, OnlyLiveActs DEF Consume
  <2>4. \A h \in Hands : FramesTrue(h)'
    BY <1>1, <1>4, <2>1, <2>2, <2>3, EmitFrames
  <2>5. \A h \in Hands : TellsTrue(h)'
    <3>1. L'.out = NoChange /\ L'.gone = L.gone
      BY <1>1, <1>4, <2>1, <2>2, <2>3, EmitDoes DEF Becomes, L
    <3> QED
      BY <1>1, <2>1, <2>2, <3>1, ChangesDiffer DEF TellsTrue
  <2> QED
    BY <1>1, <1>2, <2>1, <2>2, <2>4, <2>5
<1>5. ASSUME NEW c \in Consumers, Consume(c), ~ Emit(c)
      PROVE  Goal
  <2>1. UNCHANGED page
    BY <1>5 DEF Consume, Poll, Stops, DropMissing, Announce, Add, Connect, List, OnPending,
       StreamEnds
  <2>2. Reading /\ UNCHANGED live
    BY <1>5, <2>1, ConsumeFrame DEF Reading
  <2>3. c = live
    BY <1>1, <1>5, <2>2, OnlyLiveActs
  <2>4. \A h \in Hands : Tells(h)
    BY <1>1, <1>5, <2>2, <2>3, LiveTells
  <2> QED
    BY <1>3, <2>1, <2>2, <2>4
<1>6. ASSUME NEW n \in duty, Publish(n)
      PROVE  Goal
  <2>1. UNCHANGED <<page, live, cards>>
    BY <1>6 DEF Publish, bridge
  <2>2. Reading
    BY <2>1 DEF Reading
  <2>3. L'.out = L.out /\ L'.gone = L.gone
    BY <1>1, <1>6, <2>1, <2>2, PublishDoes DEF L
  <2> QED
    BY <1>3, <2>1, <2>2, <2>3, TellsAsBefore
<1>7. CASE GuestRestart
  <2>1. UNCHANGED <<page, live>>
    BY <1>7 DEF GuestRestart, bridge
  <2>2. Reading
    BY <2>1 DEF Reading
  <2> QED
    BY <1>1, <1>3, <1>7, <2>1, <2>2, RestartTells
<1>8. CASE Load \/ Reconnect
  <2>1. PICK screen \in SUBSET Hands : CanVisit /\ Subscribe(screen)
    BY <1>8 DEF Load, Reconnect, HandsTypes
  <2>2. page' = [pc |-> "history", frames |-> <<>>, screen |-> screen,
                 blind |-> screen # {} \/ Old # {} \/ lost # {}]
    BY <2>1, SubscribeDoes
  <2>3. ASSUME NEW h \in Hands
        PROVE  page'.screen = {} /\ Old = {} /\ live' # 0 /\ TellsTrue(h)' /\ FramesTrue(h)'
    BY <2>1, SubscribeReads
  <2>4. CASE Hands # {}
    BY <1>2, <2>3, <2>4
  <2>5. CASE Hands = {}
    <3> DEFINE b == screen # {} \/ Old # {} \/ lost # {}
    <3>1. page'.screen = screen /\ page'.blind = b
      BY <2>2
    <3>2. ~ b
      BY <3>1 DEF Reading
    <3>3. live' # 0
      BY <2>1, SubscribeDoes, HandsAssumption
    <3> QED
      BY <1>2, <2>5, <3>1, <3>2, <3>3
  <2> QED
    BY <2>4, <2>5
<1>9. CASE History
  <2>1. /\ page.pc = "history" /\ page'.pc = "live" /\ page'.screen = page.screen \union cards
        /\ page'.frames = page.frames /\ page'.blind = page.blind
        /\ UNCHANGED <<con, cards, live>>
    BY <1>9 DEF History, bridge, HandsTypes
  <2>2. Reading
    BY <2>1 DEF Reading
  <2>3. ASSUME NEW h \in Hands
        PROVE  TellsTrue(h)' /\ FramesTrue(h)'
    <3>1. TellsTrue(h) /\ FramesTrue(h) /\ page'.screen = cards
      BY <1>1, <2>1, <2>2
    <3>2. L' = L
      BY <2>1 DEF L
    <3>3. TellsTrue(h)'
      BY <2>1, <3>1, <3>2 DEF TellsTrue
    <3>4. FramesTrue(h)'
      BY <2>1, <3>1, <3>2 DEF FramesTrue, LastFrame, Untold
    <3> QED
      BY <3>3, <3>4
  <2> QED
    BY <1>1, <1>2, <2>1, <2>2, <2>3
<1>10. CASE Render
  <2>1. /\ page.pc = "live" /\ page'.pc = "live" /\ page'.blind = page.blind
        /\ UNCHANGED <<con, cards, live>>
    BY <1>10 DEF Render, bridge, HandsTypes
  <2>2. Reading
    BY <2>1 DEF Reading
  <2>3. ASSUME NEW h \in Hands
        PROVE  TellsTrue(h)' /\ FramesTrue(h)'
    BY <1>1, <1>10, <2>1, <2>2, RenderFrames DEF TellsTrue, L
  <2> QED
    BY <1>1, <1>2, <2>1, <2>2, <2>3
<1>11. CASE NoHistory \/ Leave
  BY <1>11 DEF NoHistory, Leave, Away, Reading, HandsTypes
<1>12. CASE StopIfEmpty
  BY <1>12 DEF StopIfEmpty, Reading
<1>13. CASE UNCHANGED <<page, live, con, cards>>
  <2>1. Reading /\ L' = L
    BY <1>13 DEF Reading, L
  <2> QED
    BY <1>3, <1>13, <2>1, TellsAsBefore
<1> QED
  BY <1>4, <1>5, <1>6, <1>7, <1>8, <1>9, <1>10, <1>11, <1>12, <1>13
     DEF Next, Consume, Raise, Clear, vars, bridge

\* The page is away at first.
LEMMA PageInit == Init => TellsLive /\ PageInv
<1> SUFFICES ASSUME Init PROVE TellsLive /\ PageInv
  OBVIOUS
<1>1. L.out = NoChange /\ L.gone = {}
  BY HandsAssumption, ConsumerStates DEF Init, L
<1>2. ~ Reading
  BY DEF Init, Away, Reading
<1> QED
  BY <1>1, <1>2, ChangesDiffer DEF TellsLive, TellsTrue, PageInv

\* With every frame read and nothing left to tell, the page shows the cards.
LEMMA ReadAgrees == HandsTypes /\ PageInv => PageAgrees
<1> SUFFICES ASSUME HandsTypes, PageInv, page.pc = "live", page.frames = <<>>, ~ page.blind,
                    \A c \in Consumers : con[c].out = NoChange /\ con[c].gone = {}
             PROVE  page.screen = cards
  BY DEF PageAgrees
<1>1. Reading /\ live \in Consumers
  BY DEF Reading, PageInv, HandsTypes
<1>2. ASSUME NEW h \in Hands
      PROVE  h \in page.screen <=> h \in cards
  <2>1. FramesTrue(h)
    BY <1>1 DEF PageInv
  <2>2. Untold(h)
    BY <1>1, ChangesDiffer DEF Untold, L
  <2>3. Len(page.frames) = 0
    OBVIOUS
  <2> QED
    BY <2>1, <2>2, <2>3 DEF FramesTrue
<1>3. page.screen \subseteq Hands /\ cards \subseteq Hands
  BY DEF HandsTypes
<1> QED
  BY <1>2, <1>3

\* For a channel of any size and any number of hands: a page that was loaded and
\* missed no frame shows the bridge's cards once it has read its frames (Subscribe,
\* pump, withPending, renderPending, renderResolved, emit).
THEOREM PageIsRight == Spec => []PageAgrees
<1> DEFINE I == HandsTypes /\ Stages /\ TellsLive /\ PageInv
<1>1. Init => I
  BY TypesInit, PageInit
<1>2. I /\ [Next]_vars => I'
  <2>1. 0 \notin Consumers
    BY HandsAssumption
  <2> QED
    BY <2>1, TypesStep, TellsStep, PageKept
<1>3. I => PageAgrees
  BY ReadAgrees
<1> HIDE DEF I
<1> QED
  BY <1>1, <1>2, <1>3, PTL DEF Spec

=============================================================================
