------------------------------- MODULE Spend -------------------------------
(* What the host says a machine has spent: the guest's report, priced by   *)
(* the host's table, remembered for a machine that is not running to be    *)
(* asked, and forgotten when the machine is deleted.                       *)
(*                                                                         *)
(* A model id and a prefix are sequences of tokens, the separators among   *)
(* them.  Every call is of one token, whose price is a small number; an    *)
(* endpoint that prices its calls itself charges Charged for one.  There   *)
(* is one machine; its overlay, and what it counted there, outlives a      *)
(* delete that does not purge.                                             *)
EXTENDS Naturals, Sequences, FiniteSetsExt, SequencesExt, Functions

CONSTANTS Pollers,     \* dashboard requests and metric scrapes
          Ids,         \* model ids, as responses carry them
          priceTable,  \* priceTable: a rate for a prefix
          Charged,
          Slash, Dot, Dash,  \* the tokens that separate
          MaxCalls,    \* bound: calls of a life
          MaxDeletes,  \* bound: deletes
          MaxPolls     \* bound: polls

ASSUME SpendAssumption ==
  /\ Charged \in Nat \ {0} /\ MaxDeletes \in Nat
  /\ IsFiniteSet(Ids) /\ IsFiniteSet(DOMAIN priceTable) /\ <<>> \notin DOMAIN priceTable
  /\ \A s \in Ids \union DOMAIN priceTable : s \in Seq(Range(s))
  /\ \A prefix \in DOMAIN priceTable : priceTable[prefix] \in Nat

VARIABLES machine,  \* gone, running, or not running
          life,     \* history: the overlay's number
          report,   \* the guest's rows: tokens and charges by model
          bills,    \* history: what the calls on each overlay cost one by one
          byID,     \* the accumulator's totals
          late,     \* history: a poll has kept the totals of an overlay that was gone
          poll,     \* each request
          owed,     \* deletes whose Forget is to come
          deletes, polls

guest == <<machine, life, report, bills>>
totals == <<byID, late>>
spendVars == <<guest, totals, poll, owed, deletes, polls>>

Lives == 1 .. MaxDeletes + 1
billed == bills[life]

NoReport == [id \in Ids |-> [tokens |-> 0, charged |-> 0]]
Nothing == [cost |-> 0, of |-> 0]         \* Totals{}
Waiting == [pc |-> "idle", shown |-> Nothing, rows |-> NoReport, billed |-> 0, of |-> 0,
            prices |-> [id \in Ids |-> <<>>]]

\* An id in the table's dialect: no provider, no dots.
Normal(id) ==
  LET slash == {k \in 1 .. Len(id) : id[k] = Slash}
      bare == IF slash = {} THEN id ELSE SubSeq(id, Min(slash) + 1, Len(id))
  IN  [k \in 1 .. Len(bare) |-> IF bare[k] = Dot THEN Dash ELSE bare[k]]

\* The first prefix the loop meets.
rateFor_First(id, order) ==
  FoldLeft(LAMBDA best, prefix : IF best = <<>> /\ IsPrefix(prefix, Normal(id))
                                 THEN prefix ELSE best,
           <<>>, order)

\* rateFor: the loop over the table, in whatever order the map has.
rateFor(id, order) ==
  FoldLeft(LAMBDA best, prefix : IF IsPrefix(prefix, Normal(id)) /\ Len(prefix) > Len(best)
                                 THEN prefix ELSE best,
           <<>>, order)

Orders == SetToSeqs(DOMAIN priceTable)
Rate(prefix) == IF prefix = <<>> THEN 0 ELSE priceTable[prefix]

\* costOf: the endpoint's own figure before the table's.
costOf(row, prefix) == IF row.charged > 0 THEN row.charged ELSE row.tokens * Rate(prefix)
Price(rows, prices) == MapThenSumSet(LAMBDA id : costOf(rows[id], prices[id]), Ids)

SpendInit == /\ machine = "running" /\ life = 1
             /\ report = NoReport /\ bills = [l \in Lives |-> 0]
             /\ byID = Nothing /\ late = FALSE
             /\ poll = [p \in Pollers |-> Waiting]
             /\ owed = 0 /\ deletes = 0 /\ polls = 0

\* What a model costs: the price of the closest name the table has for it.
Fitting(id) == {prefix \in DOMAIN priceTable : IsPrefix(prefix, Normal(id))}
ListPrice(id) == IF Fitting(id) = {} THEN 0
                 ELSE priceTable[CHOOSE p \in Fitting(id) : \A q \in Fitting(id) : IsPrefix(q, p)]

\* A response, through an endpoint that prices it or one that does not.
Call(id) ==
  /\ machine = "running" /\ MapThenSumSet(LAMBDA i : report[i].tokens, Ids) < MaxCalls
  /\ \E charge \in {0, Charged} :
       /\ report' = [report EXCEPT ![id] = [tokens |-> @.tokens + 1, charged |-> @.charged + charge]]
       /\ bills' = [bills EXCEPT ![life] = @ + (IF charge > 0 THEN charge ELSE ListPrice(id))]
  /\ UNCHANGED <<machine, life, totals, poll, owed, deletes, polls>>

Answer(p, shown) == poll' = [poll EXCEPT ![p] = [Waiting EXCEPT !.shown = shown]]

\* collect and handleVMStats: only a running machine is asked.
probeGuest(p) ==
  /\ poll[p].pc = "idle" /\ polls < MaxPolls /\ machine # "gone"
  /\ polls' = polls + 1
  /\ IF machine = "running" THEN poll' = [poll EXCEPT ![p] = [Waiting EXCEPT !.pc = "asked"]]
     ELSE Answer(p, byID)
  /\ UNCHANGED <<guest, totals, owed, deletes>>

\* The guest's answer, and the rates that are looked up for it.
Usage(p) ==
  /\ poll[p].pc = "asked" /\ machine = "running"
  /\ \E order \in Orders :
       poll' = [poll EXCEPT ![p] = [Waiting EXCEPT !.pc = "price", !.rows = report, !.billed = billed,
                  !.of = life, !.prices = [id \in Ids |-> rateFor(id, order)]]]
  /\ UNCHANGED <<guest, totals, owed, deletes, polls>>

\* The guest does not answer in time: the last known totals.
UsageFails(p) == /\ poll[p].pc = "asked"
                 /\ Answer(p, byID)
                 /\ UNCHANGED <<guest, totals, owed, deletes, polls>>

\* Update keeps the totals.
Update(p) == /\ poll[p].pc = "price"
             /\ byID' = [cost |-> Price(poll[p].rows, poll[p].prices), of |-> poll[p].of]
             /\ late' = (poll[p].of # life)
             /\ Answer(p, byID')
             /\ UNCHANGED <<guest, owed, deletes, polls>>

handleDelete_Remembers ==
  /\ deletes < MaxDeletes /\ deletes' = deletes + 1
  /\ \E purge \in BOOLEAN :
       /\ machine # "gone" \/ purge
       /\ IF purge THEN life' = life + 1 /\ report' = NoReport
          ELSE UNCHANGED <<life, report>>
  /\ machine' = "gone"
  /\ UNCHANGED <<bills, totals, poll, owed, polls>>

\* handleDelete: the machine goes; purged, a stopped one's overlay goes too.
handleDelete ==
  /\ deletes < MaxDeletes /\ deletes' = deletes + 1
  /\ \E purge \in BOOLEAN :
       /\ machine # "gone" \/ purge
       /\ IF purge THEN life' = life + 1 /\ report' = NoReport
          ELSE UNCHANGED <<life, report>>
  /\ machine' = "gone"
  /\ owed' = owed + 1
  /\ UNCHANGED <<bills, totals, poll, polls>>

\* ... and then its totals.
Forget == /\ owed > 0 /\ owed' = owed - 1
          /\ byID' = Nothing /\ late' = FALSE
          /\ UNCHANGED <<guest, poll, deletes, polls>>

\* It is created, paused or resumed.
Turned == /\ machine' \in {"running", "paused"} \ {machine}
          /\ machine = "gone" => machine' = "running"
          /\ UNCHANGED <<life, report, bills, totals, poll, owed, deletes, polls>>

SpendNext == \/ handleDelete \/ Forget \/ Turned
             \/ \E id \in Ids : Call(id)
             \/ \E p \in Pollers : probeGuest(p) \/ Usage(p) \/ UsageFails(p) \/ Update(p)

-----------------------------------------------------------------------------
(* Properties.                                                             *)

OneWay(rows) == \A id \in Ids : rows[id].charged \in {0, rows[id].tokens * Charged}

\* What a report costs is never more than the calls in it cost one by one, and
\* never less when a model's calls were all priced in one way: not for the order
\* the table is walked in, not for a name that begins another, not for a
\* gateway's spelling (rateFor, costOf, Price).
ReportIsPriced ==
  \A p \in Pollers : poll[p].pc = "price" =>
    LET cost == Price(poll[p].rows, poll[p].prices)
    IN  cost =< poll[p].billed /\ (OneWay(poll[p].rows) => cost = poll[p].billed)

\* What is remembered and what is shown are no more than one overlay's own calls
\* cost, whichever it was and however late the poll (Update, Snapshot).
NoMoreThan(total) == total.of # 0 => total.cost =< bills[total.of]
TotalsAreOfOne == NoMoreThan(byID) /\ \A p \in Pollers : NoMoreThan(poll[p].shown)

\* Once the delete that purged an overlay has ended, what it had spent is not
\* remembered for the machine's next, unless a poll that had its report by then
\* put it back (handleDelete, Forget).  That one does is FreshAfterDelete.
OwnUnlessLate == byID.of \in {0, life} \/ owed > 0 \/ late

SpendIsPriced == ReportIsPriced /\ TotalsAreOfOne /\ OwnUnlessLate

\* "The table answers for everything else -- Anthropic direct, and every row
\* written before any endpoint reported a figure" (costOf).  Not so of a row
\* such an endpoint then adds to: the calls before it cost nothing.
EveryCallCosts == \A p \in Pollers : poll[p].pc = "price" =>
                    Price(poll[p].rows, poll[p].prices) = poll[p].billed

\* "Required on delete, so a recreated VM reports its own spend rather than
\* inheriting the last one's" (Forget).  Not so when a poll of the last one
\* ends after it.
FreshAfterDelete == owed = 0 /\ byID # Nothing => byID.of = life
=============================================================================
