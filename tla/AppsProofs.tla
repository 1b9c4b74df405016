----------------------------- MODULE AppsProofs -----------------------------
(***************************************************************************)
(* The connected apps of one person, for any catalogue, any number of      *)
(* requests at once and any number of starts, settings, connections,       *)
(* erasures and restarts: one push at a time, a ticket that works, an      *)
(* answer that is what the settings say, nothing done unasked that the     *)
(* person did not let run, nothing left of an erased account.              *)
(*                                                                         *)
(* The inductive invariants: AppsTypes; ClaimInv (who pushes); TicketInv   *)
(* (what has become of the ticket that was handed out); AnswerInv (and of  *)
(* the answer); EarnedInv (where an answer of "auto" can come from);       *)
(* EraseInv (what an erasure nobody disturbs has already removed).         *)
(***************************************************************************)
EXTENDS AppsHost, TLAPS

Answer == settable \union {"unset"}

\* The answers of one push, by action.
Resolutions == UNION {[A -> settable] : A \in SUBSET Actions}

Pushes == [url : Nat, session : Nat, actions : Resolutions]
Rows == [session : Nat, policy : Policies]

ReqPCs == {"idle", "forget", "create", "claim"} \union Pushing

ReqStruct == [pc : ReqPCs, row : Rows, slugs : SUBSET Apps, push : Pushes, had : Pushes,
              age : {"own", "late", "forgotten"}]
ClaimStruct == [is : {"none", "inflight", "pushed", "failed"}, slugs : SUBSET Apps, due : BOOLEAN]
EraseStruct == [pc : {"idle", "revoke", "row", "forget"}, held : SUBSET Apps,
                refused : BOOLEAN, quiet : BOOLEAN]
CountStruct == [starts : Nat, events : Nat, tickets : Nat, sessions : Nat]

AppsTypes ==
  /\ disk \in Pushes
  /\ url \in Nat
  /\ actions \in Resolutions
  /\ vm \in BOOLEAN
  /\ conns \in [Apps -> {"none", "INITIATED", "ACTIVE"}]
  /\ row \in Rows
  /\ claim \in ClaimStruct
  /\ route \in Nat
  /\ req \in [Requests -> ReqStruct]
  /\ tap \in [pc : {"idle", "save", "stale"}, row : Rows]
  /\ erase \in EraseStruct
  /\ count \in CountStruct
  /\ chosen \subseteq Settings

-----------------------------------------------------------------------------
(* One push at a time.                                                     *)

\* A push whose claim still stands.
Own(r) == Underway(r) /\ req[r].age = "own"

\* The claim says so of the one that pushes: not out of time, not replaced.
ClaimInv ==
  /\ \A r \in Requests : Own(r) => claim.is = "inflight" /\ ~ claim.due
  /\ OnePushAtATime

-----------------------------------------------------------------------------
(* The ticket.                                                             *)

\* The machine was erased, and whoever boots one begins by forgetting the claim.
Gone == ~ vm /\ \A r \in Requests : req[r].pc = "create" => req[r].age # "own"

\* The file and, if there is a machine, its memory hold the ticket that is served.
Landed == /\ disk.url = route /\ route # 0
          /\ vm => url = route

TicketInv ==
  "stray" \notin missed =>
    /\ settled => Landed \/ Gone
    /\ \A r \in Requests : Own(r) =>
         /\ req[r].pc \in {"send", "apply"} => req[r].push.url = route /\ route # 0
         /\ req[r].pc = "apply" => vm /\ disk.url = route
         /\ req[r].pc = "done" => Landed \/ Gone

-----------------------------------------------------------------------------
(* The answer.                                                             *)

\* What an answer says of the actions that change something is what a policy does.
Says(answer, policy) ==
  \A a \in DOMAIN answer :
    kindOf(a) # "read" => answer[a] = actionFor(kindOf(a), policy[AppOf[a]][kindOf(a)])

\* The row has changed, and who changed it has still to say so to the claim.
Pending == tap.pc = "stale" \/ erase.pc = "forget"

Told == Says(disk.actions, row.policy) /\ (vm => Says(actions, row.policy))

AnswerInv ==
  missed = {} /\ ~ Pending =>
    /\ settled /\ ~ claim.due => Told \/ Gone
    /\ \A r \in Requests : Own(r) =>
         /\ req[r].pc = "resolve" => req[r].row.policy = row.policy
         /\ req[r].pc \in {"send", "apply"} => Says(req[r].push.actions, row.policy)
         /\ req[r].pc = "apply" => vm /\ Says(disk.actions, row.policy)
         /\ req[r].pc = "done" => Told \/ Gone

-----------------------------------------------------------------------------
(* What runs unasked.                                                      *)

\* The person has once let this capability of this app run.
Chose(app, capability) ==
  \E s \in chosen : s.app = app /\ s.capability = capability /\ s.answer = "auto"

EarnedPolicy(policy) ==
  \A app \in Apps, c \in governable : policy[app][c] = "auto" => Chose(app, c)

EarnedAnswer(answer) ==
  \A a \in DOMAIN answer : answer[a] = "auto" => ReadOnly(a) \/ Chose(AppOf[a], kindOf(a))

EarnedInv ==
  /\ EarnedPolicy(row.policy) /\ EarnedPolicy(tap.row.policy)
  /\ EarnedAnswer(disk.actions) /\ EarnedAnswer(actions)
  /\ \A r \in Requests : EarnedPolicy(req[r].row.policy) /\ EarnedAnswer(req[r].push.actions)
  /\ AutoIsEarned

-----------------------------------------------------------------------------
(* Erasure.                                                                *)

EraseInv ==
  erase.quiet /\ erase.pc # "idle" =>
    /\ \A r \in Requests : req[r].pc = "idle"
    /\ erase.pc = "revoke" /\ ~ erase.refused => Connections \subseteq erase.held
    /\ erase.pc \in {"row", "forget"} => ~ vm /\ disk = NoPush /\ Connections = {}
    /\ erase.pc = "forget" => row = NoRow

AppsInv == AppsTypes /\ ClaimInv /\ TicketInv /\ AnswerInv /\ EarnedInv /\ EraseInv
             /\ NothingOfAnOldSession

-----------------------------------------------------------------------------
(* Operators.                                                              *)

\* An empty push is one, and so is a row nobody has filled.
LEMMA NothingTypes ==
  /\ NoActions \in Resolutions /\ DOMAIN NoActions = {}
  /\ NoPush \in Pushes /\ NoPush.url = 0 /\ NoPush.actions = NoActions
  /\ NoPolicy \in Policies /\ NoRow \in Rows /\ NoRow.policy = NoPolicy
  /\ \A app \in Apps, c \in governable : NoPolicy[app][c] = "unset"
<1>1. NoActions \in [{} -> settable] /\ DOMAIN NoActions = {}
  BY DEF NoActions
<1>2. NoActions \in Resolutions
  BY <1>1 DEF Resolutions
<1>3. NoPolicy \in Policies /\ \A app \in Apps, c \in governable : NoPolicy[app][c] = "unset"
  BY DEF NoPolicy, Policies, Answer
<1> QED
  BY <1>1, <1>2, <1>3 DEF NoPush, Pushes, NoRow, Rows

\* resolved names actions of the catalogue, and answers each by actionFor.
LEMMA ResolvedIs ==
  ASSUME NEW apps, NEW policy
  PROVE  /\ resolved(apps, policy) \in Resolutions
         /\ Says(resolved(apps, policy), policy)
         /\ \A a \in DOMAIN resolved(apps, policy) :
              /\ a \in Actions
              /\ resolved(apps, policy)[a] = "auto" =>
                   kindOf(a) = "read" \/ policy[AppOf[a]][kindOf(a)] = "auto"
<1> DEFINE D == {x \in Actions : AppOf[x] \in budgeted(apps)}
           f == [a \in D |->
                   actionFor(kindOf(a), IF kindOf(a) = "read" THEN "unset"
                                        ELSE policy[AppOf[a]][kindOf(a)])]
<1>1. resolved(apps, policy) = f
  BY DEF resolved
<1> HIDE DEF f
<1>2. /\ DOMAIN f = D
      /\ \A a \in D : f[a] = actionFor(kindOf(a), IF kindOf(a) = "read" THEN "unset"
                                                  ELSE policy[AppOf[a]][kindOf(a)])
  BY DEF f
<1>3. \A capability, answer : actionFor(capability, answer) \in settable
  BY DEF actionFor, settable
<1>4. f = [a \in D |-> f[a]]
  BY DEF f
<1>5. \A a \in D : f[a] \in settable
  BY <1>2, <1>3
<1>6. D \in SUBSET Actions
  OBVIOUS
<1> HIDE DEF D
<1>7. f \in [D -> settable]
  BY <1>4, <1>5
<1>8. f \in Resolutions
  BY <1>6, <1>7 DEF Resolutions
<1>9. Says(f, policy)
  BY <1>2 DEF Says
<1>10. ASSUME NEW a \in D, f[a] = "auto", kindOf(a) # "read"
       PROVE  policy[AppOf[a]][kindOf(a)] = "auto"
  BY <1>2, <1>10 DEF actionFor
<1> QED
  BY <1>1, <1>2, <1>6, <1>8, <1>9, <1>10

\* An action we take for a read is one that needs no choice, and every other
\* kind can be chosen for.
LEMMA KindIs ==
  ASSUME NEW a \in Actions
  PROVE  /\ kindOf(a) = "read" => ReadOnly(a)
         /\ kindOf(a) # "read" => kindOf(a) \in governable
         /\ AppOf[a] \in Apps
<1>1. /\ Tags[a] \subseteq {"destructiveHint", "createHint", "updateHint",
                            "readOnlyHint", "openWorldHint"}
      /\ AppOf[a] \in Apps
  BY ActionsAssumption
<1>2. ASSUME kindOf(a) = "read" PROVE ReadOnly(a)
  <2>1. a \notin deniedReads /\ capabilityOf(Tags[a]) = "read"
    BY <1>2 DEF kindOf
  <2>2. "destructiveHint" \notin Tags[a]
    BY <2>1 DEF capabilityOf
  <2>3. {"createHint", "updateHint"} \intersect Tags[a] = {}
    BY <2>1, <2>2 DEF capabilityOf
  <2>4. "readOnlyHint" \in Tags[a]
    BY <2>1, <2>2, <2>3 DEF capabilityOf
  <2>5. "createHint" \notin Tags[a] /\ "updateHint" \notin Tags[a]
    BY <2>3
  <2>6. Tags[a] \subseteq {"readOnlyHint", "openWorldHint"}
    BY <1>1, <2>2, <2>5
  <2> QED
    BY <2>1, <2>4, <2>6 DEF ReadOnly
<1>3. kindOf(a) # "read" => kindOf(a) \in governable
  BY DEF kindOf, capabilityOf, governable
<1> QED
  BY <1>1, <1>2, <1>3

\* Taking the claim away from pushes under way changes nothing else of them.
LEMMA AgedIs ==
  ASSUME req \in [Requests -> ReqStruct], NEW age \in {"own", "late", "forgotten"}
  PROVE  /\ Aged(age) \in [Requests -> ReqStruct]
         /\ \A q \in Requests :
              /\ Aged(age)[q].pc = req[q].pc /\ Aged(age)[q].row = req[q].row
              /\ Aged(age)[q].push = req[q].push
              /\ Aged(age)[q].age = IF Own(q) THEN age ELSE req[q].age
<1>1. ASSUME NEW q \in Requests
      PROVE  /\ [req[q] EXCEPT !.age = age] \in ReqStruct
             /\ [req[q] EXCEPT !.age = age].pc = req[q].pc
             /\ [req[q] EXCEPT !.age = age].row = req[q].row
             /\ [req[q] EXCEPT !.age = age].push = req[q].push
             /\ [req[q] EXCEPT !.age = age].age = age
  BY DEF ReqStruct
<1>2. \A q \in Requests : Aged(age)[q] = IF Own(q) THEN [req[q] EXCEPT !.age = age] ELSE req[q]
  BY DEF Aged, Own
<1>3. \A q \in Requests : Aged(age)[q] \in ReqStruct
  BY <1>1, <1>2
<1>4. Aged(age) = [q \in Requests |-> Aged(age)[q]]
  BY DEF Aged
<1>5. Aged(age) \in [Requests -> ReqStruct]
  BY <1>3, <1>4
<1> QED
  BY <1>1, <1>2, <1>5

\* The machine takes the requests it was serving down with it.
LEMMA CutIs ==
  ASSUME req \in [Requests -> ReqStruct]
  PROVE  /\ Cut \in [Requests -> ReqStruct]
         /\ \A q \in Requests :
              /\ Cut[q].pc = IF req[q].pc = "apply" THEN "lost" ELSE req[q].pc
              /\ Cut[q].row = req[q].row /\ Cut[q].push = req[q].push /\ Cut[q].age = req[q].age
<1>1. ASSUME NEW q \in Requests
      PROVE  /\ [req[q] EXCEPT !.pc = "lost"] \in ReqStruct
             /\ [req[q] EXCEPT !.pc = "lost"].pc = "lost"
             /\ [req[q] EXCEPT !.pc = "lost"].row = req[q].row
             /\ [req[q] EXCEPT !.pc = "lost"].push = req[q].push
             /\ [req[q] EXCEPT !.pc = "lost"].age = req[q].age
  BY DEF ReqStruct, ReqPCs, Pushing
<1>2. \A q \in Requests : Cut[q] = IF req[q].pc = "apply" THEN [req[q] EXCEPT !.pc = "lost"]
                                                          ELSE req[q]
  BY DEF Cut
<1>3. Cut = [q \in Requests |-> Cut[q]]
  BY DEF Cut
<1>4. \A q \in Requests : Cut[q] \in ReqStruct
  BY <1>1, <1>2
<1>5. Cut \in [Requests -> ReqStruct]
  BY <1>3, <1>4
<1> QED
  BY <1>1, <1>2, <1>5

\* A purge does too, and whoever was about to create has no claim left.
LEMMA PurgedIs ==
  ASSUME req \in [Requests -> ReqStruct]
  PROVE  /\ Purged \in [Requests -> ReqStruct]
         /\ \A q \in Requests :
              /\ Purged[q].pc = IF req[q].pc = "apply" THEN "lost" ELSE req[q].pc
              /\ Purged[q].row = req[q].row /\ Purged[q].push = req[q].push
              /\ Purged[q].age = IF req[q].pc = "create" THEN "forgotten" ELSE req[q].age
<1>1. ASSUME NEW q \in Requests
      PROVE  /\ [req[q] EXCEPT !.age = "forgotten"] \in ReqStruct
             /\ [req[q] EXCEPT !.age = "forgotten"].pc = req[q].pc
             /\ [req[q] EXCEPT !.age = "forgotten"].row = req[q].row
             /\ [req[q] EXCEPT !.age = "forgotten"].push = req[q].push
             /\ [req[q] EXCEPT !.age = "forgotten"].age = "forgotten"
  BY DEF ReqStruct
<1>2. \A q \in Requests : Purged[q] = IF req[q].pc = "create"
                                      THEN [req[q] EXCEPT !.age = "forgotten"] ELSE Cut[q]
  BY DEF Purged
<1>3. Purged = [q \in Requests |-> Purged[q]]
  BY DEF Purged
<1>4. \A q \in Requests : Purged[q] \in ReqStruct
  BY <1>1, <1>2, CutIs
<1>5. Purged \in [Requests -> ReqStruct]
  BY <1>3, <1>4
<1>6. ASSUME NEW q \in Requests
      PROVE  /\ Purged[q].pc = IF req[q].pc = "apply" THEN "lost" ELSE req[q].pc
             /\ Purged[q].row = req[q].row /\ Purged[q].push = req[q].push
             /\ Purged[q].age = IF req[q].pc = "create" THEN "forgotten" ELSE req[q].age
  <2>1. CASE req[q].pc = "create"
    BY <1>1, <1>2, <2>1
  <2>2. CASE req[q].pc # "create"
    <3>1. Purged[q] = Cut[q]
      BY <1>2, <2>2
    <3> QED
      BY <2>2, <3>1, CutIs
  <2> QED
    BY <2>1, <2>2
<1> QED
  BY <1>5, <1>6

\* What the guest does of itself leaves what the host gave it, and the host.
LEMMA GuestKeeps ==
  ASSUME Guest
  PROVE  /\ vm
         /\ UNCHANGED <<disk, url, actions, vm, conns, row, claim, route, req, tap, erase, chosen,
                        count, missed>>
BY DEF Guest, GuestNext, Tools, NoSession, Connected, Repointed, Undialled, ListFails, CoolOver,
       Dialled, Listed, CallApps, Unlisted, people

-----------------------------------------------------------------------------
(* AppsTypes.                                                              *)

\* A setting merged into a row makes a row (setAppPolicy).
LEMMA MergedTypes ==
  ASSUME NEW f \in Rows, NEW s \in Settings
  PROVE  /\ [f EXCEPT !.policy[s.app][s.capability] = s.answer] \in Rows
         /\ \A app \in Apps, c \in governable :
              [f EXCEPT !.policy[s.app][s.capability] = s.answer].policy[app][c] =
                IF app = s.app /\ c = s.capability THEN s.answer ELSE f.policy[app][c]
<1>1. s.app \in Apps /\ s.capability \in governable /\ s.answer \in settable
  BY HostAssumption
<1>2. f.policy \in Policies
  BY DEF Rows
<1> DEFINE inner == [f.policy[s.app] EXCEPT ![s.capability] = s.answer]
           outer == [f.policy EXCEPT ![s.app] = inner]
           g == [f EXCEPT !.policy = outer]
<1>3. [f EXCEPT !.policy[s.app][s.capability] = s.answer] = g
  OBVIOUS
<1>4. /\ inner \in [governable -> settable \union {"unset"}]
      /\ \A c \in governable : inner[c] = IF c = s.capability THEN s.answer ELSE f.policy[s.app][c]
  BY <1>1, <1>2 DEF Policies
<1> HIDE DEF inner
<1>5. /\ outer \in Policies
      /\ \A app \in Apps : outer[app] = IF app = s.app THEN inner ELSE f.policy[app]
  BY <1>1, <1>2, <1>4 DEF Policies
<1> HIDE DEF outer
<1>6. g \in Rows /\ g.policy = outer
  BY <1>5 DEF Rows
<1>7. \A app \in Apps, c \in governable :
        outer[app][c] = IF app = s.app /\ c = s.capability THEN s.answer ELSE f.policy[app][c]
  BY <1>4, <1>5
<1> HIDE DEF g
<1> QED
  BY <1>3, <1>6, <1>7


\* The records things start from and fall back to.
LEMMA EmptyTypes ==
  /\ NoClaim \in ClaimStruct /\ InFlight \in ClaimStruct
  /\ NoReq \in ReqStruct /\ NoReq.pc = "idle" /\ NoReq.row = NoRow /\ NoReq.push = NoPush
  /\ NoTap \in [pc : {"idle", "save", "stale"}, row : Rows] /\ NoTap.row = NoRow
  /\ NoErase \in EraseStruct /\ NoErase.pc = "idle"
BY NothingTypes
   DEF NoClaim, InFlight, ClaimStruct, NoReq, ReqStruct, ReqPCs, NoTap, NoErase, EraseStruct

\* Using the account only marks an erasure that is under way.
LEMMA UsedIs ==
  ASSUME erase \in EraseStruct, Used
  PROVE  /\ erase' \in EraseStruct
         /\ erase'.pc = erase.pc /\ erase'.held = erase.held /\ erase'.refused = erase.refused
         /\ erase.pc # "idle" => ~ erase'.quiet
<1> DEFINE b == (erase.pc = "idle")
<1>1. erase' = [erase EXCEPT !.quiet = b] /\ b \in BOOLEAN
  BY DEF Used
<1>2. erase.pc # "idle" => ~ b
  OBVIOUS
<1> HIDE DEF b
<1> QED
  BY <1>1, <1>2 DEF EraseStruct

\* A request at its next step is one.
LEMMA NextReqTypes ==
  ASSUME req \in [Requests -> ReqStruct], NEW r \in Requests, NEW pc \in ReqPCs
  PROVE  /\ [req EXCEPT ![r].pc = pc] \in [Requests -> ReqStruct]
         /\ [req EXCEPT ![r] = NoReq] \in [Requests -> ReqStruct]
<1>1. [req[r] EXCEPT !.pc = pc] \in ReqStruct
  BY DEF ReqStruct
<1> QED
  BY <1>1, EmptyTypes

\* What a machine that boots finds on its disk is well typed (newAppsServer).
LEMMA BootedTypes ==
  ASSUME NEW held \in Pushes, Booted(held)
  PROVE  disk' \in Pushes /\ url' \in Nat /\ actions' \in Resolutions
BY DEF Booted, Pushes

\* Nothing begins connected with anything (Init).
LEMMA AppsTypesInit == Init => AppsTypes
<1> SUFFICES ASSUME Init PROVE AppsTypes
  OBVIOUS
<1>1. /\ disk \in Pushes /\ url \in Nat /\ actions \in Resolutions
      /\ vm \in BOOLEAN /\ conns \in [Apps -> {"none", "INITIATED", "ACTIVE"}]
      /\ row \in Rows /\ route \in Nat /\ chosen \subseteq Settings
  BY NothingTypes DEF Init, GuestInit
<1>2. /\ claim \in ClaimStruct /\ req \in [Requests -> ReqStruct]
      /\ tap \in [pc : {"idle", "save", "stale"}, row : Rows] /\ erase \in EraseStruct
  BY EmptyTypes DEF Init
<1>3. count \in CountStruct
  BY DEF Init, CountStruct
<1> QED
  BY <1>1, <1>2, <1>3 DEF AppsTypes

\* Every step keeps the types.
LEMMA AppsTypesStep == AppsTypes /\ [Next]_vars => AppsTypes'
<1> SUFFICES ASSUME AppsTypes, [Next]_vars PROVE AppsTypes'
  OBVIOUS
<1>0. activeSlugs \subseteq Apps /\ Connections \subseteq Apps
  BY DEF activeSlugs, Connections
<1> USE DEF AppsTypes
<1>1. ASSUME NEW r \in Requests, Begin(r) PROVE AppsTypes'
  <2>1. req' \in [Requests -> ReqStruct]
    BY <1>1, NextReqTypes DEF Begin, Go, ReqPCs
  <2>2. erase' \in EraseStruct
    BY <1>1, UsedIs DEF Begin
  <2>3. count' \in CountStruct
    BY <1>1 DEF Begin, CountStruct
  <2> QED
    BY <1>1, <2>1, <2>2, <2>3 DEF Begin, guestVars
<1>2. ASSUME NEW r \in Requests, Forget(r) PROVE AppsTypes'
  <2>1. Aged("forgotten") \in [Requests -> ReqStruct]
    BY AgedIs
  <2>2. req' \in [Requests -> ReqStruct]
    BY <1>2, <2>1 DEF Forget, ReqStruct, ReqPCs
  <2>3. claim' \in ClaimStruct
    BY <1>2, EmptyTypes DEF Forget
  <2> QED
    BY <1>2, <2>2, <2>3 DEF Forget, people, guestVars
<1>3. ASSUME NEW r \in Requests, Create(r) PROVE AppsTypes'
  <2>1. req' \in [Requests -> ReqStruct]
    BY <1>3, NextReqTypes DEF Create, Go, ReqPCs
  <2>2. disk' \in Pushes /\ url' \in Nat /\ actions' \in Resolutions
    BY <1>3, BootedTypes DEF Create, guestVars
  <2> QED
    BY <1>3, <2>1, <2>2 DEF Create, people
<1>4. ASSUME NEW r \in Requests, GiveUp(r) PROVE AppsTypes'
  <2>1. req' \in [Requests -> ReqStruct]
    BY <1>4, NextReqTypes DEF GiveUp, Idle, ReqPCs
  <2> QED
    BY <1>4, <2>1 DEF GiveUp, people, guestVars
<1>5. ASSUME NEW r \in Requests, Claim(r) PROVE AppsTypes'
  <2>1. req' \in [Requests -> ReqStruct]
    <3>1. Go(r, "get") \/ Idle(r)
      BY <1>5 DEF Claim
    <3>2. "get" \in ReqPCs
      BY DEF ReqPCs, Pushing
    <3>3. CASE Go(r, "get")
      BY <3>2, <3>3, NextReqTypes DEF Go
    <3>4. CASE Idle(r)
      BY <3>2, <3>4, NextReqTypes DEF Idle
    <3> QED
      BY <3>1, <3>3, <3>4
  <2>2. claim' \in ClaimStruct
    BY <1>5, EmptyTypes DEF Claim
  <2> QED
    BY <1>5, <2>1, <2>2 DEF Claim, people, guestVars
<1>6. ASSUME NEW r \in Requests, Get(r) PROVE AppsTypes'
  <2>1. NewSession(row.policy) \in Rows
    BY DEF NewSession, Rows, CountStruct
  <2>2. ASSUME NEW new \in Rows, NEW pc \in ReqPCs
        PROVE  [req[r] EXCEPT !.row = new, !.pc = pc] \in ReqStruct
    BY DEF ReqStruct
  <2>3. \/ req' = [req EXCEPT ![r].row = row, ![r].pc = "resolve"]
        \/ req' = [req EXCEPT ![r].row = NewSession(row.policy), ![r].pc = "put"]
    BY <1>6 DEF Get
  <2>4. "resolve" \in ReqPCs /\ "put" \in ReqPCs
    BY DEF ReqPCs, Pushing
  <2>5. req' \in [Requests -> ReqStruct]
    <3>1. CASE req' = [req EXCEPT ![r].row = row, ![r].pc = "resolve"]
      <4>1. req' = [req EXCEPT ![r] = [req[r] EXCEPT !.row = row, !.pc = "resolve"]]
        BY <3>1
      <4> QED
        BY <2>2, <2>4, <4>1
    <3>2. CASE req' = [req EXCEPT ![r].row = NewSession(row.policy), ![r].pc = "put"]
      <4>1. req' = [req EXCEPT ![r] = [req[r] EXCEPT !.row = NewSession(row.policy), !.pc = "put"]]
        BY <3>2
      <4> QED
        BY <2>1, <2>2, <2>4, <4>1
    <3> QED
      BY <2>3, <3>1, <3>2
  <2>6. count' \in CountStruct
    BY <1>6 DEF Get, CountStruct
  <2> QED
    BY <1>6, <2>5, <2>6 DEF Get, people, guestVars
<1>7. ASSUME NEW r \in Requests, Put(r) PROVE AppsTypes'
  BY <1>7, <1>0, NothingTypes
     DEF Put, Go, Stray, people, guestVars, ReqStruct, ReqPCs, Pushing, ClaimStruct,
         EraseStruct, CountStruct
<1>8. ASSUME NEW r \in Requests, Resolve(r) PROVE AppsTypes'
  <2>1. count' \in CountStruct /\ route' \in Nat
    BY <1>8 DEF Resolve, CountStruct
  <2>2. ASSUME NEW push \in Pushes
        PROVE  [req[r] EXCEPT !.slugs = activeSlugs, !.push = push, !.row = NoRow,
                              !.pc = "send"] \in ReqStruct
    <3>1. "send" \in ReqPCs /\ NoRow \in Rows /\ req[r] \in ReqStruct
      BY NothingTypes DEF ReqPCs, Pushing
    <3> QED
      BY <1>0, <3>1 DEF ReqStruct
  <2>3. ASSUME NEW answered \in SUBSET activeSlugs
        PROVE  [url |-> route', session |-> req[r].row.session,
                actions |-> resolved(answered, req[r].row.policy)] \in Pushes
    <3>1. req[r].row.session \in Nat /\ req[r].row.policy \in Policies
      BY DEF ReqStruct, Rows
    <3>2. resolved(answered, req[r].row.policy) \in Resolutions
      BY ResolvedIs
    <3> QED
      BY <2>1, <3>1, <3>2 DEF Pushes
  <2>4. \E push \in Pushes :
           req' = [req EXCEPT ![r].slugs = activeSlugs, ![r].push = push, ![r].row = NoRow,
                              ![r].pc = "send"]
    BY <1>8, <2>3 DEF Resolve
  <2>5. \E push \in Pushes :
           req' = [req EXCEPT ![r] = [req[r] EXCEPT !.slugs = activeSlugs, !.push = push,
                                                    !.row = NoRow, !.pc = "send"]]
    BY <2>4
  <2>6. req' \in [Requests -> ReqStruct]
    BY <2>2, <2>5
  <2> QED
    BY <1>8, <2>1, <2>6 DEF Resolve, people, guestVars
<1>9. ASSUME NEW r \in Requests, Send(r) PROVE AppsTypes'
  BY <1>9, <1>0, NothingTypes
     DEF Send, PutWrite, Stray, people, guestVars, ReqStruct, ReqPCs, Pushing, ClaimStruct,
         EraseStruct, CountStruct
<1>10. ASSUME NEW r \in Requests, Apply(r) PROVE AppsTypes'
  BY <1>10, <1>0, NothingTypes
     DEF Apply, PutApply, Stray, people, guestVars, ReqStruct, ReqPCs, Pushing, ClaimStruct,
         EraseStruct, CountStruct
<1>11. ASSUME NEW r \in Requests, Done(r) PROVE AppsTypes'
  <2>1. Aged("forgotten") \in [Requests -> ReqStruct]
    BY AgedIs
  <2>2. req' \in [Requests -> ReqStruct]
    BY <1>11, <2>1, EmptyTypes DEF Done, Ended
  <2>3. claim' \in ClaimStruct
    BY <1>11 DEF Done, ClaimStruct, ReqStruct
  <2> QED
    BY <1>11, <2>2, <2>3 DEF Done, people, guestVars
<1>12. ASSUME NEW r \in Requests, Fail(r) PROVE AppsTypes'
  <2>1. Aged("forgotten") \in [Requests -> ReqStruct]
    BY AgedIs
  <2>2. req' \in [Requests -> ReqStruct]
    BY <1>12, <2>1, EmptyTypes DEF Fail, Ended
  <2>3. claim' \in ClaimStruct
    BY <1>12 DEF Fail, ClaimStruct, ReqStruct
  <2> QED
    BY <1>12, <2>2, <2>3 DEF Fail, people, guestVars
<1>13. ASSUME NEW s \in Settings, SetPolicy(s) PROVE AppsTypes'
  <2>1. [row EXCEPT !.policy[s.app][s.capability] = s.answer] \in Rows
    BY MergedTypes
  <2>2. tap' \in [pc : {"idle", "save", "stale"}, row : Rows] /\ chosen' \subseteq Settings
    BY <1>13, <2>1 DEF SetPolicy
  <2>3. count' \in CountStruct
    BY <1>13 DEF SetPolicy, Event, CountStruct
  <2> QED
    BY <1>13, <2>2, <2>3 DEF SetPolicy, guestVars
<1>14. ASSUME NEW a \in Apps, ConnectApp(a) PROVE AppsTypes'
  <2>1. conns' \in [Apps -> {"none", "INITIATED", "ACTIVE"}]
    BY <1>14 DEF ConnectApp, Link
  <2>2. erase' \in EraseStruct
    BY <1>14, UsedIs DEF ConnectApp
  <2>3. count' \in CountStruct
    BY <1>14 DEF ConnectApp, Event, CountStruct
  <2> QED
    BY <1>14, <2>1, <2>2, <2>3 DEF ConnectApp, guestVars
<1>15. ASSUME NEW a \in Apps, Authorise(a) PROVE AppsTypes'
  <2>1. conns' \in [Apps -> {"none", "INITIATED", "ACTIVE"}]
    BY <1>15 DEF Authorise
  <2>2. erase' \in EraseStruct
    BY <1>15, UsedIs DEF Authorise
  <2> QED
    BY <1>15, <2>1, <2>2 DEF Authorise, guestVars
<1>16. ASSUME NEW a \in Apps, DisconnectApp(a) PROVE AppsTypes'
  <2>1. conns' \in [Apps -> {"none", "INITIATED", "ACTIVE"}]
    BY <1>16 DEF DisconnectApp, Disconnect
  <2>2. claim' \in ClaimStruct
    BY <1>16 DEF DisconnectApp, Notice, ClaimStruct
  <2>3. count' \in CountStruct
    BY <1>16 DEF DisconnectApp, Event, CountStruct
  <2>4. tap' \in [pc : {"idle", "save", "stale"}, row : Rows]
    BY <1>16, EmptyTypes DEF DisconnectApp
  <2> QED
    BY <1>16, <2>1, <2>2, <2>3, <2>4 DEF DisconnectApp, guestVars
<1>17. ASSUME NEW a \in Apps, EraseRevoke(a) PROVE AppsTypes'
  <2>1. conns' \in [Apps -> {"none", "INITIATED", "ACTIVE"}]
    BY <1>17 DEF EraseRevoke, Disconnect
  <2>2. erase' \in EraseStruct
    <3>1. /\ [erase EXCEPT !.held = @ \ {a}] \in EraseStruct
          /\ [erase EXCEPT !.held = @ \ {a}, !.refused = TRUE] \in EraseStruct
      BY DEF EraseStruct
    <3> QED
      BY <1>17, <3>1 DEF EraseRevoke
  <2> QED
    BY <1>17, <2>1, <2>2 DEF EraseRevoke, guestVars
<1>18. CASE SavePolicy
  <2>1. erase' \in EraseStruct
    BY <1>18, UsedIs DEF SavePolicy
  <2>2. tap' \in [pc : {"idle", "save", "stale"}, row : Rows] /\ row' \in Rows
    BY <1>18, EmptyTypes DEF SavePolicy
  <2> QED
    BY <1>18, <2>1, <2>2 DEF SavePolicy, guestVars
<1>19. CASE StaleApps
  BY <1>19, <1>0, NothingTypes
     DEF StaleApps, Stale, settled, NoTap, people, guestVars, ReqStruct, ReqPCs, Pushing,
         ClaimStruct, EraseStruct, CountStruct
<1>20. CASE HeldApps
  BY <1>20, <1>0, NothingTypes
     DEF HeldApps, Notice, settled, people, guestVars, ReqStruct, ReqPCs, Pushing,
         ClaimStruct, EraseStruct, CountStruct
<1>21. CASE ClaimRunsOut
  <2>1. req' \in [Requests -> ReqStruct]
    BY <1>21, AgedIs DEF ClaimRunsOut
  <2>2. claim' \in ClaimStruct
    BY <1>21 DEF ClaimRunsOut, ClaimStruct
  <2> QED
    BY <1>21, <2>1, <2>2 DEF ClaimRunsOut, people, guestVars
<1>22. CASE EraseList
  <2> DEFINE q == \A r \in Requests : req[r].pc = "idle"
  <2>1. erase' = [pc |-> "revoke", held |-> Connections, refused |-> FALSE, quiet |-> q]
    BY <1>22 DEF EraseList
  <2>2. q \in BOOLEAN
    OBVIOUS
  <2> HIDE DEF q
  <2>3. erase' \in EraseStruct
    BY <1>0, <2>1, <2>2 DEF EraseStruct
  <2>4. count' \in CountStruct
    BY <1>22 DEF EraseList, Event, CountStruct
  <2> QED
    BY <1>22, <2>3, <2>4 DEF EraseList, guestVars
<1>23. CASE EraseRefused
  BY <1>23, EmptyTypes DEF EraseRefused, guestVars
<1>24. CASE ErasePurge
  <2>1. disk' \in Pushes /\ url' \in Nat /\ actions' \in Resolutions
    BY <1>24, BootedTypes, NothingTypes DEF ErasePurge
  <2>2. req' \in [Requests -> ReqStruct]
    BY <1>24, PurgedIs DEF ErasePurge
  <2>3. erase' \in EraseStruct
    BY <1>24 DEF ErasePurge, EraseStruct
  <2> QED
    BY <1>24, <2>1, <2>2, <2>3 DEF ErasePurge
<1>25. CASE EraseRow
  BY <1>25, <1>0, NothingTypes
     DEF EraseRow, people, guestVars, ReqStruct, ReqPCs, Pushing, ClaimStruct, EraseStruct,
         CountStruct
<1>26. CASE EraseForget
  <2>1. req' \in [Requests -> ReqStruct]
    BY <1>26, AgedIs DEF EraseForget
  <2>2. claim' \in ClaimStruct /\ erase' \in EraseStruct
    BY <1>26, EmptyTypes DEF EraseForget
  <2> QED
    BY <1>26, <2>1, <2>2 DEF EraseForget, guestVars
<1>27. CASE EraseFails
  BY <1>27, EmptyTypes DEF EraseFails, guestVars
<1>28. CASE StopMachine
  <2>1. disk' \in Pushes /\ url' \in Nat /\ actions' \in Resolutions
    BY <1>28, BootedTypes DEF StopMachine
  <2>2. req' \in [Requests -> ReqStruct]
    BY <1>28, CutIs DEF StopMachine
  <2>3. count' \in CountStruct
    BY <1>28 DEF StopMachine, Event, CountStruct
  <2> QED
    BY <1>28, <2>1, <2>2, <2>3 DEF StopMachine, people
<1>29. CASE HostRestart
  <2>1. req' \in [Requests -> ReqStruct]
    BY <1>29, EmptyTypes DEF HostRestart
  <2>2. /\ claim' \in ClaimStruct /\ erase' \in EraseStruct
        /\ tap' \in [pc : {"idle", "save", "stale"}, row : Rows]
    BY <1>29, EmptyTypes DEF HostRestart
  <2>3. count' \in CountStruct
    BY <1>29 DEF HostRestart, Event, CountStruct
  <2> QED
    BY <1>29, <2>1, <2>2, <2>3 DEF HostRestart, guestVars
<1>30. CASE Guest
  BY <1>30, GuestKeeps
<1>31. CASE UNCHANGED vars
  BY <1>31, <1>0, NothingTypes
     DEF vars, people, guestVars, ReqStruct, ReqPCs, Pushing, ClaimStruct, EraseStruct,
         CountStruct
<1> QED
  BY <1>1, <1>2, <1>3, <1>4, <1>5, <1>6, <1>7, <1>8, <1>9, <1>10, <1>11, <1>12, <1>13,
     <1>14, <1>15, <1>16, <1>17, <1>18, <1>19, <1>20, <1>21, <1>22, <1>23, <1>24, <1>25,
     <1>26, <1>27, <1>28, <1>29, <1>30, <1>31
     DEF Next

-----------------------------------------------------------------------------
(* ClaimInv.                                                               *)

\* A request at another step is otherwise what it was.
LEMMA GoIs ==
  ASSUME req \in [Requests -> ReqStruct], NEW r \in Requests, NEW pc, Go(r, pc)
  PROVE  /\ req'[r].pc = pc /\ req'[r].age = req[r].age
         /\ req'[r].row = req[r].row /\ req'[r].push = req[r].push
         /\ \A q \in Requests : q # r => req'[q] = req[q]
BY DEF Go, ReqStruct

\* handOver: the push of a request is what its row's policy makes of the accounts.
LEMMA ResolveIs ==
  ASSUME AppsTypes, NEW r \in Requests, Resolve(r)
  PROVE  \E answered \in SUBSET activeSlugs :
           /\ req'[r].pc = "send" /\ req'[r].age = req[r].age /\ req'[r].row = NoRow
           /\ req'[r].push.url = route' /\ route' = count.tickets + 1
           /\ req'[r].push.actions = resolved(answered, req[r].row.policy)
           /\ \A q \in Requests : q # r => req'[q] = req[q]
<1>0. req \in [Requests -> ReqStruct] /\ count \in CountStruct
  BY DEF AppsTypes
<1>1. PICK answered \in SUBSET activeSlugs :
        req' = [req EXCEPT ![r].slugs = activeSlugs,
                           ![r].push = [url |-> route', session |-> req[r].row.session,
                                        actions |-> resolved(answered, req[r].row.policy)],
                           ![r].row = NoRow,
                           ![r].pc = "send"]
  BY DEF Resolve
<1> DEFINE push == [url |-> route', session |-> req[r].row.session,
                    actions |-> resolved(answered, req[r].row.policy)]
<1>2. push.url = route' /\ push.actions = resolved(answered, req[r].row.policy)
  OBVIOUS
<1>3. req' = [req EXCEPT ![r].slugs = activeSlugs, ![r].push = push, ![r].row = NoRow,
                         ![r].pc = "send"]
  BY <1>1
<1> HIDE DEF push
<1>4. /\ req'[r].pc = "send" /\ req'[r].age = req[r].age /\ req'[r].row = NoRow
      /\ req'[r].push = push
  BY <1>0, <1>3 DEF ReqStruct
<1>5. \A q \in Requests : q # r => req'[q] = req[q]
  BY <1>0, <1>3
<1>6. route' = count.tickets + 1
  BY <1>0 DEF Resolve, CountStruct
<1> QED
  BY <1>2, <1>4, <1>5, <1>6

\* Only claimApps makes a push whose claim stands; such a push is moved by its
\* own steps and by the loss of its machine.
LEMMA PushMoves ==
  ASSUME AppsTypes, [Next]_vars, NEW q \in Requests, Own(q)'
  PROVE  \/ Claim(q) /\ req'[q].pc = "get" /\ ~ Own(q) /\ claim' = InFlight
         \/ Own(q) /\ req'[q] = req[q]
         \/ Own(q) /\ req'[q].pc = "lost"
         \/ Own(q) /\ (Get(q) \/ Put(q) \/ Resolve(q) \/ Send(q) \/ Apply(q))
<1> DEFINE Goal == \/ Claim(q) /\ req'[q].pc = "get" /\ ~ Own(q) /\ claim' = InFlight
                   \/ Own(q) /\ req'[q] = req[q]
                   \/ Own(q) /\ req'[q].pc = "lost"
                   \/ Own(q) /\ (Get(q) \/ Put(q) \/ Resolve(q) \/ Send(q) \/ Apply(q))
<1>0. /\ req \in [Requests -> ReqStruct]
      /\ req'[q].pc \in Pushing /\ req'[q].age = "own"
  BY DEF AppsTypes, Own, Underway
<1>a. ASSUME req'[q] = req[q] PROVE Goal
  BY <1>0, <1>a DEF Own, Underway
<1>b. ASSUME UNCHANGED req PROVE Goal
  BY <1>a, <1>b
<1>1. ASSUME NEW r \in Requests, Begin(r) PROVE Goal
  <2>1. CASE q # r
    BY <1>1, <1>0, <1>a, <2>1 DEF Begin, Go
  <2>2. CASE q = r
    BY <1>1, <1>0, <2>2, GoIs DEF Begin, Pushing
  <2> QED
    BY <2>1, <2>2
<1>2. ASSUME NEW r \in Requests, Forget(r) PROVE Goal
  <2>1. req'[q].pc = IF q = r THEN "create" ELSE Aged("forgotten")[q].pc
    BY <1>2, <1>0, AgedIs DEF Forget, ReqStruct
  <2>2. req'[q].age = Aged("forgotten")[q].age
    BY <1>2, <1>0, AgedIs DEF Forget, ReqStruct
  <2>3. q # r /\ ~ Own(q)
    BY <1>0, <2>1, <2>2, AgedIs DEF Pushing
  <2>4. req'[q] = req[q]
    BY <1>2, <1>0, <2>3 DEF Forget, Aged, Own
  <2> QED
    BY <1>a, <2>4
<1>3. ASSUME NEW r \in Requests, Create(r) PROVE Goal
  <2>1. CASE q # r
    BY <1>3, <1>0, <1>a, <2>1 DEF Create, Go
  <2>2. CASE q = r
    BY <1>3, <1>0, <2>2, GoIs DEF Create, Pushing
  <2> QED
    BY <2>1, <2>2
<1>4. ASSUME NEW r \in Requests, GiveUp(r) PROVE Goal
  <2>1. CASE q # r
    BY <1>4, <1>0, <1>a, <2>1 DEF GiveUp, Idle
  <2>2. CASE q = r
    BY <1>4, <1>0, <2>2, EmptyTypes DEF GiveUp, Idle, Pushing
  <2> QED
    BY <2>1, <2>2
<1>5. ASSUME NEW r \in Requests, Claim(r) PROVE Goal
  <2>1. CASE q # r
    BY <1>5, <1>0, <1>a, <2>1 DEF Claim, Go, Idle
  <2>2. CASE q = r
    <3>1. CASE Go(r, "get") /\ claim' = InFlight
      BY <1>5, <1>0, <2>2, <3>1, GoIs DEF Claim, Own, Underway, Pushing
    <3>2. CASE Idle(r)
      BY <1>0, <2>2, <3>2, EmptyTypes DEF Idle, Pushing
    <3> QED
      BY <1>5, <3>1, <3>2 DEF Claim
  <2> QED
    BY <2>1, <2>2
<1>6. ASSUME NEW r \in Requests, Get(r) PROVE Goal
  <2>1. CASE q # r
    BY <1>6, <1>0, <1>a, <2>1 DEF Get, people
  <2>2. CASE q = r
    BY <1>6, <1>0, <2>2 DEF Get, Own, Underway, Pushing, ReqStruct
  <2> QED
    BY <2>1, <2>2
<1>7. ASSUME NEW r \in Requests, Put(r) PROVE Goal
  <2>1. CASE q # r
    BY <1>7, <1>0, <1>a, <2>1 DEF Put, Go
  <2>2. CASE q = r
    BY <1>7, <1>0, <2>2, GoIs DEF Put, Own, Underway, Pushing
  <2> QED
    BY <2>1, <2>2
<1>8. ASSUME NEW r \in Requests, Resolve(r) PROVE Goal
  <2>1. CASE q # r
    BY <1>8, <1>0, <1>a, <2>1 DEF Resolve, people
  <2>2. CASE q = r
    <3>1. req'[q].age = req[q].age
      BY <1>8, <2>2, ResolveIs
    <3>2. Own(q)
      BY <1>8, <1>0, <2>2, <3>1 DEF Resolve, Own, Underway, Pushing
    <3> QED
      BY <1>8, <2>2, <3>2
  <2> QED
    BY <2>1, <2>2
<1>9. ASSUME NEW r \in Requests, Send(r) PROVE Goal
  <2>1. CASE q # r
    BY <1>9, <1>0, <1>a, <2>1 DEF Send, people
  <2>2. CASE q = r
    BY <1>9, <1>0, <2>2 DEF Send, Own, Underway, Pushing, ReqStruct
  <2> QED
    BY <2>1, <2>2
<1>10. ASSUME NEW r \in Requests, Apply(r) PROVE Goal
  <2>1. CASE q # r
    BY <1>10, <1>0, <1>a, <2>1 DEF Apply, people
  <2>2. CASE q = r
    BY <1>10, <1>0, <2>2 DEF Apply, Own, Underway, Pushing, ReqStruct
  <2> QED
    BY <2>1, <2>2
<1>11. ASSUME NEW r \in Requests, Done(r) PROVE Goal
  <2>1. req' = [Aged("forgotten") EXCEPT ![r] = NoReq]
    BY <1>11 DEF Done, Ended
  <2>2. q # r
    BY <1>0, <2>1, AgedIs, EmptyTypes DEF Pushing
  <2>3. req'[q] = Aged("forgotten")[q]
    BY <1>0, <2>1, <2>2, AgedIs
  <2>4. req'[q] = req[q]
    BY <1>0, <2>3, AgedIs DEF Aged, Own
  <2> QED
    BY <1>a, <2>4
<1>12. ASSUME NEW r \in Requests, Fail(r) PROVE Goal
  <2>1. req' = [Aged("forgotten") EXCEPT ![r] = NoReq]
    BY <1>12 DEF Fail, Ended
  <2>2. q # r
    BY <1>0, <2>1, AgedIs, EmptyTypes DEF Pushing
  <2>3. req'[q] = Aged("forgotten")[q]
    BY <1>0, <2>1, <2>2, AgedIs
  <2>4. req'[q] = req[q]
    BY <1>0, <2>3, AgedIs DEF Aged, Own
  <2> QED
    BY <1>a, <2>4
<1>13. ASSUME NEW s \in Settings, SetPolicy(s) PROVE Goal
  BY <1>13, <1>b DEF SetPolicy, Event
<1>14. ASSUME NEW a \in Apps, ConnectApp(a) \/ Authorise(a) \/ DisconnectApp(a) \/ EraseRevoke(a)
      PROVE  Goal
  BY <1>14, <1>b
     DEF ConnectApp, Event, Link, Used, Authorise, DisconnectApp, Notice, settled,
         Disconnect, EraseRevoke
<1>15. CASE SavePolicy \/ StaleApps \/ HeldApps
  BY <1>15, <1>b DEF SavePolicy, Used, NoTap, StaleApps, Stale, settled, HeldApps, Notice
<1>16. CASE ClaimRunsOut
  <2>1. UNCHANGED req \/ req' = Aged("late")
    BY <1>16 DEF ClaimRunsOut
  <2>2. CASE req' = Aged("late")
    <3>1. req'[q] = req[q]
      BY <1>0, <2>2, AgedIs DEF Aged, Own
    <3> QED
      BY <1>a, <3>1
  <2> QED
    BY <1>b, <2>1, <2>2
<1>17. CASE EraseList \/ EraseRefused
  BY <1>17, <1>b DEF EraseList, Event, EraseRefused, NoErase
<1>18. CASE ErasePurge
  <2>1. req' = Purged
    BY <1>18 DEF ErasePurge
  <2>2. Own(q)
    BY <1>0, <2>1, PurgedIs DEF Own, Underway, Pushing
  <2>3. req'[q].pc = "lost" \/ req'[q] = req[q]
    BY <1>0, <2>1, PurgedIs DEF Purged, Cut
  <2> QED
    BY <2>2, <2>3
<1>19. CASE EraseRow \/ EraseFails
  BY <1>19, <1>b DEF EraseRow, EraseFails, NoErase
<1>20. CASE EraseForget
  <2>1. req' = Aged("forgotten")
    BY <1>20 DEF EraseForget
  <2>2. req'[q] = req[q]
    BY <1>0, <2>1, AgedIs DEF Aged, Own
  <2> QED
    BY <1>a, <2>2
<1>21. CASE StopMachine
  <2>1. req' = Cut
    BY <1>21 DEF StopMachine
  <2>2. Own(q)
    BY <1>0, <2>1, CutIs DEF Own, Underway, Pushing
  <2>3. req'[q].pc = "lost" \/ req'[q] = req[q]
    BY <1>0, <2>1, CutIs DEF Cut
  <2> QED
    BY <2>2, <2>3
<1>22. CASE HostRestart
  <2>1. req'[q].pc = "idle"
    BY <1>22, EmptyTypes DEF HostRestart
  <2> QED
    BY <1>0, <2>1 DEF Pushing
<1>23. CASE Guest
  BY <1>23, <1>b, GuestKeeps
<1>24. CASE UNCHANGED vars
  BY <1>24, <1>b DEF vars, people, guestVars
<1> QED
  BY <1>1, <1>2, <1>3, <1>4, <1>5, <1>6, <1>7, <1>8, <1>9, <1>10, <1>11, <1>12, <1>13,
     <1>14, <1>15, <1>16, <1>17, <1>18, <1>19, <1>20, <1>21, <1>22, <1>23, <1>24
     DEF Next

\* Whoever drops or replaces the claim leaves no push that believes in it.
LEMMA NoneOwns ==
  ASSUME AppsTypes,
         \/ \E r \in Requests : Forget(r) \/ Done(r) \/ Fail(r)
         \/ EraseForget \/ HostRestart
         \/ ClaimRunsOut /\ claim.is = "inflight",
         NEW q \in Requests
  PROVE  ~ Own(q)'
<1>0. req \in [Requests -> ReqStruct]
  BY DEF AppsTypes
<1>a. ASSUME NEW age \in {"late", "forgotten"} PROVE Aged(age)[q].age # "own" \/ ~ Own(q)
  BY <1>0, <1>a, AgedIs
<1>b. ASSUME NEW age \in {"late", "forgotten"}, req' = Aged(age) PROVE ~ Own(q)'
  <2>1. req'[q].pc = req[q].pc /\ req'[q].age = IF Own(q) THEN age ELSE req[q].age
    BY <1>0, <1>b, AgedIs
  <2> QED
    BY <1>b, <2>1 DEF Own, Underway
<1>1. ASSUME NEW r \in Requests, Forget(r) PROVE ~ Own(q)'
  <2>1. req' = [Aged("forgotten") EXCEPT ![r].pc = "create"]
    BY <1>1 DEF Forget
  <2>2. CASE q = r
    <3>1. req'[q].pc = "create"
      BY <1>0, <2>1, <2>2, AgedIs DEF ReqStruct
    <3> QED
      BY <3>1 DEF Own, Underway, Pushing
  <2>3. CASE q # r
    <3>1. req'[q].pc = req[q].pc /\ req'[q].age = IF Own(q) THEN "forgotten" ELSE req[q].age
      BY <1>0, <2>1, <2>3, AgedIs
    <3> QED
      BY <3>1 DEF Own, Underway
  <2> QED
    BY <2>2, <2>3
<1>2. ASSUME NEW r \in Requests, Done(r) \/ Fail(r) PROVE ~ Own(q)'
  <2>1. req' = [Aged("forgotten") EXCEPT ![r] = NoReq]
    BY <1>2 DEF Done, Fail, Ended
  <2>2. CASE q = r
    <3>1. req'[q].pc = "idle"
      BY <1>0, <2>1, <2>2, AgedIs, EmptyTypes
    <3> QED
      BY <3>1 DEF Own, Underway, Pushing
  <2>3. CASE q # r
    <3>1. req'[q].pc = req[q].pc /\ req'[q].age = IF Own(q) THEN "forgotten" ELSE req[q].age
      BY <1>0, <2>1, <2>3, AgedIs
    <3> QED
      BY <3>1 DEF Own, Underway
  <2> QED
    BY <2>2, <2>3
<1>3. CASE EraseForget
  BY <1>b, <1>3 DEF EraseForget
<1>4. CASE HostRestart
  <2>1. req'[q].pc = "idle"
    BY <1>4, EmptyTypes DEF HostRestart
  <2> QED
    BY <2>1 DEF Own, Underway, Pushing
<1>5. CASE ClaimRunsOut /\ claim.is = "inflight"
  BY <1>b, <1>5 DEF ClaimRunsOut
<1> QED
  BY <1>1, <1>2, <1>3, <1>4, <1>5

\* While a push's claim stands nobody touches the claim and leaves the push.
LEMMA ClaimStands ==
  ASSUME AppsTypes, ClaimInv, [Next]_vars, NEW q \in Requests, Own(q), Own(q)'
  PROVE  claim' = claim
<1>0. claim.is = "inflight" /\ ~ claim.due
  BY DEF ClaimInv
<1>1. ASSUME NEW r \in Requests, Begin(r) \/ Create(r) \/ GiveUp(r) \/ Get(r) \/ Put(r) \/
             Resolve(r) \/ Send(r) \/ Apply(r)
      PROVE  claim' = claim
  BY <1>1, <1>0
     DEF Begin, Create, GiveUp, Get, Put, Resolve, Send, Apply, Stale, Notice, settled
<1>2. ASSUME NEW r \in Requests, Forget(r) \/ Done(r) \/ Fail(r)
      PROVE  claim' = claim
  BY <1>2, NoneOwns
<1>3. ASSUME NEW r \in Requests, Claim(r) PROVE claim' = claim
  BY <1>3, <1>0 DEF Claim, Stale, Notice, settled
<1>4. ASSUME NEW s \in Settings, SetPolicy(s) PROVE claim' = claim
  BY <1>4, <1>0 DEF SetPolicy, Stale, Notice, settled
<1>5. ASSUME NEW a \in Apps, ConnectApp(a) \/ Authorise(a) \/ EraseRevoke(a)
      PROVE  claim' = claim
  BY <1>5, <1>0 DEF ConnectApp, Authorise, EraseRevoke, Stale, Notice, settled
<1>6. ASSUME NEW a \in Apps, DisconnectApp(a) PROVE claim' = claim
  BY <1>6, <1>0 DEF DisconnectApp, Stale, Notice, settled
<1>7. CASE SavePolicy \/ EraseList \/ EraseRefused \/ ErasePurge \/ EraseRow \/ EraseFails \/
           StopMachine
  BY <1>7, <1>0
     DEF SavePolicy, EraseList, EraseRefused, ErasePurge, EraseRow, EraseFails, StopMachine,
         Stale, Notice, settled
<1>8. CASE StaleApps \/ HeldApps
  BY <1>8, <1>0 DEF StaleApps, HeldApps, Stale, Notice, settled
<1>9. CASE ClaimRunsOut
  BY <1>9, <1>0, NoneOwns
<1>10. CASE EraseForget
  BY <1>10, NoneOwns
<1>11. CASE HostRestart
  BY <1>11, NoneOwns
<1>12. CASE Guest
  BY <1>12, GuestKeeps
<1>13. CASE UNCHANGED vars
  BY <1>13, <1>0 DEF vars, people, guestVars, Stale, Notice, settled
<1> QED
  BY <1>1, <1>2, <1>3, <1>4, <1>5, <1>6, <1>7, <1>8, <1>9, <1>10, <1>11, <1>12, <1>13
     DEF Next

\* One push at a time: claimApps gives the claim to a request only when no push
\* believes in it any more.
LEMMA ClaimInvStep ==
  ASSUME AppsTypes, ClaimInv, [Next]_vars
  PROVE  ClaimInv'
<1>1. ASSUME NEW q \in Requests, Own(q)', ~ Own(q)
      PROVE  Claim(q) /\ claim' = InFlight
  BY <1>1, PushMoves
<1>2. ASSUME NEW q \in Requests, Own(q)' PROVE claim'.is = "inflight" /\ ~ claim'.due
  <2>1. CASE Own(q)
    BY <1>2, <2>1, ClaimStands DEF ClaimInv
  <2>2. CASE ~ Own(q)
    BY <1>1, <1>2, <2>2 DEF InFlight
  <2> QED
    BY <2>1, <2>2
<1>3. ASSUME NEW q \in Requests, NEW p \in Requests, Own(q)', ~ Own(q), Own(p) PROVE FALSE
  <2>1. Claim(q) /\ claim' = InFlight
    BY <1>1, <1>3
  <2>2. claim.is = "inflight" /\ ~ claim.due
    BY <1>3 DEF ClaimInv
  <2>3. Idle(q)
    BY <2>1, <2>2 DEF Claim
  <2>4. req'[q].pc = "idle"
    BY <2>3, EmptyTypes DEF Idle, AppsTypes
  <2> QED
    BY <1>3, <2>4 DEF Own, Underway, Pushing
<1>4. ASSUME NEW q \in Requests, NEW p \in Requests, Own(q)', ~ Own(q), Own(p)', ~ Own(p)
      PROVE  q = p
  <2>1. SUFFICES ASSUME q # p PROVE FALSE
    OBVIOUS
  <2>2. Claim(q) /\ req'[p].pc \in Pushing /\ req'[p].age = "own"
    BY <1>1, <1>4 DEF Own, Underway
  <2>3. req'[p] = req[p]
    BY <2>1, <2>2 DEF Claim, Go, Idle, AppsTypes
  <2> QED
    BY <1>4, <2>2, <2>3 DEF Own, Underway
<1>5. ASSUME NEW q \in Requests, NEW p \in Requests, Own(q)', Own(p)' PROVE q = p
  <2>1. CASE Own(q) /\ Own(p)
    BY <2>1 DEF ClaimInv, OnePushAtATime, Own
  <2> QED
    BY <1>3, <1>4, <1>5, <2>1
<1>6. OnePushAtATime'
  BY <1>5 DEF OnePushAtATime, Own
<1> QED
  BY <1>2, <1>6 DEF ClaimInv

-----------------------------------------------------------------------------
(* What moves the machine, the ticket and the claim.                       *)

\* A stray is never forgotten, and a change that nobody told of is forgotten by
\* the next push, which reads the row anew (claimApps).
LEMMA MissedMoves ==
  ASSUME [Next]_vars
  PROVE  missed \subseteq missed' \/ \E r \in Requests :
           Claim(r) /\ claim' = InFlight /\ missed' = missed \ {"change"}
                    /\ (claim.is = "none" \/ claim.due)
<1> DEFINE Goal == missed \subseteq missed' \/ \E r \in Requests :
                     Claim(r) /\ claim' = InFlight /\ missed' = missed \ {"change"}
                              /\ (claim.is = "none" \/ claim.due)
<1>1. ASSUME NEW r \in Requests, Begin(r) \/ Forget(r) \/ Create(r) \/ GiveUp(r) \/
             Get(r) \/ Put(r) \/ Resolve(r) \/ Send(r) \/ Apply(r) \/ Done(r) \/ Fail(r)
      PROVE  missed \subseteq missed'
  BY <1>1
     DEF Begin, Forget, Create, Stray, GiveUp, Get, Put, Resolve, Send, Apply, Done, Fail
<1>2. ASSUME NEW r \in Requests, Claim(r) PROVE Goal
  BY <1>2 DEF Claim
<1>3. ASSUME NEW s \in Settings, SetPolicy(s) PROVE missed \subseteq missed'
  BY <1>3 DEF SetPolicy
<1>4. ASSUME NEW a \in Apps, ConnectApp(a) \/ Authorise(a) \/ DisconnectApp(a) \/ EraseRevoke(a)
      PROVE  missed \subseteq missed'
  BY <1>4 DEF ConnectApp, Authorise, DisconnectApp, EraseRevoke
<1>5. CASE SavePolicy \/ StaleApps \/ EraseFails
  BY <1>5 DEF SavePolicy, StaleApps, EraseFails, Stale, Untold
<1>6. CASE HeldApps \/ ClaimRunsOut \/ EraseList \/ EraseRefused \/
           ErasePurge \/ EraseRow \/ EraseForget \/ StopMachine \/ HostRestart
  BY <1>6
     DEF HeldApps, ClaimRunsOut, EraseList, EraseRefused, ErasePurge,
         EraseRow, EraseForget, StopMachine, HostRestart
<1>7. CASE Guest
  BY <1>7, GuestKeeps
<1>8. CASE UNCHANGED vars
  BY <1>8 DEF vars
<1> QED
  BY <1>1, <1>2, <1>3, <1>4, <1>5, <1>6, <1>7, <1>8 DEF Next

\* The steps that move the machine, what it holds, or the ticket.
LEMMA MachineMoves ==
  ASSUME [Next]_vars
  PROVE  \/ UNCHANGED <<disk, url, actions, vm, route>>
         \/ \E r \in Requests : Create(r) \/ Forget(r) \/ Resolve(r) \/ Send(r) \/ Apply(r) \/ Fail(r)
         \/ ErasePurge \/ EraseForget \/ StopMachine \/ HostRestart
<1> DEFINE Goal == \/ UNCHANGED <<disk, url, actions, vm, route>>
                   \/ \E r \in Requests : \/ Create(r) \/ Forget(r) \/ Resolve(r) \/ Send(r)
                                          \/ Apply(r) \/ Fail(r)
                   \/ ErasePurge \/ EraseForget \/ StopMachine \/ HostRestart
<1>1. ASSUME NEW r \in Requests, Begin(r) \/ GiveUp(r) \/ Claim(r) \/ Get(r) \/ Put(r) \/ Done(r)
      PROVE  Goal
  BY <1>1 DEF Begin, GiveUp, Claim, Get, Put, Done, guestVars
<1>2. ASSUME NEW r \in Requests, Create(r) \/ Forget(r) \/ Resolve(r) \/ Send(r) \/ Apply(r) \/
             Fail(r)
      PROVE  Goal
  BY <1>2
<1>3. ASSUME NEW s \in Settings, SetPolicy(s) PROVE Goal
  BY <1>3 DEF SetPolicy, guestVars
<1>4. ASSUME NEW a \in Apps, ConnectApp(a) \/ Authorise(a) \/ DisconnectApp(a) \/ EraseRevoke(a)
      PROVE  Goal
  BY <1>4 DEF ConnectApp, Authorise, DisconnectApp, EraseRevoke, guestVars
<1>5. CASE SavePolicy \/ StaleApps \/ HeldApps \/ ClaimRunsOut \/ EraseList \/ EraseRefused \/
           EraseRow \/ EraseFails
  BY <1>5
     DEF SavePolicy, StaleApps, HeldApps, ClaimRunsOut, EraseList, EraseRefused, EraseRow,
         EraseFails, guestVars
<1>6. CASE ErasePurge \/ EraseForget \/ StopMachine \/ HostRestart
  BY <1>6
<1>7. CASE Guest
  BY <1>7, GuestKeeps
<1>8. CASE UNCHANGED vars
  BY <1>8 DEF vars, people, guestVars
<1> QED
  BY <1>1, <1>2, <1>3, <1>4, <1>5, <1>6, <1>7, <1>8 DEF Next

\* A request that is about to create the machine, with a claim forgotten by
\* nobody, was so before, or has just forgotten the claim itself.
LEMMA CreateMoves ==
  ASSUME AppsTypes, [Next]_vars, NEW q \in Requests, req'[q].pc = "create", req'[q].age = "own"
  PROVE  \/ req[q].pc = "create" /\ req[q].age = "own"
         \/ Forget(q)
<1> DEFINE Goal == (req[q].pc = "create" /\ req[q].age = "own") \/ Forget(q)
<1>0. req \in [Requests -> ReqStruct] /\ req'[q].pc = "create" /\ req'[q].age = "own"
  BY DEF AppsTypes
<1>a. ASSUME req'[q] = req[q] PROVE Goal
  BY <1>0, <1>a
<1>1. ASSUME NEW r \in Requests, Begin(r) \/ GiveUp(r) \/ Claim(r)
      PROVE  Goal
  <2>1. CASE q # r
    <3>1. req'[q] = req[q]
      BY <1>1, <1>0, <2>1 DEF Begin, GiveUp, Claim, Go, Idle
    <3> QED
      BY <1>a, <3>1
  <2>2. CASE q = r
    <3>1. req'[q].pc # "create"
      BY <1>1, <1>0, <2>2, EmptyTypes DEF Begin, GiveUp, Claim, Go, Idle, ReqStruct
    <3> QED
      BY <1>0, <3>1
  <2> QED
    BY <2>1, <2>2
<1>2. ASSUME NEW r \in Requests, Create(r) PROVE Goal
  <2>1. CASE q # r
    <3>1. req'[q] = req[q]
      BY <1>2, <1>0, <2>1 DEF Create, Go
    <3> QED
      BY <1>a, <3>1
  <2>2. CASE q = r
    <3>1. req'[q].pc # "create"
      BY <1>2, <1>0, <2>2, EmptyTypes DEF Create, Go, ReqStruct
    <3> QED
      BY <1>0, <3>1
  <2> QED
    BY <2>1, <2>2
<1>3. ASSUME NEW r \in Requests, Get(r) \/ Put(r) \/ Send(r) \/ Apply(r)
      PROVE  Goal
  <2>1. CASE q # r
    <3>1. req'[q] = req[q]
      BY <1>3, <1>0, <2>1 DEF Get, Put, Send, Apply, Go
    <3> QED
      BY <1>a, <3>1
  <2>2. CASE q = r
    <3>1. req'[q].pc # "create"
      BY <1>3, <1>0, <2>2, EmptyTypes DEF Get, Put, Send, Apply, Go, ReqStruct
    <3> QED
      BY <1>0, <3>1
  <2> QED
    BY <2>1, <2>2
<1>4. ASSUME NEW r \in Requests, Resolve(r) PROVE Goal
  <2>1. CASE q # r
    BY <1>4, <1>0, <1>a, <2>1, ResolveIs
  <2>2. CASE q = r
    BY <1>4, <1>0, <2>2, ResolveIs
  <2> QED
    BY <2>1, <2>2
<1>5. ASSUME NEW r \in Requests, Forget(r) PROVE Goal
  <2>1. CASE q = r
    BY <1>5, <2>1
  <2>2. CASE q # r
    <3>1. req'[q].pc = req[q].pc /\ req'[q].age = IF Own(q) THEN "forgotten" ELSE req[q].age
      BY <1>5, <1>0, <2>2, AgedIs DEF Forget
    <3> QED
      BY <1>0, <3>1
  <2> QED
    BY <2>1, <2>2
<1>6. ASSUME NEW r \in Requests, Done(r) \/ Fail(r)
      PROVE  Goal
  <2>1. req' = [Aged("forgotten") EXCEPT ![r] = NoReq]
    BY <1>6 DEF Done, Fail, Ended
  <2>2. q # r
    BY <1>0, <2>1, AgedIs, EmptyTypes
  <2>3. req'[q].pc = req[q].pc /\ req'[q].age = IF Own(q) THEN "forgotten" ELSE req[q].age
    BY <1>0, <2>1, <2>2, AgedIs
  <2> QED
    BY <1>0, <2>3
<1>7. ASSUME NEW s \in Settings, SetPolicy(s) PROVE Goal
  BY <1>7, <1>a DEF SetPolicy
<1>8. ASSUME NEW a \in Apps, ConnectApp(a) \/ Authorise(a) \/ DisconnectApp(a) \/ EraseRevoke(a)
      PROVE  Goal
  BY <1>8, <1>a DEF ConnectApp, Authorise, DisconnectApp, EraseRevoke
<1>9. CASE SavePolicy \/ StaleApps \/ HeldApps \/ EraseList \/ EraseRefused \/ EraseRow \/
           EraseFails
  BY <1>9, <1>a
     DEF SavePolicy, StaleApps, HeldApps, EraseList, EraseRefused, EraseRow, EraseFails
<1>10. CASE ClaimRunsOut
  <2>1. UNCHANGED req \/ req' = Aged("late")
    BY <1>10 DEF ClaimRunsOut
  <2> QED
    BY <1>0, <1>a, <2>1, AgedIs
<1>11. CASE EraseForget
  BY <1>11, <1>0, AgedIs DEF EraseForget
<1>12. CASE ErasePurge
  BY <1>12, <1>0, PurgedIs DEF ErasePurge
<1>13. CASE StopMachine
  BY <1>13, <1>0, CutIs DEF StopMachine
<1>14. CASE HostRestart
  BY <1>14, <1>0, EmptyTypes DEF HostRestart
<1>15. CASE Guest
  BY <1>15, <1>a, GuestKeeps
<1>16. CASE UNCHANGED vars
  BY <1>16, <1>a DEF vars, people, guestVars
<1> QED
  BY <1>1, <1>2, <1>3, <1>4, <1>5, <1>6, <1>7, <1>8, <1>9, <1>10, <1>11, <1>12, <1>13,
     <1>14, <1>15, <1>16
     DEF Next

\* Only doneApps settles a claim.
LEMMA SettledMoves ==
  ASSUME AppsTypes, [Next]_vars, settled'
  PROVE  settled \/ \E r \in Requests : Done(r)
<1> DEFINE Goal == settled \/ \E r \in Requests : Done(r)
<1>0. claim \in ClaimStruct /\ claim'.is = "pushed"
  BY DEF AppsTypes, settled
<1>a. ASSUME claim'.is = claim.is PROVE Goal
  BY <1>0, <1>a DEF settled
<1>1. ASSUME NEW r \in Requests, Begin(r) \/ Create(r) \/ GiveUp(r) \/ Get(r) \/ Put(r) \/
             Resolve(r) \/ Send(r) \/ Apply(r)
      PROVE  Goal
  BY <1>1, <1>a DEF Begin, Create, GiveUp, Get, Put, Resolve, Send, Apply
<1>2. ASSUME NEW r \in Requests, Claim(r) PROVE Goal
  BY <1>2, <1>0, <1>a DEF Claim, InFlight
<1>3. ASSUME NEW r \in Requests, Forget(r) \/ Fail(r)
      PROVE  Goal
  BY <1>3, <1>0 DEF Forget, Fail, NoClaim
<1>4. ASSUME NEW r \in Requests, Done(r) PROVE Goal
  BY <1>4
<1>5. ASSUME NEW s \in Settings, SetPolicy(s) PROVE Goal
  BY <1>5, <1>a DEF SetPolicy
<1>6. ASSUME NEW a \in Apps, ConnectApp(a) \/ Authorise(a) \/ EraseRevoke(a)
      PROVE  Goal
  BY <1>6, <1>a DEF ConnectApp, Authorise, EraseRevoke
<1>7. ASSUME NEW a \in Apps, DisconnectApp(a) PROVE Goal
  BY <1>7, <1>0, <1>a DEF DisconnectApp, Notice, ClaimStruct
<1>8. CASE SavePolicy \/ EraseList \/ EraseRefused \/ ErasePurge \/ EraseRow \/ EraseFails \/
           StopMachine
  BY <1>8, <1>a
     DEF SavePolicy, EraseList, EraseRefused, ErasePurge, EraseRow, EraseFails, StopMachine
<1>9. CASE StaleApps \/ HeldApps \/ ClaimRunsOut
  BY <1>9, <1>0, <1>a DEF StaleApps, HeldApps, ClaimRunsOut, Stale, Notice, ClaimStruct
<1>10. CASE EraseForget \/ HostRestart
  BY <1>10, <1>0 DEF EraseForget, HostRestart, NoClaim
<1>11. CASE Guest
  BY <1>11, <1>a, GuestKeeps
<1>12. CASE UNCHANGED vars
  BY <1>12, <1>a DEF vars, people, guestVars
<1> QED
  BY <1>1, <1>2, <1>3, <1>4, <1>5, <1>6, <1>7, <1>8, <1>9, <1>10, <1>11, <1>12 DEF Next

-----------------------------------------------------------------------------
(* TicketInv.                                                              *)

\* A push that no claim stands for leaves a stray, so what leaves none owns.
LEMMA StrayOwns ==
  ASSUME NEW r, Stray(r), "stray" \notin missed'
  PROVE  req[r].age = "own"
BY DEF Stray

\* The steps after which nothing is pushed and nobody pushes.
LEMMA NothingStands ==
  ASSUME AppsTypes,
         \/ \E r \in Requests : Forget(r) \/ Fail(r)
         \/ EraseForget \/ HostRestart
  PROVE  ~ settled' /\ \A q \in Requests : ~ Own(q)'
<1>1. \A q \in Requests : ~ Own(q)'
  BY NoneOwns
<1>2. claim'.is \in {"none", "failed"}
  BY DEF Forget, Fail, EraseForget, HostRestart, NoClaim
<1> QED
  BY <1>1, <1>2 DEF settled

\* An erased machine stays away until somebody forgets its claim to boot one.
LEMMA GoneKept ==
  ASSUME AppsTypes, [Next]_vars, "stray" \notin missed', Gone, ~ \E r \in Requests : Forget(r)
  PROVE  Gone'
<1>1. \A q \in Requests : req'[q].pc = "create" => req'[q].age # "own"
  BY CreateMoves DEF Gone
<1>2. ~ vm /\ \A r \in Requests : ~ (Send(r) \/ Apply(r) \/ StopMachine) \/ ~ vm'
  BY DEF Gone, Send, Apply, StopMachine
<1>3. ASSUME NEW r \in Requests, Create(r) PROVE FALSE
  <2>1. req[r].age = "own" /\ req[r].pc = "create"
    BY <1>3, StrayOwns DEF Create
  <2> QED
    BY <2>1 DEF Gone
<1>4. ASSUME NEW r \in Requests, Resolve(r) \/ Send(r) \/ Apply(r) \/ Fail(r) PROVE vm' = vm
  BY <1>4 DEF Resolve, Send, Apply, Fail
<1>5. EraseForget \/ HostRestart \/ ErasePurge => ~ vm'
  BY <1>2 DEF EraseForget, HostRestart, ErasePurge
<1>6. ~ StopMachine
  BY <1>2 DEF StopMachine
<1>7. ~ vm'
  BY <1>2, <1>3, <1>4, <1>5, <1>6, MachineMoves
<1> QED
  BY <1>1, <1>7 DEF Gone

\* A purge leaves nobody with a claim who could boot the machine again.
LEMMA PurgeIsGone ==
  ASSUME AppsTypes, ErasePurge
  PROVE  Gone'
<1>1. ~ vm' /\ req' = Purged
  BY DEF ErasePurge
<1>2. \A q \in Requests : req'[q].pc = "create" => req'[q].age # "own"
  BY <1>1, PurgedIs DEF AppsTypes
<1> QED
  BY <1>1, <1>2 DEF Gone

\* What was found of the machine, served or gone, is found after a step that is
\* neither a push's nor the claim's end.
LEMMA LandedKept ==
  ASSUME AppsTypes, [Next]_vars, "stray" \notin missed', Landed \/ Gone,
         ~ \E r \in Requests : Forget(r) \/ Fail(r) \/ Resolve(r) \/ Send(r) \/ Apply(r),
         ~ EraseForget, ~ HostRestart
  PROVE  Landed' \/ Gone'
<1>1. CASE Gone
  BY <1>1, GoneKept
<1>2. CASE ErasePurge
  BY <1>2, PurgeIsGone
<1>3. CASE Landed /\ UNCHANGED <<disk, url, actions, vm, route>>
  BY <1>3 DEF Landed
<1>4. ASSUME Landed, NEW r \in Requests, Create(r) PROVE Landed'
  BY <1>4 DEF Landed, Create, Booted, guestVars
<1>5. CASE Landed /\ StopMachine
  BY <1>5 DEF Landed, StopMachine, Booted
<1> QED
  BY <1>1, <1>2, <1>3, <1>4, <1>5, MachineMoves

\* Only one push at a time stands, so nobody overtakes one that does.
LEMMA NobodyOvertakes ==
  ASSUME ClaimInv, "stray" \notin missed', NEW q \in Requests, Own(q), NEW r \in Requests, r # q
  PROVE  ~ (Put(r) \/ Resolve(r) \/ Send(r) \/ Apply(r) \/ Done(r))
<1>1. SUFFICES ASSUME Put(r) \/ Resolve(r) \/ Send(r) \/ Apply(r) \/ Done(r) PROVE FALSE
  OBVIOUS
<1>2. req[r].pc \in Pushing /\ req[r].age = "own"
  BY <1>1, StrayOwns DEF Put, Resolve, Send, Apply, Done, Pushing
<1>3. Own(r)
  BY <1>2 DEF Own, Underway
<1> QED
  BY <1>3 DEF ClaimInv, OnePushAtATime, Own

\* While the claim is settled nobody pushes.
LEMMA SettledAlone ==
  ASSUME ClaimInv, "stray" \notin missed', settled, NEW r \in Requests
  PROVE  ~ (Put(r) \/ Resolve(r) \/ Send(r) \/ Apply(r) \/ Done(r))
<1>1. SUFFICES ASSUME Put(r) \/ Resolve(r) \/ Send(r) \/ Apply(r) \/ Done(r) PROVE FALSE
  OBVIOUS
<1>2. req[r].pc \in Pushing /\ req[r].age = "own"
  BY <1>1, StrayOwns DEF Put, Resolve, Send, Apply, Done, Pushing
<1>3. Own(r)
  BY <1>2 DEF Own, Underway
<1> QED
  BY <1>3 DEF ClaimInv, settled

\* The ticket the machine holds is the one that is served, once a push whose
\* claim stood has been counted (ensureMachine, Register, doneApps).
LEMMA TicketInvStep ==
  ASSUME AppsTypes, ClaimInv, TicketInv, [Next]_vars
  PROVE  TicketInv'
<1> SUFFICES ASSUME "stray" \notin missed'
             PROVE  /\ settled' => Landed' \/ Gone'
                    /\ \A q \in Requests : Own(q)' =>
                         /\ req'[q].pc \in {"send", "apply"} => req'[q].push.url = route' /\ route' # 0
                         /\ req'[q].pc = "apply" => vm' /\ disk'.url = route'
                         /\ req'[q].pc = "done" => Landed' \/ Gone'
  BY DEF TicketInv
<1>0. /\ settled => Landed \/ Gone
      /\ \A q \in Requests : Own(q) =>
           /\ req[q].pc \in {"send", "apply"} => req[q].push.url = route /\ route # 0
           /\ req[q].pc = "apply" => vm /\ disk.url = route
           /\ req[q].pc = "done" => Landed \/ Gone
  BY MissedMoves DEF TicketInv
<1>1. /\ req \in [Requests -> ReqStruct] /\ count \in CountStruct /\ disk \in Pushes
      /\ route \in Nat /\ url \in Nat
  BY DEF AppsTypes
<1>2. ASSUME settled' PROVE Landed' \/ Gone'
  <2>1. /\ ~ \E r \in Requests : Forget(r) \/ Fail(r)
        /\ ~ EraseForget /\ ~ HostRestart
    BY <1>2, NothingStands
  <2>2. CASE settled
    BY <1>0, <2>1, <2>2, LandedKept, SettledAlone
  <2>3. ASSUME NEW r \in Requests, Done(r) PROVE Landed' \/ Gone'
    <3>1. req[r].pc = "done" /\ req[r].age = "own" /\ UNCHANGED <<disk, url, vm, route>>
      BY <2>3, StrayOwns DEF Done, guestVars
    <3>2. Landed \/ Gone
      BY <1>0, <3>1 DEF Own, Underway, Pushing
    <3>3. CASE Landed
      BY <3>1, <3>3 DEF Landed
    <3> QED
      BY <2>1, <3>2, <3>3, GoneKept
  <2> QED
    BY <1>2, <2>2, <2>3, SettledMoves
<1>3. ASSUME NEW q \in Requests, Own(q)'
      PROVE  /\ req'[q].pc \in {"send", "apply"} => req'[q].push.url = route' /\ route' # 0
             /\ req'[q].pc = "apply" => vm' /\ disk'.url = route'
             /\ req'[q].pc = "done" => Landed' \/ Gone'
  <2>1. CASE req'[q].pc \in {"get", "lost"}
    BY <2>1
  <2>2. CASE Own(q) /\ (Get(q) \/ Put(q))
    <3>1. req'[q].pc \in {"put", "resolve"}
      BY <1>1, <2>2 DEF Get, Put, Go, ReqStruct
    <3> QED
      BY <3>1
  <2>3. CASE Own(q) /\ Resolve(q)
    <3>1. req'[q].pc = "send" /\ req'[q].push.url = route' /\ route' = count.tickets + 1
      BY <2>3, ResolveIs
    <3> QED
      BY <1>1, <3>1 DEF CountStruct
  <2>4. CASE Own(q) /\ Send(q)
    <3>1. req[q].pc = "send" /\ req[q].push.url = route /\ route # 0
      BY <1>0, <2>4 DEF Send
    <3>2. /\ req'[q].pc = "apply" /\ req'[q].push = req[q].push
          /\ disk' = req[q].push /\ vm' /\ route' = route
      BY <1>1, <2>4 DEF Send, PutWrite, ReqStruct
    <3> QED
      BY <3>1, <3>2
  <2>5. CASE Own(q) /\ Apply(q)
    <3>1. /\ req[q].pc = "apply" /\ req[q].push.url = route /\ route # 0
          /\ disk.url = route
      BY <1>0, <2>5 DEF Apply
    <3>2. req'[q].pc = "done" /\ url' = req[q].push.url /\ disk' = disk /\ route' = route
      BY <1>1, <2>5 DEF Apply, PutApply, ReqStruct
    <3>3. Landed'
      BY <3>1, <3>2 DEF Landed
    <3> QED
      BY <3>2, <3>3
  <2>6. CASE Own(q) /\ req'[q] = req[q] /\ ~ (Resolve(q) \/ Send(q) \/ Apply(q))
    <3>1. /\ ~ \E r \in Requests : Forget(r) \/ Fail(r)
          /\ ~ EraseForget /\ ~ HostRestart
      BY <1>3, NothingStands
    <3>2. ~ \E r \in Requests : Resolve(r) \/ Send(r) \/ Apply(r)
      BY <2>6, NobodyOvertakes
    <3>3. req'[q].pc = "done" => Landed' \/ Gone'
      BY <1>0, <2>6, <3>1, <3>2, LandedKept
    <3>4. CASE UNCHANGED <<disk, url, actions, vm, route>>
      BY <1>0, <2>6, <3>3, <3>4
    <3>5. ASSUME NEW r \in Requests, Create(r)
          PROVE  route' = route /\ disk' = disk /\ vm'
      BY <3>5 DEF Create, Booted, guestVars
    <3>6. CASE ErasePurge
      <4>1. req'[q].pc # "apply" /\ route' = route
        BY <1>1, <3>6, PurgedIs DEF ErasePurge
      <4> QED
        BY <1>0, <2>6, <3>3, <4>1
    <3>7. CASE StopMachine
      <4>1. req'[q].pc # "apply" /\ route' = route
        BY <1>1, <3>7, CutIs DEF StopMachine
      <4> QED
        BY <1>0, <2>6, <3>3, <4>1
    <3> QED
      BY <1>0, <2>6, <3>1, <3>2, <3>3, <3>4, <3>5, <3>6, <3>7, MachineMoves
  <2> QED
    BY <1>3, <2>1, <2>2, <2>3, <2>4, <2>5, <2>6, PushMoves
<1> QED
  BY <1>2, <1>3

-----------------------------------------------------------------------------
(* AnswerInv.                                                              *)

\* The row is written by a push, by a setting and by the erasure.
LEMMA RowMoves ==
  ASSUME [Next]_vars
  PROVE  \/ row' = row
         \/ \E r \in Requests : Put(r)
         \/ SavePolicy \/ EraseRow \/ EraseFails
<1> DEFINE Goal == \/ row' = row \/ (\E r \in Requests : Put(r))
                   \/ SavePolicy \/ EraseRow \/ EraseFails
<1>1. ASSUME NEW r \in Requests, Begin(r) \/ Forget(r) \/ Create(r) \/ GiveUp(r) \/ Claim(r) \/
             Get(r) \/ Resolve(r) \/ Send(r) \/ Apply(r) \/ Done(r) \/ Fail(r)
      PROVE  Goal
  BY <1>1 DEF Begin, Forget, Create, GiveUp, Claim, Get, Resolve, Send, Apply, Done, Fail
<1>2. ASSUME NEW r \in Requests, Put(r) PROVE Goal
  BY <1>2
<1>3. ASSUME NEW s \in Settings, SetPolicy(s) PROVE Goal
  BY <1>3 DEF SetPolicy
<1>4. ASSUME NEW a \in Apps, ConnectApp(a) \/ Authorise(a) \/ DisconnectApp(a) \/ EraseRevoke(a)
      PROVE  Goal
  BY <1>4 DEF ConnectApp, Authorise, DisconnectApp, EraseRevoke
<1>5. CASE SavePolicy \/ EraseRow \/ EraseFails
  BY <1>5
<1>6. CASE StaleApps \/ HeldApps \/ ClaimRunsOut \/ EraseList \/ EraseRefused \/ ErasePurge \/
           EraseForget \/ StopMachine \/ HostRestart
  BY <1>6
     DEF StaleApps, HeldApps, ClaimRunsOut, EraseList, EraseRefused, ErasePurge,
         EraseForget, StopMachine, HostRestart
<1>7. CASE Guest
  BY <1>7, GuestKeeps
<1>8. CASE UNCHANGED vars
  BY <1>8 DEF vars, people, guestVars
<1> QED
  BY <1>1, <1>2, <1>3, <1>4, <1>5, <1>6, <1>7, <1>8 DEF Next

\* Who has changed the row, and is no push, has still to say so or never will.
LEMMA RowIsTold ==
  ASSUME [Next]_vars, AppsTypes
  PROVE  \/ row' = row
         \/ \E r \in Requests : Put(r)
         \/ Pending' \/ "change" \in missed'
<1>1. erase \in EraseStruct
  BY DEF AppsTypes
<1>2. ASSUME SavePolicy, row' # row PROVE Pending' \/ "change" \in missed'
  BY <1>2 DEF SavePolicy, Untold, Pending, NoTap
<1>3. ASSUME EraseFails, row' # row PROVE "change" \in missed'
  BY <1>3 DEF EraseFails, Untold
<1>4. ASSUME EraseRow PROVE Pending'
  BY <1>1, <1>4 DEF EraseRow, Pending, EraseStruct
<1> QED
  BY <1>2, <1>3, <1>4, RowMoves

\* Who has changed the row says so, or starts over (staleApps, forgetMachine).
LEMMA PendingMoves ==
  ASSUME AppsTypes, [Next]_vars, ~ Pending'
  PROVE  ~ Pending \/ StaleApps \/ EraseForget \/ HostRestart
<1> DEFINE Goal == ~ Pending \/ StaleApps \/ EraseForget \/ HostRestart
<1>0. tap'.pc # "stale" /\ erase'.pc # "forget" /\ erase \in EraseStruct
  BY DEF Pending, AppsTypes
<1>a. ASSUME tap'.pc = tap.pc \/ tap.pc = "idle",
             erase'.pc = erase.pc \/ erase.pc # "forget"
      PROVE  Goal
  BY <1>0, <1>a DEF Pending
<1>3. ASSUME NEW r \in Requests, Begin(r) PROVE Goal
  BY <1>3, <1>0, <1>a, UsedIs DEF Begin
<1>4. ASSUME NEW r \in Requests, Forget(r) \/ Create(r) \/ GiveUp(r) \/ Claim(r) \/ Get(r) \/
             Put(r) \/ Resolve(r) \/ Send(r) \/ Apply(r) \/ Done(r) \/ Fail(r)
      PROVE  Goal
  BY <1>4, <1>0, <1>a
     DEF Forget, Create, GiveUp, Claim, Get, Put, Resolve, Send, Apply, Done, Fail, people
<1>5. ASSUME NEW s \in Settings, SetPolicy(s) PROVE Goal
  BY <1>5, <1>0, <1>a DEF SetPolicy, people
<1>6. ASSUME NEW a \in Apps, ConnectApp(a) \/ Authorise(a)
      PROVE  Goal
  BY <1>6, <1>0, <1>a, UsedIs DEF ConnectApp, Authorise
<1>7. ASSUME NEW a \in Apps, DisconnectApp(a) PROVE Goal
  BY <1>7, <1>0, <1>a DEF DisconnectApp, people
<1>8. ASSUME NEW a \in Apps, EraseRevoke(a) PROVE Goal
  BY <1>8, <1>0, <1>a DEF EraseRevoke, EraseStruct
<1>9. CASE SavePolicy
  BY <1>9, <1>0, UsedIs DEF SavePolicy, Pending
<1>15. CASE EraseRow
  BY <1>15, <1>0 DEF EraseRow, EraseStruct
<1>10. CASE StaleApps \/ EraseForget \/ HostRestart
  BY <1>10
<1>11. CASE HeldApps \/ ClaimRunsOut
  BY <1>11, <1>0, <1>a DEF HeldApps, ClaimRunsOut, people
<1>12. CASE EraseList \/ EraseRefused \/ ErasePurge \/ EraseFails \/ StopMachine
  BY <1>12, <1>0, <1>a
     DEF EraseList, EraseRefused, ErasePurge, EraseFails, StopMachine, people
<1>13. CASE Guest
  BY <1>13, <1>a, GuestKeeps
<1>14. CASE UNCHANGED vars
  BY <1>14, <1>0, <1>a DEF vars, people, guestVars
<1> QED
  BY <1>3, <1>4, <1>5, <1>6, <1>7, <1>8, <1>9, <1>10, <1>11, <1>12, <1>13, <1>14, <1>15 DEF Next

\* A claim that is up to date was so before, or is of a push that has just ended.
LEMMA FreshMoves ==
  ASSUME AppsTypes, [Next]_vars, settled', ~ claim'.due
  PROVE  (settled /\ ~ claim.due) \/ \E r \in Requests : Done(r)
<1> DEFINE Goal == (settled /\ ~ claim.due) \/ \E r \in Requests : Done(r)
<1>0. claim \in ClaimStruct /\ claim'.is = "pushed" /\ ~ claim'.due
  BY DEF AppsTypes, settled
<1>a. ASSUME claim' = claim PROVE Goal
  BY <1>0, <1>a DEF settled
<1>b. ASSUME claim' = [claim EXCEPT !.due = TRUE] PROVE Goal
  BY <1>0, <1>b DEF ClaimStruct
<1>1. ASSUME NEW r \in Requests, Begin(r) \/ Create(r) \/ GiveUp(r) \/ Get(r) \/ Put(r) \/
             Resolve(r) \/ Send(r) \/ Apply(r)
      PROVE  Goal
  BY <1>1, <1>a DEF Begin, Create, GiveUp, Get, Put, Resolve, Send, Apply
<1>2. ASSUME NEW r \in Requests, Claim(r) PROVE Goal
  BY <1>2, <1>0, <1>a DEF Claim, InFlight
<1>3. ASSUME NEW r \in Requests, Forget(r) \/ Fail(r)
      PROVE  Goal
  BY <1>3, <1>0 DEF Forget, Fail, NoClaim
<1>4. ASSUME NEW r \in Requests, Done(r) PROVE Goal
  BY <1>4
<1>5. ASSUME NEW s \in Settings, SetPolicy(s) PROVE Goal
  BY <1>5, <1>a DEF SetPolicy
<1>6. ASSUME NEW a \in Apps, ConnectApp(a) \/ Authorise(a) \/ EraseRevoke(a)
      PROVE  Goal
  BY <1>6, <1>a DEF ConnectApp, Authorise, EraseRevoke
<1>7. ASSUME NEW a \in Apps, DisconnectApp(a) PROVE Goal
  BY <1>7, <1>a, <1>b DEF DisconnectApp, Notice
<1>8. CASE SavePolicy \/ EraseList \/ EraseRefused \/ ErasePurge \/ EraseRow \/ EraseFails \/
           StopMachine
  BY <1>8, <1>a
     DEF SavePolicy, EraseList, EraseRefused, ErasePurge, EraseRow, EraseFails, StopMachine
<1>9. CASE StaleApps \/ HeldApps \/ ClaimRunsOut
  BY <1>9, <1>a, <1>b DEF StaleApps, HeldApps, ClaimRunsOut, Stale, Notice
<1>10. CASE EraseForget \/ HostRestart
  BY <1>10, <1>0 DEF EraseForget, HostRestart, NoClaim
<1>11. CASE Guest
  BY <1>11, <1>a, GuestKeeps
<1>12. CASE UNCHANGED vars
  BY <1>12, <1>a DEF vars, people, guestVars
<1> QED
  BY <1>1, <1>2, <1>3, <1>4, <1>5, <1>6, <1>7, <1>8, <1>9, <1>10, <1>11, <1>12 DEF Next

\* An answer the machine holds is kept like the ticket is.
LEMMA ToldKept ==
  ASSUME AppsTypes, [Next]_vars, "stray" \notin missed', Told \/ Gone, row' = row,
         ~ \E r \in Requests : Forget(r) \/ Fail(r) \/ Resolve(r) \/ Send(r) \/ Apply(r),
         ~ EraseForget, ~ HostRestart
  PROVE  Told' \/ Gone'
<1>1. CASE Gone
  BY <1>1, GoneKept
<1>2. CASE ErasePurge
  BY <1>2, PurgeIsGone
<1>3. CASE Told /\ UNCHANGED <<disk, url, actions, vm, route>>
  BY <1>3 DEF Told, Says
<1>4. ASSUME Told, NEW r \in Requests, Create(r) PROVE Told'
  BY <1>4 DEF Told, Says, Create, Booted, guestVars
<1>5. CASE Told /\ StopMachine
  BY <1>5 DEF Told, Says, StopMachine, Booted
<1> QED
  BY <1>1, <1>2, <1>3, <1>4, <1>5, MachineMoves

\* An answer that is not out of date is what the settings say now: who changes
\* the row puts the pushed answer out of date, or is put down as missed until the
\* next push reads the row (savePolicy, staleLocked, claimApps).
LEMMA AnswerInvStep ==
  ASSUME AppsTypes, ClaimInv, AnswerInv, [Next]_vars
  PROVE  AnswerInv'
<1> DEFINE Fine == settled' /\ ~ claim'.due => Told' \/ Gone'
           Sound(q) == /\ req'[q].pc = "resolve" => req'[q].row.policy = row'.policy
                       /\ req'[q].pc \in {"send", "apply"} => Says(req'[q].push.actions, row'.policy)
                       /\ req'[q].pc = "apply" => vm' /\ Says(disk'.actions, row'.policy)
                       /\ req'[q].pc = "done" => Told' \/ Gone'
<1> SUFFICES ASSUME missed' = {}, ~ Pending'
             PROVE  Fine /\ \A q \in Requests : Own(q)' => Sound(q)
  BY DEF AnswerInv, Says
<1>0. "stray" \notin missed' /\ "change" \notin missed'
  OBVIOUS
<1>1. /\ req \in [Requests -> ReqStruct] /\ disk \in Pushes /\ claim \in ClaimStruct
      /\ row \in Rows
  BY DEF AppsTypes
<1>2. CASE EraseForget \/ HostRestart
  BY <1>2, NothingStands
<1>5. ASSUME claim' = InFlight, claim.is = "none" \/ claim.due, NEW r \in Requests, Claim(r)
      PROVE  Fine /\ \A q \in Requests : Own(q)' => Sound(q)
  <2>1. \A q \in Requests : ~ Own(q)
    BY <1>5 DEF ClaimInv
  <2>2. req' = [req EXCEPT ![r].pc = "get"]
    BY <1>5 DEF Claim, Go
  <2>3. \A q \in Requests : Own(q)' => q = r
    BY <1>1, <2>1, <2>2 DEF Own, Underway
  <2>4. req'[r].pc = "get"
    BY <1>1, <2>2 DEF ReqStruct
  <2>5. ~ settled'
    BY <1>5 DEF settled, InFlight
  <2> QED
    BY <2>3, <2>4, <2>5
<1>3. CASE StaleApps
  <2>1. claim.is # "inflight" /\ req' = req /\ Stale
    <3>1. Stale /\ req' = req
      BY <1>3 DEF StaleApps
    <3> QED
      BY <3>1 DEF Stale, Untold
  <2>2. \A q \in Requests : ~ Own(q)'
    BY <2>1 DEF ClaimInv, Own, Underway
  <2>3. settled' => claim'.due
    BY <1>1, <2>1 DEF Stale, settled, ClaimStruct
  <2> QED
    BY <2>2, <2>3
<1>4. CASE missed = {} /\ ~ Pending /\ ~ StaleApps /\ ~ EraseForget /\ ~ HostRestart
  <2>0. /\ settled /\ ~ claim.due => Told \/ Gone
        /\ \A q \in Requests : Own(q) =>
             /\ req[q].pc = "resolve" => req[q].row.policy = row.policy
             /\ req[q].pc \in {"send", "apply"} => Says(req[q].push.actions, row.policy)
             /\ req[q].pc = "apply" => vm /\ Says(disk.actions, row.policy)
             /\ req[q].pc = "done" => Told \/ Gone
    BY <1>4 DEF AnswerInv
  <2>1. ASSUME settled', ~ claim'.due PROVE Told' \/ Gone'
    <3>1. ~ \E r \in Requests : Forget(r) \/ Fail(r)
      BY <2>1, NothingStands
    <3>2. CASE settled /\ ~ claim.due
      <4>1. ~ \E r \in Requests : Put(r) \/ Resolve(r) \/ Send(r) \/ Apply(r)
        BY <1>0, <3>2, SettledAlone
      <4>2. row' = row
        BY <1>0, <4>1, RowIsTold
      <4> QED
        BY <1>0, <1>4, <2>0, <3>1, <3>2, <4>1, <4>2, ToldKept
    <3>3. ASSUME NEW r \in Requests, Done(r) PROVE Told' \/ Gone'
      <4>1. /\ req[r].pc = "done" /\ req[r].age = "own"
            /\ UNCHANGED <<disk, url, actions, vm, route, row>>
        BY <1>0, <3>3, StrayOwns DEF Done, guestVars
      <4>2. Told \/ Gone
        BY <2>0, <4>1 DEF Own, Underway, Pushing
      <4>3. CASE Told
        BY <4>1, <4>3 DEF Told, Says
      <4> QED
        BY <1>0, <3>1, <4>2, <4>3, GoneKept
    <3> QED
      BY <2>1, <3>2, <3>3, FreshMoves
  <2>2. ASSUME NEW q \in Requests, Own(q)' PROVE Sound(q)
    <3>1. CASE req'[q].pc \in {"get", "lost"}
      BY <3>1
    <3>2. CASE Own(q) /\ Get(q)
      <4>1. row' = row
        BY <3>2 DEF Get
      <4>2. CASE row.session # 0
        <5>1. req' = [req EXCEPT ![q].row = row, ![q].pc = "resolve"]
          BY <3>2, <4>2 DEF Get
        <5>2. req'[q].pc = "resolve" /\ req'[q].row = row
          BY <1>1, <5>1 DEF ReqStruct
        <5> QED
          BY <4>1, <5>2
      <4>3. CASE row.session = 0
        <5>1. req' = [req EXCEPT ![q].row = NewSession(row.policy), ![q].pc = "put"]
          BY <3>2, <4>3 DEF Get
        <5>2. req'[q].pc = "put"
          BY <1>1, <5>1 DEF ReqStruct
        <5> QED
          BY <5>2
      <4> QED
        BY <4>2, <4>3
    <3>3. CASE Own(q) /\ Put(q)
      <4>1. req'[q].pc = "resolve" /\ req'[q].row = req[q].row /\ row' = req[q].row
        BY <1>1, <3>3, GoIs DEF Put
      <4> QED
        BY <4>1
    <3>4. CASE Own(q) /\ Resolve(q)
      <4>1. req[q].row.policy = row.policy /\ row' = row
        BY <2>0, <3>4 DEF Resolve
      <4>2. req'[q].pc = "send" /\ Says(req'[q].push.actions, req[q].row.policy)
        BY <3>4, ResolveIs, ResolvedIs
      <4> QED
        BY <4>1, <4>2
    <3>5. CASE Own(q) /\ Send(q)
      <4>1. Says(req[q].push.actions, row.policy)
        BY <2>0, <3>5 DEF Send
      <4>2. /\ req'[q].pc = "apply" /\ req'[q].push = req[q].push
            /\ disk' = req[q].push /\ vm' /\ row' = row
        BY <1>1, <3>5 DEF Send, PutWrite, ReqStruct
      <4> QED
        BY <4>1, <4>2
    <3>6. CASE Own(q) /\ Apply(q)
      <4>1. Says(req[q].push.actions, row.policy) /\ Says(disk.actions, row.policy)
        BY <2>0, <3>6 DEF Apply
      <4>2. /\ req'[q].pc = "done" /\ actions' = req[q].push.actions
            /\ disk' = disk /\ row' = row
        BY <1>1, <3>6 DEF Apply, PutApply, ReqStruct
      <4>3. Told'
        BY <4>1, <4>2 DEF Told, Says
      <4> QED
        BY <4>2, <4>3
    <3>7. CASE Own(q) /\ req'[q] = req[q] /\ ~ (Put(q) \/ Resolve(q) \/ Send(q) \/ Apply(q))
      <4>1. ~ \E r \in Requests : Forget(r) \/ Fail(r)
        BY <2>2, NothingStands
      <4>2. ~ \E r \in Requests : Put(r) \/ Resolve(r) \/ Send(r) \/ Apply(r)
        BY <1>0, <3>7, NobodyOvertakes
      <4>3. row' = row
        BY <1>0, <4>2, RowIsTold
      <4>4. req'[q].pc = "done" => Told' \/ Gone'
        BY <1>0, <1>4, <2>0, <3>7, <4>1, <4>2, <4>3, ToldKept
      <4>5. CASE UNCHANGED <<disk, url, actions, vm, route>>
        BY <2>0, <3>7, <4>3, <4>4, <4>5
      <4>6. ASSUME NEW r \in Requests, Create(r)
            PROVE  disk' = disk /\ vm'
        BY <4>6 DEF Create, Booted, guestVars
      <4>7. CASE ErasePurge \/ StopMachine
        <5>1. req'[q].pc # "apply"
          BY <1>1, <4>7, PurgedIs, CutIs DEF ErasePurge, StopMachine
        <5> QED
          BY <2>0, <3>7, <4>3, <4>4, <5>1
      <4> QED
        BY <1>4, <2>0, <3>7, <4>1, <4>2, <4>3, <4>4, <4>5, <4>6, <4>7, MachineMoves
    <3> QED
      BY <2>2, <3>1, <3>2, <3>3, <3>4, <3>5, <3>6, <3>7, PushMoves
  <2> QED
    BY <2>1, <2>2
<1>6. missed = {} \/ \E r \in Requests : Claim(r) /\ claim' = InFlight
                                          /\ (claim.is = "none" \/ claim.due)
  BY MissedMoves
<1> QED
  BY <1>2, <1>3, <1>4, <1>5, <1>6, PendingMoves

-----------------------------------------------------------------------------
(* EarnedInv.                                                              *)

\* The settings the person has saved stay saved (setAppPolicy).
LEMMA ChosenGrows ==
  ASSUME [Next]_vars
  PROVE  chosen \subseteq chosen'
<1> DEFINE Goal == chosen \subseteq chosen'
<1>1. ASSUME NEW r \in Requests, Begin(r) \/ Forget(r) \/ Create(r) \/ GiveUp(r) \/ Claim(r) \/
             Get(r) \/ Put(r) \/ Resolve(r) \/ Send(r) \/ Apply(r) \/ Done(r) \/ Fail(r)
      PROVE  Goal
  BY <1>1
     DEF Begin, Forget, Create, GiveUp, Claim, Get, Put, Resolve, Send, Apply, Done, Fail,
         people
<1>2. ASSUME NEW s \in Settings, SetPolicy(s) PROVE Goal
  BY <1>2 DEF SetPolicy, people
<1>3. ASSUME NEW a \in Apps, ConnectApp(a) \/ Authorise(a) \/ DisconnectApp(a) \/ EraseRevoke(a)
      PROVE  Goal
  BY <1>3 DEF ConnectApp, Authorise, DisconnectApp, EraseRevoke, people
<1>4. CASE SavePolicy \/ StaleApps \/ HeldApps \/ ClaimRunsOut \/ EraseList \/ EraseRefused \/
           ErasePurge \/ EraseRow \/ EraseForget \/ EraseFails \/ StopMachine \/ HostRestart
  BY <1>4
     DEF SavePolicy, StaleApps, HeldApps, ClaimRunsOut, EraseList, EraseRefused, ErasePurge,
         EraseRow, EraseForget, EraseFails, StopMachine, HostRestart, people
<1>5. CASE Guest
  BY <1>5, GuestKeeps
<1>6. CASE UNCHANGED vars
  BY <1>6 DEF vars, people, guestVars
<1> QED
  BY <1>1, <1>2, <1>3, <1>4, <1>5, <1>6 DEF Next

\* The row a setting is merged into is the one that was read, with that answer.
LEMMA TapMoves ==
  ASSUME [Next]_vars
  PROVE  \/ tap'.row = tap.row
         \/ tap'.row = NoRow
         \/ \E s \in Settings : SetPolicy(s)
<1> DEFINE Goal == \/ tap'.row = tap.row \/ tap'.row = NoRow
                   \/ \E s \in Settings : SetPolicy(s)
<1>1. ASSUME NEW r \in Requests, Begin(r) \/ Forget(r) \/ Create(r) \/ GiveUp(r) \/ Claim(r) \/
             Get(r) \/ Put(r) \/ Resolve(r) \/ Send(r) \/ Apply(r) \/ Done(r) \/ Fail(r)
      PROVE  Goal
  BY <1>1
     DEF Begin, Forget, Create, GiveUp, Claim, Get, Put, Resolve, Send, Apply, Done, Fail,
         people
<1>2. ASSUME NEW s \in Settings, SetPolicy(s) PROVE Goal
  BY <1>2
<1>3. ASSUME NEW a \in Apps, ConnectApp(a) \/ Authorise(a) \/ EraseRevoke(a)
      PROVE  Goal
  BY <1>3 DEF ConnectApp, Authorise, EraseRevoke, people
<1>4. ASSUME NEW a \in Apps, DisconnectApp(a) PROVE Goal
  BY <1>4 DEF DisconnectApp, NoTap
<1>5. CASE SavePolicy \/ StaleApps \/ HostRestart
  BY <1>5 DEF SavePolicy, DisconnectApp, StaleApps, HostRestart, NoTap
<1>6. CASE HeldApps \/ ClaimRunsOut \/ EraseList \/ EraseRefused \/ ErasePurge \/ EraseRow \/
           EraseForget \/ EraseFails \/ StopMachine
  BY <1>6
     DEF HeldApps, ClaimRunsOut, EraseList, EraseRefused, ErasePurge, EraseRow, EraseForget,
         EraseFails, StopMachine, people
<1>7. CASE Guest
  BY <1>7, GuestKeeps
<1>8. CASE UNCHANGED vars
  BY <1>8 DEF vars, people, guestVars
<1> QED
  BY <1>1, <1>2, <1>3, <1>4, <1>5, <1>6, <1>7, <1>8 DEF Next

\* A request carries the row it read and the push it made of it, and no others.
LEMMA CarriedMoves ==
  ASSUME AppsTypes, [Next]_vars, NEW q \in Requests
  PROVE  /\ \/ req'[q].row \in {req[q].row, NoRow}
            \/ req'[q].row.policy = row.policy
         /\ \/ req'[q].push \in {req[q].push, NoPush}
            \/ Resolve(q)
<1> DEFINE Goal == /\ \/ req'[q].row \in {req[q].row, NoRow}
                      \/ req'[q].row.policy = row.policy
                   /\ \/ req'[q].push \in {req[q].push, NoPush}
                      \/ Resolve(q)
<1>0. req \in [Requests -> ReqStruct]
  BY DEF AppsTypes
<1>a. ASSUME req'[q].row = req[q].row, req'[q].push = req[q].push PROVE Goal
  BY <1>a
<1>b. ASSUME req'[q] = NoReq PROVE Goal
  BY <1>b, EmptyTypes
<1>1. ASSUME NEW r \in Requests, Begin(r) \/ Create(r) \/ Put(r)
      PROVE  Goal
  BY <1>1, <1>0, <1>a, GoIs DEF Begin, Create, Put
<1>2. ASSUME NEW r \in Requests, GiveUp(r) PROVE Goal
  BY <1>2, <1>0, <1>a, <1>b DEF GiveUp, Idle
<1>3. ASSUME NEW r \in Requests, Claim(r) PROVE Goal
  BY <1>3, <1>0, <1>a, <1>b, GoIs DEF Claim, Idle
<1>4. ASSUME NEW r \in Requests, Forget(r) PROVE Goal
  <2>1. req' = [Aged("forgotten") EXCEPT ![r].pc = "create"]
    BY <1>4 DEF Forget
  <2>2. /\ req'[q].row = Aged("forgotten")[q].row
        /\ req'[q].push = Aged("forgotten")[q].push
    BY <1>0, <2>1, AgedIs DEF ReqStruct
  <2> QED
    BY <1>0, <1>a, <2>2, AgedIs
<1>5. ASSUME NEW r \in Requests, Done(r) \/ Fail(r)
      PROVE  Goal
  <2>1. req' = [Aged("forgotten") EXCEPT ![r] = NoReq]
    BY <1>5 DEF Done, Fail, Ended
  <2>2. CASE q = r
    BY <1>0, <1>b, <2>1, <2>2, AgedIs
  <2>3. CASE q # r
    BY <1>0, <1>a, <2>1, <2>3, AgedIs
  <2> QED
    BY <2>2, <2>3
<1>6. ASSUME NEW r \in Requests, Get(r) PROVE Goal
  <2>1. CASE q # r
    BY <1>6, <1>0, <1>a, <2>1 DEF Get
  <2>2. CASE q = r /\ row.session # 0
    <3>1. req' = [req EXCEPT ![q].row = row, ![q].pc = "resolve"]
      BY <1>6, <2>2 DEF Get
    <3>2. req'[q].row = row /\ req'[q].push = req[q].push
      BY <1>0, <3>1 DEF ReqStruct
    <3> QED
      BY <3>2
  <2>3. CASE q = r /\ row.session = 0
    <3>1. req' = [req EXCEPT ![q].row = NewSession(row.policy), ![q].pc = "put"]
      BY <1>6, <2>3 DEF Get
    <3>2. req'[q].row = NewSession(row.policy) /\ req'[q].push = req[q].push
      BY <1>0, <3>1 DEF ReqStruct
    <3> QED
      BY <3>2 DEF NewSession
  <2> QED
    BY <2>1, <2>2, <2>3
<1>7. ASSUME NEW r \in Requests, Resolve(r) PROVE Goal
  <2>1. CASE q # r
    BY <1>7, <1>0, <1>a, <2>1, ResolveIs
  <2>2. CASE q = r
    BY <1>7, <2>2, ResolveIs
  <2> QED
    BY <2>1, <2>2
<1>8. ASSUME NEW r \in Requests, Send(r) PROVE Goal
  BY <1>8, <1>0, <1>a DEF Send, ReqStruct
<1>9. ASSUME NEW r \in Requests, Apply(r) PROVE Goal
  BY <1>9, <1>0 DEF Apply, ReqStruct
<1>10. ASSUME NEW s \in Settings, SetPolicy(s) PROVE Goal
  BY <1>10, <1>a DEF SetPolicy, people
<1>11. ASSUME NEW a \in Apps, ConnectApp(a) \/ Authorise(a) \/ DisconnectApp(a) \/ EraseRevoke(a)
      PROVE  Goal
  BY <1>11, <1>a DEF ConnectApp, Authorise, DisconnectApp, EraseRevoke, people
<1>12. CASE SavePolicy \/ StaleApps \/ HeldApps \/ EraseList \/ EraseRefused \/ EraseRow \/
            EraseFails
  BY <1>12, <1>a
     DEF SavePolicy, StaleApps, HeldApps, EraseList, EraseRefused, EraseRow, EraseFails,
         people
<1>13. CASE ClaimRunsOut \/ EraseForget
  BY <1>13, <1>0, <1>a, AgedIs DEF ClaimRunsOut, EraseForget
<1>14. CASE ErasePurge
  BY <1>14, <1>0, <1>a, PurgedIs DEF ErasePurge
<1>15. CASE StopMachine
  BY <1>15, <1>0, <1>a, CutIs DEF StopMachine
<1>16. CASE HostRestart
  BY <1>16, <1>b DEF HostRestart
<1>17. CASE Guest
  BY <1>17, <1>a, GuestKeeps
<1>18. CASE UNCHANGED vars
  BY <1>18, <1>a DEF vars, people, guestVars
<1> QED
  BY <1>1, <1>2, <1>3, <1>4, <1>5, <1>6, <1>7, <1>8, <1>9, <1>10, <1>11, <1>12, <1>13,
     <1>14, <1>15, <1>16, <1>17, <1>18
     DEF Next

\* What runs unasked is an action of a call, and one the machine's answers let run.
LEMMA RanMoves ==
  ASSUME AppsTypes, [Next]_vars, NEW a \in ran', a \notin ran
  PROVE  ~ ReadOnly(a) /\ a \in DOMAIN actions /\ actions[a] = "auto"
<1> DEFINE Goal == ~ ReadOnly(a) /\ a \in DOMAIN actions /\ actions[a] = "auto"
<1>1. ASSUME NEW r \in Requests, Begin(r) \/ Forget(r) \/ GiveUp(r) \/ Claim(r) \/ Get(r) \/
             Put(r) \/ Resolve(r) \/ Done(r) \/ Fail(r)
      PROVE  Goal
  BY <1>1
     DEF Begin, Forget, GiveUp, Claim, Get, Put, Resolve, Done, Fail, guestVars, Booted,
         PutWrite, PutApply
<1>2. ASSUME NEW r \in Requests, Create(r) \/ Send(r) \/ Apply(r)
      PROVE  Goal
  BY <1>2 DEF Create, Send, Apply, guestVars, Booted, PutWrite, PutApply
<1>3. ASSUME NEW s \in Settings, SetPolicy(s) PROVE Goal
  BY <1>3 DEF SetPolicy, guestVars, Booted, PutWrite, PutApply
<1>4. ASSUME NEW p \in Apps, ConnectApp(p) \/ Authorise(p) \/ DisconnectApp(p) \/ EraseRevoke(p)
      PROVE  Goal
  BY <1>4
     DEF ConnectApp, Authorise, DisconnectApp, EraseRevoke, guestVars, Booted, PutWrite,
         PutApply
<1>5. CASE SavePolicy \/ StaleApps \/ HeldApps \/ ClaimRunsOut \/ EraseList \/ EraseRefused \/
           EraseRow \/ EraseForget \/ EraseFails \/ HostRestart
  BY <1>5
     DEF SavePolicy, StaleApps, HeldApps, ClaimRunsOut, EraseList, EraseRefused, EraseRow,
         EraseForget, EraseFails, HostRestart, guestVars, Booted, PutWrite, PutApply
<1>6. CASE ErasePurge \/ StopMachine
  BY <1>6 DEF ErasePurge, StopMachine, guestVars, Booted, PutWrite, PutApply
<1>7. CASE Guest
  <2>1. CASE UNCHANGED ran
    BY <2>1
  <2>2. ASSUME NEW call \in Calls, NEW allowed \in SUBSET Actions, CallApps(call, allowed)
        PROVE  Goal
    BY <2>2 DEF CallApps, needs
  <2> QED
    BY <1>7, <2>1, <2>2
       DEF Guest, GuestNext, Tools, NoSession, Connected, Repointed, Undialled, ListFails,
           CoolOver, Dialled, Listed, Unlisted
<1>8. CASE UNCHANGED vars
  BY <1>8 DEF vars, people, guestVars, Booted, PutWrite, PutApply
<1> QED
  BY <1>1, <1>2, <1>3, <1>4, <1>5, <1>6, <1>7, <1>8 DEF Next

\* What the person never let run does not run unasked: an answer of "auto" can
\* only be made of a setting that was saved, and no step makes one up (resolved,
\* sessionFor, savePolicy, hook).
LEMMA EarnedInvStep ==
  ASSUME AppsTypes, EarnedInv, [Next]_vars
  PROVE  EarnedInv'
<1> DEFINE Chosen(app, c) ==
             \E s \in chosen' : s.app = app /\ s.capability = c /\ s.answer = "auto"
           Policy(p) == \A app \in Apps, c \in governable : p[app][c] = "auto" => Chosen(app, c)
           Answers(f) == \A a \in DOMAIN f : f[a] = "auto" => ReadOnly(a) \/ Chosen(AppOf[a], kindOf(a))
<1>0. req \in [Requests -> ReqStruct]
  BY DEF AppsTypes
<1>1. \A app, c : Chose(app, c) => Chosen(app, c)
  BY ChosenGrows DEF Chose
<1>2. ASSUME NEW p, EarnedPolicy(p) PROVE Policy(p)
  BY <1>1, <1>2 DEF EarnedPolicy
<1>3. ASSUME NEW f, EarnedAnswer(f) PROVE Answers(f)
  BY <1>1, <1>3 DEF EarnedAnswer
<1>4. Policy(NoRow.policy)
  BY NothingTypes
<1>5. Answers(NoPush.actions)
  BY NothingTypes
<1>6. /\ Policy(row.policy) /\ Policy(tap.row.policy)
      /\ Answers(disk.actions) /\ Answers(actions)
      /\ \A r \in Requests : Policy(req[r].row.policy) /\ Answers(req[r].push.actions)
  BY <1>2, <1>3 DEF EarnedInv
<1>7. Policy(row'.policy)
  <2>1. ASSUME NEW r \in Requests, Put(r) PROVE Policy(row'.policy)
    BY <1>6, <2>1 DEF Put
  <2>2. CASE SavePolicy
    BY <1>6, <2>2 DEF SavePolicy
  <2>3. CASE EraseRow \/ EraseFails
    BY <1>4, <1>6, <2>3 DEF EraseRow, EraseFails
  <2>4. CASE row' = row
    BY <1>6, <2>4
  <2> QED
    BY <2>1, <2>2, <2>3, <2>4, RowMoves
<1>8. Policy(tap'.row.policy)
  <2>1. ASSUME NEW s \in Settings, SetPolicy(s) PROVE Policy(tap'.row.policy)
    <3>1. /\ tap'.row = [row EXCEPT !.policy[s.app][s.capability] = s.answer]
          /\ s \in chosen'
      BY <2>1 DEF SetPolicy
    <3>2. row \in Rows
      BY DEF AppsTypes
    <3>3. \A app \in Apps, c \in governable :
            tap'.row.policy[app][c] =
              IF app = s.app /\ c = s.capability THEN s.answer ELSE row.policy[app][c]
      BY <3>1, <3>2, MergedTypes
    <3> QED
      BY <1>6, <3>1, <3>3
  <2>2. CASE tap'.row = tap.row
    BY <1>6, <2>2
  <2>3. CASE tap'.row = NoRow
    BY <1>4, <2>3
  <2> QED
    BY <2>1, <2>2, <2>3, TapMoves
<1>9. ASSUME NEW q \in Requests PROVE Policy(req'[q].row.policy)
  <2>1. CASE req'[q].row = req[q].row
    BY <1>6, <2>1
  <2>2. CASE req'[q].row = NoRow
    BY <1>4, <2>2
  <2>3. CASE req'[q].row.policy = row.policy
    BY <1>6, <2>3
  <2> QED
    BY <2>1, <2>2, <2>3, CarriedMoves
<1>10. ASSUME NEW q \in Requests PROVE Answers(req'[q].push.actions)
  <2>1. CASE req'[q].push = req[q].push
    BY <1>6, <2>1
  <2>2. CASE req'[q].push = NoPush
    BY <1>5, <2>2
  <2>3. CASE Resolve(q)
    <3>1. PICK answered \in SUBSET activeSlugs :
            req'[q].push.actions = resolved(answered, req[q].row.policy)
      BY <2>3, ResolveIs
    <3>2. ASSUME NEW a \in DOMAIN req'[q].push.actions, req'[q].push.actions[a] = "auto"
          PROVE  ReadOnly(a) \/ Chosen(AppOf[a], kindOf(a))
      <4>1. a \in Actions /\ (kindOf(a) = "read" \/ req[q].row.policy[AppOf[a]][kindOf(a)] = "auto")
        BY <3>1, <3>2, ResolvedIs
      <4>2. CASE kindOf(a) = "read"
        BY <4>1, <4>2, KindIs
      <4>3. CASE kindOf(a) # "read"
        <5>1. AppOf[a] \in Apps /\ kindOf(a) \in governable
          BY <4>1, <4>3, KindIs
        <5> QED
          BY <1>6, <4>1, <4>3, <5>1
      <4> QED
        BY <4>2, <4>3
    <3> QED
      BY <3>2
  <2> QED
    BY <2>1, <2>2, <2>3, CarriedMoves
<1>11. Answers(disk'.actions) /\ Answers(actions')
  <2>1. CASE UNCHANGED <<disk, url, actions, vm, route>>
    BY <1>6, <2>1
  <2>2. ASSUME NEW r \in Requests, Create(r) \/ Forget(r) \/ Resolve(r) \/ Fail(r)
        PROVE  Answers(disk'.actions) /\ Answers(actions')
    <3>1. disk' = disk /\ actions' \in {actions, disk.actions}
      BY <2>2 DEF Create, Forget, Resolve, Fail, Booted, guestVars
    <3> QED
      BY <1>6, <3>1
  <2>3. ASSUME NEW r \in Requests, Send(r) \/ Apply(r)
        PROVE  Answers(disk'.actions) /\ Answers(actions')
    BY <1>6, <2>3 DEF Send, Apply, PutWrite, PutApply
  <2>4. CASE ErasePurge
    BY <1>5, <2>4 DEF ErasePurge, Booted
  <2>5. CASE EraseForget \/ StopMachine \/ HostRestart
    BY <1>6, <2>5 DEF EraseForget, StopMachine, HostRestart, Booted, guestVars
  <2> QED
    BY <2>1, <2>2, <2>3, <2>4, <2>5, MachineMoves
<1>12. ASSUME NEW a \in ran' PROVE Chosen(AppOf[a], kindOf(a))
  <2>1. CASE a \in ran
    <3>1. Chose(AppOf[a], kindOf(a))
      BY <2>1 DEF EarnedInv, AutoIsEarned, Chose
    <3> QED
      BY <1>1, <3>1
  <2>2. CASE a \notin ran
    BY <1>6, <2>2, RanMoves
  <2> QED
    BY <2>1, <2>2
<1> QED
  BY <1>7, <1>8, <1>9, <1>10, <1>11, <1>12
     DEF EarnedInv, EarnedPolicy, EarnedAnswer, Chose, AutoIsEarned

-----------------------------------------------------------------------------
(* EraseInv.                                                               *)

\* An erasure that nobody disturbs removes what it has listed, in its order, and
\* nothing of it comes back meanwhile (deleteAccount, revokeApps, forgetMachine).
LEMMA EraseInvStep ==
  ASSUME AppsTypes, EraseInv, [Next]_vars
  PROVE  EraseInv'
<1> DEFINE Goal == /\ \A r \in Requests : req'[r].pc = "idle"
                   /\ erase'.pc = "revoke" /\ ~ erase'.refused => Connections' \subseteq erase'.held
                   /\ erase'.pc \in {"row", "forget"} => ~ vm' /\ disk' = NoPush /\ Connections' = {}
                   /\ erase'.pc = "forget" => row' = NoRow
<1> SUFFICES ASSUME erase'.quiet, erase'.pc # "idle" PROVE Goal
  BY DEF EraseInv
<1>0. /\ erase \in EraseStruct /\ req \in [Requests -> ReqStruct]
      /\ conns \in [Apps -> {"none", "INITIATED", "ACTIVE"}]
  BY DEF AppsTypes
<1>a. ASSUME erase.quiet, erase.pc # "idle"
      PROVE  /\ \A r \in Requests : req[r].pc = "idle"
             /\ erase.pc = "revoke" /\ ~ erase.refused => Connections \subseteq erase.held
             /\ erase.pc \in {"row", "forget"} => ~ vm /\ disk = NoPush /\ Connections = {}
             /\ erase.pc = "forget" => row = NoRow
  BY <1>a DEF EraseInv
<1>b. ASSUME UNCHANGED <<erase, req, conns, vm, disk, row>> PROVE Goal
  BY <1>a, <1>b DEF Connections
<1>c. \A a : Disconnect(a) => Connections' \subseteq Connections \ {a}
  BY <1>0 DEF Disconnect, Connections
<1>1. ASSUME NEW r \in Requests, Begin(r) PROVE Goal
  BY <1>1, <1>0, UsedIs DEF Begin
<1>2. ASSUME NEW r \in Requests, Forget(r) \/ Create(r) \/ GiveUp(r) \/ Claim(r) \/ Get(r) \/
             Put(r) \/ Resolve(r) \/ Send(r) \/ Apply(r) \/ Done(r) \/ Fail(r)
      PROVE  Goal
  <2>1. req[r].pc # "idle" /\ erase' = erase
    BY <1>2
       DEF Forget, Create, GiveUp, Claim, Get, Put, Resolve, Send, Apply, Done, Fail, Pushing,
           people
  <2> QED
    BY <1>a, <2>1
<1>3. ASSUME NEW s \in Settings, SetPolicy(s) PROVE Goal
  BY <1>3, <1>b DEF SetPolicy, people, guestVars
<1>4. ASSUME NEW a \in Apps, ConnectApp(a) \/ Authorise(a)
      PROVE  Goal
  BY <1>4, <1>0, UsedIs DEF ConnectApp, Authorise
<1>5. ASSUME NEW a \in Apps, DisconnectApp(a) PROVE Goal
  BY <1>5, <1>a, <1>c DEF DisconnectApp, guestVars
<1>6. ASSUME NEW a \in Apps, EraseRevoke(a) PROVE Goal
  <2>1. /\ erase.pc = "revoke" /\ erase'.pc = "revoke" /\ erase.quiet
        /\ erase'.held = erase.held \ {a} /\ req' = req
        /\ ~ erase'.refused => ~ erase.refused /\ Disconnect(a)
    BY <1>6, <1>0 DEF EraseRevoke, EraseStruct
  <2> QED
    BY <1>a, <1>c, <2>1
<1>7. CASE SavePolicy
  BY <1>7, <1>0, UsedIs DEF SavePolicy
<1>8. CASE StaleApps \/ HeldApps
  BY <1>8, <1>b DEF StaleApps, HeldApps, people, guestVars
<1>9. CASE ClaimRunsOut
  <2>1. UNCHANGED <<erase, conns, vm, disk, row>>
    BY <1>9 DEF ClaimRunsOut, people, guestVars
  <2>2. \A r \in Requests : req'[r].pc = req[r].pc
    BY <1>9, <1>0, AgedIs DEF ClaimRunsOut
  <2> QED
    BY <1>a, <2>1, <2>2 DEF Connections
<1>10. CASE EraseList
  <2>1. /\ erase'.pc = "revoke" /\ erase'.held = Connections /\ req' = req /\ conns' = conns
        /\ \A r \in Requests : req[r].pc = "idle"
    BY <1>10 DEF EraseList
  <2> QED
    BY <2>1 DEF Connections
<1>11. CASE EraseRefused \/ EraseForget \/ EraseFails \/ HostRestart
  BY <1>11 DEF EraseRefused, EraseForget, EraseFails, HostRestart, NoErase
<1>12. CASE ErasePurge
  <2>1. /\ erase'.pc = "row" /\ erase.quiet /\ erase.pc = "revoke" /\ ~ erase.refused
        /\ erase.held = {} /\ ~ vm' /\ disk' = NoPush /\ conns' = conns /\ req' = Purged
    BY <1>12, <1>0 DEF ErasePurge, Booted, EraseStruct
  <2>2. \A r \in Requests : req'[r].pc = "idle"
    BY <1>0, <1>a, <2>1, PurgedIs
  <2> QED
    BY <1>a, <2>1, <2>2 DEF Connections
<1>13. CASE EraseRow
  <2>1. /\ erase'.pc = "forget" /\ erase.quiet /\ erase.pc = "row" /\ row' = NoRow
        /\ UNCHANGED <<req, conns, vm, disk>>
    BY <1>13, <1>0 DEF EraseRow, EraseStruct, guestVars
  <2> QED
    BY <1>a, <2>1 DEF Connections
<1>14. CASE StopMachine
  <2>1. vm /\ req' = Cut /\ UNCHANGED <<erase, conns, row>>
    BY <1>14 DEF StopMachine, people
  <2>2. erase.pc \notin {"row", "forget"}
    BY <1>a, <2>1
  <2> QED
    BY <1>0, <1>a, <2>1, <2>2, CutIs DEF Connections
<1>15. CASE Guest
  BY <1>15, <1>b, GuestKeeps
<1>16. CASE UNCHANGED vars
  BY <1>16, <1>b DEF vars, people, guestVars
<1> QED
  BY <1>1, <1>2, <1>3, <1>4, <1>5, <1>6, <1>7, <1>8, <1>9, <1>10, <1>11, <1>12, <1>13,
     <1>14, <1>15, <1>16
     DEF Next

-----------------------------------------------------------------------------
(* NothingOfAnOldSession.                                                  *)

\* A dial, a list or a failure that a push overtook leaves nothing of its own
\* (dialTo, store, noteFailure, SetConfig, newAppsServer).
LEMMA OldSessionStep ==
  ASSUME NothingOfAnOldSession, [Next]_vars
  PROVE  NothingOfAnOldSession'
<1> USE DEF NothingOfAnOldSession
<1>1. ASSUME NEW r \in Requests, Begin(r) \/ Forget(r) \/ GiveUp(r) \/ Claim(r) \/ Get(r) \/
             Put(r) \/ Resolve(r) \/ Done(r) \/ Fail(r)
      PROVE  NothingOfAnOldSession'
  BY <1>1
     DEF Begin, Forget, GiveUp, Claim, Get, Put, Resolve, Done, Fail, guestVars, Booted,
         PutWrite, PutApply
<1>2. ASSUME NEW r \in Requests, Create(r) \/ Send(r) \/ Apply(r)
      PROVE  NothingOfAnOldSession'
  BY <1>2 DEF Create, Send, Apply, guestVars, Booted, PutWrite, PutApply
<1>3. ASSUME NEW s \in Settings, SetPolicy(s) PROVE NothingOfAnOldSession'
  BY <1>3 DEF SetPolicy, guestVars, Booted, PutWrite, PutApply
<1>4. ASSUME NEW a \in Apps, ConnectApp(a) \/ Authorise(a) \/ DisconnectApp(a) \/ EraseRevoke(a)
      PROVE  NothingOfAnOldSession'
  BY <1>4
     DEF ConnectApp, Authorise, DisconnectApp, EraseRevoke, guestVars, Booted, PutWrite,
         PutApply
<1>5. CASE SavePolicy \/ StaleApps \/ HeldApps \/ ClaimRunsOut \/ EraseList \/ EraseRefused \/
           EraseRow \/ EraseForget \/ EraseFails \/ HostRestart
  BY <1>5
     DEF SavePolicy, StaleApps, HeldApps, ClaimRunsOut, EraseList, EraseRefused, EraseRow,
         EraseForget, EraseFails, HostRestart, guestVars, Booted, PutWrite, PutApply
<1>6. CASE ErasePurge \/ StopMachine
  BY <1>6 DEF ErasePurge, StopMachine, guestVars, Booted, PutWrite, PutApply
<1>7. CASE Guest
  <2>1. CASE \/ Tools \/ NoSession \/ Connected \/ Repointed \/ Undialled \/ ListFails
             \/ CoolOver \/ Dialled \/ Listed
    BY <2>1
       DEF Tools, NoSession, Connected, Repointed, Undialled, ListFails, CoolOver, Dialled, Listed,
           Unlisted, noteFailure
  <2>2. ASSUME NEW call \in Calls, NEW allowed \in SUBSET Actions, CallApps(call, allowed)
        PROVE  NothingOfAnOldSession'
    BY <2>2 DEF CallApps
  <2> QED
    BY <1>7, <2>1, <2>2 DEF Guest, GuestNext
<1>8. CASE UNCHANGED vars
  BY <1>8 DEF vars, people, guestVars, Booted, PutWrite, PutApply
<1> QED
  BY <1>1, <1>2, <1>3, <1>4, <1>5, <1>6, <1>7, <1>8 DEF Next

-----------------------------------------------------------------------------
(* The invariants of every behaviour.                                      *)

\* Nobody has asked for anything yet (Init).
LEMMA AppsInvInit == Init => AppsInv
<1> SUFFICES ASSUME Init PROVE AppsInv
  OBVIOUS
<1>1. AppsTypes
  BY AppsTypesInit
<1>2. /\ \A r \in Requests : req[r] = NoReq /\ ~ Own(r) /\ ~ Underway(r)
      /\ ~ settled
  BY EmptyTypes DEF Init, Own, Underway, Pushing, NoClaim, settled
<1>3. ClaimInv
  BY <1>2 DEF ClaimInv, OnePushAtATime
<1>4. TicketInv /\ AnswerInv
  BY <1>2 DEF TicketInv, AnswerInv
<1>5. EarnedInv
  <2>1. /\ row = NoRow /\ tap = NoTap /\ disk = NoPush /\ actions = NoActions /\ ran = {}
    BY DEF Init, GuestInit
  <2>2. EarnedPolicy(NoRow.policy) /\ EarnedAnswer(NoActions)
    BY NothingTypes DEF EarnedPolicy, EarnedAnswer
  <2> QED
    BY <1>2, <2>1, <2>2, NothingTypes, EmptyTypes DEF EarnedInv, AutoIsEarned
<1>6. EraseInv
  BY EmptyTypes DEF Init, EraseInv
<1>7. NothingOfAnOldSession
  BY DEF Init, GuestInit, NothingOfAnOldSession
<1> QED
  BY <1>1, <1>3, <1>4, <1>5, <1>6, <1>7 DEF AppsInv

\* The step of every invariant, together (Next).
LEMMA AppsInvStep == AppsInv /\ [Next]_vars => AppsInv'
BY AppsTypesStep, ClaimInvStep, TicketInvStep, AnswerInvStep, EarnedInvStep, EraseInvStep,
   OldSessionStep DEF AppsInv

\* All of it, of every behaviour (Spec).
LEMMA AppsInvAlways == Spec => []AppsInv
BY AppsInvInit, AppsInvStep, PTL DEF Spec

\* However many requests arrive at once, one pushes (claimApps).
THEOREM OnePushes == Spec => []OnePushAtATime
<1>1. AppsInv => OnePushAtATime
  BY DEF AppsInv, ClaimInv
<1> QED
  BY <1>1, AppsInvAlways, PTL

\* What the host counts as pushed holds the ticket that the broker serves, in
\* memory and in the file (ensureMachine, Register, doneApps, failApps).
THEOREM TicketsWork == Spec => []TicketWorks
<1>1. AppsInv => TicketWorks
  BY DEF AppsInv, TicketInv, TicketWorks, Landed, Gone
<1> QED
  BY <1>1, AppsInvAlways, PTL

\* An answer that is not out of date is what the settings say now (savePolicy,
\* staleApps).
THEOREM SettingsReach == Spec => []SettingsReachMachine
<1>1. AppsInv => SettingsReachMachine
  BY DEF AppsInv, AnswerInv, SettingsReachMachine, Pending, Told, Gone, Says
<1> QED
  BY <1>1, AppsInvAlways, PTL

\* What ran unasked was let run by the person, or is a read and no more (resolved,
\* hook).
THEOREM AutoIsAlwaysEarned == Spec => []AutoIsEarned
<1>1. AppsInv => AutoIsEarned
  BY DEF AppsInv, EarnedInv
<1> QED
  BY <1>1, AppsInvAlways, PTL

\* The session, the list and the cooldown are of the address the machine holds
\* (dialTo, store, noteFailure, SetConfig).
THEOREM NothingOld == Spec => []NothingOfAnOldSession
<1>1. AppsInv => NothingOfAnOldSession
  BY DEF AppsInv
<1> QED
  BY <1>1, AppsInvAlways, PTL

\* When deleteAccount reports success nothing is left of an account that nobody
\* used meanwhile (revokeApps, forgetMachine).
THEOREM ErasedIsAlwaysGone == Spec => ErasedIsGone
<1>1. AppsInv /\ [Next]_vars
        => [EraseForget /\ erase.quiet
              => /\ ~ vm' /\ row' = NoRow /\ route' = 0 /\ disk' = NoPush
                 /\ Connections' = {}]_vars
  <2> SUFFICES ASSUME AppsInv, EraseForget, erase.quiet
               PROVE  ~ vm' /\ row' = NoRow /\ route' = 0 /\ disk' = NoPush /\ Connections' = {}
    OBVIOUS
  <2>1. ~ vm /\ disk = NoPush /\ Connections = {} /\ row = NoRow
    BY DEF AppsInv, EraseInv, EraseForget
  <2> QED
    BY <2>1 DEF EraseForget, guestVars, Connections
<1> QED
  BY <1>1, AppsInvAlways, PTL DEF Spec, ErasedIsGone

=============================================================================
