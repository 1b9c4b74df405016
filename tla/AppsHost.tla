------------------------------ MODULE AppsHost ------------------------------
(* One person's connected apps, from the provider to the machine: the      *)
(* requests that boot the machine and push it a session, the settings and  *)
(* the connections that change the answer, and the erasure of the account. *)
(*                                                                         *)
(* A request goes on, detached, as the push it starts (ensureApps), so the *)
(* two are one process.  Time is the order of steps: a deadline is passed  *)
(* by an action of its own.  The provider, the database and the machine    *)
(* may refuse any call.  MaxEvents bounds what people and hosts do.        *)
EXTENDS AppsGuest

CONSTANTS Requests,     \* requests that may be under way at once
          MaxStarts,    \* bound: requests in all
          MaxEvents,    \* bound: settings, connections, erasures, restarts
          Settings      \* the settings the person may save: app, kind, answer

ASSUME HostAssumption ==
  /\ MaxStarts \in Nat
  /\ MaxEvents \in Nat
  /\ Settings \subseteq [app : Apps, capability : governable, answer : settable]

VARIABLES vm,       \* the machine is up
          conns,    \* the provider's connections: none, INITIATED or ACTIVE
          row,      \* the person's row of app_sessions
          claim,    \* s.appsClaims of this machine
          route,    \* the ticket g.routes holds for this machine, 0 for none
          req,      \* each request, then push
          tap,      \* setAppPolicy or disconnectApp: how far, and what it read
          erase,    \* deleteAccount: how far, what is to revoke, a refusal
          count,    \* requests, events, tickets and sessions so far
          chosen,   \* history: the settings the person has saved
          missed    \* history: what the properties leave aside

people == <<tap, erase, chosen>>
vars == <<guestVars, vm, conns, row, claim, route, req, people, count, missed>>

NoRow == [session |-> 0, policy |-> NoPolicy]
NoClaim == [is |-> "none", slugs |-> {}, due |-> FALSE]
InFlight == [is |-> "inflight", slugs |-> {}, due |-> FALSE]
NoReq == [pc |-> "idle", row |-> NoRow, slugs |-> {}, push |-> NoPush, had |-> NoPush,
          age |-> "own"]
NoTap == [pc |-> "idle", row |-> NoRow]
NoErase == [pc |-> "idle", held |-> {}, refused |-> FALSE, quiet |-> TRUE]

Init == /\ GuestInit
        /\ vm = FALSE
        /\ conns \in [Apps -> {"none", "INITIATED", "ACTIVE"}]
        /\ row = NoRow
        /\ claim = NoClaim
        /\ route = 0
        /\ req = [r \in Requests |-> NoReq]
        /\ tap = NoTap
        /\ erase = NoErase
        /\ count = [starts |-> 0, events |-> 0, tickets |-> 0, sessions |-> 0]
        /\ chosen = {}
        /\ missed = {}

(* The provider: what a person has connected, in whatever state, a grant    *)
(* revoked, an authorisation begun, a session opened for a policy.         *)
Connections == {a \in Apps : conns[a] # "none"}
Disconnect(a) == conns' = [conns EXCEPT ![a] = "none"]
Link(a) == conns' = [conns EXCEPT ![a] = "INITIATED"]
NewSession(policy) == [session |-> count.sessions + 1, policy |-> policy]

activeSlugs == {a \in Connections : conns[a] = "ACTIVE"}
served(ticket) == vm /\ ticket # 0 /\ ticket = route

Pushing == {"get", "put", "resolve", "send", "apply", "done", "lost"}
Underway(r) == req[r].pc \in Pushing

\* Pushes under way whose claim is gone: forgotten, or out of time.
Aged(age) == [r \in Requests |-> IF Underway(r) /\ req[r].age = "own"
                                 THEN [req[r] EXCEPT !.age = age] ELSE req[r]]

Go(r, pc) == req' = [req EXCEPT ![r].pc = pc]
Idle(r) == req' = [req EXCEPT ![r] = NoReq]
Event == count.events < MaxEvents /\ count' = [count EXCEPT !.events = @ + 1]

\* Somebody uses the account, maybe while it is being erased.
Used == erase' = [erase EXCEPT !.quiet = (erase.pc = "idle")]

\* A push that no claim stands for any more has touched the row, the ticket, the
\* machine or the claim.
Stray(r) == missed' = IF req[r].age = "own" THEN missed ELSE missed \union {"stray"}

\* The row has changed, and nobody says so to the claim.
Untold == missed' = missed \union {"change"}

\* The machine goes down, its requests with it.
Cut == [r \in Requests |-> IF req[r].pc = "apply" THEN [req[r] EXCEPT !.pc = "lost"] ELSE req[r]]

\* A purge leaves a request that is about to create the machine with a claim it
\* has already forgotten.
Purged == [r \in Requests |-> IF req[r].pc = "create" THEN [req[r] EXCEPT !.age = "forgotten"]
                              ELSE Cut[r]]

-----------------------------------------------------------------------------
(* Claims.                                                                 *)

settled == claim.is = "pushed"

Stale_InFlight == /\ claim' = IF claim.is \in {"pushed", "inflight"}
                              THEN [claim EXCEPT !.due = TRUE] ELSE claim
                  /\ missed' = missed
Stale_Never == claim' = claim /\ missed' = missed

\* staleApps, staleLocked: only a push that has landed is put out of date.
Stale == /\ claim' = IF settled THEN [claim EXCEPT !.due = TRUE] ELSE claim
         /\ IF claim.is = "inflight" THEN Untold ELSE UNCHANGED missed

\* noticeApps: the connections a screen has read are compared with those the
\* last push was resolved against.
Notice == claim' = IF settled /\ claim.slugs # activeSlugs
                   THEN [claim EXCEPT !.due = TRUE] ELSE claim

\* A claim's deadline, or a failure's cooldown, passes.  A push still under way
\* has by then run out of its own time (appsMintTimeout): calls that carry its
\* context fail from here on, and the call to the machine carries none.
ClaimRunsOut == /\ claim.is # "none"
                /\ ~ claim.due
                /\ claim' = [claim EXCEPT !.due = TRUE]
                /\ req' = IF claim.is = "inflight" THEN Aged("late") ELSE req
                /\ UNCHANGED <<guestVars, vm, conns, row, route, people, count, missed>>

-----------------------------------------------------------------------------
(* Requests.                                                               *)

\* guestOf, rosterOf: a request begins when ensureMachine looks the machine up.
Begin(r) == /\ req[r].pc = "idle"
            /\ count.starts < MaxStarts
            /\ count' = [count EXCEPT !.starts = @ + 1]
            /\ Go(r, IF vm THEN "claim" ELSE "forget")
            /\ Used
            /\ UNCHANGED <<guestVars, vm, conns, row, claim, route, tap, chosen, missed>>

Forget_KeepsClaim(r) ==
  /\ req[r].pc = "forget"
  /\ Go(r, "create")
  /\ UNCHANGED <<guestVars, vm, conns, row, claim, route, people, count, missed>>

\* forgetApps, of a machine about to be created.
Forget(r) == /\ req[r].pc = "forget"
             /\ claim' = NoClaim
             /\ route' = 0
             /\ req' = [Aged("forgotten") EXCEPT ![r].pc = "create"]
             /\ UNCHANGED <<guestVars, vm, conns, row, people, count, missed>>

\* CreateVM boots the machine on the disk it has; 409 says another request did.
Create(r) == /\ req[r].pc = "create"
             /\ Go(r, "claim")
             /\ vm' = TRUE
             /\ IF vm THEN UNCHANGED guestVars ELSE Booted(disk)
             /\ Stray(r)
             /\ UNCHANGED <<conns, row, claim, route, people, count>>

\* The control plane refuses, or is not there.
GiveUp(r) == /\ req[r].pc = "create"
             /\ Idle(r)
             /\ UNCHANGED <<guestVars, vm, conns, row, claim, route, people, count, missed>>

Claim_Always(r) ==
  /\ req[r].pc = "claim"
  /\ claim' = InFlight
  /\ Go(r, "get")
  /\ UNCHANGED <<guestVars, vm, conns, row, route, people, count, missed>>

\* claimApps: taken before the work, so that of many requests one pushes.  The
\* push reads the row anew, with whatever change the last one was not told of.
Claim(r) == /\ req[r].pc = "claim"
            /\ \/ /\ claim.is = "none" \/ claim.due
                  /\ claim' = InFlight
                  /\ Go(r, "get")
                  /\ missed' = missed \ {"change"}
               \/ /\ claim.is # "none" /\ ~ claim.due
                  /\ Idle(r)
                  /\ UNCHANGED <<claim, missed>>
            /\ UNCHANGED <<guestVars, vm, conns, row, route, people, count>>

-----------------------------------------------------------------------------
(* Pushes.                                                                 *)

\* sessionFor asks the store, and NewSession the provider when it holds none: the
\* policy read beside the missing session is carried along.
Get(r) == /\ req[r].pc = "get"
          /\ req[r].age # "late"
          /\ IF row.session # 0
             THEN /\ req' = [req EXCEPT ![r].row = row, ![r].pc = "resolve"]
                  /\ UNCHANGED count
             ELSE /\ count' = [count EXCEPT !.sessions = @ + 1]
                  /\ req' = [req EXCEPT ![r].row = NewSession(row.policy),
                                        ![r].pc = "put"]
          /\ UNCHANGED <<guestVars, vm, conns, row, claim, route, people, missed>>

\* The whole row is written, whatever has become of it since.
Put(r) == /\ req[r].pc = "put"
          /\ req[r].age # "late"
          /\ row' = req[r].row
          /\ Go(r, "resolve")
          /\ Stray(r)
          /\ UNCHANGED <<guestVars, vm, conns, claim, route, people, count>>

\* pushApps reads the connections and resolves them, leaving out an app that the
\* provider does not describe.  handOver registers the session: the broker gives
\* a fresh ticket, and the machine's old one is dropped.
Resolve(r) ==
  /\ req[r].pc = "resolve"
  /\ req[r].age # "late"
  /\ count' = [count EXCEPT !.tickets = @ + 1]
  /\ route' = count'.tickets
  /\ \E answered \in SUBSET activeSlugs :
       req' = [req EXCEPT ![r].slugs = activeSlugs,
                          ![r].push = [url |-> route', session |-> req[r].row.session,
                                       actions |-> resolved(answered, req[r].row.policy)],
                          ![r].row = NoRow,
                          ![r].pc = "send"]
  /\ Stray(r)
  /\ UNCHANGED <<guestVars, vm, conns, row, claim, people>>

\* SetApps reaches the machine that is there by now.
Send(r) == /\ req[r].pc = "send"
           /\ vm
           /\ req' = [req EXCEPT ![r].had = disk, ![r].pc = "apply"]
           /\ PutWrite(req[r].push)
           /\ Stray(r)
           /\ UNCHANGED <<vm, conns, row, claim, route, people, count>>

Apply(r) == /\ req[r].pc = "apply"
            /\ PutApply(req[r].had, req[r].push)
            /\ req' = [req EXCEPT ![r].push = NoPush, ![r].had = NoPush, ![r].pc = "done"]
            /\ Stray(r)
            /\ UNCHANGED <<vm, conns, row, claim, route, people, count>>

\* A push ends: what it writes of the claim replaces another's, if it outlived its own.
Ended(r) == req' = [Aged("forgotten") EXCEPT ![r] = NoReq]

\* doneApps: due again when the answer goes stale or the connections change.
Done(r) == /\ req[r].pc = "done"
           /\ claim' = [is |-> "pushed", slugs |-> req[r].slugs, due |-> FALSE]
           /\ Ended(r)
           /\ Stray(r)
           /\ UNCHANGED <<guestVars, vm, conns, row, route, people, count>>

Fail_KeepsClaim(r) ==
  /\ req[r].pc \in Pushing \ {"apply"}
  /\ claim' = [is |-> "pushed", slugs |-> req[r].slugs, due |-> FALSE]
  /\ Ended(r)
  /\ Stray(r)
  /\ UNCHANGED <<guestVars, vm, conns, row, route, people, count>>

\* failApps: a call was refused or ran out of time, the machine is gone, or its
\* answer was lost although it has obeyed.
Fail(r) == /\ req[r].pc \in Pushing \ {"apply"}
           /\ claim' = [is |-> "failed", slugs |-> {}, due |-> FALSE]
           /\ route' = 0
           /\ Ended(r)
           /\ Stray(r)
           /\ UNCHANGED <<guestVars, vm, conns, row, people, count>>

-----------------------------------------------------------------------------
(* The person: settings, connections.                                      *)

\* setAppPolicy reads the row, and merges the answer into what it read.
SetPolicy(s) == /\ tap.pc = "idle"
                /\ Event
                /\ tap' = [pc |-> "save",
                           row |-> [row EXCEPT !.policy[s.app][s.capability] = s.answer]]
                /\ chosen' = chosen \union {s}
                /\ UNCHANGED <<guestVars, vm, conns, row, claim, route, req, erase, missed>>

\* savePolicy: the row is written.  Or the database refuses, or its answer is lost
\* after the row was written, and savePolicy returns before staleApps.
SavePolicy == /\ tap.pc = "save"
              /\ \/ row' = tap.row /\ tap' = [NoTap EXCEPT !.pc = "stale"] /\ UNCHANGED missed
                 \/ row' = tap.row /\ tap' = NoTap /\ Untold
                 \/ UNCHANGED <<row, missed>> /\ tap' = NoTap
              /\ Used
              /\ UNCHANGED <<guestVars, vm, conns, claim, route, req, chosen, count>>

\* connectApp, offersApp: the provider holds an unfinished connection of an app in
\* its catalogue.
ConnectApp(a) == /\ a \notin Connections
                 /\ Event
                 /\ Link(a)
                 /\ Used
                 /\ UNCHANGED <<guestVars, vm, row, claim, route, req, tap, chosen, missed>>

\* The person finishes at the provider's page.
Authorise(a) == /\ conns[a] = "INITIATED"
                /\ conns' = [conns EXCEPT ![a] = "ACTIVE"]
                /\ Used
                /\ UNCHANGED <<guestVars, vm, row, claim, route, req, tap, chosen, count, missed>>

\* disconnectApp reads the connections, which noticeApps sees before the
\* account is revoked.  The provider's answer may be lost, and the claim not told.
DisconnectApp(a) == /\ tap.pc = "idle"
                    /\ a \in Connections
                    /\ Event
                    /\ Notice
                    /\ Disconnect(a)
                    /\ tap' \in {[NoTap EXCEPT !.pc = "stale"], NoTap}
                    /\ UNCHANGED <<guestVars, vm, row, route, req, erase, chosen, missed>>

\* savePolicy and disconnectApp end by putting the pushed answer out of date.
StaleApps == /\ tap.pc = "stale"
             /\ Stale
             /\ tap' = NoTap
             /\ UNCHANGED <<guestVars, vm, conns, row, route, req, erase, chosen, count>>

\* heldApps, behind every screen.
HeldApps == /\ settled
            /\ ~ claim.due
            /\ Notice
            /\ UNCHANGED <<guestVars, vm, conns, row, route, req, people, count, missed>>

-----------------------------------------------------------------------------
(* The person: erasure.                                                    *)

\* deleteAccount, revokeApps: the accounts are listed first.
EraseList == /\ erase.pc = "idle"
             /\ Event
             /\ erase' = [pc |-> "revoke", held |-> Connections,
                          refused |-> FALSE,
                          quiet |-> \A r \in Requests : req[r].pc = "idle"]
             /\ UNCHANGED <<guestVars, vm, conns, row, claim, route, req, tap, chosen, missed>>

\* disconnectAll, one account: done or refused, or done and its answer lost.
EraseRevoke(a) ==
  /\ erase.pc = "revoke"
  /\ a \in erase.held
  /\ \/ /\ Disconnect(a)
        /\ erase' = [erase EXCEPT !.held = @ \ {a}]
     \/ /\ UNCHANGED conns \/ Disconnect(a)
        /\ erase' = [erase EXCEPT !.held = @ \ {a}, !.refused = TRUE]
  /\ UNCHANGED <<guestVars, vm, row, claim, route, req, tap, chosen, count, missed>>

\* The first refusal fails the request, and nothing is deleted.
EraseRefused == /\ erase.pc = "revoke"
                /\ erase.held = {}
                /\ erase.refused
                /\ erase' = NoErase
                /\ UNCHANGED <<guestVars, vm, conns, row, claim, route, req, tap, chosen, count,
                               missed>>

ErasePurge_Anyway ==
  /\ erase.pc = "revoke"
  /\ erase.held = {}
  /\ vm' = FALSE
  /\ Booted(NoPush)
  /\ req' = Purged
  /\ erase' = [erase EXCEPT !.pc = "row"]
  /\ UNCHANGED <<conns, row, claim, route, tap, chosen, count, missed>>

\* DeleteVM with purge: the disk goes with the machine.
ErasePurge == /\ erase.pc = "revoke"
              /\ erase.held = {}
              /\ ~ erase.refused
              /\ vm' = FALSE
              /\ Booted(NoPush)
              /\ req' = Purged
              /\ erase' = [erase EXCEPT !.pc = "row"]
              /\ UNCHANGED <<conns, row, claim, route, tap, chosen, count, missed>>

\* forgetMachine deletes the row before what only this process holds.
EraseRow == /\ erase.pc = "row"
            /\ row' = NoRow
            /\ erase' = [erase EXCEPT !.pc = "forget"]
            /\ UNCHANGED <<guestVars, vm, conns, claim, route, req, tap, chosen, count, missed>>

EraseForget_KeepsTicket == /\ erase.pc = "forget"
                           /\ claim' = NoClaim
                           /\ erase' = NoErase
                           /\ UNCHANGED <<guestVars, vm, conns, row, route, req, tap, chosen,
                                          count, missed>>

EraseForget == /\ erase.pc = "forget"
               /\ claim' = NoClaim
               /\ route' = 0
               /\ req' = Aged("forgotten")
               /\ erase' = NoErase
               /\ UNCHANGED <<guestVars, vm, conns, row, tap, chosen, count, missed>>

\* The control plane or the database refuses: the request fails where it is, maybe
\* with the row gone and the claim not told.
EraseFails == /\ erase.pc \in {"revoke", "row"}
              /\ erase' = NoErase
              /\ \/ UNCHANGED <<row, missed>>
                 \/ erase.pc = "row" /\ row' = NoRow /\ Untold
              /\ UNCHANGED <<guestVars, vm, conns, claim, route, req, tap, chosen, count>>

-----------------------------------------------------------------------------
(* Restarts.                                                               *)

\* The machine is stopped at the control plane and keeps its disk, or agentd
\* restarts on it.
StopMachine == /\ vm
               /\ Event
               /\ vm' \in BOOLEAN
               /\ Booted(disk)
               /\ req' = Cut
               /\ UNCHANGED <<conns, row, claim, route, people, missed>>

\* The host service restarts: claims, tickets and whatever was under way go.
HostRestart == /\ Event
               /\ claim' = NoClaim
               /\ route' = 0
               /\ req' = [r \in Requests |-> NoReq]
               /\ tap' = NoTap
               /\ erase' = NoErase
               /\ UNCHANGED <<guestVars, vm, conns, row, chosen, missed>>

Guest == /\ vm
         /\ GuestNext(served)
         /\ UNCHANGED <<vm, conns, row, claim, route, req, people, count, missed>>

Next == \/ Guest
        \/ \E r \in Requests :
             \/ Begin(r) \/ Forget(r) \/ Create(r) \/ GiveUp(r) \/ Claim(r)
             \/ Get(r) \/ Put(r) \/ Resolve(r) \/ Send(r) \/ Apply(r)
             \/ Done(r) \/ Fail(r)
        \/ \E s \in Settings : SetPolicy(s)
        \/ \E a \in Apps : ConnectApp(a) \/ Authorise(a) \/ DisconnectApp(a) \/ EraseRevoke(a)
        \/ SavePolicy \/ StaleApps \/ HeldApps \/ ClaimRunsOut
        \/ EraseList \/ EraseRefused \/ ErasePurge \/ EraseRow \/ EraseForget \/ EraseFails
        \/ StopMachine \/ HostRestart

Spec == Init /\ [][Next]_vars

-----------------------------------------------------------------------------
(* Properties.                                                             *)

\* However many requests arrive at once, one push is under way, unless it has
\* outlived its claim or its machine was created or erased meanwhile (claimApps,
\* staleApps, noticeApps).
OnePushAtATime ==
  \A r, q \in Requests :
    Underway(r) /\ Underway(q) /\ req[r].age = "own" /\ req[q].age = "own" => r = q

\* While the host counts a machine as pushed, the ticket the machine holds, in
\* memory and in the file it restarts from, is the one the broker serves
\* (ensureMachine, Register, doneApps, failApps), as long as no push has
\* outlived its claim.
TicketWorks ==
  settled /\ vm /\ "stray" \notin missed
    => url = route /\ disk.url = route /\ route # 0

\* An answer that is not out of date is what the person's settings say now: a
\* setting that was saved reaches the machine with the next request (savePolicy,
\* staleApps).  One that was saved under a push, or by a call that reported a
\* failure, reaches it with the next push, when the claim has run out (claimApps);
\* a push that outlived its claim spoils this for good.
SettingsReachMachine ==
  settled /\ ~ claim.due /\ vm /\ missed = {} /\ tap.pc = "idle" /\ erase.pc = "idle"
    => \A a \in DOMAIN actions :
         kindOf(a) # "read" => actions[a] = actionFor(kindOf(a), row.policy[AppOf[a]][kindOf(a)])

\* When deleteAccount reports success nothing of the account is left: no grant
\* at the provider, no row, no ticket and no machine, as long as nobody used the
\* account meanwhile.
ErasedIsGone ==
  [][EraseForget /\ erase.quiet
       => /\ ~ vm' /\ row' = NoRow /\ route' = 0 /\ disk' = NoPush
          /\ Connections' = {}]_vars

\* What ran without a card, and was not annotated as a mere read, belongs to an
\* app whose actions the person chose to let run.
AutoIsEarned ==
  \A a \in ran : \E s \in chosen : s.app = AppOf[a] /\ s.capability = kindOf(a) /\ s.answer = "auto"

-----------------------------------------------------------------------------
(* What comments of the source say, and the code does not do.              *)

\* A person does not "change a setting and watch it do nothing".
SettingTakesEffect ==
  settled /\ ~ claim.due /\ vm /\ "stray" \notin missed /\ tap.pc = "idle" /\ erase.pc = "idle"
    => \A a \in DOMAIN actions :
         kindOf(a) # "read" => actions[a] = actionFor(kindOf(a), row.policy[AppOf[a]][kindOf(a)])

\* "being wrong there returns somebody to defaults they had changed, silently, on
\* the next re-mint" (Put, of a column left out).  A push that read the row before
\* a setting was saved writes all of it back.
SettingKept == [][\A r \in Requests : Put(r) => row'.policy = row.policy]_vars

\* "The app tells someone their data is gone on the strength of this status"
\* (deleteAccount).  Not so when the account is used meanwhile: a connection made or
\* a row written during the erasure outlives it.
ErasedForGood ==
  [][EraseForget => row' = NoRow /\ Connections' = {}]_vars
=============================================================================
