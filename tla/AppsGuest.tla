------------------------------ MODULE AppsGuest ------------------------------
(* The connected-apps session of one machine: the file the host's push is  *)
(* kept in, the server that holds its address and answers, and one agent   *)
(* that lists the session's tools when it is built and calls them.         *)
(*                                                                         *)
(* An address is a ticket of the host's broker, 0 for none.  Whether the   *)
(* broker serves a ticket is the host's business: whoever composes this    *)
(* module says so with the served argument.                                *)
EXTENDS AppActions

VARIABLES disk,     \* apps.json: address, session and actions
          url,      \* s.url
          actions,  \* s.actions
          sess,     \* s.sess: the address the live session was dialled to
          listed,   \* s.listed: the address the cached tool list was read from
          cooling,  \* the address whose failure started the cooldown, 0 for none
          agent,    \* the agent: how far its construction is, and its tools
          ran       \* history: actions run without asking anybody, reads left out

guestVars == <<disk, url, actions, sess, listed, cooling, agent, ran>>

NoPush == [url |-> 0, session |-> 0, actions |-> NoActions]
NoAgent == [pc |-> "none", want |-> 0, at |-> 0, tools |-> FALSE]

GuestInit == /\ disk = NoPush
             /\ url = 0
             /\ actions = NoActions
             /\ sess = 0
             /\ listed = 0
             /\ cooling = 0
             /\ agent = NoAgent
             /\ ran = {}

\* A machine that boots without a disk, or a daemon that restarts on one:
\* newAppsServer takes the whole record from the file.
Booted(held) == /\ disk' = held
                /\ url' = held.url
                /\ actions' = held.actions
                /\ sess' = 0
                /\ listed' = 0
                /\ cooling' = 0
                /\ agent' = NoAgent
                /\ UNCHANGED ran

\* Set of the calls the agent may make: single actions, batches, and one
\* that cannot be read.
Calls == [exec : {TRUE}, entries : SUBSET (Actions \union {Unreadable}) \ {{}}]

-----------------------------------------------------------------------------
(* PUT /apps.                                                              *)

\* handlePutApps: the file is replaced first.
PutWrite(a) == /\ disk' = a
               /\ UNCHANGED <<url, actions, sess, listed, cooling, agent, ran>>

\* surfaceChanged: the session is what identifies the surface, not its ticket.
surfaceChanged(had, now) ==
  ((had.url = 0) # (now.url = 0)) \/ had.session # now.session

\* applyApps, SetConfig, EvictIdle: address and answers in one step, and a new
\* surface drops the agent unless it is at work.
PutApply(had, a) ==
  /\ actions' = a.actions
  /\ url' = a.url
  /\ IF a.url # url
     THEN sess' = 0 /\ listed' = 0 /\ cooling' = 0
     ELSE UNCHANGED <<sess, listed, cooling>>
  /\ agent' \in IF surfaceChanged(had, a) /\ agent.pc = "built" THEN {agent, NoAgent} ELSE {agent}
  /\ UNCHANGED <<disk, ran>>

-----------------------------------------------------------------------------
(* An agent being built.                                                   *)

Built(tools) == agent' = [pc |-> "built", want |-> 0, at |-> 0, tools |-> tools]

\* listing and cached: with no session, a list at hand or a cooldown there is
\* nothing to dial.
Tools == /\ agent.pc = "none"
         /\ IF url = 0 \/ listed # 0 \/ cooling # 0
            THEN Built(listed # 0)
            ELSE agent' = [agent EXCEPT !.pc = "connect", !.want = url]
         /\ UNCHANGED <<disk, url, actions, sess, listed, cooling, ran>>

noteFailure_Any(want) == cooling' = url

\* noteFailure: only the address the list was wanted of cools down.
noteFailure(want) == cooling' = IF url = want THEN url ELSE cooling

Unlisted == /\ noteFailure(agent.want)
            /\ Built(FALSE)
            /\ UNCHANGED <<disk, url, actions, sess, listed, ran>>

\* connect: the address is read again, and may have moved.
Connected == /\ agent.pc = "connect"
             /\ url # 0
             /\ agent' = IF sess # 0 THEN [agent EXCEPT !.pc = "list", !.at = sess]
                                     ELSE [agent EXCEPT !.pc = "dial", !.at = url]
             /\ UNCHANGED <<disk, url, actions, sess, listed, cooling, ran>>

NoSession == /\ agent.pc = "connect"
             /\ url = 0
             /\ Unlisted

Dialled_Keeps == /\ agent.pc = "dial"
                 /\ sess' = agent.at
                 /\ agent' = [agent EXCEPT !.pc = "list"]
                 /\ UNCHANGED <<disk, url, actions, listed, cooling, ran>>

\* dialTo: a session for an address nobody wants any more is not kept.
Dialled == /\ agent.pc = "dial"
           /\ url = agent.at
           /\ sess' = agent.at
           /\ agent' = [agent EXCEPT !.pc = "list"]
           /\ UNCHANGED <<disk, url, actions, listed, cooling, ran>>

Repointed == /\ agent.pc = "dial"
             /\ url # agent.at
             /\ Unlisted

\* The dial times out, or the broker refuses it.
Undialled == /\ agent.pc = "dial"
             /\ Unlisted

Listed_Anyway == /\ agent.pc = "list"
                 /\ sess = agent.at
                 /\ listed' = agent.want
                 /\ cooling' = 0
                 /\ Built(TRUE)
                 /\ UNCHANGED <<disk, url, actions, sess, ran>>

\* listAppTools and store: kept only if the address is still the one the list
\* was wanted of.  A session that SetConfig closed lists nothing.
Listed == /\ agent.pc = "list"
          /\ sess = agent.at
          /\ IF url = agent.want
             THEN listed' = agent.at /\ cooling' = 0 /\ Built(TRUE)
             ELSE UNCHANGED <<listed, cooling>> /\ Built(FALSE)
          /\ UNCHANGED <<disk, url, actions, sess, ran>>

ListFails == /\ agent.pc = "list"
             /\ Unlisted

\* appsRetryAfter.
CoolOver == /\ cooling # 0
            /\ cooling' = 0
            /\ UNCHANGED <<disk, url, actions, sess, listed, agent, ran>>

-----------------------------------------------------------------------------
(* The agent at work.                                                      *)

\* hook, permit, session and the call itself.  A session dialled to a ticket
\* that is no longer served fails, is dropped, and is dialled again.
CallApps(call, allowed) ==
  /\ agent.tools
  /\ permitted(actions, call, allowed)
  /\ url # 0
  /\ sess' = url
  /\ ran' = ran \union {a \in callsIn(call) : needs(actions, a) = "auto" /\ ~ ReadOnly(a)}
  /\ UNCHANGED <<disk, url, actions, listed, cooling, agent>>

GuestNext(served(_)) ==
  \/ Tools \/ NoSession \/ Connected \/ Repointed \/ Undialled \/ ListFails \/ CoolOver
  \/ Dialled /\ served(agent.at)
  \/ Listed /\ served(agent.at)
  \/ \E call \in Calls, allowed \in SUBSET Actions :
       CallApps(call, allowed) /\ served(url)

\* The live session, the cached list and the cooldown belong to the address the
\* machine holds now: a dial, a list or a failure that a push overtook leaves no
\* trace of its own (dialTo, store, noteFailure, SetConfig).
NothingOfAnOldSession ==
  /\ sess # 0 => sess = url
  /\ listed # 0 => listed = url
  /\ cooling # 0 => cooling = url
=============================================================================
