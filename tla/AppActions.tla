----------------------------- MODULE AppActions -----------------------------
(* What a connected app's action may do on a person's machine: the         *)
(* provider's annotation of it, the host's reading of that annotation and  *)
(* of the person's settings, the answer it pushes, and the guest's use of  *)
(* it.  An app is a slug of the provider's catalogue and an action one row *)
(* of GET /tools; their texts are left out.                                *)
EXTENDS Naturals, FiniteSets

CONSTANTS Apps,         \* the apps of the provider's catalogue
          Actions,      \* every action of every app
          AppOf,        \* the app an action belongs to
          Tags,         \* the hints the provider annotates an action with
          deniedReads,  \* actions we do not believe to be reads
          Weight,       \* what an app adds to a push, encoded
          AppsBytes     \* appsActionBytes: what one push may weigh

ASSUME ActionsAssumption ==
  /\ AppOf \in [Actions -> Apps]
  /\ Tags \in [Actions -> SUBSET {"destructiveHint", "createHint", "updateHint",
                                  "readOnlyHint", "openWorldHint"}]
  /\ deniedReads \subseteq Actions
  /\ Weight \in [Apps -> Nat]
  /\ AppsBytes \in Nat

Capability == {"read", "write", "del"}
governable == {"write", "del"}
settable == {"ask", "auto", "never"}

\* The settings of one person: what is not set is "unset".
Policies == [Apps -> [governable -> settable \union {"unset"}]]
NoPolicy == [a \in Apps |-> [c \in governable |-> "unset"]]

\* capabilityOf: the most consequential hint wins, and no hint is a write.
capabilityOf(tags) ==
  IF "destructiveHint" \in tags THEN "del"
  ELSE IF "readOnlyHint" \in tags /\ {"createHint", "updateHint"} \intersect tags = {}
  THEN "read" ELSE "write"

capabilityOf_ReadFirst(tags) ==
  IF "readOnlyHint" \in tags THEN "read" ELSE capabilityOf(tags)

\* Capabilities and ourView: the annotation of one action, with our own
\* corrections put in before anything is cached.
kindOf(a) == IF a \in deniedReads THEN "write" ELSE capabilityOf(Tags[a])

\* What the provider annotates as a read and nothing more, and we believe it.
ReadOnly(a) == /\ a \notin deniedReads
               /\ "readOnlyHint" \in Tags[a]
               /\ Tags[a] \subseteq {"readOnlyHint", "openWorldHint"}

actionFor_Unsure(capability, chosen) ==
  IF capability = "read" \/ chosen = "unset" THEN "auto" ELSE chosen

\* actionFor: reading runs, everything else asks unless the person said so.
actionFor(capability, chosen) ==
  CASE capability = "read" -> "auto"
    [] capability \in governable /\ chosen \in {"auto", "never"} -> chosen
    [] OTHER -> "ask"

\* largest: the order in which apps are dropped from a push, by the number of their
\* actions and then by name, which NameOf stands for.
NumberOf(a) == Cardinality({x \in Actions : AppOf[x] = a})
NameOf == CHOOSE f \in [Apps -> 1..Cardinality(Apps)] :
            \A a, b \in Apps : f[a] = f[b] => a = b
Before(a, b) == \/ NumberOf(a) > NumberOf(b)
                \/ NumberOf(a) = NumberOf(b) /\ NameOf[a] < NameOf[b]

\* pushBytes: what the actions of some apps cost, encoded.
pushBytes[apps \in SUBSET Apps] ==
  IF apps = {} THEN 0
  ELSE LET a == CHOOSE x \in apps : TRUE IN Weight[a] + pushBytes[apps \ {a}]

\* budgeted: whole apps are dropped, the largest first, until the rest fits.
budgeted(apps) ==
  {a \in apps : pushBytes[{b \in apps : ~ Before(b, a)}] =< AppsBytes}

\* resolved and flatten: the answer for the apps that were connected and whose
\* annotations the provider gave.  What it does not name is left out.
resolved(apps, policy) ==
  [a \in {x \in Actions : AppOf[x] \in budgeted(apps)} |->
     actionFor(kindOf(a), IF kindOf(a) = "read" THEN "unset" ELSE policy[AppOf[a]][kindOf(a)])]

NoActions == [a \in {} |-> "ask"]

needs_Absent(actions, a) == IF a \in DOMAIN actions THEN actions[a] ELSE "auto"

\* needs: what the machine's copy does not name asks.
needs(actions, a) ==
  IF a \in DOMAIN actions /\ actions[a] \in {"auto", "never"} THEN actions[a] ELSE "ask"

-----------------------------------------------------------------------------
(* A call.  It is the execute tool's batch of actions, a call of another   *)
(* meta-tool, which acts on nothing, or a batch that cannot be read.       *)

Unreadable == "unreadable"

\* callsIn and callOf: one bad entry makes the whole call unreadable.
callsIn(call) ==
  CASE ~ call.exec -> {}
    [] call.exec /\ call.entries \subseteq Actions -> call.entries
    [] OTHER -> {Unreadable}

\* hook and permit: the call goes out whole or not at all; every action that
\* asks is put to the person, whose answers allowed stands for.
permitted(actions, call, allowed) ==
  \A a \in callsIn(call) :
     /\ a # Unreadable
     /\ needs(actions, a) # "never"
     /\ needs(actions, a) = "ask" => a \in allowed
=============================================================================
