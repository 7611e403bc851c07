------------------------------- MODULE Process -------------------------------
(***************************************************************************)
(* What whoever starts, stops and talks to the gateway's process may rely  *)
(* on, as an abstract specification: it starts with all of its listeners   *)
(* or not at all, a listener that was closed takes no new client, and once *)
(* the first one is closed nothing ends the process but its own success,   *)
(* which waits for every client.                                           *)
(***************************************************************************)
CONSTANTS
  Listener,
  Client,
  At           \* At[c] is the listener that client c connects to

VARIABLES
  stage,       \* "starting", "running" or "over"
  open,        \* the listeners that accept connections
  attached,    \* the clients that are connected
  inHand,      \* those whose request has not been answered in full
  result       \* how the process ended

vars == <<stage, open, attached, inHand, result>>

Init ==
  /\ stage = "starting"
  /\ open = {}
  /\ attached = {}
  /\ inHand = {}
  /\ result = "none"

Over(how) ==
  /\ stage' = "over"
  /\ result' = how
  /\ open' = {} /\ attached' = {} /\ inHand' = {}

Start ==
  /\ stage = "starting"
  /\ stage' = "running"
  /\ open' = Listener
  /\ UNCHANGED <<attached, inHand, result>>

Fail == stage = "starting" /\ Over("failure")

(* A signal that comes before the process listens to signals kills it, but *)
(* none does that has begun to close its listeners.                        *)
Kill ==
  /\ stage = "starting" \/ (stage = "running" /\ open = Listener)
  /\ Over("killed")

Close(l) ==
  /\ l \in open
  /\ open' = open \ {l}
  /\ UNCHANGED <<stage, attached, inHand, result>>

Succeed ==
  /\ stage = "running"
  /\ open = {}
  /\ attached = {}
  /\ Over("success")

Attach(c) ==
  /\ At[c] \in open
  /\ attached' = attached \cup {c}
  /\ UNCHANGED <<stage, open, inHand, result>>

Begin(c) ==
  /\ c \in attached
  /\ inHand' = inHand \cup {c}
  /\ UNCHANGED <<stage, open, attached, result>>

(* A client is answered, and may stay; or it leaves, answered or not. *)
Answer(c) ==
  /\ inHand' = inHand \ {c}
  /\ attached' \in {attached, attached \ {c}}
  /\ UNCHANGED <<stage, open, result>>

Next ==
  \/ Start \/ Fail \/ Kill \/ Succeed
  \/ \E l \in Listener : Close(l)
  \/ \E c \in Client : Attach(c) \/ Begin(c) \/ Answer(c)

Spec == Init /\ [][Next]_vars
=============================================================================
