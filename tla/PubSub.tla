-------------------------------- MODULE PubSub --------------------------------
(***************************************************************************)
(* What the bridge promises about subscriptions, with no handles, no       *)
(* locks and no counters: a client connects under an identity that is      *)
(* never used again, holds a set of event types, changes that set only     *)
(* through requests of its own, and loses it when it goes away.  The set   *)
(* "wanted" is what HasSubscribers answers: the event types for which an   *)
(* EuroScope callback does its work instead of returning at once.          *)
(*                                                                         *)
(* ClientRegistry implements this specification.                           *)
(***************************************************************************)
CONSTANTS Clients,      \* client identities
          Events        \* event types a client may name

VARIABLES used,         \* identities handed out so far
          topics,       \* event types of each connected client (partial function)
          wanted        \* event types somebody is subscribed to

vars == <<used, topics, wanted>>

WantedBy(t) == {e \in Events : \E c \in DOMAIN t : e \in t[c]}

Init == /\ used = {}
        /\ topics = [c \in {} |-> {}]
        /\ wanted = {}

(***************************************************************************)
(* Every step keeps "wanted" equal to what the connected clients hold.     *)
(***************************************************************************)
Become(t) == /\ topics' = t
             /\ wanted' = WantedBy(t)

Connect(c) ==
    /\ c \in Clients \ used
    /\ used' = used \union {c}
    /\ Become([d \in DOMAIN topics \union {c} |-> IF d = c THEN {} ELSE topics[d]])

Disconnect(c) ==
    /\ c \in DOMAIN topics
    /\ Become([d \in DOMAIN topics \ {c} |-> topics[d]])
    /\ UNCHANGED used

Subscribe(c, E) ==
    /\ c \in DOMAIN topics
    /\ Become([topics EXCEPT ![c] = @ \union E])
    /\ UNCHANGED used

Unsubscribe(c, E) ==
    /\ c \in DOMAIN topics
    /\ Become([topics EXCEPT ![c] = IF E = {} THEN {} ELSE @ \ E])
    /\ UNCHANGED used

DisconnectAll ==
    /\ Become([c \in {} |-> {}])
    /\ UNCHANGED used

Next == \/ \E c \in Clients :
               \/ Connect(c)
               \/ Disconnect(c)
               \/ \E E \in SUBSET Events : Subscribe(c, E) \/ Unsubscribe(c, E)
        \/ DisconnectAll

Spec == Init /\ [][Next]_vars
===============================================================================
