---------------------------- MODULE AlertLifecycle ----------------------------
(***************************************************************************)
(* What a StatefulPolicy promises its caller about the notifications of    *)
(* one alert type, without times, Redis and locks: an event is opened, may *)
(* be alerted only at a later call, and repeatedly, and ends in silence    *)
(* while nobody was told of it or in a recovery once somebody was.  It may *)
(* also expire.  Ids of closed events are used again for new ones.         *)
(*                                                                         *)
(* AlertPolicy implements this specification; Coordinator builds on it.    *)
(***************************************************************************)
CONSTANTS EventId, None

VARIABLES
    phase,  \* phase[e]: "closed", "open" or "notified"
    out     \* what the last call returned: a kind and an event

vars == <<phase, out>>

Returns(kind, e) == out' = [kind |-> kind, ev |-> e]
Silent == Returns("none", None)
Become(e, to) == phase' = [phase EXCEPT ![e] = to]

Init ==
    /\ phase = [e \in EventId |-> "closed"]
    /\ out = [kind |-> "none", ev |-> None]

\* A call that returns nothing: the metric is normal, or too early to tell.
Wait == Silent /\ UNCHANGED phase

\* createNewState.
Open(e) == phase[e] = "closed" /\ Become(e, "open") /\ Silent

\* emitAlertResult.
Alert(e) == phase[e] # "closed" /\ Become(e, "notified") /\ Returns("alert", e)

\* handleRecovery without a prior notification.
Drop(e) == phase[e] = "open" /\ Become(e, "closed") /\ Silent

\* executeRecoveryFlow.
Recover(e) == phase[e] = "notified" /\ Become(e, "closed") /\ Returns("recovery", e)

\* handleNoConfigAlert: the id is none of an open event.
Fail(e) == phase[e] = "closed" /\ Returns("error", e) /\ UNCHANGED phase

\* The TTL of states in Redis.
Expire ==
    \E lost \in SUBSET EventId :
        /\ phase' = [e \in EventId |-> IF e \in lost THEN "closed" ELSE phase[e]]
        /\ Silent

Next ==
    \/ Wait \/ Expire
    \/ \E e \in EventId : Open(e) \/ Alert(e) \/ Drop(e) \/ Recover(e) \/ Fail(e)

Spec == Init /\ [][Next]_vars
=============================================================================
