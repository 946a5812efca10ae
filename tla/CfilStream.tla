----------------------------- MODULE CfilStream ------------------------------
(***************************************************************************)
(* What the content filter promises the socket for one direction of one   *)
(* flow, without queues, events or chaining: the bytes given back to the  *)
(* socket are a prefix of the bytes submitted, and every attached agent   *)
(* has allowed all of them.  A drop ends the flow for good: nothing more  *)
(* is submitted, allowed or given back.                                    *)
(*                                                                         *)
(*   submitted  bytes the socket layer has handed to the filter            *)
(*   released   bytes given back to the socket (a prefix of submitted)    *)
(*   allowed    per agent, the pass offset it has granted                  *)
(*   attached   the agents filtering the flow                              *)
(*   dropped    a drop verdict was applied, or the flow was torn down     *)
(***************************************************************************)
EXTENDS Naturals, FiniteSets

CONSTANT Units

VARIABLES submitted, released, allowed, attached, dropped

vars == <<submitted, released, allowed, attached, dropped>>

\* The furthest the socket may have been given data: no further than was
\* submitted, nor than any attached agent allowed.
Limit(sub, alw, att) ==
    IF att = {} THEN sub
    ELSE LET least == CHOOSE a \in {alw[u] : u \in att} :
                          \A v \in att : a <= alw[v]
         IN  IF least < sub THEN least ELSE sub

\* Any step may give back data up to the limit after it; a dropped flow
\* gives back nothing.
Release ==
    IF dropped' THEN released' = released
    ELSE released' \in released..Limit(submitted', allowed', attached')

TypeOK ==
    /\ submitted \in Nat /\ released \in Nat
    /\ allowed \in [Units -> Nat] /\ attached \subseteq Units
    /\ dropped \in BOOLEAN

\* A datagram flow is created by its first datagram, which it already holds.
Init ==
    /\ allowed = [u \in Units |-> 0]
    /\ attached \subseteq Units
    /\ dropped = FALSE
    /\ submitted \in Nat
    /\ released \in 0..Limit(submitted, allowed, attached)

\* The socket layer submits more bytes (some may pass at once).
Submit ==
    /\ ~dropped
    /\ submitted' > submitted
    /\ UNCHANGED <<allowed, attached, dropped>>
    /\ Release

\* An attached agent raises the offset it allows.
Verdict(u) ==
    /\ ~dropped /\ u \in attached
    /\ allowed'[u] > allowed[u]
    /\ allowed' = [allowed EXCEPT ![u] = allowed'[u]]
    /\ UNCHANGED <<submitted, attached, dropped>>
    /\ Release

\* Data already allowed is given back later (a retried re-injection).
Reinject ==
    /\ ~dropped
    /\ released' > released
    /\ UNCHANGED <<submitted, allowed, attached, dropped>>
    /\ Release

\* A drop verdict.
Drop ==
    /\ ~dropped /\ dropped'
    /\ UNCHANGED <<submitted, released, allowed, attached>>

\* An agent goes away, allowing whatever it allows on the way out.
Leave(u) ==
    /\ u \in attached
    /\ attached' = attached \ {u}
    /\ allowed'[u] >= allowed[u]
    /\ allowed' = [allowed EXCEPT ![u] = allowed'[u]]
    /\ UNCHANGED <<submitted, dropped>>
    /\ Release

\* The flow is torn down (a garbage-collected datagram flow): every agent
\* is gone at once and nothing more moves.
Teardown ==
    /\ dropped' /\ attached' = {}
    /\ UNCHANGED <<submitted, released, allowed>>

Next ==
    \/ Submit
    \/ \E u \in Units : Verdict(u) \/ Leave(u)
    \/ Reinject
    \/ Drop
    \/ Teardown

Spec == Init /\ [][Next]_vars
=============================================================================
