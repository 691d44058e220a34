------------------------------ MODULE Rendezvous ------------------------------
(***************************************************************************)
(* What setting up a session promises, without saying how: a window is     *)
(* bound before the client is told of it; a client whose wait was answered *)
(* well has been told; nobody changes the verdict of its Initialize.  It   *)
(* does not promise that a server that returned "OK" has told anybody, nor *)
(* that a client that returned "OK" was told: neither side looks at the    *)
(* status of what it waited for.                                           *)
(***************************************************************************)
VARIABLES
  offer,   \* the server's window: not bound, bound, or bound and told of
  server,  \* the verdict of the server's Initialize
  client   \* the verdict of the client's, and whether it was answered

vars == <<offer, server, client>>

Init == offer = "none" /\ server = "running" /\ client = "running"

Bind == offer = "none" /\ offer' = "bound" /\ UNCHANGED <<server, client>>
Tell == offer = "bound" /\ offer' = "told" /\ UNCHANGED <<server, client>>

ServerReturns ==
  /\ server = "running" /\ server' \in {"OK", "error"}
  /\ UNCHANGED <<offer, client>>

ClientFails ==
  /\ client = "running" /\ client' \in {"error", "guessing"}
  /\ UNCHANGED <<offer, server>>

ClientLearns ==
  /\ client = "running" /\ offer = "told" /\ client' = "informed"
  /\ UNCHANGED <<offer, server>>

Next == Bind \/ Tell \/ ServerReturns \/ ClientFails \/ ClientLearns

Spec == Init /\ [][Next]_vars
=============================================================================
