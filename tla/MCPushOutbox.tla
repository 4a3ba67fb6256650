----------------------------- MODULE MCPushOutbox -----------------------------
(* The outbox on a small instance: endpoints are interchangeable.          *)
EXTENDS PushOutbox, TLC

EndpointSymmetry == Permutations(Endpoints)
===============================================================================
