----------------------------- MODULE MCClients ------------------------------
(* A small instance of Clients: requests and calls are model values, and one *)
(* of each may be cancelled.                                                 *)
EXTENDS Clients

CONSTANTS r1, r2, r3, c1, c2, c3

MCRequests == {r1, r2, r3}
MCInterruptible == {r1}
MCCalls == {c1, c2, c3}
MCCancelled == {c1}
=============================================================================
