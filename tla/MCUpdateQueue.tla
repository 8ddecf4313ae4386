--------------------------- MODULE MCUpdateQueue ----------------------------
(* UpdateQueue with the buffer that the configuration gives, and without one *)
(* ("preload: 0"), where every update and every error is handed over.  The   *)
(* variable part says which.                                                 *)
EXTENDS UpdateQueue

VARIABLE part

Rendezvous == INSTANCE UpdateQueue WITH Preload <- 0

Of(p, Steps) == part = p /\ Steps /\ UNCHANGED part

QueueInit == part \in {"buffered", "rendezvous"} /\ Init
QueueNext == Of("buffered", Next) \/ Of("rendezvous", Rendezvous!Next)
queueRunVars == <<part, vars>>

QueueSpec ==
  /\ QueueInit /\ [][QueueNext]_queueRunVars
  /\ WF_queueRunVars(Of("buffered", VendorStep))
  /\ WF_queueRunVars(Of("buffered", TaskStep))
  /\ WF_queueRunVars(Of("rendezvous", Rendezvous!VendorStep))
  /\ WF_queueRunVars(Of("rendezvous", Rendezvous!TaskStep))
=============================================================================
