---------------------------- MODULE UpdateStream ----------------------------
(***************************************************************************)
(* What one refresh of a subscription promises to the rest of the poller:  *)
(* the updates the vendor submits are handled one at a time in the order   *)
(* of submission, the vendor runs ahead by a bounded number of updates,    *)
(* and a refresh succeeds only when the vendor did and nothing it          *)
(* submitted is left.  A poller that is being stopped promises less: it      *)
(* may take a refresh for done that was cut short.                         *)
(***************************************************************************)
EXTENDS Naturals

CONSTANT Ahead   \* how many updates may wait to be handled

VARIABLES
  offered,   \* the number of updates accepted from the vendor
  handled,   \* the number of updates handled, the first ones offered
  source,    \* "open", or how the vendor ended: "complete", "broken"
  result,    \* "none", or how the refresh ended: "ok", "error"
  stopping   \* the poller is being stopped

Init ==
  /\ offered = 0
  /\ handled = 0
  /\ source = "open"
  /\ result = "none"
  /\ stopping \in BOOLEAN

Offer ==
  /\ source = "open"
  /\ offered - handled < Ahead
  /\ offered' = offered + 1
  /\ UNCHANGED <<handled, source, result, stopping>>

SourceEnds ==
  /\ source = "open"
  /\ source' \in {"complete", "broken"}
  /\ UNCHANGED <<offered, handled, result, stopping>>

Handle ==
  /\ result = "none"
  /\ handled < offered
  /\ handled' = handled + 1
  /\ UNCHANGED <<offered, source, result, stopping>>

Succeed ==
  /\ result = "none"
  /\ stopping \/ (source = "complete" /\ handled = offered)
  /\ result' = "ok"
  /\ UNCHANGED <<offered, handled, source, stopping>>

\* The vendor or the handling of an update failed.
Fail ==
  /\ result = "none"
  /\ result' = "error"
  /\ UNCHANGED <<offered, handled, source, stopping>>

Stop ==
  /\ ~stopping
  /\ stopping' = TRUE
  /\ UNCHANGED <<offered, handled, source, result>>

Next == Stop \/ Offer \/ SourceEnds \/ Handle \/ Succeed \/ Fail

Spec == Init /\ [][Next]_<<offered, handled, source, result, stopping>>
=============================================================================
