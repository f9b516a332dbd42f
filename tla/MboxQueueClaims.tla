--------------------------- MODULE MboxQueueClaims ---------------------------
(***************************************************************************)
(* What the mailbox documentation says of send and receive, stated over    *)
(* MboxQueue.  The code does otherwise: each of these is the one property  *)
(* of a run that finds it violated.                                        *)
(***************************************************************************)
EXTENDS MboxQueue

\* Taking one message leaves the messages of other channels for those who
\* listen to them: tail++ and count-- (docs/01_architecture.md:154).
OtherChannelsKept == [][tail' > tail => tail' = tail + 1]_vars

\* A delivered message is the one that was sent, payload included: entries do not
\* overlap (docs/03_shared_memory.md:132).
DeliveredIntact == \A r \in Readers : res[r].cause = "message" => res[r].intact
=============================================================================
