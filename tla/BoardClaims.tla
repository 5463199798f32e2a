---------------------------- MODULE BoardClaims ----------------------------
(***************************************************************************)
(* What the documentation says of a board at play, and the code does not   *)
(* do.                                                                     *)
(***************************************************************************)
EXTENDS BoardPlay

\* The three threads run, and a request is answered or fails in the end.
Fairness ==
  /\ WF_vars(Propagate)
  /\ WF_vars(DownloadCurrentGame)
  /\ WF_vars(UpdateFromServer \/ UpdateFails)
  /\ WF_vars(UpdateAfterSensors)
  /\ WF_vars(LegalMovesArrive)

FairSpec == Spec /\ Fairness

\* "If a board disconnects or turns off, all the information is stored in the
\* cloud, allowing the board to return to its the correct state" (README.md
\* 78-80): a board that has asked for its game goes on, whether it has
\* got an answer or not.
DownloadEnds ==
  pc \in {"downloading", "reading"} ~> pc \notin {"downloading", "reading"}
=============================================================================
