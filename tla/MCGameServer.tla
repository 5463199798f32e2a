---------------------------- MODULE MCGameServer ----------------------------
EXTENDS GameServer, TLC

CONSTANT MaxRequests   \* bound: requests the users send, after which they stop
ASSUME MaxRequestsAssumption == MaxRequests \in Nat

\* The users and the codes are alike.
Symmetry == Permutations(User) \cup Permutations(Code)

VARIABLE sent

MCInit == Init /\ sent = 0
MCNext ==
  \E u \in User :
    \/ sent < MaxRequests /\ Send(u) /\ sent' = sent + 1
    \/ Handle(u) /\ UNCHANGED sent
MCSpec == MCInit /\ [][MCNext]_<<vars, sent>>
=============================================================================
