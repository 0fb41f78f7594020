----------------------------- MODULE QuorumRule -----------------------------
(***************************************************************************)
(* The decision rule of an election (determineWinner in                    *)
(* election/reputationBasedElection.go) as pure operators: how many votes  *)
(* a cluster of a given size asks for, and whom a ballot box elects.       *)
(* Peer IDs are positive integers, ordered like the ID strings the code    *)
(* compares; NoNode is the empty string.                                   *)
(***************************************************************************)
EXTENDS Integers, FiniteSets

NoNode == 0

NoMinimum(low, k) == k

AtLeast(low, k) == IF k < low THEN low ELSE k

(***************************************************************************)
(* The votes required from a cluster of n peers.                           *)
(***************************************************************************)
Required(n) ==
    IF n = 1      THEN 1
    ELSE IF n <= 3 THEN AtLeast(2, (n + 1) \div 2)
    ELSE IF n <= 8 THEN (n + 1) \div 2
    ELSE AtLeast(3, (n * 3) \div 10)

(***************************************************************************)
(* The candidates with the most votes.  The code scans the tally in map    *)
(* order and keeps the smaller ID on a tie.                                *)
(***************************************************************************)
Leading(votes) ==
    {c \in DOMAIN votes : \A d \in DOMAIN votes : votes[d] <= votes[c]}

Smallest(S) == CHOOSE c \in S : \A d \in S : c <= d

(***************************************************************************)
(* votes[c] is the tally of candidate c, participation the number of       *)
(* distinct voters recorded, n the size of the cluster the starter saw.    *)
(***************************************************************************)
DetermineWinner(votes, participation, n) ==
    LET winner == Smallest(Leading(votes))
    IN  IF /\ participation >= Required(n)
           /\ votes[winner] >= Required(n)
        THEN winner
        ELSE NoNode

=============================================================================
