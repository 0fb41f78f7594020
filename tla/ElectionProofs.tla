--------------------------- MODULE ElectionProofs ---------------------------
(***************************************************************************)
(* Theorems about the coordinator election, for any number of nodes,       *)
(* elections, failures and restarts, and any votes.                        *)
(***************************************************************************)
EXTENDS Election, WellFoundedInduction, FiniteSetTheorems, TLAPS

-----------------------------------------------------------------------------
(* The decision rule.                                                      *)

LEMMA SmallestIn ==
    ASSUME NEW S \in SUBSET Nat, S # {}
    PROVE  /\ Smallest(S) \in S
           /\ \A d \in S : Smallest(S) <= d
  <1>1. PICK c \in S : \A d \in S : ~ (<<d, c>> \in OpToRel(<, Nat))
    BY NatLessThanWellFounded, WFMin
  <1>2. ASSUME NEW d \in S PROVE c <= d
    <2>1. <<d, c>> \in Nat \X Nat /\ <<d, c>>[1] = d /\ <<d, c>>[2] = c
      OBVIOUS
    <2>2. ~ (d < c)
      BY <1>1, <2>1 DEF OpToRel
    <2> QED
      BY <2>2
  <1> QED
    BY <1>2 DEF Smallest

(***************************************************************************)
(* A tally has a candidate with the most votes.  The candidates up to k    *)
(* have one for every k: there is no smallest k for which they do not.     *)
(***************************************************************************)
LEMMA SomebodyLeads ==
    ASSUME NEW tally \in [Node -> Nat]
    PROVE  \E c \in Node : \A d \in Node : tally[d] <= tally[c]
  <1> DEFINE Leaderless ==
        {k \in Node : ~ \E c \in 1 .. k : \A d \in 1 .. k : tally[d] <= tally[c]}
  <1>1. Leaderless = {}
    <2> SUFFICES ASSUME Leaderless # {} PROVE FALSE
      OBVIOUS
    <2>1. Leaderless \in SUBSET Nat
      BY DEF Node
    <2> DEFINE k == Smallest(Leaderless)
    <2>2. k \in Leaderless /\ \A d \in Leaderless : k <= d
      BY <2>1, SmallestIn
    <2> HIDE DEF k
    <2>3. k # 1
      BY <2>2 DEF Node
    <2>4. k - 1 \in Node /\ k - 1 \notin Leaderless
      <3>1. k \in Nat /\ k \in 1 .. NumNodes
        BY <2>1, <2>2 DEF Node
      <3>2. k - 1 \in Node /\ ~ (k <= k - 1)
        BY <2>3, <3>1, NodesAssumption DEF Node
      <3> HIDE DEF Leaderless
      <3> QED
        BY <2>2, <3>2
    <2>5. PICK c \in 1 .. (k - 1) : \A d \in 1 .. (k - 1) : tally[d] <= tally[c]
      BY <2>4
    <2>6. 1 .. k \subseteq Node /\ c \in 1 .. k /\ k \in 1 .. k
      BY <2>2, NodesAssumption DEF Node
    <2>7. \E b \in 1 .. k : \A d \in 1 .. k : tally[d] <= tally[b]
      <3>1. CASE tally[k] <= tally[c]
        <4>1. \A d \in 1 .. k : tally[d] <= tally[c]
          BY <2>5, <2>6, <3>1
        <4> QED
          BY <4>1, <2>6
      <3>2. CASE ~ (tally[k] <= tally[c])
        <4>1. \A d \in 1 .. k : tally[d] <= tally[k]
          BY <2>5, <2>6, <3>2
        <4> QED
          BY <4>1, <2>6
      <3> QED
        BY <3>1, <3>2
    <2> QED
      BY <2>2, <2>7
  <1>2. NumNodes \in Node /\ Node = 1 .. NumNodes
    BY NodesAssumption DEF Node
  <1> QED
    BY <1>1, <1>2

LEMMA RequiredIsPositive ==
    ASSUME NEW k \in Nat
    PROVE  Required(k) \in Nat \ {0}
  BY DEF Required, AtLeast

(***************************************************************************)
(* Whoever wins has a vote.                                                *)
(***************************************************************************)
LEMMA WinnersHaveVotes ==
    ASSUME NEW tally \in [Node -> Nat], NEW participation, NEW k \in Nat,
           DetermineWinner(tally, participation, k) # NoNode
    PROVE  /\ DetermineWinner(tally, participation, k) \in Node
           /\ tally[DetermineWinner(tally, participation, k)] > 0
  <1> DEFINE winner == Smallest(Leading(tally))
  <1>1. Leading(tally) \in SUBSET Nat /\ Leading(tally) \subseteq Node
    BY DEF Leading, Node
  <1>2. Leading(tally) # {}
    BY SomebodyLeads DEF Leading
  <1>3. winner \in Node
    BY <1>1, <1>2, SmallestIn
  <1>4. DetermineWinner(tally, participation, k) = winner /\ tally[winner] >= Required(k)
    BY DEF DetermineWinner
  <1> HIDE DEF winner
  <1> QED
    BY <1>3, <1>4, RequiredIsPositive

(***************************************************************************)
(* Twice the required votes are more than the peers for five sizes of a    *)
(* cluster and for no other.                                               *)
(***************************************************************************)
LEMMA MajorityIsRequired ==
    ASSUME NEW n \in Nat \ {0}
    PROVE  /\ Required(n) \in Nat
           /\ 2 * Required(n) > n <=> n \in {1, 2, 3, 5, 7}
  <1>1. CASE n <= 8
    <2>1. n \in 1 .. 8
      BY <1>1
    <2>2. /\ Required(1) = 1 /\ Required(2) = 2 /\ Required(3) = 2
          /\ Required(4) = 2 /\ Required(5) = 3 /\ Required(6) = 3
          /\ Required(7) = 4 /\ Required(8) = 4
      BY DEF Required, AtLeast
    <2> QED
      BY <2>1, <2>2
  <1>2. CASE n > 8
    BY <1>2 DEF Required, AtLeast
  <1> QED
    BY <1>1, <1>2

(***************************************************************************)
(* A set of twice k or more elements has two parts of k elements without a *)
(* common one.                                                             *)
(***************************************************************************)
LEMMA PartsWithoutCommonElement ==
    ASSUME NEW S, IsFiniteSet(S), NEW k \in Nat \ {0}, 2 * k <= Cardinality(S)
    PROVE  \E P, Q \in SUBSET S :
               Cardinality(P) = k /\ Cardinality(Q) = k /\ P \cap Q = {}
  <1>1. Cardinality(S) \in Nat
    BY FS_CardinalityType
  <1>2. PICK f : f \in Bijection(1 .. Cardinality(S), S)
    BY FS_CardinalityType DEF ExistsBijection
  <1>3. /\ f \in [1 .. Cardinality(S) -> S]
        /\ \A i, j \in 1 .. Cardinality(S) : f[i] = f[j] => i = j
    BY <1>2 DEF Bijection, Injection, IsInjective
  <1> DEFINE Part(a) == {f[i] : i \in a + 1 .. a + k}
  <1>4. ASSUME NEW a \in {0, k}
        PROVE  Part(a) \subseteq S /\ Cardinality(Part(a)) = k
    <2> DEFINE g == [i \in a + 1 .. a + k |-> f[i]]
    <2>1. a + 1 .. a + k \subseteq 1 .. Cardinality(S)
      BY <1>1
    <2>2. g \in Bijection(a + 1 .. a + k, Part(a))
      <3>1. g \in [a + 1 .. a + k -> Part(a)]
        OBVIOUS
      <3>2. \A i, j \in a + 1 .. a + k : g[i] = g[j] => i = j
        BY <1>3, <2>1
      <3>3. \A x \in Part(a) : \E i \in a + 1 .. a + k : g[i] = x
        OBVIOUS
      <3> QED
        BY <3>1, <3>2, <3>3, Zenon DEF Bijection, Injection, IsInjective, Surjection
    <2>3. ExistsBijection(a + 1 .. a + k, Part(a))
      BY <2>2 DEF ExistsBijection
    <2>4. IsFiniteSet(a + 1 .. a + k) /\ Cardinality(a + 1 .. a + k) = k
      BY FS_Interval
    <2> QED
      BY <1>3, <2>1, <2>3, <2>4, FS_Bijection
  <1>5. Part(0) \cap Part(k) = {}
    <2>1. \A i \in 0 + 1 .. 0 + k, j \in k + 1 .. k + k :
              i \in 1 .. Cardinality(S) /\ j \in 1 .. Cardinality(S) /\ i # j
      BY <1>1
    <2> QED
      BY <1>3, <2>1
  <1> HIDE DEF Part
  <1> QED
    BY <1>4, <1>5

(***************************************************************************)
(* Which quorums meet.  The docs speak of a majority, but determineWinner  *)
(* asks for (n + 1) / 2 votes, and for less in larger clusters.  Any two   *)
(* groups that are each large enough to elect a coordinator by themselves  *)
(* share a peer in clusters of 1, 2, 3, 5 and 7 peers; a cluster of any    *)
(* other size has two such groups without a common peer, which can each    *)
(* elect one of their own when they do not hear of each other.             *)
(***************************************************************************)
THEOREM QuorumsMeet ==
    ASSUME NEW S, IsFiniteSet(S), S # {}
    PROVE  LET required == Required(Cardinality(S))
               Quorum == {Q \in SUBSET S : Cardinality(Q) >= required}
           IN  (\A P, Q \in Quorum : P \cap Q # {})
                    <=> Cardinality(S) \in {1, 2, 3, 5, 7}
  <1> DEFINE n == Cardinality(S)
             required == Required(n)
             Quorum == {Q \in SUBSET S : Cardinality(Q) >= required}
  <1>1. n \in Nat \ {0}
    BY FS_CardinalityType, FS_EmptySet
  <1>2. required \in Nat \ {0} /\ (2 * required > n <=> n \in {1, 2, 3, 5, 7})
    BY <1>1, RequiredIsPositive, MajorityIsRequired
  <1> HIDE DEF n, required
  <1>3. ASSUME 2 * required > n, NEW P \in Quorum, NEW Q \in Quorum, P \cap Q = {}
        PROVE  FALSE
    <2>1. /\ IsFiniteSet(P) /\ Cardinality(P) \in Nat
          /\ IsFiniteSet(Q) /\ Cardinality(Q) \in Nat
      BY FS_Subset, FS_CardinalityType
    <2>2. Cardinality(P \cup Q) = Cardinality(P) + Cardinality(Q)
      <3>1. Cardinality(P \cup Q) = Cardinality(P) + Cardinality(Q) - Cardinality(P \cap Q)
        BY <2>1, FS_Union
      <3>2. Cardinality(P \cap Q) = 0
        BY <1>3, FS_EmptySet
      <3> QED
        BY <2>1, <3>1, <3>2
    <2>3. Cardinality(P \cup Q) <= n
      BY FS_Subset DEF n
    <2> QED
      BY <1>1, <1>2, <1>3, <2>1, <2>2, <2>3
  <1>4. ASSUME ~ 2 * required > n
        PROVE  \E P, Q \in Quorum : P \cap Q = {}
    <2>1. 2 * required <= Cardinality(S)
      BY <1>1, <1>2, <1>4 DEF n
    <2>2. PICK P \in SUBSET S, Q \in SUBSET S :
              Cardinality(P) = required /\ Cardinality(Q) = required /\ P \cap Q = {}
      BY <1>2, <2>1, PartsWithoutCommonElement
    <2> QED
      BY <1>2, <2>2
  <1> QED
    BY <1>2, <1>3, <1>4 DEF n, required

-----------------------------------------------------------------------------
(* The inductive invariant, in parts that go by the variables they are     *)
(* about.                                                                  *)

(***************************************************************************)
(* Everybody some node may vote for.                                       *)
(***************************************************************************)
Candidates == UNION {Choices[n] : n \in Node}

ElectionIDs ==
    [term : Nat, attempt : Nat, peers : SUBSET Node, by : Node \cup {NoNode}]

Votes == [type : {"vote"}, node : Node, vote : Candidates, id : ElectionIDs, term : Nat]
Announcements == [type : {"announcement"}, node : Node, term : Nat]
Heartbeats == [type : {"heartbeat"}, node : Node, term : Nat]
Messages == Votes \cup Announcements \cup Heartbeats

LeadersOK ==
    /\ role \in [Node -> {"Follower", "Coordinator"}]
    /\ leader \in [Node -> Node \cup {NoNode}]
    /\ CoordinatorLeadsItself

TermsOK ==
    /\ currentTerm \in [Node -> Nat]
    /\ senders \in [Node -> SUBSET Nat]
    /\ promoter \in [Node -> [at : {"idle", "boot", "promote", "announced",
                                    "unannounced", "settling"}, term : Nat]]

(***************************************************************************)
(* A vote is for a candidate, on its way and in the ballot boxes.          *)
(***************************************************************************)
BallotsOK ==
    /\ votes \in [Node -> [Node -> Nat]]
    /\ votedNodes \in [Node -> [Node -> Candidates \cup {NoNode}]]
    /\ peerCount \in [Node -> Nat]
    /\ \A n \in Node : \A c \in Node \ Candidates : votes[n][c] = 0

NetworkOK ==
    /\ inbox \in [Node -> SUBSET Messages]
    /\ listener \in [Node -> {NextMessage} \cup [at : {"joined"}, msg : Votes]
                                           \cup [at : {"settling"}, msg : Announcements]]

(***************************************************************************)
(* What may be decided: an election for a candidate, and a promotion for   *)
(* the node that promotes itself.  An ID tells the two apart, and whose    *)
(* promotion it is.                                                        *)
(***************************************************************************)
Proper(n, id, ldr) ==
    IF id.peers # {} THEN ldr \in Candidates ELSE id.by = n /\ ldr = n

Starters ==
    [at : {"idle", "attempt", "open", "ballot", "waiting", "exhausted",
           "announced", "settling", "unannounced"},
     id : ElectionIDs, leader : Node \cup {NoNode}, term : Nat]

(***************************************************************************)
(* The starter has an election while it votes, none when its attempts are  *)
(* used up, and then a decision it announces: that of its election, its    *)
(* promotion, or one of the fallback, which has no ID.                     *)
(***************************************************************************)
Holds(n, s) ==
    /\ s.at \in {"open", "ballot", "waiting"} => s.id.peers # {}
    /\ s.at = "exhausted" => s.id = NoElection
    /\ s.at \in {"announced", "settling", "unannounced"} =>
         s.leader \in Node /\ (s.id = NoElection \/ Proper(n, s.id, s.leader))

StartersOK ==
    /\ starter \in [Node -> Starters]
    /\ isElecting \in [Node -> BOOLEAN]
    /\ \A n \in Node : /\ Holds(n, starter[n])
                       /\ isElecting[n] <=> starter[n].at # "idle"

LogsOK ==
    /\ electionLog \in [Node -> SUBSET [id : ElectionIDs, leader : Node]]
    /\ \A n \in Node : \A e \in electionLog[n] : Proper(n, e.id, e.leader)

ElectionInv ==
    LeadersOK /\ TermsOK /\ BallotsOK /\ NetworkOK /\ StartersOK /\ LogsOK

-----------------------------------------------------------------------------
(* What the steps leave alone.                                             *)

LEMMA CandidatesAreNodes == Candidates \subseteq Node
  BY ChoicesAssumption DEF Candidates

LEMMA NobodyIsNoNode == NoNode \notin Node
  BY DEF NoNode, Node

LEMMA NoElectionIsID == NoElection \in ElectionIDs
  BY DEF NoElection, ElectionID, ElectionIDs, NoNode

LEMMA LeadersStay ==
    ASSUME LeadersOK, UNCHANGED <<role, leader>>
    PROVE  LeadersOK'
  BY DEF LeadersOK, CoordinatorLeadsItself

LEMMA TermsStay ==
    ASSUME TermsOK, UNCHANGED <<currentTerm, senders, promoter>>
    PROVE  TermsOK'
  BY DEF TermsOK

LEMMA BallotsStay ==
    ASSUME BallotsOK, UNCHANGED <<votes, votedNodes, peerCount>>
    PROVE  BallotsOK'
  BY DEF BallotsOK

LEMMA NetworkStays ==
    ASSUME NetworkOK, UNCHANGED <<inbox, listener>>
    PROVE  NetworkOK'
  BY DEF NetworkOK

LEMMA StartersStay ==
    ASSUME StartersOK, UNCHANGED <<starter, isElecting>>
    PROVE  StartersOK'
  BY DEF StartersOK

LEMMA LogsStay ==
    ASSUME LogsOK, UNCHANGED electionLog
    PROVE  LogsOK'
  BY DEF LogsOK

-----------------------------------------------------------------------------
(* What the operators of the handlers do to the parts.                     *)

LEMMA Adopting ==
    ASSUME LeadersOK, NEW n \in Node, NEW ldr \in Node, Adopt(n, ldr)
    PROVE  LeadersOK'
  BY DEF LeadersOK, CoordinatorLeadsItself, Adopt

LEMMA TakingTerm ==
    ASSUME TermsOK, NEW n \in Node, NEW term \in Nat, TakeTerm(n, term),
           UNCHANGED <<senders, promoter>>
    PROVE  TermsOK'
  BY DEF TermsOK, TakeTerm

LEMMA Publishing ==
    ASSUME NetworkOK, NEW m \in Messages, Publish(m), UNCHANGED listener
    PROVE  NetworkOK'
  <1>1. inbox' \in [Node -> SUBSET Messages]
    BY DEF NetworkOK, Publish
  <1> QED
    BY <1>1 DEF NetworkOK

LEMMA Consuming ==
    ASSUME NetworkOK, NEW n \in Node, NEW m, Consume(n, m), UNCHANGED listener
    PROVE  NetworkOK'
  <1>1. inbox' \in [Node -> SUBSET Messages]
    BY DEF NetworkOK, Consume
  <1> QED
    BY <1>1 DEF NetworkOK

LEMMA EnteringStarter ==
    ASSUME StartersOK, NEW n \in Node, NEW s \in Starters, EnterStarter(n, s),
           Holds(n, s),
           \/ UNCHANGED isElecting /\ (s.at = "idle" <=> starter[n].at = "idle")
           \/ isElecting' = [isElecting EXCEPT ![n] = s.at # "idle"]
    PROVE  StartersOK'
  <1>1. /\ starter' \in [Node -> Starters]
        /\ starter'[n] = s
        /\ \A p \in Node : p # n => starter'[p] = starter[p]
    BY DEF StartersOK, EnterStarter
  <1>2. /\ isElecting' \in [Node -> BOOLEAN]
        /\ isElecting'[n] <=> s.at # "idle"
        /\ \A p \in Node : p # n => isElecting'[p] = isElecting[p]
    BY DEF StartersOK
  <1>3. ASSUME NEW p \in Node
        PROVE  Holds(p, starter'[p]) /\ (isElecting'[p] <=> starter'[p].at # "idle")
    <2>1. CASE p = n
      BY <1>1, <1>2, <2>1
    <2>2. CASE p # n
      BY <1>1, <1>2, <2>2 DEF StartersOK
    <2> QED
      BY <2>1, <2>2
  <1> QED
    BY <1>1, <1>2, <1>3 DEF StartersOK

LEMMA MovingStarter ==
    ASSUME StartersOK, NEW n \in Node, NEW pc, MoveStarter(n, pc),
           UNCHANGED isElecting, [starter[n] EXCEPT !.at = pc] \in Starters,
           pc # "idle", starter[n].at # "idle", Holds(n, [starter[n] EXCEPT !.at = pc])
    PROVE  StartersOK'
  <1>1. EnterStarter(n, [starter[n] EXCEPT !.at = pc])
    BY DEF MoveStarter, EnterStarter
  <1>2. [starter[n] EXCEPT !.at = pc].at = pc
    BY DEF StartersOK, Starters
  <1> QED
    BY <1>1, <1>2, EnteringStarter

LEMMA Logging ==
    ASSUME LogsOK, NEW n \in Node, NEW id \in ElectionIDs, NEW ldr \in Node,
           Proper(n, id, ldr), InsertElectionLog(n, id, ldr)
    PROVE  LogsOK'
  <1> DEFINE row == [id |-> id, leader |-> ldr]
  <1>1. CASE UNCHANGED electionLog
    BY <1>1, LogsStay
  <1>2. CASE electionLog' = [electionLog EXCEPT ![n] = @ \cup {row}]
    <2>1. /\ row \in [id : ElectionIDs, leader : Node]
          /\ Proper(n, row.id, row.leader)
      OBVIOUS
    <2>2. /\ electionLog' \in [Node -> SUBSET [id : ElectionIDs, leader : Node]]
          /\ electionLog'[n] = electionLog[n] \cup {row}
          /\ \A p \in Node : p # n => electionLog'[p] = electionLog[p]
      BY <1>2, <2>1 DEF LogsOK
    <2> HIDE DEF row
    <2>3. \A p \in Node : \A e \in electionLog'[p] : Proper(p, e.id, e.leader)
      BY <2>1, <2>2 DEF LogsOK
    <2> QED
      BY <2>2, <2>3 DEF LogsOK
  <1> QED
    BY <1>1, <1>2 DEF InsertElectionLog

-----------------------------------------------------------------------------
(* StartElection.                                                          *)

LEMMA StarterFields ==
    ASSUME StartersOK, NEW n \in Node
    PROVE  /\ starter[n] \in Starters
           /\ Holds(n, starter[n])
           /\ starter[n].id \in ElectionIDs
           /\ IdleStarter \in Starters
  BY NoElectionIsID DEF StartersOK, Starters, IdleStarter, NoNode

LEMMA StartElectionKeeps ==
    ASSUME ElectionInv, NEW n \in Node, StartElection(n)
    PROVE  ElectionInv'
  <1> DEFINE s == [IdleStarter EXCEPT !.at = "attempt"]
  <1>1. s \in Starters /\ Holds(n, s) /\ s.at = "attempt"
    BY StarterFields DEF IdleStarter, Starters, Holds, ElectionInv
  <1>2. EnterStarter(n, s) /\ isElecting' = [isElecting EXCEPT ![n] = s.at # "idle"]
    BY <1>1 DEF StartElection
  <1> HIDE DEF s
  <1>3. StartersOK'
    BY <1>1, <1>2, EnteringStarter DEF ElectionInv
  <1> QED
    BY <1>3, LeadersStay, TermsStay, BallotsStay, NetworkStays, LogsStay
       DEF ElectionInv, StartElection, leaderVars, ballotVars

LEMMA NewTermKeeps ==
    ASSUME ElectionInv, NEW n \in Node, NewTerm(n)
    PROVE  ElectionInv'
  <1>1. PICK peers \in {v \in Views : n \in v} :
          /\ peerCount' = [peerCount EXCEPT ![n] = Cardinality(peers)]
          /\ EnterStarter(n, [starter[n] EXCEPT !.at = "open",
               !.id = ElectionID(currentTerm[n] + 1, starter[n].id.attempt, peers)])
    BY DEF NewTerm
  <1>2. peers \in SUBSET Node /\ peers # {} /\ Cardinality(peers) \in Nat
    <2>1. IsFiniteSet(Node)
      BY FS_Interval, NodesAssumption DEF Node
    <2>2. peers \in SUBSET Node /\ peers # {}
      BY ViewsAssumption
    <2> QED
      BY <2>1, <2>2, FS_Subset, FS_CardinalityType
  <1>3. currentTerm[n] + 1 \in Nat
    BY DEF ElectionInv, TermsOK
  <1> DEFINE id == ElectionID(currentTerm[n] + 1, starter[n].id.attempt, peers)
             s == [starter[n] EXCEPT !.at = "open", !.id = id]
  <1>4. id \in ElectionIDs /\ id.peers # {}
    BY <1>2, <1>3, StarterFields DEF ElectionInv, ElectionID, ElectionIDs
  <1> HIDE DEF id
  <1>5. s \in Starters /\ Holds(n, s) /\ s.at = "open"
    <2>1. starter[n] \in Starters
      BY StarterFields DEF ElectionInv
    <2>2. s \in Starters /\ s.at = "open" /\ s.id = id
      BY <2>1, <1>4 DEF Starters
    <2> HIDE DEF s
    <2> QED
      BY <2>2, <1>4 DEF Holds
  <1>6. EnterStarter(n, s) /\ starter[n].at # "idle" /\ UNCHANGED isElecting
    BY <1>1 DEF NewTerm, id
  <1> HIDE DEF s
  <1>7. StartersOK'
    BY <1>5, <1>6, EnteringStarter DEF ElectionInv
  <1>8. TermsOK'
    BY <1>3, TakingTerm DEF ElectionInv, NewTerm
  <1>9. BallotsOK'
    BY <1>1, <1>2 DEF ElectionInv, BallotsOK, NewTerm, ballotVars
  <1> QED
    BY <1>7, <1>8, <1>9, LeadersStay, NetworkStays, LogsStay
       DEF ElectionInv, NewTerm, leaderVars

LEMMA EmptyBox ==
    ASSUME ElectionInv, NEW n \in Node,
           votes' = [votes EXCEPT ![n] = NoVotes],
           votedNodes' = [votedNodes EXCEPT ![n] = NoVoters],
           UNCHANGED peerCount
    PROVE  BallotsOK'
  BY DEF ElectionInv, BallotsOK, NoVotes, NoVoters, NoNode

LEMMA OpenElectionKeeps ==
    ASSUME ElectionInv, NEW n \in Node, OpenElection(n)
    PROVE  ElectionInv'
  <1>1. BallotsOK'
    BY EmptyBox DEF OpenElection
  <1>2. /\ [starter[n] EXCEPT !.at = "ballot"] \in Starters
        /\ Holds(n, [starter[n] EXCEPT !.at = "ballot"])
    BY StarterFields DEF ElectionInv, OpenElection, Starters, Holds
  <1>3. StartersOK'
    BY <1>2, MovingStarter DEF ElectionInv, OpenElection
  <1> QED
    BY <1>1, <1>3, LeadersStay, TermsStay, NetworkStays, LogsStay
       DEF ElectionInv, OpenElection, leaderVars

(***************************************************************************)
(* One more vote for a candidate.                                          *)
(***************************************************************************)
LEMMA OneMoreVote ==
    ASSUME BallotsOK, NEW n \in Node, NEW v, NEW c \in Candidates,
           votedNodes' = [votedNodes EXCEPT ![n][v] = c],
           votes' = [votes EXCEPT ![n][c] = @ + 1],
           UNCHANGED peerCount
    PROVE  BallotsOK'
  <1>1. c \in Node
    BY CandidatesAreNodes
  <1>2. votes' \in [Node -> [Node -> Nat]]
    BY <1>1 DEF BallotsOK
  <1>3. votedNodes' \in [Node -> [Node -> Candidates \cup {NoNode}]]
    BY DEF BallotsOK
  <1>4. \A p \in Node : \A d \in Node \ Candidates : votes'[p][d] = 0
    BY DEF BallotsOK
  <1> QED
    BY <1>2, <1>3, <1>4 DEF BallotsOK

LEMMA CastOwnVoteKeeps ==
    ASSUME ElectionInv, NEW n \in Node, CastOwnVote(n)
    PROVE  ElectionInv'
  <1>1. PICK c \in Choices[n] :
          /\ votedNodes' = [votedNodes EXCEPT ![n][n] = c]
          /\ votes' = [votes EXCEPT ![n][c] = @ + 1]
          /\ Publish(VoteMessage(n, c, starter[n].id, starter[n].id.term))
    BY DEF CastOwnVote
  <1>2. c \in Candidates
    BY DEF Candidates
  <1>3. BallotsOK'
    BY <1>1, <1>2, OneMoreVote DEF ElectionInv, CastOwnVote
  <1>4. VoteMessage(n, c, starter[n].id, starter[n].id.term) \in Messages
    BY <1>2, StarterFields DEF ElectionInv, VoteMessage, Messages, Votes, ElectionIDs
  <1>5. NetworkOK'
    BY <1>1, <1>4, Publishing DEF ElectionInv, CastOwnVote
  <1>6. /\ [starter[n] EXCEPT !.at = "waiting"] \in Starters
        /\ Holds(n, [starter[n] EXCEPT !.at = "waiting"])
    BY StarterFields DEF ElectionInv, CastOwnVote, Starters, Holds
  <1>7. StartersOK'
    BY <1>6, MovingStarter DEF ElectionInv, CastOwnVote
  <1> QED
    BY <1>3, <1>5, <1>7, LeadersStay, TermsStay, LogsStay
       DEF ElectionInv, CastOwnVote, leaderVars

LEMMA GoingOn ==
    ASSUME StartersOK, NEW n \in Node, starter[n].at = "waiting", NextAttempt(n),
           UNCHANGED isElecting
    PROVE  StartersOK'
  <1> DEFINE again == [IdleStarter EXCEPT !.at = "attempt",
                          !.id.attempt = starter[n].id.attempt + 1]
             over  == [IdleStarter EXCEPT !.at = "exhausted"]
  <1>1. starter[n].id.attempt + 1 \in Nat
    BY StarterFields DEF ElectionIDs
  <1>2. again \in Starters /\ Holds(n, again) /\ again.at # "idle"
    BY <1>1, StarterFields DEF IdleStarter, Starters, ElectionIDs, Holds
  <1>3. over \in Starters /\ Holds(n, over) /\ over.at # "idle"
    BY StarterFields DEF IdleStarter, Starters, Holds
  <1>4. EnterStarter(n, again) \/ EnterStarter(n, over)
    BY DEF NextAttempt
  <1> HIDE DEF again, over
  <1> QED
    BY <1>2, <1>3, <1>4, EnteringStarter

LEMMA AbortFinalizationKeeps ==
    ASSUME ElectionInv, NEW n \in Node, AbortFinalization(n)
    PROVE  ElectionInv'
  BY GoingOn, LeadersStay, TermsStay, BallotsStay, NetworkStays, LogsStay
     DEF ElectionInv, AbortFinalization, leaderVars, ballotVars

LEMMA FinalizeWithoutWinnerKeeps ==
    ASSUME ElectionInv, NEW n \in Node, FinalizeWithoutWinner(n)
    PROVE  ElectionInv'
  BY GoingOn, LeadersStay, TermsStay, BallotsStay, NetworkStays, LogsStay
     DEF ElectionInv, FinalizeWithoutWinner, leaderVars

(***************************************************************************)
(* What a starter announces, whether the publish succeeds or not.          *)
(***************************************************************************)
LEMMA Announcing ==
    ASSUME StartersOK, NetworkOK, NEW n \in Node, NEW ldr \in Node, NEW term \in Nat,
           NEW s \in Starters, s.id = NoElection \/ Proper(n, s.id, ldr),
           Announce(n, ldr, term, s), starter[n].at # "idle",
           UNCHANGED <<isElecting, listener>>
    PROVE  StartersOK' /\ NetworkOK'
  <1> DEFINE on  == [s EXCEPT !.at = "announced", !.leader = ldr, !.term = term]
             off == [s EXCEPT !.at = "unannounced", !.leader = ldr, !.term = term]
             m   == AnnouncementMessage(ldr, term)
  <1>1. on \in Starters /\ on.at = "announced" /\ on.id = s.id /\ on.leader = ldr
    BY DEF Starters
  <1>2. off \in Starters /\ off.at = "unannounced" /\ off.id = s.id /\ off.leader = ldr
    BY DEF Starters
  <1>3. m \in Messages
    BY DEF AnnouncementMessage, Messages, Announcements
  <1>4. \/ Publish(m) /\ EnterStarter(n, on)
        \/ UNCHANGED inbox /\ EnterStarter(n, off)
    BY DEF Announce
  <1> HIDE DEF on, off, m
  <1>5. Holds(n, on) /\ Holds(n, off)
    BY <1>1, <1>2 DEF Holds
  <1>6. StartersOK'
    BY <1>1, <1>2, <1>4, <1>5, EnteringStarter
  <1>7. NetworkOK'
    BY <1>3, <1>4, Publishing, NetworkStays
  <1> QED
    BY <1>6, <1>7

LEMMA FinalizeWithWinnerKeeps ==
    ASSUME ElectionInv, NEW n \in Node, FinalizeWithWinner(n)
    PROVE  ElectionInv'
  <1>1. Tally(n) \in Node /\ votes[n][Tally(n)] > 0
    BY WinnersHaveVotes DEF ElectionInv, BallotsOK, FinalizeWithWinner, Tally
  <1>2. Tally(n) \in Candidates
    BY <1>1 DEF ElectionInv, BallotsOK
  <1>3. /\ starter[n] \in Starters
        /\ starter[n].id.peers # {}
        /\ starter[n].id.term \in Nat
        /\ starter[n].at # "idle"
    BY StarterFields DEF ElectionInv, FinalizeWithWinner, Holds, ElectionIDs
  <1>4. Proper(n, starter[n].id, Tally(n))
    BY <1>2, <1>3 DEF Proper
  <1>5. Announce(n, Tally(n), starter[n].id.term, starter[n])
    BY DEF FinalizeWithWinner
  <1>6. StartersOK' /\ NetworkOK'
    BY <1>1, <1>3, <1>4, <1>5, Announcing DEF ElectionInv, FinalizeWithWinner
  <1> QED
    BY <1>6, LeadersStay, TermsStay, BallotsStay, LogsStay
       DEF ElectionInv, FinalizeWithWinner, leaderVars

LEMMA PromoteAfterFailuresKeeps ==
    ASSUME ElectionInv, NEW n \in Node, PromoteAfterFailures(n)
    PROVE  ElectionInv'
  <1> DEFINE term == currentTerm[n] + 1
             s == [starter[n] EXCEPT !.id = PromotionID(n, term)]
  <1>1. term \in Nat
    BY DEF ElectionInv, TermsOK
  <1>2. /\ PromotionID(n, term) \in ElectionIDs
        /\ Proper(n, PromotionID(n, term), n)
    BY <1>1 DEF PromotionID, ElectionID, ElectionIDs, NoNode, Proper
  <1>3. /\ starter[n].at # "idle"
        /\ TakeTerm(n, term)
        /\ Announce(n, n, term, s)
    BY DEF PromoteAfterFailures
  <1>4. s \in Starters /\ s.id = PromotionID(n, term)
    BY <1>2, StarterFields DEF ElectionInv, Starters
  <1> HIDE DEF s, term
  <1>5. StartersOK' /\ NetworkOK'
    BY <1>1, <1>2, <1>3, <1>4, Announcing DEF ElectionInv, PromoteAfterFailures
  <1>6. TermsOK'
    BY <1>1, <1>3, TakingTerm DEF ElectionInv, PromoteAfterFailures
  <1> QED
    BY <1>5, <1>6, LeadersStay, BallotsStay, LogsStay
       DEF ElectionInv, PromoteAfterFailures, leaderVars

LEMMA FallbackElectionKeeps ==
    ASSUME ElectionInv, NEW n \in Node, FallbackElection(n)
    PROVE  ElectionInv'
  <1>1. PICK best \in Ranked \cup {n} : Announce(n, best, currentTerm[n] + 1, starter[n])
    BY DEF FallbackElection
  <1>2. best \in Node
    BY ChoicesAssumption
  <1>3. currentTerm[n] + 1 \in Nat
    BY DEF ElectionInv, TermsOK
  <1>4. /\ starter[n] \in Starters
        /\ starter[n].id = NoElection
        /\ starter[n].at # "idle"
    BY StarterFields DEF ElectionInv, FallbackElection, Holds
  <1>5. StartersOK' /\ NetworkOK'
    BY <1>1, <1>2, <1>3, <1>4, Announcing DEF ElectionInv, FallbackElection
  <1> QED
    BY <1>5, LeadersStay, TermsStay, BallotsStay, LogsStay
       DEF ElectionInv, FallbackElection, leaderVars, ballotVars

LEMMA AdoptAnnouncedKeeps ==
    ASSUME ElectionInv, NEW n \in Node, AdoptAnnounced(n)
    PROVE  ElectionInv'
  <1>1. starter[n] \in Starters /\ starter[n].leader \in Node
    BY StarterFields DEF ElectionInv, AdoptAnnounced, Holds
  <1>2. LeadersOK'
    BY <1>1, Adopting DEF ElectionInv, AdoptAnnounced
  <1>3. /\ [starter[n] EXCEPT !.at = "settling"] \in Starters
        /\ Holds(n, [starter[n] EXCEPT !.at = "settling"])
    BY StarterFields DEF ElectionInv, AdoptAnnounced, Starters, Holds
  <1>4. StartersOK'
    BY <1>3, MovingStarter DEF ElectionInv, AdoptAnnounced
  <1> QED
    BY <1>2, <1>4, TermsStay, BallotsStay, NetworkStays, LogsStay
       DEF ElectionInv, AdoptAnnounced, ballotVars

LEMMA Concluding ==
    ASSUME ElectionInv, NEW n \in Node, starter[n].at \in {"settling", "unannounced"},
           Conclude(n)
    PROVE  StartersOK' /\ LogsOK'
  <1>1. /\ starter[n].id \in ElectionIDs
        /\ starter[n].leader \in Node
        /\ starter[n].id = NoElection \/ Proper(n, starter[n].id, starter[n].leader)
    BY StarterFields DEF ElectionInv, Holds
  <1>2. LogsOK'
    BY <1>1, Logging, LogsStay DEF ElectionInv, Conclude
  <1>3. IdleStarter \in Starters /\ Holds(n, IdleStarter) /\ IdleStarter.at = "idle"
    BY StarterFields DEF ElectionInv, IdleStarter, Holds
  <1>4. /\ EnterStarter(n, IdleStarter)
        /\ isElecting' = [isElecting EXCEPT ![n] = IdleStarter.at # "idle"]
    BY <1>3 DEF Conclude, ReleaseFlag
  <1>5. StartersOK'
    BY <1>3, <1>4, EnteringStarter DEF ElectionInv
  <1> QED
    BY <1>2, <1>5

LEMMA SettleAnnouncedKeeps ==
    ASSUME ElectionInv, NEW n \in Node, SettleAnnounced(n)
    PROVE  ElectionInv'
  <1>1. StartersOK' /\ LogsOK'
    BY Concluding DEF SettleAnnounced
  <1>2. starter[n].term \in Nat
    BY StarterFields DEF ElectionInv, Starters
  <1>3. TermsOK'
    BY <1>2 DEF ElectionInv, TermsOK, SettleAnnounced, Conclude, TakeTerm, StartSender
  <1> QED
    BY <1>1, <1>3, LeadersStay, BallotsStay, NetworkStays
       DEF ElectionInv, SettleAnnounced, Conclude, leaderVars, ballotVars

LEMMA ConcludeUnannouncedKeeps ==
    ASSUME ElectionInv, NEW n \in Node, ConcludeUnannounced(n)
    PROVE  ElectionInv'
  <1>1. StartersOK' /\ LogsOK'
    BY Concluding DEF ConcludeUnannounced
  <1> QED
    BY <1>1, LeadersStay, TermsStay, BallotsStay, NetworkStays
       DEF ElectionInv, ConcludeUnannounced, Conclude, leaderVars, ballotVars

-----------------------------------------------------------------------------
(* Promotions outside an election.                                         *)

LEMMA MovingPromoter ==
    ASSUME TermsOK, NEW n \in Node,
           NEW pc \in {"idle", "boot", "promote", "announced", "unannounced", "settling"},
           MovePromoter(n, pc), UNCHANGED <<currentTerm, senders>>
    PROVE  TermsOK'
  BY DEF TermsOK, MovePromoter

LEMMA BootKeeps ==
    ASSUME ElectionInv, NEW n \in Node, BootPromotion(n) \/ BootWithoutPromotion(n)
    PROVE  ElectionInv'
  <1>1. TermsOK'
    BY MovingPromoter DEF ElectionInv, BootPromotion, BootWithoutPromotion
  <1> QED
    BY <1>1, LeadersStay, BallotsStay, NetworkStays, StartersStay, LogsStay
       DEF ElectionInv, BootPromotion, BootWithoutPromotion, leaderVars, ballotVars

LEMMA BlockedByIsolationKeeps ==
    ASSUME ElectionInv, NEW n \in Node, BlockedByIsolation(n)
    PROVE  ElectionInv'
  <1>1. TermsOK'
    BY MovingPromoter DEF ElectionInv, BlockedByIsolation
  <1> QED
    BY <1>1, LeadersStay, BallotsStay, NetworkStays, StartersStay, LogsStay
       DEF ElectionInv, BlockedByIsolation, leaderVars, ballotVars

LEMMA PromoteKeeps ==
    ASSUME ElectionInv, NEW n \in Node, Promote(n)
    PROVE  ElectionInv'
  <1> DEFINE term == currentTerm[n] + 1
             m == AnnouncementMessage(n, term)
  <1>1. term \in Nat
    BY DEF ElectionInv, TermsOK
  <1>2. m \in Messages
    BY <1>1 DEF AnnouncementMessage, Messages, Announcements
  <1>3. /\ TakeTerm(n, term)
        /\ \/ /\ Publish(m)
              /\ promoter' = [promoter EXCEPT ![n] = [at |-> "announced", term |-> term]]
           \/ /\ promoter' = [promoter EXCEPT ![n] = [at |-> "unannounced", term |-> term]]
              /\ UNCHANGED inbox
        /\ UNCHANGED <<senders, listener>>
    BY DEF Promote
  <1> HIDE DEF m, term
  <1>4. NetworkOK'
    BY <1>2, <1>3, Publishing, NetworkStays DEF ElectionInv
  <1>5. TermsOK'
    <2>1. currentTerm' \in [Node -> Nat] /\ senders' \in [Node -> SUBSET Nat]
      BY <1>1, <1>3 DEF ElectionInv, TermsOK, TakeTerm
    <2>2. \E pc \in {"announced", "unannounced"} :
            promoter' = [promoter EXCEPT ![n] = [at |-> pc, term |-> term]]
      BY <1>3
    <2> QED
      BY <1>1, <2>1, <2>2 DEF ElectionInv, TermsOK
  <1> QED
    BY <1>4, <1>5, LeadersStay, BallotsStay, StartersStay, LogsStay
       DEF ElectionInv, Promote, leaderVars

LEMMA AdoptPromotedKeeps ==
    ASSUME ElectionInv, NEW n \in Node, AdoptPromoted(n)
    PROVE  ElectionInv'
  <1>1. LeadersOK'
    BY Adopting DEF ElectionInv, AdoptPromoted
  <1>2. TermsOK'
    BY MovingPromoter DEF ElectionInv, AdoptPromoted
  <1> QED
    BY <1>1, <1>2, BallotsStay, NetworkStays, StartersStay, LogsStay
       DEF ElectionInv, AdoptPromoted, ballotVars

LEMMA LoggingPromotion ==
    ASSUME ElectionInv, NEW n \in Node, LogPromotion(n)
    PROVE  LogsOK'
  <1>1. promoter[n].term \in Nat
    BY DEF ElectionInv, TermsOK
  <1> DEFINE id == PromotionID(n, promoter[n].term)
  <1>2. id \in ElectionIDs /\ Proper(n, id, n)
    BY <1>1 DEF PromotionID, ElectionID, ElectionIDs, NoNode, Proper
  <1>3. InsertElectionLog(n, id, n)
    BY DEF LogPromotion
  <1> HIDE DEF id
  <1> QED
    BY <1>2, <1>3, Logging DEF ElectionInv

LEMMA SettlePromotedKeeps ==
    ASSUME ElectionInv, NEW n \in Node, SettlePromoted(n)
    PROVE  ElectionInv'
  <1>1. LogsOK'
    BY LoggingPromotion DEF SettlePromoted
  <1>2. promoter[n].term \in Nat
    BY DEF ElectionInv, TermsOK
  <1>3. TermsOK'
    <2>1. currentTerm' \in [Node -> Nat] /\ senders' \in [Node -> SUBSET Nat]
      BY <1>2 DEF ElectionInv, TermsOK, SettlePromoted, TakeTerm, StartSender
    <2>2. promoter' = [promoter EXCEPT ![n] = [at |-> "idle", term |-> 0]]
      BY DEF SettlePromoted, LogPromotion, IdlePromoter
    <2> QED
      BY <2>1, <2>2 DEF ElectionInv, TermsOK
  <1> QED
    BY <1>1, <1>3, LeadersStay, BallotsStay, NetworkStays, StartersStay
       DEF ElectionInv, SettlePromoted, LogPromotion, leaderVars, ballotVars

LEMMA LogUnannouncedKeeps ==
    ASSUME ElectionInv, NEW n \in Node, LogUnannounced(n)
    PROVE  ElectionInv'
  <1>1. LogsOK'
    BY LoggingPromotion DEF LogUnannounced
  <1>2. TermsOK'
    BY DEF ElectionInv, TermsOK, LogUnannounced, LogPromotion, IdlePromoter
  <1> QED
    BY <1>1, <1>2, LeadersStay, BallotsStay, NetworkStays, StartersStay
       DEF ElectionInv, LogUnannounced, LogPromotion, leaderVars, ballotVars

-----------------------------------------------------------------------------
(* The listener.                                                           *)

LEMMA Received ==
    ASSUME NetworkOK, NEW n \in Node, NEW m, Receive(n, m)
    PROVE  /\ m \in Messages
           /\ m.type = "vote" => m \in Votes
           /\ m.type = "announcement" => m \in Announcements
           /\ m.type = "heartbeat" => m \in Heartbeats
  <1>1. m \in Messages
    BY DEF NetworkOK, Receive
  <1> QED
    BY <1>1 DEF Messages, Votes, Announcements, Heartbeats

LEMMA DropMessageKeeps ==
    ASSUME ElectionInv, NEW n \in Node, NEW m, DropMessage(n, m)
    PROVE  ElectionInv'
  <1>1. NetworkOK'
    BY Consuming DEF ElectionInv, DropMessage, processVars
  <1> QED
    BY <1>1, LeadersStay, TermsStay, BallotsStay, StartersStay, LogsStay
       DEF ElectionInv, DropMessage, leaderVars, ballotVars, processVars

LEMMA CountingVote ==
    ASSUME BallotsOK, NEW n \in Node, NEW m \in Votes, CountVote(n, m), UNCHANGED peerCount
    PROVE  BallotsOK'
  <1>1. m.vote \in Candidates
    BY DEF Votes
  <1>2. \/ UNCHANGED <<votes, votedNodes>>
        \/ /\ votedNodes' = [votedNodes EXCEPT ![n][m.node] = m.vote]
           /\ votes' = [votes EXCEPT ![n][m.vote] = @ + 1]
    BY DEF CountVote
  <1> QED
    BY <1>1, <1>2, OneMoreVote, BallotsStay

LEMMA JoinElectionKeeps ==
    ASSUME ElectionInv, NEW n \in Node, NEW m, JoinElection(n, m)
    PROVE  ElectionInv'
  <1>1. m \in Votes /\ m.term \in Nat /\ m.id \in ElectionIDs
    BY Received DEF ElectionInv, JoinElection, Votes
  <1>2. PICK c \in Choices[n] :
          /\ votedNodes' = [votedNodes EXCEPT ![n] = OwnVoteOnly(n, c)]
          /\ votes' = [votes EXCEPT ![n] = [NoVotes EXCEPT ![c] = 1]]
          /\ inbox' = [p \in Node |-> (IF p = n THEN inbox[p] \ {m} ELSE inbox[p])
                                       \cup {VoteMessage(n, c, m.id, m.term)}]
    BY DEF JoinElection
  <1>3. c \in Candidates /\ c \in Node
    BY CandidatesAreNodes DEF Candidates
  <1>4. BallotsOK'
    <2> DEFINE box == [NoVotes EXCEPT ![c] = 1]
    <2>1. /\ box \in [Node -> Nat]
          /\ \A d \in Node \ Candidates : box[d] = 0
      BY <1>3 DEF NoVotes
    <2>2. OwnVoteOnly(n, c) \in [Node -> Candidates \cup {NoNode}]
      BY <1>3 DEF OwnVoteOnly, NoVoters
    <2>3. votes' = [votes EXCEPT ![n] = box] /\ UNCHANGED peerCount
      BY <1>2 DEF JoinElection
    <2> HIDE DEF box
    <2>4. votes' \in [Node -> [Node -> Nat]]
      BY <2>1, <2>3 DEF ElectionInv, BallotsOK
    <2>5. \A p \in Node : \A d \in Node \ Candidates : votes'[p][d] = 0
      BY <2>1, <2>3 DEF ElectionInv, BallotsOK
    <2>6. votedNodes' \in [Node -> [Node -> Candidates \cup {NoNode}]]
      BY <1>2, <2>2 DEF ElectionInv, BallotsOK
    <2> QED
      BY <2>3, <2>4, <2>5, <2>6 DEF ElectionInv, BallotsOK
  <1>5. NetworkOK'
    <2>1. VoteMessage(n, c, m.id, m.term) \in Messages
      BY <1>1, <1>3 DEF VoteMessage, Messages, Votes
    <2>2. inbox' \in [Node -> SUBSET Messages]
      BY <1>2, <2>1 DEF ElectionInv, NetworkOK
    <2>3. listener' = [listener EXCEPT ![n] = [at |-> "joined", msg |-> m]]
      BY DEF JoinElection
    <2>4. [at |-> "joined", msg |-> m] \in [at : {"joined"}, msg : Votes]
      BY <1>1
    <2> QED
      BY <2>2, <2>3, <2>4 DEF ElectionInv, NetworkOK
  <1>6. TermsOK'
    BY <1>1, TakingTerm DEF ElectionInv, JoinElection
  <1> QED
    BY <1>4, <1>5, <1>6, LeadersStay, StartersStay, LogsStay
       DEF ElectionInv, JoinElection, leaderVars

LEMMA ListenerReady ==
    ASSUME NetworkOK, NEW n \in Node, listener' = [listener EXCEPT ![n] = NextMessage],
           UNCHANGED inbox
    PROVE  NetworkOK'
  BY DEF NetworkOK

LEMMA CountAfterJoinKeeps ==
    ASSUME ElectionInv, NEW n \in Node, CountAfterJoin(n)
    PROVE  ElectionInv'
  <1>1. listener[n].msg \in Votes
    BY DEF ElectionInv, NetworkOK, CountAfterJoin, NextMessage
  <1>2. BallotsOK'
    BY <1>1, CountingVote DEF ElectionInv, CountAfterJoin
  <1>3. NetworkOK'
    BY ListenerReady DEF ElectionInv, CountAfterJoin
  <1> QED
    BY <1>2, <1>3, LeadersStay, TermsStay, StartersStay, LogsStay
       DEF ElectionInv, CountAfterJoin, leaderVars

LEMMA HandleVoteKeeps ==
    ASSUME ElectionInv, NEW n \in Node, NEW m, HandleVote(n, m)
    PROVE  ElectionInv'
  <1>1. m \in Votes
    BY Received DEF ElectionInv, HandleVote
  <1>2. BallotsOK'
    BY <1>1, CountingVote DEF ElectionInv, HandleVote
  <1>3. NetworkOK'
    BY Consuming DEF ElectionInv, HandleVote, processVars
  <1> QED
    BY <1>2, <1>3, LeadersStay, TermsStay, StartersStay, LogsStay
       DEF ElectionInv, HandleVote, leaderVars, processVars

LEMMA HandleHeartbeatKeeps ==
    ASSUME ElectionInv, NEW n \in Node, NEW m, HandleHeartbeat(n, m)
    PROVE  ElectionInv'
  <1>1. m.node \in Node /\ m.term \in Nat
    BY Received DEF ElectionInv, HandleHeartbeat, Heartbeats
  <1>2. NetworkOK'
    BY Consuming DEF ElectionInv, HandleHeartbeat, processVars
  <1>3. LeadersOK'
    BY <1>1 DEF ElectionInv, LeadersOK, CoordinatorLeadsItself, HandleHeartbeat
  <1>4. TermsOK'
    <2>1. currentTerm' \in [Node -> Nat]
      BY <1>1 DEF ElectionInv, TermsOK, HandleHeartbeat, TakeTerm
    <2> QED
      BY <2>1 DEF ElectionInv, TermsOK, HandleHeartbeat, processVars
  <1> QED
    BY <1>2, <1>3, <1>4, BallotsStay, StartersStay, LogsStay
       DEF ElectionInv, HandleHeartbeat, ballotVars, processVars

LEMMA HandleAnnouncementKeeps ==
    ASSUME ElectionInv, NEW n \in Node, NEW m, HandleAnnouncement(n, m)
    PROVE  ElectionInv'
  <1>1. m \in Announcements /\ m.node \in Node
    BY Received DEF ElectionInv, HandleAnnouncement, Announcements
  <1>2. LeadersOK'
    BY <1>1, Adopting DEF ElectionInv, HandleAnnouncement
  <1>3. NetworkOK'
    <2>1. inbox' \in [Node -> SUBSET Messages]
      BY DEF ElectionInv, NetworkOK, HandleAnnouncement, Consume
    <2>2. [at |-> "settling", msg |-> m] \in [at : {"settling"}, msg : Announcements]
      BY <1>1
    <2>3. listener' = [listener EXCEPT ![n] = [at |-> "settling", msg |-> m]]
      BY DEF HandleAnnouncement
    <2> QED
      BY <2>1, <2>2, <2>3 DEF ElectionInv, NetworkOK
  <1> QED
    BY <1>2, <1>3, TermsStay, BallotsStay, StartersStay, LogsStay
       DEF ElectionInv, HandleAnnouncement, ballotVars

LEMMA SettleReceivedKeeps ==
    ASSUME ElectionInv, NEW n \in Node, SettleReceived(n)
    PROVE  ElectionInv'
  <1>1. listener[n].msg \in Announcements
    BY DEF ElectionInv, NetworkOK, SettleReceived, NextMessage
  <1>2. listener[n].msg.term \in Nat
    BY <1>1 DEF Announcements
  <1>3. TermsOK'
    BY <1>2, TakingTerm DEF ElectionInv, SettleReceived
  <1>4. NetworkOK'
    BY ListenerReady DEF ElectionInv, SettleReceived
  <1> QED
    BY <1>3, <1>4, LeadersStay, BallotsStay, StartersStay, LogsStay
       DEF ElectionInv, SettleReceived, leaderVars, ballotVars

-----------------------------------------------------------------------------
(* Heartbeats, reconciliation of the term, restarts.                       *)

LEMMA SenderKeeps ==
    ASSUME ElectionInv, NEW n \in Node, NEW term \in senders[n],
           SendHeartbeat(n, term) \/ StopSender(n, term)
    PROVE  ElectionInv'
  <1>1. term \in Nat
    BY DEF ElectionInv, TermsOK
  <1>2. HeartbeatMessage(n, term) \in Messages
    BY <1>1 DEF HeartbeatMessage, Messages, Heartbeats
  <1>3. CASE SendHeartbeat(n, term)
    <2>1. NetworkOK'
      BY <1>2, <1>3, Publishing DEF ElectionInv, SendHeartbeat, processVars
    <2> QED
      BY <1>3, <2>1, LeadersStay, TermsStay, BallotsStay, StartersStay, LogsStay
         DEF ElectionInv, SendHeartbeat, leaderVars, ballotVars, processVars
  <1>4. CASE StopSender(n, term)
    <2>1. TermsOK'
      BY <1>4 DEF ElectionInv, TermsOK, StopSender
    <2> QED
      BY <1>4, <2>1, LeadersStay, BallotsStay, NetworkStays, StartersStay, LogsStay
         DEF ElectionInv, StopSender, leaderVars, ballotVars
  <1> QED
    BY <1>3, <1>4

LEMMA SuspectDivergenceKeeps ==
    ASSUME ElectionInv, NEW n \in Node, SuspectDivergence(n)
    PROVE  ElectionInv'
  BY LeadersStay, TermsStay, BallotsStay, NetworkStays, StartersStay, LogsStay
     DEF ElectionInv, SuspectDivergence, leaderVars, ballotVars

LEMMA ResetTermKeeps ==
    ASSUME ElectionInv, NEW n \in Node, ResetTerm(n)
    PROVE  ElectionInv'
  <1>1. PICK clusterTerm \in ClusterTerms : TakeTerm(n, clusterTerm)
    BY DEF ResetTerm
  <1>2. clusterTerm \in Nat
    BY BoundsAssumption
  <1>3. TermsOK'
    BY <1>1, <1>2, TakingTerm DEF ElectionInv, ResetTerm
  <1>4. BallotsOK'
    BY EmptyBox DEF ResetTerm
  <1> QED
    BY <1>3, <1>4, LeadersStay, NetworkStays, StartersStay, LogsStay
       DEF ElectionInv, ResetTerm, leaderVars

(***************************************************************************)
(* The reset of the role clears role and leader together, so it does not   *)
(* matter that a heartbeat or an election may have set both in between.    *)
(***************************************************************************)
LEMMA ResetRoleKeeps ==
    ASSUME ElectionInv, NEW n \in Node, ResetRole(n)
    PROVE  ElectionInv'
  <1>1. LeadersOK'
    BY DEF ElectionInv, LeadersOK, CoordinatorLeadsItself, ResetRole
  <1> QED
    BY <1>1, TermsStay, BallotsStay, NetworkStays, StartersStay, LogsStay
       DEF ElectionInv, ResetRole, ballotVars

LEMMA RestartKeeps ==
    ASSUME ElectionInv, NEW n \in Node, Restart(n)
    PROVE  ElectionInv'
  <1>1. LeadersOK'
    BY DEF ElectionInv, LeadersOK, CoordinatorLeadsItself, Restart
  <1>2. TermsOK'
    BY DEF ElectionInv, TermsOK, Restart, BootPromoter, IdlePromoter
  <1>3. BallotsOK'
    <2>1. votes' \in [Node -> [Node -> Nat]] /\ peerCount' \in [Node -> Nat]
      BY DEF ElectionInv, BallotsOK, Restart, NoVotes
    <2>2. \A p \in Node : \A d \in Node \ Candidates : votes'[p][d] = 0
      BY DEF ElectionInv, BallotsOK, Restart, NoVotes
    <2>3. votedNodes' \in [Node -> [Node -> Candidates \cup {NoNode}]]
      BY DEF ElectionInv, BallotsOK, Restart, NoVoters
    <2> QED
      BY <2>1, <2>2, <2>3 DEF BallotsOK
  <1>4. NetworkOK'
    BY DEF ElectionInv, NetworkOK, Restart
  <1>5. StartersOK'
    <2>1. IdleStarter \in Starters /\ Holds(n, IdleStarter) /\ IdleStarter.at = "idle"
      BY StarterFields DEF ElectionInv, IdleStarter, Holds
    <2>2. /\ EnterStarter(n, IdleStarter)
          /\ isElecting' = [isElecting EXCEPT ![n] = IdleStarter.at # "idle"]
      BY <2>1 DEF Restart, EnterStarter
    <2> QED
      BY <2>1, <2>2, EnteringStarter DEF ElectionInv
  <1> QED
    BY <1>1, <1>2, <1>3, <1>4, <1>5, LogsStay DEF ElectionInv, Restart

-----------------------------------------------------------------------------
(* The theorems.                                                           *)

LEMMA InitEstablishes == Init => ElectionInv
  <1> SUFFICES ASSUME Init PROVE ElectionInv
    OBVIOUS
  <1>1. LeadersOK
    BY DEF Init, LeadersOK, CoordinatorLeadsItself
  <1>2. TermsOK
    BY DEF Init, TermsOK, BootPromoter, IdlePromoter
  <1>3. BallotsOK
    BY DEF Init, BallotsOK, NoVotes, NoVoters
  <1>4. NetworkOK
    BY DEF Init, NetworkOK
  <1>5. StartersOK
    <2>1. IdleStarter \in Starters
      BY NoElectionIsID DEF IdleStarter, Starters
    <2> QED
      BY <2>1 DEF Init, StartersOK, IdleStarter, Holds
  <1>6. LogsOK
    BY DEF Init, LogsOK
  <1> QED
    BY <1>1, <1>2, <1>3, <1>4, <1>5, <1>6 DEF ElectionInv

LEMMA StepKeeps == ElectionInv /\ [Next]_vars => ElectionInv'
  <1> SUFFICES ASSUME ElectionInv, [Next]_vars PROVE ElectionInv'
    OBVIOUS
  <1>1. CASE UNCHANGED vars
    BY <1>1, LeadersStay, TermsStay, BallotsStay, NetworkStays, StartersStay, LogsStay
       DEF ElectionInv, vars, leaderVars, ballotVars, processVars
  <1>2. CASE Next
    <2>1. PICK n \in Node : Trigger(n) \/ Work(n) \/ Fault(n)
      BY <1>2 DEF Next
    <2>2. CASE Trigger(n)
      BY <2>2, StartElectionKeeps, BlockedByIsolationKeeps, RestartKeeps DEF Trigger
    <2>3. CASE Fault(n)
      BY <2>3, BootKeeps, DropMessageKeeps DEF Fault
    <2>4. CASE Starter(n)
      BY <2>4, NewTermKeeps, OpenElectionKeeps, CastOwnVoteKeeps, AbortFinalizationKeeps,
         FinalizeWithoutWinnerKeeps, FinalizeWithWinnerKeeps, PromoteAfterFailuresKeeps,
         FallbackElectionKeeps, AdoptAnnouncedKeeps, SettleAnnouncedKeeps,
         ConcludeUnannouncedKeeps DEF Starter
    <2>5. CASE Promoter(n)
      BY <2>5, BootKeeps, PromoteKeeps, AdoptPromotedKeeps, SettlePromotedKeeps,
         LogUnannouncedKeeps DEF Promoter
    <2>6. CASE Listener(n)
      BY <2>6, CountAfterJoinKeeps, SettleReceivedKeeps, JoinElectionKeeps, HandleVoteKeeps,
         HandleHeartbeatKeeps, HandleAnnouncementKeeps DEF Listener, Handle
    <2>7. CASE Sender(n)
      BY <2>7, SenderKeeps DEF Sender
    <2>8. CASE Monitor(n)
      BY <2>8, SuspectDivergenceKeeps, ResetTermKeeps, ResetRoleKeeps DEF Monitor
    <2> QED
      BY <2>1, <2>2, <2>3, <2>4, <2>5, <2>6, <2>7, <2>8 DEF Work
  <1> QED
    BY <1>1, <1>2

(***************************************************************************)
(* The shapes of the state, and what every goroutine holds.                *)
(***************************************************************************)
THEOREM ElectionIsConsistent == Spec => []ElectionInv
  BY InitEstablishes, StepKeeps, PTL DEF Spec

(***************************************************************************)
(* Whatever elections, promotions, step-downs, reconciliations and         *)
(* restarts fall between each other's sections, a coordinator names itself *)
(* as leader.                                                              *)
(***************************************************************************)
THEOREM CoordinatorsLead == Spec => []CoordinatorLeadsItself
  <1>1. ElectionInv => CoordinatorLeadsItself
    BY DEF ElectionInv, LeadersOK
  <1> QED
    BY <1>1, ElectionIsConsistent, PTL

(***************************************************************************)
(* An election is won by somebody a node may vote for, and what else a     *)
(* node logs is its own promotion: although the boxes are cleared and      *)
(* refilled while starters wait, and a vote may be counted twice.          *)
(***************************************************************************)
DecisionsAreProper ==
    \A n \in Node : \A e \in Decisions(n) : Proper(n, e.id, e.leader)

LEMMA InvDecides == ElectionInv => DecisionsAreProper
  <1> SUFFICES ASSUME ElectionInv, NEW n \in Node, NEW e \in Decisions(n)
               PROVE  Proper(n, e.id, e.leader)
    BY DEF DecisionsAreProper
  <1>1. CASE e \in electionLog[n]
    BY <1>1 DEF ElectionInv, LogsOK
  <1>2. CASE /\ starter[n].at \in {"announced", "settling"}
             /\ Won(n)
             /\ e = [id |-> starter[n].id, leader |-> starter[n].leader]
    <2>1. starter[n].id # NoElection
      BY <1>2 DEF Won, NoElection, ElectionID
    <2>2. Proper(n, starter[n].id, starter[n].leader)
      BY <1>2, <2>1, StarterFields DEF ElectionInv, Holds
    <2> QED
      BY <1>2, <2>2
  <1> QED
    BY <1>1, <1>2 DEF Decisions

THEOREM WinnersWereCandidates == Spec => []DecisionsAreProper
  BY InvDecides, ElectionIsConsistent, PTL

(***************************************************************************)
(* "This guarantees deterministic leadership": when every node prefers the *)
(* same coordinator, all that is decided under one ID is decided alike, on *)
(* any number of nodes, whatever peer lists discovery returns, and however *)
(* often a node restarts and decides an ID again.                          *)
(***************************************************************************)
DecidedAlike ==
    \A n, p \in Node : \A e \in Decisions(n), f \in Decisions(p) :
        e.id = f.id => e.leader = f.leader

THEOREM AgreedChoiceWins ==
    ASSUME NEW preferred, Candidates = {preferred}
    PROVE  Spec => [](DecidedAlike /\ SameElectionSameWinner)
  <1>1. DecisionsAreProper => DecidedAlike
    <2> SUFFICES ASSUME DecisionsAreProper, NEW n \in Node, NEW p \in Node,
                        NEW e \in Decisions(n), NEW f \in Decisions(p), e.id = f.id
                 PROVE  e.leader = f.leader
      BY DEF DecidedAlike
    <2>1. Proper(n, e.id, e.leader) /\ Proper(p, e.id, f.leader)
      BY DEF DecisionsAreProper
    <2> QED
      BY <2>1 DEF Proper
  <1>2. DecidedAlike => SameElectionSameWinner
    BY DEF DecidedAlike, SameElectionSameWinner
  <1> QED
    BY <1>1, <1>2, WinnersWereCandidates, PTL

=============================================================================
