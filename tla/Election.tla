------------------------------ MODULE Election ------------------------------
(***************************************************************************)
(* The coordinator election of election/reputationBasedElection.go.        *)
(*                                                                         *)
(* Every node runs several goroutines over one shared Node structure:      *)
(*   listener - the single loop of ListenForElectionEvents;                *)
(*   starter  - the goroutine inside StartElection while isElecting is 1;  *)
(*   promoter - the goroutine that self-promotes outside an election       *)
(*              (RunFullNode, the mesh-blocked path, CheckLeaderFailure);  *)
(*   monitor  - checkTermDivergence;                                       *)
(*   senders  - the sendHeartbeats goroutines, named by their fixed term.  *)
(* An action is one critical section (mutex or electionMutex) with the     *)
(* calls made in it.  A publish made right after an unlock belongs to the  *)
(* section before it: a message may stay undelivered for any time.         *)
(* Timeouts, back-offs and the failure detector are abstracted to "may     *)
(* happen now"; module FailureDetector has the clock.                      *)
(***************************************************************************)
EXTENDS QuorumRule

CONSTANTS
    NumNodes,         \* peers are 1..NumNodes
    Default,          \* the nodes isDefaultCoordinatorNode accepts
    Views,            \* the peer lists discovery may return
    Choices,          \* Choices[n]: whom selectCandidate may return at n
    Ranked,           \* the nodes that may head a reputation table
    MaxAttempts,      \* maxAttempts of StartElection (3 in the code)
    DivergenceTerm,   \* checkTermDivergence acts above it (15 in the code)
    ClusterTerms,     \* what it may reset a term to (1, 3, 6 .. 30 in the code)
    PublishMayFail,   \* publishMessage may give up after its retries
    MaxStarts,        \* bound: calls of StartElection that pass its guards
    MaxPromotions,    \* bound: start-ups and blocked calls that may promote
    MaxRestarts,      \* bound: process restarts
    MaxResets         \* bound: term reconciliations

Node == 1 .. NumNodes

ASSUME NodesAssumption ==
    /\ NumNodes \in Nat \ {0}
    /\ Default \subseteq Node
ASSUME ViewsAssumption ==
    /\ Views \subseteq SUBSET Node
    /\ \A n \in Node : \E v \in Views : n \in v
ASSUME ChoicesAssumption ==
    /\ Choices \in [Node -> SUBSET Node]
    /\ \A n \in Node : Choices[n] # {}
    /\ Ranked \subseteq Node
ASSUME BoundsAssumption ==
    /\ MaxAttempts \in Nat \ {0}
    /\ DivergenceTerm \in Nat \ {0}
    /\ ClusterTerms \subseteq Nat \ {0}
    /\ PublishMayFail \in BOOLEAN
    /\ MaxStarts \in Nat
    /\ MaxPromotions \in Nat
    /\ MaxRestarts \in Nat
    /\ MaxResets \in Nat

VARIABLES
    role, leader, leadershipCount,             \* under mutex
    currentTerm,                               \* under either mutex
    electionPhase, currentElectionID,          \* under electionMutex
    votes, votedNodes, peerCount,              \*   "
    consecutiveElectionFailures,               \* under no mutex
    isElecting,                                \* atomic flag
    starter, promoter, listener, monitor,      \* goroutine positions
    senders,                                   \* running sendHeartbeats terms
    electionLog,                               \* the election_log tables
    inbox,                                     \* published, not yet handled
    budget                                     \* what the bounds have left

leaderVars   == <<role, leader, leadershipCount>>
ballotVars   == <<electionPhase, currentElectionID, votes, votedNodes>>
processVars  == <<starter, promoter, listener, monitor, senders>>
vars == <<leaderVars, currentTerm, ballotVars, peerCount,
          consecutiveElectionFailures, isElecting, processVars,
          electionLog, inbox, budget>>

-----------------------------------------------------------------------------
(* Elections, messages and goroutine positions.                            *)

(***************************************************************************)
(* "cluster-term%d-attempt%d-peers%s": two starters with the same term,    *)
(* attempt and peer list make the same ID.  NoElection is the empty ID.    *)
(***************************************************************************)
ElectionID(term, attempt, peers) ==
    [term |-> term, attempt |-> attempt, peers |-> peers, by |-> NoNode]
NoElection == ElectionID(0, 0, {})

(***************************************************************************)
(* The row a self-promotion writes has an ID of its own, with the name of  *)
(* the node's container ("default-coordinator-%s-term%d"): no election has *)
(* an empty peer list.                                                     *)
(***************************************************************************)
PromotionID(n, term) == [ElectionID(term, 0, {}) EXCEPT !.by = n]

VoteMessage(voter, vote, id, term) ==
    [type |-> "vote", node |-> voter, vote |-> vote, id |-> id, term |-> term]
AnnouncementMessage(ldr, term) ==
    [type |-> "announcement", node |-> ldr, term |-> term]
HeartbeatMessage(ldr, term) ==
    [type |-> "heartbeat", node |-> ldr, term |-> term]

(***************************************************************************)
(* What a goroutine holds in its local variables between two sections.     *)
(***************************************************************************)
IdleStarter == [at |-> "idle", id |-> NoElection, leader |-> NoNode, term |-> 0]
IdlePromoter == [at |-> "idle", term |-> 0]
BootPromoter(n) ==
    IF n \in Default THEN [at |-> "boot", term |-> 0] ELSE IdlePromoter
NextMessage == [at |-> "next"]

NoVotes  == [c \in Node |-> 0]
NoVoters == [v \in Node |-> NoNode]

(***************************************************************************)
(* GossipSub delivers to every subscriber, the publisher included.         *)
(***************************************************************************)
Publish(m) == inbox' = [p \in Node |-> inbox[p] \cup {m}]

Init ==
    /\ role = [n \in Node |-> "Follower"]
    /\ leader = [n \in Node |-> NoNode]
    /\ leadershipCount = [n \in Node |-> 0]
    /\ currentTerm = [n \in Node |-> 0]
    /\ electionPhase = [n \in Node |-> "idle"]
    /\ currentElectionID = [n \in Node |-> NoElection]
    /\ votes = [n \in Node |-> NoVotes]
    /\ votedNodes = [n \in Node |-> NoVoters]
    /\ peerCount = [n \in Node |-> 0]
    /\ consecutiveElectionFailures = [n \in Node |-> 0]
    /\ isElecting = [n \in Node |-> FALSE]
    /\ starter = [n \in Node |-> IdleStarter]
    /\ promoter = [n \in Node |-> BootPromoter(n)]
    /\ listener = [n \in Node |-> NextMessage]
    /\ monitor = [n \in Node |-> "idle"]
    /\ senders = [n \in Node |-> {}]
    /\ electionLog = [n \in Node |-> {}]
    /\ inbox = [n \in Node |-> {}]
    /\ budget = [starts |-> MaxStarts, promotions |-> MaxPromotions,
                 restarts |-> MaxRestarts, resets |-> MaxResets]

Spend(what) ==
    /\ budget[what] > 0
    /\ budget' = [budget EXCEPT ![what] = @ - 1]

-----------------------------------------------------------------------------
(* handleAnnouncement: the first section adopts the leader, the second one *)
(* the term.  announceLeader calls it too, after its publish.              *)

AdoptKeepingRole(n, ldr) ==
    /\ role' = [role EXCEPT ![n] = IF ldr = n THEN "Coordinator" ELSE @]
    /\ leader' = [leader EXCEPT ![n] = ldr]
    /\ leadershipCount' = [leadershipCount EXCEPT ![n] = IF ldr = n THEN @ + 1 ELSE @]

Adopt(n, ldr) ==
    /\ role' = [role EXCEPT ![n] = IF ldr = n THEN "Coordinator" ELSE "Follower"]
    /\ leader' = [leader EXCEPT ![n] = ldr]
    /\ leadershipCount' = [leadershipCount EXCEPT ![n] = IF ldr = n THEN @ + 1 ELSE @]

TakeTerm(n, term) == currentTerm' = [currentTerm EXCEPT ![n] = term]

(***************************************************************************)
(* announceLeader starts a sendHeartbeats goroutine at the announcing node *)
(* when it announces itself.                                               *)
(***************************************************************************)
StartSenderOnce(n, ldr, term) ==
    senders' = IF ldr = n /\ role[n] # "Coordinator"
               THEN [senders EXCEPT ![n] = @ \cup {term}] ELSE senders

StartSender(n, ldr, term) ==
    senders' = IF ldr = n THEN [senders EXCEPT ![n] = @ \cup {term}] ELSE senders

-----------------------------------------------------------------------------
(* StartElection.                                                          *)

EnterStarter(n, s) == starter' = [starter EXCEPT ![n] = s]
MoveStarter(n, pc) == starter' = [starter EXCEPT ![n].at = pc]

(***************************************************************************)
(* The caller is RunFullNode or CheckLeaderFailure after its back-off,     *)
(* which looks at isElecting again but not at role or leader.              *)
(***************************************************************************)
StartElection(n) ==
    /\ ~isElecting[n]
    /\ Spend("starts")
    /\ isElecting' = [isElecting EXCEPT ![n] = TRUE]
    /\ EnterStarter(n, [IdleStarter EXCEPT !.at = "attempt"])
    /\ UNCHANGED <<leaderVars, currentTerm, ballotVars, peerCount,
                   consecutiveElectionFailures, promoter, listener, monitor,
                   senders, electionLog, inbox>>

NewTerm(n) ==
    /\ starter[n].at = "attempt"
    /\ \E peers \in {v \in Views : n \in v} :
         /\ peerCount' = [peerCount EXCEPT ![n] = Cardinality(peers)]
         /\ EnterStarter(n, [starter[n] EXCEPT !.at = "open",
              !.id = ElectionID(currentTerm[n] + 1, starter[n].id.attempt, peers)])
    /\ TakeTerm(n, currentTerm[n] + 1)
    /\ UNCHANGED <<leaderVars, ballotVars, consecutiveElectionFailures,
                   isElecting, promoter, listener, monitor, senders,
                   electionLog, inbox, budget>>

OpenElection(n) ==
    /\ starter[n].at = "open"
    /\ currentElectionID' = [currentElectionID EXCEPT ![n] = starter[n].id]
    /\ electionPhase' = [electionPhase EXCEPT ![n] = "voting"]
    /\ votes' = [votes EXCEPT ![n] = NoVotes]
    /\ votedNodes' = [votedNodes EXCEPT ![n] = NoVoters]
    /\ MoveStarter(n, "ballot")
    /\ UNCHANGED <<leaderVars, currentTerm, peerCount,
                   consecutiveElectionFailures, isElecting, promoter,
                   listener, monitor, senders, electionLog, inbox, budget>>

(***************************************************************************)
(* The starter's own vote goes into whatever ballot box the node has now.  *)
(***************************************************************************)
CastOwnVote(n) ==
    /\ starter[n].at = "ballot"
    /\ \E c \in Choices[n] :
         /\ votedNodes' = [votedNodes EXCEPT ![n][n] = c]
         /\ votes' = [votes EXCEPT ![n][c] = @ + 1]
         /\ Publish(VoteMessage(n, c, starter[n].id, starter[n].id.term))
    /\ MoveStarter(n, "waiting")
    /\ UNCHANGED <<leaderVars, currentTerm, electionPhase, currentElectionID,
                   peerCount, consecutiveElectionFailures, isElecting,
                   promoter, listener, monitor, senders, electionLog, budget>>

Superseded(n) ==
    \/ currentElectionID[n] # starter[n].id
    \/ currentTerm[n] # starter[n].id.term

Tally(n) ==
    DetermineWinner(votes[n],
                    Cardinality({v \in Node : votedNodes[n][v] # NoNode}),
                    peerCount[n])

NextAttempt(n) ==
    IF starter[n].id.attempt + 1 < MaxAttempts
    THEN EnterStarter(n, [IdleStarter EXCEPT !.at = "attempt",
                             !.id.attempt = starter[n].id.attempt + 1])
    ELSE EnterStarter(n, [IdleStarter EXCEPT !.at = "exhausted"])

(***************************************************************************)
(* finalizeElectionInline after electionTimeout: the election was replaced *)
(* while the starter waited, it has no winner, or it has one.              *)
(***************************************************************************)
AbortFinalization(n) ==
    /\ starter[n].at = "waiting"
    /\ Superseded(n)
    /\ NextAttempt(n)
    /\ UNCHANGED <<leaderVars, currentTerm, ballotVars, peerCount,
                   consecutiveElectionFailures, isElecting, promoter,
                   listener, monitor, senders, electionLog, inbox, budget>>

FinalizeWithoutWinner(n) ==
    /\ starter[n].at = "waiting"
    /\ ~Superseded(n)
    /\ electionPhase' = [electionPhase EXCEPT ![n] = "completed"]
    /\ Tally(n) = NoNode
    /\ NextAttempt(n)
    /\ UNCHANGED <<leaderVars, currentTerm, currentElectionID, votes,
                   votedNodes, peerCount, consecutiveElectionFailures,
                   isElecting, promoter, listener, monitor, senders,
                   electionLog, inbox, budget>>

(***************************************************************************)
(* announceLeader publishes first; when that fails it returns, and the     *)
(* election still counts as won.                                           *)
(***************************************************************************)
Announce(n, ldr, term, s) ==
    \/ /\ Publish(AnnouncementMessage(ldr, term))
       /\ EnterStarter(n, [s EXCEPT !.at = "announced", !.leader = ldr, !.term = term])
    \/ /\ PublishMayFail
       /\ EnterStarter(n, [s EXCEPT !.at = "unannounced", !.leader = ldr, !.term = term])
       /\ UNCHANGED inbox

FinalizeWithWinner(n) ==
    /\ starter[n].at = "waiting"
    /\ ~Superseded(n)
    /\ electionPhase' = [electionPhase EXCEPT ![n] = "completed"]
    /\ Tally(n) # NoNode
    /\ Announce(n, Tally(n), starter[n].id.term, starter[n])
    /\ UNCHANGED <<leaderVars, currentTerm, currentElectionID, votes,
                   votedNodes, peerCount, consecutiveElectionFailures,
                   isElecting, promoter, listener, monitor, senders,
                   electionLog, budget>>

(***************************************************************************)
(* All attempts failed: the default coordinator promotes itself after two  *)
(* failures in a row (promoteAsDefaultCoordinator), any other node falls   *)
(* back on the best reputation it knows (fallbackElection), on itself when *)
(* it knows none.                                                          *)
(***************************************************************************)
CountFailure(n) ==
    consecutiveElectionFailures' =
        [consecutiveElectionFailures EXCEPT ![n] = @ + 1]

SecondFailure(n) == n \in Default /\ consecutiveElectionFailures[n] + 1 >= 2

PromoteAfterFailures(n) ==
    LET term == currentTerm[n] + 1
    IN  /\ starter[n].at = "exhausted"
        /\ SecondFailure(n)
        /\ CountFailure(n)
        /\ TakeTerm(n, term)
        /\ electionPhase' = [electionPhase EXCEPT ![n] = "completed"]
        /\ Announce(n, n, term, [starter[n] EXCEPT !.id = PromotionID(n, term)])
        /\ UNCHANGED <<leaderVars, currentElectionID, votes, votedNodes,
                       peerCount, isElecting, promoter, listener, monitor,
                       senders, electionLog, budget>>

FallbackElection(n) ==
    /\ starter[n].at = "exhausted"
    /\ ~SecondFailure(n)
    /\ CountFailure(n)
    /\ \E best \in Ranked \cup {n} :
         Announce(n, best, currentTerm[n] + 1, starter[n])
    /\ UNCHANGED <<leaderVars, currentTerm, ballotVars, peerCount, isElecting,
                   promoter, listener, monitor, senders, electionLog, budget>>

AdoptAnnounced(n) ==
    /\ starter[n].at = "announced"
    /\ Adopt(n, starter[n].leader)
    /\ MoveStarter(n, "settling")
    /\ UNCHANGED <<currentTerm, ballotVars, peerCount,
                   consecutiveElectionFailures, isElecting, promoter,
                   listener, monitor, senders, electionLog, inbox, budget>>

(***************************************************************************)
(* InsertElectionLog: the election ID is the primary key of the table, so  *)
(* a second row for the same ID is refused.                                *)
(***************************************************************************)
InsertElectionLog(n, id, ldr) ==
    electionLog' = IF \E e \in electionLog[n] : e.id = id
                   THEN electionLog
                   ELSE [electionLog EXCEPT ![n] = @ \cup {[id |-> id, leader |-> ldr]}]

(***************************************************************************)
(* The deferred store that ends StartElection.                             *)
(***************************************************************************)
KeepFlag(n) == UNCHANGED isElecting

ReleaseFlag(n) == isElecting' = [isElecting EXCEPT ![n] = FALSE]

Won(n) == starter[n].id.peers # {}

(***************************************************************************)
(* The end of StartElection.  A won election and a promotion leave a row,  *)
(* a fallback does not; only a won election ends the series of failures.   *)
(***************************************************************************)
Conclude(n) ==
    /\ IF starter[n].id = NoElection
       THEN UNCHANGED electionLog
       ELSE InsertElectionLog(n, starter[n].id, starter[n].leader)
    /\ consecutiveElectionFailures' =
         [consecutiveElectionFailures EXCEPT ![n] = IF Won(n) THEN 0 ELSE @]
    /\ EnterStarter(n, IdleStarter)
    /\ ReleaseFlag(n)
    /\ UNCHANGED <<leaderVars, ballotVars, peerCount, promoter, listener,
                   monitor, inbox, budget>>

SettleAnnounced(n) ==
    /\ starter[n].at = "settling"
    /\ TakeTerm(n, starter[n].term)
    /\ StartSender(n, starter[n].leader, starter[n].term)
    /\ Conclude(n)

ConcludeUnannounced(n) ==
    /\ starter[n].at = "unannounced"
    /\ Conclude(n)
    /\ UNCHANGED <<currentTerm, senders>>

-----------------------------------------------------------------------------
(* Promotion outside an election.                                          *)

MovePromoter(n, pc) == promoter' = [promoter EXCEPT ![n].at = pc]

(***************************************************************************)
(* RunFullNode: a node whose mesh formed and that is the default           *)
(* coordinator promotes itself, any other returns.  CheckLeaderFailure and *)
(* StartElection on a node cut off from the mesh count a failure, and the  *)
(* default coordinator promotes itself at the second.                      *)
(***************************************************************************)
BootPromotion(n) ==
    /\ n \in Default
    /\ promoter[n].at = "boot"
    /\ MovePromoter(n, "promote")
    /\ UNCHANGED <<leaderVars, currentTerm, ballotVars, peerCount,
                   consecutiveElectionFailures, isElecting, starter, listener,
                   monitor, senders, electionLog, inbox, budget>>

BootWithoutPromotion(n) ==
    /\ promoter[n].at = "boot"
    /\ MovePromoter(n, "idle")
    /\ UNCHANGED <<leaderVars, currentTerm, ballotVars, peerCount,
                   consecutiveElectionFailures, isElecting, starter, listener,
                   monitor, senders, electionLog, inbox, budget>>

BlockedByIsolation(n) ==
    /\ promoter[n].at = "idle"
    /\ Spend("promotions")
    /\ CountFailure(n)
    /\ MovePromoter(n, IF SecondFailure(n) THEN "promote" ELSE "idle")
    /\ UNCHANGED <<leaderVars, currentTerm, ballotVars, peerCount, isElecting,
                   starter, listener, monitor, senders, electionLog, inbox>>

(***************************************************************************)
(* promoteAsDefaultCoordinator, outside StartElection.                     *)
(***************************************************************************)
Promote(n) ==
    LET term == currentTerm[n] + 1
    IN  /\ promoter[n].at = "promote"
        /\ TakeTerm(n, term)
        /\ electionPhase' = [electionPhase EXCEPT ![n] = "completed"]
        /\ \/ /\ Publish(AnnouncementMessage(n, term))
              /\ promoter' = [promoter EXCEPT ![n] = [at |-> "announced", term |-> term]]
           \/ /\ PublishMayFail
              /\ promoter' = [promoter EXCEPT ![n] = [at |-> "unannounced", term |-> term]]
              /\ UNCHANGED inbox
        /\ UNCHANGED <<leaderVars, currentElectionID, votes, votedNodes,
                       peerCount, consecutiveElectionFailures, isElecting,
                       starter, listener, monitor, senders, electionLog, budget>>

AdoptPromoted(n) ==
    /\ promoter[n].at = "announced"
    /\ Adopt(n, n)
    /\ MovePromoter(n, "settling")
    /\ UNCHANGED <<currentTerm, ballotVars, peerCount,
                   consecutiveElectionFailures, isElecting, starter, listener,
                   monitor, senders, electionLog, inbox, budget>>

LogPromotion(n) ==
    /\ InsertElectionLog(n, PromotionID(n, promoter[n].term), n)
    /\ promoter' = [promoter EXCEPT ![n] = IdlePromoter]
    /\ UNCHANGED <<leaderVars, ballotVars, peerCount,
                   consecutiveElectionFailures, isElecting, starter, listener,
                   monitor, inbox, budget>>

SettlePromoted(n) ==
    /\ promoter[n].at = "settling"
    /\ TakeTerm(n, promoter[n].term)
    /\ StartSender(n, n, promoter[n].term)
    /\ LogPromotion(n)

LogUnannounced(n) ==
    /\ promoter[n].at = "unannounced"
    /\ LogPromotion(n)
    /\ UNCHANGED <<currentTerm, senders>>

-----------------------------------------------------------------------------
(* The listener: one message at a time.                                    *)

Receive(n, m) ==
    /\ listener[n].at = "next"
    /\ m \in inbox[n]

Consume(n, m) == inbox' = [inbox EXCEPT ![n] = @ \ {m}]

(***************************************************************************)
(* The first line of handleMessage: the rate limiter refuses a message     *)
(* (module RateLimiter says when), or the network lost it on the way.      *)
(***************************************************************************)
DropMessage(n, m) ==
    /\ Receive(n, m)
    /\ Consume(n, m)
    /\ UNCHANGED <<leaderVars, currentTerm, ballotVars, peerCount,
                   consecutiveElectionFailures, isElecting, processVars,
                   electionLog, budget>>

ShouldJoin(n, m) ==
    \/ electionPhase[n] = "idle"
    \/ m.term > currentTerm[n]
    \/ m.term = currentTerm[n] /\ m.id # currentElectionID[n]

CountVote(n, m) ==
    IF /\ electionPhase[n] = "voting"
       /\ currentElectionID[n] = m.id
       /\ currentTerm[n] = m.term
       /\ votedNodes[n][m.node] = NoNode
    THEN /\ votedNodes' = [votedNodes EXCEPT ![n][m.node] = m.vote]
         /\ votes' = [votes EXCEPT ![n][m.vote] = @ + 1]
    ELSE UNCHANGED <<votedNodes, votes>>

(***************************************************************************)
(* The cleared box of a node that joins, with its own vote for c in it.    *)
(***************************************************************************)
OwnVoteOnly(n, c) == [NoVoters EXCEPT ![n] = c]

(***************************************************************************)
(* handleVote: a vote of an election the node is not in makes it join, and *)
(* the lock is released to publish the node's own vote before the received *)
(* one is counted.                                                         *)
(***************************************************************************)
JoinElection(n, m) ==
    /\ Receive(n, m)
    /\ m.type = "vote"
    /\ ShouldJoin(n, m)
    /\ electionPhase' = [electionPhase EXCEPT ![n] = "voting"]
    /\ currentElectionID' = [currentElectionID EXCEPT ![n] = m.id]
    /\ TakeTerm(n, m.term)
    /\ \E c \in Choices[n] :
         /\ votedNodes' = [votedNodes EXCEPT ![n] = OwnVoteOnly(n, c)]
         /\ votes' = [votes EXCEPT ![n] = [NoVotes EXCEPT ![c] = 1]]
         /\ LET own == VoteMessage(n, c, m.id, m.term)
            IN  inbox' = [p \in Node |-> (IF p = n THEN inbox[p] \ {m} ELSE inbox[p])
                                          \cup {own}]
    /\ listener' = [listener EXCEPT ![n] = [at |-> "joined", msg |-> m]]
    /\ UNCHANGED <<leaderVars, peerCount, consecutiveElectionFailures,
                   isElecting, starter, promoter, monitor, senders,
                   electionLog, budget>>

CountAfterJoin(n) ==
    /\ listener[n].at = "joined"
    /\ CountVote(n, listener[n].msg)
    /\ listener' = [listener EXCEPT ![n] = NextMessage]
    /\ UNCHANGED <<leaderVars, currentTerm, electionPhase, currentElectionID,
                   peerCount, consecutiveElectionFailures, isElecting, starter,
                   promoter, monitor, senders, electionLog, inbox, budget>>

HandleVote(n, m) ==
    /\ Receive(n, m)
    /\ m.type = "vote"
    /\ ~ShouldJoin(n, m)
    /\ CountVote(n, m)
    /\ Consume(n, m)
    /\ UNCHANGED <<leaderVars, currentTerm, electionPhase, currentElectionID,
                   peerCount, consecutiveElectionFailures, isElecting,
                   processVars, electionLog, budget>>

(***************************************************************************)
(* handleHeartbeat, stepDownLocked included.  A coordinator gives way to a *)
(* higher term, and in its own term to a smaller ID; a follower follows    *)
(* whoever sends, itself included.                                         *)
(***************************************************************************)
GivesWay(n, m) ==
    /\ role[n] = "Coordinator"
    /\ m.node # n
    /\ \/ m.term > currentTerm[n]
       \/ m.term = currentTerm[n] /\ m.node < n

HandleHeartbeat(n, m) ==
    /\ Receive(n, m)
    /\ m.type = "heartbeat"
    /\ \/ /\ GivesWay(n, m)
          /\ role' = [role EXCEPT ![n] = "Follower"]
          /\ leader' = [leader EXCEPT ![n] = m.node]
          /\ TakeTerm(n, m.term)
       \/ /\ role[n] = "Coordinator"
          /\ ~GivesWay(n, m)
          /\ UNCHANGED <<role, leader, currentTerm>>
       \/ /\ role[n] = "Follower"
          /\ leader' = [leader EXCEPT ![n] = m.node]
          /\ TakeTerm(n, IF m.term > currentTerm[n] THEN m.term ELSE currentTerm[n])
          /\ UNCHANGED role
    /\ Consume(n, m)
    /\ UNCHANGED <<leadershipCount, ballotVars, peerCount,
                   consecutiveElectionFailures, isElecting, processVars,
                   electionLog, budget>>

HandleNewerAnnouncement(n, m) ==
    /\ Receive(n, m)
    /\ m.type = "announcement"
    /\ IF m.term > currentTerm[n] THEN Adopt(n, m.node) ELSE UNCHANGED leaderVars
    /\ Consume(n, m)
    /\ listener' = [listener EXCEPT ![n] = [at |-> "settling", msg |-> m]]
    /\ UNCHANGED <<currentTerm, ballotVars, peerCount,
                   consecutiveElectionFailures, isElecting, starter, promoter,
                   monitor, senders, electionLog, budget>>

HandleAnnouncement(n, m) ==
    /\ Receive(n, m)
    /\ m.type = "announcement"
    /\ Adopt(n, m.node)
    /\ Consume(n, m)
    /\ listener' = [listener EXCEPT ![n] = [at |-> "settling", msg |-> m]]
    /\ UNCHANGED <<currentTerm, ballotVars, peerCount,
                   consecutiveElectionFailures, isElecting, starter, promoter,
                   monitor, senders, electionLog, budget>>

SettleReceived(n) ==
    /\ listener[n].at = "settling"
    /\ TakeTerm(n, listener[n].msg.term)
    /\ listener' = [listener EXCEPT ![n] = NextMessage]
    /\ UNCHANGED <<leaderVars, ballotVars, peerCount,
                   consecutiveElectionFailures, isElecting, starter, promoter,
                   monitor, senders, electionLog, inbox, budget>>

-----------------------------------------------------------------------------
(* sendHeartbeats: a tick of the goroutine started for a term.             *)

SendHeartbeat(n, term) ==
    /\ term \in senders[n]
    /\ role[n] = "Coordinator"
    /\ Publish(HeartbeatMessage(n, term))
    /\ UNCHANGED <<leaderVars, currentTerm, ballotVars, peerCount,
                   consecutiveElectionFailures, isElecting, processVars,
                   electionLog, budget>>

StopSender(n, term) ==
    /\ term \in senders[n]
    /\ role[n] # "Coordinator"
    /\ senders' = [senders EXCEPT ![n] = @ \ {term}]
    /\ UNCHANGED <<leaderVars, currentTerm, ballotVars, peerCount,
                   consecutiveElectionFailures, isElecting, starter, promoter,
                   listener, monitor, electionLog, inbox, budget>>

-----------------------------------------------------------------------------
(* checkTermDivergence on a node without mesh peers: the look at term and  *)
(* leader, the reset of the term, and the reset of the role.               *)

SuspectDivergence(n) ==
    /\ monitor[n] = "idle"
    /\ currentTerm[n] > DivergenceTerm
    /\ leader[n] = NoNode
    /\ Spend("resets")
    /\ monitor' = [monitor EXCEPT ![n] = "suspecting"]
    /\ UNCHANGED <<leaderVars, currentTerm, ballotVars, peerCount,
                   consecutiveElectionFailures, isElecting, starter, promoter,
                   listener, senders, electionLog, inbox>>

(***************************************************************************)
(* The cluster term is guessed from the leadership counts in the           *)
(* reputation table.                                                       *)
(***************************************************************************)
ResetTerm(n) ==
    /\ monitor[n] = "suspecting"
    /\ \E clusterTerm \in ClusterTerms : TakeTerm(n, clusterTerm)
    /\ electionPhase' = [electionPhase EXCEPT ![n] = "idle"]
    /\ votes' = [votes EXCEPT ![n] = NoVotes]
    /\ votedNodes' = [votedNodes EXCEPT ![n] = NoVoters]
    /\ monitor' = [monitor EXCEPT ![n] = "demoting"]
    /\ UNCHANGED <<leaderVars, currentElectionID, peerCount,
                   consecutiveElectionFailures, isElecting, starter, promoter,
                   listener, senders, electionLog, inbox, budget>>

ResetRole(n) ==
    /\ monitor[n] = "demoting"
    /\ role' = [role EXCEPT ![n] = "Follower"]
    /\ leader' = [leader EXCEPT ![n] = NoNode]
    /\ monitor' = [monitor EXCEPT ![n] = "idle"]
    /\ UNCHANGED <<leadershipCount, currentTerm, ballotVars, peerCount,
                   consecutiveElectionFailures, isElecting, starter, promoter,
                   listener, senders, electionLog, inbox, budget>>

(***************************************************************************)
(* A restarted process builds a new Node (NewNode): only the election_log  *)
(* file survives.                                                          *)
(***************************************************************************)
Restart(n) ==
    /\ Spend("restarts")
    /\ role' = [role EXCEPT ![n] = "Follower"]
    /\ leader' = [leader EXCEPT ![n] = NoNode]
    /\ leadershipCount' = [leadershipCount EXCEPT ![n] = 0]
    /\ currentTerm' = [currentTerm EXCEPT ![n] = 0]
    /\ electionPhase' = [electionPhase EXCEPT ![n] = "idle"]
    /\ currentElectionID' = [currentElectionID EXCEPT ![n] = NoElection]
    /\ votes' = [votes EXCEPT ![n] = NoVotes]
    /\ votedNodes' = [votedNodes EXCEPT ![n] = NoVoters]
    /\ peerCount' = [peerCount EXCEPT ![n] = 0]
    /\ consecutiveElectionFailures' =
         [consecutiveElectionFailures EXCEPT ![n] = 0]
    /\ isElecting' = [isElecting EXCEPT ![n] = FALSE]
    /\ starter' = [starter EXCEPT ![n] = IdleStarter]
    /\ promoter' = [promoter EXCEPT ![n] = BootPromoter(n)]
    /\ listener' = [listener EXCEPT ![n] = NextMessage]
    /\ monitor' = [monitor EXCEPT ![n] = "idle"]
    /\ senders' = [senders EXCEPT ![n] = {}]
    /\ inbox' = [inbox EXCEPT ![n] = {}]
    /\ UNCHANGED electionLog

-----------------------------------------------------------------------------
Starter(n) ==
    \/ NewTerm(n)
    \/ OpenElection(n)
    \/ CastOwnVote(n)
    \/ AbortFinalization(n)
    \/ FinalizeWithoutWinner(n)
    \/ FinalizeWithWinner(n)
    \/ PromoteAfterFailures(n)
    \/ FallbackElection(n)
    \/ AdoptAnnounced(n)
    \/ SettleAnnounced(n)
    \/ ConcludeUnannounced(n)

Promoter(n) ==
    \/ BootPromotion(n)
    \/ Promote(n)
    \/ AdoptPromoted(n)
    \/ SettlePromoted(n)
    \/ LogUnannounced(n)

Handle(n, m) ==
    \/ JoinElection(n, m)
    \/ HandleVote(n, m)
    \/ HandleHeartbeat(n, m)
    \/ HandleAnnouncement(n, m)

Listener(n) ==
    \/ CountAfterJoin(n)
    \/ SettleReceived(n)
    \/ \E m \in inbox[n] : Handle(n, m)

Sender(n) ==
    \E term \in senders[n] : SendHeartbeat(n, term) \/ StopSender(n, term)

Monitor(n) ==
    \/ SuspectDivergence(n)
    \/ ResetTerm(n)
    \/ ResetRole(n)

(***************************************************************************)
(* What the environment does: a timeout starts an election, the mesh is    *)
(* lost or does not form, a message is lost, a process restarts.           *)
(***************************************************************************)
Trigger(n) ==
    \/ StartElection(n)
    \/ BlockedByIsolation(n)
    \/ Restart(n)

Fault(n) ==
    \/ BootWithoutPromotion(n)
    \/ \E m \in inbox[n] : DropMessage(n, m)

Work(n) == Starter(n) \/ Promoter(n) \/ Listener(n) \/ Sender(n) \/ Monitor(n)

Next == \E n \in Node : Trigger(n) \/ Work(n) \/ Fault(n)

Spec == Init /\ [][Next]_vars

(***************************************************************************)
(* A mesh that forms and loses nothing, and goroutines that keep running.  *)
(* The subscription is a queue, so the listener, which is never blocked    *)
(* for good, comes to every message: weak fairness on finishing what it is *)
(* at or handling m, for each m.                                           *)
(***************************************************************************)
ReliableNext == \E n \in Node : Trigger(n) \/ Work(n)

ListenerFinishes(n) == CountAfterJoin(n) \/ SettleReceived(n)

Fairness(Terms) ==
    \A n \in Node :
        /\ WF_vars(Starter(n))
        /\ WF_vars(Promoter(n))
        /\ WF_vars(ListenerFinishes(n))
        /\ WF_vars(ResetTerm(n) \/ ResetRole(n))
        /\ \A ldr \in Node, t \in Terms :
             /\ WF_vars(ListenerFinishes(n)
                        \/ HandleAnnouncement(n, AnnouncementMessage(ldr, t)))
             /\ WF_vars(ListenerFinishes(n)
                        \/ HandleHeartbeat(n, HeartbeatMessage(ldr, t)))
        /\ \A t \in Terms :
             WF_vars(SendHeartbeat(n, t) \/ StopSender(n, t))

-----------------------------------------------------------------------------
(* Properties.                                                             *)

(***************************************************************************)
(* A node that acts as coordinator names itself as leader: role and leader *)
(* are always set in one critical section, also by a step-down and by the  *)
(* term reconciliation, which decides on a leader it read long before.     *)
(***************************************************************************)
CoordinatorLeadsItself ==
    \A n \in Node : role[n] = "Coordinator" => leader[n] = n

(***************************************************************************)
(* What a node decided as winner of an election: its log, and the winner   *)
(* it is announcing.                                                       *)
(***************************************************************************)
Decisions(n) ==
    electionLog[n] \cup
    IF starter[n].at \in {"announced", "settling"} /\ Won(n)
    THEN {[id |-> starter[n].id, leader |-> starter[n].leader]}
    ELSE {}

(***************************************************************************)
(* Nodes that decide the same election (same term, attempt and peer list)  *)
(* decide for the same winner.  A restarted process counts terms from 0    *)
(* again, so it may decide an election once more.                          *)
(***************************************************************************)
NoRestart == budget.restarts = MaxRestarts
SameElectionSameWinner ==
    NoRestart => \A n, p \in Node : \A e \in Decisions(n), f \in Decisions(p) :
        e.id = f.id => e.leader = f.leader

(***************************************************************************)
(* StartElection returns whatever happens to the votes: three attempts,    *)
(* then a promotion or a fallback.                                         *)
(***************************************************************************)
ElectionsEnd == \A n \in Node : isElecting[n] ~> ~isElecting[n]

(***************************************************************************)
(* From some time on all nodes name one leader, and exactly that node is   *)
(* coordinator (or nobody was ever elected).                               *)
(***************************************************************************)
Agreement ==
    \E ldr \in Node \cup {NoNode} : \A n \in Node :
        /\ leader[n] = ldr
        /\ role[n] = "Coordinator" <=> n = ldr

ClusterAgrees == <>[]Agreement

(***************************************************************************)
(* A node that announces itself as the winner comes to send heartbeats, or *)
(* steps down ("Coordinator sends heartbeats").  A coordinator elected in  *)
(* the election of another starter never does: only announceLeader starts  *)
(* the goroutine.                                                          *)
(***************************************************************************)
WinnersSendHeartbeats ==
    \A n \in Node :
        starter[n].at = "announced" /\ starter[n].leader = n
            ~> senders[n] # {} \/ role[n] = "Follower"

=============================================================================
