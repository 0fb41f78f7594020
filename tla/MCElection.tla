----------------------------- MODULE MCElection -----------------------------
(***************************************************************************)
(* Instances of Election small enough for TLC: values for its function and *)
(* set constants, state constraints, and specifications that leave out     *)
(* goroutines a question does not need.                                    *)
(***************************************************************************)
EXTENDS Election, Candidate
Sets == INSTANCE FiniteSetsExt

(***************************************************************************)
(* The same instance asks two questions: how elections alone overlap, and  *)
(* what one election does among the other events.                          *)
(***************************************************************************)
VARIABLE question

(***************************************************************************)
(* Whom selectCandidate returns, and who is a default coordinator, follow  *)
(* from the containers' names and the reports the nodes have published:    *)
(* the first two pods of a deployment, the first of them well or not, or   *)
(* two containers without the name of the coordinator, of which only the   *)
(* first has published a report yet.                                       *)
(***************************************************************************)
Optimusdb(i) == Part("optimusdb", <<i>>)
Deployment == << <<<<>>, <<Optimusdb(1), HashPart, HashPart>>, <<Optimusdb(9)>>, <<>>>>,
                 <<<<>>, <<>>, <<Optimusdb(2)>>, <<Optimusdb(2)>>>> >>
Anonymous  == [n \in 1 .. 2 |-> <<<<Optimusdb(n + 1)>>, <<>>, <<Optimusdb(1)>>, <<>>>>]

Report(sources, n) ==
    [node |-> n, name |-> GetContainerName(sources[n]), uptime |-> 100,
     leadership_count |-> n, user_cpu |-> 80, system_cpu |-> 20, memory_sys |-> 64,
     memory_total_alloc |-> 100, avg_read_mbs |-> 90, avg_write_mbs |-> 10,
     latency |-> 40, geography_score |-> 50]
Unwell(rep) == [rep EXCEPT !.uptime = 0, !.leadership_count = 0, !.latency = 100]
Heard(n, reports) == KeepOwn(HandleReputations(n, NothingKnown, reports), reports[n])

FirstPod    == {n \in 1 .. 2 : IsDefaultCoordinatorNode(GetContainerName(Deployment[n]))}
NoPod       == {n \in 1 .. 2 : IsDefaultCoordinatorNode(GetContainerName(Anonymous[n]))}
Reports     == [n \in 1 .. 2 |-> Report(Deployment, n)]
FirstChoice == [n \in 1 .. 2 |-> SelectCandidate(n, Heard(n, Reports))]
AnyChoice   ==
    LET reports == [Reports EXCEPT ![1] = Unwell(@)]
    IN  [n \in 1 .. 2 |-> SelectCandidate(n, Heard(n, reports))]
OnlyReported ==
    LET rep == Report(Anonymous, 1)
    IN  [n \in 1 .. 2 |-> SelectCandidate(n, IF n = 1 THEN KeepOwn(NothingKnown, rep)
                                             ELSE HandleReputation(n, NothingKnown, rep))]
ASSUME PreferenceAssumption ==
    /\ FirstPod = {1} /\ NoPod = {} /\ FirstChoice = OnlyReported
    /\ FirstChoice = [n \in 1 .. 2 |-> {1}] /\ AnyChoice = [n \in 1 .. 2 |-> {1, 2}]

(***************************************************************************)
(* No guard reads how often a node has led: states that differ in that     *)
(* only are one.                                                           *)
(***************************************************************************)
Uncounted ==
    <<role, leader, currentTerm, ballotVars, peerCount, consecutiveElectionFailures,
      isElecting, processVars, electionLog, inbox, budget, question>>

(* The peer lists of discovery: complete everywhere.                       *)
WholeView == {Node}

(***************************************************************************)
(* State constraints: one message may wait at a node.  Elections are alone *)
(* while the default coordinator waits for its mesh, and what they publish *)
(* is sent.  Of the other events two happen, one election at most, in      *)
(* which everybody votes for the first, as long as it is well.             *)
(***************************************************************************)
OneWaiting == \A n \in Node : Cardinality(inbox[n]) <= 1
Spent ==
    (MaxStarts - budget.starts) + (MaxPromotions - budget.promotions)
    + (MaxRestarts - budget.restarts) + (MaxResets - budget.resets)
TwoEvents ==
    /\ Spent <= 2
    /\ budget.starts + 1 >= MaxStarts
    /\ \A n, v \in Node : votedNodes[n][v] \in {NoNode} \cup FirstChoice[v]
OnlyElections ==
    \A n \in Node : promoter[n] = BootPromoter(n) /\ starter[n].at # "unannounced"
Bounded ==
    /\ OneWaiting
    /\ IF question = "events" THEN TwoEvents ELSE OnlyElections

(* Elections only: no heartbeat tick and no reconciliation yet.            *)
VotingNext ==
    \E n \in Node : StartElection(n) \/ Starter(n) \/ Listener(n) \/ Fault(n)

MCNext ==
    /\ \/ question = "elections" /\ VotingNext
       \/ question = "events" /\ Next
    /\ UNCHANGED question
MCInit == Init /\ question \in {"elections", "events"}
MCSpec == MCInit /\ [][MCNext]_<<vars, question>>

(* The reliable system; Terms bounds the terms fairness speaks about.      *)
Terms == 1 .. 3
FairInit == Init /\ question = "liveness"
FairNext == ReliableNext /\ UNCHANGED question
FairSpec == FairInit /\ [][FairNext]_<<vars, question>> /\ Fairness(Terms)

(***************************************************************************)
(* "Already voted? -> Log & Ignore": a ballot box has as many votes as     *)
(* nodes that voted.                                                       *)
(***************************************************************************)
VotesOf(n) == Sets!MapThenSumSet(LAMBDA c : votes[n][c], Node)
NobodyCountsTwice ==
    \A n \in Node : VotesOf(n) = Cardinality({v \in Node : votedNodes[n][v] # NoNode})

=============================================================================
