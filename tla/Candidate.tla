----------------------------- MODULE Candidate -----------------------------
(***************************************************************************)
(* Whom a node votes for (election/reputationBasedElection.go): the name   *)
(* that makes a node the preferred coordinator, the reports of reputation  *)
(* peers publish, the score of a report, and selectCandidate.  Percentages *)
(* and weights are integers; the random number is any there is.            *)
(***************************************************************************)
EXTENDS Integers, Sequences, TLC
LOCAL INSTANCE FiniteSetsExt
LOCAL INSTANCE SequencesExt

-----------------------------------------------------------------------------
(* Container names: the parts between the dashes, each a word and the      *)
(* digits behind it; a hash is a part of 5 to 10 letters and digits.       *)

Part(word, digits) == [word |-> word, digits |-> digits, hash |-> FALSE]
HashPart           == [word |-> "", digits |-> <<>>, hash |-> TRUE]

\* The name without the hashes Kubernetes gives the pods of a deployment.
ExtractBaseName(name) ==
    LET n == Len(name)
    IN  IF n >= 3 /\ name[n].hash /\ name[n - 1].hash
        THEN SubSeq(name, 1, n - 2)
        ELSE name

\* sources: AGENT_NAME, POD_NAME, HOSTNAME and the host's name; <<>> is unset.
GetContainerName(sources) ==
    LET set == SelectSeq(sources, LAMBDA name : name # <<>>)
    IN  IF set = <<>> THEN <<>> ELSE ExtractBaseName(Head(set))

IsDefaultCoordinatorNode(name) ==
    /\ name # <<>>
    /\ \/ \E i \in DOMAIN name :                          \* "optimusdb1"
            name[i].word = "optimusdb" /\ IsPrefix(<<1>>, name[i].digits)
       \/ /\ Len(name) > 1 /\ Last(name) = Part("", <<0>>) \* "optimusdb-0"
          /\ \E i \in DOMAIN name : name[i].word = "optimusdb"
       \/ IsSuffix(<<1>>, Last(name).digits)

-----------------------------------------------------------------------------
(* Reports: the NodeReputation of a node.  Uptime and geography_score are  *)
(* percentages here.                                                       *)

InRange(x, max) == 0 <= x /\ x <= max

ValidateReputationData(rep) ==
    /\ InRange(rep.user_cpu, 100) /\ InRange(rep.system_cpu, 100)
    /\ rep.memory_sys >= 0 /\ rep.memory_total_alloc >= 0
    /\ rep.memory_sys > 0 => rep.memory_total_alloc <= 2 * rep.memory_sys
    /\ InRange(rep.uptime, 100) /\ InRange(rep.geography_score, 100)
    /\ InRange(rep.avg_read_mbs, 10000) /\ InRange(rep.avg_write_mbs, 10000)
    /\ InRange(rep.latency, 1000)

(***************************************************************************)
(* What a node knows of its peers: the rows of the table reputation, in    *)
(* the order of their first insertion, and peerContainerNames.             *)
(***************************************************************************)
NothingKnown == [table |-> <<>>, names |-> <<>>]

UpsertReputation(table, rep) ==
    IF \E i \in DOMAIN table : table[i].node = rep.node
    THEN [i \in DOMAIN table |-> IF table[i].node = rep.node THEN rep ELSE table[i]]
    ELSE Append(table, rep)

\* A name is kept even if the report it comes with is not.
HandleReputation(self, known, rep) ==
    [table |-> IF rep.node = self \/ ~ValidateReputationData(rep) THEN known.table
               ELSE UpsertReputation(known.table, rep),
     names |-> IF rep.name = <<>> THEN known.names ELSE (rep.node :> rep.name) @@ known.names]

HandleReputations(self, known, reps) ==
    FoldLeft(LAMBDA k, rep : HandleReputation(self, k, rep), known, reps)

\* A node keeps its own report without a check.
KeepOwn(known, rep) ==
    [table |-> UpsertReputation(known.table, rep),
     names |-> (rep.node :> rep.name) @@ known.names]

-----------------------------------------------------------------------------
(* The score of a report, in hundredths of a percent.                      *)

Weight == [uptime |-> 20, leadership |-> 10, cpu |-> 20, memory |-> 20,
           disk |-> 10, latency |-> 10, geography_score |-> 10]

AtMost(x) == IF x > 100 THEN 100 ELSE x
Clamped(x) == IF x < 0 THEN 0 ELSE AtMost(x)

\* log10, rounded down; below 1 MB/s it is negative and the score is 100.
Magnitude(io) == CHOOSE k \in 0 .. 4 :
                    10 ^ k <= io /\ (k = 4 \/ io < 10 ^ (k + 1))

Score(rep) ==
    LET io == rep.avg_read_mbs + rep.avg_write_mbs
    IN  [uptime |-> AtMost(rep.uptime),
         leadership |-> AtMost(10 * rep.leadership_count),
         cpu |-> 100 - AtMost(rep.user_cpu + rep.system_cpu),
         memory |-> IF rep.memory_sys = 0 THEN 100
                    ELSE 100 - AtMost((100 * rep.memory_total_alloc) \div rep.memory_sys),
         disk |-> IF io = 0 THEN 100 ELSE Clamped(100 - 25 * Magnitude(io)),
         latency |-> 100 - AtMost(rep.latency),
         geography_score |-> AtMost(rep.geography_score)]

CalculateReputation(rep) ==
    LET score == Score(rep)
    IN  MapThenSumSet(LAMBDA part : Weight[part] * score[part], DOMAIN Weight)

-----------------------------------------------------------------------------
(* The vote.                                                               *)

NobodyPreferred == 0

\* The node itself, or the first peer with the name of a default coordinator.
GetPreferredCoordinatorPeerID(self, known) ==
    LET ids == [i \in DOMAIN known.table |-> known.table[i].node]
        IsNamed(p) == p \in DOMAIN known.names /\ IsDefaultCoordinatorNode(known.names[p])
        named == SelectSeq(ids, IsNamed)
    IN  IF IsNamed(self) /\ Contains(ids, self) THEN self
        ELSE IF named = <<>> THEN NobodyPreferred ELSE Head(named)

Healthy(rep) == CalculateReputation(rep) > 1000

(***************************************************************************)
(* Everybody selectCandidate may return: the preferred coordinator if it is*)
(* healthy, else any peer with a share in the total of the scores (and the *)
(* first, whatever it has: the random number may be 0).                    *)
(***************************************************************************)
SelectCandidate(self, known) ==
    LET rows == ToSet(known.table)
        preferred == {rep \in rows :
                        rep.node = GetPreferredCoordinatorPeerID(self, known) /\ Healthy(rep)}
        drawn == {rep \in rows : CalculateReputation(rep) > 0 \/ rep = Head(known.table)}
        total == MapThenSumSet(CalculateReputation, rows)
    IN  IF rows = {} THEN {self}
        ELSE {rep.node : rep \in IF preferred # {} THEN preferred
                                 ELSE IF total = 0 THEN rows ELSE drawn}

=============================================================================
