---------------------------- MODULE MCPeerQuery ----------------------------
(***************************************************************************)
(* An instance of PeerQuery for TLC: three nodes of which one may hang, a  *)
(* default and a dynamic store, every strategy on both sides of a stream.  *)
(***************************************************************************)
EXTENDS PeerQuery

Keys == Store \X Name
Values == 1 .. MaxWrites

Command(strategy) ==
    [strategy |-> strategy, side |-> "command", store |-> Default, local |-> TRUE,
     force |-> FALSE, minRows |-> 0, maxPeers |-> 0, quorum |-> TRUE, refused |-> FALSE]

\* With options on top and below.
Stream(top, options) ==
    StreamRequest([criteria |-> TRUE, path |-> {}, top |-> top, options |-> options])

Requests ==
    {Command(s) : s \in {"LOCAL_ONLY", "REMOTE_ONLY", "PARALLEL_MERGE",
                         "LOCAL_THEN_REMOTE_MERGE", "QUORUM"}} \cup
    {[Command("LOCAL_THEN_REMOTE_MERGE") EXCEPT !.store = "other"],
     [Command("QUORUM") EXCEPT !.maxPeers = 1, !.minRows = 1, !.quorum = FALSE],
     Stream([strategy |-> "LOCAL_ONLY"], [strategy |-> "QUORUM", maxPeers |-> -1,
                                         quorumN |-> 1]),
     Stream([strategy |-> "QUORUM"], <<>>),
     Stream([local |-> FALSE], <<>>),
     Stream([force |-> TRUE, strategy |-> "LOCAL_THEN_REMOTE_MERGE"], <<>>),
     StreamRequest([criteria |-> TRUE, path |-> {1}, top |-> <<>>, options |-> <<>>])}

\* The first call is any of them, the second asks peers or takes the cache.
CONSTANTS q1, q2
Calls2 == [q \in Query |->
    IF q = q1 THEN Requests ELSE {Command("LOCAL_THEN_REMOTE_MERGE")}]

\* Clients write to the default store on two of the nodes.
Clients2 == {1, 2} \X {<<Default, "a">>}

\* The second call begins after the first has ended.
InTurn == query[q1].at = "done" \/ query[q2].at = "idle"

=============================================================================
