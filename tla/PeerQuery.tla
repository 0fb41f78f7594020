----------------------------- MODULE PeerQuery -----------------------------
(***************************************************************************)
(* Queries that ask other nodes: the strategies of the QUERY command       *)
(* (app/service.go) with the worker pool and the cache of queryengine, and *)
(* the same strategies at the receiving end of a stream                    *)
(* (app/query_handler.go).  A command writes rows it learned from peers    *)
(* into its own store (query_fastpath.go), while clients write and entries *)
(* spread.  Criteria select every document; a key is a store and a name.   *)
(***************************************************************************)
EXTENDS LastWriter, FiniteSetsExt, Functions, TLC

CONSTANTS
    Node, Self,  \* identities of nodes, and the one that is asked
    Store, Default,
    Name,        \* the names (_id) of documents
    Query,       \* calls
    May,         \* May[q]: the requests it may be: strategy, store, side,
                 \* consistency (quorum or best effort), whether refused, ...
    Client,      \* where clients write: pairs of a node and a key
    Hanging,     \* peers that may take a stream and never answer
    MaxWorkers, QuorumN,
    MaxWrites    \* bound on what clients write

Peer == Node \ {Self}

ASSUME NodesAssumption ==
    Node \subseteq Nat /\ Self \in Node /\ Hanging \subseteq Peer /\ Client \subseteq Node \X Key
ASSUME KeysAssumption ==
    Default \in Store /\ Key = Store \X Name /\ Raw = 1 .. MaxWrites /\ Nothing = 0
ASSUME LimitsAssumption == MaxWorkers > 0 /\ QuorumN > 0

VARIABLES
    seen,      \* seen[n]: the entries of oplogs that node n has
    query,     \* query[q]: the call's request, progress and rows
    cache,     \* the rows the engine keeps for the criteria
    held,      \* history: what the places a call reads have had since it began
    calm       \* history: the calls since whose start no entry has moved, all
               \* peers have had all of them, and the cache has been current

vars == <<seen, query, cache, held, calm>>

-----------------------------------------------------------------------------
(* Documents.                                                              *)

Row(k, n) == [name |-> k[2], val |-> Rebuilt(seen[n], k)]

HasKey(n, k) == Rebuilt(seen[n], k) # Nothing

Rows(n, s) == {Row(k, n) : k \in {k \in {s} \X Name : HasKey(n, k)}}

Names(rows) == {row.name : row \in rows}

\* One row for every name (dedupResults, collectResults): any of those found.
Distinct(rows) ==
    {R \in SUBSET rows : Names(R) = Names(rows) /\ Cardinality(R) = Cardinality(Names(R))}

Log(n, s) == {e \in seen[n] : e.store = s}

NewEntry(n, s, docs, of) ==
    [time |-> 1 + Max({0} \cup {e.time : e \in Log(n, s)}), id |-> n, store |-> s,
     docs |-> docs, of |-> of, past |-> {<<e.time, e.id>> : e \in Log(n, s)}]

AddEntry(n, e) == seen' = [seen EXCEPT ![n] = @ \cup {e}]

entries == UNION Range(seen)

\* What clients wrote; `of` numbers the writes, and is 0 in what reads write.
Clients == {e \in entries : e.of > 0}

-----------------------------------------------------------------------------
(* The request of a stream.  A message has options on its top level and    *)
(* under "options", which win; criteria; and the nodes it came through.    *)

DefaultOptions ==
    [strategy |-> "LOCAL_ONLY", force |-> FALSE, local |-> TRUE, maxPeers |-> 0, quorumN |-> 0]

ParseOptions(msg) == msg.options @@ msg.top @@ DefaultOptions

\* No criteria, or a loop.
Refused(msg) == ~msg.criteria \/ Self \in msg.path

\* queryPeersLimited reads the default store and knows neither min_rows nor
\* best effort.  The peers it asks are not in the path.
StreamRequest(msg) ==
    [ParseOptions(msg) EXCEPT !.maxPeers = Max({0, @})]
    @@ [side |-> "stream", refused |-> Refused(msg), store |-> Default, minRows |-> 0,
        quorum |-> TRUE]

-----------------------------------------------------------------------------
Unasked == [at |-> "idle"]
Done == [at |-> "done"]

Init ==
    /\ seen = [n \in Node |-> {}]
    /\ query = [q \in Query |-> Unasked]
    /\ cache = {}
    /\ held = [q \in Query |-> {}]
    /\ calm = {}

Step(q, from, r) == query[q].at = from /\ query' = [query EXCEPT ![q] = r]

IsCommand(q) == query[q].req.side = "command"

\* A command with QUORUM or LOCAL_ONLY reads the local store in any case.
ReadsLocal(r) ==
    /\ ~r.refused
    /\ r.strategy # "REMOTE_ONLY"
    /\ \/ r.local
       \/ r.side = "command" /\ r.strategy \in {"QUORUM", "LOCAL_ONLY"}

\* handleRequest, handleQueryStream: the local part comes first, except that
\* of PARALLEL_MERGE, which ReadLocal may do at any time.
Begun(r) ==
    [req |-> r, local |-> ReadsLocal(r), rows |-> {}, remote |-> {}, toAsk |-> {},
     running |-> {}, asked |-> {}, answered |-> {}, nonEmpty |-> {}, found |-> 0,
     failed |-> FALSE, expired |-> FALSE,
     at |-> IF ReadsLocal(r) /\ r.strategy # "PARALLEL_MERGE" THEN "local"
            ELSE IF r.refused \/ r.strategy = "LOCAL_ONLY" THEN "answer" ELSE "fan out"]

Ask(q) ==
    /\ \E r \in May[q] : Step(q, "idle", Begun(r))
    /\ UNCHANGED <<seen, cache>>

\* The local rows are the answer.  A stream does not look at min_rows.
Suffices(r, rows) ==
    \/ r.strategy = "LOCAL_ONLY"
    \/ /\ r.strategy = "LOCAL_THEN_REMOTE_MERGE"
       /\ ~r.force /\ rows # {}
       /\ r.side = "command" => Cardinality(rows) >= r.minRows

ReadLocal(q) ==
    LET c == query[q]
        rows == Rows(Self, c.req.store)
    IN  /\ c.at \in {"local", "fan out", "asking"} /\ c.local
        /\ query' = [query EXCEPT ![q].rows = rows, ![q].local = FALSE,
                                  ![q].at = IF @ # "local" THEN @
                                            ELSE IF Suffices(c.req, rows) THEN "answer"
                                            ELSE "fan out"]
        /\ UNCHANGED <<seen, cache>>

-----------------------------------------------------------------------------
(* Asking peers.                                                           *)

\* The engine's worker pool; QUORUM and streams start one goroutine per peer.
Pooled(q) == IsCommand(q) /\ query[q].req.strategy # "QUORUM"

CacheHit(q) ==
    /\ query[q].at = "fan out" /\ Pooled(q) /\ cache # {}
    /\ query' = [query EXCEPT ![q] = [query[q] EXCEPT !.at = "asking", !.remote = cache]]
    /\ UNCHANGED <<seen, cache>>

Asked(r) ==
    IF r.side = "stream" /\ r.strategy = "QUORUM" /\ r.quorumN <= 0 THEN {{}}
    ELSE IF \/ r.maxPeers = 0 \/ r.maxPeers >= Cardinality(Peer)
            \/ r.side = "stream" /\ r.strategy = "QUORUM" THEN {Peer}
    ELSE kSubset(r.maxPeers, Peer)

FanOut(q) ==
    /\ query[q].at = "fan out"
    /\ Pooled(q) => cache = {}
    /\ \E ps \in IF Pooled(q) THEN {Peer} ELSE Asked(query[q].req) :
         Step(q, "fan out", [query[q] EXCEPT
              !.at = "asking", !.asked = ps,
              !.toAsk = IF Pooled(q) THEN ps ELSE {},
              !.running = IF Pooled(q) THEN {} ELSE ps])
    /\ UNCHANGED <<seen, cache>>

WorkerTakes(q, p) ==
    /\ query[q].at = "asking" /\ p \in query[q].toAsk /\ ~query[q].expired
    /\ Cardinality(query[q].running) < MaxWorkers
    /\ query' = [query EXCEPT ![q].toAsk = @ \ {p}, ![q].running = @ \cup {p}]
    /\ UNCHANGED <<seen, cache>>

\* queryPeer: the request names no store, so the peer reads its default one.
PeerAnswers(q, p) ==
    /\ query[q].at = "asking" /\ p \in query[q].running
    /\ query' = [query EXCEPT
           ![q].running = @ \ {p}, ![q].answered = @ \cup {p},
           ![q].remote = @ \cup Rows(p, Default),
           ![q].found = @ + Cardinality(Rows(p, Default)),
           ![q].nonEmpty = IF Rows(p, Default) = {} THEN @ ELSE @ \cup {p}]
    /\ UNCHANGED <<seen, cache>>

PeerFails(q, p) ==
    /\ query[q].at = "asking" /\ p \in query[q].running
    /\ query' = [query EXCEPT ![q].running = @ \ {p}, ![q].failed = TRUE]
    /\ UNCHANGED <<seen, cache>>

\* A goroutine that asks one peer may fail to open its stream (PeerFails).
Expire(q) ==
    /\ query[q].at = "asking" /\ ~query[q].expired
    /\ IsCommand(q) => query[q].toAsk # {}
    /\ query' = [query EXCEPT ![q].expired = TRUE]
    /\ UNCHANGED <<seen, cache>>

\* A worker leaves at the deadline, but not from a read that has none.
PoolEmpty(c) == c.running = {}

PoolDone(c) == c.running = {} /\ (c.toAsk = {} \/ c.expired)

\* quorumMerge: at the deadline the break leaves the select, not the loop.
QuorumDone(c) ==
    \/ c.running = {}
    \/ c.req.quorum /\ Cardinality(c.answered) >= QuorumN
    \/ c.req.minRows > 0 /\ c.found >= c.req.minRows

\* queryPeersLimited and queryPeersUntilQuorum.
StreamWaits(c) == c.running = {}

StreamDone(c) ==
    \/ c.running = {} \/ c.expired
    \/ c.req.strategy = "QUORUM" /\ Cardinality(c.nonEmpty) >= c.req.quorumN

Collected(q) ==
    IF ~IsCommand(q) THEN StreamDone(query[q])
    ELSE IF Pooled(q) THEN PoolDone(query[q]) ELSE QuorumDone(query[q])

\* What was found is cached, complete or not; an empty result is not.
Collect(q) ==
    /\ query[q].at = "asking" /\ Collected(q) /\ ~query[q].local
    /\ \E R \in Distinct(query[q].remote) :
         /\ \E A \in Distinct(query[q].rows \cup R) :
              Step(q, "asking", [query[q] EXCEPT !.at = "answer", !.rows = A, !.remote = {}])
         /\ cache' = IF Pooled(q) /\ R # {} THEN R ELSE cache
    /\ UNCHANGED seen

-----------------------------------------------------------------------------
(* Rows learned from peers are stored (persistRemoteRows).                 *)

KeyOf(q, row) == <<query[q].req.store, row.name>>

AllRows(q) == query[q].rows

Missing(q) == {row \in query[q].rows : ~HasKey(Self, KeyOf(q, row))}

Answer(q) ==
    LET missing == IF query[q].at = "answer" /\ IsCommand(q) THEN Missing(q) ELSE {}
    IN  /\ Step(q, "answer", IF missing = {} THEN Done
                             ELSE [Begun(query[q].req) EXCEPT !.at = "putting",
                                                              !.rows = missing])
        /\ UNCHANGED <<seen, cache>>

Put(q) ==
    LET docs == [k \in {KeyOf(q, row) : row \in query[q].rows} |->
                     (CHOOSE row \in query[q].rows : KeyOf(q, row) = k).val]
    IN  /\ Step(q, "putting", Done)
        /\ AddEntry(Self, NewEntry(Self, query[q].req.store, docs, 0))
        /\ UNCHANGED cache

-----------------------------------------------------------------------------
(* Clients and replication.                                                *)

ClientWrite(n, k) ==
    LET w == Cardinality(Clients) + 1
    IN  /\ w <= MaxWrites
        /\ \E v \in {w} \cup (IF HasKey(n, k) THEN {Nothing} ELSE {}) :
             AddEntry(n, NewEntry(n, k[1], [key \in {k} |-> v], w))
        /\ UNCHANGED <<query, cache>>

Replicate(n, e) ==
    /\ seen' = [seen EXCEPT ![n] =
           @ \cup {e} \cup {f \in entries : f.store = e.store /\ <<f.time, f.id>> \in e.past}]
    /\ UNCHANGED <<query, cache>>

\* The ten minutes have passed, or CLEARCACHE.
ClearCache ==
    /\ cache # {}
    /\ cache' = {}
    /\ UNCHANGED <<seen, query>>

-----------------------------------------------------------------------------
Holding(q) ==
    {h \in Node \X Name :
         HasKey(h[1], <<IF h[1] = Self THEN query[q].req.store ELSE Default, h[2]>>)}

\* No peer is behind another or behind this node, nor is the cache.
PeersAgree ==
    \A p \in Peer : seen[p] = entries /\ cache \in {{}, Rows(p, Default)}

Observed ==
    /\ held' = [q \in Query |->
           IF query'[q].at \in {"idle", "putting", "done"} THEN {}
           ELSE IF query[q].at = "idle" THEN Holding(q)' ELSE held[q] \cap Holding(q)']
    /\ calm' = {q \in Query : /\ query'[q].at \notin {"idle", "done"}
                              /\ PeersAgree' /\ seen' = seen
                              /\ q \in calm \/ query[q].at = "idle"}

Process(q) ==
    \/ ReadLocal(q) \/ CacheHit(q) \/ FanOut(q) \/ Collect(q) \/ Answer(q) \/ Put(q)
    \/ \E p \in Peer : WorkerTakes(q, p)

Calls(q) ==
    \/ Ask(q) \/ Process(q) \/ Expire(q)
    \/ \E p \in Peer : PeerAnswers(q, p) \/ PeerFails(q, p)

Next ==
    /\ \/ \E q \in Query : Calls(q)
       \/ \E c \in Client : ClientWrite(c[1], c[2])
       \/ \E n \in Node : \E e \in entries \ seen[n] : Replicate(n, e)
       \/ ClearCache
    /\ Observed

Spec == Init /\ [][Next]_vars

\* Goroutines run, timers fire, and a peer that is not hanging answers or fails.
Fairness ==
    \A q \in Query :
        /\ WF_vars(Process(q) /\ Observed)
        /\ WF_vars(Expire(q) /\ Observed)
        /\ \A p \in Peer \ Hanging : WF_vars((PeerAnswers(q, p) \/ PeerFails(q, p)) /\ Observed)

FairSpec == Spec /\ Fairness

-----------------------------------------------------------------------------
(* Properties.                                                             *)

\* Every call ends, at a stream also one that asks a hanging peer; a command
\* waits for the hanging peer beyond its time budget and for good.
QueryEnds ==
    \A q \in Query :
        query[q].at \notin {"idle", "done"} ~>
            \/ query[q].at = "done"
            \/ /\ query[q].at = "asking" /\ IsCommand(q)
               /\ query[q].running \cap Hanging # {}

\* What a call takes for enough without all of the peers it asked.
Enough(c) ==
    /\ c.req.strategy = "QUORUM"
    /\ IF c.req.side = "command"
       THEN Cardinality(c.answered) >= QuorumN \/ (c.found >= c.req.minRows /\ c.req.minRows > 0)
       ELSE Cardinality(c.nonEmpty) >= c.req.quorumN

\* An answer has every document its places have had since the call began: the
\* local store if it is read, and every peer that answered; these are all peers
\* asked unless one failed, time ran out, the cache answered or it was enough.
AnswerComplete ==
    \A q \in Query : query[q].at = "answer" =>
        LET c == query[q]
            places == c.answered \cup (IF ReadsLocal(c.req) THEN {Self} ELSE {})
        IN  /\ {h[2] : h \in {h \in held[q] : h[1] \in places}} \subseteq Names(c.rows)
            /\ c.answered = c.asked \/ c.failed \/ c.expired \/ Enough(c)

\* With peers that agree, a calm read writes the latest version of documents of
\* the default store this node lacks, and nothing when it lacks none ("a read
\* must not create new log entries").  Otherwise it may undo a client's write: a
\* peer or the cache shows a document that was deleted or changed since, or the
\* document comes or goes between the look-up and the write.
CalmReadsFillGaps ==
    \A q \in calm : query[q].at = "putting" /\ query[q].req.store = Default =>
        /\ seen[Self] # entries
        /\ \A row \in query[q].rows : row.val = Rebuilt(entries, <<Default, row.name>>)

=============================================================================
