--------------------------- MODULE SemanticSearch ---------------------------
(***************************************************************************)
(* The semantic index of every node and searches over all of them          *)
(* (semantic/semantic_search.go, http_handlers.go, doc_fetch.go; started   *)
(* by main.go, filled by app/service.go).  A document is indexed by a      *)
(* goroutine of its put; a search scans the own index, asks all peers over *)
(* pubsub, and merges what arrives within its budget.  An embedding is     *)
(* abstracted to its score, the similarity to what is searched for.        *)
(***************************************************************************)
EXTENDS Integers, SequencesExt

CONSTANTS
    Node, Document,
    Content,    \* what a document may say
    Clients,    \* Clients[n]: the documents that are put on n
    Scores,     \* Scores[c]: of the texts that the fields of c are joined to
    Search,     \* the searches
    Origin,     \* Origin[s]: the node that is asked
    TopK,       \* TopK[s]: how many documents the client wants
    Backlog,    \* the capacity of a search's channel
    MaxPuts     \* bound on the documents put

ASSUME SemanticAssumption ==
    /\ IsFiniteSet(Document)
    /\ Clients \in [Node -> SUBSET Document]
    /\ \A c \in Content : Scores[c] \subseteq Int
    /\ Origin \in [Search -> Node]
    /\ TopK \in [Search -> Nat]

VARIABLES
    ready,      \* the nodes whose index is initialised
    vectors,    \* vectors[n]: the vector tables of n
    indexing,   \* goroutines that index a document
    puts,       \* how many documents were put
    queries,    \* <<s, n>>: the query of s on its way to n
    replies,    \* answers on their way
    search      \* the searches

semVars == <<ready, vectors, indexing, puts, queries, replies, search>>

None == [score |-> 0, named |-> FALSE]

SemanticInit ==
    /\ ready = {}
    /\ vectors = [n \in Node |-> [d \in Document |-> None]]
    /\ indexing = {}
    /\ puts = 0
    /\ queries = {}
    /\ replies = {}
    /\ search = [s \in Search |-> [at |-> "idle"]]

-----------------------------------------------------------------------------
(* The index.                                                              *)

\* The database, llama-server, the pubsub and OrbitDB are all there.
InitIndex(n) ==
    /\ n \notin ready
    /\ ready' = ready \cup {n}
    /\ UNCHANGED <<vectors, indexing, puts, queries, replies, search>>

\* A put that stored d, on a node whose index is ready.
DocumentPut(n, d, c) ==
    /\ n \in ready
    /\ d \in Clients[n]
    /\ puts < MaxPuts
    /\ puts' = puts + 1
    /\ indexing' = indexing \cup {[node |-> n, doc |-> d, content |-> c]}
    /\ UNCHANGED <<ready, vectors, queries, replies, search>>

\* Fields without priority are joined in the order of a map, which is any.
Embeddings(c) == Scores[c]

\* Replaces the row of the embedding and that of its store.
IndexDocument(job, score) ==
    /\ job \in indexing
    /\ score \in Embeddings(job.content)
    /\ indexing' = indexing \ {job}
    /\ vectors' = [vectors EXCEPT
            ![job.node][job.doc] = [score |-> score, named |-> TRUE]]
    /\ UNCHANGED <<ready, puts, queries, replies, search>>

\* No embedding, or the transaction fails.
IndexFails(job) ==
    /\ job \in indexing
    /\ indexing' = indexing \ {job}
    /\ UNCHANGED <<ready, vectors, puts, queries, replies, search>>

\* The embedding that m pinned, unless n has one; its store is not known.
BootstrapFromIPFS(n, m, d) ==
    /\ n \in ready
    /\ vectors[n][d] = None
    /\ vectors[m][d] # None
    /\ vectors' = [vectors EXCEPT
            ![n][d] = [score |-> vectors[m][d].score, named |-> FALSE]]
    /\ UNCHANGED <<ready, indexing, puts, queries, replies, search>>

-----------------------------------------------------------------------------
(* Results.                                                                *)

Descending(seq) == \A i, j \in DOMAIN seq : i < j => seq[i].score >= seq[j].score

\* The orders a ranking of the results may come in, cut after k.
Ranked(results, k) ==
    {SubSeq(seq, 1, IF Len(seq) < k THEN Len(seq) ELSE k) :
        seq \in {seq \in SetToSeqs(results) : Descending(seq)}}

Rows(n, index) ==
    {[doc |-> d, score |-> index[d].score, node |-> n, named |-> index[d].named] :
        d \in {d \in Document : index[d] # None}}

\* The k nearest of an index.
LocalANN(n, k) == Ranked(Rows(n, vectors[n]), k)

\* Mutant: the first result of a document is kept.
First(results) ==
    {results[i] : i \in {i \in DOMAIN results :
        \A j \in DOMAIN results : results[j].doc = results[i].doc => j >= i}}

\* Of each document the first of its results with the highest score.
Best(results) ==
    {results[i] : i \in {i \in DOMAIN results :
        \A j \in DOMAIN results : results[j].doc = results[i].doc =>
            \/ results[j].score < results[i].score
            \/ results[j].score = results[i].score /\ j >= i}}

RankAndTrim(results, k) == Ranked(Best(results), k)

-----------------------------------------------------------------------------
(* A search.                                                               *)

(***************************************************************************)
(* The own index is searched.  What is still on its way for an earlier     *)
(* search of s has another id, and is of no use.                           *)
(***************************************************************************)
Scan(s) ==
    LET n == Origin[s]
    IN  /\ n \in ready
        /\ search[s].at \in {"idle", "done"}
        /\ \E local \in LocalANN(n, TopK[s]) :
             search' = [search EXCEPT ![s] =
                [at |-> "pending", all |-> local, channel |-> <<>>,
                 places |-> {Rows(n, vectors[n])}]]
        /\ queries' = {q \in queries : q[1] # s}
        /\ replies' = {r \in replies : r.to # s}
        /\ UNCHANGED <<ready, vectors, indexing, puts>>

Finished(s, results) ==
    search' = [search EXCEPT ![s] = [at |-> "done", found |-> results, places |-> @.places]]

\* The answer is awaited before the query is out.
Publish(s) ==
    /\ search[s].at = "pending"
    /\ search' = [search EXCEPT ![s].at = "waiting"]
    /\ queries' = queries \cup {<<s, n>> : n \in ready \ {Origin[s]}}
    /\ UNCHANGED <<ready, vectors, indexing, puts, replies>>

PublishFails(s) ==
    /\ search[s].at = "pending"
    /\ \E found \in RankAndTrim(search[s].all, TopK[s]) : Finished(s, found)
    /\ UNCHANGED <<ready, vectors, indexing, puts, queries, replies>>

(***************************************************************************)
(* A peer answers with its nearest.  A query that is late or lost is never *)
(* handled; of an empty index there is no answer.                          *)
(***************************************************************************)
HandleIncomingQuery(s, n) ==
    /\ <<s, n>> \in queries
    /\ queries' = queries \ {<<s, n>>}
    /\ \E results \in LocalANN(n, TopK[s]) :
         replies' = IF results = <<>> THEN replies
                    ELSE replies \cup {[to |-> s, results |-> results,
                                        place |-> Rows(n, vectors[n])]}
    /\ UNCHANGED <<ready, vectors, indexing, puts, search>>

\* A reply without a pending search, or for which there is no room, is dropped.
HandleIncomingReply(r) ==
    /\ r \in replies
    /\ replies' = replies \ {r}
    /\ search' = IF /\ search[r.to].at = "waiting"
                    /\ Len(search[r.to].channel) < Backlog
                 THEN [search EXCEPT ![r.to].channel = Append(@, r)]
                 ELSE search
    /\ UNCHANGED <<ready, vectors, indexing, puts, queries>>

Collect(s) ==
    /\ search[s].at = "waiting"
    /\ search[s].channel # <<>>
    /\ LET r == Head(search[s].channel)
       IN  search' = [search EXCEPT ![s].channel = Tail(@),
                                    ![s].all = @ \o r.results,
                                    ![s].places = @ \cup {r.place}]
    /\ UNCHANGED <<ready, vectors, indexing, puts, queries, replies>>

\* The timer, or the client left; what is in the channel is not waited for.
BudgetEnds(s) ==
    /\ search[s].at = "waiting"
    /\ \E found \in RankAndTrim(search[s].all, TopK[s]) : Finished(s, found)
    /\ UNCHANGED <<ready, vectors, indexing, puts, queries, replies>>

-----------------------------------------------------------------------------
SemanticNext ==
    \/ \E n \in Node : InitIndex(n)
    \/ \E n \in Node, d \in Document, c \in Content : DocumentPut(n, d, c)
    \/ \E job \in indexing : IndexFails(job) \/ \E score \in Embeddings(job.content) : IndexDocument(job, score)
    \/ \E n, m \in Node, d \in Document : BootstrapFromIPFS(n, m, d)
    \/ \E s \in Search : Scan(s) \/ Publish(s) \/ PublishFails(s) \/ Collect(s) \/ BudgetEnds(s)
    \/ \E q \in queries : HandleIncomingQuery(q[1], q[2])
    \/ \E r \in replies : HandleIncomingReply(r)

SemanticSpec == SemanticInit /\ [][SemanticNext]_semVars

-----------------------------------------------------------------------------
(* Properties.                                                             *)

(***************************************************************************)
(* Although every place sends only its own nearest, what a search finds    *)
(* is what a ranking of all rows of the places that answered in time would *)
(* find: each document once, with its best score, and none that was left   *)
(* out is better (rankAndTrim, localANN).                                  *)
(***************************************************************************)
SearchFindsBest ==
    \A s \in Search : search[s].at = "done" =>
        LET found == search[s].found
            rows == UNION search[s].places
            shown == {found[i].doc : i \in DOMAIN found}
        IN  /\ Descending(found)
            /\ Cardinality(shown) = Len(found)
            /\ \A i \in DOMAIN found : found[i] \in rows
            /\ Len(found) < TopK[s] => shown = {r.doc : r \in rows}
            /\ \A r \in rows :
                 IF r.doc \in shown
                 THEN \E i \in DOMAIN found : found[i].doc = r.doc /\ found[i].score >= r.score
                 ELSE \A i \in DOMAIN found : found[i].score >= r.score

=============================================================================
