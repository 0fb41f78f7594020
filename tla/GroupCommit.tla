----------------------------- MODULE GroupCommit -----------------------------
(***************************************************************************)
(* The write path of one document store (app/group_commit.go): callers     *)
(* queue their documents, and a writer goroutine that lives while there is *)
(* work combines what has queued up into one oplog entry.                  *)
(*                                                                         *)
(* A request is one document of one call.  The store is its oplog here:    *)
(* the sequence of entries, each the sequence of requests it carries;      *)
(* module DocumentStore says what an entry does to the documents.          *)
(***************************************************************************)
EXTENDS Integers, Sequences

CONSTANTS
    Caller,      \* calls of PutManyCoalesced
    Request,     \* their documents
    Docs,        \* Docs[c]: the documents of call c, in order
    Key,         \* Key[r]: the _id of the document
    Size,        \* Size[r]: the length of its JSON
    MaxDocs,     \* OPTIMUSDB_BATCH_MAX_DOCS
    MaxBytes,    \* OPTIMUSDB_BATCH_MAX_BYTES
    Outcomes,    \* what a write to the store may come to
    MayCancel,   \* calls whose context may be cancelled
    Worker       \* names for writer goroutines

ASSUME CallsAssumption ==
    /\ Docs \in [Caller -> Seq(Request)]
    /\ \A c \in Caller : Docs[c] # <<>>
    /\ \A c, d \in Caller : \A i \in DOMAIN Docs[c], j \in DOMAIN Docs[d] :
         Docs[c][i] = Docs[d][j] => c = d /\ i = j
    /\ MayCancel \subseteq Caller
ASSUME LimitsAssumption ==
    /\ Size \in [Request -> Nat \ {0}]
    /\ MaxDocs \in Nat \ {0}
    /\ MaxBytes \in Nat \ {0}
ASSUME OutcomesAssumption == Outcomes \subseteq {"ok", "lost", "kept"}

VARIABLES
    caller,      \* how far a call has come: idle, submitted, or returned
    collected,   \* how many of its answers it has
    errs,        \* errs[r]: what the call reports for r
    cancelled,   \* the calls whose context is done
    queue,       \* w.queue, under w.mu
    running,     \* w.running, under w.mu
    done,        \* done[r]: the channel of r, with room for one answer
    writer,      \* the writer goroutines
    entries,     \* the oplog of the store
    arrival      \* history: the order in which requests were queued

callVars == <<caller, collected, errs, cancelled>>
vars == <<callVars, queue, running, done, writer, entries, arrival>>

Off == [at |-> "off", batch |-> <<>>, chunk |-> <<>>, stored |-> FALSE]

Init ==
    /\ caller = [c \in Caller |-> "idle"]
    /\ collected = [c \in Caller |-> 0]
    /\ errs = [r \in Request |-> "none"]
    /\ cancelled = {}
    /\ queue = <<>>
    /\ running = FALSE
    /\ done = [r \in Request |-> "none"]
    /\ writer = [w \in Worker |-> Off]
    /\ entries = <<>>
    /\ arrival = <<>>

-----------------------------------------------------------------------------
(* PutManyCoalesced.                                                       *)

EnqueueFirst(c) == queue' = Docs[c] \o queue

Enqueue(c) == queue' = queue \o Docs[c]

(***************************************************************************)
(* The go statement, under the lock.                                       *)
(***************************************************************************)
StartWriter ==
    \E w \in Worker :
        /\ writer[w].at = "off"
        /\ writer' = [writer EXCEPT ![w] = [Off EXCEPT !.at = "take"]]

Wake ==
    IF running
    THEN UNCHANGED <<running, writer>>
    ELSE running' = TRUE /\ StartWriter

Submit(c) ==
    /\ caller[c] = "idle"
    /\ caller' = [caller EXCEPT ![c] = "submitted"]
    /\ Enqueue(c)
    /\ arrival' = arrival \o Docs[c]
    /\ Wake
    /\ UNCHANGED <<collected, errs, cancelled, done, entries>>

Cancel(c) ==
    /\ c \in MayCancel \ cancelled
    /\ caller[c] # "returned"
    /\ cancelled' = cancelled \cup {c}
    /\ UNCHANGED <<caller, collected, errs, queue, running, done, writer,
                   entries, arrival>>

Report(r, answer) == errs' = [errs EXCEPT ![r] = answer]

(***************************************************************************)
(* The select over the next answer and the end of the context, which picks *)
(* either when both are ready.                                             *)
(***************************************************************************)
Collect(c) ==
    LET r == Docs[c][collected[c] + 1]
    IN  /\ caller[c] = "submitted"
        /\ collected[c] < Len(Docs[c])
        /\ \/ done[r] # "none" /\ Report(r, done[r])
           \/ c \in cancelled /\ Report(r, "cancelled")
        /\ collected' = [collected EXCEPT ![c] = @ + 1]
        /\ UNCHANGED <<caller, cancelled, queue, running, done, writer,
                       entries, arrival>>

Return(c) ==
    /\ caller[c] = "submitted"
    /\ collected[c] = Len(Docs[c])
    /\ caller' = [caller EXCEPT ![c] = "returned"]
    /\ UNCHANGED <<collected, errs, cancelled, queue, running, done, writer,
                   entries, arrival>>

-----------------------------------------------------------------------------
(* The writer goroutine (run and write).                                   *)

EnterWriter(w, state) == writer' = [writer EXCEPT ![w] = state]

(***************************************************************************)
(* An empty queue ends the goroutine in the section that found it empty.   *)
(***************************************************************************)
LeaveLater(w) == EnterWriter(w, Off) /\ UNCHANGED running

Leave(w) == EnterWriter(w, Off) /\ running' = FALSE

Stop(w) ==
    /\ writer[w].at = "take"
    /\ queue = <<>>
    /\ Leave(w)
    /\ UNCHANGED <<callVars, queue, done, entries, arrival>>

Take(w) ==
    /\ writer[w].at = "take"
    /\ queue # <<>>
    /\ queue' = <<>>
    /\ EnterWriter(w, [Off EXCEPT !.at = "write", !.batch = queue])
    /\ UNCHANGED <<callVars, running, done, entries, arrival>>

(***************************************************************************)
(* The bytes of the first e requests of a batch.                           *)
(***************************************************************************)
Bytes(batch, e) ==
    LET total[i \in Nat] == IF i = 0 THEN 0 ELSE total[i - 1] + Size[batch[i]]
    IN  total[e]

Fits(batch, e) == e <= MaxDocs /\ Bytes(batch, e) <= MaxBytes

(***************************************************************************)
(* Where the first chunk of a batch ends: one request always goes, more as *)
(* long as they fit.                                                       *)
(***************************************************************************)
ChunkEnd(batch, e) ==
    /\ e \in 1 .. Len(batch)
    /\ e > 1 => Fits(batch, e)
    /\ e < Len(batch) => ~Fits(batch, e + 1)

(***************************************************************************)
(* A Put or PutAll: stored; failed before the oplog entry was appended; or *)
(* failed after it, when the heads could not be cached or the index not    *)
(* be updated (AddOperation).                                              *)
(***************************************************************************)
Write(chunk, outcome) ==
    entries' = IF outcome = "lost" THEN entries ELSE Append(entries, chunk)

(***************************************************************************)
(* One request is written with Put, several with PutAll; a PutAll that     *)
(* fails is followed by a Put for each.                                    *)
(***************************************************************************)
NoRetry(w, outcome) == "answer"

AfterPutAll(w, outcome) == IF outcome = "ok" THEN "answer" ELSE "retry"

PutChunk(w) ==
    /\ writer[w].at = "write"
    /\ \E e \in 1 .. Len(writer[w].batch), outcome \in Outcomes :
         LET batch == writer[w].batch
             chunk == SubSeq(batch, 1, e)
         IN  /\ ChunkEnd(batch, e)
             /\ Write(chunk, outcome)
             /\ EnterWriter(w,
                  [at |-> IF e = 1 THEN "answer" ELSE AfterPutAll(w, outcome),
                   batch |-> SubSeq(batch, e + 1, Len(batch)),
                   chunk |-> chunk,
                   stored |-> e > 1 \/ outcome = "ok"])
    /\ UNCHANGED <<callVars, queue, running, done, arrival>>

(***************************************************************************)
(* The next round: the rest of the batch, or the queue again.              *)
(***************************************************************************)
Onward(rest) ==
    [Off EXCEPT !.at = IF rest = <<>> THEN "take" ELSE "write", !.batch = rest]

Answer(w) ==
    LET chunk == writer[w].chunk
    IN  /\ writer[w].at = "answer"
        /\ done' = [r \in Request |->
                      IF \E i \in DOMAIN chunk : chunk[i] = r
                      THEN IF writer[w].stored THEN "ok" ELSE "failed"
                      ELSE done[r]]
        /\ EnterWriter(w, Onward(writer[w].batch))
        /\ UNCHANGED <<callVars, queue, running, entries, arrival>>

(***************************************************************************)
(* The Puts after a failed PutAll, each answered at once.                  *)
(***************************************************************************)
Retry(w) ==
    LET chunk == writer[w].chunk
    IN  /\ writer[w].at = "retry"
        /\ \E outcome \in Outcomes :
             /\ Write(<<Head(chunk)>>, outcome)
             /\ done' = [done EXCEPT ![Head(chunk)] =
                           IF outcome = "ok" THEN "ok" ELSE "failed"]
        /\ EnterWriter(w, IF Tail(chunk) = <<>>
                          THEN Onward(writer[w].batch)
                          ELSE [writer[w] EXCEPT !.chunk = Tail(chunk)])
        /\ UNCHANGED <<callVars, queue, running, arrival>>

-----------------------------------------------------------------------------
Call(c) == Submit(c) \/ Collect(c) \/ Return(c)

Writer(w) == Stop(w) \/ Take(w) \/ PutChunk(w) \/ Answer(w) \/ Retry(w)

Next ==
    \/ \E c \in Caller : Call(c) \/ Cancel(c)
    \/ \E w \in Worker : Writer(w)

Spec == Init /\ [][Next]_vars

(***************************************************************************)
(* Goroutines run; a call, once made, collects its answers.  Nobody has to *)
(* call or to cancel, and the store need not succeed.                      *)
(***************************************************************************)
Fairness ==
    /\ \A c \in Caller : WF_vars(Collect(c) \/ Return(c))
    /\ \A w \in Worker : WF_vars(Writer(w))

FairSpec == Spec /\ Fairness

-----------------------------------------------------------------------------
(* Properties.                                                             *)

WriterStates ==
    [at : {"off", "take", "write", "answer", "retry"}, batch : Seq(Request),
     chunk : Seq(Request), stored : BOOLEAN]

(***************************************************************************)
(* The state has the shape the Go declarations give it, and a call has a   *)
(* result for exactly the documents it is past.                            *)
(***************************************************************************)
TypeOK ==
    /\ caller \in [Caller -> {"idle", "submitted", "returned"}]
    /\ collected \in [Caller -> Nat]
    /\ \A c \in Caller : collected[c] <= Len(Docs[c])
    /\ \A c \in Caller : \A i \in DOMAIN Docs[c] :
         i <= collected[c] <=> errs[Docs[c][i]] # "none"
    /\ errs \in [Request -> {"none", "ok", "failed", "cancelled"}]
    /\ cancelled \subseteq Caller
    /\ queue \in Seq(Request)
    /\ running \in BOOLEAN
    /\ done \in [Request -> {"none", "ok", "failed"}]
    /\ writer \in [Worker -> WriterStates]
    /\ entries \in Seq(Seq(Request))
    /\ arrival \in Seq(Request)

(***************************************************************************)
(* running says whether a writer goroutine lives, and there is never more  *)
(* than one, whatever Submit and Stop interleave.                          *)
(***************************************************************************)
OneWriter ==
    /\ running <=> \E w \in Worker : writer[w].at # "off"
    /\ \A w, x \in Worker :
         writer[w].at # "off" /\ writer[x].at # "off" => w = x

(***************************************************************************)
(* No lost wakeup: while requests are queued a writer is alive that will   *)
(* look at the queue again.                                                *)
(***************************************************************************)
QueuedIsServed == queue # <<>> => \E w \in Worker : writer[w].at # "off"

Stored(r) == \E i \in DOMAIN entries : \E j \in DOMAIN entries[i] : entries[i][j] = r

(***************************************************************************)
(* A caller that is told its document is stored finds it in the oplog.     *)
(***************************************************************************)
AnsweredIsStored == \A r \in Request : errs[r] = "ok" => Stored(r)

(***************************************************************************)
(* s was written after r: some entry has s after every occurrence of r.    *)
(***************************************************************************)
StoredAfter(s, r) ==
    \E i \in DOMAIN entries : \E j \in DOMAIN entries[i] :
        /\ entries[i][j] = s
        /\ \A k \in DOMAIN entries : \A l \in DOMAIN entries[k] :
             entries[k][l] = r => k < i \/ (k = i /\ l < j)

(***************************************************************************)
(* Of two acknowledged writes of one document the one that was queued      *)
(* later wins, as if they had been written one after the other.            *)
(***************************************************************************)
ArrivalOrderKept ==
    \A i, j \in DOMAIN arrival :
        LET r == arrival[i]
            s == arrival[j]
        IN  i < j /\ Key[r] = Key[s] /\ done[r] = "ok" /\ done[s] = "ok"
            => StoredAfter(s, r)

(***************************************************************************)
(* A queued document is decided even when its caller has left.             *)
(***************************************************************************)
QueuedIsDecided ==
    \A r \in Request :
        (\E i \in DOMAIN arrival : arrival[i] = r) ~> done[r] # "none"

=============================================================================
