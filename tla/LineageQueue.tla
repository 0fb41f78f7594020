---------------------------- MODULE LineageQueue ----------------------------
(***************************************************************************)
(* The bookkeeping queue of app/lineage_queue.go: updates leave the latest *)
(* version of their document in a map and its key in a queue; one worker   *)
(* goroutine, alive while there is work, enters them in the data catalog.  *)
(* A document is a store name and an _id; its versions are numbered.       *)
(***************************************************************************)
EXTENDS Integers, Sequences

CONSTANTS
    Doc,        \* the keys
    MayFail,    \* updateLineageAndMetadata may panic, a write may fail
    MaxUpdates, \* bound: updates of each document
    Worker      \* names for worker goroutines

NoJob == 0

ASSUME QueueAssumption ==
    /\ MayFail \in BOOLEAN
    /\ MaxUpdates \in Nat

VARIABLES
    pending,    \* lineageQ.pending: the version waiting for each document
    order,      \* lineageQ.order
    running,    \* lineageQ.running
    worker,     \* the worker goroutines
    latest,     \* the version each document has in its store
    catalog     \* the version its catalog row was written from

queueVars == <<pending, order, running>>
vars == <<queueVars, worker, latest, catalog>>

Gone == [at |-> "gone"]
Looking == [at |-> "looking"]

QueueInit ==
    /\ pending = [d \in Doc |-> NoJob]
    /\ order = <<>>
    /\ running = FALSE
    /\ worker = [w \in Worker |-> Gone]
    /\ catalog = [d \in Doc |-> 0]

Init ==
    /\ QueueInit
    /\ latest = [d \in Doc |-> 0]

-----------------------------------------------------------------------------
(* enqueueLineage, one section under lineageQ.mu.                          *)

EnterOrder(d) == order' = IF pending[d] = NoJob THEN Append(order, d) ELSE order

KeepVersion(d, v) == IF pending[d] = NoJob THEN v ELSE pending[d]

PendingVersion(d, v) == v

StartWorker ==
    \E w \in Worker :
        /\ worker[w] = Gone
        /\ worker' = [worker EXCEPT ![w] = Looking]

WakeWorker ==
    IF running
    THEN UNCHANGED <<running, worker>>
    ELSE running' = TRUE /\ StartWorker

EnqueueLineage(d, v) ==
    /\ EnterOrder(d)
    /\ pending' = [pending EXCEPT ![d] = PendingVersion(d, v)]
    /\ WakeWorker

(***************************************************************************)
(* An update whose write and whose call of enqueueLineage nothing comes    *)
(* between; module Updates has the others.                                 *)
(***************************************************************************)
Update(d) ==
    /\ latest[d] < MaxUpdates
    /\ latest' = [latest EXCEPT ![d] = @ + 1]
    /\ EnqueueLineage(d, latest[d] + 1)
    /\ UNCHANGED catalog

-----------------------------------------------------------------------------
(* lineageWorker.                                                          *)

Leave(w) == worker' = [worker EXCEPT ![w] = Gone] /\ running' = FALSE

Stop(w) ==
    /\ worker[w] = Looking
    /\ order = <<>>
    /\ Leave(w)
    /\ UNCHANGED <<pending, order, latest, catalog>>

Take(w) ==
    LET d == Head(order)
    IN  /\ worker[w] = Looking
        /\ order # <<>>
        /\ order' = Tail(order)
        /\ worker' = [worker EXCEPT ![w] =
                        [at |-> "working", doc |-> d, version |-> pending[d]]]
        /\ pending' = [pending EXCEPT ![d] = NoJob]
        /\ UNCHANGED <<running, latest, catalog>>

(***************************************************************************)
(* updateLineageAndMetadata with its recover: a failed job is dropped.     *)
(***************************************************************************)
Work(w) ==
    /\ worker[w].at = "working"
    /\ \/ catalog' = [catalog EXCEPT ![worker[w].doc] = worker[w].version]
       \/ MayFail /\ UNCHANGED catalog
    /\ worker' = [worker EXCEPT ![w] = Looking]
    /\ UNCHANGED <<queueVars, latest>>

LineageWorker(w) == Stop(w) \/ Take(w) \/ Work(w)

Next ==
    \/ \E d \in Doc : Update(d)
    \/ \E w \in Worker : LineageWorker(w)

Spec == Init /\ [][Next]_vars

FairSpec == Spec /\ \A w \in Worker : WF_vars(LineageWorker(w))

-----------------------------------------------------------------------------
(* Properties.                                                             *)

(***************************************************************************)
(* The state has the shape the Go declarations give it; a worker never     *)
(* works on the zero job the map returns for a key it does not hold.       *)
(***************************************************************************)
TypeOK ==
    /\ pending \in [Doc -> Nat]
    /\ order \in Seq(Doc)
    /\ running \in BOOLEAN
    /\ worker \in [Worker -> {Gone, Looking}
                     \cup [at : {"working"}, doc : Doc, version : Nat \ {NoJob}]]
    /\ latest \in [Doc -> Nat]
    /\ catalog \in [Doc -> Nat]

(***************************************************************************)
(* The queue and the map are two views of one set: a key is queued exactly *)
(* when a version waits for it, and once only.  The worker deletes from    *)
(* the map what it takes from the queue without looking.                   *)
(***************************************************************************)
OrderMatchesPending ==
    /\ \A i, j \in DOMAIN order : order[i] = order[j] => i = j
    /\ \A d \in Doc : pending[d] # NoJob <=> \E i \in DOMAIN order : order[i] = d

(***************************************************************************)
(* running says whether a worker lives, there is never more than one, and  *)
(* while a key is queued there is one.                                     *)
(***************************************************************************)
OneWorker ==
    /\ running <=> \E w \in Worker : worker[w] # Gone
    /\ \A w, x \in Worker : worker[w] # Gone /\ worker[x] # Gone => w = x
    /\ order # <<>> => running

(***************************************************************************)
(* A catalog row is never overwritten with an older version of its         *)
(* document, though a version may be enqueued while an earlier one is      *)
(* being worked on.                                                        *)
(***************************************************************************)
CatalogMovesForward == [][\A d \in Doc : catalog[d] <= catalog'[d]]_vars

(***************************************************************************)
(* The queue implements the mailbox: the version in hand is the one its    *)
(* worker works on.                                                        *)
(***************************************************************************)
InHand ==
    IF \E w \in Worker : worker[w].at = "working"
    THEN LET w == CHOOSE x \in Worker : worker[x].at = "working"
         IN  [doc |-> {worker[w].doc}, version |-> worker[w].version]
    ELSE [doc |-> {}, version |-> NoJob]

Abstract == INSTANCE Mailbox WITH inHand <- InHand

MailboxImplemented == Abstract!FairSpec

=============================================================================
