----------------------------- MODULE Replicator -----------------------------
(***************************************************************************)
(* How a store fetches the history below the heads a peer announces        *)
(* (replicator/replicator.go), and joins it to its log when nothing is     *)
(* left to fetch (basestore/base_store.go).  Each entry is fetched by a    *)
(* goroutine of its own; a semaphore lets Slots of them run.  An action is *)
(* one hold of muProcess, the end of a fetch, or one step of the store's   *)
(* main loop.                                                              *)
(***************************************************************************)
EXTENDS Integers, SequencesExt

CONSTANTS
    Hash,       \* the entries, by hash
    Before,     \* Before[h]: the entries h points to, next and refs
    Known,      \* the log at the start
    Announced,  \* the sets of heads that peers announce
    Slots,      \* the concurrency of the replicator
    MaxFailures \* bound on fetches that fail

ASSUME HashAssumption ==
    /\ IsFiniteSet(Hash)
    /\ Before \in [Hash -> SUBSET Hash]
    /\ Known \subseteq Hash
    /\ \A h \in Known : Before[h] \subseteq Known
    /\ Announced \subseteq SUBSET Hash
ASSUME BoundsAssumption == Slots \in Nat \ {0} /\ MaxFailures \in Nat

VARIABLES
    tasks,      \* tasks[h]: what the replicator knows of h
    queue,      \* hashes no goroutine has taken yet
    waiting,    \* goroutines in waitForProcessSlot
    at,         \* at[h]: where the goroutine that took h is
    buffer,     \* fetched, for the next EventLoadEnd
    bus,        \* EventLoadEnd events the main loop has not finished with
    log,        \* the entries of the oplog
    indexed,    \* the entries applied to the index
    lost        \* history: the entries whose fetch failed

vars == <<tasks, queue, waiting, at, buffer, bus, log, indexed, lost>>

Init ==
    /\ tasks = [h \in Hash |-> "none"]
    /\ queue = <<>>
    /\ waiting = 0
    /\ at = [h \in Hash |-> "nowhere"]
    /\ buffer = {}
    /\ bus = <<>>
    /\ log = Known
    /\ indexed = Known
    /\ lost = {}

-----------------------------------------------------------------------------
(* The replicator.                                                         *)

Unknown(h) == h \notin log /\ tasks[h] = "none"

(***************************************************************************)
(* Every hash not seen before gets a place in the queue and a goroutine.   *)
(***************************************************************************)
AddToQueue(H) ==
    LET new == {h \in H : Unknown(h)}
    IN  /\ \E s \in SetToSeqs(new) : queue' = queue \o s
        /\ tasks' = [h \in Hash |-> IF h \in new THEN "added" ELSE tasks[h]]
        /\ waiting' = waiting + Cardinality(new)

Load(H) ==
    /\ AddToQueue(H)
    /\ UNCHANGED <<at, buffer, bus, log, indexed, lost>>

InProgress == Cardinality({h \in Hash : at[h] # "nowhere"})

SlotFree == InProgress < Slots

WaitForProcessSlot ==
    /\ waiting > 0
    /\ SlotFree
    /\ waiting' = waiting - 1
    /\ queue' = Tail(queue)
    /\ tasks' = [tasks EXCEPT ![Head(queue)] = "fetching"]
    /\ at' = [at EXCEPT ![Head(queue)] = "fetching"]
    /\ UNCHANGED <<buffer, bus, log, indexed, lost>>

Fetch(h) ==
    /\ at[h] = "fetching"
    /\ buffer' = buffer \cup {h}
    /\ at' = [at EXCEPT ![h] = "fetched"]
    /\ UNCHANGED <<tasks, queue, waiting, bus, log, indexed, lost>>

(***************************************************************************)
(* processItems returns the error, and the entry is marked like any other. *)
(***************************************************************************)
FetchFails(h) ==
    /\ at[h] = "fetching"
    /\ Cardinality(lost) < MaxFailures
    /\ lost' = lost \cup {h}
    /\ at' = [at EXCEPT ![h] = "done"]
    /\ UNCHANGED <<tasks, queue, waiting, buffer, bus, log, indexed>>

AddNext(h) ==
    /\ at[h] = "fetched"
    /\ AddToQueue(Before[h])
    /\ at' = [at EXCEPT ![h] = "done"]
    /\ UNCHANGED <<buffer, bus, log, indexed, lost>>

IdleBeforeMark(h) == \A g \in Hash : tasks[g] \in {"none", "fetched"}

NoneFetching(h) == \A g \in Hash \ {h} : tasks[g] # "fetching"

IsIdle(h) == \A g \in Hash \ {h} : tasks[g] \in {"none", "fetched"}

ProcessEntryDone(h) ==
    /\ at[h] = "done"
    /\ at' = [at EXCEPT ![h] = "nowhere"]
    /\ tasks' = [tasks EXCEPT ![h] = "fetched"]
    /\ IF IsIdle(h) /\ buffer # {}
       THEN bus' = Append(bus, buffer) /\ buffer' = {}
       ELSE UNCHANGED <<buffer, bus>>
    /\ UNCHANGED <<queue, waiting, log, indexed, lost>>

-----------------------------------------------------------------------------
(* replicationLoadComplete, in the main loop of the store.                 *)

Join ==
    /\ bus # <<>>
    /\ \E h \in Head(bus) \ log : log' = log \cup {h}
    /\ UNCHANGED <<tasks, queue, waiting, at, buffer, bus, indexed, lost>>

UpdateIndex ==
    /\ bus # <<>>
    /\ Head(bus) \subseteq log
    /\ indexed' = log
    /\ bus' = Tail(bus)
    /\ UNCHANGED <<tasks, queue, waiting, at, buffer, log, lost>>

-----------------------------------------------------------------------------

Process(h) ==
    Fetch(h) \/ FetchFails(h) \/ AddNext(h) \/ ProcessEntryDone(h)

Next ==
    \/ \E H \in Announced : Load(H)
    \/ WaitForProcessSlot
    \/ \E h \in Hash : Process(h)
    \/ Join
    \/ UpdateIndex

Spec == Init /\ [][Next]_vars

(***************************************************************************)
(* Goroutines run, a fetch ends one way or the other, and the main loop    *)
(* takes its events.                                                       *)
(***************************************************************************)
Fairness ==
    /\ WF_vars(WaitForProcessSlot)
    /\ \A h \in Hash : WF_vars(Process(h))
    /\ WF_vars(Join \/ UpdateIndex)

FairSpec == Spec /\ Fairness

-----------------------------------------------------------------------------
(* Properties.                                                             *)

(***************************************************************************)
(* A goroutine that gets a slot finds an entry in the queue                *)
(* (processQueue.Next takes old[0] of the slice unconditionally), and an   *)
(* entry waits or is worked on once.                                       *)
(***************************************************************************)
WorkForEverySlot ==
    /\ waiting = Len(queue)
    /\ IsInjective(queue)
    /\ \A h \in Hash :
         /\ tasks[h] = "added" <=> h \in ToSet(queue)
         /\ tasks[h] = "fetching" <=> at[h] # "nowhere"

(***************************************************************************)
(* Queries never see an entry before what it is based on, unless a fetch   *)
(* failed: logs are joined only when nothing is left to fetch.             *)
(***************************************************************************)
NoHoles == \A h \in indexed : Before[h] \subseteq indexed \cup lost

(***************************************************************************)
(* An entry that was queued reaches the index, unless its fetch failed.    *)
(***************************************************************************)
EntriesArrive ==
    \A h \in Hash : tasks[h] = "added" ~> h \in indexed \/ h \in lost

=============================================================================
