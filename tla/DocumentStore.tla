--------------------------- MODULE DocumentStore ---------------------------
(***************************************************************************)
(* One document store on all its replicas (basestore/base_store.go): local *)
(* writes, announcement of heads, replication, what is saved of the log,   *)
(* and restarts.  The log of a replica is a set of entries of which each   *)
(* knows its past.  The entries themselves are IPFS blocks, which a crash  *)
(* does not lose; the log is found again from the heads saved in the       *)
(* cache, _localHeads and _remoteHeads.                                    *)
(***************************************************************************)
EXTENDS LastWriter, FiniteSetsExt

CONSTANTS
    Replica,     \* identities of the writers of entries, one per replica
    Caller,      \* goroutines that write to the store
    Home,        \* Home[c]: the replica c writes to
    MaxEntries,  \* bound on entries
    MaxRestarts, \* bound on crashes
    MaxFailures  \* bound on saves that fail

ASSUME ReplicaAssumption == Replica \subseteq Nat /\ Home \in [Caller -> Replica]
ASSUME BoundsAssumption == MaxEntries \in Nat /\ 1 .. MaxEntries \subseteq Raw

VARIABLES
    log,        \* log[r]: the entries of the oplog
    idx,        \* idx[r]: the document index
    local,      \* local[r]: _localHeads
    remote,     \* remote[r]: _remoteHeads
    loop,       \* loop[r]: where loading or replicationLoadComplete is
    caller,     \* where AddOperation is
    written,    \* history: the entries ever appended
    published,  \* history: the heads ever announced
    acked,      \* history: entries whose AddOperation succeeded
    failed,     \* history: entries whose AddOperation failed
    restarts,   \* how often a replica crashed
    overtaken,  \* history: replicas that saved an older head over a newer
    forgot      \* history: replicas loaded without all their own entries

vars == <<log, idx, local, remote, loop, caller, written, published, acked,
          failed, restarts, overtaken, forgot>>

history == <<published, restarts, overtaken, forgot>>

NoCall == [at |-> "idle"]

Init ==
    /\ log = [r \in Replica |-> {}]
    /\ idx = [r \in Replica |-> EmptyIndex]
    /\ local = [r \in Replica |-> {}]
    /\ remote = [r \in Replica |-> {}]
    /\ loop = [r \in Replica |-> "idle"]
    /\ caller = [c \in Caller |-> NoCall]
    /\ written = {}
    /\ published = {}
    /\ acked = {}
    /\ failed = {}
    /\ restarts = 0
    /\ overtaken = {}
    /\ forgot = {}

-----------------------------------------------------------------------------
(* The log.                                                                *)

Heads(L) == {e \in L : \A f \in L : e.hash \notin f.past}

(***************************************************************************)
(* The entries that can be fetched from the blocks, given the heads H.     *)
(***************************************************************************)
History(H) == H \cup {e \in written : \E f \in H : e.hash \in f.past}

Saved(r) == History(local[r] \cup remote[r])

SameTime(r) == IF log[r] = {} THEN 1 ELSE Max({e.time : e \in log[r]})

NextTime(r) == IF log[r] = {} THEN 1 ELSE Max({e.time : e \in log[r]}) + 1

Entry(r, k, n) ==
    [hash |-> n, time |-> NextTime(r), id |-> r,
     docs |-> [key \in {k} |-> n],
     past |-> {e.hash : e \in log[r]}]

-----------------------------------------------------------------------------
(* AddOperation.                                                           *)

(***************************************************************************)
(* A store is given to callers once it is loaded (initPeer.go).            *)
(***************************************************************************)
Append(c) ==
    LET r == Home[c]
        n == Cardinality(written) + 1
    IN  /\ caller[c].at = "idle"
        /\ loop[r] \in {"idle", "joined"}
        /\ n <= MaxEntries
        /\ \E k \in Key :
             LET e == Entry(r, k, n)
             IN  /\ log' = [log EXCEPT ![r] = @ \cup {e}]
                 /\ written' = written \cup {e}
                 /\ caller' = [caller EXCEPT ![c] = [at |-> "saving", entry |-> e]]
        /\ UNCHANGED <<idx, local, remote, loop, acked, failed, history>>

KeepLocalHead(r, e) == local' = [local EXCEPT ![r] = IF @ = {} THEN {e} ELSE @]

SaveLocalHead(r, e) == local' = [local EXCEPT ![r] = {e}]

SaveHead(c) ==
    LET r == Home[c]
        e == caller[c].entry
    IN  /\ caller[c].at = "saving"
        /\ SaveLocalHead(r, e)
        /\ overtaken' = IF \E f \in local[r] : e.hash \in f.past
                        THEN overtaken \cup {r} ELSE overtaken
        /\ caller' = [caller EXCEPT ![c].at = "indexing"]
        /\ UNCHANGED <<log, idx, remote, loop, written, published, acked,
                       failed, restarts, forgot>>

(***************************************************************************)
(* The caller gets the error; the entry stays in the log.                  *)
(***************************************************************************)
SaveFails(c) ==
    /\ caller[c].at = "saving"
    /\ Cardinality(failed) < MaxFailures
    /\ failed' = failed \cup {caller[c].entry}
    /\ caller' = [caller EXCEPT ![c] = NoCall]
    /\ UNCHANGED <<log, idx, local, remote, loop, written, acked, history>>

IndexEntry(r, e) == idx' = [idx EXCEPT ![r] = Apply(@, e)]

IndexOwn(c) ==
    LET e == caller[c].entry
    IN  /\ caller[c].at = "indexing"
        /\ IndexEntry(Home[c], e)
        /\ acked' = acked \cup {e}
        /\ caller' = [caller EXCEPT ![c] = NoCall]
        /\ UNCHANGED <<log, local, remote, loop, written, failed, history>>

-----------------------------------------------------------------------------
(* Replication.  Announcements are repeated, so what was announced once    *)
(* may arrive at any later time, any number of times, in any order, or     *)
(* never.                                                                  *)

CachedHeads(r) == local[r]

CurrentHeads(r) == Heads(log[r])

Announce(r) ==
    /\ ~(CurrentHeads(r) \subseteq published)
    /\ published' = published \cup CurrentHeads(r)
    /\ UNCHANGED <<log, idx, local, remote, loop, caller, written, acked,
                   failed, restarts, overtaken, forgot>>

(***************************************************************************)
(* The replicator has fetched what is below the head and joins it.         *)
(***************************************************************************)
Fetched(e) == History({e})

Join(r) ==
    /\ loop[r] \in {"idle", "down"}
    /\ \E e \in published \ log[r] :
         log' = [log EXCEPT ![r] = @ \cup Fetched(e)]
    /\ loop' = [loop EXCEPT ![r] = IF @ = "down" THEN "joined early" ELSE "joined"]
    /\ UNCHANGED <<idx, local, remote, caller, written, acked, failed, history>>

Unseen(r) == log[r] \ idx[r].seen

(***************************************************************************)
(* updateIndex takes the entries of the log not seen yet, whoever added    *)
(* them.  It holds muIndex throughout: a query sees fewer states than here.*)
(***************************************************************************)
Index(r) ==
    /\ loop[r] \in {"joined", "joined early", "loading"}
    /\ \E e \in Unseen(r) : IndexEntry(r, e)
    /\ UNCHANGED <<log, local, remote, loop, caller, written, acked, failed, history>>

SaveRemoteHeads(r) ==
    /\ loop[r] \in {"joined", "joined early"}
    /\ Unseen(r) = {}
    /\ remote' = [remote EXCEPT ![r] = Heads(log[r])]
    /\ loop' = [loop EXCEPT ![r] = IF @ = "joined" THEN "idle" ELSE "down"]
    /\ UNCHANGED <<log, idx, local, caller, written, acked, failed, history>>

-----------------------------------------------------------------------------
(* Restarts.                                                               *)

(***************************************************************************)
(* The process ends; everything but the cache and the blocks is gone.      *)
(***************************************************************************)
Crash(r) ==
    /\ restarts < MaxRestarts
    /\ restarts' = restarts + 1
    /\ log' = [log EXCEPT ![r] = {}]
    /\ idx' = [idx EXCEPT ![r] = EmptyIndex]
    /\ loop' = [loop EXCEPT ![r] = "down"]
    /\ caller' = [c \in Caller |-> IF Home[c] = r THEN NoCall ELSE caller[c]]
    /\ UNCHANGED <<local, remote, written, published, acked, failed, overtaken,
                   forgot>>

(***************************************************************************)
(* Load, after the store was opened: replication may have come first.      *)
(***************************************************************************)
Load(r) ==
    /\ loop[r] = "down"
    /\ log' = [log EXCEPT ![r] = @ \cup Saved(r)]
    /\ loop' = [loop EXCEPT ![r] = "loading"]
    /\ UNCHANGED <<idx, local, remote, caller, written, acked, failed, history>>

Ready(r) ==
    /\ loop[r] = "loading"
    /\ Unseen(r) = {}
    /\ loop' = [loop EXCEPT ![r] = "idle"]
    /\ forgot' = IF \E e \in written \ log[r] : e.id = r
                 THEN forgot \cup {r} ELSE forgot
    /\ UNCHANGED <<log, idx, local, remote, caller, written, published, acked,
                   failed, restarts, overtaken>>

-----------------------------------------------------------------------------

AddOperation(c) == Append(c) \/ SaveHead(c) \/ SaveFails(c) \/ IndexOwn(c)

Goroutines(r) ==
    \/ Announce(r) \/ Join(r) \/ Index(r) \/ SaveRemoteHeads(r)
    \/ Load(r) \/ Ready(r)

Next ==
    \/ \E c \in Caller : AddOperation(c)
    \/ \E r \in Replica : Goroutines(r) \/ Crash(r)

Spec == Init /\ [][Next]_vars

(***************************************************************************)
(* The goroutines of a replica run; announcements are repeated until one   *)
(* arrives.                                                                *)
(***************************************************************************)
Fairness ==
    /\ \A c \in Caller : WF_vars(SaveHead(c) \/ IndexOwn(c))
    /\ \A r \in Replica :
         /\ WF_vars(Announce(r))
         /\ WF_vars(Join(r))
         /\ WF_vars(Index(r))
         /\ WF_vars(SaveRemoteHeads(r))
         /\ WF_vars(Load(r))
         /\ WF_vars(Ready(r))

FairSpec == Spec /\ Fairness

-----------------------------------------------------------------------------
(* Properties.                                                             *)

(***************************************************************************)
(* A write that was acknowledged survives a crash, and once the store is   *)
(* loaded again queries see it: the head saved last is enough to find it.  *)
(* With two goroutines in AddOperation at once the older head may be saved *)
(* last, and then it is not.                                               *)
(***************************************************************************)
AcknowledgedSurvives ==
    \A e \in acked :
        LET r == e.id
        IN  r \notin overtaken =>
              /\ e \in Saved(r)
              /\ loop[r] \in {"idle", "joined"} => e \in idx[r].seen

(***************************************************************************)
(* Two entries never have the same stamp, which the index relies on to     *)
(* choose a winner, unless a replica was loaded without an entry of its    *)
(* own, which others may have.                                             *)
(***************************************************************************)
StampsUnique ==
    \A e, f \in written : Stamp(e) = Stamp(f) => e = f \/ e.id \in forgot

(***************************************************************************)
(* An acknowledged write reaches the queries of every replica, also of one *)
(* that was down when it was made ("catches up within one interval of      *)
(* healing"), unless its replica lost it.                                  *)
(***************************************************************************)
WritesSpread ==
    \A n \in 1 .. MaxEntries :
        (\E e \in acked : e.hash = n) ~>
            \/ \A r \in Replica : \E e \in idx[r].seen : e.hash = n
            \/ forgot # {}

=============================================================================
