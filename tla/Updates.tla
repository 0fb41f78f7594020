------------------------------ MODULE Updates ------------------------------
(***************************************************************************)
(* The calls of app/service.go that read a document, change the copy and   *)
(* write it back: crudUpdateDocStoreRev and crudDeleteDocStoreRev, which   *)
(* keep the data catalog up to date through the lineage queue, and the     *)
(* capacity registry, whose reservations are documents too.  Nothing is    *)
(* locked between the read and the write.                                  *)
(*                                                                         *)
(* Every update sets a field of its own, so a document is the set of       *)
(* updates it shows; of a reservation its status is left.                  *)
(***************************************************************************)
EXTENDS LineageQueue

CONSTANTS
    Updater,    \* calls of crudUpdateDocStoreRev
    Deleter,    \* calls of crudDeleteDocStoreRev
    CapID,      \* the capIDs that can be issued
    Attacher,   \* calls of AttachCDT
    Releaser,   \* calls of ReleaseCapacity
    Target      \* Target[c]: the document or reservation a call is about

ASSUME CallsAssumption ==
    /\ \A c \in Updater \cup Deleter : Target[c] \in Doc
    /\ \A c \in Attacher \cup Releaser : Target[c] \in CapID
    /\ Doc \cap CapID = {}
    /\ Updater \cap Deleter = {} /\ Attacher \cap Releaser = {}

VARIABLES
    present,    \* the documents in the store
    fields,     \* fields[d]: the updates document d shows
    status,     \* status[i]: the status of reservation i
    call,       \* how far a call has come
    copy,       \* copy[u]: the document an update will write
    written,    \* written[u]: the version it wrote
    behind,     \* history: calls about the document that had read it, and
    unbooked,   \* that had written it and not come to the queue, when the
                \* call wrote
    dropped     \* history: documents the worker panicked on

storeVars == <<present, fields, latest>>
history == <<behind, unbooked, dropped>>
callVars == <<call, copy, written, history>>
allVars == <<vars, present, fields, status, callVars>>

Call == Updater \cup Deleter \cup Attacher \cup Releaser

UpdatesInit ==
    /\ QueueInit
    /\ latest = [d \in Doc |-> 0]
    /\ present = Doc
    /\ fields = [d \in Doc |-> {}]
    /\ status = [i \in CapID |-> "none"]
    /\ call = [c \in Call |-> "idle"]
    /\ copy = [u \in Updater |-> {}]
    /\ written = [u \in Updater |-> 0]
    /\ behind = [c \in Call |-> {}]
    /\ unbooked = [c \in Call |-> {}]
    /\ dropped = {}

Move(c, from, to) ==
    /\ call[c] = from
    /\ call' = [call EXCEPT ![c] = to]

At(stage, c) == {b \in Call \ {c} : Target[b] = Target[c] /\ call[b] = stage}

RecordOverlap(c) ==
    /\ behind' = [behind EXCEPT ![c] = At("found", c)]
    /\ unbooked' = [unbooked EXCEPT ![c] = At("written", c)]
    /\ UNCHANGED dropped

-----------------------------------------------------------------------------
(* Update.                                                                 *)

Overwritten(d, u) == {u}

Updated(d, u) == fields[d] \cup {u}

Find(u) ==
    LET d == Target[u]
    IN  /\ Move(u, "idle", IF d \in present THEN "found" ELSE "done")
        /\ copy' = [copy EXCEPT ![u] = IF d \in present THEN Updated(d, u) ELSE {}]
        /\ UNCHANGED <<vars, present, fields, status, written, history>>

(***************************************************************************)
(* PutManyCoalesced: the copy replaces the document, or brings it back.    *)
(* A write that fails is not followed by bookkeeping, whether or not it    *)
(* reached the store.                                                      *)
(***************************************************************************)
Write(u) ==
    LET d == Target[u]
    IN  /\ \E next \in {"written"} \cup (IF MayFail THEN {"failed"} ELSE {}) :
             Move(u, "found", next)
        /\ latest' = [latest EXCEPT ![d] = @ + 1]
        /\ present' = present \cup {d}
        /\ fields' = [fields EXCEPT ![d] = copy[u]]
        /\ written' = [written EXCEPT ![u] = latest[d] + 1]
        /\ RecordOverlap(u)
        /\ UNCHANGED <<queueVars, worker, catalog, status, copy>>

WriteFails(c) ==
    /\ MayFail
    /\ Move(c, "found", "done")
    /\ UNCHANGED <<vars, present, fields, status, copy, written, history>>

Bookkeep(u) ==
    /\ Move(u, "written", "done")
    /\ EnqueueLineage(Target[u], written[u])
    /\ UNCHANGED <<storeVars, catalog, status, copy, written, history>>

-----------------------------------------------------------------------------
(* Delete.                                                                 *)

FindForDelete(x) ==
    /\ Move(x, "idle", IF Target[x] \in present THEN "cleaning" ELSE "done")
    /\ UNCHANGED <<vars, present, fields, status, copy, written, history>>

(***************************************************************************)
(* OnDocumentDelete removes the catalog row before the document goes.      *)
(***************************************************************************)
CleanUp(x) ==
    /\ Move(x, "cleaning", "deleting")
    /\ catalog' = [catalog EXCEPT ![Target[x]] = 0]
    /\ UNCHANGED <<storeVars, queueVars, worker, status, copy, written, history>>

(***************************************************************************)
(* The store refuses to delete a key it does not have.                     *)
(***************************************************************************)
Delete(x) ==
    /\ Move(x, "deleting", IF Target[x] \in present THEN "deleted" ELSE "refused")
    /\ present' = present \ {Target[x]}
    /\ fields' = [fields EXCEPT ![Target[x]] = {}]
    /\ UNCHANGED <<vars, status, copy, written, history>>

-----------------------------------------------------------------------------
(* Capacity reservations.                                                  *)

ReserveCapacity(i) ==
    /\ status[i] = "none"
    /\ status' = [status EXCEPT ![i] = "reserved"]
    /\ UNCHANGED <<vars, present, fields, callVars>>

Attachable(i) == status[i] \notin {"none", "released"}

Known(i) == status[i] # "none"

(***************************************************************************)
(* GetCapacity and the checks on its answer.                               *)
(***************************************************************************)
GetCapacity(c, accepts) ==
    /\ Move(c, "idle", IF accepts THEN "found" ELSE "done")
    /\ UNCHANGED <<vars, present, fields, status, copy, written, history>>

(***************************************************************************)
(* The record that was read is put back with its new status; the call may  *)
(* report an error although the record was stored.                         *)
(***************************************************************************)
PutCapacity(c, new) ==
    /\ \E next \in {"put"} \cup (IF MayFail THEN {"failed"} ELSE {}) :
         Move(c, "found", next)
    /\ status' = [status EXCEPT ![Target[c]] = new]
    /\ RecordOverlap(c)
    /\ UNCHANGED <<vars, present, fields, copy, written>>

AttachCDT(c) ==
    \/ GetCapacity(c, Attachable(Target[c]))
    \/ PutCapacity(c, "active")
    \/ WriteFails(c)

ReleaseCapacity(c) ==
    \/ GetCapacity(c, Known(Target[c]))
    \/ PutCapacity(c, "released")
    \/ WriteFails(c)

-----------------------------------------------------------------------------
UpdateCall(u) == Find(u) \/ Write(u) \/ WriteFails(u) \/ Bookkeep(u)

DeleteCall(x) == FindForDelete(x) \/ CleanUp(x) \/ Delete(x)

(***************************************************************************)
(* A step of the lineage worker; a panic drops the job in hand.            *)
(***************************************************************************)
Bookkeeper(w) ==
    /\ LineageWorker(w)
    /\ dropped' = dropped \cup
         {d \in Doc : /\ worker[w].at = "working" /\ worker[w].doc = d
                      /\ catalog'[d] # worker[w].version}
    /\ UNCHANGED <<present, fields, status, call, copy, written, behind, unbooked>>

DocumentCalls ==
    \/ \E u \in Updater : UpdateCall(u)
    \/ \E x \in Deleter : DeleteCall(x)
    \/ \E w \in Worker : Bookkeeper(w)

CapacityCalls ==
    \/ \E i \in CapID : ReserveCapacity(i)
    \/ \E c \in Attacher : AttachCDT(c)
    \/ \E c \in Releaser : ReleaseCapacity(c)

UpdatesNext == DocumentCalls \/ CapacityCalls

UpdatesSpec == UpdatesInit /\ [][UpdatesNext]_allVars

-----------------------------------------------------------------------------
(* Properties.                                                             *)

(***************************************************************************)
(* What a call has written is lost only to a call that had read before it: *)
(* an update disappears from its document only by such an update or by a   *)
(* delete, and a reservation that was released ("cannot accept a CDT") is  *)
(* active again only by such an attach or release.                         *)
(***************************************************************************)
LostOnlyToOverlap ==
    /\ \A u \in Updater :
         written[u] # 0 =>
             \/ u \in fields[Target[u]]
             \/ \E x \in Deleter : Target[x] = Target[u] /\ call[x] = "deleted"
             \/ \E c \in behind[u] : written[c] # 0
    /\ \A r \in Releaser :
         call[r] = "put" =>
             \/ status[Target[r]] = "released"
             \/ \E b \in behind[r] : call[b] \in {"put", "failed"}

(***************************************************************************)
(* While no update or delete runs and the queue is empty, the row of a     *)
(* document in the catalog is of its last version, unless it was           *)
(* deleted meanwhile, its bookkeeping failed, or two updates came to the   *)
(* queue in another order than to the store.                               *)
(***************************************************************************)
Quiet ==
    /\ \A c \in Updater \cup Deleter :
         call[c] \in {"idle", "done", "failed", "deleted", "refused"}
    /\ ~running

Excused(d) ==
    \/ d \in dropped
    \/ \E u \in Updater : Target[u] = d /\ (call[u] = "failed" \/ unbooked[u] # {})
    \/ \E x \in Deleter : Target[x] = d /\ call[x] \notin {"idle", "done"}

StaleOnlyToOverlap ==
    Quiet => \A d \in present : Excused(d) \/ catalog[d] = latest[d]

=============================================================================
