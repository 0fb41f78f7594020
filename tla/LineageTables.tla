--------------------------- MODULE LineageTables ---------------------------
(***************************************************************************)
(* The rows of the data catalog and the lineage edges in them, as          *)
(* app/lineage_manager.go keeps them: OnDocumentPut enters a document with *)
(* the rows it depends on, OnDocumentDelete takes it out.  Every SQL       *)
(* statement is a step and no transaction holds them together, though the  *)
(* lineage worker, uploads and deletes run at once.                        *)
(*                                                                         *)
(* A row is named by the URI made of the name of its document; the two     *)
(* lists of a row are sets.                                                *)
(***************************************************************************)
EXTENDS Naturals, FiniteSets

CONSTANTS
    Uri,        \* rows that documents may have
    Unknown,    \* Unknown[u]: the placeholder for a reference to u
    Putter,     \* calls of OnDocumentPut
    Job,        \* those the lineage worker makes, one at a time
    Remover,    \* calls of OnDocumentDelete
    Subject,    \* Subject[c]: the row of the call's document
    Refs        \* Refs[c]: the rows the document of a put refers to

ASSUME RowsAssumption ==
    /\ \A u \in Uri : Unknown[u] \notin Uri
    /\ Job \subseteq Putter /\ Putter \cap Remover = {}
    /\ \A c \in Putter : Subject[c] \in Uri /\ Refs[c] \subseteq Uri
    /\ \A c \in Remover : Subject[c] \in Uri

VARIABLES
    row,        \* row[u]: its lists, or NoRow
    put,        \* put[c]: how far a put has come
    rem,        \* rem[c]: how far a removal has come
    disturbed   \* history: rows that two calls were about at once

tableVars == <<row, put, rem, disturbed>>

TableCall == Putter \cup Remover

NoRow == [up |-> {}, down |-> {}, exists |-> FALSE]
NewRow == [NoRow EXCEPT !.exists = TRUE]
Idle == [at |-> "idle"]
Ended == [at |-> "ended"]

Exists(u) == u \in Uri /\ row[u].exists

TablesInit ==
    /\ row = [u \in Uri |-> NoRow]
    /\ put = [c \in Putter |-> Idle]
    /\ rem = [c \in Remover |-> Idle]
    /\ disturbed = {}

(***************************************************************************)
(* UPDATE ... WHERE _id = ?: nothing when there is no such row.            *)
(***************************************************************************)
SetList(u, list, to) ==
    row' = IF Exists(u) THEN [row EXCEPT ![u] = [@ EXCEPT ![list] = to]] ELSE row

PutStep(c, from, to) == put[c].at = from /\ put' = [put EXCEPT ![c] = to]

RemStep(c, from, to) == rem[c].at = from /\ rem' = [rem EXCEPT ![c] = to]

-----------------------------------------------------------------------------
(* OnDocumentPut: PopulateDatacatalog, CreateLineageRelationships.         *)

WorkerFree == \A j \in Job : put[j] \in {Idle, Ended}

EntryExists(c) ==
    /\ c \in Job => WorkerFree
    /\ PutStep(c, "idle", [at |-> IF Exists(Subject[c]) THEN "update" ELSE "insert",
                           refs |-> Refs[c], up |-> {}])
    /\ UNCHANGED <<row, rem>>

(***************************************************************************)
(* An INSERT of a row that exists by now is refused, and ends the call; an *)
(* UPDATE leaves the lists alone.                                          *)
(***************************************************************************)
Populate(c) ==
    /\ put[c].at \in {"update", "insert"}
    /\ put' = [put EXCEPT ![c] =
                 IF (put[c].at = "insert" /\ Exists(Subject[c])) \/ put[c].refs = {}
                 THEN Ended ELSE [@ EXCEPT !.at = "resolving"]]
    /\ row' = IF put[c].at = "insert" /\ ~Exists(Subject[c])
              THEN [row EXCEPT ![Subject[c]] = NewRow] ELSE row
    /\ UNCHANGED rem

ResolveReference(c) ==
    /\ put[c].at = "resolving" /\ put[c].refs # {}
    /\ \E u \in put[c].refs :
         put' = [put EXCEPT ![c].refs = @ \ {u},
                            ![c].up = @ \cup {IF Exists(u) THEN u ELSE Unknown[u]}]
    /\ UNCHANGED <<row, rem>>

SetUpstream(c) ==
    /\ put[c].at = "resolving" /\ put[c].refs = {}
    /\ PutStep(c, "resolving", [at |-> "adding", refs |-> put[c].up])
    /\ SetList(Subject[c], "up", put[c].up)
    /\ UNCHANGED rem

ReadDownstream(c) ==
    /\ put[c].at = "adding"
    /\ IF put[c].refs = {} THEN put' = [put EXCEPT ![c] = Ended]
       ELSE \E u \in put[c].refs :
              put' = [put EXCEPT ![c] =
                        IF Exists(u) /\ Subject[c] \notin row[u].down
                        THEN [at |-> "writing", refs |-> @.refs \ {u}, target |-> u,
                              list |-> row[u].down]
                        ELSE [@ EXCEPT !.refs = put[c].refs \ {u}]]
    /\ UNCHANGED <<row, rem>>

AddToDownstream(c) ==
    /\ PutStep(c, "writing", [at |-> "adding", refs |-> put[c].refs])
    /\ SetList(put[c].target, "down", put[c].list \cup {Subject[c]})
    /\ UNCHANGED rem

OnDocumentPut(c) ==
    \/ EntryExists(c) \/ Populate(c) \/ ResolveReference(c)
    \/ SetUpstream(c) \/ ReadDownstream(c) \/ AddToDownstream(c)

-----------------------------------------------------------------------------
(* OnDocumentDelete: RemoveLineageForDeletedDocument.                      *)

ReadRow(c) ==
    LET r == row[Subject[c]]
        downOf == {<<u, "down">> : u \in r.up}
        upOf == {<<u, "up">> : u \in r.down}
    IN  /\ RemStep(c, "idle", IF r.exists THEN [at |-> "taking", lists |-> downOf \cup upOf]
                              ELSE Ended)
        /\ UNCHANGED <<row, put>>

DownOnly(lists) == {l \in lists : l[2] = "down"}

DownFirst(lists) ==
    IF \E l \in lists : l[2] = "down" THEN {l \in lists : l[2] = "down"} ELSE lists

(***************************************************************************)
(* removeFromDownstream for all rows above, then removeFromUpstream for    *)
(* all rows below: read, filter, write.                                    *)
(***************************************************************************)
ReadList(c) ==
    /\ rem[c].at = "taking"
    /\ \E l \in DownFirst(rem[c].lists) :
         rem' = [rem EXCEPT ![c] =
                   IF Exists(l[1])
                   THEN [at |-> "filtering", lists |-> @.lists, list |-> l,
                         held |-> row[l[1]][l[2]]]
                   ELSE [@ EXCEPT !.lists = rem[c].lists \ {l}]]
    /\ UNCHANGED <<row, put>>

RemoveFromList(c) ==
    /\ RemStep(c, "filtering", [at |-> "taking", lists |-> rem[c].lists \ {rem[c].list}])
    /\ SetList(rem[c].list[1], rem[c].list[2], rem[c].held \ {Subject[c]})
    /\ UNCHANGED put

DeleteRow(c) ==
    /\ RemStep(c, "taking", Ended)
    /\ DownFirst(rem[c].lists) = {}
    /\ row' = [row EXCEPT ![Subject[c]] = NoRow]
    /\ UNCHANGED put

OnDocumentDelete(c) ==
    ReadRow(c) \/ ReadList(c) \/ RemoveFromList(c) \/ DeleteRow(c)

-----------------------------------------------------------------------------
(* History: the rows a call that is under way reads or writes.             *)

Running(c) == (IF c \in Putter THEN put[c] ELSE rem[c]) \notin {Idle, Ended}

Concerns(c) ==
    {Subject[c]} \cup
    IF c \in Putter THEN Refs[c]
    ELSE row[Subject[c]].up \cup row[Subject[c]].down
         \cup {l[1] : l \in rem[c].lists}

Together == {p \in TableCall \X TableCall : p[1] # p[2] /\ Running(p[1]) /\ Running(p[2])}

Shared == UNION {Concerns(p[1]) \cap Concerns(p[2]) : p \in Together}

RecordOverlaps == disturbed' = disturbed \cup Shared'

TablesNext ==
    /\ \/ \E c \in Putter : OnDocumentPut(c)
       \/ \E c \in Remover : OnDocumentDelete(c)
    /\ RecordOverlaps

TablesSpec == TablesInit /\ [][TablesNext]_tableVars

-----------------------------------------------------------------------------
(* Properties.                                                             *)

(***************************************************************************)
(* Between calls, an edge of the lineage is in both rows: a row that       *)
(* depends on another is in the downstream list of it, and neither a       *)
(* deleted nor a replaced row leaves half an edge.  Rows that two calls    *)
(* were about at once are left out: lists are read, changed and written    *)
(* back without a transaction, so there edges are lost.                    *)
(***************************************************************************)
UpstreamIsAnswered ==
    (\A c \in TableCall : ~Running(c)) =>
        \A s \in Uri \ disturbed : \A t \in (row[s].up \cap Uri) \ disturbed :
            Exists(t) /\ s \in row[t].down

=============================================================================
