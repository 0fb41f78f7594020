-------------------------- MODULE DocumentCommands --------------------------
(***************************************************************************)
(* The commands on the documents of one node's store (app/service.go): put *)
(* in batches (batch_put.go), update, delete, and the ways to select       *)
(* documents: a scan, the look-up by id, and the field indexes             *)
(* (query_fastpath.go; document.go and index.go of the document store).    *)
(* One update or delete runs at a time; Updates has those that overlap.    *)
(***************************************************************************)
EXTENDS Criteria, TLC

CONSTANTS
    KeyField,       \* the field the store takes its keys from
    IndexedFields,  \* OPTIMUSDB_INDEX_FIELDS
    Respelled,      \* the texts with spaces, with spaces for their dots
    Fresh,          \* the ids a put may give, by the place of the document
    Inserts,        \* what may be put: sequences of documents
    Changes,        \* what an update may set
    Selectors,      \* the criteria of updates and deletes
    Questions,      \* the criteria SelectAlike asks of every store
    FewDocs,        \* OPTIMUSDB_GROUP_COMMIT_MAX_DOCS
    MaxDocs, MaxBytes  \* of one entry; a document has a byte for every field

ASSUME CommandsAssumption ==
    /\ KeyField = "_id"
    /\ Questions \subseteq Seq(Filter)
    /\ \A records \in Inserts : records \in Seq(ToSet(records))
    /\ MaxDocs \in Nat \ {0} /\ MaxBytes \in Nat

VARIABLES
    documents,      \* the documents of the index
    byFields,       \* whether the field indexes are used
    put             \* the put that runs

docVars == <<documents, byFields, put>>

NoPut == [at |-> "idle"]

CommandsInit ==
    /\ documents = {}
    /\ byFields \in BOOLEAN
    /\ put = NoPut

-----------------------------------------------------------------------------
(* Selection.                                                              *)

\* The key of a document; it must be a text.
DocKey(d) == Value(d, KeyField)
Keyed(d) == IsA("text", DocKey(d))

Matching(criteria) == {d \in documents : CriteriaFilter(d, criteria)}

\* Get of the document store.
Get(id) ==
    LET key == IF id \in DOMAIN Respelled THEN Respelled[id] ELSE id
    IN  {d \in documents : DocKey(d) = Text(key)}

IdOnlyFilter(filter) ==
    /\ Cardinality(filter) = 1
    /\ \A c \in filter : IsEquality(c) /\ c.path = <<"_id">> /\ IsA("text", c.value)

IdOf(filter) == (CHOOSE c \in filter : TRUE).value.text

IdOnlyCriteria(criteria) == Len(criteria) = 1 /\ IdOnlyFilter(criteria[1])

IsIndexable(c) == IsEquality(c) /\ IsA("text", c.value) /\ Len(c.path) = 1

\* Mutant: the equalities of the first of several filters.
OfFirstFilter(criteria) ==
    IF criteria = <<>> THEN {} ELSE {c \in criteria[1] : IsIndexable(c)}

IndexableEqualities(criteria) ==
    IF Len(criteria) # 1 THEN {} ELSE {c \in criteria[1] : IsIndexable(c)}

Indexed(equal) == {c \in equal : c.path[1] \in IndexedFields}

\* What is listed under every one of the values.
ByFields(equal) ==
    {d \in documents : \A c \in equal : Value(d, c.path[1]) = c.value}

QueryIndexed(criteria) ==
    ByFields(Indexed(IndexableEqualities(criteria))) \cap Matching(criteria)

UsesIndexes(criteria) == byFields /\ Indexed(IndexableEqualities(criteria)) # {}

QueryLocalDB(criteria) ==
    IF IdOnlyCriteria(criteria) THEN Get(IdOf(criteria[1]))
    ELSE IF UsesIndexes(criteria) THEN QueryIndexed(criteria)
    ELSE Matching(criteria)

ExactEqualities(criteria) ==
    /\ Len(criteria) = 1 /\ criteria[1] # {}
    /\ \A c \in criteria[1] : IsIndexable(c) /\ c.path[1] \in IndexedFields

\* The same without decoding the documents.
QueryLocalRaw(criteria) ==
    IF IdOnlyCriteria(criteria) THEN Get(IdOf(criteria[1]))
    ELSE IF byFields /\ ExactEqualities(criteria) THEN ByFields(criteria[1])
    ELSE IF UsesIndexes(criteria) THEN QueryIndexed(criteria)
    ELSE Matching(criteria)

\* Get, update and delete look at the first filter alone.
OfFirst(criteria) == {d \in documents : MatchesCriteria(d, criteria[1])}

CrudGet(criteria) == IF criteria \in {<<>>, <<{}>>} THEN documents ELSE OfFirst(criteria)

ToUpdate(criteria) ==
    IF IdOnlyFilter(criteria[1]) THEN Get(IdOf(criteria[1])) ELSE OfFirst(criteria)

ToDelete(criteria) == OfFirst(criteria)

-----------------------------------------------------------------------------
(* Put.                                                                    *)

\* PutAll: of two documents with one key the later is kept.
Stored(batch) ==
    LET Kept == {i \in DOMAIN batch : \A j \in DOMAIN batch :
                    j > i => DocKey(batch[j]) # DocKey(batch[i])}
    IN  {d \in documents : \A i \in DOMAIN batch : DocKey(d) # DocKey(batch[i])}
            \cup {batch[i] : i \in Kept}

Size(batch) == FoldLeft(LAMBDA n, d : n + Cardinality(DOMAIN d), 0, batch)

Full(batch, d) ==
    batch # <<>> /\ (Len(batch) >= MaxDocs \/ Size(Append(batch, d)) > MaxBytes)

\* splitBatches, one batch at a time.
FirstBatch(docs) ==
    LET Ends == {n \in DOMAIN docs : n = Len(docs) \/ Full(SubSeq(docs, 1, n), docs[n + 1])}
    IN  SubSeq(docs, 1, Min(Ends))

Given(records) ==
    LET full == {i \in DOMAIN records : records[i] # <<>>}
        Nth(n) == CHOOSE i \in full : Cardinality({j \in full : j <= i}) = n
    IN  [n \in 1 .. Cardinality(full) |-> records[Nth(n)]]

\* ConvertCriteriaForCRUDPUT_rev drops empty documents; ids are added.
Prepared(records, ids) ==
    LET given == Given(records)
    IN  [i \in DOMAIN given |->
            IF "_id" \in DOMAIN given[i] THEN given[i]
            ELSE given[i] @@ ("_id" :> Text(ids[i]))]

Unused == {ids \in Fresh : \A d \in documents : DocKey(d) \notin {Text(t) : t \in ToSet(ids)}}

(***************************************************************************)
(* A few documents go through the group commit, which accepts or refuses   *)
(* each one like a put of its own (GroupCommit).                           *)
(***************************************************************************)
CrudPut(records, ids) ==
    LET docs == Prepared(records, ids)
        few == Len(docs) <= FewDocs
    IN  /\ put = NoPut
        /\ docs # <<>>
        /\ put' = [at |-> "writing", docs |-> docs, failed |-> {},
                   rest |-> IF few THEN <<>> ELSE docs,
                   single |-> IF few THEN docs ELSE <<>>]
        /\ UNCHANGED <<documents, byFields>>

\* Mutant: the batch is given up.
GiveUp(batch) == <<>>

OneByOne(batch) == batch

\* PutAll of a batch, which is refused whole for a document without a key.
PutBatch ==
    /\ put.at = "writing" /\ put.single = <<>> /\ put.rest # <<>>
    /\ LET batch == FirstBatch(put.rest)
           rest == SubSeq(put.rest, Len(batch) + 1, Len(put.rest))
       IN  IF \A i \in DOMAIN batch : Keyed(batch[i])
           THEN /\ documents' = Stored(batch)
                /\ put' = [put EXCEPT !.rest = rest]
           ELSE /\ put' = [put EXCEPT !.rest = rest, !.single = OneByOne(batch)]
                /\ UNCHANGED documents
    /\ UNCHANGED byFields

PutOne ==
    /\ put.at = "writing" /\ put.single # <<>>
    /\ LET d == Head(put.single)
       IN  IF Keyed(d)
           THEN /\ documents' = Stored(<<d>>)
                /\ put' = [put EXCEPT !.single = Tail(@)]
           ELSE /\ put' = [put EXCEPT !.single = Tail(@), !.failed = @ \cup {d}]
                /\ UNCHANGED documents
    /\ UNCHANGED byFields

PutEnds ==
    /\ put.at = "writing" /\ put.single = <<>> /\ put.rest = <<>>
    /\ put' = NoPut
    /\ UNCHANGED <<documents, byFields>>

-----------------------------------------------------------------------------
(* Update and delete.                                                      *)

HasId(d) == "_id" \in DOMAIN d

\* The id stays, whatever the update sets.
ChangedBy(d, changes) == ("_id" :> d["_id"]) @@ changes @@ d

Update(criteria, changes) ==
    LET new == {ChangedBy(d, changes) : d \in {d \in ToUpdate(criteria) : HasId(d)}}
    IN  /\ put = NoPut
        /\ new # {}
        /\ \E order \in SetToSeqs({d \in new : Keyed(d)}) : documents' = Stored(order)
        /\ UNCHANGED <<byFields, put>>

(***************************************************************************)
(* Documents are deleted by their ids; one that is not the key of a        *)
(* document ends the command, and which ones were before it is not known.  *)
(***************************************************************************)
Delete(criteria) ==
    LET ids == {d["_id"] : d \in {d \in ToDelete(criteria) : HasId(d)}}
        keys == {DocKey(d) : d \in documents}
    IN  /\ put = NoPut
        /\ \E gone \in IF ids \subseteq keys THEN {ids} ELSE SUBSET (ids \cap keys) :
             /\ gone # {}
             /\ documents' = {d \in documents : DocKey(d) \notin gone}
        /\ UNCHANGED <<byFields, put>>

-----------------------------------------------------------------------------
CommandsNext ==
    \/ \E records \in Inserts : \E ids \in Unused : CrudPut(records, ids)
    \/ PutBatch \/ PutOne \/ PutEnds
    \/ \E criteria \in Selectors : Delete(criteria)
    \/ \E criteria \in Selectors : \E changes \in Changes : Update(criteria, changes)

CommandsSpec == CommandsInit /\ [][CommandsNext]_docVars

-----------------------------------------------------------------------------
(* Properties.                                                             *)

\* Get looks for another key than the id it is asked for.
NeverFound(criteria) ==
    /\ IdOnlyCriteria(criteria)
    /\ IdOf(criteria[1]) \in DOMAIN Respelled
    /\ Respelled[IdOf(criteria[1])] # IdOf(criteria[1])

(***************************************************************************)
(* However a query reads the store, by id, through some or all of the      *)
(* field indexes, with or without decoding, or by a scan, it returns what  *)
(* its filters select; and for one filter without $and and $or a get       *)
(* shows, an update changes and a delete removes the same documents        *)
(* (queryLocalDB, queryLocalRaw, crudGetDocStoreRev and the others).  Left *)
(* out are ids with a space and a dot.                                     *)
(***************************************************************************)
SelectAlike ==
    \A criteria \in Questions : ~NeverFound(criteria) =>
        /\ QueryLocalDB(criteria) = Matching(criteria)
        /\ QueryLocalRaw(criteria) = Matching(criteria)
        /\ Len(criteria) = 1 /\ IsCommon(criteria[1]) =>
               /\ CrudGet(criteria) = Matching(criteria)
               /\ ToUpdate(criteria) = Matching(criteria)
               /\ ToDelete(criteria) = Matching(criteria)

(***************************************************************************)
(* "a single bad document cannot drop the rest" (batch_put.go:70): when a  *)
(* put ends, every document it was given is stored, or a later one with    *)
(* its key, except those without a key, which are reported; and no entry   *)
(* it writes has more documents or bytes than the settings allow.          *)
(***************************************************************************)
BadOnesAlone ==
    put.at = "writing" =>
        /\ put.rest # <<>> =>
             LET batch == FirstBatch(put.rest)
             IN  Len(batch) <= MaxDocs /\ (Size(batch) > MaxBytes => Len(batch) = 1)
        /\ put.single = <<>> /\ put.rest = <<>> =>
             /\ put.failed = {d \in ToSet(put.docs) : ~Keyed(d)}
             /\ \A i \in DOMAIN put.docs :
                  \/ put.docs[i] \in documents \cup put.failed
                  \/ \E j \in DOMAIN put.docs : j > i /\ DocKey(put.docs[j]) = DocKey(put.docs[i])

=============================================================================
