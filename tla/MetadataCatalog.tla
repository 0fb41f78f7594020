-------------------------- MODULE MetadataCatalog --------------------------
(***************************************************************************)
(* Uploads of TOSCA templates (api/http.go) and SQL inserts                *)
(* (app/service.go), and the metadata a goroutine writes about each of     *)
(* them after it is answered: to the replicated store KBMetadata, to the   *)
(* table metadata_catalog and to a list in memory (datamodel).  Lineage,   *)
(* which an upload also updates, is LineageTables'.                        *)
(***************************************************************************)
EXTENDS FiniteSets

CONSTANTS
    Attempt,    \* the requests
    Files       \* what is asked for: kind, name and content of a file, store

VARIABLES
    asked,          \* asked[a]: one of the files
    at,             \* at[a]: how far the request and its goroutine are
    templates,      \* the documents of the stores
    toscametadata,  \* the rows of that table
    metadata,       \* metadata[p]: the entries of each place
    confirmed,      \* history: the requests answered with success
    broken,         \* history: <<a, where>>: writes for a that failed
    removed         \* history: requests whose document was deleted

catVars == <<asked, at, templates, toscametadata, metadata, confirmed, broken, removed>>

Places == {"KBMetadata", "metadata_catalog", "memory"}

CatalogInit ==
    /\ asked \in [Attempt -> Files]
    /\ at = [a \in Attempt |-> "new"]
    /\ templates = {}
    /\ toscametadata = {}
    /\ metadata = [p \in Places |-> {}]
    /\ confirmed = {}
    /\ broken = {}
    /\ removed = {}

-----------------------------------------------------------------------------
(* The document of an upload.                                              *)

Filename(a) == IF asked[a].name = "" THEN "unknown" ELSE asked[a].name

\* Mutant: the hash of the content alone.
ContentID(a) == <<asked[a].content>>

\* The id is a hash of the content, and of the file name if there is one.
TemplateID(a) ==
    IF Filename(a) = "unknown" THEN <<asked[a].content>>
    ELSE <<Filename(a), asked[a].content>>

StoreName(a) == IF asked[a].kind = "legacy" THEN "tosca_imported" ELSE asked[a].store

\* A legacy document has no file name.
ToscaDoc(a) ==
    [store |-> StoreName(a), id |-> TemplateID(a), content |-> asked[a].content,
     name |-> IF asked[a].kind = "legacy" THEN "" ELSE Filename(a)]

Replacing(doc) == {d \in templates : d.store # doc.store \/ d.id # doc.id} \cup {doc}

(***************************************************************************)
(* A file that is not YAML is refused.  An empty one is parsed to no map,  *)
(* and setting its fields panics: the request gets no answer.              *)
(***************************************************************************)
Parses(a) ==
    /\ asked[a].content # "not YAML"
    /\ asked[a].kind = "full" => asked[a].content # "empty"

Receive(a) ==
    /\ asked[a].kind # "sql"
    /\ at[a] = "new"
    /\ at' = [at EXCEPT ![a] = IF Parses(a) THEN "storing" ELSE "refused"]
    /\ UNCHANGED <<templates, toscametadata, metadata, confirmed, broken, removed, asked>>

PutTemplate(a) ==
    /\ at[a] = "storing"
    /\ at' = [at EXCEPT ![a] = "indexing"]
    /\ templates' = Replacing(ToscaDoc(a))
    /\ UNCHANGED <<toscametadata, metadata, confirmed, broken, removed, asked>>

\* No store, or its Put fails: the upload ends here.
PutTemplateFails(a) ==
    /\ at[a] = "storing"
    /\ at' = [at EXCEPT ![a] = "refused"]
    /\ UNCHANGED <<templates, toscametadata, metadata, confirmed, broken, removed, asked>>

-----------------------------------------------------------------------------
(* Description.                                                            *)

\* A write whose error, if any, is logged.
Tried(a, where, new, old) ==
    \/ new /\ UNCHANGED broken
    \/ old /\ broken' = broken \cup {<<a, where>>}

\* The row is inserted, or replaced.
InsertTOSCAMetadata(a) ==
    toscametadata' = {r \in toscametadata : r.id # TemplateID(a)} \cup
        {[id |-> TemplateID(a), name |-> Filename(a), content |-> asked[a].content]}

\* The goroutine starts, and the client is answered.
IndexTemplate(a) ==
    /\ at[a] = "indexing"
    /\ at' = [at EXCEPT ![a] = "KBMetadata"]
    /\ confirmed' = confirmed \cup {a}
    /\ Tried(a, "toscametadata", InsertTOSCAMetadata(a), UNCHANGED toscametadata)
    /\ UNCHANGED <<templates, metadata, removed, asked>>

\* The statement of an insert.
SqlInsert(a) ==
    /\ asked[a].kind = "sql"
    /\ at[a] = "new"
    /\ \/ at' = [at EXCEPT ![a] = "refused"] /\ UNCHANGED confirmed
       \/ at' = [at EXCEPT ![a] = "KBMetadata"] /\ confirmed' = confirmed \cup {a}
    /\ UNCHANGED <<templates, toscametadata, metadata, broken, removed, asked>>

\* The id of an entry is a hash of the time too: every request has its own.
ToscaEntry(a) == [id |-> <<"meta-tosca-", a>>, associated |-> TemplateID(a)]
SqlEntry(a) == [id |-> <<"meta-", a>>, associated |-> <<"table">>]

MetadataEntry(a) == IF asked[a].kind = "sql" THEN SqlEntry(a) ELSE ToscaEntry(a)

\* Inserts are not listed in memory.
AfterSql(p) == IF p = "KBMetadata" THEN "metadata_catalog" ELSE "done"

NextPlace(a, p) ==
    IF asked[a].kind # "sql" /\ p = "metadata_catalog" THEN "memory" ELSE AfterSql(p)

Describe(a, p) ==
    /\ at[a] = p
    /\ at' = [at EXCEPT ![a] = NextPlace(a, p)]
    /\ Tried(a, p,
             metadata' = [metadata EXCEPT ![p] = @ \cup {MetadataEntry(a)}],
             p # "memory" /\ UNCHANGED metadata)
    /\ UNCHANGED <<templates, toscametadata, confirmed, removed, asked>>

-----------------------------------------------------------------------------
\* The metadata that a delete takes along.
MetadataID(doc) == <<"meta_", doc.id>>

HasStored(a) == at[a] \notin {"new", "storing", "refused"} /\ asked[a].kind # "sql"

DeleteTemplate(doc) ==
    /\ templates' = templates \ {doc}
    /\ metadata' = [metadata EXCEPT !["KBMetadata"] = {e \in @ : e.id # MetadataID(doc)}]
    /\ removed' = removed \cup {a \in Attempt : HasStored(a) /\ ToscaDoc(a).store = doc.store /\ ToscaDoc(a).id = doc.id}
    /\ UNCHANGED <<at, toscametadata, confirmed, broken, asked>>

\* The process ends, with the requests, the goroutines and the list.
NodeStops ==
    /\ at' = [a \in Attempt |-> IF at[a] \in {"new", "refused", "done"} THEN at[a]
                                ELSE IF HasStored(a) THEN "stopped" ELSE "refused"]
    /\ metadata' = [metadata EXCEPT !["memory"] = {}]
    /\ broken' = broken \cup {<<a, "memory">> : a \in confirmed}
    /\ UNCHANGED <<templates, toscametadata, confirmed, removed, asked>>

CatalogNext ==
    \/ \E a \in Attempt :
         \/ Receive(a) \/ PutTemplate(a) \/ PutTemplateFails(a)
         \/ IndexTemplate(a) \/ SqlInsert(a)
         \/ \E p \in Places : Describe(a, p)
    \/ \E doc \in templates : DeleteTemplate(doc)
    \/ NodeStops

CatalogSpec == CatalogInit /\ [][CatalogNext]_catVars

-----------------------------------------------------------------------------
(* Properties.                                                             *)

Kept(a) ==
    \E d \in templates :
        /\ d.store = StoreName(a) /\ d.content = asked[a].content
        /\ \/ d.name = Filename(a)
           \/ \E b \in Attempt : /\ asked[b].kind = "legacy" /\ HasStored(b)
                                 /\ Filename(b) = Filename(a) /\ d = ToscaDoc(b)

Described(a, p) == Cardinality({e \in metadata[p] : e.id[2] = a}) = 1

(***************************************************************************)
(* What a client was told is uploaded is there under its own file name,    *)
(* until it is deleted, whatever other files with the same content are     *)
(* uploaded (http.go:500, "the second Put() silently overwrites the        *)
(* first"), and so is its row; when its goroutine is done it is described  *)
(* once in each place, except where the write itself failed, and one       *)
(* failed write does not keep the others from being made.  Nothing is      *)
(* described that was refused.                                             *)
(***************************************************************************)
UploadsAreDescribed ==
    /\ \A p \in Places : \A e \in metadata[p] : e.id[2] \in confirmed
    /\ \A a \in confirmed :
         /\ at[a] = "done" => \A p \in Places :
              \/ Described(a, p) \/ <<a, p>> \in broken
              \/ p = "memory" /\ asked[a].kind = "sql"
         /\ asked[a].kind # "sql" =>
              /\ a \in removed \/ Kept(a)
              /\ \/ <<a, "toscametadata">> \in broken
                 \/ \E r \in toscametadata : r.name = Filename(a) /\ r.content = asked[a].content

=============================================================================
