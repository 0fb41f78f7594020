--------------------------- MODULE DocumentIndex ---------------------------
(***************************************************************************)
(* The index of one document store (documentstore/index.go): the documents *)
(* by key, the indexes of their fields, and the cache of decoded documents *)
(* that queries fill.  Entries come in any order, from local writes and    *)
(* from replication.  An action is one hold of muIndex; UpdateIndex keeps  *)
(* it for all the entries it was given, so a query sees fewer states than  *)
(* here.                                                                   *)
(***************************************************************************)
EXTENDS LastWriter, FiniteSetsExt

CONSTANTS
    Entry,      \* the entries that may arrive
    Field,      \* the indexed fields
    Text,       \* their values
    Fields,     \* Fields[raw]: the string values of the indexed fields
    NotJSON,    \* documents that are no JSON object: decoding them fails
    Cost,       \* Cost[raw]: what the document costs in the cache
    DecodedMax, \* the budget of the cache
    Reader      \* queries running at the same time

ASSUME EntryAssumption ==
    /\ \A e \in Entry : /\ Stamp(e) \in Stamps
                        /\ e.docs \in Contents
    /\ \A e, f \in Entry, k \in Key :
         Writes(e, k) /\ Writes(f, k) /\ Stamp(e) = Stamp(f) => e = f
ASSUME FieldsAssumption ==
    /\ Fields \in [Raw -> UNION {[F -> Text] : F \in SUBSET Field}]
    /\ NotJSON \subseteq Raw
ASSUME CacheAssumption ==
    /\ Cost \in [Raw -> Nat \ {0}]
    /\ DecodedMax \in Nat

VARIABLES
    idx,        \* index, clocks and seen
    byField,    \* byField[f][t]: the keys of documents with value t in f
    fieldVals,  \* fieldVals[k]: the values k is listed under
    fieldsOff,  \* a document was not JSON
    decoded,    \* the document each key's cache entry was decoded from
    decodedN,   \* the bytes the cache is thought to hold
    reader      \* where each query is

fieldVars == <<byField, fieldVals, fieldsOff>>
vars == <<idx, fieldVars, decoded, decodedN, reader>>

NoFields == [f \in {} |-> ""]
EmptyFields == [f \in Field |-> [t \in Text |-> {}]]
Idle == [at |-> "idle"]

Init ==
    /\ idx = EmptyIndex
    /\ byField = EmptyFields
    /\ fieldVals = [k \in Key |-> NoFields]
    /\ fieldsOff = FALSE
    /\ decoded = [k \in Key |-> Nothing]
    /\ decodedN = 0
    /\ reader = [r \in Reader |-> Idle]

-----------------------------------------------------------------------------
(* UpdateIndex: setKey or delKey for every key the entry wins.             *)

(***************************************************************************)
(* cacheDoc holds the read lock from the store to the count.               *)
(***************************************************************************)
Unlocked == \A r \in Reader : reader[r].at # "counting"

Won(e) == {k \in Key : Wins(idx, e, k)}

Uncached(k, e) == k \in Won(e) /\ decoded[k] # Nothing

Uncache(e) ==
    /\ decoded' = [k \in Key |-> IF Uncached(k, e) THEN Nothing ELSE decoded[k]]
    /\ decodedN' = decodedN - SumFunction([k \in Key |->
                       IF Uncached(k, e) THEN Cost[decoded[k]] ELSE 0])

ValuesOf(raw) == IF raw = Nothing THEN NoFields ELSE Fields[raw]

Listed(vals, f, t) == f \in DOMAIN vals /\ vals[f] = t

NoneUnlisted(e, f, t) == {}

Unlisted(e, f, t) == {k \in Won(e) : Listed(fieldVals[k], f, t)}

IndexFields(e) ==
    /\ fieldVals' = [k \in Key |->
           IF k \in Won(e) THEN ValuesOf(e.docs[k]) ELSE fieldVals[k]]
    /\ byField' = [f \in Field |-> [t \in Text |->
           (byField[f][t] \ Unlisted(e, f, t))
           \cup {k \in Won(e) : Listed(ValuesOf(e.docs[k]), f, t)}]]
    /\ UNCHANGED fieldsOff

StopIndexing ==
    /\ fieldsOff' = TRUE
    /\ byField' = EmptyFields
    /\ fieldVals' = [k \in Key |-> NoFields]

UpdateIndex(e) ==
    /\ Unlocked
    /\ e \notin idx.seen
    /\ idx' = Apply(idx, e)
    /\ Uncache(e)
    /\ \/ fieldsOff /\ UNCHANGED fieldVars
       \/ /\ ~fieldsOff
          /\ \E k \in Won(e) : e.docs[k] \in NotJSON
          /\ StopIndexing
       \/ /\ ~fieldsOff
          /\ \A k \in Won(e) : e.docs[k] \notin NotJSON
          /\ IndexFields(e)
    /\ UNCHANGED reader

-----------------------------------------------------------------------------
(* A query on one of its keys: filterKeys, decode, cacheDoc.               *)

Move(r, to) == reader' = [reader EXCEPT ![r] = to]

At(r, pc) == reader[r].at = pc

Get(r) ==
    /\ At(r, "idle")
    /\ \E k \in Key :
         /\ idx.index[k] # Nothing
         /\ Move(r, [at |-> "got", key |-> k, raw |-> idx.index[k]])
    /\ UNCHANGED <<idx, fieldVars, decoded, decodedN>>

(***************************************************************************)
(* The cache is used only for the very bytes the query has got.            *)
(***************************************************************************)
UseCached(r) ==
    /\ At(r, "got")
    /\ decoded[reader[r].key] = reader[r].raw
    /\ Move(r, Idle)
    /\ UNCHANGED <<idx, fieldVars, decoded, decodedN>>

HasRoom(raw) == decodedN + Cost[raw] <= DecodedMax

Decode(r) ==
    /\ At(r, "got")
    /\ decoded[reader[r].key] # reader[r].raw
    /\ Move(r, IF reader[r].raw \notin NotJSON /\ HasRoom(reader[r].raw)
               THEN [reader[r] EXCEPT !.at = "caching"]
               ELSE Idle)
    /\ UNCHANGED <<idx, fieldVars, decoded, decodedN>>

AnyVersion(k, raw) == TRUE

StillCurrent(k, raw) == idx.index[k] = raw

CacheDoc(r) ==
    LET k == reader[r].key
        raw == reader[r].raw
    IN  /\ At(r, "caching")
        /\ IF StillCurrent(k, raw) /\ decoded[k] = Nothing
           THEN /\ decoded' = [decoded EXCEPT ![k] = raw]
                /\ Move(r, [reader[r] EXCEPT !.at = "counting"])
           ELSE /\ Move(r, Idle)
                /\ UNCHANGED decoded
        /\ UNCHANGED <<idx, fieldVars, decodedN>>

AddCost(raw) == decodedN' = decodedN + Cost[raw]

CountDoc(r) ==
    /\ At(r, "counting")
    /\ AddCost(reader[r].raw)
    /\ Move(r, Idle)
    /\ UNCHANGED <<idx, fieldVars, decoded>>

Query(r) == Get(r) \/ UseCached(r) \/ Decode(r) \/ CacheDoc(r) \/ CountDoc(r)

Next ==
    \/ \E e \in Entry : UpdateIndex(e)
    \/ \E r \in Reader : Query(r)

Spec == Init /\ [][Next]_vars

-----------------------------------------------------------------------------
(* Properties.                                                             *)

(***************************************************************************)
(* The index shows what a full rebuild from the entries it has seen would  *)
(* show, whatever the order in which they came: "The result is the same as *)
(* a full rebuild regardless of the order in which entries arrive"         *)
(* (third_party/README.md).                                                *)
(***************************************************************************)
LastWriterWins == \A k \in Key : idx.index[k] = Rebuilt(idx.seen, k)

(***************************************************************************)
(* A field index lists exactly the documents that have the value now: the  *)
(* results of rawsByFields are given out without decoding a document.      *)
(***************************************************************************)
FieldsExact ==
    ~fieldsOff => \A f \in Field, t \in Text :
        byField[f][t] = {k \in Key : Listed(ValuesOf(idx.index[k]), f, t)}

(***************************************************************************)
(* "an entry present now is current" (cacheDoc): a query that was slow to  *)
(* decode leaves nothing stale behind.                                     *)
(***************************************************************************)
CacheIsCurrent == \A k \in Key : decoded[k] \in {Nothing, idx.index[k]}

=============================================================================
