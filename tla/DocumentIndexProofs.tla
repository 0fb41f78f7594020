------------------------ MODULE DocumentIndexProofs ------------------------
(***************************************************************************)
(* Theorems about the document index, for any keys, documents and          *)
(* entries, and any number of queries; and about the stores of a node,     *)
(* for any names, calls, failures and restarts.                            *)
(***************************************************************************)
EXTENDS DocumentIndex, Stores, TLAPS

-----------------------------------------------------------------------------
(* The order of stamps.                                                    *)

LEMMA StampTypes ==
    /\ \A s \in Stamps : s.time \in Nat /\ s.id \in Nat
    /\ \A s, t \in Stamps : s.time = t.time /\ s.id = t.id => s = t
    /\ NoStamp \notin Stamps
    /\ NoStamp.time = -1
  BY DEF Stamps, NoStamp

LEMMA LaterIsTotalOrder ==
    /\ \A s \in Stamps : ~Later(s, s)
    /\ \A s, t \in Stamps : Later(s, t) \/ Later(t, s) \/ s = t
    /\ \A s, t \in Stamps : ~(Later(s, t) /\ Later(t, s))
    /\ \A s, t, u \in Stamps : Later(s, t) /\ ~Later(u, t) => ~Later(u, s)
    /\ \A s \in Stamps : Later(s, NoStamp)
  BY StampTypes, SMTT(30) DEF Later

-----------------------------------------------------------------------------
(* Indexes.                                                                *)

(***************************************************************************)
(* Entries that two writers cannot confuse: what EntryAssumption asks.     *)
(***************************************************************************)
Ordered(E) ==
    /\ \A e \in E : Stamp(e) \in Stamps
    /\ \A e, f \in E, k \in Key :
         Writes(e, k) /\ Writes(f, k) /\ Stamp(e) = Stamp(f) => e = f

(***************************************************************************)
(* A key nobody has written is empty; any other has the document and the   *)
(* stamp of one of its writers, and no writer of it is later.              *)
(***************************************************************************)
Winner(x, e, k) ==
    /\ x.index[k] = e.docs[k]
    /\ x.clocks[k] = Stamp(e)
    /\ \A f \in Writers(x.seen, k) : ~Later(Stamp(f), Stamp(e))

IndexedKey(x, k) ==
    /\ Writers(x.seen, k) = {} =>
         x.index[k] = Nothing /\ x.clocks[k] = NoStamp
    /\ Writers(x.seen, k) # {} =>
         \E e \in Writers(x.seen, k) : Winner(x, e, k)

Indexed(x) == \A k \in Key : IndexedKey(x, k)

LEMMA EmptyIsIndexed == Indexed(EmptyIndex)
  BY DEF Indexed, IndexedKey, EmptyIndex, Writers

(***************************************************************************)
(* Applying any entry keeps an index an index.                             *)
(***************************************************************************)
LEMMA AppliedIsIndexed ==
    ASSUME NEW x, Indexed(x), NEW e, Ordered(x.seen \cup {e})
    PROVE  Indexed(Applied(x, e))
<1> DEFINE y == Applied(x, e)
<1>1. SUFFICES ASSUME NEW k \in Key PROVE IndexedKey(y, k)
  BY DEF Indexed
<1>2. y.seen = x.seen \cup {e}
  BY DEF Applied
<1>3. /\ y.index[k] = IF Wins(x, e, k) THEN e.docs[k] ELSE x.index[k]
      /\ y.clocks[k] = IF Wins(x, e, k) THEN Stamp(e) ELSE x.clocks[k]
  BY DEF Applied
<1>4. IndexedKey(x, k)
  BY DEF Indexed
<1>5. \A f \in Writers(x.seen, k) \cup {e} : Stamp(f) \in Stamps
  BY DEF Ordered, Writers
<1>6. CASE ~Writes(e, k)
  <2>1. Writers(y.seen, k) = Writers(x.seen, k)
    BY <1>2, <1>6 DEF Writers
  <2>2. y.index[k] = x.index[k] /\ y.clocks[k] = x.clocks[k]
    BY <1>3, <1>6 DEF Wins
  <2> QED
    BY <1>4, <2>1, <2>2 DEF IndexedKey, Winner
<1>7. CASE Writes(e, k)
  <2>1. Writers(y.seen, k) = Writers(x.seen, k) \cup {e}
    BY <1>2, <1>7 DEF Writers
  <2>2. ASSUME Writers(x.seen, k) = {} PROVE Winner(y, e, k)
    <3>1. Later(Stamp(e), x.clocks[k])
      BY <1>4, <1>5, <2>2, LaterIsTotalOrder DEF IndexedKey
    <3>2. y.index[k] = e.docs[k] /\ y.clocks[k] = Stamp(e)
      BY <1>3, <1>7, <3>1 DEF Wins
    <3>3. ~Later(Stamp(e), Stamp(e))
      BY <1>5, LaterIsTotalOrder
    <3> QED
      BY <2>1, <2>2, <3>2, <3>3 DEF Winner
  <2>3. ASSUME NEW g \in Writers(x.seen, k), Winner(x, g, k)
        PROVE  Winner(y, e, k) \/ Winner(y, g, k)
    <3>1. CASE Later(Stamp(e), Stamp(g))
      <4>1. y.index[k] = e.docs[k] /\ y.clocks[k] = Stamp(e)
        BY <1>3, <1>7, <2>3, <3>1 DEF Wins, Winner
      <4>2. \A f \in Writers(x.seen, k) : ~Later(Stamp(f), Stamp(e))
        BY <1>5, <2>3, <3>1, LaterIsTotalOrder DEF Winner
      <4>3. ~Later(Stamp(e), Stamp(e))
        BY <1>5, LaterIsTotalOrder
      <4> QED
        BY <2>1, <4>1, <4>2, <4>3 DEF Winner
    <3>2. CASE ~Later(Stamp(e), Stamp(g))
      <4>1. y.index[k] = g.docs[k] /\ y.clocks[k] = Stamp(g)
        BY <1>3, <2>3, <3>2 DEF Wins, Winner
      <4> QED
        BY <2>1, <2>3, <3>2, <4>1 DEF Winner
    <3> QED
      BY <3>1, <3>2
  <2>4. \E f \in Writers(y.seen, k) : Winner(y, f, k)
    BY <1>4, <2>1, <2>2, <2>3 DEF IndexedKey
  <2> QED
    BY <2>1, <2>4 DEF IndexedKey
<1> QED
  BY <1>6, <1>7

LEMMA ApplyIsIndexed ==
    ASSUME NEW x, Indexed(x), NEW e, Ordered(x.seen \cup {e})
    PROVE  Indexed(Apply(x, e))
  BY AppliedIsIndexed DEF Apply

(***************************************************************************)
(* An index shows what a rebuild from its entries shows.                   *)
(***************************************************************************)
LEMMA IndexedShowsLast ==
    ASSUME NEW x, Indexed(x), Ordered(x.seen), NEW k \in Key
    PROVE  x.index[k] = Rebuilt(x.seen, k)
<1> DEFINE W == Writers(x.seen, k)
<1>1. CASE W = {}
  BY <1>1 DEF Indexed, IndexedKey, Rebuilt
<1>2. CASE W # {}
  <2>1. PICK e \in W : Winner(x, e, k)
    BY <1>2 DEF Indexed, IndexedKey
  <2>2. \A f \in W : ~Later(Stamp(f), Stamp(e))
    BY <2>1 DEF Winner
  <2>3. /\ Last(x.seen, k) \in W
        /\ \A f \in W : ~Later(Stamp(f), Stamp(Last(x.seen, k)))
    BY <2>2 DEF Last
  <2>4. /\ Stamp(e) \in Stamps
        /\ Stamp(Last(x.seen, k)) \in Stamps
    BY <2>3 DEF Ordered, Writers
  <2>5. Stamp(e) = Stamp(Last(x.seen, k))
    BY <2>2, <2>3, <2>4, LaterIsTotalOrder
  <2>6. e = Last(x.seen, k)
    BY <2>3, <2>5 DEF Ordered, Writers
  <2> QED
    BY <1>2, <2>1, <2>6 DEF Rebuilt, Winner
<1> QED
  BY <1>1, <1>2

(***************************************************************************)
(* Two indexes that have seen the same entries show the same documents,    *)
(* whatever the order each took them in: two replicas with one log agree.  *)
(***************************************************************************)
THEOREM SameEntriesSameDocuments ==
    ASSUME NEW x, NEW y, Indexed(x), Indexed(y),
           x.seen = y.seen, Ordered(x.seen)
    PROVE  \A k \in Key : x.index[k] = y.index[k]
  BY IndexedShowsLast

-----------------------------------------------------------------------------
(* The documents.                                                          *)

IndexInv == Indexed(idx) /\ idx.seen \subseteq Entry

LEMMA EntriesAreOrdered == ASSUME NEW E, E \subseteq Entry PROVE Ordered(E)
  BY EntryAssumption DEF Ordered

LEMMA IndexInvIsInvariant == Spec => []IndexInv
<1>1. Init => IndexInv
  BY EmptyIsIndexed DEF Init, IndexInv, EmptyIndex
<1>2. IndexInv /\ [Next]_vars => IndexInv'
  <2> SUFFICES ASSUME IndexInv, [Next]_vars PROVE IndexInv'
    OBVIOUS
  <2>1. ASSUME NEW e \in Entry, UpdateIndex(e) PROVE IndexInv'
    <3>1. idx' = Applied(idx, e)
      BY <2>1 DEF UpdateIndex, Apply
    <3>2. idx'.seen = idx.seen \cup {e}
      BY <3>1 DEF Applied
    <3>3. idx.seen \cup {e} \subseteq Entry
      BY DEF IndexInv
    <3>4. Indexed(idx')
      BY <3>1, <3>3, EntriesAreOrdered, AppliedIsIndexed DEF IndexInv
    <3> QED
      BY <3>2, <3>3, <3>4 DEF IndexInv
  <2>2. CASE UNCHANGED idx
    BY <2>2 DEF IndexInv
  <2>3. ASSUME NEW r \in Reader, Query(r) PROVE UNCHANGED idx
    BY <2>3 DEF Query, Get, UseCached, Decode, CacheDoc, CountDoc
  <2> QED
    BY <2>1, <2>2, <2>3 DEF Next, vars
<1> QED
  BY <1>1, <1>2, PTL DEF Spec

(***************************************************************************)
(* The index shows what a full rebuild would show, whatever the order the  *)
(* entries came in.                                                        *)
(***************************************************************************)
THEOREM OrderDoesNotMatter == Spec => []LastWriterWins
<1>1. IndexInv => LastWriterWins
  BY EntriesAreOrdered, IndexedShowsLast DEF IndexInv, LastWriterWins
<1> QED
  BY <1>1, IndexInvIsInvariant, PTL

-----------------------------------------------------------------------------
(* The cache.                                                              *)

(***************************************************************************)
(* No query, however slow, leaves a stale document in the cache.           *)
(***************************************************************************)
THEOREM CacheNeverStale == Spec => []CacheIsCurrent
<1> DEFINE Inv == /\ CacheIsCurrent
                  /\ decoded = [k \in Key |-> decoded[k]]
<1>1. Init => Inv
  BY DEF Init, CacheIsCurrent
<1>2. Inv /\ [Next]_vars => Inv'
  <2> SUFFICES ASSUME Inv, [Next]_vars PROVE Inv'
    OBVIOUS
  <2>1. ASSUME NEW e \in Entry, UpdateIndex(e) PROVE Inv'
    <3>1. decoded' =
            [k \in Key |-> IF Uncached(k, e) THEN Nothing ELSE decoded[k]]
      BY <2>1 DEF UpdateIndex, Uncache
    <3>2. \A k \in Key : ~Wins(idx, e, k) => idx'.index[k] = idx.index[k]
      BY <2>1 DEF UpdateIndex, Apply, Applied
    <3>3. ASSUME NEW k \in Key PROVE decoded'[k] \in {Nothing, idx'.index[k]}
      BY <3>1, <3>2 DEF Uncached, Won, CacheIsCurrent
    <3> QED
      BY <3>1, <3>3 DEF CacheIsCurrent
  <2>2. CASE UNCHANGED <<idx, decoded>>
    BY <2>2 DEF CacheIsCurrent
  <2>3. ASSUME NEW r \in Reader, CacheDoc(r) PROVE Inv'
    <3> DEFINE c == reader[r].key
               found == reader[r].raw
    <3>1. idx' = idx
      BY <2>3 DEF CacheDoc
    <3>2. \/ decoded' = decoded
          \/ idx.index[c] = found /\ decoded' = [decoded EXCEPT ![c] = found]
      BY <2>3 DEF CacheDoc, StillCurrent
    <3> QED
      BY <3>1, <3>2 DEF CacheIsCurrent
  <2>4. ASSUME NEW r \in Reader,
               Get(r) \/ UseCached(r) \/ Decode(r) \/ CountDoc(r)
        PROVE  UNCHANGED <<idx, decoded>>
    BY <2>4 DEF Get, UseCached, Decode, CountDoc
  <2> QED
    BY <2>1, <2>2, <2>3, <2>4 DEF Next, Query, vars
<1>3. Inv => CacheIsCurrent
  OBVIOUS
<1> QED
  BY <1>1, <1>2, <1>3, PTL DEF Spec

-----------------------------------------------------------------------------
(* The field indexes.                                                      *)

(***************************************************************************)
(* While the field indexes are in use, what is remembered of a key is what *)
(* its document has: unindexFields forgets exactly what was listed.        *)
(***************************************************************************)
Remembered ==
    ~fieldsOff => \A k \in Key : fieldVals[k] = ValuesOf(idx.index[k])

FieldsInv == Remembered /\ FieldsExact

LEMMA UpdateKeepsFields ==
    ASSUME FieldsInv, NEW e \in Entry, UpdateIndex(e)
    PROVE  FieldsInv'
<1>1. CASE fieldsOff'
  BY <1>1 DEF FieldsInv, Remembered, FieldsExact
<1>2. CASE ~fieldsOff'
  <2>1. ~fieldsOff /\ IndexFields(e)
    BY <1>2 DEF UpdateIndex, StopIndexing, fieldVars
  <2>2. \A k \in Key : k \in Won(e) => idx'.index[k] = e.docs[k]
    BY DEF UpdateIndex, Apply, Applied, Won
  <2>3. \A k \in Key : k \notin Won(e) => idx'.index[k] = idx.index[k]
    BY DEF UpdateIndex, Apply, Applied, Won
  <2>4. \A k \in Key : fieldVals'[k] =
          IF k \in Won(e) THEN ValuesOf(e.docs[k]) ELSE fieldVals[k]
    BY <2>1 DEF IndexFields
  <2>5. Remembered'
    BY <2>1, <2>2, <2>3, <2>4 DEF FieldsInv, Remembered, ValuesOf
  <2>6. ASSUME NEW f \in Field, NEW t \in Text
        PROVE  byField'[f][t] =
                 {k \in Key : Listed(ValuesOf(idx'.index[k]), f, t)}
    <3>1. byField'[f][t] = (byField[f][t] \ Unlisted(e, f, t))
            \cup {k \in Won(e) : Listed(ValuesOf(e.docs[k]), f, t)}
      BY <2>1 DEF IndexFields
    <3>2. byField[f][t] =
            {k \in Key : Listed(ValuesOf(idx.index[k]), f, t)}
      BY <2>1 DEF FieldsInv, FieldsExact
    <3>3. Unlisted(e, f, t) =
            {k \in Won(e) : Listed(ValuesOf(idx.index[k]), f, t)}
      BY <2>1 DEF FieldsInv, Remembered, Unlisted, Won
    <3>4. Won(e) \subseteq Key
      BY DEF Won
    <3>5. \A k \in Key : ValuesOf(idx'.index[k]) =
            IF k \in Won(e) THEN ValuesOf(e.docs[k]) ELSE ValuesOf(idx.index[k])
      BY <2>2, <2>3
    <3> HIDE DEF UpdateIndex
    <3> QED
      BY <3>1, <3>2, <3>3, <3>4, <3>5
  <2> QED
    BY <1>2, <2>5, <2>6 DEF FieldsInv, FieldsExact, ValuesOf
<1> QED
  BY <1>1, <1>2

(***************************************************************************)
(* A field index never lists a document without the value, nor misses one  *)
(* with it.                                                                *)
(***************************************************************************)
THEOREM FieldIndexesExact == Spec => []FieldsExact
<1>1. Init => FieldsInv
  <2> SUFFICES ASSUME Init PROVE FieldsInv
    OBVIOUS
  <2>1. \A k \in Key : ValuesOf(idx.index[k]) = NoFields
    BY DEF Init, EmptyIndex, ValuesOf
  <2>2. \A f \in Field, t \in Text : ~Listed(NoFields, f, t)
    BY DEF Listed, NoFields
  <2> QED
    BY <2>1, <2>2
    DEF Init, FieldsInv, Remembered, FieldsExact, EmptyFields
<1>2. FieldsInv /\ [Next]_vars => FieldsInv'
  <2> SUFFICES ASSUME FieldsInv, [Next]_vars PROVE FieldsInv'
    OBVIOUS
  <2>1. CASE UNCHANGED <<idx, fieldVars>>
    BY <2>1 DEF FieldsInv, Remembered, FieldsExact, ValuesOf, fieldVars
  <2>2. ASSUME NEW r \in Reader, Query(r) PROVE UNCHANGED <<idx, fieldVars>>
    BY <2>2 DEF Query, Get, UseCached, Decode, CacheDoc, CountDoc
  <2> QED
    BY <2>1, <2>2, UpdateKeepsFields DEF Next, vars
<1>3. FieldsInv => FieldsExact
  BY DEF FieldsInv
<1> QED
  BY <1>1, <1>2, <1>3, PTL DEF Spec

-----------------------------------------------------------------------------
(* The stores of a node.                                                   *)

(***************************************************************************)
(* Where a call can be.                                                    *)
(***************************************************************************)
Places == {"idle", "resolve", "ensure", "drop", "exchange", "put", "truncate", "write",
           "copy", "done", "failed"}

(***************************************************************************)
(* The instances of the stores that were made, and what each of them       *)
(* shows.                                                                  *)
(***************************************************************************)
InstanceTypes ==
    /\ made \in [Name -> Nat]
    /\ alive \subseteq Name \X Nat /\ raw \subseteq Name \X Nat /\ partial \subseteq Name \X Nat
    /\ wrapper \in [Name -> {"none", "open", "closed"}]
    /\ shown \in [DOMAIN shown -> SUBSET Call]
    /\ \A x \in DOMAIN shown : x \in Name \X Nat /\ x[2] <= made[x[1]]

(***************************************************************************)
(* The types of what a node keeps of its stores.                           *)
(***************************************************************************)
StoresTypeOK ==
    /\ InstanceTypes
    /\ file \in [state : {"missing", "torn", "whole"}, names : SUBSET Name]
    /\ disk \in [Name -> SUBSET Call] /\ acked \in [Name -> SUBSET Call]
    /\ process \in {"down", "booting", "up"}
    /\ opening \in Nat \ {0} /\ toRestore \subseteq Name /\ conf \subseteq Name
    /\ unopened \subseteq Name
    /\ builtin \in [Name -> Nat] /\ dynamic \in [Name -> Nat]
    /\ dynMu \in Call \cup {NoCall}
    /\ jobs \in [Call -> [op : Operations, name : Name]]
    /\ doing \in [Call -> [at : Places, no : Nat]]
    /\ content \in [Call \cup {Main} -> SUBSET Name]
    /\ main \in {"running", "marshal", "truncate", "write", "close", "returned"}
    /\ killer \in {"waiting", "close", "exit"}
    /\ exchange \in [by : Call \cup {NoCall}, left : SUBSET Name, from : [Name -> Nat],
                     has : [Name -> SUBSET Call], due : [Name -> SUBSET Call]]
    /\ failures \in Nat /\ starts \in Nat
    /\ promise \in [Name -> {"none", "kept", "gone"}]

(***************************************************************************)
(* The operations of the calls at a place.                                 *)
(***************************************************************************)
OpsAt(at) ==
    CASE at = "resolve"              -> {"use"}
      [] at = "ensure"               -> {"use", "create", "import"}
      [] at = "drop"                 -> {"drop"}
      [] at \in {"exchange", "copy"} -> {"export", "import"}
      [] at = "put"                  -> {"use", "import"}
      [] at \in {"truncate", "write"} -> {"use", "create", "import", "drop"}
      [] OTHER                       -> Operations

(***************************************************************************)
(* A call is only at places of its operation; calls are over unless the    *)
(* node is up, and the shutdown is killed only after it began.             *)
(***************************************************************************)
Phases ==
    /\ \A c \in Call : jobs[c].op \in OpsAt(doing[c].at)
    /\ process # "up" => \A c \in Call : doing[c].at \in {"idle", "done", "failed"}
    /\ killer # "waiting" => main # "running"

(***************************************************************************)
(* A call whose config is being saved has the lock, so that what it writes *)
(* is the config.                                                          *)
(***************************************************************************)
Saving ==
    \A c \in Call : doing[c].at \in {"truncate", "write"} =>
        /\ dynMu = c /\ content[c] = conf
        /\ jobs[c].name \in conf <=> jobs[c].op # "drop"

(***************************************************************************)
(* What the clients of Create and Drop were told.                          *)
(***************************************************************************)
Agrees(names) ==
    \A n \in Name : /\ promise[n] = "kept" => n \in names
                    /\ promise[n] = "gone" => n \notin names

FileAgrees == file.state # "torn" => Agrees(file.names)

ConfAgrees == process # "down" => Agrees(conf)

FirstPhase == process = "booting" /\ opening <= Len(Builtin)

(***************************************************************************)
(* What the config lists is open, or could not be opened, or its turn has  *)
(* still to come; what is open as a dynamic store is in the config.        *)
(***************************************************************************)
Restored ==
    /\ process # "down" =>
         \A n \in conf : FirstPhase \/ n \in toRestore \/ Instances[n] # 0 \/ n \in unopened
    /\ \A n \in Name : dynamic[n] # 0 => n \in conf
    /\ toRestore \subseteq conf

(***************************************************************************)
(* Closed wrappers are left only by drops: the store is not in the config, *)
(* and so is never opened by its address.                                  *)
(***************************************************************************)
Wrappers ==
    \A n \in Name : wrapper[n] = "closed" =>
        process = "up" /\ n \notin conf /\ builtin[n] = 0

(***************************************************************************)
(* A store that is open is the one in the tables, and until the shutdown   *)
(* the other way round.                                                    *)
(***************************************************************************)
AliveIsListed ==
    /\ \A x \in alive : x[2] # 0 /\ Instances[x[1]] = x[2]
    /\ main = "running" => \A n \in Name : Instances[n] # 0 => <<n, Instances[n]>> \in alive
    /\ alive \subseteq DOMAIN shown

(***************************************************************************)
(* While the node starts, the builtin stores whose turn is to come and all *)
(* the dynamic ones are not open.                                          *)
(***************************************************************************)
NotYet ==
    /\ process # "booting" => toRestore = {}
    /\ \A n \in toRestore : dynamic[n] = 0
    /\ process = "down" => \A n \in Name : builtin[n] = 0 /\ dynamic[n] = 0
    /\ FirstPhase =>
         /\ \A j \in DOMAIN Builtin : j >= opening => builtin[Builtin[j]] = 0
         /\ \A n \in Name : dynamic[n] = 0

(***************************************************************************)
(* What a put was acknowledged for is on disk, and in the instance that    *)
(* is open, unless that was loaded only in part.                           *)
(***************************************************************************)
Acknowledged ==
    \A n \in Name :
        /\ acked[n] \subseteq disk[n]
        /\ Instances[n] # 0 =>
             /\ <<n, Instances[n]>> \in DOMAIN shown
             /\ <<n, Instances[n]>> \in partial \/ acked[n] \subseteq shown[<<n, Instances[n]>>]

(***************************************************************************)
(* The call that copies is the one that made the backup; what it has to    *)
(* contain is in the copy, or in the instance that is still to be copied.  *)
(***************************************************************************)
Copying ==
    /\ \A c \in Call :
         \/ doing[c].at = "copy"
         \/ jobs[c].op = "import" /\ doing[c].at \in {"ensure", "put", "truncate", "write"}
         => exchange.by = c
    /\ exchange.by # NoCall /\ jobs[exchange.by].op = "import" => \A n \in Name : exchange.due[n] = {}
    /\ exchange.by # NoCall /\ jobs[exchange.by].op = "export" =>
         \A n \in exchange.left : <<n, exchange.from[n]>> \in DOMAIN shown
    /\ \A n \in Name : exchange.due[n] # {} =>
         IF n \in exchange.left
         THEN /\ <<n, exchange.from[n]>> \in DOMAIN shown
              /\ exchange.due[n] \subseteq shown[<<n, exchange.from[n]>>]
         ELSE exchange.due[n] \subseteq exchange.has[n]

CallsInv == Phases /\ Saving /\ Copying

TablesInv ==
    /\ FileAgrees /\ ConfAgrees /\ Restored
    /\ Wrappers /\ AliveIsListed /\ NotYet /\ Acknowledged

StoresInv == StoresTypeOK /\ TablesInv /\ CallsInv

-----------------------------------------------------------------------------
(* Moving on.                                                              *)

(***************************************************************************)
(* Only c moves.                                                           *)
(***************************************************************************)
Moves(c, at) ==
    /\ doing' \in [Call -> [at : Places, no : Nat]]
    /\ doing'[c].at = at
    /\ \A d \in Call \ {c} : doing'[d] = doing[d]

LEMMA GoesMoves ==
    ASSUME StoresTypeOK, NEW c \in Call, NEW at \in Places, Goes(c, at)
    PROVE  Moves(c, at)
  <1>1. doing \in [Call -> [at : Places, no : Nat]]
    BY DEF StoresTypeOK
  <1>2. CASE at \in {"done", "failed"}
    <2>1. doing' = [doing EXCEPT ![c] = Finished(at)]
      BY <1>2 DEF Goes
    <2>2. Finished(at) \in [at : Places, no : Nat] /\ Finished(at).at = at
      BY DEF Finished, NotCalled, Places
    <2>. QED BY <1>1, <2>1, <2>2 DEF Moves
  <1>3. CASE at \notin {"done", "failed"}
    <2>1. doing' = [doing EXCEPT ![c] = [doing[c] EXCEPT !.at = at]]
      BY <1>3 DEF Goes
    <2>. QED BY <1>1, <2>1 DEF Moves
  <1>. QED BY <1>2, <1>3

LEMMA WithMoves ==
    ASSUME StoresTypeOK, NEW c \in Call, NEW at \in Places, NEW no \in Nat, With(c, at, no)
    PROVE  Moves(c, at)
  <1>1. doing \in [Call -> [at : Places, no : Nat]]
    BY DEF StoresTypeOK
  <1>2. CASE at = "done"
    <2>1. doing' = [doing EXCEPT ![c] = Finished(at)]
      BY <1>2 DEF With
    <2>2. Finished(at) \in [at : Places, no : Nat] /\ Finished(at).at = at
      BY DEF Finished, NotCalled, Places
    <2>. QED BY <1>1, <2>1, <2>2 DEF Moves
  <1>3. CASE at # "done"
    <2>1. doing' = [doing EXCEPT ![c] = [doing[c] EXCEPT !.at = at, !.no = no]]
      BY <1>3 DEF With
    <2>. QED BY <1>1, <2>1 DEF Moves
  <1>. QED BY <1>2, <1>3

LEMMA MoveKeepsPhases ==
    ASSUME StoresTypeOK, Phases, process = "up", NEW c \in Call, NEW at \in Places,
           Moves(c, at), jobs[c].op \in OpsAt(at), UNCHANGED <<process, jobs, endVars>>
    PROVE  Phases'
  BY DEF Phases, Moves, endVars

\* A call that does not hold the lock and does not come to a save.
LEMMA MoveKeepsSaving ==
    ASSUME StoresTypeOK, Saving, NEW c \in Call, NEW at \in Places \ {"truncate", "write"},
           Moves(c, at), UNCHANGED <<jobs, content, conf, dynMu>>
    PROVE  Saving'
  BY DEF Saving, Moves

\* A call comes to copy, or goes on with an import, only if the backup is its own.
LEMMA MoveKeepsCopying ==
    ASSUME StoresTypeOK, Copying, NEW c \in Call, NEW at \in Places, Moves(c, at),
           at = "copy" => exchange.by = c,
           jobs[c].op = "import" /\ at \in {"ensure", "put", "truncate", "write"} => exchange.by = c,
           \A x \in DOMAIN shown : x \in DOMAIN shown' /\ shown[x] \subseteq shown'[x],
           UNCHANGED <<jobs, exchange>>
    PROVE  Copying'
  BY DEF Copying, Moves

-----------------------------------------------------------------------------
(* Opening an instance.                                                    *)

(***************************************************************************)
(* What an instance that is opened changes.                                *)
(***************************************************************************)
Opens(n, x) ==
    /\ InstanceTypes' /\ failures' \in Nat
    /\ x = <<n, made'[n]>> /\ made'[n] \in Nat \ {0}
    /\ x \notin DOMAIN shown
    /\ alive' = alive \cup {x} /\ partial \subseteq partial'
    /\ \A y \in Name \X Nat : y \in partial => y \in partial'
    /\ DOMAIN shown' = DOMAIN shown \cup {x}
    /\ \A y \in DOMAIN shown : shown'[y] = shown[y]
    /\ x \in partial' \/ shown'[x] = disk[n]
    /\ \A m \in Name : wrapper'[m] = "closed" => wrapper[m] = "closed"

LEMMA LoadedShows ==
    ASSUME InstanceTypes, NEW n \in Name, NEW docs \in SUBSET Call,
           made' = [made EXCEPT ![n] = @ + 1], Loaded(n, docs)
    PROVE  LET x == <<n, made'[n]>>
           IN  /\ x \notin DOMAIN shown /\ DOMAIN shown' = DOMAIN shown \cup {x}
               /\ \A y \in DOMAIN shown : shown'[y] = shown[y]
               /\ shown'[x] = docs
               /\ shown' \in [DOMAIN shown' -> SUBSET Call]
               /\ \A y \in DOMAIN shown' : y \in Name \X Nat /\ y[2] <= made'[y[1]]
               /\ made' \in [Name -> Nat] /\ made'[n] = made[n] + 1
  <1> DEFINE x == <<n, made'[n]>>
  <1>1. made \in [Name -> Nat] /\ made'[n] = made[n] + 1 /\ made' \in [Name -> Nat]
    BY DEF InstanceTypes
  <1>2. x \notin DOMAIN shown
    BY <1>1 DEF InstanceTypes
  <1>3. shown' = [y \in DOMAIN shown \cup {x} |-> IF y = x THEN docs ELSE shown[y]]
    BY DEF Loaded
  <1>4. \A y \in DOMAIN shown' : y \in Name \X Nat /\ y[2] <= made'[y[1]]
    <2> TAKE y \in DOMAIN shown'
    <2>1. CASE y = x
      BY <1>1, <2>1
    <2>2. CASE y # x
      <3>1. y \in DOMAIN shown
        BY <1>3, <2>2
      <3>2. y \in Name \X Nat /\ y[2] <= made[y[1]]
        BY <3>1 DEF InstanceTypes
      <3>3. y[1] \in Name /\ y[2] \in Nat /\ made[y[1]] <= made'[y[1]]
        BY <1>1, <3>2
      <3>. QED BY <1>1, <3>2, <3>3
    <2>. QED BY <2>1, <2>2
  <1>5. shown' \in [DOMAIN shown' -> SUBSET Call]
    BY <1>2, <1>3 DEF InstanceTypes
  <1>. QED BY <1>1, <1>2, <1>3, <1>4, <1>5

LEMMA OpenOpens ==
    ASSUME StoresTypeOK, NEW n \in Name, NEW b, wrapper[n] # "closed", Open(n, b)
    PROVE  Opens(n, <<n, made'[n]>>)
  <1> DEFINE x == <<n, made'[n]>>
  <1>1. InstanceTypes /\ disk[n] \in SUBSET Call /\ failures \in Nat
    BY DEF StoresTypeOK
  <1>2. /\ made' = [made EXCEPT ![n] = @ + 1]
        /\ alive' = alive \cup {x}
        /\ raw' = raw \cup {x} \/ raw' = raw
        /\ wrapper' = [wrapper EXCEPT ![n] = "open"]
        /\ \/ Loaded(n, disk[n]) /\ UNCHANGED <<partial, failures>>
           \/ failures' = failures + 1 /\ Loaded(n, {}) /\ partial' = partial \cup {x}
    BY DEF Open
  <1>3. \A m \in Name : wrapper'[m] = "closed" => wrapper[m] = "closed"
    BY <1>1, <1>2 DEF InstanceTypes
  <1>4. x \in Name \X Nat /\ made'[n] \in Nat \ {0}
    BY <1>1, <1>2 DEF InstanceTypes
  <1>5. /\ alive' \subseteq Name \X Nat /\ raw' \subseteq Name \X Nat
        /\ wrapper' \in [Name -> {"none", "open", "closed"}]
    BY <1>1, <1>2, <1>4 DEF InstanceTypes
  <1>6. CASE Loaded(n, disk[n]) /\ UNCHANGED <<partial, failures>>
    <2>1. /\ x \notin DOMAIN shown /\ DOMAIN shown' = DOMAIN shown \cup {x}
          /\ \A y \in DOMAIN shown : shown'[y] = shown[y]
          /\ shown'[x] = disk[n]
          /\ shown' \in [DOMAIN shown' -> SUBSET Call]
          /\ \A y \in DOMAIN shown' : y \in Name \X Nat /\ y[2] <= made'[y[1]]
          /\ made' \in [Name -> Nat]
      BY <1>1, <1>2, <1>6, LoadedShows
    <2>2. InstanceTypes' /\ failures' \in Nat
      BY <1>1, <1>5, <1>6, <2>1 DEF InstanceTypes
    <2>. QED BY <1>2, <1>3, <1>4, <1>6, <2>1, <2>2 DEF Opens
  <1>7. CASE failures' = failures + 1 /\ Loaded(n, {}) /\ partial' = partial \cup {x}
    <2>1. /\ x \notin DOMAIN shown /\ DOMAIN shown' = DOMAIN shown \cup {x}
          /\ \A y \in DOMAIN shown : shown'[y] = shown[y]
          /\ shown' \in [DOMAIN shown' -> SUBSET Call]
          /\ \A y \in DOMAIN shown' : y \in Name \X Nat /\ y[2] <= made'[y[1]]
          /\ made' \in [Name -> Nat]
      BY <1>1, <1>2, <1>7, LoadedShows
    <2>2. InstanceTypes' /\ failures' \in Nat
      BY <1>1, <1>4, <1>5, <1>7, <2>1 DEF InstanceTypes
    <2>. QED BY <1>2, <1>3, <1>4, <1>7, <2>1, <2>2 DEF Opens
  <1>. QED BY <1>2, <1>6, <1>7

LEMMA OpenFailsTypes ==
    ASSUME StoresTypeOK, NEW n \in Name, NEW b, OpenFails(n, b)
    PROVE  /\ InstanceTypes' /\ failures' \in Nat
           /\ \A m \in Name : wrapper'[m] = "closed" => wrapper[m] = "closed"
           /\ UNCHANGED <<made, alive, shown, partial>>
  BY DEF StoresTypeOK, InstanceTypes, OpenFails

\* The new instance becomes the one in the tables.
LEMMA OpenedIsListed ==
    ASSUME StoresTypeOK, AliveIsListed, Acknowledged, NEW n \in Name, NEW x, Opens(n, x),
           Instances[n] = 0, Instances'[n] = x[2],
           \A m \in Name \ {n} : Instances'[m] = Instances[m],
           UNCHANGED <<disk, acked, main>>
    PROVE  AliveIsListed' /\ Acknowledged'
  <1>1. /\ x = <<n, x[2]>> /\ x[1] = n /\ x[2] \in Nat \ {0}
        /\ alive' = alive \cup {x} /\ DOMAIN shown' = DOMAIN shown \cup {x}
        /\ \A y \in DOMAIN shown : shown'[y] = shown[y]
        /\ x \in partial' \/ shown'[x] = disk[n]
        /\ \A y \in Name \X Nat : y \in partial => y \in partial'
    BY DEF Opens
  <1>2. \A m \in Name : Instances[m] \in Nat
    BY DEF StoresTypeOK, Instances
  <1>3. \A y \in alive : y \in Name \X Nat /\ y[1] # n
    BY DEF StoresTypeOK, InstanceTypes, AliveIsListed
  <1>4. AliveIsListed'
    <2>1. \A y \in alive' : y[2] # 0 /\ Instances'[y[1]] = y[2]
      BY <1>1, <1>3 DEF AliveIsListed
    <2>2. ASSUME main' = "running", NEW m \in Name, Instances'[m] # 0
          PROVE  <<m, Instances'[m]>> \in alive'
      BY <1>1, <2>2 DEF AliveIsListed
    <2>3. alive' \subseteq DOMAIN shown'
      BY <1>1 DEF AliveIsListed
    <2>. QED BY <2>1, <2>2, <2>3 DEF AliveIsListed
  <1>5. Acknowledged'
    <2> SUFFICES ASSUME NEW m \in Name
                 PROVE  /\ acked'[m] \subseteq disk'[m]
                        /\ Instances'[m] # 0 =>
                             /\ <<m, Instances'[m]>> \in DOMAIN shown'
                             /\ \/ <<m, Instances'[m]>> \in partial'
                                \/ acked'[m] \subseteq shown'[<<m, Instances'[m]>>]
      BY DEF Acknowledged
    <2>1. acked[m] \subseteq disk[m]
      BY DEF Acknowledged
    <2>2. CASE m = n
      BY <1>1, <2>1, <2>2
    <2>3. CASE m # n
      <3>1. Instances'[m] = Instances[m] /\ <<m, Instances[m]>> \in Name \X Nat
        BY <1>2, <2>3
      <3>. QED BY <1>1, <2>1, <3>1 DEF Acknowledged
    <2>. QED BY <2>2, <2>3
  <1>. QED BY <1>4, <1>5

-----------------------------------------------------------------------------
(* Steps that leave the tables and the file alone.                         *)

(***************************************************************************)
(* What a call leaves alone that only moves on.                            *)
(***************************************************************************)
quietVars == <<conf, promise, file, process, opening, toRestore, builtin, dynamic, unopened,
               wrapper, alive, shown, partial, acked, disk>>

LEMMA QuietTables ==
    ASSUME StoresTypeOK, TablesInv, UNCHANGED quietVars, main' = "running" => main = "running"
    PROVE  TablesInv'
  <1>0. Instances' = Instances
    BY DEF Instances, quietVars
  <1>1. FileAgrees' /\ ConfAgrees'
    BY DEF TablesInv, FileAgrees, ConfAgrees, Agrees, quietVars
  <1>2. Restored'
    BY <1>0 DEF TablesInv, Restored, FirstPhase, quietVars
  <1>3. Wrappers' /\ NotYet'
    BY DEF TablesInv, Wrappers, NotYet, FirstPhase, quietVars
  <1>4. AliveIsListed' /\ Acknowledged'
    BY <1>0 DEF TablesInv, AliveIsListed, Acknowledged, quietVars
  <1>. QED BY <1>1, <1>2, <1>3, <1>4 DEF TablesInv

(***************************************************************************)
(* What a call leaves alone that changes nothing but where it is.          *)
(***************************************************************************)
onlyDoing == <<diskVars, bootVars, instanceVars, tableVars, endVars, historyVars, content,
               exchange, failures, jobs>>

LEMMA MoveAlone ==
    ASSUME StoresInv, process = "up", NEW c \in Call, NEW at \in Places \ {"truncate", "write"},
           Moves(c, at), jobs[c].op \in OpsAt(at),
           at = "copy" \/ (jobs[c].op = "import" /\ at \in {"ensure", "put"}) => exchange.by = c,
           UNCHANGED onlyDoing
    PROVE  StoresInv'
  <1> USE DEF onlyDoing, diskVars, bootVars, instanceVars, tableVars, endVars, historyVars
  <1>1. StoresTypeOK'
    BY DEF StoresInv, StoresTypeOK, InstanceTypes, Moves
  <1>2. TablesInv'
    BY QuietTables DEF StoresInv, quietVars
  <1>3. Phases'
    BY MoveKeepsPhases DEF StoresInv, CallsInv
  <1>4. Saving'
    BY MoveKeepsSaving DEF StoresInv, CallsInv
  <1>5. Copying'
    <2>1. \A x \in DOMAIN shown : x \in DOMAIN shown' /\ shown[x] \subseteq shown'[x]
      OBVIOUS
    <2>. QED BY <2>1, MoveKeepsCopying DEF StoresInv, CallsInv
  <1>. QED BY <1>1, <1>2, <1>3, <1>4, <1>5 DEF StoresInv, CallsInv

LEMMA OpIsInPlace ==
    ASSUME StoresInv, NEW c \in Call
    PROVE  /\ jobs[c].op \in OpsAt(doing[c].at) /\ jobs[c].op \in Operations
           /\ jobs[c].name \in Name
           /\ doing[c] \in [at : Places, no : Nat]
           /\ \A n \in Name : builtin[n] \in Nat /\ dynamic[n] \in Nat /\ Instances[n] \in Nat
  BY DEF StoresInv, CallsInv, StoresTypeOK, Phases, Instances

LEMMA InvokeStep ==
    ASSUME StoresInv, NEW c \in Call, Invoke(c), UNCHANGED jobs PROVE StoresInv'
  <1> DEFINE at == CASE jobs[c].op = "use" -> "resolve" [] jobs[c].op = "create" -> "ensure"
                     [] jobs[c].op = "drop" -> "drop" [] OTHER -> "exchange"
  <1>1. at \in Places \ {"truncate", "write", "copy", "put"} /\ jobs[c].op \in OpsAt(at)
        /\ ~(jobs[c].op = "import" /\ at \in {"ensure", "put"})
    BY OpIsInPlace DEF OpsAt, Places, Operations
  <1>2. Moves(c, at)
    BY <1>1, GoesMoves DEF Invoke, StoresInv
  <1>. QED BY <1>1, <1>2, MoveAlone DEF Invoke, Is, onlyDoing

LEMMA ResolveStep ==
    ASSUME StoresInv, NEW c \in Call, ResolveDocStore(c), UNCHANGED jobs PROVE StoresInv'
  <1>1. jobs[c].op = "use"
    BY OpIsInPlace DEF ResolveDocStore, Is, OpsAt
  <1>2. PICK at \in {"put", "ensure", "failed"} : Moves(c, at)
    <2>1. \A at \in {"put", "ensure", "failed"} : at \in Places
      BY DEF Places
    <2>2. \/ \E no \in Nat : With(c, "put", no)
          \/ Goes(c, "ensure") \/ Goes(c, "failed")
      BY OpIsInPlace DEF ResolveDocStore
    <2>. QED BY <2>1, <2>2, GoesMoves, WithMoves DEF StoresInv
  <1>3. at \in Places \ {"truncate", "write"} /\ jobs[c].op \in OpsAt(at) /\ at # "copy"
    BY <1>1 DEF OpsAt, Places, Operations
  <1>. QED BY <1>1, <1>2, <1>3, MoveAlone DEF ResolveDocStore, Is, onlyDoing

LEMMA AfterEnsureIsPlace ==
    ASSUME NEW c \in Call, jobs[c].op \in {"use", "create", "import"}
    PROVE  /\ AfterEnsure(c) \in Places \ {"truncate", "write", "copy", "ensure"}
           /\ jobs[c].op \in OpsAt(AfterEnsure(c))
  BY DEF AfterEnsure, OpsAt, Places, Operations

LEMMA EnsureFindsStep ==
    ASSUME StoresInv, NEW c \in Call, EnsureFinds(c), UNCHANGED jobs PROVE StoresInv'
  <1>1. jobs[c].op \in {"use", "create", "import"}
    BY OpIsInPlace DEF EnsureFinds, Is, OpsAt
  <1>2. Moves(c, AfterEnsure(c))
    <2>1. \E no \in Nat : With(c, AfterEnsure(c), no)
      BY OpIsInPlace DEF EnsureFinds
    <2>. QED BY <1>1, <2>1, AfterEnsureIsPlace, WithMoves DEF StoresInv
  <1>3. jobs[c].op = "import" => exchange.by = c
    BY DEF EnsureFinds, Is, StoresInv, CallsInv, Copying
  <1>. QED BY <1>1, <1>2, <1>3, AfterEnsureIsPlace, MoveAlone DEF EnsureFinds, Is, onlyDoing

-----------------------------------------------------------------------------
(* Steps that change the tables, the instances or the file.                *)

LEMMA UpFacts ==
    ASSUME StoresInv, process = "up"
    PROVE  /\ ~FirstPhase /\ toRestore = {}
           /\ Agrees(conf)
           /\ \A n \in conf : Instances[n] # 0 \/ n \in unopened
           /\ \A n \in Name : Instances[n] = (IF dynamic[n] # 0 THEN dynamic[n] ELSE builtin[n])
  BY DEF StoresInv, TablesInv, FirstPhase, NotYet, ConfAgrees, Restored, Instances

LEMMA EnsureOpensStep ==
    ASSUME StoresInv, NEW c \in Call, EnsureOpens(c), UNCHANGED jobs PROVE StoresInv'
  <1> DEFINE n == jobs[c].name
             x == <<n, made'[n]>>
  <1> USE DEF diskVars, bootVars, endVars
  <1>1. /\ process = "up" /\ doing[c].at = "ensure" /\ dynMu = NoCall
        /\ builtin[n] = 0 /\ dynamic[n] = 0
        /\ Open(n, n \in conf)
        /\ dynamic' = [dynamic EXCEPT ![n] = made'[n]]
        /\ conf' = conf \cup {n}
        /\ UNCHANGED <<diskVars, bootVars, endVars, acked, exchange, jobs>>
    BY DEF EnsureOpens, Is, Missing
  <1>2. n \in Name /\ jobs[c].op \in {"use", "create", "import"}
    BY <1>1, OpIsInPlace DEF OpsAt
  <1>3. wrapper[n] # "closed"
    BY <1>1, <1>2 DEF Open, CanCreate, StoresInv, TablesInv, Wrappers
  <1>4. Opens(n, x)
    BY <1>1, <1>2, <1>3, OpenOpens DEF StoresInv
  <1>5. made'[n] \in Nat \ {0}
    BY <1>4 DEF Opens
  <1>6. /\ dynamic' \in [Name -> Nat] /\ dynamic'[n] = made'[n]
        /\ \A m \in Name \ {n} : dynamic'[m] = dynamic[m]
    BY <1>1, <1>2, <1>5 DEF StoresInv, StoresTypeOK
  <1>7. /\ Instances[n] = 0 /\ Instances'[n] = made'[n]
        /\ \A m \in Name \ {n} : Instances'[m] = Instances[m]
    BY <1>1, <1>2, <1>5, <1>6 DEF Instances
  <1>8. AliveIsListed' /\ Acknowledged'
    <2>1. x[2] = made'[n]
      OBVIOUS
    <2>. QED BY <1>1, <1>2, <1>4, <1>7, <2>1, OpenedIsListed DEF StoresInv, TablesInv
  <1>9. PICK at \in Places : /\ Moves(c, at) /\ jobs[c].op \in OpsAt(at) /\ at # "copy"
                             /\ \/ /\ n \in conf /\ at \notin {"truncate", "write"}
                                   /\ UNCHANGED <<dynMu, content, promise>>
                                \/ /\ n \notin conf /\ at = "truncate"
                                   /\ dynMu' = c
                                   /\ content' = [content EXCEPT ![c] = conf']
                                   /\ promise' = [promise EXCEPT ![n] = "none"]
    <2>1. CASE n \in conf
      <3>1. With(c, AfterEnsure(c), made'[n]) /\ UNCHANGED <<dynMu, content, promise>>
        BY <2>1 DEF EnsureOpens
      <3>. QED BY <1>2, <1>5, <2>1, <3>1, AfterEnsureIsPlace, WithMoves DEF StoresInv
    <2>2. CASE n \notin conf
      <3>1. /\ With(c, "truncate", made'[n]) /\ dynMu' = c
            /\ content' = [content EXCEPT ![c] = conf']
            /\ promise' = [promise EXCEPT ![n] = "none"]
        BY <2>2 DEF EnsureOpens
      <3>2. "truncate" \in Places /\ jobs[c].op \in OpsAt("truncate")
        BY <1>2 DEF OpsAt, Places
      <3>. QED BY <1>5, <2>2, <3>1, <3>2, WithMoves DEF StoresInv
    <2>. QED BY <2>1, <2>2
  <1>10. StoresTypeOK'
    <2>1. InstanceTypes' /\ failures' \in Nat
      BY <1>4 DEF Opens
    <2>2. doing' \in [Call -> [at : Places, no : Nat]]
      BY <1>9 DEF Moves
    <2>3. dynMu' \in Call \cup {NoCall} /\ conf' \subseteq Name
      BY <1>1, <1>2, <1>9 DEF StoresInv, StoresTypeOK
    <2>4. content' \in [Call \cup {Main} -> SUBSET Name]
      <3>1. content \in [Call \cup {Main} -> SUBSET Name] /\ conf' \in SUBSET Name
        BY <2>3 DEF StoresInv, StoresTypeOK
      <3>2. content' = content \/ content' = [content EXCEPT ![c] = conf']
        BY <1>9
      <3>. QED BY <3>1, <3>2
    <2>5. promise' \in [Name -> {"none", "kept", "gone"}]
      BY <1>9 DEF StoresInv, StoresTypeOK
    <2>. QED BY <1>1, <1>6, <2>1, <2>2, <2>3, <2>4, <2>5 DEF StoresInv, StoresTypeOK
  <1>11. FileAgrees' /\ ConfAgrees'
    <2>1. \A m \in Name : promise'[m] = promise[m] \/ promise'[m] = "none"
      BY <1>2, <1>9 DEF StoresInv, StoresTypeOK
    <2>2. n \in conf \/ promise'[n] = "none"
      BY <1>2, <1>9 DEF StoresInv, StoresTypeOK
    <2>. QED BY <1>1, <2>1, <2>2 DEF StoresInv, TablesInv, FileAgrees, ConfAgrees, Agrees
  <1>12. Restored'
    <2>1. \A m \in conf' : Instances'[m] # 0 \/ m \in unopened'
      BY <1>1, <1>2, <1>5, <1>7, UpFacts DEF StoresInv, StoresTypeOK
    <2>2. \A m \in Name : dynamic'[m] # 0 => m \in conf'
      BY <1>1, <1>6 DEF StoresInv, TablesInv, Restored
    <2>. QED BY <1>1, <2>1, <2>2, UpFacts DEF Restored
  <1>13. Wrappers'
    <2>1. \A m \in Name : wrapper'[m] = "closed" => wrapper[m] = "closed"
      BY <1>4 DEF Opens
    <2>2. wrapper'[n] # "closed"
      BY <1>2, <1>3, <2>1
    <2>. QED BY <1>1, <2>1, <2>2 DEF StoresInv, TablesInv, Wrappers
  <1>14. NotYet'
    BY <1>1, UpFacts DEF NotYet, FirstPhase
  <1>15. Phases'
    BY <1>1, <1>9, MoveKeepsPhases DEF StoresInv, CallsInv
  <1>16. Saving'
    <2>1. \A d \in Call : doing[d].at \notin {"truncate", "write"}
      BY <1>1, StoresAssumption DEF StoresInv, CallsInv, Saving
    <2>2. \A d \in Call \ {c} : doing'[d].at \notin {"truncate", "write"}
      BY <1>9, <2>1 DEF Moves
    <2>3. CASE n \in conf
      <3>1. doing'[c].at \notin {"truncate", "write"}
        BY <1>9, <2>3 DEF Moves
      <3>. QED BY <2>2, <3>1 DEF Saving
    <2>4. CASE n \notin conf
      <3>1. dynMu' = c /\ content'[c] = conf'
        BY <1>9, <2>4 DEF StoresInv, StoresTypeOK
      <3>. QED BY <1>1, <1>2, <2>2, <3>1 DEF Saving
    <2>. QED BY <2>3, <2>4
  <1>17. Copying'
    <2>1. jobs[c].op = "import" => exchange.by = c
      BY <1>1 DEF StoresInv, CallsInv, Copying
    <2>2. \A y \in DOMAIN shown : y \in DOMAIN shown' /\ shown[y] \subseteq shown'[y]
      BY <1>4 DEF Opens
    <2>. QED BY <1>1, <1>9, <2>1, <2>2, MoveKeepsCopying DEF StoresInv, CallsInv
  <1>. QED BY <1>8, <1>10, <1>11, <1>12, <1>13, <1>14, <1>15, <1>16, <1>17
           DEF StoresInv, TablesInv, CallsInv

LEMMA EnsureFailsStep ==
    ASSUME StoresInv, NEW c \in Call, EnsureFails(c), UNCHANGED jobs PROVE StoresInv'
  <1> DEFINE n == jobs[c].name
             at == IF jobs[c].op = "import" THEN "copy" ELSE "failed"
  <1> USE DEF diskVars, bootVars, tableVars, endVars, historyVars
  <1>1. /\ process = "up" /\ doing[c].at = "ensure" /\ OpenFails(n, n \in conf)
        /\ Goes(c, at)
        /\ UNCHANGED <<diskVars, bootVars, tableVars, endVars, historyVars, content, exchange, jobs>>
    BY DEF EnsureFails, Is
  <1>2. n \in Name /\ at \in Places \ {"truncate", "write"} /\ jobs[c].op \in OpsAt(at)
    BY OpIsInPlace DEF OpsAt, Places
  <1>3. /\ InstanceTypes' /\ failures' \in Nat
        /\ \A m \in Name : wrapper'[m] = "closed" => wrapper[m] = "closed"
        /\ UNCHANGED <<made, alive, shown, partial>>
    BY <1>1, <1>2, OpenFailsTypes DEF StoresInv
  <1>4. Moves(c, at)
    BY <1>1, <1>2, GoesMoves DEF StoresInv
  <1>5. StoresTypeOK'
    BY <1>1, <1>3, <1>4 DEF StoresInv, StoresTypeOK, Moves
  <1>6. TablesInv'
    <2>0. Instances' = Instances
      BY <1>1 DEF Instances
    <2>1. FileAgrees' /\ ConfAgrees' /\ NotYet'
      BY <1>1 DEF StoresInv, TablesInv, FileAgrees, ConfAgrees, Agrees, NotYet, FirstPhase
    <2>2. Restored'
      BY <1>1, <2>0 DEF StoresInv, TablesInv, Restored, FirstPhase
    <2>3. Wrappers'
      BY <1>1, <1>3 DEF StoresInv, TablesInv, Wrappers
    <2>4. AliveIsListed' /\ Acknowledged'
      BY <1>1, <1>3, <2>0 DEF StoresInv, TablesInv, AliveIsListed, Acknowledged
    <2>. QED BY <2>1, <2>2, <2>3, <2>4 DEF TablesInv
  <1>7. Phases'
    BY <1>1, <1>2, <1>4, MoveKeepsPhases DEF StoresInv, CallsInv
  <1>8. Saving'
    BY <1>1, <1>2, <1>4, MoveKeepsSaving DEF StoresInv, CallsInv
  <1>9. Copying'
    <2>1. jobs[c].op = "import" => exchange.by = c
      BY <1>1 DEF StoresInv, CallsInv, Copying
    <2>2. \A y \in DOMAIN shown : y \in DOMAIN shown' /\ shown[y] \subseteq shown'[y]
      BY <1>3
    <2>. QED BY <1>1, <1>2, <1>4, <2>1, <2>2, MoveKeepsCopying DEF StoresInv, CallsInv
  <1>. QED BY <1>5, <1>6, <1>7, <1>8, <1>9 DEF StoresInv, CallsInv

(***************************************************************************)
(* A put into an instance that is open: it is the one in the tables.       *)
(***************************************************************************)
(***************************************************************************)
(* The call puts its document into the instance it was given.              *)
(***************************************************************************)
StoresDocument(c, n, x) ==
    /\ disk' = [disk EXCEPT ![n] = @ \cup {c}]
    /\ shown' = [shown EXCEPT ![x] = @ \cup {c}]
    /\ acked' = [acked EXCEPT ![n] = @ \cup {c}]

LEMMA PutAcknowledges ==
    ASSUME StoresInv, NEW c \in Call, NEW n \in Name, NEW no \in Nat,
           IF <<n, no>> \in alive THEN StoresDocument(c, n, <<n, no>>) ELSE UNCHANGED <<disk, shown, acked>>,
           UNCHANGED <<made, alive, raw, wrapper, partial, builtin, dynamic, main>>
    PROVE  /\ InstanceTypes' /\ disk' \in [Name -> SUBSET Call] /\ acked' \in [Name -> SUBSET Call]
           /\ AliveIsListed' /\ Acknowledged'
           /\ \A y \in DOMAIN shown : y \in DOMAIN shown' /\ shown[y] \subseteq shown'[y]
  <1> DEFINE x == <<n, no>>
  <1>0. /\ InstanceTypes /\ disk \in [Name -> SUBSET Call] /\ acked \in [Name -> SUBSET Call]
        /\ AliveIsListed /\ Acknowledged
    BY DEF StoresInv, StoresTypeOK, TablesInv
  <1>i. Instances' = Instances
    BY DEF Instances
  <1>1. CASE x \notin alive
    <2>1. UNCHANGED <<disk, shown, acked>>
      BY <1>1
    <2>. QED BY <1>0, <1>i, <2>1 DEF InstanceTypes, AliveIsListed, Acknowledged
  <1>2. CASE x \in alive
    <2>1. x \in DOMAIN shown /\ Instances[n] = no /\ no # 0
      BY <1>0, <1>2 DEF AliveIsListed
    <2>2. shown \in [DOMAIN shown -> SUBSET Call]
      BY <1>0 DEF InstanceTypes
    <2>3. /\ DOMAIN shown' = DOMAIN shown /\ shown'[x] = shown[x] \cup {c}
          /\ \A y \in DOMAIN shown : y # x => shown'[y] = shown[y]
          /\ shown' \in [DOMAIN shown' -> SUBSET Call]
      BY <1>2, <2>1, <2>2 DEF StoresDocument
    <2>4. /\ disk' \in [Name -> SUBSET Call] /\ acked' \in [Name -> SUBSET Call]
          /\ disk'[n] = disk[n] \cup {c} /\ acked'[n] = acked[n] \cup {c}
          /\ \A m \in Name : m # n => disk'[m] = disk[m] /\ acked'[m] = acked[m]
      BY <1>0, <1>2 DEF StoresDocument
    <2>5. InstanceTypes'
      BY <1>0, <2>3 DEF InstanceTypes
    <2>6. AliveIsListed'
      BY <1>0, <1>i, <2>3 DEF AliveIsListed
    <2>7. Acknowledged'
      <3> SUFFICES ASSUME NEW m \in Name
                   PROVE  /\ acked'[m] \subseteq disk'[m]
                          /\ Instances[m] # 0 =>
                               /\ <<m, Instances[m]>> \in DOMAIN shown
                               /\ \/ <<m, Instances[m]>> \in partial
                                  \/ acked'[m] \subseteq shown'[<<m, Instances[m]>>]
        BY <1>i, <2>3 DEF Acknowledged
      <3>1. CASE m = n
        BY <1>0, <2>1, <2>3, <2>4, <3>1 DEF Acknowledged
      <3>2. CASE m # n
        <4>1. <<m, Instances[m]>> # x
          BY <3>2
        <4>. QED BY <1>0, <2>3, <2>4, <3>2, <4>1 DEF Acknowledged
      <3>. QED BY <3>1, <3>2
    <2>8. \A y \in DOMAIN shown : y \in DOMAIN shown' /\ shown[y] \subseteq shown'[y]
      BY <2>3
    <2>. QED BY <2>4, <2>5, <2>6, <2>7, <2>8
  <1>. QED BY <1>1, <1>2

LEMMA PutStep ==
    ASSUME StoresInv, NEW c \in Call, PutDocument(c) \/ ImportPut(c), UNCHANGED jobs
    PROVE  StoresInv'
  <1> DEFINE n == jobs[c].name
             x == <<n, doing[c].no>>
  <1> USE DEF bootVars, tableVars, endVars
  <1>1. /\ process = "up" /\ doing[c].at = "put"
        /\ UNCHANGED <<file, starts, bootVars, made, alive, raw, wrapper, partial, tableVars, endVars,
                       promise, content, exchange, failures, jobs>>
    BY DEF PutDocument, ImportPut, Is
  <1>2. n \in Name /\ doing[c].no \in Nat
    BY OpIsInPlace
  <1>3. IF x \in alive THEN StoresDocument(c, n, x) ELSE UNCHANGED <<disk, shown, acked>>
    BY DEF PutDocument, ImportPut, StoresDocument
  <1>4. /\ InstanceTypes' /\ disk' \in [Name -> SUBSET Call] /\ acked' \in [Name -> SUBSET Call]
        /\ AliveIsListed' /\ Acknowledged'
        /\ \A y \in DOMAIN shown : y \in DOMAIN shown' /\ shown[y] \subseteq shown'[y]
    BY <1>1, <1>2, <1>3, PutAcknowledges
  <1>5. PICK at \in {"done", "failed", "copy"} : Goes(c, at) /\ (at = "copy" <=> jobs[c].op = "import")
    BY DEF PutDocument, ImportPut
  <1>6. at \in Places \ {"truncate", "write"} /\ jobs[c].op \in OpsAt(at)
    BY <1>5, OpIsInPlace DEF OpsAt, Places
  <1>7. Moves(c, at)
    BY <1>5, <1>6, GoesMoves DEF StoresInv
  <1>8. StoresTypeOK'
    BY <1>1, <1>4, <1>7 DEF StoresInv, StoresTypeOK, Moves
  <1>9. FileAgrees' /\ ConfAgrees' /\ NotYet' /\ Wrappers'
    BY <1>1 DEF StoresInv, TablesInv, FileAgrees, ConfAgrees, Agrees, NotYet, FirstPhase, Wrappers
  <1>10. Restored'
    BY <1>1 DEF StoresInv, TablesInv, Restored, FirstPhase, Instances
  <1>11. Phases'
    BY <1>1, <1>6, <1>7, MoveKeepsPhases DEF StoresInv, CallsInv
  <1>12. Saving'
    BY <1>1, <1>6, <1>7, MoveKeepsSaving DEF StoresInv, CallsInv
  <1>13. Copying'
    <2>1. jobs[c].op = "import" => exchange.by = c
      BY <1>1 DEF StoresInv, CallsInv, Copying
    <2>. QED BY <1>1, <1>4, <1>5, <1>6, <1>7, <2>1, MoveKeepsCopying DEF StoresInv, CallsInv
  <1>. QED BY <1>4, <1>8, <1>9, <1>10, <1>11, <1>12, <1>13 DEF StoresInv, TablesInv, CallsInv

LEMMA DropStep ==
    ASSUME StoresInv, NEW c \in Call, DropDynamicStore(c), UNCHANGED jobs PROVE StoresInv'
  <1> DEFINE n == jobs[c].name
             x == <<n, dynamic[n]>>
  <1> USE DEF diskVars, bootVars, endVars
  <1>1. /\ process = "up" /\ doing[c].at = "drop"
        /\ builtin[n] = 0 => dynMu = NoCall
        /\ UNCHANGED <<diskVars, bootVars, endVars, acked, exchange, failures, jobs>>
    BY DEF DropDynamicStore, Is
  <1>2. n \in Name /\ jobs[c].op = "drop"
    BY <1>1, OpIsInPlace DEF OpsAt
  <1>3. CASE builtin[n] # 0 \/ dynamic[n] = 0
    <2>1. Goes(c, "failed") /\ UNCHANGED <<instanceVars, tableVars, content, promise>>
      BY <1>3 DEF DropDynamicStore
    <2>2. "failed" \in Places \ {"truncate", "write", "copy", "ensure", "put"}
          /\ jobs[c].op \in OpsAt("failed")
      BY <1>2 DEF Places, OpsAt, Operations
    <2>3. Moves(c, "failed")
      BY <2>1, <2>2, GoesMoves DEF StoresInv
    <2>. QED BY <1>1, <2>1, <2>2, <2>3, MoveAlone DEF onlyDoing, historyVars
  <1>4. CASE builtin[n] = 0 /\ dynamic[n] # 0
    <2>1. /\ CloseInstance(x)
          /\ dynamic' = [dynamic EXCEPT ![n] = 0]
          /\ conf' = conf \ {n}
          /\ dynMu' = c
          /\ content' = [content EXCEPT ![c] = conf']
          /\ promise' = [promise EXCEPT ![n] = "none"]
          /\ Goes(c, "truncate")
          /\ dynMu = NoCall
      BY <1>1, <1>4 DEF DropDynamicStore, Without
    <2>2. "truncate" \in Places /\ jobs[c].op \in OpsAt("truncate")
      BY <1>2 DEF Places, OpsAt
    <2>3. Moves(c, "truncate")
      BY <2>1, <2>2, GoesMoves DEF StoresInv
    <2>4. /\ dynamic' \in [Name -> Nat] /\ dynamic'[n] = 0
          /\ \A m \in Name \ {n} : dynamic'[m] = dynamic[m]
      BY <1>2, <2>1 DEF StoresInv, StoresTypeOK
    <2>5. /\ Instances[n] = dynamic[n] /\ Instances'[n] = 0
          /\ \A m \in Name \ {n} : Instances'[m] = Instances[m]
      BY <1>1, <1>2, <1>4, <2>4 DEF Instances
    <2>6. /\ alive' = alive \ {x} /\ UNCHANGED <<made, raw, shown, partial>>
          /\ wrapper' \in [Name -> {"none", "open", "closed"}]
          /\ \A m \in Name : wrapper'[m] = "closed" => wrapper[m] = "closed" \/ m = n
      BY <1>2, <2>1 DEF StoresInv, StoresTypeOK, InstanceTypes, CloseInstance
    <2>7. StoresTypeOK'
      <3>1. InstanceTypes'
        BY <2>6 DEF StoresInv, StoresTypeOK, InstanceTypes
      <3>2. conf' \in SUBSET Name /\ dynMu' \in Call \cup {NoCall}
        BY <2>1 DEF StoresInv, StoresTypeOK
      <3>3. /\ content' \in [Call \cup {Main} -> SUBSET Name]
            /\ promise' \in [Name -> {"none", "kept", "gone"}]
        BY <2>1, <3>2 DEF StoresInv, StoresTypeOK
      <3>. QED BY <1>1, <2>3, <2>4, <3>1, <3>2, <3>3 DEF StoresInv, StoresTypeOK, Moves
    <2>8. FileAgrees' /\ ConfAgrees'
      <3>1. promise'[n] = "none" /\ \A m \in Name \ {n} : promise'[m] = promise[m]
        BY <1>2, <2>1 DEF StoresInv, StoresTypeOK
      <3>. QED BY <1>1, <2>1, <3>1 DEF StoresInv, TablesInv, FileAgrees, ConfAgrees, Agrees
    <2>9. Restored'
      <3>1. \A m \in conf' : Instances'[m] # 0 \/ m \in unopened'
        BY <1>1, <2>1, <2>5, UpFacts DEF StoresInv, StoresTypeOK
      <3>2. \A m \in Name : dynamic'[m] # 0 => m \in conf'
        BY <2>1, <2>4 DEF StoresInv, TablesInv, Restored
      <3>. QED BY <1>1, <3>1, <3>2, UpFacts DEF Restored
    <2>10. Wrappers'
      BY <1>1, <1>4, <2>1, <2>6 DEF StoresInv, TablesInv, Wrappers
    <2>11. AliveIsListed'
      <3>1. \A y \in alive' : y \in Name \X Nat /\ y \in alive /\ y # x
        BY <2>6 DEF StoresInv, StoresTypeOK, InstanceTypes
      <3>2. \A y \in alive' : y[1] # n
        BY <2>5, <3>1 DEF StoresInv, TablesInv, AliveIsListed
      <3>3. \A y \in alive' : y[2] # 0 /\ Instances'[y[1]] = y[2]
        BY <2>5, <3>1, <3>2 DEF StoresInv, TablesInv, AliveIsListed
      <3>4. ASSUME main' = "running", NEW m \in Name, Instances'[m] # 0
            PROVE  <<m, Instances'[m]>> \in alive'
        <4>1. m # n /\ Instances'[m] = Instances[m] /\ main = "running"
          BY <1>1, <2>5, <3>4
        <4>. QED BY <2>6, <3>4, <4>1 DEF StoresInv, TablesInv, AliveIsListed
      <3>. QED BY <2>6, <3>3, <3>4 DEF StoresInv, TablesInv, AliveIsListed
    <2>12. NotYet'
      BY <1>1, UpFacts DEF NotYet, FirstPhase
    <2>13. Acknowledged'
      BY <1>1, <2>5, <2>6 DEF StoresInv, TablesInv, Acknowledged
    <2>14. Phases'
      BY <1>1, <2>2, <2>3, MoveKeepsPhases DEF StoresInv, CallsInv
    <2>15. Saving'
      <3>1. \A d \in Call : doing[d].at \notin {"truncate", "write"}
        BY <2>1, StoresAssumption DEF StoresInv, CallsInv, Saving
      <3>2. \A d \in Call \ {c} : doing'[d].at \notin {"truncate", "write"}
        BY <2>3, <3>1 DEF Moves
      <3>3. content'[c] = conf'
        BY <2>1 DEF StoresInv, StoresTypeOK
      <3>. QED BY <1>1, <1>2, <2>1, <3>2, <3>3 DEF Saving
    <2>16. Copying'
      <3>1. \A y \in DOMAIN shown : y \in DOMAIN shown' /\ shown[y] \subseteq shown'[y]
        BY <2>6
      <3>. QED BY <1>1, <1>2, <2>2, <2>3, <3>1, MoveKeepsCopying DEF StoresInv, CallsInv
    <2>. QED BY <2>7, <2>8, <2>9, <2>10, <2>11, <2>12, <2>13, <2>14, <2>15, <2>16
             DEF StoresInv, TablesInv, CallsInv
  <1>. QED BY <1>3, <1>4

LEMMA TruncateStep ==
    ASSUME StoresInv, NEW c \in Call, Truncate(c), UNCHANGED jobs PROVE StoresInv'
  <1> USE DEF bootVars, instanceVars, tableVars, endVars, historyVars
  <1>1. /\ process = "up" /\ doing[c].at = "truncate" /\ file' = Torn /\ Goes(c, "write")
        /\ UNCHANGED <<disk, starts, bootVars, instanceVars, tableVars, endVars, historyVars, content,
                       exchange, failures, jobs>>
    BY DEF Truncate, Is
  <1>2. "write" \in Places /\ jobs[c].op \in OpsAt("write")
    BY <1>1, OpIsInPlace DEF Places, OpsAt
  <1>3. Moves(c, "write")
    BY <1>1, <1>2, GoesMoves DEF StoresInv
  <1>4. StoresTypeOK'
    BY <1>1, <1>3 DEF StoresInv, StoresTypeOK, InstanceTypes, Moves, Torn
  <1>5. TablesInv'
    <2>1. FileAgrees'
      BY <1>1 DEF FileAgrees, Torn
    <2>2. ConfAgrees' /\ NotYet' /\ Wrappers'
      BY <1>1 DEF StoresInv, TablesInv, ConfAgrees, Agrees, NotYet, FirstPhase, Wrappers
    <2>3. Instances' = Instances
      BY <1>1 DEF Instances
    <2>4. Restored' /\ AliveIsListed' /\ Acknowledged'
      BY <1>1, <2>3 DEF StoresInv, TablesInv, Restored, FirstPhase, AliveIsListed, Acknowledged
    <2>. QED BY <2>1, <2>2, <2>4 DEF TablesInv
  <1>6. Phases'
    BY <1>1, <1>2, <1>3, MoveKeepsPhases DEF StoresInv, CallsInv
  <1>7. Saving'
    BY <1>1, <1>3 DEF StoresInv, CallsInv, Saving, Moves
  <1>8. Copying'
    <2>1. jobs[c].op = "import" => exchange.by = c
      BY <1>1 DEF StoresInv, CallsInv, Copying
    <2>2. \A y \in DOMAIN shown : y \in DOMAIN shown' /\ shown[y] \subseteq shown'[y]
      BY <1>1
    <2>. QED BY <1>1, <1>2, <1>3, <2>1, <2>2, MoveKeepsCopying DEF StoresInv, CallsInv
  <1>. QED BY <1>4, <1>5, <1>6, <1>7, <1>8 DEF StoresInv, CallsInv

LEMMA AfterSaveIsPlace ==
    ASSUME StoresInv, NEW c \in Call, doing[c].at \in {"truncate", "write"}
    PROVE  /\ AfterSave(c) \in Places \ {"truncate", "write", "copy", "ensure"}
           /\ jobs[c].op \in OpsAt(AfterSave(c))
  <1>1. jobs[c].op \in {"use", "create", "import", "drop"}
    BY OpIsInPlace DEF OpsAt
  <1>. QED BY <1>1, AfterEnsureIsPlace DEF AfterSave, OpsAt, Places, Operations

\* The saver whose turn it is lets go of the lock: no other was saving.
LEMMA SaverEnds ==
    ASSUME StoresInv, NEW c \in Call, doing[c].at \in {"truncate", "write"}, process = "up",
           Goes(c, AfterSave(c)), UNCHANGED <<jobs, process, endVars, shown, exchange>>
    PROVE  /\ doing' \in [Call -> [at : Places, no : Nat]]
           /\ Phases' /\ Saving' /\ Copying'
  <1>1. Moves(c, AfterSave(c))
    BY AfterSaveIsPlace, GoesMoves DEF StoresInv
  <1>2. Phases'
    BY <1>1, AfterSaveIsPlace, MoveKeepsPhases DEF StoresInv, CallsInv
  <1>3. Saving'
    <2>1. \A d \in Call \ {c} : doing[d].at \notin {"truncate", "write"}
      BY DEF StoresInv, CallsInv, Saving
    <2>. QED BY <1>1, <2>1, AfterSaveIsPlace DEF Saving, Moves
  <1>4. Copying'
    <2>1. jobs[c].op = "import" => exchange.by = c
      BY DEF StoresInv, CallsInv, Copying
    <2>2. \A y \in DOMAIN shown : y \in DOMAIN shown' /\ shown[y] \subseteq shown'[y]
      OBVIOUS
    <2>. QED BY <1>1, <2>1, <2>2, AfterSaveIsPlace, MoveKeepsCopying DEF StoresInv, CallsInv
  <1>. QED BY <1>1, <1>2, <1>3, <1>4 DEF Moves

LEMMA WrittenIsFile ==
    ASSUME NEW names \in SUBSET Name, NEW f \in Written(names)
    PROVE  /\ f \in [state : {"missing", "torn", "whole"}, names : SUBSET Name]
           /\ f.state # "torn" => f.names = names
  BY DEF Written, Whole, Torn

LEMMA WriteStep ==
    ASSUME StoresInv, NEW c \in Call, Write(c), UNCHANGED jobs PROVE StoresInv'
  <1> DEFINE n == jobs[c].name
  <1> USE DEF bootVars, instanceVars, endVars
  <1>1. /\ process = "up" /\ doing[c].at = "write"
        /\ file' \in Written(content[c])
        /\ promise' = [promise EXCEPT ![n] = IF jobs[c].op = "drop" THEN "gone" ELSE "kept"]
        /\ dynMu' = NoCall /\ content' = [content EXCEPT ![c] = {}]
        /\ Goes(c, AfterSave(c))
        /\ UNCHANGED <<disk, starts, bootVars, instanceVars, conf, dynamic, endVars, acked, exchange,
                       failures, jobs>>
    BY DEF Write, Is
  <1>2. n \in Name /\ conf \in SUBSET Name
    BY OpIsInPlace DEF StoresInv, StoresTypeOK
  <1>3. content[c] = conf /\ (n \in conf <=> jobs[c].op # "drop")
    BY <1>1 DEF StoresInv, CallsInv, Saving
  <1>4. /\ file' \in [state : {"missing", "torn", "whole"}, names : SUBSET Name]
        /\ file'.state # "torn" => file'.names = conf
    BY <1>1, <1>2, <1>3, WrittenIsFile
  <1>5. /\ doing' \in [Call -> [at : Places, no : Nat]] /\ Phases' /\ Saving' /\ Copying'
    BY <1>1, SaverEnds
  <1>6. /\ promise' \in [Name -> {"none", "kept", "gone"}]
        /\ promise'[n] = (IF jobs[c].op = "drop" THEN "gone" ELSE "kept")
        /\ \A m \in Name \ {n} : promise'[m] = promise[m]
    BY <1>1, <1>2 DEF StoresInv, StoresTypeOK
  <1>7. StoresTypeOK'
    <2>1. content' \in [Call \cup {Main} -> SUBSET Name]
      BY <1>1 DEF StoresInv, StoresTypeOK
    <2>. QED BY <1>1, <1>4, <1>5, <1>6, <2>1 DEF StoresInv, StoresTypeOK, InstanceTypes
  <1>8. TablesInv'
    <2>1. Agrees(conf)
      BY <1>1, UpFacts
    <2>2. \A m \in Name : /\ promise'[m] = "kept" => m \in conf
                          /\ promise'[m] = "gone" => m \notin conf
      BY <1>3, <1>6, <2>1 DEF Agrees
    <2>3. FileAgrees' /\ ConfAgrees'
      BY <1>1, <1>4, <2>2 DEF FileAgrees, ConfAgrees, Agrees
    <2>4. NotYet' /\ Wrappers'
      BY <1>1 DEF StoresInv, TablesInv, NotYet, FirstPhase, Wrappers
    <2>5. Instances' = Instances
      BY <1>1 DEF Instances
    <2>6. Restored' /\ AliveIsListed' /\ Acknowledged'
      BY <1>1, <2>5 DEF StoresInv, TablesInv, Restored, FirstPhase, AliveIsListed, Acknowledged
    <2>. QED BY <2>3, <2>4, <2>6 DEF TablesInv
  <1>. QED BY <1>5, <1>7, <1>8 DEF StoresInv, CallsInv

LEMMA SaveFailsStep ==
    ASSUME StoresInv, NEW c \in Call, SaveFails(c), UNCHANGED jobs PROVE StoresInv'
  <1> USE DEF diskVars, bootVars, instanceVars, endVars, historyVars
  <1>1. /\ process = "up" /\ doing[c].at \in {"truncate", "write"}
        /\ failures' = failures + 1 /\ dynMu' = NoCall /\ Goes(c, AfterSave(c))
        /\ UNCHANGED <<diskVars, bootVars, instanceVars, conf, dynamic, endVars, historyVars, content,
                       exchange, jobs>>
    BY DEF SaveFails, Is
  <1>2. /\ doing' \in [Call -> [at : Places, no : Nat]] /\ Phases' /\ Saving' /\ Copying'
    BY <1>1, SaverEnds
  <1>3. StoresTypeOK'
    BY <1>1, <1>2 DEF StoresInv, StoresTypeOK, InstanceTypes
  <1>4. TablesInv'
    BY <1>1, QuietTables DEF StoresInv, quietVars
  <1>. QED BY <1>2, <1>3, <1>4 DEF StoresInv, CallsInv

-----------------------------------------------------------------------------
(* Backups.                                                                *)

(***************************************************************************)
(* What a backup leaves alone.                                             *)
(***************************************************************************)
exchangeFrame == <<diskVars, bootVars, instanceVars, tableVars, endVars, historyVars, content,
                   failures, jobs>>

\* What a step of a backup leaves alone.
LEMMA ExchangeKeepsRest ==
    ASSUME StoresInv, process = "up", UNCHANGED exchangeFrame,
           doing' \in [Call -> [at : Places, no : Nat]],
           exchange' \in [by : Call \cup {NoCall}, left : SUBSET Name, from : [Name -> Nat],
                          has : [Name -> SUBSET Call], due : [Name -> SUBSET Call]]
    PROVE  StoresTypeOK' /\ TablesInv'
  <1> USE DEF exchangeFrame, diskVars, bootVars, instanceVars, tableVars, endVars, historyVars
  <1>1. StoresTypeOK'
    BY DEF StoresInv, StoresTypeOK, InstanceTypes
  <1>2. TablesInv'
    BY QuietTables DEF StoresInv, quietVars
  <1>. QED BY <1>1, <1>2

(***************************************************************************)
(* What an export has to contain is shown by the instance in the tables:   *)
(* the store was answered for and so is open, and it has been loaded.      *)
(***************************************************************************)
LEMMA DueIsShown ==
    ASSUME StoresInv, process = "up", NEW n \in Name, Due[n] # {}
    PROVE  /\ Instances[n] # 0
           /\ <<n, Instances[n]>> \in DOMAIN shown
           /\ Due[n] \subseteq shown[<<n, Instances[n]>>]
  <1>1. /\ promise[n] # "gone" /\ ~(promise[n] = "none" /\ builtin[n] = 0)
        /\ n \notin unopened /\ <<n, Instances[n]>> \notin partial
        /\ Due[n] = acked[n]
    BY DEF Due
  <1>2. promise[n] \in {"none", "kept", "gone"}
    BY DEF StoresInv, StoresTypeOK
  <1>3. Instances[n] # 0
    <2>1. CASE builtin[n] # 0
      BY <2>1, UpFacts
    <2>2. CASE promise[n] = "kept"
      BY <1>1, <2>2, UpFacts DEF Agrees
    <2>. QED BY <1>1, <1>2, <2>1, <2>2
  <1>. QED BY <1>1, <1>3 DEF StoresInv, TablesInv, Acknowledged

LEMMA SnapshotStep ==
    ASSUME StoresInv, NEW c \in Call, Snapshot(c), UNCHANGED jobs PROVE StoresInv'
  <1> DEFINE e == [by |-> c,
                   left |-> IF jobs[c].op = "export" THEN {n \in Name : Registry[n] # 0}
                            ELSE {jobs[c].name},
                   from |-> Registry, has |-> NoDocuments,
                   due |-> IF jobs[c].op = "export" THEN Due ELSE NoDocuments]
  <1> USE DEF diskVars, bootVars, instanceVars, tableVars, endVars, historyVars
  <1>1. /\ process = "up" /\ doing[c].at = "exchange" /\ exchange.by = NoCall
        /\ exchange' = e /\ Goes(c, "copy") /\ UNCHANGED exchangeFrame
    BY DEF Snapshot, Is, exchangeFrame
  <1>2. "copy" \in Places /\ jobs[c].op \in OpsAt("copy") /\ jobs[c].op \in {"export", "import"}
    BY <1>1, OpIsInPlace DEF Places, OpsAt
  <1>3. Moves(c, "copy")
    BY <1>1, <1>2, GoesMoves DEF StoresInv
  <1>4. /\ Registry \in [Name -> Nat] /\ Due \in [Name -> SUBSET Call]
        /\ NoDocuments \in [Name -> SUBSET Call] /\ \A n \in Name : NoDocuments[n] = {}
        /\ \A n \in Name : Registry[n] = Instances[n]
    BY DEF Registry, Instances, Due, NoDocuments, StoresInv, StoresTypeOK
  <1>5. /\ exchange'.by = c /\ exchange'.from = Registry
        /\ exchange'.left = (IF jobs[c].op = "export" THEN {n \in Name : Registry[n] # 0}
                             ELSE {jobs[c].name})
        /\ exchange'.due = (IF jobs[c].op = "export" THEN Due ELSE NoDocuments)
        /\ exchange'.has = NoDocuments
    BY <1>1
  <1>6. exchange' \in [by : Call \cup {NoCall}, left : SUBSET Name, from : [Name -> Nat],
                       has : [Name -> SUBSET Call], due : [Name -> SUBSET Call]]
    <2>1. jobs[c].name \in Name
      BY OpIsInPlace
    <2>2. (IF jobs[c].op = "export" THEN {n \in Name : Registry[n] # 0} ELSE {jobs[c].name})
             \in SUBSET Name
      BY <2>1
    <2>3. (IF jobs[c].op = "export" THEN Due ELSE NoDocuments) \in [Name -> SUBSET Call]
      BY <1>4
    <2>. QED BY <1>1, <1>4, <2>2, <2>3
  <1>7. StoresTypeOK' /\ TablesInv'
    BY <1>1, <1>3, <1>6, ExchangeKeepsRest DEF Moves
  <1>8. Phases'
    BY <1>1, <1>2, <1>3, MoveKeepsPhases DEF StoresInv, CallsInv, exchangeFrame
  <1>9. Saving'
    BY <1>1, <1>2, <1>3, MoveKeepsSaving DEF StoresInv, CallsInv, exchangeFrame
  <1>10. Copying'
    <2>1. \A d \in Call : ~(\/ doing[d].at = "copy"
                            \/ /\ jobs[d].op = "import"
                               /\ doing[d].at \in {"ensure", "put", "truncate", "write"})
      BY <1>1, StoresAssumption DEF StoresInv, CallsInv, Copying
    <2>2. \A d \in Call : doing'[d].at = "copy"
                            \/ (/\ jobs'[d].op = "import"
                                /\ doing'[d].at \in {"ensure", "put", "truncate", "write"})
                          => exchange'.by = d
      BY <1>1, <1>3, <1>5, <2>1 DEF Moves, exchangeFrame
    <2>3. jobs'[exchange'.by].op = "import" => \A n \in Name : exchange'.due[n] = {}
      BY <1>1, <1>4, <1>5 DEF exchangeFrame
    <2>4. ASSUME NEW n \in Name, exchange'.due[n] # {}
          PROVE  /\ n \in exchange'.left
                 /\ <<n, exchange'.from[n]>> \in DOMAIN shown'
                 /\ exchange'.due[n] \subseteq shown'[<<n, exchange'.from[n]>>]
      <3>1. jobs[c].op = "export" /\ exchange'.due[n] = Due[n] /\ exchange'.from[n] = Instances[n]
        BY <1>4, <1>5, <2>4
      <3>2. shown' = shown
        BY <1>1 DEF exchangeFrame
      <3>. QED BY <1>1, <1>4, <1>5, <2>4, <3>1, <3>2, DueIsShown
    <2>5. jobs'[exchange'.by].op = "export" =>
            \A n \in exchange'.left : <<n, exchange'.from[n]>> \in DOMAIN shown'
      BY <1>1, <1>4, <1>5 DEF exchangeFrame, StoresInv, TablesInv, Acknowledged
    <2>. QED BY <2>2, <2>3, <2>4, <2>5 DEF Copying
  <1>. QED BY <1>7, <1>8, <1>9, <1>10 DEF StoresInv, CallsInv

LEMMA ExportStep ==
    ASSUME StoresInv, NEW c \in Call, NEW n \in Name, ExportStore(c, n), UNCHANGED jobs
    PROVE  StoresInv'
  <1> DEFINE docs == shown[<<n, exchange.from[n]>>]
  <1> USE DEF diskVars, bootVars, instanceVars, tableVars, endVars, historyVars
  <1>1. /\ process = "up" /\ doing[c].at = "copy" /\ jobs[c].op = "export" /\ n \in exchange.left
        /\ exchange' = [exchange EXCEPT !.left = @ \ {n}, !.has[n] = docs]
        /\ UNCHANGED exchangeFrame /\ UNCHANGED doing
    BY DEF ExportStore, Is, exchangeFrame
  <1>2. exchange \in [by : Call \cup {NoCall}, left : SUBSET Name, from : [Name -> Nat],
                      has : [Name -> SUBSET Call], due : [Name -> SUBSET Call]]
    BY DEF StoresInv, StoresTypeOK
  <1>3. /\ exchange'.by = exchange.by /\ exchange'.from = exchange.from
        /\ exchange'.due = exchange.due /\ exchange'.left = exchange.left \ {n}
        /\ exchange'.has[n] = docs
        /\ \A m \in Name \ {n} : exchange'.has[m] = exchange.has[m]
    BY <1>1, <1>2
  <1>4. docs \in SUBSET Call
    <2>1. exchange.by = c
      BY <1>1 DEF StoresInv, CallsInv, Copying
    <2>2. <<n, exchange.from[n]>> \in DOMAIN shown
      BY <1>1, <2>1, StoresAssumption DEF StoresInv, CallsInv, Copying
    <2>. QED BY <2>2 DEF StoresInv, StoresTypeOK, InstanceTypes
  <1>5. exchange' \in [by : Call \cup {NoCall}, left : SUBSET Name, from : [Name -> Nat],
                       has : [Name -> SUBSET Call], due : [Name -> SUBSET Call]]
    <2>1. [exchange.has EXCEPT ![n] = docs] \in [Name -> SUBSET Call]
      BY <1>2, <1>4
    <2>2. exchange.left \ {n} \in SUBSET Name
      BY <1>2
    <2>. QED BY <1>1, <1>2, <2>1, <2>2
  <1>6. StoresTypeOK' /\ TablesInv'
    BY <1>1, <1>5, ExchangeKeepsRest DEF StoresInv, StoresTypeOK
  <1>7. Phases' /\ Saving'
    BY <1>1 DEF StoresInv, CallsInv, Phases, Saving, exchangeFrame
  <1>8. Copying'
    <2>1. ASSUME NEW m \in Name, exchange.due[m] # {}
          PROVE  IF m \in exchange'.left
                 THEN /\ <<m, exchange.from[m]>> \in DOMAIN shown
                      /\ exchange.due[m] \subseteq shown[<<m, exchange.from[m]>>]
                 ELSE exchange.due[m] \subseteq exchange'.has[m]
      <3>1. IF m \in exchange.left
            THEN /\ <<m, exchange.from[m]>> \in DOMAIN shown
                 /\ exchange.due[m] \subseteq shown[<<m, exchange.from[m]>>]
            ELSE exchange.due[m] \subseteq exchange.has[m]
        BY <2>1 DEF StoresInv, CallsInv, Copying
      <3>2. CASE m = n
        BY <1>1, <1>3, <3>1, <3>2
      <3>3. CASE m # n
        BY <1>3, <3>1, <3>3
      <3>. QED BY <3>2, <3>3
    <2>. QED BY <1>1, <1>3, <2>1 DEF StoresInv, CallsInv, Copying, exchangeFrame
  <1>. QED BY <1>6, <1>7, <1>8 DEF StoresInv, CallsInv

LEMMA ImportStep ==
    ASSUME StoresInv, NEW c \in Call, NEW n \in Name, ImportStore(c, n), UNCHANGED jobs
    PROVE  StoresInv'
  <1> USE DEF diskVars, bootVars, instanceVars, tableVars, endVars, historyVars
  <1>1. /\ process = "up" /\ doing[c].at = "copy" /\ jobs[c].op = "import"
        /\ exchange' = [exchange EXCEPT !.left = @ \ {n}]
        /\ (\E no \in Nat : With(c, "put", no)) \/ Goes(c, "ensure")
        /\ UNCHANGED exchangeFrame
    BY DEF ImportStore, Is, exchangeFrame, StoresInv, StoresTypeOK
  <1>2. exchange \in [by : Call \cup {NoCall}, left : SUBSET Name, from : [Name -> Nat],
                      has : [Name -> SUBSET Call], due : [Name -> SUBSET Call]]
    BY DEF StoresInv, StoresTypeOK
  <1>3. /\ exchange'.by = exchange.by /\ exchange'.from = exchange.from
        /\ exchange'.due = exchange.due /\ exchange'.has = exchange.has
        /\ exchange' \in [by : Call \cup {NoCall}, left : SUBSET Name, from : [Name -> Nat],
                          has : [Name -> SUBSET Call], due : [Name -> SUBSET Call]]
    <2>1. exchange.left \ {n} \in SUBSET Name
      BY <1>2
    <2>. QED BY <1>1, <1>2, <2>1
  <1>4. \A at \in {"put", "ensure"} : at \in Places \ {"truncate", "write"} /\ jobs[c].op \in OpsAt(at)
    BY <1>1 DEF Places, OpsAt
  <1>5. PICK at \in {"put", "ensure"} : Moves(c, at)
    BY <1>1, <1>4, GoesMoves, WithMoves DEF StoresInv
  <1>6. StoresTypeOK' /\ TablesInv'
    BY <1>1, <1>3, <1>5, ExchangeKeepsRest DEF Moves
  <1>7. Phases'
    BY <1>1, <1>4, <1>5, MoveKeepsPhases DEF StoresInv, CallsInv, exchangeFrame
  <1>8. Saving'
    BY <1>1, <1>4, <1>5, MoveKeepsSaving DEF StoresInv, CallsInv, exchangeFrame
  <1>9. Copying'
    <2>1. exchange.by = c
      BY <1>1 DEF StoresInv, CallsInv, Copying
    <2>2. \A m \in Name : exchange.due[m] = {}
      BY <1>1, <2>1, StoresAssumption DEF StoresInv, CallsInv, Copying
    <2>. QED BY <1>1, <1>3, <1>5, <2>1, <2>2 DEF StoresInv, CallsInv, Copying, Moves, exchangeFrame
  <1>. QED BY <1>6, <1>7, <1>8, <1>9 DEF StoresInv, CallsInv

LEMMA EndExchangeStep ==
    ASSUME StoresInv, NEW c \in Call, EndExchange(c), UNCHANGED jobs PROVE StoresInv'
  <1> USE DEF diskVars, bootVars, instanceVars, tableVars, endVars, historyVars
  <1>1. /\ process = "up" /\ doing[c].at = "copy"
        /\ exchange' = [exchange EXCEPT !.by = NoCall] /\ Goes(c, "done") /\ UNCHANGED exchangeFrame
    BY DEF EndExchange, Is, exchangeFrame
  <1>2. exchange \in [by : Call \cup {NoCall}, left : SUBSET Name, from : [Name -> Nat],
                      has : [Name -> SUBSET Call], due : [Name -> SUBSET Call]]
    BY DEF StoresInv, StoresTypeOK
  <1>3. /\ exchange'.by = NoCall /\ exchange'.left = exchange.left /\ exchange'.from = exchange.from
        /\ exchange'.due = exchange.due /\ exchange'.has = exchange.has
        /\ exchange' \in [by : Call \cup {NoCall}, left : SUBSET Name, from : [Name -> Nat],
                          has : [Name -> SUBSET Call], due : [Name -> SUBSET Call]]
    BY <1>1, <1>2
  <1>4. "done" \in Places \ {"truncate", "write"} /\ jobs[c].op \in OpsAt("done")
    BY OpIsInPlace DEF Places, OpsAt
  <1>5. Moves(c, "done")
    BY <1>1, <1>4, GoesMoves DEF StoresInv
  <1>6. StoresTypeOK' /\ TablesInv'
    BY <1>1, <1>3, <1>5, ExchangeKeepsRest DEF Moves
  <1>7. Phases'
    BY <1>1, <1>4, <1>5, MoveKeepsPhases DEF StoresInv, CallsInv, exchangeFrame
  <1>8. Saving'
    BY <1>1, <1>4, <1>5, MoveKeepsSaving DEF StoresInv, CallsInv, exchangeFrame
  <1>9. Copying'
    <2>1. exchange.by = c
      BY <1>1 DEF StoresInv, CallsInv, Copying
    <2>2. \A d \in Call : doing'[d].at = "copy"
                            \/ (/\ jobs'[d].op = "import"
                                /\ doing'[d].at \in {"ensure", "put", "truncate", "write"})
                          => FALSE
      BY <1>1, <1>5, <2>1 DEF StoresInv, CallsInv, Copying, Moves, exchangeFrame
    <2>. QED BY <1>1, <1>3, <2>2 DEF StoresInv, CallsInv, Copying, exchangeFrame
  <1>. QED BY <1>6, <1>7, <1>8, <1>9 DEF StoresInv, CallsInv

-----------------------------------------------------------------------------
(* Start.                                                                  *)

\* The calls and the backup are as they were, and no config is being saved.
(***************************************************************************)
(* What the start of the node leaves alone.                                *)
(***************************************************************************)
bootFrame == <<doing, content, exchange, jobs, killer, main, dynMu, acked, promise, file, disk>>

LEMMA BootKeepsCalls ==
    ASSUME StoresInv, process # "up", UNCHANGED bootFrame,
           \A y \in DOMAIN shown : y \in DOMAIN shown' /\ shown[y] \subseteq shown'[y]
    PROVE  CallsInv'
  <1>1. Phases'
    BY DEF StoresInv, CallsInv, Phases, bootFrame
  <1>2. Saving'
    BY DEF StoresInv, CallsInv, Phases, Saving, bootFrame
  <1>3. Copying'
    BY DEF StoresInv, CallsInv, Copying, bootFrame
  <1>. QED BY <1>1, <1>2, <1>3 DEF CallsInv

LEMMA LoadConfigStep ==
    ASSUME StoresInv, LoadConfig, UNCHANGED jobs PROVE StoresInv'
  <1> USE DEF instanceVars, endVars, historyVars
  <1>1. /\ process = "down" /\ file.state # "torn" /\ starts' = starts + 1
        /\ process' = "booting" /\ opening' = 1 /\ conf' = file.names
        /\ UNCHANGED <<file, disk, toRestore, builtin, unopened, instanceVars, dynamic, dynMu,
                       endVars, historyVars, doing, content, exchange, failures, jobs>>
    BY DEF LoadConfig
  <1>2. StoresTypeOK'
    <2>1. conf' \in SUBSET Name
      BY <1>1 DEF StoresInv, StoresTypeOK
    <2>. QED BY <1>1, <2>1 DEF StoresInv, StoresTypeOK, InstanceTypes
  <1>3. FirstPhase' /\ \A n \in Name : builtin[n] = 0 /\ dynamic[n] = 0 /\ wrapper[n] # "closed"
    <2>1. 1 <= Len(Builtin)
      BY BuiltinAssumption
    <2>. QED BY <1>1, <2>1 DEF FirstPhase, StoresInv, TablesInv, NotYet, Wrappers
  <1>4. Instances' = Instances /\ toRestore' = {}
    BY <1>1 DEF Instances, StoresInv, TablesInv, NotYet
  <1>5. FileAgrees' /\ ConfAgrees'
    BY <1>1 DEF StoresInv, TablesInv, FileAgrees, ConfAgrees, Agrees
  <1>6. Restored' /\ Wrappers'
    BY <1>1, <1>3, <1>4 DEF Restored, Wrappers
  <1>7. AliveIsListed' /\ Acknowledged'
    BY <1>1, <1>4 DEF StoresInv, TablesInv, AliveIsListed, Acknowledged
  <1>8. NotYet'
    <2>1. \A j \in DOMAIN Builtin : Builtin[j] \in Name
      BY BuiltinAssumption
    <2>. QED BY <1>1, <1>3, <1>4, <2>1 DEF NotYet
  <1>9. CallsInv'
    BY <1>1, BootKeepsCalls DEF bootFrame
  <1>. QED BY <1>2, <1>5, <1>6, <1>7, <1>8, <1>9 DEF StoresInv, TablesInv

LEMMA OpenBuiltinStep ==
    ASSUME StoresInv, OpenBuiltin, UNCHANGED jobs PROVE StoresInv'
  <1> DEFINE n == Builtin[opening]
             x == <<n, made'[n]>>
  <1> USE DEF diskVars, tableVars, endVars, historyVars
  <1>1. /\ process = "booting" /\ opening <= Len(Builtin) /\ opening' = opening + 1
        /\ toRestore' = (IF opening = Len(Builtin) THEN conf ELSE {})
        /\ UNCHANGED <<diskVars, process, tableVars, endVars, historyVars, doing, content, exchange, jobs>>
    BY DEF OpenBuiltin
  <1>2. /\ n \in Name /\ opening \in Nat \ {0} /\ Len(Builtin) \in Nat
        /\ DOMAIN Builtin = 1 .. Len(Builtin) /\ opening \in DOMAIN Builtin
        /\ \A j \in DOMAIN Builtin : Builtin[j] \in Name
    BY <1>1, BuiltinAssumption DEF StoresInv, StoresTypeOK
  <1>3. /\ FirstPhase /\ \A m \in Name : dynamic[m] = 0 /\ wrapper[m] # "closed"
        /\ \A j \in DOMAIN Builtin : j >= opening => builtin[Builtin[j]] = 0
    BY <1>1 DEF FirstPhase, StoresInv, TablesInv, NotYet, Wrappers
  <1>4. builtin \in [Name -> Nat] /\ dynamic \in [Name -> Nat]
    BY DEF StoresInv, StoresTypeOK
  <1>5. builtin[n] = 0 /\ Instances[n] = 0
    BY <1>2, <1>3 DEF Instances
  <1>6. /\ InstanceTypes' /\ failures' \in Nat
        /\ \A m \in Name : wrapper'[m] = "closed" => wrapper[m] = "closed"
        /\ \A y \in DOMAIN shown : y \in DOMAIN shown' /\ shown[y] \subseteq shown'[y]
        /\ builtin' \in [Name -> Nat] /\ unopened' \subseteq Name /\ unopened \subseteq unopened'
        /\ \A m \in Name \ {n} : builtin'[m] = builtin[m]
        /\ AliveIsListed' /\ Acknowledged'
    <2>1. CASE Open(n, HasAddress) /\ builtin' = [builtin EXCEPT ![n] = made'[n]] /\ UNCHANGED unopened
      <3>1. Opens(n, x)
        BY <1>2, <1>3, <2>1, OpenOpens DEF StoresInv
      <3>2. made'[n] \in Nat \ {0}
        BY <3>1 DEF Opens
      <3>3. /\ builtin' \in [Name -> Nat] /\ builtin'[n] = made'[n]
            /\ \A m \in Name \ {n} : builtin'[m] = builtin[m]
        BY <1>2, <1>4, <2>1, <3>2
      <3>4. Instances'[n] = x[2] /\ \A m \in Name \ {n} : Instances'[m] = Instances[m]
        BY <1>1, <1>2, <1>3, <3>3 DEF Instances
      <3>5. AliveIsListed' /\ Acknowledged'
        BY <1>1, <1>2, <1>5, <3>1, <3>4, OpenedIsListed DEF StoresInv, TablesInv
      <3>. QED BY <2>1, <3>1, <3>3, <3>5 DEF Opens, StoresInv, StoresTypeOK
    <2>2. CASE OpenFails(n, HasAddress) /\ unopened' = unopened \cup {n} /\ UNCHANGED builtin
      <3>1. /\ InstanceTypes' /\ failures' \in Nat
            /\ \A m \in Name : wrapper'[m] = "closed" => wrapper[m] = "closed"
            /\ UNCHANGED <<made, alive, shown, partial>>
        BY <1>2, <2>2, OpenFailsTypes DEF StoresInv
      <3>2. Instances' = Instances
        BY <1>1, <2>2 DEF Instances
      <3>3. AliveIsListed' /\ Acknowledged'
        BY <1>1, <3>1, <3>2 DEF StoresInv, TablesInv, AliveIsListed, Acknowledged
      <3>. QED BY <1>2, <1>4, <2>2, <3>1, <3>3 DEF StoresInv, StoresTypeOK
    <2>. QED BY <2>1, <2>2 DEF OpenBuiltin
  <1>7. StoresTypeOK'
    <2>1. opening \in Nat \ {0} /\ conf \subseteq Name /\ opening' = opening + 1
      BY <1>1 DEF StoresInv, StoresTypeOK
    <2>2. opening' \in Nat \ {0}
      BY <2>1
    <2>3. toRestore' \subseteq Name
      BY <1>1, <2>1
    <2>. QED BY <1>1, <1>6, <2>2, <2>3 DEF StoresInv, StoresTypeOK
  <1>8. FileAgrees' /\ ConfAgrees'
    BY <1>1 DEF StoresInv, TablesInv, FileAgrees, ConfAgrees, Agrees
  <1>9. Restored'
    <2>1. FirstPhase' \/ toRestore' = conf
      <3>1. CASE opening = Len(Builtin)
        BY <1>1, <3>1
      <3>2. CASE opening # Len(Builtin)
        <4>0. opening \in Nat /\ Len(Builtin) \in Nat /\ opening <= Len(Builtin)
          BY <1>1, <1>2
        <4>1. opening + 1 <= Len(Builtin)
          BY <3>2, <4>0
        <4>. QED BY <1>1, <4>1 DEF FirstPhase
      <3>. QED BY <3>1, <3>2
    <2>. QED BY <1>1, <1>3, <2>1 DEF Restored
  <1>10. Wrappers'
    BY <1>3, <1>6 DEF Wrappers
  <1>11. NotYet'
    <2>1. ASSUME NEW j \in DOMAIN Builtin, j >= opening + 1 PROVE builtin'[Builtin[j]] = 0
      <3>1. j # opening /\ j >= opening
        BY <1>2, <2>1
      <3>2. Builtin[j] # n /\ Builtin[j] \in Name
        BY <1>2, <3>1, BuiltinAssumption
      <3>. QED BY <1>3, <1>6, <3>1, <3>2
    <2>2. toRestore' \subseteq Name /\ dynamic' = dynamic
      BY <1>1, <1>7 DEF StoresTypeOK
    <2>. QED BY <1>1, <1>3, <2>1, <2>2 DEF NotYet, FirstPhase
  <1>12. CallsInv'
    BY <1>1, <1>6, BootKeepsCalls DEF bootFrame
  <1>. QED BY <1>6, <1>7, <1>8, <1>9, <1>10, <1>11, <1>12 DEF StoresInv, TablesInv

LEMMA RestoreStep ==
    ASSUME StoresInv, NEW n \in Name, Restore(n), UNCHANGED jobs PROVE StoresInv'
  <1> DEFINE x == <<n, made'[n]>>
  <1> USE DEF diskVars, endVars, historyVars
  <1>1. /\ process = "booting" /\ ~FirstPhase /\ n \in toRestore /\ toRestore' = toRestore \ {n}
        /\ UNCHANGED <<diskVars, process, opening, builtin, conf, dynMu, endVars, historyVars,
                       doing, content, exchange, jobs>>
    BY DEF Restore, FirstPhase, StoresInv, StoresTypeOK, BuiltinAssumption
  <1>2. /\ \A m \in Name : wrapper[m] # "closed"
        /\ toRestore \subseteq conf
        /\ \A m \in conf : m \in toRestore \/ Instances[m] # 0 \/ m \in unopened
        /\ \A m \in Name : dynamic[m] # 0 => m \in conf
    BY <1>1 DEF StoresInv, TablesInv, Wrappers, Restored
  <1>3. builtin \in [Name -> Nat] /\ dynamic \in [Name -> Nat] /\ unopened \subseteq Name
    BY DEF StoresInv, StoresTypeOK
  <1>4. /\ InstanceTypes' /\ failures' \in Nat
        /\ \A m \in Name : wrapper'[m] = "closed" => wrapper[m] = "closed"
        /\ \A y \in DOMAIN shown : y \in DOMAIN shown' /\ shown[y] \subseteq shown'[y]
        /\ dynamic' \in [Name -> Nat] /\ unopened' \subseteq Name
        /\ Instances'[n] # 0 \/ n \in unopened'
        /\ \A m \in Name \ {n} : /\ dynamic'[m] = dynamic[m] /\ Instances'[m] = Instances[m]
                                 /\ m \in unopened => m \in unopened'
        /\ AliveIsListed' /\ Acknowledged'
    <2>1. CASE builtin[n] # 0 /\ UNCHANGED <<instanceVars, dynamic, unopened, failures>>
      <3>1. Instances' = Instances /\ Instances[n] # 0
        BY <1>1, <1>3, <2>1 DEF Instances
      <3>2. AliveIsListed' /\ Acknowledged'
        BY <1>1, <2>1, <3>1 DEF StoresInv, TablesInv, AliveIsListed, Acknowledged, instanceVars
      <3>. QED BY <2>1, <3>1, <3>2 DEF instanceVars, StoresInv, StoresTypeOK, InstanceTypes
    <2>2. CASE /\ builtin[n] = 0 /\ OpenFails(n, TRUE) /\ unopened' = unopened \cup {n}
               /\ UNCHANGED dynamic
      <3>1. /\ InstanceTypes' /\ failures' \in Nat
            /\ \A m \in Name : wrapper'[m] = "closed" => wrapper[m] = "closed"
            /\ UNCHANGED <<made, alive, shown, partial>>
        BY <2>2, OpenFailsTypes DEF StoresInv
      <3>2. Instances' = Instances
        BY <1>1, <2>2 DEF Instances
      <3>3. AliveIsListed' /\ Acknowledged'
        BY <1>1, <3>1, <3>2 DEF StoresInv, TablesInv, AliveIsListed, Acknowledged
      <3>. QED BY <1>3, <2>2, <3>1, <3>2, <3>3
    <2>3. CASE /\ builtin[n] = 0 /\ Open(n, TRUE) /\ dynamic' = [dynamic EXCEPT ![n] = made'[n]]
               /\ unopened' = unopened \ {n}
      <3>1. Instances[n] = 0
        BY <1>1, <2>3 DEF Instances, StoresInv, TablesInv, NotYet
      <3>2. Opens(n, x)
        BY <1>2, <2>3, OpenOpens DEF StoresInv
      <3>3. made'[n] \in Nat \ {0}
        BY <3>2 DEF Opens
      <3>4. /\ dynamic' \in [Name -> Nat] /\ dynamic'[n] = made'[n]
            /\ \A m \in Name \ {n} : dynamic'[m] = dynamic[m]
        BY <1>3, <2>3, <3>3
      <3>5. Instances'[n] = x[2] /\ \A m \in Name \ {n} : Instances'[m] = Instances[m]
        BY <1>1, <3>3, <3>4 DEF Instances
      <3>6. AliveIsListed' /\ Acknowledged'
        BY <1>1, <3>1, <3>2, <3>5, OpenedIsListed DEF StoresInv, TablesInv
      <3>. QED BY <1>3, <2>3, <3>2, <3>3, <3>4, <3>5, <3>6 DEF Opens
    <2>. QED BY <2>1, <2>2, <2>3 DEF Restore
  <1>5. StoresTypeOK'
    BY <1>1, <1>4 DEF StoresInv, StoresTypeOK
  <1>6. FileAgrees' /\ ConfAgrees'
    BY <1>1 DEF StoresInv, TablesInv, FileAgrees, ConfAgrees, Agrees
  <1>7. Restored'
    <2>1. \A m \in conf : m \in toRestore' \/ Instances'[m] # 0 \/ m \in unopened'
      BY <1>1, <1>2, <1>4 DEF StoresInv, StoresTypeOK
    <2>2. \A m \in Name : dynamic'[m] # 0 => m \in conf
      BY <1>1, <1>2, <1>4
    <2>. QED BY <1>1, <1>2, <2>1, <2>2 DEF Restored
  <1>8. Wrappers'
    BY <1>2, <1>4 DEF Wrappers
  <1>9. NotYet'
    BY <1>1, <1>4 DEF NotYet, FirstPhase, StoresInv, StoresTypeOK, TablesInv
  <1>10. CallsInv'
    BY <1>1, <1>4, BootKeepsCalls DEF bootFrame
  <1>. QED BY <1>4, <1>5, <1>6, <1>7, <1>8, <1>9, <1>10 DEF StoresInv, TablesInv

LEMMA ServeStep ==
    ASSUME StoresInv, Serve, UNCHANGED jobs PROVE StoresInv'
  <1> USE DEF diskVars, instanceVars, tableVars, endVars, historyVars
  <1>1. /\ process = "booting" /\ ~FirstPhase /\ toRestore = {} /\ process' = "up"
        /\ UNCHANGED <<diskVars, opening, toRestore, builtin, unopened, instanceVars, tableVars,
                       endVars, historyVars, doing, content, exchange, failures, jobs>>
    BY BuiltinAssumption DEF Serve, FirstPhase, StoresInv, StoresTypeOK
  <1>2. StoresTypeOK'
    BY <1>1 DEF StoresInv, StoresTypeOK, InstanceTypes
  <1>3. FileAgrees' /\ ConfAgrees'
    BY <1>1 DEF StoresInv, TablesInv, FileAgrees, ConfAgrees, Agrees
  <1>4. Instances' = Instances
    BY <1>1 DEF Instances
  <1>5. Restored'
    BY <1>1, <1>4 DEF StoresInv, TablesInv, Restored
  <1>6. Wrappers' /\ NotYet'
    BY <1>1 DEF StoresInv, TablesInv, Wrappers, NotYet, FirstPhase
  <1>7. AliveIsListed' /\ Acknowledged'
    BY <1>1, <1>4 DEF StoresInv, TablesInv, AliveIsListed, Acknowledged
  <1>8. CallsInv'
    <2>1. \A y \in DOMAIN shown : y \in DOMAIN shown' /\ shown[y] \subseteq shown'[y]
      BY <1>1
    <2>. QED BY <1>1, <2>1, BootKeepsCalls DEF bootFrame
  <1>. QED BY <1>2, <1>3, <1>5, <1>6, <1>7, <1>8 DEF StoresInv, TablesInv

-----------------------------------------------------------------------------
(* The end of the process.                                                 *)

LEMMA NothingIsType ==
    /\ NoInstances \in [Name -> Nat] /\ \A n \in Name : NoInstances[n] = 0
    /\ NoDocuments \in [Name -> SUBSET Call] /\ \A n \in Name : NoDocuments[n] = {}
    /\ NoExchange \in [by : Call \cup {NoCall}, left : SUBSET Name, from : [Name -> Nat],
                       has : [Name -> SUBSET Call], due : [Name -> SUBSET Call]]
    /\ NoExchange.by = NoCall /\ NoExchange.left = {}
    /\ \A n \in Name : NoExchange.due[n] = {}
  <1>1. /\ NoInstances \in [Name -> Nat] /\ \A n \in Name : NoInstances[n] = 0
        /\ NoDocuments \in [Name -> SUBSET Call] /\ \A n \in Name : NoDocuments[n] = {}
    BY DEF NoInstances, NoDocuments
  <1>. QED BY <1>1 DEF NoExchange

LEMMA NothingShown ==
    <<>> \in [DOMAIN <<>> -> SUBSET Call] /\ DOMAIN <<>> = {}
  OBVIOUS

LEMMA GoneStep ==
    ASSUME StoresInv, Gone, UNCHANGED jobs PROVE StoresInv'
  <1> USE DEF diskVars, historyVars
  <1>1. /\ process' = "down" /\ opening' = 1 /\ toRestore' = {} /\ unopened' = {}
        /\ builtin' = NoInstances /\ dynamic' = NoInstances
        /\ alive' = {} /\ raw' = {} /\ partial' = {}
        /\ wrapper' = [n \in Name |-> "none"]
        /\ dynMu' = NoCall /\ exchange' = NoExchange
        /\ main' = "running" /\ killer' = "waiting"
        /\ content' = [s \in DOMAIN content |-> {}]
        /\ shown' = <<>> /\ conf' = {}
        /\ UNCHANGED <<diskVars, made, historyVars, failures, jobs>>
    BY DEF Gone
  <1>2. /\ doing' \in [Call -> [at : Places, no : Nat]]
        /\ \A c \in Call : doing'[c].at \in {"idle", "done", "failed"}
    <2>1. doing' = [c \in Call |-> IF doing[c].at \in {"idle", "done"} THEN doing[c]
                                  ELSE Finished("failed")]
      BY DEF Gone
    <2>2. Finished("failed") \in [at : Places, no : Nat] /\ Finished("failed").at = "failed"
      BY DEF Finished, NotCalled, Places
    <2>. QED BY <2>1, <2>2 DEF StoresInv, StoresTypeOK
  <1>3. StoresTypeOK'
    <2>1. InstanceTypes'
      BY <1>1, NothingShown DEF StoresInv, StoresTypeOK, InstanceTypes
    <2>. QED BY <1>1, <1>2, <2>1, NothingIsType DEF StoresInv, StoresTypeOK
  <1>4. \A n \in Name : builtin'[n] = 0 /\ dynamic'[n] = 0 /\ Instances'[n] = 0
    BY <1>1, NothingIsType DEF Instances
  <1>5. FileAgrees' /\ ConfAgrees'
    BY <1>1 DEF StoresInv, TablesInv, FileAgrees, ConfAgrees, Agrees
  <1>6. Restored' /\ Wrappers' /\ NotYet'
    BY <1>1, <1>4 DEF Restored, Wrappers, NotYet, FirstPhase
  <1>7. AliveIsListed' /\ Acknowledged'
    BY <1>1, <1>4 DEF StoresInv, TablesInv, AliveIsListed, Acknowledged
  <1>8. Phases'
    BY <1>1, <1>2, OpIsInPlace DEF Phases, OpsAt
  <1>9. Saving'
    BY <1>2 DEF Saving
  <1>10. Copying'
    BY <1>1, <1>2, NothingIsType DEF Copying
  <1>. QED BY <1>3, <1>5, <1>6, <1>7, <1>8, <1>9, <1>10 DEF StoresInv, TablesInv, CallsInv

\* The shutdown leaves the calls, the tables and what was shown alone.
(***************************************************************************)
(* What the shutdown leaves alone.                                         *)
(***************************************************************************)
shutdownFrame == <<disk, starts, bootVars, tableVars, acked, doing, exchange, failures, jobs, made, raw,
                   shown, partial>>

LEMMA ShutdownKeeps ==
    ASSUME StoresInv, process = "up", UNCHANGED shutdownFrame,
           main' \in {"marshal", "truncate", "write", "close", "returned"} \/ UNCHANGED main,
           killer' = "waiting" \/ main' # "running",
           \A c \in Call : content'[c] = content[c],
           \/ UNCHANGED <<alive, wrapper>>
           \/ main' # "running" /\ alive' = {} /\ wrapper' = [n \in Name |-> "none"]
    PROVE  /\ InstanceTypes' /\ CallsInv'
           /\ Restored' /\ Wrappers' /\ AliveIsListed' /\ NotYet' /\ Acknowledged'
  <1> USE DEF shutdownFrame, bootVars, tableVars
  <1>1. InstanceTypes'
    BY DEF StoresInv, StoresTypeOK, InstanceTypes
  <1>2. Instances' = Instances
    BY DEF Instances
  <1>3. CallsInv'
    BY DEF StoresInv, CallsInv, Phases, Saving, Copying
  <1>4. Restored' /\ NotYet' /\ Wrappers'
    BY <1>2 DEF StoresInv, TablesInv, Restored, NotYet, Wrappers, FirstPhase
  <1>5. AliveIsListed' /\ Acknowledged'
    BY <1>2 DEF StoresInv, TablesInv, AliveIsListed, Acknowledged
  <1>. QED BY <1>1, <1>3, <1>4, <1>5

LEMMA ShutdownStep ==
    ASSUME StoresInv, UNCHANGED jobs,
           Signal \/ MainMarshals \/ MainTruncates \/ MainWrites \/ MainCloses \/ HandleShutdown
    PROVE  StoresInv'
  <1> USE DEF shutdownFrame, diskVars, bootVars, tableVars, instanceVars, historyVars, EndUnchanged, Ends
  <1>1. StoresTypeOK /\ FileAgrees /\ ConfAgrees
    BY DEF StoresInv, TablesInv
  <1>2. CASE Signal
    <2>1. /\ InstanceTypes' /\ CallsInv'
          /\ Restored' /\ Wrappers' /\ AliveIsListed' /\ NotYet' /\ Acknowledged'
      BY <1>2, ShutdownKeeps DEF Signal
    <2>2. StoresTypeOK' /\ FileAgrees' /\ ConfAgrees'
      BY <1>1, <1>2, <2>1 DEF Signal, StoresTypeOK, FileAgrees, ConfAgrees, Agrees
    <2>. QED BY <2>1, <2>2 DEF StoresInv, TablesInv
  <1>3. CASE MainMarshals
    <2>1. /\ content' \in [Call \cup {Main} -> SUBSET Name]
          /\ \A c \in Call : content'[c] = content[c]
      BY <1>1, <1>3, StoresAssumption DEF MainMarshals, StoresTypeOK
    <2>2. /\ InstanceTypes' /\ CallsInv'
          /\ Restored' /\ Wrappers' /\ AliveIsListed' /\ NotYet' /\ Acknowledged'
      BY <1>3, <2>1, ShutdownKeeps DEF MainMarshals, StoresInv, CallsInv, Phases
    <2>3. StoresTypeOK' /\ FileAgrees' /\ ConfAgrees'
      BY <1>1, <1>3, <2>1, <2>2 DEF MainMarshals, StoresTypeOK, FileAgrees, ConfAgrees, Agrees
    <2>. QED BY <2>2, <2>3 DEF StoresInv, TablesInv
  <1>4. CASE MainTruncates
    <2>1. /\ InstanceTypes' /\ CallsInv'
          /\ Restored' /\ Wrappers' /\ AliveIsListed' /\ NotYet' /\ Acknowledged'
      BY <1>4, ShutdownKeeps DEF MainTruncates
    <2>2. StoresTypeOK' /\ FileAgrees' /\ ConfAgrees'
      BY <1>1, <1>4, <2>1 DEF MainTruncates, Torn, StoresTypeOK, FileAgrees, ConfAgrees, Agrees
    <2>. QED BY <2>1, <2>2 DEF StoresInv, TablesInv
  <1>5. CASE MainWrites
    <2>1. /\ InstanceTypes' /\ CallsInv'
          /\ Restored' /\ Wrappers' /\ AliveIsListed' /\ NotYet' /\ Acknowledged'
      BY <1>5, ShutdownKeeps DEF MainWrites
    <2>2. /\ file' \in [state : {"missing", "torn", "whole"}, names : SUBSET Name]
          /\ file'.state # "torn" => file'.names = content[Main]
      <3>1. content[Main] \in SUBSET Name
        BY <1>1 DEF StoresTypeOK
      <3>. QED BY <1>5, <3>1, WrittenIsFile DEF MainWrites
    <2>3. \A n \in Name : promise'[n] = (IF n \in Outdated THEN "none" ELSE promise[n])
      BY <1>5 DEF MainWrites
    <2>4. promise' \in [Name -> {"none", "kept", "gone"}]
      BY <1>1, <1>5 DEF MainWrites, StoresTypeOK
    <2>5. Agrees(conf)
      BY <1>5, UpFacts DEF MainWrites
    <2>6. FileAgrees' /\ ConfAgrees'
      BY <1>5, <2>2, <2>3, <2>5 DEF MainWrites, Outdated, FileAgrees, ConfAgrees, Agrees
    <2>7. StoresTypeOK'
      BY <1>1, <1>5, <2>1, <2>2, <2>4 DEF MainWrites, StoresTypeOK
    <2>. QED BY <2>1, <2>6, <2>7 DEF StoresInv, TablesInv
  <1>6. CASE MainCloses
    <2>1. /\ InstanceTypes' /\ CallsInv'
          /\ Restored' /\ Wrappers' /\ AliveIsListed' /\ NotYet' /\ Acknowledged'
      BY <1>6, ShutdownKeeps DEF MainCloses, CloseOrbit
    <2>2. StoresTypeOK' /\ FileAgrees' /\ ConfAgrees'
      BY <1>1, <1>6, <2>1 DEF MainCloses, CloseOrbit, StoresTypeOK, FileAgrees, ConfAgrees, Agrees
    <2>. QED BY <2>1, <2>2 DEF StoresInv, TablesInv
  <1>7. CASE HandleShutdown
    <2>0. main # "running"
      BY <1>7 DEF HandleShutdown, StoresInv, CallsInv, Phases
    <2>1. /\ InstanceTypes' /\ CallsInv'
          /\ Restored' /\ Wrappers' /\ AliveIsListed' /\ NotYet' /\ Acknowledged'
      BY <1>7, <2>0, ShutdownKeeps DEF HandleShutdown, CloseOrbit
    <2>2. StoresTypeOK' /\ FileAgrees' /\ ConfAgrees'
      BY <1>1, <1>7, <2>1 DEF HandleShutdown, CloseOrbit, StoresTypeOK, FileAgrees, ConfAgrees, Agrees
    <2>. QED BY <2>1, <2>2 DEF StoresInv, TablesInv
  <1>. QED BY <1>2, <1>3, <1>4, <1>5, <1>6, <1>7

-----------------------------------------------------------------------------

LEMMA StoresInitInv == StoresInit => StoresInv
  <1> SUFFICES ASSUME StoresInit PROVE StoresInv
    OBVIOUS
  <1> USE DEF StoresInit
  <1>1. \A c \in Call : doing[c].at = "idle"
    BY DEF NotCalled
  <1>2. \A n \in Name : builtin[n] = 0 /\ dynamic[n] = 0 /\ Instances[n] = 0
    BY NothingIsType DEF Instances
  <1>3. StoresTypeOK
    <2>1. InstanceTypes
      BY NothingIsType, NothingShown DEF InstanceTypes
    <2>2. jobs \in [Call -> [op : Operations, name : Name]]
      BY JobsAssumption
    <2>3. doing \in [Call -> [at : Places, no : Nat]]
      BY DEF NotCalled, Places
    <2>4. /\ disk \in [Name -> SUBSET Call] /\ acked \in [Name -> SUBSET Call]
          /\ promise \in [Name -> {"none", "kept", "gone"}]
          /\ content \in [Call \cup {Main} -> SUBSET Name]
      OBVIOUS
    <2>. QED BY <2>1, <2>2, <2>3, <2>4, NothingIsType DEF StoresTypeOK
  <1>4. FileAgrees /\ ConfAgrees
    BY DEF FileAgrees, ConfAgrees, Agrees
  <1>5. Restored /\ Wrappers /\ NotYet
    BY <1>2 DEF Restored, Wrappers, NotYet, FirstPhase
  <1>6. AliveIsListed /\ Acknowledged
    BY <1>2 DEF AliveIsListed, Acknowledged
  <1>7. Phases
    BY <1>1, <1>3 DEF Phases, OpsAt, StoresTypeOK
  <1>8. Saving
    BY <1>1 DEF Saving
  <1>9. Copying
    BY <1>1, NothingIsType DEF Copying
  <1>. QED BY <1>3, <1>4, <1>5, <1>6, <1>7, <1>8, <1>9 DEF StoresInv, TablesInv, CallsInv

LEMMA StoresStep == StoresInv /\ [StoresNext]_storesVars => StoresInv'
  <1> SUFFICES ASSUME StoresInv, [StoresNext]_storesVars PROVE StoresInv'
    OBVIOUS
  <1>1. CASE UNCHANGED storesVars
    <2> USE <1>1 DEF storesVars, diskVars, bootVars, instanceVars, tableVars, endVars, historyVars
    <2>1. StoresTypeOK'
      BY DEF StoresInv, StoresTypeOK, InstanceTypes
    <2>2. TablesInv'
      BY QuietTables DEF StoresInv, quietVars
    <2>3. CallsInv'
      BY DEF StoresInv, CallsInv, Phases, Saving, Copying
    <2>. QED BY <2>1, <2>2, <2>3 DEF StoresInv
  <1>2. CASE StoresNext
    <2>1. UNCHANGED jobs
      BY <1>2 DEF StoresNext
    <2>2. CASE LoadConfig \/ OpenBuiltin \/ Serve
      BY <2>1, <2>2, LoadConfigStep, OpenBuiltinStep, ServeStep
    <2>3. ASSUME NEW n \in Name, Restore(n) PROVE StoresInv'
      BY <2>1, <2>3, RestoreStep
    <2>4. ASSUME NEW c \in Call, Invoke(c) \/ CallStep(c) PROVE StoresInv'
      <3>1. CASE Invoke(c)
        BY <2>1, <3>1, InvokeStep
      <3>2. CASE ResolveDocStore(c) \/ EnsureFinds(c)
        BY <2>1, <3>2, ResolveStep, EnsureFindsStep
      <3>3. CASE EnsureOpens(c) \/ EnsureFails(c)
        BY <2>1, <3>3, EnsureOpensStep, EnsureFailsStep
      <3>4. CASE PutDocument(c) \/ ImportPut(c)
        BY <2>1, <3>4, PutStep
      <3>5. CASE DropDynamicStore(c)
        BY <2>1, <3>5, DropStep
      <3>6. CASE Truncate(c) \/ Write(c) \/ SaveFails(c)
        BY <2>1, <3>6, TruncateStep, WriteStep, SaveFailsStep
      <3>7. CASE Snapshot(c) \/ EndExchange(c)
        BY <2>1, <3>7, SnapshotStep, EndExchangeStep
      <3>8. CASE \E n \in Name : ExportStore(c, n) \/ ImportStore(c, n)
        BY <2>1, <3>8, ExportStep, ImportStep
      <3>. QED BY <2>4, <3>1, <3>2, <3>3, <3>4, <3>5, <3>6, <3>7, <3>8 DEF CallStep
    <2>5. CASE EndStep
      BY <2>1, <2>5, GoneStep, ShutdownStep DEF EndStep, Crash, Exit
    <2>. QED BY <1>2, <2>2, <2>3, <2>4, <2>5 DEF StoresNext
  <1>. QED BY <1>1, <1>2

LEMMA StoresInvariant == StoresSpec => []StoresInv
  BY StoresInitInv, StoresStep, PTL DEF StoresSpec

(***************************************************************************)
(* The types of the stores, for any names, calls and failures.             *)
(***************************************************************************)
THEOREM StoresTypes == StoresSpec => []StoresTypeOK
  <1>1. StoresInv => StoresTypeOK
    BY DEF StoresInv
  <1>. QED BY <1>1, StoresInvariant, PTL

(***************************************************************************)
(* RestartKeepsPromises (Create, Drop, loadDynamicConfig): wherever the    *)
(* node is killed and whatever fails to open, a node that is up has the    *)
(* stores whose creation was answered, and none whose drop was; promises   *)
(* whose save failed, or that an older save of main replaced, are left     *)
(* out.                                                                    *)
(***************************************************************************)
THEOREM PromisesAreKept == StoresSpec => []RestartKeepsPromises
  <1>1. StoresInv => RestartKeepsPromises
    BY UpFacts DEF RestartKeepsPromises, Agrees, StoresInv, TablesInv, Restored
  <1>. QED BY <1>1, StoresInvariant, PTL

(***************************************************************************)
(* ListedStoresWork (RestoreDynamicStores, Create, Drop): until the        *)
(* shutdown, a store that is in the tables takes writes and, unless it     *)
(* was loaded only in part, shows every document answered for.             *)
(***************************************************************************)
THEOREM StoresWork == StoresSpec => []ListedStoresWork
  <1>1. StoresInv => ListedStoresWork
    BY DEF ListedStoresWork, StoresInv, TablesInv, AliveIsListed, Acknowledged
  <1>. QED BY <1>1, StoresInvariant, PTL

(***************************************************************************)
(* BackupIsComplete (Snapshot, Export): a finished backup has every        *)
(* document answered for before it began, of the stores that were due,     *)
(* whatever is written, created or dropped meanwhile.                      *)
(***************************************************************************)
THEOREM BackupsAreComplete == StoresSpec => []BackupIsComplete
  <1>1. StoresInv => BackupIsComplete
    BY DEF BackupIsComplete, StoresInv, CallsInv, Copying
  <1>. QED BY <1>1, StoresInvariant, PTL

=============================================================================
