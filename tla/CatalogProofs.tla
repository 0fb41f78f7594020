--------------------------- MODULE CatalogProofs ---------------------------
(***************************************************************************)
(* Theorems about the data catalog: the rows of documents and the lineage  *)
(* edges between them (LineageTables), for any rows, references and        *)
(* calls; and uploads and their metadata (MetadataCatalog), for any        *)
(* requests and files; and about queries of all peers (PeerQuery), for     *)
(* any peers, calls and documents.                                         *)
(***************************************************************************)
EXTENDS LineageTables, MetadataCatalog, PeerQuery, FiniteSetTheorems, TLAPS

(***************************************************************************)
(* The shape of the tables and of the calls: a reference is resolved to a  *)
(* row or to the placeholder for it.                                       *)
(***************************************************************************)
Refd == Uri \cup {Unknown[u] : u \in Uri}

Resolving == [at : {"update", "insert", "resolving"}, refs : SUBSET Uri, up : SUBSET Refd]
Adding == [at : {"adding"}, refs : SUBSET Refd]
Writing == [at : {"writing"}, refs : SUBSET Refd, target : Uri, list : SUBSET Refd]

PutStates == {Idle, Ended} \cup Resolving \cup Adding \cup Writing

ListPlaces == Refd \X {"up", "down"}

Taking == [at : {"taking"}, lists : SUBSET ListPlaces]
Filtering ==
    [at : {"filtering"}, lists : SUBSET ListPlaces, list : Uri \X {"up", "down"}, held : SUBSET Refd]

RemStates == {Idle, Ended} \cup Taking \cup Filtering

CatalogRows == [up : SUBSET Refd, down : SUBSET Refd, exists : BOOLEAN]

(***************************************************************************)
(* A row that does not exist has empty lists: a placeholder of a reference *)
(* is in lists, and is no row.                                             *)
(***************************************************************************)
TablesTypes ==
    /\ row \in [Uri -> CatalogRows]
    /\ \A u \in Uri : ~row[u].exists => row[u] = NoRow
    /\ put \in [Putter -> PutStates]
    /\ rem \in [Remover -> RemStates]

(***************************************************************************)
(* What two calls that run at once are both about is recorded. So of a row *)
(* that is not disturbed, at most one call that runs is about it, and what *)
(* that call has read of it is still so.                                   *)
(***************************************************************************)
OverlapsSeen ==
    \A c, d \in TableCall :
        c # d /\ Running(c) /\ Running(d) => Concerns(c) \cap Concerns(d) \subseteq disturbed

(***************************************************************************)
(* What a put may rely on at each of its steps: the rows it has found      *)
(* exist, and the list it is about to write back is the list of the row.   *)
(***************************************************************************)
PutStands(c) ==
    /\ put[c].at \in {"update", "insert", "resolving"} => put[c].refs \subseteq Refs[c]
    /\ put[c].at \in {"update", "insert"} => put[c].up = {}
    /\ put[c].at = "resolving" => put[c].up \cap Uri \subseteq Refs[c] 
    /\ put[c].at = "resolving" =>
         \A t \in (put[c].up \cap Uri) \ disturbed : Exists(t)
    /\ put[c].at \in {"adding", "writing"} =>
         /\ put[c].refs \cap Uri \subseteq Refs[c]
         /\ \A t \in (put[c].refs \cap Uri) \ disturbed : Exists(t)
    /\ put[c].at = "writing" =>
         /\ put[c].target \in Refs[c]
         /\ put[c].target \notin disturbed =>
              Exists(put[c].target) /\ put[c].list = row[put[c].target].down

(***************************************************************************)
(* What a removal may rely on: the list it is about to write back, and, of *)
(* the row it takes out, that it has still to come to every row that       *)
(* depends on it.                                                          *)
(***************************************************************************)
RemStands(c) ==
    /\ rem[c].at = "filtering" =>
         /\ rem[c].list \in rem[c].lists
         /\ rem[c].list[1] \notin disturbed =>
              rem[c].held = row[rem[c].list[1]][rem[c].list[2]]
    /\ rem[c].at \in {"taking", "filtering"} /\ Subject[c] \notin disturbed =>
         \A s \in Uri \ disturbed :
            Subject[c] \in row[s].up => <<s, "up">> \in rem[c].lists

(***************************************************************************)
(* A put has written s's half of an edge, and will write t's; a removal is *)
(* taking the row s out.                                                   *)
(***************************************************************************)
BeingAdded(s, t) ==
    \E c \in Putter :
        /\ Subject[c] = s
        /\ put[c].at \in {"adding", "writing"}
        /\ t \in put[c].refs \/ (put[c].at = "writing" /\ t = put[c].target)
        
BeingRemoved(s) == \E c \in Remover : Subject[c] = s /\ rem[c].at \in {"taking", "filtering"}

(***************************************************************************)
(* Between the steps of calls: an edge has both halves, or there is a call *)
(* that will write the other half, or will delete the row of this one.     *)
(***************************************************************************)
EdgesWhole ==
    \A s \in Uri \ disturbed : \A t \in (row[s].up \cap Uri) \ disturbed :
        \/ Exists(t) /\ s \in row[t].down
        \/ Exists(t) /\ BeingAdded(s, t)
        \/ BeingRemoved(s)

TablesInv ==
    /\ TablesTypes
    /\ OverlapsSeen
    /\ \A c \in Putter : PutStands(c)
    /\ \A c \in Remover : RemStands(c)
    /\ EdgesWhole

(***************************************************************************)
(* Every step keeps the types.                                             *)
(***************************************************************************)
LEMMA TypesHold ==
    ASSUME TablesTypes, TablesNext
    PROVE  TablesTypes'
<1> USE RowsAssumption DEF TablesTypes
<1>1. ASSUME NEW c \in Putter, EntryExists(c) PROVE TablesTypes'
  <2>1. put'[c] \in Resolving
    BY <1>1 DEF EntryExists, PutStep, Resolving, Idle
  <2> QED
    BY <1>1, <2>1 DEF EntryExists, PutStep, PutStates
<1>2. ASSUME NEW c \in Putter, Populate(c) PROVE TablesTypes'
  <2>1. put[c] \in Resolving
    BY <1>2 DEF Populate, PutStates, Resolving, Adding, Writing, Idle, Ended
  <2>2. put'[c] \in Resolving \cup {Ended}
    BY <1>2, <2>1 DEF Populate, Resolving
  <2>3. NewRow \in CatalogRows /\ NewRow.exists
    BY DEF NewRow, NoRow, CatalogRows
  <2>4. row' \in [Uri -> CatalogRows] /\ \A u \in Uri : ~row'[u].exists => row'[u] = NoRow
    BY <1>2, <2>3 DEF Populate
  <2> QED
    BY <1>2, <2>2, <2>4 DEF Populate, PutStates
<1>3. ASSUME NEW c \in Putter, ResolveReference(c) PROVE TablesTypes'
  <2>1. put[c] \in Resolving
    BY <1>3 DEF ResolveReference, PutStates, Resolving, Adding, Writing, Idle, Ended
  <2>2. PICK u \in put[c].refs :
            put'[c] = [put[c] EXCEPT !.refs = @ \ {u},
                                     !.up = @ \cup {IF Exists(u) THEN u ELSE Unknown[u]}]
    BY <1>3 DEF ResolveReference
  <2> DEFINE v == IF Exists(u) THEN u ELSE Unknown[u]
  <2>3. v \in Refd
    BY <2>1 DEF Refd, Resolving
  <2>4. put'[c] = [put[c] EXCEPT !.refs = @ \ {u}, !.up = @ \cup {v}]
    BY <2>2
  <2> HIDE DEF v
  <2>5. put[c].refs \ {u} \in SUBSET Uri /\ put[c].up \cup {v} \in SUBSET Refd
    BY <2>1, <2>3 DEF Resolving
  <2>6. put'[c] \in Resolving
    BY <2>1, <2>4, <2>5 DEF Resolving
  <2> QED
    BY <1>3, <2>6 DEF ResolveReference, PutStates
<1>4. ASSUME NEW c \in Putter, SetUpstream(c) PROVE TablesTypes'
  <2>1. put[c] \in Resolving
    BY <1>4 DEF SetUpstream, PutStep, PutStates, Resolving, Adding, Writing, Idle, Ended
  <2>2. put'[c] \in Adding
    BY <1>4, <2>1 DEF SetUpstream, PutStep, Resolving, Adding
  <2>3. row' \in [Uri -> CatalogRows] /\ \A u \in Uri : ~row'[u].exists => row'[u] = NoRow
    BY <1>4, <2>1 DEF SetUpstream, SetList, Exists, CatalogRows, Resolving
  <2> QED
    BY <1>4, <2>2, <2>3 DEF SetUpstream, PutStep, PutStates
<1>5. ASSUME NEW c \in Putter, ReadDownstream(c) PROVE TablesTypes'
  <2>1. put[c] \in Adding
    BY <1>5 DEF ReadDownstream, PutStates, Resolving, Adding, Writing, Idle, Ended
  <2>2. put'[c] \in {Ended} \cup Adding \cup Writing
    <3>1. CASE put[c].refs = {}
      BY <1>5, <3>1 DEF ReadDownstream
    <3>2. CASE put[c].refs # {}
      <4>1. PICK u \in put[c].refs :
              put' = [put EXCEPT ![c] =
                        IF Exists(u) /\ Subject[c] \notin row[u].down
                        THEN [at |-> "writing", refs |-> @.refs \ {u}, target |-> u,
                              list |-> row[u].down]
                        ELSE [@ EXCEPT !.refs = put[c].refs \ {u}]]
        BY <1>5, <3>2 DEF ReadDownstream
      <4>2. Exists(u) => u \in Uri /\ row[u].down \in SUBSET Refd
        BY DEF Exists, CatalogRows
      <4> QED
        BY <2>1, <4>1, <4>2 DEF Adding, Writing
    <3> QED
      BY <3>1, <3>2
  <2> QED
    BY <1>5, <2>2 DEF ReadDownstream, PutStates
<1>6. ASSUME NEW c \in Putter, AddToDownstream(c) PROVE TablesTypes'
  <2>1. put[c] \in Writing
    BY <1>6 DEF AddToDownstream, PutStep, PutStates, Resolving, Adding, Writing, Idle, Ended
  <2>2. put'[c] \in Adding
    BY <1>6, <2>1 DEF AddToDownstream, PutStep, Adding, Writing
  <2>3. row' \in [Uri -> CatalogRows] /\ \A u \in Uri : ~row'[u].exists => row'[u] = NoRow
    BY <1>6, <2>1 DEF AddToDownstream, SetList, Exists, CatalogRows, Refd, Writing
  <2> QED
    BY <1>6, <2>2, <2>3 DEF AddToDownstream, PutStep, PutStates
<1>7. ASSUME NEW c \in Remover, ReadRow(c) PROVE TablesTypes'
  <2>1. rem'[c] \in Taking \cup {Ended}
    BY <1>7 DEF ReadRow, RemStep, Taking, CatalogRows, Refd, ListPlaces
  <2> QED
    BY <1>7, <2>1 DEF ReadRow, RemStep, RemStates
<1>8. ASSUME NEW c \in Remover, ReadList(c) PROVE TablesTypes'
  <2>1. rem[c] \in Taking
    BY <1>8 DEF ReadList, RemStates, Taking, Filtering, Idle, Ended
  <2>2. PICK l \in rem[c].lists :
          rem' = [rem EXCEPT ![c] =
                    IF Exists(l[1])
                    THEN [at |-> "filtering", lists |-> @.lists, list |-> l,
                          held |-> row[l[1]][l[2]]]
                    ELSE [@ EXCEPT !.lists = rem[c].lists \ {l}]]
    BY <1>8 DEF ReadList, DownFirst
  <2>3. l \in ListPlaces /\ l[2] \in {"up", "down"}
    BY <2>1 DEF ListPlaces, Taking
  <2>4. rem'[c] \in Taking \cup Filtering
    <3>1. CASE Exists(l[1])
      <4>1. l \in Uri \X {"up", "down"}
        BY <2>3, <3>1 DEF ListPlaces, Exists
      <4>2. row[l[1]][l[2]] \in SUBSET Refd
        BY <2>3, <3>1 DEF CatalogRows, Exists
      <4> QED
        BY <2>1, <2>2, <3>1, <4>1, <4>2 DEF Taking, Filtering
    <3>2. CASE ~Exists(l[1])
      BY <2>1, <2>2, <3>2 DEF Taking
    <3> QED
      BY <3>1, <3>2
  <2> QED
    BY <1>8, <2>4 DEF ReadList, RemStates
<1>9. ASSUME NEW c \in Remover, RemoveFromList(c) PROVE TablesTypes'
  <2>1. rem[c] \in Filtering
    BY <1>9 DEF RemoveFromList, RemStep, RemStates, Taking, Filtering, Idle, Ended
  <2>2. rem'[c] \in Taking
    BY <1>9, <2>1 DEF RemoveFromList, RemStep, Taking, Filtering
  <2> DEFINE u == rem[c].list[1]
             to == rem[c].held \ {Subject[c]}
  <2>3. u \in Uri /\ to \in SUBSET Refd /\ rem[c].list[2] \in {"up", "down"}
    BY <2>1 DEF Filtering
  <2>4. \/ row' = row
        \/ row[u].exists /\ row' = [row EXCEPT ![u] = [@ EXCEPT !.up = to]]
        \/ row[u].exists /\ row' = [row EXCEPT ![u] = [@ EXCEPT !.down = to]]
    BY <1>9, <2>3 DEF RemoveFromList, SetList, Exists
  <2> HIDE DEF u, to
  <2>5. row' \in [Uri -> CatalogRows] /\ \A w \in Uri : ~row'[w].exists => row'[w] = NoRow
    BY <2>3, <2>4 DEF CatalogRows
  <2> QED
    BY <1>9, <2>2, <2>5 DEF RemoveFromList, RemStep, RemStates
<1>10. ASSUME NEW c \in Remover, DeleteRow(c) PROVE TablesTypes'
  <2>1. NoRow \in CatalogRows
    BY DEF NoRow, CatalogRows
  <2> QED
    BY <1>10, <2>1 DEF DeleteRow, RemStep, RemStates
<1> QED
  BY <1>1, <1>2, <1>3, <1>4, <1>5, <1>6, <1>7, <1>8, <1>9, <1>10
     DEF TablesNext, OnDocumentPut, OnDocumentDelete

(***************************************************************************)
(* Overlaps are recorded in the step that makes them.                      *)
(***************************************************************************)
LEMMA OverlapsAreSeen ==
    ASSUME RecordOverlaps
    PROVE  OverlapsSeen' /\ disturbed \subseteq disturbed'
<1>1. ASSUME NEW c \in TableCall, NEW d \in TableCall, c # d, Running(c)', Running(d)'
      PROVE  (Concerns(c) \cap Concerns(d))' \subseteq Shared'
  <2>1. <<c, d>> \in Together'
    BY <1>1 DEF Together
  <2> QED
    BY <2>1 DEF Shared
<1> QED
  BY <1>1 DEF RecordOverlaps, OverlapsSeen

LEMMA CallsRun ==
    ASSUME NEW c
    PROVE  /\ c \in Putter /\ put[c].at \notin {"idle", "ended"} => Running(c)
           /\ c \in Remover /\ rem[c].at \notin {"idle", "ended"} => Running(c)
BY RowsAssumption DEF Running, Idle, Ended

(***************************************************************************)
(* A step of the call c that writes at most the row u, that c is about,    *)
(* and makes it depend on nothing c is not about.                          *)
(***************************************************************************)
OnlyMoves(c) ==
    /\ \A d \in Putter : d # c => put'[d] = put[d]
    /\ \A d \in Remover : d # c => rem'[d] = rem[d]

OnlyWrites(c, u) ==
    /\ u \in Concerns(c)
    /\ row' # row => Running(c)
    /\ \A v \in Uri : v # u => row'[v] = row[v]
    /\ u \in Uri \ disturbed =>
         \A t \in Uri \cap row'[u].up : t \in row[u].up \/ (Running(c) /\ t \in Concerns(c))

(***************************************************************************)
(* Such a step takes nothing from the other calls: where it writes what    *)
(* they rely on, the row is disturbed.                                     *)
(***************************************************************************)
LEMMA OthersStand ==
    ASSUME TablesInv, disturbed \subseteq disturbed',
           NEW c \in TableCall, NEW u, OnlyMoves(c), OnlyWrites(c, u)
    PROVE  /\ \A d \in Putter : d # c => PutStands(d)'
           /\ \A d \in Remover : d # c => RemStands(d)'
<1> USE RowsAssumption
<1>1. ASSUME NEW d \in Putter, d # c PROVE PutStands(d)'
  <2>1. put'[d] = put[d] /\ PutStands(d)
    BY <1>1 DEF OnlyMoves, TablesInv
  <2>2. ASSUME put[d].at \notin {"idle", "ended"}, NEW t \in Refs[d], t \notin disturbed'
        PROVE  t \in Uri /\ row'[t] = row[t]
    <3>1. Running(d) /\ t \in Concerns(d) /\ d \in TableCall
      BY <2>2, CallsRun DEF Concerns, TableCall
    <3>2. t # u \/ row' = row
      BY <1>1, <2>2, <3>1 DEF OnlyWrites, TablesInv, OverlapsSeen
    <3> QED
      BY <3>2 DEF OnlyWrites
  <2> QED
    BY <2>1, <2>2 DEF PutStands, Exists
<1>2. ASSUME NEW d \in Remover, d # c PROVE RemStands(d)'
  <2>1. rem'[d] = rem[d] /\ RemStands(d)
    BY <1>2 DEF OnlyMoves, TablesInv
  <2>2. ASSUME rem[d].at \notin {"idle", "ended"}
        PROVE  /\ Running(d) /\ d \in TableCall
               /\ Subject[d] \in Concerns(d)
               /\ \A l \in rem[d].lists : l[1] \in Concerns(d)
    BY <2>2, CallsRun DEF Concerns, TableCall
  <2>3. ASSUME rem[d].at = "filtering", rem[d].list[1] \notin disturbed'
        PROVE  rem[d].held = row'[rem[d].list[1]][rem[d].list[2]]
    <3>1. rem[d].list[1] # u \/ row' = row
      BY <1>2, <2>1, <2>2, <2>3 DEF OnlyWrites, TablesInv, OverlapsSeen, RemStands
    <3>2. rem[d].list[1] \in Uri
      BY <2>3 DEF TablesInv, TablesTypes, RemStates, Taking, Filtering, Idle, Ended
    <3> QED
      BY <2>1, <2>3, <3>1, <3>2 DEF OnlyWrites, RemStands
  <2>4. ASSUME rem[d].at \in {"taking", "filtering"}, Subject[d] \notin disturbed',
               NEW s \in Uri \ disturbed', Subject[d] \in row'[s].up
        PROVE  <<s, "up">> \in rem[d].lists
    <3>1. Subject[d] \in row[s].up
      BY <1>2, <2>2, <2>4 DEF OnlyWrites, TablesInv, OverlapsSeen
    <3> QED
      BY <2>1, <2>4, <3>1 DEF RemStands
  <2> QED
    BY <2>1, <2>3, <2>4 DEF RemStands
<1> QED
  BY <1>1, <1>2

(***************************************************************************)
(* Nor does it take an edge that another call is about.                    *)
(***************************************************************************)
LEMMA OtherEdges ==
    ASSUME TablesInv, disturbed \subseteq disturbed',
           NEW c \in TableCall, NEW u, OnlyMoves(c), OnlyWrites(c, u),
           NEW s \in Uri \ disturbed', NEW t \in (row[s].up \cap Uri) \ disturbed'
    PROVE  \/ Exists(t) /\ s \in row[t].down
           \/ Exists(t)' /\ BeingAdded(s, t)'
           \/ BeingRemoved(s)'
           \/ /\ c \in Putter /\ Subject[c] = s /\ put[c].at \in {"adding", "writing"}
              /\ Exists(t)
              /\ t \in put[c].refs \/ (put[c].at = "writing" /\ t = put[c].target)
           \/ c \in Remover /\ Subject[c] = s /\ rem[c].at \in {"taking", "filtering"}
<1>1. CASE Exists(t) /\ s \in row[t].down
  BY <1>1
<1>2. CASE Exists(t) /\ BeingAdded(s, t)
  <2>1. PICK d \in Putter :
          /\ Subject[d] = s
          /\ put[d].at \in {"adding", "writing"}
          /\ t \in put[d].refs \/ (put[d].at = "writing" /\ t = put[d].target)
    BY <1>2 DEF BeingAdded
  <2>2. CASE d = c
    BY <1>2, <2>1, <2>2
  <2>3. CASE d # c
    <3>1. t \in Refs[d]
      BY <2>1 DEF TablesInv, PutStands
    <3>2. Running(d) /\ t \in Concerns(d) /\ d \in TableCall
      BY <2>1, <3>1, CallsRun DEF Concerns, TableCall
    <3>3. row'[t] = row[t]
      BY <2>3, <3>2 DEF OnlyWrites, TablesInv, OverlapsSeen
    <3>4. BeingAdded(s, t)'
      BY <2>1, <2>3 DEF BeingAdded, OnlyMoves
    <3> QED
      BY <1>2, <3>3, <3>4 DEF Exists
  <2> QED
    BY <2>2, <2>3
<1>3. CASE BeingRemoved(s)
  BY <1>3 DEF BeingRemoved, OnlyMoves
<1> QED
  BY <1>1, <1>2, <1>3 DEF TablesInv, EdgesWhole

-----------------------------------------------------------------------------
(***************************************************************************)
(* The steps of a put.                                                     *)
(***************************************************************************)
LEMMA EntryExistsStep ==
    ASSUME TablesInv, disturbed \subseteq disturbed', NEW c \in Putter, EntryExists(c)
    PROVE  (\A d \in Putter : PutStands(d)') /\ (\A d \in Remover : RemStands(d)') /\ EdgesWhole'
<1> USE RowsAssumption
<1>1. OnlyMoves(c) /\ OnlyWrites(c, Subject[c]) /\ row' = row /\ c \in TableCall
  BY DEF EntryExists, PutStep, OnlyMoves, OnlyWrites, Concerns, TablesInv, TablesTypes, TableCall
<1>2. PutStands(c)'
  BY DEF EntryExists, PutStep, PutStands, TablesInv, TablesTypes
<1>3. EdgesWhole'
  <2> SUFFICES ASSUME NEW s \in Uri \ disturbed', NEW t \in (row[s].up \cap Uri) \ disturbed'
               PROVE  (Exists(t) /\ s \in row[t].down) \/ (Exists(t)' /\ BeingAdded(s, t)')
                      \/ BeingRemoved(s)'
    BY <1>1 DEF EdgesWhole, Exists
  <2> QED
    BY <1>1, OtherEdges DEF EntryExists, PutStep, TableCall
<1> QED
  BY <1>1, <1>2, <1>3, OthersStand DEF TableCall

LEMMA PopulateStep ==
    ASSUME TablesInv, disturbed \subseteq disturbed', NEW c \in Putter, Populate(c)
    PROVE  (\A d \in Putter : PutStands(d)') /\ (\A d \in Remover : RemStands(d)') /\ EdgesWhole'
<1> USE RowsAssumption
<1> DEFINE u == Subject[c]
<1>1. Running(c) /\ c \in TableCall /\ u \in Concerns(c) /\ u \in Uri
  BY CallsRun DEF Populate, Concerns, TableCall
<1>2. row' = row \/ (~Exists(u) /\ row' = [row EXCEPT ![u] = NewRow])
  BY DEF Populate
<1>3. OnlyMoves(c) /\ OnlyWrites(c, u)
  BY <1>1, <1>2 DEF Populate, OnlyMoves, OnlyWrites, TablesInv, TablesTypes, NewRow, NoRow
<1>4. PutStands(c)'
  <2>1. put[c] \in Resolving /\ PutStands(c)
    BY DEF Populate, TablesInv, TablesTypes, PutStates, Resolving, Adding, Writing, Idle, Ended
  <2> QED
    BY <2>1 DEF Populate, PutStands, TablesInv, TablesTypes, Resolving, Ended
<1>5. ASSUME NEW s \in Uri \ disturbed', NEW t \in (row'[s].up \cap Uri) \ disturbed'
      PROVE  \/ Exists(t)' /\ s \in row'[t].down
             \/ Exists(t)' /\ BeingAdded(s, t)'
             \/ BeingRemoved(s)'
  <2>1. t \in row[s].up
    BY <1>1, <1>2, <1>5 DEF NewRow, NoRow, TablesInv, TablesTypes
  <2>2. Exists(t) => row'[t] = row[t]
    BY <1>2, <1>3, <1>5 DEF OnlyWrites
  <2> QED
    BY <1>1, <1>3, <2>1, <2>2, OtherEdges DEF Exists, Populate
<1> QED
  BY <1>1, <1>3, <1>4, <1>5, OthersStand DEF EdgesWhole

LEMMA ResolveStep ==
    ASSUME TablesInv, disturbed \subseteq disturbed', NEW c \in Putter, ResolveReference(c)
    PROVE  (\A d \in Putter : PutStands(d)') /\ (\A d \in Remover : RemStands(d)') /\ EdgesWhole'
<1> USE RowsAssumption
<1>1. OnlyMoves(c) /\ OnlyWrites(c, Subject[c]) /\ row' = row /\ c \in TableCall
  BY DEF ResolveReference, OnlyMoves, OnlyWrites, Concerns, TablesInv, TablesTypes, TableCall
<1>2. PutStands(c)'
  <2>1. put[c] \in Resolving /\ PutStands(c)
    BY DEF ResolveReference, TablesInv, TablesTypes, PutStates, Resolving, Adding, Writing, Idle, Ended
  <2>2. PICK v \in put[c].refs :
            put'[c] = [put[c] EXCEPT !.refs = @ \ {v},
                                     !.up = @ \cup {IF Exists(v) THEN v ELSE Unknown[v]}]
    BY DEF ResolveReference, TablesInv, TablesTypes
  <2>3. /\ put'[c].at = put[c].at /\ put'[c].refs = put[c].refs \ {v}
        /\ put'[c].up = put[c].up \cup {IF Exists(v) THEN v ELSE Unknown[v]}
    BY <2>1, <2>2 DEF Resolving
  <2>4. put[c].at = "resolving" /\ v \in Uri /\ v \in Refs[c] /\ Unknown[v] \notin Uri
    BY <2>1 DEF ResolveReference, Resolving, PutStands
  <2> QED
    BY <1>1, <2>1, <2>3, <2>4 DEF PutStands, Exists
<1>3. EdgesWhole'
  <2> SUFFICES ASSUME NEW s \in Uri \ disturbed', NEW t \in (row[s].up \cap Uri) \ disturbed'
               PROVE  (Exists(t) /\ s \in row[t].down) \/ (Exists(t)' /\ BeingAdded(s, t)')
                      \/ BeingRemoved(s)'
    BY <1>1 DEF EdgesWhole, Exists
  <2> QED
    BY <1>1, OtherEdges DEF ResolveReference, TableCall
<1> QED
  BY <1>1, <1>2, <1>3, OthersStand DEF TableCall

LEMMA SetUpstreamStep ==
    ASSUME TablesInv, disturbed \subseteq disturbed', NEW c \in Putter, SetUpstream(c)
    PROVE  (\A d \in Putter : PutStands(d)') /\ (\A d \in Remover : RemStands(d)') /\ EdgesWhole'
<1> USE RowsAssumption
<1> DEFINE u == Subject[c]
<1>1. Running(c) /\ c \in TableCall /\ u \in Concerns(c) /\ u \in Uri
      /\ \A t \in Refs[c] : t \in Concerns(c)
  BY CallsRun DEF SetUpstream, PutStep, Concerns, TableCall
<1>2. put[c] \in Resolving /\ PutStands(c) /\ put[c].at = "resolving"
  BY DEF SetUpstream, PutStep, TablesInv, TablesTypes, PutStates, Resolving, Adding, Writing, Idle, Ended
<1>3. /\ put'[c] = [at |-> "adding", refs |-> put[c].up]
      /\ \A d \in Putter : d # c => put'[d] = put[d]
      /\ rem' = rem
  BY DEF SetUpstream, PutStep, TablesInv, TablesTypes
<1>4. /\ \A v \in Uri : v # u => row'[v] = row[v]
      /\ row'[u].exists = row[u].exists /\ row'[u].down = row[u].down
      /\ row'[u].up = IF Exists(u) THEN put[c].up ELSE row[u].up
  BY <1>1 DEF SetUpstream, SetList, Exists, TablesInv, TablesTypes, CatalogRows
<1>5. OnlyMoves(c) /\ OnlyWrites(c, u)
  BY <1>1, <1>2, <1>3, <1>4 DEF OnlyMoves, OnlyWrites, PutStands
<1>6. \A v \in Uri : Exists(v)' = Exists(v) /\ row'[v].down = row[v].down
  BY <1>4 DEF Exists
<1>7. PutStands(c)'
  BY <1>2, <1>3, <1>6 DEF PutStands
<1>8. ASSUME NEW s \in Uri \ disturbed', NEW t \in (row'[s].up \cap Uri) \ disturbed'
      PROVE  \/ Exists(t)' /\ s \in row'[t].down
             \/ Exists(t)' /\ BeingAdded(s, t)'
             \/ BeingRemoved(s)'
  <2>1. CASE t \in row[s].up
    BY <1>1, <1>2, <1>5, <1>6, <2>1, OtherEdges
  <2>2. CASE t \notin row[s].up
    <3>1. s = u /\ t \in put[c].up
      BY <1>4, <1>8, <2>2
    <3>2. Exists(t)' /\ BeingAdded(s, t)'
      BY <1>2, <1>3, <1>6, <1>8, <3>1 DEF PutStands, BeingAdded
    <3> QED
      BY <3>2
  <2> QED
    BY <2>1, <2>2
<1> QED
  BY <1>1, <1>5, <1>7, <1>8, OthersStand DEF EdgesWhole

LEMMA ReadDownstreamStep ==
    ASSUME TablesInv, disturbed \subseteq disturbed', NEW c \in Putter, ReadDownstream(c)
    PROVE  (\A d \in Putter : PutStands(d)') /\ (\A d \in Remover : RemStands(d)') /\ EdgesWhole'
<1> USE RowsAssumption
<1>1. OnlyMoves(c) /\ OnlyWrites(c, Subject[c]) /\ row' = row /\ c \in TableCall /\ rem' = rem
  BY DEF ReadDownstream, OnlyMoves, OnlyWrites, Concerns, TablesInv, TablesTypes, TableCall
<1>2. put[c] \in Adding /\ PutStands(c)
  BY DEF ReadDownstream, TablesInv, TablesTypes, PutStates, Resolving, Adding, Writing, Idle, Ended
<1>3. CASE put[c].refs = {}
  <2>1. put'[c] = Ended
    BY <1>3 DEF ReadDownstream, TablesInv, TablesTypes
  <2>2. PutStands(c)'
    BY <2>1 DEF PutStands, Ended
  <2>3. ASSUME NEW s \in Uri \ disturbed', NEW t \in (row'[s].up \cap Uri) \ disturbed'
        PROVE  \/ Exists(t)' /\ s \in row'[t].down
               \/ Exists(t)' /\ BeingAdded(s, t)'
               \/ BeingRemoved(s)'
    BY <1>1, <1>2, <1>3, <2>3, OtherEdges DEF Exists, Adding
  <2> QED
    BY <1>1, <2>2, <2>3, OthersStand DEF EdgesWhole
<1>4. CASE put[c].refs # {}
  <2>1. PICK u \in put[c].refs :
              put' = [put EXCEPT ![c] =
                        IF Exists(u) /\ Subject[c] \notin row[u].down
                        THEN [at |-> "writing", refs |-> @.refs \ {u}, target |-> u,
                              list |-> row[u].down]
                        ELSE [@ EXCEPT !.refs = put[c].refs \ {u}]]
    BY <1>4 DEF ReadDownstream
  <2>2. /\ put'[c].refs = put[c].refs \ {u}
        /\ IF Exists(u) /\ Subject[c] \notin row[u].down
           THEN put'[c].at = "writing" /\ put'[c].target = u /\ put'[c].list = row[u].down
           ELSE put'[c].at = "adding"
    BY <1>2, <2>1 DEF TablesInv, TablesTypes, Adding
  <2>3. put[c].at = "adding" /\ (Exists(u) => u \in Refs[c])
    BY <1>2 DEF Adding, PutStands, Exists
  <2>4. PutStands(c)'
    BY <1>1, <1>2, <2>2, <2>3 DEF PutStands, Exists
  <2>5. ASSUME NEW s \in Uri \ disturbed', NEW t \in (row[s].up \cap Uri) \ disturbed',
               Subject[c] = s, t \in put[c].refs, Exists(t), s \notin row[t].down
        PROVE  Exists(t)' /\ BeingAdded(s, t)'
    BY <1>1, <2>2, <2>5 DEF BeingAdded, Exists
  <2>6. ASSUME NEW s \in Uri \ disturbed', NEW t \in (row'[s].up \cap Uri) \ disturbed'
        PROVE  \/ Exists(t)' /\ s \in row'[t].down
               \/ Exists(t)' /\ BeingAdded(s, t)'
               \/ BeingRemoved(s)'
    <3>1. t \in row[s].up
      BY <1>1, <2>6
    <3> QED
      BY <1>1, <2>3, <2>5, <2>6, <3>1, OtherEdges DEF Exists
  <2> QED
    BY <1>1, <2>4, <2>6, OthersStand DEF EdgesWhole
<1> QED
  BY <1>3, <1>4

LEMMA AddStep ==
    ASSUME TablesInv, disturbed \subseteq disturbed', NEW c \in Putter, AddToDownstream(c)
    PROVE  (\A d \in Putter : PutStands(d)') /\ (\A d \in Remover : RemStands(d)') /\ EdgesWhole'
<1> USE RowsAssumption
<1> DEFINE u == put[c].target
<1>1. put[c] \in Writing /\ PutStands(c) /\ put[c].at = "writing"
  BY DEF AddToDownstream, PutStep, TablesInv, TablesTypes, PutStates, Resolving, Adding, Writing, Idle, Ended
<1>2. Running(c) /\ c \in TableCall /\ u \in Concerns(c) /\ u \in Uri
  BY <1>1, CallsRun DEF Concerns, TableCall, PutStands
<1>3. /\ put'[c] = [at |-> "adding", refs |-> put[c].refs]
      /\ \A d \in Putter : d # c => put'[d] = put[d]
      /\ rem' = rem
  BY DEF AddToDownstream, PutStep, TablesInv, TablesTypes
<1>4. /\ \A v \in Uri : v # u => row'[v] = row[v]
      /\ row'[u].exists = row[u].exists /\ row'[u].up = row[u].up
      /\ Exists(u) => row'[u].down = put[c].list \cup {Subject[c]}
  BY <1>2 DEF AddToDownstream, SetList, Exists, TablesInv, TablesTypes, CatalogRows
<1>5. OnlyMoves(c) /\ OnlyWrites(c, u)
  BY <1>2, <1>3, <1>4 DEF OnlyMoves, OnlyWrites
<1>6. \A v \in Uri : Exists(v)' = Exists(v) /\ row'[v].up = row[v].up
  BY <1>4 DEF Exists
<1>7. PutStands(c)'
  BY <1>1, <1>3, <1>6 DEF PutStands
<1>8. ASSUME NEW s \in Uri \ disturbed', NEW t \in (row'[s].up \cap Uri) \ disturbed'
      PROVE  \/ Exists(t)' /\ s \in row'[t].down
             \/ Exists(t)' /\ BeingAdded(s, t)'
             \/ BeingRemoved(s)'
  <2>1. t \in row[s].up
    BY <1>6, <1>8
  <2>2. CASE Exists(t) /\ s \in row[t].down
    BY <1>1, <1>4, <1>6, <1>8, <2>2 DEF PutStands
  <2>3. CASE Subject[c] = s /\ Exists(t) /\ t \in put[c].refs
    BY <1>3, <1>6, <1>8, <2>3 DEF BeingAdded
  <2>4. CASE Subject[c] = s /\ Exists(t) /\ t = u
    BY <1>4, <1>6, <1>8, <2>4
  <2> QED
    BY <1>2, <1>5, <2>1, <2>2, <2>3, <2>4, OtherEdges
<1> QED
  BY <1>2, <1>5, <1>7, <1>8, OthersStand DEF EdgesWhole

(***************************************************************************)
(* The steps of a removal. When it reads its row, the rows that depend on  *)
(* it are in its list: a put that has yet to enter one would overlap with  *)
(* it.                                                                     *)
(***************************************************************************)
LEMMA ReadRowStep ==
    ASSUME TablesInv, disturbed \subseteq disturbed', OverlapsSeen', NEW c \in Remover, ReadRow(c)
    PROVE  (\A d \in Putter : PutStands(d)') /\ (\A d \in Remover : RemStands(d)') /\ EdgesWhole'
<1> USE RowsAssumption
<1>1. /\ OnlyMoves(c) /\ OnlyWrites(c, Subject[c])
      /\ row' = row /\ put' = put /\ c \in TableCall
  BY DEF ReadRow, RemStep, OnlyMoves, OnlyWrites, Concerns, TablesInv, TablesTypes, TableCall
<1> DEFINE t == Subject[c]
<1>2. rem[c].at = "idle"
      /\ rem'[c] = IF row[t].exists
                   THEN [at |-> "taking", lists |-> {<<v, "down">> : v \in row[t].up}
                                                    \cup {<<v, "up">> : v \in row[t].down}]
                   ELSE Ended
  BY DEF ReadRow, RemStep, TablesInv, TablesTypes
<1>3. ASSUME row[t].exists, t \notin disturbed', NEW s \in Uri \ disturbed', t \in row[s].up
      PROVE  s \in row[t].down
  <2>1. c \in TableCall /\ Running(c)' /\ t \in Concerns(c)' /\ t \in Uri
    BY <1>1, <1>2, <1>3 DEF Running, Idle, Ended, Concerns
  <2>2. CASE BeingAdded(s, t)
    <3>1. PICK d \in Putter :
          /\ Subject[d] = s
          /\ put[d].at \in {"adding", "writing"}
          /\ t \in put[d].refs \/ (put[d].at = "writing" /\ t = put[d].target)
      BY <2>2 DEF BeingAdded
    <3>2. t \in Refs[d]
      BY <2>1, <3>1 DEF TablesInv, PutStands
    <3>3. d \in TableCall /\ d # c /\ Running(d)' /\ t \in Concerns(d)'
      BY <1>1, <3>1, <3>2 DEF TableCall, Running, Concerns, Idle, Ended
    <3> QED
      BY <1>3, <2>1, <3>3 DEF OverlapsSeen
  <2>3. CASE BeingRemoved(s)
    <3>1. PICK d \in Remover : Subject[d] = s /\ rem[d].at \in {"taking", "filtering"}
      BY <2>3 DEF BeingRemoved
    <3>2. d # c /\ rem'[d] = rem[d]
      BY <1>1, <1>2, <3>1 DEF OnlyMoves
    <3>3. d \in TableCall /\ Running(d)' /\ t \in Concerns(d)'
      BY <1>1, <1>3, <3>1, <3>2 DEF TableCall, Running, Concerns, Idle, Ended
    <3> QED
      BY <1>3, <2>1, <3>2, <3>3 DEF OverlapsSeen
  <2> QED
    BY <1>3, <2>1, <2>2, <2>3 DEF TablesInv, EdgesWhole
<1>4. RemStands(c)'
  BY <1>1, <1>2, <1>3 DEF RemStands, Ended
<1>5. ASSUME NEW s \in Uri \ disturbed', NEW v \in (row'[s].up \cap Uri) \ disturbed'
      PROVE  \/ Exists(v)' /\ s \in row'[v].down
             \/ Exists(v)' /\ BeingAdded(s, v)'
             \/ BeingRemoved(s)'
  BY <1>1, <1>2, <1>5, OtherEdges DEF Exists
<1> QED
  BY <1>1, <1>4, <1>5, OthersStand DEF EdgesWhole

LEMMA ReadListStep ==
    ASSUME TablesInv, disturbed \subseteq disturbed', NEW c \in Remover, ReadList(c)
    PROVE  (\A d \in Putter : PutStands(d)') /\ (\A d \in Remover : RemStands(d)') /\ EdgesWhole'
<1> USE RowsAssumption
<1>1. OnlyMoves(c) /\ OnlyWrites(c, Subject[c]) /\ row' = row /\ c \in TableCall
  BY DEF ReadList, OnlyMoves, OnlyWrites, Concerns, TablesInv, TablesTypes, TableCall
<1>2. rem[c] \in Taking /\ rem[c].at = "taking" /\ RemStands(c)
  BY DEF ReadList, TablesInv, TablesTypes, RemStates, Taking, Filtering, Idle, Ended
<1>3. PICK l \in rem[c].lists :
          rem' = [rem EXCEPT ![c] =
                    IF Exists(l[1])
                    THEN [at |-> "filtering", lists |-> @.lists, list |-> l,
                          held |-> row[l[1]][l[2]]]
                    ELSE [@ EXCEPT !.lists = rem[c].lists \ {l}]]
  BY DEF ReadList, DownFirst
<1>4. IF Exists(l[1])
      THEN /\ rem'[c].at = "filtering" /\ rem'[c].lists = rem[c].lists
           /\ rem'[c].list = l /\ rem'[c].held = row[l[1]][l[2]]
      ELSE rem'[c].at = "taking" /\ rem'[c].lists = rem[c].lists \ {l}
  BY <1>2, <1>3 DEF TablesInv, TablesTypes, Taking
<1>5. RemStands(c)'
  <2>1. ASSUME NEW s \in Uri, Subject[c] \in row[s].up PROVE Exists(s)
    BY <2>1 DEF Exists, TablesInv, TablesTypes, NoRow
  <2> QED
    BY <1>1, <1>2, <1>4, <2>1 DEF RemStands
<1>6. ASSUME NEW s \in Uri \ disturbed', NEW t \in (row'[s].up \cap Uri) \ disturbed'
      PROVE  \/ Exists(t)' /\ s \in row'[t].down
             \/ Exists(t)' /\ BeingAdded(s, t)'
             \/ BeingRemoved(s)'
  <2>1. BeingRemoved(Subject[c])'
    BY <1>4 DEF BeingRemoved
  <2>2. c \notin Putter
    OBVIOUS
  <2> QED
    BY <1>1, <1>6, <2>1, <2>2, OtherEdges DEF Exists
<1> QED
  BY <1>1, <1>5, <1>6, OthersStand DEF EdgesWhole

LEMMA RemoveStep ==
    ASSUME TablesInv, disturbed \subseteq disturbed', NEW c \in Remover, RemoveFromList(c)
    PROVE  (\A d \in Putter : PutStands(d)') /\ (\A d \in Remover : RemStands(d)') /\ EdgesWhole'
<1> USE RowsAssumption
<1> DEFINE u == rem[c].list[1]
           list == rem[c].list[2]
<1>1. rem[c] \in Filtering /\ RemStands(c) /\ rem[c].at = "filtering"
  BY DEF RemoveFromList, RemStep, TablesInv, TablesTypes, RemStates, Taking, Filtering, Idle, Ended
<1>2. /\ Running(c) /\ c \in TableCall /\ c \notin Putter /\ u \in Concerns(c) /\ u \in Uri
      /\ list \in {"up", "down"} /\ rem[c].list = <<u, list>>
  BY <1>1, CallsRun DEF Concerns, TableCall, RemStands, Filtering
<1>3. /\ rem'[c] = [at |-> "taking", lists |-> rem[c].lists \ {rem[c].list}]
      /\ \A d \in Remover : d # c => rem'[d] = rem[d]
      /\ put' = put
  BY DEF RemoveFromList, RemStep, TablesInv, TablesTypes
<1>4. /\ \A v \in Uri : v # u => row'[v] = row[v]
      /\ row'[u].exists = row[u].exists
      /\ row'[u].up = IF Exists(u) /\ list = "up" THEN rem[c].held \ {Subject[c]} ELSE row[u].up
      /\ row'[u].down = IF Exists(u) /\ list = "down" THEN rem[c].held \ {Subject[c]}
                        ELSE row[u].down
  BY <1>2 DEF RemoveFromList, SetList, Exists, TablesInv, TablesTypes, CatalogRows
<1>5. u \notin disturbed => rem[c].held = row[u][list]
  BY <1>1 DEF RemStands
<1>6. OnlyMoves(c) /\ OnlyWrites(c, u)
  BY <1>2, <1>3, <1>4, <1>5 DEF OnlyMoves, OnlyWrites
<1>7. RemStands(c)'
  <2>1. ASSUME Subject[c] \notin disturbed', NEW s \in Uri \ disturbed', Subject[c] \in row'[s].up
        PROVE  <<s, "up">> \in rem[c].lists /\ <<s, "up">> # rem[c].list
    <3>1. Subject[c] \in row[s].up
      BY <1>2, <1>4, <1>5, <2>1
    <3>2. <<s, "up">> \in rem[c].lists
      BY <1>1, <2>1, <3>1 DEF RemStands
    <3>3. Exists(s)
      BY <3>1 DEF Exists, TablesInv, TablesTypes, NoRow
    <3>4. ~ (s = u /\ list = "up")
      BY <1>4, <2>1, <3>3
    <3> QED
      BY <1>2, <3>2, <3>4
  <2> QED
    BY <1>3, <2>1 DEF RemStands
<1>8. ASSUME NEW s \in Uri \ disturbed', NEW t \in (row'[s].up \cap Uri) \ disturbed'
      PROVE  \/ Exists(t)' /\ s \in row'[t].down
             \/ Exists(t)' /\ BeingAdded(s, t)'
             \/ BeingRemoved(s)'
  <2>1. t \in row[s].up
    BY <1>2, <1>4, <1>5, <1>8
  <2>2. BeingRemoved(Subject[c])'
    BY <1>3 DEF BeingRemoved
  <2>3. CASE Exists(t) /\ s \in row[t].down /\ s # Subject[c]
    BY <1>2, <1>4, <1>5, <1>8, <2>3 DEF Exists
  <2> QED
    BY <1>2, <1>6, <2>1, <2>2, <2>3, OtherEdges
<1> QED
  BY <1>2, <1>6, <1>7, <1>8, OthersStand DEF EdgesWhole

LEMMA DeleteStep ==
    ASSUME TablesInv, disturbed \subseteq disturbed', NEW c \in Remover, DeleteRow(c)
    PROVE  (\A d \in Putter : PutStands(d)') /\ (\A d \in Remover : RemStands(d)') /\ EdgesWhole'
<1> USE RowsAssumption
<1> DEFINE u == Subject[c]
<1>1. rem[c] \in Taking /\ RemStands(c) /\ rem[c].at = "taking" /\ rem[c].lists = {}
  BY DEF DeleteRow, RemStep, TablesInv, TablesTypes, RemStates, Taking, Filtering, Idle, Ended,
         DownFirst
<1>2. Running(c) /\ c \in TableCall /\ c \notin Putter /\ u \in Concerns(c) /\ u \in Uri
  BY <1>1, CallsRun DEF Concerns, TableCall
<1>3. /\ rem'[c] = Ended
      /\ \A d \in Remover : d # c => rem'[d] = rem[d]
      /\ put' = put
      /\ \A v \in Uri : v # u => row'[v] = row[v]
      /\ row'[u] = NoRow
  BY <1>2 DEF DeleteRow, RemStep, TablesInv, TablesTypes
<1>4. OnlyMoves(c) /\ OnlyWrites(c, u)
  BY <1>2, <1>3 DEF OnlyMoves, OnlyWrites, NoRow
<1>5. RemStands(c)'
  BY <1>3 DEF RemStands, Ended
<1>6. ASSUME NEW s \in Uri \ disturbed', NEW t \in (row'[s].up \cap Uri) \ disturbed'
      PROVE  \/ Exists(t)' /\ s \in row'[t].down
             \/ Exists(t)' /\ BeingAdded(s, t)'
             \/ BeingRemoved(s)'
  <2>1. s # u /\ t \in row[s].up
    BY <1>3, <1>6 DEF NoRow
  <2>2. t # u
    BY <1>1, <1>6, <2>1 DEF RemStands
  <2> QED
    BY <1>2, <1>3, <1>4, <2>1, <2>2, OtherEdges DEF Exists
<1> QED
  BY <1>2, <1>4, <1>5, <1>6, OthersStand DEF EdgesWhole

-----------------------------------------------------------------------------
LEMMA TablesInvariant == TablesSpec => []TablesInv
<1>1. TablesInit => TablesInv
  <2> SUFFICES ASSUME TablesInit PROVE TablesInv
    OBVIOUS
  <2>1. TablesTypes
    BY DEF TablesInit, TablesTypes, NoRow, CatalogRows, PutStates, RemStates
  <2>2. \A c \in TableCall : ~Running(c)
    BY DEF TablesInit, TableCall, Running
  <2>3. (\A c \in Putter : PutStands(c)) /\ (\A c \in Remover : RemStands(c))
    BY DEF TablesInit, PutStands, RemStands, Idle
  <2>4. EdgesWhole
    BY DEF TablesInit, EdgesWhole, NoRow
  <2> QED
    BY <2>1, <2>2, <2>3, <2>4 DEF TablesInv, OverlapsSeen
<1>2. TablesInv /\ [TablesNext]_tableVars => TablesInv'
  <2>1. ASSUME TablesInv, TablesNext PROVE TablesInv'
    <3>1. TablesTypes'
      BY <2>1, TypesHold DEF TablesInv
    <3>2. OverlapsSeen' /\ disturbed \subseteq disturbed'
      BY <2>1, OverlapsAreSeen DEF TablesNext
    <3>3. ASSUME NEW c \in Putter, OnDocumentPut(c)
          PROVE  (\A d \in Putter : PutStands(d)') /\ (\A d \in Remover : RemStands(d)')
                 /\ EdgesWhole'
      BY <2>1, <3>2, <3>3, EntryExistsStep, PopulateStep, ResolveStep, SetUpstreamStep,
         ReadDownstreamStep, AddStep DEF OnDocumentPut
    <3>4. ASSUME NEW c \in Remover, OnDocumentDelete(c)
          PROVE  (\A d \in Putter : PutStands(d)') /\ (\A d \in Remover : RemStands(d)')
                 /\ EdgesWhole'
      BY <2>1, <3>2, <3>4, ReadRowStep, ReadListStep, RemoveStep, DeleteStep
         DEF OnDocumentDelete
    <3> QED
      BY <2>1, <3>1, <3>2, <3>3, <3>4 DEF TablesInv, TablesNext
  <2>2. ASSUME TablesInv, UNCHANGED tableVars PROVE TablesInv'
    BY <2>2 DEF tableVars, TablesInv, TablesTypes, OverlapsSeen, PutStands, RemStands, EdgesWhole,
                BeingAdded, BeingRemoved, Exists, Running, Concerns
  <2> QED
    BY <2>1, <2>2
<1> QED
  BY <1>1, <1>2, PTL DEF TablesSpec

(***************************************************************************)
(* Between calls an edge of the lineage is in both rows                    *)
(* (UpstreamIsAnswered), for any rows, any documents referring to each     *)
(* other, and any number of puts and removals that overlap, except at rows *)
(* that two of them were about at once: app/lineage_manager.go reads,      *)
(* changes and writes back lists without a transaction, and that alone     *)
(* loses edges.                                                            *)
(***************************************************************************)
THEOREM EdgesAreWhole == TablesSpec => []UpstreamIsAnswered
<1>1. TablesInv => UpstreamIsAnswered
  <2> SUFFICES ASSUME TablesInv, \A c \in TableCall : ~Running(c),
                      NEW s \in Uri \ disturbed, NEW t \in (row[s].up \cap Uri) \ disturbed
               PROVE  Exists(t) /\ s \in row[t].down
    BY DEF UpstreamIsAnswered
  <2>1. ~BeingAdded(s, t) /\ ~BeingRemoved(s)
    BY CallsRun DEF BeingAdded, BeingRemoved, TableCall
  <2> QED
    BY <2>1 DEF TablesInv, EdgesWhole
<1> QED
  BY <1>1, TablesInvariant, PTL

-----------------------------------------------------------------------------
(* Uploads and their metadata.                                             *)

Attempts == {"new", "storing", "refused", "indexing", "stopped", "done"} \cup Places

(***************************************************************************)
(* The shape of the state; an SQL insert stores no template.               *)
(***************************************************************************)
UploadTypes ==
    /\ at \in [Attempt -> Attempts]
    /\ metadata \in [Places -> SUBSET {MetadataEntry(a) : a \in Attempt}]
    /\ confirmed \subseteq Attempt
    /\ \A a \in Attempt : at[a] \in {"storing", "indexing"} => asked[a].kind # "sql"

(***************************************************************************)
(* Who is confirmed, and that only they are described.                     *)
(***************************************************************************)
ConfirmedIsStored ==
    /\ \A a \in Attempt : at[a] \in Places \cup {"done"} => a \in confirmed
    /\ \A a \in confirmed :
         /\ at[a] \notin {"new", "storing", "indexing"}
         /\ asked[a].kind # "sql" => HasStored(a)
    /\ \A p \in Places : \A e \in metadata[p] : e.id[2] \in confirmed

(***************************************************************************)
(* The goroutine of a has been at the place p; and there the entry is, or  *)
(* the write failed.                                                       *)
(***************************************************************************)
Past(a, p) ==
    \/ at[a] = "done"
    \/ at[a] = "memory" /\ p # "memory"
    \/ at[a] = "metadata_catalog" /\ p = "KBMetadata"

DescribedSoFar ==
    \A a \in Attempt, p \in Places :
        Past(a, p) => \/ MetadataEntry(a) \in metadata[p] \/ <<a, p>> \in broken
                      \/ p = "memory" /\ asked[a].kind = "sql"

(***************************************************************************)
(* A document may stand for the uploads of one file to one store: it has   *)
(* their id, and so their name and content. What is uploaded has one until *)
(* it is deleted.                                                          *)
(***************************************************************************)
IsDocumentOf(d, a) ==
    /\ d.id = TemplateID(a) /\ d.store = StoreName(a) /\ d.content = asked[a].content
    /\ \/ d.name = Filename(a)
       \/ \E b \in Attempt : /\ asked[b].kind = "legacy" /\ HasStored(b)
                             /\ Filename(b) = Filename(a) /\ d = ToscaDoc(b)

StoredIsKept ==
    \A a \in Attempt : HasStored(a) => a \in removed \/ \E d \in templates : IsDocumentOf(d, a)

(***************************************************************************)
(* The same of the rows of toscametadata.                                  *)
(***************************************************************************)
IsRowOf(r, a) ==
    r.id = TemplateID(a) /\ r.name = Filename(a) /\ r.content = asked[a].content

RowsKept ==
    \A a \in confirmed :
        asked[a].kind # "sql" => \/ <<a, "toscametadata">> \in broken
                                 \/ \E r \in toscametadata : IsRowOf(r, a)

UploadsInv == UploadTypes /\ ConfirmedIsStored /\ DescribedSoFar /\ StoredIsKept /\ RowsKept

-----------------------------------------------------------------------------
(***************************************************************************)
(* Files with one id are one file: the hash is of the name, if there is    *)
(* one, and of the content (http.go).                                      *)
(***************************************************************************)
LEMMA SameIDSameFile ==
    ASSUME NEW a, NEW b, TemplateID(a) = TemplateID(b)
    PROVE  Filename(a) = Filename(b) /\ asked[a].content = asked[b].content
<1>1. \A x, y, z : <<x>> # <<y, z>>
  OBVIOUS
<1> QED
  BY <1>1 DEF TemplateID

(***************************************************************************)
(* An entry tells whose it is; none has the id that a delete looks for.    *)
(***************************************************************************)
LEMMA EntriesApart ==
    ASSUME NEW a, NEW doc
    PROVE  MetadataEntry(a).id[2] = a /\ MetadataEntry(a).id # MetadataID(doc)
BY DEF MetadataEntry, SqlEntry, ToscaEntry, MetadataID

(***************************************************************************)
(* What steps have in common: files are not asked for again, documents     *)
(* stand for the same uploads, and what nobody touches stays kept and      *)
(* described.                                                              *)
(***************************************************************************)
LEMMA FilesStay ==
    ASSUME asked' = asked, NEW a
    PROVE  /\ Filename(a)' = Filename(a) /\ TemplateID(a)' = TemplateID(a)
           /\ StoreName(a)' = StoreName(a) /\ ToscaDoc(a)' = ToscaDoc(a)
           /\ MetadataEntry(a)' = MetadataEntry(a)
BY DEF Filename, TemplateID, StoreName, ToscaDoc, MetadataEntry, SqlEntry, ToscaEntry

LEMMA DocumentsStay ==
    ASSUME asked' = asked, \A b \in Attempt : HasStored(b) => HasStored(b)',
           NEW a, NEW d, IsDocumentOf(d, a)
    PROVE  IsDocumentOf(d, a)'
BY FilesStay DEF IsDocumentOf

LEMMA StoredStay ==
    ASSUME StoredIsKept, asked' = asked, UNCHANGED <<templates, removed>>,
           \A b \in Attempt : HasStored(b)' <=> HasStored(b)
    PROVE  StoredIsKept'
BY DocumentsStay DEF StoredIsKept

LEMMA RowsStay ==
    ASSUME RowsKept, asked' = asked, UNCHANGED <<toscametadata, confirmed>>,
           broken \subseteq broken'
    PROVE  RowsKept'
BY FilesStay DEF RowsKept, IsRowOf

LEMMA MetadataStays ==
    ASSUME DescribedSoFar, asked' = asked, metadata' = metadata, broken \subseteq broken',
           \A a \in Attempt, p \in Places : Past(a, p)' => Past(a, p)
    PROVE  DescribedSoFar'
BY FilesStay DEF DescribedSoFar

-----------------------------------------------------------------------------
(***************************************************************************)
(* The steps of requests, of goroutines, and of the process.               *)
(***************************************************************************)
LEMMA ReceiveStep ==
    ASSUME UploadsInv, NEW a \in Attempt, Receive(a)
    PROVE  UploadsInv'
<1> USE DEF UploadsInv
<1>1. /\ at' \in [Attempt -> Attempts] /\ at[a] = "new" /\ at'[a] \in {"storing", "refused"}
      /\ asked[a].kind # "sql"
      /\ \A b \in Attempt : b # a => at'[b] = at[b]
      /\ UNCHANGED <<templates, toscametadata, metadata, confirmed, broken, removed, asked>>
  BY DEF Receive, UploadTypes, Attempts
<1>2. \A b \in Attempt : HasStored(b)' <=> HasStored(b)
  BY <1>1 DEF HasStored
<1>3. UploadTypes'
  BY <1>1, FilesStay DEF UploadTypes
<1>4. ConfirmedIsStored'
  BY <1>1, <1>2 DEF ConfirmedIsStored, UploadTypes, Places
<1>5. \A b \in Attempt, p \in Places : Past(b, p)' => Past(b, p)
  BY <1>1 DEF Past
<1> QED
  BY <1>1, <1>2, <1>3, <1>4, <1>5, StoredStay, RowsStay, MetadataStays

LEMMA PutTemplateStep ==
    ASSUME UploadsInv, NEW a \in Attempt, PutTemplate(a)
    PROVE  UploadsInv'
<1> USE DEF UploadsInv
<1>1. /\ at' \in [Attempt -> Attempts] /\ at[a] = "storing" /\ at'[a] = "indexing"
      /\ asked[a].kind # "sql"
      /\ \A b \in Attempt : b # a => at'[b] = at[b]
      /\ templates' = Replacing(ToscaDoc(a))
      /\ UNCHANGED <<toscametadata, metadata, confirmed, broken, removed, asked>>
  BY DEF PutTemplate, UploadTypes, Attempts
<1>2. \A b \in Attempt : HasStored(b)' <=> (b = a \/ HasStored(b))
  BY <1>1 DEF HasStored
<1>3. UploadTypes'
  BY <1>1, FilesStay DEF UploadTypes
<1>4. ConfirmedIsStored'
  BY <1>1, <1>2 DEF ConfirmedIsStored, UploadTypes, Places
<1>5. \A b \in Attempt, p \in Places : Past(b, p)' => Past(b, p)
  BY <1>1 DEF Past
<1>6. ToscaDoc(a) \in templates'
  BY <1>1 DEF Replacing
<1>7. ASSUME NEW b \in Attempt, TemplateID(b) = TemplateID(a), StoreName(b) = StoreName(a),
             NEW d, d = ToscaDoc(a)
      PROVE  IsDocumentOf(d, b)'
  <2>1. Filename(b) = Filename(a) /\ asked[b].content = asked[a].content
    BY <1>7, SameIDSameFile
  <2>2. /\ d.id = TemplateID(a) /\ d.store = StoreName(a) /\ d.content = asked[a].content
        /\ asked[a].kind # "legacy" => d.name = Filename(a)
    BY <1>7 DEF ToscaDoc
  <2>3. HasStored(a)'
    BY <1>2
  <2> QED
    BY <1>1, <1>7, <2>1, <2>2, <2>3, FilesStay DEF IsDocumentOf
<1>8. ASSUME NEW b \in Attempt, HasStored(b), b \notin removed
      PROVE  \E d \in templates' : IsDocumentOf(d, b)'
  <2>1. PICK d \in templates : IsDocumentOf(d, b)
    BY <1>8 DEF StoredIsKept
  <2>2. CASE d \in templates'
    BY <1>1, <1>2, <2>1, <2>2, DocumentsStay
  <2>3. CASE d \notin templates'
    <3>1. d.store = ToscaDoc(a).store /\ d.id = ToscaDoc(a).id
      BY <1>1, <2>1, <2>3 DEF Replacing
    <3>2. TemplateID(b) = TemplateID(a) /\ StoreName(b) = StoreName(a)
      BY <2>1, <3>1 DEF IsDocumentOf, ToscaDoc
    <3> QED
      BY <1>6, <1>7, <3>2
  <2> QED
    BY <2>2, <2>3
<1>9. StoredIsKept'
  BY <1>1, <1>2, <1>6, <1>7, <1>8 DEF StoredIsKept
<1> QED
  BY <1>1, <1>3, <1>4, <1>5, <1>9, RowsStay, MetadataStays

LEMMA PutFailsStep ==
    ASSUME UploadsInv, NEW a \in Attempt, PutTemplateFails(a)
    PROVE  UploadsInv'
<1> USE DEF UploadsInv
<1>1. /\ at' \in [Attempt -> Attempts] /\ at[a] = "storing" /\ at'[a] = "refused"
      /\ \A b \in Attempt : b # a => at'[b] = at[b]
      /\ UNCHANGED <<templates, toscametadata, metadata, confirmed, broken, removed, asked>>
  BY DEF PutTemplateFails, UploadTypes, Attempts
<1>2. \A b \in Attempt : HasStored(b)' <=> HasStored(b)
  BY <1>1 DEF HasStored
<1>3. UploadTypes'
  BY <1>1, FilesStay DEF UploadTypes
<1>4. ConfirmedIsStored'
  BY <1>1, <1>2 DEF ConfirmedIsStored, UploadTypes, Places
<1>5. \A b \in Attempt, p \in Places : Past(b, p)' => Past(b, p)
  BY <1>1 DEF Past
<1> QED
  BY <1>1, <1>2, <1>3, <1>4, <1>5, StoredStay, RowsStay, MetadataStays

LEMMA IndexStep ==
    ASSUME UploadsInv, NEW a \in Attempt, IndexTemplate(a)
    PROVE  UploadsInv'
<1> USE DEF UploadsInv
<1>1. /\ at' \in [Attempt -> Attempts] /\ at[a] = "indexing" /\ at'[a] = "KBMetadata"
      /\ asked[a].kind # "sql"
      /\ \A b \in Attempt : b # a => at'[b] = at[b]
      /\ confirmed' = confirmed \cup {a}
      /\ broken \subseteq broken'
      /\ UNCHANGED <<templates, metadata, removed, asked>>
  BY DEF IndexTemplate, UploadTypes, Attempts, Places, Tried
<1>2. \A b \in Attempt : HasStored(b)' <=> HasStored(b)
  BY <1>1 DEF HasStored
<1>3. UploadTypes'
  BY <1>1, FilesStay DEF UploadTypes
<1>4. ConfirmedIsStored'
  BY <1>1, <1>2 DEF ConfirmedIsStored, UploadTypes, Places, HasStored
<1>5. \A b \in Attempt, p \in Places : Past(b, p)' => Past(b, p)
  BY <1>1 DEF Past
<1>6. RowsKept'
  <2>1. CASE UNCHANGED toscametadata /\ broken' = broken \cup {<<a, "toscametadata">>}
    BY <1>1, <2>1, FilesStay DEF RowsKept, IsRowOf
  <2>2. CASE InsertTOSCAMetadata(a)
    <3> DEFINE r == [id |-> TemplateID(a), name |-> Filename(a), content |-> asked[a].content]
    <3>1. toscametadata' = {x \in toscametadata : x.id # TemplateID(a)} \cup {r}
      BY <2>2 DEF InsertTOSCAMetadata
    <3>2. ASSUME NEW b \in Attempt, TemplateID(b) = TemplateID(a)
          PROVE  IsRowOf(r, b)
      BY <3>2, SameIDSameFile DEF IsRowOf
    <3>3. ASSUME NEW b \in confirmed, asked[b].kind # "sql", <<b, "toscametadata">> \notin broken
          PROVE  \E x \in toscametadata' : IsRowOf(x, b)
      <4>1. PICK x \in toscametadata : IsRowOf(x, b)
        BY <3>3 DEF RowsKept
      <4> QED
        BY <3>1, <3>2, <3>3, <4>1 DEF UploadTypes, IsRowOf
    <3>4. \A b, x : IsRowOf(x, b)' <=> IsRowOf(x, b)
      BY <1>1, FilesStay DEF IsRowOf
    <3> HIDE DEF r
    <3> QED
      BY <1>1, <3>1, <3>2, <3>3, <3>4 DEF RowsKept
  <2> QED
    BY <2>1, <2>2 DEF IndexTemplate, Tried
<1> QED
  BY <1>1, <1>2, <1>3, <1>4, <1>5, <1>6, StoredStay, MetadataStays

LEMMA SqlInsertStep ==
    ASSUME UploadsInv, NEW a \in Attempt, SqlInsert(a)
    PROVE  UploadsInv'
<1> USE DEF UploadsInv
<1>1. /\ at' \in [Attempt -> Attempts] /\ at[a] = "new" /\ at'[a] \in {"refused", "KBMetadata"}
      /\ \A b \in Attempt : b # a => at'[b] = at[b]
      /\ confirmed' = IF at'[a] = "refused" THEN confirmed ELSE confirmed \cup {a}
      /\ asked[a].kind = "sql"
      /\ UNCHANGED <<templates, toscametadata, metadata, broken, removed, asked>>
  BY DEF SqlInsert, UploadTypes, Attempts, Places
<1>2. \A b \in Attempt : HasStored(b)' <=> HasStored(b)
  BY <1>1 DEF HasStored
<1>3. UploadTypes'
  BY <1>1, FilesStay DEF UploadTypes
<1>4. ConfirmedIsStored'
  BY <1>1, <1>2 DEF ConfirmedIsStored, UploadTypes, Places
<1>5. \A b \in Attempt, p \in Places : Past(b, p)' => Past(b, p)
  BY <1>1 DEF Past
<1>6. RowsKept'
  BY <1>1, FilesStay DEF RowsKept, IsRowOf
<1> QED
  BY <1>1, <1>2, <1>3, <1>4, <1>5, <1>6, StoredStay, MetadataStays

LEMMA DescribeStep ==
    ASSUME UploadsInv, NEW a \in Attempt, NEW p \in Places, Describe(a, p)
    PROVE  UploadsInv'
<1> USE DEF UploadsInv
<1>1. /\ at' \in [Attempt -> Attempts] /\ at[a] = p
      /\ at'[a] = NextPlace(a, p)
      /\ \A b \in Attempt : b # a => at'[b] = at[b]
      /\ broken \subseteq broken'
      /\ UNCHANGED <<templates, toscametadata, confirmed, removed, asked>>
  BY DEF Describe, UploadTypes, Attempts, Places, Tried, NextPlace, AfterSql
<1>2. a \in confirmed
  BY <1>1 DEF ConfirmedIsStored
<1>3. NextPlace(a, p) \in {"metadata_catalog", "memory", "done"}
  BY DEF NextPlace, AfterSql
<1>4. \A b \in Attempt : HasStored(b)' <=> HasStored(b)
  BY <1>1, <1>3 DEF HasStored, Places
<1>5. \/ metadata' = [metadata EXCEPT ![p] = @ \cup {MetadataEntry(a)}]
      \/ metadata' = metadata /\ p # "memory" /\ broken' = broken \cup {<<a, p>>}
  BY DEF Describe, Tried
<1>6. UploadTypes'
  BY <1>1, <1>3, <1>5, FilesStay DEF UploadTypes
<1>7. ConfirmedIsStored'
  BY <1>1, <1>2, <1>3, <1>4, <1>5, EntriesApart DEF ConfirmedIsStored, UploadTypes, Places
<1>8. DescribedSoFar'
  <2>1. ASSUME NEW b \in Attempt, NEW q \in Places, Past(b, q)', ~Past(b, q)
        PROVE  b = a /\ (q = p \/ (q = "memory" /\ asked[a].kind = "sql"))
    BY <1>1, <2>1 DEF Past, NextPlace, AfterSql, Places
  <2>2. \A q \in Places : metadata[q] \subseteq metadata'[q]
    BY <1>5 DEF UploadTypes
  <2>3. MetadataEntry(a) \in metadata'[p] \/ <<a, p>> \in broken'
    BY <1>5 DEF UploadTypes
  <2> QED
    BY <1>1, <2>1, <2>2, <2>3, FilesStay DEF DescribedSoFar
<1> QED
  BY <1>1, <1>4, <1>6, <1>7, <1>8, StoredStay, RowsStay

LEMMA DeleteTemplateStep ==
    ASSUME UploadsInv, NEW doc \in templates, DeleteTemplate(doc)
    PROVE  UploadsInv'
<1> USE DEF UploadsInv
<1>1. /\ templates' = templates \ {doc}
      /\ removed' = removed \cup {a \in Attempt : /\ HasStored(a)
                                                  /\ ToscaDoc(a).store = doc.store
                                                  /\ ToscaDoc(a).id = doc.id}
      /\ UNCHANGED <<at, toscametadata, confirmed, broken, asked>>
      /\ metadata' = [metadata EXCEPT !["KBMetadata"] = {e \in @ : e.id # MetadataID(doc)}]
  BY DEF DeleteTemplate
<1>2. \A b \in Attempt : HasStored(b)' <=> HasStored(b)
  BY <1>1 DEF HasStored
<1>3. \A q \in Places : /\ metadata'[q] \subseteq metadata[q]
                        /\ \A a \in Attempt : MetadataEntry(a) \in metadata[q] =>
                                              MetadataEntry(a) \in metadata'[q]
  BY <1>1, EntriesApart DEF UploadTypes
<1>4. UploadTypes'
  BY <1>1, FilesStay DEF UploadTypes
<1>5. ConfirmedIsStored'
  BY <1>1, <1>2, <1>3 DEF ConfirmedIsStored, UploadTypes
<1>6. DescribedSoFar'
  BY <1>1, <1>3, FilesStay DEF DescribedSoFar, Past
<1>7. StoredIsKept'
  <2>1. ASSUME NEW a \in Attempt, HasStored(a), a \notin removed'
        PROVE  \E d \in templates' : IsDocumentOf(d, a)'
    <3>1. PICK d \in templates : IsDocumentOf(d, a)
      BY <1>1, <2>1 DEF StoredIsKept
    <3>2. d # doc
      BY <1>1, <2>1, <3>1 DEF IsDocumentOf, ToscaDoc
    <3> QED
      BY <1>1, <1>2, <3>1, <3>2, DocumentsStay
  <2> QED
    BY <1>2, <2>1 DEF StoredIsKept
<1> QED
  BY <1>1, <1>4, <1>5, <1>6, <1>7, RowsStay

LEMMA StopStep ==
    ASSUME UploadsInv, NodeStops
    PROVE  UploadsInv'
<1> USE DEF UploadsInv
<1>1. /\ \A a \in Attempt :
           at'[a] = IF at[a] \in {"new", "refused", "done"} THEN at[a]
                    ELSE IF HasStored(a) THEN "stopped" ELSE "refused"
      /\ at' \in [Attempt -> Attempts]
      /\ broken' = broken \cup {<<a, "memory">> : a \in confirmed}
      /\ UNCHANGED <<templates, toscametadata, confirmed, removed, asked>>
      /\ metadata' = [metadata EXCEPT !["memory"] = {}]
  BY DEF NodeStops, UploadTypes, Attempts
<1>2. \A b \in Attempt : HasStored(b)' <=> HasStored(b)
  BY <1>1 DEF HasStored
<1>3. UploadTypes'
  BY <1>1, FilesStay DEF UploadTypes
<1>4. ConfirmedIsStored'
  BY <1>1, <1>2 DEF ConfirmedIsStored, UploadTypes, Places, HasStored
<1>5. ASSUME NEW a \in Attempt, NEW p \in Places, Past(a, p)'
      PROVE  \/ MetadataEntry(a) \in metadata'[p] \/ <<a, p>> \in broken'
             \/ p = "memory" /\ asked[a].kind = "sql"
  <2>1. at[a] = "done" /\ Past(a, p)
    BY <1>1, <1>5 DEF Past
  <2>2. CASE p = "memory"
    BY <1>1, <1>3, <2>1, <2>2 DEF ConfirmedIsStored, DescribedSoFar
  <2>3. CASE p # "memory"
    BY <1>1, <2>1, <2>3 DEF DescribedSoFar, UploadTypes
  <2> QED
    BY <2>2, <2>3
<1>6. DescribedSoFar'
  BY <1>1, <1>5, FilesStay DEF DescribedSoFar
<1> QED
  BY <1>1, <1>2, <1>3, <1>4, <1>6, StoredStay, RowsStay

LEMMA UploadsInvariant == CatalogSpec => []UploadsInv
<1>1. CatalogInit => UploadsInv
  BY DEF CatalogInit, UploadsInv, UploadTypes, Attempts, Places, ConfirmedIsStored,
         DescribedSoFar, Past, StoredIsKept, HasStored, RowsKept
<1>2. UploadsInv /\ [CatalogNext]_catVars => UploadsInv'
  <2>1. ASSUME UploadsInv, UNCHANGED catVars PROVE UploadsInv'
    <3>1. \A b \in Attempt : HasStored(b)' <=> HasStored(b)
      BY <2>1 DEF catVars, HasStored
    <3>2. \A a \in Attempt, p \in Places : Past(a, p)' => Past(a, p)
      BY <2>1 DEF catVars, Past
    <3>3. UploadTypes' /\ ConfirmedIsStored'
      BY <2>1, <3>1, FilesStay DEF catVars, UploadsInv, UploadTypes, ConfirmedIsStored
    <3> QED
      BY <2>1, <3>1, <3>2, <3>3, StoredStay, RowsStay, MetadataStays DEF catVars, UploadsInv
  <2>2. ASSUME UploadsInv, CatalogNext PROVE UploadsInv'
    BY <2>2, ReceiveStep, PutTemplateStep, PutFailsStep, IndexStep, SqlInsertStep,
       DescribeStep, DeleteTemplateStep, StopStep DEF CatalogNext
  <2> QED
    BY <2>1, <2>2
<1> QED
  BY <1>1, <1>2, PTL DEF CatalogSpec

(***************************************************************************)
(* What a client was told is uploaded is there under its own name until it *)
(* is deleted, and described once in each place where the write did not    *)
(* fail (UploadsAreDescribed), for any files, stores and requests, in any  *)
(* order, and across restarts: api/http.go makes the id of a hash of name  *)
(* and content so that uploads of one content do not replace each other.   *)
(***************************************************************************)
THEOREM UploadsStayDescribed == CatalogSpec => []UploadsAreDescribed
<1>1. UploadsInv => UploadsAreDescribed
  <2> SUFFICES ASSUME UploadsInv PROVE UploadsAreDescribed
    OBVIOUS
  <2>1. ASSUME NEW a \in Attempt, NEW p \in Places, MetadataEntry(a) \in metadata[p]
        PROVE  Described(a, p)
    <3>1. {e \in metadata[p] : e.id[2] = a} = {MetadataEntry(a)}
      BY <2>1, EntriesApart DEF UploadsInv, UploadTypes
    <3> QED
      BY <3>1, FS_Singleton DEF Described
  <2>2. ASSUME NEW a \in confirmed, at[a] = "done", NEW p \in Places
        PROVE  Described(a, p) \/ <<a, p>> \in broken \/ (p = "memory" /\ asked[a].kind = "sql")
    BY <2>1, <2>2 DEF UploadsInv, UploadTypes, DescribedSoFar, Past
  <2>3. ASSUME NEW a \in confirmed, asked[a].kind # "sql"
        PROVE  /\ a \in removed \/ Kept(a)
               /\ \/ <<a, "toscametadata">> \in broken
                  \/ \E r \in toscametadata : r.name = Filename(a) /\ r.content = asked[a].content
    BY <2>3 DEF UploadsInv, UploadTypes, ConfirmedIsStored, StoredIsKept, RowsKept, Kept,
                IsDocumentOf, IsRowOf
  <2> QED
    BY <2>2, <2>3 DEF UploadsInv, ConfirmedIsStored, UploadsAreDescribed
<1> QED
  BY <1>1, UploadsInvariant, PTL

-----------------------------------------------------------------------------
(* Queries of all peers.                                                   *)

(***************************************************************************)
(* The fields of a call.                                                   *)
(***************************************************************************)
Fields ==
    {"req", "local", "rows", "remote", "toAsk", "running", "asked", "answered", "nonEmpty",
     "found", "failed", "expired", "at"}

CallPhases == {"local", "fan out", "asking", "answer", "putting"}

(***************************************************************************)
(* A call is not made, over, or in one of its phases.                      *)
(***************************************************************************)
CallsShape ==
    /\ calm \subseteq Query
    /\ query = [x \in Query |-> query[x]]
    /\ \A x \in Query : \/ query[x] \in {Unasked, Done}
                        \/ DOMAIN query[x] = Fields /\ query[x].at \in CallPhases

(***************************************************************************)
(* What a node held while the call ran.                                    *)
(***************************************************************************)
HeldAt(x, n) == {h[2] : h \in {h \in held[x] : h[1] = n}}

(***************************************************************************)
(* What was held all the time is held now.                                 *)
(***************************************************************************)
HeldStill == \A x \in Query : held[x] \subseteq Holding(x)

(***************************************************************************)
(* Once the local store is read, the rows have what the node held.         *)
(***************************************************************************)
LocalKept(x) ==
    /\ query[x].at = "local" => query[x].local
    /\ query[x].at = "answer" => ~ query[x].local
    /\ query[x].at \in {"fan out", "asking", "answer"} /\ ReadsLocal(query[x].req) /\ ~ query[x].local =>
           HeldAt(x, Self) \subseteq Names(query[x].rows)

(***************************************************************************)
(* The rows have what each peer held that has answered.                    *)
(***************************************************************************)
RemoteKept(x) ==
    /\ query[x].at = "asking" =>
           \A p \in query[x].answered : HeldAt(x, p) \subseteq Names(query[x].remote)
    /\ query[x].at = "answer" =>
           \A p \in query[x].answered : HeldAt(x, p) \subseteq Names(query[x].rows)

(***************************************************************************)
(* No peer is forgotten: it has answered, a worker is asking it, or it is  *)
(* still to be asked, unless the call has failed; and an answer is only    *)
(* given when all or enough have answered, or the time is over.            *)
(***************************************************************************)
PeersAsked(x) ==
    /\ query[x].at \in {"local", "fan out"} =>
           query[x].answered = {} /\ query[x].asked = {} /\ query[x].toAsk = {} /\ query[x].running = {}
    /\ query[x].at = "asking" =>
           /\ query[x].answered \cup query[x].running \cup query[x].toAsk \subseteq query[x].asked
           /\ query[x].failed \/ query[x].asked \subseteq query[x].answered \cup query[x].running \cup query[x].toAsk
           /\ ~ Pooled(x) => query[x].toAsk = {}
    /\ query[x].at = "answer" =>
           query[x].answered = query[x].asked \/ query[x].failed \/ query[x].expired \/ Enough(query[x])

(***************************************************************************)
(* A row as the entries make it.                                           *)
(***************************************************************************)
IsLatest(doc) ==
    /\ doc.val = Rebuilt(entries, <<Default, doc.name>>)
    /\ doc.val # Nothing

(***************************************************************************)
(* A call during which no one else writes and the peers agree: what the    *)
(* peers sent is the latest.                                               *)
(***************************************************************************)
CalmKept(x) ==
    x \in calm =>
        /\ query[x].at \notin {"idle", "done"}
        /\ PeersAgree
        /\ query[x].req.store = Default =>
            /\ \A doc \in query[x].remote : IsLatest(doc)
            /\ query[x].at # "putting" =>
                   \A doc \in query[x].rows : IsLatest(doc) \/ HasKey(Self, <<Default, doc.name>>)
            /\ query[x].at = "putting" => 
                   seen[Self] # entries /\ \A doc \in query[x].rows : IsLatest(doc)

(***************************************************************************)
(* Without peers nothing comes from peers.                                 *)
(***************************************************************************)
NoPeers ==
    Peer = {} => cache = {} /\ \A x \in Query : query[x].at \in CallPhases => query[x].remote = {}

CallKept(x) == LocalKept(x) /\ RemoteKept(x) /\ PeersAsked(x) /\ CalmKept(x)

QueryInv ==
    /\ CallsShape
    /\ HeldStill
    /\ \A x \in Query : CallKept(x)
    /\ NoPeers

LEMMA QueryInit == Init => QueryInv
  <1> SUFFICES ASSUME Init PROVE QueryInv
    OBVIOUS
  <1>1. \A x \in Query : query[x] = Unasked /\ query[x].at = "idle" /\ held[x] = {} /\ x \notin calm
    BY DEF Init, Unasked
  <1>2. query = [x \in Query |-> query[x]] /\ cache = {} /\ calm = {}
    BY DEF Init
  <1> QED BY <1>1, <1>2 DEF QueryInv, CallsShape, HeldStill, CallKept, LocalKept, RemoteKept, PeersAsked,
                            CalmKept, NoPeers, CallPhases

LEMMA ObservedFacts ==
    ASSUME Observed, NEW x \in Query
    PROVE  /\ held'[x] \subseteq Holding(x)'
           /\ query[x].at # "idle" => held'[x] \subseteq held[x]
           /\ x \in calm' => /\ query'[x].at \notin {"idle", "done"}
                             /\ PeersAgree'
                             /\ seen' = seen
                             /\ x \in calm \/ query[x].at = "idle"
  <1>1. held'[x] = IF query'[x].at \in {"idle", "putting", "done"} THEN {}
                   ELSE IF query[x].at = "idle" THEN Holding(x)' ELSE held[x] \cap Holding(x)'
    BY DEF Observed
  <1>2. x \in calm' => /\ query'[x].at \notin {"idle", "done"}
                       /\ PeersAgree' /\ seen' = seen
                       /\ x \in calm \/ query[x].at = "idle"
    BY DEF Observed
  <1> QED BY <1>1, <1>2

LEMMA HeldNames ==
    ASSUME HeldStill, NEW x \in Query
    PROVE  /\ HeldAt(x, Self) \subseteq Names(Rows(Self, query[x].req.store))
           /\ \A p \in Peer : HeldAt(x, p) \subseteq Names(Rows(p, Default))
  <1>1. \A h \in held[x] :
           h[2] \in Name /\ HasKey(h[1], <<IF h[1] = Self THEN query[x].req.store ELSE Default, h[2]>>)
    BY DEF HeldStill, Holding
  <1>2. \A n, s : \A d \in Name : HasKey(n, <<s, d>>) => d \in Names(Rows(n, s))
    <2> SUFFICES ASSUME NEW n, NEW s, NEW d \in Name, HasKey(n, <<s, d>>)
                 PROVE  d \in Names(Rows(n, s))
      OBVIOUS
    <2>1. <<s, d>> \in {k \in {s} \X Name : HasKey(n, k)}
      OBVIOUS
    <2>2. Row(<<s, d>>, n) \in Rows(n, s)
      BY <2>1 DEF Rows
    <2>3. Row(<<s, d>>, n).name = d
      BY DEF Row
    <2> QED BY <2>2, <2>3 DEF Names
  <1> QED BY <1>1, <1>2 DEF HeldAt, Peer

LEMMA PeersRows ==
    ASSUME PeersAgree, NEW p \in Peer, NEW doc \in Rows(p, Default)
    PROVE  IsLatest(doc)
  <1>1. PICK k \in {k \in {Default} \X Name : HasKey(p, k)} : doc = Row(k, p)
    BY DEF Rows
  <1>2. k = <<Default, k[2]>> /\ HasKey(p, k)
    BY <1>1
  <1>3. doc.name = k[2] /\ doc.val = Rebuilt(seen[p], k)
    BY <1>1 DEF Row
  <1>4. seen[p] = entries
    BY DEF PeersAgree
  <1> QED BY <1>2, <1>3, <1>4 DEF IsLatest, HasKey

LEMMA OwnRows ==
    ASSUME NEW doc \in Rows(Self, Default)
    PROVE  HasKey(Self, <<Default, doc.name>>)
  <1>1. PICK k \in {k \in {Default} \X Name : HasKey(Self, k)} : doc = Row(k, Self)
    BY DEF Rows
  <1>2. k = <<Default, k[2]>> /\ HasKey(Self, k)
    BY <1>1
  <1>3. doc.name = k[2]
    BY <1>1 DEF Row
  <1> QED BY <1>2, <1>3

(***************************************************************************)
(* A call that takes no step keeps what it has.                            *)
(***************************************************************************)
LEMMA OthersKept ==
    ASSUME QueryInv, Observed, NEW x \in Query, query'[x] = query[x]
    PROVE  CallKept(x)'
  <1>1. /\ held'[x] \subseteq Holding(x)'
        /\ query[x].at # "idle" => held'[x] \subseteq held[x]
        /\ x \in calm' => /\ query'[x].at \notin {"idle", "done"}
                          /\ PeersAgree'
                          /\ seen' = seen
                          /\ x \in calm \/ query[x].at = "idle"
    BY ObservedFacts
  <1>2. \A n : query[x].at # "idle" => HeldAt(x, n)' \subseteq HeldAt(x, n)
    BY <1>1 DEF HeldAt
  <1>3. LocalKept(x)' /\ RemoteKept(x)'
    BY <1>2 DEF QueryInv, CallKept, LocalKept, RemoteKept, ReadsLocal, Names
  <1>4. PeersAsked(x)'
    BY DEF QueryInv, CallKept, PeersAsked, Pooled, IsCommand, Enough
  <1>5. CalmKept(x)'
    <2> SUFFICES ASSUME x \in calm' PROVE CalmKept(x)'
      BY DEF CalmKept
    <2>1. CalmKept(x) /\ x \in calm /\ seen' = seen
      BY <1>1 DEF QueryInv, CallKept
    <2>2. entries' = entries
      BY <2>1 DEF entries
    <2> QED BY <1>1, <2>1, <2>2 DEF CalmKept, IsLatest, HasKey
  <1> QED BY <1>3, <1>4, <1>5 DEF CallKept

LEMMA RestKept ==
    ASSUME QueryInv, Observed, UNCHANGED query, cache' \in {cache, {}}
    PROVE  QueryInv'
  <1>1. \A x \in Query : CallKept(x)'
    BY OthersKept
  <1>2. HeldStill'
    BY ObservedFacts DEF HeldStill
  <1>3. calm' \subseteq Query
    BY DEF Observed
  <1> QED BY <1>1, <1>2, <1>3 DEF QueryInv, CallsShape, NoPeers

(***************************************************************************)
(* A step of one call: what is left to show of it.                         *)
(***************************************************************************)
LEMMA OneCall ==
    ASSUME QueryInv, Observed, NEW q \in Query,
           query' = [x \in Query |-> query'[x]],
           \A x \in Query : x # q => query'[x] = query[x],
           query'[q] \in {Unasked, Done} \/ (DOMAIN query'[q] = Fields /\ query'[q].at \in CallPhases),
           CallKept(q)',
           Peer = {} => cache' = {} /\ (query'[q].at \in CallPhases => query'[q].remote = {})
    PROVE  QueryInv'
  <1>1. \A x \in Query : CallKept(x)'
    BY OthersKept
  <1>2. HeldStill'
    BY ObservedFacts DEF HeldStill
  <1>3. CallsShape'
    BY DEF QueryInv, CallsShape, Observed
  <1>4. NoPeers'
    BY DEF QueryInv, NoPeers
  <1> QED BY <1>1, <1>2, <1>3, <1>4 DEF QueryInv

LEMMA QueryAsk ==
    ASSUME QueryInv, Observed, NEW q \in Query, Ask(q)
    PROVE  QueryInv'
  <1>1. PICK r \in May[q] : Step(q, "idle", Begun(r))
    BY DEF Ask
  <1>2. /\ query' = [query EXCEPT ![q] = Begun(r)]
        /\ query = [x \in Query |-> query[x]]
        /\ UNCHANGED <<seen, cache>>
    BY <1>1 DEF Step, Ask, QueryInv, CallsShape
  <1> DEFINE b == Begun(r)
  <1>3. /\ DOMAIN b = Fields
        /\ b.req = r /\ b.rows = {} /\ b.remote = {} /\ b.toAsk = {} /\ b.running = {}
        /\ b.asked = {} /\ b.answered = {}
        /\ b.local = ReadsLocal(r)
        /\ b.at \in {"local", "fan out", "answer"}
        /\ b.at = "local" => ReadsLocal(r)
        /\ b.at = "answer" => ~ ReadsLocal(r)
    BY DEF Begun, Fields, ReadsLocal
  <1> HIDE DEF b
  <1>4. query'[q] = b
    BY <1>2 DEF b
  <1>5. LocalKept(q)' /\ RemoteKept(q)' /\ PeersAsked(q)'
    BY <1>3, <1>4 DEF LocalKept, RemoteKept, PeersAsked, ReadsLocal
  <1>6. CalmKept(q)'
    BY <1>3, <1>4, ObservedFacts DEF CalmKept
  <1>7. query'[q].at \in CallPhases /\ (Peer = {} => cache' = {})
    BY <1>2, <1>3, <1>4 DEF QueryInv, NoPeers, CallPhases
  <1> QED BY <1>2, <1>3, <1>4, <1>5, <1>6, <1>7, OneCall DEF CallKept

(***************************************************************************)
(* The record of a call that takes a step.                                 *)
(***************************************************************************)
LEMMA CallShape ==
    ASSUME QueryInv, NEW q \in Query, query[q].at \in CallPhases
    PROVE  /\ query = [x \in Query |-> query[x]]
           /\ DOMAIN query[q] = Fields
           /\ query[q].at # "idle"
  <1>1. query[q] \notin {Unasked, Done} /\ query[q].at # "idle"
    <2>1. Unasked.at = "idle" /\ Done.at = "done"
      BY DEF Unasked, Done
    <2> QED BY <2>1 DEF CallPhases
  <1> QED BY <1>1 DEF QueryInv, CallsShape

(***************************************************************************)
(* What a call that stays calm could count on before the step.             *)
(***************************************************************************)
LEMMA StaysCalm ==
    ASSUME QueryInv, Observed, NEW q \in Query, query[q].at \in CallPhases, q \in calm'
    PROVE  /\ q \in calm /\ CalmKept(q) /\ PeersAgree
           /\ PeersAgree' /\ query'[q].at \notin {"idle", "done"}
           /\ seen' = seen /\ entries' = entries
           /\ \A doc : IsLatest(doc) => IsLatest(doc)'
           /\ \A k : HasKey(Self, k) => HasKey(Self, k)'
  <1>1. q \in calm /\ seen' = seen /\ PeersAgree' /\ query'[q].at \notin {"idle", "done"}
    BY ObservedFacts DEF CallPhases
  <1>2. CalmKept(q)
    BY DEF QueryInv, CallKept
  <1>3. entries' = entries
    BY <1>1 DEF entries
  <1>4. /\ \A doc : IsLatest(doc) => IsLatest(doc)'
        /\ \A k : HasKey(Self, k) => HasKey(Self, k)'
    BY <1>1, <1>3 DEF IsLatest, HasKey
  <1> QED BY <1>1, <1>2, <1>3, <1>4 DEF CalmKept

LEMMA HeldShrinks ==
    ASSUME QueryInv, Observed, NEW q \in Query, query[q].at \in CallPhases
    PROVE  \A n : HeldAt(q, n)' \subseteq HeldAt(q, n)
  <1>1. held'[q] \subseteq held[q]
    BY ObservedFacts DEF CallPhases
  <1> QED BY <1>1 DEF HeldAt

LEMMA QueryReadLocal ==
    ASSUME QueryInv, Observed, NEW q \in Query, ReadLocal(q)
    PROVE  QueryInv'
  <1> DEFINE c == query[q]
             rows == Rows(Self, c.req.store)
             phase == IF c.at # "local" THEN c.at ELSE IF Suffices(c.req, rows) THEN "answer" ELSE "fan out"
  <1>1. /\ c.at \in {"local", "fan out", "asking"} /\ c.local
        /\ query' = [query EXCEPT ![q].rows = rows, ![q].local = FALSE,
                                  ![q].at = IF @ # "local" THEN @
                                            ELSE IF Suffices(c.req, rows) THEN "answer" ELSE "fan out"]
        /\ UNCHANGED <<seen, cache>>
    BY DEF ReadLocal
  <1> HIDE DEF rows
  <1>2. c.at \in CallPhases
    BY <1>1 DEF CallPhases
  <1>3. query = [x \in Query |-> query[x]] /\ DOMAIN c = Fields
    BY <1>2, CallShape
  <1>4. /\ query' = [x \in Query |-> query'[x]]
        /\ \A x \in Query : x # q => query'[x] = query[x]
        /\ DOMAIN query'[q] = Fields
        /\ query'[q].rows = rows /\ query'[q].local = FALSE
        /\ query'[q].at = phase
        /\ query'[q].req = c.req /\ query'[q].remote = c.remote /\ query'[q].toAsk = c.toAsk
        /\ query'[q].running = c.running /\ query'[q].asked = c.asked
        /\ query'[q].answered = c.answered /\ query'[q].failed = c.failed
    BY <1>1, <1>3 DEF Fields
  <1>5. /\ phase \in {"fan out", "asking", "answer"}
        /\ phase = "asking" => c.at = "asking"
        /\ phase = "answer" => c.at = "local"
        /\ phase = "fan out" => c.at \in {"local", "fan out"}
    BY <1>1
  <1> HIDE DEF phase
  <1>6. LocalKept(q)'
    <2>1. HeldAt(q, Self)' \subseteq Names(rows)
      BY <1>2, HeldShrinks, HeldNames DEF QueryInv, rows
    <2> QED BY <2>1, <1>4, <1>5 DEF LocalKept, Names
  <1>7. RemoteKept(q)' /\ PeersAsked(q)'
    <2>1. \A n : HeldAt(q, n)' \subseteq HeldAt(q, n)
      BY <1>2, HeldShrinks
    <2>2. RemoteKept(q) /\ PeersAsked(q)
      BY DEF QueryInv, CallKept
    <2>3. RemoteKept(q)'
      BY <2>1, <2>2, <1>4, <1>5 DEF RemoteKept, PeersAsked, Names
    <2>4. PeersAsked(q)'
      BY <2>2, <1>4, <1>5 DEF PeersAsked, Pooled, IsCommand
    <2> QED BY <2>3, <2>4
  <1>8. CalmKept(q)'
    <2> SUFFICES ASSUME q \in calm' PROVE CalmKept(q)'
      BY DEF CalmKept
    <2>1. /\ q \in calm /\ CalmKept(q)
          /\ PeersAgree' /\ query'[q].at \notin {"idle", "done"}
          /\ seen' = seen
          /\ \A doc : IsLatest(doc) => IsLatest(doc)'
          /\ \A k : HasKey(Self, k) => HasKey(Self, k)'
      BY <1>2, StaysCalm
    <2>2. c.req.store = Default => \A doc \in rows : HasKey(Self, <<Default, doc.name>>)
      BY OwnRows DEF rows
    <2> QED BY <2>1, <2>2, <1>4, <1>5 DEF CalmKept
  <1>9. Peer = {} => cache' = {} /\ (query'[q].at \in CallPhases => query'[q].remote = {})
    BY <1>1, <1>2, <1>4 DEF QueryInv, NoPeers
  <1> QED BY <1>4, <1>5, <1>6, <1>7, <1>8, <1>9, OneCall DEF CallKept, CallPhases

LEMMA QueryCacheHit ==
    ASSUME QueryInv, Observed, NEW q \in Query, CacheHit(q)
    PROVE  QueryInv'
  <1> DEFINE c == query[q]
  <1>1. /\ c.at = "fan out" /\ cache # {}
        /\ query' = [query EXCEPT ![q] = [query[q] EXCEPT !.at = "asking", !.remote = cache]]
        /\ UNCHANGED <<seen, cache>>
    BY DEF CacheHit
  <1>2. c.at \in CallPhases
    BY <1>1 DEF CallPhases
  <1>3. query = [x \in Query |-> query[x]] /\ DOMAIN c = Fields
    BY <1>2, CallShape
  <1>4. /\ query' = [x \in Query |-> query'[x]]
        /\ \A x \in Query : x # q => query'[x] = query[x]
        /\ DOMAIN query'[q] = Fields
        /\ query'[q].rows = c.rows /\ query'[q].local = c.local
        /\ query'[q].at = "asking" /\ query'[q].remote = cache
        /\ query'[q].req = c.req /\ query'[q].toAsk = c.toAsk
        /\ query'[q].running = c.running /\ query'[q].asked = c.asked
        /\ query'[q].answered = c.answered /\ query'[q].failed = c.failed
    BY <1>1, <1>3 DEF Fields
  <1>5. LocalKept(q)' /\ RemoteKept(q)' /\ PeersAsked(q)'
    <2>1. \A n : HeldAt(q, n)' \subseteq HeldAt(q, n)
      BY <1>2, HeldShrinks
    <2>2. LocalKept(q) /\ PeersAsked(q)
      BY DEF QueryInv, CallKept
    <2>3. LocalKept(q)'
      BY <2>1, <2>2, <1>1, <1>4 DEF LocalKept, Names, ReadsLocal
    <2>4. RemoteKept(q)' /\ PeersAsked(q)'
      BY <2>2, <1>1, <1>4 DEF PeersAsked, RemoteKept
    <2> QED BY <2>3, <2>4
  <1>6. CalmKept(q)'
    <2> SUFFICES ASSUME q \in calm' PROVE CalmKept(q)'
      BY DEF CalmKept
    <2>1. /\ q \in calm /\ CalmKept(q) /\ PeersAgree
          /\ PeersAgree' /\ query'[q].at \notin {"idle", "done"}
          /\ seen' = seen
          /\ \A doc : IsLatest(doc) => IsLatest(doc)'
          /\ \A k : HasKey(Self, k) => HasKey(Self, k)'
      BY <1>2, StaysCalm
    <2>2. PICK p \in Peer : TRUE
      BY <1>1 DEF QueryInv, NoPeers
    <2>3. cache = Rows(p, Default)
      BY <2>1, <1>1 DEF PeersAgree
    <2>4. \A doc \in cache : IsLatest(doc)
      BY <2>1, <2>3, PeersRows
    <2> QED BY <2>1, <2>4, <1>1, <1>4 DEF CalmKept
  <1>7. Peer = {} => cache' = {} /\ query'[q].remote = {}
    BY <1>1, <1>4 DEF QueryInv, NoPeers
  <1> QED BY <1>4, <1>5, <1>6, <1>7, OneCall DEF CallKept, CallPhases

(***************************************************************************)
(* The steps of a call that asks: only whom it waits for changes, and what *)
(* the peers sent.                                                         *)
(***************************************************************************)
LEMMA QueryFanOut ==
    ASSUME QueryInv, Observed, NEW q \in Query, FanOut(q)
    PROVE  QueryInv'
  <1> DEFINE c == query[q]
  <1>1. PICK ps : /\ c.at = "fan out"
                  /\ query' = [query EXCEPT ![q] = [query[q] EXCEPT
                         !.at = "asking", !.asked = ps,
                         !.toAsk = IF Pooled(q) THEN ps ELSE {},
                         !.running = IF Pooled(q) THEN {} ELSE ps]]
                  /\ UNCHANGED <<seen, cache>>
    BY DEF FanOut, Step
  <1>2. c.at \in CallPhases
    BY <1>1 DEF CallPhases
  <1>3. query = [x \in Query |-> query[x]] /\ DOMAIN c = Fields
    BY <1>2, CallShape
  <1>4. /\ query' = [x \in Query |-> query'[x]]
        /\ \A x \in Query : x # q => query'[x] = query[x]
        /\ DOMAIN query'[q] = Fields
        /\ query'[q].rows = c.rows /\ query'[q].local = c.local
        /\ query'[q].at = "asking" /\ query'[q].remote = c.remote
        /\ query'[q].req = c.req /\ query'[q].asked = ps
        /\ query'[q].toAsk = IF Pooled(q) THEN ps ELSE {}
        /\ query'[q].running = IF Pooled(q) THEN {} ELSE ps
        /\ query'[q].answered = c.answered
    BY <1>1, <1>3 DEF Fields
  <1>5. LocalKept(q)' /\ RemoteKept(q)' /\ PeersAsked(q)'
    <2>1. \A n : HeldAt(q, n)' \subseteq HeldAt(q, n)
      BY <1>2, HeldShrinks
    <2>2. LocalKept(q) /\ PeersAsked(q)
      BY DEF QueryInv, CallKept
    <2>3. LocalKept(q)'
      BY <2>1, <2>2, <1>1, <1>4 DEF LocalKept, Names, ReadsLocal
    <2>4. c.answered = {}
      BY <2>2, <1>1 DEF PeersAsked
    <2>5. Pooled(q)' <=> Pooled(q)
      BY <1>4 DEF Pooled, IsCommand
    <2>6. RemoteKept(q)' /\ PeersAsked(q)'
      BY <2>4, <2>5, <1>4 DEF PeersAsked, RemoteKept
    <2> QED BY <2>3, <2>6
  <1>6. CalmKept(q)'
    <2> SUFFICES ASSUME q \in calm' PROVE CalmKept(q)'
      BY DEF CalmKept
    <2>1. /\ q \in calm /\ CalmKept(q)
          /\ PeersAgree' /\ query'[q].at \notin {"idle", "done"}
          /\ seen' = seen
          /\ \A doc : IsLatest(doc) => IsLatest(doc)'
          /\ \A k : HasKey(Self, k) => HasKey(Self, k)'
      BY <1>2, StaysCalm
    <2> QED BY <2>1, <1>1, <1>4 DEF CalmKept
  <1>7. Peer = {} => cache' = {} /\ query'[q].remote = {}
    BY <1>1, <1>2, <1>4 DEF QueryInv, NoPeers
  <1> QED BY <1>4, <1>5, <1>6, <1>7, OneCall DEF CallKept, CallPhases

(***************************************************************************)
(* The worker pool, answers, failures and the deadline.                    *)
(***************************************************************************)
LEMMA QueryAsking ==
    ASSUME QueryInv, Observed, NEW q \in Query, query[q].at = "asking",
           query' = [x \in Query |-> query'[x]],
           \A x \in Query : x # q => query'[x] = query[x],
           DOMAIN query'[q] = Fields,
           query'[q].at = "asking",
           query'[q].req = query[q].req,
           query'[q].local = query[q].local,
           query'[q].rows = query[q].rows,
           UNCHANGED <<seen, cache>>,
           RemoteKept(q)', PeersAsked(q)',
           \A doc \in query'[q].remote : doc \in query[q].remote \/ \E p \in Peer : doc \in Rows(p, Default)
    PROVE  QueryInv'
  <1>1. query[q].at \in CallPhases
    BY DEF CallPhases
  <1>2. LocalKept(q)'
    <2>1. \A n : HeldAt(q, n)' \subseteq HeldAt(q, n)
      BY <1>1, HeldShrinks
    <2>2. LocalKept(q)
      BY DEF QueryInv, CallKept
    <2> QED BY <2>1, <2>2 DEF LocalKept, Names, ReadsLocal
  <1>3. CalmKept(q)'
    <2> SUFFICES ASSUME q \in calm' PROVE CalmKept(q)'
      BY DEF CalmKept
    <2>1. /\ q \in calm /\ CalmKept(q) /\ PeersAgree
          /\ PeersAgree' /\ query'[q].at \notin {"idle", "done"}
          /\ seen' = seen
          /\ \A doc : IsLatest(doc) => IsLatest(doc)'
          /\ \A k : HasKey(Self, k) => HasKey(Self, k)'
      BY <1>1, StaysCalm
    <2>2. \A p \in Peer : \A doc \in Rows(p, Default) : IsLatest(doc)
      BY <2>1, PeersRows
    <2> QED BY <2>1, <2>2 DEF CalmKept
  <1>4. Peer = {} => cache' = {} /\ query'[q].remote = {}
    BY <1>1 DEF QueryInv, NoPeers
  <1> QED BY <1>2, <1>3, <1>4, OneCall DEF CallKept, CallPhases

LEMMA QueryWorkerTakes ==
    ASSUME QueryInv, Observed, NEW q \in Query, NEW p \in Peer, WorkerTakes(q, p)
    PROVE  QueryInv'
  <1> DEFINE c == query[q]
  <1>1. /\ c.at = "asking" /\ p \in c.toAsk
        /\ query' = [query EXCEPT ![q].toAsk = @ \ {p}, ![q].running = @ \cup {p}]
        /\ UNCHANGED <<seen, cache>>
    BY DEF WorkerTakes
  <1>2. c.at \in CallPhases
    BY <1>1 DEF CallPhases
  <1>3. query = [x \in Query |-> query[x]] /\ DOMAIN c = Fields
    BY <1>2, CallShape
  <1>4. /\ query' = [x \in Query |-> query'[x]]
        /\ \A x \in Query : x # q => query'[x] = query[x]
        /\ DOMAIN query'[q] = Fields
        /\ query'[q].at = c.at /\ query'[q].req = c.req /\ query'[q].local = c.local
        /\ query'[q].rows = c.rows /\ query'[q].remote = c.remote
        /\ query'[q].toAsk = c.toAsk \ {p} /\ query'[q].running = c.running \cup {p}
        /\ query'[q].asked = c.asked /\ query'[q].answered = c.answered /\ query'[q].failed = c.failed
    BY <1>1, <1>3 DEF Fields
  <1>5. RemoteKept(q)' /\ PeersAsked(q)'
    <2>1. \A n : HeldAt(q, n)' \subseteq HeldAt(q, n)
      BY <1>2, HeldShrinks
    <2>2. RemoteKept(q) /\ PeersAsked(q)
      BY DEF QueryInv, CallKept
    <2>3. Pooled(q)' <=> Pooled(q)
      BY <1>4 DEF Pooled, IsCommand
    <2>4. RemoteKept(q)'
      BY <2>1, <2>2, <1>1, <1>4 DEF RemoteKept, Names
    <2>5. PeersAsked(q)'
      BY <2>2, <2>3, <1>1, <1>4 DEF PeersAsked
    <2> QED BY <2>4, <2>5
  <1> QED BY <1>1, <1>4, <1>5, QueryAsking

LEMMA QueryPeerAnswers ==
    ASSUME QueryInv, Observed, NEW q \in Query, NEW p \in Peer, PeerAnswers(q, p)
    PROVE  QueryInv'
  <1> DEFINE c == query[q]
  <1>1. /\ c.at = "asking" /\ p \in c.running
        /\ query' = [query EXCEPT
               ![q].running = @ \ {p}, ![q].answered = @ \cup {p},
               ![q].remote = @ \cup Rows(p, Default),
               ![q].found = @ + Cardinality(Rows(p, Default)),
               ![q].nonEmpty = IF Rows(p, Default) = {} THEN @ ELSE @ \cup {p}]
        /\ UNCHANGED <<seen, cache>>
    BY DEF PeerAnswers
  <1>2. c.at \in CallPhases
    BY <1>1 DEF CallPhases
  <1>3. query = [x \in Query |-> query[x]] /\ DOMAIN c = Fields
    BY <1>2, CallShape
  <1>4. /\ query' = [x \in Query |-> query'[x]]
        /\ \A x \in Query : x # q => query'[x] = query[x]
        /\ DOMAIN query'[q] = Fields
        /\ query'[q].at = c.at /\ query'[q].req = c.req /\ query'[q].local = c.local
        /\ query'[q].rows = c.rows /\ query'[q].remote = c.remote \cup Rows(p, Default)
        /\ query'[q].toAsk = c.toAsk /\ query'[q].running = c.running \ {p}
        /\ query'[q].asked = c.asked /\ query'[q].answered = c.answered \cup {p}
        /\ query'[q].failed = c.failed
    BY <1>1, <1>3 DEF Fields
  <1>5. RemoteKept(q)' /\ PeersAsked(q)'
    <2>1. \A n : HeldAt(q, n)' \subseteq HeldAt(q, n)
      BY <1>2, HeldShrinks
    <2>2. RemoteKept(q) /\ PeersAsked(q)
      BY DEF QueryInv, CallKept
    <2>3. Pooled(q)' <=> Pooled(q)
      BY <1>4 DEF Pooled, IsCommand
    <2>4. HeldAt(q, p) \subseteq Names(Rows(p, Default))
      BY HeldNames DEF QueryInv
    <2>5. Names(query'[q].remote) = Names(c.remote) \cup Names(Rows(p, Default))
      BY <1>4 DEF Names
    <2>6. RemoteKept(q)'
      BY <2>1, <2>2, <2>4, <2>5, <1>1, <1>4 DEF RemoteKept, Names
    <2>7. /\ query'[q].answered \cup query'[q].running \cup query'[q].toAsk
                = c.answered \cup c.running \cup c.toAsk
          /\ query'[q].at = "asking"
      <3> DEFINE a == c.answered
                 r == c.running
                 t == c.toAsk
      <3>1. p \in r
        BY <1>1
      <3>2. query'[q].answered = a \cup {p} /\ query'[q].running = r \ {p} /\ query'[q].toAsk = t
        BY <1>4
      <3> HIDE DEF a, r, t
      <3>3. (a \cup {p}) \cup (r \ {p}) \cup t = a \cup r \cup t
        BY <3>1
      <3>4. query'[q].answered \cup query'[q].running \cup query'[q].toAsk = a \cup r \cup t
        BY <3>2, <3>3
      <3> QED BY <3>4, <1>1, <1>4 DEF a, r, t
    <2>8. PeersAsked(q)'
      BY <2>2, <2>3, <2>7, <1>1, <1>4 DEF PeersAsked
    <2> QED BY <2>6, <2>8
  <1> QED BY <1>1, <1>4, <1>5, QueryAsking

LEMMA QueryPeerFails ==
    ASSUME QueryInv, Observed, NEW q \in Query, NEW p \in Peer, PeerFails(q, p)
    PROVE  QueryInv'
  <1> DEFINE c == query[q]
  <1>1. /\ c.at = "asking" /\ p \in c.running
        /\ query' = [query EXCEPT ![q].running = @ \ {p}, ![q].failed = TRUE]
        /\ UNCHANGED <<seen, cache>>
    BY DEF PeerFails
  <1>2. c.at \in CallPhases
    BY <1>1 DEF CallPhases
  <1>3. query = [x \in Query |-> query[x]] /\ DOMAIN c = Fields
    BY <1>2, CallShape
  <1>4. /\ query' = [x \in Query |-> query'[x]]
        /\ \A x \in Query : x # q => query'[x] = query[x]
        /\ DOMAIN query'[q] = Fields
        /\ query'[q].at = c.at /\ query'[q].req = c.req /\ query'[q].local = c.local
        /\ query'[q].rows = c.rows /\ query'[q].remote = c.remote
        /\ query'[q].toAsk = c.toAsk /\ query'[q].running = c.running \ {p}
        /\ query'[q].asked = c.asked /\ query'[q].answered = c.answered
        /\ query'[q].failed = TRUE
    BY <1>1, <1>3 DEF Fields
  <1>5. RemoteKept(q)' /\ PeersAsked(q)'
    <2>1. \A n : HeldAt(q, n)' \subseteq HeldAt(q, n)
      BY <1>2, HeldShrinks
    <2>2. RemoteKept(q) /\ PeersAsked(q)
      BY DEF QueryInv, CallKept
    <2>3. Pooled(q)' <=> Pooled(q)
      BY <1>4 DEF Pooled, IsCommand
    <2>4. RemoteKept(q)'
      BY <2>1, <2>2, <1>1, <1>4 DEF RemoteKept, Names
    <2>5. c.answered \cup c.running \cup c.toAsk \subseteq c.asked /\ (~ Pooled(q) => c.toAsk = {})
      BY <2>2, <1>1 DEF PeersAsked
    <2>6. query'[q].answered \cup query'[q].running \cup query'[q].toAsk \subseteq query'[q].asked
      BY <2>5, <1>4
    <2>7. query'[q].failed /\ query'[q].at = "asking"
      BY <1>1, <1>4
    <2>8. PeersAsked(q)'
      BY <2>3, <2>5, <2>6, <2>7, <1>4 DEF PeersAsked
    <2> QED BY <2>4, <2>8
  <1> QED BY <1>1, <1>4, <1>5, QueryAsking

LEMMA QueryExpire ==
    ASSUME QueryInv, Observed, NEW q \in Query, Expire(q)
    PROVE  QueryInv'
  <1> DEFINE c == query[q]
  <1>1. /\ c.at = "asking"
        /\ query' = [query EXCEPT ![q].expired = TRUE]
        /\ UNCHANGED <<seen, cache>>
    BY DEF Expire
  <1>2. c.at \in CallPhases
    BY <1>1 DEF CallPhases
  <1>3. query = [x \in Query |-> query[x]] /\ DOMAIN c = Fields
    BY <1>2, CallShape
  <1>4. /\ query' = [x \in Query |-> query'[x]]
        /\ \A x \in Query : x # q => query'[x] = query[x]
        /\ DOMAIN query'[q] = Fields
        /\ query'[q].at = c.at /\ query'[q].req = c.req /\ query'[q].local = c.local
        /\ query'[q].rows = c.rows /\ query'[q].remote = c.remote
        /\ query'[q].toAsk = c.toAsk /\ query'[q].running = c.running
        /\ query'[q].asked = c.asked /\ query'[q].answered = c.answered
        /\ query'[q].failed = c.failed
    BY <1>1, <1>3 DEF Fields
  <1>5. RemoteKept(q)' /\ PeersAsked(q)'
    <2>1. \A n : HeldAt(q, n)' \subseteq HeldAt(q, n)
      BY <1>2, HeldShrinks
    <2>2. RemoteKept(q) /\ PeersAsked(q)
      BY DEF QueryInv, CallKept
    <2>3. Pooled(q)' <=> Pooled(q)
      BY <1>4 DEF Pooled, IsCommand
    <2>4. RemoteKept(q)'
      BY <2>1, <2>2, <1>1, <1>4 DEF RemoteKept, Names
    <2>5. PeersAsked(q)'
      BY <2>2, <2>3, <1>1, <1>4 DEF PeersAsked
    <2> QED BY <2>4, <2>5
  <1> QED BY <1>1, <1>4, <1>5, QueryAsking

LEMMA QueryCollect ==
    ASSUME QueryInv, Observed, NEW q \in Query, Collect(q)
    PROVE  QueryInv'
  <1> DEFINE c == query[q]
  <1>1. PICK R \in Distinct(c.remote) :
            /\ \E A \in Distinct(c.rows \cup R) :
                 Step(q, "asking", [c EXCEPT !.at = "answer", !.rows = A, !.remote = {}])
            /\ cache' = IF Pooled(q) /\ R # {} THEN R ELSE cache
    BY DEF Collect
  <1>2. PICK A \in Distinct(c.rows \cup R) :
            /\ c.at = "asking"
            /\ query' = [query EXCEPT ![q] = [c EXCEPT !.at = "answer", !.rows = A, !.remote = {}]]
    BY <1>1 DEF Step
  <1>3. /\ Collected(q) /\ ~ c.local
        /\ c.at = "asking"
        /\ UNCHANGED seen
    BY <1>2 DEF Collect
  <1>4. c.at \in CallPhases
    BY <1>3 DEF CallPhases
  <1>5. query = [x \in Query |-> query[x]] /\ DOMAIN c = Fields
    BY <1>4, CallShape
  <1>6. /\ query' = [x \in Query |-> query'[x]]
        /\ \A x \in Query : x # q => query'[x] = query[x]
        /\ DOMAIN query'[q] = Fields
        /\ query'[q].at = "answer" /\ query'[q].req = c.req /\ query'[q].local = c.local
        /\ query'[q].rows = A /\ query'[q].remote = {}
        /\ query'[q].toAsk = c.toAsk /\ query'[q].running = c.running
        /\ query'[q].asked = c.asked /\ query'[q].answered = c.answered
        /\ query'[q].failed = c.failed /\ query'[q].expired = c.expired
        /\ query'[q].nonEmpty = c.nonEmpty /\ query'[q].found = c.found
    BY <1>2, <1>5 DEF Fields
  <1>7. /\ R \subseteq c.remote
        /\ A \subseteq c.rows \cup c.remote
        /\ Names(A) = Names(c.rows) \cup Names(c.remote)
    <2>1. R \subseteq c.remote /\ Names(R) = Names(c.remote)
      BY DEF Distinct
    <2>2. A \subseteq c.rows \cup R /\ Names(A) = Names(c.rows \cup R)
      BY DEF Distinct
    <2>3. Names(c.rows \cup R) = Names(c.rows) \cup Names(R)
      BY DEF Names
    <2> QED BY <2>1, <2>2, <2>3
  <1>8. LocalKept(q)' /\ RemoteKept(q)'
    <2>1. \A n : HeldAt(q, n)' \subseteq HeldAt(q, n)
      BY <1>4, HeldShrinks
    <2>2. LocalKept(q) /\ RemoteKept(q)
      BY DEF QueryInv, CallKept
    <2>3. Names(query'[q].rows)= Names(c.rows) \cup Names(c.remote)
      BY <1>6, <1>7
    <2>4. /\ ReadsLocal(c.req) => HeldAt(q, Self)' \subseteq Names(query'[q].rows)
          /\ \A p \in c.answered : HeldAt(q, p)' \subseteq Names(query'[q].rows)
      BY <2>1, <2>2, <2>3, <1>3 DEF LocalKept, RemoteKept
    <2>5. /\ ReadsLocal(query'[q].req) => ReadsLocal(c.req)
          /\ ~ query'[q].local
      BY <1>3, <1>6
    <2> HIDE DEF c
    <2>6. LocalKept(q)'
      BY <2>4, <2>5, <1>6 DEF LocalKept, Names, ReadsLocal
    <2>7. RemoteKept(q)'
      BY <2>4, <1>6 DEF RemoteKept, Names
    <2> QED BY <2>6, <2>7
  <1>9. PeersAsked(q)'
    <2>1. PeersAsked(q)
      BY DEF QueryInv, CallKept
    <2>2. c.answered = c.asked \/ c.failed \/ c.expired \/ Enough(c)
      <3>1. CASE c.running = {} /\ c.toAsk = {}
        <4>1. c.answered \subseteq c.asked /\ (c.failed \/ c.asked \subseteq c.answered)
          BY <2>1, <3>1, <1>3 DEF PeersAsked
        <4> QED BY <4>1
      <3>2. CASE ~ IsCommand(q)
        <4>1. c.toAsk = {}
          BY <2>1, <3>2, <1>3 DEF PeersAsked, Pooled
        <4>2. c.running = {} \/ c.expired
              \/ (c.req.strategy = "QUORUM" /\ Cardinality(c.nonEmpty) >= c.req.quorumN)
          BY <3>2, <1>3 DEF Collected, StreamDone
        <4> QED BY <3>1, <3>2, <4>1, <4>2 DEF Enough, IsCommand
      <3>3. CASE IsCommand(q) /\ Pooled(q)
        BY <3>1, <3>3, <1>3 DEF Collected, PoolDone
      <3>4. CASE IsCommand(q) /\ ~ Pooled(q)
        <4>1. c.toAsk = {}
          BY <2>1, <3>4, <1>3 DEF PeersAsked
        <4>2. /\ c.req.side = "command" /\ c.req.strategy = "QUORUM"
              /\ QuorumDone(c)
          BY <3>4, <1>3 DEF Collected, Pooled, IsCommand
        <4>3. c.running = {} \/ Enough(c)
          BY <4>2 DEF QuorumDone, Enough
        <4> QED BY <3>1, <4>1, <4>3
      <3> QED BY <3>2, <3>3, <3>4
    <2>3. Enough(c) => Enough(query'[q])
      BY <1>6 DEF Enough
    <2> QED BY <2>2, <2>3, <1>6 DEF PeersAsked, Enough
  <1>10. CalmKept(q)'
    <2> SUFFICES ASSUME q \in calm' PROVE CalmKept(q)'
      BY DEF CalmKept
    <2>1. /\ q \in calm /\ CalmKept(q)
          /\ PeersAgree' /\ query'[q].at \notin {"idle", "done"}
          /\ seen' = seen
          /\ \A doc : IsLatest(doc) => IsLatest(doc)'
          /\ \A k : HasKey(Self, k) => HasKey(Self, k)'
      BY <1>4, StaysCalm
    <2> QED BY <2>1, <1>3, <1>6, <1>7 DEF CalmKept
  <1>11. Peer = {} => cache' = {} /\ query'[q].remote = {}
    <2>1. Peer = {} => cache = {} /\ R = {}
      BY <1>4, <1>7 DEF QueryInv, NoPeers
    <2> QED BY <2>1, <1>1, <1>6
  <1> QED BY <1>6, <1>8, <1>9, <1>10, <1>11, OneCall DEF CallKept, CallPhases

LEMMA QueryEndsCall ==
    ASSUME QueryInv, Observed, NEW q \in Query, query[q].at \in CallPhases,
           query' = [query EXCEPT ![q] = Done], UNCHANGED cache
    PROVE  QueryInv'
  <1>1. query = [x \in Query |-> query[x]]
    BY CallShape
  <1>2. /\ query' = [x \in Query |-> query'[x]]
        /\ \A x \in Query : x # q => query'[x] = query[x]
        /\ query'[q] = Done
    BY <1>1
  <1>3. query'[q].at = "done"
    BY <1>2 DEF Done
  <1>4. q \notin calm'
    BY <1>3, ObservedFacts
  <1>5. CallKept(q)'
    BY <1>3, <1>4 DEF CallKept, LocalKept, RemoteKept, PeersAsked, CalmKept
  <1>6. Peer = {} => cache' = {} /\ (query'[q].at \in CallPhases => query'[q].remote = {})
    BY <1>3 DEF QueryInv, NoPeers, CallPhases
  <1> QED BY <1>2, <1>5, <1>6, OneCall

LEMMA QueryAnswer ==
    ASSUME QueryInv, Observed, NEW q \in Query, Answer(q)
    PROVE  QueryInv'
  <1> DEFINE c == query[q]
             missing == IF c.at = "answer" /\ IsCommand(q) THEN Missing(q) ELSE {}
  <1>1. /\ c.at = "answer"
        /\ query' = [query EXCEPT ![q] = IF missing = {} THEN Done
                              ELSE [Begun(c.req) EXCEPT !.at = "putting", !.rows = missing]]
        /\ UNCHANGED <<seen, cache>>
    BY DEF Answer, Step
  <1>2. c.at \in CallPhases
    BY <1>1 DEF CallPhases
  <1>m. missing \subseteq Missing(q)
    OBVIOUS
  <1> HIDE DEF missing
  <1>3. CASE missing = {}
    BY <1>1, <1>2, <1>3, QueryEndsCall
  <1>4. CASE missing # {}
    <2> DEFINE b == Begun(c.req)
    <2>1. DOMAIN b = Fields /\ b.req = c.req /\ b.remote = {}
      BY DEF Begun, Fields
    <2> HIDE DEF b
    <2>2. query = [x \in Query |-> query[x]]
      BY <1>2, CallShape
    <2>3. query' = [query EXCEPT ![q] = [b EXCEPT !.at = "putting", !.rows = missing]]
      BY <1>1, <1>4 DEF b
    <2>4. /\ query' = [x \in Query |-> query'[x]]
          /\ \A x \in Query : x # q => query'[x] = query[x]
          /\ DOMAIN query'[q] = Fields
          /\ query'[q].at = "putting" /\ query'[q].rows = missing
          /\ query'[q].req = c.req /\ query'[q].remote = {}
      BY <2>1, <2>2, <2>3 DEF Fields
    <2>5. LocalKept(q)' /\ RemoteKept(q)' /\ PeersAsked(q)'
      BY <2>4 DEF LocalKept, RemoteKept, PeersAsked
    <2>6. CalmKept(q)'
      <3> SUFFICES ASSUME q \in calm' PROVE CalmKept(q)'
        BY DEF CalmKept
      <3>1. /\ q \in calm /\ CalmKept(q)
            /\ PeersAgree' /\ query'[q].at \notin {"idle", "done"}
            /\ seen' = seen /\ entries' = entries
            /\ \A doc : IsLatest(doc) => IsLatest(doc)'
        BY <1>2, StaysCalm
      <3>2. ASSUME c.req.store = Default, NEW doc \in missing
            PROVE  IsLatest(doc) /\ ~ HasKey(Self, <<Default, doc.name>>)
        <4>1. doc \in c.rows /\ ~ HasKey(Self, <<Default, doc.name>>)
          BY <3>2, <1>m DEF Missing, KeyOf
        <4>2. IsLatest(doc) \/ HasKey(Self, <<Default, doc.name>>)
          BY <3>1, <3>2, <4>1, <1>1 DEF CalmKept
        <4> QED BY <4>1, <4>2
      <3>3. ASSUME c.req.store = Default
            PROVE  seen[Self] # entries
        <4>1. PICK doc \in missing : TRUE
          BY <1>4
        <4>2. IsLatest(doc) /\ ~ HasKey(Self, <<Default, doc.name>>)
          BY <3>2, <3>3
        <4> QED BY <4>2 DEF IsLatest, HasKey
      <3> QED BY <3>1, <3>2, <3>3, <2>4 DEF CalmKept
    <2>7. Peer = {} => cache' = {} /\ query'[q].remote = {}
      BY <1>1, <2>4 DEF QueryInv, NoPeers
    <2> QED BY <2>4, <2>5, <2>6, <2>7, OneCall DEF CallKept, CallPhases
  <1> QED BY <1>3, <1>4

LEMMA QueryPut ==
    ASSUME QueryInv, Observed, NEW q \in Query, Put(q)
    PROVE  QueryInv'
  <1>1. query[q].at = "putting" /\ query' = [query EXCEPT ![q] = Done] /\ UNCHANGED cache
    BY DEF Put, Step
  <1> QED BY <1>1, QueryEndsCall DEF CallPhases

LEMMA QueryStep == QueryInv /\ [Next]_vars => QueryInv'
  <1> SUFFICES ASSUME QueryInv, [Next]_vars PROVE QueryInv'
    OBVIOUS
  <1>1. CASE UNCHANGED vars
    <2>1. UNCHANGED seen /\ UNCHANGED query /\ UNCHANGED cache /\ UNCHANGED held /\ UNCHANGED calm
      BY <1>1 DEF vars
    <2>2. CallsShape' /\ NoPeers' /\ HeldStill'
      BY <2>1 DEF QueryInv, CallsShape, NoPeers, HeldStill, Holding, HasKey
    <2>3. ASSUME NEW x \in Query
          PROVE  LocalKept(x)' /\ RemoteKept(x)' /\ PeersAsked(x)'
      BY <2>1 DEF QueryInv, CallKept, LocalKept, RemoteKept, PeersAsked, HeldAt, Names, ReadsLocal, Pooled,
                  IsCommand, Enough
    <2>4. ASSUME NEW x \in Query
          PROVE  CalmKept(x)'
      <3>1. entries' = entries
        BY <2>1 DEF entries
      <3>2. \A p, s : Rows(p, s)' = Rows(p, s)
        BY <2>1 DEF Rows, Row, HasKey
      <3>3. PeersAgree' = PeersAgree
        BY <2>1, <3>1, <3>2 DEF PeersAgree
      <3>4. CalmKept(x)
        BY DEF QueryInv, CallKept
      <3> QED BY <2>1, <3>1, <3>3, <3>4 DEF CalmKept, IsLatest, HasKey
    <2> QED BY <2>2, <2>3, <2>4 DEF QueryInv, CallKept
  <1>2. CASE Next
    <2>0. Observed
      BY <1>2 DEF Next
    <2>1. ASSUME NEW q \in Query, Calls(q) PROVE QueryInv'
      <3>1. CASE Ask(q)
        BY <3>1, <2>0, QueryAsk
      <3>2. CASE Process(q)
        BY <3>2, <2>0, QueryReadLocal, QueryCacheHit, QueryFanOut, QueryCollect, QueryAnswer, QueryPut,
           QueryWorkerTakes DEF Process
      <3>3. CASE Expire(q)
        BY <3>3, <2>0, QueryExpire
      <3>4. ASSUME NEW p \in Peer, PeerAnswers(q, p) \/ PeerFails(q, p) PROVE QueryInv'
        BY <3>4, <2>0, QueryPeerAnswers, QueryPeerFails
      <3> QED BY <2>1, <3>1, <3>2, <3>3, <3>4 DEF Calls
    <2>2. ASSUME NEW k \in Client, ClientWrite(k[1], k[2]) PROVE QueryInv'
      <3>1. UNCHANGED <<query, cache>>
        BY <2>2 DEF ClientWrite
      <3> QED BY <3>1, <2>0, RestKept
    <2>3. ASSUME NEW n \in Node, NEW e \in entries \ seen[n], Replicate(n, e) PROVE QueryInv'
      <3>1. UNCHANGED <<query, cache>>
        BY <2>3 DEF Replicate
      <3> QED BY <3>1, <2>0, RestKept
    <2>4. CASE ClearCache
      <3>1. UNCHANGED query /\ cache' = {}
        BY <2>4 DEF ClearCache
      <3> QED BY <3>1, <2>0, RestKept
    <2> QED BY <1>2, <2>1, <2>2, <2>3, <2>4 DEF Next
  <1> QED BY <1>1, <1>2

LEMMA QueryInvariant == Spec => []QueryInv
  BY QueryInit, QueryStep, PTL DEF Spec

(***************************************************************************)
(* AnswerComplete (fanOutQuery, mergeResults): an answer has every         *)
(* document that a node which answered held all the time, and is given     *)
(* before all have answered only to a failure, a timeout or a quorum, for  *)
(* any peers, calls and documents.                                         *)
(***************************************************************************)
THEOREM AnswersAreComplete == Spec => []AnswerComplete
  <1>1. QueryInv => AnswerComplete
    <2> SUFFICES ASSUME QueryInv, NEW q \in Query, query[q].at = "answer"
                 PROVE  LET c == query[q]
                            places == c.answered \cup (IF ReadsLocal(c.req) THEN {Self} ELSE {})
                        IN  /\ {h[2] : h \in {h \in held[q] : h[1] \in places}} \subseteq Names(c.rows)
                            /\ c.answered = c.asked \/ c.failed \/ c.expired \/ Enough(c)
      BY DEF AnswerComplete
    <2> DEFINE c == query[q]
               places == c.answered \cup (IF ReadsLocal(c.req) THEN {Self} ELSE {})
    <2>1. LocalKept(q) /\ RemoteKept(q) /\ PeersAsked(q)
      BY DEF QueryInv, CallKept
    <2>2. \A n \in places : HeldAt(q, n) \subseteq Names(c.rows)
      BY <2>1 DEF LocalKept, RemoteKept
    <2>3. {h[2] : h \in {h \in held[q] : h[1] \in places}} \subseteq Names(c.rows)
      <3> SUFFICES ASSUME NEW h \in held[q], h[1] \in places
                   PROVE  h[2] \in Names(c.rows)
        OBVIOUS
      <3>1. h[2] \in HeldAt(q, h[1])
        BY DEF HeldAt
      <3> QED BY <3>1, <2>2
    <2>4. c.answered = c.asked \/ c.failed \/ c.expired \/ Enough(c)
      BY <2>1 DEF PeersAsked
    <2> QED BY <2>3, <2>4
  <1> QED BY <1>1, QueryInvariant, PTL

(***************************************************************************)
(* CalmReadsFillGaps (the background write of remote results): a call      *)
(* during which nothing is written puts nothing but the latest documents,  *)
(* and only where some are missing.                                        *)
(***************************************************************************)
THEOREM CalmReadsWriteNothingOld == Spec => []CalmReadsFillGaps
  <1>1. QueryInv => CalmReadsFillGaps
    <2> SUFFICES ASSUME QueryInv, NEW q \in calm, query[q].at = "putting", query[q].req.store = Default
                 PROVE  /\ seen[Self] # entries
                        /\ \A doc \in query[q].rows : doc.val = Rebuilt(entries, <<Default, doc.name>>)
      BY DEF CalmReadsFillGaps
    <2>1. CalmKept(q)
      BY DEF QueryInv, CallsShape, CallKept
    <2> QED BY <2>1 DEF CalmKept, IsLatest
  <1> QED BY <1>1, QueryInvariant, PTL

=============================================================================
