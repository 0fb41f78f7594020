------------------------ MODULE DocumentStoreProofs ------------------------
(***************************************************************************)
(* Theorems about a replicated store, for any replicas, callers and keys,  *)
(* and any number of entries, crashes and failing saves.                   *)
(***************************************************************************)
EXTENDS DocumentStore, FiniteSetTheorems, WellFoundedInduction, TLAPS

-----------------------------------------------------------------------------
(* Numbers.                                                                *)

(***************************************************************************)
(* A finite set of numbers has a maximum: of its elements, the one with    *)
(* the fewest at or above it.                                              *)
(***************************************************************************)
LEMMA MaxOfFinite ==
    ASSUME NEW S \in SUBSET Nat, IsFiniteSet(S), S # {}
    PROVE  Max(S) \in S /\ \A y \in S : y <= Max(S)
<1> DEFINE Above(x) == {y \in S : x <= y}
           T == {Above(x) : x \in S}
<1>1. T \subseteq FiniteSubsetsOf(S) /\ T # {}
  <2>1. FiniteSubsetsOf(S) = SUBSET S
    BY FS_FiniteSubsetsOfFinite
  <2>2. T \subseteq SUBSET S /\ T # {}
    OBVIOUS
  <2> QED
    BY <2>1, <2>2
<1>2. IsWellFoundedOn(StrictSubsetOrdering(S), FiniteSubsetsOf(S))
  BY FS_StrictSubsetOrderingWellFounded
<1>3. \E U \in T : \A V \in T : <<V, U>> \notin StrictSubsetOrdering(S)
  <2> HIDE DEF T
  <2> QED
    BY <1>1, <1>2, WFMin
<1>4. PICK x \in S : \A V \in T : <<V, Above(x)>> \notin StrictSubsetOrdering(S)
  BY <1>3
<1>5. \A y \in S : y <= x
  <2>1. SUFFICES ASSUME NEW y \in S, ~(y <= x) PROVE FALSE
    OBVIOUS
  <2>2. Above(y) \subseteq Above(x)
    <3> SUFFICES ASSUME NEW z \in S, y <= z PROVE x <= z
      OBVIOUS
    <3> x \in Nat /\ y \in Nat /\ z \in Nat
      OBVIOUS
    <3> QED
      BY <2>1
  <2>3. x \in Above(x) /\ x \notin Above(y)
    <3> x \in Nat /\ y \in Nat
      OBVIOUS
    <3> QED
      BY <2>1
  <2>4. <<Above(y), Above(x)>> \in StrictSubsetOrdering(S)
    BY <2>2, <2>3 DEF StrictSubsetOrdering
  <2> QED
    BY <1>4, <2>4
<1>6. \E z \in S : \A y \in S : z >= y
  BY <1>5
<1> QED
  BY <1>6 DEF Max

-----------------------------------------------------------------------------
(* The inductive invariant.                                                *)

(***************************************************************************)
(* The entries ever written have hashes of their own, and know only older  *)
(* ones.                                                                   *)
(***************************************************************************)
EntriesOK ==
    /\ IsFiniteSet(written)
    /\ \A e \in written :
         /\ e.hash \in 1 .. Cardinality(written)
         /\ e.time \in Nat
         /\ e.id \in Replica
         /\ e.past \subseteq 1 .. Cardinality(written)
    /\ \A e, f \in written : e.hash = f.hash => e = f

LoopStates == {"idle", "joined", "down", "joined early", "loading"}

Calls(E) == {NoCall} \cup [at : {"saving", "indexing"}, entry : E]

TypeOK ==
    /\ EntriesOK
    /\ log \in [Replica -> SUBSET written]
    /\ local \in [Replica -> SUBSET written]
    /\ remote \in [Replica -> SUBSET written]
    /\ idx = [r \in Replica |-> idx[r]]
    /\ loop \in [Replica -> LoopStates]
    /\ caller \in [Caller -> Calls(written)]
    /\ published \subseteq written
    /\ acked \subseteq written

Open(r) == loop[r] \in {"idle", "joined"}

(***************************************************************************)
(* Callers are inside AddOperation only while their store is open, with an *)
(* entry of their replica that its log has.                                *)
(***************************************************************************)
CallsAtHome ==
    \A c \in Caller : caller[c].at # "idle" =>
        /\ Open(Home[c])
        /\ caller[c].entry.id = Home[c]
        /\ caller[c].entry \in log[Home[c]]

(***************************************************************************)
(* What an entry knows of is closed, and so is every log.                  *)
(***************************************************************************)
PastsClosed ==
    \A e, f, g \in written :
        e.hash \in f.past /\ f.hash \in g.past => e.hash \in g.past

Closed(L) == \A f \in L, e \in written : e.hash \in f.past => e \in L

LogsClosed == \A r \in Replica : Closed(log[r])

(***************************************************************************)
(* An open store has the entries its replica wrote, unless it forgot some, *)
(* and the head it saved.                                                  *)
(***************************************************************************)
OwnInLog ==
    \A r \in Replica : Open(r) /\ r \notin forgot =>
        \A e \in written : e.id = r => e \in log[r]

HeadsInLog ==
    \A r \in Replica : Open(r) \/ loop[r] = "loading" => local[r] \subseteq log[r]

(***************************************************************************)
(* Of the head a replica saved and those it is about to save, each knows   *)
(* the ones before it.                                                     *)
(***************************************************************************)
Comparable(e, f) == e = f \/ e.hash \in f.past \/ f.hash \in e.past

Pending(r) ==
    {e \in written : \E c \in Caller :
        Home[c] = r /\ caller[c].at # "idle" /\ caller[c].entry = e}

Line(r) == local[r] \cup Pending(r)

OwnInLine == \A r \in Replica : \A e, f \in Line(r) : Comparable(e, f)

(***************************************************************************)
(* What was acknowledged, or will be now that its head is saved, is found  *)
(* from the head saved last; it is in the log once that is loaded, and the *)
(* index has it once the store is open.                                    *)
(***************************************************************************)
Acked(r) == {e \in acked : e.id = r}

Promised(r) ==
    Acked(r) \cup {e \in written : \E c \in Caller :
        Home[c] = r /\ caller[c].at = "indexing" /\ caller[c].entry = e}

PromisedFound ==
    \A r \in Replica \ overtaken : Promised(r) \subseteq History(local[r])

PromisedLoaded ==
    \A r \in Replica \ overtaken : loop[r] = "loading" => Acked(r) \subseteq log[r]

PromisedSeen ==
    \A r \in Replica \ overtaken : Open(r) => Acked(r) \subseteq idx[r].seen

StoreInv ==
    /\ TypeOK
    /\ CallsAtHome
    /\ PastsClosed
    /\ LogsClosed
    /\ OwnInLog
    /\ HeadsInLog
    /\ OwnInLine
    /\ PromisedFound
    /\ PromisedLoaded
    /\ PromisedSeen
    /\ StampsUnique

-----------------------------------------------------------------------------
(* Entries and what is found below them.                                   *)

LEMMA HistoryIsClosed ==
    ASSUME PastsClosed, NEW H \in SUBSET written
    PROVE  /\ H \subseteq History(H)
           /\ History(H) \subseteq written
           /\ Closed(History(H))
  BY DEF History, Closed, PastsClosed

LEMMA UnionIsClosed ==
    ASSUME NEW L, NEW M, Closed(L), Closed(M)
    PROVE  Closed(L \cup M)
  BY DEF Closed

(***************************************************************************)
(* The entry AddOperation makes has a hash of its own, knows all of the    *)
(* log, and is later than each of the log.                                 *)
(***************************************************************************)
LEMMA NewEntry ==
    ASSUME TypeOK, LogsClosed, NEW r \in Replica, NEW k,
           NEW e, e = Entry(r, k, Cardinality(written) + 1)
    PROVE  /\ IsFiniteSet(written \cup {e})
           /\ Cardinality(written \cup {e}) = Cardinality(written) + 1
           /\ Cardinality(written) \in Nat
           /\ e \notin written
           /\ e.hash = Cardinality(written) + 1
           /\ e.id = r
           /\ e.time \in Nat
           /\ \A f \in log[r] : f.time < e.time
           /\ e.past \subseteq 1 .. Cardinality(written)
<1>1. IsFiniteSet(written) /\ Cardinality(written) \in Nat
  BY FS_CardinalityType DEF TypeOK, EntriesOK
<1>2. /\ e.hash = Cardinality(written) + 1
      /\ e.id = r
      /\ e.time = NextTime(r)
      /\ e.past = {f.hash : f \in log[r]}
  BY DEF Entry
<1>3. e \notin written
  BY <1>1, <1>2 DEF TypeOK, EntriesOK
<1>4. IsFiniteSet(written \cup {e}) /\ Cardinality(written \cup {e}) = Cardinality(written) + 1
  BY <1>1, <1>3, FS_AddElement
<1>5. log[r] \subseteq written
  BY DEF TypeOK
<1>6. e.past \subseteq 1 .. Cardinality(written)
  BY <1>2, <1>5 DEF TypeOK, EntriesOK
<1>7. e.time \in Nat /\ \A f \in log[r] : f.time < e.time
  <2>1. CASE log[r] = {}
    BY <1>2, <2>1 DEF NextTime
  <2>2. CASE log[r] # {}
    <3> DEFINE T == {f.time : f \in log[r]}
    <3>1. T \in SUBSET Nat /\ T # {}
      <4>1. \A f \in log[r] : f.time \in Nat
        BY <1>5 DEF TypeOK, EntriesOK
      <4> QED
        BY <4>1, <2>2
    <3>2. IsFiniteSet(T)
      <4>1. IsFiniteSet(log[r])
        BY <1>1, <1>5, FS_Subset
      <4> DEFINE times == [f \in log[r] |-> f.time]
      <4>2. times \in Surjection(log[r], T)
        BY DEF Surjection
      <4> QED
        BY <4>1, <4>2, FS_Surjection
    <3>3. Max(T) \in T /\ \A y \in T : y <= Max(T)
      <4> HIDE DEF T
      <4> QED
        BY <3>1, <3>2, MaxOfFinite
    <3>4. e.time = Max(T) + 1
      BY <1>2, <2>2 DEF NextTime
    <3>5. \A f \in log[r] : f.time \in T
      OBVIOUS
    <3> HIDE DEF T
    <3>6. Max(T) \in Nat /\ \A y \in T : y \in Nat
      BY <3>1, <3>3
    <3>7. ASSUME NEW f \in log[r] PROVE f.time < e.time
      <4> DEFINE m == Max(T)
                 n == f.time
      <4>1. m \in Nat /\ n \in Nat /\ n <= m /\ e.time = m + 1
        BY <3>3, <3>4, <3>5, <3>6
      <4> HIDE DEF m, n
      <4>2. n < e.time
        BY <4>1
      <4> QED
        BY <4>2 DEF n
    <3> QED
      BY <3>4, <3>6, <3>7
  <2> QED
    BY <2>1, <2>2
<1> QED
  BY <1>1, <1>2, <1>3, <1>4, <1>6, <1>7

LEMMA CallForms ==
    ASSUME TypeOK, NEW c \in Caller
    PROVE  \/ caller[c] = NoCall /\ caller[c].at = "idle"
           \/ /\ caller[c].at \in {"saving", "indexing"}
              /\ caller[c].entry \in written
              /\ caller[c] = [at |-> caller[c].at, entry |-> caller[c].entry]
<1>1. caller[c] \in Calls(written)
  BY DEF TypeOK
<1> QED
  BY <1>1 DEF Calls, NoCall

LEMMA InitStoreInv == Init => StoreInv
<1> SUFFICES ASSUME Init PROVE StoreInv
  OBVIOUS
<1> USE DEF Init
<1>1. EntriesOK
  BY FS_EmptySet DEF EntriesOK
<1>2. TypeOK
  BY <1>1 DEF TypeOK, Calls, LoopStates, NoCall
<1>3. CallsAtHome
  BY DEF CallsAtHome, NoCall
<1>4. PastsClosed /\ LogsClosed /\ OwnInLog /\ HeadsInLog /\ StampsUnique
  BY DEF PastsClosed, LogsClosed, Closed, OwnInLog, HeadsInLog, StampsUnique
<1>5. OwnInLine
  BY DEF OwnInLine, Line, Pending
<1>6. PromisedFound /\ PromisedLoaded /\ PromisedSeen
  BY DEF PromisedFound, PromisedLoaded, PromisedSeen, Promised, Acked
<1> QED
  BY <1>2, <1>3, <1>4, <1>5, <1>6 DEF StoreInv

-----------------------------------------------------------------------------
(* Every step keeps the invariant.                                         *)

LEMMA AppendStep ==
    ASSUME StoreInv, NEW c \in Caller, Append(c)
    PROVE  StoreInv'
<1> DEFINE r == Home[c]
<1> USE DEF StoreInv
<1>1. PICK k, e :
        /\ k \in Key
        /\ e = Entry(r, k, Cardinality(written) + 1)
        /\ log' = [log EXCEPT ![r] = @ \cup {e}]
        /\ written' = written \cup {e}
        /\ caller' = [caller EXCEPT ![c] = [at |-> "saving", entry |-> e]]
  BY DEF Append
<1>2. /\ caller[c].at = "idle" /\ Open(r) /\ r \in Replica /\ Home[c] = r
      /\ UNCHANGED <<idx, local, remote, loop, acked, published, overtaken, forgot>>
  BY ReplicaAssumption DEF Append, Open, history
<1> HIDE DEF r
<1>3. /\ IsFiniteSet(written \cup {e})
      /\ Cardinality(written \cup {e}) = Cardinality(written) + 1
      /\ Cardinality(written) \in Nat
      /\ e \notin written
      /\ e.hash = Cardinality(written) + 1
      /\ e.id = r
      /\ e.time \in Nat
      /\ \A f \in log[r] : f.time < e.time
      /\ e.past = {f.hash : f \in log[r]}
      /\ e.past \subseteq 1 .. Cardinality(written)
  <2>1. TypeOK /\ LogsClosed
    OBVIOUS
  <2> HIDE DEF StoreInv
  <2>2. e.past = {f.hash : f \in log[r]}
    BY <1>1 DEF Entry
  <2> QED
    BY <1>1, <1>2, <2>1, <2>2, NewEntry
<1>4. /\ log[r] \subseteq written
      /\ log' \in [Replica -> SUBSET written']
      /\ log'[r] = log[r] \cup {e}
      /\ \A s \in Replica : s # r => log'[s] = log[s]
  BY <1>1, <1>2 DEF TypeOK
<1>5. /\ caller' \in [Caller -> Calls(written')]
      /\ caller'[c] = [at |-> "saving", entry |-> e]
      /\ \A d \in Caller : d # c => caller'[d] = caller[d]
  BY <1>1 DEF TypeOK, Calls
<1>6. \A f \in written : f.hash \in 1 .. Cardinality(written)
                         /\ f.past \subseteq 1 .. Cardinality(written)
                         /\ e.hash \notin f.past
  BY <1>3 DEF TypeOK, EntriesOK
<1>7. e.hash \notin e.past
  BY <1>3
<1>8. \A f \in written : f.hash \in e.past => f \in log[r]
  BY <1>3, <1>4 DEF TypeOK, EntriesOK
<1>9. TypeOK'
  <2>1. EntriesOK'
    <3>1. Cardinality(written') = Cardinality(written) + 1 /\ IsFiniteSet(written')
      BY <1>1, <1>3
    <3>2. \A f \in written' :
            /\ f.hash \in 1 .. Cardinality(written')
            /\ f.time \in Nat /\ f.id \in Replica
            /\ f.past \subseteq 1 .. Cardinality(written')
      <4> DEFINE n == Cardinality(written)
      <4>1. 1 .. n \subseteq 1 .. (n + 1) /\ n + 1 \in 1 .. (n + 1)
        BY <1>3
      <4>2. \A f \in written :
              f.hash \in 1 .. n /\ f.time \in Nat /\ f.id \in Replica /\ f.past \subseteq 1 .. n
        BY DEF TypeOK, EntriesOK
      <4>3. e.hash = n + 1 /\ e.time \in Nat /\ e.id \in Replica /\ e.past \subseteq 1 .. n
        BY <1>2, <1>3
      <4> HIDE DEF n, StoreInv
      <4>4. Cardinality(written') = n + 1
        BY <3>1 DEF n
      <4> QED
        BY <1>1, <4>1, <4>2, <4>3, <4>4
    <3>3. \A f, g \in written' : f.hash = g.hash => f = g
      BY <1>1, <1>3, <1>6 DEF TypeOK, EntriesOK
    <3> QED
      BY <3>1, <3>2, <3>3 DEF EntriesOK
  <2> QED
    BY <1>1, <1>2, <1>4, <1>5, <2>1 DEF TypeOK
<1>10. CallsAtHome'
  <2>1. \A s \in Replica : log[s] \subseteq log'[s]
    BY <1>4
  <2>2. caller'[c].entry = e /\ caller'[c].entry.id = r /\ e \in log'[r]
    BY <1>3, <1>4, <1>5
  <2> QED
    BY <1>2, <1>5, <2>1, <2>2, ReplicaAssumption DEF CallsAtHome, Open
<1>11. PastsClosed'
  <2> SUFFICES ASSUME NEW a \in written', NEW b \in written', NEW g \in written',
                      a.hash \in b.past, b.hash \in g.past
               PROVE  a.hash \in g.past
    BY DEF PastsClosed
  <2>1. a \in written /\ b \in written
    BY <1>1, <1>6, <1>7
  <2>2. CASE g \in written
    BY <2>1, <2>2 DEF PastsClosed
  <2>3. CASE g = e
    BY <1>2, <1>3, <1>8, <2>1, <2>3 DEF LogsClosed, Closed
  <2> QED
    BY <1>1, <2>2, <2>3
<1>12. LogsClosed'
  <2> SUFFICES ASSUME NEW s \in Replica, NEW f \in log'[s], NEW a \in written',
                      a.hash \in f.past
               PROVE  a \in log'[s]
    BY DEF LogsClosed, Closed
  <2>1. f \in written \/ f = e
    BY <1>1, <1>4
  <2>2. a \in written
    BY <1>1, <1>6, <1>7, <2>1
  <2>3. CASE f = e
    <3>1. s = r
      BY <1>3, <1>4, <2>3 DEF TypeOK
    <3>2. a \in log[r]
      BY <1>8, <2>2, <2>3
    <3> QED
      BY <1>4, <3>1, <3>2
  <2>4. CASE f \in log[s]
    BY <1>2, <1>4, <2>2, <2>4 DEF LogsClosed, Closed
  <2> QED
    BY <1>4, <2>3, <2>4
<1>13. OwnInLog'
  BY <1>1, <1>2, <1>3, <1>4 DEF OwnInLog, Open
<1>14. HeadsInLog'
  BY <1>2, <1>4 DEF HeadsInLog, Open
<1>15. OwnInLine'
  <2>1. \A s \in Replica : Line(s)' \subseteq Line(s) \cup (IF s = r THEN {e} ELSE {})
    BY <1>1, <1>2, <1>5, CallForms DEF Line, Pending
  <2>2. Line(r) \subseteq log[r]
    BY <1>2 DEF Line, Pending, HeadsInLog, CallsAtHome
  <2>3. \A f \in Line(r) : Comparable(f, e) /\ Comparable(e, f)
    BY <1>3, <2>2 DEF Comparable
  <2> QED
    BY <2>1, <2>3 DEF OwnInLine, Comparable
<1>16. PromisedFound'
  <2>1. \A s \in Replica : Promised(s)' \subseteq Promised(s)
    BY <1>1, <1>2, <1>5, CallForms DEF Promised, Acked
  <2>2. \A s \in Replica : History(local[s]) \subseteq History(local[s])'
    BY <1>1, <1>2 DEF History
  <2> QED
    BY <1>2, <2>1, <2>2 DEF PromisedFound
<1>17. PromisedLoaded' /\ PromisedSeen'
  BY <1>2, <1>4 DEF PromisedLoaded, PromisedSeen, Acked, Open
<1>18. StampsUnique'
  <2>1. \A f \in written : f.id = r /\ r \notin forgot => f.time < e.time
    BY <1>2, <1>3 DEF OwnInLog
  <2>2. \A f \in written : f.time \in Nat
    BY DEF TypeOK, EntriesOK
  <2>3. \A f \in written : Stamp(e) = Stamp(f) => f.id = r /\ f.time = e.time
    BY <1>3 DEF Stamp
  <2>4. \A f \in written : Stamp(e) = Stamp(f) => r \in forgot /\ f.id = r
    BY <1>3, <2>1, <2>2, <2>3
  <2> QED
    BY <1>1, <1>2, <1>3, <2>4 DEF StampsUnique
<1> QED
  BY <1>9, <1>10, <1>11, <1>12, <1>13, <1>14, <1>15, <1>16, <1>17, <1>18

LEMMA SaveHeadStep ==
    ASSUME StoreInv, NEW c \in Caller, SaveHead(c)
    PROVE  StoreInv'
<1> DEFINE r == Home[c]
           e == caller[c].entry
<1> USE DEF StoreInv
<1>1. /\ caller[c].at = "saving" /\ e \in written
      /\ local' = [local EXCEPT ![r] = {e}]
      /\ caller' = [caller EXCEPT ![c].at = "indexing"]
      /\ UNCHANGED <<log, idx, remote, loop, written, published, acked, forgot>>
  BY CallForms DEF SaveHead, SaveLocalHead
<1>2. /\ overtaken \subseteq overtaken'
      /\ r \notin overtaken' => \A f \in local[r] : e.hash \notin f.past
  BY DEF SaveHead
<1>3. r \in Replica /\ Home[c] = r /\ Open(r) /\ e.id = r /\ e \in log[r]
  BY <1>1, ReplicaAssumption DEF CallsAtHome
<1>4. /\ caller' \in [Caller -> Calls(written)]
      /\ caller'[c].at = "indexing" /\ caller'[c].entry = e
      /\ \A d \in Caller : d # c => caller'[d] = caller[d]
  <2>1. caller[c] = [at |-> "saving", entry |-> e]
    BY <1>1, CallForms
  <2>2. /\ caller' = [d \in Caller |-> caller'[d]]
        /\ caller'[c] = [caller[c] EXCEPT !.at = "indexing"]
        /\ \A d \in Caller : d # c => caller'[d] = caller[d]
    BY <1>1 DEF TypeOK
  <2>3. caller'[c] = [at |-> "indexing", entry |-> e]
    BY <2>1, <2>2
  <2>4. caller'[c] \in Calls(written)
    BY <1>1, <2>3 DEF Calls
  <2> QED
    BY <2>2, <2>3, <2>4 DEF TypeOK
<1>5. /\ local' \in [Replica -> SUBSET written]
      /\ local'[r] = {e}
      /\ \A s \in Replica : s # r => local'[s] = local[s]
  BY <1>1, <1>3 DEF TypeOK
<1>6. caller[c].entry = e /\ Home[c] = r
  OBVIOUS
<1> HIDE DEF r, e
<1>7. TypeOK'
  BY <1>1, <1>4, <1>5 DEF TypeOK, EntriesOK
<1>8. CallsAtHome'
  BY <1>1, <1>3, <1>4 DEF CallsAtHome, Open
<1>9. PastsClosed' /\ LogsClosed' /\ OwnInLog' /\ StampsUnique'
  BY <1>1 DEF PastsClosed, LogsClosed, Closed, OwnInLog, Open, StampsUnique
<1>10. HeadsInLog'
  BY <1>1, <1>3, <1>5 DEF HeadsInLog, Open
<1>11. e \in Line(r)
  BY <1>1, <1>6 DEF Line, Pending
<1>12. OwnInLine'
  <2>1. \A s \in Replica : Pending(s)' \subseteq Pending(s)
    BY <1>1, <1>4, <1>6, CallForms DEF Pending
  <2>2. \A s \in Replica : Line(s)' \subseteq Line(s)
    BY <1>5, <1>11, <2>1 DEF Line
  <2> QED
    BY <2>2 DEF OwnInLine, Comparable
<1>13. PromisedFound'
  <2> SUFFICES ASSUME NEW s \in Replica, s \notin overtaken', NEW q \in Promised(s)'
               PROVE  q \in History(local[s])'
    BY DEF PromisedFound
  <2>1. q \in written /\ (q \in Promised(s) \/ (s = r /\ q = e))
    <3>1. q \in written
      BY <1>1 DEF Promised, Acked, TypeOK
    <3>2. CASE q \in acked /\ q.id = s
      BY <3>1, <3>2 DEF Promised, Acked
    <3>3. CASE \E d \in Caller : Home[d] = s /\ caller'[d].at = "indexing" /\ caller'[d].entry = q
      BY <1>3, <1>4, <3>1, <3>3 DEF Promised
    <3> QED
      BY <1>1, <3>1, <3>2, <3>3 DEF Promised, Acked
  <2>2. CASE s # r
    <3>1. q \in History(local[s])
      BY <1>2, <2>1, <2>2 DEF PromisedFound
    <3> QED
      BY <1>1, <1>5, <2>2, <3>1 DEF History
  <2>3. CASE s = r /\ q # e
    <3>1. q \in History(local[r])
      BY <1>2, <2>1, <2>3 DEF PromisedFound
    <3>2. PICK h \in local[r] : q = h \/ q.hash \in h.past
      BY <3>1 DEF History
    <3>3. h \in written /\ (h = e \/ h.hash \in e.past)
      <4>1. h \in Line(r) /\ e.hash \notin h.past
        BY <1>2, <2>3, <3>2 DEF Line
      <4> QED
        BY <1>3, <1>11, <4>1, <3>2 DEF OwnInLine, Comparable, TypeOK
    <3>4. q.hash \in e.past
      BY <1>1, <2>1, <2>3, <3>2, <3>3 DEF PastsClosed
    <3> QED
      BY <1>1, <1>5, <2>1, <2>3, <3>4 DEF History
  <2>4. CASE s = r /\ q = e
    BY <1>1, <1>5, <2>4 DEF History
  <2> QED
    BY <2>2, <2>3, <2>4
<1>14. PromisedLoaded' /\ PromisedSeen'
  BY <1>1, <1>2 DEF PromisedLoaded, PromisedSeen, Acked, Open
<1> QED
  BY <1>7, <1>8, <1>9, <1>10, <1>12, <1>13, <1>14

LEMMA SaveFailsStep ==
    ASSUME StoreInv, NEW c \in Caller, SaveFails(c)
    PROVE  StoreInv'
<1> USE DEF StoreInv
<1>1. /\ caller' = [caller EXCEPT ![c] = NoCall]
      /\ UNCHANGED <<log, idx, local, remote, loop, written, acked, published,
                     overtaken, forgot>>
  BY DEF SaveFails, history
<1>2. /\ caller' \in [Caller -> Calls(written)]
      /\ caller'[c].at = "idle"
      /\ \A d \in Caller : d # c => caller'[d] = caller[d]
  BY <1>1 DEF TypeOK, Calls, NoCall
<1>3. TypeOK'
  BY <1>1, <1>2 DEF TypeOK, EntriesOK
<1>4. CallsAtHome'
  BY <1>1, <1>2 DEF CallsAtHome, Open
<1>5. PastsClosed' /\ LogsClosed' /\ OwnInLog' /\ HeadsInLog' /\ StampsUnique'
  BY <1>1 DEF PastsClosed, LogsClosed, Closed, OwnInLog, HeadsInLog, Open, StampsUnique
<1>6. OwnInLine'
  <2>1. \A s \in Replica : Line(s)' \subseteq Line(s)
    BY <1>1, <1>2 DEF Line, Pending
  <2> QED
    BY <2>1 DEF OwnInLine, Comparable
<1>7. PromisedFound'
  <2>1. \A s \in Replica : Promised(s)' \subseteq Promised(s)
    BY <1>1, <1>2 DEF Promised, Acked
  <2> QED
    BY <1>1, <2>1 DEF PromisedFound, History
<1>8. PromisedLoaded' /\ PromisedSeen'
  BY <1>1 DEF PromisedLoaded, PromisedSeen, Acked, Open
<1> QED
  BY <1>3, <1>4, <1>5, <1>6, <1>7, <1>8

LEMMA ApplySees ==
    ASSUME NEW x, NEW e
    PROVE  Apply(x, e).seen = x.seen \cup {e}
  BY DEF Apply, Applied

LEMMA IndexOwnStep ==
    ASSUME StoreInv, NEW c \in Caller, IndexOwn(c)
    PROVE  StoreInv'
<1> DEFINE r == Home[c]
           e == caller[c].entry
<1> USE DEF StoreInv
<1>1. /\ caller[c].at = "indexing" /\ e \in written
      /\ idx' = [idx EXCEPT ![r] = Apply(@, e)]
      /\ acked' = acked \cup {e}
      /\ caller' = [caller EXCEPT ![c] = NoCall]
      /\ UNCHANGED <<log, local, remote, loop, written, published, overtaken, forgot>>
  BY CallForms DEF IndexOwn, IndexEntry, history
<1>2. r \in Replica /\ Open(r) /\ e.id = r
  BY <1>1, ReplicaAssumption DEF CallsAtHome
<1>3. /\ caller' \in [Caller -> Calls(written)]
      /\ caller'[c].at = "idle"
      /\ \A d \in Caller : d # c => caller'[d] = caller[d]
  BY <1>1 DEF TypeOK, Calls, NoCall
<1>4. /\ idx' = [s \in Replica |-> idx'[s]]
      /\ idx'[r].seen = idx[r].seen \cup {e}
      /\ \A s \in Replica : s # r => idx'[s] = idx[s]
  BY <1>1, <1>2, ApplySees DEF TypeOK
<1>5. caller[c].entry = e /\ Home[c] = r
  OBVIOUS
<1> HIDE DEF r, e
<1>6. TypeOK'
  BY <1>1, <1>3, <1>4 DEF TypeOK, EntriesOK
<1>7. CallsAtHome'
  BY <1>1, <1>3 DEF CallsAtHome, Open
<1>8. PastsClosed' /\ LogsClosed' /\ OwnInLog' /\ HeadsInLog' /\ StampsUnique'
  BY <1>1 DEF PastsClosed, LogsClosed, Closed, OwnInLog, HeadsInLog, Open, StampsUnique
<1>9. OwnInLine'
  <2>1. \A s \in Replica : Line(s)' \subseteq Line(s)
    BY <1>1, <1>3 DEF Line, Pending
  <2> QED
    BY <2>1 DEF OwnInLine, Comparable
<1>10. PromisedFound'
  <2>1. \A s \in Replica : Promised(s)' \subseteq Promised(s)
    BY <1>1, <1>2, <1>3, <1>5 DEF Promised, Acked
  <2> QED
    BY <1>1, <2>1 DEF PromisedFound, History
<1>11. PromisedLoaded' /\ PromisedSeen'
  BY <1>1, <1>2, <1>4 DEF PromisedLoaded, PromisedSeen, Acked, Open
<1> QED
  BY <1>6, <1>7, <1>8, <1>9, <1>10, <1>11

(***************************************************************************)
(* The goroutines of a replica leave the callers, what was written and     *)
(* what was promised alone.                                                *)
(***************************************************************************)
Aside == UNCHANGED <<local, caller, written, acked, overtaken>>

LEMMA AsideKeeps ==
    ASSUME StoreInv, Aside
    PROVE  PastsClosed' /\ OwnInLine' /\ PromisedFound'
<1>1. \A s \in Replica : Line(s)' = Line(s) /\ Promised(s)' = Promised(s)
  BY DEF Aside, Line, Pending, Promised, Acked
<1> QED
  BY <1>1 DEF StoreInv, Aside, PastsClosed, OwnInLine, Comparable, PromisedFound, History

LEMMA JoinStep ==
    ASSUME StoreInv, NEW r \in Replica, Join(r)
    PROVE  StoreInv'
<1> USE DEF StoreInv
<1>1. PICK e \in published \ log[r] : log' = [log EXCEPT ![r] = @ \cup Fetched(e)]
  BY DEF Join
<1>2. /\ loop[r] \in {"idle", "down"}
      /\ loop' = [loop EXCEPT ![r] = IF @ = "down" THEN "joined early" ELSE "joined"]
      /\ UNCHANGED <<idx, remote, published, forgot>>
      /\ Aside
  BY DEF Join, Aside, history
<1>3. Fetched(e) \subseteq written /\ Closed(Fetched(e))
  BY <1>1, HistoryIsClosed DEF Fetched, TypeOK
<1>4. /\ log' \in [Replica -> SUBSET written]
      /\ log'[r] = log[r] \cup Fetched(e)
      /\ \A s \in Replica : s # r => log'[s] = log[s]
  BY <1>1, <1>3 DEF TypeOK
<1>5. /\ loop' \in [Replica -> LoopStates]
      /\ Open(r)' => Open(r)
      /\ Open(r) => Open(r)'
      /\ loop'[r] # "loading"
      /\ \A s \in Replica : s # r => loop'[s] = loop[s]
  BY <1>2 DEF TypeOK, Open, LoopStates
<1>6. TypeOK'
  BY <1>2, <1>4, <1>5 DEF TypeOK, EntriesOK, Aside
<1>7. CallsAtHome'
  BY <1>2, <1>4, <1>5, ReplicaAssumption DEF CallsAtHome, Open, Aside
<1>8. LogsClosed'
  <2>1. Closed(log[r] \cup Fetched(e))
    BY <1>3, UnionIsClosed DEF LogsClosed
  <2> QED
    BY <1>2, <1>4, <2>1 DEF LogsClosed, Closed, Aside
<1>9. OwnInLog' /\ HeadsInLog' /\ StampsUnique'
  BY <1>2, <1>4, <1>5 DEF OwnInLog, HeadsInLog, Open, StampsUnique, Aside
<1>10. PromisedLoaded' /\ PromisedSeen'
  BY <1>2, <1>4, <1>5 DEF PromisedLoaded, PromisedSeen, Acked, Open, Aside
<1> QED
  BY <1>2, <1>6, <1>7, <1>8, <1>9, <1>10, AsideKeeps

LEMMA AnnounceStep ==
    ASSUME StoreInv, NEW r \in Replica, Announce(r)
    PROVE  StoreInv'
<1> USE DEF StoreInv
<1>1. /\ published' = published \cup Heads(log[r])
      /\ UNCHANGED <<log, idx, remote, loop, forgot>>
      /\ Aside
  BY DEF Announce, CurrentHeads, Aside
<1>2. TypeOK'
  BY <1>1 DEF TypeOK, EntriesOK, Heads, Aside
<1>3. CallsAtHome' /\ LogsClosed' /\ OwnInLog' /\ HeadsInLog' /\ StampsUnique'
  BY <1>1 DEF CallsAtHome, LogsClosed, Closed, OwnInLog, HeadsInLog, Open, StampsUnique, Aside
<1>4. PromisedLoaded' /\ PromisedSeen'
  BY <1>1 DEF PromisedLoaded, PromisedSeen, Acked, Open, Aside
<1> QED
  BY <1>1, <1>2, <1>3, <1>4, AsideKeeps

LEMMA IndexStep ==
    ASSUME StoreInv, NEW r \in Replica, Index(r)
    PROVE  StoreInv'
<1> USE DEF StoreInv
<1>1. PICK e \in Unseen(r) : idx' = [idx EXCEPT ![r] = Apply(@, e)]
  BY DEF Index, IndexEntry
<1>2. /\ UNCHANGED <<log, remote, loop, published, forgot>>
      /\ Aside
  BY DEF Index, Aside, history
<1>3. /\ idx' = [s \in Replica |-> idx'[s]]
      /\ \A s \in Replica : idx[s].seen \subseteq idx'[s].seen
  BY <1>1, ApplySees DEF TypeOK
<1>4. TypeOK'
  BY <1>2, <1>3 DEF TypeOK, EntriesOK, Aside
<1>5. CallsAtHome' /\ LogsClosed' /\ OwnInLog' /\ HeadsInLog' /\ StampsUnique'
  BY <1>2 DEF CallsAtHome, LogsClosed, Closed, OwnInLog, HeadsInLog, Open, StampsUnique, Aside
<1>6. PromisedLoaded' /\ PromisedSeen'
  BY <1>2, <1>3 DEF PromisedLoaded, PromisedSeen, Acked, Open, Aside
<1> QED
  BY <1>2, <1>4, <1>5, <1>6, AsideKeeps

LEMMA SaveRemoteHeadsStep ==
    ASSUME StoreInv, NEW r \in Replica, SaveRemoteHeads(r)
    PROVE  StoreInv'
<1> USE DEF StoreInv
<1>1. /\ loop[r] \in {"joined", "joined early"}
      /\ remote' = [remote EXCEPT ![r] = Heads(log[r])]
      /\ loop' = [loop EXCEPT ![r] = IF @ = "joined" THEN "idle" ELSE "down"]
      /\ UNCHANGED <<log, idx, published, forgot>>
      /\ Aside
  BY DEF SaveRemoteHeads, Aside, history
<1>2. /\ loop' \in [Replica -> LoopStates]
      /\ Open(r)' => Open(r)
      /\ Open(r) => Open(r)'
      /\ loop'[r] # "loading"
      /\ \A s \in Replica : s # r => loop'[s] = loop[s]
  BY <1>1 DEF TypeOK, Open, LoopStates
<1>3. remote' \in [Replica -> SUBSET written]
  BY <1>1 DEF TypeOK, Heads
<1>4. TypeOK'
  BY <1>1, <1>2, <1>3 DEF TypeOK, EntriesOK, Aside
<1>5. CallsAtHome'
  BY <1>1, <1>2, ReplicaAssumption DEF CallsAtHome, Open, Aside
<1>6. LogsClosed' /\ OwnInLog' /\ HeadsInLog' /\ StampsUnique'
  BY <1>1, <1>2 DEF LogsClosed, Closed, OwnInLog, HeadsInLog, Open, StampsUnique, Aside
<1>7. PromisedLoaded' /\ PromisedSeen'
  BY <1>1, <1>2 DEF PromisedLoaded, PromisedSeen, Acked, Open, Aside
<1> QED
  BY <1>1, <1>4, <1>5, <1>6, <1>7, AsideKeeps

LEMMA LoadStep ==
    ASSUME StoreInv, NEW r \in Replica, Load(r)
    PROVE  StoreInv'
<1> USE DEF StoreInv
<1>1. /\ loop[r] = "down"
      /\ log' = [log EXCEPT ![r] = @ \cup Saved(r)]
      /\ loop' = [loop EXCEPT ![r] = "loading"]
      /\ UNCHANGED <<idx, remote, published, forgot>>
      /\ Aside
  BY DEF Load, Aside, history
<1>2. local[r] \cup remote[r] \in SUBSET written
  BY DEF TypeOK
<1>3. /\ local[r] \subseteq Saved(r)
      /\ Saved(r) \subseteq written
      /\ Closed(Saved(r))
  BY <1>2, HistoryIsClosed DEF Saved
<1>4. History(local[r]) \subseteq Saved(r)
  BY DEF Saved, History
<1>5. /\ log' \in [Replica -> SUBSET written]
      /\ log'[r] = log[r] \cup Saved(r)
      /\ \A s \in Replica : s # r => log'[s] = log[s]
  BY <1>1, <1>3 DEF TypeOK
<1>6. /\ loop' \in [Replica -> LoopStates]
      /\ ~Open(r) /\ ~Open(r)'
      /\ \A s \in Replica : s # r => loop'[s] = loop[s]
  BY <1>1 DEF TypeOK, Open, LoopStates
<1>7. TypeOK'
  BY <1>1, <1>5, <1>6 DEF TypeOK, EntriesOK, Aside
<1>8. CallsAtHome'
  BY <1>1, <1>5, <1>6, ReplicaAssumption DEF CallsAtHome, Open, Aside
<1>9. LogsClosed'
  <2>1. Closed(log[r] \cup Saved(r))
    BY <1>3, UnionIsClosed DEF LogsClosed
  <2> QED
    BY <1>1, <1>5, <2>1 DEF LogsClosed, Closed, Aside
<1>10. OwnInLog' /\ HeadsInLog' /\ StampsUnique'
  BY <1>1, <1>3, <1>5, <1>6 DEF OwnInLog, HeadsInLog, Open, StampsUnique, Aside
<1>11. PromisedLoaded'
  <2>1. r \notin overtaken => Acked(r) \subseteq log'[r]
    BY <1>4, <1>5 DEF PromisedFound, Promised
  <2> QED
    BY <1>1, <1>5, <1>6, <2>1 DEF PromisedLoaded, Acked, Aside
<1>12. PromisedSeen'
  BY <1>1, <1>6 DEF PromisedSeen, Acked, Open, Aside
<1> QED
  BY <1>1, <1>7, <1>8, <1>9, <1>10, <1>11, <1>12, AsideKeeps

LEMMA ReadyStep ==
    ASSUME StoreInv, NEW r \in Replica, Ready(r)
    PROVE  StoreInv'
<1> USE DEF StoreInv
<1>1. /\ loop[r] = "loading"
      /\ log[r] \subseteq idx[r].seen
      /\ loop' = [loop EXCEPT ![r] = "idle"]
      /\ UNCHANGED <<log, idx, remote, published>>
      /\ Aside
  BY DEF Ready, Unseen, Aside
<1>2. /\ forgot \subseteq forgot'
      /\ r \notin forgot' => \A e \in written : e.id = r => e \in log[r]
  BY DEF Ready
<1>3. /\ loop' \in [Replica -> LoopStates]
      /\ loop'[r] = "idle"
      /\ \A s \in Replica : s # r => loop'[s] = loop[s]
  BY <1>1 DEF TypeOK, LoopStates
<1>4. TypeOK'
  BY <1>1, <1>3 DEF TypeOK, EntriesOK, Aside
<1>5. CallsAtHome'
  BY <1>1, <1>3, ReplicaAssumption DEF CallsAtHome, Open, Aside
<1>6. LogsClosed' /\ HeadsInLog'
  BY <1>1, <1>3 DEF LogsClosed, Closed, HeadsInLog, Open, Aside
<1>7. OwnInLog' /\ StampsUnique'
  BY <1>1, <1>2, <1>3 DEF OwnInLog, Open, StampsUnique, Aside
<1>8. PromisedLoaded' /\ PromisedSeen'
  BY <1>1, <1>3 DEF PromisedLoaded, PromisedSeen, Acked, Open, Aside
<1> QED
  BY <1>1, <1>4, <1>5, <1>6, <1>7, <1>8, AsideKeeps

LEMMA CrashStep ==
    ASSUME StoreInv, NEW r \in Replica, Crash(r)
    PROVE  StoreInv'
<1> USE DEF StoreInv
<1>1. /\ log' = [log EXCEPT ![r] = {}]
      /\ idx' = [idx EXCEPT ![r] = EmptyIndex]
      /\ loop' = [loop EXCEPT ![r] = "down"]
      /\ caller' = [c \in Caller |-> IF Home[c] = r THEN NoCall ELSE caller[c]]
      /\ UNCHANGED <<local, remote, written, published, acked, overtaken, forgot>>
  BY DEF Crash
<1>2. /\ log' \in [Replica -> SUBSET written]
      /\ log'[r] = {}
      /\ \A s \in Replica : s # r => log'[s] = log[s]
  BY <1>1 DEF TypeOK
<1>3. /\ loop' \in [Replica -> LoopStates]
      /\ loop'[r] = "down"
      /\ \A s \in Replica : s # r => loop'[s] = loop[s]
  BY <1>1 DEF TypeOK, LoopStates
<1>4. /\ idx' = [s \in Replica |-> idx'[s]]
      /\ \A s \in Replica : s # r => idx'[s] = idx[s]
  BY <1>1 DEF TypeOK
<1>5. /\ caller' \in [Caller -> Calls(written)]
      /\ \A c \in Caller : IF Home[c] = r THEN caller'[c].at = "idle"
                                          ELSE caller'[c] = caller[c]
  BY <1>1 DEF TypeOK, Calls, NoCall
<1>6. TypeOK'
  BY <1>1, <1>2, <1>3, <1>4, <1>5 DEF TypeOK, EntriesOK
<1>7. CallsAtHome'
  BY <1>2, <1>3, <1>5, ReplicaAssumption DEF CallsAtHome, Open
<1>8. PastsClosed' /\ LogsClosed'
  BY <1>1, <1>2 DEF PastsClosed, LogsClosed, Closed
<1>9. OwnInLog' /\ HeadsInLog' /\ StampsUnique'
  BY <1>1, <1>2, <1>3 DEF OwnInLog, HeadsInLog, Open, StampsUnique
<1>10. OwnInLine'
  <2>1. \A s \in Replica : Line(s)' \subseteq Line(s)
    BY <1>1, <1>5 DEF Line, Pending
  <2> QED
    BY <2>1 DEF OwnInLine, Comparable
<1>11. PromisedFound'
  <2>1. \A s \in Replica : Promised(s)' \subseteq Promised(s)
    BY <1>1, <1>5 DEF Promised, Acked
  <2> QED
    BY <1>1, <2>1 DEF PromisedFound, History
<1>12. PromisedLoaded' /\ PromisedSeen'
  BY <1>1, <1>2, <1>3, <1>4 DEF PromisedLoaded, PromisedSeen, Acked, Open
<1> QED
  BY <1>6, <1>7, <1>8, <1>9, <1>10, <1>11, <1>12

LEMMA StoreInvStep == StoreInv /\ [Next]_vars => StoreInv'
<1> SUFFICES ASSUME StoreInv, [Next]_vars PROVE StoreInv'
  OBVIOUS
<1>1. CASE UNCHANGED vars
  <2>1. Aside /\ UNCHANGED <<log, idx, remote, loop, published, forgot>>
    BY <1>1 DEF vars, Aside
  <2>2. TypeOK' /\ CallsAtHome' /\ LogsClosed' /\ OwnInLog' /\ HeadsInLog'
    BY <2>1 DEF StoreInv, TypeOK, EntriesOK, CallsAtHome, LogsClosed, Closed,
                OwnInLog, HeadsInLog, Open, Aside
  <2>3. PromisedLoaded' /\ PromisedSeen' /\ StampsUnique'
    BY <2>1 DEF StoreInv, PromisedLoaded, PromisedSeen, StampsUnique, Acked, Open, Aside
  <2> QED
    BY <2>1, <2>2, <2>3, AsideKeeps DEF StoreInv
<1>2. ASSUME NEW c \in Caller, AddOperation(c) PROVE StoreInv'
  BY <1>2, AppendStep, SaveHeadStep, SaveFailsStep, IndexOwnStep DEF AddOperation
<1>3. ASSUME NEW r \in Replica, Goroutines(r) PROVE StoreInv'
  BY <1>3, AnnounceStep, JoinStep, IndexStep, SaveRemoteHeadsStep, LoadStep, ReadyStep
     DEF Goroutines
<1>4. ASSUME NEW r \in Replica, Crash(r) PROVE StoreInv'
  BY <1>4, CrashStep
<1> QED
  BY <1>1, <1>2, <1>3, <1>4 DEF Next

(***************************************************************************)
(* Logs stay closed under what their entries know of, own entries stay in  *)
(* the log of an open store, heads saved are in line, and promises are     *)
(* kept: StoreInv, of base_store.go.                                       *)
(***************************************************************************)
THEOREM StoreIsConsistent == Spec => []StoreInv
<1>1. Init => StoreInv
  BY InitStoreInv
<1>2. StoreInv /\ [Next]_vars => StoreInv'
  BY StoreInvStep
<1> QED
  BY <1>1, <1>2, PTL DEF Spec

(***************************************************************************)
(* Two entries never have the same stamp (NextTime, AddOperation), unless  *)
(* their replica was loaded without an entry of its own.                   *)
(***************************************************************************)
THEOREM ClocksTellApart == Spec => []StampsUnique
<1>1. StoreInv => StampsUnique
  BY DEF StoreInv
<1> QED
  BY <1>1, StoreIsConsistent, PTL

(***************************************************************************)
(* What AddOperation acknowledged is found from the heads in the cache     *)
(* after any crash, and queries see it while the store is open, unless an  *)
(* older head was saved over a newer one.                                  *)
(***************************************************************************)
THEOREM AcknowledgedIsKept == Spec => []AcknowledgedSurvives
<1>1. StoreInv => AcknowledgedSurvives
  <2> SUFFICES ASSUME StoreInv, NEW e \in acked, e.id \notin overtaken
               PROVE  /\ e \in Saved(e.id)
                      /\ Open(e.id) => e \in idx[e.id].seen
    BY DEF AcknowledgedSurvives, Open
  <2>1. e.id \in Replica /\ e \in Acked(e.id)
    BY DEF StoreInv, TypeOK, EntriesOK, Acked
  <2>2. e \in History(local[e.id])
    BY <2>1 DEF StoreInv, PromisedFound, Promised
  <2>3. e \in Saved(e.id)
    BY <2>2 DEF Saved, History
  <2> QED
    BY <2>1, <2>3 DEF StoreInv, PromisedSeen
<1> QED
  BY <1>1, StoreIsConsistent, PTL

=============================================================================
