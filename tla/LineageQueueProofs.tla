------------------------- MODULE LineageQueueProofs -------------------------
(***************************************************************************)
(* Theorems about the lineage queue, for any number of documents, updates  *)
(* and worker names; about the updates and deletes of documents that post  *)
(* to it, and reservations, for any calls that overlap in any way; about   *)
(* the messages of external systems, for any messages and connections;     *)
(* and about the commands a node is given, for any commands and slots.     *)
(***************************************************************************)
EXTENDS Updates, Messaging, Service, FiniteSetTheorems, TLAPS

(***************************************************************************)
(* Why the catalog never moves back: the versions of a document that the   *)
(* catalog shows, that is being worked on, and that waits, are in this     *)
(* order, and none is newer than the document itself.                      *)
(***************************************************************************)
VersionsInOrder ==
    /\ \A d \in Doc :
        /\ catalog[d] <= latest[d]
        /\ pending[d] <= latest[d]
        /\ pending[d] # NoJob => catalog[d] < pending[d]
    /\ \A w \in Worker : worker[w].at = "working" =>
        LET d == worker[w].doc
            v == worker[w].version
        IN  /\ catalog[d] < v
            /\ v <= latest[d]
            /\ pending[d] # NoJob => v < pending[d]

(***************************************************************************)
(* What holds of the queue whatever versions come to it, in whatever order.*)
(***************************************************************************)
QueueOK == TypeOK /\ OneWorker /\ OrderMatchesPending

IInv == QueueOK /\ VersionsInOrder

-----------------------------------------------------------------------------
(* Sequences, as far as a queue needs them.                                *)

LEMMA AppendFacts ==
    ASSUME NEW S, NEW s \in Seq(S), NEW x \in S
    PROVE  /\ Append(s, x) \in Seq(S)
           /\ DOMAIN s = 1 .. Len(s)
           /\ Len(s) \in Nat
           /\ DOMAIN Append(s, x) = 1 .. Len(s) + 1
           /\ \A i \in 1 .. Len(s) : Append(s, x)[i] = s[i]
           /\ Append(s, x)[Len(s) + 1] = x
           /\ Append(s, x) # <<>>
  OBVIOUS

LEMMA TailFacts ==
    ASSUME NEW S, NEW s \in Seq(S), s # <<>>
    PROVE  /\ Head(s) \in S
           /\ Head(s) = s[1]
           /\ Tail(s) \in Seq(S)
           /\ Len(s) \in Nat \ {0}
           /\ DOMAIN s = 1 .. Len(s)
           /\ DOMAIN Tail(s) = 1 .. Len(s) - 1
           /\ \A i \in 1 .. Len(s) - 1 : Tail(s)[i] = s[i + 1]
  OBVIOUS

-----------------------------------------------------------------------------

LEMMA InitIInv == Init => IInv
<1> SUFFICES ASSUME Init PROVE IInv
  OBVIOUS
<1> USE DEF Init, QueueInit, Gone, Looking, NoJob
<1>1. TypeOK
  <2>1. <<>> \in Seq(Doc)
    OBVIOUS
  <2> QED
    BY <2>1 DEF TypeOK
<1>2. OneWorker
  BY DEF OneWorker
<1>3. OrderMatchesPending
  BY DEF OrderMatchesPending
<1>4. VersionsInOrder
  BY DEF VersionsInOrder
<1> QED
  BY <1>1, <1>2, <1>3, <1>4 DEF IInv, QueueOK

(***************************************************************************)
(* The three kinds of worker state.                                        *)
(***************************************************************************)
LEMMA WorkerStates ==
    ASSUME TypeOK, NEW w \in Worker
    PROVE  \/ worker[w] = Gone /\ worker[w].at = "gone"
           \/ worker[w] = Looking /\ worker[w].at = "looking"
           \/ /\ worker[w].at = "working"
              /\ worker[w].doc \in Doc
              /\ worker[w].version \in Nat \ {NoJob}
              /\ worker[w] # Gone
              /\ worker[w] # Looking
  BY DEF TypeOK, Gone, Looking

(***************************************************************************)
(* WakeWorker leaves one worker, and workers that work alone.              *)
(***************************************************************************)
LEMMA WakeKeepsOneWorker ==
    ASSUME QueueOK, WakeWorker
    PROVE  /\ running' = TRUE
           /\ worker' \in [Worker -> {Gone, Looking}
                 \cup [at : {"working"}, doc : Doc, version : Nat \ {NoJob}]]
           /\ \E w \in Worker : worker'[w] # Gone
           /\ \A w, x \in Worker :
                worker'[w] # Gone /\ worker'[x] # Gone => w = x
           /\ \A w \in Worker :
                worker'[w].at = "working" => worker'[w] = worker[w]
<1>1. CASE running
  BY <1>1 DEF QueueOK, TypeOK, OneWorker, WakeWorker
<1>2. CASE ~running
  <2>1. PICK w \in Worker :
           worker[w] = Gone /\ worker' = [worker EXCEPT ![w] = Looking]
    BY <1>2 DEF WakeWorker, StartWorker
  <2>2. running' = TRUE
    BY <1>2 DEF WakeWorker
  <2>3. \A x \in Worker : worker[x] = Gone
    BY <1>2 DEF QueueOK, OneWorker
  <2>4. Looking # Gone /\ Looking.at # "working" /\ Gone.at # "working"
    BY DEF Looking, Gone
  <2> QED
    BY <2>1, <2>2, <2>3, <2>4 DEF QueueOK, TypeOK
<1> QED
  BY <1>1, <1>2 DEF QueueOK, TypeOK

LEMMA EnqueueKeepsQueue ==
    ASSUME QueueOK, NEW d \in Doc, NEW v \in Nat \ {NoJob}, EnqueueLineage(d, v),
           latest' \in [Doc -> Nat], catalog' = catalog
    PROVE  QueueOK'
<1>1. /\ pending' = [pending EXCEPT ![d] = v]
      /\ order' = IF pending[d] = NoJob THEN Append(order, d) ELSE order
      /\ WakeWorker
  BY DEF EnqueueLineage, EnterOrder, PendingVersion
<1>2. /\ pending \in [Doc -> Nat] /\ order \in Seq(Doc)
      /\ catalog \in [Doc -> Nat]
  BY DEF QueueOK, TypeOK
<1>3. TypeOK'
  BY <1>1, <1>2, WakeKeepsOneWorker, AppendFacts DEF TypeOK
<1>4. OneWorker'
  BY <1>1, WakeKeepsOneWorker DEF OneWorker
<1>5. OrderMatchesPending'
  <2>1. CASE pending[d] = NoJob
    <3> DEFINE n == Len(order)
    <3>1. /\ n \in Nat
          /\ DOMAIN order = 1 .. n
          /\ DOMAIN order' = 1 .. n + 1
          /\ \A i \in 1 .. n : order'[i] = order[i]
          /\ order'[n + 1] = d
      BY <1>1, <1>2, <2>1, AppendFacts
    <3>2. /\ \A i, j \in 1 .. n : order[i] = order[j] => i = j
          /\ \A i \in 1 .. n : order[i] # d
          /\ \A e \in Doc :
               pending[e] # NoJob <=> \E i \in 1 .. n : order[i] = e
      BY <2>1, <3>1 DEF QueueOK, OrderMatchesPending
    <3>3. \A i, j \in 1 .. n + 1 : order'[i] = order'[j] => i = j
      BY <3>1, <3>2
    <3>4. ASSUME NEW e \in Doc
          PROVE  pending'[e] # NoJob <=> \E i \in 1 .. n + 1 : order'[i] = e
      <4>1. CASE e = d
        BY <1>1, <1>2, <3>1, <4>1
      <4>2. CASE e # d
        BY <1>1, <1>2, <3>1, <3>2, <4>2
      <4> QED
        BY <4>1, <4>2
    <3> QED
      BY <3>1, <3>3, <3>4 DEF OrderMatchesPending
  <2>2. CASE pending[d] # NoJob
    BY <1>1, <1>2, <2>2 DEF QueueOK, OrderMatchesPending
  <2> QED
    BY <2>1, <2>2
<1> QED
  BY <1>3, <1>4, <1>5 DEF QueueOK

LEMMA UpdateKeepsIInv ==
    ASSUME IInv, NEW d \in Doc, Update(d)
    PROVE  IInv'
<1> DEFINE v == latest[d] + 1
<1>1. /\ pending' = [pending EXCEPT ![d] = v]
      /\ latest' = [latest EXCEPT ![d] = v]
      /\ EnqueueLineage(d, v)
      /\ WakeWorker
      /\ catalog' = catalog
  BY DEF Update, EnqueueLineage, EnterOrder, PendingVersion
<1>2. /\ QueueOK
      /\ pending \in [Doc -> Nat] /\ latest \in [Doc -> Nat]
      /\ catalog \in [Doc -> Nat] /\ order \in Seq(Doc)
      /\ v \in Nat \ {NoJob}
  BY DEF IInv, QueueOK, TypeOK, NoJob
<1>3. latest' \in [Doc -> Nat]
  BY <1>1, <1>2
<1>4. QueueOK'
  <2> HIDE DEF v
  <2> QED
    BY <1>1, <1>2, <1>3, EnqueueKeepsQueue
<1>5. VersionsInOrder'
  <2>1. \A e \in Doc : catalog[e] <= latest[e] /\ pending[e] <= latest[e]
    BY DEF IInv, VersionsInOrder
  <2>2. \A e \in Doc :
          /\ catalog'[e] <= latest'[e]
          /\ pending'[e] <= latest'[e]
          /\ pending'[e] # NoJob => catalog'[e] < pending'[e]
    BY <1>1, <1>2, <2>1 DEF IInv, VersionsInOrder
  <2>3. ASSUME NEW w \in Worker, worker'[w].at = "working"
        PROVE  /\ catalog'[worker'[w].doc] < worker'[w].version
               /\ worker'[w].version <= latest'[worker'[w].doc]
               /\ pending'[worker'[w].doc] # NoJob
                    => worker'[w].version < pending'[worker'[w].doc]
    <3>1. worker'[w] = worker[w] /\ worker[w].at = "working"
      BY <1>1, <1>2, <2>3, WakeKeepsOneWorker
    <3>2. worker[w].doc \in Doc /\ worker[w].version \in Nat
      BY <3>1, WorkerStates DEF IInv, QueueOK
    <3> QED
      BY <1>1, <1>2, <3>1, <3>2 DEF IInv, VersionsInOrder
  <2> QED
    BY <2>2, <2>3 DEF VersionsInOrder
<1> QED
  BY <1>4, <1>5 DEF IInv

LEMMA StopKeepsQueue ==
    ASSUME QueueOK, NEW w \in Worker, Stop(w)
    PROVE  QueueOK'
<1>1. /\ worker[w] = Looking /\ order = <<>>
      /\ worker' = [worker EXCEPT ![w] = Gone]
      /\ running' = FALSE
      /\ UNCHANGED <<pending, order, latest, catalog>>
  BY DEF Stop, Leave
<1>2. Looking # Gone /\ Gone.at # "working"
  BY DEF Looking, Gone
<1>3. TypeOK'
  BY <1>1 DEF QueueOK, TypeOK
<1>4. \A x \in Worker : worker'[x] = Gone
  BY <1>1, <1>2 DEF QueueOK, TypeOK, OneWorker
<1>5. OneWorker'
  BY <1>1, <1>4 DEF OneWorker
<1>6. OrderMatchesPending'
  BY <1>1 DEF QueueOK, OrderMatchesPending
<1> QED
  BY <1>3, <1>5, <1>6 DEF QueueOK

LEMMA StopKeepsIInv ==
    ASSUME IInv, NEW w \in Worker, Stop(w)
    PROVE  IInv'
<1>1. /\ worker[w] = Looking /\ order = <<>>
      /\ worker' = [worker EXCEPT ![w] = Gone]
      /\ running' = FALSE
      /\ UNCHANGED <<pending, order, latest, catalog>>
  BY DEF Stop, Leave
<1>2. Looking # Gone /\ Gone.at # "working"
  BY DEF Looking, Gone
<1>3. \A x \in Worker : worker'[x] = Gone
  BY <1>1, <1>2 DEF IInv, QueueOK, TypeOK, OneWorker
<1>4. QueueOK'
  BY StopKeepsQueue DEF IInv
<1>5. VersionsInOrder'
  BY <1>1, <1>2, <1>3 DEF IInv, VersionsInOrder
<1> QED
  BY <1>4, <1>5 DEF IInv

LEMMA TakeKeepsQueue ==
    ASSUME QueueOK, NEW w \in Worker, Take(w)
    PROVE  QueueOK'
<1> DEFINE d == Head(order)
           job == [at |-> "working", doc |-> d, version |-> pending[d]]
<1>1. /\ worker[w] = Looking /\ order # <<>>
      /\ order' = Tail(order)
      /\ worker' = [worker EXCEPT ![w] = job]
      /\ pending' = [pending EXCEPT ![d] = NoJob]
      /\ UNCHANGED <<running, latest, catalog>>
  BY DEF Take
<1>2. /\ pending \in [Doc -> Nat] /\ latest \in [Doc -> Nat]
      /\ catalog \in [Doc -> Nat] /\ order \in Seq(Doc)
      /\ d \in Doc /\ d = order[1]
  BY <1>1, TailFacts DEF QueueOK, TypeOK
<1>3. pending[d] \in Nat \ {NoJob}
  BY <1>1, <1>2, TailFacts DEF QueueOK, OrderMatchesPending
<1>4. job # Gone /\ Looking # Gone
  BY DEF Gone, Looking
<1>5. TypeOK'
  BY <1>1, <1>2, <1>3, TailFacts DEF QueueOK, TypeOK, NoJob
<1>6. OneWorker'
  BY <1>1, <1>2, <1>4, TailFacts DEF QueueOK, TypeOK, OneWorker
<1>7. OrderMatchesPending'
  <2> DEFINE n == Len(order)
  <2>1. /\ n \in Nat \ {0}
        /\ DOMAIN order = 1 .. n
        /\ DOMAIN order' = 1 .. n - 1
        /\ \A i \in 1 .. n - 1 : order'[i] = order[i + 1]
    BY <1>1, <1>2, TailFacts
  <2>2. /\ \A i, j \in 1 .. n : order[i] = order[j] => i = j
        /\ \A e \in Doc :
             pending[e] # NoJob <=> \E i \in 1 .. n : order[i] = e
    BY <2>1 DEF QueueOK, OrderMatchesPending
  <2>3. \A i, j \in 1 .. n - 1 : order'[i] = order'[j] => i = j
    <3> SUFFICES ASSUME NEW i \in 1 .. n - 1, NEW j \in 1 .. n - 1,
                        order'[i] = order'[j]
                 PROVE  i = j
      OBVIOUS
    <3>1. i + 1 \in 1 .. n /\ j + 1 \in 1 .. n /\ order[i + 1] = order[j + 1]
      BY <2>1
    <3>2. i + 1 = j + 1
      BY <2>2, <3>1
    <3> QED
      BY <2>1, <3>2
  <2>4. ASSUME NEW e \in Doc
        PROVE  pending'[e] # NoJob <=> \E i \in 1 .. n - 1 : order'[i] = e
    <3>1. CASE e = d
      <4>1. ASSUME NEW i \in 1 .. n - 1, order'[i] = e PROVE FALSE
        <5>1. i + 1 \in 1 .. n /\ 1 \in 1 .. n /\ order'[i] = order[i + 1]
          BY <2>1
        <5>2. order[i + 1] = order[1]
          BY <1>2, <3>1, <4>1, <5>1
        <5>3. i + 1 = 1
          BY <2>2, <5>1, <5>2
        <5> QED
          BY <2>1, <5>3
      <4> QED
        BY <1>1, <1>2, <3>1, <4>1
    <3>2. CASE e # d
      <4>1. ASSUME NEW i \in 1 .. n, order[i] = e
            PROVE  i - 1 \in 1 .. n - 1 /\ order'[i - 1] = e
        <5>1. i # 1
          BY <1>2, <3>2, <4>1
        <5>2. i - 1 \in 1 .. n - 1 /\ (i - 1) + 1 = i
          BY <2>1, <5>1
        <5> QED
          BY <2>1, <4>1, <5>2
      <4>2. ASSUME NEW i \in 1 .. n - 1, order'[i] = e
            PROVE  i + 1 \in 1 .. n /\ order[i + 1] = e
        BY <2>1, <4>2
      <4>3. pending'[e] = pending[e]
        BY <1>1, <1>2, <3>2
      <4>4. pending[e] # NoJob <=> \E i \in 1 .. n : order[i] = e
        BY <2>2
      <4> HIDE DEF n
      <4> QED
        BY <4>1, <4>2, <4>3, <4>4
    <3> QED
      BY <3>1, <3>2
  <2> QED
    BY <2>1, <2>3, <2>4 DEF OrderMatchesPending
<1> QED
  BY <1>5, <1>6, <1>7 DEF QueueOK

LEMMA TakeKeepsIInv ==
    ASSUME IInv, NEW w \in Worker, Take(w)
    PROVE  IInv'
<1> DEFINE d == Head(order)
           job == [at |-> "working", doc |-> d, version |-> pending[d]]
<1>1. /\ worker[w] = Looking /\ order # <<>>
      /\ order' = Tail(order)
      /\ worker' = [worker EXCEPT ![w] = job]
      /\ pending' = [pending EXCEPT ![d] = NoJob]
      /\ UNCHANGED <<running, latest, catalog>>
  BY DEF Take
<1>2. /\ pending \in [Doc -> Nat] /\ latest \in [Doc -> Nat]
      /\ catalog \in [Doc -> Nat] /\ order \in Seq(Doc)
      /\ d \in Doc /\ d = order[1]
  BY <1>1, TailFacts DEF IInv, QueueOK, TypeOK
<1>3. pending[d] \in Nat \ {NoJob}
  BY <1>1, <1>2, TailFacts DEF IInv, QueueOK, OrderMatchesPending
<1>4. job # Gone /\ Looking # Gone
  BY DEF Gone, Looking
<1>5. QueueOK'
  BY TakeKeepsQueue DEF IInv
<1>6. VersionsInOrder'
  <2>1. \A e \in Doc :
          /\ catalog'[e] <= latest'[e]
          /\ pending'[e] <= latest'[e]
          /\ pending'[e] # NoJob => catalog'[e] < pending'[e]
    BY <1>1, <1>2 DEF IInv, VersionsInOrder, NoJob
  <2>2. ASSUME NEW x \in Worker, worker'[x].at = "working"
        PROVE  /\ catalog'[worker'[x].doc] < worker'[x].version
               /\ worker'[x].version <= latest'[worker'[x].doc]
               /\ pending'[worker'[x].doc] # NoJob
                    => worker'[x].version < pending'[worker'[x].doc]
    <3>1. x = w
      <4>1. x # w => worker'[x] = worker[x] /\ worker[x] = Gone
        BY <1>1, <1>4 DEF IInv, QueueOK, TypeOK, OneWorker
      <4> QED
        BY <2>2, <4>1 DEF Gone
    <3>2. worker'[x] = job
      BY <1>1, <3>1 DEF IInv, QueueOK, TypeOK
    <3> QED
      BY <1>1, <1>2, <1>3, <3>2 DEF IInv, VersionsInOrder
  <2> QED
    BY <2>1, <2>2 DEF VersionsInOrder
<1> QED
  BY <1>5, <1>6 DEF IInv

LEMMA WorkKeepsQueue ==
    ASSUME QueueOK, NEW w \in Worker, Work(w)
    PROVE  QueueOK'
<1> DEFINE d == worker[w].doc
           v == worker[w].version
<1>1. /\ worker[w].at = "working"
      /\ worker' = [worker EXCEPT ![w] = Looking]
      /\ catalog' = [catalog EXCEPT ![d] = v] \/ catalog' = catalog
      /\ UNCHANGED <<pending, order, running, latest>>
  BY DEF Work, queueVars
<1>2. /\ pending \in [Doc -> Nat] /\ latest \in [Doc -> Nat]
      /\ catalog \in [Doc -> Nat]
      /\ d \in Doc /\ v \in Nat \ {NoJob}
      /\ worker[w] # Gone
  BY <1>1, WorkerStates DEF QueueOK, TypeOK, Gone
<1>3. Looking # Gone /\ Looking.at # "working"
  BY DEF Looking, Gone
<1>4. TypeOK'
  BY <1>1, <1>2 DEF QueueOK, TypeOK
<1>5. OneWorker'
  BY <1>1, <1>2, <1>3 DEF QueueOK, TypeOK, OneWorker
<1>6. OrderMatchesPending'
  BY <1>1 DEF QueueOK, OrderMatchesPending
<1> QED
  BY <1>4, <1>5, <1>6 DEF QueueOK

LEMMA WorkKeepsIInv ==
    ASSUME IInv, NEW w \in Worker, Work(w)
    PROVE  IInv' /\ \A d \in Doc : catalog[d] <= catalog'[d]
<1> DEFINE d == worker[w].doc
           v == worker[w].version
<1>1. /\ worker[w].at = "working"
      /\ worker' = [worker EXCEPT ![w] = Looking]
      /\ catalog' = [catalog EXCEPT ![d] = v] \/ catalog' = catalog
      /\ UNCHANGED <<pending, order, running, latest>>
  BY DEF Work, queueVars
<1>2. /\ pending \in [Doc -> Nat] /\ latest \in [Doc -> Nat]
      /\ catalog \in [Doc -> Nat]
      /\ d \in Doc /\ v \in Nat \ {NoJob}
      /\ worker[w] # Gone
  BY <1>1, WorkerStates DEF IInv, QueueOK, TypeOK, Gone
<1>3. Looking # Gone /\ Looking.at # "working"
  BY DEF Looking, Gone
<1>4. QueueOK'
  BY WorkKeepsQueue DEF IInv
<1>5. /\ catalog[d] < v
      /\ v <= latest[d]
      /\ pending[d] # NoJob => v < pending[d]
  BY <1>1 DEF IInv, VersionsInOrder
<1>6. \A e \in Doc : catalog[e] <= catalog'[e]
  BY <1>1, <1>2, <1>5
<1>7. VersionsInOrder'
  <2>1. \A x \in Worker : worker'[x].at # "working"
    BY <1>1, <1>2, <1>3 DEF IInv, QueueOK, TypeOK, OneWorker, Gone
  <2>2. \A e \in Doc :
          /\ catalog'[e] <= latest'[e]
          /\ pending'[e] <= latest'[e]
          /\ pending'[e] # NoJob => catalog'[e] < pending'[e]
    BY <1>1, <1>2, <1>5 DEF IInv, VersionsInOrder
  <2> QED
    BY <2>1, <2>2 DEF VersionsInOrder
<1> QED
  BY <1>4, <1>6, <1>7 DEF IInv

-----------------------------------------------------------------------------

(***************************************************************************)
(* IInv is inductive, and no step moves the catalog back.                  *)
(***************************************************************************)
LEMMA NextKeepsIInv ==
    ASSUME IInv, [Next]_vars
    PROVE  IInv' /\ \A d \in Doc : catalog[d] <= catalog'[d]
<1>1. catalog \in [Doc -> Nat]
  BY DEF IInv, QueueOK, TypeOK
<1>2. ASSUME NEW d \in Doc, Update(d)
      PROVE  IInv' /\ \A e \in Doc : catalog[e] <= catalog'[e]
  <2>1. IInv'
    BY <1>2, UpdateKeepsIInv
  <2>2. catalog' = catalog
    BY <1>2 DEF Update
  <2> QED
    BY <1>1, <2>1, <2>2
<1>3. ASSUME NEW w \in Worker, Stop(w)
      PROVE  IInv' /\ \A e \in Doc : catalog[e] <= catalog'[e]
  <2>1. IInv'
    BY <1>3, StopKeepsIInv
  <2>2. catalog' = catalog
    BY <1>3 DEF Stop
  <2> QED
    BY <1>1, <2>1, <2>2
<1>4. ASSUME NEW w \in Worker, Take(w)
      PROVE  IInv' /\ \A e \in Doc : catalog[e] <= catalog'[e]
  <2>1. IInv'
    BY <1>4, TakeKeepsIInv
  <2>2. catalog' = catalog
    BY <1>4 DEF Take
  <2> QED
    BY <1>1, <2>1, <2>2
<1>5. CASE UNCHANGED vars
  BY <1>1, <1>5
     DEF vars, queueVars, IInv, QueueOK, TypeOK, OneWorker, OrderMatchesPending,
         VersionsInOrder
<1> QED
  BY <1>2, <1>3, <1>4, <1>5, WorkKeepsIInv DEF Next, LineageWorker

(***************************************************************************)
(* The types, the single worker, the agreement of queue and map (of        *)
(* enqueueLineage and lineageWorker) and the order of the versions hold in *)
(* every state of the specification.                                       *)
(***************************************************************************)
THEOREM QueueInvariant == Spec => []IInv
<1>1. IInv /\ [Next]_vars => IInv'
  BY NextKeepsIInv
<1> QED
  BY InitIInv, <1>1, PTL DEF Spec

(***************************************************************************)
(* The worker that deletes from the map what it took from the queue        *)
(* deletes the job of that key, and it is the only worker.                 *)
(***************************************************************************)
THEOREM QueueIsConsistent == Spec => [](TypeOK /\ OneWorker /\ OrderMatchesPending)
<1>1. IInv => TypeOK /\ OneWorker /\ OrderMatchesPending
  BY DEF IInv, QueueOK
<1> QED
  BY QueueInvariant, <1>1, PTL

(***************************************************************************)
(* The catalog row of a document is never overwritten with an older        *)
(* version, whatever is enqueued while the worker works.                   *)
(***************************************************************************)
THEOREM CatalogNeverMovesBack == Spec => CatalogMovesForward
<1>1. IInv /\ [Next]_vars => [\A d \in Doc : catalog[d] <= catalog'[d]]_vars
  BY NextKeepsIInv
<1> QED
  BY QueueInvariant, <1>1, PTL DEF Spec, CatalogMovesForward

-----------------------------------------------------------------------------
(* The queue implements the mailbox.                                       *)

(***************************************************************************)
(* What the refinement mapping shows: the job of the worker that works.    *)
(***************************************************************************)
LEMMA InHandIsTheJob ==
    ASSUME OneWorker, NEW w \in Worker, worker[w].at = "working"
    PROVE  InHand = [doc |-> {worker[w].doc}, version |-> worker[w].version]
<1>1. \A x \in Worker : worker[x].at = "working" => worker[x] # Gone
  BY DEF Gone
<1>2. \A x \in Worker : worker[x].at = "working" => x = w
  BY <1>1 DEF OneWorker
<1>3. (CHOOSE x \in Worker : worker[x].at = "working") = w
  BY <1>2
<1> QED
  BY <1>3 DEF InHand

LEMMA NothingInHand ==
    ASSUME \A w \in Worker : worker[w].at # "working"
    PROVE  InHand = Abstract!Nothing
  BY DEF InHand, Abstract!Nothing, NoJob, Abstract!NoJob

LEMMA InitIsMailboxInit == Init => Abstract!Init
<1> SUFFICES ASSUME Init PROVE Abstract!Init
  OBVIOUS
<1>1. \A w \in Worker : worker[w].at # "working"
  BY DEF Init, QueueInit, Gone
<1>2. InHand = Abstract!Nothing
  BY <1>1, NothingInHand
<1> QED
  BY <1>2 DEF Init, QueueInit, Abstract!Init, NoJob, Abstract!NoJob

(***************************************************************************)
(* Enqueueing a version is posting it: the worker that WakeWorker may      *)
(* start has nothing in hand yet.                                          *)
(***************************************************************************)
LEMMA UpdateIsPost ==
    ASSUME IInv, NEW d \in Doc, Update(d)
    PROVE  Abstract!Post(d)
<1>1. /\ pending' = [pending EXCEPT ![d] = latest[d] + 1]
      /\ latest' = [latest EXCEPT ![d] = latest[d] + 1]
      /\ WakeWorker
      /\ catalog' = catalog
  BY DEF Update, EnqueueLineage, EnterOrder, PendingVersion
<1>2. InHand' = InHand
  <2>1. CASE running
    BY <1>1, <2>1 DEF WakeWorker, InHand
  <2>2. CASE ~running
    <3>1. PICK w \in Worker :
             worker[w] = Gone /\ worker' = [worker EXCEPT ![w] = Looking]
      BY <1>1, <2>2 DEF WakeWorker, StartWorker
    <3>2. \A x \in Worker : worker[x] = Gone
      BY <2>2 DEF IInv, QueueOK, OneWorker
    <3>3. \A x \in Worker : worker[x].at # "working" /\ worker'[x].at # "working"
      BY <3>1, <3>2 DEF IInv, QueueOK, TypeOK, Gone, Looking
    <3> QED
      BY <3>3 DEF InHand
  <2> QED
    BY <2>1, <2>2
<1> QED
  BY <1>1, <1>2 DEF Abstract!Post

LEMMA StopIsStutter ==
    ASSUME IInv, NEW w \in Worker, Stop(w)
    PROVE  UNCHANGED Abstract!vars
<1>1. /\ worker[w] = Looking
      /\ worker' = [worker EXCEPT ![w] = Gone]
      /\ UNCHANGED <<pending, latest, catalog>>
  BY DEF Stop, Leave
<1>2. \A x \in Worker : worker[x].at # "working" /\ worker'[x].at # "working"
  <2>1. worker[w] # Gone
    BY <1>1 DEF Gone, Looking
  <2>2. \A x \in Worker : x # w => worker[x] = Gone
    BY <2>1 DEF IInv, QueueOK, OneWorker
  <2>3. \A x \in Worker : worker'[x] = Gone
    BY <1>1, <2>2 DEF IInv, QueueOK, TypeOK
  <2>4. Gone.at # "working" /\ Looking.at # "working"
    BY DEF Gone, Looking
  <2> QED
    BY <1>1, <2>2, <2>3, <2>4
<1>3. InHand' = InHand
  BY <1>2 DEF InHand
<1> QED
  BY <1>1, <1>3 DEF Abstract!vars

LEMMA TakeIsTakeOut ==
    ASSUME IInv, IInv', NEW w \in Worker, Take(w)
    PROVE  \E d \in Doc : Abstract!TakeOut(d)
<1> DEFINE d == Head(order)
           job == [at |-> "working", doc |-> d, version |-> pending[d]]
<1>1. /\ worker[w] = Looking /\ order # <<>>
      /\ worker' = [worker EXCEPT ![w] = job]
      /\ pending' = [pending EXCEPT ![d] = NoJob]
      /\ UNCHANGED <<latest, catalog>>
  BY DEF Take
<1>2. d \in Doc /\ d = order[1] /\ 1 \in DOMAIN order
  BY <1>1, TailFacts DEF IInv, QueueOK, TypeOK
<1>3. pending[d] # NoJob
  BY <1>2 DEF IInv, QueueOK, OrderMatchesPending
<1>4. InHand = Abstract!Nothing
  <2>1. \A x \in Worker : worker[x].at # "working"
    BY <1>1 DEF IInv, QueueOK, OneWorker, Gone, Looking
  <2> QED
    BY <2>1, NothingInHand
<1>5. InHand' = [doc |-> {d}, version |-> pending[d]]
  <2>1. worker'[w] = job
    BY <1>1 DEF IInv, QueueOK, TypeOK
  <2>2. OneWorker'
    BY DEF IInv, QueueOK
  <2>3. InHand' = [doc |-> {worker'[w].doc}, version |-> worker'[w].version]
    <3>1. \A x \in Worker : worker'[x].at = "working" => worker'[x] # Gone
      BY DEF Gone
    <3>2. \A x \in Worker : worker'[x].at = "working" => x = w
      BY <2>1, <2>2, <3>1 DEF OneWorker, Gone
    <3>3. worker'[w].at = "working"
      BY <2>1
    <3>4. (CHOOSE x \in Worker : worker'[x].at = "working") = w
      BY <3>2, <3>3
    <3> QED
      BY <3>3, <3>4 DEF InHand
  <2> QED
    BY <2>1, <2>3
<1>6. Abstract!TakeOut(d)
  BY <1>1, <1>3, <1>4, <1>5 DEF Abstract!TakeOut, NoJob, Abstract!NoJob
<1> QED
  BY <1>2, <1>6

LEMMA WorkIsEnter ==
    ASSUME IInv, NEW w \in Worker, Work(w)
    PROVE  Abstract!Enter
<1> DEFINE d == worker[w].doc
           v == worker[w].version
<1>1. /\ worker[w].at = "working"
      /\ worker' = [worker EXCEPT ![w] = Looking]
      /\ \/ catalog' = [catalog EXCEPT ![d] = v]
         \/ MayFail /\ catalog' = catalog
      /\ UNCHANGED <<pending, latest>>
  BY DEF Work, queueVars
<1>2. InHand = [doc |-> {d}, version |-> v]
  BY <1>1, InHandIsTheJob DEF IInv, QueueOK
<1>3. InHand # Abstract!Nothing
  BY <1>2 DEF Abstract!Nothing
<1>4. InHand' = Abstract!Nothing
  <2>1. \A x \in Worker : worker'[x].at # "working"
    BY <1>1 DEF IInv, QueueOK, TypeOK, OneWorker, Gone, Looking
  <2> QED
    BY <2>1 DEF InHand, Abstract!Nothing, NoJob, Abstract!NoJob
<1>5. [catalog EXCEPT ![d] = v]
        = [e \in Doc |-> IF e \in InHand.doc THEN InHand.version ELSE catalog[e]]
  BY <1>2 DEF IInv, QueueOK, TypeOK
<1> QED
  BY <1>1, <1>3, <1>4, <1>5 DEF Abstract!Enter

(***************************************************************************)
(* Every behaviour of queue and worker is one of the mailbox: the two-part *)
(* queue, its flag and the goroutines that come and go are not visible     *)
(* from outside.  (That documents are not passed over is left to TLC.)     *)
(***************************************************************************)
THEOREM QueueImplementsMailbox == Spec => Abstract!Spec
<1>1. IInv /\ IInv' /\ [Next]_vars => [Abstract!Next]_(Abstract!vars)
  <2> SUFFICES ASSUME IInv, IInv', [Next]_vars
               PROVE  Abstract!Next \/ UNCHANGED Abstract!vars
    OBVIOUS
  <2>1. CASE UNCHANGED vars
    BY <2>1 DEF vars, queueVars, InHand, Abstract!vars
  <2>2. CASE Next
    BY <2>2, UpdateIsPost, StopIsStutter, TakeIsTakeOut, WorkIsEnter
       DEF Next, LineageWorker, Abstract!Next
  <2> QED
    BY <2>1, <2>2
<1> QED
  BY <1>1, QueueInvariant, InitIsMailboxInit, PTL DEF Spec, Abstract!Spec

-----------------------------------------------------------------------------
(***************************************************************************)
(* Updates, deletes and reservations: the shape of the state, the queue    *)
(* included.                                                               *)
(***************************************************************************)
CallStates ==
    {"idle", "found", "written", "cleaning", "deleting", "put", "done", "failed",
     "deleted", "refused"}

CallsOK ==
    /\ QueueOK
    /\ present \subseteq Doc
    /\ fields = [d \in Doc |-> fields[d]]
    /\ status = [i \in CapID |-> status[i]]
    /\ call \in [Call -> CallStates]
    /\ copy = [u \in Updater |-> copy[u]]
    /\ written \in [Updater -> Nat]
    /\ behind = [c \in Call |-> behind[c]]
    /\ unbooked = [c \in Call |-> unbooked[c]]

(***************************************************************************)
(* A document that is not there shows no update, and the copy a call is    *)
(* about to write has its own.  Nothing is written before it is read, and  *)
(* what was written has a version.                                         *)
(***************************************************************************)
CopiesOK ==
    /\ \A d \in Doc \ present : fields[d] = {}
    /\ \A u \in Updater :
         /\ call[u] = "found" => u \in copy[u]
         /\ call[u] \in {"idle", "found"} => written[u] = 0
         /\ call[u] = "written" => written[u] # 0
    /\ \A x \in Deleter : call[x] # "found"

(***************************************************************************)
(* Why an update is lost only to an overlap: while its document shows it,  *)
(* every call that is about to write the document has it in its copy, or   *)
(* had read before.                                                        *)
(***************************************************************************)
Given(u) ==
    \/ \E x \in Deleter : Target[x] = Target[u] /\ call[x] = "deleted"
    \/ \E c \in behind[u] : written[c] # 0

Shown(u) ==
    /\ u \in fields[Target[u]]
    /\ \A c \in Updater :
         Target[c] = Target[u] /\ call[c] = "found" => u \in copy[c] \/ c \in behind[u]

UpdatesKept ==
    /\ \A u \in Updater : written[u] # 0 => Given(u) \/ Shown(u)
    /\ \A u \in Updater : behind[u] \subseteq Updater

(***************************************************************************)
(* The same for reservations: one that is released is attached to only by  *)
(* calls that had read it before.                                          *)
(***************************************************************************)
Undone(r) == \E b \in behind[r] : call[b] \in {"put", "failed"}

Released(r) ==
    /\ status[Target[r]] = "released"
    /\ \A b \in Attacher : Target[b] = Target[r] /\ call[b] = "found" => b \in behind[r]

ReleasesKept ==
    /\ \A r \in Releaser : call[r] = "put" => Undone(r) \/ Released(r)
    /\ \A r \in Releaser : behind[r] \subseteq Call

(***************************************************************************)
(* Why a row is stale only for a cause: without one, the last version of a *)
(* document is on its way to its row: with the call that wrote it, then    *)
(* waiting, then in the hands of the worker.                               *)
(***************************************************************************)
AboutToBook(d) == {u \in Updater : Target[u] = d /\ call[u] = "written"}

InQueue(d) ==
    \/ pending[d] = latest[d] /\ pending[d] # NoJob
    \/ /\ pending[d] = NoJob
       /\ \/ \E w \in Worker : /\ worker[w].at = "working" /\ worker[w].doc = d
                               /\ worker[w].version = latest[d]
          \/ /\ catalog[d] = latest[d]
             /\ \A w \in Worker : worker[w].at = "working" => worker[w].doc # d

OnItsWay(d) ==
    \/ \E u \in Updater : AboutToBook(d) = {u} /\ written[u] = latest[d]
    \/ AboutToBook(d) = {} /\ InQueue(d)

RowsFollow == \A d \in Doc : Excused(d) \/ OnItsWay(d)

UpdatesInv ==
    CallsOK /\ CopiesOK /\ UpdatesKept /\ ReleasesKept /\ RowsFollow

-----------------------------------------------------------------------------
(* Calls and what a step of one leaves alone.                              *)

LEMMA Kinds ==
    /\ \A u \in Updater : /\ u \in Call /\ Target[u] \in Doc
                          /\ u \notin Deleter /\ u \notin Attacher /\ u \notin Releaser
    /\ \A x \in Deleter : /\ x \in Call /\ Target[x] \in Doc
                          /\ x \notin Attacher /\ x \notin Releaser
    /\ \A c \in Attacher \cup Releaser : c \in Call /\ Target[c] \in CapID /\ Target[c] \notin Doc
    /\ \A c \in Attacher : c \notin Releaser
  BY CallsAssumption DEF Call

LEMMA MoveFacts ==
    ASSUME CallsOK, NEW c \in Call, NEW from, NEW to \in CallStates, Move(c, from, to)
    PROVE  /\ call[c] = from
           /\ call'[c] = to
           /\ call' \in [Call -> CallStates]
           /\ \A b \in Call : b # c => call'[b] = call[b]
  BY DEF CallsOK, Move

LEMMA QueueStays ==
    ASSUME QueueOK, UNCHANGED <<pending, order, running, worker, latest, catalog>>
    PROVE  QueueOK'
  BY DEF QueueOK, TypeOK, OneWorker, OrderMatchesPending

LEMMA ExcusedStays ==
    ASSUME NEW d, Excused(d), dropped \subseteq dropped',
           \A u \in Updater : /\ call[u] = "failed" => call'[u] = "failed"
                              /\ unbooked[u] # {} => unbooked'[u] # {},
           \A x \in Deleter : call[x] \notin {"idle", "done"} => call'[x] \notin {"idle", "done"}
    PROVE  Excused(d)'
<1>1. CASE d \in dropped
  BY <1>1 DEF Excused
<1>2. ASSUME NEW u \in Updater, Target[u] = d, call[u] = "failed" \/ unbooked[u] # {}
      PROVE  Excused(d)'
  <2>1. call'[u] = "failed" \/ unbooked'[u] # {}
    BY <1>2
  <2> QED
    BY <1>2, <2>1 DEF Excused
<1>3. ASSUME NEW x \in Deleter, Target[x] = d, call[x] \notin {"idle", "done"}
      PROVE  Excused(d)'
  <2>1. call'[x] \notin {"idle", "done"}
    BY <1>3
  <2> QED
    BY <1>3, <2>1 DEF Excused
<1> QED
  BY <1>1, <1>2, <1>3 DEF Excused

LEMMA RowsStay ==
    ASSUME RowsFollow, UNCHANGED <<pending, worker, latest, catalog, written>>,
           \A u \in Updater : call'[u] = "written" <=> call[u] = "written",
           \A d \in Doc : Excused(d) => Excused(d)'
    PROVE  RowsFollow'
<1>1. \A d : AboutToBook(d)' = AboutToBook(d)
  BY DEF AboutToBook
<1>2. \A d : InQueue(d)' <=> InQueue(d)
  BY DEF InQueue
<1>3. \A d : OnItsWay(d) => OnItsWay(d)'
  BY <1>1, <1>2 DEF OnItsWay
<1> QED
  BY <1>3 DEF RowsFollow

(***************************************************************************)
(* A reservation stays released while its calls stay put.                  *)
(***************************************************************************)
LEMMA ReleasesStay ==
    ASSUME ReleasesKept, UNCHANGED status,
           \A r \in Releaser : behind'[r] = behind[r],
           \A c \in Call : call[c] \in {"put", "failed"} => call'[c] = call[c],
           \A r \in Releaser : call'[r] = "put" => call[r] = "put",
           \A b \in Attacher :
             call'[b] = "found" => call[b] = "found" \/ status[Target[b]] # "released"
    PROVE  ReleasesKept'
<1>3. \A r \in Releaser : behind'[r] \subseteq Call
  BY DEF ReleasesKept
<1> SUFFICES ASSUME NEW r \in Releaser, call'[r] = "put"
             PROVE  Undone(r)' \/ Released(r)'
  BY <1>3 DEF ReleasesKept
<1>1. CASE Undone(r)
  BY <1>1 DEF Undone, ReleasesKept
<1>2. CASE Released(r)
  BY <1>2 DEF Released
<1> QED
  BY <1>1, <1>2 DEF ReleasesKept

LEMMA InitUpdatesInv == UpdatesInit => UpdatesInv
<1> SUFFICES ASSUME UpdatesInit PROVE UpdatesInv
  OBVIOUS
<1>1. QueueOK
  <2>1. Init
    BY DEF UpdatesInit, Init
  <2> QED
    BY <2>1, InitIInv DEF IInv
<1>2. CallsOK
  BY <1>1 DEF UpdatesInit, CallsOK, CallStates
<1>3. CopiesOK
  BY Kinds DEF UpdatesInit, CopiesOK
<1>4. UpdatesKept /\ ReleasesKept
  BY Kinds DEF UpdatesInit, UpdatesKept, ReleasesKept
<1>5. RowsFollow
  BY Kinds DEF UpdatesInit, QueueInit, RowsFollow, OnItsWay, InQueue, AboutToBook, NoJob, Gone
<1> QED
  BY <1>2, <1>3, <1>4, <1>5 DEF UpdatesInv

-----------------------------------------------------------------------------
(* Updates.                                                                *)

LEMMA FindStep ==
    ASSUME UpdatesInv, NEW u \in Updater, Find(u)
    PROVE  UpdatesInv'
<1> DEFINE d == Target[u]
<1> USE DEF UpdatesInv
<1>1. /\ copy' = [copy EXCEPT ![u] = IF d \in present THEN fields[d] \cup {u} ELSE {}]
      /\ UNCHANGED <<pending, order, running, worker, latest, catalog, present, fields,
                     status, written, behind, unbooked, dropped>>
  BY DEF Find, Updated, vars, queueVars, history
<1>2. /\ call[u] = "idle"
      /\ call'[u] = IF d \in present THEN "found" ELSE "done"
      /\ call' \in [Call -> CallStates]
      /\ \A b \in Call : b # u => call'[b] = call[b]
  <2> DEFINE to == IF d \in present THEN "found" ELSE "done"
  <2>1. to \in CallStates /\ Move(u, "idle", to) /\ u \in Call
    BY Kinds DEF CallStates, Find
  <2> HIDE DEF to
  <2>2. call'[u] = to
    BY <2>1, MoveFacts
  <2> QED
    BY <2>1, <2>2, MoveFacts DEF to
<1>3. /\ copy' = [c \in Updater |-> copy'[c]]
      /\ copy'[u] = IF d \in present THEN fields[d] \cup {u} ELSE {}
      /\ \A c \in Updater : c # u => copy'[c] = copy[c]
  BY <1>1 DEF CallsOK
<1> HIDE DEF d
<1>4. CallsOK'
  BY <1>1, <1>2, <1>3, QueueStays DEF CallsOK
<1>5. CopiesOK'
  BY <1>1, <1>2, <1>3, Kinds DEF CopiesOK
<1>6. UpdatesKept'
  <2>1. ASSUME NEW c \in Updater, written'[c] # 0
        PROVE  Given(c)' \/ Shown(c)'
    <3>1. CASE Given(c)
      BY <1>1, <1>2, <3>1, Kinds DEF Given
    <3>2. CASE Shown(c)
      <4>1. c \in fields'[Target[c]]
        BY <1>1, <3>2 DEF Shown
      <4>2. ASSUME NEW b \in Updater, Target[b] = Target[c], call'[b] = "found"
            PROVE  c \in copy'[b] \/ b \in behind'[c]
        <5>1. CASE b = u
          BY <1>1, <1>2, <1>3, <3>2, <4>2, <5>1 DEF Shown, d
        <5>2. CASE b # u
          BY <1>1, <1>2, <1>3, <3>2, <4>2, <5>2, Kinds DEF Shown
        <5> QED
          BY <5>1, <5>2
      <4> QED
        BY <4>1, <4>2 DEF Shown
    <3> QED
      BY <1>1, <2>1, <3>1, <3>2 DEF UpdatesKept
  <2> QED
    BY <1>1, <2>1 DEF UpdatesKept
<1>7. ReleasesKept'
  BY <1>1, <1>2, Kinds, ReleasesStay
<1>8. RowsFollow'
  <2>1. \A e \in Doc : Excused(e) => Excused(e)'
    BY <1>1, <1>2, Kinds, ExcusedStays
  <2> QED
    BY <1>1, <1>2, <2>1, Kinds, RowsStay
<1> QED
  BY <1>4, <1>5, <1>6, <1>7, <1>8

LEMMA WriteStep ==
    ASSUME UpdatesInv, NEW u \in Updater, Write(u)
    PROVE  UpdatesInv'
<1> DEFINE d == Target[u]
<1> USE DEF UpdatesInv
<1>1. /\ latest' = [latest EXCEPT ![d] = @ + 1]
      /\ present' = present \cup {d}
      /\ fields' = [fields EXCEPT ![d] = copy[u]]
      /\ written' = [written EXCEPT ![u] = latest[d] + 1]
      /\ behind' = [behind EXCEPT ![u] = At("found", u)]
      /\ unbooked' = [unbooked EXCEPT ![u] = At("written", u)]
      /\ UNCHANGED <<pending, order, running, worker, catalog, status, copy, dropped>>
  BY DEF Write, RecordOverlap, queueVars
<1>2. /\ call[u] = "found"
      /\ call'[u] \in {"written", "failed"}
      /\ call' \in [Call -> CallStates]
      /\ \A b \in Call : b # u => call'[b] = call[b]
  <2>1. PICK to \in {"written", "failed"} : Move(u, "found", to)
    BY DEF Write
  <2>2. to \in CallStates /\ u \in Call
    BY Kinds DEF CallStates
  <2> QED
    BY <2>1, <2>2, MoveFacts
<1>3. d \in Doc /\ d = Target[u] /\ latest \in [Doc -> Nat]
  BY Kinds DEF CallsOK, QueueOK, TypeOK
<1>4. /\ latest' \in [Doc -> Nat]
      /\ latest'[d] = latest[d] + 1
      /\ \A e \in Doc : e # d => latest'[e] = latest[e]
  BY <1>1, <1>3
<1>5. /\ written' \in [Updater -> Nat]
      /\ written'[u] = latest[d] + 1 /\ written'[u] # 0
      /\ \A c \in Updater : c # u => written'[c] = written[c]
  BY <1>1, <1>3 DEF CallsOK
<1>6. /\ fields' = [e \in Doc |-> fields'[e]]
      /\ fields'[d] = copy[u]
      /\ \A e \in Doc : e # d => fields'[e] = fields[e]
  BY <1>1, <1>3 DEF CallsOK
<1>7. /\ behind' = [c \in Call |-> behind'[c]]
      /\ behind'[u] = At("found", u)
      /\ \A c \in Call : c # u => behind'[c] = behind[c]
      /\ unbooked' = [c \in Call |-> unbooked'[c]]
      /\ unbooked'[u] = At("written", u)
      /\ \A c \in Call : c # u => unbooked'[c] = unbooked[c]
  BY <1>1, Kinds DEF CallsOK
<1>8. u \in copy[u] /\ written[u] = 0
  BY <1>2 DEF CopiesOK
<1> HIDE DEF d
<1>9. CallsOK'
  <2>1. QueueOK'
    BY <1>1, <1>4 DEF CallsOK, QueueOK, TypeOK, OneWorker, OrderMatchesPending
  <2> QED
    BY <1>1, <1>2, <1>3, <1>5, <1>6, <1>7, <2>1 DEF CallsOK
<1>10. CopiesOK'
  BY <1>1, <1>2, <1>3, <1>5, <1>6, Kinds DEF CopiesOK
<1>11. UpdatesKept'
  <2>1. ASSUME NEW c \in Updater, c # u, written'[c] # 0
        PROVE  Given(c)' \/ Shown(c)'
    <3>1. CASE Given(c)
      <4>1. \A x \in Deleter : call'[x] = call[x]
        BY <1>2, Kinds
      <4>2. behind'[c] = behind[c] /\ behind[c] \subseteq Updater
        BY <1>7, <2>1, Kinds DEF UpdatesKept
      <4>3. \A b \in Updater : written[b] # 0 => written'[b] # 0
        BY <1>5
      <4> QED
        BY <3>1, <4>1, <4>2, <4>3 DEF Given
    <3>2. CASE Shown(c)
      <4>1. CASE Target[c] = d /\ u \in behind[c]
        BY <1>5, <1>7, <2>1, <4>1, Kinds DEF Given
      <4>2. CASE Target[c] # d \/ u \notin behind[c]
        <5>1. c \in fields'[Target[c]]
          BY <1>2, <1>3, <1>6, <3>2, <4>2, Kinds DEF Shown
        <5> QED
          BY <1>1, <1>2, <1>7, <2>1, <3>2, <5>1, Kinds DEF Shown
      <4> QED
        BY <4>1, <4>2
    <3> QED
      BY <1>5, <2>1, <3>1, <3>2 DEF UpdatesKept
  <2>2. Shown(u)'
    <3>1. u \in fields'[Target[u]]
      BY <1>3, <1>6, <1>8
    <3>2. ASSUME NEW c \in Updater, Target[c] = Target[u], call'[c] = "found"
          PROVE  c \in behind'[u]
      <4>1. c # u /\ call[c] = "found" /\ c \in Call
        BY <1>2, <3>2, Kinds
      <4> QED
        BY <1>7, <3>2, <4>1 DEF At
    <3> QED
      BY <3>1, <3>2 DEF Shown
  <2>3. behind'[u] \subseteq Updater
    <3> SUFFICES ASSUME NEW b \in Call, Target[b] = Target[u], call[b] = "found"
                 PROVE  b \in Updater
      BY <1>7 DEF At
    <3>1. b \notin Attacher \cup Releaser
      BY Kinds
    <3>2. b \notin Deleter
      BY DEF CopiesOK
    <3> QED
      BY <3>1, <3>2 DEF Call
  <2>4. \A c \in Updater : c # u => behind'[c] \subseteq Updater
    BY <1>7, Kinds DEF UpdatesKept
  <2> QED
    BY <2>1, <2>2, <2>3, <2>4 DEF UpdatesKept
<1>12. ReleasesKept'
  <2>1. UNCHANGED status /\ \A r \in Releaser : behind'[r] = behind[r]
    BY <1>1, <1>7, Kinds
  <2>2. \A c \in Call : call[c] \in {"put", "failed"} => call'[c] = call[c]
    BY <1>2
  <2>3. \A c \in Attacher \cup Releaser : call'[c] = call[c]
    BY <1>2, Kinds
  <2> QED
    BY <2>1, <2>2, <2>3, ReleasesStay
<1>13. RowsFollow'
  <2> SUFFICES ASSUME NEW e \in Doc PROVE Excused(e)' \/ OnItsWay(e)'
    BY DEF RowsFollow
  <2>1. CASE Excused(e) /\ e # d
    BY <1>1, <1>2, <1>3, <1>7, <2>1, Kinds DEF Excused
  <2>2. CASE ~Excused(e) /\ e # d
    <3>1. AboutToBook(e)' = AboutToBook(e)
      BY <1>2, <1>3, <2>2, Kinds DEF AboutToBook
    <3>2. InQueue(e)' <=> InQueue(e)
      BY <1>1, <1>4, <2>2 DEF InQueue
    <3>3. \A c \in AboutToBook(e) : written'[c] = written[c]
      BY <1>3, <1>5, <2>2 DEF AboutToBook
    <3> QED
      BY <1>4, <2>2, <3>1, <3>2, <3>3 DEF RowsFollow, OnItsWay
  <2>3. CASE e = d
    <3>1. CASE call'[u] = "failed"
      BY <1>3, <2>3, <3>1 DEF Excused
    <3>2. CASE unbooked'[u] # {}
      BY <1>3, <2>3, <3>2 DEF Excused
    <3>3. CASE call'[u] = "written" /\ unbooked'[u] = {}
      <4>1. AboutToBook(d)' = {u}
        <5>1. \A c \in Updater : c # u /\ Target[c] = d => call'[c] # "written"
          BY <1>2, <1>3, <1>7, <3>3, Kinds DEF At
        <5> QED
          BY <1>3, <3>3, <5>1 DEF AboutToBook
      <4> QED
        BY <1>4, <1>5, <2>3, <4>1 DEF OnItsWay
    <3> QED
      BY <1>2, <3>1, <3>2, <3>3
  <2> QED
    BY <2>1, <2>2, <2>3
<1> QED
  BY <1>9, <1>10, <1>11, <1>12, <1>13

(***************************************************************************)
(* Steps that only move a call, to where it writes nothing.                *)
(***************************************************************************)
LEMMA OnlyMoved ==
    ASSUME UpdatesInv, NEW c \in Call, NEW from \in {"idle", "found"},
           NEW to \in CallStates \ {"found", "put", "written"}, Move(c, from, to),
           c \in Deleter => from = "idle" /\ to # "idle",
           UNCHANGED <<vars, present, fields, status, copy, written, history>>
    PROVE  UpdatesInv'
<1> USE DEF UpdatesInv
<1>1. /\ call[c] = from /\ call'[c] = to
      /\ call' \in [Call -> CallStates]
      /\ \A b \in Call : b # c => call'[b] = call[b]
  BY MoveFacts
<1>2. UNCHANGED <<pending, order, running, worker, latest, catalog, present, fields,
                  status, copy, written, behind, unbooked, dropped>>
  BY DEF vars, queueVars, history
<1>3. CallsOK'
  BY <1>1, <1>2, QueueStays DEF CallsOK
<1>5. CopiesOK'
  BY <1>1, <1>2, Kinds DEF CopiesOK
<1>6. UpdatesKept'
  <2>1. ASSUME NEW u \in Updater, Given(u) PROVE Given(u)'
    BY <1>1, <1>2, <2>1, Kinds DEF Given
  <2>2. ASSUME NEW u \in Updater, Shown(u) PROVE Shown(u)'
    BY <1>1, <1>2, <2>2, Kinds DEF Shown
  <2> QED
    BY <1>2, <2>1, <2>2 DEF UpdatesKept
<1>7. ReleasesKept'
  BY <1>1, <1>2, Kinds, ReleasesStay
<1>8. RowsFollow'
  <2>1. \A e \in Doc : Excused(e) => Excused(e)'
    BY <1>1, <1>2, Kinds, ExcusedStays
  <2>2. \A u \in Updater : call'[u] = "written" <=> call[u] = "written"
    BY <1>1, Kinds
  <2> QED
    BY <1>2, <2>1, <2>2, RowsStay
<1> QED
  BY <1>3, <1>5, <1>6, <1>7, <1>8

LEMMA WriteFailsStep ==
    ASSUME UpdatesInv, NEW c \in Call \ Deleter, WriteFails(c)
    PROVE  UpdatesInv'
  BY OnlyMoved DEF WriteFails, CallStates

LEMMA FindForDeleteStep ==
    ASSUME UpdatesInv, NEW x \in Deleter, FindForDelete(x)
    PROVE  UpdatesInv'
<1> DEFINE to == IF Target[x] \in present THEN "cleaning" ELSE "done"
<1>1. to \in CallStates \ {"found", "put", "written", "idle"}
  BY DEF CallStates
<1>2. Move(x, "idle", to)
  BY DEF FindForDelete
<1> HIDE DEF to
<1>3. UNCHANGED <<vars, present, fields, status, copy, written, history>>
  BY DEF FindForDelete
<1> QED
  BY <1>1, <1>2, <1>3, Kinds, OnlyMoved

LEMMA BookkeepStep ==
    ASSUME UpdatesInv, NEW u \in Updater, Bookkeep(u)
    PROVE  UpdatesInv'
<1> DEFINE d == Target[u]
           v == written[u]
<1> USE DEF UpdatesInv
<1>1. /\ Move(u, "written", "done")
      /\ EnqueueLineage(d, v)
      /\ UNCHANGED <<latest, catalog, present, fields, status, copy, written, behind,
                     unbooked, dropped>>
  BY DEF Bookkeep, storeVars, history
<1>2. /\ call[u] = "written" /\ call'[u] = "done"
      /\ call' \in [Call -> CallStates]
      /\ \A b \in Call : b # u => call'[b] = call[b]
  <2>1. "done" \in CallStates /\ u \in Call
    BY Kinds DEF CallStates
  <2> QED
    BY <1>1, <2>1, MoveFacts
<1>3. d \in Doc /\ d = Target[u] /\ v = written[u] /\ v \in Nat \ {NoJob}
  BY <1>2, Kinds DEF CopiesOK, CallsOK, NoJob
<1> HIDE DEF d, v
<1>4. QueueOK'
  <2>1. QueueOK /\ latest' \in [Doc -> Nat]
    BY <1>1 DEF CallsOK, QueueOK, TypeOK
  <2> QED
    BY <1>1, <1>3, <2>1, EnqueueKeepsQueue
<1>5. CallsOK'
  BY <1>1, <1>2, <1>4 DEF CallsOK
<1>6. CopiesOK'
  BY <1>1, <1>2, Kinds DEF CopiesOK
<1>7. UpdatesKept'
  <2>1. ASSUME NEW c \in Updater, Given(c) PROVE Given(c)'
    BY <1>1, <1>2, <2>1, Kinds DEF Given
  <2>2. ASSUME NEW c \in Updater, Shown(c) PROVE Shown(c)'
    BY <1>1, <1>2, <2>2, Kinds DEF Shown
  <2> QED
    BY <1>1, <2>1, <2>2 DEF UpdatesKept
<1>8. ReleasesKept'
  BY <1>1, <1>2, Kinds, ReleasesStay
<1>9. RowsFollow'
  <2>1. \A e \in Doc : Excused(e) => Excused(e)'
    BY <1>1, <1>2, Kinds, ExcusedStays
  <2>2. /\ pending \in [Doc -> Nat]
        /\ pending' = [pending EXCEPT ![d] = v]
        /\ \A w \in Worker : worker'[w].at = "working" => worker'[w] = worker[w]
        /\ \A w \in Worker : worker[w].at = "working" => worker'[w] = worker[w]
    <3>1. pending' = [pending EXCEPT ![d] = v] /\ WakeWorker
      BY <1>1 DEF EnqueueLineage, PendingVersion
    <3>2. QueueOK
      BY DEF CallsOK
    <3>3. \A w \in Worker : worker[w].at = "working" => worker'[w] = worker[w]
      <4>1. CASE running
        BY <3>1, <4>1 DEF WakeWorker
      <4>2. CASE ~running
        BY <3>2, <4>2 DEF QueueOK, OneWorker, Gone
      <4> QED
        BY <4>1, <4>2
    <3> QED
      BY <3>1, <3>2, <3>3, WakeKeepsOneWorker DEF QueueOK, TypeOK
  <2> SUFFICES ASSUME NEW e \in Doc, OnItsWay(e)
               PROVE  OnItsWay(e)'
    BY <2>1 DEF RowsFollow
  <2>3. CASE e = d
    <3>1. AboutToBook(d) = {u} /\ v = latest[d]
      BY <1>2, <1>3, <2>3 DEF OnItsWay, AboutToBook
    <3>2. AboutToBook(d)' = {}
      BY <1>2, <3>1, Kinds DEF AboutToBook
    <3>3. pending'[d] = latest'[d] /\ pending'[d] # NoJob
      BY <1>1, <1>3, <2>2, <3>1
    <3> QED
      BY <2>3, <3>2, <3>3 DEF OnItsWay, InQueue
  <2>4. CASE e # d
    <3>1. AboutToBook(e)' = AboutToBook(e)
      BY <1>2, <1>3, <2>4, Kinds DEF AboutToBook
    <3>2. pending'[e] = pending[e]
      BY <2>2, <2>4
    <3>3. InQueue(e) => InQueue(e)'
      BY <1>1, <2>2, <3>2 DEF InQueue
    <3> QED
      BY <1>1, <3>1, <3>3 DEF OnItsWay
  <2> QED
    BY <2>3, <2>4
<1> QED
  BY <1>5, <1>6, <1>7, <1>8, <1>9

-----------------------------------------------------------------------------
(* Deletes.                                                                *)

LEMMA CleanUpStep ==
    ASSUME UpdatesInv, NEW x \in Deleter, CleanUp(x)
    PROVE  UpdatesInv'
<1> USE DEF UpdatesInv
<1>1. /\ catalog' = [catalog EXCEPT ![Target[x]] = 0]
      /\ Move(x, "cleaning", "deleting")
      /\ UNCHANGED <<pending, order, running, worker, latest, present, fields, status,
                     copy, written, behind, unbooked, dropped>>
  BY DEF CleanUp, storeVars, queueVars, history
<1>2. /\ call[x] = "cleaning" /\ call'[x] = "deleting"
      /\ call' \in [Call -> CallStates]
      /\ \A b \in Call : b # x => call'[b] = call[b]
  <2>1. "deleting" \in CallStates /\ x \in Call
    BY Kinds DEF CallStates
  <2> QED
    BY <1>1, <2>1, MoveFacts
<1>3. QueueOK'
  BY <1>1 DEF CallsOK, QueueOK, TypeOK, OneWorker, OrderMatchesPending
<1>4. CallsOK'
  BY <1>1, <1>2, <1>3 DEF CallsOK
<1>5. CopiesOK'
  BY <1>1, <1>2, Kinds DEF CopiesOK
<1>6. UpdatesKept'
  <2>1. ASSUME NEW c \in Updater, Given(c) PROVE Given(c)'
    BY <1>1, <1>2, <2>1, Kinds DEF Given
  <2>2. ASSUME NEW c \in Updater, Shown(c) PROVE Shown(c)'
    BY <1>1, <1>2, <2>2, Kinds DEF Shown
  <2> QED
    BY <1>1, <2>1, <2>2 DEF UpdatesKept
<1>7. ReleasesKept'
  BY <1>1, <1>2, Kinds, ReleasesStay
<1>8. RowsFollow'
  <2>1. \A e \in Doc : Excused(e) => Excused(e)'
    BY <1>1, <1>2, Kinds, ExcusedStays
  <2>2. Excused(Target[x])'
    BY <1>2 DEF Excused
  <2>3. ASSUME NEW e \in Doc, e # Target[x], OnItsWay(e) PROVE OnItsWay(e)'
    <3>1. AboutToBook(e)' = AboutToBook(e)
      BY <1>2, Kinds DEF AboutToBook
    <3>2. InQueue(e) => InQueue(e)'
      BY <1>1, <2>3 DEF InQueue, CallsOK, QueueOK, TypeOK
    <3> QED
      BY <1>1, <2>3, <3>1, <3>2 DEF OnItsWay
  <2> QED
    BY <2>1, <2>2, <2>3 DEF RowsFollow
<1> QED
  BY <1>4, <1>5, <1>6, <1>7, <1>8

LEMMA DeleteStep ==
    ASSUME UpdatesInv, NEW x \in Deleter, Delete(x)
    PROVE  UpdatesInv'
<1> DEFINE d == Target[x]
<1> USE DEF UpdatesInv
<1>1. /\ present' = present \ {d}
      /\ fields' = [fields EXCEPT ![d] = {}]
      /\ UNCHANGED <<pending, order, running, worker, latest, catalog, status, copy,
                     written, behind, unbooked, dropped>>
  BY DEF Delete, vars, queueVars, history
<1>2. /\ call[x] = "deleting"
      /\ call'[x] = IF d \in present THEN "deleted" ELSE "refused"
      /\ call' \in [Call -> CallStates]
      /\ \A b \in Call : b # x => call'[b] = call[b]
  <2> DEFINE to == IF d \in present THEN "deleted" ELSE "refused"
  <2>1. to \in CallStates /\ Move(x, "deleting", to) /\ x \in Call
    BY Kinds DEF CallStates, Delete
  <2> HIDE DEF to
  <2>2. call'[x] = to
    BY <2>1, MoveFacts
  <2> QED
    BY <2>1, <2>2, MoveFacts DEF to
<1>3. d \in Doc /\ d = Target[x]
  BY Kinds
<1>4. /\ fields' = [e \in Doc |-> fields'[e]]
      /\ fields'[d] = {}
      /\ \A e \in Doc : e # d => fields'[e] = fields[e]
  BY <1>1, <1>3 DEF CallsOK
<1> HIDE DEF d
<1>5. CallsOK'
  BY <1>1, <1>2, <1>4, QueueStays DEF CallsOK
<1>6. CopiesOK'
  BY <1>1, <1>2, <1>4, Kinds DEF CopiesOK
<1>7. UpdatesKept'
  <2>1. ASSUME NEW c \in Updater, Given(c) PROVE Given(c)'
    BY <1>1, <1>2, <2>1, Kinds DEF Given
  <2>2. ASSUME NEW c \in Updater, Shown(c) PROVE Given(c)' \/ Shown(c)'
    <3>1. CASE Target[c] = d
      <4>1. d \in present
        BY <1>3, <2>2, <3>1 DEF CopiesOK, Shown
      <4> QED
        BY <1>2, <1>3, <3>1, <4>1 DEF Given
    <3>2. CASE Target[c] # d
      BY <1>1, <1>2, <1>4, <2>2, <3>2, Kinds DEF Shown
    <3> QED
      BY <3>1, <3>2
  <2> QED
    BY <1>1, <2>1, <2>2 DEF UpdatesKept
<1>8. ReleasesKept'
  BY <1>1, <1>2, Kinds, ReleasesStay
<1>9. RowsFollow'
  <2>1. \A e \in Doc : Excused(e) => Excused(e)'
    BY <1>1, <1>2, Kinds, ExcusedStays
  <2>2. \A u \in Updater : call'[u] = "written" <=> call[u] = "written"
    BY <1>2, Kinds
  <2> QED
    BY <1>1, <2>1, <2>2, RowsStay
<1> QED
  BY <1>5, <1>6, <1>7, <1>8, <1>9

-----------------------------------------------------------------------------
(* The worker.                                                             *)

LEMMA BookkeeperStep ==
    ASSUME UpdatesInv, NEW w \in Worker, Bookkeeper(w)
    PROVE  UpdatesInv'
<1> USE DEF UpdatesInv
<1>1. /\ LineageWorker(w)
      /\ dropped \subseteq dropped'
      /\ UNCHANGED <<latest, present, fields, status, call, copy, written, behind, unbooked>>
  BY DEF Bookkeeper, LineageWorker, Stop, Take, Work
<1>2. QueueOK /\ QueueOK'
  BY <1>1, StopKeepsQueue, TakeKeepsQueue, WorkKeepsQueue DEF LineageWorker, CallsOK
<1>3. CallsOK' /\ CopiesOK'
  BY <1>1, <1>2 DEF CallsOK, CopiesOK
<1>4. UpdatesKept' /\ ReleasesKept'
  BY <1>1 DEF UpdatesKept, Given, Shown, ReleasesKept, Undone, Released
<1>5. RowsFollow'
  <2>1. \A e \in Doc : Excused(e) => Excused(e)'
    BY <1>1, ExcusedStays
  <2> SUFFICES ASSUME NEW e \in Doc, AboutToBook(e) = {}, InQueue(e)
               PROVE  Excused(e)' \/ InQueue(e)'
    <3>1. \A e \in Doc : AboutToBook(e)' = AboutToBook(e)
      BY <1>1 DEF AboutToBook
    <3> QED
      BY <1>1, <2>1, <3>1 DEF RowsFollow, OnItsWay
  <2>2. CASE Stop(w)
    <3>1. /\ worker[w] = Looking /\ worker' = [worker EXCEPT ![w] = Gone]
          /\ UNCHANGED <<pending, catalog>>
      BY <2>2 DEF Stop, Leave
    <3>2. \A x \in Worker : (worker'[x].at = "working" <=> worker[x].at = "working")
                            /\ (worker[x].at = "working" => worker'[x] = worker[x])
      BY <1>2, <3>1 DEF QueueOK, TypeOK, Gone, Looking
    <3> QED
      BY <1>1, <3>1, <3>2 DEF InQueue
  <2>3. CASE Take(w)
    <3> DEFINE d == Head(order)
               job == [at |-> "working", doc |-> d, version |-> pending[d]]
    <3>1. /\ worker[w] = Looking /\ order # <<>>
          /\ worker' = [worker EXCEPT ![w] = job]
          /\ pending' = [pending EXCEPT ![d] = NoJob]
          /\ catalog' = catalog
      BY <2>3 DEF Take
    <3>2. /\ pending \in [Doc -> Nat] /\ d \in Doc
          /\ pending[d] # NoJob
      <4>1. order \in Seq(Doc) /\ pending \in [Doc -> Nat]
        BY <1>2 DEF QueueOK, TypeOK
      <4>2. d \in Doc /\ d = order[1] /\ 1 \in DOMAIN order
        BY <3>1, <4>1, TailFacts
      <4> QED
        BY <1>2, <4>1, <4>2 DEF QueueOK, OrderMatchesPending
    <3>3. /\ worker'[w] = job
          /\ \A x \in Worker : x # w => worker'[x] = worker[x]
      BY <1>2, <3>1 DEF QueueOK, TypeOK
    <3>4. \A x \in Worker : worker[x].at # "working"
      BY <1>2, <3>1 DEF QueueOK, OneWorker, Gone, Looking
    <3>5. /\ worker'[w].at = "working" /\ worker'[w].doc = d
          /\ worker'[w].version = pending[d]
      BY <3>3
    <3> HIDE DEF d, job
    <3>6. CASE e = d
      <4>1. pending[d] = latest[d]
        BY <3>2, <3>6 DEF InQueue
      <4>2. pending'[d] = NoJob
        BY <3>1, <3>2
      <4> QED
        BY <1>1, <3>5, <3>6, <4>1, <4>2 DEF InQueue
    <3>7. CASE e # d
      <4>1. pending'[e] = pending[e] /\ catalog'[e] = catalog[e] /\ latest'[e] = latest[e]
        BY <1>1, <3>1, <3>2, <3>7
      <4>2. \A x \in Worker : worker'[x].at = "working" => worker'[x].doc # e
        BY <3>3, <3>4, <3>5, <3>7
      <4> QED
        BY <3>4, <4>1, <4>2 DEF InQueue
    <3> QED
      BY <3>6, <3>7
  <2>4. CASE Work(w)
    <3> DEFINE d == worker[w].doc
               v == worker[w].version
    <3>1. /\ worker[w].at = "working"
          /\ worker' = [worker EXCEPT ![w] = Looking]
          /\ catalog' = [catalog EXCEPT ![d] = v] \/ catalog' = catalog
          /\ pending' = pending
      BY <2>4 DEF Work, queueVars
    <3>2. d \in Doc /\ catalog \in [Doc -> Nat]
      BY <1>2, <3>1, WorkerStates DEF QueueOK, TypeOK, Gone
    <3>3. \A x \in Worker : worker[x].at = "working" => x = w
      BY <1>2, <3>1 DEF QueueOK, OneWorker, Gone
    <3>4. \A x \in Worker : worker'[x].at # "working"
      BY <1>2, <3>1, <3>3 DEF QueueOK, TypeOK, Looking
    <3>5. CASE pending[e] # NoJob
      BY <1>1, <3>1, <3>5 DEF InQueue
    <3>6. CASE pending[e] = NoJob /\ e = d
      <4>1. v = latest[d]
        BY <3>1, <3>3, <3>6 DEF InQueue
      <4>2. CASE catalog'[d] = v
        BY <1>1, <3>1, <3>4, <3>6, <4>1, <4>2 DEF InQueue
      <4>3. CASE catalog'[d] # v
        <5>1. d \in dropped'
          BY <3>1, <3>2, <4>3 DEF Bookkeeper
        <5> QED
          BY <3>6, <5>1 DEF Excused
      <4> QED
        BY <4>2, <4>3
    <3>7. CASE pending[e] = NoJob /\ e # d
      <4>1. catalog[e] = latest[e]
        BY <3>3, <3>7 DEF InQueue
      <4>2. catalog'[e] = catalog[e]
        BY <3>1, <3>2, <3>7
      <4> QED
        BY <1>1, <3>1, <3>4, <3>7, <4>1, <4>2 DEF InQueue
    <3> QED
      BY <3>5, <3>6, <3>7
  <2> QED
    BY <1>1, <2>2, <2>3, <2>4 DEF LineageWorker
<1> QED
  BY <1>3, <1>4, <1>5

-----------------------------------------------------------------------------
(* Reservations.                                                           *)

(***************************************************************************)
(* Nothing that happens to a reservation touches a document.               *)
(***************************************************************************)
LEMMA DocumentsUntouched ==
    ASSUME UpdatesInv,
           UNCHANGED <<vars, present, fields, copy, written, dropped>>,
           \A c \in Updater \cup Deleter :
             /\ call'[c] = call[c]
             /\ behind'[c] = behind[c]
             /\ unbooked'[c] = unbooked[c]
    PROVE  QueueOK' /\ CopiesOK' /\ UpdatesKept' /\ RowsFollow'
<1> USE DEF UpdatesInv
<1>1. UNCHANGED <<pending, order, running, worker, latest, catalog>>
  BY DEF vars, queueVars
<1>2. QueueOK'
  BY <1>1, QueueStays DEF CallsOK
<1>3. CopiesOK'
  BY DEF CopiesOK
<1>4. UpdatesKept'
  <2>1. ASSUME NEW c \in Updater, Given(c) PROVE Given(c)'
    BY <2>1 DEF Given
  <2>2. ASSUME NEW c \in Updater, Shown(c) PROVE Shown(c)'
    BY <2>2 DEF Shown
  <2> QED
    BY <2>1, <2>2 DEF UpdatesKept
<1>5. RowsFollow'
  <2>1. \A e \in Doc : Excused(e) => Excused(e)'
    BY ExcusedStays
  <2>2. \A u \in Updater : call'[u] = "written" <=> call[u] = "written"
    OBVIOUS
  <2> QED
    BY <1>1, <2>1, <2>2, RowsStay
<1> QED
  BY <1>2, <1>3, <1>4, <1>5

LEMMA ReserveStep ==
    ASSUME UpdatesInv, NEW i \in CapID, ReserveCapacity(i)
    PROVE  UpdatesInv'
<1> USE DEF UpdatesInv
<1>1. /\ status[i] = "none"
      /\ status' = [status EXCEPT ![i] = "reserved"]
      /\ UNCHANGED <<vars, present, fields, call, copy, written, behind, unbooked, dropped>>
  BY DEF ReserveCapacity, callVars, history
<1>2. QueueOK' /\ CopiesOK' /\ UpdatesKept' /\ RowsFollow'
  BY <1>1, DocumentsUntouched
<1>3. CallsOK'
  BY <1>1, <1>2 DEF CallsOK
<1>4. ReleasesKept'
  BY <1>1, Kinds DEF ReleasesKept, Undone, Released, CallsOK
<1> QED
  BY <1>2, <1>3, <1>4

LEMMA GetCapacityStep ==
    ASSUME UpdatesInv, NEW c \in Attacher \cup Releaser, NEW accepts \in BOOLEAN,
           c \in Attacher => (accepts => Attachable(Target[c])),
           GetCapacity(c, accepts)
    PROVE  UpdatesInv'
<1> USE DEF UpdatesInv
<1>1. /\ call[c] = "idle"
      /\ call'[c] = IF accepts THEN "found" ELSE "done"
      /\ call' \in [Call -> CallStates]
      /\ \A b \in Call : b # c => call'[b] = call[b]
  <2> DEFINE to == IF accepts THEN "found" ELSE "done"
  <2>1. to \in CallStates /\ Move(c, "idle", to) /\ c \in Call
    BY Kinds DEF CallStates, GetCapacity
  <2> HIDE DEF to
  <2>2. call'[c] = to
    BY <2>1, MoveFacts
  <2> QED
    BY <2>1, <2>2, MoveFacts DEF to
<1>2. UNCHANGED <<vars, present, fields, status, copy, written, behind, unbooked, dropped>>
  BY DEF GetCapacity, history
<1>3. QueueOK' /\ CopiesOK' /\ UpdatesKept' /\ RowsFollow'
  BY <1>1, <1>2, Kinds, DocumentsUntouched
<1>4. CallsOK'
  BY <1>1, <1>2, <1>3 DEF CallsOK
<1>5. ReleasesKept'
  <2>1. \A b \in Attacher :
          call'[b] = "found" => call[b] = "found" \/ status[Target[b]] # "released"
    BY <1>1, Kinds DEF Attachable
  <2>2. \A r \in Releaser : call'[r] = "put" => call[r] = "put"
    BY <1>1, Kinds
  <2> QED
    BY <1>1, <1>2, <2>1, <2>2, ReleasesStay
<1> QED
  BY <1>3, <1>4, <1>5

LEMMA PutCapacityStep ==
    ASSUME UpdatesInv, NEW c \in Attacher \cup Releaser, NEW new,
           c \in Releaser => new = "released",
           PutCapacity(c, new)
    PROVE  UpdatesInv'
<1> DEFINE i == Target[c]
<1> USE DEF UpdatesInv
<1>1. /\ status' = [status EXCEPT ![i] = new]
      /\ behind' = [behind EXCEPT ![c] = At("found", c)]
      /\ unbooked' = [unbooked EXCEPT ![c] = At("written", c)]
      /\ UNCHANGED <<vars, present, fields, copy, written, dropped>>
  BY DEF PutCapacity, RecordOverlap
<1>2. /\ call[c] = "found"
      /\ call'[c] \in {"put", "failed"}
      /\ call' \in [Call -> CallStates]
      /\ \A b \in Call : b # c => call'[b] = call[b]
  <2>1. PICK to \in {"put", "failed"} : Move(c, "found", to)
    BY DEF PutCapacity
  <2>2. to \in CallStates /\ c \in Call
    BY Kinds DEF CallStates
  <2> QED
    BY <2>1, <2>2, MoveFacts
<1>3. i \in CapID /\ i = Target[c] /\ c \in Call
  BY Kinds
<1>4. /\ status' = [j \in CapID |-> status'[j]]
      /\ status'[i] = new
      /\ \A j \in CapID : j # i => status'[j] = status[j]
  BY <1>1, <1>3 DEF CallsOK
<1>5. /\ behind' = [b \in Call |-> behind'[b]]
      /\ behind'[c] = At("found", c)
      /\ unbooked' = [b \in Call |-> unbooked'[b]]
      /\ \A b \in Call : b # c => behind'[b] = behind[b] /\ unbooked'[b] = unbooked[b]
  BY <1>1, <1>3 DEF CallsOK
<1> HIDE DEF i
<1>6. QueueOK' /\ CopiesOK' /\ UpdatesKept' /\ RowsFollow'
  BY <1>1, <1>2, <1>5, Kinds, DocumentsUntouched
<1>7. CallsOK'
  BY <1>1, <1>2, <1>4, <1>5, <1>6 DEF CallsOK
<1>8. ReleasesKept'
  <2>1. \A r \in Releaser : behind'[r] \subseteq Call
    BY <1>5, Kinds DEF ReleasesKept, At
  <2> SUFFICES ASSUME NEW r \in Releaser, call'[r] = "put"
               PROVE  Undone(r)' \/ Released(r)'
    BY <2>1 DEF ReleasesKept
  <2>2. CASE r = c
    <3>1. status'[Target[r]] = "released"
      BY <1>3, <1>4, <2>2
    <3>2. \A b \in Attacher :
            Target[b] = Target[r] /\ call'[b] = "found" => b \in behind'[r]
      BY <1>2, <1>5, <2>2, Kinds DEF At
    <3> QED
      BY <3>1, <3>2 DEF Released
  <2>3. CASE r # c /\ Undone(r)
    BY <1>2, <1>5, <2>3, Kinds DEF Undone, ReleasesKept
  <2>4. CASE r # c /\ Released(r) /\ Target[r] = i /\ c \in behind[r]
    BY <1>2, <1>5, <2>4, Kinds DEF Undone
  <2>5. CASE r # c /\ Released(r) /\ ~(Target[r] = i /\ c \in behind[r])
    <3>1. Target[r] = i => c \in Releaser
      BY <1>2, <1>3, <2>5 DEF Released
    <3>2. status'[Target[r]] = "released"
      BY <1>4, <2>5, <3>1, Kinds DEF Released
    <3>3. \A b \in Attacher :
            Target[b] = Target[r] /\ call'[b] = "found" => b \in behind'[r]
      BY <1>2, <1>5, <2>5, Kinds DEF Released
    <3> QED
      BY <3>2, <3>3 DEF Released
  <2>6. call[r] = "put" \/ r = c
    BY <1>2, Kinds
  <2> QED
    BY <2>2, <2>3, <2>4, <2>5, <2>6 DEF ReleasesKept
<1> QED
  BY <1>6, <1>7, <1>8

-----------------------------------------------------------------------------

LEMMA UpdatesInvStep ==
    ASSUME UpdatesInv, [UpdatesNext]_allVars
    PROVE  UpdatesInv'
<1>1. CASE UNCHANGED allVars
  <2>1. UNCHANGED <<vars, present, fields, status, call, copy, written, behind, unbooked, dropped>>
    BY <1>1 DEF allVars, callVars, history
  <2>2. QueueOK' /\ CopiesOK' /\ UpdatesKept' /\ RowsFollow'
    BY <2>1, DocumentsUntouched
  <2>3. CallsOK' /\ ReleasesKept'
    BY <2>1, <2>2 DEF UpdatesInv, CallsOK, ReleasesKept, Undone, Released
  <2> QED
    BY <2>2, <2>3 DEF UpdatesInv
<1>2. ASSUME NEW u \in Updater, UpdateCall(u) PROVE UpdatesInv'
  BY <1>2, FindStep, WriteStep, WriteFailsStep, BookkeepStep, Kinds DEF UpdateCall
<1>3. ASSUME NEW x \in Deleter, DeleteCall(x) PROVE UpdatesInv'
  BY <1>3, FindForDeleteStep, CleanUpStep, DeleteStep DEF DeleteCall
<1>4. ASSUME NEW w \in Worker, Bookkeeper(w) PROVE UpdatesInv'
  BY <1>4, BookkeeperStep
<1>5. ASSUME NEW i \in CapID, ReserveCapacity(i) PROVE UpdatesInv'
  BY <1>5, ReserveStep
<1>6. ASSUME NEW c \in Attacher, AttachCDT(c) PROVE UpdatesInv'
  <2>1. CASE GetCapacity(c, Attachable(Target[c]))
    BY <2>1, GetCapacityStep DEF Attachable
  <2>2. CASE PutCapacity(c, "active")
    BY <2>2, PutCapacityStep, Kinds
  <2>3. CASE WriteFails(c)
    BY <2>3, WriteFailsStep, Kinds
  <2> QED
    BY <1>6, <2>1, <2>2, <2>3 DEF AttachCDT
<1>7. ASSUME NEW c \in Releaser, ReleaseCapacity(c) PROVE UpdatesInv'
  <2>1. CASE GetCapacity(c, Known(Target[c]))
    BY <2>1, GetCapacityStep, Kinds DEF Known
  <2>2. CASE PutCapacity(c, "released")
    BY <2>2, PutCapacityStep
  <2>3. CASE WriteFails(c)
    BY <2>3, WriteFailsStep, Kinds
  <2> QED
    BY <1>7, <2>1, <2>2, <2>3 DEF ReleaseCapacity
<1> QED
  BY <1>1, <1>2, <1>3, <1>4, <1>5, <1>6, <1>7 DEF UpdatesNext, DocumentCalls, CapacityCalls

(***************************************************************************)
(* Queue and map agree and one worker runs, although calls come to         *)
(* enqueueLineage in another order than they wrote; copies are complete,   *)
(* and every row is current, on its way or excused.                        *)
(***************************************************************************)
THEOREM UpdatesInvariant == UpdatesSpec => []UpdatesInv
<1>1. UpdatesInv /\ [UpdatesNext]_allVars => UpdatesInv'
  BY UpdatesInvStep
<1> QED
  BY InitUpdatesInv, <1>1, PTL DEF UpdatesSpec

(***************************************************************************)
(* crudUpdateDocStoreRev loses an update, and a released reservation comes *)
(* back, only to a call that had read before.                              *)
(***************************************************************************)
THEOREM LossNeedsOverlap == UpdatesSpec => []LostOnlyToOverlap
<1>1. UpdatesInv => LostOnlyToOverlap
  BY DEF UpdatesInv, UpdatesKept, Given, Shown, ReleasesKept, Undone, Released,
         LostOnlyToOverlap
<1> QED
  BY <1>1, UpdatesInvariant, PTL

(***************************************************************************)
(* Once the calls and the lineage worker have ended, each catalog row is   *)
(* of the last version of its document, but for the causes Excused lists.  *)
(***************************************************************************)
THEOREM StalenessNeedsCause == UpdatesSpec => []StaleOnlyToOverlap
<1>1. UpdatesInv => StaleOnlyToOverlap
  <2> SUFFICES ASSUME UpdatesInv, Quiet, NEW d \in present, ~Excused(d)
               PROVE  catalog[d] = latest[d]
    BY DEF StaleOnlyToOverlap
  <2>1. d \in Doc /\ OnItsWay(d)
    BY DEF UpdatesInv, CallsOK, RowsFollow
  <2>2. AboutToBook(d) = {}
    BY DEF Quiet, AboutToBook
  <2>3. order = <<>> /\ \A w \in Worker : worker[w].at # "working"
    BY DEF Quiet, UpdatesInv, CallsOK, QueueOK, OneWorker, Gone
  <2>4. pending[d] = NoJob
    BY <2>1, <2>3 DEF UpdatesInv, CallsOK, QueueOK, OrderMatchesPending
  <2> QED
    BY <2>1, <2>2, <2>3, <2>4 DEF OnItsWay, InQueue
<1> QED
  BY <1>1, UpdatesInvariant, PTL

-----------------------------------------------------------------------------
(* Messages that external systems send.                                    *)

(***************************************************************************)
(* The messages by the order they are sent in, and what they are about.    *)
(***************************************************************************)
Sent == 1 .. Len(Message)
Id(m) == Message[m].id

(***************************************************************************)
(* The types of the subscriptions and the tables.                          *)
(***************************************************************************)
MessagesTypeOK ==
    /\ published \in 0 .. Len(Message)
    /\ queue \in [Connection -> Seq(Sent)]
    /\ receiver \in [Connection -> [at : {"next", "store", "catalog"}, msg : Sent \cup {0}]]
    /\ recorded \subseteq Sent
    /\ metadata \in [Ids -> Nat]
    /\ sensors \in [Ids -> Nat]

(***************************************************************************)
(* What waits was published, what is in hand was recorded before it.       *)
(***************************************************************************)
Came ==
    /\ \A m \in recorded : m <= published
    /\ \A c \in Connection : \A j \in 1 .. Len(queue[c]) : queue[c][j] <= published
    /\ \A c \in Connection : receiver[c].at # "next" => receiver[c].msg \in recorded
    /\ \A c \in Connection : receiver[c].at = "catalog" => Message[receiver[c].msg].type = "sensor"

(***************************************************************************)
(* A connection brings messages in the order they were sent.               *)
(***************************************************************************)
Ascending ==
    \A c \in Connection : \A j, k \in 1 .. Len(queue[c]) : j < k => queue[c][j] < queue[c][k]

(***************************************************************************)
(* What waits is newer than what is recorded of the same sensor or         *)
(* creation, unless a connection came late.                                *)
(***************************************************************************)
RecordedFirst ==
    \A m \in recorded, c \in Connection : \A j \in 1 .. Len(queue[c]) :
        Id(queue[c][j]) = Id(m) /\ Id(m) \notin late => m < queue[c][j]

(***************************************************************************)
(* And so is what is in hand.                                              *)
(***************************************************************************)
InHandLast ==
    \A m \in recorded, c \in Connection :
        receiver[c].at # "next" /\ Id(receiver[c].msg) = Id(m) /\ Id(m) \notin late => m <= receiver[c].msg

(***************************************************************************)
(* A receiver is about to write what is at least as new as m to the store  *)
(* or, with it, to the catalog.                                            *)
(***************************************************************************)
ToStore(m) ==
    \E c \in Connection :
        /\ receiver[c].at = "store" 
        /\ Id(receiver[c].msg) = Id(m)
        /\ receiver[c].msg >= m

ToCatalog(m) ==
    \E c \in Connection :
        /\ receiver[c].at \in {"store", "catalog"}
        /\ Message[receiver[c].msg].type = "sensor"
        /\ Id(receiver[c].msg) = Id(m)
        /\ receiver[c].msg >= m

(***************************************************************************)
(* What is recorded of a sensor is written, or a receiver that has not     *)
(* written yet has something as new.                                       *)
(***************************************************************************)
OnTheWay ==
    \A m \in recorded :
        Message[m].type = "sensor" /\ Id(m) \notin late \cup unwritten =>
            /\ metadata[Id(m)] >= m \/ ToStore(m)
            /\ sensors[Id(m)] >= m \/ ToCatalog(m)

MessagesInv == MessagesTypeOK /\ Came /\ Ascending /\ RecordedFirst /\ InHandLast /\ OnTheWay

(***************************************************************************)
(* The messages are numbered.                                              *)
(***************************************************************************)
LEMMA MessageFacts ==
    /\ Message \in Seq([type : {"sensor", "create", "command", "garbled", "empty"}, id : Ids])
    /\ Len(Message) \in Nat
    /\ DOMAIN Message = Sent
    /\ \A m \in Sent : m \in Nat /\ Id(m) \in Ids
  <1>1. Message \in Seq([type : {"sensor", "create", "command", "garbled", "empty"}, id : Ids])
    BY MessageAssumption
  <1>2. Len(Message) \in Nat /\ DOMAIN Message = Sent
    BY <1>1 DEF Sent
  <1>3. \A m \in Sent : m \in Nat /\ Id(m) \in Ids
    BY <1>2 DEF Sent, Id, Ids
  <1> QED BY <1>1, <1>2, <1>3

LEMMA MessagesInit == EmsInit => MessagesInv
  <1> SUFFICES ASSUME EmsInit PROVE MessagesInv
    OBVIOUS
  <1>1. MessagesTypeOK
    BY MessageFacts DEF EmsInit, MessagesTypeOK, Waiting, Sent
  <1>2. \A c \in Connection : Len(queue[c]) = 0 /\ receiver[c].at = "next"
    BY DEF EmsInit, Waiting
  <1>3. recorded = {}
    BY DEF EmsInit
  <1> QED BY <1>1, <1>2, <1>3 DEF MessagesInv, Came, Ascending, RecordedFirst, InHandLast, OnTheWay

(***************************************************************************)
(* What the messages change.                                               *)
(***************************************************************************)
messageVars == <<published, queue, receiver, tables, late>>

LEMMA MessagesRest ==
    ASSUME MessagesInv, UNCHANGED messageVars
    PROVE  MessagesInv'
  BY DEF MessagesInv, messageVars, tables, MessagesTypeOK, Came, Ascending, RecordedFirst, InHandLast,
         OnTheWay, ToStore, ToCatalog, Id

LEMMA MessagesPublish ==
    ASSUME MessagesInv, Publish
    PROVE  MessagesInv'
  <1> USE DEF MessagesInv
  <1>0. /\ published < Len(Message)
        /\ published' = published + 1
        /\ \A c \in Connection : queue'[c] \in {queue[c], Append(queue[c], published')}
        /\ queue' = [c \in Connection |-> queue'[c]]
        /\ UNCHANGED <<receiver, recorded, metadata, sensors, unwritten, late>>
    BY DEF Publish, tables
  <1>1. published \in Nat /\ published' \in Sent
    BY <1>0, MessageFacts DEF MessagesTypeOK, Sent
  <1>2. ASSUME NEW c \in Connection
        PROVE  /\ queue'[c] \in Seq(Sent)
               /\ Len(queue[c]) \in Nat
               /\ Len(queue'[c]) \in {Len(queue[c]), Len(queue[c]) + 1}
               /\ \A j \in 1 .. Len(queue'[c]) :
                    \/ j \in 1 .. Len(queue[c]) /\ queue'[c][j] = queue[c][j]
                    \/ j = Len(queue[c]) + 1 /\ queue'[c][j] = published'
    <2>1. queue[c] \in Seq(Sent)
      BY DEF MessagesTypeOK
    <2>2. CASE queue'[c] = queue[c]
      BY <2>1, <2>2
    <2>3. CASE queue'[c] = Append(queue[c], published')
      BY <2>1, <2>3, <1>1
    <2> QED BY <2>2, <2>3, <1>0
  <1>3. \A c \in Connection : \A j \in 1 .. Len(queue[c]) : queue[c][j] \in Nat /\ queue[c][j] <= published
    <2> SUFFICES ASSUME NEW c \in Connection, NEW j \in 1 .. Len(queue[c])
                 PROVE  queue[c][j] \in Nat /\ queue[c][j] <= published
      OBVIOUS
    <2>1. queue[c] \in Seq(Sent)
      BY DEF MessagesTypeOK
    <2>2. queue[c][j] \in Sent
      BY <2>1
    <2> QED BY <2>2, MessageFacts DEF Came
  <1>4. \A m \in recorded : m \in Nat /\ m <= published
    BY MessageFacts DEF MessagesTypeOK, Came
  <1>5. MessagesTypeOK'
    BY <1>0, <1>1, <1>2, MessageFacts DEF MessagesTypeOK, Sent
  <1>6. Came'
    <2>1. \A m \in recorded' : m <= published'
      BY <1>0, <1>1, <1>4
    <2>2. \A c \in Connection : \A j \in 1 .. Len(queue'[c]) : queue'[c][j] <= published'
      BY <1>0, <1>1, <1>2, <1>3
    <2> QED BY <1>0, <2>1, <2>2 DEF Came
  <1>7. Ascending'
    <2> SUFFICES ASSUME NEW c \in Connection, NEW j \in 1 .. Len(queue'[c]), NEW k \in 1 .. Len(queue'[c]), j < k
                 PROVE  queue'[c][j] < queue'[c][k]
      BY DEF Ascending
    <2>1. j \in 1 .. Len(queue[c]) /\ queue'[c][j] = queue[c][j]
      BY <1>2
    <2>2. CASE k \in 1 .. Len(queue[c]) /\ queue'[c][k] = queue[c][k]
      BY <2>1, <2>2 DEF Ascending
    <2>3. CASE queue'[c][k] = published'
      BY <2>1, <2>3, <1>0, <1>1, <1>3
    <2> QED BY <2>2, <2>3, <1>2
  <1>8. RecordedFirst'
    <2> SUFFICES ASSUME NEW m \in recorded, NEW c \in Connection, NEW j \in 1 .. Len(queue'[c]),
                        Id(queue'[c][j]) = Id(m), Id(m) \notin late
                 PROVE  m < queue'[c][j]
      BY <1>0 DEF RecordedFirst, Id
    <2>1. CASE j \in 1 .. Len(queue[c]) /\ queue'[c][j] = queue[c][j]
      BY <2>1 DEF RecordedFirst
    <2>2. CASE queue'[c][j] = published'
      BY <2>2, <1>0, <1>1, <1>4
    <2> QED BY <2>1, <2>2, <1>2
  <1>9. InHandLast' /\ OnTheWay'
    BY <1>0 DEF InHandLast, OnTheWay, ToStore, ToCatalog, Id
  <1> QED BY <1>5, <1>6, <1>7, <1>8, <1>9

(***************************************************************************)
(* Where a message goes from a step.                                       *)
(***************************************************************************)
LEMMA GoesOn ==
    ASSUME MessagesTypeOK, NEW c \in Connection, NEW m \in Sent, NEW at \in {"record", "store", "catalog"},
           Go(c, m, at)
    PROVE  /\ receiver' \in [Connection -> [at : {"next", "store", "catalog"}, msg : Sent \cup {0}]]
           /\ \A d \in Connection : d # c => receiver'[d] = receiver[d]
           /\ receiver'[c].at # "next" => receiver'[c].msg = m
           /\ receiver'[c].at = "catalog" => Message[m].type = "sensor"
           /\ at = "record" /\ Message[m].type = "sensor" => receiver'[c].at = "store"
           /\ at = "store" /\ Message[m].type = "sensor" => receiver'[c].at = "catalog"
  <1> DEFINE to == After(at, Message[m].type)
             r == IF to = "next" THEN Waiting ELSE [at |-> to, msg |-> m]
  <1>1. to \in {"next", "store", "catalog"}
    BY DEF After
  <1>2. /\ to = "catalog" => Message[m].type = "sensor"
        /\ at = "record" /\ Message[m].type = "sensor" => to = "store"
        /\ at = "store" /\ Message[m].type = "sensor" => to = "catalog"
    BY DEF After
  <1>3. receiver' = [receiver EXCEPT ![c] = r]
    BY DEF Go
  <1>4. r \in [at : {"next", "store", "catalog"}, msg : Sent \cup {0}] /\ r.at = to /\ (to # "next" => r.msg = m)
    BY <1>1 DEF Waiting
  <1> HIDE DEF to, r
  <1> QED BY <1>2, <1>3, <1>4 DEF MessagesTypeOK

LEMMA MessagesReceive ==
    ASSUME MessagesInv, NEW c \in Connection, Receive(c)
    PROVE  MessagesInv'
  <1> USE DEF MessagesInv
  <1> DEFINE m0 == Head(queue[c])
  <1>q. /\ queue[c] \in Seq(Sent)
        /\ queue[c] # <<>>
    BY DEF Receive, MessagesTypeOK
  <1>h. /\ m0 \in Sent
        /\ m0 = queue[c][1]
        /\ Tail(queue[c]) \in Seq(Sent)
        /\ Len(queue[c]) \in Nat \ {0}
        /\ Len(Tail(queue[c])) = Len(queue[c]) - 1
        /\ \A j \in 1 .. Len(Tail(queue[c])) : Tail(queue[c])[j] = queue[c][j + 1]
    BY <1>q
  <1> HIDE DEF m0
  <1>0. /\ receiver[c].at = "next"
        /\ recorded' = recorded \cup {m0}
        /\ Go(c, m0, "record")
        /\ late' = IF Elsewhere(c, Id(m0)) THEN late \cup {Id(m0)} ELSE late
        /\ queue' = [queue EXCEPT ![c] = Tail(queue[c])]
        /\ UNCHANGED <<published, metadata, sensors, unwritten>>
    BY DEF Receive, Id, m0
  <1>g. /\ receiver' \in [Connection -> [at : {"next", "store", "catalog"}, msg : Sent \cup {0}]]
        /\ \A d \in Connection : d # c => receiver'[d] = receiver[d]
        /\ receiver'[c].at # "next" => receiver'[c].msg = m0
        /\ receiver'[c].at = "catalog" => Message[m0].type = "sensor"
        /\ Message[m0].type = "sensor" => receiver'[c].at = "store"
    BY <1>0, <1>h, GoesOn
  <1>1. /\ \A m \in Sent : m \in Nat
        /\ late \subseteq late'
    BY <1>0, MessageFacts
  <1>2. /\ queue' \in [Connection -> Seq(Sent)]
        /\ \A d \in Connection : d # c => queue'[d] = queue[d]
        /\ queue'[c] = Tail(queue[c])
    BY <1>0, <1>h DEF MessagesTypeOK
  \* Every place in a queue was a later place, or the same, before.
  <1>3. ASSUME NEW d \in Connection, NEW j \in 1 .. Len(queue'[d])
        PROVE  \E k \in 1 .. Len(queue[d]) : queue'[d][j] = queue[d][k] /\ (d = c => k = j + 1)
    <2>1. CASE d = c
      <3>1. j + 1 \in 1 .. Len(queue[d]) /\ queue'[d][j] = queue[d][j + 1]
        BY <2>1, <1>2, <1>h
      <3> QED BY <3>1
    <2>2. CASE d # c
      BY <2>2, <1>2
    <2> QED BY <2>1, <2>2
  <1>4. MessagesTypeOK'
    BY <1>0, <1>1, <1>2, <1>g, <1>h DEF MessagesTypeOK
  <1>5. Came'
    <2>1. m0 <= published
      BY <1>h, <1>1 DEF Came
    <2>2. \A m \in recorded' : m <= published'
      BY <2>1, <1>0 DEF Came
    <2>3. ASSUME NEW d \in Connection, NEW j \in 1 .. Len(queue'[d]) PROVE queue'[d][j] <= published'
      BY <1>3, <1>0 DEF Came
    <2>4. ASSUME NEW d \in Connection
          PROVE  /\ receiver'[d].at # "next" => receiver'[d].msg \in recorded'
                 /\ receiver'[d].at = "catalog" => Message[receiver'[d].msg].type = "sensor"
      <3>1. CASE d = c
        BY <3>1, <1>g, <1>0
      <3>2. CASE d # c
        BY <3>2, <1>g, <1>0 DEF Came
      <3> QED BY <3>1, <3>2
    <2> QED BY <2>2, <2>3, <2>4 DEF Came
  <1>6. Ascending'
    <2> SUFFICES ASSUME NEW d \in Connection, NEW j \in 1 .. Len(queue'[d]), NEW k \in 1 .. Len(queue'[d]), j < k
                 PROVE  queue'[d][j] < queue'[d][k]
      BY DEF Ascending
    <2>1. CASE d = c
      <3>1. /\ j + 1 \in 1 .. Len(queue[c]) /\ queue'[d][j] = queue[c][j + 1]
            /\ k + 1 \in 1 .. Len(queue[c]) /\ queue'[d][k] = queue[c][k + 1]
            /\ j + 1 < k + 1
        BY <2>1, <1>2, <1>h
      <3> QED BY <3>1 DEF Ascending
    <2>2. CASE d # c
      BY <2>2, <1>2 DEF Ascending
    <2> QED BY <2>1, <2>2
  \* Nothing of its id waits elsewhere or is in hand elsewhere, or the id is late.
  <1>7. ASSUME Id(m0) \notin late', NEW d \in Connection, d # c
        PROVE  /\ \A k \in 1 .. Len(queue[d]) : Id(queue[d][k]) # Id(m0)
               /\ receiver[d].at # "next" => Id(receiver[d].msg) # Id(m0)
    <2>1. ~ Elsewhere(c, Id(m0))
      BY <1>7, <1>0
    <2>2. DOMAIN queue[d] = 1 .. Len(queue[d])
      BY DEF MessagesTypeOK
    <2> QED BY <2>1, <2>2, <1>7 DEF Elsewhere, Id
  <1>8. RecordedFirst'
    <2> SUFFICES ASSUME NEW m \in recorded', NEW d \in Connection, NEW j \in 1 .. Len(queue'[d]),
                        Id(queue'[d][j]) = Id(m), Id(m) \notin late'
                 PROVE  m < queue'[d][j]
      BY DEF RecordedFirst, Id
    <2>1. PICK k \in 1 .. Len(queue[d]) : queue'[d][j] = queue[d][k] /\ (d = c => k = j + 1)
      BY <1>3
    <2>2. CASE m \in recorded
      BY <2>1, <2>2, <1>1 DEF RecordedFirst
    <2>3. CASE m = m0
      <3>1. d = c
        BY <2>1, <2>3, <1>7
      <3>2. 1 \in 1 .. Len(queue[c]) /\ 1 < k
        BY <3>1, <2>1, <1>h, <1>2
      <3>3. queue[c][1] < queue[c][k]
        BY <3>1, <3>2 DEF Ascending
      <3> QED BY <3>1, <3>3, <2>1, <2>3, <1>h
    <2> QED BY <2>2, <2>3, <1>0
  <1>9. InHandLast'
    <2> SUFFICES ASSUME NEW m \in recorded', NEW d \in Connection, receiver'[d].at # "next",
                        Id(receiver'[d].msg) = Id(m), Id(m) \notin late'
                 PROVE  m <= receiver'[d].msg
      BY DEF InHandLast, Id
    <2>0. 1 \in 1 .. Len(queue[c])
      BY <1>h
    <2>1. CASE m \in recorded /\ d # c
      BY <2>1, <1>g, <1>1 DEF InHandLast
    <2>2. CASE m \in recorded /\ d = c
      <3>1. receiver'[d].msg = m0
        BY <2>2, <1>g
      <3>2. m < queue[c][1]
        BY <3>1, <2>0, <2>2, <1>1, <1>h DEF RecordedFirst
      <3>3. m \in Nat /\ m0 \in Nat
        BY <2>2, <1>1, <1>h DEF MessagesTypeOK
      <3> QED BY <3>1, <3>2, <3>3, <1>h
    <2>3. CASE m = m0 /\ d # c
      <3>1. receiver'[d] = receiver[d]
        BY <2>3, <1>g
      <3> QED BY <2>3, <3>1, <1>7
    <2>4. CASE m = m0 /\ d = c
      BY <2>4, <1>g, <1>1, <1>h
    <2> QED BY <2>1, <2>2, <2>3, <2>4, <1>0
  <1>10. OnTheWay'
    <2> SUFFICES ASSUME NEW m \in recorded', Message[m].type = "sensor", Id(m) \notin late' \cup unwritten'
                 PROVE  /\ metadata'[Id(m)] >= m \/ ToStore(m)'
                        /\ sensors'[Id(m)] >= m \/ ToCatalog(m)'
      BY DEF OnTheWay, Id
    <2>1. CASE m \in recorded
      <3>1. /\ metadata[Id(m)] >= m \/ ToStore(m)
            /\ sensors[Id(m)] >= m \/ ToCatalog(m)
        BY <2>1, <1>0, <1>1 DEF OnTheWay
      <3>2. ToStore(m) => ToStore(m)'
        BY <1>0, <1>g DEF ToStore, Id
      <3>3. ToCatalog(m) => ToCatalog(m)'
        BY <1>0, <1>g DEF ToCatalog, Id
      <3> QED BY <3>1, <3>2, <3>3, <1>0
    <2>2. CASE m = m0
      <3>1. receiver'[c].at = "store" /\ receiver'[c].msg = m /\ m >= m
        BY <2>2, <1>g, <1>1, <1>h
      <3> QED BY <3>1 DEF ToStore, ToCatalog, Id
    <2> QED BY <2>1, <2>2, <1>0
  <1> QED BY <1>4, <1>5, <1>6, <1>8, <1>9, <1>10

(***************************************************************************)
(* The message in hand.                                                    *)
(***************************************************************************)
LEMMA MessageInHand ==
    ASSUME MessagesInv, NEW c \in Connection, receiver[c].at # "next"
    PROVE  /\ receiver[c].msg \in Sent
           /\ receiver[c].msg \in Nat
           /\ receiver[c].msg \in recorded
           /\ Id(receiver[c].msg) \in Ids
           /\ \A m \in recorded : Id(m) = Id(receiver[c].msg) /\ Id(m) \notin late => m <= receiver[c].msg
  BY MessageFacts DEF MessagesInv, MessagesTypeOK, Came, InHandLast

(***************************************************************************)
(* What the two writes have in common: the receiver goes on, and nothing   *)
(* else moves but the tables.                                              *)
(***************************************************************************)
LEMMA MessagesWrite ==
    ASSUME MessagesInv, NEW c \in Connection, receiver[c].at # "next",
           NEW at \in {"store", "catalog"}, Go(c, receiver[c].msg, at),
           UNCHANGED <<published, queue, recorded, late>>,
           metadata' \in [Ids -> Nat], sensors' \in [Ids -> Nat],
           OnTheWay'
    PROVE  MessagesInv'
  <1> USE DEF MessagesInv
  <1> DEFINE m0 == receiver[c].msg
  <1>0. m0 \in Sent /\ m0 \in recorded
    BY MessageInHand
  <1>g. /\ receiver' \in [Connection -> [at : {"next", "store", "catalog"}, msg : Sent \cup {0}]]
        /\ \A d \in Connection : d # c => receiver'[d] = receiver[d]
        /\ receiver'[c].at # "next" => receiver'[c].msg = m0
        /\ receiver'[c].at = "catalog" => Message[m0].type = "sensor"
    BY <1>0, GoesOn
  <1>1. MessagesTypeOK'
    BY <1>g DEF MessagesTypeOK
  <1>2. \A d \in Connection : receiver'[d].at # "next" => receiver[d].at # "next" /\ receiver'[d].msg = receiver[d].msg
    BY <1>g
  <1>3. Came'
    <2>1. ASSUME NEW d \in Connection, receiver'[d].at = "catalog"
          PROVE  Message[receiver'[d].msg].type = "sensor"
      BY <2>1, <1>g DEF Came
    <2> QED BY <2>1, <1>2 DEF Came
  <1>4. Ascending' /\ RecordedFirst'
    BY DEF Ascending, RecordedFirst, Id
  <1>5. InHandLast'
    BY <1>2 DEF InHandLast, Id
  <1> QED BY <1>1, <1>3, <1>4, <1>5

LEMMA MessagesStore ==
    ASSUME MessagesInv, NEW c \in Connection, StoreMessage(c)
    PROVE  MessagesInv'
  <1> USE DEF MessagesInv
  <1> DEFINE m0 == receiver[c].msg
  <1>0. /\ receiver[c].at = "store"
        /\ Put(Id(m0), m0) \/ PutFails(Id(m0))
        /\ Go(c, m0, "store")
        /\ UNCHANGED <<published, queue, recorded, sensors, late>>
    BY DEF StoreMessage, Id
  <1>h. /\ m0 \in Sent
        /\ m0 \in Nat
        /\ Id(m0) \in Ids
        /\ \A m \in recorded : Id(m) = Id(m0) /\ Id(m) \notin late => m <= m0
    BY <1>0, MessageInHand
  <1>g. /\ \A d \in Connection : d # c => receiver'[d] = receiver[d]
        /\ receiver'[c].at # "next" => receiver'[c].msg = m0
        /\ Message[m0].type = "sensor" => receiver'[c].at = "catalog"
    BY <1>0, <1>h, GoesOn
  <1>1. metadata' \in [Ids -> Nat] /\ sensors' \in [Ids -> Nat]
    BY <1>0, <1>h DEF Put, PutFails, MessagesTypeOK
  <1>2. /\ unwritten \subseteq unwritten'
        /\ \A i \in Ids : i # Id(m0) => metadata'[i] = metadata[i]
        /\ Id(m0) \notin unwritten' => metadata'[Id(m0)] = m0
    BY <1>0, <1>h DEF Put, PutFails, MessagesTypeOK
  <1>3. OnTheWay'
    <2> SUFFICES ASSUME NEW m \in recorded, Message[m].type = "sensor", Id(m) \notin late \cup unwritten'
                 PROVE  /\ metadata'[Id(m)] >= m \/ ToStore(m)'
                        /\ sensors[Id(m)] >= m \/ ToCatalog(m)'
      BY <1>0 DEF OnTheWay, Id
    <2>0. m \in Nat /\ Id(m) \in Ids
      BY MessageFacts DEF MessagesTypeOK
    <2>1. /\ metadata[Id(m)] >= m \/ ToStore(m)
          /\ sensors[Id(m)] >= m \/ ToCatalog(m)
      BY <1>2 DEF OnTheWay
    <2>2. ToCatalog(m) => ToCatalog(m)'
      <3> SUFFICES ASSUME NEW d \in Connection, receiver[d].at \in {"store", "catalog"},
                          Message[receiver[d].msg].type = "sensor", Id(receiver[d].msg) = Id(m), receiver[d].msg >= m
                   PROVE  ToCatalog(m)'
        BY DEF ToCatalog
      <3>1. receiver'[d].at \in {"store", "catalog"} /\ receiver'[d].msg = receiver[d].msg
        <4>1. CASE d = c
          BY <4>1, <1>g
        <4>2. CASE d # c
          BY <4>2, <1>g
        <4> QED BY <4>1, <4>2
      <3> QED BY <3>1 DEF ToCatalog, Id
    <2>3. CASE Id(m) = Id(m0)
      BY <2>0, <2>1, <2>2, <2>3, <1>2, <1>h
    <2>4. CASE Id(m) # Id(m0)
      <3>1. metadata'[Id(m)] = metadata[Id(m)]
        BY <2>0, <2>4, <1>2
      <3>2. ToStore(m) => ToStore(m)'
        BY <2>4, <1>g DEF ToStore, Id
      <3> QED BY <2>1, <2>2, <3>1, <3>2
    <2> QED BY <2>3, <2>4
  <1> QED BY <1>0, <1>1, <1>3, MessagesWrite

LEMMA MessagesCatalog ==
    ASSUME MessagesInv, NEW c \in Connection, Catalog(c)
    PROVE  MessagesInv'
  <1> USE DEF MessagesInv
  <1> DEFINE m0 == receiver[c].msg
  <1>0. /\ receiver[c].at = "catalog"
        /\ \/ sensors' = [sensors EXCEPT ![Id(m0)] = m0] /\ UNCHANGED unwritten
           \/ unwritten' = unwritten \cup {Id(m0)} /\ UNCHANGED sensors
        /\ Go(c, m0, "catalog")
        /\ UNCHANGED <<published, queue, recorded, metadata, late>>
    BY DEF Catalog, Id
  <1>h. /\ m0 \in Sent
        /\ m0 \in Nat
        /\ Id(m0) \in Ids
        /\ \A m \in recorded : Id(m) = Id(m0) /\ Id(m) \notin late => m <= m0
    BY <1>0, MessageInHand
  <1>g. /\ \A d \in Connection : d # c => receiver'[d] = receiver[d]
        /\ receiver'[c].at # "next" => receiver'[c].msg = m0
    BY <1>0, <1>h, GoesOn
  <1>1. metadata' \in [Ids -> Nat] /\ sensors' \in [Ids -> Nat]
    BY <1>0, <1>h DEF MessagesTypeOK
  <1>2. /\ unwritten \subseteq unwritten'
        /\ \A i \in Ids : i # Id(m0) => sensors'[i] = sensors[i]
        /\ Id(m0) \notin unwritten' => sensors'[Id(m0)] = m0
    BY <1>0, <1>h DEF MessagesTypeOK
  <1>3. OnTheWay'
    <2> SUFFICES ASSUME NEW m \in recorded, Message[m].type = "sensor", Id(m) \notin late \cup unwritten'
                 PROVE  /\ metadata[Id(m)] >= m \/ ToStore(m)'
                        /\ sensors'[Id(m)] >= m \/ ToCatalog(m)'
      BY <1>0 DEF OnTheWay, Id
    <2>0. m \in Nat /\ Id(m) \in Ids
      BY MessageFacts DEF MessagesTypeOK
    <2>1. /\ metadata[Id(m)] >= m \/ ToStore(m)
          /\ sensors[Id(m)] >= m \/ ToCatalog(m)
      BY <1>2 DEF OnTheWay
    <2>2. ToStore(m) => ToStore(m)'
      BY <1>0, <1>g DEF ToStore, Id
    <2>3. CASE Id(m) = Id(m0)
      BY <2>0, <2>1, <2>2, <2>3, <1>2, <1>h
    <2>4. CASE Id(m) # Id(m0)
      <3>1. sensors'[Id(m)] = sensors[Id(m)]
        BY <2>0, <2>4, <1>2
      <3>2. ToCatalog(m) => ToCatalog(m)'
        BY <2>4, <1>g DEF ToCatalog, Id
      <3> QED BY <2>1, <2>2, <3>1, <3>2
    <2> QED BY <2>3, <2>4
  <1> QED BY <1>0, <1>1, <1>3, MessagesWrite

LEMMA MessagesStep == MessagesInv /\ [EmsNext]_emsVars => MessagesInv'
  <1> SUFFICES ASSUME MessagesInv, [EmsNext]_emsVars PROVE MessagesInv'
    OBVIOUS
  <1>1. CASE Connecting
    BY <1>1, MessagesRest DEF Connecting, messageVars
  <1>2. CASE Publish
    BY <1>2, MessagesPublish
  <1>3. ASSUME NEW c \in Connection, Handle(c)
        PROVE  MessagesInv'
    BY <1>3, MessagesReceive, MessagesStore, MessagesCatalog DEF Handle
  <1>4. CASE UNCHANGED emsVars
    BY <1>4, MessagesRest DEF emsVars, messageVars
  <1> QED BY <1>1, <1>2, <1>3, <1>4 DEF EmsNext

LEMMA MessagesInvariant == EmsSpec => []MessagesInv
  BY MessagesInit, MessagesStep, PTL DEF EmsSpec

(***************************************************************************)
(* SensorsUpToDate (handleEMSMessageFull): when nothing waits, the store   *)
(* and the catalog have the newest reading of every sensor, whatever the   *)
(* number of messages and connections.                                     *)
(***************************************************************************)
THEOREM NothingStale == EmsSpec => []SensorsUpToDate
  <1>1. MessagesInv => SensorsUpToDate
    <2> SUFFICES ASSUME MessagesInv, \A c \in Connection : queue[c] = <<>> /\ receiver[c] = Waiting,
                        NEW m \in recorded, Message[m].type = "sensor", Id(m) \notin late \cup unwritten
                 PROVE  metadata[Id(m)] >= m /\ sensors[Id(m)] >= m
      BY DEF SensorsUpToDate, Id
    <2>1. \A c \in Connection : receiver[c].at = "next"
      BY DEF Waiting
    <2>2. ~ ToStore(m) /\ ~ ToCatalog(m)
      BY <2>1 DEF ToStore, ToCatalog
    <2> QED BY <2>2 DEF MessagesInv, OnTheWay
  <1> QED BY <1>1, MessagesInvariant, PTL

-----------------------------------------------------------------------------
(* The commands of a node.                                                 *)

(***************************************************************************)
(* The types of what the goroutines of a node share.                       *)
(***************************************************************************)
Steps == {"idle", "sent", "started", "locking", "adding", "emitting", "emitted", "answered"}
(***************************************************************************)
(* Where a command is that has the mutex of the contributions.             *)
(***************************************************************************)
Held == {"adding", "emitting", "emitted"}

ServiceTypeOK ==
    /\ reqChan \in Seq(Command)
    /\ taken \in Command \cup {NoCommand}
    /\ step \in [Command -> Steps]
    /\ answer \in [Command -> {"none", "ok", "error"}]
    /\ contributionsMtx \in Command \cup {"free", "lost"}
    /\ validationsMtx \in {"free", "lost"}
    /\ events \in Seq(Command)
    /\ watcher \in [at : {"polling", "next", "reading", "locking"}, file : Command \cup {NoCommand}]

(***************************************************************************)
(* A command that was given waits in the channel, once, or for a slot.     *)
(***************************************************************************)
GivenWaits ==
    /\ \A i \in 1 .. Len(reqChan) : step[reqChan[i]] = "sent" /\ reqChan[i] # taken
    /\ \A i, j \in 1 .. Len(reqChan) : reqChan[i] = reqChan[j] => i = j
    /\ taken # NoCommand => step[taken] = "sent"
    /\ \A c \in Command : step[c] = "sent" => c = taken \/ \E i \in 1 .. Len(reqChan) : reqChan[i] = c

(***************************************************************************)
(* Whoever appends to the log has its mutex, and the other way round.      *)
(***************************************************************************)
HolderAppends ==
    /\ contributionsMtx \in Command => step[contributionsMtx] \in Held
    /\ \A c \in Command : step[c] \in Held => contributionsMtx = c
    /\ \A c \in Command : step[c] \in Held \cup {"locking"} => Kind[c] = "post"

(***************************************************************************)
(* No more commands are handled at a time than there are slots.            *)
(***************************************************************************)
SlotsKept == Cardinality(Running) <= MaxConcurrency

(***************************************************************************)
(* Without a subscription no events wait, and never more than fit.         *)
(***************************************************************************)
EventsWait ==
    /\ ~Subscribed => events = <<>>
    /\ Len(events) <= BusSize

(***************************************************************************)
(* A file that was appended is waiting for awaitWriteEvent, or in its      *)
(* hands, or validated, or missed; or the mutex of the validations is lost.*)
(***************************************************************************)
Followed(c) ==
    \/ c \in validations \cup missed
    \/ \E i \in 1 .. Len(events) : events[i] = c
    \/ watcher.at \in {"reading", "locking"} /\ watcher.file = c
    \/ validationsMtx = "lost"

FilesFollowed ==
    \A c \in Command :
        Kind[c] = "post" /\ (answer[c] = "ok" \/ step[c] = "emitted") => Followed(c)

(***************************************************************************)
(* What holds of the service, whatever commands come and whatever fails.   *)
(***************************************************************************)
ServiceInv ==
    ServiceTypeOK /\ GivenWaits /\ HolderAppends /\ SlotsKept /\ EventsWait /\ FilesFollowed

LEMMA ServiceConstants ==
    /\ IsFiniteSet(Command) /\ NoCommand \notin Command /\ "free" \notin Command /\ "lost" \notin Command
    /\ MaxConcurrency \in Nat \ {0} /\ BusSize \in Nat \ {0}
  BY ServiceAssumption

LEMMA RunningFacts ==
    /\ Running \in SUBSET Command /\ IsFiniteSet(Running)
    /\ Cardinality(Running) \in Nat
  BY ServiceConstants, FS_Subset, FS_CardinalityType DEF Running

LEMMA ServiceInitially == ServiceInit => ServiceInv
  <1> SUFFICES ASSUME ServiceInit PROVE ServiceInv
    OBVIOUS
  <1>1. Running = {}
    BY DEF ServiceInit, Running
  <1>2. SlotsKept
    BY <1>1, FS_EmptySet, ServiceConstants DEF SlotsKept
  <1>3. ServiceTypeOK
    BY DEF ServiceInit, ServiceTypeOK, Steps, Polling
  <1>4. GivenWaits
    BY DEF ServiceInit, GivenWaits
  <1>5. HolderAppends
    BY ServiceConstants DEF ServiceInit, HolderAppends, Held
  <1>6. EventsWait
    BY ServiceConstants DEF ServiceInit, EventsWait
  <1>7. FilesFollowed
    BY DEF ServiceInit, FilesFollowed
  <1> QED BY <1>2, <1>3, <1>4, <1>5, <1>6, <1>7 DEF ServiceInv

(***************************************************************************)
(* No more commands have slots than before.                                *)
(***************************************************************************)
LEMMA NoMoreSlots ==
    ASSUME SlotsKept, Running' \subseteq Running
    PROVE  SlotsKept'
  <1>1. Cardinality(Running') <= Cardinality(Running) /\ Cardinality(Running') \in Nat
    BY RunningFacts, FS_Subset, FS_CardinalityType
  <1> QED BY <1>1, RunningFacts, ServiceConstants DEF SlotsKept

(***************************************************************************)
(* A step that leaves the files alone, and answers no post with "ok".      *)
(***************************************************************************)
filesVars == <<validations, missed, events, watcher, validationsMtx>>

LEMMA FilesRest ==
    ASSUME ServiceInv, UNCHANGED filesVars,
           \A c \in Command : Kind[c] = "post" /\ (answer'[c] = "ok" \/ step'[c] = "emitted")
                              => answer[c] = "ok" \/ step[c] = "emitted"
    PROVE  FilesFollowed' /\ EventsWait'
  BY DEF ServiceInv, FilesFollowed, Followed, EventsWait, Subscribed, filesVars

(***************************************************************************)
(* c, which runs, moves on; the channel is not touched.                    *)
(***************************************************************************)
LEMMA OneMoves ==
    ASSUME ServiceInv, NEW c \in Running, NEW s \in Steps \ {"idle", "sent"},
           step' = [step EXCEPT ![c] = s], UNCHANGED channelVars
    PROVE  /\ step' \in [Command -> Steps]
           /\ reqChan' \in Seq(Command) /\ taken' \in Command \cup {NoCommand}
           /\ GivenWaits' /\ SlotsKept'
  <1>1. c \in Command /\ step[c] \notin {"idle", "sent", "answered"}
    BY DEF Running
  <1>2. step' \in [Command -> Steps]
    BY <1>1 DEF ServiceInv, ServiceTypeOK
  <1>3. \A d \in Command : d # c => step'[d] = step[d]
    BY DEF ServiceInv, ServiceTypeOK
  <1>4. step'[c] = s
    BY <1>1 DEF ServiceInv, ServiceTypeOK
  <1>5. Running' \subseteq Running
    BY <1>3 DEF Running
  <1>6. reqChan' = reqChan /\ taken' = taken
    BY DEF channelVars
  <1>7. \A i \in 1 .. Len(reqChan) : reqChan[i] \in Command
    BY DEF ServiceInv, ServiceTypeOK
  <1>8. GivenWaits'
    <2>1. \A i \in 1 .. Len(reqChan) : reqChan[i] # c
      BY <1>1 DEF ServiceInv, GivenWaits
    <2>2. taken # NoCommand => taken # c /\ taken \in Command
      BY <1>1 DEF ServiceInv, GivenWaits, ServiceTypeOK
    <2>3. \A d \in Command : step'[d] = "sent" => step[d] = "sent"
      BY <1>3, <1>4
    <2> QED BY <2>1, <2>2, <2>3, <1>3, <1>6, <1>7 DEF ServiceInv, GivenWaits
  <1> QED BY <1>2, <1>5, <1>6, <1>8, NoMoreSlots DEF ServiceInv, ServiceTypeOK

LEMMA ServiceSend ==
    ASSUME ServiceInv, NEW c \in Command, Send(c)
    PROVE  ServiceInv'
  <1>1. /\ step[c] = "idle" /\ reqChan' = Append(reqChan, c) /\ step' = [step EXCEPT ![c] = "sent"]
        /\ UNCHANGED <<taken, answer, contributionsMtx, watcherVars, nodeVars, events, missed>>
    BY DEF Send
  <1>2. step \in [Command -> Steps] /\ reqChan \in Seq(Command)
    BY DEF ServiceInv, ServiceTypeOK
  <1>3. step' \in [Command -> Steps] /\ step'[c] = "sent" /\ \A d \in Command : d # c => step'[d] = step[d]
    BY <1>1, <1>2 DEF Steps
  <1>4. /\ reqChan' \in Seq(Command) /\ Len(reqChan') = Len(reqChan) + 1 /\ Len(reqChan) \in Nat
        /\ \A i \in 1 .. Len(reqChan) : reqChan'[i] = reqChan[i] /\ reqChan[i] \in Command /\ reqChan[i] # c
        /\ reqChan'[Len(reqChan) + 1] = c
    BY <1>1, <1>2 DEF ServiceInv, GivenWaits
  <1>5. ServiceTypeOK'
    BY <1>1, <1>3, <1>4 DEF ServiceInv, ServiceTypeOK, watcherVars
  <1>6. GivenWaits'
    <2>1. taken' = taken /\ taken # c /\ (taken # NoCommand => taken \in Command)
      <3>1. taken' = taken /\ (taken # NoCommand => taken \in Command)
        BY <1>1 DEF ServiceInv, ServiceTypeOK
      <3>2. CASE taken = NoCommand
        BY <3>1, <3>2, ServiceConstants
      <3>3. CASE taken # NoCommand
        <4>1. step[taken] = "sent"
          BY <3>3 DEF ServiceInv, GivenWaits
        <4> QED BY <4>1, <1>1, <3>1, <3>3
      <3> QED BY <3>2, <3>3
    <2>2. \A i \in 1 .. Len(reqChan') : i \in 1 .. Len(reqChan) \/ i = Len(reqChan) + 1
      BY <1>4
    <2>3. \A i \in 1 .. Len(reqChan') : step'[reqChan'[i]] = "sent" /\ reqChan'[i] # taken'
      BY <2>1, <2>2, <1>3, <1>4 DEF ServiceInv, GivenWaits
    <2>4. \A i, j \in 1 .. Len(reqChan') : reqChan'[i] = reqChan'[j] => i = j
      BY <2>2, <1>4 DEF ServiceInv, GivenWaits
    <2>5. taken' # NoCommand => step'[taken'] = "sent"
      BY <2>1, <1>3 DEF ServiceInv, GivenWaits
    <2>6. ASSUME NEW d \in Command, step'[d] = "sent"
          PROVE  d = taken' \/ \E i \in 1 .. Len(reqChan') : reqChan'[i] = d
      <3>1. CASE d = c
        <4>1. Len(reqChan) + 1 \in 1 .. Len(reqChan')
          BY <1>4
        <4> QED BY <4>1, <3>1, <1>4
      <3>2. CASE d # c
        <4>1. d = taken \/ \E i \in 1 .. Len(reqChan) : reqChan[i] = d
          BY <2>6, <3>2, <1>3 DEF ServiceInv, GivenWaits
        <4>2. \A i \in 1 .. Len(reqChan) : i \in 1 .. Len(reqChan')
          BY <1>4
        <4> QED BY <4>1, <4>2, <2>1, <1>4
      <3> QED BY <3>1, <3>2
    <2> QED BY <2>3, <2>4, <2>5, <2>6 DEF GivenWaits
  <1>7. HolderAppends'
    BY <1>1, <1>2, <1>3 DEF ServiceInv, HolderAppends, Held
  <1>8. SlotsKept'
    <2>1. Running' \subseteq Running
      BY <1>3 DEF Running
    <2> QED BY <2>1, NoMoreSlots DEF ServiceInv
  <1>9. FilesFollowed' /\ EventsWait'
    <2>1. UNCHANGED filesVars /\ answer' = answer
      BY <1>1 DEF filesVars, watcherVars
    <2>2. \A d \in Command : step'[d] = "emitted" => step[d] = "emitted"
      BY <1>3
    <2> QED BY <2>1, <2>2, FilesRest
  <1> QED BY <1>5, <1>6, <1>7, <1>8, <1>9 DEF ServiceInv

LEMMA ServiceTake ==
    ASSUME ServiceInv, TakeRequest
    PROVE  ServiceInv'
  <1>1. /\ taken = NoCommand /\ reqChan # <<>> /\ taken' = Head(reqChan) /\ reqChan' = Tail(reqChan)
        /\ UNCHANGED <<commandVars, watcherVars, nodeVars, events, missed>>
    BY DEF TakeRequest
  <1>2. reqChan \in Seq(Command)
    BY DEF ServiceInv, ServiceTypeOK
  <1>3. /\ reqChan' \in Seq(Command) /\ Len(reqChan') = Len(reqChan) - 1 /\ Len(reqChan) \in Nat \ {0}
        /\ \A i \in 1 .. Len(reqChan') : reqChan'[i] = reqChan[i + 1]
        /\ taken' = reqChan[1]
    BY <1>1, <1>2
  <1>4. /\ \A i \in 1 .. Len(reqChan') : i + 1 \in 1 .. Len(reqChan) /\ i + 1 # 1
        /\ \A i \in 1 .. Len(reqChan) : i = 1 \/ (i - 1 \in 1 .. Len(reqChan') /\ (i - 1) + 1 = i)
        /\ 1 \in 1 .. Len(reqChan)
        /\ \A i, j \in 1 .. Len(reqChan') : i + 1 = j + 1 => i = j
    BY <1>3
  <1>5. taken' \in Command
    BY <1>2, <1>3, <1>4
  <1>6. ServiceTypeOK'
    BY <1>1, <1>3, <1>5 DEF ServiceInv, ServiceTypeOK, commandVars, watcherVars
  <1>7. GivenWaits'
    <2>0. step' = step /\ taken' # NoCommand
      BY <1>1, <1>5, ServiceConstants DEF commandVars
    <2>1. ASSUME NEW i \in 1 .. Len(reqChan')
          PROVE  step'[reqChan'[i]] = "sent" /\ reqChan'[i] # taken'
      <3>1. i + 1 \in 1 .. Len(reqChan) /\ i + 1 # 1 /\ 1 \in 1 .. Len(reqChan)
        BY <1>4
      <3>2. step[reqChan[i + 1]] = "sent" /\ reqChan[i + 1] # reqChan[1]
        BY <3>1 DEF ServiceInv, GivenWaits
      <3> QED BY <3>2, <2>0, <1>3
    <2>2. \A i, j \in 1 .. Len(reqChan') : reqChan'[i] = reqChan'[j] => i = j
      BY <1>3, <1>4 DEF ServiceInv, GivenWaits
    <2>3. step'[taken'] = "sent"
      BY <2>0, <1>3, <1>4 DEF ServiceInv, GivenWaits
    <2>4. ASSUME NEW d \in Command, step'[d] = "sent"
          PROVE  d = taken' \/ \E i \in 1 .. Len(reqChan') : reqChan'[i] = d
      <3>1. PICK i \in 1 .. Len(reqChan) : reqChan[i] = d
        BY <2>0, <2>4, <1>1, ServiceConstants DEF ServiceInv, GivenWaits
      <3>2. CASE i = 1
        BY <3>1, <3>2, <1>3
      <3>3. CASE i # 1
        <4>1. i - 1 \in 1 .. Len(reqChan') /\ (i - 1) + 1 = i
          BY <3>3, <1>4
        <4>2. reqChan'[i - 1] = reqChan[(i - 1) + 1]
          BY <4>1, <1>3
        <4>3. reqChan'[i - 1] = d
          BY <4>1, <4>2, <3>1
        <4> QED BY <4>1, <4>3
      <3> QED BY <3>2, <3>3
    <2> QED BY <2>1, <2>2, <2>3, <2>4 DEF GivenWaits
  <1>8. HolderAppends'
    BY <1>1 DEF ServiceInv, HolderAppends, commandVars
  <1>9. SlotsKept'
    BY <1>1 DEF ServiceInv, SlotsKept, Running, commandVars
  <1>10. FilesFollowed' /\ EventsWait'
    BY <1>1, FilesRest DEF filesVars, watcherVars, commandVars
  <1> QED BY <1>6, <1>7, <1>8, <1>9, <1>10 DEF ServiceInv

LEMMA ServiceStart ==
    ASSUME ServiceInv, Start
    PROVE  ServiceInv'
  <1>1. /\ taken # NoCommand /\ Cardinality(Running) < MaxConcurrency
        /\ step' = [step EXCEPT ![taken] = "started"] /\ taken' = NoCommand
        /\ UNCHANGED <<reqChan, answer, contributionsMtx, watcherVars, nodeVars, events, missed>>
    BY DEF Start
  <1>2. step \in [Command -> Steps] /\ reqChan \in Seq(Command) /\ taken \in Command /\ step[taken] = "sent"
    BY <1>1 DEF ServiceInv, ServiceTypeOK, GivenWaits
  <1>3. /\ step' \in [Command -> Steps] /\ step'[taken] = "started"
        /\ \A d \in Command : d # taken => step'[d] = step[d]
    BY <1>1, <1>2 DEF Steps
  <1>4. ServiceTypeOK'
    BY <1>1, <1>3 DEF ServiceInv, ServiceTypeOK, watcherVars
  <1>5. GivenWaits'
    <2>1. \A i \in 1 .. Len(reqChan) : reqChan[i] \in Command /\ reqChan[i] # NoCommand
      BY <1>2, ServiceConstants
    <2>2. \A d \in Command : step'[d] = "sent" => d # taken /\ step[d] = "sent"
      BY <1>3
    <2> QED BY <2>1, <2>2, <1>1, <1>3 DEF ServiceInv, GivenWaits
  <1>6. HolderAppends'
    BY <1>1, <1>2, <1>3 DEF ServiceInv, HolderAppends, Held
  <1>7. SlotsKept'
    <2>1. Running' \subseteq Running \cup {taken} /\ IsFiniteSet(Running \cup {taken})
      BY <1>3, RunningFacts, FS_AddElement DEF Running
    <2>2. /\ Cardinality(Running') <= Cardinality(Running \cup {taken})
          /\ Cardinality(Running') \in Nat
      BY <2>1, FS_Subset, FS_CardinalityType
    <2>3. Cardinality(Running \cup {taken}) <= Cardinality(Running) + 1 /\ Cardinality(Running \cup {taken}) \in Nat
      BY <2>1, RunningFacts, FS_AddElement, FS_CardinalityType
    <2> QED BY <2>2, <2>3, <1>1, RunningFacts, ServiceConstants DEF SlotsKept
  <1>8. FilesFollowed' /\ EventsWait'
    <2>1. UNCHANGED filesVars /\ answer' = answer
      BY <1>1 DEF filesVars, watcherVars
    <2>2. \A d \in Command : step'[d] = "emitted" => step[d] = "emitted"
      BY <1>3
    <2> QED BY <2>1, <2>2, FilesRest
  <1> QED BY <1>4, <1>5, <1>6, <1>7, <1>8 DEF ServiceInv

LEMMA DeliverFacts ==
    ASSUME ServiceInv, NEW c \in Running, NEW a \in {"ok", "error"}, Deliver(c, a)
    PROVE  /\ step' = [step EXCEPT ![c] = "answered"] /\ "answered" \in Steps \ {"idle", "sent"}
           /\ step'[c] = "answered" /\ \A d \in Command : d # c => step'[d] = step[d]
           /\ answer' \in [Command -> {"none", "ok", "error"}]
           /\ answer'[c] = a /\ \A d \in Command : d # c => answer'[d] = answer[d]
  BY DEF ServiceInv, ServiceTypeOK, Deliver, Running, Steps

LEMMA ServiceAnswer ==
    ASSUME ServiceInv, NEW c \in Command, Answer(c)
    PROVE  ServiceInv'
  <1>1. /\ step[c] = "started" /\ Kind[c] # "post"
        /\ UNCHANGED <<channelVars, contributionsMtx, watcherVars, nodeVars, events, missed>>
    BY DEF Answer
  <1>2. PICK a \in {"ok", "error"} : Deliver(c, a)
    BY DEF Answer
  <1>3. c \in Running
    BY <1>1 DEF Running
  <1>4. /\ step' = [step EXCEPT ![c] = "answered"] /\ "answered" \in Steps \ {"idle", "sent"}
        /\ step'[c] = "answered" /\ \A d \in Command : d # c => step'[d] = step[d]
        /\ answer' \in [Command -> {"none", "ok", "error"}]
        /\ \A d \in Command : d # c => answer'[d] = answer[d]
    BY <1>2, <1>3, DeliverFacts
  <1>5. /\ step' \in [Command -> Steps]
        /\ reqChan' \in Seq(Command) /\ taken' \in Command \cup {NoCommand}
        /\ GivenWaits' /\ SlotsKept'
    BY <1>1, <1>3, <1>4, OneMoves
  <1>6. ServiceTypeOK'
    BY <1>1, <1>4, <1>5 DEF ServiceInv, ServiceTypeOK, watcherVars
  <1>7. HolderAppends'
    BY <1>1, <1>4 DEF ServiceInv, HolderAppends, Held
  <1>8. FilesFollowed' /\ EventsWait'
    BY <1>1, <1>4, FilesRest DEF filesVars, watcherVars
  <1> QED BY <1>5, <1>6, <1>7, <1>8 DEF ServiceInv

LEMMA ServiceAddFile ==
    ASSUME ServiceInv, NEW c \in Command, AddFile(c)
    PROVE  ServiceInv'
  <1>1. /\ step[c] = "started" /\ Kind[c] = "post"
        /\ UNCHANGED <<channelVars, contributionsMtx, watcherVars, nodeVars, events, missed>>
    BY DEF AddFile
  <1>2. c \in Running
    BY <1>1 DEF Running
  <1>3. PICK s \in {"locking", "answered"} :
            /\ step' = [step EXCEPT ![c] = s] /\ s \in Steps \ {"idle", "sent"}
            /\ step'[c] = s /\ \A d \in Command : d # c => step'[d] = step[d]
            /\ answer' \in [Command -> {"none", "ok", "error"}]
            /\ \A d \in Command : answer'[d] = "ok" => answer[d] = "ok"
    <2>1. CASE step' = [step EXCEPT ![c] = "locking"] /\ UNCHANGED answer
      BY <2>1 DEF ServiceInv, ServiceTypeOK, Steps
    <2>2. CASE Deliver(c, "error")
      <3>1. /\ step' = [step EXCEPT ![c] = "answered"] /\ "answered" \in Steps \ {"idle", "sent"}
            /\ step'[c] = "answered" /\ \A d \in Command : d # c => step'[d] = step[d]
            /\ answer' \in [Command -> {"none", "ok", "error"}]
            /\ answer'[c] = "error" /\ \A d \in Command : d # c => answer'[d] = answer[d]
        BY <2>2, <1>2, DeliverFacts
      <3> QED BY <3>1
    <2> QED BY <2>1, <2>2 DEF AddFile
  <1>4. /\ step' \in [Command -> Steps]
        /\ reqChan' \in Seq(Command) /\ taken' \in Command \cup {NoCommand}
        /\ GivenWaits' /\ SlotsKept'
    BY <1>1, <1>2, <1>3, OneMoves
  <1>5. ServiceTypeOK'
    BY <1>1, <1>3, <1>4 DEF ServiceInv, ServiceTypeOK, watcherVars
  <1>6. HolderAppends'
    BY <1>1, <1>3 DEF ServiceInv, HolderAppends, Held
  <1>7. FilesFollowed' /\ EventsWait'
    BY <1>1, <1>3, FilesRest DEF filesVars, watcherVars
  <1> QED BY <1>4, <1>5, <1>6, <1>7 DEF ServiceInv

LEMMA ServiceLock ==
    ASSUME ServiceInv, NEW c \in Command, LockContributions(c)
    PROVE  ServiceInv'
  <1>1. /\ step[c] = "locking" /\ contributionsMtx = "free" /\ contributionsMtx' = c
        /\ step' = [step EXCEPT ![c] = "adding"]
        /\ UNCHANGED <<channelVars, answer, watcherVars, nodeVars, events, missed>>
    BY DEF LockContributions
  <1>2. c \in Running /\ "adding" \in Steps \ {"idle", "sent"}
    BY <1>1 DEF Running, Steps
  <1>3. step'[c] = "adding" /\ \A d \in Command : d # c => step'[d] = step[d]
    BY <1>1 DEF ServiceInv, ServiceTypeOK
  <1>4. /\ step' \in [Command -> Steps]
        /\ reqChan' \in Seq(Command) /\ taken' \in Command \cup {NoCommand}
        /\ GivenWaits' /\ SlotsKept'
    BY <1>1, <1>2, OneMoves
  <1>5. ServiceTypeOK'
    BY <1>1, <1>4 DEF ServiceInv, ServiceTypeOK, watcherVars
  <1>6. HolderAppends'
    BY <1>1, <1>3, ServiceConstants DEF ServiceInv, HolderAppends, Held
  <1>7. FilesFollowed' /\ EventsWait'
    BY <1>1, <1>3, FilesRest DEF filesVars, watcherVars
  <1> QED BY <1>4, <1>5, <1>6, <1>7 DEF ServiceInv

LEMMA ServiceAddFails ==
    ASSUME ServiceInv, NEW c \in Command, AddFails(c)
    PROVE  ServiceInv'
  <1>1. /\ step[c] = "adding" /\ Deliver(c, "error") /\ contributionsMtx' = "lost"
        /\ UNCHANGED <<channelVars, watcherVars, nodeVars, events, missed>>
    BY DEF AddFails
  <1>2. c \in Running
    BY <1>1 DEF Running
  <1>3. /\ step' = [step EXCEPT ![c] = "answered"] /\ "answered" \in Steps \ {"idle", "sent"}
        /\ step'[c] = "answered" /\ \A d \in Command : d # c => step'[d] = step[d]
        /\ answer' \in [Command -> {"none", "ok", "error"}]
        /\ answer'[c] = "error" /\ \A d \in Command : d # c => answer'[d] = answer[d]
    BY <1>1, <1>2, DeliverFacts
  <1>4. /\ step' \in [Command -> Steps]
        /\ reqChan' \in Seq(Command) /\ taken' \in Command \cup {NoCommand}
        /\ GivenWaits' /\ SlotsKept'
    BY <1>1, <1>2, <1>3, OneMoves
  <1>5. ServiceTypeOK'
    BY <1>1, <1>3, <1>4 DEF ServiceInv, ServiceTypeOK, watcherVars
  <1>6. HolderAppends'
    <2>1. contributionsMtx = c
      BY <1>1 DEF ServiceInv, HolderAppends, Held
    <2> QED BY <2>1, <1>1, <1>3, ServiceConstants DEF ServiceInv, HolderAppends, Held
  <1>7. FilesFollowed' /\ EventsWait'
    BY <1>1, <1>3, FilesRest DEF filesVars, watcherVars
  <1> QED BY <1>4, <1>5, <1>6, <1>7 DEF ServiceInv

LEMMA ServiceAppended ==
    ASSUME ServiceInv, NEW c \in Command, Appended(c)
    PROVE  ServiceInv'
  <1>1. /\ step[c] = "adding" /\ step' = [step EXCEPT ![c] = "emitting"]
        /\ UNCHANGED <<channelVars, answer, contributionsMtx, watcherVars, nodeVars, events, missed>>
    BY DEF Appended
  <1>2. c \in Running /\ "emitting" \in Steps \ {"idle", "sent"}
    BY <1>1 DEF Running, Steps
  <1>3. step'[c] = "emitting" /\ \A d \in Command : d # c => step'[d] = step[d]
    BY <1>1 DEF ServiceInv, ServiceTypeOK
  <1>4. /\ step' \in [Command -> Steps]
        /\ reqChan' \in Seq(Command) /\ taken' \in Command \cup {NoCommand}
        /\ GivenWaits' /\ SlotsKept'
    BY <1>1, <1>2, OneMoves
  <1>5. ServiceTypeOK'
    BY <1>1, <1>4 DEF ServiceInv, ServiceTypeOK, watcherVars
  <1>6. HolderAppends'
    BY <1>1, <1>3 DEF ServiceInv, HolderAppends, Held
  <1>7. FilesFollowed' /\ EventsWait'
    BY <1>1, <1>3, FilesRest DEF filesVars, watcherVars
  <1> QED BY <1>4, <1>5, <1>6, <1>7 DEF ServiceInv

LEMMA ServiceEmit ==
    ASSUME ServiceInv, NEW c \in Command, Emit(c)
    PROVE  ServiceInv'
  <1>1. /\ step[c] = "emitting" /\ EmitWrite(c) /\ step' = [step EXCEPT ![c] = "emitted"]
        /\ UNCHANGED <<channelVars, answer, contributionsMtx, watcherVars, nodeVars>>
    BY DEF Emit
  <1>2. c \in Running /\ "emitted" \in Steps \ {"idle", "sent"}
    BY <1>1 DEF Running, Steps
  <1>3. step'[c] = "emitted" /\ \A d \in Command : d # c => step'[d] = step[d]
    BY <1>1 DEF ServiceInv, ServiceTypeOK
  <1>4. /\ step' \in [Command -> Steps]
        /\ reqChan' \in Seq(Command) /\ taken' \in Command \cup {NoCommand}
        /\ GivenWaits' /\ SlotsKept'
    BY <1>1, <1>2, OneMoves
  <1>5. events \in Seq(Command) /\ Len(events) \in Nat /\ BusSize \in Nat
    BY ServiceConstants DEF ServiceInv, ServiceTypeOK
  <1>6. /\ events' \in Seq(Command) /\ EventsWait'
        /\ \A d \in Command : Followed(d) => Followed(d)'
        /\ Followed(c)'
    <2>1. watcher' = watcher /\ validations' = validations /\ validationsMtx' = validationsMtx
      BY <1>1 DEF watcherVars
    <2>2. CASE Subscribed
      <3>1. Len(events) < BusSize /\ events' = Append(events, c) /\ missed' = missed
        BY <1>1, <2>2 DEF EmitWrite
      <3>2. /\ events' \in Seq(Command) /\ Len(events') = Len(events) + 1
            /\ \A i \in 1 .. Len(events) : i \in 1 .. Len(events') /\ events'[i] = events[i]
            /\ Len(events') \in 1 .. Len(events') /\ events'[Len(events')] = c
        BY <3>1, <1>5
      <3>3. EventsWait'
        BY <2>1, <2>2, <3>1, <3>2, <1>5 DEF EventsWait, Subscribed
      <3> QED BY <2>1, <3>1, <3>2, <3>3 DEF Followed
    <2>3. CASE ~Subscribed
      <3>1. missed' = missed \cup {c} /\ events' = events
        BY <1>1, <2>3 DEF EmitWrite
      <3> QED BY <2>1, <3>1, <1>5 DEF Followed, EventsWait, ServiceInv, Subscribed
    <2> QED BY <2>2, <2>3
  <1>7. ServiceTypeOK'
    BY <1>1, <1>4, <1>6 DEF ServiceInv, ServiceTypeOK, watcherVars
  <1>8. HolderAppends'
    BY <1>1, <1>3 DEF ServiceInv, HolderAppends, Held
  <1>9. FilesFollowed'
    BY <1>1, <1>3, <1>6 DEF ServiceInv, FilesFollowed
  <1> QED BY <1>4, <1>6, <1>7, <1>8, <1>9 DEF ServiceInv

LEMMA ServiceUnlock ==
    ASSUME ServiceInv, NEW c \in Command, Unlock(c)
    PROVE  ServiceInv'
  <1>1. /\ step[c] = "emitted" /\ Deliver(c, "ok") /\ contributionsMtx' = "free"
        /\ UNCHANGED <<channelVars, watcherVars, nodeVars, events, missed>>
    BY DEF Unlock
  <1>2. c \in Running
    BY <1>1 DEF Running
  <1>3. /\ step' = [step EXCEPT ![c] = "answered"] /\ "answered" \in Steps \ {"idle", "sent"}
        /\ step'[c] = "answered" /\ \A d \in Command : d # c => step'[d] = step[d]
        /\ answer' \in [Command -> {"none", "ok", "error"}]
        /\ answer'[c] = "ok" /\ \A d \in Command : d # c => answer'[d] = answer[d]
    BY <1>1, <1>2, DeliverFacts
  <1>4. /\ step' \in [Command -> Steps]
        /\ reqChan' \in Seq(Command) /\ taken' \in Command \cup {NoCommand}
        /\ GivenWaits' /\ SlotsKept'
    BY <1>1, <1>2, <1>3, OneMoves
  <1>5. ServiceTypeOK'
    BY <1>1, <1>3, <1>4 DEF ServiceInv, ServiceTypeOK, watcherVars
  <1>6. HolderAppends'
    <2>1. contributionsMtx = c
      BY <1>1 DEF ServiceInv, HolderAppends, Held
    <2> QED BY <2>1, <1>1, <1>3, ServiceConstants DEF ServiceInv, HolderAppends, Held
  <1>7. FilesFollowed' /\ EventsWait'
    BY <1>1, <1>3, FilesRest DEF filesVars, watcherVars
  <1> QED BY <1>4, <1>5, <1>6, <1>7 DEF ServiceInv

(***************************************************************************)
(* A step of awaitWriteEvent.                                              *)
(***************************************************************************)
LEMMA WatcherStep ==
    ASSUME ServiceInv, UNCHANGED <<channelVars, commandVars>>,
           watcher' \in [at : {"polling", "next", "reading", "locking"}, file : Command \cup {NoCommand}],
           events' \in Seq(Command), validationsMtx' \in {"free", "lost"},
           EventsWait', \A c \in Command : Followed(c) => Followed(c)'
    PROVE  ServiceInv'
  <1>1. ServiceTypeOK'
    BY DEF ServiceInv, ServiceTypeOK, channelVars, commandVars
  <1>2. GivenWaits' /\ HolderAppends' /\ SlotsKept'
    BY DEF ServiceInv, GivenWaits, HolderAppends, SlotsKept, Running, channelVars, commandVars
  <1>3. FilesFollowed'
    BY DEF ServiceInv, FilesFollowed, commandVars
  <1> QED BY <1>1, <1>2, <1>3 DEF ServiceInv

LEMMA ServiceAwaits ==
    ASSUME ServiceInv, AwaitWriteEvent
    PROVE  ServiceInv'
  <1>0. /\ watcher \in [at : {"polling", "next", "reading", "locking"}, file : Command \cup {NoCommand}]
        /\ events \in Seq(Command) /\ validationsMtx \in {"free", "lost"}
        /\ (watcher.at = "polling" => events = <<>>) /\ Len(events) <= BusSize
        /\ Len(events) \in Nat /\ BusSize \in Nat
    BY ServiceConstants DEF ServiceInv, ServiceTypeOK, EventsWait, Subscribed
  <1>1. CASE Subscribe
    <2>1. /\ watcher.at = "polling" /\ watcher' = [watcher EXCEPT !.at = "next"]
          /\ UNCHANGED <<channelVars, commandVars, validationsMtx, validations, events, missed>>
      BY <1>1 DEF Subscribe
    <2>2. EventsWait'
      BY <1>0, <2>1 DEF EventsWait, Subscribed
    <2>3. \A c \in Command : Followed(c) => Followed(c)'
      BY <1>0, <2>1 DEF Followed
    <2> QED BY <1>0, <2>1, <2>2, <2>3, WatcherStep
  <1>2. CASE NextEvent
    <2>1. /\ watcher.at = "next" /\ events # <<>> /\ events' = Tail(events)
          /\ watcher' = [at |-> "reading", file |-> Head(events)]
          /\ UNCHANGED <<channelVars, commandVars, validationsMtx, validations, nodeVars, missed>>
      BY <1>2 DEF NextEvent
    <2>2. /\ Head(events) = events[1] /\ events[1] \in Command
          /\ Tail(events) \in Seq(Command) /\ Len(Tail(events)) = Len(events) - 1
          /\ \A i \in 1 .. Len(Tail(events)) : Tail(events)[i] = events[i + 1]
          /\ \A i \in 1 .. Len(events) : i = 1 \/ (i - 1 \in 1 .. Len(Tail(events)) /\ (i - 1) + 1 = i)
      BY <1>0, <2>1
    <2>3. EventsWait'
      BY <1>0, <2>1, <2>2 DEF EventsWait, Subscribed
    <2>4. ASSUME NEW c \in Command, Followed(c) PROVE Followed(c)'
      <3>1. CASE \E i \in 1 .. Len(events) : events[i] = c
        <4>1. PICK i \in 1 .. Len(events) : events[i] = c
          BY <3>1
        <4>2. CASE i = 1
          BY <4>1, <4>2, <2>1, <2>2 DEF Followed
        <4>3. CASE i # 1
          <5>1. i - 1 \in 1 .. Len(events') /\ events'[i - 1] = c
            BY <4>1, <4>3, <2>1, <2>2
          <5> QED BY <5>1 DEF Followed
        <4> QED BY <4>2, <4>3
      <3>2. CASE ~ \E i \in 1 .. Len(events) : events[i] = c
        BY <3>2, <2>4, <2>1 DEF Followed
      <3> QED BY <3>1, <3>2
    <2>5. watcher' \in [at : {"polling", "next", "reading", "locking"}, file : Command \cup {NoCommand}]
      BY <2>1, <2>2
    <2>6. events' \in Seq(Command)
      BY <2>1, <2>2
    <2>7. UNCHANGED <<channelVars, commandVars>> /\ validationsMtx' \in {"free", "lost"}
      BY <1>0, <2>1
    <2> QED BY <2>3, <2>4, <2>5, <2>6, <2>7, WatcherStep
  <1>3. CASE ReadFile
    <2>1. /\ watcher.at = "reading"
          /\ \/ watcher' = [watcher EXCEPT !.at = "locking"] /\ UNCHANGED missed
             \/ watcher' = [watcher EXCEPT !.at = "next"] /\ missed' = missed \cup {watcher.file}
          /\ UNCHANGED <<channelVars, commandVars, validationsMtx, validations, nodeVars, events>>
      BY <1>3 DEF ReadFile
    <2>2. EventsWait'
      BY <1>0, <2>1 DEF EventsWait, Subscribed
    <2>3. \A c \in Command : Followed(c) => Followed(c)'
      BY <1>0, <2>1 DEF Followed
    <2>4. watcher' \in [at : {"polling", "next", "reading", "locking"}, file : Command \cup {NoCommand}]
      BY <1>0, <2>1
    <2> QED BY <1>0, <2>1, <2>2, <2>3, <2>4, WatcherStep
  <1>4. CASE Validate
    <2>1. /\ watcher.at = "locking" /\ watcher' = [watcher EXCEPT !.at = "next"]
          /\ \/ validations' = validations \cup {watcher.file} /\ UNCHANGED validationsMtx
             \/ validationsMtx' = "lost" /\ UNCHANGED validations
          /\ UNCHANGED <<channelVars, commandVars, nodeVars, events, missed>>
      BY <1>4 DEF Validate
    <2>2. EventsWait'
      BY <1>0, <2>1 DEF EventsWait, Subscribed
    <2>3. \A c \in Command : Followed(c) => Followed(c)'
      BY <1>0, <2>1 DEF Followed
    <2>4. watcher' \in [at : {"polling", "next", "reading", "locking"}, file : Command \cup {NoCommand}]
      BY <1>0, <2>1
    <2> QED BY <1>0, <2>1, <2>2, <2>3, <2>4, WatcherStep
  <1> QED BY <1>1, <1>2, <1>3, <1>4 DEF AwaitWriteEvent

LEMMA ServiceStep == ServiceInv /\ [ServiceNext]_serviceVars => ServiceInv'
  <1> SUFFICES ASSUME ServiceInv, [ServiceNext]_serviceVars PROVE ServiceInv'
    OBVIOUS
  <1>1. CASE UNCHANGED <<channelVars, commandVars, watcherVars, events, missed>>
    <2>1. EventsWait' /\ \A c \in Command : Followed(c) => Followed(c)'
      BY <1>1 DEF ServiceInv, EventsWait, Subscribed, Followed, watcherVars
    <2> QED BY <1>1, <2>1, WatcherStep DEF ServiceInv, ServiceTypeOK, watcherVars
  <1>2. CASE UNCHANGED serviceVars
    BY <1>1, <1>2 DEF serviceVars
  <1>3. CASE StoreExchange
    BY <1>1, <1>3 DEF StoreExchange
  <1>4. ASSUME NEW c \in Command, HandleRequest(c) PROVE ServiceInv'
    BY <1>4, ServiceAnswer, ServiceAddFile, ServiceLock, ServiceAddFails, ServiceAppended, ServiceEmit, ServiceUnlock
       DEF HandleRequest, Post
  <1> QED BY <1>2, <1>3, <1>4, ServiceSend, ServiceTake, ServiceStart, ServiceAwaits DEF ServiceNext, Proceed

LEMMA ServiceInvariant == ServiceSpec => []ServiceInv
  BY ServiceInitially, ServiceStep, PTL DEF ServiceSpec

(***************************************************************************)
(* When all goroutines wait and a command has a slot, a mutex was lost.    *)
(***************************************************************************)
LEMMA WaitingIsHanging ==
    ASSUME ServiceInv, AtRest, NEW d \in Running
    PROVE  PostsHang
  <1>0. d \in Command /\ Len(events) \in Nat /\ BusSize \in Nat \ {0} /\ Len(events) <= BusSize
        /\ contributionsMtx \in Command \cup {"free", "lost"} /\ validationsMtx \in {"free", "lost"}
        /\ events \in Seq(Command)
    BY ServiceConstants, RunningFacts DEF ServiceInv, ServiceTypeOK, EventsWait
  <1>1. ASSUME Subscribed, Len(events) >= BusSize PROVE PostsHang
    <2>1. events # <<>> /\ Len(events) = BusSize
      BY <1>0, <1>1
    <2>2. validationsMtx = "lost"
      BY <1>0, <1>1, <2>1 DEF AtRest, Subscribed
    <2> QED BY <2>1, <2>2 DEF PostsHang
  <1>2. CASE step[d] = "emitting"
    BY <1>1, <1>2 DEF AtRest
  <1>3. CASE step[d] # "emitting"
    <2>1. contributionsMtx # "free"
      BY <1>3 DEF AtRest
    <2>2. CASE contributionsMtx = "lost"
      BY <2>2 DEF PostsHang
    <2>3. CASE contributionsMtx # "lost"
      <3> DEFINE e == contributionsMtx
      <3>1. e \in Command /\ step[e] \in Held
        BY <1>0, <2>1, <2>3 DEF ServiceInv, HolderAppends
      <3>2. e \in Running /\ step[e] # "locking"
        BY <3>1 DEF Running, Held
      <3> QED BY <1>1, <3>2 DEF AtRest
    <2> QED BY <2>2, <2>3
  <1> QED BY <1>2, <1>3

(***************************************************************************)
(* CommandsAreAnswered (Service, handleRequest, post, awaitWriteEvent):    *)
(* when no goroutine goes on, every command was answered, except what a    *)
(* lost mutex hangs, and every file answered for was validated or          *)
(* reported as missed; for any commands, slots and sizes of the channel    *)
(* and the event bus.                                                      *)
(***************************************************************************)
THEOREM AllAreAnswered == ServiceSpec => []CommandsAreAnswered
  <1>1. ServiceInv => CommandsAreAnswered
    <2> SUFFICES ASSUME ServiceInv, AtRest, NEW c \in Command
                 PROVE  /\ \/ step[c] \in {"idle", "answered"}
                           \/ IF Kind[c] = "post" THEN PostsHang ELSE SlotsHang
                        /\ Kind[c] = "post" /\ answer[c] = "ok" /\ validationsMtx = "free"
                             => c \in validations \cup missed
      BY DEF CommandsAreAnswered
    <2>1. ASSUME c \in Running PROVE Kind[c] = "post" /\ PostsHang
      <3>1. step[c] \in {"locking", "emitting"}
        BY <2>1 DEF AtRest
      <3>2. Kind[c] = "post"
        BY <3>1 DEF ServiceInv, HolderAppends, Held
      <3> QED BY <3>2, <2>1, WaitingIsHanging
    <2>2. ASSUME step[c] = "sent" PROVE PostsHang /\ SlotsHang
      <3>1. taken # NoCommand
        <4>1. taken = NoCommand => reqChan = <<>>
          BY DEF AtRest
        <4>2. c = taken \/ \E i \in 1 .. Len(reqChan) : reqChan[i] = c
          BY <2>2 DEF ServiceInv, GivenWaits
        <4> QED BY <4>1, <4>2, ServiceConstants
      <3>2. Cardinality(Running) >= MaxConcurrency
        BY <3>1 DEF AtRest
      <3>3. Running # {}
        BY <3>2, ServiceConstants, FS_EmptySet
      <3>4. PostsHang
        BY <3>3, WaitingIsHanging
      <3>5. Cardinality(Running) = MaxConcurrency
        BY <3>2, RunningFacts, ServiceConstants DEF ServiceInv, SlotsKept
      <3>6. \A d \in Running : step[d] \in {"locking", "emitting"}
        BY DEF AtRest
      <3> QED BY <3>4, <3>5, <3>6 DEF SlotsHang
    <2>3. step[c] \in {"idle", "sent", "answered"} \/ c \in Running
      BY DEF Running
    <2>4. ASSUME Kind[c] = "post", answer[c] = "ok", validationsMtx = "free"
          PROVE  c \in validations \cup missed
      <3>1. Followed(c)
        BY <2>4 DEF ServiceInv, FilesFollowed
      <3>2. watcher.at \in {"polling", "next"} /\ events = <<>>
        BY <2>4 DEF AtRest, ServiceInv, EventsWait, Subscribed
      <3> QED BY <2>4, <3>1, <3>2 DEF Followed
    <2> QED BY <2>1, <2>2, <2>3, <2>4
  <1> QED BY <1>1, ServiceInvariant, PTL

=============================================================================
