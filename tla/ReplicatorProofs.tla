-------------------------- MODULE ReplicatorProofs --------------------------
(***************************************************************************)
(* Theorems about the replicator, for any finite history, any heads and    *)
(* any number of slots and failures; about semantic searches, for any      *)
(* nodes, documents and scores; and about the commands on documents, for   *)
(* any documents and criteria.                                             *)
(***************************************************************************)
EXTENDS Replicator, SemanticSearch, DocumentCommands, FiniteSetTheorems, SequenceTheorems,
        WellFoundedInduction, TLAPS

-----------------------------------------------------------------------------
(* Sequences, as far as the queue and the bus need them.                   *)

LEMMA ConcatFacts ==
    ASSUME NEW S, NEW s \in Seq(S), NEW t \in Seq(S)
    PROVE  /\ s \o t \in Seq(S)
           /\ Len(s \o t) = Len(s) + Len(t)
           /\ Len(s) \in Nat /\ Len(t) \in Nat
           /\ DOMAIN (s \o t) = 1 .. Len(s) + Len(t)
           /\ DOMAIN s = 1 .. Len(s) /\ DOMAIN t = 1 .. Len(t)
           /\ \A i \in 1 .. Len(s) : (s \o t)[i] = s[i]
           /\ \A i \in 1 .. Len(t) : (s \o t)[Len(s) + i] = t[i]
           /\ \A i \in 1 .. Len(s) + Len(t) :
                \/ i \in 1 .. Len(s) /\ (s \o t)[i] = s[i]
                \/ i - Len(s) \in 1 .. Len(t) /\ (s \o t)[i] = t[i - Len(s)]
  OBVIOUS

LEMMA AppendFacts ==
    ASSUME NEW S, NEW s \in Seq(S), NEW x \in S
    PROVE  /\ Append(s, x) \in Seq(S)
           /\ Len(s) \in Nat
           /\ Len(Append(s, x)) = Len(s) + 1
           /\ \A i \in 1 .. Len(s) : Append(s, x)[i] = s[i]
           /\ Append(s, x)[Len(s) + 1] = x
           /\ Append(s, x) # <<>>
  OBVIOUS

LEMMA HeadFacts ==
    ASSUME NEW S, NEW s \in Seq(S)
    PROVE  /\ Head(s) = s[1]
           /\ s # <<>> <=> 1 \in 1 .. Len(s)
           /\ s = <<>> <=> Len(s) = 0
  OBVIOUS

LEMMA TailFacts ==
    ASSUME NEW S, NEW s \in Seq(S), s # <<>>
    PROVE  /\ Head(s) \in S
           /\ Head(s) = s[1]
           /\ Tail(s) \in Seq(S)
           /\ Len(s) \in Nat \ {0}
           /\ Len(Tail(s)) = Len(s) - 1
           /\ DOMAIN s = 1 .. Len(s)
           /\ DOMAIN Tail(s) = 1 .. Len(s) - 1
           /\ \A i \in 1 .. Len(s) - 1 : Tail(s)[i] = s[i + 1]
  OBVIOUS

-----------------------------------------------------------------------------
(* The queue and the goroutines.                                           *)

QueueTypes ==
    /\ tasks \in [Hash -> {"none", "added", "fetching", "fetched"}]
    /\ queue \in Seq(Hash)
    /\ waiting \in Nat
    /\ at \in [Hash -> {"nowhere", "fetching", "fetched", "done"}]

QueueInv == QueueTypes /\ WorkForEverySlot

(***************************************************************************)
(* What AddToQueue leaves: a longer queue without repetition, and no hash  *)
(* of H unknown.                                                           *)
(***************************************************************************)
LEMMA AddToQueueFacts ==
    ASSUME QueueInv, NEW H, H \subseteq Hash, AddToQueue(H)
    PROVE  /\ tasks' \in [Hash -> {"none", "added", "fetching", "fetched"}]
           /\ queue' \in Seq(Hash)
           /\ waiting' \in Nat
           /\ waiting' = Len(queue')
           /\ IsInjective(queue')
           /\ \A h \in Hash : tasks'[h] = "added" <=> h \in ToSet(queue')
           /\ \A h \in Hash : tasks[h] # "none" => tasks'[h] = tasks[h]
           /\ \A h \in Hash : tasks[h] = "none" => tasks'[h] \in {"none", "added"}
           /\ \A h \in H : h \in log \/ tasks'[h] # "none"
<1> DEFINE new == {h \in H : Unknown(h)}
<1>1. PICK s \in SetToSeqs(new) : queue' = queue \o s
  BY DEF AddToQueue
<1>2. tasks' = [h \in Hash |-> IF h \in new THEN "added" ELSE tasks[h]]
  BY DEF AddToQueue
<1>3. IsFiniteSet(new)
  BY HashAssumption, FS_Subset
<1>4. Cardinality(new) \in Nat
  BY <1>3, FS_CardinalityType
<1>5. /\ s \in [1 .. Cardinality(new) -> new]
      /\ \A i, j \in 1 .. Cardinality(new) : i # j => s[i] # s[j]
  BY <1>1 DEF SetToSeqs
<1>6. s \in Seq(Hash) /\ Len(s) = Cardinality(new)
  BY <1>4, <1>5
<1>7. \A h \in new : \E i \in 1 .. Len(s) : s[i] = h
  <2> DEFINE D == 1 .. Cardinality(new)
  <2>1. Cardinality(D) = Cardinality(new)
    BY <1>4, FS_Interval
  <2>2. s \in Injection(D, new)
    BY <1>5 DEF Injection, IsInjective
  <2>3. s \in Surjection(D, new)
    BY <1>3, <2>1, <2>2, FS_Injection
  <2> QED
    BY <1>6, <2>3 DEF Surjection
<1>8. \A i \in 1 .. Len(s) : s[i] \in new /\ tasks[s[i]] = "none"
  BY <1>5, <1>6 DEF Unknown
<1>9. /\ queue \in Seq(Hash)
      /\ \A i \in 1 .. Len(queue) : queue[i] \in Hash /\ tasks[queue[i]] = "added"
  BY DEF QueueInv, QueueTypes, WorkForEverySlot, ToSet
<1>10. /\ queue' \in Seq(Hash)
       /\ Len(queue') = Len(queue) + Len(s)
       /\ Len(queue) \in Nat /\ Len(s) \in Nat
       /\ DOMAIN queue' = 1 .. Len(queue) + Len(s)
       /\ DOMAIN queue = 1 .. Len(queue)
       /\ \A i \in 1 .. Len(queue) : queue'[i] = queue[i]
       /\ \A i \in 1 .. Len(s) : queue'[Len(queue) + i] = s[i]
       /\ \A i \in 1 .. Len(queue) + Len(s) :
            \/ i \in 1 .. Len(queue) /\ queue'[i] = queue[i]
            \/ i - Len(queue) \in 1 .. Len(s) /\ queue'[i] = s[i - Len(queue)]
  <2>1. /\ (queue \o s) \in Seq(Hash)
        /\ Len((queue \o s)) = Len(queue) + Len(s)
        /\ Len(queue) \in Nat /\ Len(s) \in Nat
        /\ DOMAIN (queue \o s) = 1 .. Len(queue) + Len(s)
        /\ DOMAIN queue = 1 .. Len(queue)
        /\ \A i \in 1 .. Len(queue) : (queue \o s)[i] = queue[i]
        /\ \A i \in 1 .. Len(s) : (queue \o s)[Len(queue) + i] = s[i]
        /\ \A i \in 1 .. Len(queue) + Len(s) :
             \/ i \in 1 .. Len(queue) /\ (queue \o s)[i] = queue[i]
             \/ i - Len(queue) \in 1 .. Len(s) /\ (queue \o s)[i] = s[i - Len(queue)]
    <3> HIDE DEF new
    <3>1. s \in Seq(Hash) /\ queue \in Seq(Hash)
      BY <1>6, <1>9
    <3> QED
      BY <3>1, ConcatFacts
  <2> QED
    BY <1>1, <2>1
<1>11. waiting' = Len(queue')
  BY <1>6, <1>10 DEF AddToQueue, QueueInv, WorkForEverySlot
<1>12. IsInjective(queue')
  <2> SUFFICES ASSUME NEW i \in DOMAIN queue', NEW j \in DOMAIN queue',
                      queue'[i] = queue'[j]
               PROVE  i = j
    BY DEF IsInjective
  <2>1. \A a, b \in 1 .. Len(queue) : queue[a] = queue[b] => a = b
    BY <1>10 DEF QueueInv, WorkForEverySlot, IsInjective
  <2>2. \A a, b \in 1 .. Len(s) : s[a] = s[b] => a = b
    BY <1>5, <1>6
  <2>3. CASE i \in 1 .. Len(queue) /\ j \in 1 .. Len(queue)
    BY <1>10, <2>1, <2>3
  <2>4. CASE i \in 1 .. Len(queue) /\ j \notin 1 .. Len(queue)
    BY <1>8, <1>9, <1>10, <2>4
  <2>5. CASE i \notin 1 .. Len(queue) /\ j \in 1 .. Len(queue)
    BY <1>8, <1>9, <1>10, <2>5
  <2>6. CASE i \notin 1 .. Len(queue) /\ j \notin 1 .. Len(queue)
    <3>1. /\ i - Len(queue) \in 1 .. Len(s) /\ queue'[i] = s[i - Len(queue)]
          /\ j - Len(queue) \in 1 .. Len(s) /\ queue'[j] = s[j - Len(queue)]
      BY <1>10, <2>6
    <3>2. i - Len(queue) = j - Len(queue)
      BY <2>2, <3>1
    <3> QED
      BY <1>10, <3>2
  <2> QED
    BY <2>3, <2>4, <2>5, <2>6
<1>13. ASSUME NEW h \in Hash
       PROVE  tasks'[h] = "added" <=> h \in ToSet(queue')
  <2>1. tasks[h] = "added" <=> \E i \in 1 .. Len(queue) : queue[i] = h
    BY <1>10 DEF QueueInv, WorkForEverySlot, ToSet
  <2>2. h \in new <=> \E i \in 1 .. Len(s) : s[i] = h
    BY <1>7, <1>8
  <2>3. tasks'[h] = "added" <=> h \in new \/ tasks[h] = "added"
    BY <1>2
  <2>4. h \in ToSet(queue') <=> \/ \E i \in 1 .. Len(queue) : queue[i] = h
                               \/ \E i \in 1 .. Len(s) : s[i] = h
    <3>1. h \in ToSet(queue') <=>
            \E i \in 1 .. Len(queue) + Len(s) : queue'[i] = h
      BY <1>10 DEF ToSet
    <3>2. ASSUME NEW i \in 1 .. Len(queue), queue[i] = h
          PROVE  \E j \in 1 .. Len(queue) + Len(s) : queue'[j] = h
      BY <1>10, <3>2
    <3>3. ASSUME NEW i \in 1 .. Len(s), s[i] = h
          PROVE  \E j \in 1 .. Len(queue) + Len(s) : queue'[j] = h
      <4> WITNESS Len(queue) + i \in 1 .. Len(queue) + Len(s)
      <4> QED
        BY <1>10, <3>3
    <3>4. ASSUME NEW i \in 1 .. Len(queue) + Len(s), queue'[i] = h
          PROVE  \/ \E j \in 1 .. Len(queue) : queue[j] = h
                 \/ \E j \in 1 .. Len(s) : s[j] = h
      BY <1>10, <3>4
    <3> QED
      BY <3>1, <3>2, <3>3, <3>4
  <2> QED
    BY <2>1, <2>2, <2>3, <2>4
<1>14. tasks' \in [Hash -> {"none", "added", "fetching", "fetched"}]
  BY <1>2 DEF QueueInv, QueueTypes
<1>15. \A h \in Hash : tasks[h] # "none" => tasks'[h] = tasks[h]
  BY <1>2 DEF Unknown
<1>16. \A h \in Hash : tasks[h] = "none" => tasks'[h] \in {"none", "added"}
  BY <1>2
<1>17. \A h \in H : h \in log \/ tasks'[h] # "none"
  BY <1>2 DEF Unknown
<1> QED
  BY <1>10, <1>11, <1>12, <1>13, <1>14, <1>15, <1>16, <1>17

(***************************************************************************)
(* What taking the head of the queue leaves.                               *)
(***************************************************************************)
LEMMA TakeFacts ==
    ASSUME QueueInv, WaitForProcessSlot
    PROVE  /\ Head(queue) \in Hash
           /\ tasks[Head(queue)] = "added"
           /\ at[Head(queue)] = "nowhere"
           /\ QueueInv'
<1> DEFINE c == Head(queue)
<1>1. waiting > 0 /\ waiting = Len(queue) /\ queue \in Seq(Hash)
  BY DEF WaitForProcessSlot, QueueInv, QueueTypes, WorkForEverySlot
<1>2. queue # <<>>
  BY <1>1, HeadFacts
<1>3. /\ c \in Hash
      /\ c = queue[1]
      /\ queue' \in Seq(Hash)
      /\ Len(queue) \in Nat \ {0}
      /\ Len(queue') = Len(queue) - 1
      /\ DOMAIN queue = 1 .. Len(queue)
      /\ DOMAIN queue' = 1 .. Len(queue) - 1
      /\ \A i \in 1 .. Len(queue) - 1 : queue'[i] = queue[i + 1]
  BY <1>1, <1>2, TailFacts DEF WaitForProcessSlot
<1>4. tasks[c] = "added"
  BY <1>3 DEF QueueInv, WorkForEverySlot, ToSet
<1>5. at[c] = "nowhere"
  BY <1>3, <1>4 DEF QueueInv, WorkForEverySlot
<1>6. \A i, j \in 1 .. Len(queue) : queue[i] = queue[j] => i = j
  BY <1>3 DEF QueueInv, WorkForEverySlot, IsInjective
<1>7. \A i, j \in DOMAIN queue' : queue'[i] = queue'[j] => i = j
  BY <1>3, <1>6
<1>8. /\ tasks' = [tasks EXCEPT ![c] = "fetching"]
      /\ at' = [at EXCEPT ![c] = "fetching"]
      /\ waiting' = waiting - 1
  BY DEF WaitForProcessSlot
<1>9. QueueTypes'
  BY <1>1, <1>3, <1>8 DEF QueueInv, QueueTypes
<1>10. ASSUME NEW h \in Hash PROVE tasks'[h] = "added" <=> h \in ToSet(queue')
  <2>1. tasks[h] = "added" <=> \E i \in 1 .. Len(queue) : queue[i] = h
    BY <1>3 DEF QueueInv, WorkForEverySlot, ToSet
  <2>2. h \in ToSet(queue') <=> \E i \in 1 .. Len(queue) - 1 : queue[i + 1] = h
    BY <1>3 DEF ToSet
  <2>3. CASE h = c
    <3>1. \A i \in 1 .. Len(queue) - 1 : queue[i + 1] # h
      BY <1>3, <1>6, <2>3
    <3> QED
      BY <1>8, <2>2, <2>3, <3>1 DEF QueueInv, QueueTypes
  <2>4. CASE h # c
    <3>1. ASSUME NEW i \in 1 .. Len(queue), queue[i] = h
          PROVE  \E j \in 1 .. Len(queue) - 1 : queue[j + 1] = h
      <4>1. i - 1 \in 1 .. Len(queue) - 1 /\ queue[(i - 1) + 1] = h
        BY <1>3, <2>4, <3>1
      <4> QED
        BY <4>1
    <3>2. tasks'[h] = tasks[h]
      BY <1>8, <2>4 DEF QueueInv, QueueTypes
    <3>3. ASSUME NEW j \in 1 .. Len(queue) - 1, queue[j + 1] = h
          PROVE  \E i \in 1 .. Len(queue) : queue[i] = h
      <4>1. j + 1 \in 1 .. Len(queue)
        BY <1>3
      <4> QED
        BY <3>3, <4>1
    <3> QED
      BY <2>1, <2>2, <3>1, <3>2, <3>3
  <2> QED
    BY <2>3, <2>4
<1>11. \A h \in Hash : tasks'[h] = "fetching" <=> at'[h] # "nowhere"
  BY <1>3, <1>8 DEF QueueInv, QueueTypes, WorkForEverySlot
<1>12. WorkForEverySlot'
  BY <1>1, <1>3, <1>7, <1>8, <1>10, <1>11 DEF WorkForEverySlot, IsInjective
<1> QED
  BY <1>3, <1>4, <1>5, <1>9, <1>12 DEF QueueInv

LEMMA InitQueueInv == Init => QueueInv
<1> SUFFICES ASSUME Init PROVE QueueInv
  OBVIOUS
<1>1. <<>> \in Seq(Hash) /\ Len(<<>>) = 0 /\ DOMAIN <<>> = {}
  OBVIOUS
<1>2. IsInjective(queue) /\ ToSet(queue) = {}
  BY <1>1 DEF Init, IsInjective, ToSet
<1> QED
  BY <1>1, <1>2 DEF Init, QueueInv, QueueTypes, WorkForEverySlot

LEMMA NextKeepsQueueInv == QueueInv /\ [Next]_vars => QueueInv'
<1> SUFFICES ASSUME QueueInv, [Next]_vars PROVE QueueInv'
  OBVIOUS
<1>1. ASSUME NEW H \in Announced, Load(H) PROVE QueueInv'
  <2>1. H \subseteq Hash /\ AddToQueue(H) /\ at' = at
    BY <1>1, HashAssumption DEF Load
  <2>2. \A h \in Hash : tasks'[h] = "fetching" <=> at'[h] # "nowhere"
    BY <2>1, AddToQueueFacts DEF QueueInv, QueueTypes, WorkForEverySlot
  <2> QED
    BY <2>1, <2>2, AddToQueueFacts DEF QueueInv, QueueTypes, WorkForEverySlot
<1>2. ASSUME WaitForProcessSlot PROVE QueueInv'
  BY <1>2, TakeFacts
<1>3. ASSUME NEW h \in Hash, Fetch(h) \/ FetchFails(h) PROVE QueueInv'
  <2>1. UNCHANGED <<tasks, queue, waiting>>
    BY <1>3 DEF Fetch, FetchFails
  <2>2. /\ at' \in [Hash -> {"nowhere", "fetching", "fetched", "done"}]
        /\ \A g \in Hash : at'[g] = "nowhere" <=> at[g] = "nowhere"
    BY <1>3 DEF Fetch, FetchFails, QueueInv, QueueTypes
  <2> QED
    BY <2>1, <2>2 DEF QueueInv, QueueTypes, WorkForEverySlot
<1>4. ASSUME NEW h \in Hash, AddNext(h) PROVE QueueInv'
  <2>1. Before[h] \subseteq Hash /\ AddToQueue(Before[h])
    BY <1>4, HashAssumption DEF AddNext
  <2>2. /\ at' \in [Hash -> {"nowhere", "fetching", "fetched", "done"}]
        /\ \A g \in Hash : at'[g] = "nowhere" <=> at[g] = "nowhere"
    BY <1>4 DEF AddNext, QueueInv, QueueTypes
  <2>3. \A g \in Hash : tasks'[g] = "fetching" <=> at'[g] # "nowhere"
    BY <2>1, <2>2, AddToQueueFacts DEF QueueInv, QueueTypes, WorkForEverySlot
  <2> QED
    BY <2>1, <2>2, <2>3, AddToQueueFacts DEF QueueInv, QueueTypes, WorkForEverySlot
<1>5. ASSUME NEW h \in Hash, ProcessEntryDone(h) PROVE QueueInv'
  <2>1. /\ UNCHANGED <<queue, waiting>>
        /\ at[h] = "done"
        /\ at' = [at EXCEPT ![h] = "nowhere"]
        /\ tasks' = [tasks EXCEPT ![h] = "fetched"]
    BY <1>5 DEF ProcessEntryDone
  <2>2. tasks[h] = "fetching"
    BY <2>1 DEF QueueInv, WorkForEverySlot
  <2>3. \A g \in Hash : tasks'[g] = "added" <=> tasks[g] = "added"
    BY <2>1, <2>2 DEF QueueInv, QueueTypes
  <2>4. \A g \in Hash : tasks'[g] = "fetching" <=> at'[g] # "nowhere"
    BY <2>1 DEF QueueInv, QueueTypes, WorkForEverySlot
  <2> QED
    BY <2>1, <2>3, <2>4 DEF QueueInv, QueueTypes, WorkForEverySlot
<1>6. CASE Join \/ UpdateIndex \/ UNCHANGED vars
  BY <1>6 DEF Join, UpdateIndex, vars, QueueInv, QueueTypes, WorkForEverySlot
<1> QED
  BY <1>1, <1>2, <1>3, <1>4, <1>5, <1>6 DEF Next, Process

(***************************************************************************)
(* processQueue.Next never meets an empty queue, and no entry is fetched   *)
(* twice.                                                                  *)
(***************************************************************************)
THEOREM EverySlotFindsWork == Spec => []WorkForEverySlot
<1>1. QueueInv => WorkForEverySlot
  BY DEF QueueInv
<1> QED
  BY <1>1, InitQueueInv, NextKeepsQueueInv, PTL DEF Spec

-----------------------------------------------------------------------------
(* No holes.                                                               *)

(***************************************************************************)
(* Events up to the i-th that the main loop has yet to take.               *)
(***************************************************************************)
UpTo(i) == UNION {bus[j] : j \in 1 .. i}

HistoryTypes ==
    /\ buffer \subseteq Hash
    /\ bus \in Seq(SUBSET Hash)
    /\ log \subseteq Hash
    /\ indexed \subseteq log

(***************************************************************************)
(* Nothing the replicator is done with got lost on the way to the log.     *)
(***************************************************************************)
Accounted ==
    \A h \in Hash :
        /\ at[h] = "fetched" => h \in buffer
        /\ tasks[h] = "fetched" \/ at[h] = "done" =>
             h \in buffer \cup UpTo(Len(bus)) \cup log \cup lost

(***************************************************************************)
(* What a fetched entry is based on is known, or will be in a moment.      *)
(***************************************************************************)
BasisKnown ==
    \A h \in buffer :
        at[h] = "fetched" \/ \A g \in Before[h] : g \in log \/ tasks[g] # "none"

(***************************************************************************)
(* What an entry in an event is based on comes no later than it.           *)
(***************************************************************************)
BatchesInOrder ==
    \A i \in 1 .. Len(bus) : \A h \in bus[i] :
        Before[h] \subseteq log \cup lost \cup UpTo(i)

(***************************************************************************)
(* Only the first event can be partly in the log.                          *)
(***************************************************************************)
OneBatchAtATime ==
    \A h \in log : h \in indexed \/ (bus # <<>> /\ h \in bus[1])

HistoryInv ==
    /\ HistoryTypes
    /\ Accounted
    /\ BasisKnown
    /\ BatchesInOrder
    /\ OneBatchAtATime
    /\ NoHoles

LEMMA InitHistoryInv == Init => HistoryInv
<1> SUFFICES ASSUME Init PROVE HistoryInv
  OBVIOUS
<1>1. <<>> \in Seq(SUBSET Hash) /\ Len(<<>>) = 0
  OBVIOUS
<1>2. 1 .. Len(bus) = {}
  BY <1>1 DEF Init
<1>3. HistoryTypes
  BY <1>1, HashAssumption DEF Init, HistoryTypes
<1>4. NoHoles
  BY HashAssumption DEF Init, NoHoles
<1>5. Accounted /\ BasisKnown /\ OneBatchAtATime
  BY DEF Init, Accounted, BasisKnown, OneBatchAtATime
<1>6. BatchesInOrder
  BY <1>2 DEF BatchesInOrder
<1> QED
  BY <1>3, <1>4, <1>5, <1>6 DEF HistoryInv

(***************************************************************************)
(* Steps of the replicator that leave the events and the log alone.        *)
(***************************************************************************)
LEMMA FetchingKeepsHistory ==
    ASSUME HistoryInv, UNCHANGED <<bus, log, indexed>>,
           lost \subseteq lost', Accounted', BasisKnown', buffer' \subseteq Hash
    PROVE  HistoryInv'
<1>1. \A i \in 1 .. Len(bus) : UpTo(i)' = UpTo(i)
  BY DEF UpTo
<1>2. BatchesInOrder'
  BY <1>1 DEF HistoryInv, BatchesInOrder
<1>3. HistoryTypes' /\ OneBatchAtATime' /\ NoHoles'
  BY DEF HistoryInv, HistoryTypes, OneBatchAtATime, NoHoles
<1> QED
  BY <1>2, <1>3 DEF HistoryInv

LEMMA AddingKeepsHistory ==
    ASSUME HistoryInv, QueueInv, NEW H, H \subseteq Hash, AddToQueue(H),
           UNCHANGED <<at, buffer, bus, log, indexed, lost>>
    PROVE  HistoryInv'
<1>1. UpTo(Len(bus))' = UpTo(Len(bus))
  BY DEF UpTo
<1>2. /\ \A h \in Hash : tasks'[h] = "fetched" => tasks[h] = "fetched"
      /\ \A h \in Hash : tasks[h] # "none" => tasks'[h] # "none"
  BY AddToQueueFacts DEF QueueInv, QueueTypes
<1>3. Accounted'
  <2>1. UNCHANGED <<at, buffer, log, lost>>
    OBVIOUS
  <2> QED
    BY <1>1, <1>2, <2>1 DEF HistoryInv, Accounted
<1>4. \A h \in Hash : Before[h] \subseteq Hash
  BY HashAssumption
<1>5. BasisKnown'
  BY <1>2, <1>4 DEF HistoryInv, HistoryTypes, BasisKnown
<1> QED
  BY <1>3, <1>5, FetchingKeepsHistory DEF HistoryInv, HistoryTypes

LEMMA TakingKeepsHistory ==
    ASSUME HistoryInv, QueueInv, WaitForProcessSlot
    PROVE  HistoryInv'
<1> DEFINE c == Head(queue)
<1>1. c \in Hash /\ tasks[c] = "added" /\ at[c] = "nowhere"
  BY TakeFacts
<1>2. /\ tasks' = [tasks EXCEPT ![c] = "fetching"]
      /\ at' = [at EXCEPT ![c] = "fetching"]
      /\ UNCHANGED <<buffer, bus, log, indexed, lost>>
  BY DEF WaitForProcessSlot
<1>3. UpTo(Len(bus))' = UpTo(Len(bus))
  BY <1>2 DEF UpTo
<1>4. /\ \A h \in Hash \ {c} : at'[h] = at[h] /\ tasks'[h] = tasks[h]
      /\ \A h \in Hash : tasks[h] # "none" => tasks'[h] # "none"
      /\ \A h \in Hash : at[h] = "fetched" => at'[h] = "fetched"
  BY <1>1, <1>2 DEF QueueInv, QueueTypes
<1>5. at'[c] = "fetching" /\ tasks'[c] = "fetching"
  BY <1>1, <1>2 DEF QueueInv, QueueTypes
<1>6. Accounted'
  BY <1>2, <1>3, <1>4, <1>5 DEF HistoryInv, Accounted
<1>7. \A h \in Hash : Before[h] \subseteq Hash
  BY HashAssumption
<1>8. BasisKnown'
  <2> HIDE DEF c
  <2>1. ASSUME NEW h \in buffer
        PROVE  \/ at'[h] = "fetched"
               \/ \A g \in Before[h] : g \in log \/ tasks'[g] # "none"
    <3>1. h \in Hash /\ Before[h] \subseteq Hash
      BY <1>7 DEF HistoryInv, HistoryTypes
    <3> QED
      BY <1>4, <3>1 DEF HistoryInv, BasisKnown
  <2> QED
    BY <1>2, <2>1 DEF BasisKnown
<1> QED
  BY <1>2, <1>6, <1>8, FetchingKeepsHistory DEF HistoryInv, HistoryTypes

LEMMA FetchKeepsHistory ==
    ASSUME HistoryInv, QueueInv, NEW c \in Hash, Fetch(c) \/ FetchFails(c)
    PROVE  HistoryInv'
<1>1. UNCHANGED <<tasks, bus, log, indexed>>
  BY DEF Fetch, FetchFails
<1>2. UpTo(Len(bus))' = UpTo(Len(bus))
  BY <1>1 DEF UpTo
<1>3. \A h \in Hash : Before[h] \subseteq Hash
  BY HashAssumption
<1>4. ASSUME Fetch(c) PROVE HistoryInv'
  <2>1. /\ buffer' = buffer \cup {c}
        /\ at'[c] = "fetched"
        /\ \A h \in Hash \ {c} : at'[h] = at[h]
        /\ lost' = lost
    BY <1>4 DEF Fetch, QueueInv, QueueTypes
  <2>2. Accounted'
    BY <1>1, <1>2, <2>1 DEF HistoryInv, Accounted
  <2>3. BasisKnown'
    BY <1>1, <2>1 DEF HistoryInv, HistoryTypes, BasisKnown
  <2> QED
    BY <1>1, <2>1, <2>2, <2>3, FetchingKeepsHistory DEF HistoryInv, HistoryTypes
<1>5. ASSUME FetchFails(c) PROVE HistoryInv'
  <2>1. /\ buffer' = buffer
        /\ at[c] = "fetching" /\ at'[c] = "done"
        /\ \A h \in Hash \ {c} : at'[h] = at[h]
        /\ lost' = lost \cup {c}
    BY <1>5 DEF FetchFails, QueueInv, QueueTypes
  <2>2. Accounted'
    BY <1>1, <1>2, <2>1 DEF HistoryInv, Accounted
  <2>3. BasisKnown'
    BY <1>1, <2>1 DEF HistoryInv, HistoryTypes, BasisKnown
  <2> QED
    BY <1>1, <2>1, <2>2, <2>3, FetchingKeepsHistory DEF HistoryInv, HistoryTypes
<1> QED
  BY <1>4, <1>5

LEMMA AddNextKeepsHistory ==
    ASSUME HistoryInv, QueueInv, NEW c \in Hash, AddNext(c)
    PROVE  HistoryInv'
<1>1. /\ at[c] = "fetched" /\ at'[c] = "done"
      /\ \A h \in Hash \ {c} : at'[h] = at[h]
      /\ UNCHANGED <<buffer, bus, log, indexed, lost>>
  BY DEF AddNext, QueueInv, QueueTypes
<1>2. AddToQueue(Before[c]) /\ \A h \in Hash : Before[h] \subseteq Hash
  BY HashAssumption DEF AddNext
<1>3. /\ \A h \in Hash : tasks'[h] = "fetched" => tasks[h] = "fetched"
      /\ \A h \in Hash : tasks[h] # "none" => tasks'[h] # "none"
      /\ \A g \in Before[c] : g \in log \/ tasks'[g] # "none"
  BY <1>2, AddToQueueFacts DEF QueueInv, QueueTypes
<1>4. UpTo(Len(bus))' = UpTo(Len(bus))
  BY <1>1 DEF UpTo
<1>5. Accounted'
  BY <1>1, <1>3, <1>4 DEF HistoryInv, Accounted
<1>6. BasisKnown'
  BY <1>1, <1>2, <1>3 DEF HistoryInv, HistoryTypes, BasisKnown
<1> QED
  BY <1>1, <1>5, <1>6, FetchingKeepsHistory DEF HistoryInv, HistoryTypes

LEMMA DoneKeepsHistory ==
    ASSUME HistoryInv, QueueInv, NEW c \in Hash, ProcessEntryDone(c)
    PROVE  HistoryInv'
<1>1. /\ at[c] = "done" /\ at'[c] = "nowhere"
      /\ tasks'[c] = "fetched"
      /\ \A h \in Hash \ {c} : at'[h] = at[h] /\ tasks'[h] = tasks[h]
      /\ UNCHANGED <<log, indexed, lost>>
  BY DEF ProcessEntryDone, QueueInv, QueueTypes
<1>2. \A h \in Hash : Before[h] \subseteq Hash
  BY HashAssumption
<1>3. CASE UNCHANGED <<buffer, bus>>
  <2>1. UpTo(Len(bus))' = UpTo(Len(bus))
    BY <1>3 DEF UpTo
  <2>2. Accounted'
    BY <1>1, <1>3, <2>1 DEF HistoryInv, Accounted
  <2>3. BasisKnown'
    BY <1>1, <1>2, <1>3 DEF HistoryInv, HistoryTypes, BasisKnown
  <2> QED
    BY <1>1, <1>3, <2>2, <2>3, FetchingKeepsHistory DEF HistoryInv, HistoryTypes
<1>4. CASE IsIdle(c) /\ bus' = Append(bus, buffer) /\ buffer' = {}
  <2>0. PICK n : n = Len(bus)
    OBVIOUS
  <2>1. /\ bus \in Seq(SUBSET Hash) /\ bus' \in Seq(SUBSET Hash)
        /\ n \in Nat
        /\ Len(bus') = n + 1
        /\ \A i \in 1 .. n : bus'[i] = bus[i]
        /\ bus'[n + 1] = buffer
        /\ bus' # <<>>
    BY <1>4, <2>0, AppendFacts DEF HistoryInv, HistoryTypes
  <2>2. ASSUME NEW i \in 1 .. n PROVE UpTo(i)' = UpTo(i)
    <3>1. \A j \in 1 .. i : bus'[j] = bus[j]
      BY <2>1
    <3> QED
      BY <3>1 DEF UpTo
  <2>3. UpTo(n + 1)' = UpTo(n) \cup buffer
    <3>1. 1 .. n + 1 = (1 .. n) \cup {n + 1}
      BY <2>1
    <3>2. UpTo(n + 1)' = UNION {bus'[j] : j \in (1 .. n) \cup {n + 1}}
      BY <3>1 DEF UpTo
    <3> QED
      BY <2>1, <3>2 DEF UpTo
  <2>4. UpTo(Len(bus))' = UpTo(n) \cup buffer
    BY <2>1, <2>3 DEF UpTo
  <2>5. \A h \in Hash \ {c} : tasks[h] \in {"none", "fetched"} /\ at[h] = "nowhere"
    BY <1>4 DEF IsIdle, QueueInv, QueueTypes, WorkForEverySlot
  <2>6. Accounted'
    BY <1>1, <1>4, <2>0, <2>4, <2>5 DEF HistoryInv, Accounted
  <2>7. BasisKnown'
    BY <1>4 DEF BasisKnown
  <2>8. ASSUME NEW h \in buffer, NEW g \in Before[h]
        PROVE  g \in log \cup lost \cup UpTo(n) \cup buffer
    <3>1. h \in Hash /\ g \in Hash
      BY <1>2 DEF HistoryInv, HistoryTypes
    <3>2. at[h] # "fetched"
      BY <1>1, <2>5, <3>1
    <3>3. g \in log \/ tasks[g] # "none"
      BY <3>2 DEF HistoryInv, BasisKnown
    <3>4. g \in log \/ tasks[g] = "fetched" \/ at[g] = "done"
      BY <1>1, <2>5, <3>1, <3>3
    <3> QED
      BY <1>1, <2>0, <3>1, <3>4 DEF HistoryInv, Accounted
  <2>9. BatchesInOrder'
    <3> SUFFICES ASSUME NEW i \in 1 .. n + 1, NEW h \in bus'[i]
                 PROVE  Before[h] \subseteq log \cup lost \cup UpTo(i)'
      BY <1>1, <2>1 DEF BatchesInOrder
    <3>1. CASE i \in 1 .. n
      <4>1. h \in bus[i] /\ UpTo(i)' = UpTo(i)
        BY <2>1, <2>2, <3>1
      <4> QED
        BY <2>0, <3>1, <4>1 DEF HistoryInv, BatchesInOrder
    <3>2. CASE i = n + 1
      <4>1. h \in buffer /\ UpTo(i)' = UpTo(n) \cup buffer
        BY <2>1, <2>3, <3>2
      <4> QED
        BY <2>8, <4>1
    <3> QED
      BY <2>1, <3>1, <3>2
  <2>10. OneBatchAtATime'
    <3>1. bus # <<>> => 1 \in 1 .. n
      BY <2>0, <2>1, HeadFacts
    <3> QED
      BY <1>1, <2>1, <3>1 DEF HistoryInv, OneBatchAtATime
  <2>11. HistoryTypes' /\ NoHoles'
    BY <1>1, <1>4, <2>1 DEF HistoryInv, HistoryTypes, NoHoles
  <2> QED
    BY <2>6, <2>7, <2>9, <2>10, <2>11 DEF HistoryInv
<1> QED
  BY <1>3, <1>4 DEF ProcessEntryDone

(***************************************************************************)
(* Every entry of the first event, once it is all in the log, finds what   *)
(* it is based on there.                                                   *)
(***************************************************************************)
LEMMA FirstJoined ==
    ASSUME HistoryInv, bus # <<>>
    PROVE  /\ Head(bus) = bus[1]
           /\ 1 \in 1 .. Len(bus)
           /\ UpTo(1) = bus[1]
           /\ bus[1] \subseteq Hash
           /\ \A h \in bus[1] : Before[h] \subseteq log \cup lost \cup bus[1]
<1>1. bus \in Seq(SUBSET Hash)
  BY DEF HistoryInv, HistoryTypes
<1>2. Head(bus) = bus[1] /\ Head(bus) \in SUBSET Hash /\ 1 \in 1 .. Len(bus)
  BY <1>1, HeadFacts, TailFacts
<1>3. 1 .. 1 = {1}
  OBVIOUS
<1>4. UpTo(1) = bus[1]
  BY <1>3 DEF UpTo
<1> QED
  BY <1>2, <1>4 DEF HistoryInv, BatchesInOrder

LEMMA JoinKeepsHistory ==
    ASSUME HistoryInv, Join
    PROVE  HistoryInv'
<1>1. PICK c \in Head(bus) \ log : log' = log \cup {c}
  BY DEF Join
<1>2. bus # <<>> /\ UNCHANGED <<tasks, queue, waiting, at, buffer, bus, indexed, lost>>
  BY DEF Join
<1>3. c \in bus[1] /\ c \in Hash
  BY <1>1, <1>2, FirstJoined
<1>4. /\ UpTo(Len(bus))' = UpTo(Len(bus))
      /\ \A i \in 1 .. Len(bus) : UpTo(i)' = UpTo(i)
  BY <1>2 DEF UpTo
<1>5. Accounted'
  BY <1>1, <1>2, <1>4 DEF HistoryInv, Accounted
<1>6. BasisKnown'
  BY <1>1, <1>2 DEF HistoryInv, BasisKnown
<1>7. BatchesInOrder'
  BY <1>1, <1>2, <1>4 DEF HistoryInv, BatchesInOrder
<1>8. OneBatchAtATime' /\ HistoryTypes' /\ NoHoles'
  BY <1>1, <1>2, <1>3 DEF HistoryInv, HistoryTypes, OneBatchAtATime, NoHoles
<1> QED
  BY <1>5, <1>6, <1>7, <1>8 DEF HistoryInv

LEMMA UpdateIndexKeepsHistory ==
    ASSUME HistoryInv, UpdateIndex
    PROVE  HistoryInv'
<1>1. /\ bus # <<>>
      /\ bus[1] \subseteq log
      /\ indexed' = log
      /\ bus' = Tail(bus)
      /\ UNCHANGED <<tasks, queue, waiting, at, buffer, log, lost>>
  BY FirstJoined DEF UpdateIndex
<1>2. /\ bus \in Seq(SUBSET Hash) /\ bus' \in Seq(SUBSET Hash)
      /\ Len(bus) \in Nat \ {0}
      /\ Len(bus') = Len(bus) - 1
      /\ \A i \in 1 .. Len(bus) - 1 : bus'[i] = bus[i + 1]
  BY <1>1, TailFacts DEF HistoryInv, HistoryTypes
<1>3. ASSUME NEW i \in 0 .. Len(bus) - 1
      PROVE  UpTo(i + 1) \subseteq log \cup UpTo(i)'
  <2> SUFFICES ASSUME NEW j \in 1 .. i + 1, NEW h \in bus[j]
               PROVE  h \in log \/ \E k \in 1 .. i : h \in bus'[k]
    BY DEF UpTo
  <2>1. CASE j = 1
    BY <1>1, <2>1
  <2>2. CASE j # 1
    <3>1. j - 1 \in 1 .. i /\ j - 1 \in 1 .. Len(bus) - 1
      BY <1>2, <2>2
    <3>2. bus'[j - 1] = bus[(j - 1) + 1] /\ (j - 1) + 1 = j
      BY <1>2, <3>1
    <3> QED
      BY <3>1, <3>2
  <2> QED
    BY <2>1, <2>2
<1>4. UpTo(Len(bus)) \subseteq log \cup UpTo(Len(bus))'
  <2>1. UpTo(Len(bus))' = UNION {bus'[k] : k \in 1 .. Len(bus) - 1}
    BY <1>2 DEF UpTo
  <2>2. UNION {bus[j] : j \in 1 .. Len(bus)} \subseteq
          log \cup UNION {bus'[k] : k \in 1 .. Len(bus) - 1}
    <3> SUFFICES ASSUME NEW j \in 1 .. Len(bus), NEW h \in bus[j]
                 PROVE  h \in log \/ \E k \in 1 .. Len(bus) - 1 : h \in bus'[k]
      OBVIOUS
    <3>1. CASE j = 1
      BY <1>1, <3>1
    <3>2. CASE j # 1
      <4>1. j - 1 \in 1 .. Len(bus) - 1 /\ (j - 1) + 1 = j
        BY <1>2, <3>2
      <4>2. bus'[j - 1] = bus[(j - 1) + 1]
        BY <1>2, <4>1
      <4> QED
        BY <4>1, <4>2
    <3> QED
      BY <3>1, <3>2
  <2> QED
    BY <2>1, <2>2 DEF UpTo
<1>5. Accounted'
  BY <1>1, <1>4 DEF HistoryInv, Accounted
<1>6. BasisKnown'
  BY <1>1 DEF HistoryInv, BasisKnown
<1>7. BatchesInOrder'
  <2> SUFFICES ASSUME NEW i \in 1 .. Len(bus) - 1, NEW h \in bus'[i]
               PROVE  Before[h] \subseteq log \cup lost \cup UpTo(i)'
    BY <1>1, <1>2 DEF BatchesInOrder
  <2>1. i + 1 \in 1 .. Len(bus) /\ h \in bus[i + 1] /\ i \in 0 .. Len(bus) - 1
    BY <1>2
  <2>2. Before[h] \subseteq log \cup lost \cup UpTo(i + 1)
    BY <2>1 DEF HistoryInv, BatchesInOrder
  <2> QED
    BY <1>3, <2>1, <2>2
<1>8. NoHoles'
  <2> SUFFICES ASSUME NEW h \in log PROVE Before[h] \subseteq log \cup lost
    BY <1>1 DEF NoHoles
  <2>1. CASE h \in indexed
    BY <2>1 DEF HistoryInv, HistoryTypes, NoHoles
  <2>2. CASE h \in bus[1]
    BY <1>1, <2>2, FirstJoined
  <2> QED
    BY <2>1, <2>2 DEF HistoryInv, OneBatchAtATime
<1>9. OneBatchAtATime' /\ HistoryTypes'
  BY <1>1, <1>2 DEF HistoryInv, HistoryTypes, OneBatchAtATime
<1> QED
  BY <1>5, <1>6, <1>7, <1>8, <1>9 DEF HistoryInv

-----------------------------------------------------------------------------

LEMMA NextKeepsHistoryInv == QueueInv /\ HistoryInv /\ [Next]_vars => HistoryInv'
<1> SUFFICES ASSUME QueueInv, HistoryInv, [Next]_vars PROVE HistoryInv'
  OBVIOUS
<1>1. ASSUME NEW H \in Announced, Load(H) PROVE HistoryInv'
  <2>1. H \subseteq Hash
    BY HashAssumption
  <2> QED
    BY <1>1, <2>1, AddingKeepsHistory DEF Load
<1>2. CASE WaitForProcessSlot
  BY <1>2, TakingKeepsHistory
<1>3. ASSUME NEW h \in Hash, Process(h) PROVE HistoryInv'
  BY <1>3, FetchKeepsHistory, AddNextKeepsHistory, DoneKeepsHistory DEF Process
<1>4. CASE Join
  BY <1>4, JoinKeepsHistory
<1>5. CASE UpdateIndex
  BY <1>5, UpdateIndexKeepsHistory
<1>6. CASE UNCHANGED vars
  <2>1. /\ UpTo(Len(bus))' = UpTo(Len(bus))
        /\ UNCHANGED <<tasks, at, buffer, bus, log, indexed, lost>>
    BY <1>6 DEF UpTo, vars
  <2>2. Accounted' /\ BasisKnown'
    BY <2>1 DEF HistoryInv, Accounted, BasisKnown
  <2> QED
    BY <2>1, <2>2, FetchingKeepsHistory DEF HistoryInv, HistoryTypes
<1> QED
  BY <1>1, <1>2, <1>3, <1>4, <1>5, <1>6 DEF Next

(***************************************************************************)
(* The index has no holes but those that failed fetches leave.             *)
(***************************************************************************)
THEOREM IndexHasNoHoles == Spec => []NoHoles
<1> DEFINE Inv == QueueInv /\ HistoryInv
<1>1. Init => Inv
  BY InitQueueInv, InitHistoryInv
<1>2. Inv /\ [Next]_vars => Inv'
  BY NextKeepsQueueInv, NextKeepsHistoryInv
<1>3. Inv => NoHoles
  BY DEF HistoryInv
<1> QED
  BY <1>1, <1>2, <1>3, PTL DEF Spec

-----------------------------------------------------------------------------
(* Semantic searches.                                                      *)

(***************************************************************************)
(* A result of a search.                                                   *)
(***************************************************************************)
Result == [doc : Document, score : Int, node : Node, named : BOOLEAN]

(***************************************************************************)
(* The rows of a place: one for each document.                             *)
(***************************************************************************)
OnePerDocument(P) == P \in SUBSET Result /\ \A q, r \in P : q.doc = r.doc => q = r

(***************************************************************************)
(* L ranks the nearest of P: all of them if they are fewer than k.         *)
(***************************************************************************)
IsTop(L, P, k) ==
    /\ L \in Seq(Result)
    /\ OnePerDocument(P)
    /\ \A i \in 1 .. Len(L) : L[i] \in P
    /\ \A i, j \in 1 .. Len(L) : L[i].doc = L[j].doc => i = j
    /\ \A r \in P : \/ \E i \in 1 .. Len(L) : L[i] = r
                    \/ Len(L) >= k /\ \A i \in 1 .. Len(L) : L[i].score >= r.score

(***************************************************************************)
(* Every place has sent its nearest.                                       *)
(***************************************************************************)
Covered(all, places, k) ==
    /\ all \in Seq(Result)
    /\ \A i \in 1 .. Len(all) : all[i] \in UNION places
    /\ \A P \in places : \E L \in Seq(Result) :
           /\ IsTop(L, P, k)
           /\ \A i \in 1 .. Len(L) : \E j \in 1 .. Len(all) : all[j] = L[i]

(***************************************************************************)
(* What SearchFindsBest says of an answer.                                 *)
(***************************************************************************)
FindsBest(found, places, k) ==
    LET rows == UNION places
        shown == {found[i].doc : i \in DOMAIN found}
    IN  /\ Descending(found)
        /\ Cardinality(shown) = Len(found)
        /\ \A i \in DOMAIN found : found[i] \in rows
        /\ Len(found) < k => shown = {r.doc : r \in rows}
        /\ \A r \in rows :
             IF r.doc \in shown
             THEN \E i \in DOMAIN found : found[i].doc = r.doc /\ found[i].score >= r.score
             ELSE \A i \in DOMAIN found : found[i].score >= r.score

-----------------------------------------------------------------------------

(***************************************************************************)
(* The sequence of results.                                                *)
(***************************************************************************)
LEMMA ResultsFacts ==
    ASSUME NEW s \in Seq(Result)
    PROVE  /\ Len(s) \in Nat /\ DOMAIN s = 1 .. Len(s)
           /\ \A i \in 1 .. Len(s) : i \in Int /\ s[i] \in Result /\ s[i].score \in Int
  <1>1. Len(s) \in Nat /\ DOMAIN s = 1 .. Len(s) /\ \A i \in 1 .. Len(s) : s[i] \in Result
    OBVIOUS
  <1>2. \A r \in Result : r.score \in Int
    BY DEF Result
  <1> QED BY <1>1, <1>2

(***************************************************************************)
(* A ranking that is cut after k has the nearest.                          *)
(***************************************************************************)
LEMMA RankedIsTop ==
    ASSUME NEW S, OnePerDocument(S), IsFiniteSet(S), NEW k \in Nat, NEW L \in Ranked(S, k)
    PROVE  IsTop(L, S, k) /\ Descending(L) /\ Len(L) <= k
  <1> DEFINE n == Cardinality(S)
  <1>1. n \in Nat /\ S \subseteq Result
    BY FS_CardinalityType DEF OnePerDocument
  <1> HIDE DEF n
  <1>2. PICK seq \in SetToSeqs(S) :
            /\ Descending(seq)
            /\ L = SubSeq(seq, 1, IF Len(seq) < k THEN Len(seq) ELSE k)
    BY DEF Ranked
  <1>3. /\ seq \in [1 .. n -> S]
        /\ \A i, j \in 1 .. n : i # j => seq[i] # seq[j]
    BY DEF SetToSeqs, n
  <1>4. seq \in Seq(S) /\ Len(seq) = n /\ DOMAIN seq = 1 .. n
    BY <1>1, <1>3
  <1>5. \A r \in S : \E i \in 1 .. n : seq[i] = r
    <2>1. seq \in Injection(1 .. n, S)
      BY <1>3 DEF Injection, IsInjective
    <2>2. IsFiniteSet(1 .. n) /\ Cardinality(1 .. n) = n
      BY <1>1, FS_Interval
    <2>3. seq \in Surjection(1 .. n, S)
      BY <2>1, <2>2, FS_Injection DEF n
    <2> QED BY <2>3 DEF Surjection
  <1> DEFINE m == IF n < k THEN n ELSE k
  <1>6. m \in 0 .. n /\ m <= k /\ (m < n => m = k) /\ m \in Nat
    BY <1>1
  <1>7. L = SubSeq(seq, 1, m)
    BY <1>2, <1>4
  <1> HIDE DEF m
  <1>8. L \in Seq(S) /\ Len(L) = m /\ DOMAIN L = 1 .. m /\ \A i \in 1 .. m : L[i] = seq[i]
    BY <1>1, <1>4, <1>6, <1>7
  <1>9. \A i \in 1 .. m : i \in 1 .. n
    BY <1>1, <1>6
  <1>10. \A i \in 1 .. n : seq[i] \in S /\ seq[i].score \in Int
    BY <1>1, <1>3 DEF Result
  <1>11. Descending(L)
    BY <1>2, <1>4, <1>8, <1>9 DEF Descending
  <1>12. \A i, j \in 1 .. Len(L) : L[i].doc = L[j].doc => i = j
    <2> SUFFICES ASSUME NEW i \in 1 .. m, NEW j \in 1 .. m, L[i].doc = L[j].doc
                 PROVE  i = j
      BY <1>8
    <2>1. seq[i] = seq[j]
      BY <1>8, <1>9, <1>10 DEF OnePerDocument
    <2> QED BY <2>1, <1>3, <1>9
  <1>13. \A r \in S : \/ \E i \in 1 .. Len(L) : L[i] = r
                      \/ Len(L) >= k /\ \A i \in 1 .. Len(L) : L[i].score >= r.score
    <2> SUFFICES ASSUME NEW r \in S, \A i \in 1 .. m : L[i] # r
                 PROVE  m >= k /\ \A i \in 1 .. m : L[i].score >= r.score
      BY <1>8
    <2>1. PICK j \in 1 .. n : seq[j] = r
      BY <1>5
    <2>2. ~ (j <= m)
      BY <2>1, <1>6, <1>8
    <2>3. m < n /\ \A i \in 1 .. m : i < j
      BY <2>2, <1>6, <1>1
    <2>4. \A i \in 1 .. m : seq[i].score >= seq[j].score
      BY <2>3, <1>2, <1>4, <1>9 DEF Descending
    <2> QED BY <2>1, <2>3, <2>4, <1>6, <1>8
  <1>14. L \in Seq(Result)
    BY <1>1, <1>8
  <1>15. \A i \in 1 .. Len(L) : L[i] \in S
    BY <1>8
  <1> QED BY <1>6, <1>8, <1>11, <1>12, <1>13, <1>14, <1>15 DEF IsTop

(***************************************************************************)
(* Of the results of a document there is one that none beats.              *)
(***************************************************************************)
LEMMA Unbeaten ==
    ASSUME NEW results \in Seq(Result), NEW i \in 1 .. Len(results)
    PROVE  \E b \in Best(results) : b.doc = results[i].doc /\ b.score >= results[i].score
  <1> DEFINE I == {j \in 1 .. Len(results) : results[j].doc = results[i].doc}
             Beats(j, h) == \/ results[j].score > results[h].score
                            \/ results[j].score = results[h].score /\ j < h
             Beaters(h) == {j \in I : Beats(j, h)}
             T == {Beaters(h) : h \in I}
  <1>1. Len(results) \in Nat /\ DOMAIN results = 1 .. Len(results)
        /\ \A j \in 1 .. Len(results) : j \in Int /\ results[j].score \in Int
    BY ResultsFacts
  <1>2. IsFiniteSet(I) /\ i \in I /\ I \subseteq 1 .. Len(results)
    <2>1. IsFiniteSet(1 .. Len(results))
      <3>1. Len(results) \in Int /\ 1 \in Int
        BY ONLY <1>1
      <3> QED BY ONLY <3>1, FS_Interval
    <2>2. I \in SUBSET (1 .. Len(results))
      OBVIOUS
    <2>3. IsFiniteSet(I)
      BY <2>1, <2>2, FS_Subset
    <2> QED BY <2>3
  <1>3. T \subseteq FiniteSubsetsOf(I) /\ T # {}
    <2>1. FiniteSubsetsOf(I) = SUBSET I
      BY <1>2, FS_FiniteSubsetsOfFinite
    <2>2. T \subseteq SUBSET I /\ T # {}
      BY <1>2
    <2> QED BY <2>1, <2>2
  <1>4. \E U \in T : \A V \in T : <<V, U>> \notin StrictSubsetOrdering(I)
    <2>1. IsWellFoundedOn(StrictSubsetOrdering(I), FiniteSubsetsOf(I))
      BY FS_StrictSubsetOrderingWellFounded
    <2> HIDE DEF T
    <2> QED BY <1>3, <2>1, WFMin
  <1>5. PICK h \in I : \A V \in T : <<V, Beaters(h)>> \notin StrictSubsetOrdering(I)
    BY <1>4
  <1>6. \A j \in I : ~ Beats(j, h)
    <2> SUFFICES ASSUME NEW j \in I, Beats(j, h) PROVE FALSE
      OBVIOUS
    <2>1. Beaters(j) \subseteq Beaters(h)
      <3> SUFFICES ASSUME NEW l \in I, Beats(l, j) PROVE Beats(l, h)
        OBVIOUS
      <3>1. /\ l \in Int /\ j \in Int /\ h \in Int
            /\ results[l].score \in Int /\ results[j].score \in Int /\ results[h].score \in Int
        BY <1>1, <1>2
      <3> QED BY <3>1
    <2>2. j \in Beaters(h) /\ j \notin Beaters(j)
      <3>1. ~ Beats(j, j)
        BY <1>1, <1>2
      <3> QED BY <3>1
    <2>3. <<Beaters(j), Beaters(h)>> \in StrictSubsetOrdering(I)
      BY <2>1, <2>2 DEF StrictSubsetOrdering
    <2> QED BY <1>5, <2>3
  <1>7. h \in 1 .. Len(results) /\ results[h].doc = results[i].doc
    OBVIOUS
  <1>8. \A j \in DOMAIN results : results[j].doc = results[h].doc =>
            \/ results[j].score < results[h].score
            \/ results[j].score = results[h].score /\ j >= h
    <2> SUFFICES ASSUME NEW j \in 1 .. Len(results), results[j].doc = results[h].doc
                 PROVE  \/ results[j].score < results[h].score
                        \/ results[j].score = results[h].score /\ j >= h
      BY <1>1
    <2>1. ~ Beats(j, h)
      BY <1>6, <1>7
    <2> QED BY <2>1, <1>1, <1>7
  <1>9. results[h] \in Best(results)
    BY <1>1, <1>7, <1>8 DEF Best
  <1>10. results[h].score >= results[i].score
    BY <1>1, <1>7, <1>8
  <1> QED BY <1>7, <1>9, <1>10

(***************************************************************************)
(* The results that are kept are of different documents.                   *)
(***************************************************************************)
LEMMA BestFacts ==
    ASSUME NEW results \in Seq(Result)
    PROVE  /\ OnePerDocument(Best(results))
           /\ IsFiniteSet(Best(results))
           /\ \A b \in Best(results) : \E i \in 1 .. Len(results) : b = results[i]
  <1> DEFINE I == {i \in DOMAIN results :
                     \A j \in DOMAIN results : results[j].doc = results[i].doc =>
                        \/ results[j].score < results[i].score
                        \/ results[j].score = results[i].score /\ j >= i}
  <1>1. Len(results) \in Nat /\ DOMAIN results = 1 .. Len(results)
        /\ \A j \in 1 .. Len(results) : j \in Int /\ results[j] \in Result /\ results[j].score \in Int
    BY ResultsFacts
  <1>2. Best(results) = {results[i] : i \in I}
    BY DEF Best
  <1>3. I \subseteq 1 .. Len(results)
    BY <1>1
  <1>4. IsFiniteSet(I)
    <2>1. IsFiniteSet(1 .. Len(results))
      <3>1. Len(results) \in Int /\ 1 \in Int
        BY ONLY <1>1
      <3> QED BY ONLY <3>1, FS_Interval
    <2> HIDE DEF I
    <2> QED BY <1>3, <2>1, FS_Subset
  <1>5. IsFiniteSet(Best(results))
    <2> DEFINE f == [i \in I |-> results[i]]
    <2> HIDE DEF I
    <2>1. f \in Surjection(I, Best(results))
      BY <1>2 DEF Surjection
    <2> QED BY <2>1, <1>4, FS_Surjection
  <1>6. ASSUME NEW i \in I, NEW j \in I, results[i].doc = results[j].doc
        PROVE  i = j
    BY <1>6, <1>1
  <1>7. OnePerDocument(Best(results))
    <2>1. \A i \in I : results[i] \in Result
      BY <1>1, <1>3
    <2> HIDE DEF I
    <2> QED BY <1>2, <1>6, <2>1 DEF OnePerDocument
  <1> QED BY <1>2, <1>3, <1>5, <1>7

(***************************************************************************)
(* n numbers do not fit among the first m, if m < n, without two alike.    *)
(***************************************************************************)
LEMMA NoRoom ==
    ASSUME NEW n \in Nat, NEW m \in Nat, m < n, NEW f \in [1 .. n -> 1 .. m]
    PROVE  \E h, i \in 1 .. n : h # i /\ f[h] = f[i]
  <1>1. /\ IsFiniteSet(1 .. n) /\ Cardinality(1 .. n) = n
        /\ IsFiniteSet(1 .. m) /\ Cardinality(1 .. m) = m
    BY FS_Interval
  <1> QED BY <1>1, FS_PigeonHole

(***************************************************************************)
(* A row its place did not send: k others that it sent are as good, so     *)
(* that the answer is full, of documents that are as good.                 *)
(***************************************************************************)
LEMMA LeftOut ==
    ASSUME NEW all \in Seq(Result), NEW k \in Nat, NEW B, OnePerDocument(B),
           \A i \in 1 .. Len(all) : \E b \in B : b.doc = all[i].doc /\ b.score >= all[i].score,
           NEW F, IsTop(F, B, k), Descending(F), Len(F) <= k,
           NEW L \in Seq(Result), NEW x \in Int,
           \A i, j \in 1 .. Len(L) : L[i].doc = L[j].doc => i = j,
           \A i \in 1 .. Len(L) : \E j \in 1 .. Len(all) : all[j] = L[i],
           Len(L) >= k,
           \A i \in 1 .. Len(L) : L[i].score >= x
    PROVE  Len(F) = k /\ \A i \in 1 .. Len(F) : F[i].score >= x
  <1>1. /\ Len(L) \in Nat /\ \A i \in 1 .. Len(L) : L[i].score \in Int
        /\ F \in Seq(Result)
        /\ Len(F) \in Nat /\ DOMAIN F = 1 .. Len(F)
        /\ \A i \in 1 .. Len(F) : i \in Int /\ F[i].score \in Int
        /\ \A b \in B : b.score \in Int
    BY ResultsFacts DEF IsTop, OnePerDocument, Result
  <1>2. \A i \in 1 .. Len(L) : \E b \in B : b.doc = L[i].doc /\ b.score >= x
    <2> TAKE i \in 1 .. Len(L)
    <2>1. PICK b \in B : b.doc = L[i].doc /\ b.score >= L[i].score
      OBVIOUS
    <2>2. b.score >= x
      BY <2>1, <1>1
    <2> QED BY <2>1, <2>2
  \* No m places of F hold all of them.
  <1>3. ASSUME NEW m \in Nat, m < k,
               \A b \in B : b.score >= x => \E j \in 1 .. m : j \in 1 .. Len(F) /\ F[j] = b
        PROVE  FALSE
    <2> DEFINE f == [i \in 1 .. Len(L) |-> CHOOSE j \in 1 .. m : j \in 1 .. Len(F) /\ F[j].doc = L[i].doc]
    <2>1. \A i \in 1 .. Len(L) : f[i] \in 1 .. m /\ F[f[i]].doc = L[i].doc
      <3> TAKE i \in 1 .. Len(L)
      <3>1. PICK b \in B : b.doc = L[i].doc /\ b.score >= x
        BY <1>2
      <3>2. PICK j \in 1 .. m : j \in 1 .. Len(F) /\ F[j] = b
        BY <1>3, <3>1
      <3>3. \E l \in 1 .. m : l \in 1 .. Len(F) /\ F[l].doc = L[i].doc
        BY <3>1, <3>2
      <3>4. f[i] = CHOOSE l \in 1 .. m : l \in 1 .. Len(F) /\ F[l].doc = L[i].doc
        OBVIOUS
      <3> HIDE DEF f
      <3> QED BY <3>3, <3>4
    <2>2. f \in [1 .. Len(L) -> 1 .. m]
      BY <2>1
    <2> HIDE DEF f
    <2>3. m < Len(L)
      BY <1>1, <1>3
    <2>31. Len(L) \in Nat
      BY <1>1
    <2>32. m \in Nat
      OBVIOUS
    <2>4. PICK h, i \in 1 .. Len(L) : h # i /\ f[h] = f[i]
      BY ONLY <2>2, <2>3, <2>31, <2>32, NoRoom
    <2>5. L[h].doc = L[i].doc
      BY <2>1, <2>4
    <2> QED BY <2>4, <2>5
  <1>4. Len(F) = k
    <2>0. Len(F) \in Nat /\ Len(F) <= k /\ k \in Nat
      BY <1>1
    <2>1. ~ (Len(F) < k)
      <3> SUFFICES ASSUME Len(F) < k PROVE FALSE
        OBVIOUS
      <3>1. ~ (Len(F) >= k)
        BY <2>0
      <3>2. \A b \in B : \E j \in 1 .. Len(F) : F[j] = b
        BY <3>1 DEF IsTop
      <3> QED BY <3>2, <2>0, <1>3
    <2> QED BY ONLY <2>0, <2>1
  <1>5. ASSUME NEW i \in 1 .. Len(F), ~ (F[i].score >= x)
        PROVE  FALSE
    <2>1. \A b \in B : b.score >= x => \E j \in 1 .. i - 1 : j \in 1 .. Len(F) /\ F[j] = b
      <3> SUFFICES ASSUME NEW b \in B, b.score >= x
                   PROVE  \E j \in 1 .. i - 1 : j \in 1 .. Len(F) /\ F[j] = b
        OBVIOUS
      <3>1. b.score > F[i].score /\ b.score \in Int
        BY <1>1, <1>5
      <3>2. PICK j \in 1 .. Len(F) : F[j] = b
        <4>1. ~ \A h \in 1 .. Len(F) : F[h].score >= b.score
          <5>1. F[i].score \in Int
            BY <1>1
          <5>2. ~ (F[i].score >= b.score)
            BY <5>1, <3>1
          <5> QED BY <5>2
        <4> QED BY <4>1 DEF IsTop
      <3>3. j # i
        BY <3>1, <3>2, <1>1
      <3>4. ~ (i < j)
        <4>1. i < j => F[i].score >= F[j].score
          BY <1>1 DEF Descending
        <4> QED BY <4>1, <3>1, <3>2, <1>1
      <3>5. j \in 1 .. i - 1
        BY <3>3, <3>4, <1>1
      <3> QED BY <3>2, <3>5
    <2>2. i - 1 \in Nat /\ i - 1 < k
      BY <1>1
    <2> QED BY <2>1, <2>2, <1>3
  <1> QED BY <1>4, <1>5

(***************************************************************************)
(* The merge of what the places sent answers as a ranking of all their     *)
(* rows would.                                                             *)
(***************************************************************************)
LEMMA MergeFindsBest ==
    ASSUME NEW places, NEW k \in Nat, NEW all, Covered(all, places, k), NEW F \in RankAndTrim(all, k)
    PROVE  F \in Seq(Result) /\ FindsBest(F, places, k)
  <1> DEFINE B == Best(all)
             rows == UNION places
             shown == {F[i].doc : i \in DOMAIN F}
  <1>1. all \in Seq(Result)
    BY DEF Covered
  <1>2. /\ OnePerDocument(B) /\ IsFiniteSet(B)
        /\ \A b \in B : \E i \in 1 .. Len(all) : b = all[i]
        /\ \A i \in 1 .. Len(all) : \E b \in B : b.doc = all[i].doc /\ b.score >= all[i].score
    BY <1>1, BestFacts, Unbeaten
  <1> HIDE DEF B
  <1>3. IsTop(F, B, k) /\ Descending(F) /\ Len(F) <= k
    BY <1>2, RankedIsTop DEF RankAndTrim, B
  <1>4. /\ F \in Seq(Result)
        /\ Len(F) \in Nat /\ DOMAIN F = 1 .. Len(F)
        /\ \A i \in 1 .. Len(F) : i \in Int /\ F[i].score \in Int /\ F[i] \in B
        /\ \A b \in B : b.score \in Int
    BY <1>3, ResultsFacts DEF IsTop, OnePerDocument, Result
  <1>5. Cardinality(shown) = Len(F)
    <2> DEFINE f == [i \in 1 .. Len(F) |-> F[i].doc]
    <2>1. f \in [1 .. Len(F) -> shown]
      BY <1>4
    <2>2. \A i, j \in 1 .. Len(F) : f[i] = f[j] => i = j
      BY <1>3 DEF IsTop
    <2>3. \A d \in shown : \E i \in 1 .. Len(F) : f[i] = d
      BY <1>4
    <2> HIDE DEF f, shown
    <2>4. f \in Bijection(1 .. Len(F), shown)
      BY <2>1, <2>2, <2>3 DEF Bijection, Injection, Surjection, IsInjective
    <2> QED BY <2>4, <1>4, FS_CountingElements DEF ExistsBijection
  <1>6. \A i \in DOMAIN F : F[i] \in rows
    BY <1>2, <1>4 DEF Covered
  \* A row was sent, or the answer is full of others that are as good.
  <1>7. ASSUME NEW r \in rows
        PROVE  \/ \E b \in B : b.doc = r.doc /\ b.score >= r.score
               \/ Len(F) = k /\ \A i \in 1 .. Len(F) : F[i].score >= r.score
    <2>1. PICK P \in places : r \in P
      OBVIOUS
    <2>2. PICK L \in Seq(Result) : /\ IsTop(L, P, k)
                                   /\ \A i \in 1 .. Len(L) : \E j \in 1 .. Len(all) : all[j] = L[i]
      BY DEF Covered
    <2>3. CASE \E i \in 1 .. Len(L) : L[i] = r
      <3>1. PICK i \in 1 .. Len(L) : L[i] = r
        BY <2>3
      <3>2. PICK j \in 1 .. Len(all) : all[j] = L[i]
        BY <2>2
      <3> QED BY <3>1, <3>2, <1>2
    <2>4. CASE Len(L) >= k /\ \A i \in 1 .. Len(L) : L[i].score >= r.score
      <3>1. r.score \in Int
        BY <2>1, <2>2 DEF IsTop, OnePerDocument, Result
      <3>2. \A i, j \in 1 .. Len(L) : L[i].doc = L[j].doc => i = j
        BY <2>2 DEF IsTop
      <3>3. Len(F) = k /\ \A i \in 1 .. Len(F) : F[i].score >= r.score
        <4> HIDE DEF rows, shown
        <4> QED BY <1>1, <1>2, <1>3, <2>2, <2>4, <3>1, <3>2, LeftOut
      <3> QED BY <3>3
    <2> QED BY <2>1, <2>2, <2>3, <2>4 DEF IsTop
  <1>8. \A r \in rows : r.score \in Int
    BY DEF Covered, IsTop, OnePerDocument, Result
  <1>9. Len(F) < k => shown = {r.doc : r \in rows}
    <2> SUFFICES ASSUME Len(F) < k PROVE shown = {r.doc : r \in rows}
      OBVIOUS
    <2>1. \A i \in DOMAIN F : F[i].doc \in {r.doc : r \in rows}
      BY <1>6
    <2>2. ASSUME NEW r \in rows PROVE r.doc \in shown
      <3>00. Len(F) \in Nat /\ k \in Nat /\ Len(F) < k
        BY <1>4
      <3>0. Len(F) # k /\ ~ (Len(F) >= k)
        BY ONLY <3>00
      <3>1. PICK b \in B : b.doc = r.doc
        BY <1>7, <3>0
      <3>2. PICK i \in 1 .. Len(F) : F[i] = b
        BY <1>3, <3>0 DEF IsTop
      <3> QED BY <3>1, <3>2, <1>4
    <2> QED BY <2>1, <2>2
  <1>10. ASSUME NEW r \in rows
         PROVE  IF r.doc \in shown
                THEN \E i \in DOMAIN F : F[i].doc = r.doc /\ F[i].score >= r.score
                ELSE \A i \in DOMAIN F : F[i].score >= r.score
    <2>1. CASE \E b \in B : b.doc = r.doc /\ b.score >= r.score
      <3>1. PICK b \in B : b.doc = r.doc /\ b.score >= r.score
        BY <2>1
      <3>2. CASE \E i \in 1 .. Len(F) : F[i] = b
        BY <3>1, <3>2, <1>4
      <3>3. CASE ~ \E i \in 1 .. Len(F) : F[i] = b
        <4>1. \A i \in 1 .. Len(F) : F[i].score >= b.score
          BY <3>3, <1>3 DEF IsTop
        <4>2. r.doc \notin shown
          <5> SUFFICES ASSUME NEW i \in 1 .. Len(F), F[i].doc = r.doc PROVE FALSE
            BY <1>4
          <5>1. F[i] = b
            BY <3>1, <1>2, <1>4 DEF OnePerDocument
          <5> QED BY <5>1, <3>3
        <4>3. \A i \in 1 .. Len(F) : F[i].score >= r.score
          BY <4>1, <3>1, <1>4, <1>8
        <4> QED BY <4>2, <4>3, <1>4
      <3> QED BY <3>2, <3>3
    <2>2. CASE \A i \in 1 .. Len(F) : F[i].score >= r.score
      BY <2>2, <1>4
    <2> QED BY <2>1, <2>2, <1>7
  <1> QED BY <1>3, <1>4, <1>5, <1>6, <1>9, <1>10 DEF FindsBest

(***************************************************************************)
(* What has arrived covers the places; one more answer covers one more.    *)
(***************************************************************************)
LEMMA OwnIsCovered ==
    ASSUME NEW P, NEW k, NEW L, IsTop(L, P, k)
    PROVE  Covered(L, {P}, k)
  BY DEF Covered, IsTop

LEMMA OneMoreIsCovered ==
    ASSUME NEW places, NEW k, NEW all, Covered(all, places, k),
           NEW P, NEW L, IsTop(L, P, k)
    PROVE  Covered(all \o L, places \cup {P}, k)
  <1> DEFINE both == all \o L
  <1>1. /\ all \in Seq(Result) /\ L \in Seq(Result)
        /\ Len(all) \in Nat /\ Len(L) \in Nat
    BY DEF Covered, IsTop
  <1>2. /\ both \in Seq(Result) /\ Len(both) = Len(all) + Len(L)
        /\ \A i \in 1 .. Len(both) :
             both[i] = IF i <= Len(all) THEN all[i] ELSE L[i - Len(all)]
    BY <1>1
  <1> HIDE DEF both
  <1>3. \A i \in 1 .. Len(all) : i \in 1 .. Len(both) /\ both[i] = all[i]
    BY <1>1, <1>2
  <1>4. \A i \in 1 .. Len(L) : \E j \in 1 .. Len(both) : both[j] = L[i]
    <2> TAKE i \in 1 .. Len(L)
    <2>1. /\ i + Len(all) \in 1 .. Len(both)
          /\ ~ (i + Len(all) <= Len(all))
          /\ (i + Len(all)) - Len(all) = i
      BY <1>1, <1>2
    <2> QED BY <2>1, <1>2
  <1>5. ASSUME NEW i \in 1 .. Len(both) PROVE both[i] \in UNION (places \cup {P})
    <2>1. CASE i <= Len(all)
      <3>1. i \in 1 .. Len(all)
        BY <2>1, <1>1
      <3> QED BY <3>1, <1>3 DEF Covered
    <2>2. CASE ~ (i <= Len(all))
      <3>1. i - Len(all) \in 1 .. Len(L)
        BY <2>2, <1>1, <1>2
      <3> QED BY <3>1, <2>2, <1>2 DEF IsTop
    <2> QED BY <2>1, <2>2
  <1>6. ASSUME NEW Q \in places \cup {P}
        PROVE  \E K \in Seq(Result) :
                  /\ IsTop(K, Q, k)
                  /\ \A i \in 1 .. Len(K) : \E j \in 1 .. Len(both) : both[j] = K[i]
    <2>1. CASE Q = P
      BY <2>1, <1>1, <1>4
    <2>2. CASE Q \in places
      <3>1. PICK K \in Seq(Result) :
                  /\ IsTop(K, Q, k)
                  /\ \A i \in 1 .. Len(K) : \E j \in 1 .. Len(all) : all[j] = K[i]
        BY <2>2 DEF Covered
      <3>2. \A i \in 1 .. Len(K) : \E j \in 1 .. Len(both) : both[j] = K[i]
        BY <3>1, <1>3
      <3> QED BY <3>1, <3>2
    <2> QED BY <2>1, <2>2
  <1> QED BY <1>2, <1>5, <1>6 DEF Covered, both

(***************************************************************************)
(* A row of an index, and what a peer answers.                             *)
(***************************************************************************)
Row == [score : Int, named : BOOLEAN]

Answer == [to : Search, results : Seq(Result), place : SUBSET Result]

(***************************************************************************)
(* A search that was not made, one that runs, and one that is over.        *)
(***************************************************************************)
Unsearched == [at : {"idle"}]
Searching == [at : {"pending", "waiting"}, all : Seq(Result), channel : Seq(Answer),
              places : SUBSET SUBSET Result]
Searched == [at : {"done"}, found : Seq(Result), places : SUBSET SUBSET Result]

(***************************************************************************)
(* The types of the indexes, the goroutines, the queries and the answers.  *)
(***************************************************************************)
SemanticTypes ==
    /\ ready \subseteq Node
    /\ vectors \in [Node -> [Document -> Row]]
    /\ indexing \subseteq [node : Node, doc : Document, content : Content]
    /\ queries \subseteq Search \X Node
    /\ replies \subseteq Answer
    /\ search \in [Search -> Unsearched \cup Searching \cup Searched]

(***************************************************************************)
(* An answer ranks the nearest of the rows it was made from.               *)
(***************************************************************************)
Nearest(r, s) == IsTop(r.results, r.place, TopK[s])

AnswersAreNearest == \A r \in replies : Nearest(r, r.to)

(***************************************************************************)
(* While a search runs, what it has collected covers the places that have  *)
(* answered; when it is over, it has found the best of them.               *)
(***************************************************************************)
Keeps(x, s) ==
    /\ x \in Searching =>
         /\ Covered(x.all, x.places, TopK[s])
         /\ \A i \in 1 .. Len(x.channel) : Nearest(x.channel[i], s)
    /\ x \in Searched => FindsBest(x.found, x.places, TopK[s])

SemanticInv ==
    /\ SemanticTypes
    /\ AnswersAreNearest
    /\ \A s \in Search : Keeps(search[s], s)

LEMMA RowsFacts ==
    ASSUME NEW n \in Node, NEW index \in [Document -> Row]
    PROVE  OnePerDocument(Rows(n, index)) /\ IsFiniteSet(Rows(n, index))
  <1> DEFINE D == {d \in Document : index[d] # None}
             f == [d \in D |-> [doc |-> d, score |-> index[d].score, node |-> n, named |-> index[d].named]]
  <1>1. IsFiniteSet(D)
    <2>1. IsFiniteSet(Document) /\ D \subseteq Document
      BY SemanticAssumption
    <2> HIDE DEF D
    <2> QED BY <2>1, FS_Subset
  <1>2. f \in Surjection(D, Rows(n, index))
    BY DEF Surjection, Rows
  <1>3. IsFiniteSet(Rows(n, index))
    <2> HIDE DEF D, f
    <2> QED BY <1>1, <1>2, FS_Surjection
  <1>4. OnePerDocument(Rows(n, index))
    BY DEF OnePerDocument, Rows, Result, Row
  <1> QED BY <1>3, <1>4

(***************************************************************************)
(* What localANN returns.                                                  *)
(***************************************************************************)
LEMMA LocalFacts ==
    ASSUME SemanticTypes, NEW n \in Node, NEW s \in Search, NEW L \in LocalANN(n, TopK[s])
    PROVE  /\ L \in Seq(Result)
           /\ Rows(n, vectors[n]) \in SUBSET Result
           /\ IsTop(L, Rows(n, vectors[n]), TopK[s])
  <1>1. vectors[n] \in [Document -> Row] /\ TopK[s] \in Nat
    BY SemanticAssumption DEF SemanticTypes
  <1>2. OnePerDocument(Rows(n, vectors[n])) /\ IsFiniteSet(Rows(n, vectors[n]))
    BY <1>1, RowsFacts
  <1>3. IsTop(L, Rows(n, vectors[n]), TopK[s])
    BY <1>1, <1>2, RankedIsTop DEF LocalANN
  <1> QED BY <1>2, <1>3 DEF IsTop, OnePerDocument

(***************************************************************************)
(* A step that changes no search but s.                                    *)
(***************************************************************************)
LEMMA OneSearch ==
    ASSUME SemanticInv, NEW s \in Search, NEW x \in Unsearched \cup Searching \cup Searched,
           Keeps(x, s), search' = [search EXCEPT ![s] = x]
    PROVE  /\ search' \in [Search -> Unsearched \cup Searching \cup Searched]
           /\ \A t \in Search : Keeps(search'[t], t)
  BY DEF SemanticInv, SemanticTypes

LEMMA FinishedKeeps ==
    ASSUME SemanticInv, NEW s \in Search, search[s].at \in {"pending", "waiting"},
           NEW F \in RankAndTrim(search[s].all, TopK[s]), Finished(s, F)
    PROVE  /\ search' \in [Search -> Unsearched \cup Searching \cup Searched]
           /\ \A t \in Search : Keeps(search'[t], t)
  <1> DEFINE x == search[s]
             y == [at |-> "done", found |-> F, places |-> x.places]
  <1>1. x \in Searching
    BY DEF SemanticInv, SemanticTypes, Unsearched, Searching, Searched
  <1>2. Covered(x.all, x.places, TopK[s]) /\ x.places \in SUBSET SUBSET Result /\ TopK[s] \in Nat
    BY <1>1, SemanticAssumption DEF SemanticInv, Keeps, Searching
  <1>3. F \in Seq(Result) /\ FindsBest(F, x.places, TopK[s])
    BY <1>2, MergeFindsBest
  <1>4. search' = [search EXCEPT ![s] = y]
    BY DEF Finished
  <1>5. y \in Searched /\ y \notin Searching
    BY <1>2, <1>3 DEF Searched, Searching
  <1>6. Keeps(y, s)
    BY <1>3, <1>5 DEF Keeps
  <1> HIDE DEF y
  <1> QED BY <1>4, <1>5, <1>6, OneSearch

(***************************************************************************)
(* A step of the indexes only.                                             *)
(***************************************************************************)
LEMMA IndexStep ==
    ASSUME SemanticInv, UNCHANGED <<queries, replies, search>>,
           ready' \subseteq Node, vectors' \in [Node -> [Document -> Row]],
           indexing' \subseteq [node : Node, doc : Document, content : Content]
    PROVE  SemanticInv'
  BY DEF SemanticInv, SemanticTypes, AnswersAreNearest

LEMMA SemanticStep ==
    ASSUME SemanticInv, [SemanticNext]_semVars
    PROVE  SemanticInv'
  <1> DEFINE Shape == Unsearched \cup Searching \cup Searched
  <1>0. /\ ready \subseteq Node
        /\ vectors \in [Node -> [Document -> Row]]
        /\ indexing \subseteq [node : Node, doc : Document, content : Content]
        /\ queries \subseteq Search \X Node
        /\ replies \subseteq Answer
        /\ \A s \in Search : search[s] \in Shape /\ Keeps(search[s], s)
        /\ \A r \in replies : Nearest(r, r.to)
    BY DEF SemanticInv, SemanticTypes, AnswersAreNearest
  <1>1. ASSUME NEW n \in Node, InitIndex(n) PROVE SemanticInv'
    BY <1>0, <1>1, IndexStep DEF InitIndex
  <1>2. ASSUME NEW n \in Node, NEW d \in Document, NEW c \in Content, DocumentPut(n, d, c)
        PROVE  SemanticInv'
    BY <1>0, <1>2, IndexStep DEF DocumentPut
  <1>3. ASSUME NEW job \in indexing, IndexFails(job) PROVE SemanticInv'
    BY <1>0, <1>3, IndexStep DEF IndexFails
  <1>4. ASSUME NEW job \in indexing, NEW score \in Embeddings(job.content), IndexDocument(job, score)
        PROVE  SemanticInv'
    <2>1. job.node \in Node /\ job.doc \in Document /\ job.content \in Content
      BY <1>0
    <2>2. [score |-> score, named |-> TRUE] \in Row
      BY <2>1, SemanticAssumption DEF Embeddings, Row
    <2>3. vectors' \in [Node -> [Document -> Row]]
      BY <2>1, <2>2, <1>0, <1>4 DEF IndexDocument
    <2> QED BY <2>3, <1>0, <1>4, IndexStep DEF IndexDocument
  <1>5. ASSUME NEW n \in Node, NEW m \in Node, NEW d \in Document, BootstrapFromIPFS(n, m, d)
        PROVE  SemanticInv'
    <2>1. [score |-> vectors[m][d].score, named |-> FALSE] \in Row
      BY <1>0 DEF Row
    <2>2. vectors' \in [Node -> [Document -> Row]]
      BY <2>1, <1>0, <1>5 DEF BootstrapFromIPFS
    <2> QED BY <2>2, <1>0, <1>5, IndexStep DEF BootstrapFromIPFS
  <1>6. ASSUME NEW s \in Search, Scan(s) PROVE SemanticInv'
    <2> DEFINE n == Origin[s]
               P == Rows(n, vectors[n])
    <2>1. n \in Node
      BY SemanticAssumption
    <2>2. PICK L \in LocalANN(n, TopK[s]) :
             search' = [search EXCEPT ![s] =
                [at |-> "pending", all |-> L, channel |-> <<>>, places |-> {P}]]
      BY <1>6 DEF Scan
    <2> DEFINE y == [at |-> "pending", all |-> L, channel |-> <<>>, places |-> {P}]
    <2>3. L \in Seq(Result) /\ P \in SUBSET Result /\ IsTop(L, P, TopK[s])
      BY <2>1, LocalFacts DEF SemanticInv
    <2> HIDE DEF P, n
    <2>4. y \in Searching /\ y \notin Searched
      BY <2>3 DEF Searching, Searched
    <2>5. Keeps(y, s)
      BY <2>3, <2>4, OwnIsCovered DEF Keeps
    <2>6. search' \in [Search -> Shape] /\ \A t \in Search : Keeps(search'[t], t)
      <3> HIDE DEF y
      <3> QED BY <2>2, <2>4, <2>5, OneSearch DEF y
    <2>7. UNCHANGED <<ready, vectors, indexing>> /\ queries' \subseteq queries /\ replies' \subseteq replies
      BY <1>6 DEF Scan
    <2> QED BY <2>6, <2>7, <1>0 DEF SemanticInv, SemanticTypes, AnswersAreNearest
  <1>7. ASSUME NEW s \in Search, Publish(s) PROVE SemanticInv'
    <2> DEFINE x == search[s]
               y == [x EXCEPT !.at = "waiting"]
    <2>1. x.at = "pending" /\ search' = [search EXCEPT ![s] = y]
      BY <1>7 DEF Publish
    <2>2. x \in Searching
      BY <2>1, <1>0 DEF Unsearched, Searching, Searched
    <2>3. /\ y \in Searching /\ y \notin Searched
          /\ y.all = x.all /\ y.places = x.places /\ y.channel = x.channel
      BY <2>2 DEF Searching, Searched
    <2>4. Keeps(y, s)
      BY <2>2, <2>3, <1>0 DEF Keeps
    <2>5. search' \in [Search -> Shape] /\ \A t \in Search : Keeps(search'[t], t)
      <3> HIDE DEF x, y
      <3> QED BY <2>1, <2>3, <2>4, OneSearch
    <2>6. queries' \subseteq Search \X Node
      BY <1>0, <1>7 DEF Publish
    <2>7. UNCHANGED <<ready, vectors, indexing, replies>>
      BY <1>7 DEF Publish
    <2> QED BY <2>5, <2>6, <2>7, <1>0 DEF SemanticInv, SemanticTypes, AnswersAreNearest
  <1>8. ASSUME NEW s \in Search, PublishFails(s) PROVE SemanticInv'
    <2>1. search' \in [Search -> Shape] /\ \A t \in Search : Keeps(search'[t], t)
      BY <1>8, FinishedKeeps DEF PublishFails
    <2>2. UNCHANGED <<ready, vectors, indexing, queries, replies>>
      BY <1>8 DEF PublishFails
    <2> QED BY <2>1, <2>2, <1>0 DEF SemanticInv, SemanticTypes, AnswersAreNearest
  <1>9. ASSUME NEW s \in Search, Collect(s) PROVE SemanticInv'
    <2> DEFINE x == search[s]
               r == Head(x.channel)
               y == [x EXCEPT !.channel = Tail(@), !.all = @ \o r.results,
                              !.places = @ \cup {r.place}]
    <2>1. x.at = "waiting" /\ x.channel # <<>> /\ search' = [search EXCEPT ![s] = y]
      BY <1>9 DEF Collect
    <2>2. x \in Searching
      BY <2>1, <1>0 DEF Unsearched, Searching, Searched
    <2>3. x.channel \in Seq(Answer) /\ x.all \in Seq(Result) /\ x.places \in SUBSET SUBSET Result
      BY <2>2 DEF Searching
    <2>4. Covered(x.all, x.places, TopK[s]) /\ \A i \in 1 .. Len(x.channel) : Nearest(x.channel[i], s)
      BY <2>2, <1>0 DEF Keeps
    <2>5. /\ r = x.channel[1] /\ r \in Answer /\ 1 \in 1 .. Len(x.channel)
          /\ Tail(x.channel) \in Seq(Answer) /\ Len(Tail(x.channel)) = Len(x.channel) - 1
          /\ \A i \in 1 .. Len(Tail(x.channel)) : Tail(x.channel)[i] = x.channel[i + 1]
      BY <2>1, <2>3
    <2>6. /\ r.results \in Seq(Result) /\ r.place \in SUBSET Result
          /\ IsTop(r.results, r.place, TopK[s])
      BY <2>4, <2>5 DEF Nearest, Answer
    <2>7. \A i \in 1 .. Len(Tail(x.channel)) : Nearest(Tail(x.channel)[i], s)
      <3> TAKE i \in 1 .. Len(Tail(x.channel))
      <3>1. i + 1 \in 1 .. Len(x.channel)
        BY <2>3, <2>5
      <3> QED BY <3>1, <2>4, <2>5
    <2>8. Covered(x.all \o r.results, x.places \cup {r.place}, TopK[s])
      BY <2>4, <2>6, OneMoreIsCovered
    <2>9. x.all \o r.results \in Seq(Result) /\ x.places \cup {r.place} \in SUBSET SUBSET Result
      BY <2>3, <2>6
    <2> HIDE DEF r
    <2>10. /\ y \in Searching /\ y \notin Searched
           /\ y.all = x.all \o r.results /\ y.places = x.places \cup {r.place}
           /\ y.channel = Tail(x.channel)
      BY <2>2, <2>5, <2>9 DEF Searching, Searched
    <2>11. Keeps(y, s)
      BY <2>7, <2>8, <2>10 DEF Keeps
    <2>12. search' \in [Search -> Shape] /\ \A t \in Search : Keeps(search'[t], t)
      <3> HIDE DEF x, y
      <3> QED BY <2>1, <2>10, <2>11, OneSearch
    <2>13. UNCHANGED <<ready, vectors, indexing, queries, replies>>
      BY <1>9 DEF Collect
    <2> QED BY <2>12, <2>13, <1>0 DEF SemanticInv, SemanticTypes, AnswersAreNearest
  <1>10. ASSUME NEW s \in Search, BudgetEnds(s) PROVE SemanticInv'
    <2>1. search' \in [Search -> Shape] /\ \A t \in Search : Keeps(search'[t], t)
      BY <1>10, FinishedKeeps DEF BudgetEnds
    <2>2. UNCHANGED <<ready, vectors, indexing, queries, replies>>
      BY <1>10 DEF BudgetEnds
    <2> QED BY <2>1, <2>2, <1>0 DEF SemanticInv, SemanticTypes, AnswersAreNearest
  <1>11. ASSUME NEW q \in queries, HandleIncomingQuery(q[1], q[2]) PROVE SemanticInv'
    <2> DEFINE s == q[1]
               n == q[2]
               P == Rows(n, vectors[n])
    <2>1. s \in Search /\ n \in Node
      BY <1>0
    <2>2. PICK L \in LocalANN(n, TopK[s]) :
             replies' = IF L = <<>> THEN replies
                        ELSE replies \cup {[to |-> s, results |-> L, place |-> P]}
      BY <1>11 DEF HandleIncomingQuery
    <2>3. L \in Seq(Result) /\ P \in SUBSET Result /\ IsTop(L, P, TopK[s])
      BY <2>1, LocalFacts DEF SemanticInv
    <2>4. UNCHANGED <<ready, vectors, indexing, search>> /\ queries' \subseteq queries
      BY <1>11 DEF HandleIncomingQuery
    <2> DEFINE r == [to |-> s, results |-> L, place |-> P]
    <2> HIDE DEF P, n, s
    <2>5. r \in Answer /\ Nearest(r, r.to)
      BY <2>1, <2>3 DEF Answer, Nearest
    <2>6. replies' \subseteq replies \cup {r}
      BY <2>2
    <2> HIDE DEF r
    <2>7. replies' \subseteq Answer /\ \A t \in replies' : Nearest(t, t.to)
      BY <2>5, <2>6, <1>0
    <2>8. SemanticTypes'
      BY <2>4, <2>7, <1>0 DEF SemanticTypes, SemanticInv
    <2>9. AnswersAreNearest'
      BY <2>7 DEF AnswersAreNearest, Nearest
    <2> QED BY <2>4, <2>8, <2>9, <1>0 DEF SemanticInv
  <1>12. ASSUME NEW r \in replies, HandleIncomingReply(r) PROVE SemanticInv'
    <2> DEFINE s == r.to
               x == search[s]
               y == [x EXCEPT !.channel = Append(@, r)]
    <2>1. r \in Answer /\ s \in Search /\ Nearest(r, s)
      BY <1>0 DEF Answer
    <2>2. search' \in [Search -> Shape] /\ \A t \in Search : Keeps(search'[t], t)
      <3>1. CASE search' = search
        BY <3>1, <1>0 DEF SemanticInv, SemanticTypes
      <3>2. CASE search' # search
        <4>1. x.at = "waiting" /\ search' = [search EXCEPT ![s] = y]
          BY <3>2, <1>12 DEF HandleIncomingReply
        <4>2. x \in Searching
          BY <4>1, <2>1, <1>0 DEF Unsearched, Searching, Searched
        <4>3. x.channel \in Seq(Answer)
          BY <4>2 DEF Searching
        <4>4. Covered(x.all, x.places, TopK[s]) /\ \A i \in 1 .. Len(x.channel) : Nearest(x.channel[i], s)
          BY <2>1, <4>2, <1>0 DEF Keeps
        <4>5. /\ Append(x.channel, r) \in Seq(Answer)
              /\ \A i \in 1 .. Len(Append(x.channel, r)) : Nearest(Append(x.channel, r)[i], s)
          BY <2>1, <4>3, <4>4
        <4> HIDE DEF s
        <4>6. /\ y \in Searching /\ y \notin Searched
              /\ y.all = x.all /\ y.places = x.places
              /\ y.channel = Append(x.channel, r)
          BY <4>2, <4>5 DEF Searching, Searched
        <4>7. Keeps(y, s)
          BY <4>4, <4>5, <4>6 DEF Keeps
        <4> HIDE DEF x, y
        <4> QED BY <2>1, <4>1, <4>6, <4>7, OneSearch
      <3> QED BY <3>1, <3>2
    <2>3. UNCHANGED <<ready, vectors, indexing, queries>> /\ replies' \subseteq replies
      BY <1>12 DEF HandleIncomingReply
    <2> QED BY <2>2, <2>3, <1>0 DEF SemanticInv, SemanticTypes, AnswersAreNearest
  <1>13. CASE UNCHANGED semVars
    BY <1>13, <1>0, IndexStep DEF semVars
  <1> QED BY <1>1, <1>2, <1>3, <1>4, <1>5, <1>6, <1>7, <1>8, <1>9, <1>10, <1>11, <1>12, <1>13
          DEF SemanticNext

(***************************************************************************)
(* SearchFindsBest (rankAndTrim, localANN): for every number of nodes,     *)
(* documents, results wanted and answers that come in time.                *)
(***************************************************************************)
THEOREM FindsBestOfAll == SemanticSpec => []SearchFindsBest
  <1>1. SemanticInit => SemanticInv
    <2> SUFFICES ASSUME SemanticInit PROVE SemanticInv
      OBVIOUS
    <2>1. None \in Row
      BY DEF None, Row
    <2>2. SemanticTypes
      BY <2>1 DEF SemanticInit, SemanticTypes, Unsearched
    <2>3. \A s \in Search : Keeps(search[s], s)
      BY DEF SemanticInit, Keeps, Searching, Searched
    <2> QED BY <2>2, <2>3 DEF SemanticInit, SemanticInv, AnswersAreNearest
  <1>2. SemanticInv => SearchFindsBest
    <2> SUFFICES ASSUME SemanticInv, NEW s \in Search, search[s].at = "done"
                 PROVE  FindsBest(search[s].found, search[s].places, TopK[s])
      BY DEF SearchFindsBest, FindsBest
    <2>1. search[s] \in Searched
      BY DEF SemanticInv, SemanticTypes, Unsearched, Searching, Searched
    <2> QED BY <2>1 DEF SemanticInv, Keeps
  <1> QED BY <1>1, <1>2, SemanticStep, PTL DEF SemanticSpec

-----------------------------------------------------------------------------
(* How documents are selected.                                             *)

(***************************************************************************)
(* A path of one key leads to the field of that name.                      *)
(***************************************************************************)
LEMMA OneKey ==
    ASSUME NEW doc, NEW path \in Seq(STRING), Len(path) = 1
    PROVE  GetNestedValue(doc, path) = Value(doc, path[1])
  <1> DEFINE op(x, y) == Member(y, x)
             one == {1}
             g == [s \in SUBSET one |-> IF s = {} THEN Object(doc) ELSE Member(Object(doc), path[1])]
             P(f) == f = [s \in SUBSET one |-> IF s = {} THEN Object(doc)
                                     ELSE Member(f[s \ {Max(s)}], path[Max(s)])]
  <1>1. DOMAIN path = one
    OBVIOUS
  <1>2. Max(one) = 1
    BY DEF Max
  <1>3. SUBSET one = {{}, one}
    OBVIOUS
  <1>4. g[{}] = Object(doc) /\ g[one] = Member(Object(doc), path[1])
    BY <1>3
  <1>5. one \ {1} = {}
    OBVIOUS
  <1>6. P(g)
    BY <1>2, <1>3, <1>4, <1>5
  <1>7. ASSUME NEW f, P(f) PROVE f[one] = Member(Object(doc), path[1])
    <2>1. f[{}] = Object(doc)
      BY <1>7
    <2>2. f[one] = Member(f[one \ {Max(one)}], path[Max(one)])
      BY <1>7
    <2> QED BY <2>1, <2>2, <1>2, <1>5
  <1>8. P(CHOOSE f : P(f))
    BY <1>6
  <1>9. GetNestedValue(doc, path) = (CHOOSE f : P(f))[one]
    BY <1>1 DEF GetNestedValue, FoldLeft, MapThenFoldSet
  <1> QED BY <1>7, <1>8, <1>9 DEF Value

LEMMA QuestionFacts ==
    ASSUME NEW criteria \in Questions
    PROVE  /\ Len(criteria) \in Nat /\ DOMAIN criteria = 1 .. Len(criteria)
           /\ \A i \in DOMAIN criteria : criteria[i] \in Filter
  <1>1. criteria \in Seq(Filter)
    BY CommandsAssumption
  <1> QED BY <1>1

LEMMA ConditionFacts ==
    ASSUME NEW filter \in Filter, NEW c \in filter
    PROVE  /\ IsFiniteSet(filter)
           /\ IsEquality(c) => IsA("path", c)
           /\ IsA("path", c) => ~IsA("all", c) /\ ~IsA("any", c)
           /\ IsA("path", c) => c.path \in Seq(STRING)
           /\ IsEquality(c) /\ IsA("text", c.value) => c.value = Text(c.value.text)
  <1>1. IsFiniteSet(filter) /\ IsCondition(c)
    BY FilterAssumption
  <1> QED BY <1>1 DEF IsCondition, IsEquality, IsA

LEMMA OneFilter ==
    ASSUME NEW criteria \in Questions, Len(criteria) = 1
    PROVE  /\ DOMAIN criteria = {1} /\ criteria[1] \in Filter
           /\ Matching(criteria) =
                {d \in documents : \A c \in criteria[1] : IsA("path", c) /\ MatchesCondition(d, c)}
  <1>1. DOMAIN criteria = {1} /\ criteria[1] \in Filter
    BY QuestionFacts
  <1> QED BY <1>1 DEF Matching, CriteriaFilter

LEMMA EqualityMatches ==
    ASSUME NEW filter \in Filter, NEW c \in filter, IsEquality(c), Len(c.path) = 1, NEW d
    PROVE  /\ IsA("path", c)
           /\ MatchesCondition(d, c) <=> Value(d, c.path[1]) = c.value
  <1>1. IsA("path", c) /\ c.path \in Seq(STRING)
    BY ConditionFacts
  <1>2. GetNestedValue(d, c.path) = Value(d, c.path[1])
    BY <1>1, OneKey
  <1> QED BY <1>1, <1>2 DEF MatchesCondition

(***************************************************************************)
(* The look-up by id finds what the filter selects.                        *)
(***************************************************************************)
LEMMA ById ==
    ASSUME NEW criteria \in Questions, Len(criteria) = 1, IdOnlyFilter(criteria[1]), ~NeverFound(criteria)
    PROVE  Get(IdOf(criteria[1])) = Matching(criteria)
  <1> DEFINE filter == criteria[1]
  <1>1. filter \in Filter /\ Cardinality(filter) = 1
    BY OneFilter DEF IdOnlyFilter
  <1>2. PICK c : filter = {c}
    <2>1. IsFiniteSet(filter)
      BY <1>1, FilterAssumption
    <2>2. filter # {}
      BY <1>1, FS_EmptySet
    <2>3. PICK x \in filter : TRUE
      BY <2>2
    <2>4. IsFiniteSet(filter \ {x}) /\ Cardinality(filter \ {x}) = 0
      BY <1>1, <2>1, FS_RemoveElement
    <2>5. filter \ {x} = {}
      BY <2>4, FS_EmptySet
    <2> QED BY <2>3, <2>5
  <1>3. c \in filter /\ IsEquality(c) /\ c.path = <<"_id">> /\ IsA("text", c.value)
    BY <1>2 DEF IdOnlyFilter
  <1>4. c.value = Text(c.value.text)
    BY <1>1, <1>3, ConditionFacts
  <1>5. Len(c.path) = 1 /\ c.path[1] = "_id"
    BY <1>3
  <1>6. IdOf(filter) = c.value.text
    BY <1>2 DEF IdOf
  <1>7. Matching(criteria) = {d \in documents : Value(d, "_id") = c.value}
    <2>1. \A d : IsA("path", c) /\ (MatchesCondition(d, c) <=> Value(d, "_id") = c.value)
      BY <1>1, <1>3, <1>5, EqualityMatches
    <2> QED BY <2>1, <1>2, OneFilter
  <1>8. Get(c.value.text) = {d \in documents : Value(d, "_id") = Text(c.value.text)}
    <2> DEFINE id == c.value.text
    <2>1. IdOnlyCriteria(criteria)
      BY DEF IdOnlyCriteria
    <2>2. id \in DOMAIN Respelled => Respelled[id] = id
      BY <2>1, <1>6 DEF NeverFound
    <2> QED BY <2>2, CommandsAssumption DEF Get, DocKey
  <1> QED BY <1>4, <1>6, <1>7, <1>8

(***************************************************************************)
(* What a filter selects is listed under the values of its equalities.     *)
(***************************************************************************)
LEMMA ByFieldsFinds ==
    ASSUME NEW criteria \in Questions, Len(criteria) = 1,
           NEW equal \in SUBSET {c \in criteria[1] : IsIndexable(c)}
    PROVE  Matching(criteria) \subseteq ByFields(equal)
  <1>1. criteria[1] \in Filter
    BY OneFilter
  <1>2. \A c \in equal : \A d : MatchesCondition(d, c) <=> Value(d, c.path[1]) = c.value
    BY <1>1, EqualityMatches DEF IsIndexable
  <1> QED BY <1>2, OneFilter DEF ByFields

(***************************************************************************)
(* matchesCriteriaEnhanced and criteriaFilter agree on a filter without    *)
(* $and and $or.                                                           *)
(***************************************************************************)
LEMMA CommonFilter ==
    ASSUME NEW criteria \in Questions, Len(criteria) = 1, IsCommon(criteria[1])
    PROVE  OfFirst(criteria) = Matching(criteria)
  <1> DEFINE filter == criteria[1]
  <1>1. filter \in Filter
    BY OneFilter
  <1>2. \A c \in filter : IsA("path", c) /\ ~IsA("all", c) /\ ~IsA("any", c)
    BY <1>1, ConditionFacts DEF IsCommon
  <1>3. \A d : MatchesCriteria(d, filter) <=> \A c \in filter : MatchesCondition(d, c)
    BY <1>2 DEF MatchesCriteria, Holds
  <1> QED BY <1>2, <1>3, OneFilter DEF OfFirst

LEMMA IndexedFinds ==
    ASSUME NEW criteria \in Questions
    PROVE  QueryIndexed(criteria) = Matching(criteria) \/ ~UsesIndexes(criteria)
  <1>1. CASE Len(criteria) # 1
    BY <1>1 DEF UsesIndexes, Indexed, IndexableEqualities
  <1>2. CASE Len(criteria) = 1
    <2>1. Indexed(IndexableEqualities(criteria)) \in SUBSET {c \in criteria[1] : IsIndexable(c)}
      BY <1>2 DEF Indexed, IndexableEqualities
    <2> QED BY <2>1, <1>2, ByFieldsFinds DEF QueryIndexed
  <1> QED BY <1>1, <1>2

(***************************************************************************)
(* SelectAlike (queryLocalDB, queryLocalRaw, crudGetDocStoreRev,           *)
(* crudUpdateDocStoreRev, crudDeleteDocStoreRev): every way to read the    *)
(* store finds what the criteria select, for any documents and any         *)
(* criteria.                                                               *)
(***************************************************************************)
THEOREM ReadsAgree == CommandsSpec => []SelectAlike
  <1>1. SelectAlike
    <2> SUFFICES ASSUME NEW criteria \in Questions, ~NeverFound(criteria)
                 PROVE  /\ QueryLocalDB(criteria) = Matching(criteria)
                        /\ QueryLocalRaw(criteria) = Matching(criteria)
                        /\ Len(criteria) = 1 /\ IsCommon(criteria[1]) =>
                               /\ CrudGet(criteria) = Matching(criteria)
                               /\ ToUpdate(criteria) = Matching(criteria)
                               /\ ToDelete(criteria) = Matching(criteria)
      BY DEF SelectAlike
    <2>1. IdOnlyCriteria(criteria) => Get(IdOf(criteria[1])) = Matching(criteria)
      BY ById DEF IdOnlyCriteria
    <2>2. UsesIndexes(criteria) => QueryIndexed(criteria) = Matching(criteria)
      BY IndexedFinds
    <2>3. QueryLocalDB(criteria) = Matching(criteria)
      BY <2>1, <2>2 DEF QueryLocalDB
    <2>4. ExactEqualities(criteria) => ByFields(criteria[1]) = Matching(criteria)
      <3> SUFFICES ASSUME ExactEqualities(criteria) PROVE ByFields(criteria[1]) = Matching(criteria)
        OBVIOUS
      <3>1. Len(criteria) = 1 /\ \A c \in criteria[1] : IsIndexable(c)
        BY DEF ExactEqualities
      <3>2. criteria[1] \in Filter
        BY <3>1, OneFilter
      <3>3. \A c \in criteria[1] : \A d :
                /\ IsA("path", c)
                /\ MatchesCondition(d, c) <=> Value(d, c.path[1]) = c.value
        BY <3>1, <3>2, EqualityMatches DEF IsIndexable
      <3> QED BY <3>1, <3>3, OneFilter DEF ByFields
    <2>5. QueryLocalRaw(criteria) = Matching(criteria)
      BY <2>1, <2>2, <2>4 DEF QueryLocalRaw
    <2>6. ASSUME Len(criteria) = 1, IsCommon(criteria[1])
          PROVE  /\ CrudGet(criteria) = Matching(criteria)
                 /\ ToUpdate(criteria) = Matching(criteria)
                 /\ ToDelete(criteria) = Matching(criteria)
      <3>1. OfFirst(criteria) = Matching(criteria)
        BY <2>6, CommonFilter
      <3>2. ToDelete(criteria) = Matching(criteria)
        BY <3>1 DEF ToDelete
      <3>3. ToUpdate(criteria) = Matching(criteria)
        BY <3>1, <2>6, ById DEF ToUpdate
      <3>4. CrudGet(criteria) = Matching(criteria)
        <4>1. CASE criteria \in {<<>>, <<{}>>}
          <5>1. criteria[1] = {}
            BY <4>1, <2>6
          <5>2. Matching(criteria) = documents
            BY <5>1, <2>6, OneFilter
          <5> QED BY <5>2, <4>1 DEF CrudGet
        <4>2. CASE criteria \notin {<<>>, <<{}>>}
          BY <4>2, <3>1 DEF CrudGet
        <4> QED BY <4>1, <4>2
      <3> QED BY <3>2, <3>3, <3>4
    <2> QED BY <2>3, <2>5, <2>6
  <1> QED BY <1>1, PTL

-----------------------------------------------------------------------------
(* How documents are put.                                                  *)

(***************************************************************************)
(* A put and what is left of it: of its documents the first k were         *)
(* written or reported, and the others wait, those of a batch that was     *)
(* refused before those that are in no batch yet.                          *)
(***************************************************************************)
Docs == ToSet(put.docs)

(***************************************************************************)
(* What a put keeps.                                                       *)
(***************************************************************************)
PutTypeOK ==
    \/ put = NoPut
    \/ put \in [at : {"writing"}, docs : Seq(Docs), failed : SUBSET Docs, rest : Seq(Docs), single : Seq(Docs)]

\* Document i is there, was reported, or has a later one with its key.
Kept(i, stored) ==
    \/ put.docs[i] \in stored \cup put.failed
    \/ \E j \in 1 .. Len(put.docs) : j > i /\ DocKey(put.docs[j]) = DocKey(put.docs[i])

Written(k) ==
    /\ Len(put.docs) = k + Len(put.single) + Len(put.rest)
    /\ \A i \in 1 .. Len(put.single) : put.single[i] = put.docs[k + i]
    /\ \A i \in 1 .. Len(put.rest) : put.rest[i] = put.docs[k + Len(put.single) + i]
    /\ put.failed = {put.docs[i] : i \in {i \in 1 .. k : ~Keyed(put.docs[i])}}
    /\ \A i \in 1 .. k : Kept(i, documents)

(***************************************************************************)
(* What holds of a put, wherever it is.                                    *)
(***************************************************************************)
PutInv == PutTypeOK /\ (put.at = "writing" => \E k \in Nat : Written(k))

(***************************************************************************)
(* A set of numbers has a least one.                                       *)
(***************************************************************************)
LEMMA Least ==
    ASSUME NEW S \in SUBSET Nat, S # {}
    PROVE  Min(S) \in S /\ \A n \in S : Min(S) <= n
  <1>1. PICK m \in S : \A n \in S : ~ (<<n, m>> \in OpToRel(<, Nat))
    BY NatLessThanWellFounded, WFMin
  <1>2. ASSUME NEW n \in S PROVE m <= n
    <2>1. <<n, m>> \in Nat \X Nat /\ <<n, m>>[1] = n /\ <<n, m>>[2] = m
      OBVIOUS
    <2>2. ~ (n < m)
      BY <1>1, <2>1 DEF OpToRel
    <2> QED BY <2>2
  <1> QED BY <1>2 DEF Min

(***************************************************************************)
(* splitBatches: a batch is the first documents that are left, at least    *)
(* one, and it has at most what fits into an entry.                        *)
(***************************************************************************)
LEMMA BatchFacts ==
    ASSUME NEW D, NEW docs \in Seq(D), docs # <<>>
    PROVE  \E n \in 1 .. Len(docs) :
             /\ FirstBatch(docs) = SubSeq(docs, 1, n)
             /\ n <= MaxDocs /\ (Size(FirstBatch(docs)) > MaxBytes => n = 1)
  <1> DEFINE Ends == {n \in DOMAIN docs : n = Len(docs) \/ Full(SubSeq(docs, 1, n), docs[n + 1])}
             n == Min(Ends)
  <1>1. DOMAIN docs = 1 .. Len(docs) /\ Len(docs) \in Nat /\ Len(docs) \in 1 .. Len(docs)
    OBVIOUS
  <1>2. Len(docs) \in Ends /\ Ends \in SUBSET Nat
    BY <1>1
  <1>3. n \in Ends /\ \A m \in Ends : n <= m
    BY <1>2, Least
  <1>4. FirstBatch(docs) = SubSeq(docs, 1, n)
    BY DEF FirstBatch
  <1> HIDE DEF n
  <1>5. n \in 1 .. Len(docs)
    BY <1>1, <1>3
  <1>6. CASE n = 1
    BY <1>4, <1>5, <1>6, CommandsAssumption
  <1>7. CASE n # 1
    <2> DEFINE m == n - 1
               front == SubSeq(docs, 1, m)
    <2>1. m \in 1 .. Len(docs) /\ m + 1 = n /\ m # Len(docs) /\ ~ (n <= m)
      BY <1>5, <1>7
    <2>2. ~Full(front, docs[n])
      BY <2>1, <1>1, <1>3
    <2>3. front \in Seq(D) /\ Len(front) = m /\ front # <<>>
      BY <2>1
    <2>4. Append(front, docs[n]) = SubSeq(docs, 1, n)
      <3>1. SubSeq(docs, 1, n) \in Seq(D) /\ Len(SubSeq(docs, 1, n)) = n
        BY <1>5
      <3>2. docs[n] \in D
        BY <1>5, <1>1
      <3>3. Append(front, docs[n]) \in Seq(D) /\ Len(Append(front, docs[n])) = n
        BY <2>1, <2>3, <3>2
      <3>4. \A i \in 1 .. n : Append(front, docs[n])[i] = SubSeq(docs, 1, n)[i]
        BY <2>1, <2>3, <1>5, <3>2
      <3> QED BY <3>1, <3>3, <3>4
    <2>5. ~ (m >= MaxDocs) /\ ~ (Size(SubSeq(docs, 1, n)) > MaxBytes)
      BY <2>2, <2>3, <2>4 DEF Full
    <2> QED BY <2>1, <2>5, <1>4, <1>5, CommandsAssumption
  <1> QED BY <1>6, <1>7

(***************************************************************************)
(* The documents of a put are a sequence.                                  *)
(***************************************************************************)
LEMMA PreparedFacts ==
    ASSUME NEW records \in Inserts, NEW ids
    PROVE  Prepared(records, ids) \in Seq(ToSet(Prepared(records, ids)))
  <1> DEFINE full == {i \in DOMAIN records : records[i] # <<>>}
             docs == Prepared(records, ids)
  <1>1. records \in Seq(ToSet(records))
    BY CommandsAssumption
  <1>2. IsFiniteSet(1 .. Len(records)) /\ full \subseteq 1 .. Len(records)
    BY <1>1, FS_Interval
  <1>3. Cardinality(full) \in Nat
    BY <1>2, FS_Subset, FS_CardinalityType
  <1>4. DOMAIN Given(records) = 1 .. Cardinality(full)
    BY DEF Given
  <1>5. DOMAIN docs = 1 .. Cardinality(full) /\ docs = [i \in DOMAIN docs |-> docs[i]]
    BY <1>4 DEF Prepared
  <1> HIDE DEF docs
  <1>6. docs \in [1 .. Cardinality(full) -> ToSet(docs)]
    BY <1>5 DEF ToSet
  <1>7. PICK n \in Nat : docs \in [1 .. n -> ToSet(docs)]
    BY <1>3, <1>6
  <1> QED BY <1>7, SeqDef DEF docs

LEMMA PutInitially == CommandsInit => PutInv
  BY DEF CommandsInit, PutInv, PutTypeOK, NoPut

LEMMA PutStarts ==
    ASSUME PutInv, NEW records \in Inserts, NEW ids \in Unused, CrudPut(records, ids)
    PROVE  PutInv'
  <1> DEFINE docs == Prepared(records, ids)
             few == Len(docs) <= FewDocs
  <1>1. put' = [at |-> "writing", docs |-> docs, failed |-> {},
                rest |-> IF few THEN <<>> ELSE docs, single |-> IF few THEN docs ELSE <<>>]
    BY DEF CrudPut
  <1>2. docs \in Seq(ToSet(docs))
    BY PreparedFacts
  <1> HIDE DEF docs
  <1>3. PutTypeOK'
    BY <1>1, <1>2 DEF PutTypeOK, Docs
  <1>4. Written(0)'
    <2>1. /\ put'.docs = docs /\ put'.failed = {}
          /\ \/ put'.rest = <<>> /\ put'.single = docs
             \/ put'.rest = docs /\ put'.single = <<>>
      BY <1>1
    <2>2. Len(docs) \in Nat
      BY <1>2
    <2>3. Len(put'.docs) = 0 + Len(put'.single) + Len(put'.rest)
      <3>1. Len(<<>>) = 0
        OBVIOUS
      <3>2. CASE put'.rest = <<>> /\ put'.single = docs
        BY <2>1, <2>2, <3>1, <3>2
      <3>3. CASE put'.rest = docs /\ put'.single = <<>>
        BY <2>1, <2>2, <3>1, <3>3
      <3> QED BY <2>1, <3>2, <3>3
    <2>4. \A i \in 1 .. Len(put'.single) : put'.single[i] = put'.docs[0 + i]
      BY <2>1, <2>2
    <2>5. \A i \in 1 .. Len(put'.rest) : put'.rest[i] = put'.docs[0 + Len(put'.single) + i]
      BY <2>1, <2>2
    <2>6. 1 .. 0 = {}
      OBVIOUS
    <2> QED BY <2>1, <2>3, <2>4, <2>5, <2>6 DEF Written
  <1> QED BY <1>3, <1>4 DEF PutInv

(***************************************************************************)
(* The next n documents are stored: nothing of what was written before is  *)
(* lost, except to a later document with its key.                          *)
(***************************************************************************)
LEMMA StoredKeeps ==
    ASSUME put.docs \in Seq(Docs), NEW k \in Nat, Written(k),
           NEW batch \in Seq(Docs), k + Len(batch) <= Len(put.docs),
           \A i \in 1 .. Len(batch) : batch[i] = put.docs[k + i]
    PROVE  \A i \in 1 .. k + Len(batch) : Kept(i, Stored(batch))
  <1> DEFINE docs == put.docs
  <1>0. DOMAIN batch = 1 .. Len(batch) /\ Len(batch) \in Nat /\ Len(docs) \in Nat
    OBVIOUS
  <1>1. ASSUME NEW i \in 1 .. k
        PROVE  Kept(i, Stored(batch))
    <2>0. Kept(i, documents)
      BY DEF Written
    <2>1. CASE docs[i] \in documents /\ \A b \in DOMAIN batch : DocKey(docs[i]) # DocKey(batch[b])
      BY <2>1 DEF Stored, Kept
    <2>2. CASE \E b \in DOMAIN batch : DocKey(docs[i]) = DocKey(batch[b])
      <3>1. PICK b \in 1 .. Len(batch) : DocKey(docs[i]) = DocKey(docs[k + b])
        BY <2>2, <1>0
      <3>2. k + b \in 1 .. Len(docs) /\ k + b > i
        BY <1>0
      <3> QED BY <3>1, <3>2 DEF Kept
    <2> QED BY <2>0, <2>1, <2>2 DEF Kept
  <1>2. ASSUME NEW i \in k + 1 .. k + Len(batch)
        PROVE  Kept(i, Stored(batch))
    <2> DEFINE b == i - k
    <2>1. b \in 1 .. Len(batch) /\ k + b = i
      BY <1>0
    <2>2. batch[b] = docs[i]
      BY <2>1
    <2>3. CASE \A j \in DOMAIN batch : j > b => DocKey(batch[j]) # DocKey(batch[b])
      BY <2>1, <2>2, <2>3, <1>0 DEF Stored, Kept
    <2>4. CASE \E j \in DOMAIN batch : j > b /\ DocKey(batch[j]) = DocKey(batch[b])
      <3>1. PICK j \in 1 .. Len(batch) : j > b /\ DocKey(batch[j]) = DocKey(batch[b])
        BY <2>4, <1>0
      <3>2. k + j \in 1 .. Len(docs) /\ k + j > i /\ DocKey(docs[k + j]) = DocKey(docs[i])
        BY <3>1, <2>1, <2>2, <1>0
      <3> QED BY <3>2 DEF Kept
    <2> QED BY <2>3, <2>4
  <1>3. \A i \in 1 .. k + Len(batch) : i \in 1 .. k \/ i \in k + 1 .. k + Len(batch)
    BY <1>0
  <1> QED BY <1>1, <1>2, <1>3

LEMMA PutsOne ==
    ASSUME PutInv, PutOne
    PROVE  PutInv'
  <1>1. put.at = "writing" /\ put.single # <<>>
    BY DEF PutOne
  <1> DEFINE docs == put.docs
             d == Head(put.single)
             n == Len(put.single)
  <1>2. /\ put \in [at : {"writing"}, docs : Seq(Docs), failed : SUBSET Docs, rest : Seq(Docs), single : Seq(Docs)]
        /\ docs \in Seq(Docs)
    BY <1>1 DEF PutInv, PutTypeOK, NoPut
  <1>3. PICK k \in Nat : Written(k)
    BY <1>1 DEF PutInv
  <1>4. /\ n \in Nat \ {0} /\ Len(put.rest) \in Nat /\ Len(docs) = k + n + Len(put.rest)
        /\ d \in Docs /\ d = put.single[1] /\ Tail(put.single) \in Seq(Docs) /\ Len(Tail(put.single)) = n - 1
        /\ \A i \in 1 .. n - 1 : Tail(put.single)[i] = put.single[i + 1]
    BY <1>1, <1>2, <1>3 DEF Written
  <1>5. d = docs[k + 1] /\ k + 1 \in 1 .. Len(docs) /\ k + 1 \in Nat
    <2>1. 1 \in 1 .. n
      BY <1>4
    <2>2. put.single[1] = docs[k + 1]
      BY <2>1, <1>3 DEF Written
    <2>3. k + 1 \in 1 .. Len(docs) /\ k + 1 \in Nat
      <3> DEFINE m == Len(docs)
                 r == Len(put.rest)
      <3>1. k \in Nat /\ n \in Nat \ {0} /\ r \in Nat /\ m = k + n + r
        BY <1>3, <1>4
      <3> HIDE DEF n, m, r
      <3>2. k + 1 <= m /\ m \in Nat
        BY ONLY <3>1
      <3> QED BY <3>1, <3>2 DEF m
    <2> QED BY <2>2, <2>3, <1>4
  <1>6. /\ put'.at = "writing" /\ put'.docs = docs /\ put'.rest = put.rest /\ put'.single = Tail(put.single)
        /\ put' = [put EXCEPT !.single = Tail(put.single), !.failed = put'.failed]
        /\ \/ Keyed(d) /\ documents' = Stored(<<d>>) /\ put'.failed = put.failed
           \/ ~Keyed(d) /\ documents' = documents /\ put'.failed = put.failed \cup {d}
    BY <1>2 DEF PutOne
  <1>7. PutTypeOK'
    <2>1. put'.failed \in SUBSET Docs /\ Docs' = Docs
      BY <1>2, <1>4, <1>6 DEF Docs
    <2> QED BY <2>1, <1>2, <1>4, <1>6 DEF PutTypeOK
  <1>8. Written(k + 1)'
    <2>1. Len(put'.docs) = (k + 1) + Len(put'.single) + Len(put'.rest)
      BY <1>4, <1>6
    <2>2. ASSUME NEW i \in 1 .. Len(put'.single) PROVE put'.single[i] = put'.docs[(k + 1) + i]
      <3>0. i \in 1 .. n - 1 /\ n \in Nat /\ k \in Nat
        BY <1>3, <1>4, <1>6
      <3>1. i \in 1 .. n - 1 /\ i + 1 \in 1 .. n /\ (k + 1) + i = k + (i + 1)
        <4> HIDE DEF n
        <4> QED BY ONLY <3>0
      <3>2. put.single[i + 1] = docs[k + (i + 1)]
        BY <3>1, <1>3 DEF Written
      <3> QED BY <3>1, <3>2, <1>4, <1>6
    <2>3. ASSUME NEW i \in 1 .. Len(put'.rest) PROVE put'.rest[i] = put'.docs[(k + 1) + Len(put'.single) + i]
      <3>1. i \in 1 .. Len(put.rest) /\ (k + 1) + Len(put'.single) + i = k + n + i
        BY <1>4, <1>6
      <3>2. put.rest[i] = docs[k + n + i]
        BY <3>1, <1>3 DEF Written
      <3> QED BY <3>1, <3>2, <1>6
    <2>4. put'.failed = {docs[i] : i \in {i \in 1 .. k + 1 : ~Keyed(docs[i])}}
      <3>1. \A i \in 1 .. k + 1 : i \in 1 .. k \/ i = k + 1
        OBVIOUS
      <3>2. 1 .. k \subseteq 1 .. k + 1 /\ k + 1 \in 1 .. k + 1
        OBVIOUS
      <3>3. put.failed = {docs[i] : i \in {i \in 1 .. k : ~Keyed(docs[i])}}
        BY <1>3 DEF Written
      <3> HIDE DEF docs, d
      <3>4. CASE Keyed(d)
        <4>1. {i \in 1 .. k + 1 : ~Keyed(docs[i])} = {i \in 1 .. k : ~Keyed(docs[i])}
          BY <3>1, <3>2, <3>4, <1>5
        <4> QED BY <4>1, <3>3, <3>4, <1>6
      <3>5. CASE ~Keyed(d)
        <4>1. {i \in 1 .. k + 1 : ~Keyed(docs[i])} = {i \in 1 .. k : ~Keyed(docs[i])} \cup {k + 1}
          BY <3>1, <3>2, <3>5, <1>5
        <4> QED BY <4>1, <3>3, <3>5, <1>5, <1>6
      <3> QED BY <3>4, <3>5
    <2>5. \A i \in 1 .. k + 1 : Kept(i, documents)'
      <3>1. \A i \in 1 .. k + 1 : i \in 1 .. k \/ i = k + 1
        OBVIOUS
      <3>2. CASE ~Keyed(d)
        <4>1. documents' = documents /\ put'.failed = put.failed \cup {d}
          BY <3>2, <1>6
        <4>2. \A i \in 1 .. k : Kept(i, documents)
          BY <1>3 DEF Written
        <4>3. \A i \in 1 .. k : Kept(i, documents)'
          BY <4>1, <4>2, <1>6 DEF Kept
        <4>4. Kept(k + 1, documents)'
          BY <4>1, <1>5, <1>6 DEF Kept
        <4> QED BY <4>3, <4>4, <3>1
      <3>3. CASE Keyed(d)
        <4> DEFINE batch == <<d>>
        <4>1. batch \in Seq(Docs) /\ Len(batch) = 1 /\ k + 1 <= Len(docs)
          <5>1. d \in Docs
            BY <1>4
          <5>2. k + 1 <= Len(docs)
            <6> HIDE DEF docs
            <6> QED BY <1>5
          <5> HIDE DEF d
          <5> QED BY <5>1, <5>2
        <4>2. \A i \in 1 .. Len(batch) : batch[i] = docs[k + i]
          BY <1>5, <4>1
        <4>3. documents' = Stored(batch) /\ put'.failed = put.failed
          BY <3>3, <1>6
        <4> HIDE DEF batch
        <4>4. \A i \in 1 .. k + 1 : Kept(i, Stored(batch))
          BY <4>1, <4>2, <1>2, <1>3, StoredKeeps
        <4> QED BY <4>3, <4>4, <1>6 DEF Kept
      <3> QED BY <3>2, <3>3
    <2>6. put'.docs = docs
      BY <1>6
    <2> HIDE DEF docs, n, d
    <2> QED BY <2>1, <2>2, <2>3, <2>4, <2>5, <2>6 DEF Written
  <1> QED BY <1>5, <1>7, <1>8 DEF PutInv

LEMMA PutsBatch ==
    ASSUME PutInv, PutBatch
    PROVE  PutInv'
  <1>1. put.at = "writing" /\ put.single = <<>> /\ put.rest # <<>>
    BY DEF PutBatch
  <1> DEFINE docs == put.docs
             r == Len(put.rest)
             batch == FirstBatch(put.rest)
             rest == SubSeq(put.rest, Len(batch) + 1, r)
  <1>2. /\ put \in [at : {"writing"}, docs : Seq(Docs), failed : SUBSET Docs, rest : Seq(Docs), single : Seq(Docs)]
        /\ docs \in Seq(Docs) /\ put.rest \in Seq(Docs) /\ r \in Nat /\ Len(docs) \in Nat
    BY <1>1 DEF PutInv, PutTypeOK, NoPut
  <1>3. PICK k \in Nat : Written(k)
    BY <1>1 DEF PutInv
  <1>4. PICK n \in 1 .. r : batch = SubSeq(put.rest, 1, n)
    BY <1>1, <1>2, BatchFacts
  <1>5. /\ batch \in Seq(Docs) /\ Len(batch) = n /\ DOMAIN batch = 1 .. n
        /\ \A i \in 1 .. n : batch[i] = put.rest[i]
    BY <1>2, <1>4
  <1>6. /\ rest \in Seq(Docs) /\ Len(rest) = r - n
        /\ \A i \in 1 .. r - n : rest[i] = put.rest[n + i]
    BY <1>2, <1>4, <1>5
  <1>7. Len(docs) = k + r /\ \A i \in 1 .. r : put.rest[i] = docs[k + i]
    <2>1. Len(put.single) = 0
      BY <1>1
    <2> QED BY <2>1, <1>2, <1>3 DEF Written
  <1>8. \A i \in 1 .. n : i \in 1 .. r /\ batch[i] = docs[k + i]
    <2> HIDE DEF docs, r, batch, rest
    <2>1. ASSUME NEW i \in 1 .. n PROVE i \in 1 .. r /\ batch[i] = docs[k + i]
      <3>1. i \in 1 .. r
        BY <1>2, <1>4
      <3> QED BY <3>1, <1>5, <1>7
    <2> QED BY <2>1
  <1>9. \A i \in 1 .. r - n : n + i \in 1 .. r /\ rest[i] = docs[k + (n + i)]
    <2> HIDE DEF docs, r, batch, rest
    <2>1. ASSUME NEW i \in 1 .. r - n PROVE n + i \in 1 .. r /\ rest[i] = docs[k + (n + i)]
      <3>1. n + i \in 1 .. r
        BY <1>2, <1>4
      <3> QED BY <3>1, <1>6, <1>7
    <2> QED BY <2>1
  <1>10. /\ put'.at = "writing" /\ put'.docs = docs /\ put'.rest = rest /\ put'.failed = put.failed
         /\ put' = [put EXCEPT !.rest = rest, !.single = put'.single]
         /\ \/ (\A i \in DOMAIN batch : Keyed(batch[i])) /\ documents' = Stored(batch) /\ put'.single = <<>>
            \/ documents' = documents /\ put'.single = batch
    BY <1>1, <1>2 DEF PutBatch, OneByOne
  <1>11. PutTypeOK'
    <2>1. Docs' = Docs /\ put'.single \in Seq(Docs)
      <3> HIDE DEF docs, batch, rest
      <3>1. <<>> \in Seq(Docs)
        OBVIOUS
      <3>2. put'.single \in Seq(Docs)
        BY <3>1, <1>5, <1>10
      <3> QED BY <3>2, <1>10 DEF Docs, docs
    <2> QED BY <2>1, <1>2, <1>6, <1>10 DEF PutTypeOK
  <1>12. CASE documents' = documents /\ put'.single = batch
    <2>1. Len(put'.docs) = k + Len(put'.single) + Len(put'.rest)
      <3> HIDE DEF docs, r, batch, rest
      <3> QED BY <1>2, <1>3, <1>4, <1>5, <1>6, <1>7, <1>10, <1>12
    <2>2. \A i \in 1 .. Len(put'.single) : put'.single[i] = put'.docs[k + i]
      BY <1>5, <1>8, <1>10, <1>12
    <2>3. ASSUME NEW i \in 1 .. Len(put'.rest) PROVE put'.rest[i] = put'.docs[k + Len(put'.single) + i]
      <3> HIDE DEF docs, r, batch, rest
      <3>1. i \in 1 .. r - n /\ Len(put'.single) = n
        BY <1>5, <1>6, <1>10, <1>12
      <3>2. k + n + i = k + (n + i)
        BY <1>2, <1>3, <1>4, <3>1
      <3> QED BY <3>1, <3>2, <1>9, <1>10
    <2>4. put'.failed = {put'.docs[i] : i \in {i \in 1 .. k : ~Keyed(put'.docs[i])}}
      BY <1>3, <1>10 DEF Written
    <2>5. \A i \in 1 .. k : Kept(i, documents)'
      BY <1>3, <1>10, <1>12 DEF Written, Kept
    <2> HIDE DEF docs, batch, rest
    <2>6. Written(k)'
      BY <2>1, <2>2, <2>3, <2>4, <2>5 DEF Written
    <2> QED BY <2>6, <1>3, <1>11 DEF PutInv
  <1>13. CASE (\A i \in DOMAIN batch : Keyed(batch[i])) /\ documents' = Stored(batch) /\ put'.single = <<>>
    <2>0. k + n \in Nat /\ k + n <= Len(docs)
      <3> HIDE DEF docs, r, batch, rest
      <3> QED BY <1>2, <1>3, <1>4, <1>7
    <2>1. Len(put'.docs) = (k + n) + Len(put'.single) + Len(put'.rest)
      <3>1. Len(put'.single) = 0
        BY <1>13
      <3> HIDE DEF docs, r, batch, rest
      <3> QED BY <3>1, <1>2, <1>3, <1>4, <1>6, <1>7, <1>10
    <2>2. \A i \in 1 .. Len(put'.single) : put'.single[i] = put'.docs[(k + n) + i]
      BY <1>13
    <2>3. ASSUME NEW i \in 1 .. Len(put'.rest) PROVE put'.rest[i] = put'.docs[(k + n) + Len(put'.single) + i]
      <3>1. Len(put'.single) = 0
        BY <1>13
      <3> HIDE DEF docs, r, batch, rest
      <3>2. i \in 1 .. r - n
        BY <1>6, <1>10
      <3>3. (k + n) + 0 + i = k + (n + i)
        BY <1>2, <1>3, <1>4, <3>2
      <3> QED BY <3>1, <3>2, <3>3, <1>9, <1>10
    <2>4. put'.failed = {put'.docs[i] : i \in {i \in 1 .. k + n : ~Keyed(put'.docs[i])}}
      <3> HIDE DEF docs, r, batch, rest
      <3>1. ASSUME NEW i \in 1 .. k + n PROVE i \in 1 .. k \/ Keyed(docs[i])
        <4>1. CASE ~ (i <= k)
          <5>1. i - k \in 1 .. n /\ k + (i - k) = i
            BY <4>1, <1>2, <1>3, <1>4
          <5>2. batch[i - k] = docs[i] /\ Keyed(batch[i - k])
            BY <5>1, <1>5, <1>8, <1>13
          <5> QED BY <5>2
        <4> QED BY <4>1, <1>3
      <3>2. 1 .. k \subseteq 1 .. k + n
        BY <1>2, <1>3, <1>4
      <3>3. {i \in 1 .. k + n : ~Keyed(docs[i])} = {i \in 1 .. k : ~Keyed(docs[i])}
        BY <3>1, <3>2
      <3>4. put.failed = {docs[i] : i \in {i \in 1 .. k : ~Keyed(docs[i])}}
        BY <1>3 DEF Written, docs
      <3> QED BY <3>3, <3>4, <1>10
    <2>5. \A i \in 1 .. k + n : Kept(i, documents)'
      <3> HIDE DEF r, batch, rest
      <3>1. \A i \in 1 .. k + Len(batch) : Kept(i, Stored(batch))
        BY <2>0, <1>2, <1>3, <1>5, <1>8, StoredKeeps
      <3> QED BY <3>1, <1>5, <1>10, <1>13 DEF Kept
    <2> HIDE DEF docs, batch, rest
    <2>6. Written(k + n)'
      BY <2>1, <2>2, <2>3, <2>4, <2>5 DEF Written
    <2> QED BY <2>0, <2>6, <1>11 DEF PutInv
  <1> QED BY <1>10, <1>12, <1>13

LEMMA PutStep == PutInv /\ [CommandsNext]_docVars => PutInv'
  <1> SUFFICES ASSUME PutInv, [CommandsNext]_docVars PROVE PutInv'
    OBVIOUS
  <1>1. CASE put = NoPut /\ put' = put
    BY <1>1 DEF PutInv, PutTypeOK, NoPut
  <1>2. CASE put' = NoPut
    BY <1>2 DEF PutInv, PutTypeOK, NoPut
  <1>3. CASE UNCHANGED docVars
    <2>1. put' = put /\ documents' = documents
      BY <1>3 DEF docVars
    <2>2. PutTypeOK'
      BY <2>1 DEF PutInv, PutTypeOK, Docs
    <2>3. ASSUME NEW k \in Nat, Written(k) PROVE Written(k)'
      BY <2>1, <2>3 DEF Written, Kept
    <2> QED BY <2>1, <2>2, <2>3 DEF PutInv
  <1>4. CASE PutEnds
    BY <1>2, <1>4 DEF PutEnds
  <1>5. ASSUME NEW criteria \in Selectors, Delete(criteria) PROVE PutInv'
    BY <1>1, <1>5 DEF Delete
  <1>6. ASSUME NEW criteria \in Selectors, NEW changes \in Changes, Update(criteria, changes) PROVE PutInv'
    BY <1>1, <1>6 DEF Update
  <1>7. ASSUME NEW records \in Inserts, NEW ids \in Unused, CrudPut(records, ids) PROVE PutInv'
    BY <1>7, PutStarts
  <1> QED BY <1>3, <1>4, <1>5, <1>6, <1>7, PutsOne, PutsBatch DEF CommandsNext

(***************************************************************************)
(* BadOnesAlone (PutDocumentsBatched, splitBatches,                        *)
(* putDocumentsOneByOne): a put stores all its documents but those         *)
(* without a key, which it reports, and fills no entry beyond the          *)
(* settings, for any documents and settings.                               *)
(***************************************************************************)
THEOREM OthersAreStored == CommandsSpec => []BadOnesAlone
  <1>1. PutInv => BadOnesAlone
    <2> SUFFICES ASSUME PutInv, put.at = "writing" PROVE BadOnesAlone
      BY DEF BadOnesAlone
    <2>1. put \in [at : {"writing"}, docs : Seq(Docs), failed : SUBSET Docs, rest : Seq(Docs), single : Seq(Docs)]
      BY DEF PutInv, PutTypeOK, NoPut
    <2>2. ASSUME put.rest # <<>>
          PROVE  /\ Len(FirstBatch(put.rest)) <= MaxDocs
                 /\ Size(FirstBatch(put.rest)) > MaxBytes => Len(FirstBatch(put.rest)) = 1
      <3>1. put.rest \in Seq(Docs)
        BY <2>1
      <3>2. PICK n \in 1 .. Len(put.rest) :
              /\ FirstBatch(put.rest) = SubSeq(put.rest, 1, n)
              /\ n <= MaxDocs /\ (Size(FirstBatch(put.rest)) > MaxBytes => n = 1)
        BY <2>2, <3>1, BatchFacts
      <3>3. Len(SubSeq(put.rest, 1, n)) = n
        BY <3>1, <3>2
      <3> QED BY <3>2, <3>3
    <2>3. ASSUME put.single = <<>>, put.rest = <<>>
          PROVE  /\ put.failed = {d \in ToSet(put.docs) : ~Keyed(d)}
                 /\ \A i \in DOMAIN put.docs :
                      \/ put.docs[i] \in documents \cup put.failed
                      \/ \E j \in DOMAIN put.docs : j > i /\ DocKey(put.docs[j]) = DocKey(put.docs[i])
      <3>1. PICK k \in Nat : Written(k)
        BY DEF PutInv
      <3>2. DOMAIN put.docs = 1 .. k /\ Len(put.docs) = k
        <4>1. Len(put.single) = 0 /\ Len(put.rest) = 0
          BY <2>3
        <4>2. DOMAIN put.docs = 1 .. Len(put.docs)
          BY <2>1
        <4> QED BY <4>1, <4>2, <3>1 DEF Written
      <3>3. put.failed = {put.docs[i] : i \in {i \in 1 .. k : ~Keyed(put.docs[i])}}
        BY <3>1 DEF Written
      <3>4. \A i \in 1 .. k : Kept(i, documents)
        BY <3>1 DEF Written
      <3>5. put.failed = {d \in ToSet(put.docs) : ~Keyed(d)}
        BY <3>2, <3>3 DEF ToSet
      <3> QED BY <3>2, <3>4, <3>5 DEF Kept
    <2> QED BY <2>2, <2>3 DEF BadOnesAlone
  <1> QED BY <1>1, PutInitially, PutStep, PTL DEF CommandsSpec

=============================================================================
