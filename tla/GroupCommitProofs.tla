------------------------- MODULE GroupCommitProofs -------------------------
(***************************************************************************)
(* Theorems about the write path, for any calls, documents, limits and     *)
(* store failures.                                                         *)
(***************************************************************************)
EXTENDS GroupCommit, TLAPS

(***************************************************************************)
(* Why a caller that is told "ok" finds its document: answers are given    *)
(* only for chunks that are in the oplog, and nothing leaves the oplog.    *)
(***************************************************************************)
AnswersAreStored ==
    /\ \A r \in Request : errs[r] = "ok" \/ done[r] = "ok" => Stored(r)
    /\ \A w \in Worker :
         writer[w].at = "answer" /\ writer[w].stored =>
             \A i \in DOMAIN writer[w].chunk : Stored(writer[w].chunk[i])

(***************************************************************************)
(* What a writer holds where: a batch while it writes, a chunk while it    *)
(* answers or retries.                                                     *)
(***************************************************************************)
WritersHoldWork ==
    \A w \in Worker :
        /\ writer[w].at = "write" => writer[w].batch # <<>>
        /\ writer[w].at \in {"answer", "retry"} => writer[w].chunk # <<>>

IInv ==
    /\ TypeOK
    /\ OneWriter
    /\ QueuedIsServed
    /\ WritersHoldWork
    /\ AnswersAreStored

-----------------------------------------------------------------------------
(* Sequences, as far as a batch needs them.                                *)

LEMMA ConcatTyped ==
    ASSUME NEW S, NEW s \in Seq(S), NEW t \in Seq(S)
    PROVE  s \o t \in Seq(S)
  OBVIOUS

LEMMA AppendFacts ==
    ASSUME NEW S, NEW s \in Seq(S), NEW x \in S
    PROVE  /\ Append(s, x) \in Seq(S)
           /\ Len(s) \in Nat
           /\ DOMAIN s = 1 .. Len(s)
           /\ DOMAIN Append(s, x) = 1 .. Len(s) + 1
           /\ \A i \in 1 .. Len(s) : Append(s, x)[i] = s[i]
           /\ Append(s, x)[Len(s) + 1] = x
  OBVIOUS

LEMMA SplitFacts ==
    ASSUME NEW S, NEW s \in Seq(S), NEW e \in 1 .. Len(s)
    PROVE  /\ SubSeq(s, 1, e) \in Seq(S)
           /\ SubSeq(s, 1, e) # <<>>
           /\ SubSeq(s, e + 1, Len(s)) \in Seq(S)
  OBVIOUS

LEMMA TailFacts ==
    ASSUME NEW S, NEW s \in Seq(S), s # <<>>
    PROVE  /\ Head(s) \in S
           /\ Tail(s) \in Seq(S)
           /\ <<Head(s)>> \in Seq(S)
           /\ <<Head(s)>> # <<>>
  OBVIOUS

LEMMA SeqTyped ==
    ASSUME NEW S, NEW s \in Seq(S)
    PROVE  /\ Len(s) \in Nat
           /\ DOMAIN s = 1 .. Len(s)
           /\ \A i \in DOMAIN s : s[i] \in S
           /\ s = <<>> <=> Len(s) = 0
  OBVIOUS

LEMMA DocsTyped ==
    ASSUME NEW c \in Caller
    PROVE  /\ Docs[c] \in Seq(Request)
           /\ Len(Docs[c]) \in Nat \ {0}
           /\ DOMAIN Docs[c] = 1 .. Len(Docs[c])
           /\ \A i \in DOMAIN Docs[c] : Docs[c][i] \in Request
<1>1. Docs[c] \in Seq(Request) /\ Docs[c] # <<>>
  BY CallsAssumption
<1> QED
  BY <1>1, SeqTyped

-----------------------------------------------------------------------------

LEMMA InitIInv == Init => IInv
<1> SUFFICES ASSUME Init PROVE IInv
  OBVIOUS
<1>1. <<>> \in Seq(Request) /\ <<>> \in Seq(Seq(Request))
  OBVIOUS
<1>2. Off \in WriterStates /\ Off.at = "off"
  BY <1>1 DEF Off, WriterStates
<1>3. TypeOK
  <2>1. ASSUME NEW c \in Caller, NEW i \in DOMAIN Docs[c]
        PROVE  ~(i <= collected[c]) /\ errs[Docs[c][i]] = "none"
    BY <2>1, DocsTyped DEF Init
  <2>2. ASSUME NEW c \in Caller PROVE collected[c] <= Len(Docs[c])
    <3>1. collected[c] = 0 /\ Len(Docs[c]) \in Nat
      BY DocsTyped DEF Init
    <3> QED
      BY <3>1
  <2> QED
    BY <1>1, <1>2, <2>1, <2>2 DEF Init, TypeOK
<1>4. OneWriter /\ QueuedIsServed
  BY <1>2 DEF Init, OneWriter, QueuedIsServed
<1>5. WritersHoldWork /\ AnswersAreStored
  BY <1>2 DEF Init, WritersHoldWork, AnswersAreStored
<1> QED
  BY <1>3, <1>4, <1>5 DEF IInv

(***************************************************************************)
(* TypeOK in three parts: what the callers, the queue and the writers use. *)
(***************************************************************************)
CallsTyped ==
    /\ caller \in [Caller -> {"idle", "submitted", "returned"}]
    /\ collected \in [Caller -> Nat]
    /\ \A c \in Caller : collected[c] <= Len(Docs[c])
    /\ \A c \in Caller : \A i \in DOMAIN Docs[c] :
         i <= collected[c] <=> errs[Docs[c][i]] # "none"
    /\ errs \in [Request -> {"none", "ok", "failed", "cancelled"}]
    /\ cancelled \subseteq Caller

QueueTyped ==
    /\ queue \in Seq(Request)
    /\ running \in BOOLEAN
    /\ writer \in [Worker -> WriterStates]
    /\ arrival \in Seq(Request)

StoreTyped ==
    /\ done \in [Request -> {"none", "ok", "failed"}]
    /\ entries \in Seq(Seq(Request))

LEMMA TypeParts == TypeOK <=> CallsTyped /\ QueueTyped /\ StoreTyped
  BY DEF TypeOK, CallsTyped, QueueTyped, StoreTyped

LEMMA TypePartsNext == CallsTyped' /\ QueueTyped' /\ StoreTyped' => TypeOK'
  BY DEF TypeOK, CallsTyped, QueueTyped, StoreTyped

(***************************************************************************)
(* The oplog only grows.                                                   *)
(***************************************************************************)
LEMMA WriteGrows ==
    ASSUME StoreTyped, NEW chunk \in Seq(Request), NEW outcome \in Outcomes,
           Write(chunk, outcome)
    PROVE  /\ entries' \in Seq(Seq(Request))
           /\ \A r \in Request : Stored(r) => Stored(r)'
           /\ outcome = "ok" =>
                \A i \in DOMAIN chunk : Stored(chunk[i])'
<1>1. CASE outcome = "lost"
  BY <1>1 DEF Write, StoreTyped, Stored
<1>2. CASE outcome # "lost"
  <2> DEFINE n == Len(entries)
  <2>1. entries' = Append(entries, chunk)
    BY <1>2 DEF Write
  <2>2. /\ entries' \in Seq(Seq(Request))
        /\ n \in Nat
        /\ DOMAIN entries = 1 .. n
        /\ DOMAIN entries' = 1 .. n + 1
        /\ \A i \in 1 .. n : entries'[i] = entries[i]
        /\ entries'[n + 1] = chunk
    BY <2>1, AppendFacts DEF StoreTyped
  <2>3. \A r \in Request : Stored(r) => Stored(r)'
    BY <2>2 DEF Stored
  <2>4. \A i \in DOMAIN chunk : Stored(chunk[i])'
    BY <2>2 DEF Stored
  <2> QED
    BY <2>2, <2>3, <2>4
<1> QED
  BY <1>1, <1>2

-----------------------------------------------------------------------------
(* The calls.                                                              *)

LEMMA SubmitKeepsIInv ==
    ASSUME IInv, NEW c \in Caller, Submit(c)
    PROVE  IInv'
<1>1. /\ caller' = [caller EXCEPT ![c] = "submitted"]
      /\ queue' = queue \o Docs[c]
      /\ arrival' = arrival \o Docs[c]
      /\ Wake
      /\ UNCHANGED <<collected, errs, cancelled, done, entries>>
  BY DEF Submit, Enqueue
<1>2. CallsTyped'
  BY <1>1, TypeParts DEF IInv, CallsTyped
<1>3. /\ running' = TRUE
      /\ \E w \in Worker : writer'[w].at # "off"
      /\ \A w, x \in Worker :
           writer'[w].at # "off" /\ writer'[x].at # "off" => w = x
      /\ writer' \in [Worker -> WriterStates]
      /\ \A w \in Worker : \/ writer'[w] = writer[w]
                           \/ writer'[w].at = "take"
  <2>1. CASE running
    BY <1>1, <2>1 DEF Wake, IInv, TypeOK, OneWriter
  <2>2. CASE ~running
    <3>1. PICK w \in Worker : writer' = [writer EXCEPT ![w] = [Off EXCEPT !.at = "take"]]
      BY <1>1, <2>2 DEF Wake, StartWriter
    <3>2. /\ [Off EXCEPT !.at = "take"] \in WriterStates
          /\ [Off EXCEPT !.at = "take"].at = "take"
      <4>1. <<>> \in Seq(Request)
        OBVIOUS
      <4> QED
        BY <4>1 DEF Off, WriterStates
    <3>3. \A x \in Worker : writer[x].at = "off"
      BY <2>2 DEF IInv, OneWriter
    <3>4. running' = TRUE
      BY <1>1, <2>2 DEF Wake
    <3> QED
      BY <3>1, <3>2, <3>3, <3>4 DEF IInv, TypeOK
  <2> QED
    BY <2>1, <2>2
<1>4. QueueTyped'
  BY <1>1, <1>3, DocsTyped, ConcatTyped, TypeParts DEF IInv, QueueTyped
<1>5. StoreTyped'
  BY <1>1, TypeParts DEF IInv, StoreTyped
<1>6. OneWriter' /\ QueuedIsServed'
  BY <1>3 DEF OneWriter, QueuedIsServed
<1>7. WritersHoldWork'
  BY <1>3 DEF IInv, WritersHoldWork
<1>8. AnswersAreStored'
  <2>1. \A r : Stored(r)' <=> Stored(r)
    BY <1>1 DEF Stored
  <2>2. \A r \in Request : errs'[r] = "ok" \/ done'[r] = "ok" => Stored(r)'
    BY <1>1, <2>1 DEF IInv, AnswersAreStored
  <2>3. ASSUME NEW w \in Worker, (writer[w].at = "answer" /\ writer[w].stored)'
        PROVE  (\A i \in DOMAIN writer[w].chunk : Stored(writer[w].chunk[i]))'
    BY <1>1, <1>3, <2>3 DEF IInv, AnswersAreStored, Stored
  <2> QED
    BY <2>2, <2>3 DEF AnswersAreStored
<1> QED
  BY <1>2, <1>4, <1>5, <1>6, <1>7, <1>8, TypePartsNext DEF IInv

(***************************************************************************)
(* A step that leaves queue, writers and store alone and reports only what *)
(* the writer answered.                                                    *)
(***************************************************************************)
LEMMA CallStepKeepsIInv ==
    ASSUME IInv, CallsTyped',
           UNCHANGED <<queue, running, done, writer, entries, arrival>>,
           \A r \in Request : errs'[r] = "ok" => errs[r] = "ok" \/ done[r] = "ok"
    PROVE  IInv'
<1>1. TypeOK'
  BY TypeParts, TypePartsNext DEF IInv, QueueTyped, StoreTyped
<1>2. OneWriter' /\ QueuedIsServed' /\ WritersHoldWork'
  BY DEF IInv, OneWriter, QueuedIsServed, WritersHoldWork
<1>3. AnswersAreStored'
  BY DEF IInv, AnswersAreStored, Stored
<1> QED
  BY <1>1, <1>2, <1>3 DEF IInv

LEMMA CancelKeepsIInv ==
    ASSUME IInv, NEW c \in Caller, Cancel(c)
    PROVE  IInv'
<1>1. CallsTyped'
  BY TypeParts DEF IInv, CallsTyped, Cancel
<1> QED
  BY <1>1, CallStepKeepsIInv DEF Cancel

LEMMA ReturnKeepsIInv ==
    ASSUME IInv, NEW c \in Caller, Return(c)
    PROVE  IInv'
<1>1. CallsTyped'
  BY TypeParts DEF IInv, CallsTyped, Return
<1> QED
  BY <1>1, CallStepKeepsIInv DEF Return

LEMMA CollectKeepsIInv ==
    ASSUME IInv, NEW c \in Caller, Collect(c)
    PROVE  IInv'
<1> DEFINE k == collected[c] + 1
           r == Docs[c][k]
<1>1. /\ collected[c] < Len(Docs[c])
      /\ collected' = [collected EXCEPT ![c] = k]
      /\ UNCHANGED <<caller, cancelled, queue, running, done, writer, entries, arrival>>
  BY DEF Collect
<1>2. PICK answer \in {"ok", "failed", "cancelled"} :
        /\ errs' = [errs EXCEPT ![r] = answer]
        /\ answer = "ok" => done[r] = "ok"
  <2>1. k \in DOMAIN Docs[c] /\ r \in Request
    BY <1>1, DocsTyped DEF IInv, TypeOK
  <2>2. done[r] \in {"none", "ok", "failed"}
    BY <2>1 DEF IInv, TypeOK
  <2> QED
    BY <2>2 DEF Collect, Report
<1>3. CallsTyped
  BY TypeParts DEF IInv
<1>4. k \in DOMAIN Docs[c] /\ r \in Request
  BY <1>1, <1>3, DocsTyped DEF CallsTyped
<1>5. CallsTyped'
  <2>1. /\ caller' \in [Caller -> {"idle", "submitted", "returned"}]
        /\ collected' \in [Caller -> Nat]
        /\ errs' \in [Request -> {"none", "ok", "failed", "cancelled"}]
        /\ cancelled' \subseteq Caller
        /\ \A d \in Caller : collected'[d] <= Len(Docs[d])
    BY <1>1, <1>2, <1>3, <1>4, DocsTyped DEF CallsTyped
  <2>2. ASSUME NEW d \in Caller, NEW i \in DOMAIN Docs[d]
        PROVE  i <= collected'[d] <=> errs'[Docs[d][i]] # "none"
    <3>1. Docs[d][i] \in Request /\ i \in Nat
      BY <2>2, DocsTyped
    <3>2. i <= collected[d] <=> errs[Docs[d][i]] # "none"
      BY <1>3, <2>2 DEF CallsTyped
    <3>3. CASE d = c /\ i = k
      BY <1>1, <1>2, <1>3, <1>4, <3>3 DEF CallsTyped
    <3>4. CASE ~(d = c /\ i = k)
      <4>1. Docs[d][i] # r
        BY <1>4, <2>2, <3>4, CallsAssumption
      <4>2. i <= collected'[d] <=> i <= collected[d]
        BY <1>1, <1>3, <3>1, <3>4 DEF CallsTyped
      <4> QED
        BY <1>2, <1>3, <3>1, <3>2, <4>1, <4>2 DEF CallsTyped
    <3> QED
      BY <3>3, <3>4
  <2> QED
    BY <2>1, <2>2 DEF CallsTyped
<1>6. \A q \in Request : errs'[q] = "ok" => errs[q] = "ok" \/ done[q] = "ok"
  BY <1>2, <1>3 DEF CallsTyped
<1> QED
  BY <1>1, <1>5, <1>6, CallStepKeepsIInv

-----------------------------------------------------------------------------
(* The writer.                                                             *)

(***************************************************************************)
(* A step of the only writer that stays alive: it leaves the calls and the *)
(* flag alone, comes to a state that holds its work, and answers "ok" for  *)
(* stored documents only.                                                  *)
(***************************************************************************)
LEMMA WriterStepKeepsIInv ==
    ASSUME IInv, NEW w \in Worker, NEW state \in WriterStates,
           writer[w].at # "off", EnterWriter(w, state), state.at # "off",
           state.at = "write" => state.batch # <<>>,
           state.at \in {"answer", "retry"} => state.chunk # <<>>,
           UNCHANGED <<callVars, running, arrival>>,
           queue' \in Seq(Request), StoreTyped',
           \A r \in Request : Stored(r) => Stored(r)',
           \A r \in Request : done'[r] = "ok" => done[r] = "ok" \/ Stored(r)',
           state.at = "answer" /\ state.stored =>
               \A i \in DOMAIN state.chunk : Stored(state.chunk[i])'
    PROVE  IInv'
<1>1. /\ writer \in [Worker -> WriterStates]
      /\ writer' = [writer EXCEPT ![w] = state]
      /\ writer'[w] = state
  BY DEF IInv, TypeOK, EnterWriter
<1>2. CallsTyped'
  BY TypeParts DEF IInv, CallsTyped, callVars
<1>3. QueueTyped'
  BY <1>1, TypeParts DEF IInv, QueueTyped
<1>4. running /\ \A x \in Worker : x # w => writer[x].at = "off"
  BY DEF IInv, OneWriter
<1>5. running' /\ \A x \in Worker : x # w => writer'[x].at = "off"
  BY <1>1, <1>4
<1>6. OneWriter' /\ QueuedIsServed'
  BY <1>1, <1>5 DEF OneWriter, QueuedIsServed
<1>7. WritersHoldWork'
  BY <1>1, <1>5 DEF WritersHoldWork
<1>8. AnswersAreStored'
  <2>1. \A r \in Request : (errs[r] = "ok" \/ done[r] = "ok" => Stored(r))'
    BY DEF IInv, AnswersAreStored, callVars
  <2>2. ASSUME NEW x \in Worker, (writer[x].at = "answer" /\ writer[x].stored)'
        PROVE  (\A i \in DOMAIN writer[x].chunk : Stored(writer[x].chunk[i]))'
    <3>1. x = w
      BY <1>5, <2>2
    <3> QED
      BY <1>1, <2>2, <3>1 DEF Stored
  <2> QED
    BY <2>1, <2>2 DEF AnswersAreStored
<1> QED
  BY <1>2, <1>3, <1>6, <1>7, <1>8, TypePartsNext DEF IInv

LEMMA StopKeepsIInv ==
    ASSUME IInv, NEW w \in Worker, Stop(w)
    PROVE  IInv'
<1>1. /\ writer[w].at = "take" /\ queue = <<>>
      /\ writer' = [writer EXCEPT ![w] = Off]
      /\ running' = FALSE
      /\ UNCHANGED <<callVars, queue, done, entries, arrival>>
  BY DEF Stop, Leave, EnterWriter
<1>2. Off \in WriterStates /\ Off.at = "off"
  <2>1. <<>> \in Seq(Request)
    OBVIOUS
  <2> QED
    BY <2>1 DEF Off, WriterStates
<1>3. \A x \in Worker : writer'[x] = writer[x] \/ writer'[x] = Off
  BY <1>1 DEF IInv, TypeOK
<1>4. \A x \in Worker : writer'[x].at = "off"
  BY <1>1, <1>2 DEF IInv, TypeOK, OneWriter
<1>5. TypeOK'
  BY <1>1, <1>2, TypeParts, TypePartsNext
     DEF IInv, CallsTyped, QueueTyped, StoreTyped, callVars
<1>6. OneWriter' /\ QueuedIsServed'
  BY <1>1, <1>4 DEF OneWriter, QueuedIsServed
<1>7. WritersHoldWork'
  BY <1>4 DEF WritersHoldWork
<1>8. AnswersAreStored'
  BY <1>1, <1>4 DEF IInv, AnswersAreStored, Stored, callVars
<1> QED
  BY <1>5, <1>6, <1>7, <1>8 DEF IInv

LEMMA TakeKeepsIInv ==
    ASSUME IInv, NEW w \in Worker, Take(w)
    PROVE  IInv'
<1> DEFINE state == [Off EXCEPT !.at = "write", !.batch = queue]
<1>1. /\ writer[w].at = "take" /\ queue # <<>> /\ queue' = <<>>
      /\ EnterWriter(w, state)
      /\ UNCHANGED <<callVars, running, done, entries, arrival>>
  BY DEF Take
<1>2. <<>> \in Seq(Request) /\ queue \in Seq(Request)
  BY DEF IInv, TypeOK
<1>3. /\ state \in WriterStates
      /\ state.at = "write" /\ state.batch = queue
  BY <1>2 DEF Off, WriterStates
<1>4. StoreTyped' /\ \A r \in Request : Stored(r) <=> Stored(r)'
  BY <1>1, TypeParts DEF IInv, StoreTyped, Stored
<1> HIDE DEF state
<1> QED
  BY <1>1, <1>2, <1>3, <1>4, WriterStepKeepsIInv DEF IInv, AnswersAreStored

LEMMA OnwardTyped ==
    ASSUME NEW rest \in Seq(Request)
    PROVE  /\ Onward(rest) \in WriterStates
           /\ Onward(rest).at \in {"take", "write"}
           /\ Onward(rest).at = "write" => Onward(rest).batch # <<>>
<1>1. <<>> \in Seq(Request)
  OBVIOUS
<1> QED
  BY <1>1 DEF Onward, Off, WriterStates

(***************************************************************************)
(* What PutChunk comes to: the chunk it took is to be answered, and with   *)
(* "ok" only if it was stored; or it is to be retried.                     *)
(***************************************************************************)
LEMMA PutChunkResult ==
    ASSUME IInv, NEW w \in Worker, PutChunk(w)
    PROVE  \E state \in WriterStates, outcome \in Outcomes :
             /\ Write(state.chunk, outcome)
             /\ EnterWriter(w, state)
             /\ state.at \in {"answer", "retry"}
             /\ state.chunk # <<>>
             /\ state.at = "answer" /\ state.stored => outcome = "ok"
<1> DEFINE batch == writer[w].batch
<1>1. PICK e \in 1 .. Len(batch), outcome \in Outcomes :
        /\ Write(SubSeq(batch, 1, e), outcome)
        /\ EnterWriter(w,
             [at |-> IF e = 1 THEN "answer" ELSE AfterPutAll(w, outcome),
              batch |-> SubSeq(batch, e + 1, Len(batch)),
              chunk |-> SubSeq(batch, 1, e),
              stored |-> e > 1 \/ outcome = "ok"])
  BY DEF PutChunk
<1> DEFINE at == IF e = 1 THEN "answer" ELSE AfterPutAll(w, outcome)
           ok == e > 1 \/ outcome = "ok"
           chunk == SubSeq(batch, 1, e)
           rest == SubSeq(batch, e + 1, Len(batch))
           state == [at |-> at, batch |-> rest, chunk |-> chunk, stored |-> ok]
<1>2. batch \in Seq(Request)
  BY DEF IInv, TypeOK, WriterStates
<1>3. chunk \in Seq(Request) /\ chunk # <<>> /\ rest \in Seq(Request)
  BY <1>2, SplitFacts
<1>4. at \in {"answer", "retry"} /\ ok \in BOOLEAN
  BY DEF AfterPutAll
<1>5. at = "answer" /\ ok => outcome = "ok"
  <2>1. CASE e = 1
    BY <2>1
  <2>2. CASE e # 1
    BY <2>2 DEF AfterPutAll
  <2> QED
    BY <2>1, <2>2
<1>6. Write(chunk, outcome) /\ EnterWriter(w, state)
  BY <1>1
<1> HIDE DEF at, ok, chunk, rest
<1>7. /\ state \in WriterStates
      /\ state.at = at /\ state.chunk = chunk /\ state.stored = ok
  BY <1>3, <1>4 DEF WriterStates
<1> QED
  BY <1>3, <1>4, <1>5, <1>6, <1>7

LEMMA PutChunkKeepsIInv ==
    ASSUME IInv, NEW w \in Worker, PutChunk(w)
    PROVE  IInv'
<1>1. PICK state \in WriterStates, outcome \in Outcomes :
        /\ Write(state.chunk, outcome)
        /\ EnterWriter(w, state)
        /\ state.at \in {"answer", "retry"}
        /\ state.chunk # <<>>
        /\ state.at = "answer" /\ state.stored => outcome = "ok"
  BY PutChunkResult
<1>2. /\ writer[w].at = "write"
      /\ UNCHANGED <<callVars, queue, running, done, arrival>>
  BY DEF PutChunk
<1>3. state.chunk \in Seq(Request)
  BY DEF WriterStates
<1>4. StoreTyped
  BY TypeParts DEF IInv
<1>5. /\ entries' \in Seq(Seq(Request))
      /\ \A r \in Request : Stored(r) => Stored(r)'
      /\ outcome = "ok" => \A i \in DOMAIN state.chunk : Stored(state.chunk[i])'
  BY <1>1, <1>3, <1>4, WriteGrows
<1>6. StoreTyped' /\ queue' \in Seq(Request)
  BY <1>2, <1>5 DEF IInv, TypeOK, StoreTyped
<1>7. \A r \in Request : done'[r] = "ok" => Stored(r)'
  BY <1>2, <1>5 DEF IInv, AnswersAreStored
<1> QED
  BY <1>1, <1>2, <1>5, <1>6, <1>7, WriterStepKeepsIInv

LEMMA AnswerKeepsIInv ==
    ASSUME IInv, NEW w \in Worker, Answer(w)
    PROVE  IInv'
<1>1. writer[w] \in WriterStates
  BY DEF IInv, TypeOK
<1>2. PICK state \in WriterStates :
        /\ state = Onward(writer[w].batch)
        /\ state.at \in {"take", "write"}
        /\ state.at = "write" => state.batch # <<>>
  BY <1>1, OnwardTyped DEF WriterStates
<1>3. /\ writer[w].at = "answer"
      /\ EnterWriter(w, state)
      /\ UNCHANGED <<callVars, queue, running, entries, arrival>>
  BY <1>2 DEF Answer
<1>4. StoreTyped' /\ queue' \in Seq(Request)
  BY <1>3 DEF Answer, IInv, TypeOK, StoreTyped
<1>5. \A r \in Request : Stored(r) <=> Stored(r)'
  BY <1>3 DEF Stored
<1>6. ASSUME NEW r \in Request, done'[r] = "ok"
      PROVE  Stored(r)'
  <2>1. CASE \E i \in DOMAIN writer[w].chunk : writer[w].chunk[i] = r
    <3>1. writer[w].stored
      BY <1>1, <1>6, <2>1 DEF Answer, WriterStates
    <3>2. \A i \in DOMAIN writer[w].chunk : Stored(writer[w].chunk[i])
      BY <1>3, <3>1 DEF IInv, AnswersAreStored
    <3> QED
      BY <1>5, <2>1, <3>2
  <2>2. CASE ~ \E i \in DOMAIN writer[w].chunk : writer[w].chunk[i] = r
    BY <1>5, <1>6, <2>2 DEF Answer, IInv, AnswersAreStored
  <2> QED
    BY <2>1, <2>2
<1> QED
  BY <1>2, <1>3, <1>4, <1>5, <1>6, WriterStepKeepsIInv

LEMMA RetryKeepsIInv ==
    ASSUME IInv, NEW w \in Worker, Retry(w)
    PROVE  IInv'
<1> DEFINE chunk == writer[w].chunk
           next == IF Tail(chunk) = <<>>
                   THEN Onward(writer[w].batch)
                   ELSE [writer[w] EXCEPT !.chunk = Tail(chunk)]
<1>1. /\ writer[w] \in WriterStates /\ writer[w].at = "retry"
      /\ writer[w].batch \in Seq(Request)
      /\ chunk \in Seq(Request) /\ chunk # <<>>
  BY DEF Retry, IInv, TypeOK, WritersHoldWork, WriterStates
<1>2. /\ Head(chunk) \in Request /\ Tail(chunk) \in Seq(Request)
      /\ <<Head(chunk)>> \in Seq(Request)
  BY <1>1, TailFacts
<1>3. PICK state \in WriterStates :
        /\ state = next
        /\ state.at \in {"take", "write", "retry"}
        /\ state.at = "write" => state.batch # <<>>
        /\ state.at = "retry" => state.chunk # <<>>
  <2>1. CASE Tail(chunk) = <<>>
    BY <1>1, <2>1, OnwardTyped
  <2>2. CASE Tail(chunk) # <<>>
    <3>1. next = [writer[w] EXCEPT !.chunk = Tail(chunk)]
      BY <2>2
    <3>2. next \in WriterStates
      BY <1>1, <1>2, <3>1 DEF WriterStates
    <3>3. next.at = "retry" /\ next.chunk = Tail(chunk)
      BY <1>1, <3>1 DEF WriterStates
    <3> QED
      BY <2>2, <3>2, <3>3
  <2> QED
    BY <2>1, <2>2
<1>4. PICK r \in Request, outcome \in Outcomes :
        /\ Write(<<r>>, outcome)
        /\ done' = [done EXCEPT ![r] = IF outcome = "ok" THEN "ok" ELSE "failed"]
  BY <1>2 DEF Retry
<1>5. /\ EnterWriter(w, state)
      /\ UNCHANGED <<callVars, queue, running, arrival>>
  BY <1>3 DEF Retry
<1>6. StoreTyped
  BY TypeParts DEF IInv
<1>7. <<r>> \in Seq(Request) /\ 1 \in DOMAIN <<r>> /\ <<r>>[1] = r
  OBVIOUS
<1>8. /\ entries' \in Seq(Seq(Request))
      /\ \A q \in Request : Stored(q) => Stored(q)'
      /\ outcome = "ok" => \A i \in DOMAIN <<r>> : Stored(<<r>>[i])'
  BY <1>4, <1>6, <1>7, WriteGrows
<1>9. StoreTyped' /\ queue' \in Seq(Request)
  BY <1>4, <1>5, <1>6, <1>8 DEF IInv, TypeOK, StoreTyped
<1>10. outcome = "ok" => Stored(r)'
  BY <1>7, <1>8 DEF Stored
<1>11. ASSUME NEW q \in Request, done'[q] = "ok"
       PROVE  done[q] = "ok" \/ Stored(q)'
  BY <1>4, <1>6, <1>10, <1>11 DEF StoreTyped
<1> QED
  BY <1>1, <1>3, <1>5, <1>8, <1>9, <1>11, WriterStepKeepsIInv

-----------------------------------------------------------------------------

LEMMA NextKeepsIInv == IInv /\ [Next]_vars => IInv'
<1> SUFFICES ASSUME IInv, [Next]_vars PROVE IInv'
  OBVIOUS
<1>1. CASE UNCHANGED vars
  <2>1. TypeOK'
    BY <1>1, TypeParts, TypePartsNext
       DEF IInv, CallsTyped, QueueTyped, StoreTyped, vars, callVars
  <2> QED
    BY <1>1, <2>1
       DEF IInv, OneWriter, QueuedIsServed, WritersHoldWork, AnswersAreStored,
           Stored, vars, callVars
<1>2. CASE \E c \in Caller : Call(c) \/ Cancel(c)
  BY <1>2, SubmitKeepsIInv, CollectKeepsIInv, ReturnKeepsIInv, CancelKeepsIInv
     DEF Call
<1>3. CASE \E w \in Worker : Writer(w)
  BY <1>3, StopKeepsIInv, TakeKeepsIInv, PutChunkKeepsIInv, AnswerKeepsIInv,
     RetryKeepsIInv DEF Writer
<1> QED
  BY <1>1, <1>2, <1>3 DEF Next

THEOREM WritePathInvariant == Spec => []IInv
  BY InitIInv, NextKeepsIInv, PTL DEF Spec

(***************************************************************************)
(* The state of PutManyCoalesced, run and write keeps its types, there is  *)
(* at most one writer goroutine, and running tells whether there is one.   *)
(***************************************************************************)
THEOREM AtMostOneWriter == Spec => [](TypeOK /\ OneWriter)
<1>1. IInv => TypeOK /\ OneWriter
  BY DEF IInv
<1> QED
  BY WritePathInvariant, <1>1, PTL

(***************************************************************************)
(* A request never waits in the queue of a store whose writer has left:    *)
(* the section that finds the queue empty is the one that clears running.  *)
(***************************************************************************)
THEOREM NoLostWakeup == Spec => []QueuedIsServed
<1>1. IInv => QueuedIsServed
  BY DEF IInv
<1> QED
  BY WritePathInvariant, <1>1, PTL

(***************************************************************************)
(* A caller that is told its document is stored finds it in the oplog,     *)
(* whatever was combined with it and however the store failed.             *)
(***************************************************************************)
THEOREM AcknowledgedIsStored == Spec => []AnsweredIsStored
<1>1. IInv => AnsweredIsStored
  BY DEF IInv, AnswersAreStored, AnsweredIsStored
<1> QED
  BY WritePathInvariant, <1>1, PTL

-----------------------------------------------------------------------------
(* The order of arrival.                                                   *)

(***************************************************************************)
(* What the writer has yet to decide: its chunk, its batch and the queue.  *)
(* It is the end of the arrivals, and nothing of it has been answered.     *)
(***************************************************************************)
Line(w) == writer[w].chunk \o writer[w].batch \o queue

Decided(w) == Len(arrival) - Len(Line(w))

LineInOrder ==
    \A w \in Worker : writer[w].at # "off" =>
        /\ Len(Line(w)) <= Len(arrival)
        /\ \A i \in DOMAIN Line(w) : Line(w)[i] = arrival[Decided(w) + i]
        /\ \A i \in DOMAIN arrival : done[arrival[i]] # "none" => i <= Decided(w)

(***************************************************************************)
(* Where the writer holds nothing; and a chunk to be answered "ok" is the  *)
(* last entry of the oplog.                                                *)
(***************************************************************************)
HeldInPlace ==
    \A w \in Worker :
        /\ writer[w].at \in {"off", "take", "write"} => writer[w].chunk = <<>>
        /\ writer[w].at \in {"off", "take"} => writer[w].batch = <<>>
        /\ writer[w].at = "answer" /\ writer[w].stored =>
             entries # <<>> /\ entries[Len(entries)] = writer[w].chunk

(***************************************************************************)
(* A request arrives once, when its call is made, before it is answered.   *)
(***************************************************************************)
ArrivedOnce ==
    /\ \A i, j \in DOMAIN arrival : arrival[i] = arrival[j] => i = j
    /\ \A c \in Caller : caller[c] = "idle" =>
         \A i \in DOMAIN Docs[c], j \in DOMAIN arrival : Docs[c][i] # arrival[j]
    /\ \A r \in Request : done[r] # "none" => \E i \in DOMAIN arrival : arrival[i] = r

InOrder ==
    \A i, j \in DOMAIN arrival : \A r, s \in Request :
        /\ i < j /\ arrival[i] = r /\ arrival[j] = s
        /\ done[r] = "ok" /\ done[s] = "ok"
        => StoredAfter(s, r)

OrderInv == LineInOrder /\ HeldInPlace /\ ArrivedOnce /\ InOrder

LEMMA ConcatFacts ==
    ASSUME NEW S, NEW s \in Seq(S), NEW t \in Seq(S)
    PROVE  /\ s \o t \in Seq(S)
           /\ Len(s \o t) = Len(s) + Len(t)
           /\ \A i \in 1 .. Len(s) : (s \o t)[i] = s[i]
           /\ \A i \in 1 .. Len(t) : (s \o t)[Len(s) + i] = t[i]
           /\ \A i \in 1 .. Len(s) + Len(t) : i > Len(s) => (s \o t)[i] = t[i - Len(s)]
  OBVIOUS

LEMMA SubSeqFacts ==
    ASSUME NEW S, NEW s \in Seq(S), NEW e \in 0 .. Len(s)
    PROVE  /\ SubSeq(s, 1, e) \in Seq(S) /\ Len(SubSeq(s, 1, e)) = e
           /\ \A i \in 1 .. e : SubSeq(s, 1, e)[i] = s[i]
           /\ SubSeq(s, e + 1, Len(s)) \in Seq(S)
           /\ Len(SubSeq(s, e + 1, Len(s))) = Len(s) - e
           /\ \A i \in 1 .. Len(s) - e : SubSeq(s, e + 1, Len(s))[i] = s[e + i]
  OBVIOUS

LEMMA SameSeq ==
    ASSUME NEW S, NEW s \in Seq(S), NEW t \in Seq(S), Len(s) = Len(t),
           \A i \in 1 .. Len(s) : s[i] = t[i]
    PROVE  s = t
  OBVIOUS

LEMMA ConcatAssociative ==
    ASSUME NEW S, NEW s \in Seq(S), NEW t \in Seq(S), NEW u \in Seq(S)
    PROVE  s \o (t \o u) = s \o t \o u
<1>1. /\ s \o (t \o u) \in Seq(S) /\ s \o t \o u \in Seq(S)
      /\ Len(s \o (t \o u)) = Len(s \o t \o u)
  OBVIOUS
<1>2. ASSUME NEW i \in 1 .. Len(s \o (t \o u))
      PROVE  (s \o (t \o u))[i] = (s \o t \o u)[i]
  OBVIOUS
<1> QED
  BY <1>1, <1>2, SameSeq

LEMMA ThreeParts ==
    ASSUME NEW S, NEW a \in Seq(S), NEW b \in Seq(S), NEW c \in Seq(S)
    PROVE  /\ a \o b \o c \in Seq(S)
           /\ Len(a \o b \o c) = Len(a) + Len(b) + Len(c)
           /\ \A i \in 1 .. Len(a) : (a \o b \o c)[i] = a[i]
  OBVIOUS

LEMMA LineTyped ==
    ASSUME TypeOK, NEW w \in Worker
    PROVE  /\ writer[w].chunk \in Seq(Request) /\ writer[w].batch \in Seq(Request)
           /\ queue \in Seq(Request) /\ arrival \in Seq(Request)
           /\ Line(w) \in Seq(Request)
           /\ Len(Line(w)) = Len(writer[w].chunk) + Len(writer[w].batch) + Len(queue)
           /\ Len(Line(w)) \in Nat /\ Len(arrival) \in Nat
           /\ DOMAIN Line(w) = 1 .. Len(Line(w)) /\ DOMAIN arrival = 1 .. Len(arrival)
           /\ Len(writer[w].chunk) <= Len(Line(w))
           /\ \A i \in 1 .. Len(writer[w].chunk) : Line(w)[i] = writer[w].chunk[i]
<1>1. /\ writer[w].chunk \in Seq(Request) /\ writer[w].batch \in Seq(Request)
      /\ queue \in Seq(Request) /\ arrival \in Seq(Request)
  BY DEF TypeOK, WriterStates
<1> DEFINE a == writer[w].chunk
           b == writer[w].batch
<1>2. Line(w) = a \o b \o queue
  BY DEF Line
<1>3. a \in Seq(Request) /\ b \in Seq(Request)
  BY <1>1
<1> HIDE DEF a, b
<1>4. /\ Line(w) \in Seq(Request)
      /\ Len(Line(w)) = Len(a) + Len(b) + Len(queue)
      /\ \A i \in 1 .. Len(a) : Line(w)[i] = a[i]
  BY <1>1, <1>2, <1>3, ThreeParts
<1>5. Len(a) \in Nat /\ Len(b) \in Nat /\ Len(queue) \in Nat /\ Len(arrival) \in Nat
  BY <1>1, <1>3, SeqTyped
<1>6. DOMAIN Line(w) = 1 .. Len(Line(w)) /\ DOMAIN arrival = 1 .. Len(arrival)
  BY <1>1, <1>4, SeqTyped
<1>7. Len(Line(w)) \in Nat /\ Len(a) <= Len(Line(w))
  BY <1>4, <1>5
<1> QED
  BY <1>1, <1>4, <1>5, <1>6, <1>7 DEF a, b

-----------------------------------------------------------------------------
(* The oplog and the order of two requests.                                *)

(***************************************************************************)
(* An order in the oplog stays as long as the earlier request is not       *)
(* written again.                                                          *)
(***************************************************************************)
LEMMA OrderStays ==
    ASSUME StoreTyped, NEW r, NEW s, NEW chunk \in Seq(Request), NEW outcome,
           Write(chunk, outcome), \A i \in DOMAIN chunk : chunk[i] # r,
           StoredAfter(s, r)
    PROVE  StoredAfter(s, r)'
<1>1. CASE outcome = "lost"
  BY <1>1 DEF Write, StoredAfter
<1>2. CASE outcome # "lost"
  <2> DEFINE n == Len(entries)
  <2>1. /\ n \in Nat
        /\ DOMAIN entries = 1 .. n
        /\ DOMAIN entries' = 1 .. n + 1
        /\ \A i \in 1 .. n : entries'[i] = entries[i]
        /\ entries'[n + 1] = chunk
    BY <1>2, AppendFacts DEF Write, StoreTyped
  <2>2. PICK i \in DOMAIN entries : \E j \in DOMAIN entries[i] :
          /\ entries[i][j] = s
          /\ \A k \in DOMAIN entries : \A l \in DOMAIN entries[k] :
               entries[k][l] = r => k < i \/ (k = i /\ l < j)
    BY DEF StoredAfter
  <2>3. PICK j \in DOMAIN entries[i] :
          /\ entries[i][j] = s
          /\ \A k \in DOMAIN entries : \A l \in DOMAIN entries[k] :
               entries[k][l] = r => k < i \/ (k = i /\ l < j)
    BY <2>2
  <2>4. i \in DOMAIN entries' /\ entries'[i] = entries[i]
    BY <2>1
  <2>5. ASSUME NEW k \in DOMAIN entries', NEW l \in DOMAIN entries'[k], entries'[k][l] = r
        PROVE  k < i \/ (k = i /\ l < j)
    BY <2>1, <2>3, <2>5
  <2> QED
    BY <2>3, <2>4, <2>5 DEF StoredAfter
<1> QED
  BY <1>1, <1>2

(***************************************************************************)
(* A request in the last entry comes after one that, in this entry, stands *)
(* at most before it.                                                      *)
(***************************************************************************)
LEMMA LastComesAfter ==
    ASSUME entries' \in Seq(Seq(Request)), entries' # <<>>,
           NEW r, NEW s, NEW chunk, entries'[Len(entries')] = chunk,
           NEW j \in DOMAIN chunk, chunk[j] = s,
           \A l \in DOMAIN chunk : chunk[l] = r => l < j
    PROVE  StoredAfter(s, r)'
<1>1. Len(entries') \in DOMAIN entries' /\ DOMAIN entries' = 1 .. Len(entries')
      /\ Len(entries') \in Nat
  BY SeqTyped
<1>2. ASSUME NEW k \in DOMAIN entries', NEW l \in DOMAIN entries'[k], entries'[k][l] = r
      PROVE  k < Len(entries') \/ (k = Len(entries') /\ l < j)
  BY <1>1, <1>2
<1> QED
  BY <1>1, <1>2 DEF StoredAfter

-----------------------------------------------------------------------------
(* What a step of the writer does to the line.                             *)

LEMMA LineFacts ==
    ASSUME TypeOK, OrderInv, NEW w \in Worker, writer[w].at # "off"
    PROVE  /\ Decided(w) \in Nat
           /\ \A i \in 1 .. Len(Line(w)) :
                /\ Decided(w) + i \in DOMAIN arrival
                /\ Line(w)[i] = arrival[Decided(w) + i]
           /\ \A i \in DOMAIN arrival, k \in 1 .. Len(Line(w)) :
                arrival[i] = Line(w)[k] => i = Decided(w) + k
           /\ \A i \in DOMAIN arrival :
                done[arrival[i]] # "none" => i <= Decided(w)
<1>1. /\ Len(Line(w)) \in Nat /\ Len(arrival) \in Nat
      /\ DOMAIN Line(w) = 1 .. Len(Line(w)) /\ DOMAIN arrival = 1 .. Len(arrival)
  BY LineTyped
<1>2. /\ Len(Line(w)) <= Len(arrival)
      /\ \A i \in DOMAIN Line(w) : Line(w)[i] = arrival[Decided(w) + i]
      /\ \A i \in DOMAIN arrival : done[arrival[i]] # "none" => i <= Decided(w)
  BY DEF OrderInv, LineInOrder
<1>3. Decided(w) \in Nat /\ \A i \in 1 .. Len(Line(w)) : Decided(w) + i \in DOMAIN arrival
  BY <1>1, <1>2 DEF Decided
<1> QED
  BY <1>1, <1>2, <1>3 DEF OrderInv, ArrivedOnce

(***************************************************************************)
(* The writer decides the first n requests of its line.                    *)
(***************************************************************************)
LEMMA WriterStepKeepsOrder ==
    ASSUME TypeOK, OneWriter, OrderInv, TypeOK',
           NEW w \in Worker, NEW state \in WriterStates,
           writer[w].at # "off", EnterWriter(w, state), UNCHANGED <<caller, arrival>>,
           NEW n \in 0 .. Len(Line(w)),
           state.at # "off" =>
               /\ Len(Line(w)') = Len(Line(w)) - n
               /\ \A i \in 1 .. Len(Line(w)') : Line(w)'[i] = Line(w)[n + i],
           \A r \in Request : done'[r] # done[r] => \E i \in 1 .. n : Line(w)[i] = r,
           state.at \in {"off", "take", "write"} => state.chunk = <<>>,
           state.at \in {"off", "take"} => state.batch = <<>>,
           state.at = "answer" /\ state.stored =>
               entries' # <<>> /\ entries'[Len(entries')] = state.chunk,
           InOrder'
    PROVE  OrderInv'
<1>1. /\ writer'[w] = state
      /\ \A x \in Worker : x # w => writer'[x] = writer[x] /\ writer[x].at = "off"
  BY DEF EnterWriter, TypeOK, OneWriter
<1>2. /\ Decided(w) \in Nat
      /\ \A i \in 1 .. Len(Line(w)) :
           /\ Decided(w) + i \in DOMAIN arrival
           /\ Line(w)[i] = arrival[Decided(w) + i]
      /\ \A i \in DOMAIN arrival, k \in 1 .. Len(Line(w)) :
           arrival[i] = Line(w)[k] => i = Decided(w) + k
      /\ \A i \in DOMAIN arrival : done[arrival[i]] # "none" => i <= Decided(w)
  BY LineFacts
<1>3. /\ Len(Line(w)) \in Nat /\ Len(arrival) \in Nat /\ arrival \in Seq(Request)
      /\ DOMAIN arrival = 1 .. Len(arrival)
      /\ \A i \in DOMAIN arrival : arrival[i] \in Request
  BY LineTyped, SeqTyped
<1>4. n \in Nat /\ n <= Len(Line(w)) /\ Decided(w) = Len(arrival) - Len(Line(w))
  BY <1>3 DEF Decided
<1>5. ASSUME NEW i \in DOMAIN arrival, done'[arrival[i]] # "none"
      PROVE  i <= Decided(w) + n
  <2>1. CASE done'[arrival[i]] = done[arrival[i]]
    BY <1>2, <1>3, <1>4, <1>5, <2>1
  <2>2. CASE done'[arrival[i]] # done[arrival[i]]
    <3>1. PICK k \in 1 .. n : Line(w)[k] = arrival[i]
      BY <1>3, <2>2
    <3>2. k \in 1 .. Len(Line(w))
      BY <1>3, <1>4
    <3>3. i = Decided(w) + k
      BY <1>2, <3>1, <3>2
    <3> QED
      BY <1>2, <1>4, <3>3
  <2> QED
    BY <2>1, <2>2
<1>6. LineInOrder'
  <2> SUFFICES ASSUME NEW x \in Worker, writer'[x].at # "off"
               PROVE  /\ Len(Line(x)') <= Len(arrival')
                      /\ \A i \in DOMAIN Line(x)' : Line(x)'[i] = arrival'[Decided(x)' + i]
                      /\ \A i \in DOMAIN arrival' :
                           done'[arrival'[i]] # "none" => i <= Decided(x)'
    BY DEF LineInOrder
  <2>1. x = w /\ state.at # "off"
    BY <1>1
  <2>2. /\ Line(w)' \in Seq(Request)
        /\ Len(Line(w)') = Len(Line(w)) - n
        /\ \A i \in 1 .. Len(Line(w)') : Line(w)'[i] = Line(w)[n + i]
    <3>1. Line(w)' \in Seq(Request)
      <4>1. /\ writer'[w].chunk \in Seq(Request) /\ writer'[w].batch \in Seq(Request)
            /\ queue' \in Seq(Request)
        BY DEF TypeOK, WriterStates
      <4> QED
        BY <4>1, ConcatTyped DEF Line
    <3> QED
      BY <2>1, <3>1
  <2>3. DOMAIN Line(w)' = 1 .. Len(Line(w)')
    BY <2>2, SeqTyped
  <2>4. Decided(w)' = Decided(w) + n
    BY <1>3, <1>4, <2>2 DEF Decided
  <2>5. ASSUME NEW i \in 1 .. Len(Line(w)')
        PROVE  Line(w)'[i] = arrival[Decided(w) + n + i]
    <3>1. n + i \in 1 .. Len(Line(w)) /\ Decided(w) + (n + i) = Decided(w) + n + i
      BY <1>2, <1>3, <1>4, <2>2
    <3> QED
      BY <1>2, <2>2, <3>1
  <2>6. Len(Line(w)') <= Len(arrival)
    BY <1>2, <1>3, <1>4, <2>2
  <2> QED
    BY <1>5, <2>1, <2>3, <2>4, <2>5, <2>6
<1>7. HeldInPlace'
  BY <1>1 DEF HeldInPlace, OrderInv
<1>8. ArrivedOnce'
  <2>1. ASSUME NEW r \in Request, done'[r] # "none"
        PROVE  \E i \in DOMAIN arrival : arrival[i] = r
    <3>1. CASE done'[r] = done[r]
      BY <2>1, <3>1 DEF OrderInv, ArrivedOnce
    <3>2. CASE done'[r] # done[r]
      <4>1. PICK k \in 1 .. n : Line(w)[k] = r
        BY <3>2
      <4>2. k \in 1 .. Len(Line(w))
        BY <1>3, <1>4
      <4> QED
        BY <1>2, <4>1, <4>2
    <3> QED
      BY <3>1, <3>2
  <2> QED
    BY <2>1 DEF OrderInv, ArrivedOnce
<1> QED
  BY <1>6, <1>7, <1>8 DEF OrderInv

(***************************************************************************)
(* What the writer writes comes from its line: of two requests that were   *)
(* decided before, the order stays.                                        *)
(***************************************************************************)
LEMMA WriteKeepsOrder ==
    ASSUME TypeOK, OrderInv, NEW w \in Worker, writer[w].at # "off",
           NEW chunk \in Seq(Request), NEW outcome, Write(chunk, outcome),
           Len(chunk) <= Len(Line(w)),
           \A k \in DOMAIN chunk : chunk[k] = Line(w)[k],
           NEW i \in DOMAIN arrival, NEW r, NEW s, arrival[i] = r, i <= Decided(w),
           StoredAfter(s, r)
    PROVE  StoredAfter(s, r)'
<1>1. /\ Decided(w) \in Nat
      /\ \A j \in DOMAIN arrival, k \in 1 .. Len(Line(w)) :
           arrival[j] = Line(w)[k] => j = Decided(w) + k
  BY LineFacts
<1>2. /\ Len(Line(w)) \in Nat /\ DOMAIN arrival = 1 .. Len(arrival)
      /\ Len(chunk) \in Nat /\ DOMAIN chunk = 1 .. Len(chunk) /\ Len(arrival) \in Nat
  BY LineTyped, SeqTyped
<1>3. ASSUME NEW k \in DOMAIN chunk PROVE chunk[k] # r
  <2>1. k \in 1 .. Len(Line(w)) /\ i # Decided(w) + k
    BY <1>1, <1>2
  <2> QED
    BY <1>1, <2>1
<1>4. StoreTyped
  BY TypeParts
<1> QED
  BY <1>3, <1>4, OrderStays

LEMMA SubmitKeepsOrder ==
    ASSUME IInv, OrderInv, NEW c \in Caller, Submit(c)
    PROVE  OrderInv'
<1>1. /\ caller[c] = "idle" /\ caller' = [caller EXCEPT ![c] = "submitted"]
      /\ queue' = queue \o Docs[c]
      /\ arrival' = arrival \o Docs[c]
      /\ Wake
      /\ done' = done /\ entries' = entries
  BY DEF Submit, Enqueue
<1> DEFINE n == Len(arrival)
           m == Len(Docs[c])
<1>2. /\ TypeOK /\ arrival \in Seq(Request) /\ queue \in Seq(Request)
      /\ n \in Nat /\ DOMAIN arrival = 1 .. n
  BY SeqTyped DEF IInv, TypeOK
<1>3. Docs[c] \in Seq(Request) /\ m \in Nat /\ DOMAIN Docs[c] = 1 .. m
  BY DocsTyped
<1>4. /\ DOMAIN arrival' = 1 .. n + m /\ Len(arrival') = n + m
      /\ \A i \in 1 .. n : arrival'[i] = arrival[i]
      /\ \A i \in 1 .. m : arrival'[n + i] = Docs[c][i]
  BY <1>1, <1>2, <1>3, ConcatFacts, SeqTyped
<1> HIDE DEF n, m
<1>5. ASSUME NEW i \in DOMAIN arrival'
      PROVE  \/ i \in DOMAIN arrival /\ arrival'[i] = arrival[i]
             \/ \E k \in DOMAIN Docs[c] : i = n + k /\ arrival'[i] = Docs[c][k]
  <2>1. CASE i <= n
    BY <1>2, <1>4, <2>1
  <2>2. CASE i > n
    <3>1. i - n \in 1 .. m /\ i = n + (i - n)
      BY <1>2, <1>3, <1>4, <2>2
    <3> QED
      BY <1>3, <1>4, <3>1
  <2> QED
    BY <1>2, <1>4, <2>1, <2>2
<1>6. \A k \in DOMAIN Docs[c], j \in DOMAIN arrival : Docs[c][k] # arrival[j]
  BY <1>1 DEF OrderInv, ArrivedOnce
<1>7. \A k \in DOMAIN Docs[c] : Docs[c][k] \in Request /\ done[Docs[c][k]] = "none"
  BY <1>6, DocsTyped DEF OrderInv, ArrivedOnce
<1>8. ArrivedOnce'
  <2>1. ASSUME NEW i \in DOMAIN arrival', NEW j \in DOMAIN arrival', arrival'[i] = arrival'[j]
        PROVE  i = j
    <3>1. CASE i \in DOMAIN arrival /\ arrival'[i] = arrival[i]
      <4>1. j \in DOMAIN arrival /\ arrival'[j] = arrival[j]
        BY <1>5, <1>6, <2>1, <3>1
      <4> QED
        BY <2>1, <3>1, <4>1 DEF OrderInv, ArrivedOnce
    <3>2. CASE \E k \in DOMAIN Docs[c] : i = n + k /\ arrival'[i] = Docs[c][k]
      <4>1. PICK k \in DOMAIN Docs[c] : i = n + k /\ arrival'[i] = Docs[c][k]
        BY <3>2
      <4>2. PICK l \in DOMAIN Docs[c] : j = n + l /\ arrival'[j] = Docs[c][l]
        BY <1>5, <1>6, <2>1, <4>1
      <4>3. k = l
        BY <2>1, <4>1, <4>2, CallsAssumption
      <4> QED
        BY <4>1, <4>2, <4>3
    <3> QED
      BY <1>5, <3>1, <3>2
  <2>2. ASSUME NEW d \in Caller, caller'[d] = "idle",
               NEW i \in DOMAIN Docs[d], NEW j \in DOMAIN arrival'
        PROVE  Docs[d][i] # arrival'[j]
    <3>1. d # c /\ caller[d] = "idle"
      BY <1>1, <1>2, <2>2 DEF TypeOK
    <3>2. CASE j \in DOMAIN arrival /\ arrival'[j] = arrival[j]
      BY <3>1, <3>2 DEF OrderInv, ArrivedOnce
    <3>3. CASE \E k \in DOMAIN Docs[c] : arrival'[j] = Docs[c][k]
      BY <3>1, <3>3, CallsAssumption
    <3> QED
      BY <1>5, <3>2, <3>3
  <2>3. ASSUME NEW r \in Request, done[r] # "none"
        PROVE  \E i \in DOMAIN arrival' : arrival'[i] = r
    <3>1. PICK i \in DOMAIN arrival : arrival[i] = r
      BY <2>3 DEF OrderInv, ArrivedOnce
    <3>2. i \in DOMAIN arrival' /\ arrival'[i] = r
      BY <1>2, <1>3, <1>4, <3>1
    <3> QED
      BY <3>2
  <2> QED
    BY <1>1, <2>1, <2>2, <2>3 DEF ArrivedOnce
<1>9. InOrder'
  <2> SUFFICES ASSUME NEW i \in DOMAIN arrival', NEW j \in DOMAIN arrival',
                      NEW r \in Request, NEW s \in Request,
                      i < j, arrival'[i] = r, arrival'[j] = s,
                      done[r] = "ok", done[s] = "ok"
               PROVE  StoredAfter(s, r)'
    BY <1>1 DEF InOrder
  <2>1. i \in DOMAIN arrival /\ arrival[i] = r /\ j \in DOMAIN arrival /\ arrival[j] = s
    BY <1>5, <1>7
  <2>2. StoredAfter(s, r)
    BY <2>1 DEF OrderInv, InOrder
  <2> QED
    BY <1>1, <2>2 DEF StoredAfter
<1>10. Off.at = "off" /\ Off.chunk = <<>> /\ Off.batch = <<>>
       /\ [Off EXCEPT !.at = "take"].at = "take"
       /\ [Off EXCEPT !.at = "take"].chunk = <<>> /\ [Off EXCEPT !.at = "take"].batch = <<>>
  BY DEF Off
<1>11. \/ running /\ writer' = writer
       \/ /\ ~running /\ queue = <<>>
          /\ \A x \in Worker : writer[x].at = "off"
          /\ \E x \in Worker : writer' = [writer EXCEPT ![x] = [Off EXCEPT !.at = "take"]]
  BY <1>1 DEF Wake, StartWriter, IInv, OneWriter, QueuedIsServed
<1>12. HeldInPlace'
  <2>1. ASSUME NEW x \in Worker
        PROVE  \/ writer'[x] = writer[x]
               \/ writer'[x] = [Off EXCEPT !.at = "take"]
    BY <1>2, <1>11 DEF TypeOK
  <2> QED
    BY <1>1, <1>10, <2>1 DEF OrderInv, HeldInPlace
<1>13. ASSUME NEW w \in Worker, writer'[w].at # "off"
       PROVE  /\ Len(Line(w)') <= Len(arrival')
              /\ \A i \in DOMAIN Line(w)' : Line(w)'[i] = arrival'[Decided(w)' + i]
              /\ \A i \in DOMAIN arrival' : done'[arrival'[i]] # "none" => i <= Decided(w)'
  <2> DEFINE l == Line(w)
  <2>1. CASE running /\ writer' = writer
    <3>1. writer[w].at # "off"
      BY <1>13, <2>1
    <3>2. /\ Decided(w) \in Nat
          /\ \A i \in 1 .. Len(l) :
               /\ Decided(w) + i \in DOMAIN arrival
               /\ l[i] = arrival[Decided(w) + i]
          /\ \A i \in DOMAIN arrival : done[arrival[i]] # "none" => i <= Decided(w)
      BY <1>2, <3>1, LineFacts
    <3>3. /\ writer[w].chunk \in Seq(Request) /\ writer[w].batch \in Seq(Request)
          /\ l \in Seq(Request) /\ Len(l) \in Nat
      BY <1>2, LineTyped
    <3>4. Line(w)' = writer[w].chunk \o writer[w].batch \o (queue \o Docs[c])
      BY <1>1, <2>1 DEF Line
    <3>5. Line(w)' = l \o Docs[c]
      <4> DEFINE held == writer[w].chunk \o writer[w].batch
      <4>1. held \in Seq(Request)
        BY <3>3, ConcatTyped
      <4>2. Line(w)' = held \o (queue \o Docs[c]) /\ l = held \o queue
        BY <3>4 DEF Line
      <4>3. held \o (queue \o Docs[c]) = (held \o queue) \o Docs[c]
        <5>1. queue \in Seq(Request) /\ Docs[c] \in Seq(Request)
          BY <1>2, <1>3
        <5>2. \A t, u, v \in Seq(Request) : t \o (u \o v) = (t \o u) \o v
          BY ConcatAssociative
        <5> HIDE DEF held
        <5> QED
          BY <5>1, <4>1, <5>2, Zenon
      <4> QED
        BY <4>2, <4>3
    <3> HIDE DEF l
    <3>6. /\ Len(Line(w)') = Len(l) + m /\ DOMAIN Line(w)' = 1 .. Len(l) + m
          /\ \A i \in 1 .. Len(l) : Line(w)'[i] = l[i]
          /\ \A i \in 1 .. m : Line(w)'[Len(l) + i] = Docs[c][i]
      BY <1>3, <3>3, <3>5, ConcatFacts, SeqTyped DEF m
    <3>7. Decided(w) = n - Len(l)
      BY DEF l, n, Decided
    <3>8. Decided(w)' = Decided(w)
      <4>1. Decided(w)' = Len(arrival') - Len(Line(w)')
        BY DEF Decided
      <4> QED
        BY <1>2, <1>3, <1>4, <3>3, <3>6, <3>7, <4>1
    <3>9. ASSUME NEW i \in 1 .. Len(l) + m
          PROVE  Line(w)'[i] = arrival'[Decided(w) + i]
      <4>1. CASE i <= Len(l)
        <5>1. i \in 1 .. Len(l) /\ Decided(w) + i \in 1 .. n
          BY <1>2, <3>2, <3>3, <4>1
        <5> QED
          BY <1>4, <3>2, <3>6, <5>1
      <4>2. CASE i > Len(l)
        <5>1. /\ i - Len(l) \in 1 .. m /\ i = Len(l) + (i - Len(l))
              /\ Decided(w) + i = n + (i - Len(l))
          BY <1>2, <1>3, <3>2, <3>3, <3>7, <4>2
        <5> QED
          BY <1>4, <3>6, <5>1
      <4> QED
        BY <3>3, <4>1, <4>2
    <3>10. ASSUME NEW i \in DOMAIN arrival', done'[arrival'[i]] # "none"
           PROVE  i <= Decided(w)
      BY <1>1, <1>5, <1>7, <3>2, <3>10
    <3>11. Len(Line(w)') <= Len(arrival')
      BY <1>2, <1>3, <1>4, <3>2, <3>3, <3>6, <3>7
    <3> QED
      BY <3>6, <3>8, <3>9, <3>10, <3>11
  <2>2. CASE ~running
    <3>1. writer'[w] = [Off EXCEPT !.at = "take"]
      BY <1>2, <1>11, <1>13, <2>2 DEF TypeOK
    <3>2. Line(w)' = <<>> \o <<>> \o (<<>> \o Docs[c])
      BY <1>1, <1>10, <1>11, <2>2, <3>1 DEF Line
    <3>3. Line(w)' = Docs[c]
      BY <1>3, <3>2
    <3>4. Decided(w)' = n
      BY <1>2, <1>3, <1>4, <3>3 DEF Decided, m
    <3>5. ASSUME NEW i \in DOMAIN arrival', done'[arrival'[i]] # "none"
          PROVE  i <= n
      BY <1>1, <1>2, <1>5, <1>7, <3>5
    <3>6. DOMAIN Line(w)' = 1 .. m /\ Len(Line(w)') <= Len(arrival')
      BY <1>2, <1>3, <1>4, <3>3 DEF m
    <3>7. \A i \in 1 .. m : Line(w)'[i] = arrival'[n + i]
      BY <1>4, <3>3
    <3> QED
      BY <3>4, <3>5, <3>6, <3>7
  <2> QED
    BY <1>11, <2>1, <2>2
<1>14. LineInOrder'
  BY <1>13 DEF LineInOrder
<1> QED
  BY <1>8, <1>9, <1>12, <1>14 DEF OrderInv

LEMMA EmptyConcat ==
    ASSUME NEW S, NEW s \in Seq(S)
    PROVE  <<>> \o s = s /\ s \o <<>> = s /\ <<>> \in Seq(S)
  OBVIOUS

(***************************************************************************)
(* A part of the line that comes first, and what remains behind it.        *)
(***************************************************************************)
LEMMA BehindFirst ==
    ASSUME NEW S, NEW a \in Seq(S), NEW b \in Seq(S), NEW c \in Seq(S)
    PROVE  /\ Len(b \o c) = Len(a \o b \o c) - Len(a)
           /\ \A i \in 1 .. Len(b \o c) : (b \o c)[i] = (a \o b \o c)[Len(a) + i]
  OBVIOUS

LEMMA OrderStaysWithoutWrite ==
    ASSUME OrderInv, UNCHANGED <<done, entries, arrival>>
    PROVE  InOrder'
  BY DEF OrderInv, InOrder, StoredAfter

LEMMA StopKeepsOrder ==
    ASSUME IInv, IInv', OrderInv, NEW w \in Worker, Stop(w)
    PROVE  OrderInv'
<1>1. /\ writer[w].at = "take" /\ EnterWriter(w, Off)
      /\ UNCHANGED <<callVars, queue, done, entries, arrival>>
  BY DEF Stop, Leave
<1>2. Off \in WriterStates /\ Off.at = "off" /\ Off.chunk = <<>> /\ Off.batch = <<>>
  BY EmptyConcat DEF Off, WriterStates
<1>3. InOrder'
  BY <1>1, OrderStaysWithoutWrite
<1>4. 0 \in 0 .. Len(Line(w))
  BY LineTyped DEF IInv
<1> QED
  BY <1>1, <1>2, <1>3, <1>4, WriterStepKeepsOrder DEF IInv, callVars

LEMMA TakeKeepsOrder ==
    ASSUME IInv, IInv', OrderInv, NEW w \in Worker, Take(w)
    PROVE  OrderInv'
<1> DEFINE state == [Off EXCEPT !.at = "write", !.batch = queue]
<1>1. /\ writer[w].at = "take" /\ EnterWriter(w, state) /\ queue' = <<>>
      /\ UNCHANGED <<callVars, running, done, entries, arrival>>
  BY DEF Take
<1>2. queue \in Seq(Request) /\ <<>> \in Seq(Request)
  BY DEF IInv, TypeOK
<1>3. /\ state \in WriterStates /\ state.at = "write"
      /\ state.chunk = <<>> /\ state.batch = queue
  BY <1>2 DEF Off, WriterStates
<1> HIDE DEF state
<1>4. writer[w].chunk = <<>> /\ writer[w].batch = <<>>
  BY <1>1 DEF OrderInv, HeldInPlace
<1>5. Line(w) = queue
  BY <1>2, <1>4, EmptyConcat DEF Line
<1>6. writer'[w] = state
  BY <1>1 DEF EnterWriter, IInv, TypeOK
<1>7. Line(w)' = queue
  BY <1>1, <1>2, <1>3, <1>6, EmptyConcat DEF Line
<1>8. InOrder'
  BY <1>1, OrderStaysWithoutWrite
<1>9. 0 \in 0 .. Len(Line(w)) /\ Len(Line(w)) \in Nat
  BY LineTyped DEF IInv
<1>10. /\ Len(Line(w)') = Len(Line(w)) - 0
       /\ \A i \in 1 .. Len(Line(w)') : Line(w)'[i] = Line(w)[0 + i]
  BY <1>5, <1>7, <1>9
<1> QED
  BY <1>1, <1>3, <1>8, <1>9, <1>10, WriterStepKeepsOrder DEF IInv, callVars

LEMMA SplitConcat ==
    ASSUME NEW S, NEW s \in Seq(S), NEW e \in 1 .. Len(s)
    PROVE  SubSeq(s, 1, e) \o SubSeq(s, e + 1, Len(s)) = s
<1> DEFINE t == SubSeq(s, 1, e) \o SubSeq(s, e + 1, Len(s))
<1>1. t \in Seq(S) /\ Len(t) = Len(s)
  OBVIOUS
<1>2. \A i \in 1 .. Len(t) : t[i] = s[i]
  OBVIOUS
<1> HIDE DEF t
<1>3. t = s
  BY <1>1, <1>2, SameSeq
<1> QED
  BY <1>3 DEF t

LEMMA PutChunkKeepsOrder ==
    ASSUME IInv, IInv', OrderInv, NEW w \in Worker, PutChunk(w)
    PROVE  OrderInv'
<1> DEFINE batch == writer[w].batch
<1>1. PICK e \in 1 .. Len(batch), outcome \in Outcomes :
        /\ Write(SubSeq(batch, 1, e), outcome)
        /\ EnterWriter(w,
             [at |-> IF e = 1 THEN "answer" ELSE AfterPutAll(w, outcome),
              batch |-> SubSeq(batch, e + 1, Len(batch)),
              chunk |-> SubSeq(batch, 1, e),
              stored |-> e > 1 \/ outcome = "ok"])
  BY DEF PutChunk
<1> DEFINE at == IF e = 1 THEN "answer" ELSE AfterPutAll(w, outcome)
           ok == e > 1 \/ outcome = "ok"
           chunk == SubSeq(batch, 1, e)
           rest == SubSeq(batch, e + 1, Len(batch))
           state == [at |-> at, batch |-> rest, chunk |-> chunk, stored |-> ok]
<1>2. /\ writer[w].at = "write"
      /\ UNCHANGED <<callVars, queue, running, done, arrival>>
      /\ Write(chunk, outcome) /\ EnterWriter(w, state)
  BY <1>1 DEF PutChunk
<1>3. batch \in Seq(Request) /\ queue \in Seq(Request) /\ writer[w].chunk = <<>>
  BY <1>2 DEF IInv, TypeOK, WriterStates, OrderInv, HeldInPlace
<1>4. /\ chunk \in Seq(Request) /\ rest \in Seq(Request) /\ chunk \o rest = batch
      /\ Len(chunk) = e /\ DOMAIN chunk = 1 .. e
      /\ e \in 1 .. Len(batch) /\ Len(batch) \in Nat
      /\ \A i \in 1 .. e : chunk[i] = batch[i]
  <2>1. e \in 0 .. Len(batch) /\ Len(batch) \in Nat
    BY <1>3, SeqTyped
  <2>2. /\ chunk \in Seq(Request) /\ rest \in Seq(Request) /\ Len(chunk) = e
        /\ \A i \in 1 .. e : chunk[i] = batch[i]
    BY <1>3, <2>1, SubSeqFacts
  <2>3. chunk \o rest = batch
    BY <1>3, SplitConcat
  <2>4. DOMAIN chunk = 1 .. e
    BY <2>2, SeqTyped
  <2> QED
    BY <2>1, <2>2, <2>3, <2>4
<1>5. at \in {"answer", "retry"} /\ ok \in BOOLEAN
      /\ (at = "answer" /\ ok => outcome = "ok")
  BY DEF AfterPutAll
<1> HIDE DEF at, ok, chunk, rest, batch
<1>6. /\ state \in WriterStates /\ state.at = at /\ state.chunk = chunk
      /\ state.batch = rest /\ state.stored = ok
  BY <1>4, <1>5 DEF WriterStates
<1> HIDE DEF state
<1>7. writer'[w] = state
  BY <1>2 DEF EnterWriter, IInv, TypeOK
<1>8. Line(w) = batch \o queue
  BY <1>3, EmptyConcat DEF Line, batch
<1>9. Line(w)' = batch \o queue
  BY <1>2, <1>4, <1>6, <1>7 DEF Line
<1>10. 0 \in 0 .. Len(Line(w)) /\ Len(Line(w)) \in Nat
  BY LineTyped DEF IInv
<1>11. /\ Len(Line(w)') = Len(Line(w)) - 0
       /\ \A i \in 1 .. Len(Line(w)') : Line(w)'[i] = Line(w)[0 + i]
  BY <1>8, <1>9, <1>10
<1>12. /\ Len(chunk) <= Len(Line(w))
       /\ \A k \in DOMAIN chunk : chunk[k] = Line(w)[k]
  <2>1. /\ Len(batch \o queue) = Len(batch) + Len(queue) /\ Len(queue) \in Nat
        /\ \A i \in 1 .. Len(batch) : (batch \o queue)[i] = batch[i]
    BY <1>3, ConcatFacts, SeqTyped
  <2> QED
    BY <1>4, <1>8, <2>1
<1>13. InOrder'
  <2> SUFFICES ASSUME NEW i \in DOMAIN arrival, NEW j \in DOMAIN arrival,
                      NEW r \in Request, NEW s \in Request,
                      i < j, arrival[i] = r, arrival[j] = s,
                      done[r] = "ok", done[s] = "ok"
               PROVE  StoredAfter(s, r)'
    BY <1>2 DEF InOrder
  <2>1. StoredAfter(s, r)
    BY DEF OrderInv, InOrder
  <2>2. i <= Decided(w)
    BY <1>2, LineFacts DEF IInv
  <2> QED
    BY <1>2, <1>4, <1>12, <2>1, <2>2, WriteKeepsOrder DEF IInv
<1>14. ASSUME state.at = "answer", state.stored
       PROVE  entries' # <<>> /\ entries'[Len(entries')] = state.chunk
  <2>1. entries' = Append(entries, chunk)
    BY <1>2, <1>5, <1>6, <1>14 DEF Write
  <2>2. entries \in Seq(Seq(Request))
    BY DEF IInv, TypeOK
  <2>3. entries' # <<>> /\ Len(entries') = Len(entries) + 1
    BY <1>4, <2>1, <2>2
  <2> QED
    BY <1>4, <1>6, <2>1, <2>2, <2>3, AppendFacts
<1> QED
  BY <1>2, <1>5, <1>6, <1>10, <1>11, <1>13, <1>14, WriterStepKeepsOrder DEF IInv, callVars

LEMMA OnwardHolds ==
    ASSUME NEW rest \in Seq(Request)
    PROVE  /\ Onward(rest) \in WriterStates /\ Onward(rest).at \in {"take", "write"}
           /\ Onward(rest).chunk = <<>> /\ Onward(rest).batch = rest
           /\ Onward(rest).at = "take" => rest = <<>>
  BY EmptyConcat, OnwardTyped DEF Onward, Off

LEMMA AnswerKeepsOrder ==
    ASSUME IInv, IInv', OrderInv, NEW w \in Worker, Answer(w)
    PROVE  OrderInv'
<1> DEFINE chunk == writer[w].chunk
           rest == writer[w].batch
           n == Len(chunk)
<1>1. /\ TypeOK /\ writer[w].at = "answer" /\ EnterWriter(w, Onward(rest))
      /\ done' = [r \in Request |->
                    IF \E i \in DOMAIN chunk : chunk[i] = r
                    THEN IF writer[w].stored THEN "ok" ELSE "failed"
                    ELSE done[r]]
      /\ UNCHANGED <<callVars, queue, running, entries, arrival>>
  BY DEF Answer, IInv
<1>2. /\ chunk \in Seq(Request) /\ rest \in Seq(Request) /\ queue \in Seq(Request)
      /\ DOMAIN chunk = 1 .. n /\ n \in Nat
      /\ n <= Len(Line(w)) /\ Len(Line(w)) \in Nat
      /\ \A i \in 1 .. n : Line(w)[i] = chunk[i]
      /\ DOMAIN arrival = 1 .. Len(arrival) /\ Len(arrival) \in Nat
  BY <1>1, LineTyped, SeqTyped DEF Line
<1>3. Line(w) = chunk \o rest \o queue
  BY DEF Line
<1>4. ASSUME NEW k \in DOMAIN chunk
      PROVE  /\ k \in 1 .. Len(Line(w)) /\ k \in 1 .. n
             /\ Line(w)[k] = chunk[k]
  <2> HIDE DEF chunk, rest, n
  <2> QED
    BY <1>2
<1>5. PICK state \in WriterStates :
        /\ state = Onward(rest) /\ state.at \in {"take", "write"}
        /\ state.chunk = <<>> /\ state.batch = rest
        /\ state.at = "take" => rest = <<>>
  BY <1>2, OnwardHolds
<1>6. writer'[w] = state
  BY <1>1, <1>5 DEF EnterWriter, TypeOK
<1>7. Line(w)' = rest \o queue
  BY <1>1, <1>2, <1>5, <1>6, EmptyConcat DEF Line
<1>8. \A r \in Request : done'[r] # done[r] => \E i \in 1 .. n : chunk[i] = r
  BY <1>1, <1>2
<1>9. writer[w].stored => entries # <<>> /\ entries[Len(entries)] = chunk
  BY <1>1 DEF OrderInv, HeldInPlace
<1>10. done \in [Request -> {"none", "ok", "failed"}] /\ entries \in Seq(Seq(Request))
  BY <1>1 DEF TypeOK
<1>11. /\ Decided(w) \in Nat
       /\ \A i \in DOMAIN arrival, k \in 1 .. Len(Line(w)) :
            arrival[i] = Line(w)[k] => i = Decided(w) + k
       /\ \A i \in DOMAIN arrival : done[arrival[i]] # "none" => i <= Decided(w)
  BY <1>1, LineFacts
<1>12. InOrder'
  <2> SUFFICES ASSUME NEW i \in DOMAIN arrival, NEW j \in DOMAIN arrival,
                      NEW r \in Request, NEW s \in Request,
                      i < j, arrival[i] = r, arrival[j] = s,
                      done'[r] = "ok", done'[s] = "ok"
               PROVE  StoredAfter(s, r)'
    BY <1>1 DEF InOrder
  <2>1. CASE \E k \in DOMAIN chunk : chunk[k] = s
    <3>1. PICK k \in DOMAIN chunk : chunk[k] = s
      BY <2>1
    <3>2. j = Decided(w) + k
      BY <1>11, <1>4, <3>1
    <3>3. writer[w].stored
      BY <1>1, <2>1
    <3>4. ASSUME NEW l \in DOMAIN chunk, chunk[l] = r PROVE l < k
      <4>1. i = Decided(w) + l
        BY <1>11, <1>4, <3>4
      <4> QED
        BY <1>2, <1>11, <3>2, <4>1
    <3>5. entries' \in Seq(Seq(Request)) /\ entries' # <<>> /\ entries'[Len(entries')] = chunk
      BY <1>1, <1>9, <1>10, <3>3
    <3> QED
      <4> HIDE DEF chunk
      <4> QED
        BY <3>1, <3>4, <3>5, LastComesAfter
  <2>2. CASE ~ \E k \in DOMAIN chunk : chunk[k] = s
    <3>1. done[s] = "ok" /\ j <= Decided(w)
      <4>1. done[s] = "ok" /\ done[arrival[j]] # "none"
        BY <1>1, <2>2
      <4> QED
        BY <1>11, <4>1
    <3>2. ~ \E k \in DOMAIN chunk : chunk[k] = r
      <4>1. ASSUME NEW k \in DOMAIN chunk, chunk[k] = r PROVE FALSE
        <5>1. i = Decided(w) + k
          BY <1>11, <1>4, <4>1
        <5> QED
          BY <1>2, <1>11, <3>1, <5>1
      <4> QED
        BY <4>1
    <3>3. done[r] = "ok"
      BY <1>1, <3>2
    <3>4. StoredAfter(s, r)
      BY <3>1, <3>3 DEF OrderInv, InOrder
    <3> QED
      BY <1>1, <3>4 DEF StoredAfter
  <2> QED
    BY <2>1, <2>2
<1>13. /\ Len(Line(w)') = Len(Line(w)) - n
       /\ \A i \in 1 .. Len(Line(w)') : Line(w)'[i] = Line(w)[n + i]
  <2> HIDE DEF chunk, rest
  <2>0. chunk \in Seq(Request) /\ rest \in Seq(Request) /\ queue \in Seq(Request)
    BY <1>2
  <2>1. /\ Len(rest \o queue) = Len(chunk \o rest \o queue) - Len(chunk)
        /\ \A i \in 1 .. Len(rest \o queue) :
             (rest \o queue)[i] = (chunk \o rest \o queue)[Len(chunk) + i]
    BY <2>0, BehindFirst
  <2> QED
    BY <1>2, <1>7, <1>3, <2>1
<1>14. n \in 0 .. Len(Line(w)) /\ \A r \in Request :
         done'[r] # done[r] => \E i \in 1 .. n : Line(w)[i] = r
  <2> HIDE DEF n, chunk, rest
  <2>1. n \in 0 .. Len(Line(w))
    BY <1>2
  <2>2. ASSUME NEW r \in Request, done'[r] # done[r]
        PROVE  \E i \in 1 .. n : Line(w)[i] = r
    BY <1>2, <1>8, <2>2
  <2> QED
    BY <2>1, <2>2
<1>15. EnterWriter(w, state)
  BY <1>1, <1>5
<1>16. /\ TypeOK /\ OneWriter /\ TypeOK' /\ writer[w].at # "off"
       /\ UNCHANGED <<caller, arrival>>
  BY <1>1 DEF IInv, callVars
<1> HIDE DEF n, chunk, rest
<1> QED
  BY <1>5, <1>12, <1>13, <1>14, <1>15, <1>16, WriterStepKeepsOrder

LEMMA TailConcat ==
    ASSUME NEW S, NEW s \in Seq(S), s # <<>>
    PROVE  /\ Tail(s) \in Seq(S) /\ Head(s) = s[1] /\ Head(s) \in S
           /\ <<Head(s)>> \o Tail(s) = s /\ Len(<<Head(s)>>) = 1
<1>1. Tail(s) \in Seq(S) /\ Head(s) = s[1] /\ Head(s) \in S /\ Len(<<Head(s)>>) = 1
  OBVIOUS
<1> DEFINE t == <<Head(s)>> \o Tail(s)
<1>2. t \in Seq(S) /\ Len(t) = Len(s)
  OBVIOUS
<1>3. \A i \in 1 .. Len(t) : t[i] = s[i]
  OBVIOUS
<1> HIDE DEF t
<1>4. t = s
  BY <1>2, <1>3, SameSeq
<1> QED
  BY <1>1, <1>4 DEF t

LEMMA RetryKeepsOrder ==
    ASSUME IInv, IInv', OrderInv, NEW w \in Worker, Retry(w)
    PROVE  OrderInv'
<1> DEFINE chunk == writer[w].chunk
           rest == writer[w].batch
           h == Head(chunk)
           t == Tail(chunk)
           next == IF t = <<>> THEN Onward(rest) ELSE [writer[w] EXCEPT !.chunk = t]
<1>1. /\ TypeOK /\ writer[w].at = "retry" /\ EnterWriter(w, next)
      /\ UNCHANGED <<callVars, queue, running, arrival>>
  BY DEF Retry, IInv
<1>2. PICK outcome \in Outcomes :
        /\ Write(<<h>>, outcome)
        /\ done' = [done EXCEPT ![h] = IF outcome = "ok" THEN "ok" ELSE "failed"]
  BY DEF Retry
<1>3. /\ chunk \in Seq(Request) /\ rest \in Seq(Request) /\ queue \in Seq(Request)
      /\ Len(Line(w)) \in Nat /\ Len(chunk) <= Len(Line(w))
      /\ \A i \in 1 .. Len(chunk) : Line(w)[i] = chunk[i]
      /\ DOMAIN arrival = 1 .. Len(arrival) /\ Len(arrival) \in Nat
      /\ chunk # <<>> /\ Len(chunk) \in Nat
  <2>1. chunk # <<>>
    BY <1>1 DEF IInv, WritersHoldWork
  <2> QED
    BY <1>1, <2>1, LineTyped, SeqTyped DEF Line
<1>4. /\ t \in Seq(Request) /\ h = chunk[1] /\ h \in Request /\ <<h>> \o t = chunk
      /\ <<h>> \in Seq(Request) /\ Len(<<h>>) = 1 /\ <<h>>[1] = h /\ DOMAIN <<h>> = 1 .. 1
      /\ Len(chunk) >= 1
  BY <1>3, TailConcat, SeqTyped
<1>5. Line(w) = chunk \o rest \o queue
  BY DEF Line
<1>6. h = Line(w)[1] /\ 1 <= Len(Line(w)) /\ 1 \in 1 .. Len(Line(w))
  <2> HIDE DEF chunk, rest, h, t, next
  <2> QED
    BY <1>3, <1>4
<1>7. PICK state \in WriterStates :
        /\ state = next /\ state.at \in {"take", "write", "retry"}
        /\ state.chunk = t /\ state.batch = rest
        /\ state.at \in {"take", "write"} => t = <<>>
        /\ state.at = "take" => rest = <<>>
  <2>1. CASE t = <<>>
    BY <1>3, <2>1, OnwardHolds
  <2>2. CASE t # <<>>
    <3>1. writer[w] \in WriterStates
      BY <1>1 DEF TypeOK
    <3>2. next = [writer[w] EXCEPT !.chunk = t]
      BY <2>2
    <3>3. next \in WriterStates /\ next.at = "retry" /\ next.chunk = t /\ next.batch = rest
      BY <1>1, <1>4, <3>1, <3>2 DEF WriterStates
    <3> QED
      BY <3>3
  <2> QED
    BY <2>1, <2>2
<1>8. writer'[w] = state /\ EnterWriter(w, state)
  BY <1>1, <1>7 DEF EnterWriter, TypeOK
<1>9. Line(w)' = t \o rest \o queue
  BY <1>1, <1>7, <1>8 DEF Line
<1>10. /\ Decided(w) \in Nat
       /\ \A i \in DOMAIN arrival, k \in 1 .. Len(Line(w)) :
            arrival[i] = Line(w)[k] => i = Decided(w) + k
       /\ \A i \in DOMAIN arrival : done[arrival[i]] # "none" => i <= Decided(w)
  BY <1>1, LineFacts
<1>11. done \in [Request -> {"none", "ok", "failed"}] /\ entries \in Seq(Seq(Request))
  BY <1>1 DEF TypeOK
<1> HIDE DEF next, t, h
<1>12. InOrder'
  <2> SUFFICES ASSUME NEW i \in DOMAIN arrival, NEW j \in DOMAIN arrival,
                      NEW r \in Request, NEW s \in Request,
                      i < j, arrival[i] = r, arrival[j] = s,
                      done'[r] = "ok", done'[s] = "ok"
               PROVE  StoredAfter(s, r)'
    BY <1>1 DEF InOrder
  <2>1. arrival[i] = h => i = Decided(w) + 1
    BY <1>6, <1>10
  <2>2. arrival[j] = h => j = Decided(w) + 1
    BY <1>6, <1>10
  <2>3. r # h
    <3>1. CASE s = h
      BY <1>10, <2>1, <2>2, <3>1
    <3>2. CASE s # h
      <4>1. done[s] = "ok" /\ j <= Decided(w)
        <5>1. done[s] = "ok" /\ done[arrival[j]] # "none"
          BY <1>2, <1>11, <3>2
        <5> QED
          BY <1>10, <5>1
      <4> QED
        BY <1>3, <1>10, <2>1, <4>1
    <3> QED
      BY <3>1, <3>2
  <2>4. done[r] = "ok" /\ i <= Decided(w)
    <3>1. done[r] = "ok" /\ done[arrival[i]] # "none"
      BY <1>2, <1>11, <2>3
    <3> QED
      BY <1>10, <3>1
  <2>5. CASE s = h
    <3>1. outcome = "ok"
      BY <1>2, <1>4, <1>11, <2>5
    <3>2. entries' = Append(entries, <<h>>)
      BY <1>2, <3>1 DEF Write
    <3>3. /\ entries' \in Seq(Seq(Request)) /\ entries' # <<>>
          /\ entries'[Len(entries')] = <<h>>
      <4>1. Len(entries') = Len(entries) + 1 /\ entries' # <<>>
        BY <1>4, <1>11, <3>2
      <4> QED
        BY <1>4, <1>11, <3>2, <4>1, AppendFacts
    <3>4. 1 \in DOMAIN <<h>> /\ <<h>>[1] = s /\ \A l \in DOMAIN <<h>> : <<h>>[l] # r
      BY <1>4, <2>3, <2>5
    <3> QED
      BY <3>3, <3>4, LastComesAfter
  <2>6. CASE s # h
    <3>1. done[s] = "ok"
      BY <1>2, <1>11, <2>6
    <3>2. StoredAfter(s, r)
      BY <2>4, <3>1 DEF OrderInv, InOrder
    <3>3. Len(<<h>>) <= Len(Line(w)) /\ \A k \in DOMAIN <<h>> : <<h>>[k] = Line(w)[k]
      BY <1>4, <1>6
    <3> QED
      BY <1>1, <1>2, <1>4, <2>4, <3>2, <3>3, WriteKeepsOrder
  <2> QED
    BY <2>5, <2>6
<1>13. /\ Len(Line(w)') = Len(Line(w)) - 1
       /\ \A i \in 1 .. Len(Line(w)') : Line(w)'[i] = Line(w)[1 + i]
  <2> HIDE DEF chunk, rest
  <2>1. Line(w) = (<<h>> \o t) \o rest \o queue
    BY <1>4, <1>5
  <2>2. /\ t \o rest \in Seq(Request)
        /\ <<h>> \o t \o rest \o queue = <<h>> \o (t \o rest) \o queue
    <3>1. \A a, b, c \in Seq(Request) : a \o (b \o c) = (a \o b) \o c
      BY ConcatAssociative
    <3> QED
      BY <1>3, <1>4, <3>1, ConcatTyped
  <2>3. /\ Len((t \o rest) \o queue) = Len(<<h>> \o (t \o rest) \o queue) - Len(<<h>>)
        /\ \A i \in 1 .. Len((t \o rest) \o queue) :
             ((t \o rest) \o queue)[i] = (<<h>> \o (t \o rest) \o queue)[Len(<<h>>) + i]
    BY <1>3, <1>4, <2>2, BehindFirst
  <2> QED
    BY <1>4, <1>9, <2>1, <2>2, <2>3
<1>14. /\ 1 \in 0 .. Len(Line(w))
       /\ \A r \in Request : done'[r] # done[r] => \E i \in 1 .. 1 : Line(w)[i] = r
  <2>1. 1 \in 0 .. Len(Line(w)) /\ Line(w)[1] = h
    BY <1>3, <1>6
  <2>2. ASSUME NEW r \in Request, done'[r] # done[r] PROVE r = h
    BY <1>2, <1>11, <2>2
  <2>3. 1 \in 1 .. 1
    OBVIOUS
  <2> QED
    BY <2>1, <2>2, <2>3
<1> HIDE DEF chunk, rest
<1> QED
  BY <1>1, <1>7, <1>8, <1>12, <1>13, <1>14, WriterStepKeepsOrder DEF IInv, callVars

-----------------------------------------------------------------------------

LEMMA InitOrderInv == Init => OrderInv
<1> SUFFICES ASSUME Init PROVE OrderInv
  OBVIOUS
<1>1. /\ arrival = <<>> /\ DOMAIN arrival = {}
      /\ \A r \in Request : done[r] = "none"
      /\ \A w \in Worker : writer[w] = Off
  BY DEF Init
<1>2. Off.at = "off" /\ Off.chunk = <<>> /\ Off.batch = <<>>
  BY DEF Off
<1> QED
  BY <1>1, <1>2 DEF OrderInv, LineInOrder, HeldInPlace, ArrivedOnce, InOrder

LEMMA NextKeepsOrder == IInv /\ IInv' /\ OrderInv /\ [Next]_vars => OrderInv'
<1> SUFFICES ASSUME IInv, IInv', OrderInv, [Next]_vars PROVE OrderInv'
  OBVIOUS
<1>1. ASSUME UNCHANGED <<queue, done, writer, entries, arrival>>,
             \A c \in Caller : caller'[c] = "idle" => caller[c] = "idle"
      PROVE  OrderInv'
  <2>1. LineInOrder'
    BY <1>1 DEF OrderInv, LineInOrder, Line, Decided
  <2>2. HeldInPlace'
    BY <1>1 DEF OrderInv, HeldInPlace
  <2>3. ArrivedOnce'
    BY <1>1 DEF OrderInv, ArrivedOnce
  <2>4. InOrder'
    BY <1>1, OrderStaysWithoutWrite
  <2> QED
    BY <2>1, <2>2, <2>3, <2>4 DEF OrderInv
<1>2. CASE UNCHANGED vars
  BY <1>1, <1>2 DEF vars, callVars
<1>3. ASSUME NEW c \in Caller, Call(c) \/ Cancel(c)
      PROVE  OrderInv'
  <2>1. CASE Submit(c)
    BY <2>1, SubmitKeepsOrder
  <2>2. CASE Collect(c) \/ Cancel(c)
    BY <1>1, <2>2 DEF Collect, Cancel
  <2>3. CASE Return(c)
    BY <1>1, <2>3 DEF Return, IInv, TypeOK
  <2> QED
    BY <1>3, <2>1, <2>2, <2>3 DEF Call
<1>4. CASE \E w \in Worker : Writer(w)
  BY <1>4, StopKeepsOrder, TakeKeepsOrder, PutChunkKeepsOrder, AnswerKeepsOrder,
     RetryKeepsOrder DEF Writer
<1> QED
  BY <1>2, <1>3, <1>4 DEF Next

(***************************************************************************)
(* Of two acknowledged writes the one queued later stands later in the     *)
(* oplog, whatever is combined with it, however a batch is cut into        *)
(* entries, and however a PutAll fails and is retried: the writer decides  *)
(* the arrivals from the first to the last, and a request it has decided   *)
(* is never written again.                                                 *)
(***************************************************************************)
THEOREM LaterWins == Spec => []ArrivalOrderKept
<1>1. TypeOK /\ OrderInv => ArrivalOrderKept
  <2> SUFFICES ASSUME TypeOK, OrderInv PROVE ArrivalOrderKept
    OBVIOUS
  <2>1. \A i \in DOMAIN arrival : arrival[i] \in Request
    BY SeqTyped DEF TypeOK
  <2> QED
    BY <2>1 DEF ArrivalOrderKept, OrderInv, InOrder
<1>2. Init => OrderInv
  BY InitOrderInv
<1>3. IInv /\ IInv' /\ OrderInv /\ [Next]_vars => OrderInv'
  BY NextKeepsOrder
<1>4. IInv => TypeOK
  BY DEF IInv
<1> QED
  BY WritePathInvariant, <1>1, <1>2, <1>3, <1>4, PTL DEF Spec

=============================================================================
