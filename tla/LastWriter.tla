----------------------------- MODULE LastWriter -----------------------------
(***************************************************************************)
(* How the index of a document store (documentstore/index.go) takes an     *)
(* oplog entry: per key, the entry with the latest Lamport clock wins.     *)
(***************************************************************************)
EXTENDS Integers

CONSTANTS
    Key,        \* the keys of documents
    Raw,        \* stored documents
    Nothing     \* no document: an absent key, and what a DEL stores

ASSUME NothingAssumption == Nothing \notin Raw

(***************************************************************************)
(* A stamp is a Lamport clock: a time, then the identity of the writer.    *)
(* NoStamp, of a key never written, is before every stamp.                 *)
(***************************************************************************)
Stamps == [time : Nat, id : Nat]
NoStamp == [time |-> -1, id |-> 0]

Later(s, t) ==
    \/ s.time > t.time
    \/ s.time = t.time /\ s.id > t.id

(***************************************************************************)
(* An entry has a stamp and the documents it writes: one of a PUT, several *)
(* of a PUTALL, Nothing for the key of a DEL.                              *)
(***************************************************************************)
Contents == UNION {[K -> Raw \cup {Nothing}] : K \in SUBSET Key}

Stamp(e) == [time |-> e.time, id |-> e.id]

Writes(e, k) == k \in DOMAIN e.docs

(***************************************************************************)
(* apply: an entry already seen changes nothing.                           *)
(***************************************************************************)
EmptyIndex ==
    [index |-> [k \in Key |-> Nothing], clocks |-> [k \in Key |-> NoStamp],
     seen |-> {}]

LastArrivalWins(x, e, k) == Writes(e, k)

Wins(x, e, k) == Writes(e, k) /\ Later(Stamp(e), x.clocks[k])

Applied(x, e) ==
    [index  |-> [k \in Key |-> IF Wins(x, e, k) THEN e.docs[k] ELSE x.index[k]],
     clocks |-> [k \in Key |-> IF Wins(x, e, k) THEN Stamp(e) ELSE x.clocks[k]],
     seen   |-> x.seen \cup {e}]

Apply(x, e) == IF e \in x.seen THEN x ELSE Applied(x, e)

(***************************************************************************)
(* What a full rebuild from the entries E would show under k, whatever     *)
(* their order.                                                            *)
(***************************************************************************)
Writers(E, k) == {e \in E : Writes(e, k)}

Last(E, k) ==
    CHOOSE e \in Writers(E, k) :
        \A f \in Writers(E, k) : ~Later(Stamp(f), Stamp(e))

Rebuilt(E, k) == IF Writers(E, k) = {} THEN Nothing ELSE Last(E, k).docs[k]

=============================================================================
