----------------------------- MODULE MCUpdates -----------------------------
(***************************************************************************)
(* An instance of Updates and LineageTables for TLC.  Documents,           *)
(* reservations and lineage lists share no state here, so a behaviour has  *)
(* the calls of one of the three: updates and a delete of one document     *)
(* beside an update of another; attaches and releases of one reservation;  *)
(* puts and removals of three rows  that refer to each other.              *)
(***************************************************************************)
EXTENDS Updates, LineageTables

CONSTANTS d1, d2, u4, k1, a, b, c, p1, p2, p3, p4, x3

VARIABLE subject    \* what the calls of this behaviour are about

allStateVars == <<allVars, tableVars, subject>>

Targets == [x \in Call |-> IF x \in Attacher \cup Releaser THEN k1
                           ELSE IF x = u4 THEN d2 ELSE d1]

Placeholders == [u \in Uri |-> <<u>>]
SubjectOf == [x \in TableCall |-> IF x \in {p2, p3, x3} THEN a ELSE IF x = p4 THEN c ELSE b]
References == [x \in Putter |-> CASE x = p1 -> {} [] x = p2 -> {b}
                                  [] x = p3 -> {c} [] x = p4 -> {a, b}]

MCInit ==
    /\ UpdatesInit
    /\ TablesInit
    /\ subject \in {"documents", "reservations", "lineage"}

MCNext ==
    /\ \/ subject = "documents" /\ DocumentCalls /\ UNCHANGED tableVars
       \/ subject = "reservations" /\ CapacityCalls /\ UNCHANGED tableVars
       \/ subject = "lineage" /\ TablesNext /\ UNCHANGED allVars
    /\ UNCHANGED subject

MCSpec == MCInit /\ [][MCNext]_allStateVars

=============================================================================
