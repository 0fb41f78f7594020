-------------------------- MODULE MCDocumentStore --------------------------
(***************************************************************************)
(* An instance of DocumentStore for TLC: two replicas, two goroutines that *)
(* write to the first and one that writes to the second.                   *)
(***************************************************************************)
EXTENDS DocumentStore

HomeOf == [c \in {"a", "b", "c"} |-> IF c = "c" THEN 2 ELSE 1]

Numbers == 1 .. MaxEntries

=============================================================================
