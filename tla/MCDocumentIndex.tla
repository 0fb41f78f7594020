-------------------------- MODULE MCDocumentIndex --------------------------
(***************************************************************************)
(* The stores of one node, from inside and from outside.  A behaviour is   *)
(* about one of them: the other stays where it is.                         *)
(*                                                                         *)
(* The index of one store: three keys, one indexed field, and six entries  *)
(* of two writers: single and multiple puts, concurrent ones with equal    *)
(* times, deletes, and a document that is no JSON.                         *)
(*                                                                         *)
(* The table of stores: one store opened at start, one that requests       *)
(* create, three requests that may overlap, and a restart.                 *)
(***************************************************************************)
EXTENDS DocumentIndex, Stores, TLC

CONSTANTS c1, c2, c3

VARIABLE subject    \* "index" or "stores"

Put(t, i, d) == [time |-> t, id |-> i, docs |-> d]

Six == {
    Put(1, 1, "x" :> "d1"),
    Put(1, 2, "x" :> "d2" @@ "y" :> "d3"),
    Put(2, 1, "x" :> Nothing),
    Put(3, 1, "x" :> "d4" @@ "y" :> Nothing),
    Put(3, 2, "y" :> "d5" @@ "z" :> "d7"),
    Put(4, 2, "x" :> "d6") }

Documents == {"d1", "d2", "d3", "d4", "d5", "d6", "d7"}

Texts == [d \in Documents |->
    CASE d \in {"d1", "d3", "d7"} -> "type" :> "A"
      [] d \in {"d2", "d5"} -> "type" :> "B"
      [] OTHER              -> NoFields]

Costs == [d \in Documents |-> IF d \in {"d2", "d3", "d5"} THEN 2 ELSE 1]

Opened == <<"k">>

Three(x, y, z) == (c1 :> x) @@ (c2 :> y) @@ (c3 :> z)

Job(op, n) == [op |-> op, name |-> n]
Use == Job("use", "a")
Drop == Job("drop", "a")
Export == Job("export", "a")
Import == Job("import", "a")

Plans == {
    Three(Use, Drop, Use),
    Three(Use, Drop, Job("create", "a")),
    Three(Use, Drop, Import),
    Three(Use, Export, Drop),
    Three(Import, Export, Drop),
    Three(Job("use", "k"), Export, Use),
    Three(Job("use", "k"), Job("drop", "k"), Job("create", "k")) }

\* The calls of a plan come in this order, and overlap.
InOrder ==
    /\ doing[c2].at # "idle" => doing[c1].at # "idle"
    /\ doing[c3].at # "idle" => doing[c2].at # "idle"

-----------------------------------------------------------------------------

MCInit ==
    /\ Init /\ StoresInit
    /\ subject \in {"index", "stores"}
    /\ subject = "index" => jobs = Three(Use, Drop, Use)

MCNext ==
    /\ \/ subject = "index" /\ Next /\ UNCHANGED storesVars
       \/ subject = "stores" /\ StoresNext /\ InOrder' /\ UNCHANGED vars
    /\ UNCHANGED subject

MCSpec == MCInit /\ [][MCNext]_<<vars, storesVars, subject>>

=============================================================================
