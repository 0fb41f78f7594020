------------------------------ MODULE Mailbox ------------------------------
(***************************************************************************)
(* What the lineage queue promises, without queue and goroutines: every    *)
(* document has a place for its latest version; a document is taken out    *)
(* and entered in the catalog, one document at a time and none for ever    *)
(* passed over.                                                            *)
(***************************************************************************)
EXTENDS Integers

CONSTANTS Doc, MayFail
NoJob == 0

VARIABLES latest, pending, inHand, catalog
vars == <<latest, pending, inHand, catalog>>

Nothing == [doc |-> {}, version |-> NoJob]

Init ==
    /\ latest = [d \in Doc |-> 0]
    /\ pending = [d \in Doc |-> NoJob]
    /\ inHand = Nothing
    /\ catalog = [d \in Doc |-> 0]

Post(d) ==
    /\ latest' = [latest EXCEPT ![d] = @ + 1]
    /\ pending' = [pending EXCEPT ![d] = latest[d] + 1]
    /\ UNCHANGED <<inHand, catalog>>

TakeOut(d) ==
    /\ inHand = Nothing
    /\ pending[d] # NoJob
    /\ inHand' = [doc |-> {d}, version |-> pending[d]]
    /\ pending' = [pending EXCEPT ![d] = NoJob]
    /\ UNCHANGED <<latest, catalog>>

Enter ==
    /\ inHand # Nothing
    /\ \/ catalog' = [d \in Doc |->
                        IF d \in inHand.doc THEN inHand.version ELSE catalog[d]]
       \/ MayFail /\ UNCHANGED catalog
    /\ inHand' = Nothing
    /\ UNCHANGED <<latest, pending>>

Next == Enter \/ \E d \in Doc : Post(d) \/ TakeOut(d)

Spec == Init /\ [][Next]_vars

FairSpec == Spec /\ WF_vars(Enter) /\ \A d \in Doc : SF_vars(TakeOut(d))

=============================================================================
