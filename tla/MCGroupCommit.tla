--------------------------- MODULE MCGroupCommit ---------------------------
(***************************************************************************)
(* Instances of GroupCommit, MetadataCatalog and Credentials for TLC,      *)
(* three ways into the stores that share no state here, so a behaviour is  *)
(* about one of them: four documents in two calls, three of them versions  *)
(* of document "a", one too large to share an entry; two requests for any  *)
(* of seven files, among them the same template under two names and in     *)
(* both modes; or a credential that is posted without an id, posted again  *)
(* under the id it was given, revoked and read.                            *)
(***************************************************************************)
EXTENDS GroupCommit, MetadataCatalog, Credentials

CONSTANTS s1, s2, s3, l1, l2

FourDocs == [c \in Caller |->
    CASE c = 1 -> <<1, 2>> [] c = 2 -> <<3, 4>>]
FourKeys  == <<"a", "b", "a", "a">>
FourSizes == <<1, 1, 1, 3>>

File(kind, name, content, store) ==
    [kind |-> kind, name |-> name, content |-> content, store |-> store]

SevenFiles ==
    {File("full", "f", "c", "tosca_imported"), File("full", "g", "c", "tosca_imported"),
     File("legacy", "f", "c", ""), File("legacy", "f", "not YAML", ""),
     File("full", "", "empty", "dsswres"), File("legacy", "", "empty", ""),
     File("sql", "", "", "")}

Credential(id, content, proof) ==
    [id |-> id, content |-> content, wellFormed |-> TRUE, proof |-> proof,
     expires |-> "later", party |-> content]
Posts == [x \in CredCall \ Lister |-> IF x = s1 THEN Credential(NoID, "first", "complete")
                                     ELSE IF x = s3 THEN Credential(NoID, "third", "partial")
                                     ELSE Credential(<<"first">>, "second", "complete")]
Listings == [x \in Lister |->
    [kind |-> CASE x = l1 -> "page" [] x = l2 -> "party" [] OTHER -> "query",
     party |-> IF x = l2 THEN "first" ELSE "any", status |-> "active", offset |-> 0, limit |-> 1]]

\* What is refused at once changes nothing: it comes first.  Verifying and
\* listing change nothing for others: they come last, and one is enough.  By
\* page or by party, no property is about a listing.  A call that gets the
\* credential reads nothing that a revocation changes.
Enough ==
    /\ (\E x \in CredCall : step'[x] # "new") => step'[s3] # "new"
    /\ \A x \in Verifier \cup Lister : step[x] = "new"
    /\ \A x \in Verifier \cup Lister \cup Revoker, g \in Getter :
         ~ (step'[x] # "new" /\ step'[g] # "new")
    /\ \A x \in {l1, l2} : step'[x] # "new" =>
         \A y \in Storer \cup Revoker : step[y] \in Finished

-----------------------------------------------------------------------------
VARIABLE subject    \* what this behaviour is about

allVars == <<vars, catVars, credVars, subject>>

MCInit ==
    /\ Init
    /\ CatalogInit
    /\ CredInit
    /\ subject \in {"commit", "catalog", "credentials"}
    /\ subject # "catalog" => \A a, b \in Attempt : asked[a] = asked[b] /\ asked[a].kind = "sql"

Committing(A) == subject = "commit" /\ A /\ UNCHANGED <<catVars, credVars, subject>>

MCNext ==
    \/ Committing(Next)
    \/ subject = "catalog" /\ CatalogNext /\ UNCHANGED <<vars, credVars, subject>>
    \/ subject = "credentials" /\ CredNext /\ Enough /\ UNCHANGED <<vars, catVars, subject>>

MCFairness ==
    /\ \A c \in Caller : WF_allVars(Committing(Collect(c) \/ Return(c)))
    /\ \A w \in Worker : WF_allVars(Committing(Writer(w)))

MCSpec == MCInit /\ [][MCNext]_allVars /\ MCFairness

=============================================================================
