---------------------------- MODULE Credentials ----------------------------
(***************************************************************************)
(* Verifiable credentials (credentials/).  A credential is stored in four  *)
(* places one after the other, without a lock or a transaction: an IPFS    *)
(* block, a document, an entry of the audit log, and a row of the table    *)
(* credentials_metadata.  Revoking it changes the row; verifying and       *)
(* listing read rows alone; getting one reads the row and the document.    *)
(*                                                                         *)
(* The document store and the audit log are opened by the first call that  *)
(* finds the field of the service nil, so two calls may open two instances *)
(* of one store.  An instance has the entries that were below the saved    *)
(* heads when it was loaded, and those written to it; each write saves its *)
(* own entry as the only head.  The steps within a write are               *)
(* DocumentStore's.  Peers, which pass on what they have of a store, are   *)
(* left out: nothing here depends on them.                                 *)
(***************************************************************************)
EXTENDS Naturals, FiniteSets, Sequences

CONSTANTS
    Storer, Revoker, Verifier, Getter, Lister,  \* calls of each kind
    Posted,       \* Posted[c]: the credential or the id that call c comes with
    Wanted,       \* Wanted[l]: the filter and the page a listing asks for
    NoID,         \* the id of a credential posted without one
    MaxIOErrors,  \* bound on failing operations
    MaxRuns       \* bound on starts of the node

CredCall == Storer \cup Revoker \cup Verifier \cup Getter \cup Lister

\* What the checks and the tables tell apart; a party is issuer and subject.
IsCredential(vc) ==
    /\ DOMAIN vc = {"id", "content", "wellFormed", "proof", "expires", "party"}
    /\ vc.wellFormed \in BOOLEAN
    /\ vc.proof \in {"none", "partial", "complete"}
    /\ vc.expires \in {"never", "later"}

IsQuery(w) ==
    /\ DOMAIN w = {"kind", "party", "status", "offset", "limit"}
    /\ w.kind \in {"page", "query", "party"}
    /\ w.status \in {"any", "active", "revoked", "expired"}
    /\ w.offset \in Nat /\ w.limit \in Nat \ {0}

\* A call is of one kind: it comes to one endpoint.
ASSUME CredentialsAssumption ==
    /\ Storer \cap (Revoker \cup Verifier \cup Getter) = {}
    /\ Revoker \cap (Verifier \cup Getter) = {} /\ Verifier \cap Getter = {}
    /\ Lister \cap (Storer \cup Revoker \cup Verifier \cup Getter) = {}
    /\ MaxIOErrors \in Nat /\ MaxRuns \in Nat
    /\ \A c \in CredCall \ Lister : IsCredential(Posted[c])
    /\ \A l \in Lister : IsQuery(Wanted[l])

VARIABLES
    serving,    \* the endpoints are registered
    step,       \* step[c]: where call c is
    held,       \* held[c]: the instance c has opened and not assigned yet
    blocks,     \* the credentials that are IPFS blocks
    log,        \* log[s]: the entries of each instance of store s
    field,      \* field[s]: the instance in the field of the service, 0 for nil
    saved,      \* saved[s]: the entries below the saved heads
    rows,       \* rows[i]: the row of credential i in credentials_metadata
    answer,     \* answer[c]: what a Getter or a Lister was given
    ioErrors, runs,
    stamps,     \* stamps[c]: the time of call c, as stored_at
    revoked,    \* history: ids whose revocation was answered
    before,     \* history: before[c]: the value of revoked when c read
    doubled     \* history: stores whose field was assigned twice in a run

credVars == <<serving, step, held, blocks, log, field, saved, rows, answer,
              ioErrors, runs, stamps, revoked, before, doubled>>

CredStore == {"documents", "audit"}
Nobody == "nobody"
Unlisted == [by |-> Nobody, status |-> "none", storedAt |-> 0]

\* An id that is missing is made from a hash of the content.
IdOf(c) == IF Posted[c].id = NoID THEN <<Posted[c].content>> ELSE Posted[c].id

CredID == {IdOf(c) : c \in CredCall \ Lister}

\* The table is created if it does not exist; without it nothing is served.
CredInit ==
    /\ serving = TRUE
    /\ step = [c \in CredCall |-> "new"]
    /\ held = [c \in CredCall |-> 0]
    /\ blocks = {}
    /\ log = [s \in CredStore |-> <<>>]
    /\ field = [s \in CredStore |-> 0]
    /\ saved = [s \in CredStore |-> <<>>]
    /\ rows = [i \in CredID |-> Unlisted]
    /\ answer = [c \in CredCall |-> {}]
    /\ ioErrors = 0
    /\ runs = 1
    /\ stamps = [c \in CredCall |-> 0]
    /\ revoked = {}
    /\ before = [c \in CredCall |-> {}]
    /\ doubled = {}

Goes(c, where) == step' = [step EXCEPT ![c] = where]

-----------------------------------------------------------------------------
(* What a credential must look like.                                       *)

\* Context, type, issuer, dates and subject are there and have their form.
ValidateCredential(c) == Posted[c].wellFormed

\* A proof may be missing; its fields are looked for, its signature is not checked.
VerifyProof(c) == Posted[c].proof \in {"none", "complete"}

\* When a call looks, the expiration date may be past.
MayBeExpired(c) == IF Posted[c].expires = "never" THEN {FALSE} ELSE BOOLEAN

-----------------------------------------------------------------------------
(* Storing.                                                                *)

Now == 1 + Cardinality({c \in Storer : stamps[c] # 0})

StoreCredential(c) ==
    /\ c \in Storer /\ step[c] = "new" /\ serving
    /\ IF ValidateCredential(c) /\ VerifyProof(c)
       THEN Goes(c, "block") /\ stamps' = [stamps EXCEPT ![c] = Now]
       ELSE Goes(c, "failed") /\ UNCHANGED stamps
    /\ UNCHANGED <<serving, held, blocks, log, field, saved, rows, answer, ioErrors, runs,
                   revoked, before, doubled>>

StoreInIPFS(c) ==
    /\ step[c] = "block"
    /\ blocks' = blocks \cup {c}
    /\ Goes(c, "open documents")
    /\ UNCHANGED <<serving, held, log, field, saved, rows, answer, ioErrors, runs, stamps,
                   revoked, before, doubled>>

Opening(s) == IF s = "documents" THEN "open documents" ELSE "open audit"
Assigning(s) == IF s = "documents" THEN "assign documents" ELSE "assign audit"
Using(c, s) == IF s = "audit" THEN "add" ELSE IF c \in Getter THEN "fetch" ELSE "put"

\* The field is nil: the store is opened and loaded.
GetOrCreate(c, s) ==
    /\ step[c] = Opening(s)
    /\ IF field[s] # 0
       THEN Goes(c, Using(c, s)) /\ UNCHANGED <<log, held>>
       ELSE /\ log' = [log EXCEPT ![s] = Append(@, saved[s])]
            /\ held' = [held EXCEPT ![c] = Len(log[s]) + 1]
            /\ Goes(c, Assigning(s))
    /\ UNCHANGED <<serving, blocks, field, saved, rows, answer, ioErrors, runs, stamps,
                   revoked, before, doubled>>

Assign(c, s) ==
    /\ step[c] = Assigning(s)
    /\ field' = [field EXCEPT ![s] = held[c]]
    /\ doubled' = IF field[s] = 0 THEN doubled ELSE doubled \cup {s}
    /\ held' = [held EXCEPT ![c] = 0]
    /\ Goes(c, Using(c, s))
    /\ UNCHANGED <<serving, blocks, log, saved, rows, answer, ioErrors, runs, stamps,
                   revoked, before>>

\* A write goes to the instance that is now in the field.
Written(s, entry) ==
    LET entries == Append(log[s][field[s]], entry)
    IN  /\ log' = [log EXCEPT ![s][field[s]] = entries]
        /\ saved' = [saved EXCEPT ![s] = entries]

\* Put replaces a document with the same id.
StoreInDocumentStore(c) ==
    /\ step[c] = "put"
    /\ Written("documents", [id |-> IdOf(c), by |-> c])
    /\ Goes(c, "open audit")
    /\ UNCHANGED <<serving, held, blocks, field, rows, answer, ioErrors, runs, stamps, revoked,
                   before, doubled>>

StoreInEventLog(c) ==
    /\ c \in Storer /\ step[c] = "add"
    /\ Written("audit", [id |-> IdOf(c), by |-> c])
    /\ Goes(c, "insert")
    /\ UNCHANGED <<serving, held, blocks, field, rows, answer, ioErrors, runs, stamps, revoked,
                   before, doubled>>

Row(c) == [by |-> c, status |-> "active", storedAt |-> stamps[c]]

\* Mutant: INSERT OR REPLACE.
Replaced(c) == rows' = [rows EXCEPT ![IdOf(c)] = Row(c)] /\ Goes(c, "stored")

\* The id is the primary key: INSERT fails if there is a row.
Inserted(c) ==
    IF rows[IdOf(c)] = Unlisted
    THEN rows' = [rows EXCEPT ![IdOf(c)] = Row(c)] /\ Goes(c, "stored")
    ELSE UNCHANGED rows /\ Goes(c, "failed")

StoreInSQLite(c) ==
    /\ step[c] = "insert"
    /\ Inserted(c)
    /\ UNCHANGED <<serving, held, blocks, log, field, saved, answer, ioErrors, runs, stamps,
                   revoked, before, doubled>>

-----------------------------------------------------------------------------
(* Revoking.                                                               *)

RevokeCredential(c) ==
    LET i == IdOf(c)
    IN  /\ c \in Revoker /\ step[c] = "new" /\ serving
        /\ IF rows[i] = Unlisted
           THEN Goes(c, "failed") /\ UNCHANGED rows
           ELSE /\ rows' = [rows EXCEPT ![i].status = "revoked"]
                /\ Goes(c, "open audit")
        /\ UNCHANGED <<serving, held, blocks, log, field, saved, answer, ioErrors, runs, stamps,
                       revoked, before, doubled>>

\* A failing Add is logged and the call succeeds.
LogRevocation(c) ==
    /\ c \in Revoker /\ step[c] = "add"
    /\ \/ Written("audit", [id |-> IdOf(c), by |-> c]) /\ UNCHANGED ioErrors
       \/ ioErrors < MaxIOErrors /\ ioErrors' = ioErrors + 1 /\ UNCHANGED <<log, saved>>
    /\ revoked' = revoked \cup {IdOf(c)}
    /\ Goes(c, "revoked")
    /\ UNCHANGED <<serving, held, blocks, field, rows, answer, runs, stamps, before, doubled>>

-----------------------------------------------------------------------------
(* Reading.                                                                *)

\* No check has an error to report.
Verified(c, expired) ==
    /\ ValidateCredential(c)
    /\ Posted[c].proof = "complete"
    /\ rows[IdOf(c)].status = "active"
    /\ ~expired

VerifyCredential(c) ==
    /\ c \in Verifier /\ step[c] = "new" /\ serving
    /\ before' = [before EXCEPT ![c] = revoked]
    /\ \E expired \in MayBeExpired(c) :
         Goes(c, IF Verified(c, expired) THEN "verified" ELSE "rejected")
    /\ UNCHANGED <<serving, held, blocks, log, field, saved, rows, answer, ioErrors, runs,
                   stamps, revoked, doubled>>

Listed == {i \in CredID : rows[i] # Unlisted}

\* By issuer or by subject, all of them.
OfParty(w) == {i \in Listed : Posted[rows[i].by].party = w.party}

\* By any columns.
Matching(w) ==
    {i \in Listed : /\ w.party = "any" \/ i \in OfParty(w)
                    /\ w.status \in {"any", rows[i].status}}

\* The ids of S on the page that w asks for, those stored last first.
OnPage(S, w) ==
    {i \in S : Cardinality({j \in S : rows[j].storedAt > rows[i].storedAt})
                  \in w.offset .. w.offset + w.limit - 1}

Shows(c, S) ==
    /\ step[c] = "new" /\ serving
    /\ before' = [before EXCEPT ![c] = revoked]
    /\ answer' = [answer EXCEPT ![c] = S]
    /\ Goes(c, "listed")
    /\ UNCHANGED <<serving, held, blocks, log, field, saved, rows, ioErrors, runs, stamps, revoked,
                   doubled>>

ListCredentials(c) == Wanted[c].kind = "page" /\ Shows(c, OnPage(Listed, Wanted[c]))

QueryCredentials(c) == Wanted[c].kind = "query" /\ Shows(c, OnPage(Matching(Wanted[c]), Wanted[c]))

GetCredentialsByIssuer(c) == Wanted[c].kind = "party" /\ Shows(c, OfParty(Wanted[c]))

\* The row comes first: without one the store is not asked.
FirstStep(i) == IF i \in Listed THEN "open documents" ELSE "failed"

GetCredential(c) ==
    /\ c \in Getter /\ step[c] = "new" /\ serving
    /\ Goes(c, FirstStep(IdOf(c)))
    /\ UNCHANGED <<serving, held, blocks, log, field, saved, rows, answer, ioErrors, runs,
                   stamps, revoked, before, doubled>>

\* Who wrote the document of i in the given entries, if it has one.
DocumentOf(i, entries) ==
    {entries[k].by : k \in {k \in DOMAIN entries :
        /\ entries[k].id = i
        /\ \A l \in DOMAIN entries : l > k => entries[l].id # i}}

RetrieveFromStorage(c) ==
    /\ step[c] = "fetch"
    /\ answer' = [answer EXCEPT
                    ![c] = DocumentOf(IdOf(c), log["documents"][field["documents"]])]
    /\ Goes(c, "fetched")
    /\ UNCHANGED <<serving, held, blocks, log, field, saved, rows, ioErrors, runs, stamps,
                   revoked, before, doubled>>

-----------------------------------------------------------------------------
(* Failures and restarts.                                                  *)

\* An operation fails, and the call returns its error.
IOError(c) ==
    /\ step[c] \in {"block", "open documents", "put", "open audit", "insert", "fetch"}
       \/ (step[c] = "add" /\ c \in Storer)
    /\ ioErrors < MaxIOErrors /\ ioErrors' = ioErrors + 1
    /\ Goes(c, "failed")
    /\ UNCHANGED <<serving, held, blocks, log, field, saved, rows, answer, runs, stamps,
                   revoked, before, doubled>>

Finished == {"stored", "revoked", "verified", "rejected", "listed", "fetched", "failed"}

\* The calls under way are gone.  What is served depends on NewService.
CredRestart ==
    /\ runs < MaxRuns /\ runs' = runs + 1
    /\ \/ serving' = TRUE /\ UNCHANGED ioErrors
       \/ ioErrors < MaxIOErrors /\ ioErrors' = ioErrors + 1 /\ serving' = FALSE
    /\ step' = [c \in CredCall |-> IF step[c] \in Finished \cup {"new"} THEN step[c] ELSE "failed"]
    /\ held' = [c \in CredCall |-> 0]
    /\ log' = [s \in CredStore |-> <<>>]
    /\ field' = [s \in CredStore |-> 0]
    /\ UNCHANGED <<blocks, saved, rows, answer, stamps, revoked, before, doubled>>

CredNext ==
    \/ \E c \in Storer : \/ StoreCredential(c) \/ StoreInIPFS(c) \/ StoreInDocumentStore(c)
                         \/ StoreInEventLog(c) \/ StoreInSQLite(c)
    \/ \E c \in Revoker : RevokeCredential(c) \/ LogRevocation(c)
    \/ \E c \in Verifier : VerifyCredential(c)
    \/ \E c \in Lister : ListCredentials(c) \/ QueryCredentials(c) \/ GetCredentialsByIssuer(c)
    \/ \E c \in Getter : GetCredential(c) \/ RetrieveFromStorage(c)
    \/ \E c \in CredCall : \/ IOError(c)
                           \/ \E s \in CredStore : GetOrCreate(c, s) \/ Assign(c, s)
    \/ CredRestart

CredSpec == CredInit /\ [][CredNext]_credVars

-----------------------------------------------------------------------------
(* Properties.                                                             *)

(***************************************************************************)
(* Once a revocation is answered the credential never verifies again, and  *)
(* no listing of the active ones has it: whatever is stored under its id   *)
(* then, and across restarts.                                              *)
(***************************************************************************)
RevocationLasts ==
    /\ \A c \in Verifier : step[c] = "verified" => IdOf(c) \notin before[c]
    /\ \A c \in Lister : Wanted[c].kind = "query" /\ Wanted[c].status = "active" =>
         answer[c] \cap before[c] = {}

Current(s) == IF field[s] = 0 THEN saved[s] ELSE log[s][field[s]]

Rivals(i) == {c \in Storer : stamps[c] # 0 /\ IdOf(c) = i}

(***************************************************************************)
(* A credential that can be listed has its block, its document and its     *)
(* entry in the audit log, now and after a restart; the document is its    *)
(* own unless another call stored under the id.  Left out are stores of    *)
(* which two first calls have opened two instances: what one has is not    *)
(* in the other, and the next write leaves only one below the heads.       *)
(***************************************************************************)
ListedAreComplete ==
    \A i \in Listed :
        LET c == rows[i].by
        IN  /\ c \in blocks
            /\ "documents" \notin doubled =>
                 /\ DocumentOf(i, Current("documents")) # {}
                 /\ Cardinality(Rivals(i)) = 1 => DocumentOf(i, Current("documents")) = {c}
            /\ "audit" \notin doubled =>
                 \E k \in DOMAIN Current("audit") : Current("audit")[k] = [id |-> i, by |-> c]

\* What is answered about a credential stays true.
CredentialsKept == RevocationLasts /\ ListedAreComplete

=============================================================================
