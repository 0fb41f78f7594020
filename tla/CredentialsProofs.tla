------------------------- MODULE CredentialsProofs -------------------------
(***************************************************************************)
(* Theorems about the verifiable credentials, for any calls, credentials,  *)
(* failures and restarts; and about the failure detector, for any periods  *)
(* and limits.                                                             *)
(***************************************************************************)
EXTENDS Credentials, FailureDetector, FiniteSetTheorems, TLAPS

(***************************************************************************)
(* The shape of the state.  A row is of a call that stores, and there is   *)
(* an instance of a store wherever a call is about to use one.             *)
(***************************************************************************)
CredEntry == [id : CredID, by : CredCall]
CredRow   == [by : Storer, status : {"active", "revoked"}, storedAt : Nat]
Stamped   == {c \in CredCall : stamps[c] # 0}

CredTypes ==
    /\ step = [c \in CredCall |-> step[c]]
    /\ held \in [CredCall -> Nat]
    /\ log \in [CredStore -> Seq(Seq(CredEntry))]
    /\ field \in [CredStore -> Nat]
    /\ saved \in [CredStore -> Seq(CredEntry)]
    /\ rows \in [CredID -> CredRow \cup {Unlisted}]
    /\ answer = [c \in CredCall |-> answer[c]]
    /\ before = [c \in CredCall |-> before[c]]
    /\ stamps \in [CredCall -> Nat]
    /\ IsFiniteSet(Stamped)

(***************************************************************************)
(* What a store shows is what is below its saved heads, until two calls    *)
(* assign its field: before the first assignment nothing is written.       *)
(***************************************************************************)
InstancesLoaded ==
    \A s \in CredStore :
        /\ field[s] \in 0 .. Len(log[s])
        /\ field[s] = 0 => \A k \in 1 .. Len(log[s]) : log[s][k] = saved[s]
        /\ field[s] # 0 /\ s \notin doubled => log[s][field[s]] = saved[s]

(***************************************************************************)
(* What a call relies on at its step: what it has stored before, the       *)
(* instance it has opened or finds in the field, the row it has revoked.   *)
(***************************************************************************)
AfterAdd   == {"insert", "stored"}
AfterPut   == {"open audit", "assign audit", "add"} \cup AfterAdd
AfterBlock == {"open documents", "assign documents", "put"} \cup AfterPut

HasStored(c) ==
    /\ step[c] \notin {"new", "failed"} => stamps[c] # 0
    /\ step[c] \in AfterBlock => c \in blocks
    /\ step[c] \in AfterPut /\ "documents" \notin doubled =>
         DocumentOf(IdOf(c), saved["documents"]) # {}
    /\ step[c] \in AfterAdd /\ "audit" \notin doubled =>
         \E k \in DOMAIN saved["audit"] : saved["audit"][k] = [id |-> IdOf(c), by |-> c]

HasOpened(c) ==
    /\ \A s \in CredStore : step[c] = Assigning(s) => held[c] \in 1 .. Len(log[s])
    /\ step[c] \in {"put", "fetch"} => field["documents"] # 0
    /\ step[c] = "add" => field["audit"] # 0

HasRevoked(c) ==
    step[c] \in {"open audit", "assign audit", "add"} => rows[IdOf(c)].status = "revoked"

CallsStand ==
    /\ \A c \in Storer : HasStored(c)
    /\ \A c \in CredCall : HasOpened(c)
    /\ \A c \in Revoker : HasRevoked(c)

(***************************************************************************)
(* Whose documents and rows there are, and which are revoked for good.     *)
(***************************************************************************)
DocumentsOwned ==
    "documents" \notin doubled =>
        \A i \in CredID : DocumentOf(i, saved["documents"]) \subseteq Rivals(i)

RowsOwned ==
    \A i \in Listed :
        /\ rows[i].by \in Storer
        /\ IdOf(rows[i].by) = i
        /\ step[rows[i].by] = "stored"

RowsRevoked == \A i \in revoked : i \in CredID /\ rows[i].status = "revoked"

CredIInv ==
    /\ CredTypes
    /\ InstancesLoaded
    /\ CallsStand
    /\ DocumentsOwned
    /\ RowsOwned
    /\ RowsRevoked
    /\ RevocationLasts

-----------------------------------------------------------------------------
(* Entries, instances and documents.                                       *)

LEMMA EntriesAppended ==
    ASSUME NEW S, NEW E \in Seq(S), NEW e \in S
    PROVE  /\ Append(E, e) \in Seq(S) /\ Len(E) \in Nat
           /\ Len(Append(E, e)) = Len(E) + 1
           /\ DOMAIN E = 1 .. Len(E) /\ DOMAIN Append(E, e) = 1 .. Len(E) + 1
           /\ Append(E, e)[Len(E) + 1] = e
           /\ \A k \in 1 .. Len(E) : Append(E, e)[k] = E[k]
  OBVIOUS

LEMMA EntriesStay ==
    ASSUME NEW E \in Seq(CredEntry), NEW e \in CredEntry, NEW k \in DOMAIN E
    PROVE  k \in DOMAIN Append(E, e) /\ Append(E, e)[k] = E[k]
  OBVIOUS

LEMMA EntryIsThere ==
    ASSUME NEW E \in Seq(CredEntry), NEW e \in CredEntry
    PROVE  \E k \in DOMAIN Append(E, e) : Append(E, e)[k] = e
<1>1. Len(E) + 1 \in DOMAIN Append(E, e) /\ Append(E, e)[Len(E) + 1] = e
  OBVIOUS
<1> QED
  BY <1>1

LEMMA InstancesTyped ==
    ASSUME CredTypes, NEW s \in CredStore
    PROVE  /\ log[s] \in Seq(Seq(CredEntry)) /\ saved[s] \in Seq(CredEntry)
           /\ Len(log[s]) \in Nat /\ DOMAIN log[s] = 1 .. Len(log[s])
           /\ \A k \in 1 .. Len(log[s]) : log[s][k] \in Seq(CredEntry)
<1>1. log[s] \in Seq(Seq(CredEntry)) /\ saved[s] \in Seq(CredEntry)
  BY DEF CredTypes
<1> QED
  BY <1>1

(***************************************************************************)
(* Put replaces the document of its id and no other.                       *)
(***************************************************************************)
LEMMA DocumentReplaced ==
    ASSUME NEW E \in Seq(CredEntry), NEW e \in CredEntry, NEW i
    PROVE  DocumentOf(i, Append(E, e)) = IF e.id = i THEN {e.by} ELSE DocumentOf(i, E)
<1> DEFINE F == Append(E, e)
           n == Len(E)
<1>1. /\ n \in Nat /\ DOMAIN E = 1 .. n /\ DOMAIN F = 1 .. n + 1
      /\ F[n + 1] = e /\ \A k \in 1 .. n : F[k] = E[k]
  BY EntriesAppended
<1> HIDE DEF F, n
<1>2. CASE e.id = i
  <2>1. {k \in DOMAIN F : F[k].id = i /\ \A l \in DOMAIN F : l > k => F[l].id # i} = {n + 1}
    BY <1>1, <1>2
  <2>2. DocumentOf(i, F) = {F[k].by : k \in {n + 1}}
    BY <2>1 DEF DocumentOf
  <2> QED
    BY <1>1, <1>2, <2>2 DEF F
<1>3. CASE e.id # i
  <2>1. {k \in DOMAIN F : F[k].id = i /\ \A l \in DOMAIN F : l > k => F[l].id # i}
          = {k \in DOMAIN E : E[k].id = i /\ \A l \in DOMAIN E : l > k => E[l].id # i}
    BY <1>1, <1>3
  <2>2. DocumentOf(i, F) = DocumentOf(i, E)
    BY <1>1, <2>1 DEF DocumentOf
  <2> QED
    BY <1>3, <2>2 DEF F
<1> QED
  BY <1>2, <1>3

(***************************************************************************)
(* What the other calls rely on stays.                                     *)
(***************************************************************************)
LEMMA OthersStand ==
    ASSUME CredTypes, CallsStand, NEW c \in CredCall, step'[c] = step[c],
           stamps[c] # 0 => stamps'[c] # 0, blocks \subseteq blocks',
           doubled \subseteq doubled',
           "documents" \notin doubled' =>
               (DocumentOf(IdOf(c), saved["documents"]) # {} =>
                DocumentOf(IdOf(c), saved'["documents"]) # {}),
           "audit" \notin doubled' =>
               \A k \in DOMAIN saved["audit"] :
                   k \in DOMAIN saved'["audit"] /\ saved'["audit"][k] = saved["audit"][k],
           held'[c] = held[c],
           \A s \in CredStore : Len(log[s]) <= Len(log'[s]) /\ Len(log'[s]) \in Nat
                                 /\ Len(log[s]) \in Nat
                                 /\ (field[s] # 0 => field'[s] # 0),
           c \in Revoker => (rows[IdOf(c)].status = "revoked" => rows'[IdOf(c)].status = "revoked")
    PROVE  /\ c \in Storer => HasStored(c)'
           /\ HasOpened(c)'
           /\ c \in Revoker => HasRevoked(c)'
<1>1. ASSUME c \in Storer PROVE HasStored(c)'
  BY <1>1 DEF CallsStand, HasStored, IdOf
<1>2. HasOpened(c)'
  BY DEF CallsStand, HasOpened, CredTypes, CredStore
<1>3. ASSUME c \in Revoker PROVE HasRevoked(c)'
  BY <1>3 DEF CallsStand, HasRevoked, IdOf
<1> QED
  BY <1>1, <1>2, <1>3

LEMMA ReadsLast ==
    ASSUME CredTypes, RevocationLasts, NEW c \in CredCall, NEW to, Goes(c, to),
           to # "verified", UNCHANGED <<answer, before>>
    PROVE  RevocationLasts'
  BY DEF RevocationLasts, Goes, CredTypes, CredCall, IdOf

(***************************************************************************)
(* A call c goes on, and neither a store nor a row changes.                *)
(***************************************************************************)
LEMMA QuietStep ==
    ASSUME CredIInv, NEW c \in CredCall, NEW to, Goes(c, to),
           UNCHANGED <<held, log, field, saved, rows, revoked, doubled>>,
           blocks \subseteq blocks',
           stamps' \in [CredCall -> Nat], IsFiniteSet(Stamped'),
           \A d \in CredCall : stamps[d] # 0 => stamps'[d] # 0,
           answer' = [d \in CredCall |-> answer'[d]],
           before' = [d \in CredCall |-> before'[d]],
           RevocationLasts',
           step[c] # "stored",
           to \in {"block", "open documents", "failed", "verified", "rejected",
                   "listed", "fetched"},
           c \in Storer => \/ to = "failed"
                           \/ to = "block" /\ stamps'[c] # 0
                           \/ to = "open documents" /\ stamps'[c] # 0 /\ c \in blocks'
    PROVE  CredIInv'
<1>1. CredTypes'
  BY DEF CredIInv, CredTypes, Goes
<1>2. InstancesLoaded'
  BY DEF CredIInv, InstancesLoaded
<1>3. /\ step'[c] = to
      /\ \A d \in CredCall : d # c => step'[d] = step[d]
  BY DEF CredIInv, CredTypes, Goes
<1>4. CallsStand'
  <2>1. ASSUME NEW d \in CredCall, d # c
        PROVE  /\ d \in Storer => HasStored(d)'
               /\ HasOpened(d)'
               /\ d \in Revoker => HasRevoked(d)'
    <3>1. /\ CallsStand /\ step'[d] = step[d] /\ d \in CredCall
          /\ stamps[d] # 0 => stamps'[d] # 0
      BY <1>3, <2>1 DEF CredIInv
    <3>2. d \in Storer => HasStored(d)'
      BY <3>1 DEF CallsStand, HasStored, IdOf
    <3>3. HasOpened(d)'
      BY <3>1 DEF CallsStand, HasOpened
    <3>4. d \in Revoker => HasRevoked(d)'
      BY <3>1 DEF CallsStand, HasRevoked, IdOf
    <3> QED
      BY <3>2, <3>3, <3>4
  <2>2. c \in Storer => HasStored(c)'
    BY <1>3 DEF HasStored, AfterBlock, AfterPut, AfterAdd
  <2>3. HasOpened(c)'
    BY <1>3 DEF HasOpened, Assigning
  <2>4. c \in Revoker => HasRevoked(c)'
    BY <1>3 DEF HasRevoked
  <2> QED
    BY <2>1, <2>2, <2>3, <2>4 DEF CallsStand, CredCall
<1>5. DocumentsOwned'
  BY DEF CredIInv, DocumentsOwned, Rivals, CredCall, IdOf
<1>6. RowsOwned'
  BY <1>3 DEF CredIInv, RowsOwned, Listed, IdOf, CredCall
<1>7. RowsRevoked'
  BY DEF CredIInv, RowsRevoked
<1> QED
  BY <1>1, <1>2, <1>4, <1>5, <1>6, <1>7 DEF CredIInv

-----------------------------------------------------------------------------
(* The steps, one by one.                                                  *)

LEMMA StoreCredentialKeeps ==
    ASSUME CredIInv, NEW c \in Storer, StoreCredential(c)
    PROVE  CredIInv'
<1>1. PICK to \in {"block", "failed"} :
        /\ Goes(c, to)
        /\ to = "block" => stamps' = [stamps EXCEPT ![c] = Now]
        /\ to = "failed" => stamps' = stamps
  BY DEF StoreCredential
<1>2. c \in CredCall /\ step[c] = "new"
  BY DEF CredCall, StoreCredential
<1>3. Now \in Nat \ {0}
  <2>1. {d \in Storer : stamps[d] # 0} \in SUBSET Stamped /\ IsFiniteSet(Stamped)
    BY DEF CredIInv, CredTypes, Stamped, CredCall
  <2>2. IsFiniteSet({d \in Storer : stamps[d] # 0})
    BY <2>1, FS_Subset
  <2>3. Cardinality({d \in Storer : stamps[d] # 0}) \in Nat
    BY <2>2, FS_CardinalityType
  <2> QED
    BY <2>3 DEF Now
<1>4. /\ stamps' \in [CredCall -> Nat]
      /\ \A d \in CredCall : stamps[d] # 0 => stamps'[d] # 0
      /\ to = "block" => stamps'[c] # 0
  BY <1>1, <1>2, <1>3 DEF CredIInv, CredTypes
<1>5. IsFiniteSet(Stamped')
  <2>1. Stamped' \in SUBSET (Stamped \cup {c})
    BY <1>1, <1>2 DEF Stamped, CredIInv, CredTypes
  <2>2. IsFiniteSet(Stamped \cup {c})
    BY FS_AddElement DEF CredIInv, CredTypes
  <2> QED
    BY <2>1, <2>2, FS_Subset
<1>6. RevocationLasts'
  BY <1>1, <1>2, ReadsLast DEF CredIInv, StoreCredential
<1>7. /\ UNCHANGED <<held, log, field, saved, rows, revoked, doubled>>
      /\ blocks \subseteq blocks'
      /\ answer' = [d \in CredCall |-> answer'[d]]
      /\ before' = [d \in CredCall |-> before'[d]]
  BY DEF StoreCredential, CredIInv, CredTypes
<1> QED
  BY <1>1, <1>2, <1>4, <1>5, <1>6, <1>7, QuietStep

LEMMA StoreInIPFSKeeps ==
    ASSUME CredIInv, NEW c \in Storer, StoreInIPFS(c)
    PROVE  CredIInv'
<1>1. /\ c \in CredCall /\ Goes(c, "open documents") /\ step[c] = "block"
      /\ UNCHANGED <<held, log, field, saved, rows, revoked, doubled, stamps, answer, before>>
      /\ blocks \subseteq blocks' /\ c \in blocks'
  BY DEF CredCall, StoreInIPFS
<1>2. RevocationLasts'
  BY <1>1, ReadsLast DEF CredIInv
<1>3. /\ stamps' \in [CredCall -> Nat] /\ IsFiniteSet(Stamped')
      /\ \A d \in CredCall : stamps[d] # 0 => stamps'[d] # 0
      /\ answer' = [d \in CredCall |-> answer'[d]]
      /\ before' = [d \in CredCall |-> before'[d]]
  BY <1>1 DEF CredIInv, CredTypes, Stamped
<1>4. stamps'[c] # 0
  BY <1>1 DEF CredIInv, CallsStand, HasStored
<1>5. /\ UNCHANGED <<held, log, field, saved, rows, revoked, doubled>>
      /\ blocks \subseteq blocks'
  BY <1>1
<1> QED
  BY <1>1, <1>2, <1>3, <1>4, <1>5, QuietStep

LEMMA IOErrorKeeps ==
    ASSUME CredIInv, NEW c \in CredCall, IOError(c)
    PROVE  CredIInv'
<1>1. /\ Goes(c, "failed") /\ step[c] # "stored"
      /\ UNCHANGED <<blocks, held, log, field, saved, rows, revoked, doubled, stamps,
                     answer, before>>
  BY DEF IOError
<1>2. RevocationLasts'
  BY <1>1, ReadsLast DEF CredIInv
<1>3. /\ stamps' \in [CredCall -> Nat] /\ IsFiniteSet(Stamped')
      /\ \A d \in CredCall : stamps[d] # 0 => stamps'[d] # 0
      /\ answer' = [d \in CredCall |-> answer'[d]]
      /\ before' = [d \in CredCall |-> before'[d]]
  BY <1>1 DEF CredIInv, CredTypes, Stamped
<1>4. /\ UNCHANGED <<held, log, field, saved, rows, revoked, doubled>>
      /\ blocks \subseteq blocks'
  BY <1>1
<1> QED
  BY <1>1, <1>2, <1>3, <1>4, QuietStep

LEMMA GetCredentialKeeps ==
    ASSUME CredIInv, NEW c \in Getter, GetCredential(c)
    PROVE  CredIInv'
<1>1. PICK to \in {"open documents", "failed"} :
        /\ Goes(c, to) /\ step[c] = "new" /\ c \in CredCall /\ c \notin Storer
        /\ UNCHANGED <<blocks, held, log, field, saved, rows, revoked, doubled, stamps,
                       answer, before>>
  BY CredentialsAssumption DEF GetCredential, FirstStep, CredCall
<1>2. RevocationLasts'
  BY <1>1, ReadsLast DEF CredIInv
<1>3. /\ stamps' \in [CredCall -> Nat] /\ IsFiniteSet(Stamped')
      /\ \A d \in CredCall : stamps[d] # 0 => stamps'[d] # 0
      /\ answer' = [d \in CredCall |-> answer'[d]]
      /\ before' = [d \in CredCall |-> before'[d]]
  BY <1>1 DEF CredIInv, CredTypes, Stamped
<1>4. /\ UNCHANGED <<held, log, field, saved, rows, revoked, doubled>>
      /\ blocks \subseteq blocks'
  BY <1>1
<1> QED
  BY <1>1, <1>2, <1>3, <1>4, QuietStep

(***************************************************************************)
(* A credential verifies, or is listed as active, while its row says so,   *)
(* and the row of a revoked one says otherwise.                            *)
(***************************************************************************)
LEMMA VerifyCredentialKeeps ==
    ASSUME CredIInv, NEW c \in Verifier, VerifyCredential(c)
    PROVE  CredIInv'
<1>1. PICK to \in {"verified", "rejected"} :
        /\ Goes(c, to) /\ step[c] = "new" /\ c \in CredCall /\ c \notin Storer
        /\ to = "verified" => rows[IdOf(c)].status = "active"
        /\ before' = [before EXCEPT ![c] = revoked]
        /\ UNCHANGED <<blocks, held, log, field, saved, rows, revoked, doubled, stamps,
                       answer>>
  BY CredentialsAssumption DEF VerifyCredential, Verified, CredCall
<1>2. RevocationLasts'
  <2>1. ASSUME NEW d \in Verifier, step'[d] = "verified" PROVE IdOf(d) \notin before'[d]
    <3>1. CASE d = c
      <4>1. to = "verified" /\ before'[c] = revoked
        BY <1>1, <2>1, <3>1 DEF Goes, CredIInv, CredTypes
      <4>2. IdOf(c) \notin revoked
        BY <1>1, <4>1 DEF CredIInv, RowsRevoked
      <4> QED
        BY <3>1, <4>1, <4>2
    <3>2. CASE d # c
      <4>1. step[d] = "verified" /\ before'[d] = before[d]
        BY <1>1, <2>1, <3>2 DEF Goes, CredIInv, CredTypes, CredCall
      <4> QED
        BY <4>1 DEF CredIInv, RevocationLasts
    <3> QED
      BY <3>1, <3>2
  <2>2. \A d \in Lister : before'[d] = before[d] /\ answer'[d] = answer[d]
    BY <1>1, CredentialsAssumption DEF CredIInv, CredTypes, CredCall
  <2> QED
    BY <2>1, <2>2 DEF CredIInv, RevocationLasts, IdOf
<1>3. /\ stamps' \in [CredCall -> Nat] /\ IsFiniteSet(Stamped')
      /\ \A d \in CredCall : stamps[d] # 0 => stamps'[d] # 0
      /\ answer' = [d \in CredCall |-> answer'[d]]
      /\ before' = [d \in CredCall |-> before'[d]]
  BY <1>1 DEF CredIInv, CredTypes, Stamped
<1>4. /\ UNCHANGED <<held, log, field, saved, rows, revoked, doubled>>
      /\ blocks \subseteq blocks'
  BY <1>1
<1> QED
  BY <1>1, <1>2, <1>3, <1>4, QuietStep

LEMMA ShowsKeeps ==
    ASSUME CredIInv, NEW c \in Lister, NEW S, Shows(c, S),
           Wanted[c].kind = "query" /\ Wanted[c].status = "active" =>
               \A i \in S : i \in CredID /\ rows[i].status = "active"
    PROVE  CredIInv'
<1>1. /\ Goes(c, "listed") /\ step[c] = "new" /\ c \in CredCall
      /\ c \notin Storer /\ c \notin Verifier
      /\ before' = [before EXCEPT ![c] = revoked]
      /\ answer' = [answer EXCEPT ![c] = S]
      /\ UNCHANGED <<blocks, held, log, field, saved, rows, revoked, doubled, stamps>>
  BY CredentialsAssumption DEF Shows, CredCall
<1>2. RevocationLasts'
  <2>1. ASSUME NEW d \in Verifier, step'[d] = "verified" PROVE IdOf(d) \notin before'[d]
    <3>1. step[d] = "verified" /\ before'[d] = before[d]
      BY <1>1, <2>1 DEF Goes, CredIInv, CredTypes, CredCall
    <3> QED
      BY <3>1 DEF CredIInv, RevocationLasts
  <2>2. ASSUME NEW d \in Lister, Wanted[d].kind = "query", Wanted[d].status = "active"
        PROVE  answer'[d] \cap before'[d] = {}
    <3>1. CASE d = c
      <4>1. answer'[d] = S /\ before'[d] = revoked
        BY <1>1, <3>1 DEF CredIInv, CredTypes
      <4>2. \A i \in S : i \notin revoked
        BY <2>2, <3>1 DEF CredIInv, RowsRevoked
      <4> QED
        BY <4>1, <4>2
    <3>2. CASE d # c
      <4>1. answer'[d] = answer[d] /\ before'[d] = before[d]
        BY <1>1, <3>2 DEF CredIInv, CredTypes, CredCall
      <4> QED
        BY <2>2, <4>1 DEF CredIInv, RevocationLasts
    <3> QED
      BY <3>1, <3>2
  <2> QED
    BY <2>1, <2>2 DEF RevocationLasts, IdOf
<1>3. /\ stamps' \in [CredCall -> Nat] /\ IsFiniteSet(Stamped')
      /\ \A d \in CredCall : stamps[d] # 0 => stamps'[d] # 0
      /\ answer' = [d \in CredCall |-> answer'[d]]
      /\ before' = [d \in CredCall |-> before'[d]]
  BY <1>1 DEF CredIInv, CredTypes, Stamped
<1>4. /\ UNCHANGED <<held, log, field, saved, rows, revoked, doubled>>
      /\ blocks \subseteq blocks'
  BY <1>1
<1> QED
  BY <1>1, <1>2, <1>3, <1>4, QuietStep

LEMMA ListingKeeps ==
    ASSUME CredIInv, NEW c \in Lister,
           ListCredentials(c) \/ QueryCredentials(c) \/ GetCredentialsByIssuer(c)
    PROVE  CredIInv'
<1>1. CASE ListCredentials(c)
  BY <1>1, ShowsKeeps DEF ListCredentials
<1>2. CASE GetCredentialsByIssuer(c)
  BY <1>2, ShowsKeeps DEF GetCredentialsByIssuer
<1>3. CASE QueryCredentials(c)
  <2>1. ASSUME Wanted[c].status = "active", NEW i \in OnPage(Matching(Wanted[c]), Wanted[c])
        PROVE  i \in CredID /\ rows[i].status = "active"
    BY <2>1 DEF OnPage, Matching, Listed
  <2> QED
    BY <1>3, <2>1, ShowsKeeps DEF QueryCredentials
<1> QED
  BY <1>1, <1>2, <1>3

LEMMA RetrieveKeeps ==
    ASSUME CredIInv, NEW c \in Getter, RetrieveFromStorage(c)
    PROVE  CredIInv'
<1>1. /\ Goes(c, "fetched") /\ step[c] = "fetch" /\ c \in CredCall
      /\ c \notin Storer /\ c \notin Verifier /\ c \notin Lister
      /\ \E a : answer' = [answer EXCEPT ![c] = a]
      /\ UNCHANGED <<before, blocks, held, log, field, saved, rows, revoked, doubled, stamps>>
  BY CredentialsAssumption DEF RetrieveFromStorage, CredCall
<1>2. \A d \in CredCall : d # c => step'[d] = step[d] /\ answer'[d] = answer[d]
  BY <1>1 DEF Goes, CredIInv, CredTypes
<1>3. RevocationLasts'
  BY <1>1, <1>2 DEF CredIInv, RevocationLasts, IdOf, CredCall
<1>4. /\ stamps' \in [CredCall -> Nat] /\ IsFiniteSet(Stamped')
      /\ \A d \in CredCall : stamps[d] # 0 => stamps'[d] # 0
      /\ answer' = [d \in CredCall |-> answer'[d]]
      /\ before' = [d \in CredCall |-> before'[d]]
  BY <1>1 DEF CredIInv, CredTypes, Stamped
<1>5. /\ UNCHANGED <<held, log, field, saved, rows, revoked, doubled>>
      /\ blocks \subseteq blocks'
  BY <1>1
<1> QED
  BY <1>1, <1>3, <1>4, <1>5, QuietStep

-----------------------------------------------------------------------------
(* Writing to a store.                                                     *)

LEMMA WrittenToInstance ==
    ASSUME CredTypes, InstancesLoaded, NEW s \in CredStore, field[s] # 0,
           NEW e \in CredEntry, Written(s, e)
    PROVE  /\ log' \in [CredStore -> Seq(Seq(CredEntry))]
           /\ saved' \in [CredStore -> Seq(CredEntry)]
           /\ \A t \in CredStore : Len(log'[t]) = Len(log[t])
           /\ \A t \in CredStore : t # s => log'[t] = log[t] /\ saved'[t] = saved[t]
           /\ log'[s][field[s]] = saved'[s]
           /\ s \notin doubled => saved'[s] = Append(saved[s], e)
<1> DEFINE L == log[s]
           n == field[s]
           E == Append(L[n], e)
<1>1. L \in Seq(Seq(CredEntry)) /\ n \in 1 .. Len(L) /\ Len(L) \in Nat
  BY InstancesTyped DEF InstancesLoaded, CredTypes
<1>2. E \in Seq(CredEntry)
  BY <1>1
<1>3. log' = [log EXCEPT ![s] = [L EXCEPT ![n] = E]] /\ saved' = [saved EXCEPT ![s] = E]
  BY DEF Written
<1>4. s \notin doubled => E = Append(saved[s], e)
  BY DEF InstancesLoaded
<1> HIDE DEF E
<1>5. [L EXCEPT ![n] = E] \in Seq(Seq(CredEntry)) /\ Len([L EXCEPT ![n] = E]) = Len(L)
      /\ [L EXCEPT ![n] = E][n] = E
  BY <1>1, <1>2
<1> DEFINE M == [L EXCEPT ![n] = E]
<1> HIDE DEF M, n, L
<1>6. log' = [log EXCEPT ![s] = M] /\ M \in Seq(Seq(CredEntry)) /\ Len(M) = Len(log[s]) /\ M[n] = E
  BY <1>3, <1>5 DEF M, L
<1>7. log'[s] = M /\ saved'[s] = E
      /\ \A t \in CredStore : t # s => log'[t] = log[t] /\ saved'[t] = saved[t]
  BY <1>3, <1>6 DEF CredTypes
<1>8. log' \in [CredStore -> Seq(Seq(CredEntry))] /\ saved' \in [CredStore -> Seq(CredEntry)]
  BY <1>2, <1>3, <1>6 DEF CredTypes
<1>9. log'[s][field[s]] = saved'[s]
  BY <1>6, <1>7 DEF n
<1>10. \A t \in CredStore : Len(log'[t]) = Len(log[t])
  BY <1>6, <1>7
<1> QED
  BY <1>4, <1>7, <1>8, <1>9, <1>10

(***************************************************************************)
(* Entries only come after those there are, until a store is doubled.      *)
(***************************************************************************)
LEMMA WriteKeepsOthers ==
    ASSUME CredIInv, NEW c \in CredCall, NEW s \in CredStore, field[s] # 0,
           NEW e \in CredEntry, Written(s, e), NEW to, Goes(c, to),
           UNCHANGED <<held, field, blocks, rows, stamps, doubled, answer, before>>,
           to \in {"open audit", "insert", "revoked"}, step[c] # "stored"
    PROVE  /\ CredTypes' /\ InstancesLoaded' /\ RowsOwned' /\ RevocationLasts'
           /\ \A d \in CredCall : HasOpened(d)'
           /\ \A d \in Storer : d # c => HasStored(d)'
           /\ \A d \in Revoker : d # c => HasRevoked(d)'
<1>1. /\ CredTypes /\ InstancesLoaded /\ CallsStand /\ RowsOwned /\ RevocationLasts
      /\ step'[c] = to /\ \A d \in CredCall : d # c => step'[d] = step[d]
  BY DEF CredIInv, CredTypes, Goes
<1>2. /\ log' \in [CredStore -> Seq(Seq(CredEntry))]
      /\ saved' \in [CredStore -> Seq(CredEntry)]
      /\ \A t \in CredStore : Len(log'[t]) = Len(log[t])
      /\ \A t \in CredStore : t # s => log'[t] = log[t] /\ saved'[t] = saved[t]
      /\ log'[s][field[s]] = saved'[s]
      /\ s \notin doubled => saved'[s] = Append(saved[s], e)
  BY <1>1, WrittenToInstance
<1>3. CredTypes'
  BY <1>1, <1>2 DEF CredTypes, Goes, Stamped
<1>4. InstancesLoaded'
  BY <1>1, <1>2 DEF InstancesLoaded
<1>5. RowsOwned'
  BY <1>1 DEF RowsOwned, Listed, IdOf, CredCall
<1>6. RevocationLasts'
  BY <1>1, ReadsLast
<1>7. ASSUME NEW d \in CredCall PROVE HasOpened(d)'
  <2>1. CASE d = c
    BY <1>1, <2>1 DEF HasOpened, Assigning
  <2>2. CASE d # c
    BY <1>1, <1>2, <2>2 DEF HasOpened, CallsStand
  <2> QED
    BY <2>1, <2>2
<1>8. ASSUME NEW d \in Storer, d # c PROVE HasStored(d)'
  <2>1. d \in CredCall /\ step'[d] = step[d] /\ HasStored(d)
    BY <1>1, <1>8 DEF CallsStand, CredCall
  <2>2. "documents" \notin doubled /\ DocumentOf(IdOf(d), saved["documents"]) # {} =>
          DocumentOf(IdOf(d), saved'["documents"]) # {}
    <3>1. CASE s = "documents"
      <4>1. /\ saved["documents"] \in Seq(CredEntry)
            /\ "documents" \notin doubled => saved'["documents"] = Append(saved["documents"], e)
        BY <1>1, <1>2, <3>1, InstancesTyped
      <4>2. DocumentOf(IdOf(d), Append(saved["documents"], e)) =
              IF e.id = IdOf(d) THEN {e.by} ELSE DocumentOf(IdOf(d), saved["documents"])
        BY <4>1, DocumentReplaced
      <4> QED
        BY <4>1, <4>2
    <3>2. CASE s # "documents"
      BY <1>2, <3>2 DEF CredStore
    <3> QED
      BY <3>1, <3>2
  <2>3. "audit" \notin doubled =>
          \A k \in DOMAIN saved["audit"] :
            k \in DOMAIN saved'["audit"] /\ saved'["audit"][k] = saved["audit"][k]
    <3>1. CASE s = "audit"
      <4>1. /\ saved["audit"] \in Seq(CredEntry)
            /\ "audit" \notin doubled => saved'["audit"] = Append(saved["audit"], e)
        BY <1>1, <1>2, <3>1, InstancesTyped
      <4> QED
        BY <4>1, EntriesStay
    <3>2. CASE s # "audit"
      BY <1>2, <3>2 DEF CredStore
    <3> QED
      BY <3>1, <3>2
  <2> QED
    BY <2>1, <2>2, <2>3 DEF HasStored, IdOf
<1>9. ASSUME NEW d \in Revoker, d # c PROVE HasRevoked(d)'
  BY <1>1, <1>9 DEF CallsStand, HasRevoked, CredCall, IdOf
<1> QED
  BY <1>3, <1>4, <1>5, <1>6, <1>7, <1>8, <1>9

LEMMA EntryTyped ==
    ASSUME NEW c \in Storer \cup Revoker
    PROVE  /\ c \in CredCall /\ IdOf(c) \in CredID
           /\ [id |-> IdOf(c), by |-> c] \in CredEntry
  BY CredentialsAssumption DEF CredCall, CredID, CredEntry

LEMMA StoreInDocumentStoreKeeps ==
    ASSUME CredIInv, NEW c \in Storer, StoreInDocumentStore(c)
    PROVE  CredIInv'
<1> DEFINE e == [id |-> IdOf(c), by |-> c]
<1>1. /\ step[c] = "put" /\ Goes(c, "open audit") /\ Written("documents", e)
      /\ UNCHANGED <<held, field, blocks, rows, stamps, doubled, answer, before>>
      /\ UNCHANGED revoked
  BY DEF StoreInDocumentStore
<1>2. c \in CredCall /\ c \notin Revoker /\ e \in CredEntry
      /\ e.id = IdOf(c) /\ e.by = c /\ "documents" \in CredStore
  BY EntryTyped, CredentialsAssumption DEF CredStore
<1> HIDE DEF e
<1>3. /\ CredTypes /\ InstancesLoaded /\ DocumentsOwned
      /\ field["documents"] # 0 /\ HasStored(c)
  BY <1>1, <1>2 DEF CredIInv, CallsStand, HasOpened
<1>4. /\ CredTypes' /\ InstancesLoaded' /\ RowsOwned' /\ RevocationLasts'
      /\ \A d \in CredCall : HasOpened(d)'
      /\ \A d \in Storer : d # c => HasStored(d)'
      /\ \A d \in Revoker : d # c => HasRevoked(d)'
  BY <1>1, <1>2, <1>3, WriteKeepsOthers
<1>5. "documents" \notin doubled =>
        saved["documents"] \in Seq(CredEntry) /\ saved'["documents"] = Append(saved["documents"], e)
  BY <1>1, <1>2, <1>3, WrittenToInstance, InstancesTyped
<1>6. ASSUME "documents" \notin doubled, NEW i
      PROVE  DocumentOf(i, saved'["documents"])
               = IF i = IdOf(c) THEN {c} ELSE DocumentOf(i, saved["documents"])
  <2>1. DocumentOf(i, Append(saved["documents"], e))
          = IF e.id = i THEN {e.by} ELSE DocumentOf(i, saved["documents"])
    BY <1>2, <1>5, <1>6, DocumentReplaced
  <2> QED
    BY <1>2, <1>5, <1>6, <2>1
<1>7. HasStored(c)'
  <2>1. step'[c] = "open audit" /\ stamps[c] # 0 /\ c \in blocks
    BY <1>1, <1>2, <1>3 DEF HasStored, AfterBlock, AfterPut, AfterAdd, Goes, CredTypes
  <2>2. "documents" \notin doubled => DocumentOf(IdOf(c), saved'["documents"]) # {}
    BY <1>6
  <2> QED
    BY <1>1, <2>1, <2>2 DEF HasStored, AfterAdd, IdOf
<1>8. DocumentsOwned'
  <2>1. \A i : Rivals(i)' = Rivals(i)
    BY <1>1 DEF Rivals, IdOf
  <2>2. stamps[c] # 0
    BY <1>1, <1>3 DEF HasStored
  <2>3. c \in Rivals(IdOf(c))
    BY <2>2 DEF Rivals
  <2>4. ASSUME "documents" \notin doubled, NEW i \in CredID
        PROVE  DocumentOf(i, saved'["documents"]) \subseteq Rivals(i)
    BY <1>3, <1>6, <2>3, <2>4 DEF DocumentsOwned
  <2> QED
    BY <1>1, <2>1, <2>4 DEF DocumentsOwned
<1>9. RowsRevoked'
  BY <1>1 DEF CredIInv, RowsRevoked
<1> QED
  BY <1>2, <1>4, <1>7, <1>8, <1>9 DEF CredIInv, CallsStand

LEMMA StoreInEventLogKeeps ==
    ASSUME CredIInv, NEW c \in Storer, StoreInEventLog(c)
    PROVE  CredIInv'
<1> DEFINE e == [id |-> IdOf(c), by |-> c]
<1>1. /\ step[c] = "add" /\ Goes(c, "insert") /\ Written("audit", e)
      /\ UNCHANGED <<held, field, blocks, rows, stamps, doubled, answer, before>>
      /\ UNCHANGED revoked
  BY DEF StoreInEventLog
<1>2. /\ c \in CredCall /\ c \notin Revoker /\ e \in CredEntry
      /\ "audit" \in CredStore /\ "documents" \in CredStore
  BY EntryTyped, CredentialsAssumption DEF CredStore
<1> HIDE DEF e
<1>3. /\ CredTypes /\ InstancesLoaded /\ DocumentsOwned
      /\ field["audit"] # 0 /\ HasStored(c)
  BY <1>1, <1>2 DEF CredIInv, CallsStand, HasOpened
<1>4. /\ CredTypes' /\ InstancesLoaded' /\ RowsOwned' /\ RevocationLasts'
      /\ \A d \in CredCall : HasOpened(d)'
      /\ \A d \in Storer : d # c => HasStored(d)'
      /\ \A d \in Revoker : d # c => HasRevoked(d)'
  BY <1>1, <1>2, <1>3, WriteKeepsOthers
<1>5. /\ saved["audit"] \in Seq(CredEntry)
      /\ "audit" \notin doubled => saved'["audit"] = Append(saved["audit"], e)
      /\ saved'["documents"] = saved["documents"]
  BY <1>1, <1>2, <1>3, WrittenToInstance, InstancesTyped
<1>6. \E k \in DOMAIN Append(saved["audit"], e) : Append(saved["audit"], e)[k] = e
  BY <1>2, <1>5, EntryIsThere
<1>7. HasStored(c)'
  <2>1. step'[c] = "insert" /\ stamps[c] # 0 /\ c \in blocks
        /\ ("documents" \notin doubled => DocumentOf(IdOf(c), saved["documents"]) # {})
    BY <1>1, <1>2, <1>3 DEF HasStored, AfterBlock, AfterPut, AfterAdd, Goes, CredTypes
  <2> QED
    BY <1>1, <1>5, <1>6, <2>1 DEF HasStored, IdOf, e
<1>8. DocumentsOwned'
  BY <1>1, <1>3, <1>5 DEF DocumentsOwned, Rivals, IdOf
<1>9. RowsRevoked'
  BY <1>1 DEF CredIInv, RowsRevoked
<1> QED
  BY <1>2, <1>4, <1>7, <1>8, <1>9 DEF CredIInv, CallsStand

(***************************************************************************)
(* A revocation is answered when its row is revoked, whether its entry in  *)
(* the audit log is written or not.                                        *)
(***************************************************************************)
LEMMA LogRevocationKeeps ==
    ASSUME CredIInv, NEW c \in Revoker, LogRevocation(c)
    PROVE  CredIInv'
<1> DEFINE e == [id |-> IdOf(c), by |-> c]
<1>1. /\ step[c] = "add" /\ Goes(c, "revoked")
      /\ revoked' = revoked \cup {IdOf(c)}
      /\ UNCHANGED <<held, field, blocks, rows, stamps, doubled, answer, before>>
      /\ Written("audit", e) \/ UNCHANGED <<log, saved>>
  BY DEF LogRevocation
<1>2. /\ c \in CredCall /\ c \notin Storer /\ e \in CredEntry /\ IdOf(c) \in CredID
      /\ "audit" \in CredStore /\ "documents" \in CredStore
  BY EntryTyped, CredentialsAssumption DEF CredStore
<1> HIDE DEF e
<1>3. /\ CredTypes /\ InstancesLoaded /\ DocumentsOwned /\ CallsStand /\ RowsOwned
      /\ field["audit"] # 0 /\ RevocationLasts
  BY <1>1, <1>2 DEF CredIInv, CallsStand, HasOpened
<1>4. step'[c] = "revoked" /\ \A d \in CredCall : d # c => step'[d] = step[d]
  BY <1>1, <1>2, <1>3 DEF Goes, CredTypes
<1>5. /\ CredTypes' /\ InstancesLoaded' /\ RowsOwned' /\ RevocationLasts'
      /\ \A d \in CredCall : HasOpened(d)'
      /\ \A d \in Storer : d # c => HasStored(d)'
      /\ \A d \in Revoker : d # c => HasRevoked(d)'
      /\ saved'["documents"] = saved["documents"]
  <2>1. CASE Written("audit", e)
    BY <1>1, <1>2, <1>3, <2>1, WriteKeepsOthers, WrittenToInstance
  <2>2. CASE UNCHANGED <<log, saved>>
    <3>1. CredTypes' /\ InstancesLoaded'
      BY <1>1, <1>3, <2>2 DEF CredTypes, Goes, Stamped, InstancesLoaded
    <3>2. RowsOwned'
      BY <1>1, <1>3, <1>4 DEF RowsOwned, Listed, IdOf, CredCall
    <3>3. RevocationLasts'
      BY <1>1, <1>2, <1>3, ReadsLast
    <3>4. \A d \in CredCall : HasOpened(d)'
      BY <1>1, <1>3, <1>4, <2>2 DEF CallsStand, HasOpened, Assigning
    <3>5. \A d \in Storer : d # c => HasStored(d)'
      BY <1>1, <1>3, <1>4, <2>2 DEF CallsStand, HasStored, IdOf, CredCall
    <3>6. \A d \in Revoker : d # c => HasRevoked(d)'
      BY <1>1, <1>3, <1>4, <2>2 DEF CallsStand, HasRevoked, IdOf, CredCall
    <3> QED
      BY <2>2, <3>1, <3>2, <3>3, <3>4, <3>5, <3>6
  <2> QED
    BY <1>1, <2>1, <2>2
<1>6. HasRevoked(c)'
  BY <1>4 DEF HasRevoked
<1>7. RowsRevoked'
  <2>1. rows[IdOf(c)].status = "revoked"
    BY <1>1, <1>3 DEF CallsStand, HasRevoked
  <2> QED
    BY <1>1, <1>2, <2>1 DEF CredIInv, RowsRevoked
<1>8. DocumentsOwned'
  BY <1>1, <1>3, <1>5 DEF DocumentsOwned, Rivals, IdOf
<1> QED
  BY <1>2, <1>5, <1>6, <1>7, <1>8 DEF CredIInv, CallsStand

-----------------------------------------------------------------------------
(* Rows.                                                                   *)

(***************************************************************************)
(* Where the stores are left alone, and rows change.                       *)
(***************************************************************************)
LEMMA RowStep ==
    ASSUME CredIInv, NEW c \in Storer \cup Revoker, NEW to, Goes(c, to),
           to \in {"stored", "failed", "open audit"},
           c \in Storer => to # "open audit" /\ step[c] = "insert",
           c \in Revoker => step[c] = "new",
           UNCHANGED <<held, log, field, saved, blocks, stamps, answer, before, revoked, doubled>>,
           rows' \in [CredID -> CredRow \cup {Unlisted}],
           \A i \in CredID : rows[i].status = "revoked" => rows'[i].status = "revoked",
           c \in Revoker /\ to = "open audit" => rows'[IdOf(c)].status = "revoked",
           RowsOwned'
    PROVE  CredIInv'
<1>1. /\ CredTypes /\ CallsStand /\ c \in CredCall /\ step'[c] = to
      /\ \A d \in CredCall : d # c => step'[d] = step[d]
  BY EntryTyped DEF CredIInv, CredTypes, Goes
<1>2. CredTypes'
  BY <1>1 DEF CredTypes, Goes, Stamped
<1>3. InstancesLoaded'
  BY DEF CredIInv, InstancesLoaded
<1>4. ASSUME NEW d \in CredCall PROVE HasOpened(d)'
  BY <1>1 DEF HasOpened, CallsStand, Assigning
<1>5. ASSUME NEW d \in Storer PROVE HasStored(d)'
  <2>1. HasStored(d) /\ d \in CredCall
    BY <1>1 DEF CallsStand, CredCall
  <2>2. CASE d = c
    BY <1>1, <2>1, <2>2 DEF HasStored, AfterBlock, AfterPut, AfterAdd, IdOf
  <2>3. CASE d # c
    BY <1>1, <2>1, <2>3 DEF HasStored, IdOf
  <2> QED
    BY <2>2, <2>3
<1>6. ASSUME NEW d \in Revoker PROVE HasRevoked(d)'
  <2>1. HasRevoked(d) /\ d \in CredCall /\ IdOf(d) \in CredID
    BY <1>1, EntryTyped DEF CallsStand
  <2>2. CASE d = c
    BY <1>1, <2>2 DEF HasRevoked, IdOf
  <2>3. CASE d # c
    BY <1>1, <2>1, <2>3 DEF HasRevoked, IdOf
  <2> QED
    BY <2>2, <2>3
<1>7. DocumentsOwned'
  BY DEF CredIInv, DocumentsOwned, Rivals, IdOf
<1>8. RowsRevoked'
  BY DEF CredIInv, RowsRevoked
<1>9. RevocationLasts'
  BY <1>1, ReadsLast DEF CredIInv
<1> QED
  BY <1>2, <1>3, <1>4, <1>5, <1>6, <1>7, <1>8, <1>9 DEF CredIInv, CallsStand

LEMMA StoreInSQLiteKeeps ==
    ASSUME CredIInv, NEW c \in Storer, StoreInSQLite(c)
    PROVE  CredIInv'
<1>1. /\ step[c] = "insert" /\ Inserted(c)
      /\ UNCHANGED <<held, log, field, saved, blocks, stamps, answer, before, revoked, doubled>>
  BY DEF StoreInSQLite
<1>2. /\ c \in CredCall /\ IdOf(c) \in CredID /\ c \in Storer \cup Revoker
      /\ CredTypes /\ RowsOwned /\ c \notin Revoker
  BY EntryTyped, CredentialsAssumption DEF CredIInv
<1>3. CASE rows[IdOf(c)] = Unlisted
  <2>1. rows' = [rows EXCEPT ![IdOf(c)] = Row(c)] /\ Goes(c, "stored")
    BY <1>1, <1>3 DEF Inserted
  <2>2. Row(c) \in CredRow /\ Row(c).by = c
    BY <1>2 DEF Row, CredRow, CredTypes
  <2>3. /\ rows' \in [CredID -> CredRow \cup {Unlisted}]
        /\ rows'[IdOf(c)] = Row(c)
        /\ \A i \in CredID : i # IdOf(c) => rows'[i] = rows[i]
    BY <1>2, <2>1, <2>2 DEF CredTypes
  <2>4. \A i \in CredID : rows[i].status = "revoked" => rows'[i].status = "revoked"
    <3>1. Unlisted.status # "revoked"
      BY DEF Unlisted
    <3> QED
      BY <1>3, <2>3, <3>1
  <2>5. step'[c] = "stored" /\ \A d \in CredCall : d # c => step'[d] = step[d]
    BY <1>2, <2>1 DEF Goes, CredTypes
  <2>6. RowsOwned'
    <3>1. ASSUME NEW i \in CredID, rows'[i] # Unlisted
          PROVE  /\ rows'[i].by \in Storer /\ IdOf(rows'[i].by) = i
                 /\ step'[rows'[i].by] = "stored"
      <4>1. CASE i = IdOf(c)
        BY <2>2, <2>3, <2>5, <4>1
      <4>2. CASE i # IdOf(c)
        BY <1>1, <1>2, <2>3, <2>5, <3>1, <4>2 DEF RowsOwned, Listed, CredCall
      <4> QED
        BY <4>1, <4>2
    <3> QED
      BY <3>1 DEF RowsOwned, Listed, IdOf
  <2> QED
    BY <1>1, <1>2, <2>1, <2>3, <2>4, <2>6, RowStep
<1>4. CASE rows[IdOf(c)] # Unlisted
  <2>1. UNCHANGED rows /\ Goes(c, "failed")
    BY <1>1, <1>4 DEF Inserted
  <2>2. RowsOwned'
    BY <1>1, <1>2, <2>1 DEF RowsOwned, Listed, Goes, IdOf, CredTypes, CredCall
  <2>3. /\ rows' \in [CredID -> CredRow \cup {Unlisted}]
        /\ \A i \in CredID : rows[i].status = "revoked" => rows'[i].status = "revoked"
    BY <1>2, <2>1 DEF CredTypes
  <2> QED
    BY <1>1, <1>2, <2>1, <2>2, <2>3, RowStep
<1> QED
  BY <1>3, <1>4

LEMMA RevokeCredentialKeeps ==
    ASSUME CredIInv, NEW c \in Revoker, RevokeCredential(c)
    PROVE  CredIInv'
<1>1. /\ step[c] = "new"
      /\ UNCHANGED <<held, log, field, saved, blocks, stamps, answer, before, revoked, doubled>>
      /\ \/ Goes(c, "failed") /\ UNCHANGED rows
         \/ /\ rows[IdOf(c)] # Unlisted
            /\ rows' = [rows EXCEPT ![IdOf(c)].status = "revoked"]
            /\ Goes(c, "open audit")
  BY DEF RevokeCredential
<1>2. /\ c \in CredCall /\ IdOf(c) \in CredID /\ c \in Storer \cup Revoker
      /\ CredTypes /\ RowsOwned /\ c \notin Storer
  BY EntryTyped, CredentialsAssumption DEF CredIInv
<1>3. CASE Goes(c, "failed") /\ UNCHANGED rows
  <2>1. RowsOwned'
    BY <1>1, <1>2, <1>3 DEF RowsOwned, Listed, Goes, IdOf, CredTypes, CredCall
  <2>2. /\ rows' \in [CredID -> CredRow \cup {Unlisted}]
        /\ \A i \in CredID : rows[i].status = "revoked" => rows'[i].status = "revoked"
    BY <1>2, <1>3 DEF CredTypes
  <2> QED
    BY <1>1, <1>2, <1>3, <2>1, <2>2, RowStep
<1>4. CASE /\ rows[IdOf(c)] # Unlisted
           /\ rows' = [rows EXCEPT ![IdOf(c)].status = "revoked"]
           /\ Goes(c, "open audit")
  <2> DEFINE r == rows[IdOf(c)]
             s == [r EXCEPT !.status = "revoked"]
  <2>1. r \in CredRow
    BY <1>2, <1>4 DEF CredTypes
  <2>2. s \in CredRow /\ s.by = r.by /\ s.status = "revoked"
    BY <2>1 DEF CredRow
  <2>3. rows' = [rows EXCEPT ![IdOf(c)] = s]
    BY <1>4
  <2> HIDE DEF r, s
  <2>4. /\ rows' \in [CredID -> CredRow \cup {Unlisted}]
        /\ rows'[IdOf(c)] = s
        /\ \A i \in CredID : i # IdOf(c) => rows'[i] = rows[i]
    BY <1>2, <2>2, <2>3 DEF CredTypes
  <2>5. \A i \in CredID : rows[i].status = "revoked" => rows'[i].status = "revoked"
    BY <2>2, <2>4
  <2>6. \A d \in CredCall : d # c => step'[d] = step[d]
    BY <1>2, <1>4 DEF Goes, CredTypes
  <2>7. \A i \in CredID : rows'[i] # Unlisted =>
          rows[i] # Unlisted /\ rows'[i].by = rows[i].by
    BY <1>4, <2>2, <2>4 DEF r
  <2>8. RowsOwned'
    <3>1. ASSUME NEW i \in CredID, rows'[i] # Unlisted
          PROVE  /\ rows'[i].by \in Storer /\ IdOf(rows'[i].by) = i
                 /\ step'[rows'[i].by] = "stored"
      <4>1. rows[i] # Unlisted /\ rows'[i].by = rows[i].by
        BY <2>7, <3>1
      <4>2. /\ rows[i].by \in Storer /\ IdOf(rows[i].by) = i
            /\ step[rows[i].by] = "stored"
        BY <1>2, <4>1 DEF RowsOwned, Listed
      <4>3. step'[rows[i].by] = "stored"
        BY <1>2, <2>6, <4>2 DEF CredCall
      <4> QED
        BY <4>1, <4>2, <4>3
    <3> QED
      BY <3>1 DEF RowsOwned, Listed, IdOf
  <2> QED
    BY <1>1, <1>2, <1>4, <2>2, <2>4, <2>5, <2>8, RowStep
<1> QED
  BY <1>1, <1>3, <1>4

-----------------------------------------------------------------------------
(* Opening a store, and restarts.                                          *)

LEMMA AssigningTellsApart ==
    \A s, t \in CredStore : Assigning(s) = Assigning(t) => s = t
  BY DEF Assigning, CredStore

LEMMA GetOrCreateKeeps ==
    ASSUME CredIInv, NEW c \in CredCall, NEW s \in CredStore, GetOrCreate(c, s)
    PROVE  CredIInv'
<1> DEFINE to == IF field[s] # 0 THEN Using(c, s) ELSE Assigning(s)
<1>1. /\ step[c] = Opening(s) /\ Goes(c, to)
      /\ field[s] # 0 => UNCHANGED <<log, held>>
      /\ field[s] = 0 => /\ log' = [log EXCEPT ![s] = Append(log[s], saved[s])]
                         /\ held' = [held EXCEPT ![c] = Len(log[s]) + 1]
      /\ UNCHANGED <<blocks, field, saved, rows, answer, stamps, revoked, before, doubled>>
  BY DEF GetOrCreate
<1>2. /\ CredTypes /\ CallsStand /\ InstancesLoaded /\ RowsOwned
      /\ step'[c] = to /\ \A d \in CredCall : d # c => step'[d] = step[d]
  BY <1>1 DEF CredIInv, CredTypes, Goes
<1>3. /\ log' \in [CredStore -> Seq(Seq(CredEntry))] /\ held' \in [CredCall -> Nat]
      /\ \A t \in CredStore : /\ Len(log[t]) \in Nat /\ Len(log'[t]) \in Nat
                              /\ Len(log[t]) <= Len(log'[t])
                              /\ \A k \in 1 .. Len(log[t]) : log'[t][k] = log[t][k]
      /\ \A t \in CredStore : t # s => log'[t] = log[t]
      /\ field[s] # 0 => log'[s] = log[s]
      /\ field[s] = 0 => Len(log'[s]) = Len(log[s]) + 1 /\ log'[s][Len(log[s]) + 1] = saved[s]
                         /\ held'[c] = Len(log[s]) + 1
      /\ \A d \in CredCall : d # c => held'[d] = held[d]
  <2>1. \A t \in CredStore : Len(log[t]) \in Nat
    BY <1>2, InstancesTyped
  <2>2. CASE field[s] # 0
    BY <1>1, <1>2, <2>1, <2>2 DEF CredTypes
  <2>3. CASE field[s] = 0
    <3> DEFINE L == Append(log[s], saved[s])
    <3>1. /\ L \in Seq(Seq(CredEntry)) /\ Len(L) = Len(log[s]) + 1
          /\ L[Len(log[s]) + 1] = saved[s]
          /\ \A k \in 1 .. Len(log[s]) : L[k] = log[s][k]
      BY <1>2, InstancesTyped, EntriesAppended
    <3> HIDE DEF L
    <3>2. log' = [log EXCEPT ![s] = L] /\ held' = [held EXCEPT ![c] = Len(log[s]) + 1]
      BY <1>1, <2>3 DEF L
    <3>3. log'[s] = L /\ \A t \in CredStore : t # s => log'[t] = log[t]
      BY <1>2, <3>2 DEF CredTypes
    <3>4. log' \in [CredStore -> Seq(Seq(CredEntry))]
      BY <1>2, <3>1, <3>2 DEF CredTypes
    <3>5. /\ held' \in [CredCall -> Nat] /\ held'[c] = Len(log[s]) + 1
          /\ \A d \in CredCall : d # c => held'[d] = held[d]
      BY <1>2, <2>1, <3>2 DEF CredTypes
    <3>6. ASSUME NEW t \in CredStore
          PROVE  /\ Len(log'[t]) \in Nat /\ Len(log[t]) <= Len(log'[t])
                 /\ \A k \in 1 .. Len(log[t]) : log'[t][k] = log[t][k]
      <4>1. CASE t = s
        BY <2>1, <3>1, <3>3, <4>1
      <4>2. CASE t # s
        BY <2>1, <3>3, <4>2
      <4> QED
        BY <4>1, <4>2
    <3> QED
      BY <2>1, <2>3, <3>1, <3>3, <3>4, <3>5, <3>6
  <2> QED
    BY <2>2, <2>3
<1>4. CredTypes'
  BY <1>1, <1>2, <1>3 DEF CredTypes, Goes, Stamped
<1>5. InstancesLoaded'
  <2> SUFFICES ASSUME NEW t \in CredStore
               PROVE  /\ field[t] \in 0 .. Len(log'[t])
                      /\ field[t] = 0 => \A k \in 1 .. Len(log'[t]) : log'[t][k] = saved[t]
                      /\ field[t] # 0 /\ t \notin doubled => log'[t][field[t]] = saved[t]
    BY <1>1 DEF InstancesLoaded
  <2>1. /\ field[t] \in 0 .. Len(log[t])
        /\ field[t] = 0 => \A k \in 1 .. Len(log[t]) : log[t][k] = saved[t]
        /\ field[t] # 0 /\ t \notin doubled => log[t][field[t]] = saved[t]
    BY <1>2 DEF InstancesLoaded
  <2>2. field[t] \in 0 .. Len(log'[t])
    BY <1>3, <2>1
  <2>3. ASSUME field[t] = 0, NEW k \in 1 .. Len(log'[t]) PROVE log'[t][k] = saved[t]
    <3>1. CASE k \in 1 .. Len(log[t])
      BY <1>3, <2>1, <2>3, <3>1
    <3>2. CASE k \notin 1 .. Len(log[t])
      <4>1. t = s
        BY <1>3, <3>2
      <4>2. k = Len(log[s]) + 1 /\ field[s] = 0
        BY <1>3, <2>3, <3>2, <4>1
      <4> QED
        BY <1>3, <4>1, <4>2
    <3> QED
      BY <3>1, <3>2
  <2>4. field[t] # 0 /\ t \notin doubled => log'[t][field[t]] = saved[t]
    BY <1>3, <2>1
  <2> QED
    BY <2>2, <2>3, <2>4
<1>6. /\ to \in {"assign documents", "assign audit", "put", "fetch", "add"}
      /\ step[c] \in {"open documents", "open audit"}
  BY <1>1 DEF Using, Assigning, Opening, CredStore
<1>7. ASSUME NEW d \in Storer PROVE HasStored(d)'
  <2>1. HasStored(d) /\ d \in CredCall
    BY <1>2 DEF CallsStand, CredCall
  <2>2. CASE d = c
    <3>1. s = "documents" => to \in {"assign documents", "put", "fetch"}
      BY DEF Using, Assigning
    <3>2. s = "audit" => to \in {"assign audit", "add"}
      BY DEF Using, Assigning
    <3>3. to # "fetch"
      BY <2>2, CredentialsAssumption DEF Using, Assigning
    <3> QED
      BY <1>1, <1>2, <2>1, <2>2, <3>1, <3>2, <3>3
         DEF HasStored, AfterBlock, AfterPut, AfterAdd, IdOf, Opening, CredStore
  <2>3. CASE d # c
    BY <1>1, <1>2, <2>1, <2>3 DEF HasStored, IdOf
  <2> QED
    BY <2>2, <2>3
<1>8. ASSUME NEW d \in CredCall PROVE HasOpened(d)'
  <2>1. CASE d # c
    <3>1. HasOpened(d) /\ step'[d] = step[d] /\ held'[d] = held[d]
      BY <1>2, <1>3, <2>1 DEF CallsStand
    <3>2. \A t \in CredStore : step[d] = Assigning(t) => held[d] \in 1 .. Len(log'[t])
      BY <1>3, <3>1 DEF HasOpened
    <3> QED
      BY <1>1, <3>1, <3>2 DEF HasOpened
  <2>2. CASE d = c
    <3>1. CASE field[s] = 0
      <4>1. to = Assigning(s) /\ held'[c] = Len(log'[s]) /\ Len(log'[s]) \in 1 .. Len(log'[s])
        BY <1>3, <3>1
      <4>2. \A t \in CredStore : Assigning(t) = Assigning(s) => t = s
        BY AssigningTellsApart
      <4>3. Assigning(s) \notin {"put", "fetch", "add"}
        BY DEF Assigning
      <4> QED
        BY <1>2, <2>2, <4>1, <4>2, <4>3 DEF HasOpened
    <3>2. CASE field[s] # 0
      <4>1. /\ to = Using(c, s) /\ \A t \in CredStore : to # Assigning(t)
            /\ to \in {"put", "fetch"} => s = "documents"
            /\ to = "add" => s = "audit"
        BY <3>2 DEF Using, Assigning, CredStore
      <4> QED
        BY <1>1, <1>2, <2>2, <3>2, <4>1 DEF HasOpened
    <3> QED
      BY <3>1, <3>2
  <2> QED
    BY <2>1, <2>2
<1>9. ASSUME NEW d \in Revoker PROVE HasRevoked(d)'
  <2>1. HasRevoked(d) /\ d \in CredCall
    BY <1>2 DEF CallsStand, CredCall
  <2>2. CASE d = c
    <3>1. s = "documents" => to \notin {"open audit", "assign audit", "add"}
      BY DEF Using, Assigning
    <3>2. s = "audit" => step[c] = "open audit"
      BY <1>1 DEF Opening
    <3> QED
      BY <1>1, <1>2, <2>1, <2>2, <3>1, <3>2 DEF HasRevoked, IdOf, CredStore
  <2>3. CASE d # c
    BY <1>1, <1>2, <2>1, <2>3 DEF HasRevoked, IdOf
  <2> QED
    BY <2>2, <2>3
<1>10. DocumentsOwned'
  BY <1>1 DEF CredIInv, DocumentsOwned, Rivals, IdOf
<1>11. RowsOwned' /\ RowsRevoked'
  BY <1>1, <1>2, <1>6 DEF CredIInv, RowsOwned, RowsRevoked, Listed, IdOf, CredCall
<1>12. RevocationLasts'
  BY <1>1, <1>2, <1>6, ReadsLast DEF CredIInv
<1> QED
  BY <1>4, <1>5, <1>7, <1>8, <1>9, <1>10, <1>11, <1>12 DEF CredIInv, CallsStand

LEMMA AssignKeeps ==
    ASSUME CredIInv, NEW c \in CredCall, NEW s \in CredStore, Assign(c, s)
    PROVE  CredIInv'
<1> DEFINE to == Using(c, s)
<1>1. /\ step[c] = Assigning(s) /\ Goes(c, to)
      /\ field' = [field EXCEPT ![s] = held[c]]
      /\ doubled' = IF field[s] = 0 THEN doubled ELSE doubled \cup {s}
      /\ held' = [held EXCEPT ![c] = 0]
      /\ UNCHANGED <<blocks, log, saved, rows, answer, stamps, revoked, before>>
  BY DEF Assign
<1>2. /\ CredTypes /\ CallsStand /\ InstancesLoaded /\ RowsOwned
      /\ step'[c] = to /\ \A d \in CredCall : d # c => step'[d] = step[d]
  BY <1>1 DEF CredIInv, CredTypes, Goes
<1>3. /\ held[c] \in 1 .. Len(log[s]) /\ field'[s] = held[c] /\ field'[s] # 0
      /\ \A t \in CredStore : t # s => field'[t] = field[t]
      /\ \A d \in CredCall : d # c => held'[d] = held[d]
  <2>1. held[c] \in 1 .. Len(log[s]) /\ Len(log[s]) \in Nat
    BY <1>1, <1>2, InstancesTyped DEF CallsStand, HasOpened
  <2>2. field'[s] = held[c] /\ \A t \in CredStore : t # s => field'[t] = field[t]
    BY <1>1, <1>2 DEF CredTypes
  <2>3. \A d \in CredCall : d # c => held'[d] = held[d]
    BY <1>1, <1>2 DEF CredTypes
  <2> QED
    BY <2>1, <2>2, <2>3
<1>4. CredTypes'
  BY <1>1, <1>2 DEF CredTypes, Goes, Stamped
<1>5. InstancesLoaded'
  <2> SUFFICES ASSUME NEW t \in CredStore
               PROVE  /\ field'[t] \in 0 .. Len(log[t])
                      /\ field'[t] = 0 => \A k \in 1 .. Len(log[t]) : log[t][k] = saved[t]
                      /\ field'[t] # 0 /\ t \notin doubled' => log[t][field'[t]] = saved[t]
    BY <1>1 DEF InstancesLoaded
  <2>1. /\ field[t] \in 0 .. Len(log[t])
        /\ field[t] = 0 => \A k \in 1 .. Len(log[t]) : log[t][k] = saved[t]
        /\ field[t] # 0 /\ t \notin doubled => log[t][field[t]] = saved[t]
    BY <1>2 DEF InstancesLoaded
  <2>2. CASE t = s
    <3>1. field[s] # 0 => s \in doubled'
      BY <1>1
    <3>2. field[s] = 0 => log[s][held[c]] = saved[s]
      BY <1>3, <2>1, <2>2
    <3>3. Len(log[s]) \in Nat
      BY <1>2, InstancesTyped
    <3> QED
      BY <1>3, <2>2, <3>1, <3>2, <3>3
  <2>3. CASE t # s
    BY <1>1, <1>3, <2>1, <2>3
  <2> QED
    BY <2>2, <2>3
<1>6. /\ to \in {"put", "fetch", "add"}
      /\ step[c] \in {"assign documents", "assign audit"}
      /\ doubled \subseteq doubled'
      /\ \A t \in CredStore : field[t] # 0 => field'[t] # 0
  BY <1>1, <1>3 DEF Using, Assigning
<1>7. ASSUME NEW d \in Storer PROVE HasStored(d)'
  <2>1. HasStored(d) /\ d \in CredCall
    BY <1>2 DEF CallsStand, CredCall
  <2>2. CASE d = c
    <3>1. s = "documents" => to = "put"
      BY <2>2, CredentialsAssumption DEF Using
    <3>2. s = "audit" => to = "add"
      BY DEF Using
    <3>3. stamps[c] # 0 /\ c \in blocks
      BY <1>6, <2>1, <2>2 DEF HasStored, AfterBlock, AfterPut
    <3>4. s = "audit" /\ "documents" \notin doubled => DocumentOf(IdOf(c), saved["documents"]) # {}
      BY <1>1, <2>1, <2>2 DEF HasStored, AfterPut, Assigning
    <3>5. to \in AfterPut => s = "audit"
      BY <3>1 DEF AfterPut, AfterAdd, CredStore
    <3>6. to \notin AfterAdd
      BY <1>6 DEF AfterAdd
    <3> QED
      BY <1>1, <1>2, <1>6, <2>2, <3>3, <3>4, <3>5, <3>6 DEF HasStored, IdOf
  <2>3. CASE d # c
    BY <1>1, <1>2, <1>6, <2>1, <2>3 DEF HasStored, IdOf
  <2> QED
    BY <2>2, <2>3
<1>8. ASSUME NEW d \in CredCall PROVE HasOpened(d)'
  <2>1. CASE d # c
    BY <1>1, <1>2, <1>3, <1>6, <2>1 DEF CallsStand, HasOpened, CredStore
  <2>2. CASE d = c
    <3>1. /\ \A t \in CredStore : to # Assigning(t)
          /\ to \in {"put", "fetch"} => s = "documents"
          /\ to = "add" => s = "audit"
      BY DEF Using, Assigning, CredStore
    <3> QED
      BY <1>2, <1>3, <2>2, <3>1 DEF HasOpened
  <2> QED
    BY <2>1, <2>2
<1>9. ASSUME NEW d \in Revoker PROVE HasRevoked(d)'
  <2>1. HasRevoked(d) /\ d \in CredCall
    BY <1>2 DEF CallsStand, CredCall
  <2>2. CASE d = c
    <3>1. s = "documents" => to # "add"
      BY DEF Using
    <3>2. s = "audit" => step[c] = "assign audit"
      BY <1>1 DEF Assigning
    <3> QED
      BY <1>1, <1>2, <1>6, <2>1, <2>2, <3>1, <3>2 DEF HasRevoked, IdOf, CredStore
  <2>3. CASE d # c
    BY <1>1, <1>2, <2>1, <2>3 DEF HasRevoked, IdOf
  <2> QED
    BY <2>2, <2>3
<1>10. DocumentsOwned'
  BY <1>1, <1>6 DEF CredIInv, DocumentsOwned, Rivals, IdOf
<1>11. RowsOwned' /\ RowsRevoked'
  <2>1. ASSUME NEW r \in Listed PROVE step'[rows[r].by] = "stored"
    <3>1. rows[r].by \in Storer /\ step[rows[r].by] = "stored"
      BY <1>2 DEF RowsOwned
    <3>2. rows[r].by \in CredCall /\ rows[r].by # c
      BY <1>6, <3>1 DEF CredCall
    <3> QED
      BY <1>2, <3>1, <3>2
  <2>2. RowsOwned'
    BY <1>1, <1>2, <2>1 DEF RowsOwned, Listed, IdOf
  <2>3. RowsRevoked'
    BY <1>1 DEF CredIInv, RowsRevoked
  <2> QED
    BY <2>2, <2>3
<1>12. RevocationLasts'
  BY <1>1, <1>2, <1>6, ReadsLast DEF CredIInv
<1> QED
  BY <1>4, <1>5, <1>7, <1>8, <1>9, <1>10, <1>11, <1>12 DEF CredIInv, CallsStand

(***************************************************************************)
(* A call that was under way has failed, and relies on nothing; a call     *)
(* that had finished relies on rows, blocks and saved entries alone.       *)
(***************************************************************************)
LEMMA RestartKeeps ==
    ASSUME CredIInv, CredRestart
    PROVE  CredIInv'
<1>1. /\ step' = [c \in CredCall |-> IF step[c] \in Finished \cup {"new"} THEN step[c] ELSE "failed"]
      /\ held' = [c \in CredCall |-> 0]
      /\ log' = [s \in CredStore |-> <<>>]
      /\ field' = [s \in CredStore |-> 0]
      /\ UNCHANGED <<blocks, saved, rows, answer, stamps, revoked, before, doubled>>
  BY DEF CredRestart
<1>2. CredTypes /\ CallsStand /\ RowsOwned
  BY DEF CredIInv
<1>3. \A c \in CredCall :
        \/ step'[c] = "failed"
        \/ step'[c] = step[c] /\ step[c] \in Finished \cup {"new"}
  BY <1>1
<1>4. CredTypes'
  <2>1. /\ step' = [c \in CredCall |-> step'[c]] /\ held' \in [CredCall -> Nat]
        /\ field' \in [CredStore -> Nat]
    BY <1>1
  <2>2. log' \in [CredStore -> Seq(Seq(CredEntry))]
    BY <1>1
  <2> QED
    BY <1>1, <1>2, <2>1, <2>2 DEF CredTypes, Stamped
<1>5. InstancesLoaded'
  BY <1>1 DEF InstancesLoaded
<1>6. ASSUME NEW c \in Storer PROVE HasStored(c)'
  <2>1. HasStored(c) /\ c \in CredCall
    BY <1>2 DEF CallsStand, CredCall
  <2>2. CASE step'[c] = "failed"
    BY <2>2 DEF HasStored, AfterBlock, AfterPut, AfterAdd
  <2>3. CASE step'[c] = step[c]
    BY <1>1, <2>1, <2>3 DEF HasStored, IdOf
  <2> QED
    BY <1>3, <2>1, <2>2, <2>3
<1>7. ASSUME NEW c \in CredCall PROVE HasOpened(c)'
  BY <1>3 DEF HasOpened, Assigning, Finished
<1>8. ASSUME NEW c \in Revoker PROVE HasRevoked(c)'
  BY <1>3 DEF HasRevoked, Finished, CredCall
<1>9. DocumentsOwned'
  BY <1>1 DEF CredIInv, DocumentsOwned, Rivals, IdOf
<1>10. RowsOwned' /\ RowsRevoked'
  <2>1. ASSUME NEW i \in Listed PROVE step'[rows[i].by] = "stored"
    BY <1>1, <1>2 DEF RowsOwned, CredCall, Finished
  <2>2. RowsOwned'
    BY <1>1, <1>2, <2>1 DEF RowsOwned, Listed, IdOf
  <2>3. RowsRevoked'
    BY <1>1 DEF CredIInv, RowsRevoked
  <2> QED
    BY <2>2, <2>3
<1>11. RevocationLasts'
  BY <1>1, <1>3 DEF CredIInv, RevocationLasts, IdOf, CredCall
<1> QED
  BY <1>4, <1>5, <1>6, <1>7, <1>8, <1>9, <1>10, <1>11 DEF CredIInv, CallsStand

-----------------------------------------------------------------------------

LEMMA CredInitKeeps == CredInit => CredIInv
<1> SUFFICES ASSUME CredInit PROVE CredIInv
  OBVIOUS
<1>1. /\ step = [c \in CredCall |-> "new"] /\ held = [c \in CredCall |-> 0]
      /\ log = [s \in CredStore |-> <<>>] /\ field = [s \in CredStore |-> 0]
      /\ saved = [s \in CredStore |-> <<>>] /\ rows = [i \in CredID |-> Unlisted]
      /\ answer = [c \in CredCall |-> {}] /\ before = [c \in CredCall |-> {}]
      /\ stamps = [c \in CredCall |-> 0] /\ revoked = {}
  BY DEF CredInit
<1>2. CredTypes
  <2>1. Stamped = {} /\ IsFiniteSet({})
    BY <1>1, FS_EmptySet DEF Stamped
  <2>2. log \in [CredStore -> Seq(Seq(CredEntry))] /\ saved \in [CredStore -> Seq(CredEntry)]
    BY <1>1
  <2> QED
    BY <1>1, <2>1, <2>2 DEF CredTypes
<1>3. InstancesLoaded
  BY <1>1 DEF InstancesLoaded
<1>4. CallsStand
  BY <1>1 DEF CallsStand, HasStored, HasOpened, HasRevoked, AfterBlock, AfterPut, AfterAdd,
              Assigning, CredCall
<1>5. DocumentsOwned
  BY <1>1 DEF DocumentsOwned, DocumentOf, CredStore
<1>6. RowsOwned /\ RowsRevoked
  BY <1>1 DEF RowsOwned, RowsRevoked, Listed
<1>7. RevocationLasts
  BY <1>1 DEF RevocationLasts, CredCall
<1> QED
  BY <1>2, <1>3, <1>4, <1>5, <1>6, <1>7 DEF CredIInv

LEMMA CredNextKeeps == CredIInv /\ [CredNext]_credVars => CredIInv'
<1> SUFFICES ASSUME CredIInv, [CredNext]_credVars PROVE CredIInv'
  OBVIOUS
<1>1. CASE UNCHANGED credVars
  <2>1. CredTypes' /\ InstancesLoaded'
    BY <1>1 DEF credVars, CredIInv, CredTypes, Stamped, InstancesLoaded
  <2>2. CallsStand'
    BY <1>1 DEF credVars, CredIInv, CallsStand, HasStored, HasOpened, HasRevoked, IdOf
  <2>3. DocumentsOwned' /\ RowsOwned' /\ RowsRevoked'
    BY <1>1 DEF credVars, CredIInv, DocumentsOwned, RowsOwned, RowsRevoked, Rivals, Listed, IdOf
  <2>4. RevocationLasts'
    BY <1>1 DEF credVars, CredIInv, RevocationLasts, IdOf
  <2> QED
    BY <2>1, <2>2, <2>3, <2>4 DEF CredIInv
<1>2. ASSUME NEW c \in Storer,
             \/ StoreCredential(c) \/ StoreInIPFS(c) \/ StoreInDocumentStore(c)
             \/ StoreInEventLog(c) \/ StoreInSQLite(c)
      PROVE  CredIInv'
  BY <1>2, StoreCredentialKeeps, StoreInIPFSKeeps, StoreInDocumentStoreKeeps,
     StoreInEventLogKeeps, StoreInSQLiteKeeps
<1>3. ASSUME NEW c \in Revoker, RevokeCredential(c) \/ LogRevocation(c) PROVE CredIInv'
  BY <1>3, RevokeCredentialKeeps, LogRevocationKeeps
<1>4. ASSUME NEW c \in Verifier, VerifyCredential(c) PROVE CredIInv'
  BY <1>4, VerifyCredentialKeeps
<1>5. ASSUME NEW c \in Lister,
             ListCredentials(c) \/ QueryCredentials(c) \/ GetCredentialsByIssuer(c)
      PROVE  CredIInv'
  BY <1>5, ListingKeeps
<1>6. ASSUME NEW c \in Getter, GetCredential(c) \/ RetrieveFromStorage(c) PROVE CredIInv'
  BY <1>6, GetCredentialKeeps, RetrieveKeeps
<1>7. ASSUME NEW c \in CredCall,
             IOError(c) \/ \E s \in CredStore : GetOrCreate(c, s) \/ Assign(c, s)
      PROVE  CredIInv'
  BY <1>7, IOErrorKeeps, GetOrCreateKeeps, AssignKeeps
<1>8. CASE CredRestart
  BY <1>8, RestartKeeps
<1> QED
  BY <1>1, <1>2, <1>3, <1>4, <1>5, <1>6, <1>7, <1>8 DEF CredNext

LEMMA ListedAreKept == CredIInv => ListedAreComplete
<1> SUFFICES ASSUME CredIInv, NEW i \in Listed
             PROVE  LET c == rows[i].by
                    IN  /\ c \in blocks
                        /\ "documents" \notin doubled =>
                             /\ DocumentOf(i, Current("documents")) # {}
                             /\ Cardinality(Rivals(i)) = 1 =>
                                  DocumentOf(i, Current("documents")) = {c}
                        /\ "audit" \notin doubled =>
                             \E k \in DOMAIN Current("audit") :
                                Current("audit")[k] = [id |-> i, by |-> c]
  BY DEF ListedAreComplete
<1> DEFINE c == rows[i].by
<1>1. /\ c \in Storer /\ IdOf(c) = i /\ step[c] = "stored" /\ i \in CredID
      /\ HasStored(c) /\ InstancesLoaded
  BY DEF CredIInv, RowsOwned, Listed, CallsStand
<1> HIDE DEF c
<1>2. \A s \in CredStore : s \notin doubled => Current(s) = saved[s]
  BY <1>1 DEF Current, InstancesLoaded
<1>3. /\ c \in blocks /\ stamps[c] # 0
      /\ "documents" \notin doubled => DocumentOf(i, saved["documents"]) # {}
      /\ "audit" \notin doubled =>
           \E k \in DOMAIN saved["audit"] : saved["audit"][k] = [id |-> i, by |-> c]
  BY <1>1 DEF HasStored, AfterBlock, AfterPut, AfterAdd
<1>4. ASSUME "documents" \notin doubled, Cardinality(Rivals(i)) = 1
      PROVE  DocumentOf(i, saved["documents"]) = {c}
  <2>1. Rivals(i) \in SUBSET Stamped /\ IsFiniteSet(Stamped)
    BY DEF CredIInv, CredTypes, Rivals, Stamped, CredCall
  <2>2. \E x : Rivals(i) = {x}
    BY <1>4, <2>1, FS_Subset, FS_Singleton
  <2>3. c \in Rivals(i)
    BY <1>1, <1>3 DEF Rivals
  <2>4. DocumentOf(i, saved["documents"]) \subseteq Rivals(i)
    BY <1>1, <1>4 DEF CredIInv, DocumentsOwned
  <2> QED
    BY <1>3, <1>4, <2>2, <2>3, <2>4
<1>5. "documents" \in CredStore /\ "audit" \in CredStore
  BY DEF CredStore
<1> QED
  BY <1>2, <1>3, <1>4, <1>5 DEF c

(***************************************************************************)
(* What is answered about a credential stays true, for any calls that      *)
(* interleave, fail and are cut off by restarts in any way: once its       *)
(* revocation is answered a credential neither verifies nor is listed as   *)
(* active, and one that is listed has its block, its document and its      *)
(* entry in the audit log.                                                 *)
(***************************************************************************)
THEOREM AnswersStayTrue == CredSpec => []CredentialsKept
<1>1. CredIInv => CredentialsKept
  BY ListedAreKept DEF CredIInv, CredentialsKept
<1> QED
  BY <1>1, CredInitKeeps, CredNextKeeps, PTL DEF CredSpec

-----------------------------------------------------------------------------
(* The failure detector.                                                   *)

(***************************************************************************)
(* What the loop waits for: the tick in its channel, or the next one.      *)
(***************************************************************************)
NextTick == IF tickReady THEN 0 ELSE tickIn

(***************************************************************************)
(* The types of what the loop keeps.                                       *)
(***************************************************************************)
LoopTypeOK ==
    /\ silence \in {None} \cup Nat
    /\ tickIn \in 0 .. CheckInterval
    /\ tickReady \in BOOLEAN
    /\ backoff \in {None} \cup 0 .. MaxBackoff
    /\ heartbeatMissed \in 0 .. MissLimit - 1
    /\ consecutiveHeartbeatFailures = heartbeatMissed

(***************************************************************************)
(* A loop that does not wait misses one check for every CheckInterval of   *)
(* silence beyond the timeout; one that waits was heard of since it began  *)
(* to wait.                                                                *)
(***************************************************************************)
ChecksKeepUp ==
    ~ suspected /\ silence # None =>
        /\ backoff = None => silence + NextTick <= HeartbeatTimeout + (heartbeatMissed + 1) * CheckInterval
        /\ backoff # None => silence + backoff <= MaxBackoff

LoopInv == LoopTypeOK /\ ChecksKeepUp

(***************************************************************************)
(* What the constants are.                                                 *)
(***************************************************************************)
LEMMA DetectorConstants ==
    /\ HeartbeatTimeout \in Nat /\ CheckInterval \in Nat \ {0}
    /\ MaxBackoff \in Nat /\ MaxBackoff <= HeartbeatTimeout
    /\ RetryLimit \in Nat \ {0} /\ RequiredFailures \in Nat \ {0}
    /\ MissLimit \in Nat \ {0}
    /\ RetryLimit <= MissLimit /\ RequiredFailures <= MissLimit
    /\ MissLimit \in {RetryLimit, RequiredFailures}
  <1>1. HeartbeatTimeout \in Nat \ {0} /\ CheckInterval \in Nat \ {0}
        /\ RetryLimit \in Nat \ {0} /\ RequiredFailures \in Nat \ {0}
    BY DetectorAssumption
  <1>2. MaxBackoff \in Nat /\ MaxBackoff <= HeartbeatTimeout
    BY <1>1, DetectorAssumption
  <1> QED BY <1>1, <1>2 DEF MissLimit

(***************************************************************************)
(* Arithmetic of the bound.                                                *)
(***************************************************************************)
LEMMA OneMore ==
    ASSUME NEW n \in Nat, NEW c \in Nat
    PROVE  (n + 1) * c \in Nat /\ (n + 1) * c = n * c + c /\ n * c \in Nat
  OBVIOUS

LEMMA Monotone ==
    ASSUME NEW n \in Nat, NEW k \in Nat, NEW c \in Nat, n <= k
    PROVE  n * c <= k * c
  <1>1. PICK d \in Nat : k = n + d
    <2>1. k - n \in Nat /\ k = n + (k - n)
      OBVIOUS
    <2> QED BY <2>1
  <1>2. k * c = n * c + d * c /\ d * c \in Nat /\ n * c \in Nat
    BY <1>1
  <1> QED BY <1>2

LEMMA DetectorInit == Init => LoopInv
  <1> SUFFICES ASSUME Init PROVE LoopInv
    OBVIOUS
  <1>1. 0 \in 0 .. MissLimit - 1 /\ CheckInterval \in 0 .. CheckInterval
    BY DetectorConstants
  <1>2. LoopTypeOK
    BY <1>1 DEF Init, LoopTypeOK
  <1>3. ChecksKeepUp
    BY DEF Init, ChecksKeepUp
  <1> QED BY <1>2, <1>3 DEF LoopInv

(***************************************************************************)
(* A loop that was just heard of, or that checks in time, has time for a   *)
(* whole interval.                                                         *)
(***************************************************************************)
LEMMA TimeLeft ==
    ASSUME NEW s \in Nat, s <= HeartbeatTimeout, NEW t \in 0 .. CheckInterval, NEW n \in Nat
    PROVE  s + t <= HeartbeatTimeout + (n + 1) * CheckInterval
  <1>1. (n + 1) * CheckInterval = n * CheckInterval + CheckInterval /\ n * CheckInterval \in Nat
    BY OneMore, DetectorConstants
  <1> DEFINE x == n * CheckInterval
  <1>2. x \in Nat /\ (n + 1) * CheckInterval = x + CheckInterval
    BY <1>1
  <1> HIDE DEF x
  <1> QED BY <1>2, DetectorConstants

(***************************************************************************)
(* What the loop of the detector reads and writes.                         *)
(***************************************************************************)
loopVars == <<silence, counters, tickVars, backoff, suspected>>

LEMMA LoopRests ==
    ASSUME LoopInv, UNCHANGED loopVars
    PROVE  LoopInv'
  BY DEF LoopInv, LoopTypeOK, ChecksKeepUp, NextTick, loopVars, counters, tickVars

LEMMA LoopHears ==
    ASSUME LoopInv, HeardOfLeader, UNCHANGED <<tickVars, backoff>>
    PROVE  LoopInv'
  <1>1. /\ silence' = 0 /\ heartbeatMissed' = 0 /\ consecutiveHeartbeatFailures' = 0
        /\ tickIn' = tickIn /\ tickReady' = tickReady /\ backoff' = backoff
    BY DEF HeardOfLeader, ResetCounters, tickVars
  <1>0. 0 \in 0 .. MissLimit - 1
    BY DetectorConstants
  <1>2. LoopTypeOK'
    BY <1>0, <1>1 DEF LoopInv, LoopTypeOK
  <1>3. NextTick' \in 0 .. CheckInterval
    BY <1>2, DetectorConstants DEF LoopTypeOK, NextTick
  <1>4. silence' + NextTick' <= HeartbeatTimeout + (heartbeatMissed' + 1) * CheckInterval
    <2>1. /\ silence' \in Nat /\ silence' <= HeartbeatTimeout
          /\ NextTick' \in 0 .. CheckInterval /\ heartbeatMissed' \in Nat
      BY <1>1, <1>3, DetectorConstants
    <2> QED BY <2>1, TimeLeft
  <1>5. backoff' # None => silence' + backoff' <= MaxBackoff
    BY <1>1, DetectorConstants DEF LoopInv, LoopTypeOK
  <1> QED BY <1>2, <1>4, <1>5 DEF LoopInv, ChecksKeepUp

LEMMA LoopTicker ==
    ASSUME LoopInv, TickerFires
    PROVE  LoopInv'
  <1>1. /\ tickIn = 0 /\ tickIn' = CheckInterval /\ tickReady' = TRUE
        /\ UNCHANGED <<silence, heartbeatMissed, consecutiveHeartbeatFailures, backoff, suspected>>
    BY DEF TickerFires, counters
  <1>2. LoopTypeOK'
    BY <1>1, DetectorConstants DEF LoopInv, LoopTypeOK
  <1>3. NextTick' = 0 /\ NextTick = 0
    BY <1>1 DEF NextTick
  <1>4. ChecksKeepUp'
    BY <1>1, <1>3 DEF LoopInv, ChecksKeepUp
  <1> QED BY <1>2, <1>4 DEF LoopInv

LEMMA LoopFirstCheck ==
    ASSUME LoopInv, FirstCheck
    PROVE  LoopInv'
  <1>1. /\ silence' = 0 /\ tickReady' = FALSE /\ backoff = None
        /\ UNCHANGED <<heartbeatMissed, consecutiveHeartbeatFailures, tickIn, backoff, suspected>>
    BY DEF FirstCheck, TakeTick, counters
  <1>2. LoopTypeOK'
    BY <1>1, DetectorConstants DEF LoopInv, LoopTypeOK
  <1>3. NextTick' \in 0 .. CheckInterval /\ heartbeatMissed' \in Nat
    BY <1>2, DetectorConstants DEF LoopTypeOK, NextTick
  <1>4. silence' + NextTick' <= HeartbeatTimeout + (heartbeatMissed' + 1) * CheckInterval
    <2>1. /\ silence' \in Nat /\ silence' <= HeartbeatTimeout
          /\ NextTick' \in 0 .. CheckInterval /\ heartbeatMissed' \in Nat
      BY <1>1, <1>3, DetectorConstants
    <2> QED BY <2>1, TimeLeft
  <1> QED BY <1>1, <1>2, <1>4 DEF LoopInv, ChecksKeepUp

LEMMA LoopInTime ==
    ASSUME LoopInv, CheckInTime
    PROVE  LoopInv'
  <1>1. /\ silence \in 0 .. HeartbeatTimeout /\ tickReady' = FALSE /\ backoff = None
        /\ heartbeatMissed' = 0 /\ consecutiveHeartbeatFailures' = 0
        /\ UNCHANGED <<silence, tickIn, backoff, suspected>>
    BY DEF CheckInTime, TakeTick, ResetCounters
  <1>0. 0 \in 0 .. MissLimit - 1
    BY DetectorConstants
  <1>2. LoopTypeOK'
    BY <1>0, <1>1 DEF LoopInv, LoopTypeOK
  <1>3. NextTick' \in 0 .. CheckInterval /\ heartbeatMissed' \in Nat
    BY <1>2, DetectorConstants DEF LoopTypeOK, NextTick
  <1>4. silence' + NextTick' <= HeartbeatTimeout + (heartbeatMissed' + 1) * CheckInterval
    <2>1. /\ silence' \in Nat /\ silence' <= HeartbeatTimeout
          /\ NextTick' \in 0 .. CheckInterval /\ heartbeatMissed' \in Nat
      BY <1>1, <1>3, DetectorConstants
    <2> QED BY <2>1, TimeLeft
  <1> QED BY <1>1, <1>2, <1>4 DEF LoopInv, ChecksKeepUp

LEMMA LoopMiss ==
    ASSUME LoopInv, Miss
    PROVE  LoopInv'
  <1>1. /\ ~ Confirmed /\ tickReady /\ tickReady' = FALSE /\ backoff = None
        /\ heartbeatMissed' = heartbeatMissed + 1
        /\ consecutiveHeartbeatFailures' = consecutiveHeartbeatFailures + 1
        /\ UNCHANGED <<silence, tickIn, backoff, suspected>>
    BY DEF Miss, TakeTick
  <1>2. heartbeatMissed \in Nat /\ heartbeatMissed + 1 < MissLimit
    <2>1. heartbeatMissed \in Nat /\ consecutiveHeartbeatFailures = heartbeatMissed
      BY DetectorConstants DEF LoopInv, LoopTypeOK
    <2>2. ~ (heartbeatMissed + 1 >= RetryLimit /\ heartbeatMissed + 1 >= RequiredFailures)
      BY <1>1, <2>1 DEF Confirmed
    <2> QED BY <2>1, <2>2, DetectorConstants
  <1>3. LoopTypeOK'
    <2>1. heartbeatMissed + 1 \in 0 .. MissLimit - 1
      BY <1>2, DetectorConstants
    <2> QED BY <1>1, <2>1 DEF LoopInv, LoopTypeOK
  <1>4. ASSUME ~ suspected, silence # None
        PROVE  silence' + NextTick' <= HeartbeatTimeout + (heartbeatMissed' + 1) * CheckInterval
    <2>1. NextTick = 0 /\ NextTick' = tickIn
      BY <1>1 DEF NextTick
    <2>2. silence + 0 <= HeartbeatTimeout + (heartbeatMissed + 1) * CheckInterval
      BY <1>1, <1>4, <2>1 DEF LoopInv, ChecksKeepUp
    <2> DEFINE x == (heartbeatMissed + 1) * CheckInterval
    <2>3. (heartbeatMissed' + 1) * CheckInterval = x + CheckInterval /\ x \in Nat
      <3>1. heartbeatMissed + 1 \in Nat
        BY <1>2
      <3> QED BY <3>1, <1>1, OneMore, DetectorConstants
    <2>4. silence \in Nat /\ tickIn \in 0 .. CheckInterval
      BY <1>4 DEF LoopInv, LoopTypeOK
    <2> HIDE DEF x
    <2>5. silence <= HeartbeatTimeout + x
      BY <2>2, <2>4 DEF x
    <2>6. silence + tickIn <= HeartbeatTimeout + (x + CheckInterval)
      BY <2>3, <2>4, <2>5, DetectorConstants
    <2> QED BY <2>1, <2>3, <2>6, <1>1
  <1> QED BY <1>1, <1>3, <1>4 DEF LoopInv, ChecksKeepUp

LEMMA LoopConfirms ==
    ASSUME LoopInv, ConfirmFailure \/ BlameMesh
    PROVE  LoopInv'
  <1>1. /\ heartbeatMissed' = 0 /\ consecutiveHeartbeatFailures' = 0
        /\ suspected' = TRUE /\ tickReady' = FALSE
        /\ UNCHANGED <<silence, tickIn>>
        /\ backoff' \in 0 .. MaxBackoff \/ backoff' = backoff
    BY DEF ConfirmFailure, BlameMesh, TakeTick, ResetCounters
  <1>0. 0 \in 0 .. MissLimit - 1
    BY DetectorConstants
  <1>2. LoopTypeOK'
    BY <1>0, <1>1 DEF LoopInv, LoopTypeOK
  <1> QED BY <1>1, <1>2 DEF LoopInv, ChecksKeepUp

LEMMA LoopReelection ==
    ASSUME LoopInv, StartReelection
    PROVE  LoopInv'
  <1>1. /\ backoff = 0 /\ backoff' = None
        /\ UNCHANGED <<silence, heartbeatMissed, consecutiveHeartbeatFailures, tickIn, tickReady, suspected>>
    BY DEF StartReelection, counters, tickVars
  <1>2. LoopTypeOK'
    BY <1>1 DEF LoopInv, LoopTypeOK
  <1>3. ASSUME ~ suspected, silence # None
        PROVE  silence' + NextTick' <= HeartbeatTimeout + (heartbeatMissed' + 1) * CheckInterval
    <2>1. silence \in Nat /\ silence + 0 <= MaxBackoff
      BY <1>1, <1>3 DEF LoopInv, LoopTypeOK, ChecksKeepUp, None
    <2>2. NextTick' \in 0 .. CheckInterval /\ heartbeatMissed' \in Nat
      BY <1>2, DetectorConstants DEF LoopTypeOK, NextTick
    <2>3. silence' \in Nat /\ silence' <= HeartbeatTimeout
      BY <1>1, <2>1, DetectorConstants
    <2> QED BY <2>2, <2>3, TimeLeft
  <1> QED BY <1>1, <1>2, <1>3 DEF LoopInv, ChecksKeepUp

LEMMA LoopSecond ==
    ASSUME LoopInv, Second
    PROVE  LoopInv'
  <1>1. /\ tickIn # 0 /\ ~ (tickReady /\ backoff = None) /\ backoff # 0
        /\ silence' = Longer(silence) /\ tickIn' = tickIn - 1 /\ backoff' = Sooner(backoff)
        /\ UNCHANGED <<heartbeatMissed, consecutiveHeartbeatFailures, tickReady, suspected>>
    BY DEF Second, Due, counters
  <1>2. /\ silence = None => silence' = None
        /\ silence # None => silence' \in Nat /\ silence' <= silence + 1
    BY <1>1 DEF Longer, LoopInv, LoopTypeOK, None
  <1>3. /\ backoff = None => backoff' = None
        /\ backoff # None => backoff' = backoff - 1 /\ backoff \in 1 .. MaxBackoff
    BY <1>1 DEF Sooner, LoopInv, LoopTypeOK
  <1>4. LoopTypeOK'
    BY <1>1, <1>2, <1>3, DetectorConstants DEF LoopInv, LoopTypeOK
  <1>5. ASSUME ~ suspected', silence' # None, backoff' = None
        PROVE  silence' + NextTick' <= HeartbeatTimeout + (heartbeatMissed' + 1) * CheckInterval
    <2>1. backoff = None /\ silence # None
      BY <1>2, <1>3, <1>5, DetectorConstants DEF None
    <2>2. NextTick = tickIn /\ NextTick' = tickIn - 1 /\ tickIn \in Nat
      BY <1>1, <2>1 DEF NextTick, LoopInv, LoopTypeOK
    <2> DEFINE x == HeartbeatTimeout + (heartbeatMissed + 1) * CheckInterval
    <2>3. silence + tickIn <= x
      BY <1>1, <1>5, <2>1, <2>2 DEF LoopInv, ChecksKeepUp
    <2>4. x \in Nat
      <3>1. heartbeatMissed \in Nat
        BY DetectorConstants DEF LoopInv, LoopTypeOK
      <3>2. (heartbeatMissed + 1) * CheckInterval \in Nat
        BY <3>1, OneMore, DetectorConstants
      <3> QED BY <3>2, DetectorConstants
    <2> HIDE DEF x
    <2>5. silence' + (tickIn - 1) <= x
      BY <2>1, <2>2, <2>3, <2>4, <1>2 DEF LoopInv, LoopTypeOK
    <2> QED BY <2>2, <2>5, <1>1 DEF x
  <1>6. ASSUME ~ suspected', silence' # None, backoff' # None
        PROVE  silence' + backoff' <= MaxBackoff
    <2>1. silence \in Nat /\ backoff \in Nat /\ silence + backoff <= MaxBackoff
      <3>1. silence # None /\ backoff # None /\ ~ suspected
        BY <1>1, <1>2, <1>3, <1>6
      <3>2. silence \in Nat /\ backoff \in 0 .. MaxBackoff
        BY <3>1 DEF LoopInv, LoopTypeOK
      <3>3. silence + backoff <= MaxBackoff
        BY <3>1 DEF LoopInv, ChecksKeepUp
      <3> QED BY <3>2, <3>3, DetectorConstants
    <2>2. silence' \in Nat /\ silence' <= silence + 1 /\ backoff' = backoff - 1
      BY <1>2, <1>3, <1>6
    <2>3. \A s, t, b, k \in Nat : t <= s + 1 /\ s + b <= k => t + (b - 1) <= k
      OBVIOUS
    <2>4. silence' + (backoff - 1) <= MaxBackoff
      BY <2>1, <2>2, <2>3, DetectorConstants
    <2> QED BY <2>2, <2>4
  <1> QED BY <1>4, <1>5, <1>6 DEF LoopInv, ChecksKeepUp

LEMMA LoopStep == LoopInv /\ [Next]_vars => LoopInv'
  <1> SUFFICES ASSUME LoopInv, [Next]_vars PROVE LoopInv'
    OBVIOUS
  <1>1. CASE UNCHANGED vars
    BY <1>1, LoopRests DEF vars, loopVars
  <1>2. CASE Coordinator
    BY <1>2, LoopRests DEF Coordinator, SendHeartbeat, loopVars
  <1>3. CASE Crash
    BY <1>3, LoopRests DEF Crash, loopVars
  <1>4. CASE Announcement
    BY <1>4, LoopHears DEF Announcement, CoordinatorAgain, OtherCoordinator, Announced
  <1>5. CASE Listener
    <2>1. PICK i \in Loops : HandleHeartbeat(i)
      BY <1>5 DEF Listener
    <2>2. CASE Allows(limiter)
      BY <2>1, <2>2, LoopHears DEF HandleHeartbeat
    <2>3. CASE ~ Allows(limiter)
      BY <2>1, <2>3, LoopRests DEF HandleHeartbeat, loopVars
    <2> QED BY <2>2, <2>3
  <1>6. CASE EndElection
    BY <1>6, LoopRests DEF EndElection, loopVars
  <1> QED BY <1>1, <1>2, <1>3, <1>4, <1>5, <1>6, LoopTicker, LoopFirstCheck, LoopInTime, LoopMiss, LoopConfirms,
             LoopReelection, LoopSecond DEF Next, Check

(***************************************************************************)
(* DetectedInTime (monitorCoordinator): a coordinator that is silent for   *)
(* longer than the timeout and as many checks as it may miss is            *)
(* suspected, whatever the periods and limits, if the backoff is no        *)
(* longer than the timeout.                                                *)
(***************************************************************************)
THEOREM FailuresAreDetected == Spec => []DetectedInTime
  <1>1. LoopInv => DetectedInTime
    <2> SUFFICES ASSUME LoopInv, silence > HeartbeatTimeout + MissLimit * CheckInterval, ~ suspected
                 PROVE  FALSE
      BY DEF DetectedInTime
    <2> DEFINE x == MissLimit * CheckInterval
               y == (heartbeatMissed + 1) * CheckInterval
    <2>1. heartbeatMissed + 1 \in Nat /\ heartbeatMissed + 1 <= MissLimit
      BY DetectorConstants DEF LoopInv, LoopTypeOK
    <2>2. y <= x /\ y \in Nat /\ x \in Nat
      BY <2>1, Monotone, DetectorConstants
    <2>3. silence > HeartbeatTimeout + x
      OBVIOUS
    <2>4. silence # None => /\ backoff = None => silence + NextTick <= HeartbeatTimeout + y
                            /\ backoff # None => silence + backoff <= MaxBackoff
      BY DEF LoopInv, ChecksKeepUp
    <2> HIDE DEF x, y
    <2>5. silence \in Nat
      BY <2>2, <2>3, DetectorConstants DEF LoopInv, LoopTypeOK, None
    <2>6. NextTick \in Nat /\ (backoff # None => backoff \in Nat)
      BY DetectorConstants DEF LoopInv, LoopTypeOK, NextTick
    <2> QED BY <2>2, <2>3, <2>4, <2>5, <2>6, DetectorConstants DEF None
  <1>2. LoopInv /\ [Next]_vars => LoopInv'
    BY LoopStep
  <1>3. Spec => []LoopInv
    BY DetectorInit, <1>2, PTL DEF Spec
  <1> QED BY <1>1, <1>3, PTL

-----------------------------------------------------------------------------
(* No false alarm.                                                         *)

(***************************************************************************)
(* The longest silence of a coordinator that runs: its next heartbeat may  *)
(* come too early for the limiter, as many more may be lost as the bound   *)
(* allows, and the one after these is late.                                *)
(***************************************************************************)
LongestSilence == MinInterval + (MaxLost + 1) * HeartbeatInterval + MaxDelay

(***************************************************************************)
(* The periods and limits under which a coordinator that runs is never     *)
(* given up.  Those of the code are (4 + 3 * 5 + 1 <= 15 + 2 * 3), if no   *)
(* more than two heartbeats in a row are lost, none is later than a        *)
(* second, and the coordinator runs no more than two heartbeat goroutines: *)
(* of three, the limiter refuses two for every one it passes, and bans the *)
(* coordinator.                                                            *)
(***************************************************************************)
Timely ==
    /\ MaxLoops <= 2 /\ BanThreshold >= 2
    /\ MinInterval + MaxDelay <= HeartbeatInterval
    /\ StartDelay <= MinInterval
    /\ LongestSilence <= HeartbeatTimeout + (MissLimit - 1) * CheckInterval
    /\ LongestSilence <= RecentWindow

(***************************************************************************)
(* Seconds to the next heartbeat that goroutine i may bring.               *)
(***************************************************************************)
NextHeartbeat(i) == IF flight[i] # None THEN flight[i] ELSE loops[i]

(***************************************************************************)
(* The limiter would refuse it.                                            *)
(***************************************************************************)
ComesEarly(i) == loops[i] # None /\ NextHeartbeat(i) + limiter.age < MinInterval

(***************************************************************************)
(* The heartbeats of one goroutine are far enough apart, even when one is  *)
(* late and the next is not.                                               *)
(***************************************************************************)
HeartbeatsSpaced ==
    /\ loops \in [Loops -> {None} \cup 0 .. StartDelay + HeartbeatInterval]
    /\ flight \in [Loops -> {None} \cup 0 .. MaxDelay]
    /\ loops[1] # None
    /\ \A i \in Loops : flight[i] # None =>
           loops[i] # None /\ flight[i] + MinInterval <= loops[i]

(***************************************************************************)
(* The limiter's records of a coordinator it bears with.                   *)
(***************************************************************************)
Tolerated == [age : 0 .. MinInterval + 1, violators : {0, 1}, banned : {FALSE}, ban : {0}]

(***************************************************************************)
(* The limiter refuses at most one heartbeat for every one it passes.      *)
(***************************************************************************)
FewRefused ==
    /\ limiter \in Tolerated
    /\ limiter.violators = 1 => \A i \in Loops : ~ ComesEarly(i)
    /\ \A i, j \in Loops : ComesEarly(i) /\ ComesEarly(j) => i = j

(***************************************************************************)
(* What the heartbeats that may still be lost in a row take.               *)
(***************************************************************************)
TimeOfLosses(n) == (MaxLost - n) * HeartbeatInterval

(***************************************************************************)
(* A heartbeat that will pass is under way, or the first goroutine sends   *)
(* one in time.                                                            *)
(***************************************************************************)
OneWillPass ==
    \/ \E i \in Loops : /\ flight[i] # None
                        /\ MinInterval <= silence + flight[i]
                        /\ silence + flight[i] <= LongestSilence
    \/ silence + loops[1] + TimeOfLosses(lost) + MaxDelay <= LongestSilence

SilenceLimited ==
    silence # None =>
        /\ silence <= limiter.age \/ MinInterval <= limiter.age
        /\ silence + loops[1] <= StartDelay + HeartbeatInterval \/ loops[1] <= HeartbeatInterval
        /\ OneWillPass

(***************************************************************************)
(* Misses in a row are checks apart: a tick that waited finds the          *)
(* coordinator in time.                                                    *)
(***************************************************************************)
Misses == IF tickReady THEN heartbeatMissed + 1 ELSE heartbeatMissed

MissesTakeTime ==
    /\ backoff # None => silence # None /\ silence + backoff <= MaxBackoff
    /\ tickReady /\ tickIn # CheckInterval => silence <= HeartbeatTimeout
    /\ heartbeatMissed > 0 =>
           HeartbeatTimeout + Misses * CheckInterval < silence + tickIn

AlarmInv ==
    /\ LoopInv
    /\ leader \in {"alive", "crashed"}
    /\ lost \in 0 .. MaxLost
    /\ leader = "alive" => HeartbeatsSpaced /\ FewRefused /\ SilenceLimited /\ MissesTakeTime

LEMMA HeartbeatConstants ==
    ASSUME Timely
    PROVE  /\ MinInterval \in Nat \ {0} /\ HeartbeatInterval \in Nat \ {0}
           /\ StartDelay \in Nat /\ MaxDelay \in Nat /\ MaxLost \in Nat
           /\ MinInterval + MaxDelay <= HeartbeatInterval /\ StartDelay <= MinInterval
           /\ BanThreshold \in Nat /\ BanThreshold >= 2
           /\ 1 \in Loops /\ Loops \subseteq {1, 2}
           /\ RecentWindow \in Nat
  <1>1. /\ MinInterval \in Nat \ {0} /\ HeartbeatInterval \in Nat \ {0}
        /\ StartDelay \in Nat /\ MaxLost \in Nat /\ BanThreshold \in Nat
        /\ RecentWindow \in Nat /\ MaxLoops \in Nat \ {0}
    BY DetectorAssumption, LimiterAssumption
  <1>2. MaxDelay \in Nat
    BY <1>1, DetectorAssumption
  <1>3. /\ MinInterval + MaxDelay <= HeartbeatInterval /\ StartDelay <= MinInterval
        /\ BanThreshold >= 2 /\ MaxLoops <= 2
    BY DEF Timely
  <1>4. 1 \in Loops /\ Loops \subseteq {1, 2}
    BY <1>1, <1>3 DEF Loops
  <1> QED BY <1>1, <1>2, <1>3, <1>4

LEMMA Losses ==
    ASSUME Timely, NEW n \in 0 .. MaxLost
    PROVE  /\ TimeOfLosses(n) \in Nat
           /\ n < MaxLost => TimeOfLosses(n) = TimeOfLosses(n + 1) + HeartbeatInterval
           /\ TimeOfLosses(n) <= TimeOfLosses(0)
           /\ LongestSilence = MinInterval + HeartbeatInterval + TimeOfLosses(0) + MaxDelay
  <1>1. n \in Nat /\ MaxLost - n \in Nat /\ MaxLost \in Nat /\ HeartbeatInterval \in Nat
    BY HeartbeatConstants
  <1>2. TimeOfLosses(n) \in Nat
    <2>1. (MaxLost - n) * HeartbeatInterval \in Nat
      BY <1>1, OneMore
    <2> QED BY <2>1 DEF TimeOfLosses
  <1>3. ASSUME n < MaxLost PROVE TimeOfLosses(n) = TimeOfLosses(n + 1) + HeartbeatInterval
    <2>1. MaxLost - (n + 1) \in Nat /\ MaxLost - n = (MaxLost - (n + 1)) + 1
      BY <1>1, <1>3
    <2>2. (MaxLost - n) * HeartbeatInterval = (MaxLost - (n + 1)) * HeartbeatInterval + HeartbeatInterval
      BY ONLY <1>1, <2>1, OneMore
    <2> QED BY <2>2 DEF TimeOfLosses
  <1>4. TimeOfLosses(n) <= TimeOfLosses(0)
    <2>1. MaxLost - n <= MaxLost - 0 /\ MaxLost - 0 \in Nat
      BY <1>1
    <2> QED BY <1>1, <2>1, Monotone DEF TimeOfLosses
  <1>5. LongestSilence = MinInterval + HeartbeatInterval + TimeOfLosses(0) + MaxDelay
    <2>1. TimeOfLosses(0) = MaxLost * HeartbeatInterval
      BY <1>1 DEF TimeOfLosses
    <2>2. (MaxLost + 1) * HeartbeatInterval = MaxLost * HeartbeatInterval + HeartbeatInterval
          /\ MaxLost * HeartbeatInterval \in Nat
      BY <1>1, OneMore
    <2> DEFINE x == MaxLost * HeartbeatInterval
               y == (MaxLost + 1) * HeartbeatInterval
    <2>3. x \in Nat /\ y = x + HeartbeatInterval /\ TimeOfLosses(0) = x /\ LongestSilence = MinInterval + y + MaxDelay
      BY <2>1, <2>2 DEF LongestSilence
    <2> HIDE DEF x, y
    <2> QED BY <1>1, <2>3, HeartbeatConstants
  <1> QED BY <1>2, <1>3, <1>4, <1>5

(***************************************************************************)
(* The heartbeats and the limiter.                                         *)
(***************************************************************************)
LEMMA LimiterFields ==
    ASSUME FewRefused
    PROVE  /\ limiter.age \in 0 .. MinInterval + 1 /\ limiter.violators \in {0, 1}
           /\ limiter.banned = FALSE /\ limiter.ban = 0
  BY DEF FewRefused, Tolerated

LEMMA SendSpaced ==
    ASSUME Timely, HeartbeatsSpaced, FewRefused, NEW i \in Loops, SendHeartbeat(i)
    PROVE  HeartbeatsSpaced' /\ FewRefused'
  <1>1. /\ loops[i] = 0 /\ loops' = [loops EXCEPT ![i] = HeartbeatInterval]
        /\ limiter' = limiter
        /\ \/ flight' = flight
           \/ \E d \in 0 .. MaxDelay : flight' = [flight EXCEPT ![i] = d]
    BY DEF SendHeartbeat
  <1>2. flight[i] = None
    BY <1>1, HeartbeatConstants DEF HeartbeatsSpaced, None
  <1>3. HeartbeatsSpaced'
    <2>1. loops' \in [Loops -> {None} \cup 0 .. StartDelay + HeartbeatInterval]
      BY <1>1, HeartbeatConstants DEF HeartbeatsSpaced
    <2>2. flight' \in [Loops -> {None} \cup 0 .. MaxDelay]
      BY <1>1 DEF HeartbeatsSpaced
    <2>3. loops'[1] # None
      BY <1>1, HeartbeatConstants DEF HeartbeatsSpaced, None
    <2>4. ASSUME NEW j \in Loops, flight'[j] # None
          PROVE  loops'[j] # None /\ flight'[j] + MinInterval <= loops'[j]
      <3>1. CASE j = i
        <4>1. loops'[j] = HeartbeatInterval
          BY <3>1, <1>1 DEF HeartbeatsSpaced
        <4>2. flight'[j] \in 0 .. MaxDelay
          BY <2>2, <2>4
        <4> QED BY <4>1, <4>2, HeartbeatConstants DEF None
      <3>2. CASE j # i
        <4>1. loops'[j] = loops[j] /\ flight'[j] = flight[j]
          BY <3>2, <1>1 DEF HeartbeatsSpaced
        <4> QED BY <4>1, <2>4 DEF HeartbeatsSpaced
      <3> QED BY <3>1, <3>2
    <2> QED BY <2>1, <2>2, <2>3, <2>4 DEF HeartbeatsSpaced
  <1>4. \A j \in Loops : ComesEarly(j)' => ComesEarly(j)
    <2>1. SUFFICES ASSUME NEW j \in Loops, ComesEarly(j)' PROVE ComesEarly(j)
      OBVIOUS
    <2>2. CASE j # i
      <3>1. loops'[j] = loops[j] /\ flight'[j] = flight[j]
        BY <2>2, <1>1 DEF HeartbeatsSpaced
      <3> QED BY <3>1, <2>1, <1>1 DEF ComesEarly, NextHeartbeat
    <2>3. CASE j = i
      <3>1. loops'[i] = HeartbeatInterval /\ (flight'[i] = None \/ flight'[i] \in 0 .. MaxDelay)
        BY <1>1, <1>2 DEF HeartbeatsSpaced
      <3>2. NextHeartbeat(i)' \in Nat /\ NextHeartbeat(i) = 0
        BY <3>1, <1>1, <1>2, HeartbeatConstants DEF NextHeartbeat
      <3>3. NextHeartbeat(i)' + limiter.age < MinInterval /\ limiter.age \in Nat
        BY <2>1, <2>3, <1>1, HeartbeatConstants, LimiterFields DEF ComesEarly
      <3>4. NextHeartbeat(i) + limiter.age < MinInterval
        BY <3>2, <3>3, HeartbeatConstants
      <3> QED BY <3>4, <2>3, <1>1 DEF ComesEarly, None
    <2> QED BY <2>2, <2>3
  <1> QED BY <1>1, <1>3, <1>4 DEF FewRefused

LEMMA AgainSpaced ==
    ASSUME Timely, HeartbeatsSpaced, FewRefused, CoordinatorAgain
    PROVE  HeartbeatsSpaced' /\ FewRefused'
  <1>1. PICK i \in Loops : loops[i] = None /\ loops' = [loops EXCEPT ![i] = StartDelay + HeartbeatInterval]
    BY DEF CoordinatorAgain
  <1>2. flight' = flight /\ limiter' = limiter /\ flight[i] = None
    BY <1>1 DEF CoordinatorAgain, HeartbeatsSpaced
  <1>3. /\ loops'[i] = StartDelay + HeartbeatInterval
        /\ \A j \in Loops : j # i => loops'[j] = loops[j]
    BY <1>1 DEF HeartbeatsSpaced
  <1>4. i # 1
    BY <1>1 DEF HeartbeatsSpaced
  <1>5. HeartbeatsSpaced'
    <2>1. loops' \in [Loops -> {None} \cup 0 .. StartDelay + HeartbeatInterval]
      BY <1>1, HeartbeatConstants DEF HeartbeatsSpaced
    <2> QED BY <2>1, <1>2, <1>3, <1>4, HeartbeatConstants DEF HeartbeatsSpaced
  <1>6. \A j \in Loops : ComesEarly(j)' => ComesEarly(j)
    <2>1. SUFFICES ASSUME NEW j \in Loops, ComesEarly(j)' PROVE ComesEarly(j)
      OBVIOUS
    <2>2. CASE j # i
      BY <2>1, <2>2, <1>2, <1>3 DEF ComesEarly, NextHeartbeat
    <2>3. CASE j = i
      <3>1. NextHeartbeat(i)' = StartDelay + HeartbeatInterval /\ limiter' = limiter
        BY <1>2, <1>3 DEF NextHeartbeat
      <3>2. limiter.age \in Nat
        BY HeartbeatConstants, LimiterFields
      <3> QED BY <2>1, <2>3, <3>1, <3>2, HeartbeatConstants DEF ComesEarly
    <2> QED BY <2>2, <2>3
  <1> QED BY <1>2, <1>5, <1>6 DEF FewRefused

LEMMA OtherSpaced ==
    ASSUME Timely, OtherCoordinator
    PROVE  HeartbeatsSpaced' /\ FewRefused'
  <1>1. /\ loops' = [i \in Loops |-> IF i = 1 THEN StartDelay + HeartbeatInterval ELSE None]
        /\ flight' = [i \in Loops |-> None]
        /\ limiter' = [age |-> MinInterval + 1, violators |-> 0, banned |-> FALSE, ban |-> 0]
    BY DEF OtherCoordinator, FirstLoop, NothingSent, FreshLimiter
  <1>2. HeartbeatsSpaced'
    <2>1. loops' \in [Loops -> {None} \cup 0 .. StartDelay + HeartbeatInterval]
      BY <1>1, HeartbeatConstants
    <2>2. flight' \in [Loops -> {None} \cup 0 .. MaxDelay]
      BY <1>1
    <2> QED BY <2>1, <2>2, <1>1, HeartbeatConstants DEF HeartbeatsSpaced, None
  <1>3. \A j \in Loops : ~ ComesEarly(j)'
    <2>1. SUFFICES ASSUME NEW j \in Loops, loops'[j] # None PROVE ~ (NextHeartbeat(j)' + limiter'.age < MinInterval)
      BY DEF ComesEarly
    <2>2. NextHeartbeat(j)' \in Nat /\ limiter'.age = MinInterval + 1
      BY <2>1, <1>1, HeartbeatConstants DEF NextHeartbeat
    <2> QED BY <2>2, HeartbeatConstants
  <1> QED BY <1>1, <1>2, <1>3, HeartbeatConstants DEF FewRefused, Tolerated

(***************************************************************************)
(* A heartbeat of a coordinator the limiter did not ban passes if it is    *)
(* not early; the first early one is refused, and there is no second.      *)
(***************************************************************************)
LEMMA LimiterSteps ==
    ASSUME Timely, FewRefused
    PROVE  /\ Allows(limiter) <=> limiter.age >= MinInterval
           /\ Allows(limiter) => /\ AllowMessage(limiter) \in Tolerated
                                 /\ AllowMessage(limiter).age = 0
                                 /\ AllowMessage(limiter).violators = 0
           /\ ~ Allows(limiter) /\ limiter.violators = 0 =>
                /\ AllowMessage(limiter) \in Tolerated
                /\ AllowMessage(limiter).age = limiter.age
                /\ AllowMessage(limiter).violators = 1
  <1>1. limiter \in Tolerated
    BY DEF FewRefused
  <1>2. limiter.age \in Nat /\ limiter.violators \in {0, 1} /\ limiter.banned = FALSE
    <2>1. limiter.age \in 0 .. MinInterval + 1 /\ limiter.violators \in {0, 1} /\ limiter.banned = FALSE
      BY LimiterFields
    <2> QED BY <2>1, HeartbeatConstants
  <1>3. Cleared(limiter) = limiter
    BY <1>2 DEF Cleared
  <1>4. Allows(limiter) <=> limiter.age >= MinInterval
    BY <1>2, <1>3 DEF Allows
  <1>5. ASSUME Allows(limiter)
        PROVE  /\ AllowMessage(limiter) \in Tolerated
               /\ AllowMessage(limiter).age = 0 /\ AllowMessage(limiter).violators = 0
    <2> DEFINE forgiven == IF limiter.violators > 0 THEN limiter.violators - 1 ELSE 0
    <2>1. AllowMessage(limiter) = [limiter EXCEPT !.age = 0, !.violators = forgiven]
      BY <1>3, <1>5 DEF AllowMessage, Passed
    <2>2. forgiven = 0
      BY <1>2
    <2>3. AllowMessage(limiter) = [limiter EXCEPT !.age = 0, !.violators = 0]
      BY <2>1, <2>2, Zenon
    <2>4. [limiter EXCEPT !.age = 0, !.violators = 0] \in Tolerated
      <3>1. 0 \in 0 .. MinInterval + 1 /\ 0 \in {0, 1}
        BY HeartbeatConstants
      <3> QED BY <1>1, <3>1 DEF Tolerated
    <2>5. /\ [limiter EXCEPT !.age = 0, !.violators = 0].age = 0
          /\ [limiter EXCEPT !.age = 0, !.violators = 0].violators = 0
      BY <1>1 DEF Tolerated
    <2> QED BY <2>3, <2>4, <2>5
  <1>6. ASSUME ~ Allows(limiter), limiter.violators = 0
        PROVE  /\ AllowMessage(limiter) \in Tolerated
               /\ AllowMessage(limiter).age = limiter.age /\ AllowMessage(limiter).violators = 1
    <2>1. AllowMessage(limiter) = Refused(limiter)
      BY <1>6 DEF AllowMessage
    <2> DEFINE more == limiter.violators + 1
    <2>2. Refused(limiter) = [limiter EXCEPT !.violators = more]
      BY <1>2, <1>3, <1>6, HeartbeatConstants DEF Refused
    <2>3. more = 1
      BY <1>6
    <2> HIDE DEF more
    <2> QED BY <2>1, <2>2, <2>3, <1>1 DEF Tolerated
  <1> QED BY <1>4, <1>5, <1>6

LEMMA ListenerSpaced ==
    ASSUME Timely, HeartbeatsSpaced, FewRefused, NEW i \in Loops, HandleHeartbeat(i)
    PROVE  /\ HeartbeatsSpaced' /\ FewRefused'
           /\ ~ Allows(limiter) => limiter'.age = limiter.age /\ limiter.age < MinInterval
  <1>1. /\ flight[i] = 0 /\ flight' = [flight EXCEPT ![i] = None]
        /\ loops' = loops /\ limiter' = AllowMessage(limiter)
    BY DEF HandleHeartbeat
  <1>2. loops[i] \in Nat /\ loops[i] >= MinInterval /\ loops[i] # None
    <2>1. loops[i] # None /\ flight[i] + MinInterval <= loops[i]
      BY <1>1 DEF HeartbeatsSpaced, None
    <2>2. loops[i] \in Nat
      BY <2>1, HeartbeatConstants DEF HeartbeatsSpaced
    <2> QED BY <1>1, <2>1, <2>2, HeartbeatConstants
  <1>3. flight'[i] = None /\ \A j \in Loops : j # i => flight'[j] = flight[j]
    BY <1>1 DEF HeartbeatsSpaced
  <1>4. HeartbeatsSpaced'
    <2>1. flight' \in [Loops -> {None} \cup 0 .. MaxDelay]
      BY <1>1 DEF HeartbeatsSpaced
    <2> QED BY <2>1, <1>1, <1>3 DEF HeartbeatsSpaced
  <1>5. NextHeartbeat(i)' = loops[i] /\ NextHeartbeat(i) = 0
        /\ \A j \in Loops : j # i => NextHeartbeat(j)' = NextHeartbeat(j)
    BY <1>1, <1>3 DEF NextHeartbeat, None
  <1>6. limiter.age \in Nat /\ limiter.violators \in {0, 1}
    BY HeartbeatConstants, LimiterFields
  <1>7. CASE Allows(limiter)
    <2>1. limiter' \in Tolerated /\ limiter'.age = 0 /\ limiter'.violators = 0
      BY <1>1, <1>7, LimiterSteps
    <2>2. ~ ComesEarly(i)'
      BY <2>1, <1>2, <1>5, HeartbeatConstants DEF ComesEarly
    <2>3. \A j, k \in Loops : j # i /\ k # i => j = k
      BY HeartbeatConstants
    <2>4. \A j, k \in Loops : ComesEarly(j)' /\ ComesEarly(k)' => j = k
      BY <2>2, <2>3
    <2> QED BY <2>1, <2>4, <1>4, <1>7, HeartbeatConstants DEF FewRefused
  <1>8. CASE ~ Allows(limiter)
    <2>1. limiter.age < MinInterval
      BY <1>6, <1>8, LimiterSteps, HeartbeatConstants
    <2>2. ComesEarly(i)
      BY <2>1, <1>2, <1>5, <1>6 DEF ComesEarly
    <2>3. limiter.violators = 0
      BY <2>2, <1>6 DEF FewRefused
    <2>4. limiter' \in Tolerated /\ limiter'.age = limiter.age /\ limiter'.violators = 1
      BY <2>3, <1>1, <1>8, LimiterSteps
    <2>5. ~ ComesEarly(i)'
      BY <2>4, <1>2, <1>5, <1>6, HeartbeatConstants DEF ComesEarly
    <2>6. ASSUME NEW j \in Loops, j # i PROVE ~ ComesEarly(j)'
      <3>1. ~ ComesEarly(j)
        BY <2>2, <2>6 DEF FewRefused
      <3>2. loops'[j] = loops[j] /\ NextHeartbeat(j)' = NextHeartbeat(j) /\ limiter'.age = limiter.age
        BY <2>4, <2>6, <1>1, <1>5
      <3> QED BY <3>1, <3>2 DEF ComesEarly
    <2>7. limiter' \in Tolerated
      BY <2>4 DEF FewRefused
    <2>8. \A j \in Loops : ~ ComesEarly(j)'
      BY <2>5, <2>6
    <2> QED BY <2>1, <2>4, <2>7, <2>8, <1>4, <1>8 DEF FewRefused
  <1> QED BY <1>7, <1>8

LEMMA SecondSpaced ==
    ASSUME Timely, HeartbeatsSpaced, FewRefused, Second
    PROVE  HeartbeatsSpaced' /\ FewRefused'
  <1>1. /\ \A i \in Loops : loops[i] # 0 /\ flight[i] # 0
        /\ loops' = [i \in Loops |-> Sooner(loops[i])]
        /\ flight' = [i \in Loops |-> Sooner(flight[i])]
        /\ limiter' = Aged(limiter)
    BY DEF Second, Due
  <1>2. ASSUME NEW i \in Loops
        PROVE  /\ loops[i] = None => loops'[i] = None
               /\ loops[i] # None => /\ loops[i] \in 1 .. StartDelay + HeartbeatInterval
                                     /\ loops'[i] = loops[i] - 1 /\ loops'[i] # None
               /\ flight[i] = None => flight'[i] = None
               /\ flight[i] # None => /\ flight[i] \in 1 .. MaxDelay
                                      /\ flight'[i] = flight[i] - 1 /\ flight'[i] # None
    <2>1. loops[i] \in {None} \cup 0 .. StartDelay + HeartbeatInterval /\ loops[i] # 0
      BY <1>1 DEF HeartbeatsSpaced
    <2>2. flight[i] \in {None} \cup 0 .. MaxDelay /\ flight[i] # 0
      BY <1>1 DEF HeartbeatsSpaced
    <2>3. loops'[i] = Sooner(loops[i]) /\ flight'[i] = Sooner(flight[i])
      BY <1>1
    <2> QED BY <2>1, <2>2, <2>3, HeartbeatConstants DEF Sooner, None
  <1>3. HeartbeatsSpaced'
    <2>1. loops' \in [Loops -> {None} \cup 0 .. StartDelay + HeartbeatInterval]
      <3>1. \A i \in Loops : loops'[i] \in {None} \cup 0 .. StartDelay + HeartbeatInterval
        BY <1>2, HeartbeatConstants
      <3> QED BY <3>1, <1>1
    <2>2. flight' \in [Loops -> {None} \cup 0 .. MaxDelay]
      <3>1. \A i \in Loops : flight'[i] \in {None} \cup 0 .. MaxDelay
        BY <1>2, HeartbeatConstants
      <3> QED BY <3>1, <1>1
    <2>3. loops'[1] # None
      BY <1>2, HeartbeatConstants DEF HeartbeatsSpaced
    <2>4. ASSUME NEW i \in Loops, flight'[i] # None
          PROVE  loops'[i] # None /\ flight'[i] + MinInterval <= loops'[i]
      <3>1. flight[i] # None /\ loops[i] # None /\ flight[i] + MinInterval <= loops[i]
        BY <1>2, <2>4 DEF HeartbeatsSpaced
      <3> QED BY <3>1, <1>2, HeartbeatConstants
    <2> QED BY <2>1, <2>2, <2>3, <2>4 DEF HeartbeatsSpaced
  <1>4. /\ limiter \in Tolerated /\ limiter.age \in 0 .. MinInterval + 1
        /\ limiter.violators \in {0, 1} /\ limiter.ban = 0
    BY LimiterFields DEF FewRefused
  <1>5. /\ limiter' \in Tolerated /\ limiter'.violators = limiter.violators
        /\ limiter'.age = IF limiter.age <= MinInterval THEN limiter.age + 1 ELSE limiter.age
    <2> DEFINE older == IF limiter.age <= MinInterval THEN limiter.age + 1 ELSE limiter.age
    <2>1. Aged(limiter) = [limiter EXCEPT !.age = older, !.ban = 0]
      BY <1>4 DEF Aged
    <2>2. older \in 0 .. MinInterval + 1
      BY <1>4, HeartbeatConstants
    <2> HIDE DEF older
    <2>3. limiter' \in Tolerated /\ limiter'.violators = limiter.violators /\ limiter'.age = older
      BY <2>1, <2>2, <1>1, <1>4 DEF Tolerated
    <2> QED BY <2>3 DEF older
  <1>6. ASSUME NEW i \in Loops, ComesEarly(i)' PROVE ComesEarly(i)
    <2>1. loops[i] # None /\ NextHeartbeat(i)' = NextHeartbeat(i) - 1 /\ NextHeartbeat(i) \in Int
      BY <1>2, <1>6, HeartbeatConstants DEF ComesEarly, NextHeartbeat
    <2>2. NextHeartbeat(i)' + limiter'.age < MinInterval
      BY <1>6 DEF ComesEarly
    <2>3. NextHeartbeat(i)' \in Nat
      BY <1>2, <1>6, HeartbeatConstants DEF ComesEarly, NextHeartbeat
    <2>4. limiter'.age = limiter.age + 1
      BY <1>4, <1>5, <2>2, <2>3, HeartbeatConstants
    <2> QED BY <2>1, <2>2, <2>4, <1>4, HeartbeatConstants DEF ComesEarly
  <1> QED BY <1>3, <1>5, <1>6 DEF FewRefused

(***************************************************************************)
(* The silence.                                                            *)
(***************************************************************************)
LEMMA SilenceTypes ==
    ASSUME Timely, AlarmInv
    PROVE  /\ silence \in {None} \cup Nat /\ lost \in 0 .. MaxLost
           /\ leader = "alive" =>
                /\ loops[1] \in 0 .. StartDelay + HeartbeatInterval
                /\ limiter.age \in Nat
                /\ silence # None => silence <= LongestSilence
  <1>1. silence \in {None} \cup Nat /\ lost \in 0 .. MaxLost
    BY DEF AlarmInv, LoopInv, LoopTypeOK
  <1>2. ASSUME leader = "alive"
        PROVE  /\ loops[1] \in 0 .. StartDelay + HeartbeatInterval
               /\ limiter.age \in Nat
               /\ silence # None => silence <= LongestSilence
    <2>1. HeartbeatsSpaced /\ FewRefused /\ SilenceLimited
      BY <1>2 DEF AlarmInv
    <2>2. loops[1] \in 0 .. StartDelay + HeartbeatInterval
      BY <2>1, HeartbeatConstants DEF HeartbeatsSpaced
    <2>3. limiter.age \in Nat
      <3>1. limiter.age \in 0 .. MinInterval + 1
        BY <2>1, LimiterFields
      <3> QED BY <3>1, HeartbeatConstants
    <2>4. ASSUME silence # None PROVE silence <= LongestSilence
      <3>1. silence \in Nat /\ TimeOfLosses(lost) \in Nat
        BY <1>1, <2>4, Losses
      <3>2. LongestSilence \in Int
        <4>1. 0 \in 0 .. MaxLost
          BY HeartbeatConstants
        <4> QED BY <4>1, Losses, HeartbeatConstants
      <3>3. CASE \E i \in Loops : /\ flight[i] # None
                                  /\ MinInterval <= silence + flight[i]
                                  /\ silence + flight[i] <= LongestSilence
        <4>1. PICK i \in Loops : flight[i] # None /\ silence + flight[i] <= LongestSilence
          BY <3>3
        <4>2. flight[i] \in Nat
          BY <4>1, <2>1, HeartbeatConstants DEF HeartbeatsSpaced
        <4> QED BY <4>1, <4>2, <3>1, <3>2
      <3>4. CASE silence + loops[1] + TimeOfLosses(lost) + MaxDelay <= LongestSilence
        BY <3>4, <3>1, <3>2, <2>2, HeartbeatConstants
      <3> QED BY <3>3, <3>4, <2>1, <2>4 DEF SilenceLimited, OneWillPass
    <2> QED BY <2>2, <2>3, <2>4
  <1> QED BY <1>1, <1>2

(***************************************************************************)
(* A silence that begins.                                                  *)
(***************************************************************************)
LEMMA SilenceBegins ==
    ASSUME Timely, silence' = 0, lost' \in 0 .. MaxLost, limiter'.age \in Nat,
           loops'[1] \in 0 .. StartDelay + HeartbeatInterval
    PROVE  SilenceLimited'
  <1>1. TimeOfLosses(lost') \in Nat /\ TimeOfLosses(lost') <= TimeOfLosses(0) /\ TimeOfLosses(0) \in Nat
    <2>1. 0 \in 0 .. MaxLost
      BY HeartbeatConstants
    <2> QED BY <2>1, Losses
  <1>2. LongestSilence = MinInterval + HeartbeatInterval + TimeOfLosses(0) + MaxDelay
    BY Losses
  <1>3. TimeOfLosses(lost)' = TimeOfLosses(lost')
    BY DEF TimeOfLosses
  <1>4. silence' + loops'[1] + TimeOfLosses(lost') + MaxDelay <= LongestSilence
    BY <1>1, <1>2, HeartbeatConstants
  <1>5. OneWillPass'
    BY <1>3, <1>4 DEF OneWillPass
  <1>6. silence' <= limiter'.age /\ silence' + loops'[1] <= StartDelay + HeartbeatInterval
    BY HeartbeatConstants
  <1> QED BY <1>5, <1>6 DEF SilenceLimited

LEMMA SendLimited ==
    ASSUME Timely, AlarmInv, leader = "alive", NEW i \in Loops, SendHeartbeat(i)
    PROVE  SilenceLimited'
  <1>1. /\ loops[i] = 0 /\ loops' = [loops EXCEPT ![i] = HeartbeatInterval]
        /\ UNCHANGED <<limiter, silence>>
        /\ \/ lost < MaxLost /\ lost' = lost + 1 /\ flight' = flight
           \/ lost' = 0 /\ \E d \in 0 .. MaxDelay : flight' = [flight EXCEPT ![i] = d]
    BY DEF SendHeartbeat
  <1>2. /\ HeartbeatsSpaced /\ SilenceLimited
        /\ silence \in {None} \cup Nat /\ lost \in 0 .. MaxLost
        /\ loops[1] \in 0 .. StartDelay + HeartbeatInterval
    BY SilenceTypes DEF AlarmInv
  <1> SUFFICES ASSUME silence # None PROVE SilenceLimited'
    BY <1>1 DEF SilenceLimited
  <1>3. /\ silence \in Nat
        /\ silence <= limiter.age \/ MinInterval <= limiter.age
        /\ silence + loops[1] <= StartDelay + HeartbeatInterval \/ loops[1] <= HeartbeatInterval
        /\ OneWillPass
    BY <1>2 DEF SilenceLimited
  <1>4. loops'[1] = loops[1] \/ (i = 1 /\ loops'[1] = HeartbeatInterval)
    BY <1>1, HeartbeatConstants DEF HeartbeatsSpaced
  <1>5. silence + loops'[1] <= StartDelay + HeartbeatInterval \/ loops'[1] <= HeartbeatInterval
    BY <1>3, <1>4, HeartbeatConstants
  <1>6. OneWillPass'
    <2>1. CASE \E k \in Loops : /\ flight[k] # None
                                /\ MinInterval <= silence + flight[k]
                                /\ silence + flight[k] <= LongestSilence
      <3>1. PICK k \in Loops : /\ flight[k] # None
                               /\ MinInterval <= silence + flight[k]
                               /\ silence + flight[k] <= LongestSilence
        BY <2>1
      <3>2. flight[k] \in Nat /\ flight[k] + MinInterval <= loops[k]
        BY <1>2, <3>1, HeartbeatConstants DEF HeartbeatsSpaced
      <3>3. k # i
        BY <3>2, <1>1, HeartbeatConstants
      <3>4. flight'[k] = flight[k]
        BY <3>3, <1>1, <1>2 DEF HeartbeatsSpaced
      <3> QED BY <3>1, <3>4, <1>1 DEF OneWillPass
    <2>2. CASE silence + loops[1] + TimeOfLosses(lost) + MaxDelay <= LongestSilence
      <3>0. /\ TimeOfLosses(lost) \in Nat /\ TimeOfLosses(0) \in Nat
            /\ LongestSilence = MinInterval + HeartbeatInterval + TimeOfLosses(0) + MaxDelay
        <4>1. 0 \in 0 .. MaxLost
          BY HeartbeatConstants
        <4> QED BY <4>1, <1>2, Losses
      <3>1. CASE lost < MaxLost /\ lost' = lost + 1 /\ flight' = flight
        <4>1. /\ TimeOfLosses(lost) = TimeOfLosses(lost + 1) + HeartbeatInterval
              /\ TimeOfLosses(lost)' = TimeOfLosses(lost + 1) /\ TimeOfLosses(lost + 1) \in Nat
          <5>1. lost + 1 \in 0 .. MaxLost
            BY <3>1, <1>2, HeartbeatConstants
          <5> QED BY <5>1, <3>1, <1>2, Losses DEF TimeOfLosses
        <4>2. silence' + loops'[1] + TimeOfLosses(lost)' + MaxDelay <= LongestSilence
          BY <4>1, <3>0, <2>2, <1>1, <1>2, <1>3, <1>4, HeartbeatConstants
        <4> QED BY <4>2 DEF OneWillPass
      <3>2. CASE lost' = 0 /\ \E d \in 0 .. MaxDelay : flight' = [flight EXCEPT ![i] = d]
        <4>1. PICK d \in 0 .. MaxDelay : flight' = [flight EXCEPT ![i] = d]
          BY <3>2
        <4>2. flight'[i] = d /\ d \in Nat /\ d <= MaxDelay
          BY <4>1, <1>2, HeartbeatConstants DEF HeartbeatsSpaced
        <4>3. CASE MinInterval <= silence + d
          <5>1. silence + d <= LongestSilence
            BY <4>2, <3>0, <2>2, <1>2, <1>3, HeartbeatConstants
          <5> QED BY <5>1, <4>2, <4>3, <1>1 DEF OneWillPass, None
        <4>4. CASE ~ (MinInterval <= silence + d)
          <5>1. silence < MinInterval
            BY <4>2, <4>4, <1>3, HeartbeatConstants
          <5>2. loops'[1] \in Nat /\ silence + loops'[1] <= MinInterval + HeartbeatInterval
            BY <5>1, <1>2, <1>3, <1>4, <1>5, HeartbeatConstants
          <5>3. TimeOfLosses(lost)' = TimeOfLosses(0)
            BY <3>2 DEF TimeOfLosses
          <5>4. silence' + loops'[1] + TimeOfLosses(lost)' + MaxDelay <= LongestSilence
            BY <5>2, <5>3, <3>0, <1>1, <1>3, HeartbeatConstants
          <5> QED BY <5>4 DEF OneWillPass
        <4> QED BY <4>3, <4>4
      <3> QED BY <3>1, <3>2, <1>1
    <2> QED BY <2>1, <2>2, <1>3 DEF OneWillPass
  <1> QED BY <1>1, <1>3, <1>5, <1>6 DEF SilenceLimited

LEMMA ListenerLimited ==
    ASSUME Timely, AlarmInv, leader = "alive", NEW i \in Loops, HandleHeartbeat(i)
    PROVE  SilenceLimited'
  <1>1. /\ flight[i] = 0 /\ flight' = [flight EXCEPT ![i] = None]
        /\ UNCHANGED <<loops, lost>>
        /\ Allows(limiter) => silence' = 0
        /\ ~ Allows(limiter) => silence' = silence
    BY DEF HandleHeartbeat, HeardOfLeader
  <1>2. /\ HeartbeatsSpaced /\ FewRefused /\ SilenceLimited
        /\ silence \in {None} \cup Nat /\ lost \in 0 .. MaxLost
        /\ loops[1] \in 0 .. StartDelay + HeartbeatInterval
        /\ limiter.age \in Nat
    BY SilenceTypes DEF AlarmInv
  <1>3. FewRefused' /\ (~ Allows(limiter) => limiter'.age = limiter.age /\ limiter.age < MinInterval)
    BY <1>2, ListenerSpaced
  <1>4. CASE Allows(limiter)
    <2>1. limiter'.age \in Nat
      <3>1. limiter'.age \in 0 .. MinInterval + 1
        BY <1>3 DEF FewRefused, Tolerated
      <3> QED BY <3>1, HeartbeatConstants
    <2> QED BY <2>1, <1>1, <1>2, <1>4, SilenceBegins
  <1>5. CASE ~ Allows(limiter)
    <2> SUFFICES ASSUME silence # None PROVE SilenceLimited'
      BY <1>1, <1>5 DEF SilenceLimited
    <2>1. silence \in Nat /\ silence <= limiter.age /\ silence < MinInterval
      BY <1>2, <1>3, <1>5, HeartbeatConstants DEF SilenceLimited
    <2>2. OneWillPass'
      <3>1. CASE \E k \in Loops : /\ flight[k] # None
                                  /\ MinInterval <= silence + flight[k]
                                  /\ silence + flight[k] <= LongestSilence
        <4>1. PICK k \in Loops : /\ flight[k] # None
                                 /\ MinInterval <= silence + flight[k]
                                 /\ silence + flight[k] <= LongestSilence
          BY <3>1
        <4>2. k # i
          BY <4>1, <2>1, <1>1, HeartbeatConstants
        <4>3. flight'[k] = flight[k]
          BY <4>2, <1>1, <1>2 DEF HeartbeatsSpaced
        <4> QED BY <4>1, <4>3, <1>1, <1>5 DEF OneWillPass
      <3>2. CASE silence + loops[1] + TimeOfLosses(lost) + MaxDelay <= LongestSilence
        BY <3>2, <1>1, <1>5 DEF OneWillPass, TimeOfLosses
      <3> QED BY <3>1, <3>2, <1>2 DEF SilenceLimited, OneWillPass
    <2>3. silence + loops[1] <= StartDelay + HeartbeatInterval \/ loops[1] <= HeartbeatInterval
      BY <1>2 DEF SilenceLimited
    <2> QED BY <2>1, <2>2, <2>3, <1>1, <1>3, <1>5 DEF SilenceLimited
  <1> QED BY <1>4, <1>5

LEMMA SecondLimited ==
    ASSUME Timely, AlarmInv, leader = "alive", Second
    PROVE  SilenceLimited' /\ (silence # None => silence' = silence + 1) /\ (silence = None => silence' = None)
  <1>1. /\ \A i \in Loops : loops[i] # 0 /\ flight[i] # 0
        /\ loops' = [i \in Loops |-> Sooner(loops[i])]
        /\ flight' = [i \in Loops |-> Sooner(flight[i])]
        /\ limiter' = Aged(limiter) /\ silence' = Longer(silence) /\ lost' = lost
    BY DEF Second, Due
  <1>2. /\ HeartbeatsSpaced /\ FewRefused /\ SilenceLimited
        /\ silence \in {None} \cup Nat /\ lost \in 0 .. MaxLost
        /\ loops[1] \in 0 .. StartDelay + HeartbeatInterval
        /\ limiter.age \in Nat
        /\ silence # None => silence <= LongestSilence
    BY SilenceTypes DEF AlarmInv
  <1>3. silence = None => silence' = None
    BY <1>1 DEF Longer
  <1>4. ASSUME silence # None PROVE silence' = silence + 1
    <2>1. LongestSilence <= RecentWindow /\ LongestSilence \in Int
      <3>1. 0 \in 0 .. MaxLost
        BY HeartbeatConstants
      <3> QED BY <3>1, Losses, HeartbeatConstants DEF Timely
    <2>2. silence # RecentWindow + 1
      BY <2>1, <1>2, <1>4, HeartbeatConstants
    <2> QED BY <2>2, <1>1, <1>4 DEF Longer, Longest
  <1>5. ASSUME silence # None PROVE SilenceLimited'
    <2>1. silence \in Nat /\ silence' = silence + 1
      BY <1>2, <1>4, <1>5
    <2>2. loops'[1] = loops[1] - 1
      BY <1>1, <1>2, HeartbeatConstants DEF Sooner, HeartbeatsSpaced
    <2>3. limiter'.age = limiter.age + 1 \/ (limiter'.age = limiter.age /\ limiter.age > MinInterval)
      <3>1. limiter \in Tolerated
        BY <1>2 DEF FewRefused
      <3> QED BY <3>1, <1>1, <1>2, HeartbeatConstants DEF Aged, Tolerated
    <2>4. silence' <= limiter'.age \/ MinInterval <= limiter'.age
      BY <2>1, <2>3, <1>2, <1>5, HeartbeatConstants DEF SilenceLimited
    <2>5. silence' + loops'[1] <= StartDelay + HeartbeatInterval \/ loops'[1] <= HeartbeatInterval
      BY <2>1, <2>2, <1>2, <1>5, HeartbeatConstants DEF SilenceLimited
    <2>6. OneWillPass'
      <3>1. CASE \E k \in Loops : /\ flight[k] # None
                                  /\ MinInterval <= silence + flight[k]
                                  /\ silence + flight[k] <= LongestSilence
        <4>1. PICK k \in Loops : /\ flight[k] # None
                                 /\ MinInterval <= silence + flight[k]
                                 /\ silence + flight[k] <= LongestSilence
          BY <3>1
        <4>2. flight[k] \in Nat /\ flight[k] # 0 /\ flight'[k] = flight[k] - 1
          BY <4>1, <1>1, <1>2, HeartbeatConstants DEF Sooner, HeartbeatsSpaced
        <4>3. silence' + flight'[k] = silence + flight[k] /\ flight'[k] # None
          BY <4>2, <2>1 DEF None
        <4> QED BY <4>1, <4>3 DEF OneWillPass
      <3>2. CASE silence + loops[1] + TimeOfLosses(lost) + MaxDelay <= LongestSilence
        <4>1. TimeOfLosses(lost)' = TimeOfLosses(lost)
          BY <1>1 DEF TimeOfLosses
        <4>2. silence' + loops'[1] = silence + loops[1]
          BY <2>1, <2>2, <1>2, HeartbeatConstants
        <4> QED BY <4>1, <4>2, <3>2 DEF OneWillPass
      <3> QED BY <3>1, <3>2, <1>2, <1>5 DEF SilenceLimited, OneWillPass
    <2> QED BY <2>4, <2>5, <2>6 DEF SilenceLimited
  <1>6. ASSUME silence = None PROVE SilenceLimited'
    BY <1>3, <1>6 DEF SilenceLimited
  <1> QED BY <1>3, <1>4, <1>5, <1>6

(***************************************************************************)
(* The checks.                                                             *)
(***************************************************************************)
LEMMA MissesTypes ==
    ASSUME LoopInv
    PROVE  /\ heartbeatMissed \in Nat /\ consecutiveHeartbeatFailures = heartbeatMissed
           /\ tickIn \in 0 .. CheckInterval /\ tickReady \in BOOLEAN
           /\ silence \in {None} \cup Nat /\ backoff \in {None} \cup 0 .. MaxBackoff
           /\ Misses \in Nat /\ Misses * CheckInterval \in Nat
           /\ (Misses + 1) * CheckInterval = Misses * CheckInterval + CheckInterval
  <1>1. /\ heartbeatMissed \in Nat /\ consecutiveHeartbeatFailures = heartbeatMissed
        /\ tickIn \in 0 .. CheckInterval /\ tickReady \in BOOLEAN
        /\ silence \in {None} \cup Nat /\ backoff \in {None} \cup 0 .. MaxBackoff
    BY DetectorConstants DEF LoopInv, LoopTypeOK
  <1>2. Misses \in Nat
    BY <1>1 DEF Misses
  <1>3. Misses * CheckInterval \in Nat /\ (Misses + 1) * CheckInterval = Misses * CheckInterval + CheckInterval
    <2>1. CheckInterval \in Nat
      BY DetectorConstants
    <2> QED BY ONLY <1>2, <2>1, OneMore
  <1> QED BY <1>1, <1>2, <1>3

LEMMA MissedWasHeard ==
    ASSUME LoopInv, MissesTakeTime, heartbeatMissed > 0
    PROVE  silence \in Nat
  <1> DEFINE x == Misses * CheckInterval
  <1>1. HeartbeatTimeout + x < silence + tickIn
    BY DEF MissesTakeTime
  <1>2. x \in Nat /\ x >= CheckInterval
    <2>1. Misses >= 1 /\ Misses \in Nat
      BY MissesTypes DEF Misses
    <2>2. 1 * CheckInterval <= x /\ 1 * CheckInterval = CheckInterval
      BY <2>1, Monotone, DetectorConstants
    <2> QED BY <2>2, MissesTypes
  <1> HIDE DEF x
  <1> QED BY <1>1, <1>2, MissesTypes, DetectorConstants DEF None

LEMMA MissesForgotten ==
    ASSUME LoopInv, HeardOfLeader, UNCHANGED <<tickVars, backoff>>
    PROVE  MissesTakeTime'
  <1>1. silence' = 0 /\ heartbeatMissed' = 0 /\ backoff' = backoff
    BY DEF HeardOfLeader, ResetCounters
  <1>2. backoff' # None => silence' # None /\ silence' + backoff' <= MaxBackoff
    BY <1>1, MissesTypes, DetectorConstants DEF None
  <1>3. silence' <= HeartbeatTimeout
    BY <1>1, DetectorConstants
  <1> QED BY <1>1, <1>2, <1>3 DEF MissesTakeTime

LEMMA TickerTakesTime ==
    ASSUME LoopInv, MissesTakeTime, TickerFires
    PROVE  MissesTakeTime'
  <1>1. /\ tickIn = 0 /\ tickIn' = CheckInterval /\ tickReady' = TRUE
        /\ UNCHANGED <<silence, heartbeatMissed, backoff>>
    BY DEF TickerFires, counters
  <1>2. ASSUME heartbeatMissed' > 0
        PROVE  HeartbeatTimeout + Misses' * CheckInterval < silence' + tickIn'
    <2>1. HeartbeatTimeout + Misses * CheckInterval < silence + tickIn
      BY <1>1, <1>2 DEF MissesTakeTime
    <2>2. Misses' = Misses \/ Misses' = Misses + 1
      BY <1>1 DEF Misses
    <2> DEFINE x == Misses * CheckInterval
               y == Misses' * CheckInterval
    <2>3. x \in Nat /\ (y = x \/ y = x + CheckInterval)
      BY <2>2, MissesTypes
    <2>4. HeartbeatTimeout + x < silence + tickIn
      BY <2>1
    <2> HIDE DEF x, y
    <2>5. HeartbeatTimeout + y < silence' + tickIn'
      BY <1>1, <2>3, <2>4, MissesTypes, DetectorConstants DEF None
    <2> QED BY <2>5 DEF y
  <1> QED BY <1>1, <1>2 DEF MissesTakeTime

LEMMA FirstCheckTakesTime ==
    ASSUME LoopInv, MissesTakeTime, FirstCheck
    PROVE  MissesTakeTime'
  <1>1. /\ silence = None /\ silence' = 0 /\ tickReady' = FALSE /\ backoff = None /\ backoff' = None
        /\ heartbeatMissed' = heartbeatMissed
    BY DEF FirstCheck, TakeTick, counters
  <1>2. ~ (heartbeatMissed > 0)
    BY <1>1, MissedWasHeard DEF None
  <1> QED BY <1>1, <1>2 DEF MissesTakeTime

LEMMA InTimeTakesTime ==
    ASSUME LoopInv, MissesTakeTime, CheckInTime
    PROVE  MissesTakeTime'
  <1>1. tickReady' = FALSE /\ heartbeatMissed' = 0 /\ silence' = silence /\ backoff' = backoff
    BY DEF CheckInTime, TakeTick, ResetCounters
  <1> QED BY <1>1 DEF MissesTakeTime

LEMMA MissTakesTime ==
    ASSUME LoopInv, MissesTakeTime, Miss
    PROVE  MissesTakeTime'
  <1>1. /\ tickReady /\ tickReady' = FALSE /\ tickIn' = tickIn
        /\ heartbeatMissed' = heartbeatMissed + 1
        /\ silence' = silence /\ silence > HeartbeatTimeout /\ backoff' = backoff
    BY DEF Miss, TakeTick
  <1>2. Misses = heartbeatMissed + 1 /\ Misses' = heartbeatMissed + 1
    BY <1>1 DEF Misses
  <1>3. HeartbeatTimeout + Misses * CheckInterval < silence + tickIn
    <2>1. CASE heartbeatMissed > 0
      BY <2>1 DEF MissesTakeTime
    <2>2. CASE ~ (heartbeatMissed > 0)
      <3>1. heartbeatMissed = 0
        BY <2>2, MissesTypes
      <3>2. silence \in Nat
        BY <1>1, MissesTypes, DetectorConstants DEF None
      <3>3. tickIn = CheckInterval
        BY <1>1, <3>2, DetectorConstants DEF MissesTakeTime
      <3>4. Misses * CheckInterval = CheckInterval
        <4>1. Misses = 1
          BY <1>2, <3>1
        <4> QED BY <4>1, DetectorConstants
      <3> QED BY <3>2, <3>3, <3>4, <1>1, DetectorConstants
    <2> QED BY <2>1, <2>2
  <1>4. Misses' * CheckInterval = Misses * CheckInterval
    BY <1>2
  <1>5. HeartbeatTimeout + Misses' * CheckInterval < silence' + tickIn'
    BY <1>1, <1>3, <1>4
  <1> QED BY <1>1, <1>5 DEF MissesTakeTime

LEMMA ReelectionTakesTime ==
    ASSUME MissesTakeTime, StartReelection
    PROVE  MissesTakeTime'
  <1>1. backoff' = None /\ UNCHANGED <<silence, heartbeatMissed, tickIn, tickReady>>
    BY DEF StartReelection, counters, tickVars
  <1> QED BY <1>1 DEF MissesTakeTime, Misses

LEMMA SecondTakesTime ==
    ASSUME LoopInv, MissesTakeTime, Second,
           silence # None => silence' = silence + 1, silence = None => silence' = None
    PROVE  MissesTakeTime'
  <1>1. /\ tickIn # 0 /\ (tickReady => backoff # None) /\ backoff # 0
        /\ tickIn' = tickIn - 1 /\ backoff' = Sooner(backoff)
        /\ UNCHANGED <<heartbeatMissed, tickReady>>
    BY DEF Second, Due, counters
  <1>2. /\ backoff = None => backoff' = None
        /\ backoff # None => backoff' = backoff - 1 /\ backoff \in 1 .. MaxBackoff
    BY <1>1, MissesTypes, DetectorConstants DEF Sooner
  <1>3. ASSUME backoff # None
        PROVE  /\ silence' # None /\ silence' + backoff' <= MaxBackoff
               /\ silence' <= HeartbeatTimeout
    <2>1. silence \in Nat /\ silence + backoff <= MaxBackoff
      BY <1>3, MissesTypes DEF MissesTakeTime
    <2>2. silence' = silence + 1 /\ backoff' = backoff - 1 /\ backoff \in 1 .. MaxBackoff
      BY <2>1, <1>2, <1>3 DEF None
    <2>3. silence' # None /\ silence' + backoff' <= MaxBackoff
      BY <2>1, <2>2, DetectorConstants DEF None
    <2>4. silence' <= HeartbeatTimeout
      BY <2>1, <2>2, DetectorConstants
    <2> QED BY <2>3, <2>4
  <1>4. ASSUME heartbeatMissed' > 0
        PROVE  HeartbeatTimeout + Misses' * CheckInterval < silence' + tickIn'
    <2> DEFINE x == Misses * CheckInterval
    <2>1. HeartbeatTimeout + x < silence + tickIn /\ x \in Nat
      BY <1>1, <1>4, MissesTypes DEF MissesTakeTime
    <2>2. Misses' * CheckInterval = x
      BY <1>1 DEF Misses
    <2> HIDE DEF x
    <2>3. silence # None
      BY <1>1, <1>4, MissedWasHeard DEF None
    <2>4. silence' + tickIn' = silence + tickIn
      BY <2>3, <1>1, MissesTypes
    <2> QED BY <2>1, <2>2, <2>4
  <1> QED BY <1>1, <1>2, <1>3, <1>4 DEF MissesTakeTime

(***************************************************************************)
(* No third miss in a row of a coordinator that runs.                      *)
(***************************************************************************)
LEMMA NotConfirmed ==
    ASSUME Timely, AlarmInv, leader = "alive", ConfirmFailure \/ BlameMesh
    PROVE  FALSE
  <1>1. silence > HeartbeatTimeout /\ Confirmed /\ tickReady
    BY DEF ConfirmFailure, BlameMesh, TakeTick
  <1>2. LoopInv /\ MissesTakeTime
    BY DEF AlarmInv
  <1>3. silence \in Nat
    BY <1>1, <1>2, MissesTypes, DetectorConstants DEF None
  <1>4. silence <= LongestSilence
    BY <1>3, SilenceTypes DEF None
  <1>5. heartbeatMissed + 1 = MissLimit
    <2>1. heartbeatMissed \in 0 .. MissLimit - 1 /\ consecutiveHeartbeatFailures = heartbeatMissed
      BY <1>2 DEF LoopInv, LoopTypeOK
    <2>2. heartbeatMissed + 1 >= RetryLimit /\ heartbeatMissed + 1 >= RequiredFailures
      BY <1>1, <2>1 DEF Confirmed
    <2> QED BY <2>1, <2>2, DetectorConstants
  <1> DEFINE x == (MissLimit - 1) * CheckInterval
             y == Misses * CheckInterval
  <1>6. LongestSilence <= HeartbeatTimeout + x /\ LongestSilence \in Int
    <2>1. 0 \in 0 .. MaxLost
      BY HeartbeatConstants
    <2> QED BY <2>1, Losses, HeartbeatConstants DEF Timely
  <1>7. y = x + CheckInterval /\ x \in Nat
    <2>1. MissLimit - 1 \in Nat /\ Misses = (MissLimit - 1) + 1 /\ CheckInterval \in Nat
      BY <1>1, <1>5, DetectorConstants DEF Misses
    <2> QED BY ONLY <2>1, OneMore
  <1>8. heartbeatMissed > 0 => HeartbeatTimeout + y < silence + tickIn
    BY <1>2 DEF MissesTakeTime
  <1>9. heartbeatMissed = 0 => x = 0
    <2>1. ASSUME heartbeatMissed = 0 PROVE x = 0
      <3>1. MissLimit - 1 = 0
        BY <2>1, <1>5, DetectorConstants
      <3> QED BY <3>1, DetectorConstants
    <2> QED BY <2>1
  <1>10. heartbeatMissed \in Nat /\ tickIn \in 0 .. CheckInterval
    BY <1>2, MissesTypes
  <1> HIDE DEF x, y
  <1>11. CASE heartbeatMissed > 0
    BY <1>11, <1>3, <1>4, <1>6, <1>7, <1>8, <1>10, DetectorConstants
  <1>12. CASE heartbeatMissed = 0
    BY <1>12, <1>1, <1>3, <1>4, <1>6, <1>9, DetectorConstants
  <1> QED BY <1>10, <1>11, <1>12

LEMMA AlarmInit ==
    ASSUME Timely, Init
    PROVE  AlarmInv
  <1>1. LoopInv
    BY DetectorInit
  <1>2. /\ loops = [i \in Loops |-> IF i = 1 THEN HeartbeatInterval ELSE None]
        /\ flight = [i \in Loops |-> None]
        /\ limiter = [age |-> MinInterval + 1, violators |-> 0, banned |-> FALSE, ban |-> 0]
        /\ leader = "alive" /\ lost = 0 /\ silence = None /\ heartbeatMissed = 0
        /\ backoff = None /\ tickReady = FALSE
    BY DEF Init, FirstLoop, NothingSent, FreshLimiter
  <1>3. HeartbeatsSpaced
    <2>1. loops \in [Loops -> {None} \cup 0 .. StartDelay + HeartbeatInterval]
      BY <1>2, HeartbeatConstants
    <2>2. flight \in [Loops -> {None} \cup 0 .. MaxDelay]
      BY <1>2
    <2> QED BY <2>1, <2>2, <1>2, HeartbeatConstants DEF HeartbeatsSpaced, None
  <1>4. FewRefused
    <2>1. \A j \in Loops : ~ ComesEarly(j)
      <3>1. SUFFICES ASSUME NEW j \in Loops, loops[j] # None PROVE ~ (NextHeartbeat(j) + limiter.age < MinInterval)
        BY DEF ComesEarly
      <3>2. NextHeartbeat(j) \in Nat /\ limiter.age = MinInterval + 1
        BY <3>1, <1>2, HeartbeatConstants DEF NextHeartbeat
      <3> QED BY <3>2, HeartbeatConstants
    <2>2. limiter \in Tolerated
      BY <1>2, HeartbeatConstants DEF Tolerated
    <2> QED BY <2>1, <2>2 DEF FewRefused
  <1>5. SilenceLimited /\ MissesTakeTime
    BY <1>2 DEF SilenceLimited, MissesTakeTime
  <1>6. lost \in 0 .. MaxLost
    BY <1>2, HeartbeatConstants
  <1> QED BY <1>1, <1>2, <1>3, <1>4, <1>5, <1>6 DEF AlarmInv

LEMMA AlarmStep ==
    ASSUME Timely, AlarmInv, [Next]_vars
    PROVE  AlarmInv'
  <1>0. LoopInv /\ LoopInv'
    BY LoopStep DEF AlarmInv
  <1>1. leader' \in {"alive", "crashed"} /\ lost' \in 0 .. MaxLost
    <2>1. leader' = leader \/ leader' \in {"alive", "crashed"}
      BY DEF Next, vars, leaderVars, Coordinator, SendHeartbeat, Crash, Announcement, CoordinatorAgain, OtherCoordinator,
             Listener, HandleHeartbeat, TickerFires, Check, FirstCheck, CheckInTime, Miss, ConfirmFailure, BlameMesh,
             TakeTick, StartReelection, EndElection, Second
    <2>2. lost' = lost \/ lost' = 0 \/ (lost < MaxLost /\ lost' = lost + 1)
      BY DEF Next, vars, leaderVars, Coordinator, SendHeartbeat, Crash, Announcement, CoordinatorAgain, OtherCoordinator, Announced,
             Listener, HandleHeartbeat, TickerFires, Check, FirstCheck, CheckInTime, Miss, ConfirmFailure, BlameMesh,
             TakeTick, StartReelection, EndElection, Second
    <2> QED BY <2>1, <2>2, HeartbeatConstants DEF AlarmInv
  <1> DEFINE Good == HeartbeatsSpaced /\ FewRefused /\ SilenceLimited /\ MissesTakeTime
  <1> SUFFICES ASSUME leader' = "alive" PROVE Good'
    BY <1>0, <1>1 DEF AlarmInv
  <1>2. CASE OtherCoordinator
    <2>1. HeartbeatsSpaced' /\ FewRefused'
      BY <1>2, OtherSpaced
    <2>2. HeardOfLeader /\ UNCHANGED <<tickVars, backoff>>
      BY <1>2 DEF OtherCoordinator, Announced
    <2>3. limiter'.age \in Nat /\ loops'[1] \in 0 .. StartDelay + HeartbeatInterval
      <3>1. limiter'.age \in 0 .. MinInterval + 1
        BY <2>1 DEF FewRefused, Tolerated
      <3> QED BY <3>1, <2>1, HeartbeatConstants DEF HeartbeatsSpaced
    <2>4. SilenceLimited'
      BY <1>1, <2>2, <2>3, SilenceBegins DEF HeardOfLeader
    <2> QED BY <2>1, <2>2, <2>4, <1>0, MissesForgotten
  <1>3. ASSUME ~ OtherCoordinator PROVE leader = "alive"
    BY <1>3 DEF Next, vars, leaderVars, Coordinator, SendHeartbeat, Crash, Announcement, CoordinatorAgain,
             Listener, HandleHeartbeat, TickerFires, Check, FirstCheck, CheckInTime, Miss, ConfirmFailure, BlameMesh,
             TakeTick, StartReelection, EndElection, Second
  <1> SUFFICES ASSUME leader = "alive" PROVE Good'
    BY <1>2, <1>3
  <1>4. /\ HeartbeatsSpaced /\ FewRefused /\ SilenceLimited /\ MissesTakeTime
        /\ limiter.age \in Nat /\ loops[1] \in 0 .. StartDelay + HeartbeatInterval
    BY SilenceTypes DEF AlarmInv
  <1>5. ASSUME UNCHANGED <<loops, flight, limiter>> PROVE HeartbeatsSpaced' /\ FewRefused'
    BY <1>4, <1>5 DEF HeartbeatsSpaced, FewRefused, ComesEarly, NextHeartbeat
  <1>6. ASSUME UNCHANGED <<loops, flight, limiter, lost, silence>> PROVE SilenceLimited'
    BY <1>4, <1>6 DEF SilenceLimited, OneWillPass, TimeOfLosses
  <1>7. ASSUME UNCHANGED <<silence, heartbeatMissed, tickIn, tickReady, backoff>> PROVE MissesTakeTime'
    BY <1>4, <1>7 DEF MissesTakeTime, Misses
  <1>8. CASE UNCHANGED vars
    BY <1>8, <1>5, <1>6, <1>7 DEF vars, leaderVars, counters, tickVars
  <1>9. CASE Coordinator
    <2>1. PICK i \in Loops : SendHeartbeat(i)
      BY <1>9 DEF Coordinator
    <2>2. UNCHANGED <<silence, heartbeatMissed, tickIn, tickReady, backoff>>
      BY <2>1 DEF SendHeartbeat, counters, tickVars
    <2> QED BY <2>1, <2>2, <1>4, <1>7, SendSpaced, SendLimited
  <1>10. CASE Crash
    BY <1>10 DEF Crash
  <1>11. CASE CoordinatorAgain
    <2>1. HeartbeatsSpaced' /\ FewRefused'
      BY <1>11, <1>4, AgainSpaced
    <2>2. HeardOfLeader /\ UNCHANGED <<tickVars, backoff>>
      BY <1>11 DEF CoordinatorAgain, Announced
    <2>3. limiter'.age \in Nat /\ loops'[1] \in 0 .. StartDelay + HeartbeatInterval
      <3>1. limiter'.age \in 0 .. MinInterval + 1
        BY <2>1 DEF FewRefused, Tolerated
      <3> QED BY <3>1, <2>1, HeartbeatConstants DEF HeartbeatsSpaced
    <2>4. SilenceLimited'
      BY <1>1, <2>2, <2>3, SilenceBegins DEF HeardOfLeader
    <2> QED BY <2>1, <2>2, <2>4, <1>0, MissesForgotten
  <1>12. CASE Listener
    <2>1. PICK i \in Loops : HandleHeartbeat(i)
      BY <1>12 DEF Listener
    <2>2. MissesTakeTime'
      <3>1. CASE Allows(limiter)
        BY <2>1, <3>1, <1>0, MissesForgotten DEF HandleHeartbeat
      <3>2. CASE ~ Allows(limiter)
        BY <2>1, <3>2, <1>7 DEF HandleHeartbeat, counters, tickVars
      <3> QED BY <3>1, <3>2
    <2> QED BY <2>1, <2>2, <1>4, ListenerSpaced, ListenerLimited
  <1>13. CASE TickerFires
    <2>1. UNCHANGED <<loops, flight, limiter, lost, silence>>
      BY <1>13 DEF TickerFires, leaderVars
    <2> QED BY <2>1, <1>0, <1>4, <1>5, <1>6, <1>13, TickerTakesTime
  <1>14. CASE FirstCheck
    <2>1. UNCHANGED <<loops, flight, limiter, lost>> /\ silence' = 0
      BY <1>14 DEF FirstCheck, TakeTick, leaderVars
    <2>2. SilenceLimited'
      BY <2>1, <1>1, <1>4, SilenceBegins
    <2> QED BY <2>1, <2>2, <1>0, <1>4, <1>5, <1>14, FirstCheckTakesTime
  <1>15. CASE CheckInTime
    <2>1. UNCHANGED <<loops, flight, limiter, lost, silence>>
      BY <1>15 DEF CheckInTime, TakeTick, leaderVars
    <2> QED BY <2>1, <1>0, <1>4, <1>5, <1>6, <1>15, InTimeTakesTime
  <1>16. CASE Miss
    <2>1. UNCHANGED <<loops, flight, limiter, lost, silence>>
      BY <1>16 DEF Miss, TakeTick, leaderVars
    <2> QED BY <2>1, <1>0, <1>4, <1>5, <1>6, <1>16, MissTakesTime
  <1>17. CASE ConfirmFailure \/ BlameMesh
    BY <1>17, NotConfirmed
  <1>18. CASE StartReelection
    <2>1. UNCHANGED <<loops, flight, limiter, lost, silence>>
      BY <1>18 DEF StartReelection, leaderVars
    <2> QED BY <2>1, <1>4, <1>5, <1>6, <1>18, ReelectionTakesTime
  <1>19. CASE EndElection
    BY <1>19, <1>5, <1>6, <1>7 DEF EndElection, leaderVars, counters, tickVars
  <1>20. CASE Second
    <2>1. HeartbeatsSpaced' /\ FewRefused'
      BY <1>4, <1>20, SecondSpaced
    <2>2. /\ SilenceLimited'
          /\ silence # None => silence' = silence + 1
          /\ silence = None => silence' = None
      BY <1>20, SecondLimited
    <2> QED BY <2>1, <2>2, <1>0, <1>4, <1>20, SecondTakesTime
  <1> QED BY <1>2, <1>8, <1>9, <1>10, <1>11, <1>12, <1>13, <1>14, <1>15, <1>16, <1>17, <1>18, <1>19, <1>20
          DEF Next, Announcement, Check

(***************************************************************************)
(* NoFalseAlarm (CheckLeaderFailure, AllowMessage): a coordinator that     *)
(* runs is not given up, whichever heartbeats are lost, late or refused,   *)
(* and however its announcements and other coordinators' come between,     *)
(* for any periods and limits that are Timely.                             *)
(***************************************************************************)
THEOREM RunningIsNotGivenUp == ASSUME Timely PROVE Spec => NoFalseAlarm
  <1>1. Init => AlarmInv
    BY AlarmInit
  <1>2. AlarmInv /\ [Next]_vars => AlarmInv'
    BY AlarmStep
  <1>3. AlarmInv /\ [Next]_vars => [ConfirmFailure \/ BlameMesh => leader = "crashed"]_vars
    <2> SUFFICES ASSUME AlarmInv, ConfirmFailure \/ BlameMesh PROVE leader = "crashed"
      OBVIOUS
    <2>1. leader # "alive"
      BY NotConfirmed
    <2> QED BY <2>1 DEF AlarmInv
  <1> QED BY <1>1, <1>2, <1>3, PTL DEF Spec, NoFalseAlarm

=============================================================================
