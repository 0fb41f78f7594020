----------------------------- MODULE SqlStorage -----------------------------
(***************************************************************************)
(* One table of the SQL engine (src/sql) and its durability: statements    *)
(* change pages in the cache and append to the write-ahead log, a ticker   *)
(* writes dirty pages, a crash loses the cache, and InitStorage replays    *)
(* the log when the console starts.  A statement holds the shared lock     *)
(* until its log is written and flushPages holds it exclusively, so a      *)
(* statement's pages, its log and a flush are one step each here, and a    *)
(* crash may leave a part of the log's entries or of the pages behind.     *)
(***************************************************************************)
EXTENDS BTree

CONSTANTS
    Value,              \* what a row can hold
    Gone,               \* what a deleted row holds
    Inserted,           \* those an INSERT uses
    PageTableLike,      \* the rows that also decode as a page table's
    MaxStatements,      \* statements, successful or not
    MaxCrashes,
    MaxRows             \* rows of one INSERT

ASSUME SqlAssumption ==
    Inserted \cup PageTableLike \subseteq Value /\ Gone \notin Value /\ {MaxStatements, MaxCrashes, MaxRows} \subseteq Nat

VARIABLES
    status,     \* "open", "down", "recovering" (the flush that ends a replay), "stuck"
    mem,        \* fileStore: cached pages, dirty ones, nextFreeOffset, lastKey, _nextLSN
    disk,       \* the file: its pages and the header's free, lastKey and lsn
    wal, torn,  \* the log's whole entries; TRUE: and a part of one more
    batch,      \* what the running statement has yet to append to the log
    pending,    \* what the running statement will have done to each row
    promised,   \* what answered statements did to each row
    unlogged,   \* rows that statements changed before they failed
    loose,      \* rows whose last statement failed or never answered
    risk,       \* the known hazards this run has met
    statements, crashes

vars == <<status, mem, disk, wal, torn, batch, pending, promised, unlogged, loose,
          risk, statements, crashes>>

Update == "update"

\* The page table is one leaf; its row 0 holds the offset of the table's root.
PageTable == 1
FirstRoot == 2
RootOf(store) == store.pages[PageTable].cells[1].val

NewFile ==
    [pages |-> [p \in {PageTable, FirstRoot} |->
                   IF p = PageTable THEN [NewLeaf EXCEPT !.cells = <<Row(0, FirstRoot)>>] ELSE NewLeaf],
     free |-> 3, lastKey |-> 0, lsn |-> 1]

Opened(file) == [pages |-> file.pages, dirty |-> {}, free |-> file.free,
                 lastKey |-> file.lastKey, lsn |-> file.lsn]

Init ==
    /\ status = "open" /\ disk = NewFile /\ mem = Opened(disk)
    /\ wal = <<>> /\ torn = FALSE /\ batch = <<>>
    /\ pending = <<>> /\ promised = <<>> /\ unlogged = {} /\ loose = {} /\ risk = {}
    /\ statements = 0 /\ crashes = 0

-----------------------------------------------------------------------------
\* Statements.  acc: the store, the log entries so far, FALSE once a row failed.

Log(op, lsn, page, key, val) == [op |-> op, lsn |-> lsn, page |-> page, key |-> key, val |-> val]

SetCell(page, key, Change(_)) ==
    [page EXCEPT !.cells = [i \in DOMAIN @ |-> IF @[i].key = key THEN Change(@[i]) ELSE @[i]]]

\* updateCell, for a row or for the page table's entry: one LSN.
UpdateCell(acc, p, key, val) ==
    LET lsn == acc.store.lsn
        Changed(row) == [row EXCEPT !.val = val]
    IN  [acc EXCEPT !.store = [Mark(@, p, SetCell(@.pages[p], key, Changed), lsn) EXCEPT !.lsn = lsn + 1],
                    !.log = Append(@, Log(Update, lsn, p, key, val))]

\* RelationService.Insert: the key and the LSN are used up even if the row is
\* not stored; a new root costs an update of the page table.
InsertRow(acc, val) ==
    LET key == acc.store.lastKey + 1
        lsn == acc.store.lsn
        root == RootOf(acc.store)
        path == Descent(acc.store.pages, root, key)
        r == IF Exists(acc.store, path, key) THEN [store |-> acc.store, root |-> root]
             ELSE InsertKey(acc.store, path, key, lsn, val)
        used == [acc EXCEPT !.store = [r.store EXCEPT !.lastKey = key, !.lsn = lsn + 1]]
        logged == [used EXCEPT !.log = Append(@, Log("insert", lsn, root, key, val)),
                               !.rows = (key :> val) @@ @]
    IN  CASE ~acc.ok -> acc
          [] acc.ok /\ Exists(acc.store, path, key) -> [used EXCEPT !.ok = FALSE]
          [] OTHER -> IF r.root = root THEN logged ELSE UpdateCell(logged, PageTable, 0, r.root)

\* RelationService.MarkDeleted: the page takes the next LSN, which stays next.
DeleteRow(acc, key) ==
    LET p == FindCell(acc.store.pages, RootOf(acc.store), key)[1]
        lsn == acc.store.lsn
        Deleted(row) == [row EXCEPT !.deleted = TRUE]
    IN  [acc EXCEPT !.store = Mark(@, p, SetCell(@.pages[p], key, Deleted), lsn),
                    !.log = Append(@, Log("delete", lsn, p, key, Gone)),
                    !.rows = (key :> Gone) @@ @]

UpdateRow(acc, key, val) ==
    [UpdateCell(acc, FindCell(acc.store.pages, RootOf(acc.store), key)[1], key, val)
        EXCEPT !.rows = (key :> val) @@ @]

KeysOf(rows) == [i \in DOMAIN rows |-> rows[i].key]

Visible(store) == ScanRight(store.pages, RootOf(store))

\* An entry that a replay would skip although it is news: its LSN is not above
\* the one its page had, in the cache or in the file, before the statement or
\* from an earlier entry of it.
ReusesLSN(log) ==
    \E i \in DOMAIN log :
        \/ \E pages \in {mem.pages, disk.pages} :
              log[i].page \in DOMAIN pages /\ log[i].lsn <= pages[log[i].page].lsn
        \/ \E j \in 1 .. i - 1 : log[j].page = log[i].page /\ log[j].lsn >= log[i].lsn

\* A split made a deleted row visible again.
Revives(old, new) == \E k \in Range(KeysOf(Visible(new))) :
    /\ k \notin Range(KeysOf(Visible(old)))
    /\ k <= old.lastKey

Start == [store |-> mem, log |-> <<>>, rows |-> <<>>, ok |-> TRUE]

\* The statement's pages are in the cache; its log goes out if no row failed.
Execute(acc, failed) ==
    /\ status = "open" /\ batch = <<>>
    /\ statements < MaxStatements
    /\ statements' = statements + 1
    /\ mem' = acc.store
    /\ batch' = IF failed THEN <<>> ELSE acc.log
    /\ pending' = IF failed THEN <<>> ELSE acc.rows
    /\ unlogged' = IF failed THEN unlogged \cup DOMAIN acc.rows ELSE unlogged
    /\ loose' = IF failed THEN loose \cup DOMAIN acc.rows ELSE loose
    /\ risk' = risk \cup (IF ~failed /\ ReusesLSN(acc.log) THEN {"reused LSN"} ELSE {})
                    \cup (IF Revives(mem, acc.store) THEN {"revived by split"} ELSE {})
    /\ UNCHANGED <<status, disk, wal, torn, promised, crashes>>

\* EvaluateInsert, n equal rows: `bad', a row after them does not encode.
InsertStatement(n, val, bad) ==
    LET acc == FoldLeft(InsertRow, Start, [i \in 1 .. n |-> val])
    IN  Execute(acc, bad \/ ~acc.ok)

\* What a WHERE clause selects: one row, or all.
Selections == LET keys == KeysOf(Visible(mem)) IN ({<<k>> : k \in Range(keys)} \cup {keys}) \ {<<>>}

\* EvaluateUpdate: `bad', the next selected row would grow too large.
UpdateStatement(keys, val, bad) ==
    LET Set(acc, key) == UpdateRow(acc, key, val)
    IN  /\ bad => Len(keys) < Len(Visible(mem))
        /\ Execute(FoldLeft(Set, Start, keys), bad)

DeleteStatement(keys) == Execute(FoldLeft(DeleteRow, Start, keys), FALSE)

\* wal.flush: every entry written and synced; the statement is answered.
FlushWALBatch ==
    /\ status = "open" /\ batch # <<>>
    /\ wal' = wal \o batch
    /\ batch' = <<>>
    /\ promised' = pending @@ promised
    /\ loose' = loose \ DOMAIN pending
    /\ pending' = <<>>
    /\ UNCHANGED <<status, mem, disk, torn, unlogged, risk, statements, crashes>>

-----------------------------------------------------------------------------
\* flushPages, by the ticker or after a replay: the dirty pages, in any order,
\* then the header.

Written(pages) == [disk EXCEPT !.pages = [p \in pages |-> mem.pages[p]] @@ @]

FlushPages ==
    /\ status \in {"open", "recovering"} /\ batch = <<>>
    /\ disk' = [Written(mem.dirty) EXCEPT !.free = mem.free, !.lastKey = mem.lastKey, !.lsn = mem.lsn]
    /\ mem' = [mem EXCEPT !.dirty = {}]
    /\ status' = "open"
    /\ UNCHANGED <<wal, torn, batch, pending, promised, unlogged, loose, risk, statements, crashes>>

\* A row of a failed INSERT is in no page of the file, and the log has its
\* update or deletion, or the entries of a split that its place decided.
FailedRowLost == \E k \in unlogged :
    /\ \A p \in DOMAIN disk.pages \ {PageTable} : k \notin Keys(disk.pages[p])
    /\ \/ mem.free # disk.free
       \/ \E e \in Range(wal) : e.page # PageTable /\ e.key = k /\ e.op # "insert"

\* The process ends and the cache is gone.
Crash(met) ==
    /\ status \in {"open", "recovering"} /\ crashes < MaxCrashes
    /\ status' = "down" /\ mem' = Opened(disk')
    /\ batch' = <<>> /\ pending' = <<>>
    /\ loose' = loose \cup DOMAIN pending
    /\ risk' = risk \cup met \cup IF FailedRowLost THEN {"failed row lost"} ELSE {}
    /\ crashes' = crashes + 1
    /\ UNCHANGED <<promised, unlogged, statements>>

\* ... when n entries of a statement are in the log, or n and a part of one.
CrashInStatement(n, partial) ==
    /\ batch # <<>> /\ n < Len(batch)
    /\ wal' = wal \o SubSeq(batch, 1, n) /\ torn' = partial
    /\ disk' = disk
    /\ Crash(IF batch[n + 1].page = PageTable THEN {"new root not logged"} ELSE {})

\* ... when some of the dirty pages are in the file, and the header is not.
CrashInFlush(pages) ==
    /\ batch = <<>> /\ pages \subseteq mem.dirty
    /\ disk' = Written(pages)
    /\ Crash(IF pages # {} /\ mem.free # disk.free THEN {"pages without header"} ELSE {})
    /\ UNCHANGED <<wal, torn>>

\* A page that is not in the file reads as an internal page without cells.
PageAt(store, p) == IF p \in DOMAIN store.pages THEN store.pages[p] ELSE NewInternal

\* A page that has met an entry's LSN is taken to hold its change.
AppliesAbove(page, e) == e.lsn > page.lsn + 1      \* mutant: one too far
Applies(page, e) == e.lsn > page.lsn

\* What errKeyAlreadyExists means to a replay.
DuplicateFails == "error"                          \* mutant: not excepted
Duplicate == "go on"

\* WALBatch.replay of one entry.  `out': "go on", "error" (InitStorage fails, or
\* panics or never ends in a page that is not there) or "leave" (it returns nil
\* before the end).  Every update is decoded as a row of the page table.
Applied(acc, e) ==
    LET page == PageAt(acc.store, e.page)
        path == Descent(acc.store.pages, e.page, e.key)
        Changed(row) == [row EXCEPT !.val = e.val]
        Deleted(row) == [row EXCEPT !.deleted = TRUE]
        there == page.leaf /\ e.key \in Keys(page)
        Stored(Change(_)) == [acc EXCEPT !.store = Mark(@, e.page, SetCell(page, e.key, Change), e.lsn)]
        Failed(out) == [acc EXCEPT !.out = out]
    IN  CASE e.op = "insert" /\ ~Arrives(acc.store.pages, path) -> Failed("error")
          [] e.op = "insert" /\ Arrives(acc.store.pages, path) ->
               IF Exists(acc.store, path, e.key)
               THEN [acc EXCEPT !.store.lastKey = @ + 1, !.out = Duplicate]
               ELSE [acc EXCEPT !.store = [InsertKey(@, path, e.key, e.lsn, e.val).store
                                           EXCEPT !.lastKey = @ + 1]]
          [] e.op = Update /\ e.page # PageTable /\ e.val \notin PageTableLike -> Failed("error")
          [] e.op = Update /\ (e.page = PageTable \/ e.val \in PageTableLike) ->
               IF there THEN Stored(Changed) ELSE Failed("leave")
          [] OTHER -> IF there THEN Stored(Deleted) ELSE Failed("error")

ReplayEntry(acc, e) ==
    LET seen == [acc EXCEPT !.store.lsn = e.lsn]
    IN  CASE acc.out # "go on" -> acc
          [] acc.out = "go on" /\ Applies(PageAt(acc.store, e.page), e) -> Applied(seen, e)
          [] OTHER -> seen

Replay == FoldLeft(ReplayEntry, [store |-> mem, out |-> "go on"], wal)

\* An update of a row that is in the log and not in the file.
ForeignUpdate == \E e \in Range(wal) :
    /\ e.op = Update /\ e.page # PageTable
    /\ e.page \notin DOMAIN disk.pages \/ e.lsn > disk.pages[e.page].lsn

\* InitStorage: read the log, replay it, flush.
InitStorage ==
    /\ status = "down"
    /\ status' = IF torn \/ Replay.out = "error" THEN "stuck" ELSE "recovering"
    /\ mem' = CASE torn \/ Replay.out = "error" -> mem
                [] ~torn /\ Replay.out = "leave" -> Replay.store
                [] OTHER -> [Replay.store EXCEPT !.lsn = @ + 1]
    /\ LET met == risk \cup (IF ForeignUpdate THEN {"foreign update"} ELSE {})
       IN  risk' = IF met = {} THEN {} ELSE met \cup {"unsound replay"}
    /\ UNCHANGED <<disk, wal, torn, batch, pending, promised, unlogged, loose,
                   statements, crashes>>

Statement ==
    /\ status = "open"
    /\ \/ \E n \in 1 .. MaxRows, val \in Inserted, bad \in BOOLEAN : InsertStatement(n, val, bad)
       \/ \E keys \in Selections, val \in Value, bad \in BOOLEAN : UpdateStatement(keys, val, bad)
       \/ \E keys \in Selections : DeleteStatement(keys)

Next ==
    \/ Statement
    \/ FlushWALBatch
    \/ FlushPages
    \/ \E n \in 0 .. Len(batch), partial \in BOOLEAN : CrashInStatement(n, partial)
    \/ \E pages \in SUBSET mem.dirty : CrashInFlush(pages)
    \/ InitStorage

Spec == Init /\ [][Next]_vars

-----------------------------------------------------------------------------
(***************************************************************************)
(* Properties                                                              *)
(***************************************************************************)

\* The table is in use and no replay went through a known hazard.
Sound == status = "open" /\ "unsound replay" \notin risk

\* After any number of crashes the table holds what the answered statements
\* wrote, row by row, and no row that nobody inserted; a deleted row stays
\* deleted unless a split has revived it (the log, its replay, LSNs, keys).
Durable ==
    Sound /\ "revived by split" \notin risk =>
        LET rows == Visible(mem)
            open == loose \cup DOMAIN pending
        IN  /\ \A k \in DOMAIN promised \ open :
                   \/ promised[k] = Gone /\ k \notin Range(KeysOf(rows))
                   \/ \E i \in DOMAIN rows : rows[i].key = k /\ rows[i].val = promised[k]
            /\ Range(KeysOf(rows)) \subseteq DOMAIN promised \cup open

\* The console starts after a crash, unless the log ends in half an entry, or
\* has an update of a row that never reached the file, or met another hazard.
RecoveryOpens == status = "stuck" => "unsound replay" \in risk \/ torn

\* A crash costs nothing that was answered, and the console starts after it.
Recovered == Durable /\ RecoveryOpens

\* The scans in both directions agree, in key order, and a descent finds every
\* row a scan finds: separators, children and neighbours stay consistent
\* through splits of leaves and internal pages and through replays.
TreeConsistent ==
    Sound =>
        LET rows == Visible(mem)
        IN  /\ ScanLeft(mem.pages, RootOf(mem)) = Reverse(rows)
            /\ \A i, j \in DOMAIN rows : i < j => rows[i].key < rows[j].key
            /\ \A i \in DOMAIN rows : FindCell(mem.pages, RootOf(mem), rows[i].key) # <<>>

=============================================================================
