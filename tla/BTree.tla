------------------------------- MODULE BTree --------------------------------
(***************************************************************************)
(* The B+ tree of the SQL engine (src/sql/storage/btree.go, page.go).      *)
(* Pages are numbered by file offset; a leaf holds rows and the offsets of *)
(* its neighbours, an internal page holds separator keys and children.     *)
(* `offsets', the indirection from sorted position to cell, is left out:   *)
(* the cells of a page are a sequence sorted by key.                       *)
(***************************************************************************)
EXTENDS Naturals, Sequences, FiniteSets, SequencesExt

CONSTANTS
    MaxLeafCells,       \* 9 rows of at most 400 bytes
    MaxInternalCells    \* 290

ASSUME FanOut == MaxLeafCells \in Nat \ {0, 1} /\ MaxInternalCells \in Nat \ {0, 1, 2}

\* The header is at offset 0: no page is.
NoPage == 0

NewLeaf == [leaf |-> TRUE, cells |-> <<>>, right |-> NoPage,
            lsib |-> NoPage, rsib |-> NoPage, lsn |-> 0]

NewInternal == [NewLeaf EXCEPT !.leaf = FALSE]

Row(key, val) == [key |-> key, val |-> val, deleted |-> FALSE]

Keys(page) == {page.cells[i].key : i \in DOMAIN page.cells}

IsFull(page) == Len(page.cells) >= IF page.leaf THEN MaxLeafCells ELSE MaxInternalCells

\* Where findCellOffsetByKey finds the key or would insert it.
Offset(page, key) == Cardinality({k \in Keys(page) : k < key}) + 1

-----------------------------------------------------------------------------
\* The page cache: what fetch, append and markDirty do.  A store is a record
\* with fields pages, dirty, free, lastKey and lsn.

Mark(store, p, page, lsn) ==
    [store EXCEPT !.pages = [q \in DOMAIN @ \cup {p} |-> IF q = p THEN [page EXCEPT !.lsn = lsn] ELSE @[q]],
                  !.dirty = @ \cup {p}]

Allocated(store) == [store EXCEPT !.free = @ + 1]

\* The pages met from `start' on; the last may be missing from the file, and
\* the walk is cut when it has met as many pages as there are.
Walk(pages, start, Succ(_)) ==
    LET Step(path, i) ==
            LET p == Last(path)
            IN  IF p \notin DOMAIN pages \/ Succ(pages[p]) = NoPage THEN path
                ELSE Append(path, Succ(pages[p]))
    IN  FoldLeft(Step, <<start>>, [i \in 1 .. Cardinality(DOMAIN pages) |-> i])

\* Mutant: a key equal to a separator is looked for to its left.
ChildOnEqual(page, key) ==
    LET right == {i \in DOMAIN page.cells : key <= page.cells[i].key}
    IN  CASE page.leaf -> NoPage
          [] ~page.leaf /\ right = {} -> page.right
          [] OTHER -> page.cells[CHOOSE i \in right : \A j \in right : i <= j].child

\* The child of an internal page on the way to a key.
Child(page, key) ==
    LET right == {i \in DOMAIN page.cells : key < page.cells[i].key}
    IN  CASE page.leaf -> NoPage
          [] ~page.leaf /\ right = {} -> page.right
          [] OTHER -> page.cells[CHOOSE i \in right : \A j \in right : i <= j].child

Descent(pages, root, key) == LET Down(page) == Child(page, key) IN Walk(pages, root, Down)

\* A way down that ends in a leaf of the file.
Arrives(pages, path) == Last(path) \in DOMAIN pages /\ pages[Last(path)].leaf

-----------------------------------------------------------------------------
\* split moves the upper half of a leaf's rows to a new page.  It copies key
\* and value, and not the mark of a deleted row.
SplitLeaf(page) ==
    LET mid == Len(page.cells) \div 2
        upper == SubSeq(page.cells, mid + 1, Len(page.cells))
    IN  [key |-> upper[1].key,
         low |-> [page EXCEPT !.cells = SubSeq(@, 1, mid)],
         high |-> [NewLeaf EXCEPT !.cells = [i \in DOMAIN upper |-> Row(upper[i].key, upper[i].val)]]]

SplitInternal(page) ==
    LET mid == Len(page.cells) \div 2 + 1
    IN  [key |-> page.cells[mid].key,
         low |-> [page EXCEPT !.cells = SubSeq(@, 1, mid - 1), !.right = page.cells[mid].child],
         high |-> [NewInternal EXCEPT !.cells = SubSeq(page.cells, mid + 1, Len(page.cells)),
                                      !.right = page.right]]

\* The parent with the new page to the right of all, or next to the split one.
AppendChild(page, key, new) ==
    [page EXCEPT !.cells = Append(@, [key |-> key, child |-> page.right]), !.right = new]

InsertChild(page, key, old, new) ==
    LET at == Offset(page, key)
    IN  [page EXCEPT !.cells = InsertAt([@ EXCEPT ![at].child = new], at, [key |-> key, child |-> old])]

NewRoot(key, old, new) ==
    [NewInternal EXCEPT !.cells = <<[key |-> key, child |-> old]>>, !.right = new]

\* Page p, child of `parent' (NoPage: the root), is full: acc.store gets the
\* new page, the parent's new cell and, in a leaf, the neighbours' offsets.
Split(acc, p, parent, lsn) ==
    LET page == acc.store.pages[p]
        new == acc.store.free
        s == IF page.leaf THEN SplitLeaf(page) ELSE SplitInternal(page)
        up == IF parent = NoPage THEN NewLeaf ELSE acc.store.pages[parent]
        atEnd == parent = NoPage \/ ~page.leaf \/ s.key > Last(up.cells).key
        low == IF page.leaf THEN [s.low EXCEPT !.rsib = new] ELSE s.low
        high == IF page.leaf THEN [s.high EXCEPT !.lsib = p, !.rsib = IF atEnd THEN NoPage ELSE page.rsib]
                ELSE s.high
        halves == Mark(Mark(Allocated(acc.store), p, low, lsn), new, high, lsn)
    IN  CASE parent = NoPage ->
               [store |-> Mark(Allocated(halves), new + 1, NewRoot(s.key, p, new), lsn), root |-> new + 1]
          [] parent # NoPage /\ atEnd ->
               [acc EXCEPT !.store = Mark(halves, parent, AppendChild(up, s.key, new), lsn)]
          [] OTHER ->
               [acc EXCEPT !.store =
                   Mark(Mark(halves, parent, InsertChild(up, s.key, p, new), lsn),
                        page.rsib, [halves.pages[page.rsib] EXCEPT !.lsib = new], lsn)]

\* A key found in any page of the way down already exists.
Exists(store, path, key) == \E i \in DOMAIN path : key \in Keys(store.pages[path[i]])

\* insertKey: the row goes into its leaf; then full pages split, bottom up.
InsertKey(store, path, key, lsn, val) ==
    LET leaf == Last(path)
        page == store.pages[leaf]
        grown == [page EXCEPT !.cells = InsertAt(@, Offset(page, key), Row(key, val))]
        depth == Len(path)
        SplitIfFull(acc, i) ==
            IF IsFull(acc.store.pages[path[i]])
            THEN Split(acc, path[i], IF i = 1 THEN NoPage ELSE path[i - 1], lsn)
            ELSE acc
    IN  FoldLeft(SplitIfFull, [store |-> Mark(store, leaf, grown, lsn), root |-> path[1]],
                 [i \in 1 .. depth |-> depth + 1 - i])

-----------------------------------------------------------------------------
\* findCell: the page and position of a row, <<>> if it is missing or deleted.
FindCell(pages, root, key) ==
    LET p == Last(Descent(pages, root, key))
        at == {i \in DOMAIN pages[p].cells : pages[p].cells[i].key = key /\ ~pages[p].cells[i].deleted}
    IN  IF at = {} THEN <<>> ELSE <<p, CHOOSE i \in at : TRUE>>

Live(page) == LET Kept(row) == ~row.deleted IN SelectSeq(page.cells, Kept)

\* The rows of a table as scanRight and scanLeft hand them to their callback.
ScanRight(pages, root) ==
    LET First(page) == IF page.leaf THEN NoPage ELSE page.cells[1].child
        Next(page) == page.rsib
        leaves == Walk(pages, Last(Walk(pages, root, First)), Next)
    IN  FlattenSeq([i \in DOMAIN leaves |-> Live(pages[leaves[i]])])

ScanLeft(pages, root) ==
    LET Right(page) == IF page.leaf THEN NoPage ELSE page.right
        Next(page) == page.lsib
        leaves == Walk(pages, Last(Walk(pages, root, Right)), Next)
    IN  FlattenSeq([i \in DOMAIN leaves |-> Reverse(Live(pages[leaves[i]]))])

=============================================================================
