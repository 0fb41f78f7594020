------------------------------- MODULE Stores -------------------------------
(***************************************************************************)
(* The document stores of one node: those opened at start (initPeer.go),   *)
(* those that requests create and drop (service.go, api/http.go), the      *)
(* config file that remembers them (config.go, main.go), the caches that   *)
(* hold their heads (go-orbit-db), backups of them (exchange.go), and the  *)
(* crashes, exits and restarts in between.                                 *)
(*                                                                         *)
(* A store has one address on every node: the hash of its name, type and   *)
(* access list.  So the config file need only say which names it lists.    *)
(* An instance is a store as opened once; a document is the call that      *)
(* wrote it.                                                               *)
(***************************************************************************)
EXTENDS Naturals, FiniteSets, Sequences

CONSTANTS
    Builtin,        \* the stores opened at start, in this order
    Dynamic,        \* other names of stores
    Call,           \* requests
    Jobs,           \* the operations and names they may come with
    NoCall, Main,   \* no request, the goroutine of main
    MayCreate,      \* -dynamic-stores
    MaxStarts, MaxFailures

Name == Dynamic \cup {Builtin[i] : i \in DOMAIN Builtin}

Operations == {"use", "create", "drop", "export", "import"}

ASSUME StoresAssumption ==
    /\ NoCall \notin Call /\ Main \notin Call \cup {NoCall}
    /\ MaxStarts \in Nat /\ MaxFailures \in Nat /\ MayCreate \in BOOLEAN

ASSUME BuiltinAssumption ==
    /\ Builtin \in Seq(Name) /\ Builtin # <<>>
    /\ \A i, j \in DOMAIN Builtin : Builtin[i] = Builtin[j] => i = j

ASSUME JobsAssumption == Jobs \subseteq [Call -> [op : Operations, name : Name]]

VARIABLES
    file,       \* the config file: its state, and the dynamic stores it lists
    disk,       \* disk[n]: the documents below the saved heads of store n
    process,    \* "down", "booting" or "up"
    opening,    \* the builtin store to be opened next
    toRestore,  \* dynamic stores still to be reopened
    conf,       \* Config.DynamicStoreAddrs
    builtin,    \* builtin[n]: its instance, 0 if it failed to open
    dynamic,    \* DynamicStores
    made,       \* instances of n made so far
    alive,      \* instances whose cache is open
    raw,        \* instances that hold the database itself, not its wrapper
    wrapper,    \* wrapper[n]: what the table of caches has for n
    shown,      \* shown[x]: the documents in the index of instance x
    dynMu,      \* who holds dynMu
    jobs,       \* jobs[c]: the operation of call c, and its store
    doing,      \* doing[c]: where it is, and the instance it has resolved
    content,    \* content[s]: the names in the text s is about to write
    main, killer,   \* main after the signal, and handleShutdown
    exchange,   \* the backup: who makes it, what is left, what it has
    failures, starts,
    promise,    \* history: what was answered about n: "kept", "gone", "none"
    acked,      \* history: documents answered for
    unopened,   \* history: stores that failed to open in this run
    partial     \* history: instances whose Load failed

diskVars == <<file, disk, starts>>
bootVars == <<process, opening, toRestore, builtin, unopened>>
instanceVars == <<made, alive, raw, wrapper, shown, partial>>
tableVars == <<conf, dynamic, dynMu>>
endVars == <<main, killer>>
historyVars == <<promise, acked>>
storesVars == <<diskVars, bootVars, instanceVars, tableVars, endVars, historyVars,
                jobs, doing, content, exchange, failures>>

NotCalled == [at |-> "idle", no |-> 0]
NoDocuments == [n \in Name |-> {}]
NoInstances == [n \in Name |-> 0]
NoExchange == [by |-> NoCall, left |-> {}, from |-> NoInstances, has |-> NoDocuments, due |-> NoDocuments]

StoresInit ==
    /\ file = [state |-> "missing", names |-> {}]
    /\ disk = [n \in Name |-> {}]
    /\ process = "down" /\ opening = 1 /\ toRestore = {}
    /\ builtin = NoInstances /\ dynamic = NoInstances /\ made = NoInstances
    /\ alive = {} /\ raw = {} /\ partial = {}
    /\ wrapper = [n \in Name |-> "none"]
    /\ shown = <<>>
    /\ conf = {} /\ dynMu = NoCall
    /\ jobs \in Jobs
    /\ doing = [c \in Call |-> NotCalled]
    /\ content = [s \in Call \cup {Main} |-> {}]
    /\ main = "running" /\ killer = "waiting"
    /\ exchange = NoExchange
    /\ failures = 0 /\ starts = 0 /\ unopened = {}
    /\ promise = [n \in Name |-> "none"]
    /\ acked = [n \in Name |-> {}]

-----------------------------------------------------------------------------
(* go-orbit-db: opening and closing an instance.                           *)

(***************************************************************************)
(* The table of caches returns the bare database when it opens one, and    *)
(* its wrapper from then on (cacheleveldown.Load).  Open by address asks   *)
(* once, so it may get the bare one; by name, Create has asked before.     *)
(***************************************************************************)
GetsRaw(n, byAddress) == byAddress /\ wrapper[n] = "none"

\* Create writes the manifest to the cache first, which needs it open.
CanCreate(n, byAddress) == byAddress \/ wrapper[n] # "closed"

Loaded(n, docs) == shown' = [x \in DOMAIN shown \cup {<<n, made'[n]>>} |->
                                IF x = <<n, made'[n]>> THEN docs ELSE shown[x]]

(***************************************************************************)
(* Open, createStore and Load: a new instance with what the saved heads    *)
(* lead to.  A cache that is closed gives none; a Load that fails is       *)
(* logged and the store used as it is.                                     *)
(***************************************************************************)
Open(n, byAddress) ==
    /\ CanCreate(n, byAddress)
    /\ made' = [made EXCEPT ![n] = @ + 1]
    /\ LET x == <<n, made'[n]>>
       IN  IF wrapper[n] = "closed"
           THEN Loaded(n, {}) /\ UNCHANGED <<alive, raw, wrapper, partial, failures>>
           ELSE /\ alive' = alive \cup {x}
                /\ raw' = IF GetsRaw(n, byAddress) THEN raw \cup {x} ELSE raw
                /\ wrapper' = [wrapper EXCEPT ![n] = "open"]
                /\ \/ Loaded(n, disk[n]) /\ UNCHANGED <<partial, failures>>
                   \/ /\ failures < MaxFailures /\ failures' = failures + 1
                      /\ Loaded(n, {})
                      /\ partial' = partial \cup {x}

\* The cache is closed, or the manifest not read in time; Create has the cache open.
OpenFails(n, byAddress) ==
    /\ \/ ~CanCreate(n, byAddress) /\ UNCHANGED failures
       \/ failures < MaxFailures /\ failures' = failures + 1
    /\ wrapper' = IF byAddress \/ wrapper[n] # "none" THEN wrapper
                  ELSE [wrapper EXCEPT ![n] = "open"]
    /\ UNCHANGED <<made, alive, raw, shown, partial>>

\* Close of the bare database leaves its wrapper in the table.
CloseInstance(x) ==
    /\ alive' = alive \ {x}
    /\ wrapper' = IF x \notin alive THEN wrapper
                  ELSE [wrapper EXCEPT ![x[1]] = IF x \in raw THEN "closed" ELSE "none"]
    /\ UNCHANGED <<made, raw, shown, partial>>

\* Close of OrbitDB: all stores, then all that is in the table of caches.
CloseOrbit ==
    /\ alive' = {}
    /\ wrapper' = [n \in Name |-> "none"]
    /\ UNCHANGED <<made, raw, shown, partial>>

-----------------------------------------------------------------------------
(* Start.                                                                  *)

\* LoadConfig: without a file the defaults; a file that does not parse ends the start.
LoadConfig ==
    /\ process = "down" /\ starts < MaxStarts
    /\ file.state # "torn"
    /\ starts' = starts + 1
    /\ process' = "booting" /\ opening' = 1
    /\ conf' = file.names
    /\ UNCHANGED <<file, disk, toRestore, builtin, unopened, instanceVars, dynamic, dynMu,
                   endVars, historyVars, doing, content, exchange, failures>>

\* The addresses of the builtin stores are known once a config was written.
HasAddress == file.state = "whole"

OpenBuiltin ==
    /\ process = "booting" /\ opening <= Len(Builtin)
    /\ LET n == Builtin[opening]
       IN  \/ /\ Open(n, HasAddress)
              /\ builtin' = [builtin EXCEPT ![n] = made'[n]]
              /\ UNCHANGED unopened
           \/ /\ OpenFails(n, HasAddress)
              /\ unopened' = unopened \cup {n}
              /\ UNCHANGED builtin
    /\ opening' = opening + 1
    /\ toRestore' = IF opening = Len(Builtin) THEN conf ELSE {}
    /\ UNCHANGED <<diskVars, process, tableVars, endVars, historyVars, doing, content, exchange>>

\* RestoreDynamicStores; a store that does not open is skipped.
Restore(n) ==
    /\ process = "booting" /\ opening > Len(Builtin) /\ n \in toRestore
    /\ toRestore' = toRestore \ {n}
    /\ \/ /\ builtin[n] # 0
          /\ UNCHANGED <<instanceVars, dynamic, unopened, failures>>
       \/ /\ builtin[n] = 0
          /\ Open(n, TRUE)
          /\ dynamic' = [dynamic EXCEPT ![n] = made'[n]]
          /\ unopened' = unopened \ {n}
       \/ /\ builtin[n] = 0
          /\ OpenFails(n, TRUE)
          /\ unopened' = unopened \cup {n}
          /\ UNCHANGED dynamic
    /\ UNCHANGED <<diskVars, process, opening, builtin, conf, dynMu, endVars, historyVars,
                   doing, content, exchange>>

Serve ==
    /\ process = "booting" /\ opening > Len(Builtin) /\ toRestore = {}
    /\ process' = "up"
    /\ UNCHANGED <<diskVars, opening, toRestore, builtin, unopened, instanceVars, tableVars,
                   endVars, historyVars, doing, content, exchange, failures>>

-----------------------------------------------------------------------------
(* Requests.                                                               *)

Is(c, at) == process = "up" /\ doing[c].at = at

Finished(at) == [NotCalled EXCEPT !.at = at]

Goes(c, at) ==
    doing' = [doing EXCEPT ![c] = IF at \in {"done", "failed"} THEN Finished(at)
                                  ELSE [@ EXCEPT !.at = at]]

With(c, at, no) ==
    doing' = [doing EXCEPT ![c] = IF at = "done" THEN Finished(at) ELSE [@ EXCEPT !.at = at, !.no = no]]

\* What a node lists: AllDocStores.
Instances == [n \in Name |-> IF dynamic[n] # 0 THEN dynamic[n] ELSE builtin[n]]

\* Mutant: backups keep a list of their own.
BuiltinInstances == builtin

Registry == Instances

\* storesHandler, storeDeleteHandler, HandleExport, HandleImport, or a command.
Invoke(c) ==
    /\ Is(c, "idle")
    /\ Goes(c, CASE jobs[c].op = "use" -> "resolve" [] jobs[c].op = "create" -> "ensure"
               [] jobs[c].op = "drop" -> "drop" [] OTHER -> "exchange")
    /\ UNCHANGED <<diskVars, bootVars, instanceVars, tableVars, endVars, historyVars, content,
                   exchange, failures>>

\* ResolveDocStore: builtin, open, or else to be created if that is allowed.
ResolveDocStore(c) ==
    LET n == jobs[c].name
    IN  /\ Is(c, "resolve")
        /\ builtin[n] = 0 => dynMu = NoCall
        /\ CASE builtin[n] # 0 -> With(c, "put", builtin[n])
             [] builtin[n] = 0 /\ dynamic[n] # 0 -> With(c, "put", dynamic[n])
             [] OTHER -> Goes(c, IF MayCreate THEN "ensure" ELSE "failed")
        /\ UNCHANGED <<diskVars, bootVars, instanceVars, tableVars, endVars, historyVars, content,
                       exchange, failures>>

AfterEnsure(c) == IF jobs[c].op = "create" THEN "done" ELSE "put"

\* EnsureDocStore finds the store: builtin, or opened by another meanwhile.
EnsureFinds(c) ==
    LET n == jobs[c].name
    IN  /\ Is(c, "ensure")
        /\ builtin[n] = 0 => dynMu = NoCall
        /\ Instances[n] # 0
        /\ With(c, AfterEnsure(c), IF builtin[n] # 0 THEN builtin[n] ELSE dynamic[n])
        /\ UNCHANGED <<diskVars, bootVars, instanceVars, tableVars, endVars, historyVars, content,
                       exchange, failures>>

\* Mutant: the look-up made before the lock is not made again under it.
StillMissing(n) == builtin[n] = 0

Missing(n) == builtin[n] = 0 /\ dynamic[n] = 0

(***************************************************************************)
(* EnsureDocStore opens it, by its saved address if there is one, and has  *)
(* the address saved if it was not; dynMu is held until then.              *)
(***************************************************************************)
EnsureOpens(c) ==
    LET n == jobs[c].name
    IN  /\ Is(c, "ensure") /\ dynMu = NoCall /\ Missing(n)
        /\ Open(n, n \in conf)
        /\ dynamic' = [dynamic EXCEPT ![n] = made'[n]]
        /\ conf' = conf \cup {n}
        /\ IF n \in conf
           THEN With(c, AfterEnsure(c), made'[n]) /\ UNCHANGED <<dynMu, content, promise>>
           ELSE /\ With(c, "truncate", made'[n])
                /\ dynMu' = c
                /\ content' = [content EXCEPT ![c] = conf']
                /\ promise' = [promise EXCEPT ![n] = "none"]
        /\ UNCHANGED <<diskVars, bootVars, endVars, acked, exchange>>

EnsureFails(c) ==
    LET n == jobs[c].name
    IN  /\ Is(c, "ensure") /\ dynMu = NoCall /\ Missing(n)
        /\ OpenFails(n, n \in conf)
        /\ Goes(c, IF jobs[c].op = "import" THEN "copy" ELSE "failed")
        /\ UNCHANGED <<diskVars, bootVars, tableVars, endVars, historyVars, content, exchange>>

\* The put at the end: AddOperation fails when the heads cannot be saved.
PutDocument(c) ==
    LET n == jobs[c].name
        x == <<n, doing[c].no>>
    IN  /\ Is(c, "put") /\ jobs[c].op = "use"
        /\ IF x \in alive
           THEN /\ disk' = [disk EXCEPT ![n] = @ \cup {c}]
                /\ shown' = [shown EXCEPT ![x] = @ \cup {c}]
                /\ acked' = [acked EXCEPT ![n] = @ \cup {c}]
                /\ Goes(c, "done")
           ELSE Goes(c, "failed") /\ UNCHANGED <<disk, shown, acked>>
        /\ UNCHANGED <<file, starts, bootVars, made, alive, raw, wrapper, partial, tableVars, endVars,
                       promise, content, exchange, failures>>

\* Mutant: the address stays in the config.
KeepAddress(n) == conf

Without(n) == conf \ {n}

\* DropDynamicStore, up to the saving of the config.
DropDynamicStore(c) ==
    LET n == jobs[c].name
    IN  /\ Is(c, "drop")
        /\ builtin[n] = 0 => dynMu = NoCall
        /\ IF builtin[n] # 0 \/ dynamic[n] = 0
           THEN Goes(c, "failed") /\ UNCHANGED <<instanceVars, tableVars, content, promise>>
           ELSE /\ CloseInstance(<<n, dynamic[n]>>)
                /\ dynamic' = [dynamic EXCEPT ![n] = 0]
                /\ conf' = Without(n)
                /\ dynMu' = c
                /\ content' = [content EXCEPT ![c] = conf']
                /\ promise' = [promise EXCEPT ![n] = "none"]
                /\ Goes(c, "truncate")
        /\ UNCHANGED <<diskVars, bootVars, endVars, acked, exchange, failures>>

-----------------------------------------------------------------------------
(* Saving: WriteFile truncates the file and then writes it.                *)

Torn == [state |-> "torn", names |-> {}]
Whole(names) == [state |-> "whole", names |-> names]

(***************************************************************************)
(* A text written over that of another saver, who truncated the file too   *)
(* before either wrote: the end of the longer one shows.                   *)
(***************************************************************************)
Written(names) ==
    IF file.state = "torn" THEN {Whole(names)}
    ELSE {f \in {Whole(names), Torn} : /\ file.names \subseteq names => f.state = "whole"
                                       /\ names \subseteq file.names /\ names # file.names
                                            => f.state = "torn"}

\* The next step of a call whose config is saved, or could not be.
AfterSave(c) == IF jobs[c].op = "drop" THEN "done" ELSE AfterEnsure(c)

Truncate(c) ==
    /\ Is(c, "truncate")
    /\ file' = Torn
    /\ Goes(c, "write")
    /\ UNCHANGED <<disk, starts, bootVars, instanceVars, tableVars, endVars, historyVars, content,
                   exchange, failures>>

Write(c) ==
    /\ Is(c, "write")
    /\ file' \in Written(content[c])
    /\ promise' = [promise EXCEPT ![jobs[c].name] = IF jobs[c].op = "drop" THEN "gone" ELSE "kept"]
    /\ dynMu' = NoCall
    /\ content' = [content EXCEPT ![c] = {}]
    /\ Goes(c, AfterSave(c))
    /\ UNCHANGED <<disk, starts, bootVars, instanceVars, conf, dynamic, endVars, acked, exchange,
                   failures>>

\* saveConfigBestEffort: a failure is logged, and the call goes on.
SaveFails(c) ==
    /\ Is(c, "truncate") \/ Is(c, "write")
    /\ failures < MaxFailures /\ failures' = failures + 1
    /\ dynMu' = NoCall
    /\ Goes(c, AfterSave(c))
    /\ UNCHANGED <<diskVars, bootVars, instanceVars, conf, dynamic, endVars, historyVars, content,
                   exchange>>

-----------------------------------------------------------------------------
(* Backups: one at a time (exchange.go).                                   *)

\* What an export made now has to contain: the documents answered for, of
\* every store that a request was told of and that opened in this run.
Due == [n \in Name |->
          IF promise[n] = "gone" \/ (promise[n] = "none" /\ builtin[n] = 0) \/ n \in unopened
               \/ <<n, Instances[n]>> \in partial
          THEN {} ELSE acked[n]]

\* Export and Import take a snapshot of the table, with the lock of the table only.
Snapshot(c) ==
    /\ Is(c, "exchange") /\ exchange.by = NoCall /\ dynMu = NoCall
    /\ exchange' = [by |-> c,
                    left |-> IF jobs[c].op = "export" THEN {n \in Name : Registry[n] # 0}
                             ELSE {jobs[c].name},
                    from |-> Registry, has |-> NoDocuments,
                    due |-> IF jobs[c].op = "export" THEN Due ELSE NoDocuments]
    /\ Goes(c, "copy")
    /\ UNCHANGED <<diskVars, bootVars, instanceVars, tableVars, endVars, historyVars, content, failures>>

\* Export reads a store of its snapshot.
ExportStore(c, n) ==
    /\ Is(c, "copy") /\ jobs[c].op = "export" /\ n \in exchange.left
    /\ exchange' = [exchange EXCEPT !.left = @ \ {n}, !.has[n] = shown[<<n, exchange.from[n]>>]]
    /\ UNCHANGED <<diskVars, bootVars, instanceVars, tableVars, endVars, historyVars, doing, content,
                   failures>>

\* Import puts what the archive has for a store, one that is not open is created.
ImportStore(c, n) ==
    /\ Is(c, "copy") /\ jobs[c].op = "import" /\ n \in exchange.left
    /\ exchange' = [exchange EXCEPT !.left = @ \ {n}]
    /\ IF exchange.from[n] # 0 THEN With(c, "put", exchange.from[n]) ELSE Goes(c, "ensure")
    /\ UNCHANGED <<diskVars, bootVars, instanceVars, tableVars, endVars, historyVars, content, failures>>

ImportPut(c) ==
    LET n == jobs[c].name
        x == <<n, doing[c].no>>
    IN  /\ Is(c, "put") /\ jobs[c].op = "import"
        /\ IF x \in alive
           THEN /\ disk' = [disk EXCEPT ![n] = @ \cup {c}]
                /\ shown' = [shown EXCEPT ![x] = @ \cup {c}]
                /\ acked' = [acked EXCEPT ![n] = @ \cup {c}]
           ELSE UNCHANGED <<disk, shown, acked>>
        /\ Goes(c, "copy")
        /\ UNCHANGED <<file, starts, bootVars, made, alive, raw, wrapper, partial, tableVars, endVars,
                       promise, content, exchange, failures>>

EndExchange(c) ==
    /\ Is(c, "copy") /\ exchange.left = {}
    /\ exchange' = [exchange EXCEPT !.by = NoCall]
    /\ Goes(c, "done")
    /\ UNCHANGED <<diskVars, bootVars, instanceVars, tableVars, endVars, historyVars, content, failures>>

-----------------------------------------------------------------------------
(* The end of the process.                                                 *)

Gone ==
    /\ process' = "down" /\ opening' = 1 /\ toRestore' = {} /\ unopened' = {}
    /\ builtin' = NoInstances /\ dynamic' = NoInstances
    /\ alive' = {} /\ raw' = {} /\ partial' = {}
    /\ wrapper' = [n \in Name |-> "none"]
    /\ dynMu' = NoCall /\ exchange' = NoExchange
    /\ main' = "running" /\ killer' = "waiting"
    /\ doing' = [c \in Call |-> IF doing[c].at \in {"idle", "done"} THEN doing[c] ELSE Finished("failed")]
    /\ content' = [s \in DOMAIN content |-> {}]
    /\ shown' = <<>> /\ conf' = {}
    /\ UNCHANGED <<diskVars, made, historyVars, failures>>

Crash == process # "down" /\ Gone

Ends(next, what) == main = what /\ process = "up" /\ main' = next
EndUnchanged == <<disk, starts, bootVars, tableVars, killer, acked, doing, exchange>>

\* The signal that main and handleShutdown both wait for.
Signal ==
    /\ Ends("marshal", "running") /\ killer' = "close"
    /\ UNCHANGED <<diskVars, bootVars, instanceVars, tableVars, historyVars, doing, content,
                   exchange, failures>>

\* main reads the config without dynMu.
MainMarshals ==
    /\ Ends("truncate", "marshal")
    /\ content' = [content EXCEPT ![Main] = conf]
    /\ UNCHANGED <<EndUnchanged, file, instanceVars, promise, failures>>

MainTruncates ==
    /\ Ends("write", "truncate")
    /\ file' = Torn
    /\ UNCHANGED <<EndUnchanged, instanceVars, content, promise, failures>>

\* What main writes may be older than what is there.
Outdated == {n \in Name : (n \in content[Main]) # (n \in conf)}

MainWrites ==
    /\ Ends("close", "write")
    /\ file' \in Written(content[Main])
    /\ promise' = [n \in Name |-> IF n \in Outdated THEN "none" ELSE promise[n]]
    /\ UNCHANGED <<EndUnchanged, instanceVars, content, failures>>

MainCloses ==
    /\ Ends("returned", "close")
    /\ CloseOrbit
    /\ UNCHANGED <<EndUnchanged, file, content, promise, failures>>

\* handleShutdown closes OrbitDB and calls os.Exit, wherever main is.
HandleShutdown ==
    /\ killer = "close" /\ process = "up"
    /\ killer' = "exit"
    /\ CloseOrbit
    /\ UNCHANGED <<diskVars, bootVars, tableVars, main, historyVars, doing, content, exchange, failures>>

Exit == (main = "returned" \/ killer = "exit") /\ Gone

-----------------------------------------------------------------------------

CallStep(c) ==
    \/ ResolveDocStore(c) \/ EnsureFinds(c) \/ EnsureOpens(c) \/ EnsureFails(c)
    \/ PutDocument(c) \/ DropDynamicStore(c)
    \/ Truncate(c) \/ Write(c) \/ SaveFails(c)
    \/ Snapshot(c) \/ ImportPut(c) \/ EndExchange(c)
    \/ \E n \in Name : ExportStore(c, n) \/ ImportStore(c, n)

EndStep ==
    \/ Crash \/ Signal \/ MainMarshals \/ MainTruncates \/ MainWrites \/ MainCloses
    \/ HandleShutdown \/ Exit

StoresNext ==
    /\ \/ LoadConfig \/ OpenBuiltin \/ Serve
       \/ \E n \in Name : Restore(n)
       \/ \E c \in Call : Invoke(c) \/ CallStep(c)
       \/ EndStep
    /\ UNCHANGED jobs

StoresSpec == StoresInit /\ [][StoresNext]_storesVars

-----------------------------------------------------------------------------
(* Properties.                                                             *)

(***************************************************************************)
(* What was answered about a store outlives the process: one that was      *)
(* created is open again after any restart, unless it failed to open, and  *)
(* one that was dropped is not (persistDynamicAddrLocked,                  *)
(* RestoreDynamicStores).  Left out are saves that failed and saves of     *)
(* main that were older than what they replaced.                           *)
(***************************************************************************)
RestartKeepsPromises ==
    process = "up" =>
        \A n \in Name :
            /\ promise[n] = "kept" => Instances[n] # 0 \/ n \in unopened
            /\ promise[n] = "gone" => dynamic[n] = 0

(***************************************************************************)
(* A store that is listed before the shutdown takes writes and shows every *)
(* document answered for, however often it was dropped, created again,     *)
(* imported into, or the node restarted (Open, Create, Load, Close).       *)
(***************************************************************************)
ListedStoresWork ==
    \A n \in Name :
        LET x == <<n, Instances[n]>>
        IN  x[2] # 0 /\ main = "running" => x \in alive /\ (x \in partial \/ acked[n] \subseteq shown[x])

(***************************************************************************)
(* A finished export has every document answered for before it began, of   *)
(* the stores that were due, whatever was written, created or dropped      *)
(* while it ran (Export).                                                  *)
(***************************************************************************)
BackupIsComplete ==
    exchange.left = {} => \A n \in Name : exchange.due[n] \subseteq exchange.has[n]

=============================================================================
