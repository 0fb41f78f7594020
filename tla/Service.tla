------------------------------ MODULE Service ------------------------------
(***************************************************************************)
(* The command service of a node (app/service.go): HTTP handlers and the   *)
(* shell put their commands into one channel; Service gives each a         *)
(* goroutine, a limited number at a time.  A posted file becomes an entry  *)
(* of the contributions log; its write event is picked up by               *)
(* awaitWriteEvent, which enters the file into the validations store.  A   *)
(* node without a contributions log opens that of a peer.                  *)
(*                                                                         *)
(* Commands are of three kinds: "post", "get", which reads the log without *)
(* asking whether there is one, and "other", which only answers.           *)
(***************************************************************************)
EXTENDS Integers, Sequences, FiniteSets

CONSTANTS
    Command,        \* the commands given
    Kind,           \* Kind[c]: "post", "get" or "other"
    Typed,          \* those typed into the shell, the others come by HTTP
    NoCommand,
    ChannelSize,    \* room in reqChan
    MaxConcurrency, \* SERVICE_CONCURRENCY
    BusSize         \* room for events of one subscriber

ASSUME ServiceAssumption ==
    /\ IsFiniteSet(Command) /\ {NoCommand, "free", "lost"} \cap Command = {}
    /\ Kind \in [Command -> {"post", "get", "other"}]
    /\ ChannelSize \in Nat
    /\ {MaxConcurrency, BusSize} \subseteq Nat \ {0}

VARIABLES
    up,             \* the process runs
    contributions,  \* the contributions log is open
    validationsOpen,
    reqChan,        \* commands not taken yet
    taken,          \* the command that waits for a slot
    step,           \* how far a command has come
    answer,
    contributionsMtx,   \* who holds it: a command, or "free", or "lost" when
    validationsMtx,     \* its holder returned without unlocking
    events,         \* write events for awaitWriteEvent
    watcher,        \* where awaitWriteEvent is, and its file
    validations,    \* the files in the validations store
    missed          \* history: files whose event reached no subscriber,
                    \* or that could not be read

channelVars == <<reqChan, taken>>
commandVars == <<step, answer, contributionsMtx>>
watcherVars == <<watcher, validationsMtx, validations>>
nodeVars == <<up, contributions, validationsOpen>>
serviceVars == <<channelVars, commandVars, watcherVars, nodeVars, events, missed>>

Polling == [at |-> "polling", file |-> NoCommand]

ServiceInit ==
    /\ up = TRUE
    /\ contributions \in BOOLEAN
    /\ validationsOpen \in BOOLEAN
    /\ reqChan = <<>>
    /\ taken = NoCommand
    /\ step = [c \in Command |-> "idle"]
    /\ answer = [c \in Command |-> "none"]
    /\ contributionsMtx = "free"
    /\ validationsMtx = "free"
    /\ events = <<>>
    /\ watcher = Polling
    /\ validations = {}
    /\ missed = {}

-----------------------------------------------------------------------------
(* From the channel to a goroutine and back.                               *)

(***************************************************************************)
(* The shell gives its next command when it has the answer to the last.    *)
(***************************************************************************)
Send(c) ==
    /\ step[c] = "idle" /\ Len(reqChan) < ChannelSize
    /\ c \in Typed => \A d \in Typed : step[d] \in {"idle", "answered"}
    /\ reqChan' = Append(reqChan, c)
    /\ step' = [step EXCEPT ![c] = "sent"]
    /\ UNCHANGED <<taken, answer, contributionsMtx, watcherVars, nodeVars, events, missed>>

TakeRequest ==
    /\ taken = NoCommand /\ reqChan # <<>>
    /\ taken' = Head(reqChan)
    /\ reqChan' = Tail(reqChan)
    /\ UNCHANGED <<commandVars, watcherVars, nodeVars, events, missed>>

Running == {c \in Command : step[c] \notin {"idle", "sent", "answered"}}

Start ==
    /\ taken # NoCommand /\ Cardinality(Running) < MaxConcurrency
    /\ step' = [step EXCEPT ![taken] = "started"]
    /\ taken' = NoCommand
    /\ UNCHANGED <<reqChan, answer, contributionsMtx, watcherVars, nodeVars, events, missed>>

(***************************************************************************)
(* The answer goes to the channel of the command, which has room for it,   *)
(* and the slot is free again.  A panic is answered with an error.         *)
(***************************************************************************)
Deliver(c, a) ==
    /\ step' = [step EXCEPT ![c] = "answered"]
    /\ answer' = [answer EXCEPT ![c] = a]

\* Reading a log that is not there is a panic.
Answer(c) ==
    /\ step[c] = "started" /\ Kind[c] # "post"
    /\ \E a \in {"ok", "error"} :
          /\ Kind[c] = "get" /\ ~contributions => a = "error"
          /\ Deliver(c, a)
    /\ UNCHANGED <<channelVars, contributionsMtx, watcherVars, nodeVars, events, missed>>

-----------------------------------------------------------------------------
(* post.                                                                   *)

AddFile(c) ==
    /\ step[c] = "started" /\ Kind[c] = "post"
    /\ \/ contributions /\ step' = [step EXCEPT ![c] = "locking"] /\ UNCHANGED answer
       \/ Deliver(c, "error")
    /\ UNCHANGED <<channelVars, contributionsMtx, watcherVars, nodeVars, events, missed>>

LockContributions(c) ==
    /\ step[c] = "locking" /\ contributionsMtx = "free"
    /\ contributionsMtx' = c
    /\ step' = [step EXCEPT ![c] = "adding"]
    /\ UNCHANGED <<channelVars, answer, watcherVars, nodeVars, events, missed>>

\* The early return keeps the mutex.
AddFails(c) ==
    /\ step[c] = "adding"
    /\ Deliver(c, "error")
    /\ contributionsMtx' = "lost"
    /\ UNCHANGED <<channelVars, watcherVars, nodeVars, events, missed>>

Appended(c) ==
    /\ step[c] = "adding"
    /\ step' = [step EXCEPT ![c] = "emitting"]
    /\ UNCHANGED <<channelVars, answer, contributionsMtx, watcherVars, nodeVars, events, missed>>

Subscribed == watcher.at # "polling"

(***************************************************************************)
(* The log emits the event before Add returns, and waits for room.         *)
(***************************************************************************)
EmitWrite(c) ==
    IF Subscribed
    THEN Len(events) < BusSize /\ events' = Append(events, c) /\ UNCHANGED missed
    ELSE missed' = missed \cup {c} /\ UNCHANGED events

Emit(c) ==
    /\ step[c] = "emitting"
    /\ EmitWrite(c)
    /\ step' = [step EXCEPT ![c] = "emitted"]
    /\ UNCHANGED <<channelVars, answer, contributionsMtx, watcherVars, nodeVars>>

AnswerOnly(c) ==
    /\ step[c] = "emitted"
    /\ Deliver(c, "ok")
    /\ UNCHANGED <<channelVars, contributionsMtx, watcherVars, nodeVars, events, missed>>

Unlock(c) ==
    /\ step[c] = "emitted"
    /\ contributionsMtx' = "free"
    /\ Deliver(c, "ok")
    /\ UNCHANGED <<channelVars, watcherVars, nodeVars, events, missed>>

Post(c) == AddFile(c) \/ AddFails(c) \/ Appended(c) \/ Emit(c) \/ Unlock(c)

-----------------------------------------------------------------------------
(* awaitWriteEvent.                                                        *)

\* Both pointers are followed; that of the validations store may be nil.
Subscribe ==
    /\ watcher.at = "polling" /\ contributions
    /\ watcher' = [watcher EXCEPT !.at = "next"]
    /\ up' = validationsOpen
    /\ UNCHANGED <<channelVars, commandVars, validationsMtx, validations, contributions, validationsOpen,
                   events, missed>>

NextEvent ==
    /\ watcher.at = "next" /\ events # <<>>
    /\ watcher' = [at |-> "reading", file |-> Head(events)]
    /\ events' = Tail(events)
    /\ UNCHANGED <<channelVars, commandVars, validationsMtx, validations, nodeVars, missed>>

ReadFile ==
    /\ watcher.at = "reading"
    /\ \/ watcher' = [watcher EXCEPT !.at = "locking"] /\ UNCHANGED missed
       \/ watcher' = [watcher EXCEPT !.at = "next"] /\ missed' = missed \cup {watcher.file}
    /\ UNCHANGED <<channelVars, commandVars, validationsMtx, validations, nodeVars, events>>

\* No one else takes the mutex; a failed write keeps it.
Validate ==
    /\ watcher.at = "locking" /\ validationsMtx = "free"
    /\ watcher' = [watcher EXCEPT !.at = "next"]
    /\ \/ validations' = validations \cup {watcher.file} /\ UNCHANGED validationsMtx
       \/ validationsMtx' = "lost" /\ UNCHANGED validations
    /\ UNCHANGED <<channelVars, commandVars, nodeVars, events, missed>>

AwaitWriteEvent == Subscribe \/ NextEvent \/ ReadFile \/ Validate

(***************************************************************************)
(* awaitStoreExchange: a peer sent the address of its log.  When it cannot *)
(* be opened, the type assertion on the missing store ends the process.    *)
(***************************************************************************)
StoreExchange ==
    /\ ~contributions
    /\ \/ contributions' = TRUE /\ UNCHANGED up
       \/ up' = FALSE /\ UNCHANGED contributions
    /\ UNCHANGED <<channelVars, commandVars, watcherVars, validationsOpen, events, missed>>

-----------------------------------------------------------------------------

HandleRequest(c) == Answer(c) \/ Post(c) \/ LockContributions(c)

\* What the goroutines of the node do by themselves.
Proceed == up /\ (TakeRequest \/ Start \/ AwaitWriteEvent \/ \E c \in Command : HandleRequest(c))

ServiceNext == Proceed \/ (up /\ (StoreExchange \/ \E c \in Command : Send(c)))

ServiceSpec == ServiceInit /\ [][ServiceNext]_serviceVars

-----------------------------------------------------------------------------
(* Properties.                                                             *)

\* Posts can no longer be served: a mutex was lost, and for that of the
\* validations the events have piled up.
PostsHang ==
    \/ contributionsMtx = "lost"
    \/ validationsMtx = "lost" /\ Len(events) = BusSize

SlotsHang ==
    /\ PostsHang
    /\ Cardinality(Running) = MaxConcurrency
    /\ \A c \in Running : step[c] \in {"locking", "emitting"}

(***************************************************************************)
(* A command is given once, so the work ends; what has to happen has       *)
(* happened by then.  No goroutine goes on: Service waits for a command or *)
(* for a slot, awaitWriteEvent for a log, an event or its mutex, and every *)
(* command that has a slot for the mutex or for room.                      *)
(***************************************************************************)
AtRest ==
    /\ up
    /\ taken = NoCommand => reqChan = <<>>
    /\ taken # NoCommand => Cardinality(Running) >= MaxConcurrency
    /\ \/ watcher.at = "polling" /\ ~contributions
       \/ watcher.at = "next" /\ events = <<>>
       \/ watcher.at = "locking" /\ validationsMtx # "free"
    /\ \A c \in Running :
         \/ step[c] = "locking" /\ contributionsMtx # "free"
         \/ step[c] = "emitting" /\ Subscribed /\ Len(events) >= BusSize

(***************************************************************************)
(* Every command is answered, unless the process ended or an append or a   *)
(* validation failed with its mutex held.  Even then a command that is no  *)
(* post is answered, unless waiting posts have all the slots.  And a file  *)
(* that was reported as uploaded is validated, unless it was posted before *)
(* awaitWriteEvent listened, could not be read, or an earlier validation   *)
(* failed.                                                                 *)
(***************************************************************************)
CommandsAreAnswered ==
    AtRest => \A c \in Command :
        /\ \/ step[c] \in {"idle", "answered"}
           \/ IF Kind[c] = "post" THEN PostsHang ELSE SlotsHang
        /\ Kind[c] = "post" /\ answer[c] = "ok" /\ validationsMtx = "free"
             => c \in validations \cup missed

=============================================================================
