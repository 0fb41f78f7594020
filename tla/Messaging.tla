----------------------------- MODULE Messaging -----------------------------
(***************************************************************************)
(* External messages (mq/ems_service.go, app/ems_subscriber.go): a loop    *)
(* keeps one STOMP connection to the broker and subscribes on it; every    *)
(* subscription has a goroutine that records its messages, and enters      *)
(* those of sensors into the metadata store and the catalog.  Messages are *)
(* numbered in the order the broker publishes them; how long the loop      *)
(* sleeps is left out.                                                     *)
(***************************************************************************)
EXTENDS Integers, Sequences

CONSTANTS
    Message,        \* Message[k]: type and id of the k-th message published
    MaxCuts,        \* bound: how often the network is cut
    MaxConnections  \* bound: connections

Connection == 1 .. MaxConnections
NoConnection == 0
Ids == {Message[k].id : k \in DOMAIN Message}

ASSUME MessageAssumption ==
    /\ Message \in Seq([type : {"sensor", "create", "command", "garbled", "empty"}, id : Ids])
    /\ MaxCuts \in Nat
    /\ MaxConnections \in Nat

VARIABLES
    loop,           \* where the connection loop is
    conn,           \* EMSService.conn
    dialed,         \* connections made; the last is that of connect
    link,           \* link[c]: "none", "up", "cut" or, known to be, "closed"
    subscribed,     \* connections with a subscription
    stopper,        \* Stop: "idle", "stopped", "done"
    published,      \* messages the broker has sent out
    queue,          \* queue[c]: messages that came over c and wait
    receiver,       \* receiver[c]: step and message of the goroutine of c
    recorded,       \* the table ems_events
    metadata,       \* metadata[i]: the message the document was written from
    sensors,        \* sensors[i]: and the row of metadata_catalog
    cuts,
    late,           \* history: ids two receivers had messages of at a time
    unwritten       \* history: ids whose write failed

linkVars == <<dialed, link, subscribed, cuts>>
loopVars == <<loop, conn, stopper>>
tables == <<recorded, metadata, sensors, unwritten>>
emsVars == <<loopVars, linkVars, published, queue, receiver, tables, late>>

Waiting == [at |-> "next", msg |-> 0]

EmsInit ==
    /\ loop = "check"
    /\ conn = NoConnection
    /\ dialed = 0
    /\ link = [c \in Connection |-> "none"]
    /\ subscribed = {}
    /\ stopper = "idle"
    /\ published = 0
    /\ queue = [c \in Connection |-> <<>>]
    /\ receiver = [c \in Connection |-> Waiting]
    /\ recorded = {}
    /\ metadata = [i \in Ids |-> 0]
    /\ sensors = [i \in Ids |-> 0]
    /\ cuts = 0
    /\ late = {}
    /\ unwritten = {}

-----------------------------------------------------------------------------
(* The connection loop.                                                    *)

Check ==
    /\ loop = "check"
    /\ loop' = IF stopper # "idle" THEN "gone" ELSE IF conn = NoConnection THEN "dial" ELSE "sleep"
    /\ UNCHANGED <<conn, stopper, linkVars>>

DialFails ==
    /\ loop = "dial" /\ loop' = "check"
    /\ UNCHANGED <<conn, stopper, linkVars>>

Dial ==
    /\ loop = "dial" /\ dialed < MaxConnections
    /\ dialed' = dialed + 1
    /\ link' = [link EXCEPT ![dialed'] = "up"]
    /\ loop' = "assign"
    /\ UNCHANGED <<conn, stopper, subscribed, cuts>>

Assign ==
    /\ loop = "assign"
    /\ conn' = dialed
    /\ loop' = "subscribe"
    /\ UNCHANGED <<stopper, linkVars>>

\* The library refuses on a connection it knows to be closed.
Subscription ==
    /\ loop = "subscribe"
    /\ IF link[dialed] = "closed" THEN loop' = "check" /\ UNCHANGED subscribed
       ELSE loop' = "sleep" /\ subscribed' = subscribed \cup {dialed}
    /\ UNCHANGED <<conn, stopper, dialed, link, cuts>>

PingNothing ==
    /\ loop = "sleep" /\ loop' = "check"
    /\ UNCHANGED <<conn, stopper, linkVars>>

Ping ==
    /\ loop = "sleep"
    /\ loop' = IF conn # NoConnection /\ link[conn] = "closed" THEN "drop" ELSE "check"
    /\ UNCHANGED <<conn, stopper, linkVars>>

Disconnect ==
    /\ conn' = NoConnection
    /\ link' = IF conn = NoConnection THEN link ELSE [link EXCEPT ![conn] = "closed"]

Drop ==
    /\ loop = "drop" /\ loop' = "check"
    /\ Disconnect
    /\ UNCHANGED <<stopper, dialed, subscribed, cuts>>

Close ==
    /\ stopper = "idle" /\ stopper' = "stopped"
    /\ UNCHANGED <<loop, conn, linkVars>>

StopDisconnects ==
    /\ stopper = "stopped" /\ stopper' = "done"
    /\ Disconnect
    /\ UNCHANGED <<loop, dialed, subscribed, cuts>>

\* The network, and the heart-beats of STOMP that find out.
Cut(c) ==
    /\ link[c] = "up" /\ cuts < MaxCuts
    /\ link' = [link EXCEPT ![c] = "cut"]
    /\ cuts' = cuts + 1
    /\ UNCHANGED <<loopVars, dialed, subscribed>>

Notice(c) ==
    /\ link[c] = "cut"
    /\ link' = [link EXCEPT ![c] = "closed"]
    /\ UNCHANGED <<loopVars, dialed, subscribed, cuts>>

LoopStep == Check \/ Assign \/ Subscription \/ Ping \/ Drop

Connecting ==
    /\ \/ LoopStep \/ Dial \/ DialFails \/ Close \/ StopDisconnects
       \/ \E c \in Connection : Cut(c) \/ Notice(c)
    /\ UNCHANGED <<published, queue, receiver, tables, late>>

-----------------------------------------------------------------------------
(* Messages.                                                               *)

Reached == {c \in subscribed : link[c] = "up"}

Publish ==
    /\ published < Len(Message)
    /\ published' = published + 1
    /\ queue' = [c \in Connection |-> IF c \in Reached THEN Append(queue[c], published') ELSE queue[c]]
    /\ UNCHANGED <<loopVars, linkVars, receiver, tables, late>>

\* Where a message of type t goes after step at.
After(at, t) ==
    CASE at = "record" /\ t \in {"sensor", "create"} -> "store"
      [] at = "store" /\ t = "sensor" -> "catalog"
      [] OTHER -> "next"

Go(c, m, at) ==
    LET to == After(at, Message[m].type)
    IN  receiver' = [receiver EXCEPT ![c] = IF to = "next" THEN Waiting ELSE [at |-> to, msg |-> m]]

\* Messages of id i that came over other connections and are not done.
Elsewhere(c, i) ==
    \E d \in Connection \ {c} :
        \/ receiver[d].at # "next" /\ Message[receiver[d].msg].id = i
        \/ \E k \in DOMAIN queue[d] : Message[queue[d][k]].id = i

Receive(c) ==
    /\ receiver[c].at = "next" /\ queue[c] # <<>>
    /\ LET m == Head(queue[c])
       IN  /\ recorded' = recorded \cup {m}
           /\ Go(c, m, "record")
           /\ late' = IF Elsewhere(c, Message[m].id) THEN late \cup {Message[m].id} ELSE late
    /\ queue' = [queue EXCEPT ![c] = Tail(@)]
    /\ UNCHANGED <<loopVars, linkVars, published, metadata, sensors, unwritten>>

(***************************************************************************)
(* Both writes replace what is there; a failure is logged, and that of the *)
(* first does not keep a sensor from the second.                           *)
(***************************************************************************)
PutIfNew(i, m) == metadata' = [metadata EXCEPT ![i] = IF @ = 0 THEN m ELSE @] /\ UNCHANGED unwritten
Put(i, m) == metadata' = [metadata EXCEPT ![i] = m] /\ UNCHANGED unwritten
PutFails(i) == unwritten' = unwritten \cup {i} /\ UNCHANGED metadata

StoreMessage(c) ==
    /\ receiver[c].at = "store"
    /\ LET m == receiver[c].msg
       IN  /\ Put(Message[m].id, m) \/ PutFails(Message[m].id)
           /\ Go(c, m, "store")
    /\ UNCHANGED <<loopVars, linkVars, published, queue, recorded, sensors, late>>

Catalog(c) ==
    /\ receiver[c].at = "catalog"
    /\ LET m == receiver[c].msg
       IN  /\ \/ sensors' = [sensors EXCEPT ![Message[m].id] = m] /\ UNCHANGED unwritten
              \/ unwritten' = unwritten \cup {Message[m].id} /\ UNCHANGED sensors
           /\ Go(c, m, "catalog")
    /\ UNCHANGED <<loopVars, linkVars, published, queue, recorded, metadata, late>>

Handle(c) == Receive(c) \/ StoreMessage(c) \/ Catalog(c)

-----------------------------------------------------------------------------

EmsNext == Connecting \/ Publish \/ \E c \in Connection : Handle(c)

(***************************************************************************)
(* The loop goes on, the broker accepts a connection if it is asked again  *)
(* and again, and heart-beats find a cut.                                  *)
(***************************************************************************)
EmsFairness ==
    /\ WF_emsVars(LoopStep /\ Connecting)
    /\ SF_emsVars(Dial /\ Connecting)
    /\ WF_emsVars(\E c \in Connection : Notice(c) /\ Connecting)

EmsSpec == EmsInit /\ [][EmsNext]_emsVars /\ EmsFairness

-----------------------------------------------------------------------------
(* Properties.                                                             *)

(***************************************************************************)
(* After the last cut the node listens to its topic again for good, unless *)
(* it was stopped: a connection without a subscription does not last.      *)
(***************************************************************************)
Listens == <>[](stopper # "idle" \/ (conn \in Reached))

(***************************************************************************)
(* When nothing is waiting, the store and the catalog show the last        *)
(* message that came about each sensor, unless one of its writes failed or *)
(* its messages came over two connections at a time.                       *)
(***************************************************************************)
SensorsUpToDate ==
    (\A c \in Connection : queue[c] = <<>> /\ receiver[c] = Waiting) =>
        \A m \in recorded :
            LET i == Message[m].id
            IN  Message[m].type = "sensor" /\ i \notin late \cup unwritten
                => metadata[i] >= m /\ sensors[i] >= m

=============================================================================
