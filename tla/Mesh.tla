-------------------------------- MODULE Mesh --------------------------------
(***************************************************************************)
(* How a node finds its peers and stays connected to them: discovery and   *)
(* connection healing (api/discovery.go), and the mesh monitor of the      *)
(* election (reputationBasedElection.go), which heals a node that hears    *)
(* from nobody.  Seen from one node; the links to its peers are cut and    *)
(* come back.  At most one goroutine of attemptConnection runs per peer    *)
(* here, and two of emergencyMeshHealing share the peers they have left.   *)
(***************************************************************************)
EXTENDS Integers, FiniteSets

CONSTANTS
    Peer,
    ListsPeers,     \* whether ListPeers shows the peers of the topic ("returns
                    \* 0 with Kubo PubSub even when messages flow")
    MaxFailures,    \* failed attempts after which healing skips a peer (10)
    MaxRetries,     \* of attemptConnection (3)
    EmptyChecks,    \* empty checks in a row that start the healing (2)
    MaxCuts         \* bound on cuts of links

ASSUME MeshAssumption ==
    /\ ListsPeers \in BOOLEAN
    /\ {MaxFailures, MaxRetries, EmptyChecks} \subseteq Nat \ {0} /\ MaxCuts \in Nat

VARIABLES
    link,           \* link[p]: whether p can be reached
    cuts,           \* how often a link was cut
    connected,      \* peers the host is connected to
    recent,         \* peers heard within the last minute
    known,          \* peers of the service, which are the discovered ones
    attempts,       \* connectionAttempts
    dialing,        \* dialing[p]: the attempt attemptConnection is at, or 0
    emptyChecks,    \* consecutiveEmptyMeshChecks
    healing,        \* emergencyMeshHealing: "no", "due" or "running"
    toTry,          \* the peers it has not come to
    cooldown,       \* the last healing began within 30 s
    failures        \* history: failures[p] since the service last made a connection

linkVars == <<link, cuts, connected, recent>>
serviceVars == <<known, attempts, dialing, failures>>
monitorVars == <<emptyChecks, healing, toTry, cooldown>>
meshVars == <<linkVars, serviceVars, monitorVars>>

MeshInit ==
    /\ link \in [Peer -> BOOLEAN]
    /\ cuts = 0
    /\ connected = {}
    /\ recent = {}
    /\ known = {}
    /\ attempts = [p \in Peer |-> 0]
    /\ dialing = [p \in Peer |-> 0]
    /\ emptyChecks = 0
    /\ healing = "no"
    /\ toTry = {}
    /\ cooldown = FALSE
    /\ failures = [p \in Peer |-> 0]

-----------------------------------------------------------------------------
(* The network.                                                            *)

Cut(p) ==
    /\ link[p] /\ cuts < MaxCuts
    /\ link' = [link EXCEPT ![p] = FALSE]
    /\ cuts' = cuts + 1
    /\ UNCHANGED <<connected, recent, serviceVars, monitorVars>>

Mend(p) ==
    /\ ~link[p]
    /\ link' = [link EXCEPT ![p] = TRUE]
    /\ UNCHANGED <<cuts, connected, recent, serviceVars, monitorVars>>

\* A connection over a link that is cut is noticed to be gone.
Disconnected(p) ==
    /\ p \in connected /\ ~link[p]
    /\ connected' = connected \ {p}
    /\ UNCHANGED <<link, cuts, recent, serviceVars, monitorVars>>

\* Peers publish their reputation every 30 s, and pass on what others publish.
Hear(p) ==
    /\ connected # {} /\ p \notin recent
    /\ recent' = recent \cup {p}
    /\ UNCHANGED <<link, cuts, connected, serviceVars, monitorVars>>

Forget(p) ==
    /\ p \in recent \ connected
    /\ recent' = recent \ {p}
    /\ UNCHANGED <<link, cuts, connected, serviceVars, monitorVars>>

-----------------------------------------------------------------------------
(* Discovery.                                                              *)

UpdateConnectionSuccess(p) ==
    /\ attempts' = [attempts EXCEPT ![p] = 0]
    /\ failures' = [failures EXCEPT ![p] = 0]

Counted(n) == IF n > MaxFailures THEN n ELSE n + 1

CountFailure(p) ==
    /\ attempts' = [attempts EXCEPT ![p] = Counted(@)]
    /\ failures' = [failures EXCEPT ![p] = Counted(@)]

(***************************************************************************)
(* HandlePeerFound, of mDNS: attemptConnection may find itself too early   *)
(* after the last one.                                                     *)
(***************************************************************************)
PeerFound(p) ==
    /\ link[p] /\ dialing[p] = 0
    /\ known' = known \cup {p}
    /\ dialing' \in {[dialing EXCEPT ![p] = 1]}
                       \cup (IF p \in known THEN {dialing} ELSE {})
    /\ known' # known \/ dialing' # dialing
    /\ UNCHANGED <<linkVars, attempts, failures, monitorVars>>

AttemptConnection(p) ==
    /\ dialing[p] > 0
    /\ IF p \in connected \/ link[p]
       THEN /\ connected' = connected \cup {p}
            /\ UpdateConnectionSuccess(p)
            /\ dialing' = [dialing EXCEPT ![p] = 0]
       ELSE /\ dialing' = [dialing EXCEPT ![p] = IF @ = MaxRetries THEN 0 ELSE @ + 1]
            /\ IF dialing[p] = MaxRetries THEN UNCHANGED <<attempts, failures>>
               ELSE CountFailure(p)
            /\ UNCHANGED connected
    /\ UNCHANGED <<link, cuts, recent, known, monitorVars>>

(***************************************************************************)
(* healConnections, every 30 s, for one of the peers it knows.             *)
(***************************************************************************)
HealConnection(p) ==
    /\ p \in known \ connected
    /\ attempts[p] <= MaxFailures
    /\ IF link[p]
       THEN connected' = connected \cup {p} /\ UpdateConnectionSuccess(p)
       ELSE CountFailure(p) /\ UNCHANGED connected
    /\ UNCHANGED <<link, cuts, recent, known, dialing, monitorVars>>

-----------------------------------------------------------------------------
(* The mesh monitor.                                                       *)

MeshPeers == IF ListsPeers THEN connected ELSE {}

Silent == recent = {} /\ MeshPeers = {} /\ known # {}

CheckMeshHealth ==
    LET n == emptyChecks + 1
    IN  /\ emptyChecks' = IF Silent THEN IF n >= EmptyChecks THEN 0 ELSE n
                          ELSE IF recent # {} \/ MeshPeers # {} THEN 0 ELSE emptyChecks
        /\ healing' = IF Silent /\ n >= EmptyChecks /\ healing = "no" THEN "due" ELSE healing
        /\ <<emptyChecks, healing>>' # <<emptyChecks, healing>>
        /\ UNCHANGED <<linkVars, serviceVars, toTry, cooldown>>

\* Mutant: peers that connection healing has given up are left out.
NotGivenUp == {p \in known : attempts[p] <= MaxFailures}

AllDiscovered == known

EmergencyMeshHealing ==
    /\ healing = "due"
    /\ IF cooldown THEN healing' = "no" /\ UNCHANGED <<toTry, cooldown>>
       ELSE healing' = "running" /\ toTry' = AllDiscovered /\ cooldown' = TRUE
    /\ UNCHANGED <<linkVars, serviceVars, emptyChecks>>

\* The attempts of the service are not told.
HealPeer(p) ==
    /\ healing = "running" /\ p \in toTry
    /\ toTry' = toTry \ {p}
    /\ connected' = IF link[p] THEN connected \cup {p} ELSE connected
    /\ UNCHANGED <<link, cuts, recent, serviceVars, emptyChecks, healing, cooldown>>

HealingEnds ==
    /\ healing = "running" /\ toTry = {}
    /\ healing' = "no"
    /\ emptyChecks' \in IF MeshPeers = {} THEN {emptyChecks + 1}
                        ELSE {0, emptyChecks}   \* more peers than before, or not
    /\ UNCHANGED <<linkVars, serviceVars, toTry, cooldown>>

CooldownEnds ==
    /\ cooldown
    /\ cooldown' = FALSE
    /\ UNCHANGED <<linkVars, serviceVars, emptyChecks, healing, toTry>>

-----------------------------------------------------------------------------
MeshNext ==
    \/ \E p \in Peer :
         \/ Cut(p) \/ Mend(p) \/ Disconnected(p) \/ Hear(p) \/ Forget(p)
         \/ PeerFound(p) \/ AttemptConnection(p) \/ HealConnection(p) \/ HealPeer(p)
    \/ CheckMeshHealth \/ EmergencyMeshHealing \/ HealingEnds \/ CooldownEnds

MeshSpec == MeshInit /\ [][MeshNext]_meshVars

-----------------------------------------------------------------------------
(* Properties.                                                             *)

(***************************************************************************)
(* A peer that was found once and can be reached is connected again, unless*)
(* more attempts in a row have failed than healConnections makes; then too *)
(* if the node hears from nobody: the mesh monitor tries every peer.       *)
(***************************************************************************)
PeersReturn ==
    \A p \in Peer :
        p \in known /\ link[p] ~>
            \/ p \in connected \/ ~link[p]
            \/ failures[p] > MaxFailures /\ (recent # {} \/ MeshPeers # {})

=============================================================================
