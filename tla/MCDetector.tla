----------------------------- MODULE MCDetector -----------------------------
(***************************************************************************)
(* What a follower watches: its coordinator's heartbeats and its links to  *)
(* the other peers.  The two share no state here, so a behaviour is about  *)
(* one of them.                                                            *)
(***************************************************************************)
EXTENDS FailureDetector, Mesh

CONSTANTS a, b      \* peers

VARIABLE subject    \* what this behaviour is about

MCInit ==
    /\ Init
    /\ MeshInit
    /\ subject \in {"coordinator", "mesh"}
    /\ subject = "coordinator" => \A p \in Peer : link[p]

MCNext ==
    /\ \/ subject = "coordinator" /\ Next /\ UNCHANGED meshVars
       \/ subject = "mesh" /\ MeshNext /\ UNCHANGED vars
    /\ UNCHANGED subject

(***************************************************************************)
(* Of the mesh: the tickers fire, a dial and a healing that run come to an *)
(* end, libp2p notices a dead connection and live ones carry messages.     *)
(* Nothing says that a link is mended or that mDNS finds a peer.           *)
(***************************************************************************)
MCFairness ==
    /\ \A p \in Peer :
           WF_meshVars(Disconnected(p)) /\ WF_meshVars(Forget(p))
           /\ WF_meshVars(AttemptConnection(p)) /\ WF_meshVars(HealConnection(p))
           /\ WF_meshVars(HealPeer(p))
    /\ WF_meshVars(CheckMeshHealth)
    /\ WF_meshVars(EmergencyMeshHealing)
    /\ WF_meshVars(HealingEnds)
    /\ WF_meshVars(CooldownEnds)

MCSpec ==
    /\ MCInit /\ [][MCNext]_<<vars, meshVars, subject>>
    /\ subject = "mesh" => MCFairness

=============================================================================
