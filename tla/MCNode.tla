------------------------------- MODULE MCNode -------------------------------
(***************************************************************************)
(* The goroutines of one node that share no state: the lineage queue, the  *)
(* command service, the external messages.  A behaviour is about one of    *)
(* them: the others stay where they are.                                   *)
(***************************************************************************)
EXTENDS LineageQueue, Service, Messaging

CONSTANTS p2, p3, p4, g1

VARIABLE subject    \* what this behaviour is about

mcVars == <<vars, serviceVars, emsVars, subject>>

Kinds == [c \in Command |-> IF c = g1 THEN "get" ELSE "post"]

\* Posts by HTTP are alike; they come in the order of their names.
InOrder ==
    /\ step[p3] # "idle" => step[p2] # "idle"
    /\ step[p4] # "idle" => step[p3] # "idle"

Messages == <<[type |-> "sensor", id |-> "s"], [type |-> "create", id |-> "d"],
              [type |-> "sensor", id |-> "s"], [type |-> "garbled", id |-> "g"]>>

-----------------------------------------------------------------------------

MCInit ==
    /\ Init
    /\ ServiceInit
    /\ EmsInit
    /\ subject \in {"lineage", "service", "messages"}
    /\ subject # "service" => contributions /\ validationsOpen

MCNext ==
    /\ \/ subject = "lineage" /\ Next /\ UNCHANGED <<serviceVars, emsVars>>
       \/ subject = "service" /\ ServiceNext /\ InOrder' /\ UNCHANGED <<vars, emsVars>>
       \/ subject = "messages" /\ EmsNext /\ UNCHANGED <<vars, serviceVars>>
    /\ UNCHANGED subject

MCSpec ==
    /\ MCInit /\ [][MCNext]_mcVars
    /\ subject = "lineage" => \A w \in Worker : WF_vars(LineageWorker(w))
    /\ subject = "messages" => EmsFairness

-----------------------------------------------------------------------------

(***************************************************************************)
(* Listens of the behaviours that are about the messages: after the last   *)
(* cut the loop of ems_service.go gets the node back on its topic.         *)
(***************************************************************************)
NodeListens == subject = "messages" => Listens

=============================================================================
