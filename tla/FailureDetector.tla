-------------------------- MODULE FailureDetector --------------------------
(***************************************************************************)
(* The failure detector of a follower (CheckLeaderFailure) and the         *)
(* heartbeats it listens to (sendHeartbeats, handleMessage,                *)
(* handleHeartbeat), in discrete time: Second lets one second pass when    *)
(* nothing is due.  Module Election has the elections this starts, without *)
(* a clock; here they are a flag and an announcement.                      *)
(***************************************************************************)
EXTENDS RateLimiter, FiniteSets

CONSTANTS
    HeartbeatInterval,  \* heartbeatInterval (5)
    StartDelay,         \* of a sendHeartbeats goroutine after its election (2)
    HeartbeatTimeout,   \* heartbeatTimeout (15)
    CheckInterval,      \* the ticker of CheckLeaderFailure (3)
    RetryLimit,         \* heartbeatRetryLimit (3)
    RequiredFailures,   \* requiredConsecutiveFailures (3)
    MaxBackoff,         \* of the random wait before an election (5)
    RecentWindow,       \* of hasRecentMessagePeers (60)
    MaxDelay,           \* bound: a heartbeat's publish retries and transport
    MaxLost,            \* bound: heartbeats lost in a row
    MaxLoops,           \* bound: sendHeartbeats goroutines of one coordinator
    MaxAnnounced        \* bound: announcements the follower hears

ASSUME DetectorAssumption ==
    /\ {HeartbeatInterval, HeartbeatTimeout, CheckInterval, RetryLimit,
        RequiredFailures, RecentWindow, MaxLoops} \subseteq Nat \ {0}
    /\ {StartDelay, MaxLost, MaxAnnounced} \subseteq Nat
    /\ MaxBackoff \in 0 .. HeartbeatTimeout
    /\ MaxDelay \in 0 .. HeartbeatInterval - 1
    /\ HeartbeatTimeout < RecentWindow

VARIABLES
    leader,       \* the coordinator process: alive or crashed
    loops,        \* its heartbeat goroutines: the seconds to the next send
    flight,       \* the heartbeat each has under way: the seconds to go
    lost,         \* heartbeats lost in a row
    announced,    \* announcements heard (a bound)
    limiter,      \* the rate limiter's record of the coordinator
    silence,      \* seconds since lastHeartbeat; None while it is zero
    quiet,        \* seconds since any message of the coordinator; None at first
    heartbeatMissed, consecutiveHeartbeatFailures,
    tickIn,       \* seconds to the next tick
    tickReady,    \* a tick waits in the ticker's channel
    backoff,      \* seconds left of the random wait; None outside it
    electing,     \* isElecting
    suspected     \* history: the failure was confirmed in this silence

leaderVars == <<leader, loops, flight, lost, announced>>
counters == <<heartbeatMissed, consecutiveHeartbeatFailures>>
tickVars == <<tickIn, tickReady>>
vars == <<leaderVars, limiter, silence, quiet, counters, tickVars, backoff,
          electing, suspected>>

None == -1
Loops == 1 .. MaxLoops
FirstLoop(t) == [i \in Loops |-> IF i = 1 THEN t ELSE None]
NothingSent == [i \in Loops |-> None]

(***************************************************************************)
(* Seconds are not counted beyond what any comparison can see.             *)
(***************************************************************************)
Longest == RecentWindow + 1
Longer(t) == IF t = None \/ t = Longest THEN t ELSE t + 1
Sooner(t) == IF t = None THEN None ELSE t - 1

Init ==
    /\ leader = "alive"
    /\ loops = FirstLoop(HeartbeatInterval)
    /\ flight = NothingSent
    /\ lost = 0
    /\ announced = 0
    /\ limiter = FreshLimiter
    /\ silence = None
    /\ quiet = None
    /\ heartbeatMissed = 0
    /\ consecutiveHeartbeatFailures = 0
    /\ tickIn = CheckInterval
    /\ tickReady = FALSE
    /\ backoff = None
    /\ electing = FALSE
    /\ suspected = FALSE

ResetCounters == heartbeatMissed' = 0 /\ consecutiveHeartbeatFailures' = 0

HeardOfLeader == silence' = 0 /\ suspected' = FALSE /\ ResetCounters

-----------------------------------------------------------------------------
(* The coordinator.                                                        *)

(***************************************************************************)
(* A tick of sendHeartbeats: the heartbeat is published after some retries *)
(* or given up, or it is lost on its way.                                  *)
(***************************************************************************)
SendHeartbeat(i) ==
    /\ loops[i] = 0
    /\ loops' = [loops EXCEPT ![i] = HeartbeatInterval]
    /\ \/ /\ lost < MaxLost
          /\ lost' = lost + 1
          /\ UNCHANGED flight
       \/ /\ lost' = 0
          /\ \E d \in 0 .. MaxDelay : flight' = [flight EXCEPT ![i] = d]
    /\ UNCHANGED <<leader, announced, limiter, silence, quiet, counters,
                   tickVars, backoff, electing, suspected>>

Crash ==
    /\ leader = "alive"
    /\ leader' = "crashed"
    /\ loops' = NothingSent
    /\ UNCHANGED <<flight, lost, announced, limiter, silence, quiet, counters,
                   tickVars, backoff, electing, suspected>>

(***************************************************************************)
(* An election, of any node, ends in an announcement.  The coordinator     *)
(* that announces itself again starts one more goroutine: the earlier ones *)
(* only stop when they see another role.  Another peer comes with a        *)
(* limiter record of its own.                                              *)
(***************************************************************************)
Announced ==
    /\ announced < MaxAnnounced
    /\ announced' = announced + 1
    /\ HeardOfLeader
    /\ UNCHANGED <<lost, quiet, tickVars, backoff, electing>>

CoordinatorAgain ==
    /\ leader = "alive"
    /\ \E i \in Loops :
           /\ loops[i] = None
           /\ \A j \in Loops : j < i => loops[j] # None
           /\ loops' = [loops EXCEPT ![i] = StartDelay + HeartbeatInterval]
    /\ UNCHANGED <<leader, flight, limiter>>
    /\ Announced

OtherCoordinator ==
    /\ leader' = "alive"
    /\ loops' = FirstLoop(StartDelay + HeartbeatInterval)
    /\ flight' = NothingSent
    /\ limiter' = FreshLimiter
    /\ Announced

-----------------------------------------------------------------------------
(* The follower.                                                           *)

(***************************************************************************)
(* The listener notes that it heard from the peer before the limiter looks *)
(* at the message.                                                         *)
(***************************************************************************)
HandleHeartbeat(i) ==
    /\ flight[i] = 0
    /\ flight' = [flight EXCEPT ![i] = None]
    /\ quiet' = 0
    /\ limiter' = AllowMessage(limiter)
    /\ IF Allows(limiter)
       THEN HeardOfLeader
       ELSE UNCHANGED <<silence, counters, suspected>>
    /\ UNCHANGED <<leader, loops, lost, announced, tickVars, backoff, electing>>

(***************************************************************************)
(* The ticker keeps one tick for a loop that is busy and drops the rest.   *)
(***************************************************************************)
TickerFires ==
    /\ tickIn = 0
    /\ tickIn' = CheckInterval
    /\ tickReady' = TRUE
    /\ UNCHANGED <<leaderVars, limiter, silence, quiet, counters, backoff,
                   electing, suspected>>

TakeTick ==
    /\ tickReady
    /\ backoff = None
    /\ tickReady' = FALSE
    /\ UNCHANGED <<leaderVars, limiter, quiet, tickIn, electing>>

FirstCheck ==
    /\ silence = None
    /\ silence' = 0
    /\ UNCHANGED <<counters, backoff, suspected>>
    /\ TakeTick

CheckInTime ==
    /\ silence \in 0 .. HeartbeatTimeout
    /\ ResetCounters
    /\ UNCHANGED <<silence, backoff, suspected>>
    /\ TakeTick

ConfirmedByOne == heartbeatMissed + 1 >= 1

ConfirmedLate ==
    /\ heartbeatMissed + 1 > RetryLimit
    /\ consecutiveHeartbeatFailures + 1 > RequiredFailures

Confirmed ==
    /\ heartbeatMissed + 1 >= RetryLimit
    /\ consecutiveHeartbeatFailures + 1 >= RequiredFailures

Miss ==
    /\ silence > HeartbeatTimeout
    /\ ~Confirmed
    /\ heartbeatMissed' = heartbeatMissed + 1
    /\ consecutiveHeartbeatFailures' = consecutiveHeartbeatFailures + 1
    /\ UNCHANGED <<silence, backoff, suspected>>
    /\ TakeTick

(***************************************************************************)
(* The third miss in a row.  The leader has failed: wait a random time.    *)
(* Only a node whose mesh looks empty (which it sees or not) and that      *)
(* heard nothing lately blames the mesh instead.                           *)
(***************************************************************************)
ConfirmFailure ==
    /\ silence > HeartbeatTimeout
    /\ Confirmed
    /\ ResetCounters
    /\ backoff' \in 0 .. MaxBackoff
    /\ suspected' = TRUE
    /\ UNCHANGED silence
    /\ TakeTick

BlameMesh ==
    /\ silence > HeartbeatTimeout
    /\ Confirmed
    /\ quiet = None \/ quiet > RecentWindow
    /\ ResetCounters
    /\ suspected' = TRUE
    /\ UNCHANGED <<silence, backoff>>
    /\ TakeTick

(***************************************************************************)
(* After the wait: an election, unless the node is in one already.         *)
(***************************************************************************)
StartReelection ==
    /\ backoff = 0
    /\ backoff' = None
    /\ electing' = TRUE
    /\ UNCHANGED <<leaderVars, limiter, silence, quiet, counters, tickVars,
                   suspected>>

EndElection ==
    /\ electing
    /\ electing' = FALSE
    /\ UNCHANGED <<leaderVars, limiter, silence, quiet, counters, tickVars,
                   backoff, suspected>>

-----------------------------------------------------------------------------
(* Time.                                                                   *)

Due ==
    \/ \E i \in Loops : loops[i] = 0 \/ flight[i] = 0
    \/ tickIn = 0
    \/ tickReady /\ backoff = None
    \/ backoff = 0

Second ==
    /\ ~Due
    /\ loops' = [i \in Loops |-> Sooner(loops[i])]
    /\ flight' = [i \in Loops |-> Sooner(flight[i])]
    /\ limiter' = Aged(limiter)
    /\ silence' = Longer(silence)
    /\ quiet' = Longer(quiet)
    /\ tickIn' = tickIn - 1
    /\ backoff' = Sooner(backoff)
    /\ UNCHANGED <<leader, lost, announced, counters, tickReady, electing,
                   suspected>>

Check == FirstCheck \/ CheckInTime \/ Miss \/ ConfirmFailure \/ BlameMesh

Coordinator == \E i \in Loops : SendHeartbeat(i)

Listener == \E i \in Loops : HandleHeartbeat(i)

Announcement == CoordinatorAgain \/ OtherCoordinator

Next ==
    \/ Coordinator \/ Crash \/ Announcement \/ Listener
    \/ TickerFires \/ Check \/ StartReelection \/ EndElection
    \/ Second

Spec == Init /\ [][Next]_vars

-----------------------------------------------------------------------------
(* Properties.                                                             *)

(***************************************************************************)
(* The misses in a row that confirm a failure.                             *)
(***************************************************************************)
MissLimit == IF RetryLimit > RequiredFailures THEN RetryLimit ELSE RequiredFailures

(***************************************************************************)
(* CheckLeaderFailure gives a coordinator up only when it is gone: the     *)
(* heartbeats that may be lost or late, the ticks and the counters never   *)
(* add up to a failure of one that runs.                                   *)
(***************************************************************************)
NoFalseAlarm == [][ConfirmFailure \/ BlameMesh => leader = "crashed"]_vars

(***************************************************************************)
(* A coordinator that is not heard of for the timeout and as many checks   *)
(* as make a failure has been given up, whatever the loop did meanwhile.   *)
(***************************************************************************)
DetectedInTime ==
    silence > HeartbeatTimeout + MissLimit * CheckInterval => suspected

=============================================================================
