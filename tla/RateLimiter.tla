---------------------------- MODULE RateLimiter ----------------------------
(***************************************************************************)
(* MessageRateLimiter of election/reputationBasedElection.go, for the      *)
(* messages of one type that come from one peer.  Times are seconds.       *)
(***************************************************************************)
EXTENDS Integers

CONSTANTS
    MinInterval,   \* between two messages of the type (4 for heartbeats)
    BanThreshold,  \* violations that ban the peer (10 in the code)
    BanTime        \* length of a ban (120 in the code)

ASSUME LimiterAssumption ==
    /\ MinInterval \in Nat \ {0}
    /\ BanThreshold \in Nat \ {0}
    /\ BanTime \in Nat \ {0}

(***************************************************************************)
(* What the limiter keeps: the time since the last message it let pass (as *)
(* far as it matters; at first there is none), the violations not yet      *)
(* forgiven, the seconds the ban has left, and whether there is one.       *)
(***************************************************************************)
FreshLimiter ==
    [age |-> MinInterval + 1, violators |-> 0, banned |-> FALSE, ban |-> 0]

(***************************************************************************)
(* The limiter after an expired ban is cleared.                            *)
(***************************************************************************)
Cleared(lim) ==
    IF lim.banned /\ lim.ban = 0
    THEN [lim EXCEPT !.banned = FALSE, !.violators = 0]
    ELSE lim

Allows(lim) ==
    LET l == Cleared(lim) IN ~l.banned /\ l.age >= MinInterval

(***************************************************************************)
(* A message refused under a ban changes nothing; one that comes too early *)
(* is a violation; one that passes forgives a violation.                   *)
(***************************************************************************)
Passed(lim) ==
    [Cleared(lim) EXCEPT !.age = 0, !.violators = IF @ > 0 THEN @ - 1 ELSE 0]

Refused(lim) ==
    LET l == Cleared(lim)
    IN  IF l.banned THEN l
        ELSE IF l.violators + 1 >= BanThreshold
        THEN [l EXCEPT !.violators = @ + 1, !.banned = TRUE, !.ban = BanTime]
        ELSE [l EXCEPT !.violators = @ + 1]

AllowMessage(lim) == IF Allows(lim) THEN Passed(lim) ELSE Refused(lim)

(***************************************************************************)
(* A second passes.                                                        *)
(***************************************************************************)
Aged(lim) ==
    [lim EXCEPT !.age = IF @ <= MinInterval THEN @ + 1 ELSE @,
                !.ban = IF @ > 0 THEN @ - 1 ELSE 0]

=============================================================================
