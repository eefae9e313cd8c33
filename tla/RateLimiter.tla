----------------------------- MODULE RateLimiter -----------------------------
(***************************************************************************)
(* agent/pkg/security/ratelimit.go, for the address of one client.  The    *)
(* time since lastError is what is left of the block, in ticks; it is only *)
(* looked at while the address is blocked.                                 *)
(***************************************************************************)
EXTENDS Integers

CONSTANTS
    MaxFails,  \* maxFails (5)
    Duration   \* duration (5 minutes), in ticks

ASSUME LimiterAssumption == MaxFails \in Nat \ {0} /\ Duration \in Nat

VARIABLES
    count,    \* attempt.count, 0 when there is no attempt
    blocked,  \* attempt.blocked
    rest      \* how much of the block is left

limiter == <<count, blocked, rest>>

\* An address is blocked exactly while its failures have reached the limit.
LimiterOK ==
    /\ count \in Nat
    /\ rest \in 0 .. Duration
    /\ blocked <=> count >= MaxFails

LimiterInit == count = 0 /\ blocked = FALSE /\ rest = 0

\* Each attempt during a block starts it anew.
F_RefusesAndExtends ==
    /\ blocked
    /\ rest > 0
    /\ rest' = Duration
    /\ UNCHANGED <<count, blocked>>

\* The two results of IsBlocked; a block that is over is lifted by the call.
Refuses == blocked /\ rest > 0 /\ UNCHANGED limiter

\* A block is lifted and its failures still count.
F_AdmitsUncleared ==
    /\ ~(blocked /\ rest > 0)
    /\ blocked' = FALSE
    /\ UNCHANGED <<count, rest>>

Admits ==
    /\ ~(blocked /\ rest > 0)
    /\ blocked' = FALSE
    /\ count' = IF blocked THEN 0 ELSE count
    /\ UNCHANGED rest

RecordFail ==
    /\ count' = count + 1
    /\ blocked' = (count' >= MaxFails)
    /\ rest' = IF count' >= MaxFails THEN Duration ELSE rest

Reset == count' = 0 /\ blocked' = FALSE /\ rest' = 0

Elapses == rest > 0 /\ rest' = rest - 1 /\ UNCHANGED <<count, blocked>>
==============================================================================
