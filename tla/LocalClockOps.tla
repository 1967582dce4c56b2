---------------------------- MODULE LocalClockOps ----------------------------
(***************************************************************************)
(* The LocalClock class of local_clock.cpp as operators on one record: each *)
(* method that changes the object is a function from the record before the  *)
(* call to the record after it, each const method a function of the record  *)
(* and of the time the method reads.                                        *)
(*                                                                          *)
(* Time is counted in milliseconds.  One second is 1000 of them, the literal*)
(* the code uses; every other threshold is a constant named as in config.h. *)
(*                                                                          *)
(* Abstracted: freqPpm_ and the die temperature (they bend an extrapolation *)
(* by microseconds per second, below one unit of time here), and the older  *)
(* entries of the edge ring, which only feed freqPpm_.  The newest entry of *)
(* the ring is lastEdgeUs whenever edgeCount > 0.                           *)
(***************************************************************************)
EXTENDS Integers

CONSTANTS
    CLK_RESIDUAL_RELOCK_MS,      \* residual a relocking commit may have
    CLK_RESIDUAL_WARN_MS,        \* quality floor of Degraded
    CLK_RESIDUAL_FAIL_MS,        \* residual that applies the anomaly policy
    CLK_LOCKED_SLEW_MS,          \* residual that slews a locked anchor
    CLK_RELOCK_COUNT,            \* agreeing commits before Locked
    CLK_PPS_INTERVAL_MAX_ERR,    \* outlier gate on a one-second interval
    CLK_PPS_RESUME_GAP,          \* an interval this long is a new pulse stream
    CLK_PPS_UNSTABLE_COUNT,      \* outliers in a row that lose the sync
    CLK_PPS_MISS_UNSYNC,         \* missed pulses that lose the sync
    CLK_PPS_EDGE_RING,           \* capacity of the edge ring
    CLK_HOLDOVER_ENTRY_MS,       \* uncertainty booked for a holdover
    CLK_HOLDOVER_MAX_QUALITY_MS, \* quality that ends a holdover
    CLK_HOLDOVER_PPM,            \* growth of the dispersion in a holdover
    RESIDUAL_MAX                 \* largest value of an int32_t

Second == 1000

ASSUME ThresholdsAssumption ==
    /\ CLK_RESIDUAL_RELOCK_MS \in Nat
    /\ CLK_RESIDUAL_WARN_MS \in Nat
    /\ CLK_RESIDUAL_FAIL_MS \in Nat
    /\ CLK_LOCKED_SLEW_MS \in Nat
    /\ 2 * CLK_RESIDUAL_RELOCK_MS < Second   \* no two seconds agree with one

ASSUME CountsAssumption ==
    /\ CLK_RELOCK_COUNT \in Nat /\ CLK_RELOCK_COUNT >= 2
    /\ CLK_PPS_UNSTABLE_COUNT \in Nat
    /\ CLK_PPS_MISS_UNSYNC \in Nat /\ CLK_PPS_MISS_UNSYNC >= 2
    /\ CLK_PPS_EDGE_RING \in Nat /\ CLK_PPS_EDGE_RING >= 2

ASSUME IntervalsAssumption ==
    /\ CLK_PPS_INTERVAL_MAX_ERR \in Nat
    /\ CLK_PPS_RESUME_GAP \in Nat

ASSUME HoldoverAssumption ==
    /\ CLK_HOLDOVER_ENTRY_MS \in Nat
    /\ CLK_HOLDOVER_MAX_QUALITY_MS \in Nat
    /\ CLK_HOLDOVER_PPM \in Nat
    /\ RESIDUAL_MAX \in Nat

ClockState == {"Acquiring", "Locked", "Degraded", "Holdover", "Unsynced"}

\* Refuse, or any of the Hold presets (they differ in holdoverSec only).
AnomalyPolicy == {"Refuse", "Hold"}

\* uint32_t 0xFFFFFFFF of qualityMs: no quality to speak of.
NoQuality == RESIDUAL_MAX

LocalClockObject ==
    [ state           : ClockState,
      edgeCount       : 0..CLK_PPS_EDGE_RING,
      lastEdgeUs      : Nat,
      lastPpsCount    : Nat,
      ppsStable       : BOOLEAN,
      ppsBadStreak    : 0..255,
      haveAnchor      : BOOLEAN,
      anchorUtcSec    : Nat,
      anchorEdgeUs    : Nat,
      residualMs      : (-RESIDUAL_MAX - 1)..RESIDUAL_MAX,
      okStreak        : 0..255,
      holdoverStartUs : Nat ]

Reset ==
    [ state |-> "Acquiring", edgeCount |-> 0, lastEdgeUs |-> 0,
      lastPpsCount |-> 0, ppsStable |-> FALSE, ppsBadStreak |-> 0,
      haveAnchor |-> FALSE, anchorUtcSec |-> 0, anchorEdgeUs |-> 0,
      residualMs |-> 0, okStreak |-> 0, holdoverStartUs |-> 0 ]

-----------------------------------------------------------------------------
(* Numbers.                                                                 *)

Abs(x) == IF x >= 0 THEN x ELSE -x

\* lround to a 32-bit long saturates at both ends.
ToInt32(x) ==
    IF x > RESIDUAL_MAX THEN RESIDUAL_MAX
    ELSE IF x < -RESIDUAL_MAX - 1 THEN -RESIDUAL_MAX - 1
    ELSE x

\* r >= 0 ? r : -r on an int32_t: the most negative value is its own negation.
AbsInt32(r) == IF r = -RESIDUAL_MAX - 1 THEN r ELSE Abs(r)

-----------------------------------------------------------------------------
(* Transitions between states.                                              *)

\* The three states nowUtc serves time in.
Serving(c) == c.state \in {"Locked", "Degraded", "Holdover"}

\* Fault: every failure restarts the age of the holdover.
EnterHoldoverRestarting(c, now) ==
    [c EXCEPT !.holdoverStartUs = now, !.state = "Holdover", !.okStreak = 0]

EnterHoldover(c, now) ==
    [c EXCEPT !.holdoverStartUs = IF c.state = "Holdover" THEN @ ELSE now,
              !.state = "Holdover",
              !.okStreak = 0]

\* Fault: the start of the holdover is left behind.
EnterUnsyncedKeepingStart(c) ==
    [c EXCEPT !.state = "Unsynced", !.okStreak = 0, !.haveAnchor = FALSE,
              !.ppsBadStreak = 0, !.ppsStable = (c.edgeCount >= 2)]

EnterUnsynced(c) ==
    [c EXCEPT !.state = "Unsynced",
              !.okStreak = 0,
              !.holdoverStartUs = 0,
              !.haveAnchor = FALSE,
              !.ppsBadStreak = 0,
              !.ppsStable = (c.edgeCount >= 2)]

\* Fault: Holdover left out of the states an unstable pulse stream ends.
LoseSyncIfNotHolding(c, lost) ==
    IF lost /\ c.state \in {"Locked", "Degraded"} THEN EnterUnsynced(c) ELSE c

LoseSyncIf(c, lost) == IF lost /\ Serving(c) THEN EnterUnsynced(c) ELSE c

ApplyFail(c, policy, holdoverSec, now) ==
    IF policy # "Refuse" /\ holdoverSec # 0 /\ c.ppsStable /\ c.haveAnchor
    THEN EnterHoldover(c, now)
    ELSE EnterUnsynced(c)

-----------------------------------------------------------------------------
(* A pulse of the receiver.                                                 *)

\* Pulses since the last one consumed; a first or a repeated count is one.
PpsDelta(c, ppsCount) ==
    IF c.lastPpsCount # 0 /\ ppsCount > c.lastPpsCount
    THEN ppsCount - c.lastPpsCount
    ELSE 1

HasPrev(c, edgeUs) == c.edgeCount > 0 /\ edgeUs > c.lastEdgeUs

IsResume(c, edgeUs) ==
    HasPrev(c, edgeUs) /\ edgeUs - c.lastEdgeUs >= CLK_PPS_RESUME_GAP

\* Fault: only a late pulse is an outlier, not an early one.
IsOutlierLate(c, edgeUs, delta) ==
    /\ HasPrev(c, edgeUs)
    /\ ~IsResume(c, edgeUs)
    /\ delta = 1
    /\ edgeUs - c.lastEdgeUs - Second > CLK_PPS_INTERVAL_MAX_ERR

IsOutlier(c, edgeUs, delta) ==
    /\ HasPrev(c, edgeUs)
    /\ ~IsResume(c, edgeUs)
    /\ delta = 1
    /\ Abs(edgeUs - c.lastEdgeUs - Second) > CLK_PPS_INTERVAL_MAX_ERR

PpsHealthy(badStreak, edgeCount) ==
    badStreak < CLK_PPS_UNSTABLE_COUNT /\ edgeCount >= 2

\* uint8_t streak: the guard stops it near the top, the sum wraps at 256.
BumpStreak(badStreak, delta) ==
    IF badStreak < 250 THEN (badStreak + delta) % 256 ELSE badStreak

\* Fault: the count of a glitch is not absorbed.
RejectEdgeUncounted(c, ppsCount) ==
    LET bad == IF c.ppsBadStreak < 255 THEN c.ppsBadStreak + 1 ELSE c.ppsBadStreak
        stable == PpsHealthy(bad, c.edgeCount)
    IN LoseSyncIf([c EXCEPT !.ppsBadStreak = bad, !.ppsStable = stable], ~stable)

\* The early return on a glitch: the count is absorbed, nothing walks.
RejectEdge(c, ppsCount) ==
    LET bad == IF c.ppsBadStreak < 255 THEN c.ppsBadStreak + 1 ELSE c.ppsBadStreak
        stable == PpsHealthy(bad, c.edgeCount)
    IN LoseSyncIf([c EXCEPT !.ppsBadStreak = bad,
                            !.lastPpsCount = ppsCount,
                            !.ppsStable = stable], ~stable)

\* A pulse after a long gap starts the ring again and ends what was served.
RestartStream(c) ==
    LoseSyncIf([c EXCEPT !.edgeCount = 0, !.ppsBadStreak = 0], TRUE)

\* The streak after an accepted interval of delta pulses.
CountMisses(c, edgeUs, delta) ==
    LET prev == HasPrev(c, edgeUs)
        bad == IF delta > 1 /\ (prev \/ c.edgeCount = 0)
                 THEN BumpStreak(c.ppsBadStreak, delta)
               ELSE IF delta = 1 /\ prev THEN 0
               ELSE c.ppsBadStreak
    IN [c EXCEPT !.ppsBadStreak = bad]

\* Fault: the count of the ring is not capped.
PushEdgeUncapped(c, edgeUs, ppsCount) ==
    [c EXCEPT !.edgeCount = c.edgeCount + 1,
              !.lastEdgeUs = edgeUs,
              !.lastPpsCount = ppsCount,
              !.ppsStable = PpsHealthy(c.ppsBadStreak, c.edgeCount + 1)]

PushEdge(c, edgeUs, ppsCount) ==
    LET n == IF c.edgeCount < CLK_PPS_EDGE_RING THEN c.edgeCount + 1 ELSE c.edgeCount
    IN [c EXCEPT !.edgeCount = n,
                 !.lastEdgeUs = edgeUs,
                 !.lastPpsCount = ppsCount,
                 !.ppsStable = PpsHealthy(c.ppsBadStreak, n)]

\* Fault: a catch-up leaves the pulse stream stable.
WalkUtcTrusting(c, edgeUs, delta) ==
    IF ~(c.haveAnchor /\ Serving(c)) THEN c
    ELSE IF delta >= CLK_PPS_MISS_UNSYNC THEN EnterUnsynced(c)
    ELSE [c EXCEPT !.anchorUtcSec = @ + delta, !.anchorEdgeUs = edgeUs]

\* Once disciplined, UTC walks with the pulses.
WalkUtc(c, edgeUs, delta) ==
    IF ~(c.haveAnchor /\ Serving(c)) THEN c
    ELSE IF delta >= CLK_PPS_MISS_UNSYNC THEN EnterUnsynced(c)
    ELSE IF c.ppsStable /\ delta = 1
      THEN [c EXCEPT !.anchorUtcSec = @ + 1, !.anchorEdgeUs = edgeUs]
    ELSE IF delta > 1
      THEN [c EXCEPT !.anchorUtcSec = @ + delta,
                     !.anchorEdgeUs = edgeUs,
                     !.ppsBadStreak = BumpStreak(@, 1),
                     !.ppsStable = FALSE]
    ELSE c

AcceptEdge(c, edgeUs, ppsCount, delta) ==
    LET counted == IF IsResume(c, edgeUs) THEN RestartStream(c)
                   ELSE CountMisses(c, edgeUs, delta)
        walked == WalkUtc(PushEdge(counted, edgeUs, ppsCount), edgeUs, delta)
    IN LoseSyncIf(walked, ~walked.ppsStable)

OnPpsEdge(c, edgeUs, ppsCount) ==
    LET delta == PpsDelta(c, ppsCount)
    IN IF IsOutlier(c, edgeUs, delta)
       THEN RejectEdge(c, ppsCount)
       ELSE AcceptEdge(c, edgeUs, ppsCount, delta)
-----------------------------------------------------------------------------
(* What the clock tells its readers.                                        *)

\* The local time of an instant, in milliseconds of UTC.
CanExtrapolate(c, atUs) == c.haveAnchor /\ atUs >= c.anchorEdgeUs
Extrapolate(c, atUs) == c.anchorUtcSec * Second + (atUs - c.anchorEdgeUs)

HasNowUtc(c, now) == Serving(c) /\ CanExtrapolate(c, now)
NowUtc(c, now) == Extrapolate(c, now)

HoldoverElapsedMs(c, now) ==
    IF c.state # "Holdover" \/ c.holdoverStartUs = 0 \/ now < c.holdoverStartUs
    THEN 0
    ELSE now - c.holdoverStartUs

QualityMs(c, now) ==
    LET Max2(a, b) == IF a >= b THEN a ELSE b
        base == Max2(5, Abs(c.residualMs))
        aged == CLK_HOLDOVER_ENTRY_MS
                  + (CLK_HOLDOVER_PPM * HoldoverElapsedMs(c, now)) \div 1000000
    IN IF ~Serving(c) \/ ~c.haveAnchor THEN NoQuality
       ELSE IF c.state = "Degraded" THEN Max2(base, CLK_RESIDUAL_WARN_MS)
       ELSE IF c.state = "Holdover" THEN base + aged
       ELSE base

-----------------------------------------------------------------------------
(* A second committed from the NMEA stream.                                 *)

SetAnchor(c, utcSec, edgeUs) ==
    [c EXCEPT !.haveAnchor = TRUE, !.anchorUtcSec = utcSec, !.anchorEdgeUs = edgeUs]

\* Only a stable pulse stream gets a first anchor.
Bootstrap(c, utcAtLastEdge) ==
    IF c.ppsStable
    THEN [SetAnchor(c, utcAtLastEdge, c.lastEdgeUs)
            EXCEPT !.residualMs = 0, !.state = "Acquiring", !.okStreak = 1]
    ELSE c

\* The second NMEA names against the one the local clock has at the last edge.
Residual(c, utcAtLastEdge) ==
    ToInt32(utcAtLastEdge * Second - Extrapolate(c, c.lastEdgeUs))

Agrees(r) == AbsInt32(r) <= CLK_RESIDUAL_RELOCK_MS
Warns(r) == ~Agrees(r) /\ AbsInt32(r) < CLK_RESIDUAL_FAIL_MS

\* Fault: the relock count is one short.
AcceptCommitEarly(c, utcAtLastEdge, r) ==
    LET streak == IF c.okStreak < 255 THEN c.okStreak + 1 ELSE c.okStreak
        slews == ~Serving(c) \/ AbsInt32(r) >= CLK_LOCKED_SLEW_MS
        phased == IF slews THEN SetAnchor(c, utcAtLastEdge, c.lastEdgeUs) ELSE c
        counted == [phased EXCEPT !.okStreak = streak]
    IN IF streak >= CLK_RELOCK_COUNT - 1 /\ c.ppsStable
         THEN [counted EXCEPT !.state = "Locked", !.holdoverStartUs = 0]
       ELSE IF ~Serving(c) THEN [counted EXCEPT !.state = "Acquiring"]
       ELSE counted

\* Fault: an acquiring clock is not phased to a label it already agrees with.
AcceptCommitUnphased(c, utcAtLastEdge, r) ==
    LET streak == IF c.okStreak < 255 THEN c.okStreak + 1 ELSE c.okStreak
        phased == IF AbsInt32(r) >= CLK_LOCKED_SLEW_MS
                  THEN SetAnchor(c, utcAtLastEdge, c.lastEdgeUs) ELSE c
        counted == [phased EXCEPT !.okStreak = streak]
    IN IF streak >= CLK_RELOCK_COUNT /\ c.ppsStable
         THEN [counted EXCEPT !.state = "Locked", !.holdoverStartUs = 0]
       ELSE IF ~Serving(c) THEN [counted EXCEPT !.state = "Acquiring"]
       ELSE counted

AcceptCommit(c, utcAtLastEdge, r) ==
    LET streak == IF c.okStreak < 255 THEN c.okStreak + 1 ELSE c.okStreak
        slews == ~Serving(c) \/ AbsInt32(r) >= CLK_LOCKED_SLEW_MS
        phased == IF slews THEN SetAnchor(c, utcAtLastEdge, c.lastEdgeUs) ELSE c
        counted == [phased EXCEPT !.okStreak = streak]
    IN IF streak >= CLK_RELOCK_COUNT /\ c.ppsStable
         THEN [counted EXCEPT !.state = "Locked", !.holdoverStartUs = 0]
       ELSE IF ~Serving(c) THEN [counted EXCEPT !.state = "Acquiring"]
       ELSE counted

CrossCheck(c, utcAtLastEdge, policy, holdoverSec, now) ==
    LET r == Residual(c, utcAtLastEdge)
        checked == [c EXCEPT !.residualMs = r]
        failed == [checked EXCEPT !.okStreak = 0]
    IN IF Agrees(r) THEN AcceptCommit(checked, utcAtLastEdge, r)
       ELSE IF ~Warns(r) THEN ApplyFail(failed, policy, holdoverSec, now)
       ELSE IF c.ppsStable /\ c.haveAnchor
         THEN [failed EXCEPT !.state = "Degraded"]
       ELSE EnterUnsynced(failed)

\* Pulses consumed after the commit took its count move the label forward.
UtcAtLastEdge(c, epochSec, ppsCountAtCommit) ==
    IF c.lastPpsCount > ppsCountAtCommit
    THEN epochSec + (c.lastPpsCount - ppsCountAtCommit)
    ELSE epochSec

OnNmeaCommit(c, epochSec, ppsCountAtCommit, policy, holdoverSec, now) ==
    LET utc == UtcAtLastEdge(c, epochSec, ppsCountAtCommit)
    IN IF c.lastEdgeUs = 0 THEN [c EXCEPT !.state = "Acquiring"]
       ELSE IF ~c.haveAnchor THEN Bootstrap(c, utc)
       ELSE IF ~CanExtrapolate(c, c.lastEdgeUs) THEN [c EXCEPT !.state = "Acquiring"]
       ELSE CrossCheck(c, utc, policy, holdoverSec, now)

-----------------------------------------------------------------------------
(* The periodic check of what has gone stale.                               *)

MayHoldOver(c, policy, holdoverSec) ==
    policy # "Refuse" /\ holdoverSec # 0 /\ c.haveAnchor

\* Fault: a clock that never served may go into holdover as well.
LeaveNormalUnearned(c, mayHold, now) ==
    IF c.state = "Holdover" THEN c
    ELSE IF mayHold THEN EnterHoldover(c, now)
    ELSE EnterUnsynced(c)

LeaveNormal(c, mayHold, now) ==
    IF c.state \notin {"Locked", "Degraded"} THEN c
    ELSE IF mayHold THEN EnterHoldover(c, now)
    ELSE EnterUnsynced(c)

\* Fault: only the quality ends a holdover.
HoldoverOverByQuality(c, holdoverSec, now) ==
    c.state = "Holdover" /\ QualityMs(c, now) >= CLK_HOLDOVER_MAX_QUALITY_MS

HoldoverOver(c, holdoverSec, now) ==
    /\ c.state = "Holdover"
    /\ \/ HoldoverElapsedMs(c, now) >= holdoverSec * Second
       \/ QualityMs(c, now) >= CLK_HOLDOVER_MAX_QUALITY_MS

ExpireHoldover(c, holdoverSec, now) ==
    IF HoldoverOver(c, holdoverSec, now) THEN EnterUnsynced(c) ELSE c

\* A live stream takes an unsynchronised clock back to acquisition.
Reacquire(c, nmeaFresh) ==
    IF c.state = "Unsynced" /\ nmeaFresh THEN [c EXCEPT !.state = "Acquiring"] ELSE c

Tick(c, nmeaFresh, ppsFresh, policy, holdoverSec, now) ==
    LET mayHold == MayHoldOver(c, policy, holdoverSec)
        noPps == LeaveNormal(c, mayHold, now)
        noNmea == IF nmeaFresh THEN c ELSE LeaveNormal(c, mayHold /\ c.ppsStable, now)
    IN IF policy = "Refuse" /\ c.state = "Holdover" THEN EnterUnsynced(c)
       ELSE IF ~ppsFresh THEN ExpireHoldover(noPps, holdoverSec, now)
       ELSE Reacquire(ExpireHoldover(noNmea, holdoverSec, now), nmeaFresh)
=============================================================================
