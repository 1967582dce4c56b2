----------------------------- MODULE LocalClock -----------------------------
(***************************************************************************)
(* LocalClock under any caller that keeps the calling convention of         *)
(* GpsService: pulses arrive in order with growing counts, a commit names a *)
(* second other than the last one committed and carries the pulse count the *)
(* clock has consumed, and policy and holdover length may change between    *)
(* any two calls, as the settings menu and the web page change them.        *)
(***************************************************************************)
EXTENDS LocalClockOps

CONSTANTS
    Labels,         \* seconds NMEA may name
    HoldoverSecs,   \* holdover lengths the settings offer
    DeliveryLags,   \* age of a pulse when task-time consumes it
    PulseGaps,      \* growth of the pulse count between two consumed pulses
    TimeSteps,      \* how far the time may advance in one step
    MaxNow          \* bound: the time at which an exploration stops

ASSUME CallerAssumption ==
    /\ Labels \subseteq Nat
    /\ HoldoverSecs \subseteq Nat
    /\ DeliveryLags \subseteq Nat
    /\ PulseGaps \subseteq Nat \ {0}
    /\ TimeSteps \subseteq Nat \ {0}
    /\ MaxNow \in Nat

VARIABLES
    clk,        \* the LocalClock object
    now,        \* esp_timer_get_time
    pulseAt,    \* when the last pulse consumed, accepted or not, had come
    committed   \* lastCommittedSecond_ of the caller, 0 before the first

vars == <<clk, now, pulseAt, committed>>

Init ==
    /\ clk = Reset
    /\ now = Second
    /\ pulseAt = 0
    /\ committed = 0

Advance ==
    \E d \in TimeSteps :
        /\ now + d <= MaxNow
        /\ now' = now + d
        /\ UNCHANGED <<clk, pulseAt, committed>>

PpsEdge ==
    \E lag \in DeliveryLags, gap \in PulseGaps :
        /\ lag < now
        /\ now - lag > pulseAt
        /\ pulseAt' = now - lag
        /\ clk' = OnPpsEdge(clk, now - lag, clk.lastPpsCount + gap)
        /\ UNCHANGED <<now, committed>>

\* The label is within the 24 days of local time that fit the residual.
Comparable(label) ==
    (clk.haveAnchor /\ CanExtrapolate(clk, clk.lastEdgeUs)) =>
        Abs(label * Second - Extrapolate(clk, clk.lastEdgeUs)) <= RESIDUAL_MAX

NmeaCommit ==
    \E label \in Labels, policy \in AnomalyPolicy, holdoverSec \in HoldoverSecs :
        /\ label # committed
        /\ committed' = label
        /\ Comparable(label)
        /\ clk' = OnNmeaCommit(clk, label, clk.lastPpsCount, policy, holdoverSec, now)
        /\ UNCHANGED <<now, pulseAt>>

ClockTick ==
    \E nmeaFresh, ppsFresh \in BOOLEAN, policy \in AnomalyPolicy, holdoverSec \in HoldoverSecs :
        /\ clk' = Tick(clk, nmeaFresh, ppsFresh, policy, holdoverSec, now)
        /\ UNCHANGED <<now, pulseAt, committed>>

Next == Advance \/ PpsEdge \/ NmeaCommit \/ ClockTick

Spec == Init /\ [][Next]_vars

-----------------------------------------------------------------------------
(* Properties.                                                              *)

\* The object keeps its types, in particular its 8-bit streaks and counts.
TypeOK ==
    /\ clk \in LocalClockObject
    /\ now \in Nat
    /\ pulseAt \in Nat
    /\ committed \in Nat

\* nowUtc never fails while the clock claims to serve: every state it serves
\* from has a phase anchor, taken from an edge that is not in the future, and a
\* pulse stream that was stable when it was last judged.  A locked clock is
\* anchored at the last pulse it consumed, however commits, glitches, stalls and
\* policy changes were interleaved: its residual is that of the label alone.
ServingHasPhase ==
    /\ Serving(clk) => clk.haveAnchor /\ clk.ppsStable /\ clk.anchorEdgeUs <= now
    /\ clk.state = "Locked" => clk.anchorEdgeUs = clk.lastEdgeUs

\* Bad labels, lost pulses and policy changes cannot restart the age of a
\* holdover in progress: it has one from its first step to its last, and no
\* other state keeps a stale start that would shorten or stretch the next one.
HoldoverAgeKept ==
    [][ /\ clk'.state = "Holdover" => clk'.holdoverStartUs \in 1..now'
        /\ clk.state = "Holdover" /\ clk'.state = "Holdover"
             => clk'.holdoverStartUs = clk.holdoverStartUs
        /\ clk'.state \in {"Locked", "Unsynced"} => clk'.holdoverStartUs = 0 ]_vars

\* Between two commits served time walks and never steps: a pulse moves it by no
\* more than the interval gate, whatever was coalesced, missed or late before it,
\* and a tick, a change of policy or the passing of time not at all.  Left out is
\* a clock anchored off its last edge, which a failed first label leaves behind:
\* its next pulse takes a second off (the first finding).
WalksOneSecond ==
    [][ (/\ Serving(clk) /\ Serving(clk') /\ committed' = committed
         /\ clk.anchorEdgeUs = clk.lastEdgeUs)
          => Abs(NowUtc(clk', now') - NowUtc(clk, now')) <= CLK_PPS_INTERVAL_MAX_ERR ]_vars

\* A locked clock does not jump: any step that leaves it locked moves the time
\* it would serve by no more than the interval gate.
LockedNeverSteps ==
    [][ (clk.state = "Locked" /\ clk'.state = "Locked")
          => Abs(NowUtc(clk', now') - NowUtc(clk, now')) <= CLK_PPS_INTERVAL_MAX_ERR ]_vars

\* The only ways into service from an unserved state go through a commit: no
\* pulse and no tick starts to serve.
OnlyCommitsStartService ==
    [][ (~Serving(clk) /\ Serving(clk')) => committed' # committed ]_vars
=============================================================================
