-------------------------- MODULE LocalClockProofs --------------------------
(***************************************************************************)
(* Machine-checked facts about LocalClock, for every choice of thresholds,  *)
(* labels, delivery lags and bounds its assumptions allow.                  *)
(*                                                                          *)
(* The inductive invariant is Inductive.  That a locked clock is on its last*)
(* edge needs more than itself: a failed first commit can leave a clock in  *)
(* Holdover or Degraded anchored at a pulse before it (OffEdgeUnearned), and*)
(* what keeps such a clock from locking is that its streak cannot reach two *)
(* before the next pulse, as two labels never both agree with one edge.     *)
(***************************************************************************)
EXTENDS MCLocalClock, LocalClockOpsProofs, SequenceTheorems

Inductive ==
    /\ TypeOK
    /\ PhaseOK(clk, committed)
    /\ AgeOK(clk, now)
    /\ clk.lastEdgeUs <= pulseAt
    /\ pulseAt <= now
    /\ now > 0

-----------------------------------------------------------------------------
(* The actions, and the theorems.                                           *)

\* The bodies of the four action properties.
StepOK ==
    /\ (clk.state = "Holdover" /\ clk'.state = "Holdover")
          => clk'.holdoverStartUs = clk.holdoverStartUs
    /\ (/\ Serving(clk) /\ Serving(clk') /\ committed' = committed
        /\ clk.anchorEdgeUs = clk.lastEdgeUs)
          => Abs(NowUtc(clk', now') - NowUtc(clk, now')) <= CLK_PPS_INTERVAL_MAX_ERR
    /\ (clk.state = "Locked" /\ clk'.state = "Locked")
          => Abs(NowUtc(clk', now') - NowUtc(clk, now')) <= CLK_PPS_INTERVAL_MAX_ERR
    /\ (~Serving(clk) /\ Serving(clk')) => committed' # committed

LEMMA InitOK == Init => Inductive
<1> SUFFICES ASSUME Init PROVE Inductive
  OBVIOUS
<1>1. /\ "Acquiring" \in ClockState /\ 0 \in 0..CLK_PPS_EDGE_RING /\ 0 \in Nat
      /\ 0 \in 0..255 /\ 0 \in (-RESIDUAL_MAX - 1)..RESIDUAL_MAX /\ FALSE \in BOOLEAN
  BY CountsAssumption, HoldoverAssumption DEF ClockState
<1>2. Reset \in LocalClockObject
  BY <1>1, Zenon DEF Reset, LocalClockObject
<1>3. PhaseOK(Reset, 0) /\ AgeOK(Reset, now)
  BY DEF Reset, PhaseOK, AgeOK, OffEdgeUnearned, Serving
<1>4. clk = Reset /\ clk.lastEdgeUs = 0
  BY DEF Init, Reset
<1> QED BY <1>2, <1>3, <1>4 DEF Init, Inductive, TypeOK, Second

LEMMA AdvanceOK == Inductive /\ Advance => Inductive' /\ StepOK
<1> SUFFICES ASSUME Inductive, Advance PROVE Inductive' /\ StepOK
  OBVIOUS
<1>1. PICK d \in TimeSteps : now' = now + d
  BY DEF Advance
<1>2. /\ d \in Nat \ {0} /\ clk' = clk /\ pulseAt' = pulseAt /\ committed' = committed
  BY CallerAssumption DEF Advance
<1>3. now' \in Nat /\ now' > now /\ now \in Nat
  BY <1>1, <1>2 DEF Inductive, TypeOK
<1>4. AgeOK(clk', now')
  BY <1>2, <1>3 DEF Inductive, AgeOK, TypeOK, LocalClockObject
<1>5. StepOK
  <2>1. NowUtc(clk', now') - NowUtc(clk, now') = 0
    BY <1>2, <1>3 DEF NowUtc, Extrapolate, Inductive, TypeOK, LocalClockObject, Second
  <2> QED BY <1>2, <2>1, IntervalsAssumption DEF StepOK, Abs
<1> QED BY <1>2, <1>3, <1>4, <1>5 DEF Inductive, TypeOK

LEMMA PpsEdgeOK == Inductive /\ PpsEdge => Inductive' /\ StepOK
<1> SUFFICES ASSUME Inductive, PpsEdge PROVE Inductive' /\ StepOK
  OBVIOUS
<1>1. PICK lag \in DeliveryLags, gap \in PulseGaps :
        /\ lag < now
        /\ now - lag > pulseAt
        /\ pulseAt' = now - lag
        /\ clk' = OnPpsEdge(clk, now - lag, clk.lastPpsCount + gap)
  BY DEF PpsEdge
<1> DEFINE edgeUs == now - lag
           ppsCount == clk.lastPpsCount + gap
<1>2. /\ edgeUs \in Nat /\ edgeUs > clk.lastEdgeUs /\ edgeUs <= now
      /\ ppsCount \in Nat /\ clk \in LocalClockObject /\ committed \in Nat /\ now \in Nat
      /\ PhaseOK(clk, committed) /\ AgeOK(clk, now)
  BY <1>1, CallerAssumption DEF Inductive, TypeOK, LocalClockObject
<1>3. pulseAt' = edgeUs /\ now' = now /\ committed' = committed
      /\ clk' = OnPpsEdge(clk, edgeUs, ppsCount)
  BY <1>1 DEF PpsEdge
<1> HIDE DEF edgeUs, ppsCount
<1>4. /\ clk' \in LocalClockObject /\ PhaseOK(clk', committed) /\ AgeOK(clk', now)
      /\ EdgeStep(clk, clk', edgeUs)
  BY <1>2, <1>3, OnPpsEdgeOK
<1>5. Inductive'
  BY <1>2, <1>3, <1>4 DEF Inductive, TypeOK, EdgeStep, LocalClockObject
<1>6. (Serving(clk) /\ Serving(clk') /\ clk.anchorEdgeUs = clk.lastEdgeUs)
        => Abs(NowUtc(clk', now') - NowUtc(clk, now')) <= CLK_PPS_INTERVAL_MAX_ERR
  <2> SUFFICES ASSUME Serving(clk), Serving(clk'), clk.anchorEdgeUs = clk.lastEdgeUs
               PROVE  Abs(NowUtc(clk', now') - NowUtc(clk, now')) <= CLK_PPS_INTERVAL_MAX_ERR
    OBVIOUS
  <2>2. CASE clk'.lastEdgeUs = edgeUs
    BY <1>2, <1>3, <1>4, <2>2
       DEF EdgeStep, NowUtc, Extrapolate, Abs, Second, LocalClockObject
  <2>3. CASE clk'.lastEdgeUs # edgeUs
    BY <1>2, <1>3, <1>4, <2>3, IntervalsAssumption
       DEF EdgeStep, NowUtc, Extrapolate, Abs, Second, LocalClockObject
  <2> QED BY <2>2, <2>3
<1>7. clk.state = "Locked" => clk.anchorEdgeUs = clk.lastEdgeUs
  BY <1>2 DEF PhaseOK
<1>8. StepOK
  BY <1>2, <1>3, <1>4, <1>6, <1>7 DEF StepOK, EdgeStep, Serving
<1> QED BY <1>5, <1>8

LEMMA NmeaCommitOK == Inductive /\ NmeaCommit => Inductive' /\ StepOK
<1> SUFFICES ASSUME Inductive, NmeaCommit PROVE Inductive' /\ StepOK
  OBVIOUS
<1>1. PICK label \in Labels, policy \in AnomalyPolicy, holdoverSec \in HoldoverSecs :
        /\ label # committed
        /\ Comparable(label)
        /\ clk' = OnNmeaCommit(clk, label, clk.lastPpsCount, policy, holdoverSec, now)
        /\ committed' = label
  BY DEF NmeaCommit
<1>2. /\ label \in Nat /\ clk \in LocalClockObject /\ committed \in Nat /\ now \in Nat
      /\ now > 0 /\ PhaseOK(clk, committed) /\ AgeOK(clk, now)
      /\ now' = now /\ pulseAt' = pulseAt
  BY <1>1, CallerAssumption DEF Inductive, TypeOK, NmeaCommit
<1>3. ClockStep(clk, clk', label, now)
  BY <1>1, <1>2, OnNmeaCommitOK DEF Comparable
<1>4. Inductive'
  BY <1>1, <1>2, <1>3 DEF Inductive, TypeOK, ClockStep
<1>5. (clk.state = "Locked" /\ clk'.state = "Locked")
        => NowUtc(clk', now') - NowUtc(clk, now') = 0
  BY <1>2, <1>3 DEF ClockStep, NowUtc, Extrapolate, LocalClockObject, Second
<1>6. StepOK
  BY <1>1, <1>3, <1>5, IntervalsAssumption DEF StepOK, ClockStep, Abs
<1> QED BY <1>4, <1>6

LEMMA ClockTickOK == Inductive /\ ClockTick => Inductive' /\ StepOK
<1> SUFFICES ASSUME Inductive, ClockTick PROVE Inductive' /\ StepOK
  OBVIOUS
<1>1. PICK nmeaFresh \in BOOLEAN, ppsFresh \in BOOLEAN,
           policy \in AnomalyPolicy, holdoverSec \in HoldoverSecs :
        clk' = Tick(clk, nmeaFresh, ppsFresh, policy, holdoverSec, now)
  BY DEF ClockTick
<1>2. /\ clk \in LocalClockObject /\ committed \in Nat /\ now \in Nat
      /\ now > 0 /\ PhaseOK(clk, committed) /\ AgeOK(clk, now)
      /\ now' = now /\ pulseAt' = pulseAt /\ committed' = committed
  BY DEF Inductive, TypeOK, ClockTick
<1>3. TickStep(clk, clk', committed, now)
  BY <1>1, <1>2, TickOK
<1>4. Inductive'
  BY <1>2, <1>3 DEF Inductive, TypeOK, TickStep, ClockStep
<1>5. Serving(clk') => NowUtc(clk', now') - NowUtc(clk, now') = 0
  <2>1. Serving(clk') => SameAnchor(clk, clk')
    BY <1>1, <1>2, TickKeepsAnchor
  <2> QED BY <1>2, <1>3, <2>1
          DEF SameAnchor, TickStep, ClockStep, NowUtc, Extrapolate, LocalClockObject, Second
<1>6. StepOK
  BY <1>3, <1>5, IntervalsAssumption DEF StepOK, TickStep, ClockStep, Serving, Abs
<1> QED BY <1>4, <1>6

LEMMA StutterOK == Inductive /\ UNCHANGED vars => Inductive'
BY DEF vars, Inductive, TypeOK, PhaseOK, AgeOK, OffEdgeUnearned, Serving, Extrapolate

\* Every step keeps the invariant, and none does what StepOK forbids.
LEMMA NextOK == Inductive /\ [Next]_vars => Inductive' /\ [StepOK]_vars
BY AdvanceOK, PpsEdgeOK, NmeaCommitOK, ClockTickOK, StutterOK DEF Next

\* The invariant of every reachable state of the clock.
THEOREM InductiveInvariant == Spec => []Inductive
<1>1. Init => Inductive
  BY InitOK
<1>2. Inductive /\ [Next]_vars => Inductive'
  BY NextOK
<1> QED BY <1>1, <1>2, PTL DEF Spec

\* The object keeps its types: no count, streak or residual of local_clock.cpp
\* leaves its width, whatever a long run of pulses and commits adds to it.
THEOREM TypeCorrect == Spec => []TypeOK
<1>1. Inductive => TypeOK
  BY DEF Inductive
<1> QED BY <1>1, InductiveInvariant, PTL

\* nowUtc never fails while the state claims service, and Locked is anchored at
\* the last pulse consumed, for every threshold and relock count of at least two.
THEOREM ServesFromPhase == Spec => []ServingHasPhase
<1>1. Inductive => ServingHasPhase
  BY DEF Inductive, TypeOK, PhaseOK, ServingHasPhase, LocalClockObject
<1> QED BY <1>1, InductiveInvariant, PTL

\* A holdover knows when it began, nothing that happens in it restarts its age,
\* and no later state remembers it.
THEOREM HoldoverAgeNeverRestarts == Spec => HoldoverAgeKept
<1>1. Inductive /\ [Next]_vars =>
        [ /\ clk'.state = "Holdover" => clk'.holdoverStartUs \in 1..now'
          /\ clk.state = "Holdover" /\ clk'.state = "Holdover"
               => clk'.holdoverStartUs = clk.holdoverStartUs
          /\ clk'.state \in {"Locked", "Unsynced"} => clk'.holdoverStartUs = 0 ]_vars
  BY NextOK DEF StepOK, Inductive, AgeOK
<1> QED BY <1>1, InductiveInvariant, PTL DEF Spec, HoldoverAgeKept

\* Between two commits the time that is served walks and never steps, as long as
\* the anchor is on the last edge: no catch-up over coalesced pulses, no gap and
\* no glitch survives as served time.
THEOREM ServedTimeWalks == Spec => WalksOneSecond
<1>1. Inductive /\ [Next]_vars =>
        [ (/\ Serving(clk) /\ Serving(clk') /\ committed' = committed
           /\ clk.anchorEdgeUs = clk.lastEdgeUs)
            => Abs(NowUtc(clk', now') - NowUtc(clk, now')) <= CLK_PPS_INTERVAL_MAX_ERR ]_vars
  BY NextOK DEF StepOK
<1> QED BY <1>1, InductiveInvariant, PTL DEF Spec, WalksOneSecond

\* A clock that stays locked never steps its time by more than the interval gate.
THEOREM LockedTimeNeverSteps == Spec => LockedNeverSteps
<1>1. Inductive /\ [Next]_vars =>
        [ (clk.state = "Locked" /\ clk'.state = "Locked")
            => Abs(NowUtc(clk', now') - NowUtc(clk, now')) <= CLK_PPS_INTERVAL_MAX_ERR ]_vars
  BY NextOK DEF StepOK
<1> QED BY <1>1, InductiveInvariant, PTL DEF Spec, LockedNeverSteps

\* No pulse and no tick starts to serve time: only a commit does.
THEOREM ServiceStartsWithCommit == Spec => OnlyCommitsStartService
<1>1. Inductive /\ [Next]_vars =>
        [ (~Serving(clk) /\ Serving(clk')) => committed' # committed ]_vars
  BY NextOK DEF StepOK
<1> QED BY <1>1, InductiveInvariant, PTL DEF Spec, OnlyCommitsStartService

-----------------------------------------------------------------------------
(* The streak.  What makes a lock worth its name is that the commits of the *)
(* streak lie on the line the anchor stands for: a pulse tilts the line by  *)
(* one interval error, an agreeing commit shifts it by its residual, and    *)
(* everything else keeps the line or ends the streak.                       *)

Commit == [utc : Nat, edge : Nat, pulse : Nat]

\* How far the line through the anchor misses a commit.
Misses(c, commit) ==
    (commit.utc - c.anchorUtcSec) * Second - (commit.edge - c.anchorEdgeUs)

HistoryOK ==
    /\ recent \in Seq(Commit)
    /\ Len(recent) <= CLK_RELOCK_COUNT
    /\ clk.okStreak <= Len(recent) \/ Len(recent) = CLK_RELOCK_COUNT
    /\ \A i \in 1..Len(recent) : recent[i].pulse <= clk.lastPpsCount

DriftKnown ==
    /\ adrift \in BOOLEAN
    /\ Serving(clk) /\ ~adrift => clk.anchorEdgeUs = clk.lastEdgeUs

StreakOnLine ==
    \A i \in 1..Len(recent) : (~adrift /\ Len(recent) - i < clk.okStreak) =>
        /\ Abs(Misses(clk, recent[i]))
             <= Slack(Len(recent) - i, clk.lastPpsCount - recent[i].pulse)
        /\ \A j \in 1..Len(recent) : i < j => SameLine(recent[i], recent[j], j - i)

StreakInductive ==
    /\ Inductive
    /\ StreakAnchored(clk)
    /\ HistoryOK
    /\ DriftKnown
    /\ StreakOnLine

\* A commit moves the line by a residual, a pulse by an interval error.
LEMMA SlackGrows ==
    ASSUME NEW n \in Nat, NEW pulses \in Nat, NEW gap \in Nat \ {0}
    PROVE  /\ Slack(n, pulses) \in Nat
           /\ Slack(n + 1, pulses) = Slack(n, pulses) + CLK_RESIDUAL_RELOCK_MS
           /\ Slack(n, pulses + gap) >= Slack(n, pulses) + CLK_PPS_INTERVAL_MAX_ERR
<1> DEFINE R == CLK_RESIDUAL_RELOCK_MS
           E == CLK_PPS_INTERVAL_MAX_ERR
           S == CLK_LOCKED_SLEW_MS
<1>1. R \in Nat /\ E \in Nat /\ S \in Nat
  BY ThresholdsAssumption, IntervalsAssumption
<1>2. \A m, k : Slack(m, k) = S + m * R + k * E
  BY DEF Slack
<1> HIDE DEF R, E, S
<1>3. n * R \in Nat /\ pulses * E \in Nat /\ gap * E \in Nat
  BY <1>1
<1>4. (n + 1) * R = n * R + R /\ (pulses + gap) * E = pulses * E + gap * E
  BY <1>1
<1>5. gap * E >= E
  BY <1>1
<1>6. /\ Slack(n, pulses) \in Nat
      /\ Slack(n + 1, pulses) = Slack(n, pulses) + R
      /\ Slack(n, pulses + gap) >= Slack(n, pulses) + E
  BY <1>1, <1>2, <1>3, <1>4, <1>5
<1> QED BY <1>6 DEF R, E

\* A pulse moves every commit off the line by at most what the slack grows.
LEMMA MissesAfterPulse ==
    ASSUME NEW c \in LocalClockObject, NEW d \in LocalClockObject, NEW r \in Commit,
           NEW n \in Nat, r.pulse <= c.lastPpsCount, c.lastPpsCount < d.lastPpsCount,
           Abs(Misses(c, r)) <= Slack(n, c.lastPpsCount - r.pulse),
           \/ SameAnchor(c, d)
           \/ /\ d.anchorUtcSec = c.anchorUtcSec + 1
              /\ Abs(d.anchorEdgeUs - c.anchorEdgeUs - Second) <= CLK_PPS_INTERVAL_MAX_ERR
    PROVE  Abs(Misses(d, r)) <= Slack(n, d.lastPpsCount - r.pulse)
<1> DEFINE pulses == c.lastPpsCount - r.pulse
           gap == d.lastPpsCount - c.lastPpsCount
           old == Slack(n, pulses)
           new == Slack(n, d.lastPpsCount - r.pulse)
<1>1. /\ r.utc \in Nat /\ r.edge \in Nat /\ r.pulse \in Nat
      /\ c.anchorUtcSec \in Nat /\ c.anchorEdgeUs \in Nat /\ c.lastPpsCount \in Nat
      /\ d.anchorUtcSec \in Nat /\ d.anchorEdgeUs \in Nat /\ d.lastPpsCount \in Nat
  BY DEF Commit, LocalClockObject
<1>2. pulses \in Nat /\ gap \in Nat \ {0} /\ d.lastPpsCount - r.pulse = pulses + gap
  BY <1>1
<1> HIDE DEF pulses, gap
<1>3. old \in Nat /\ new \in Int /\ new >= old + CLK_PPS_INTERVAL_MAX_ERR
  <2>1. new = Slack(n, pulses + gap) /\ pulses + gap \in Nat
    BY <1>2
  <2> HIDE DEF new
  <2>2. Slack(n, pulses + gap) \in Nat
    BY <1>2, <2>1, SlackGrows
  <2>3. /\ Slack(n, pulses) \in Nat
        /\ Slack(n, pulses + gap) >= Slack(n, pulses) + CLK_PPS_INTERVAL_MAX_ERR
    BY <1>2, SlackGrows
  <2> QED BY <2>1, <2>2, <2>3
<1>4. Abs(Misses(c, r)) <= old
  BY DEF pulses
<1> HIDE DEF old, new
<1>5. Abs(Misses(d, r)) <= new
  BY <1>1, <1>3, <1>4, IntervalsAssumption DEF Misses, SameAnchor, Abs, Second
<1> QED BY <1>5 DEF new

\* The commit that clk attributes to its last pulse.
Named(c, label) == [utc |-> label, edge |-> c.lastEdgeUs, pulse |-> c.lastPpsCount]

\* An agreeing commit is on the line, and moves no other off it by more than its
\* residual: what the older ones missed the line by, they miss the commit by.
LEMMA MissesAfterCommit ==
    ASSUME NEW c \in LocalClockObject, NEW d \in LocalClockObject, NEW r \in Commit,
           NEW n \in Nat, NEW label \in Nat, AgreedTo(c, d, label), c.okStreak # 0,
           d.lastPpsCount = c.lastPpsCount, r.pulse <= c.lastPpsCount,
           Abs(Misses(c, r)) <= Slack(n, c.lastPpsCount - r.pulse)
    PROVE  /\ Abs(Misses(d, r)) <= Slack(n + 1, d.lastPpsCount - r.pulse)
           /\ SameLine(r, Named(c, label), n + 1)
<1> DEFINE pulses == c.lastPpsCount - r.pulse
           old == Slack(n, pulses)
           new == Slack(n + 1, pulses)
           res == label * Second - Extrapolate(c, c.lastEdgeUs)
<1>1. /\ r.utc \in Nat /\ r.edge \in Nat /\ r.pulse \in Nat
      /\ c.anchorUtcSec \in Nat /\ c.anchorEdgeUs \in Nat /\ c.lastPpsCount \in Nat
      /\ d.anchorUtcSec \in Nat /\ d.anchorEdgeUs \in Nat /\ c.lastEdgeUs \in Nat
  BY DEF Commit, LocalClockObject
<1>2. pulses \in Nat
  BY <1>1
<1>3. old \in Nat /\ new = old + CLK_RESIDUAL_RELOCK_MS
  <2> HIDE DEF pulses
  <2>1. 1 \in Nat \ {0}
    OBVIOUS
  <2> QED BY <1>2, <2>1, SlackGrows
<1>4. Abs(Misses(c, r)) <= old
  OBVIOUS
<1> HIDE DEF old, new
<1>5. /\ Abs(res) <= CLK_RESIDUAL_RELOCK_MS
      /\ \/ d.anchorUtcSec = label /\ d.anchorEdgeUs = c.lastEdgeUs
         \/ SameAnchor(c, d)
  BY DEF AgreedTo
<1>6. Abs(Misses(d, r)) <= new
  BY <1>1, <1>3, <1>4, <1>5, ThresholdsAssumption
     DEF Misses, SameAnchor, Abs, Second, Extrapolate
<1>7. Abs((label - r.utc) * Second - (c.lastEdgeUs - r.edge)) <= new
  BY <1>1, <1>3, <1>4, <1>5, ThresholdsAssumption
     DEF Misses, SameAnchor, Abs, Second, Extrapolate
<1>8. /\ Named(c, label).utc = label /\ Named(c, label).edge = c.lastEdgeUs
      /\ Named(c, label).pulse - r.pulse = pulses
  BY DEF Named
<1> QED BY <1>6, <1>7, <1>8 DEF SameLine, new

LEMMA NewCommitOnLine ==
    ASSUME NEW c \in LocalClockObject, NEW d \in LocalClockObject,
           NEW label \in Nat, AgreedTo(c, d, label)
    PROVE  Abs(Misses(d, Named(c, label))) <= Slack(0, 0)
<1>1. /\ c.anchorUtcSec \in Nat /\ c.anchorEdgeUs \in Nat /\ c.lastEdgeUs \in Nat
      /\ d.anchorUtcSec \in Nat /\ d.anchorEdgeUs \in Nat
  BY DEF LocalClockObject
<1>2. Slack(0, 0) = CLK_LOCKED_SLEW_MS
  BY ThresholdsAssumption, IntervalsAssumption DEF Slack
<1>3. Misses(d, Named(c, label)) = (label - d.anchorUtcSec) * Second
                                     - (c.lastEdgeUs - d.anchorEdgeUs)
  BY DEF Misses, Named
<1> DEFINE miss == Misses(d, Named(c, label))
           res == label * Second - Extrapolate(c, c.lastEdgeUs)
<1>4. CASE d.anchorUtcSec = label /\ d.anchorEdgeUs = c.lastEdgeUs
  <2>1. miss = 0
    BY <1>1, <1>3, <1>4 DEF Second
  <2> HIDE DEF miss
  <2>2. Abs(miss) <= CLK_LOCKED_SLEW_MS
    BY <2>1, ThresholdsAssumption DEF Abs
  <2> QED BY <1>2, <2>2 DEF miss
<1>5. CASE SameAnchor(c, d) /\ Abs(res) < CLK_LOCKED_SLEW_MS
  <2>1. miss = res /\ res \in Int
    BY <1>1, <1>3, <1>5 DEF SameAnchor, Second, Extrapolate
  <2> HIDE DEF miss, res
  <2>2. Abs(miss) <= CLK_LOCKED_SLEW_MS
    BY <1>5, <2>1, ThresholdsAssumption DEF Abs
  <2> QED BY <1>2, <2>2 DEF miss
<1> QED BY <1>4, <1>5 DEF AgreedTo

\* The history after a commit: it shifts when it is full, and b is its last entry.
EndsIn(new, b) ==
    \E k \in {0, 1} :
        /\ Len(new) = Len(recent) + 1 - k
        /\ k = 1 <=> Len(recent) = CLK_RELOCK_COUNT
        /\ new[Len(new)] = b
        /\ \A i \in 1..(Len(new) - 1) :
             /\ i + k \in 1..Len(recent)
             /\ new[i] = recent[i + k]

LEMMA RememberOK ==
    ASSUME NEW b \in Commit, recent \in Seq(Commit), Len(recent) <= CLK_RELOCK_COUNT
    PROVE  Remember(b) \in Seq(Commit) /\ EndsIn(Remember(b), b)
<1> DEFINE all == Append(recent, b)
<1>1. /\ all \in Seq(Commit) /\ Len(all) = Len(recent) + 1 /\ Len(recent) \in Nat
      /\ all[Len(recent) + 1] = b
      /\ \A i \in 1..Len(recent) : all[i] = recent[i]
  OBVIOUS
<1>2. Remember(b) = IF Len(all) > CLK_RELOCK_COUNT THEN Tail(all) ELSE all
  BY DEF Remember
<1> HIDE DEF all
<1>3. CASE Len(all) > CLK_RELOCK_COUNT
  <2>1. /\ Tail(all) \in Seq(Commit) /\ Len(Tail(all)) = Len(recent)
        /\ \A i \in 1..Len(recent) : Tail(all)[i] = all[i + 1]
    BY <1>1
  <2> DEFINE new == Tail(all)
  <2> HIDE DEF new
  <2>2. /\ Len(new) = Len(recent) + 1 - 1
        /\ Len(recent) = CLK_RELOCK_COUNT
        /\ new[Len(new)] = b
        /\ \A i \in 1..(Len(new) - 1) : i + 1 \in 1..Len(recent) /\ new[i] = recent[i + 1]
    BY <1>1, <1>3, <2>1, CountsAssumption DEF new
  <2> QED BY <1>2, <1>3, <2>1, <2>2 DEF new, EndsIn
<1>4. CASE ~(Len(all) > CLK_RELOCK_COUNT)
  <2>1. /\ Len(all) = Len(recent) + 1 - 0
        /\ Len(recent) # CLK_RELOCK_COUNT
        /\ all[Len(all)] = b
        /\ \A i \in 1..(Len(all) - 1) : i + 0 \in 1..Len(recent) /\ all[i] = recent[i + 0]
    BY <1>1, <1>4, CountsAssumption
  <2> QED BY <1>1, <1>2, <1>4, <2>1 DEF EndsIn
<1> QED BY <1>3, <1>4

LEMMA CountersOK ==
    ASSUME NEW c \in LocalClockObject
    PROVE  c.okStreak \in Nat /\ c.lastPpsCount \in Nat
BY DEF LocalClockObject

\* What a step that commits nothing must do to keep the streak on its line: it
\* keeps the streak or ends it, and bends the line no more than the pulses allow.
LEMMA StreakOnLineKept ==
    ASSUME StreakInductive, Inductive', adrift' = Adrift, recent' = recent,
           clk'.okStreak \in {0, clk.okStreak},
           clk'.lastPpsCount >= clk.lastPpsCount,
           clk'.okStreak # 0 => (clk'.haveAnchor <=> clk.haveAnchor) /\ clk'.lastEdgeUs # 0,
           \A i \in 1..Len(recent) :
              (~adrift /\ clk'.okStreak # 0 /\ Len(recent) - i < clk.okStreak) =>
                 Abs(Misses(clk', recent[i]))
                   <= Slack(Len(recent) - i, clk'.lastPpsCount - recent[i].pulse)
    PROVE  StreakInductive'
<1>1. clk \in LocalClockObject /\ clk' \in LocalClockObject
  BY DEF StreakInductive, Inductive, TypeOK
<1>2. clk.okStreak \in Nat /\ clk.lastPpsCount \in Nat /\ clk'.lastPpsCount \in Nat
  BY <1>1, CountersOK
<1>3. StreakAnchored(clk')
  BY DEF StreakInductive, StreakAnchored
<1>4. \A i \in 1..Len(recent) : recent[i].pulse \in Nat
  <2>1. \A i \in 1..Len(recent) : recent[i] \in Commit
    BY DEF StreakInductive, HistoryOK
  <2> QED BY <2>1 DEF Commit
<1>5. HistoryOK'
  <2>1. Len(recent) \in Nat
    BY DEF StreakInductive, HistoryOK
  <2>2. \A i \in 1..Len(recent) : recent[i].pulse <= clk'.lastPpsCount
    BY <1>2, <1>4 DEF StreakInductive, HistoryOK
  <2> QED BY <1>2, <2>1, <2>2 DEF StreakInductive, HistoryOK
<1>6. DriftKnown' /\ (~adrift' /\ clk'.okStreak # 0 => ~adrift)
  BY DEF StreakInductive, DriftKnown, Adrift, Serving
<1>7. StreakOnLine'
  <2> SUFFICES ASSUME NEW i \in 1..Len(recent), ~adrift', Len(recent) - i < clk'.okStreak
               PROVE  /\ Abs(Misses(clk', recent[i]))
                           <= Slack(Len(recent) - i, clk'.lastPpsCount - recent[i].pulse)
                      /\ \A j \in 1..Len(recent) :
                           i < j => SameLine(recent[i], recent[j], j - i)
    BY DEF StreakOnLine, Misses, SameLine, Slack
  <2>1. Len(recent) \in Nat
    BY DEF StreakInductive, HistoryOK
  <2>2. clk'.okStreak # 0 /\ clk'.okStreak = clk.okStreak /\ ~adrift
    BY <1>6, <2>1
  <2> QED BY <2>2 DEF StreakInductive, StreakOnLine
<1> QED BY <1>3, <1>5, <1>6, <1>7 DEF StreakInductive

LEMMA StreakInit == MCInit => StreakInductive
<1> SUFFICES ASSUME MCInit PROVE StreakInductive
  OBVIOUS
<1>1. clk.okStreak = 0 /\ clk.state = "Acquiring"
  BY DEF MCInit, Init, Reset
<1>2. recent \in Seq(Commit) /\ Len(recent) = 0
  BY DEF MCInit
<1>3. Inductive /\ StreakAnchored(clk)
  BY <1>1, InitOK DEF MCInit, StreakAnchored
<1>4. HistoryOK /\ StreakOnLine
  BY <1>1, <1>2, CountsAssumption DEF HistoryOK, StreakOnLine
<1>5. DriftKnown
  BY <1>1 DEF MCInit, DriftKnown, Serving
<1> QED BY <1>3, <1>4, <1>5 DEF StreakInductive

\* The action leaves the history alone.
Uncommitted == UNCHANGED recent /\ adrift' = Adrift

LEMMA AdvanceStreak ==
    StreakInductive /\ Advance /\ Uncommitted => StreakInductive' /\ LocksEarned(clk, clk')
<1> SUFFICES ASSUME StreakInductive, Advance, Uncommitted
             PROVE  StreakInductive' /\ LocksEarned(clk, clk')
  OBVIOUS
<1>1. Inductive' /\ clk' = clk
  BY AdvanceOK DEF StreakInductive, Advance
<1>2. clk.lastPpsCount \in Nat
  BY DEF StreakInductive, Inductive, TypeOK, LocalClockObject
<1>3. StreakInductive'
  <2>1. \A i \in 1..Len(recent) :
          (~adrift /\ clk'.okStreak # 0 /\ Len(recent) - i < clk.okStreak) =>
             Abs(Misses(clk', recent[i]))
               <= Slack(Len(recent) - i, clk'.lastPpsCount - recent[i].pulse)
    BY <1>1 DEF StreakInductive, StreakOnLine
  <2> QED BY <1>1, <1>2, <2>1, StreakOnLineKept
             DEF Uncommitted, StreakInductive, StreakAnchored
<1> QED BY <1>1, <1>3 DEF LocksEarned

LEMMA TickKeepsStreak ==
    StreakInductive /\ ClockTick /\ Uncommitted => StreakInductive' /\ LocksEarned(clk, clk')
<1> SUFFICES ASSUME StreakInductive, ClockTick, Uncommitted
             PROVE  StreakInductive' /\ LocksEarned(clk, clk')
  OBVIOUS
<1>1. PICK nmeaFresh \in BOOLEAN, ppsFresh \in BOOLEAN,
           policy \in AnomalyPolicy, holdoverSec \in HoldoverSecs :
        clk' = Tick(clk, nmeaFresh, ppsFresh, policy, holdoverSec, now)
  BY DEF ClockTick
<1>2. clk \in LocalClockObject /\ now \in Nat /\ clk.lastPpsCount \in Nat
  BY DEF StreakInductive, Inductive, TypeOK, LocalClockObject
<1>3. Inductive' /\ Alike(clk, clk') /\ StreakKept(clk, clk')
      /\ (clk'.state = "Locked" => clk.state = "Locked")
  BY <1>1, <1>2, ClockTickOK, TickCounts, TickStreak DEF StreakInductive
<1>4. \A i \in 1..Len(recent) :
        (~adrift /\ clk'.okStreak # 0 /\ Len(recent) - i < clk.okStreak) =>
           Abs(Misses(clk', recent[i]))
             <= Slack(Len(recent) - i, clk'.lastPpsCount - recent[i].pulse)
  BY <1>3 DEF StreakInductive, StreakOnLine, Alike, StreakKept, SameAnchor, Misses
<1>5. StreakInductive'
  BY <1>2, <1>3, <1>4, StreakOnLineKept
     DEF Uncommitted, StreakInductive, StreakAnchored, Alike, StreakKept
<1> QED BY <1>3, <1>5 DEF LocksEarned

LEMMA PulseKeepsStreak ==
    StreakInductive /\ PpsEdge /\ Uncommitted => StreakInductive' /\ LocksEarned(clk, clk')
<1> SUFFICES ASSUME StreakInductive, PpsEdge, Uncommitted
             PROVE  StreakInductive' /\ LocksEarned(clk, clk')
  OBVIOUS
<1>1. PICK lag \in DeliveryLags, gap \in PulseGaps :
        /\ lag < now
        /\ now - lag > pulseAt
        /\ pulseAt' = now - lag
        /\ clk' = OnPpsEdge(clk, now - lag, clk.lastPpsCount + gap)
  BY DEF PpsEdge
<1> DEFINE edgeUs == now - lag
           ppsCount == clk.lastPpsCount + gap
<1>2. /\ edgeUs \in Nat /\ edgeUs > clk.lastEdgeUs
      /\ ppsCount \in Nat /\ ppsCount > clk.lastPpsCount
      /\ clk \in LocalClockObject /\ committed \in Nat /\ now \in Nat
      /\ PhaseOK(clk, committed) /\ AgeOK(clk, now)
  BY <1>1, CallerAssumption DEF StreakInductive, Inductive, TypeOK, LocalClockObject
<1>3. clk' = OnPpsEdge(clk, edgeUs, ppsCount)
  BY <1>1
<1> HIDE DEF edgeUs, ppsCount
<1>4. Inductive' /\ clk' \in LocalClockObject
  BY PpsEdgeOK DEF StreakInductive, Inductive, TypeOK
<1>5. EdgeStep(clk, clk', edgeUs)
  BY <1>2, <1>3, OnPpsEdgeOK
<1>6. clk'.lastPpsCount = ppsCount
  BY <1>2, <1>3, OnPpsEdgeCounts
<1>7. \/ StreakKept(clk, clk')
      \/ /\ Serving(clk') /\ clk'.okStreak = clk.okStreak
         /\ clk'.haveAnchor <=> clk.haveAnchor
  BY <1>2, <1>3, OnPpsEdgeStreak
<1>8. clk'.lastEdgeUs # 0 \/ clk'.lastEdgeUs = clk.lastEdgeUs
  BY <1>2, <1>5 DEF EdgeStep, LocalClockObject
<1>9. \A i \in 1..Len(recent) :
        (~adrift /\ clk'.okStreak # 0 /\ Len(recent) - i < clk.okStreak) =>
           Abs(Misses(clk', recent[i]))
             <= Slack(Len(recent) - i, clk'.lastPpsCount - recent[i].pulse)
  <2> SUFFICES ASSUME NEW i \in 1..Len(recent),
                      ~adrift, clk'.okStreak # 0, Len(recent) - i < clk.okStreak
               PROVE  Abs(Misses(clk', recent[i]))
                        <= Slack(Len(recent) - i, clk'.lastPpsCount - recent[i].pulse)
    OBVIOUS
  <2>1. /\ recent[i] \in Commit /\ recent[i].pulse <= clk.lastPpsCount
        /\ Len(recent) - i \in Nat
    BY DEF StreakInductive, HistoryOK
  <2>2. Abs(Misses(clk, recent[i])) <= Slack(Len(recent) - i, clk.lastPpsCount - recent[i].pulse)
    BY DEF StreakInductive, StreakOnLine
  <2>3. \/ SameAnchor(clk, clk')
        \/ /\ clk'.anchorUtcSec = clk.anchorUtcSec + 1
           /\ Abs(clk'.anchorEdgeUs - clk.anchorEdgeUs - Second) <= CLK_PPS_INTERVAL_MAX_ERR
    <3>1. CASE StreakKept(clk, clk')
      BY <3>1 DEF StreakKept
    <3>2. CASE Serving(clk')
      <4>1. clk.anchorEdgeUs = clk.lastEdgeUs
        BY <1>5, <3>2 DEF EdgeStep, Serving, StreakInductive, DriftKnown
      <4>2. CASE clk'.lastEdgeUs = edgeUs
        BY <1>5, <3>2, <4>1, <4>2 DEF EdgeStep
      <4>3. CASE clk'.lastEdgeUs # edgeUs
        BY <1>5, <3>2, <4>3 DEF EdgeStep, SameAnchor
      <4> QED BY <4>2, <4>3
    <3> QED BY <1>7, <3>1, <3>2
  <2> QED BY <1>2, <1>4, <1>6, <2>1, <2>2, <2>3, MissesAfterPulse
<1>10. StreakInductive'
  <2>1. clk'.okStreak \in {0, clk.okStreak}
    BY <1>7 DEF StreakKept
  <2>2. clk'.okStreak # 0 => (clk'.haveAnchor <=> clk.haveAnchor) /\ clk'.lastEdgeUs # 0
    BY <1>7, <1>8, <2>1 DEF StreakKept, StreakInductive, StreakAnchored
  <2>3. clk'.lastPpsCount >= clk.lastPpsCount
    BY <1>2, <1>6 DEF LocalClockObject
  <2> QED BY <1>4, <1>9, <2>1, <2>2, <2>3, StreakOnLineKept DEF Uncommitted
<1>11. LocksEarned(clk, clk')
  BY <1>5 DEF LocksEarned, EdgeStep, Serving
<1> QED BY <1>10, <1>11

LEMMA CommitKeepsStreak ==
    ASSUME StreakInductive, NmeaCommit, adrift' = Adrift,
           recent' = Remember([ utc |-> committed', edge |-> clk.lastEdgeUs,
                                pulse |-> clk.lastPpsCount ])
    PROVE  StreakInductive' /\ LocksEarned(clk, clk')
<1>1. PICK label \in Labels, policy \in AnomalyPolicy, holdoverSec \in HoldoverSecs :
        /\ Comparable(label)
        /\ clk' = OnNmeaCommit(clk, label, clk.lastPpsCount, policy, holdoverSec, now)
        /\ committed' = label
  BY DEF NmeaCommit
<1>2. /\ label \in Nat /\ clk \in LocalClockObject /\ committed \in Nat /\ now \in Nat
      /\ PhaseOK(clk, committed) /\ StreakAnchored(clk)
      /\ clk.okStreak \in Nat /\ clk.lastPpsCount \in Nat /\ clk.lastEdgeUs \in Nat
  BY <1>1, CallerAssumption DEF StreakInductive, Inductive, TypeOK, LocalClockObject
<1>3. Inductive' /\ clk' \in LocalClockObject
  BY NmeaCommitOK DEF StreakInductive, Inductive, TypeOK
<1>4. clk'.lastEdgeUs = clk.lastEdgeUs /\ clk'.lastPpsCount = clk.lastPpsCount
  BY <1>1, <1>2, OnNmeaCommitCounts
<1>5. (clk'.okStreak = 0 \/ AgreedTo(clk, clk', label)) /\ LocksEarned(clk, clk')
  BY <1>1, <1>2, OnNmeaCommitStreak DEF Comparable
<1> DEFINE b == Named(clk, label)
<1>6. b \in Commit /\ b.pulse = clk.lastPpsCount /\ recent' = Remember(b)
  BY <1>1, <1>2 DEF Named, Commit
<1>7. recent \in Seq(Commit) /\ Len(recent) <= CLK_RELOCK_COUNT /\ Len(recent) \in Nat
  BY DEF StreakInductive, HistoryOK
<1> HIDE DEF b
<1>8. recent' \in Seq(Commit) /\ Len(recent') \in Nat /\ EndsIn(recent', b)
  BY <1>6, <1>7, RememberOK
<1>9. PICK k \in {0, 1} :
        /\ Len(recent') = Len(recent) + 1 - k
        /\ k = 1 <=> Len(recent) = CLK_RELOCK_COUNT
        /\ recent'[Len(recent')] = b
        /\ \A i \in 1..(Len(recent') - 1) :
             /\ i + k \in 1..Len(recent)
             /\ recent'[i] = recent[i + k]
  BY <1>8 DEF EndsIn
<1>10. clk'.okStreak \in Nat /\ clk'.okStreak <= clk.okStreak + 1
  BY <1>2, <1>3, <1>5, CountersOK DEF AgreedTo
<1>11. StreakAnchored(clk')
  BY <1>4, <1>5 DEF StreakAnchored, AgreedTo
<1>12. HistoryOK'
  <2>1. Len(recent') <= CLK_RELOCK_COUNT
    BY <1>7, <1>9, CountsAssumption
  <2>2. clk'.okStreak <= Len(recent') \/ Len(recent') = CLK_RELOCK_COUNT
    BY <1>2, <1>7, <1>9, <1>10, CountsAssumption DEF StreakInductive, HistoryOK
  <2>3. ASSUME NEW i \in 1..Len(recent') PROVE recent'[i].pulse <= clk'.lastPpsCount
    <3>1. CASE i = Len(recent')
      BY <1>2, <1>4, <1>6, <1>9, <3>1
    <3>2. CASE i \in 1..(Len(recent') - 1)
      BY <1>4, <1>9, <3>2 DEF StreakInductive, HistoryOK
    <3> QED BY <1>8, <3>1, <3>2
  <2> QED BY <1>8, <2>1, <2>2, <2>3 DEF HistoryOK
<1>13. DriftKnown' /\ (~adrift' /\ clk'.okStreak # 0 => ~adrift)
  BY DEF StreakInductive, DriftKnown, Adrift, Serving
<1>14. StreakOnLine'
  <2> SUFFICES ASSUME NEW i \in 1..Len(recent'), ~adrift', Len(recent') - i < clk'.okStreak
               PROVE  /\ Abs(Misses(clk', recent'[i]))
                           <= Slack(Len(recent') - i, clk'.lastPpsCount - recent'[i].pulse)
                      /\ \A j \in 1..Len(recent') :
                           i < j => SameLine(recent'[i], recent'[j], j - i)
    BY DEF StreakOnLine, Misses, SameLine, Slack
  <2>1. clk'.okStreak # 0 /\ ~adrift /\ AgreedTo(clk, clk', label)
    BY <1>5, <1>8, <1>10, <1>13
  <2>2. CASE i = Len(recent')
    <3>1. Abs(Misses(clk', b)) <= Slack(0, 0)
      BY <1>2, <1>3, <2>1, NewCommitOnLine DEF b
    <3>2. Len(recent') - i = 0 /\ clk'.lastPpsCount - recent'[i].pulse = 0 /\ recent'[i] = b
      BY <1>2, <1>4, <1>6, <1>8, <1>9, <2>2
    <3> QED BY <1>8, <2>2, <3>1, <3>2
  <2>3. CASE i # Len(recent')
    <3> DEFINE a == recent[i + k]
               n == Len(recent) - (i + k)
    <3>0. i \in 1..(Len(recent') - 1) /\ i \in Int
      BY <1>8, <2>3
    <3>1. i + k \in 1..Len(recent) /\ recent'[i] = a
      BY <1>9, <3>0, Zenon
    <3>2. n \in Nat /\ Len(recent') - i = n + 1 /\ n < clk.okStreak /\ clk.okStreak # 0
      <4>1. Len(recent') = Len(recent) + 1 - k /\ k \in {0, 1}
        BY <1>9
      <4>2. n \in Nat /\ Len(recent') - i = n + 1
        BY <1>7, <3>0, <3>1, <4>1
      <4> HIDE DEF n
      <4>3. n + 1 < clk'.okStreak
        BY <4>2
      <4> QED BY <1>2, <1>10, <4>2, <4>3
    <3>3. a \in Commit /\ a.pulse <= clk.lastPpsCount
      BY <3>1 DEF StreakInductive, HistoryOK
    <3>4. /\ Abs(Misses(clk, a)) <= Slack(n, clk.lastPpsCount - a.pulse)
          /\ \A j \in 1..Len(recent) : i + k < j => SameLine(a, recent[j], j - (i + k))
      BY <2>1, <3>1, <3>2 DEF StreakInductive, StreakOnLine
    <3>5. /\ Abs(Misses(clk', a)) <= Slack(n + 1, clk'.lastPpsCount - a.pulse)
          /\ SameLine(a, b, n + 1)
      <4> HIDE DEF a, n
      <4> QED BY <1>2, <1>3, <1>4, <2>1, <3>2, <3>3, <3>4, MissesAfterCommit DEF b
    <3>6. ASSUME NEW j \in 1..Len(recent'), i < j
          PROVE  SameLine(recent'[i], recent'[j], j - i)
      <4>1. CASE j = Len(recent')
        BY <1>8, <1>9, <3>0, <3>1, <3>2, <3>5, <4>1
      <4>2. CASE j # Len(recent')
        <5>1. j \in 1..(Len(recent') - 1)
          BY <1>8, <4>2
        <5>2. j + k \in 1..Len(recent) /\ recent'[j] = recent[j + k]
          BY <1>9, <5>1
        <5>3. i + k < j + k /\ (j + k) - (i + k) = j - i
          BY <3>0, <3>6, <5>1
        <5> QED BY <3>0, <3>1, <3>4, <5>2, <5>3
      <4> QED BY <4>1, <4>2
    <3> QED BY <3>1, <3>2, <3>5, <3>6
  <2> QED BY <2>2, <2>3
<1> QED BY <1>3, <1>5, <1>11, <1>12, <1>13, <1>14 DEF StreakInductive

LEMMA StreakStutter == StreakInductive /\ UNCHANGED mcvars => StreakInductive'
<1> SUFFICES ASSUME StreakInductive, UNCHANGED mcvars PROVE StreakInductive'
  OBVIOUS
<1>1. Inductive'
  BY StutterOK DEF StreakInductive, mcvars, vars
<1> QED BY <1>1 DEF mcvars, StreakInductive, StreakAnchored, HistoryOK, DriftKnown, Serving,
                    StreakOnLine, Misses, SameLine, Slack

\* A step keeps the streak on its line, and locks the clock on a full streak only.
LEMMA StreakNext ==
    StreakInductive /\ [MCNext]_mcvars => StreakInductive' /\ [LocksEarned(clk, clk')]_mcvars
<1> SUFFICES ASSUME StreakInductive, [MCNext]_mcvars
             PROVE  StreakInductive' /\ [LocksEarned(clk, clk')]_mcvars
  OBVIOUS
<1>1. CASE (Advance \/ PpsEdge \/ ClockTick) /\ Uncommitted
  BY <1>1, AdvanceStreak, PulseKeepsStreak, TickKeepsStreak
<1>2. CASE /\ NmeaCommit /\ adrift' = Adrift
           /\ recent' = Remember([ utc |-> committed', edge |-> clk.lastEdgeUs,
                                   pulse |-> clk.lastPpsCount ])
  BY <1>2, CommitKeepsStreak
<1>3. CASE UNCHANGED mcvars
  BY <1>3, StreakStutter
<1> QED BY <1>1, <1>2, <1>3 DEF MCNext, Uncommitted

\* Locked is earned by every threshold and relock count: whatever mixture of
\* holdovers, soft losses of sync and glitches came before, the commits that lock
\* the clock are as many as the relock count asks for and lie on one line.
THEOREM LockIsAlwaysEarned == MCSpec => LockIsEarned
<1> DEFINE Earned ==
        (clk.state # "Locked" /\ clk'.state = "Locked" /\ ~adrift')
          => /\ Len(recent') = CLK_RELOCK_COUNT
             /\ \A i, j \in 1..CLK_RELOCK_COUNT :
                  i < j => SameLine(recent'[i], recent'[j], j - i)
<1>1. StreakInductive' /\ LocksEarned(clk, clk') => Earned
  <2> SUFFICES ASSUME StreakInductive', LocksEarned(clk, clk'),
                      clk.state # "Locked", clk'.state = "Locked", ~adrift'
               PROVE  /\ Len(recent') = CLK_RELOCK_COUNT
                      /\ \A i, j \in 1..CLK_RELOCK_COUNT :
                           i < j => SameLine(recent'[i], recent'[j], j - i)
    OBVIOUS
  <2>1. clk' \in LocalClockObject /\ recent' \in Seq(Commit)
    BY DEF StreakInductive, Inductive, TypeOK, HistoryOK
  <2>2. clk'.okStreak >= CLK_RELOCK_COUNT /\ clk'.okStreak \in Nat /\ Len(recent') \in Nat
    BY <2>1, CountersOK DEF LocksEarned
  <2>3. Len(recent') = CLK_RELOCK_COUNT
    BY <2>2, CountsAssumption DEF StreakInductive, HistoryOK
  <2>4. \A i \in 1..CLK_RELOCK_COUNT : Len(recent') - i < clk'.okStreak
    BY <2>2, <2>3
  <2> QED BY <2>3, <2>4 DEF StreakInductive, StreakOnLine, SameLine, Slack
<1>2. MCInit => StreakInductive
  BY StreakInit
<1>3. StreakInductive /\ [MCNext]_mcvars => StreakInductive' /\ [Earned]_mcvars
  <2> HIDE DEF Earned
  <2> QED BY <1>1, StreakNext
<1> QED BY <1>2, <1>3, PTL DEF MCSpec, LockIsEarned
=============================================================================
