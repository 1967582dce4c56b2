------------------------ MODULE LocalClockOpsProofs ------------------------
(***************************************************************************)
(* Lemmas about the methods of the local clock, for every choice of         *)
(* thresholds its assumptions allow: what a pulse, a commit and a tick keep *)
(* of the phase and of the age of a holdover, and what they leave alone.    *)
(* LocalClockProofs uses them for any caller of the clock, GpsServiceProofs *)
(* for the one that the program has.                                        *)
(***************************************************************************)
EXTENDS LocalClockOps, TLAPS

\* A serving clock anchored before its last pulse has at most one agreeing
\* commit, and that commit named the second in label.
OffEdgeUnearned(c, label) ==
    (Serving(c) /\ c.anchorEdgeUs # c.lastEdgeUs) =>
        \/ c.okStreak = 0
        \/ /\ c.okStreak = 1
           /\ Abs(label * Second - Extrapolate(c, c.lastEdgeUs)) <= CLK_RESIDUAL_RELOCK_MS

PhaseOK(c, label) ==
    /\ Serving(c) => c.haveAnchor /\ c.ppsStable
    /\ c.haveAnchor => c.anchorEdgeUs <= c.lastEdgeUs
    /\ c.ppsStable => c.edgeCount >= 2
    /\ c.state = "Locked" => c.anchorEdgeUs = c.lastEdgeUs
    /\ OffEdgeUnearned(c, label)

AgeOK(c, t) ==
    /\ c.state = "Holdover" => c.holdoverStartUs \in 1..t
    /\ c.state \in {"Locked", "Unsynced"} => c.holdoverStartUs = 0
-----------------------------------------------------------------------------
(* What the small operators return.  A leaf about the type of an update is  *)
(* Zenon's, one about the fields it leaves is the SMT solver's.             *)

\* enterUnsynced: nothing is left to serve from.
LEMMA EnterUnsyncedOK ==
    ASSUME NEW c \in LocalClockObject, NEW t \in Nat, NEW label \in Nat
    PROVE  /\ EnterUnsynced(c) \in LocalClockObject
           /\ EnterUnsynced(c).state = "Unsynced"
           /\ EnterUnsynced(c).lastEdgeUs = c.lastEdgeUs
           /\ PhaseOK(EnterUnsynced(c), label)
           /\ AgeOK(EnterUnsynced(c), t)
<1> DEFINE u == EnterUnsynced(c)
<1>1. /\ "Unsynced" \in ClockState /\ 0 \in 0..255 /\ 0 \in Nat
      /\ (c.edgeCount >= 2) \in BOOLEAN
  BY DEF ClockState, LocalClockObject
<1>2. u \in LocalClockObject
  BY <1>1, Zenon DEF EnterUnsynced, LocalClockObject
<1>3. /\ u.state = "Unsynced" /\ u.okStreak = 0 /\ u.holdoverStartUs = 0
      /\ u.haveAnchor = FALSE /\ u.ppsStable = (u.edgeCount >= 2)
      /\ u.lastEdgeUs = c.lastEdgeUs
  BY DEF EnterUnsynced, LocalClockObject
<1>4. PhaseOK(u, label) /\ AgeOK(u, t)
  BY <1>3 DEF PhaseOK, AgeOK, OffEdgeUnearned, Serving
<1> QED BY <1>2, <1>3, <1>4

\* enterHoldover: the age starts unless one is running.
LEMMA EnterHoldoverOK ==
    ASSUME NEW c \in LocalClockObject, NEW t \in Nat, t > 0, NEW label \in Nat,
           c.haveAnchor, c.ppsStable, c.edgeCount >= 2,
           c.anchorEdgeUs <= c.lastEdgeUs,
           AgeOK(c, t)
    PROVE  /\ EnterHoldover(c, t) \in LocalClockObject
           /\ EnterHoldover(c, t).state = "Holdover"
           /\ EnterHoldover(c, t).lastEdgeUs = c.lastEdgeUs
           /\ c.state = "Holdover" => EnterHoldover(c, t).holdoverStartUs = c.holdoverStartUs
           /\ PhaseOK(EnterHoldover(c, t), label)
           /\ AgeOK(EnterHoldover(c, t), t)
<1> DEFINE h == EnterHoldover(c, t)
<1>1. /\ "Holdover" \in ClockState /\ 0 \in 0..255
      /\ (IF c.state = "Holdover" THEN c.holdoverStartUs ELSE t) \in Nat
  BY DEF ClockState, LocalClockObject
<1>2. h \in LocalClockObject
  BY <1>1, Zenon DEF EnterHoldover, LocalClockObject
<1>3. /\ h.state = "Holdover" /\ h.okStreak = 0
      /\ h.holdoverStartUs = IF c.state = "Holdover" THEN c.holdoverStartUs ELSE t
      /\ h.haveAnchor = c.haveAnchor /\ h.ppsStable = c.ppsStable
      /\ h.edgeCount = c.edgeCount
      /\ h.lastEdgeUs = c.lastEdgeUs /\ h.anchorEdgeUs = c.anchorEdgeUs
  BY DEF EnterHoldover, LocalClockObject
<1>4. PhaseOK(h, label)
  BY <1>3 DEF PhaseOK, OffEdgeUnearned, Serving
<1>5. AgeOK(h, t)
  BY <1>3 DEF AgeOK
<1> QED BY <1>2, <1>3, <1>4, <1>5

\* A streak stays an 8-bit number, whatever is added to it.
LEMMA BumpStreakOK ==
    ASSUME NEW bad \in 0..255, NEW delta \in Nat
    PROVE  BumpStreak(bad, delta) \in 0..255
BY DEF BumpStreak

LEMMA PpsDeltaOK ==
    ASSUME NEW c \in LocalClockObject, NEW ppsCount \in Nat
    PROVE  PpsDelta(c, ppsCount) \in Nat \ {0}
BY DEF PpsDelta, LocalClockObject

-----------------------------------------------------------------------------
(* A pulse, part by part.                                                   *)

\* What RestartStream and CountMisses leave of the phase: all but the streak.
Counted(c, d) ==
    /\ d \in LocalClockObject
    /\ d.lastEdgeUs = c.lastEdgeUs
    /\ Serving(d) => Serving(c) /\ d.state = c.state /\ d.edgeCount = c.edgeCount
    /\ d.haveAnchor => c.haveAnchor
    /\ Serving(c) /\ Serving(d) => d.haveAnchor
    /\ d.anchorEdgeUs = c.anchorEdgeUs
    /\ d.anchorUtcSec = c.anchorUtcSec
    /\ \/ d.state = c.state /\ d.holdoverStartUs = c.holdoverStartUs
       \/ d.state = "Unsynced" /\ d.holdoverStartUs = 0

LEMMA RestartStreamOK ==
    ASSUME NEW c \in LocalClockObject, NEW label \in Nat, PhaseOK(c, label)
    PROVE  Counted(c, RestartStream(c)) /\ ~Serving(RestartStream(c))
<1> DEFINE w == [c EXCEPT !.edgeCount = 0, !.ppsBadStreak = 0]
<1>1. 0 \in 0..CLK_PPS_EDGE_RING /\ 0 \in 0..255
  BY CountsAssumption
<1>2. w \in LocalClockObject
  BY <1>1, Zenon DEF LocalClockObject
<1>3. /\ w.state = c.state /\ w.lastEdgeUs = c.lastEdgeUs
      /\ (w.haveAnchor <=> c.haveAnchor) /\ w.anchorEdgeUs = c.anchorEdgeUs
      /\ w.anchorUtcSec = c.anchorUtcSec /\ w.holdoverStartUs = c.holdoverStartUs
  BY DEF LocalClockObject
<1> DEFINE u == EnterUnsynced(w)
<1>4. RestartStream(c) = IF Serving(w) THEN u ELSE w
  BY DEF RestartStream, LoseSyncIf
<1> HIDE DEF w
<1>5. u \in LocalClockObject /\ u.state = "Unsynced" /\ u.lastEdgeUs = w.lastEdgeUs
  BY <1>2, EnterUnsyncedOK
<1>6. /\ u.haveAnchor = FALSE /\ u.anchorEdgeUs = w.anchorEdgeUs
      /\ u.anchorUtcSec = w.anchorUtcSec /\ u.holdoverStartUs = 0
  BY <1>2 DEF EnterUnsynced, LocalClockObject
<1> HIDE DEF u
<1>7. CASE Serving(w)
  BY <1>3, <1>4, <1>5, <1>6, <1>7 DEF Counted, Serving
<1>8. CASE ~Serving(w)
  BY <1>2, <1>3, <1>4, <1>8 DEF Counted, Serving
<1> QED BY <1>7, <1>8

LEMMA CountMissesOK ==
    ASSUME NEW c \in LocalClockObject, NEW label \in Nat, PhaseOK(c, label),
           NEW edgeUs \in Nat, NEW delta \in Nat \ {0}
    PROVE  Counted(c, CountMisses(c, edgeUs, delta))
<1> DEFINE bad == CountMisses(c, edgeUs, delta).ppsBadStreak
           d == [c EXCEPT !.ppsBadStreak = bad]
<1>1. CountMisses(c, edgeUs, delta) = d
  BY Zenon DEF CountMisses, LocalClockObject
<1>2. bad \in 0..255
  <2>1. c.ppsBadStreak \in 0..255 /\ delta \in Nat
    BY DEF LocalClockObject
  <2>2. BumpStreak(c.ppsBadStreak, delta) \in 0..255
    BY <2>1, BumpStreakOK
  <2> QED BY <2>1, <2>2 DEF CountMisses, LocalClockObject
<1> HIDE DEF bad
<1>3. d \in LocalClockObject
  BY <1>2, Zenon DEF LocalClockObject
<1>4. /\ d.state = c.state /\ d.lastEdgeUs = c.lastEdgeUs /\ d.edgeCount = c.edgeCount
      /\ (d.haveAnchor <=> c.haveAnchor) /\ d.anchorEdgeUs = c.anchorEdgeUs
      /\ d.anchorUtcSec = c.anchorUtcSec /\ d.holdoverStartUs = c.holdoverStartUs
  BY DEF LocalClockObject
<1> HIDE DEF d
<1> QED BY <1>1, <1>3, <1>4 DEF Counted, Serving, PhaseOK

LEMMA PushEdgeOK ==
    ASSUME NEW c \in LocalClockObject, NEW edgeUs \in Nat, NEW ppsCount \in Nat
    PROVE  LET p == PushEdge(c, edgeUs, ppsCount)
           IN  /\ p \in LocalClockObject
               /\ p.lastEdgeUs = edgeUs
               /\ p.ppsStable => p.edgeCount >= 2
               /\ p.state = c.state /\ p.holdoverStartUs = c.holdoverStartUs
               /\ p.haveAnchor <=> c.haveAnchor
               /\ p.anchorEdgeUs = c.anchorEdgeUs
               /\ p.anchorUtcSec = c.anchorUtcSec
<1> DEFINE n == IF c.edgeCount < CLK_PPS_EDGE_RING THEN c.edgeCount + 1 ELSE c.edgeCount
           stable == PpsHealthy(c.ppsBadStreak, n)
           p == [c EXCEPT !.edgeCount = n, !.lastEdgeUs = edgeUs,
                          !.lastPpsCount = ppsCount, !.ppsStable = stable]
<1>1. PushEdge(c, edgeUs, ppsCount) = p
  BY DEF PushEdge
<1>2. n \in 0..CLK_PPS_EDGE_RING
  BY CountsAssumption DEF LocalClockObject
<1>3. stable \in BOOLEAN /\ (stable => n >= 2)
  BY DEF PpsHealthy
<1> HIDE DEF n, stable
<1>4. p \in LocalClockObject
  BY <1>2, <1>3, Zenon DEF LocalClockObject
<1>5. /\ p.lastEdgeUs = edgeUs /\ p.edgeCount = n /\ (p.ppsStable <=> stable)
      /\ p.state = c.state /\ p.holdoverStartUs = c.holdoverStartUs
      /\ (p.haveAnchor <=> c.haveAnchor) /\ p.anchorEdgeUs = c.anchorEdgeUs
      /\ p.anchorUtcSec = c.anchorUtcSec
  BY <1>3 DEF LocalClockObject
<1> HIDE DEF p
<1> QED BY <1>1, <1>3, <1>4, <1>5

\* What a pulse may do to time that is served: walk it by one second on an
\* interval inside the gate, leave it alone, or end it.
EdgeStep(c, d, edgeUs) ==
    /\ d.lastEdgeUs \in {c.lastEdgeUs, edgeUs}
    /\ Serving(d) => d.state = c.state /\ d.holdoverStartUs = c.holdoverStartUs
    /\ (Serving(d) /\ d.lastEdgeUs = edgeUs) =>
          /\ d.anchorUtcSec = c.anchorUtcSec + 1
          /\ d.anchorEdgeUs = edgeUs
          /\ Abs(edgeUs - c.lastEdgeUs - Second) <= CLK_PPS_INTERVAL_MAX_ERR
    /\ (Serving(d) /\ d.lastEdgeUs # edgeUs) =>
          /\ d.anchorUtcSec = c.anchorUtcSec
          /\ d.anchorEdgeUs = c.anchorEdgeUs

LEMMA RejectEdgeOK ==
    ASSUME NEW c \in LocalClockObject, NEW label \in Nat, NEW t \in Nat,
           PhaseOK(c, label), AgeOK(c, t),
           NEW edgeUs \in Nat, edgeUs > c.lastEdgeUs, NEW ppsCount \in Nat
    PROVE  LET d == RejectEdge(c, ppsCount)
           IN  d \in LocalClockObject /\ PhaseOK(d, label) /\ AgeOK(d, t)
               /\ EdgeStep(c, d, edgeUs)
<1> DEFINE bad == IF c.ppsBadStreak < 255 THEN c.ppsBadStreak + 1 ELSE c.ppsBadStreak
           stable == PpsHealthy(bad, c.edgeCount)
           r == [c EXCEPT !.ppsBadStreak = bad, !.lastPpsCount = ppsCount,
                          !.ppsStable = stable]
           u == EnterUnsynced(r)
<1>1. bad \in 0..255
  BY DEF LocalClockObject
<1>2. stable \in BOOLEAN /\ (stable => c.edgeCount >= 2)
  BY DEF PpsHealthy
<1>3. RejectEdge(c, ppsCount) = IF ~stable /\ Serving(r) THEN u ELSE r
  BY DEF RejectEdge, LoseSyncIf
<1> HIDE DEF bad, stable
<1>4. r \in LocalClockObject
  BY <1>1, <1>2, Zenon DEF LocalClockObject
<1>5. /\ r.lastEdgeUs = c.lastEdgeUs /\ r.edgeCount = c.edgeCount
      /\ (r.ppsStable <=> stable)
      /\ r.state = c.state /\ r.holdoverStartUs = c.holdoverStartUs
      /\ (r.haveAnchor <=> c.haveAnchor) /\ r.anchorEdgeUs = c.anchorEdgeUs
      /\ r.anchorUtcSec = c.anchorUtcSec /\ r.okStreak = c.okStreak
  BY <1>2 DEF LocalClockObject
<1> HIDE DEF r
<1>6. u \in LocalClockObject /\ PhaseOK(u, label) /\ AgeOK(u, t)
      /\ u.state = "Unsynced" /\ u.lastEdgeUs = r.lastEdgeUs
  BY <1>4, EnterUnsyncedOK
<1> HIDE DEF u
<1>7. CASE ~stable /\ Serving(r)
  BY <1>3, <1>5, <1>6, <1>7 DEF EdgeStep, Serving
<1>8. CASE ~(~stable /\ Serving(r))
  <2>1. RejectEdge(c, ppsCount) = r
    BY <1>3, <1>8
  <2>2. PhaseOK(r, label) /\ AgeOK(r, t)
    BY <1>2, <1>5, <1>8 DEF PhaseOK, AgeOK, OffEdgeUnearned, Serving, Extrapolate
  <2>3. EdgeStep(c, r, edgeUs)
    BY <1>5 DEF EdgeStep, Serving
  <2> QED BY <1>4, <2>1, <2>2, <2>3
<1> QED BY <1>7, <1>8

LEMMA AcceptEdgeOK ==
    ASSUME NEW c \in LocalClockObject, NEW label \in Nat, NEW t \in Nat,
           PhaseOK(c, label), AgeOK(c, t),
           NEW edgeUs \in Nat, edgeUs > c.lastEdgeUs,
           NEW ppsCount \in Nat, NEW delta \in Nat \ {0},
           ~IsOutlier(c, edgeUs, delta)
    PROVE  LET d == AcceptEdge(c, edgeUs, ppsCount, delta)
           IN  d \in LocalClockObject /\ PhaseOK(d, label) /\ AgeOK(d, t)
               /\ EdgeStep(c, d, edgeUs)
<1> DEFINE k == IF IsResume(c, edgeUs) THEN RestartStream(c)
                ELSE CountMisses(c, edgeUs, delta)
           p == PushEdge(k, edgeUs, ppsCount)
           w == WalkUtc(p, edgeUs, delta)
           u == EnterUnsynced(w)
           d == IF ~w.ppsStable /\ Serving(w) THEN u ELSE w
<1>1. AcceptEdge(c, edgeUs, ppsCount, delta) = d
  BY DEF AcceptEdge, LoseSyncIf
<1>2. Counted(c, k) /\ (IsResume(c, edgeUs) => ~Serving(k))
  BY RestartStreamOK, CountMissesOK
<1> HIDE DEF k
<1>3. k \in LocalClockObject
  BY <1>2 DEF Counted
<1>4. /\ p \in LocalClockObject
      /\ p.lastEdgeUs = edgeUs
      /\ p.ppsStable => p.edgeCount >= 2
      /\ p.state = k.state /\ p.holdoverStartUs = k.holdoverStartUs
      /\ p.haveAnchor <=> k.haveAnchor
      /\ p.anchorEdgeUs = k.anchorEdgeUs
      /\ p.anchorUtcSec = k.anchorUtcSec
  BY <1>3, PushEdgeOK, ZenonT(40)
<1> HIDE DEF p
<1>5. /\ p.haveAnchor => p.anchorEdgeUs <= c.lastEdgeUs
      /\ p.anchorEdgeUs = c.anchorEdgeUs /\ p.anchorUtcSec = c.anchorUtcSec
      /\ p.state = c.state \/ p.state = "Unsynced"
      /\ Serving(p) => /\ Serving(c) /\ p.haveAnchor /\ p.state = c.state
                       /\ p.holdoverStartUs = c.holdoverStartUs
                       /\ ~IsResume(c, edgeUs)
  BY <1>2, <1>4 DEF Counted, Serving, PhaseOK
<1>6. AgeOK(p, t)
  BY <1>2, <1>4 DEF Counted, AgeOK
<1>7. CASE ~Serving(p)
  <2>1. w = p
    BY <1>7 DEF WalkUtc
  <2>2. d = p
    BY <1>7, <2>1
  <2>3. PhaseOK(p, label)
    BY <1>4, <1>5, <1>7 DEF PhaseOK, OffEdgeUnearned, Serving, LocalClockObject
  <2>4. EdgeStep(c, p, edgeUs)
    BY <1>4, <1>7 DEF EdgeStep
  <2> QED BY <1>1, <1>4, <1>6, <2>2, <2>3, <2>4
<1>8. CASE Serving(p) /\ delta = 1 /\ p.ppsStable
  <2>1. HasPrev(c, edgeUs)
    BY <1>5, <1>8 DEF HasPrev, PhaseOK, LocalClockObject
  <2>2. Abs(edgeUs - c.lastEdgeUs - Second) <= CLK_PPS_INTERVAL_MAX_ERR
    BY <1>5, <1>8, <2>1, IntervalsAssumption DEF IsOutlier, LocalClockObject, Abs, Second
  <2> DEFINE utc == p.anchorUtcSec + 1
             v == [p EXCEPT !.anchorUtcSec = utc, !.anchorEdgeUs = edgeUs]
  <2>3. w = v
    BY <1>5, <1>8, CountsAssumption DEF WalkUtc
  <2>4. utc \in Nat /\ utc = c.anchorUtcSec + 1
    BY <1>4, <1>5 DEF LocalClockObject
  <2> HIDE DEF utc
  <2>4a. p \in LocalClockObject /\ utc \in Nat /\ edgeUs \in Nat
    BY <1>4, <2>4
  <2>5. v \in LocalClockObject
    BY <2>4a, Zenon DEF LocalClockObject
  <2>6. /\ v.lastEdgeUs = edgeUs /\ v.anchorEdgeUs = edgeUs
        /\ v.anchorUtcSec = utc
        /\ v.state = p.state /\ v.holdoverStartUs = p.holdoverStartUs
        /\ (v.haveAnchor <=> p.haveAnchor) /\ (v.ppsStable <=> p.ppsStable)
        /\ v.edgeCount = p.edgeCount
    BY <1>4, <1>5 DEF LocalClockObject
  <2> HIDE DEF v
  <2>7. d = v
    BY <1>8, <2>3, <2>6
  <2>8. PhaseOK(v, label)
    BY <1>4, <1>5, <1>8, <2>6 DEF PhaseOK, OffEdgeUnearned, Serving
  <2>9. AgeOK(v, t)
    BY <1>6, <2>6 DEF AgeOK
  <2>10. EdgeStep(c, v, edgeUs)
    BY <1>5, <1>8, <2>2, <2>4, <2>6 DEF EdgeStep
  <2> QED BY <1>1, <2>5, <2>7, <2>8, <2>9, <2>10
<1>9. CASE Serving(p) /\ ~(delta = 1 /\ p.ppsStable)
  <2>1. /\ w \in LocalClockObject
        /\ w.lastEdgeUs = edgeUs
        /\ Serving(w) => ~w.ppsStable
        /\ ~Serving(w) => w = EnterUnsynced(p)
    <3>1. CASE delta >= CLK_PPS_MISS_UNSYNC
      <4>1. w = EnterUnsynced(p)
        BY <1>5, <1>9, <3>1 DEF WalkUtc
      <4> QED BY <1>4, <4>1, EnterUnsyncedOK DEF Serving
    <3>2. CASE delta < CLK_PPS_MISS_UNSYNC /\ delta > 1
      <4> DEFINE bad == BumpStreak(p.ppsBadStreak, 1)
                 utc == p.anchorUtcSec + delta
                 v == [p EXCEPT !.anchorUtcSec = utc,
                                !.anchorEdgeUs = edgeUs,
                                !.ppsBadStreak = bad,
                                !.ppsStable = FALSE]
      <4>1. w = v
        BY <1>5, <1>9, <3>2, CountsAssumption DEF WalkUtc
      <4>2. p.ppsBadStreak \in 0..255 /\ 1 \in Nat /\ utc \in Nat
            /\ edgeUs \in Nat /\ FALSE \in BOOLEAN
        BY <1>4 DEF LocalClockObject
      <4>5. bad \in 0..255
        BY <4>2, BumpStreakOK
      <4> HIDE DEF bad, utc
      <4>6. p \in LocalClockObject
        BY <1>4
      <4>3. v \in LocalClockObject
        BY <4>2, <4>5, <4>6, Zenon DEF LocalClockObject
      <4>4. v.lastEdgeUs = edgeUs /\ ~v.ppsStable /\ v.state = p.state
        BY <1>4 DEF LocalClockObject
      <4> QED BY <1>9, <4>1, <4>3, <4>4 DEF Serving
    <3>3. CASE delta = 1
      <4>1. w = p /\ ~p.ppsStable
        BY <1>5, <1>9, <3>3, CountsAssumption DEF WalkUtc
      <4> QED BY <1>4, <1>9, <4>1
    <3> QED BY <3>1, <3>2, <3>3, CountsAssumption
  <2> HIDE DEF w
  <2>2. d \in LocalClockObject /\ d.state = "Unsynced" /\ d.lastEdgeUs = edgeUs
        /\ PhaseOK(d, label) /\ AgeOK(d, t)
    BY <1>4, <2>1, EnterUnsyncedOK
  <2>3. EdgeStep(c, d, edgeUs)
    BY <2>2 DEF EdgeStep, Serving
  <2> QED BY <1>1, <2>2, <2>3
<1> QED BY <1>7, <1>8, <1>9

\* onPpsEdge, whole.
LEMMA OnPpsEdgeOK ==
    ASSUME NEW c \in LocalClockObject, NEW label \in Nat, NEW t \in Nat,
           PhaseOK(c, label), AgeOK(c, t),
           NEW edgeUs \in Nat, edgeUs > c.lastEdgeUs, NEW ppsCount \in Nat
    PROVE  LET d == OnPpsEdge(c, edgeUs, ppsCount)
           IN  d \in LocalClockObject /\ PhaseOK(d, label) /\ AgeOK(d, t)
               /\ EdgeStep(c, d, edgeUs)
<1> DEFINE delta == PpsDelta(c, ppsCount)
<1>1. delta \in Nat \ {0}
  BY PpsDeltaOK
<1> HIDE DEF delta
<1>2. OnPpsEdge(c, edgeUs, ppsCount) = IF IsOutlier(c, edgeUs, delta)
                                       THEN RejectEdge(c, ppsCount)
                                       ELSE AcceptEdge(c, edgeUs, ppsCount, delta)
  BY DEF OnPpsEdge, delta
<1> QED BY <1>1, <1>2, RejectEdgeOK, AcceptEdgeOK

-----------------------------------------------------------------------------
(* A commit, part by part.                                                  *)

\* What a commit of label or a tick may do: the pulse is not touched, a holdover in
\* progress keeps its age, and a clock that stays locked keeps its anchor.
ClockStep(c, d, label, t) ==
    /\ d \in LocalClockObject
    /\ PhaseOK(d, label)
    /\ AgeOK(d, t)
    /\ d.lastEdgeUs = c.lastEdgeUs
    /\ (c.state = "Holdover" /\ d.state = "Holdover")
          => d.holdoverStartUs = c.holdoverStartUs
    /\ (c.state = "Locked" /\ d.state = "Locked")
          => d.anchorUtcSec = c.anchorUtcSec /\ d.anchorEdgeUs = c.anchorEdgeUs

\* Inside the range of the residual nothing saturates.
LEMMA ResidualExact ==
    ASSUME NEW x \in Int, Abs(x) <= RESIDUAL_MAX
    PROVE  ToInt32(x) = x /\ AbsInt32(x) = Abs(x)
           /\ x \in (-RESIDUAL_MAX - 1)..RESIDUAL_MAX
BY HoldoverAssumption DEF ToInt32, AbsInt32, Abs

LEMMA SetAnchorOK ==
    ASSUME NEW c \in LocalClockObject, NEW utc \in Nat
    PROVE  LET d == SetAnchor(c, utc, c.lastEdgeUs)
           IN  /\ d \in LocalClockObject
               /\ d.haveAnchor /\ d.anchorUtcSec = utc /\ d.anchorEdgeUs = c.lastEdgeUs
               /\ d.state = c.state /\ d.lastEdgeUs = c.lastEdgeUs
               /\ d.edgeCount = c.edgeCount /\ d.okStreak = c.okStreak
               /\ d.holdoverStartUs = c.holdoverStartUs
               /\ d.ppsStable <=> c.ppsStable
<1>1. c.lastEdgeUs \in Nat /\ TRUE \in BOOLEAN
  BY DEF LocalClockObject
<1>2. SetAnchor(c, utc, c.lastEdgeUs) \in LocalClockObject
  BY <1>1, Zenon DEF SetAnchor, LocalClockObject
<1> QED BY <1>2 DEF SetAnchor, LocalClockObject

\* The first commit serves nothing: it only anchors an acquiring clock.
LEMMA BootstrapOK ==
    ASSUME NEW c \in LocalClockObject, NEW label \in Nat, NEW old \in Nat, NEW t \in Nat,
           PhaseOK(c, old), AgeOK(c, t), ~c.haveAnchor
    PROVE  ClockStep(c, Bootstrap(c, label), label, t)
<1> DEFINE a == SetAnchor(c, label, c.lastEdgeUs)
           d == [a EXCEPT !.residualMs = 0, !.state = "Acquiring", !.okStreak = 1]
<1>1. CASE c.ppsStable
  <2>1. Bootstrap(c, label) = d
    BY <1>1 DEF Bootstrap
  <2>2. /\ a \in LocalClockObject /\ a.haveAnchor /\ a.anchorEdgeUs = c.lastEdgeUs
        /\ a.lastEdgeUs = c.lastEdgeUs /\ a.edgeCount = c.edgeCount
        /\ a.ppsStable <=> c.ppsStable
    BY SetAnchorOK
  <2> HIDE DEF a
  <2>3. a \in LocalClockObject /\ 0 \in (-RESIDUAL_MAX - 1)..RESIDUAL_MAX
        /\ "Acquiring" \in ClockState /\ 1 \in 0..255
    BY <2>2, HoldoverAssumption DEF ClockState
  <2>4. d \in LocalClockObject
    BY <2>3, Zenon DEF LocalClockObject
  <2>5. /\ d.state = "Acquiring" /\ d.anchorEdgeUs = a.anchorEdgeUs
        /\ d.lastEdgeUs = a.lastEdgeUs /\ d.edgeCount = a.edgeCount
        /\ d.ppsStable <=> a.ppsStable
    BY <2>2 DEF LocalClockObject
  <2> HIDE DEF d
  <2>6. PhaseOK(d, label) /\ AgeOK(d, t)
    BY <2>2, <2>4, <2>5 DEF PhaseOK, AgeOK, OffEdgeUnearned, Serving, LocalClockObject
  <2> QED BY <2>1, <2>2, <2>4, <2>5, <2>6 DEF ClockStep
<1>2. CASE ~c.ppsStable
  <2>1. Bootstrap(c, label) = c
    BY <1>2 DEF Bootstrap
  <2>2. PhaseOK(c, label)
    BY DEF PhaseOK, OffEdgeUnearned
  <2> QED BY <2>1, <2>2 DEF ClockStep
<1> QED BY <1>1, <1>2

\* Two different seconds never both agree with one local time.
LEMMA LabelsApart ==
    ASSUME NEW c \in LocalClockObject, NEW label \in Nat, NEW old \in Nat, label # old
    PROVE  ~ /\ Abs(label * Second - Extrapolate(c, c.lastEdgeUs)) <= CLK_RESIDUAL_RELOCK_MS
             /\ Abs(old * Second - Extrapolate(c, c.lastEdgeUs)) <= CLK_RESIDUAL_RELOCK_MS
<1> DEFINE e == Extrapolate(c, c.lastEdgeUs)
<1>1. e \in Int
  BY DEF Extrapolate, LocalClockObject, Second
<1> HIDE DEF e
<1>2. ~ /\ Abs(label * Second - e) <= CLK_RESIDUAL_RELOCK_MS
        /\ Abs(old * Second - e) <= CLK_RESIDUAL_RELOCK_MS
  BY <1>1, ThresholdsAssumption DEF Abs, Second
<1> QED BY <1>2 DEF e

\* A label that agrees.  Off the last edge a clock cannot lock on it: its
\* streak is two only if the label before agreed with the same edge as well.
LEMMA AcceptCommitOK ==
    ASSUME NEW c \in LocalClockObject, NEW label \in Nat, NEW old \in Nat, NEW t \in Nat,
           PhaseOK(c, old), AgeOK(c, t), label # old, c.haveAnchor,
           NEW r \in Int, r = label * Second - Extrapolate(c, c.lastEdgeUs),
           AbsInt32(r) = Abs(r), Abs(r) <= CLK_RESIDUAL_RELOCK_MS
    PROVE  ClockStep(c, AcceptCommit(c, label, r), label, t)
<1> DEFINE streak == IF c.okStreak < 255 THEN c.okStreak + 1 ELSE c.okStreak
           slews == ~Serving(c) \/ AbsInt32(r) >= CLK_LOCKED_SLEW_MS
           phased == IF slews THEN SetAnchor(c, label, c.lastEdgeUs) ELSE c
           counted == [phased EXCEPT !.okStreak = streak]
           locks == streak >= CLK_RELOCK_COUNT /\ c.ppsStable
           locked == [counted EXCEPT !.state = "Locked", !.holdoverStartUs = 0]
           acquiring == [counted EXCEPT !.state = "Acquiring"]
<1>1. AcceptCommit(c, label, r) = IF locks THEN locked
                                  ELSE IF ~Serving(c) THEN acquiring
                                  ELSE counted
  BY DEF AcceptCommit
<1>2. streak \in 0..255 /\ (streak >= 2 => c.okStreak >= 1)
      /\ (c.okStreak = 0 => streak = 1)
  BY DEF LocalClockObject
<1>3. /\ phased \in LocalClockObject
      /\ phased.haveAnchor
      /\ phased.state = c.state /\ phased.lastEdgeUs = c.lastEdgeUs
      /\ phased.edgeCount = c.edgeCount /\ phased.holdoverStartUs = c.holdoverStartUs
      /\ phased.ppsStable <=> c.ppsStable
      /\ \/ phased.anchorUtcSec = label /\ phased.anchorEdgeUs = c.lastEdgeUs
         \/ /\ Serving(c)
            /\ phased.anchorUtcSec = c.anchorUtcSec
            /\ phased.anchorEdgeUs = c.anchorEdgeUs
  BY SetAnchorOK
<1> HIDE DEF streak, phased
<1>4. counted \in LocalClockObject
  <2>1. phased \in LocalClockObject
    BY <1>3
  <2> QED BY <2>1, <1>2, Zenon DEF LocalClockObject
<1>5. /\ counted.haveAnchor /\ counted.okStreak = streak
      /\ counted.state = c.state /\ counted.lastEdgeUs = c.lastEdgeUs
      /\ counted.edgeCount = c.edgeCount /\ counted.holdoverStartUs = c.holdoverStartUs
      /\ counted.ppsStable <=> c.ppsStable
      /\ counted.anchorUtcSec = phased.anchorUtcSec
      /\ counted.anchorEdgeUs = phased.anchorEdgeUs
  BY <1>3 DEF LocalClockObject
<1> HIDE DEF counted
<1>6. (locks /\ Serving(c) /\ c.anchorEdgeUs # c.lastEdgeUs) => FALSE
  <2> SUFFICES ASSUME locks, Serving(c), c.anchorEdgeUs # c.lastEdgeUs PROVE FALSE
    OBVIOUS
  <2>1. streak >= 2
    BY <1>2, CountsAssumption
  <2>2. Abs(old * Second - Extrapolate(c, c.lastEdgeUs)) <= CLK_RESIDUAL_RELOCK_MS
    BY <1>2, <2>1 DEF PhaseOK, OffEdgeUnearned
  <2> QED BY <2>2, LabelsApart
<1>7. c.anchorEdgeUs = c.lastEdgeUs /\ c.state = "Locked" => c.anchorUtcSec = label
  BY ThresholdsAssumption DEF Abs, Second, Extrapolate, LocalClockObject
<1>8. CASE locks
  <2>1. locked \in LocalClockObject
    <3>1. "Locked" \in ClockState /\ 0 \in Nat
      BY DEF ClockState
    <3> QED BY <1>4, <3>1, Zenon DEF LocalClockObject
  <2>2. /\ locked.state = "Locked" /\ locked.holdoverStartUs = 0
        /\ locked.haveAnchor /\ locked.lastEdgeUs = c.lastEdgeUs
        /\ locked.edgeCount = c.edgeCount /\ (locked.ppsStable <=> c.ppsStable)
        /\ locked.anchorUtcSec = phased.anchorUtcSec
        /\ locked.anchorEdgeUs = phased.anchorEdgeUs
    BY <1>4, <1>5 DEF LocalClockObject
  <2> HIDE DEF locked
  <2>3. locked.anchorEdgeUs = c.lastEdgeUs
    BY <1>3, <1>6, <1>8, <2>2
  <2>4. PhaseOK(locked, label) /\ AgeOK(locked, t)
    BY <1>8, <2>1, <2>2, <2>3 DEF PhaseOK, AgeOK, OffEdgeUnearned, LocalClockObject
  <2>5. c.state = "Locked" => /\ locked.anchorUtcSec = c.anchorUtcSec
                              /\ locked.anchorEdgeUs = c.anchorEdgeUs
    BY <1>3, <1>7, <2>2, <2>3 DEF PhaseOK
  <2> QED BY <1>1, <1>8, <2>1, <2>2, <2>4, <2>5 DEF ClockStep
<1>9. CASE ~locks /\ ~Serving(c)
  <2>1. acquiring \in LocalClockObject
    <3>1. "Acquiring" \in ClockState
      BY DEF ClockState
    <3> QED BY <1>4, <3>1, Zenon DEF LocalClockObject
  <2>2. /\ acquiring.state = "Acquiring"
        /\ acquiring.haveAnchor /\ acquiring.lastEdgeUs = c.lastEdgeUs
        /\ acquiring.edgeCount = c.edgeCount /\ (acquiring.ppsStable <=> c.ppsStable)
        /\ acquiring.anchorEdgeUs = phased.anchorEdgeUs
    BY <1>4, <1>5 DEF LocalClockObject
  <2> HIDE DEF acquiring
  <2>3. PhaseOK(acquiring, label) /\ AgeOK(acquiring, t)
    BY <1>3, <1>9, <2>1, <2>2
       DEF PhaseOK, AgeOK, OffEdgeUnearned, Serving, LocalClockObject
  <2> QED BY <1>1, <1>9, <2>1, <2>2, <2>3 DEF ClockStep
<1>10. CASE ~locks /\ Serving(c)
  <2>1. OffEdgeUnearned(counted, label)
    <3> SUFFICES ASSUME counted.anchorEdgeUs # counted.lastEdgeUs
                 PROVE  \/ counted.okStreak = 0
                        \/ /\ counted.okStreak = 1
                           /\ Abs(label * Second - Extrapolate(counted, counted.lastEdgeUs))
                                <= CLK_RESIDUAL_RELOCK_MS
      BY DEF OffEdgeUnearned
    <3>1. counted.anchorUtcSec = c.anchorUtcSec /\ counted.anchorEdgeUs = c.anchorEdgeUs
      BY <1>3, <1>5
    <3>2. r = label * Second - Extrapolate(counted, counted.lastEdgeUs)
      BY <1>5, <3>1 DEF Extrapolate
    <3>3. streak \in {0, 1}
      <4>1. c.okStreak \in {0, 1} /\ c.ppsStable
        BY <1>5, <1>10, <3>1 DEF PhaseOK, OffEdgeUnearned
      <4>2. c.okStreak # 1
        BY <1>5, <1>10, <3>1, LabelsApart DEF PhaseOK, OffEdgeUnearned
      <4> QED BY <1>2, <4>1, <4>2
    <3> QED BY <1>5, <3>2, <3>3
  <2>2. PhaseOK(counted, label) /\ AgeOK(counted, t)
    BY <1>3, <1>5, <1>7, <1>10, <2>1 DEF PhaseOK, AgeOK, Serving, LocalClockObject
  <2>3. c.state = "Locked" => /\ counted.anchorUtcSec = c.anchorUtcSec
                              /\ counted.anchorEdgeUs = c.anchorEdgeUs
    BY <1>3, <1>5, <1>7 DEF PhaseOK
  <2> QED BY <1>1, <1>4, <1>5, <1>10, <2>2, <2>3 DEF ClockStep
<1> QED BY <1>8, <1>9, <1>10

\* applyFail: a holdover from a stable pulse stream, or nothing.
LEMMA ApplyFailOK ==
    ASSUME NEW c \in LocalClockObject, NEW label \in Nat, NEW old \in Nat,
           NEW t \in Nat, t > 0, PhaseOK(c, old), AgeOK(c, t),
           NEW policy, NEW holdoverSec
    PROVE  ClockStep(c, ApplyFail(c, policy, holdoverSec, t), label, t)
<1>1. CASE ApplyFail(c, policy, holdoverSec, t) = EnterUnsynced(c)
  BY <1>1, EnterUnsyncedOK DEF ClockStep
<1>2. CASE /\ ApplyFail(c, policy, holdoverSec, t) = EnterHoldover(c, t)
           /\ c.ppsStable /\ c.haveAnchor
  BY <1>2, EnterHoldoverOK DEF ClockStep, PhaseOK
<1> QED BY <1>1, <1>2 DEF ApplyFail

\* The three outcomes of a comparison.
LEMMA CrossCheckOK ==
    ASSUME NEW c \in LocalClockObject, NEW label \in Nat, NEW old \in Nat,
           NEW t \in Nat, t > 0, PhaseOK(c, old), AgeOK(c, t),
           label # old, c.haveAnchor,
           Abs(label * Second - Extrapolate(c, c.lastEdgeUs)) <= RESIDUAL_MAX,
           NEW policy, NEW holdoverSec
    PROVE  ClockStep(c, CrossCheck(c, label, policy, holdoverSec, t), label, t)
<1> DEFINE r == Residual(c, label)
           checked == [c EXCEPT !.residualMs = r]
           failed == [checked EXCEPT !.okStreak = 0]
           degraded == [failed EXCEPT !.state = "Degraded"]
<1>1. CrossCheck(c, label, policy, holdoverSec, t) =
        IF Agrees(r) THEN AcceptCommit(checked, label, r)
        ELSE IF ~Warns(r) THEN ApplyFail(failed, policy, holdoverSec, t)
        ELSE IF c.ppsStable /\ c.haveAnchor THEN degraded
        ELSE EnterUnsynced(failed)
  BY DEF CrossCheck
<1>2. /\ r = label * Second - Extrapolate(c, c.lastEdgeUs)
      /\ r \in Int /\ r \in (-RESIDUAL_MAX - 1)..RESIDUAL_MAX
      /\ AbsInt32(r) = Abs(r)
  <2> DEFINE x == label * Second - Extrapolate(c, c.lastEdgeUs)
  <2>1. x \in Int
    BY DEF Extrapolate, LocalClockObject, Second
  <2>2. r = ToInt32(x)
    BY DEF Residual
  <2> HIDE DEF x, r
  <2>3. r = x /\ AbsInt32(x) = Abs(x) /\ x \in (-RESIDUAL_MAX - 1)..RESIDUAL_MAX
    BY <2>1, <2>2, ResidualExact DEF x
  <2> QED BY <2>1, <2>3 DEF x
<1> HIDE DEF r
<1>3. checked \in LocalClockObject
  BY <1>2, ZenonT(40) DEF LocalClockObject
<1>4. /\ checked.state = c.state /\ checked.edgeCount = c.edgeCount
      /\ checked.lastEdgeUs = c.lastEdgeUs /\ checked.okStreak = c.okStreak
      /\ checked.holdoverStartUs = c.holdoverStartUs
      /\ checked.anchorUtcSec = c.anchorUtcSec /\ checked.anchorEdgeUs = c.anchorEdgeUs
      /\ checked.haveAnchor <=> c.haveAnchor
      /\ checked.ppsStable <=> c.ppsStable
  BY DEF LocalClockObject
<1> HIDE DEF checked
<1>5. failed \in LocalClockObject
  <2>1. 0 \in 0..255
    OBVIOUS
  <2> QED BY <1>3, <2>1, Zenon DEF LocalClockObject
<1>6. /\ failed.state = c.state /\ failed.edgeCount = c.edgeCount
      /\ failed.lastEdgeUs = c.lastEdgeUs /\ failed.okStreak = 0
      /\ failed.holdoverStartUs = c.holdoverStartUs
      /\ failed.anchorUtcSec = c.anchorUtcSec /\ failed.anchorEdgeUs = c.anchorEdgeUs
      /\ failed.haveAnchor <=> c.haveAnchor
      /\ failed.ppsStable <=> c.ppsStable
  BY <1>3, <1>4 DEF LocalClockObject
<1> HIDE DEF failed
<1>7. CASE Agrees(r)
  <2>1. PhaseOK(checked, old) /\ AgeOK(checked, t)
    BY <1>4 DEF PhaseOK, AgeOK, OffEdgeUnearned, Serving, Extrapolate
  <2>2. r = label * Second - Extrapolate(checked, checked.lastEdgeUs)
    BY <1>2, <1>4 DEF Extrapolate
  <2>3. ClockStep(checked, AcceptCommit(checked, label, r), label, t)
    BY <1>2, <1>3, <1>4, <1>7, <2>1, <2>2, AcceptCommitOK DEF Agrees
  <2> QED BY <1>1, <1>4, <1>7, <2>3 DEF ClockStep
<1>8. CASE ~Agrees(r) /\ ~Warns(r)
  <2>1. PhaseOK(failed, old) /\ AgeOK(failed, t)
    BY <1>6 DEF PhaseOK, AgeOK, OffEdgeUnearned, Serving
  <2>2. ClockStep(failed, ApplyFail(failed, policy, holdoverSec, t), label, t)
    BY <1>5, <2>1, ApplyFailOK
  <2> QED BY <1>1, <1>6, <1>8, <2>2 DEF ClockStep
<1>9. CASE ~Agrees(r) /\ Warns(r) /\ c.ppsStable
  <2>1. degraded \in LocalClockObject
    <3>1. "Degraded" \in ClockState
      BY DEF ClockState
    <3> QED BY <1>5, <3>1, Zenon DEF LocalClockObject
  <2>2. /\ degraded.state = "Degraded" /\ degraded.edgeCount = c.edgeCount
        /\ degraded.lastEdgeUs = c.lastEdgeUs /\ degraded.okStreak = 0
        /\ degraded.anchorEdgeUs = c.anchorEdgeUs
        /\ degraded.haveAnchor <=> c.haveAnchor
        /\ degraded.ppsStable <=> c.ppsStable
    BY <1>5, <1>6 DEF LocalClockObject
  <2> HIDE DEF degraded
  <2>3. PhaseOK(degraded, label) /\ AgeOK(degraded, t)
    BY <1>9, <2>2 DEF PhaseOK, AgeOK, OffEdgeUnearned
  <2> QED BY <1>1, <1>9, <2>1, <2>2, <2>3 DEF ClockStep
<1>10. CASE ~Agrees(r) /\ Warns(r) /\ ~c.ppsStable
  BY <1>1, <1>5, <1>6, <1>10, EnterUnsyncedOK DEF ClockStep
<1> QED BY <1>7, <1>8, <1>9, <1>10

\* Taking a clock to Acquiring ends what it served and keeps the rest.
LEMMA AcquireOK ==
    ASSUME NEW c \in LocalClockObject, NEW label \in Nat, NEW old \in Nat,
           NEW t \in Nat, PhaseOK(c, old)
    PROVE  ClockStep(c, [c EXCEPT !.state = "Acquiring"], label, t)
<1> DEFINE d == [c EXCEPT !.state = "Acquiring"]
<1>1. "Acquiring" \in ClockState
  BY DEF ClockState
<1>2. d \in LocalClockObject
  BY <1>1, Zenon DEF LocalClockObject
<1>3. /\ d.state = "Acquiring" /\ d.lastEdgeUs = c.lastEdgeUs
      /\ d.edgeCount = c.edgeCount /\ d.anchorEdgeUs = c.anchorEdgeUs
      /\ d.haveAnchor <=> c.haveAnchor
      /\ d.ppsStable <=> c.ppsStable
  BY DEF LocalClockObject
<1> HIDE DEF d
<1>4. PhaseOK(d, label) /\ AgeOK(d, t)
  BY <1>3 DEF PhaseOK, AgeOK, OffEdgeUnearned, Serving
<1>5. ClockStep(c, d, label, t)
  BY <1>2, <1>3, <1>4 DEF ClockStep
<1> QED BY <1>5 DEF d

\* onNmeaCommit, whole, with the pulse count the clock has consumed.
LEMMA OnNmeaCommitOK ==
    ASSUME NEW c \in LocalClockObject, NEW label \in Nat, NEW old \in Nat,
           NEW t \in Nat, t > 0, PhaseOK(c, old), AgeOK(c, t), label # old,
           (c.haveAnchor /\ CanExtrapolate(c, c.lastEdgeUs)) =>
              Abs(label * Second - Extrapolate(c, c.lastEdgeUs)) <= RESIDUAL_MAX,
           NEW policy, NEW holdoverSec
    PROVE  ClockStep(c, OnNmeaCommit(c, label, c.lastPpsCount, policy, holdoverSec, t),
                      label, t)
<1> DEFINE d == OnNmeaCommit(c, label, c.lastPpsCount, policy, holdoverSec, t)
<1>1. UtcAtLastEdge(c, label, c.lastPpsCount) = label
  BY DEF UtcAtLastEdge, LocalClockObject
<1>2. CASE d = [c EXCEPT !.state = "Acquiring"]
  BY <1>2, AcquireOK
<1>3. CASE d = Bootstrap(c, label) /\ ~c.haveAnchor
  BY <1>3, BootstrapOK
<1>4. CASE /\ d = CrossCheck(c, label, policy, holdoverSec, t)
           /\ c.haveAnchor /\ CanExtrapolate(c, c.lastEdgeUs)
  BY <1>4, CrossCheckOK
<1> QED BY <1>1, <1>2, <1>3, <1>4 DEF OnNmeaCommit

-----------------------------------------------------------------------------
(* The tick.                                                                *)

\* What a tick may do: no more than a commit, and it starts no service.
TickStep(c, d, label, t) ==
    ClockStep(c, d, label, t) /\ (Serving(d) => Serving(c))

LEMMA LeaveNormalOK ==
    ASSUME NEW c \in LocalClockObject, NEW label \in Nat, NEW t \in Nat, t > 0,
           PhaseOK(c, label), AgeOK(c, t), NEW mayHold, mayHold => c.haveAnchor
    PROVE  TickStep(c, LeaveNormal(c, mayHold, t), label, t)
<1>1. CASE LeaveNormal(c, mayHold, t) = c
  BY <1>1 DEF TickStep, ClockStep
<1>2. CASE LeaveNormal(c, mayHold, t) = EnterHoldover(c, t)
           /\ c.state \in {"Locked", "Degraded"}
  BY <1>2, EnterHoldoverOK DEF TickStep, ClockStep, PhaseOK, Serving
<1>3. CASE LeaveNormal(c, mayHold, t) = EnterUnsynced(c)
  BY <1>3, EnterUnsyncedOK DEF TickStep, ClockStep, Serving
<1> QED BY <1>1, <1>2, <1>3 DEF LeaveNormal

LEMMA ExpireHoldoverOK ==
    ASSUME NEW c \in LocalClockObject, NEW label \in Nat, NEW t \in Nat,
           PhaseOK(c, label), AgeOK(c, t), NEW holdoverSec
    PROVE  TickStep(c, ExpireHoldover(c, holdoverSec, t), label, t)
<1>1. CASE ExpireHoldover(c, holdoverSec, t) = c
  BY <1>1 DEF TickStep, ClockStep
<1>2. CASE ExpireHoldover(c, holdoverSec, t) = EnterUnsynced(c)
  BY <1>2, EnterUnsyncedOK DEF TickStep, ClockStep, Serving
<1> QED BY <1>1, <1>2 DEF ExpireHoldover

LEMMA ReacquireOK ==
    ASSUME NEW c \in LocalClockObject, NEW label \in Nat, NEW t \in Nat,
           PhaseOK(c, label), AgeOK(c, t), NEW nmeaFresh
    PROVE  TickStep(c, Reacquire(c, nmeaFresh), label, t)
<1>1. CASE Reacquire(c, nmeaFresh) = c
  BY <1>1 DEF TickStep, ClockStep
<1>2. CASE Reacquire(c, nmeaFresh) = [c EXCEPT !.state = "Acquiring"]
  <2>1. [c EXCEPT !.state = "Acquiring"].state = "Acquiring"
    BY DEF LocalClockObject
  <2> QED BY <1>2, <2>1, AcquireOK DEF TickStep, Serving
<1> QED BY <1>1, <1>2 DEF Reacquire

\* The parts of a tick add up.
LEMMA TickTransitive ==
    ASSUME NEW c, NEW d, NEW e, NEW label, NEW t,
           TickStep(c, d, label, t), TickStep(d, e, label, t),
           c.state = "Holdover" /\ e.state = "Holdover" => d.state = "Holdover",
           c.state = "Locked" /\ e.state = "Locked" => d.state = "Locked"
    PROVE  TickStep(c, e, label, t)
BY DEF TickStep, ClockStep

\* tick, whole.
LEMMA TickOK ==
    ASSUME NEW c \in LocalClockObject, NEW label \in Nat, NEW t \in Nat, t > 0,
           PhaseOK(c, label), AgeOK(c, t),
           NEW nmeaFresh, NEW ppsFresh, NEW policy, NEW holdoverSec
    PROVE  TickStep(c, Tick(c, nmeaFresh, ppsFresh, policy, holdoverSec, t), label, t)
<1> DEFINE mayHold == MayHoldOver(c, policy, holdoverSec)
           noPps == LeaveNormal(c, mayHold, t)
           noNmea == IF nmeaFresh THEN c ELSE LeaveNormal(c, mayHold /\ c.ppsStable, t)
           x == ExpireHoldover(noPps, holdoverSec, t)
           y == ExpireHoldover(noNmea, holdoverSec, t)
           z == Reacquire(y, nmeaFresh)
<1>1. Tick(c, nmeaFresh, ppsFresh, policy, holdoverSec, t) =
        IF policy = "Refuse" /\ c.state = "Holdover" THEN EnterUnsynced(c)
        ELSE IF ~ppsFresh THEN x
        ELSE z
  BY DEF Tick
<1>2. mayHold => c.haveAnchor
  BY DEF MayHoldOver
<1>3. TickStep(c, EnterUnsynced(c), label, t)
  BY EnterUnsyncedOK DEF TickStep, ClockStep, Serving
<1>4. TickStep(c, c, label, t)
  BY DEF TickStep, ClockStep
<1>5. TickStep(c, x, label, t)
  <2>1. TickStep(c, noPps, label, t)
    BY <1>2, LeaveNormalOK
  <2>2. /\ c.state = "Holdover" => noPps = c
        /\ c.state = "Locked" => noPps.state \in {"Holdover", "Unsynced"}
    BY EnterHoldoverOK, EnterUnsyncedOK DEF LeaveNormal, EnterHoldover, EnterUnsynced, LocalClockObject
  <2>3. x = noPps \/ x.state = "Unsynced"
    BY <2>1, EnterUnsyncedOK DEF ExpireHoldover, TickStep, ClockStep
  <2> HIDE DEF noPps
  <2>4. TickStep(noPps, x, label, t)
    BY <2>1, ExpireHoldoverOK DEF TickStep, ClockStep
  <2> HIDE DEF x
  <2> QED BY <2>1, <2>2, <2>3, <2>4, TickTransitive
<1>6. TickStep(c, y, label, t) /\ (y = c \/ y.state \in {"Holdover", "Unsynced"})
  <2>1. TickStep(c, noNmea, label, t)
    BY <1>2, <1>4, LeaveNormalOK
  <2>2. noNmea = c \/ noNmea.state \in {"Holdover", "Unsynced"}
    BY DEF LeaveNormal, EnterHoldover, EnterUnsynced, LocalClockObject
  <2>5. c.state = "Holdover" => noNmea = c
    BY DEF LeaveNormal
  <2>3. y = noNmea \/ y.state = "Unsynced"
    BY <2>1, EnterUnsyncedOK DEF ExpireHoldover, TickStep, ClockStep
  <2> HIDE DEF noNmea
  <2>4. TickStep(noNmea, y, label, t)
    BY <2>1, ExpireHoldoverOK DEF TickStep, ClockStep
  <2> HIDE DEF y
  <2> QED BY <2>1, <2>2, <2>3, <2>4, <2>5, TickTransitive
<1> HIDE DEF y
<1>7. TickStep(c, z, label, t)
  <2>1. TickStep(y, z, label, t)
    BY <1>6, ReacquireOK DEF TickStep, ClockStep
  <2>2. z = y \/ z.state = "Acquiring"
    BY <1>6 DEF Reacquire, TickStep, ClockStep, LocalClockObject
  <2> HIDE DEF z
  <2> QED BY <1>6, <2>1, <2>2, TickTransitive
<1> QED BY <1>1, <1>3, <1>5, <1>7

-----------------------------------------------------------------------------
(* The pulse count, and the second of the anchor.                           *)

\* The clock has consumed the same pulses and has the same anchor second.
Alike(c, d) ==
    /\ d.lastEdgeUs = c.lastEdgeUs
    /\ d.lastPpsCount = c.lastPpsCount
    /\ d.anchorUtcSec = c.anchorUtcSec

LEMMA EnterUnsyncedCounts ==
    ASSUME NEW c \in LocalClockObject
    PROVE  Alike(c, EnterUnsynced(c))
BY DEF EnterUnsynced, Alike, LocalClockObject

LEMMA EnterHoldoverCounts ==
    ASSUME NEW c \in LocalClockObject, NEW t
    PROVE  Alike(c, EnterHoldover(c, t))
BY DEF EnterHoldover, Alike, LocalClockObject

\* A pulse leaves its count behind, and the anchor walks by no more seconds than
\* the count grows.
LEMMA OnPpsEdgeCounts ==
    ASSUME NEW c \in LocalClockObject, NEW label \in Nat, PhaseOK(c, label),
           NEW edgeUs \in Nat, NEW ppsCount \in Nat,
           ppsCount > c.lastPpsCount
    PROVE  LET d == OnPpsEdge(c, edgeUs, ppsCount)
           IN  /\ d.lastPpsCount = ppsCount
               /\ d.lastEdgeUs \in {c.lastEdgeUs, edgeUs}
               /\ d.anchorUtcSec \in 0..(c.anchorUtcSec + (ppsCount - c.lastPpsCount))
<1> DEFINE delta == PpsDelta(c, ppsCount)
<1>1. delta \in Nat \ {0} /\ delta <= ppsCount - c.lastPpsCount
  BY DEF PpsDelta, LocalClockObject
<1> HIDE DEF delta
<1>2. c.anchorUtcSec \in Nat /\ c.lastPpsCount \in Nat
  BY DEF LocalClockObject
<1>3. LET d == RejectEdge(c, ppsCount)
      IN  /\ d.lastPpsCount = ppsCount /\ d.lastEdgeUs = c.lastEdgeUs
          /\ d.anchorUtcSec = c.anchorUtcSec
  <2> DEFINE bad == IF c.ppsBadStreak < 255 THEN c.ppsBadStreak + 1 ELSE c.ppsBadStreak
             stable == PpsHealthy(bad, c.edgeCount)
             r == [c EXCEPT !.ppsBadStreak = bad, !.lastPpsCount = ppsCount,
                            !.ppsStable = stable]
  <2>1. bad \in 0..255 /\ stable \in BOOLEAN
    BY DEF LocalClockObject, PpsHealthy
  <2>2. RejectEdge(c, ppsCount) = IF ~stable /\ Serving(r) THEN EnterUnsynced(r) ELSE r
    BY DEF RejectEdge, LoseSyncIf
  <2> HIDE DEF bad, stable
  <2>3. r \in LocalClockObject
    BY <2>1, Zenon DEF LocalClockObject
  <2>4. /\ r.lastPpsCount = ppsCount /\ r.lastEdgeUs = c.lastEdgeUs
        /\ r.anchorUtcSec = c.anchorUtcSec
    BY DEF LocalClockObject
  <2> HIDE DEF r
  <2> QED BY <2>2, <2>3, <2>4, EnterUnsyncedCounts DEF Alike
<1>4. LET d == AcceptEdge(c, edgeUs, ppsCount, delta)
      IN  /\ d.lastPpsCount = ppsCount /\ d.lastEdgeUs = edgeUs
          /\ d.anchorUtcSec \in 0..(c.anchorUtcSec + delta)
  <2> DEFINE k == IF IsResume(c, edgeUs) THEN RestartStream(c)
                  ELSE CountMisses(c, edgeUs, delta)
             p == PushEdge(k, edgeUs, ppsCount)
             w == WalkUtc(p, edgeUs, delta)
  <2>1. Counted(c, k)
    BY <1>1, RestartStreamOK, CountMissesOK
  <2>2. AcceptEdge(c, edgeUs, ppsCount, delta) = IF ~w.ppsStable /\ Serving(w)
                                                 THEN EnterUnsynced(w) ELSE w
    BY DEF AcceptEdge, LoseSyncIf
  <2> HIDE DEF k
  <2>3. /\ p \in LocalClockObject /\ p.lastEdgeUs = edgeUs
        /\ p.anchorUtcSec = c.anchorUtcSec
    BY <2>1, PushEdgeOK DEF Counted
  <2>4. p.lastPpsCount = ppsCount
    BY <2>1 DEF Counted, PushEdge, LocalClockObject
  <2> HIDE DEF p
  <2>5. /\ w \in LocalClockObject
        /\ w.lastPpsCount = ppsCount /\ w.lastEdgeUs = edgeUs
        /\ w.anchorUtcSec \in 0..(c.anchorUtcSec + delta)
    <3>5. \/ w = p
          \/ w = EnterUnsynced(p)
          \/ w = [p EXCEPT !.anchorUtcSec = @ + 1, !.anchorEdgeUs = edgeUs]
          \/ w = [p EXCEPT !.anchorUtcSec = @ + delta, !.anchorEdgeUs = edgeUs,
                           !.ppsBadStreak = BumpStreak(@, 1), !.ppsStable = FALSE]
      BY Zenon DEF WalkUtc
    <3> HIDE DEF w
    <3>1. CASE w = p
      BY <1>1, <1>2, <2>3, <2>4, <3>1
    <3>2. CASE w = EnterUnsynced(p)
      <4>1. EnterUnsynced(p) \in LocalClockObject
        BY <2>3, EnterUnsyncedOK
      <4> QED BY <1>1, <1>2, <2>3, <2>4, <3>2, <4>1, EnterUnsyncedCounts DEF Alike
    <3>3. CASE w = [p EXCEPT !.anchorUtcSec = @ + 1, !.anchorEdgeUs = edgeUs]
      <4>1. p.anchorUtcSec + 1 \in Nat
        BY <2>3 DEF LocalClockObject
      <4>2. w \in LocalClockObject
        BY <2>3, <3>3, <4>1, ZenonT(40) DEF LocalClockObject
      <4>3. /\ w.lastPpsCount = p.lastPpsCount /\ w.lastEdgeUs = p.lastEdgeUs
            /\ w.anchorUtcSec = p.anchorUtcSec + 1
        BY <2>3, <3>3 DEF LocalClockObject
      <4> QED BY <1>1, <1>2, <2>3, <2>4, <4>2, <4>3
    <3>4. CASE w = [p EXCEPT !.anchorUtcSec = @ + delta, !.anchorEdgeUs = edgeUs,
                             !.ppsBadStreak = BumpStreak(@, 1), !.ppsStable = FALSE]
      <4>0. p.ppsBadStreak \in 0..255 /\ p.anchorUtcSec \in Nat
        BY <2>3, Zenon DEF LocalClockObject
      <4>1a. BumpStreak(p.ppsBadStreak, 1) \in 0..255
        BY <4>0, 1 \in Nat, BumpStreakOK
      <4> DEFINE walked == p.anchorUtcSec + delta
                 bad == BumpStreak(p.ppsBadStreak, 1)
      <4>1. walked \in Nat /\ bad \in 0..255
        BY <1>1, <4>0, <4>1a
      <4>1b. w = [p EXCEPT !.anchorUtcSec = walked, !.anchorEdgeUs = edgeUs,
                           !.ppsBadStreak = bad, !.ppsStable = FALSE]
        BY <3>4, Zenon
      <4>2. w \in LocalClockObject
        <5> HIDE DEF walked, bad
        <5>1. p \in LocalClockObject
          BY <2>3
        <5> QED BY <5>1, <4>1, <4>1b, ZenonT(60) DEF LocalClockObject
      <4>3. /\ w.lastPpsCount = p.lastPpsCount /\ w.lastEdgeUs = p.lastEdgeUs
            /\ w.anchorUtcSec = p.anchorUtcSec + delta
        BY <2>3, <3>4 DEF LocalClockObject
      <4> QED BY <1>1, <1>2, <2>3, <2>4, <4>2, <4>3
    <3> QED BY <3>5, <3>1, <3>2, <3>3, <3>4
  <2> HIDE DEF w
  <2> QED BY <2>2, <2>5, EnterUnsyncedCounts DEF Alike
<1>5. OnPpsEdge(c, edgeUs, ppsCount) = IF IsOutlier(c, edgeUs, delta)
                                       THEN RejectEdge(c, ppsCount)
                                       ELSE AcceptEdge(c, edgeUs, ppsCount, delta)
  BY DEF OnPpsEdge, delta
<1>6. CASE IsOutlier(c, edgeUs, delta)
  BY <1>1, <1>2, <1>3, <1>5, <1>6
<1>7. CASE ~IsOutlier(c, edgeUs, delta)
  BY <1>1, <1>2, <1>4, <1>5, <1>7
<1> QED BY <1>6, <1>7

\* A commit consumes no pulse, and the anchor second is the old one or the label.
LEMMA OnNmeaCommitCounts ==
    ASSUME NEW c \in LocalClockObject, NEW label \in Nat, NEW policy, NEW holdoverSec, NEW t
    PROVE  LET d == OnNmeaCommit(c, label, c.lastPpsCount, policy, holdoverSec, t)
           IN  /\ d.lastEdgeUs = c.lastEdgeUs /\ d.lastPpsCount = c.lastPpsCount
               /\ d.anchorUtcSec \in {c.anchorUtcSec, label}
<1> DEFINE Kept(d) == /\ d.lastEdgeUs = c.lastEdgeUs /\ d.lastPpsCount = c.lastPpsCount
                      /\ d.anchorUtcSec \in {c.anchorUtcSec, label}
           r == Residual(c, label)
           checked == [c EXCEPT !.residualMs = r]
           failed == [checked EXCEPT !.okStreak = 0]
           d == OnNmeaCommit(c, label, c.lastPpsCount, policy, holdoverSec, t)
<1>1. Kept(Bootstrap(c, label)) /\ Kept([c EXCEPT !.state = "Acquiring"])
  BY DEF Bootstrap, SetAnchor, LocalClockObject
<1>2. r \in (-RESIDUAL_MAX - 1)..RESIDUAL_MAX
  BY HoldoverAssumption DEF Residual, ToInt32, Extrapolate, LocalClockObject, Second
<1>4. Kept(checked) /\ Kept(failed)
  BY DEF LocalClockObject
<1>3. checked \in LocalClockObject /\ failed \in LocalClockObject
  <2> HIDE DEF r
  <2>1. 0 \in 0..255
    OBVIOUS
  <2> QED BY <1>2, <2>1, Zenon DEF LocalClockObject
<1>5. d \in { [c EXCEPT !.state = "Acquiring"], Bootstrap(c, label),
              CrossCheck(c, label, policy, holdoverSec, t) }
  <2>1. UtcAtLastEdge(c, label, c.lastPpsCount) = label
    BY DEF UtcAtLastEdge, LocalClockObject
  <2> QED BY <2>1, Zenon DEF OnNmeaCommit
<1>6. CrossCheck(c, label, policy, holdoverSec, t)
        \in { AcceptCommit(checked, label, r), ApplyFail(failed, policy, holdoverSec, t),
              [failed EXCEPT !.state = "Degraded"], EnterUnsynced(failed) }
  <2> DEFINE degraded == [failed EXCEPT !.state = "Degraded"]
  <2> DEFINE x == CrossCheck(c, label, policy, holdoverSec, t)
  <2>1. x = IF Agrees(r) THEN AcceptCommit(checked, label, r)
            ELSE IF ~Warns(r) THEN ApplyFail(failed, policy, holdoverSec, t)
            ELSE IF c.ppsStable /\ c.haveAnchor THEN degraded
            ELSE EnterUnsynced(failed)
    BY DEF CrossCheck
  <2> HIDE DEF x, checked, failed, r, degraded
  <2>2. x \in {AcceptCommit(checked, label, r), ApplyFail(failed, policy, holdoverSec, t),
               degraded, EnterUnsynced(failed)}
    BY <2>1
  <2> QED BY <2>2 DEF x, degraded
<1> HIDE DEF checked, failed, r
<1>7. Kept(AcceptCommit(checked, label, r))
  BY <1>3, <1>4 DEF AcceptCommit, SetAnchor, LocalClockObject
<1>8. Kept(ApplyFail(failed, policy, holdoverSec, t)) /\ Kept(EnterUnsynced(failed))
  BY <1>3, <1>4, EnterHoldoverCounts, EnterUnsyncedCounts DEF ApplyFail, Alike
<1>9. Kept([failed EXCEPT !.state = "Degraded"])
  BY <1>3, <1>4 DEF LocalClockObject
<1> HIDE DEF Kept, d
<1>10. Kept(d)
  BY <1>1, <1>5, <1>6, <1>7, <1>8, <1>9
<1> QED BY <1>10 DEF Kept, d

\* A tick consumes no pulse and moves no anchor.
LEMMA TickCounts ==
    ASSUME NEW c \in LocalClockObject, NEW nmeaFresh, NEW ppsFresh, NEW policy,
           NEW holdoverSec, NEW t \in Nat
    PROVE  Alike(c, Tick(c, nmeaFresh, ppsFresh, policy, holdoverSec, t))
<1> DEFINE Kept(d) == d \in LocalClockObject /\ Alike(c, d)
<1>1. \A d : Kept(d) => Kept(EnterUnsynced(d))
  BY EnterUnsyncedCounts, EnterUnsyncedOK DEF Alike
<1>2. \A d : Kept(d) => Kept([d EXCEPT !.state = "Acquiring"])
  <2> SUFFICES ASSUME NEW d, Kept(d) PROVE Kept([d EXCEPT !.state = "Acquiring"])
    OBVIOUS
  <2>1. "Acquiring" \in ClockState
    BY DEF ClockState
  <2>2. [d EXCEPT !.state = "Acquiring"] \in LocalClockObject
    BY <2>1, Zenon DEF LocalClockObject
  <2> QED BY <2>2 DEF Alike, LocalClockObject
<1>3. \A d : Kept(d) => Kept(EnterHoldover(d, t))
  <2> SUFFICES ASSUME NEW d, Kept(d) PROVE Kept(EnterHoldover(d, t))
    OBVIOUS
  <2>1. /\ "Holdover" \in ClockState /\ 0 \in 0..255
        /\ (IF d.state = "Holdover" THEN d.holdoverStartUs ELSE t) \in Nat
    BY DEF ClockState, LocalClockObject
  <2>2. EnterHoldover(d, t) \in LocalClockObject
    BY <2>1, ZenonT(40) DEF EnterHoldover, LocalClockObject
  <2> QED BY <2>2, EnterHoldoverCounts DEF Alike
<1>4. Kept(c)
  BY DEF Alike
<1> HIDE DEF Kept
<1>5. \A mayHold : Kept(LeaveNormal(c, mayHold, t))
  BY <1>1, <1>3, <1>4 DEF LeaveNormal
<1>6. \A d : Kept(d) => Kept(ExpireHoldover(d, holdoverSec, t))
  BY <1>1 DEF ExpireHoldover
<1>7. \A d : Kept(d) => Kept(Reacquire(d, nmeaFresh))
  BY <1>2 DEF Reacquire
<1>8. Kept(Tick(c, nmeaFresh, ppsFresh, policy, holdoverSec, t))
  BY <1>1, <1>4, <1>5, <1>6, <1>7 DEF Tick
<1> QED BY <1>8 DEF Kept

-----------------------------------------------------------------------------
(* The streak of agreeing commits, and the line through the anchor.         *)

\* Commits are only counted against an anchor, and there is none before a pulse.
StreakAnchored(c) == c.okStreak # 0 => c.haveAnchor /\ c.lastEdgeUs # 0

SameAnchor(c, d) ==
    d.anchorUtcSec = c.anchorUtcSec /\ d.anchorEdgeUs = c.anchorEdgeUs

\* The streak and its line are kept, or the streak is over.
StreakKept(c, d) ==
    \/ d.okStreak = 0
    \/ /\ d.okStreak = c.okStreak
       /\ d.haveAnchor <=> c.haveAnchor
       /\ SameAnchor(c, d)

LEMMA EnterUnsyncedStreak ==
    ASSUME NEW c \in LocalClockObject
    PROVE  EnterUnsynced(c).okStreak = 0 /\ EnterUnsynced(c).state = "Unsynced"
BY DEF EnterUnsynced, LocalClockObject

LEMMA EnterHoldoverStreak ==
    ASSUME NEW c \in LocalClockObject, NEW t
    PROVE  EnterHoldover(c, t).okStreak = 0 /\ EnterHoldover(c, t).state = "Holdover"
BY DEF EnterHoldover, LocalClockObject

\* A pulse keeps the streak and, on a clock it leaves unserved, the line as well:
\* EdgeStep says what it does to the line of a clock that goes on serving.
LEMMA OnPpsEdgeStreak ==
    ASSUME NEW c \in LocalClockObject, NEW label \in Nat, PhaseOK(c, label),
           NEW edgeUs \in Nat, NEW ppsCount \in Nat
    PROVE  LET d == OnPpsEdge(c, edgeUs, ppsCount)
           IN  \/ StreakKept(c, d)
               \/ /\ Serving(d) /\ d.okStreak = c.okStreak
                  /\ d.haveAnchor <=> c.haveAnchor
<1> DEFINE Goal(d) == \/ StreakKept(c, d)
                      \/ /\ Serving(d) /\ d.okStreak = c.okStreak
                         /\ d.haveAnchor <=> c.haveAnchor
           delta == PpsDelta(c, ppsCount)
<1>1. delta \in Nat \ {0}
  BY PpsDeltaOK
<1> HIDE DEF delta
<1>2. Goal(RejectEdge(c, ppsCount))
  <2> DEFINE bad == IF c.ppsBadStreak < 255 THEN c.ppsBadStreak + 1 ELSE c.ppsBadStreak
             stable == PpsHealthy(bad, c.edgeCount)
             r == [c EXCEPT !.ppsBadStreak = bad, !.lastPpsCount = ppsCount,
                            !.ppsStable = stable]
  <2>1. bad \in 0..255 /\ stable \in BOOLEAN
    BY DEF LocalClockObject, PpsHealthy
  <2>2. RejectEdge(c, ppsCount) = IF ~stable /\ Serving(r) THEN EnterUnsynced(r) ELSE r
    BY DEF RejectEdge, LoseSyncIf
  <2> HIDE DEF bad, stable
  <2>3. r \in LocalClockObject
    BY <2>1, Zenon DEF LocalClockObject
  <2>4. StreakKept(c, r)
    BY DEF LocalClockObject, StreakKept, SameAnchor
  <2> HIDE DEF r
  <2> QED BY <2>2, <2>3, <2>4, EnterUnsyncedStreak DEF StreakKept
<1>3. Goal(AcceptEdge(c, edgeUs, ppsCount, delta))
  <2> DEFINE k == IF IsResume(c, edgeUs) THEN RestartStream(c)
                  ELSE CountMisses(c, edgeUs, delta)
             p == PushEdge(k, edgeUs, ppsCount)
             w == WalkUtc(p, edgeUs, delta)
  <2>1. AcceptEdge(c, edgeUs, ppsCount, delta) = IF ~w.ppsStable /\ Serving(w)
                                                 THEN EnterUnsynced(w) ELSE w
    BY DEF AcceptEdge, LoseSyncIf
  <2>2. k \in LocalClockObject
    BY <1>1, RestartStreamOK, CountMissesOK DEF Counted
  <2>3. StreakKept(c, k)
    <3> DEFINE x == [c EXCEPT !.edgeCount = 0, !.ppsBadStreak = 0]
    <3>1. 0 \in 0..CLK_PPS_EDGE_RING /\ 0 \in 0..255
      BY CountsAssumption
    <3>2. x \in LocalClockObject
      BY <3>1, Zenon DEF LocalClockObject
    <3>3. StreakKept(c, x)
      BY DEF LocalClockObject, StreakKept, SameAnchor
    <3> HIDE DEF x
    <3>4. StreakKept(c, RestartStream(c))
      BY <3>2, <3>3, EnterUnsyncedStreak DEF RestartStream, LoseSyncIf, StreakKept, x
    <3>5. StreakKept(c, CountMisses(c, edgeUs, delta))
      BY DEF CountMisses, LocalClockObject, StreakKept, SameAnchor
    <3> QED BY <3>4, <3>5
  <2> HIDE DEF k
  <2>4. p \in LocalClockObject
    BY <2>2, PushEdgeOK
  <2>5. StreakKept(c, p)
    BY <2>2, <2>3 DEF PushEdge, LocalClockObject, StreakKept, SameAnchor
  <2> HIDE DEF p
  <2>6. w \in LocalClockObject /\ Goal(w)
    <3> DEFINE one == p.anchorUtcSec + 1
               more == p.anchorUtcSec + delta
               bad == BumpStreak(p.ppsBadStreak, 1)
               walked == [p EXCEPT !.anchorUtcSec = one, !.anchorEdgeUs = edgeUs]
               jumped == [p EXCEPT !.anchorUtcSec = more, !.anchorEdgeUs = edgeUs,
                                   !.ppsBadStreak = bad, !.ppsStable = FALSE]
    <3>1. \/ w = p \/ w = EnterUnsynced(p)
          \/ (Serving(p) /\ w = walked) \/ (Serving(p) /\ w = jumped)
      BY Zenon DEF WalkUtc
    <3>2. p.ppsBadStreak \in 0..255 /\ p.anchorUtcSec \in Nat
      BY <2>4, Zenon DEF LocalClockObject
    <3>3a. bad \in 0..255
      BY <3>2, 1 \in Nat, BumpStreakOK, Zenon
    <3> HIDE DEF bad
    <3>3. one \in Nat /\ more \in Nat /\ bad \in 0..255
      BY <1>1, <3>2, <3>3a
    <3> HIDE DEF one, more
    <3>4. walked \in LocalClockObject
      BY <2>4, <3>3, ZenonT(60) DEF LocalClockObject
    <3>5. jumped \in LocalClockObject
      <4>1. p \in LocalClockObject
        BY <2>4
      <4> QED BY <4>1, <3>3, ZenonT(60) DEF LocalClockObject
    <3>6. /\ walked.state = p.state /\ walked.okStreak = p.okStreak
          /\ walked.haveAnchor <=> p.haveAnchor
      BY <2>4 DEF LocalClockObject
    <3>7. /\ jumped.state = p.state /\ jumped.okStreak = p.okStreak
          /\ jumped.haveAnchor <=> p.haveAnchor
      BY <2>4 DEF LocalClockObject
    <3> HIDE DEF walked, jumped, w
    <3>8. EnterUnsynced(p) \in LocalClockObject /\ EnterUnsynced(p).okStreak = 0
      BY <2>4, EnterUnsyncedOK, EnterUnsyncedStreak
    <3> QED BY <2>4, <2>5, <3>1, <3>4, <3>5, <3>6, <3>7, <3>8 DEF StreakKept, Serving
  <2> HIDE DEF w
  <2> QED BY <2>1, <2>6, EnterUnsyncedStreak DEF StreakKept
<1>4. OnPpsEdge(c, edgeUs, ppsCount) = IF IsOutlier(c, edgeUs, delta)
                                       THEN RejectEdge(c, ppsCount)
                                       ELSE AcceptEdge(c, edgeUs, ppsCount, delta)
  BY DEF OnPpsEdge, delta
<1> HIDE DEF Goal
<1>5. Goal(OnPpsEdge(c, edgeUs, ppsCount))
  BY <1>2, <1>3, <1>4
<1> QED BY <1>5 DEF Goal

\* A tick keeps the streak with its line, or ends it, and it locks no clock.
LEMMA TickStreak ==
    ASSUME NEW c \in LocalClockObject, NEW nmeaFresh, NEW ppsFresh, NEW policy,
           NEW holdoverSec, NEW t \in Nat
    PROVE  LET d == Tick(c, nmeaFresh, ppsFresh, policy, holdoverSec, t)
           IN  StreakKept(c, d) /\ (d.state = "Locked" => c.state = "Locked")
<1> DEFINE Kept(d) == /\ d \in LocalClockObject /\ StreakKept(c, d)
                      /\ d.state = "Locked" => c.state = "Locked"
<1>1. \A d : Kept(d) => Kept(EnterUnsynced(d))
  BY EnterUnsyncedStreak, EnterUnsyncedOK DEF StreakKept
<1>2. \A d : Kept(d) => Kept([d EXCEPT !.state = "Acquiring"])
  <2> SUFFICES ASSUME NEW d, Kept(d) PROVE Kept([d EXCEPT !.state = "Acquiring"])
    OBVIOUS
  <2>1. "Acquiring" \in ClockState
    BY DEF ClockState
  <2>2. [d EXCEPT !.state = "Acquiring"] \in LocalClockObject
    BY <2>1, Zenon DEF LocalClockObject
  <2> QED BY <2>2 DEF StreakKept, SameAnchor, LocalClockObject
<1>3. \A d : Kept(d) => Kept(EnterHoldover(d, t))
  <2> SUFFICES ASSUME NEW d, Kept(d) PROVE Kept(EnterHoldover(d, t))
    OBVIOUS
  <2>1. /\ "Holdover" \in ClockState /\ 0 \in 0..255
        /\ (IF d.state = "Holdover" THEN d.holdoverStartUs ELSE t) \in Nat
    BY DEF ClockState, LocalClockObject
  <2>2. EnterHoldover(d, t) \in LocalClockObject
    BY <2>1, ZenonT(40) DEF EnterHoldover, LocalClockObject
  <2> QED BY <2>2, EnterHoldoverStreak DEF StreakKept
<1>4. Kept(c)
  BY DEF StreakKept, SameAnchor
<1> HIDE DEF Kept
<1>5. \A mayHold : Kept(LeaveNormal(c, mayHold, t))
  BY <1>1, <1>3, <1>4 DEF LeaveNormal
<1>6. \A d : Kept(d) => Kept(ExpireHoldover(d, holdoverSec, t))
  BY <1>1 DEF ExpireHoldover
<1>7. \A d : Kept(d) => Kept(Reacquire(d, nmeaFresh))
  BY <1>2 DEF Reacquire
<1>8. Kept(Tick(c, nmeaFresh, ppsFresh, policy, holdoverSec, t))
  BY <1>1, <1>4, <1>5, <1>6, <1>7 DEF Tick
<1> QED BY <1>8 DEF Kept

\* A tick that leaves the clock serving has not moved its anchor.
LEMMA TickKeepsAnchor ==
    ASSUME NEW c \in LocalClockObject, NEW nmeaFresh, NEW ppsFresh, NEW policy,
           NEW holdoverSec, NEW t \in Nat
    PROVE  LET d == Tick(c, nmeaFresh, ppsFresh, policy, holdoverSec, t)
           IN  Serving(d) => SameAnchor(c, d)
<1> DEFINE Kept(d) == d \in LocalClockObject /\ (Serving(d) => SameAnchor(c, d))
<1>1. \A d : Kept(d) => Kept(EnterUnsynced(d))
  BY EnterUnsyncedOK DEF Serving
<1>2. \A d : Kept(d) => Kept([d EXCEPT !.state = "Acquiring"])
  <2> SUFFICES ASSUME NEW d, Kept(d) PROVE Kept([d EXCEPT !.state = "Acquiring"])
    OBVIOUS
  <2>1. "Acquiring" \in ClockState
    BY DEF ClockState
  <2>2. [d EXCEPT !.state = "Acquiring"] \in LocalClockObject
    BY <2>1, Zenon DEF LocalClockObject
  <2>3. ~Serving([d EXCEPT !.state = "Acquiring"])
    BY DEF Serving, LocalClockObject
  <2> QED BY <2>2, <2>3
<1>3. \A d : Kept(d) /\ d.state \in {"Locked", "Degraded"} => Kept(EnterHoldover(d, t))
  <2> SUFFICES ASSUME NEW d, Kept(d), d.state \in {"Locked", "Degraded"}
               PROVE  Kept(EnterHoldover(d, t))
    OBVIOUS
  <2>1. /\ "Holdover" \in ClockState /\ 0 \in 0..255
        /\ (IF d.state = "Holdover" THEN d.holdoverStartUs ELSE t) \in Nat
    BY DEF ClockState, LocalClockObject
  <2>2. EnterHoldover(d, t) \in LocalClockObject
    BY <2>1, ZenonT(40) DEF EnterHoldover, LocalClockObject
  <2>3. SameAnchor(d, EnterHoldover(d, t))
    BY DEF EnterHoldover, SameAnchor, LocalClockObject
  <2>4. Serving(d)
    BY DEF Serving
  <2> QED BY <2>2, <2>3, <2>4 DEF SameAnchor
<1>4. Kept(c)
  BY DEF SameAnchor
<1> HIDE DEF Kept
<1>5. \A mayHold : Kept(LeaveNormal(c, mayHold, t))
  BY <1>1, <1>3, <1>4 DEF LeaveNormal
<1>6. \A d : Kept(d) => Kept(ExpireHoldover(d, holdoverSec, t))
  BY <1>1 DEF ExpireHoldover
<1>7. \A d : Kept(d) => Kept(Reacquire(d, nmeaFresh))
  BY <1>2 DEF Reacquire
<1>8. Kept(Tick(c, nmeaFresh, ppsFresh, policy, holdoverSec, t))
  BY <1>1, <1>4, <1>5, <1>6, <1>7 DEF Tick
<1> QED BY <1>8 DEF Kept

\* A commit of label that went into the streak: the line goes through it, or
\* misses it by less than the slew threshold and has stayed as it was.
AgreedTo(c, d, label) ==
    LET r == label * Second - Extrapolate(c, c.lastEdgeUs)
    IN  /\ d.okStreak \in 1..(c.okStreak + 1)
        /\ d.haveAnchor /\ c.lastEdgeUs # 0
        /\ c.okStreak # 0 => Abs(r) <= CLK_RESIDUAL_RELOCK_MS
        /\ \/ d.anchorUtcSec = label /\ d.anchorEdgeUs = c.lastEdgeUs
           \/ SameAnchor(c, d) /\ Abs(r) < CLK_LOCKED_SLEW_MS

\* Only a full streak locks.
LocksEarned(c, d) ==
    d.state = "Locked" => c.state = "Locked" \/ d.okStreak >= CLK_RELOCK_COUNT

LEMMA BootstrapStreak ==
    ASSUME NEW c \in LocalClockObject, NEW label \in Nat,
           StreakAnchored(c), ~c.haveAnchor, c.lastEdgeUs # 0
    PROVE  LET d == Bootstrap(c, label)
           IN  (d.okStreak = 0 \/ AgreedTo(c, d, label)) /\ LocksEarned(c, d)
<1> DEFINE d == Bootstrap(c, label)
<1>1. c.okStreak = 0
  BY DEF StreakAnchored
<1>2. CASE d = c
  BY <1>1, <1>2 DEF LocksEarned
<1>3. CASE d = [SetAnchor(c, label, c.lastEdgeUs)
                  EXCEPT !.residualMs = 0, !.state = "Acquiring", !.okStreak = 1]
  <2>1. SetAnchor(c, label, c.lastEdgeUs) \in LocalClockObject
        /\ SetAnchor(c, label, c.lastEdgeUs).haveAnchor
        /\ SetAnchor(c, label, c.lastEdgeUs).anchorUtcSec = label
        /\ SetAnchor(c, label, c.lastEdgeUs).anchorEdgeUs = c.lastEdgeUs
    BY SetAnchorOK
  <2>2. /\ d.okStreak = 1 /\ d.state = "Acquiring" /\ d.haveAnchor
        /\ d.anchorUtcSec = label /\ d.anchorEdgeUs = c.lastEdgeUs
    BY <1>3, <2>1 DEF LocalClockObject
  <2> HIDE DEF d
  <2>3. AgreedTo(c, d, label) /\ LocksEarned(c, d)
    BY <1>1, <2>2 DEF AgreedTo, LocksEarned
  <2> QED BY <2>3 DEF d
<1> QED BY <1>2, <1>3 DEF Bootstrap

LEMMA AcceptCommitStreak ==
    ASSUME NEW c \in LocalClockObject, NEW label \in Nat,
           c.haveAnchor, c.lastEdgeUs # 0,
           NEW r \in Int, r = label * Second - Extrapolate(c, c.lastEdgeUs),
           AbsInt32(r) = Abs(r), Abs(r) <= CLK_RESIDUAL_RELOCK_MS
    PROVE  LET d == AcceptCommit(c, label, r)
           IN  AgreedTo(c, d, label) /\ LocksEarned(c, d)
<1> DEFINE d == AcceptCommit(c, label, r)
           streak == IF c.okStreak < 255 THEN c.okStreak + 1 ELSE c.okStreak
           slews == ~Serving(c) \/ AbsInt32(r) >= CLK_LOCKED_SLEW_MS
           phased == IF slews THEN SetAnchor(c, label, c.lastEdgeUs) ELSE c
           counted == [phased EXCEPT !.okStreak = streak]
           locks == streak >= CLK_RELOCK_COUNT /\ c.ppsStable
           locked == [counted EXCEPT !.state = "Locked", !.holdoverStartUs = 0]
           acquiring == [counted EXCEPT !.state = "Acquiring"]
<1>1. d = IF locks THEN locked ELSE IF ~Serving(c) THEN acquiring ELSE counted
  BY DEF AcceptCommit
<1>2. streak \in 1..(c.okStreak + 1) /\ streak \in 0..255
  BY DEF LocalClockObject
<1>3. /\ phased \in LocalClockObject /\ phased.haveAnchor /\ phased.state = c.state
      /\ \/ phased.anchorUtcSec = label /\ phased.anchorEdgeUs = c.lastEdgeUs
         \/ SameAnchor(c, phased) /\ Abs(r) < CLK_LOCKED_SLEW_MS
  <2>1. CASE slews
    BY <2>1, SetAnchorOK
  <2>2. CASE ~slews
    BY <2>2, ThresholdsAssumption DEF SameAnchor, Abs
  <2> QED BY <2>1, <2>2
<1> HIDE DEF phased, streak, slews
<1>4. counted \in LocalClockObject
  <2>1. phased \in LocalClockObject
    BY <1>3
  <2> QED BY <2>1, <1>2, Zenon DEF LocalClockObject
<1>5. /\ counted.okStreak = streak /\ counted.haveAnchor /\ counted.state = c.state
      /\ counted.anchorUtcSec = phased.anchorUtcSec
      /\ counted.anchorEdgeUs = phased.anchorEdgeUs
  BY <1>2, <1>3 DEF LocalClockObject
<1> HIDE DEF counted
<1>6. /\ d.okStreak = streak /\ d.haveAnchor
      /\ d.anchorUtcSec = phased.anchorUtcSec
      /\ d.anchorEdgeUs = phased.anchorEdgeUs
      /\ d.state = "Locked" => locks \/ c.state = "Locked"
  <2> DEFINE Same(x) == /\ x.okStreak = streak /\ x.haveAnchor
                        /\ x.anchorUtcSec = phased.anchorUtcSec
                        /\ x.anchorEdgeUs = phased.anchorEdgeUs
  <2>1. Same(locked)
    BY <1>4, <1>5 DEF LocalClockObject
  <2>2. Same(acquiring) /\ acquiring.state = "Acquiring"
    BY <1>4, <1>5 DEF LocalClockObject
  <2>3. Same(counted)
    BY <1>5
  <2> HIDE DEF Same, locked, acquiring, locks, d
  <2>4. Same(d) /\ (d.state = "Locked" => locks \/ c.state = "Locked")
    BY <1>1, <1>5, <2>1, <2>2, <2>3
  <2> QED BY <2>4 DEF Same
<1> HIDE DEF d
<1>7. AgreedTo(c, d, label)
  <2> DEFINE res == label * Second - Extrapolate(c, c.lastEdgeUs)
  <2>1. res = r
    OBVIOUS
  <2> HIDE DEF res
  <2>2. /\ Abs(res) <= CLK_RESIDUAL_RELOCK_MS
        /\ \/ d.anchorUtcSec = label /\ d.anchorEdgeUs = c.lastEdgeUs
           \/ SameAnchor(c, d) /\ Abs(res) < CLK_LOCKED_SLEW_MS
    BY <1>3, <1>6, <2>1 DEF SameAnchor
  <2> QED BY <1>2, <1>6, <2>2 DEF AgreedTo, res
<1>8. LocksEarned(c, d)
  BY <1>6 DEF LocksEarned
<1> QED BY <1>7, <1>8 DEF d

\* onNmeaCommit: the streak grows by a commit that lies on the line, or is over.
LEMMA OnNmeaCommitStreak ==
    ASSUME NEW c \in LocalClockObject, NEW label \in Nat, NEW old \in Nat,
           PhaseOK(c, old), StreakAnchored(c),
           (c.haveAnchor /\ CanExtrapolate(c, c.lastEdgeUs)) =>
              Abs(label * Second - Extrapolate(c, c.lastEdgeUs)) <= RESIDUAL_MAX,
           NEW policy, NEW holdoverSec, NEW t \in Nat
    PROVE  LET d == OnNmeaCommit(c, label, c.lastPpsCount, policy, holdoverSec, t)
           IN  (d.okStreak = 0 \/ AgreedTo(c, d, label)) /\ LocksEarned(c, d)
<1> DEFINE Goal(d) == (d.okStreak = 0 \/ AgreedTo(c, d, label)) /\ LocksEarned(c, d)
           d == OnNmeaCommit(c, label, c.lastPpsCount, policy, holdoverSec, t)
<1>1. UtcAtLastEdge(c, label, c.lastPpsCount) = label
  BY DEF UtcAtLastEdge, LocalClockObject
<1>2. CASE c.lastEdgeUs = 0
  <2>1. d = [c EXCEPT !.state = "Acquiring"] /\ c.okStreak = 0
    BY <1>2 DEF OnNmeaCommit, StreakAnchored
  <2>2. d.okStreak = 0 /\ d.state = "Acquiring"
    BY <2>1 DEF LocalClockObject
  <2> QED BY <2>2 DEF LocksEarned
<1>3. CASE c.lastEdgeUs # 0 /\ ~c.haveAnchor
  <2>1. d = Bootstrap(c, label)
    BY <1>1, <1>3 DEF OnNmeaCommit
  <2> QED BY <1>3, <2>1, BootstrapStreak
<1>4. CASE c.lastEdgeUs # 0 /\ c.haveAnchor
  <2> DEFINE r == Residual(c, label)
             checked == [c EXCEPT !.residualMs = r]
             failed == [checked EXCEPT !.okStreak = 0]
             degraded == [failed EXCEPT !.state = "Degraded"]
  <2>1. CanExtrapolate(c, c.lastEdgeUs)
    BY <1>4 DEF CanExtrapolate, PhaseOK
  <2>2. d = CrossCheck(c, label, policy, holdoverSec, t)
    BY <1>1, <1>4, <2>1 DEF OnNmeaCommit
  <2>3. /\ r = label * Second - Extrapolate(c, c.lastEdgeUs)
        /\ r \in Int /\ r \in (-RESIDUAL_MAX - 1)..RESIDUAL_MAX
        /\ AbsInt32(r) = Abs(r)
    <3> DEFINE x == label * Second - Extrapolate(c, c.lastEdgeUs)
    <3>1. x \in Int /\ Abs(x) <= RESIDUAL_MAX
      BY <1>4, <2>1 DEF Extrapolate, LocalClockObject, Second
    <3>2. r = ToInt32(x)
      BY DEF Residual
    <3> HIDE DEF x, r
    <3>3. r = x /\ AbsInt32(x) = Abs(x) /\ x \in (-RESIDUAL_MAX - 1)..RESIDUAL_MAX
      BY <3>1, <3>2, ResidualExact
    <3> QED BY <3>1, <3>3 DEF x
  <2>4. d = IF Agrees(r) THEN AcceptCommit(checked, label, r)
            ELSE IF ~Warns(r) THEN ApplyFail(failed, policy, holdoverSec, t)
            ELSE IF c.ppsStable /\ c.haveAnchor THEN degraded
            ELSE EnterUnsynced(failed)
    BY <2>2 DEF CrossCheck
  <2> HIDE DEF r, d
  <2>5. checked \in LocalClockObject
    BY <2>3, ZenonT(40) DEF LocalClockObject
  <2>6. /\ checked.haveAnchor /\ checked.state = c.state
        /\ checked.lastEdgeUs = c.lastEdgeUs /\ checked.okStreak = c.okStreak
        /\ SameAnchor(c, checked)
    BY <1>4 DEF LocalClockObject, SameAnchor
  <2> HIDE DEF checked
  <2>7. failed \in LocalClockObject
    <3>1. 0 \in 0..255
      OBVIOUS
    <3> QED BY <2>5, <3>1, Zenon DEF LocalClockObject
  <2>8. CASE Agrees(r)
    <3> DEFINE a == AcceptCommit(checked, label, r)
    <3>1. Extrapolate(checked, checked.lastEdgeUs) = Extrapolate(c, c.lastEdgeUs)
      BY <2>6 DEF Extrapolate, SameAnchor
    <3>2. Abs(r) <= CLK_RESIDUAL_RELOCK_MS
      BY <2>3, <2>8 DEF Agrees
    <3>3. AgreedTo(checked, a, label) /\ LocksEarned(checked, a)
      BY <1>4, <2>3, <2>5, <2>6, <3>1, <3>2, AcceptCommitStreak
    <3> HIDE DEF a
    <3>4. AgreedTo(c, a, label) /\ LocksEarned(c, a)
      BY <2>6, <3>1, <3>3 DEF AgreedTo, LocksEarned, SameAnchor
    <3> QED BY <2>4, <2>8, <3>4 DEF a, d
  <2>9. CASE ~Agrees(r)
    <3>1. failed.okStreak = 0
      BY <2>5 DEF LocalClockObject
    <3>2. degraded.okStreak = 0 /\ degraded.state = "Degraded"
      BY <2>5, <3>1 DEF LocalClockObject
    <3> HIDE DEF failed, degraded
    <3>3. d \in {EnterHoldover(failed, t), EnterUnsynced(failed), degraded}
      BY <2>4, <2>9 DEF ApplyFail
    <3>4. d.okStreak = 0 /\ d.state # "Locked"
      BY <2>7, <3>2, <3>3, EnterHoldoverStreak, EnterUnsyncedStreak
    <3> QED BY <3>4 DEF LocksEarned, d
  <2> QED BY <2>8, <2>9
<1> QED BY <1>2, <1>3, <1>4
=============================================================================
