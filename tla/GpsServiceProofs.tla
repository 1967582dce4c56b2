-------------------------- MODULE GpsServiceProofs --------------------------
(***************************************************************************)
(* Machine-checked facts about GpsService, for every choice of thresholds,  *)
(* ring and faults: its types, that interrupt, ring, loop and clock agree   *)
(* about the pulses, and that whatever the receiver, the interrupt and the  *)
(* scheduler do, the clock sees nothing but what LocalClock allows its      *)
(* caller, so that what LocalClockProofs shows of the clock is true in the  *)
(* program.                                                                 *)
(***************************************************************************)
EXTENDS GpsService, LocalClockOpsProofs

\* An instant at which a step of the time may end.
OnGrid(t) == t % Step = 0

\* True time, the interrupt and what the receiver is about to send.  Pulses are
\* at least a step apart, so that time bounds their count.
PulsesCounted ==
    /\ now >= Second /\ now <= MaxNow /\ OnGrid(now)
    /\ isr.lastEdgeUs <= now /\ OnGrid(isr.lastEdgeUs)
    /\ isr.count * Step <= isr.lastEdgeUs
    /\ due = "pulse" => now % Second = 0 /\ isr.lastEdgeUs < now
    /\ due = "sentences" => now > Second

\* The edges of q are in order, the newest is the pulse of number count at last,
\* and all are later than after.
InOrder(q, count, last, after) ==
    LET n == Len(q)
    IN /\ \A i \in 1..n :
            /\ q[i].count = count - (n - i)
            /\ OnGrid(q[i].edgeUs)
            /\ after < q[i].edgeUs /\ q[i].edgeUs <= last
       /\ \A i, j \in 1..n : i < j => q[i].edgeUs < q[j].edgeUs
       /\ n > 0 => q[n].edgeUs = last

\* The ring holds the newest edges, all of them later than what was drained.
RingInOrder ==
    /\ InOrder(isr.queue, isr.count, isr.lastEdgeUs, pulseAt)
    /\ commit.drained + Len(isr.queue) <= isr.count

\* The clock has consumed what was drained, and its anchor is a label or at most
\* as many seconds later as pulses were drained.
ClockFollows ==
    /\ clk.lastPpsCount = commit.drained
    /\ commit.drained = 0 => clk.lastEdgeUs = 0
    /\ clk.lastEdgeUs <= pulseAt /\ pulseAt <= isr.lastEdgeUs
    /\ clk.anchorUtcSec <= MaxNow \div Second + 2 + commit.drained
    /\ PhaseOK(clk, commit.second) /\ AgeOK(clk, now)

ServiceInductive == TypeOK /\ PulsesCounted /\ RingInOrder /\ ClockFollows

-----------------------------------------------------------------------------
(* The methods of the clock are the same in the instance of LocalClock.      *)

LEMMA SamePulse ==
    \A c, edgeUs, n : LC!OnPpsEdge(c, edgeUs, n) = OnPpsEdge(c, edgeUs, n)
<1>1. \A x : LC!Abs(x) = Abs(x)
  BY DEF LC!Abs, Abs
<1>2. \A c, e : /\ LC!HasPrev(c, e) = HasPrev(c, e)
                /\ LC!IsResume(c, e) = IsResume(c, e)
  BY DEF LC!IsResume, IsResume, LC!HasPrev, HasPrev
<1>3. \A c, e, d : LC!IsOutlier(c, e, d) = IsOutlier(c, e, d)
  BY <1>1, <1>2 DEF LC!IsOutlier, IsOutlier, LC!Second, Second
<1>4. \A c, lost : LC!LoseSyncIf(c, lost) = LoseSyncIf(c, lost)
  BY DEF LC!LoseSyncIf, LoseSyncIf, LC!EnterUnsynced, EnterUnsynced, LC!Serving, Serving
<1>5. \A c, n : LC!RejectEdge(c, n) = RejectEdge(c, n)
  BY <1>4, Zenon DEF LC!RejectEdge, RejectEdge, LC!PpsHealthy, PpsHealthy
<1>6. \A b, d : LC!BumpStreak(b, d) = BumpStreak(b, d)
  BY DEF LC!BumpStreak, BumpStreak
<1>7. \A c, e, d : LC!CountMisses(c, e, d) = CountMisses(c, e, d)
  BY <1>2, <1>6, Zenon DEF LC!CountMisses, CountMisses
<1>8. \A c : LC!RestartStream(c) = RestartStream(c)
  BY <1>4, Zenon DEF LC!RestartStream, RestartStream
<1>9. \A c, e, n : LC!PushEdge(c, e, n) = PushEdge(c, e, n)
  BY Zenon DEF LC!PushEdge, PushEdge, LC!PpsHealthy, PpsHealthy
<1>10. \A c, e, d : LC!WalkUtc(c, e, d) = WalkUtc(c, e, d)
  BY <1>6, ZenonT(40) DEF LC!WalkUtc, WalkUtc, LC!Serving, Serving, LC!EnterUnsynced, EnterUnsynced
<1>11. \A c, e, n, d : LC!AcceptEdge(c, e, n, d) = AcceptEdge(c, e, n, d)
  <2> TAKE c, e, n, d
  <2> DEFINE counted == IF IsResume(c, e) THEN RestartStream(c) ELSE CountMisses(c, e, d)
             counted2 == IF LC!IsResume(c, e) THEN LC!RestartStream(c)
                         ELSE LC!CountMisses(c, e, d)
             walked == WalkUtc(PushEdge(counted, e, n), e, d)
             walked2 == LC!WalkUtc(LC!PushEdge(counted2, e, n), e, d)
  <2>1. counted2 = counted
    BY <1>2, <1>7, <1>8, Zenon
  <2>2. /\ AcceptEdge(c, e, n, d) = LoseSyncIf(walked, ~walked.ppsStable)
        /\ LC!AcceptEdge(c, e, n, d) = LC!LoseSyncIf(walked2, ~walked2.ppsStable)
    BY DEF LC!AcceptEdge, AcceptEdge
  <2> HIDE DEF counted, counted2
  <2>3. walked2 = walked
    BY <2>1, <1>9, <1>10, Zenon
  <2> HIDE DEF walked, walked2
  <2> QED BY <2>2, <2>3, <1>4, Zenon
<1> QED
  BY <1>3, <1>5, <1>11, Zenon DEF LC!OnPpsEdge, OnPpsEdge, LC!PpsDelta, PpsDelta

LEMMA SameCommit ==
    \A c, label, n, policy, holdoverSec, t :
        LC!OnNmeaCommit(c, label, n, policy, holdoverSec, t)
            = OnNmeaCommit(c, label, n, policy, holdoverSec, t)
<1>1. \A c, t : LC!EnterUnsynced(c) = EnterUnsynced(c)
  BY DEF LC!EnterUnsynced, EnterUnsynced
<1>2. \A c, policy, holdoverSec, t :
         LC!ApplyFail(c, policy, holdoverSec, t) = ApplyFail(c, policy, holdoverSec, t)
  BY <1>1, Zenon DEF LC!ApplyFail, ApplyFail, LC!EnterHoldover, EnterHoldover
<1>3. \A c, utc, e : LC!SetAnchor(c, utc, e) = SetAnchor(c, utc, e)
  BY DEF LC!SetAnchor, SetAnchor
<1>4. \A c, utc : LC!Bootstrap(c, utc) = Bootstrap(c, utc)
  BY <1>3, Zenon DEF LC!Bootstrap, Bootstrap
<1>5. \A r : LC!AbsInt32(r) = AbsInt32(r)
  BY DEF LC!AbsInt32, AbsInt32, LC!Abs, Abs
<1>6. \A r : LC!Agrees(r) = Agrees(r) /\ LC!Warns(r) = Warns(r)
  BY <1>5, Zenon DEF LC!Agrees, Agrees, LC!Warns, Warns
<1>7. \A c, utc : LC!Residual(c, utc) = Residual(c, utc)
  BY Zenon DEF LC!Residual, Residual, LC!Extrapolate, Extrapolate, LC!ToInt32, ToInt32,
            LC!Second, Second
<1>8. \A c, utc, r : LC!AcceptCommit(c, utc, r) = AcceptCommit(c, utc, r)
  <2> TAKE c, utc, r
  <2> DEFINE slews == ~Serving(c) \/ AbsInt32(r) >= CLK_LOCKED_SLEW_MS
             phased == IF slews THEN SetAnchor(c, utc, c.lastEdgeUs) ELSE c
             streak == IF c.okStreak < 255 THEN c.okStreak + 1 ELSE c.okStreak
             counted == [phased EXCEPT !.okStreak = streak]
             slews2 == ~LC!Serving(c) \/ LC!AbsInt32(r) >= CLK_LOCKED_SLEW_MS
             phased2 == IF slews2 THEN LC!SetAnchor(c, utc, c.lastEdgeUs) ELSE c
             counted2 == [phased2 EXCEPT !.okStreak = streak]
             ends(k) == IF streak >= CLK_RELOCK_COUNT /\ c.ppsStable
                          THEN [k EXCEPT !.state = "Locked", !.holdoverStartUs = 0]
                        ELSE IF ~Serving(c) THEN [k EXCEPT !.state = "Acquiring"]
                        ELSE k
  <2>1. LC!Serving(c) = Serving(c)
    BY DEF LC!Serving, Serving
  <2>2. phased2 = phased
    BY <1>3, <1>5, <2>1, Zenon
  <2>3. AcceptCommit(c, utc, r) = ends(counted)
    BY Zenon DEF AcceptCommit
  <2> HIDE DEF phased, phased2, streak
  <2>4. counted2 = counted
    BY <2>2, Zenon
  <2>5. LC!AcceptCommit(c, utc, r) = ends(counted2)
    BY <2>1, Zenon DEF LC!AcceptCommit, streak, phased2
  <2> HIDE DEF ends, counted, counted2
  <2> QED BY <2>3, <2>4, <2>5, Zenon
<1>9. \A c, utc, policy, holdoverSec, t :
         LC!CrossCheck(c, utc, policy, holdoverSec, t)
            = CrossCheck(c, utc, policy, holdoverSec, t)
  <2> TAKE c, utc, policy, holdoverSec, t
  <2> DEFINE r == Residual(c, utc)
             r2 == LC!Residual(c, utc)
             checked(x) == [c EXCEPT !.residualMs = x]
             failed(x) == [checked(x) EXCEPT !.okStreak = 0]
  <2>1. r2 = r
    BY <1>7
  <2>2. CrossCheck(c, utc, policy, holdoverSec, t)
          = IF Agrees(r) THEN AcceptCommit(checked(r), utc, r)
            ELSE IF ~Warns(r) THEN ApplyFail(failed(r), policy, holdoverSec, t)
            ELSE IF c.ppsStable /\ c.haveAnchor
              THEN [failed(r) EXCEPT !.state = "Degraded"]
            ELSE EnterUnsynced(failed(r))
    BY DEF CrossCheck
  <2>3. LC!CrossCheck(c, utc, policy, holdoverSec, t)
          = IF LC!Agrees(r2) THEN LC!AcceptCommit(checked(r2), utc, r2)
            ELSE IF ~LC!Warns(r2) THEN LC!ApplyFail(failed(r2), policy, holdoverSec, t)
            ELSE IF c.ppsStable /\ c.haveAnchor
              THEN [failed(r2) EXCEPT !.state = "Degraded"]
            ELSE LC!EnterUnsynced(failed(r2))
    BY DEF LC!CrossCheck
  <2> HIDE DEF r, r2, checked, failed
  <2> QED BY <1>1, <1>2, <1>6, <1>8, <2>1, <2>2, <2>3
<1> QED
  <2> TAKE c, label, n, policy, holdoverSec, t
  <2>1. LC!UtcAtLastEdge(c, label, n) = UtcAtLastEdge(c, label, n)
    BY DEF LC!UtcAtLastEdge, UtcAtLastEdge
  <2>2. LC!CanExtrapolate(c, c.lastEdgeUs) = CanExtrapolate(c, c.lastEdgeUs)
    BY DEF LC!CanExtrapolate, CanExtrapolate
  <2> QED BY <1>4, <1>9, <2>1, <2>2, Zenon DEF LC!OnNmeaCommit, OnNmeaCommit

LEMMA SameTick ==
    \A c, nmeaFresh, ppsFresh, policy, holdoverSec, t :
        LC!Tick(c, nmeaFresh, ppsFresh, policy, holdoverSec, t)
            = Tick(c, nmeaFresh, ppsFresh, policy, holdoverSec, t)
<1>1. \A c : LC!EnterUnsynced(c) = EnterUnsynced(c)
  BY DEF LC!EnterUnsynced, EnterUnsynced
<1>2. \A c, mayHold, t : LC!LeaveNormal(c, mayHold, t) = LeaveNormal(c, mayHold, t)
  BY <1>1, Zenon DEF LC!LeaveNormal, LeaveNormal, LC!EnterHoldover, EnterHoldover, LC!Serving, Serving
<1>3. \A c, t : LC!QualityMs(c, t) = QualityMs(c, t)
  <2> TAKE c, t
  <2> DEFINE aged(x) == CLK_HOLDOVER_ENTRY_MS + (CLK_HOLDOVER_PPM * x) \div 1000000
             larger(a, b) == IF a >= b THEN a ELSE b
  <2>1. LC!Abs(c.residualMs) = Abs(c.residualMs)
    BY DEF LC!Abs, Abs
  <2>2. LC!HoldoverElapsedMs(c, t) = HoldoverElapsedMs(c, t)
    BY DEF LC!HoldoverElapsedMs, HoldoverElapsedMs
  <2>3. LC!Serving(c) = Serving(c) /\ LC!NoQuality = NoQuality
    BY DEF LC!Serving, Serving, LC!NoQuality, NoQuality
  <2>4. QualityMs(c, t)
          = IF ~Serving(c) \/ ~c.haveAnchor THEN NoQuality
            ELSE IF c.state = "Degraded"
              THEN larger(larger(5, Abs(c.residualMs)), CLK_RESIDUAL_WARN_MS)
            ELSE IF c.state = "Holdover"
              THEN larger(5, Abs(c.residualMs)) + aged(HoldoverElapsedMs(c, t))
            ELSE larger(5, Abs(c.residualMs))
    BY DEF QualityMs
  <2>5. LC!QualityMs(c, t)
          = IF ~LC!Serving(c) \/ ~c.haveAnchor THEN LC!NoQuality
            ELSE IF c.state = "Degraded"
              THEN larger(larger(5, LC!Abs(c.residualMs)), CLK_RESIDUAL_WARN_MS)
            ELSE IF c.state = "Holdover"
              THEN larger(5, LC!Abs(c.residualMs)) + aged(LC!HoldoverElapsedMs(c, t))
            ELSE larger(5, LC!Abs(c.residualMs))
    BY DEF LC!QualityMs
  <2> HIDE DEF aged, larger
  <2> QED BY <2>1, <2>2, <2>3, <2>4, <2>5
<1>4. \A c, holdoverSec, t : LC!HoldoverOver(c, holdoverSec, t) = HoldoverOver(c, holdoverSec, t)
  BY <1>3 DEF LC!HoldoverOver, HoldoverOver, LC!HoldoverElapsedMs, HoldoverElapsedMs, LC!Second, Second
<1>5. \A c, holdoverSec, t :
         LC!ExpireHoldover(c, holdoverSec, t) = ExpireHoldover(c, holdoverSec, t)
  BY <1>1, <1>4, Zenon DEF LC!ExpireHoldover, ExpireHoldover
<1>6. \A c, nmeaFresh : LC!Reacquire(c, nmeaFresh) = Reacquire(c, nmeaFresh)
  BY DEF LC!Reacquire, Reacquire
<1> QED
  <2> TAKE c, nmeaFresh, ppsFresh, policy, holdoverSec, t
  <2> DEFINE mayHold == MayHoldOver(c, policy, holdoverSec)
             mayHold2 == LC!MayHoldOver(c, policy, holdoverSec)
  <2>1. mayHold2 = mayHold
    BY DEF LC!MayHoldOver, MayHoldOver
  <2>2. Tick(c, nmeaFresh, ppsFresh, policy, holdoverSec, t)
          = IF policy = "Refuse" /\ c.state = "Holdover" THEN EnterUnsynced(c)
            ELSE IF ~ppsFresh THEN ExpireHoldover(LeaveNormal(c, mayHold, t), holdoverSec, t)
            ELSE Reacquire(ExpireHoldover(IF nmeaFresh THEN c
                   ELSE LeaveNormal(c, mayHold /\ c.ppsStable, t), holdoverSec, t), nmeaFresh)
    BY DEF Tick
  <2>3. LC!Tick(c, nmeaFresh, ppsFresh, policy, holdoverSec, t)
          = IF policy = "Refuse" /\ c.state = "Holdover" THEN LC!EnterUnsynced(c)
            ELSE IF ~ppsFresh
              THEN LC!ExpireHoldover(LC!LeaveNormal(c, mayHold2, t), holdoverSec, t)
            ELSE LC!Reacquire(LC!ExpireHoldover(IF nmeaFresh THEN c
                   ELSE LC!LeaveNormal(c, mayHold2 /\ c.ppsStable, t), holdoverSec, t),
                   nmeaFresh)
    BY DEF LC!Tick
  <2> HIDE DEF mayHold, mayHold2
  <2>4. LC!LeaveNormal(c, mayHold2, t) = LeaveNormal(c, mayHold, t)
    BY <1>2, <2>1, Zenon
  <2>5. (IF nmeaFresh THEN c ELSE LC!LeaveNormal(c, mayHold2 /\ c.ppsStable, t))
          = (IF nmeaFresh THEN c ELSE LeaveNormal(c, mayHold /\ c.ppsStable, t))
    BY <1>2, <2>1, Zenon
  <2> QED BY <1>1, <1>5, <1>6, <2>2, <2>3, <2>4, <2>5

-----------------------------------------------------------------------------
(* The grid of time.                                                        *)

LEMMA StepLength == Step = 500 /\ Second = 1000
BY DEF Step, Second

LEMMA GridStep ==
    ASSUME NEW a \in Nat, NEW b \in Nat, OnGrid(a), OnGrid(b), a < b
    PROVE  a + Step <= b
BY StepLength DEF OnGrid

LEMMA GridAdvances ==
    ASSUME NEW a \in Nat, OnGrid(a)
    PROVE  OnGrid(a + Step)
BY StepLength DEF OnGrid

LEMMA GridLag ==
    ASSUME NEW a \in Nat, NEW b \in Nat, OnGrid(a), OnGrid(b), a <= b, b <= MaxNow
    PROVE  b - a \in { k * Step : k \in 0..(MaxNow \div Step) }
<1> DEFINE k == (b - a) \div Step
<1>1. MaxNow \in Nat
  BY ServiceAssumption
<1>2. k \in 0..(MaxNow \div Step) /\ b - a = k * Step
  BY <1>1, StepLength DEF OnGrid
<1> QED BY <1>2

LEMMA GridCount ==
    ASSUME NEW n \in Nat, NEW t \in Nat, n * Step <= t, t <= MaxNow
    PROVE  n <= MaxNow \div Step
<1>1. MaxNow \in Nat
  BY ServiceAssumption
<1> QED BY <1>1, StepLength

-----------------------------------------------------------------------------
(* The ring.                                                                *)

LEMMA EdgeNumbers ==
    ASSUME NEW q \in Seq(Edge)
    PROVE  \A i \in 1..Len(q) : q[i].edgeUs \in Nat /\ q[i].count \in Nat
<1>1. \A i \in 1..Len(q) : q[i] \in Edge
  OBVIOUS
<1> QED BY <1>1 DEF Edge

LEMMA TailInOrder ==
    ASSUME NEW q \in Seq(Edge), q # <<>>, NEW count \in Nat, NEW last \in Nat, NEW after \in Nat,
           InOrder(q, count, last, after)
    PROVE  /\ InOrder(Tail(q), count, last, after)
           /\ InOrder(Tail(q), count, last, Head(q).edgeUs)
           /\ Tail(q) \in Seq(Edge) /\ Len(Tail(q)) = Len(q) - 1 /\ Len(q) \in Nat \ {0}
           /\ Head(q) \in Edge /\ Head(q).count = count - (Len(q) - 1)
           /\ OnGrid(Head(q).edgeUs) /\ after < Head(q).edgeUs /\ Head(q).edgeUs <= last
<1> DEFINE r == Tail(q)
<1>1. /\ r \in Seq(Edge) /\ Len(r) = Len(q) - 1 /\ Len(q) \in Nat \ {0}
      /\ \A i \in 1..Len(r) : r[i] = q[i + 1] /\ i + 1 \in 1..Len(q)
      /\ Head(q) = q[1] /\ 1 \in 1..Len(q) /\ Head(q) \in Edge
  OBVIOUS
<1> HIDE DEF r
<1>2. \A i \in 1..Len(q) : q[i].edgeUs \in Nat /\ q[i].count \in Nat
  BY EdgeNumbers
<1>3. /\ \A i \in 1..Len(q) :
            /\ q[i].count = count - (Len(q) - i)
            /\ OnGrid(q[i].edgeUs) /\ after < q[i].edgeUs /\ q[i].edgeUs <= last
      /\ \A i, j \in 1..Len(q) : i < j => q[i].edgeUs < q[j].edgeUs
      /\ q[Len(q)].edgeUs = last
  BY <1>1 DEF InOrder
<1>4. \A i \in 1..Len(r) :
            /\ r[i].count = count - (Len(r) - i)
            /\ OnGrid(r[i].edgeUs) /\ after < r[i].edgeUs /\ r[i].edgeUs <= last
            /\ q[1].edgeUs < r[i].edgeUs
  <2> SUFFICES ASSUME NEW i \in 1..Len(r)
               PROVE  /\ r[i].count = count - (Len(r) - i)
                      /\ OnGrid(r[i].edgeUs) /\ after < r[i].edgeUs /\ r[i].edgeUs <= last
                      /\ q[1].edgeUs < r[i].edgeUs
    OBVIOUS
  <2>1. r[i] = q[i + 1] /\ i + 1 \in 1..Len(q) /\ 1 < i + 1
    BY <1>1
  <2>2. count - (Len(q) - (i + 1)) = count - (Len(r) - i)
    BY <1>1
  <2>3. q[i + 1].count = count - (Len(q) - (i + 1))
    BY <1>3, <2>1
  <2> QED BY <1>1, <1>3, <2>1, <2>2, <2>3
<1>5. \A i, j \in 1..Len(r) : i < j => r[i].edgeUs < r[j].edgeUs
  <2> SUFFICES ASSUME NEW i \in 1..Len(r), NEW j \in 1..Len(r), i < j
               PROVE  r[i].edgeUs < r[j].edgeUs
    OBVIOUS
  <2>1. /\ i + 1 \in 1..Len(q) /\ j + 1 \in 1..Len(q) /\ i + 1 < j + 1
        /\ r[i] = q[i + 1] /\ r[j] = q[j + 1]
    BY <1>1
  <2> QED BY <1>3, <2>1
<1>6. Len(r) > 0 => r[Len(r)].edgeUs = last
  BY <1>1, <1>3
<1>7. InOrder(r, count, last, after) /\ InOrder(r, count, last, q[1].edgeUs)
  BY <1>4, <1>5, <1>6 DEF InOrder
<1>8. q[1].count = count - (Len(q) - 1)
  BY <1>1, <1>3
<1> QED BY <1>1, <1>3, <1>7, <1>8 DEF r

LEMMA AppendInOrder ==
    ASSUME NEW q \in Seq(Edge), NEW count \in Nat, NEW last \in Nat, NEW after \in Nat,
           InOrder(q, count, last, after), after <= last,
           NEW t \in Nat, last < t, OnGrid(t)
    PROVE  LET r == Append(q, [ edgeUs |-> t, count |-> count + 1 ])
           IN  r \in Seq(Edge) /\ Len(r) = Len(q) + 1 /\ InOrder(r, count + 1, t, after)
<1> DEFINE edge == [ edgeUs |-> t, count |-> count + 1 ]
           r == Append(q, edge)
<1>1. edge \in Edge /\ edge.edgeUs = t /\ edge.count = count + 1
  BY DEF Edge
<1> HIDE DEF edge
<1>2. /\ r \in Seq(Edge) /\ Len(r) = Len(q) + 1 /\ Len(q) \in Nat
      /\ \A i \in 1..Len(q) : r[i] = q[i]
      /\ r[Len(q) + 1] = edge
  BY <1>1
<1> HIDE DEF r
<1>3. \A i \in 1..Len(q) : q[i].edgeUs \in Nat /\ q[i].count \in Nat
  BY EdgeNumbers
<1>4. /\ \A i \in 1..Len(q) :
            /\ q[i].count = count - (Len(q) - i)
            /\ OnGrid(q[i].edgeUs) /\ after < q[i].edgeUs /\ q[i].edgeUs <= last
      /\ \A i, j \in 1..Len(q) : i < j => q[i].edgeUs < q[j].edgeUs
  BY <1>2 DEF InOrder
<1>5. \A i \in 1..Len(r) :
            /\ r[i].count = (count + 1) - (Len(r) - i)
            /\ OnGrid(r[i].edgeUs) /\ after < r[i].edgeUs /\ r[i].edgeUs <= t
  <2> SUFFICES ASSUME NEW i \in 1..Len(r)
               PROVE  /\ r[i].count = (count + 1) - (Len(r) - i)
                      /\ OnGrid(r[i].edgeUs) /\ after < r[i].edgeUs /\ r[i].edgeUs <= t
    OBVIOUS
  <2>1. CASE i = Len(q) + 1
    BY <1>1, <1>2, <2>1
  <2>2. CASE i # Len(q) + 1
    <3>1. i \in 1..Len(q) /\ r[i] = q[i]
      BY <1>2, <2>2
    <3> QED BY <1>2, <1>3, <1>4, <3>1
  <2> QED BY <2>1, <2>2
<1>6. \A i, j \in 1..Len(r) : i < j => r[i].edgeUs < r[j].edgeUs
  <2> SUFFICES ASSUME NEW i \in 1..Len(r), NEW j \in 1..Len(r), i < j
               PROVE  r[i].edgeUs < r[j].edgeUs
    OBVIOUS
  <2>1. i \in 1..Len(q) /\ r[i] = q[i]
    BY <1>2
  <2>2. CASE j = Len(q) + 1
    BY <1>1, <1>2, <1>3, <1>4, <2>1, <2>2
  <2>3. CASE j # Len(q) + 1
    <3>1. j \in 1..Len(q) /\ r[j] = q[j]
      BY <1>2, <2>3
    <3> QED BY <1>4, <2>1, <3>1
  <2> QED BY <2>2, <2>3
<1>7. InOrder(r, count + 1, t, after)
  BY <1>1, <1>2, <1>5, <1>6 DEF InOrder
<1> QED BY <1>2, <1>7 DEF r, edge

\* The interrupt keeps the order, in a ring that is full too.
LEMMA IsrOK ==
    ASSUME ServiceInductive, isr.lastEdgeUs < now, isr' = OnPpsIsr(isr, now),
           UNCHANGED <<now, pulseAt, commit>>
    PROVE  /\ isr' \in [ count : Nat, lastEdgeUs : Nat, queue : Seq(Edge) ]
           /\ Len(isr'.queue) < GPS_PPS_ISR_QUEUE
           /\ isr'.lastEdgeUs = now
           /\ isr'.count * Step <= isr'.lastEdgeUs
           /\ RingInOrder'
<1> DEFINE q == isr.queue
           full == Len(q) = GPS_PPS_ISR_QUEUE - 1
           base == IF full THEN Tail(q) ELSE q
           r == Append(base, [ edgeUs |-> now, count |-> isr.count + 1 ])
<1>1. /\ q \in Seq(Edge) /\ isr.count \in Nat /\ isr.lastEdgeUs \in Nat /\ now \in Nat
      /\ Len(q) < GPS_PPS_ISR_QUEUE /\ GPS_PPS_ISR_QUEUE \in Nat /\ GPS_PPS_ISR_QUEUE >= 2
      /\ pulseAt \in Nat /\ commit.drained \in Nat
  BY ServiceAssumption DEF ServiceInductive, TypeOK
<1>2. /\ InOrder(q, isr.count, isr.lastEdgeUs, pulseAt) /\ pulseAt <= isr.lastEdgeUs
      /\ OnGrid(now) /\ commit.drained + Len(q) <= isr.count
  BY DEF ServiceInductive, RingInOrder, ClockFollows, PulsesCounted
<1>3. isr' = [ count |-> isr.count + 1, lastEdgeUs |-> now, queue |-> r ]
  BY DEF OnPpsIsr
<1>4. /\ base \in Seq(Edge) /\ InOrder(base, isr.count, isr.lastEdgeUs, pulseAt)
      /\ Len(base) < GPS_PPS_ISR_QUEUE - 1 /\ Len(base) \in Nat /\ Len(base) <= Len(q)
  <2>1. CASE full
    <3>1. q # <<>>
      BY <1>1, <2>1
    <3> QED BY <1>1, <1>2, <2>1, <3>1, TailInOrder
  <2>2. CASE ~full
    BY <1>1, <1>2, <2>2
  <2> QED BY <2>1, <2>2
<1> HIDE DEF base, q
<1>5. r \in Seq(Edge) /\ Len(r) = Len(base) + 1 /\ InOrder(r, isr.count + 1, now, pulseAt)
  BY <1>1, <1>2, <1>4, AppendInOrder
<1> HIDE DEF r
<1>6. isr'.count = isr.count + 1 /\ isr'.lastEdgeUs = now /\ isr'.queue = r
  BY <1>3
<1>7. isr' \in [ count : Nat, lastEdgeUs : Nat, queue : Seq(Edge) ]
  BY <1>1, <1>3, <1>5
<1>8. isr'.count * Step <= isr'.lastEdgeUs
  <2>1. isr.lastEdgeUs + Step <= now
    BY <1>1, GridStep DEF ServiceInductive, PulsesCounted
  <2>2. isr.count * Step <= isr.lastEdgeUs
    BY DEF ServiceInductive, PulsesCounted
  <2> QED BY <1>1, <1>6, <2>1, <2>2, StepLength
<1>9. RingInOrder'
  <2>1. commit.drained + Len(r) <= isr.count + 1 /\ Len(r) < GPS_PPS_ISR_QUEUE
    BY <1>1, <1>2, <1>4, <1>5
  <2> QED BY <1>5, <1>6, <2>1 DEF RingInOrder
<1>10. Len(r) < GPS_PPS_ISR_QUEUE
  BY <1>1, <1>4, <1>5
<1> QED BY <1>6, <1>7, <1>8, <1>9, <1>10

-----------------------------------------------------------------------------
(* The receiver and the scheduler: the clock sees none of it, but time.      *)

\* What touches neither time nor pulses nor the clock keeps what is said of them.
LEMMA QuietOK ==
    ASSUME ServiceInductive, UNCHANGED <<now, clk, isr, commit, pulseAt>>,
           due' \in {due, "none"}
    PROVE  PulsesCounted' /\ RingInOrder' /\ ClockFollows' /\ UNCHANGED LC!vars
<1>1. PulsesCounted'
  BY DEF ServiceInductive, PulsesCounted, OnGrid
<1>2. RingInOrder'
  BY DEF ServiceInductive, RingInOrder, InOrder, OnGrid
<1>3. ClockFollows'
  BY DEF ServiceInductive, ClockFollows, PhaseOK, AgeOK, OffEdgeUnearned, Serving, Extrapolate
<1> QED BY <1>1, <1>2, <1>3 DEF LC!vars

LEMMA OutageOK == ServiceInductive /\ Outage => ServiceInductive' /\ UNCHANGED LC!vars
<1> SUFFICES ASSUME ServiceInductive, Outage PROVE ServiceInductive' /\ UNCHANGED LC!vars
  OBVIOUS
<1>1. up' \subseteq Outputs /\ faults' \in 0..MaxFaults
  BY ServiceAssumption DEF Outage, Spend, ServiceInductive, TypeOK
<1>2. TypeOK'
  BY <1>1 DEF Outage, ServiceInductive, TypeOK
<1> QED BY <1>2, QuietOK DEF Outage, ServiceInductive

LEMMA RestoredOK == ServiceInductive /\ Restored => ServiceInductive' /\ UNCHANGED LC!vars
<1> SUFFICES ASSUME ServiceInductive, Restored PROVE ServiceInductive' /\ UNCHANGED LC!vars
  OBVIOUS
<1>1. up' \subseteq Outputs
  BY DEF Restored, ServiceInductive, TypeOK
<1>2. TypeOK'
  BY <1>1 DEF Restored, ServiceInductive, TypeOK
<1> QED BY <1>2, QuietOK DEF Restored, ServiceInductive

LEMMA ChangeSettingOK ==
    ServiceInductive /\ ChangeSetting => ServiceInductive' /\ UNCHANGED LC!vars
<1> SUFFICES ASSUME ServiceInductive, ChangeSetting
             PROVE  ServiceInductive' /\ UNCHANGED LC!vars
  OBVIOUS
<1>1. setting' \in Settings /\ faults' \in 0..MaxFaults
  BY ServiceAssumption DEF ChangeSetting, Spend, ServiceInductive, TypeOK
<1>2. TypeOK'
  BY <1>1 DEF ChangeSetting, ServiceInductive, TypeOK
<1> QED BY <1>2, QuietOK DEF ChangeSetting, ServiceInductive

\* A sentence names a second near the true one.
LEMMA SpeakOK ==
    ASSUME ServiceInductive, NEW second \in Named, Speak(second)
    PROVE  uart' \in Seq(Group)
<1> DEFINE group == [ second |-> second,
                      zda |-> {"line", "zda"} \subseteq up,
                      rmc |-> {"line", "rmc"} \subseteq up ]
<1>1. group \in Group
  BY Zenon DEF Group
<1>2. uart' = IF group.zda \/ group.rmc THEN Append(uart, group) ELSE uart
  BY DEF Speak
<1> HIDE DEF group
<1>3. uart \in Seq(Group)
  BY DEF ServiceInductive, TypeOK
<1> QED BY <1>1, <1>2, <1>3

LEMMA SentencesOK == ServiceInductive /\ Sentences => ServiceInductive' /\ UNCHANGED LC!vars
<1> SUFFICES ASSUME ServiceInductive, Sentences
             PROVE  ServiceInductive' /\ UNCHANGED LC!vars
  OBVIOUS
<1>1. now \in Nat /\ now > Second /\ now <= MaxNow /\ MaxNow \in Nat /\ MaxFaults \in Nat
      /\ faults \in 0..MaxFaults
  BY ServiceAssumption DEF Sentences, ServiceInductive, TypeOK, PulsesCounted
<1>2. \A wrong \in {-1, 0, 1, 2} : now \div Second + wrong \in Named
  BY <1>1, StepLength DEF Named
<1>3. now \div Second \in Named
  BY <1>1, StepLength DEF Named
<1>4. faults' \in 0..MaxFaults
  BY <1>1 DEF Sentences, Spend
<1>5. uart' \in Seq(Group)
  <2>1. CASE Speak(now \div Second)
    BY <1>3, <2>1, SpeakOK
  <2>2. CASE \E wrong \in {-1, 1, 2} : Speak(now \div Second + wrong)
    BY <1>2, <2>2, SpeakOK
  <2> QED BY <2>1, <2>2 DEF Sentences
<1>6. TypeOK'
  BY <1>4, <1>5 DEF Sentences, ServiceInductive, TypeOK
<1> QED BY <1>6, QuietOK DEF Sentences, ServiceInductive

\* A pulse at this instant, counted: the clock does not see it yet.
LEMMA EdgeComesOK ==
    ASSUME ServiceInductive, isr.lastEdgeUs < now, isr' = OnPpsIsr(isr, now),
           due' \in {due, "none"}, due = "pulse" => due' = "none", 
           UNCHANGED <<now, clk, commit, pulseAt>>
    PROVE  /\ isr' \in [ count : Nat, lastEdgeUs : Nat, queue : Seq(Edge) ]
           /\ Len(isr'.queue) < GPS_PPS_ISR_QUEUE
           /\ PulsesCounted' /\ RingInOrder' /\ ClockFollows' /\ UNCHANGED LC!vars
<1>1. /\ isr' \in [ count : Nat, lastEdgeUs : Nat, queue : Seq(Edge) ]
      /\ Len(isr'.queue) < GPS_PPS_ISR_QUEUE
      /\ isr'.lastEdgeUs = now
      /\ isr'.count * Step <= isr'.lastEdgeUs
      /\ RingInOrder'
  BY IsrOK
<1>2. PulsesCounted'
  BY <1>1 DEF ServiceInductive, PulsesCounted, OnGrid, TypeOK
<1>3. pulseAt' <= isr'.lastEdgeUs
  BY <1>1 DEF ServiceInductive, ClockFollows, TypeOK
<1>4. ClockFollows'
  BY <1>3 DEF ServiceInductive, ClockFollows, PhaseOK, AgeOK, OffEdgeUnearned, Serving,
              Extrapolate
<1> QED BY <1>1, <1>2, <1>4 DEF LC!vars

LEMMA PulseOK == ServiceInductive /\ Pulse => ServiceInductive' /\ UNCHANGED LC!vars
<1> SUFFICES ASSUME ServiceInductive, Pulse PROVE ServiceInductive' /\ UNCHANGED LC!vars
  OBVIOUS
<1>1. /\ isr' \in [ count : Nat, lastEdgeUs : Nat, queue : Seq(Edge) ]
      /\ Len(isr'.queue) < GPS_PPS_ISR_QUEUE
      /\ PulsesCounted' /\ RingInOrder' /\ ClockFollows' /\ UNCHANGED LC!vars
  <2>1. CASE "pps" \in up
    <3>1. isr.lastEdgeUs < now
      BY DEF Pulse, ServiceInductive, PulsesCounted
    <3> QED BY <2>1, <3>1, EdgeComesOK DEF Pulse
  <2>2. CASE "pps" \notin up
    BY <2>2, QuietOK DEF Pulse, ServiceInductive, TypeOK
  <2> QED BY <2>1, <2>2
<1>2. TypeOK'
  BY <1>1 DEF Pulse, ServiceInductive, TypeOK
<1> QED BY <1>1, <1>2 DEF ServiceInductive

LEMMA GlitchOK == ServiceInductive /\ Glitch => ServiceInductive' /\ UNCHANGED LC!vars
<1> SUFFICES ASSUME ServiceInductive, Glitch PROVE ServiceInductive' /\ UNCHANGED LC!vars
  OBVIOUS
<1>1. due # "pulse"
  BY DEF Glitch, ServiceInductive, PulsesCounted
<1>2. /\ isr' \in [ count : Nat, lastEdgeUs : Nat, queue : Seq(Edge) ]
      /\ Len(isr'.queue) < GPS_PPS_ISR_QUEUE
      /\ PulsesCounted' /\ RingInOrder' /\ ClockFollows' /\ UNCHANGED LC!vars
  BY <1>1, EdgeComesOK DEF Glitch
<1>3. faults' \in 0..MaxFaults
  BY ServiceAssumption DEF Glitch, Spend, ServiceInductive, TypeOK
<1>4. TypeOK'
  BY <1>2, <1>3 DEF Glitch, ServiceInductive, TypeOK
<1> QED BY <1>2, <1>4 DEF ServiceInductive

LEMMA AdvanceOK == ServiceInductive /\ Advance => ServiceInductive' /\ LC!Advance
<1> SUFFICES ASSUME ServiceInductive, Advance PROVE ServiceInductive' /\ LC!Advance
  OBVIOUS
<1>1. /\ now \in Nat /\ now' = now + Step /\ now' <= MaxNow /\ now >= Second
      /\ OnGrid(now) /\ isr.lastEdgeUs <= now /\ isr.lastEdgeUs \in Nat
      /\ isr' = isr /\ pulseAt' = pulseAt /\ clk' = clk /\ commit' = commit
      /\ due' = IF now' % Second = 0 THEN "pulse" ELSE "sentences"
  BY DEF Advance, ServiceInductive, PulsesCounted, TypeOK
<1>2. now' \in Nat /\ now' > now /\ OnGrid(now')
  BY <1>1, GridAdvances, StepLength
<1>3. PulsesCounted'
  BY <1>1, <1>2, StepLength DEF ServiceInductive, PulsesCounted, OnGrid
<1>4. RingInOrder'
  BY <1>1 DEF ServiceInductive, RingInOrder, InOrder, OnGrid
<1>5. AgeOK(clk', now')
  BY <1>1, <1>2 DEF ServiceInductive, ClockFollows, AgeOK, TypeOK, LocalClockObject
<1>6. ClockFollows'
  BY <1>1, <1>5 DEF ServiceInductive, ClockFollows, PhaseOK, OffEdgeUnearned, Serving,
                    Extrapolate
<1>7. faults' \in 0..MaxFaults
  BY ServiceAssumption DEF Advance, Spend, ServiceInductive, TypeOK
<1>8. TypeOK'
  BY <1>2, <1>7 DEF Advance, ServiceInductive, TypeOK
<1>9. LC!Advance
  BY <1>1 DEF LC!Advance
<1> QED BY <1>3, <1>4, <1>6, <1>8, <1>9 DEF ServiceInductive

-----------------------------------------------------------------------------
(* The loop of task-time.                                                   *)

LEMMA ParseOK == ServiceInductive /\ Parse => ServiceInductive' /\ UNCHANGED LC!vars
<1> SUFFICES ASSUME ServiceInductive, Parse PROVE ServiceInductive' /\ UNCHANGED LC!vars
  OBVIOUS
<1>1. uart' \in Seq(Group) /\ sentences' \in [ zda : Heard, rmc : Heard ]
  <2>1. CASE uart = <<>>
    BY <2>1 DEF Parse, ServiceInductive, TypeOK
  <2>2. CASE uart # <<>>
    <3> DEFINE group == Head(uart)
               heard == [ valid |-> TRUE, epoch |-> group.second, at |-> now ]
    <3>1. uart \in Seq(Group) /\ now \in Nat /\ sentences.zda \in Heard /\ sentences.rmc \in Heard
      BY DEF ServiceInductive, TypeOK
    <3>2. group \in Group /\ uart' = Tail(uart) /\ uart' \in Seq(Group)
      BY <2>2, <3>1 DEF Parse
    <3>3. sentences' = [ zda |-> IF group.zda THEN heard ELSE sentences.zda,
                         rmc |-> IF group.rmc THEN heard ELSE sentences.rmc ]
      BY <2>2 DEF Parse
    <3> HIDE DEF group
    <3>4. group.second \in Named
      BY <3>2 DEF Group
    <3>5. heard \in Heard
      BY <3>1, <3>4, Zenon DEF Heard
    <3> HIDE DEF heard
    <3> QED BY <3>1, <3>2, <3>3, <3>5
  <2> QED BY <2>1, <2>2
<1>2. TypeOK'
  BY <1>1 DEF Parse, env, ServiceInductive, TypeOK
<1> QED BY <1>2, QuietOK DEF Parse, env, ServiceInductive

LEMMA DrainedOK == ServiceInductive /\ Drained => ServiceInductive' /\ UNCHANGED LC!vars
<1> SUFFICES ASSUME ServiceInductive, Drained PROVE ServiceInductive' /\ UNCHANGED LC!vars
  OBVIOUS
<1>1. ppsWasFresh' \in BOOLEAN
  BY DEF Drained, PpsFresh
<1>2. TypeOK'
  BY <1>1 DEF Drained, env, ServiceInductive, TypeOK
<1> QED BY <1>2, QuietOK DEF Drained, env, ServiceInductive

LEMMA ServeOK == ServiceInductive /\ Serve => ServiceInductive' /\ UNCHANGED LC!vars
<1> SUFFICES ASSUME ServiceInductive, Serve PROVE ServiceInductive' /\ UNCHANGED LC!vars
  OBVIOUS
<1>1. TypeOK'
  BY DEF Serve, env, ServiceInductive, TypeOK
<1> QED BY <1>1, QuietOK DEF Serve, env, ServiceInductive

\* A drained edge is later than the one before and its count is higher, however
\* many edges the ring has dropped in between.
LEMMA DrainEdgeOK == ServiceInductive /\ DrainEdge => ServiceInductive' /\ LC!PpsEdge
<1> SUFFICES ASSUME ServiceInductive, DrainEdge PROVE ServiceInductive' /\ LC!PpsEdge
  OBVIOUS
<1> DEFINE q == isr.queue
           edge == Head(q)
           lag == now - edge.edgeUs
           gap == edge.count - clk.lastPpsCount
<1>1. /\ clk' = OnPpsEdge(clk, edge.edgeUs, edge.count)
      /\ commit' = [commit EXCEPT !.drained = edge.count]
      /\ pulseAt' = edge.edgeUs
      /\ isr' = [isr EXCEPT !.queue = Tail(q)]
      /\ now' = now /\ due' = due /\ q # <<>>
  BY DEF DrainEdge, env
<1>2. /\ clk \in LocalClockObject /\ now \in Nat /\ now > 0 /\ now <= MaxNow /\ OnGrid(now)
      /\ q \in Seq(Edge) /\ isr.count \in Nat /\ isr.lastEdgeUs \in Nat
      /\ isr.lastEdgeUs <= now /\ isr.count * Step <= isr.lastEdgeUs
      /\ pulseAt \in Nat /\ commit.second \in Nat /\ commit.drained \in Nat
      /\ MaxNow \in Nat
  BY ServiceAssumption
     DEF ServiceInductive, TypeOK, PulsesCounted, Second, Named
<1>3. /\ InOrder(q, isr.count, isr.lastEdgeUs, pulseAt)
      /\ commit.drained + Len(q) <= isr.count
      /\ clk.lastPpsCount = commit.drained
      /\ clk.lastEdgeUs <= pulseAt /\ pulseAt <= isr.lastEdgeUs
      /\ clk.anchorUtcSec <= MaxNow \div Second + 2 + commit.drained
      /\ PhaseOK(clk, commit.second) /\ AgeOK(clk, now)
      /\ clk.lastEdgeUs \in Nat /\ clk.anchorUtcSec \in Nat
  BY <1>2 DEF ServiceInductive, RingInOrder, ClockFollows, LocalClockObject
<1>4. /\ InOrder(Tail(q), isr.count, isr.lastEdgeUs, edge.edgeUs)
      /\ Tail(q) \in Seq(Edge) /\ Len(Tail(q)) = Len(q) - 1 /\ Len(q) \in Nat \ {0}
      /\ edge \in Edge /\ edge.count = isr.count - (Len(q) - 1)
      /\ OnGrid(edge.edgeUs) /\ pulseAt < edge.edgeUs /\ edge.edgeUs <= isr.lastEdgeUs
  BY <1>1, <1>2, <1>3, TailInOrder
<1> HIDE DEF q, edge
<1>5. /\ edge.edgeUs \in Nat /\ edge.count \in Nat
      /\ edge.edgeUs > clk.lastEdgeUs /\ edge.count > clk.lastPpsCount
      /\ edge.count <= isr.count /\ edge.edgeUs <= now
  <2>1. edge.edgeUs \in Nat /\ edge.count \in Nat
    BY <1>4 DEF Edge
  <2> QED BY <1>2, <1>3, <1>4, <2>1, SMTT(30)
<1>6. clk' \in LocalClockObject /\ PhaseOK(clk', commit.second) /\ AgeOK(clk', now)
  BY <1>1, <1>2, <1>3, <1>5, OnPpsEdgeOK
<1>7. /\ clk'.lastPpsCount = edge.count
      /\ clk'.lastEdgeUs \in {clk.lastEdgeUs, edge.edgeUs}
      /\ clk'.anchorUtcSec \in 0..(clk.anchorUtcSec + (edge.count - clk.lastPpsCount))
  BY <1>1, <1>2, <1>3, <1>5, OnPpsEdgeCounts
<1>8. /\ commit'.drained = edge.count /\ commit'.second = commit.second
      /\ commit' \in [ second : Named, at : Nat, have : BOOLEAN, drained : Nat ]
      /\ isr'.queue = Tail(q) /\ isr'.count = isr.count /\ isr'.lastEdgeUs = isr.lastEdgeUs
      /\ isr' \in [ count : Nat, lastEdgeUs : Nat, queue : Seq(Edge) ]
  <2>1. /\ commit \in [ second : Named, at : Nat, have : BOOLEAN, drained : Nat ]
        /\ isr \in [ count : Nat, lastEdgeUs : Nat, queue : Seq(Edge) ]
    BY DEF ServiceInductive, TypeOK
  <2> QED BY <1>1, <1>4, <1>5, <2>1
<1>9. PulsesCounted'
  BY <1>1, <1>8 DEF ServiceInductive, PulsesCounted, OnGrid
<1>10. RingInOrder'
  <2>1. edge.count + Len(Tail(q)) <= isr.count
    BY <1>2, <1>4, <1>5
  <2> QED BY <1>1, <1>4, <1>8, <2>1 DEF RingInOrder, InOrder, OnGrid
<1>11. ClockFollows'
  <2>1. edge.count # 0 /\ clk'.lastEdgeUs <= edge.edgeUs
    BY <1>2, <1>3, <1>5, <1>7, SMTT(30)
  <2>2. clk'.anchorUtcSec <= MaxNow \div Second + 2 + edge.count
    <3> DEFINE top == MaxNow \div Second + 2
    <3>1. top \in Int
      BY <1>2, StepLength
    <3>2. clk.anchorUtcSec <= top + clk.lastPpsCount
      BY <1>3
    <3>3. clk'.anchorUtcSec <= clk.anchorUtcSec + (edge.count - clk.lastPpsCount)
      BY <1>3, <1>7
    <3>4. clk'.anchorUtcSec \in Int /\ clk.lastPpsCount \in Int
      BY <1>2, <1>3, <1>5, <1>7
    <3> HIDE DEF top
    <3>5. clk'.anchorUtcSec <= top + edge.count
      BY <1>3, <1>5, <3>1, <3>2, <3>3, <3>4, SMTT(30)
    <3> QED BY <3>5 DEF top
  <2> QED BY <1>1, <1>4, <1>6, <1>7, <1>8, <2>1, <2>2 DEF ClockFollows
<1>12. TypeOK'
  <2>1. Len(isr'.queue) < GPS_PPS_ISR_QUEUE
    BY ServiceAssumption, <1>4, <1>8 DEF ServiceInductive, TypeOK, q
  <2> QED BY <1>1, <1>5, <1>6, <1>8, <2>1 DEF DrainEdge, env, ServiceInductive, TypeOK
<1>13. LC!PpsEdge
  <2>1. lag \in { k * Step : k \in 0..(MaxNow \div Step) }
    BY <1>2, <1>4, <1>5, GridLag
  <2>2. gap \in 1..(MaxNow \div Step)
    <3>1. isr.count <= MaxNow \div Step
      BY <1>2, GridCount
    <3>2. gap \in 1..isr.count
      BY <1>2, <1>3, <1>5, SMTT(30)
    <3> QED BY <1>2, <3>1, <3>2, StepLength
  <2>3. lag < now /\ now - lag > pulseAt /\ pulseAt' = now - lag
        /\ edge.edgeUs = now - lag /\ edge.count = clk.lastPpsCount + gap
    BY <1>1, <1>2, <1>3, <1>4, <1>5, SMTT(30)
  <2>4. clk' = LC!OnPpsEdge(clk, now - lag, clk.lastPpsCount + gap)
    BY <1>1, <2>3, SamePulse, Zenon
  <2>5. UNCHANGED <<now, commit.second>>
    BY <1>1, <1>8
  <2> HIDE DEF lag, gap
  <2> QED BY <2>1, <2>2, <2>3, <2>4, <2>5 DEF LC!PpsEdge
<1> QED BY <1>9, <1>10, <1>11, <1>12, <1>13 DEF ServiceInductive

\* A commit names another second than the last one, with the count the clock has
\* consumed, and near enough to the clock for a 32-bit residual.
LEMMA CommitNmeaTimeOK ==
    ServiceInductive /\ CommitNmeaTime
        => ServiceInductive' /\ (LC!NmeaCommit \/ UNCHANGED LC!vars)
<1> SUFFICES ASSUME ServiceInductive, CommitNmeaTime
             PROVE  ServiceInductive' /\ (LC!NmeaCommit \/ UNCHANGED LC!vars)
  OBVIOUS
<1>1. CASE ~HasSecond
  <2>1. UNCHANGED <<now, clk, isr, commit, pulseAt, due>>
    BY <1>1 DEF CommitNmeaTime, env
  <2>2. TypeOK'
    BY <2>1 DEF CommitNmeaTime, env, ServiceInductive, TypeOK
  <2> QED BY <2>1, <2>2, QuietOK DEF ServiceInductive
<1>2. CASE HasSecond
  <2> DEFINE label == SecondHeard
             policy == setting.policy
             holdoverSec == setting.holdoverSec
  <2>1. /\ clk' = OnNmeaCommit(clk, label, CommitPpsCount, policy, holdoverSec, now)
        /\ commit' = [commit EXCEPT !.second = label, !.at = now, !.have = TRUE]
        /\ now' = now /\ isr' = isr /\ pulseAt' = pulseAt /\ due' = due
    BY <1>2 DEF CommitNmeaTime, env
  <2>2. /\ clk \in LocalClockObject /\ now \in Nat /\ now > 0 /\ now <= MaxNow
        /\ MaxNow \in Nat /\ isr.count \in Nat /\ isr.lastEdgeUs \in Nat
        /\ isr.lastEdgeUs <= now /\ isr.count * Step <= isr.lastEdgeUs
        /\ pulseAt \in Nat /\ commit.second \in Nat /\ commit.drained \in Nat
        /\ setting \in Settings
    BY ServiceAssumption
       DEF ServiceInductive, TypeOK, PulsesCounted, Second, Named
  <2>3. label \in Named /\ label \in Nat /\ label # commit.second
    <3>1. sentences.zda \in Heard /\ sentences.rmc \in Heard
      BY DEF ServiceInductive, TypeOK
    <3>2. sentences.zda.epoch \in Named /\ sentences.rmc.epoch \in Named
      BY <3>1 DEF Heard
    <3> QED BY <1>2, <3>2 DEF SecondHeard, HasSecond, Named
  <2>4. /\ clk.lastPpsCount = commit.drained
        /\ commit.drained = 0 => clk.lastEdgeUs = 0
        /\ clk.lastEdgeUs <= pulseAt /\ pulseAt <= isr.lastEdgeUs
        /\ clk.anchorUtcSec <= MaxNow \div Second + 2 + commit.drained
        /\ commit.drained <= isr.count
        /\ PhaseOK(clk, commit.second) /\ AgeOK(clk, now)
        /\ clk.lastEdgeUs \in Nat /\ clk.anchorUtcSec \in Nat /\ clk.anchorEdgeUs \in Nat
    BY <2>2, SMTT(30) DEF ServiceInductive, RingInOrder, ClockFollows, LocalClockObject, TypeOK
  <2> HIDE DEF label, policy, holdoverSec
  <2>5. clk' = OnNmeaCommit(clk, label, clk.lastPpsCount, policy, holdoverSec, now)
    <3>1. CASE commit.drained # 0
      BY <2>1, <2>4, <3>1 DEF CommitPpsCount
    <3>2. CASE commit.drained = 0
      BY <2>1, <2>4, <3>2 DEF OnNmeaCommit
    <3> QED BY <3>1, <3>2
  <2>6. (clk.haveAnchor /\ CanExtrapolate(clk, clk.lastEdgeUs)) =>
            Abs(label * Second - Extrapolate(clk, clk.lastEdgeUs)) <= RESIDUAL_MAX
    <3> SUFFICES ASSUME clk.anchorEdgeUs <= clk.lastEdgeUs
                 PROVE  Abs(label * Second - Extrapolate(clk, clk.lastEdgeUs)) <= RESIDUAL_MAX
      BY <2>4 DEF CanExtrapolate
    <3>1. label * 1000 <= MaxNow + 2000
      BY <2>2, <2>3, StepLength DEF Named
    <3>2. commit.drained * 500 <= MaxNow
      BY <2>2, <2>4, StepLength
    <3>3. clk.anchorUtcSec * 1000 <= MaxNow + 2000 + 2 * MaxNow
      BY <2>2, <2>4, <3>2, StepLength
    <3>4. clk.lastEdgeUs <= MaxNow
      BY <2>2, <2>4
    <3>5. 4 * (MaxNow + 1000) <= RESIDUAL_MAX /\ RESIDUAL_MAX \in Nat
      BY RangeAssumption, HoldoverAssumption, StepLength
    <3> QED BY <2>2, <2>3, <2>4, <3>1, <3>3, <3>4, <3>5, StepLength DEF Abs, Extrapolate
  <2>7. ClockStep(clk, clk', label, now)
    BY <2>2, <2>3, <2>4, <2>5, <2>6, OnNmeaCommitOK
  <2>8. /\ clk'.lastEdgeUs = clk.lastEdgeUs /\ clk'.lastPpsCount = clk.lastPpsCount
        /\ clk'.anchorUtcSec \in {clk.anchorUtcSec, label}
    BY <2>2, <2>3, <2>5, OnNmeaCommitCounts
  <2>9. /\ commit' \in [ second : Named, at : Nat, have : BOOLEAN, drained : Nat ]
        /\ commit'.second = label /\ commit'.drained = commit.drained
    <3>1. commit \in [ second : Named, at : Nat, have : BOOLEAN, drained : Nat ]
      BY DEF ServiceInductive, TypeOK
    <3> QED BY <2>1, <2>2, <2>3, <3>1
  <2>10. PulsesCounted'
    BY <2>1 DEF ServiceInductive, PulsesCounted, OnGrid
  <2>11. RingInOrder'
    BY <2>1, <2>9 DEF ServiceInductive, RingInOrder, InOrder, OnGrid
  <2>12. ClockFollows'
    <3>1. clk'.anchorUtcSec <= MaxNow \div Second + 2 + commit.drained
      BY <2>2, <2>3, <2>4, <2>8, StepLength DEF Named
    <3> QED BY <2>1, <2>4, <2>7, <2>8, <2>9, <3>1 DEF ClockFollows, ClockStep
  <2>13. clk' \in LocalClockObject
    BY <2>7 DEF ClockStep
  <2>14. TypeOK'
    BY <2>1, <2>9, <2>13 DEF CommitNmeaTime, env, ServiceInductive, TypeOK
  <2>15. LC!NmeaCommit
    <3>1. policy \in LC!AnomalyPolicy /\ holdoverSec \in { s.holdoverSec : s \in Settings }
      BY <2>2, ServiceAssumption DEF policy, holdoverSec, LC!AnomalyPolicy, AnomalyPolicy
    <3>2. LC!Comparable(label)
      <4>1. LC!CanExtrapolate(clk, clk.lastEdgeUs) = CanExtrapolate(clk, clk.lastEdgeUs)
        BY DEF LC!CanExtrapolate, CanExtrapolate
      <4>2. LC!Abs(label * LC!Second - LC!Extrapolate(clk, clk.lastEdgeUs))
              = Abs(label * Second - Extrapolate(clk, clk.lastEdgeUs))
        BY Zenon DEF LC!Abs, Abs, LC!Second, Second, LC!Extrapolate, Extrapolate
      <4> QED BY <2>6, <4>1, <4>2 DEF LC!Comparable
    <3>3. clk' = LC!OnNmeaCommit(clk, label, clk.lastPpsCount, policy, holdoverSec, now)
      BY <2>5, SameCommit, Zenon
    <3> QED BY <2>1, <2>3, <2>9, <3>1, <3>2, <3>3 DEF LC!NmeaCommit
  <2> QED BY <2>10, <2>11, <2>12, <2>14, <2>15 DEF ServiceInductive
<1> QED BY <1>1, <1>2

LEMMA TickClockOK == ServiceInductive /\ TickClock => ServiceInductive' /\ LC!ClockTick
<1> SUFFICES ASSUME ServiceInductive, TickClock PROVE ServiceInductive' /\ LC!ClockTick
  OBVIOUS
<1> DEFINE policy == setting.policy
           holdoverSec == setting.holdoverSec
<1>1. /\ clk' = Tick(clk, NmeaFresh, ppsWasFresh, policy, holdoverSec, now)
      /\ UNCHANGED <<now, isr, commit, pulseAt, due>>
  BY DEF TickClock, env
<1>2. /\ clk \in LocalClockObject /\ now \in Nat /\ now > 0 /\ commit.second \in Nat
      /\ PhaseOK(clk, commit.second) /\ AgeOK(clk, now) /\ setting \in Settings
  BY DEF ServiceInductive, TypeOK, PulsesCounted, ClockFollows, Second, Named
<1>3. NmeaFresh \in BOOLEAN /\ ppsWasFresh \in BOOLEAN
  <2>1. ppsWasFresh \in BOOLEAN
    BY DEF ServiceInductive, TypeOK
  <2>2. commit.have \in BOOLEAN
    BY DEF ServiceInductive, TypeOK
  <2> QED BY <2>1, <2>2 DEF NmeaFresh
<1> HIDE DEF policy, holdoverSec
<1>4. TickStep(clk, clk', commit.second, now)
  BY <1>1, <1>2, TickOK
<1>5. Alike(clk, clk')
  BY <1>1, <1>2, TickCounts
<1>6. PulsesCounted' /\ RingInOrder'
  BY <1>1 DEF ServiceInductive, PulsesCounted, RingInOrder, InOrder, OnGrid
<1>7. ClockFollows'
  BY <1>1, <1>4, <1>5 DEF ServiceInductive, ClockFollows, TickStep, ClockStep, Alike
<1>8. clk' \in LocalClockObject
  BY <1>4 DEF TickStep, ClockStep
<1>9. TypeOK'
  BY <1>1, <1>8 DEF TickClock, env, ServiceInductive, TypeOK
<1>10. LC!ClockTick
  <2>1. policy \in LC!AnomalyPolicy /\ holdoverSec \in { s.holdoverSec : s \in Settings }
    BY <1>2, ServiceAssumption DEF policy, holdoverSec, LC!AnomalyPolicy, AnomalyPolicy
  <2>2. clk' = LC!Tick(clk, NmeaFresh, ppsWasFresh, policy, holdoverSec, now)
    BY <1>1, SameTick, Zenon
  <2> QED BY <1>1, <1>3, <2>1, <2>2 DEF LC!ClockTick
<1> QED BY <1>6, <1>7, <1>9, <1>10 DEF ServiceInductive

-----------------------------------------------------------------------------
(* The theorems.                                                            *)

LEMMA InitOK == Init => ServiceInductive /\ LC!Init
<1> SUFFICES ASSUME Init PROVE ServiceInductive /\ LC!Init
  OBVIOUS
<1>1. /\ "Acquiring" \in ClockState /\ 0 \in 0..CLK_PPS_EDGE_RING /\ 0 \in Nat
      /\ 0 \in 0..255 /\ 0 \in (-RESIDUAL_MAX - 1)..RESIDUAL_MAX /\ FALSE \in BOOLEAN
  BY CountsAssumption, HoldoverAssumption DEF ClockState
<1>2. Reset \in LocalClockObject
  BY <1>1, Zenon DEF Reset, LocalClockObject
<1>3. /\ MaxNow \in Nat /\ MaxNow >= Second /\ MaxFaults \in Nat
      /\ GPS_PPS_ISR_QUEUE \in Nat /\ GPS_PPS_ISR_QUEUE >= 2
  BY ServiceAssumption
<1>4. 0 \in Named
  BY <1>3, StepLength DEF Named
<1>5. TypeOK
  <2>1. Unheard \in Heard
    BY <1>1, <1>4, Zenon DEF Unheard, Heard
  <2>2. /\ isr \in [ count : Nat, lastEdgeUs : Nat, queue : Seq(Edge) ]
        /\ Len(isr.queue) < GPS_PPS_ISR_QUEUE
        /\ uart \in Seq(Group)
    BY <1>3 DEF Init
  <2>3. commit \in [ second : Named, at : Nat, have : BOOLEAN, drained : Nat ]
    BY <1>4 DEF Init
  <2>4. sentences \in [ zda : Heard, rmc : Heard ]
    BY <2>1 DEF Init
  <2>5. now \in Nat /\ pulseAt \in Nat /\ faults \in 0..MaxFaults
    BY <1>3, StepLength DEF Init
  <2>6. clk \in LocalClockObject
    BY <1>2 DEF Init
  <2>7. /\ pc \in {"parse", "drain", "commit", "tick", "serve"} /\ setting \in Settings
        /\ due \in {"pulse", "sentences", "none"} /\ up \subseteq Outputs
        /\ looped \in BOOLEAN /\ ppsWasFresh \in BOOLEAN
    BY Zenon DEF Init
  <2> QED BY <2>2, <2>3, <2>4, <2>5, <2>6, <2>7, Zenon DEF TypeOK
<1>6. /\ now = 1000 /\ isr.lastEdgeUs = 0 /\ isr.count = 0 /\ Len(isr.queue) = 0
      /\ pulseAt = 0 /\ commit.drained = 0 /\ commit.second = 0 /\ due = "pulse"
  BY StepLength DEF Init
<1>7. PulsesCounted
  BY <1>3, <1>6, StepLength DEF PulsesCounted, OnGrid
<1>8. RingInOrder
  BY <1>6 DEF RingInOrder, InOrder
<1>9. clk = Reset /\ clk.lastEdgeUs = 0 /\ clk.lastPpsCount = 0 /\ clk.anchorUtcSec = 0
  BY DEF Init, Reset
<1>10. PhaseOK(Reset, 0) /\ AgeOK(Reset, now)
  BY DEF Reset, PhaseOK, AgeOK, OffEdgeUnearned, Serving
<1>11. ClockFollows
  BY <1>3, <1>6, <1>9, <1>10, StepLength DEF ClockFollows
<1>12. LC!Init
  BY <1>6, <1>9 DEF LC!Init, LC!Reset, Reset, LC!Second
<1> QED BY <1>5, <1>7, <1>8, <1>11, <1>12 DEF ServiceInductive

\* Every step keeps the invariant, and is a step of LocalClock or none.
LEMMA NextOK ==
    ServiceInductive /\ [Next]_vars => ServiceInductive' /\ [LC!Next]_(LC!vars)
<1> SUFFICES ASSUME ServiceInductive, [Next]_vars
             PROVE  ServiceInductive' /\ [LC!Next]_(LC!vars)
  OBVIOUS
<1>1. CASE UNCHANGED vars
  <2>1. TypeOK'
    BY <1>1 DEF vars, ServiceInductive, TypeOK
  <2> QED BY <1>1, <2>1, QuietOK DEF vars, ServiceInductive
<1>2. CASE TaskTime
  BY <1>2, ParseOK, DrainEdgeOK, DrainedOK, CommitNmeaTimeOK, TickClockOK, ServeOK
     DEF TaskTime, LC!Next
<1>3. CASE Pulse \/ Sentences \/ Glitch \/ Outage \/ Restored \/ ChangeSetting \/ Advance
  BY <1>3, PulseOK, SentencesOK, GlitchOK, OutageOK, RestoredOK, ChangeSettingOK, AdvanceOK
     DEF LC!Next
<1> QED BY <1>1, <1>2, <1>3 DEF Next

LEMMA ServiceInvariant == Spec => []ServiceInductive
<1>1. Init => ServiceInductive
  BY InitOK
<1>2. ServiceInductive /\ [Next]_vars => ServiceInductive'
  BY NextOK
<1> QED BY <1>1, <1>2, PTL DEF Spec

\* The ring of the interrupt, the parsers, the commit and the clock keep their
\* types, and the ring never has more edges than its slots (gps_service.cpp,
\* onPpsIsr and drainPpsEdges).
THEOREM ServiceTypes == Spec => []TypeOK
<1>1. ServiceInductive => TypeOK
  BY DEF ServiceInductive
<1> QED BY <1>1, ServiceInvariant, PTL

\* However many edges the interrupt overwrites while the loop is away, the ring
\* keeps the newest in an unbroken run, and a commit carries the count of the
\* pulse the clock is on (gps_service.cpp, onPpsIsr and commitNmeaTime).
THEOREM PulsesAgree == Spec => []PulseCountsAgree
<1>1. ServiceInductive => PulseCountsAgree
  <2> SUFFICES ASSUME ServiceInductive PROVE PulseCountsAgree
    OBVIOUS
  <2>1. isr.queue \in Seq(Edge)
    BY DEF ServiceInductive, TypeOK
  <2>2. \A i \in 1..Len(isr.queue) :
            isr.queue[i].count = isr.count - (Len(isr.queue) - i)
    BY DEF ServiceInductive, RingInOrder, InOrder
  <2>3. Len(isr.queue) > 0 => isr.queue[Len(isr.queue)].edgeUs = isr.lastEdgeUs
    BY DEF ServiceInductive, RingInOrder, InOrder
  <2>4. \A i \in 1..Len(isr.queue) : Len(isr.queue) > 0
    BY <2>1
  <2>5. clk.lastPpsCount = commit.drained
    BY DEF ServiceInductive, ClockFollows
  <2> QED BY <2>2, <2>3, <2>4, <2>5 DEF PulseCountsAgree
<1> QED BY <1>1, ServiceInvariant, PTL

\* The whole service, with its interrupt, outages, late loops and wrong labels, is
\* a caller as LocalClock allows one: nothing LocalClockProofs shows of the clock
\* rests on a caller the program does not have (gps_service.cpp, loop).
THEOREM ServiceImplementsClock == Spec => ImplementsLocalClock
<1>1. Init => LC!Init
  BY InitOK
<1>2. ServiceInductive /\ [Next]_vars => [LC!Next]_(LC!vars)
  BY NextOK
<1> QED BY <1>1, <1>2, ServiceInvariant, PTL DEF Spec, ImplementsLocalClock, LC!Spec
=============================================================================
