---------------------------- MODULE MCLocalClock ----------------------------
(***************************************************************************)
(* LocalClock on a small instance, with a history of the last commits.      *)
(***************************************************************************)
EXTENDS LocalClock, Sequences

VARIABLES
    recent,   \* the last CLK_RELOCK_COUNT commits: second, edge and count named
    adrift    \* the streak has seen an anchor that serves off the last edge

mcvars == <<clk, now, pulseAt, committed, recent, adrift>>

MCLabels == 2..4
MCHoldoverSecs == {0, 2}
MCDeliveryLags == {0}
MCPulseGaps == {1, 2}
MCTimeSteps == {500, 1000, 1050}

Remember(commit) ==
    LET all == Append(recent, commit)
    IN IF Len(all) > CLK_RELOCK_COUNT THEN Tail(all) ELSE all

\* A first label that fails takes an acquiring clock into service with an anchor
\* that no pulse has moved.  It jumps at the next pulse, and the streak that it
\* jumps under is that of another line.
Adrift ==
    \/ Serving(clk') /\ clk'.anchorEdgeUs # clk'.lastEdgeUs
    \/ adrift /\ clk'.okStreak # 0

MCInit == Init /\ recent = <<>> /\ adrift = FALSE

MCNext ==
    /\ \/ (Advance \/ PpsEdge \/ ClockTick) /\ UNCHANGED recent
       \/ /\ NmeaCommit
          /\ recent' = Remember([ utc |-> committed', edge |-> clk.lastEdgeUs,
                                  pulse |-> clk.lastPpsCount ])
    /\ adrift' = Adrift

MCSpec == MCInit /\ [][MCNext]_mcvars

\* How far two commits, n commits and so many pulses apart, may be from one
\* straight line: a commit moves it by a residual, a pulse by an interval error.
Slack(n, pulses) ==
    CLK_LOCKED_SLEW_MS + n * CLK_RESIDUAL_RELOCK_MS + pulses * CLK_PPS_INTERVAL_MAX_ERR

\* The commit b, n commits after a, puts the same straight line through its edge.
SameLine(a, b, n) ==
    Abs((b.utc - a.utc) * Second - (b.edge - a.edge)) <= Slack(n, b.pulse - a.pulse)

\* Locked is earned: the last CLK_RELOCK_COUNT commits, each with the pulse it
\* was attributed to, agree with each other.  No mixture of holdover, soft
\* unsync and stale streaks reaches Locked on fewer.
LockIsEarned ==
    [][ (clk.state # "Locked" /\ clk'.state = "Locked" /\ ~adrift')
          => /\ Len(recent') = CLK_RELOCK_COUNT
             /\ \A i, j \in 1..CLK_RELOCK_COUNT :
                  i < j => SameLine(recent'[i], recent'[j], j - i) ]_mcvars
=============================================================================
