----------------------------- MODULE GpsService -----------------------------
(***************************************************************************)
(* gps_service.cpp on a live receiver: the PPS interrupt and its ring, the  *)
(* UART, and the loop of task-time that parses, drains, commits and ticks   *)
(* the local clock before NTP is served.                                    *)
(*                                                                          *)
(* Time is true UTC in milliseconds, in steps of half a second: the second  *)
(* k begins at k * Second with a pulse, and its sentences end half a second *)
(* later.  The steps of one loop interleave with the interrupt.  The faults *)
(* of the receiver and of the scheduler are actions with a budget: an       *)
(* outage of any length, a spurious pulse, a wrong label and a loop that is *)
(* half a second late cost one each.  One of the outages is that of the     *)
(* loop: taskTime of main.cpp leaves it out while an upload or a download   *)
(* runs (ipcShedNtp), and finds what has queued up when it is over.         *)
(***************************************************************************)
EXTENDS NtpReply, Sequences

CONSTANTS
    GPS_PPS_ISR_QUEUE,   \* slots of the ring, one of them never used
    GPS_FIX_MAX_AGE_MS,  \* age at which a ZDA second is no longer used
    NmeaFreshFor,        \* age of a commit that still counts as live NMEA
    PpsFreshFor,         \* age of a pulse that still counts as live PPS
    Settings,            \* pairs of a policy and a holdover length in use
    Faults,              \* kinds of faults the environment may produce
    MaxFaults,           \* bound: the budget of faults
    MaxNow               \* bound: the time at which an exploration stops

\* What an outage takes away: the pulse, the serial line, one of the two kinds
\* of sentences on it, or the loop itself.
Outputs == {"pps", "line", "zda", "rmc", "loop"}

ASSUME ServiceAssumption ==
    /\ GPS_PPS_ISR_QUEUE \in Nat /\ GPS_PPS_ISR_QUEUE >= 2
    /\ GPS_FIX_MAX_AGE_MS \in Nat /\ NmeaFreshFor \in Nat /\ PpsFreshFor \in Nat
    /\ \A s \in Settings : s.policy \in AnomalyPolicy /\ s.holdoverSec \in Nat
    /\ Faults \subseteq Outputs \cup {"glitch", "label", "delay", "setting"}
    /\ MaxFaults \in Nat /\ MaxNow \in Nat /\ MaxNow >= Second

\* An exploration is shorter than the days of which a 32-bit residual tells.
ASSUME RangeAssumption == 4 * (MaxNow + Second) <= RESIDUAL_MAX

VARIABLES
    now,        \* true time, esp_timer_get_time and millis
    clk,        \* localClock_
    isr,        \* ppsCount_, ppsLastEdgeUs_ and the ring ppsQ_, oldest first
    uart,       \* groups of sentences received and not yet parsed
    sentences,  \* what the parsers remember: the last ZDA and the last RMC
    commit,     \* lastCommittedSecond_, commitMs_, haveCommit_, lastDrainedPpsCount_
    pulseAt,    \* when the last pulse drained had come
    pc,         \* where the loop of task-time is
    ppsWasFresh,\* GpsStatus.ppsFresh of this loop
    setting,    \* the policy and the holdover length task-time runs with
    due,        \* what the receiver is about to send at this instant
    up,         \* the outputs of the receiver that work
    faults,     \* faults left
    looped      \* the loop has run since the time last advanced

vars == <<now, clk, isr, uart, sentences, commit, pulseAt, pc, ppsWasFresh,
          setting, due, up, faults, looped>>
env == <<due, up, faults>>

Step == Second \div 2

Unheard == [ valid |-> FALSE, epoch |-> 0, at |-> 0 ]

Init ==
    /\ now = Second
    /\ clk = Reset
    /\ isr = [ count |-> 0, lastEdgeUs |-> 0, queue |-> <<>> ]
    /\ uart = <<>>
    /\ sentences = [ zda |-> Unheard, rmc |-> Unheard ]
    /\ commit = [ second |-> 0, at |-> 0, have |-> FALSE, drained |-> 0 ]
    /\ pulseAt = 0
    /\ pc = "parse"
    /\ ppsWasFresh = FALSE
    /\ setting \in Settings
    /\ due = "pulse"
    /\ up = Outputs
    /\ faults = MaxFaults
    /\ looped = FALSE

-----------------------------------------------------------------------------
(* The interrupt.                                                           *)

\* Fault: a full ring drops the new edge instead of the oldest.
OnPpsIsrDropNewest(i, edgeUs) ==
    LET count == i.count + 1
        full == Len(i.queue) = GPS_PPS_ISR_QUEUE - 1
        edge == [ edgeUs |-> edgeUs, count |-> count ]
    IN [ count |-> count, lastEdgeUs |-> edgeUs,
         queue |-> IF full THEN i.queue ELSE Append(i.queue, edge) ]

\* Fault: the ring is full one edge too late.
OnPpsIsrOverfull(i, edgeUs) ==
    LET count == i.count + 1
        full == Len(i.queue) = GPS_PPS_ISR_QUEUE
        edge == [ edgeUs |-> edgeUs, count |-> count ]
    IN [ count |-> count, lastEdgeUs |-> edgeUs,
         queue |-> Append(IF full THEN Tail(i.queue) ELSE i.queue, edge) ]

\* A full ring drops its oldest edge.
OnPpsIsr(i, edgeUs) ==
    LET count == i.count + 1
        full == Len(i.queue) = GPS_PPS_ISR_QUEUE - 1
        edge == [ edgeUs |-> edgeUs, count |-> count ]
    IN [ count |-> count, lastEdgeUs |-> edgeUs,
         queue |-> Append(IF full THEN Tail(i.queue) ELSE i.queue, edge) ]

PpsFresh == isr.lastEdgeUs # 0 /\ now - isr.lastEdgeUs < PpsFreshFor

-----------------------------------------------------------------------------
(* The receiver, and what goes wrong.                                       *)

Spend(kind) == kind \in Faults /\ faults > 0 /\ faults' = faults - 1

\* The pulse of this second, when the output works.
Pulse ==
    /\ due = "pulse"
    /\ due' = "none"
    /\ isr' = IF "pps" \in up THEN OnPpsIsr(isr, now) ELSE isr
    /\ UNCHANGED <<now, clk, uart, sentences, commit, pulseAt, pc, ppsWasFresh,
                   setting, up, faults, looped>>

\* The sentences that name this second: ZDA, RMC, both or none.
Speak(second) ==
    LET group == [ second |-> second,
                   zda |-> {"line", "zda"} \subseteq up,
                   rmc |-> {"line", "rmc"} \subseteq up ]
    IN uart' = IF group.zda \/ group.rmc THEN Append(uart, group) ELSE uart

Sentences ==
    /\ due = "sentences"
    /\ due' = "none"
    /\ \/ Speak(now \div Second) /\ UNCHANGED faults
       \/ \E wrong \in {-1, 1, 2} : Speak(now \div Second + wrong) /\ Spend("label")
    /\ UNCHANGED <<now, clk, isr, sentences, commit, pulseAt, pc, ppsWasFresh,
                   setting, up, looped>>

\* A spurious pulse half a second from the true ones.
Glitch ==
    /\ now % Second # 0
    /\ isr.lastEdgeUs < now
    /\ Spend("glitch")
    /\ isr' = OnPpsIsr(isr, now)
    /\ UNCHANGED <<now, clk, uart, sentences, commit, pulseAt, pc, ppsWasFresh,
                   setting, due, up, looped>>

Outage ==
    /\ \E out \in up : Spend(out) /\ up' = up \ {out}
    /\ UNCHANGED <<now, clk, isr, uart, sentences, commit, pulseAt, pc, ppsWasFresh,
                   setting, due, looped>>

Restored ==
    /\ \E out \in Outputs \ up : up' = up \cup {out}
    /\ UNCHANGED <<now, clk, isr, uart, sentences, commit, pulseAt, pc, ppsWasFresh,
                   setting, due, faults, looped>>

\* The menu or the web page stores another policy.
ChangeSetting ==
    /\ Spend("setting")
    /\ setting' \in Settings \ {setting}
    /\ UNCHANGED <<now, clk, isr, uart, sentences, commit, pulseAt, pc, ppsWasFresh,
                   due, up, looped>>

\* The loop has seen all there is to see at this instant.
Settled == pc = "parse" /\ isr.queue = <<>> /\ uart = <<>> /\ looped

Advance ==
    /\ due = "none"
    /\ now + Step <= MaxNow
    /\ IF Settled \/ (pc = "parse" /\ "loop" \notin up) THEN UNCHANGED faults
       ELSE Spend("delay")
    /\ now' = now + Step
    /\ due' = IF now' % Second = 0 THEN "pulse" ELSE "sentences"
    /\ looped' = FALSE
    /\ UNCHANGED <<clk, isr, uart, sentences, commit, pulseAt, pc, ppsWasFresh,
                   setting, up>>

-----------------------------------------------------------------------------
(* The loop of task-time.                                                   *)

\* At most one group of sentences fits the byte budget of a loop.  A sentence
\* is stamped with the time it is parsed, not with the time it was sent.
Parse ==
    /\ pc = "parse"
    /\ "loop" \in up
    /\ pc' = "drain"
    /\ IF uart = <<>> THEN UNCHANGED <<uart, sentences>>
       ELSE LET group == Head(uart)
                heard == [ valid |-> TRUE, epoch |-> group.second, at |-> now ]
            IN /\ uart' = Tail(uart)
               /\ sentences' = [ zda |-> IF group.zda THEN heard ELSE sentences.zda,
                                 rmc |-> IF group.rmc THEN heard ELSE sentences.rmc ]
    /\ UNCHANGED <<now, clk, isr, commit, pulseAt, ppsWasFresh, setting, env, looped>>

\* One edge at a time, each taken under the lock and consumed outside it.
DrainEdge ==
    /\ pc = "drain"
    /\ isr.queue # <<>>
    /\ LET edge == Head(isr.queue)
       IN /\ clk' = OnPpsEdge(clk, edge.edgeUs, edge.count)
          /\ commit' = [commit EXCEPT !.drained = edge.count]
          /\ pulseAt' = edge.edgeUs
    /\ isr' = [isr EXCEPT !.queue = Tail(@)]
    /\ UNCHANGED <<now, uart, sentences, pc, ppsWasFresh, setting, env, looped>>

\* The ring is empty: the status of this loop is read before the commit.
Drained ==
    /\ pc = "drain"
    /\ isr.queue = <<>>
    /\ pc' = "commit"
    /\ ppsWasFresh' = PpsFresh
    /\ UNCHANGED <<now, clk, isr, uart, sentences, commit, pulseAt, setting, env, looped>>

ZdaFresh == sentences.zda.valid /\ now - sentences.zda.at <= GPS_FIX_MAX_AGE_MS

\* The second to commit: a fresh ZDA, else the last RMC however old it is.
SecondHeard == IF ZdaFresh THEN sentences.zda.epoch ELSE sentences.rmc.epoch

\* Fault: the second that was committed last is committed again.
HasSecondAgain == ZdaFresh \/ sentences.rmc.valid

HasSecond == (ZdaFresh \/ sentences.rmc.valid) /\ SecondHeard # commit.second

CommitPpsCount == IF commit.drained # 0 THEN commit.drained ELSE isr.count

CommitNmeaTime ==
    /\ pc = "commit"
    /\ pc' = "tick"
    /\ IF HasSecond
       THEN /\ clk' = OnNmeaCommit(clk, SecondHeard, CommitPpsCount,
                                   setting.policy, setting.holdoverSec, now)
            /\ commit' = [commit EXCEPT !.second = SecondHeard, !.at = now, !.have = TRUE]
       ELSE UNCHANGED <<clk, commit>>
    /\ UNCHANGED <<now, isr, uart, sentences, pulseAt, ppsWasFresh, setting, env, looped>>

NmeaFresh == commit.have /\ now - commit.at <= NmeaFreshFor

TickClock ==
    /\ pc = "tick"
    /\ pc' = "serve"
    /\ clk' = Tick(clk, NmeaFresh, ppsWasFresh, setting.policy, setting.holdoverSec, now)
    /\ UNCHANGED <<now, isr, uart, sentences, commit, pulseAt, ppsWasFresh, setting,
                   env, looped>>

\* gNtp.loop answers from the clock as the tick left it; the loop starts over.
Answer == SendNormal(clk, now, now, PpsFresh)

Serve ==
    /\ pc = "serve"
    /\ pc' = "parse"
    /\ looped' = TRUE
    /\ UNCHANGED <<now, clk, isr, uart, sentences, commit, pulseAt, ppsWasFresh,
                   setting, env>>

TaskTime == Parse \/ DrainEdge \/ Drained \/ CommitNmeaTime \/ TickClock \/ Serve

Next ==
    \/ TaskTime
    \/ Pulse \/ Sentences \/ Glitch \/ Outage \/ Restored \/ ChangeSetting \/ Advance

Spec == Init /\ [][Next]_vars

-----------------------------------------------------------------------------
(* Properties.                                                              *)

Edge == [ edgeUs : Nat, count : Nat ]

\* The seconds that a sentence may name.
Named == 0..(MaxNow \div Second + 2)

Group == [ second : Named, zda : BOOLEAN, rmc : BOOLEAN ]
Heard == [ valid : BOOLEAN, epoch : Named, at : Nat ]

TypeOK ==
    /\ now \in Nat
    /\ clk \in LocalClockObject
    /\ isr \in [ count : Nat, lastEdgeUs : Nat, queue : Seq(Edge) ]
    /\ Len(isr.queue) < GPS_PPS_ISR_QUEUE
    /\ uart \in Seq(Group)
    /\ sentences \in [ zda : Heard, rmc : Heard ]
    /\ commit \in [ second : Named, at : Nat, have : BOOLEAN, drained : Nat ]
    /\ pulseAt \in Nat
    /\ pc \in {"parse", "drain", "commit", "tick", "serve"}
    /\ ppsWasFresh \in BOOLEAN
    /\ setting \in Settings
    /\ due \in {"pulse", "sentences", "none"}
    /\ up \subseteq Outputs
    /\ faults \in 0..MaxFaults
    /\ looped \in BOOLEAN

\* A stratum 1 answer is off by no more than the dispersion sent with it, and
\* its reference time is not ahead of it.
HonestTime ==
    (pc = "serve" /\ Answer.stratum = 1)
        => /\ Abs(Answer.transmit - now) <= Answer.dispersion
           /\ Answer.reference <= Answer.transmit

\* Interrupt, ring, loop and clock agree about the pulses: the ring keeps the
\* newest edge and an unbroken run of counts before it, whatever the interrupt
\* overwrites while the loop is away; and a loop compares a label with the
\* newest pulse it drained, never with one that came while it was draining.
PulseCountsAgree ==
    /\ \A i \in 1..Len(isr.queue) :
         /\ isr.queue[i].count = isr.count - (Len(isr.queue) - i)
         /\ isr.queue[Len(isr.queue)].edgeUs = isr.lastEdgeUs
    /\ pc \in {"commit", "tick"} => clk.lastPpsCount = commit.drained

\* The clock sees nothing but what LocalClock allows its caller.
LC == INSTANCE LocalClock WITH
    committed <- commit.second,
    Labels <- Named,
    HoldoverSecs <- { s.holdoverSec : s \in Settings },
    DeliveryLags <- { k * Step : k \in 0..(MaxNow \div Step) },
    PulseGaps <- 1..(MaxNow \div Step),
    TimeSteps <- {Step}

ImplementsLocalClock == LC!Spec
=============================================================================
