---------------------------- MODULE MCGpsService ----------------------------
(***************************************************************************)
(* GpsService on a small instance, with three facts of its past.              *)
(***************************************************************************)
EXTENDS GpsService

VARIABLES
    calmSince,   \* when the last disturbance was seen
    earned,      \* the clock has been Locked since it last served nothing
    shed         \* the loop has been left out

mcvars == <<now, clk, isr, uart, sentences, commit, pulseAt, pc, ppsWasFresh,
            setting, due, up, faults, looped, calmSince, earned, shed>>

MCRefuse == { [ policy |-> "Refuse", holdoverSec |-> 0 ] }
MCHold == { [ policy |-> "Hold", holdoverSec |-> 2 ] }
MCBoth == MCRefuse \cup MCHold

MCInit == Init /\ calmSince = now /\ earned = FALSE /\ shed = FALSE

Sheds == "loop" \in up \ up'

\* An outage of the loop comes alone: what it leaves in the queues and another
\* fault can together label every pulse with the second before.
MCNext ==
    /\ Next
    /\ calmSince' = IF faults' # faults \/ up' # Outputs THEN now' ELSE calmSince
    /\ faults' # faults => ~shed
    /\ Sheds => faults = MaxFaults
    /\ shed' = (shed \/ Sheds)
    /\ earned' = (Serving(clk') /\ (earned \/ clk'.state = "Locked"))

MCSpec == MCInit /\ [][MCNext]_mcvars

\* The time that is served is honest whatever has gone wrong since the clock was
\* locked: its anchor survives an outage, a late loop or a wrong label.  With the
\* policy Refuse the same is true of a clock that was only acquired.
ServedTimeIsHonest == earned \/ setting.policy = "Refuse" => HonestTime

\* The longest way back: a holdover that must run out, then two pulses for a
\* stable stream and CLK_RELOCK_COUNT labels.
WayBack == (setting.holdoverSec + CLK_RELOCK_COUNT + 3) * Second

\* Once the receiver and the scheduler behave, the clock locks on the true
\* second within WayBack, whatever state the disturbance has left it in.
RelocksInTime ==
    (pc = "serve" /\ now - calmSince >= WayBack)
        => clk.state = "Locked" /\ Answer.transmit = now
=============================================================================
