---------------------------- MODULE MCClockTrace ----------------------------
(***************************************************************************)
(* ClockTrace on a small instance, with two facts of its past.              *)
(***************************************************************************)
EXTENDS ClockTrace

VARIABLES
    alone,      \* nobody has started or cleared since the fetch began
    missed      \* the loops of task-time the recording was left out of

mcvars == <<trace, now, second, edges, due, taking, xfer, uploading, client, starts,
            alone, missed>>

MCSteps == {400, 1000}

MCInit == Init /\ alone = TRUE /\ missed = {}

Begins == client.at \notin {"paging", "reading"} /\ client'.at \in {"paging", "reading"}
Disturbs == trace.state # trace'.state /\ trace.state # "REC"

\* A loop is over and the next one comes, and task-time was shed in it.
LeftOut == due /\ now' # now /\ trace.state = "REC"

MCNext ==
    /\ Next
    /\ alone' = IF Begins THEN TRUE ELSE alone /\ ~Disturbs
    /\ missed' = IF trace'.count = 0 THEN {}
                 ELSE IF LeftOut THEN missed \cup {now} ELSE missed

MCSpec == MCInit /\ [][MCNext]_mcvars

-----------------------------------------------------------------------------

\* A fetch that nobody disturbs gets the whole recording, each sample once and
\* in order, in one response or in pages; it is never cut short.
FetchIsWhole ==
    alone => /\ client.at # "failed"
             /\ client.at = "done" => client.rows = Kept

\* No loop between two moments was left out.
Watched(from, to) == \A t \in missed : ~(from < t /\ t < to)

\* Whether pulses come, stop or come back, and however the loop of task-time
\* lies to them, the ring holds one or two samples of each second: no three of
\* its samples are within one, and from each sample to the next, and from the
\* last one to now, it is a second and a loop at most, unless an upload kept
\* task-time from looking meanwhile.
OneOrTwoEachSecond ==
    /\ \A i \in 1..(trace.count - 2) : Kept[i + 2].up - Kept[i].up >= Second
    /\ \A i \in 1..(trace.count - 1) :
         Watched(Kept[i].up, Kept[i + 1].up)
           => Kept[i + 1].up - Kept[i].up < Second + LongestStep
    /\ trace.state = "REC" /\ trace.count > 0 /\ Watched(Kept[trace.count].up, now)
         => now - Kept[trace.count].up < Second + LongestStep
=============================================================================
