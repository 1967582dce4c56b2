------------------------------ MODULE MCUiTask ------------------------------
(***************************************************************************)
(* UiTask on a small instance, with a count of the looks at the heartbeats  *)
(* that found a task late in earnest.  A play is an evening with one kind   *)
(* of trouble.                                                              *)
(***************************************************************************)
EXTENDS UiTask

VARIABLE late    \* looks in a row that found a task late, races not counted

MaxRaces == 1

Quiet == [ right |-> 0, left |-> 0, press |-> 0, text |-> 0, dark |-> 0, weeks |-> 0,
           upload |-> 0, hang |-> 0, race |-> 0, items |-> {} ]

MCPlays == {
    [Quiet EXCEPT !.right = 4, !.left = 2, !.weeks = 1],
    [Quiet EXCEPT !.right = 1, !.left = 5],
    [Quiet EXCEPT !.press = 3, !.dark = 1, !.items = MenuItems],
    [Quiet EXCEPT !.right = 2, !.press = 4, !.items = {"WifiScan"}],
    [Quiet EXCEPT !.press = 2, !.dark = 1, !.text = 2, !.items = {"WifiScan"}],
    [Quiet EXCEPT !.press = 2, !.upload = 1, !.items = {"WifiScan"}],
    [Quiet EXCEPT !.hang = 2, !.race = MaxRaces, !.upload = 1] }

ASSUME RacesAssumption == \A play \in Plays : play.race <= MaxRaces

\* A new image only matters to the LEDs.
MCInit == Init /\ late = 0 /\ (budget.hang = 0 => ~ota.verify)

\* A task whose last heartbeat is truly too old, and that the LEDs judge.
Late == ota.phase = "Idle" /\ ~ota.verify /\ \E t \in Task : kick[t] > LED_TASK_STALE_MS

Spoilt == ota.phase = "Idle" /\ TasksStale /\ ~Late

MCNext ==
    /\ Next
    /\ late' = IF pc # "watch" \/ pc' = "watch" \/ Spoilt THEN late
               ELSE IF ~Late THEN 0
               ELSE IF late > LED_TASK_PANIC_RESTART_MS THEN late ELSE late + 1

mcVars == <<uiTaskVars, late>>

MCSpec == MCInit /\ [][MCNext]_mcVars /\ Fairness

\* The LEDs restart the device only when every look of the panic period found a
\* task late, but for the looks that a newer heartbeat may have spoilt: an old
\* panic, a new image or an upload does not add to it.
RestartIsDeserved == pc = "panic restart" => late + MaxRaces > LED_TASK_PANIC_RESTART_MS
=============================================================================
