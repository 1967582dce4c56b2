----------------------------- MODULE StatusLeds -----------------------------
(***************************************************************************)
(* status_leds.cpp: task-ui watches the heartbeats of the other tasks in    *)
(* AppIpc, shows a panic when one is stale, and restarts the device when it *)
(* stays so.  The patterns of the LEDs are left out.                        *)
(*                                                                          *)
(* A heartbeat is its age in rounds of task-ui (a round here is one in which*)
(* the LEDs are due, 20 ms or more).  loop reads millis first and the       *)
(* heartbeats afterwards: one that is kicked in between is Ahead of now,    *)
(* and the unsigned difference is huge.  task-ui kicks its own just before, *)
(* so it is never stale here and not modelled.                              *)
(***************************************************************************)
EXTENDS Integers

CONSTANTS
    Task,                                         \* the other tasks
    LED_TASK_STALE_MS, LED_TASK_PANIC_RESTART_MS  \* in rounds

ASSUME LedsAssumption ==
    LED_TASK_STALE_MS \in Nat /\ LED_TASK_PANIC_RESTART_MS \in Nat \ {0}

VARIABLES
    kick,      \* age of kickTimeMs and kickNetMs
    panic,     \* age of panicSinceMs_
    hung,      \* the tasks that do not run
    ota        \* the phase OtaService publishes, and ipcOtaPendingVerify

ledVars == <<kick, panic, hung, ota>>

Never == -1       \* the stamp is still 0
Ahead == -2

OtaPhases == {"Idle", "Uploading", "Rebooting", "Failed"}

LedsTypeOK ==
    /\ kick \in [Task -> {Never, Ahead} \cup 0..(LED_TASK_STALE_MS + 1)]
    /\ panic \in {Never} \cup 0..LED_TASK_PANIC_RESTART_MS
    /\ hung \subseteq Task
    /\ ota \in [ phase : OtaPhases, verify : BOOLEAN ]

LedsInit ==
    /\ kick = [ t \in Task |-> Never ]
    /\ panic = Never
    /\ hung = {}
    /\ \E verify \in BOOLEAN : ota = [ phase |-> "Idle", verify |-> verify ]

OtaBusy == ota.phase \in {"Uploading", "Rebooting"}

-----------------------------------------------------------------------------
(* task-ui.                                                                 *)

\* The look at the heartbeats is over; from now on they are in the past.
Settle == kick' = [ t \in Task |-> IF kick[t] = Ahead THEN 0 ELSE kick[t] ]

Aged(t) == kick[t] = Ahead \/ kick[t] > LED_TASK_STALE_MS

\* tasksStale
TasksStale ==
    /\ ~OtaBusy /\ ~ota.verify
    /\ \A t \in Task : kick[t] # Never
    /\ \E t \in Task : Aged(t)

Expired == panic >= LED_TASK_PANIC_RESTART_MS

\* Fault: a device that has recovered keeps the time at which it was stale.
PanicKept == panic

\* panicSinceMs_ = 0
NoPanic == Never

\* Fault: the panic is dated anew at every look.
PanicAgain == 0

\* panicSinceMs_ is set by the first look that finds a stale task.
PanicSince == IF panic = Never THEN 0 ELSE panic

\* StatusLeds::loop, short of the restart.
WatchTasks ==
    /\ ~(ota.phase = "Idle" /\ TasksStale /\ Expired)
    /\ panic' = IF ota.phase # "Idle" THEN Never
                ELSE IF ~TasksStale THEN NoPanic
                ELSE PanicSince
    /\ Settle
    /\ UNCHANGED <<hung, ota>>

\* ESP.restart
PanicRestart ==
    /\ ota.phase = "Idle" /\ TasksStale /\ Expired
    /\ UNCHANGED ledVars

\* A round passes: the tasks that run kick in it.
LedsTick ==
    /\ kick' = [ t \in Task |->
                   IF t \notin hung THEN 0
                   ELSE IF kick[t] \in 0..LED_TASK_STALE_MS THEN kick[t] + 1
                   ELSE kick[t] ]
    /\ panic' = IF panic # Never /\ ~Expired THEN panic + 1 ELSE panic
    /\ UNCHANGED <<hung, ota>>

-----------------------------------------------------------------------------
(* The other tasks.                                                         *)

\* Between the reading of millis and that of the heartbeat.
KickAhead(t) ==
    /\ t \notin hung /\ kick[t] # Ahead
    /\ kick' = [kick EXCEPT ![t] = Ahead]
    /\ UNCHANGED <<panic, hung, ota>>

Hang(t) ==
    /\ t \notin hung /\ hung' = hung \cup {t}
    /\ UNCHANGED <<kick, panic, ota>>

Recover(t) ==
    /\ t \in hung /\ hung' = hung \ {t}
    /\ UNCHANGED <<kick, panic, ota>>

\* What OtaService publishes, from task-net.
OtaBegins == ota.phase = "Idle" /\ ota' = [ota EXCEPT !.phase = "Uploading"]
OtaEnds ==
    \/ ota.phase = "Uploading" /\ \E p \in {"Rebooting", "Failed"} : ota' = [ota EXCEPT !.phase = p]
    \/ ota.phase = "Failed" /\ ota' = [ota EXCEPT !.phase = "Idle"]
    \/ /\ ota.verify /\ ~OtaBusy /\ \A t \in Task : kick[t] # Never
       /\ ota' = [ota EXCEPT !.verify = FALSE]
=============================================================================
