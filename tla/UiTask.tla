------------------------------- MODULE UiTask -------------------------------
(***************************************************************************)
(* taskUi (main.cpp): each round watches the heartbeats of the other tasks  *)
(* (StatusLeds), samples the encoder (Encoder), takes what task-net has     *)
(* sent and acts on the input (DisplayUi); an upload leaves out all but the *)
(* first.  Around it: the user, task-net with its scans and uploads, tasks  *)
(* that hang, and time.                                                     *)
(*                                                                          *)
(* What happens to the pins within a round is sampled in the next, but for  *)
(* an interrupt of the other core amid the sampling (ESP32-S3); and what    *)
(* task-net does before the queue is drained is as good as at the drain; so *)
(* the user moves while task-ui sleeps, and task-net while it drains or     *)
(* handles the input.                                                       *)
(***************************************************************************)
EXTENDS DisplayUi, StatusLeds

CONSTANT Plays   \* bounds: how often each event may happen, and items of the menu

Play == [ right : Nat, left : Nat, press : Nat, text : Nat, dark : Nat, weeks : Nat,
          upload : Nat, hang : Nat, race : Nat, items : SUBSET MenuItems ]

ASSUME PlaysAssumption == Plays \subseteq Play

VARIABLES
    pc,      \* the point of the round, or the reason why the device restarts
    budget   \* what is left of the bounds

uiTaskVars == <<encVars, uiVars, ledVars, pc, budget>>

Points == {"watch", "encode", "drain", "input", "sleep"}
Restarts == {"panic restart", "menu restart", "ota restart"}

TypeOK ==
    /\ EncTypeOK /\ UiTypeOK /\ LedsTypeOK
    /\ pc \in Points \cup Restarts
    /\ budget \in Play

Init ==
    /\ EncInit /\ UiInit /\ LedsInit
    /\ pc = "sleep"
    /\ budget \in Plays

Spend(event) == budget[event] > 0 /\ budget' = [budget EXCEPT ![event] = @ - 1]

OnlyEnc == UNCHANGED <<uiVars, ledVars, pc>>
OnlyUi == UNCHANGED <<encVars, ledVars, pc>>
OnlyLeds == UNCHANGED <<encVars, uiVars, pc>>

-----------------------------------------------------------------------------
(* A round of taskUi.                                                       *)

At(point, next) == pc = point /\ pc' = next

\* The rest between two rounds; the next one kicks and reads millis at once.
Sleep ==
    /\ At("sleep", "watch") /\ LedsTick
    /\ UNCHANGED <<encVars, uiVars, budget>>

Watch ==
    /\ At("watch", "encode") /\ WatchTasks
    /\ UNCHANGED <<encVars, uiVars, budget>>

Panic ==
    /\ At("watch", "panic restart") /\ PanicRestart
    /\ UNCHANGED <<encVars, uiVars, budget>>

SampleEncoder ==
    /\ At("encode", "drain") /\ ~OtaBusy /\ EncLoop
    /\ UNCHANGED <<uiVars, ledVars, budget>>

\* With two cores, an interrupt amid the sampling.
SampleAmidTurn ==
    /\ At("encode", "drain") /\ ~OtaBusy
    /\ \/ StraddledLoop(1) /\ Spend("right")
       \/ StraddledLoop(-1) /\ Spend("left")
       \/ StraddledLoop(0) /\ UNCHANGED budget
    /\ UNCHANGED <<uiVars, ledVars>>

SkipInput ==
    /\ At("encode", "sleep") /\ OtaBusy
    /\ UNCHANGED <<encVars, uiVars, ledVars, budget>>

Drain ==
    /\ pc = "drain" /\ TakeUiMessage
    /\ OnlyUi /\ UNCHANGED budget

LookAtScan ==
    /\ At("drain", "input") /\ CheckScan
    /\ UNCHANGED <<encVars, ledVars, budget>>

Act ==
    /\ At("input", "sleep") /\ HandleInput(budget.items) /\ Consume
    /\ UNCHANGED <<ledVars, budget>>

RestartFromMenu ==
    /\ At("input", "menu restart") /\ PickRestart(budget.items) /\ Consume
    /\ UNCHANGED <<ledVars, budget>>

Round ==
    \/ Sleep \/ Watch \/ Panic \/ SampleEncoder \/ SkipInput
    \/ Drain \/ LookAtScan \/ Act \/ RestartFromMenu

-----------------------------------------------------------------------------
(* The user.                                                                *)

User ==
    /\ pc = "sleep" /\ OnlyEnc
    /\ \/ TurnRight /\ Spend("right")
       \/ TurnLeft /\ Spend("left")
       \/ PressButton /\ Spend("press")
       \/ (LateInterrupt \/ ReleaseButton) /\ UNCHANGED budget

-----------------------------------------------------------------------------
(* task-net, and the scheduling of the other tasks.                         *)

Net ==
    /\ pc \in {"drain", "input"} /\ OnlyUi
    /\ "net" \notin hung /\ ~OtaBusy
    /\ \/ (TakeNetRequest \/ NotifyScan \/ FailScan) /\ UNCHANGED budget
       \/ PostText /\ Spend("text")

Upload ==
    /\ pc \in {"sleep", "encode"} /\ OnlyLeds
    /\ "net" \notin hung
    /\ \/ OtaBegins /\ Spend("upload")
       \/ OtaEnds /\ UNCHANGED budget
    /\ UNCHANGED <<kick, panic, hung>>

UploadRestart ==
    /\ "net" \notin hung /\ ota.phase = "Rebooting"
    /\ At("sleep", "ota restart")
    /\ UNCHANGED <<encVars, uiVars, ledVars, budget>>

Others ==
    /\ OnlyLeds
    /\ \E t \in Task :
         \/ pc = "sleep" /\ Hang(t) /\ Spend("hang")
         \/ pc = "sleep" /\ Recover(t) /\ UNCHANGED budget
         \/ pc = "watch" /\ KickAhead(t) /\ Spend("race")

-----------------------------------------------------------------------------
(* Time.                                                                    *)

ScanTimer ==
    /\ pc \notin Restarts /\ ScanTimesOut
    /\ UNCHANGED <<netReq, uiMsg, scan, job>>
    /\ OnlyUi /\ UNCHANGED budget

Wraps == emit = "past" /\ emit' = "wrapped"

Time ==
    /\ pc = "sleep"
    /\ \/ EncTime /\ OnlyEnc /\ (IF Wraps THEN Spend("weeks") ELSE UNCHANGED budget)
       \/ MessageIsOver /\ OnlyUi /\ UNCHANGED budget
       \/ IdlesOut /\ OnlyUi /\ Spend("dark")

Next == Round \/ SampleAmidTurn \/ User \/ Net \/ Upload \/ UploadRestart \/ Others \/ ScanTimer \/ Time

\* task-ui goes round (the hardware watchdog bites if it does not), and the
\* time of a scan runs out.  The user and the other tasks may do nothing.
Fairness == WF_uiTaskVars(Round) /\ WF_uiTaskVars(ScanTimer)

Spec == Init /\ [][Next]_uiTaskVars /\ Fairness

-----------------------------------------------------------------------------

\* "Scanning..." ends: by an answer, by the user, or by itself, whatever is lost
\* in full queues and whether or not the panel is lit; an upload only delays it.
ScanDialogEnds ==
    ui.scanPending ~> (~ui.scanPending \/ OtaBusy \/ pc \in Restarts)

\* A task that hangs for good has the device restarted, unless an upload is
\* shown, the image is not confirmed yet, or some task has never run at all.
StuckTaskRestarts ==
    \A t \in Task :
        <>[](t \in hung) =>
            \/ <>(pc \in Restarts)
            \/ []<>(ota.phase # "Idle" \/ ota.verify \/ \E u \in Task : kick[u] = Never)
=============================================================================
