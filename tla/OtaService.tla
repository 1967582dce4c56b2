----------------------------- MODULE OtaService -----------------------------
(***************************************************************************)
(* ota_service.cpp and the upload handlers of web_portal.cpp: one update of *)
(* the firmware at a time, from the first byte of the form to the restart,  *)
(* and the confirmation of the image that was started.                      *)
(*                                                                          *)
(* The web server calls the handlers: START, WRITE per buffer, then END and *)
(* the done handler, or ABORTED when the connection is lost.  The power may *)
(* fail, or a watchdog bite, between any two of them.  External: the web    *)
(* server, the Update library, and the boot loader, which starts an image   *)
(* that is new once and goes back if it was not confirmed.                  *)
(*                                                                          *)
(* Abstracted: an image is its kind; the bytes of the header are complete   *)
(* after one or two buffers; times are counted down.                        *)
(***************************************************************************)
EXTENDS Integers

CONSTANTS
    Uploads,                     \* kinds of image that are uploaded
    FirstImages,                 \* kinds of image in the other slot at first
    Buffers,                     \* buffers of a whole image
    OTA_FAIL_LED_MS, OTA_MARK_VALID_AFTER_MS    \* in ticks

ASSUME OtaAssumption ==
    /\ Buffers \in Nat \ {0}
    /\ OTA_FAIL_LED_MS \in Nat \ {0} /\ OTA_MARK_VALID_AFTER_MS \in Nat \ {0}

VARIABLES
    ota,        \* the object, and what it publishes in gIpc
    upload,     \* the request task-net is in, as the web server sees it
    slots,      \* the two partitions: image and state
    boot,       \* the partition chosen for the next start
    running,    \* the one that was started
    alive,      \* whether every task has kicked since the start
    uptime      \* since the start, up to OTA_MARK_VALID_AFTER_MS

vars == <<ota, upload, slots, boot, running, alive, uptime>>

Slots == {"ota_0", "ota_1"}
Other(slot) == CHOOSE s \in Slots : s # slot

\* "dying" runs its tasks and crashes soon after; "stillborn" never gets there.
Whole == {"good", "dying", "stillborn"}

\* What is sent may be the wrong file, or not all of it, or damaged.  The image
\* beside the first one was confirmed, or is not an image any more.
ASSUME ImagesAssumption ==
    /\ Uploads \subseteq Whole \cup {"foreign", "short", "corrupt"}
    /\ FirstImages \subseteq {"good", "partial"}

\* Fault: always the second partition, even when it runs.
SecondSlot == "ota_1"

\* esp_ota_get_next_update_partition
NextSlot == Other(running)

Idle ==
    [ phase |-> "Idle", otaBusy |-> FALSE, sessionActive |-> FALSE, headerChecked |-> FALSE,
      success |-> FALSE, prioBoosted |-> FALSE, linger |-> 0, confirmDone |-> FALSE,
      authOk |-> FALSE ]

NoUpload == [ at |-> "off", image |-> "good", got |-> 0 ]

Init ==
    /\ ota = Idle
    /\ upload = NoUpload
    /\ boot = "ota_0" /\ running = "ota_0"
    /\ \E image \in FirstImages :
         slots = [ s \in Slots |-> IF s = "ota_0" THEN [ image |-> "good", state |-> "valid" ]
                                   ELSE [ image |-> image, state |-> "valid" ] ]
    /\ alive = FALSE
    /\ uptime = 0

-----------------------------------------------------------------------------
(* The methods.                                                             *)

Cleared(o) == [Idle EXCEPT !.confirmDone = o.confirmDone, !.authOk = o.authOk]

\* Fault: a failure is shown, but not published as the end of the session.
FailedBusy(o) ==
    [Cleared(o) EXCEPT !.phase = "Failed", !.linger = OTA_FAIL_LED_MS, !.otaBusy = o.otaBusy]

\* The boot partition is left as it is.
Failed(o) == [Cleared(o) EXCEPT !.phase = "Failed", !.linger = OTA_FAIL_LED_MS]

Uploading(o) ==
    [Cleared(o) EXCEPT !.phase = "Uploading", !.otaBusy = TRUE, !.sessionActive = TRUE,
                       !.prioBoosted = TRUE]

Rebooting(o) ==
    [o EXCEPT !.phase = "Rebooting", !.otaBusy = TRUE, !.sessionActive = FALSE, !.success = TRUE]

Device == <<slots, boot, running, alive, uptime>>

-----------------------------------------------------------------------------
(* The handlers of one upload.                                              *)

\* There is no partition, or Update does not begin; or it does.
BeginSession == { Failed(ota), Uploading(ota) }

\* Whatever the session was, it is cleared.  Without a login or without a
\* session the connection is stopped.
UploadStart(image) ==
    /\ upload.at = "off"
    /\ \/ /\ ota' = [Cleared(ota) EXCEPT !.authOk = FALSE]
          /\ upload' = [NoUpload EXCEPT !.at = "stopped"]
       \/ \E o \in BeginSession :
            /\ ota' = [o EXCEPT !.authOk = o.sessionActive]
            /\ upload' = [NoUpload EXCEPT !.at = IF o.sessionActive THEN "body" ELSE "stopped",
                                         !.image = image]
    /\ UNCHANGED Device

\* A buffer too short for the header is kept; then the header is checked, and
\* what is written makes the partition no image any more.
UploadWrite ==
    /\ upload.at = "body"
    /\ upload.got < Buffers
    /\ \/ /\ ~ota.headerChecked
          /\ UNCHANGED <<ota, slots>>
          /\ upload' = [upload EXCEPT !.got = @ + 1]
       \/ /\ ~ota.headerChecked
          /\ upload.image = "foreign"
          /\ ota' = Failed(ota)
          /\ upload' = [upload EXCEPT !.at = "stopped"]
          /\ UNCHANGED slots
       \/ /\ ota.headerChecked \/ upload.image # "foreign"
          /\ slots' = [slots EXCEPT ![NextSlot].image = "partial"]
          /\ \/ /\ ota' = [ota EXCEPT !.headerChecked = TRUE]
                /\ upload' = [upload EXCEPT !.got = @ + 1]
             \/ /\ ota' = Failed(ota)
                /\ upload' = [upload EXCEPT !.at = "stopped"]
    /\ UNCHANGED <<boot, running, alive, uptime>>

\* Update.end looks at the length only, and chooses the new partition.
UploadEnd ==
    /\ upload.at \in {"body", "stopped"}
    /\ \/ /\ ~ota.sessionActive
          /\ ota' = IF ~ota.authOk \/ ota.phase = "Failed" THEN ota ELSE Failed(ota)
          /\ upload' = [upload EXCEPT !.at = "ended"]
          /\ UNCHANGED <<slots, boot>>
       \/ /\ ota.sessionActive
          /\ ota' = Failed(ota)
          /\ upload' = [upload EXCEPT !.at = "ended"]
          /\ UNCHANGED <<slots, boot>>
       \/ /\ ota.sessionActive /\ ota.headerChecked
          /\ upload.image # "short" /\ upload.got = Buffers
          /\ upload' = [upload EXCEPT !.at = "verifying"]
          /\ slots' = [slots EXCEPT ![NextSlot] = [ image |-> upload.image, state |-> "new" ]]
          /\ boot' = NextSlot
          /\ UNCHANGED ota
    /\ UNCHANGED <<running, alive, uptime>>

\* Fault: the checksum is not looked at.
VerifyBlind ==
    /\ upload.at = "verifying"
    /\ upload' = [upload EXCEPT !.at = "ended"]
    /\ ota' = Rebooting(ota)
    /\ UNCHANGED Device

\* Fault: a failure is shown, and the new partition stays chosen.
VerifyKeepingBoot ==
    /\ upload.at = "verifying"
    /\ upload' = [upload EXCEPT !.at = "ended"]
    /\ ota' = IF upload.image \in Whole THEN Rebooting(ota) ELSE Failed(ota)
    /\ UNCHANGED Device

\* The check of the whole image.  To choose the running one again makes it new
\* for the boot loader.
Verify ==
    /\ upload.at = "verifying"
    /\ upload' = [upload EXCEPT !.at = "ended"]
    /\ IF upload.image \in Whole
       THEN /\ ota' = Rebooting(ota)
            /\ UNCHANGED <<slots, boot>>
       ELSE /\ ota' = Failed(ota)
            /\ boot' = running
            /\ slots' = [slots EXCEPT ![running].state = "new"]
    /\ UNCHANGED <<running, alive, uptime>>

\* The connection is lost in the body.
UploadAborted ==
    /\ upload.at \in {"body", "stopped"}
    /\ ota' = Failed(ota)
    /\ upload' = NoUpload
    /\ UNCHANGED Device

Booted(t) ==
    /\ running' = t.slot
    /\ boot' = t.slot
    /\ slots' = t.slots
    /\ ota' = Idle
    /\ upload' = NoUpload
    /\ alive' = FALSE
    /\ uptime' = 0

\* What the boot loader starts: the chosen partition, unless it was started
\* before and not confirmed, or is not whole; then the other one.
BootChoice ==
    LET aged == [slots EXCEPT ![boot].state = IF @ = "pending" THEN "aborted" ELSE @]
        fit(s) == aged[s].image \in Whole /\ aged[s].state # "aborted"
        slot == IF fit(boot) THEN boot ELSE IF fit(Other(boot)) THEN Other(boot)
                ELSE CHOOSE s \in Slots : aged[s].image \in Whole
    IN [ slot |-> slot,
         slots |-> [aged EXCEPT ![slot].state = IF @ = "new" THEN "pending" ELSE @] ]

\* The done handler: the device restarts after a success.  A form without a file
\* comes here at once.
UploadDone ==
    /\ upload.at \in {"off", "ended"}
    /\ IF ota.authOk /\ ota.success
       THEN Booted(BootChoice)
       ELSE /\ LET o == IF ota.authOk /\ ota.phase # "Failed" THEN Failed(ota) ELSE ota
               IN  ota' = [o EXCEPT !.authOk = FALSE]
            /\ upload' = NoUpload
            /\ UNCHANGED Device

-----------------------------------------------------------------------------
(* The rest of task-net, the other tasks, time.                             *)

LingerOver == ota.phase = "Failed" /\ ota.linger = 0

\* Fault: the time since the start is not looked at.
MayConfirmAtOnce == ~ota.confirmDone /\ ~ota.otaBusy /\ alive

MayConfirm == ~ota.confirmDone /\ ~ota.otaBusy /\ uptime = OTA_MARK_VALID_AFTER_MS /\ alive

Poll ==
    /\ upload.at = "off"
    /\ LingerOver \/ MayConfirm
    /\ ota' = [ota EXCEPT !.phase = IF LingerOver THEN "Idle" ELSE @,
                          !.confirmDone = @ \/ MayConfirm]
    /\ slots' = IF MayConfirm /\ slots[running].state = "pending"
                THEN [slots EXCEPT ![running].state = "valid"] ELSE slots
    /\ UNCHANGED <<upload, boot, running, alive, uptime>>

TasksRun ==
    /\ ~alive
    /\ slots[running].image # "stillborn"
    /\ alive' = TRUE
    /\ UNCHANGED <<ota, upload, slots, boot, running, uptime>>

Tick ==
    /\ uptime < OTA_MARK_VALID_AFTER_MS \/ ota.linger > 0
    /\ slots[running].image = "dying" => uptime + 1 < OTA_MARK_VALID_AFTER_MS
    /\ uptime' = IF uptime < OTA_MARK_VALID_AFTER_MS THEN uptime + 1 ELSE uptime
    /\ ota' = [ota EXCEPT !.linger = IF @ > 0 THEN @ - 1 ELSE 0]
    /\ UNCHANGED <<upload, slots, boot, running, alive>>

\* The power fails, an image crashes, or a watchdog bites.
Restart == Booted(BootChoice)

Next ==
    \/ \E image \in Uploads : UploadStart(image)
    \/ UploadWrite \/ UploadEnd \/ Verify \/ UploadAborted \/ UploadDone
    \/ Poll \/ TasksRun \/ Tick \/ Restart

\* The web server calls a handler for all that the peer sends, and gives up on
\* a peer that sends nothing.
Served == upload.at # "off" /\ (UploadWrite \/ UploadEnd \/ Verify \/ UploadAborted \/ UploadDone)

Fairness == WF_vars(Served) /\ WF_vars(Poll) /\ WF_vars(Tick)

Spec == Init /\ [][Next]_vars /\ Fairness

-----------------------------------------------------------------------------
(* Properties.                                                              *)

OtaRecord ==
    [ phase : {"Idle", "Uploading", "Rebooting", "Failed"}, otaBusy : BOOLEAN,
      sessionActive : BOOLEAN, headerChecked : BOOLEAN, success : BOOLEAN,
      prioBoosted : BOOLEAN, linger : 0..OTA_FAIL_LED_MS, confirmDone : BOOLEAN,
      authOk : BOOLEAN ]

UploadRecord ==
    [ at : {"off", "body", "stopped", "verifying", "ended"},
      image : Whole \cup {"foreign", "short", "corrupt"}, got : 0..Buffers ]

SlotRecord ==
    [ image : Whole \cup {"partial", "corrupt"}, state : {"new", "pending", "valid", "aborted"} ]

\* Types; the image that runs is one that can, and no partition takes an image
\* whose header is not of this chip.
TypeOK ==
    /\ ota \in OtaRecord /\ upload \in UploadRecord /\ slots \in [Slots -> SlotRecord]
    /\ slots[running].image \in Whole
    /\ boot \in Slots /\ running \in Slots
    /\ alive \in BOOLEAN /\ uptime \in 0..OTA_MARK_VALID_AFTER_MS

\* What the other tasks go by agrees with the session: NTP is refused and the
\* priorities are turned round as long as there is an upload or a restart to
\* come, and no longer; between requests there is neither.
SessionAgrees ==
    /\ ota.otaBusy <=> ota.phase \in {"Uploading", "Rebooting"}
    /\ ota.prioBoosted <=> ota.otaBusy
    /\ ota.sessionActive <=> ota.phase = "Uploading"
    /\ ota.success <=> ota.phase = "Rebooting"
    /\ upload.at \in {"off", "stopped"} => ~ota.otaBusy

\* Outside the verification the partition chosen for the next start is whole, and
\* the boot loader finds a whole one in any case; a failed request leaves the
\* running one chosen; and only a good image is ever confirmed.  An image on
\* probation need not have another to go back to: a second upload erases it.
BootIsSafe ==
    /\ upload.at # "verifying" => slots[boot].image \in Whole
    /\ BootChoice.slots[BootChoice.slot].image \in Whole
    /\ ota.phase = "Failed" => boot = running
    /\ slots[running].state = "valid" => slots[running].image = "good"

\* NTP is not refused for ever: each upload ends or the device restarts.
UploadsEnd == ota.otaBusy ~> ~ota.otaBusy
=============================================================================
