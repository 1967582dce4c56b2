--------------------------- MODULE TaskNetProofs ---------------------------
(***************************************************************************)
(* Machine-checked, of the two things task-net does.                        *)
(*                                                                          *)
(* OtaService: what the session publishes agrees with the session, and a    *)
(* device that can run stays one that can, for every set of images that     *)
(* are uploaded, every length of an image and every linger and probation,   *)
(* with the power failing at any step.  BootIsSafe is not inductive: that   *)
(* an image is confirmed only when it has run long enough needs the image   *)
(* that runs to be none that crashes before (OnProbation), and that a       *)
(* failed request leaves the running partition chosen needs to know where   *)
(* in a request the other one may be (ByRequest).                           *)
(*                                                                          *)
(* WifiNet: for every set of networks, every request and every timeout,     *)
(* task-net believes of a join, a scan, a probe and the portal what is so.  *)
(* The proof goes method by method: Keeps says what a method of task-net    *)
(* may make of the device, and is transitive, so a handler that calls       *)
(* others keeps what they keep.  WifiTypeOK is not inductive: a link that   *)
(* is adopted arms nothing unknown only because nobody has joined a network *)
(* without knowing it (Known).  A join that is polled stays so only because *)
(* no scan has taken its radio (Polled), and what happens to it when one    *)
(* has is Held.  That no portal opens by itself rests on every schedule     *)
(* being for a lost link, and on the boot join having a network (Patient).  *)
(***************************************************************************)
EXTENDS WifiNet, OtaService, TLAPS

-----------------------------------------------------------------------------
(* The upload.                                                              *)


\* Where the request is and what the session is agree.
ByRequest ==
    /\ ota.phase = "Uploading" <=> upload.at \in {"body", "verifying"}
    /\ ota.phase = "Rebooting" => upload.at = "ended"
    /\ ota.otaBusy => ota.authOk
    /\ ota.sessionActive /\ ota.headerChecked => upload.image # "foreign"
    /\ upload.at = "verifying" => upload.image \notin {"foreign", "short"}

\* The other partition is chosen from the end of the data to the verdict, and
\* after that only if it was found whole.
Chosen ==
    /\ boot # running => upload.at = "verifying" \/ ota.phase = "Rebooting"
    /\ upload.at = "verifying" => slots[boot].image = upload.image
    /\ ota.phase = "Rebooting" => slots[boot].image \in Whole

\* A whole image that is confirmed is good; one that is not good is not long in
\* the state in which it could be confirmed.
OnProbation ==
    /\ \A s \in Slots : slots[s].state = "valid" /\ slots[s].image \in Whole
                          => slots[s].image = "good"
    /\ slots[running].image = "dying" => uptime < OTA_MARK_VALID_AFTER_MS
    /\ slots[running].image = "stillborn" => ~alive

OtaInductive == TypeOK /\ SessionAgrees /\ ByRequest /\ Chosen /\ OnProbation

-----------------------------------------------------------------------------
(* The operators.                                                           *)

\* There are two partitions.
LEMMA OtherSlot == ASSUME NEW s \in Slots PROVE Other(s) \in Slots /\ Other(s) # s
<1>1. \E t \in Slots : t # s
  BY DEF Slots
<1> QED BY <1>1 DEF Other

\* The methods of the object, on what other tasks read of it.
LEMMA IdleType ==
    /\ Idle \in OtaRecord
    /\ Idle.phase = "Idle" /\ ~Idle.otaBusy /\ ~Idle.sessionActive /\ ~Idle.success
    /\ ~Idle.prioBoosted /\ ~Idle.headerChecked
<1>1. 0 \in 0..OTA_FAIL_LED_MS
  BY OtaAssumption
<1>2. Idle \in OtaRecord
  BY <1>1 DEF Idle, OtaRecord
<1> QED BY <1>2 DEF Idle

LEMMA ClearedType ==
    ASSUME NEW o \in OtaRecord
    PROVE  /\ Cleared(o) \in OtaRecord
           /\ Cleared(o).phase = "Idle" /\ ~Cleared(o).otaBusy /\ ~Cleared(o).sessionActive
           /\ ~Cleared(o).success /\ ~Cleared(o).prioBoosted /\ ~Cleared(o).headerChecked
           /\ Cleared(o).authOk = o.authOk
<1>1. o.confirmDone \in BOOLEAN /\ o.authOk \in BOOLEAN
  BY DEF OtaRecord
<1>2. Cleared(o) \in OtaRecord
  BY <1>1, IdleType, Zenon DEF Cleared, OtaRecord
<1> QED BY <1>2, IdleType DEF Cleared, OtaRecord

LEMMA AuthType ==
    ASSUME NEW o \in OtaRecord, NEW b \in BOOLEAN
    PROVE  LET n == [o EXCEPT !.authOk = b]
           IN  /\ n \in OtaRecord /\ n.authOk = b
               /\ n.phase = o.phase /\ n.otaBusy = o.otaBusy
               /\ n.sessionActive = o.sessionActive /\ n.success = o.success
               /\ n.prioBoosted = o.prioBoosted /\ n.headerChecked = o.headerChecked
<1>1. [o EXCEPT !.authOk = b] \in OtaRecord
  BY Zenon DEF OtaRecord
<1> QED BY <1>1 DEF OtaRecord

LEMMA FailedType ==
    ASSUME NEW o \in OtaRecord
    PROVE  /\ Failed(o) \in OtaRecord
           /\ Failed(o).phase = "Failed" /\ ~Failed(o).otaBusy /\ ~Failed(o).sessionActive
           /\ ~Failed(o).success /\ ~Failed(o).prioBoosted /\ ~Failed(o).headerChecked
           /\ Failed(o).authOk = o.authOk
<1>1. OTA_FAIL_LED_MS \in 0..OTA_FAIL_LED_MS
  BY OtaAssumption
<1>2. Failed(o) \in OtaRecord
  BY <1>1, ClearedType, Zenon DEF Failed, OtaRecord
<1> QED BY <1>2, ClearedType DEF Failed, OtaRecord

LEMMA UploadingType ==
    ASSUME NEW o \in OtaRecord
    PROVE  /\ Uploading(o) \in OtaRecord
           /\ Uploading(o).phase = "Uploading" /\ Uploading(o).otaBusy
           /\ Uploading(o).sessionActive /\ ~Uploading(o).success
           /\ Uploading(o).prioBoosted /\ ~Uploading(o).headerChecked
<1>1. Uploading(o) \in OtaRecord
  BY ClearedType, Zenon DEF Uploading, OtaRecord
<1> QED BY <1>1, ClearedType DEF Uploading, OtaRecord

LEMMA RebootingType ==
    ASSUME NEW o \in OtaRecord
    PROVE  /\ Rebooting(o) \in OtaRecord
           /\ Rebooting(o).phase = "Rebooting" /\ Rebooting(o).otaBusy
           /\ ~Rebooting(o).sessionActive /\ Rebooting(o).success
           /\ Rebooting(o).prioBoosted = o.prioBoosted /\ Rebooting(o).authOk = o.authOk
<1>1. Rebooting(o) \in OtaRecord
  BY Zenon DEF Rebooting, OtaRecord
<1> QED BY <1>1 DEF Rebooting, OtaRecord

\* The boot loader finds a partition to start: the one that ran is whole.  It
\* confirms none, and touches no image.
LEMMA BootChoiceOK ==
    ASSUME slots \in [Slots -> SlotRecord], running \in Slots, boot \in Slots,
           slots[running].image \in Whole
    PROVE  /\ BootChoice.slot \in Slots
           /\ BootChoice.slots \in [Slots -> SlotRecord]
           /\ \A s \in Slots : BootChoice.slots[s].image = slots[s].image
           /\ BootChoice.slots[BootChoice.slot].image \in Whole
           /\ \A s \in Slots : BootChoice.slots[s].state = "valid" => slots[s].state = "valid"
<1> DEFINE aged == [slots EXCEPT ![boot].state = IF @ = "pending" THEN "aborted" ELSE @]
           fit(s) == aged[s].image \in Whole /\ aged[s].state # "aborted"
           slot == IF fit(boot) THEN boot ELSE IF fit(Other(boot)) THEN Other(boot)
                   ELSE CHOOSE s \in Slots : aged[s].image \in Whole
           next == [aged EXCEPT ![slot].state = IF @ = "new" THEN "pending" ELSE @]
<1>1. BootChoice.slot = slot /\ BootChoice.slots = next
  BY DEF BootChoice
<1>2. \A s \in Slots : slots[s].image \in Whole \cup {"partial", "corrupt"}
                       /\ slots[s].state \in {"new", "pending", "valid", "aborted"}
  BY DEF SlotRecord
<1>3. /\ aged \in [Slots -> SlotRecord]
      /\ \A s \in Slots : aged[s].image = slots[s].image
      /\ \A s \in Slots : aged[s].state = "valid" => slots[s].state = "valid"
  BY <1>2 DEF SlotRecord
<1> HIDE DEF aged
<1>4. slot \in Slots /\ aged[slot].image \in Whole
  <2>1. Other(boot) \in Slots
    BY OtherSlot
  <2>2. \E s \in Slots : aged[s].image \in Whole
    BY <1>3
  <2>3. LET c == CHOOSE s \in Slots : aged[s].image \in Whole
        IN  c \in Slots /\ aged[c].image \in Whole
    BY <2>2
  <2> QED BY <2>1, <2>3
<1> HIDE DEF slot
<1>5. \A s \in Slots : aged[s].image \in Whole \cup {"partial", "corrupt"}
                       /\ aged[s].state \in {"new", "pending", "valid", "aborted"}
  BY <1>3 DEF SlotRecord
<1>6. /\ next \in [Slots -> SlotRecord]
      /\ \A s \in Slots : next[s].image = aged[s].image
      /\ \A s \in Slots : next[s].state = "valid" => aged[s].state = "valid"
  BY <1>3, <1>4, <1>5 DEF SlotRecord
<1> QED BY <1>1, <1>3, <1>4, <1>6

-----------------------------------------------------------------------------
(* One step: Init, each action, and BootIsSafe from the invariant.          *)

LEMMA InitOK == Init => OtaInductive
<1> SUFFICES ASSUME Init PROVE OtaInductive
  OBVIOUS
<1>1. ota \in OtaRecord /\ ota = Idle
  BY IdleType DEF Init
<1>2. upload = NoUpload /\ upload \in UploadRecord /\ upload.at = "off"
  BY OtaAssumption DEF Init, NoUpload, UploadRecord, Whole
<1>3. PICK image \in FirstImages :
        slots = [ s \in Slots |-> IF s = "ota_0" THEN [ image |-> "good", state |-> "valid" ]
                                 ELSE [ image |-> image, state |-> "valid" ] ]
  BY DEF Init
<1>4. image \in {"good", "partial"}
  BY ImagesAssumption
<1>5. slots \in [Slots -> SlotRecord]
  BY <1>3, <1>4 DEF SlotRecord, Whole
<1>6. \A s \in Slots : slots[s].image \in Whole => slots[s].image = "good"
  BY <1>3, <1>4 DEF Whole
<1>7. boot = "ota_0" /\ running = "ota_0" /\ "ota_0" \in Slots /\ slots[running].image = "good"
  BY <1>3 DEF Init, Slots
<1>8. TypeOK
  <2>1. alive \in BOOLEAN
    BY DEF Init
  <2>2. uptime \in 0..OTA_MARK_VALID_AFTER_MS
    BY OtaAssumption DEF Init
  <2> QED BY <1>1, <1>2, <1>5, <1>7, <2>1, <2>2 DEF TypeOK, Whole
<1>9. SessionAgrees /\ ByRequest
  BY <1>1, <1>2, IdleType DEF SessionAgrees, ByRequest
<1>10. Chosen /\ OnProbation
  BY <1>1, <1>2, <1>6, <1>7, IdleType DEF Chosen, OnProbation
<1> QED BY <1>8, <1>9, <1>10 DEF OtaInductive

LEMMA StartOK ==
    ASSUME OtaInductive, NEW image \in Uploads, UploadStart(image)
    PROVE  OtaInductive'
<1> USE DEF OtaInductive
<1> DEFINE stopped == [NoUpload EXCEPT !.at = "stopped"]
           body(o) == [NoUpload EXCEPT !.at = IF o.sessionActive THEN "body" ELSE "stopped",
                                       !.image = image]
<1>1. ota \in OtaRecord /\ UNCHANGED Device
  BY DEF TypeOK, UploadStart
<1>2. image \in Whole \cup {"foreign", "short", "corrupt"}
  BY ImagesAssumption
<1>3. stopped \in UploadRecord /\ stopped.at = "stopped"
  BY OtaAssumption DEF NoUpload, UploadRecord, Whole
<1>4. \A o \in OtaRecord : /\ body(o) \in UploadRecord
                           /\ body(o).at = IF o.sessionActive THEN "body" ELSE "stopped"
  <2> SUFFICES ASSUME NEW o \in OtaRecord
               PROVE  /\ body(o) \in UploadRecord
                      /\ body(o).at = IF o.sessionActive THEN "body" ELSE "stopped"
    OBVIOUS
  <2>1. NoUpload \in UploadRecord
    BY OtaAssumption DEF NoUpload, UploadRecord, Whole
  <2>2. body(o) \in UploadRecord
    BY <1>2, <2>1, Zenon DEF UploadRecord
  <2> QED BY <2>1, <2>2 DEF UploadRecord
<1> HIDE DEF stopped, body
<1>5. upload.at = "off" /\ ~ota.otaBusy /\ boot = running
  BY DEF UploadStart, SessionAgrees, Chosen
<1>6. /\ ota' \in OtaRecord /\ upload' \in UploadRecord
      /\ \/ /\ ota'.phase \in {"Idle", "Failed"} /\ ~ota'.otaBusy /\ ~ota'.sessionActive
            /\ ~ota'.success /\ ~ota'.prioBoosted /\ upload'.at = "stopped"
         \/ /\ ota'.phase = "Uploading" /\ ota'.otaBusy /\ ota'.sessionActive
            /\ ~ota'.success /\ ota'.prioBoosted /\ ota'.authOk /\ ~ota'.headerChecked
            /\ upload'.at = "body"
  <2>1. CASE ota' = [Cleared(ota) EXCEPT !.authOk = FALSE] /\ upload' = stopped
    BY <1>1, <1>3, <2>1, ClearedType, AuthType
  <2>2. ASSUME NEW o \in BeginSession, ota' = [o EXCEPT !.authOk = o.sessionActive],
               upload' = body(o)
        PROVE  <1>6
    <3>1. o \in OtaRecord /\ o.sessionActive \in BOOLEAN
      BY <1>1, FailedType, UploadingType DEF BeginSession, OtaRecord
    <3>2. CASE o = Failed(ota)
      BY <1>1, <1>4, <2>2, <3>1, <3>2, FailedType, AuthType
    <3>3. CASE o = Uploading(ota)
      BY <1>1, <1>4, <2>2, <3>1, <3>3, UploadingType, AuthType
    <3> QED BY <3>2, <3>3 DEF BeginSession
  <2> QED BY <2>1, <2>2 DEF UploadStart, stopped, body
<1>7. TypeOK'
  BY <1>1, <1>6 DEF TypeOK, Device
<1>8. SessionAgrees' /\ ByRequest'
  BY <1>6 DEF SessionAgrees, ByRequest
<1>9. Chosen' /\ OnProbation'
  BY <1>1, <1>5, <1>6 DEF Chosen, OnProbation, Device
<1> QED BY <1>7, <1>8, <1>9

\* What an image in the other partition is does not matter to the one that runs.
LEMMA WriteOK == ASSUME OtaInductive, UploadWrite PROVE OtaInductive'
<1> USE DEF OtaInductive
<1>1. /\ ota \in OtaRecord /\ upload \in UploadRecord /\ upload.at = "body"
      /\ UNCHANGED <<boot, running, alive, uptime>>
  BY DEF TypeOK, UploadWrite
<1>2. ota.phase = "Uploading" /\ boot = running
  BY <1>1 DEF ByRequest, Chosen
<1>3. /\ ota' \in OtaRecord /\ upload' \in UploadRecord /\ upload'.image = upload.image
      /\ \/ /\ ota'.phase = "Failed" /\ ~ota'.otaBusy /\ ~ota'.sessionActive /\ ~ota'.success
            /\ ~ota'.prioBoosted /\ upload'.at = "stopped"
         \/ /\ ota'.phase = "Uploading" /\ ota'.otaBusy = ota.otaBusy
            /\ ota'.sessionActive = ota.sessionActive /\ ota'.success = ota.success
            /\ ota'.prioBoosted = ota.prioBoosted /\ ota'.authOk = ota.authOk
            /\ ota'.headerChecked => ota.headerChecked \/ upload.image # "foreign"
            /\ upload'.at = "body"
  <2>1. /\ [upload EXCEPT !.at = "stopped"] \in UploadRecord
        /\ [upload EXCEPT !.at = "stopped"].at = "stopped"
        /\ [upload EXCEPT !.at = "stopped"].image = upload.image
    BY <1>1 DEF UploadRecord
  <2>2. upload.got \in 0..Buffers /\ upload.got < Buffers
    BY <1>1 DEF UploadWrite, UploadRecord
  <2>3. upload.got + 1 \in 0..Buffers
    BY <2>2, OtaAssumption
  <2>4. /\ [upload EXCEPT !.got = @ + 1] \in UploadRecord
        /\ [upload EXCEPT !.got = @ + 1].at = "body"
        /\ [upload EXCEPT !.got = @ + 1].image = upload.image
    BY <1>1, <2>3 DEF UploadRecord
  <2>5. CASE UNCHANGED ota /\ upload' = [upload EXCEPT !.got = @ + 1]
    BY <1>1, <1>2, <2>4, <2>5
  <2>6. CASE ota' = Failed(ota) /\ upload' = [upload EXCEPT !.at = "stopped"]
    BY <1>1, <2>1, <2>6, FailedType
  <2>7. ASSUME ota.headerChecked \/ upload.image # "foreign",
               ota' = [ota EXCEPT !.headerChecked = TRUE],
               upload' = [upload EXCEPT !.got = @ + 1]
        PROVE  <1>3
    <3>1. ota' \in OtaRecord
      BY <1>1, <2>7, Zenon DEF OtaRecord
    <3>2. /\ ota'.phase = "Uploading" /\ ota'.otaBusy = ota.otaBusy
          /\ ota'.sessionActive = ota.sessionActive /\ ota'.success = ota.success
          /\ ota'.prioBoosted = ota.prioBoosted /\ ota'.authOk = ota.authOk
      BY <1>1, <1>2, <2>7 DEF OtaRecord
    <3> QED BY <2>4, <2>7, <3>1, <3>2
  <2> QED BY <2>5, <2>6, <2>7 DEF UploadWrite
<1>4. /\ slots' \in [Slots -> SlotRecord] /\ slots'[running] = slots[running]
      /\ \A s \in Slots : slots'[s].state = slots[s].state
                         /\ (slots'[s].image = slots[s].image \/ slots'[s].image = "partial")
  <2>1. NextSlot \in Slots /\ NextSlot # running /\ running \in Slots
    BY OtherSlot DEF TypeOK, NextSlot
  <2>2. UNCHANGED slots \/ slots' = [slots EXCEPT ![NextSlot].image = "partial"]
    BY DEF UploadWrite
  <2> QED BY <2>1, <2>2 DEF TypeOK, SlotRecord
<1>5. TypeOK'
  BY <1>1, <1>3, <1>4 DEF TypeOK
<1>6. SessionAgrees' /\ ByRequest'
  BY <1>1, <1>2, <1>3 DEF SessionAgrees, ByRequest
<1>7. Chosen'
  BY <1>1, <1>2, <1>3 DEF Chosen
<1>8. OnProbation'
  <2>1. "partial" \notin Whole
    BY DEF Whole
  <2> QED BY <1>1, <1>4, <2>1 DEF OnProbation, TypeOK
<1> QED BY <1>5, <1>6, <1>7, <1>8

LEMMA EndOK == ASSUME OtaInductive, UploadEnd PROVE OtaInductive'
<1> USE DEF OtaInductive
<1>1. /\ ota \in OtaRecord /\ upload \in UploadRecord /\ upload.at \in {"body", "stopped"}
      /\ UNCHANGED <<running, alive, uptime>>
      /\ NextSlot \in Slots /\ NextSlot # running /\ running \in Slots
  BY OtherSlot DEF TypeOK, UploadEnd, NextSlot
<1>2. ota.phase # "Rebooting" /\ boot = running
  BY <1>1 DEF ByRequest, Chosen
<1>3. \A at \in {"ended", "verifying"} :
        /\ [upload EXCEPT !.at = at] \in UploadRecord
        /\ [upload EXCEPT !.at = at].at = at
        /\ [upload EXCEPT !.at = at].image = upload.image
  BY <1>1 DEF UploadRecord
<1>4. ASSUME ota' \in OtaRecord, ota'.phase \notin {"Uploading", "Rebooting"}, ~ota'.otaBusy,
             ~ota'.sessionActive, ~ota'.success, ~ota'.prioBoosted,
             upload' = [upload EXCEPT !.at = "ended"], UNCHANGED <<slots, boot>>
      PROVE  OtaInductive'
  <2>1. upload'.at = "ended" /\ upload' \in UploadRecord
    BY <1>3, <1>4
  <2>2. TypeOK'
    BY <1>1, <1>4, <2>1 DEF TypeOK
  <2>3. SessionAgrees' /\ ByRequest'
    BY <1>4, <2>1 DEF SessionAgrees, ByRequest
  <2>4. Chosen' /\ OnProbation'
    BY <1>1, <1>2, <1>4, <2>1 DEF Chosen, OnProbation
  <2> QED BY <2>2, <2>3, <2>4
<1>5. CASE /\ ~ota.sessionActive
           /\ ota' = IF ~ota.authOk \/ ota.phase = "Failed" THEN ota ELSE Failed(ota)
           /\ upload' = [upload EXCEPT !.at = "ended"]
           /\ UNCHANGED <<slots, boot>>
  <2>1. ~ota.otaBusy /\ ota.phase \notin {"Uploading", "Rebooting"} /\ ~ota.success
        /\ ~ota.prioBoosted
    BY <1>2, <1>5 DEF SessionAgrees
  <2> QED BY <1>1, <1>4, <1>5, <2>1, FailedType
<1>6. CASE ota' = Failed(ota) /\ upload' = [upload EXCEPT !.at = "ended"]
           /\ UNCHANGED <<slots, boot>>
  BY <1>1, <1>4, <1>6, FailedType
<1>7. CASE /\ ota.sessionActive /\ ota.headerChecked
           /\ upload.image # "short"
           /\ upload' = [upload EXCEPT !.at = "verifying"]
           /\ slots' = [slots EXCEPT ![NextSlot] = [ image |-> upload.image, state |-> "new" ]]
           /\ boot' = NextSlot
           /\ UNCHANGED ota
  <2>1. upload'.at = "verifying" /\ upload'.image = upload.image /\ upload' \in UploadRecord
    BY <1>3, <1>7
  <2>2. upload.image \in Whole \cup {"corrupt"}
    BY <1>1, <1>7 DEF ByRequest, UploadRecord
  <2>3. /\ slots' \in [Slots -> SlotRecord] /\ slots'[running] = slots[running]
        /\ slots'[boot'].image = upload.image
        /\ \A s \in Slots : slots'[s].state = "valid" => slots'[s] = slots[s]
    BY <1>1, <1>7, <2>2 DEF TypeOK, SlotRecord
  <2>4. TypeOK'
    BY <1>1, <1>7, <2>1, <2>3 DEF TypeOK
  <2>5. ota.phase = "Uploading"
    BY <1>7 DEF SessionAgrees
  <2>6. SessionAgrees' /\ ByRequest'
    BY <1>7, <2>1, <2>2, <2>5 DEF SessionAgrees, ByRequest, Whole
  <2>7. Chosen' /\ OnProbation'
    BY <1>1, <1>2, <1>7, <2>1, <2>3 DEF Chosen, OnProbation
  <2> QED BY <2>4, <2>6, <2>7
<1> QED BY <1>5, <1>6, <1>7 DEF UploadEnd

LEMMA VerifyOK == ASSUME OtaInductive, Verify PROVE OtaInductive'
<1> USE DEF OtaInductive
<1>1. /\ ota \in OtaRecord /\ upload \in UploadRecord /\ upload.at = "verifying"
      /\ UNCHANGED <<running, alive, uptime>> /\ running \in Slots
      /\ upload' = [upload EXCEPT !.at = "ended"]
  BY DEF TypeOK, Verify
<1>2. upload'.at = "ended" /\ upload' \in UploadRecord
  BY <1>1 DEF UploadRecord
<1>3. CASE upload.image \in Whole /\ ota' = Rebooting(ota) /\ UNCHANGED <<slots, boot>>
  <2>1. /\ ota' \in OtaRecord /\ ota'.phase = "Rebooting" /\ ota'.otaBusy /\ ota'.success
        /\ ~ota'.sessionActive /\ ota'.prioBoosted = ota.prioBoosted /\ ota'.authOk = ota.authOk
    BY <1>1, <1>3, RebootingType
  <2>2. ota.prioBoosted /\ ota.authOk
    BY <1>1 DEF SessionAgrees, ByRequest
  <2>3. TypeOK'
    BY <1>1, <1>2, <1>3, <2>1 DEF TypeOK
  <2>4. SessionAgrees' /\ ByRequest'
    BY <1>2, <2>1, <2>2 DEF SessionAgrees, ByRequest
  <2>5. Chosen' /\ OnProbation'
    BY <1>1, <1>2, <1>3, <2>1 DEF Chosen, OnProbation
  <2> QED BY <2>3, <2>4, <2>5
<1>4. CASE ota' = Failed(ota) /\ boot' = running
           /\ slots' = [slots EXCEPT ![running].state = "new"]
  <2>1. /\ ota' \in OtaRecord /\ ota'.phase = "Failed" /\ ~ota'.otaBusy /\ ~ota'.success
        /\ ~ota'.sessionActive /\ ~ota'.prioBoosted
    BY <1>1, <1>4, FailedType
  <2>2. /\ slots' \in [Slots -> SlotRecord]
        /\ \A s \in Slots : slots'[s].image = slots[s].image
        /\ \A s \in Slots : slots'[s].state = "valid" => slots[s].state = "valid"
    BY <1>1, <1>4 DEF TypeOK, SlotRecord
  <2>3. TypeOK'
    BY <1>1, <1>2, <1>4, <2>1, <2>2 DEF TypeOK
  <2>4. SessionAgrees' /\ ByRequest'
    BY <1>2, <2>1 DEF SessionAgrees, ByRequest
  <2>5. Chosen' /\ OnProbation'
    BY <1>1, <1>2, <1>4, <2>1, <2>2 DEF Chosen, OnProbation
  <2> QED BY <2>3, <2>4, <2>5
<1> QED BY <1>3, <1>4 DEF Verify

LEMMA AbortedOK == ASSUME OtaInductive, UploadAborted PROVE OtaInductive'
<1> USE DEF OtaInductive
<1>1. /\ ota \in OtaRecord /\ upload.at \in {"body", "stopped"} /\ UNCHANGED Device
      /\ ota' = Failed(ota) /\ upload' = NoUpload
  BY DEF TypeOK, UploadAborted
<1>2. boot = running
  BY <1>1 DEF ByRequest, Chosen
<1>3. upload' \in UploadRecord /\ upload'.at = "off"
  BY <1>1, OtaAssumption DEF NoUpload, UploadRecord, Whole
<1>4. TypeOK'
  BY <1>1, <1>3, FailedType DEF TypeOK, Device
<1>5. SessionAgrees' /\ ByRequest'
  BY <1>1, <1>3, FailedType DEF SessionAgrees, ByRequest
<1>6. Chosen' /\ OnProbation'
  BY <1>1, <1>2, <1>3, FailedType DEF Chosen, OnProbation, Device
<1> QED BY <1>4, <1>5, <1>6

\* A start, for whatever reason and in whatever state.
LEMMA BootedOK == ASSUME OtaInductive, Booted(BootChoice) PROVE OtaInductive'
<1> USE DEF OtaInductive
<1> DEFINE t == BootChoice
<1>1. /\ running' = t.slot /\ boot' = t.slot /\ slots' = t.slots
      /\ ota' = Idle /\ upload' = NoUpload /\ alive' = FALSE /\ uptime' = 0
  BY DEF Booted
<1>2. /\ t.slot \in Slots /\ t.slots \in [Slots -> SlotRecord]
      /\ \A s \in Slots : t.slots[s].image = slots[s].image
      /\ t.slots[t.slot].image \in Whole
      /\ \A s \in Slots : t.slots[s].state = "valid" => slots[s].state = "valid"
  BY BootChoiceOK DEF TypeOK
<1> HIDE DEF t
<1>3. upload' \in UploadRecord /\ upload'.at = "off"
  BY <1>1, OtaAssumption DEF NoUpload, UploadRecord, Whole
<1>4. alive' \in BOOLEAN
  BY <1>1
<1>5. uptime' \in 0..OTA_MARK_VALID_AFTER_MS /\ uptime' < OTA_MARK_VALID_AFTER_MS
  BY <1>1, OtaAssumption
<1>6. TypeOK'
  BY <1>1, <1>2, <1>3, <1>4, <1>5, IdleType DEF TypeOK
<1>7. SessionAgrees' /\ ByRequest'
  BY <1>1, <1>3, IdleType DEF SessionAgrees, ByRequest
<1>8. Chosen' /\ OnProbation'
  BY <1>1, <1>2, <1>3, <1>5, IdleType DEF Chosen, OnProbation
<1> QED BY <1>6, <1>7, <1>8

LEMMA DoneOK == ASSUME OtaInductive, UploadDone PROVE OtaInductive'
<1> USE DEF OtaInductive
<1>1. CASE ota.authOk /\ ota.success
  BY <1>1, BootedOK DEF UploadDone
<1>2. CASE ~(ota.authOk /\ ota.success)
  <2> DEFINE o == IF ota.authOk /\ ota.phase # "Failed" THEN Failed(ota) ELSE ota
  <2>1. /\ ota \in OtaRecord /\ upload.at \in {"off", "ended"} /\ UNCHANGED Device
        /\ ota' = [o EXCEPT !.authOk = FALSE] /\ upload' = NoUpload
    BY <1>2 DEF TypeOK, UploadDone
  <2>2. ota.phase \notin {"Uploading", "Rebooting"}
    BY <1>2, <2>1 DEF SessionAgrees, ByRequest
  <2>3. ~ota.otaBusy /\ ~ota.sessionActive /\ ~ota.success /\ ~ota.prioBoosted /\ boot = running
    BY <2>1, <2>2 DEF SessionAgrees, Chosen
  <2>4. /\ o \in OtaRecord /\ o.phase \notin {"Uploading", "Rebooting"} /\ ~o.otaBusy
        /\ ~o.sessionActive /\ ~o.success /\ ~o.prioBoosted
    BY <2>1, <2>2, <2>3, FailedType
  <2> HIDE DEF o
  <2>5. /\ ota' \in OtaRecord /\ ota'.phase \notin {"Uploading", "Rebooting"} /\ ~ota'.otaBusy
        /\ ~ota'.sessionActive /\ ~ota'.success /\ ~ota'.prioBoosted
    BY <2>1, <2>4, AuthType
  <2>6. upload' \in UploadRecord /\ upload'.at = "off"
    BY <2>1, OtaAssumption DEF NoUpload, UploadRecord, Whole
  <2>7. TypeOK'
    BY <2>1, <2>5, <2>6 DEF TypeOK, Device
  <2>8. SessionAgrees' /\ ByRequest'
    BY <2>5, <2>6 DEF SessionAgrees, ByRequest
  <2>9. Chosen' /\ OnProbation'
    BY <2>1, <2>3, <2>5, <2>6 DEF Chosen, OnProbation, Device
  <2> QED BY <2>7, <2>8, <2>9
<1> QED BY <1>1, <1>2

\* Only an image whose tasks have run, and have not crashed in the time of the
\* probation, is confirmed.
LEMMA PollOK == ASSUME OtaInductive, Poll PROVE OtaInductive'
<1> USE DEF OtaInductive
<1>1. /\ ota \in OtaRecord /\ upload.at = "off" /\ running \in Slots
      /\ UNCHANGED <<upload, boot, running, alive, uptime>>
      /\ ota' = [ota EXCEPT !.phase = IF LingerOver THEN "Idle" ELSE @,
                            !.confirmDone = @ \/ MayConfirm]
  BY DEF TypeOK, Poll
<1>2. ota.phase \notin {"Uploading", "Rebooting"} /\ boot = running
  BY <1>1 DEF ByRequest, Chosen
<1>3. ota' \in OtaRecord
  <2>1. /\ (IF LingerOver THEN "Idle" ELSE ota.phase) \in {"Idle", "Uploading", "Rebooting", "Failed"}
    BY <1>1 DEF OtaRecord
  <2>2. (ota.confirmDone \/ MayConfirm) \in BOOLEAN
    OBVIOUS
  <2> QED BY <1>1, <2>1, <2>2, Zenon DEF OtaRecord
<1>4. /\ ota'.phase \notin {"Uploading", "Rebooting"} /\ ota'.otaBusy = ota.otaBusy
      /\ ota'.sessionActive = ota.sessionActive /\ ota'.success = ota.success
      /\ ota'.prioBoosted = ota.prioBoosted
  BY <1>1, <1>2 DEF OtaRecord
<1>5. /\ slots' \in [Slots -> SlotRecord]
      /\ \A s \in Slots : slots'[s].image = slots[s].image
      /\ \A s \in Slots : slots'[s].state = "valid" =>
           slots[s].state = "valid" \/ (s = running /\ MayConfirm)
  BY <1>1 DEF Poll, TypeOK, SlotRecord
<1>6. MayConfirm => slots[running].image \notin {"dying", "stillborn"}
  BY OtaAssumption DEF MayConfirm, OnProbation, TypeOK
<1> HIDE DEF MayConfirm
<1>7. TypeOK'
  BY <1>1, <1>3, <1>5 DEF TypeOK
<1>8. SessionAgrees' /\ ByRequest'
  BY <1>1, <1>2, <1>4 DEF SessionAgrees, ByRequest
<1>9. Chosen' /\ OnProbation'
  BY <1>1, <1>2, <1>4, <1>5, <1>6 DEF Chosen, OnProbation, Whole
<1> QED BY <1>7, <1>8, <1>9

LEMMA TasksRunOK == ASSUME OtaInductive, TasksRun PROVE OtaInductive'
<1> USE DEF OtaInductive, TasksRun
<1>1. alive' \in BOOLEAN
  OBVIOUS
<1>2. TypeOK'
  BY <1>1 DEF TypeOK
<1>3. SessionAgrees' /\ ByRequest'
  BY DEF SessionAgrees, ByRequest
<1>4. Chosen' /\ OnProbation'
  BY DEF Chosen, OnProbation
<1> QED BY <1>2, <1>3, <1>4

LEMMA TickOK == ASSUME OtaInductive, Tick PROVE OtaInductive'
<1> USE DEF OtaInductive
<1>1. /\ ota \in OtaRecord /\ UNCHANGED <<upload, slots, boot, running, alive>>
      /\ ota' = [ota EXCEPT !.linger = IF @ > 0 THEN @ - 1 ELSE 0]
      /\ uptime' = IF uptime < OTA_MARK_VALID_AFTER_MS THEN uptime + 1 ELSE uptime
      /\ slots[running].image = "dying" => uptime + 1 < OTA_MARK_VALID_AFTER_MS
  BY DEF TypeOK, Tick
<1>2. ota' \in OtaRecord
  <2>1. ota.linger \in 0..OTA_FAIL_LED_MS
    BY <1>1 DEF OtaRecord
  <2>2. (IF ota.linger > 0 THEN ota.linger - 1 ELSE 0) \in 0..OTA_FAIL_LED_MS
    BY <2>1, OtaAssumption
  <2> QED BY <1>1, <2>2, Zenon DEF OtaRecord
<1>3. /\ ota'.phase = ota.phase /\ ota'.otaBusy = ota.otaBusy
      /\ ota'.sessionActive = ota.sessionActive /\ ota'.success = ota.success
      /\ ota'.prioBoosted = ota.prioBoosted /\ ota'.authOk = ota.authOk
      /\ ota'.headerChecked = ota.headerChecked
  BY <1>1 DEF OtaRecord
<1>4. uptime \in 0..OTA_MARK_VALID_AFTER_MS /\ uptime' \in 0..OTA_MARK_VALID_AFTER_MS
  BY <1>1, OtaAssumption DEF TypeOK
<1>5. TypeOK'
  BY <1>1, <1>2, <1>4 DEF TypeOK
<1>6. SessionAgrees' /\ ByRequest'
  BY <1>1, <1>3 DEF SessionAgrees, ByRequest
<1>7. Chosen' /\ OnProbation'
  BY <1>1, <1>3, <1>4 DEF Chosen, OnProbation
<1> QED BY <1>5, <1>6, <1>7

LEMMA NextOK == OtaInductive /\ [Next]_vars => OtaInductive'
<1> SUFFICES ASSUME OtaInductive, [Next]_vars PROVE OtaInductive'
  OBVIOUS
<1>1. ASSUME NEW image \in Uploads, UploadStart(image) PROVE OtaInductive'
  BY <1>1, StartOK
<1>2. CASE UploadWrite
  BY <1>2, WriteOK
<1>3. CASE UploadEnd
  BY <1>3, EndOK
<1>4. CASE Verify
  BY <1>4, VerifyOK
<1>5. CASE UploadAborted
  BY <1>5, AbortedOK
<1>6. CASE UploadDone
  BY <1>6, DoneOK
<1>7. CASE Poll
  BY <1>7, PollOK
<1>8. CASE TasksRun
  BY <1>8, TasksRunOK
<1>9. CASE Tick
  BY <1>9, TickOK
<1>10. CASE Restart
  BY <1>10, BootedOK DEF Restart
<1>11. CASE UNCHANGED vars
  BY <1>11 DEF OtaInductive, TypeOK, SessionAgrees, ByRequest, Chosen, OnProbation, vars
<1> QED BY <1>1, <1>2, <1>3, <1>4, <1>5, <1>6, <1>7, <1>8, <1>9, <1>10, <1>11 DEF Next

LEMMA InductiveIsSafe == OtaInductive => BootIsSafe
<1> SUFFICES ASSUME OtaInductive PROVE BootIsSafe
  OBVIOUS
<1>1. BootChoice.slots[BootChoice.slot].image \in Whole
  BY BootChoiceOK DEF OtaInductive, TypeOK
<1>2. ota.phase = "Failed" => boot = running
  BY DEF OtaInductive, ByRequest, Chosen
<1> QED BY <1>1, <1>2 DEF OtaInductive, TypeOK, Chosen, OnProbation, BootIsSafe

-----------------------------------------------------------------------------
(* The theorems.                                                            *)

\* The inductive invariant holds of every state of the update.
LEMMA SpecInductive == Spec => []OtaInductive
BY InitOK, NextOK, PTL DEF Spec

\* The object, the request and the two partitions have their types, and the
\* partition that runs holds an image that can (ota_service.cpp, write/finish).
THEOREM OtaTypes == Spec => []TypeOK
<1>1. OtaInductive => TypeOK
  BY DEF OtaInductive
<1> QED BY <1>1, SpecInductive, PTL

\* NTP is refused and the priorities are turned round exactly as long as there
\* is a session or a restart to come, and not between requests, whatever the
\* order of handlers, failures and restarts (ota_service.cpp, publish and
\* applyOtaPriorities).
THEOREM OtaSession == Spec => []SessionAgrees
<1>1. OtaInductive => SessionAgrees
  BY DEF OtaInductive
<1> QED BY <1>1, SpecInductive, PTL

\* The device can start after a power failure in any state, a failed upload
\* leaves the running partition chosen, and only a good image is confirmed
\* (ota_service.cpp, finish and poll; main.cpp, the probation).  That an image on
\* probation has another to go back to is not said.
THEOREM OtaBoot == Spec => []BootIsSafe
BY InductiveIsSafe, SpecInductive, PTL

-----------------------------------------------------------------------------
(* The WiFi sessions.                                                       *)


Network == Ssids \cup {NoSsid}

NetRecord ==
    [ work : {"Idle", "Connecting", "Scanning", "Probing"}, scanPending : BOOLEAN, wait : Nat,
      pendingSta : Network, bootNeedAp : BOOLEAN, fromAuto : BOOLEAN, setupAp : BOOLEAN ]

WifiRecord ==
    [ connect : {"Idle", "Connecting", "Connected", "Failed"}, deadline : Nat,
      scan : {"Idle", "Running", "Done", "Failed"}, scanLeft : Nat,
      lastScan : BOOLEAN, fresh : Nat,
      probe : {"Idle", "Running", "Failed", "Conflict", "Clear"}, probeLeft : Nat,
      armed : BOOLEAN, attempt : 0..Len(Backoff), next : Nat, window : Nat,
      linkLoss : BOOLEAN, gaveUp : BOOLEAN, creds : Network ]

EventRecord ==
    [ gotIp : BOOLEAN, disc : BOOLEAN, scanDone : BOOLEAN,
      reason : {"none", "leave", "noAp", "other"} ]

RadioRecord ==
    [ mode : {"STA", "AP", "AP_STA"}, sta : {"down", "joining", "up"},
      scan : {"none", "running", "some", "empty"}, leaving : BOOLEAN ]

DeviceRecord == [ net : NetRecord, wifi : WifiRecord, evt : EventRecord, radio : RadioRecord ]

\* There is a network to join, for whoever has joined one or is to join one.
Known(d) ==
    (d.wifi.armed \/ d.wifi.connect \in {"Connecting", "Connected"} \/ d.radio.sta # "down")
        => d.wifi.creds \in Ssids

\* The portal, the scan and the probe are what task-net believes them to be.
Agrees(d) ==
    /\ d.radio.mode = "AP" => d.radio.sta = "down"
    /\ d.net.setupAp <=> d.radio.mode # "STA"
    /\ d.net.work = "Scanning" => d.net.scanPending
    /\ ProbeRunning(d) => d.net.work = "Probing" /\ ~ScanRunning(d)
    /\ Connecting(d) => d.radio.mode # "AP"

\* A join is polled, and no scan takes its place.
Polled(d) == Connecting(d) => d.net.work = "Connecting" /\ ~ScanRunning(d)

\* A schedule is for a lost link, which knows no limit, and the boot join is for
\* a network: nothing gives up.
Patient(d) ==
    /\ WIFI_LINK_LOSS_RETRY_FOREVER
    /\ ~d.wifi.gaveUp
    /\ d.wifi.armed => d.wifi.linkLoss
    /\ d.net.bootNeedAp => d.net.pendingSta \in Ssids /\ saved \in Ssids

Good(d) == d \in DeviceRecord /\ Known(d) /\ Agrees(d)

\* What a method of task-net makes of d, unless somebody asks for the portal.
Keeps(d, x) ==
    /\ Good(x)
    /\ Polled(d) => Polled(x)
    /\ Patient(d) => Patient(x) /\ (x.net.setupAp => d.net.setupAp)

\* A join that is polled stays so, but for a scan that is running and taken over.
Held(d, x) ==
    d.net.work = "Connecting" /\ Connecting(d) /\ Connecting(x) =>
        x.net.work = "Connecting" \/ (ScanRunning(d) /\ x.net.work = "Scanning")

LEMMA KeepsNothing == ASSUME NEW d, Good(d) PROVE Keeps(d, d)
BY DEF Keeps

LEMMA KeepsOn == ASSUME NEW d, NEW x, NEW y, Keeps(d, x), Keeps(x, y) PROVE Keeps(d, y)
BY DEF Keeps

LEMMA Times ==
    /\ 0 \in Nat /\ 0 \in 0..Len(Backoff) /\ TRUE \in BOOLEAN /\ FALSE \in BOOLEAN
    /\ WIFI_CONNECT_TIMEOUT \in Nat /\ WIFI_SCAN_TIMEOUT \in Nat /\ WIFI_SCAN_UI_TIMEOUT \in Nat
    /\ WIFI_SCAN_CACHE \in Nat /\ IP_CONFLICT_TIMEOUT \in Nat /\ WIFI_RECONNECT_GIVEUP \in Nat
    /\ Len(Backoff) \in Nat /\ Len(Backoff) > 1 /\ \A i \in 1..Len(Backoff) : Backoff[i] \in Nat
    /\ NoSsid \notin Ssids
BY WifiAssumption

LEMMA BackoffNat ==
    /\ Backoff[1] \in Nat /\ Backoff[2] \in Nat
    /\ \A a \in 0..Len(Backoff) : BackoffFor(a) \in Nat
BY Times DEF BackoffFor

-----------------------------------------------------------------------------
(* WifiManager.                                                             *)

LEMMA CancelOK ==
    ASSUME NEW d \in DeviceRecord
    PROVE  LET x == CancelAutoReconnect(d)
           IN  /\ x \in DeviceRecord
               /\ x.net = d.net /\ x.radio = d.radio /\ x.evt = d.evt /\ ~x.wifi.armed
               /\ x.wifi.connect = d.wifi.connect /\ x.wifi.creds = d.wifi.creds
               /\ x.wifi.scan = d.wifi.scan /\ x.wifi.probe = d.wifi.probe
               /\ x.wifi.gaveUp = d.wifi.gaveUp
<1> DEFINE x == CancelAutoReconnect(d)
<1>1. x \in DeviceRecord
  BY Times, Zenon DEF CancelAutoReconnect, DeviceRecord, WifiRecord
<1> QED BY <1>1 DEF CancelAutoReconnect, DeviceRecord, WifiRecord

LEMMA CancelKeeps ==
    ASSUME NEW d, Good(d)
    PROVE  Keeps(d, CancelAutoReconnect(d)) /\ CancelAutoReconnect(d).net = d.net
<1> DEFINE x == CancelAutoReconnect(d)
<1>1. /\ x \in DeviceRecord
      /\ x.net = d.net /\ x.radio = d.radio /\ x.evt = d.evt /\ ~x.wifi.armed
      /\ x.wifi.connect = d.wifi.connect /\ x.wifi.creds = d.wifi.creds
      /\ x.wifi.scan = d.wifi.scan /\ x.wifi.probe = d.wifi.probe
      /\ x.wifi.gaveUp = d.wifi.gaveUp
  BY CancelOK DEF Good
<1> HIDE DEF x
<1>2. Keeps(d, x)
  BY <1>1 DEF Keeps, Good, Known, Agrees, Polled, Patient, Connecting, ProbeRunning, ScanRunning
<1> QED BY <1>1, <1>2 DEF x

LEMMA ArmedOK ==
    ASSUME NEW d, Good(d), NEW ssid \in Ssids, NEW delay \in Nat
    PROVE  Keeps(d, Armed(d, ssid, delay)) /\ Armed(d, ssid, delay).net = d.net
<1> DEFINE x == Armed(d, ssid, delay)
<1>0. d \in DeviceRecord /\ ssid \in Network
  BY DEF Good, Network
<1>1. x \in DeviceRecord
  BY <1>0, Times, Zenon DEF Armed, DeviceRecord, WifiRecord
<1>2. /\ x.net = d.net /\ x.radio = d.radio /\ x.wifi.connect = d.wifi.connect
      /\ x.wifi.scan = d.wifi.scan /\ x.wifi.probe = d.wifi.probe /\ x.wifi.creds = ssid
      /\ x.wifi.linkLoss /\ x.wifi.gaveUp = d.wifi.gaveUp
  BY <1>0 DEF Armed, DeviceRecord, WifiRecord
<1> HIDE DEF x
<1>3. Keeps(d, x)
  BY <1>1, <1>2
     DEF Keeps, Good, Known, Agrees, Polled, Patient, Connecting, ProbeRunning, ScanRunning
<1> QED BY <1>2, <1>3 DEF x

LEMMA ArmOK ==
    ASSUME NEW d, Good(d), NEW ssid \in Network
    PROVE  Keeps(d, ArmReconnect(d, ssid)) /\ ArmReconnect(d, ssid).net = d.net
BY ArmedOK, KeepsNothing, BackoffNat DEF ArmReconnect, Network

LEMMA BeginOK ==
    ASSUME NEW d \in DeviceRecord, NEW leaves \in BOOLEAN
    PROVE  LET x == Begin(d, leaves)
           IN  /\ x \in DeviceRecord
               /\ x.net = d.net /\ x.wifi = d.wifi
               /\ x.radio.sta = "joining" /\ x.radio.mode = d.radio.mode
<1> DEFINE x == Begin(d, leaves)
<1>0. (d.radio.leaving \/ (leaves /\ d.radio.sta # "down")) \in BOOLEAN
  OBVIOUS
<1>1. x \in DeviceRecord
  BY <1>0, Times, Zenon DEF Begin, DeviceRecord, RadioRecord, EventRecord
<1> QED BY <1>1 DEF Begin, DeviceRecord, RadioRecord

LEMMA BeginConnectOK ==
    ASSUME NEW d \in DeviceRecord, NEW ssid \in Network
    PROVE  LET x == BeginConnect(d, ssid)
           IN  /\ x \in DeviceRecord
               /\ x.net = d.net /\ x.wifi.scan = d.wifi.scan /\ x.wifi.probe = d.wifi.probe
               /\ x.wifi.connect = "Connecting" /\ x.wifi.creds = ssid /\ x.radio.mode # "AP"
               /\ x.radio.mode = "STA" <=> d.radio.mode = "STA"
               /\ ~x.wifi.armed /\ x.wifi.gaveUp = d.wifi.gaveUp
<1> DEFINE c == CancelAutoReconnect(d)
           b == Begin(c, d.radio.mode = "STA")
           mode == IF b.radio.mode = "STA" THEN b.radio.mode ELSE "AP_STA"
           w == [b.wifi EXCEPT !.creds = ssid, !.connect = "Connecting",
                               !.deadline = WIFI_CONNECT_TIMEOUT]
           e == [b.evt EXCEPT !.gotIp = FALSE]
           r == [b.radio EXCEPT !.mode = mode]
<1>1. /\ c \in DeviceRecord /\ c.net = d.net /\ c.wifi.scan = d.wifi.scan
      /\ c.wifi.probe = d.wifi.probe /\ c.radio = d.radio
      /\ ~c.wifi.armed /\ c.wifi.gaveUp = d.wifi.gaveUp
  BY CancelOK
<1>2. BeginConnect(d, ssid) =
        [b EXCEPT !.wifi.creds = ssid, !.wifi.connect = "Connecting",
                  !.wifi.deadline = WIFI_CONNECT_TIMEOUT, !.evt.gotIp = FALSE,
                  !.radio.mode = IF @ = "STA" THEN @ ELSE "AP_STA"]
  BY DEF BeginConnect
<1> HIDE DEF c
<1>3. b \in DeviceRecord /\ b.net = c.net /\ b.wifi = c.wifi /\ b.radio.mode = c.radio.mode
  BY <1>1, BeginOK
<1> HIDE DEF b
<1>4. BeginConnect(d, ssid) = [ net |-> b.net, wifi |-> w, evt |-> e, radio |-> r ]
  BY <1>2, <1>3 DEF DeviceRecord
<1>5. mode \in {"STA", "AP", "AP_STA"} /\ mode # "AP" /\ (mode = "STA" <=> d.radio.mode = "STA")
  BY <1>1, <1>3
<1> HIDE DEF mode
<1>6. b.wifi \in WifiRecord /\ b.evt \in EventRecord /\ b.radio \in RadioRecord /\ b.net \in NetRecord
  BY <1>3 DEF DeviceRecord
<1>7. w \in WifiRecord /\ e \in EventRecord /\ r \in RadioRecord
  BY <1>5, <1>6, Times, Zenon DEF WifiRecord, RadioRecord, EventRecord
<1>8. /\ w.scan = b.wifi.scan /\ w.probe = b.wifi.probe
      /\ w.connect = "Connecting" /\ w.creds = ssid /\ r.mode = mode
      /\ w.armed = b.wifi.armed /\ w.gaveUp = b.wifi.gaveUp
  BY <1>6 DEF WifiRecord, RadioRecord
<1> HIDE DEF w, e, r
<1> QED BY <1>1, <1>3, <1>4, <1>5, <1>6, <1>7, <1>8 DEF DeviceRecord

LEMMA StartSetupApOK ==
    ASSUME NEW d, Good(d)
    PROVE  LET x == StartSetupAp(d)
           IN  Good(x) /\ ~Connecting(x) /\ (Patient(d) => Patient(x))
<1> DEFINE c == CancelAutoReconnect(d)
           x == StartSetupAp(d)
           w == [c.wifi EXCEPT !.connect = "Idle"]
           e == [c.evt EXCEPT !.gotIp = FALSE, !.disc = FALSE]
           leaving == c.radio.leaving \/ d.radio.sta # "down"
           r == [c.radio EXCEPT !.mode = "AP", !.sta = "down", !.leaving = leaving]
           n == [c.net EXCEPT !.setupAp = TRUE]
<1>1. /\ c \in DeviceRecord /\ c.net = d.net /\ ~c.wifi.armed
      /\ c.wifi.scan = d.wifi.scan /\ c.wifi.probe = d.wifi.probe /\ c.wifi.creds = d.wifi.creds
      /\ c.wifi.gaveUp = d.wifi.gaveUp
  BY CancelOK DEF Good
<1>2. x = [c EXCEPT
             !.wifi.connect = "Idle", !.evt.gotIp = FALSE, !.evt.disc = FALSE,
             !.radio.mode = "AP", !.radio.sta = "down",
             !.radio.leaving = @ \/ d.radio.sta # "down", !.net.setupAp = TRUE]
  BY DEF StartSetupAp
<1> HIDE DEF c, x
<1>3. x = [ net |-> n, wifi |-> w, evt |-> e, radio |-> r ]
  BY <1>1, <1>2 DEF DeviceRecord, RadioRecord
<1>4. leaving \in BOOLEAN
  OBVIOUS
<1> HIDE DEF leaving
<1>5. c.wifi \in WifiRecord /\ c.evt \in EventRecord /\ c.radio \in RadioRecord /\ c.net \in NetRecord
  BY <1>1 DEF DeviceRecord
<1>6. w \in WifiRecord /\ e \in EventRecord /\ r \in RadioRecord /\ n \in NetRecord
  BY <1>4, <1>5, Times, Zenon DEF WifiRecord, RadioRecord, EventRecord, NetRecord
<1>7. /\ n.work = c.net.work /\ n.scanPending = c.net.scanPending /\ n.setupAp
      /\ n.bootNeedAp = c.net.bootNeedAp /\ n.pendingSta = c.net.pendingSta
      /\ w.connect = "Idle" /\ ~w.armed /\ w.scan = c.wifi.scan /\ w.probe = c.wifi.probe
      /\ w.gaveUp = c.wifi.gaveUp
      /\ r.mode = "AP" /\ r.sta = "down"
  BY <1>1, <1>5 DEF WifiRecord, RadioRecord, NetRecord
<1> HIDE DEF n, w, e, r
<1>8. x \in DeviceRecord
  BY <1>3, <1>6 DEF DeviceRecord
<1>9. Good(x) /\ ~Connecting(x) /\ (Patient(d) => Patient(x))
  BY <1>1, <1>3, <1>7, <1>8 DEF Good, Known, Agrees, Polled, Patient, Connecting, ProbeRunning, ScanRunning
<1> QED BY <1>9 DEF x

LEMMA StopApOK ==
    ASSUME NEW d, Good(d) PROVE Keeps(d, StopAp(d)) /\ StopAp(d).wifi = d.wifi
<1> DEFINE x == StopAp(d)
<1>0. d \in DeviceRecord
  BY DEF Good
<1>1. x \in DeviceRecord
  BY <1>0, Times, Zenon DEF StopAp, DeviceRecord, RadioRecord, NetRecord
<1>2. /\ x.wifi = d.wifi /\ x.net.work = d.net.work /\ x.net.scanPending = d.net.scanPending
      /\ ~x.net.setupAp /\ x.radio.mode = "STA" /\ x.radio.sta = d.radio.sta
      /\ x.net.bootNeedAp = d.net.bootNeedAp /\ x.net.pendingSta = d.net.pendingSta
  BY <1>0 DEF StopAp, DeviceRecord, RadioRecord, NetRecord
<1> HIDE DEF x
<1>3. Keeps(d, x)
  BY <1>1, <1>2 DEF Keeps, Good, Known, Agrees, Polled, Patient, Connecting, ProbeRunning, ScanRunning
<1> QED BY <1>2, <1>3 DEF x

\* A link that is up becomes the connection: the network it is to is known.
LEMMA AdoptedOK ==
    ASSUME NEW d, Good(d), StaUp(d), NEW x \in Adopted(d)
    PROVE  Keeps(d, x) /\ x.net = d.net /\ x.wifi.connect = "Connected"
<1> DEFINE c == CancelAutoReconnect(d)
           up == [c EXCEPT !.wifi.connect = "Connected", !.evt.disc = FALSE]
           lost == [up EXCEPT !.radio.sta = "down"]
<1>1. /\ c \in DeviceRecord /\ c.net = d.net /\ c.radio = d.radio /\ c.wifi.creds = d.wifi.creds
      /\ c.wifi.scan = d.wifi.scan /\ c.wifi.probe = d.wifi.probe
      /\ ~c.wifi.armed /\ c.wifi.gaveUp = d.wifi.gaveUp
  BY CancelOK DEF Good
<1>2. x = up \/ x = lost
  BY DEF Adopted
<1> HIDE DEF c
<1>3. up \in DeviceRecord
  BY <1>1, Times, Zenon DEF DeviceRecord, WifiRecord, EventRecord
<1>4. /\ up.net = c.net /\ up.radio = c.radio /\ up.wifi.creds = c.wifi.creds
      /\ up.wifi.scan = c.wifi.scan /\ up.wifi.probe = c.wifi.probe
      /\ up.wifi.connect = "Connected"
      /\ up.wifi.armed = c.wifi.armed /\ up.wifi.gaveUp = c.wifi.gaveUp
  BY <1>1 DEF DeviceRecord, WifiRecord
<1> HIDE DEF up
<1>5. lost \in DeviceRecord
  BY <1>3, Zenon DEF DeviceRecord, RadioRecord
<1>6. /\ lost.net = up.net /\ lost.wifi = up.wifi
      /\ lost.radio.sta = "down" /\ lost.radio.mode = up.radio.mode
  BY <1>3 DEF DeviceRecord, RadioRecord
<1> HIDE DEF lost
<1>7. d.wifi.creds \in Ssids
  BY DEF Good, Known, StaUp
<1>8. CASE x = up
  BY <1>1, <1>3, <1>4, <1>7, <1>8
     DEF Keeps, Good, Known, Agrees, Polled, Patient, Connecting, ProbeRunning, ScanRunning
<1>9. CASE x = lost
  BY <1>1, <1>4, <1>5, <1>6, <1>7, <1>9
     DEF Keeps, Good, Known, Agrees, Polled, Patient, Connecting, ProbeRunning, ScanRunning
<1> QED BY <1>2, <1>8, <1>9

\* Nothing but the bits of the callback.
LEMMA EventsOK ==
    ASSUME NEW d, Good(d), NEW x \in DeviceRecord, x.net = d.net, x.wifi = d.wifi, x.radio = d.radio
    PROVE  Keeps(d, x)
BY DEF Keeps, Good, Known, Agrees, Polled, Patient, Connecting, ProbeRunning, ScanRunning

LEMMA QuietOK ==
    ASSUME NEW d, Good(d)
    PROVE  /\ LET x == [d EXCEPT !.evt.gotIp = FALSE]
              IN  Keeps(d, x) /\ x.net = d.net /\ x.wifi = d.wifi /\ x.radio = d.radio
           /\ LET x == [d EXCEPT !.evt.disc = FALSE]
              IN  Keeps(d, x) /\ x.net = d.net /\ x.wifi = d.wifi /\ x.radio = d.radio
           /\ LET x == [d EXCEPT !.evt.scanDone = FALSE]
              IN  Keeps(d, x) /\ x.net = d.net /\ x.wifi = d.wifi /\ x.radio = d.radio
<1> DEFINE a == [d EXCEPT !.evt.gotIp = FALSE]
           b == [d EXCEPT !.evt.disc = FALSE]
           c == [d EXCEPT !.evt.scanDone = FALSE]
<1>0. d \in DeviceRecord
  BY DEF Good
<1>1. a \in DeviceRecord /\ b \in DeviceRecord /\ c \in DeviceRecord
  BY <1>0, Times, Zenon DEF DeviceRecord, EventRecord
<1>2. /\ a.net = d.net /\ a.wifi = d.wifi /\ a.radio = d.radio
      /\ b.net = d.net /\ b.wifi = d.wifi /\ b.radio = d.radio
      /\ c.net = d.net /\ c.wifi = d.wifi /\ c.radio = d.radio
  BY <1>0 DEF DeviceRecord
<1> HIDE DEF a, b, c
<1>3. Keeps(d, a) /\ Keeps(d, b) /\ Keeps(d, c)
  BY <1>1, <1>2, EventsOK
<1> QED BY <1>2, <1>3 DEF a, b, c

LEMMA HealIfStaUpOK ==
    ASSUME NEW d, Good(d), NEW x \in HealIfStaUp(d)
    PROVE  Keeps(d, x) /\ x.net = d.net
<1>1. CASE x = d
  BY <1>1, KeepsNothing
<1>2. CASE StaUp(d) /\ \E y \in Adopted(d) : x = [y EXCEPT !.evt.gotIp = FALSE]
  <2>1. PICK y \in Adopted(d) : x = [y EXCEPT !.evt.gotIp = FALSE]
    BY <1>2
  <2>2. Keeps(d, y) /\ y.net = d.net
    BY <1>2, AdoptedOK
  <2>3. Keeps(y, x) /\ x.net = y.net
    BY <2>1, <2>2, QuietOK DEF Keeps
  <2> QED BY <2>2, <2>3, KeepsOn
<1> QED BY <1>1, <1>2 DEF HealIfStaUp

\* A join that goes on keeps its polling; one that has ended needs none.
LEMMA PollConnectOK ==
    ASSUME NEW d, Good(d), NEW x \in PollConnect(d)
    PROVE  Keeps(d, x) /\ x.net = d.net
<1> DEFINE failed == [d EXCEPT !.wifi.connect = "Failed", !.evt.disc = FALSE]
           quiet == [d EXCEPT !.evt.disc = FALSE]
           c == CancelAutoReconnect(d)
           had == [c EXCEPT !.wifi.connect = "Connected", !.evt.gotIp = FALSE]
<1>0. d \in DeviceRecord
  BY DEF Good
<1>1. Keeps(d, failed) /\ failed.net = d.net
  <2>1. failed \in DeviceRecord
    BY <1>0, Times, Zenon DEF DeviceRecord, EventRecord, WifiRecord
  <2>2. /\ failed.net = d.net /\ failed.radio = d.radio /\ failed.wifi.connect = "Failed"
        /\ failed.wifi.scan = d.wifi.scan /\ failed.wifi.probe = d.wifi.probe
        /\ failed.wifi.armed = d.wifi.armed /\ failed.wifi.creds = d.wifi.creds
        /\ failed.wifi.linkLoss = d.wifi.linkLoss /\ failed.wifi.gaveUp = d.wifi.gaveUp
    BY <1>0 DEF DeviceRecord, WifiRecord
  <2> HIDE DEF failed
  <2> QED
    BY <2>1, <2>2 DEF Keeps, Good, Known, Agrees, Polled, Patient, Connecting, ProbeRunning, ScanRunning
<1>2. Keeps(d, quiet) /\ quiet.net = d.net /\ quiet.wifi = d.wifi
  BY QuietOK
<1>3. ASSUME Connecting(d) PROVE Keeps(d, had) /\ had.net = d.net
  <2>1. /\ c \in DeviceRecord /\ c.net = d.net /\ c.radio = d.radio /\ c.wifi.creds = d.wifi.creds
        /\ c.wifi.scan = d.wifi.scan /\ c.wifi.probe = d.wifi.probe
        /\ ~c.wifi.armed /\ c.wifi.gaveUp = d.wifi.gaveUp
    BY <1>0, CancelOK
  <2> HIDE DEF c
  <2>2. had \in DeviceRecord
    BY <2>1, Times, Zenon DEF DeviceRecord, EventRecord, WifiRecord
  <2>3. /\ had.net = d.net /\ had.radio = d.radio /\ had.wifi.connect = "Connected"
        /\ had.wifi.scan = d.wifi.scan /\ had.wifi.probe = d.wifi.probe
        /\ had.wifi.creds = d.wifi.creds /\ ~had.wifi.armed /\ had.wifi.gaveUp = d.wifi.gaveUp
    BY <2>1 DEF DeviceRecord, WifiRecord
  <2> HIDE DEF had
  <2> QED
    BY <1>3, <2>2, <2>3
       DEF Keeps, Good, Known, Agrees, Polled, Patient, Connecting, ProbeRunning, ScanRunning
<1>4. ASSUME NEW y, Keeps(d, y), y.net = d.net, Connecting(y)
      PROVE  Keeps(d, Begin(y, TRUE)) /\ Begin(y, TRUE).net = d.net
  <2> DEFINE b == Begin(y, TRUE)
  <2>1. /\ b \in DeviceRecord /\ b.net = y.net /\ b.wifi = y.wifi
        /\ b.radio.sta = "joining" /\ b.radio.mode = y.radio.mode
    BY <1>4, BeginOK DEF Keeps, Good
  <2> HIDE DEF b
  <2>2. Keeps(y, b)
    BY <1>4, <2>1 DEF Keeps, Good, Known, Agrees, Polled, Patient, Connecting, ProbeRunning, ScanRunning
  <2> QED BY <1>4, <2>1, <2>2, KeepsOn DEF b
<1> HIDE DEF failed, quiet
<1>5. \/ x = d
      \/ Connecting(d) /\ x = had
      \/ StaUp(d) /\ x \in Adopted(d)
      \/ x = quiet \/ x = failed
      \/ Connecting(d) /\ x = Begin(quiet, TRUE)
      \/ Connecting(d) /\ x = Begin(d, TRUE)
  BY DEF PollConnect, failed, quiet
<1> HIDE DEF had
<1>6. Connecting(d) => Connecting(quiet)
  BY <1>2 DEF Connecting
<1> QED BY <1>1, <1>2, <1>3, <1>4, <1>5, <1>6, AdoptedOK, KeepsNothing

\* A connection that is lost is armed for the network it was to.
LEMMA ConsumeDisconnectOK ==
    ASSUME NEW d, Good(d)
    PROVE  Keeps(d, ConsumeDisconnect(d)) /\ ConsumeDisconnect(d).net = d.net
<1> DEFINE quiet == [d EXCEPT !.evt.disc = FALSE]
           lost == [d EXCEPT !.evt.disc = FALSE, !.wifi.connect = "Idle"]
<1>0. d \in DeviceRecord
  BY DEF Good
<1>1. Keeps(d, quiet) /\ quiet.net = d.net
  BY QuietOK
<1>2. lost \in DeviceRecord
  BY <1>0, Times, Zenon DEF DeviceRecord, EventRecord, WifiRecord
<1>3. /\ lost.net = d.net /\ lost.radio = d.radio /\ lost.wifi.connect = "Idle"
      /\ lost.wifi.scan = d.wifi.scan /\ lost.wifi.probe = d.wifi.probe
      /\ lost.wifi.armed = d.wifi.armed /\ lost.wifi.creds = d.wifi.creds
      /\ lost.wifi.linkLoss = d.wifi.linkLoss /\ lost.wifi.gaveUp = d.wifi.gaveUp
  BY <1>0 DEF DeviceRecord, WifiRecord
<1>4. \/ ConsumeDisconnect(d) = d \/ ConsumeDisconnect(d) = quiet
      \/ /\ d.wifi.connect = "Connected"
         /\ ConsumeDisconnect(d) = lost \/ ConsumeDisconnect(d) = Armed(lost, d.wifi.creds, Backoff[1])
  BY DEF ConsumeDisconnect
<1> HIDE DEF quiet, lost
<1>5. Keeps(d, lost)
  BY <1>2, <1>3
     DEF Keeps, Good, Known, Agrees, Polled, Patient, Connecting, ProbeRunning, ScanRunning
<1>6. ASSUME d.wifi.connect = "Connected"
      PROVE  /\ Keeps(d, Armed(lost, d.wifi.creds, Backoff[1]))
             /\ Armed(lost, d.wifi.creds, Backoff[1]).net = d.net
  <2>1. d.wifi.creds \in Ssids
    BY <1>6 DEF Good, Known
  <2>2. /\ Keeps(lost, Armed(lost, d.wifi.creds, Backoff[1]))
        /\ Armed(lost, d.wifi.creds, Backoff[1]).net = lost.net
    BY <1>5, <2>1, BackoffNat, ArmedOK DEF Keeps
  <2> QED BY <1>3, <1>5, <2>2, KeepsOn
<1> QED BY <1>1, <1>3, <1>4, <1>5, <1>6, KeepsNothing

\* Another attempt: nothing else is under way, and it is polled.
LEMMA RetriedOK ==
    ASSUME NEW d, Good(d), d.wifi.armed, ~Busy(d)
    PROVE  Keeps(d, Retried(d)) /\ Retried(d).net.work = "Connecting"
<1> DEFINE attempt == IF d.wifi.attempt < Len(Backoff) THEN d.wifi.attempt + 1 ELSE d.wifi.attempt
           b == BeginConnect(d, d.wifi.creds)
           n == [b.net EXCEPT !.pendingSta = d.wifi.creds, !.fromAuto = TRUE, !.work = "Connecting"]
           w == [b.wifi EXCEPT !.armed = TRUE, !.attempt = attempt, !.next = BackoffFor(attempt),
                               !.window = d.wifi.window, !.linkLoss = d.wifi.linkLoss]
           y == [ net |-> n, wifi |-> w, evt |-> b.evt, radio |-> b.radio ]
<1>0. d \in DeviceRecord /\ d.wifi.creds \in Ssids
  BY DEF Good, Known
<1>1. /\ d.wifi.creds \in Network /\ d.wifi.attempt \in 0..Len(Backoff)
      /\ d.wifi.window \in Nat /\ d.wifi.linkLoss \in BOOLEAN
  BY <1>0 DEF DeviceRecord, WifiRecord
<1>2. /\ b \in DeviceRecord /\ b.net = d.net
      /\ b.wifi.scan = d.wifi.scan /\ b.wifi.probe = d.wifi.probe
      /\ b.wifi.connect = "Connecting" /\ b.wifi.creds = d.wifi.creds /\ b.radio.mode # "AP"
      /\ b.radio.mode = "STA" <=> d.radio.mode = "STA"
      /\ b.wifi.gaveUp = d.wifi.gaveUp
  BY <1>0, <1>1, BeginConnectOK
<1>3. attempt \in 0..Len(Backoff)
  BY <1>1, Times
<1>4. BackoffFor(attempt) \in Nat
  BY <1>3, BackoffNat
<1>5. Retried(d) = y
  <2>1. Retried(d) = [b EXCEPT
           !.wifi.armed = TRUE, !.wifi.attempt = attempt, !.wifi.next = BackoffFor(attempt),
           !.wifi.window = d.wifi.window, !.wifi.linkLoss = d.wifi.linkLoss,
           !.net.pendingSta = d.wifi.creds, !.net.fromAuto = TRUE, !.net.work = "Connecting"]
    BY Zenon DEF Retried, NextAttempt
  <2> HIDE DEF attempt, b
  <2> QED BY <1>2, <2>1 DEF DeviceRecord
<1> HIDE DEF attempt, b
<1>6. b.net \in NetRecord /\ b.wifi \in WifiRecord /\ b.evt \in EventRecord /\ b.radio \in RadioRecord
  BY <1>2 DEF DeviceRecord
<1>7. n \in NetRecord /\ w \in WifiRecord
  BY <1>1, <1>3, <1>4, <1>6, Times, Zenon DEF NetRecord, WifiRecord
<1>8. /\ n.work = "Connecting" /\ n.setupAp = d.net.setupAp
      /\ n.bootNeedAp = d.net.bootNeedAp /\ n.pendingSta = d.wifi.creds
      /\ w.connect = b.wifi.connect /\ w.creds = b.wifi.creds
      /\ w.scan = b.wifi.scan /\ w.probe = b.wifi.probe
      /\ w.linkLoss = d.wifi.linkLoss /\ w.gaveUp = b.wifi.gaveUp
  BY <1>2, <1>6 DEF NetRecord, WifiRecord
<1> HIDE DEF n, w
<1>9. y \in DeviceRecord
  BY <1>6, <1>7 DEF DeviceRecord
<1>10. Keeps(d, y)
  BY <1>0, <1>2, <1>8, <1>9
     DEF Keeps, Good, Known, Agrees, Polled, Patient, Busy, Connecting, ProbeRunning, ScanRunning
<1> QED BY <1>5, <1>8, <1>10

\* A schedule that is patient never gives up.
LEMMA GiveUpOK ==
    ASSUME NEW d, Good(d), ~RetryForever(d), d.wifi.armed
    PROVE  Keeps(d, [CancelAutoReconnect(d) EXCEPT !.wifi.gaveUp = TRUE])
<1> DEFINE c == CancelAutoReconnect(d)
           x == [c EXCEPT !.wifi.gaveUp = TRUE]
<1>1. Keeps(d, c) /\ c.net = d.net
  BY CancelKeeps
<1> HIDE DEF c
<1>2. c \in DeviceRecord
  BY <1>1 DEF Keeps, Good
<1>3. x \in DeviceRecord
  BY <1>2, Times, Zenon DEF DeviceRecord, WifiRecord
<1>4. /\ x.net = c.net /\ x.radio = c.radio /\ x.wifi.connect = c.wifi.connect
      /\ x.wifi.scan = c.wifi.scan /\ x.wifi.probe = c.wifi.probe
      /\ x.wifi.armed = c.wifi.armed /\ x.wifi.creds = c.wifi.creds
  BY <1>2 DEF DeviceRecord, WifiRecord
<1> HIDE DEF x
<1>5. ~Patient(d)
  BY DEF Patient, RetryForever
<1>6. Keeps(d, x)
  BY <1>1, <1>3, <1>4, <1>5
     DEF Keeps, Good, Known, Agrees, Polled, Connecting, ProbeRunning, ScanRunning
<1> QED BY <1>6 DEF c, x

LEMMA PollAutoReconnectOK ==
    ASSUME NEW d, Good(d), NEW x \in PollAutoReconnect(d)
    PROVE  Keeps(d, x)
<1>1. \/ x = d \/ x \in HealIfStaUp(d) \/ x = CancelAutoReconnect(d)
      \/ d.wifi.armed /\ ~RetryForever(d) /\ x = [CancelAutoReconnect(d) EXCEPT !.wifi.gaveUp = TRUE]
      \/ d.wifi.armed /\ ~Busy(d) /\ x = Retried(d)
  BY Zenon DEF PollAutoReconnect
<1> QED BY <1>1, RetriedOK, GiveUpOK, CancelKeeps, HealIfStaUpOK, KeepsNothing

\* What the radio holds is taken: the scan has ended.
LEMMA HarvestScanResultsOK ==
    ASSUME NEW d, Good(d)
    PROVE  LET x == HarvestScanResults(d)
           IN  /\ Keeps(d, x) /\ x.net = d.net
               /\ x.wifi.connect = d.wifi.connect /\ x.wifi.probe = d.wifi.probe
<1> DEFINE x == HarvestScanResults(d)
           none == [d EXCEPT !.wifi.scan = "Failed"]
           some == d.radio.scan = "some"
           w == [d.wifi EXCEPT !.scan = "Done", !.lastScan = some, !.fresh = WIFI_SCAN_CACHE]
           r == [d.radio EXCEPT !.scan = "none"]
           done == [ net |-> d.net, wifi |-> w, evt |-> d.evt, radio |-> r ]
<1>0. d \in DeviceRecord
  BY DEF Good
<1>1. x = d \/ x = none \/ x = done
  BY <1>0 DEF HarvestScanResults, DeviceRecord
<1> HIDE DEF x
<1>2. none \in DeviceRecord
  BY <1>0, Zenon DEF DeviceRecord, WifiRecord
<1>3. /\ none.net = d.net /\ none.radio = d.radio /\ none.wifi.scan = "Failed"
      /\ none.wifi.connect = d.wifi.connect /\ none.wifi.probe = d.wifi.probe
      /\ none.wifi.armed = d.wifi.armed /\ none.wifi.creds = d.wifi.creds
      /\ none.wifi.linkLoss = d.wifi.linkLoss /\ none.wifi.gaveUp = d.wifi.gaveUp
  BY <1>0 DEF DeviceRecord, WifiRecord
<1> HIDE DEF none
<1>4. d.wifi \in WifiRecord /\ d.radio \in RadioRecord /\ some \in BOOLEAN
  BY <1>0 DEF DeviceRecord
<1> HIDE DEF some
<1>5. w \in WifiRecord /\ r \in RadioRecord
  BY <1>4, Times, Zenon DEF WifiRecord, RadioRecord
<1>6. /\ w.connect = d.wifi.connect /\ w.creds = d.wifi.creds /\ w.armed = d.wifi.armed
      /\ w.scan = "Done" /\ w.probe = d.wifi.probe
      /\ w.linkLoss = d.wifi.linkLoss /\ w.gaveUp = d.wifi.gaveUp
      /\ r.mode = d.radio.mode /\ r.sta = d.radio.sta
  BY <1>4 DEF WifiRecord, RadioRecord
<1> HIDE DEF w, r
<1>7. done \in DeviceRecord
  BY <1>0, <1>5 DEF DeviceRecord
<1>8. Keeps(d, none)
  BY <1>2, <1>3 DEF Keeps, Good, Known, Agrees, Polled, Patient, Connecting, ProbeRunning, ScanRunning
<1>9. Keeps(d, done) /\ done.net = d.net
      /\ done.wifi.connect = d.wifi.connect /\ done.wifi.probe = d.wifi.probe
  BY <1>6, <1>7 DEF Keeps, Good, Known, Agrees, Polled, Patient, Connecting, ProbeRunning, ScanRunning
<1> HIDE DEF done
<1>10. /\ Keeps(d, x) /\ x.net = d.net
       /\ x.wifi.connect = d.wifi.connect /\ x.wifi.probe = d.wifi.probe
  BY <1>1, <1>3, <1>8, <1>9, KeepsNothing
<1> QED BY <1>10 DEF x

\* A scan may start under a join that nobody polls, and under no probe.
LEMMA StartScanOK ==
    ASSUME NEW d, Good(d), NEW x \in StartScan(d)
    PROVE  /\ Good(x) /\ (Patient(d) => Patient(x)) /\ x.net = d.net
           /\ x.wifi.connect = d.wifi.connect /\ x.wifi.probe = d.wifi.probe
<1> DEFINE kept == IF PeekScanDone(d) THEN HarvestScanResults(d) ELSE d
           mode == IF kept.radio.mode = "AP" THEN "AP_STA" ELSE kept.radio.mode
           ready == [kept EXCEPT !.evt.scanDone = FALSE, !.radio.mode = mode]
           failed == [ready EXCEPT !.wifi.scan = "Failed"]
           runs == [ready EXCEPT !.wifi.scan = "Running", !.wifi.scanLeft = WIFI_SCAN_TIMEOUT,
                                 !.radio.scan = "running"]
<1>1. /\ Good(kept) /\ (Patient(d) => Patient(kept)) /\ kept.net = d.net
      /\ kept.wifi.connect = d.wifi.connect /\ kept.wifi.probe = d.wifi.probe
  BY HarvestScanResultsOK, KeepsNothing DEF Keeps
<1>2. x = d \/ x = kept \/ (~ProbeRunning(d) /\ x \in {failed, runs})
  BY Zenon DEF StartScan
<1> HIDE DEF kept
<1>3. kept \in DeviceRecord
  BY <1>1 DEF Good
<1>4. mode \in {"STA", "AP", "AP_STA"} /\ mode # "AP" /\ (mode = "STA" <=> kept.radio.mode = "STA")
  BY <1>3 DEF DeviceRecord, RadioRecord
<1> HIDE DEF mode
<1>5. ready \in DeviceRecord
  BY <1>3, <1>4, Times, Zenon DEF DeviceRecord, EventRecord, RadioRecord
<1>6. /\ ready.net = kept.net /\ ready.wifi = kept.wifi
      /\ ready.radio.mode = mode /\ ready.radio.sta = kept.radio.sta
  BY <1>3 DEF DeviceRecord, RadioRecord
<1> HIDE DEF ready
<1>7. failed \in DeviceRecord /\ runs \in DeviceRecord
  BY <1>5, Times, Zenon DEF DeviceRecord, WifiRecord, RadioRecord
<1>8. /\ failed.net = ready.net /\ failed.radio = ready.radio
      /\ failed.wifi.connect = ready.wifi.connect /\ failed.wifi.creds = ready.wifi.creds
      /\ failed.wifi.armed = ready.wifi.armed /\ failed.wifi.probe = ready.wifi.probe
      /\ failed.wifi.linkLoss = ready.wifi.linkLoss /\ failed.wifi.gaveUp = ready.wifi.gaveUp
      /\ failed.wifi.scan = "Failed"
  BY <1>5 DEF DeviceRecord, WifiRecord
<1>9. /\ runs.net = ready.net
      /\ runs.radio.mode = ready.radio.mode /\ runs.radio.sta = ready.radio.sta
      /\ runs.wifi.connect = ready.wifi.connect /\ runs.wifi.creds = ready.wifi.creds
      /\ runs.wifi.armed = ready.wifi.armed /\ runs.wifi.probe = ready.wifi.probe
      /\ runs.wifi.linkLoss = ready.wifi.linkLoss /\ runs.wifi.gaveUp = ready.wifi.gaveUp
  BY <1>5 DEF DeviceRecord, WifiRecord, RadioRecord
<1> HIDE DEF failed, runs
<1>10. Good(failed) /\ (Patient(d) => Patient(failed))
  BY <1>1, <1>4, <1>6, <1>7, <1>8 DEF Good, Known, Agrees, Patient, Connecting, ProbeRunning, ScanRunning
<1>11. ~ProbeRunning(d) => Good(runs) /\ (Patient(d) => Patient(runs))
  BY <1>1, <1>4, <1>6, <1>7, <1>9 DEF Good, Known, Agrees, Patient, Connecting, ProbeRunning, ScanRunning
<1> QED BY <1>1, <1>2, <1>6, <1>8, <1>9, <1>10, <1>11, KeepsNothing DEF Keeps

LEMMA PollScanOK ==
    ASSUME NEW d, Good(d)
    PROVE  LET x == PollScan(d)
           IN  /\ Keeps(d, x) /\ x.net = d.net
               /\ x.wifi.connect = d.wifi.connect /\ x.wifi.probe = d.wifi.probe
<1> DEFINE x == PollScan(d)
           taken == [d EXCEPT !.evt.scanDone = FALSE]
           failed == [taken EXCEPT !.wifi.scan = "Failed"]
<1>1. Keeps(d, taken) /\ taken.net = d.net /\ taken.wifi = d.wifi
  BY QuietOK
<1>2. x = d \/ x = taken \/ x = failed \/ x = HarvestScanResults(taken)
  BY DEF PollScan
<1> HIDE DEF taken, x
<1>3. taken \in DeviceRecord /\ Good(taken)
  BY <1>1 DEF Keeps, Good
<1>4. failed \in DeviceRecord
  BY <1>3, Zenon DEF DeviceRecord, WifiRecord
<1>5. /\ failed.net = taken.net /\ failed.radio = taken.radio /\ failed.wifi.scan = "Failed"
      /\ failed.wifi.connect = taken.wifi.connect /\ failed.wifi.probe = taken.wifi.probe
      /\ failed.wifi.armed = taken.wifi.armed /\ failed.wifi.creds = taken.wifi.creds
      /\ failed.wifi.linkLoss = taken.wifi.linkLoss /\ failed.wifi.gaveUp = taken.wifi.gaveUp
  BY <1>3 DEF DeviceRecord, WifiRecord
<1> HIDE DEF failed
<1>6. Keeps(taken, failed)
  BY <1>3, <1>4, <1>5 DEF Keeps, Good, Known, Agrees, Polled, Patient, Connecting, ProbeRunning, ScanRunning
<1>7. /\ Keeps(d, x) /\ x.net = d.net
      /\ x.wifi.connect = d.wifi.connect /\ x.wifi.probe = d.wifi.probe
  BY <1>1, <1>2, <1>3, <1>5, <1>6, HarvestScanResultsOK, KeepsOn, KeepsNothing
<1> QED BY <1>7 DEF x

-----------------------------------------------------------------------------
(* The sessions of main.cpp.                                                *)

LEMMA StartStaConnectOK ==
    ASSUME NEW d, Good(d), NEW ssid \in Network
    PROVE  /\ Keeps(d, StartStaConnect(d, ssid))
           /\ d.net.work # "Idle" => StartStaConnect(d, ssid) = d
<1> DEFINE x == StartStaConnect(d, ssid)
           b == BeginConnect(d, ssid)
           n == [b.net EXCEPT !.pendingSta = ssid, !.fromAuto = FALSE, !.work = "Connecting"]
           y == [ net |-> n, wifi |-> b.wifi, evt |-> b.evt, radio |-> b.radio ]
<1>0. d \in DeviceRecord
  BY DEF Good
<1>1. /\ b \in DeviceRecord /\ b.net = d.net
      /\ b.wifi.scan = d.wifi.scan /\ b.wifi.probe = d.wifi.probe
      /\ b.wifi.connect = "Connecting" /\ b.wifi.creds = ssid /\ b.radio.mode # "AP"
      /\ b.radio.mode = "STA" <=> d.radio.mode = "STA"
      /\ ~b.wifi.armed /\ b.wifi.gaveUp = d.wifi.gaveUp
  BY <1>0, BeginConnectOK
<1>2. \/ x = d
      \/ d.net.work = "Idle" /\ ssid \in Ssids /\ ~Busy(d) /\ x = y
  <2>1. x = [b EXCEPT !.net.pendingSta = ssid, !.net.fromAuto = FALSE, !.net.work = "Connecting"]
            => x = y
    BY <1>1 DEF DeviceRecord
  <2> QED BY <2>1 DEF StartStaConnect, CanBegin, Network
<1> HIDE DEF b
<1>3. b.net \in NetRecord /\ b.wifi \in WifiRecord /\ b.evt \in EventRecord /\ b.radio \in RadioRecord
  BY <1>1 DEF DeviceRecord
<1>4. n \in NetRecord
  BY <1>3, Times, Zenon DEF NetRecord
<1>5. /\ n.work = "Connecting" /\ n.setupAp = d.net.setupAp
      /\ n.bootNeedAp = d.net.bootNeedAp /\ n.pendingSta = ssid
  BY <1>1, <1>3 DEF NetRecord
<1> HIDE DEF n
<1>6. y \in DeviceRecord
  BY <1>3, <1>4 DEF DeviceRecord
<1>7. ssid \in Ssids /\ ~Busy(d) => Keeps(d, y)
  BY <1>1, <1>5, <1>6
     DEF Keeps, Good, Known, Agrees, Polled, Patient, Busy, Connecting, ProbeRunning, ScanRunning
<1> HIDE DEF y
<1> QED BY <1>2, <1>7, KeepsNothing

LEMMA ScanAnsweredOK ==
    ASSUME NEW d, Good(d)
    PROVE  /\ Keeps(d, ScanAnswered(d)) /\ ScanAnswered(d).wifi = d.wifi
           /\ d.net.work = "Connecting" => ScanAnswered(d).net.work = "Connecting"
<1> DEFINE work == IF d.net.work = "Scanning" THEN "Idle" ELSE d.net.work
           x == [d EXCEPT !.net.scanPending = FALSE, !.net.wait = 0, !.net.work = work]
<1>0. d \in DeviceRecord
  BY DEF Good
<1>1. ScanAnswered(d) = x
  BY DEF ScanAnswered
<1>2. /\ work \in {"Idle", "Connecting", "Scanning", "Probing"}
      /\ work # "Scanning" /\ (d.net.work # "Scanning" => work = d.net.work)
  BY <1>0 DEF DeviceRecord, NetRecord
<1> HIDE DEF work
<1>3. x \in DeviceRecord
  BY <1>0, <1>2, Times, Zenon DEF DeviceRecord, NetRecord
<1>4. /\ x.wifi = d.wifi /\ x.radio = d.radio
      /\ x.net.work = work /\ x.net.setupAp = d.net.setupAp
      /\ x.net.bootNeedAp = d.net.bootNeedAp /\ x.net.pendingSta = d.net.pendingSta
  BY <1>0 DEF DeviceRecord, NetRecord
<1> HIDE DEF x
<1>5. Keeps(d, x)
  BY <1>2, <1>3, <1>4 DEF Keeps, Good, Known, Agrees, Polled, Patient, Connecting, ProbeRunning, ScanRunning
<1> QED BY <1>1, <1>2, <1>4, <1>5

LEMMA NotifyOK ==
    ASSUME NEW d, Good(d)
    PROVE  /\ Keeps(d, Notify(d))
           /\ d.net.work = "Connecting" => Notify(d).net.work = "Connecting"
BY KeepsNothing, ScanAnsweredOK DEF Notify

\* A session that is neither a join nor a probe takes another.
LEMMA SessionOK ==
    ASSUME NEW d, Good(d), NEW work \in {"Idle", "Scanning"},
           work = "Scanning" => d.net.scanPending,
           ProbeRunning(d) => d.net.work = work
    PROVE  LET x == [d EXCEPT !.net.work = work]
           IN  /\ Good(x) /\ (Patient(d) => Patient(x)) /\ x.wifi = d.wifi /\ x.evt = d.evt /\ x.radio = d.radio
               /\ x.net.setupAp = d.net.setupAp /\ x.net.scanPending = d.net.scanPending
               /\ x.net.work = work
<1> DEFINE x == [d EXCEPT !.net.work = work]
<1>0. d \in DeviceRecord
  BY DEF Good
<1>1. x \in DeviceRecord
  BY <1>0, Zenon DEF DeviceRecord, NetRecord
<1>2. /\ x.wifi = d.wifi /\ x.evt = d.evt /\ x.radio = d.radio
      /\ x.net.setupAp = d.net.setupAp /\ x.net.scanPending = d.net.scanPending
      /\ x.net.work = work
      /\ x.net.bootNeedAp = d.net.bootNeedAp /\ x.net.pendingSta = d.net.pendingSta
  BY <1>0 DEF DeviceRecord, NetRecord
<1> HIDE DEF x
<1>3. Good(x) /\ (Patient(d) => Patient(x))
  BY <1>1, <1>2 DEF Good, Known, Agrees, Patient, Connecting, ProbeRunning, ScanRunning
<1> QED BY <1>2, <1>3 DEF x

LEMMA TryStartPendingScanOK ==
    ASSUME NEW d, Good(d), NEW x \in TryStartPendingScan(d)
    PROVE  /\ Keeps(d, x)
           /\ d.net.work = "Connecting" =>
                x.net.work = "Connecting" \/ (ScanRunning(d) /\ x.net.work = "Scanning")
<1>1. CASE x = d
  BY <1>1, KeepsNothing
<1>2. CASE d.net.scanPending /\ ScanRunning(d) /\ x = [d EXCEPT !.net.work = "Scanning"]
  <2>1. ~ProbeRunning(d)
    BY <1>2 DEF Good, Agrees
  <2>2. /\ Good(x) /\ (Patient(d) => Patient(x)) /\ x.wifi = d.wifi
        /\ x.net.setupAp = d.net.setupAp /\ x.net.work = "Scanning"
    BY <1>2, <2>1, SessionOK
  <2> QED BY <1>2, <2>2 DEF Keeps, Polled, Connecting, ScanRunning
<1>3. CASE x = Notify(d)
  BY <1>3, NotifyOK
<1>4. CASE /\ d.net.scanPending /\ d.net.work \notin {"Probing", "Connecting"} /\ ~ProbeRunning(d)
           /\ \E y \in StartScan(d) : x = IF Started(d, y) THEN [y EXCEPT !.net.work = "Scanning"] ELSE y
  <2>1. PICK y \in StartScan(d) : x = IF Started(d, y) THEN [y EXCEPT !.net.work = "Scanning"] ELSE y
    BY <1>4
  <2>2. /\ Good(y) /\ (Patient(d) => Patient(y)) /\ y.net = d.net
        /\ y.wifi.connect = d.wifi.connect /\ y.wifi.probe = d.wifi.probe
    BY StartScanOK
  <2>3. ~ProbeRunning(y) /\ (Polled(d) => ~Connecting(y))
    BY <1>4, <2>2 DEF ProbeRunning, Polled, Connecting
  <2>4. CASE x = y
    BY <1>4, <2>2, <2>3, <2>4 DEF Keeps, Polled
  <2>5. CASE x = [y EXCEPT !.net.work = "Scanning"]
    <3>1. /\ Good(x) /\ (Patient(y) => Patient(x))
          /\ x.wifi = y.wifi /\ x.net.setupAp = y.net.setupAp
      BY <1>4, <2>2, <2>3, <2>5, SessionOK
    <3> QED BY <1>4, <2>2, <2>3, <3>1 DEF Keeps, Polled, Connecting
  <2> QED BY <2>1, <2>4, <2>5
<1> QED BY <1>1, <1>2, <1>3, <1>4 DEF TryStartPendingScan

\* Only a request takes a running scan over in a join.
LEMMA DriveScanOK ==
    ASSUME NEW d, Good(d), NEW x \in DriveScan(d)
    PROVE  Keeps(d, x) /\ (d.net.work = "Connecting" => x.net.work = "Connecting")
<1> DEFINE first ==
             IF d.net.scanPending /\ d.net.wait = 0
             THEN IF d.wifi.lastScan \/ ~ScanRunning(d) THEN { ScanAnswered(d) } ELSE {d}
             ELSE IF d.net.scanPending /\ d.net.work # "Scanning" /\ ~ScanRunning(d)
             THEN TryStartPendingScan(d)
             ELSE {d}
           again(p) == [p EXCEPT !.net.work = IF @ = "Scanning" THEN "Idle" ELSE @]
           retried(p) ==
             IF ~p.net.scanPending THEN {p} ELSE TryStartPendingScan(again(p))
           then(p) ==
             IF ScanRunning(p) THEN {p}
             ELSE IF p.wifi.scan = "Done" \/ p.wifi.lastScan THEN { Notify(p) }
             ELSE retried(p)
<1>1. PICK y \in first : x = y \/ x \in then(PollScan(y))
  BY Zenon DEF DriveScan
<1>2. Keeps(d, y) /\ (d.net.work = "Connecting" => y.net.work = "Connecting")
  BY KeepsNothing, ScanAnsweredOK, TryStartPendingScanOK
<1>3. Keeps(d, PollScan(y)) /\ PollScan(y).net = y.net
  BY <1>2, PollScanOK, KeepsOn DEF Keeps
<1>4. ASSUME NEW p, Good(p)
      PROVE  /\ Keeps(p, again(p)) /\ again(p).wifi = p.wifi
             /\ p.net.work = "Connecting" => again(p).net.work = "Connecting"
  <2>1. p \in DeviceRecord
    BY <1>4 DEF Good
  <2>2. CASE p.net.work # "Scanning"
    <3>1. again(p) = p
      BY <2>1, <2>2 DEF DeviceRecord, NetRecord
    <3> QED BY <1>4, <3>1, KeepsNothing
  <2>3. CASE p.net.work = "Scanning"
    <3>1. again(p) = [p EXCEPT !.net.work = "Idle"]
      BY <2>1, <2>3 DEF DeviceRecord, NetRecord
    <3>2. ~ProbeRunning(p)
      BY <1>4, <2>3 DEF Good, Agrees
    <3> DEFINE idle == [p EXCEPT !.net.work = "Idle"]
    <3>3. /\ Good(idle) /\ (Patient(p) => Patient(idle))
          /\ idle.wifi = p.wifi /\ idle.net.setupAp = p.net.setupAp
      BY <1>4, <3>2, SessionOK
    <3> HIDE DEF again, idle
    <3>4. Keeps(p, idle)
      BY <2>3, <3>3 DEF Keeps, Polled, Connecting
    <3> QED BY <2>3, <3>1, <3>3, <3>4 DEF idle
  <2> QED BY <2>2, <2>3
<1>5. ASSUME NEW p, Good(p), NEW q \in then(p)
      PROVE  Keeps(p, q) /\ (p.net.work = "Connecting" => q.net.work = "Connecting")
  <2>1. CASE q = p
    BY <1>5, <2>1, KeepsNothing
  <2>2. CASE q = Notify(p)
    BY <1>5, <2>2, NotifyOK
  <2>3. CASE ~ScanRunning(p) /\ q \in TryStartPendingScan(again(p))
    <3>1. /\ Keeps(p, again(p)) /\ again(p).wifi = p.wifi
          /\ p.net.work = "Connecting" => again(p).net.work = "Connecting"
      BY <1>4, <1>5
    <3> HIDE DEF again
    <3>2. /\ Keeps(again(p), q)
          /\ again(p).net.work = "Connecting" =>
               q.net.work = "Connecting" \/ (ScanRunning(again(p)) /\ q.net.work = "Scanning")
      BY <2>3, <3>1, TryStartPendingScanOK DEF Keeps
    <3>3. ~ScanRunning(again(p))
      BY <2>3, <3>1 DEF ScanRunning
    <3> QED BY <3>1, <3>2, <3>3, KeepsOn
  <2> HIDE DEF again
  <2> QED BY <1>5, <2>1, <2>2, <2>3
<1> HIDE DEF then, first
<1>6. x \in then(PollScan(y)) =>
        /\ Keeps(PollScan(y), x)
        /\ PollScan(y).net.work = "Connecting" => x.net.work = "Connecting"
  BY <1>3, <1>5 DEF Keeps
<1> QED BY <1>1, <1>2, <1>3, <1>6, KeepsOn

LEMMA BootNeedApOK ==
    ASSUME NEW d, Good(d), NEW b \in BOOLEAN, b => d.net.pendingSta \in Ssids /\ saved \in Ssids
    PROVE  LET x == [d EXCEPT !.net.bootNeedAp = b]
           IN  Keeps(d, x) /\ x.wifi = d.wifi /\ x.net.work = d.net.work /\ x.radio = d.radio
<1> DEFINE x == [d EXCEPT !.net.bootNeedAp = b]
<1>0. d \in DeviceRecord
  BY DEF Good
<1>1. x \in DeviceRecord
  BY <1>0, Times, Zenon DEF DeviceRecord, NetRecord
<1>2. /\ x.wifi = d.wifi /\ x.radio = d.radio /\ x.net.work = d.net.work
      /\ x.net.setupAp = d.net.setupAp /\ x.net.scanPending = d.net.scanPending
      /\ x.net.bootNeedAp = b /\ x.net.pendingSta = d.net.pendingSta
  BY <1>0 DEF DeviceRecord, NetRecord
<1> HIDE DEF x
<1>3. Keeps(d, x)
  BY <1>1, <1>2 DEF Keeps, Good, Known, Agrees, Polled, Patient, Connecting, ProbeRunning, ScanRunning
<1> QED BY <1>2, <1>3 DEF x

\* The portal that opens without being asked for ends what was under way.
LEMMA OpenSetupApOK ==
    ASSUME NEW d, Good(d)
    PROVE  LET x == [OpenSetupApIfNeeded(d) EXCEPT !.net.bootNeedAp = FALSE]
           IN  Good(x) /\ (Polled(d) => Polled(x)) /\ Held(d, x)
<1> DEFINE y == OpenSetupApIfNeeded(d)
           x == [y EXCEPT !.net.bootNeedAp = FALSE]
<1>1. Good(y) /\ (y = d \/ ~Connecting(y))
  BY StartSetupApOK DEF OpenSetupApIfNeeded
<1> HIDE DEF y
<1>2. Keeps(y, x) /\ x.wifi = y.wifi /\ x.net.work = y.net.work
  BY <1>1, BootNeedApOK
<1> HIDE DEF x
<1>3. Good(x) /\ (Polled(d) => Polled(x)) /\ Held(d, x)
  BY <1>1, <1>2 DEF Keeps, Polled, Held, Connecting
<1> QED BY <1>3 DEF x, y

\* A join that has ended leaves the session; a scan that waited for it starts.
LEMMA FinishConnectOK ==
    ASSUME NEW d, Good(d), d.net.work = "Connecting", ~Connecting(d), NEW x \in FinishConnect(d)
    PROVE  Keeps(d, x) /\ Polled(x)
<1> DEFINE idle == [d EXCEPT !.net.work = "Idle", !.net.fromAuto = FALSE]
           shut == [StopAp(idle) EXCEPT !.net.bootNeedAp = FALSE]
           armed == ArmReconnect(idle, d.net.pendingSta)
           open == [OpenSetupApIfNeeded(idle) EXCEPT !.net.bootNeedAp = FALSE]
<1>0. d \in DeviceRecord /\ d.net.pendingSta \in Network
  BY DEF Good, DeviceRecord, NetRecord
<1>1. idle \in DeviceRecord
  BY <1>0, Times, Zenon DEF DeviceRecord, NetRecord
<1>2. /\ idle.wifi = d.wifi /\ idle.radio = d.radio
      /\ idle.net.work = "Idle" /\ idle.net.setupAp = d.net.setupAp
      /\ idle.net.bootNeedAp = d.net.bootNeedAp /\ idle.net.pendingSta = d.net.pendingSta
  BY <1>0 DEF DeviceRecord, NetRecord
<1>3. \/ \E y \in {shut, idle, armed} : x \in TryStartPendingScan(y)
      \/ /\ d.net.bootNeedAp /\ d.net.pendingSta \notin Ssids
         /\ x \in TryStartPendingScan(open)
  BY WifiAssumption, Zenon DEF FinishConnect
<1> HIDE DEF idle
<1>4. Keeps(d, idle) /\ Polled(d)
  BY <1>1, <1>2
     DEF Keeps, Good, Known, Agrees, Polled, Patient, Connecting, ProbeRunning, ScanRunning
<1>5. Keeps(idle, StopAp(idle)) /\ Keeps(idle, armed)
  BY <1>0, <1>4, StopApOK, ArmOK DEF Keeps
<1> HIDE DEF armed
<1>6. Keeps(StopAp(idle), shut)
  BY <1>5, BootNeedApOK DEF Keeps
<1>7. Good(open) /\ Polled(open)
  BY <1>4, OpenSetupApOK DEF Keeps
<1> HIDE DEF shut, open
<1>8. ASSUME NEW y \in {shut, idle, armed} PROVE Keeps(d, y)
  BY <1>4, <1>5, <1>6, KeepsOn
<1>9. CASE \E y \in {shut, idle, armed} : x \in TryStartPendingScan(y)
  <2>1. PICK y \in {shut, idle, armed} : x \in TryStartPendingScan(y)
    BY <1>9
  <2>2. Keeps(d, y) /\ Keeps(y, x)
    BY <1>8, <2>1, TryStartPendingScanOK DEF Keeps
  <2> QED BY <1>4, <2>2 DEF Keeps
<1>10. CASE d.net.bootNeedAp /\ d.net.pendingSta \notin Ssids /\ x \in TryStartPendingScan(open)
  <2>1. Keeps(open, x)
    BY <1>7, <1>10, TryStartPendingScanOK
  <2>2. ~Patient(d)
    BY <1>10 DEF Patient
  <2> QED BY <1>7, <2>1, <2>2 DEF Keeps
<1> QED BY <1>3, <1>9, <1>10

\* A schedule that has given up was not patient.
LEMMA ConsumeGiveUpOK ==
    ASSUME NEW d, Good(d), NEW x \in ConsumeGiveUp(d)
    PROVE  Keeps(d, x) /\ Held(d, x)
<1> DEFINE noted == [d EXCEPT !.wifi.gaveUp = FALSE]
           settled(y) == [y EXCEPT !.net.bootNeedAp = FALSE]
<1>0. d \in DeviceRecord
  BY DEF Good
<1>1. noted \in DeviceRecord
  BY <1>0, Times, Zenon DEF DeviceRecord, WifiRecord
<1>2. /\ noted.net = d.net /\ noted.radio = d.radio
      /\ noted.wifi.armed = d.wifi.armed /\ noted.wifi.creds = d.wifi.creds
      /\ noted.wifi.connect = d.wifi.connect /\ noted.wifi.scan = d.wifi.scan
      /\ noted.wifi.probe = d.wifi.probe
  BY <1>0 DEF DeviceRecord, WifiRecord
<1>3. \/ x = d
      \/ d.wifi.gaveUp /\ x = noted
      \/ d.wifi.gaveUp /\ \E y \in HealIfStaUp(noted) : x = settled(y)
      \/ d.wifi.gaveUp /\ x = settled(OpenSetupApIfNeeded(noted))
  BY DEF ConsumeGiveUp
<1> HIDE DEF noted
<1>4. Good(noted) /\ (Polled(d) => Polled(noted))
  BY <1>1, <1>2 DEF Good, Known, Agrees, Polled, Connecting, ProbeRunning, ScanRunning
<1>5. d.wifi.gaveUp => ~Patient(d)
  BY DEF Patient
<1>6. ASSUME NEW y, Good(y), Polled(d) => Polled(y), Held(d, y), ~Patient(d)
      PROVE  Keeps(d, y) /\ Held(d, y)
  BY <1>6 DEF Keeps
<1>7. CASE x = d
  BY <1>7, KeepsNothing DEF Held
<1>8. CASE d.wifi.gaveUp /\ x = noted
  BY <1>2, <1>4, <1>5, <1>6, <1>8 DEF Held
<1>9. CASE d.wifi.gaveUp /\ \E y \in HealIfStaUp(noted) : x = settled(y)
  <2>1. PICK y \in HealIfStaUp(noted) : x = settled(y)
    BY <1>9
  <2>2. Keeps(noted, y) /\ y.net = noted.net
    BY <1>4, HealIfStaUpOK
  <2>3. Keeps(y, x) /\ x.net.work = y.net.work
    BY <2>1, <2>2, BootNeedApOK DEF Keeps
  <2>4. Held(d, x)
    BY <1>2, <2>2, <2>3 DEF Held
  <2> QED BY <1>4, <1>5, <1>6, <1>9, <2>2, <2>3, <2>4 DEF Keeps
<1>10. CASE d.wifi.gaveUp /\ x = settled(OpenSetupApIfNeeded(noted))
  <2>1. Good(x) /\ (Polled(noted) => Polled(x)) /\ Held(noted, x)
    BY <1>4, <1>10, OpenSetupApOK
  <2>2. Held(d, x)
    BY <1>2, <2>1 DEF Held, Connecting, ScanRunning
  <2> QED BY <1>4, <1>5, <1>6, <1>10, <2>1, <2>2
<1> QED BY <1>3, <1>7, <1>8, <1>9, <1>10

LEMMA HandleScanOK ==
    ASSUME NEW d, Good(d), NEW x \in HandleScan(d) PROVE Keeps(d, x) /\ Held(d, x)
<1> DEFINE y == [d EXCEPT !.net.scanPending = TRUE, !.net.wait = WIFI_SCAN_UI_TIMEOUT]
<1>0. d \in DeviceRecord
  BY DEF Good
<1>1. y \in DeviceRecord
  BY <1>0, Times, Zenon DEF DeviceRecord, NetRecord
<1>2. /\ y.wifi = d.wifi /\ y.radio = d.radio /\ y.net.scanPending
      /\ y.net.work = d.net.work /\ y.net.setupAp = d.net.setupAp
      /\ y.net.bootNeedAp = d.net.bootNeedAp /\ y.net.pendingSta = d.net.pendingSta
  BY <1>0 DEF DeviceRecord, NetRecord
<1>3. x \in TryStartPendingScan(y)
  BY DEF HandleScan
<1> HIDE DEF y
<1>4. Keeps(d, y)
  BY <1>1, <1>2 DEF Keeps, Good, Known, Agrees, Polled, Patient, Connecting, ProbeRunning, ScanRunning
<1>5. Keeps(y, x) /\ Held(y, x)
  BY <1>3, <1>4, TryStartPendingScanOK DEF Keeps, Held
<1> QED BY <1>2, <1>4, <1>5, KeepsOn DEF Held, Connecting, ScanRunning

\* A probe starts only where nothing else is under way, and is a session.
LEMMA HandleStaticIpOK ==
    ASSUME saved \in Network, NEW d, Good(d), NEW x \in HandleStaticIp(d)
    PROVE  Keeps(d, x) /\ Held(d, x)
<1> DEFINE failed == [d EXCEPT !.wifi.probe = "Failed"]
           runs == [d EXCEPT !.wifi.probe = "Running", !.wifi.probeLeft = IP_CONFLICT_TIMEOUT,
                             !.net.pendingSta = saved, !.net.work = "Probing"]
<1>0. d \in DeviceRecord
  BY DEF Good
<1>1. \/ x = d \/ x = StartStaConnect(d, saved)
      \/ d.net.work = "Idle" /\ ~Busy(d) /\ x \in {failed, runs}
  BY Zenon DEF HandleStaticIp
<1>2. failed \in DeviceRecord /\ runs \in DeviceRecord
  BY <1>0, Times, Zenon DEF DeviceRecord, NetRecord, WifiRecord
<1>3. /\ failed.radio = d.radio /\ failed.net = d.net /\ failed.wifi.probe = "Failed"
      /\ failed.wifi.scan = d.wifi.scan /\ failed.wifi.connect = d.wifi.connect
      /\ failed.wifi.armed = d.wifi.armed /\ failed.wifi.creds = d.wifi.creds
      /\ failed.wifi.linkLoss = d.wifi.linkLoss /\ failed.wifi.gaveUp = d.wifi.gaveUp
  BY <1>0 DEF DeviceRecord, WifiRecord
<1>4. /\ runs.radio = d.radio /\ runs.net.work = "Probing"
      /\ runs.net.bootNeedAp = d.net.bootNeedAp /\ runs.net.pendingSta = saved
      /\ runs.wifi.linkLoss = d.wifi.linkLoss /\ runs.wifi.gaveUp = d.wifi.gaveUp
      /\ runs.net.setupAp = d.net.setupAp /\ runs.net.scanPending = d.net.scanPending
      /\ runs.wifi.scan = d.wifi.scan /\ runs.wifi.connect = d.wifi.connect
      /\ runs.wifi.armed = d.wifi.armed /\ runs.wifi.creds = d.wifi.creds
  BY <1>0 DEF DeviceRecord, NetRecord, WifiRecord
<1> HIDE DEF failed, runs
<1>5. Keeps(d, failed)
  BY <1>2, <1>3 DEF Keeps, Good, Known, Agrees, Polled, Patient, Connecting, ProbeRunning, ScanRunning
<1>6. d.net.work = "Idle" /\ ~Busy(d) => Keeps(d, runs)
  BY <1>2, <1>4
     DEF Keeps, Good, Known, Agrees, Polled, Patient, Busy, Connecting, ProbeRunning, ScanRunning
<1>7. Held(d, x)
  BY <1>1, StartStaConnectOK DEF Held
<1> QED BY <1>1, <1>5, <1>6, <1>7, KeepsNothing, StartStaConnectOK

LEMMA ProbeEndedOK ==
    ASSUME NEW d, Good(d), d.net.work = "Probing", NEW probe \in {"Conflict", "Clear"}
    PROVE  Keeps(d, [d EXCEPT !.wifi.probe = probe, !.net.work = "Idle"])
<1> DEFINE x == [d EXCEPT !.wifi.probe = probe, !.net.work = "Idle"]
<1>0. d \in DeviceRecord
  BY DEF Good
<1>1. x \in DeviceRecord
  BY <1>0, Zenon DEF DeviceRecord, NetRecord, WifiRecord
<1>2. /\ x.radio = d.radio /\ x.net.work = "Idle" /\ x.net.setupAp = d.net.setupAp
      /\ x.wifi.probe = probe /\ x.wifi.scan = d.wifi.scan /\ x.wifi.connect = d.wifi.connect
      /\ x.wifi.armed = d.wifi.armed /\ x.wifi.creds = d.wifi.creds
      /\ x.wifi.linkLoss = d.wifi.linkLoss /\ x.wifi.gaveUp = d.wifi.gaveUp
      /\ x.net.bootNeedAp = d.net.bootNeedAp /\ x.net.pendingSta = d.net.pendingSta
  BY <1>0 DEF DeviceRecord, NetRecord, WifiRecord
<1> HIDE DEF x
<1>3. Keeps(d, x)
  BY <1>1, <1>2 DEF Keeps, Good, Known, Agrees, Polled, Patient, Connecting, ProbeRunning, ScanRunning
<1> QED BY <1>3 DEF x

\* GET /scan leaves the portal as it is, but a join whose link is up may lose
\* the radio to it.
LEMMA HandleWebScanOK ==
    ASSUME NEW d, Good(d), NEW x \in HandleWebScan(d)
    PROVE  /\ Good(x) /\ (Patient(d) => Patient(x))
           /\ x.net = d.net /\ x.wifi.connect = d.wifi.connect
           /\ Connecting(d) /\ ~StaUp(d) => x = d
<1>1. ASSUME NEW y, Good(y), Patient(d) => Patient(y), y.net = d.net,
             y.wifi.connect = d.wifi.connect
      PROVE  /\ Good(PollScan(y)) /\ (Patient(d) => Patient(PollScan(y)))
             /\ PollScan(y).net = d.net /\ PollScan(y).wifi.connect = d.wifi.connect
  BY <1>1, PollScanOK DEF Keeps
<1>2. \/ x = d
      \/ /\ ~(Connecting(d) /\ ~StaUp(d))
         /\ x = PollScan(d) \/ \E y \in StartScan(d) : x = y \/ x = PollScan(y)
  BY DEF HandleWebScan
<1> QED BY <1>1, <1>2, StartScanOK

-----------------------------------------------------------------------------
(* task-net, the radio and time.                                            *)

\* What holds between any two steps of task-net.
Steady == Good(Dev) /\ saved \in Network

\* A step keeps it, loses no join, and opens no portal that was not asked for.
Quietly ==
    /\ Steady'
    /\ JoinStep
    /\ Patient(Dev) => Patient(Dev)' /\ (net'.setupAp => net.setupAp)

LEMMA MethodOK ==
    ASSUME Steady, NEW x, Keeps(Dev, x), Held(Dev, x), Becomes(x),
           saved' \in Network, saved' = saved \/ saved' \in Ssids
    PROVE  Quietly
<1>1. Dev' = x
  BY DEF Becomes, Dev, Keeps, Good, DeviceRecord
<1>2. x.net = net' /\ Dev.net = net
  BY DEF Becomes, Dev
<1>3. JoinStep
  BY <1>1, <1>2 DEF Keeps, Polled, Held, JoinStep
<1>4. Patient(Dev) => Patient(Dev)' /\ (net'.setupAp => net.setupAp)
  BY <1>1, <1>2 DEF Keeps, Patient
<1> QED BY <1>1, <1>3, <1>4 DEF Quietly, Steady, Keeps

LEMMA NothingOK ==
    ASSUME Steady, UNCHANGED <<net, wifi, evt, radio, saved>>
    PROVE  Quietly
<1>1. Dev' = Dev
  BY DEF Dev
<1>2. JoinStep
  BY <1>1 DEF JoinStep
<1>3. Patient(Dev) => Patient(Dev)'
  BY <1>1 DEF Patient
<1> QED BY <1>1, <1>2, <1>3 DEF Quietly, Steady

LEMMA DriveOK == ASSUME Steady, Drive PROVE Quietly
<1>1. PICK x \in DriveScan(Dev) : Becomes(x)
  BY DEF Drive
<1>2. Keeps(Dev, x) /\ Held(Dev, x)
  BY DriveScanOK DEF Steady, Held
<1> QED BY <1>1, <1>2, MethodOK DEF Drive, Steady

\* A request may open the portal, and ends the join that was under way.
LEMMA RequestOK ==
    ASSUME Steady, NEW kind, NEW ssid \in Ssids, Request(kind, ssid)
    PROVE  Steady' /\ JoinStep /\ (Patient(Dev) => Patient(Dev)')
<1>1. saved' \in Network /\ ssid \in Network /\ (saved' = saved \/ saved' \in Ssids)
  BY DEF Request, Steady, Network
<1>2. \/ \E x \in HandleConnect(Dev, ssid) \cup HandleScan(Dev) \cup HandleStaticIp(Dev)
                    \cup HandleDhcp(Dev) : Becomes(x)
      \/ Becomes(StartSetupAp(Dev))
  BY DEF Request, HandleWebSetup
<1>3. ASSUME NEW x \in HandleConnect(Dev, ssid) \cup HandleScan(Dev) \cup HandleStaticIp(Dev)
                    \cup HandleDhcp(Dev)
      PROVE  Keeps(Dev, x) /\ Held(Dev, x)
  <2>1. ASSUME NEW s \in Network
        PROVE  Keeps(Dev, StartStaConnect(Dev, s)) /\ Held(Dev, StartStaConnect(Dev, s))
    BY <2>1, StartStaConnectOK DEF Steady, Held
  <2> QED
    BY <1>1, <1>3, <2>1, HandleScanOK, HandleStaticIpOK DEF HandleConnect, HandleDhcp, Steady
<1>4. CASE Becomes(StartSetupAp(Dev))
  <2> DEFINE x == StartSetupAp(Dev)
  <2>1. Good(x) /\ ~Connecting(x) /\ (Patient(Dev) => Patient(x))
    BY StartSetupApOK DEF Steady
  <2> HIDE DEF x
  <2>2. Dev' = x
    BY <1>4, <2>1 DEF x, Becomes, Dev, Good, DeviceRecord
  <2>3. JoinStep
    BY <2>1, <2>2 DEF JoinStep
  <2>4. Patient(Dev) => Patient(Dev)'
    BY <1>1, <2>1, <2>2 DEF Patient
  <2> QED BY <1>1, <2>1, <2>2, <2>3, <2>4 DEF Steady
<1> QED BY <1>1, <1>2, <1>3, <1>4, MethodOK DEF Quietly

LEMMA HealOK == ASSUME Steady, Heal PROVE Quietly
<1>1. CASE UNCHANGED <<net, wifi, evt, radio>>
  BY <1>1, NothingOK DEF Heal
<1>2. CASE net.work = "Idle" /\ \E x \in HealIfStaUp(Dev) :
           \E d \in TryStartPendingScan([StopAp(x) EXCEPT !.net.bootNeedAp = FALSE]) : Becomes(d)
  <2>1. PICK x \in HealIfStaUp(Dev) :
          \E d \in TryStartPendingScan([StopAp(x) EXCEPT !.net.bootNeedAp = FALSE]) : Becomes(d)
    BY <1>2
  <2>2. PICK d \in TryStartPendingScan([StopAp(x) EXCEPT !.net.bootNeedAp = FALSE]) : Becomes(d)
    BY <2>1
  <2>3. Keeps(Dev, x)
    BY HealIfStaUpOK DEF Steady
  <2>4. Keeps(x, StopAp(x)) /\ Keeps(StopAp(x), [StopAp(x) EXCEPT !.net.bootNeedAp = FALSE])
    BY <2>3, StopApOK, BootNeedApOK DEF Keeps
  <2>5. Keeps([StopAp(x) EXCEPT !.net.bootNeedAp = FALSE], d)
    BY <2>4, TryStartPendingScanOK DEF Keeps
  <2>6. Keeps(Dev, d)
    BY <2>3, <2>4, <2>5, KeepsOn
  <2>7. Held(Dev, d)
    BY <1>2 DEF Held, Dev
  <2> QED BY <2>2, <2>6, <2>7, MethodOK DEF Heal, Steady
<1> QED BY <1>1, <1>2 DEF Heal

LEMMA DisconnectOK == ASSUME Steady, Disconnect PROVE Quietly
<1> DEFINE d == IF net.work = "Connecting" THEN Dev ELSE ConsumeDisconnect(Dev)
<1>1. Keeps(Dev, d) /\ d.net = Dev.net /\ (net.work = "Connecting" => d = Dev) /\ Dev.net = net
  BY KeepsNothing, ConsumeDisconnectOK DEF Steady, Dev
<1>2. PICK x \in ConsumeGiveUp(d) : Becomes(x)
  BY DEF Disconnect
<1> HIDE DEF d
<1>3. Keeps(d, x) /\ Held(d, x)
  BY <1>1, <1>2, ConsumeGiveUpOK DEF Keeps
<1>4. Keeps(Dev, x) /\ Held(Dev, x)
  BY <1>1, <1>3, KeepsOn DEF Held
<1> QED BY <1>2, <1>4, MethodOK DEF Disconnect, Steady

LEMMA ReconnectOK == ASSUME Steady, Reconnect PROVE Quietly
<1>1. CASE UNCHANGED <<net, wifi, evt, radio>>
  BY <1>1, NothingOK DEF Reconnect
<1>2. CASE net.work = "Idle" /\ \E d \in PollAutoReconnect(Rearmed(Dev)) : Becomes(d)
  <2>1. PICK d \in PollAutoReconnect(Rearmed(Dev)) : Becomes(d)
    BY <1>2
  <2>2. Keeps(Dev, Rearmed(Dev))
    BY ArmOK, KeepsNothing DEF Rearmed, Steady
  <2>3. Keeps(Rearmed(Dev), d)
    BY <2>1, <2>2, PollAutoReconnectOK DEF Keeps
  <2>4. Keeps(Dev, d) /\ Held(Dev, d)
    BY <1>2, <2>2, <2>3, KeepsOn DEF Held, Dev
  <2> QED BY <2>1, <2>4, MethodOK DEF Reconnect, Steady
<1> QED BY <1>1, <1>2 DEF Reconnect

LEMMA WorkOK == ASSUME Steady, Work PROVE Quietly
<1> DEFINE ended(p) == [Dev EXCEPT !.wifi.probe = p, !.net.work = "Idle"]
<1>0. Dev.net = net /\ Good(Dev) /\ Dev \in DeviceRecord /\ saved' = saved /\ saved' \in Network
  BY DEF Dev, Steady, Good, Work
<1>1. CASE UNCHANGED <<net, wifi, evt, radio>>
  BY <1>1, NothingOK DEF Work
<1>2. CASE /\ net.work = "Connecting"
           /\ \E x \in PollConnect(Dev) :
              \E d \in (IF Connecting(x) THEN {x} ELSE FinishConnect(x)) : Becomes(d)
  <2>1. PICK x \in PollConnect(Dev) :
          \E d \in (IF Connecting(x) THEN {x} ELSE FinishConnect(x)) : Becomes(d)
    BY <1>2
  <2>2. PICK d \in (IF Connecting(x) THEN {x} ELSE FinishConnect(x)) : Becomes(d)
    BY <2>1
  <2>3. Keeps(Dev, x) /\ x.net.work = "Connecting"
    BY <1>0, <1>2, PollConnectOK
  <2>4. Keeps(x, d) /\ (d = x \/ Polled(d))
    BY <2>2, <2>3, FinishConnectOK, KeepsNothing DEF Keeps
  <2>5. Keeps(Dev, d) /\ Held(Dev, d)
    BY <2>3, <2>4, KeepsOn DEF Held, Polled
  <2> QED BY <1>0, <2>2, <2>5, MethodOK
<1>3. CASE net.work = "Probing" /\ Becomes(ended("Conflict"))
  <2>1. Keeps(Dev, ended("Conflict")) /\ Held(Dev, ended("Conflict"))
    BY <1>0, <1>3, ProbeEndedOK DEF Held
  <2> HIDE DEF ended
  <2> QED BY <1>0, <1>3, <2>1, MethodOK
<1>4. CASE net.work = "Probing" /\ Becomes(StartStaConnect(ended("Clear"), net.pendingSta))
  <2>1. Keeps(Dev, ended("Clear"))
    BY <1>0, <1>4, ProbeEndedOK
  <2>2. net.pendingSta \in Network
    BY <1>0 DEF DeviceRecord, NetRecord
  <2> HIDE DEF ended
  <2>3. Keeps(ended("Clear"), StartStaConnect(ended("Clear"), net.pendingSta))
    BY <2>1, <2>2, StartStaConnectOK DEF Keeps
  <2>4. /\ Keeps(Dev, StartStaConnect(ended("Clear"), net.pendingSta))
        /\ Held(Dev, StartStaConnect(ended("Clear"), net.pendingSta))
    BY <1>0, <1>4, <2>1, <2>3, KeepsOn DEF Held
  <2> QED BY <1>0, <1>4, <2>4, MethodOK
<1> HIDE DEF ended
<1> QED BY <1>1, <1>2, <1>3, <1>4 DEF Work, ended

LEMMA WebScanOK == ASSUME Steady, WebScan PROVE Quietly
<1>1. PICK x \in HandleWebScan(Dev) : Becomes(x)
  BY DEF WebScan
<1>2. /\ Good(x) /\ (Patient(Dev) => Patient(x))
      /\ x.net = Dev.net /\ x.wifi.connect = Dev.wifi.connect
      /\ Connecting(Dev) /\ ~StaUp(Dev) => x = Dev
  BY HandleWebScanOK DEF Steady
<1>3. Dev' = x /\ x.net = net' /\ Dev.net = net /\ pc = "portal" /\ saved' = saved
  BY <1>1, <1>2 DEF Becomes, Dev, Good, DeviceRecord, WebScan, At
<1>4. JoinStep
  BY <1>2, <1>3 DEF JoinStep, Connecting, StaUp
<1>5. Patient(Dev) => Patient(Dev)'
  BY <1>2, <1>3 DEF Patient
<1> QED BY <1>2, <1>3, <1>4, <1>5 DEF Quietly, Steady

\* The radio gets no station while there is only the portal; what it joins is
\* known.
LEMMA RadioOK ==
    ASSUME Steady, LinkUp \/ LinkDown \/ Left \/ ScanEnds
    PROVE  Quietly
<1>0. /\ net \in NetRecord /\ wifi \in WifiRecord /\ evt \in EventRecord /\ radio \in RadioRecord
  BY DEF Steady, Good, Dev, DeviceRecord
<1>1. net' = net /\ wifi' = wifi /\ saved' = saved
  BY DEF LinkUp, LinkDown, Left, ScanEnds
<1>2. evt' \in EventRecord
  <2>1. ASSUME NEW seen \in BOOLEAN
        PROVE  /\ [evt EXCEPT !.gotIp = @ \/ seen] \in EventRecord
               /\ [evt EXCEPT !.scanDone = @ \/ seen] \in EventRecord
    BY <1>0, <2>1, Zenon DEF EventRecord
  <2>2. ASSUME NEW reason \in {"leave", "noAp", "other"}
        PROVE  [evt EXCEPT !.disc = TRUE, !.reason = reason] \in EventRecord
    <3>1. reason \in {"none", "leave", "noAp", "other"} /\ TRUE \in BOOLEAN
      OBVIOUS
    <3> QED BY <1>0, <3>1, Zenon DEF EventRecord
  <2> QED BY <1>0, <2>1, <2>2 DEF LinkUp, LinkDown, Left, ScanEnds
<1>3. radio' \in RadioRecord /\ radio'.mode = radio.mode
  BY <1>0 DEF LinkUp, LinkDown, Left, ScanEnds, RadioRecord
<1>4. radio'.sta = radio.sta \/ radio.sta # "down"
  BY <1>0 DEF LinkUp, LinkDown, Left, ScanEnds, RadioRecord
<1>5. Dev' \in DeviceRecord
  BY <1>0, <1>1, <1>2, <1>3 DEF Dev, DeviceRecord
<1>6. Good(Dev)'
  BY <1>1, <1>3, <1>4, <1>5
     DEF Steady, Good, Known, Agrees, Dev, Connecting, ProbeRunning, ScanRunning
<1>7. JoinStep
  BY <1>1 DEF JoinStep, Connecting, ScanRunning, Dev
<1>8. Patient(Dev) => Patient(Dev)'
  BY <1>1 DEF Patient, Dev
<1> QED BY <1>1, <1>6, <1>7, <1>8 DEF Quietly, Steady

LEMMA TimePassesOK == ASSUME Steady, TimePasses PROVE Quietly
<1>0. /\ net \in NetRecord /\ wifi \in WifiRecord /\ evt \in EventRecord /\ radio \in RadioRecord
  BY DEF Steady, Good, Dev, DeviceRecord
<1>1. \A n \in Nat : Down(n) \in Nat
  BY DEF Down
<1>2. /\ net.wait \in Nat /\ wifi.deadline \in Nat /\ wifi.scanLeft \in Nat /\ wifi.fresh \in Nat
      /\ wifi.probeLeft \in Nat /\ wifi.next \in Nat /\ wifi.window \in Nat
  BY <1>0 DEF NetRecord, WifiRecord
<1> DEFINE w == [wifi EXCEPT !.deadline = Down(wifi.deadline), !.scanLeft = Down(wifi.scanLeft),
                             !.fresh = Down(wifi.fresh), !.probeLeft = Down(wifi.probeLeft),
                             !.next = Down(wifi.next), !.window = Down(wifi.window)]
           n == [net EXCEPT !.wait = Down(net.wait)]
<1>3. net' = n /\ wifi' = w /\ evt' = evt /\ radio' = radio /\ saved' = saved
  BY <1>0 DEF TimePasses, WifiRecord, NetRecord
<1>4. n \in NetRecord /\ w \in WifiRecord
  BY <1>0, <1>1, <1>2, Zenon DEF NetRecord, WifiRecord
<1>5. /\ n.work = net.work /\ n.setupAp = net.setupAp /\ n.scanPending = net.scanPending
      /\ n.bootNeedAp = net.bootNeedAp /\ n.pendingSta = net.pendingSta
      /\ w.linkLoss = wifi.linkLoss /\ w.gaveUp = wifi.gaveUp
      /\ w.connect = wifi.connect /\ w.creds = wifi.creds /\ w.armed = wifi.armed
      /\ w.scan = wifi.scan /\ w.probe = wifi.probe
  BY <1>0 DEF NetRecord, WifiRecord
<1> HIDE DEF n, w
<1>6. Dev' \in DeviceRecord
  BY <1>0, <1>3, <1>4 DEF Dev, DeviceRecord
<1>7. Good(Dev)'
  BY <1>3, <1>5, <1>6
     DEF Steady, Good, Known, Agrees, Dev, Connecting, ProbeRunning, ScanRunning
<1>8. JoinStep
  BY <1>3, <1>5 DEF JoinStep, Connecting, ScanRunning, Dev
<1>9. Patient(Dev) => Patient(Dev)'
  BY <1>3, <1>5 DEF Patient, Dev
<1> QED BY <1>3, <1>5, <1>7, <1>8, <1>9 DEF Quietly, Steady

LEMMA WifiStepOK ==
    ASSUME Steady, [WifiNext]_wifiVars
    PROVE  /\ Steady'
           /\ JoinStep
           /\ Patient(Dev) => Patient(Dev)' /\ ((net'.setupAp => net.setupAp) \/ pc = "requests")
<1>1. CASE UNCHANGED wifiVars \/ NoRequest \/ NoWebScan
  BY <1>1, NothingOK DEF wifiVars, NoRequest, NoWebScan, Quietly
<1>2. CASE Drive \/ Heal \/ Disconnect \/ Reconnect \/ Work
  BY <1>2, DriveOK, HealOK, DisconnectOK, ReconnectOK, WorkOK DEF Quietly
<1>3. CASE \E kind \in Requests \ {"web scan"}, ssid \in Ssids : Request(kind, ssid)
  BY <1>3, RequestOK DEF Request, At
<1>4. CASE WebScan
  BY <1>4, WebScanOK DEF Quietly
<1>5. CASE LinkUp \/ LinkDown \/ Left \/ ScanEnds \/ TimePasses
  BY <1>5, RadioOK, TimePassesOK DEF Quietly
<1> QED BY <1>1, <1>2, <1>3, <1>4, <1>5 DEF WifiNext, Loop

LEMMA WifiInitOK ==
    ASSUME WifiInit PROVE Steady /\ (WIFI_LINK_LOSS_RETRY_FOREVER => Patient(Dev))
<1> DEFINE n == [ work |-> "Idle", scanPending |-> FALSE, wait |-> 0, pendingSta |-> NoSsid,
                  bootNeedAp |-> FALSE, fromAuto |-> FALSE, setupAp |-> FALSE ]
           w == [ connect |-> "Idle", deadline |-> 0, scan |-> "Idle", scanLeft |-> 0,
                  lastScan |-> FALSE, fresh |-> 0, probe |-> "Idle", probeLeft |-> 0,
                  armed |-> FALSE, attempt |-> 0, next |-> 0, window |-> 0,
                  linkLoss |-> FALSE, gaveUp |-> FALSE, creds |-> NoSsid ]
           e == [ gotIp |-> FALSE, disc |-> FALSE, scanDone |-> FALSE, reason |-> "none" ]
           r == [ mode |-> "STA", sta |-> "down", scan |-> "none", leaving |-> FALSE ]
           fresh == [ net |-> n, wifi |-> w, evt |-> e, radio |-> r ]
           begun == StartStaConnect(fresh, saved)
           d == IF saved = NoSsid THEN StartSetupAp(fresh)
                ELSE [begun EXCEPT !.net.bootNeedAp = TRUE]
<1>1. /\ n \in NetRecord /\ w \in WifiRecord /\ e \in EventRecord /\ r \in RadioRecord
  BY Times DEF NetRecord, WifiRecord, EventRecord, RadioRecord, Network
<1>2. /\ n.work = "Idle" /\ ~n.setupAp /\ ~n.bootNeedAp /\ ~w.armed /\ ~w.gaveUp
      /\ w.connect = "Idle" /\ w.scan = "Idle" /\ w.probe = "Idle"
      /\ r.mode = "STA" /\ r.sta = "down"
  OBVIOUS
<1>3. saved \in Network
  BY DEF WifiInit, Network
<1>4. net = d.net /\ wifi = d.wifi /\ evt = d.evt /\ radio = d.radio
  BY DEF WifiInit
<1> HIDE DEF n, w, e, r
<1>5. Good(fresh) /\ (WIFI_LINK_LOSS_RETRY_FOREVER => Patient(fresh))
  BY <1>1, <1>2 DEF Good, Known, Agrees, Patient, DeviceRecord, Connecting, ProbeRunning, ScanRunning
<1>6. fresh.net.work = "Idle" /\ ~Busy(fresh)
  BY <1>2 DEF Busy, Connecting, ProbeRunning, ScanRunning
<1> HIDE DEF fresh
<1>7. Keeps(fresh, begun)
  BY <1>3, <1>5, StartStaConnectOK
<1>8. saved # NoSsid => begun.net.pendingSta = saved /\ saved \in Ssids
  <2> DEFINE b == BeginConnect(fresh, saved)
  <2>1. b \in DeviceRecord
    BY <1>3, <1>5, BeginConnectOK DEF Good
  <2>2. saved # NoSsid =>
          begun = [b EXCEPT !.net.pendingSta = saved, !.net.fromAuto = FALSE, !.net.work = "Connecting"]
    BY <1>6, Zenon DEF StartStaConnect, CanBegin
  <2> HIDE DEF b
  <2>3. [b EXCEPT !.net.pendingSta = saved, !.net.fromAuto = FALSE, !.net.work = "Connecting"].net.pendingSta = saved
    BY <2>1 DEF DeviceRecord, NetRecord
  <2> HIDE DEF begun
  <2> QED BY <1>3, <2>2, <2>3 DEF Network
<1> HIDE DEF begun
<1>9. ASSUME saved # NoSsid PROVE Keeps(begun, [begun EXCEPT !.net.bootNeedAp = TRUE])
  <2>1. Good(begun) /\ begun.net.pendingSta \in Ssids /\ saved \in Ssids
    BY <1>7, <1>8, <1>9 DEF Keeps
  <2>2. TRUE \in BOOLEAN
    OBVIOUS
  <2> QED BY <2>1, <2>2, BootNeedApOK, Zenon
<1>10. Good(StartSetupAp(fresh)) /\ (Patient(fresh) => Patient(StartSetupAp(fresh)))
  BY <1>5, StartSetupApOK
<1>11. Good(d) /\ (WIFI_LINK_LOSS_RETRY_FOREVER => Patient(d))
  BY <1>5, <1>7, <1>9, <1>10 DEF Keeps
<1>12. Dev = d
  BY <1>4, <1>11 DEF Dev, Good, DeviceRecord
<1> QED BY <1>3, <1>11, <1>12 DEF Steady

\* What task-net believes to be under way is, the setup portal is open exactly
\* when the other tasks are told so, and a station that is armed has a network
\* to join: whatever the radio does and the callback reports (wifi_manager.cpp,
\* pollNetWork).
THEOREM WifiTypes == WifiSpec => []WifiTypeOK
<1>1. WifiInit => Steady
  BY WifiInitOK
<1>2. Steady /\ [WifiNext]_wifiVars => Steady'
  BY WifiStepOK
<1>3. Steady => WifiTypeOK
  BY DEF Steady, Good, DeviceRecord, NetRecord, WifiRecord, Known, Agrees, WifiTypeOK, Dev, ProbeRunning
<1> QED BY <1>1, <1>2, <1>3, PTL DEF WifiSpec

\* The portal opens only while a request is handled, as long as a lost link is
\* retried for ever: then no schedule gives up, whatever limits there are, and
\* the boot join that fails always has a network to go on with
\* (openSetupApIfNeeded, finishConnect, consumeReconnectGiveUp).
THEOREM PortalAsked ==
    ASSUME WIFI_LINK_LOSS_RETRY_FOREVER
    PROVE  WifiSpec => PortalIsAsked
<1> DEFINE Inv == Steady /\ Patient(Dev)
<1>1. WifiInit => Inv
  BY WifiInitOK
<1>2. Inv /\ [WifiNext]_wifiVars => Inv'
  BY WifiStepOK
<1>3. Inv /\ [WifiNext]_wifiVars => [~net.setupAp /\ net'.setupAp => pc = "requests"]_wifiVars
  BY WifiStepOK
<1> QED BY <1>1, <1>2, <1>3, PTL DEF WifiSpec, PortalIsAsked

\* A join that has begun is polled by task-net, and loses its session only to a
\* scan that was running already, which only GET /scan can have started and
\* only when the link was up: whatever is asked for (tryStartPendingScan).
THEOREM JoinKept == WifiSpec => JoinIsKept
<1>1. WifiInit => Steady
  BY WifiInitOK
<1>2. Steady /\ [WifiNext]_wifiVars => Steady'
  BY WifiStepOK
<1>3. Steady /\ [WifiNext]_wifiVars => [JoinStep]_wifiVars
  BY WifiStepOK
<1> QED BY <1>1, <1>2, <1>3, PTL DEF WifiSpec, JoinIsKept

=============================================================================
