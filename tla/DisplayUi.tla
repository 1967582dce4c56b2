------------------------------ MODULE DisplayUi ------------------------------
(***************************************************************************)
(* display_ui.cpp: the pages of the OLED, driven by the encoder and by the  *)
(* messages of task-net, and the other end of its two queues in main.cpp.   *)
(*                                                                          *)
(* A scan is asked for through netReq and answered through uiMsg, both of   *)
(* them bounded and written without waiting; the list itself lies in        *)
(* AppIpc (scanResults, scanReady).                                         *)
(*                                                                          *)
(* Left out: drawing and wording; which item the menu cursor is on (any of  *)
(* those that the user goes for, items, may be); the values that the pages  *)
(* edit (SettingsStore has what a copy and its commit do).  scanMutex, held *)
(* for the time of a copy, is always had.  A timer is a flag: whether its   *)
(* time has come.                                                           *)
(***************************************************************************)
EXTENDS Encoder, Sequences

CONSTANTS
    QueueLength,    \* of netReq and uiMsg
    MaxSeq,         \* where scanSeq_ wraps, 2^32 - 1
    MaxNetworks     \* longest list of a scan

ASSUME DisplayAssumption ==
    /\ QueueLength \in Nat \ {0} /\ MaxSeq \in Nat \ {0, 1} /\ MaxNetworks \in Nat

VARIABLES
    ui,         \* the members of DisplayUi
    netReq, uiMsg,
    scan,       \* scanResults, as its length, and scanReady
    job         \* gScanUiPending and gScanUiSeq of task-net

uiVars == <<ui, netReq, uiMsg, scan, job>>

\* Pages that edit a setting, and where a long press leads from there.
LongTo == [ SetAnomaly |-> "Home", SetAcl |-> "Menu", SetTempComp |-> "Menu", SetScreen |-> "Menu" ]
Editors == DOMAIN LongTo

UiMode == {"Home", "Menu", "WifiScan", "WifiPassword", "SetIp", "SetTimezone", "NtpStats",
           "WebSetupHint", "Message"} \cup Editors

\* The pages that an item opens and does nothing else.
Opens ==
    [ SetStaticIp |-> "SetIp", Timezone |-> "SetTimezone", AnomalyMode |-> "SetAnomaly",
      NtpAcl |-> "SetAcl", TempComp |-> "SetTempComp", ScreenOff |-> "SetScreen",
      NtpStats |-> "NtpStats" ]

MenuItems == DOMAIN Opens \cup {"WifiScan", "WebSetup", "UseDhcp", "Restart"}

NetRequests == [ type : {"ScanWifi", "Other"}, seq : 0..MaxSeq ]
UiMessages == [ type : {"Text", "ScanResult", "ScanFailed"}, seq : 0..MaxSeq ]

Other == [ type |-> "Other", seq |-> 0 ]
Text == [ type |-> "Text", seq |-> 0 ]

Panels ==
    [ mode : UiMode, networks : 0..MaxNetworks, wifiIndex : Nat,
      scanPending : BOOLEAN, scanSeq : 0..MaxSeq, timedOut : BOOLEAN,
      messageOver : BOOLEAN, screenOff : BOOLEAN, idle : BOOLEAN ]

UiTypeOK ==
    /\ ui \in Panels
    /\ netReq \in Seq(NetRequests) /\ Len(netReq) <= QueueLength
    /\ uiMsg \in Seq(UiMessages) /\ Len(uiMsg) <= QueueLength
    /\ scan \in [ results : 0..MaxNetworks, ready : BOOLEAN ]
    /\ job \in [ pending : BOOLEAN, seq : 0..MaxSeq ]

UiInit ==
    /\ ui = [ mode |-> "Home", networks |-> 0, wifiIndex |-> 0, scanPending |-> FALSE,
              scanSeq |-> 0, timedOut |-> FALSE, messageOver |-> FALSE,
              screenOff |-> FALSE, idle |-> FALSE ]
    /\ netReq = <<>> /\ uiMsg = <<>>
    /\ scan = [ results |-> 0, ready |-> FALSE ]
    /\ job = [ pending |-> FALSE, seq |-> 0 ]

Go(u, mode) == [u EXCEPT !.mode = mode]

\* xQueueSend without waiting: a message to a full queue is lost.
HasRoom(queue) == Len(queue) < QueueLength
Sent(queue, msg) == IF HasRoom(queue) THEN Append(queue, msg) ELSE queue

-----------------------------------------------------------------------------
(* What the messages of task-net do.                                        *)

ScreenOn(u) == [u EXCEPT !.screenOff = FALSE, !.idle = FALSE]

ShowMessage(u) ==
    [(IF u.screenOff THEN ScreenOn(u) ELSE u) EXCEPT !.mode = "Message", !.messageOver = FALSE]

\* Fault: the cursor stays where it was in the last list.
OnScanResultsUnder(u) ==
    [u EXCEPT !.networks = scan.results, !.scanPending = FALSE, !.mode = "WifiScan"]

OnScanResults(u) ==
    [u EXCEPT !.networks = scan.results, !.wifiIndex = 0, !.scanPending = FALSE,
              !.mode = "WifiScan"]

Stale(msg) == msg.seq \notin {0, ui.scanSeq}

\* One message of drainUiMessages.
TakeUiMessage ==
    /\ uiMsg # <<>> /\ uiMsg' = Tail(uiMsg)
    /\ LET msg == Head(uiMsg)
           busy == ui.mode \in {"WifiScan", "WifiPassword"} \/ ui.scanPending
       IN \/ /\ msg.type = "Text"
             /\ ui' = IF busy THEN ui ELSE ShowMessage(ui)
             /\ UNCHANGED scan
          \/ /\ msg.type # "Text" /\ Stale(msg)
             /\ UNCHANGED <<ui, scan>>
          \/ /\ msg.type = "ScanResult" /\ ~Stale(msg)
             /\ ui' = OnScanResults(ui)
             /\ scan' = [scan EXCEPT !.ready = FALSE]
          \/ /\ msg.type = "ScanFailed" /\ ~Stale(msg)
             /\ ui' = [ui EXCEPT !.scanPending = FALSE, !.mode = "WifiScan"]
             /\ UNCHANGED scan
    /\ UNCHANGED <<netReq, job>>

\* Fault: a panel that is off does not look at its timer.
TimedOutLit(u) ==
    IF u.scanPending /\ u.timedOut /\ ~u.screenOff THEN [u EXCEPT !.scanPending = FALSE] ELSE u

TimedOut(u) == IF u.scanPending /\ u.timedOut THEN [u EXCEPT !.scanPending = FALSE] ELSE u

\* WIFI_SCAN_UI_TIMEOUT_MS, and a list whose message was lost.
CheckScan ==
    /\ uiMsg = <<>>
    /\ LET u == TimedOut(ui)
           takes == u.scanPending /\ scan.ready
       IN /\ ui' = IF takes THEN OnScanResults(u) ELSE u
          /\ scan' = IF takes THEN [scan EXCEPT !.ready = FALSE] ELSE scan
    /\ UNCHANGED <<netReq, uiMsg, job>>

-----------------------------------------------------------------------------
(* The pages.  Each takes the panel after the input was noted, and gives    *)
(* what the page makes of it.                                               *)

Stays(u) == ui' = u /\ UNCHANGED netReq
GoesTo(u, mode) == Stays(Go(u, mode))

\* postNetRequest and a message for it.
Requests(u) == ui' = u /\ netReq' = Sent(netReq, Other)

NextSeq == IF ui.scanSeq = MaxSeq THEN 1 ELSE ui.scanSeq + 1

RequestWifiScan(u) ==
    /\ ui' = [u EXCEPT !.scanSeq = NextSeq,
                       !.scanPending = @ \/ HasRoom(netReq),
                       !.timedOut = @ /\ ~HasRoom(netReq),
                       !.networks = IF HasRoom(netReq) THEN 0 ELSE @]
    /\ netReq' = Sent(netReq, [ type |-> "ScanWifi", seq |-> NextSeq ])

HandleHome(u) ==
    /\ u.mode = "Home"
    /\ IF Click THEN GoesTo(u, "Menu") ELSE Stays(u)

\* Restart is PickRestart.
PickItem(u, item) ==
    \/ /\ item = "WifiScan"
       /\ RequestWifiScan([u EXCEPT !.mode = "WifiScan", !.networks = 0, !.wifiIndex = 0])
    \/ item = "WebSetup" /\ Requests(Go(u, "WebSetupHint"))
    \/ item = "UseDhcp" /\ Requests(ShowMessage(u))
    \/ item \in DOMAIN Opens /\ GoesTo(u, Opens[item])

HandleMenu(u, items) ==
    /\ u.mode = "Menu"
    /\ \/ LongPress /\ GoesTo(u, "Home")
       \/ ~LongPress /\ ~Click /\ Stays(u)
       \/ ~LongPress /\ Click /\ \E item \in items : PickItem(u, item)

PickRestart(items) ==
    /\ ui.mode = "Menu" /\ ~ui.screenOff /\ ~LongPress /\ Click
    /\ "Restart" \in items
    /\ UNCHANGED uiVars

\* Where the encoder moves the cursor in the list.
NextIndex(u) ==
    IF Rotate = 1 /\ u.wifiIndex + 1 < u.networks THEN u.wifiIndex + 1
    ELSE IF Rotate = -1 /\ u.wifiIndex > 0 THEN u.wifiIndex - 1
    ELSE u.wifiIndex

HandleWifiScan(u) ==
    /\ u.mode = "WifiScan"
    /\ \/ LongPress /\ Stays([u EXCEPT !.mode = "Menu", !.scanPending = FALSE])
       \/ ~LongPress /\ u.scanPending /\ Stays(u)
       \/ ~LongPress /\ ~u.scanPending /\ u.networks = 0
            /\ IF Click THEN RequestWifiScan(u) ELSE Stays(u)
       \/ ~LongPress /\ ~u.scanPending /\ u.networks > 0
            /\ Stays([u EXCEPT !.wifiIndex = NextIndex(u),
                               !.mode = IF Click THEN "WifiPassword" ELSE @])

\* A long press ends the input: connect, or check and apply the address.
HandleEntry(u) ==
    /\ u.mode \in {"WifiPassword", "SetIp"}
    /\ IF LongPress THEN Requests(ShowMessage(u)) ELSE Stays(u)

\* A copy or a commit of the settings may find them busy.
HandleTimezone(u) ==
    /\ u.mode = "SetTimezone"
    /\ \/ Click /\ Stays(ShowMessage(u))
       \/ Stays(u)

HandleEditor(u) ==
    /\ u.mode \in Editors
    /\ \/ LongPress /\ GoesTo(u, LongTo[u.mode])
       \/ ~LongPress /\ Click /\ Stays(ShowMessage(u))
       \/ ~LongPress /\ (Click => u.mode = "SetScreen") /\ Stays(u)

HandleNtpStats(u) ==
    /\ u.mode = "NtpStats"
    /\ IF Click \/ LongPress THEN GoesTo(u, "Menu") ELSE Stays(u)

HandleWebHint(u) ==
    /\ u.mode = "WebSetupHint"
    /\ IF Click \/ LongPress THEN GoesTo(u, "Home") ELSE Stays(u)

HandleMessage(u) ==
    /\ u.mode = "Message"
    /\ IF u.messageOver \/ Click THEN GoesTo(u, "Home") ELSE Stays(u)

HandlePage(u, items) ==
    \/ HandleHome(u) \/ HandleMenu(u, items) \/ HandleWifiScan(u) \/ HandleEntry(u)
    \/ HandleTimezone(u) \/ HandleEditor(u) \/ HandleNtpStats(u) \/ HandleWebHint(u)
    \/ HandleMessage(u)

\* The rest of loop: the first input after a blank only wakes the panel.
HandleInput(items) ==
    /\ \/ ui.screenOff /\ Stays(IF AnyInput THEN ScreenOn(ui) ELSE ui)
       \/ ~ui.screenOff /\ ~AnyInput /\ ui.idle /\ Stays([ui EXCEPT !.screenOff = TRUE])
       \/ ~ui.screenOff /\ (AnyInput \/ ~ui.idle)
            /\ HandlePage([ui EXCEPT !.idle = @ /\ ~AnyInput], items)
    /\ UNCHANGED <<uiMsg, scan, job>>

-----------------------------------------------------------------------------
(* task-net (main.cpp).                                                     *)

\* handleNetRequest
TakeNetRequest ==
    /\ netReq # <<>> /\ netReq' = Tail(netReq)
    /\ job' = IF Head(netReq).type = "ScanWifi"
              THEN [ pending |-> TRUE, seq |-> Head(netReq).seq ] ELSE job
    /\ UNCHANGED <<ui, uiMsg, scan>>

\* notifyScanToUi
NotifyScan ==
    /\ job.pending
    /\ \E n \in 0..MaxNetworks : scan' = [ results |-> n, ready |-> TRUE ]
    /\ uiMsg' = Sent(uiMsg, [ type |-> "ScanResult", seq |-> job.seq ])
    /\ job' = [job EXCEPT !.pending = FALSE]
    /\ UNCHANGED <<ui, netReq>>

\* failScanUi
FailScan ==
    /\ job.pending
    /\ uiMsg' = Sent(uiMsg, [ type |-> "ScanFailed", seq |-> job.seq ])
    /\ job' = [job EXCEPT !.pending = FALSE]
    /\ UNCHANGED <<ui, netReq, scan>>

\* postUiText
PostText ==
    /\ uiMsg' = Sent(uiMsg, Text)
    /\ UNCHANGED <<ui, netReq, scan, job>>

-----------------------------------------------------------------------------
(* The timers of the panel.                                                 *)

ScanTimesOut == ui.scanPending /\ ~ui.timedOut /\ ui' = [ui EXCEPT !.timedOut = TRUE]

MessageIsOver ==
    /\ ui.mode = "Message" /\ ~ui.messageOver /\ ui' = [ui EXCEPT !.messageOver = TRUE]
    /\ UNCHANGED <<netReq, uiMsg, scan, job>>

\* No input for the time after which the panel goes dark.
IdlesOut ==
    /\ ~ui.screenOff /\ ~ui.idle /\ ui' = [ui EXCEPT !.idle = TRUE]
    /\ UNCHANGED <<netReq, uiMsg, scan, job>>

-----------------------------------------------------------------------------

\* What a click would choose is in the list: networks_ and wifiIndex_ are
\* written by the menu, by the cursor and by answers that may come late, twice,
\* or in the place of another, and networks_[wifiIndex_] is not checked.
CursorInList == ui.networks > 0 => ui.wifiIndex < ui.networks
=============================================================================
