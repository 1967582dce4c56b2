------------------------------ MODULE WifiNet ------------------------------
(***************************************************************************)
(* The WiFi half of task-net: the sessions of main.cpp (join, scan, address *)
(* probe, setup portal) on top of wifi_manager.cpp, against the event       *)
(* callback, which does no more than set bits, and the radio.               *)
(*                                                                          *)
(* task-net goes round: driveScan, requests, driveScan, the three parts of  *)
(* pollNetWork, the web server.  The radio, the callback and time move      *)
(* between any two of them.                                                 *)
(*                                                                          *)
(* Abstracted: credentials are an SSID; addresses are left out, so a static *)
(* one joins like any other; a list of networks is empty or not; times are  *)
(* counted down in ticks, and attempts no further than the backoff and the  *)
(* limit tell them apart.  A lock of the settings is always had.            *)
(***************************************************************************)
EXTENDS Integers, Sequences

CONSTANTS
    Ssids,                  \* networks there are
    NoSsid,                 \* nothing is stored
    Requests,               \* kinds of request from display and web
    MaxRequests,            \* bound: requests explored
    WIFI_CONNECT_TIMEOUT, WIFI_SCAN_TIMEOUT, WIFI_SCAN_UI_TIMEOUT,
    WIFI_SCAN_CACHE, IP_CONFLICT_TIMEOUT,       \* in ticks
    Backoff,                \* WIFI_RECONNECT_BACKOFF_0 and on, in ticks
    WIFI_RECONNECT_MAX_ATTEMPTS, WIFI_RECONNECT_GIVEUP,     \* 0: no limit
    WIFI_LINK_LOSS_RETRY_FOREVER    \* a lost link knows none of them

ASSUME WifiAssumption ==
    /\ NoSsid \notin Ssids
    /\ MaxRequests \in Nat
    /\ WIFI_CONNECT_TIMEOUT \in Nat /\ WIFI_SCAN_TIMEOUT \in Nat
    /\ WIFI_SCAN_UI_TIMEOUT \in Nat /\ WIFI_SCAN_CACHE \in Nat /\ IP_CONFLICT_TIMEOUT \in Nat
    /\ Backoff \in Seq(Nat) /\ Len(Backoff) > 1
    /\ WIFI_RECONNECT_MAX_ATTEMPTS \in 0..Len(Backoff) /\ WIFI_RECONNECT_GIVEUP \in Nat
    /\ WIFI_LINK_LOSS_RETRY_FOREVER \in BOOLEAN

VARIABLES
    net,        \* gNetWork and its companions in main.cpp, with gIpc.setupAp
    wifi,       \* the WifiManager
    evt,        \* the bits the callback sets, and the last reason
    radio,      \* the WiFi library and the air
    saved,      \* the SSID in the settings
    pc,         \* where task-net is in its loop
    asked       \* requests so far

wifiVars == <<net, wifi, evt, radio, saved, pc, asked>>

\* All that a method of task-net may read and write.
Dev == [ net |-> net, wifi |-> wifi, evt |-> evt, radio |-> radio ]

Becomes(d) ==
    net' = d.net /\ wifi' = d.wifi /\ evt' = d.evt /\ radio' = d.radio

-----------------------------------------------------------------------------
(* WifiManager.                                                             *)

StaUp(d) == d.radio.sta = "up"
Connecting(d) == d.wifi.connect = "Connecting"
ScanRunning(d) == d.wifi.scan = "Running"
ProbeRunning(d) == d.wifi.probe = "Running"
Busy(d) == Connecting(d) \/ ScanRunning(d) \/ ProbeRunning(d)

CancelAutoReconnect(d) ==
    [d EXCEPT !.wifi.armed = FALSE, !.wifi.attempt = 0, !.wifi.next = 0,
              !.wifi.window = 0, !.wifi.linkLoss = FALSE]

\* A schedule for a link that is lost: every caller's is.
Armed(d, ssid, delay) ==
    [d EXCEPT !.wifi.creds = ssid, !.wifi.armed = TRUE, !.wifi.attempt = 0,
              !.wifi.next = delay, !.wifi.window = WIFI_RECONNECT_GIVEUP, !.wifi.linkLoss = TRUE]

ArmReconnect(d, ssid) == IF ssid = NoSsid THEN d ELSE Armed(d, ssid, Backoff[2])

\* Our own leave is reported later, as any other disconnection.
Begin(d, leaves) ==
    [d EXCEPT !.radio.sta = "joining",
              !.radio.leaving = @ \/ (leaves /\ d.radio.sta # "down"),
              !.evt.disc = FALSE]

CanBegin(d, ssid) == ssid # NoSsid /\ ~Busy(d)

BeginConnect(d, ssid) ==
    LET begun == Begin(CancelAutoReconnect(d), d.radio.mode = "STA") IN
    [begun EXCEPT !.wifi.creds = ssid, !.wifi.connect = "Connecting",
                  !.wifi.deadline = WIFI_CONNECT_TIMEOUT, !.evt.gotIp = FALSE,
                  !.radio.mode = IF @ = "STA" THEN @ ELSE "AP_STA"]

StartSetupAp(d) ==
    [CancelAutoReconnect(d) EXCEPT
       !.wifi.connect = "Idle", !.evt.gotIp = FALSE, !.evt.disc = FALSE,
       !.radio.mode = "AP", !.radio.sta = "down",
       !.radio.leaving = @ \/ d.radio.sta # "down", !.net.setupAp = TRUE]

\* Fault: nobody is told.
StopApQuietly(d) == [d EXCEPT !.radio.mode = "STA"]

StopAp(d) == [d EXCEPT !.radio.mode = "STA", !.net.setupAp = FALSE]

\* The link may go between the look at it and the clearing of the bits.
Adopted(d) ==
    LET up == [CancelAutoReconnect(d) EXCEPT !.wifi.connect = "Connected", !.evt.disc = FALSE]
    IN { up, [up EXCEPT !.radio.sta = "down"] }

\* Fault: the link event is the only source.
HealNever(d) == {d}

HealIfStaUp(d) ==
    IF ~StaUp(d) \/ d.wifi.connect = "Connected" THEN {d}
    ELSE { [x EXCEPT !.evt.gotIp = FALSE] : x \in Adopted(d) }

PollConnect(d) ==
    LET failed == [d EXCEPT !.wifi.connect = "Failed", !.evt.disc = FALSE]
        quiet == [d EXCEPT !.evt.disc = FALSE]
    IN CASE ~Connecting(d) -> {d}
         [] Connecting(d) /\ d.evt.gotIp ->
              { [CancelAutoReconnect(d) EXCEPT !.wifi.connect = "Connected", !.evt.gotIp = FALSE] }
         [] Connecting(d) /\ ~d.evt.gotIp /\ StaUp(d) -> Adopted(d)
         [] Connecting(d) /\ ~d.evt.gotIp /\ ~StaUp(d) /\ d.evt.disc ->
              CASE d.evt.reason = "leave" -> {quiet}
                [] d.evt.reason = "noAp" ->
                     IF d.wifi.deadline = 0 THEN {failed} ELSE {quiet, Begin(quiet, TRUE)}
                [] OTHER -> {failed}
         [] OTHER ->
              IF d.wifi.deadline = 0 THEN {failed} ELSE {d, Begin(d, TRUE)}

ConsumeDisconnect(d) ==
    IF ~d.evt.disc THEN d
    ELSE IF d.wifi.connect # "Connected" THEN [d EXCEPT !.evt.disc = FALSE]
    ELSE LET lost == [d EXCEPT !.evt.disc = FALSE, !.wifi.connect = "Idle"] IN
         IF d.wifi.creds = NoSsid THEN lost ELSE Armed(lost, d.wifi.creds, Backoff[1])

\* backoffMsForAttempt
BackoffFor(attempt) ==
    IF attempt + 1 < Len(Backoff) THEN Backoff[attempt + 1] ELSE Backoff[Len(Backoff)]

RetryForever(d) == d.wifi.linkLoss /\ WIFI_LINK_LOSS_RETRY_FOREVER

LimitReached(d) ==
    \/ WIFI_RECONNECT_GIVEUP # 0 /\ d.wifi.window = 0
    \/ WIFI_RECONNECT_MAX_ATTEMPTS # 0 /\ d.wifi.attempt >= WIFI_RECONNECT_MAX_ATTEMPTS

\* Attempts are counted up to the end of the backoff table.
NextAttempt(d) == IF d.wifi.attempt < Len(Backoff) THEN d.wifi.attempt + 1 ELSE d.wifi.attempt

\* Fault: the join forgets that it is for a link that was lost.
RetriedAsAnyOther(d) ==
    [BeginConnect(d, d.wifi.creds) EXCEPT
       !.wifi.armed = TRUE, !.wifi.attempt = NextAttempt(d),
       !.wifi.next = BackoffFor(NextAttempt(d)), !.wifi.window = d.wifi.window,
       !.net.pendingSta = d.wifi.creds, !.net.fromAuto = TRUE, !.net.work = "Connecting"]

\* The join that the schedule begins keeps the schedule.
Retried(d) ==
    [BeginConnect(d, d.wifi.creds) EXCEPT
       !.wifi.armed = TRUE, !.wifi.attempt = NextAttempt(d),
       !.wifi.next = BackoffFor(NextAttempt(d)), !.wifi.window = d.wifi.window,
       !.wifi.linkLoss = d.wifi.linkLoss,
       !.net.pendingSta = d.wifi.creds, !.net.fromAuto = TRUE, !.net.work = "Connecting"]

PollAutoReconnect(d) ==
    IF ~d.wifi.armed THEN {d}
    ELSE IF StaUp(d) THEN HealIfStaUp(d)
    ELSE IF Busy(d) THEN {d}
    ELSE IF d.wifi.creds = NoSsid THEN { CancelAutoReconnect(d) }
    ELSE IF ~RetryForever(d) /\ LimitReached(d)
    THEN { [CancelAutoReconnect(d) EXCEPT !.wifi.gaveUp = TRUE] }
    ELSE IF d.wifi.next > 0 THEN {d}
    ELSE { Retried(d) }

HarvestScanResults(d) ==
    CASE d.radio.scan = "running" -> d
      [] d.radio.scan = "none" -> [d EXCEPT !.wifi.scan = "Failed"]
      [] OTHER -> [d EXCEPT !.wifi.scan = "Done", !.wifi.lastScan = d.radio.scan = "some",
                            !.wifi.fresh = WIFI_SCAN_CACHE, !.radio.scan = "none"]

PeekScanDone(d) == d.evt.scanDone \/ d.radio.scan \in {"some", "empty"}

\* What is there already is harvested first; without a station the radio gets
\* one.  The library may refuse.
StartScan(d) ==
    IF ProbeRunning(d) \/ (Connecting(d) /\ ~StaUp(d)) THEN {d}
    ELSE IF ScanRunning(d) THEN {d}
    ELSE LET kept == IF PeekScanDone(d) THEN HarvestScanResults(d) ELSE d
             ready == [kept EXCEPT !.evt.scanDone = FALSE,
                                   !.radio.mode = IF @ = "AP" THEN "AP_STA" ELSE @]
         IN IF PeekScanDone(d) /\ kept.wifi.scan = "Done" /\ kept.wifi.lastScan THEN {kept}
            ELSE { [ready EXCEPT !.wifi.scan = "Failed"],
                   [ready EXCEPT !.wifi.scan = "Running", !.wifi.scanLeft = WIFI_SCAN_TIMEOUT,
                                 !.radio.scan = "running"] }

PollScan(d) ==
    LET taken == [d EXCEPT !.evt.scanDone = FALSE] IN
    IF ~ScanRunning(d) THEN d
    ELSE IF d.radio.scan = "running" /\ ~d.evt.scanDone
    THEN IF d.wifi.scanLeft = 0 THEN [taken EXCEPT !.wifi.scan = "Failed"] ELSE taken
    ELSE HarvestScanResults(taken)

-----------------------------------------------------------------------------
(* The sessions of main.cpp.                                                *)

OpenSetupApIfNeeded(d) == IF StaUp(d) \/ d.net.setupAp THEN d ELSE StartSetupAp(d)

StartStaConnect(d, ssid) ==
    IF d.net.work # "Idle" \/ ~CanBegin(d, ssid) THEN d
    ELSE [BeginConnect(d, ssid) EXCEPT !.net.pendingSta = ssid, !.net.fromAuto = FALSE,
                                       !.net.work = "Connecting"]

\* Fault: the session outlives its answer.
ScanAnsweredStill(d) == [d EXCEPT !.net.scanPending = FALSE, !.net.wait = 0]

\* notifyScanToUi with something to show, failScanUi
ScanAnswered(d) ==
    [d EXCEPT !.net.scanPending = FALSE, !.net.wait = 0,
              !.net.work = IF @ = "Scanning" THEN "Idle" ELSE @]

Notify(d) == IF ~d.net.scanPending /\ d.net.work # "Scanning" THEN d ELSE ScanAnswered(d)

\* Whether StartScan did: it runs, or what was there already will do.
Started(d, x) == ScanRunning(x) \/ (PeekScanDone(d) /\ x.wifi.scan = "Done" /\ x.wifi.lastScan)

\* Fault: a scan may start during a join.
TryStartScanBlindly(d) ==
    IF ~d.net.scanPending THEN {d}
    ELSE { IF Started(d, x) THEN [x EXCEPT !.net.work = "Scanning"] ELSE x : x \in StartScan(d) }

TryStartPendingScan(d) ==
    IF ~d.net.scanPending THEN {d}
    ELSE IF ScanRunning(d) THEN { [d EXCEPT !.net.work = "Scanning"] }
    ELSE IF d.wifi.scan = "Done" /\ d.wifi.lastScan /\ d.wifi.fresh > 0 THEN { Notify(d) }
    ELSE IF \/ d.net.work \in {"Probing", "Connecting"}
            \/ ProbeRunning(d)
            \/ Connecting(d) /\ ~StaUp(d)
    THEN {d}
    ELSE { IF Started(d, x) THEN [x EXCEPT !.net.work = "Scanning"] ELSE x : x \in StartScan(d) }

DriveScan(d) ==
    LET first ==
          IF d.net.scanPending /\ d.net.wait = 0
          THEN IF d.wifi.lastScan \/ ~ScanRunning(d) THEN { ScanAnswered(d) } ELSE {d}
          ELSE IF d.net.scanPending /\ d.net.work # "Scanning" /\ ~ScanRunning(d)
          THEN TryStartPendingScan(d)
          ELSE {d}
        needed(x) == x.net.work = "Scanning" \/ ScanRunning(x) \/ PeekScanDone(x)
        retried(p) ==
          IF ~p.net.scanPending THEN {p}
          ELSE TryStartPendingScan([p EXCEPT !.net.work = IF @ = "Scanning" THEN "Idle" ELSE @])
        then(p) ==
          IF ScanRunning(p) THEN {p}
          ELSE IF p.wifi.scan = "Done" \/ p.wifi.lastScan THEN { Notify(p) }
          ELSE retried(p)
    IN UNION { IF needed(x) THEN then(PollScan(x)) ELSE {x} : x \in first }

\* A join that fails opens the portal only when there is nothing to retry.
FinishConnect(d) ==
    LET idle == [d EXCEPT !.net.work = "Idle", !.net.fromAuto = FALSE] IN
    TryStartPendingScan(
      IF d.wifi.connect = "Connected" THEN [StopAp(idle) EXCEPT !.net.bootNeedAp = FALSE]
      ELSE IF d.net.fromAuto \/ ~d.net.bootNeedAp THEN idle
      ELSE IF d.net.pendingSta # NoSsid THEN ArmReconnect(idle, d.net.pendingSta)
      ELSE [OpenSetupApIfNeeded(idle) EXCEPT !.net.bootNeedAp = FALSE])

\* A request of display or web portal.
HandleConnect(d, ssid) == { StartStaConnect(d, ssid) }

HandleScan(d) ==
    TryStartPendingScan([d EXCEPT !.net.scanPending = TRUE, !.net.wait = WIFI_SCAN_UI_TIMEOUT])

\* Without a link it joins, with one it probes, unless nothing has changed or
\* the probe cannot be sent.
HandleStaticIp(d) ==
    IF d.net.work # "Idle" \/ Busy(d) THEN {d}
    ELSE IF ~StaUp(d) THEN { StartStaConnect(d, saved) }
    ELSE { d, [d EXCEPT !.wifi.probe = "Failed"],
           [d EXCEPT !.wifi.probe = "Running", !.wifi.probeLeft = IP_CONFLICT_TIMEOUT,
                     !.net.pendingSta = saved, !.net.work = "Probing"] }

HandleDhcp(d) == { StartStaConnect(d, saved) }

HandleWebSetup(d) == { StartSetupAp(d) }

\* GET /scan
HandleWebScan(d) ==
    IF Connecting(d) /\ ~StaUp(d) THEN {d}
    ELSE IF ScanRunning(d) \/ PeekScanDone(d)
            \/ (d.wifi.scan = "Done" /\ d.wifi.lastScan /\ d.wifi.fresh > 0)
    THEN { PollScan(d) }
    ELSE { IF Started(d, x) THEN PollScan(x) ELSE x : x \in StartScan(d) }

-----------------------------------------------------------------------------
(* task-net.                                                                *)

WifiInit ==
    /\ saved \in Ssids \cup {NoSsid}
    /\ LET fresh ==
             [ net |-> [ work |-> "Idle", scanPending |-> FALSE, wait |-> 0, pendingSta |-> NoSsid,
                         bootNeedAp |-> FALSE, fromAuto |-> FALSE, setupAp |-> FALSE ],
               wifi |-> [ connect |-> "Idle", deadline |-> 0, scan |-> "Idle", scanLeft |-> 0,
                          lastScan |-> FALSE, fresh |-> 0, probe |-> "Idle", probeLeft |-> 0,
                          armed |-> FALSE, attempt |-> 0, next |-> 0, window |-> 0,
                          linkLoss |-> FALSE, gaveUp |-> FALSE, creds |-> NoSsid ],
               evt |-> [ gotIp |-> FALSE, disc |-> FALSE, scanDone |-> FALSE, reason |-> "none" ],
               radio |-> [ mode |-> "STA", sta |-> "down", scan |-> "none", leaving |-> FALSE ] ]
           d == IF saved = NoSsid THEN StartSetupAp(fresh)
                ELSE [StartStaConnect(fresh, saved) EXCEPT !.net.bootNeedAp = TRUE]
       IN net = d.net /\ wifi = d.wifi /\ evt = d.evt /\ radio = d.radio
    /\ pc = "scan"
    /\ asked = 0

At(here, there) == pc = here /\ pc' = there

Drive ==
    /\ At("scan", "requests") \/ At("scan again", "heal")
    /\ \E d \in DriveScan(Dev) : Becomes(d)
    /\ UNCHANGED <<saved, asked>>

Request(kind, ssid) ==
    /\ asked < MaxRequests
    /\ asked' = asked + 1
    /\ At("requests", "requests")
    /\ saved' = IF kind = "connect" THEN ssid ELSE saved
    /\ \E d \in CASE kind = "connect" -> HandleConnect(Dev, ssid)
                  [] kind = "scan" -> HandleScan(Dev)
                  [] kind = "static" -> HandleStaticIp(Dev)
                  [] kind = "dhcp" -> HandleDhcp(Dev)
                  [] OTHER -> HandleWebSetup(Dev) : Becomes(d)

NoRequest ==
    /\ At("requests", "scan again")
    /\ UNCHANGED <<net, wifi, evt, radio, saved, asked>>

\* The first part of pollDisconnectAndReconnect: a link nobody noticed.
Heal ==
    /\ At("heal", "disc")
    /\ IF net.work = "Idle" /\ StaUp(Dev) /\ wifi.connect # "Connected"
       THEN \E x \in HealIfStaUp(Dev) :
            \E d \in TryStartPendingScan([StopAp(x) EXCEPT !.net.bootNeedAp = FALSE]) : Becomes(d)
       ELSE UNCHANGED <<net, wifi, evt, radio>>
    /\ UNCHANGED <<saved, asked>>

\* The schedule has given up: the portal is the way out, unless the link came
\* back meanwhile.
ConsumeGiveUp(d) ==
    LET noted == [d EXCEPT !.wifi.gaveUp = FALSE]
        settled(x) == [x EXCEPT !.net.bootNeedAp = FALSE]
    IN CASE ~d.wifi.gaveUp -> {d}
         [] d.wifi.gaveUp /\ StaUp(d) -> { settled(x) : x \in HealIfStaUp(noted) }
         [] d.wifi.gaveUp /\ ~StaUp(d) /\ (d.net.bootNeedAp \/ ~d.net.setupAp) ->
              { settled(OpenSetupApIfNeeded(noted)) }
         [] OTHER -> {noted}

\* The second: a link that was lost.  A join has its own way to hear of it.
Disconnect ==
    /\ At("disc", "rearm")
    /\ \E d \in ConsumeGiveUp(IF net.work = "Connecting" THEN Dev ELSE ConsumeDisconnect(Dev)) :
          Becomes(d)
    /\ UNCHANGED <<saved, asked>>

\* Fault: no safety net.
Unarmed(d) == d

\* Whatever has dropped the schedule, it is taken up again.
Rearmed(d) ==
    IF ~StaUp(d) /\ ~d.net.setupAp /\ ~d.wifi.armed /\ ~Busy(d)
    THEN ArmReconnect(d, saved) ELSE d

\* The third: the next attempt.
Reconnect ==
    /\ At("rearm", "work")
    /\ IF net.work = "Idle"
       THEN \E d \in PollAutoReconnect(Rearmed(Dev)) : Becomes(d)
       ELSE UNCHANGED <<net, wifi, evt, radio>>
    /\ UNCHANGED <<saved, asked>>

\* The switch of pollNetWork.
Work ==
    /\ At("work", "portal")
    /\ \/ /\ net.work \in {"Idle", "Scanning"}
          /\ UNCHANGED <<net, wifi, evt, radio>>
       \/ /\ net.work = "Connecting"
          /\ \E x \in PollConnect(Dev) :
             \E d \in (IF Connecting(x) THEN {x} ELSE FinishConnect(x)) : Becomes(d)
       \/ /\ net.work = "Probing"
          /\ wifi.probeLeft > 0
          /\ UNCHANGED <<net, wifi, evt, radio>>
       \/ /\ net.work = "Probing"
          /\ Becomes([Dev EXCEPT !.wifi.probe = "Conflict", !.net.work = "Idle"])
       \/ /\ net.work = "Probing"
          /\ wifi.probeLeft = 0
          /\ Becomes(StartStaConnect([Dev EXCEPT !.wifi.probe = "Clear", !.net.work = "Idle"],
                                     net.pendingSta))
    /\ UNCHANGED <<saved, asked>>

WebScan ==
    /\ "web scan" \in Requests
    /\ asked < MaxRequests
    /\ asked' = asked + 1
    /\ At("portal", "scan")
    /\ \E d \in HandleWebScan(Dev) : Becomes(d)
    /\ UNCHANGED saved

NoWebScan ==
    /\ At("portal", "scan")
    /\ UNCHANGED <<net, wifi, evt, radio, saved, asked>>

Loop ==
    Drive \/ NoRequest \/ Heal \/ Disconnect \/ Reconnect \/ Work \/ NoWebScan

-----------------------------------------------------------------------------
(* The radio and the callback; time.                                        *)

\* The event, or only its effect, when the event is lost.
LinkUp ==
    /\ radio.sta = "joining"
    /\ radio' = [radio EXCEPT !.sta = "up"]
    /\ \E seen \in BOOLEAN : evt' = [evt EXCEPT !.gotIp = @ \/ seen]
    /\ UNCHANGED <<net, wifi, saved, pc, asked>>

\* A join fails or a link is lost; the library may go on by itself.
LinkDown ==
    /\ radio.sta \in {"joining", "up"}
    /\ \E after \in {"joining", "down"} : radio' = [radio EXCEPT !.sta = after]
    /\ \/ evt' = evt
       \/ \E reason \in {"noAp", "other"} : evt' = [evt EXCEPT !.disc = TRUE, !.reason = reason]
    /\ UNCHANGED <<net, wifi, saved, pc, asked>>

\* The report of a disconnection of our own.
Left ==
    /\ radio.leaving
    /\ radio' = [radio EXCEPT !.leaving = FALSE]
    /\ evt' = [evt EXCEPT !.disc = TRUE, !.reason = "leave"]
    /\ UNCHANGED <<net, wifi, saved, pc, asked>>

ScanEnds ==
    /\ radio.scan = "running"
    /\ \E result \in {"some", "empty", "none"} : radio' = [radio EXCEPT !.scan = result]
    /\ \E seen \in BOOLEAN : evt' = [evt EXCEPT !.scanDone = @ \/ seen]
    /\ UNCHANGED <<net, wifi, saved, pc, asked>>

Down(n) == IF n > 0 THEN n - 1 ELSE 0

TimePasses ==
    /\ net' = [net EXCEPT !.wait = Down(@)]
    /\ wifi' = [wifi EXCEPT !.deadline = Down(@), !.scanLeft = Down(@), !.fresh = Down(@),
                            !.probeLeft = Down(@), !.next = Down(@), !.window = Down(@)]
    /\ <<net', wifi'>> # <<net, wifi>>
    /\ UNCHANGED <<evt, radio, saved, pc, asked>>

WifiNext ==
    \/ Loop
    \/ \E kind \in Requests \ {"web scan"}, ssid \in Ssids : Request(kind, ssid)
    \/ WebScan
    \/ LinkUp \/ LinkDown \/ Left \/ ScanEnds \/ TimePasses

\* task-net runs, time passes, a scan ends, what is tried again and again works.
WifiFairness ==
    /\ WF_wifiVars(Loop) /\ WF_wifiVars(TimePasses) /\ WF_wifiVars(ScanEnds) /\ SF_wifiVars(LinkUp)

WifiSpec == WifiInit /\ [][WifiNext]_wifiVars /\ WifiFairness

-----------------------------------------------------------------------------
(* Properties.                                                              *)

\* Types; what task-net believes to be under way is, and the setup portal is
\* open exactly when the other tasks are told so.
WifiTypeOK ==
    /\ net.work \in {"Idle", "Connecting", "Scanning", "Probing"}
    /\ wifi.connect \in {"Idle", "Connecting", "Connected", "Failed"}
    /\ wifi.scan \in {"Idle", "Running", "Done", "Failed"}
    /\ wifi.armed => wifi.creds \in Ssids
    /\ radio.mode = "AP" => radio.sta = "down"
    /\ net.setupAp <=> radio.mode # "STA"
    /\ net.work = "Scanning" => net.scanPending
    /\ ProbeRunning(Dev) => net.work = "Probing"

\* The portal opens when somebody asks for it: though a join that fails and
\* a schedule that gives up would open it, with a network stored and retries
\* for ever neither comes to that (finishConnect, consumeReconnectGiveUp).
PortalIsAsked == [][~net.setupAp /\ net'.setupAp => pc = "requests"]_wifiVars

\* task-net begins no join it does not poll, and stops polling one only when a
\* scan for the display takes over a scan that is running already; such a scan
\* is begun by the web server alone, and only when the link is up
\* (tryStartPendingScan, startScan, GET /scan).  That it never stops, which
\* main.cpp relies on for the loss of the link ("Connecting owns DISC via
\* pollConnect"), is not so.
JoinStep ==
    LET polled == net.work = "Connecting" IN
    /\ (Connecting(Dev) => polled) /\ Connecting(Dev)' =>
         polled' \/ (Connecting(Dev) /\ ScanRunning(Dev) /\ net'.work = "Scanning")
    /\ Connecting(Dev) /\ Connecting(Dev)' /\ polled /\ ~ScanRunning(Dev) =>
         ~ScanRunning(Dev)' \/ (pc = "portal" /\ StaUp(Dev))

JoinIsKept == [][JoinStep]_wifiVars

\* With credentials stored, the link comes back again and again, unless
\* the portal is open.
RetriesForEver == []<>(radio.sta = "up" \/ net.setupAp)

\* A link that stays is noticed, however the news of it was lost.
LinkIsNoticed == <>[](radio.sta = "up") => <>[](wifi.connect = "Connected")

=============================================================================
