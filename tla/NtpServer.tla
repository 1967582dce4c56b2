------------------------------ MODULE NtpServer ------------------------------
(***************************************************************************)
(* ntp_server.cpp: which requests are answered, kissed or dropped.  A packet*)
(* passes the length check, the access list, the global window and the slot *)
(* of its client, in that order; while an upload or a download runs every   *)
(* packet takes the refusing path instead.                                  *)
(*                                                                          *)
(* Time is millis in a coarser unit: it wraps at Wrap as a uint32_t does at *)
(* 2^32, and every difference is taken modulo Wrap.  now itself never wraps *)
(* and is seen by the properties only.                                      *)
(*                                                                          *)
(* Abstracted: the statistics counters, which count the replies, and the    *)
(* fields of a reply other than its kind (NtpReply has those of an answer). *)
(***************************************************************************)
EXTENDS Integers, FiniteSets, FiniteSetsExt

CONSTANTS
    Client,                  \* addresses of clients
    NTP_CLIENT_SLOTS,
    NTP_RATE_PER_IP_PER_SEC,
    NTP_GLOBAL_RATE_PER_SEC,
    NTP_RATE_WINDOW_MS,
    NTP_RATE_TO_DENY_MS,     \* sustained excess that is denied
    NTP_DENY_COOLDOWN_MS,
    NTP_MAX_PACKETS_PER_LOOP,
    Wrap,                    \* values of a uint32_t
    AccessLists,             \* what the settings allow: a list, or everybody
    Starts,                  \* uptimes at which an exploration begins
    TimeSteps,               \* how far the time may advance in one step
    MaxNow                   \* bound: the time at which an exploration stops

Off == [ mode |-> "Off", ips |-> {} ]
NoClient == "none"
NoBatch == [ path |-> "none", left |-> 0, kissed |-> FALSE ]
NoReply == [ to |-> NoClient, kind |-> "none" ]

ASSUME ServerAssumption ==
    /\ NoClient \notin Client
    /\ NTP_CLIENT_SLOTS \in Nat \ {0}
    /\ NTP_RATE_PER_IP_PER_SEC \in Nat \ {0} /\ NTP_GLOBAL_RATE_PER_SEC \in Nat \ {0}
    /\ NTP_RATE_WINDOW_MS \in Nat \ {0} /\ NTP_RATE_TO_DENY_MS \in Nat \ {0}
    /\ NTP_DENY_COOLDOWN_MS \in Nat /\ NTP_DENY_COOLDOWN_MS >= NTP_RATE_WINDOW_MS
    /\ NTP_MAX_PACKETS_PER_LOOP \in Nat \ {0}
    /\ Wrap \in Nat /\ Wrap > 2 * NTP_DENY_COOLDOWN_MS
    /\ \A acl \in AccessLists : acl.mode \in {"Off", "AllowList"} /\ acl.ips \subseteq Client
    /\ Starts \subseteq Nat /\ TimeSteps \subseteq Nat \ {0} /\ MaxNow \in Nat

VARIABLES
    now,      \* uptime; millis is now % Wrap
    clients,  \* clients_
    global,   \* globalWindowStartMs_ and globalWindowCount_
    acl,      \* acl_
    shed,     \* ipcShedNtp: an upload or a download runs
    batch,    \* the call in progress: its path, the packets left, the kiss sent
    reply     \* of the last step: whose packet it handled, and what became of it

vars == <<now, clients, global, acl, shed, batch, reply>>

Slot == 1..NTP_CLIENT_SLOTS
Millis == now % Wrap
Since(t) == (Millis - t) % Wrap

\* Fault: the two times are compared as they stand.
BeforePlain(t) == Millis < t

\* static_cast<int32_t>(nowMs - t) < 0
Before(t) == Since(t) >= Wrap \div 2

FreeSlot == [ ip |-> NoClient, windowStart |-> 0, windowCount |-> 0,
              overSince |-> 0, denyUntil |-> 0, lastSeen |-> 0 ]

Init ==
    /\ now \in Starts
    /\ clients = [ i \in Slot |-> FreeSlot ]
    /\ global = [ start |-> 0, count |-> 0 ]
    /\ acl \in AccessLists
    /\ shed = FALSE
    /\ batch = NoBatch
    /\ reply = NoReply

-----------------------------------------------------------------------------
(* The slot of a client.                                                    *)

Held(ip) == { i \in Slot : clients[i].ip = ip }

\* The oldest lastSeenMs, read as a plain number; the last one of equals.
Lru == Max({ i \in Slot : \A j \in Slot : clients[i].lastSeen <= clients[j].lastSeen })

\* Fault: a free slot is taken before the own one is looked for.
FindClientSlotFree(ip) ==
    IF Held(NoClient) # {} THEN Min(Held(NoClient))
    ELSE IF Held(ip) # {} THEN Min(Held(ip))
    ELSE Lru

FindClientSlot(ip) ==
    IF Held(ip) # {} THEN Min(Held(ip))
    ELSE IF Held(NoClient) # {} THEN Min(Held(NoClient))
    ELSE Lru

\* Fault: only a new slot is stamped.
SeenOnce(ip) ==
    LET slot == clients[FindClientSlot(ip)]
        fresh == [ FreeSlot EXCEPT !.ip = ip, !.windowStart = Millis, !.lastSeen = Millis ]
    IN IF slot.ip = ip THEN slot ELSE fresh

\* The slot as admitClient starts with it: found, or taken over.
Seen(ip) ==
    LET slot == clients[FindClientSlot(ip)]
        fresh == [ FreeSlot EXCEPT !.ip = ip, !.windowStart = Millis ]
    IN [ (IF slot.ip = ip THEN slot ELSE fresh) EXCEPT !.lastSeen = Millis ]

-----------------------------------------------------------------------------
(* Admission.                                                               *)

AclAllows(ip) == acl.mode = "AllowList" => ip \in acl.ips

\* Fault: the count starts over, the window does not.
GlobalWindowAnchored ==
    IF global.start = 0 THEN [ start |-> Millis, count |-> 0 ]
    ELSE IF Since(global.start) >= NTP_RATE_WINDOW_MS THEN [global EXCEPT !.count = 0]
    ELSE global

\* The global window: what it is after the packet, and whether the packet fits.
GlobalWindow ==
    IF global.start = 0 \/ Since(global.start) >= NTP_RATE_WINDOW_MS
    THEN [ start |-> Millis, count |-> 0 ]
    ELSE global

AdmitsGlobal == GlobalWindow.count < NTP_GLOBAL_RATE_PER_SEC

\* A cooldown that is over is forgotten, and a new window begins.
CoolDown(c) ==
    IF c.denyUntil # 0 /\ ~Before(c.denyUntil)
    THEN [c EXCEPT !.denyUntil = 0, !.overSince = 0, !.windowStart = Millis, !.windowCount = 0]
    ELSE c

\* Fault: the count starts over, the window does not.
RollWindowAnchored(c) ==
    IF c.windowStart = 0 \/ Since(c.windowStart) >= NTP_RATE_WINDOW_MS
    THEN [c EXCEPT !.overSince = IF c.windowCount <= NTP_RATE_PER_IP_PER_SEC THEN 0 ELSE @,
                   !.windowCount = 0]
    ELSE c

\* A window that is over: only a compliant one clears the sustained excess.
RollWindow(c) ==
    IF c.windowStart = 0 \/ Since(c.windowStart) >= NTP_RATE_WINDOW_MS
    THEN [c EXCEPT !.overSince = IF c.windowCount <= NTP_RATE_PER_IP_PER_SEC THEN 0 ELSE @,
                   !.windowStart = Millis,
                   !.windowCount = 0]
    ELSE c

\* Fault: the last request of the quota is refused.
JudgeStrict(c) ==
    LET counted == [c EXCEPT !.windowCount = @ + 1]
        over == [counted EXCEPT !.overSince = IF @ = 0 THEN Millis ELSE @]
    IN IF counted.windowCount < NTP_RATE_PER_IP_PER_SEC
         THEN [ slot |-> counted, admit |-> "Allow" ]
       ELSE [ slot |-> over, admit |-> "Rate" ]

\* Fault: the excess is aged before it is stamped.
JudgeUnstamped(c) ==
    LET counted == [c EXCEPT !.windowCount = @ + 1]
        denied == [counted EXCEPT !.denyUntil = (Millis + NTP_DENY_COOLDOWN_MS) % Wrap]
    IN IF counted.windowCount <= NTP_RATE_PER_IP_PER_SEC
         THEN [ slot |-> counted, admit |-> "Allow" ]
       ELSE IF Since(counted.overSince) >= NTP_RATE_TO_DENY_MS
         THEN [ slot |-> denied, admit |-> "Deny" ]
       ELSE [ slot |-> [counted EXCEPT !.overSince = Millis], admit |-> "Rate" ]

\* The slot after the packet is counted, and the verdict.
Judge(c) ==
    LET counted == [c EXCEPT !.windowCount = @ + 1]
        over == [counted EXCEPT !.overSince = IF @ = 0 THEN Millis ELSE @]
        denied == [over EXCEPT !.denyUntil = (Millis + NTP_DENY_COOLDOWN_MS) % Wrap,
                               !.overSince = 0]
    IN IF counted.windowCount <= NTP_RATE_PER_IP_PER_SEC
         THEN [ slot |-> counted, admit |-> "Allow" ]
       ELSE IF Since(over.overSince) >= NTP_RATE_TO_DENY_MS
         THEN [ slot |-> denied, admit |-> "Deny" ]
       ELSE [ slot |-> over, admit |-> "Rate" ]

AdmitClient(ip) ==
    LET c == Seen(ip)
    IN IF c.denyUntil # 0 /\ Before(c.denyUntil)
       THEN [ slot |-> c, admit |-> "Drop" ]
       ELSE Judge(RollWindow(CoolDown(c)))

-----------------------------------------------------------------------------
(* The calls of task-time.                                                  *)

Advance ==
    /\ \E d \in TimeSteps : now + d <= MaxNow /\ now' = now + d
    /\ reply' = NoReply
    /\ UNCHANGED <<clients, global, acl, shed, batch>>

\* An upload or a download begins or ends.
ToggleShed ==
    /\ shed' = ~shed
    /\ reply' = NoReply
    /\ UNCHANGED <<now, clients, global, acl, batch>>

Call(path) == [ path |-> path, left |-> NTP_MAX_PACKETS_PER_LOOP, kissed |-> FALSE ]

\* The path is chosen once per call; the settings are read on the serving one.
StartLoop ==
    /\ batch = NoBatch
    /\ \/ shed /\ batch' = Call("refuse") /\ UNCHANGED acl
       \/ ~shed /\ batch' = Call("serve") /\ acl' \in AccessLists
    /\ reply' = NoReply
    /\ UNCHANGED <<now, clients, global, shed>>

\* The socket is empty.
EndLoop ==
    /\ batch # NoBatch
    /\ batch' = NoBatch
    /\ reply' = NoReply
    /\ UNCHANGED <<now, clients, global, acl, shed>>

\* A packet is handled, the last one of the call or not.
TakePacket(path, kissed) ==
    /\ batch.path = path
    /\ batch' = IF batch.left = 1 THEN NoBatch
                ELSE [batch EXCEPT !.left = @ - 1, !.kissed = kissed]
    /\ UNCHANGED <<now, acl, shed>>

Outcome(ip, kind) == reply' = [ to |-> ip, kind |-> kind ]

\* Fault: the access list is asked after the global window has counted.
HandlePacketAclLate(ip) ==
    /\ TakePacket("serve", FALSE)
    /\ global' = IF AdmitsGlobal THEN [GlobalWindow EXCEPT !.count = @ + 1] ELSE GlobalWindow
    /\ IF AdmitsGlobal /\ AclAllows(ip)
       THEN LET admitted == AdmitClient(ip)
            IN /\ clients' = [clients EXCEPT ![FindClientSlot(ip)] = admitted.slot]
               /\ Outcome(ip, admitted.admit)
       ELSE /\ Outcome(ip, IF AdmitsGlobal THEN "NotAllowed" ELSE "Flood")
            /\ UNCHANGED clients

\* One packet of at least 48 bytes on the serving path.
HandlePacket(ip) ==
    /\ TakePacket("serve", FALSE)
    /\ \/ /\ ~AclAllows(ip)
          /\ Outcome(ip, "NotAllowed")
          /\ UNCHANGED <<clients, global>>
       \/ /\ AclAllows(ip)
          /\ ~AdmitsGlobal
          /\ global' = GlobalWindow
          /\ Outcome(ip, "Flood")
          /\ UNCHANGED clients
       \/ /\ AclAllows(ip)
          /\ AdmitsGlobal
          /\ global' = [GlobalWindow EXCEPT !.count = @ + 1]
          /\ LET admitted == AdmitClient(ip)
             IN /\ clients' = [clients EXCEPT ![FindClientSlot(ip)] = admitted.slot]
                /\ Outcome(ip, admitted.admit)

\* While shedding, the first packet of a call is told that the server restarts
\* and the others are dropped: no access list, no window, no slot.
RefusePacket(ip) ==
    /\ TakePacket("refuse", TRUE)
    /\ Outcome(ip, IF batch.kissed THEN "Refused" ELSE "Restarting")
    /\ UNCHANGED <<clients, global>>

\* A packet too short for NTP only takes its turn.
ShortPacket(ip) ==
    /\ batch # NoBatch
    /\ TakePacket(batch.path, batch.kissed)
    /\ Outcome(ip, "Short")
    /\ UNCHANGED <<clients, global>>

Packet == \E ip \in Client : HandlePacket(ip) \/ RefusePacket(ip) \/ ShortPacket(ip)

Next == Advance \/ ToggleShed \/ StartLoop \/ EndLoop \/ Packet

Spec == Init /\ [][Next]_vars

-----------------------------------------------------------------------------
(* Properties.                                                              *)

ClientSlot ==
    [ ip : Client \cup {NoClient}, windowStart : 0..(Wrap - 1), windowCount : Nat,
      overSince : 0..(Wrap - 1), denyUntil : 0..(Wrap - 1), lastSeen : 0..(Wrap - 1) ]

\* No address has two slots: a client cannot escape its record by a second one.
TypeOK ==
    /\ now \in Nat
    /\ clients \in [ Slot -> ClientSlot ]
    /\ \A ip \in Client : Cardinality(Held(ip)) <= 1
    /\ global \in [ start : 0..(Wrap - 1), count : 0..NTP_GLOBAL_RATE_PER_SEC ]
    /\ acl \in AccessLists
    /\ shed \in BOOLEAN
    /\ batch \in [ path : {"none", "serve", "refuse"},
                   left : 0..NTP_MAX_PACKETS_PER_LOOP, kissed : BOOLEAN ]
    /\ reply.to \in Client \cup {NoClient}
=============================================================================
