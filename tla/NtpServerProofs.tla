--------------------------- MODULE NtpServerProofs ---------------------------
(***************************************************************************)
(* Machine-checked, for all numbers of clients and slots, all rates, windows*)
(* and cooldowns, and all widths of millis: the types of the server with    *)
(* one slot for an address, the table of slots as a memory of the clients   *)
(* seen last, the bounds on the rates, and the fairness of refusals.        *)
(*                                                                          *)
(* TableHoldsLatest speaks of times the server does not keep.  What carries *)
(* it through a step is SlotsRemember: a slot holds the millis of the last  *)
(* sight of its client, and this is all that the choice of a slot to give   *)
(* up can see.                                                              *)
(*                                                                          *)
(* The rates speak of requests the server does not keep.  What carries them *)
(* is RateInductive: there is a time at which the window of a slot began,   *)
(* and what the slot counts is what was asked since, while the window before*)
(* it left at most its share; and so for the global window.  Nobody learns  *)
(* that a window is over before the next packet comes.                      *)
(* The last theorems assume RegularTraffic, which says for how long a slot  *)
(* may be left alone before its times, compared modulo a turn of millis,    *)
(* lose their meaning.                                                      *)
(***************************************************************************)
EXTENDS MCNtpServer, FiniteSetTheorems, WellFoundedInduction, TLAPS

-----------------------------------------------------------------------------
(* Smallest and largest elements.                                           *)

LEMMA LeastOf ==
    ASSUME NEW S, S \subseteq Nat, S # {}
    PROVE  \E x \in S : \A y \in S : x <= y
<1> DEFINE less == OpToRel(<, Nat)
<1>1. PICK x \in S : \A y \in S : ~(<<y, x>> \in less)
  <2>1. IsWellFoundedOn(less, Nat)
    BY NatLessThanWellFounded
  <2> HIDE DEF less
  <2> QED BY <2>1, WFMin
<1>2. \A y \in S : ~(y < x)
  BY <1>1 DEF OpToRel
<1> QED BY <1>2

LEMMA MinOf ==
    ASSUME NEW S, S \subseteq Nat, S # {}
    PROVE  Min(S) \in S /\ \A y \in S : Min(S) <= y
BY LeastOf DEF Min

\* The largest element is the one nearest to the bound.
LEMMA MaxOf ==
    ASSUME NEW n \in Nat, NEW S, S \subseteq 1..n, S # {}
    PROVE  Max(S) \in S /\ \A y \in S : y <= Max(S)
<1> DEFINE gaps == { n - y : y \in S }
<1>0. \A y \in S : y \in 1..n /\ n - y \in Nat
  OBVIOUS
<1>1. gaps \subseteq Nat /\ gaps # {}
  <2>1. \A y \in S : n - y \in Nat
    BY <1>0
  <2> QED BY <2>1, Zenon
<1>2. PICK g \in gaps : \A h \in gaps : g <= h
  BY <1>1, LeastOf
<1>3. PICK x \in S : g = n - x
  OBVIOUS
<1>4. \A y \in S : n - y \in gaps
  OBVIOUS
<1> HIDE DEF gaps
<1>5. \A y \in S : y <= x
  <2> SUFFICES ASSUME NEW y \in S PROVE y <= x
    OBVIOUS
  <2>1. n - x <= n - y
    BY <1>2, <1>3, <1>4
  <2> QED BY <2>1, <1>0
<1> QED BY <1>5, <1>0 DEF Max

-----------------------------------------------------------------------------
(* The slot of a client.                                                    *)

\* No two slots are those of the same client.
OneSlotEach ==
    \A i, j \in Slot : clients[i].ip = clients[j].ip /\ clients[i].ip \in Client => i = j

\* Outside a call nothing is left of one; inside there is a turn to take.
BatchOK == IF batch.path = "none" THEN batch = NoBatch ELSE batch.left >= 1

\* TypeOK with the slots of an address told apart without counting them.
ServerTypes ==
    /\ now \in Nat
    /\ clients \in [ Slot -> ClientSlot ]
    /\ OneSlotEach
    /\ global \in [ start : 0..(Wrap - 1), count : 0..NTP_GLOBAL_RATE_PER_SEC ]
    /\ acl \in AccessLists
    /\ shed \in BOOLEAN
    /\ batch \in [ path : {"none", "serve", "refuse"},
                   left : 0..NTP_MAX_PACKETS_PER_LOOP, kissed : BOOLEAN ]
    /\ BatchOK
    /\ reply.to \in Client \cup {NoClient}

LEMMA SlotsAreNats == Slot \subseteq 1..NTP_CLIENT_SLOTS /\ Slot \subseteq Nat /\ 1 \in Slot
BY ServerAssumption DEF Slot

LEMMA SlotFields ==
    ASSUME clients \in [ Slot -> ClientSlot ], NEW i \in Slot
    PROVE  /\ clients[i].ip \in Client \cup {NoClient}
           /\ clients[i].lastSeen \in 0..(Wrap - 1)
BY DEF ClientSlot

\* The slot given up for a newcomer is one that was seen no later than any.
LEMMA LruIsOldest ==
    ASSUME clients \in [ Slot -> ClientSlot ]
    PROVE  Lru \in Slot /\ \A j \in Slot : clients[Lru].lastSeen <= clients[j].lastSeen
<1> DEFINE times == { clients[i].lastSeen : i \in Slot }
           oldest == { i \in Slot : \A j \in Slot : clients[i].lastSeen <= clients[j].lastSeen }
<1>1. \A i \in Slot : clients[i].lastSeen \in Nat
  BY SlotFields, ServerAssumption
<1>2. times \subseteq Nat /\ times # {}
  BY <1>1, SlotsAreNats, Zenon
<1>3. PICK t \in times : \A u \in times : t <= u
  BY <1>2, LeastOf
<1>4. PICK i \in Slot : t = clients[i].lastSeen
  OBVIOUS
<1>5. \A j \in Slot : clients[j].lastSeen \in times
  OBVIOUS
<1>6. i \in oldest
  BY <1>3, <1>4, <1>5
<1>7. oldest \subseteq 1..NTP_CLIENT_SLOTS
  BY SlotsAreNats
<1>8. Max(oldest) \in oldest
  <2> HIDE DEF oldest
  <2> QED BY <1>6, <1>7, MaxOf, ServerAssumption
<1>9. Lru = Max(oldest)
  BY DEF Lru
<1> QED BY <1>8, <1>9

LEMMA HeldSlot ==
    ASSUME NEW a, Held(a) # {}
    PROVE  Min(Held(a)) \in Slot /\ clients[Min(Held(a))].ip = a
<1>1. Held(a) \subseteq Nat
  BY SlotsAreNats DEF Held
<1>2. Min(Held(a)) \in Held(a)
  BY <1>1, MinOf
<1> QED BY <1>2 DEF Held

\* A client gets its own slot; without one a free slot, and without that the
\* one seen longest ago.
LEMMA FoundSlot ==
    ASSUME clients \in [ Slot -> ClientSlot ], NEW ip \in Client
    PROVE  LET s == FindClientSlot(ip) IN
           /\ s \in Slot
           /\ Held(ip) # {} => clients[s].ip = ip
           /\ Held(ip) = {} =>
                \/ clients[s].ip = NoClient
                \/ \A j \in Slot : clients[s].lastSeen <= clients[j].lastSeen
<1>1. CASE Held(ip) # {}
  BY <1>1, HeldSlot DEF FindClientSlot
<1>2. CASE Held(ip) = {} /\ Held(NoClient) # {}
  BY <1>2, HeldSlot DEF FindClientSlot
<1>3. CASE Held(ip) = {} /\ Held(NoClient) = {}
  BY <1>3, LruIsOldest DEF FindClientSlot
<1> QED BY <1>1, <1>2, <1>3

-----------------------------------------------------------------------------
(* What admission writes into it.                                           *)

LEMMA TimeTypes ==
    ASSUME now \in Nat
    PROVE  /\ Millis \in 0..(Wrap - 1) /\ 0 \in 0..(Wrap - 1) /\ 0 \in Nat
           /\ (Millis + NTP_DENY_COOLDOWN_MS) % Wrap \in 0..(Wrap - 1)
BY ServerAssumption DEF Millis

\* A slot of the client ip that was seen just now.
Stamped(c, ip) == c \in ClientSlot /\ c.ip = ip /\ c.lastSeen = Millis

LEMMA SeenStamped ==
    ASSUME now \in Nat, clients \in [ Slot -> ClientSlot ], NEW ip \in Client
    PROVE  Stamped(Seen(ip), ip)
<1> DEFINE slot == clients[FindClientSlot(ip)]
           fresh == [ FreeSlot EXCEPT !.ip = ip, !.windowStart = Millis ]
           taken == IF slot.ip = ip THEN slot ELSE fresh
<1>1. slot \in ClientSlot
  BY FoundSlot
<1>2. fresh \in ClientSlot /\ fresh.ip = ip
  BY TimeTypes, Zenon DEF FreeSlot, ClientSlot
<1>3. taken \in ClientSlot /\ taken.ip = ip
  <2> HIDE DEF fresh, slot
  <2> QED BY <1>1, <1>2
<1>4. Seen(ip) = [taken EXCEPT !.lastSeen = Millis]
  BY DEF Seen
<1> HIDE DEF taken
<1> QED BY <1>3, <1>4, TimeTypes DEF Stamped, ClientSlot

LEMMA CoolDownStamped ==
    ASSUME now \in Nat, NEW c, NEW ip, Stamped(c, ip)
    PROVE  Stamped(CoolDown(c), ip)
BY TimeTypes DEF Stamped, ClientSlot, CoolDown

LEMMA RollWindowStamped ==
    ASSUME now \in Nat, NEW c, NEW ip, Stamped(c, ip)
    PROVE  Stamped(RollWindow(c), ip)
BY TimeTypes DEF Stamped, ClientSlot, RollWindow

LEMMA JudgeStamped ==
    ASSUME now \in Nat, NEW c, NEW ip, Stamped(c, ip)
    PROVE  Stamped(Judge(c).slot, ip) /\ Judge(c).admit \in Counted
<1> DEFINE counted == [c EXCEPT !.windowCount = @ + 1]
           over == [counted EXCEPT !.overSince = IF @ = 0 THEN Millis ELSE @]
           denied == [over EXCEPT !.denyUntil = (Millis + NTP_DENY_COOLDOWN_MS) % Wrap,
                                  !.overSince = 0]
<1>1. Stamped(counted, ip)
  BY DEF Stamped, ClientSlot
<1>2. Stamped(over, ip)
  <2> HIDE DEF counted
  <2> QED BY <1>1, TimeTypes DEF Stamped, ClientSlot
<1>3. Stamped(denied, ip)
  <2> HIDE DEF over
  <2> QED BY <1>2, TimeTypes DEF Stamped, ClientSlot
<1>4. \/ Judge(c) = [ slot |-> counted, admit |-> "Allow" ]
      \/ Judge(c) = [ slot |-> denied, admit |-> "Deny" ]
      \/ Judge(c) = [ slot |-> over, admit |-> "Rate" ]
  BY Zenon DEF Judge
<1> HIDE DEF counted, over, denied
<1> QED BY <1>1, <1>2, <1>3, <1>4 DEF Counted

LEMMA AdmitStamped ==
    ASSUME now \in Nat, clients \in [ Slot -> ClientSlot ], NEW ip \in Client
    PROVE  Stamped(AdmitClient(ip).slot, ip) /\ AdmitClient(ip).admit \in Counted
<1> DEFINE c == Seen(ip)
           judged == Judge(RollWindow(CoolDown(c)))
<1>1. Stamped(c, ip)
  BY SeenStamped
<1>2. Stamped(judged.slot, ip) /\ judged.admit \in Counted
  <2> HIDE DEF c
  <2> QED BY <1>1, CoolDownStamped, RollWindowStamped, JudgeStamped
<1>3. AdmitClient(ip) = IF c.denyUntil # 0 /\ Before(c.denyUntil)
                        THEN [ slot |-> c, admit |-> "Drop" ] ELSE judged
  BY DEF AdmitClient
<1> HIDE DEF c, judged
<1> QED BY <1>1, <1>2, <1>3 DEF Counted

-----------------------------------------------------------------------------
(* Types, and one slot for each client.                                     *)

\* What the handling of one admitted packet leaves in the table.
LEMMA TableAfter ==
    ASSUME now \in Nat, clients \in [ Slot -> ClientSlot ], OneSlotEach, NEW ip \in Client,
           clients' = [clients EXCEPT ![FindClientSlot(ip)] = AdmitClient(ip).slot]
    PROVE  clients' \in [ Slot -> ClientSlot ] /\ OneSlotEach'
<1> DEFINE s == FindClientSlot(ip)
           d == AdmitClient(ip).slot
<1>1. d \in ClientSlot /\ d.ip = ip
  BY AdmitStamped DEF Stamped
<1>2. s \in Slot /\ (Held(ip) # {} => clients[s].ip = ip)
  BY FoundSlot
<1>3. clients' = [clients EXCEPT ![s] = d]
  OBVIOUS
<1> HIDE DEF s, d
<1>4. clients' \in [ Slot -> ClientSlot ]
  BY <1>1, <1>2, <1>3
<1>5. \A i \in Slot : clients'[i].ip = IF i = s THEN ip ELSE clients[i].ip
  BY <1>1, <1>2, <1>3
<1>6. \A i \in Slot : clients[i].ip = ip => i = s
  <2> SUFFICES ASSUME NEW i \in Slot, clients[i].ip = ip PROVE i = s
    OBVIOUS
  <2>1. clients[s].ip = ip
    BY <1>2 DEF Held
  <2> QED BY <1>2, <2>1 DEF OneSlotEach
<1>7. OneSlotEach'
  <2> SUFFICES ASSUME NEW i \in Slot, NEW j \in Slot,
                      clients'[i].ip = clients'[j].ip, clients'[i].ip \in Client
               PROVE  i = j
    BY DEF OneSlotEach, Slot
  <2> QED BY <1>5, <1>6 DEF OneSlotEach
<1> QED BY <1>4, <1>7

LEMMA GlobalTypes ==
    ASSUME ServerTypes
    PROVE  /\ GlobalWindow \in [ start : 0..(Wrap - 1), count : 0..NTP_GLOBAL_RATE_PER_SEC ]
           /\ AdmitsGlobal => [GlobalWindow EXCEPT !.count = @ + 1]
                               \in [ start : 0..(Wrap - 1), count : 0..NTP_GLOBAL_RATE_PER_SEC ]
<1>1. 0 \in 0..NTP_GLOBAL_RATE_PER_SEC /\ NTP_GLOBAL_RATE_PER_SEC \in Nat
  BY ServerAssumption
<1>2. GlobalWindow \in [ start : 0..(Wrap - 1), count : 0..NTP_GLOBAL_RATE_PER_SEC ]
  BY <1>1, TimeTypes DEF ServerTypes, GlobalWindow
<1> QED BY <1>1, <1>2 DEF AdmitsGlobal

LEMMA InitTypes == Init => ServerTypes
<1> SUFFICES ASSUME Init PROVE ServerTypes
  OBVIOUS
<1>1. 0 \in 0..(Wrap - 1) /\ 0 \in Nat /\ 0 \in 0..NTP_GLOBAL_RATE_PER_SEC
      /\ 0 \in 0..NTP_MAX_PACKETS_PER_LOOP
  BY ServerAssumption
<1>2. FreeSlot \in ClientSlot /\ FreeSlot.ip \notin Client
  BY <1>1, ServerAssumption DEF FreeSlot, ClientSlot
<1>3. clients \in [ Slot -> ClientSlot ] /\ OneSlotEach
  BY <1>2 DEF Init, OneSlotEach
<1> QED BY <1>1, <1>3, ServerAssumption DEF Init, ServerTypes, BatchOK, NoBatch, NoReply

\* A packet takes one turn of its call.
LEMMA TakePacketOK ==
    ASSUME ServerTypes, NEW path \in {"serve", "refuse"}, NEW kissed \in BOOLEAN,
           TakePacket(path, kissed)
    PROVE  /\ batch' \in [ path : {"none", "serve", "refuse"},
                           left : 0..NTP_MAX_PACKETS_PER_LOOP, kissed : BOOLEAN ]
           /\ BatchOK'
           /\ now' = now /\ acl' = acl /\ shed' = shed
<1>1. batch.left \in 0..NTP_MAX_PACKETS_PER_LOOP /\ batch.left >= 1
      /\ NTP_MAX_PACKETS_PER_LOOP \in Nat
  BY ServerAssumption DEF ServerTypes, BatchOK, TakePacket
<1>2. CASE batch.left = 1
  BY <1>1, <1>2 DEF TakePacket, BatchOK, NoBatch
<1>3. CASE batch.left # 1
  <2> DEFINE next == [batch EXCEPT !.left = @ - 1, !.kissed = kissed]
  <2>1. batch.left - 1 \in 0..NTP_MAX_PACKETS_PER_LOOP /\ batch.left - 1 >= 1
    BY <1>1, <1>3
  <2>2. next \in [ path : {"none", "serve", "refuse"},
                   left : 0..NTP_MAX_PACKETS_PER_LOOP, kissed : BOOLEAN ]
    BY <2>1, Zenon DEF ServerTypes
  <2>3. next.left = batch.left - 1
    BY DEF ServerTypes
  <2>4. batch' = next
    BY <1>3 DEF TakePacket
  <2> HIDE DEF next
  <2> QED BY <2>1, <2>2, <2>3, <2>4 DEF TakePacket, BatchOK
<1> QED BY <1>2, <1>3

LEMMA NextTypes == ServerTypes /\ [Next]_vars => ServerTypes'
<1> SUFFICES ASSUME ServerTypes, [Next]_vars PROVE ServerTypes'
  OBVIOUS
<1>0. NoClient \in Client \cup {NoClient} /\ NoReply.to = NoClient
  BY DEF NoReply
<1>1. CASE Advance
  <2>1. now' \in Nat
    BY <1>1, ServerAssumption DEF Advance, ServerTypes
  <2> QED BY <1>0, <1>1, <2>1
          DEF Advance, ServerTypes, Slot, OneSlotEach, BatchOK
<1>2. CASE ToggleShed
  <2>1. shed' \in BOOLEAN
    BY <1>2, Zenon DEF ToggleShed, ServerTypes
  <2>2. UNCHANGED <<now, clients, global, acl, batch>> /\ reply' = NoReply
    BY <1>2 DEF ToggleShed
  <2> QED BY <1>0, <2>1, <2>2 DEF ServerTypes, Slot, OneSlotEach, BatchOK
<1>3. CASE StartLoop
  <2>1. NTP_MAX_PACKETS_PER_LOOP \in 0..NTP_MAX_PACKETS_PER_LOOP
        /\ NTP_MAX_PACKETS_PER_LOOP >= 1
    BY ServerAssumption
  <2>2. \E path \in {"serve", "refuse"} : batch' = Call(path)
    BY <1>3 DEF StartLoop
  <2>3. BatchOK' /\ batch' \in [ path : {"none", "serve", "refuse"},
                                 left : 0..NTP_MAX_PACKETS_PER_LOOP, kissed : BOOLEAN ]
    BY <2>1, <2>2 DEF Call, BatchOK
  <2>4. acl' \in AccessLists
    BY <1>3 DEF StartLoop, ServerTypes
  <2>5. UNCHANGED <<now, clients, global, shed>> /\ reply' = NoReply
    BY <1>3 DEF StartLoop
  <2> QED BY <1>0, <2>3, <2>4, <2>5 DEF ServerTypes, Slot, OneSlotEach
<1>4. CASE EndLoop
  <2>1. NoBatch \in [ path : {"none", "serve", "refuse"},
                      left : 0..NTP_MAX_PACKETS_PER_LOOP, kissed : BOOLEAN ]
    BY ServerAssumption DEF NoBatch
  <2> QED BY <1>0, <1>4, <2>1 DEF EndLoop, ServerTypes, Slot, OneSlotEach, BatchOK, NoBatch
<1>5. ASSUME NEW ip \in Client, HandlePacket(ip)
      PROVE  ServerTypes'
  <2>1. /\ batch' \in [ path : {"none", "serve", "refuse"},
                        left : 0..NTP_MAX_PACKETS_PER_LOOP, kissed : BOOLEAN ]
        /\ BatchOK' /\ now' = now /\ acl' = acl /\ shed' = shed
    BY <1>5, TakePacketOK DEF HandlePacket
  <2>2. clients' \in [ Slot -> ClientSlot ] /\ OneSlotEach'
    <3>1. CASE UNCHANGED clients
      BY <3>1 DEF ServerTypes, OneSlotEach, Slot
    <3>2. CASE clients' = [clients EXCEPT ![FindClientSlot(ip)] = AdmitClient(ip).slot]
      BY <3>2, TableAfter DEF ServerTypes
    <3> QED BY <1>5, <3>1, <3>2 DEF HandlePacket
  <2>3. global' \in [ start : 0..(Wrap - 1), count : 0..NTP_GLOBAL_RATE_PER_SEC ]
    BY <1>5, GlobalTypes DEF HandlePacket, ServerTypes
  <2>4. reply'.to = ip
    BY <1>5 DEF HandlePacket, Outcome
  <2> QED BY <2>1, <2>2, <2>3, <2>4 DEF ServerTypes, Slot
<1>6. ASSUME NEW ip \in Client, RefusePacket(ip) \/ ShortPacket(ip)
      PROVE  ServerTypes'
  <2>1. \E path \in {"serve", "refuse"}, kissed \in BOOLEAN : TakePacket(path, kissed)
    <3>1. CASE RefusePacket(ip)
      BY <3>1 DEF RefusePacket
    <3>2. CASE ShortPacket(ip)
      <4>1. batch.path # "none"
        BY <3>2 DEF ShortPacket, ServerTypes, BatchOK
      <4> QED BY <3>2, <4>1 DEF ShortPacket, ServerTypes
    <3> QED BY <1>6, <3>1, <3>2
  <2>2. /\ batch' \in [ path : {"none", "serve", "refuse"},
                        left : 0..NTP_MAX_PACKETS_PER_LOOP, kissed : BOOLEAN ]
        /\ BatchOK' /\ now' = now /\ acl' = acl /\ shed' = shed
    BY <2>1, TakePacketOK
  <2>3. UNCHANGED <<clients, global>> /\ reply'.to = ip
    <3>1. CASE RefusePacket(ip)
      BY <3>1 DEF RefusePacket, Outcome
    <3>2. CASE ShortPacket(ip)
      BY <3>2 DEF ShortPacket, Outcome
    <3> QED BY <1>6, <3>1, <3>2
  <2> QED BY <2>2, <2>3 DEF ServerTypes, Slot, OneSlotEach
<1>7. CASE UNCHANGED vars
  BY <1>7 DEF vars, ServerTypes, Slot, OneSlotEach, BatchOK
<1> QED BY <1>1, <1>2, <1>3, <1>4, <1>5, <1>6, <1>7 DEF Next, Packet

\* Slots told apart are slots of at most one for each address.
LEMMA TypesGiveTypeOK == ServerTypes => TypeOK
<1> SUFFICES ASSUME ServerTypes, NEW ip \in Client PROVE Cardinality(Held(ip)) <= 1
  BY DEF ServerTypes, TypeOK
<1>1. CASE Held(ip) = {}
  BY <1>1, FS_EmptySet
<1>2. CASE Held(ip) # {}
  <2>1. PICK i \in Slot : clients[i].ip = ip
    BY <1>2 DEF Held
  <2>2. Held(ip) = {i}
    BY <2>1 DEF Held, ServerTypes, OneSlotEach
  <2>3. Cardinality({i}) = 1
    BY FS_Singleton, Zenon
  <2> QED BY <2>2, <2>3
<1> QED BY <1>1, <1>2

\* Whatever is asked, in whatever order: every field keeps its width, a call
\* takes no more packets than its share, no window counts beyond the global
\* rate, and no address has two slots.
THEOREM ServerTypeCorrect == Spec => []TypeOK
<1>1. Spec => []ServerTypes
  BY InitTypes, NextTypes, PTL DEF Spec
<1> QED BY <1>1, TypesGiveTypeOK, PTL

-----------------------------------------------------------------------------
(* The table and the clients seen last.                                     *)

\* A client in the table carries the time at which it was seen, as millis.
SlotsRemember ==
    \A i \in Slot : clients[i].ip \in Client
                        => clients[i].lastSeen = past[clients[i].ip].seen % Wrap

PastOK ==
    /\ past \in [ Client -> [ seen : Nat, excess : Nat, warned : Nat, denied : Nat ] ]
    /\ \A ip \in Client : past[ip].seen <= now

LatestInductive == ServerTypes /\ PastOK /\ SlotsRemember /\ TableHoldsLatest

\* Of two times of the same run of millis the later has the larger remainder.
LEMMA RemaindersOrder ==
    ASSUME NEW s \in Nat, NEW t \in Nat, SameRun(s, t), s % Wrap <= t % Wrap
    PROVE  s <= t
<1>1. Wrap \in Nat /\ Wrap > 0
  BY ServerAssumption
<1>2. s = Wrap * (s \div Wrap) + (s % Wrap) /\ t = Wrap * (t \div Wrap) + (t % Wrap)
  BY <1>1
<1>3. s \div Wrap = t \div Wrap
  BY DEF SameRun
<1>4. Wrap * (s \div Wrap) = Wrap * (t \div Wrap)
  BY <1>3
<1>5. Wrap * (s \div Wrap) \in Int /\ s % Wrap \in Int /\ t % Wrap \in Int
  BY <1>1
<1> QED BY <1>2, <1>4, <1>5

\* A step either counts a packet of a client, in the slot found for it, or
\* leaves the table alone.
LEMMA TableSteps ==
    ASSUME ServerTypes, Next
    PROVE  \/ /\ clients' = clients
              /\ reply'.kind \notin Counted
              /\ now' \in Nat /\ now' >= now
           \/ \E ip \in Client :
                /\ clients' = [clients EXCEPT ![FindClientSlot(ip)] = AdmitClient(ip).slot]
                /\ reply' = [ to |-> ip, kind |-> AdmitClient(ip).admit ]
                /\ now' = now
<1>0. NoReply.kind \notin Counted
  BY DEF NoReply, Counted
<1>1. CASE Advance
  <2>1. now' \in Nat /\ now' >= now
    BY <1>1, ServerAssumption DEF Advance, ServerTypes
  <2> QED BY <1>0, <1>1, <2>1 DEF Advance
<1>2. CASE ToggleShed \/ StartLoop \/ EndLoop
  <2>1. UNCHANGED <<now, clients>> /\ reply' = NoReply
    BY <1>2 DEF ToggleShed, StartLoop, EndLoop
  <2> QED BY <1>0, <2>1 DEF ServerTypes
<1>3. ASSUME NEW ip \in Client, HandlePacket(ip)
      PROVE  \/ now' = now /\ clients' = clients /\ reply'.kind \notin Counted
             \/ /\ clients' = [clients EXCEPT ![FindClientSlot(ip)] = AdmitClient(ip).slot]
                /\ reply' = [ to |-> ip, kind |-> AdmitClient(ip).admit ]
                /\ now' = now
  BY <1>3 DEF HandlePacket, TakePacket, Outcome, Counted
<1>4. ASSUME NEW ip \in Client, RefusePacket(ip) \/ ShortPacket(ip)
      PROVE  now' = now /\ clients' = clients /\ reply'.kind \notin Counted
  <2>1. CASE RefusePacket(ip)
    BY <2>1 DEF RefusePacket, TakePacket, Outcome, Counted
  <2>2. CASE ShortPacket(ip)
    BY <2>2 DEF ShortPacket, TakePacket, Outcome, Counted
  <2> QED BY <1>4, <2>1, <2>2
<1>5. now \in Nat
  BY DEF ServerTypes
<1> QED BY <1>1, <1>2, <1>3, <1>4, <1>5 DEF Next, Packet

\* What is remembered of a client changes its last sight when it is counted.
LEMMA PastAfter ==
    ASSUME PastOK, now' \in Nat, now' >= now, now \in Nat,
           past' = [ ip \in Client |->
                       IF Handled(ip) /\ reply'.kind \in Counted
                       THEN Remember(past[ip], reply'.kind,
                                     Cardinality(Of(asked', ip)) > NTP_RATE_PER_IP_PER_SEC)
                       ELSE IF Held(ip)' = {} THEN [past[ip] EXCEPT !.denied = Never]
                       ELSE past[ip] ]
    PROVE  /\ PastOK'
           /\ \A ip \in Client : past'[ip].seen =
                IF reply'.to = ip /\ reply'.kind \in Counted THEN now' ELSE past[ip].seen
<1> DEFINE Past == [ seen : Nat, excess : Nat, warned : Nat, denied : Nat ]
<1>1. ASSUME NEW p \in Past, NEW kind, NEW excess
      PROVE  Remember(p, kind, excess) \in Past /\ Remember(p, kind, excess).seen = now'
  <2> DEFINE warned == CASE kind = "Deny" -> Never
                         [] kind = "Rate" /\ p.warned = Never -> now'
                         [] OTHER -> p.warned
  <2>1. warned \in Nat
    BY DEF Never
  <2>2. (IF excess THEN now' ELSE p.excess) \in Nat
    BY Zenon
  <2>3. (IF kind = "Deny" THEN now' ELSE p.denied) \in Nat
    BY Zenon
  <2>4. Remember(p, kind, excess) =
          [ seen |-> now', excess |-> IF excess THEN now' ELSE p.excess,
            warned |-> warned, denied |-> IF kind = "Deny" THEN now' ELSE p.denied ]
    BY DEF Remember
  <2> DEFINE excessAt == IF excess THEN now' ELSE p.excess
             deniedAt == IF kind = "Deny" THEN now' ELSE p.denied
  <2>5. excessAt \in Nat /\ deniedAt \in Nat
    BY <2>2, <2>3
  <2> HIDE DEF warned, excessAt, deniedAt
  <2>6. Remember(p, kind, excess) =
          [ seen |-> now', excess |-> excessAt, warned |-> warned, denied |-> deniedAt ]
    BY <2>4 DEF excessAt, deniedAt
  <2> HIDE <2>4
  <2> QED BY <2>1, <2>5, <2>6
<1>2. ASSUME NEW ip \in Client
      PROVE  /\ past'[ip] \in Past
             /\ past'[ip].seen =
                  IF reply'.to = ip /\ reply'.kind \in Counted THEN now' ELSE past[ip].seen
  <2>1. past[ip] \in Past
    BY DEF PastOK
  <2>2. CASE Handled(ip) /\ reply'.kind \in Counted
    <3>1. past'[ip] = Remember(past[ip], reply'.kind,
                               Cardinality(Of(asked', ip)) > NTP_RATE_PER_IP_PER_SEC)
      BY <2>2
    <3> QED BY <1>1, <2>1, <2>2, <3>1, Zenon DEF Handled
  <2>3. CASE ~(Handled(ip) /\ reply'.kind \in Counted)
    <3>1. past'[ip] \in {[past[ip] EXCEPT !.denied = Never], past[ip]}
      BY <2>3
    <3>2. [past[ip] EXCEPT !.denied = Never] \in Past
      BY <2>1 DEF Never
    <3> HIDE DEF Past
    <3>3. [past[ip] EXCEPT !.denied = Never].seen = past[ip].seen
      BY <2>1 DEF Past
    <3> QED BY <2>1, <2>3, <3>1, <3>2, <3>3 DEF Handled
  <2> QED BY <2>2, <2>3
<1>3. \A ip \in Client : past'[ip].seen <= now'
  <2> SUFFICES ASSUME NEW ip \in Client PROVE past'[ip].seen <= now'
    OBVIOUS
  <2>1. past[ip].seen \in Nat /\ past[ip].seen <= now
    BY DEF PastOK
  <2>2. past'[ip].seen \in {now', past[ip].seen}
    BY <1>2, Zenon
  <2> QED BY <2>1, <2>2
<1>4. past' \in [ Client -> Past ]
  <2>1. past' = [ ip \in Client |-> past'[ip] ]
    OBVIOUS
  <2> HIDE DEF Past
  <2> QED BY <1>2, <2>1
<1> QED BY <1>2, <1>3, <1>4 DEF PastOK

\* A step that counts nobody leaves the table and what is remembered of it.
LEMMA QuietLatest ==
    ASSUME LatestInductive, clients' = clients,
           \A ip \in Client : past'[ip].seen = past[ip].seen
    PROVE  SlotsRemember' /\ TableHoldsLatest'
<1>1. SlotsRemember'
  BY DEF LatestInductive, SlotsRemember, Slot
<1>2. TableHoldsLatest'
  <2>1. \A ip : Held(ip)' = Held(ip)
    BY DEF Held, Slot
  <2> QED BY <2>1 DEF LatestInductive, TableHoldsLatest
<1> QED BY <1>1, <1>2

\* A client that is counted was seen last; the one that makes room for it was
\* seen no later than those that stay.
LEMMA CountedLatest ==
    ASSUME LatestInductive, NEW ip \in Client,
           clients' = [clients EXCEPT ![FindClientSlot(ip)] = AdmitClient(ip).slot],
           \A c \in Client : past'[c].seen = IF c = ip THEN now ELSE past[c].seen
    PROVE  SlotsRemember' /\ TableHoldsLatest'
<1> DEFINE s == FindClientSlot(ip)
           d == AdmitClient(ip).slot
<1>0. /\ clients \in [ Slot -> ClientSlot ] /\ now \in Nat /\ OneSlotEach
      /\ PastOK /\ SlotsRemember /\ TableHoldsLatest
  BY DEF LatestInductive, ServerTypes
<1>1. d.ip = ip /\ d.lastSeen = now % Wrap
  BY <1>0, AdmitStamped DEF Stamped, Millis
<1>2. /\ s \in Slot
      /\ Held(ip) # {} => clients[s].ip = ip
      /\ Held(ip) = {} => \/ clients[s].ip = NoClient
                         \/ \A j \in Slot : clients[s].lastSeen <= clients[j].lastSeen
  BY <1>0, FoundSlot
<1>3. clients' = [clients EXCEPT ![s] = d]
  OBVIOUS
<1> HIDE DEF s, d
<1>4. \A i \in Slot : clients'[i] = IF i = s THEN d ELSE clients[i]
  BY <1>0, <1>2, <1>3
<1>5. NoClient \notin Client
  BY ServerAssumption
<1>6. \A i \in Slot : clients[i].ip = ip => i = s
  BY <1>0, <1>2 DEF Held, OneSlotEach
<1>7. SlotsRemember'
  <2> SUFFICES ASSUME NEW i \in Slot, clients'[i].ip \in Client
               PROVE  clients'[i].lastSeen = past'[clients'[i].ip].seen % Wrap
    BY DEF SlotsRemember, Slot
  <2>1. CASE i = s
    BY <1>1, <1>4, <2>1
  <2>2. CASE i # s
    BY <1>0, <1>4, <1>6, <2>2 DEF SlotsRemember
  <2> QED BY <2>1, <2>2
<1>8. TableHoldsLatest'
  <2> SUFFICES ASSUME NEW in \in Client, NEW out \in Client,
                      Held(in)' # {}, Held(out)' = {},
                      SameRun(past'[in].seen, past'[out].seen)
               PROVE  past'[out].seen <= past'[in].seen
    BY DEF TableHoldsLatest, SameRun
  <2>1. out # ip /\ past'[out].seen = past[out].seen
    <3>1. s \in Held(ip)'
      BY <1>1, <1>2, <1>4 DEF Held, Slot
    <3> QED BY <3>1
  <2>2. CASE in = ip
    BY <1>0, <2>1, <2>2 DEF PastOK
  <2>3. CASE in # ip
    <3>1. PICK j \in Slot : clients'[j].ip = in
      BY DEF Held, Slot
    <3>2. j # s /\ clients[j].ip = in /\ Held(in) # {}
      BY <1>1, <1>4, <2>3, <3>1 DEF Held
    <3>3. past'[in].seen = past[in].seen /\ SameRun(past[in].seen, past[out].seen)
      BY <2>1, <2>3
    <3>4. CASE Held(out) = {}
      BY <1>0, <2>1, <3>2, <3>3, <3>4 DEF TableHoldsLatest
    <3>5. CASE Held(out) # {}
      <4>1. PICK i \in Slot : clients[i].ip = out
        BY <3>5 DEF Held
      <4>2. i = s
        BY <1>4, <4>1 DEF Held, Slot
      <4>3. clients[s].lastSeen <= clients[j].lastSeen
        BY <1>2, <1>5, <2>1, <4>1, <4>2
      <4>4. /\ clients[s].lastSeen = past[out].seen % Wrap
            /\ clients[j].lastSeen = past[in].seen % Wrap
        BY <1>0, <1>2, <3>2, <4>1, <4>2 DEF SlotsRemember
      <4>5. past[out].seen \in Nat /\ past[in].seen \in Nat
        BY <1>0 DEF PastOK
      <4>6. past[out].seen <= past[in].seen
        BY <3>3, <4>3, <4>4, <4>5, RemaindersOrder DEF SameRun
      <4> QED BY <2>1, <3>3, <4>6
    <3> QED BY <3>4, <3>5
  <2> QED BY <2>2, <2>3
<1> QED BY <1>7, <1>8

LEMMA InitLatest == MCInit => PastOK /\ SlotsRemember /\ TableHoldsLatest
<1> SUFFICES ASSUME MCInit PROVE PastOK /\ SlotsRemember /\ TableHoldsLatest
  OBVIOUS
<1>1. \A i \in Slot : clients[i].ip \notin Client
  BY ServerAssumption DEF MCInit, Init, FreeSlot
<1>2. now \in Nat
  BY ServerAssumption DEF MCInit, Init
<1>3. PastOK
  BY <1>2 DEF MCInit, PastOK, Never
<1> QED BY <1>1, <1>3 DEF SlotsRemember, TableHoldsLatest, Held

LEMMA NextLatest == LatestInductive /\ [MCNext]_mcvars => LatestInductive'
<1> SUFFICES ASSUME LatestInductive, [MCNext]_mcvars PROVE LatestInductive'
  OBVIOUS
<1>0. ServerTypes /\ PastOK /\ SlotsRemember /\ TableHoldsLatest
  BY DEF LatestInductive
<1>1. CASE UNCHANGED mcvars
  <2>1. UNCHANGED vars /\ past' = past
    BY <1>1 DEF mcvars, vars
  <2>2. ServerTypes'
    BY <1>0, <2>1, NextTypes
  <2> QED BY <1>0, <2>1, <2>2
          DEF LatestInductive, PastOK, SlotsRemember, TableHoldsLatest, Held, Slot, vars
<1>2. CASE MCNext
  <2>1. ServerTypes' /\ now \in Nat
    BY <1>0, <1>2, NextTypes DEF MCNext, ServerTypes
  <2>2. \/ clients' = clients /\ reply'.kind \notin Counted /\ now' \in Nat /\ now' >= now
        \/ \E ip \in Client :
             /\ clients' = [clients EXCEPT ![FindClientSlot(ip)] = AdmitClient(ip).slot]
             /\ reply' = [ to |-> ip, kind |-> AdmitClient(ip).admit ]
             /\ now' = now
    BY <1>0, <1>2, TableSteps DEF MCNext
  <2>3. /\ PastOK'
        /\ \A ip \in Client : past'[ip].seen =
             IF reply'.to = ip /\ reply'.kind \in Counted THEN now' ELSE past[ip].seen
    <3>1. now' \in Nat /\ now' >= now
      BY <2>1, <2>2
    <3>2. past' = [ ip \in Client |->
                      IF Handled(ip) /\ reply'.kind \in Counted
                      THEN Remember(past[ip], reply'.kind,
                                    Cardinality(Of(asked', ip)) > NTP_RATE_PER_IP_PER_SEC)
                      ELSE IF Held(ip)' = {} THEN [past[ip] EXCEPT !.denied = Never]
                      ELSE past[ip] ]
      BY <1>2 DEF MCNext
    <3> QED BY <1>0, <2>1, <3>1, <3>2, PastAfter
  <2>4. CASE clients' = clients /\ reply'.kind \notin Counted
    BY <1>0, <2>1, <2>3, <2>4, QuietLatest DEF LatestInductive
  <2>5. ASSUME NEW ip \in Client,
               clients' = [clients EXCEPT ![FindClientSlot(ip)] = AdmitClient(ip).slot],
               reply' = [ to |-> ip, kind |-> AdmitClient(ip).admit ],
               now' = now
        PROVE  LatestInductive'
    <3>1. \A c \in Client : past'[c].seen = IF c = ip THEN now ELSE past[c].seen
      BY <1>0, <2>1, <2>3, <2>5, AdmitStamped DEF ServerTypes
    <3> QED BY <1>0, <2>1, <2>3, <2>5, <3>1, CountedLatest DEF LatestInductive
  <2> QED BY <2>2, <2>4, <2>5
<1> QED BY <1>1, <1>2

\* The table holds the clients seen last, whatever the number of slots and the
\* rates are, and for as long as the server runs.
THEOREM TableHoldsLatestAlways == MCSpec => []TableHoldsLatest
<1>1. MCInit => LatestInductive
  BY InitTypes, InitLatest DEF MCInit, LatestInductive
<1>2. LatestInductive => TableHoldsLatest
  BY DEF LatestInductive
<1> QED BY <1>1, <1>2, NextLatest, PTL DEF MCSpec

-----------------------------------------------------------------------------
(* Time modulo Wrap.                                                        *)

LEMMA WrapIs ==
    /\ Wrap \in Nat /\ Wrap > 0 /\ NTP_DENY_COOLDOWN_MS \in Nat /\ NTP_RATE_WINDOW_MS \in Nat
    /\ Wrap > 2 * NTP_DENY_COOLDOWN_MS /\ NTP_RATE_WINDOW_MS <= NTP_DENY_COOLDOWN_MS
    /\ NTP_RATE_WINDOW_MS > 0 /\ NTP_DENY_COOLDOWN_MS > 0
    /\ Wrap \div 2 \in Nat /\ 2 * (Wrap \div 2) <= Wrap /\ Wrap < 2 * (Wrap \div 2) + 2
BY ServerAssumption

LEMMA Remainder ==
    ASSUME NEW x \in Int
    PROVE  /\ x % Wrap \in 0..(Wrap - 1) /\ x \div Wrap \in Int
           /\ x = Wrap * (x \div Wrap) + (x % Wrap)
BY WrapIs

\* A remainder is known by what it is a remainder of.
LEMMA RemainderUnique ==
    ASSUME NEW x \in Int, NEW q \in Int, NEW r \in 0..(Wrap - 1), x = Wrap * q + r
    PROVE  x % Wrap = r
<1> DEFINE k == (x \div Wrap) - q
<1>1. x % Wrap \in 0..(Wrap - 1) /\ x \div Wrap \in Int /\ x = Wrap * (x \div Wrap) + (x % Wrap)
  BY Remainder
<1>2. k \in Int /\ Wrap * k = Wrap * (x \div Wrap) - Wrap * q
  BY <1>1, WrapIs
<1>3. Wrap * k = r - (x % Wrap)
  <2>1. Wrap * q \in Int /\ Wrap * (x \div Wrap) \in Int
    BY <1>1, WrapIs
  <2> QED BY <1>1, <1>2, <2>1
<1> HIDE DEF k
<1>4. ~(k >= 1) /\ ~(k <= -1)
  <2>1. k >= 1 => Wrap * k >= Wrap
    BY <1>2, WrapIs
  <2>2. k <= -1 => Wrap * k <= -Wrap
    BY <1>2, WrapIs
  <2> QED BY <1>1, <1>3, <2>1, <2>2, WrapIs
<1>5. k = 0
  BY <1>2, <1>4
<1> QED BY <1>1, <1>3, <1>5, WrapIs

LEMMA Distributes ==
    ASSUME NEW p \in Int, NEW q \in Int
    PROVE  /\ Wrap * (p + q) = Wrap * p + Wrap * q /\ Wrap * (p - q) = Wrap * p - Wrap * q
           /\ Wrap * p \in Int /\ Wrap * q \in Int
BY WrapIs

LEMMA TurnsDoNotShow ==
    ASSUME NEW x \in Int, NEW k \in Int
    PROVE  (x + Wrap * k) % Wrap = x % Wrap
<1> DEFINE q == x \div Wrap
           r == x % Wrap
<1>1. q \in Int /\ r \in 0..(Wrap - 1) /\ x = Wrap * q + r
  BY Remainder
<1> HIDE DEF q, r
<1>2. Wrap * (q + k) = Wrap * q + Wrap * k /\ Wrap * q \in Int /\ Wrap * k \in Int
  BY <1>1, Distributes
<1>3. q + k \in Int /\ x + Wrap * k \in Int
  BY <1>1, <1>2
<1>4. x + Wrap * k = Wrap * (q + k) + r
  BY <1>1, <1>2
<1>5. (x + Wrap * k) % Wrap = r
  BY <1>1, <1>3, <1>4, RemainderUnique
<1> QED BY <1>5 DEF r

LEMMA Modulo ==
    ASSUME NEW a \in Int, NEW b \in Int
    PROVE  /\ ((a % Wrap) - (b % Wrap)) % Wrap = (a - b) % Wrap
           /\ ((a % Wrap) + b) % Wrap = (a + b) % Wrap
<1> DEFINE p == a \div Wrap
           q == b \div Wrap
           r == a % Wrap
           t == b % Wrap
<1>1. /\ r \in 0..(Wrap - 1) /\ p \in Int /\ a = Wrap * p + r
      /\ t \in 0..(Wrap - 1) /\ q \in Int /\ b = Wrap * q + t
  BY Remainder
<1> HIDE DEF p, q, r, t
<1>2. Wrap * (p - q) = Wrap * p - Wrap * q /\ Wrap * p \in Int /\ Wrap * q \in Int
  BY <1>1, Distributes
<1>3. a - b = (r - t) + Wrap * (p - q) /\ a + b = (r + b) + Wrap * p
  BY <1>1, <1>2
<1>4. r - t \in Int /\ r + b \in Int /\ p - q \in Int
  BY <1>1
<1>5. (a - b) % Wrap = (r - t) % Wrap /\ (a + b) % Wrap = (r + b) % Wrap
  BY <1>1, <1>3, <1>4, TurnsDoNotShow
<1> QED BY <1>5 DEF r, t

\* What millis says of a time s that is over is less than the truth only when
\* that is a turn of millis or more.
LEMMA SinceIs ==
    ASSUME now \in Nat, NEW s \in Nat, s <= now
    PROVE  /\ Since(s % Wrap) \in Nat /\ Since(s % Wrap) <= now - s
           /\ now - s < Wrap => Since(s % Wrap) = now - s
<1>1. Since(s % Wrap) = (now - s) % Wrap
  BY Modulo DEF Since, Millis
<1>2. now - s \in Nat
  OBVIOUS
<1>3. /\ (now - s) % Wrap \in 0..(Wrap - 1) /\ (now - s) \div Wrap \in Int
      /\ now - s = Wrap * ((now - s) \div Wrap) + ((now - s) % Wrap)
  BY <1>2, Remainder
<1>4. (now - s) \div Wrap >= 0
  <2>1. (now - s) \div Wrap <= -1 => Wrap * ((now - s) \div Wrap) <= -Wrap
    BY <1>3, WrapIs
  <2>2. Wrap * ((now - s) \div Wrap) \in Int
    BY <1>3, WrapIs
  <2> QED BY <1>2, <1>3, <2>1, <2>2, WrapIs
<1>5. Wrap * ((now - s) \div Wrap) >= 0
  BY <1>3, <1>4, WrapIs
<1>6. (now - s) % Wrap <= now - s
  <2>1. Wrap * ((now - s) \div Wrap) \in Int
    BY <1>3, WrapIs
  <2> QED BY <1>2, <1>3, <1>5, <2>1
<1>7. ASSUME now - s < Wrap PROVE (now - s) % Wrap = now - s
  <2>1. now - s \in 0..(Wrap - 1) /\ now - s = Wrap * 0 + (now - s)
    BY <1>2, <1>7, WrapIs
  <2> QED BY <1>2, <2>1, RemainderUnique
<1> QED BY <1>1, <1>3, <1>6, <1>7

\* A deadline is over when it is over, as long as it is looked at in time.
LEMMA BeforeIs ==
    ASSUME now \in Nat, NEW s \in Nat, s <= now
    PROVE  LET t == (s + NTP_DENY_COOLDOWN_MS) % Wrap IN
           /\ ~Before(t) => now - s >= NTP_DENY_COOLDOWN_MS
           /\ Before(t) /\ now - s < NTP_DENY_COOLDOWN_MS + (Wrap \div 2)
                => now - s < NTP_DENY_COOLDOWN_MS
<1> DEFINE e == s + NTP_DENY_COOLDOWN_MS
           x == now - e
<1>0. e \in Nat /\ x \in Int /\ x = now - s - NTP_DENY_COOLDOWN_MS
  BY WrapIs
<1>1. Since(e % Wrap) = x % Wrap
  BY <1>0, Modulo DEF Since, Millis
<1> HIDE DEF e, x
<1>2. ASSUME x < 0 PROVE x % Wrap >= Wrap \div 2
  <2>1. x + Wrap \in 0..(Wrap - 1) /\ x = Wrap * (-1) + (x + Wrap)
    BY <1>0, <1>2, WrapIs
  <2>2. x % Wrap = x + Wrap
    BY <1>0, <2>1, RemainderUnique
  <2> QED BY <1>0, <2>2, WrapIs
<1>3. ASSUME x >= 0, x < Wrap \div 2 PROVE x % Wrap < Wrap \div 2
  <2>1. x \in 0..(Wrap - 1) /\ x = Wrap * 0 + x
    BY <1>0, <1>3, WrapIs
  <2> QED BY <1>0, <1>3, <2>1, RemainderUnique
<1>4. Before(e % Wrap) <=> x % Wrap >= Wrap \div 2
  BY <1>1 DEF Before
<1>5. x % Wrap \in Int
  BY <1>0, Remainder
<1>6. ~Before(e % Wrap) => now - s >= NTP_DENY_COOLDOWN_MS
  BY <1>0, <1>2, <1>4, WrapIs
<1>7. Before(e % Wrap) /\ now - s < NTP_DENY_COOLDOWN_MS + (Wrap \div 2)
        => now - s < NTP_DENY_COOLDOWN_MS
  BY <1>0, <1>3, <1>4, <1>5, WrapIs
<1> QED BY <1>6, <1>7 DEF e

-----------------------------------------------------------------------------
(* Counting requests.                                                       *)

LEMMA FewerThan ==
    ASSUME NEW S, IsFiniteSet(S), NEW T, T \subseteq S
    PROVE  IsFiniteSet(T) /\ Cardinality(T) \in Nat /\ Cardinality(S) \in Nat
           /\ Cardinality(T) <= Cardinality(S)
BY FS_Subset, FS_CardinalityType

LEMMA OneMore ==
    ASSUME NEW S, IsFiniteSet(S), NEW x, x \notin S
    PROVE  IsFiniteSet(S \cup {x}) /\ Cardinality(S \cup {x}) = Cardinality(S) + 1
BY FS_AddElement

-----------------------------------------------------------------------------
(* What a slot knows of its client.                                         *)

\* Requests of the window that ends at t.
LogAt(log, t) ==
    IsFiniteSet(log) /\ \A r \in log : r.at \in Nat /\ r.at <= t /\ t - r.at < NTP_RATE_WINDOW_MS

Earlier(log, s) == { r \in log : r.at < s }
Later(log, s) == { r \in log : r.at >= s }

\* The window of c began at s; neither the one before it nor the part of it
\* that is over had more than its share of answers, and it knows of the latter.
WindowAt(c, s, mine) ==
    /\ s % Wrap = c.windowStart /\ c.windowStart # 0
    /\ Cardinality(Earlier(mine, s)) <= NTP_RATE_PER_IP_PER_SEC
    /\ Cardinality(Later(mine, s)) <= NTP_RATE_PER_IP_PER_SEC
    /\ Cardinality(Later(mine, s)) <= c.windowCount
    /\ \A r \in mine : r.at - s < NTP_RATE_WINDOW_MS

\* It counts nothing that was not asked.
CountsOwn(c, s, t, own) ==
    t - s < NTP_RATE_WINDOW_MS => c.windowCount <= Cardinality(Later(own, s))

\* A cooldown began with the denial, and is looked at before it can wrap.
DeniedOK(c, t, seen, p, mine) ==
    IF c.denyUntil = 0
    THEN p.denied = Never \/ t - p.denied >= NTP_DENY_COOLDOWN_MS
    ELSE /\ c.denyUntil = (p.denied + NTP_DENY_COOLDOWN_MS) % Wrap
         /\ p.denied <= seen /\ seen - p.denied <= NTP_DENY_COOLDOWN_MS
         /\ p.denied <= p.excess
         /\ \A r \in mine : r.at <= p.denied

\* A sustained excess began with a warning or after one.
WarnedOK(c, t, p) ==
    c.overSince # 0 =>
        \E o \in 0..t : o % Wrap = c.overSince /\ p.warned # Never /\ p.warned <= o

SlotFair(c, t, seen, p, mine, own) ==
    /\ \E s \in 0..t :
         /\ WindowAt(c, s, mine)
         /\ c.denyUntil = 0 => seen - s < NTP_RATE_WINDOW_MS /\ CountsOwn(c, s, t, own)
    /\ c.windowCount <= 2 * NTP_GLOBAL_RATE_PER_SEC
    /\ DeniedOK(c, t, seen, p, mine)
    /\ WarnedOK(c, t, p)

PastRecord == [ seen : Nat, excess : Nat, warned : Nat, denied : Nat ]

LEMMA Rates ==
    /\ NTP_RATE_PER_IP_PER_SEC \in Nat /\ NTP_RATE_PER_IP_PER_SEC > 0
    /\ NTP_GLOBAL_RATE_PER_SEC \in Nat /\ NTP_GLOBAL_RATE_PER_SEC > 0
    /\ NTP_RATE_TO_DENY_MS \in Nat /\ NTP_RATE_TO_DENY_MS > 0
    /\ NTP_RATE_WINDOW_MS \in Nat /\ NTP_RATE_WINDOW_MS > 0
BY ServerAssumption

LEMMA PartsOfLog ==
    ASSUME NEW t, NEW log, LogAt(log, t), NEW s
    PROVE  /\ IsFiniteSet(log) /\ Cardinality(log) \in Nat
           /\ LogAt(Earlier(log, s), t) /\ Cardinality(Earlier(log, s)) \in Nat
           /\ LogAt(Later(log, s), t) /\ Cardinality(Later(log, s)) \in Nat
           /\ Cardinality(Earlier(log, s)) <= Cardinality(log)
           /\ Cardinality(Later(log, s)) <= Cardinality(log)
<1>1. IsFiniteSet(log)
  BY DEF LogAt
<1>2. Earlier(log, s) \subseteq log /\ Later(log, s) \subseteq log
  BY DEF Earlier, Later
<1>3. IsFiniteSet(Earlier(log, s)) /\ IsFiniteSet(Later(log, s))
  BY <1>1, <1>2, FewerThan
<1> QED BY <1>1, <1>2, <1>3, FewerThan DEF LogAt

\* Time that passes forgets requests and nothing else.
LEMMA SlotFairAges ==
    ASSUME NEW c \in ClientSlot, NEW t \in Nat, NEW u \in Nat, t <= u,
           NEW seen \in Nat, NEW p \in PastRecord,
           NEW mine, LogAt(mine, t), NEW own, LogAt(own, t), SlotFair(c, t, seen, p, mine, own),
           NEW mine2, mine2 = { r \in mine : u - r.at < NTP_RATE_WINDOW_MS },
           NEW own2, own2 = { r \in own : u - r.at < NTP_RATE_WINDOW_MS }
    PROVE  SlotFair(c, u, seen, p, mine2, own2)
<1>0. /\ c.windowCount \in Nat
      /\ p.seen \in Nat /\ p.excess \in Nat /\ p.warned \in Nat /\ p.denied \in Nat
  BY DEF ClientSlot, PastRecord
<1>1. PICK s \in 0..t :
        /\ WindowAt(c, s, mine)
        /\ c.denyUntil = 0 => seen - s < NTP_RATE_WINDOW_MS /\ CountsOwn(c, s, t, own)
  BY DEF SlotFair
<1>2. /\ IsFiniteSet(Earlier(mine, s)) /\ Cardinality(Earlier(mine, s)) \in Nat
      /\ IsFiniteSet(Later(mine, s)) /\ Cardinality(Later(mine, s)) \in Nat
  BY PartsOfLog DEF LogAt
<1>3. WindowAt(c, s, mine2)
  <2>1. Earlier(mine2, s) \subseteq Earlier(mine, s) /\ Later(mine2, s) \subseteq Later(mine, s)
    BY DEF Earlier, Later
  <2>2. /\ Cardinality(Earlier(mine2, s)) \in Nat
        /\ Cardinality(Earlier(mine2, s)) <= Cardinality(Earlier(mine, s))
        /\ Cardinality(Later(mine2, s)) \in Nat
        /\ Cardinality(Later(mine2, s)) <= Cardinality(Later(mine, s))
    BY <1>2, <2>1, FewerThan
  <2>3. \A r \in mine2 : r \in mine
    OBVIOUS
  <2> QED BY <1>0, <1>1, <1>2, <2>2, <2>3, Rates DEF WindowAt
<1>4. CountsOwn(c, s, t, own) => CountsOwn(c, s, u, own2)
  <2> SUFFICES ASSUME CountsOwn(c, s, t, own), u - s < NTP_RATE_WINDOW_MS
               PROVE  c.windowCount <= Cardinality(Later(own2, s))
    BY DEF CountsOwn
  <2>1. t - s < NTP_RATE_WINDOW_MS
    BY Rates
  <2>2. Later(own2, s) = Later(own, s)
    BY Rates DEF Later, LogAt
  <2> QED BY <2>1, <2>2 DEF CountsOwn
<1>5. DeniedOK(c, u, seen, p, mine2)
  BY <1>0, WrapIs DEF SlotFair, DeniedOK
<1>6. WarnedOK(c, u, p)
  BY DEF SlotFair, WarnedOK
<1>7. s \in 0..u /\ c.windowCount <= 2 * NTP_GLOBAL_RATE_PER_SEC
  BY DEF SlotFair
<1> QED BY <1>1, <1>3, <1>4, <1>5, <1>6, <1>7 DEF SlotFair

\* The slot admission starts with is fair: the own one as it was, a fresh one
\* because nothing of a stranger is remembered.  What has been asked of it was
\* asked in time.
LEMMA SeenFair ==
    ASSUME now \in Nat, clients \in [ Slot -> ClientSlot ], NEW ip \in Client, Millis # 0,
           NEW p \in PastRecord, p.seen <= now,
           NEW mine, LogAt(mine, now), NEW own, LogAt(own, now),
           Held(ip) # {} => now - p.seen < Wrap \div 2,
           \A i \in Held(ip) : SlotFair(clients[i], now, p.seen, p, mine, own),
           Held(ip) = {} => p.denied = Never /\ mine = {}
    PROVE  \E seen \in 0..now :
              now - seen < Wrap \div 2 /\ SlotFair(Seen(ip), now, seen, p, mine, own)
<1> DEFINE k == FindClientSlot(ip)
           slot == clients[k]
           fresh == [ FreeSlot EXCEPT !.ip = ip, !.windowStart = Millis ]
           c == Seen(ip)
<1>1. /\ k \in Slot /\ (Held(ip) # {} => slot.ip = ip)
  BY FoundSlot
<1>2. c = [ (IF slot.ip = ip THEN slot ELSE fresh) EXCEPT !.lastSeen = Millis ]
  BY DEF Seen
<1>3. slot \in ClientSlot /\ p.seen \in Nat
  BY <1>1 DEF PastRecord
<1>4. CASE Held(ip) # {}
  <2>1. SlotFair(slot, now, p.seen, p, mine, own)
    BY <1>1, <1>4 DEF Held
  <2>2. c = [slot EXCEPT !.lastSeen = Millis]
    BY <1>1, <1>2, <1>4
  <2> HIDE DEF slot, c
  <2>3. /\ c.windowStart = slot.windowStart /\ c.windowCount = slot.windowCount
        /\ c.overSince = slot.overSince /\ c.denyUntil = slot.denyUntil
    BY <1>3, <2>2 DEF ClientSlot
  <2>4. SlotFair(c, now, p.seen, p, mine, own)
    BY <2>1, <2>3 DEF SlotFair, WindowAt, CountsOwn, DeniedOK, WarnedOK
  <2> QED BY <1>3, <1>4, <2>4 DEF c
<1>5. CASE Held(ip) = {}
  <2>1. slot.ip # ip
    BY <1>1, <1>5 DEF Held
  <2>2. c = [fresh EXCEPT !.lastSeen = Millis]
    BY <1>2, <2>1
  <2>3. /\ c.windowStart = Millis /\ c.windowCount = 0 /\ c.overSince = 0 /\ c.denyUntil = 0
    BY <2>2 DEF FreeSlot
  <2> HIDE DEF c, slot, fresh
  <2>4. Earlier(mine, now) = {} /\ Later(mine, now) = {} /\ Cardinality({}) = 0
    BY <1>5, FS_EmptySet DEF Earlier, Later
  <2>5. WindowAt(c, now, mine)
    BY <1>5, <2>3, <2>4, Rates DEF WindowAt, Millis
  <2>6. CountsOwn(c, now, now, own)
    BY <2>3, PartsOfLog DEF CountsOwn
  <2>7. DeniedOK(c, now, now, p, mine) /\ WarnedOK(c, now, p)
    BY <1>5, <2>3 DEF DeniedOK, WarnedOK
  <2>8. SlotFair(c, now, now, p, mine, own)
    BY <2>3, <2>5, <2>6, <2>7, Rates DEF SlotFair
  <2>9. Wrap \div 2 > 0
    BY WrapIs
  <2> QED BY <2>8, <2>9 DEF c
<1> QED BY <1>4, <1>5

\* A slot of a client that is not denied any more, and has not been for the
\* length of a cooldown.
Admissible(c, p, mine, own) ==
    /\ \E s \in 0..now : now - s < Wrap /\ WindowAt(c, s, mine) /\ CountsOwn(c, s, now, own)
    /\ c.windowCount <= 2 * NTP_GLOBAL_RATE_PER_SEC
    /\ c.denyUntil = 0
    /\ WarnedOK(c, now, p)

LEMMA CoolDownFair ==
    ASSUME now \in Nat, Millis # 0, NEW c \in ClientSlot, NEW p \in PastRecord,
           NEW seen \in 0..now, now - seen < Wrap \div 2,
           NEW mine, LogAt(mine, now), NEW own, LogAt(own, now),
           SlotFair(c, now, seen, p, mine, own),
           ~(c.denyUntil # 0 /\ Before(c.denyUntil))
    PROVE  /\ Admissible(CoolDown(c), p, mine, own)
           /\ p.denied = Never \/ now - p.denied >= NTP_DENY_COOLDOWN_MS
<1>0. p.denied \in Nat
  BY DEF PastRecord
<1>1. CASE c.denyUntil = 0
  <2>1. CoolDown(c) = c
    BY <1>1 DEF CoolDown
  <2>2. PICK s \in 0..now : /\ WindowAt(c, s, mine)
                            /\ seen - s < NTP_RATE_WINDOW_MS /\ CountsOwn(c, s, now, own)
    BY <1>1 DEF SlotFair
  <2>3. now - s < Wrap
    BY <2>2, WrapIs
  <2> QED BY <1>1, <2>1, <2>2, <2>3 DEF SlotFair, Admissible, DeniedOK
<1>2. CASE c.denyUntil # 0
  <2> DEFINE d == CoolDown(c)
  <2>1. d = [c EXCEPT !.denyUntil = 0, !.overSince = 0, !.windowStart = Millis, !.windowCount = 0]
    BY <1>2 DEF CoolDown
  <2> HIDE DEF d
  <2>2. d.denyUntil = 0 /\ d.overSince = 0 /\ d.windowStart = Millis /\ d.windowCount = 0
    BY <2>1 DEF ClientSlot
  <2>3. /\ c.denyUntil = (p.denied + NTP_DENY_COOLDOWN_MS) % Wrap
        /\ p.denied <= now /\ \A r \in mine : r.at <= p.denied
    BY <1>0, <1>2 DEF SlotFair, DeniedOK
  <2>4. now - p.denied >= NTP_DENY_COOLDOWN_MS
    BY <1>0, <1>2, <2>3, BeforeIs
  <2>5. mine = {}
    <3> SUFFICES ASSUME NEW r \in mine PROVE FALSE
      OBVIOUS
    <3> QED BY <1>0, <2>3, <2>4, WrapIs DEF LogAt
  <2>6. Earlier(mine, now) = {} /\ Later(mine, now) = {} /\ Cardinality({}) = 0
    BY <2>5, FS_EmptySet DEF Earlier, Later
  <2>7. WindowAt(d, now, mine)
    <3>1. \A r \in mine : r.at - now < NTP_RATE_WINDOW_MS
      BY <2>5
    <3>2. now % Wrap = d.windowStart /\ d.windowStart # 0
      BY <2>2 DEF Millis
    <3>3. 0 <= NTP_RATE_PER_IP_PER_SEC /\ 0 <= d.windowCount
      BY <2>2, Rates
    <3> QED BY <2>6, <3>1, <3>2, <3>3 DEF WindowAt
  <2>8. CountsOwn(d, now, now, own)
    BY <2>2, PartsOfLog DEF CountsOwn
  <2>9. now \in 0..now /\ now - now < Wrap
    BY WrapIs
  <2>10. Admissible(d, p, mine, own)
    BY <2>2, <2>7, <2>8, <2>9, Rates DEF Admissible, WarnedOK
  <2> QED BY <2>4, <2>10 DEF d
<1> QED BY <1>1, <1>2

\* The window that counts the packet began less than its length ago.
Current(c, s, mine, own) ==
    /\ now - s < NTP_RATE_WINDOW_MS /\ WindowAt(c, s, mine)
    /\ c.windowCount <= Cardinality(Later(own, s))

LEMMA RollWindowFair ==
    ASSUME now \in Nat, Millis # 0, NEW c \in ClientSlot, NEW p \in PastRecord,
           NEW mine, LogAt(mine, now), NEW own, LogAt(own, now), Admissible(c, p, mine, own)
    PROVE  LET d == RollWindow(c) IN
           /\ \E s \in 0..now : Current(d, s, mine, own)
           /\ d.denyUntil = 0 /\ WarnedOK(d, now, p)
<1>1. PICK s \in 0..now : now - s < Wrap /\ WindowAt(c, s, mine) /\ CountsOwn(c, s, now, own)
  BY DEF Admissible
<1>2. c.windowStart = s % Wrap /\ c.windowStart # 0
  BY <1>1 DEF WindowAt
<1>3. Since(c.windowStart) = now - s
  BY <1>1, <1>2, SinceIs
<1>4. CASE now - s < NTP_RATE_WINDOW_MS
  <2>1. RollWindow(c) = c
    BY <1>2, <1>3, <1>4, Rates DEF RollWindow
  <2>2. Current(c, s, mine, own)
    BY <1>1, <1>4 DEF Current, CountsOwn
  <2> QED BY <2>1, <2>2 DEF Admissible
<1>5. CASE now - s >= NTP_RATE_WINDOW_MS
  <2> DEFINE d == RollWindow(c)
             o == IF c.windowCount <= NTP_RATE_PER_IP_PER_SEC THEN 0 ELSE c.overSince
  <2>1. d = [c EXCEPT !.overSince = o, !.windowStart = Millis, !.windowCount = 0]
    BY <1>3, <1>5 DEF RollWindow
  <2> HIDE DEF d
  <2>2. d.denyUntil = c.denyUntil /\ d.overSince = o /\ d.windowStart = Millis /\ d.windowCount = 0
    BY <2>1 DEF ClientSlot
  <2>3. WarnedOK(d, now, p) /\ d.denyUntil = 0
    BY <2>2 DEF WarnedOK, Admissible
  <2>4. Later(mine, s) = mine /\ Later(mine, now) = {}
    <3>1. \A r \in mine : /\ r.at \in Nat /\ r.at <= now /\ now - r.at < NTP_RATE_WINDOW_MS
                          /\ r.at - s < NTP_RATE_WINDOW_MS
      BY <1>1 DEF WindowAt, LogAt
    <3>2. \A r \in mine : r.at >= s /\ ~(r.at >= now)
      BY <1>5, <3>1, Rates
    <3> QED BY <3>2 DEF Later
  <2>5. Cardinality(Earlier(mine, now)) <= NTP_RATE_PER_IP_PER_SEC
    BY <1>1, <2>4, PartsOfLog, Rates DEF WindowAt
  <2>6. Cardinality(Later(mine, now)) = 0
    BY <2>4, FS_EmptySet
  <2>7. \A r \in mine : r.at - now < NTP_RATE_WINDOW_MS
    BY Rates DEF LogAt
  <2>8. WindowAt(d, now, mine)
    BY <2>2, <2>5, <2>6, <2>7, Rates DEF WindowAt, Millis
  <2>9. now \in 0..now /\ Current(d, now, mine, own)
    BY <2>2, <2>8, PartsOfLog, Rates DEF Current
  <2> QED BY <2>3, <2>9 DEF d
<1>6. s \in Nat /\ NTP_RATE_WINDOW_MS \in Nat
  BY Rates
<1> QED BY <1>4, <1>5, <1>6

\* p2 is p after a request counted now: Remember at the time now.
Noted(p, p2, kind, excess) ==
    /\ p2 \in PastRecord /\ p2.seen = now
    /\ p2.excess = IF excess THEN now ELSE p.excess
    /\ kind \notin {"Deny", "Rate"} => p2.warned = p.warned
    /\ kind = "Rate" => p2.warned = IF p.warned = Never THEN now ELSE p.warned
    /\ kind = "Deny" => p2.warned = Never
    /\ p2.denied = IF kind = "Deny" THEN now ELSE p.denied

\* All of it is over.
UpToNow(p) == p.seen <= now /\ p.excess <= now /\ p.warned <= now /\ p.denied <= now

\* Counting the request of now in the current window.  What the slot counts was
\* asked within a window, so that an excess is one of the client itself.
LEMMA JudgeFair ==
    ASSUME now \in Nat, Millis # 0, (Millis + NTP_DENY_COOLDOWN_MS) % Wrap # 0,
           NEW c \in ClientSlot, NEW p \in PastRecord, UpToNow(p),
           NEW s \in 0..now, NEW mine, LogAt(mine, now), NEW own, LogAt(own, now),
           Current(c, s, mine, own), c.denyUntil = 0, WarnedOK(c, now, p),
           p.denied = Never \/ now - p.denied >= NTP_DENY_COOLDOWN_MS,
           NEW q, q \notin own, q.at = now, mine \subseteq own,
           NEW own2, own2 = own \cup {q}, Cardinality(own2) <= 2 * NTP_GLOBAL_RATE_PER_SEC,
           NEW mine2, mine2 = IF Judge(c).admit = "Allow" THEN mine \cup {q} ELSE mine,
           NEW p2, Noted(p, p2, Judge(c).admit, Cardinality(own2) > NTP_RATE_PER_IP_PER_SEC)
    PROVE  /\ SlotFair(Judge(c).slot, now, now, p2, mine2, own2)
           /\ Judge(c).admit # "Allow" => Cardinality(own2) > NTP_RATE_PER_IP_PER_SEC
           /\ Judge(c).admit = "Deny" =>
                p.warned # Never /\ now - p.warned >= NTP_RATE_TO_DENY_MS
<1> DEFINE n == c.windowCount + 1
           o == IF c.overSince = 0 THEN Millis ELSE c.overSince
           d == Judge(c).slot
           kind == Judge(c).admit
           R == NTP_RATE_PER_IP_PER_SEC
           counted == [c EXCEPT !.windowCount = @ + 1]
           over == [counted EXCEPT !.overSince = IF @ = 0 THEN Millis ELSE @]
           denied == [over EXCEPT !.denyUntil = (Millis + NTP_DENY_COOLDOWN_MS) % Wrap,
                                  !.overSince = 0]
<1>0. /\ c.windowCount \in Nat /\ n \in Nat
      /\ p.seen \in Nat /\ p.excess \in Nat /\ p.warned \in Nat /\ p.denied \in Nat
      /\ p2.seen \in Nat /\ p2.excess \in Nat /\ p2.warned \in Nat /\ p2.denied \in Nat
  BY DEF ClientSlot, PastRecord, Noted
<1>1. /\ counted.windowCount = n /\ counted.windowStart = c.windowStart
      /\ counted.overSince = c.overSince /\ counted.denyUntil = 0 /\ counted \in ClientSlot
  BY DEF ClientSlot
<1>2. /\ over.windowCount = n /\ over.windowStart = c.windowStart
      /\ over.overSince = o /\ over.denyUntil = 0
  <2> HIDE DEF counted
  <2> QED BY <1>1 DEF ClientSlot
<1>3. over \in ClientSlot
  <2> HIDE DEF counted
  <2> QED BY <1>1, TimeTypes DEF ClientSlot
<1>4. /\ denied.windowCount = n /\ denied.windowStart = c.windowStart /\ denied.overSince = 0
      /\ denied.denyUntil = (Millis + NTP_DENY_COOLDOWN_MS) % Wrap
  <2> HIDE DEF over
  <2> QED BY <1>2, <1>3 DEF ClientSlot
<1>5. Judge(c) = IF n <= R THEN [ slot |-> counted, admit |-> "Allow" ]
                 ELSE IF Since(o) >= NTP_RATE_TO_DENY_MS
                 THEN [ slot |-> denied, admit |-> "Deny" ]
                 ELSE [ slot |-> over, admit |-> "Rate" ]
  <2>1. Judge(c) = IF counted.windowCount <= R THEN [ slot |-> counted, admit |-> "Allow" ]
                   ELSE IF Since(over.overSince) >= NTP_RATE_TO_DENY_MS
                   THEN [ slot |-> denied, admit |-> "Deny" ]
                   ELSE [ slot |-> over, admit |-> "Rate" ]
    BY Zenon DEF Judge
  <2> HIDE DEF counted, over, denied
  <2> QED BY <1>1, <1>2, <2>1
<1> HIDE DEF counted, over, denied
<1>6. /\ kind = IF n <= R THEN "Allow"
                ELSE IF Since(o) >= NTP_RATE_TO_DENY_MS THEN "Deny" ELSE "Rate"
      /\ d.windowCount = n /\ d.windowStart = c.windowStart
      /\ d.overSince = IF kind = "Allow" THEN c.overSince ELSE IF kind = "Deny" THEN 0 ELSE o
      /\ d.denyUntil = IF kind = "Deny" THEN (Millis + NTP_DENY_COOLDOWN_MS) % Wrap ELSE 0
  <2>1. CASE n <= R
    BY <1>1, <1>5, <2>1
  <2>2. CASE ~(n <= R) /\ Since(o) >= NTP_RATE_TO_DENY_MS
    BY <1>4, <1>5, <2>2
  <2>3. CASE ~(n <= R) /\ ~(Since(o) >= NTP_RATE_TO_DENY_MS)
    BY <1>2, <1>5, <2>3
  <2> HIDE DEF n, o, d, kind, R
  <2> QED BY <2>1, <2>2, <2>3
<1>7. mine2 = IF kind = "Allow" THEN mine \cup {q} ELSE mine
  OBVIOUS
<1>8. Noted(p, p2, kind, Cardinality(own2) > R)
  OBVIOUS
<1> HIDE DEF d, kind
<1>9. /\ Cardinality(Later(own2, s)) = Cardinality(Later(own, s)) + 1
      /\ Cardinality(Later(own2, s)) <= Cardinality(own2)
      /\ Cardinality(own2) \in Nat /\ Cardinality(Later(own, s)) \in Nat
      /\ IsFiniteSet(own2)
  <2>1. Later(own2, s) = Later(own, s) \cup {q} /\ q \notin Later(own, s)
    BY DEF Later
  <2>2. IsFiniteSet(Later(own, s)) /\ Cardinality(Later(own, s)) \in Nat /\ IsFiniteSet(own)
    BY PartsOfLog DEF LogAt
  <2>3. IsFiniteSet(own2)
    BY <2>2, OneMore
  <2>4. Later(own2, s) \subseteq own2
    BY DEF Later
  <2> QED BY <2>1, <2>2, <2>3, <2>4, OneMore, FewerThan
<1>10. n <= Cardinality(Later(own2, s)) /\ n <= Cardinality(own2)
  BY <1>0, <1>9 DEF Current
<1>11. /\ kind # "Allow" => Cardinality(own2) > R
       /\ kind # "Allow" => p2.excess = now
  <2>1. kind # "Allow" => Cardinality(own2) > R
    BY <1>0, <1>6, <1>9, <1>10, Rates
  <2> QED BY <1>8, <2>1 DEF Noted
<1>12. kind = "Deny" => p.warned # Never /\ now - p.warned >= NTP_RATE_TO_DENY_MS
  <2> SUFFICES ASSUME kind = "Deny"
               PROVE  p.warned # Never /\ now - p.warned >= NTP_RATE_TO_DENY_MS
    OBVIOUS
  <2>1. Since(o) >= NTP_RATE_TO_DENY_MS
    BY <1>6
  <2>2. c.overSince # 0
    <3> SUFFICES ASSUME c.overSince = 0 PROVE FALSE
      OBVIOUS
    <3>1. o = now % Wrap
      BY DEF Millis
    <3>2. Since(now % Wrap) <= now - now
      BY SinceIs
    <3>3. Since(now % Wrap) \in Nat
      BY SinceIs
    <3> QED BY <2>1, <3>1, <3>2, <3>3, Rates
  <2>3. PICK t \in 0..now : t % Wrap = c.overSince /\ p.warned # Never /\ p.warned <= t
    BY <2>2 DEF WarnedOK
  <2>4. Since(t % Wrap) \in Nat /\ Since(t % Wrap) <= now - t
    BY <2>3, SinceIs
  <2> QED BY <1>0, <2>1, <2>2, <2>3, <2>4, Rates
<1>13. WindowAt(d, s, mine2)
  <2>1. /\ Cardinality(Earlier(mine, s)) \in Nat /\ Cardinality(Later(mine, s)) \in Nat
        /\ IsFiniteSet(Later(mine, s))
    BY PartsOfLog DEF LogAt
  <2>2. CASE kind = "Allow"
    <3>1. Earlier(mine2, s) = Earlier(mine, s)
      BY <1>7, <2>2 DEF Earlier
    <3>2. Later(mine2, s) = Later(mine, s) \cup {q} /\ q \notin Later(mine, s)
      BY <1>7, <2>2 DEF Later
    <3>3. Cardinality(Later(mine2, s)) = Cardinality(Later(mine, s)) + 1
      BY <2>1, <3>2, OneMore
    <3>4. \A r \in mine2 : r.at - s < NTP_RATE_WINDOW_MS
      BY <1>7, <2>2 DEF Current, WindowAt
    <3>5. n <= R
      BY <1>6, <2>2
    <3> QED BY <1>0, <1>6, <2>1, <3>1, <3>3, <3>4, <3>5, Rates DEF Current, WindowAt
  <2>3. CASE kind # "Allow"
    BY <1>0, <1>6, <1>7, <2>1, <2>3, Rates DEF Current, WindowAt
  <2> QED BY <2>2, <2>3
<1>14. DeniedOK(d, now, now, p2, mine2)
  <2>1. CASE kind = "Deny"
    <3>1. p2.denied = now /\ p2.excess = now
      BY <1>8, <1>11, <2>1 DEF Noted
    <3>2. d.denyUntil # 0 /\ d.denyUntil = (Millis + NTP_DENY_COOLDOWN_MS) % Wrap
      BY <1>6, <2>1
    <3>3. d.denyUntil = (now + NTP_DENY_COOLDOWN_MS) % Wrap
      <4>1. NTP_DENY_COOLDOWN_MS \in Int /\ now \in Int
        BY WrapIs
      <4>2. ((now % Wrap) + NTP_DENY_COOLDOWN_MS) % Wrap = (now + NTP_DENY_COOLDOWN_MS) % Wrap
        BY <4>1, Modulo
      <4> QED BY <3>2, <4>2 DEF Millis
    <3>4. \A r \in mine2 : r.at <= now
      BY <1>7, <2>1 DEF LogAt
    <3> QED BY <3>1, <3>2, <3>3, <3>4, WrapIs DEF DeniedOK
  <2>2. CASE kind # "Deny"
    BY <1>6, <1>8, <2>2 DEF DeniedOK, Noted
  <2> QED BY <2>1, <2>2
<1>15. WarnedOK(d, now, p2)
  <2>1. CASE kind = "Allow"
    BY <1>6, <1>8, <2>1 DEF WarnedOK, Noted
  <2>2. CASE kind = "Deny"
    BY <1>6, <2>2 DEF WarnedOK
  <2>3. CASE kind = "Rate" /\ c.overSince # 0
    BY <1>6, <1>8, <2>3 DEF WarnedOK, Noted
  <2>4. CASE kind = "Rate" /\ c.overSince = 0
    <3>1. now # 0
      BY WrapIs DEF Millis
    <3>2. p2.warned = (IF p.warned = Never THEN now ELSE p.warned)
      BY <1>8, <2>4 DEF Noted
    <3>3. p2.warned # Never /\ p2.warned <= now
      BY <1>0, <3>1, <3>2 DEF UpToNow, Never
    <3>4. d.overSince = now % Wrap /\ now \in 0..now
      BY <1>6, <2>4 DEF Millis
    <3> QED BY <3>3, <3>4 DEF WarnedOK
  <2> QED BY <1>6, <2>1, <2>2, <2>3, <2>4
<1>16. CountsOwn(d, s, now, own2) /\ now - s < NTP_RATE_WINDOW_MS
  BY <1>6, <1>10 DEF CountsOwn, Current
<1>17. d.windowCount <= 2 * NTP_GLOBAL_RATE_PER_SEC
  BY <1>0, <1>6, <1>9, <1>10, Rates
<1>18. SlotFair(d, now, now, p2, mine2, own2)
  BY <1>13, <1>14, <1>15, <1>16, <1>17 DEF SlotFair
<1> QED BY <1>11, <1>12, <1>18 DEF d, kind

\* The packet of a client that is still denied only has the slot stamped.
LEMMA DropFair ==
    ASSUME now \in Nat, NEW c \in ClientSlot, NEW p \in PastRecord, UpToNow(p),
           NEW seen \in 0..now, now - seen < Wrap \div 2,
           NEW mine, NEW own, NEW own2, SlotFair(c, now, seen, p, mine, own),
           c.denyUntil # 0, Before(c.denyUntil),
           NEW excess, NEW p2, Noted(p, p2, "Drop", excess)
    PROVE  /\ SlotFair(c, now, now, p2, mine, own2)
           /\ now - p2.excess <= NTP_DENY_COOLDOWN_MS
<1>0. /\ p.seen \in Nat /\ p.excess \in Nat /\ p.warned \in Nat /\ p.denied \in Nat
  BY DEF PastRecord
<1>1. /\ c.denyUntil = (p.denied + NTP_DENY_COOLDOWN_MS) % Wrap
      /\ p.denied <= seen /\ seen - p.denied <= NTP_DENY_COOLDOWN_MS
      /\ p.denied <= p.excess /\ \A r \in mine : r.at <= p.denied
  BY DEF SlotFair, DeniedOK
<1>2. now - p.denied < NTP_DENY_COOLDOWN_MS
  <2>1. now - p.denied < NTP_DENY_COOLDOWN_MS + (Wrap \div 2)
    BY <1>0, <1>1, WrapIs
  <2>2. p.denied <= now
    BY DEF UpToNow
  <2> QED BY <1>0, <1>1, <2>1, <2>2, BeforeIs
<1>3. /\ p2.denied = p.denied /\ p2.warned = p.warned
      /\ p2.excess \in {now, p.excess}
  BY DEF Noted
<1>4. p.denied <= p2.excess
  BY <1>1, <1>3 DEF UpToNow
<1>5. DeniedOK(c, now, now, p2, mine)
  BY <1>0, <1>1, <1>2, <1>3, <1>4, WrapIs DEF DeniedOK, UpToNow
<1>6. WarnedOK(c, now, p2)
  BY <1>3 DEF SlotFair, WarnedOK
<1>7. SlotFair(c, now, now, p2, mine, own2)
  BY <1>5, <1>6 DEF SlotFair
<1>8. p2.excess \in Nat
  BY <1>0, <1>3
<1> QED BY <1>0, <1>2, <1>4, <1>7, <1>8, WrapIs

\* What the admission of one packet makes of the slot, and what it owes the
\* client that is refused.
LEMMA AdmitFair ==
    ASSUME now \in Nat, clients \in [ Slot -> ClientSlot ], NEW ip \in Client,
           Millis # 0, (Millis + NTP_DENY_COOLDOWN_MS) % Wrap # 0,
           NEW p \in PastRecord, UpToNow(p),
           NEW mine, LogAt(mine, now), NEW own, LogAt(own, now),
           Held(ip) # {} => now - p.seen < Wrap \div 2,
           \A i \in Held(ip) : SlotFair(clients[i], now, p.seen, p, mine, own),
           Held(ip) = {} => p.denied = Never /\ mine = {},
           NEW q, q \notin own, q.at = now, mine \subseteq own,
           NEW own2, own2 = own \cup {q}, Cardinality(own2) <= 2 * NTP_GLOBAL_RATE_PER_SEC,
           NEW kind, kind = AdmitClient(ip).admit,
           NEW mine2, mine2 = IF kind = "Allow" THEN mine \cup {q} ELSE mine,
           NEW p2, Noted(p, p2, kind, Cardinality(own2) > NTP_RATE_PER_IP_PER_SEC)
    PROVE  /\ SlotFair(AdmitClient(ip).slot, now, now, p2, mine2, own2)
           /\ kind \in {"Rate", "Deny", "Drop"} => now - p2.excess <= NTP_DENY_COOLDOWN_MS
           /\ kind = "Deny" => p.warned # Never /\ now - p.warned >= NTP_RATE_TO_DENY_MS
           /\ kind \in {"Allow", "Rate", "Deny"} =>
                p.denied = Never \/ now - p.denied >= NTP_DENY_COOLDOWN_MS
<1> DEFINE c == Seen(ip)
           rolled == RollWindow(CoolDown(c))
<1>1. AdmitClient(ip) = IF c.denyUntil # 0 /\ Before(c.denyUntil)
                        THEN [ slot |-> c, admit |-> "Drop" ] ELSE Judge(rolled)
  BY DEF AdmitClient
<1>2. Stamped(c, ip) /\ Stamped(CoolDown(c), ip) /\ Stamped(rolled, ip)
  BY SeenStamped, CoolDownStamped, RollWindowStamped
<1>3. c \in ClientSlot /\ CoolDown(c) \in ClientSlot /\ rolled \in ClientSlot
  BY <1>2 DEF Stamped
<1>4. PICK seen \in 0..now :
        now - seen < Wrap \div 2 /\ SlotFair(c, now, seen, p, mine, own)
  <2>1. p.seen <= now
    BY DEF UpToNow
  <2> QED BY <2>1, SeenFair
<1>5. p2.excess \in Nat
  BY DEF Noted, PastRecord
<1> HIDE DEF c
<1>6. CASE c.denyUntil # 0 /\ Before(c.denyUntil)
  <2>1. AdmitClient(ip) = [ slot |-> c, admit |-> "Drop" ]
    BY <1>1, <1>6
  <2>2. kind = "Drop" /\ AdmitClient(ip).slot = c /\ mine2 = mine
    BY <2>1
  <2>3. SlotFair(c, now, now, p2, mine, own2) /\ now - p2.excess <= NTP_DENY_COOLDOWN_MS
    BY <1>3, <1>4, <1>6, <2>2, DropFair
  <2> QED BY <2>2, <2>3
<1>7. CASE ~(c.denyUntil # 0 /\ Before(c.denyUntil))
  <2>1. /\ Admissible(CoolDown(c), p, mine, own)
        /\ p.denied = Never \/ now - p.denied >= NTP_DENY_COOLDOWN_MS
    BY <1>3, <1>4, <1>7, CoolDownFair
  <2>2. /\ \E s \in 0..now : Current(rolled, s, mine, own)
        /\ rolled.denyUntil = 0 /\ WarnedOK(rolled, now, p)
    BY <1>3, <2>1, RollWindowFair
  <2>3. PICK s \in 0..now : Current(rolled, s, mine, own)
    BY <2>2
  <2>4. AdmitClient(ip) = Judge(rolled)
    BY <1>1, <1>7
  <2> HIDE DEF rolled
  <2>5. /\ SlotFair(Judge(rolled).slot, now, now, p2, mine2, own2)
        /\ Judge(rolled).admit # "Allow" => Cardinality(own2) > NTP_RATE_PER_IP_PER_SEC
        /\ Judge(rolled).admit = "Deny" =>
             p.warned # Never /\ now - p.warned >= NTP_RATE_TO_DENY_MS
    BY <1>3, <2>1, <2>2, <2>3, <2>4, JudgeFair
  <2>6. kind # "Allow" => p2.excess = now
    BY <2>4, <2>5 DEF Noted
  <2> QED BY <1>5, <2>1, <2>4, <2>5, <2>6, WrapIs
<1> QED BY <1>6, <1>7

-----------------------------------------------------------------------------
(* The invariant.                                                           *)

AtNow(ip) == { r \in Of(asked, ip) : r.at = now }

\* The requests of the last window; those of this instant are numbered.
LogOK ==
    /\ IsFiniteSet(asked) /\ answered \subseteq asked
    /\ \A r \in asked : /\ r.ip \in Client /\ r.nr \in Nat
                        /\ r.at \in Nat /\ r.at <= now /\ now - r.at < NTP_RATE_WINDOW_MS
                        /\ r.at = now => r.nr < Cardinality(AtNow(r.ip))

PastUpToNow == \A ip \in Client : UpToNow(past[ip])

SlotsFair ==
    \A i \in Slot :
        /\ clients[i].windowCount <= 2 * NTP_GLOBAL_RATE_PER_SEC
        /\ clients[i].ip \in Client =>
             LET ip == clients[i].ip
             IN SlotFair(clients[i], now, past[ip].seen, past[ip], Of(answered, ip), Of(asked, ip))

\* Nothing is remembered of a client that has no slot.
Strangers == \A ip \in Client : Held(ip) = {} => past[ip].denied = Never /\ Of(answered, ip) = {}

\* The global window began at g; it counts what was asked since, no more and no
\* less, and the one before it left no more than its share.
GlobalAt(g) ==
    /\ g % Wrap = global.start
    /\ Cardinality(Earlier(asked, g)) <= NTP_GLOBAL_RATE_PER_SEC
    /\ Cardinality(Later(asked, g)) <= global.count
    /\ \A r \in asked : r.at - g < NTP_RATE_WINDOW_MS
    /\ \A ip \in Client : past[ip].seen - g < NTP_RATE_WINDOW_MS
    /\ now - g < NTP_RATE_WINDOW_MS => global.count <= Cardinality(Later(asked, g))

GlobalFair == IF global.start = 0 THEN asked = {} ELSE \E g \in 0..now : GlobalAt(g)

RateInductive ==
    ServerTypes /\ PastOK /\ PastUpToNow /\ LogOK /\ SlotsFair /\ Strangers /\ GlobalFair

LEMMA LogsOfClients ==
    ASSUME LogOK, now \in Nat
    PROVE  /\ LogAt(asked, now)
           /\ \A ip : /\ LogAt(Of(asked, ip), now) /\ LogAt(Of(answered, ip), now)
                      /\ Of(answered, ip) \subseteq Of(asked, ip)
                      /\ IsFiniteSet(AtNow(ip)) /\ Cardinality(AtNow(ip)) \in Nat
<1>1. IsFiniteSet(asked) /\ answered \subseteq asked
  BY DEF LogOK
<1>2. ASSUME NEW ip
      PROVE  /\ Of(asked, ip) \subseteq asked /\ Of(answered, ip) \subseteq asked
             /\ Of(answered, ip) \subseteq Of(asked, ip) /\ AtNow(ip) \subseteq asked
  BY <1>1 DEF Of, AtNow
<1>3. \A T : T \subseteq asked => LogAt(T, now)
  BY <1>1, FewerThan DEF LogOK, LogAt
<1> QED BY <1>1, <1>2, <1>3, FewerThan

-----------------------------------------------------------------------------
(* The steps.                                                               *)

Silent ==
    /\ clients' = clients /\ global' = global
    /\ reply'.kind \notin Counted \cup {"Flood"}
    /\ now' \in Nat /\ now' >= now

Flooded(ip) ==
    /\ HandlePacket(ip) /\ ~AdmitsGlobal
    /\ global' = GlobalWindow /\ clients' = clients
    /\ reply' = [ to |-> ip, kind |-> "Flood" ] /\ now' = now

Served(ip) ==
    /\ HandlePacket(ip) /\ AdmitsGlobal
    /\ global' = [GlobalWindow EXCEPT !.count = @ + 1]
    /\ clients' = [clients EXCEPT ![FindClientSlot(ip)] = AdmitClient(ip).slot]
    /\ reply' = [ to |-> ip, kind |-> AdmitClient(ip).admit ] /\ now' = now

LEMMA StepKinds ==
    ASSUME ServerTypes, Next
    PROVE  Silent \/ \E ip \in Client : Flooded(ip) \/ Served(ip)
<1>0. NoReply.kind \notin Counted \cup {"Flood"} /\ now \in Nat
  BY DEF NoReply, Counted, ServerTypes
<1>1. CASE Advance
  <2>1. now' \in Nat /\ now' >= now
    BY <1>1, ServerAssumption DEF Advance, ServerTypes
  <2> QED BY <1>0, <1>1, <2>1 DEF Advance, Silent
<1>2. CASE ToggleShed \/ StartLoop \/ EndLoop
  BY <1>0, <1>2 DEF ToggleShed, StartLoop, EndLoop, Silent
<1>3. ASSUME NEW ip \in Client, HandlePacket(ip)
      PROVE  Silent \/ Flooded(ip) \/ Served(ip)
  <2>1. now' = now
    BY <1>3 DEF HandlePacket, TakePacket
  <2>2. CASE /\ ~AclAllows(ip) /\ Outcome(ip, "NotAllowed")
             /\ UNCHANGED <<clients, global>>
    BY <1>0, <2>1, <2>2 DEF Outcome, Silent, Counted
  <2>3. CASE AclAllows(ip) /\ ~AdmitsGlobal
    BY <1>3, <2>1, <2>3 DEF HandlePacket, Outcome, Flooded
  <2>4. CASE AclAllows(ip) /\ AdmitsGlobal
    BY <1>3, <2>1, <2>4 DEF HandlePacket, Outcome, Served
  <2> QED BY <1>3, <2>2, <2>3, <2>4 DEF HandlePacket
<1>4. ASSUME NEW ip \in Client, RefusePacket(ip) \/ ShortPacket(ip)
      PROVE  Silent
  <2>1. CASE RefusePacket(ip)
    BY <1>0, <2>1 DEF RefusePacket, TakePacket, Outcome, Counted, Silent
  <2>2. CASE ShortPacket(ip)
    BY <1>0, <2>2 DEF ShortPacket, TakePacket, Outcome, Counted, Silent
  <2> QED BY <1>4, <2>1, <2>2
<1> QED BY <1>1, <1>2, <1>3, <1>4 DEF Next, Packet

\* A step that counts nobody forgets what is older than the window.
LEMMA QuietLogs ==
    ASSUME RateInductive, MCNext, clients' = clients, reply'.kind \notin Counted,
           now' \in Nat, now' >= now
    PROVE  /\ asked' = Recent(asked) /\ answered' = Recent(answered) /\ past' = past
           /\ LogOK' /\ PastUpToNow' /\ Strangers'
<1>0. LogOK /\ Strangers /\ PastOK /\ PastUpToNow /\ now \in Nat
  BY DEF RateInductive, ServerTypes
<1>1. \A ip : Held(ip)' = Held(ip)
  BY DEF Held, Slot
<1>2. Those(Counted) = {} /\ Those({"Allow"}) = {}
  BY DEF Those, Counted
<1>3. asked' = Recent(asked)
  BY <1>2 DEF MCNext
<1>4. \A r \in answered : Held(r.ip)' # {}
  <2> SUFFICES ASSUME NEW r \in answered, Held(r.ip) = {} PROVE FALSE
    BY <1>1
  <2>1. r.ip \in Client
    BY <1>0 DEF LogOK
  <2>2. r \in Of(answered, r.ip)
    BY DEF Of
  <2> QED BY <1>0, <2>1, <2>2 DEF Strangers
<1>5. answered' = Recent(answered)
  BY <1>2, <1>4 DEF MCNext, Recent
<1>6. past' = past
  <2>1. past' = [ ip \in Client |-> IF Held(ip)' = {} THEN [past[ip] EXCEPT !.denied = Never]
                                    ELSE past[ip] ]
    BY DEF MCNext
  <2>2. \A ip \in Client : past'[ip] = past[ip]
    <3> SUFFICES ASSUME NEW ip \in Client PROVE past'[ip] = past[ip]
      OBVIOUS
    <3>1. past[ip] \in PastRecord
      BY <1>0 DEF PastOK, PastRecord
    <3>2. Held(ip) = {} => past[ip].denied = Never
      BY <1>0 DEF Strangers
    <3>3. past[ip].denied = Never => [past[ip] EXCEPT !.denied = Never] = past[ip]
      BY <3>1 DEF PastRecord
    <3> QED BY <1>1, <2>1, <3>2, <3>3
  <2> QED BY <1>0, <2>1, <2>2 DEF PastOK
<1>7. LogOK'
  <2>1. Recent(asked) \subseteq asked /\ answered' \subseteq asked'
    BY <1>0, <1>3, <1>5 DEF Recent, LogOK
  <2>2. IsFiniteSet(asked')
    BY <1>0, <1>3, <2>1, FewerThan DEF LogOK
  <2>3. ASSUME NEW r \in asked'
        PROVE  /\ r.ip \in Client /\ r.nr \in Nat
               /\ r.at \in Nat /\ r.at <= now' /\ now' - r.at < NTP_RATE_WINDOW_MS
               /\ r.at = now' => r.nr < Cardinality(AtNow(r.ip)')
    <3>1. /\ r \in asked /\ r.ip \in Client /\ r.nr \in Nat
          /\ r.at \in Nat /\ r.at <= now /\ now' - r.at < NTP_RATE_WINDOW_MS
          /\ r.at = now => r.nr < Cardinality(AtNow(r.ip))
      BY <1>0, <1>3 DEF Recent, LogOK
    <3>2. ASSUME r.at = now' PROVE r.nr < Cardinality(AtNow(r.ip)')
      <4>1. now' = now
        BY <1>0, <3>1, <3>2
      <4>2. Recent(asked) = asked
        BY <1>0, <4>1 DEF Recent, LogOK
      <4>3. AtNow(r.ip)' = AtNow(r.ip)
        BY <1>3, <4>1, <4>2 DEF AtNow, Of
      <4> QED BY <3>1, <3>2, <4>1, <4>3
    <3> QED BY <1>0, <3>1, <3>2
  <2> QED BY <2>1, <2>2, <2>3 DEF LogOK
<1>8. PastUpToNow'
  <2> SUFFICES ASSUME NEW ip \in Client PROVE UpToNow(past[ip])'
    BY DEF PastUpToNow
  <2>1. past[ip] \in PastRecord /\ UpToNow(past[ip])
    BY <1>0 DEF PastOK, PastRecord, PastUpToNow
  <2> QED BY <1>0, <1>6, <2>1 DEF UpToNow, PastRecord
<1>9. Strangers'
  <2> SUFFICES ASSUME NEW ip \in Client, Held(ip)' = {}
               PROVE  past'[ip].denied = Never /\ Of(answered, ip)' = {}
    BY DEF Strangers
  <2>1. past[ip].denied = Never /\ Of(answered, ip) = {}
    BY <1>0, <1>1 DEF Strangers
  <2> QED BY <1>5, <1>6, <2>1 DEF Of, Recent
<1> QED BY <1>3, <1>5, <1>6, <1>7, <1>8, <1>9

\* What it leaves of the slots and of the global window.
LEMMA QuietSlots ==
    ASSUME RateInductive, MCNext, clients' = clients, reply'.kind \notin Counted,
           now' \in Nat, now' >= now
    PROVE  SlotsFair'
<1>0. /\ LogOK /\ PastOK /\ SlotsFair /\ now \in Nat /\ clients \in [ Slot -> ClientSlot ]
  BY DEF RateInductive, ServerTypes
<1>1. asked' = Recent(asked) /\ answered' = Recent(answered) /\ past' = past
  BY QuietLogs
<1> SUFFICES ASSUME NEW i \in Slot, NEW ip \in Client, ip = clients[i].ip
             PROVE  SlotFair(clients[i], now', past[ip].seen, past[ip],
                             Of(answered', ip), Of(asked', ip))
  <2>1. \A i \in Slot : clients[i].windowCount <= 2 * NTP_GLOBAL_RATE_PER_SEC
    BY <1>0 DEF SlotsFair
  <2>2. \A i \in Slot : clients[i].ip \in Client =>
          LET ip == clients[i].ip
          IN SlotFair(clients[i], now', past[ip].seen, past[ip],
                      Of(answered', ip), Of(asked', ip))
    OBVIOUS
  <2>3. Slot' = Slot
    BY DEF Slot
  <2> QED BY <1>1, <2>1, <2>2, <2>3 DEF SlotsFair, Of
<1>2. SlotFair(clients[i], now, past[ip].seen, past[ip], Of(answered, ip), Of(asked, ip))
  BY <1>0 DEF SlotsFair
<1>3. clients[i] \in ClientSlot /\ past[ip] \in PastRecord /\ past[ip].seen \in Nat
  BY <1>0 DEF PastOK, PastRecord
<1>4. /\ Of(answered', ip) = { r \in Of(answered, ip) : now' - r.at < NTP_RATE_WINDOW_MS }
      /\ Of(asked', ip) = { r \in Of(asked, ip) : now' - r.at < NTP_RATE_WINDOW_MS }
  BY <1>1 DEF Of, Recent
<1>5. LogAt(Of(answered, ip), now) /\ LogAt(Of(asked, ip), now)
  BY <1>0, LogsOfClients
<1> QED BY <1>0, <1>2, <1>3, <1>4, <1>5, SlotFairAges

\* What is within a window at u was so before.
LEMMA StillWithin ==
    ASSUME NEW t \in Int, NEW u \in Int, u >= t, NEW g \in Int, NEW w \in Int, u - g < w
    PROVE  t - g < w /\ \A r \in Int : r >= g => u - r < w
OBVIOUS

LEMMA QuietGlobal ==
    ASSUME RateInductive, MCNext, clients' = clients, global' = global,
           reply'.kind \notin Counted, now' \in Nat, now' >= now
    PROVE  GlobalFair'
<1>0. /\ LogOK /\ GlobalFair /\ now \in Nat
      /\ global.count \in 0..NTP_GLOBAL_RATE_PER_SEC
  BY DEF RateInductive, ServerTypes
<1>1. asked' = Recent(asked) /\ past' = past
  BY QuietLogs
<1>2. CASE global.start = 0
  BY <1>0, <1>1, <1>2 DEF GlobalFair, Recent
<1>3. CASE global.start # 0
  <2>1. PICK g \in 0..now : GlobalAt(g)
    BY <1>0, <1>3 DEF GlobalFair
  <2>2. /\ IsFiniteSet(Earlier(asked, g)) /\ IsFiniteSet(Later(asked, g))
        /\ Cardinality(Earlier(asked, g)) \in Nat /\ Cardinality(Later(asked, g)) \in Nat
    BY <1>0, LogsOfClients, PartsOfLog DEF LogAt
  <2>3. /\ Earlier(asked', g) \subseteq Earlier(asked, g)
        /\ Later(asked', g) \subseteq Later(asked, g)
    BY <1>1 DEF Earlier, Later, Recent
  <2>4. /\ Cardinality(Earlier(asked', g)) <= Cardinality(Earlier(asked, g))
        /\ Cardinality(Earlier(asked', g)) \in Nat
        /\ Cardinality(Later(asked', g)) <= Cardinality(Later(asked, g))
        /\ Cardinality(Later(asked', g)) \in Nat
    BY <2>2, <2>3, FewerThan
  <2>5. ASSUME now' - g < NTP_RATE_WINDOW_MS
        PROVE  Later(asked', g) = Later(asked, g) /\ now - g < NTP_RATE_WINDOW_MS
    <3>1. \A r \in asked : r.at \in Nat
      BY <1>0 DEF LogOK
    <3>2. g \in Nat
      BY <1>0
    <3>3. /\ NTP_RATE_WINDOW_MS \in Int /\ now' \in Int /\ now \in Int /\ now' >= now
          /\ g \in Int
      BY <1>0, <3>2, Rates
    <3>4. /\ now - g < NTP_RATE_WINDOW_MS
          /\ \A r \in Int : r >= g => now' - r < NTP_RATE_WINDOW_MS
      BY <2>5, <3>3, StillWithin, Zenon
    <3>5. \A r \in asked : r.at >= g => now' - r.at < NTP_RATE_WINDOW_MS
      BY <3>1, <3>4
    <3>6. Later(asked', g) = Later(asked, g)
      BY <1>1, <3>5 DEF Later, Recent
    <3> QED BY <3>4, <3>6
  <2>6. GlobalAt(g)'
    <3>1. \A r \in asked' : r.at - g < NTP_RATE_WINDOW_MS
      BY <1>1, <2>1 DEF GlobalAt, Recent
    <3>2. /\ Cardinality(Earlier(asked', g)) <= NTP_GLOBAL_RATE_PER_SEC
          /\ Cardinality(Later(asked', g)) <= global.count
      BY <1>0, <2>1, <2>2, <2>4, Rates DEF GlobalAt
    <3>3. now' - g < NTP_RATE_WINDOW_MS => global.count <= Cardinality(Later(asked', g))
      BY <2>1, <2>5 DEF GlobalAt
    <3> QED BY <1>1, <2>1, <3>1, <3>2, <3>3 DEF GlobalAt, Earlier, Later
  <2>7. g \in 0..now'
    BY <1>0
  <2> QED BY <1>3, <2>6, <2>7 DEF GlobalFair
<1> QED BY <1>2, <1>3

\* What is remembered of a request that is counted now.
LEMMA RememberNoted ==
    ASSUME now \in Nat, now' = now, NEW p \in PastRecord, NEW kind, NEW excess
    PROVE  Noted(p, Remember(p, kind, excess), kind, excess)
<1> DEFINE warned == CASE kind = "Deny" -> Never
                       [] kind = "Rate" /\ p.warned = Never -> now
                       [] OTHER -> p.warned
           excessAt == IF excess THEN now ELSE p.excess
           deniedAt == IF kind = "Deny" THEN now ELSE p.denied
<1>1. Remember(p, kind, excess) =
        [ seen |-> now, excess |-> excessAt, warned |-> warned, denied |-> deniedAt ]
  BY DEF Remember
<1>2. p.seen \in Nat /\ p.excess \in Nat /\ p.warned \in Nat /\ p.denied \in Nat
  BY DEF PastRecord
<1>3. warned \in Nat
  BY <1>2 DEF Never
<1>4. excessAt \in Nat /\ deniedAt \in Nat
  BY <1>2
<1>5. /\ kind \notin {"Deny", "Rate"} => warned = p.warned
      /\ kind = "Rate" => warned = IF p.warned = Never THEN now ELSE p.warned
      /\ kind = "Deny" => warned = Never
  BY Zenon
<1> HIDE DEF warned
<1>6. [ seen |-> now, excess |-> excessAt, warned |-> warned, denied |-> deniedAt ] \in PastRecord
  <2> HIDE DEF excessAt, deniedAt
  <2> QED BY <1>3, <1>4 DEF PastRecord
<1> QED BY <1>1, <1>5, <1>6 DEF Noted

\* The request that is counted is not one of those counted before.
NewRequest(ip) == [ ip |-> ip, at |-> now, nr |-> Cardinality(AtNow(ip)) ]

LEMMA RequestIsNew ==
    ASSUME LogOK, now \in Nat, NEW ip \in Client
    PROVE  NewRequest(ip) \notin asked /\ NewRequest(ip).ip = ip /\ NewRequest(ip).at = now
<1>1. SUFFICES ASSUME NewRequest(ip) \in asked PROVE FALSE
  BY DEF NewRequest
<1>2. Cardinality(AtNow(ip)) \in Nat
  BY LogsOfClients
<1>3. NewRequest(ip).nr < Cardinality(AtNow(ip))
  BY <1>1 DEF LogOK, NewRequest
<1>4. NewRequest(ip).nr = Cardinality(AtNow(ip))
  BY DEF NewRequest
<1> QED BY <1>2, <1>3, <1>4

\* The table after a request that is counted.
LEMMA TableServed ==
    ASSUME ServerTypes, NEW ip \in Client, Served(ip)
    PROVE  LET k == FindClientSlot(ip) IN
           /\ k \in Slot /\ clients'[k].ip = ip /\ clients'[k] = AdmitClient(ip).slot
           /\ \A i \in Slot : i # k => clients'[i] = clients[i] /\ clients[i].ip # ip
           /\ Held(ip)' # {}
<1> DEFINE k == FindClientSlot(ip)
           d == AdmitClient(ip).slot
<1>0. now \in Nat /\ clients \in [ Slot -> ClientSlot ] /\ OneSlotEach
  BY DEF ServerTypes
<1>1. d.ip = ip
  BY <1>0, AdmitStamped DEF Stamped
<1>2. k \in Slot /\ (Held(ip) # {} => clients[k].ip = ip)
  BY <1>0, FoundSlot
<1>3. clients' = [clients EXCEPT ![k] = d]
  BY DEF Served
<1> HIDE DEF k, d
<1>4. \A i \in Slot : clients'[i] = IF i = k THEN d ELSE clients[i]
  BY <1>0, <1>2, <1>3
<1>5. \A i \in Slot : clients[i].ip = ip => i = k
  BY <1>0, <1>2 DEF Held, OneSlotEach
<1>6. k \in Held(ip)'
  BY <1>1, <1>2, <1>4 DEF Held, Slot
<1> QED BY <1>1, <1>2, <1>4, <1>5, <1>6 DEF k, d

\* The records after it.
LEMMA LogsServed ==
    ASSUME RateInductive, MCNext, NEW ip \in Client, Served(ip)
    PROVE  LET kind == AdmitClient(ip).admit
               q == NewRequest(ip)
           IN
           /\ asked' = asked \cup {q}
           /\ Of(asked', ip) = Of(asked, ip) \cup {q}
           /\ Of(answered', ip) = IF kind = "Allow" THEN Of(answered, ip) \cup {q}
                                  ELSE Of(answered, ip)
           /\ answered' \subseteq asked'
           /\ Noted(past[ip], past'[ip], kind,
                    Cardinality(Of(asked', ip)) > NTP_RATE_PER_IP_PER_SEC)
           /\ \A c \in Client : c # ip =>
                /\ Of(asked', c) = Of(asked, c)
                /\ Of(answered', c) = IF Held(c)' = {} THEN {} ELSE Of(answered, c)
                /\ past'[c] = IF Held(c)' = {} THEN [past[c] EXCEPT !.denied = Never] ELSE past[c]
<1> DEFINE kind == AdmitClient(ip).admit
           q == NewRequest(ip)
<1>0. /\ LogOK /\ PastOK /\ now \in Nat /\ clients \in [ Slot -> ClientSlot ]
      /\ ServerTypes
  BY DEF RateInductive, ServerTypes
<1>1. now' = now /\ reply' = [ to |-> ip, kind |-> kind ] /\ kind \in Counted
  BY <1>0, AdmitStamped DEF Served
<1>2. q.ip = ip
  BY <1>0, RequestIsNew
<1>3. Asking(ip) = q
  BY <1>1 DEF Asking, NewRequest, AtNow
<1>4. \A c \in Client : Handled(c) <=> c = ip
  BY <1>1 DEF Handled
<1>5. ASSUME NEW kinds
      PROVE  Those(kinds) = IF kind \in kinds THEN {q} ELSE {}
  <2>1. { c \in Client : Handled(c) /\ reply'.kind \in kinds }
          = IF kind \in kinds THEN {ip} ELSE {}
    BY <1>1, <1>4
  <2>2. \A T : T = {ip} => { Asking(c) : c \in T } = {q}
    BY <1>3
  <2>3. \A T : T = {} => { Asking(c) : c \in T } = {}
    OBVIOUS
  <2> DEFINE T == { c \in Client : Handled(c) /\ reply'.kind \in kinds }
  <2>4. Those(kinds) = { Asking(c) : c \in T }
    BY DEF Those
  <2> HIDE DEF T, q, kind
  <2> QED BY <2>1, <2>2, <2>3, <2>4 DEF T
<1> HIDE DEF q, kind
<1>6. Recent(asked) = asked /\ Recent(answered) = answered
  BY <1>0, <1>1 DEF Recent, LogOK
<1>7. asked' = asked \cup {q}
  BY <1>1, <1>5, <1>6 DEF MCNext
<1>8. answered' = { r \in answered : Held(r.ip)' # {} }
                    \cup (IF kind = "Allow" THEN {q} ELSE {})
  <2>1. Those({"Allow"}) = IF kind = "Allow" THEN {q} ELSE {}
    BY <1>5
  <2> QED BY <1>6, <2>1 DEF MCNext
<1>9. answered' \subseteq asked'
  BY <1>0, <1>7, <1>8 DEF LogOK
<1>10. Held(ip)' # {}
  BY <1>0, TableServed
<1>11. /\ Of(asked', ip) = Of(asked, ip) \cup {q}
       /\ Of(answered', ip) = IF kind = "Allow" THEN Of(answered, ip) \cup {q}
                              ELSE Of(answered, ip)
  BY <1>2, <1>7, <1>8, <1>10 DEF Of
<1>12. ASSUME NEW c \in Client, c # ip
       PROVE  /\ Of(asked', c) = Of(asked, c)
              /\ Of(answered', c) = IF Held(c)' = {} THEN {} ELSE Of(answered, c)
  BY <1>2, <1>7, <1>8, <1>12 DEF Of
<1>13. ASSUME NEW c \in Client, c # ip
       PROVE  past'[c] = IF Held(c)' = {} THEN [past[c] EXCEPT !.denied = Never] ELSE past[c]
  BY <1>4, <1>13 DEF MCNext
<1>14. past'[ip] = Remember(past[ip], kind,
                            Cardinality(Of(asked', ip)) > NTP_RATE_PER_IP_PER_SEC)
  BY <1>1, <1>4 DEF MCNext
<1>15. past[ip] \in PastRecord
  BY <1>0 DEF PastOK, PastRecord
<1>16. Noted(past[ip], past'[ip], kind,
             Cardinality(Of(asked', ip)) > NTP_RATE_PER_IP_PER_SEC)
  BY <1>0, <1>1, <1>14, <1>15, RememberNoted
<1> QED BY <1>7, <1>9, <1>11, <1>12, <1>13, <1>16 DEF q, kind

LEMMA RecordsServed ==
    ASSUME RateInductive, MCNext, NEW ip \in Client, Served(ip)
    PROVE  LogOK' /\ PastUpToNow' /\ Strangers'
<1> DEFINE kind == AdmitClient(ip).admit
           q == NewRequest(ip)
<1>0. /\ LogOK /\ PastOK /\ PastUpToNow /\ Strangers /\ now \in Nat /\ ServerTypes /\ now' = now
  BY DEF RateInductive, ServerTypes, Served
<1>1. q \notin asked /\ q.ip = ip /\ q.at = now /\ q.nr = Cardinality(AtNow(ip))
  BY <1>0, RequestIsNew DEF NewRequest
<1>2. /\ asked' = asked \cup {q} /\ answered' \subseteq asked'
      /\ Noted(past[ip], past'[ip], kind, Cardinality(Of(asked', ip)) > NTP_RATE_PER_IP_PER_SEC)
      /\ \A c \in Client : c # ip =>
           /\ Of(asked', c) = Of(asked, c)
           /\ Of(answered', c) = IF Held(c)' = {} THEN {} ELSE Of(answered, c)
           /\ past'[c] = IF Held(c)' = {} THEN [past[c] EXCEPT !.denied = Never] ELSE past[c]
  BY LogsServed
<1> HIDE DEF q, kind
<1>3. LogOK'
  <2>1. IsFiniteSet(asked')
    BY <1>0, <1>1, <1>2, OneMore DEF LogOK
  <2>2. ASSUME NEW c
        PROVE  AtNow(c)' = IF c = ip THEN AtNow(c) \cup {q} ELSE AtNow(c)
    BY <1>0, <1>1, <1>2 DEF AtNow, Of
  <2>3. Cardinality(AtNow(ip)') = Cardinality(AtNow(ip)) + 1 /\ Cardinality(AtNow(ip)) \in Nat
    <3>1. q \notin AtNow(ip)
      BY <1>1 DEF AtNow, Of
    <3>2. IsFiniteSet(AtNow(ip)) /\ Cardinality(AtNow(ip)) \in Nat
      BY <1>0, LogsOfClients
    <3> QED BY <2>2, <3>1, <3>2, OneMore
  <2>4. ASSUME NEW r \in asked'
        PROVE  /\ r.ip \in Client /\ r.nr \in Nat
               /\ r.at \in Nat /\ r.at <= now /\ now - r.at < NTP_RATE_WINDOW_MS
               /\ r.at = now => r.nr < Cardinality(AtNow(r.ip)')
    <3>1. CASE r = q
      BY <1>0, <1>1, <2>3, <3>1, Rates
    <3>2. CASE r # q
      <4>1. /\ r.ip \in Client /\ r.nr \in Nat
            /\ r.at \in Nat /\ r.at <= now /\ now - r.at < NTP_RATE_WINDOW_MS
            /\ r.at = now => r.nr < Cardinality(AtNow(r.ip))
        BY <1>0, <1>2, <3>2 DEF LogOK
      <4>2. CASE r.ip = ip /\ r.at = now
        <5>1. r \in AtNow(ip)
          BY <1>2, <3>2, <4>2 DEF AtNow, Of
        <5>2. r.nr < Cardinality(AtNow(ip))
          BY <4>1, <4>2
        <5> QED BY <2>3, <4>1, <4>2, <5>2
      <4>3. CASE r.ip # ip
        BY <2>2, <4>1, <4>3
      <4> QED BY <4>1, <4>2, <4>3
    <3> QED BY <3>1, <3>2
  <2> QED BY <1>0, <1>2, <2>1, <2>4 DEF LogOK
<1>4. PastUpToNow'
  <2> SUFFICES ASSUME NEW c \in Client PROVE UpToNow(past[c])'
    BY DEF PastUpToNow
  <2>1. past[c] \in PastRecord /\ UpToNow(past[c]) /\ past[ip] \in PastRecord
    BY <1>0 DEF PastOK, PastRecord, PastUpToNow
  <2>2. CASE c = ip
    <3>1. /\ past'[ip].seen = now /\ past'[ip].excess \in {now, past[ip].excess}
          /\ past'[ip].denied \in {now, past[ip].denied}
      BY <1>2 DEF Noted
    <3>2. past'[ip].warned \in {now, past[ip].warned, 0}
      BY <1>2 DEF Noted, Never
    <3> QED BY <1>0, <2>1, <2>2, <3>1, <3>2 DEF UpToNow, PastRecord
  <2>3. CASE c # ip
    <3>1. past'[c] \in {[past[c] EXCEPT !.denied = Never], past[c]}
      BY <1>2, <2>3
    <3> QED BY <1>0, <2>1, <3>1 DEF UpToNow, PastRecord, Never
  <2> QED BY <2>2, <2>3
<1>5. Strangers'
  <2> SUFFICES ASSUME NEW c \in Client, Held(c)' = {}
               PROVE  past'[c].denied = Never /\ Of(answered', c) = {}
    BY DEF Strangers, Of
  <2>1. c # ip
    BY <1>0, TableServed
  <2>2. past[c] \in PastRecord
    BY <1>0 DEF PastOK, PastRecord
  <2> QED BY <1>2, <2>1, <2>2 DEF PastRecord
<1> QED BY <1>3, <1>4, <1>5

-----------------------------------------------------------------------------
(* The global window.                                                       *)

\* The clock of the window is exact while somebody is seen now and then.
GlobalSeen == global.start # 0 => \E c \in Client : now - past[c].seen < Wrap \div 2

LEMMA GlobalSince ==
    ASSUME RateInductive, GlobalSeen, NEW g \in 0..now, GlobalAt(g), global.start # 0
    PROVE  /\ Since(global.start) = now - g
           /\ GlobalWindow = IF now - g >= NTP_RATE_WINDOW_MS
                             THEN [ start |-> Millis, count |-> 0 ] ELSE global
<1>0. now \in Nat /\ PastOK
  BY DEF RateInductive, ServerTypes
<1>1. PICK c \in Client : now - past[c].seen < Wrap \div 2
  BY DEF GlobalSeen
<1>2. past[c].seen \in Nat
  BY <1>0 DEF PastOK
<1>3. past[c].seen - g < NTP_RATE_WINDOW_MS /\ global.start = g % Wrap
  BY DEF GlobalAt
<1>4. now - g < Wrap
  BY <1>0, <1>1, <1>2, <1>3, WrapIs
<1>5. Since(global.start) = now - g
  BY <1>0, <1>3, <1>4, SinceIs
<1> QED BY <1>5 DEF GlobalWindow

\* A log is what came before and what came since.
LEMMA SplitLog ==
    ASSUME NEW t \in Nat, NEW log, LogAt(log, t), NEW g \in Nat
    PROVE  Cardinality(log) <= Cardinality(Earlier(log, g)) + Cardinality(Later(log, g))
<1>1. log = Earlier(log, g) \cup Later(log, g)
  BY DEF Earlier, Later, LogAt
<1>2. /\ IsFiniteSet(Earlier(log, g)) /\ IsFiniteSet(Later(log, g))
      /\ Cardinality(Earlier(log, g)) \in Nat /\ Cardinality(Later(log, g)) \in Nat
  BY PartsOfLog DEF LogAt
<1>3. Earlier(log, g) \cap Later(log, g) \subseteq Earlier(log, g)
  OBVIOUS
<1>4. Cardinality(Earlier(log, g) \cap Later(log, g)) \in Nat
  BY <1>2, <1>3, FewerThan
<1>5. Cardinality(Earlier(log, g) \cup Later(log, g))
        = Cardinality(Earlier(log, g)) + Cardinality(Later(log, g))
            - Cardinality(Earlier(log, g) \cap Later(log, g))
  BY <1>2, FS_Union
<1>6. \A e, l, b \in Nat : e + l - b <= e + l
  OBVIOUS
<1> QED BY <1>1, <1>2, <1>4, <1>5, <1>6

LEMMA GlobalBounds ==
    ServerTypes /\ LogOK /\ GlobalFair => Cardinality(asked) <= 2 * NTP_GLOBAL_RATE_PER_SEC
<1> SUFFICES ASSUME ServerTypes, LogOK, GlobalFair
             PROVE  Cardinality(asked) <= 2 * NTP_GLOBAL_RATE_PER_SEC
  OBVIOUS
<1>0. now \in Nat /\ GlobalFair /\ LogOK /\ global.count \in 0..NTP_GLOBAL_RATE_PER_SEC
  BY DEF ServerTypes
<1>1. CASE global.start = 0
  <2>1. asked = {}
    BY <1>1 DEF GlobalFair
  <2>2. Cardinality({}) = 0
    BY FS_EmptySet
  <2> QED BY <2>1, <2>2, Rates
<1>2. CASE global.start # 0
  <2>1. PICK g \in 0..now : GlobalAt(g)
    BY <1>0, <1>2 DEF GlobalFair
  <2>2. /\ LogAt(asked, now) /\ g \in Nat
        /\ Cardinality(Earlier(asked, g)) \in Nat /\ Cardinality(Later(asked, g)) \in Nat
        /\ Cardinality(asked) \in Nat
    BY <1>0, LogsOfClients, PartsOfLog
  <2>3. Cardinality(asked) <= Cardinality(Earlier(asked, g)) + Cardinality(Later(asked, g))
    BY <1>0, <2>2, SplitLog
  <2> QED BY <1>0, <2>1, <2>2, <2>3, Rates DEF GlobalAt
<1> QED BY <1>1, <1>2

\* A packet that finds the window full leaves it alone, and full of requests.
LEMMA GlobalFlooded ==
    ASSUME RateInductive, GlobalSeen, ~AdmitsGlobal
    PROVE  GlobalWindow = global /\ Cardinality(asked) >= NTP_GLOBAL_RATE_PER_SEC
<1>0. /\ now \in Nat /\ GlobalFair /\ LogOK
      /\ global.count \in 0..NTP_GLOBAL_RATE_PER_SEC
  BY DEF RateInductive, ServerTypes
<1>1. GlobalWindow # [ start |-> Millis, count |-> 0 ]
  BY Rates DEF AdmitsGlobal
<1>2. GlobalWindow = global /\ global.start # 0
  BY <1>1 DEF GlobalWindow
<1>3. PICK g \in 0..now : GlobalAt(g)
  BY <1>0, <1>2 DEF GlobalFair
<1>4. now - g < NTP_RATE_WINDOW_MS
  BY <1>0, <1>1, <1>2, <1>3, GlobalSince, Rates
<1>5. global.count <= Cardinality(Later(asked, g)) /\ global.count >= NTP_GLOBAL_RATE_PER_SEC
  BY <1>0, <1>2, <1>3, <1>4, Rates DEF GlobalAt, AdmitsGlobal
<1>6. /\ Cardinality(Later(asked, g)) \in Nat /\ Cardinality(asked) \in Nat
      /\ Cardinality(Later(asked, g)) <= Cardinality(asked)
  BY <1>0, LogsOfClients, PartsOfLog
<1> QED BY <1>0, <1>2, <1>5, <1>6, Rates

\* A request that is counted is counted by the window it falls into.
LEMMA GlobalServed ==
    ASSUME RateInductive, MCNext, GlobalSeen, Millis # 0, NEW ip \in Client, Served(ip)
    PROVE  GlobalFair'
<1> DEFINE q == NewRequest(ip)
           G == NTP_GLOBAL_RATE_PER_SEC
           w == GlobalWindow
<1>0. /\ now \in Nat /\ now' = now /\ GlobalFair /\ LogOK /\ PastOK /\ PastUpToNow
      /\ global.count \in 0..G /\ ServerTypes
  BY DEF RateInductive, ServerTypes, Served
<1>1. q \notin asked /\ q.at = now /\ asked' = asked \cup {q}
  BY <1>0, RequestIsNew, LogsServed
<1>2. w \in [ start : 0..(Wrap - 1), count : 0..G ] /\ w.count < G
  BY <1>0, GlobalTypes DEF AdmitsGlobal, Served
<1>3. global'.start = w.start /\ global'.count = w.count + 1
  BY <1>2 DEF Served
<1>4. \A c \in Client : past'[c].seen \in {now, past[c].seen}
  <2> SUFFICES ASSUME NEW c \in Client PROVE past'[c].seen \in {now, past[c].seen}
    OBVIOUS
  <2>1. CASE c = ip
    BY <2>1, LogsServed DEF Noted
  <2>2. CASE c # ip
    <3>1. past'[c] \in {[past[c] EXCEPT !.denied = Never], past[c]}
      BY <2>2, LogsServed
    <3>2. past[c] \in PastRecord
      BY <1>0 DEF PastOK, PastRecord
    <3> QED BY <3>1, <3>2 DEF PastRecord
  <2> QED BY <2>1, <2>2
<1>5. \A c \in Client : past[c].seen \in Nat /\ past[c].seen <= now
  BY <1>0 DEF PastOK
<1> HIDE DEF q, w
<1>6. ASSUME NEW g \in 0..now,
             g % Wrap = w.start, now - g < NTP_RATE_WINDOW_MS,
             Cardinality(Earlier(asked, g)) <= G,
             Cardinality(Later(asked, g)) = w.count,
             \A r \in asked : r.at - g < NTP_RATE_WINDOW_MS,
             w.start # 0
      PROVE  GlobalFair'
  <2>1. Earlier(asked', g) = Earlier(asked, g)
    BY <1>0, <1>1 DEF Earlier
  <2>2. Later(asked', g) = Later(asked, g) \cup {q} /\ q \notin Later(asked, g)
    BY <1>0, <1>1 DEF Later
  <2>3. Cardinality(Later(asked', g)) = w.count + 1
    <3>1. IsFiniteSet(Later(asked, g))
      BY <1>0, LogsOfClients, PartsOfLog DEF LogAt
    <3> QED BY <1>6, <2>2, <3>1, OneMore
  <2>4. \A r \in asked' : r.at - g < NTP_RATE_WINDOW_MS
    BY <1>1, <1>6
  <2>5. \A c \in Client : past'[c].seen - g < NTP_RATE_WINDOW_MS
    <3> SUFFICES ASSUME NEW c \in Client PROVE past'[c].seen - g < NTP_RATE_WINDOW_MS
      OBVIOUS
    <3>1. past[c].seen - g < NTP_RATE_WINDOW_MS
      BY <1>0, <1>5, <1>6, Rates
    <3>2. past'[c].seen = now \/ past'[c].seen = past[c].seen
      BY <1>4
    <3> QED BY <1>6, <3>1, <3>2
  <2>6. GlobalAt(g)'
    <3>1. w.count \in Nat
      BY <1>2
    <3>2. global'.count = Cardinality(Later(asked', g)) /\ global'.count <= global'.count
      BY <1>3, <2>3, <3>1
    <3>3. g % Wrap = global'.start /\ Cardinality(Earlier(asked', g)) <= NTP_GLOBAL_RATE_PER_SEC
      BY <1>3, <1>6, <2>1
    <3> QED BY <2>4, <2>5, <3>2, <3>3, Zenon DEF GlobalAt, Earlier, Later
  <2> QED BY <1>0, <1>3, <1>6, <2>6 DEF GlobalFair
<1>7. LogAt(asked, now) /\ Cardinality({}) = 0
  BY <1>0, LogsOfClients, FS_EmptySet
<1>8. ASSUME w = [ start |-> Millis, count |-> 0 ], \A r \in asked : r.at < now,
             Cardinality(asked) <= G
      PROVE  GlobalFair'
  <2>1. Later(asked, now) = {}
    <3>1. \A r \in asked : ~(r.at >= now)
      BY <1>0, <1>8 DEF LogOK
    <3> QED BY <3>1 DEF Later
  <2>2. Cardinality(Earlier(asked, now)) <= G
    BY <1>7, <1>8, PartsOfLog, Rates
  <2>3. \A r \in asked : r.at - now < NTP_RATE_WINDOW_MS
    BY <1>0, <1>8, Rates DEF LogOK
  <2>4. now \in 0..now /\ now % Wrap = w.start /\ now - now < NTP_RATE_WINDOW_MS
        /\ w.count = 0 /\ w.start # 0
    BY <1>0, <1>8, Rates DEF Millis
  <2> QED BY <1>6, <1>7, <2>1, <2>2, <2>3, <2>4
<1>9. CASE global.start = 0
  <2>1. w = [ start |-> Millis, count |-> 0 ] /\ asked = {}
    BY <1>0, <1>9 DEF GlobalWindow, GlobalFair, w
  <2> QED BY <1>7, <1>8, <2>1, Rates
<1>10. CASE global.start # 0
  <2>1. PICK g \in 0..now : GlobalAt(g)
    BY <1>0, <1>10 DEF GlobalFair
  <2>2. w = IF now - g >= NTP_RATE_WINDOW_MS THEN [ start |-> Millis, count |-> 0 ] ELSE global
    BY <1>10, <2>1, GlobalSince DEF w
  <2>3. /\ Cardinality(Later(asked, g)) \in Nat
        /\ \A r \in asked : /\ r.at \in Nat /\ now - r.at < NTP_RATE_WINDOW_MS
                            /\ r.at - g < NTP_RATE_WINDOW_MS
    BY <1>7, <2>1, PartsOfLog DEF LogAt, GlobalAt
  <2>4. CASE now - g < NTP_RATE_WINDOW_MS
    <3>1. w = global /\ global.count = Cardinality(Later(asked, g))
      BY <1>0, <2>1, <2>2, <2>3, <2>4, Rates DEF GlobalAt
    <3>2. g % Wrap = w.start /\ Cardinality(Earlier(asked, g)) <= G
      BY <2>1, <3>1 DEF GlobalAt
    <3> QED BY <1>6, <1>10, <2>3, <2>4, <3>1, <3>2
  <2>5. CASE now - g >= NTP_RATE_WINDOW_MS
    <3>1. \A r \in asked : r.at < now /\ r.at >= g
      BY <1>0, <2>3, <2>5, Rates
    <3>2. Later(asked, g) = asked
      BY <3>1 DEF Later
    <3>3. Cardinality(asked) <= G
      BY <1>0, <2>1, <2>3, <3>2, Rates DEF GlobalAt
    <3> QED BY <1>8, <2>2, <2>5, <3>1, <3>3
  <2> QED BY <1>0, <2>4, <2>5, Rates
<1> QED BY <1>9, <1>10

-----------------------------------------------------------------------------
(* The slots.                                                               *)

\* What the code takes for granted of the traffic: a client in the table is not
\* silent for half a turn of millis, not all of them are, and millis is not 0
\* when a window begins nor when a cooldown ends.
Regular(ip) ==
    /\ Millis # 0 /\ (Millis + NTP_DENY_COOLDOWN_MS) % Wrap # 0
    /\ Held(ip) # {} => now - past[ip].seen < Wrap \div 2
    /\ GlobalSeen

RegularTraffic == [][\A ip \in Client : HandlePacket(ip) => Regular(ip)]_mcvars

LEMMA SlotsServed ==
    ASSUME RateInductive, ServerTypes', MCNext, NEW ip \in Client, Served(ip), Regular(ip)
    PROVE  LET kind == AdmitClient(ip).admit
               p == past[ip]
           IN
           /\ SlotsFair'
           /\ kind \in {"Rate", "Deny", "Drop"} => now - past'[ip].excess <= NTP_DENY_COOLDOWN_MS
           /\ kind = "Deny" => p.warned # Never /\ now - p.warned >= NTP_RATE_TO_DENY_MS
           /\ kind \in {"Allow", "Rate", "Deny"} =>
                p.denied = Never \/ now - p.denied >= NTP_DENY_COOLDOWN_MS
<1> DEFINE kind == AdmitClient(ip).admit
           d == AdmitClient(ip).slot
           k == FindClientSlot(ip)
           q == NewRequest(ip)
           p == past[ip]
           p2 == past'[ip]
           mine == Of(answered, ip)
           own == Of(asked, ip)
           mine2 == Of(answered', ip)
           own2 == Of(asked', ip)
<1>0. /\ LogOK /\ PastOK /\ PastUpToNow /\ Strangers /\ SlotsFair /\ now \in Nat /\ ServerTypes
      /\ now' = now /\ clients \in [ Slot -> ClientSlot ]
  BY DEF RateInductive, ServerTypes, Served
<1>1. p \in PastRecord /\ UpToNow(p)
  BY <1>0 DEF PastOK, PastRecord, PastUpToNow
<1>2. LogAt(mine, now) /\ LogAt(own, now) /\ mine \subseteq own
  BY <1>0, LogsOfClients
<1>3. q \notin own /\ q.at = now
  BY <1>0, RequestIsNew DEF Of
<1>4. /\ own2 = own \cup {q} /\ mine2 = IF kind = "Allow" THEN mine \cup {q} ELSE mine
      /\ Noted(p, p2, kind, Cardinality(own2) > NTP_RATE_PER_IP_PER_SEC)
      /\ asked' = asked \cup {q}
  BY LogsServed
<1>5. Cardinality(own2) <= 2 * NTP_GLOBAL_RATE_PER_SEC
  <2>1. GlobalFair' /\ LogOK'
    BY GlobalServed, RecordsServed DEF Regular
  <2>2. (Cardinality(asked) <= 2 * NTP_GLOBAL_RATE_PER_SEC)'
    BY <2>1, GlobalBounds, PTL
  <2>3. IsFiniteSet(asked')
    BY <2>1 DEF LogOK
  <2>4. own2 \subseteq asked'
    BY DEF Of
  <2>5. /\ Cardinality(own2) <= Cardinality(asked')
        /\ Cardinality(own2) \in Nat /\ Cardinality(asked') \in Nat
    BY <2>3, <2>4, FewerThan
  <2>6. Cardinality(asked') <= 2 * NTP_GLOBAL_RATE_PER_SEC
    BY <2>2
  <2> HIDE DEF own2
  <2> QED BY <2>5, <2>6, Rates
<1>6. \A i \in Held(ip) : SlotFair(clients[i], now, p.seen, p, mine, own)
  BY <1>0 DEF SlotsFair, Held
<1>7. Held(ip) = {} => p.denied = Never /\ mine = {}
  BY <1>0 DEF Strangers
<1>8. /\ Millis # 0 /\ (Millis + NTP_DENY_COOLDOWN_MS) % Wrap # 0
      /\ Held(ip) # {} => now - p.seen < Wrap \div 2
  BY DEF Regular
<1> HIDE DEF q, p, p2, mine, own, mine2, own2
<1>9. /\ SlotFair(d, now, now, p2, mine2, own2)
      /\ kind \in {"Rate", "Deny", "Drop"} => now - p2.excess <= NTP_DENY_COOLDOWN_MS
      /\ kind = "Deny" => p.warned # Never /\ now - p.warned >= NTP_RATE_TO_DENY_MS
      /\ kind \in {"Allow", "Rate", "Deny"} =>
           p.denied = Never \/ now - p.denied >= NTP_DENY_COOLDOWN_MS
  BY <1>0, <1>1, <1>2, <1>3, <1>4, <1>5, <1>6, <1>7, <1>8, AdmitFair
<1>10. /\ k \in Slot /\ clients'[k].ip = ip /\ clients'[k] = d
       /\ \A i \in Slot : i # k => clients'[i] = clients[i] /\ clients[i].ip # ip
  BY <1>0, TableServed
<1> HIDE DEF d, k, kind
<1>11. ASSUME NEW i \in Slot
       PROVE  /\ clients'[i].windowCount <= 2 * NTP_GLOBAL_RATE_PER_SEC
              /\ clients'[i].ip \in Client =>
                   LET c == clients'[i].ip
                   IN SlotFair(clients'[i], now, past'[c].seen, past'[c],
                               Of(answered', c), Of(asked', c))
  <2>1. CASE i = k
    <3>1. p2.seen = now
      BY <1>4 DEF Noted
    <3>2. SlotFair(clients'[i], now, past'[ip].seen, past'[ip], Of(answered', ip), Of(asked', ip))
      BY <1>9, <1>10, <2>1, <3>1 DEF p2, mine2, own2
    <3>3. clients'[i].windowCount <= 2 * NTP_GLOBAL_RATE_PER_SEC
      BY <3>2 DEF SlotFair
    <3> QED BY <1>10, <2>1, <3>2, <3>3
  <2>2. CASE i # k
    <3>1. /\ clients'[i] = clients[i] /\ clients[i].ip # ip
          /\ clients[i].windowCount <= 2 * NTP_GLOBAL_RATE_PER_SEC
      BY <1>0, <1>10, <2>2 DEF SlotsFair
    <3>2. ASSUME NEW c \in Client, clients[i].ip = c
          PROVE  SlotFair(clients'[i], now, past'[c].seen, past'[c],
                          Of(answered', c), Of(asked', c))
      <4>1. Held(c)' # {}
        BY <3>1, <3>2 DEF Held, Slot
      <4>2. c # ip
        BY <3>1, <3>2
      <4>3. past'[c] = past[c] /\ Of(answered', c) = Of(answered, c) /\ Of(asked', c) = Of(asked, c)
        BY <4>1, <4>2, LogsServed
      <4>4. SlotFair(clients[i], now, past[c].seen, past[c], Of(answered, c), Of(asked, c))
        BY <1>0, <3>2 DEF SlotsFair
      <4> QED BY <3>1, <4>3, <4>4
    <3> QED BY <3>1, <3>2
  <2> QED BY <2>1, <2>2
<1>12. SlotsFair'
  <2>1. Slot' = Slot
    BY DEF Slot
  <2> QED BY <1>0, <1>11, <2>1 DEF SlotsFair, Of
<1> QED BY <1>9, <1>12 DEF kind, p, p2

-----------------------------------------------------------------------------
(* The theorems.                                                            *)

LEMMA InitRates == MCInit => RateInductive
<1> SUFFICES ASSUME MCInit PROVE RateInductive
  OBVIOUS
<1>1. ServerTypes /\ PastOK /\ now \in Nat
  BY InitTypes, InitLatest DEF MCInit, ServerTypes
<1>2. \A i \in Slot : clients[i].ip \notin Client /\ clients[i].windowCount = 0
  BY ServerAssumption DEF MCInit, Init, FreeSlot
<1>3. \A ip \in Client : /\ past[ip].seen = 0 /\ past[ip].excess = 0
                         /\ past[ip].warned = 0 /\ past[ip].denied = Never
  BY DEF MCInit, Never
<1>4. PastUpToNow
  BY <1>1, <1>3 DEF PastUpToNow, UpToNow, Never
<1>5. asked = {} /\ answered = {} /\ global.start = 0
  BY DEF MCInit, Init
<1>6. LogOK
  BY <1>5, FS_EmptySet DEF LogOK
<1>7. SlotsFair
  BY <1>2, Rates DEF SlotsFair
<1>8. Strangers
  BY <1>3, <1>5 DEF Strangers, Of
<1>9. GlobalFair
  BY <1>5 DEF GlobalFair
<1> QED BY <1>1, <1>4, <1>6, <1>7, <1>8, <1>9 DEF RateInductive

\* RegularTraffic, of one step.
RegularStep == \A ip \in Client : HandlePacket(ip) => Regular(ip)

LEMMA NextRates ==
    ASSUME RateInductive, MCNext, RegularStep
    PROVE  RateInductive'
<1>0. ServerTypes /\ PastOK /\ now \in Nat
  BY DEF RateInductive, ServerTypes
<1>1. ServerTypes' /\ now' \in Nat
  BY <1>0, NextTypes DEF MCNext, ServerTypes
<1>2. Silent \/ \E ip \in Client : Flooded(ip) \/ Served(ip)
  BY <1>0, StepKinds DEF MCNext
<1>3. PastOK'
  <2>1. now' >= now
    BY <1>0, <1>2 DEF Silent, Flooded, Served
  <2> QED BY <1>0, <1>1, <2>1, PastAfter DEF MCNext
<1>4. ASSUME clients' = clients, global' = global, reply'.kind \notin Counted, now' >= now
      PROVE  RateInductive'
  <2>1. LogOK' /\ PastUpToNow' /\ Strangers'
    BY <1>1, <1>4, QuietLogs
  <2>2. SlotsFair' /\ GlobalFair'
    BY <1>1, <1>4, QuietSlots, QuietGlobal
  <2> QED BY <1>1, <1>3, <2>1, <2>2 DEF RateInductive
<1>5. CASE Silent
  BY <1>4, <1>5 DEF Silent
<1>6. ASSUME NEW ip \in Client, Flooded(ip) PROVE RateInductive'
  <2>1. GlobalSeen
    BY <1>6 DEF RegularStep, Regular, Flooded
  <2>2. global' = global
    BY <1>6, <2>1, GlobalFlooded DEF Flooded
  <2>3. clients' = clients /\ reply'.kind \notin Counted /\ now' >= now
    BY <1>0, <1>6 DEF Flooded, Counted
  <2> QED BY <1>4, <2>2, <2>3
<1>7. ASSUME NEW ip \in Client, Served(ip) PROVE RateInductive'
  <2>1. Regular(ip)
    BY <1>7 DEF RegularStep, Served
  <2>2. LogOK' /\ PastUpToNow' /\ Strangers'
    BY <1>7, RecordsServed
  <2>3. GlobalFair'
    BY <1>7, <2>1, GlobalServed DEF Regular
  <2>4. SlotsFair'
    BY <1>1, <1>7, <2>1, SlotsServed
  <2> QED BY <1>1, <1>3, <2>2, <2>3, <2>4 DEF RateInductive
<1> QED BY <1>2, <1>5, <1>6, <1>7

LEMMA StutterRates == RateInductive /\ UNCHANGED mcvars => RateInductive'
<1> SUFFICES ASSUME RateInductive, UNCHANGED mcvars PROVE RateInductive'
  OBVIOUS
<1>1. /\ ServerTypes /\ PastOK /\ PastUpToNow /\ LogOK /\ SlotsFair /\ Strangers /\ GlobalFair
  BY DEF RateInductive
<1>2. /\ UNCHANGED vars
      /\ now' = now /\ clients' = clients /\ global' = global
      /\ asked' = asked /\ answered' = answered /\ past' = past
  BY DEF mcvars, vars
<1>3. ServerTypes'
  BY <1>1, <1>2, NextTypes
<1>4. PastOK' /\ PastUpToNow' /\ LogOK'
  BY <1>1, <1>2 DEF PastOK, PastUpToNow, UpToNow, LogOK, AtNow, Of
<1>5. SlotsFair' /\ Strangers'
  BY <1>1, <1>2 DEF SlotsFair, Strangers, Slot, Held, Of
<1>6. GlobalFair'
  BY <1>1, <1>2 DEF GlobalFair, GlobalAt
<1> QED BY <1>3, <1>4, <1>5, <1>6 DEF RateInductive

\* What the invariant says of the rates.
LEMMA RatesAreBounded == RateInductive => RatesBounded
<1> SUFFICES ASSUME RateInductive PROVE RatesBounded
  OBVIOUS
<1>0. ServerTypes /\ LogOK /\ GlobalFair /\ SlotsFair /\ Strangers /\ now \in Nat
  BY DEF RateInductive, ServerTypes
<1>1. Cardinality(asked) <= 2 * NTP_GLOBAL_RATE_PER_SEC
  BY <1>0, GlobalBounds
<1>2. ASSUME NEW ip \in Client
      PROVE  Cardinality(Of(answered, ip)) <= 2 * NTP_RATE_PER_IP_PER_SEC
  <2> DEFINE mine == Of(answered, ip)
  <2>1. CASE Held(ip) = {}
    <3>1. mine = {} /\ Cardinality({}) = 0
      BY <1>0, <2>1, FS_EmptySet DEF Strangers
    <3> QED BY <3>1, Rates
  <2>2. CASE Held(ip) # {}
    <3>1. PICK i \in Slot : clients[i].ip = ip
      BY <2>2 DEF Held
    <3>2. SlotFair(clients[i], now, past[ip].seen, past[ip], mine, Of(asked, ip))
      BY <1>0, <3>1 DEF SlotsFair
    <3>3. PICK s \in 0..now : WindowAt(clients[i], s, mine)
      BY <3>2 DEF SlotFair
    <3>4. LogAt(mine, now) /\ s \in Nat
      BY <1>0, LogsOfClients
    <3> HIDE DEF mine
    <3>5. /\ Cardinality(Earlier(mine, s)) \in Nat /\ Cardinality(Later(mine, s)) \in Nat
          /\ Cardinality(mine) \in Nat
      BY <1>0, <3>4, PartsOfLog
    <3>6. Cardinality(mine) <= Cardinality(Earlier(mine, s)) + Cardinality(Later(mine, s))
      BY <1>0, <3>4, SplitLog
    <3> QED BY <3>3, <3>5, <3>6, Rates DEF WindowAt, mine
  <2> QED BY <2>1, <2>2
<1>3. \A i \in Slot : clients[i].windowCount <= 2 * NTP_GLOBAL_RATE_PER_SEC
  BY <1>0 DEF SlotsFair
<1> QED BY <1>1, <1>2, <1>3 DEF RatesBounded

\* What a step owes the client whose packet it handles.
LEMMA StepIsFair ==
    ASSUME RateInductive, MCNext, RegularStep, NEW ip \in Client, Handled(ip)
    PROVE  /\ reply'.kind \in {"Rate", "Deny", "Drop"}
                => now - past'[ip].excess <= NTP_DENY_COOLDOWN_MS
           /\ reply'.kind = "Flood" => Cardinality(asked') >= NTP_GLOBAL_RATE_PER_SEC
           /\ reply'.kind = "Deny"
                => past[ip].warned # Never /\ now - past[ip].warned >= NTP_RATE_TO_DENY_MS
           /\ reply'.kind \in {"Allow", "Rate", "Deny"}
                => \/ past[ip].denied = Never
                   \/ now - past[ip].denied >= NTP_DENY_COOLDOWN_MS
<1>0. ServerTypes /\ now \in Nat /\ LogOK
  BY DEF RateInductive, ServerTypes
<1>1. ServerTypes'
  BY <1>0, NextTypes DEF MCNext
<1>2. Silent \/ \E c \in Client : Flooded(c) \/ Served(c)
  BY <1>0, StepKinds DEF MCNext
<1>3. CASE Silent
  BY <1>3 DEF Silent, Counted
<1>4. ASSUME NEW c \in Client, Flooded(c)
      PROVE  reply'.kind = "Flood" /\ Cardinality(asked') >= NTP_GLOBAL_RATE_PER_SEC
  <2>1. GlobalSeen
    BY <1>4 DEF RegularStep, Regular, Flooded
  <2>2. Cardinality(asked) >= NTP_GLOBAL_RATE_PER_SEC
    BY <1>4, <2>1, GlobalFlooded DEF Flooded
  <2>3. clients' = clients /\ reply'.kind = "Flood" /\ now' = now
    BY <1>4 DEF Flooded
  <2>4. asked' = Recent(asked)
    BY <1>0, <2>3, QuietLogs DEF Counted
  <2>5. Recent(asked) = asked
    BY <1>0, <2>3 DEF Recent, LogOK
  <2> QED BY <2>2, <2>3, <2>4, <2>5
<1>5. ASSUME NEW c \in Client, Served(c)
      PROVE  /\ c = ip /\ reply'.kind = AdmitClient(ip).admit /\ reply'.kind # "Flood"
             /\ reply'.kind \in {"Rate", "Deny", "Drop"}
                  => now - past'[ip].excess <= NTP_DENY_COOLDOWN_MS
             /\ reply'.kind = "Deny"
                  => past[ip].warned # Never /\ now - past[ip].warned >= NTP_RATE_TO_DENY_MS
             /\ reply'.kind \in {"Allow", "Rate", "Deny"}
                  => \/ past[ip].denied = Never
                     \/ now - past[ip].denied >= NTP_DENY_COOLDOWN_MS
  <2>1. c = ip /\ reply'.kind = AdmitClient(ip).admit
    BY <1>5 DEF Served, Handled
  <2>2. reply'.kind # "Flood"
    BY <1>0, <2>1, AdmitStamped DEF Counted, ServerTypes
  <2>3. Regular(ip)
    BY <1>5, <2>1 DEF RegularStep, Served
  <2> QED BY <1>1, <1>5, <2>1, <2>2, <2>3, SlotsServed
<1> QED BY <1>2, <1>3, <1>4, <1>5

LEMMA RegularRates ==
    MCSpec /\ RegularTraffic => []RateInductive
<1>1. RateInductive /\ [MCNext]_mcvars /\ [RegularStep]_mcvars => RateInductive'
  BY NextRates, StutterRates
<1> QED BY <1>1, InitRates, PTL DEF MCSpec, RegularTraffic, RegularStep

\* For all rates, slots and clients: no interval of the length of a window ever
\* holds more than twice the rate, neither of answers to one client that keeps
\* its slot nor of requests of all; and windowCount stays below twice the global
\* rate, so that a uint16_t holds it.
THEOREM RatesBoundedAlways == MCSpec /\ RegularTraffic => []RatesBounded
BY RegularRates, RatesAreBounded, PTL

\* A client is warned, denied or ignored only within a cooldown of an excess of
\* its own, and dropped for the global rate only when that many requests of the
\* last window were counted.
THEOREM RefusalIsAlwaysDeserved == MCSpec /\ RegularTraffic => RefusalIsDeserved
<1> DEFINE Step ==
      \A ip \in Client :
        /\ Handled(ip) /\ reply'.kind \in {"Rate", "Deny", "Drop"}
             => now - past'[ip].excess <= NTP_DENY_COOLDOWN_MS
        /\ Handled(ip) /\ reply'.kind = "Flood"
             => Cardinality(asked') >= NTP_GLOBAL_RATE_PER_SEC
<1>1. RateInductive /\ [MCNext]_mcvars /\ [RegularStep]_mcvars => [Step]_mcvars
  BY StepIsFair
<1> QED BY <1>1, RegularRates, PTL DEF MCSpec, RegularTraffic, RegularStep, RefusalIsDeserved

\* A DENY comes at least NTP_RATE_TO_DENY_MS after a RATE, and no answer and no
\* second kiss before the cooldown that it begins is over, unless the client's
\* slot is given to another (ntp_server.cpp, admitClient).
THEOREM DenyIsAlwaysWarnedAndSilent == MCSpec /\ RegularTraffic => DenyIsWarnedAndSilent
<1> DEFINE Step ==
      \A ip \in Client : Handled(ip) =>
        /\ reply'.kind = "Deny"
             => past[ip].warned # Never /\ now - past[ip].warned >= NTP_RATE_TO_DENY_MS
        /\ reply'.kind \in {"Allow", "Rate", "Deny"}
             => \/ past[ip].denied = Never
                \/ now - past[ip].denied >= NTP_DENY_COOLDOWN_MS
<1>1. RateInductive /\ [MCNext]_mcvars /\ [RegularStep]_mcvars => [Step]_mcvars
  BY StepIsFair
<1> QED BY <1>1, RegularRates, PTL DEF MCSpec, RegularTraffic, RegularStep, DenyIsWarnedAndSilent
=============================================================================
