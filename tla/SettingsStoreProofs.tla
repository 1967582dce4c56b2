------------------------- MODULE SettingsStoreProofs -------------------------
(***************************************************************************)
(* Machine-checked facts about SettingsStore, for any fields a first flash  *)
(* may hold, any changes the menus make and any number of power failures:   *)
(* what is in memory can be used; a load settles; a restart loads what was  *)
(* stored, and nothing that was not saved.                                  *)
(*                                                                          *)
(* A save is a sequence of keys, and the flash between two of them is       *)
(* nobody's settings.  Each inductive invariant therefore speaks of the     *)
(* writes still to come as well as of the flash: Towards (they lead every   *)
(* key to what is saved), Settling (they end in a record no load rewrites), *)
(* Accepted (the CRC is the last of them), Lasting (each of them is worth   *)
(* keeping).                                                                *)
(*                                                                          *)
(* Two of the results need OneTask, since settingsCommit saves without the  *)
(* lock and two saves may interleave, and NoNullNetwork, since a network    *)
(* called "null" is stored by handleConnect and dropped by loadSettings.    *)
(***************************************************************************)
EXTENDS MCSettingsStore, TLAPS

Fields == {"ssid", "pass", "tz", "apol", "ahold", "ooff"}
Holds == MinHold..CLK_HOLDOVER_SEC_MAX

\* Settings the program can use.
Usable(s) == DOMAIN s = Fields /\ s["apol"] \in Policies /\ s["ahold"] \in Holds

LEMMA StoreFacts ==
    /\ "boot" \notin Task /\ Writer = Task \cup {"boot"}
    /\ MinHold = 10 /\ CLK_HOLDOVER_SEC_MAX \in Nat /\ CLK_HOLDOVER_SHORT_SEC \in Holds
    /\ Holds \subseteq Nat
    /\ "Refuse" \in Policies /\ \A p \in Policies : PresetHold[p] \in Nat
BY StoreAssumption DEF Writer, MinHold, Holds, Policies

LEMMA DefaultsUsable == Usable(Defaults)
BY StoreFacts DEF Usable, Defaults, Fields

-----------------------------------------------------------------------------
(* Writes under way.                                                        *)

IsSeq(q) == \E S : q \in Seq(S)

\* The next write is the first; what is left is the rest, in its place.
LEMMA TailWrites ==
    ASSUME NEW q, IsSeq(q), q # <<>>
    PROVE  /\ Len(q) \in Nat \ {0} /\ Head(q) = q[1]
           /\ IsSeq(Tail(q)) /\ Len(Tail(q)) = Len(q) - 1
           /\ \A i \in 1..(Len(q) - 1) : Tail(q)[i] = q[i + 1]
           /\ Tail(q) = <<>> <=> Len(q) = 1
<1>1. PICK S : q \in Seq(S)
  BY DEF IsSeq
<1>2. Tail(q) \in Seq(S) /\ Len(Tail(q)) = Len(q) - 1 /\ Len(q) \in Nat \ {0}
  BY <1>1
<1>3. Head(q) = q[1] /\ \A i \in 1..(Len(q) - 1) : Tail(q)[i] = q[i + 1]
  BY <1>1
<1>4. Tail(q) = <<>> <=> Len(Tail(q)) = 0
  BY <1>2
<1>5. Tail(q) = <<>> <=> Len(q) = 1
  BY <1>2, <1>4
<1> QED BY <1>2, <1>3, <1>5, Zenon DEF IsSeq

\* A holdover is written as a number.
Typed(q) ==
    /\ IsSeq(q)
    /\ \A i \in 1..Len(q) : q[i][1] = "ahold" => q[i][2] \in Nat

LEMMA TailTyped ==
    ASSUME NEW q, Typed(q), q # <<>>
    PROVE  Typed(Tail(q)) /\ (Head(q)[1] = "ahold" => Head(q)[2] \in Nat)
BY TailWrites DEF Typed

\* The writes of q lead the keys K of a flash to the values of f: a key is
\* either there or still to be written, and nothing else is written to it.
Towards(flash, q, f, K) ==
    /\ IsSeq(q)
    /\ \A i \in 1..Len(q) : q[i][1] \in K => q[i][2] = f[q[i][1]]
    /\ \A key \in K : \/ \E i \in 1..Len(q) : q[i][1] = key
                      \/ key \in DOMAIN flash /\ flash[key] = f[key]

WritesOne(key, value) ==
    nvs' = [ k \in DOMAIN nvs \cup {key} |-> IF k = key THEN value ELSE nvs[k] ]

LEMMA TowardsStep ==
    ASSUME NEW q, NEW f, NEW K, Towards(nvs, q, f, K), q # <<>>,
           WritesOne(Head(q)[1], Head(q)[2])
    PROVE  Towards(nvs', Tail(q), f, K)
<1> DEFINE key == Head(q)[1]
           rest == Tail(q)
<1>1. /\ Len(q) \in Nat \ {0} /\ Head(q) = q[1] /\ IsSeq(rest) /\ Len(rest) = Len(q) - 1
      /\ \A i \in 1..(Len(q) - 1) : rest[i] = q[i + 1]
  BY TailWrites DEF Towards
<1>2. /\ \A i \in 1..Len(q) : q[i][1] \in K => q[i][2] = f[q[i][1]]
      /\ \A k \in K : \/ \E i \in 1..Len(q) : q[i][1] = k
                      \/ k \in DOMAIN nvs /\ nvs[k] = f[k]
  BY DEF Towards
<1>3. (key \in K => Head(q)[2] = f[key]) /\ q[1][1] = key
  BY <1>1, <1>2
<1>4. /\ DOMAIN nvs' = DOMAIN nvs \cup {key}
      /\ key \in K => nvs'[key] = f[key]
      /\ \A k \in DOMAIN nvs : k # key => nvs'[k] = nvs[k]
  BY <1>3 DEF WritesOne
<1> HIDE DEF key, rest
<1>5. \A i \in 1..Len(rest) : rest[i][1] \in K => rest[i][2] = f[rest[i][1]]
  <2> SUFFICES ASSUME NEW i \in 1..Len(rest)
               PROVE  rest[i][1] \in K => rest[i][2] = f[rest[i][1]]
    OBVIOUS
  <2>1. i + 1 \in 1..Len(q) /\ rest[i] = q[i + 1]
    BY <1>1
  <2> QED BY <1>2, <2>1
<1>6. ASSUME NEW k \in K
      PROVE  \/ \E i \in 1..Len(rest) : rest[i][1] = k
             \/ k \in DOMAIN nvs' /\ nvs'[k] = f[k]
  <2>1. CASE k = key
    BY <1>4, <2>1
  <2>2. CASE k # key /\ k \in DOMAIN nvs /\ nvs[k] = f[k]
    BY <1>4, <2>2
  <2>3. CASE k # key /\ \E i \in 1..Len(q) : q[i][1] = k
    <3>1. PICK i \in 1..Len(q) : q[i][1] = k
      BY <2>3
    <3>2. i # 1
      BY <1>3, <2>3, <3>1
    <3>3. i - 1 \in 1..Len(rest) /\ rest[i - 1] = q[i]
      BY <1>1, <3>1, <3>2
    <3> QED BY <3>1, <3>3
  <2> QED BY <1>2, <2>1, <2>2, <2>3
<1> QED BY <1>1, <1>5, <1>6 DEF Towards, rest

-----------------------------------------------------------------------------
(* Types.                                                                   *)

StoreTypes ==
    /\ Usable(settings)
    /\ DOMAIN copy = Task /\ \A t \in Task : Usable(copy[t])
    /\ at \in [ Task -> {"idle", "edit", "save"} ]
    /\ \A t \in Task : at[t] # "idle" => phase = "on"
    /\ DOMAIN writes = Writer /\ \A w \in Writer : Typed(writes[w])
    /\ \A w \in Writer : writes[w] # <<>> =>
         IF w \in Task THEN phase = "on" /\ at[w] = "save" ELSE phase \in {"load", "reset"}
    /\ "ahold" \in DOMAIN nvs => nvs["ahold"] \in Nat
    /\ phase \in {"boot", "load", "reset", "on"}
    /\ commits \in 0..MaxCommits /\ crashes \in 0..MaxCrashes

LEMMA ClampHolds == ASSUME NEW hold \in Nat PROVE Clamp(hold) \in Holds /\ Clamp(hold) \in Nat
BY StoreFacts DEF Clamp, Holds

LEMMA RawFields ==
    ASSUME "ahold" \in DOMAIN nvs => nvs["ahold"] \in Nat
    PROVE  DOMAIN Raw = Fields /\ Raw["apol"] \in Policies /\ Raw["ahold"] \in Nat
<1> DEFINE policy == IF Get("apol", "Refuse") \in Policies THEN Get("apol", "Refuse")
                     ELSE "Refuse"
           preset == IF PresetHold[policy] > 0 THEN PresetHold[policy]
                     ELSE CLK_HOLDOVER_SHORT_SEC
           hold == Get("ahold", preset)
           ssid == IF Repaired THEN "" ELSE Get("ssid", "")
           pass == IF Repaired THEN "" ELSE Get("pass", "")
           tz == Get("tz", Defaults.tz)
           ooff == Get("ooff", Defaults.ooff)
<1>1. policy \in Policies
  BY StoreFacts
<1> HIDE DEF policy
<1>2. preset \in Nat
  BY <1>1, StoreFacts
<1> HIDE DEF preset
<1>3. hold \in Nat
  BY <1>2 DEF Get
<1> HIDE DEF hold, ssid, pass, tz, ooff
<1>4. Raw = [ ssid |-> ssid, pass |-> pass, tz |-> tz, apol |-> policy, ahold |-> hold,
              ooff |-> ooff ]
  BY DEF Raw, policy, preset, hold, ssid, pass, tz, ooff
<1> QED BY <1>1, <1>3, <1>4 DEF Fields

LEMMA LoadedFields ==
    ASSUME "ahold" \in DOMAIN nvs => nvs["ahold"] \in Nat
    PROVE  /\ Usable(Loaded) /\ Loaded["ahold"] = Clamp(Raw["ahold"])
           /\ \A k \in Fields \ {"ahold"} : Loaded[k] = Raw[k]
BY RawFields, ClampHolds DEF Loaded, Usable, Fields

LEMMA SaveTyped == ASSUME NEW s, Usable(s) PROVE Typed(Save(s))
<1> DEFINE q == Save(s)
<1>1. q \in Seq({q[1], q[2], q[3], q[4], q[5], q[6], q[7], q[8]}) /\ Len(q) = 8
  BY DEF Save
<1>2. \A i \in 1..8 : q[i][1] = "ahold" => q[i][2] = s.ahold
  BY DEF Save
<1>3. s.ahold \in Nat
  BY StoreFacts DEF Usable
<1> QED BY <1>1, <1>2, <1>3 DEF Typed, IsSeq

LEMMA RefreshTyped ==
    ASSUME "ahold" \in DOMAIN nvs => nvs["ahold"] \in Nat
    PROVE  Typed(Refresh)
<1> DEFINE q == Refresh
<1>1. q \in Seq({q[1], q[2], q[3]}) /\ Len(q) = 3
  BY DEF Refresh
<1>2. \A i \in 1..3 : q[i][1] = "ahold" => q[i][2] = Loaded.ahold
  BY DEF Refresh
<1>3. Loaded.ahold \in Nat
  BY LoadedFields, StoreFacts DEF Usable
<1> QED BY <1>1, <1>2, <1>3 DEF Typed, IsSeq

LEMMA EmptyTyped == Typed(<<>>)
BY DEF Typed, IsSeq

LEMMA ChangedUsable ==
    ASSUME NEW t \in Task, NEW change \in ChangesOf[t], NEW s, Usable(s)
    PROVE  Usable(Changed(s, change))
BY StoreAssumption DEF Usable, Changed, Fields, Policies, Holds

LEMMA PutTypes ==
    ASSUME StoreTypes, NEW w \in Writer, Put(w)
    PROVE  StoreTypes'
<1> DEFINE q == writes[w]
           key == Head(q)[1]
           value == Head(q)[2]
<1>1. q # <<>> /\ Typed(q) /\ IsSeq(q)
  BY DEF Put, StoreTypes, Typed
<1>2. WritesOne(key, value)
  BY DEF Put, WritesOne
<1>3. /\ writes' = [writes EXCEPT ![w] = Tail(q)]
      /\ at' = IF w \in Task /\ Len(q) = 1 THEN [at EXCEPT ![w] = "idle"] ELSE at
      /\ settings' = settings /\ phase' = phase /\ copy' = copy
      /\ commits' = commits /\ crashes' = crashes
  BY DEF Put
<1>4. Typed(Tail(q)) /\ (key = "ahold" => value \in Nat)
  BY <1>1, TailTyped
<1>5. Tail(q) = <<>> <=> Len(q) = 1
  BY <1>1, TailWrites
<1> HIDE DEF q, key, value
<1>6. "ahold" \in DOMAIN nvs' => nvs'["ahold"] \in Nat
  BY <1>2, <1>4 DEF WritesOne, StoreTypes
<1>7. at' \in [ Task -> {"idle", "edit", "save"} ]
  BY <1>3 DEF StoreTypes
<1>8. DOMAIN writes' = Writer /\ \A x \in Writer : Typed(writes'[x])
  BY <1>3, <1>4 DEF StoreTypes
<1>9. \A x \in Writer : writes'[x] # <<>> => writes[x] # <<>> /\ (x = w => Len(q) # 1)
  BY <1>1, <1>3, <1>5 DEF StoreTypes, q
<1>10. \A x \in Task : at'[x] = at[x] \/ (x = w /\ Len(q) = 1 /\ at'[x] = "idle")
  BY <1>3 DEF StoreTypes
<1>11. \A x \in Writer : writes'[x] # <<>> =>
         IF x \in Task THEN phase' = "on" /\ at'[x] = "save" ELSE phase' \in {"load", "reset"}
  BY <1>3, <1>9, <1>10 DEF StoreTypes
<1>12. \A t \in Task : at'[t] # "idle" => phase' = "on"
  BY <1>3, <1>10 DEF StoreTypes
<1> QED BY <1>3, <1>6, <1>7, <1>8, <1>11, <1>12 DEF StoreTypes

LEMMA CommitTypes ==
    ASSUME StoreTypes, NEW t \in Task, NEW change \in ChangesOf[t], Commit(t, change)
    PROVE  StoreTypes'
<1>1. Usable(settings') /\ Typed(Save(settings'))
  BY ChangedUsable, SaveTyped DEF Commit, StoreTypes
<1>2. commits' \in 0..MaxCommits
  BY StoreAssumption DEF Commit, StoreTypes
<1>3. /\ writes' = [writes EXCEPT ![t] = Save(settings')]
      /\ at' = [at EXCEPT ![t] = "save"] /\ at[t] = "edit"
      /\ nvs' = nvs /\ phase' = phase /\ copy' = copy /\ crashes' = crashes
  BY DEF Commit
<1>4. phase = "on" /\ t \in Writer
  BY <1>3, StoreFacts DEF StoreTypes
<1> HIDE DEF Save
<1>5. at' \in [ Task -> {"idle", "edit", "save"} ] /\ at'[t] = "save"
      /\ \A x \in Task : x # t => at'[x] = at[x]
  BY <1>3 DEF StoreTypes
<1>6. DOMAIN writes' = Writer /\ \A x \in Writer : Typed(writes'[x])
  BY <1>1, <1>3 DEF StoreTypes
<1>7. \A x \in Writer : writes'[x] # <<>> =>
         IF x \in Task THEN phase' = "on" /\ at'[x] = "save" ELSE phase' \in {"load", "reset"}
  BY <1>3, <1>4, <1>5 DEF StoreTypes
<1> QED BY <1>1, <1>2, <1>3, <1>4, <1>5, <1>6, <1>7 DEF StoreTypes

LEMMA StoreInit == Init => StoreTypes
<1> SUFFICES ASSUME Init PROVE StoreTypes
  OBVIOUS
<1>1. Usable(settings) /\ DOMAIN copy = Task /\ \A t \in Task : Usable(copy[t])
  BY DefaultsUsable DEF Init
<1>2. at \in [ Task -> {"idle", "edit", "save"} ] /\ \A t \in Task : at[t] = "idle"
  BY DEF Init
<1>3. DOMAIN writes = Writer /\ \A w \in Writer : Typed(writes[w]) /\ writes[w] = <<>>
  BY EmptyTyped DEF Init, Nobody
<1>4. "ahold" \in DOMAIN nvs => nvs["ahold"] \in Nat
  BY StoreAssumption DEF Init
<1>5. phase = "boot" /\ commits \in 0..MaxCommits /\ crashes \in 0..MaxCrashes
  BY StoreAssumption DEF Init
<1> QED BY <1>1, <1>2, <1>3, <1>4, <1>5 DEF StoreTypes

LEMMA StoreNext == StoreTypes /\ [Next]_vars => StoreTypes'
<1> SUFFICES ASSUME StoreTypes, [Next]_vars PROVE StoreTypes'
  OBVIOUS
<1>1. CASE Load
  <2>1. Usable(Loaded) /\ Typed(Refresh)
    BY LoadedFields, RefreshTyped DEF StoreTypes
  <2>2. Typed(IF NeedsRewrite THEN Refresh ELSE <<>>)
    BY <2>1, EmptyTyped
  <2> DEFINE q == IF NeedsRewrite THEN Refresh ELSE <<>>
  <2> HIDE DEF q
  <2>3. /\ phase = "boot" /\ phase' = "load" /\ settings' = Loaded
        /\ writes' = [writes EXCEPT !["boot"] = q]
        /\ nvs' = nvs /\ copy' = copy /\ at' = at /\ commits' = commits /\ crashes' = crashes
    BY <1>1 DEF Load, q
  <2>4. \A t \in Task : at[t] = "idle" /\ writes[t] = <<>>
    BY <2>3, StoreFacts DEF StoreTypes
  <2>5. DOMAIN writes' = Writer /\ \A w \in Writer : Typed(writes'[w])
    BY <2>2, <2>3 DEF StoreTypes, q
  <2>6. \A w \in Writer : writes'[w] # <<>> => w \notin Task
    BY <2>3, <2>4, StoreFacts DEF StoreTypes
  <2> QED BY <2>1, <2>3, <2>4, <2>5, <2>6 DEF StoreTypes
<1>2. CASE StartTasks
  <2>1. \A w \in Writer : writes[w] = <<>>
    BY <1>2, StoreFacts DEF StartTasks, StoreTypes
  <2> QED BY <1>2, <2>1 DEF StartTasks, StoreTypes
<1>3. CASE FactoryReset
  <2>1. Typed(Save(Defaults))
    BY DefaultsUsable, SaveTyped
  <2> DEFINE q == Save(Defaults)
  <2> HIDE DEF q
  <2>2. /\ phase = "boot" /\ phase' = "reset" /\ settings' = settings /\ nvs' = <<>>
        /\ writes' = [writes EXCEPT !["boot"] = q]
        /\ copy' = copy /\ at' = at /\ commits' = commits /\ crashes' = crashes
    BY <1>3 DEF FactoryReset, q
  <2>3. \A t \in Task : at[t] = "idle" /\ writes[t] = <<>>
    BY <2>2, StoreFacts DEF StoreTypes
  <2>4. DOMAIN writes' = Writer /\ \A w \in Writer : Typed(writes'[w])
    BY <2>1, <2>2 DEF StoreTypes, q
  <2>5. \A w \in Writer : writes'[w] # <<>> => w \notin Task
    BY <2>2, <2>3, StoreFacts DEF StoreTypes
  <2>6. "ahold" \notin DOMAIN nvs'
    BY <2>2
  <2> QED BY <2>2, <2>3, <2>4, <2>5, <2>6 DEF StoreTypes
<1>4. CASE Restart
  <2>1. \A w \in Writer : writes[w] = <<>>
    BY <1>4, StoreFacts DEF Restart, StoreTypes
  <2>2. \A t \in Task : at[t] = "idle"
    BY <1>4 DEF Restart, StoreTypes
  <2> QED BY <1>4, <2>1, <2>2 DEF Restart, StoreTypes
<1>5. CASE PreviewTimezone
  BY <1>5 DEF PreviewTimezone, StoreTypes, Usable, Fields
<1>6. CASE Crash
  <2>1. Usable(settings') /\ DOMAIN copy' = Task /\ \A t \in Task : Usable(copy'[t])
    BY <1>6, DefaultsUsable DEF Crash
  <2>2. at' \in [ Task -> {"idle", "edit", "save"} ] /\ \A t \in Task : at'[t] = "idle"
    BY <1>6 DEF Crash
  <2>3. DOMAIN writes' = Writer /\ \A w \in Writer : Typed(writes'[w]) /\ writes'[w] = <<>>
    BY <1>6, EmptyTyped DEF Crash, Nobody
  <2>4. crashes' \in 0..MaxCrashes
    BY <1>6, StoreAssumption DEF Crash, StoreTypes
  <2> QED BY <1>6, <2>1, <2>2, <2>3, <2>4 DEF Crash, StoreTypes
<1>7. ASSUME NEW w \in Writer, Put(w) PROVE StoreTypes'
  BY <1>7, PutTypes
<1>8. ASSUME NEW t \in Task, Copy(t) PROVE StoreTypes'
  <2>1. \A x \in Task : Usable(copy'[x])
    BY <1>8 DEF Copy, StoreTypes
  <2>2. DOMAIN copy' = Task /\ at' \in [ Task -> {"idle", "edit", "save"} ]
    BY <1>8 DEF Copy, StoreTypes
  <2>3. \A x \in Task : at[x] = "save" => at'[x] = "save"
    BY <1>8 DEF Copy, StoreTypes
  <2> QED BY <1>8, <2>1, <2>2, <2>3 DEF Copy, StoreTypes
<1>9. ASSUME NEW t \in Task, GiveUp(t) PROVE StoreTypes'
  <2>1. at' \in [ Task -> {"idle", "edit", "save"} ]
        /\ \A x \in Task : (at[x] = "save" => at'[x] = "save") /\ (at'[x] # "idle" => at[x] # "idle")
    BY <1>9 DEF GiveUp, StoreTypes
  <2> QED BY <1>9, <2>1 DEF GiveUp, StoreTypes
<1>10. ASSUME NEW t \in Task, NEW change \in ChangesOf[t], Commit(t, change)
       PROVE  StoreTypes'
  BY <1>10, CommitTypes
<1>11. CASE UNCHANGED vars
  BY <1>11 DEF vars, StoreTypes
<1> QED BY <1>1, <1>2, <1>3, <1>4, <1>5, <1>6, <1>7, <1>8, <1>9, <1>10, <1>11 DEF Next

\* Whatever an older or newer firmware, or a torn save, has left in flash, what
\* is in memory names a policy this firmware knows and a holdover within its
\* limits; and a write is under way only where the phase allows one.
THEOREM SettingsUsable == Spec => []TypeOK
<1>1. StoreTypes => TypeOK
  BY StoreFacts DEF StoreTypes, TypeOK, Usable, Defaults, Fields, Holds
<1> QED BY <1>1, StoreInit, StoreNext, PTL DEF Spec

-----------------------------------------------------------------------------
(* What a restart would load.                                               *)

LEMMA SameFlash == ASSUME nvs' = nvs PROVE Loaded' = Loaded
BY DEF Loaded, Raw, Get, Repaired

\* What a save and a refresh write: by name, and to lead there.
LEMMA SaveTowards ==
    ASSUME NEW flash, NEW s, NEW K, K \subseteq Fields
    PROVE  Towards(flash, Save(s), s, K)
<1> DEFINE q == Save(s)
<1>1. q \in Seq({q[1], q[2], q[3], q[4], q[5], q[6], q[7], q[8]}) /\ Len(q) = 8
  BY DEF Save
<1>2. /\ q[1] = <<"ssid", s.ssid>> /\ q[2] = <<"pass", s.pass>> /\ q[3] = <<"tz", s.tz>>
      /\ q[4] = <<"apol", s.apol>> /\ q[5] = <<"ahold", s.ahold>> /\ q[6] = <<"ooff", s.ooff>>
      /\ q[7][1] = "ver" /\ q[8][1] = "crc"
  BY DEF Save
<1> HIDE DEF q
<1>3. IsSeq(q)
  BY <1>1 DEF IsSeq
<1>4. ASSUME NEW i \in 1..8, q[i][1] \in Fields PROVE q[i][2] = s[q[i][1]]
  <2>1. i \in {1, 2, 3, 4, 5, 6, 7, 8}
    BY <1>4
  <2> QED BY <1>2, <1>4, <2>1 DEF Fields
<1>5. ASSUME NEW key \in Fields PROVE \E i \in 1..8 : q[i][1] = key
  BY <1>2, <1>5 DEF Fields
<1> QED BY <1>1, <1>3, <1>4, <1>5 DEF Towards, q

\* A record that was written whole is the one that is loaded.
LEMMA WrittenIsLoaded ==
    ASSUME NEW s, Usable(s), s["ssid"] # "null",
           \A k \in Fields : k \in DOMAIN nvs' /\ nvs'[k] = s[k]
    PROVE  \A k \in Fields : Loaded'[k] = s[k]
<1>1. s["apol"] \in Policies /\ s["ahold"] \in Holds
  BY DEF Usable
<1>2. Get("ssid", "")' = s["ssid"] /\ Get("pass", "")' = s["pass"]
      /\ Get("tz", Defaults.tz)' = s["tz"] /\ Get("apol", "Refuse")' = s["apol"]
      /\ Get("ooff", Defaults.ooff)' = s["ooff"]
  BY DEF Get, Fields
<1>3. ~Repaired'
  BY <1>2 DEF Repaired
<1>4. /\ Raw'["ssid"] = s["ssid"] /\ Raw'["pass"] = s["pass"] /\ Raw'["tz"] = s["tz"]
      /\ Raw'["apol"] = s["apol"] /\ Raw'["ahold"] = s["ahold"] /\ Raw'["ooff"] = s["ooff"]
      /\ DOMAIN Raw' = Fields
  <2>1. \A d : Get("ahold", d)' = s["ahold"]
    BY DEF Get, Fields
  <2> QED BY <1>1, <1>2, <1>3, <2>1 DEF Raw, Fields
<1>5. Clamp(s["ahold"]) = s["ahold"]
  BY <1>1, StoreFacts DEF Clamp, Holds
<1>6. Loaded' = [Raw' EXCEPT !["ahold"] = Clamp(Raw'["ahold"])]
  BY DEF Loaded
<1> QED BY <1>4, <1>5, <1>6 DEF Fields

\* Writing one of these keys, the holdover as it is loaded, changes nothing of
\* what is loaded.
Refreshed == {"ahold", "ver", "crc"}

LEMMA RefreshKeeps ==
    ASSUME "ahold" \in DOMAIN nvs => nvs["ahold"] \in Nat,
           NEW key \in Refreshed, NEW value, WritesOne(key, value),
           key = "ahold" => value = Loaded["ahold"]
    PROVE  Loaded' = Loaded
<1>1. \A k : k # key => /\ k \in DOMAIN nvs' <=> k \in DOMAIN nvs
                        /\ k \in DOMAIN nvs => nvs'[k] = nvs[k]
  BY DEF WritesOne
<1>2. key \in DOMAIN nvs' /\ nvs'[key] = value
  BY DEF WritesOne
<1>3. ASSUME NEW k, k \notin Refreshed, NEW d PROVE Get(k, d)' = Get(k, d)
  BY <1>1, <1>3 DEF Get
<1> DEFINE policy == IF Get("apol", "Refuse") \in Policies THEN Get("apol", "Refuse")
                     ELSE "Refuse"
           preset == IF PresetHold[policy] > 0 THEN PresetHold[policy]
                     ELSE CLK_HOLDOVER_SHORT_SEC
           hold == Get("ahold", preset)
           ssid == IF Repaired THEN "" ELSE Get("ssid", "")
           pass == IF Repaired THEN "" ELSE Get("pass", "")
           tz == Get("tz", Defaults.tz)
           ooff == Get("ooff", Defaults.ooff)
<1>4. Get("ssid", "")' = Get("ssid", "") /\ Get("pass", "")' = Get("pass", "")
      /\ tz' = tz /\ ooff' = ooff /\ Get("apol", "Refuse")' = Get("apol", "Refuse")
  BY <1>3 DEF Refreshed, Defaults
<1>5. ssid' = ssid /\ pass' = pass /\ policy' = policy /\ preset' = preset
  BY <1>4 DEF Repaired
<1>6. Raw = [ ssid |-> ssid, pass |-> pass, tz |-> tz, apol |-> policy, ahold |-> hold,
              ooff |-> ooff ]
  BY DEF Raw
<1>7. Raw' = [ ssid |-> ssid', pass |-> pass', tz |-> tz', apol |-> policy', ahold |-> hold',
               ooff |-> ooff' ]
  BY DEF Raw
<1> HIDE DEF ssid, pass, tz, ooff, policy
<1>8. Clamp(hold') = Clamp(hold)
  <2>1. CASE key = "ahold"
    <3>1. hold' = value
      BY <1>2, <2>1 DEF Get
    <3>2. value = Clamp(hold) /\ hold = Raw["ahold"] /\ hold \in Nat
      BY <1>6, <2>1, LoadedFields, RawFields
    <3> QED BY <3>1, <3>2, StoreFacts, ClampHolds DEF Clamp, Holds
  <2>2. CASE key # "ahold"
    BY <1>1, <1>5, <2>2 DEF Get
  <2> QED BY <2>1, <2>2
<1> HIDE DEF hold, preset
<1>9. Loaded = [ ssid |-> ssid, pass |-> pass, tz |-> tz, apol |-> policy,
                 ahold |-> Clamp(hold), ooff |-> ooff ]
  BY <1>6 DEF Loaded
<1>10. Loaded' = [ ssid |-> ssid', pass |-> pass', tz |-> tz', apol |-> policy',
                   ahold |-> Clamp(hold'), ooff |-> ooff' ]
  BY <1>7 DEF Loaded
<1>11. tz' = tz /\ ooff' = ooff
  BY <1>4 DEF tz, ooff
<1> QED BY <1>5, <1>8, <1>9, <1>10, <1>11

LEMMA LoadedNamed == Loaded["ssid"] # "null"
<1>1. Raw["ssid"] # "null" /\ Raw["ssid"] = Loaded["ssid"]
  BY DEF Raw, Loaded, Repaired
<1> QED BY <1>1

-----------------------------------------------------------------------------
(* One task that changes settings.                                          *)

OneTask == \A t, u \in Task : t = u

\* No menu and no page stores the name that loading takes for a missing one.
NoNullNetwork ==
    \A t \in Task : \A change \in ChangesOf[t] :
      "ssid" \in DOMAIN change => change["ssid"] # "null"

\* The refresh of a load under way.
Refreshing(q, s) ==
    \A i \in 1..Len(q) :
      q[i][1] \in Refreshed /\ (q[i][1] = "ahold" => q[i][2] = s["ahold"])

LEMMA TailRefreshing ==
    ASSUME NEW q, NEW s, IsSeq(q), q # <<>>, Refreshing(q, s)
    PROVE  /\ Refreshing(Tail(q), s) /\ Head(q)[1] \in Refreshed
           /\ Head(q)[1] = "ahold" => Head(q)[2] = s["ahold"]
BY TailWrites DEF Refreshing

LEMMA RefreshIsOne == Refreshing(Refresh, Loaded) /\ Refreshing(<<>>, Loaded)
<1>1. Len(Refresh) = 3 /\ Refresh[1] = <<"ahold", Loaded["ahold"]>>
      /\ Refresh[2][1] = "ver" /\ Refresh[3][1] = "crc"
  BY DEF Refresh
<1>2. \A i \in 1..3 : i = 1 \/ i = 2 \/ i = 3
  OBVIOUS
<1> QED BY <1>1, <1>2 DEF Refreshing, Refreshed

Settled == phase = "on" /\ \A t \in Task : at[t] # "save"

\* What is loaded differs from what is in memory only while a task is saving,
\* and then every key is stored or about to be.
Stored ==
    /\ settings["ssid"] # "null" /\ \A t \in Task : copy[t]["ssid"] # "null"
    /\ phase = "load" => settings = Loaded /\ Refreshing(writes["boot"], settings)
    /\ Settled => \A k \in Fields \ {"tz"} : Loaded[k] = settings[k]
    /\ \A t \in Task : at[t] = "save" => Towards(nvs, writes[t], settings, Fields)

LEMMA PutStored ==
    ASSUME OneTask, StoreTypes, Stored, NEW w \in Writer, Put(w)
    PROVE  Stored'
<1> DEFINE q == writes[w]
           key == Head(q)[1]
           value == Head(q)[2]
<1>1. q # <<>> /\ Typed(q) /\ IsSeq(q)
  BY DEF Put, StoreTypes, Typed
<1>2. WritesOne(key, value)
  BY DEF Put, WritesOne
<1>3. /\ writes' = [writes EXCEPT ![w] = Tail(q)]
      /\ at' = IF w \in Task /\ Len(q) = 1 THEN [at EXCEPT ![w] = "idle"] ELSE at
      /\ settings' = settings /\ phase' = phase /\ copy' = copy
  BY DEF Put
<1>4. writes'[w] = Tail(q)
  BY <1>3 DEF StoreTypes
<1>5. settings'["ssid"] # "null" /\ \A t \in Task : copy'[t]["ssid"] # "null"
  BY <1>3 DEF Stored
<1>6. CASE w \in Task
  <2>1. phase = "on" /\ at[w] = "save" /\ Towards(nvs, q, settings, Fields)
    BY <1>1, <1>6 DEF StoreTypes, Stored
  <2>2. Towards(nvs', Tail(q), settings, Fields)
    BY <1>1, <1>2, <2>1, TowardsStep
  <2>3. \A t \in Task : t = w
    BY <1>6 DEF OneTask
  <2>4. \A t \in Task : at'[t] = "save" => Towards(nvs', writes'[t], settings', Fields)
    BY <1>3, <1>4, <2>2, <2>3
  <2>5. ASSUME Settled' PROVE \A k \in Fields \ {"tz"} : Loaded'[k] = settings'[k]
    <3>1. Len(q) = 1
      BY <1>3, <1>6, <2>1, <2>5, StoreFacts DEF Settled, StoreTypes
    <3>2. Tail(q) = <<>>
      BY <1>1, <3>1, TailWrites
    <3>3. \A k \in Fields : k \in DOMAIN nvs' /\ nvs'[k] = settings[k]
      <4>1. Towards(nvs', <<>>, settings, Fields) /\ Len(<<>>) = 0
        BY <2>2, <3>2
      <4> HIDE DEF q, key, value
      <4> QED BY <4>1 DEF Towards
    <3>4. Usable(settings) /\ settings["ssid"] # "null"
      BY DEF StoreTypes, Stored
    <3> HIDE DEF q, key, value
    <3> QED BY <1>3, <3>3, <3>4, WrittenIsLoaded
  <2>6. phase' = "on"
    BY <1>3, <2>1
  <2> QED BY <1>5, <2>4, <2>5, <2>6 DEF Stored
<1>7. CASE w = "boot"
  <2>1. phase \in {"load", "reset"} /\ \A t \in Task : at[t] = "idle"
    BY <1>1, <1>7, StoreFacts DEF StoreTypes
  <2>2. phase' # "on" /\ \A t \in Task : at'[t] = "idle"
    BY <1>3, <1>7, <2>1, StoreFacts
  <2>3. ASSUME phase = "load"
        PROVE  settings' = Loaded' /\ Refreshing(writes'["boot"], settings')
    <3>1. settings = Loaded /\ Refreshing(q, settings)
      BY <1>7, <2>3 DEF Stored
    <3>2. /\ Refreshing(Tail(q), settings) /\ key \in Refreshed
          /\ key = "ahold" => value = Loaded["ahold"]
      BY <1>1, <3>1, TailRefreshing
    <3>3. "ahold" \in DOMAIN nvs => nvs["ahold"] \in Nat
      BY DEF StoreTypes
    <3> HIDE DEF q, key, value
    <3>4. Loaded' = Loaded
      BY <1>2, <3>2, <3>3, RefreshKeeps
    <3> QED BY <1>3, <1>4, <1>7, <3>1, <3>2, <3>4
  <2> QED BY <1>3, <1>5, <2>2, <2>3 DEF Stored, Settled
<1> QED BY <1>6, <1>7 DEF Writer

LEMMA StoredInit == Init => Stored
<1> SUFFICES ASSUME Init PROVE Stored
  OBVIOUS
<1>1. settings["ssid"] # "null" /\ \A t \in Task : copy[t]["ssid"] # "null"
  BY DEF Init, Defaults
<1> QED BY <1>1 DEF Init, Stored, Settled

LEMMA StoredNext ==
    ASSUME OneTask, NoNullNetwork
    PROVE  StoreTypes /\ Stored /\ [Next]_vars => Stored'
<1> SUFFICES ASSUME StoreTypes, Stored, [Next]_vars PROVE Stored'
  OBVIOUS
<1>1. CASE Load
  <2> DEFINE q == IF NeedsRewrite THEN Refresh ELSE <<>>
  <2>1. Refreshing(q, Loaded)
    BY RefreshIsOne
  <2> HIDE DEF q
  <2>2. /\ phase = "boot" /\ phase' = "load" /\ settings' = Loaded
        /\ writes' = [writes EXCEPT !["boot"] = q]
        /\ nvs' = nvs /\ copy' = copy /\ at' = at
    BY <1>1 DEF Load, q
  <2>3. Loaded' = Loaded /\ writes'["boot"] = q
    BY <2>2, SameFlash, StoreFacts DEF StoreTypes
  <2>4. \A t \in Task : at'[t] = "idle"
    BY <2>2, StoreFacts DEF StoreTypes
  <2> QED BY <2>1, <2>2, <2>3, <2>4, LoadedNamed DEF Stored, Settled
<1>2. CASE StartTasks
  <2>1. phase = "load" /\ phase' = "on"
        /\ settings' = settings /\ nvs' = nvs /\ copy' = copy /\ at' = at
    BY <1>2 DEF StartTasks
  <2>2. Loaded' = Loaded /\ settings = Loaded
    BY <2>1, SameFlash DEF Stored
  <2>3. \A t \in Task : at'[t] = "idle"
    BY <2>1 DEF StoreTypes
  <2> QED BY <2>1, <2>2, <2>3 DEF Stored
<1>3. CASE FactoryReset
  <2>1. phase' = "reset" /\ settings' = settings /\ copy' = copy
        /\ \A t \in Task : at'[t] = "idle"
    BY <1>3 DEF FactoryReset, StoreTypes
  <2> QED BY <2>1 DEF Stored, Settled
<1>4. CASE Restart
  <2>1. phase' = "boot" /\ settings' = settings /\ copy' = copy
        /\ \A t \in Task : at'[t] = "idle"
    BY <1>4 DEF Restart, StoreTypes
  <2> QED BY <2>1 DEF Stored, Settled
<1>5. CASE PreviewTimezone
  <2>1. /\ phase = "on" /\ phase' = "on" /\ nvs' = nvs /\ copy' = copy /\ at' = at
        /\ \A t \in Task : at[t] = "idle"
        /\ \A k \in Fields \ {"tz"} : settings'[k] = settings[k]
    BY <1>5 DEF PreviewTimezone, OneTask, StoreTypes, Usable
  <2>2. Loaded' = Loaded /\ \A k \in Fields \ {"tz"} : Loaded[k] = settings[k]
    BY <2>1, SameFlash DEF Stored, Settled
  <2>3. settings'["ssid"] # "null"
    BY <2>1 DEF Stored, Fields
  <2> QED BY <2>1, <2>2, <2>3 DEF Stored
<1>6. CASE Crash
  <2>1. phase' = "boot" /\ settings' = Defaults
        /\ \A t \in Task : at'[t] = "idle" /\ copy'[t] = Defaults
    BY <1>6 DEF Crash
  <2>2. Defaults["ssid"] # "null"
    BY DEF Defaults
  <2> QED BY <2>1, <2>2 DEF Stored, Settled
<1>7. ASSUME NEW w \in Writer, Put(w) PROVE Stored'
  BY <1>7, PutStored
<1>8. ASSUME NEW t \in Task, Copy(t) PROVE Stored'
  <2>1. /\ phase = "on" /\ phase' = "on" /\ settings' = settings /\ nvs' = nvs
        /\ at[t] = "idle" /\ at'[t] = "edit" /\ \A u \in Task : u = t
        /\ copy'[t] = settings
    BY <1>8 DEF Copy, OneTask, StoreTypes
  <2>2. Loaded' = Loaded
    BY <2>1, SameFlash
  <2> QED BY <2>1, <2>2 DEF Stored, Settled
<1>9. ASSUME NEW t \in Task, GiveUp(t) PROVE Stored'
  <2>1. /\ phase' = phase /\ settings' = settings /\ nvs' = nvs /\ copy' = copy
        /\ at[t] = "edit" /\ at'[t] = "idle" /\ \A u \in Task : u = t
    BY <1>9 DEF GiveUp, OneTask, StoreTypes
  <2>2. Loaded' = Loaded /\ phase = "on"
    BY <2>1, SameFlash DEF StoreTypes
  <2> QED BY <2>1, <2>2 DEF Stored, Settled
<1>10. ASSUME NEW t \in Task, NEW change \in ChangesOf[t], Commit(t, change) PROVE Stored'
  <2>1. /\ phase' = phase /\ nvs' = nvs /\ copy' = copy
        /\ at[t] = "edit" /\ at'[t] = "save" /\ \A u \in Task : u = t
        /\ settings' = Changed(copy[t], change) /\ writes'[t] = Save(settings')
    BY <1>10, StoreFacts DEF Commit, OneTask, StoreTypes
  <2>2. settings'["ssid"] # "null"
    BY <2>1 DEF Changed, Stored, StoreTypes, Usable, Fields, NoNullNetwork
  <2>3. Towards(nvs', Save(settings'), settings', Fields)
    BY SaveTowards
  <2>4. phase = "on"
    BY <2>1 DEF StoreTypes
  <2> HIDE DEF Save
  <2> QED BY <2>1, <2>2, <2>3, <2>4 DEF Stored, Settled
<1>11. CASE UNCHANGED vars
  <2>1. Loaded' = Loaded
    BY <1>11, SameFlash DEF vars
  <2> QED BY <1>11, <2>1 DEF vars, Stored, Settled
<1> QED BY <1>1, <1>2, <1>3, <1>4, <1>5, <1>6, <1>7, <1>8, <1>9, <1>10, <1>11 DEF Next

\* When no task is committing, a restart would load what is in memory, but for
\* a previewed time zone: what was stored is stored, after every save, after
\* every load and whatever power failures came between.  For one task that
\* changes settings: two of them may save over one another.
THEOREM RestartKeepsSettingsAlways ==
    ASSUME OneTask, NoNullNetwork
    PROVE  Spec => []RestartKeepsSettings
<1>1. StoreTypes /\ Stored => RestartKeepsSettings
  BY DEF StoreTypes, Stored, Settled, Quiet, Usable, RestartKeepsSettings
<1>2. Init => StoreTypes /\ Stored
  BY StoreInit, StoredInit
<1>3. StoreTypes /\ Stored /\ [Next]_vars => StoreTypes' /\ Stored'
  BY StoreNext, StoredNext
<1> QED BY <1>1, <1>2, <1>3, PTL DEF Spec

-----------------------------------------------------------------------------
(* Loading again.                                                           *)

\* What a complete load leaves under these keys, for the record it loaded.
Refresh3(s) == [ ahold |-> s["ahold"], ver |-> Version, crc |-> Crc(s) ]

LEMMA RefreshTowards == ASSUME NEW flash PROVE Towards(flash, Refresh, Refresh3(Loaded), Refreshed)
<1> DEFINE q == Refresh
<1>1. q \in Seq({q[1], q[2], q[3]}) /\ Len(q) = 3
  BY DEF Refresh
<1>2. /\ q[1] = <<"ahold", Loaded.ahold>> /\ q[2] = <<"ver", Version>>
      /\ q[3] = <<"crc", Crc(Loaded)>>
  BY DEF Refresh
<1> HIDE DEF q
<1>3. IsSeq(q)
  BY <1>1 DEF IsSeq
<1>4. \A i \in 1..3 : i = 1 \/ i = 2 \/ i = 3
  OBVIOUS
<1> QED BY <1>1, <1>2, <1>3, <1>4 DEF Towards, Refresh3, Refreshed, q

LEMMA CrcIsThere == ASSUME NEW s PROVE Crc(s) # NoCrc
<1>1. Len(Crc(s)) = 5 /\ Len(NoCrc) = 0
  BY DEF Crc, NoCrc
<1> QED BY <1>1

\* Once the three keys are written, the next load has nothing to write.
LEMMA RefreshedIsClean ==
    ASSUME "ahold" \in DOMAIN nvs => nvs["ahold"] \in Nat,
           \A k \in Refreshed : k \in DOMAIN nvs /\ nvs[k] = Refresh3(Loaded)[k]
    PROVE  ~NeedsRewrite
<1>1. /\ \A d : Get("ahold", d) = Loaded["ahold"]
      /\ Get("ver", 0) = Version /\ Get("crc", NoCrc) = Crc(Loaded)
  BY DEF Get, Refresh3, Refreshed
<1>2. Raw["ahold"] = Loaded["ahold"]
  BY <1>1 DEF Raw
<1>3. Crc(Raw) = Crc(Loaded)
  BY <1>2, LoadedFields DEF Crc, Fields
<1>4. ~Mismatch
  BY <1>1, <1>3 DEF Mismatch
<1> QED BY <1>1, <1>4, CrcIsThere DEF NeedsRewrite

LEMMA SameNeed == ASSUME nvs' = nvs PROVE NeedsRewrite' = NeedsRewrite
BY DEF NeedsRewrite, Mismatch, Loaded, Raw, Get, Repaired

IsBooted(b) ==
    b = [ loaded |-> b.loaded, clean |-> b.clean, record |-> b.record ]

\* From a load to the next commit or reset, the flash holds what was loaded,
\* and the keys a load under way has yet to write are the ones it lacks.
Settling ==
    /\ IsBooted(booted)
    /\ phase = "load" => booted.loaded
    /\ booted.loaded => /\ phase # "reset"
                        /\ \A t \in Task : writes[t] = <<>>
                        /\ Loaded = booted.record
    /\ booted.clean => booted.loaded /\ ~NeedsRewrite
    /\ phase = "load" => /\ Refreshing(writes["boot"], Loaded)
                         /\ \/ ~NeedsRewrite /\ writes["boot"] = <<>>
                            \/ Towards(nvs, writes["boot"], Refresh3(Loaded), Refreshed)
    /\ phase = "load" => booted.clean = FALSE

LEMMA PutSettling ==
    ASSUME StoreTypes, Settling, NEW w \in Writer, Put(w), booted' = booted
    PROVE  Settling'
<1> DEFINE q == writes[w]
           key == Head(q)[1]
           value == Head(q)[2]
<1>1. q # <<>> /\ Typed(q) /\ IsSeq(q)
  BY DEF Put, StoreTypes, Typed
<1>2. WritesOne(key, value)
  BY DEF Put, WritesOne
<1>3. writes' = [writes EXCEPT ![w] = Tail(q)] /\ phase' = phase
  BY DEF Put
<1>4. CASE w \in Task \/ phase # "load"
  <2>1. phase # "load" /\ (phase = "on" \/ phase = "reset")
    BY <1>1, <1>4, StoreFacts DEF StoreTypes
  <2>2. ~booted.loaded
    BY <1>1, <1>4, <2>1, StoreFacts DEF Settling, StoreTypes
  <2> QED BY <1>3, <2>1, <2>2 DEF Settling
<1>5. CASE w = "boot" /\ phase = "load"
  <2>1. /\ Refreshing(q, Loaded) /\ Towards(nvs, q, Refresh3(Loaded), Refreshed)
        /\ booted.loaded /\ Loaded = booted.record /\ booted.clean = FALSE
        /\ \A t \in Task : writes[t] = <<>>
    BY <1>1, <1>5 DEF Settling
  <2>2. "ahold" \in DOMAIN nvs => nvs["ahold"] \in Nat
    BY DEF StoreTypes
  <2>3. /\ Refreshing(Tail(q), Loaded) /\ key \in Refreshed
        /\ key = "ahold" => value = Loaded["ahold"]
    BY <1>1, <2>1, TailRefreshing
  <2>4. Towards(nvs', Tail(q), Refresh3(Loaded), Refreshed)
    BY <1>1, <1>2, <2>1, TowardsStep
  <2>5. writes'["boot"] = Tail(q) /\ \A t \in Task : writes'[t] = <<>>
    BY <1>3, <1>5, <2>1, StoreFacts DEF StoreTypes
  <2> HIDE DEF q, key, value
  <2>6. Loaded' = Loaded
    BY <1>2, <2>2, <2>3, RefreshKeeps
  <2> HIDE DEF Refreshing, Towards
  <2>8. Refreshing(writes'["boot"], Loaded')
        /\ Towards(nvs', writes'["boot"], Refresh3(Loaded'), Refreshed)
    BY <2>3, <2>4, <2>5, <2>6
  <2>9. IsBooted(booted)
    BY DEF Settling
  <2> QED BY <1>3, <1>5, <2>1, <2>5, <2>6, <2>8, <2>9 DEF Settling
<1> QED BY <1>4, <1>5 DEF Writer

LEMMA SettlingInit == MCInit => Settling
<1> SUFFICES ASSUME MCInit PROVE Settling
  OBVIOUS
<1>1. phase = "boot" /\ booted = NotBooted
  BY DEF MCInit, Init
<1>2. IsBooted(booted) /\ booted.loaded = FALSE /\ booted.clean = FALSE
  BY <1>1 DEF NotBooted, IsBooted
<1> QED BY <1>1, <1>2 DEF Settling

\* What MCNext notes of a step, by what the step does to the phase and the tasks.
LEMMA BootedNext ==
    ASSUME MCNext
    PROVE  /\ phase = "boot" /\ phase' = "load" =>
                booted' = [ loaded |-> TRUE, clean |-> FALSE, record |-> settings' ]
           /\ phase = "load" /\ phase' = "on" => booted' = [booted EXCEPT !.clean = TRUE]
           /\ ~(phase = "boot" /\ phase' = "load") /\ ~(phase = "load" /\ phase' = "on") =>
                booted' = booted \/ booted' = NotBooted
           /\ phase = "boot" /\ phase' = "reset" => booted' = NotBooted
           /\ \A t \in Task : at[t] = "edit" /\ at'[t] = "save" /\ phase = phase' =>
                booted' = NotBooted
<1>1. booted' = IF Loads THEN [ loaded |-> TRUE, clean |-> FALSE, record |-> settings' ]
                ELSE IF Starts THEN [booted EXCEPT !.clean = TRUE]
                ELSE IF Resets \/ \E t \in Task : Commits(t) THEN NotBooted
                ELSE booted
  BY DEF MCNext
<1>2. /\ Loads <=> phase = "boot" /\ phase' = "load"
      /\ Starts <=> phase = "load" /\ phase' = "on"
      /\ Resets <=> phase = "boot" /\ phase' = "reset"
      /\ \A t \in Task : Commits(t) <=> at[t] = "edit" /\ at'[t] = "save"
  BY DEF Loads, Starts, Resets, Commits
<1> HIDE DEF Loads, Starts, Resets, Commits
<1>3. CASE Loads
  BY <1>1, <1>2, <1>3
<1>4. CASE Starts
  BY <1>1, <1>2, <1>4
<1>5. CASE ~Loads /\ ~Starts
  BY <1>1, <1>2, <1>5
<1> QED BY <1>3, <1>4, <1>5

LEMMA NothingNoted == ~NotBooted.loaded /\ ~NotBooted.clean /\ IsBooted(NotBooted)
BY DEF NotBooted, IsBooted

LEMMA SettlingNext == StoreTypes /\ Settling /\ [MCNext]_mcvars => Settling'
<1> SUFFICES ASSUME StoreTypes, Settling, [MCNext]_mcvars PROVE Settling'
  OBVIOUS
<1>1. ASSUME nvs' = nvs, phase' = phase, phase # "load",
             \A t \in Task : writes[t] = <<>> => writes'[t] = <<>>,
             booted' = booted \/ booted' = NotBooted
      PROVE  Settling'
  <2>1. Loaded' = Loaded /\ NeedsRewrite' = NeedsRewrite
    BY <1>1, SameFlash, SameNeed
  <2>2. IsBooted(booted')
    BY <1>1, NothingNoted DEF Settling
  <2>3. booted'.loaded => booted.loaded /\ booted' = booted
    BY <1>1, NothingNoted
  <2>4. booted'.clean => booted.clean /\ booted' = booted
    BY <1>1, NothingNoted
  <2> QED BY <1>1, <2>1, <2>2, <2>3, <2>4 DEF Settling
<1>2. CASE UNCHANGED mcvars
  <2>1. Loaded' = Loaded /\ NeedsRewrite' = NeedsRewrite
    BY <1>2, SameFlash, SameNeed DEF mcvars
  <2> HIDE DEF Refreshing, Towards
  <2> QED BY <1>2, <2>1 DEF mcvars, Settling
<1>3. ASSUME MCNext, Load PROVE Settling'
  <2> DEFINE q == IF NeedsRewrite THEN Refresh ELSE <<>>
  <2>1. Refreshing(q, Loaded) /\ Towards(nvs, Refresh, Refresh3(Loaded), Refreshed)
    BY RefreshIsOne, RefreshTowards
  <2>2. /\ ~NeedsRewrite /\ q = <<>>
        \/ Towards(nvs, q, Refresh3(Loaded), Refreshed)
    BY <2>1
  <2> HIDE DEF q
  <2>3. /\ phase = "boot" /\ phase' = "load" /\ settings' = Loaded /\ nvs' = nvs
        /\ writes' = [writes EXCEPT !["boot"] = q]
    BY <1>3 DEF Load, q
  <2>4. booted' = [ loaded |-> TRUE, clean |-> FALSE, record |-> Loaded ]
    BY <1>3, <2>3, BootedNext
  <2>5. IsBooted(booted') /\ booted'.loaded = TRUE /\ booted'.clean = FALSE
        /\ booted'.record = Loaded
    BY <2>4 DEF IsBooted
  <2>6. Loaded' = Loaded /\ NeedsRewrite' = NeedsRewrite
    BY <2>3, SameFlash, SameNeed
  <2>7. writes'["boot"] = q /\ \A t \in Task : writes'[t] = <<>>
    BY <2>3, StoreFacts DEF StoreTypes
  <2> HIDE DEF Refreshing, Towards
  <2>8. Refreshing(writes'["boot"], Loaded')
        /\ (\/ ~NeedsRewrite' /\ writes'["boot"] = <<>>
            \/ Towards(nvs', writes'["boot"], Refresh3(Loaded'), Refreshed))
    BY <2>1, <2>2, <2>3, <2>6, <2>7
  <2> QED BY <2>3, <2>5, <2>6, <2>7, <2>8 DEF Settling
<1>4. ASSUME MCNext, StartTasks PROVE Settling'
  <2>1. /\ phase = "load" /\ phase' = "on" /\ nvs' = nvs /\ writes' = writes
        /\ writes["boot"] = <<>>
    BY <1>4 DEF StartTasks
  <2>2. booted' = [booted EXCEPT !.clean = TRUE]
    BY <1>4, <2>1, BootedNext
  <2>3. booted.loaded /\ Loaded = booted.record /\ \A t \in Task : writes[t] = <<>>
    BY <2>1 DEF Settling
  <2>4. IsBooted(booted') /\ booted'.loaded /\ booted'.record = booted.record
    BY <2>2, <2>3 DEF Settling, IsBooted
  <2>5. ~NeedsRewrite
    <3>1. CASE Towards(nvs, writes["boot"], Refresh3(Loaded), Refreshed)
      <4>1. Towards(nvs, <<>>, Refresh3(Loaded), Refreshed) /\ Len(<<>>) = 0
        BY <2>1, <3>1
      <4>2. \A k \in Refreshed : k \in DOMAIN nvs /\ nvs[k] = Refresh3(Loaded)[k]
        BY <4>1 DEF Towards
      <4> QED BY <4>2, RefreshedIsClean DEF StoreTypes
    <3> QED BY <2>1, <3>1 DEF Settling
  <2>6. Loaded' = Loaded /\ NeedsRewrite' = NeedsRewrite
    BY <2>1, SameFlash, SameNeed
  <2> QED BY <2>1, <2>3, <2>4, <2>5, <2>6 DEF Settling
<1>5. ASSUME MCNext, FactoryReset PROVE Settling'
  <2>1. phase = "boot" /\ phase' = "reset"
    BY <1>5 DEF FactoryReset
  <2>2. booted' = NotBooted
    BY <1>5, <2>1, BootedNext
  <2> QED BY <2>1, <2>2, NothingNoted DEF Settling
<1>6. ASSUME MCNext, Restart PROVE Settling'
  <2>1. phase = "reset" /\ phase' = "boot"
    BY <1>6 DEF Restart
  <2>2. ~booted.loaded /\ ~booted.clean /\ IsBooted(booted)
    BY <2>1 DEF Settling
  <2>3. booted' = booted \/ booted' = NotBooted
    BY <1>6, <2>1, BootedNext
  <2>4. ~booted'.loaded /\ ~booted'.clean /\ IsBooted(booted')
    BY <2>2, <2>3, NothingNoted
  <2> QED BY <2>1, <2>4 DEF Settling
<1>7. ASSUME MCNext, Crash PROVE Settling'
  <2>1. phase' = "boot" /\ nvs' = nvs /\ \A t \in Task : writes'[t] = <<>>
    BY <1>7 DEF Crash, Nobody, Writer
  <2>2. booted' = booted \/ booted' = NotBooted
    BY <1>7, <2>1, BootedNext
  <2>3. Loaded' = Loaded /\ NeedsRewrite' = NeedsRewrite
    BY <2>1, SameFlash, SameNeed
  <2>4. IsBooted(booted')
    BY <2>2, NothingNoted DEF Settling
  <2>5. (booted'.loaded => booted.loaded /\ booted' = booted)
        /\ (booted'.clean => booted.clean /\ booted' = booted)
    BY <2>2, NothingNoted
  <2> QED BY <2>1, <2>3, <2>4, <2>5 DEF Settling
<1>8. ASSUME MCNext, NEW w \in Writer, Put(w) PROVE Settling'
  <2>1. phase' = phase /\ phase # "boot"
    BY <1>8, StoreFacts DEF Put, StoreTypes
  <2>2. \A t \in Task : ~(at[t] = "edit" /\ at'[t] = "save")
    BY <1>8 DEF Put, StoreTypes
  <2>3. booted' = booted
    BY <1>8, <2>1, <2>2 DEF MCNext, Loads, Starts, Resets, Commits
  <2> QED BY <1>8, <2>3, PutSettling
<1>9. ASSUME MCNext, PreviewTimezone PROVE Settling'
  <2>1. /\ nvs' = nvs /\ phase' = phase /\ phase = "on" /\ writes' = writes
    BY <1>9 DEF PreviewTimezone
  <2> QED BY <1>1, <1>9, <2>1, BootedNext
<1>10. ASSUME MCNext, NEW t \in Task, Copy(t) \/ GiveUp(t) PROVE Settling'
  <2>1. nvs' = nvs /\ phase' = phase /\ phase = "on" /\ writes' = writes
    BY <1>10 DEF Copy, GiveUp, StoreTypes
  <2> QED BY <1>1, <1>10, <2>1, BootedNext
<1>11. ASSUME MCNext, NEW t \in Task, NEW change \in ChangesOf[t], Commit(t, change)
       PROVE  Settling'
  <2>1. /\ phase' = phase /\ phase = "on" /\ at[t] = "edit" /\ at'[t] = "save"
    BY <1>11 DEF Commit, StoreTypes
  <2>2. booted' = NotBooted
    BY <1>11, <2>1, BootedNext
  <2> QED BY <2>1, <2>2, NothingNoted DEF Settling
<1>12. ASSUME MCNext PROVE Settling'
  <2>1. Next
    BY <1>12 DEF MCNext
  <2> QED BY <1>3, <1>4, <1>5, <1>6, <1>7, <1>8, <1>9, <1>10, <1>11, <1>12, <2>1 DEF Next
<1> QED BY <1>2, <1>12

LEMMA OnlyLoadLoads == ASSUME StoreTypes, MCNext, Loads PROVE Load
<1>1. phase = "boot" /\ phase' = "load"
  BY DEF Loads
<1>2. \A w \in Writer : ~Put(w)
  BY <1>1, StoreFacts DEF Put, StoreTypes
<1>3. \A t \in Task : ~(Copy(t) \/ GiveUp(t) \/ \E change \in ChangesOf[t] : Commit(t, change))
  BY <1>1 DEF Copy, GiveUp, Commit
<1>4. ~(StartTasks \/ FactoryReset \/ Restart \/ PreviewTimezone \/ Crash)
  BY <1>1 DEF StartTasks, FactoryReset, Restart, PreviewTimezone, Crash
<1> QED BY <1>2, <1>3, <1>4 DEF MCNext, Next

\* Loading repairs what it finds, but to the same record each time, wherever
\* the power fails in between; and one complete load is enough: the next one
\* finds nothing to write: also when both tasks have saved over one another.
THEOREM LoadSettlesAlways == MCSpec => LoadSettles
<1>1. MCInit => StoreTypes /\ Settling
  BY StoreInit, SettlingInit DEF MCInit
<1>2. StoreTypes /\ Settling /\ [MCNext]_mcvars => StoreTypes' /\ Settling'
  BY StoreNext, SettlingNext DEF MCNext, mcvars, vars
<1>3. StoreTypes /\ Settling /\ [MCNext]_mcvars =>
        [Loads => /\ booted.loaded => settings' = booted.record
                  /\ booted.clean => ~NeedsRewrite]_mcvars
  <2> SUFFICES ASSUME StoreTypes, Settling, MCNext, Loads
               PROVE  /\ booted.loaded => settings' = booted.record
                      /\ booted.clean => ~NeedsRewrite
    OBVIOUS
  <2>1. Load
    BY OnlyLoadLoads
  <2> QED BY <2>1 DEF Load, Settling
<1> QED BY <1>1, <1>2, <1>3, PTL DEF MCSpec, LoadSettles

-----------------------------------------------------------------------------
(* What a power failure leaves.                                             *)

Clamped(r) == [r EXCEPT !["ahold"] = Clamp(r["ahold"])]

\* A CRC that is that of a record in use, before or after it was clamped.
KnownCrc(c, records) ==
    \E r : /\ DOMAIN r = Fields /\ r["ahold"] \in Nat
           /\ c = Crc(r) /\ Essential(Clamped(r)) \in records

LEMMA UsableCrc ==
    ASSUME NEW s, Usable(s), NEW records, Essential(s) \in records
    PROVE  KnownCrc(Crc(s), records)
<1>1. s["ahold"] \in Nat /\ Clamp(s["ahold"]) = s["ahold"] /\ DOMAIN s = Fields
  BY StoreFacts DEF Usable, Clamp, Holds
<1>2. DOMAIN Clamped(s) = Fields /\ \A k \in Fields : Clamped(s)[k] = s[k]
  BY <1>1 DEF Clamped
<1> HIDE DEF Crc, Clamped
<1>3. Essential(Clamped(s)) = Essential(s)
  BY <1>1, <1>2 DEF Essential
<1> QED BY <1>1, <1>3, Zenon DEF KnownCrc

LEMMA MoreRecords ==
    ASSUME NEW c, NEW records, NEW more, KnownCrc(c, records), records \subseteq more
    PROVE  KnownCrc(c, more)
BY DEF KnownCrc

LEMMA LoadedClamped ==
    ASSUME "ahold" \in DOMAIN nvs => nvs["ahold"] \in Nat
    PROVE  Loaded = Clamped(Raw)
BY RawFields DEF Loaded, Clamped, Fields

\* The same CRC, the same record, clamped.
LEMMA CrcTells ==
    ASSUME NEW r, NEW s, DOMAIN r = Fields, DOMAIN s = Fields, Crc(r) = Crc(s)
    PROVE  Essential(Clamped(r)) = Essential(Clamped(s))
<1>1. \A k \in Fields \ {"ooff"} : r[k] = s[k]
  BY DEF Crc, Fields
<1>2. \A k \in Fields \ {"ooff"} : Clamped(r)[k] = Clamped(s)[k]
  BY <1>1 DEF Clamped, Fields
<1>3. DOMAIN Clamped(r) = Fields /\ DOMAIN Clamped(s) = Fields
  BY DEF Clamped
<1> HIDE DEF Clamped
<1> QED BY <1>2, <1>3 DEF Essential

\* A load that finds nothing to write leaves a CRC that is none, or its own.
LEMMA CleanCrc ==
    ASSUME "ahold" \in DOMAIN nvs => nvs["ahold"] \in Nat, ~NeedsRewrite
    PROVE  Get("crc", NoCrc) = NoCrc \/ Get("crc", NoCrc) = Crc(Raw)
BY DEF NeedsRewrite, Mismatch

CrcKept == Get("crc", NoCrc) = NoCrc \/ KnownCrc(Get("crc", NoCrc), known)

\* The CRC in flash, and each that is about to be written, is that of a record
\* in use; but for one a load is about to repair, whose record is in use.
Accepted ==
    /\ Essential(Defaults) \in known
    /\ phase = "load" => Essential(Loaded) \in known
    /\ phase \in {"on", "reset"} => CrcKept
    /\ phase = "boot" => CrcKept \/ Essential(Loaded) \in known
    /\ \A w \in Writer : \A i \in 1..Len(writes[w]) :
         writes[w][i][1] = "crc" => KnownCrc(writes[w][i][2], known)

LEMMA SaveCrc ==
    ASSUME NEW s, NEW records, KnownCrc(Crc(s), records)
    PROVE  \A i \in 1..Len(Save(s)) : Save(s)[i][1] = "crc" => KnownCrc(Save(s)[i][2], records)
<1> DEFINE q == Save(s)
<1>1. Len(q) = 8 /\ q[8] = <<"crc", Crc(s)>>
      /\ q[1][1] # "crc" /\ q[2][1] # "crc" /\ q[3][1] # "crc" /\ q[4][1] # "crc"
      /\ q[5][1] # "crc" /\ q[6][1] # "crc" /\ q[7][1] # "crc"
  BY DEF Save
<1> HIDE DEF q, Crc
<1>2. ASSUME NEW i \in 1..8, q[i][1] = "crc" PROVE q[i][2] = Crc(s)
  <2>1. i \in {1, 2, 3, 4, 5, 6, 7, 8}
    OBVIOUS
  <2> QED BY <1>1, <1>2, <2>1
<1>3. ASSUME NEW i \in 1..Len(q), q[i][1] = "crc" PROVE KnownCrc(q[i][2], records)
  <2>1. q[i][2] = Crc(s)
    BY <1>1, <1>2, <1>3
  <2> QED BY <2>1
<1> QED BY <1>3 DEF q

LEMMA RefreshCrc ==
    ASSUME NEW records, KnownCrc(Crc(Loaded), records)
    PROVE  \A i \in 1..Len(Refresh) :
             Refresh[i][1] = "crc" => KnownCrc(Refresh[i][2], records)
<1> DEFINE q == Refresh
<1>1. Len(q) = 3 /\ q[3] = <<"crc", Crc(Loaded)>> /\ q[1][1] # "crc" /\ q[2][1] # "crc"
  BY DEF Refresh
<1> HIDE DEF q, Crc
<1>2. ASSUME NEW i \in 1..3, q[i][1] = "crc" PROVE q[i][2] = Crc(Loaded)
  <2>1. i \in {1, 2, 3}
    OBVIOUS
  <2> QED BY <1>1, <1>2, <2>1
<1>3. ASSUME NEW i \in 1..Len(q), q[i][1] = "crc" PROVE KnownCrc(q[i][2], records)
  <2>1. q[i][2] = Crc(Loaded)
    BY <1>1, <1>2, <1>3
  <2> QED BY <2>1
<1> QED BY <1>3 DEF q

LEMMA SameCrc == ASSUME nvs' = nvs PROVE Get("crc", NoCrc)' = Get("crc", NoCrc)
BY DEF Get

LEMMA AcceptedInit == MCInit => Accepted
<1> SUFFICES ASSUME MCInit PROVE Accepted
  OBVIOUS
<1>1. phase = "boot" /\ Essential(Defaults) \in known /\ Essential(Loaded) \in known
  BY DEF MCInit, Init
<1>2. \A w \in Writer : Len(writes[w]) = 0
  BY DEF MCInit, Init, Nobody
<1> QED BY <1>1, <1>2 DEF Accepted

\* What is in use is never forgotten; a load and a commit add to it.
LEMMA KnownNext ==
    ASSUME MCNext
    PROVE  /\ known \subseteq known'
           /\ phase = "boot" /\ phase' = "load" => Essential(settings') \in known'
           /\ \A t \in Task : at[t] = "edit" /\ at'[t] = "save" => Essential(settings') \in known'
BY DEF MCNext, Loads, Commits

LEMMA PutAccepted ==
    ASSUME StoreTypes, Settling, Accepted, NEW w \in Writer, Put(w), known \subseteq known'
    PROVE  Accepted'
<1> DEFINE q == writes[w]
           key == Head(q)[1]
           value == Head(q)[2]
<1>1. q # <<>> /\ Typed(q) /\ IsSeq(q)
  BY DEF Put, StoreTypes, Typed
<1>2. WritesOne(key, value)
  BY DEF Put, WritesOne
<1>3. writes' = [writes EXCEPT ![w] = Tail(q)] /\ phase' = phase
  BY DEF Put
<1>4. phase \in {"load", "on", "reset"}
  BY <1>1 DEF StoreTypes
<1>5. \A i \in 1..Len(q) : q[i][1] = "crc" => KnownCrc(q[i][2], known')
  BY MoreRecords DEF Accepted
<1>6. /\ key = "crc" => KnownCrc(value, known')
      /\ \A i \in 1..Len(Tail(q)) : Tail(q)[i][1] = "crc" => KnownCrc(Tail(q)[i][2], known')
  BY <1>1, <1>5, TailWrites
<1>7. ASSUME NEW x \in Writer, NEW i \in 1..Len(writes'[x]), writes'[x][i][1] = "crc"
      PROVE  KnownCrc(writes'[x][i][2], known')
  <2>1. CASE x = w
    BY <1>3, <1>6, <1>7, <2>1 DEF StoreTypes
  <2>2. CASE x # w
    <3>1. writes'[x] = writes[x]
      BY <1>3, <2>2 DEF StoreTypes
    <3> QED BY <1>7, <3>1, MoreRecords DEF Accepted
  <2> QED BY <2>1, <2>2
<1>8. Essential(Defaults) \in known'
  BY DEF Accepted
<1>9. CASE phase \in {"on", "reset"}
  <2>1. CASE key = "crc"
    <3>1. Get("crc", NoCrc)' = value
      BY <1>2, <2>1 DEF WritesOne, Get
    <3> QED BY <1>3, <1>6, <1>7, <1>8, <1>9, <2>1, <3>1 DEF Accepted, CrcKept
  <2>2. CASE key # "crc"
    <3>1. Get("crc", NoCrc)' = Get("crc", NoCrc)
      BY <1>2, <2>2 DEF WritesOne, Get
    <3>2. CrcKept'
      BY <1>9, <3>1, MoreRecords DEF Accepted, CrcKept
    <3> QED BY <1>3, <1>7, <1>8, <1>9, <3>2 DEF Accepted
  <2> QED BY <2>1, <2>2
<1>10. CASE phase = "load"
  <2>1. w = "boot" /\ Refreshing(q, Loaded) /\ Essential(Loaded) \in known'
    BY <1>1, <1>10 DEF StoreTypes, Settling, Accepted, Writer
  <2>2. key \in Refreshed /\ (key = "ahold" => value = Loaded["ahold"])
    BY <1>1, <2>1, TailRefreshing
  <2>3. "ahold" \in DOMAIN nvs => nvs["ahold"] \in Nat
    BY DEF StoreTypes
  <2> HIDE DEF q, key, value
  <2>4. Loaded' = Loaded
    BY <1>2, <2>2, <2>3, RefreshKeeps
  <2> QED BY <1>3, <1>7, <1>8, <1>10, <2>1, <2>4 DEF Accepted
<1> QED BY <1>4, <1>9, <1>10

LEMMA AcceptedNext == StoreTypes /\ Settling /\ Accepted /\ [MCNext]_mcvars => Accepted'
<1> SUFFICES ASSUME StoreTypes, Settling, Accepted, [MCNext]_mcvars PROVE Accepted'
  OBVIOUS
<1>1. ASSUME MCNext, nvs' = nvs, phase' = phase, phase = "on",
             \A w \in Writer : writes'[w] = writes[w] \/
               \A i \in 1..Len(writes'[w]) :
                 writes'[w][i][1] = "crc" => KnownCrc(writes'[w][i][2], known')
      PROVE  Accepted'
  <2>1. known \subseteq known' /\ Get("crc", NoCrc)' = Get("crc", NoCrc)
    BY <1>1, KnownNext, SameCrc
  <2>2. CrcKept'
    BY <1>1, <2>1, MoreRecords DEF Accepted, CrcKept
  <2>3. ASSUME NEW w \in Writer, NEW i \in 1..Len(writes'[w]), writes'[w][i][1] = "crc"
        PROVE  KnownCrc(writes'[w][i][2], known')
    BY <1>1, <2>1, <2>3, MoreRecords DEF Accepted
  <2>4. Essential(Defaults) \in known'
    BY <2>1 DEF Accepted
  <2> QED BY <1>1, <2>2, <2>3, <2>4 DEF Accepted
<1>2. CASE UNCHANGED mcvars
  <2>1. /\ Loaded' = Loaded /\ Get("crc", NoCrc)' = Get("crc", NoCrc)
        /\ known' = known /\ phase' = phase /\ writes' = writes
    BY <1>2, SameFlash, SameCrc DEF mcvars
  <2> QED BY <2>1 DEF Accepted, CrcKept
<1>3. ASSUME MCNext, Load PROVE Accepted'
  <2> DEFINE q == IF NeedsRewrite THEN Refresh ELSE <<>>
  <2>1. /\ phase = "boot" /\ phase' = "load" /\ settings' = Loaded /\ nvs' = nvs
        /\ writes' = [writes EXCEPT !["boot"] = q]
    BY <1>3 DEF Load
  <2>2. known \subseteq known' /\ Essential(Loaded) \in known'
    BY <1>3, <2>1, KnownNext
  <2>3. Usable(Loaded)
    BY LoadedFields DEF StoreTypes
  <2>4. \A i \in 1..Len(q) : q[i][1] = "crc" => KnownCrc(q[i][2], known')
    <3>1. \A i \in 1..Len(Refresh) : Refresh[i][1] = "crc" => KnownCrc(Refresh[i][2], known')
      BY <2>2, <2>3, UsableCrc, RefreshCrc
    <3>2. Len(<<>>) = 0
      OBVIOUS
    <3> HIDE DEF Refresh
    <3> QED BY <3>1, <3>2
  <2> HIDE DEF q
  <2>5. ASSUME NEW w \in Writer, NEW i \in 1..Len(writes'[w]), writes'[w][i][1] = "crc"
        PROVE  KnownCrc(writes'[w][i][2], known')
    <3>1. CASE w = "boot"
      BY <2>1, <2>4, <2>5, <3>1 DEF StoreTypes
    <3>2. CASE w # "boot"
      <4>1. writes'[w] = writes[w]
        BY <2>1, <3>2 DEF StoreTypes
      <4> QED BY <2>2, <2>5, <4>1, MoreRecords DEF Accepted
    <3> QED BY <3>1, <3>2
  <2>6. Loaded' = Loaded
    BY <2>1, SameFlash
  <2> QED BY <2>1, <2>2, <2>5, <2>6 DEF Accepted
<1>4. ASSUME MCNext, StartTasks PROVE Accepted'
  <2>1. phase = "load" /\ phase' = "on" /\ nvs' = nvs /\ writes' = writes
    BY <1>4 DEF StartTasks
  <2>2. booted' = [booted EXCEPT !.clean = TRUE] /\ IsBooted(booted)
    BY <1>4, <2>1, BootedNext DEF Settling
  <2>3. booted'.clean
    BY <2>2 DEF IsBooted
  <2>4. ~NeedsRewrite
    <3>1. ~NeedsRewrite'
      BY <2>3, SettlingNext, <1>4 DEF Settling
    <3> QED BY <2>1, <3>1, SameNeed
  <2>5. known \subseteq known' /\ Essential(Loaded) \in known'
    BY <1>4, <2>1, KnownNext DEF Accepted
  <2>6. KnownCrc(Crc(Raw), known')
    <3>1. DOMAIN Raw = Fields /\ Raw["ahold"] \in Nat /\ Loaded = Clamped(Raw)
      BY RawFields, LoadedClamped DEF StoreTypes
    <3> HIDE DEF Crc
    <3> QED BY <2>5, <3>1, Zenon DEF KnownCrc
  <2>7. Get("crc", NoCrc) = NoCrc \/ Get("crc", NoCrc) = Crc(Raw)
    BY <2>4, CleanCrc DEF StoreTypes
  <2>8. Get("crc", NoCrc)' = Get("crc", NoCrc)
    BY <2>1, SameCrc
  <2>9. CrcKept'
    BY <2>6, <2>7, <2>8 DEF CrcKept
  <2>10. ASSUME NEW w \in Writer, NEW i \in 1..Len(writes'[w]), writes'[w][i][1] = "crc"
         PROVE  KnownCrc(writes'[w][i][2], known')
    BY <2>1, <2>5, <2>10, MoreRecords DEF Accepted
  <2> QED BY <2>1, <2>5, <2>9, <2>10 DEF Accepted
<1>5. ASSUME MCNext, FactoryReset PROVE Accepted'
  <2>1. /\ phase = "boot" /\ phase' = "reset" /\ nvs' = <<>>
        /\ writes' = [writes EXCEPT !["boot"] = Save(Defaults)]
    BY <1>5 DEF FactoryReset
  <2>2. known \subseteq known' /\ Essential(Defaults) \in known'
    BY <1>5, KnownNext DEF Accepted
  <2>3. \A i \in 1..Len(Save(Defaults)) :
          Save(Defaults)[i][1] = "crc" => KnownCrc(Save(Defaults)[i][2], known')
    BY <2>2, DefaultsUsable, UsableCrc, SaveCrc
  <2>4. CrcKept'
    BY <2>1 DEF CrcKept, Get
  <2> DEFINE q == Save(Defaults)
  <2> HIDE DEF q
  <2>5. ASSUME NEW w \in Writer, NEW i \in 1..Len(writes'[w]), writes'[w][i][1] = "crc"
        PROVE  KnownCrc(writes'[w][i][2], known')
    <3>1. CASE w = "boot"
      BY <2>1, <2>3, <2>5, <3>1 DEF StoreTypes, q
    <3>2. CASE w # "boot"
      <4>1. writes'[w] = writes[w]
        BY <2>1, <3>2 DEF StoreTypes
      <4> QED BY <2>2, <2>5, <4>1, MoreRecords DEF Accepted
    <3> QED BY <3>1, <3>2
  <2> QED BY <2>1, <2>2, <2>4, <2>5 DEF Accepted
<1>6. ASSUME MCNext, Restart PROVE Accepted'
  <2>1. phase = "reset" /\ phase' = "boot" /\ nvs' = nvs /\ writes' = writes
    BY <1>6 DEF Restart
  <2>2. known \subseteq known' /\ Get("crc", NoCrc)' = Get("crc", NoCrc)
    BY <1>6, <2>1, KnownNext, SameCrc
  <2>3. CrcKept' /\ Essential(Defaults) \in known'
    BY <2>1, <2>2, MoreRecords DEF Accepted, CrcKept
  <2>4. ASSUME NEW w \in Writer, NEW i \in 1..Len(writes'[w]), writes'[w][i][1] = "crc"
        PROVE  KnownCrc(writes'[w][i][2], known')
    BY <2>1, <2>2, <2>4, MoreRecords DEF Accepted
  <2> QED BY <2>1, <2>3, <2>4 DEF Accepted
<1>7. ASSUME MCNext, Crash PROVE Accepted'
  <2>1. phase' = "boot" /\ nvs' = nvs /\ \A w \in Writer : Len(writes'[w]) = 0
    BY <1>7 DEF Crash, Nobody
  <2>2. /\ known \subseteq known' /\ Get("crc", NoCrc)' = Get("crc", NoCrc)
        /\ Loaded' = Loaded
    BY <1>7, <2>1, KnownNext, SameCrc, SameFlash
  <2>3. CrcKept \/ Essential(Loaded) \in known
    BY DEF Accepted, StoreTypes
  <2>4. CrcKept' \/ Essential(Loaded)' \in known'
    BY <2>2, <2>3, MoreRecords DEF CrcKept
  <2>5. Essential(Defaults) \in known'
    BY <2>2 DEF Accepted
  <2> QED BY <2>1, <2>4, <2>5 DEF Accepted
<1>8. ASSUME MCNext, NEW w \in Writer, Put(w) PROVE Accepted'
  BY <1>8, KnownNext, PutAccepted
<1>9. ASSUME MCNext, PreviewTimezone PROVE Accepted'
  <2>1. nvs' = nvs /\ phase' = phase /\ phase = "on" /\ writes' = writes
    BY <1>9 DEF PreviewTimezone
  <2> QED BY <1>1, <1>9, <2>1
<1>10. ASSUME MCNext, NEW t \in Task, Copy(t) \/ GiveUp(t) PROVE Accepted'
  <2>1. nvs' = nvs /\ phase' = phase /\ phase = "on" /\ writes' = writes
    BY <1>10 DEF Copy, GiveUp, StoreTypes
  <2> QED BY <1>1, <1>10, <2>1
<1>11. ASSUME MCNext, NEW t \in Task, NEW change \in ChangesOf[t], Commit(t, change)
       PROVE  Accepted'
  <2>1. /\ phase' = phase /\ phase = "on" /\ nvs' = nvs
        /\ at[t] = "edit" /\ at'[t] = "save"
        /\ writes' = [writes EXCEPT ![t] = Save(settings')]
    BY <1>11 DEF Commit, StoreTypes
  <2>2. Essential(settings') \in known' /\ Usable(settings')
    <3>1. StoreTypes'
      BY <1>11, CommitTypes
    <3> QED BY <1>11, <2>1, <3>1, KnownNext DEF StoreTypes
  <2>3. \A i \in 1..Len(Save(settings')) :
          Save(settings')[i][1] = "crc" => KnownCrc(Save(settings')[i][2], known')
    BY <2>2, UsableCrc, SaveCrc
  <2> HIDE DEF Save
  <2>4. \A w \in Writer : writes'[w] = writes[w] \/
          \A i \in 1..Len(writes'[w]) :
            writes'[w][i][1] = "crc" => KnownCrc(writes'[w][i][2], known')
    BY <2>1, <2>3 DEF StoreTypes
  <2> QED BY <1>1, <1>11, <2>1, <2>4
<1>12. ASSUME MCNext PROVE Accepted'
  <2>1. Next
    BY <1>12 DEF MCNext
  <2> QED BY <1>3, <1>4, <1>5, <1>6, <1>7, <1>8, <1>9, <1>10, <1>11, <1>12, <2>1 DEF Next
<1> QED BY <1>2, <1>12

\* What a load makes of the keys that are there.
FieldsRead ==
    /\ "ssid" \in DOMAIN nvs => Loaded["ssid"] = IF Repaired THEN "" ELSE nvs["ssid"]
    /\ "pass" \in DOMAIN nvs => Loaded["pass"] = IF Repaired THEN "" ELSE nvs["pass"]
    /\ "tz" \in DOMAIN nvs => Loaded["tz"] = nvs["tz"]
    /\ "ooff" \in DOMAIN nvs => Loaded["ooff"] = nvs["ooff"]
    /\ "apol" \in DOMAIN nvs =>
         Loaded["apol"] = IF nvs["apol"] \in Policies THEN nvs["apol"] ELSE "Refuse"
    /\ "ahold" \in DOMAIN nvs => Loaded["ahold"] = Clamp(nvs["ahold"])
    /\ Repaired <=> "ssid" \in DOMAIN nvs /\ nvs["ssid"] = "null"

LEMMA ReadFields == FieldsRead
<1>1. /\ Loaded["ssid"] = Raw["ssid"] /\ Loaded["pass"] = Raw["pass"]
      /\ Loaded["tz"] = Raw["tz"] /\ Loaded["ooff"] = Raw["ooff"]
      /\ Loaded["apol"] = Raw["apol"] /\ Loaded["ahold"] = Clamp(Raw["ahold"])
  BY DEF Loaded, Raw
<1>2. /\ Raw["ssid"] = IF Repaired THEN "" ELSE Get("ssid", "")
      /\ Raw["pass"] = IF Repaired THEN "" ELSE Get("pass", "")
      /\ Raw["tz"] = Get("tz", Defaults.tz) /\ Raw["ooff"] = Get("ooff", Defaults.ooff)
      /\ Raw["apol"] = IF Get("apol", "Refuse") \in Policies THEN Get("apol", "Refuse")
                       ELSE "Refuse"
      /\ "ahold" \in DOMAIN nvs => Raw["ahold"] = nvs["ahold"]
  BY DEF Raw, Get
<1>3. Repaired <=> "ssid" \in DOMAIN nvs /\ nvs["ssid"] = "null"
  BY DEF Repaired, Get
<1> QED BY <1>1, <1>2, <1>3 DEF FieldsRead, Get

LEMMA ReadFieldsNext == FieldsRead'
BY ReadFields, PTL

\* A value that is read as it is written.
Plain(key, value) ==
    /\ key = "ssid" => value # "null"
    /\ key = "apol" => value \in Policies
    /\ key = "ahold" => value \in Holds

LEMMA PutReads ==
    ASSUME NEW key, NEW value, WritesOne(key, value), Plain(key, value)
    PROVE  /\ Repaired' => Repaired
           /\ key \in Fields =>
                Loaded'[key] = value \/ (key = "pass" /\ Repaired' /\ Loaded'[key] = "")
           /\ \A k \in Fields \cap DOMAIN nvs : k # key =>
                \/ Loaded'[k] = Loaded[k] \/ Loaded'[k] = nvs[k]
                \/ k = "pass" /\ Repaired' /\ Loaded'[k] = ""
<1>1. \A k : k # key => /\ k \in DOMAIN nvs' <=> k \in DOMAIN nvs
                        /\ k \in DOMAIN nvs => nvs'[k] = nvs[k]
  BY DEF WritesOne
<1>2. key \in DOMAIN nvs' /\ nvs'[key] = value
  BY DEF WritesOne
<1>3. Repaired' => Repaired
  BY <1>1, <1>2, ReadFields, ReadFieldsNext DEF FieldsRead, Plain
<1>4. key = "ahold" => Clamp(value) = value
  BY StoreFacts DEF Plain, Clamp, Holds
<1>5. key \in Fields =>
        Loaded'[key] = value \/ (key = "pass" /\ Repaired' /\ Loaded'[key] = "")
  <2> HIDE DEF Clamp
  <2> QED BY <1>2, <1>4, ReadFieldsNext DEF FieldsRead, Plain, Fields
<1>6. ASSUME NEW k \in Fields, k \in DOMAIN nvs, k # key
      PROVE  \/ Loaded'[k] = Loaded[k] \/ Loaded'[k] = nvs[k]
             \/ k = "pass" /\ Repaired' /\ Loaded'[k] = ""
  <2>1. k \in DOMAIN nvs' /\ nvs'[k] = nvs[k]
    BY <1>1, <1>6
  <2>2. CASE k = "ssid"
    BY <1>6, <2>1, <2>2, ReadFields, ReadFieldsNext DEF FieldsRead
  <2>3. CASE k \in {"pass", "tz", "ooff", "apol", "ahold"}
    BY <1>6, <2>1, <2>3, ReadFields, ReadFieldsNext DEF FieldsRead
  <2> QED BY <1>6, <2>2, <2>3 DEF Fields
<1> QED BY <1>3, <1>5, <1>6

Worthy(q, fields) ==
    \A i \in 1..Len(q) : q[i][1] \in Fields =>
      q[i][2] \in fields[q[i][1]] /\ Plain(q[i][1], q[i][2])

\* Each field in flash, as it is and as it would be loaded, and each that is
\* about to be written, is one that lasts.
Lasting ==
    /\ DOMAIN durable = Fields
    /\ Repaired => "" \in durable["pass"]
    /\ \A k \in Fields \cap DOMAIN nvs : nvs[k] \in durable[k] /\ Loaded[k] \in durable[k]
    /\ \A w \in Writer : Worthy(writes[w], durable)

LEMMA MoreLasts ==
    ASSUME NEW q, NEW fields, NEW more, Worthy(q, fields),
           \A k \in Fields : fields[k] \subseteq more[k]
    PROVE  Worthy(q, more)
BY DEF Worthy

LEMMA TailWorthy ==
    ASSUME NEW q, NEW fields, IsSeq(q), q # <<>>, Worthy(q, fields)
    PROVE  /\ Worthy(Tail(q), fields)
           /\ Head(q)[1] \in Fields =>
                Head(q)[2] \in fields[Head(q)[1]] /\ Plain(Head(q)[1], Head(q)[2])
BY TailWrites DEF Worthy

LEMMA SaveWorthy ==
    ASSUME NEW s, Usable(s), s["ssid"] # "null", NEW fields, \A k \in Fields : s[k] \in fields[k]
    PROVE  Worthy(Save(s), fields)
<1> DEFINE q == Save(s)
<1>1. Towards(nvs, q, s, Fields)
  BY SaveTowards
<1>2. \A k \in Fields : Plain(k, s[k])
  BY DEF Plain, Usable
<1> HIDE DEF q
<1>3. \A i \in 1..Len(q) : q[i][1] \in Fields => q[i][2] = s[q[i][1]]
  BY <1>1 DEF Towards
<1>4. Worthy(q, fields)
  BY <1>2, <1>3 DEF Worthy
<1> QED BY <1>4 DEF q

LEMMA RefreshWorthy ==
    ASSUME Usable(Loaded), NEW fields, Loaded["ahold"] \in fields["ahold"]
    PROVE  Worthy(Refresh, fields)
<1>1. Refreshing(Refresh, Loaded)
  BY RefreshIsOne
<1> HIDE DEF Refresh
<1>2. ASSUME NEW i \in 1..Len(Refresh), Refresh[i][1] \in Fields
      PROVE  Refresh[i][1] = "ahold" /\ Refresh[i][2] = Loaded["ahold"]
  BY <1>1, <1>2 DEF Refreshing, Refreshed, Fields
<1>3. Plain("ahold", Loaded["ahold"])
  BY DEF Plain, Usable
<1> QED BY <1>2, <1>3 DEF Worthy

\* What MCNext notes of the fields, by what the step does.
LEMMA DurableNext ==
    ASSUME MCNext
    PROVE  /\ DOMAIN durable' = Fields
           /\ Loads => \A k \in Fields : durable'[k] = {settings'[k], Get(k, settings'[k])}
           /\ ~Loads /\ (\E t \in Task : Finishes(t)) =>
                \A k \in Fields : durable'[k] = {settings'[k]}
           /\ ~Loads /\ (\A t \in Task : ~Finishes(t)) =>
                \A k \in Fields :
                  /\ durable[k] \subseteq durable'[k]
                  /\ (\E t \in Task : Commits(t)) => settings'[k] \in durable'[k]
                  /\ Resets /\ (\A t \in Task : ~Commits(t)) => Defaults[k] \in durable'[k]
<1>1. DOMAIN Defaults = Fields
  BY DefaultsUsable DEF Usable
<1>2. durable' =
         [ k \in Fields |->
             IF Loads THEN {settings'[k], Get(k, settings'[k])}
             ELSE IF \E t \in Task : Finishes(t) THEN {settings'[k]}
             ELSE IF \E t \in Task : Commits(t) THEN durable[k] \cup {settings'[k]}
             ELSE IF Resets THEN durable[k] \cup {Defaults[k]}
             ELSE durable[k] ]
  BY <1>1 DEF MCNext
<1> HIDE DEF Loads, Finishes, Commits, Resets
<1>3. CASE Loads
  BY <1>2, <1>3
<1>4. CASE ~Loads /\ \E t \in Task : Finishes(t)
  BY <1>2, <1>4
<1>5. CASE ~Loads /\ (\A t \in Task : ~Finishes(t)) /\ \E t \in Task : Commits(t)
  BY <1>2, <1>5
<1>6. CASE ~Loads /\ (\A t \in Task : ~Finishes(t)) /\ \A t \in Task : ~Commits(t)
  BY <1>2, <1>6
<1> QED BY <1>3, <1>4, <1>5, <1>6

LEMMA EmptyWorthy == ASSUME NEW fields PROVE Worthy(<<>>, fields)
BY DEF Worthy

LEMMA LastingInit == MCInit => Lasting
<1> SUFFICES ASSUME MCInit PROVE Lasting
  OBVIOUS
<1>1. DOMAIN Defaults = Fields
  BY DefaultsUsable DEF Usable
<1>2. durable = [ k \in Fields |-> {Loaded[k], Get(k, Loaded[k])} ]
  BY <1>1 DEF MCInit
<1>3. \A w \in Writer : Worthy(writes[w], durable)
  BY EmptyWorthy DEF MCInit, Init, Nobody
<1>4. Repaired => Loaded["pass"] = ""
  BY DEF Loaded, Raw
<1>5. \A k \in Fields \cap DOMAIN nvs : Get(k, Loaded[k]) = nvs[k]
  BY DEF Get
<1>6. "pass" \in Fields
  BY DEF Fields
<1> QED BY <1>2, <1>3, <1>4, <1>5, <1>6 DEF Lasting

LEMMA PutLasting ==
    ASSUME OneTask, StoreTypes, Stored, Lasting, MCNext, NEW w \in Writer, Put(w)
    PROVE  Lasting'
<1> DEFINE q == writes[w]
           key == Head(q)[1]
           value == Head(q)[2]
<1>1. q # <<>> /\ Typed(q) /\ IsSeq(q)
  BY DEF Put, StoreTypes, Typed
<1>2. WritesOne(key, value)
  BY DEF Put, WritesOne
<1>3. /\ writes' = [writes EXCEPT ![w] = Tail(q)]
      /\ at' = IF w \in Task /\ Len(q) = 1 THEN [at EXCEPT ![w] = "idle"] ELSE at
      /\ settings' = settings /\ phase' = phase /\ copy' = copy /\ crashes' = crashes
  BY DEF Put
<1>4. ~Loads
  BY <1>3 DEF Loads
<1>5. CASE \A t \in Task : ~Finishes(t)
  <2>1. DOMAIN durable' = Fields /\ \A k \in Fields : durable[k] \subseteq durable'[k]
    BY <1>4, <1>5, DurableNext
  <2>2. /\ Worthy(Tail(q), durable)
        /\ key \in Fields => value \in durable[key] /\ Plain(key, value)
    BY <1>1, TailWorthy DEF Lasting
  <2>3. key \notin Fields => Plain(key, value)
    BY DEF Plain, Fields
  <2> HIDE DEF q, key, value
  <2>4. Plain(key, value)
    BY <2>2, <2>3
  <2>5. /\ Repaired' => Repaired
        /\ key \in Fields =>
             Loaded'[key] = value \/ (key = "pass" /\ Repaired' /\ Loaded'[key] = "")
        /\ \A k \in Fields \cap DOMAIN nvs : k # key =>
             \/ Loaded'[k] = Loaded[k] \/ Loaded'[k] = nvs[k]
             \/ k = "pass" /\ Repaired' /\ Loaded'[k] = ""
    BY <1>2, <2>4, PutReads
  <2>6. Repaired' => "" \in durable["pass"]
    BY <2>5 DEF Lasting
  <2>7. ASSUME NEW k \in Fields, k \in DOMAIN nvs'
        PROVE  nvs'[k] \in durable[k] /\ Loaded'[k] \in durable[k]
    <3>1. CASE k = key
      <4>1. nvs'[k] = value
        BY <1>2, <3>1 DEF WritesOne
      <4> QED BY <2>2, <2>5, <2>6, <2>7, <3>1, <4>1
    <3>2. CASE k # key
      <4>1. k \in DOMAIN nvs /\ nvs'[k] = nvs[k]
        BY <1>2, <2>7, <3>2 DEF WritesOne
      <4> QED BY <2>5, <2>6, <2>7, <3>2, <4>1 DEF Lasting
    <3> QED BY <3>1, <3>2
  <2>8. \A x \in Writer : Worthy(writes'[x], durable)
    BY <1>3, <2>2 DEF Lasting, StoreTypes
  <2>9. \A x \in Writer : Worthy(writes'[x], durable')
    BY <2>1, <2>8, MoreLasts
  <2>10. "pass" \in Fields
    BY DEF Fields
  <2> QED BY <2>1, <2>6, <2>7, <2>9, <2>10 DEF Lasting
<1>6. CASE \E t \in Task : Finishes(t)
  <2>1. PICK t \in Task : Finishes(t)
    BY <1>6
  <2>2. at[t] = "save" /\ at'[t] = "idle"
    BY <2>1 DEF Finishes
  <2>3. w = t /\ Len(q) = 1 /\ \A u \in Task : u = t
    BY <1>3, <2>2 DEF OneTask, StoreTypes
  <2>4. Tail(q) = <<>>
    BY <1>1, <2>3, TailWrites
  <2>5. Towards(nvs, q, settings, Fields)
    BY <2>2, <2>3 DEF Stored
  <2>6. Towards(nvs', <<>>, settings, Fields) /\ Len(<<>>) = 0
    BY <1>1, <1>2, <2>4, <2>5, TowardsStep
  <2>7. Usable(settings) /\ settings["ssid"] # "null" /\ phase = "on"
    BY <2>2 DEF StoreTypes, Stored
  <2>8. writes'[t] = <<>> /\ \A x \in Writer : x # t => writes'[x] = writes[x]
    BY <1>3, <2>3, <2>4 DEF StoreTypes
  <2> HIDE DEF q, key, value
  <2>9. \A k \in Fields : k \in DOMAIN nvs' /\ nvs'[k] = settings[k]
    BY <2>6 DEF Towards
  <2>10. \A k \in Fields : Loaded'[k] = settings[k]
    BY <2>7, <2>9, WrittenIsLoaded
  <2>11. DOMAIN durable' = Fields /\ \A k \in Fields : durable'[k] = {settings[k]}
    BY <1>3, <1>4, <1>6, DurableNext
  <2>12. \A x \in Writer : writes'[x] = <<>>
    BY <2>3, <2>7, <2>8 DEF StoreTypes, Writer
  <2>13. \A x \in Writer : Worthy(writes'[x], durable')
    BY <2>12, EmptyWorthy
  <2>14. ~Repaired'
    BY <2>7, <2>9, ReadFieldsNext DEF FieldsRead, Fields
  <2> QED BY <2>9, <2>10, <2>11, <2>13, <2>14 DEF Lasting
<1> QED BY <1>5, <1>6

LEMMA LastingNext ==
    ASSUME OneTask, NoNullNetwork
    PROVE  StoreTypes /\ Stored /\ Lasting /\ [MCNext]_mcvars => Lasting'
<1> SUFFICES ASSUME StoreTypes, Stored, Lasting, [MCNext]_mcvars PROVE Lasting'
  OBVIOUS
<1> USE DEF Finishes, Commits, Loads, Resets, Crashes
<1>1. ASSUME MCNext, nvs' = nvs, ~Loads, \A t \in Task : ~Finishes(t),
             \A w \in Writer : writes'[w] = writes[w] \/ Worthy(writes'[w], durable')
      PROVE  Lasting'
  <2>1. DOMAIN durable' = Fields /\ \A k \in Fields : durable[k] \subseteq durable'[k]
    BY <1>1, DurableNext
  <2>2. Loaded' = Loaded /\ (Repaired' <=> Repaired)
    BY <1>1, SameFlash, ReadFields, ReadFieldsNext DEF FieldsRead
  <2>3. \A w \in Writer : Worthy(writes'[w], durable')
    BY <1>1, <2>1, MoreLasts DEF Lasting
  <2>4. "pass" \in Fields
    BY DEF Fields
  <2> QED BY <1>1, <2>1, <2>2, <2>3, <2>4 DEF Lasting
<1>2. CASE UNCHANGED mcvars
  <2>1. Loaded' = Loaded /\ (Repaired' <=> Repaired)
    BY <1>2, SameFlash, ReadFields, ReadFieldsNext DEF FieldsRead, mcvars
  <2> QED BY <1>2, <2>1 DEF mcvars, Lasting
<1>3. ASSUME MCNext, Load PROVE Lasting'
  <2> DEFINE q == IF NeedsRewrite THEN Refresh ELSE <<>>
  <2>1. /\ phase = "boot" /\ phase' = "load" /\ settings' = Loaded /\ nvs' = nvs
        /\ writes' = [writes EXCEPT !["boot"] = q]
    BY <1>3 DEF Load
  <2>2. /\ DOMAIN durable' = Fields
        /\ \A k \in Fields : durable'[k] = {Loaded[k], Get(k, Loaded[k])}
    BY <1>3, <2>1, DurableNext
  <2>3. Loaded' = Loaded /\ (Repaired' <=> Repaired)
    BY <2>1, SameFlash, ReadFields, ReadFieldsNext DEF FieldsRead
  <2>4. Repaired => Loaded["pass"] = ""
    BY DEF Loaded, Raw
  <2>5. \A k \in Fields \cap DOMAIN nvs : Get(k, Loaded[k]) = nvs[k]
    BY DEF Get
  <2>6. Worthy(Refresh, durable') /\ Worthy(<<>>, durable')
    <3>1. Usable(Loaded) /\ Loaded["ahold"] \in durable'["ahold"]
      BY <2>2, LoadedFields DEF StoreTypes, Fields
    <3> QED BY <3>1, RefreshWorthy, EmptyWorthy
  <2>7. Worthy(q, durable')
    BY <2>6
  <2> HIDE DEF q
  <2>8. \A w \in Writer : w # "boot" => writes'[w] = <<>>
    BY <2>1 DEF StoreTypes, Writer
  <2>9. \A w \in Writer : Worthy(writes'[w], durable')
    BY <2>1, <2>6, <2>7, <2>8 DEF StoreTypes
  <2>10. "pass" \in Fields
    BY DEF Fields
  <2> QED BY <2>1, <2>2, <2>3, <2>4, <2>5, <2>9, <2>10 DEF Lasting
<1>4. ASSUME MCNext, StartTasks \/ Restart PROVE Lasting'
  BY <1>1, <1>4 DEF StartTasks, Restart
<1>5. ASSUME MCNext, FactoryReset PROVE Lasting'
  <2>1. /\ phase = "boot" /\ phase' = "reset" /\ nvs' = <<>> /\ at' = at
        /\ writes' = [writes EXCEPT !["boot"] = Save(Defaults)]
    BY <1>5 DEF FactoryReset
  <2>2. /\ DOMAIN durable' = Fields
        /\ \A k \in Fields : durable[k] \subseteq durable'[k] /\ Defaults[k] \in durable'[k]
    BY <1>5, <2>1, DurableNext
  <2>3. Defaults["ssid"] # "null"
    BY DEF Defaults
  <2>4. Worthy(Save(Defaults), durable')
    BY <2>2, <2>3, DefaultsUsable, SaveWorthy
  <2> DEFINE q == Save(Defaults)
  <2> HIDE DEF q
  <2>5. ASSUME NEW w \in Writer PROVE Worthy(writes'[w], durable')
    <3>1. CASE w = "boot"
      BY <2>1, <2>4, <3>1 DEF StoreTypes, q
    <3>2. CASE w # "boot"
      <4>1. writes'[w] = writes[w]
        BY <2>1, <3>2 DEF StoreTypes
      <4> QED BY <2>2, <4>1, MoreLasts DEF Lasting
    <3> QED BY <3>1, <3>2
  <2>6. ~Repaired' /\ DOMAIN nvs' = {}
    BY <2>1, ReadFieldsNext DEF FieldsRead
  <2> QED BY <2>2, <2>5, <2>6 DEF Lasting
<1>6. ASSUME MCNext, Crash PROVE Lasting'
  <2>1. /\ phase' = "boot" /\ nvs' = nvs /\ crashes' # crashes
        /\ \A w \in Writer : writes'[w] = <<>>
    BY <1>6 DEF Crash, Nobody, StoreTypes
  <2>2. \A w \in Writer : Worthy(writes'[w], durable')
    BY <2>1, EmptyWorthy
  <2> QED BY <1>1, <1>6, <2>1, <2>2
<1>7. ASSUME MCNext, NEW w \in Writer, Put(w) PROVE Lasting'
  BY <1>7, PutLasting
<1>8. ASSUME MCNext, PreviewTimezone PROVE Lasting'
  BY <1>1, <1>8 DEF PreviewTimezone
<1>9. ASSUME MCNext, NEW t \in Task, Copy(t) \/ GiveUp(t) PROVE Lasting'
  <2>1. nvs' = nvs /\ phase' = phase /\ writes' = writes
        /\ \A u \in Task : ~(at[u] = "save" /\ at'[u] = "idle")
    BY <1>9 DEF Copy, GiveUp, StoreTypes
  <2> QED BY <1>1, <1>9, <2>1
<1>10. ASSUME MCNext, NEW t \in Task, NEW change \in ChangesOf[t], Commit(t, change)
       PROVE  Lasting'
  <2>1. /\ phase' = phase /\ nvs' = nvs /\ at[t] = "edit" /\ at'[t] = "save"
        /\ \A u \in Task : u = t
        /\ writes' = [writes EXCEPT ![t] = Save(settings')]
    BY <1>10 DEF Commit, StoreTypes, OneTask
  <2>2. Usable(settings') /\ settings'["ssid"] # "null"
    <3>1. StoreTypes'
      BY <1>10, CommitTypes
    <3>2. Stored'
      BY <1>10, StoredNext DEF MCNext
    <3> QED BY <3>1, <3>2 DEF StoreTypes, Stored
  <2>3. \A k \in Fields : settings'[k] \in durable'[k]
    BY <1>10, <2>1, DurableNext
  <2>4. Worthy(Save(settings'), durable')
    BY <2>2, <2>3, SaveWorthy
  <2> HIDE DEF Save
  <2>5. \A w \in Writer : writes'[w] = writes[w] \/ Worthy(writes'[w], durable')
    BY <2>1, <2>4 DEF StoreTypes
  <2> QED BY <1>1, <1>10, <2>1, <2>5
<1>11. ASSUME MCNext PROVE Lasting'
  <2>1. Next
    BY <1>11 DEF MCNext
  <2> QED BY <1>3, <1>4, <1>5, <1>6, <1>7, <1>8, <1>9, <1>10, <1>11, <2>1 DEF Next
<1> QED BY <1>2, <1>11

\* An accepted record is one in use.
LEMMA AcceptedIsKnown ==
    ASSUME StoreTypes, Accepted, phase = "boot", ~NeedsRewrite, Get("crc", NoCrc) # NoCrc
    PROVE  Essential(Loaded) \in known
<1>1. Get("crc", NoCrc) = Crc(Raw)
  BY CleanCrc DEF StoreTypes
<1>2. CASE CrcKept
  <2>1. KnownCrc(Crc(Raw), known)
    BY <1>1, <1>2 DEF CrcKept
  <2>2. PICK r : DOMAIN r = Fields /\ Crc(Raw) = Crc(r) /\ Essential(Clamped(r)) \in known
    BY <2>1 DEF KnownCrc
  <2>3. DOMAIN Raw = Fields /\ Loaded = Clamped(Raw)
    BY RawFields, LoadedClamped DEF StoreTypes
  <2>4. Essential(Clamped(Raw)) = Essential(Clamped(r))
    BY <2>2, <2>3, CrcTells
  <2> QED BY <2>2, <2>3, <2>4
<1>3. CASE ~CrcKept
  BY <1>3 DEF Accepted
<1> QED BY <1>2, <1>3

\* A power failure loses no field that was saved and invents none: each that a
\* load finds is that of the last save, or of the one under way; and a record
\* whose CRC is accepted was committed, or loaded and used, as it is, whatever
\* saves were torn.  For one task that changes settings.
THEOREM LoadedWasSavedAlways ==
    ASSUME OneTask, NoNullNetwork
    PROVE  MCSpec => LoadedWasSaved
<1> DEFINE Inv == StoreTypes /\ Stored /\ Settling /\ Accepted /\ Lasting
<1>1. MCInit => Inv
  BY StoreInit, StoredInit, SettlingInit, AcceptedInit, LastingInit DEF MCInit
<1>2. Inv /\ [MCNext]_mcvars => Inv'
  <2> SUFFICES ASSUME Inv, [MCNext]_mcvars PROVE Inv'
    OBVIOUS
  <2>1. [Next]_vars
    BY DEF MCNext, mcvars, vars
  <2>2. StoreTypes' /\ Stored'
    BY <2>1, StoreNext, StoredNext
  <2>3. Settling' /\ Accepted' /\ Lasting'
    BY SettlingNext, AcceptedNext, LastingNext
  <2> QED BY <2>2, <2>3
<1>3. Inv /\ [MCNext]_mcvars =>
        [ Loads =>
          /\ \A k \in DOMAIN Defaults \cap DOMAIN nvs : settings'[k] \in durable[k]
          /\ ~NeedsRewrite /\ Get("crc", NoCrc) # NoCrc => Essential(settings') \in known
        ]_mcvars
  <2> SUFFICES ASSUME Inv, MCNext, Loads
               PROVE  /\ \A k \in DOMAIN Defaults \cap DOMAIN nvs : settings'[k] \in durable[k]
                      /\ ~NeedsRewrite /\ Get("crc", NoCrc) # NoCrc =>
                           Essential(settings') \in known
    OBVIOUS
  <2>1. settings' = Loaded /\ phase = "boot"
    BY OnlyLoadLoads DEF Load
  <2>2. DOMAIN Defaults = Fields
    BY DefaultsUsable DEF Usable
  <2> QED BY <2>1, <2>2, AcceptedIsKnown DEF Lasting
<1> HIDE DEF Inv
<1> QED BY <1>1, <1>2, <1>3, PTL DEF MCSpec, LoadedWasSaved
=============================================================================
