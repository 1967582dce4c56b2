---------------------------- MODULE SettingsStore ----------------------------
(***************************************************************************)
(* settings.cpp and the commit of app_ipc.cpp: the settings in memory, their*)
(* keys in flash, and the tasks that copy, change and commit them.          *)
(*                                                                          *)
(* A task copies the settings under the lock, changes its copy, assigns the *)
(* whole of it under the lock again, and then writes key after key without  *)
(* the lock.  The power may fail between any two keys.  Loading repairs what*)
(* it finds, and writes three keys when version or CRC do not match.        *)
(*                                                                          *)
(* Abstracted: of the twenty-odd keys these stand for the rest: the WiFi    *)
(* credentials, the time zone (previewed in memory), the anomaly policy with*)
(* its holdover, and the display time-out (not in the CRC).  A CRC is the   *)
(* tuple of what it is computed from.                                       *)
(***************************************************************************)
EXTENDS Integers, Sequences

CONSTANTS
    Task,                \* tasks that change settings: "ui" and "net"
    ChangesOf,           \* of each task, what its menus and handlers may change
    TimeZones,           \* time zones the menu previews
    PresetHold,          \* of each policy, its holdover; 0 for Refuse
    CLK_HOLDOVER_SHORT_SEC, CLK_HOLDOVER_SEC_MAX,
    FirstFlash,          \* what the flash may hold at first
    MaxCommits,          \* bound: commits explored
    MaxCrashes           \* bound: power failures explored

MinHold == 10

\* A holdover is a uint16_t; what the menus and handlers set is a policy that
\* exists, and a holdover they have clamped.
ASSUME StoreAssumption ==
    /\ Task \subseteq {"ui", "net"}
    /\ "Refuse" \in DOMAIN PresetHold /\ PresetHold["Refuse"] = 0
    /\ \A policy \in DOMAIN PresetHold : PresetHold[policy] \in Nat
    /\ CLK_HOLDOVER_SEC_MAX \in Nat /\ CLK_HOLDOVER_SHORT_SEC \in MinHold..CLK_HOLDOVER_SEC_MAX
    /\ \A flash \in FirstFlash : "ahold" \in DOMAIN flash => flash["ahold"] \in Nat
    /\ \A t \in Task : \A change \in ChangesOf[t] :
         /\ "apol" \in DOMAIN change => change["apol"] \in DOMAIN PresetHold
         /\ "ahold" \in DOMAIN change => change["ahold"] \in MinHold..CLK_HOLDOVER_SEC_MAX
    /\ MaxCommits \in Nat /\ MaxCrashes \in Nat

VARIABLES
    settings,   \* gSettings
    nvs,        \* the keys present in flash, with their values
    phase,      \* "boot", "load" while loading writes, "reset", "on"
    copy,       \* of each task, the AppSettings on its stack
    at,         \* of each task: "idle", "edit" or "save"
    writes,     \* of each task, and of the boot, the keys it has yet to write
    commits,    \* commits so far
    crashes     \* power failures so far

vars == <<settings, nvs, phase, copy, at, writes, commits, crashes>>

Version == 4
NoCrc == <<>>
Policies == DOMAIN PresetHold

Defaults ==
    [ ssid |-> "", pass |-> "", tz |-> 8, apol |-> "Refuse",
      ahold |-> CLK_HOLDOVER_SHORT_SEC, ooff |-> 10 ]

\* Fault: the password is left out.
CrcWithoutPass(s) == <<s.ssid, s.tz, s.apol, s.ahold>>

\* The display time-out is not part of it.
Crc(s) == <<s.ssid, s.pass, s.tz, s.apol, s.ahold>>

\* Fault: the holdover is taken for part of the policy and not written.
SaveWithoutHold(s) ==
    << <<"ssid", s.ssid>>, <<"pass", s.pass>>, <<"tz", s.tz>>, <<"apol", s.apol>>,
       <<"ooff", s.ooff>>, <<"ver", Version>>, <<"crc", Crc(s)>> >>

\* The keys a save writes, in its order.
Save(s) ==
    << <<"ssid", s.ssid>>, <<"pass", s.pass>>, <<"tz", s.tz>>, <<"apol", s.apol>>,
       <<"ahold", s.ahold>>, <<"ooff", s.ooff>>, <<"ver", Version>>, <<"crc", Crc(s)>> >>

Writer == Task \cup {"boot"}
Nobody == [ w \in Writer |-> <<>> ]

Init ==
    /\ nvs \in FirstFlash
    /\ settings = Defaults
    /\ phase = "boot"
    /\ copy = [ t \in Task |-> Defaults ]
    /\ at = [ t \in Task |-> "idle" ]
    /\ writes = Nobody
    /\ commits = 0 /\ crashes = 0

-----------------------------------------------------------------------------
(* Loading.                                                                 *)

Get(key, default) == IF key \in DOMAIN nvs THEN nvs[key] ELSE default

\* An ssid an older web page stored as a literal.
Repaired == Get("ssid", "") = "null"

\* The record in flash, with the defaults of what is missing.
Raw ==
    LET policy == IF Get("apol", "Refuse") \in Policies THEN Get("apol", "Refuse")
                  ELSE "Refuse"
        preset == IF PresetHold[policy] > 0 THEN PresetHold[policy]
                  ELSE CLK_HOLDOVER_SHORT_SEC
    IN [ ssid  |-> IF Repaired THEN "" ELSE Get("ssid", ""),
         pass  |-> IF Repaired THEN "" ELSE Get("pass", ""),
         tz    |-> Get("tz", Defaults.tz),
         apol  |-> policy,
         ahold |-> Get("ahold", preset),
         ooff  |-> Get("ooff", Defaults.ooff) ]

Mismatch == Get("ver", 0) = Version /\ Get("crc", NoCrc) \notin {NoCrc, Crc(Raw)}

\* Fault: only the upper limit is kept.
ClampAbove(hold) == IF hold > CLK_HOLDOVER_SEC_MAX THEN CLK_HOLDOVER_SEC_MAX ELSE hold

Clamp(hold) ==
    IF hold < MinHold THEN MinHold
    ELSE IF hold > CLK_HOLDOVER_SEC_MAX THEN CLK_HOLDOVER_SEC_MAX
    ELSE hold

\* Fault: the credentials are dropped when the CRC does not match.
LoadedWiping ==
    [Raw EXCEPT !.ahold = Clamp(@),
                !.ssid = IF Mismatch THEN "" ELSE @,
                !.pass = IF Mismatch THEN "" ELSE @]

\* The CRC is compared before the holdover is clamped.
Loaded == [Raw EXCEPT !.ahold = Clamp(@)]

NeedsRewrite ==
    \/ Mismatch
    \/ /\ Get("ver", 0) # Version
       /\ Loaded.ssid # "" \/ Get("crc", NoCrc) # NoCrc \/ Get("ver", 0) # 0
    \/ /\ Get("ver", 0) = Version
       /\ Get("crc", NoCrc) = NoCrc
       /\ Loaded.ssid # ""

\* Fault: the CRC is that of the record before it was clamped.
RefreshRaw ==
    << <<"ahold", Loaded.ahold>>, <<"ver", Version>>, <<"crc", Crc(Raw)>> >>

Refresh ==
    << <<"ahold", Loaded.ahold>>, <<"ver", Version>>, <<"crc", Crc(Loaded)>> >>

Load ==
    /\ phase = "boot"
    /\ phase' = "load"
    /\ settings' = Loaded
    /\ writes' = [writes EXCEPT !["boot"] = IF NeedsRewrite THEN Refresh ELSE <<>>]
    /\ UNCHANGED <<nvs, copy, at, commits, crashes>>

\* The tasks start when loading has written what it had to.
StartTasks ==
    /\ phase = "load"
    /\ writes["boot"] = <<>>
    /\ phase' = "on"
    /\ UNCHANGED <<settings, nvs, copy, at, writes, commits, crashes>>

\* The switch is held at power-on: every key goes, the defaults are saved, and
\* the device restarts.
FactoryReset ==
    /\ phase = "boot"
    /\ phase' = "reset"
    /\ nvs' = <<>>
    /\ writes' = [writes EXCEPT !["boot"] = Save(Defaults)]
    /\ UNCHANGED <<settings, copy, at, commits, crashes>>

Restart ==
    /\ phase = "reset"
    /\ writes["boot"] = <<>>
    /\ phase' = "boot"
    /\ UNCHANGED <<settings, nvs, copy, at, writes, commits, crashes>>

-----------------------------------------------------------------------------
(* The tasks.                                                               *)

Copy(t) ==
    /\ phase = "on"
    /\ at[t] = "idle"
    /\ copy' = [copy EXCEPT ![t] = settings]
    /\ at' = [at EXCEPT ![t] = "edit"]
    /\ UNCHANGED <<settings, nvs, phase, writes, commits, crashes>>

Changed(s, change) == [ k \in DOMAIN s |-> IF k \in DOMAIN change THEN change[k] ELSE s[k] ]

\* The whole copy is assigned under the lock and saved after it.
Commit(t, change) ==
    /\ at[t] = "edit"
    /\ commits < MaxCommits
    /\ commits' = commits + 1
    /\ settings' = Changed(copy[t], change)
    /\ writes' = [writes EXCEPT ![t] = Save(settings')]
    /\ at' = [at EXCEPT ![t] = "save"]
    /\ UNCHANGED <<nvs, phase, copy, crashes>>

\* The lock is not to be had in time, or the handler finds nothing to commit.
GiveUp(t) ==
    /\ at[t] = "edit"
    /\ at' = [at EXCEPT ![t] = "idle"]
    /\ UNCHANGED <<settings, nvs, phase, copy, writes, commits, crashes>>

\* One key reaches the flash.
Put(w) ==
    /\ writes[w] # <<>>
    /\ LET key == Head(writes[w])[1]
           value == Head(writes[w])[2]
       IN nvs' = [ k \in DOMAIN nvs \cup {key} |-> IF k = key THEN value ELSE nvs[k] ]
    /\ writes' = [writes EXCEPT ![w] = Tail(@)]
    /\ at' = IF w \in Task /\ Len(writes[w]) = 1 THEN [at EXCEPT ![w] = "idle"] ELSE at
    /\ UNCHANGED <<settings, phase, copy, commits, crashes>>

\* The menu turns through the time zones in memory, before it commits one.
PreviewTimezone ==
    /\ phase = "on"
    /\ "ui" \in Task /\ at["ui"] = "idle"
    /\ \E tz \in TimeZones : settings' = [settings EXCEPT !.tz = tz]
    /\ UNCHANGED <<nvs, phase, copy, at, writes, commits, crashes>>

\* The power fails: what has reached the flash stays.
Crash ==
    /\ crashes < MaxCrashes
    /\ crashes' = crashes + 1
    /\ phase' = "boot"
    /\ settings' = Defaults
    /\ copy' = [ t \in Task |-> Defaults ]
    /\ at' = [ t \in Task |-> "idle" ]
    /\ writes' = Nobody
    /\ UNCHANGED <<nvs, commits>>

Next ==
    \/ Load \/ StartTasks \/ FactoryReset \/ Restart \/ PreviewTimezone \/ Crash
    \/ \E w \in Writer : Put(w)
    \/ \E t \in Task :
         Copy(t) \/ GiveUp(t) \/ \E change \in ChangesOf[t] : Commit(t, change)

Spec == Init /\ [][Next]_vars

-----------------------------------------------------------------------------
(* Properties.                                                              *)

Quiet == phase = "on" /\ \A t \in Task : at[t] = "idle"

\* What is in memory is usable: a policy this firmware knows, and a holdover
\* within its limits, whatever an older or newer one has left in flash.
TypeOK ==
    /\ DOMAIN settings = DOMAIN Defaults
    /\ settings.apol \in Policies
    /\ settings.ahold \in MinHold..CLK_HOLDOVER_SEC_MAX
    /\ phase \in {"boot", "load", "reset", "on"}
    /\ at \in [ Task -> {"idle", "edit", "save"} ]
    /\ \A w \in Writer : writes[w] # <<>> =>
         IF w \in Task THEN phase = "on" /\ at[w] = "save" ELSE phase \in {"load", "reset"}
    /\ commits \in 0..MaxCommits /\ crashes \in 0..MaxCrashes

\* When nobody is committing, a restart would load what is in memory: what the
\* menu or the web page stored is stored.  Only the time zone may be a preview.
RestartKeepsSettings ==
    Quiet => \A k \in DOMAIN settings \ {"tz"} : Loaded[k] = settings[k]
=============================================================================
