--------------------------- MODULE MCSettingsStore ---------------------------
(***************************************************************************)
(* SettingsStore on a small instance, with what was asked of it so far.     *)
(***************************************************************************)
EXTENDS SettingsStore

VARIABLES
    known,    \* the records that were committed or loaded
    durable,  \* of each field, the values a load may find: as loaded last, as stored
    booted    \* the last load, if nothing was committed since, and whether
              \* it has written all it had to

mcvars == <<settings, nvs, phase, copy, at, writes, commits, crashes,
            known, durable, booted>>

MCPresetHold == [ Refuse |-> 0, Hold30 |-> 30, Hold5m |-> 300 ]
MCTimeZones == {8, 9}

Credentials == [ ssid |-> "home", pass |-> "home" ]
MCChangesOf ==
    [ ui  |-> { <<>>, [ apol |-> "Hold5m", ahold |-> 300 ] },
      net |-> { Credentials, [ pass |-> "new" ], [ apol |-> "Hold5m", ahold |-> 60 ], [ ooff |-> 0 ] } ]

MCNet == {"net"}
MCBoth == {"ui", "net"}

Configured ==
    [ ssid |-> "old", pass |-> "old", tz |-> 8, apol |-> "Hold30", ahold |-> 30, ooff |-> 10,
      ver |-> Version, crc |-> <<"old", "old", 8, "Hold30", 30>> ]

MCConfigured == { Configured }

\* Written by this firmware, by an older one with a short holdover, by an older
\* web page, by a newer firmware with a policy of its own.
MCFlashes ==
    { Configured,
      [Configured EXCEPT !.ver = 3, !.ahold = 5],
      [Configured EXCEPT !.ssid = "null", !.pass = "null"],
      [Configured EXCEPT !.apol = "Hold9h", !.ver = 5] }

\* All that the CRC is to protect.
Essential(s) == [ k \in DOMAIN s \ {"ooff"} |-> s[k] ]

NotBooted == [ loaded |-> FALSE, clean |-> FALSE, record |-> Defaults ]

MCInit ==
    /\ Init
    /\ known = { Essential(Defaults), Essential(Loaded) }
    /\ durable = [ k \in DOMAIN Defaults |-> {Loaded[k], Get(k, Loaded[k])} ]
    /\ booted = NotBooted

Loads == phase = "boot" /\ phase' = "load"
Resets == phase = "boot" /\ phase' = "reset"
Starts == phase = "load" /\ phase' = "on"
Crashes == crashes' # crashes
Commits(t) == at[t] = "edit" /\ at'[t] = "save"
Finishes(t) == at[t] = "save" /\ at'[t] = "idle" /\ ~Crashes

MCNext ==
    /\ Next
    /\ known' = IF Loads \/ \E t \in Task : Commits(t) THEN known \cup {Essential(settings')}
                ELSE known
    /\ durable' =
         [ k \in DOMAIN Defaults |->
             IF Loads THEN {settings'[k], Get(k, settings'[k])}
             ELSE IF \E t \in Task : Finishes(t) THEN {settings'[k]}
             ELSE IF \E t \in Task : Commits(t) THEN durable[k] \cup {settings'[k]}
             ELSE IF Resets THEN durable[k] \cup {Defaults[k]}
             ELSE durable[k] ]
    /\ booted' =
         IF Loads THEN [ loaded |-> TRUE, clean |-> FALSE, record |-> settings' ]
         ELSE IF Starts THEN [booted EXCEPT !.clean = TRUE]
         ELSE IF Resets \/ \E t \in Task : Commits(t) THEN NotBooted
         ELSE booted

MCSpec == MCInit /\ [][MCNext]_mcvars

-----------------------------------------------------------------------------

\* A power failure loses no field that was saved and invents none: each is that
\* of the last save, or of the one under way (the holdover of a flash that has
\* none yet is the preset of the policy it has).  And a record whose CRC is
\* accepted was committed, or loaded and used, as it is: a mixture of two of
\* them is noticed, whatever saves were torn.
LoadedWasSaved ==
    [][ Loads =>
          /\ \A k \in DOMAIN Defaults \cap DOMAIN nvs : settings'[k] \in durable[k]
          /\ ~NeedsRewrite /\ Get("crc", NoCrc) # NoCrc => Essential(settings') \in known
      ]_mcvars

\* Loading repairs what it finds, but to the same record each time, wherever
\* the power fails in between; and one complete load is enough, the next one
\* finds nothing to write.
LoadSettles ==
    [][ Loads => /\ booted.loaded => settings' = booted.record
                 /\ booted.clean => ~NeedsRewrite ]_mcvars
=============================================================================
