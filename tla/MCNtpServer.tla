----------------------------- MODULE MCNtpServer -----------------------------
(***************************************************************************)
(* NtpServer on a small instance, with what a client could have written     *)
(* down about its own requests.  Millis is kept odd: starts are odd, steps  *)
(* and lengths even, so that 0, which the slots use for "not set", is left  *)
(* out (it is one millisecond in 49 days).                                  *)
(***************************************************************************)
EXTENDS NtpServer, TLC

VARIABLES
    asked,     \* the requests of the last window that were counted
    answered,  \* those answered with the time, of clients that kept their slot
    past       \* when a client was last seen, in excess and denied, first warned

mcvars == <<now, clients, global, acl, shed, batch, reply, asked, answered, past>>

Never == 0

\* Everybody, or a list with one client on it.
MCLists == {Off} \cup { [ mode |-> "AllowList", ips |-> {ip} ] : ip \in Client }

\* No client is told from another, neither here nor in a property.
MCSymmetry == Permutations(Client)

MCInit ==
    /\ Init
    /\ asked = {}
    /\ answered = {}
    /\ past = [ ip \in Client |->
                  [ seen |-> Never, excess |-> Never, warned |-> Never, denied |-> Never ] ]

\* Requests that reach the slot of their client.
Counted == {"Allow", "Rate", "Deny", "Drop"}

Handled(ip) == reply'.to = ip

Of(log, ip) == { r \in log : r.ip = ip }

Recent(log) == { r \in log : now' - r.at < NTP_RATE_WINDOW_MS }

\* The request that is handled; nr tells those of one instant apart.
Asking(ip) ==
    [ ip |-> ip, at |-> now', nr |-> Cardinality({ r \in Of(asked, ip) : r.at = now' }) ]

Those(kinds) == { Asking(ip) : ip \in { c \in Client : Handled(c) /\ reply'.kind \in kinds } }

\* A request of ip that was counted just now, in excess or not.
Remember(p, kind, excess) ==
    [ seen   |-> now',
      excess |-> IF excess THEN now' ELSE p.excess,
      warned |-> CASE kind = "Deny" -> Never
                   [] kind = "Rate" /\ p.warned = Never -> now'
                   [] OTHER -> p.warned,
      denied |-> IF kind = "Deny" THEN now' ELSE p.denied ]

MCNext ==
    /\ Next
    /\ asked' = Recent(asked) \cup Those(Counted)
    /\ answered' = { r \in Recent(answered) : Held(r.ip)' # {} } \cup Those({"Allow"})
    /\ past' = [ ip \in Client |->
                   IF Handled(ip) /\ reply'.kind \in Counted
                   THEN Remember(past[ip], reply'.kind,
                                 Cardinality(Of(asked', ip)) > NTP_RATE_PER_IP_PER_SEC)
                   ELSE IF Held(ip)' = {} THEN [past[ip] EXCEPT !.denied = Never]
                   ELSE past[ip] ]

MCSpec == MCInit /\ [][MCNext]_mcvars

-----------------------------------------------------------------------------

\* Two full windows may meet, but no interval as long as a window ever sees
\* more answers to a client that keeps its slot, nor more requests of all of
\* them together: the first protects the other clients, the second the handling
\* of the pulse.  Nor does a slot count more than these: windowCount, a uint16_t,
\* does not wrap.  (A client that loses its slot and gets another begins anew.
\* A window that is taken up again after exactly Wrap would go on counting; no
\* exploration is as long.)
RatesBounded ==
    /\ \A ip \in Client : Cardinality(Of(answered, ip)) <= 2 * NTP_RATE_PER_IP_PER_SEC
    /\ Cardinality(asked) <= 2 * NTP_GLOBAL_RATE_PER_SEC
    /\ \A i \in Slot : clients[i].windowCount <= 2 * NTP_GLOBAL_RATE_PER_SEC

\* A client is warned, denied or ignored only within a cooldown of having
\* exceeded its rate, and dropped for the global rate only when that many
\* requests of allowed clients were counted: strangers starve nobody.
RefusalIsDeserved ==
    [][ \A ip \in Client :
          /\ Handled(ip) /\ reply'.kind \in {"Rate", "Deny", "Drop"}
               => now - past'[ip].excess <= NTP_DENY_COOLDOWN_MS
          /\ Handled(ip) /\ reply'.kind = "Flood"
               => Cardinality(asked') >= NTP_GLOBAL_RATE_PER_SEC ]_mcvars

\* A DENY is preceded by a RATE that is at least NTP_RATE_TO_DENY_MS old; after
\* it the client hears nothing, no second kiss and no time, until the cooldown
\* is over or its slot is given to another.
DenyIsWarnedAndSilent ==
    [][ \A ip \in Client : Handled(ip) =>
          /\ reply'.kind = "Deny"
               => past[ip].warned # Never /\ now - past[ip].warned >= NTP_RATE_TO_DENY_MS
          /\ reply'.kind \in {"Allow", "Rate", "Deny"}
               => \/ past[ip].denied = Never
                  \/ now - past[ip].denied >= NTP_DENY_COOLDOWN_MS ]_mcvars

SameRun(s, t) == s \div Wrap = t \div Wrap

\* The table holds the clients seen last: no client outside it was seen after
\* one inside it, but for those before and after a wrap of millis.
TableHoldsLatest ==
    \A in, out \in Client :
        Held(in) # {} /\ Held(out) = {} /\ SameRun(past[in].seen, past[out].seen)
            => past[out].seen <= past[in].seen
=============================================================================
