------------------------------ MODULE NtpReply ------------------------------
(***************************************************************************)
(* The answer of ntp_server.cpp to an admitted request: what the header and *)
(* the timestamps say, given the local clock.                               *)
(*                                                                          *)
(* Abstracted: the fields echoed from the request (version, poll, the       *)
(* originate timestamp), and the fixed-point formats: timestamps are UTC in *)
(* milliseconds and the root dispersion is milliseconds, not 16.16 seconds. *)
(***************************************************************************)
EXTENDS LocalClockOps

\* The dispersion 0xFFFF0000 of an answer without time.
NoDispersion == NoQuality

\* The answer built from the clock c: recvAt is when the packet was taken up,
\* txAt when the answer leaves.
SendNormal(c, recvAt, txAt, ppsFresh) ==
    LET syncOk == HasNowUtc(c, recvAt)
        recv == IF syncOk THEN NowUtc(c, recvAt) ELSE 0
    IN [ li         |-> IF syncOk THEN 0 ELSE 3,
         stratum    |-> IF syncOk THEN 1 ELSE 16,
         refId      |-> IF syncOk THEN "GPSS" ELSE "INIT",
         precision  |-> IF syncOk /\ ppsFresh THEN -10 ELSE -6,
         dispersion |-> IF syncOk THEN QualityMs(c, txAt) ELSE NoDispersion,
         reference  |-> IF syncOk THEN c.anchorUtcSec * Second ELSE 0,
         receive    |-> recv,
         transmit   |-> IF ~syncOk THEN 0
                        ELSE IF HasNowUtc(c, txAt) THEN NowUtc(c, txAt) ELSE recv ]
=============================================================================
