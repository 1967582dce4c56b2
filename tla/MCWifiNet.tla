----------------------------- MODULE MCWifiNet -----------------------------
(***************************************************************************)
(* WifiNet on a small instance.                                             *)
(***************************************************************************)
EXTENDS WifiNet

\* Immediately, soon, and at most this late.
MCBackoff == <<0, 1, 2>>

MCShortBackoff == <<0, 1>>
=============================================================================
