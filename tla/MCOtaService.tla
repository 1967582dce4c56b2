---------------------------- MODULE MCOtaService ----------------------------
(***************************************************************************)
(* OtaService on a small instance.                                          *)
(***************************************************************************)
EXTENDS OtaService

MCUploads == {"good", "dying", "stillborn", "foreign", "short", "corrupt"}
MCOld == {"good", "partial"}
=============================================================================
