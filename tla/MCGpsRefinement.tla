--------------------------- MODULE MCGpsRefinement ---------------------------
(***************************************************************************)
(* GpsService on a small instance, as a caller of LocalClock.               *)
(***************************************************************************)
EXTENDS GpsService

MCSettings == { [ policy |-> "Refuse", holdoverSec |-> 0 ],
                [ policy |-> "Hold", holdoverSec |-> 2 ] }
=============================================================================
