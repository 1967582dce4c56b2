------------------------------- MODULE Encoder -------------------------------
(***************************************************************************)
(* encoder.cpp: the rotary encoder and its button, from the pins to the     *)
(* steps, clicks and long presses that the menus consume.                   *)
(*                                                                          *)
(* The interrupt runs at every edge of a pin and reads both of them; task-  *)
(* ui takes over what it has counted (EncLoop) and consumes it.  A position *)
(* of the shaft is a number of transitions; Pins gives the levels there.    *)
(*                                                                          *)
(* Abstracted: times are what the code asks of them.  The interrupt may be  *)
(* suppressed by its floor of 250 us, or read the level of before the edge  *)
(* while the contact bounces; the shaft is never more than one transition   *)
(* ahead of the last reading (three in 250 us are not turned by hand).      *)
(*                                                                          *)
(* noInterrupts() keeps the interrupt from the core of task-ui.  With one   *)
(* core (ESP32-C3) the drain is therefore atomic.  With two (ESP32-S3) the  *)
(* interrupt belongs to the other core and may straddle it: at most one,    *)
(* for the drain takes less than the floor.                                 *)
(***************************************************************************)
EXTENDS Integers

CONSTANTS
    ENC_DETENT_STEPS,   \* transitions of one step
    AccumMax,           \* 32000, where both accumulators stop
    OneCore             \* the interrupt runs on the core of task-ui

ASSUME EncoderAssumption ==
    ENC_DETENT_STEPS \in Nat \ {0} /\ AccumMax \in Nat \ {0} /\ OneCore \in BOOLEAN

VARIABLES
    shaft,          \* where the shaft is
    seen,           \* where it was when the interrupt last read the pins
    abState, rotateAccum, filtAccum,
    motion,         \* time since lastMotionMs_: "moving" or "resting"
    emit,           \* time since lastEmitMs_
    pressed,        \* the button's pin
    button,         \* its debounced state, and what has not been consumed
    turned,         \* transitions the shaft has made: right and left
    again,          \* transitions that came back after they had been drained
    emitted         \* steps that have been consumed: right and left

encVars == <<shaft, seen, abState, rotateAccum, filtAccum, motion, emit,
             pressed, button, turned, again, emitted>>

\* A and B, as a two-bit number, at a position.
Pins(p) ==
    LET a == IF p % 4 \in {1, 2} THEN 1 ELSE 0
        b == IF p % 4 \in {2, 3} THEN 1 ELSE 0
    IN 2 * a + b

Abs(n) == IF n < 0 THEN -n ELSE n
PosPart(n) == IF n > 0 THEN n ELSE 0
Clamp(n) == IF n > AccumMax THEN AccumMax ELSE IF n < -AccumMax THEN -AccumMax ELSE n

\* Millis later than the last step: soon, later, or so much later that the
\* signed difference is negative (25 to 50 days).
EmitAges == {"never", "recent", "past", "wrapped"}
HeldFor == {"short", "click", "long"}

EncTypeOK ==
    /\ shaft \in Int /\ seen \in Int
    /\ abState \in 0..3
    /\ rotateAccum \in -AccumMax..AccumMax
    /\ filtAccum \in -AccumMax..AccumMax
    /\ motion \in {"moving", "resting"} /\ emit \in EmitAges
    /\ pressed \in BOOLEAN
    /\ button \in [ down : BOOLEAN, held : HeldFor, click : BOOLEAN, long : BOOLEAN ]
    /\ turned \in [ right : Nat, left : Nat ]
    /\ again \in [ right : Nat, left : Nat ]
    /\ emitted \in [ right : Nat, left : Nat ]

EncInit ==
    /\ shaft = 0 /\ seen = 0 /\ abState = Pins(0)
    /\ rotateAccum = 0 /\ filtAccum = 0
    /\ motion = "resting" /\ emit = "never"
    /\ pressed = FALSE
    /\ button = [ down |-> FALSE, held |-> "short", click |-> FALSE, long |-> FALSE ]
    /\ turned = [ right |-> 0, left |-> 0 ]
    /\ again = [ right |-> 0, left |-> 0 ]
    /\ emitted = [ right |-> 0, left |-> 0 ]

-----------------------------------------------------------------------------
(* The interrupt.                                                           *)

\* kQuadTable
QuadStep(prev, curr) ==
    IF <<prev, curr>> \in {<<0, 2>>, <<2, 3>>, <<3, 1>>, <<1, 0>>} THEN 1
    ELSE IF <<prev, curr>> \in {<<2, 0>>, <<3, 2>>, <<1, 3>>, <<0, 1>>} THEN -1
    ELSE 0

\* Fault: a transition that was missed leaves the old state to compare with.
NextStateKept(curr) == IF QuadStep(abState, curr) = 0 THEN abState ELSE curr

\* The state to compare the next reading with.
NextState(curr) == curr

\* Fault: the counter of the interrupt is not held at its ends.
InterruptUnheld(p) ==
    /\ abState' = NextState(Pins(p))
    /\ rotateAccum' = rotateAccum + QuadStep(abState, Pins(p))
    /\ seen' = p

\* onEncIsr reads the levels of position p.
Interrupt(p) ==
    LET next == rotateAccum + QuadStep(abState, Pins(p))
    IN /\ abState' = NextState(Pins(p))
       /\ rotateAccum' = IF next \in -AccumMax..AccumMax THEN next ELSE rotateAccum
       /\ seen' = p

\* The shaft makes a transition to one side.  The interrupt reads the new
\* levels or those of before, or returns at once, which is no reading.
TurnBy(d) ==
    /\ shaft' = shaft + d
    /\ \E p \in {shaft + d, shaft, seen} : Abs(shaft + d - p) <= 1 /\ Interrupt(p)
    /\ UNCHANGED <<filtAccum, motion, emit, pressed, button, again, emitted>>

TurnRight == TurnBy(1) /\ turned' = [turned EXCEPT !.right = @ + 1]
TurnLeft == TurnBy(-1) /\ turned' = [turned EXCEPT !.left = @ + 1]

\* A bounce after the floor: the levels of a transition missed before.
LateInterrupt ==
    /\ seen # shaft
    /\ Interrupt(shaft)
    /\ UNCHANGED <<shaft, filtAccum, motion, emit, pressed, button, turned, again,
                   emitted>>

-----------------------------------------------------------------------------
(* task-ui.                                                                 *)

\* What drainRawToFilter does with what it has drained.
Filter ==
    IF rotateAccum # 0
    THEN /\ filtAccum' = Clamp(filtAccum + rotateAccum)
         /\ motion' = "moving"
    ELSE /\ filtAccum' = IF motion = "resting" /\ Abs(filtAccum) < ENC_DETENT_STEPS
                         THEN 0 ELSE filtAccum
         /\ UNCHANGED motion

\* No interrupt while the counter is read and cleared.
DrainRawToFilter == rotateAccum' = 0 /\ Filter

\* An interrupt has read the counter before it is cleared: what it writes is
\* cleared, or it writes after that and all it has read counts again.
StraddledDrain(p) ==
    LET next == rotateAccum + QuadStep(abState, Pins(p))
    IN /\ next # rotateAccum /\ next \in -AccumMax..AccumMax
       /\ abState' = NextState(Pins(p)) /\ seen' = p
       /\ \/ rotateAccum' = 0 /\ UNCHANGED again
          \/ /\ rotateAccum' = next
             /\ again' = [ right |-> again.right + PosPart(rotateAccum),
                           left |-> again.left + PosPart(-rotateAccum) ]
       /\ Filter

\* sampleButton.  A long press is pending from its 800th millisecond on, again
\* after it was consumed, and once more when the button is let go.
SampleButton ==
    button' =
        IF pressed /\ ~button.down THEN [button EXCEPT !.down = TRUE, !.held = "short"]
        ELSE [button EXCEPT !.down = pressed,
                            !.long = @ \/ (button.down /\ button.held = "long"),
                            !.click = @ \/ (button.down /\ ~pressed /\ button.held = "click")]

EncLoop ==
    /\ SampleButton
    /\ DrainRawToFilter
    /\ UNCHANGED <<shaft, seen, abState, emit, pressed, turned, again, emitted>>

\* The same while the interrupt handles a transition (or, at 0, a bounce).
StraddledLoop(d) ==
    /\ ~OneCore
    /\ SampleButton
    /\ shaft' = shaft + d
    /\ \E p \in {shaft + d, shaft} : Abs(shaft + d - p) <= 1 /\ StraddledDrain(p)
    /\ turned' = [ right |-> turned.right + PosPart(d), left |-> turned.left + PosPart(-d) ]
    /\ UNCHANGED <<emit, pressed, emitted>>

FastSpin == Abs(filtAccum) >= 2 * ENC_DETENT_STEPS

\* A step is due, unless the last one is too recent.
StepsNow == Abs(filtAccum) >= ENC_DETENT_STEPS /\ (FastSpin \/ emit \in {"never", "past"})

\* What consumeRotate, consumeClick and consumeLongPress return.
Rotate == IF ~StepsNow THEN 0 ELSE IF filtAccum >= ENC_DETENT_STEPS THEN 1 ELSE -1
Click == button.click
LongPress == button.long
AnyInput == Rotate # 0 \/ Click \/ LongPress

\* What one step leaves; less than a step is dropped unless the spin is fast.
Remainder(rest) == IF ~FastSpin /\ Abs(rest) < ENC_DETENT_STEPS THEN 0 ELSE rest

\* The three calls of DisplayUi::loop.
Consume ==
    /\ filtAccum' = IF Rotate = 0 THEN filtAccum
                    ELSE IF Rotate = 1 THEN Remainder(filtAccum - ENC_DETENT_STEPS)
                    ELSE Remainder(filtAccum + ENC_DETENT_STEPS)
    /\ emit' = IF Rotate # 0 THEN "recent" ELSE emit
    /\ emitted' = [ right |-> emitted.right + (IF Rotate = 1 THEN 1 ELSE 0),
                    left |-> emitted.left + (IF Rotate = -1 THEN 1 ELSE 0) ]
    /\ button' = [button EXCEPT !.click = FALSE, !.long = FALSE]
    /\ UNCHANGED <<shaft, seen, abState, rotateAccum, motion, pressed, turned, again>>

-----------------------------------------------------------------------------
(* The user's finger, and time.                                             *)

PressButton ==
    /\ ~pressed /\ pressed' = TRUE
    /\ UNCHANGED <<shaft, seen, abState, rotateAccum, filtAccum, motion, emit, button,
                   turned, again, emitted>>

ReleaseButton ==
    /\ pressed /\ pressed' = FALSE
    /\ UNCHANGED <<shaft, seen, abState, rotateAccum, filtAccum, motion, emit, button,
                   turned, again, emitted>>

\* ENC_IDLE_CLEAR_MS after the last motion.
ComeToRest ==
    /\ motion = "moving" /\ motion' = "resting"
    /\ UNCHANGED <<emit, button>>

\* ENC_MIN_STEP_MS after the last step, and half the range of millis later.
AgeOfEmit ==
    /\ \/ emit \in {"recent", "wrapped"} /\ emit' = "past"
       \/ emit = "past" /\ emit' = "wrapped"
    /\ UNCHANGED <<motion, button>>

\* 30 ms and 800 ms after the press.
HoldButton ==
    /\ button.down
    /\ \/ button.held = "short" /\ button' = [button EXCEPT !.held = "click"]
       \/ button.held = "click" /\ button' = [button EXCEPT !.held = "long"]
    /\ UNCHANGED <<motion, emit>>

EncTime ==
    /\ ComeToRest \/ AgeOfEmit \/ HoldButton
    /\ UNCHANGED <<shaft, seen, abState, rotateAccum, filtAccum, pressed, turned, again,
                   emitted>>

EncNext ==
    \/ TurnRight \/ TurnLeft \/ LateInterrupt
    \/ EncLoop \/ (\E d \in {1, -1, 0} : StraddledLoop(d)) \/ Consume
    \/ PressButton \/ ReleaseButton \/ EncTime

EncSpec == EncInit /\ [][EncNext]_encVars

-----------------------------------------------------------------------------

\* Every step the menus see was turned: no bounce, missed transition, overflow
\* or left-over remainder makes one step more than the shaft has made detents to
\* that side, and none to the other.  So on one core.
StepsAreEarned ==
    /\ ENC_DETENT_STEPS * emitted.right <= turned.right
    /\ ENC_DETENT_STEPS * emitted.left <= turned.left

\* On any number of cores: a step too many is made of transitions to that side
\* that came back after a drain, and none is seen to a side never turned to.
StepsAreTraced ==
    /\ ENC_DETENT_STEPS * emitted.right <= turned.right + again.right
    /\ ENC_DETENT_STEPS * emitted.left <= turned.left + again.left
    /\ turned.right = 0 => emitted.right = 0
    /\ turned.left = 0 => emitted.left = 0
=============================================================================
