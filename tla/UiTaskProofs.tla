---------------------------- MODULE UiTaskProofs ----------------------------
(***************************************************************************)
(* Machine-checked, for every number of transitions per step, every limit   *)
(* of the accumulators and every motion of the shaft: the steps the menus   *)
(* see have been turned, in Encoder and in the whole of task-ui, which      *)
(* implements it; what a click on the page of networks would choose is in   *)
(* the list; and a restart for a stuck task is deserved.                    *)
(*                                                                          *)
(* What a side has been given as steps is not enough for an induction.      *)
(* Budget adds what is still under way to the same side: in the filter, in  *)
(* the counter of the interrupt, and between the shaft and the last         *)
(* reading.  Every action moves transitions along that chain or drops them. *)
(***************************************************************************)
EXTENDS MCUiTask, TLAPS

InSync == abState = Pins(seen) /\ Abs(shaft - seen) <= 1

Budget ==
    /\ ENC_DETENT_STEPS * emitted.right + PosPart(filtAccum) + PosPart(rotateAccum)
         + PosPart(shaft - seen) <= turned.right + again.right
    /\ ENC_DETENT_STEPS * emitted.left + PosPart(-filtAccum) + PosPart(-rotateAccum)
         + PosPart(seen - shaft) <= turned.left + again.left

\* What may come back was turned to that side.
Sides ==
    /\ PosPart(rotateAccum) + PosPart(shaft - seen) <= turned.right
    /\ PosPart(-rotateAccum) + PosPart(seen - shaft) <= turned.left
    /\ turned.right = 0 => again.right = 0
    /\ turned.left = 0 => again.left = 0

\* On one core nothing comes back.
Alone == OneCore => again.right = 0 /\ again.left = 0

EncInductive == EncTypeOK /\ InSync /\ Budget /\ Sides /\ Alone

-----------------------------------------------------------------------------
(* The interrupt.                                                           *)

LEMMA PinsType == ASSUME NEW p \in Int PROVE Pins(p) \in 0..3
BY DEF Pins

\* Two readings at most two transitions apart: one is counted with its sign,
\* none and two (either way round) are not counted.
LEMMA StepCounts ==
    ASSUME NEW p \in Int, NEW q \in Int, q - p \in -2..2
    PROVE  QuadStep(Pins(p), Pins(q)) = IF q - p \in {-1, 1} THEN q - p ELSE 0
<1>1. /\ QuadStep(0, 0) = 0 /\ QuadStep(0, 2) = 1 /\ QuadStep(0, 3) = 0 /\ QuadStep(0, 1) = -1
      /\ QuadStep(2, 0) = -1 /\ QuadStep(2, 2) = 0 /\ QuadStep(2, 3) = 1 /\ QuadStep(2, 1) = 0
      /\ QuadStep(3, 0) = 0 /\ QuadStep(3, 2) = -1 /\ QuadStep(3, 3) = 0 /\ QuadStep(3, 1) = 1
      /\ QuadStep(1, 0) = 1 /\ QuadStep(1, 2) = 0 /\ QuadStep(1, 3) = -1 /\ QuadStep(1, 1) = 0
  BY DEF QuadStep
<1>2. PICK r \in 0..3 : p % 4 = r
  OBVIOUS
<1>3. q % 4 = (r + (q - p)) % 4
  BY <1>2
<1> QED BY <1>1, <1>2, <1>3 DEF Pins

\* An interrupt turns distance into count, on either side, or loses it.
LEMMA InterruptOK ==
    ASSUME EncTypeOK, InSync, NEW p \in Int, p - seen \in -2..2, Interrupt(p)
    PROVE  /\ abState' = Pins(p) /\ abState' \in 0..3 /\ seen' = p
           /\ rotateAccum' \in -AccumMax..AccumMax
           /\ PosPart(rotateAccum') <= PosPart(rotateAccum) + (IF p - seen = 1 THEN 1 ELSE 0)
           /\ PosPart(-rotateAccum') <= PosPart(-rotateAccum) + (IF p - seen = -1 THEN 1 ELSE 0)
<1> USE EncoderAssumption
<1> DEFINE step == QuadStep(abState, Pins(p))
           next == rotateAccum + step
<1>1. step = IF p - seen \in {-1, 1} THEN p - seen ELSE 0
  BY StepCounts DEF InSync, EncTypeOK
<1>2. /\ abState' = Pins(p) /\ seen' = p
      /\ rotateAccum' = IF next \in -AccumMax..AccumMax THEN next ELSE rotateAccum
  BY DEF Interrupt, NextState
<1>3. abState' \in 0..3
  BY <1>2, PinsType
<1> HIDE DEF step
<1>4. rotateAccum \in -AccumMax..AccumMax /\ seen \in Int
  BY DEF EncTypeOK
<1> QED BY <1>1, <1>2, <1>3, <1>4 DEF PosPart

-----------------------------------------------------------------------------
(* The steps.                                                               *)

LEMMA PosPartNat == ASSUME NEW n \in Int PROVE PosPart(n) \in Nat
BY DEF PosPart

LEMMA InitOK == EncInit => EncInductive
<1> SUFFICES ASSUME EncInit PROVE EncInductive
  OBVIOUS
<1> USE EncoderAssumption
<1>1. EncTypeOK
  <2>1. /\ shaft \in Int /\ seen \in Int /\ abState \in 0..3
        /\ rotateAccum \in -AccumMax..AccumMax /\ filtAccum \in -AccumMax..AccumMax
    BY PinsType DEF EncInit
  <2>2. /\ turned \in [ right : Nat, left : Nat ] /\ again \in [ right : Nat, left : Nat ]
        /\ emitted \in [ right : Nat, left : Nat ]
    BY DEF EncInit
  <2>3. /\ motion \in {"moving", "resting"} /\ emit \in EmitAges /\ pressed \in BOOLEAN
        /\ button \in [ down : BOOLEAN, held : HeldFor, click : BOOLEAN, long : BOOLEAN ]
    BY DEF EncInit, EmitAges, HeldFor
  <2> QED BY <2>1, <2>2, <2>3 DEF EncTypeOK
<1>2. InSync
  <2>1. shaft = 0 /\ seen = 0 /\ abState = Pins(0)
    BY DEF EncInit
  <2>2. Abs(shaft - seen) <= 1
    BY <2>1 DEF Abs
  <2> QED BY <2>1, <2>2 DEF InSync
<1>3. Budget /\ Sides /\ Alone
  <2>1. /\ PosPart(filtAccum) = 0 /\ PosPart(-filtAccum) = 0
        /\ PosPart(rotateAccum) = 0 /\ PosPart(-rotateAccum) = 0
        /\ PosPart(shaft - seen) = 0 /\ PosPart(seen - shaft) = 0
    BY DEF EncInit, PosPart
  <2>2. /\ emitted.right = 0 /\ emitted.left = 0 /\ turned.right = 0 /\ turned.left = 0
        /\ again.right = 0 /\ again.left = 0
    BY DEF EncInit
  <2> QED BY <2>1, <2>2 DEF Budget, Sides, Alone
<1> QED BY <1>1, <1>2, <1>3 DEF EncInductive

\* A turn adds one transition to what its side has been given; a reading at
\* once, of the new or of the old levels, or none, hands on no more than that.
LEMMA TurnOK ==
    ASSUME EncInductive, TurnRight \/ TurnLeft
    PROVE  EncInductive'
<1> USE EncoderAssumption
<1>1. PICK d \in {1, -1} :
        /\ TurnBy(d)
        /\ turned' = IF d = 1 THEN [turned EXCEPT !.right = @ + 1]
                               ELSE [turned EXCEPT !.left = @ + 1]
  BY DEF TurnRight, TurnLeft
<1>2. PICK p \in {shaft + d, shaft, seen} : Abs(shaft + d - p) <= 1 /\ Interrupt(p)
  BY <1>1 DEF TurnBy
<1>3. /\ shaft \in Int /\ seen \in Int /\ p \in Int /\ shaft' = shaft + d
      /\ p - seen \in -2..2 /\ shaft - seen \in -1..1
  <2>1. shaft \in Int /\ seen \in Int /\ shaft' = shaft + d
    BY <1>1 DEF TurnBy, EncInductive, EncTypeOK
  <2>2. Abs(shaft - seen) <= 1
    BY DEF EncInductive, InSync
  <2> QED BY <1>2, <2>1, <2>2 DEF Abs
<1>4. /\ abState' = Pins(p) /\ abState' \in 0..3 /\ seen' = p
      /\ rotateAccum' \in -AccumMax..AccumMax
      /\ PosPart(rotateAccum') <= PosPart(rotateAccum) + (IF p - seen = 1 THEN 1 ELSE 0)
      /\ PosPart(-rotateAccum') <= PosPart(-rotateAccum) + (IF p - seen = -1 THEN 1 ELSE 0)
  BY <1>2, <1>3, InterruptOK DEF EncInductive
<1>5. /\ turned' \in [ right : Nat, left : Nat ]
      /\ turned'.right = turned.right + (IF d = 1 THEN 1 ELSE 0)
      /\ turned'.left = turned.left + (IF d = -1 THEN 1 ELSE 0)
  BY <1>1 DEF EncInductive, EncTypeOK
<1>6. UNCHANGED <<filtAccum, motion, emit, pressed, button, again, emitted>>
  BY <1>1 DEF TurnBy
<1>7. EncTypeOK'
  BY <1>3, <1>4, <1>5, <1>6 DEF EncInductive, EncTypeOK
<1>8. InSync'
  BY <1>2, <1>3, <1>4 DEF InSync, Abs
<1>9. /\ PosPart(shaft' - seen') + (IF p - seen = 1 THEN 1 ELSE 0)
           <= PosPart(shaft - seen) + (IF d = 1 THEN 1 ELSE 0)
      /\ PosPart(seen' - shaft') + (IF p - seen = -1 THEN 1 ELSE 0)
           <= PosPart(seen - shaft) + (IF d = -1 THEN 1 ELSE 0)
  BY <1>2, <1>3, <1>4 DEF PosPart
<1>10. Budget'
  <2> DEFINE r == ENC_DETENT_STEPS * emitted.right
             l == ENC_DETENT_STEPS * emitted.left
  <2>1. r \in Int /\ l \in Int
    BY DEF EncInductive, EncTypeOK
  <2>2. /\ ENC_DETENT_STEPS * emitted'.right = r /\ ENC_DETENT_STEPS * emitted'.left = l
        /\ filtAccum' = filtAccum
    BY <1>6
  <2>3. /\ r + PosPart(filtAccum) + PosPart(rotateAccum) + PosPart(shaft - seen) <= turned.right + again.right
        /\ l + PosPart(-filtAccum) + PosPart(-rotateAccum) + PosPart(seen - shaft) <= turned.left + again.left
    BY DEF EncInductive, Budget
  <2>4. /\ turned.right \in Nat /\ turned.left \in Nat /\ again.right \in Nat /\ again.left \in Nat
        /\ turned'.right \in Nat /\ turned'.left \in Nat
        /\ filtAccum \in Int /\ rotateAccum \in Int /\ rotateAccum' \in Int
        /\ shaft' \in Int /\ seen' \in Int
    BY <1>3, <1>4, <1>5 DEF EncInductive, EncTypeOK
  <2> HIDE DEF r, l
  <2>5. /\ PosPart(rotateAccum) \in Int /\ PosPart(-rotateAccum) \in Int
        /\ PosPart(rotateAccum') \in Int /\ PosPart(-rotateAccum') \in Int
        /\ PosPart(shaft - seen) \in Int /\ PosPart(seen - shaft) \in Int
        /\ PosPart(shaft' - seen') \in Int /\ PosPart(seen' - shaft') \in Int
        /\ PosPart(filtAccum) \in Int /\ PosPart(-filtAccum) \in Int
    <3>1. /\ -rotateAccum \in Int /\ -(rotateAccum') \in Int /\ -filtAccum \in Int
          /\ shaft - seen \in Int /\ seen - shaft \in Int
          /\ shaft' - seen' \in Int /\ seen' - shaft' \in Int
      BY <1>3, <2>4
    <3> QED BY <2>4, <3>1, PosPartNat
  <2>6. /\ r + PosPart(filtAccum) + PosPart(rotateAccum') + PosPart(shaft' - seen') <= turned'.right + again'.right
        /\ l + PosPart(-filtAccum) + PosPart(-rotateAccum') + PosPart(seen' - shaft') <= turned'.left + again'.left
    BY <1>4, <1>5, <1>6, <1>9, <2>1, <2>3, <2>4, <2>5
  <2> QED BY <2>2, <2>6 DEF Budget
<1>11. Sides' /\ Alone'
  <2>1. /\ PosPart(rotateAccum) + PosPart(shaft - seen) <= turned.right
        /\ PosPart(-rotateAccum) + PosPart(seen - shaft) <= turned.left
        /\ turned.right = 0 => again.right = 0
        /\ turned.left = 0 => again.left = 0
    BY DEF EncInductive, Sides
  <2>2. turned.right \in Nat /\ turned.left \in Nat /\ rotateAccum \in Int /\ rotateAccum' \in Int
    BY <1>4 DEF EncInductive, EncTypeOK
  <2>3. /\ PosPart(rotateAccum) \in Int /\ PosPart(-rotateAccum) \in Int
        /\ PosPart(rotateAccum') \in Int /\ PosPart(-rotateAccum') \in Int
        /\ PosPart(shaft - seen) \in Int /\ PosPart(seen - shaft) \in Int
        /\ PosPart(shaft' - seen') \in Int /\ PosPart(seen' - shaft') \in Int
    <3>1. /\ -rotateAccum \in Int /\ -(rotateAccum') \in Int
          /\ shaft - seen \in Int /\ seen - shaft \in Int
          /\ shaft' - seen' \in Int /\ seen' - shaft' \in Int
      BY <1>3, <1>4, <2>2
    <3> QED BY <2>2, <3>1, PosPartNat
  <2>4. /\ PosPart(rotateAccum') + PosPart(shaft' - seen') <= turned'.right
        /\ PosPart(-rotateAccum') + PosPart(seen' - shaft') <= turned'.left
    BY <1>4, <1>5, <1>9, <2>1, <2>2, <2>3
  <2>5. /\ turned'.right = 0 => again'.right = 0
        /\ turned'.left = 0 => again'.left = 0
    BY <1>5, <1>6, <2>1, <2>2
  <2> QED BY <1>6, <2>4, <2>5 DEF EncInductive, Sides, Alone
<1> QED BY <1>7, <1>8, <1>10, <1>11 DEF EncInductive

\* A late reading brings the counter up to the shaft.
LEMMA LateInterruptOK ==
    ASSUME EncInductive, LateInterrupt
    PROVE  EncInductive'
<1> USE EncoderAssumption
<1>1. /\ shaft \in Int /\ seen \in Int /\ shaft - seen \in -1..1
  BY DEF EncInductive, EncTypeOK, InSync, Abs
<1>2. /\ abState' = Pins(shaft) /\ abState' \in 0..3 /\ seen' = shaft
      /\ rotateAccum' \in -AccumMax..AccumMax
      /\ PosPart(rotateAccum') <= PosPart(rotateAccum) + (IF shaft - seen = 1 THEN 1 ELSE 0)
      /\ PosPart(-rotateAccum') <= PosPart(-rotateAccum) + (IF shaft - seen = -1 THEN 1 ELSE 0)
  BY <1>1, InterruptOK DEF LateInterrupt, EncInductive
<1>3. UNCHANGED <<shaft, filtAccum, motion, emit, pressed, button, turned, again, emitted>>
  BY DEF LateInterrupt
<1>4. EncTypeOK'
  BY <1>1, <1>2, <1>3 DEF EncInductive, EncTypeOK
<1>5. InSync'
  BY <1>1, <1>2, <1>3 DEF InSync, Abs
<1>6. Budget'
  <2> DEFINE r == ENC_DETENT_STEPS * emitted.right
             l == ENC_DETENT_STEPS * emitted.left
  <2>1. r \in Int /\ l \in Int
    BY DEF EncInductive, EncTypeOK
  <2>2. ENC_DETENT_STEPS * emitted'.right = r /\ ENC_DETENT_STEPS * emitted'.left = l
    BY <1>3
  <2>3. /\ r + PosPart(filtAccum) + PosPart(rotateAccum) + PosPart(shaft - seen) <= turned.right + again.right
        /\ l + PosPart(-filtAccum) + PosPart(-rotateAccum) + PosPart(seen - shaft) <= turned.left + again.left
    BY DEF EncInductive, Budget
  <2>4. turned.right \in Nat /\ turned.left \in Nat /\ again.right \in Nat /\ again.left \in Nat /\ filtAccum \in Int /\ rotateAccum \in Int
        /\ rotateAccum' \in Int
    BY <1>2 DEF EncInductive, EncTypeOK
  <2> HIDE DEF r, l
  <2>5. /\ PosPart(shaft' - seen') = 0 /\ PosPart(seen' - shaft') = 0
        /\ PosPart(shaft - seen) = IF shaft - seen = 1 THEN 1 ELSE 0
        /\ PosPart(seen - shaft) = IF shaft - seen = -1 THEN 1 ELSE 0
    BY <1>1, <1>2, <1>3 DEF PosPart
  <2>6. /\ PosPart(rotateAccum) \in Int /\ PosPart(-rotateAccum) \in Int
        /\ PosPart(rotateAccum') \in Int /\ PosPart(-(rotateAccum')) \in Int
        /\ PosPart(filtAccum) \in Int /\ PosPart(-filtAccum) \in Int
    <3>1. -rotateAccum \in Int /\ -(rotateAccum') \in Int /\ -filtAccum \in Int
      BY <2>4
    <3> QED BY <2>4, <3>1, PosPartNat
  <2>7. /\ r + PosPart(filtAccum) + PosPart(rotateAccum') <= turned.right + again.right
        /\ l + PosPart(-filtAccum) + PosPart(-rotateAccum') <= turned.left + again.left
    BY <1>2, <2>1, <2>3, <2>4, <2>5, <2>6
  <2>8. filtAccum' = filtAccum /\ turned' = turned /\ again' = again
    BY <1>3
  <2> QED BY <2>1, <2>2, <2>4, <2>5, <2>6, <2>7, <2>8 DEF Budget
<1>7. Sides' /\ Alone'
  <2>1. /\ PosPart(rotateAccum) + PosPart(shaft - seen) <= turned.right
        /\ PosPart(-rotateAccum) + PosPart(seen - shaft) <= turned.left
    BY DEF EncInductive, Sides
  <2>2. /\ turned.right \in Nat /\ turned.left \in Nat /\ rotateAccum \in Int /\ -rotateAccum \in Int
        /\ rotateAccum' \in Int /\ -(rotateAccum') \in Int
    BY <1>2 DEF EncInductive, EncTypeOK
  <2>3. /\ PosPart(rotateAccum) \in Int /\ PosPart(-rotateAccum) \in Int
        /\ PosPart(rotateAccum') \in Int /\ PosPart(-(rotateAccum')) \in Int
    BY <2>2, PosPartNat
  <2>4. /\ PosPart(shaft' - seen') = 0 /\ PosPart(seen' - shaft') = 0
        /\ PosPart(shaft - seen) = IF shaft - seen = 1 THEN 1 ELSE 0
        /\ PosPart(seen - shaft) = IF shaft - seen = -1 THEN 1 ELSE 0
    BY <1>1, <1>2, <1>3 DEF PosPart
  <2>5. /\ PosPart(rotateAccum') + PosPart(shaft' - seen') <= turned.right
        /\ PosPart(-rotateAccum') + PosPart(seen' - shaft') <= turned.left
    BY <1>2, <2>1, <2>2, <2>3, <2>4
  <2> QED BY <1>3, <2>5 DEF EncInductive, Sides, Alone
<1> QED BY <1>4, <1>5, <1>6, <1>7 DEF EncInductive

-----------------------------------------------------------------------------
(* task-ui.                                                                 *)

\* What was drained moves into the filter, up to its limit.
LEMMA FilterOK ==
    ASSUME EncTypeOK, Filter
    PROVE  /\ filtAccum' \in -AccumMax..AccumMax /\ motion' \in {"moving", "resting"}
           /\ PosPart(filtAccum') <= PosPart(filtAccum) + PosPart(rotateAccum)
           /\ PosPart(-filtAccum') <= PosPart(-filtAccum) + PosPart(-rotateAccum)
BY EncoderAssumption DEF Filter, Clamp, Abs, PosPart, EncTypeOK

LEMMA SampleButtonOK ==
    ASSUME EncTypeOK, SampleButton
    PROVE  button' \in [ down : BOOLEAN, held : HeldFor, click : BOOLEAN, long : BOOLEAN ]
BY DEF SampleButton, HeldFor, EncTypeOK

\* What the interrupt has counted is drained.
LEMMA EncLoopOK ==
    ASSUME EncInductive, EncLoop
    PROVE  EncInductive'
<1> USE EncoderAssumption
<1>1. /\ rotateAccum \in -AccumMax..AccumMax /\ filtAccum \in -AccumMax..AccumMax
  BY DEF EncInductive, EncTypeOK
<1>2. /\ rotateAccum' = 0 /\ filtAccum' \in -AccumMax..AccumMax
      /\ motion' \in {"moving", "resting"}
      /\ PosPart(filtAccum') <= PosPart(filtAccum) + PosPart(rotateAccum)
      /\ PosPart(-filtAccum') <= PosPart(-filtAccum) + PosPart(-rotateAccum)
  BY FilterOK DEF EncLoop, DrainRawToFilter, EncInductive
<1>3. button' \in [ down : BOOLEAN, held : HeldFor, click : BOOLEAN, long : BOOLEAN ]
  BY SampleButtonOK DEF EncLoop, EncInductive
<1>4. UNCHANGED <<shaft, seen, abState, emit, pressed, turned, again, emitted>>
  BY DEF EncLoop
<1>5. EncTypeOK'
  BY <1>2, <1>3, <1>4 DEF EncInductive, EncTypeOK
<1>6. InSync'
  BY <1>4 DEF EncInductive, InSync, Pins, Abs
<1>7. Budget'
  <2> DEFINE r == ENC_DETENT_STEPS * emitted.right
             l == ENC_DETENT_STEPS * emitted.left
             p == PosPart(shaft - seen)
             q == PosPart(seen - shaft)
  <2>1. /\ r \in Int /\ l \in Int /\ p \in Int /\ q \in Int
        /\ turned.right \in Nat /\ turned.left \in Nat /\ again.right \in Nat /\ again.left \in Nat
    BY PosPartNat DEF EncInductive, EncTypeOK
  <2>2. /\ r + PosPart(filtAccum) + PosPart(rotateAccum) + p <= turned.right + again.right
        /\ l + PosPart(-filtAccum) + PosPart(-rotateAccum) + q <= turned.left + again.left
    BY DEF EncInductive, Budget
  <2>3. r' = r /\ l' = l /\ p' = p /\ q' = q /\ turned' = turned /\ again' = again
    BY <1>4
  <2> HIDE DEF r, l, p, q
  <2>4. PosPart(rotateAccum') = 0 /\ PosPart(-rotateAccum') = 0
    BY <1>2 DEF PosPart
  <2>5. /\ PosPart(filtAccum) \in Int /\ PosPart(-filtAccum) \in Int
        /\ PosPart(rotateAccum) \in Int /\ PosPart(-rotateAccum) \in Int
        /\ PosPart(filtAccum') \in Int /\ PosPart(-(filtAccum')) \in Int
    <3>1. /\ filtAccum \in Int /\ -filtAccum \in Int /\ rotateAccum \in Int
          /\ -rotateAccum \in Int /\ filtAccum' \in Int /\ -(filtAccum') \in Int
      BY <1>1, <1>2
    <3> QED BY <3>1, PosPartNat
  <2>6. /\ r' + PosPart(filtAccum') + PosPart(rotateAccum') + p' <= turned'.right + again'.right
        /\ l' + PosPart(-filtAccum') + PosPart(-rotateAccum') + q' <= turned'.left + again'.left
    BY <1>2, <2>1, <2>2, <2>3, <2>4, <2>5
  <2> QED BY <2>6 DEF Budget, r, l, p, q
<1>8. Sides' /\ Alone'
  <2>1. /\ PosPart(rotateAccum) + PosPart(shaft - seen) <= turned.right
        /\ PosPart(-rotateAccum) + PosPart(seen - shaft) <= turned.left
    BY DEF EncInductive, Sides
  <2>2. /\ turned.right \in Nat /\ turned.left \in Nat
        /\ rotateAccum \in Int /\ -rotateAccum \in Int
        /\ shaft - seen \in Int /\ seen - shaft \in Int
    BY DEF EncInductive, EncTypeOK
  <2>3. /\ PosPart(rotateAccum) \in Nat /\ PosPart(-rotateAccum) \in Nat
        /\ PosPart(shaft - seen) \in Nat /\ PosPart(seen - shaft) \in Nat
    BY <2>2, PosPartNat
  <2>4. PosPart(rotateAccum') = 0 /\ PosPart(-rotateAccum') = 0
    BY <1>2 DEF PosPart
  <2>5. /\ PosPart(rotateAccum') + PosPart(shaft - seen) <= turned.right
        /\ PosPart(-rotateAccum') + PosPart(seen - shaft) <= turned.left
    BY <2>1, <2>2, <2>3, <2>4
  <2> QED BY <1>4, <2>5 DEF EncInductive, Sides, Alone
<1> QED BY <1>5, <1>6, <1>7, <1>8 DEF EncInductive

\* An interrupt of the other core straddles the drain: what comes back is added
\* to what the side may have been given, and was turned to that side.
LEMMA StraddledOK ==
    ASSUME EncInductive, NEW d \in {1, -1, 0}, StraddledLoop(d)
    PROVE  EncInductive'
<1> USE EncoderAssumption
<1> DEFINE back == rotateAccum' # 0
           ra == PosPart(rotateAccum)
           la == PosPart(-rotateAccum)
<1>1. PICK p \in {shaft + d, shaft} : Abs(shaft + d - p) <= 1 /\ StraddledDrain(p)
  BY DEF StraddledLoop
<1> DEFINE step == QuadStep(abState, Pins(p))
           next == rotateAccum + step
<1>2. /\ shaft' = shaft + d /\ ~OneCore
      /\ turned' = [ right |-> turned.right + PosPart(d), left |-> turned.left + PosPart(-d) ]
      /\ UNCHANGED <<emit, pressed, emitted>>
  BY DEF StraddledLoop
<1>3. /\ shaft \in Int /\ seen \in Int /\ p \in Int /\ shaft - seen \in -1..1
      /\ p - seen \in -2..2 /\ rotateAccum \in -AccumMax..AccumMax
      /\ filtAccum \in -AccumMax..AccumMax
      /\ turned \in [ right : Nat, left : Nat ] /\ again \in [ right : Nat, left : Nat ]
      /\ emitted \in [ right : Nat, left : Nat ]
  BY DEF EncInductive, EncTypeOK, InSync, Abs
<1>4. step = IF p - seen \in {-1, 1} THEN p - seen ELSE 0
  BY <1>3, StepCounts DEF EncInductive, InSync
<1>5. /\ abState' = Pins(p) /\ seen' = p /\ next # rotateAccum /\ next \in -AccumMax..AccumMax
      /\ \/ rotateAccum' = 0 /\ again' = again
         \/ /\ rotateAccum' = next
            /\ again' = [ right |-> again.right + ra, left |-> again.left + la ]
  BY <1>1 DEF StraddledDrain, NextState
<1>6. /\ filtAccum' \in -AccumMax..AccumMax /\ motion' \in {"moving", "resting"}
      /\ PosPart(filtAccum') <= PosPart(filtAccum) + ra
      /\ PosPart(-filtAccum') <= PosPart(-filtAccum) + la
  BY <1>1, FilterOK DEF StraddledDrain, EncInductive
<1>7. button' \in [ down : BOOLEAN, held : HeldFor, click : BOOLEAN, long : BOOLEAN ]
  BY SampleButtonOK DEF StraddledLoop, EncInductive
<1>8. abState' \in 0..3
  BY <1>3, <1>5, PinsType
<1> HIDE DEF step
<1>9. step \in {1, -1} /\ step = p - seen
  BY <1>3, <1>4, <1>5
<1>10. /\ PosPart(d) \in Nat /\ PosPart(-d) \in Nat
       /\ (d = 1 => PosPart(d) = 1 /\ PosPart(-d) = 0)
       /\ (d = -1 => PosPart(d) = 0 /\ PosPart(-d) = 1)
       /\ (d = 0 => PosPart(d) = 0 /\ PosPart(-d) = 0)
  BY DEF PosPart
<1>11. ra \in Nat /\ la \in Nat
  BY <1>3, PosPartNat
<1>12. /\ rotateAccum' \in -AccumMax..AccumMax
       /\ again' \in [ right : Nat, left : Nat ] /\ turned' \in [ right : Nat, left : Nat ]
  BY <1>2, <1>3, <1>5, <1>10, <1>11
<1>13. EncTypeOK'
  BY <1>2, <1>3, <1>5, <1>6, <1>7, <1>8, <1>12 DEF EncInductive, EncTypeOK
<1>14. InSync'
  BY <1>1, <1>2, <1>3, <1>5 DEF InSync, Abs
<1> DEFINE a == IF step = 1 THEN 1 ELSE 0
           c == IF step = -1 THEN 1 ELSE 0
           f == PosPart(shaft - seen)
           g == PosPart(seen - shaft)
           y == PosPart(shaft' - seen')
           z == PosPart(seen' - shaft')
           ya == PosPart(rotateAccum')
           za == PosPart(-(rotateAccum'))
<1>15. /\ f \in Nat /\ g \in Nat /\ y \in Nat /\ z \in Nat /\ ya \in Nat /\ za \in Nat
  <2>1. /\ shaft - seen \in Int /\ seen - shaft \in Int
        /\ shaft' - seen' \in Int /\ seen' - shaft' \in Int
        /\ rotateAccum' \in Int /\ -(rotateAccum') \in Int
    BY <1>2, <1>3, <1>5, <1>12
  <2> QED BY <2>1, PosPartNat
<1>16. y + a <= f + PosPart(d) /\ z + c <= g + PosPart(-d)
  BY <1>1, <1>2, <1>3, <1>5, <1>9 DEF PosPart
<1>17. /\ \/ ya = 0 /\ za = 0 /\ again' = again
          \/ /\ ya <= ra + a /\ za <= la + c
             /\ again'.right = again.right + ra /\ again'.left = again.left + la
  BY <1>3, <1>5, <1>9 DEF PosPart
<1>18. /\ turned'.right = turned.right + PosPart(d) /\ turned'.left = turned.left + PosPart(-d)
       /\ turned.right \in Nat /\ turned.left \in Nat
       /\ again.right \in Nat /\ again.left \in Nat
  BY <1>2, <1>3
<1>19. /\ ra + f <= turned.right /\ la + g <= turned.left
       /\ turned.right = 0 => again.right = 0
       /\ turned.left = 0 => again.left = 0
  BY DEF EncInductive, Sides
<1>20. a \in {0, 1} /\ c \in {0, 1}
  BY DEF a, c
<1>21. Budget'
  <2> DEFINE r == ENC_DETENT_STEPS * emitted.right
             l == ENC_DETENT_STEPS * emitted.left
             v == PosPart(filtAccum)
             w == PosPart(-filtAccum)
             v1 == PosPart(filtAccum')
             w1 == PosPart(-(filtAccum'))
  <2>1. /\ r \in Int /\ l \in Int /\ v \in Nat /\ w \in Nat /\ v1 \in Nat /\ w1 \in Nat
    <3>1. /\ filtAccum \in Int /\ -filtAccum \in Int /\ filtAccum' \in Int /\ -(filtAccum') \in Int
      BY <1>3, <1>6
    <3> QED BY <1>3, <3>1, PosPartNat
  <2>2. /\ r + v + ra + f <= turned.right + again.right
        /\ l + w + la + g <= turned.left + again.left
    BY DEF EncInductive, Budget
  <2>3. r' = r /\ l' = l
    BY <1>2
  <2>4. v1 <= v + ra /\ w1 <= w + la
    BY <1>6
  <2> HIDE DEF r, l, v, w, v1, w1, ra, la, f, g, y, z, ya, za, a, c
  <2>5. /\ r + v1 + ya + y <= turned'.right + again'.right
        /\ l + w1 + za + z <= turned'.left + again'.left
    BY <1>10, <1>11, <1>15, <1>16, <1>17, <1>18, <1>20, <2>1, <2>2, <2>4
  <2> QED BY <2>3, <2>5 DEF Budget, r, l, v1, w1, ya, za, y, z
<1>22. Sides'
  <2> HIDE DEF ra, la, f, g, y, z, ya, za, a, c
  <2>1. CASE ya = 0 /\ za = 0 /\ again' = again
    <3>1. ya + y <= turned'.right /\ za + z <= turned'.left
      BY <1>10, <1>11, <1>15, <1>16, <1>18, <1>19, <1>20, <2>1
    <3>2. (turned'.right = 0 => again'.right = 0) /\ (turned'.left = 0 => again'.left = 0)
      BY <1>10, <1>18, <1>19, <2>1
    <3> QED BY <3>1, <3>2 DEF Sides, ya, za, y, z
  <2>2. CASE /\ ya <= ra + a /\ za <= la + c
             /\ again'.right = again.right + ra /\ again'.left = again.left + la
    <3>1. ya + y <= turned'.right /\ za + z <= turned'.left
      BY <1>10, <1>11, <1>15, <1>16, <1>18, <1>19, <1>20, <2>2
    <3>2. (turned'.right = 0 => again'.right = 0) /\ (turned'.left = 0 => again'.left = 0)
      <4>1. turned'.right = 0 => turned.right = 0 /\ ra = 0
        BY <1>10, <1>11, <1>15, <1>18, <1>19
      <4>2. turned'.left = 0 => turned.left = 0 /\ la = 0
        BY <1>10, <1>11, <1>15, <1>18, <1>19
      <4>3. again.right + 0 = again.right /\ again.left + 0 = again.left
        BY <1>18
      <4> QED BY <1>19, <2>2, <4>1, <4>2, <4>3
    <3> QED BY <3>1, <3>2 DEF Sides, ya, za, y, z
  <2> QED BY <1>17, <2>1, <2>2
<1> QED BY <1>2, <1>13, <1>14, <1>21, <1>22 DEF EncInductive, Alone

\* A step that is consumed leaves the filter by as much as it is worth.
LEMMA ConsumeOK ==
    ASSUME EncInductive, Consume
    PROVE  EncInductive'
<1> USE EncoderAssumption
<1> DEFINE toRight == IF Rotate = 1 THEN 1 ELSE 0
           toLeft == IF Rotate = -1 THEN 1 ELSE 0
<1>1. /\ filtAccum \in -AccumMax..AccumMax /\ ENC_DETENT_STEPS \in Nat \ {0}
      /\ emitted \in [ right : Nat, left : Nat ] /\ emit \in EmitAges
      /\ button \in [ down : BOOLEAN, held : HeldFor, click : BOOLEAN, long : BOOLEAN ]
  BY DEF EncInductive, EncTypeOK
<1>2. /\ Rotate \in {-1, 0, 1}
      /\ Rotate = 1 => filtAccum >= ENC_DETENT_STEPS
      /\ Rotate = -1 => filtAccum <= -ENC_DETENT_STEPS
  BY <1>1 DEF Rotate, StepsNow, Abs
<1>3. /\ filtAccum' = IF Rotate = 0 THEN filtAccum
                      ELSE IF Rotate = 1 THEN Remainder(filtAccum - ENC_DETENT_STEPS)
                      ELSE Remainder(filtAccum + ENC_DETENT_STEPS)
      /\ emit' = IF Rotate # 0 THEN "recent" ELSE emit
      /\ emitted' = [ right |-> emitted.right + toRight, left |-> emitted.left + toLeft ]
      /\ button' = [button EXCEPT !.click = FALSE, !.long = FALSE]
      /\ UNCHANGED <<shaft, seen, abState, rotateAccum, motion, pressed, turned, again>>
  BY DEF Consume
<1>4. \A rest \in Int : Remainder(rest) \in {0, rest}
  BY DEF Remainder
<1> HIDE DEF toRight, toLeft
<1>5. /\ filtAccum' \in -AccumMax..AccumMax
      /\ PosPart(filtAccum') <= PosPart(filtAccum) - (IF Rotate = 1 THEN ENC_DETENT_STEPS ELSE 0)
      /\ PosPart(-filtAccum') <= PosPart(-filtAccum) - (IF Rotate = -1 THEN ENC_DETENT_STEPS ELSE 0)
  <2>1. CASE Rotate = 0
    BY <1>1, <1>3, <2>1 DEF PosPart
  <2>2. CASE Rotate = 1
    BY <1>1, <1>2, <1>3, <1>4, <2>2 DEF PosPart
  <2>3. CASE Rotate = -1
    BY <1>1, <1>2, <1>3, <1>4, <2>3 DEF PosPart
  <2> QED BY <1>2, <2>1, <2>2, <2>3
<1>6. /\ toRight \in {0, 1} /\ toLeft \in {0, 1}
      /\ (IF Rotate = 1 THEN ENC_DETENT_STEPS ELSE 0) = ENC_DETENT_STEPS * toRight
      /\ (IF Rotate = -1 THEN ENC_DETENT_STEPS ELSE 0) = ENC_DETENT_STEPS * toLeft
  BY <1>1 DEF toRight, toLeft
<1>7. EncTypeOK'
  <2>1. emitted' \in [ right : Nat, left : Nat ] /\ emit' \in EmitAges
    BY <1>1, <1>3, <1>6 DEF EmitAges
  <2>2. button' \in [ down : BOOLEAN, held : HeldFor, click : BOOLEAN, long : BOOLEAN ]
    BY <1>1, <1>3
  <2> QED BY <1>3, <1>5, <2>1, <2>2 DEF EncInductive, EncTypeOK
<1>8. InSync'
  BY <1>3 DEF EncInductive, InSync, Pins, Abs
<1>9. Budget'
  <2>1. /\ emitted'.right = emitted.right + toRight /\ emitted'.left = emitted.left + toLeft
    BY <1>3
  <2>2. /\ ENC_DETENT_STEPS * emitted'.right
             = ENC_DETENT_STEPS * emitted.right + ENC_DETENT_STEPS * toRight
        /\ ENC_DETENT_STEPS * emitted'.left
             = ENC_DETENT_STEPS * emitted.left + ENC_DETENT_STEPS * toLeft
    BY <1>1, <1>6, <2>1
  <2> DEFINE r == ENC_DETENT_STEPS * emitted.right
             l == ENC_DETENT_STEPS * emitted.left
             dr == ENC_DETENT_STEPS * toRight
             dl == ENC_DETENT_STEPS * toLeft
             p == PosPart(rotateAccum) + PosPart(shaft - seen)
             q == PosPart(-rotateAccum) + PosPart(seen - shaft)
  <2>3. /\ r \in Int /\ l \in Int /\ dr \in Int /\ dl \in Int
        /\ turned.right \in Nat /\ turned.left \in Nat /\ again.right \in Nat /\ again.left \in Nat
    BY <1>1, <1>6 DEF EncInductive, EncTypeOK
  <2>4. p \in Int /\ q \in Int
    <3>1. /\ rotateAccum \in Int /\ -rotateAccum \in Int
          /\ shaft - seen \in Int /\ seen - shaft \in Int
      BY DEF EncInductive, EncTypeOK
    <3>2. /\ PosPart(rotateAccum) \in Nat /\ PosPart(-rotateAccum) \in Nat
          /\ PosPart(shaft - seen) \in Nat /\ PosPart(seen - shaft) \in Nat
      BY <3>1, PosPartNat
    <3> QED BY <3>2
  <2>5. /\ PosPart(filtAccum) \in Nat /\ PosPart(-filtAccum) \in Nat
        /\ PosPart(filtAccum') \in Nat /\ PosPart(-(filtAccum')) \in Nat
    <3>1. filtAccum \in Int /\ -filtAccum \in Int /\ filtAccum' \in Int /\ -(filtAccum') \in Int
      BY <1>1, <1>5
    <3> QED BY <3>1, PosPartNat
  <2>6. /\ r + PosPart(filtAccum) + p <= turned.right + again.right
        /\ l + PosPart(-filtAccum) + q <= turned.left + again.left
    <3>1. /\ PosPart(rotateAccum) \in Int /\ PosPart(-rotateAccum) \in Int
          /\ PosPart(shaft - seen) \in Int /\ PosPart(seen - shaft) \in Int
      BY PosPartNat DEF EncInductive, EncTypeOK
    <3>2. /\ r + PosPart(filtAccum) + PosPart(rotateAccum) + PosPart(shaft - seen) <= turned.right + again.right
          /\ l + PosPart(-filtAccum) + PosPart(-rotateAccum) + PosPart(seen - shaft) <= turned.left + again.left
      BY DEF EncInductive, Budget
    <3> HIDE DEF r, l
    <3> QED BY <2>3, <2>5, <3>1, <3>2
  <2>7. p' = p /\ q' = q /\ turned' = turned /\ again' = again
    BY <1>3
  <2>8. /\ r' = r + dr /\ l' = l + dl
    BY <2>2
  <2>9. /\ PosPart(filtAccum') <= PosPart(filtAccum) - dr
        /\ PosPart(-filtAccum') <= PosPart(-filtAccum) - dl
    BY <1>5, <1>6
  <2> HIDE DEF r, l, dr, dl, p, q
  <2>10. /\ r' + PosPart(filtAccum') + p' <= turned'.right + again'.right
         /\ l' + PosPart(-filtAccum') + q' <= turned'.left + again'.left
    BY <2>3, <2>4, <2>5, <2>6, <2>7, <2>8, <2>9
  <2> QED
    <3>1. /\ PosPart(rotateAccum') \in Int /\ PosPart(-(rotateAccum')) \in Int
          /\ PosPart(shaft' - seen') \in Int /\ PosPart(seen' - shaft') \in Int
          /\ r' \in Int /\ l' \in Int
      BY <1>3, <2>3, <2>8, PosPartNat DEF EncInductive, EncTypeOK
    <3> QED BY <2>5, <2>10, <3>1 DEF Budget, r, l, p, q
<1>10. Sides' /\ Alone'
  BY <1>3 DEF EncInductive, Sides, Alone, PosPart
<1> QED BY <1>7, <1>8, <1>9, <1>10 DEF EncInductive

\* The button and the passing of time touch nothing of this.
LEMMA OtherOK ==
    ASSUME EncInductive, PressButton \/ ReleaseButton \/ EncTime
    PROVE  EncInductive'
<1>1. UNCHANGED <<shaft, seen, abState, rotateAccum, filtAccum, turned, again, emitted>>
  BY DEF PressButton, ReleaseButton, EncTime
<1>2. /\ pressed' \in BOOLEAN /\ motion' \in {"moving", "resting"} /\ emit' \in EmitAges
      /\ button' \in [ down : BOOLEAN, held : HeldFor, click : BOOLEAN, long : BOOLEAN ]
  <2>1. CASE PressButton \/ ReleaseButton
    BY <2>1 DEF PressButton, ReleaseButton, EncInductive, EncTypeOK
  <2>2. CASE EncTime
    BY <2>2 DEF EncTime, ComeToRest, AgeOfEmit, HoldButton, EmitAges, HeldFor,
                EncInductive, EncTypeOK
  <2> QED BY <2>1, <2>2
<1>3. EncTypeOK'
  BY <1>1, <1>2 DEF EncInductive, EncTypeOK
<1>4. InSync' /\ Budget' /\ Sides' /\ Alone'
  BY <1>1 DEF EncInductive, InSync, Budget, Sides, Alone, Pins, Abs, PosPart
<1> QED BY <1>3, <1>4 DEF EncInductive

LEMMA StutterOK ==
    ASSUME EncInductive, UNCHANGED encVars
    PROVE  EncInductive'
<1>1. UNCHANGED <<shaft, seen, abState, rotateAccum, filtAccum, motion, emit,
                  pressed, button, turned, again, emitted>>
  BY DEF encVars
<1>2. EncTypeOK'
  BY <1>1 DEF EncInductive, EncTypeOK
<1>3. InSync' /\ Budget' /\ Sides' /\ Alone'
  BY <1>1 DEF EncInductive, InSync, Budget, Sides, Alone, Pins, Abs, PosPart
<1> QED BY <1>2, <1>3 DEF EncInductive

LEMMA EncNextOK ==
    ASSUME EncInductive, [EncNext]_encVars
    PROVE  EncInductive'
<1>1. CASE TurnRight \/ TurnLeft
  BY <1>1, TurnOK
<1>2. CASE LateInterrupt
  BY <1>2, LateInterruptOK
<1>3. CASE EncLoop
  BY <1>3, EncLoopOK
<1>7. CASE \E d \in {1, -1, 0} : StraddledLoop(d)
  BY <1>7, StraddledOK
<1>4. CASE Consume
  BY <1>4, ConsumeOK
<1>5. CASE PressButton \/ ReleaseButton \/ EncTime
  BY <1>5, OtherOK
<1>6. CASE UNCHANGED encVars
  BY <1>6, StutterOK
<1> QED BY <1>1, <1>2, <1>3, <1>4, <1>5, <1>6, <1>7 DEF EncNext

\* Budget implies the property, since what is under way is never negative.
LEMMA BudgetTraces == EncInductive => StepsAreTraced
<1> SUFFICES ASSUME EncInductive PROVE StepsAreTraced
  OBVIOUS
<1> DEFINE r == ENC_DETENT_STEPS * emitted.right
           l == ENC_DETENT_STEPS * emitted.left
<1>1. /\ r \in Int /\ l \in Int
      /\ turned.right \in Nat /\ turned.left \in Nat /\ again.right \in Nat /\ again.left \in Nat
      /\ emitted.right \in Nat /\ emitted.left \in Nat
  BY EncoderAssumption DEF EncInductive, EncTypeOK
<1>2. /\ PosPart(filtAccum) \in Nat /\ PosPart(-filtAccum) \in Nat
      /\ PosPart(rotateAccum) \in Nat /\ PosPart(-rotateAccum) \in Nat
      /\ PosPart(shaft - seen) \in Nat /\ PosPart(seen - shaft) \in Nat
  BY EncoderAssumption, PosPartNat DEF EncInductive, EncTypeOK
<1>3. /\ r + PosPart(filtAccum) + PosPart(rotateAccum) + PosPart(shaft - seen)
           <= turned.right + again.right
      /\ l + PosPart(-filtAccum) + PosPart(-rotateAccum) + PosPart(seen - shaft)
           <= turned.left + again.left
  BY DEF EncInductive, Budget
<1>4. (emitted.right > 0 => r > 0) /\ (emitted.left > 0 => l > 0)
  BY <1>1, EncoderAssumption
<1> HIDE DEF r, l
<1>5. r <= turned.right + again.right /\ l <= turned.left + again.left
  BY <1>1, <1>2, <1>3
<1>6. (turned.right = 0 => again.right = 0) /\ (turned.left = 0 => again.left = 0)
  BY DEF EncInductive, Sides
<1>7. (turned.right = 0 => emitted.right = 0) /\ (turned.left = 0 => emitted.left = 0)
  BY <1>1, <1>4, <1>5, <1>6
<1> QED BY <1>5, <1>7 DEF StepsAreTraced, r, l

-----------------------------------------------------------------------------

LEMMA EncTypesHold == EncSpec => []EncTypeOK
<1>1. EncInductive => EncTypeOK
  BY DEF EncInductive
<1> QED BY <1>1, InitOK, EncNextOK, PTL DEF EncSpec

LEMMA EncInductiveHolds == EncSpec => []EncInductive
<1>1. EncInit => EncInductive
  BY InitOK
<1>2. EncInductive /\ [EncNext]_encVars => EncInductive'
  BY EncNextOK
<1> QED BY <1>1, <1>2, PTL DEF EncSpec

\* Whatever the user turns, however the contacts bounce, and with the interrupt
\* on either core: a step the menus see was turned, or is made of transitions to
\* its side that came back after a drain (onEncIsr, drainRawToFilter,
\* consumeRotate).
THEOREM StepsTraced == EncSpec => []StepsAreTraced
BY EncInductiveHolds, BudgetTraces, PTL

\* On one core nothing comes back, and each step has been turned.
THEOREM StepsEarned == ASSUME OneCore PROVE EncSpec => []StepsAreEarned
<1>1. EncInductive => StepsAreEarned
  <2> SUFFICES ASSUME EncInductive PROVE StepsAreEarned
    OBVIOUS
  <2>1. again.right = 0 /\ again.left = 0
    BY DEF EncInductive, Alone
  <2>2. StepsAreTraced /\ turned.right \in Nat /\ turned.left \in Nat
    BY BudgetTraces DEF EncInductive, EncTypeOK
  <2> QED BY <2>1, <2>2 DEF StepsAreTraced, StepsAreEarned
<1> QED BY <1>1, EncInductiveHolds, PTL

-----------------------------------------------------------------------------
(* Encoder, implemented.                                                    *)

LEMMA RoundEncoder == ASSUME Round PROVE [EncNext]_encVars
<1>1. CASE Sleep \/ Watch \/ Panic \/ SkipInput \/ Drain \/ LookAtScan
  BY <1>1 DEF Sleep, Watch, Panic, SkipInput, Drain, LookAtScan, OnlyUi, encVars
<1>2. CASE SampleEncoder
  BY <1>2 DEF SampleEncoder, EncNext
<1>3. CASE Act \/ RestartFromMenu
  BY <1>3 DEF Act, RestartFromMenu, EncNext
<1> QED BY <1>1, <1>2, <1>3 DEF Round

LEMMA OutsideEncoder ==
    ASSUME SampleAmidTurn \/ User \/ Net \/ Upload \/ UploadRestart \/ Others \/ ScanTimer \/ Time
    PROVE  [EncNext]_encVars
<1>1. CASE User
  BY <1>1 DEF User, EncNext
<1>2. CASE Net \/ Upload \/ UploadRestart \/ Others \/ ScanTimer
  BY <1>2 DEF Net, Upload, UploadRestart, Others, ScanTimer, OnlyUi, OnlyLeds, encVars
<1>3. CASE Time
  BY <1>3 DEF Time, OnlyUi, EncNext, encVars
<1>4. CASE SampleAmidTurn
  BY <1>4 DEF SampleAmidTurn, EncNext
<1> QED BY <1>1, <1>2, <1>3, <1>4

\* task-ui implements Encoder: each of its steps is one of the encoder's, or
\* leaves the encoder alone.
THEOREM UiTaskTurnsEncoder == Spec => EncSpec
<1>1. Init => EncInit
  BY DEF Init
<1>2. [Next]_uiTaskVars => [EncNext]_encVars
  <2> SUFFICES ASSUME [Next]_uiTaskVars PROVE [EncNext]_encVars
    OBVIOUS
  <2>1. CASE Next
    BY <2>1, RoundEncoder, OutsideEncoder DEF Next
  <2>2. CASE UNCHANGED uiTaskVars
    BY <2>2 DEF uiTaskVars, encVars
  <2> QED BY <2>1, <2>2
<1> QED BY <1>1, <1>2, PTL DEF Spec, EncSpec

\* The steps that the menus see have been turned, whatever else task-ui does, if
\* the interrupt runs on its core.
THEOREM UiStepsEarned == ASSUME OneCore PROVE Spec => []StepsAreEarned
BY UiTaskTurnsEncoder, StepsEarned, PTL

\* The same for any number of cores: what a step too many is made of.
THEOREM UiStepsTraced == Spec => []StepsAreTraced
BY UiTaskTurnsEncoder, StepsTraced, PTL

-----------------------------------------------------------------------------
(* The cursor and the list.                                                 *)

InList(u) == u.networks > 0 => u.wifiIndex < u.networks

\* A panel with its cursor in the list.
Good(u) == u \in Panels /\ InList(u)

CursorInductive ==
    /\ Good(ui)
    /\ scan \in [ results : 0..MaxNetworks, ready : BOOLEAN ]

LEMMA GoGood ==
    ASSUME NEW u, Good(u), NEW mode \in UiMode
    PROVE  Good(Go(u, mode))
BY DEF Good, InList, Panels, Go

LEMMA ScreenOnGood == ASSUME NEW u, Good(u) PROVE Good(ScreenOn(u))
BY DEF Good, InList, Panels, ScreenOn

LEMMA ShowMessageGood == ASSUME NEW u, Good(u) PROVE Good(ShowMessage(u))
<1> DEFINE w == IF u.screenOff THEN ScreenOn(u) ELSE u
<1>1. Good(w)
  BY ScreenOnGood
<1>2. ShowMessage(u) = [w EXCEPT !.mode = "Message", !.messageOver = FALSE]
  BY DEF ShowMessage
<1>3. "Message" \in UiMode
  BY DEF UiMode
<1> HIDE DEF w
<1> QED BY <1>1, <1>2, <1>3 DEF Good, InList, Panels

LEMMA ResultsGood == ASSUME NEW u, Good(u), CursorInductive PROVE Good(OnScanResults(u))
<1>1. "WifiScan" \in UiMode /\ scan.results \in 0..MaxNetworks
  BY DEF UiMode, CursorInductive
<1> QED BY <1>1, DisplayAssumption DEF Good, InList, Panels, OnScanResults

LEMMA RequestGood ==
    ASSUME NEW u, Good(u), CursorInductive, RequestWifiScan(u)
    PROVE  Good(ui')
<1>1. NextSeq \in 0..MaxSeq
  BY DisplayAssumption DEF NextSeq, CursorInductive, Good, Panels
<1> DEFINE room == HasRoom(netReq)
           pending == u.scanPending \/ room
           timedOut == u.timedOut /\ ~room
           networks == IF room THEN 0 ELSE u.networks
<1>2. pending \in BOOLEAN /\ timedOut \in BOOLEAN
  BY DEF Good, Panels
<1>3. networks \in 0..MaxNetworks /\ (networks > 0 => u.wifiIndex < networks)
  BY DisplayAssumption DEF Good, InList, Panels
<1>4. ui' = [u EXCEPT !.scanSeq = NextSeq, !.scanPending = pending, !.timedOut = timedOut,
                      !.networks = networks]
  BY DEF RequestWifiScan
<1> HIDE DEF pending, timedOut, networks
<1> QED BY <1>1, <1>2, <1>3, <1>4 DEF Good, InList, Panels

LEMMA MenuGood ==
    ASSUME NEW u, Good(u), CursorInductive, NEW items, HandleMenu(u, items)
    PROVE  Good(ui')
<1> {"Home", "Menu", "WebSetupHint"} \cup { Opens[i] : i \in DOMAIN Opens } \subseteq UiMode
  BY DEF Opens, UiMode, Editors, LongTo
<1>1. CASE Stays(u) \/ GoesTo(u, "Home")
  BY <1>1, GoGood DEF Stays, GoesTo
<1>2. ASSUME NEW item, PickItem(u, item)
      PROVE  Good(ui')
  <2>1. CASE RequestWifiScan([u EXCEPT !.mode = "WifiScan", !.networks = 0, !.wifiIndex = 0])
    <3> DEFINE w == [u EXCEPT !.mode = "WifiScan", !.networks = 0, !.wifiIndex = 0]
    <3>1. Good(w)
      <4>1. "WifiScan" \in UiMode /\ 0 \in 0..MaxNetworks /\ ~(0 > 0)
        BY DisplayAssumption DEF UiMode
      <4> QED BY <4>1 DEF Good, InList, Panels
    <3>2. RequestWifiScan(w)
      BY <2>1
    <3> HIDE DEF w
    <3> QED BY <3>1, <3>2, RequestGood
  <2>2. CASE Requests(Go(u, "WebSetupHint"))
    BY <2>2, GoGood DEF Requests
  <2>3. CASE Requests(ShowMessage(u))
    BY <2>3, ShowMessageGood DEF Requests
  <2>4. CASE item \in DOMAIN Opens /\ GoesTo(u, Opens[item])
    BY <2>4, GoGood DEF GoesTo, Stays
  <2> QED BY <1>2, <2>1, <2>2, <2>3, <2>4 DEF PickItem
<1> QED BY <1>1, <1>2 DEF HandleMenu

LEMMA WifiScanGood ==
    ASSUME NEW u, Good(u), CursorInductive, HandleWifiScan(u)
    PROVE  Good(ui')
<1> {"Menu", "WifiPassword"} \subseteq UiMode
  BY DEF UiMode
<1>1. CASE Stays(u) \/ Stays([u EXCEPT !.mode = "Menu", !.scanPending = FALSE])
  BY <1>1 DEF Stays, Good, InList, Panels
<1>2. CASE RequestWifiScan(u)
  BY <1>2, RequestGood
<1>3. CASE u.networks > 0 /\ Stays([u EXCEPT !.wifiIndex = NextIndex(u),
                                            !.mode = IF Click THEN "WifiPassword" ELSE @])
  <2>1. NextIndex(u) \in Nat /\ NextIndex(u) < u.networks
    BY <1>3, DisplayAssumption DEF NextIndex, Good, InList, Panels
  <2> QED BY <1>3, <2>1 DEF Stays, Good, InList, Panels
<1> QED BY <1>1, <1>2, <1>3 DEF HandleWifiScan

LEMMA PageGood ==
    ASSUME NEW u, Good(u), CursorInductive, NEW items, HandlePage(u, items)
    PROVE  Good(ui')
<1> {"Home", "Menu"} \cup { LongTo[e] : e \in Editors } \subseteq UiMode
  BY DEF UiMode, Editors, LongTo
<1>1. CASE HandleHome(u) \/ HandleNtpStats(u) \/ HandleWebHint(u) \/ HandleMessage(u)
  BY <1>1, GoGood DEF HandleHome, HandleNtpStats, HandleWebHint, HandleMessage, GoesTo, Stays
<1>2. CASE HandleMenu(u, items)
  BY <1>2, MenuGood
<1>3. CASE HandleWifiScan(u)
  BY <1>3, WifiScanGood
<1>4. CASE HandleEntry(u) \/ HandleTimezone(u)
  BY <1>4, ShowMessageGood DEF HandleEntry, HandleTimezone, Requests, Stays
<1>5. CASE HandleEditor(u)
  BY <1>5, GoGood, ShowMessageGood DEF HandleEditor, GoesTo, Stays
<1> QED BY <1>1, <1>2, <1>3, <1>4, <1>5 DEF HandlePage

LEMMA InputGood ==
    ASSUME CursorInductive, NEW items, HandleInput(items)
    PROVE  CursorInductive'
<1>1. Good(ui)
  BY DEF CursorInductive
<1>2. CASE Stays(ScreenOn(ui)) \/ Stays(ui) \/ Stays([ui EXCEPT !.screenOff = TRUE])
  <2>1. Good([ui EXCEPT !.screenOff = TRUE])
    BY <1>1 DEF Good, InList, Panels
  <2> QED BY <1>1, <1>2, <2>1, ScreenOnGood DEF Stays, HandleInput, CursorInductive
<1>3. CASE HandlePage([ui EXCEPT !.idle = @ /\ ~AnyInput], items)
  <2> DEFINE w == [ui EXCEPT !.idle = @ /\ ~AnyInput]
  <2>1. Good(w)
    BY <1>1 DEF Good, InList, Panels
  <2>2. HandlePage(w, items)
    BY <1>3
  <2> HIDE DEF w
  <2> QED BY <2>1, <2>2, PageGood DEF HandleInput, CursorInductive
<1> QED BY <1>2, <1>3 DEF HandleInput

LEMMA MessageGood ==
    ASSUME CursorInductive, TakeUiMessage \/ CheckScan
    PROVE  CursorInductive'
<1>1. Good(ui) /\ Good(ShowMessage(ui)) /\ Good(OnScanResults(ui))
  BY ShowMessageGood, ResultsGood DEF CursorInductive
<1>2. /\ scan \in [ results : 0..MaxNetworks, ready : BOOLEAN ]
      /\ [scan EXCEPT !.ready = FALSE] \in [ results : 0..MaxNetworks, ready : BOOLEAN ]
  BY DEF CursorInductive
<1>3. CASE TakeUiMessage
  <2>1. Good([ui EXCEPT !.scanPending = FALSE, !.mode = "WifiScan"])
    BY <1>1 DEF Good, InList, Panels, UiMode
  <2> QED BY <1>1, <1>2, <1>3, <2>1 DEF TakeUiMessage, CursorInductive
<1>4. CASE CheckScan
  <2>1. Good(TimedOut(ui))
    BY <1>1 DEF TimedOut, Good, InList, Panels
  <2>2. Good(OnScanResults(TimedOut(ui)))
    BY <2>1, ResultsGood
  <2> QED BY <1>2, <1>4, <2>1, <2>2 DEF CheckScan, CursorInductive
<1> QED BY <1>3, <1>4

LEMMA NetGood == ASSUME CursorInductive, Net PROVE CursorInductive'
<1>1. CASE NotifyScan
  BY <1>1 DEF NotifyScan, CursorInductive
<1>2. CASE TakeNetRequest \/ FailScan \/ PostText
  BY <1>2 DEF TakeNetRequest, FailScan, PostText, CursorInductive
<1> QED BY <1>1, <1>2 DEF Net

LEMMA TimersGood == ASSUME CursorInductive, ScanTimer \/ Time PROVE CursorInductive'
<1> Good(ui)
  BY DEF CursorInductive
<1>1. /\ Good([ui EXCEPT !.timedOut = TRUE])
      /\ Good([ui EXCEPT !.messageOver = TRUE])
      /\ Good([ui EXCEPT !.idle = TRUE])
  BY DEF Good, InList, Panels
<1>2. scan' = scan
  BY DEF ScanTimer, Time, OnlyEnc, MessageIsOver, IdlesOut, uiVars
<1> QED BY <1>1, <1>2
        DEF ScanTimer, Time, ScanTimesOut, MessageIsOver, IdlesOut, OnlyEnc, uiVars, CursorInductive

LEMMA CursorNextOK == CursorInductive /\ [Next]_uiTaskVars => CursorInductive'
<1> SUFFICES ASSUME CursorInductive, [Next]_uiTaskVars PROVE CursorInductive'
  OBVIOUS
<1>1. CASE UNCHANGED uiVars
  BY <1>1 DEF uiVars, CursorInductive
<1>2. CASE Sleep \/ Watch \/ Panic \/ SampleEncoder \/ SampleAmidTurn \/ SkipInput \/ User
           \/ Upload \/ UploadRestart \/ Others
  BY <1>1, <1>2 DEF Sleep, Watch, Panic, SampleEncoder, SampleAmidTurn, SkipInput, User,
                    Upload, UploadRestart, Others, OnlyEnc, OnlyLeds
<1>3. CASE Drain \/ LookAtScan
  BY <1>3, MessageGood DEF Drain, LookAtScan
<1>4. CASE Act
  BY <1>4, InputGood DEF Act
<1>5. CASE RestartFromMenu
  BY <1>1, <1>5 DEF RestartFromMenu, PickRestart
<1>6. CASE Net
  BY <1>6, NetGood
<1>7. CASE ScanTimer \/ Time
  BY <1>7, TimersGood
<1>8. CASE UNCHANGED uiTaskVars
  BY <1>1, <1>8 DEF uiTaskVars
<1> QED BY <1>2, <1>3, <1>4, <1>5, <1>6, <1>7, <1>8 DEF Next, Round

LEMMA InitCursor == Init => CursorInductive
BY DisplayAssumption DEF Init, UiInit, CursorInductive, Good, InList, Panels, UiMode

\* A click chooses a network of the list, however scans and their answers are
\* lost, late or taken in the place of each other.
THEOREM CursorStaysInList == Spec => []CursorInList
<1>1. CursorInductive => CursorInList
  BY DEF CursorInductive, Good, InList, CursorInList
<1> QED BY <1>1, InitCursor, CursorNextOK, PTL DEF Spec

-----------------------------------------------------------------------------
(* The types of task-ui.                                                    *)

\* The queues between task-ui and task-net, and the job of task-net.
QueuesOK ==
    /\ netReq \in Seq(NetRequests) /\ Len(netReq) <= QueueLength
    /\ uiMsg \in Seq(UiMessages) /\ Len(uiMsg) <= QueueLength
    /\ job \in [ pending : BOOLEAN, seq : 0..MaxSeq ]

LEMMA SentOK ==
    ASSUME NEW M, NEW q \in Seq(M), Len(q) <= QueueLength, NEW msg \in M
    PROVE  Sent(q, msg) \in Seq(M) /\ Len(Sent(q, msg)) <= QueueLength
BY DisplayAssumption DEF Sent, HasRoom

LEMMA TailShorter ==
    ASSUME NEW M, NEW q \in Seq(M), q # <<>>, Len(q) <= QueueLength
    PROVE  Tail(q) \in Seq(M) /\ Len(Tail(q)) <= QueueLength /\ Head(q) \in M
BY DisplayAssumption

LEMMA MessagesOK == Other \in NetRequests /\ Text \in UiMessages
BY DisplayAssumption DEF Other, Text, NetRequests, UiMessages

\* Whatever page is shown, the request queue grows by at most a request.
LEMMA RequestQueued ==
    ASSUME NEW u, CursorInductive, QueuesOK,
           Requests(u) \/ RequestWifiScan(u) \/ Stays(u)
    PROVE  netReq' \in Seq(NetRequests) /\ Len(netReq') <= QueueLength
<1>1. NextSeq \in 0..MaxSeq
  BY DisplayAssumption DEF NextSeq, CursorInductive, Good, Panels
<1>2. [ type |-> "ScanWifi", seq |-> NextSeq ] \in NetRequests
  BY <1>1 DEF NetRequests
<1>3. CASE Requests(u)
  BY <1>3, SentOK, MessagesOK DEF Requests, QueuesOK
<1>4. CASE RequestWifiScan(u)
  BY <1>2, <1>4, SentOK DEF RequestWifiScan, QueuesOK
<1>5. CASE Stays(u)
  BY <1>5 DEF Stays, QueuesOK
<1> QED BY <1>3, <1>4, <1>5

LEMMA PageQueued ==
    ASSUME NEW u, NEW items, CursorInductive, QueuesOK, HandlePage(u, items)
    PROVE  netReq' \in Seq(NetRequests) /\ Len(netReq') <= QueueLength
<1> DEFINE Queued == netReq' \in Seq(NetRequests) /\ Len(netReq') <= QueueLength
<1>1. ASSUME NEW v, Requests(v) \/ RequestWifiScan(v) \/ Stays(v) PROVE Queued
  BY <1>1, RequestQueued
<1>2. ASSUME NEW mode, GoesTo(u, mode) PROVE Queued
  BY <1>1, <1>2 DEF GoesTo
<1>3. CASE HandleHome(u) \/ HandleNtpStats(u) \/ HandleWebHint(u) \/ HandleMessage(u)
  BY <1>1, <1>2, <1>3 DEF HandleHome, HandleNtpStats, HandleWebHint, HandleMessage
<1>4. CASE HandleMenu(u, items)
  BY <1>1, <1>2, <1>4 DEF HandleMenu, PickItem
<1>5. CASE HandleWifiScan(u)
  BY <1>1, <1>5 DEF HandleWifiScan
<1>6. CASE HandleEntry(u) \/ HandleTimezone(u)
  BY <1>1, <1>6 DEF HandleEntry, HandleTimezone
<1>7. CASE HandleEditor(u)
  BY <1>1, <1>2, <1>7 DEF HandleEditor
<1> QED BY <1>3, <1>4, <1>5, <1>6, <1>7 DEF HandlePage

LEMMA NextQueues ==
    CursorInductive /\ QueuesOK /\ [Next]_uiTaskVars => QueuesOK'
<1> SUFFICES ASSUME CursorInductive, QueuesOK, [Next]_uiTaskVars PROVE QueuesOK'
  OBVIOUS
<1>1. CASE UNCHANGED <<netReq, uiMsg, job>>
  BY <1>1 DEF QueuesOK
<1>2. CASE Sleep \/ Watch \/ Panic \/ SampleEncoder \/ SampleAmidTurn \/ SkipInput \/ User
           \/ Upload \/ UploadRestart \/ Others
  BY <1>1, <1>2 DEF Sleep, Watch, Panic, SampleEncoder, SampleAmidTurn, SkipInput, User,
                    Upload, UploadRestart, Others, OnlyEnc, OnlyLeds, uiVars
<1>3. CASE Drain
  BY <1>3, TailShorter DEF Drain, TakeUiMessage, QueuesOK
<1>4. CASE LookAtScan
  BY <1>1, <1>4 DEF LookAtScan, CheckScan
<1>5. CASE Act
  <2>1. UNCHANGED <<uiMsg, job>>
    BY <1>5 DEF Act, HandleInput
  <2>2. netReq' \in Seq(NetRequests) /\ Len(netReq') <= QueueLength
    <3>1. \/ \E v : Stays(v)
          \/ \E v : HandlePage(v, budget.items)
      BY <1>5 DEF Act, HandleInput
    <3> QED BY <3>1, RequestQueued, PageQueued
  <2> QED BY <2>1, <2>2 DEF QueuesOK
<1>6. CASE RestartFromMenu
  BY <1>1, <1>6 DEF RestartFromMenu, PickRestart, uiVars
<1>7. CASE Net
  <2>1. CASE TakeNetRequest
    <3>1. netReq' \in Seq(NetRequests) /\ Len(netReq') <= QueueLength
          /\ Head(netReq) \in NetRequests
      BY <2>1, TailShorter DEF TakeNetRequest, QueuesOK
    <3>2. job' \in [ pending : BOOLEAN, seq : 0..MaxSeq ]
      BY <2>1, <3>1 DEF TakeNetRequest, QueuesOK, NetRequests
    <3> QED BY <2>1, <3>1, <3>2 DEF TakeNetRequest, QueuesOK
  <2>2. CASE NotifyScan \/ FailScan
    <3>1. /\ [ type |-> "ScanResult", seq |-> job.seq ] \in UiMessages
          /\ [ type |-> "ScanFailed", seq |-> job.seq ] \in UiMessages
      BY DEF QueuesOK, UiMessages
    <3>2. uiMsg' \in Seq(UiMessages) /\ Len(uiMsg') <= QueueLength
      <4>1. PICK msg \in UiMessages : uiMsg' = Sent(uiMsg, msg)
        BY <2>2, <3>1 DEF NotifyScan, FailScan
      <4> QED BY <4>1, SentOK DEF QueuesOK
    <3>3. job' \in [ pending : BOOLEAN, seq : 0..MaxSeq ] /\ netReq' = netReq
      BY <2>2 DEF NotifyScan, FailScan, QueuesOK
    <3> QED BY <3>2, <3>3 DEF QueuesOK
  <2>3. CASE PostText
    BY <2>3, SentOK, MessagesOK DEF PostText, QueuesOK
  <2> QED BY <1>7, <2>1, <2>2, <2>3 DEF Net
<1>8. CASE ScanTimer \/ Time
  BY <1>1, <1>8 DEF ScanTimer, Time, MessageIsOver, IdlesOut, OnlyEnc, uiVars
<1>9. CASE UNCHANGED uiTaskVars
  BY <1>1, <1>9 DEF uiTaskVars, uiVars
<1> QED BY <1>2, <1>3, <1>4, <1>5, <1>6, <1>7, <1>8, <1>9 DEF Next, Round

-----------------------------------------------------------------------------
(* The heartbeats, the panic and the bounds.                                *)

Ages == {Never, Ahead} \cup 0..(LED_TASK_STALE_MS + 1)

LEMMA AgesOK ==
    /\ 0 \in Ages /\ Never \in Ages /\ Ahead \in Ages
    /\ \A k \in Ages : k \in 0..LED_TASK_STALE_MS => k + 1 \in Ages
BY LedsAssumption DEF Ages, Never, Ahead

LEMMA LedsNext ==
    LedsTypeOK /\ [Next]_uiTaskVars => LedsTypeOK'
<1> SUFFICES ASSUME LedsTypeOK, [Next]_uiTaskVars PROVE LedsTypeOK'
  OBVIOUS
<1>0. /\ kick \in [ Task -> Ages ] /\ hung \subseteq Task
      /\ panic \in {Never} \cup 0..LED_TASK_PANIC_RESTART_MS
      /\ ota \in [ phase : OtaPhases, verify : BOOLEAN ]
  BY DEF LedsTypeOK, Ages
<1>1. SUFFICES /\ kick' \in [ Task -> Ages ] /\ hung' \subseteq Task
               /\ panic' \in {Never} \cup 0..LED_TASK_PANIC_RESTART_MS
               /\ ota' \in [ phase : OtaPhases, verify : BOOLEAN ]
  BY DEF LedsTypeOK, Ages
<1>2. CASE UNCHANGED ledVars
  BY <1>0, <1>2 DEF ledVars
<1>3. CASE Sleep
  <2>1. LedsTick
    BY <1>3 DEF Sleep
  <2>2. kick' \in [ Task -> Ages ]
    <3> HIDE DEF Ages
    <3> QED BY <1>0, <2>1, AgesOK DEF LedsTick
  <2>3. panic' \in {Never} \cup 0..LED_TASK_PANIC_RESTART_MS
    BY <1>0, <2>1, LedsAssumption DEF LedsTick, Expired, Never
  <2> QED BY <1>0, <2>1, <2>2, <2>3 DEF LedsTick
<1>4. CASE Watch
  <2>1. WatchTasks
    BY <1>4 DEF Watch
  <2>2. kick' \in [ Task -> Ages ]
    BY <1>0, <2>1, AgesOK DEF WatchTasks, Settle
  <2>3. panic' \in {Never} \cup 0..LED_TASK_PANIC_RESTART_MS
    BY <1>0, <2>1, LedsAssumption DEF WatchTasks, NoPanic, PanicSince
  <2> QED BY <1>0, <2>1, <2>2, <2>3 DEF WatchTasks
<1>5. CASE Upload
  <2>1. UNCHANGED <<kick, panic, hung>> /\ (OtaBegins \/ OtaEnds)
    BY <1>5 DEF Upload
  <2>2. ota' \in [ phase : OtaPhases, verify : BOOLEAN ]
    BY <1>0, <2>1 DEF OtaBegins, OtaEnds, OtaPhases
  <2> QED BY <1>0, <2>1, <2>2
<1>6. CASE Others
  <2>1. PICK t \in Task : Hang(t) \/ Recover(t) \/ KickAhead(t)
    BY <1>6 DEF Others
  <2>2. CASE Hang(t) \/ Recover(t)
    BY <1>0, <2>1, <2>2 DEF Hang, Recover
  <2>3. CASE KickAhead(t)
    BY <1>0, <2>1, <2>3, AgesOK DEF KickAhead
  <2> QED BY <2>1, <2>2, <2>3
<1>7. CASE Panic
  BY <1>2, <1>7 DEF Panic, PanicRestart
<1>8. CASE SampleEncoder \/ SampleAmidTurn \/ SkipInput \/ Drain \/ LookAtScan \/ Act
             \/ RestartFromMenu
           \/ User \/ Net \/ UploadRestart \/ ScanTimer \/ Time
  BY <1>2, <1>8 DEF SampleEncoder, SampleAmidTurn, SkipInput, Drain, LookAtScan, Act, RestartFromMenu, User,
                    Net, UploadRestart, ScanTimer, Time, OnlyEnc, OnlyUi
<1>9. CASE UNCHANGED uiTaskVars
  BY <1>2, <1>9 DEF uiTaskVars
<1> QED BY <1>3, <1>4, <1>5, <1>6, <1>7, <1>8, <1>9 DEF Next, Round

\* The point of the round is one of the program's, and no bound is overdrawn.
BoundsOK == pc \in Points \cup Restarts /\ budget \in Play

LEMMA SpendOK ==
    ASSUME budget \in Play,
           NEW event \in {"right", "left", "press", "text", "dark", "weeks",
                          "upload", "hang", "race"},
           Spend(event)
    PROVE  /\ budget' \in Play
           /\ budget'.race = IF event = "race" THEN budget.race - 1 ELSE budget.race
BY DEF Spend, Play

LEMMA NextBounds == BoundsOK /\ [Next]_uiTaskVars => BoundsOK'
<1> SUFFICES ASSUME BoundsOK, [Next]_uiTaskVars PROVE BoundsOK'
  OBVIOUS
<1>1. CASE Round
  BY <1>1 DEF Round, Sleep, Watch, Panic, SampleEncoder, SkipInput, Drain, LookAtScan, Act,
              RestartFromMenu, At, OnlyUi, BoundsOK, Points, Restarts
<1>2. CASE User \/ Net \/ Upload \/ Others \/ Time
  <2>1. pc' = pc
    BY <1>2 DEF User, Net, Upload, Others, Time, OnlyEnc, OnlyUi, OnlyLeds
  <2>2. budget' = budget
        \/ \E event \in {"right", "left", "press", "text", "dark", "weeks",
                         "upload", "hang", "race"} : Spend(event)
    BY <1>2 DEF User, Net, Upload, Others, Time
  <2> QED BY <2>1, <2>2, SpendOK DEF BoundsOK
<1>3. CASE UploadRestart \/ ScanTimer
  BY <1>3 DEF UploadRestart, ScanTimer, At, OnlyUi, BoundsOK, Restarts
<1>4. CASE UNCHANGED uiTaskVars
  BY <1>4 DEF uiTaskVars, BoundsOK
<1>5. CASE SampleAmidTurn
  <2>1. /\ pc' = "drain"
        /\ budget' = budget \/ \E event \in {"right", "left"} : Spend(event)
    BY <1>5 DEF SampleAmidTurn, At
  <2> QED BY <2>1, SpendOK DEF BoundsOK, Points
<1> QED BY <1>1, <1>2, <1>3, <1>4, <1>5 DEF Next

\* The types of task-ui, of its queues and of the watchdog hold whatever the
\* user, task-net and the other tasks do.
THEOREM UiTypes == Spec => []TypeOK
<1> DEFINE IInv == CursorInductive /\ QueuesOK /\ LedsTypeOK /\ BoundsOK
<1>1. Init => IInv
  <2> SUFFICES ASSUME Init PROVE IInv
    OBVIOUS
  <2>1. CursorInductive
    BY InitCursor
  <2>2. QueuesOK
    BY DisplayAssumption DEF Init, UiInit, QueuesOK
  <2>3. LedsTypeOK
    BY LedsAssumption DEF Init, LedsInit, LedsTypeOK, OtaPhases
  <2>4. BoundsOK
    BY PlaysAssumption DEF Init, BoundsOK, Points
  <2> QED BY <2>1, <2>2, <2>3, <2>4
<1>2. IInv /\ [Next]_uiTaskVars => IInv'
  BY CursorNextOK, NextQueues, LedsNext, NextBounds
<1>3. EncTypeOK /\ IInv => TypeOK
  BY DEF CursorInductive, Good, QueuesOK, BoundsOK, UiTypeOK, TypeOK
<1>4. Spec => []EncTypeOK
  BY UiTaskTurnsEncoder, EncTypesHold, PTL
<1> HIDE DEF IInv
<1>5. Spec => []IInv
  BY <1>1, <1>2, PTL DEF Spec
<1> QED BY <1>3, <1>4, <1>5, PTL

-----------------------------------------------------------------------------
(* A restart and the looks that led to it.                                  *)

\* A heartbeat is newer than the millis it will be compared with.
Raced == \E t \in Task : kick[t] = Ahead

\* The looks that such a heartbeat has spoilt: each has used up a race.
Spoils == MaxRaces - budget.race - (IF Raced THEN 1 ELSE 0)

\* So many looks in a row have found a task late, but for the spoilt ones.
Looked(looks) == late > LED_TASK_PANIC_RESTART_MS \/ looks <= late + Spoils

\* A panic was kept up by one look for each round of its age, and by one more
\* once the look of this round is over.
LooksOK ==
    /\ late \in Nat
    /\ budget.race \in 0..MaxRaces
    /\ Raced => pc \in {"watch", "panic restart"} /\ budget.race < MaxRaces
    /\ RestartIsDeserved
    /\ panic # Never /\ pc = "watch" => Looked(panic)
    /\ panic # Never /\ pc \notin {"watch", "panic restart"} => Looked(panic + 1)

DeservedInductive == LedsTypeOK /\ BoundsOK /\ LooksOK

LEMMA LooksTypes ==
    ASSUME LedsTypeOK, LooksOK
    PROVE  /\ late \in Nat /\ budget.race \in 0..1 /\ MaxRaces = 1
           /\ Never = -1 /\ Ahead = -2
           /\ LED_TASK_PANIC_RESTART_MS \in Nat /\ LED_TASK_STALE_MS \in Nat
           /\ panic \in {Never} \cup 0..LED_TASK_PANIC_RESTART_MS
           /\ Spoils \in Nat
           /\ kick \in [ Task -> Ages ]
<1>1. MaxRaces = 1 /\ budget.race \in 0..1
  BY DEF LooksOK, MaxRaces
<1>2. Raced => budget.race < 1
  BY <1>1 DEF LooksOK
<1>3. Spoils \in Nat
  BY <1>1, <1>2 DEF Spoils
<1> QED BY <1>1, <1>3, LedsAssumption DEF LooksOK, LedsTypeOK, Ages, Never, Ahead

\* What the look makes of the count of looks.
LEMMA LateAfter ==
    ASSUME MCNext, LooksOK
    PROVE  /\ pc # "watch" \/ pc' = "watch" => late' = late
           /\ pc = "watch" /\ pc' # "watch" =>
                late' = IF Spoilt THEN late
                        ELSE IF ~Late THEN 0
                        ELSE IF late > LED_TASK_PANIC_RESTART_MS THEN late ELSE late + 1
           /\ late' \in Nat
<1>1. late' = IF pc # "watch" \/ pc' = "watch" \/ Spoilt THEN late
              ELSE IF ~Late THEN 0
              ELSE IF late > LED_TASK_PANIC_RESTART_MS THEN late ELSE late + 1
  BY DEF MCNext
<1>2. late \in Nat
  BY DEF LooksOK
<1> QED BY <1>1, <1>2

LEMMA SpoiltIsRaced == ASSUME Spoilt PROVE Raced
BY DEF Spoilt, Late, TasksStale, Aged, Raced

\* The look, short of the restart.
LEMMA WatchLooks ==
    ASSUME LedsTypeOK, LedsTypeOK', LooksOK, MCNext, Watch
    PROVE  LooksOK'
<1>1. /\ pc = "watch" /\ pc' = "encode" /\ WatchTasks /\ budget' = budget
  BY DEF Watch, At
<1>2. late' = (IF Spoilt THEN late
               ELSE IF ~Late THEN 0
               ELSE IF late > LED_TASK_PANIC_RESTART_MS THEN late ELSE late + 1)
      /\ late' \in Nat
  BY <1>1, LateAfter
<1>3. ~Raced'
  BY <1>1 DEF WatchTasks, Settle, Raced, Ahead
<1>4. Spoils' = MaxRaces - budget.race /\ Spoils' >= Spoils + (IF Raced THEN 1 ELSE 0)
  BY <1>1, <1>3, LooksTypes DEF Spoils, MaxRaces
<1>5. ASSUME panic' # Never
      PROVE  Looked(panic + 1)'
  <2>1. TasksStale /\ ota.phase = "Idle" /\ panic' = PanicSince
    BY <1>1, <1>5 DEF WatchTasks, NoPanic
  <2>2. panic # Never => Looked(panic)
    BY <1>1 DEF LooksOK
  <2>3. Spoilt \/ Late
    BY <2>1 DEF Spoilt
  <2>4. panic' = (IF panic = Never THEN 0 ELSE panic)
    BY <2>1 DEF PanicSince
  <2>5. CASE Spoilt
    BY <1>2, <1>4, <2>2, <2>4, <2>5, SpoiltIsRaced, LooksTypes DEF Looked
  <2>6. CASE ~Spoilt
    BY <1>2, <1>4, <2>2, <2>3, <2>4, <2>6, LooksTypes DEF Looked
  <2> QED BY <2>5, <2>6
<1> QED BY <1>1, <1>2, <1>3, <1>5 DEF LooksOK, RestartIsDeserved, MaxRaces

\* The look that restarts the device.
LEMMA PanicLooks ==
    ASSUME LedsTypeOK, LooksOK, MCNext, Panic
    PROVE  LooksOK'
<1>1. /\ pc = "watch" /\ pc' = "panic restart" /\ budget' = budget
      /\ UNCHANGED <<kick, panic>>
      /\ ota.phase = "Idle" /\ TasksStale /\ Expired
  BY DEF Panic, At, PanicRestart, ledVars
<1>2. late' = (IF Spoilt THEN late
               ELSE IF ~Late THEN 0
               ELSE IF late > LED_TASK_PANIC_RESTART_MS THEN late ELSE late + 1)
      /\ late' \in Nat
  BY <1>1, LateAfter
<1>3. panic >= LED_TASK_PANIC_RESTART_MS /\ panic # Never
  <2>1. panic \in {Never} \cup 0..LED_TASK_PANIC_RESTART_MS /\ Never = -1
        /\ LED_TASK_PANIC_RESTART_MS \in Nat
    BY LooksTypes
  <2>2. panic >= LED_TASK_PANIC_RESTART_MS
    BY <1>1 DEF Expired
  <2> QED BY <2>1, <2>2
<1>4. Looked(panic)
  BY <1>1, <1>3 DEF LooksOK
<1>5. Spoilt \/ Late
  BY <1>1 DEF Spoilt
<1>6. Spoils + (IF Raced THEN 1 ELSE 0) <= MaxRaces
  BY LooksTypes DEF Spoils
<1>7. late' + MaxRaces > LED_TASK_PANIC_RESTART_MS
  <2>1. CASE Spoilt
    BY <1>2, <1>3, <1>4, <1>6, <2>1, SpoiltIsRaced, LooksTypes DEF Looked
  <2>2. CASE ~Spoilt
    BY <1>2, <1>3, <1>4, <1>5, <1>6, <2>2, LooksTypes DEF Looked
  <2> QED BY <2>1, <2>2
<1>8. Raced' <=> Raced
  BY <1>1 DEF Raced
<1> QED BY <1>1, <1>2, <1>7, <1>8 DEF LooksOK, RestartIsDeserved, MaxRaces

\* Steps that neither look nor touch a heartbeat.
LEMMA FrameLooks ==
    ASSUME LooksOK, late' = late, UNCHANGED <<kick, panic>>, budget'.race = budget.race,
           pc' = pc \/ (pc \notin {"watch", "panic restart"}
                        /\ pc' \notin {"watch", "panic restart"})
    PROVE  LooksOK'
<1>1. (Raced' <=> Raced) /\ Spoils' = Spoils
  BY DEF Raced, Spoils, MaxRaces
<1> QED BY <1>1 DEF LooksOK, Looked, RestartIsDeserved, MaxRaces

\* The next round begins: a panic grows older, and a heartbeat may.
LEMMA SleepLooks ==
    ASSUME LedsTypeOK, LooksOK, MCNext, Sleep
    PROVE  LooksOK'
<1>1. pc = "sleep" /\ pc' = "watch" /\ LedsTick /\ budget' = budget
  BY DEF Sleep, At
<1>2. late' = late
  BY <1>1, LateAfter
<1>3. ~Raced
  BY <1>1 DEF LooksOK
<1>4. ~Raced'
  BY <1>1, <1>3, LooksTypes DEF LedsTick, Raced
<1>5. Spoils' = Spoils
  BY <1>1, <1>3, <1>4 DEF Spoils, MaxRaces
<1>6. panic' # Never => panic # Never /\ panic' <= panic + 1
  BY <1>1, LooksTypes DEF LedsTick
<1>7. panic # Never => Looked(panic + 1)
  BY <1>1 DEF LooksOK
<1>8. panic' # Never => Looked(panic)'
  BY <1>1, <1>2, <1>5, <1>6, <1>7, LooksTypes DEF Looked, LedsTick
<1> QED BY <1>1, <1>2, <1>4, <1>8 DEF LooksOK, RestartIsDeserved, MaxRaces

\* A heartbeat comes between the look's two readings: it takes a race.
LEMMA RaceLooks ==
    ASSUME LedsTypeOK, BoundsOK, LooksOK, MCNext, NEW t \in Task,
           KickAhead(t), pc = "watch", pc' = pc, Spend("race")
    PROVE  LooksOK'
<1>1. late' = late /\ panic' = panic
  BY LateAfter DEF KickAhead
<1>2. budget.race > 0 /\ budget'.race = budget.race - 1
  BY SpendOK DEF Spend, BoundsOK
<1>3. Raced'
  BY LooksTypes DEF KickAhead, Raced
<1>4. Spoils' >= Spoils /\ Spoils' \in Int /\ Spoils \in Int
  BY <1>2, <1>3, LooksTypes DEF Spoils, MaxRaces
<1>5. panic # Never => Looked(panic)'
  <2>1. panic # Never => late > LED_TASK_PANIC_RESTART_MS \/ panic <= late + Spoils
    BY DEF LooksOK, Looked
  <2>2. late \in Nat /\ (panic # Never => panic \in Int)
    BY LooksTypes
  <2> QED BY <1>1, <1>4, <2>1, <2>2 DEF Looked
<1> QED BY <1>1, <1>2, <1>3, <1>5, LooksTypes DEF LooksOK, RestartIsDeserved, MaxRaces

LEMMA NextLooks ==
    DeservedInductive /\ [MCNext]_mcVars => DeservedInductive'
<1> SUFFICES ASSUME DeservedInductive, [MCNext]_mcVars PROVE DeservedInductive'
  OBVIOUS
<1>0. LedsTypeOK /\ BoundsOK /\ LooksOK
  BY DEF DeservedInductive
<1>1. LedsTypeOK' /\ BoundsOK'
  BY <1>0, LedsNext, NextBounds DEF MCNext, mcVars
<1>2. SUFFICES LooksOK'
  BY <1>1 DEF DeservedInductive
<1>3. CASE UNCHANGED mcVars
  BY <1>0, <1>3, FrameLooks DEF mcVars, uiTaskVars, ledVars
<1>4. CASE MCNext
  <2>1. CASE Watch
    BY <1>0, <1>1, <1>4, <2>1, WatchLooks
  <2>2. CASE Panic
    BY <1>0, <1>4, <2>2, PanicLooks
  <2>3. CASE Sleep
    BY <1>0, <1>4, <2>3, SleepLooks
  <2>4. CASE SampleEncoder \/ SampleAmidTurn \/ SkipInput \/ Drain \/ LookAtScan \/ Act
             \/ RestartFromMenu \/ UploadRestart
    <3>1. /\ UNCHANGED <<kick, panic>>
          /\ budget' = budget \/ \E event \in {"right", "left"} : Spend(event)
          /\ pc \notin {"watch", "panic restart"} /\ pc' \notin {"watch", "panic restart"}
      BY <2>4 DEF SampleEncoder, SampleAmidTurn, SkipInput, Drain, LookAtScan, Act, RestartFromMenu,
                  UploadRestart, At, OnlyUi, ledVars
    <3>2. late' = late
      BY <1>0, <1>4, <3>1, LateAfter
    <3>3. budget'.race = budget.race
      BY <1>0, <3>1, SpendOK DEF BoundsOK
    <3> QED BY <1>0, <3>1, <3>2, <3>3, FrameLooks
  <2>5. CASE User \/ Net \/ Upload \/ ScanTimer \/ Time
    <3>1. pc' = pc /\ UNCHANGED <<kick, panic>>
      BY <2>5 DEF User, Net, Upload, ScanTimer, Time, OnlyEnc, OnlyUi, OnlyLeds, ledVars
    <3>2. budget' = budget
          \/ \E event \in {"right", "left", "press", "text", "dark", "weeks", "upload"} :
               Spend(event)
      BY <2>5 DEF User, Net, Upload, ScanTimer, Time
    <3>3. budget'.race = budget.race
      BY <1>0, <3>2, SpendOK DEF BoundsOK
    <3>4. late' = late
      BY <1>0, <1>4, <3>1, LateAfter
    <3> QED BY <1>0, <3>1, <3>3, <3>4, FrameLooks
  <2>6. CASE Others
    <3>1. pc' = pc
      BY <2>6 DEF Others, OnlyLeds
    <3>2. PICK t \in Task : \/ Hang(t) /\ Spend("hang")
                            \/ Recover(t) /\ UNCHANGED budget
                            \/ pc = "watch" /\ KickAhead(t) /\ Spend("race")
      BY <2>6 DEF Others
    <3>3. CASE KickAhead(t) /\ pc = "watch" /\ Spend("race")
      BY <1>0, <1>4, <3>1, <3>3, RaceLooks
    <3>4. CASE (Hang(t) /\ Spend("hang")) \/ (Recover(t) /\ UNCHANGED budget)
      <4>1. UNCHANGED <<kick, panic>>
        BY <3>4 DEF Hang, Recover
      <4>2. budget'.race = budget.race
        BY <1>0, <3>4, SpendOK DEF BoundsOK
      <4>3. late' = late
        BY <1>0, <1>4, <3>1, LateAfter
      <4> QED BY <1>0, <3>1, <4>1, <4>2, <4>3, FrameLooks
    <3> QED BY <3>2, <3>3, <3>4
  <2> QED BY <1>4, <2>1, <2>2, <2>3, <2>4, <2>5, <2>6 DEF MCNext, Next, Round
<1> QED BY <1>3, <1>4

\* The watchdog restarts the device only when every look of the panic period
\* found a task late, but for the one look that a heartbeat between the reading
\* of millis and the look may have spoilt: whatever the periods are, and the
\* turns, uploads and hang-ups of a play.
THEOREM UiRestartIsDeserved == MCSpec => []RestartIsDeserved
<1>1. MCInit => DeservedInductive
  <2> SUFFICES ASSUME MCInit PROVE DeservedInductive
    OBVIOUS
  <2>1. LedsTypeOK
    BY LedsAssumption DEF MCInit, Init, LedsInit, LedsTypeOK, OtaPhases
  <2>2. BoundsOK
    BY PlaysAssumption DEF MCInit, Init, BoundsOK, Points
  <2>3. late = 0 /\ panic = Never /\ pc = "sleep" /\ ~Raced
    BY DEF MCInit, Init, LedsInit, Raced, Never, Ahead
  <2>4. budget.race \in 0..MaxRaces
    BY PlaysAssumption, RacesAssumption DEF MCInit, Init, Play, MaxRaces
  <2> QED BY <2>1, <2>2, <2>3, <2>4 DEF DeservedInductive, LooksOK, RestartIsDeserved
<1>2. DeservedInductive => RestartIsDeserved
  BY DEF DeservedInductive, LooksOK
<1> QED BY <1>1, <1>2, NextLooks, PTL DEF MCSpec
=============================================================================
