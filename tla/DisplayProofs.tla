----------------------------- MODULE DisplayProofs -----------------------------
(***************************************************************************)
(* The front panel, for any texts and numbers, any pins found and any      *)
(* limit on files: digits are lit in turn, what is refreshed was set by    *)
(* one call, and the joystick reports its switch.                          *)
(***************************************************************************)
EXTENDS Display, TLAPS

USE DEF Goto, segVars, readVars

DigitPin == {"left", "right"}

APin == [exported : BOOLEAN, dir : {"in", "out"}, level : {0, 1},
         status : {"open", "closed"}, cached : {"in", "out"}]

\* The pair c was set by one call.
Whole(c) ==
  \/ c = Dark
  \/ \E text \in Text : NUL \notin {text[1], text[2]}
                        /\ c = <<Glyph(text[1]), Glyph(text[2])>>
  \/ \E val \in Number : c = <<Glyph(Digits(val)[1]), Glyph(Digits(val)[2])>>

\* Who holds the lock finds, or leaves, a whole pair.
PairInv ==
  /\ lock # "setter" => Whole(chars)
  /\ IF at = "copyRight" THEN lock = "display" /\ bak[1] = chars[1] ELSE Whole(bak)
  /\ lock = "display" => at = "copyRight"
  /\ setter = "set" =>
       /\ lock = "setter"
       /\ Whole(<<chars[1], Glyph(right)>>)

\* The digits' pins are outputs, of the level that the thread's place says.
PinInv ==
  /\ setter = "start" =>
       at = "end" /\ lock = "free"
  /\ setter # "start" /\ CanOpen =>
       /\ \A p \in DigitPin : pin[p].exported /\ pin[p].status = "open"
                              /\ pin[p].dir = "out" /\ pin[p].cached = "out"
       /\ pin["left"].level = IF at = "leftLit" THEN bak[1].on ELSE 0
       /\ pin["right"].level = IF at = "rightLit" THEN bak[2].on ELSE 0

\* Unless a write failed, the register holds the segments of the digit that is
\* lit or will be next.
RegisterInv ==
  ~lost => /\ at \in {"lightLeft", "leftLit"} => Shows(1)
           /\ at \in {"lightRight", "rightLit"} => Shows(2)

\* What the program believes of the joystick's pin, once it does, is true.
StickInv ==
  LET p == pin["stick"]
  IN /\ p.status = "open" => p.exported
     /\ p.cached = "in" => p.dir = "in"

Inv == TypeOK /\ PairInv /\ PinInv /\ RegisterInv /\ StickInv /\ PressedIsPushed

------------------------------------------------------------------------------
(* Pins.                                                                   *)

LEMMA PinTypes ==
  ASSUME NEW p \in APin, NEW d \in {"in", "out"}, NEW value \in {0, 1}
  PROVE  /\ OpenPin(p) \in APin /\ InitPin(p) \in APin
         /\ SetDirection(p, d) \in APin /\ Ready(p, d) \in APin
         /\ WritePin(p, value) \in APin
<1>1. \A q \in APin : /\ OpenPin(q) \in APin /\ GetDirection(q) \in APin
                      /\ SetDirection(q, d) \in APin
                      /\ SetDirection(q, "out") \in APin
  BY DEF APin, OpenPin, GetDirection, SetDirection
<1>2. \A q \in APin : Ready(q, d) \in APin /\ Ready(q, "out") \in APin
  BY <1>1 DEF Ready
<1>3. \A q \in APin : [q EXCEPT !.level = value] \in APin
  BY DEF APin
<1> QED BY <1>1, <1>2, <1>3 DEF InitPin, WritePin

\* Writing a digit's pin.
LEMMA WriteOutput ==
  ASSUME NEW p \in APin, NEW value \in {0, 1}, CanOpen,
         p.exported, p.status = "open", p.dir = "out", p.cached = "out"
  PROVE  WritePin(p, value) = [p EXCEPT !.level = value]
BY DEF WritePin, Ready

\* SegDisplay_Init makes its pins dark outputs, whatever they were before.
LEMMA InitOutput ==
  ASSUME NEW p \in APin, CanOpen
  PROVE  LET q == WritePin(InitPin(p), 0)
         IN q.exported /\ q.status = "open" /\ q.dir = "out" /\ q.cached = "out"
            /\ q.level = 0
<1> DEFINE r == InitPin(p)
<1>1. r \in APin /\ r.exported /\ r.status = "open" /\ r.cached = "in"
  BY DEF InitPin, OpenPin, GetDirection, APin
<1> HIDE DEF r
<1> DEFINE s == SetDirection(r, "out")
<1>2. Ready(r, "out") = s
  BY <1>1 DEF Ready
<1>3. s \in APin /\ s.exported /\ s.status = "open" /\ s.dir = "out" /\ s.cached = "out"
  BY <1>1 DEF SetDirection, APin
<1> HIDE DEF s
<1>4. WritePin(r, 0) = [s EXCEPT !.level = 0]
  BY <1>2, <1>3 DEF WritePin
<1> QED BY <1>3, <1>4 DEF r, APin

\* Reading the joystick.
LEMMA ReadStick ==
  ASSUME NEW p \in APin, p.status = "open" => p.exported, p.cached = "in" => p.dir = "in",
         switch \in BOOLEAN
  PROVE  LET q == ForReading(p)
         IN /\ q \in APin
            /\ q.status = "open" => q.exported
            /\ q.cached = "in" => q.dir = "in"
            /\ Value(q) = 0 <=> switch \/ ~CanOpen
<1> DEFINE r == IF p.status = "closed" THEN OpenPin(p) ELSE p
<1>1. /\ r \in APin /\ (r.status = "open" => r.exported) /\ (r.cached = "in" => r.dir = "in")
      /\ CanOpen => r.exported
  BY DEF OpenPin, APin
<1>2. ForReading(p) = IF r.cached # "in" THEN SetDirection(r, "in") ELSE r
  BY DEF ForReading, Ready
<1> HIDE DEF r
<1> DEFINE q == ForReading(p)
<1>3. /\ q \in APin /\ (q.status = "open" => q.exported) /\ (q.cached = "in" => q.dir = "in")
      /\ CanOpen => q.exported /\ q.cached = "in"
  BY <1>1, <1>2 DEF SetDirection, APin
<1> HIDE DEF q
<1>4. Value(q) = 0 <=> switch \/ ~CanOpen
  BY <1>3 DEF Value
<1> QED BY <1>3, <1>4 DEF q

------------------------------------------------------------------------------
(* Characters.                                                             *)

LEMMA GlyphType ==
  ASSUME NEW c \in Char PROVE Glyph(c) \in Shape
BY DEF Glyph, Shape, Digit, Char

\* SegDisplay_SetInt cuts its number to two digits and splits it.
LEMMA DigitsOf ==
  ASSUME NEW val \in Int
  PROVE  /\ Digits(val) \in Digit \X Digit
         /\ LET n == 10 * Digits(val)[1] + Digits(val)[2]
            IN n = val \/ (val < 0 /\ n = 0) \/ (val > 99 /\ n = 99)
<1> DEFINE v == IF val > 99 THEN 99 ELSE IF val < 0 THEN 0 ELSE val
<1>1. v \in 0..99
  OBVIOUS
<1>2. Digits(val) = <<v \div 10, v % 10>>
  BY DEF Digits
<1> HIDE DEF v
<1>3. v \div 10 \in Digit /\ v % 10 \in Digit /\ v = 10 * (v \div 10) + (v % 10)
  BY <1>1 DEF Digit
<1>4. v = val \/ (val < 0 /\ v = 0) \/ (val > 99 /\ v = 99)
  BY DEF v
<1> QED BY <1>2, <1>3, <1>4

\* A whole pair shows one text or number.
LEMMA WholeIsOne ==
  ASSUME TypeOK, Whole(bak)
  PROVE  \/ bak = Dark
         \/ \E text \in Text : NUL \notin {text[1], text[2]}
                               /\ bak = <<Glyph(text[1]), Glyph(text[2])>>
         \/ \E val \in Number : LET n == 10 * bak[1].digit + bak[2].digit
                                IN /\ bak[1].digit \in Digit /\ bak[2].digit \in Digit
                                   /\ \/ n = val
                                      \/ val < 0 /\ n = 0
                                      \/ val > 99 /\ n = 99
<1>1. ASSUME NEW val \in Number, bak = <<Glyph(Digits(val)[1]), Glyph(Digits(val)[2])>>
      PROVE  LET n == 10 * bak[1].digit + bak[2].digit
             IN /\ bak[1].digit \in Digit /\ bak[2].digit \in Digit
                /\ \/ n = val
                   \/ val < 0 /\ n = 0
                   \/ val > 99 /\ n = 99
  <2>1. val \in Int
    BY DisplayAssumption
  <2>2. bak[1].digit = Digits(val)[1] /\ bak[2].digit = Digits(val)[2]
    BY <1>1, <2>1, DigitsOf DEF Glyph
  <2> QED BY <2>1, <2>2, DigitsOf
<1> QED BY <1>1 DEF Whole

------------------------------------------------------------------------------
(* The invariant.                                                          *)

\* What a step of the joystick's program, or a turn of the switch, leaves.
LEMMA StickStep ==
  ASSUME Inv, NEW p \in APin, Stick(p), p.status = "open" => p.exported,
         p.cached = "in" => p.dir = "in",
         switch' \in BOOLEAN, pressed' \in BOOLEAN, held' \in BOOLEAN, blind' \in BOOLEAN,
         files' \in files..MaxFiles, pressed' <=> held' \/ blind',
         UNCHANGED <<segVars, chars, bak, at, setVars>>
  PROVE  Inv'
<1> USE DEF Inv, setVars
<1>0. "stick" \in Pin /\ DigitPin \subseteq Pin /\ \A q \in DigitPin : pin'[q] = pin[q]
  BY DEF Pin, DigitPin, Stick, TypeOK
<1>1. TypeOK'
  <2>1. pin' \in [Pin -> APin]
    BY DEF TypeOK, Stick, APin
  <2>2. files' \in 0..MaxFiles
    BY DisplayAssumption DEF TypeOK
  <2> QED BY <2>1, <2>2 DEF TypeOK, APin
<1>2. PairInv'
  BY DEF PairInv, Whole
<1>3. CanOpen' => CanOpen
  BY DisplayAssumption DEF CanOpen, TypeOK
<1>4. PinInv'
  BY <1>0, <1>3 DEF PinInv, DigitPin
<1>5. RegisterInv'
  BY DEF RegisterInv, Shows
<1>6. StickInv'
  BY <1>0 DEF StickInv, Stick, TypeOK
<1>7. PressedIsPushed'
  BY DEF PressedIsPushed
<1> QED BY <1>1, <1>2, <1>4, <1>5, <1>6, <1>7

LEMMA InitInv == Init => Inv
<1> SUFFICES ASSUME Init PROVE Inv
  OBVIOUS
<1>1. TypeOK
  <2>1. Blank \in Shape /\ NUL \in Char
    BY DEF Blank, Shape, Char, NUL
  <2>2. pin \in [Pin -> APin]
    <3>1. Before \subseteq APin
      BY DisplayAssumption DEF Before, APin
    <3> QED BY <3>1 DEF Init
  <2>3. chars \in Shape \X Shape /\ bak \in Shape \X Shape
    BY <2>1 DEF Init, Dark
  <2>4. files \in 0..MaxFiles
    BY DisplayAssumption DEF Init
  <2>5. register \in [1..2 -> Digit \cup {NUL}]
    BY DEF Init
  <2> QED BY <2>1, <2>2, <2>3, <2>4, <2>5 DEF Init, TypeOK, APin
<1>2. PairInv
  BY DEF Init, PairInv, Whole
<1>3. PinInv
  BY DEF Init, PinInv
<1>4. RegisterInv /\ StickInv /\ PressedIsPushed
  BY DEF Init, RegisterInv, StickInv, Pin, PressedIsPushed
<1> QED BY <1>1, <1>2, <1>3, <1>4 DEF Inv

\* What Light and Darken leave.
LEMMA PinStep ==
  ASSUME Inv, NEW p \in DigitPin, NEW value \in {0, 1}, Write(p, value), setter # "start",
         UNCHANGED <<switch, segVars, readVars, chars, bak, setVars>>,
         at \notin {"end", "copyLeft", "copyRight"},
         at' \in {"test", "loadLeft", "leftLit", "loadRight", "rightLit"},
         p = "left" => /\ at' # "rightLit" /\ at # "rightLit"
                       /\ value = IF at' = "leftLit" THEN bak[1].on ELSE 0,
         p = "right" => /\ at' # "leftLit" /\ at # "leftLit"
                        /\ value = IF at' = "rightLit" THEN bak[2].on ELSE 0,
         at' = "leftLit" => at = "lightLeft",
         at' = "rightLit" => at = "lightRight"
  PROVE  Inv'
<1> USE DEF Inv, setVars
<1>0. "stick" \in Pin /\ DigitPin \subseteq Pin /\ p # "stick"
  BY DEF Pin, DigitPin
<1>1. pin' = [pin EXCEPT ![p] = WritePin(pin[p], value)] /\ pin' \in [Pin -> APin]
  <2>1. pin[p] \in APin
    BY <1>0 DEF TypeOK, APin
  <2>2. WritePin(pin[p], value) \in APin
    BY <2>1, PinTypes
  <2> QED BY <2>2 DEF Write, TypeOK, APin
<1>2. TypeOK'
  BY <1>1 DEF TypeOK, APin
<1>3. PairInv'
  BY DEF PairInv, Whole
<1>4. PinInv'
  <2> SUFFICES ASSUME CanOpen
               PROVE  /\ \A q \in DigitPin : pin'[q].exported /\ pin'[q].status = "open"
                                             /\ pin'[q].dir = "out" /\ pin'[q].cached = "out"
                      /\ pin'["left"].level = IF at' = "leftLit" THEN bak[1].on ELSE 0
                      /\ pin'["right"].level = IF at' = "rightLit" THEN bak[2].on ELSE 0
    BY DEF PinInv, CanOpen
  <2>1. pin[p] \in APin
    BY <1>0 DEF TypeOK, APin
  <2>2. WritePin(pin[p], value) = [pin[p] EXCEPT !.level = value]
    BY <2>1, WriteOutput DEF PinInv
  <2>3. /\ pin'[p].exported /\ pin'[p].status = "open" /\ pin'[p].dir = "out"
        /\ pin'[p].cached = "out" /\ pin'[p].level = value
    BY <1>0, <1>1, <2>1, <2>2 DEF PinInv, APin, TypeOK
  <2>4. \A q \in DigitPin : q # p => pin'[q] = pin[q]
    BY <1>0, <1>1 DEF TypeOK
  <2>5. \A q \in DigitPin : pin'[q].exported /\ pin'[q].status = "open"
                            /\ pin'[q].dir = "out" /\ pin'[q].cached = "out"
    BY <2>3, <2>4 DEF PinInv
  <2>6. CASE p = "left"
    BY <2>3, <2>4, <2>5, <2>6 DEF PinInv, DigitPin
  <2>7. CASE p = "right"
    BY <2>3, <2>4, <2>5, <2>7 DEF PinInv, DigitPin
  <2> QED BY <2>6, <2>7 DEF DigitPin
<1>5. RegisterInv'
  BY DEF RegisterInv, Shows
<1>6. StickInv' /\ PressedIsPushed'
  BY <1>0, <1>1 DEF StickInv, PressedIsPushed, TypeOK
<1> QED BY <1>2, <1>3, <1>4, <1>5, <1>6

LEMMA InitStick ==
  ASSUME NEW p \in APin, p.status = "open" => p.exported, p.cached = "in" => p.dir = "in"
  PROVE  LET q == SetDirection(InitPin(p), "in")
         IN q \in APin /\ (q.status = "open" => q.exported) /\ (q.cached = "in" => q.dir = "in")
<1>1. CASE CanOpen
  <2> DEFINE r == InitPin(p)
  <2>1. r \in APin /\ r.exported
    BY <1>1 DEF InitPin, OpenPin, GetDirection, APin
  <2> HIDE DEF r
  <2>2. LET q == SetDirection(r, "in")
        IN q \in APin /\ (q.status = "open" => q.exported) /\ (q.cached = "in" => q.dir = "in")
    BY <1>1, <2>1 DEF SetDirection, APin
  <2> QED BY <2>2 DEF r
<1>2. CASE ~CanOpen
  BY <1>2 DEF InitPin, OpenPin, GetDirection, SetDirection
<1> QED BY <1>1, <1>2

LEMMA InitStep == Inv /\ SegDisplayInit => Inv'
<1> SUFFICES ASSUME Inv, SegDisplayInit PROVE Inv'
  OBVIOUS
<1> USE DEF Inv, SegDisplayInit
<1>0. "stick" \in Pin /\ DigitPin \subseteq Pin /\ "stick" \notin DigitPin
  BY DEF Pin, DigitPin
<1>1. pin \in [Pin -> APin]
  BY DEF TypeOK, APin
<1>2. \A p \in Pin : WritePin(InitPin(pin[p]), 0) \in APin
  BY <1>1, PinTypes
<1>3. pin' \in [Pin -> APin]
  BY <1>1, <1>2
<1>4. TypeOK'
  BY <1>3 DEF TypeOK, APin
<1>5. PairInv'
  BY DEF PairInv, PinInv, Whole
<1>6. PinInv'
  <2> SUFFICES ASSUME CanOpen, NEW p \in DigitPin
               PROVE  pin'[p].exported /\ pin'[p].status = "open" /\ pin'[p].dir = "out"
                      /\ pin'[p].cached = "out" /\ pin'[p].level = 0
    BY DEF PinInv, DigitPin, CanOpen
  <2>1. pin'[p] = WritePin(InitPin(pin[p]), 0) /\ pin[p] \in APin
    BY <1>0, <1>1
  <2> QED BY <2>1, InitOutput
<1>7. RegisterInv'
  BY DEF RegisterInv, Shows
<1>8. StickInv' /\ PressedIsPushed'
  BY <1>0 DEF StickInv, PressedIsPushed
<1> QED BY <1>4, <1>5, <1>6, <1>7, <1>8

LEMMA BothStep == Inv /\ BothDark => Inv'
<1> SUFFICES ASSUME Inv, BothDark PROVE Inv'
  OBVIOUS
<1> USE DEF Inv, BothDark, setVars
<1>0. "stick" \in Pin /\ DigitPin \subseteq Pin /\ "stick" \notin DigitPin
  BY DEF Pin, DigitPin
<1>1. pin \in [Pin -> APin]
  BY DEF TypeOK, APin
<1>2. \A p \in Pin : WritePin(pin[p], 0) \in APin
  BY <1>1, PinTypes
<1>3. pin' \in [Pin -> APin]
  BY <1>1, <1>2
<1>4. TypeOK'
  BY <1>3 DEF TypeOK, APin
<1>5. PairInv'
  BY DEF PairInv, Whole
<1>6. PinInv'
  <2>0. setter # "start"
    BY DEF PinInv
  <2> SUFFICES ASSUME CanOpen, NEW p \in DigitPin
               PROVE  pin'[p].exported /\ pin'[p].status = "open" /\ pin'[p].dir = "out"
                      /\ pin'[p].cached = "out" /\ pin'[p].level = 0
    BY <2>0 DEF PinInv, DigitPin, CanOpen
  <2>1. pin'[p] = WritePin(pin[p], 0) /\ pin[p] \in APin
    BY <1>0, <1>1
  <2>2. WritePin(pin[p], 0) = [pin[p] EXCEPT !.level = 0]
    BY <2>0, <2>1, WriteOutput DEF PinInv
  <2> QED BY <2>0, <2>1, <2>2 DEF PinInv, APin
<1>7. RegisterInv'
  BY DEF RegisterInv, Shows
<1>8. StickInv' /\ PressedIsPushed'
  BY <1>0 DEF StickInv, PressedIsPushed
<1> QED BY <1>4, <1>5, <1>6, <1>7, <1>8

\* SegDisplay_SetChars, called with a text or with a number's digits.
LEMMA SetStep ==
  ASSUME Inv, NEW text \in Char \X Char, SetChars(text),
         NUL \notin {text[1], text[2]} => Whole(<<Glyph(text[1]), Glyph(text[2])>>)
  PROVE  Inv'
<1> USE DEF Inv, SetChars, panel
<1>1. chars' \in Shape \X Shape /\ right' \in Char /\ setter' \in {"idle", "set"}
  <2>1. CASE chars' = [chars EXCEPT ![1].on = 0] /\ UNCHANGED <<setter, right>>
    BY <2>1 DEF TypeOK, Shape
  <2>2. CASE chars' = [chars EXCEPT ![2].on = 0] /\ UNCHANGED <<setter, right>>
    BY <2>2 DEF TypeOK, Shape
  <2>3. CASE chars' = [chars EXCEPT ![1] = Glyph(text[1])] /\ setter' = "set" /\ right' = text[2]
    <3>1. Glyph(text[1]) \in Shape
      BY GlyphType
    <3> QED BY <2>3, <3>1 DEF TypeOK
  <2> QED BY <2>1, <2>2, <2>3
<1>2. TypeOK'
  BY <1>1 DEF TypeOK
<1>3. PairInv'
  <2>1. setter' = "set" => Whole(<<chars'[1], Glyph(right')>>)
    <3> SUFFICES ASSUME setter' = "set" PROVE Whole(<<chars'[1], Glyph(right')>>)
      OBVIOUS
    <3>1. /\ NUL \notin {text[1], text[2]} /\ right' = text[2]
          /\ chars' = [chars EXCEPT ![1] = Glyph(text[1])]
      OBVIOUS
    <3>2. chars'[1] = Glyph(text[1])
      BY <3>1 DEF TypeOK
    <3> QED BY <3>1, <3>2
  <2>2. at # "copyRight"
    BY DEF PairInv
  <2> QED BY <2>1, <2>2 DEF PairInv, Whole
<1>4. PinInv'
  BY <1>1 DEF PinInv, CanOpen
<1>5. RegisterInv' /\ StickInv' /\ PressedIsPushed'
  BY DEF RegisterInv, Shows, StickInv, PressedIsPushed
<1> QED BY <1>2, <1>3, <1>4, <1>5

\* Every step keeps the invariant.
LEMMA StepInv == Inv /\ [Next]_vars => Inv'
<1> SUFFICES ASSUME Inv, [Next]_vars PROVE Inv'
  OBVIOUS
<1>0. /\ pin["stick"] \in APin /\ (pin["stick"].status = "open" => pin["stick"].exported)
      /\ (pin["stick"].cached = "in" => pin["stick"].dir = "in")
      /\ switch \in BOOLEAN /\ files \in files..MaxFiles
      /\ pressed \in BOOLEAN /\ held \in BOOLEAN /\ blind \in BOOLEAN
      /\ pressed <=> held \/ blind
  BY DisplayAssumption DEF Inv, TypeOK, StickInv, PressedIsPushed, APin, Pin
<1>1. CASE JoystickInit
  <2> DEFINE q == SetDirection(InitPin(pin["stick"]), "in")
  <2>1. q \in APin /\ (q.status = "open" => q.exported) /\ (q.cached = "in" => q.dir = "in")
    BY <1>0, InitStick
  <2>2. Stick(q)
    BY <1>1 DEF JoystickInit
  <2> HIDE DEF q
  <2> QED BY <1>0, <1>1, <2>1, <2>2, StickStep DEF JoystickInit
<1>2. CASE DirectionPressed
  <2> DEFINE q == ForReading(pin["stick"])
  <2>1. /\ q \in APin /\ (q.status = "open" => q.exported) /\ (q.cached = "in" => q.dir = "in")
        /\ Value(q) = 0 <=> switch \/ ~CanOpen
    BY <1>0, ReadStick
  <2>2. Stick(q) /\ pressed' \in BOOLEAN /\ files' \in files..MaxFiles
    BY <1>0, <1>2, DisplayAssumption DEF DirectionPressed, CanOpen, Inv, TypeOK
  <2>3. /\ held' \in BOOLEAN /\ blind' \in BOOLEAN
        /\ pressed' <=> held' \/ blind'
    BY <1>0, <1>2, <2>1 DEF DirectionPressed
  <2> HIDE DEF q
  <2> QED BY <1>0, <1>2, <2>1, <2>2, <2>3, StickStep DEF DirectionPressed
<1>3. CASE ClosePin
  <2> DEFINE q == [pin["stick"] EXCEPT !.exported = FALSE, !.status = "closed"]
  <2>1. q \in APin /\ q.status = "closed" /\ (q.cached = "in" => q.dir = "in")
    BY <1>0 DEF APin
  <2>2. Stick(q)
    BY <1>3 DEF ClosePin
  <2> HIDE DEF q
  <2> QED BY <1>0, <1>3, <2>1, <2>2, StickStep DEF ClosePin
<1>4. CASE Push
  <2>1. Stick(pin["stick"])
    BY <1>4 DEF Push, Stick, Inv, TypeOK, Pin
  <2>2. switch' \in BOOLEAN
    BY <1>4 DEF Push
  <2> QED BY <1>0, <1>4, <2>1, <2>2, StickStep DEF Push
<1>5. ASSUME NEW text \in Text, SetChars(text) PROVE Inv'
  <2>1. text \in Char \X Char
    BY DisplayAssumption
  <2>2. NUL \notin {text[1], text[2]} => Whole(<<Glyph(text[1]), Glyph(text[2])>>)
    BY DEF Whole
  <2> QED BY <1>5, <2>1, <2>2, SetStep
<1>6. ASSUME NEW val \in Number, SetChars(Digits(val)) PROVE Inv'
  <2>1. Digits(val) \in Char \X Char
    <3>1. val \in Int
      BY DisplayAssumption
    <3> QED BY <3>1, DigitsOf DEF Digit, Char
  <2>2. Whole(<<Glyph(Digits(val)[1]), Glyph(Digits(val)[2])>>)
    BY DEF Whole
  <2> QED BY <1>6, <2>1, <2>2, SetStep
<1>7. CASE SetRight
  <2>1. Glyph(right) \in Shape
    BY GlyphType DEF Inv, TypeOK
  <2>2. TypeOK'
    BY <1>7, <2>1 DEF SetRight, panel, Inv, TypeOK, Char, NUL
  <2>3. chars' = <<chars[1], Glyph(right)>>
    BY <1>7, <2>1 DEF SetRight, Inv, TypeOK
  <2>4. PairInv'
    BY <1>7, <2>3 DEF SetRight, Inv, PairInv, Whole
  <2>5. PinInv' /\ RegisterInv' /\ StickInv' /\ PressedIsPushed'
    BY <1>7 DEF SetRight, panel, Inv, PinInv, RegisterInv, Shows, StickInv, CanOpen,
       PressedIsPushed
  <2> QED BY <2>2, <2>4, <2>5 DEF Inv
<1>8. CASE Stop
  <2>1. TypeOK'
    BY <1>8 DEF Stop, panel, Inv, TypeOK
  <2>2. PairInv'
    BY <1>8 DEF Stop, panel, Inv, PairInv, Whole
  <2>3. PinInv' /\ RegisterInv' /\ StickInv' /\ PressedIsPushed'
    BY <1>8 DEF Stop, panel, Inv, PinInv, RegisterInv, Shows, StickInv, CanOpen,
       PressedIsPushed
  <2> QED BY <2>1, <2>2, <2>3 DEF Inv
<1>9. CASE Joined
  <2>1. TypeOK'
    BY <1>9 DEF Joined, Inv, TypeOK
  <2>2. PairInv'
    BY <1>9 DEF Joined, Inv, PairInv, Whole
  <2>3. PinInv' /\ RegisterInv' /\ StickInv' /\ PressedIsPushed'
    BY <1>9 DEF Joined, Inv, PinInv, RegisterInv, Shows, StickInv, CanOpen,
       PressedIsPushed
  <2> QED BY <2>1, <2>2, <2>3 DEF Inv
<1>10. CASE CopyLeft
  <2>1. bak' = <<chars[1], bak[2]>> /\ chars \in Shape \X Shape /\ bak \in Shape \X Shape
    BY <1>10 DEF CopyLeft, Inv, TypeOK
  <2>2. TypeOK'
    BY <1>10, <2>1 DEF CopyLeft, panel, Inv, TypeOK
  <2>3. PairInv'
    BY <1>10, <2>1 DEF CopyLeft, LockFree, Inv, PairInv, Whole
  <2>4. PinInv' /\ RegisterInv' /\ StickInv' /\ PressedIsPushed'
    BY <1>10 DEF CopyLeft, panel, Inv, PinInv, RegisterInv, Shows, StickInv, CanOpen,
       PressedIsPushed
  <2> QED BY <2>2, <2>3, <2>4 DEF Inv
<1>11. CASE CopyRight
  <2>1. bak' = <<bak[1], chars[2]>> /\ chars \in Shape \X Shape /\ bak \in Shape \X Shape
    BY <1>11 DEF CopyRight, Inv, TypeOK
  <2>2. TypeOK'
    BY <1>11, <2>1 DEF CopyRight, panel, Inv, TypeOK
  <2>3. bak' = chars
    BY <1>11, <2>1 DEF CopyRight, Inv, PairInv
  <2>4. PairInv'
    BY <1>11, <2>3 DEF CopyRight, Inv, PairInv, Whole
  <2>5. PinInv' /\ RegisterInv' /\ StickInv' /\ PressedIsPushed'
    BY <1>11 DEF CopyRight, panel, Inv, PinInv, RegisterInv, Shows, StickInv, CanOpen,
       PressedIsPushed
  <2> QED BY <2>2, <2>4, <2>5 DEF Inv
<1>12. CASE Test
  <2>1. at' \in {"copyLeft", "end"}
    BY <1>12 DEF Test, FirstStep
  <2>2. TypeOK'
    BY <1>12, <2>1 DEF Test, panel, setVars, Inv, TypeOK
  <2>3. PairInv' /\ RegisterInv'
    BY <1>12, <2>1 DEF Test, panel, setVars, Inv, PairInv, Whole, RegisterInv, Shows
  <2>4. PinInv' /\ StickInv' /\ PressedIsPushed'
    BY <1>12, <2>1 DEF Test, panel, setVars, Inv, PinInv, StickInv, CanOpen,
       PressedIsPushed
  <2> QED BY <2>2, <2>3, <2>4 DEF Inv
<1>13. ASSUME NEW k \in {1, 2}, NEW a \in {"loadLeft", "loadRight"},
              NEW b \in {"lightLeft", "lightRight"}, Load(k, a, b),
              k = 1 <=> b = "lightLeft"
       PROVE  Inv'
  <2>1. bak[1].digit \in Digit \cup {NUL} /\ bak[2].digit \in Digit \cup {NUL}
    BY DEF Inv, TypeOK, Shape
  <2>2. PICK sent \in SUBSET (1..2) :
          /\ register' = [half \in 1..2 |->
                           IF half \in sent THEN bak[k].digit ELSE register[half]]
          /\ lost' = (sent # 1..2)
    BY <1>13 DEF Load
  <2>3. register' \in [1..2 -> Digit \cup {NUL}] /\ lost' \in BOOLEAN
    BY <2>1, <2>2 DEF Inv, TypeOK
  <2>4. ~lost' => \A half \in 1..2 : register'[half] = bak[k].digit
    BY <2>2
  <2>5. TypeOK'
    BY <1>13, <2>3 DEF Load, setVars, Inv, TypeOK
  <2>6. PairInv'
    BY <1>13 DEF Load, setVars, Inv, PairInv, Whole
  <2>7. RegisterInv'
    BY <1>13, <2>4 DEF Load, setVars, RegisterInv, Shows
  <2>8. PinInv' /\ StickInv' /\ PressedIsPushed'
    BY <1>13 DEF Load, setVars, Inv, PinInv, StickInv, CanOpen,
       PressedIsPushed
  <2> QED BY <2>5, <2>6, <2>7, <2>8 DEF Inv
<1>14. bak[1].on \in {0, 1} /\ bak[2].on \in {0, 1}
  BY DEF Inv, TypeOK, Shape
<1>15. at # "end" => setter # "start"
  BY DEF Inv, PinInv
<1>16. CASE Light("left", 1, "lightLeft", "leftLit")
  BY <1>14, <1>15, <1>16, PinStep DEF Light, DigitPin
<1>17. CASE Light("right", 2, "lightRight", "rightLit")
  BY <1>14, <1>15, <1>17, PinStep DEF Light, DigitPin
<1>18. CASE Darken("left", "leftLit", "loadRight")
  BY <1>15, <1>18, PinStep DEF Darken, LeftDark, DigitPin
<1>19. CASE Darken("right", "rightLit", "test")
  BY <1>15, <1>19, PinStep DEF Darken, DigitPin
<1>20. CASE UNCHANGED vars
  <2>1. TypeOK'
    BY <1>20 DEF vars, panel, setVars, Inv, TypeOK
  <2>2. PairInv'
    BY <1>20 DEF vars, panel, setVars, Inv, PairInv, Whole
  <2>3. PinInv' /\ RegisterInv' /\ StickInv' /\ PressedIsPushed'
    BY <1>20 DEF vars, panel, setVars, Inv, PinInv, RegisterInv, Shows, StickInv, CanOpen,
       PressedIsPushed
  <2> QED BY <2>1, <2>2, <2>3 DEF Inv
<1> QED
  BY <1>1, <1>2, <1>3, <1>4, <1>5, <1>6, <1>7, <1>8, <1>9, <1>10, <1>11, <1>12, <1>13,
     <1>16, <1>17, <1>18, <1>19, <1>20, InitStep, BothStep
  DEF Next, Set, Refresh

LEMMA InvAlways == Spec => []Inv
  BY InitInv, StepInv, PTL DEF Spec

------------------------------------------------------------------------------
(* What follows.                                                           *)

\* Pins, files, characters and places keep their types.
THEOREM TypeCorrectness == Spec => []TypeOK
<1>1. Inv => TypeOK
  BY DEF Inv
<1> QED BY <1>1, InvAlways, PTL

\* Without files nothing comes of a write.
LEMMA NoFiles ==
  ASSUME ~CanOpen, NEW p, NEW value
  PROVE  WritePin(p, value) = p /\ InitPin(p) = p
<1>1. OpenPin(p) = p /\ GetDirection(p) = p /\ \A d : SetDirection(p, d) = p
  BY DEF OpenPin, GetDirection, SetDirection
<1>2. Ready(p, "out") = p
  BY <1>1 DEF Ready
<1> QED BY <1>1, <1>2 DEF InitPin, WritePin

\* Nobody writes the digits' pins before the display is initialised or when the
\* files have run out.
LEMMA DigitsStay ==
  ASSUME Inv, [Next]_vars, ~CanOpen' \/ setter' = "start", NEW p \in DigitPin
  PROVE  pin'[p] = pin[p]
<1>0. p \in Pin /\ p # "stick" /\ pin \in [Pin -> APin]
  BY DEF DigitPin, Pin, Inv, TypeOK, APin
<1>1. CASE JoystickInit \/ DirectionPressed \/ ClosePin
  BY <1>0, <1>1 DEF JoystickInit, DirectionPressed, ClosePin, Stick
<1>2. CASE SegDisplayInit
  <2>1. ~CanOpen
    BY <1>2 DEF SegDisplayInit, CanOpen
  <2> QED BY <1>0, <1>2, <2>1, NoFiles DEF SegDisplayInit
<1>3. ASSUME at # "end", setter' = setter, files' = files PROVE ~CanOpen
  BY <1>3 DEF Inv, PinInv, CanOpen
<1>4. CASE BothDark
  <2>1. ~CanOpen
    BY <1>3, <1>4 DEF BothDark, setVars
  <2> QED BY <1>0, <1>4, <2>1, NoFiles DEF BothDark
<1>5. ASSUME NEW q \in DigitPin, NEW value, Write(q, value), at # "end", setter' = setter,
             files' = files
      PROVE  pin'[p] = pin[p]
  <2>1. WritePin(pin[q], value) = pin[q]
    BY <1>3, <1>5, NoFiles
  <2> QED BY <1>0, <1>5, <2>1 DEF Write
<1>6. CASE Light("left", 1, "lightLeft", "leftLit")
  BY <1>5, <1>6 DEF Light, setVars, DigitPin
<1>7. CASE Light("right", 2, "lightRight", "rightLit")
  BY <1>5, <1>7 DEF Light, setVars, DigitPin
<1>8. CASE Darken("left", "leftLit", "loadRight")
  BY <1>5, <1>8 DEF Darken, LeftDark, setVars, DigitPin
<1>9. CASE Darken("right", "rightLit", "test")
  BY <1>5, <1>9 DEF Darken, setVars, DigitPin
<1>10. CASE \/ Push \/ Set \/ SetRight \/ Stop \/ Joined \/ CopyLeft \/ Test \/ CopyRight
            \/ Load(1, "loadLeft", "lightLeft") \/ Load(2, "loadRight", "lightRight")
            \/ UNCHANGED vars
  BY <1>10 DEF Push, Set, SetChars, SetRight, Stop, Joined, CopyLeft, Test, CopyRight, Load,
               vars, panel
<1> QED BY <1>1, <1>2, <1>4, <1>6, <1>7, <1>8, <1>9, <1>10 DEF Next, Refresh

\* Until the files run out, each digit is lit in its turn, with its own segments
\* unless a write failed, and none when the thread has ended; no step lights both.
THEOREM DigitsAreLitInTurn == Spec => DigitsInTurn
<1>1. Inv /\ setter # "start" /\ CanOpen =>
        /\ Lit("left") <=> at = "leftLit" /\ bak[1].on = 1
        /\ Lit("right") <=> at = "rightLit" /\ bak[2].on = 1
  <2> SUFFICES ASSUME Inv, setter # "start", CanOpen
               PROVE  /\ Lit("left") <=> at = "leftLit" /\ bak[1].on = 1
                      /\ Lit("right") <=> at = "rightLit" /\ bak[2].on = 1
    OBVIOUS
  <2>1. bak[1].on \in {0, 1} /\ bak[2].on \in {0, 1}
    BY DEF Inv, TypeOK, Shape
  <2> QED BY <2>1 DEF Inv, PinInv, Lit, DigitPin
<1>2. Inv =>
        (setter # "start" /\ CanOpen =>
           /\ Lit("left") <=> at = "leftLit" /\ bak[1].on = 1
           /\ Lit("right") <=> at = "rightLit" /\ bak[2].on = 1
           /\ Lit("left") /\ ~lost => Shows(1)
           /\ Lit("right") /\ ~lost => Shows(2))
  BY <1>1 DEF Inv, RegisterInv
<1>3. ASSUME Inv, Inv', [Next]_vars, Lit("left")', Lit("right")'
      PROVE  Lit("left") /\ Lit("right")
  <2>1. ~CanOpen' \/ setter' = "start"
    BY <1>3 DEF Inv, PinInv, Lit, DigitPin
  <2>2. pin'["left"] = pin["left"] /\ pin'["right"] = pin["right"]
    BY <1>3, <2>1, DigitsStay DEF DigitPin
  <2> QED BY <1>3, <2>2 DEF Lit
<1> QED BY <1>2, <1>3, InvAlways, PTL DEF Spec, DigitsInTurn

\* The digits that are refreshed were set together.
THEOREM PairsAreWhole == Spec => []WholePair
<1>1. Inv => WholePair
  BY WholeIsOne DEF Inv, PairInv, WholePair
<1> QED BY <1>1, InvAlways, PTL

\* A direction was reported as pressed if and only if its switch was held, until
\* the files run out; from then on every one is.
THEOREM PressedIsTrue == Spec => []PressedIsPushed
<1>1. Inv => PressedIsPushed
  BY DEF Inv
<1> QED BY <1>1, InvAlways, PTL

------------------------------------------------------------------------------
(* The end of the thread.                                                  *)

\* The steps before the thread to the end of its pass and of its loop.
Place == [end |-> 0, test |-> 1, rightLit |-> 2, lightRight |-> 3, loadRight |-> 4,
          leftLit |-> 5, lightLeft |-> 6, loadLeft |-> 7, dark |-> 8, copyRight |-> 9,
          copyLeft |-> 10]

\* Why the join of SegDisplay_Cleanup returns: once should_run is 0 the display's
\* thread begins no new pass, each of its steps is one nearer to its end, and
\* nobody holds the lock it may still want but a call that never gave it back
\* (seg_display.c:41-47, 154-166, 170-171).
CleanupProgresses ==
  [][ ~shouldRun /\ ~shouldRun' =>
        /\ at' # at => Place[at'] < Place[at]
        /\ lock = "free" \/ (lock = "display" /\ at = "copyRight") \/ Leaked ]_vars

\* Only the thread that joins the display's thread clears should_run, and it
\* calls nothing afterwards.
StopInv == ~shouldRun => setter \in {"start", "join", "done"}

LEMMA StopStep == Inv /\ StopInv /\ [Next]_vars => StopInv'
<1> SUFFICES ASSUME Inv, StopInv, [Next]_vars PROVE StopInv'
  OBVIOUS
<1> USE DEF StopInv
<1>1. CASE JoystickInit \/ DirectionPressed \/ ClosePin \/ Push
  BY <1>1 DEF JoystickInit, DirectionPressed, ClosePin, Push, setVars
<1>2. CASE SegDisplayInit \/ Stop \/ Joined \/ SetRight
  BY <1>2 DEF SegDisplayInit, Stop, Joined, SetRight
<1>3. ASSUME NEW text, SetChars(text) PROVE StopInv'
  BY <1>3 DEF SetChars
<1>4. CASE CopyLeft \/ Refresh
  BY <1>4 DEF CopyLeft, Refresh, Test, CopyRight, BothDark, Load, Light, Darken, setVars
<1>5. CASE UNCHANGED vars
  BY <1>5 DEF vars, setVars
<1> QED
  BY <1>1, <1>2, <1>3, <1>4, <1>5 DEF Next, Set

\* A step of the display's thread, when it is to stop, is one step nearer.
LEMMA NearerTheEnd ==
  ASSUME Inv, Next, ~shouldRun, ~shouldRun'
  PROVE  at' # at => Place[at'] < Place[at]
<1> SUFFICES ASSUME at' # at PROVE Place[at'] < Place[at]
  OBVIOUS
<1>1. CopyLeft \/ Refresh
  BY DEF Next, JoystickInit, DirectionPressed, ClosePin, Push, SegDisplayInit, Set, SetChars,
         SetRight, Stop, Joined
<1>2. \/ at = "test" /\ at' = "end"
      \/ at = "copyLeft" /\ at' = "copyRight"
      \/ at = "copyRight" /\ at' = "dark"
      \/ at = "dark" /\ at' = "loadLeft"
      \/ at = "loadLeft" /\ at' = "lightLeft"
      \/ at = "lightLeft" /\ at' = "leftLit"
      \/ at = "leftLit" /\ at' = "loadRight"
      \/ at = "loadRight" /\ at' = "lightRight"
      \/ at = "lightRight" /\ at' = "rightLit"
      \/ at = "rightLit" /\ at' = "test"
  BY <1>1 DEF CopyLeft, Refresh, Test, Continue, CopyRight, BothDark, Load, Light, Darken
<1> QED BY <1>2 DEF Place

\* What CleanupReturns rests on: the thread that Cleanup joins goes straight to
\* its end, and only a call that kept the lock can stop it.
THEOREM CleanupMovesOn == Spec => CleanupProgresses
<1>1. ASSUME Inv, StopInv, [Next]_vars, ~shouldRun, ~shouldRun'
      PROVE  /\ at' # at => Place[at'] < Place[at]
             /\ lock = "free" \/ (lock = "display" /\ at = "copyRight") \/ Leaked
  <2>1. at' # at => Place[at'] < Place[at]
    BY <1>1, NearerTheEnd DEF vars
  <2>2. lock = "free" \/ (lock = "display" /\ at = "copyRight") \/ Leaked
    BY <1>1 DEF Inv, TypeOK, PairInv, StopInv, Leaked
  <2> QED BY <2>1, <2>2
<1>2. Init => StopInv
  BY DEF Init, StopInv
<1> QED
  BY <1>1, <1>2, StopStep, InvAlways, PTL DEF Spec, CleanupProgresses
===============================================================================
