-------------------------------- MODULE Display --------------------------------
(***************************************************************************)
(* The board's front panel: the two-digit display with its thread          *)
(* (seg_display.c), the joystick (Joystick.c), and the pins and the bus    *)
(* under them (GPIO.c, i2c.c).  The server links these files and does not  *)
(* call them; a panel's program would: one thread that sets what is shown  *)
(* and cleans up, and one that asks for the joystick.                      *)
(*                                                                         *)
(* The digits share one register for their segments: one is lit at a time. *)
(* A pin is a few files of sysfs.  GPIO_ReadPin never closes the one it    *)
(* opened, and the process runs out of files.                              *)
(***************************************************************************)
EXTENDS Integers

CONSTANTS
  Text,      \* pairs of characters for SegDisplay_SetChars
  Number,    \* numbers for SegDisplay_SetInt
  Found,     \* what the program may find a pin's hardware as
  MaxFiles   \* files that may be left open before fopen fails

Digit == 0..9   \* the characters '0' to '9', ...
Other == 10     \* ... any other one, ...
NUL   == 11     \* ... and '\0'
Char  == 0..11

ASSUME DisplayAssumption ==
  /\ Text \subseteq Char \X Char
  /\ Number \subseteq Int
  /\ Found \subseteq [exported : BOOLEAN, dir : {"in", "out"}, level : {0, 1}]
  /\ MaxFiles \in Nat

VARIABLES
  pin,        \* the pins: hardware, and what the program believes of it
  switch,     \* the joystick's switch holds its pin low
  files,      \* files left open
  bus,        \* the I2C bus was opened
  register,   \* the digits whose halves SEG_UPPER and SEG_LOWER hold
  chars,      \* left_char, right_char
  bak,        \* left_bak, right_bak
  lock,       \* who holds lock: "free", "setter", "display"
  setter,     \* where the thread stands that sets what is shown
  right,      \* the right character it has still to store
  at,         \* where the display's thread stands
  shouldRun,  \* should_run
  pressed,    \* what Joystick_DirectionPressed last returned
  lost,       \* history: the last load of a digit did not get through
  held, blind \* history: at the last call the switch was held, no file opened

segVars  == <<bus, register, lost>>
readVars == <<files, pressed, held, blind>>
panel    == <<pin, switch, segVars, readVars>>
setVars == <<lock, setter, right, shouldRun>>
vars  == <<panel, chars, bak, at, setVars>>

Pin   == {"left", "right", "stick"}
Blank == [on |-> 0, digit |-> NUL]
Dark  == <<Blank, Blank>>

\* The table chars, SegDisplay_CharToEnum: what is no digit looks like a zero.
Glyph(c) == [on |-> 1, digit |-> IF c \in Digit THEN c ELSE 0]

\* Before Init the hardware is as somebody left it and the caller's structs hold
\* anything; those of the joystick are initialised to OUT and CLOSED.
Before ==
  {[exported |-> f.exported, dir |-> f.dir, level |-> f.level, status |-> s, cached |-> d] :
     f \in Found, s \in {"open", "closed"}, d \in {"in", "out"}}

Init ==
  /\ pin \in [Pin -> Before]
  /\ pin["stick"].status = "closed" /\ pin["stick"].cached = "out"
  /\ switch \in BOOLEAN
  /\ files = 0
  /\ bus = FALSE
  /\ register = <<NUL, NUL>> /\ lost = FALSE
  /\ chars = Dark /\ bak = Dark
  /\ lock = "free" /\ setter = "start" /\ right = NUL
  /\ at = "end" /\ shouldRun = FALSE
  /\ pressed = FALSE /\ held = FALSE /\ blind = FALSE

------------------------------------------------------------------------------
(* GPIO.c: what its functions make of a pin p.                              *)

\* Plausible mistakes; no specification uses them.
KeepDirection(p) == p
LeaveLit         == UNCHANGED pin
UnlockedCopy     == TRUE
CopyOnce         == "dark"
Forever          == TRUE

CanOpen == files < MaxFiles

OpenPin(p) ==
  IF CanOpen THEN [p EXCEPT !.exported = TRUE, !.status = "open"] ELSE p

\* The file holds "in" or "out" and a newline: it never equals "out".
GetDirection(p) ==
  IF CanOpen /\ p.exported
  THEN [p EXCEPT !.cached = IF <<p.dir, "newline">> = <<"out">> THEN "out" ELSE "in"]
  ELSE p

InitPin(p) == GetDirection(OpenPin(p))

\* The kernel drives a pin low that becomes an output.
SetDirection(p, d) ==
  IF CanOpen /\ p.exported
  THEN [p EXCEPT !.dir = d, !.cached = d, !.level = 0]
  ELSE p

Ready(p, d) ==
  LET q == IF p.status = "closed" THEN OpenPin(p) ELSE p
  IN IF q.cached # d THEN SetDirection(q, d) ELSE q

\* The value of an input cannot be written; nobody looks whether it was.
WritePin(p, value) ==
  LET q == Ready(p, "out")
  IN IF CanOpen /\ q.exported /\ q.dir = "out" THEN [q EXCEPT !.level = value] ELSE q

ForReading(p) == Ready(p, "in")

\* The value file of an input shows the switch, that of an output its level.
Value(p) ==
  IF ~ (CanOpen /\ p.exported) THEN 0
  ELSE IF p.dir = "in" THEN (IF switch THEN 0 ELSE 1) ELSE p.level

------------------------------------------------------------------------------
(* The joystick.                                                            *)

Stick(p) == pin' = [pin EXCEPT !["stick"] = p]

JoystickInit ==
  /\ Stick(SetDirection(InitPin(pin["stick"]), "in"))
  /\ UNCHANGED <<switch, segVars, readVars, chars, bak, at, setVars>>

DirectionPressed ==
  LET p == ForReading(pin["stick"])
  IN /\ Stick(p)
     /\ pressed' = (Value(p) = 0)
     /\ files' = IF CanOpen /\ p.exported THEN files + 1 ELSE files
     /\ held' = switch /\ blind' = ~CanOpen
     /\ UNCHANGED <<switch, segVars, chars, bak, at, setVars>>

ClosePin ==
  /\ CanOpen
  /\ Stick([pin["stick"] EXCEPT !.exported = FALSE, !.status = "closed"])
  /\ UNCHANGED <<switch, segVars, readVars, chars, bak, at, setVars>>

Push ==
  /\ switch' = ~switch
  /\ UNCHANGED <<pin, segVars, readVars, chars, bak, at, setVars>>

------------------------------------------------------------------------------
(* The thread that sets what is shown.                                      *)

SegDisplayInit ==
  /\ setter = "start"
  /\ pin' = [p \in Pin |-> IF p = "stick" THEN pin[p] ELSE WritePin(InitPin(pin[p]), 0)]
  /\ bus' \in BOOLEAN /\ (bus' => CanOpen)
  /\ shouldRun' = TRUE
  /\ at' = "test"
  /\ setter' = "idle"
  /\ UNCHANGED <<switch, register, lost, readVars, chars, bak, lock, right>>

\* SegDisplay_SetChars.  An empty character ends the call inside the critical
\* section.
SetChars(text) ==
  /\ setter = "idle"
  /\ lock = "free" /\ lock' = "setter"
  /\ CASE text[1] = NUL ->
            chars' = [chars EXCEPT ![1].on = 0] /\ UNCHANGED <<setter, right>>
       [] text[1] # NUL /\ text[2] = NUL ->
            chars' = [chars EXCEPT ![2].on = 0] /\ UNCHANGED <<setter, right>>
       [] OTHER ->
            chars' = [chars EXCEPT ![1] = Glyph(text[1])] /\ setter' = "set"
            /\ right' = text[2]
  /\ UNCHANGED <<panel, bak, at, shouldRun>>

SetRight ==
  /\ setter = "set"
  /\ chars' = [chars EXCEPT ![2] = Glyph(right)]
  /\ lock' = "free"
  /\ setter' = "idle"
  /\ right' = NUL
  /\ UNCHANGED <<panel, bak, at, shouldRun>>

\* SegDisplay_SetInt.
Digits(val) ==
  LET v == IF val > 99 THEN 99 ELSE IF val < 0 THEN 0 ELSE val
  IN <<v \div 10, v % 10>>

Set == (\E text \in Text : SetChars(text)) \/ (\E val \in Number : SetChars(Digits(val)))

\* SegDisplay_Cleanup.
Stop ==
  /\ setter = "idle"
  /\ shouldRun' = FALSE
  /\ setter' = "join"
  /\ UNCHANGED <<panel, chars, bak, lock, right, at>>

Joined ==
  /\ setter = "join" /\ at = "end"
  /\ bus' = FALSE
  /\ setter' = "done"
  /\ UNCHANGED <<pin, switch, register, lost, readVars, chars, bak, lock, right, at,
                 shouldRun>>

------------------------------------------------------------------------------
(* SegDisplay_Thread.                                                       *)

Goto(a, b) == at = a /\ at' = b

Continue  == shouldRun
FirstStep == "copyLeft"

Test ==
  /\ at = "test"
  /\ at' = IF Continue THEN FirstStep ELSE "end"
  /\ UNCHANGED <<panel, chars, bak, setVars>>

LockFree == lock = "free"

CopyLeft ==
  /\ Goto("copyLeft", "copyRight")
  /\ LockFree
  /\ lock' = "display"
  /\ bak' = [bak EXCEPT ![1] = chars[1]]
  /\ UNCHANGED <<panel, chars, setter, right, shouldRun>>

CopyRight ==
  /\ Goto("copyRight", "dark")
  /\ bak' = [bak EXCEPT ![2] = chars[2]]
  /\ lock' = "free"
  /\ UNCHANGED <<panel, chars, setter, right, shouldRun>>

BothDark ==
  /\ Goto("dark", "loadLeft")
  /\ pin' = [p \in Pin |-> IF p = "stick" THEN pin[p] ELSE WritePin(pin[p], 0)]
  /\ UNCHANGED <<switch, segVars, readVars, chars, bak, setVars>>

\* I2C_WriteRegister, twice: a write may fail, which is printed, and nobody else
\* is told.
Load(k, a, b) ==
  /\ Goto(a, b)
  /\ \E sent \in SUBSET (1..2) :
       /\ bus \/ sent = {}
       /\ register' = [half \in 1..2 |->
                        IF half \in sent THEN bak[k].digit ELSE register[half]]
       /\ lost' = (sent # 1..2)
  /\ UNCHANGED <<pin, switch, bus, readVars, chars, bak, setVars>>

Write(p, value) == pin' = [pin EXCEPT ![p] = WritePin(pin[p], value)]

Light(p, k, a, b) ==
  /\ Goto(a, b)
  /\ Write(p, bak[k].on)
  /\ UNCHANGED <<switch, segVars, readVars, chars, bak, setVars>>

LeftDark == Write("left", 0)

Darken(p, a, b) ==
  /\ Goto(a, b)
  /\ IF p = "left" THEN LeftDark ELSE Write(p, 0)
  /\ UNCHANGED <<switch, segVars, readVars, chars, bak, setVars>>

Refresh ==
  \/ Test \/ CopyRight \/ BothDark
  \/ Load(1, "loadLeft", "lightLeft")
  \/ Light("left", 1, "lightLeft", "leftLit")
  \/ Darken("left", "leftLit", "loadRight")
  \/ Load(2, "loadRight", "lightRight")
  \/ Light("right", 2, "lightRight", "rightLit")
  \/ Darken("right", "rightLit", "test")

Next ==
  \/ JoystickInit \/ DirectionPressed \/ ClosePin \/ Push
  \/ SegDisplayInit \/ Set \/ SetRight \/ Stop \/ Joined
  \/ CopyLeft \/ Refresh

\* Threads that can run do; the lock is free again and again.
Fairness == WF_vars(Refresh) /\ SF_vars(CopyLeft) /\ WF_vars(SetRight) /\ WF_vars(Joined)

Spec == Init /\ [][Next]_vars /\ Fairness

------------------------------------------------------------------------------
Shape == [on : {0, 1}, digit : Digit \cup {NUL}]

TypeOK ==
  /\ pin \in [Pin -> [exported : BOOLEAN, dir : {"in", "out"}, level : {0, 1},
                      status : {"open", "closed"}, cached : {"in", "out"}]]
  /\ switch \in BOOLEAN /\ bus \in BOOLEAN
  /\ shouldRun \in BOOLEAN /\ pressed \in BOOLEAN
  /\ lost \in BOOLEAN /\ held \in BOOLEAN /\ blind \in BOOLEAN
  /\ files \in 0..MaxFiles
  /\ register \in [1..2 -> Digit \cup {NUL}]
  /\ chars \in Shape \X Shape /\ bak \in Shape \X Shape
  /\ lock \in {"free", "setter", "display"}
  /\ setter \in {"start", "idle", "set", "join", "done"} /\ right \in Char
  /\ at \in {"end", "test", "copyLeft", "copyRight", "dark", "loadLeft",
             "lightLeft", "leftLit", "loadRight", "lightRight", "rightLit"}

Lit(p) == pin[p].dir = "out" /\ pin[p].level = 1

Shows(k) == \A half \in 1..2 : register[half] = bak[k].digit

\* A call of SetChars left the lock held.
Leaked == lock = "setter" /\ setter # "set"

\* Once the display was initialised and until the files run out, the digits are
\* lit as they should be: each in its turn, and none when the thread has ended,
\* whatever was found on the pins and whatever direction the program took them
\* for (GPIO.c:112, seg_display.c:49-64).  A digit shows its own segments if the
\* writes for it went through; if one did not it is lit all the same
\* (i2c.c:60-62).  And whether there are files or not, no step comes to light
\* both: where one can no longer be darkened, the other is never lit.
DigitsInTurn ==
  /\ [](setter # "start" /\ CanOpen =>
          /\ Lit("left") <=> at = "leftLit" /\ bak[1].on = 1
          /\ Lit("right") <=> at = "rightLit" /\ bak[2].on = 1
          /\ Lit("left") /\ ~lost => Shows(1)
          /\ Lit("right") /\ ~lost => Shows(2))
  /\ [][ Lit("left")' /\ Lit("right")' => Lit("left") /\ Lit("right") ]_vars

\* What is refreshed was set by one call: the digits of one text or number,
\* with numbers cut to 0..99 (seg_display.c:42-47, 137-166).
WholePair ==
  at # "copyRight" =>
    \/ bak = Dark
    \/ \E text \in Text : NUL \notin {text[1], text[2]}
                          /\ bak = <<Glyph(text[1]), Glyph(text[2])>>
    \/ \E val \in Number : LET n == 10 * bak[1].digit + bak[2].digit
                           IN /\ bak[1].digit \in Digit /\ bak[2].digit \in Digit
                              /\ \/ n = val
                                 \/ val < 0 /\ n = 0
                                 \/ val > 99 /\ n = 99

\* A direction was reported as pressed if and only if its switch was held then,
\* also for a pin that was not initialised or was closed before.  When the files
\* have run out it is always reported as pressed, for good (GPIO.c:59-61,
\* Joystick.c:40).
PressedIsPushed == pressed <=> held \/ blind

\* What was set comes to be refreshed, unless it is replaced, the display is
\* shut down or a call left the lock held (seg_display.c:154).
SetIsShown ==
  \A text \in Text :
    LET pair == <<Glyph(text[1]), Glyph(text[2])>>
    IN chars = pair /\ lock = "free" ~> bak = pair \/ chars # pair \/ Leaked \/ ~shouldRun

\* SegDisplay_Cleanup returns, unless a call left the lock held.
CleanupReturns == setter = "join" ~> setter = "done" \/ Leaked
===============================================================================
