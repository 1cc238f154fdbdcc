---------------------------- MODULE InputDrivers ----------------------------
(* What the three providers do with one request for input - platform/linux/x11_input.py,
   win/desktop.py and mac/desktop.py - over the plans they share (scroll.py, typing_input.py).
   Every driver operator takes `done`: whether it succeeds.  A failed xdotool may have done its work;
   a refused SendInput has done none of that event; macOS builds every Quartz event before it posts
   the first, so a refusal there has sent nothing.  pyautogui's calls are external: they may fail
   with their work done or not. *)
EXTENDS Integers, Sequences, SequencesExt

CONSTANTS
  MAX_CLICKS, MAX_LINES,   \* the clamp of a scroll; the lines of one macOS event
  MAX_UNITS,               \* the UTF-16 units of one macOS event
  MaxInputFaults           \* bound

ASSUME DriverAssumption ==
  /\ MAX_CLICKS \in Nat \ {0} /\ 120 * MAX_CLICKS < 2^15   \* "stays inside the signed 16-bit delta"
  /\ MAX_LINES \in Nat \ {0} /\ MAX_UNITS \in Nat \ {0, 1} /\ MaxInputFaults \in Nat

VARIABLES
  os,       \* "x11", "windows" or "macos"
  down,     \* the keys and buttons that are down
  marked,    \* macOS: _held, the keys the provider pressed
  grip,     \* macOS: _held_button, or "none"
  clip,     \* the clipboard: "text", "image", "empty" or "typed"
  out,      \* what the application got of the call
  inputFaults

driverVars == <<os, down, marked, grip, clip, out, inputFaults>>

FaultNow == inputFaults < MaxInputFaults /\ inputFaults' = inputFaults + 1
NoFault == UNCHANGED inputFaults
Modifiers == {"ctrl", "shift"}
Buttons == {"left", "right"}

-----------------------------------------------------------------------------
(* The wheel (scroll.py): the notches of a request, and the events each provider makes of them. *)

Abs(n) == IF n < 0 THEN -n ELSE n
ClampClicks(n) == IF n < 1 THEN 1 ELSE IF n > MAX_CLICKS THEN MAX_CLICKS ELSE n
NormalizeRequest(amount, direction, horizontal) ==
  [clicks |-> ClampClicks(Abs(amount)),
   direction |-> IF direction # "" THEN direction
                 ELSE IF horizontal THEN (IF amount > 0 THEN "right" ELSE "left")
                 ELSE (IF amount > 0 THEN "up" ELSE "down")]

Horizontal(w) == w.direction \in {"left", "right"}
Signed(w) == IF w.direction \in {"up", "right"} THEN w.clicks ELSE -w.clicks
\* Mutant: one event, however far.
WholeChunks(total, limit) == <<total>>
Chunks(total, limit) ==
  LET sign == IF total < 0 THEN -1 ELSE 1
      size == Abs(total)
  IN [i \in 1..((size + limit - 1) \div limit) |->
        sign * (IF i * limit <= size THEN limit ELSE size - (i - 1) * limit)]

\* An event is its axis and how far, as its provider counts: X11 by buttons, Windows in 1/120 notches,
\* Quartz in lines, leftward.
WheelX11(w) ==
  <<<<CASE w.direction = "up" -> "4" [] w.direction = "down" -> "5"
        [] w.direction = "left" -> "6" [] w.direction = "right" -> "7", w.clicks>>>>
WheelWindows(w) == <<<<IF Horizontal(w) THEN "hwheel" ELSE "wheel", 120 * Signed(w)>>>>
WheelMac(w) ==
  LET lines == Chunks(Signed(w), MAX_LINES)
  IN [i \in DOMAIN lines |-> IF Horizontal(w) THEN <<"wheel2", -lines[i]>> ELSE <<"wheel1", lines[i]>>]
WheelEvents(w) ==
  CASE os = "x11" -> WheelX11(w) [] os = "windows" -> WheelWindows(w) [] os = "macos" -> WheelMac(w)

\* The modifiers an event comes with: the keyboard's, but on macOS those its provider put on it.
Flags == (IF os = "macos" THEN marked ELSE down) \cap Modifiers

-----------------------------------------------------------------------------
(* Keys: "a" a letter, "f20" a key macOS has no code for, "bad" no key.  xdotool alone knows its
   keysyms: it says so when the key is pressed. *)
KnownWindows(key) == key \in Modifiers \cup {"a", "f20"}
KnownMac(key) == key \in Modifiers \cup {"a"}
CheckKey(key) ==
  CASE os = "x11" -> TRUE [] os = "windows" -> KnownWindows(key) [] os = "macos" -> KnownMac(key)

After(key, up) == IF up THEN down \ {key} ELSE down \cup {key}
KeyX11(key, up, done) ==
  /\ os = "x11" /\ UNCHANGED <<marked, grip>>
  /\ \/ done /\ key # "bad" /\ down' = After(key, up) /\ NoFault
     \/ ~done /\ key = "bad" /\ UNCHANGED down /\ NoFault
     \/ ~done /\ key # "bad" /\ down' \in {down, After(key, up)} /\ FaultNow

\* One event: sent, or refused by a locked or disconnected session.
SendOne(after, done) ==
  IF done THEN down' = after /\ NoFault ELSE UNCHANGED down /\ FaultNow
KeyWindows(key, up, done) ==
  os = "windows" /\ SendOne(After(key, up), done) /\ UNCHANGED <<marked, grip>>

\* The key is noted once its event exists, and the event posted: nothing can fail between the two.
KeyMac(key, up, done) ==
  /\ os = "macos" /\ UNCHANGED grip
  /\ \/ /\ done /\ down' = After(key, up) /\ NoFault
        /\ marked' = IF up THEN marked \ {key} ELSE marked \cup {key}
     \/ ~done /\ UNCHANGED <<down, marked>> /\ FaultNow
PressKey(key, done) == KeyX11(key, FALSE, done) \/ KeyWindows(key, FALSE, done) \/ KeyMac(key, FALSE, done)
ReleaseKey(key, done) == KeyX11(key, TRUE, done) \/ KeyWindows(key, TRUE, done) \/ KeyMac(key, TRUE, done)

-----------------------------------------------------------------------------
(* Clicks.  A click of a button that is down releases it. *)
ClickActions == {"click", "double", "hover", "down", "up"}
Presses(action) == CASE action = "click" -> 1 [] action = "double" -> 2 [] OTHER -> 0
AfterClick(button, action) ==
  CASE action = "down" -> down \cup {button} [] action = "hover" -> down [] OTHER -> down \ {button}

\* An xdotool that is killed half-way may leave the button down.
ClickX11(button, action, done) ==
  /\ os = "x11" /\ UNCHANGED <<marked, grip>>
  /\ IF done THEN down' = AfterClick(button, action) /\ NoFault
     ELSE /\ FaultNow
          /\ down' \in {down, AfterClick(button, action)} \cup (IF Presses(action) > 0 THEN {down \cup {button}} ELSE {})
ClickWindows(button, action, done) ==
  /\ os = "windows" /\ UNCHANGED <<marked, grip>>
  /\ IF done \/ action \in {"down", "up"} THEN SendOne(AfterClick(button, action), done)
     ELSE FaultNow /\ down' \in {down, AfterClick(button, action)}

\* A plain click and a plain hover are pyautogui's; the rest is Quartz, whose events carry the held
\* modifiers and the click state, and whose moves are drags while a button is held.
ByQuartz(action) ==
  \/ action \in {"down", "up", "double"} \/ grip # "none"
  \/ action = "click" /\ marked \cap Modifiers # {}
ClickMac(button, action, done) ==
  /\ os = "macos" /\ UNCHANGED marked
  /\ \/ /\ done /\ NoFault
        /\ down' = AfterClick(button, action)
        /\ grip' = CASE action = "down" -> button
                     [] action = "up" /\ button = grip -> "none"
                     [] OTHER -> grip
     \/ /\ ~done /\ FaultNow /\ UNCHANGED grip
        /\ down' \in {down} \cup (IF ByQuartz(action) THEN {} ELSE {AfterClick(button, action)})
ClickAt(button, action, done) ==
  ClickX11(button, action, done) \/ ClickWindows(button, action, done) \/ ClickMac(button, action, done)

\* Mutant: a move with a button down is no drag.
MoveMacPlain == "plain"
\* The pointer's way there, as the application sees it: macOS makes no drag of a plain move.
MoveMac == IF grip = "none" THEN "plain" ELSE "drag"
Motion == IF os = "macos" THEN MoveMac ELSE IF down \cap Buttons = {} THEN "plain" ELSE "drag"
Seen(action) ==
  [motion |-> Motion, clicks |-> Presses(action),
   flags |-> IF os = "macos" /\ ~ByQuartz(action) THEN {} ELSE Flags]

-----------------------------------------------------------------------------
(* Text as strokes (typing_input.py), a run of characters or a special key: "a", "e" (two UTF-16
   units), "cr", "lf", "tab".  A line end of two characters is one Enter, a run has at most `units`
   UTF-16 units, a character is never split. *)
Characters == {"a", "e", "cr", "lf", "tab"}
Units(source) == FoldSeq(LAMBDA c, sum : sum + (IF c = "e" THEN 2 ELSE 1), 0, source)
KeyOf(c) == IF c \in {"cr", "lf"} THEN "enter" ELSE IF c = "tab" THEN "tab" ELSE "none"
Stroke(source, key) == [source |-> source, key |-> key]

\* Mutant: a line end of two characters is two Enters.
AddCharOwnEnter(strokes, c, units) ==
  LET open == strokes # <<>> /\ KeyOf(c) = "none" /\ Last(strokes).key = "none"
              /\ Units(Last(strokes).source) + Units(<<c>>) <= units
  IN IF open THEN Append(Front(strokes), Stroke(Append(Last(strokes).source, c), Last(strokes).key))
     ELSE Append(strokes, Stroke(<<c>>, KeyOf(c)))
AddChar(strokes, c, units) ==
  LET last == IF strokes = <<>> THEN Stroke(<<>>, "tab") ELSE Last(strokes)
      joins == \/ c = "lf" /\ last.source = <<"cr">>
               \/ KeyOf(c) = "none" /\ last.key = "none" /\ Units(last.source) + Units(<<c>>) <= units
  IN IF joins THEN Append(Front(strokes), Stroke(Append(last.source, c), last.key))
     ELSE Append(strokes, Stroke(<<c>>, KeyOf(c)))
Plan(text, units) ==
  LET strokes[n \in 0..Len(text)] == IF n = 0 THEN <<>> ELSE AddChar(strokes[n - 1], text[n], units)
  IN strokes[Len(text)]

\* What an application gets of the first n strokes.
Pressed(strokes, n) ==
  LET got[k \in 0..n] ==
        IF k = 0 THEN <<>>
        ELSE got[k - 1] \o (IF strokes[k].key = "none" THEN strokes[k].source ELSE <<strokes[k].key>>)
  IN got[n]

\* X11 plans nothing: xdotool (external) takes the text as it is, types it character by character and
\* may stop anywhere; Windows sends stroke by stroke and stops at
\* a refusal, perhaps within one; macOS builds every event before it posts any.
TypeX11(text, done) ==
  /\ os = "x11" /\ UNCHANGED down
  /\ \/ done /\ out' = out \o text /\ NoFault
     \/ ~done /\ FaultNow /\ \E n \in 0..Len(text) : out' = out \o SubSeq(text, 1, n)
TypeWindows(text, done) ==
  LET strokes == Plan(text, 1) IN
  /\ os = "windows"
  /\ \/ done /\ out' = out \o Pressed(strokes, Len(strokes)) /\ NoFault /\ UNCHANGED down
     \/ /\ ~done /\ FaultNow
        /\ \E n \in 0..(Len(strokes) - 1) :
             LET next == strokes[n + 1]
             IN \/ out' = out \o Pressed(strokes, n) /\ UNCHANGED down
                \/ next.key = "none" /\ out' = out \o Pressed(strokes, n) \o <<"part">> /\ UNCHANGED down
                \/ next.key # "none" /\ out' = out \o Pressed(strokes, n + 1) /\ down' = down \cup {next.key}
TypeMac(text, done) ==
  LET strokes == Plan(text, MAX_UNITS) IN
  /\ os = "macos" /\ UNCHANGED down
  /\ \/ done /\ out' = out \o Pressed(strokes, Len(strokes)) /\ NoFault
     \/ ~done /\ UNCHANGED out /\ FaultNow
TypeUnicode(text, done) == TypeX11(text, done) \/ TypeWindows(text, done) \/ TypeMac(text, done)

\* type_text, before its text: the point clicked if one was given - which releases a button that is
\* down, and may leave it down where xdotool is killed half-way - then the field selected and deleted.
\* macOS asks first whether it may post at all.
StepsX11(clear) == <<"click">> \o (IF clear THEN <<"select", "delete">> ELSE <<>>)
StepsWindows(clear) == <<"click">> \o (IF clear THEN <<"select", "delete">> ELSE <<>>)
StepsMac(clear) == <<"permission", "click">> \o (IF clear THEN <<"select", "delete">> ELSE <<>>)
Prepared(steps) ==
  IF "delete" \in ToSet(steps) THEN <<>> ELSE IF "select" \in ToSet(steps) THEN <<"selected">> ELSE out
ClickedFirst(done) ==
  {down, AfterClick("left", "click")} \cup (IF os = "x11" /\ ~done THEN {down \cup {"left"}} ELSE {})
PrepareField(clear, done) ==
  LET steps == CASE os = "x11" -> StepsX11(clear) [] os = "windows" -> StepsWindows(clear)
                 [] os = "macos" -> StepsMac(clear)
  IN /\ down' \in ClickedFirst(done)
     /\ \/ done /\ out' = Prepared(steps) /\ NoFault
        \/ ~done /\ FaultNow /\ \E n \in 0..Len(steps) : out' = Prepared(SubSeq(steps, 1, n))

-----------------------------------------------------------------------------
(* The clipboard.  One that holds no text reads as "". *)
ClipText == IF clip \in {"text", "typed"} THEN clip ELSE ""

\* A write that fails may have done its work (xclip, pbcopy) or have only emptied it (Windows).
SetX11(to, done) ==
  os = "x11" /\ (IF done THEN clip' = to /\ NoFault ELSE clip' \in {clip, to} /\ FaultNow)
SetWindows(to, done) ==
  os = "windows" /\ (IF done THEN clip' = to /\ NoFault ELSE clip' \in {clip, "empty"} /\ FaultNow)
SetMac(to, done) ==
  os = "macos" /\ (IF done THEN clip' = to /\ NoFault ELSE clip' \in {clip, to} /\ FaultNow)
SetText(to, done) == SetX11(to, done) \/ SetWindows(to, done) \/ SetMac(to, done)

-----------------------------------------------------------------------------
\* The user may copy something else, and press a key or button that is down: it comes up again.
UserActs == down' \in {down, {}} /\ clip' \in {clip, "text", "image"} /\ UNCHANGED <<marked, grip>>

DriverIdle(name) ==
  /\ os = name /\ down = {} /\ marked = {} /\ grip = "none" /\ clip = "text" /\ out = <<>> /\ inputFaults = 0

(* The types of the providers' state. *)
DriverTypeOK ==
  /\ os \in {"x11", "windows", "macos"}
  /\ down \subseteq Modifiers \cup Buttons \cup {"a", "f20", "enter", "tab"}
  /\ marked \subseteq Modifiers \cup {"a"} /\ grip \in Buttons \cup {"none"}
  /\ os # "macos" => marked = {} /\ grip = "none"
  /\ clip \in {"text", "image", "empty", "typed"}
  /\ inputFaults \in 0..MaxInputFaults
==============================================================================
