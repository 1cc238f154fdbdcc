----------------------------- MODULE InputTools -----------------------------
(* The tools that send input - HoldKey, Click, Scroll, Move, Shortcut and Type (tools/desktop.py) -
   with what they share: input_keys.py's held_keys and text_entry.py, over a provider (InputDrivers).
   One tool works at a time: they share the desktop's one slot (TaskManager).  Any step may fail. *)
EXTENDS InputDrivers

CONSTANTS
  KeyLists,        \* what a tool may be asked to hold, sequences of keys
  Amounts,         \* Scroll's amounts
  Texts,           \* what Type may be given
  Repeats, MAX_REPEAT,   \* Shortcut's repeats, and the most it takes
  DragSteps

\* "bad" stands for every name that is no key.
ASSUME InputAssumption ==
  /\ DragSteps \in Nat \ {0} /\ MAX_REPEAT \in Nat \ {0}
  /\ KeyLists \subseteq Seq(Modifiers \cup {"a", "f20", "bad"})
  /\ Texts \subseteq Seq(Characters) /\ Amounts \subseteq Int

VARIABLES
  task,       \* the tool call at work, or the last one
  stuck,      \* history: what this call failed to release, or pressed by a command that failed
  lastDown    \* history: the button the last Click "down" pressed, while it is down

inputVars == <<driverVars, task, stuck, lastDown>>

NoTask == [tool |-> "none", step |-> "over", keys |-> <<>>, held |-> <<>>, text |-> <<>>, button |-> "none",
           action |-> "", clear |-> FALSE, before |-> {}, clipBefore |-> "text", saved |-> "",
           failed |-> FALSE, reply |-> "none"]
Step(step) == task' = [task EXCEPT !.step = step]
FailTo(step) == task' = [task EXCEPT !.step = step, !.failed = TRUE]
Answer(reply) == task' = [task EXCEPT !.step = "over", !.reply = reply]

\* What a failing command for `key` has left down, or was to release.
Lingers(keys) == stuck' = stuck \cup (down' \ down) \cup keys

Begin(record) ==
  /\ task.step = "over" /\ task.tool = "none"
  /\ task' = [record EXCEPT !.before = down, !.clipBefore = clip]
  /\ out' = IF record.tool = "Type" THEN <<"old">> ELSE <<>>
  /\ UNCHANGED <<os, down, marked, grip, clip, inputFaults, stuck, lastDown>>

-----------------------------------------------------------------------------
(* The tools that hold keys: press them, act, release them. *)

\* All keys are checked before the first is pressed: Click's and Scroll's must be modifiers.
StartHoldKey ==
  \E keys \in KeyLists :
    IF keys # <<>> /\ \A i \in DOMAIN keys : CheckKey(keys[i])
    THEN Begin([NoTask EXCEPT !.tool = "HoldKey", !.step = "press", !.keys = keys])
    ELSE Begin([NoTask EXCEPT !.tool = "HoldKey", !.reply = "refused"])
CheckModifiers(keys) == \A i \in DOMAIN keys : keys[i] \in Modifiers
StartClick ==
  \E keys \in KeyLists, button \in Buttons, action \in ClickActions \cup {"unknown"} :
    IF action \in ClickActions /\ CheckModifiers(keys)
    THEN Begin([NoTask EXCEPT !.tool = "Click", !.step = "press", !.keys = keys, !.button = button, !.action = action])
    ELSE Begin([NoTask EXCEPT !.tool = "Click", !.reply = "refused"])
StartScroll ==
  \E keys \in KeyLists :
    IF CheckModifiers(keys) THEN Begin([NoTask EXCEPT !.tool = "Scroll", !.step = "press", !.keys = keys])
    ELSE Begin([NoTask EXCEPT !.tool = "Scroll", !.reply = "refused"])

KeyDown ==
  /\ task.step = "press" /\ Len(task.held) < Len(task.keys)
  /\ LET key == task.keys[Len(task.held) + 1]
     IN \/ PressKey(key, TRUE) /\ task' = [task EXCEPT !.held = Append(@, key)] /\ UNCHANGED stuck
        \/ PressKey(key, FALSE) /\ FailTo("release") /\ Lingers({})
  /\ UNCHANGED <<os, clip, out, lastDown>>

\* The body of held_keys.
AllHeld == task.step = "press" /\ Len(task.held) = Len(task.keys)
HoldBody ==
  /\ AllHeld /\ task.tool = "HoldKey" /\ Step("release")
  /\ UNCHANGED <<driverVars, stuck, lastDown>>
ClickBody ==
  /\ AllHeld /\ task.tool = "Click"
  /\ \/ ClickAt(task.button, task.action, TRUE) /\ Step("release") /\ UNCHANGED stuck
     \/ ClickAt(task.button, task.action, FALSE) /\ FailTo("release")
        /\ Lingers(IF task.action = "up" THEN {task.button} ELSE {})
  /\ out' = Seen(task.action)
  /\ lastDown' = IF task.action = "down" /\ ~task'.failed THEN task.button ELSE lastDown
  /\ UNCHANGED <<os, clip>>
ScrollBody ==
  /\ AllHeld /\ task.tool = "Scroll"
  /\ \/ /\ Step("release") /\ NoFault
        /\ \E amount \in Amounts, direction \in {"", "up", "right"}, horizontal \in BOOLEAN :
             LET w == NormalizeRequest(amount, direction, horizontal)
             IN out' = [wheel |-> w, events |-> WheelEvents(w), flags |-> Flags]
     \/ FaultNow /\ FailTo("release") /\ UNCHANGED out
  /\ UNCHANGED <<os, down, marked, grip, clip, stuck, lastDown>>

\* Mutant: the first failed release ends the releasing.
KeyUpStops ==
  /\ task.step = "release" /\ task.held # <<>>
  /\ LET key == Last(task.held)
     IN \/ ReleaseKey(key, TRUE) /\ task' = [task EXCEPT !.held = Front(@)] /\ UNCHANGED stuck
        \/ ReleaseKey(key, FALSE) /\ task' = [task EXCEPT !.held = <<>>, !.saved = "stuck"] /\ Lingers({key})
  /\ UNCHANGED <<os, clip, out, lastDown>>
\* _release: in reverse order, every one even when another fails.
KeyUp ==
  /\ task.step = "release" /\ task.held # <<>>
  /\ LET key == Last(task.held)
     IN \/ ReleaseKey(key, TRUE) /\ task' = [task EXCEPT !.held = Front(@)] /\ UNCHANGED stuck
        \/ ReleaseKey(key, FALSE) /\ task' = [task EXCEPT !.held = Front(@), !.saved = "stuck"] /\ Lingers({key})
  /\ UNCHANGED <<os, clip, out, lastDown>>

EndHeld ==
  /\ task.step = "release" /\ task.held = <<>>
  /\ Answer(IF task.failed THEN "failed" ELSE IF task.saved = "stuck" THEN "not_released" ELSE "ok")
  /\ UNCHANGED <<driverVars, stuck, lastDown>>

-----------------------------------------------------------------------------
(* Move, and a drag: on X11 press, walk, release, also on a failure; elsewhere pyautogui's. *)
StartMove ==
  \E drag \in BOOLEAN :
    Begin([NoTask EXCEPT !.tool = "Move", !.button = "left", !.action = IF drag THEN "drag" ELSE "move",
                         !.step = IF ~drag THEN "move" ELSE IF os = "x11" THEN "drag" ELSE "dragged"])
MovePointer ==
  /\ task.step = "move"
  /\ \/ Answer("ok") /\ out' = [motion |-> Motion] /\ NoFault
     \/ Answer("failed") /\ UNCHANGED out /\ FaultNow
  /\ UNCHANGED <<os, down, marked, grip, clip, stuck, lastDown>>
DragElsewhere ==
  /\ task.step = "dragged"
  /\ \/ Answer("ok") /\ down' = down \ {"left"} /\ NoFault /\ UNCHANGED stuck
     \/ Answer("failed") /\ down' \in {down, down \cup {"left"}, down \ {"left"}} /\ Lingers({"left"}) /\ FaultNow
  /\ UNCHANGED <<os, marked, grip, clip, out, lastDown>>
DragPress ==
  /\ task.step = "drag"
  /\ \/ Step("walk") /\ down' = down \cup {"left"} /\ NoFault /\ UNCHANGED stuck
     \/ FaultNow /\ Answer("failed") /\ down' \in {down, down \cup {"left"}} /\ Lingers({})
  /\ UNCHANGED <<os, marked, grip, clip, out, lastDown>>
DragWalk ==
  /\ task.step = "walk"
  /\ \/ /\ Len(out) < DragSteps /\ out' = Append(out, "move")
        /\ Step(IF Len(out) + 1 = DragSteps THEN "drop" ELSE "walk") /\ NoFault
     \/ FaultNow /\ FailTo("drop") /\ UNCHANGED out
  /\ UNCHANGED <<os, down, marked, grip, clip, stuck, lastDown>>
DragDrop ==
  /\ task.step = "drop"
  /\ \/ down' = down \ {"left"} /\ Answer(IF task.failed THEN "failed" ELSE "ok") /\ NoFault /\ UNCHANGED stuck
     \/ FaultNow /\ Answer("failed") /\ down' \in {down, down \ {"left"}} /\ Lingers({"left"})
  /\ UNCHANGED <<os, marked, grip, clip, out, lastDown>>

-----------------------------------------------------------------------------
(* Shortcut: one xdotool for all its presses, or that many of pyautogui's. *)
StartShortcut ==
  \E repeat \in Repeats :
    IF repeat \in 1..MAX_REPEAT
    THEN Begin([NoTask EXCEPT !.tool = "Shortcut", !.step = "shortcut", !.keys = [i \in 1..repeat |-> "a"]])
    ELSE Begin([NoTask EXCEPT !.tool = "Shortcut", !.reply = "refused"])
ShortcutX11 ==
  /\ task.step = "shortcut" /\ os = "x11"
  /\ \/ Answer("ok") /\ out' = task.keys /\ NoFault
     \/ Answer("failed") /\ FaultNow /\ \E n \in 0..Len(task.keys) : out' = SubSeq(task.keys, 1, n)
  /\ UNCHANGED <<os, down, marked, grip, clip, stuck, lastDown>>
ShortcutElsewhere ==
  /\ task.step = "shortcut" /\ os # "x11"
  /\ \/ out' = Append(out, "a") /\ NoFault
        /\ IF Len(out) + 1 = Len(task.keys) THEN Answer("ok") ELSE UNCHANGED task
     \/ Answer("failed") /\ UNCHANGED out /\ FaultNow
  /\ UNCHANGED <<os, down, marked, grip, clip, stuck, lastDown>>

-----------------------------------------------------------------------------
(* Type: the field first, the text by keys or by the clipboard, Enter last. *)
StartType ==
  \E text \in Texts, method \in {"keys", "paste"}, clear \in BOOLEAN :
    Begin([NoTask EXCEPT !.tool = "Type", !.step = "prepare", !.text = text, !.action = method, !.clear = clear])
Prepare ==
  /\ task.step = "prepare"
  /\ \/ PrepareField(task.clear, TRUE) /\ Step(IF task.action = "keys" THEN "type" ELSE "save") /\ UNCHANGED stuck
     \/ PrepareField(task.clear, FALSE) /\ Answer("failed") /\ Lingers({})
  /\ UNCHANGED <<os, marked, grip, clip, lastDown>>
TypeKeys ==
  /\ task.step = "type"
  /\ \/ TypeUnicode(task.text, TRUE) /\ Step("enter") /\ UNCHANGED stuck
     \/ TypeUnicode(task.text, FALSE) /\ Answer("failed") /\ Lingers({})
  /\ UNCHANGED <<os, marked, grip, clip, lastDown>>
PressEnter ==
  /\ task.step = "enter"
  /\ \/ Answer(IF task.reply = "none" THEN "ok" ELSE task.reply) /\ NoFault
     \/ FaultNow /\ Answer("failed")
  /\ UNCHANGED <<os, down, marked, grip, clip, out, stuck, lastDown>>

\* paste_text: a failed read and a clipboard without text both mean there is nothing to put back.
SaveClipboard ==
  /\ task.step = "save"
  /\ \/ task' = [task EXCEPT !.step = "set", !.saved = ClipText] /\ NoFault /\ UNCHANGED stuck
     \/ task' = [task EXCEPT !.step = "set", !.saved = ""] /\ FaultNow /\ stuck' = stuck \cup {"clipboard"}
  /\ UNCHANGED <<os, down, marked, grip, clip, out, lastDown>>
SetClipboard ==
  /\ task.step = "set"
  /\ \/ SetText("typed", TRUE) /\ Step("paste")
     \/ SetText("typed", FALSE) /\ FailTo("restore")
  /\ UNCHANGED <<os, down, marked, grip, out, stuck, lastDown>>
Paste ==
  /\ task.step = "paste"
  /\ \/ Step("restore") /\ out' = out \o task.text /\ NoFault
     \/ FaultNow /\ FailTo("restore") /\ UNCHANGED out
  /\ UNCHANGED <<os, down, marked, grip, clip, stuck, lastDown>>
AfterRestore(reply) ==
  task' = [task EXCEPT !.step = IF task.failed THEN "over" ELSE "enter",
                       !.reply = IF task.failed THEN "failed" ELSE reply]
\* Mutant: the clipboard is restored after a successful paste only.
RestoreWhenPasted ==
  /\ task.step = "restore"
  /\ \/ (task.saved = "" \/ task.failed) /\ AfterRestore("not_restored") /\ NoFault /\ UNCHANGED <<clip, stuck>>
     \/ task.saved # "" /\ ~task.failed /\ SetText(task.saved, TRUE) /\ AfterRestore("restored") /\ UNCHANGED stuck
  /\ UNCHANGED <<os, down, marked, grip, out, lastDown>>
Restore ==
  /\ task.step = "restore"
  /\ \/ task.saved = "" /\ AfterRestore("not_restored") /\ NoFault /\ UNCHANGED <<clip, stuck>>
     \/ task.saved # "" /\ SetText(task.saved, TRUE) /\ AfterRestore("restored") /\ UNCHANGED stuck
     \/ /\ task.saved # "" /\ SetText(task.saved, FALSE)
        /\ AfterRestore("restore_failed") /\ stuck' = stuck \cup {"clipboard"}
  /\ UNCHANGED <<os, down, marked, grip, out, lastDown>>

-----------------------------------------------------------------------------
NextTool ==
  /\ task.step = "over" /\ task.tool # "none"
  /\ task' = NoTask /\ out' = <<>> /\ stuck' = {} /\ UserActs
  /\ lastDown' = IF lastDown \in down' THEN lastDown ELSE "none"
  /\ UNCHANGED <<os, inputFaults>>

InputIdle(name) == DriverIdle(name) /\ task = NoTask /\ stuck = {} /\ lastDown = "none"
InputInit == \E name \in {"x11", "windows", "macos"} : InputIdle(name)

InputNext ==
  \/ StartHoldKey \/ StartClick \/ StartScroll \/ KeyDown \/ HoldBody \/ ClickBody \/ ScrollBody \/ KeyUp \/ EndHeld
  \/ StartMove \/ MovePointer \/ DragElsewhere \/ DragPress \/ DragWalk \/ DragDrop
  \/ StartShortcut \/ ShortcutX11 \/ ShortcutElsewhere
  \/ StartType \/ Prepare \/ TypeKeys \/ PressEnter \/ SaveClipboard \/ SetClipboard \/ Paste \/ Restore
  \/ NextTool
InputSpec == InputInit /\ [][InputNext]_inputVars

-----------------------------------------------------------------------------
(* The types of the desktop's input. *)
InputTypeOK ==
  /\ DriverTypeOK
  /\ task.step \in {"over", "press", "release", "move", "drag", "dragged", "walk", "drop", "shortcut", "prepare",
                    "type", "enter", "save", "set", "paste", "restore"}
  /\ lastDown \in Buttons \cup {"none"}

Over == task.step = "over" /\ task.tool # "none"
Asked == IF task.tool = "Click" /\ task.action = "down" THEN {task.button} ELSE {}

(* "a key left down would drive every later input" (input_keys.py): a call that succeeds leaves nothing
   down but what Click was asked to press; one that fails at any step still has released everything,
   except a key or button whose own command failed. *)
NothingLeftDown ==
  Over =>
    /\ task.reply = "ok" => down \subseteq task.before \cup Asked
    /\ down \subseteq task.before \cup Asked \cup stuck

\* What the events of a wheel mean to the system that gets them.
Turned(e) ==
  CASE e[1] = "wheel1" -> <<IF e[2] > 0 THEN "up" ELSE "down", Abs(e[2])>>
    [] e[1] = "wheel2" -> <<IF e[2] > 0 THEN "left" ELSE "right", Abs(e[2])>>
    [] e[1] = "wheel" -> <<IF e[2] > 0 THEN "up" ELSE "down", Abs(e[2]) \div 120>>
    [] e[1] = "hwheel" -> <<IF e[2] > 0 THEN "right" ELSE "left", Abs(e[2]) \div 120>>
    [] OTHER -> <<CASE e[1] = "4" -> "up" [] e[1] = "5" -> "down" [] e[1] = "6" -> "left" [] e[1] = "7" -> "right", e[2]>>
TurnedBy(events) ==
  LET turned[n \in 0..Len(events)] == IF n = 0 THEN 0 ELSE turned[n - 1] + Turned(events[n])[2]
  IN turned[Len(events)]
Scrolled ==
  /\ \A i \in DOMAIN out.events :
       /\ Turned(out.events[i])[1] = out.wheel.direction
       /\ os = "macos" => Turned(out.events[i])[2] <= MAX_LINES
       /\ os = "windows" => Abs(out.events[i][2]) < 2^15
  /\ TurnedBy(out.events) = out.wheel.clicks

\* The keys a text stands for: a line end is one Enter, however many characters it has.
Keys(text) ==
  LET KeyAt(c) == IF KeyOf(c) = "none" THEN c ELSE KeyOf(c)
      keys[n \in 0..Len(text)] ==
        IF n = 0 THEN <<>>
        ELSE IF n > 1 /\ text[n] = "lf" /\ text[n - 1] = "cr" THEN keys[n - 1]
        ELSE Append(keys[n - 1], KeyAt(text[n]))
  IN keys[Len(text)]
Held == {task.keys[i] : i \in DOMAIN task.keys}

(* What is asked to be held is held while the call acts, on every system alike: a press and a wheel come
   with every modifier asked for, and a move is a drag while the button pressed last is still down. *)
HeldThroughout ==
  Over =>
    /\ task.tool = "Scroll" /\ task.reply = "ok" => Held \subseteq out.flags
    /\ task.tool = "Click" /\ task.reply = "ok" /\ task.action # "hover" => Held \subseteq out.flags
    /\ task.tool = "Move" /\ task.reply = "ok" /\ task.action = "move" /\ lastDown \in task.before => out.motion = "drag"

(* The clipboard's text is back where the reply says so - and also where the paste failed, unless the
   clipboard could not be read or the restore itself failed. *)
ClipboardBack ==
  Over =>
    /\ task.reply = "restored" => clip = task.clipBefore
    /\ task.tool = "Type" /\ task.clipBefore \in {"text", "typed"} /\ "clipboard" \notin stuck => clip = task.clipBefore

TypedKeys == Over /\ task.tool = "Type" /\ task.action = "keys" /\ task.reply = "ok"
\* What Type leaves in the field before its text.
Field == IF task.clear THEN <<>> ELSE <<"old">>

(* A plan of events is what was asked for: the wheel in its direction as far as scroll.py's clamp allows,
   in events each system can carry; and where typing_input.py plans the typing - on Windows and macOS -
   every character in its order, a line end as one Enter. *)
PlansTrue ==
  /\ Over /\ task.tool = "Scroll" /\ task.reply = "ok" => Scrolled
  /\ TypedKeys /\ os # "x11" => out = Field \o Keys(task.text)

(* "the same plan on every OS": "\n, \r\n and a lone \r are one Enter each" (typing_input.py): what the
   system is given for a text is as many keys as the plan has, on X11 too. *)
SamePlanEverywhere == TypedKeys => Len(out) = Len(Field \o Keys(task.text))

(* What an input tool leaves behind - keys, buttons, clipboard - and what it held while it acted are
   accounted for at every step that can fail. *)
InputAccounted == NothingLeftDown /\ HeldThroughout /\ ClipboardBack
==============================================================================
