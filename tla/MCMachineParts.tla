--------------------------- MODULE MCMachineParts ---------------------------
(* The machine server's parts that share no state: the waits for a slot (TaskManager, whose safety
   MCTaskManager checks), its updater (Updater over ReleaseChannel), the children of its tools
   (ChildProcesses), the Linux session its desktop tools work in (LinuxSession), its OAuth endpoints
   (OAuthServer), its start (Startup), and the desktop tools: the coordinates of pictures and clicks
   (Coordinates), the input they send (InputTools), the elements they act on (ElementActions), those
   they list (ElementLists) and the thread that asks Windows for them (UiaWorker).  A behaviour runs
   one of them and leaves the others at rest: the checker explores the sum of their states, not the
   product. *)
EXTENDS TaskManager, Updater, ChildProcesses, LinuxSession, OAuthServer, Startup, Coordinates, InputTools,
        ElementActions, ElementLists, UiaWorker, TLC

CONSTANTS
  Parts,                       \* the parts a run checks
  c1, c2, c3, Desktop, Shell

VARIABLE component

machineVars == <<component, vars, updaterVars, childVars, sessionVars, oauthVars, startVars, coordVars,
                 inputVars, elementVars, listVars, uiaVars>>

-----------------------------------------------------------------------------
(* The instances. *)
\* Two calls of a one-slot category and one of a two-slot category.
CategoryOfCall == c1 :> Desktop @@ c2 :> Desktop @@ c3 :> Shell
SlotsOf == Desktop :> 1 @@ Shell :> 2
NoRuntime == [c \in Calls |-> 0]

PublishedVersions == <<2, 3>>

\* Logins 1 and 2: X11 of the server's own user; 3: Wayland; 4: the greeter; 5: X11 of another user.
LoginKind(l) == CASE l = 3 -> "wayland" [] l = 4 -> "greeter" [] OTHER -> "x11"
LoginUser(l) == CASE l = 4 -> "gdm" [] l = 5 -> "other" [] OTHER -> "me"
LoginDisplay(l) == IF l \in {1, 3} THEN ":0" ELSE ":1"

ToolLists == {{}, {"Shell"}, {"NoSuchTool"}, Tier3}

\* A display with two pixels to a unit and an odd origin, and one with a pixel to a unit.
Geometry(x, y, width, height, scale) ==
  [x |-> x, y |-> y, width |-> width, height |-> height,
   pixelWidth |-> width * scale, pixelHeight |-> height * scale]
Displays2 == {Geometry(-3, 2, 9, 7, 2), Geometry(0, 0, 12, 8, 1)}
Widths == {0, 4, 7}
Rectangles == {<<l, t, l + w, t + h>> : l \in {-2, 0, 3}, t \in {1, 3}, w \in {1, 4}, h \in {2, 3}}

HeldKeys == {<<>>, <<"ctrl", "shift">>, <<"shift", "f20">>, <<"a", "bad">>}
WheelAmounts == {-25, 0, 3, 101}
TypedTexts ==
  {<<>>, <<"lf", "a">>, <<"e", "e", "a">>, <<"a", "a", "e", "tab">>, <<"cr", "cr", "lf", "lf">>, <<"a", "cr", "lf", "e">>}

\* Two windows of an application: two elements lie at one place of the first, the second has none.
Order == <<"a", "b">>
NodeWindow(n) == "w"
NodePlace(n) == 1

\* Nothing tells one title, or one name, from another but that they differ.
ElementSymmetry == Permutations(Titles) \cup Permutations(Names)

\* A tree with a control that repeats itself inside, a pane under words, and three levels.
Paths == {<<1>>, <<1, 1>>, <<1, 1, 1>>, <<1, 2>>, <<2>>, <<2, 1>>}
PathChildren(n) == SelectSeq([i \in 1..2 |-> Append(n, i)], LAMBDA c : c \in Paths)
PathInteractive(n) == n # <<1>>
PathBox(n) ==
  CASE n = <<1, 1>> -> <<0, 0, 10, 10>> [] n = <<1, 1, 1>> -> <<0, 0, 10, 10>>
    [] n = <<1, 2>> -> <<20, 2, 30, 12>> [] n = <<2>> -> <<0, 20, 400, 400>> [] OTHER -> <<0, 30, 10, 40>>
PathName(n) == IF n \in {<<1, 1>>, <<1, 1, 1>>} THEN "button" ELSE IF n = <<1, 2>> THEN "edit" ELSE "item"
Word(t, l, top, r, b) == [text |-> <<t>>, box |-> <<l, top, r, b>>]
OcrReadings ==
  {<<>>,
   <<Word("on", 12, 42, 18, 50), Word("pane", 2, 41, 11, 50), Word("hid", 1, 1, 9, 9)>>,
   <<Word("a", 60, 60, 68, 70), Word("b", 40, 62, 48, 70), Word("c", 49, 61, 57, 70), Word("z", 3, 3, 3, 9)>>,
   <<Word("low", 0, 90, 8, 98), Word("mid", 0, 74, 8, 82), Word("top", 20, 58, 28, 66)>>}

\* A tree, an action on what it lists beside another tree, and a last action.
UiaOps == <<"tree", "type", "tree", "click">>
FewerOps == <<"tree", "type">>

-----------------------------------------------------------------------------
Runs(part) == component = part

MachineInit ==
  /\ component \in Parts
  /\ IF Runs("updater") THEN UpdaterInit ELSE UpdaterIdle("stable", LastDay, "parked")
  /\ Init /\ ChildInit /\ SessionInit /\ OAuthInit
  /\ IF Runs("start") THEN StartInit ELSE StartIdle("parked")
  /\ IF Runs("coordinates") THEN CoordInit ELSE CoordIdle(CHOOSE g \in Screens : TRUE)
  /\ IF Runs("input") THEN InputInit ELSE InputIdle("x11")
  /\ IF Runs("elements") THEN ElementInit ELSE ElementIdle([w \in Windows |-> "closed"], NoWindow, [n \in Nodes |-> ""])
  /\ IF Runs("lists") THEN ListInit ELSE ListIdle([limit |-> 2, depth |-> 1, visits |-> 3], <<>>, "parked")
  /\ IF Runs("uia") THEN UiaInit ELSE UiaIdle("parked")

TasksRun ==
  /\ Runs("tasks") /\ Next
  /\ UNCHANGED <<component, updaterVars, childVars, sessionVars, oauthVars, startVars,
                 coordVars, inputVars, elementVars, listVars, uiaVars>>
UpdaterRuns ==
  /\ Runs("updater") /\ UpdaterNext
  /\ UNCHANGED <<component, vars, childVars, sessionVars, oauthVars, startVars,
                 coordVars, inputVars, elementVars, listVars, uiaVars>>
ChildRuns ==
  /\ Runs("child") /\ ChildNext
  /\ UNCHANGED <<component, vars, updaterVars, sessionVars, oauthVars, startVars,
                 coordVars, inputVars, elementVars, listVars, uiaVars>>
SessionRuns ==
  /\ Runs("session") /\ SessionNext
  /\ UNCHANGED <<component, vars, updaterVars, childVars, oauthVars, startVars,
                 coordVars, inputVars, elementVars, listVars, uiaVars>>
OAuthRuns ==
  /\ Runs("oauth") /\ OAuthNext
  /\ UNCHANGED <<component, vars, updaterVars, childVars, sessionVars, startVars,
                 coordVars, inputVars, elementVars, listVars, uiaVars>>
StartRuns ==
  /\ Runs("start") /\ StartNext
  /\ UNCHANGED <<component, vars, updaterVars, childVars, sessionVars, oauthVars,
                 coordVars, inputVars, elementVars, listVars, uiaVars>>
CoordinatesRuns ==
  /\ Runs("coordinates") /\ CoordNext
  /\ UNCHANGED <<component, vars, updaterVars, childVars, sessionVars, oauthVars,
                 startVars, inputVars, elementVars, listVars, uiaVars>>
InputRuns ==
  /\ Runs("input") /\ InputNext
  /\ UNCHANGED <<component, vars, updaterVars, childVars, sessionVars, oauthVars,
                 startVars, coordVars, elementVars, listVars, uiaVars>>
ElementsRuns ==
  /\ Runs("elements") /\ ElementNext
  /\ UNCHANGED <<component, vars, updaterVars, childVars, sessionVars, oauthVars,
                 startVars, coordVars, inputVars, listVars, uiaVars>>
ListsRuns ==
  /\ Runs("lists") /\ ListNext
  /\ UNCHANGED <<component, vars, updaterVars, childVars, sessionVars, oauthVars,
                 startVars, coordVars, inputVars, elementVars, uiaVars>>
UiaRuns ==
  /\ Runs("uia") /\ UiaNext
  /\ UNCHANGED <<component, vars, updaterVars, childVars, sessionVars, oauthVars, startVars,
                 coordVars, inputVars, elementVars, listVars>>

MachineNext ==
  \/ TasksRun \/ UpdaterRuns \/ ChildRuns \/ SessionRuns \/ OAuthRuns \/ StartRuns
  \/ CoordinatesRuns \/ InputRuns \/ ElementsRuns \/ ListsRuns \/ UiaRuns

\* At rest no step that fairness asks for is enabled.
MachineSpec ==
  /\ MachineInit /\ [][MachineNext]_machineVars
  /\ (\A c \in Calls : WF_vars(WrapperStep(c))) /\ UpdaterFairness /\ ChildFairness /\ UiaFairness

(* The types of every part. *)
MachineTypeOK ==
  /\ TypeOK /\ UpdaterTypeOK /\ ChildTypeOK /\ SessionTypeOK /\ OAuthTypeOK /\ StartTypeOK
  /\ CoordTypeOK /\ InputTypeOK /\ ElementTypeOK /\ ListTypeOK /\ UiaTypeOK

(* Nothing asked for or found is lost on its way: a wheel is planned whole on every system and a text where
   typing_input.py plans it; and what the walk and the marks leave out they say, but for elements
   that can have no ref. *)
NothingLost == PlansTrue /\ NothingLostUntold
==============================================================================
