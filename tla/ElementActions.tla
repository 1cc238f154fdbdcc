---------------------------- MODULE ElementActions ----------------------------
(* ElementTree, AnnotatedSnapshot, ClickElement and TypeElement on Linux (platform/linux/windows.py
   over AT-SPI, with element_tree.py's refs).  A tool acts on what an earlier tree listed, in an
   application that goes on living: windows are retitled, raised and closed, list rows are reused for
   other content, focus moves, calls go unanswered.  Two threads may be inside: a tool, and an
   AnnotatedSnapshot beside it; _tree_lock lets one of them read or act, the mouse and the keyboard
   are used after it is released.

   All windows here belong to one application; a node is an element of one window at one place in it,
   where another element of the window may lie as well, and its name is what it shows. *)
EXTENDS Naturals, Sequences, FiniteSets

CONSTANTS
  Windows,               \* the application's windows
  NodeOrder,             \* their elements, in the order a walk meets them
  WindowOf(_), PlaceOf(_),
  Operable, Editable,    \* the nodes with a press action; with EditableText
  Titles, Names,
  MaxChanges             \* bound: trees published and changes of the desktop, together

Nodes == {NodeOrder[i] : i \in DOMAIN NodeOrder}
ASSUME ElementAssumption ==
  /\ \A n \in Nodes : WindowOf(n) \in Windows
  /\ Names # {}
  /\ Operable \subseteq Nodes /\ Editable \subseteq Nodes /\ MaxChanges \in Nat

VARIABLES
  desktop,     \* title of each open window or "closed", the active window, what each node shows, the focus
  tree,        \* RefTable._tree: the number of the latest tree
  entries,     \* RefTable._entries, by the number within the tree
  listing,     \* history: what each tree's refs were listed for
  holder,      \* who is inside _tree_lock: "free", "tool" or "shot"
  tool, shot,  \* the tool at work; the AnnotatedSnapshot beside it
  did,         \* what the tool's call has done to the application
  calm,        \* history: the desktop has not changed since the tool began
  worldSteps

elementVars == <<desktop, tree, entries, listing, holder, tool, shot, did, calm, worldSteps>>

Open == {w \in Windows : desktop.title[w] # "closed"}
NoWindow == "none"
NoTarget == [window |-> NoWindow, title |-> ""]
NoEntry == [node |-> "none", name |-> "", window |-> NoWindow]
NoTool == [op |-> "none", step |-> "idle", ref |-> <<0, 0>>, entry |-> NoEntry, target |-> NoTarget,
           place |-> 0, reply |-> ""]
NoShot == [step |-> "idle", target |-> NoTarget]
Spare == tree + worldSteps < MaxChanges

-----------------------------------------------------------------------------
(* A reading: the target window first, then the frame of it AT-SPI knows, then the walk. *)

\* _target: the active window, or one by its title; one the window list does not show may have no title
\* here, and the active window may be unknown.
TargetsOf(w) == {[window |-> w, title |-> title] : title \in {desktop.title[w], ""}}
Targets(op) ==
  {NoTarget} \cup (IF op = "tree" THEN UNION {TargetsOf(w) : w \in Open}
                   ELSE IF desktop.active \in Open THEN TargetsOf(desktop.active) ELSE {})

\* _atspi_root, of the frames AT-SPI knows: the one of that title, else the only one; for the active window
\* alone the active one, one that shows, or all of the application.  Without a target any active or showing
\* frame.  Frames of one title cannot be told apart; an application that is not on the bus has no root.
Titled(title) == {w \in Open : desktop.title[w] = title /\ title # ""}
Each(frames) == {{w} : w \in frames}
RootsAmong(frames, target) ==
  IF target = NoTarget THEN Each(frames)
  ELSE IF Titled(target.title) \cap frames # {} THEN Each(Titled(target.title) \cap frames)
  ELSE IF Cardinality(frames) = 1 THEN {frames}
  ELSE IF desktop.active = target.window THEN Each(frames) \cup {frames}
  ELSE {}
Roots(target) == {{}} \cup UNION {RootsAmong(frames, target) : frames \in SUBSET Open}

\* _published: an element that cannot have a ref - it vanished after the walk - is not in the tree.
Listed(root, target, dropped) ==
  LET below == SelectSeq(NodeOrder, LAMBDA n : WindowOf(n) \in root /\ n \notin dropped)
  IN [i \in DOMAIN below |-> [node |-> below[i], name |-> desktop.shows[below[i]], window |-> target.window]]
\* RefTable.publish: a new tree ends the one before; its number is never used again in this process.
\* Mutant: every tree bears the same number.
PublishTreeRenumbers(root, target) ==
  /\ Spare
  /\ tree' = 1
  /\ \E dropped \in SUBSET Nodes : entries' = Listed(root, target, dropped)
  /\ listing' = Append(listing, entries')
PublishTree(root, target) ==
  /\ Spare
  /\ tree' = tree + 1
  /\ \E dropped \in SUBSET Nodes : entries' = Listed(root, target, dropped)
  /\ listing' = Append(listing, entries')

-----------------------------------------------------------------------------
(* The tools. *)

\* The reply: it was done, nothing was, or an action went unanswered.
EndTool(reply) == tool' = [NoTool EXCEPT !.op = tool.op, !.step = "over", !.ref = tool.ref, !.reply = reply]
FreeSlot == holder' = "free"
Unchanged == UNCHANGED <<desktop, shot, calm, worldSteps>>

\* A tool starts; ClickElement and TypeElement with any ref that was ever listed.
BeginTool ==
  /\ tool.step = "idle" /\ holder = "free"
  /\ holder' = "tool" /\ calm' = TRUE /\ did' = <<>>
  /\ \/ tool' = [NoTool EXCEPT !.op = "tree", !.step = "target"]
     \/ \E t \in DOMAIN listing : \E i \in DOMAIN listing[t], op \in {"click", "type"} :
          tool' = [NoTool EXCEPT !.op = op, !.step = "live", !.ref = <<t, i>>]
  /\ UNCHANGED <<desktop, tree, entries, listing, shot, worldSteps>>

ReadTarget ==
  /\ tool.step = "target"
  /\ \/ EndTool("nothing") /\ FreeSlot
     \/ \E target \in Targets("tree") :
          tool' = [tool EXCEPT !.step = "walk", !.target = target] /\ UNCHANGED holder
  /\ UNCHANGED <<tree, entries, listing, did>> /\ Unchanged

\* A window AT-SPI knows nothing of gives a tree without elements; one it cannot tell apart, or any
\* failure on the way, is an error that leaves the tree there was.
WalkTree ==
  /\ tool.step = "walk"
  /\ FreeSlot
  /\ \/ EndTool("nothing") /\ UNCHANGED <<tree, entries, listing>>
     \/ \E root \in Roots(tool.target) : PublishTree(root, tool.target) /\ EndTool("done")
  /\ UNCHANGED did /\ Unchanged

\* A closed window's element may go on answering.
Answering == Nodes
\* Mutant: what the element shows now is not compared.
SameUnchecked(entry, list) == entry.node \in Answering
\* _live: the element answers that it is enabled and shows the same, and its window is in the window list - unless that list is empty,
\* which proves nothing, or the tree was of no known window.
Same(entry, list) ==
  /\ entry.node \in Answering /\ desktop.shows[entry.node] = entry.name
  /\ list = {} \/ entry.window \in list \cup {NoWindow}
CheckLive ==
  /\ tool.step = "live"
  /\ \/ /\ tool.ref[1] = tree /\ tool.ref[2] \in DOMAIN entries
        /\ \E list \in {Open, {}} : Same(entries[tool.ref[2]], list)
        /\ tool' = [tool EXCEPT !.step = "act", !.entry = entries[tool.ref[2]]]
        /\ UNCHANGED holder
     \/ EndTool("nothing") /\ FreeSlot
  /\ UNCHANGED <<tree, entries, listing, did>> /\ Unchanged

Did(how, node) == did' = Append(did, [how |-> how, node |-> node, shows |-> IF node \in Nodes THEN desktop.shows[node] ELSE ""])

\* The element's own action, or its value: done; refused, then the mouse or the keyboard may try; no
\* answer, which may have been done; or a field that is read-only.
HasOwn == IF tool.op = "click" THEN tool.entry.node \in Operable ELSE tool.entry.node \in Editable
Otherwise == tool' = [tool EXCEPT !.step = IF tool.op = "click" THEN "center" ELSE "focus"]
\* Mutant: an action without an answer is tried again by mouse or keyboard.
ActRetries ==
  /\ tool.step = "act"
  /\ \/ HasOwn /\ Did("own", tool.entry.node) /\ EndTool("done") /\ FreeSlot
     \/ Otherwise /\ UNCHANGED <<did, holder>>
     \/ HasOwn /\ Did("own", tool.entry.node) /\ Otherwise /\ UNCHANGED holder
  /\ UNCHANGED <<tree, entries, listing>> /\ Unchanged
Act ==
  /\ tool.step = "act"
  /\ \/ HasOwn /\ Did("own", tool.entry.node) /\ EndTool("done") /\ FreeSlot
     \/ Otherwise /\ UNCHANGED <<did, holder>>
     \/ HasOwn /\ EndTool("may_have_happened") /\ FreeSlot /\ (UNCHANGED did \/ Did("own", tool.entry.node))
     \/ HasOwn /\ tool.op = "type" /\ EndTool("nothing") /\ FreeSlot /\ UNCHANGED did
  /\ UNCHANGED <<tree, entries, listing>> /\ Unchanged

\* _center: the element shows, its window is the active one, and it is known where that window is now.
Center ==
  /\ tool.step = "center"
  /\ FreeSlot
  /\ \/ /\ desktop.active = tool.entry.window /\ desktop.active # NoWindow
        /\ tool' = [tool EXCEPT !.step = "mouse", !.place = PlaceOf(tool.entry.node)]
     \/ EndTool("nothing")
  /\ UNCHANGED <<tree, entries, listing, did>> /\ Unchanged

\* The mouse presses whatever is there by then; of the elements at one place the application picks.
Hit(place) == {n \in Nodes : WindowOf(n) = desktop.active /\ PlaceOf(n) = place}
Mouse ==
  /\ tool.step = "mouse"
  /\ EndTool("done")
  /\ IF Hit(tool.place) = {} THEN Did("mouse", "elsewhere") ELSE \E n \in Hit(tool.place) : Did("mouse", n)
  /\ UNCHANGED <<tree, entries, listing, holder>> /\ Unchanged

\* _give_focus: the window is raised and the element asked to take the focus; either may do nothing.
GiveFocus ==
  /\ tool.step = "focus"
  /\ tool' = [tool EXCEPT !.step = "wait"]
  /\ desktop' \in {desktop, [desktop EXCEPT !.active = tool.entry.window],
                   [desktop EXCEPT !.active = tool.entry.window, !.focus = tool.entry.node]}
  /\ tool.entry.window \in Open
  /\ UNCHANGED <<tree, entries, listing, holder, shot, did, calm, worldSteps>>
NoFocus ==
  /\ tool.step \in {"focus", "wait"}
  /\ EndTool("nothing") /\ FreeSlot
  /\ UNCHANGED <<tree, entries, listing, did>> /\ Unchanged

Focused == desktop.active = tool.entry.window /\ desktop.focus = tool.entry.node
WaitFocus ==
  /\ tool.step = "wait" /\ Focused
  /\ tool' = [tool EXCEPT !.step = "keys"] /\ FreeSlot
  /\ UNCHANGED <<tree, entries, listing, did>> /\ Unchanged
TypeText ==
  /\ tool.step = "keys"
  /\ Did("keys", desktop.focus) /\ EndTool("done")
  /\ UNCHANGED <<tree, entries, listing, holder>> /\ Unchanged

\* The reply is out: what else happens, happens after it.
ToolReplied == tool.step = "over"
NextElementTool ==
  /\ ToolReplied
  /\ tool' = NoTool /\ did' = <<>> /\ calm' = TRUE
  /\ UNCHANGED <<desktop, tree, entries, listing, holder, shot, worldSteps>>

-----------------------------------------------------------------------------
(* AnnotatedSnapshot: the active window's elements, as a new tree; a failure leaves the old one. *)
ShotBegins ==
  /\ shot.step = "idle" /\ holder = "free" /\ ~ToolReplied
  /\ \E target \in Targets("shot") :
       shot' = [step |-> "walk", target |-> target] /\ holder' = "shot"
  /\ UNCHANGED <<desktop, tree, entries, listing, tool, did, calm, worldSteps>>
ShotEnds ==
  /\ shot.step = "walk" /\ ~ToolReplied
  /\ shot' = NoShot /\ FreeSlot
  /\ \/ UNCHANGED <<tree, entries, listing>>
     \/ \E root \in Roots(shot.target) : PublishTree(root, shot.target)
  /\ UNCHANGED <<desktop, tool, did, calm, worldSteps>>

-----------------------------------------------------------------------------
(* The desktop's own life.  Two windows may have one title. *)
World == Spare /\ ~ToolReplied /\ worldSteps' = worldSteps + 1 /\ calm' = FALSE
         /\ UNCHANGED <<tree, entries, listing, holder, tool, shot, did>>
Raise == World /\ \E w \in Open \ {desktop.active} : desktop' = [desktop EXCEPT !.active = w, !.focus = "none"]
Close == World /\ \E w \in Open : desktop' = [desktop EXCEPT !.title[w] = "closed",
           !.active = IF @ = w THEN NoWindow ELSE @, !.focus = "none"]
Retitle == World /\ \E w \in Open, t \in Titles : desktop' = [desktop EXCEPT !.title[w] = t]
Reuse == World /\ \E n \in Nodes, name \in Names : desktop' = [desktop EXCEPT !.shows[n] = name]
MoveFocus == World /\ \E n \in Nodes : WindowOf(n) = desktop.active /\ desktop' = [desktop EXCEPT !.focus = n]

\* The server restarts: the refs are gone, and its tree numbers start somewhere else.
RestartServer ==
  /\ tool.step = "idle" /\ shot.step = "idle" /\ Spare
  /\ tree' = tree + 1 /\ entries' = <<>> /\ listing' = Append(listing, <<>>)
  /\ UNCHANGED <<desktop, holder, tool, shot, did, calm, worldSteps>>

-----------------------------------------------------------------------------
ElementIdle(titles, active, shows) ==
  /\ desktop = [title |-> titles, active |-> active, shows |-> shows, focus |-> "none"]
  /\ tree = 0 /\ entries = <<>> /\ listing = <<>> /\ holder = "free"
  /\ tool = NoTool /\ shot = NoShot /\ did = <<>> /\ calm = TRUE /\ worldSteps = 0
ElementInit ==
  \E titles \in [Windows -> Titles], active \in Windows \cup {NoWindow}, name \in Names :
    ElementIdle(titles, active, [n \in Nodes |-> name])

WorldStep == Raise \/ Close \/ Retitle \/ Reuse \/ MoveFocus
ElementNext ==
  \/ BeginTool \/ ReadTarget \/ WalkTree \/ CheckLive \/ Act \/ Center \/ Mouse
  \/ GiveFocus \/ NoFocus \/ WaitFocus \/ TypeText \/ NextElementTool
  \/ ShotBegins \/ ShotEnds \/ WorldStep \/ RestartServer
ElementSpec == ElementInit /\ [][ElementNext]_elementVars

-----------------------------------------------------------------------------
(* The types of the desktop, the refs and the tools. *)
ElementTypeOK ==
  /\ desktop.active \in Windows \cup {NoWindow} /\ desktop.focus \in Nodes \cup {"none"}
  /\ tree \in Nat /\ Len(listing) = tree
  /\ holder \in {"free", "tool", "shot"} /\ worldSteps \in Nat /\ tree + worldSteps <= MaxChanges
  /\ holder = "shot" <=> shot.step = "walk"

ListedAs(ref) == listing[ref[1]][ref[2]]

\* AT-SPI's frame is found by a title read before: it may be another window's by then.
InItsWindow(entry) == WindowOf(entry.node) = entry.window

\* What a call did on a desktop that kept still: to the listed element, as it was listed - except that the
\* mouse may meet another element of the window that lies at the same place.
OnAsked(deed, entry) ==
  /\ deed.node = entry.node => deed.shows = entry.name
  /\ deed.node # entry.node =>
       /\ deed.how = "mouse" /\ deed.node \in Nodes
       /\ WindowOf(deed.node) = entry.window /\ PlaceOf(deed.node) = PlaceOf(entry.node)

(* One call does at most one thing to the application, also when an action goes unanswered, and what
   its reply says was done or was not; through
   the element's own interface it reaches only the very element its ref was listed for, never one of a
   later tree that has the same number; and while the desktop keeps still every character lands on that
   element as it was listed, and every click there or on an element of its window that covers it. *)
ElementActs ==
  tool.op \in {"click", "type"} =>
    /\ Len(did) <= 1
    /\ tool.step = "over" => (tool.reply = "done" => did # <<>>) /\ (tool.reply = "nothing" => did = <<>>)
    /\ \A i \in DOMAIN did :
         /\ did[i].how = "own" => did[i].node = ListedAs(tool.ref).node
         /\ calm /\ InItsWindow(ListedAs(tool.ref)) => OnAsked(did[i], ListedAs(tool.ref))

(* ClickElement: an element without an action of its own "gets a left click at its centre, unless
   something else is on top of it there" - on a desktop that keeps still the mouse meets no other one. *)
ClickedUncovered ==
  tool.op = "click" /\ calm =>
    \A i \in DOMAIN did :
      did[i].how = "mouse" /\ InItsWindow(ListedAs(tool.ref)) => did[i].node = ListedAs(tool.ref).node
===============================================================================
