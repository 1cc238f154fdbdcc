---------------------------- MODULE LinuxSession ----------------------------
(* The Linux graphical session a server works in (platform/linux/session.py, shell_env.py,
   availability.py): detection by loginctl, the one cache, X commands with their retry, and the
   session variables a Shell child gets.  Users log in and out, switch, and X servers die and leave
   their socket behind, at any point between two steps of a command.

   The server runs as the systemd unit's own user Me, not as root, with no display in its
   environment.  Its process runs several X commands beside each other, and Shell calls beside them.
   The authority file goes with the display: who has the one has the other. *)
EXTENDS Naturals, FiniteSets

CONSTANTS
  Commands,           \* X commands that may run at the same moment
  Logins,             \* possible logins, with
  Kind(_), Who(_), On(_),   \* "x11", "wayland" or "greeter"; the user; the display
  Me,                 \* the server's own user
  Fallback,           \* ":0", the display assumed when none is found
  MaxSessionFaults    \* bound: logins, logouts, switches, failed lookups and failed commands

ASSUME SessionAssumption ==
  /\ MaxSessionFaults \in Nat /\ Me # "root"
  /\ \A l \in Logins : Kind(l) \in {"x11", "wayland", "greeter"}

VARIABLES
  seat,      \* by login: "gone", "background" or "active"
  socket,    \* by display: the user who owns its X socket file, or "none"
  procs,     \* the displays in the environments of Me's processes
  cache,     \* _SESSION
  command,   \* by X command: its step
  using,     \* by X command: the session it runs in
  steady,    \* by X command, history: nothing failed or changed since it began
  shell,     \* the variables the last Shell child got
  sessionFaults

sessionVars == <<seat, socket, procs, cache, command, using, steady, shell, sessionFaults>>

Displays == {On(l) : l \in Logins} \cup {Fallback}
Empty == [mode |-> "unknown", display |-> Fallback, user |-> Me]
Headless == [mode |-> "headless", display |-> Fallback, user |-> Me]
Session(l, display) == [mode |-> Kind(l), display |-> display, user |-> Who(l)]

Active(kind) == {l \in Logins : seat[l] = "active" /\ Kind(l) = kind}
Spend == sessionFaults < MaxSessionFaults /\ sessionFaults' = sessionFaults + 1

-----------------------------------------------------------------------------
(* _detect: an active X11 user session first, then a Wayland one; a greeter is none.  Its display is
   that of the first process of its user that has one, which need not be of that session.  Of another
   user's processes none can be read: loginctl tells the display, or it is taken to be ":0". *)
Candidates == IF Active("x11") # {} THEN Active("x11") ELSE Active("wayland")
DisplaysFound(l) == IF Who(l) = Me /\ procs # {} THEN procs ELSE {On(l), Fallback}
Sightings(l) == {Session(l, d) : d \in DisplaysFound(l)}
Detected == IF Candidates = {} THEN {Headless} ELSE UNION {Sightings(l) : l \in Candidates}

(* A lookup that fails: loginctl is missing or late, or the session shows no display yet. *)
Misdetected == {Headless} \cup {Session(l, Fallback) : l \in Candidates}

Detect(found) ==
  \/ found \in Detected /\ UNCHANGED <<steady, sessionFaults>>
  \/ found \in Misdetected /\ Spend /\ steady' = [c \in Commands |-> FALSE]

\* get_session(): the cache, filled on first use; force=True detects again.
GetSession ==
  IF cache = Empty THEN \E found \in Detected \cup Misdetected : Detect(found) /\ cache' = found
  ELSE UNCHANGED <<cache, steady, sessionFaults>>

-----------------------------------------------------------------------------
(* X commands.  Every tool asks for the mode first and refuses without an X11 session; the command
   then runs in the cached session and, when it fails, once more in a freshly detected one. *)

\* Only root steps into another user's session (sudo -u); X refuses anybody else its display.
OwnAt(display) == {l \in Logins : seat[l] # "gone" /\ Who(l) = Me /\ On(l) = display}
Serves(s) == s.user = Me /\ \E l \in OwnAt(s.display) : Kind(l) = "x11"
MayServe(s) == s.user = Me /\ OwnAt(s.display) # {}

\* An empty cache is filled by this step, and the mode read by the same call again.
Ask(c) ==
  /\ command[c] = "idle"
  /\ \/ cache = Empty /\ GetSession /\ UNCHANGED command
     \/ /\ cache # Empty
        /\ command' = [command EXCEPT ![c] = IF cache.mode = "x11" THEN "begin" ELSE "refused"]
        /\ steady' = [steady EXCEPT ![c] = TRUE]
        /\ UNCHANGED <<cache, sessionFaults>>
  /\ UNCHANGED <<seat, socket, procs, using, shell>>

\* _run_x reads the cache again: another command may have changed it since.
BeginCommand(c) ==
  /\ command[c] = "begin"
  /\ using' = [using EXCEPT ![c] = cache]
  /\ command' = [command EXCEPT ![c] = "run"]
  /\ UNCHANGED <<seat, socket, procs, cache, steady, shell, sessionFaults>>

\* It works where the session's X server answers, that of a Wayland session perhaps; a hang or a
\* missing program ends it at once, and any command may fail for a reason of its own.
Attempt(c, onFailure) ==
  \/ /\ MayServe(using[c])
     /\ command' = [command EXCEPT ![c] = "done"] /\ UNCHANGED <<steady, sessionFaults>>
  \/ /\ ~Serves(using[c])
     /\ command' = [command EXCEPT ![c] = onFailure] /\ UNCHANGED <<steady, sessionFaults>>
  \/ /\ Spend /\ steady' = [steady EXCEPT ![c] = FALSE]
     /\ command' \in {[command EXCEPT ![c] = onFailure], [command EXCEPT ![c] = "failed"]}

RunCommand(c) ==
  /\ command[c] = "run"
  /\ Attempt(c, "redetect")
  /\ UNCHANGED <<seat, socket, procs, cache, using, shell>>

\* Mutant: the retry runs in the session that was cached.
RedetectKeeps(c) ==
  /\ command[c] = "redetect"
  /\ command' = [command EXCEPT ![c] = "rerun"]
  /\ UNCHANGED <<seat, socket, procs, cache, using, steady, shell, sessionFaults>>
Redetect(c) ==
  /\ command[c] = "redetect"
  /\ \E found \in Detected \cup Misdetected :
       /\ Detect(found)
       /\ cache' = found
       /\ using' = [using EXCEPT ![c] = found]
       /\ command' = [command EXCEPT ![c] = IF found.mode = "x11" THEN "rerun" ELSE "failed"]
  /\ UNCHANGED <<seat, socket, procs, shell>>

Rerun(c) ==
  /\ command[c] = "rerun"
  /\ Attempt(c, "failed")
  /\ UNCHANGED <<seat, socket, procs, cache, using, shell>>

Answered(c) ==
  /\ command[c] \in {"done", "failed", "refused"}
  /\ command' = [command EXCEPT ![c] = "idle"]
  /\ steady' = [steady EXCEPT ![c] = TRUE]
  /\ using' = [using EXCEPT ![c] = Empty]
  /\ UNCHANGED <<seat, socket, procs, cache, shell, sessionFaults>>

-----------------------------------------------------------------------------
(* shell_env: what a Shell child of Me gets of the session.  The runtime directory and its bus are
   there while Me is logged in. *)
AtHome == \E l \in Logins : seat[l] # "gone" /\ Who(l) = Me
Trusted(display) == socket[display] \in {"root", Me}
ShellEnv(s) ==
  (IF AtHome THEN {"XDG_RUNTIME_DIR", "DBUS_SESSION_BUS_ADDRESS"} ELSE {})
  \cup (IF s.user = Me /\ s.mode # "headless" /\ Trusted(s.display) THEN {"DISPLAY", "XAUTHORITY"} ELSE {})
  \cup (IF s.user = Me /\ s.mode = "wayland" /\ AtHome THEN {"WAYLAND_DISPLAY"} ELSE {})

\* _own_session never forces a detection; an empty cache is filled like anyone's.
OwnSession == GetSession
ShellCall ==
  /\ OwnSession
  /\ shell' = ShellEnv(cache')
  /\ UNCHANGED <<seat, socket, procs, command, using>>

-----------------------------------------------------------------------------
(* The machine's users. *)
Disturb == Spend /\ steady' = [c \in Commands |-> FALSE] /\ UNCHANGED <<cache, command, using, shell>>

\* One login is active on the seat; the X server's socket is root's, or its user's when rootless.
LogIn(l) ==
  /\ seat[l] = "gone"
  /\ \A k \in Logins : On(k) = On(l) => seat[k] = "gone"
  /\ seat' = [k \in Logins |-> IF k = l THEN "active" ELSE
                               IF seat[k] = "active" THEN "background" ELSE seat[k]]
  /\ socket' \in {[socket EXCEPT ![On(l)] = owner] : owner \in {"root", Who(l)}}
  /\ procs' = IF Who(l) = Me THEN procs \cup {On(l)} ELSE procs
  /\ Disturb

\* A logout; a crashed X server leaves its socket file, and a process (a terminal multiplexer, a
\* lingering user service) may outlive its session with the display in its environment.
LogOut(l) ==
  /\ seat[l] # "gone"
  /\ seat' = [seat EXCEPT ![l] = "gone"]
  /\ socket' \in {socket, [socket EXCEPT ![On(l)] = "none"]}
  /\ procs' \in IF Who(l) = Me THEN {procs, procs \ {On(l)}} ELSE {procs}
  /\ Disturb

LeftoverEnds(display) ==
  /\ display \in procs /\ OwnAt(display) = {}
  /\ procs' = procs \ {display}
  /\ UNCHANGED <<seat, socket>>
  /\ Disturb

Switch(l) ==
  /\ seat[l] = "background"
  /\ seat' = [k \in Logins |-> IF k = l THEN "active" ELSE
                               IF seat[k] = "active" THEN "background" ELSE seat[k]]
  /\ UNCHANGED <<socket, procs>>
  /\ Disturb

\* /tmp/.X11-unix is world-writable.
Plant(display) ==
  /\ socket[display] = "none"
  /\ socket' = [socket EXCEPT ![display] = "other"]
  /\ UNCHANGED <<seat, procs>>
  /\ Disturb

-----------------------------------------------------------------------------
SessionIdle ==
  /\ seat = [l \in Logins |-> "gone"] /\ socket = [d \in Displays |-> "none"] /\ procs = {}
  /\ cache = Empty
  /\ command = [c \in Commands |-> "idle"] /\ using = [c \in Commands |-> Empty] /\ steady = [c \in Commands |-> TRUE]
  /\ shell = {} /\ sessionFaults = 0
SessionInit == SessionIdle

CommandStep(c) == Ask(c) \/ BeginCommand(c) \/ RunCommand(c) \/ Redetect(c) \/ Rerun(c) \/ Answered(c)
UserStep == \/ \E l \in Logins : LogIn(l) \/ LogOut(l) \/ Switch(l)
            \/ \E d \in Displays : Plant(d) \/ LeftoverEnds(d)
SessionNext == (\E c \in Commands : CommandStep(c)) \/ ShellCall \/ UserStep
SessionSpec == SessionInit /\ [][SessionNext]_sessionVars
(* The server's threads run, and tools keep being called. *)
SessionFairness == \A c \in Commands : WF_sessionVars(CommandStep(c))

-----------------------------------------------------------------------------
(* The types of the seat, the cache and the commands. *)
SessionTypeOK ==
  /\ seat \in [Logins -> {"gone", "background", "active"}]
  /\ \A d \in Displays : socket[d] \in {"none", "root", "other"} \cup {Who(l) : l \in Logins}
  /\ procs \subseteq Displays
  /\ cache.mode \in {"unknown", "headless", "x11", "wayland"} /\ cache.display \in Displays
  /\ \A c \in Commands : using[c].display \in Displays
  /\ command \in [Commands -> {"idle", "begin", "run", "redetect", "rerun", "done", "failed", "refused"}]
  /\ steady \in [Commands -> BOOLEAN]
  /\ sessionFaults \in 0..MaxSessionFaults

OwnX11AtSeat == \E l \in Active("x11") : Who(l) = Me

(* A command that found a stale X11 session in the cache ends in the current one: with an X11
   session of the server's user at the seat all along, nothing else failing, and no process of that
   user left over from a session that is no X11 session any more, it does not fail - whatever other
   commands do to the one cache meanwhile. *)
StaleSessionHeals ==
  \A c \in Commands :
    command[c] = "failed" /\ steady[c] /\ OwnX11AtSeat =>
      \E display \in procs : ~\E l \in OwnAt(display) : Kind(l) = "x11"

(* The retry "handles a stale cached session after a logout/login": with an X11 session of the
   server's user at the seat all along and nothing else failing, the command does not fail. *)
RetryHandlesRelogin ==
  \A c \in Commands : ~(command[c] = "failed" /\ steady[c] /\ OwnX11AtSeat)

(* When an X11 session is there for good, the tools get back to it: the cache does not stay
   headless or on Wayland ("handles a stale cached session after a logout/login"). *)
HealsAfterLogin == <>[](Active("x11") # {}) => []<>(cache.mode \in {"x11", "unknown"})
==============================================================================
