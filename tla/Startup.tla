------------------------------ MODULE Startup ------------------------------
(* The start of a machine server (__main__.py's cli, config.py, tiers.py, security.py): every value
   comes from the command line or its environment, else from remoteos.toml, else from a default; the
   tools are resolved from them and from the machine's session; a server that would be an open shell
   on the network does not start; the gates are put before the tools, the address list outermost.
   Values that play no part in a decision (port, debug, banner) are left out.  A server runs on one
   kind of machine, is stopped, and is started again with other options. *)
EXTENDS FiniteSets

CONSTANTS
  Platform,          \* "linux", "macos" or "windows"
  Named              \* the tool lists an option may carry, among AllTools and "NoSuchTool"

VARIABLES
  boot,       \* where the start is: "down", "config", "tools", "gates", "serving" or "refused"
  options,    \* what the start has chosen so far
  tools,      \* the tools the server offers
  response    \* the last request and what became of it

startVars == <<boot, options, tools, response>>

-----------------------------------------------------------------------------
(* tiers.py: the tiers, and what a Linux machine leaves out. *)
Tier1 == {"Snapshot", "AnnotatedSnapshot", "Zoom", "DisplayInventory", "CursorPosition", "ElementTree",
  "GetClipboard", "GetSystemInfo", "ListProcesses", "FileList", "FileSearch", "RegRead", "ServiceList",
  "TaskList", "EventLog", "Ping", "PortCheck", "NetConnections", "OCR", "ScreenRecord", "Notification",
  "Wait", "WaitFor", "GetTaskStatus", "GetRunningTasks"}
Tier2 == {"Click", "ClickElement", "Type", "TypeElement", "Move", "Scroll", "Shortcut", "HoldKey",
  "FocusWindow", "MinimizeAll", "App", "Scrape", "CancelTask", "ReconnectSession"}
Tier3 == {"Shell", "FileRead", "FileWrite", "FileDownload", "FileUpload", "FileHash", "FileRename",
  "KillProcess", "RegWrite", "ServiceStart", "ServiceStop", "TaskCreate", "TaskDelete", "SetClipboard",
  "LockScreen", "SelfUpgrade"}
AllTools == Tier1 \cup Tier2 \cup Tier3

LinuxNever == {"Scrape", "RegRead", "RegWrite", "ReconnectSession"}
LinuxDisplay == {"Snapshot", "AnnotatedSnapshot", "Zoom", "DisplayInventory", "CursorPosition",
  "ScreenRecord", "OCR", "WaitFor", "ElementTree", "Click", "ClickElement", "Type", "TypeElement",
  "Move", "Scroll", "Shortcut", "HoldKey", "FocusWindow", "MinimizeAll", "App", "GetClipboard",
  "SetClipboard", "LockScreen", "Notification"}

\* Wayland keeps the display tools: there each one says what is missing.  A detection that fails
\* counts as headless.
PlatformExcludes(mode) ==
  IF Platform # "linux" THEN {}
  ELSE IF mode \in {"x11", "wayland"} THEN LinuxNever ELSE LinuxNever \cup LinuxDisplay

Registered == IF Platform = "macos" THEN AllTools \ {"ReconnectSession"} ELSE AllTools

\* Named tools go before the tiers, exclusions after both, the platform's own last.
Resolve(o, mode) ==
  LET wanted == IF o.named # {} THEN o.named
                ELSE IF o.all THEN AllTools
                ELSE Tier1 \cup (IF o.noTier2 THEN {} ELSE Tier2) \cup (IF o.tier3 THEN Tier3 ELSE {})
  IN (wanted \ o.excluded) \ PlatformExcludes(mode)

-----------------------------------------------------------------------------
(* config.py and the choice of a value. *)
Unset == "unset"
Chosen(cli, file, default) == IF cli # Unset THEN cli ELSE IF file # Unset THEN file ELSE default

NoList == {Unset}
ChosenList(cli, file) == IF cli # NoList THEN cli ELSE file

\* A boolean of the file is a real one or one of the words for it; any other value is an error, never TRUE.
Booleans == {Unset, "true", "false"}
ReadBoolean(word) == word = "true"

NoOptions == [network |-> FALSE, stdio |-> FALSE, key |-> FALSE, tls |-> FALSE, oauth |-> "none",
              tier3 |-> FALSE, noTier2 |-> FALSE, all |-> FALSE, named |-> {}, excluded |-> {},
              list |-> FALSE]

NoResponse == [tool |-> "Ping", credential |-> "none", remote |-> FALSE, ran |-> FALSE]

Boot == boot = "down" /\ boot' = "config" /\ UNCHANGED <<options, tools, response>>

Refuse == boot' = "refused" /\ options' = NoOptions /\ tools' = {} /\ UNCHANGED response

\* No such file, no TOML, or a value of the wrong type.
BadConfig == boot = "config" /\ Refuse

\* Half a certificate pair is refused: it would serve plain HTTP.  A key that is empty is none.
ServerValues ==
  /\ boot = "config"
  /\ \E cliHost, fileHost \in {Unset, "127.0.0.1", "0.0.0.0"}, cliKey \in {Unset, "k"},
        fileKey \in {Unset, "", "k"}, cert, certKey \in BOOLEAN, stdio \in BOOLEAN :
       IF cert # certKey THEN Refuse
       ELSE /\ options' = [options EXCEPT
                 !.network = Chosen(cliHost, fileHost, "127.0.0.1") # "127.0.0.1",
                 !.stdio = stdio, !.tls = cert,
                 !.key = Chosen(cliKey, fileKey, "") # ""]
            /\ boot' = "tools" /\ UNCHANGED <<tools, response>>

\* The lists of the command line replace the file's also when they are empty.
ToolValues ==
  /\ boot = "tools"
  /\ \E cliTier3, fileTier3 \in Booleans, cliNo2 \in Booleans \ {"false"}, all \in BOOLEAN,
        cliNamed, cliExcluded \in Named \cup {NoList}, fileNamed, fileExcluded \in Named,
        mode \in {"x11", "wayland", "headless"} :
       LET o == [options EXCEPT
                   !.tier3 = ReadBoolean(Chosen(cliTier3, fileTier3, "false")),
                   !.noTier2 = ReadBoolean(Chosen(cliNo2, Unset, "false")),
                   !.all = all,
                   !.named = ChosenList(cliNamed, fileNamed),
                   !.excluded = ChosenList(cliExcluded, fileExcluded)]
       IN IF o.named \cup o.excluded \subseteq AllTools
          THEN /\ options' = [o EXCEPT !.named = {}, !.excluded = {}, !.noTier2 = FALSE]
               /\ tools' = Resolve(o, mode) \cap Registered
               /\ boot' = "gates" /\ UNCHANGED response
          ELSE Refuse

-----------------------------------------------------------------------------
(* The bind guard (#39) and the gates. *)
\* Mutant: the guard asks for the options of the third tier, not for its tools.
OpenShellByFlag(o) == o.network /\ ~o.key /\ (o.tier3 \/ o.all)
OpenShell(o) == o.network /\ ~o.key /\ tools \cap Tier3 # {}

Serve ==
  /\ boot = "gates"
  /\ \E oauth \in {"none", "open", "secret"}, list \in BOOLEAN :
       IF ~options.stdio /\ OpenShell(options) THEN Refuse
       ELSE /\ boot' = "serving"
            /\ options' = [options EXCEPT !.oauth = oauth, !.list = list]
            /\ UNCHANGED <<tools, response>>

StopServer == boot \in {"serving", "refused"} /\ boot' = "down"
              /\ options' = NoOptions /\ tools' = {} /\ response' = NoResponse

\* The address list is asked first, /health is for everybody; then the key or a token, where one of
\* them is configured.  The server's own pipe passes no gate.
Admitted(o, listed, credential) ==
  \/ o.stdio
  \/ /\ o.list => listed
     /\ \/ ~o.key /\ o.oauth = "none"
        \/ o.key /\ credential = "key"
        \/ o.oauth # "none" /\ credential = "token"

Request ==
  /\ boot = "serving"
  /\ \E listed \in BOOLEAN, credential \in {"none", "key", "token"}, tool \in {"Ping", "Shell"} :
       response' = [tool |-> tool, credential |-> credential, remote |-> options.network /\ ~options.stdio,
                 ran |-> Admitted(options, listed, credential) /\ tool \in tools]
  /\ UNCHANGED <<boot, options, tools>>

-----------------------------------------------------------------------------
StartIdle(step) ==
  /\ boot = step /\ options = NoOptions /\ tools = {} /\ response = NoResponse
StartInit == StartIdle("down")

StartNext == Boot \/ BadConfig \/ ServerValues \/ ToolValues \/ Serve \/ StopServer \/ Request
StartSpec == StartInit /\ [][StartNext]_startVars

-----------------------------------------------------------------------------
(* The types of the server's start. *)
StartTypeOK ==
  /\ boot \in {"down", "config", "tools", "gates", "serving", "refused", "parked"}
  /\ options.oauth \in {"none", "open", "secret"} /\ options.named \subseteq AllTools
  /\ tools \subseteq Registered

(* "an open full shell on the network" never starts: however the options, the environment, the file
   and the tool lists combine, a tier-3 tool never runs for a client of the network that presented
   neither a key nor a token. *)
ShellNeverOpen == response.remote /\ response.credential = "none" /\ response.ran => response.tool \notin Tier3
==============================================================================
