----------------------------- MODULE CallClient -----------------------------
(* remoteos-call's file transfers (cli_call.py run_put and run_get) with the tools they call on the
   machine (tools/files.py, file_transfer.py), and the exit codes of every call.

   A put sends its file in chunks to <remote>.part, compares the part's size and sha256 with what
   it sent, and renames the part over the target.  Every call may be refused, fail, time out or
   lose its connection; a call its client gave up on may still run, at any later moment.  Puts of
   the same target follow each other (two at once are documented as unsupported).  A file's content
   is the sequence of the chunks in it, a chunk a put number and a position. *)
EXTENDS Integers, Sequences

CONSTANTS
  Chunks,              \* chunks of a put's file (an empty file still sends one)
  MaxPuts,             \* bound: puts
  MaxTransferFaults    \* bound: failures, timeouts and crashes

ASSUME TransferAssumption == Chunks \in Nat \ {0} /\ MaxPuts \in Nat /\ MaxTransferFaults \in Nat

VARIABLES
  part, target,   \* the machine's two files: a sequence of chunks, or NoFile
  put,            \* the put at work: its number, its step and the next chunk
  call,           \* the tool call in flight, or NoCall
  given,          \* calls given up on that have not run
  exit,           \* by put: how it ended
  late,           \* history: a rename given up on ran, or a chunk after the part was hashed
  get,            \* the step of a get
  local, tmp,     \* a get's target and its temporary file: "none", "old", "cut" or "whole"
  transferFaults

transferVars == <<part, target, put, call, given, exit, late, get, local, tmp, transferFaults>>
putVars == <<part, target, put, call, given, exit, late>>
getVars == <<get, local, tmp>>

NoFile == <<>>
Old == <<<<0, 1>>>>      \* the target before any put
Content(n) == [i \in 1..Chunks |-> <<n, i>>]
NoCall == [tool |-> "none"]
NoTransfer(n) == [number |-> n, step |-> "idle", chunk |-> 1]
Fault == transferFaults < MaxTransferFaults /\ transferFaults' = transferFaults + 1

-----------------------------------------------------------------------------
(* The machine's tools, as pairs of the two files they leave. *)

\* FileUpload: the first chunk starts the part anew with the target's permissions (a leftover part
\* is unlinked first), the others are appended; a missing file is created.
Upload(c) ==
  <<IF c.chunk = 1 THEN <<<<c.put, 1>>>> ELSE Append(part, <<c.put, c.chunk>>), target>>

\* FileRename: refused without a part; the part replaces the target in one step.
Rename(c) == IF part = NoFile THEN <<part, target>> ELSE <<NoFile, part>>

Effect(c) ==
  CASE c.tool = "FileUpload" -> Upload(c)
    [] c.tool = "FileRename" -> Rename(c)
    [] OTHER -> <<part, target>>
Files(c) == part' = Effect(c)[1] /\ target' = Effect(c)[2]

\* What the client reads in the reply: FileHash answers with the part's content at that moment.
Reply(c) ==
  CASE c.tool = "FileHash" -> IF part = Content(c.put) THEN "match" ELSE "mismatch"
    [] c.tool = "FileRename" -> IF part = NoFile THEN "error" ELSE "done"
    [] OTHER -> "written"

-----------------------------------------------------------------------------
(* Exit codes.  125: the tool failed, or the server answered with a protocol error; 126: no result
   came. *)
ExitOf(cause) == IF cause \in {"error", "mismatch", "protocol"} THEN 125 ELSE 126

-----------------------------------------------------------------------------
(* run_put. *)

StartPut ==
  /\ put.step = "idle" /\ put.number < MaxPuts
  /\ put' = [number |-> put.number + 1, step |-> "upload", chunk |-> 1]
  /\ UNCHANGED <<part, target, call, given, exit, late, getVars, transferFaults>>

ToolOf(step) == CASE step = "upload" -> "FileUpload" [] step = "hash" -> "FileHash"
                  [] step = "rename" -> "FileRename"

SendCall ==
  /\ put.step # "idle" /\ call = NoCall
  /\ call' = [tool |-> ToolOf(put.step), put |-> put.number, chunk |-> put.chunk, reply |-> "none"]
  /\ UNCHANGED <<part, target, put, given, exit, late, getVars, transferFaults>>

\* The machine runs the call, or the tool fails: a directory, no space, no permission.
ServeCall ==
  /\ call # NoCall /\ call.reply = "none"
  /\ \/ Files(call) /\ call' = [call EXCEPT !.reply = Reply(call)] /\ UNCHANGED transferFaults
     \/ Fault /\ call' = [call EXCEPT !.reply = "error"] /\ UNCHANGED <<part, target>>
  /\ UNCHANGED <<put, given, exit, late, getVars>>

EndPut(code) ==
  /\ put' = NoTransfer(put.number)
  /\ exit' = Append(exit, code)
  /\ call' = NoCall

\* The next step after a good reply.
\* Mutant: a hash that differs does not end the put.
HashUnread(reply) == reply \in {"written", "match", "mismatch"}
GoodReply(reply) == reply \in {"written", "match"}
NextCall ==
  IF put.step = "hash" THEN [put EXCEPT !.step = "rename"]
  ELSE IF put.chunk < Chunks THEN [put EXCEPT !.chunk = @ + 1]
  ELSE [put EXCEPT !.step = "hash"]

Receive ==
  /\ call # NoCall /\ call.reply # "none"
  /\ \/ /\ GoodReply(call.reply) /\ put' = NextCall
        /\ call' = NoCall /\ UNCHANGED exit
     \/ ~GoodReply(call.reply) /\ EndPut(IF call.reply = "done" THEN 0 ELSE ExitOf(call.reply))
  /\ UNCHANGED <<part, target, given, late, getVars, transferFaults>>

\* No reply in time, a dropped connection, an interrupt, or a local file that cannot be read any
\* more: the put ends, and what it had asked for may still run.
GiveUp ==
  /\ put.step # "idle" /\ Fault
  /\ EndPut(126)
  /\ given' = IF call # NoCall /\ call.reply = "none" THEN given \cup {call} ELSE given
  /\ UNCHANGED <<part, target, late, getVars>>

RunLate ==
  /\ \E c \in given :
       /\ Files(c)
       /\ given' = given \ {c}
       /\ late' = (late \/ c.tool = "FileRename" \/ (c.tool = "FileUpload" /\ put.step = "rename")
                        \/ (c.tool = "FileUpload" /\ call # NoCall /\ call.reply = "match"))
  /\ UNCHANGED <<put, call, exit, getVars, transferFaults>>

-----------------------------------------------------------------------------
(* run_get: a reply whose size or base64 is wrong changes nothing; the file is written beside its
   target and renamed over it. *)

Download ==
  /\ get = "start"
  /\ \/ get' = "write" /\ UNCHANGED transferFaults
     \/ get' = "failed" /\ Fault
  /\ UNCHANGED <<putVars, local, tmp>>

\* Mutant: the file is written under its own name.
WriteInPlace ==
  /\ get = "write"
  /\ local' = "cut" /\ get' = "sync"
  /\ UNCHANGED <<putVars, tmp, transferFaults>>
WriteTmp ==
  /\ get = "write"
  /\ tmp' = "cut" /\ get' = "sync"
  /\ UNCHANGED <<putVars, local, transferFaults>>

SyncTmp ==
  /\ get = "sync"
  /\ \/ tmp' = "whole" /\ get' = "replace" /\ UNCHANGED transferFaults
     \/ tmp' = "none" /\ get' = "failed" /\ Fault
  /\ UNCHANGED <<putVars, local>>

Replace ==
  /\ get = "replace"
  /\ local' = tmp /\ tmp' = "none" /\ get' = "done"
  /\ UNCHANGED <<putVars, transferFaults>>

\* The client's machine stops; a temporary file stays behind.
CrashGet ==
  /\ get \in {"write", "sync", "replace"} /\ Fault
  /\ get' = "failed"
  /\ UNCHANGED <<putVars, local, tmp>>

-----------------------------------------------------------------------------
TransferIdle(state) ==
  /\ part = NoFile /\ target = Old /\ put = NoTransfer(0) /\ call = NoCall /\ given = {}
  /\ exit = <<>> /\ late = FALSE
  /\ get = state /\ local = "old" /\ tmp = "none" /\ transferFaults = 0
TransferInit == TransferIdle("start")

TransferNext ==
  \/ StartPut \/ SendCall \/ ServeCall \/ Receive \/ GiveUp \/ RunLate
  \/ Download \/ WriteTmp \/ SyncTmp \/ Replace \/ CrashGet
TransferSpec == TransferInit /\ [][TransferNext]_transferVars

-----------------------------------------------------------------------------
ToolCalls == [tool : {"FileUpload", "FileHash", "FileRename"}, put : 1..MaxPuts, chunk : 1..Chunks,
              reply : {"none", "written", "match", "mismatch", "done", "error"}]

(* The types of the files, the put and the calls. *)
TransferTypeOK ==
  /\ part \in Seq(Nat \X Nat) /\ target \in Seq(Nat \X Nat)
  /\ put \in [number : 0..MaxPuts, step : {"idle", "upload", "hash", "rename"}, chunk : 1..Chunks]
  /\ call \in {NoCall} \cup ToolCalls /\ given \subseteq ToolCalls
  /\ exit \in Seq({0, 125, 126})
  /\ late \in BOOLEAN
  /\ get \in {"start", "write", "sync", "replace", "done", "failed", "parked"}
  /\ local \in {"old", "cut", "whole"} /\ tmp \in {"none", "cut", "whole"}
  /\ transferFaults \in 0..MaxTransferFaults

Whole(file) == file \in {Old} \cup {Content(n) : n \in 1..MaxPuts}

(* The target of a transfer is always a whole file - the old one or one that was sent - through
   failed puts, leftover parts and calls that run after their client gave up; a put's only exposure
   is a call that runs late between the part's hash and its rename, or a late rename. *)
TransfersWhole == (Whole(target) \/ late) /\ local # "cut"

(* "any size, sha256-checked, atomic" (README.md, remoteos-call put): the target is never a file
   nobody sent. *)
PutIsAtomic == Whole(target)
==============================================================================
