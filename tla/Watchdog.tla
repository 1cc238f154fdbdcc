------------------------------ MODULE Watchdog ------------------------------
(* `remoteos-gateway check` (gateway/check.py): each run of a user timer
   probes every machine of the key store, compares the result with the status file of the run
   before, tells the owner what changed and saves the new status.  A message may get lost, or be
   delivered and reported as lost (a notifier that times out); the run may end between a message
   and the write of the status file; a file that cannot be read or is not valid is taken for one
   that says nothing.

   Reading the probes is one step: nothing else changes the status file while a run is on (systemd
   runs one check at a time).  The text of a message is abstracted to the items it names; how the
   items are split over messages is free.  The two episode reports of a run (drift, missing admin
   rights) are in EpisodeReports: they share the run's write and nothing else. *)
EXTENDS Naturals, FiniteSets

CONSTANTS
  Machines,      \* the machines of the key store
  Gateway,       \* the gateway's own record
  ProbeStates,   \* what a probe can find, "ok" among it
  Failures,      \* the distinct messages of a run that cannot be made
  MaxFaults      \* bound: crashes, failed reads and writes, unexpected exceptions

ASSUME WatchdogAssumption ==
  /\ Gateway \notin Machines /\ "check" \notin Machines \cup {Gateway}
  /\ "ok" \in ProbeStates /\ "none" \notin ProbeStates \cup Failures
  /\ MaxFaults \in Nat

VARIABLES
  file,       \* the saved status file
  previous,   \* what the run in progress read of it
  stage,      \* where the run is
  work,       \* the status the run is building
  owed,       \* what the report in progress has still to announce
  back,       \* this run owes "the check runs again" with its first message
  first,      \* no message of the state report was sent yet
  reason,     \* the failure being reported
  told,       \* history: the state the owner was last told of an item ("ok" of one never mentioned)
  toldDown,   \* history: the owner was last told the check does not run
  torn,       \* history: what was announced since the file last agreed with it
  forgotten,  \* history: what the file lost its memory of and the owner may remember otherwise
  watchFaults

watchVars == <<file, previous, stage, work, owed, back, first, reason, told, toldDown, torn,
               forgotten, watchFaults>>

Items == Machines \cup {Gateway}
Check == "check"                       \* the check itself, beside Items in the histories
NoticeOutcomes == {"sent", "lost", "unreported"}
NoRecord == [state |-> "none", notified |-> FALSE]
Records == [state : ProbeStates, notified : BOOLEAN]
NoError == [message |-> "none", notified |-> FALSE]
Status == [items : [Items -> Records \cup {NoRecord}],
           error : {NoError} \cup [message : Failures \cup {"status"}, notified : BOOLEAN],
           recovery : BOOLEAN]
EmptyStatus == [items |-> [i \in Items |-> NoRecord], error |-> NoError, recovery |-> FALSE]

Known(s) == {i \in Items : s.items[i] # NoRecord}
Unannounced(s) == {i \in Known(s) : ~s.items[i].notified}

\* What one probe found; "gone": the machine is not in the key store.
Observations == [state : ProbeStates, repaired : {FALSE}] \cup {[state |-> "ok", repaired |-> TRUE]}
Gone == [state |-> "gone", repaired |-> FALSE]

-----------------------------------------------------------------------------
\* The run reads the file; one it cannot read or parse says nothing, and the run starts over.
LoadStatus ==
  \/ previous' = file /\ UNCHANGED watchFaults
  \/ /\ watchFaults < MaxFaults /\ watchFaults' = watchFaults + 1
     /\ previous' = EmptyStatus

(* The state report. *)

\* Mutant: what an earlier run still owed is forgotten.
AdvanceForgetsOwed(prev, obs) ==
  [state |-> obs.state, notified |-> prev = NoRecord \/ prev.state = obs.state]
\* A state that holds keeps its mark, a new one is owed; a machine first seen ok is not news.
Advance(prev, obs) ==
  [state |-> obs.state,
   notified |-> IF prev.state = obs.state /\ ~obs.repaired
                THEN prev.notified
                ELSE prev = NoRecord /\ obs.state = "ok" /\ ~obs.repaired]

StartRun ==
  /\ stage = "idle"
  /\ LoadStatus
  /\ \E obs \in [Items -> Observations \cup {Gone}] :
       /\ obs[Gateway] # Gone /\ ~obs[Gateway].repaired
       /\ work' = [EmptyStatus EXCEPT
            !.items = [i \in Items |-> IF obs[i] = Gone THEN NoRecord
                                       ELSE Advance(previous'.items[i], obs[i])]]
  /\ owed' = Unannounced(work')
  /\ back' = (previous'.error # NoError \/ previous'.recovery)
  /\ first' = TRUE
  /\ stage' = "states"
  /\ UNCHANGED <<file, reason, told, toldDown, torn, forgotten>>

Marked(record, named) == [state |-> record.state, notified |-> record.notified \/ named]
Mark(s, G) == [s EXCEPT !.items = [i \in Items |-> Marked(s.items[i], i \in G)]]
\* Mutant: a delivered message settles every item, those of other messages too.
AnnounceMarksAll(G, outcome) ==
  /\ stage = "states" /\ (G # {} \/ (owed = {} /\ back /\ first))
  /\ owed' = owed \ G
  /\ first' = FALSE
  /\ work' = IF outcome = "sent" THEN Mark(work, Items)
                                 ELSE [work EXCEPT !.recovery = @ \/ (first /\ back)]
  /\ IF outcome = "lost" THEN UNCHANGED <<told, toldDown, torn>>
     ELSE /\ told' = [i \in Items |-> IF i \in G THEN work.items[i].state ELSE told[i]]
          /\ toldDown' = (toldDown /\ ~back)
          /\ torn' = torn \cup G \cup (IF back THEN {Check} ELSE {})
  /\ UNCHANGED <<file, previous, stage, back, reason, forgotten, watchFaults>>
\* Mutant: the news that the check runs again counts as told although the message was lost.
AnnounceForgetsBack(G, outcome) ==
  /\ AnnounceMarksAll(G, outcome)
  /\ outcome # "sent" => ~work'.recovery
\* One message: it names the items of G.  Only the items of a delivered message are done, and only
\* a lost first message keeps the news that the check runs again owed.
Announce(G, outcome) ==
  /\ stage = "states" /\ (G # {} \/ (owed = {} /\ back /\ first))
  /\ owed' = owed \ G
  /\ first' = FALSE
  /\ work' = IF outcome = "sent" THEN Mark(work, G)
                                 ELSE [work EXCEPT !.recovery = @ \/ (first /\ back)]
  /\ IF outcome = "lost" THEN UNCHANGED <<told, toldDown, torn>>
     ELSE /\ told' = [i \in Items |-> IF i \in G THEN work.items[i].state ELSE told[i]]
          /\ toldDown' = (toldDown /\ ~back)
          /\ torn' = torn \cup G \cup (IF back THEN {Check} ELSE {})
  /\ UNCHANGED <<file, previous, stage, back, reason, forgotten, watchFaults>>

-----------------------------------------------------------------------------
(* The end of a run. *)

\* The file and the owner agree on an item: what it says was announced is what the owner was told.
Agrees(s, seen, down, i) ==
  IF i = Check
  THEN /\ (s.error = NoError /\ ~s.recovery) => ~down
       /\ s.error.notified => down
  ELSE s.items[i].notified => seen[i] = s.items[i].state

\* And of an item it does not know the owner has no bad news that nobody will take back.
Settled(s, i) ==
  /\ Agrees(s, told, toldDown, i)
  /\ i \in Items \ Known(s) => told[i] = "ok"

\* A run that could not read the file writes one without memory, a machine that left the key store
\* is not written down any more.
Saved(s) ==
  LET dropped == IF previous = file THEN Items \ Known(s) ELSE Items \cup {Check}
  IN /\ file' = s
     /\ torn' = {i \in torn : ~Settled(s, i)}
     /\ forgotten' = {i \in forgotten \cup dropped : ~Settled(s, i)}

\* The process ends: nothing of the run is left but what it saved.
Idle ==
  /\ stage' = "idle" /\ owed' = {} /\ previous' = EmptyStatus /\ work' = EmptyStatus
  /\ back' = FALSE /\ first' = FALSE /\ reason' = "status"

StatesReported == stage = "states" /\ owed = {} /\ ~(back /\ first)

Save ==
  /\ StatesReported
  /\ Saved(work)
  /\ Idle
  /\ UNCHANGED <<told, toldDown, watchFaults>>

FailRun(message) ==
  /\ reason' = message
  /\ stage' = "failing"
  /\ owed' = {} /\ work' = EmptyStatus /\ back' = FALSE /\ first' = FALSE
  /\ UNCHANGED <<file, told, toldDown, torn, forgotten>>

\* The key store is not valid, or the status file cannot be written, or anything unexpected.
CannotStart == stage = "idle" /\ LoadStatus /\ \E r \in Failures : FailRun(r)
CannotSave ==
  /\ StatesReported /\ watchFaults < MaxFaults
  /\ FailRun("status") /\ watchFaults' = watchFaults + 1 /\ UNCHANGED previous
Unexpected ==
  /\ stage = "states" /\ watchFaults < MaxFaults
  /\ \E r \in Failures : FailRun(r) /\ watchFaults' = watchFaults + 1 /\ UNCHANGED previous

\* The failure is announced once per message; the states the run has read stay.
Same == previous.error.message = reason
AnnounceFailure ==
  /\ stage = "failing" /\ ~(Same /\ previous.error.notified)
  /\ \E outcome \in NoticeOutcomes :
       /\ toldDown' = (toldDown \/ outcome # "lost")
       /\ torn' = IF outcome = "lost" THEN torn ELSE torn \cup {Check}
       /\ work' = [previous EXCEPT !.error = [message |-> reason, notified |-> outcome = "sent"]]
  /\ stage' = "record"
  /\ UNCHANGED <<file, previous, owed, back, first, reason, told, forgotten, watchFaults>>
KnownFailure ==
  /\ stage = "failing" /\ Same /\ previous.error.notified
  /\ work' = previous
  /\ stage' = "record"
  /\ UNCHANGED <<file, previous, owed, back, first, reason, told, toldDown, torn, forgotten,
                 watchFaults>>
RecordFailure ==
  /\ stage = "record"
  /\ Saved(work)
  /\ Idle
  /\ UNCHANGED <<told, toldDown, watchFaults>>

\* A crash, or a status file that cannot take the failure either: nothing of the run is kept.
RunLost ==
  /\ stage # "idle" /\ watchFaults < MaxFaults
  /\ watchFaults' = watchFaults + 1
  /\ Idle
  /\ UNCHANGED <<file, told, toldDown, torn, forgotten>>

-----------------------------------------------------------------------------
WatchInit ==
  /\ file = EmptyStatus /\ previous = EmptyStatus /\ work = EmptyStatus
  /\ stage = "idle" /\ owed = {} /\ back = FALSE /\ first = FALSE /\ reason = "status"
  /\ told = [i \in Items |-> "ok"] /\ toldDown = FALSE
  /\ torn = {} /\ forgotten = {} /\ watchFaults = 0

WatchNext ==
  \/ StartRun \/ CannotStart \/ Save
  \/ \E G \in SUBSET owed, outcome \in NoticeOutcomes : Announce(G, outcome)
  \/ CannotSave \/ Unexpected \/ AnnounceFailure \/ KnownFailure \/ RecordFailure \/ RunLost

WatchSpec == WatchInit /\ [][WatchNext]_watchVars

-----------------------------------------------------------------------------
(* The types of the state: the saved file, the status being built and the history. *)
WatchTypeOK ==
  /\ file \in Status /\ previous \in Status /\ work \in Status
  /\ stage \in {"idle", "states", "failing", "record"}
  /\ owed \subseteq Items
  /\ back \in BOOLEAN /\ first \in BOOLEAN
  /\ reason \in Failures \cup {"status"}
  /\ told \in [Items -> ProbeStates] /\ toldDown \in BOOLEAN
  /\ torn \subseteq Items \cup {Check} /\ forgotten \subseteq Items \cup {Check}
  /\ watchFaults \in 0..MaxFaults

\* Of what the file forgot it may leave old bad news untold to be over, and nothing worse.
OnlyGoodNewsMissed(s, seen, down, i) ==
  IF i = Check
  THEN s.error.notified => down
  ELSE s.items[i].notified => seen[i] = s.items[i].state \/ s.items[i].state = "ok"

(* What the status file calls announced is what the owner was last told, of every machine, of the
   gateway and of the check itself, whatever was lost or split over several messages.  Two things
   are excepted: what was announced by a run that ended before its status was saved; and what the
   file forgot - all of it when it could not be read, a machine when it left the key store - of
   which the owner may still believe bad news that is over, but never misses any.  Without a fault
   only a machine that left is excepted. *)
OwnerUpToDate ==
  /\ \A i \in (Items \cup {Check}) \ (torn \cup forgotten) : Agrees(file, told, toldDown, i)
  /\ \A i \in forgotten \ torn : OnlyGoodNewsMissed(file, told, toldDown, i)
  /\ watchFaults = 0 => forgotten \subseteq Machines /\ (stage = "idle" => torn = {})

(* The recovery of a check that could not run is announced (the module's docstring: a failure is
   announced once, "and so is its recovery"): a run that has said all it has to say, and owes the
   recovery no longer, does not leave the owner believing the check is down. *)
RecoveryAnnounced == StatesReported /\ ~work.recovery => ~toldDown
==============================================================================
