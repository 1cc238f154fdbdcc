--------------------------- MODULE EpisodeReports ---------------------------
(* The two episode reports of the watchdog's run: gateway/drift.py (a machine older than the stable
   release for longer than the grace period) and gateway/no_admin.py (a server without admin
   rights).  An episode is announced once, kept while the machine gives no answer, and ended only
   by a fresh read; a run that fails in the middle must not lose what is still owed.

   One behaviour follows one of the two reports (kind): they run one after the other over fields
   of the same records that nothing else touches.  How old a version is, is the release channel's
   business (ReleaseChannel): here a fresh read is "bad" or "good".
   The boxes are the ones that stay in the key store. *)
EXTENDS Naturals

CONSTANTS
  Boxes,            \* the machines that can be in the key store
  MaxReportFaults   \* bound: exceptions, crashes and failed writes

ASSUME EpisodeAssumption == MaxReportFaults \in Nat

VARIABLES
  kind,        \* which report: "drift" or "admin"
  saved,       \* by box: its episode in the status file
  building,    \* by box: its episode in the status this run builds
  unsent,      \* the boxes this run has still to name
  reporting,   \* where the run is
  heard,       \* history: the boxes whose present episode the owner was told of
  reportFaults

episodeVars == <<kind, saved, building, unsent, reporting, heard, reportFaults>>

Reads == {"good", "bad", "unknown"}
Episodes == {"none", "owed", "told"}
Report == [Boxes -> Episodes]
NoReport == [b \in Boxes |-> "none"]
\* Mutant: what an earlier run could not deliver is not announced again.
OwedOnce(report) == {b \in Boxes : report[b] = "owed" /\ saved[b] = "none"}
Owed(report) == {b \in Boxes : report[b] = "owed"}

\* A fresh bad read opens an episode, a fresh good one ends it; without an answer the box keeps
\* what it had.
Continue(b, read) ==
  CASE read = "good" -> "none"
    [] read = "bad" -> IF saved[b] = "none" THEN "owed" ELSE saved[b]
    [] OTHER -> saved[b]

\* Drift without a release list judges no box and announces nothing.
Judge(announces) ==
  /\ reporting = "idle"
  /\ \E reads \in [Boxes -> Reads] :
       /\ announces \/ \A b \in Boxes : reads[b] = "unknown"
       /\ building' = [b \in Boxes |-> Continue(b, reads[b])]
  /\ unsent' = IF announces THEN Owed(building') ELSE {}
  /\ reporting' = "on"
  /\ UNCHANGED <<kind, saved, heard, reportFaults>>

JudgeAll == Judge(TRUE)
NoReleases == kind = "drift" /\ Judge(FALSE)

\* Mutant: a lost message settles its boxes too.
SendMarksLost(G, outcome) ==
  /\ reporting = "on" /\ G # {}
  /\ unsent' = unsent \ G
  /\ building' = [b \in Boxes |-> IF b \in G THEN "told" ELSE building[b]]
  /\ heard' = IF outcome = "lost" THEN heard ELSE heard \cup G
  /\ UNCHANGED <<kind, saved, reporting, reportFaults>>
\* One message, naming the boxes of G: delivered, lost, or delivered but reported as lost.
Send(G, outcome) ==
  /\ reporting = "on" /\ G # {}
  /\ unsent' = unsent \ G
  /\ building' = [b \in Boxes |-> IF b \in G /\ outcome = "sent" THEN "told" ELSE building[b]]
  /\ heard' = IF outcome = "lost" THEN heard ELSE heard \cup G
  /\ UNCHANGED <<kind, saved, reporting, reportFaults>>

\* An exception never costs the run its write: drift falls back to what the file had, the admin
\* report stays as far as it got.
ReportBreaks ==
  /\ reporting = "on" /\ unsent # {} /\ reportFaults < MaxReportFaults
  /\ building' = IF kind = "drift" THEN saved ELSE building
  /\ unsent' = {}
  /\ reportFaults' = reportFaults + 1
  /\ UNCHANGED <<kind, saved, reporting, heard>>

\* The run writes the status: the episodes that ended are over for the owner too.
WriteReport ==
  /\ reporting = "on" /\ unsent = {}
  /\ saved' = building
  /\ heard' = {b \in heard : building[b] # "none"}
  /\ reporting' = "idle" /\ building' = NoReport
  /\ UNCHANGED <<kind, unsent, reportFaults>>

\* A crash, or a status file that cannot be written: the file keeps what it had.
ReportLost ==
  /\ reporting = "on" /\ reportFaults < MaxReportFaults
  /\ reportFaults' = reportFaults + 1
  /\ reporting' = "idle" /\ building' = NoReport /\ unsent' = {}
  /\ UNCHANGED <<kind, saved, heard>>

-----------------------------------------------------------------------------
EpisodeIdle(k, step) ==
  /\ kind = k /\ saved = NoReport /\ building = NoReport /\ unsent = {}
  /\ reporting = step /\ heard = {} /\ reportFaults = 0
EpisodeInit == \E k \in {"drift", "admin"} : EpisodeIdle(k, "idle")

SendSome == \E G \in SUBSET unsent, outcome \in {"sent", "lost", "unreported"} : Send(G, outcome)
EpisodeNext ==
  JudgeAll \/ NoReleases \/ SendSome \/ ReportBreaks \/ WriteReport \/ ReportLost

EpisodeSpec == EpisodeInit /\ [][EpisodeNext]_episodeVars

(* The timer starts every run and a run goes on to its end (WF); the owner is reached again and
   again, and so is the release list (SF). *)
EpisodeFairness ==
  /\ WF_episodeVars(SendSome) /\ WF_episodeVars(WriteReport)
  /\ SF_episodeVars(JudgeAll)
  /\ \A b \in Boxes : SF_episodeVars(\E G \in SUBSET unsent : b \in G /\ Send(G, "sent"))

-----------------------------------------------------------------------------
(* The types of the report's state. *)
EpisodeTypeOK ==
  /\ kind \in {"drift", "admin"}
  /\ saved \in Report /\ building \in Report
  /\ unsent \subseteq Boxes /\ heard \subseteq Boxes
  /\ reporting \in {"idle", "on", "parked"}
  /\ reportFaults \in 0..MaxReportFaults

(* An episode the file calls announced is one the owner was told of since it began: a lost message,
   one delivered to only some of the boxes, an exception in the middle of a report, a box that
   gives no answer and a crash never turn an owed announcement into a delivered one. *)
EpisodesHeard == \A b \in Boxes : saved[b] = "told" => b \in heard

(* An owed announcement is retried until it goes out or its episode ends. *)
OwedEpisodesSettled == \A b \in Boxes : (saved[b] = "owed") ~> (saved[b] # "owed")
==============================================================================
