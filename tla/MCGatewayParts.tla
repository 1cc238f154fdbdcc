--------------------------- MODULE MCGatewayParts ---------------------------
(* The gateway's parts that share no state: a request on its way to a machine (GatewayUpstream), the
   watchdog's state report (Watchdog) and episode reports (EpisodeReports), the fleet server's reply
   budget (FleetServer), a file transfer of remoteos-call (CallClient).  A behaviour runs one of them
   and leaves the others at rest: the checker explores the sum of their states, not the product. *)
EXTENDS GatewayUpstream, Watchdog, EpisodeReports, FleetServer, CallClient, TLC

CONSTANTS r1, r2

VARIABLE component

partsVars == <<component, vars, watchVars, episodeVars, fleetVars, transferVars>>

UpstreamRests ==
  /\ idleOpen = 0 /\ idleStale = 0 /\ up = FALSE /\ restarts = 0
  /\ phase = [r \in Requests |-> "ended"] /\ conn = [r \in Requests |-> "none"]
  /\ peerOpen = [r \in Requests |-> FALSE] /\ queued = [r \in Requests |-> 0]
  /\ ran = [r \in Requests |-> 0] /\ outcome = [r \in Requests |-> "client_disconnect"]
  /\ logged = [r \in Requests |-> 1] /\ trouble = [r \in Requests |-> FALSE]
  /\ others = [client |-> 0, retry_client |-> 0] /\ httpStatus = [r \in Requests |-> "none"]
  /\ crowded = [r \in Requests |-> FALSE]

PartsInit ==
  /\ component \in {"upstream", "watchdog", "episodes", "fleet", "transfer"}
  /\ IF component = "upstream" THEN Init ELSE UpstreamRests
  /\ WatchInit
  /\ IF component = "episodes" THEN EpisodeInit ELSE EpisodeIdle("drift", "parked")
  /\ IF component = "fleet" THEN FleetInit ELSE FleetIdle("over")
  /\ IF component = "transfer" THEN TransferInit ELSE TransferIdle("parked")

UpstreamRuns ==
  /\ component = "upstream" /\ Next
  /\ UNCHANGED <<component, watchVars, episodeVars, fleetVars, transferVars>>
WatchdogRuns ==
  /\ component = "watchdog" /\ WatchNext
  /\ UNCHANGED <<component, vars, episodeVars, fleetVars, transferVars>>
EpisodesRun ==
  /\ component = "episodes" /\ EpisodeNext
  /\ UNCHANGED <<component, vars, watchVars, fleetVars, transferVars>>
FleetRuns ==
  /\ component = "fleet" /\ FleetNext
  /\ UNCHANGED <<component, vars, watchVars, episodeVars, transferVars>>
TransferRuns ==
  /\ component = "transfer" /\ TransferNext
  /\ UNCHANGED <<component, vars, watchVars, episodeVars, fleetVars>>

PartsNext == UpstreamRuns \/ WatchdogRuns \/ EpisodesRun \/ FleetRuns \/ TransferRuns

UpstreamFairness == \A r \in Requests : WF_vars(GatewayStep(r))
\* At rest no step that fairness asks for is enabled.
PartsSpec == PartsInit /\ [][PartsNext]_partsVars /\ UpstreamFairness /\ EpisodeFairness /\ FleetFairness

(* The types of every part. *)
PartsTypeOK == TypeOK /\ WatchTypeOK /\ EpisodeTypeOK /\ FleetTypeOK /\ TransferTypeOK
==============================================================================
