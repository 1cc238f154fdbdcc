--------------------------- MODULE MCSyncConfigs ---------------------------
(* Two projects.  From one manifest to the next p loses a machine, moves   *)
(* with the gateway's url, leaves, or becomes direct; q stays.             *)
EXTENDS SyncConfigs, TLC

CONSTANTS r1, r2, p, q, a, b, u1, u2

Gateway(machines) == [machines |-> machines, mode |-> "gateway"]

Direct(machines) == [machines |-> machines, mode |-> "direct"]

MCManifests == {
    [url |-> u1, projects |-> p :> Gateway({a, b}) @@ q :> Gateway({a})],
    [url |-> u2, projects |-> p :> Gateway({a}) @@ q :> Gateway({a})],
    [url |-> u1, projects |-> q :> Gateway({a})],
    [url |-> u2, projects |-> p :> Direct({a}) @@ q :> Gateway({a})] }

Symmetry == Permutations(Runs)
=============================================================================
