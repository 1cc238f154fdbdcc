------------------------ MODULE MCGatewayAdmission ------------------------
(* Two requests of one consumer to one machine; the registry grants the    *)
(* machine, knows no such token, denies the machine, or unexposes it.      *)
EXTENDS GatewayAdmission, TLC

CONSTANTS r1, r2, tok, box

MCTokenOf == [r \in Requests |-> tok]

MCMachineOf == [r \in Requests |-> box]

MCRegistries == {
    [allowed |-> tok :> {box}, exposed |-> {box}],
    [allowed |-> <<>>, exposed |-> {box}],
    [allowed |-> tok :> {}, exposed |-> {box}],
    [allowed |-> tok :> {box}, exposed |-> {}] }

MCSources == {{box}, {}}

Symmetry == Permutations(Requests)
=============================================================================
