--------------------------- MODULE MCFmuInstance ---------------------------
(***************************************************************************)
(* Two samples that meet, one that starts before the simulation and one    *)
(* that starts in it, for both kinds of FMU; without states and without    *)
(* event indicators.                                                       *)
(***************************************************************************)
EXTENDS FmuInstance

Every(start, interval) == [start |-> start, interval |-> interval]
Fmu(type, samples, states, indicators) ==
    [type |-> type, samplesInfo |-> samples, states |-> states, indicators |-> indicators]

MCModels == {Fmu("ME", <<Every(0, 2), Every(1, 3)>>, TRUE, TRUE),
             Fmu("CS", <<Every(0, 2), Every(1, 3)>>, TRUE, TRUE),
             Fmu("CS", <<Every(-1, 2)>>, FALSE, FALSE),
             Fmu("CS", <<>>, TRUE, FALSE)}

(* No samples, states and event indicators. *)
Plain == {Fmu("CS", <<>>, TRUE, TRUE)}
=============================================================================
