---------------------------- MODULE MC_Services ----------------------------
(***************************************************************************)
(* The services a host keeps beside the engine: the DAG store with its     *)
(* driver, and the message layer with the pipeline.  They share no state,  *)
(* so a step of one leaves the other alone.                                *)
(*                                                                         *)
(* Two rounds of one author, which may send nodes of two epochs for each,  *)
(* an author nobody knows, and a driver that is given one of the nodes;    *)
(* two messages of any kinds.                                              *)
(***************************************************************************)
EXTENDS DagDriver, MessageFlow

MCOffered == {TestNode(1, 0, "a1", 0)}

dagVars == <<storeVars, driverVars>>

ServicesInit == DriverInit /\ FlowInit

DagStep == (HostNext \/ DriverNext) /\ UNCHANGED flowVars

MessageStep == FlowNext /\ UNCHANGED dagVars

ServicesSpec == ServicesInit /\ [][DagStep \/ MessageStep]_<<dagVars, flowVars>>
=============================================================================
