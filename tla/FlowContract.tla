---------------------------- MODULE FlowContract ----------------------------
(***************************************************************************)
(* What the flow table promises the stages behind it, whatever its shards, *)
(* timers and tombstones do: never more than MaxFlows flows are live, all  *)
(* shards together; bytes are delivered for live flows only; and the       *)
(* consumer's state for a flow goes when the flow does.                    *)
(***************************************************************************)
EXTENDS Naturals, FiniteSets

CONSTANTS FlowIds, MaxFlows

VARIABLES
    live,  \* the flows that hold a slot of the budget
    open   \* the flows the L7 stage keeps parser state for

contractVars == <<live, open>>

ContractTypeOK == live \subseteq FlowIds /\ open \subseteq FlowIds

ContractInit == live = {} /\ open = {}

(* A new flow takes a slot; its first packet may already carry bytes.      *)
Admit(i) ==
    /\ i \notin live
    /\ Cardinality(live) < MaxFlows
    /\ live' = live \cup {i}
    /\ open' \in {open, open \cup {i}}

(* Bytes of a live flow reach the L7 stage.                                *)
Deliver(i) ==
    /\ i \in live
    /\ open' = open \cup {i}
    /\ UNCHANGED live

(* Flows end: closed, reset, timed out, replaced or drained at shutdown.   *)
Retire(S) ==
    /\ live' = live \ S
    /\ open' = open \ S

ContractNext ==
    \/ \E i \in FlowIds : Admit(i) \/ Deliver(i)
    \/ \E S \in SUBSET live : Retire(S)

ContractSpec == ContractInit /\ [][ContractNext]_contractVars
=============================================================================
