--------------------------- MODULE FetchContract ---------------------------
(***************************************************************************)
(* What TunnelClient.fetch promises its caller: a call settles at most     *)
(* once, the application behind the tunnel sees the request at most once,  *)
(* and a call resolves only with a response the application made for it.   *)
(* A call may be rejected at any time, before or after the application saw *)
(* it, and several calls may be rejected by one event.                     *)
(***************************************************************************)
EXTENDS Naturals

CONSTANT Requests   \* calls of fetch

VARIABLES
    outcome,  \* per call, what its promise says
    served    \* per call, how often the application was given its request

contractVars == <<outcome, served>>

ContractInit ==
    /\ outcome = [r \in Requests |-> "idle"]
    /\ served = [r \in Requests |-> 0]

Begin(r) ==
    /\ outcome[r] = "idle"
    /\ outcome' = [outcome EXCEPT ![r] = "active"]
    /\ UNCHANGED served

Serve(r) ==
    /\ outcome[r] # "idle"
    /\ served[r] = 0
    /\ served' = [served EXCEPT ![r] = 1]
    /\ UNCHANGED outcome

Resolve(r) ==
    /\ outcome[r] = "active"
    /\ served[r] = 1
    /\ outcome' = [outcome EXCEPT ![r] = "resolved"]
    /\ UNCHANGED served

Reject(R) ==
    /\ \A r \in R : outcome[r] = "active"
    /\ outcome' = [r \in Requests |-> IF r \in R THEN "rejected" ELSE outcome[r]]
    /\ UNCHANGED served

ContractNext ==
    \/ \E r \in Requests : Begin(r) \/ Serve(r) \/ Resolve(r)
    \/ \E R \in SUBSET Requests : Reject(R)

ContractSpec == ContractInit /\ [][ContractNext]_contractVars
=============================================================================
