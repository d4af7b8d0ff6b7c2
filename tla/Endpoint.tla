-------------------------------- MODULE Endpoint -------------------------------
(***************************************************************************)
(* rdma_ep and connection_resources of rdma_connector: an endpoint has its *)
(* resources made by create_resources, whose locals are auto_refs, and     *)
(* keeps plain pointers to them.  The program of Resources is              *)
(* create_resources; the device belongs to the endpoint's owner.           *)
(***************************************************************************)
EXTENDS Resources

CONSTANT MaxInits       \* bound: how often the owner calls initialize()

ASSUME EndpointAssumption == MaxInits \in Nat

VARIABLES
    epHolds,    \* the objects the endpoint's pointers point to; others are nullptr
    epStatus,   \* _status
    inits       \* calls of initialize() so far

epVars == <<epHolds, epStatus, inits>>

\* The members of connection_resources the destructor looks at.
EpMembers == {"qp", "pd", "cq", "uar_obj", "mr"}

EpInit ==
    /\ heap = OuterHeap
    /\ qpState = [q \in Qps |-> "none"]
    /\ at = 1
    /\ tries = 0
    /\ frame = <<>>
    /\ phase = "finished"
    /\ epHolds = {}
    /\ epStatus = "disconnected"
    /\ inits = 0

\* rdma_ep::initialize enters create_resources.
EpInitialize ==
    /\ Returned
    /\ inits < MaxInits
    /\ inits' = inits + 1
    /\ at' = 1
    /\ tries' = 0
    /\ phase' = "running"
    /\ UNCHANGED <<heap, qpState, frame, epHolds, epStatus>>

\* Fault for the mutation run: the pointers are stored as the objects come up.
StoreEarly ==
    /\ Call
    /\ epHolds' = epHolds \cup (EpMembers \cap {Program[at].obj})
    /\ UNCHANGED <<epStatus, inits>>

CreateResources == Call /\ UNCHANGED epVars

\* Nothing failed: create_resources stores its pointers and returns.
StoreResources ==
    /\ Finish
    /\ epHolds' = EpMembers
    /\ UNCHANGED <<epStatus, inits>>

\* Its locals are destroyed; initialize() sets the status if it returned well.
ReturnFromCreate ==
    /\ Destruct
    /\ epStatus' = IF phase = "finished" /\ frame' = <<>> THEN "initializing" ELSE epStatus
    /\ UNCHANGED <<epHolds, inits>>

ObjectsAlive == {frame[i].obj : i \in 1 .. Len(frame)}

\* rdma_ep::destroy calls destroy() through every pointer it keeps and clears it.
\* A call through a dangling pointer is undefined: it does nothing, as the
\* destructor has cleared the object, or it ends the process.
EpDestroy ==
    /\ Returned
    /\ epHolds # {}
    /\ epHolds' = {}
    /\ phase' \in IF epHolds \subseteq ObjectsAlive THEN {phase} ELSE {phase, "crashed"}
    /\ UNCHANGED <<heap, qpState, at, tries, frame, epStatus, inits>>

EpNext == EpInitialize \/ CreateResources \/ StoreResources \/ ReturnFromCreate \/ EpDestroy

EpSpec == EpInit /\ [][EpNext]_<<resVars, epVars>>

--------------------------------------------------------------------------------
(***************************************************************************)
(* Properties; AllReleased of Resources is checked here too.               *)
(***************************************************************************)

\* However initialize() fails, and however often, the endpoint is left as empty
\* as it was made: destroy() has nothing to do.
FailedEndpointIsEmpty ==
    (Returned /\ epStatus = "disconnected") => epHolds = {}

\* After initialize() the endpoint's getters dereference the pointers it keeps:
\* the objects must still be there.
HeldAreAlive == Returned => epHolds \subseteq ObjectsAlive
================================================================================
