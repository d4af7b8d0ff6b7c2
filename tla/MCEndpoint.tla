------------------------------- MODULE MCEndpoint ------------------------------
(***************************************************************************)
(* Endpoint with the calls of create_resources in connection.h.            *)
(***************************************************************************)
EXTENDS Endpoint

OwnersDevice == {"rdevice"}

Dev == [dev |-> "rdevice"]

CreateResourcesCalls == <<
    New("pd", "pd", Dev),
    New("umem", "umem_sq", Dev),
    New("umem", "umem_db", Dev),
    New("uar", "uar_obj", Dev),
    New("cq", "cq", Dev),
    New("qp", "qp", [dev |-> "rdevice", pd |-> "pd", cq |-> "cq", uar |-> "uar_obj",
                     sq |-> "umem_sq", db |-> "umem_db"]),
    New("mr", "mr", [dev |-> "rdevice", pd |-> "pd"]) >>
================================================================================
