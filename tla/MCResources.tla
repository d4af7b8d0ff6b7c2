------------------------------ MODULE MCResources ------------------------------
(***************************************************************************)
(* Resources with the calls of main() in test.cpp: two queue pairs on one  *)
(* device, connected to each other.                                        *)
(***************************************************************************)
EXTENDS Resources

Dev == [dev |-> "rdevice"]

QpOn(cq, uar, sq, db) ==
    [dev |-> "rdevice", pd |-> "pd", cq |-> cq, uar |-> uar, sq |-> sq, db |-> db]

Connect(q) == <<
    Command("reset_to_init", q, [pd |-> "pd"]),
    Command("init_to_rtr", q, [pd |-> "pd"]),
    Command("rtr_to_rts", q, [pd |-> "pd"]) >>

NoOuter == {}

\* The methods that may be called again after a failure.  The others (device, cq,
\* mr, init_to_rtr) lose what the first attempt acquired: each of them alone in
\* RetryOps makes AllReleased fail.
SafeToRetry == {"pd", "umem", "uar", "qp", "mkey", "reset_to_init", "rtr_to_rts"}

\* test.cpp 10-119, 256-275, 281-287, 324; and a memory_key, which the library
\* offers beside memory_region and no program of the repository makes.
TestMain == <<
    New("device", "rdevice", <<>>),
    New("pd", "pd", Dev),
    New("umem", "umem_sq", Dev),
    New("umem", "umem_db", Dev),
    New("umem", "umem_sq1", Dev),
    New("umem", "umem_db1", Dev),
    New("uar", "uar_obj", Dev),
    New("uar", "uar_obj1", Dev),
    New("cq", "cq_devx", Dev),
    New("cq", "cq_devx1", Dev),
    New("qp", "p_qp", QpOn("cq_devx", "uar_obj", "umem_sq", "umem_db")),
    New("qp", "p_qp1", QpOn("cq_devx1", "uar_obj1", "umem_sq1", "umem_db1")) >>
    \o Connect("p_qp") \o Connect("p_qp1") \o <<
    New("mr", "mr_sender", [dev |-> "rdevice", pd |-> "pd"]),
    New("mr", "mr_receiver", [dev |-> "rdevice", pd |-> "pd"]),
    New("mkey", "mkey", [pd |-> "pd"]),
    Command("post", "p_qp", <<>>) >>
================================================================================
