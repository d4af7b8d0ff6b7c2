--------------------------- MODULE MCDevxCommands ---------------------------
\* Instance of DevxCommands for TLC.
EXTENDS DevxCommands

MCQps == {4097, 4098}

MCIds == [pdn |-> 3, cqn |-> 1025, eqn |-> 5, mkey_index |-> 6, uar_page |-> 7,
          umem |-> 9, addr |-> 1048576]

\* A device that can do whatever fits the fields, and one with small values, all
\* different from their neighbours.
MCCapPages ==
    {[n \in CapNames |-> 2^HcaCap[n].size - 1],
     [n \in CapNames |->
         CASE n = "log_max_cq_sz" -> 10
           [] n = "log_max_msg" -> 30
           [] OTHER -> (HcaCap[n].off \div 8) % (2^HcaCap[n].size)]}

Cq(log, cqe_sz) ==
    [log_cq_size |-> log, cqe_sz |-> cqe_sz, cqe_comp_en |-> 0, cq_period_mode |-> 1,
     cq_period |-> 16]

\* And one without room for the default completion queue.
MCAllCapPages ==
    MCCapPages \cup {[n \in CapNames |-> IF n = "log_max_cq_sz" THEN 8 ELSE 1]}

\* Sizes defaulted, below and above 2^9, of entries of 64 and of 128 bytes; the large one
\* is more than the second device has.
LargeCq == Cq(12, 0)
MCCqParams == {Cq(0, 1), Cq(4, 0), LargeCq}

\* The ring of test.cpp and the largest that fits, and an odd receive queue; and rings
\* that do not fit.
MCRings ==
    {[sq_size |-> 16, rq_size |-> 1, max_rd_atomic |-> 1],
     [sq_size |-> 32768, rq_size |-> 5, max_rd_atomic |-> 7]}
MCCreateParams ==
    MCRings
    \cup {[sq_size |-> size, rq_size |-> 1, max_rd_atomic |-> 1] : size \in {0, 24, 65536}}

MCConnParams ==
    {[mtu |-> 3, ece |-> 0, port_num |-> 1, ah_port_num |-> 1, retry_count |-> 0, rnr_retry |-> 0,
      sl |-> 0, dscp |-> 0, traffic_class |-> 0, udp_sport |-> 50000, is_global |-> 1,
      src_path_bits |-> 300, sgid_index |-> 3, hop_limit |-> 2],
     [mtu |-> 5, ece |-> 1, port_num |-> 1, ah_port_num |-> 2, retry_count |-> 7, rnr_retry |-> 6,
      sl |-> 5, dscp |-> 46, traffic_class |-> 184, udp_sport |-> 65535, is_global |-> 0,
      src_path_bits |-> 1, sgid_index |-> 255, hop_limit |-> 64]}

MCPortOf == [q \in MCQps |->
    IF q = 4097 THEN [mac |-> 185273099, gid |-> 184877058, lid |-> 40000]
    ELSE [mac |-> 1122867, gid |-> 184877059, lid |-> 17]]

\* The sizes of the queues are all tried with one queue pair, before it is connected or
\* memory registered; from then on the first two devices, one completion queue and the
\* rings that fit are enough, since no later command reads the sizes.
Beginning ==
    /\ mr = None
    /\ \A q \in MCQps : Created(q) => "init" \notin DOMAIN asked[q] /\ ~Created(Peer(q))

UsualQueues ==
    /\ page \in MCCapPages
    /\ cq # None => returned = LeftByInitialize(LargeCq, ClampedLogSize(LargeCq.log_cq_size))
    /\ cqHwParams = DefaultCqParams
    /\ \A q \in MCQps : Created(q) => asked[q].create \in MCRings

SizesBeforeConnections == Beginning \/ UsualQueues
==============================================================================
