---------------------------- MODULE DevxCommands ----------------------------
(***************************************************************************)
(* What the objects of rdma_objects.cpp and the device tell each other:    *)
(* the commands that read the device's capabilities, create a completion   *)
(* queue, a memory key and two queue pairs and connect these to each       *)
(* other, the work queue entries posted then, and the queries.             *)
(*                                                                         *)
(* Commands are buffers of bits (DevxLayouts); the device keeps contexts,  *)
(* buffers too.  It may refuse any command: nothing changes then, here,    *)
(* and the call may be repeated (what a refused call leaks is a matter of  *)
(* Resources).  It does refuse the steps of a connection out of order,     *)
(* which queue_pair itself does not check.  initialize() of an object that *)
(* is already there returns STATUS_OK and does nothing either.             *)
(***************************************************************************)
EXTENDS DevxLayouts

CONSTANTS
    Qps,            \* the numbers of two queue pairs
    Ids,            \* the numbers of the device's other objects, see IdNames
    PageLog,        \* get_page_size_log()
    CapPages,       \* capability pages a device may have
    CqParams,       \* cq_hw_params a caller may hand in
    CreateParams,   \* sizes of qp_init_creation_params
    ConnParams,     \* qp_init_connection_params but for the peer
    PortOf,         \* queue pair -> the address of the port it is reached through
    Lengths,        \* lengths of memory regions, in bytes
    MaxPosts        \* bound: WQEs posted on each queue pair

VARIABLES
    link,       \* the link layer of port 1
    page,       \* the device's capabilities: name -> value
    caps,       \* _hca_cap: name -> value
    cqctx,      \* the device's completion queue context
    cq,         \* the memory behind it: its number of entries and of bytes
    returned,   \* the caller's cq_hw_params, passed by reference, as initialize left them
    cqHwParams, \* _cq_hw_params: what poll_cq goes by
    mkctx,      \* the device's memory key context
    mr,         \* memory_region: _lkey, _rkey, _addr, _length
    qpctx,      \* queue pair -> the device's context
    sqSize,     \* queue pair -> _sq_size
    asked,      \* queue pair -> the parameters of the calls that succeeded
    posts,      \* queue pair -> WQEs posted
    slot,       \* queue pair -> the WQE posted last, as its segments
    request     \* queue pair -> what the caller asked for with it

cmdVars == <<link, page, caps, cqctx, cq, returned, cqHwParams, mkctx, mr, qpctx, sqSize, asked,
             posts, slot, request>>
cqVars == <<cqctx, cq, returned, cqHwParams>>
qpVars == <<qpctx, sqSize, asked>>
wqeVars == <<posts, slot, request>>

IdNames == {"pdn", "cqn", "eqn", "mkey_index", "uar_page", "umem", "addr"}

Peer(q) == CHOOSE p \in Qps : p # q
None == << >>
NoContext == {}

------------------------------------------------------------------------------
(***************************************************************************)
(* Numbers of the interface.                                               *)
(***************************************************************************)

QueryHcaCapOp == 256
CreateMkeyOp == 512
CreateCqOp == 1024
CreateQpOp == 1280
Rst2InitQpOp == 1282
Init2RtrQpOp == 1283
Rtr2RtsQpOp == 1284
QueryQpOp == 1291

\* The states of a queue pair as its context has them; a context without them is
\* that of a queue pair not yet created.
ResetState == 0
InitState == 1
RtrState == 2
RtsState == 3

PmStateMigrated == 3
KeyByte == 239      \* 0xef, the key part of every memory key
QueryFailed == -1   \* what get_qp_state returns then

\* cq_hw_params as they are declared.
DefaultCqParams == [log_cq_size |-> 9, cqe_sz |-> 1, cqe_comp_en |-> 0,
                    cq_period_mode |-> 0, cq_period |-> 0]

\* hca_capabilities.
CapNames == {
    "log_max_srq_sz", "log_max_qp_sz", "log_max_qp", "log_max_srq", "log_max_cq_sz",
    "log_max_cq", "log_max_eq_sz", "log_max_mkey", "log_max_eq", "log_max_klm_list_size",
    "log_max_ra_req_qp", "log_max_ra_res_qp", "log_max_msg", "max_tc", "max_wqe_sz_sq",
    "log_max_mcg", "log_max_pd", "log_max_xrcd", "log_max_rq", "log_max_sq", "log_max_tir",
    "log_max_tis", "log_max_rmp", "log_max_rqt", "log_max_rqt_size", "log_max_tis_per_sq",
    "log_max_stride_sz_rq", "log_min_stride_sz_rq", "log_max_stride_sz_sq",
    "log_min_stride_sz_sq", "log_max_hairpin_queues", "log_max_hairpin_wq_data_sz",
    "log_max_hairpin_num_packets", "log_max_wq_sz", "log_max_vlan_list",
    "log_max_current_mc_list", "log_max_current_uc_list", "log_max_transport_domain",
    "log_max_flow_counter_bulk", "log_max_l2_table", "log_uar_page_sz", "log_max_pasid",
    "log_max_dct_connections", "log_max_atomic_size_qp", "log_max_atomic_size_dc",
    "log_max_xrq", "native_port_num", "num_ports"}

------------------------------------------------------------------------------
(***************************************************************************)
(* The device.  It finds its parameters by the opcode of the command.      *)
(***************************************************************************)

Created(q) == qpctx[q] # NoContext
StateOf(q) == DevxGet(Qpc.state, qpctx[q])

\* The layout the device reads a command by.
CommandLayout(op) ==
    CASE op = CreateQpOp -> CreateQpIn
      [] op = Rst2InitQpOp -> Rst2InitQpIn
      [] op = Init2RtrQpOp -> Init2RtrQpIn
      [] op = Rtr2RtsQpOp -> Rtr2RtsQpIn

\* What a step of a connection takes from the context in the command; the rest
\* of the queue pair's context stays as it is.
TakenBy(op) ==
    CASE op = Rst2InitQpOp ->
             {"pm_state", "rre", "rwe", "rae", "atomic_mode", "pkey_index", "vhca_port_num"}
      [] op = Init2RtrQpOp -> {"mtu", "log_msg_max", "remote_qpn", "primary_address_path"}
      [] op = Rtr2RtsQpOp -> {"log_ack_req_freq", "retry_count", "rnr_retry", "next_send_psn"}

\* The context of a queue pair after a command that moves it from one state to
\* the next.
Modified(q, cmd, to) ==
    LET op == DevxGet(CreateQpIn.opcode, cmd)
        ctx == Extract(CommandLayout(op).qpc, cmd)
        taken == UNION {Span(Qpc[n]) : n \in TakenBy(op)}
    IN  ((qpctx[q] \ taken) \ Span(Qpc.state)) \cup (ctx \cap taken) \cup DevxSet(Qpc.state, to)

\* The queue pair a command is for, in the state it has to be in.
MayModify(q, cmd, from) ==
    /\ Created(q)
    /\ StateOf(q) = from
    /\ DevxGet(CommandLayout(DevxGet(CreateQpIn.opcode, cmd)).qpn, cmd) = q

\* The answer to QUERY_QP: the context, with the counters of the send queue.
QueryQpAnswer(q) ==
    Embed(QueryQpOut.qpc,
          qpctx[q] \cup DevxSetAll(Qpc, [hw_sq_wqebb_counter |-> posts[q],
                                         sw_sq_wqebb_counter |-> posts[q]]))

\* The answer to QUERY_HCA_CAP.
QueryHcaCapAnswer == Embed(QueryHcaCapOut.capability, DevxSetAll(HcaCap, page))

------------------------------------------------------------------------------
CmdInit ==
    /\ link \in {"ETHERNET", "INFINIBAND"}
    /\ page \in CapPages
    /\ caps = None
    /\ cqctx = NoContext
    /\ cq = None
    /\ returned = None
    /\ cqHwParams = DefaultCqParams
    /\ mkctx = NoContext
    /\ mr = None
    /\ qpctx = [q \in Qps |-> NoContext]
    /\ sqSize = [q \in Qps |-> 0]
    /\ asked = [q \in Qps |-> None]
    /\ posts = [q \in Qps |-> 0]
    /\ slot = [q \in Qps |-> None]
    /\ request = [q \in Qps |-> None]

------------------------------------------------------------------------------
(***************************************************************************)
(* rdma_device, completion_queue_devx and memory_region.                   *)
(***************************************************************************)

\* Fault: members as wide as the fields.
CapsFromWide(answer) ==
    LET capability == Extract(QueryHcaCapOut.capability, answer)
    IN  [n \in CapNames |-> DevxGet(HcaCap[n], capability)]

\* Fault: the capabilities are looked for at the start of the answer.
CapsFromHeader(answer) == [n \in CapNames |-> DevxGet(HcaCap[n], answer) % 256]

\* The members of hca_capabilities are uint8_t.
CapsFrom(answer) ==
    LET capability == Extract(QueryHcaCapOut.capability, answer)
    IN  [n \in CapNames |-> DevxGet(HcaCap[n], capability) % 256]

QueryHcaCapabilities ==
    /\ caps = None
    /\ caps' = CapsFrom(QueryHcaCapAnswer)
    /\ UNCHANGED <<link, page, cqVars, mkctx, mr, qpVars, wqeVars>>

\* Fault: only the default is replaced.
ClampedLogSizeAtZero(log) == IF log = 0 THEN 9 ELSE log

\* initialize_cq_resources: a size the device cannot have is replaced too.
ClampedLogSize(log) == IF log = 0 \/ log > caps.log_max_cq_sz THEN 9 ELSE log

CqValues(p, log) ==
    [c_eqn |-> Ids.eqn, uar_page |-> Ids.uar_page, log_cq_size |-> log,
     cqe_sz |-> p.cqe_sz, cqe_comp_en |-> p.cqe_comp_en,
     cq_period_mode |-> p.cq_period_mode, cq_period |-> p.cq_period,
     dbr_umem_valid |-> 1, dbr_umem_id |-> Ids.umem]

CreateCqCommand(p, log) ==
    DevxSetAll(CreateCqIn, [opcode |-> CreateCqOp, cq_umem_valid |-> 1,
                            cq_umem_id |-> Ids.umem, cq_umem_offset |-> 0])
    \cup Embed(CreateCqIn.cqc, DevxSetAll(Cqc, CqValues(p, log)))

\* Fault: the size is replaced in a copy of the parameters.
LeftByInitializeAsIs(p, log) == p

\* The parameters are the caller's own object: it gets the size that is used.
LeftByInitialize(p, log) == [p EXCEPT !.log_cq_size = log]

\* completion_queue_devx::initialize: 64 bytes for each entry, whatever cqe_sz is.  The
\* object's own _cq_hw_params stay as they are.
InitializeCq(p) ==
    /\ caps # None
    /\ cq = None
    /\ LET log == ClampedLogSize(p.log_cq_size)
       IN  /\ cqctx' = Extract(CreateCqIn.cqc, CreateCqCommand(p, log))
           /\ cq' = [entries |-> Weight[log], bytes |-> 64 * Weight[log]]
           /\ returned' = LeftByInitialize(p, log)
    /\ UNCHANGED <<link, page, caps, cqHwParams, mkctx, mr, qpVars, wqeVars>>

\* set_cq_hw_params, before or after.
SetCqHwParams(p) ==
    /\ cqHwParams' = p
    /\ UNCHANGED <<link, page, caps, cqctx, cq, returned, mkctx, mr, qpVars, wqeVars>>

\* poll_cq: the entries it goes through.
PolledEntries == Weight[cqHwParams.log_cq_size]

MkeyValues(length) ==
    [access_mode_1_0 |-> 1, a |-> 1, rw |-> 1, rr |-> 1, lw |-> 1, lr |-> 1,
     pd |-> Ids.pdn, qpn |-> 2^24 - 1, mkey_7_0 |-> KeyByte,
     start_addr |-> Ids.addr, len |-> length,
     translations_octword_size |-> 8, log_page_size |-> PageLog]

CreateMkeyCommand(length) ==
    DevxSetAll(CreateMkeyIn, [opcode |-> CreateMkeyOp, mkey_umem_valid |-> 1,
                              mkey_umem_id |-> Ids.umem, mkey_umem_offset |-> 0,
                              translations_octword_actual_size |-> 8])
    \cup Embed(CreateMkeyIn.memory_key_mkey_entry, DevxSetAll(Mkc, MkeyValues(length)))

\* Fault: the index alone is taken for the key.
KeyOfIndexOnly(index) == index

\* The key handed to the application: the index the device chose, and the key part.
KeyOf(index) == index * 256 + KeyByte

\* memory_region::initialize.
InitializeMr(length) ==
    /\ caps # None
    /\ mr = None
    /\ mkctx' = Extract(CreateMkeyIn.memory_key_mkey_entry, CreateMkeyCommand(length))
    /\ LET index == DevxGet(CreateMkeyOut.mkey_index,
                            DevxSetAll(CreateMkeyOut, [mkey_index |-> Ids.mkey_index]))
       IN  mr' = [lkey |-> KeyOf(index), rkey |-> KeyOf(index),
                  addr |-> Ids.addr, length |-> length]
    /\ UNCHANGED <<link, page, caps, cqVars, qpVars, wqeVars>>

------------------------------------------------------------------------------
(***************************************************************************)
(* queue_pair: created, then moved from state to state.                    *)
(***************************************************************************)

\* The least power of two not below x.
Ilog2(x) == CHOOSE r \in 0 .. 30 : Weight[r] >= x /\ (r = 0 \/ Weight[r - 1] < x)

QpValues(p) ==
    [st |-> 0, pm_state |-> PmStateMigrated, pd |-> Ids.pdn,
     cqn_snd |-> Ids.cqn, cqn_rcv |-> Ids.cqn,
     log_sq_size |-> Ilog2(p.sq_size), log_rq_size |-> Ilog2(p.rq_size),
     log_rq_stride |-> 2, no_sq |-> 0, wq_signature |-> 0, uar_page |-> Ids.uar_page,
     dbr_umem_id |-> Ids.umem, dbr_umem_valid |-> 1, dbr_addr |-> 0,
     log_msg_max |-> caps.log_max_msg, log_page_size |-> PageLog, page_offset |-> 0,
     log_rra_max |-> p.max_rd_atomic, ts_format |-> 0]

CreateQpCommand(p) ==
    DevxSetAll(CreateQpIn, [opcode |-> CreateQpOp, wq_umem_id |-> Ids.umem,
                            wq_umem_valid |-> 1])
    \cup Embed(CreateQpIn.qpc, DevxSetAll(Qpc, QpValues(p)))

\* _sq_size is a uint16_t.
StoredSize(size) == size % 65536

\* queue_pair::initialize.
InitializeQp(q, p) ==
    /\ cq # None
    /\ ~Created(q)
    /\ qpctx' = [qpctx EXCEPT ![q] = Extract(CreateQpIn.qpc, CreateQpCommand(p))]
    /\ sqSize' = [sqSize EXCEPT ![q] = StoredSize(p.sq_size)]
    /\ asked' = [asked EXCEPT ![q] = [create |-> p]]
    /\ UNCHANGED <<link, page, caps, cqVars, mkctx, mr, wqeVars>>

\* The common part of the three modify commands.
ModifyCommand(op, layout, q, values) ==
    DevxSetAll(layout, [opcode |-> op, qpn |-> q])
    \cup Embed(layout.qpc, DevxSetAll(Qpc, values))

\* On Ethernet the partition key is left at zero, elsewhere it is set to it.
Rst2InitCommand(q, p) ==
    ModifyCommand(Rst2InitQpOp, Rst2InitQpIn, q,
        [rae |-> 1, rwe |-> 1, rre |-> 1, atomic_mode |-> 1, pkey_index |-> 0,
         vhca_port_num |-> p.port_num, pm_state |-> PmStateMigrated])

\* The address vector ibv_create_ah resolves.
AddressVector(port, p) == [rmac |-> port.mac, rgid |-> port.gid, hop_limit |-> p.hop_limit]

\* Fault: the second half of the address is left out.
EthernetPathShort(ctxfield, av) ==
    DevxSet(From(ctxfield.rmac_47_32, 48), av.rmac)

\* The two memcpys: six bytes from rmac_47_32 on, into rmac_31_0; sixteen into
\* rgid_rip.
EthernetPath(ctxfield, av) ==
    DevxSet(From(ctxfield.rmac_47_32, 48), av.rmac)
    \cup DevxSet(From(ctxfield.rgid_rip, 128), av.rgid)

\* What is set field by field ...
RtrValues(q, p) ==
    LET port == PortOf[Peer(q)]
        av == AddressVector(port, p)
        always == [mtu |-> p.mtu, remote_qpn |-> Peer(q), vhca_port_num |-> p.ah_port_num,
                   log_msg_max |-> caps.log_max_msg]
        ethernet == [hop_limit |-> av.hop_limit, src_addr_index |-> p.sgid_index,
                     eth_prio |-> p.sl, dscp |-> p.dscp, udp_sport |-> p.udp_sport]
        infiniband == [grh |-> p.is_global, rlid |-> port.lid,
                       mlid |-> p.src_path_bits % 128, sl |-> p.sl]
        global == [src_addr_index |-> p.sgid_index, hop_limit |-> p.hop_limit,
                   tclass |-> p.traffic_class]
    IN  Joined(always, IF link = "ETHERNET" THEN ethernet
                       ELSE IF p.is_global = 1 THEN Joined(infiniband, global)
                       ELSE infiniband)

\* ... and what is copied.
RtrCopied(q, p) ==
    LET port == PortOf[Peer(q)]
    IN  IF link = "ETHERNET" THEN EthernetPath(Qpc, AddressVector(port, p))
        ELSE IF p.is_global = 1 THEN DevxSet(Qpc.rgid_rip, port.gid)
        ELSE {}

Init2RtrCommand(q, p) ==
    DevxSetAll(Init2RtrQpIn, [ece |-> p.ece])
    \cup ModifyCommand(Init2RtrQpOp, Init2RtrQpIn, q, RtrValues(q, p))
    \cup Embed(Init2RtrQpIn.qpc, RtrCopied(q, p))

\* Fault: the two counts change places.
Rtr2RtsCommandSwapped(q, p) ==
    ModifyCommand(Rtr2RtsQpOp, Rtr2RtsQpIn, q,
        [log_ack_req_freq |-> 0, retry_count |-> p.rnr_retry,
         rnr_retry |-> p.retry_count, next_send_psn |-> 0])

Rtr2RtsCommand(q, p) ==
    ModifyCommand(Rtr2RtsQpOp, Rtr2RtsQpIn, q,
        [log_ack_req_freq |-> 0, retry_count |-> p.retry_count,
         rnr_retry |-> p.rnr_retry, next_send_psn |-> 0])

\* A modify command the device accepts, and what the caller asked with it.
Modify(q, cmd, from, to, step, p) ==
    /\ MayModify(q, cmd, from)
    /\ qpctx' = [qpctx EXCEPT ![q] = Modified(q, cmd, to)]
    /\ asked' = [asked EXCEPT ![q] = Joined([s \in {step} |-> p], @)]
    /\ UNCHANGED <<link, page, caps, cqVars, mkctx, mr, sqSize, wqeVars>>

ResetToInit(q, p) ==
    /\ Created(q)
    /\ Modify(q, Rst2InitCommand(q, p), ResetState, InitState, "init",
              [port_num |-> p.port_num])

\* The number of the peer is known once it is created.
InitToRtr(q, p) ==
    /\ Created(q)
    /\ Created(Peer(q))
    /\ Modify(q, Init2RtrCommand(q, p), InitState, RtrState, "rtr", p)

\* The caller keeps one set of parameters for the steps of a connection.
RtrToRts(q, p) ==
    /\ Created(q)
    /\ "rtr" \in DOMAIN asked[q] => p = asked[q].rtr
    /\ Modify(q, Rtr2RtsCommand(q, p), RtrState, RtsState, "rts", p)

------------------------------------------------------------------------------
(***************************************************************************)
(* post_wqe: a WQE is a 64-byte slot of four segments, cleared and then    *)
(* filled.  The host stores big-endian numbers, which the device reads as  *)
(* such: a segment holds the numbers.                                      *)
(***************************************************************************)

SendOp == 0
SendImmOp == 1
RdmaWriteOp == 8
RdmaWriteImmOp == 9
RdmaReadOp == 12
CqUpdate == 8       \* MLX5_WQE_CTRL_CQ_UPDATE: the device reports the completion

NoSegment == << >>

NeedRaddr(opcode) == opcode \in {RdmaWriteOp, RdmaWriteImmOp, RdmaReadOp}
HasImm(opcode) == opcode \in {SendImmOp, RdmaWriteImmOp}

\* mlx5_set_ctrl_seg, with opmod and signature 0.
CtrlSeg(pi, opcode, q, ds, imm) ==
    [opmod_idx_opcode |-> (pi % 65536) * 256 + opcode, qpn_ds |-> q * 256 + ds,
     fm_ce_se |-> CqUpdate, imm |-> imm]

\* mlx5_set_rdma_seg and mlx5_set_data_seg.
RaddrSeg(raddr, rkey) == [raddr |-> raddr, rkey |-> rkey]
DataSeg(length, lkey, laddr) == [byte_count |-> length, lkey |-> lkey, addr |-> laddr]

\* Fault: the data segment is counted, the remote address is not.
WqeSegmentsShort(q, pi, r) ==
    LET ctrl == CtrlSeg(pi, r.opcode, q, 2, IF HasImm(r.opcode) THEN r.imm ELSE 0)
        data == DataSeg(r.length, r.lkey, r.laddr)
    IN  IF NeedRaddr(r.opcode) THEN << ctrl, RaddrSeg(r.raddr, r.rkey), data >>
        ELSE << ctrl, data >>

\* As many segments as the first one counts.
WqeSegments(q, pi, r) ==
    LET ctrl(ds) == CtrlSeg(pi, r.opcode, q, ds, IF HasImm(r.opcode) THEN r.imm ELSE 0)
        data == DataSeg(r.length, r.lkey, r.laddr)
    IN  IF NeedRaddr(r.opcode) THEN << ctrl(3), RaddrSeg(r.raddr, r.rkey), data >>
        ELSE << ctrl(2), data >>

\* The rest of the slot is the zeros of the memset.
Slot(segments) == [i \in 1 .. 4 |-> IF i <= Len(segments) THEN segments[i] ELSE NoSegment]

PostWqe(q, opcode, laddr, raddr, length, imm) ==
    LET r == [opcode |-> opcode, laddr |-> laddr, lkey |-> mr.lkey,
              raddr |-> raddr, rkey |-> mr.rkey, length |-> length, imm |-> imm]
    IN  /\ slot' = [slot EXCEPT ![q] = Slot(WqeSegments(q, posts[q], r))]
        /\ request' = [request EXCEPT ![q] = r]
        /\ posts' = [posts EXCEPT ![q] = @ + 1]
        /\ UNCHANGED <<link, page, caps, cqVars, mkctx, mr, qpVars>>

\* post_rdma_write, post_rdma_read, post_send_msg, post_send_imm and
\* post_rdma_write_imm, from the first half of the region to the second half of
\* the peer's, which is the same.
Post(q) ==
    /\ Created(q)
    /\ StateOf(q) = RtsState
    /\ mr # None
    /\ posts[q] < MaxPosts
    /\ LET half == mr.length \div 2
           far == mr.addr + half
       IN  \/ PostWqe(q, RdmaWriteOp, mr.addr, far, half, 0)
           \/ PostWqe(q, RdmaReadOp, mr.addr, far, half, 0)
           \/ PostWqe(q, SendOp, mr.addr, 0, half, 0)
           \/ PostWqe(q, SendImmOp, mr.addr, 0, half, 7)
           \/ PostWqe(q, RdmaWriteImmOp, mr.addr, far, half, 7)

\* The device: what a WQE asks for, read from as many segments as it counts.
WqeDecoded(segments) ==
    LET ctrl == segments[1]
        opcode == ctrl.opmod_idx_opcode % 256
        others == SubSeq(segments, 2, ctrl.qpn_ds % 256)
        remote == IF NeedRaddr(opcode) THEN others[1] ELSE RaddrSeg(0, 0)
    IN  [opcode |-> opcode, index |-> ctrl.opmod_idx_opcode \div 256,
         qpn |-> ctrl.qpn_ds \div 256, imm |-> ctrl.imm, remote |-> remote,
         data |-> {others[i] : i \in (IF NeedRaddr(opcode) THEN 2 ELSE 1) .. Len(others)}]

------------------------------------------------------------------------------
(***************************************************************************)
(* Queries, which change nothing.                                          *)
(***************************************************************************)

\* Fault: the answer is taken for the context.
GetQpStateUnaddressed(q, refused) ==
    IF ~Created(q) THEN 1
    ELSE IF refused THEN QueryFailed
    ELSE DevxGet(Qpc.state, QueryQpAnswer(q))

\* get_qp_state: STATUS_ERR, which is 1, without a queue pair; the device may refuse
\* the query.
GetQpState(q, refused) ==
    IF ~Created(q) THEN 1
    ELSE IF refused THEN QueryFailed
    ELSE DevxGet(Qpc.state, Extract(QueryQpOut.qpc, QueryQpAnswer(q)))

\* query_qp_counters.
QueryQpCounters(q) ==
    LET out == Extract(QueryQpOut.qpc, QueryQpAnswer(q))
    IN  [hw |-> DevxGet(Qpc.hw_sq_wqebb_counter, out),
         sw |-> DevxGet(Qpc.sw_sq_wqebb_counter, out),
         sig |-> DevxGet(Qpc.wq_signature, out)]

\* What queryAndPrintQpProperties prints of the answer, in two parts.
PrintedFirst == {
    "state", "st", "pm_state", "pd", "uar_page", "mtu", "retry_count", "rmac_47_32",
    "rmac_31_0", "udp_sport", "ecn", "dscp", "flow_label", "tclass", "eth_prio",
    "hop_limit", "data_in_order", "end_padding_mode", "wq_signature", "cd_master",
    "cd_slave_send", "cd_slave_receive"}

PrintedThen == {
    "min_rnr_nak", "fre", "lag_tx_port_affinity", "isolate_vl_tc", "req_e2e_credit_mode",
    "offload_type", "block_lb_mc", "atomic_like_write_en", "latency_sensitive",
    "drain_sigerr", "log_msg_max", "log_rq_size", "log_rq_stride", "no_sq", "log_sq_size",
    "ts_format", "rlky", "counter_set_id", "user_index", "log_page_size", "remote_qpn",
    "log_ack_req_freq", "log_sra_max", "rnr_retry", "cur_rnr_retry", "cur_retry_count",
    "next_send_psn", "last_acked_psn", "ssn", "next_rcv_psn", "cqn_snd", "cqn_rcv",
    "deth_sqpn", "srqn_rmpn_xrqn", "atomic_mode", "rre", "rwe", "rae",
    "hw_rq_counter", "sw_rq_counter"}

Printed(q, names) ==
    LET out == Extract(QueryQpOut.qpc, QueryQpAnswer(q))
    IN  [n \in names |-> DevxGet(Qpc[n], out)]

\* The address of the peer: bytes 12 to 15 of its GID.
PrintedIp(q) ==
    LET out == Extract(QueryQpOut.qpc, QueryQpAnswer(q))
        byte(i) == DevxGet([off |-> Qpc.rgid_rip.off + 8 * i, size |-> 8], out)
    IN  byte(12) * 2^24 + byte(13) * 2^16 + byte(14) * 2^8 + byte(15)

------------------------------------------------------------------------------
CmdNext ==
    \/ QueryHcaCapabilities
    \/ \E p \in CqParams : InitializeCq(p) \/ SetCqHwParams(p)
    \/ cq # None /\ SetCqHwParams(returned)
    \/ \E length \in Lengths : InitializeMr(length)
    \/ \E q \in Qps :
        \/ \E p \in CreateParams : InitializeQp(q, p)
        \/ \E p \in ConnParams : ResetToInit(q, p) \/ InitToRtr(q, p) \/ RtrToRts(q, p)
        \/ Post(q)

CmdSpec == CmdInit /\ [][CmdNext]_cmdVars

------------------------------------------------------------------------------
(***************************************************************************)
(* Assumptions.                                                            *)
(***************************************************************************)

\* The fields of the contexts that commands fill and queries read, and widths that
\* the numbers the code writes there need.
ASSUME ContextAssumption ==
    /\ Has(QpcOwn, [state |-> 2, st |-> 0, pm_state |-> 2, pd |-> 0, cqn_snd |-> 0,
                    cqn_rcv |-> 0, log_sq_size |-> 4, log_rq_size |-> 0, log_rq_stride |-> 0,
                    no_sq |-> 0, wq_signature |-> 0, uar_page |-> 0, dbr_umem_id |-> 0,
                    dbr_umem_valid |-> 1, dbr_addr |-> 0, log_page_size |-> 0,
                    page_offset |-> 0, log_rra_max |-> 0, ts_format |-> 0, rae |-> 1,
                    rwe |-> 1, rre |-> 1, atomic_mode |-> 1, mtu |-> 0, remote_qpn |-> 24,
                    log_ack_req_freq |-> 0, retry_count |-> 0, rnr_retry |-> 0,
                    next_send_psn |-> 0, hw_sq_wqebb_counter |-> 16,
                    sw_sq_wqebb_counter |-> 16, log_msg_max |-> HcaCap.log_max_msg.size,
                    primary_address_path |-> 0])
    /\ Has(Ads, [pkey_index |-> 0, vhca_port_num |-> 0, hop_limit |-> 0,
                 src_addr_index |-> 0, eth_prio |-> 0, dscp |-> 0, udp_sport |-> 0,
                 grh |-> 0, rlid |-> 0, mlid |-> 0, sl |-> 0, tclass |-> 0,
                 rgid_rip |-> 128, rmac_47_32 |-> 16, rmac_31_0 |-> 32])
    \* The two parts of a MAC address lie side by side.
    /\ Ads.rmac_47_32.size = 16 /\ Ads.rmac_31_0.size = 32
    /\ Ads.rmac_31_0.off = Ads.rmac_47_32.off + 16
    /\ Ads.rgid_rip.size = 128
    /\ Has(Mkc, [access_mode_1_0 |-> 0, a |-> 0, rw |-> 1, rr |-> 1, lw |-> 1, lr |-> 1,
                 pd |-> 0, qpn |-> 0, mkey_7_0 |-> 8, start_addr |-> 0, len |-> 0,
                 translations_octword_size |-> 0, log_page_size |-> 0])
    /\ Has(Cqc, [c_eqn |-> 0, uar_page |-> 0, log_cq_size |-> 4, cqe_sz |-> 0,
                 cqe_comp_en |-> 0, cq_period_mode |-> 0, cq_period |-> 0,
                 dbr_umem_valid |-> 0, dbr_umem_id |-> 0])
    /\ Cqc.log_cq_size.size = 5
    /\ CapNames \subseteq DOMAIN HcaCap
    /\ PrintedFirst \cup PrintedThen \subseteq DOMAIN Qpc

\* What the program's surroundings hand it.  That a value fits its field is not
\* something the code checks: DEVX_SET cuts off what is too large.
ASSUME CommandAssumption ==
    /\ IsFiniteSet(Qps) /\ Cardinality(Qps) = 2
    /\ \A q \in Qps : Fits(Qpc.remote_qpn, q)
    /\ DOMAIN Ids = IdNames
    /\ AllFit(Qpc, [pd |-> Ids.pdn, cqn_snd |-> Ids.cqn, cqn_rcv |-> Ids.cqn,
                    uar_page |-> Ids.uar_page, dbr_umem_id |-> Ids.umem,
                    log_page_size |-> PageLog])
    /\ AllFit(Mkc, [pd |-> Ids.pdn, start_addr |-> Ids.addr])
    /\ Fits(CreateMkeyOut.mkey_index, Ids.mkey_index)
    /\ \A p \in CapPages : DOMAIN p = CapNames /\ AllFit(HcaCap, p)
    /\ \A p \in CqParams : 
        /\ DOMAIN p = DOMAIN DefaultCqParams
        /\ Fits(Cqc.log_cq_size, p.log_cq_size) /\ Fits(Cqc.cqe_sz, p.cqe_sz)
    /\ \A p \in CreateParams : p.sq_size \in 0 .. Weight[30]
    /\ \A p \in CreateParams : Fits(Qpc.log_rra_max, p.max_rd_atomic)
    /\ \A length \in Lengths : Fits(Mkc.len, length)
    \* The counters of WQEs have 16 bits.
    /\ MaxPosts \in Nat /\ MaxPosts < 65536

\* The parameters of a connection; retry_count, rnr_retry and eth_prio have three bits,
\* dscp has six.
ASSUME ConnAssumption ==
    \A p \in ConnParams :
        /\ AllFit(Qpc, [mtu |-> p.mtu, retry_count |-> p.retry_count,
                        rnr_retry |-> p.rnr_retry, hop_limit |-> p.hop_limit,
                        src_addr_index |-> p.sgid_index, eth_prio |-> p.sl, sl |-> p.sl,
                        dscp |-> p.dscp, udp_sport |-> p.udp_sport,
                        grh |-> p.is_global, tclass |-> p.traffic_class])
        /\ Fits(Qpc.vhca_port_num, p.port_num)
        /\ Fits(Qpc.vhca_port_num, p.ah_port_num)

\* The addresses it leads to.
ASSUME PortAssumption ==
    \A q \in Qps :
        /\ Fits(From(Qpc.rmac_47_32, 48), PortOf[q].mac)
        /\ Fits(Qpc.rgid_rip, PortOf[q].gid)
        /\ Fits(Qpc.rlid, PortOf[q].lid)

------------------------------------------------------------------------------
(***************************************************************************)
(* Properties.                                                             *)
(***************************************************************************)

\* The calls that bring a queue pair into a state.
CallsBehind(s) == {"create"} \cup {<<"init", "rtr", "rts">>[i] : i \in 1 .. s}

\* Buffers are bits of their structures, and every queue pair is as far as the calls
\* that succeeded on it.
CmdTypeOK ==
    /\ caps = None \/ (DOMAIN caps = CapNames /\ \A n \in CapNames : caps[n] \in 0 .. 255)
    /\ cqctx \subseteq 0 .. Size(Cqc) - 1
    /\ mkctx \subseteq 0 .. Size(Mkc) - 1
    /\ \A q \in Qps :
        /\ qpctx[q] \subseteq 0 .. Size(Qpc) - 1
        /\ sqSize[q] \in Nat /\ sqSize[q] < 65536
        /\ DOMAIN asked[q] = IF Created(q) THEN CallsBehind(StateOf(q)) ELSE {}
        /\ posts[q] \in 0 .. MaxPosts

\* The capabilities the program works with are those of the device, of the wide ones
\* the low byte (query_hca_capabilities).
CapsAsReported ==
    caps # None => \A n \in CapNames : caps[n] = page[n] % 256

\* Neither a completion queue nor a message is larger than the device allows, whatever
\* the caller asks for; but a device that has no room for the default of 2^9 entries is
\* asked for these (initialize_cq_resources, log_msg_max).
NeverAsksTooMuch ==
    /\ cq # None =>
        LET log == DevxGet(Cqc.log_cq_size, cqctx)
        IN  log <= page.log_max_cq_sz \/ (log = 9 /\ page.log_max_cq_sz < 9)
    /\ \A q \in Qps : Created(q) => DevxGet(Qpc.log_msg_max, qpctx[q]) <= page.log_max_msg

\* The low 32 bits of a number, and what is above them.
LowWord(n) == ((n \div 65536) % 65536) * 65536 + (n % 65536)
HighPart(n) == (n \div 65536) \div 65536

HasAll(ctx, values) == \A n \in DOMAIN values : DevxGet(Qpc[n], ctx) = values[n]

\* What a call that succeeded asked for holds in the device to the end: no field is cut
\* off, lands in another, or is lost to a later step of the connection
\* (queue_pair::initialize, reset_to_init, init_to_rtr, rtr_to_rts).
DeviceKeepsWhatWasAsked ==
    \A q \in Qps :
        /\ "create" \in DOMAIN asked[q] =>
            HasAll(qpctx[q],
                [st |-> 0, pm_state |-> PmStateMigrated, pd |-> Ids.pdn,
                 cqn_snd |-> Ids.cqn, cqn_rcv |-> Ids.cqn, uar_page |-> Ids.uar_page,
                 dbr_umem_id |-> Ids.umem, dbr_umem_valid |-> 1,
                 log_rra_max |-> asked[q].create.max_rd_atomic, log_page_size |-> PageLog])
        /\ "init" \in DOMAIN asked[q] =>
            HasAll(qpctx[q], [rre |-> 1, rwe |-> 1, rae |-> 1, atomic_mode |-> 1])
        /\ "init" \in DOMAIN asked[q] /\ "rtr" \notin DOMAIN asked[q] =>
            HasAll(qpctx[q], [vhca_port_num |-> asked[q].init.port_num])
        /\ "rtr" \in DOMAIN asked[q] =>
            HasAll(qpctx[q],
                [mtu |-> asked[q].rtr.mtu, vhca_port_num |-> asked[q].rtr.ah_port_num])
        /\ "rts" \in DOMAIN asked[q] =>
            HasAll(qpctx[q], [retry_count |-> asked[q].rts.retry_count,
                              rnr_retry |-> asked[q].rts.rnr_retry, next_send_psn |-> 0])

\* A queue pair ready to receive names its peer, and its path leads to the peer's port
\* in the terms of the port's own link layer, with the service level, hop limit and
\* source the caller gave (init_to_rtr).
PathLeadsToPeer ==
    \A q \in Qps :
        "rtr" \in DOMAIN asked[q] =>
            LET p == asked[q].rtr
                port == PortOf[Peer(q)]
            IN  /\ DevxGet(Qpc.remote_qpn, qpctx[q]) = Peer(q)
                /\ IF link = "ETHERNET"
                   THEN HasAll(qpctx[q],
                            [rmac_47_32 |-> HighPart(port.mac), rmac_31_0 |-> LowWord(port.mac),
                             rgid_rip |-> port.gid,
                             hop_limit |-> p.hop_limit, src_addr_index |-> p.sgid_index,
                             eth_prio |-> p.sl, dscp |-> p.dscp, udp_sport |-> p.udp_sport])
                   ELSE /\ HasAll(qpctx[q], [rlid |-> port.lid, sl |-> p.sl, grh |-> p.is_global])
                        /\ p.is_global = 1 =>
                            HasAll(qpctx[q],
                                [rgid_rip |-> port.gid, hop_limit |-> p.hop_limit,
                                 src_addr_index |-> p.sgid_index, tclass |-> p.traffic_class])

\* The completion queue the device fills, whatever was asked for.
EntryBytes == 64 * Weight[DevxGet(Cqc.cqe_sz, cqctx)]
CreatedEntries == Weight[DevxGet(Cqc.log_cq_size, cqctx)]

\* Sizes of a send queue for which ilog2, _sq_size's 16 bits and log_sq_size's four lose
\* nothing.
RingSizes == {Weight[k] : k \in 0 .. 15}

\* Host and device divide the same memory into the same rings as far as the caller sees
\* to it.  The completion queue the device fills has the entries the memory was allocated
\* for, and fits in it if and only if the caller asked for entries of 64 bytes.  poll_cq goes through the same
\* entries if and only if the size it goes by is the one initialize left in the caller's
\* parameters: who hands them to set_cq_hw_params polls the ring the device fills, and
\* who does not polls 512 entries of a ring that may have fewer.  The send queue of a
\* queue pair has as many entries on both sides, if it is a power of two (initialize,
\* initialize_cq_resources, set_cq_hw_params, poll_cq).
RingsAgree ==
    /\ cq # None =>
        /\ CreatedEntries = cq.entries
        /\ (EntryBytes * CreatedEntries <= cq.bytes) <=> (returned.cqe_sz = 0)
        /\ (PolledEntries = CreatedEntries) <=> (cqHwParams.log_cq_size = returned.log_cq_size)
    /\ \A q \in Qps :
        Created(q) /\ asked[q].create.sq_size \in RingSizes =>
            Weight[DevxGet(Qpc.log_sq_size, qpctx[q])] = sqSize[q]

\* Whether the device lets a key reach a range for a queue pair's protection domain.
Opens(key, qpc, first, length) ==
    /\ key \div 256 = Ids.mkey_index
    /\ key % 256 = DevxGet(Mkc.mkey_7_0, mkctx)
    /\ DevxGet(Mkc.pd, mkctx) = DevxGet(Qpc.pd, qpc)
    /\ first >= DevxGet(Mkc.start_addr, mkctx)
    /\ first + length <= DevxGet(Mkc.start_addr, mkctx) + DevxGet(Mkc.len, mkctx)
    /\ \A right \in {"lr", "lw", "rr", "rw"} : DevxGet(Mkc[right], mkctx) = 1

\* The keys in a WQE open the memory it names, to the queue pair it is posted on and to
\* the peer that serves it: key, region and domain were set up by three commands
\* (memory_region::initialize, queue_pair::initialize, post_wqe).
KeysOpenTheRegion ==
    \A q \in Qps :
        posts[q] > 0 =>
            LET wqe == WqeDecoded(slot[q])
            IN  /\ \A d \in wqe.data : Opens(d.lkey, qpctx[q], d.addr, d.byte_count)
                /\ NeedRaddr(wqe.opcode) =>
                    \A d \in wqe.data :
                        Opens(wqe.remote.rkey, qpctx[Peer(q)], wqe.remote.raddr, d.byte_count)

\* The device reads from a WQE what the caller asked for: operation, both ends, length,
\* immediate, and the index and number by which its completion is recognised
\* (post_wqe and its five callers).
WqeAsAsked ==
    \A q \in Qps :
        posts[q] > 0 =>
            LET wqe == WqeDecoded(slot[q])
                r == request[q]
            IN  /\ wqe.opcode = r.opcode
                /\ wqe.qpn = q
                /\ wqe.index = posts[q] - 1
                /\ wqe.imm = r.imm
                /\ wqe.data = {DataSeg(r.length, r.lkey, r.laddr)}
                /\ NeedRaddr(r.opcode) => wqe.remote = RaddrSeg(r.raddr, r.rkey)

\* A query the device answers reports the state, the counters, the parameters and the
\* peer's address that the device has; that a query failed is told from every state, but
\* that there is no queue pair is not: the answer is the number of INIT
\* (get_qp_state, query_qp_counters, queryAndPrintQpProperties).
QueriesTellTheTruth ==
    \A q \in Qps :
        /\ GetQpState(q, FALSE) =
               IF Created(q) THEN Cardinality(DOMAIN asked[q]) - 1 ELSE InitState
        /\ Created(q) => GetQpState(q, TRUE) \notin ResetState .. RtsState
        /\ Created(q) =>
            /\ QueryQpCounters(q) = [hw |-> posts[q], sw |-> posts[q], sig |-> 0]
            /\ LET names == PrintedFirst \cup PrintedThen
                   printed == Printed(q, names)
               IN  \A n \in names : printed[n] = DevxGet(Qpc[n], qpctx[q])
            /\ "rtr" \in DOMAIN asked[q] /\ (link = "ETHERNET" \/ asked[q].rtr.is_global = 1) =>
                   PrintedIp(q) = LowWord(PortOf[Peer(q)].gid)

==============================================================================
