----------------------------- MODULE DevxLayouts -----------------------------
(***************************************************************************)
(* The commands a program and an mlx5 device exchange: the bit fields of   *)
(* mlx5_ifc.h and the DEVX_SET / DEVX_GET macros that fill and read them.  *)
(*                                                                         *)
(* A layout is the sequence of a structure's fields, <<name, width>>, in   *)
(* the order of the structure; what the program never touches is a gap.    *)
(* A buffer is the set of its bits that are 1, numbered as the device      *)
(* numbers them: bit 0 is the most significant bit of the first byte.      *)
(***************************************************************************)
EXTENDS Integers, Sequences, FiniteSets, FiniteSetsExt

CONSTANT NumberBits     \* how many digits numbers have; 30 is the most TLC can count with

ASSUME NumberAssumption == NumberBits \in Nat /\ NumberBits >= 16

Gap(width) == <<"", width>>

\* __devx_bit_off: where the fields of a layout begin, and where the last one ends.
Offsets(layout) ==
    LET off[i \in 1 .. Len(layout) + 1] ==
            IF i = 1 THEN 0 ELSE off[i - 1] + layout[i - 1][2]
    IN  off

Named(layout) == {i \in DOMAIN layout : layout[i][1] # ""}

\* The fields of a layout by name, with their __devx_bit_sz; "end" is behind the last.
Fields(layout) ==
    [n \in {layout[i][1] : i \in Named(layout)} \cup {"end"} |->
        IF n = "end" THEN [off |-> Offsets(layout)[Len(layout) + 1], size |-> 0]
        ELSE LET i == CHOOSE j \in Named(layout) : layout[j][1] = n
             IN  [off |-> Offsets(layout)[i], size |-> layout[i][2]]]

\* DEVX_ST_SZ_DW, in bits.
Size(fields) == fields["end"].off

\* DEVX_ADDR_OF: the fields of a structure within another.
Within(outer, fields) == [n \in DOMAIN fields |-> [fields[n] EXCEPT !.off = @ + outer.off]]

\* Two functions as one, the first of them where both have a value.
Joined(f, g) ==
    [n \in DOMAIN f \cup DOMAIN g |-> IF n \in DOMAIN f THEN f[n] ELSE g[n]]

\* The first bits of a field's address on, whatever the fields there are.
From(field, bits) == [field EXCEPT !.size = bits]

------------------------------------------------------------------------------
(***************************************************************************)
(* The macros.  A number has NumberBits digits, a field as many of them    *)
(* as it is wide.                                                          *)
(***************************************************************************)

Width(field) == Min({field.size, NumberBits})

Digits(field) == 0 .. Width(field) - 1

\* What the digit i of a number counts for: 2^i.
Weight[i \in Nat] == IF i = 0 THEN 1 ELSE 2 * Weight[i - 1]

\* A field has room for a value; what is too large for it is cut off.
Fits(field, value) == value \in 0 .. Weight[Width(field)] - 1

\* The same of several, given by name.
AllFit(fields, values) == \A n \in DOMAIN values : Fits(fields[n], values[n])

\* Where the digit i of a field's value is: fields are big-endian.
BitOf(field, i) == field.off + field.size - 1 - i

Span(field) == field.off .. field.off + field.size - 1

\* DEVX_SET: the value is masked to the width of the field.
DevxSet(field, value) ==
    {BitOf(field, i) : i \in {j \in Digits(field) : (value \div Weight[j]) % 2 = 1}}

\* Several DEVX_SETs into a buffer of zeros, and none twice into one field.
DevxSetAll(fields, values) == UNION {DevxSet(fields[n], values[n]) : n \in DOMAIN values}

\* DEVX_GET: the sum of the digits that are 1.
DevxGet(field, buf) ==
    MapThenSumSet(LAMBDA bit : Weight[field.off + field.size - 1 - bit],
                  buf \cap {BitOf(field, i) : i \in Digits(field)})

\* The contents of a structure within a buffer.
Extract(field, buf) ==
    {b - field.off : b \in {x \in buf : field.off <= x /\ x < field.off + field.size}}

\* Contents put at the place of a structure.
Embed(field, bits) == {b + field.off : b \in bits}

------------------------------------------------------------------------------
(***************************************************************************)
(* Contexts: an address path, a queue pair, a memory key, a completion     *)
(* queue, the capabilities of the device.                                  *)
(***************************************************************************)

AdsLayout == <<
    Gap(16), <<"pkey_index", 16>>, Gap(8), <<"grh", 1>>, <<"mlid", 7>>, <<"rlid", 16>>,
    Gap(8), <<"src_addr_index", 8>>, Gap(8), <<"hop_limit", 8>>, Gap(4), <<"tclass", 8>>,
    <<"flow_label", 20>>, <<"rgid_rip", 128>>, Gap(8), <<"ecn", 2>>, <<"dscp", 6>>,
    <<"udp_sport", 16>>, Gap(1), <<"eth_prio", 3>>, <<"sl", 4>>, <<"vhca_port_num", 8>>,
    <<"rmac_47_32", 16>>, <<"rmac_31_0", 32>> >>
Ads == Fields(AdsLayout)

QpcLayout == <<
    <<"state", 4>>, <<"lag_tx_port_affinity", 4>>, <<"st", 8>>, Gap(2),
    <<"isolate_vl_tc", 1>>, <<"pm_state", 2>>, Gap(1), <<"req_e2e_credit_mode", 2>>,
    <<"offload_type", 4>>, <<"end_padding_mode", 2>>, Gap(2), <<"wq_signature", 1>>,
    <<"block_lb_mc", 1>>, <<"atomic_like_write_en", 1>>, <<"latency_sensitive", 1>>,
    Gap(1), <<"drain_sigerr", 1>>, Gap(2), <<"pd", 24>>, <<"mtu", 3>>,
    <<"log_msg_max", 5>>, Gap(1), <<"log_rq_size", 4>>, <<"log_rq_stride", 3>>,
    <<"no_sq", 1>>, <<"log_sq_size", 4>>, Gap(3), <<"ts_format", 2>>,
    <<"data_in_order", 1>>, <<"rlky", 1>>, Gap(4), <<"counter_set_id", 8>>,
    <<"uar_page", 24>>, Gap(8), <<"user_index", 24>>, Gap(3), <<"log_page_size", 5>>,
    <<"remote_qpn", 24>>, <<"primary_address_path", Size(Ads)>>, Gap(352),
    <<"log_ack_req_freq", 4>>, Gap(4), <<"log_sra_max", 3>>, Gap(2),
    <<"retry_count", 3>>, <<"rnr_retry", 3>>, Gap(1), <<"fre", 1>>,
    <<"cur_rnr_retry", 3>>, <<"cur_retry_count", 3>>, Gap(45), <<"next_send_psn", 24>>,
    Gap(8), <<"cqn_snd", 24>>, Gap(8), <<"deth_sqpn", 24>>, Gap(40),
    <<"last_acked_psn", 24>>, Gap(8), <<"ssn", 24>>, Gap(8), <<"log_rra_max", 3>>,
    Gap(1), <<"atomic_mode", 4>>, <<"rre", 1>>, <<"rwe", 1>>, <<"rae", 1>>, Gap(1),
    <<"page_offset", 6>>, Gap(3), <<"cd_slave_receive", 1>>, <<"cd_slave_send", 1>>,
    <<"cd_master", 1>>, Gap(3), <<"min_rnr_nak", 5>>, <<"next_rcv_psn", 24>>, Gap(40),
    <<"cqn_rcv", 24>>, <<"dbr_addr", 64>>, Gap(40), <<"srqn_rmpn_xrqn", 24>>, Gap(32),
    <<"hw_sq_wqebb_counter", 16>>, <<"sw_sq_wqebb_counter", 16>>,
    <<"hw_rq_counter", 32>>, <<"sw_rq_counter", 32>>, Gap(131), <<"dbr_umem_valid", 1>>,
    Gap(156), <<"dbr_umem_id", 32>> >>
QpcOwn == Fields(QpcLayout)

\* The fields of a queue pair context and of its primary path; no two share a name.
Qpc == Joined(QpcOwn, Within(QpcOwn.primary_address_path, Ads))

MkcLayout == <<
    Gap(17), <<"a", 1>>, <<"rw", 1>>, <<"rr", 1>>, <<"lw", 1>>, <<"lr", 1>>,
    <<"access_mode_1_0", 2>>, Gap(8), <<"qpn", 24>>, <<"mkey_7_0", 8>>, Gap(40),
    <<"pd", 24>>, <<"start_addr", 64>>, <<"len", 64>>, Gap(160),
    <<"translations_octword_size", 32>>, Gap(27), <<"log_page_size", 5>>, Gap(32) >>
Mkc == Fields(MkcLayout)

CqcLayout == <<
    Gap(6), <<"dbr_umem_valid", 1>>, Gap(1), <<"cqe_sz", 3>>, Gap(4),
    <<"cq_period_mode", 2>>, <<"cqe_comp_en", 1>>, Gap(14), <<"dbr_umem_id", 32>>,
    Gap(35), <<"log_cq_size", 5>>, <<"uar_page", 24>>, Gap(4), <<"cq_period", 12>>,
    <<"cq_max_count", 16>>, Gap(24), <<"c_eqn", 8>>, Gap(3), <<"log_page_size", 5>>,
    Gap(312) >>
Cqc == Fields(CqcLayout)

HcaCapPart1 == <<
    Gap(128), <<"log_max_srq_sz", 8>>, <<"log_max_qp_sz", 8>>, Gap(11),
    <<"log_max_qp", 5>>, Gap(11), <<"log_max_srq", 5>>, Gap(24), <<"log_max_cq_sz", 8>>,
    Gap(11), <<"log_max_cq", 5>>, <<"log_max_eq_sz", 8>>, Gap(2), <<"log_max_mkey", 6>>,
    Gap(12), <<"log_max_eq", 4>>, Gap(26), <<"log_max_klm_list_size", 6>>, Gap(42),
    <<"log_max_ra_req_qp", 6>>, Gap(10), <<"log_max_ra_res_qp", 6>>, Gap(88),
    <<"num_ports", 8>>, Gap(3), <<"log_max_msg", 5>>, Gap(4), <<"max_tc", 4>>, Gap(6) >>

HcaCapPart2 == <<
    Gap(186), <<"max_wqe_sz_sq", 16>>, Gap(120), <<"log_max_mcg", 8>>, Gap(3),
    <<"log_max_transport_domain", 5>>, Gap(3), <<"log_max_pd", 5>>, Gap(11),
    <<"log_max_xrcd", 5>>, Gap(3) >>

HcaCapPart3 == <<
    Gap(5), <<"log_max_flow_counter_bulk", 8>>, Gap(19), <<"log_max_rq", 5>>, Gap(3),
    <<"log_max_sq", 5>>, Gap(3), <<"log_max_tir", 5>>, Gap(3), <<"log_max_tis", 5>>,
    Gap(3), <<"log_max_rmp", 5>>, Gap(3), <<"log_max_rqt", 5>>, Gap(3),
    <<"log_max_rqt_size", 5>>, Gap(3), <<"log_max_tis_per_sq", 5>>, Gap(3),
    <<"log_max_stride_sz_rq", 5>>, Gap(3), <<"log_min_stride_sz_rq", 5>>, Gap(3),
    <<"log_max_stride_sz_sq", 5>>, Gap(3), <<"log_min_stride_sz_sq", 5>>, Gap(3),
    <<"log_max_hairpin_queues", 5>>, Gap(3), <<"log_max_hairpin_wq_data_sz", 5>>, Gap(3),
    <<"log_max_hairpin_num_packets", 5>>, Gap(3), <<"log_max_wq_sz", 5>>, Gap(11),
    <<"log_max_vlan_list", 5>>, Gap(3), <<"log_max_current_mc_list", 5>>, Gap(3),
    <<"log_max_current_uc_list", 5>>, Gap(131), <<"log_max_l2_table", 5>>, Gap(8),
    <<"log_uar_page_sz", 16>>, Gap(123), <<"log_max_pasid", 5>>, Gap(91),
    <<"log_max_dct_connections", 5>>, <<"log_max_atomic_size_qp", 8>>, Gap(16),
    <<"log_max_atomic_size_dc", 8>>, Gap(30) >>

HcaCapPart4 == <<
    Gap(61), <<"log_max_xrq", 5>>, Gap(8), <<"native_port_num", 8>>, Gap(496) >>

HcaCapLayout == HcaCapPart1 \o HcaCapPart2 \o HcaCapPart3 \o HcaCapPart4
HcaCap == Fields(HcaCapLayout)

\* The union of all capability pages.
CapabilityBits == 32768

------------------------------------------------------------------------------
(***************************************************************************)
(* Commands and their answers.                                             *)
(***************************************************************************)

CreateCqInLayout == <<
    <<"opcode", 16>>, Gap(112), <<"cqc", Size(Cqc)>>, <<"cq_umem_offset", 64>>,
    <<"cq_umem_id", 32>>, <<"cq_umem_valid", 1>>, Gap(1439) >>
CreateCqIn == Fields(CreateCqInLayout)

CreateCqOutLayout == <<
    Gap(32), <<"syndrome", 32>>, Gap(8), <<"cqn", 24>>, Gap(32) >>
CreateCqOut == Fields(CreateCqOutLayout)

CreateMkeyInLayout == <<
    <<"opcode", 16>>, Gap(81), <<"mkey_umem_valid", 1>>, Gap(30),
    <<"memory_key_mkey_entry", Size(Mkc)>>, Gap(128),
    <<"translations_octword_actual_size", 32>>, <<"mkey_umem_id", 32>>,
    <<"mkey_umem_offset", 64>>, Gap(1280) >>
CreateMkeyIn == Fields(CreateMkeyInLayout)

CreateMkeyOutLayout == <<
    Gap(32), <<"syndrome", 32>>, Gap(8), <<"mkey_index", 24>>, Gap(32) >>
CreateMkeyOut == Fields(CreateMkeyOutLayout)

CreateQpInLayout == <<
    <<"opcode", 16>>, Gap(176), <<"qpc", Size(Qpc)>>, Gap(64), <<"wq_umem_id", 32>>,
    <<"wq_umem_valid", 1>>, Gap(31) >>
CreateQpIn == Fields(CreateQpInLayout)

CreateQpOutLayout == <<
    Gap(32), <<"syndrome", 32>>, Gap(8), <<"qpn", 24>>, Gap(32) >>
CreateQpOut == Fields(CreateQpOutLayout)

Rst2InitQpInLayout == <<
    <<"opcode", 16>>, Gap(56), <<"qpn", 24>>, Gap(96), <<"qpc", Size(Qpc)>>, Gap(128) >>
Rst2InitQpIn == Fields(Rst2InitQpInLayout)

Init2RtrQpInLayout == <<
    <<"opcode", 16>>, Gap(56), <<"qpn", 24>>, Gap(64), <<"ece", 32>>,
    <<"qpc", Size(Qpc)>>, Gap(128) >>
Init2RtrQpIn == Fields(Init2RtrQpInLayout)

Rtr2RtsQpInLayout == <<
    <<"opcode", 16>>, Gap(56), <<"qpn", 24>>, Gap(96), <<"qpc", Size(Qpc)>>, Gap(128) >>
Rtr2RtsQpIn == Fields(Rtr2RtsQpInLayout)

QueryQpInLayout == <<
    <<"opcode", 16>>, Gap(56), <<"qpn", 24>>, Gap(32) >>
QueryQpIn == Fields(QueryQpInLayout)

QueryQpOutLayout == <<
    Gap(192), <<"qpc", Size(Qpc)>>, Gap(128) >>
QueryQpOut == Fields(QueryQpOutLayout)

QueryHcaCapInLayout == <<
    <<"opcode", 16>>, Gap(32), <<"op_mod", 16>>, Gap(64) >>
QueryHcaCapIn == Fields(QueryHcaCapInLayout)

QueryHcaCapOutLayout == <<
    Gap(128), <<"capability", CapabilityBits>> >>
QueryHcaCapOut == Fields(QueryHcaCapOutLayout)

------------------------------------------------------------------------------
(***************************************************************************)
(* What the tables above say, as far as proofs need it of them: the        *)
(* provers do not read tables of ninety lines, TLC evaluates all of this.  *)
(***************************************************************************)

Layouts == {
    AdsLayout, QpcLayout, MkcLayout, CqcLayout, HcaCapLayout, CreateCqInLayout,
    CreateMkeyInLayout, CreateMkeyOutLayout, CreateQpInLayout, Rst2InitQpInLayout,
    Init2RtrQpInLayout, Rtr2RtsQpInLayout, QueryQpOutLayout, QueryHcaCapOutLayout}

\* A structure has fields of these names, with at least these widths.
Has(fields, widths) ==
    \A n \in DOMAIN widths : n \in DOMAIN fields /\ fields[n].size >= widths[n]

ASSUME LayoutAssumption ==
    /\ \A layout \in Layouts : layout \in Seq(STRING \X Nat)
    /\ DOMAIN QpcOwn \cap DOMAIN Ads = {"end"}
    /\ QpcOwn.primary_address_path.size = Size(Ads)

\* Where a command or an answer has a structure within it, there is room for all of it.
ASSUME CommandLayoutAssumption ==
    /\ Has(CreateCqIn, [opcode |-> 16, cq_umem_valid |-> 1, cq_umem_id |-> 32,
                        cq_umem_offset |-> 64, cqc |-> Size(Cqc)])
    /\ Has(CreateMkeyIn, [opcode |-> 16, mkey_umem_valid |-> 1, mkey_umem_id |-> 32,
                          mkey_umem_offset |-> 64, translations_octword_actual_size |-> 32,
                          memory_key_mkey_entry |-> Size(Mkc)])
    /\ Has(CreateMkeyOut, [mkey_index |-> 24])
    /\ Has(CreateQpIn, [opcode |-> 16, wq_umem_id |-> 32, wq_umem_valid |-> 1,
                        qpc |-> Size(Qpc)])
    /\ Has(QueryQpOut, [qpc |-> Size(Qpc)])
    /\ Has(QueryHcaCapOut, [capability |-> Size(HcaCap)])
    /\ Has(Init2RtrQpIn, [ece |-> 32])
    /\ \A modify \in {Rst2InitQpIn, Init2RtrQpIn, Rtr2RtsQpIn} :
        /\ Has(modify, [opcode |-> 16, qpn |-> 24, qpc |-> Size(Qpc)])
        /\ modify.opcode = CreateQpIn.opcode

==============================================================================
