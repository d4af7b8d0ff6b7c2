------------------------------- MODULE SendQueue -------------------------------
(***************************************************************************)
(* The send queue of queue_pair: post_wqe and post_send (rdma_objects.cpp, *)
(* 1281-1381) on the host, the device that fetches work queue entries      *)
(* (WQEs) on the other side, and the store buffer between them.            *)
(*                                                                         *)
(* A post is three stores that the device may see late: the WQE in its     *)
(* slot, the producer index in the doorbell record, and the doorbell       *)
(* itself, a store to a register of the UAR page.  Stores wait in epochs;  *)
(* those of one epoch reach memory in any order, a barrier starts the next *)
(* epoch.  WQEs are numbered from 0 in posting order.                      *)
(***************************************************************************)
EXTENDS Integers, Sequences

CONSTANTS
    SqSize,     \* params.sq_size: WQEs in the ring post_wqe walks
    PiWrap,     \* the producer index is a uint16_t: it is kept modulo this (2^16)
    Window,     \* WQEs the caller leaves outstanding at most; queue_pair has no limit
    MaxPosts    \* bound: the caller posts this many WQEs

ASSUME SqAssumption ==
    /\ SqSize \in Nat \ {0}
    /\ PiWrap \in Nat \ {0}
    /\ PiWrap > SqSize
    /\ Window \in Nat \ {0}
    /\ MaxPosts \in Nat

VARIABLES
    posted,     \* WQEs posted so far; _sq_pi is this modulo PiWrap
    sqPi,       \* _sq_pi
    bfOffset,   \* _bf_offset, in pages
    sqPc,       \* where the post in progress is
    pend,       \* stores the device does not see yet: a sequence of epochs
    sq,         \* the ring in _umem_sq as the device sees it: slot -> WQE
    dbrec,      \* _umem_db[MLX5_SND_DBR] as the device sees it
    bell,       \* a doorbell has reached the device
    hwLimit,    \* the producer index the device read last
    hwExec,     \* WQEs the device has executed
    fetched,    \* the WQE it executed last
    reaped      \* WQEs whose completion the caller has seen

hostVars == <<posted, sqPi, bfOffset, sqPc>>
memVars == <<pend, sq, dbrec, bell>>
devVars == <<hwLimit, hwExec, fetched>>
sqVars == <<posted, sqPi, bfOffset, sqPc, pend, sq, dbrec, bell, hwLimit, hwExec, fetched, reaped>>

Wqes == 0 .. MaxPosts - 1
NoWqe == -1

\* ilog2 rounds up: the device's ring is the next power of two.
Ilog2(x) == CHOOSE r \in 0 .. x : 2 ^ r >= x /\ (r = 0 \/ 2 ^ (r - 1) < x)
HwSqSize == 2 ^ Ilog2(SqSize)
SqSlots == 0 .. HwSqSize - 1

\* mlx5dv_devx_alloc_uar maps one page; reg_addr points into it.
MappedPages == {0}

Stores == [kind : {"wqe"}, at : SqSlots, val : Wqes]
          \cup [kind : {"dbrec"}, at : {0}, val : 0 .. PiWrap - 1]
          \cup [kind : {"bell"}, at : {0, 1}, val : Wqes]

SqTypeOK ==
    /\ posted \in 0 .. MaxPosts
    /\ sqPi \in 0 .. PiWrap - 1
    /\ bfOffset \in {0, 1}
    /\ sqPc \in {"idle", "written", "recorded"}
    /\ pend \in Seq(SUBSET Stores)
    /\ sq \in [SqSlots -> Wqes \cup {NoWqe}]
    /\ dbrec \in 0 .. PiWrap - 1
    /\ bell \in BOOLEAN
    /\ hwLimit \in 0 .. PiWrap - 1
    /\ hwExec \in 0 .. MaxPosts
    /\ fetched \in Wqes \cup {NoWqe}
    /\ reaped \in 0 .. MaxPosts

--------------------------------------------------------------------------------
(***************************************************************************)
(* The store buffer.                                                       *)
(***************************************************************************)

Put(p, s) ==
    IF p = <<>> THEN <<{s}>> ELSE [p EXCEPT ![Len(p)] = @ \cup {s}]

\* udma_to_device_barrier, mmio_flush_writes and wc_store_fence: what is stored
\* later reaches the device later.
Fence(p) ==
    IF p = <<>> \/ p[Len(p)] = {} THEN p ELSE Append(p, {})

\* The oldest epoch empties store by store.
Drained(p, s) ==
    IF p[1] = {s} THEN Tail(p) ELSE [p EXCEPT ![1] = @ \ {s}]

--------------------------------------------------------------------------------
\* A queue pair initialize() has just created, connected and ready to send.
SqInit ==
    /\ posted = 0
    /\ sqPi = 0
    /\ bfOffset = 0
    /\ sqPc = "idle"
    /\ pend = <<>>
    /\ sq = [s \in SqSlots |-> NoWqe]
    /\ dbrec = 0
    /\ bell = FALSE
    /\ hwLimit = 0
    /\ hwExec = 0
    /\ fetched = NoWqe
    /\ reaped = 0

--------------------------------------------------------------------------------
(***************************************************************************)
(* post_wqe, up to each point where it orders its stores.                  *)
(***************************************************************************)

\* Faults for the mutation runs: a producer index wider than 16 bits; a slot one
\* too far; no barrier before the doorbell record; a register that toggles once.
NewPiUnwrapped(pi) == pi + 1
SwSlotNext(pi) == (pi + 1) % SqSize

SwSlot(pi) == pi % SqSize
NewPi(pi) == (pi + 1) % PiWrap

\* The WQE is built in its slot.  Every WQE of post_wqe is one 64-byte block.
WriteWqe ==
    /\ sqPc = "idle"
    /\ posted < MaxPosts
    /\ posted - reaped < Window
    /\ pend' = Put(pend, [kind |-> "wqe", at |-> SwSlot(sqPi), val |-> posted])
    /\ sqPc' = "written"
    /\ UNCHANGED <<posted, sqPi, bfOffset, sq, dbrec, bell, devVars, reaped>>

StoreDbrecUnfenced ==
    /\ sqPc = "written"
    /\ pend' = Put(pend, [kind |-> "dbrec", at |-> 0, val |-> NewPi(sqPi)])
    /\ sqPc' = "recorded"
    /\ UNCHANGED <<posted, sqPi, bfOffset, sq, dbrec, bell, devVars, reaped>>

\* post_send: udma_to_device_barrier(), then the producer index.
StoreDbrec ==
    /\ sqPc = "written"
    /\ pend' = Put(Fence(pend), [kind |-> "dbrec", at |-> 0, val |-> NewPi(sqPi)])
    /\ sqPc' = "recorded"
    /\ UNCHANGED <<posted, sqPi, bfOffset, sq, dbrec, bell, devVars, reaped>>

RingDoorbellSticky ==
    /\ sqPc = "recorded"
    /\ pend' = Fence(Put(Fence(pend), [kind |-> "bell", at |-> bfOffset, val |-> posted]))
    /\ bfOffset' = 1
    /\ sqPi' = NewPi(sqPi)
    /\ posted' = posted + 1
    /\ sqPc' = "idle"
    /\ UNCHANGED <<sq, dbrec, bell, devVars, reaped>>

\* mmio_flush_writes(), then mmio_write64_be() between two more fences; the
\* register offset toggles, the producer index moves on.
RingDoorbell ==
    /\ sqPc = "recorded"
    /\ pend' = Fence(Put(Fence(pend), [kind |-> "bell", at |-> bfOffset, val |-> posted]))
    /\ bfOffset' = 1 - bfOffset
    /\ sqPi' = NewPi(sqPi)
    /\ posted' = posted + 1
    /\ sqPc' = "idle"
    /\ UNCHANGED <<sq, dbrec, bell, devVars, reaped>>

Post == WriteWqe \/ StoreDbrec \/ RingDoorbell

--------------------------------------------------------------------------------
(***************************************************************************)
(* The bus and the device.                                                 *)
(***************************************************************************)

\* A store reaches memory, or a register; one outside the mapped page reaches
\* no doorbell.
Drain(s) ==
    /\ pend' = Drained(pend, s)
    /\ sq' = IF s.kind = "wqe" THEN [sq EXCEPT ![s.at] = s.val] ELSE sq
    /\ dbrec' = IF s.kind = "dbrec" THEN s.val ELSE dbrec
    /\ bell' = (bell \/ (s.kind = "bell" /\ s.at \in MappedPages))
    /\ UNCHANGED <<hostVars, devVars, reaped>>

DrainSome == pend # <<>> /\ \E s \in pend[1] : Drain(s)

HwSqSlot(n) == (n % PiWrap) % HwSqSize

\* A doorbell makes the device read the record, which may be newer than the
\* doorbell.
HwReadRecord ==
    /\ bell
    /\ bell' = FALSE
    /\ hwLimit' = dbrec
    /\ UNCHANGED <<hostVars, pend, sq, dbrec, hwExec, fetched, reaped>>

\* It executes WQEs in order up to the index it read.
HwExecute ==
    /\ hwExec < MaxPosts
    /\ hwExec % PiWrap # hwLimit
    /\ fetched' = sq[HwSqSlot(hwExec)]
    /\ hwExec' = hwExec + 1
    /\ UNCHANGED <<hostVars, memVars, hwLimit, reaped>>

\* The caller learns, through the completion queue, that a WQE is done: every
\* WQE asks for a completion (MLX5_WQE_CTRL_CQ_UPDATE).
Reap ==
    /\ reaped < hwExec
    /\ reaped' = reaped + 1
    /\ UNCHANGED <<hostVars, memVars, devVars>>

SqDevice == HwReadRecord \/ HwExecute

SqNext == Post \/ DrainSome \/ SqDevice \/ Reap

SqSpec == SqInit /\ [][SqNext]_sqVars

--------------------------------------------------------------------------------
(***************************************************************************)
(* Properties.                                                             *)
(***************************************************************************)

\* The WQEs the doorbell record covers beyond those executed: the device may
\* execute them at any doorbell.
Covered == hwExec .. hwExec + ((dbrec - hwExec) % PiWrap) - 1

\* Whenever the device sees a producer index, it sees every WQE below it, and
\* sees it whole until it has executed it: an older doorbell that makes it read
\* a newer record finds no unwritten WQE, and no slot is reused too early.
RecordCoversWrittenWqes ==
    \A n \in Covered : sq[HwSqSlot(n)] = n

\* The device executes the WQEs in posting order, each once, across the wrap of
\* the 16-bit index and of the ring.
ExecutedInOrder == fetched = hwExec - 1

\* The register toggle costs a post its doorbell, but never two in a row: a WQE
\* followed by another one is executed.
OnlyLastPostCanStrand ==
    \A k \in Wqes : posted > k + 1 ~> hwExec > k

\* mmio_write64_be's documentation asks for a mapped address.
DoorbellsAreMapped ==
    \A i \in 1 .. Len(pend) : \A s \in pend[i] :
        s.kind = "bell" => s.at \in MappedPages
================================================================================
