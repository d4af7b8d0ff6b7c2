--------------------------- MODULE CompletionQueue ---------------------------
(***************************************************************************)
(* The completion ring of completion_queue_devx (rdma_objects.cpp,         *)
(* 746-997): the device appends completion entries (CQEs) to a ring in     *)
(* host memory, poll_cq() consumes them, and the consumer index goes back  *)
(* to the device through the doorbell record.                              *)
(*                                                                         *)
(* Two actors that share nothing but memory: the polling thread, which     *)
(* loads the owner bit and the opcode of an entry in two separate loads    *)
(* and only then decides, and the device, which writes the body of an      *)
(* entry before the byte that hands it over (op_own).  Completions are     *)
(* numbered from 0 in the order the device produces them.                  *)
(***************************************************************************)
EXTENDS Integers, FiniteSets

CONSTANTS
    CqeCnt,     \* entries of the ring the device writes: 1 << log_cq_size as created
    PollCnt,    \* entries of the ring poll_cq walks: 1 << _cq_hw_params.log_cq_size
    CiWrap,     \* the consumer index in the doorbell record is kept modulo this (2^24)
    MaxCqes     \* bound: the device produces this many completions

ASSUME CqAssumption ==
    /\ CqeCnt \in Nat \ {0}
    /\ PollCnt \in Nat \ {0}
    /\ MaxCqes \in Nat
    /\ CiWrap \in Nat
    /\ CiWrap > 2 * CqeCnt

VARIABLES
    cqe,        \* the ring in _umem: slot -> entry
    hwPi,       \* completions handed over by the device so far
    dma,        \* the entry the device is in the middle of writing, or NoEntry
    ci,         \* _consumer_index
    dbrCi,      \* the consumer index the doorbell record shows the device
    pc,         \* where poll_cq is
    seenOwner,  \* its local variable owner
    seenOp,     \* its local variable opcode
    last        \* what the last poll_cq to return reported

swVars == <<ci, dbrCi, pc, seenOwner, seenOp, last>>
hwVars == <<cqe, hwPi, dma>>
vars == <<cqe, hwPi, dma, ci, dbrCi, pc, seenOwner, seenOp, last>>

Slots == 0 .. CqeCnt - 1

\* The opcodes poll_cq tells apart: 0x0 (a requester completion), an error
\* opcode, and MLX5_CQE_INVALID, the one the ring is initialised with.
Verdicts == {"req", "err"}
Opcodes == Verdicts \cup {"invalid"}

\* The part of an entry a caller cares about: which completion it is and how it
\* ended.  A body of zeroes, as memset leaves it, belongs to no completion.
Bodies == [num : -1 .. MaxCqes, verdict : Opcodes]
NoBody == [num |-> -1, verdict |-> "invalid"]
NoEntry == NoBody

\* "poll" starts at "idle"; "opcode" and "decide" are between its two loads and
\* after them.
TypeOK ==
    /\ cqe \in [Slots -> [op : Opcodes, owner : {0, 1}, body : Bodies]]
    /\ hwPi \in 0 .. MaxCqes
    /\ dma \in Bodies
    /\ ci \in Nat
    /\ dbrCi \in 0 .. CiWrap - 1
    /\ pc \in {"idle", "opcode", "decide"}
    /\ seenOwner \in {0, 1}
    /\ seenOp \in Opcodes
    /\ last \in [status : {"none", "ok", "error", "empty"}, at : Nat, body : Bodies]

------------------------------------------------------------------------------
(***************************************************************************)
(* The ring arithmetic.                                                    *)
(***************************************************************************)

\* The owner bit initialize_cq_resources gives entry i: whether i has the bit
\* cq_mask + 1 set, which no i below cq_entries has.
InitOwner(i) == (i \div CqeCnt) % 2

\* Faults a change to poll_cq could introduce, for the mutation runs: the owner
\* bit never flips; the index is stored unmasked, one early, or never updated.
ExpectedOwnerOnePass(n) == 0
DbrValueUnmasked(n) == n
DbrValueEarly(n) == (n + 1) % CiWrap
DbrValueStuck(n) == 0

\* The slot poll_cq looks at and the owner bit that means "handed over" there.
PollSlot(n) == n % PollCnt
ExpectedOwner(n) == (n \div PollCnt) % 2

\* The value poll_cq stores in the doorbell record.
DbrValue(n) == n % CiWrap

\* The device's side of the same ring.
HwSlot(n) == n % CqeCnt
HwOwner(n) == (n \div CqeCnt) % 2

\* The device compares its producer index with the consumer index of the
\* doorbell record modulo CiWrap: a ring's length ahead is full, and behind it
\* (the poller ran past the device) there is room.
HasRoom ==
    LET d == (hwPi - dbrCi) % CiWrap
    IN  d < CqeCnt \/ d >= CiWrap - CqeCnt

\* What a load of the owner bit or the opcode at slot s may return: beyond the
\* ring's memory it is whatever happens to be there.
OwnersAt(s) == IF s \in Slots THEN {cqe[s].owner} ELSE {0, 1}
OpcodesAt(s) == IF s \in Slots THEN {cqe[s].op} ELSE Opcodes
BodyAt(s) == IF s \in Slots THEN cqe[s].body ELSE NoBody

------------------------------------------------------------------------------
\* A queue initialize() has just returned: entries marked invalid, zeroed
\* doorbell record, nothing produced, nothing polled.
Init ==
    /\ cqe = [s \in Slots |-> [op |-> "invalid", owner |-> InitOwner(s), body |-> NoBody]]
    /\ hwPi = 0
    /\ dma = NoEntry
    /\ ci = 0
    /\ dbrCi = 0
    /\ pc = "idle"
    /\ seenOwner = 0
    /\ seenOp = "invalid"
    /\ last = [status |-> "none", at |-> 0, body |-> NoBody]

------------------------------------------------------------------------------
(***************************************************************************)
(* poll_cq, one step per access to memory the device writes.               *)
(***************************************************************************)

PollOwner ==
    /\ pc = "idle"
    /\ seenOwner' \in OwnersAt(PollSlot(ci))
    /\ pc' = "opcode"
    /\ UNCHANGED <<ci, dbrCi, seenOp, last, hwVars>>

PollOpcode ==
    /\ pc = "opcode"
    /\ seenOp' \in OpcodesAt(PollSlot(ci))
    /\ pc' = "decide"
    /\ UNCHANGED <<ci, dbrCi, seenOwner, last, hwVars>>

\* Fault: the owner bit is not compared at all.
OwnedUnchecked == TRUE

Owned == seenOwner = ExpectedOwner(ci)

\* Both consuming branches end alike: _consumer_index++, the doorbell record,
\* a full fence.
Consume(status) ==
    /\ last' = [status |-> status, at |-> ci, body |-> BodyAt(PollSlot(ci))]
    /\ ci' = ci + 1
    /\ dbrCi' = DbrValue(ci + 1)
    /\ pc' = "idle"
    /\ UNCHANGED <<seenOwner, seenOp, hwVars>>

PollOk ==
    /\ pc = "decide"
    /\ Owned
    /\ seenOp = "req"
    /\ Consume("ok")

\* Fault: the error branch looks at the opcode only.
PollErrorUnowned ==
    /\ pc = "decide"
    /\ seenOp # "req"
    /\ Consume("error")

\* Every opcode other than 0x0 counts as an error completion, MLX5_CQE_INVALID
\* included.
PollError ==
    /\ pc = "decide"
    /\ Owned
    /\ seenOp # "req"
    /\ Consume("error")

PollEmpty ==
    /\ pc = "decide"
    /\ ~Owned
    /\ last' = [status |-> "empty", at |-> ci, body |-> NoBody]
    /\ pc' = "idle"
    /\ UNCHANGED <<ci, dbrCi, seenOwner, seenOp, hwVars>>

Poll == PollOwner \/ PollOpcode \/ PollOk \/ PollError \/ PollEmpty

------------------------------------------------------------------------------
(***************************************************************************)
(* The device: the body of an entry first, its op_own byte last.           *)
(***************************************************************************)

HwWriteBody(v) ==
    /\ dma = NoEntry
    /\ hwPi < MaxCqes
    /\ HasRoom
    /\ dma' = [num |-> hwPi, verdict |-> v]
    /\ cqe' = [cqe EXCEPT ![HwSlot(hwPi)].body = dma']
    /\ UNCHANGED <<hwPi, swVars>>

HwHandOver ==
    /\ dma # NoEntry
    /\ cqe' = [cqe EXCEPT ![HwSlot(hwPi)].op = dma.verdict,
                          ![HwSlot(hwPi)].owner = HwOwner(hwPi)]
    /\ hwPi' = hwPi + 1
    /\ dma' = NoEntry
    /\ UNCHANGED swVars

Device == HwHandOver \/ \E v \in Verdicts : HwWriteBody(v)

Next == Poll \/ Device

Spec == Init /\ [][Next]_vars

------------------------------------------------------------------------------
(***************************************************************************)
(* Properties.                                                             *)
(***************************************************************************)

\* A poll that returns STATUS_OK for consumer index k has seen the k-th
\* completion, whole and successful: never a stale entry of the pass before, a
\* half-written one, an entry already overwritten, or a failed one.
OkIsGenuine ==
    last.status = "ok" => last.body = [num |-> last.at, verdict |-> "req"]

\* From the second pass over the ring on, an error report is as trustworthy: it
\* is the failed completion of that number.
ErrorIsGenuine ==
    last.status = "error" /\ last.at >= CqeCnt
        => last.body = [num |-> last.at, verdict |-> "err"]

\* The poller runs ahead of the device only while it walks the ring for the
\* first time, and so by at most one ring.
AheadOnlyInFirstPass == ci <= hwPi \/ ci <= CqeCnt

\* Every completion handed over and not yet consumed is still in its slot,
\* entry and body: the doorbell record keeps the device from overwriting it.
UnreadIntact ==
    \A n \in ci .. hwPi - 1 :
        LET e == cqe[HwSlot(n)]
        IN  /\ e.body.num = n
            /\ e.op = e.body.verdict
            /\ e.owner = HwOwner(n)

\* The comments and the test's loop take a poll of an empty queue to be
\* harmless: it finds no CQE and the caller polls again.  The poller then never
\* runs ahead of the device.
NeverAheadOfDevice == ci <= hwPi
==============================================================================
