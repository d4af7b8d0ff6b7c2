# Verification of rdma_helpers

TLA+ models of `rdma_helpers`, a C++ library that drives an mlx5 network adapter
from user space through DEVX: it creates queue pairs and completion queues in
its own memory, writes work requests into a ring, rings the device's doorbell
and polls completions, without the verbs library between.  Modelled are that
data path, waiting for events, the layout of its memory, the commands exchanged
with the device bit by bit, how its resources are acquired, owned and given
back, and the profiler.  TLC checks the models on small instances; TLAPS proves every
invariant that the passing runs check, for all sizes.

## 1. Inventory

| component | source | state | operations | what is hard |
|---|---|---|---|---|
| completion queue | `rdma_objects.cpp` 746-997 (`completion_queue_devx`) | ring of CQEs and doorbell record in user memory, `_consumer_index`, `_arm_sn`, `_cq_hw_params` | `initialize`, `poll_cq`, `arm_cq`, `cq_event`, `destroy` | the device writes the ring while it is polled; ownership is one parity bit; the consumer index is published modulo 2^24 |
| send queue | `rdma_objects.cpp` 999-1129, 1275-1417 (`queue_pair`), `common/mmio.h` | ring of WQEs and doorbell record in user memory, `_sq_pi`, `_sq_size`, `_bf_offset` | `initialize`, `post_rdma_write`, `post_rdma_read`, `post_send_msg`, `post_send_imm`, `post_rdma_write_imm` (all `post_wqe`), `post_send` | three stores the device may see late; a 16-bit index; no check for a full ring; the doorbell register alternates |
| memory layout | `rdma_objects.h` 463-527, `rdma_common.h` 40-44, 244-247, `connection.h` 47-55 | none | `calc_qp_umem_layout`, `max_inline_from_wqesz`, `align16/64`, `ilog2` | three independent computations of where the send ring is |
| queue pair connection | `rdma_objects.cpp` 1131-1271, 1419-1491 | device state of the QP, `_ah` | `reset_to_init`, `init_to_rtr`, `create_ah`, `rtr_to_rts`, `query_qp_counters`, `get_qp_state` | order of transitions on two peers; a failed step tried again; parameters that must arrive in the right bits |
| resource objects | `rdma_objects.cpp` 13-744, `rdma_objects.h` 94-607 | handle per object, `_initialized` | `initialize`, `destroy` of device, protection domain, user memory, UAR, memory key, memory region | failure of one step of several; initialising twice |
| `auto_ref` | `common/auto_ref.h` | pointer, and whether it owns | construct, copy, move, assign, `reset`, `release`, `swap`, `clone` | who deletes what, in any order of operations; copies of an object that owns a raw handle |
| connector endpoint | `rdma_connector/connection.h`, `connection.cpp` | raw pointers to the resources, status | `create_resources`, `rdma_ep::initialize`, `destroy` | ownership and order of destruction |
| profiler | `rdma_profiler/*.h` | timestamps per queue pair and request | four stamps, analysis, `reset` | stages stamped by two threads and the device in any order, request ids used again |
| `qp_debug_lib.cpp` | | none | queries and prints a QP | the place of each field |
| device register definitions | `rdma_objects/mlx5_ifc.h` | none | layouts of commands and contexts, vendored | hundreds of fields, each a width and a place |
| `build/` | | | generated | |

How they interact.  The caller owns a `user_memory` for the rings and one for
the doorbell record and hands them, with a `uar`, to `queue_pair::initialize`,
which keeps pointers to them.  The completion queue creates its own.  Posting
writes the WQE, the doorbell record and the UAR register, in this order; the
device reads the record when it gets a doorbell, executes WQEs, and writes a CQE
for each, because every WQE is built with `MLX5_WQE_CTRL_CQ_UPDATE`.  Polling
reads the CQE and writes the consumer index back.  Instead of
polling, a caller may arm the queue and sleep until the device sends an event,
which it counts with `cq_event`.  The data path has no threads, locks or
callbacks: what runs concurrently is the device.  The profiler is made to be
called from several threads; its singleton has a mutex, `rdma_profiler` none.

What makes each component correct:

* completion queue - a poll reports a completion exactly when the device has
  written it, whole, in order, once; the device never overwrites one not yet
  consumed; nothing handed over is left unconsumed.
* events - whoever sleeps while a completion is waiting is woken.
* send queue - the device never executes a WQE that is not written or already
  overwritten; it executes them in order; a posted WQE is executed.
* data path - neither queue overflows; a request is reported once, after it is
  executed.
* layout - all parties agree on the place of every WQE, inside the memory.
* connection - nobody posts before both sides are ready to send; the path of a
  queue pair leads to its peer, and what the caller asked for holds in the device.
* commands and WQEs - host and device mean the same objects, sizes, keys and
  addresses; a query tells what the device has.
* profiler - the stamps of a request are of one round and in order.
* resources, endpoint - what is acquired is given back, once, in an order the
  device accepts, whichever call fails; kept pointers point to what is there.
* `auto_ref` - every heap object has exactly one party that will delete it.

The hazards, line by line, are in `PROJECT.json`.

## 2. Modules

| module | role |
|---|---|
| `CompletionQueue` | `poll_cq` and the device on one ring |
| `CompletionQueueProofs` | its theorems |
| `CqNotify` | `arm_cq`, `cq_event`, a caller that waits and the device's side of events, on top of `CompletionQueue` |
| `SendQueue` | `post_wqe`/`post_send`, store buffer, device |
| `WorkRequests` | abstract: what posting and polling promise together |
| `DataPath` | `CompletionQueue` and `SendQueue` composed; implements `WorkRequests` |
| `QueueProofs` | theorems of `CqNotify`, `SendQueue` and `DataPath`, on top of those of `CompletionQueue` |
| `QpLayout` | sizes and offsets, and the slots written |
| `QpLayoutProofs` | its theorems |
| `Arithmetic` | lemmas shared by the proofs: `%` and `\div`, induction, powers of two, sums over finite sets |
| `Resources` | the resource objects, a program that makes and connects them, any call failing |
| `Endpoint` | `rdma_ep` and `create_resources`, on top of `Resources` |
| `ResourcesProofs` | theorems of `Resources` and `Endpoint` |
| `DevxLayouts` | the structures of `mlx5_ifc.h` in use, and the macros that set and get their fields |
| `DevxCommands` | the commands, WQEs and queries of `rdma_objects.cpp`, two queue pairs connected to each other |
| `DevxCommandsProofs` | theorems of `DevxLayouts` and `DevxCommands` |
| `Profiler` | `rdma_profiler` and its singleton between two threads and the device |
| `ProfilerProofs` | its theorems |
| `AutoRef` | the owning pointer of `auto_ref.h` |
| `AutoRefProofs` | its theorems |
| `MC*` | instances for TLC |

Operators whose comment says "Fault" are mutations of the definition after
them.  No specification uses them; each stands for a plausible mistake, and
putting it in place of the definition makes TLC refute the property listed with
it under `mutants` in `PROJECT.json`.

### CompletionQueue

| model | code |
|---|---|
| `cqe[s]` (`op`, `owner`, `body`) | entry `s` of `_umem`: the two halves of `op_own`, and the rest |
| `ci`, `dbrCi` | `_consumer_index`, `_umem_db[0]` |
| `pc`, `seenOwner`, `seenOp` | position and local variables of `poll_cq` |
| `last` | what the last poll to return saw: not in the code, for the properties |
| `hwPi`, `dma` | the device: entries handed over, entry being written |
| `CqeCnt`, `PollCnt` | ring as created, and `1 << _cq_hw_params.log_cq_size` as polled |

`poll_cq` is three steps: it loads the owner bit (`PollOwner`), loads the byte
again for the opcode (`PollOpcode`; the helpers `mlx5dv_get_cqe_owner` and
`mlx5dv_get_cqe_opcode` are separate loads, and no optimisation level is set in
the build files), then takes one of three branches.  `body` is abstracted to
the number of the completion it belongs to and how it ended.  The device
(external) writes the body first and `op_own` last, and only if the published
index leaves room, which it computes modulo `CiWrap`.  A published index ahead
of the device counts as room.

### CqNotify

| model | code |
|---|---|
| `armSn`, `dbrArm` | `_arm_sn & 3`, `_umem_db[MLX5_CQ_ARM_DB]` |
| `heard` | whether the device has taken a request yet: not in the code, for the properties |
| `caller`, `kind` | where a caller is that polls all the time, or arms, polls until a poll is not `STATUS_OK`, and sleeps |
| `hwArmed`, `hwSn`, `event` | the device (external): the event it owes, the request it waits for, the event under way |

`arm_cq` is two steps, the store into the doorbell record and the store into the
register; the fence after the second makes the device's answer part of it.  The
device ignores a request whose number it has answered, answers at once if there
is a completion from the index of the request on, else arms.  `_arm_sn` is not
initialised by any constructor; `InitialArmSn` is what its two low bits may be,
all four values in the runs, any set of them in the proof.  With any but the one
the device waits for, every request is ignored, and the number stays what it is,
since only an event makes the caller count.  `heard` records
that the device has taken a request of this queue, for the properties: a caller
it has never heard is `Deaf` and gets no event at all; all others are woken.
`NoLostWakeup` says both.  A
solicited request (`Solicited`) is answered by error completions only, because
`post_wqe` never sets the solicited bit; the runs and `NoWakeupIsLost` are about
the default, unsolicited.  `poll_cq` returns `STATUS_ERR` both for an error
completion and for an empty queue, and the caller cannot tell.

### SendQueue

| model | code |
|---|---|
| `sqPi`, `posted` | `_sq_pi`, and the same unbounded |
| `bfOffset` | `_bf_offset`, in pages |
| `sqPc` | where `post_wqe`/`post_send` is, between its barriers |
| `pend` | stores not yet visible: epochs, separated by barriers |
| `sq`, `dbrec` | `_umem_sq` from `_sq_buf_offset` on, `_umem_db[MLX5_SND_DBR]`, as the device sees them |
| `bell`, `hwLimit`, `hwExec`, `fetched` | the device |
| `reaped`, `Window` | the caller: completions seen, and the limit it keeps |

The stores of one epoch become visible in any order.  This is weaker than x86,
where ordinary stores stay in order anyway, and close to the AArch64 build, for
which `mmio.h` has real barriers; the properties then hold for both.  A doorbell
stored outside the page `mlx5dv_devx_alloc_uar` maps is lost in the model; in
reality it may also end the process.  The test for alignment in `post_send`
never fails, since rings are page aligned and slots are 64 bytes
(`LayoutTypeOK` includes it), so it has no action.

### DataPath

The two modules share nothing but the device and the caller.  `PollReap` is the
`PollOk` of `CompletionQueue` that also returns a request to the caller;
`Complete` is the `HwWriteBody` that needs an executed WQE.  After a failed WQE
every later one fails, as a queue pair in error flushes its ring.  All other
actions are those of one module with the other unchanged.

The refinement mapping is in `DataPath!Requests`.  A request is *submitted* when
its index has been stored into the doorbell record, before its own doorbell: an
earlier doorbell can make the device read it.

### QpLayout

The connector sizes `umem` from `max_recv_wr` and `max_send_wr`
(`maxRecv`, `maxSend`); `queue_pair::initialize` lays out `sqOffset` and `sqSize`
from `rq_size` and `sq_size` (`rq`, `sq`), which nobody derives from the former.
The four numbers are independent in `Requests`, as are the memory and the rings of a
caller like `test.cpp` in `Setups`.  `asked` and `sizedFor` keep both, the latter for the
properties only.  `HwSqOffset` and `HwSqSize` are computed as the device does from
`log_rq_size` and `log_sq_size`, which `Ilog2` rounds up.  The masks of `align16/64`
are 32 bits wide while the sizes are `size_t`, and `_sq_size` has 16 bits; the model
keeps the widths as `U32` and `U16`.  A ring of no entries makes `post_wqe` divide by
zero: there is no step for that.

What holds of these numbers is conditional, and the conditions are part of the
properties: `WqeInsideUmem` is about a caller that asks for rings within those the
memory is for (`AsksWhatItSized`, `CountedBothRings`), `DeviceFindsWqe` about sizes whose
logarithm is exact, or the first lap.  `NoWriteOutside` is the former without the
condition, and violated.

### Resources

| model | code |
|---|---|
| `heap.held` | the pointers of the objects: `_context`, `_pd`, `_umem`, `_cq`, ... by object, member and name |
| `heap.needs`, `heap.live`, `heap.misused` | the verbs library: what uses what, what exists, what was used or given back wrongly |
| `qpState` | the state of the queue pair in the device |
| `Program`, `at`, `frame` | a caller such as `main()` of `test.cpp`: its calls, where it is, the locals constructed so far |
| `tries`, `RetryOps`, `Retries` | a caller that calls the same method again |

A method is an operator from a heap to the set of its outcomes: `Then` runs the
rest of it on the outcomes that succeeded, as the early returns do, so that each
call it makes may fail and leaves behind what the code leaves behind.  A step of
the program is one whole method: the objects are not shared between threads.
When the program returns, at the end or at the first failure, `Destruct` runs
the destructor of one local after the other, the last one first.
`ProgramAssumption` is what a C++ compiler demands of a program: a call names
objects declared before it or given from outside, and an object is constructed
once.

The library underneath (external) may refuse anything.  It refuses to destroy
what is in use, and since no destructor looks at the result the pointer is then
lost; `free` does not refuse.  The device takes a transition of a queue pair
only in the state it starts from.  Left out: the parameters of the commands,
host memory other than registered buffers.

### Endpoint

The program of `Resources` is `create_resources`, whose locals are `auto_ref`s;
its device belongs to the caller.  `epHolds` says which members of
`connection_resources` are set.  `EpDestroy` through a pointer to a deleted
object is undefined: it does nothing, as the destructor cleared the members, or
it ends the process.  Id, address, port and `set_status` are left out.

### DevxLayouts and DevxCommands

A structure is written down as in the header, as a sequence of fields and their
widths, with a gap for what the program never touches; offsets are computed from
it, as `__devx_bit_off` does.  A buffer is the set of its bits that are 1.
`DevxSet` masks a value to the width of its field; the remaining bits of the
field are zero, which is so as long as no field is set twice.

| model | code |
|---|---|
| `page`, `caps` | the device's capabilities, `_hca_cap` |
| `cqctx`, `mkctx`, `qpctx` | the contexts the device keeps of the completion queue, the key, the queue pairs |
| `cq`, `mr`, `sqSize` | entries and bytes the ring's memory was allocated for; `_lkey`, `_rkey`, `_addr`, `_length`; `_sq_size` |
| `returned` | the caller's `cq_hw_params`, which `initialize` gets by reference and changes |
| `cqHwParams` | `_cq_hw_params`, which only `set_cq_hw_params` changes and `poll_cq` goes by |
| `asked` | the parameters of the calls that succeeded: not in the code, for the properties |
| `slot`, `request` | the WQE last written and what the caller asked for with it |

A completion queue has three sizes: what the memory is for (`cq`), what the device
fills (`CreatedEntries`), and what is polled (`PolledEntries`).  The first two are the same
by `initialize`; the third follows a member `initialize` does not set.  A caller may call
`set_cq_hw_params` with any parameters at any time, or with what `initialize` has
returned.

`CapsFrom` is one comprehension over the names of the 48 members that
`query_hca_capabilities` assigns (`rdma_objects.cpp` 67-115, one of them twice).  Each
assignment there has the same name on both sides, which was compared line by line
and which the model cannot show.

Every method builds its command as the code does; the device (external) finds
the context in it by the opcode, takes the fields this step of a connection may
change (`TakenBy`), and keeps the others.  It refuses a step in the wrong state;
any other refusal leaves everything as it was, and what the method then leaks is
the matter of `Resources`.  `init_to_rtr` has its three forms: Ethernet, where
hardware address and GID are copied from the address vector over two fields at
once; InfiniBand; and InfiniBand with a global route.  WQEs are sequences of
segments which hold numbers: the byte order of host and device cancel out.
Numbers have `NumberBits` digits: 30 in the run, which is what TLC can count
with, so that `addr`, GIDs and hardware addresses are small numbers in wide
fields there; any number of them from 16 on in the theorems.  `qp_debug_lib` is `Printed` and `PrintedIp`,
compared with the context it queried.

### Profiler

`mTimestamps` is `m_timestamps`; `postStamps`, `doorbellStamps` and `cqeStamps`
are the three maps of the singleton.  `operator[]` makes what is missing, also in
`analyze_latency`, which anyone may ask of any id at any time: `invented` are the
requests it was asked of before there was a record of them.  A posting thread stamps, posts, stamps; the device writes
the CQE when it likes, once the doorbell is rung; a polling thread stamps the
time of the CQE and that of the poll.  A request id is used again when its
request is polled and its poster done with it.  One call is one step: this is
the mutex of the singleton; `rdma_profiler` has none, and the model assumes that
its callers serialise their calls.  The average and the standard deviation are
left out, the sum and the extremes are kept.  The clock ticks with every stamp
and every CQE, four times per request; `Times` is bounded by that.

### AutoRef

`ptr` and `owns` are `m_ptr` and `m_owns`; `live` are the objects on the heap,
named by their addresses, which `new` may use again; `raw` those that `release`
or `clone` handed to the program as plain pointers.  The program wraps only
objects that exist and gives `reset` only pointers it has to delete.  What an
object holds is not modelled: copying one makes another object.

Copy assignment deletes before it allocates.  If `new` or the copy constructor throws
then (`CopyAssignThrows`), the reference still owns and points to what it has
deleted: `Dangling`.  To destroy it, to assign to it or to copy from it is undefined, and
the model has no step for that; it may be moved, swapped and released.  An
allocation that throws in the other operations changes nothing, or ends the
program, as the default constructor is `noexcept`.

## 3. Runs

| run | result | shows |
|---|---|---|
| `completion_queue` | pass | polls report genuine completions, nothing unread is overwritten, no wake-up is lost but to a caller the device has never heard, and all that is written after the first pass is consumed, by polling or by waiting |
| `cq_phantom` | violation | polling an empty fresh queue consumes entries nobody wrote |
| `sq_uar_page` | violation | every other doorbell goes outside the UAR page |
| `data_path` | pass | the device executes exactly what was posted, in order; at most the last WQE waits for a doorbell; no overflow of either queue; refinement of `WorkRequests`, with its liveness |
| `qp_layout` | pass | with memory and rings sized apart: every WQE in memory if the rings asked for are within those it is for, and where the device looks for it |
| `layout_test_caller` | violation | the queue pair of `test.cpp:104` writes its 32nd WQE beyond the memory |
| `resources` | pass | whichever call of the test's `main` fails, nothing is misused, nothing stays behind, and nobody posts unconnected |
| `endpoint` | pass | whichever call of `create_resources` fails, nothing stays behind and the endpoint stays empty |
| `endpoint_dangling` | violation | after success every pointer of the endpoint dangles |
| `auto_ref` | pass | one owner for every object, in every order of operations, after an assignment that threw as well |
| `device_commands` | pass | keys, paths and parameters are the same for host and device; WQEs and queries say what was asked and what is; queues are no larger than the device has, and the rings of memory, device and polling are the same exactly if the caller sees to it |
| `profiler` | pass | finished samples are of one round and in order; the statistics count each id once that was used or analysed, and fit their samples |

Bounds and why they are enough:

* `completion_queue`: a ring of 4, 11 completions: every slot is used in three
  passes, so each parity follows the other in both directions, and the index
  wraps at 9.  9 is the smallest `CiWrap` above two rings; 2^24 is proved.
  `SnWrap` is that of the code, 4, and wraps; `_arm_sn` starts with each of the four.
  One caller polls all the time,
  another waits: the first reaches every interleaving of polling with the
  device, the second those of arming and sleeping.
* `data_path`: rings of 2, 9 posts: each ring is passed over four times, the
  producer index wraps twice, at 4, and the consumer index once, at 5.  `Window`
  is the size of the ring, the most the caller may use, so a full ring and the
  reuse of a slot just freed occur.  Larger rings make the liveness
  check take too long; the safety properties are proved for every ring.
* `sq_uar_page`: the send queue alone, a ring of 4.
* `qp_layout`: the connector's memory for up to 4 receive and 8 send WQEs of 1 to 7
  SGEs, so that a WQE takes one or two blocks and both branches of `WqeBytes` occur;
  rings of up to 4 and 8 asked for independently of it, among them 0 and 3; direct
  callers with the memory and rings of `test.cpp`, and others with more and with less
  memory than they need; 64 and 65 WQEs, which the 16 bits of `_sq_size`, 6 in the run,
  do not hold.  Two laps around each ring.
* `resources`: every class of object at least once, two of most, every call
  failing at every place; `Retries` is 2, so that a retry meets what a retry
  left.
* `endpoint`: `MaxInits` is 2, so that a second `initialize` meets what the
  first left, well or not.
* `auto_ref`: three references and four addresses on the heap, one local
  object: a third party for every operation on two, and always an address left
  for `new`, used before or not.

* `device_commands`: two sets of parameters for every call, one small and one
  close to the largest the fields hold, both link layers, and two devices, one
  with every capability at its maximum and one with small values that differ from
  field to field; each queue pair posts one WQE, of any of the five kinds.  The
  code treats each parameter by itself, so two values of each show an overlap or
  a cut.
  For the sizes of the queues there are a third device, without room for 2^9
  entries, completion queues of size 0 (defaulted, of 128-byte entries), 4 and 12 (too
  large for one device), `set_cq_hw_params` with each of these and with what
  `initialize` left, and send queues of 0, 24 and 65536 entries, of which `_sq_size` cannot
  tell the first and the last apart.  The constraint `SizesBeforeConnections` of the
  run has all of them only until something is connected or registered: no
  command that follows reads these sizes.
* `profiler`: three requests with two ids, so that one id at least is used
  again while the other request is anywhere on its way.

`device_commands` leaves out, by `CommandAssumption`, `ConnAssumption` and
`PortAssumption`, parameters of a connection, numbers and addresses that the code does
not check and a field cannot hold (section 4).  They assume nothing of the size of
completion entries or of what the device allows, and of `sq_size` only that it is a
number up to 2^30.  `resources` and `endpoint` have
`ConvertFails = FALSE`: a protection domain whose conversion fails is lost
(section 4), which would hide everything else.  `resources` calls only seven methods again: any of the
other four alone (`rdma_device`, `completion_queue_devx` and
`memory_region::initialize`, `init_to_rtr`) loses what its first attempt
acquired, and `AllReleased` fails.

`CHECK_DEADLOCK FALSE` in the configurations of `SendQueue`, `QpLayout`,
`Resources`, `Endpoint` and `DevxCommands`: there the caller has made its last
post or call, and the system stops.  In `MCCompletionQueue.cfg` it is there
because a waiting caller sleeps for good when all completions are written and
consumed; that it does not sleep over one is `NoLostWakeup`.  The other configurations check for deadlock.

### Fairness

* polling goes on (`WF` of `PollInLoop`, and of `Poll` in `DataPath`): the test
  polls in a loop, and so must every user of a queue without events;
* a caller that waits arms when it is woken and does not stop half-way (`WF` of
  `ArmRecord`, `ArmDoorbell`, `Wake`);
* the device finishes an entry it has begun, serves a doorbell, executes what
  the record covers; in `DataPath` it also writes a completion for each executed
  WQE.  This is the contract of the hardware;
* a store leaves the store buffer eventually, and a post once begun returns: it
  has no loop.

Nothing obliges the caller to post, nor, in `CqNotify`, the device to
produce completions.

## 4. What the runs found

1. **Phantom completions.**  `initialize_cq_resources` fills the ring with
   owner bit 0 and opcode `MLX5_CQE_INVALID`; in the first pass `poll_cq`
   expects owner bit 0 and takes every opcode but 0 for an error.  A poll of an
   empty fresh queue therefore consumes an entry, publishes the index, and the
   completion written there later is never reported (`cq_phantom`).  The damage is limited to the first pass: this is
   `AheadOnlyInFirstPass`, which is proved.
2. **Every other doorbell is lost.**  `_bf_offset` toggles by a page, beyond the
   single page of the UAR (`sq_uar_page`).  A later post makes up for it, so
   only the last WQE can be stranded (`OnlyLastPostCanStrand`).
3. **The endpoint's pointers dangle.**  `create_resources` keeps `get()` of its
   local `auto_ref`s, which delete the objects when it returns
   (`endpoint_dangling`).
4. **The test's send queue is larger than its memory.**  `test.cpp` takes all
   2048 bytes for the send ring although the first 64 are the receive ring's: its
   32nd WQE would be beyond them (`layout_test_caller`).

Not runs of their own, but said by the properties of the passing runs:

* **Arming may be in vain.**  No constructor sets `_arm_sn`.  Unless its two low bits
  happen to be those the device waits for, a caller that arms the queue and
  sleeps gets no event, ever: `NoLostWakeup` holds with an event on its way exactly if the
  caller is not `Deaf`.
* **Two ring sizes.**  `initialize` does not store its parameter in `_cq_hw_params`, so
  `poll_cq` walks 512 entries whatever was created, unless the caller passes the
  parameters to `set_cq_hw_params` too.  A smaller ring is then polled beyond its
  memory, a larger one only in part.  `RingsAgree` says that the rings are the same if
  and only if the sizes are; what holds of a queue in use is proved for `SameRing`.
* **Entries of 128 bytes.**  The memory of a completion queue is for entries of 64 bytes;
  the declared default of `cqe_sz`, 1, means 128.  `RingsAgree` says that the entries fit
  if and only if the caller asked for 64 bytes, as `test.cpp` does.
* **No room for the default.**  A size the device does not have is replaced by 2^9
  entries, also on a device that has no room for these (`NeverAsksTooMuch`).
* **A state without a queue pair.**  `get_qp_state` then returns `STATUS_ERR`, which is 1,
  the number of INIT (`QueriesTellTheTruth`).
* **Invented samples.**  `analyze_latency` looks a request up with `operator[]`: to ask for
  one never recorded makes a record of zeros, which `analyze_qp_stats` counts from then
  on.  `StatsAtRest` counts them, and says that the minimum is then zero.
* **Sizes nobody relates.**  `create_resources` sizes the memory from `max_recv_wr` and
  `max_send_wr` and hands over `rq_size` and `sq_size` as the caller left them.
  `WqeInsideUmem` needs the latter to be within the former.
* **Assignment of a copy that throws.**  The reference keeps a pointer to what it has
  deleted; `SoleOwner` and `NothingLost` hold of everything else.

Seen on the way, and excluded by an assumption rather than shown by a run:

* `post_send` has no limit, `_sq_ci` is never used.  `Window` stands for a
  caller that counts.  Counting `STATUS_OK` polls is safe (`CreditIsEarned`,
  `NoCqOverrun`), in spite of finding 1.
* Four methods cannot be called again after they failed (above).
* The address handle of a queue pair is made from the protection domain given to
  `init_to_rtr` and destroyed with the queue pair.  A caller that declares this
  domain after the queue pair destroys the domain first, which is refused, and
  loses it; a second `init_to_rtr` on a queue pair, for instance after
  `reset_to_init`, loses the first handle.  Neither is checked; the proof of
  `NeverMisused` cannot do without excluding both (`Disciplined`).
* A protection domain is lost when `mlx5dv_init_obj` fails: `_pd` is set to
  `nullptr` without `ibv_dealloc_pd`.  With `ConvertFails = TRUE`, `AllReleased`
  is refuted.
* A solicited request is not answered by successful completions (`CqNotify`).
* `destroy` keeps `_consumer_index`, so a
  queue initialised again would start in the middle of a fresh ring; nothing in
  the repository does it, and every model starts a queue once.
* Parameters that do not fit their field are cut without an error:
  `retry_count`, `rnr_retry`, the service level on Ethernet and
  `max_rd_atomic` (three bits; it is written to `log_rra_max` as it is, without
  a logarithm).  `sq_size` above 2^15 is cut too (four bits for its logarithm, 16 for
  `_sq_size`): this is in the model, and `RingsAgree` is about the sizes below.
* `min_rnr_to` and `cq_max_count` are never written to the device, and the
  timestamp format of a queue pair is set to 0, which `mlx5_ifc.h` names free
  running where the code says default.
* `queue_pair::get` returns `nullptr`, so that `debug_print_ibv_qp` cannot be
  used on a queue pair of the library.
* `doorbell_to_cqe` of the profiler may be negative: the device can be faster
  than the poster's second stamp.

## 5. Proofs

`CompletionQueueProofs` assumes `CqAssumption` (a published index more than two
rings wide) and, for all but types, `SameRing`: `poll_cq` walks the ring that
was created, which is not a matter of course (section 4).

* `TypeCorrect`: `TypeOK` needs one more conjunct to be inductive, `DmaInv`: an
  entry being written belongs to completion `hwPi`, which is below the bound.
* `OkPollsAreGenuine`, `ErrorPollsAreGenuine`, `AheadIsBounded`, `NoOverwrite`
  all follow from one invariant, `IInv`.  None of them is inductive: that a poll
  reports the right body depends on what the owner bit it loaded a step earlier
  meant.  `IInv` says that
  - the ring holds the last `CqeCnt` completions, each with the owner bit of its
    pass, except that the slot being written has already lost its old body, and
    the slots never written are invalid with owner bit 0 (`RingInv`);
  - the device is at most a ring ahead of the consumer, strictly less while it
    is writing, and behind it only in the first pass (`IndexInv`);
  - a matching owner bit in `seenOwner` means that completion `ci` is there or
    that the first pass is not over, and a verdict in `seenOp` is that of
    completion `ci`; both survive whatever the device does before the poll
    decides (`PollInv`).

  The argument is arithmetic of rings: two completions less than a ring apart
  have different slots (`SlotsApart`), a ring apart they have the same slot and
  opposite owner bits (`OwnerFlips`), and a distance below `CiWrap` survives
  publication modulo `CiWrap` (`FullRing`).

`QueueProofs` carries this over to a caller that waits.

* `WaitersUseTheRing`: every step of `CqNotify` is a step of `CompletionQueue`
  or leaves it alone, so `NotifySpec` implies `Spec` and all theorems above hold.
* `NotifyTypeCorrect`: the type invariant, from `TypeCorrect` and the new part.
* `NoWakeupIsLost` assumes also `Unsolicited` requests, and nothing of what `_arm_sn`
  holds at first.  `NoLostWakeup` alone is not inductive, as it speaks only of
  a caller asleep.  `NInv` has two cases.  Either host and device are `InStep`: an
  armed device has nothing unconsumed (`ArmedMeansConsumed`), so the next completion
  is the one that fires, and after the doorbell either the device is armed or an
  event is under way, with the sequence numbers of both agreeing (`AnswerInv`).  Or
  they are `OutOfStep` from the start: the device has heard nothing, owes nothing, and
  since only an event makes the caller count, this never ends (`UnheardStaysSo`).

Then it turns to the send queue, and to both queues together.  The send queue
needs `RingFits`: host and device walk the same ring, the width of the
index is a multiple of it (2^16, and rings of powers of two), and the caller
leaves no more WQEs outstanding than the ring has.

* `SqTypesHold`, `RecordsCoverWrittenWqes`, `ExecutesInOrder` follow from `SqInv`.
  The stores of all posts form one sequence: WQE 0, record 1, doorbell 0, WQE 1,
  record 2, doorbell 1, ...  `SqInv` says that
  - a contiguous piece of it waits in the store buffer, one store per epoch, since
    the barriers of `post_send` separate them (`PendInv`);
  - what is before that piece has reached the device: the record holds the number
    of its last record, and the last `SqSize` WQEs of it are in the ring (`MemInv`);
  - the limit of the device, known to it only modulo `PiWrap`, is an index the
    record has had since the last WQE was executed (`DevInv`), so the device, which
    compares wrapped numbers, never runs past the record.

  The invariant is indispensable: that the record covers only written WQEs is
  a fact about stores that have drained, and is preserved only because those still
  waiting are in order.
* `PollersUseTheRing`: every step of `DataPath` is a step of `CompletionQueue` or
  leaves it alone.  `DataPath` has its own guard on the device, so this is a
  refinement; with it everything above about polling holds for a queue in use.
* `SendQueueInUse`, `DpTypesHold`, `CreditsAreEarned` need both hypotheses,
  `QueuesFit`.  `DpInv` joins the invariants of the two queues with `CreditInv`:
  each reported completion is below the consumer index and below what the device
  has handed over, which is at most what it has executed; so counting them gives
  no more credit than the device has earned.
* `CompletionsFit` needs also `CqHoldsWindow`: a completion queue with an entry for
  every request left outstanding.
* `RequestsKept`: the safety part of the refinement of `WorkRequests`, step by step,
  under `DpInv`.

`QpLayoutProofs` assumes `Sized`: no size reaches the 32-bit masks.  Of how the memory
and the rings are related it assumes nothing; that is a condition in the properties.

* `WritesStayInUmem`, `LayoutTypesHold`: `RoomInv` adds that the whole ring fits the
  memory if the caller asks for what the memory is for, and that the last write was in
  the ring.
* `InlineReservationHoldsSges`: `36 + inline` rounded up to 64 is never less
  than `32 + 16 * sge`, since no multiple of 64 lies between them.
* `DeviceFindsEveryWqe`: for sizes that are powers of two `LogIsExact` shows that the
  device makes the same sizes of their logarithms, since no power of two lies
  between one and the next.  `PlaceInv` relates the last write to the index before
  the present one; on the first lap neither ring has wrapped, and the send ring
  may have any size.

`ProfilerProofs` assumes nothing but a natural number of requests.

* `ProfTypesHold`, `FinishedOrdered`, `SingletonInOrder` follow from `ProfInv`.
  `FinishedSamplesOrdered` speaks only of finished requests; `ProfInv` says for
  every stage of a request which of its stamps are of the present round and in
  which order, those not yet made being free to be of the last round (`RoundInv`),
  that what `reset` has left in the maps of the singleton equals the stamps of
  `m_timestamps` (`SingletonInv`), where the threads are when a request is at a
  stage (`StageInv`), and that the ticks made and those still owed are four per
  request posted (`ClockInv`).
* `StatsHold` is about what `analyze_latency` makes of the samples: a minimum, a
  maximum and a sum.  `SampleInv` says that a record exists only of requests that were
  posted or analysed, that it is all zeros if the request was never posted, and that
  there are finitely many of them.  A finite set that is not empty has a
  least and a greatest number, and a sum over it is bounded by them
  (`SumsBetween`): both are inductions over the size of the set.

`DevxCommandsProofs` is about two queue pairs connected to each other, for any
parameters that fit the fields they are written to (`CommandAssumption`,
`ConnAssumption`, `PortAssumption`, section 4) and numbers of at least 16 digits.
`LayoutAssumption`, `CommandLayoutAssumption` and `ContextAssumption` say what the
tables of fields are, how wide and where; they have no parameter, so TLC decides
them when it evaluates them.

* `FieldsApart`: the fields of a layout never overlap, whatever their number and
  widths; offsets are sums over a sequence, and the proof an induction along it.
* `GetOfSet`: what `DEVX_GET` reads from a field is what `DEVX_SET` put there, cut to
  the width of the field, whatever the other bits of the buffer are.  A value is the
  sum of the weights of its digits, by induction on the number of digits.
* `CmdInductive` establishes the invariant `CmdInv`, from which the others follow.  None of
  the properties is inductive: they speak of values read from a context, and whether
  a read survives a later step depends on which bits that step replaces.  `CmdInv`
  therefore says, bit by bit, that the context of a queue pair agrees with what each
  successful call wrote, field by field (`Kept`, and `PathKept` for the addresses
  copied over two fields at once), that the calls that succeeded are those up to the
  state in the context (`CallsUpTo`), and what completion queue, key and WQE were
  made from.  A step then needs that the fields it takes over (`TakenBy`) are apart
  from those of the steps before, which is `FieldsApart`, and that the command
  carries them unchanged to the place where the device looks (`InitRead`, `RtrRead`,
  `RtsRead`).  TLC checked `CmdInv` as an invariant of `MCDevxCommands` first.
* `CmdTypes`, `CapsReported`, `NeverTooMuch`, `DeviceKeeps`, `PathsLead`, `SameRings`,
  `WqesSay`, `KeysOpen`, `QueriesReport`: one for each invariant of the run
  `device_commands`, read off `CmdInv` with `GetOfSet`.  They assume nothing of
  `log_max_cq_sz`, nor that a completion queue has entries of 64 bytes or that its size
  is ever stored: where that matters it is in the property.  `SameRings` needs `SetInv`
  besides, that the size `poll_cq` goes by is a number, since two powers of two are the
  same only if their exponents are (`WeightOnce`).

These proofs use induction over data.  The induction theorems of the library take
an operator and cannot be used here; `Arithmetic` has the principle for sets
instead (`Induction`: a set that holds 0 and with each number the next holds all
numbers), from the least number that is not in the set.

`ResourcesProofs` is about programs of any length on any number of objects, and
about their callers.  All but the theorems on posting and on a failed endpoint
assume a `Disciplined` program: conversions do not fail, only the methods that
lose nothing are tried again, `init_to_rtr` is called once on a queue pair and
its protection domain was made before the queue pair (section 4).

* `NeverMisused` and `ReturnsWithNothing` follow from `ResInv`.  Neither property
  is inductive: whether a destructor may run depends on what everything still
  alive was made from.  `ResInv` orders the slots (`Under`): an object made later
  lies above one made earlier, and inside an object a handle lies above the
  memory it was made from.  It says that
  - every live resource is held by exactly one slot, and uses only what is held
    under that slot (`HeapOK`);
  - the frame holds the locals in the order of the program (`FrameInv`), and only
    they and the devices given from outside hold anything (`HoldInv`);
  - while the program runs, each call before the present one has made its object,
    and an object whose call failed and is tried again is empty (`RunningInv`).

  Destructors run from the top, so what one gives back has nothing above it and is
  not in use; when the frame is empty, only what came from outside is left.  Each
  method has a lemma of its own: whichever of its calls fails, it leaves `HeapOK`,
  and its object made or empty.
* `ResTypesHold`: the types, among them that a slot holds a number that was handed out.
* `PostsAreOnConnected` assumes `ConnectsFirst`: before a post, the last transition
  asked of each queue pair is the one to ready-to-send.  `StateInv` says that each
  such queue pair is in that state while the program is there.
* `EndpointReleasesAll`: the same for `rdma_ep`, however often `initialize` is called
  and fails.
* `FailureLeavesNothingToDestroy` assumes only that `create_resources` makes
  something at all (`MakesSomething`).  `EpInv` ties the pointers of a disconnected
  endpoint to a local that has not been destroyed yet.

The instances TLC checks satisfy these hypotheses: the program of `test.cpp` is
`Disciplined` and `ConnectsFirst`, that of `create_resources` is `Disciplined`, the rings
of the other runs are `RingFits`, `SameRing`, `CqHoldsWindow`, `Sized`, `Unsolicited`.

`AutoRefProofs` assumes only that heap, locals, null and the dangling pointer are
apart.

* `RefTypesHold`, `OwnersAreUnique`, `ObjectsAreOwned`, for any number of
  references and addresses.  The three properties are inductive together, with
  `Unmade`: what is not constructed owns nothing.  Without it a constructor
  would forget an object; without `NothingLost` a fresh address could be one
  that is still owned.

Only model-checked:

* all liveness: `LaterPassConsumed`, `OnlyLastPostCanStrand`, and the liveness part
  of the refinement of `WorkRequests`.  They need fairness, which TLAPS cannot
  unfold;
* what TLC finds violated: the runs of section 4 are instances, and need no more.

## 6. Plan

Done: all modules of section 2, and a theorem for every invariant of the passing
runs.  What could follow:

1. The hazards of `PROJECT.json` that no property covers: a completion queue
   initialised a second time, methods that lose what a failed attempt acquired,
   and polling a queue in use with another ring size.  Each needs
   a decision about the code first; today it makes no promise there.
2. Resources and commands in one model: what a method leaks when the device refuses
   it is in `Resources`, what it asked for in `DevxCommands`.

### Not modelled

* The 32-bit doorbell fallback with its spinlock and `bf_copy` of `mmio.h`: the
  library never calls them.
* Structures of `mlx5_ifc.h` for commands nobody sends: four fifths of the header.
* `post_recv`, which only logs; getters.
* In `Endpoint`: id, address, port and `set_status`, plain fields.
* In `qp_debug_lib.cpp`: the names printed for numbers and the layout of the text.
* `rdma_objects/auto_ref.h`, identical to the mapped header in `common/`, and
  `rdma_objects/rdma_common.h`, an older copy that lacks some helpers.
* The build files.
