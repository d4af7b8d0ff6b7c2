------------------------------ MODULE QueueProofs ------------------------------
(***************************************************************************)
(* Theorems of the queues in use, for rings, index and sequence-number     *)
(* widths, windows and numbers of posts of every size.                     *)
(*                                                                         *)
(* First CqNotify: what is proved of poll_cq holds for a caller that waits *)
(* for events too, and no wake-up is lost.                                 *)
(*                                                                         *)
(* Then the send queue alone.  The stores of all posts form one sequence:  *)
(* WQE 0, record 1, doorbell 0, WQE 1, record 2, doorbell 1, ...  The      *)
(* barriers of post_send let a contiguous piece of it wait in the store    *)
(* buffer, one store per epoch.  What is before that piece has reached the *)
(* device, and fixes the record and the ring.                              *)
(*                                                                         *)
(* Last the send and the completion queue together: what is proved of each *)
(* alone holds, the caller's count of successful polls is a safe credit,   *)
(* and the two implement WorkRequests.                                     *)
(***************************************************************************)
EXTENDS CqNotify, DataPath, CompletionQueueProofs, FiniteSetTheorems

\* arm_cq asks for an event for every completion, as its default argument says.
Unsolicited == ~Solicited

OwnTypes ==
    /\ kind \in Callers
    /\ caller \in {"record", "doorbell", "poll", "asleep"}
    /\ armSn \in 0 .. SnWrap - 1
    /\ dbrArm \in [sn : 0 .. SnWrap - 1, ci : 0 .. CiWrap - 1, sol : BOOLEAN]
    /\ hwArmed \in BOOLEAN
    /\ hwSn \in 0 .. SnWrap - 1
    /\ event \in BOOLEAN
    /\ heard \in BOOLEAN

\* While the device is armed nothing is left to consume: what was there when it
\* was asked it answered at once, and what comes later it answers then.
ArmedMeansConsumed == hwArmed => hwPi <= ci

\* The caller's count and the device's agree when a request is made; between the
\* request and the wake-up, the device is either armed or has answered.
AnswerInv ==
    /\ kind = "polling" => caller = "poll" /\ ~hwArmed
    /\ ~dbrArm.sol
    /\ caller \in {"record", "doorbell"} => ~event /\ ~hwArmed /\ hwSn = armSn
    /\ caller = "doorbell" => dbrArm.sn = armSn /\ dbrArm.ci = DbrValue(ci)
    /\ kind = "waiting" /\ caller \in {"poll", "asleep"} =>
         \/ event /\ ~hwArmed /\ hwSn = (armSn + 1) % SnWrap
         \/ ~event /\ hwArmed /\ hwSn = armSn
    /\ event \/ hwArmed => heard

InStep == Unsolicited /\ OwnTypes /\ ArmedMeansConsumed /\ AnswerInv

\* A number that is not the device's at first never becomes it: only an event
\* makes the caller count, and only a request that is heard causes one.
OutOfStep ==
    /\ Unsolicited
    /\ OwnTypes
    /\ kind = "polling" => caller = "poll"
    /\ ~heard /\ armSn # hwSn /\ ~hwArmed /\ ~event /\ ~dbrArm.sol
    /\ caller = "doorbell" => dbrArm.sn = armSn

NInv == InStep \/ OutOfStep

--------------------------------------------------------------------------------
(***************************************************************************)
(* The ring below.                                                         *)
(***************************************************************************)

\* Every step of the composition is a step of the ring, or leaves it alone.
LEMMA StepsOfTheRing == [NotifyNext]_allVars => [Next]_vars
<1> SUFFICES ASSUME [NotifyNext]_allVars PROVE [Next]_vars
  OBVIOUS
<1>1. CASE ArmRecord \/ ArmDoorbell \/ Wake
  BY <1>1 DEF ArmRecord, ArmDoorbell, Wake
<1>2. CASE PollInLoop
  BY <1>2 DEF PollInLoop, Next
<1>3. CASE WriteBody
  BY <1>3 DEF WriteBody, Next, Device
<1>4. CASE HandOverAndNotify
  BY <1>4 DEF HandOverAndNotify, Next, Device
<1>5. CASE UNCHANGED allVars
  BY <1>5 DEF allVars
<1> QED BY <1>1, <1>2, <1>3, <1>4, <1>5 DEF NotifyNext

\* The ring keeps its specification whoever calls it, and with it what is proved
\* of poll_cq.
THEOREM WaitersUseTheRing == NotifySpec => Spec
<1>1. NotifyInit => Init
  BY DEF NotifyInit
<1> QED BY <1>1, StepsOfTheRing, PTL DEF NotifySpec, Spec

--------------------------------------------------------------------------------
(***************************************************************************)
(* Types.                                                                  *)
(***************************************************************************)

\* The sequence numbers stay below their modulus.
LEMMA NextSn ==
    ASSUME NEW n \in 0 .. SnWrap - 1
    PROVE  (n + 1) % SnWrap \in 0 .. SnWrap - 1
<1>1. SnWrap \in Nat \ {0} /\ n + 1 \in Nat
  BY NotifyAssumption
<1> QED BY <1>1, DivMod

\* No step takes a variable of the notification out of its type.
LEMMA OwnTypesKept == TypeOK /\ OwnTypes /\ [NotifyNext]_allVars => OwnTypes'
<1> SUFFICES ASSUME TypeOK, OwnTypes, [NotifyNext]_allVars PROVE OwnTypes'
  OBVIOUS
<1>1. CASE ArmRecord
  <2>1. DbrValue(ci) \in 0 .. CiWrap - 1
    BY RingTypes DEF TypeOK
  <2>2. dbrArm' \in [sn : 0 .. SnWrap - 1, ci : 0 .. CiWrap - 1, sol : BOOLEAN]
    BY <1>1, <2>1, NotifyAssumption DEF ArmRecord, ArmRequest, OwnTypes
  <2> QED BY <1>1, <2>2 DEF ArmRecord, OwnTypes
<1>2. CASE ArmDoorbell
  BY <1>2, NextSn DEF ArmDoorbell, OwnTypes
<1>3. CASE PollInLoop
  BY <1>3 DEF PollInLoop, OwnTypes
<1>4. CASE Wake
  BY <1>4, NextSn DEF Wake, CountEvent, OwnTypes
<1>5. CASE WriteBody
  BY <1>5 DEF WriteBody, notifyVars, OwnTypes
<1>6. CASE HandOverAndNotify
  BY <1>6, NextSn DEF HandOverAndNotify, OwnTypes
<1>7. CASE UNCHANGED allVars
  BY <1>7 DEF allVars, notifyVars, OwnTypes
<1> QED BY <1>1, <1>2, <1>3, <1>4, <1>5, <1>6, <1>7 DEF NotifyNext

\* They have their types at first.
LEMMA OwnTypesInit == NotifyInit => OwnTypes
<1> SUFFICES ASSUME NotifyInit PROVE OwnTypes
  OBVIOUS
<1>1. 0 \in 0 .. SnWrap - 1 /\ 0 \in 0 .. CiWrap - 1
  BY NotifyAssumption, CqAssumption
<1>2. armSn \in 0 .. SnWrap - 1
  BY NotifyAssumption DEF NotifyInit
<1> QED BY <1>1, <1>2 DEF NotifyInit, OwnTypes

\* Every variable keeps its type, those of the ring included.
THEOREM NotifyTypeCorrect == NotifySpec => []NotifyTypeOK
<1>1. NotifySpec => []TypeOK
  BY WaitersUseTheRing, TypeCorrect, PTL
<1>2. TypeOK /\ OwnTypes => NotifyTypeOK
  BY DEF NotifyTypeOK, OwnTypes
<1> QED BY <1>1, <1>2, OwnTypesInit, OwnTypesKept, PTL DEF NotifySpec

--------------------------------------------------------------------------------
(***************************************************************************)
(* No wake-up is lost.                                                     *)
(***************************************************************************)

\* A request finds what was handed over and not consumed, through the wrap of
\* the published index.
LEMMA RequestSeesUnread ==
    ASSUME TypeOK, IndexInv, ci < hwPi
    PROVE  (hwPi - DbrValue(ci)) % CiWrap \in 1 .. CqeCnt
<1>1. PICK n \in Nat : hwPi = ci + n
  BY hwPi = ci + (hwPi - ci) DEF TypeOK
<1>2. n \in 1 .. CqeCnt
  BY <1>1, CqAssumption DEF TypeOK, IndexInv
<1>3. CiWrap \in Nat \ {0} /\ n \in 0 .. CiWrap - 1
  BY <1>2, CqAssumption
<1>4. ((ci + n) - (ci % CiWrap)) % CiWrap = n
  BY <1>3, ModularDistance DEF TypeOK
<1> QED BY <1>1, <1>2, <1>4 DEF DbrValue

\* A poll never moves the consumer index back.
LEMMA PollAdvances == TypeOK /\ Poll => ci' \in Nat /\ ci' >= ci /\ hwPi' = hwPi
BY DEF TypeOK, Poll, PollOwner, PollOpcode, PollOk, PollError, PollEmpty, Consume, hwVars

\* The doorbell is where the device decides whether to answer at once.
LEMMA DoorbellKeepsStep == InStep /\ TypeOK /\ IndexInv /\ ArmDoorbell => InStep'
<1> SUFFICES ASSUME InStep, TypeOK, IndexInv, ArmDoorbell PROVE InStep'
  OBVIOUS
<1>1. /\ caller = "doorbell" /\ caller' = "poll"
      /\ dbrArm.sn = hwSn /\ hwSn = armSn /\ ~event /\ ~hwArmed /\ ~dbrArm.sol
      /\ UNCHANGED <<ci, hwPi, kind, armSn, dbrArm>>
  BY DEF ArmDoorbell, InStep, AnswerInv, vars, hwVars, swVars
<1>2. kind = "waiting"
  BY <1>1, NotifyAssumption DEF InStep, AnswerInv, OwnTypes
<1>3. OwnTypes'
  BY OwnTypesKept DEF InStep, NotifyNext
<1>4. CASE AnswersAtOnce(dbrArm)
  <2>1. event' /\ hwSn' = (hwSn + 1) % SnWrap /\ hwArmed' = hwArmed /\ heard'
    BY <1>1, <1>4 DEF ArmDoorbell
  <2> QED BY <1>1, <1>2, <1>3, <2>1 DEF InStep, Unsolicited, ArmedMeansConsumed, AnswerInv
<1>5. CASE ~AnswersAtOnce(dbrArm)
  <2>1. hwArmed' /\ hwSn' = hwSn /\ event' = event /\ heard'
    BY <1>1, <1>5 DEF ArmDoorbell
  <2>2. hwPi <= ci
    <3>1. ~((hwPi - DbrValue(ci)) % CiWrap \in 1 .. CqeCnt)
      BY <1>1, <1>5 DEF AnswersAtOnce, InStep, AnswerInv
    <3> QED BY <3>1, RequestSeesUnread DEF TypeOK
  <2> QED BY <1>1, <1>2, <1>3, <2>1, <2>2 DEF InStep, Unsolicited, ArmedMeansConsumed, AnswerInv
<1> QED BY <1>4, <1>5

\* A completion handed over while the device is armed is answered in that step.
LEMMA HandOverKeepsStep == InStep /\ TypeOK /\ HandOverAndNotify => InStep'
<1> SUFFICES ASSUME InStep, TypeOK, HandOverAndNotify PROVE InStep'
  OBVIOUS
<1>1. OwnTypes'
  BY OwnTypesKept DEF InStep, NotifyNext
<1>2. /\ event' = (event \/ hwArmed)
      /\ ~hwArmed'
      /\ hwSn' = IF hwArmed THEN (hwSn + 1) % SnWrap ELSE hwSn
      /\ UNCHANGED <<ci, kind, caller, armSn, dbrArm, heard>>
  BY DEF HandOverAndNotify, HwHandOver, swVars, InStep, AnswerInv, OwnTypes
<1>3. CASE hwArmed
  <2>1. kind = "waiting" /\ caller \in {"poll", "asleep"} /\ hwSn = armSn
    BY <1>3, NotifyAssumption DEF InStep, AnswerInv, OwnTypes
  <2> QED BY <1>1, <1>2, <1>3, <2>1 DEF InStep, Unsolicited, ArmedMeansConsumed, AnswerInv, DbrValue
<1>4. CASE ~hwArmed
  BY <1>1, <1>2, <1>4 DEF InStep, Unsolicited, ArmedMeansConsumed, AnswerInv, DbrValue
<1> QED BY <1>3, <1>4

\* The steps of the caller other than the doorbell.
LEMMA CallerKeepsStep ==
    InStep /\ TypeOK /\ (ArmRecord \/ PollInLoop \/ Wake \/ WriteBody) => InStep'
<1> SUFFICES ASSUME InStep, TypeOK, ArmRecord \/ PollInLoop \/ Wake \/ WriteBody PROVE InStep'
  OBVIOUS
<1>1. OwnTypes'
  BY OwnTypesKept DEF InStep, NotifyNext
<1>2. CASE ArmRecord
  BY <1>1, <1>2 DEF ArmRecord, ArmRequest, vars, hwVars, swVars,
     InStep, Unsolicited, ArmedMeansConsumed, AnswerInv, DbrValue
<1>3. CASE PollInLoop
  <2>1. ci' >= ci /\ hwPi' = hwPi
    BY <1>3, PollAdvances DEF PollInLoop
  <2>2. ArmedMeansConsumed'
    <3>1. ci \in Int /\ hwPi \in Int /\ ci' \in Int
      BY <1>3, PollAdvances DEF PollInLoop, TypeOK
    <3>2. hwArmed' = hwArmed /\ (hwArmed => hwPi <= ci)
      BY <1>3 DEF PollInLoop, InStep, ArmedMeansConsumed
    <3> QED BY <2>1, <3>1, <3>2 DEF ArmedMeansConsumed
  <2>3. /\ caller = "poll" /\ caller' \in {"poll", "asleep"}
        /\ kind = "polling" => caller' = "poll"
        /\ UNCHANGED <<kind, armSn, dbrArm, hwArmed, hwSn, event, heard>>
    BY <1>3 DEF PollInLoop
  <2> QED BY <1>1, <2>2, <2>3 DEF InStep, Unsolicited, AnswerInv
<1>4. CASE Wake
  BY <1>1, <1>4, NotifyAssumption DEF Wake, CountEvent, vars, hwVars, swVars,
     InStep, Unsolicited, OwnTypes, ArmedMeansConsumed, AnswerInv, DbrValue
<1>5. CASE WriteBody
  BY <1>1, <1>5 DEF WriteBody, HwWriteBody, swVars, notifyVars,
     InStep, Unsolicited, ArmedMeansConsumed, AnswerInv, DbrValue
<1> QED BY <1>2, <1>3, <1>4, <1>5

\* A caller that was not heard stays so, and stays out of step.
LEMMA UnheardStaysSo == OutOfStep /\ TypeOK /\ [NotifyNext]_allVars => OutOfStep'
<1> SUFFICES ASSUME OutOfStep, TypeOK, [NotifyNext]_allVars PROVE OutOfStep'
  OBVIOUS
<1>1. OwnTypes'
  BY OwnTypesKept DEF OutOfStep
<1>2. CASE ArmRecord
  BY <1>1, <1>2 DEF ArmRecord, ArmRequest, OutOfStep, Unsolicited
<1>3. CASE ArmDoorbell
  BY <1>1, <1>3 DEF ArmDoorbell, OutOfStep, Unsolicited
<1>4. CASE PollInLoop
  BY <1>1, <1>4 DEF PollInLoop, OutOfStep, Unsolicited
<1>5. CASE Wake
  BY <1>5 DEF Wake, OutOfStep
<1>6. CASE WriteBody
  BY <1>1, <1>6 DEF WriteBody, notifyVars, OutOfStep, Unsolicited
<1>7. CASE HandOverAndNotify
  BY <1>1, <1>7 DEF HandOverAndNotify, OutOfStep, Unsolicited
<1>8. CASE UNCHANGED allVars
  BY <1>1, <1>8 DEF allVars, notifyVars, OutOfStep, Unsolicited
<1> QED BY <1>2, <1>3, <1>4, <1>5, <1>6, <1>7, <1>8 DEF NotifyNext

\* No wake-up is lost: a caller that sleeps over a completion it has not consumed
\* has an event on its way, whatever _arm_sn held at first, exactly unless the device
\* has never heard it.  The completion may come at any moment between the two stores
\* of arm_cq, the loads of the polls after it, and sleeping.
THEOREM NoWakeupIsLost == SameRing /\ Unsolicited /\ NotifySpec => []NoLostWakeup
<1>1. SameRing /\ NotifySpec => [](TypeOK /\ IndexInv)
  <2>1. IInv => TypeOK /\ IndexInv
    BY DEF IInv, TypeInv
  <2> QED BY <2>1, WaitersUseTheRing, Inductive, PTL
<1>2. Unsolicited /\ NotifyInit => NInv
  <2> SUFFICES ASSUME Unsolicited, NotifyInit PROVE NInv
    OBVIOUS
  <2>1. OwnTypes
    BY OwnTypesInit
  <2>2. CASE armSn = 0
    <3>1. InStep
      BY <2>1, <2>2, NotifyAssumption DEF InStep, Unsolicited, NotifyInit, ArmedMeansConsumed, AnswerInv
    <3> QED BY <3>1 DEF NInv
  <2>3. CASE armSn # 0
    <3>1. OutOfStep
      BY <2>1, <2>3 DEF OutOfStep, Unsolicited, NotifyInit
    <3> QED BY <3>1 DEF NInv
  <2> QED BY <2>2, <2>3
<1>3. NInv /\ TypeOK /\ IndexInv /\ [NotifyNext]_allVars => NInv'
  <2> SUFFICES ASSUME NInv, TypeOK, IndexInv, [NotifyNext]_allVars PROVE NInv'
    OBVIOUS
  <2>1. CASE InStep
    <3>1. CASE UNCHANGED allVars
      <4>1. InStep'
        BY <2>1, <3>1 DEF allVars, vars, hwVars, swVars, notifyVars,
           InStep, Unsolicited, OwnTypes, ArmedMeansConsumed, AnswerInv, DbrValue
      <4> QED BY <4>1 DEF NInv
    <3>2. CASE NotifyNext
      <4>1. InStep'
        BY <2>1, <3>2, DoorbellKeepsStep, HandOverKeepsStep, CallerKeepsStep DEF NotifyNext
      <4> QED BY <4>1 DEF NInv
    <3> QED BY <3>1, <3>2
  <2>2. CASE OutOfStep
    <3>1. OutOfStep'
      BY <2>2, UnheardStaysSo
    <3> QED BY <3>1 DEF NInv
  <2> QED BY <2>1, <2>2 DEF NInv
<1>4. NInv /\ TypeOK => NoLostWakeup
  <2> SUFFICES ASSUME NInv, TypeOK, caller = "asleep", hwPi > ci
               PROVE  event <=> ~Deaf
    BY DEF NoLostWakeup
  <2>1. CASE InStep
    BY <2>1, NotifyAssumption DEF InStep, OwnTypes, ArmedMeansConsumed, AnswerInv, TypeOK, Deaf
  <2>2. CASE OutOfStep
    BY <2>2, NotifyAssumption DEF OutOfStep, OwnTypes, Deaf
  <2> QED BY <2>1, <2>2 DEF NInv
<1> QED BY <1>1, <1>2, <1>3, <1>4, PTL DEF NotifySpec

--------------------------------------------------------------------------------
(***************************************************************************)
(* The send queue.                                                         *)
(***************************************************************************)

\* The ring post_wqe walks is a power of two that divides the width of the
\* producer index, and the caller leaves no more WQEs outstanding than it has.
RingFits ==
    /\ HwSqSize = SqSize
    /\ PiWrap % SqSize = 0
    /\ Window <= SqSize

\* Stores made so far, and those of them that wait.
Issued == 3 * posted + CASE sqPc = "idle" -> 0 [] sqPc = "written" -> 1 [] sqPc = "recorded" -> 2

Waiting ==
    CASE pend = <<>> -> 0
      [] pend # <<>> /\ sqPc = "idle" -> Len(pend) - 1
      [] pend # <<>> /\ sqPc # "idle" -> Len(pend)

Reached == Issued - Waiting

\* Store j of the sequence belongs to the post of WQE j \div 3.
WqeStore(n) == [kind |-> "wqe", at |-> n % SqSize, val |-> n]
RecordStore(n) == [kind |-> "dbrec", at |-> 0, val |-> (n + 1) % PiWrap]
BellStore(n) == [kind |-> "bell", at |-> n % 2, val |-> n]

StoreNo(j) ==
    CASE j % 3 = 0 -> WqeStore(j \div 3)
      [] j % 3 = 1 -> RecordStore(j \div 3)
      [] j % 3 = 2 -> BellStore(j \div 3)

\* WQEs and records that have reached the device.
Written == (Reached + 2) \div 3
Recorded == (Reached + 1) \div 3

--------------------------------------------------------------------------------
(***************************************************************************)
(* The inductive invariant.                                                *)
(***************************************************************************)

\* A finished post leaves an empty epoch behind, if it leaves any.
PendInv ==
    /\ Waiting <= Issued
    /\ \A i \in 1 .. Waiting : pend[i] = {StoreNo(Reached + i - 1)}
    /\ sqPc = "idle" /\ pend # <<>> => pend[Len(pend)] = {}

HostInv ==
    /\ sqPi = posted % PiWrap
    /\ bfOffset = posted % 2
    /\ posted - reaped <= Window
    /\ sqPc # "idle" => posted < MaxPosts /\ posted - reaped < Window

\* The last SqSize WQEs that were written are in the ring.
MemInv ==
    /\ dbrec = Recorded % PiWrap
    /\ \A n \in 0 .. Written - 1 : Written <= n + SqSize => sq[n % SqSize] = n

\* The index the device read is one the record has had since.
DevInv ==
    /\ hwExec <= Recorded
    /\ \E l \in hwExec .. Recorded : hwLimit = l % PiWrap
    /\ reaped <= hwExec
    /\ fetched = hwExec - 1

SqInv == RingFits /\ SqTypeOK /\ PendInv /\ HostInv /\ MemInv /\ DevInv

--------------------------------------------------------------------------------
(***************************************************************************)
(* Slots, stores and epochs.                                               *)
(***************************************************************************)

\* The host, from its wrapped index, and the device compute the same slot.
LEMMA SlotsAgree ==
    ASSUME RingFits, NEW n \in Nat
    PROVE  /\ SwSlot(n % PiWrap) = n % SqSize
           /\ HwSqSlot(n) = n % SqSize
           /\ n % SqSize \in SqSlots
<1>1. SqSize \in Nat \ {0} /\ PiWrap \in Nat \ {0}
  BY SqAssumption
<1>2. (n % PiWrap) % SqSize = n % SqSize
  BY <1>1, ModOfMod DEF RingFits
<1>3. n % SqSize \in 0 .. SqSize - 1
  BY <1>1, DivMod
<1> QED BY <1>2, <1>3 DEF RingFits, SwSlot, HwSqSlot, SqSlots

\* Indices have the width of the record.
LEMMA IndexType ==
    ASSUME NEW n \in Nat
    PROVE  n % PiWrap \in 0 .. PiWrap - 1
BY SqAssumption, DivMod

\* The stores of one post.
LEMMA StoreTypes ==
    ASSUME RingFits, NEW n \in Wqes
    PROVE  WqeStore(n) \in Stores /\ RecordStore(n) \in Stores /\ BellStore(n) \in Stores
<1>1. n \in Nat /\ n + 1 \in Nat /\ n % 2 \in {0, 1}
  BY SqAssumption DEF Wqes
<1>2. n % SqSize \in SqSlots
  BY <1>1, SlotsAgree
<1>3. (n + 1) % PiWrap \in 0 .. PiWrap - 1
  BY <1>1, IndexType
<1> QED BY <1>1, <1>2, <1>3 DEF WqeStore, RecordStore, BellStore, Stores

\* Where the sequence of stores repeats.
LEMMA StoresOfPost ==
    ASSUME NEW n \in Nat
    PROVE  /\ StoreNo(3 * n) = WqeStore(n)
           /\ StoreNo(3 * n + 1) = RecordStore(n)
           /\ StoreNo(3 * n + 2) = BellStore(n)
<1>1. (3 * n) % 3 = 0 /\ (3 * n) \div 3 = n
  OBVIOUS
<1>2. (3 * n + 1) % 3 = 1 /\ (3 * n + 1) \div 3 = n
  OBVIOUS
<1>3. (3 * n + 2) % 3 = 2 /\ (3 * n + 2) \div 3 = n
  OBVIOUS
<1> QED BY <1>1, <1>2, <1>3 DEF StoreNo

Epochs == Seq(SUBSET Stores)

\* A store into the open epoch of a finished post.
LEMMA PutOpens ==
    ASSUME NEW p \in Epochs, NEW s \in Stores, p # <<>> => p[Len(p)] = {},
           NEW w \in Nat, p = <<>> => w = 0, p # <<>> => w = Len(p) - 1
    PROVE  /\ Put(p, s) \in Epochs
           /\ Len(Put(p, s)) = w + 1
           /\ \A i \in 1 .. w : Put(p, s)[i] = p[i]
           /\ Put(p, s)[w + 1] = {s}
<1> USE DEF Epochs
<1>1. CASE p = <<>>
  BY <1>1 DEF Put
<1>2. CASE p # <<>>
  <2>1. Len(p) \in Nat /\ Len(p) # 0
    BY <1>2
  <2>2. Put(p, s) = [p EXCEPT ![Len(p)] = {s}]
    BY <1>2 DEF Put
  <2> QED BY <1>2, <2>1, <2>2
<1> QED BY <1>1, <1>2

\* A barrier and a store after stores that all wait alone.
LEMMA FencedPut ==
    ASSUME NEW p \in Epochs, NEW s \in Stores, \A i \in 1 .. Len(p) : p[i] # {}
    PROVE  /\ Put(Fence(p), s) \in Epochs
           /\ Len(Put(Fence(p), s)) = Len(p) + 1
           /\ \A i \in 1 .. Len(p) : Put(Fence(p), s)[i] = p[i]
           /\ Put(Fence(p), s)[Len(p) + 1] = {s}
<1> USE DEF Epochs
<1>1. CASE p = <<>>
  BY <1>1 DEF Put, Fence
<1>2. CASE p # <<>>
  <2>1. Len(p) \in Nat /\ Len(p) # 0
    BY <1>2
  <2>2. Fence(p) = Append(p, {})
    BY <1>2, <2>1 DEF Fence
  <2>3. /\ Fence(p) \in Epochs
        /\ Fence(p) # <<>>
        /\ Len(Fence(p)) = Len(p) + 1
        /\ Fence(p)[Len(p) + 1] = {}
        /\ \A i \in 1 .. Len(p) : Fence(p)[i] = p[i]
    BY <2>2
  <2>4. Put(Fence(p), s) = [Fence(p) EXCEPT ![Len(p) + 1] = {s}]
    BY <2>1, <2>3 DEF Put
  <2> QED BY <2>1, <2>3, <2>4
<1> QED BY <1>1, <1>2

\* A barrier after such stores opens an epoch.
LEMMA FenceOpens ==
    ASSUME NEW p \in Epochs, p # <<>>, p[Len(p)] # {}
    PROVE  /\ Fence(p) \in Epochs
           /\ Len(Fence(p)) = Len(p) + 1
           /\ \A i \in 1 .. Len(p) : Fence(p)[i] = p[i]
           /\ Fence(p)[Len(p) + 1] = {}
BY DEF Fence, Epochs

--------------------------------------------------------------------------------
(***************************************************************************)
(* Counting the stores.                                                    *)
(***************************************************************************)

\* How many are made, wait and have arrived; no record is ahead of its WQE, no
\* WQE ahead of the post in progress.
LEMMA Counts ==
    ASSUME SqTypeOK, PendInv
    PROVE  /\ Issued \in Nat /\ Waiting \in Nat /\ Reached \in Nat
           /\ Written \in Nat /\ Recorded \in Nat
           /\ Recorded <= Written
           /\ Written <= posted + (IF sqPc = "idle" THEN 0 ELSE 1)
           /\ Recorded <= posted + (IF sqPc = "recorded" THEN 1 ELSE 0)
<1>1. posted \in Nat /\ sqPc \in {"idle", "written", "recorded"} /\ Len(pend) \in Nat
  BY SqAssumption DEF SqTypeOK
<1>2. pend # <<>> => Len(pend) > 0
  BY DEF SqTypeOK
<1>3. Waiting \in Nat
  BY <1>1, <1>2 DEF Waiting
<1>4. /\ Issued \in Nat
      /\ sqPc = "idle" => Issued = 3 * posted
      /\ sqPc = "written" => Issued = 3 * posted + 1
      /\ sqPc = "recorded" => Issued = 3 * posted + 2
  BY <1>1 DEF Issued
<1>5. Reached \in Nat /\ Reached <= Issued
  BY <1>3, <1>4 DEF PendInv, Reached
<1> QED BY <1>1, <1>3, <1>4, <1>5 DEF Written, Recorded

\* The next store of the sequence joins those that wait.
LEMMA StoreJoins ==
    ASSUME SqTypeOK, PendInv,
           Issued' = Issued + 1,
           Waiting' = Waiting + 1,
           \A i \in 1 .. Waiting : pend'[i] = pend[i],
           pend'[Waiting + 1] = {StoreNo(Issued)}
    PROVE  /\ Waiting' <= Issued'
           /\ \A i \in 1 .. Waiting' : pend'[i] = {StoreNo(Reached' + i - 1)}
           /\ Reached' = Reached /\ Written' = Written /\ Recorded' = Recorded
<1>1. Issued \in Nat /\ Waiting \in Nat /\ Waiting <= Issued
  BY Counts DEF PendInv
<1>2. Reached' = Reached /\ Reached + Waiting = Issued /\ Reached \in Nat
  BY <1>1 DEF Reached
<1>3. ASSUME NEW i \in 1 .. Waiting'
      PROVE  pend'[i] = {StoreNo(Reached' + i - 1)}
  <2>1. CASE i = Waiting + 1
    <3>1. Reached' + i - 1 = Issued
      BY <1>1, <1>2, <2>1
    <3> QED BY <2>1, <3>1
  <2>2. CASE i # Waiting + 1
    BY <1>1, <1>2, <2>2 DEF PendInv
  <2> QED BY <2>1, <2>2
<1> QED BY <1>1, <1>2, <1>3 DEF Written, Recorded

\* The oldest waiting store is alone in its epoch, and the next to arrive.
LEMMA OldestStore ==
    ASSUME SqTypeOK, PendInv, pend # <<>>, NEW s \in pend[1]
    PROVE  Waiting > 0 /\ s = StoreNo(Reached) /\ pend[1] = {s}
<1>1. Len(pend) \in Nat /\ Len(pend) > 0 /\ Waiting \in Nat
  BY Counts DEF SqTypeOK
<1>2. Waiting # 0
  <2> SUFFICES ASSUME Waiting = 0 PROVE FALSE
    OBVIOUS
  <2>1. sqPc = "idle" /\ Len(pend) = 1
    BY <1>1 DEF Waiting
  <2> QED BY <2>1 DEF PendInv
<1>3. pend[1] = {StoreNo(Reached + 1 - 1)}
  BY <1>1, <1>2 DEF PendInv
<1>4. Reached + 1 - 1 = Reached
  BY Counts
<1> QED BY <1>1, <1>2, <1>3, <1>4

\* The caller's window keeps what has arrived within a ring of what is executed.
LEMMA WithinWindow ==
    ASSUME SqInv
    PROVE  Written <= hwExec + SqSize /\ Recorded < hwExec + PiWrap
<1>1. /\ posted \in Nat /\ reaped \in Nat /\ hwExec \in Nat /\ Window \in Nat
      /\ SqSize \in Nat /\ PiWrap \in Nat /\ SqSize < PiWrap
  BY SqAssumption DEF SqInv, SqTypeOK
<1>2. Written \in Nat /\ Recorded \in Nat /\ Recorded <= Written
      /\ Written <= posted + (IF sqPc = "idle" THEN 0 ELSE 1)
  BY Counts DEF SqInv
<1>3. Written <= reaped + Window
  BY <1>1, <1>2 DEF SqInv, HostInv
<1>4. Window <= SqSize /\ reaped <= hwExec
  BY DEF SqInv, RingFits, DevInv
<1> QED BY <1>1, <1>2, <1>3, <1>4

\* The device is never further ahead of the caller than the window.
LEMMA ExecutedInWindow ==
    ASSUME SqInv
    PROVE  hwExec <= reaped + Window
<1>1. posted \in Nat /\ reaped \in Nat /\ hwExec \in Nat /\ Window \in Nat
  BY SqAssumption DEF SqInv, SqTypeOK
<1>2. Recorded \in Nat /\ Recorded <= posted + (IF sqPc = "recorded" THEN 1 ELSE 0)
  BY Counts DEF SqInv
<1> QED BY <1>1, <1>2 DEF SqInv, HostInv, DevInv

\* What the record covers is in the ring.
LEMMA RecordedInRing ==
    ASSUME SqInv, NEW n \in hwExec .. Recorded - 1
    PROVE  sq[HwSqSlot(n)] = n
<1>1. /\ hwExec \in Nat /\ Recorded \in Nat /\ Written \in Nat /\ Recorded <= Written
      /\ SqSize \in Nat
  BY Counts, SqAssumption DEF SqInv, SqTypeOK
<1>2. n \in 0 .. Written - 1 /\ Written <= n + SqSize /\ n \in Nat
  BY <1>1, WithinWindow
<1>3. sq[n % SqSize] = n
  BY <1>2 DEF SqInv, MemInv
<1> QED BY <1>2, <1>3, SlotsAgree DEF SqInv

--------------------------------------------------------------------------------
(***************************************************************************)
(* Every step keeps the invariant.                                         *)
(***************************************************************************)

\* What a post does to the counts, read off the program counter.
LEMMA StageCounts ==
    ASSUME SqTypeOK
    PROVE  /\ sqPc = "idle" => Issued = 3 * posted
           /\ sqPc = "written" => Issued = 3 * posted + 1
           /\ sqPc = "recorded" => Issued = 3 * posted + 2
           /\ pend = <<>> => Waiting = 0
           /\ pend # <<>> /\ sqPc = "idle" => Waiting = Len(pend) - 1
           /\ sqPc # "idle" => Waiting = Len(pend)
<1>1. pend = <<>> => Len(pend) = 0
  OBVIOUS
<1>2. posted \in Nat /\ sqPc \in {"idle", "written", "recorded"}
  BY SqAssumption DEF SqTypeOK
<1> QED BY <1>1, <1>2 DEF Issued, Waiting

\* The WQE is stored: nothing of it is visible yet.
LEMMA WriteKeepsSqInv == SqInv /\ WriteWqe => SqInv'
<1> SUFFICES ASSUME SqInv, WriteWqe PROVE SqInv'
  OBVIOUS
<1> USE DEF devVars
<1>1. posted \in Nat /\ posted \in Wqes /\ MaxPosts \in Nat /\ pend \in Epochs
  BY SqAssumption DEF SqInv, SqTypeOK, WriteWqe, Wqes, Epochs
<1>2. [kind |-> "wqe", at |-> SwSlot(sqPi), val |-> posted] = WqeStore(posted)
  BY <1>1, SlotsAgree DEF SqInv, HostInv, WqeStore
<1>3. pend' = Put(pend, WqeStore(posted)) /\ WqeStore(posted) \in Stores
  BY <1>1, <1>2, StoreTypes DEF SqInv, WriteWqe
<1>4. Waiting \in Nat /\ (pend = <<>> => Waiting = 0) /\ (pend # <<>> => Waiting = Len(pend) - 1)
  BY Counts, StageCounts DEF SqInv, WriteWqe
<1>5. /\ pend' \in Epochs
      /\ Len(pend') = Waiting + 1
      /\ \A i \in 1 .. Waiting : pend'[i] = pend[i]
      /\ pend'[Waiting + 1] = {WqeStore(posted)}
  <2>1. pend # <<>> => pend[Len(pend)] = {}
    BY DEF SqInv, PendInv, WriteWqe
  <2> QED BY <1>1, <1>3, <1>4, <2>1, PutOpens
<1>6. SqTypeOK'
  BY <1>5 DEF SqInv, SqTypeOK, WriteWqe, Epochs
<1>7. Issued' = Issued + 1 /\ Waiting' = Waiting + 1 /\ StoreNo(Issued) = WqeStore(posted)
  <2>1. Issued = 3 * posted
    BY StageCounts DEF SqInv, WriteWqe
  <2>2. Issued' = 3 * posted + 1
    BY <1>1 DEF Issued, WriteWqe
  <2>3. Waiting' = Len(pend')
    BY <1>6 DEF Waiting, WriteWqe
  <2> QED BY <1>1, <1>5, <2>1, <2>2, <2>3, StoresOfPost
<1>8. /\ PendInv'
      /\ Written' = Written /\ Recorded' = Recorded
  <2>1. sqPc' # "idle"
    BY DEF WriteWqe
  <2> QED BY <1>5, <1>7, <2>1, StoreJoins DEF SqInv, PendInv
<1>9. HostInv'
  BY <1>1 DEF SqInv, HostInv, WriteWqe
<1>10. MemInv' /\ DevInv' /\ RingFits'
  BY <1>8 DEF SqInv, MemInv, DevInv, RingFits, WriteWqe
<1> QED BY <1>6, <1>8, <1>9, <1>10 DEF SqInv

\* The record is stored behind a barrier.
LEMMA RecordKeepsSqInv == SqInv /\ StoreDbrec => SqInv'
<1> SUFFICES ASSUME SqInv, StoreDbrec PROVE SqInv'
  OBVIOUS
<1> USE DEF devVars
<1>1. posted \in Nat /\ posted \in Wqes /\ MaxPosts \in Nat /\ pend \in Epochs
  BY SqAssumption DEF SqInv, SqTypeOK, HostInv, StoreDbrec, Wqes, Epochs
<1>2. [kind |-> "dbrec", at |-> 0, val |-> NewPi(sqPi)] = RecordStore(posted)
  <2>1. NewPi(sqPi) = (posted + 1) % PiWrap
    BY <1>1, SqAssumption, ModSucc DEF SqInv, HostInv, NewPi
  <2> QED BY <2>1 DEF RecordStore
<1>3. pend' = Put(Fence(pend), RecordStore(posted)) /\ RecordStore(posted) \in Stores
  BY <1>1, <1>2, StoreTypes DEF SqInv, StoreDbrec
<1>4. Waiting \in Nat /\ Waiting = Len(pend)
  BY Counts, StageCounts DEF SqInv, StoreDbrec
<1>5. /\ pend' \in Epochs
      /\ Len(pend') = Waiting + 1
      /\ \A i \in 1 .. Waiting : pend'[i] = pend[i]
      /\ pend'[Waiting + 1] = {RecordStore(posted)}
  <2>1. \A i \in 1 .. Len(pend) : pend[i] # {}
    BY <1>4 DEF SqInv, PendInv
  <2> QED BY <1>1, <1>3, <1>4, <2>1, FencedPut
<1>6. SqTypeOK'
  BY <1>5 DEF SqInv, SqTypeOK, StoreDbrec, Epochs
<1>7. Issued' = Issued + 1 /\ Waiting' = Waiting + 1 /\ StoreNo(Issued) = RecordStore(posted)
  <2>1. Issued = 3 * posted + 1
    BY StageCounts DEF SqInv, StoreDbrec
  <2>2. Issued' = 3 * posted + 2
    BY <1>1 DEF Issued, StoreDbrec
  <2>3. Waiting' = Len(pend')
    BY <1>6 DEF Waiting, StoreDbrec
  <2> QED BY <1>1, <1>5, <2>1, <2>2, <2>3, StoresOfPost
<1>8. /\ PendInv'
      /\ Written' = Written /\ Recorded' = Recorded
  <2>1. sqPc' # "idle"
    BY DEF StoreDbrec
  <2> QED BY <1>5, <1>7, <2>1, StoreJoins DEF SqInv, PendInv
<1>9. HostInv'
  BY <1>1 DEF SqInv, HostInv, StoreDbrec
<1>10. MemInv' /\ DevInv' /\ RingFits'
  BY <1>8 DEF SqInv, MemInv, DevInv, RingFits, StoreDbrec
<1> QED BY <1>6, <1>8, <1>9, <1>10 DEF SqInv

\* The doorbell is stored between barriers and the post is over.
LEMMA DoorbellKeepsSqInv == SqInv /\ RingDoorbell => SqInv'
<1> SUFFICES ASSUME SqInv, RingDoorbell PROVE SqInv'
  OBVIOUS
<1> USE DEF devVars
<1>1. posted \in Nat /\ posted \in Wqes /\ MaxPosts \in Nat /\ reaped \in Nat /\ pend \in Epochs
  BY SqAssumption DEF SqInv, SqTypeOK, HostInv, RingDoorbell, Wqes, Epochs
<1>2. [kind |-> "bell", at |-> bfOffset, val |-> posted] = BellStore(posted)
  BY DEF SqInv, HostInv, BellStore
<1>3. BellStore(posted) \in Stores
  BY <1>1, StoreTypes DEF SqInv
<1>4. Waiting \in Nat /\ Waiting = Len(pend)
  BY Counts, StageCounts DEF SqInv, RingDoorbell
<1> DEFINE q == Put(Fence(pend), BellStore(posted))
<1>5. /\ q \in Epochs
      /\ Len(q) = Waiting + 1
      /\ \A i \in 1 .. Waiting : q[i] = pend[i]
      /\ q[Waiting + 1] = {BellStore(posted)}
  <2>1. \A i \in 1 .. Len(pend) : pend[i] # {}
    BY <1>4 DEF SqInv, PendInv
  <2> QED BY <1>1, <1>3, <1>4, <2>1, FencedPut
<1>6. pend' = Fence(q)
  BY <1>2 DEF RingDoorbell
<1> HIDE DEF q
<1>7. /\ pend' \in Epochs
      /\ Len(pend') = Waiting + 2
      /\ \A i \in 1 .. Waiting : pend'[i] = pend[i]
      /\ pend'[Waiting + 1] = {BellStore(posted)}
      /\ pend'[Waiting + 2] = {}
  <2>1. q # <<>> /\ q[Len(q)] # {}
    BY <1>4, <1>5
  <2>2. /\ Fence(q) \in Epochs
        /\ Len(Fence(q)) = Len(q) + 1
        /\ \A i \in 1 .. Len(q) : Fence(q)[i] = q[i]
        /\ Fence(q)[Len(q) + 1] = {}
    BY <1>5, <2>1, FenceOpens
  <2> QED BY <1>4, <1>5, <1>6, <2>2
<1>8. (posted + 1) % PiWrap \in 0 .. PiWrap - 1 /\ NewPi(sqPi) = (posted + 1) % PiWrap
  <2>1. posted + 1 \in Nat /\ PiWrap \in Nat \ {0}
    BY <1>1, SqAssumption
  <2>2. (posted + 1) % PiWrap \in 0 .. PiWrap - 1
    BY <2>1, IndexType
  <2>3. ((posted % PiWrap) + 1) % PiWrap = (posted + 1) % PiWrap
    BY <1>1, <2>1, ModSucc
  <2> QED BY <2>2, <2>3 DEF SqInv, HostInv, NewPi
<1>9. bfOffset' = (posted + 1) % 2 /\ bfOffset' \in {0, 1}
  BY <1>1 DEF SqInv, HostInv, RingDoorbell
<1>10. SqTypeOK'
  BY <1>1, <1>7, <1>8, <1>9 DEF SqInv, SqTypeOK, RingDoorbell, Epochs, Wqes
<1>11. Issued' = Issued + 1 /\ Waiting' = Waiting + 1 /\ StoreNo(Issued) = BellStore(posted)
  <2>1. Issued = 3 * posted + 2
    BY StageCounts DEF SqInv, RingDoorbell
  <2>2. Issued' = 3 * (posted + 1)
    BY <1>1 DEF Issued, RingDoorbell
  <2>3. pend' # <<>> /\ sqPc' = "idle"
    BY <1>4, <1>7 DEF RingDoorbell
  <2>4. Waiting' = Len(pend') - 1
    BY <2>3 DEF Waiting
  <2> QED BY <1>1, <1>4, <1>7, <2>1, <2>2, <2>4, StoresOfPost
<1>12. /\ PendInv'
       /\ Written' = Written /\ Recorded' = Recorded
  <2>1. pend'[Len(pend')] = {}
    BY <1>7
  <2> QED BY <1>7, <1>11, <2>1, StoreJoins DEF SqInv, PendInv
<1>13. HostInv'
  BY <1>1, <1>8, <1>9, SqAssumption DEF SqInv, HostInv, RingDoorbell
<1>14. MemInv' /\ DevInv' /\ RingFits'
  BY <1>12 DEF SqInv, MemInv, DevInv, RingFits, RingDoorbell
<1> QED BY <1>10, <1>12, <1>13, <1>14 DEF SqInv

\* A store arrives.
LEMMA DrainKeepsSqInv == SqInv /\ DrainSome => SqInv'
<1> SUFFICES ASSUME SqInv, pend # <<>>, NEW s \in pend[1], Drain(s) PROVE SqInv'
  BY DEF DrainSome
<1> USE DEF hostVars, devVars
<1>1. Waiting > 0 /\ s = StoreNo(Reached) /\ pend[1] = {s}
  BY OldestStore DEF SqInv
<1>2. /\ pend \in Seq(SUBSET Stores) /\ Len(pend) \in Nat /\ Len(pend) > 0 /\ s \in Stores
      /\ posted \in Nat /\ sqPc \in {"idle", "written", "recorded"}
  BY SqAssumption DEF SqInv, SqTypeOK
<1>3. /\ pend' = Tail(pend)
      /\ pend' \in Seq(SUBSET Stores)
      /\ Len(pend') = Len(pend) - 1
      /\ \A i \in 1 .. Len(pend') : pend'[i] = pend[i + 1]
  <2>1. pend' = Tail(pend)
    BY <1>1 DEF Drain, Drained
  <2> QED BY <1>2, <2>1
<1>4. SqTypeOK'
  <2>1. sq' \in [SqSlots -> Wqes \cup {NoWqe}]
    BY <1>2 DEF SqInv, SqTypeOK, Drain, Stores
  <2>2. dbrec' \in 0 .. PiWrap - 1
    BY <1>2 DEF SqInv, SqTypeOK, Drain, Stores
  <2>3. bell' \in BOOLEAN
    BY DEF SqInv, SqTypeOK, Drain
  <2> QED BY <1>3, <2>1, <2>2, <2>3 DEF SqInv, SqTypeOK, Drain
<1>5. /\ Waiting' = Waiting - 1 /\ Reached' = Reached + 1 /\ Reached \in Nat
      /\ Waiting \in Nat /\ Issued' = Issued /\ Waiting <= Issued /\ Issued \in Nat
  <2>1. Issued' = Issued /\ Issued \in Nat /\ Waiting \in Nat /\ Reached \in Nat /\ Waiting <= Issued
    BY Counts DEF Issued, Drain, SqInv, PendInv
  <2>2. CASE sqPc = "idle"
    <3>1. Waiting = Len(pend) - 1
      BY <1>2, <2>2, StageCounts DEF SqInv
    <3>2. pend' # <<>> /\ sqPc' = "idle"
      BY <1>1, <1>2, <1>3, <2>2, <3>1 DEF Drain
    <3>3. Waiting' = Len(pend') - 1
      BY <3>2 DEF Waiting
    <3> QED BY <1>2, <1>3, <2>1, <3>1, <3>3 DEF Reached
  <2>3. CASE sqPc # "idle"
    <3>1. Waiting = Len(pend)
      BY <2>3, StageCounts DEF SqInv
    <3>2. sqPc' # "idle" /\ (pend' = <<>> => Len(pend') = 0)
      BY <2>3 DEF Drain
    <3>3. Waiting' = Len(pend')
      BY <3>2 DEF Waiting
    <3> QED BY <1>2, <1>3, <2>1, <3>1, <3>3 DEF Reached
  <2> QED BY <2>2, <2>3
<1>6. PendInv'
  <2>1. ASSUME NEW i \in 1 .. Waiting'
        PROVE  pend'[i] = {StoreNo(Reached' + i - 1)}
    <3>1. Waiting <= Len(pend)
      BY <1>2, StageCounts DEF SqInv
    <3>2. i + 1 \in 1 .. Waiting /\ i \in 1 .. Len(pend')
      BY <1>2, <1>3, <1>5, <3>1
    <3>3. pend'[i] = pend[i + 1] /\ pend[i + 1] = {StoreNo(Reached + (i + 1) - 1)}
      BY <1>3, <3>2 DEF SqInv, PendInv
    <3>4. Reached + (i + 1) - 1 = Reached' + i - 1
      BY <1>5
    <3> QED BY <3>3, <3>4
  <2>2. ASSUME sqPc' = "idle", pend' # <<>>
        PROVE  pend'[Len(pend')] = {}
    <3>1. pend'[Len(pend')] = pend[Len(pend)]
      BY <1>2, <1>3, <2>2
    <3> QED BY <2>2, <3>1 DEF SqInv, PendInv, Drain
  <2> QED BY <1>5, <2>1, <2>2 DEF PendInv
<1>7. PICK n \in Nat : Reached = 3 * n \/ Reached = 3 * n + 1 \/ Reached = 3 * n + 2
  BY <1>5, Reached = 3 * (Reached \div 3) + (Reached % 3)
<1>8. HostInv' /\ RingFits' /\ sq \in [SqSlots -> Wqes \cup {NoWqe}] /\ SqSize \in Nat \ {0}
  BY SqAssumption DEF SqInv, SqTypeOK, HostInv, RingFits, Drain
<1>9. Recorded \in Nat /\ hwExec \in Nat
  BY Counts DEF SqInv, SqTypeOK
<1>10. CASE Reached = 3 * n
  <2>1. Written = n /\ Written' = n + 1 /\ Recorded = n /\ Recorded' = n
    BY <1>5, <1>10 DEF Written, Recorded
  <2>2. s = WqeStore(n)
    BY <1>1, <1>10, StoresOfPost
  <2>3. dbrec' = dbrec /\ sq' = [sq EXCEPT ![n % SqSize] = n]
    BY <2>2 DEF Drain, WqeStore
  <2>4. n % SqSize \in SqSlots
    BY SlotsAgree DEF SqInv
  <2>5. ASSUME NEW m \in 0 .. Written' - 1, Written' <= m + SqSize
        PROVE  sq'[m % SqSize] = m
    <3>1. CASE m = n
      BY <1>8, <2>3, <2>4, <3>1
    <3>2. CASE m # n
      <4>1. m \in 0 .. Written - 1 /\ Written <= m + SqSize /\ m < n /\ n < m + SqSize /\ m \in Nat
        BY <1>8, <2>1, <2>5, <3>2
      <4>2. sq[m % SqSize] = m
        BY <4>1 DEF SqInv, MemInv
      <4>3. m % SqSize # n % SqSize
        BY <1>8, <4>1, SlotUnique
      <4>4. m % SqSize \in SqSlots
        BY <4>1, SlotsAgree DEF SqInv
      <4> QED BY <1>8, <2>3, <4>2, <4>3, <4>4
    <3> QED BY <3>1, <3>2
  <2>6. MemInv'
    BY <2>1, <2>3, <2>5 DEF SqInv, MemInv
  <2>7. DevInv'
    BY <2>1 DEF SqInv, DevInv, Drain
  <2> QED BY <1>4, <1>6, <1>8, <2>6, <2>7 DEF SqInv
<1>11. CASE Reached = 3 * n + 1
  <2>1. Written = n + 1 /\ Written' = n + 1 /\ Recorded = n /\ Recorded' = n + 1
    BY <1>5, <1>11 DEF Written, Recorded
  <2>2. s = RecordStore(n)
    BY <1>1, <1>11, StoresOfPost
  <2>3. dbrec' = (n + 1) % PiWrap /\ sq' = sq
    BY <2>2 DEF Drain, RecordStore
  <2>4. MemInv'
    BY <2>1, <2>3 DEF SqInv, MemInv
  <2>5. DevInv'
    BY <1>9, <2>1 DEF SqInv, DevInv, Drain
  <2> QED BY <1>4, <1>6, <1>8, <2>4, <2>5 DEF SqInv
<1>12. CASE Reached = 3 * n + 2
  <2>1. Written' = Written /\ Recorded' = Recorded
    BY <1>5, <1>12 DEF Written, Recorded
  <2>2. s = BellStore(n)
    BY <1>1, <1>12, StoresOfPost
  <2>3. dbrec' = dbrec /\ sq' = sq
    BY <2>2 DEF Drain, BellStore
  <2>4. MemInv'
    BY <2>1, <2>3 DEF SqInv, MemInv
  <2>5. DevInv'
    BY <2>1 DEF SqInv, DevInv, Drain
  <2> QED BY <1>4, <1>6, <1>8, <2>4, <2>5 DEF SqInv
<1> QED BY <1>7, <1>10, <1>11, <1>12

\* A doorbell makes the device read the record.
LEMMA ReadKeepsSqInv == SqInv /\ HwReadRecord => SqInv'
<1> SUFFICES ASSUME SqInv, HwReadRecord PROVE SqInv'
  OBVIOUS
<1> USE DEF hostVars
<1>1. Recorded \in Nat /\ hwExec \in Nat
  BY Counts DEF SqInv, SqTypeOK
<1>2. Issued' = Issued /\ Waiting' = Waiting
  BY DEF Issued, Waiting, HwReadRecord
<1>3. Reached' = Reached /\ Recorded' = Recorded /\ Written' = Written
  BY <1>2 DEF Reached, Recorded, Written
<1>4. SqTypeOK' /\ PendInv' /\ HostInv' /\ MemInv' /\ RingFits'
  BY <1>2, <1>3 DEF SqInv, SqTypeOK, PendInv, HostInv, MemInv, RingFits, HwReadRecord
<1>5. DevInv'
  BY <1>1, <1>3 DEF SqInv, DevInv, MemInv, HwReadRecord
<1> QED BY <1>4, <1>5 DEF SqInv

\* The device executes a WQE: one the record covers, whatever index it read.
LEMMA ExecuteIsCovered ==
    ASSUME SqInv, HwExecute
    PROVE  hwExec < Recorded /\ fetched' = hwExec
<1>1. Recorded \in Nat /\ hwExec \in Nat /\ hwExec < MaxPosts
  BY Counts DEF SqInv, SqTypeOK, HwExecute
<1>2. hwExec < Recorded
  <2>1. PICK l \in hwExec .. Recorded : hwLimit = l % PiWrap
    BY DEF SqInv, DevInv
  <2>2. l # hwExec
    BY <2>1 DEF HwExecute
  <2> QED BY <1>1, <2>1, <2>2
<1>3. sq[HwSqSlot(hwExec)] = hwExec
  BY <1>1, <1>2, RecordedInRing
<1> QED BY <1>2, <1>3 DEF HwExecute

\* The device executing a WQE keeps the invariant.
LEMMA ExecuteKeepsSqInv == SqInv /\ HwExecute => SqInv'
<1> SUFFICES ASSUME SqInv, HwExecute PROVE SqInv'
  OBVIOUS
<1> USE DEF hostVars, memVars
<1>1. Recorded \in Nat /\ hwExec \in Nat /\ hwExec < MaxPosts /\ reaped \in Nat
  BY Counts DEF SqInv, SqTypeOK, HwExecute
<1>2. Issued' = Issued /\ Waiting' = Waiting
  BY DEF Issued, Waiting, HwExecute
<1>3. Reached' = Reached /\ Recorded' = Recorded /\ Written' = Written
  BY <1>2 DEF Reached, Recorded, Written
<1>4. hwExec < Recorded /\ fetched' = hwExec
  BY ExecuteIsCovered
<1>5. SqTypeOK'
  BY <1>1, <1>4, SqAssumption DEF SqInv, SqTypeOK, HwExecute, Wqes
<1>6. PendInv' /\ HostInv' /\ MemInv' /\ RingFits'
  BY <1>2, <1>3 DEF SqInv, PendInv, HostInv, MemInv, RingFits, HwExecute
<1>7. DevInv'
  <2>1. PICK l \in hwExec .. Recorded : hwLimit = l % PiWrap
    BY DEF SqInv, DevInv
  <2>2. l # hwExec /\ hwLimit' = hwLimit /\ hwExec' = hwExec + 1 /\ reaped' = reaped
    BY <2>1 DEF HwExecute
  <2>3. l \in hwExec' .. Recorded'
    BY <1>1, <1>3, <2>1, <2>2
  <2>4. hwExec' <= Recorded' /\ reaped' <= hwExec' /\ fetched' = hwExec' - 1
    BY <1>1, <1>3, <1>4, <2>2 DEF SqInv, DevInv
  <2> QED BY <2>1, <2>2, <2>3, <2>4 DEF DevInv
<1> QED BY <1>5, <1>6, <1>7 DEF SqInv

\* The caller learns of an executed WQE.
LEMMA ReapKeepsSqInv == SqInv /\ Reap => SqInv'
<1> SUFFICES ASSUME SqInv, Reap PROVE SqInv'
  OBVIOUS
<1> USE DEF hostVars, memVars, devVars
<1>1. /\ hwExec \in Nat /\ hwExec <= MaxPosts /\ reaped \in Nat /\ posted \in Nat
      /\ MaxPosts \in Nat /\ Window \in Nat
  BY SqAssumption DEF SqInv, SqTypeOK
<1>2. Issued' = Issued /\ Waiting' = Waiting
  BY DEF Issued, Waiting, Reap
<1>3. Reached' = Reached /\ Recorded' = Recorded /\ Written' = Written
  BY <1>2 DEF Reached, Recorded, Written
<1>4. SqTypeOK' /\ HostInv'
  BY <1>1 DEF SqInv, SqTypeOK, HostInv, Reap
<1>5. PendInv' /\ MemInv' /\ RingFits'
  BY <1>2, <1>3 DEF SqInv, PendInv, MemInv, RingFits, Reap
<1>6. DevInv'
  BY <1>1, <1>3 DEF SqInv, DevInv, Reap
<1> QED BY <1>4, <1>5, <1>6 DEF SqInv

\* A queue pair just created.
LEMMA InitSqInv == RingFits /\ SqInit => SqInv
<1> SUFFICES ASSUME RingFits, SqInit PROVE SqInv
  OBVIOUS
<1>1. SqTypeOK
  <2>1. 0 \in 0 .. MaxPosts /\ 0 \in 0 .. PiWrap - 1
    BY SqAssumption
  <2>2. <<>> \in Seq(SUBSET Stores)
    OBVIOUS
  <2>3. [s \in SqSlots |-> NoWqe] \in [SqSlots -> Wqes \cup {NoWqe}]
    OBVIOUS
  <2> QED BY <2>1, <2>2, <2>3 DEF SqInit, SqTypeOK
<1>2. Issued = 0 /\ Waiting = 0
  BY DEF SqInit, Issued, Waiting
<1>3. Reached = 0 /\ Recorded = 0 /\ Written = 0
  BY <1>2 DEF Reached, Recorded, Written
<1>4. 0 % PiWrap = 0
  BY SqAssumption, FirstPass
<1>5. PendInv /\ HostInv /\ MemInv /\ DevInv
  BY <1>2, <1>3, <1>4, SqAssumption DEF SqInit, PendInv, HostInv, MemInv, DevInv, NoWqe
<1> QED BY <1>1, <1>5 DEF SqInv

\* Every step of the send queue keeps the invariant, action by action.
LEMMA StepSqInv == SqInv /\ [SqNext]_sqVars => SqInv'
<1> SUFFICES ASSUME SqInv, [SqNext]_sqVars PROVE SqInv'
  OBVIOUS
<1>1. CASE Post
  BY <1>1, WriteKeepsSqInv, RecordKeepsSqInv, DoorbellKeepsSqInv DEF Post
<1>2. CASE DrainSome
  BY <1>2, DrainKeepsSqInv
<1>3. CASE SqDevice
  BY <1>3, ReadKeepsSqInv, ExecuteKeepsSqInv DEF SqDevice
<1>4. CASE Reap
  BY <1>4, ReapKeepsSqInv
<1>5. CASE UNCHANGED sqVars
  <2> USE <1>5 DEF sqVars
  <2>1. Issued' = Issued /\ Waiting' = Waiting
    BY DEF Issued, Waiting
  <2>2. Reached' = Reached /\ Recorded' = Recorded /\ Written' = Written
    BY <2>1 DEF Reached, Recorded, Written
  <2>3. RingFits' /\ SqTypeOK' /\ HostInv'
    BY DEF SqInv, RingFits, SqTypeOK, HostInv
  <2>4. PendInv' /\ MemInv' /\ DevInv'
    BY <2>1, <2>2 DEF SqInv, PendInv, MemInv, DevInv
  <2> QED BY <2>3, <2>4 DEF SqInv
<1> QED BY <1>1, <1>2, <1>3, <1>4, <1>5 DEF SqNext

\* So it holds throughout every run on a ring the counters can index.
LEMMA SqInductive == RingFits /\ SqSpec => []SqInv
BY InitSqInv, StepSqInv, PTL DEF SqSpec

--------------------------------------------------------------------------------
(***************************************************************************)
(* What follows.                                                           *)
(***************************************************************************)

\* Everything keeps its type; no store goes outside the ring or the record.
THEOREM SqTypesHold == RingFits /\ SqSpec => []SqTypeOK
<1>1. SqInv => SqTypeOK
  BY DEF SqInv
<1> QED BY <1>1, SqInductive, PTL

\* Whatever the order in which stores leave the buffer, the record the device
\* sees covers only WQEs that are whole in their slots.
LEMMA CoverFollows == SqInv => RecordCoversWrittenWqes
<1> SUFFICES ASSUME SqInv, NEW n \in Covered PROVE sq[HwSqSlot(n)] = n
  BY DEF RecordCoversWrittenWqes
<1>1. Recorded \in Nat /\ hwExec \in Nat /\ hwExec <= Recorded /\ Recorded < hwExec + PiWrap
  BY Counts, WithinWindow DEF SqInv, SqTypeOK, DevInv
<1>2. PiWrap \in Nat \ {0}
  BY SqAssumption
<1>3. (dbrec - hwExec) % PiWrap = Recorded - hwExec
  <2>1. PICK d \in 0 .. PiWrap - 1 : Recorded = hwExec + d
    BY <1>1, <1>2, Recorded = hwExec + (Recorded - hwExec)
  <2>2. ((Recorded % PiWrap) - hwExec) % PiWrap = d
    BY <1>1, <1>2, <2>1, ModularLead
  <2> QED BY <1>1, <2>1, <2>2 DEF SqInv, MemInv
<1>4. n \in hwExec .. Recorded - 1
  BY <1>1, <1>3 DEF Covered
<1> QED BY <1>4, RecordedInRing

\* Whatever the doorbell record lets the device execute is in memory, whole, and
\* not yet overwritten, in whichever order the stores of a post drain (post_wqe,
\* post_send).
THEOREM RecordsCoverWrittenWqes == RingFits /\ SqSpec => []RecordCoversWrittenWqes
BY CoverFollows, SqInductive, PTL

\* The device executes each WQE once and in posting order, however often the
\* ring and the index have wrapped and whichever doorbell made it look.
THEOREM ExecutesInOrder == RingFits /\ SqSpec => []ExecutedInOrder
<1>1. SqInv => ExecutedInOrder
  BY DEF SqInv, DevInv, ExecutedInOrder
<1> QED BY <1>1, SqInductive, PTL

--------------------------------------------------------------------------------
(***************************************************************************)
(* The two queues in use.                                                  *)
(***************************************************************************)


\* Both rings are the device's, and fit the caller's window.
QueuesFit == SameRing /\ RingFits

\* The completion ring has an entry for every request left outstanding.
CqHoldsWindow == Window <= CqeCnt

--------------------------------------------------------------------------------
(***************************************************************************)
(* The inductive invariant.                                                *)
(***************************************************************************)

\* What was reported was consumed and handed over, and is counted once; only
\* executed WQEs are completed.
CreditInv ==
    /\ \A n \in reported : n \in Nat /\ n < ci /\ n < hwPi
    /\ IsFiniteSet(reported)
    /\ reaped = Cardinality(reported)
    /\ hwPi <= hwExec
    /\ dma # NoEntry => hwPi < hwExec

DpInv == IInv /\ SqInv /\ CreditInv

\* The numbers the invariant is about.
LEMMA DpNumbers ==
    ASSUME DpInv
    PROVE  /\ ci \in Nat /\ hwPi \in Nat /\ hwExec \in Nat /\ reaped \in Nat /\ posted \in Nat
           /\ hwPi <= MaxCqes
BY SqAssumption, CqAssumption DEF DpInv, IInv, TypeInv, TypeOK, SqInv, SqTypeOK

\* A set of numbers below k has at most k elements.
LEMMA BelowBound ==
    ASSUME NEW k \in Nat, NEW S, \A n \in S : n \in Nat /\ n < k
    PROVE  IsFiniteSet(S) /\ Cardinality(S) <= k
<1>1. IsFiniteSet(0 .. k - 1) /\ Cardinality(0 .. k - 1) = k
  <2>1. Cardinality(0 .. k - 1) = IF 0 > k - 1 THEN 0 ELSE (k - 1) - 0 + 1
    BY FS_Interval
  <2> QED BY <2>1, FS_Interval
<1>2. S \subseteq 0 .. k - 1
  OBVIOUS
<1> QED BY <1>1, <1>2, FS_Subset

\* Every step is a step of the completion queue, or leaves it alone.
LEMMA StepsOfCq == [DpNext]_dpVars => [Next]_vars
<1> SUFFICES ASSUME [DpNext]_dpVars PROVE [Next]_vars
  OBVIOUS
<1>1. CASE SqStep
  BY <1>1 DEF SqStep, cqVars, vars
<1>2. CASE PollStep
  BY <1>2 DEF PollStep, Next, Poll
<1>3. CASE PollReap
  BY <1>3 DEF PollReap, Next, Poll
<1>4. CASE \E v \in Verdicts : Complete(v)
  BY <1>4 DEF Complete, Next, Device
<1>5. CASE HandOver
  BY <1>5 DEF HandOver, Next, Device
<1>6. CASE UNCHANGED dpVars
  BY <1>6 DEF dpVars, cqVars, vars
<1> QED BY <1>1, <1>2, <1>3, <1>4, <1>5, <1>6 DEF DpNext

\* So the completion queue keeps its specification when it is used with a queue
\* pair, and with it what is proved of poll_cq.
THEOREM PollersUseTheRing == DpSpec => Spec
<1>1. DpInit => Init
  BY DEF DpInit
<1> QED BY <1>1, StepsOfCq, PTL DEF DpSpec, Spec

\* A successful poll consumes a completion handed over, under its own number.
LEMMA OkPollIsEarned ==
    ASSUME DpInv, PollOk
    PROVE  /\ ci < hwPi
           /\ last'.body.num = ci
           /\ ci \notin reported
           /\ reaped < hwExec
<1>1. ci < hwPi
  BY DEF PollOk, DpInv, IInv, PollInv
<1>2. last'.body.num = ci
  <2>1. IInv'
    BY ConsumeKeepsIInv DEF DpInv
  <2>2. last'.status = "ok" /\ last'.at = ci
    BY DEF PollOk, Consume
  <2> QED BY <2>1, <2>2 DEF IInv, OkIsGenuine
<1>3. ci \notin reported
  BY DpNumbers DEF DpInv, CreditInv
<1>4. reaped < hwExec
  <2>1. \A n \in reported \cup {ci} : n \in Nat /\ n < hwPi
    BY <1>1, DpNumbers DEF DpInv, CreditInv
  <2>2. Cardinality(reported \cup {ci}) <= hwPi
    BY <2>1, BelowBound, DpNumbers
  <2>3. Cardinality(reported \cup {ci}) = reaped + 1
    BY <1>3, FS_AddElement DEF DpInv, CreditInv
  <2> QED BY <2>2, <2>3, DpNumbers DEF DpInv, CreditInv
<1> QED BY <1>1, <1>2, <1>3, <1>4

\* Every step is a step of the send queue, or leaves it alone: a poll gives back
\* a request only when the device has executed one more.
LEMMA StepsOfSq == DpInv /\ [DpNext]_dpVars => [SqNext]_sqVars
<1> SUFFICES ASSUME DpInv, [DpNext]_dpVars PROVE [SqNext]_sqVars
  OBVIOUS
<1>1. CASE SqStep
  BY <1>1 DEF SqStep, SqNext
<1>2. CASE PollStep
  BY <1>2 DEF PollStep
<1>3. CASE PollReap
  <2>1. Reap
    BY <1>3, OkPollIsEarned DEF PollReap, Reap
  <2> QED BY <2>1 DEF SqNext
<1>4. CASE (\E v \in Verdicts : Complete(v)) \/ HandOver
  BY <1>4 DEF Complete, HandOver
<1>5. CASE UNCHANGED dpVars
  BY <1>5 DEF dpVars, sqVars
<1> QED BY <1>1, <1>2, <1>3, <1>4, <1>5 DEF DpNext

--------------------------------------------------------------------------------
(***************************************************************************)
(* Every step keeps the invariant.                                         *)
(***************************************************************************)

\* The queues' own invariants.
LEMMA QueuesKeepTheirs == DpInv /\ [DpNext]_dpVars => IInv' /\ SqInv'
<1> SUFFICES ASSUME DpInv, [DpNext]_dpVars PROVE IInv' /\ SqInv'
  OBVIOUS
<1>1. SqInv'
  BY StepsOfSq, StepSqInv DEF DpInv
<1>2. IInv'
  BY StepsOfCq, StepIInv DEF DpInv
<1> QED BY <1>1, <1>2

\* The credit is kept by every step.
LEMMA StepCredit == DpInv /\ [DpNext]_dpVars => CreditInv'
<1> SUFFICES ASSUME DpInv, [DpNext]_dpVars PROVE CreditInv'
  OBVIOUS
<1>0. CreditInv /\ ci \in Nat /\ hwPi \in Nat /\ hwExec \in Nat
  BY DpNumbers DEF DpInv
<1>1. CASE SqStep
  <2>1. UNCHANGED <<cqVars, reported>>
    BY <1>1 DEF SqStep
  <2>2. reaped' = reaped /\ hwExec' >= hwExec /\ hwExec' \in Nat
    BY <1>0, <1>1 DEF SqStep, Post, WriteWqe, StoreDbrec, RingDoorbell, DrainSome, Drain, SqDevice,
                      HwReadRecord, HwExecute, hostVars, devVars
  <2> QED BY <1>0, <2>1, <2>2 DEF CreditInv, cqVars
<1>2. CASE PollStep
  <2>1. UNCHANGED <<reported, reaped, hwExec, hwPi, dma>> /\ ci' >= ci /\ ci' \in Nat
    BY <1>0, <1>2 DEF PollStep, sqVars, PollOwner, PollOpcode, PollError, PollEmpty, Consume, hwVars
  <2> QED BY <1>0, <2>1 DEF CreditInv
<1>3. CASE PollReap
  <2>1. /\ ci < hwPi /\ ci \notin reported /\ reported' = reported \cup {ci}
        /\ reaped' = reaped + 1
    BY <1>3, OkPollIsEarned DEF PollReap
  <2>2. UNCHANGED <<hwExec, hwPi, dma>> /\ ci' = ci + 1
    BY <1>3 DEF PollReap, PollOk, Consume, hwVars, devVars
  <2>3. IsFiniteSet(reported') /\ Cardinality(reported') = reaped'
    BY <1>0, <2>1, FS_AddElement DEF CreditInv
  <2> QED BY <1>0, <2>1, <2>2, <2>3 DEF CreditInv
<1>4. ASSUME NEW v \in Verdicts, Complete(v)
      PROVE  CreditInv'
  BY <1>0, <1>4 DEF Complete, HwWriteBody, swVars, sqVars, CreditInv
<1>5. CASE HandOver
  BY <1>0, <1>5 DEF HandOver, HwHandOver, swVars, sqVars, CreditInv
<1>6. CASE UNCHANGED dpVars
  BY <1>0, <1>6 DEF dpVars, cqVars, sqVars, CreditInv
<1> QED BY <1>1, <1>2, <1>3, <1>4, <1>5, <1>6 DEF DpNext

\* The invariant of the two queues together holds throughout every run.
LEMMA DpInductive == QueuesFit /\ DpSpec => []DpInv
<1>1. QueuesFit /\ DpInit => DpInv
  <2> SUFFICES ASSUME QueuesFit, DpInit PROVE DpInv
    OBVIOUS
  <2>1. IInv /\ SqInv
    BY InitIInv, InitSqInv DEF QueuesFit, DpInit
  <2>2. CreditInv
    BY FS_EmptySet DEF DpInit, Init, SqInit, CreditInv
  <2> QED BY <2>1, <2>2 DEF DpInv
<1>2. DpInv /\ [DpNext]_dpVars => DpInv'
  BY QueuesKeepTheirs, StepCredit DEF DpInv
<1> QED BY <1>1, <1>2, PTL DEF DpSpec

--------------------------------------------------------------------------------
(***************************************************************************)
(* What follows.                                                           *)
(***************************************************************************)

\* Everything keeps its type while the two queues are used together.
THEOREM DpTypesHold == QueuesFit /\ DpSpec => []DpTypeOK
<1>1. DpInv => DpTypeOK
  <2> SUFFICES ASSUME DpInv PROVE DpTypeOK
    OBVIOUS
  <2>1. reported \subseteq -1 .. MaxCqes
    BY DpNumbers, CqAssumption DEF DpInv, CreditInv
  <2> QED BY <2>1 DEF DpInv, IInv, TypeInv, SqInv, DpTypeOK
<1> QED BY <1>1, DpInductive, PTL

\* Whatever the two queues do to each other, what is proved of the send queue
\* alone, with a caller that reaps as it likes, holds of the caller that polls:
\* the WQEs under the record are whole, and execution is in posting order.
THEOREM SendQueueInUse ==
    QueuesFit /\ DpSpec => [](RecordCoversWrittenWqes /\ ExecutedInOrder)
<1>1. DpInv => RecordCoversWrittenWqes /\ ExecutedInOrder
  BY CoverFollows DEF DpInv, SqInv, DevInv, ExecutedInOrder
<1> QED BY <1>1, DpInductive, PTL

\* A request is given back by a poll only after the device has executed one
\* more, and no completion is counted twice: the caller that counts STATUS_OK
\* never reuses the slot of a WQE the device may still fetch.
THEOREM CreditsAreEarned == QueuesFit /\ DpSpec => []CreditIsEarned
<1>1. DpInv => CreditIsEarned
  BY DEF DpInv, CreditInv, SqInv, DevInv, CreditIsEarned
<1> QED BY <1>1, DpInductive, PTL

\* A completion ring as large as the caller's window never overflows, also when
\* polls fail or run ahead of the device in the first pass.
THEOREM CompletionsFit == QueuesFit /\ CqHoldsWindow /\ DpSpec => []NoCqOverrun
<1> SUFFICES ASSUME CqHoldsWindow
             PROVE  QueuesFit /\ DpSpec => []NoCqOverrun
  OBVIOUS
<1>1. DpInv => NoCqOverrun
  <2> SUFFICES ASSUME DpInv, hwPi < hwExec PROVE HasRoom
    BY DEF NoCqOverrun
  <2>1. /\ ci \in Nat /\ hwPi \in Nat /\ hwExec \in Nat /\ reaped \in Nat
        /\ CqeCnt \in Nat \ {0} /\ CiWrap \in Nat \ {0} /\ CiWrap > 2 * CqeCnt /\ Window \in Nat
    BY DpNumbers, CqAssumption, SqAssumption
  <2>2. dbrCi = ci % CiWrap
    BY DEF DpInv, IInv, IndexInv, DbrValue
  <2>3. CASE hwPi >= ci
    <3>1. hwExec <= reaped + Window
      BY <2>1, ExecutedInWindow DEF DpInv
    <3>2. reaped <= ci
      BY <2>1, BelowBound DEF DpInv, CreditInv
    <3>3. hwPi - ci \in 0 .. CqeCnt - 1
      BY <2>1, <2>3, <3>1, <3>2 DEF CqHoldsWindow
    <3>4. PICK d \in 0 .. CqeCnt - 1 : hwPi = ci + d
      BY <2>1, <3>3, hwPi = ci + (hwPi - ci)
    <3>5. d \in 0 .. CiWrap - 1
      BY <2>1
    <3>6. ((ci + d) - (ci % CiWrap)) % CiWrap = d
      BY <2>1, <3>5, ModularDistance
    <3> QED BY <2>1, <2>2, <3>4, <3>6 DEF HasRoom
  <2>4. CASE hwPi < ci
    <3>1. ci <= CqeCnt
      BY <2>1, <2>4 DEF DpInv, IInv, IndexInv, AheadOnlyInFirstPass
    <3>2. ci % CiWrap = ci
      <4>1. ci \in 0 .. CiWrap - 1
        BY <2>1, <3>1
      <4> QED BY <2>1, <4>1, FirstPass
    <3> DEFINE d == CiWrap + hwPi - ci
    <3>3. d \in 0 .. CiWrap - 1 /\ d >= CiWrap - CqeCnt /\ hwPi - ci = CiWrap * (-1) + d
      BY <2>1, <2>4, <3>1
    <3> HIDE DEF d
    <3>4. (CiWrap * (-1) + d) % CiWrap = d
      BY <2>1, <3>3, ModOfMultipleMinus
    <3> QED BY <2>1, <2>2, <3>2, <3>3, <3>4 DEF HasRoom
  <2> QED BY <2>1, <2>3, <2>4
<1> QED BY <1>1, DpInductive, PTL

--------------------------------------------------------------------------------
(***************************************************************************)
(* The two queues implement WorkRequests, its liveness aside.              *)
(***************************************************************************)

\* Requests handed to the device: the refinement mapping of DataPath.
Submitted == posted + (IF sqPc = "recorded" THEN 1 ELSE 0)

\* The device executes only what was submitted.
LEMMA SubmittedFirst ==
    ASSUME SqInv
    PROVE  Submitted \in Nat /\ Recorded <= Submitted
<1>1. posted \in Nat
  BY SqAssumption DEF SqInv, SqTypeOK
<1>2. Recorded <= posted + (IF sqPc = "recorded" THEN 1 ELSE 0)
  BY Counts DEF SqInv
<1> QED BY <1>1, <1>2 DEF Submitted

\* The instance counts sets with the same operator.
LEMMA SameCardinality ==
    ASSUME NEW S
    PROVE  Requests!Cardinality(S) = Cardinality(S)
BY DEF Requests!Cardinality, Cardinality, Requests!IsFiniteSet, IsFiniteSet

\* A step of the send queue submits a request, executes one, or is not seen.
LEMMA SqStepRefines ==
    ASSUME DpInv, SqStep
    PROVE  [Requests!WrNext]_(Requests!wrVars)
<1> USE DEF SqStep, cqVars, hostVars, memVars, devVars, Requests!wrVars
<1>0. posted \in Nat /\ hwExec \in Nat /\ CreditInv /\ HostInv
  BY DpNumbers DEF DpInv, SqInv
<1>1. CASE WriteWqe
  BY <1>1 DEF WriteWqe
<1>2. CASE StoreDbrec
  <2>1. posted < MaxPosts /\ posted - Cardinality(reported) < Window
    BY <1>0, <1>2 DEF HostInv, CreditInv, StoreDbrec
  <2>2. Requests!Submit
    BY <1>0, <1>2, <2>1, SameCardinality DEF StoreDbrec, Requests!Submit
  <2> QED BY <2>2 DEF Requests!WrNext
<1>3. CASE RingDoorbell
  BY <1>0, <1>3 DEF RingDoorbell
<1>4. CASE DrainSome
  BY <1>4 DEF DrainSome, Drain
<1>5. CASE HwReadRecord
  BY <1>5 DEF HwReadRecord
<1>6. CASE HwExecute
  <2>1. hwExec < posted + (IF sqPc = "recorded" THEN 1 ELSE 0)
    <3>1. hwExec < Recorded /\ Recorded <= Submitted /\ Submitted \in Nat /\ Recorded \in Nat
      BY <1>6, ExecuteIsCovered, SubmittedFirst, Counts DEF DpInv, SqInv
    <3> QED BY <1>0, <3>1 DEF Submitted
  <2>2. Requests!Execute
    BY <1>6, <2>1 DEF HwExecute, Requests!Execute
  <2> QED BY <2>2 DEF Requests!WrNext
<1> QED BY <1>1, <1>2, <1>3, <1>4, <1>5, <1>6 DEF Post, SqDevice

\* A poll reports a request, steps over one, or is not seen.
LEMMA PollRefines ==
    ASSUME DpInv, PollStep \/ PollReap
    PROVE  [Requests!WrNext]_(Requests!wrVars)
<1> USE DEF sqVars, hostVars, devVars, hwVars, Requests!wrVars
<1>0. ci \in Nat /\ hwPi \in Nat /\ hwExec \in Nat /\ hwPi <= hwExec
  BY DpNumbers DEF DpInv, CreditInv
<1>1. CASE PollStep /\ (PollOwner \/ PollOpcode \/ PollEmpty)
  BY <1>1 DEF PollStep, PollOwner, PollOpcode, PollEmpty
<1>2. CASE PollStep /\ PollError
  <2>1. ci < hwPi \/ ci < CqeCnt
    BY <1>2 DEF PollError, DpInv, IInv, PollInv
  <2>2. ci < hwExec \/ ci < CqeCnt
    BY <1>0, <2>1
  <2>3. Requests!StepOver
    BY <1>2, <2>2 DEF PollStep, PollError, Consume, Requests!StepOver
  <2> QED BY <2>3 DEF Requests!WrNext
<1>3. CASE PollReap
  <2>1. ci < hwPi /\ reported' = reported \cup {ci} /\ ci' = ci + 1
    BY <1>3, OkPollIsEarned DEF PollReap, PollOk, Consume
  <2>2. Requests!Report
    BY <1>0, <1>3, <2>1 DEF PollReap, Requests!Report
  <2> QED BY <2>2 DEF Requests!WrNext
<1> QED BY <1>1, <1>2, <1>3 DEF PollStep

\* Every step of the data path is a step of the abstract work requests, or leaves them alone.
LEMMA StepRefines ==
    ASSUME DpInv, [DpNext]_dpVars
    PROVE  [Requests!WrNext]_(Requests!wrVars)
<1>1. CASE SqStep
  BY <1>1, SqStepRefines
<1>2. CASE PollStep \/ PollReap
  BY <1>2, PollRefines
<1>3. CASE (\E v \in Verdicts : Complete(v)) \/ HandOver
  BY <1>3 DEF Complete, HwWriteBody, HandOver, HwHandOver, sqVars, swVars, Requests!wrVars
<1>4. CASE UNCHANGED dpVars
  BY <1>4 DEF dpVars, cqVars, sqVars, Requests!wrVars
<1> QED BY <1>1, <1>2, <1>3, <1>4 DEF DpNext

\* Posting and polling together keep the promise WorkRequests makes the caller:
\* requests are executed in posting order and never more than submitted, each is
\* reported at most once and in that order, and a poll steps over a request that
\* was not executed in the first pass over the completion ring only.
THEOREM RequestsKept == QueuesFit /\ DpSpec => Requests!WrSafeSpec
<1>1. DpInit => Requests!WrInit
  BY DEF DpInit, Init, SqInit, Requests!WrInit
<1>2. DpInv /\ [DpNext]_dpVars => [Requests!WrNext]_(Requests!wrVars)
  BY StepRefines
<1> QED BY <1>1, <1>2, DpInductive, PTL DEF DpSpec, Requests!WrSafeSpec
================================================================================
