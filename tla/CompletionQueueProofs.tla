------------------------- MODULE CompletionQueueProofs -------------------------
(***************************************************************************)
(* Theorems of CompletionQueue, for rings of every size.                   *)
(***************************************************************************)
EXTENDS CompletionQueue, Arithmetic

\* poll_cq walks the ring the device writes.
SameRing == PollCnt = CqeCnt

\* The entry of completion n as the device leaves it, its body aside.
HandedOver(n) ==
    /\ cqe[HwSlot(n)].op \in Verdicts
    /\ cqe[HwSlot(n)].owner = HwOwner(n)

HasBody(n) == cqe[HwSlot(n)].body = [num |-> n, verdict |-> cqe[HwSlot(n)].op]

\* The device writes the entry of completion hwPi, and has room for it.
DmaInv ==
    dma # NoEntry =>
        /\ dma.num = hwPi
        /\ dma.verdict \in Verdicts
        /\ hwPi < MaxCqes

TypeInv == TypeOK /\ DmaInv

\* The last CqeCnt completions are in the ring; the entry being written has
\* lost its old body only.
RingInv ==
    /\ \A n \in 0 .. hwPi - 1 :
         hwPi <= n + CqeCnt =>
             /\ HandedOver(n)
             /\ dma = NoEntry \/ hwPi < n + CqeCnt => HasBody(n)
    /\ \A s \in Slots : s >= hwPi => cqe[s].op = "invalid" /\ cqe[s].owner = 0
    /\ dma # NoEntry => cqe[HwSlot(hwPi)].body = dma

\* The two indices, and the one of the doorbell record.
IndexInv ==
    /\ dbrCi = DbrValue(ci)
    /\ hwPi <= ci + CqeCnt
    /\ dma # NoEntry => hwPi < ci + CqeCnt
    /\ AheadOnlyInFirstPass

\* What poll_cq may conclude from the bits it has loaded.
PollInv ==
    /\ pc # "idle" /\ Owned => ci < hwPi \/ ci < CqeCnt
    /\ pc = "decide" /\ Owned /\ seenOp # "invalid"
         => ci < hwPi /\ seenOp = cqe[HwSlot(ci)].op
    /\ pc = "decide" /\ Owned /\ seenOp = "invalid" => ci < CqeCnt

IInv == SameRing /\ TypeInv /\ RingInv /\ IndexInv /\ PollInv
        /\ OkIsGenuine /\ ErrorIsGenuine

--------------------------------------------------------------------------------
(***************************************************************************)
(* The ring operators.                                                     *)
(***************************************************************************)

\* Slots are in the ring, owner bits are bits, published indices fit.
LEMMA RingTypes ==
    ASSUME NEW n \in Nat
    PROVE  /\ HwSlot(n) \in Slots
           /\ HwOwner(n) \in {0, 1}
           /\ ExpectedOwner(n) \in {0, 1}
           /\ DbrValue(n) \in 0 .. CiWrap - 1
<1>1. HwSlot(n) \in Slots /\ n \div CqeCnt \in Nat
  BY CqAssumption, DivMod DEF HwSlot, Slots
<1>2. n \div PollCnt \in Nat
  BY CqAssumption, DivMod
<1>3. DbrValue(n) \in 0 .. CiWrap - 1
  <2>1. CiWrap \in Nat \ {0}
    BY CqAssumption
  <2> QED BY <2>1, DivMod DEF DbrValue
<1> QED BY <1>1, <1>2, <1>3 DEF HwOwner, ExpectedOwner

\* When the rings agree, poll_cq computes the device's slot and owner bit.
LEMMA PollMatchesDevice ==
    ASSUME SameRing, NEW n \in Nat
    PROVE  PollSlot(n) = HwSlot(n) /\ ExpectedOwner(n) = HwOwner(n)
BY DEF SameRing, PollSlot, HwSlot, ExpectedOwner, HwOwner

\* A pass later the same slot carries the other owner bit.
LEMMA OwnerFlips ==
    ASSUME NEW n \in Nat
    PROVE  HwSlot(n + CqeCnt) = HwSlot(n) /\ HwOwner(n + CqeCnt) # HwOwner(n)
<1>1. /\ (n + CqeCnt) % CqeCnt = n % CqeCnt
      /\ (n + CqeCnt) \div CqeCnt = (n \div CqeCnt) + 1
      /\ n \div CqeCnt \in Nat
  BY CqAssumption, NextPass, DivMod
<1> QED BY <1>1 DEF HwSlot, HwOwner

\* In the first pass the slot is the index and the owner bit is 0.
LEMMA FirstPassSlot ==
    ASSUME NEW n \in 0 .. CqeCnt - 1
    PROVE  HwSlot(n) = n /\ HwOwner(n) = 0
<1>1. n % CqeCnt = n /\ n \div CqeCnt = 0
  BY CqAssumption, FirstPass
<1> QED BY <1>1 DEF HwSlot, HwOwner

\* Two completions less than a ring apart do not share a slot.
LEMMA SlotsApart ==
    ASSUME NEW a \in Nat, NEW b \in Nat, a < b, b < a + CqeCnt
    PROVE  HwSlot(a) # HwSlot(b)
BY CqAssumption, SlotUnique DEF HwSlot

\* The device finds no room when it is a full ring ahead of what was consumed.
LEMMA FullRing ==
    ASSUME NEW c \in Nat, hwPi = c + CqeCnt, dbrCi = DbrValue(c)
    PROVE  ~HasRoom
<1>1. (hwPi - dbrCi) % CiWrap = CqeCnt
  <2>1. CiWrap \in Nat \ {0} /\ CqeCnt \in 0 .. CiWrap - 1
    BY CqAssumption
  <2>2. ((c + CqeCnt) - (c % CiWrap)) % CiWrap = CqeCnt
    BY <2>1, ModularDistance
  <2> QED BY <2>2 DEF DbrValue
<1> QED BY <1>1, CqAssumption DEF HasRoom

--------------------------------------------------------------------------------
(***************************************************************************)
(* Types.                                                                  *)
(***************************************************************************)

\* What a poll reads has its type, inside the ring and beyond it.
LEMMA LoadTypes ==
    ASSUME TypeOK, NEW s
    PROVE  /\ OwnersAt(s) \subseteq {0, 1}
           /\ OpcodesAt(s) \subseteq Opcodes
           /\ BodyAt(s) \in Bodies
<1>1. NoBody \in Bodies
  BY CqAssumption DEF NoBody, Bodies, Opcodes
<1>2. CASE s \in Slots
  BY <1>2 DEF TypeOK, OwnersAt, OpcodesAt, BodyAt
<1>3. CASE s \notin Slots
  BY <1>1, <1>3 DEF OwnersAt, OpcodesAt, BodyAt
<1> QED BY <1>2, <1>3

\* A poll step keeps the types.
LEMMA PollKeepsTypes ==
    ASSUME TypeInv, Poll
    PROVE  TypeInv'
<1> USE DEF TypeInv, hwVars
<1>1. ci \in Nat /\ NoBody \in Bodies
  BY CqAssumption DEF TypeOK, NoBody, Bodies, Opcodes
<1>2. DmaInv'
  BY DEF Poll, PollOwner, PollOpcode, PollOk, PollError, PollEmpty, Consume, DmaInv
<1>3. CASE PollOwner
  BY <1>2, <1>3, LoadTypes DEF PollOwner, TypeOK
<1>4. CASE PollOpcode
  BY <1>2, <1>4, LoadTypes DEF PollOpcode, TypeOK
<1>5. ASSUME NEW st \in {"ok", "error"}, Consume(st)
      PROVE  TypeOK'
  <2>1. DbrValue(ci + 1) \in 0 .. CiWrap - 1
    BY <1>1, RingTypes
  <2>2. BodyAt(PollSlot(ci)) \in Bodies
    BY LoadTypes
  <2> QED BY <1>1, <1>5, <2>1, <2>2 DEF Consume, TypeOK
<1>6. CASE PollOk
  BY <1>2, <1>5, <1>6 DEF PollOk
<1>7. CASE PollError
  BY <1>2, <1>5, <1>7 DEF PollError
<1>8. CASE PollEmpty
  BY <1>1, <1>2, <1>8 DEF PollEmpty, TypeOK
<1> QED BY <1>3, <1>4, <1>6, <1>7, <1>8 DEF Poll

\* A device step keeps the types.
LEMMA DeviceKeepsTypes ==
    ASSUME TypeInv, Device
    PROVE  TypeInv'
<1> USE DEF TypeInv
<1>1. HwSlot(hwPi) \in Slots /\ HwOwner(hwPi) \in {0, 1}
  BY RingTypes DEF TypeOK
<1>2. ASSUME NEW v \in Verdicts, HwWriteBody(v)
      PROVE  TypeInv'
  <2>1. [num |-> hwPi, verdict |-> v] \in Bodies
    BY DEF TypeOK, Bodies, Opcodes
  <2>2. cqe' \in [Slots -> [op : Opcodes, owner : {0, 1}, body : Bodies]]
    BY <1>1, <1>2, <2>1 DEF HwWriteBody, TypeOK
  <2>3. DmaInv'
    BY <1>2 DEF HwWriteBody, DmaInv
  <2> QED BY <1>2, <2>1, <2>2, <2>3 DEF HwWriteBody, swVars, TypeOK
<1>3. CASE HwHandOver
  <2>1. dma.verdict \in Opcodes /\ hwPi < MaxCqes
    BY <1>3 DEF HwHandOver, DmaInv, Opcodes
  <2>2. cqe' \in [Slots -> [op : Opcodes, owner : {0, 1}, body : Bodies]]
    BY <1>1, <1>3, <2>1 DEF HwHandOver, TypeOK
  <2>3. NoEntry \in Bodies
    BY CqAssumption DEF NoEntry, NoBody, Bodies, Opcodes
  <2>4. hwPi' \in 0 .. MaxCqes
    BY <1>3, <2>1, CqAssumption DEF HwHandOver, TypeOK
  <2> QED BY <1>3, <2>2, <2>3, <2>4 DEF HwHandOver, swVars, TypeOK, DmaInv
<1> QED BY <1>2, <1>3 DEF Device

\* Every variable keeps its type in every reachable state, whatever the size of
\* the ring, of the ring poll_cq walks and of the consumer index.
THEOREM TypeCorrect == Spec => []TypeOK
<1>1. Init => TypeInv
  <2> SUFFICES ASSUME Init PROVE TypeInv
    OBVIOUS
  <2>1. \A s \in Slots : InitOwner(s) \in {0, 1}
    BY CqAssumption, FirstPass DEF Slots, InitOwner
  <2>2. NoBody \in Bodies
    BY CqAssumption DEF NoBody, Bodies, Opcodes
  <2> QED BY <2>1, <2>2, CqAssumption DEF Init, TypeInv, TypeOK, DmaInv, NoEntry, Opcodes
<1>2. TypeInv /\ [Next]_vars => TypeInv'
  <2>1. CASE UNCHANGED vars
    BY <2>1 DEF vars, TypeInv, TypeOK, DmaInv
  <2> QED BY <2>1, PollKeepsTypes, DeviceKeepsTypes DEF Next
<1>3. TypeInv => TypeOK
  BY DEF TypeInv
<1> QED BY <1>1, <1>2, <1>3, PTL DEF Spec

--------------------------------------------------------------------------------
(***************************************************************************)
(* The inductive invariant.                                                *)
(***************************************************************************)

\* A handed-over owner bit at the slot of ci means that completion ci is there,
\* or that the ring is still in its first pass.
LEMMA OwnerMeansPresent ==
    ASSUME IInv, cqe[HwSlot(ci)].owner = HwOwner(ci)
    PROVE  ci < hwPi \/ ci < CqeCnt
<1> USE DEF IInv, TypeInv
<1>1. ci \in Nat /\ hwPi \in Nat /\ CqeCnt \in Nat \ {0}
  BY CqAssumption DEF TypeOK
<1> SUFFICES ASSUME ci >= hwPi, ci >= CqeCnt PROVE FALSE
  BY <1>1
\* The slot then holds the completion a ring earlier, under the other bit.
<1>2. ASSUME ci - CqeCnt < hwPi
      PROVE  FALSE
  <2> DEFINE n == ci - CqeCnt
  <2>1. n \in 0 .. hwPi - 1 /\ hwPi <= n + CqeCnt /\ ci = n + CqeCnt /\ n \in Nat
    BY <1>1, <1>2
  <2>2. cqe[HwSlot(n)].owner = HwOwner(n)
    BY <2>1 DEF RingInv, HandedOver
  <2>3. HwSlot(ci) = HwSlot(n) /\ HwOwner(ci) # HwOwner(n)
    BY <2>1, OwnerFlips
  <2> QED BY <2>2, <2>3
\* Otherwise the device has produced nothing and ci has gone round once.
<1>3. ASSUME ~(ci - CqeCnt < hwPi)
      PROVE  FALSE
  <2>1. ci = CqeCnt /\ hwPi = 0
    BY <1>1, <1>3 DEF IndexInv, AheadOnlyInFirstPass
  <2>2. HwSlot(ci) = HwSlot(0) /\ HwOwner(ci) # HwOwner(0)
    BY <1>1, <2>1, OwnerFlips
  <2>3. HwSlot(0) = 0 /\ HwOwner(0) = 0 /\ 0 \in Slots
    BY <1>1, FirstPassSlot DEF Slots
  <2>4. cqe[0].owner = 0
    BY <2>1, <2>3 DEF RingInv
  <2> QED BY <2>2, <2>3, <2>4
<1> QED BY <1>2, <1>3

\* An entry handed over and not yet consumed is whole.
LEMMA UnreadWhole ==
    ASSUME IInv, NEW n \in Nat, ci <= n, n < hwPi
    PROVE  HandedOver(n) /\ HasBody(n)
<1>1. ci \in Nat /\ hwPi \in Nat /\ CqeCnt \in Nat
  BY CqAssumption DEF IInv, TypeInv, TypeOK
<1>2. n \in 0 .. hwPi - 1 /\ hwPi <= n + CqeCnt
  BY <1>1 DEF IInv, IndexInv
<1>3. dma = NoEntry \/ hwPi < n + CqeCnt
  BY <1>1 DEF IInv, IndexInv
<1> QED BY <1>2, <1>3 DEF IInv, RingInv

\* Loads: only the local variables change.
LEMMA LoadKeepsIInv ==
    ASSUME IInv, PollOwner \/ PollOpcode \/ PollEmpty
    PROVE  IInv'
<1> USE DEF hwVars
<1>0. ci \in Nat /\ hwPi \in Nat /\ CqeCnt \in Nat
  BY CqAssumption DEF IInv, TypeInv, TypeOK
<1>1. TypeInv'
  BY PollKeepsTypes DEF IInv, Poll
<1>2. SameRing' /\ RingInv' /\ IndexInv'
  BY DEF IInv, PollOwner, PollOpcode, PollEmpty, SameRing, RingInv, IndexInv,
         AheadOnlyInFirstPass, HandedOver, HasBody, HwSlot, HwOwner
<1>3. OkIsGenuine' /\ ErrorIsGenuine'
  BY DEF IInv, PollOwner, PollOpcode, PollEmpty, OkIsGenuine, ErrorIsGenuine
<1>4. PollSlot(ci) = HwSlot(ci) /\ ExpectedOwner(ci) = HwOwner(ci) /\ HwSlot(ci) \in Slots
  BY <1>0, PollMatchesDevice, RingTypes DEF IInv
<1>5. CASE PollOwner
  <2>1. seenOwner' = cqe[HwSlot(ci)].owner
    BY <1>4, <1>5 DEF PollOwner, OwnersAt
  <2>2. ci' = ci /\ hwPi' = hwPi /\ pc' = "opcode" /\ (Owned' <=> seenOwner' = HwOwner(ci))
    BY <1>4, <1>5 DEF PollOwner, Owned
  <2>3. PollInv'
    BY <2>1, <2>2, OwnerMeansPresent DEF PollInv
  <2> QED BY <1>1, <1>2, <1>3, <2>3 DEF IInv
<1>6. CASE PollOpcode
  <2>1. seenOp' = cqe[HwSlot(ci)].op
    BY <1>4, <1>6 DEF PollOpcode, OpcodesAt
  <2>2. /\ ci' = ci /\ hwPi' = hwPi /\ cqe' = cqe /\ pc = "opcode" /\ pc' = "decide"
        /\ Owned' <=> Owned
        /\ HwSlot(ci)' = HwSlot(ci)
    BY <1>6 DEF PollOpcode, Owned, HwSlot, ExpectedOwner
  <2>3. Owned => ci < hwPi \/ ci < CqeCnt
    BY <2>2 DEF IInv, PollInv
  <2>4. Owned /\ seenOp' # "invalid" => ci < hwPi
    <3> SUFFICES ASSUME Owned, seenOp' # "invalid", ~(ci < hwPi) PROVE FALSE
      OBVIOUS
    <3>1. ci \in 0 .. CqeCnt - 1 /\ ci >= hwPi
      BY <1>0, <2>3
    <3>2. HwSlot(ci) = ci /\ ci \in Slots
      BY <3>1, FirstPassSlot DEF Slots
    <3> QED BY <2>1, <3>1, <3>2 DEF IInv, RingInv
  <2>5. Owned /\ seenOp' = "invalid" => ci < CqeCnt
    <3> SUFFICES ASSUME Owned, seenOp' = "invalid", ci < hwPi PROVE FALSE
      BY <2>3
    <3>1. HandedOver(ci)
      BY <1>0, UnreadWhole
    <3> QED BY <2>1, <3>1 DEF HandedOver, Verdicts
  <2>6. PollInv'
    BY <2>1, <2>2, <2>3, <2>4, <2>5 DEF PollInv
  <2> QED BY <1>1, <1>2, <1>3, <2>6 DEF IInv
<1>7. CASE PollEmpty
  BY <1>1, <1>2, <1>3, <1>7 DEF PollEmpty, PollInv, IInv
<1> QED BY <1>5, <1>6, <1>7

\* Consuming an entry: what is reported is what the slot holds.
LEMMA ConsumeKeepsIInv ==
    ASSUME IInv, PollOk \/ PollError
    PROVE  IInv'
<1> USE DEF hwVars
<1>0. ci \in Nat /\ hwPi \in Nat /\ CqeCnt \in Nat /\ CqeCnt > 0
  BY CqAssumption DEF IInv, TypeInv, TypeOK
<1>1. TypeInv'
  BY PollKeepsTypes DEF IInv, Poll
<1>2. /\ ci' = ci + 1 /\ hwPi' = hwPi /\ dma' = dma /\ cqe' = cqe
      /\ dbrCi' = DbrValue(ci + 1)
      /\ pc = "decide" /\ pc' = "idle" /\ Owned
  BY DEF PollOk, PollError, Consume
<1>3. SameRing' /\ RingInv'
  BY <1>2 DEF IInv, SameRing, RingInv, HandedOver, HasBody, HwSlot, HwOwner
<1>4. ci < hwPi \/ ci < CqeCnt
  BY <1>2 DEF IInv, PollInv
<1>5. IndexInv'
  <2>1. dbrCi' = DbrValue(ci)'
    BY <1>2 DEF DbrValue
  <2>2. hwPi' <= ci' + CqeCnt /\ (dma' # NoEntry => hwPi' < ci' + CqeCnt)
    BY <1>0, <1>2 DEF IInv, IndexInv
  <2>3. AheadOnlyInFirstPass'
    BY <1>0, <1>2, <1>4 DEF AheadOnlyInFirstPass
  <2> QED BY <2>1, <2>2, <2>3 DEF IndexInv, NoEntry, NoBody
<1>6. PollInv'
  BY <1>2 DEF PollInv
<1>7. BodyAt(PollSlot(ci)) = cqe[HwSlot(ci)].body
  <2>1. PollSlot(ci) = HwSlot(ci) /\ HwSlot(ci) \in Slots
    BY <1>0, PollMatchesDevice, RingTypes DEF IInv
  <2> QED BY <2>1 DEF BodyAt
<1>8. ASSUME seenOp # "invalid"
      PROVE  cqe[HwSlot(ci)].body = [num |-> ci, verdict |-> seenOp]
  <2>1. ci < hwPi /\ seenOp = cqe[HwSlot(ci)].op
    BY <1>2, <1>8 DEF IInv, PollInv
  <2>2. HasBody(ci)
    BY <1>0, <2>1, UnreadWhole
  <2> QED BY <2>1, <2>2 DEF HasBody
<1>9. CASE PollOk
  <2>1. last' = [status |-> "ok", at |-> ci, body |-> cqe[HwSlot(ci)].body] /\ seenOp = "req"
    BY <1>7, <1>9 DEF PollOk, Consume
  <2>2. OkIsGenuine' /\ ErrorIsGenuine'
    BY <2>1, <1>8 DEF OkIsGenuine, ErrorIsGenuine
  <2> QED BY <1>1, <1>3, <1>5, <1>6, <2>2 DEF IInv
<1>10. CASE PollError
  <2>1. /\ last' = [status |-> "error", at |-> ci, body |-> cqe[HwSlot(ci)].body]
        /\ seenOp # "req"
    BY <1>7, <1>10 DEF PollError, Consume
  <2>2. ci >= CqeCnt => seenOp = "err"
    <3>1. seenOp \in Opcodes
      BY DEF IInv, TypeInv, TypeOK
    <3>2. seenOp = "invalid" => ci < CqeCnt
      BY <1>2 DEF IInv, PollInv
    <3> QED BY <1>0, <2>1, <3>1, <3>2 DEF Opcodes, Verdicts
  <2>3. OkIsGenuine' /\ ErrorIsGenuine'
    BY <2>1, <2>2, <1>8 DEF OkIsGenuine, ErrorIsGenuine
  <2> QED BY <1>1, <1>3, <1>5, <1>6, <2>3 DEF IInv
<1> QED BY <1>9, <1>10

\* The device starts an entry: the slot it takes holds the oldest completion,
\* which has been consumed.
LEMMA WriteBodyKeepsIInv ==
    ASSUME IInv, NEW v \in Verdicts, HwWriteBody(v)
    PROVE  IInv'
<1> USE DEF swVars
<1>0. ci \in Nat /\ hwPi \in Nat /\ CqeCnt \in Nat /\ CqeCnt > 0
  BY CqAssumption DEF IInv, TypeInv, TypeOK
<1>1. TypeInv'
  BY DeviceKeepsTypes DEF IInv, Device
<1>2. /\ hwPi' = hwPi /\ ci' = ci /\ dbrCi' = dbrCi /\ dma = NoEntry
      /\ dma' = [num |-> hwPi, verdict |-> v]
      /\ cqe' = [cqe EXCEPT ![HwSlot(hwPi)].body = dma']
  BY DEF HwWriteBody
<1>3. HwSlot(hwPi) \in Slots /\ cqe \in [Slots -> [op : Opcodes, owner : {0, 1}, body : Bodies]]
  BY <1>0, RingTypes DEF IInv, TypeInv, TypeOK
<1>4. hwPi < ci + CqeCnt
  <2>1. hwPi # ci + CqeCnt
    BY <1>0, FullRing DEF HwWriteBody, IInv, IndexInv
  <2> QED BY <1>0, <2>1 DEF IInv, IndexInv
\* Only one body changes.
<1>5. /\ \A s \in Slots : cqe'[s].op = cqe[s].op /\ cqe'[s].owner = cqe[s].owner
      /\ \A s \in Slots : s # HwSlot(hwPi) => cqe'[s].body = cqe[s].body
      /\ cqe'[HwSlot(hwPi)].body = dma'
  BY <1>2, <1>3
<1>6. IndexInv'
  BY <1>2, <1>4 DEF IInv, IndexInv, AheadOnlyInFirstPass, DbrValue
<1>7. RingInv'
  <2>1. ASSUME NEW n \in 0 .. hwPi - 1, hwPi <= n + CqeCnt
        PROVE  /\ HandedOver(n)'
               /\ hwPi < n + CqeCnt => HasBody(n)'
    <3>1. HwSlot(n) \in Slots
      BY <1>0, RingTypes
    <3>2. HandedOver(n) /\ HasBody(n)
      BY <1>2, <2>1 DEF IInv, RingInv
    <3>3. HandedOver(n)'
      BY <1>5, <3>1, <3>2 DEF HandedOver, HwSlot, HwOwner
    <3>4. hwPi < n + CqeCnt => HwSlot(n) # HwSlot(hwPi)
      BY <1>0, SlotsApart
    <3> QED BY <1>5, <3>1, <3>2, <3>3, <3>4 DEF HasBody, HwSlot
  <2>2. \A s \in Slots : s >= hwPi' => cqe'[s].op = "invalid" /\ cqe'[s].owner = 0
    BY <1>2, <1>5 DEF IInv, RingInv
  <2>3. dma' # NoEntry
    BY <1>0, <1>2 DEF NoEntry, NoBody
  <2> QED BY <1>2, <1>5, <2>1, <2>2, <2>3 DEF RingInv, HwSlot, NoEntry, NoBody
<1>8. PollInv'
  BY <1>0, <1>2, <1>5, RingTypes
     DEF HwWriteBody, IInv, PollInv, Owned, ExpectedOwner, HwSlot
<1>9. SameRing' /\ OkIsGenuine' /\ ErrorIsGenuine'
  BY DEF HwWriteBody, IInv, SameRing, OkIsGenuine, ErrorIsGenuine
<1> QED BY <1>1, <1>6, <1>7, <1>8, <1>9 DEF IInv

\* The device hands the entry over: completion hwPi joins the ring, the one a
\* ring earlier leaves it.
LEMMA HandOverKeepsIInv ==
    ASSUME IInv, HwHandOver
    PROVE  IInv'
<1> USE DEF swVars
<1>0. ci \in Nat /\ hwPi \in Nat /\ CqeCnt \in Nat /\ CqeCnt > 0
  BY CqAssumption DEF IInv, TypeInv, TypeOK
<1>1. TypeInv'
  BY DeviceKeepsTypes DEF IInv, Device
<1>2. /\ hwPi' = hwPi + 1 /\ ci' = ci /\ dbrCi' = dbrCi
      /\ dma # NoEntry /\ dma' = NoEntry
      /\ cqe' = [cqe EXCEPT ![HwSlot(hwPi)].op = dma.verdict,
                            ![HwSlot(hwPi)].owner = HwOwner(hwPi)]
  BY DEF HwHandOver
<1>3. HwSlot(hwPi) \in Slots /\ cqe \in [Slots -> [op : Opcodes, owner : {0, 1}, body : Bodies]]
  BY <1>0, RingTypes DEF IInv, TypeInv, TypeOK
<1>4. /\ hwPi < ci + CqeCnt
      /\ dma.verdict \in Verdicts
      /\ dma = [num |-> hwPi, verdict |-> dma.verdict]
      /\ cqe[HwSlot(hwPi)].body = dma
  BY <1>2 DEF IInv, IndexInv, RingInv, TypeInv, TypeOK, DmaInv, Bodies
<1>5. /\ \A s \in Slots : cqe'[s].body = cqe[s].body
      /\ \A s \in Slots : s # HwSlot(hwPi) => cqe'[s] = cqe[s]
      /\ cqe'[HwSlot(hwPi)].op = dma.verdict
      /\ cqe'[HwSlot(hwPi)].owner = HwOwner(hwPi)
  BY <1>2, <1>3
<1>6. IndexInv'
  BY <1>0, <1>2, <1>4 DEF IInv, IndexInv, AheadOnlyInFirstPass, DbrValue
<1>7. RingInv'
  <2>1. ASSUME NEW n \in 0 .. hwPi' - 1, hwPi' <= n + CqeCnt
        PROVE  HandedOver(n)' /\ HasBody(n)'
    <3>1. CASE n = hwPi
      BY <3>1, <1>3, <1>4, <1>5 DEF HandedOver, HasBody, HwSlot, HwOwner
    <3>2. CASE n # hwPi
      <4>1. n \in 0 .. hwPi - 1 /\ hwPi < n + CqeCnt
        BY <1>0, <1>2, <2>1, <3>2
      <4>2. HandedOver(n) /\ HasBody(n)
        BY <1>0, <4>1 DEF IInv, RingInv
      <4>3. HwSlot(n) # HwSlot(hwPi) /\ HwSlot(n) \in Slots
        BY <1>0, <4>1, SlotsApart, RingTypes
      <4> QED BY <1>5, <4>2, <4>3 DEF HandedOver, HasBody, HwSlot, HwOwner
    <3> QED BY <3>1, <3>2
  <2>2. ASSUME NEW s \in Slots, s >= hwPi'
        PROVE  cqe'[s].op = "invalid" /\ cqe'[s].owner = 0
    <3>1. s \in 0 .. CqeCnt - 1 /\ hwPi \in 0 .. CqeCnt - 1 /\ s > hwPi
      BY <1>0, <1>2, <2>2 DEF Slots
    <3>2. HwSlot(hwPi) = hwPi
      BY <3>1, FirstPassSlot
    <3> QED BY <1>5, <3>1, <3>2 DEF IInv, RingInv
  <2> QED BY <1>2, <2>1, <2>2 DEF RingInv, NoEntry, NoBody
<1>8. PollInv'
  <2>1. ci < hwPi => HwSlot(ci) # HwSlot(hwPi) /\ HwSlot(ci) \in Slots
    BY <1>0, <1>4, SlotsApart, RingTypes
  <2>2. /\ pc' = pc /\ seenOp' = seenOp /\ (Owned' <=> Owned)
        /\ HwSlot(ci)' = HwSlot(ci)
    BY DEF HwHandOver, Owned, ExpectedOwner, HwSlot
  <2>3. ci < hwPi => ci' < hwPi'
    BY <1>0, <1>2
  <2>4. ci < hwPi => cqe'[HwSlot(ci)].op = cqe[HwSlot(ci)].op
    BY <1>5, <2>1
  <2> QED BY <1>0, <1>2, <2>2, <2>3, <2>4 DEF IInv, PollInv
<1>9. SameRing' /\ OkIsGenuine' /\ ErrorIsGenuine'
  BY DEF HwHandOver, IInv, SameRing, OkIsGenuine, ErrorIsGenuine
<1> QED BY <1>1, <1>6, <1>7, <1>8, <1>9 DEF IInv

\* A queue just initialised.
LEMMA InitIInv == SameRing /\ Init => IInv
<1> SUFFICES ASSUME SameRing, Init PROVE IInv
  OBVIOUS
<1>1. TypeInv
  <2>1. \A s \in Slots : InitOwner(s) \in {0, 1}
    BY CqAssumption, FirstPass DEF Slots, InitOwner
  <2>2. NoBody \in Bodies
    BY CqAssumption DEF NoBody, Bodies, Opcodes
  <2> QED BY <2>1, <2>2, CqAssumption DEF Init, TypeInv, TypeOK, DmaInv, NoEntry, Opcodes
<1>2. \A s \in Slots : InitOwner(s) = 0
  BY CqAssumption, FirstPass DEF Slots, InitOwner
<1>3. RingInv
  BY <1>2 DEF Init, RingInv
<1>4. IndexInv
  <2>1. 0 % CiWrap = 0
    BY CqAssumption, FirstPass
  <2> QED BY <2>1, CqAssumption DEF Init, IndexInv, AheadOnlyInFirstPass, DbrValue
<1> QED BY <1>1, <1>3, <1>4 DEF Init, IInv, PollInv, OkIsGenuine, ErrorIsGenuine

\* Every step keeps the strengthening, action by action.
LEMMA StepIInv == IInv /\ [Next]_vars => IInv'
<1> SUFFICES ASSUME IInv, [Next]_vars PROVE IInv'
  OBVIOUS
<1>1. CASE PollOwner \/ PollOpcode \/ PollEmpty
  BY <1>1, LoadKeepsIInv
<1>2. CASE PollOk \/ PollError
  BY <1>2, ConsumeKeepsIInv
<1>3. CASE Device
  BY <1>3, WriteBodyKeepsIInv, HandOverKeepsIInv DEF Device
<1>4. CASE UNCHANGED vars
  BY <1>4 DEF vars, IInv, SameRing, TypeInv, TypeOK, DmaInv, RingInv, HandedOver, HasBody,
      HwSlot, HwOwner, IndexInv, AheadOnlyInFirstPass, DbrValue, PollInv, Owned,
      ExpectedOwner, OkIsGenuine, ErrorIsGenuine
<1> QED BY <1>1, <1>2, <1>3, <1>4 DEF Next, Poll

\* So it holds throughout every run on a ring the two sides agree on.
LEMMA Inductive == SameRing /\ Spec => []IInv
BY InitIInv, StepIInv, PTL DEF Spec

\* A poll that returns STATUS_OK reports the completion of its own number,
\* whole and successful, on rings of every size.
THEOREM OkPollsAreGenuine == SameRing /\ Spec => []OkIsGenuine
<1>1. IInv => OkIsGenuine
  BY DEF IInv
<1> QED BY <1>1, Inductive, PTL

\* After the first pass an error report is the failed completion of its number.
THEOREM ErrorPollsAreGenuine == SameRing /\ Spec => []ErrorIsGenuine
<1>1. IInv => ErrorIsGenuine
  BY DEF IInv
<1> QED BY <1>1, Inductive, PTL

\* The damage of the initial owner bits is over when the first pass is.
THEOREM AheadIsBounded == SameRing /\ Spec => []AheadOnlyInFirstPass
<1>1. IInv => AheadOnlyInFirstPass
  BY DEF IInv, IndexInv
<1> QED BY <1>1, Inductive, PTL

\* The device never overwrites a completion that has not been consumed.
THEOREM NoOverwrite == SameRing /\ Spec => []UnreadIntact
<1>1. IInv => UnreadIntact
  <2> SUFFICES ASSUME IInv, NEW n \in ci .. hwPi - 1
               PROVE  LET e == cqe[HwSlot(n)]
                      IN  /\ e.body.num = n
                          /\ e.op = e.body.verdict
                          /\ e.owner = HwOwner(n)
    BY DEF UnreadIntact
  <2>1. n \in Nat /\ ci <= n /\ n < hwPi
    BY DEF IInv, TypeInv, TypeOK
  <2>2. HandedOver(n) /\ HasBody(n)
    BY <2>1, UnreadWhole
  <2> QED BY <2>2 DEF HandedOver, HasBody
<1> QED BY <1>1, Inductive, PTL
================================================================================
