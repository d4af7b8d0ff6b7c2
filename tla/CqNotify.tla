------------------------------ MODULE CqNotify ------------------------------
(***************************************************************************)
(* The event side of completion_queue_devx (rdma_objects.cpp, 949-976, and *)
(* cq_event in rdma_objects.h): a caller that does not poll all the time   *)
(* arms the queue, polls until there is nothing to report, and sleeps      *)
(* until the device sends an event.                                        *)
(*                                                                         *)
(* The danger is the time between the last poll and sleeping: a completion *)
(* handed over there must still cause an event.  The arm request carries   *)
(* the consumer index for that, and a sequence number by which the device  *)
(* tells a new request from one it has already answered.                   *)
(***************************************************************************)
EXTENDS CompletionQueue

CONSTANTS
    SnWrap,         \* sequence numbers are kept modulo this (4)
    InitialArmSn,   \* what the low bits of _arm_sn may be at first: no constructor sets it
    Callers,        \* the kinds of caller there may be, of "polling" and "waiting"
    Solicited       \* the argument of arm_cq

ASSUME NotifyAssumption ==
    /\ SnWrap \in Nat \ {0, 1}
    /\ InitialArmSn \subseteq 0 .. SnWrap - 1
    /\ Callers \subseteq {"polling", "waiting"}
    /\ Solicited \in BOOLEAN

VARIABLES
    kind,       \* which kind of caller this one is
    caller,     \* where it is
    armSn,      \* _arm_sn, of which arm_cq uses the remainder only
    dbrArm,     \* the second word of the doorbell record: the last arm request
    hwArmed,    \* the device: it owes an event for the next completion
    hwSn,       \* the device: the sequence number of the request it waits for
    event,      \* an event is on its way to the caller
    heard       \* the device has taken a request of this queue: not in the code,
                \* for the properties

notifyVars == <<kind, caller, armSn, dbrArm, hwArmed, hwSn, event, heard>>
allVars == <<vars, notifyVars>>

\* "record" and "doorbell" are the two stores of arm_cq, "poll" is the loop that
\* polls until a poll does not return STATUS_OK.
NotifyTypeOK ==
    /\ TypeOK
    /\ kind \in Callers
    /\ caller \in {"record", "doorbell", "poll", "asleep"}
    /\ armSn \in 0 .. SnWrap - 1
    /\ dbrArm \in [sn : 0 .. SnWrap - 1, ci : 0 .. CiWrap - 1, sol : BOOLEAN]
    /\ hwArmed \in BOOLEAN
    /\ hwSn \in 0 .. SnWrap - 1
    /\ event \in BOOLEAN
    /\ heard \in BOOLEAN

NotifyInit ==
    /\ Init
    /\ kind \in Callers
    /\ caller = IF kind = "polling" THEN "poll" ELSE "record"
    /\ armSn \in InitialArmSn
    /\ dbrArm = [sn |-> 0, ci |-> 0, sol |-> FALSE]
    /\ hwArmed = FALSE
    /\ hwSn = 0
    /\ event = FALSE
    /\ heard = FALSE

------------------------------------------------------------------------------
(***************************************************************************)
(* arm_cq: the request goes into the doorbell record, then, after a fence, *)
(* to the UAR register.                                                    *)
(***************************************************************************)

ArmRequest == [sn |-> armSn, ci |-> DbrValue(ci), sol |-> Solicited]

ArmRecord ==
    /\ caller = "record"
    /\ dbrArm' = ArmRequest
    /\ caller' = "doorbell"
    /\ UNCHANGED <<vars, kind, armSn, hwArmed, hwSn, event, heard>>

\* The device answers a request it has not answered yet: at once if there is a
\* completion from the index of the request on, else with the next one.  A
\* solicited request is for completions the sender asked an event for, which
\* no WQE built by post_wqe does.  The fence after the store keeps the caller
\* from polling before the request has left, so it is served in this step.
AnswersAtOnce(r) == ~r.sol /\ (hwPi - r.ci) % CiWrap \in 1 .. CqeCnt

ArmDoorbell ==
    /\ caller = "doorbell"
    /\ caller' = "poll"
    /\ IF dbrArm.sn # hwSn
       THEN UNCHANGED <<hwArmed, hwSn, event, heard>>
       ELSE /\ heard' = TRUE
            /\ IF AnswersAtOnce(dbrArm)
               THEN /\ event' = TRUE
                    /\ hwSn' = (hwSn + 1) % SnWrap
                    /\ UNCHANGED hwArmed
               ELSE /\ hwArmed' = TRUE
                    /\ UNCHANGED <<hwSn, event>>
    /\ UNCHANGED <<vars, kind, armSn, dbrArm>>

------------------------------------------------------------------------------
(***************************************************************************)
(* The caller's loop around poll_cq.                                       *)
(***************************************************************************)

\* poll_cq returns STATUS_OK for a successful completion only: an error
\* completion ends the loop of a caller that waits, like an empty queue.
PollInLoop ==
    /\ caller = "poll"
    /\ Poll
    /\ caller' = IF kind = "waiting" /\ pc = "decide" /\ last'.status # "ok"
                 THEN "asleep" ELSE "poll"
    /\ UNCHANGED <<kind, armSn, dbrArm, hwArmed, hwSn, event, heard>>

\* Fault: cq_event does not count.
CountEventForgotten == UNCHANGED armSn

\* cq_event()
CountEvent == armSn' = (armSn + 1) % SnWrap

\* The event wakes the caller, which counts it and arms again.
Wake ==
    /\ caller = "asleep"
    /\ event
    /\ event' = FALSE
    /\ CountEvent
    /\ caller' = "record"
    /\ UNCHANGED <<vars, kind, dbrArm, hwArmed, hwSn, heard>>

------------------------------------------------------------------------------
(***************************************************************************)
(* The device, which owes an event for a completion if it was armed.       *)
(***************************************************************************)

WriteBody ==
    /\ \E v \in Verdicts : HwWriteBody(v)
    /\ UNCHANGED notifyVars

\* An error completion counts as solicited.
HandOverAndNotify ==
    LET fires == hwArmed /\ (dbrArm.sol => dma.verdict = "err")
    IN  /\ HwHandOver
        /\ event' = (event \/ fires)
        /\ hwArmed' = (hwArmed /\ ~fires)
        /\ hwSn' = IF fires THEN (hwSn + 1) % SnWrap ELSE hwSn
        /\ UNCHANGED <<kind, caller, armSn, dbrArm, heard>>

NotifyNext ==
    \/ ArmRecord
    \/ ArmDoorbell
    \/ PollInLoop
    \/ Wake
    \/ WriteBody
    \/ HandOverAndNotify

NotifySpec == NotifyInit /\ [][NotifyNext]_allVars

\* The caller goes on with what it is doing unless it sleeps, and then an event
\* wakes it; the device finishes what it has begun.
NotifyFairness ==
    /\ WF_allVars(ArmRecord)
    /\ WF_allVars(ArmDoorbell)
    /\ WF_allVars(PollInLoop)
    /\ WF_allVars(Wake)
    /\ WF_allVars(HandOverAndNotify)

NotifyFairSpec == NotifySpec /\ NotifyFairness

------------------------------------------------------------------------------
(***************************************************************************)
(* Properties.                                                             *)
(***************************************************************************)

\* The device has never listened to this caller and never will: the number of
\* its requests is not the one the device waits for.
Deaf == kind = "waiting" /\ ~heard /\ armSn # hwSn

\* No wake-up is lost in the race between arming, polling and sleeping: a caller
\* that sleeps while a completion it has not consumed is in the ring has an event on
\* its way, whenever the completion came.  The one exception is what _arm_sn holds at
\* first: a caller whose number is not the device's then gets no event at all, while
\* no race brings a caller that was heard once out of step again.
NoLostWakeup == caller = "asleep" /\ hwPi > ci => (event <=> ~Deaf)

\* What the device hands over after the first pass is consumed sooner or later,
\* unless the caller sleeps through it because the device never heard it.
LaterPassConsumed ==
    \A k \in CqeCnt .. MaxCqes - 1 : hwPi > k ~> ci > k \/ Deaf
==============================================================================
