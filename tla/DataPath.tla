-------------------------------- MODULE DataPath --------------------------------
(***************************************************************************)
(* One queue pair and its completion queue in use: the caller posts        *)
(* through SendQueue and polls CompletionQueue, the device executes WQEs   *)
(* and writes one completion for each, in order.  The caller keeps no more *)
(* than Window requests unreported and counts a request as reported when   *)
(* poll_cq returns STATUS_OK: the one signal it has, since an empty queue  *)
(* and a failed request both look like STATUS_ERR.                         *)
(***************************************************************************)
EXTENDS CompletionQueue, SendQueue

ASSUME DpAssumption == MaxCqes = MaxPosts

VARIABLE
    reported    \* the completions whose poll returned STATUS_OK

cqVars == <<cqe, hwPi, dma, ci, dbrCi, pc, seenOwner, seenOp, last>>
dpVars == <<cqVars, sqVars, reported>>

DpTypeOK ==
    /\ TypeOK
    /\ SqTypeOK
    /\ reported \subseteq -1 .. MaxCqes

DpInit ==
    /\ Init
    /\ SqInit
    /\ reported = {}

\* The queues step alone ...
SqStep ==
    /\ Post \/ DrainSome \/ SqDevice
    /\ UNCHANGED <<cqVars, reported>>

PollStep ==
    /\ PollOwner \/ PollOpcode \/ PollError \/ PollEmpty
    /\ UNCHANGED <<sqVars, reported>>

\* ... and meet twice: a successful poll gives the caller a request back,
PollReap ==
    /\ PollOk
    /\ reaped' = reaped + 1
    /\ reported' = reported \cup {last'.body.num}
    /\ UNCHANGED <<hostVars, memVars, devVars>>

\* and the device writes completions for executed WQEs only.  A failed WQE puts
\* the queue pair in error: every later one is flushed with an error.
Failed == \E s \in Slots : cqe[s].body.verdict = "err" /\ cqe[s].body.num >= 0

Complete(v) ==
    /\ hwPi < hwExec
    /\ Failed => v = "err"
    /\ HwWriteBody(v)
    /\ UNCHANGED <<sqVars, reported>>

HandOver ==
    /\ HwHandOver
    /\ UNCHANGED <<sqVars, reported>>

DpNext ==
    \/ SqStep
    \/ PollStep
    \/ PollReap
    \/ \E v \in Verdicts : Complete(v)
    \/ HandOver

DpSpec == DpInit /\ [][DpNext]_dpVars

\* A post that has begun runs to its end, a store does not stay in the buffer
\* for ever, the caller goes on polling; the device serves its doorbells and
\* completes what it has executed, since every WQE asks for a completion.
\* Nothing obliges the caller to post.
DpFairness ==
    /\ WF_dpVars(SqStep /\ (StoreDbrec \/ RingDoorbell))
    /\ WF_dpVars(SqStep /\ DrainSome)
    /\ WF_dpVars(SqStep /\ HwReadRecord)
    /\ WF_dpVars(SqStep /\ HwExecute)
    /\ WF_dpVars(PollStep \/ PollReap)
    /\ WF_dpVars(\E v \in Verdicts : Complete(v))
    /\ WF_dpVars(HandOver)

DpFairSpec == DpSpec /\ DpFairness

--------------------------------------------------------------------------------
(***************************************************************************)
(* Properties.                                                             *)
(***************************************************************************)

\* Counting STATUS_OK is enough to keep the send queue from overflowing, though
\* queue_pair checks nothing: a poll never gives back a request the device has
\* not executed.
CreditIsEarned == reaped <= hwExec /\ reaped = Cardinality(reported)

\* The completion queue never overflows: the device always finds room for the
\* completion of an executed WQE.
NoCqOverrun == dma = NoEntry /\ hwPi < hwExec => HasRoom

\* The two queues implement WorkRequests.  A request counts as submitted when
\* its index is in the doorbell record, before its own doorbell: an older one
\* may already make the device read the record.
Requests == INSTANCE WorkRequests WITH
    Limit <- Window,
    Ring <- CqeCnt,
    Total <- MaxPosts,
    submitted <- posted + (IF sqPc = "recorded" THEN 1 ELSE 0),
    done <- hwExec,
    cursor <- ci,
    success <- reported

ImplementsRequests == Requests!WrSpec
================================================================================
