------------------------------ MODULE WorkRequests ------------------------------
(***************************************************************************)
(* What queue_pair and completion_queue_devx promise their caller          *)
(* together, without rings, owner bits, doorbells or store buffers: work   *)
(* requests are executed in posting order, and polling reports them in     *)
(* that order, each at most once and never before it is executed.          *)
(*                                                                         *)
(* The promise has the gap the code has: as long as the cursor of the      *)
(* caller's polls is within the first Ring requests, a poll may step over  *)
(* a request without reporting it.                                         *)
(***************************************************************************)
EXTENDS Integers, FiniteSets

CONSTANTS
    Limit,      \* requests the caller leaves unreported at most
    Ring,       \* completions in the first pass over the completion ring
    Total       \* bound: requests submitted

VARIABLES
    submitted,  \* requests handed to the device
    done,       \* requests executed
    cursor,     \* completions the polls have gone past
    success     \* requests reported successful

wrVars == <<submitted, done, cursor, success>>

WrInit ==
    /\ submitted = 0
    /\ done = 0
    /\ cursor = 0
    /\ success = {}

Submit ==
    /\ submitted < Total
    /\ submitted - Cardinality(success) < Limit
    /\ submitted' = submitted + 1
    /\ UNCHANGED <<done, cursor, success>>

Execute ==
    /\ done < submitted
    /\ done' = done + 1
    /\ UNCHANGED <<submitted, cursor, success>>

\* A poll returns STATUS_OK.
Report ==
    /\ cursor < done
    /\ success' = success \cup {cursor}
    /\ cursor' = cursor + 1
    /\ UNCHANGED <<submitted, done>>

\* A poll returns STATUS_ERR and moves on: the request failed, or the poll was
\* fooled by an entry never written.
StepOver ==
    /\ cursor < done \/ cursor < Ring
    /\ cursor' = cursor + 1
    /\ UNCHANGED <<submitted, done, success>>

WrNext == Submit \/ Execute \/ Report \/ StepOver

WrSafeSpec == WrInit /\ [][WrNext]_wrVars

\* What is executed is reported, or stepped over, in the end.
WrSpec == WrSafeSpec /\ WF_wrVars((Report \/ StepOver) /\ cursor < done)
================================================================================
