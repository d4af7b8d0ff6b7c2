------------------------------ MODULE Profiler ------------------------------
(***************************************************************************)
(* rdma_profiler (rdma_profiler/profiler.h) and rdma_profiler_singleton    *)
(* (profiler_singleton.h): four time stamps for each request - post,       *)
(* doorbell, CQE, poll - and what is computed from them.                   *)
(*                                                                         *)
(* Around them a program with a posting and a polling thread and the       *)
(* device between the two.  Each call of a profiler is one step: the       *)
(* singleton takes its mutex, and rdma_profiler, which has none, relies on *)
(* its callers for that.  The program calls one right after the other: the *)
(* two stamps are given one time.  A request id is used again as soon as   *)
(* its request has been polled and the posting thread is done with it.     *)
(***************************************************************************)
EXTENDS Integers, FiniteSets, FiniteSetsExt

CONSTANTS
    Qps,            \* queue pair numbers
    Ids,            \* request ids
    MaxRequests     \* bound: the program posts this many requests

ASSUME ProfilerAssumption == MaxRequests \in Nat

VARIABLES
    mTimestamps,    \* m_timestamps: queue pair -> request id -> the four stamps
    postStamps,     \* post_timestamps_
    doorbellStamps, \* doorbell_timestamps_
    cqeStamps,      \* completion_timestamps_
    invented,       \* requests analysed before there was a record of them
    clock,          \* clock::now()
    sent,           \* requests posted so far
    posting,        \* the request the posting thread is working on, or none
    polling,        \* the request the polling thread is working on, or none
    stage,          \* request -> where it is between post and poll
    written         \* request -> when the device wrote its CQE

profilerVars == <<mTimestamps, postStamps, doorbellStamps, cqeStamps, invented>>
programVars == <<clock, sent, posting, polling, stage, written>>
profVars == <<mTimestamps, postStamps, doorbellStamps, cqeStamps, invented,
              clock, sent, posting, polling, stage, written>>

Requests == Qps \X Ids
NoRequest == <<>>
Empty == << >>

\* Every stamp of a program that has sent MaxRequests: four for each.
Times == 0 .. 4 * MaxRequests
Stamps == [post_op : Times, doorbell : Times, cqe_timestamp : Times, poll_cq : Times]

\* Fault: a stage not stamped yet is marked as such.
NoStampsMarked == [post_op |-> -1, doorbell |-> -1, cqe_timestamp |-> -1, poll_cq |-> -1]

\* What operator[] of std::map makes of a key it does not have.
NoStamps == [post_op |-> 0, doorbell |-> 0, cqe_timestamp |-> 0, poll_cq |-> 0]

IsMap(m, D, R) == DOMAIN m \subseteq D /\ m \in [DOMAIN m -> R]

\* Every stamp is a time the clock has shown, at the key of a request, and a request
\* is at one of the six places between post and poll.
ProfTypeOK ==
    /\ DOMAIN mTimestamps \subseteq Qps
    /\ \A q \in DOMAIN mTimestamps : IsMap(mTimestamps[q], Ids, Stamps)
    /\ \A m \in {postStamps, doorbellStamps, cqeStamps} : IsMap(m, Requests, Times)
    /\ clock \in Times
    /\ sent \in 0 .. MaxRequests
    /\ invented \subseteq Requests
    /\ {posting, polling} \subseteq Requests \cup {NoRequest}
    /\ stage \in [Requests -> {"free", "built", "rung", "completed", "reported", "polled"}]
    /\ written \in [Requests -> Times]

------------------------------------------------------------------------------
(***************************************************************************)
(* rdma_profiler.                                                          *)
(***************************************************************************)

\* m[k] = v of std::map.
Assign(m, k, v) == [x \in DOMAIN m \cup {k} |-> IF x = k THEN v ELSE m[x]]

\* Fault: the entry is made anew for every stage.
GetOrCreateAfresh(m, q, id) ==
    LET ids == IF q \in DOMAIN m THEN m[q] ELSE Empty
    IN  Assign(m, q, Assign(ids, id, NoStamps))

\* m_timestamps[qp_num][wr_id]: both maps get the key if they do not have it.
GetOrCreate(m, q, id) ==
    LET ids == IF q \in DOMAIN m THEN m[q] ELSE Empty
    IN  Assign(m, q, IF id \in DOMAIN ids THEN ids ELSE Assign(ids, id, NoStamps))

Record(r, field, t) ==
    mTimestamps' = [GetOrCreate(mTimestamps, r[1], r[2]) EXCEPT ![r[1]][r[2]][field] = t]

\* analyze_latency: the four differences.
Latency(ts) ==
    [post_to_doorbell |-> ts.doorbell - ts.post_op,
     doorbell_to_cqe  |-> ts.cqe_timestamp - ts.doorbell,
     cqe_to_poll      |-> ts.poll_cq - ts.cqe_timestamp,
     total_latency    |-> ts.poll_cq - ts.post_op]

\* Fault: the search for the least latency starts at zero.
QpStatsMinFromZero(m, q) ==
    IF q \notin DOMAIN m \/ DOMAIN m[q] = {}
    THEN [sample_count |-> 0, sum |-> 0, min |-> 0, max |-> 0]
    ELSE LET total(id) == Latency(m[q][id]).total_latency
         IN  [sample_count |-> Cardinality(DOMAIN m[q]),
              sum |-> MapThenSumSet(total, DOMAIN m[q]),
              min |-> Min({0} \cup {total(id) : id \in DOMAIN m[q]}),
              max |-> Max({total(id) : id \in DOMAIN m[q]})]

\* analyze_qp_stats: the number of samples, and of their total latencies the sum
\* (of which the average is made), the least and the greatest.
QpStats(m, q) ==
    IF q \notin DOMAIN m \/ DOMAIN m[q] = {}
    THEN [sample_count |-> 0, sum |-> 0, min |-> 0, max |-> 0]
    ELSE LET total(id) == Latency(m[q][id]).total_latency
         IN  [sample_count |-> Cardinality(DOMAIN m[q]),
              sum |-> MapThenSumSet(total, DOMAIN m[q]),
              min |-> Min({total(id) : id \in DOMAIN m[q]}),
              max |-> Max({total(id) : id \in DOMAIN m[q]})]

(***************************************************************************)
(* rdma_profiler_singleton: one map for each stage.                        *)
(***************************************************************************)

\* Fault: insert() in place of operator[] keeps the stamp of an earlier request.
StampOnce(m, r, t) == IF r \in DOMAIN m THEN m ELSE Assign(m, r, t)

\* The stamp of an earlier request with this id is overwritten.
Stamp(m, r, t) == Assign(m, r, t)

------------------------------------------------------------------------------
ProfInit ==
    /\ mTimestamps = Empty
    /\ postStamps = Empty
    /\ doorbellStamps = Empty
    /\ cqeStamps = Empty
    /\ invented = {}
    /\ clock = 0
    /\ sent = 0
    /\ posting = NoRequest
    /\ polling = NoRequest
    /\ stage = [r \in Requests |-> "free"]
    /\ written = [r \in Requests |-> 0]

Tick == clock' = clock + 1

------------------------------------------------------------------------------
(***************************************************************************)
(* The posting thread: stamp, post and ring, stamp.                        *)
(***************************************************************************)

RecordPostOp(r) ==
    /\ posting = NoRequest
    /\ stage[r] = "free"
    /\ sent < MaxRequests
    /\ Tick
    /\ Record(r, "post_op", clock')
    /\ postStamps' = Stamp(postStamps, r, clock')
    /\ posting' = r
    /\ sent' = sent + 1
    /\ stage' = [stage EXCEPT ![r] = "built"]
    /\ UNCHANGED <<doorbellStamps, cqeStamps, invented, polling, written>>

PostSend ==
    /\ posting # NoRequest
    /\ stage[posting] = "built"
    /\ stage' = [stage EXCEPT ![posting] = "rung"]
    /\ UNCHANGED <<profilerVars, clock, sent, posting, polling, written>>

\* A request polled before its doorbell was stamped is free after it.
RecordDoorbell ==
    /\ posting # NoRequest
    /\ stage[posting] # "built"
    /\ Tick
    /\ Record(posting, "doorbell", clock')
    /\ doorbellStamps' = Stamp(doorbellStamps, posting, clock')
    /\ stage' = [stage EXCEPT ![posting] = IF @ = "polled" THEN "free" ELSE @]
    /\ posting' = NoRequest
    /\ UNCHANGED <<postStamps, cqeStamps, invented, sent, polling, written>>

------------------------------------------------------------------------------
(***************************************************************************)
(* The device, and the polling thread: the time of the CQE is taken from   *)
(* the CQE, the time of the poll from the clock.                           *)
(***************************************************************************)

WriteCqe(r) ==
    /\ stage[r] = "rung"
    /\ Tick
    /\ written' = [written EXCEPT ![r] = clock']
    /\ stage' = [stage EXCEPT ![r] = "completed"]
    /\ UNCHANGED <<profilerVars, sent, posting, polling>>

\* The time stamp in the CQE.
CqeTime(r) == written[r]

RecordCqeTimestamp(r) ==
    /\ polling = NoRequest
    /\ stage[r] = "completed"
    /\ Record(r, "cqe_timestamp", CqeTime(r))
    /\ cqeStamps' = Stamp(cqeStamps, r, CqeTime(r))
    /\ polling' = r
    /\ stage' = [stage EXCEPT ![r] = "reported"]
    /\ UNCHANGED <<postStamps, doorbellStamps, invented, clock, sent, posting, written>>

RecordPollCq ==
    /\ polling # NoRequest
    /\ Tick
    /\ Record(polling, "poll_cq", clock')
    /\ stage' = [stage EXCEPT ![polling] = IF posting = polling THEN "polled" ELSE "free"]
    /\ polling' = NoRequest
    /\ UNCHANGED <<postStamps, doorbellStamps, cqeStamps, invented, sent, posting, written>>

------------------------------------------------------------------------------
\* m_timestamps has a record of the request.
Stamped(r) == r[1] \in DOMAIN mTimestamps /\ r[2] \in DOMAIN mTimestamps[r[1]]

\* analyze_latency, of any request at any time: it is looked up with operator[], which
\* makes a record of zeros if there is none.
AnalyzeLatency(r) ==
    /\ invented' = IF Stamped(r) THEN invented ELSE invented \cup {r}
    /\ mTimestamps' = GetOrCreate(mTimestamps, r[1], r[2])
    /\ UNCHANGED <<postStamps, doorbellStamps, cqeStamps, programVars>>

\* rdma_profiler_singleton::reset, called by anyone at any time.
ResetStamps ==
    /\ postStamps' = Empty
    /\ doorbellStamps' = Empty
    /\ cqeStamps' = Empty
    /\ UNCHANGED <<mTimestamps, invented, programVars>>

ProfNext ==
    \/ \E r \in Requests :
        RecordPostOp(r) \/ WriteCqe(r) \/ RecordCqeTimestamp(r) \/ AnalyzeLatency(r)
    \/ PostSend
    \/ RecordDoorbell
    \/ RecordPollCq
    \/ ResetStamps

ProfSpec == ProfInit /\ [][ProfNext]_profVars

------------------------------------------------------------------------------
(***************************************************************************)
(* Properties.  While a request is under way its record mixes its stamps   *)
(* with those of the request that had its id before, and doorbell_to_cqe   *)
(* of a finished one may be negative: the device does not wait for the     *)
(* posting thread to stamp the doorbell it has rung.                       *)
(***************************************************************************)

Finished == {r \in Requests : stage[r] = "free" /\ written[r] > 0 /\ posting # r}

\* A finished request has all four stamps of one and the same round: it was posted
\* before its doorbell and before its CQE, and polled after its CQE, whatever the
\* interleaving of the two threads with the device and however often its id was
\* used before (record_*, profiler.h).
FinishedSamplesOrdered ==
    \A r \in Finished :
        LET ts == mTimestamps[r[1]][r[2]]
        IN  /\ 0 < ts.post_op
            /\ ts.post_op < ts.doorbell
            /\ ts.post_op < ts.cqe_timestamp
            /\ ts.cqe_timestamp < ts.poll_cq

AtRest == \A r \in Requests : stage[r] = "free"
Of(q, requests) == {r \in requests : r[1] = q}

\* With nothing under way the statistics of a queue pair count each request id once that
\* was posted or analysed, and every total latency they rest on is positive, unless an id
\* was only analysed: its sample is zero (analyze_qp_stats, analyze_latency).
StatsAtRest ==
    AtRest =>
        \A q \in Qps :
            LET stats == QpStats(mTimestamps, q)
                used == Of(q, Finished)
                samples == Of(q, Finished \cup invented)
            IN  /\ stats.sample_count = Cardinality(samples)
                /\ stats.min * stats.sample_count <= stats.sum
                /\ stats.sum <= stats.max * stats.sample_count
                /\ used # {} => stats.max > 0 /\ (stats.min > 0 <=> samples = used)

\* The stamps the singleton holds of a finished request are of one round too,
\* although reset() may have dropped some of them (profiler_singleton.h).
SingletonOrdered ==
    \A r \in Finished \cap DOMAIN postStamps :
        /\ r \in DOMAIN doorbellStamps => postStamps[r] < doorbellStamps[r]
        /\ r \in DOMAIN cqeStamps => postStamps[r] < cqeStamps[r]
==============================================================================
