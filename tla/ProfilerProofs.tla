----------------------------- MODULE ProfilerProofs -----------------------------
(***************************************************************************)
(* Theorems of Profiler, for any number of queue pairs, request ids and    *)
(* requests.                                                               *)
(***************************************************************************)
EXTENDS Profiler, Arithmetic

Fields == {"post_op", "doorbell", "cqe_timestamp", "poll_cq"}

\* The record of a request.
StampsOf(r) == mTimestamps[r[1]][r[2]]

MapOK(m) == DOMAIN m \subseteq Qps /\ \A q \in DOMAIN m : IsMap(m[q], Ids, Stamps)

--------------------------------------------------------------------------------
(***************************************************************************)
(* The two-level map.                                                      *)
(***************************************************************************)

\* operator[] twice: the keys are there, what was there stays.
LEMMA CreatedOnce ==
    ASSUME NEW m, MapOK(m), NEW q \in Qps, NEW id \in Ids
    PROVE  LET n == GetOrCreate(m, q, id)
           IN  /\ MapOK(n)
               /\ DOMAIN n = DOMAIN m \cup {q}
               /\ id \in DOMAIN n[q]
               /\ \A p \in DOMAIN m : p # q => n[p] = m[p]
               /\ q \in DOMAIN m =>
                    \A i \in DOMAIN m[q] : i \in DOMAIN n[q] /\ n[q][i] = m[q][i]
<1> DEFINE n == GetOrCreate(m, q, id)
           ids == IF q \in DOMAIN m THEN m[q] ELSE Empty
           own == IF id \in DOMAIN ids THEN ids ELSE Assign(ids, id, NoStamps)
<1>1. NoStamps \in Stamps
  BY ProfilerAssumption DEF NoStamps, Stamps, Times
<1>2. IsMap(ids, Ids, Stamps)
  BY DEF MapOK, IsMap, Empty
<1> HIDE DEF ids
<1>3. /\ IsMap(own, Ids, Stamps)
      /\ id \in DOMAIN own
      /\ \A i \in DOMAIN ids : i \in DOMAIN own /\ own[i] = ids[i]
  BY <1>1, <1>2 DEF IsMap, Assign
<1>4. n = Assign(m, q, own)
  BY DEF GetOrCreate, ids
<1> HIDE DEF own, n
<1>5. /\ DOMAIN n = DOMAIN m \cup {q}
      /\ n[q] = own
      /\ \A p \in DOMAIN m : p # q => n[p] = m[p]
  BY <1>4 DEF Assign
<1>6. MapOK(n)
  BY <1>3, <1>5 DEF MapOK
<1>7. q \in DOMAIN m => ids = m[q]
  BY DEF ids
<1> QED BY <1>3, <1>5, <1>6, <1>7 DEF n

\* A stamp goes into one field of one record.
LEMMA RecordedOnce ==
    ASSUME MapOK(mTimestamps), NEW r \in Requests, NEW f \in Fields, NEW t \in Times,
           Record(r, f, t)
    PROVE  /\ MapOK(mTimestamps')
           /\ Stamped(r)'
           /\ StampsOf(r)'[f] = t
           /\ Stamped(r) => \A g \in Fields \ {f} : StampsOf(r)'[g] = StampsOf(r)[g]
           /\ \A s \in Requests : s # r /\ Stamped(s) => Stamped(s)' /\ StampsOf(s)' = StampsOf(s)
<1> DEFINE n == GetOrCreate(mTimestamps, r[1], r[2])
<1>1. r[1] \in Qps /\ r[2] \in Ids /\ r = <<r[1], r[2]>>
  BY DEF Requests
<1>2. /\ MapOK(n)
      /\ DOMAIN n = DOMAIN mTimestamps \cup {r[1]}
      /\ r[2] \in DOMAIN n[r[1]]
      /\ \A p \in DOMAIN mTimestamps : p # r[1] => n[p] = mTimestamps[p]
      /\ r[1] \in DOMAIN mTimestamps =>
           \A i \in DOMAIN mTimestamps[r[1]] :
               i \in DOMAIN n[r[1]] /\ n[r[1]][i] = mTimestamps[r[1]][i]
  BY <1>1, CreatedOnce
<1>3. mTimestamps' = [n EXCEPT ![r[1]][r[2]][f] = t]
  BY DEF Record
<1> HIDE DEF n
<1> DEFINE old == n[r[1]][r[2]]
           new == [old EXCEPT ![f] = t]
<1>4. old \in Stamps /\ r[1] \in DOMAIN n
  BY <1>2 DEF MapOK, IsMap
<1>5. new \in Stamps /\ new[f] = t /\ \A g \in Fields \ {f} : new[g] = old[g]
  <2> HIDE DEF old
  <2> QED BY <1>4 DEF Stamps, Fields
<1> HIDE DEF new
<1>6. /\ DOMAIN mTimestamps' = DOMAIN n
      /\ \A p \in DOMAIN n : p # r[1] => mTimestamps'[p] = n[p]
      /\ mTimestamps'[r[1]] = [n[r[1]] EXCEPT ![r[2]] = new]
  BY <1>3, <1>4 DEF new
<1> HIDE DEF old
<1>7. /\ DOMAIN mTimestamps'[r[1]] = DOMAIN n[r[1]]
      /\ mTimestamps'[r[1]][r[2]] = new
      /\ \A i \in DOMAIN n[r[1]] : i # r[2] => mTimestamps'[r[1]][i] = n[r[1]][i]
      /\ IsMap(mTimestamps'[r[1]], Ids, Stamps)
  BY <1>2, <1>4, <1>5, <1>6 DEF MapOK, IsMap
<1>8. MapOK(mTimestamps')
  BY <1>2, <1>6, <1>7 DEF MapOK
<1>9. Stamped(r)' /\ StampsOf(r)' = new
  BY <1>2, <1>4, <1>6, <1>7 DEF Stamped, StampsOf
<1>10. Stamped(r) => old = StampsOf(r)
  BY <1>2 DEF Stamped, StampsOf, old
<1>11. ASSUME NEW s \in Requests, s # r, Stamped(s)
       PROVE  Stamped(s)' /\ StampsOf(s)' = StampsOf(s)
  <2>1. s[1] # r[1] \/ s[2] # r[2]
    BY <1>1, <1>11 DEF Requests
  <2>2. CASE s[1] # r[1]
    BY <1>2, <1>6, <1>11, <2>2 DEF Stamped, StampsOf
  <2>3. CASE s[1] = r[1] /\ s[2] # r[2]
    BY <1>2, <1>6, <1>7, <1>11, <2>3 DEF Stamped, StampsOf
  <2> QED BY <2>1, <2>2, <2>3
<1> QED BY <1>5, <1>8, <1>9, <1>10, <1>11

--------------------------------------------------------------------------------
(***************************************************************************)
(* The inductive invariant.                                                *)
(***************************************************************************)

\* The posting thread has its hands on a request from built to its doorbell's
\* stamp, the polling thread while it is reported and not yet polled.
StageInv ==
    \A r \in Requests :
        /\ stage[r] = "free" => posting # r
        /\ stage[r] \in {"built", "polled"} => posting = r
        /\ stage[r] = "reported" <=> polling = r

\* How far the round of a request has come; a free one that was used is through.
Through(r) == stage[r] = "free" /\ written[r] > 0
Used(r) == stage[r] # "free" \/ Through(r)
Completed(r) == stage[r] \in {"completed", "reported", "polled"} \/ Through(r)
Reported(r) == stage[r] \in {"reported", "polled"} \/ Through(r)
Polled(r) == stage[r] = "polled" \/ Through(r)

\* The stamps of the stages behind are of this round, in order; those ahead are
\* still the last round's.
RoundOf(r) ==
    /\ written[r] <= clock
    /\ Used(r) => /\ Stamped(r)
                  /\ 0 < StampsOf(r).post_op
                  /\ StampsOf(r).post_op <= clock
    /\ Used(r) /\ posting # r => StampsOf(r).post_op < StampsOf(r).doorbell
    /\ Completed(r) => StampsOf(r).post_op < written[r]
    /\ Reported(r) => StampsOf(r).cqe_timestamp = written[r]
    /\ Polled(r) => StampsOf(r).cqe_timestamp < StampsOf(r).poll_cq
RoundInv == \A r \in Requests : RoundOf(r)

\* What reset() has left of the singleton's stamps are the profiler's.
SingletonInv ==
    \A r \in Requests :
        /\ r \in DOMAIN postStamps => Stamped(r) /\ postStamps[r] = StampsOf(r).post_op
        /\ r \in DOMAIN doorbellStamps => Stamped(r) /\ doorbellStamps[r] = StampsOf(r).doorbell
        /\ r \in DOMAIN cqeStamps => Stamped(r) /\ cqeStamps[r] = StampsOf(r).cqe_timestamp

\* Every request takes four stamps; those still to come are counted.
Uncompleted == {r \in Requests : stage[r] \in {"built", "rung"}}
Unpolled == {r \in Requests : stage[r] \in {"built", "rung", "completed", "reported"}}
Unstamped == IF posting = NoRequest THEN 0 ELSE 1

ClockInv ==
    /\ IsFiniteSet(Uncompleted) /\ IsFiniteSet(Unpolled)
    /\ clock + Cardinality(Uncompleted) + Cardinality(Unpolled) + Unstamped = 4 * sent

ProfInv == ProfTypeOK /\ StageInv /\ RoundInv /\ SingletonInv /\ ClockInv

\* The mark for "no request" is none of the requests.
LEMMA NoRequestIsNone == NoRequest \notin Requests
  BY DEF NoRequest, Requests

\* What is left to stamp never brings the clock past its bound.
LEMMA ClockStaysInTimes ==
    ASSUME ClockInv, clock \in Nat, sent \in 0 .. MaxRequests
    PROVE  clock \in Times
<1>1. Cardinality(Uncompleted) \in Nat /\ Cardinality(Unpolled) \in Nat
  BY FS_CardinalityType DEF ClockInv
<1> QED BY <1>1, ProfilerAssumption DEF ClockInv, Unstamped, Times

\* Nothing is recorded at the start.
LEMMA InitProfInv == ProfInit => ProfInv
<1> SUFFICES ASSUME ProfInit PROVE ProfInv
  OBVIOUS
<1> USE NoRequestIsNone, ProfilerAssumption DEF ProfInit
<1>1. ProfTypeOK
  BY DEF ProfTypeOK, IsMap, Empty, Times
<1>2. StageInv
  BY DEF StageInv
<1>3. RoundInv
  BY DEF RoundInv, RoundOf, Used, Completed, Reported, Polled, Through
<1>4. SingletonInv
  BY DEF SingletonInv, Empty
<1>5. ClockInv
  <2>1. Uncompleted = {} /\ Unpolled = {}
    BY DEF Uncompleted, Unpolled
  <2> QED BY <2>1, FS_EmptySet DEF ClockInv, Unstamped
<1> QED BY <1>1, <1>2, <1>3, <1>4, <1>5 DEF ProfInv

\* The singleton's map after a stamp.
LEMMA StampedOnce ==
    ASSUME NEW m, IsMap(m, Requests, Times), NEW r \in Requests, NEW t \in Times
    PROVE  /\ IsMap(Stamp(m, r, t), Requests, Times)
           /\ DOMAIN Stamp(m, r, t) = DOMAIN m \cup {r}
           /\ Stamp(m, r, t)[r] = t
           /\ \A s \in DOMAIN m : s # r => Stamp(m, r, t)[s] = m[s]
  BY DEF IsMap, Stamp, Assign

\* Every stamp of a complete record is a number.
LEMMA StampsAreTimes ==
    ASSUME MapOK(mTimestamps), NEW r \in Requests, Stamped(r)
    PROVE  \A f \in Fields : StampsOf(r)[f] \in Nat
<1>1. StampsOf(r) \in Stamps
  BY DEF MapOK, IsMap, Stamped, StampsOf
<1> QED BY <1>1, ProfilerAssumption DEF Stamps, Times, Fields

\* record_post_op keeps the invariant.
LEMMA PostOpKeeps ==
    ASSUME ProfInv, NEW r \in Requests, RecordPostOp(r)
    PROVE  ProfInv'
<1> USE NoRequestIsNone
<1>1. /\ ProfTypeOK /\ StageInv /\ RoundInv /\ SingletonInv /\ ClockInv
      /\ MapOK(mTimestamps)
      /\ clock \in Nat /\ sent \in Nat /\ sent' \in 0 .. MaxRequests /\ clock' = clock + 1
      /\ stage \in [Requests -> {"free", "built", "rung", "completed", "reported", "polled"}]
      /\ stage' = [stage EXCEPT ![r] = "built"]
      /\ stage[r] = "free" /\ posting = NoRequest /\ posting' = r
  BY ProfilerAssumption DEF ProfInv, ProfTypeOK, MapOK, Times, RecordPostOp, Tick
<1>2. ClockInv' /\ clock' \in Times
  <2>1. Uncompleted' = Uncompleted \cup {r} /\ r \notin Uncompleted
    BY <1>1 DEF Uncompleted
  <2>2. Unpolled' = Unpolled \cup {r} /\ r \notin Unpolled
    BY <1>1 DEF Unpolled
  <2>3. /\ IsFiniteSet(Uncompleted') /\ Cardinality(Uncompleted') = Cardinality(Uncompleted) + 1
        /\ IsFiniteSet(Unpolled') /\ Cardinality(Unpolled') = Cardinality(Unpolled) + 1
    BY <1>1, <2>1, <2>2, FS_AddElement DEF ClockInv
  <2>4. Cardinality(Uncompleted) \in Nat /\ Cardinality(Unpolled) \in Nat
    BY <1>1, FS_CardinalityType DEF ClockInv
  <2>5. Unstamped = 0 /\ Unstamped' = 1 /\ sent' = sent + 1
    BY <1>1 DEF Unstamped, RecordPostOp
  <2>6. ClockInv'
    BY <1>1, <2>3, <2>4, <2>5 DEF ClockInv
  <2> QED BY <1>1, <2>3, <2>4, <2>5, <2>6, ProfilerAssumption DEF ClockInv, Times
<1>3. /\ MapOK(mTimestamps')
      /\ Stamped(r)' /\ StampsOf(r)'["post_op"] = clock'
      /\ Stamped(r) => \A g \in Fields \ {"post_op"} : StampsOf(r)'[g] = StampsOf(r)[g]
      /\ \A s \in Requests : s # r /\ Stamped(s) => Stamped(s)' /\ StampsOf(s)' = StampsOf(s)
  <2>1. Record(r, "post_op", clock') /\ "post_op" \in Fields
    BY DEF RecordPostOp, Fields
  <2> QED BY <1>1, <1>2, <2>1, RecordedOnce
<1>4. /\ IsMap(postStamps', Requests, Times)
      /\ DOMAIN postStamps' = DOMAIN postStamps \cup {r}
      /\ postStamps'[r] = clock'
      /\ \A s \in DOMAIN postStamps : s # r => postStamps'[s] = postStamps[s]
  <2>1. IsMap(postStamps, Requests, Times) /\ postStamps' = Stamp(postStamps, r, clock')
    BY <1>1 DEF ProfTypeOK, RecordPostOp
  <2>2. LET n == Stamp(postStamps, r, clock')
        IN  /\ IsMap(n, Requests, Times)
            /\ DOMAIN n = DOMAIN postStamps \cup {r}
            /\ n[r] = clock'
            /\ \A s \in DOMAIN postStamps : s # r => n[s] = postStamps[s]
    BY <1>2, <2>1, StampedOnce
  <2> QED BY <2>1, <2>2
<1>5. ProfTypeOK'
  BY <1>1, <1>2, <1>3, <1>4 DEF ProfTypeOK, MapOK, RecordPostOp
<1>6. StageInv'
  BY <1>1 DEF StageInv, RecordPostOp
<1>7. RoundInv'
  <2> SUFFICES ASSUME NEW s \in Requests PROVE RoundOf(s)'
    BY DEF RoundInv
  <2>1. /\ RoundOf(s)
        /\ written' = written /\ written[s] \in Nat /\ posting # s
    BY <1>1, ProfilerAssumption DEF RoundInv, ProfTypeOK, RecordPostOp, Times
  <2>2. CASE s = r
    BY <1>1, <1>3, <2>1, <2>2 DEF RoundOf, Used, Completed, Reported, Polled, Through
  <2>3. CASE s # r
    <3>1. stage'[s] = stage[s] /\ posting' # s
      BY <1>1, <2>3
    <3>2. Stamped(s) => Stamped(s)' /\ StampsOf(s)' = StampsOf(s) /\ StampsOf(s).post_op \in Nat
      BY <1>1, <1>3, <2>3, StampsAreTimes DEF Fields
    <3> QED BY <1>1, <2>1, <3>1, <3>2 DEF RoundOf, Used, Completed, Reported, Polled, Through
  <2> QED BY <2>2, <2>3
<1>8. SingletonInv'
  BY <1>1, <1>3, <1>4 DEF SingletonInv, RecordPostOp, Fields
<1> QED BY <1>2, <1>5, <1>6, <1>7, <1>8 DEF ProfInv

\* Posting a request keeps the invariant.
LEMMA PostSendKeeps ==
    ASSUME ProfInv, PostSend
    PROVE  ProfInv'
<1> USE NoRequestIsNone
<1>1. /\ ProfTypeOK /\ StageInv /\ RoundInv /\ SingletonInv /\ ClockInv
      /\ stage \in [Requests -> {"free", "built", "rung", "completed", "reported", "polled"}]
      /\ posting \in Requests
      /\ stage' = [stage EXCEPT ![posting] = "rung"] /\ stage[posting] = "built"
      /\ UNCHANGED <<profilerVars, clock, sent, posting, polling, written>>
  BY DEF ProfInv, ProfTypeOK, PostSend
<1>2. ProfTypeOK'
  BY <1>1 DEF ProfTypeOK, profilerVars
<1>3. StageInv'
  BY <1>1 DEF StageInv
<1>4. RoundInv'
  <2> SUFFICES ASSUME NEW s \in Requests PROVE RoundOf(s)'
    BY DEF RoundInv
  <2>1. RoundOf(s)
    BY <1>1 DEF RoundInv
  <2>2. /\ Used(s)' = Used(s) /\ Completed(s)' = Completed(s)
        /\ Reported(s)' = Reported(s) /\ Polled(s)' = Polled(s)
    BY <1>1 DEF Used, Completed, Reported, Polled, Through
  <2>3. Stamped(s)' = Stamped(s) /\ StampsOf(s)' = StampsOf(s)
    BY <1>1 DEF profilerVars, Stamped, StampsOf
  <2> QED BY <1>1, <2>1, <2>2, <2>3 DEF RoundOf
<1>5. SingletonInv'
  BY <1>1 DEF SingletonInv, Stamped, StampsOf, profilerVars
<1>6. ClockInv'
  <2>1. Uncompleted' = Uncompleted /\ Unpolled' = Unpolled /\ Unstamped' = Unstamped
    BY <1>1 DEF Uncompleted, Unpolled, Unstamped
  <2> QED BY <1>1, <2>1 DEF ClockInv
<1> QED BY <1>2, <1>3, <1>4, <1>5, <1>6 DEF ProfInv

\* record_doorbell keeps the invariant.
LEMMA DoorbellKeeps ==
    ASSUME ProfInv, NEW r \in Requests, r = posting, RecordDoorbell
    PROVE  ProfInv'
<1> USE NoRequestIsNone
<1>1. /\ ProfTypeOK /\ StageInv /\ RoundInv /\ SingletonInv /\ ClockInv
      /\ MapOK(mTimestamps)
      /\ clock \in Nat /\ sent' \in 0 .. MaxRequests /\ sent' = sent /\ clock' = clock + 1
      /\ stage \in [Requests -> {"free", "built", "rung", "completed", "reported", "polled"}]
      /\ posting = r /\ posting' = NoRequest
      /\ stage' = [stage EXCEPT ![r] = IF @ = "polled" THEN "free" ELSE @]
      /\ stage[r] \notin {"free", "built"}
  BY ProfilerAssumption DEF ProfInv, ProfTypeOK, MapOK, StageInv, Times, RecordDoorbell, Tick
<1>2. ClockInv' /\ clock' \in Times
  <2>1. Uncompleted' = Uncompleted /\ Unpolled' = Unpolled
    BY <1>1 DEF Uncompleted, Unpolled
  <2>2. Unstamped = 1 /\ Unstamped' = 0
    BY <1>1 DEF Unstamped
  <2>3. Cardinality(Uncompleted) \in Nat /\ Cardinality(Unpolled) \in Nat
    BY <1>1, FS_CardinalityType DEF ClockInv
  <2>4. ClockInv'
    BY <1>1, <2>1, <2>2, <2>3 DEF ClockInv
  <2> QED BY <1>1, <2>1, <2>2, <2>3, <2>4, ProfilerAssumption DEF ClockInv, Times
<1>3. /\ MapOK(mTimestamps')
      /\ Stamped(r)' /\ StampsOf(r)'["doorbell"] = clock'
      /\ Stamped(r) => \A g \in Fields \ {"doorbell"} : StampsOf(r)'[g] = StampsOf(r)[g]
      /\ \A s \in Requests : s # r /\ Stamped(s) => Stamped(s)' /\ StampsOf(s)' = StampsOf(s)
  <2>1. Record(r, "doorbell", clock') /\ "doorbell" \in Fields
    BY <1>1 DEF RecordDoorbell, Fields
  <2> QED BY <1>1, <1>2, <2>1, RecordedOnce
<1>4. /\ IsMap(doorbellStamps', Requests, Times)
      /\ DOMAIN doorbellStamps' = DOMAIN doorbellStamps \cup {r}
      /\ doorbellStamps'[r] = clock'
      /\ \A s \in DOMAIN doorbellStamps : s # r => doorbellStamps'[s] = doorbellStamps[s]
  <2>1. IsMap(doorbellStamps, Requests, Times) /\ doorbellStamps' = Stamp(doorbellStamps, r, clock')
    BY <1>1 DEF ProfTypeOK, RecordDoorbell
  <2>2. LET n == Stamp(doorbellStamps, r, clock')
        IN  /\ IsMap(n, Requests, Times)
            /\ DOMAIN n = DOMAIN doorbellStamps \cup {r}
            /\ n[r] = clock'
            /\ \A s \in DOMAIN doorbellStamps : s # r => n[s] = doorbellStamps[s]
    BY <1>2, <2>1, StampedOnce
  <2> QED BY <2>1, <2>2
<1>5. ProfTypeOK'
  BY <1>1, <1>2, <1>3, <1>4 DEF ProfTypeOK, MapOK, RecordDoorbell
<1>6. StageInv'
  BY <1>1 DEF StageInv, RecordDoorbell
<1>7. RoundInv'
  <2> SUFFICES ASSUME NEW s \in Requests PROVE RoundOf(s)'
    BY DEF RoundInv
  <2>1. /\ RoundOf(s)
        /\ written' = written /\ written[s] \in Nat
    BY <1>1, ProfilerAssumption DEF RoundInv, ProfTypeOK, RecordDoorbell, Times
  <2>2. Used(s) => Stamped(s) /\ \A f \in Fields : StampsOf(s)[f] \in Nat
    BY <1>1, <2>1, StampsAreTimes DEF RoundOf
  <2>3. CASE s = r
    <3>1. Used(s) /\ (Completed(s)' => Completed(s)) /\ (Reported(s)' => Reported(s))
          /\ (Polled(s)' => Polled(s))
      BY <1>1, <2>1, <2>3 DEF RoundOf, Used, Completed, Reported, Polled, Through
    <3>2. /\ Stamped(s)' /\ StampsOf(s)'.doorbell = clock'
          /\ StampsOf(s)'.post_op = StampsOf(s).post_op
          /\ StampsOf(s)'.cqe_timestamp = StampsOf(s).cqe_timestamp
          /\ StampsOf(s)'.poll_cq = StampsOf(s).poll_cq
      BY <1>3, <2>2, <2>3, <3>1 DEF Fields
    <3>3. StampsOf(s).post_op \in Nat
      BY <2>2, <3>1 DEF Fields
    <3> QED BY <1>1, <2>1, <3>1, <3>2, <3>3 DEF RoundOf
  <2>4. CASE s # r
    <3>1. stage'[s] = stage[s] /\ posting' # s /\ posting # s
      BY <1>1, <2>4
    <3>2. Stamped(s) => Stamped(s)' /\ StampsOf(s)' = StampsOf(s) /\ StampsOf(s).post_op \in Nat
      BY <1>1, <1>3, <2>4, StampsAreTimes DEF Fields
    <3> QED BY <1>1, <2>1, <3>1, <3>2 DEF RoundOf, Used, Completed, Reported, Polled, Through
  <2> QED BY <2>3, <2>4
<1>8. SingletonInv'
  BY <1>1, <1>3, <1>4 DEF SingletonInv, RecordDoorbell, Fields
<1> QED BY <1>2, <1>5, <1>6, <1>7, <1>8 DEF ProfInv

\* The device's completion keeps the invariant.
LEMMA WriteCqeKeeps ==
    ASSUME ProfInv, NEW r \in Requests, WriteCqe(r)
    PROVE  ProfInv'
<1> USE NoRequestIsNone
<1>1. /\ ProfTypeOK /\ StageInv /\ RoundInv /\ SingletonInv /\ ClockInv
      /\ MapOK(mTimestamps)
      /\ clock \in Nat /\ sent' \in 0 .. MaxRequests /\ clock' = clock + 1
      /\ stage \in [Requests -> {"free", "built", "rung", "completed", "reported", "polled"}]
      /\ stage[r] = "rung" /\ stage' = [stage EXCEPT ![r] = "completed"]
      /\ written' = [written EXCEPT ![r] = clock'] /\ written \in [Requests -> Times]
      /\ UNCHANGED <<profilerVars, sent, posting, polling>>
  BY ProfilerAssumption DEF ProfInv, ProfTypeOK, MapOK, Times, WriteCqe, Tick
<1>2. ClockInv' /\ clock' \in Times
  <2>1. Uncompleted' = Uncompleted \ {r} /\ r \in Uncompleted /\ Unpolled' = Unpolled
    BY <1>1 DEF Uncompleted, Unpolled
  <2>2. IsFiniteSet(Uncompleted') /\ Cardinality(Uncompleted') = Cardinality(Uncompleted) - 1
    BY <1>1, <2>1, FS_RemoveElement DEF ClockInv
  <2>3. /\ Cardinality(Uncompleted) \in Nat /\ Cardinality(Unpolled) \in Nat
        /\ Cardinality(Uncompleted') \in Nat
    BY <1>1, <2>2, FS_CardinalityType DEF ClockInv
  <2>4. Unstamped' = Unstamped /\ Unstamped \in {0, 1}
    BY <1>1 DEF Unstamped
  <2>5. ClockInv'
    BY <1>1, <2>1, <2>2, <2>3, <2>4 DEF ClockInv
  <2> QED BY <1>1, <2>1, <2>3, <2>4, <2>5, ProfilerAssumption DEF ClockInv, Times
<1>3. ProfTypeOK'
  BY <1>1, <1>2 DEF ProfTypeOK, profilerVars
<1>4. StageInv'
  BY <1>1 DEF StageInv
<1>5. ASSUME NEW s \in Requests
      PROVE  Stamped(s)' = Stamped(s) /\ StampsOf(s)' = StampsOf(s)
  BY <1>1 DEF Stamped, StampsOf, profilerVars
<1>6. RoundInv'
  <2> SUFFICES ASSUME NEW s \in Requests PROVE RoundOf(s)'
    BY DEF RoundInv
  <2>1. RoundOf(s) /\ written[s] \in Nat
    BY <1>1, ProfilerAssumption DEF RoundInv, Times
  <2>2. Stamped(s) => StampsOf(s).post_op \in Nat
    BY <1>1, StampsAreTimes DEF Fields
  <2>3. CASE s = r
    BY <1>1, <1>5, <2>1, <2>2, <2>3 DEF RoundOf, Used, Completed, Reported, Polled, Through
  <2>4. CASE s # r
    BY <1>1, <1>5, <2>1, <2>2, <2>4 DEF RoundOf, Used, Completed, Reported, Polled, Through
  <2> QED BY <2>3, <2>4
<1>7. SingletonInv'
  BY <1>1, <1>5 DEF SingletonInv, profilerVars
<1> QED BY <1>2, <1>3, <1>4, <1>6, <1>7 DEF ProfInv

\* record_cqe_timestamp keeps the invariant.
LEMMA CqeTimestampKeeps ==
    ASSUME ProfInv, NEW r \in Requests, RecordCqeTimestamp(r)
    PROVE  ProfInv'
<1> USE NoRequestIsNone
<1>1. /\ ProfTypeOK /\ StageInv /\ RoundInv /\ SingletonInv /\ ClockInv
      /\ MapOK(mTimestamps)
      /\ stage \in [Requests -> {"free", "built", "rung", "completed", "reported", "polled"}]
      /\ stage[r] = "completed" /\ stage' = [stage EXCEPT ![r] = "reported"]
      /\ written[r] \in Times
      /\ polling = NoRequest /\ polling' = r
      /\ UNCHANGED <<postStamps, doorbellStamps, clock, sent, posting, written>>
  BY DEF ProfInv, ProfTypeOK, MapOK, RecordCqeTimestamp
<1>2. ClockInv'
  <2>1. Uncompleted' = Uncompleted /\ Unpolled' = Unpolled /\ Unstamped' = Unstamped
    BY <1>1 DEF Uncompleted, Unpolled, Unstamped
  <2> QED BY <1>1, <2>1 DEF ClockInv
<1>3. /\ MapOK(mTimestamps')
      /\ Stamped(r)' /\ StampsOf(r)'["cqe_timestamp"] = written[r]
      /\ Stamped(r) => \A g \in Fields \ {"cqe_timestamp"} : StampsOf(r)'[g] = StampsOf(r)[g]
      /\ \A s \in Requests : s # r /\ Stamped(s) => Stamped(s)' /\ StampsOf(s)' = StampsOf(s)
  <2>1. Record(r, "cqe_timestamp", written[r]) /\ "cqe_timestamp" \in Fields
    BY <1>1 DEF RecordCqeTimestamp, CqeTime, Fields
  <2> QED BY <1>1, <2>1, RecordedOnce
<1>4. /\ IsMap(cqeStamps', Requests, Times)
      /\ DOMAIN cqeStamps' = DOMAIN cqeStamps \cup {r}
      /\ cqeStamps'[r] = written[r]
      /\ \A s \in DOMAIN cqeStamps : s # r => cqeStamps'[s] = cqeStamps[s]
  <2>1. IsMap(cqeStamps, Requests, Times) /\ cqeStamps' = Stamp(cqeStamps, r, written[r])
    BY <1>1 DEF ProfTypeOK, RecordCqeTimestamp, CqeTime
  <2>2. LET n == Stamp(cqeStamps, r, written[r])
        IN  /\ IsMap(n, Requests, Times)
            /\ DOMAIN n = DOMAIN cqeStamps \cup {r}
            /\ n[r] = written[r]
            /\ \A s \in DOMAIN cqeStamps : s # r => n[s] = cqeStamps[s]
    BY <1>1, <2>1, StampedOnce
  <2> QED BY <2>1, <2>2
<1>5. ProfTypeOK'
  <2>1. UNCHANGED invented
    BY DEF RecordCqeTimestamp
  <2>2. stage' \in [Requests -> {"free", "built", "rung", "completed", "reported", "polled"}]
    BY <1>1
  <2> QED BY <1>1, <1>3, <1>4, <2>1, <2>2 DEF ProfTypeOK, MapOK
<1>6. StageInv'
  BY <1>1 DEF StageInv
<1>7. RoundInv'
  <2> SUFFICES ASSUME NEW s \in Requests PROVE RoundOf(s)'
    BY DEF RoundInv
  <2>1. RoundOf(s)
    BY <1>1 DEF RoundInv
  <2>2. CASE s = r
    <3>1. Used(s) /\ Completed(s) /\ ~Polled(s)'
      BY <1>1, <2>2 DEF Used, Completed, Polled, Through
    <3>2. /\ Stamped(s)' /\ StampsOf(s)'.cqe_timestamp = written[s]
          /\ StampsOf(s)'.post_op = StampsOf(s).post_op
          /\ StampsOf(s)'.doorbell = StampsOf(s).doorbell
      BY <1>3, <2>1, <2>2, <3>1 DEF RoundOf, Fields
    <3> QED BY <1>1, <2>1, <2>2, <3>1, <3>2 DEF RoundOf
  <2>3. CASE s # r
    <3>1. stage'[s] = stage[s]
      BY <1>1, <2>3
    <3>2. Stamped(s) => Stamped(s)' /\ StampsOf(s)' = StampsOf(s)
      BY <1>3, <2>3
    <3> QED BY <1>1, <2>1, <3>1, <3>2 DEF RoundOf, Used, Completed, Reported, Polled, Through
  <2> QED BY <2>2, <2>3
<1>8. SingletonInv'
  BY <1>1, <1>3, <1>4 DEF SingletonInv, Fields
<1> QED BY <1>2, <1>5, <1>6, <1>7, <1>8 DEF ProfInv

\* record_poll_cq keeps the invariant.
LEMMA PollCqKeeps ==
    ASSUME ProfInv, NEW r \in Requests, r = polling, RecordPollCq
    PROVE  ProfInv'
<1> USE NoRequestIsNone
<1>1. /\ ProfTypeOK /\ StageInv /\ RoundInv /\ SingletonInv /\ ClockInv
      /\ MapOK(mTimestamps)
      /\ clock \in Nat /\ sent' \in 0 .. MaxRequests /\ clock' = clock + 1
      /\ stage \in [Requests -> {"free", "built", "rung", "completed", "reported", "polled"}]
      /\ stage' = [stage EXCEPT ![r] = IF posting = r THEN "polled" ELSE "free"]
      /\ stage[r] = "reported"
      /\ polling = r /\ polling' = NoRequest
      /\ UNCHANGED <<postStamps, doorbellStamps, cqeStamps, sent, posting, written>>
  BY ProfilerAssumption DEF ProfInv, ProfTypeOK, MapOK, StageInv, Times, RecordPollCq, Tick
<1>2. ClockInv' /\ clock' \in Times
  <2>1. Unpolled' = Unpolled \ {r} /\ r \in Unpolled /\ Uncompleted' = Uncompleted
    BY <1>1 DEF Uncompleted, Unpolled
  <2>2. IsFiniteSet(Unpolled') /\ Cardinality(Unpolled') = Cardinality(Unpolled) - 1
    BY <1>1, <2>1, FS_RemoveElement DEF ClockInv
  <2>3. /\ Cardinality(Uncompleted) \in Nat /\ Cardinality(Unpolled) \in Nat
        /\ Cardinality(Unpolled') \in Nat
    BY <1>1, <2>2, FS_CardinalityType DEF ClockInv
  <2>4. Unstamped' = Unstamped /\ Unstamped \in {0, 1}
    BY <1>1 DEF Unstamped
  <2>5. ClockInv'
    BY <1>1, <2>1, <2>2, <2>3, <2>4 DEF ClockInv
  <2> QED BY <1>1, <2>1, <2>3, <2>4, <2>5, ProfilerAssumption DEF ClockInv, Times
<1>3. /\ MapOK(mTimestamps')
      /\ Stamped(r)' /\ StampsOf(r)'["poll_cq"] = clock'
      /\ Stamped(r) => \A g \in Fields \ {"poll_cq"} : StampsOf(r)'[g] = StampsOf(r)[g]
      /\ \A s \in Requests : s # r /\ Stamped(s) => Stamped(s)' /\ StampsOf(s)' = StampsOf(s)
  <2>1. Record(r, "poll_cq", clock') /\ "poll_cq" \in Fields
    BY <1>1 DEF RecordPollCq, Fields
  <2> QED BY <1>1, <1>2, <2>1, RecordedOnce
<1>4. ProfTypeOK'
  <2>1. UNCHANGED invented
    BY DEF RecordPollCq
  <2>2. stage' \in [Requests -> {"free", "built", "rung", "completed", "reported", "polled"}]
    BY <1>1
  <2> QED BY <1>1, <1>2, <1>3, <2>1, <2>2 DEF ProfTypeOK, MapOK
<1>5. StageInv'
  BY <1>1 DEF StageInv
<1>6. RoundInv'
  <2> SUFFICES ASSUME NEW s \in Requests PROVE RoundOf(s)'
    BY DEF RoundInv
  <2>1. RoundOf(s) /\ written[s] \in Nat
    BY <1>1, ProfilerAssumption DEF RoundInv, ProfTypeOK, Times
  <2>2. CASE s = r
    <3>1. Used(s) /\ Completed(s) /\ Reported(s)
      BY <1>1, <2>2 DEF Used, Completed, Reported
    <3>2. /\ Stamped(s)' /\ StampsOf(s)'.poll_cq = clock'
          /\ StampsOf(s)'.post_op = StampsOf(s).post_op
          /\ StampsOf(s)'.doorbell = StampsOf(s).doorbell
          /\ StampsOf(s)'.cqe_timestamp = StampsOf(s).cqe_timestamp
      BY <1>3, <2>1, <2>2, <3>1 DEF RoundOf, Fields
    <3>3. StampsOf(s).post_op \in Nat
      BY <1>1, <2>1, <3>1, StampsAreTimes DEF RoundOf, Fields
    <3> QED BY <1>1, <2>1, <2>2, <3>1, <3>2, <3>3 DEF RoundOf
  <2>3. CASE s # r
    <3>1. stage'[s] = stage[s]
      BY <1>1, <2>3
    <3>2. Stamped(s) => Stamped(s)' /\ StampsOf(s)' = StampsOf(s) /\ StampsOf(s).post_op \in Nat
      BY <1>1, <1>3, <2>3, StampsAreTimes DEF Fields
    <3> QED BY <1>1, <2>1, <3>1, <3>2 DEF RoundOf, Used, Completed, Reported, Polled, Through
  <2> QED BY <2>2, <2>3
<1>7. SingletonInv'
  BY <1>1, <1>3 DEF SingletonInv, Fields
<1> QED BY <1>2, <1>4, <1>5, <1>6, <1>7 DEF ProfInv

\* A look-up leaves every record there is.
LEMMA AnalyzeKeeps ==
    ASSUME ProfInv, NEW r \in Requests, AnalyzeLatency(r)
    PROVE  ProfInv'
<1>1. /\ ProfTypeOK /\ StageInv /\ RoundInv /\ SingletonInv /\ ClockInv
      /\ MapOK(mTimestamps) /\ r[1] \in Qps /\ r[2] \in Ids
      /\ mTimestamps' = GetOrCreate(mTimestamps, r[1], r[2])
      /\ UNCHANGED <<postStamps, doorbellStamps, cqeStamps, programVars>>
  BY DEF ProfInv, ProfTypeOK, MapOK, AnalyzeLatency, Requests
<1> DEFINE n == GetOrCreate(mTimestamps, r[1], r[2])
<1>2. /\ MapOK(n)
      /\ DOMAIN n = DOMAIN mTimestamps \cup {r[1]}
      /\ r[2] \in DOMAIN n[r[1]]
      /\ \A p \in DOMAIN mTimestamps : p # r[1] => n[p] = mTimestamps[p]
      /\ r[1] \in DOMAIN mTimestamps =>
           \A i \in DOMAIN mTimestamps[r[1]] :
               i \in DOMAIN n[r[1]] /\ n[r[1]][i] = mTimestamps[r[1]][i]
  BY <1>1, CreatedOnce
<1>3. MapOK(mTimestamps')
  BY <1>1, <1>2
<1>4. \A s \in Requests : Stamped(s) => Stamped(s)' /\ StampsOf(s)' = StampsOf(s)
  BY <1>1, <1>2 DEF Stamped, StampsOf
<1>5. ProfTypeOK'
  <2>1. invented' \subseteq Requests
    BY <1>1 DEF AnalyzeLatency, ProfTypeOK
  <2> QED BY <1>1, <1>3, <2>1 DEF ProfTypeOK, MapOK, programVars
<1>6. StageInv'
  BY <1>1 DEF StageInv, programVars
<1>7. RoundInv'
  <2> SUFFICES ASSUME NEW s \in Requests PROVE RoundOf(s)'
    BY DEF RoundInv
  <2>1. RoundOf(s) /\ (Stamped(s) => Stamped(s)' /\ StampsOf(s)' = StampsOf(s))
    BY <1>1, <1>4 DEF RoundInv
  <2> QED BY <1>1, <2>1 DEF RoundOf, Used, Completed, Reported, Polled, Through, programVars
<1>8. SingletonInv'
  BY <1>1, <1>4 DEF SingletonInv
<1>9. ClockInv'
  <2>1. Uncompleted' = Uncompleted /\ Unpolled' = Unpolled /\ Unstamped' = Unstamped
    BY <1>1 DEF Uncompleted, Unpolled, Unstamped, programVars
  <2> QED BY <1>1, <2>1 DEF ClockInv, programVars
<1> QED BY <1>5, <1>6, <1>7, <1>8, <1>9 DEF ProfInv

\* Forgetting the stamps, or nothing, keeps the invariant.
LEMMA ResetKeeps ==
    ASSUME ProfInv, UNCHANGED <<mTimestamps, invented, programVars>>,
           \/ ResetStamps
           \/ UNCHANGED <<postStamps, doorbellStamps, cqeStamps>>
    PROVE  ProfInv'
<1>1. /\ ProfTypeOK /\ StageInv /\ RoundInv /\ SingletonInv /\ ClockInv
      /\ UNCHANGED <<mTimestamps, invented, clock, sent, posting, polling, stage, written>>
  BY DEF ProfInv, programVars
<1>2. ProfTypeOK'
  <2>1. IsMap(Empty, Requests, Times)
    BY DEF IsMap, Empty
  <2>2. \A m \in {postStamps, doorbellStamps, cqeStamps}' : IsMap(m, Requests, Times)
    BY <1>1, <2>1 DEF ProfTypeOK, ResetStamps
  <2> QED BY <1>1, <2>2 DEF ProfTypeOK
<1>3. \A s \in Requests : Stamped(s)' = Stamped(s) /\ StampsOf(s)' = StampsOf(s)
  BY <1>1 DEF Stamped, StampsOf
<1>4. StageInv'
  BY <1>1 DEF StageInv
<1>5. RoundInv'
  <2> SUFFICES ASSUME NEW s \in Requests PROVE RoundOf(s)'
    BY DEF RoundInv
  <2>1. RoundOf(s) /\ Stamped(s)' = Stamped(s) /\ StampsOf(s)' = StampsOf(s)
    BY <1>1, <1>3 DEF RoundInv
  <2> QED BY <1>1, <2>1 DEF RoundOf, Used, Completed, Reported, Polled, Through
<1>6. SingletonInv'
  BY <1>1, <1>3 DEF SingletonInv, ResetStamps, Empty
<1>7. ClockInv'
  <2>1. Uncompleted' = Uncompleted /\ Unpolled' = Unpolled /\ Unstamped' = Unstamped
    BY <1>1 DEF Uncompleted, Unpolled, Unstamped
  <2> QED BY <1>1, <2>1 DEF ClockInv
<1> QED BY <1>2, <1>4, <1>5, <1>6, <1>7 DEF ProfInv

\* Every step keeps the invariant, action by action.
LEMMA StepProfInv == ProfInv /\ [ProfNext]_profVars => ProfInv'
<1> SUFFICES ASSUME ProfInv, [ProfNext]_profVars PROVE ProfInv'
  OBVIOUS
<1>1. ASSUME NEW r \in Requests, RecordPostOp(r) PROVE ProfInv'
  BY <1>1, PostOpKeeps
<1>2. ASSUME NEW r \in Requests, WriteCqe(r) PROVE ProfInv'
  BY <1>2, WriteCqeKeeps
<1>3. ASSUME NEW r \in Requests, RecordCqeTimestamp(r) PROVE ProfInv'
  BY <1>3, CqeTimestampKeeps
<1>4. ASSUME NEW r \in Requests, AnalyzeLatency(r) PROVE ProfInv'
  BY <1>4, AnalyzeKeeps
<1>5. CASE PostSend
  BY <1>5, PostSendKeeps
<1>6. CASE RecordDoorbell
  <2>1. posting \in Requests
    BY <1>6 DEF RecordDoorbell, ProfInv, ProfTypeOK
  <2> QED BY <1>6, <2>1, DoorbellKeeps
<1>7. CASE RecordPollCq
  <2>1. polling \in Requests
    BY <1>7 DEF RecordPollCq, ProfInv, ProfTypeOK
  <2> QED BY <1>7, <2>1, PollCqKeeps
<1>8. CASE ResetStamps \/ UNCHANGED profVars
  BY <1>8, ResetKeeps DEF ResetStamps, profVars, programVars
<1> QED BY <1>1, <1>2, <1>3, <1>4, <1>5, <1>6, <1>7, <1>8 DEF ProfNext

\* So it holds throughout every run.
LEMMA ProfInductive == ProfSpec => []ProfInv
  BY InitProfInv, StepProfInv, PTL DEF ProfSpec

--------------------------------------------------------------------------------
(***************************************************************************)
(* Theorems.                                                               *)
(***************************************************************************)

\* Every stamp is a time the clock has shown, and the clock needs no more than four
\* ticks for each request (record_*, profiler.h).
THEOREM ProfTypesHold == ProfSpec => []ProfTypeOK
<1>1. ProfInv => ProfTypeOK
  BY DEF ProfInv
<1> QED BY <1>1, ProfInductive, PTL

\* However the threads and the device interleave and however often an id is used,
\* the four stamps of a finished request are of one round and in order (record_*,
\* profiler.h).
THEOREM FinishedOrdered == ProfSpec => []FinishedSamplesOrdered
<1>1. ProfInv => FinishedSamplesOrdered
  <2> SUFFICES ASSUME ProfInv, NEW r \in Finished
               PROVE  LET ts == mTimestamps[r[1]][r[2]]
                      IN  /\ 0 < ts.post_op
                          /\ ts.post_op < ts.doorbell
                          /\ ts.post_op < ts.cqe_timestamp
                          /\ ts.cqe_timestamp < ts.poll_cq
    BY DEF FinishedSamplesOrdered
  <2>1. r \in Requests /\ RoundOf(r) /\ Through(r) /\ posting # r
    BY DEF Finished, ProfInv, RoundInv, Through
  <2> QED BY <2>1 DEF RoundOf, Used, Completed, Reported, Polled, StampsOf
<1> QED BY <1>1, ProfInductive, PTL

\* The stamps the singleton holds of a finished request are of its round, whatever
\* reset() has dropped (profiler_singleton.h).
THEOREM SingletonInOrder == ProfSpec => []SingletonOrdered
<1>1. ProfInv => SingletonOrdered
  <2> SUFFICES ASSUME ProfInv, NEW r \in Finished \cap DOMAIN postStamps
               PROVE  /\ r \in DOMAIN doorbellStamps => postStamps[r] < doorbellStamps[r]
                      /\ r \in DOMAIN cqeStamps => postStamps[r] < cqeStamps[r]
    BY DEF SingletonOrdered
  <2>1. r \in Requests /\ RoundOf(r) /\ Through(r) /\ posting # r
    BY DEF Finished, ProfInv, RoundInv, Through
  <2> QED BY <2>1 DEF ProfInv, SingletonInv, RoundOf, Used, Completed, Reported, Polled
<1> QED BY <1>1, ProfInductive, PTL

--------------------------------------------------------------------------------
(***************************************************************************)
(* The statistics: which samples there are, and what their sum, least and  *)
(* greatest are worth.                                                     *)
(***************************************************************************)

\* The requests posted so far.
Posted == {r \in Requests : stage[r] # "free" \/ written[r] > 0}

\* The profiler has a record of a request only if it was posted or asked for, zeros if
\* it was not posted, and finitely many were.
SampleInv ==
    /\ IsFiniteSet(Posted \cup invented)
    /\ \A r \in Requests : Stamped(r) => r \in Posted \cup invented
    /\ \A r \in invented : Stamped(r) /\ (r \notin Posted => StampsOf(r) = NoStamps)

\* A step of the profiler makes a record for no other request.
LEMMA NoOtherKey ==
    ASSUME MapOK(mTimestamps), NEW r \in Requests, NEW f, NEW t,
           \/ Record(r, f, t)
           \/ mTimestamps' = GetOrCreate(mTimestamps, r[1], r[2]),
           NEW s \in Requests, Stamped(s)'
    PROVE  s = r \/ Stamped(s)
<1> DEFINE n == GetOrCreate(mTimestamps, r[1], r[2])
           ids == IF r[1] \in DOMAIN mTimestamps THEN mTimestamps[r[1]] ELSE Empty
           own == IF r[2] \in DOMAIN ids THEN ids ELSE Assign(ids, r[2], NoStamps)
<1>1. DOMAIN own = DOMAIN ids \cup {r[2]}
  BY DEF Assign
<1>2. n = Assign(mTimestamps, r[1], own)
  BY DEF GetOrCreate
<1>3. /\ DOMAIN n = DOMAIN mTimestamps \cup {r[1]}
      /\ n[r[1]] = own
      /\ \A p \in DOMAIN mTimestamps : p # r[1] => n[p] = mTimestamps[p]
  <2> HIDE DEF own, n
  <2> QED BY <1>2 DEF Assign
<1>4. /\ DOMAIN mTimestamps' = DOMAIN n
      /\ \A p \in DOMAIN n : DOMAIN mTimestamps'[p] = DOMAIN n[p]
  <2>1. CASE mTimestamps' = n
    BY <2>1
  <2>2. CASE Record(r, f, t)
    <3>1. mTimestamps' = [n EXCEPT ![r[1]][r[2]][f] = t]
      BY <2>2 DEF Record
    <3> HIDE DEF n
    <3> QED BY <3>1
  <2> QED BY <2>1, <2>2
<1> HIDE DEF own, n
<1>5. s[1] \in DOMAIN n /\ s[2] \in DOMAIN n[s[1]]
  BY <1>4 DEF Stamped
<1>6. CASE s[1] # r[1]
  BY <1>3, <1>5, <1>6 DEF Stamped
<1>7. CASE s[1] = r[1]
  <2>1. s[2] = r[2] \/ s[2] \in DOMAIN ids
    BY <1>1, <1>3, <1>5, <1>7
  <2>2. s[2] \in DOMAIN ids => Stamped(s)
    BY <1>7 DEF Stamped, Empty
  <2>3. s[2] = r[2] => s = r
    BY <1>7 DEF Requests
  <2> QED BY <2>1, <2>2, <2>3
<1> QED BY <1>6, <1>7

\* A request whose CQE was written shows the time of it.
LEMMA CompletedIsWritten ==
    ASSUME ProfInv, NEW r \in Requests, Completed(r)
    PROVE  written[r] > 0
<1>1. RoundOf(r) /\ MapOK(mTimestamps) /\ written[r] \in Nat
  BY ProfilerAssumption DEF ProfInv, RoundInv, ProfTypeOK, MapOK, Times
<1>2. Used(r) /\ Stamped(r)
  BY <1>1 DEF Completed, Used, RoundOf
<1>3. StampsOf(r).post_op \in Nat
  BY <1>1, <1>2, StampsAreTimes DEF Fields
<1> QED BY <1>1, <1>2, <1>3 DEF RoundOf

\* What analyze_latency makes of a request without a record.
LEMMA AnalyzedIsZero ==
    ASSUME NEW r \in Requests
    PROVE  LET n == GetOrCreate(mTimestamps, r[1], r[2])
           IN  /\ r[2] \in DOMAIN n[r[1]] /\ r[1] \in DOMAIN n
               /\ ~Stamped(r) => n[r[1]][r[2]] = NoStamps
<1> DEFINE n == GetOrCreate(mTimestamps, r[1], r[2])
           ids == IF r[1] \in DOMAIN mTimestamps THEN mTimestamps[r[1]] ELSE Empty
           own == IF r[2] \in DOMAIN ids THEN ids ELSE Assign(ids, r[2], NoStamps)
<1>1. ~Stamped(r) => r[2] \notin DOMAIN ids
  BY DEF Stamped, Empty
<1> HIDE DEF ids
<1>2. r[2] \in DOMAIN own /\ (r[2] \notin DOMAIN ids => own[r[2]] = NoStamps)
  BY DEF Assign
<1>3. n = Assign(mTimestamps, r[1], own)
  BY DEF GetOrCreate, ids
<1> HIDE DEF own, n
<1>4. r[1] \in DOMAIN n /\ n[r[1]] = own
  BY <1>3 DEF Assign
<1> QED BY <1>1, <1>2, <1>4 DEF n

\* Every step keeps the records to the requests posted or asked for.
LEMMA SamplesKept == ProfInv /\ SampleInv /\ [ProfNext]_profVars => SampleInv'
<1> SUFFICES ASSUME ProfInv, SampleInv, [ProfNext]_profVars PROVE SampleInv'
  OBVIOUS
<1> USE NoRequestIsNone
<1>1. /\ MapOK(mTimestamps) /\ StageInv
      /\ stage \in [Requests -> {"free", "built", "rung", "completed", "reported", "polled"}]
      /\ written \in [Requests -> Times]
      /\ posting \in Requests \cup {NoRequest} /\ polling \in Requests \cup {NoRequest}
  BY DEF ProfInv, ProfTypeOK, MapOK
<1>0. clock' \in Times /\ invented \subseteq Requests
  BY StepProfInv DEF ProfInv, ProfTypeOK
\* A stamp of a request that is posted with it or was before.
<1>2. ASSUME NEW r \in Requests, Posted' = Posted \cup {r}, invented' = invented,
             NEW f \in Fields, NEW t \in Times, Record(r, f, t)
      PROVE  SampleInv'
  <2>1. IsFiniteSet(Posted' \cup invented')
    <3>1. IsFiniteSet((Posted \cup invented) \cup {r})
      BY FS_AddElement DEF SampleInv
    <3>2. (Posted \cup invented) \cup {r} = Posted' \cup invented'
      BY <1>2
    <3> QED BY <3>1, <3>2
  <2>2. ASSUME NEW s \in Requests, Stamped(s)' PROVE s = r \/ Stamped(s)
    BY <1>1, <1>2, <2>2, NoOtherKey
  <2>3. \A s \in Requests : Stamped(s)' => s \in Posted' \cup invented'
    BY <1>2, <2>2 DEF SampleInv
  <2>4. /\ Stamped(r)'
        /\ \A s \in Requests : s # r /\ Stamped(s) => Stamped(s)' /\ StampsOf(s)' = StampsOf(s)
    BY <1>1, <1>2, RecordedOnce
  <2>5. ASSUME NEW s \in invented'
        PROVE  Stamped(s)' /\ (s \notin Posted' => StampsOf(s)' = NoStamps)
    <3>1. s \in invented /\ s \in Requests /\ Stamped(s)
      BY <1>0, <1>2, <2>5 DEF SampleInv
    <3>2. s \notin Posted' => s # r /\ s \notin Posted
      BY <1>2
    <3> QED BY <2>4, <3>1, <3>2 DEF SampleInv
  <2> QED BY <2>1, <2>3, <2>5 DEF SampleInv
<1>3. ASSUME UNCHANGED <<mTimestamps, invented>>, Posted' = Posted PROVE SampleInv'
  BY <1>3 DEF SampleInv, Stamped, StampsOf
<1>4. ASSUME NEW r \in Requests, RecordPostOp(r) PROVE SampleInv'
  <2>1. Posted' = Posted \cup {r}
    BY <1>1, <1>4 DEF RecordPostOp, Posted
  <2>2. Record(r, "post_op", clock') /\ "post_op" \in Fields
    BY <1>4 DEF RecordPostOp, Fields
  <2> QED BY <1>0, <1>2, <1>4, <2>1, <2>2 DEF RecordPostOp
<1>5. CASE PostSend
  <2>1. Posted' = Posted /\ UNCHANGED <<mTimestamps, invented>>
    BY <1>1, <1>5 DEF PostSend, Posted, profilerVars
  <2> QED BY <1>3, <2>1
<1>6. CASE RecordDoorbell
  <2>1. PICK r \in Requests : r = posting
    BY <1>1, <1>6 DEF RecordDoorbell
  <2>2. stage[r] # "free" /\ (stage[r] = "polled" => written[r] > 0)
    BY <1>1, <2>1, CompletedIsWritten DEF StageInv, Completed
  <2>3. Posted' = Posted \cup {r}
    BY <1>1, <1>6, <2>1, <2>2 DEF RecordDoorbell, Posted
  <2>4. Record(r, "doorbell", clock') /\ "doorbell" \in Fields
    BY <1>6, <2>1 DEF RecordDoorbell, Fields
  <2> QED BY <1>0, <1>2, <1>6, <2>3, <2>4 DEF RecordDoorbell
<1>7. ASSUME NEW r \in Requests, WriteCqe(r) PROVE SampleInv'
  <2>1. Posted' = Posted
    <3> SUFFICES ASSUME NEW s \in Requests PROVE s \in Posted' <=> s \in Posted
      BY DEF Posted
    <3>1. CASE s = r
      BY <1>1, <1>7, <3>1 DEF WriteCqe, Posted
    <3>2. CASE s # r
      BY <1>1, <1>7, <3>2 DEF WriteCqe, Posted
    <3> QED BY <3>1, <3>2
  <2>2. UNCHANGED <<mTimestamps, invented>>
    BY <1>7 DEF WriteCqe, profilerVars
  <2> QED BY <1>3, <2>1, <2>2
<1>8. ASSUME NEW r \in Requests, RecordCqeTimestamp(r) PROVE SampleInv'
  <2>1. Posted' = Posted \cup {r}
    BY <1>1, <1>8 DEF RecordCqeTimestamp, Posted
  <2>2. Record(r, "cqe_timestamp", CqeTime(r)) /\ "cqe_timestamp" \in Fields
    BY <1>8 DEF RecordCqeTimestamp, Fields
  <2>3. CqeTime(r) \in Times
    BY <1>1 DEF CqeTime
  <2> QED BY <1>2, <1>8, <2>1, <2>2, <2>3 DEF RecordCqeTimestamp
<1>9. CASE RecordPollCq
  <2>1. PICK r \in Requests : r = polling
    BY <1>1, <1>9 DEF RecordPollCq
  <2>2. stage[r] = "reported" /\ written[r] > 0
    BY <1>1, <2>1, CompletedIsWritten DEF StageInv, Completed
  <2>3. Posted' = Posted \cup {r}
    BY <1>1, <1>9, <2>1, <2>2 DEF RecordPollCq, Posted
  <2>4. Record(r, "poll_cq", clock') /\ "poll_cq" \in Fields
    BY <1>9, <2>1 DEF RecordPollCq, Fields
  <2> QED BY <1>0, <1>2, <1>9, <2>3, <2>4 DEF RecordPollCq
<1>10. ASSUME NEW r \in Requests, AnalyzeLatency(r) PROVE SampleInv'
  <2> DEFINE n == GetOrCreate(mTimestamps, r[1], r[2])
  <2>1. /\ mTimestamps' = n /\ Posted' = Posted
        /\ invented' = IF Stamped(r) THEN invented ELSE invented \cup {r}
    BY <1>10 DEF AnalyzeLatency, Posted, programVars
  <2>2. /\ r[2] \in DOMAIN n[r[1]] /\ r[1] \in DOMAIN n
        /\ ~Stamped(r) => n[r[1]][r[2]] = NoStamps
    BY AnalyzedIsZero
  <2>3. /\ Stamped(r)' /\ (~Stamped(r) => StampsOf(r)' = NoStamps)
        /\ \A s \in Requests : Stamped(s) => Stamped(s)' /\ StampsOf(s)' = StampsOf(s)
    <3>1. /\ \A p \in DOMAIN mTimestamps : p # r[1] => n[p] = mTimestamps[p] /\ p \in DOMAIN n
          /\ r[1] \in DOMAIN mTimestamps =>
               \A i \in DOMAIN mTimestamps[r[1]] :
                   i \in DOMAIN n[r[1]] /\ n[r[1]][i] = mTimestamps[r[1]][i]
      <4>1. MapOK(mTimestamps) /\ r[1] \in Qps /\ r[2] \in Ids
        BY <1>1 DEF Requests
      <4>2. /\ MapOK(n)
            /\ DOMAIN n = DOMAIN mTimestamps \cup {r[1]}
            /\ r[2] \in DOMAIN n[r[1]]
            /\ \A p \in DOMAIN mTimestamps : p # r[1] => n[p] = mTimestamps[p]
            /\ r[1] \in DOMAIN mTimestamps =>
                 \A i \in DOMAIN mTimestamps[r[1]] :
                     i \in DOMAIN n[r[1]] /\ n[r[1]][i] = mTimestamps[r[1]][i]
        BY <4>1, CreatedOnce
      <4> HIDE DEF n
      <4> QED BY ONLY <4>2
    <3> HIDE DEF n
    <3> QED BY <2>1, <2>2, <3>1 DEF Stamped, StampsOf
  <2> HIDE DEF n
  <2>4. IsFiniteSet(Posted' \cup invented')
    <3>1. IsFiniteSet(Posted \cup invented) /\ IsFiniteSet((Posted \cup invented) \cup {r})
      BY FS_AddElement DEF SampleInv
    <3>2. \/ Posted' \cup invented' = Posted \cup invented
          \/ Posted' \cup invented' = (Posted \cup invented) \cup {r}
      BY <2>1
    <3> QED BY <3>1, <3>2
  <2>5. ASSUME NEW s \in Requests, Stamped(s)' PROVE s \in Posted' \cup invented'
    <3>1. s = r \/ Stamped(s)
      BY <1>1, <2>1, <2>5, NoOtherKey DEF n
    <3> QED BY <2>1, <3>1 DEF SampleInv
  <2>6. ASSUME NEW s \in invented'
        PROVE  Stamped(s)' /\ (s \notin Posted' => StampsOf(s)' = NoStamps)
    <3>1. s \in invented \/ (s = r /\ ~Stamped(r))
      BY <2>1
    <3> QED BY <1>0, <2>1, <2>3, <3>1 DEF SampleInv
  <2> QED BY <2>4, <2>5, <2>6 DEF SampleInv
<1>11. CASE ResetStamps \/ UNCHANGED profVars
  <2>1. UNCHANGED <<mTimestamps, invented>> /\ Posted' = Posted
    BY <1>11 DEF ResetStamps, Posted, programVars, profVars
  <2> QED BY <1>3, <2>1
<1> QED BY <1>4, <1>5, <1>6, <1>7, <1>8, <1>9, <1>10, <1>11 DEF ProfNext

\* So both hold throughout every run.
LEMMA SamplesInductive == ProfSpec => [](ProfInv /\ SampleInv)
<1>1. ProfInit => SampleInv
  <2> SUFFICES ASSUME ProfInit PROVE SampleInv
    OBVIOUS
  <2>1. Posted \cup invented = {}
    BY DEF ProfInit, Posted
  <2> QED BY <2>1, FS_EmptySet DEF SampleInv, ProfInit, Stamped, Empty
<1> QED BY <1>1, InitProfInv, StepProfInv, SamplesKept, PTL DEF ProfSpec

\* analyze_qp_stats of samples whose totals lie in a range: the least is one of them,
\* and the sum is as far from the least and the greatest as it can be.
LEMMA StatsOfSamples ==
    ASSUME NEW m, NEW q \in DOMAIN m, DOMAIN m[q] # {}, IsFiniteSet(DOMAIN m[q]), NEW b \in Nat,
           \A id \in DOMAIN m[q] : /\ Latency(m[q][id]).total_latency \in Nat
                                   /\ Latency(m[q][id]).total_latency <= b
    PROVE  LET stats == QpStats(m, q)
           IN  /\ stats.sample_count = Cardinality(DOMAIN m[q])
               /\ stats.min * stats.sample_count <= stats.sum
               /\ stats.sum <= stats.max * stats.sample_count
               /\ stats.min > 0 <=>
                    \A id \in DOMAIN m[q] : Latency(m[q][id]).total_latency > 0
               /\ stats.max > 0 <=>
                    \E id \in DOMAIN m[q] : Latency(m[q][id]).total_latency > 0
<1> DEFINE D == DOMAIN m[q]
           total(id) == Latency(m[q][id]).total_latency
           T == {total(id) : id \in D}
           w == [id \in D |-> total(id)]
           lo == Min(T)
           hi == Max(T)
           sum == MapThenSumSet(total, D)
<1>1. QpStats(m, q) = [sample_count |-> Cardinality(D), sum |-> sum, min |-> lo, max |-> hi]
  BY DEF QpStats
<1>10. \A n : n \in T <=> \E id \in D : n = total(id)
  OBVIOUS
<1>2. T \in SUBSET Nat /\ T # {} /\ (\A n \in T : n <= b)
  <2> HIDE DEF total
  <2>1. \A id \in D : total(id) \in Nat /\ total(id) <= b
    BY DEF total
  <2> HIDE DEF D
  <2>2. D # {}
    BY DEF D
  <2> QED BY <2>1, <2>2
<1> HIDE DEF T
<1>3. lo \in T /\ \A n \in T : lo <= n
  <2>1. \E n \in T : \A k \in T : n <= k
    BY <1>2, LeastNumber
  <2> QED BY <2>1 DEF Min
<1>4. hi \in T /\ \A n \in T : hi >= n
  <2>1. PICK n \in T : \A k \in T : k <= n
    BY <1>2, GreatestNumber
  <2>2. \A k \in T : n >= k
    BY <1>2, <2>1
  <2> QED BY <2>2 DEF Max
<1> HIDE DEF lo, hi
<1>5. \A id \in D : w[id] \in T /\ w[id] = total(id)
  BY DEF T
<1>6. \E it : Sums(it, w, D) /\ sum = it[D]
  <2> DEFINE Iter(it) == it = [s \in SUBSET D |->
                 IF s = {} THEN 0
                 ELSE total(CHOOSE x \in s : TRUE) + it[s \ {CHOOSE x \in s : TRUE}]]
  <2>1. sum = (CHOOSE it : Iter(it))[D]
    BY DEF MapThenSumSet, MapThenFoldSet
  <2> HIDE DEF total, w
  <2>2. ASSUME NEW it
        PROVE  [s \in SUBSET D |-> IF s = {} THEN 0 ELSE w[First(s)] + it[s \ {First(s)}]]
               = [s \in SUBSET D |->
                     IF s = {} THEN 0
                     ELSE total(CHOOSE x \in s : TRUE) + it[s \ {CHOOSE x \in s : TRUE}]]
    <3> HIDE DEF D
    <3>1. \A s \in SUBSET D : s # {} => w[First(s)] = total(CHOOSE x \in s : TRUE)
      BY <1>5, FirstIn DEF First
    <3> QED BY <3>1 DEF First
  <2>3. \A it : Sums(it, w, D) <=> Iter(it)
    BY <2>2 DEF Sums
  <2>4. \E it : Sums(it, w, D)
    BY SumsExist
  <2> HIDE DEF Iter, D, sum
  <2>5. Iter(CHOOSE it : Iter(it))
    BY <2>3, <2>4
  <2> QED BY <2>1, <2>3, <2>5
<1> HIDE DEF w, sum, D, total
<1>7. PICK it : Sums(it, w, D) /\ sum = it[D]
  BY <1>6
<1>8. lo * Cardinality(D) <= sum /\ sum <= hi * Cardinality(D)
  <2>1. lo \in Nat /\ hi \in Nat /\ IsFiniteSet(D)
    BY <1>2, <1>3, <1>4 DEF D
  <2>2. \A id \in D : w[id] \in Nat /\ lo <= w[id] /\ w[id] <= hi
    BY <1>2, <1>3, <1>4, <1>5, <2>1
  <2>3. lo * Cardinality(D) <= it[D] /\ it[D] <= hi * Cardinality(D)
    BY <1>7, <2>1, <2>2, SumsBetween
  <2> QED BY <1>7, <2>3
<1>9. /\ lo > 0 <=> \A id \in D : total(id) > 0
      /\ hi > 0 <=> \E id \in D : total(id) > 0
  <2>1. lo > 0 <=> \A n \in T : n > 0
    BY <1>2, <1>3
  <2>2. hi > 0 <=> \E n \in T : n > 0
    BY <1>2, <1>4
  <2> QED BY <1>10, <2>1, <2>2
<1> QED BY <1>1, <1>8, <1>9 DEF D, total

\* With nothing under way the statistics of a queue pair count each request id once that
\* was posted or analysed; their least is positive exactly if no id was only analysed, and
\* their sum is one of as many values between the least and the greatest
\* (analyze_qp_stats, analyze_latency).
THEOREM StatsHold == ProfSpec => []StatsAtRest
<1>1. ProfInv /\ SampleInv => StatsAtRest
  <2> SUFFICES ASSUME ProfInv, SampleInv, AtRest, NEW q \in Qps
               PROVE  LET stats == QpStats(mTimestamps, q)
                          used == Of(q, Finished)
                          samples == Of(q, Finished \cup invented)
                      IN  /\ stats.sample_count = Cardinality(samples)
                          /\ stats.min * stats.sample_count <= stats.sum
                          /\ stats.sum <= stats.max * stats.sample_count
                          /\ used # {} => stats.max > 0 /\ (stats.min > 0 <=> samples = used)
    BY DEF StatsAtRest
  <2> DEFINE used == Of(q, Finished)
             samples == Of(q, Finished \cup invented)
             ids == IF q \in DOMAIN mTimestamps THEN DOMAIN mTimestamps[q] ELSE {}
  <2>1. /\ MapOK(mTimestamps) /\ invented \subseteq Requests
        /\ \A r \in Requests : RoundOf(r) /\ posting # r /\ written[r] \in Nat /\ stage[r] = "free"
    BY ProfilerAssumption
       DEF ProfInv, ProfTypeOK, MapOK, RoundInv, StageInv, Times, AtRest
  <2>2. /\ Finished = {r \in Requests : written[r] > 0}
        /\ Posted = Finished
        /\ used \subseteq samples /\ samples \subseteq Posted \cup invented
    BY <2>1 DEF Finished, Posted, Of
  <2>3. \A r \in Requests : r \in samples <=> r[1] = q /\ Stamped(r)
    BY <2>1, <2>2 DEF SampleInv, RoundOf, Used, Through, Of
  <2>4. \A id \in ids : <<q, id>> \in Requests /\ <<q, id>> \in samples
    <3> SUFFICES ASSUME NEW id \in ids PROVE <<q, id>> \in Requests /\ <<q, id>> \in samples
      OBVIOUS
    <3>1. <<q, id>> \in Requests
      BY <2>1 DEF Requests, MapOK, IsMap
    <3>2. Stamped(<<q, id>>)
      BY DEF Stamped
    <3> QED BY <2>3, <3>1, <3>2
  <2>5. \A r \in samples : r \in Requests /\ r = <<q, r[2]>> /\ r[2] \in ids
    <3>1. samples \subseteq Requests
      BY <2>1, <2>2
    <3> QED BY <2>3, <3>1 DEF Requests, Stamped
  <2>6. IsFiniteSet(samples)
    BY <2>2, FS_Subset DEF SampleInv
  <2>7. \A r \in samples : r \in used \/ (r \notin Posted /\ StampsOf(r) = NoStamps)
    BY <2>2 DEF Of, SampleInv
  <2>8. \A r \in used : r[1] = q /\ written[r] > 0
    BY <2>2 DEF Of
  <2> HIDE DEF used, samples, ids
  <2>9. IsFiniteSet(ids) /\ Cardinality(ids) = Cardinality(samples)
    <3> DEFINE f == [r \in samples |-> r[2]]
    <3>1. f \in Bijection(samples, ids)
      BY <2>4, <2>5 DEF Bijection, Injection, Surjection, IsInjective
    <3>2. ExistsBijection(samples, ids)
      BY <3>1 DEF ExistsBijection
    <3> QED BY <2>6, <3>2, FS_Bijection
  <2>10. CASE ids = {}
    <3>1. QpStats(mTimestamps, q) = [sample_count |-> 0, sum |-> 0, min |-> 0, max |-> 0]
      BY <2>10 DEF QpStats, ids
    <3>2. samples = {} /\ used = {} /\ Cardinality(samples) = 0
      BY <2>2, <2>5, <2>9, <2>10, FS_EmptySet
    <3> QED BY <3>1, <3>2 DEF used, samples
  <2>11. CASE ids # {}
    <3> DEFINE total(id) == Latency(mTimestamps[q][id]).total_latency
    <3>1. q \in DOMAIN mTimestamps /\ ids = DOMAIN mTimestamps[q]
      BY <2>11 DEF ids
    <3>2. ASSUME NEW id \in ids
          PROVE  /\ total(id) \in Nat /\ total(id) <= 4 * MaxRequests
                 /\ total(id) > 0 <=> <<q, id>> \in used
      <4> DEFINE r == <<q, id>>
                 ts == mTimestamps[q][id]
      <4>1. r \in Requests /\ r \in samples /\ StampsOf(r) = ts /\ Stamped(r)
        BY <2>3, <2>4 DEF StampsOf
      <4>2. ts \in Stamps
        BY <2>1, <3>1 DEF MapOK, IsMap
      <4>3. Latency(ts).total_latency = ts.poll_cq - ts.post_op
        BY DEF Latency
      <4>4. 4 * MaxRequests \in Nat
        BY ProfilerAssumption
      <4> HIDE DEF r, ts
      <4>5. CASE r \in used
        <5>1. RoundOf(r) /\ Through(r)
          BY <2>1, <2>8, <4>1, <4>5 DEF Through
        <5>2. /\ 0 < ts.post_op /\ ts.post_op < written[r]
              /\ ts.cqe_timestamp = written[r] /\ ts.cqe_timestamp < ts.poll_cq
          BY <4>1, <5>1 DEF RoundOf, Used, Completed, Reported, Polled
        <5>3. /\ ts.post_op \in Nat /\ ts.cqe_timestamp \in Nat
              /\ ts.poll_cq \in Nat /\ ts.poll_cq <= 4 * MaxRequests
          BY <4>2, ProfilerAssumption DEF Stamps, Times
        <5>4. /\ Latency(ts).total_latency \in Nat /\ Latency(ts).total_latency > 0
              /\ Latency(ts).total_latency <= 4 * MaxRequests
          BY <4>3, <4>4, <5>2, <5>3
        <5> QED BY <4>5, <5>4 DEF r, ts
      <4>6. CASE r \notin used
        <5>1. ts = NoStamps
          BY <2>7, <4>1, <4>6
        <5>2. Latency(ts).total_latency = 0
          BY <4>3, <5>1 DEF NoStamps
        <5> QED BY <4>4, <4>6, <5>2 DEF r, ts
      <4> QED BY <4>5, <4>6
    <3>3. 4 * MaxRequests \in Nat
      BY ProfilerAssumption
    <3>4. LET stats == QpStats(mTimestamps, q)
          IN  /\ stats.sample_count = Cardinality(DOMAIN mTimestamps[q])
              /\ stats.min * stats.sample_count <= stats.sum
              /\ stats.sum <= stats.max * stats.sample_count
              /\ stats.min > 0 <=> \A id \in DOMAIN mTimestamps[q] : total(id) > 0
              /\ stats.max > 0 <=> \E id \in DOMAIN mTimestamps[q] : total(id) > 0
      BY <2>9, <2>11, <3>1, <3>2, <3>3, StatsOfSamples
    <3> HIDE DEF total
    <3>5. used # {} => \E id \in ids : total(id) > 0
      <4> SUFFICES ASSUME NEW r \in used PROVE r[2] \in ids /\ total(r[2]) > 0
        OBVIOUS
      <4>1. r = <<q, r[2]>> /\ r[2] \in ids
        BY <2>2, <2>5 DEF samples
      <4> QED BY <3>2, <4>1
    <3>6. (\A id \in ids : total(id) > 0) <=> samples = used
      <4>1. (\A id \in ids : total(id) > 0) => samples \subseteq used
        BY <2>5, <3>2
      <4>2. samples = used => \A id \in ids : total(id) > 0
        BY <2>4, <3>2
      <4>3. used \subseteq samples
        BY <2>2
      <4> QED BY <4>1, <4>2, <4>3
    <3> QED BY <2>9, <3>1, <3>4, <3>5, <3>6 DEF used, samples
  <2> QED BY <2>10, <2>11
<1> QED BY <1>1, SamplesInductive, PTL
================================================================================
