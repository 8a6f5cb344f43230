---------------------------- MODULE MemoryProofs ---------------------------
(***************************************************************************)
(* Proofs about the memory of a user.  First MemoryFacts, for any number   *)
(* of versions, episodes, candidates and sessions: rows are overwritten by *)
(* whoever commits last, but a record whose status is not live has its end *)
(* of validity set, nothing clears it again, and a session about to        *)
(* supersede a version holds a higher number for its own.  Then the four   *)
(* components that MCMemoryRecords puts beside it, each under the prefix   *)
(* of its invariant: maintenance (Upk), working keys (Wrk), conversations  *)
(* (Tal) and what runs remember (Run); last, what follows for its          *)
(* specification.                                                          *)
(***************************************************************************)
EXTENDS MCMemoryRecords, WellFoundedInduction, TLAPS

Plans == [Records -> Status \cup {"KEEP"}]
Jobs == [op : Ops, cand : Candidates \cup {"none"},
         seen : {"NONE", "CANDIDATE", "ACTIVE", "REJECTED"},
         version : 0 .. MaxVersion + 1, value : Values \cup {Erased},
         to : Plans, episode : SUBSET Episodes]

Rows == [status : Status, ended : BOOLEAN, deleted : BOOLEAN, value : Values \cup {Erased}]
CandidateRows == [status : {"NONE", "CANDIDATE", "ACTIVE", "REJECTED"},
                  value : Values \cup {Erased}]

JobsType == job \in [Sessions -> Jobs]

(* A record that exists and is not live has ended.                         *)
EndedIsMarked ==
  \A r \in Records : rec[r].status \notin Live \cup {"NONE"} => rec[r].ended

Exists(r) == rec[r].status # "NONE"

(* What a session is about to write over a record, which stays stored.     *)
Written(op) == CASE op = "recall"   -> {"ACTIVE"}
                 [] op = "maintain" -> {"REDUCED_RANK"} \cup Retired
                 [] op = "max"      -> {"SUPERSEDED"}
                 [] op = "insert"   -> {"SUPERSEDED"}
                 [] OTHER           -> Status

JobInv(x) ==
  \A r \in Records : x.to[r] # "KEEP" =>
    /\ Exists(r) /\ x.to[r] \in Written(x.op)
    /\ x.op \in {"max", "insert"} => r \in Versions
    /\ x.op = "insert" => r < x.version

FactsInv ==
  /\ TypeOK /\ JobsType /\ EndedIsMarked /\ SupersededHasSuccessor
  /\ \A j \in Sessions : JobInv(job[j])

----------------------------------------------------------------------------
(* A set of versions that is not empty has a highest one: the numbers that *)
(* are left below the bound have a least one.                              *)
LEMMA HighestIsHighest ==
  ASSUME NEW S \in SUBSET Versions, S # {}
  PROVE  Highest(S) \in S /\ \A q \in S : q <= Highest(S)
<1> DEFINE T == {MaxVersion - q : q \in S}
           R == OpToRel(<, Nat)
<1>1. MaxVersion \in Nat BY FactsAssumption
<1>2. T \subseteq Nat BY <1>1 DEF Versions
<1>3. T # {} OBVIOUS
<1>4. IsWellFoundedOn(R, Nat) BY NatLessThanWellFounded
<1>5. PICK x \in T : \A y \in T : ~(<<y, x>> \in R)
  <2> HIDE DEF T, R
  <2> QED BY <1>2, <1>3, <1>4, WFMin
<1>6. \A y \in T : x <= y
  <2> SUFFICES ASSUME NEW y \in T PROVE x <= y OBVIOUS
  <2>1. x \in Nat /\ y \in Nat BY <1>2, <1>5
  <2>2. ~(<<y, x>> \in R) BY <1>5
  <2>3. ~(y < x) BY <2>1, <2>2 DEF OpToRel
  <2> QED BY <2>1, <2>3
<1>7. PICK m \in S : x = MaxVersion - m BY <1>5
<1>8. \A q \in S : q <= m
  <2> SUFFICES ASSUME NEW q \in S PROVE q <= m OBVIOUS
  <2>1. MaxVersion - q \in T OBVIOUS
  <2>2. MaxVersion - m <= MaxVersion - q BY <2>1, <1>6, <1>7
  <2> QED BY <1>1, <2>2 DEF Versions
<1> QED BY <1>7, <1>8 DEF Highest

----------------------------------------------------------------------------
LEMMA RowsTyped ==
  ASSUME TypeOK
  PROVE  cand \in [Candidates -> CandidateRows] /\ rec \in [Records -> Rows]
BY DEF TypeOK, Rows, CandidateRows

(* A row whose status, and perhaps the end of its validity, is written.    *)
LEMMA RowWritten ==
  ASSUME NEW x \in Rows, NEW s \in Status, NEW e \in BOOLEAN,
         NEW y, y = [x EXCEPT !.status = s, !.ended = e]
  PROVE  y \in Rows /\ y.status = s /\ y.ended = e
BY DEF Rows

LEMMA StatusWritten ==
  ASSUME NEW x \in Rows, NEW s \in Status
  PROVE  LET y == [x EXCEPT !.status = s]
         IN  y \in Rows /\ y.status = s /\ y.ended = x.ended
BY DEF Rows

(* Steps of a session that write no record.                                *)
LEMMA OnlyJob ==
  ASSUME FactsInv, NEW j \in Sessions, NEW x \in Jobs,
         job' = [job EXCEPT ![j] = x], rec' = rec, JobInv(x),
         cand' \in [Candidates -> CandidateRows]
  PROVE  FactsInv'
<1> USE DEF FactsInv
<1>1. JobsType' BY DEF JobsType
<1>2. TypeOK' BY <1>1 DEF TypeOK, Rows, CandidateRows, JobsType, Jobs, Plans
<1>3. EndedIsMarked' /\ SupersededHasSuccessor'
  BY DEF EndedIsMarked, SupersededHasSuccessor
<1>4. \A i \in Sessions : JobInv(job[i])'
  BY DEF JobInv, JobsType, Exists
<1> QED BY <1>1, <1>2, <1>3, <1>4

(* What a session does to the candidate it decides about keeps its type.   *)
LEMMA CandidateTyped ==
  ASSUME FactsInv, NEW j \in Sessions, NEW s \in {"REJECTED", "ACTIVE"}, CandidateTo(j, s)
  PROVE  cand' \in [Candidates -> CandidateRows]
BY DEF FactsInv, TypeOK, Rows, CandidateRows, CandidateTo

LEMMA NoJobTyped == NoJob \in Jobs /\ JobInv(NoJob)
BY FactsAssumption DEF NoJob, Keep, Jobs, Plans, Ops, JobInv

(* Records that exist keep existing.                                       *)
Stays == \A r \in Records : Exists(r) => Exists(r)'

LEMMA PlansStay ==
  ASSUME Stays, NEW x \in Jobs, JobInv(x)
  PROVE  JobInv(x)'
BY DEF Stays, JobInv, Exists

(* Steps of a session that write records and end it.                       *)
LEMMA EndsJob ==
  ASSUME FactsInv, NEW j \in Sessions, Done(j), Stays,
         rec' \in [Records -> Rows],
         cand' \in [Candidates -> CandidateRows],
         EndedIsMarked', SupersededHasSuccessor'
  PROVE  FactsInv'
<1> USE DEF FactsInv
<1>1. JobsType' BY NoJobTyped DEF JobsType, Done, Begin
<1>2. TypeOK' BY <1>1 DEF TypeOK, Rows, CandidateRows, JobsType, Jobs, Plans
<1>3. \A i \in Sessions : JobInv(job[i])'
  <2> SUFFICES ASSUME NEW i \in Sessions PROVE JobInv(job[i])' OBVIOUS
  <2>1. JobInv(job[i]) /\ job[i] \in Jobs BY DEF JobsType
  <2>2. CASE i = j
    <3>1. job'[i] = NoJob BY <2>2 DEF JobsType, Done, Begin
    <3> QED BY <3>1 DEF JobInv, NoJob, Keep
  <2>3. CASE i # j
    <3>1. job'[i] = job[i] BY <2>3 DEF JobsType, Done, Begin
    <3> QED BY <2>1, <3>1, PlansStay DEF JobInv
  <2> QED BY <2>2, <2>3
<1> QED BY <1>1, <1>2, <1>3

(* Steps beside the sessions that write records.                           *)
LEMMA BesideJobs ==
  ASSUME FactsInv, UNCHANGED <<cand, job>>, Stays,
         rec' \in [Records -> Rows],
         EndedIsMarked', SupersededHasSuccessor'
  PROVE  FactsInv'
<1> USE DEF FactsInv
<1>1. TypeOK' /\ JobsType' BY DEF TypeOK, Rows, CandidateRows, JobsType
<1>2. \A i \in Sessions : JobInv(job[i])'
  <2> SUFFICES ASSUME NEW i \in Sessions PROVE JobInv(job[i])' OBVIOUS
  <2>1. JobInv(job[i]) /\ job[i] \in Jobs /\ job'[i] = job[i] BY DEF JobsType
  <2> QED BY <2>1, PlansStay DEF JobInv
<1> QED BY <1>1, <1>2

----------------------------------------------------------------------------
LEMMA InitFacts == Init => FactsInv
<1> SUFFICES ASSUME Init PROVE FactsInv OBVIOUS
<1>1. JobsType BY NoJobTyped DEF Init, JobsType
<1>2. TypeOK BY <1>1
     DEF Init, TypeOK, Rows, CandidateRows, JobsType, Jobs, Plans, NoRecord, Status
<1>3. EndedIsMarked /\ SupersededHasSuccessor
  BY DEF Init, EndedIsMarked, SupersededHasSuccessor, NoRecord, Versions, Records
<1>4. \A j \in Sessions : JobInv(job[j]) BY DEF Init, JobInv, NoJob, Keep
<1> QED BY <1>1, <1>2, <1>3, <1>4 DEF FactsInv

LEMMA ProposeKeeps ==
  ASSUME FactsInv, NEW c \in Candidates, NEW v \in Values,
         NEW s \in {"CANDIDATE", "REJECTED"}, Propose(c, v, s)
  PROVE  FactsInv'
<1> USE DEF FactsInv, Propose
<1>1. TypeOK' /\ JobsType' BY DEF TypeOK, Rows, CandidateRows, JobsType
<1>2. EndedIsMarked' /\ SupersededHasSuccessor'
  BY DEF EndedIsMarked, SupersededHasSuccessor
<1>3. \A i \in Sessions : JobInv(job[i])' BY DEF JobInv, Exists
<1> QED BY <1>1, <1>2, <1>3

LEMMA ConfirmReadKeeps ==
  ASSUME FactsInv, NEW j \in Sessions, NEW c \in Candidates, ConfirmRead(j, c)
  PROVE  FactsInv'
<1> DEFINE old  == IF LiveVersions = {} THEN 0 ELSE Highest(LiveVersions)
           same == old # 0 /\ rec[old].value = cand[c].value
           plan == [r \in Records |-> IF r = old THEN "SUPERSEDED" ELSE "KEEP"]
           x == [NoJob EXCEPT
                   !.op = IF same THEN "duplicate" ELSE "max",
                   !.cand = c, !.seen = cand[c].status, !.value = cand[c].value,
                   !.to = plan]
<1>0. job' = [job EXCEPT ![j] = x] /\ UNCHANGED <<cand, rec>>
  BY DEF ConfirmRead, Begin
<1>1. old # 0 => old \in LiveVersions
  BY HighestIsHighest DEF LiveVersions
<1>2. plan \in Plans /\ \A r \in Records : plan[r] # "KEEP" =>
        plan[r] = "SUPERSEDED" /\ r = old
  BY DEF Plans, Status
<1> HIDE DEF plan, same
<1>3. /\ x.op \in {"duplicate", "max"} /\ x.to = plan
      /\ x = [op |-> x.op, cand |-> c, seen |-> cand[c].status, version |-> 0,
              value |-> cand[c].value, to |-> plan, episode |-> {}]
  <2> DEFINE op == IF same THEN "duplicate" ELSE "max"
  <2>1. x = [NoJob EXCEPT !.op = op, !.cand = c, !.seen = cand[c].status,
                          !.value = cand[c].value, !.to = plan]
    OBVIOUS
  <2>2. op \in {"duplicate", "max"} OBVIOUS
  <2> HIDE DEF op, x
  <2> QED BY <2>1, <2>2 DEF NoJob
<1>4. x \in Jobs
  <2>1. cand[c].status \in {"NONE", "CANDIDATE", "ACTIVE", "REJECTED"}
        /\ cand[c].value \in Values \cup {Erased}
    BY DEF FactsInv, TypeOK, Rows, CandidateRows
  <2> HIDE DEF x, plan
  <2> QED BY <2>1, <1>2, <1>3, FactsAssumption DEF Jobs, Ops
<1>5. JobInv(x)
  <2> SUFFICES ASSUME NEW r \in Records, x.to[r] # "KEEP"
               PROVE  /\ Exists(r) /\ x.to[r] \in Written(x.op)
                      /\ x.op \in {"max", "insert"} => r \in Versions
                      /\ x.op = "insert" => r < x.version
    BY DEF JobInv
  <2> HIDE DEF x, plan, old
  <2>1. x.to[r] = "SUPERSEDED" /\ r = old BY <1>2, <1>3
  <2>2. x.to[r] \in Written(x.op) BY <2>1, <1>3 DEF Written, Status
  <2>3. CASE old # 0
    BY <1>1, <1>3, <2>1, <2>2, <2>3 DEF LiveVersions, Live, Exists
  <2>4. CASE old = 0
    <3>1. 0 \in 0 .. MaxVersion /\ 0 \notin Versions BY FactsAssumption DEF Versions
    <3>2. 0 \notin Records BY <3>1, FactsAssumption DEF Records
    <3> QED BY <2>1, <2>4, <3>2
  <2> QED BY <2>3, <2>4
<1> HIDE DEF x, old
<1> QED BY <1>0, <1>4, <1>5, OnlyJob DEF FactsInv, TypeOK, Rows, CandidateRows

LEMMA ConfirmMaxKeeps ==
  ASSUME FactsInv, NEW j \in Sessions, ConfirmMax(j)
  PROVE  FactsInv'
<1> DEFINE used == {r \in Versions : rec[r].status # "NONE"}
           n == IF used = {} THEN 1 ELSE Highest(used) + 1
           x == [job[j] EXCEPT !.op = "insert", !.version = n]
<1>1. job[j] \in Jobs /\ JobInv(job[j]) BY DEF FactsInv, JobsType
<1>2. n \in 0 .. MaxVersion + 1 /\ \A r \in used : r < n
  <2>1. CASE used = {} BY <2>1, FactsAssumption
  <2>2. CASE used # {}
    <3>1. used \in SUBSET Versions OBVIOUS
    <3> HIDE DEF used
    <3>2. Highest(used) \in used /\ \A q \in used : q <= Highest(used)
      BY <2>2, <3>1, HighestIsHighest
    <3>3. n = Highest(used) + 1 BY <2>2
    <3> DEFINE h == Highest(used)
    <3>4. h \in 1 .. MaxVersion BY <3>1, <3>2 DEF Versions
    <3>5. \A q \in used : q \in 1 .. MaxVersion /\ q <= h BY <3>1, <3>2 DEF Versions
    <3> HIDE DEF n, h
    <3>6. n = h + 1 BY <3>3 DEF h
    <3> QED BY <3>4, <3>5, <3>6, FactsAssumption
  <2> QED BY <2>1, <2>2
<1>3. x \in Jobs BY <1>1, <1>2 DEF Jobs, Ops
<1>4. x.op = "insert" /\ x.version = n /\ x.to = job[j].to BY <1>1 DEF Jobs
<1>5. JobInv(x)
  BY <1>1, <1>2, <1>4 DEF ConfirmMax, JobInv, Written, Exists
<1> QED BY <1>3, <1>5, OnlyJob
     DEF ConfirmMax, Begin, FactsInv, TypeOK, Rows, CandidateRows

LEMMA ConfirmDuplicateKeeps ==
  ASSUME FactsInv, NEW j \in Sessions, ConfirmDuplicate(j)
  PROVE  FactsInv'
BY OnlyJob, NoJobTyped, CandidateTyped DEF ConfirmDuplicate, Done, Begin

LEMMA ConfirmCommitKeeps ==
  ASSUME FactsInv, NEW j \in Sessions, ConfirmCommit(j)
  PROVE  FactsInv'
<1> DEFINE new == job[j].version
<1> USE DEF ConfirmCommit
<1>1. job[j] \in Jobs /\ JobInv(job[j]) BY DEF FactsInv, JobsType
<1>2. rec' \in [Records -> Rows]
  <2> DEFINE born == [NoRecord EXCEPT !.status = "ACTIVE", !.value = job[j].value]
             over(r) == [rec[r] EXCEPT !.status = "SUPERSEDED", !.ended = TRUE]
  <2>1. "ACTIVE" \in Status /\ "SUPERSEDED" \in Status BY DEF Status, Live
  <2>2. born \in Rows BY <1>1, <2>1 DEF Jobs, Rows, NoRecord
  <2>3. \A r \in Records : rec[r] \in Rows BY RowsTyped DEF FactsInv
  <2>4. \A r \in Records : over(r) \in Rows BY <2>1, <2>3 DEF Rows
  <2> QED BY <2>2, <2>3, <2>4
<1>3. \A r \in Records :
        \/ r = new /\ rec'[r].status = "ACTIVE"
        \/ r # new /\ rec'[r] = rec[r]
        \/ r # new /\ r < new /\ r \in Versions /\ rec'[r].status = "SUPERSEDED" /\ rec'[r].ended
  <2> SUFFICES ASSUME NEW r \in Records, r # new, job[j].to[r] # "KEEP"
               PROVE  /\ r < new /\ r \in Versions
                      /\ rec'[r].status = "SUPERSEDED" /\ rec'[r].ended
    BY DEF NoRecord, FactsInv, TypeOK, Rows, CandidateRows
  <2> QED BY <1>1 DEF JobInv, FactsInv, TypeOK, Rows, CandidateRows
<1>4. Stays BY <1>3 DEF Stays, Exists
<1>5. EndedIsMarked' BY <1>3 DEF EndedIsMarked, FactsInv, Live
<1>6. SupersededHasSuccessor'
  <2> SUFFICES ASSUME NEW r \in Versions, rec'[r].status = "SUPERSEDED"
               PROVE  \E q \in Versions : q > r /\ rec'[q].status # "NONE"
    BY DEF SupersededHasSuccessor
  <2>1. r \in Records /\ Versions \subseteq Records BY DEF Records
  <2>2. CASE rec[r].status = "SUPERSEDED"
    BY <2>1, <2>2, <1>4 DEF FactsInv, SupersededHasSuccessor, Stays, Exists
  <2>3. CASE rec[r].status # "SUPERSEDED"
    <3>1. r < new BY <1>3, <2>1, <2>3
    <3>2. new \in Versions /\ rec'[new].status # "NONE" BY <1>3, <2>1
    <3> QED BY <3>1, <3>2 DEF Versions
  <2> QED BY <2>2, <2>3
<1> QED BY <1>2, <1>4, <1>5, <1>6, EndsJob, CandidateTyped

LEMMA RejectReadKeeps ==
  ASSUME FactsInv, NEW j \in Sessions, NEW c \in Candidates, RejectRead(j, c)
  PROVE  FactsInv'
<1> DEFINE x == [NoJob EXCEPT !.op = "reject", !.cand = c, !.seen = cand[c].status]
<1>1. cand[c].status \in {"NONE", "CANDIDATE", "ACTIVE", "REJECTED"} BY
     DEF FactsInv, TypeOK, Rows, CandidateRows
<1>2. x \in Jobs BY <1>1, NoJobTyped DEF Jobs, Ops
<1>3. JobInv(x) BY DEF JobInv, NoJob, Keep
<1> QED BY <1>2, <1>3, OnlyJob
     DEF RejectRead, Begin, FactsInv, TypeOK, Rows, CandidateRows

LEMMA RejectCommitKeeps ==
  ASSUME FactsInv, NEW j \in Sessions, RejectCommit(j)
  PROVE  FactsInv'
BY OnlyJob, NoJobTyped, CandidateTyped DEF RejectCommit, Done, Begin

LEMMA RecallReadKeeps ==
  ASSUME FactsInv, NEW j \in Sessions, NEW S \in SUBSET Records, RecallRead(j, S)
  PROVE  FactsInv'
<1> DEFINE plan == [r \in Records |-> IF r \in S THEN "ACTIVE" ELSE "KEEP"]
           x == [NoJob EXCEPT !.op = "recall", !.to = plan]
<1>1. plan \in Plans BY DEF Plans, Status, Live
<1>2. x \in Jobs /\ x.to = plan /\ x.op = "recall"
  <2> HIDE DEF plan
  <2> QED BY <1>1, NoJobTyped DEF Jobs, Ops
<1>3. JobInv(x) BY <1>2 DEF JobInv, Written, RecallRead, Exists
<1> HIDE DEF plan
<1>4. job' = [job EXCEPT ![j] = x] BY DEF RecallRead, Begin, plan
<1> QED BY <1>2, <1>3, <1>4, OnlyJob
     DEF RecallRead, FactsInv, TypeOK, Rows, CandidateRows

LEMMA RecallCommitKeeps ==
  ASSUME FactsInv, NEW j \in Sessions, RecallCommit(j)
  PROVE  FactsInv'
<1> USE DEF RecallCommit
<1>1. job[j] \in Jobs /\ JobInv(job[j]) BY DEF FactsInv, JobsType
<1>2. \A r \in Records :
        /\ rec'[r] \in Rows
        /\ \/ rec'[r] = rec[r]
           \/ Exists(r) /\ rec'[r].status = "ACTIVE"
  <2> SUFFICES ASSUME NEW r \in Records, job[j].to[r] # "KEEP"
               PROVE  rec'[r] \in Rows /\ Exists(r) /\ rec'[r].status = "ACTIVE"
    BY RowsTyped DEF FactsInv
  <2>1. Exists(r) /\ job[j].to[r] = "ACTIVE" BY <1>1 DEF JobInv, Written
  <2>2. rec'[r] = [rec[r] EXCEPT !.status = "ACTIVE"] BY <2>1
  <2>3. rec[r] \in Rows /\ "ACTIVE" \in Status BY RowsTyped DEF FactsInv, Status, Live
  <2> QED BY <2>1, <2>2, <2>3, StatusWritten
<1>3. rec' \in [Records -> Rows] BY <1>2
<1>4. Stays /\ EndedIsMarked' BY <1>2 DEF Stays, Exists, EndedIsMarked, FactsInv, Live
<1>5. SupersededHasSuccessor'
  BY <1>2, <1>4 DEF SupersededHasSuccessor, Stays, Exists, FactsInv, Records
<1> QED BY <1>3, <1>4, <1>5, EndsJob, RowsTyped DEF FactsInv

LEMMA RecordEpisodeKeeps ==
  ASSUME FactsInv, NEW e \in Episodes, NEW v \in Values, RecordEpisode(e, v)
  PROVE  FactsInv'
<1> USE DEF RecordEpisode
<1>1. \A r \in Records : rec'[r] = rec[r] \/ (r = e /\ rec'[r].status = "ACTIVE")
  BY DEF FactsInv, TypeOK, Rows, CandidateRows, NoRecord
<1>2. rec' \in [Records -> Rows]
  BY DEF FactsInv, TypeOK, Rows, CandidateRows, NoRecord, Status, Live
<1>3. Stays /\ EndedIsMarked' BY <1>1 DEF Stays, Exists, EndedIsMarked, FactsInv, Live
<1>4. SupersededHasSuccessor'
  BY <1>1, <1>3 DEF SupersededHasSuccessor, Stays, Exists, FactsInv, Records
<1> QED BY <1>2, <1>3, <1>4, BesideJobs

LEMMA FeedbackReadKeeps ==
  ASSUME FactsInv, NEW j \in Sessions, NEW e \in Episodes, FeedbackRead(j, e)
  PROVE  FactsInv'
<1> DEFINE x == [NoJob EXCEPT !.op = "feedback", !.value = rec[e].value, !.episode = {e}]
<1>1. rec[e].value \in Values \cup {Erased} BY
     DEF FactsInv, TypeOK, Rows, CandidateRows, Records
<1>2. x \in Jobs BY <1>1, NoJobTyped DEF Jobs, Ops
<1>3. JobInv(x) BY DEF JobInv, NoJob, Keep
<1> QED BY <1>2, <1>3, OnlyJob
     DEF FeedbackRead, Begin, FactsInv, TypeOK, Rows, CandidateRows

LEMMA FeedbackCommitKeeps ==
  ASSUME FactsInv, NEW j \in Sessions, FeedbackCommit(j)
  PROVE  FactsInv'
<1> USE DEF FeedbackCommit
<1>1. job[j].value \in Values \cup {Erased} BY DEF FactsInv, JobsType, Jobs
<1>2. rec' \in [Records -> Rows]
  BY <1>1 DEF FactsInv, TypeOK, Rows, CandidateRows
<1>3. \A r \in Records : rec'[r].status = rec[r].status /\ rec'[r].ended = rec[r].ended
  BY DEF FactsInv, TypeOK, Rows, CandidateRows
<1>4. Stays /\ EndedIsMarked' BY <1>3 DEF Stays, Exists, EndedIsMarked, FactsInv
<1>5. SupersededHasSuccessor' BY <1>3 DEF SupersededHasSuccessor, FactsInv, Records
<1> QED BY <1>2, <1>4, <1>5, EndsJob DEF FactsInv, TypeOK, Rows, CandidateRows

LEMMA ForgetKeeps ==
  ASSUME FactsInv, NEW r \in Records, Forget(r)
  PROVE  FactsInv'
<1> USE DEF Forget
<1>1. \A q \in Records : q # r => rec'[q] = rec[q] BY
     DEF FactsInv, TypeOK, Rows, CandidateRows
<1>2. rec'[r].status = "DELETED" /\ rec'[r].ended BY
     DEF FactsInv, TypeOK, Rows, CandidateRows
<1>3. rec' \in [Records -> Rows]
  BY DEF FactsInv, TypeOK, Rows, CandidateRows, Status
<1>4. Stays /\ EndedIsMarked' BY <1>1, <1>2 DEF Stays, Exists, EndedIsMarked, FactsInv
<1>5. SupersededHasSuccessor'
  BY <1>1, <1>2, <1>4 DEF SupersededHasSuccessor, Stays, Exists, FactsInv, Records
<1> QED BY <1>3, <1>4, <1>5, BesideJobs

LEMMA MaintainReadKeeps ==
  ASSUME FactsInv, NEW j \in Sessions,
         NEW age \in [Stored -> {"held", "30d", "90d", "expired"}], MaintainRead(j, age)
  PROVE  FactsInv'
<1> DEFINE plan == [r \in Records |-> IF r \in DOMAIN age THEN Aged(r, age[r]) ELSE "KEEP"]
           x == [NoJob EXCEPT !.op = "maintain", !.to = plan]
<1>1. \A r \in Stored : Aged(r, age[r]) \in {"KEEP", "REDUCED_RANK"} \cup Retired
  <2> SUFFICES ASSUME NEW r \in Stored
               PROVE  Aged(r, age[r]) \in {"KEEP", "REDUCED_RANK"} \cup Retired
    OBVIOUS
  <2>1. age[r] \in {"held", "30d", "90d", "expired"} OBVIOUS
  <2> QED BY <2>1 DEF Aged, Retired
<1>2. \A r \in Records : plan[r] # "KEEP" =>
        r \in Stored /\ plan[r] \in {"REDUCED_RANK"} \cup Retired
  BY <1>1
<1>3. plan \in Plans BY <1>2 DEF Plans, Status, Live
<1>4. job' = [job EXCEPT ![j] = x] /\ UNCHANGED <<cand, rec>> BY DEF MaintainRead, Begin
<1> HIDE DEF plan
<1>5. x \in Jobs /\ x.to = plan /\ x.op = "maintain" BY <1>3, NoJobTyped DEF Jobs, Ops
<1>6. JobInv(x) BY <1>2, <1>5 DEF JobInv, Written, Stored, Exists
<1> QED BY <1>4, <1>5, <1>6, OnlyJob DEF FactsInv, TypeOK, Rows, CandidateRows

LEMMA MaintainCommitKeeps ==
  ASSUME FactsInv, NEW j \in Sessions, MaintainCommit(j)
  PROVE  FactsInv'
<1> DEFINE to == job[j].to
<1> USE DEF MaintainCommit
<1>1. job[j] \in Jobs /\ JobInv(job[j]) BY DEF FactsInv, JobsType
<1>2. \A r \in Records :
        /\ rec'[r] \in Rows
        /\ Exists(r) => Exists(r)'
        /\ rec'[r].status \notin Live \cup {"NONE"} => rec'[r].ended
        /\ rec'[r].status = "SUPERSEDED" => rec[r].status = "SUPERSEDED"
  <2> SUFFICES ASSUME NEW r \in Records, to[r] # "KEEP"
               PROVE  /\ rec'[r] \in Rows
                      /\ rec'[r].status \notin {"NONE", "SUPERSEDED"}
                      /\ rec'[r].status \notin Live => rec'[r].ended
    BY RowsTyped DEF FactsInv, EndedIsMarked, Exists
  <2>1. to[r] \in {"REDUCED_RANK"} \cup Retired BY <1>1 DEF JobInv, Written
  <2>2. rec[r] \in Rows BY RowsTyped DEF FactsInv
  <2>3. to[r] \in Status BY <2>1 DEF Status, Live, Retired
  <2>4. rec'[r] = [rec[r] EXCEPT !.status = to[r], !.ended = @ \/ to[r] \in Retired]
    OBVIOUS
  <2> HIDE DEF to
  <2>5. CASE to[r] \in Retired
    <3>1. rec'[r] = [rec[r] EXCEPT !.status = to[r], !.ended = TRUE] BY <2>4, <2>5
    <3>2. rec'[r] \in Rows /\ rec'[r].status = to[r] /\ rec'[r].ended = TRUE
      BY <2>2, <2>3, <3>1, RowWritten
    <3> QED BY <2>1, <3>2 DEF Retired
  <2>6. CASE to[r] \notin Retired
    <3>1. rec'[r] = [rec[r] EXCEPT !.status = to[r], !.ended = @]
      BY <2>2, <2>4, <2>6 DEF Rows
    <3>2. rec'[r] \in Rows /\ rec'[r].status = to[r] BY <2>2, <2>3, <3>1 DEF Rows
    <3> QED BY <2>1, <2>6, <3>2 DEF Live
  <2> QED BY <2>5, <2>6
<1>3. rec' \in [Records -> Rows] BY <1>2
<1>4. Stays /\ EndedIsMarked' BY <1>2 DEF Stays, EndedIsMarked
<1>5. SupersededHasSuccessor'
  BY <1>2, <1>4 DEF SupersededHasSuccessor, Stays, Exists, FactsInv, Records
<1> QED BY <1>3, <1>4, <1>5, EndsJob, RowsTyped DEF FactsInv

LEMMA AbandonKeeps ==
  ASSUME FactsInv, NEW j \in Sessions, Abandon(j)
  PROVE  FactsInv'
BY OnlyJob, NoJobTyped DEF Abandon, Done, Begin, FactsInv, TypeOK, Rows, CandidateRows

----------------------------------------------------------------------------
LEMMA StepKeeps == FactsInv /\ [Next]_vars => FactsInv'
<1> SUFFICES ASSUME FactsInv, [Next]_vars PROVE FactsInv' OBVIOUS
<1>1. CASE UNCHANGED vars
  BY <1>1
    DEF vars, FactsInv, TypeOK, Rows, CandidateRows, JobsType, EndedIsMarked,
        SupersededHasSuccessor,
              JobInv, Exists
<1>2. ASSUME NEW j \in Sessions, Fact(j) PROVE FactsInv'
  BY <1>2, ConfirmReadKeeps, RejectReadKeeps, ConfirmMaxKeeps, ConfirmDuplicateKeeps,
     ConfirmCommitKeeps, RejectCommitKeeps, RecallReadKeeps, RecallCommitKeeps,
     FeedbackReadKeeps, FeedbackCommitKeeps DEF Fact
<1>3. ASSUME NEW j \in Sessions, Maintain(j) PROVE FactsInv'
  BY <1>3, MaintainReadKeeps, MaintainCommitKeeps DEF Maintain
<1> QED
  BY <1>1, <1>2, <1>3, ProposeKeeps, RecordEpisodeKeeps, ForgetKeeps, AbandonKeeps
    DEF Next

(* For any number of versions, episodes, candidates and sessions: the rows *)
(* keep their type, and whatever confirmations race, a superseded value    *)
(* has a newer one (SemanticMemoryService.confirm).                        *)
THEOREM FactsAreSafe == Spec => []FactsSafe
<1>1. Init => FactsInv BY InitFacts
<1>2. FactsInv /\ [Next]_vars => FactsInv' BY StepKeeps
<1>3. FactsInv => FactsSafe BY DEF FactsInv, FactsSafe
<1> QED BY <1>1, <1>2, <1>3, PTL DEF Spec

----------------------------------------------------------------------------
(* What keeps a record from being recalled is kept by every step: the end  *)
(* of its validity and its deletion.                                       *)
Marked(r) == rec[r].ended \/ rec[r].deleted

LEMMA EndedIsKept ==
  ASSUME FactsInv, [Next]_vars, NEW r \in Records, Exists(r), Marked(r)
  PROVE  Marked(r)'
<1> USE DEF FactsInv, TypeOK, Marked
<1>1. CASE UNCHANGED rec BY <1>1
<1>2. ASSUME NEW j \in Sessions, ConfirmCommit(j) PROVE Marked(r)'
  BY <1>2 DEF ConfirmCommit, Exists
<1>3. ASSUME NEW j \in Sessions, RecallCommit(j) PROVE Marked(r)'
  BY <1>3 DEF RecallCommit
<1>4. ASSUME NEW j \in Sessions, FeedbackCommit(j) PROVE Marked(r)'
  BY <1>4 DEF FeedbackCommit
<1>5. ASSUME NEW j \in Sessions, MaintainCommit(j) PROVE Marked(r)'
  <2>1. CASE job[j].to[r] = "KEEP" BY <1>5, <2>1 DEF MaintainCommit
  <2>2. CASE job[j].to[r] # "KEEP"
    <3>1. rec'[r] = [rec[r] EXCEPT !.status = job[j].to[r],
                                   !.ended = @ \/ job[j].to[r] \in Retired]
      BY <1>5, <2>2 DEF MaintainCommit
    <3>2. rec'[r].deleted = rec[r].deleted BY <3>1
    <3>3. rec'[r].ended = (rec[r].ended \/ job[j].to[r] \in Retired) BY <3>1
    <3> QED BY <3>2, <3>3
  <2> QED BY <2>1, <2>2
<1>6. ASSUME NEW e \in Episodes, NEW v \in Values, RecordEpisode(e, v) PROVE Marked(r)'
  BY <1>6 DEF RecordEpisode, Exists
<1>7. ASSUME NEW q \in Records, Forget(q) PROVE Marked(r)'
  BY <1>7 DEF Forget
<1>8. ASSUME NEW j \in Sessions, Fact(j) PROVE Marked(r)'
  BY <1>1, <1>2, <1>3, <1>4, <1>8
 
    DEF Fact, ConfirmRead, RejectRead, ConfirmMax, ConfirmDuplicate, RejectCommit,
        RecallRead,
      FeedbackRead
<1>9. ASSUME NEW j \in Sessions, Maintain(j) PROVE Marked(r)'
  BY <1>1, <1>5, <1>9 DEF Maintain, MaintainRead
<1> QED BY <1>1, <1>6, <1>7, <1>8, <1>9 DEF Next, vars, Propose, Abandon

(* No step of any number of sessions lets a record be recalled again that  *)
(* was superseded, expired, went cold or was forgotten, although statuses  *)
(* are overwritten by whoever commits last (retrieval.py, valid_to).       *)
THEOREM EndedIsForGood == Spec => EndedStaysEnded
<1> DEFINE Stay == \A r \in Records : Exists(r) /\ ~Recallable(r) => ~Recallable(r)'
<1>1. Init => FactsInv BY InitFacts
<1>2. FactsInv /\ [Next]_vars => FactsInv' BY StepKeeps
<1>3. FactsInv /\ [Next]_vars => Stay
  <2> SUFFICES ASSUME FactsInv, [Next]_vars, NEW r \in Records, Exists(r), ~Recallable(r)
               PROVE  ~Recallable(r)'
    OBVIOUS
  <2>1. Marked(r) BY DEF FactsInv, EndedIsMarked, Recallable, Exists, Marked
  <2>2. Marked(r)' BY <2>1, EndedIsKept
  <2> QED BY <2>2 DEF Marked, Recallable
<1> QED
  <2>1. Spec => [][Stay]_vars BY <1>1, <1>2, <1>3, PTL DEF Spec
  <2> QED BY <2>1 DEF EndedStaysEnded, Exists

----------------------------------------------------------------------------
(* Maintenance: a record never becomes live again and a copy never comes   *)
(* back, so it is enough that what a worker has ended, or holds an event   *)
(* for, is not live.                                                       *)

UpkJob(x) ==
  /\ x.op # "idle" => x.task \in Tasks
  /\ x.op \in {"dispatch", "settle"} => \A r \in x.ends : mRec[r] # "LIVE"
  /\ \A r \in Kept : Upkeep!Exists(x.after[r]) => mRec[r] # "LIVE"

UpkEvents == \A t \in Tasks, r \in Kept : Upkeep!Exists(mEvent[t][r]) => mRec[r] # "LIVE"

UpkInv == Upkeep!MaintainSafe /\ UpkEvents /\ \A w \in Workers : UpkJob(mJob[w])

UpkTasks == [status : Upkeep!TaskStatus, attempts : 0 .. MaxAttempts, locked : BOOLEAN]
UpkJobs ==
  [op : {"idle", "claimed", "maintain", "dispatch", "settle"}, task : Tasks \cup {"none"},
   ends : SUBSET Kept, after : [Kept -> Upkeep!EventRow]]

UpkTypes ==
  /\ mRec \in [Kept -> {"LIVE", "RETIRED", "STALE", "DELETED"}]
  /\ mCopies \in SUBSET Kept
  /\ mTask \in [Tasks -> UpkTasks]
  /\ mEvent \in [Tasks -> [Kept -> Upkeep!EventRow]]
  /\ mJob \in [Workers -> UpkJobs]

LEMMA UpkTyped == Upkeep!TypeOK <=> UpkTypes
BY DEF Upkeep!TypeOK, UpkTypes, UpkTasks, UpkJobs

LEMMA UpkTypedNext == Upkeep!TypeOK' <=> UpkTypes'
BY DEF Upkeep!TypeOK, UpkTypes, UpkTasks, UpkJobs

LEMMA UpkNoEvent == Upkeep!NoEvent \in Upkeep!EventRow /\ ~Upkeep!Exists(Upkeep!NoEvent)
BY MemoryAssumption DEF Upkeep!NoEvent, Upkeep!EventRow, Upkeep!OutboxStatus, Upkeep!Exists

LEMMA UpkNoJob ==
  /\ Upkeep!NoJob \in UpkJobs /\ UpkJob(Upkeep!NoJob)
  /\ Upkeep!NoJob.op = "idle" /\ Upkeep!NoJob.after = Upkeep!NoEvents
  /\ Upkeep!NoEvents \in [Kept -> Upkeep!EventRow]
  /\ \A r \in Kept : ~Upkeep!Exists(Upkeep!NoEvents[r])
BY UpkNoEvent DEF Upkeep!NoJob, Upkeep!NoEvents, UpkJobs, UpkJob

(* One more attempt keeps the counter within its budget.                   *)
LEMMA UpkBump == \A n \in 0 .. MaxAttempts : Upkeep!Bump(n, MaxAttempts) \in 0 .. MaxAttempts
BY MemoryAssumption DEF Upkeep!Bump

(* What the flush writes of an event is a row.                             *)
LEMMA UpkWritten ==
  \A row \in Upkeep!EventRow, after \in Upkeep!EventRow :
    Upkeep!Written(row, after) \in Upkeep!EventRow
BY DEF Upkeep!Written, Upkeep!EventRow

(* What the coordinator and the except branch make of a task.              *)
LEMMA UpkStatusAfter ==
  ASSUME NEW events, NEW verified \in BOOLEAN
  PROVE  /\ Upkeep!StatusAfter(events, verified) \in Upkeep!TaskStatus
         /\ Upkeep!StatusAfter(events, verified) = "COMPLETED" => verified
BY DEF Upkeep!StatusAfter, Upkeep!TaskStatus

LEMMA UpkStatusAfterError ==
  ASSUME NEW n
  PROVE  /\ Upkeep!StatusAfterError(n, MaxAttempts) \in Upkeep!TaskStatus
         /\ Upkeep!StatusAfterError(n, MaxAttempts) # "COMPLETED"
BY DEF Upkeep!StatusAfterError, Upkeep!TaskStatus

LEMMA UpkFields ==
  ASSUME UpkInv
  PROVE  /\ UpkTypes /\ UpkEvents /\ Upkeep!LiveRecordsKeepCopies /\ Upkeep!CompletedReachedCopies
         /\ \A w \in Workers : mJob[w] \in UpkJobs /\ UpkJob(mJob[w])
         /\ \A t \in Tasks : mTask[t] \in UpkTasks /\ mEvent[t] \in [Kept -> Upkeep!EventRow]
BY UpkTyped DEF UpkInv, Upkeep!MaintainSafe, UpkTypes

LEMMA UpkInit == Upkeep!Init => UpkInv
<1> SUFFICES ASSUME Upkeep!Init PROVE UpkInv OBVIOUS
<1>1. \A t \in Tasks : mTask[t] = [status |-> "NONE", attempts |-> 0, locked |-> FALSE]
  BY DEF Upkeep!Init
<1>2. mTask \in [Tasks -> UpkTasks]
  BY MemoryAssumption DEF Upkeep!Init, UpkTasks, Upkeep!TaskStatus
<1>3. UpkTypes BY <1>2, UpkNoJob DEF Upkeep!Init, UpkTypes
<1>4. UpkEvents BY UpkNoJob DEF Upkeep!Init, UpkEvents
<1>5. Upkeep!LiveRecordsKeepCopies BY DEF Upkeep!Init, Upkeep!LiveRecordsKeepCopies
<1>6. Upkeep!CompletedReachedCopies BY <1>1 DEF Upkeep!CompletedReachedCopies
<1>7. \A w \in Workers : UpkJob(mJob[w]) BY UpkNoJob DEF Upkeep!Init
<1> QED BY <1>3, <1>4, <1>5, <1>6, <1>7, UpkTyped DEF UpkInv, Upkeep!MaintainSafe

LEMMA UpkKept == UpkInv /\ UNCHANGED Upkeep!vars => UpkInv'
BY DEF UpkInv, Upkeep!MaintainSafe, Upkeep!TypeOK, Upkeep!LiveRecordsKeepCopies,
       Upkeep!CompletedReachedCopies, Upkeep!vars, UpkJob, UpkEvents

(* A step may end records and drop copies, write one task and its events,  *)
(* and move one worker: the rest of the invariant stays.                   *)
LEMMA UpkGoes ==
  ASSUME UpkInv, UpkTypes',
         \A r \in Kept : mRec'[r] = "LIVE" => mRec[r] = "LIVE" /\ r \in mCopies',
         mCopies' \subseteq mCopies,
         \A t \in Tasks, r \in Kept :
           \/ mEvent'[t][r] = mEvent[t][r]
           \/ Upkeep!Exists(mEvent'[t][r]) => mRec'[r] # "LIVE",
         \A t \in Tasks : mTask'[t].status = "COMPLETED" =>
           \/ mTask[t].status = "COMPLETED" /\ mEvent'[t] = mEvent[t]
           \/ \A r \in Kept : Upkeep!Exists(mEvent'[t][r]) => r \notin mCopies',
         \A w \in Workers : mJob'[w] = mJob[w] \/ UpkJob(mJob[w])'
  PROVE  UpkInv'
<1>1. Upkeep!TypeOK' BY UpkTypedNext
<1>2. UpkEvents' BY UpkFields DEF UpkEvents
<1>3. Upkeep!LiveRecordsKeepCopies' BY DEF Upkeep!LiveRecordsKeepCopies
<1>4. Upkeep!CompletedReachedCopies'
  <2> SUFFICES ASSUME NEW t \in Tasks, NEW r \in Kept, mTask'[t].status = "COMPLETED",
                      Upkeep!Exists(mEvent'[t][r])
               PROVE  r \notin mCopies'
    BY DEF Upkeep!CompletedReachedCopies, Upkeep!Exists
  <2>1. CASE mTask[t].status = "COMPLETED" /\ mEvent'[t] = mEvent[t]
    BY <2>1, UpkFields DEF Upkeep!CompletedReachedCopies
  <2> QED BY <2>1
<1>5. \A w \in Workers : UpkJob(mJob[w])'
  <2> SUFFICES ASSUME NEW w \in Workers, mJob'[w] = mJob[w] PROVE UpkJob(mJob[w])' OBVIOUS
  <2>1. UpkJob(mJob[w]) /\ mJob[w] \in UpkJobs BY UpkFields
  <2> QED BY <2>1 DEF UpkJob, UpkJobs
<1> QED BY <1>1, <1>2, <1>3, <1>4, <1>5 DEF UpkInv, Upkeep!MaintainSafe

LEMMA UpkDone ==
  ASSUME UpkInv, NEW w \in Workers, Upkeep!Done(w)
  PROVE  /\ mJob' \in [Workers -> UpkJobs]
         /\ \A k \in Workers : mJob'[k] = mJob[k] \/ UpkJob(mJob[k])'
<1>1. mJob' = [mJob EXCEPT ![w] = Upkeep!NoJob] BY DEF Upkeep!Done
<1>2. mJob' \in [Workers -> UpkJobs] BY <1>1, UpkFields, UpkNoJob DEF UpkTypes
<1>3. mJob'[w] = Upkeep!NoJob BY <1>1, UpkFields DEF UpkTypes
<1>4. UpkJob(mJob[w])' BY <1>3, UpkNoJob DEF UpkJob
<1> QED BY <1>1, <1>2, <1>4, UpkFields DEF UpkTypes

LEMMA UpkEnqueue ==
  ASSUME UpkInv, NEW t \in Tasks, Upkeep!Enqueue(t)
  PROVE  UpkInv'
<1>1. /\ mTask' = [mTask EXCEPT ![t].status = "PENDING"]
      /\ UNCHANGED <<mRec, mCopies, mEvent, mJob>>
  BY DEF Upkeep!Enqueue
<1>2. mTask' \in [Tasks -> UpkTasks] /\ mTask'[t].status = "PENDING"
  BY <1>1, UpkFields DEF UpkTypes, UpkTasks, Upkeep!TaskStatus
<1>3. UpkTypes' BY <1>1, <1>2, UpkFields DEF UpkTypes
<1>4. \A k \in Tasks : k # t => mTask'[k] = mTask[k] BY <1>1, UpkFields DEF UpkTypes
<1>5. \A r \in Kept : mRec'[r] = "LIVE" => mRec[r] = "LIVE" /\ r \in mCopies'
  BY <1>1, UpkFields DEF Upkeep!LiveRecordsKeepCopies
<1> QED BY <1>1, <1>2, <1>3, <1>4, <1>5, UpkGoes

LEMMA UpkClaim ==
  ASSUME UpkInv, NEW w \in Workers, NEW t \in Tasks, Upkeep!Claim(w, t)
  PROVE  UpkInv'
<1>1. PICK x : x = [Upkeep!NoJob EXCEPT !.op = "claimed", !.task = t] OBVIOUS
<1>2. x \in UpkJobs /\ x.op = "claimed" /\ x.task = t /\ x.after = Upkeep!NoEvents
  BY <1>1, UpkNoJob DEF Upkeep!NoJob, UpkJobs
<1>3. PICK a : a = Upkeep!Bump(mTask[t].attempts, MaxAttempts) OBVIOUS
<1>4. /\ mTask' = [mTask EXCEPT ![t] = [status |-> "RUNNING", locked |-> TRUE, attempts |-> a]]
      /\ mJob' = [mJob EXCEPT ![w] = x] /\ UNCHANGED <<mRec, mCopies, mEvent>>
  BY <1>1, <1>3, UpkFields DEF Upkeep!Claim, UpkTypes
<1>5. a \in 0 .. MaxAttempts BY <1>3, UpkBump, UpkFields DEF UpkTasks
<1>6. mTask' \in [Tasks -> UpkTasks] /\ mTask'[t].status = "RUNNING"
  BY <1>4, <1>5, UpkFields DEF UpkTypes, UpkTasks, Upkeep!TaskStatus
<1>7. UpkTypes' BY <1>2, <1>4, <1>6, UpkFields DEF UpkTypes
<1>8. \A k \in Tasks : k # t => mTask'[k] = mTask[k] BY <1>4, UpkFields DEF UpkTypes
<1>9. \A r \in Kept : mRec'[r] = "LIVE" => mRec[r] = "LIVE" /\ r \in mCopies'
  BY <1>4, UpkFields DEF Upkeep!LiveRecordsKeepCopies
<1>10. mJob'[w] = x /\ \A k \in Workers : k # w => mJob'[k] = mJob[k]
  BY <1>4, UpkFields DEF UpkTypes
<1>11. UpkJob(mJob[w])' BY <1>2, <1>10, UpkNoJob DEF UpkJob
<1> QED BY <1>4, <1>6, <1>7, <1>8, <1>9, <1>10, <1>11, UpkGoes

LEMMA UpkMaintainRead ==
  ASSUME UpkInv, NEW w \in Workers, NEW ends \in SUBSET Kept, Upkeep!MaintainRead(w, ends)
  PROVE  UpkInv'
<1>1. PICK x : x = [mJob[w] EXCEPT !.op = "maintain", !.ends = ends] OBVIOUS
<1>2. x \in UpkJobs /\ x.op = "maintain" /\ x.task = mJob[w].task /\ x.after = mJob[w].after
  BY <1>1, UpkFields DEF UpkJobs
<1>3. /\ mJob' = [mJob EXCEPT ![w] = x] /\ UNCHANGED <<mRec, mCopies, mEvent, mTask>>
      /\ mJob[w].op = "claimed"
  BY <1>1, UpkFields DEF Upkeep!MaintainRead, UpkTypes
<1>4. UpkTypes' BY <1>2, <1>3, UpkFields DEF UpkTypes
<1>5. \A r \in Kept : mRec'[r] = "LIVE" => mRec[r] = "LIVE" /\ r \in mCopies'
  BY <1>3, UpkFields DEF Upkeep!LiveRecordsKeepCopies
<1>6. mJob'[w] = x /\ \A k \in Workers : k # w => mJob'[k] = mJob[k]
  BY <1>3, UpkFields DEF UpkTypes
<1>7. UpkJob(mJob[w])' BY <1>2, <1>3, <1>6, UpkFields DEF UpkJob
<1> QED BY <1>3, <1>4, <1>5, <1>6, <1>7, UpkGoes

LEMMA UpkMaintainCommit ==
  ASSUME UpkInv, NEW w \in Workers, Upkeep!MaintainCommit(w)
  PROVE  UpkInv'
<1>1. PICK x : x = [mJob[w] EXCEPT !.op = "dispatch"] OBVIOUS
<1>2. /\ x \in UpkJobs /\ x.op = "dispatch" /\ x.task = mJob[w].task
      /\ x.after = mJob[w].after /\ x.ends = mJob[w].ends
  BY <1>1, UpkFields DEF UpkJobs
<1>3. /\ mJob' = [mJob EXCEPT ![w] = x] /\ UNCHANGED <<mCopies, mEvent, mTask>>
      /\ mJob[w].op = "maintain"
      /\ mRec' = [r \in Kept |-> IF r \in x.ends /\ mRec[r] # "DELETED" THEN "RETIRED" ELSE mRec[r]]
  BY <1>1, <1>2 DEF Upkeep!MaintainCommit
<1>4. UpkTypes' BY <1>2, <1>3, UpkFields DEF UpkTypes
<1>5. \A r \in Kept : mRec'[r] = "LIVE" => mRec[r] = "LIVE" /\ r \in mCopies'
  BY <1>3, UpkFields DEF Upkeep!LiveRecordsKeepCopies
<1>6. mJob'[w] = x /\ \A k \in Workers : k # w => mJob'[k] = mJob[k]
  BY <1>3, UpkFields DEF UpkTypes
<1>7. UpkJob(mJob[w])'
  <2>1. \A r \in x.ends : mRec'[r] # "LIVE" BY <1>2, <1>3 DEF UpkJobs
  <2>2. \A r \in Kept : Upkeep!Exists(x.after[r]) => mRec'[r] # "LIVE"
    BY <1>2, <1>5, UpkFields DEF UpkJob
  <2> QED BY <1>2, <1>3, <1>6, <2>1, <2>2, UpkFields DEF UpkJob, Upkeep!Exists
<1> QED BY <1>3, <1>4, <1>5, <1>6, <1>7, UpkGoes

LEMMA UpkDispatch ==
  ASSUME UpkInv, NEW w \in Workers, NEW confirmed \in SUBSET Kept, Upkeep!Dispatch(w, confirmed)
  PROVE  UpkInv'
<1>1. PICK t : t = mJob[w].task OBVIOUS
<1>2. t \in Tasks /\ mJob[w].op = "dispatch" BY <1>1, UpkFields DEF Upkeep!Dispatch, UpkJob
<1>3. PICK tries : tries = Upkeep!Fresh(w) \cup {r \in Kept : Upkeep!Open(mEvent[t][r])} OBVIOUS
<1>4. \A r \in tries : r \in Kept /\ mRec[r] # "LIVE"
  <2>1. \A r \in Upkeep!Fresh(w) : r \in Kept /\ mRec[r] # "LIVE"
    BY <1>2, UpkFields DEF Upkeep!Fresh, UpkJob, UpkJobs
  <2>2. \A r \in Kept : Upkeep!Open(mEvent[t][r]) => Upkeep!Exists(mEvent[t][r])
    BY DEF Upkeep!Open, Upkeep!Exists
  <2> QED BY <1>2, <1>3, <2>1, <2>2, UpkFields DEF UpkEvents
<1>5. PICK after : after = [r \in Kept |-> IF r \in tries
         THEN Upkeep!EventAfter(mEvent[t][r].attempts, r \in confirmed, MaxAttempts)
         ELSE Upkeep!NoEvent]
  OBVIOUS
<1>6. after \in [Kept -> Upkeep!EventRow]
  <2>1. \A r \in Kept : mEvent[t][r] \in Upkeep!EventRow BY <1>2, UpkFields
  <2>2. \A r \in Kept : mEvent[t][r].attempts \in 0 .. MaxAttempts BY <2>1 DEF Upkeep!EventRow
  <2>3. \A r \in Kept : Upkeep!EventAfter(mEvent[t][r].attempts, r \in confirmed, MaxAttempts)
          \in Upkeep!EventRow
    BY <2>2, UpkBump DEF Upkeep!EventAfter, Upkeep!EventRow, Upkeep!OutboxStatus
  <2> QED BY <1>5, <2>3, UpkNoEvent
<1>7. \A r \in Kept : Upkeep!Exists(after[r]) => mRec[r] # "LIVE" BY <1>4, <1>5, UpkNoEvent
<1>8. PICK x : x = [mJob[w] EXCEPT !.op = "settle", !.after = after] OBVIOUS
<1>9. /\ x \in UpkJobs /\ x.op = "settle" /\ x.task = t /\ x.after = after
      /\ x.ends = mJob[w].ends
  BY <1>1, <1>6, <1>8, UpkFields DEF UpkJobs
<1>10. /\ confirmed \subseteq tries /\ mCopies' = mCopies \ confirmed
       /\ mJob' = [mJob EXCEPT ![w] = x] /\ UNCHANGED <<mRec, mTask, mEvent>>
  BY <1>1, <1>3, <1>5, <1>8 DEF Upkeep!Dispatch
<1>11. UpkTypes' BY <1>9, <1>10, UpkFields DEF UpkTypes
<1>12. \A r \in Kept : mRec'[r] = "LIVE" => mRec[r] = "LIVE" /\ r \in mCopies'
  BY <1>4, <1>10, UpkFields DEF Upkeep!LiveRecordsKeepCopies
<1>13. mJob'[w] = x /\ \A k \in Workers : k # w => mJob'[k] = mJob[k]
  BY <1>10, UpkFields DEF UpkTypes
<1>14. UpkJob(mJob[w])'
  <2>1. \A r \in x.ends : mRec'[r] # "LIVE" BY <1>2, <1>9, <1>10, UpkFields DEF UpkJob
  <2>2. \A r \in Kept : Upkeep!Exists(x.after[r]) => mRec'[r] # "LIVE" BY <1>7, <1>9, <1>10
  <2> QED BY <1>2, <1>9, <1>13, <2>1, <2>2 DEF UpkJob, Upkeep!Exists
<1> QED BY <1>10, <1>11, <1>12, <1>13, <1>14, UpkGoes

LEMMA UpkSettle ==
  ASSUME UpkInv, NEW w \in Workers, Upkeep!Settle(w)
  PROVE  UpkInv'
<1> DEFINE t        == mJob[w].task
           after    == [r \in Kept |-> IF Upkeep!Exists(mJob[w].after[r])
                                       THEN Upkeep!Written(mEvent[t][r], mJob[w].after[r])
                                       ELSE mEvent[t][r]]
           listed   == {r \in Kept : Upkeep!Exists(after[r])}
           verified == /\ \A r \in mJob[w].ends : mRec[r] \in {"RETIRED", "DELETED"}
                       /\ listed \cap mCopies = {}
           status   == Upkeep!StatusAfter({after[r] : r \in listed}, verified)
<1>1. /\ mEvent' = [mEvent EXCEPT ![t] = after]
      /\ mTask' = [mTask EXCEPT ![t].status = status, ![t].locked = FALSE]
      /\ Upkeep!Done(w) /\ UNCHANGED <<mRec, mCopies>>
  BY DEF Upkeep!Settle
<1>2. t \in Tasks BY UpkFields DEF Upkeep!Settle, UpkJob
<1>3. after \in [Kept -> Upkeep!EventRow]
  <2>1. \A r \in Kept : mEvent[t][r] \in Upkeep!EventRow /\ mJob[w].after[r] \in Upkeep!EventRow
    BY <1>2, UpkFields DEF UpkJobs
  <2> QED BY <2>1, UpkWritten
<1>4. \A r \in Kept : Upkeep!Exists(after[r]) => mRec[r] # "LIVE"
  BY <1>2, UpkFields DEF UpkJob, UpkEvents
<1>5. status \in Upkeep!TaskStatus /\ (status = "COMPLETED" => verified)
  <2>1. verified \in BOOLEAN OBVIOUS
  <2> HIDE DEF verified, listed
  <2> QED BY <2>1, UpkStatusAfter
<1>6. status = "COMPLETED" => \A r \in Kept : Upkeep!Exists(after[r]) => r \notin mCopies
  <2> HIDE DEF status, after
  <2> QED BY <1>5
<1> HIDE DEF t, after, listed, verified, status
<1>7. /\ mTask' \in [Tasks -> UpkTasks] /\ mTask'[t].status = status
      /\ \A k \in Tasks : k # t => mTask'[k] = mTask[k]
  BY <1>1, <1>2, <1>5, UpkFields DEF UpkTypes, UpkTasks
<1>8. /\ mEvent' \in [Tasks -> [Kept -> Upkeep!EventRow]] /\ mEvent'[t] = after
      /\ \A k \in Tasks : k # t => mEvent'[k] = mEvent[k]
  BY <1>1, <1>2, <1>3, UpkFields DEF UpkTypes
<1>9. UpkTypes' BY <1>1, <1>7, <1>8, UpkDone, UpkFields DEF UpkTypes
<1>10. \A r \in Kept : mRec'[r] = "LIVE" => mRec[r] = "LIVE" /\ r \in mCopies'
  BY <1>1, UpkFields DEF Upkeep!LiveRecordsKeepCopies
<1>11. \A k \in Tasks, r \in Kept :
         \/ mEvent'[k][r] = mEvent[k][r]
         \/ Upkeep!Exists(mEvent'[k][r]) => mRec'[r] # "LIVE"
  BY <1>1, <1>4, <1>8
<1>12. \A k \in Tasks : mTask'[k].status = "COMPLETED" =>
         \/ mTask[k].status = "COMPLETED" /\ mEvent'[k] = mEvent[k]
         \/ \A r \in Kept : Upkeep!Exists(mEvent'[k][r]) => r \notin mCopies'
  BY <1>1, <1>6, <1>7, <1>8
<1> QED BY <1>1, <1>9, <1>10, <1>11, <1>12, UpkDone, UpkGoes

LEMMA UpkWorkerError ==
  ASSUME UpkInv, NEW w \in Workers, Upkeep!WorkerError(w)
  PROVE  UpkInv'
<1>1. PICK t : t = mJob[w].task OBVIOUS
<1>2. t \in Tasks BY <1>1, UpkFields DEF Upkeep!WorkerError, UpkJob
<1>3. PICK status : status = Upkeep!StatusAfterError(mTask[t].attempts, MaxAttempts) OBVIOUS
<1>4. status \in Upkeep!TaskStatus /\ status # "COMPLETED" BY <1>3, UpkStatusAfterError
<1>5. /\ mTask' = [mTask EXCEPT ![t] = [@ EXCEPT !.status = status, !.locked = FALSE]]
      /\ Upkeep!Done(w) /\ UNCHANGED <<mRec, mCopies, mEvent>>
  BY <1>1, <1>3 DEF Upkeep!WorkerError
<1>6. /\ mTask' \in [Tasks -> UpkTasks] /\ mTask'[t].status = status
      /\ \A k \in Tasks : k # t => mTask'[k] = mTask[k]
  BY <1>2, <1>4, <1>5, UpkFields DEF UpkTypes, UpkTasks
<1>7. UpkTypes' BY <1>5, <1>6, UpkDone, UpkFields DEF UpkTypes
<1>8. \A r \in Kept : mRec'[r] = "LIVE" => mRec[r] = "LIVE" /\ r \in mCopies'
  BY <1>5, UpkFields DEF Upkeep!LiveRecordsKeepCopies
<1> QED BY <1>4, <1>5, <1>6, <1>7, <1>8, UpkDone, UpkGoes

LEMMA UpkCrash ==
  ASSUME UpkInv, NEW w \in Workers, Upkeep!Crash(w)
  PROVE  UpkInv'
<1>1. Upkeep!Done(w) /\ UNCHANGED <<mRec, mCopies, mTask, mEvent>> BY DEF Upkeep!Crash
<1>2. UpkTypes' BY <1>1, UpkDone, UpkFields DEF UpkTypes
<1>3. \A r \in Kept : mRec'[r] = "LIVE" => mRec[r] = "LIVE" /\ r \in mCopies'
  BY <1>1, UpkFields DEF Upkeep!LiveRecordsKeepCopies
<1> QED BY <1>1, <1>2, <1>3, UpkDone, UpkGoes

LEMMA UpkElsewhere ==
  ASSUME UpkInv, NEW r \in Kept, Upkeep!Forget(r) \/ Upkeep!StaleRecall(r)
  PROVE  UpkInv'
<1>1. PICK v \in {"DELETED", "STALE"} :
        mRec' = [mRec EXCEPT ![r] = v] /\ UNCHANGED <<mCopies, mTask, mEvent, mJob>>
  BY DEF Upkeep!Forget, Upkeep!StaleRecall
<1>2. UpkTypes' BY <1>1, UpkFields DEF UpkTypes
<1>3. \A q \in Kept : mRec'[q] = "LIVE" => mRec[q] = "LIVE" /\ q \in mCopies'
  BY <1>1, UpkFields DEF Upkeep!LiveRecordsKeepCopies, UpkTypes
<1> QED BY <1>1, <1>2, <1>3, UpkGoes

LEMMA UpkStep == UpkInv /\ [Upkeep!Next]_(Upkeep!vars) => UpkInv'
<1> SUFFICES ASSUME UpkInv, Upkeep!Next PROVE UpkInv' BY UpkKept
<1> QED
  BY UpkEnqueue, UpkClaim, UpkMaintainRead, UpkMaintainCommit, UpkDispatch, UpkSettle,
     UpkWorkerError, UpkCrash, UpkElsewhere DEF Upkeep!Next, Upkeep!Work

LEMMA UpkMoves == [MCNext]_allVars => [Upkeep!Next]_(Upkeep!vars)
BY DEF MCNext, allVars, UpkeepVars, WorkingVars, TalkVars, RunsVars, vars, Upkeep!vars

----------------------------------------------------------------------------
(* The working keys: a request about to set, register or unregister has a  *)
(* session.                                                                *)

WrkJob(x) == x.op \in {"save", "register", "unregister"} => x.session \in Kept

WrkInv == Working!WorkingSafe /\ \A j \in Sessions : WrkJob(wJob[j])

WrkJobs ==
  [op : {"idle", "save", "register", "close", "unregister", "purge"},
   session : Kept \cup {"none"}, state : Values \cup {"none"}, found : SUBSET Kept]

WrkTypes ==
  /\ wKey \in [Kept -> Values \cup {"none"}]
  /\ wRegistry \in SUBSET Kept /\ wOrphaned \in SUBSET Kept
  /\ wJob \in [Sessions -> WrkJobs]

LEMMA WrkTyped == Working!TypeOK <=> WrkTypes
BY DEF Working!TypeOK, Working!None, WrkTypes, WrkJobs

LEMMA WrkTypedNext == Working!TypeOK' <=> WrkTypes'
BY DEF Working!TypeOK, Working!None, WrkTypes, WrkJobs

LEMMA WrkNoJob == Working!NoJob \in WrkJobs /\ Working!NoJob.op = "idle"
BY DEF Working!NoJob, Working!None, WrkJobs

LEMMA WrkInit == Working!Init => WrkInv
<1> SUFFICES ASSUME Working!Init PROVE WrkInv OBVIOUS
<1>1. WrkTypes BY WrkNoJob DEF Working!Init, WrkTypes, Working!None
<1>2. Working!PurgeFindsKeys BY DEF Working!Init, Working!PurgeFindsKeys, Working!Held
<1>3. \A j \in Sessions : WrkJob(wJob[j]) BY WrkNoJob DEF Working!Init, WrkJob
<1> QED BY <1>1, <1>2, <1>3, WrkTyped DEF WrkInv, Working!WorkingSafe

LEMMA WrkKept == WrkInv /\ UNCHANGED Working!vars => WrkInv'
BY DEF WrkInv, Working!WorkingSafe, Working!TypeOK, Working!PurgeFindsKeys, Working!Held,
       Working!vars, WrkJob

(* A request goes on, and no key that others registered is hidden.         *)
LEMMA WrkGoes ==
  ASSUME WrkInv, NEW j \in Sessions, NEW x \in WrkJobs, WrkJob(x),
         \A k \in Sessions : wJob'[k] = IF k = j THEN x ELSE wJob[k],
         wJob' \in [Sessions -> WrkJobs],
         wKey' \in [Kept -> Values \cup {"none"}],
         wRegistry' \in SUBSET Kept, wOrphaned' \in SUBSET Kept,
         \A s \in Kept : wKey'[s] # "none" /\ s \notin wRegistry' =>
           \/ s \in wOrphaned'
           \/ x.op = "register" /\ x.session = s
           \/ /\ wKey[s] # "none" /\ s \notin wRegistry /\ s \notin wOrphaned
              /\ ~(wJob[j].op = "register" /\ wJob[j].session = s)
  PROVE  WrkInv'
<1>1. Working!TypeOK' BY WrkTypedNext DEF WrkTypes
<1>2. \A k \in Sessions : WrkJob(wJob[k])' BY DEF WrkInv, WrkJob
<1>3. Working!PurgeFindsKeys'
  <2> SUFFICES ASSUME NEW s \in Kept, wKey'[s] # "none", s \notin wRegistry', s \notin wOrphaned'
               PROVE  \E k \in Sessions : wJob'[k].op = "register" /\ wJob'[k].session = s
    BY DEF Working!PurgeFindsKeys, Working!Held, Working!None
  <2>1. CASE x.op = "register" /\ x.session = s BY <2>1
  <2>2. CASE /\ wKey[s] # "none" /\ s \notin wRegistry /\ s \notin wOrphaned
             /\ ~(wJob[j].op = "register" /\ wJob[j].session = s)
    <3>1. PICK k \in Sessions : wJob[k].op = "register" /\ wJob[k].session = s
      BY <2>2 DEF WrkInv, Working!WorkingSafe, Working!PurgeFindsKeys, Working!Held, Working!None
    <3>2. k # j BY <2>2, <3>1
    <3> QED BY <3>1, <3>2
  <2> QED BY <2>1, <2>2
<1> QED BY <1>1, <1>2, <1>3 DEF WrkInv, Working!WorkingSafe

LEMMA WrkFields ==
  ASSUME WrkInv, NEW j \in Sessions
  PROVE  /\ WrkTypes /\ wJob[j] \in WrkJobs /\ WrkJob(wJob[j])
         /\ wKey \in [Kept -> Values \cup {"none"}]
         /\ wRegistry \in SUBSET Kept /\ wOrphaned \in SUBSET Kept
         /\ wJob \in [Sessions -> WrkJobs]
BY WrkTyped DEF WrkInv, Working!WorkingSafe, WrkTypes

LEMMA WrkSaveGet ==
  ASSUME WrkInv, NEW j \in Sessions, NEW s \in Kept, NEW v \in Values, Working!SaveGet(j, s, v)
  PROVE  WrkInv'
<1>1. CASE wKey[s] = v
  <2>1. UNCHANGED Working!vars BY <1>1 DEF Working!SaveGet, Working!vars
  <2> QED BY <2>1, WrkKept
<1>2. CASE wKey[s] # v
  <2>1. PICK x : x = [Working!NoJob EXCEPT !.op = "save", !.session = s, !.state = v] OBVIOUS
  <2>2. x \in WrkJobs /\ x.op = "save" /\ x.session = s
    BY <2>1 DEF Working!NoJob, Working!None, WrkJobs
  <2>3. /\ wJob' = [wJob EXCEPT ![j] = x] /\ wJob[j].op = "idle"
        /\ UNCHANGED <<wKey, wRegistry, wOrphaned>>
    BY <1>2, <2>1 DEF Working!SaveGet
  <2> QED BY <2>2, <2>3, WrkFields, WrkGoes DEF WrkJob
<1> QED BY <1>1, <1>2

LEMMA WrkSaveSet ==
  ASSUME WrkInv, NEW j \in Sessions, Working!SaveSet(j)
  PROVE  WrkInv'
<1>1. PICK s : s = wJob[j].session OBVIOUS
<1>2. PICK x : x = [wJob[j] EXCEPT !.op = "register"] OBVIOUS
<1>3. s \in Kept /\ wJob[j].state \in Values \cup {"none"}
  BY <1>1, WrkFields DEF Working!SaveSet, WrkJob, WrkJobs
<1>4. x \in WrkJobs /\ x.op = "register" /\ x.session = s BY <1>1, <1>2, WrkFields DEF WrkJobs
<1>5. /\ wKey' = [wKey EXCEPT ![s] = wJob[j].state] /\ wOrphaned' = wOrphaned \ {s}
      /\ wJob' = [wJob EXCEPT ![j] = x] /\ wRegistry' = wRegistry /\ wJob[j].op = "save"
  BY <1>1, <1>2, WrkFields DEF Working!SaveSet
<1> QED BY <1>3, <1>4, <1>5, WrkFields, WrkGoes DEF WrkJob

LEMMA WrkSaveRegister ==
  ASSUME WrkInv, NEW j \in Sessions, Working!SaveRegister(j)
  PROVE  WrkInv'
<1>1. PICK s : s = wJob[j].session OBVIOUS
<1>2. s \in Kept BY <1>1, WrkFields DEF Working!SaveRegister, WrkJob
<1>3. /\ wRegistry' = wRegistry \cup {s} /\ wOrphaned' = wOrphaned \ {s} /\ wKey' = wKey
      /\ wJob' = [wJob EXCEPT ![j] = Working!NoJob]
  BY <1>1 DEF Working!SaveRegister, Working!Done
<1> QED BY <1>1, <1>2, <1>3, WrkNoJob, WrkFields, WrkGoes DEF WrkJob

LEMMA WrkCloseDelete ==
  ASSUME WrkInv, NEW j \in Sessions, NEW s \in Kept, Working!CloseDelete(j, s)
  PROVE  WrkInv'
<1>1. PICK x : x = [Working!NoJob EXCEPT !.op = "unregister", !.session = s] OBVIOUS
<1>2. x \in WrkJobs /\ x.op = "unregister" /\ x.session = s
  BY <1>1 DEF Working!NoJob, Working!None, WrkJobs
<1>3. /\ wKey' = [wKey EXCEPT ![s] = "none"] /\ wOrphaned' = wOrphaned \ {s}
      /\ wJob' = [wJob EXCEPT ![j] = x] /\ wRegistry' = wRegistry /\ wJob[j].op = "idle"
  BY <1>1 DEF Working!CloseDelete, Working!None
<1> QED BY <1>2, <1>3, WrkFields, WrkGoes DEF WrkJob

LEMMA WrkCloseUnregister ==
  ASSUME WrkInv, NEW j \in Sessions, Working!CloseUnregister(j)
  PROVE  WrkInv'
<1>1. PICK s : s = wJob[j].session OBVIOUS
<1>2. s \in Kept BY <1>1, WrkFields DEF Working!CloseUnregister, WrkJob
<1>3. /\ wRegistry' = wRegistry \ {s} /\ wKey' = wKey
      /\ wOrphaned' = IF wKey[s] # "none" THEN wOrphaned \cup {s} ELSE wOrphaned
      /\ wJob' = [wJob EXCEPT ![j] = Working!NoJob] /\ wJob[j].op = "unregister"
  BY <1>1 DEF Working!CloseUnregister, Working!Done, Working!None
<1> QED BY <1>2, <1>3, WrkNoJob, WrkFields, WrkGoes DEF WrkJob

LEMMA WrkPurgeMembers ==
  ASSUME WrkInv, NEW j \in Sessions, Working!PurgeMembers(j)
  PROVE  WrkInv'
<1>1. PICK x : x = [Working!NoJob EXCEPT !.op = "purge", !.found = wRegistry] OBVIOUS
<1>2. x \in WrkJobs /\ x.op = "purge"
  BY <1>1, WrkFields DEF Working!NoJob, Working!None, WrkJobs
<1>3. /\ wJob' = [wJob EXCEPT ![j] = x] /\ wJob[j].op = "idle"
      /\ UNCHANGED <<wKey, wRegistry, wOrphaned>>
  BY <1>1 DEF Working!PurgeMembers
<1> QED BY <1>2, <1>3, WrkFields, WrkGoes DEF WrkJob

LEMMA WrkPurgeDelete ==
  ASSUME WrkInv, NEW j \in Sessions, Working!PurgeDelete(j)
  PROVE  WrkInv'
<1>1. PICK found : found = wJob[j].found OBVIOUS
<1>2. /\ wKey' = [s \in Kept |-> IF s \in found THEN "none" ELSE wKey[s]]
      /\ wRegistry' = {}
      /\ wOrphaned' = (wOrphaned \cup (wRegistry \cap {s \in Kept : wKey[s] # "none"})) \ found
      /\ wJob' = [wJob EXCEPT ![j] = Working!NoJob] /\ wJob[j].op = "purge"
  BY <1>1 DEF Working!PurgeDelete, Working!Done, Working!None, Working!Held
<1>3. wKey' \in [Kept -> Values \cup {"none"}] /\ wOrphaned' \in SUBSET Kept BY <1>2, WrkFields
<1>4. \A s \in Kept : wKey'[s] # "none" => s \notin found /\ wKey[s] # "none" BY <1>2
<1> QED BY <1>2, <1>3, <1>4, WrkNoJob, WrkFields, WrkGoes DEF WrkJob

LEMMA WrkExpire ==
  ASSUME WrkInv, NEW s \in Kept, Working!Expire(s)
  PROVE  WrkInv'
<1>1. /\ wKey' = [wKey EXCEPT ![s] = "none"] /\ wOrphaned' = wOrphaned \ {s}
      /\ UNCHANGED <<wRegistry, wJob>>
  BY DEF Working!Expire, Working!None
<1>2. WrkTypes BY WrkTyped DEF WrkInv, Working!WorkingSafe
<1>3. Working!TypeOK' BY <1>1, <1>2, WrkTypedNext DEF WrkTypes
<1>4. Working!PurgeFindsKeys'
  BY <1>1, <1>2
     DEF WrkInv, Working!WorkingSafe, Working!PurgeFindsKeys, Working!Held, Working!None, WrkTypes
<1>5. \A j \in Sessions : WrkJob(wJob[j])' BY <1>1 DEF WrkInv, WrkJob
<1> QED BY <1>3, <1>4, <1>5 DEF WrkInv, Working!WorkingSafe

LEMMA WrkDegraded ==
  ASSUME WrkInv, NEW j \in Sessions, Working!Degraded(j)
  PROVE  WrkInv'
<1>1. /\ wOrphaned' = wOrphaned \cup
           {s \in Kept : wKey[s] # "none" /\ wJob[j].op = "register" /\ wJob[j].session = s}
      /\ wJob' = [wJob EXCEPT ![j] = Working!NoJob] /\ UNCHANGED <<wKey, wRegistry>>
  BY DEF Working!Degraded, Working!Done, Working!Held, Working!None
<1>2. wOrphaned' \in SUBSET Kept BY <1>1, WrkFields
<1> QED BY <1>1, <1>2, WrkNoJob, WrkFields, WrkGoes DEF WrkJob

LEMMA WrkStep == WrkInv /\ [Working!Next]_(Working!vars) => WrkInv'
<1> SUFFICES ASSUME WrkInv, Working!Next PROVE WrkInv' BY WrkKept
<1> QED
  BY WrkSaveGet, WrkSaveSet, WrkSaveRegister, WrkCloseDelete, WrkCloseUnregister,
     WrkPurgeMembers, WrkPurgeDelete, WrkExpire, WrkDegraded DEF Working!Next

LEMMA WrkMoves == [MCNext]_allVars => [Working!Next]_(Working!vars)
BY DEF MCNext, allVars, UpkeepVars, WorkingVars, TalkVars, RunsVars, vars, Working!vars

----------------------------------------------------------------------------
(* Conversations.  The two parts of a context are written alike.           *)

TalParts == {"metrics", "range"}
TalOf(row, p) == IF p = "metrics" THEN row.metrics ELSE row.range
TalPart(save, p) == IF p = "metrics" THEN save[2] ELSE save[3]

(* A part is empty, or some save that is not hidden had it.                *)
TalHeld(value, p, hidden) ==
  value = "none" \/ \E v \in cSaved \ hidden : TalPart(v, p) = value

(* A request that is bound belongs to the binding, one about to bind may   *)
(* still do so; one that has saved is at its end; and what a clear will    *)
(* leave, because its session loaded it empty, was saved after the load.   *)
TalLater(x) == x.op = "loaded" => \A p \in TalParts :
  TalOf(x.old, p) = "none" => TalHeld(TalOf(cState, p), p, cForgotten \cup x.seen)

TalJob(x) ==
  /\ x.op \in {"bound", "loaded", "running", "saved"} =>
       cBinding = [user |-> x.user, scenario |-> x.scenario]
  /\ x.op \notin {"idle", "end"} => x.user \in Users /\ x.scenario \in Scenarios
  /\ x.op = "bind" /\ cBinding = Talk!NoBinding => Talk!MayBind(x.user, x.scenario)
  /\ x.old # Talk!NoState => cState # Talk!NoState
  /\ TalLater(x)

TalSaved(j, x) ==
  \A v \in cSaved : v[1] = j => x.op \in {"saved", "end"}

TalInv ==
  /\ Talk!TypeOK /\ Talk!ContextStaysWithOwner /\ Talk!CalmOneContext
  /\ \A p \in TalParts : TalHeld(TalOf(cState, p), p, cForgotten)
  /\ \A j \in Sessions : TalJob(cJob[j]) /\ TalSaved(j, cJob[j])
  /\ \A j, k \in Sessions : cJob[j].seen \subseteq cJob[k].seen \/ cJob[k].seen \subseteq cJob[j].seen

TalRows == [status : {"active", "expired", "cleared"}, user : Users, scenario : Scenarios,
            metrics : Values \cup {"none"}, range : Ranges \cup {"none"}]
TalSaves == (Sessions \cup {"none"}) \X Values \X Ranges
TalJobs ==
  [op : {"idle", "bind", "bound", "loaded", "running", "saved", "end"},
   user : Users \cup {"none"}, scenario : Scenarios \cup {"none"},
   old : TalRows \cup {Talk!NoState}, seen : SUBSET TalSaves]

TalTypes ==
  /\ cBinding \in Talk!Owner \cup {Talk!NoBinding}
  /\ cState \in TalRows \cup {Talk!NoState}
  /\ cRun \in [Sessions -> {"none", "running", "succeeded", "refused"}]
  /\ cWork \in SUBSET Sessions
  /\ cSaved \in SUBSET TalSaves /\ cForgotten \in SUBSET cSaved
  /\ cCalm \in BOOLEAN
  /\ cJob \in [Sessions -> TalJobs]
  /\ \A j \in Sessions : cJob[j].seen \subseteq cSaved

LEMMA TalSavesAre ==
  TalSaves = Talk!Saves \cup {<<"none", m, d>> : m \in Values, d \in Ranges}
BY DEF TalSaves, Talk!Saves

LEMMA TalJobTyped ==
  ASSUME NEW S \in SUBSET TalSaves, NEW x
  PROVE  x \in TalJobs /\ x.seen \subseteq S
           <=> x \in [op : {"idle", "bind", "bound", "loaded", "running", "saved", "end"},
                      user : Users \cup {"none"}, scenario : Scenarios \cup {"none"},
                      old : Talk!State, seen : SUBSET S]
BY DEF TalJobs, Talk!State, TalRows, Talk!None

LEMMA TalTyped == Talk!TypeOK <=> TalTypes
<1>1. cSaved \in SUBSET TalSaves =>
        (cJob \in [Sessions -> [op : {"idle", "bind", "bound", "loaded", "running", "saved", "end"},
                      user : Users \cup {"none"}, scenario : Scenarios \cup {"none"},
                      old : Talk!State, seen : SUBSET cSaved]]
          <=> cJob \in [Sessions -> TalJobs] /\ \A j \in Sessions : cJob[j].seen \subseteq cSaved)
  BY TalJobTyped
<1>2. Talk!State = TalRows \cup {Talk!NoState} BY DEF Talk!State, TalRows, Talk!None
<1> QED BY <1>1, <1>2, TalSavesAre DEF Talk!TypeOK, Talk!None, TalTypes

LEMMA TalTypedNext == Talk!TypeOK' <=> TalTypes'
<1>1. cSaved' \in SUBSET TalSaves =>
        (cJob' \in [Sessions -> [op : {"idle", "bind", "bound", "loaded", "running", "saved", "end"},
                      user : Users \cup {"none"}, scenario : Scenarios \cup {"none"},
                      old : Talk!State, seen : SUBSET cSaved']]
          <=> cJob' \in [Sessions -> TalJobs] /\ \A j \in Sessions : cJob'[j].seen \subseteq cSaved')
  BY TalJobTyped
<1>2. Talk!State = TalRows \cup {Talk!NoState} BY DEF Talk!State, TalRows, Talk!None
<1> QED BY <1>1, <1>2, TalSavesAre DEF Talk!TypeOK, Talk!None, TalTypes

LEMMA TalFields ==
  ASSUME TalInv
  PROVE  /\ TalTypes /\ Talk!ContextStaysWithOwner /\ Talk!CalmOneContext
         /\ \A p \in TalParts : TalHeld(TalOf(cState, p), p, cForgotten)
         /\ \A j \in Sessions : cJob[j] \in TalJobs /\ TalJob(cJob[j]) /\ TalSaved(j, cJob[j])
         /\ \A j, k \in Sessions :
              cJob[j].seen \subseteq cJob[k].seen \/ cJob[k].seen \subseteq cJob[j].seen
BY TalTyped DEF TalInv, TalTypes

(* A row that exists has a status, and a binding a user.                   *)
LEMMA TalNone ==
  /\ \A row \in TalRows : row # Talk!NoState /\ row.status # "none"
  /\ Talk!NoState.status = "none" /\ Talk!NoState.metrics = "none" /\ Talk!NoState.range = "none"
  /\ \A u \in Users, s \in Scenarios :
       /\ [user |-> u, scenario |-> s] \in Talk!Owner
       /\ [user |-> u, scenario |-> s] # Talk!NoBinding
BY MemoryAssumption DEF TalRows, Talk!NoState, Talk!None, Talk!NoBinding, Talk!Owner

LEMMA TalNoJob ==
  /\ Talk!NoJob \in TalJobs /\ Talk!NoJob.op = "idle" /\ Talk!NoJob.old = Talk!NoState
  /\ Talk!NoJob.seen = {}
BY DEF Talk!NoJob, Talk!None, TalJobs

(* The request of an end: it holds nothing.                                *)
LEMMA TalEnded ==
  ASSUME NEW x, x = [Talk!NoJob EXCEPT !.op = "end"]
  PROVE  x \in TalJobs /\ x.op = "end" /\ x.old = Talk!NoState /\ x.seen = {}
BY TalNoJob DEF TalJobs

LEMMA TalInit == Talk!Init => TalInv
<1> SUFFICES ASSUME Talk!Init PROVE TalInv OBVIOUS
<1>1. \A j \in Sessions : cJob[j] = Talk!NoJob BY DEF Talk!Init
<1>2. cJob \in [Sessions -> TalJobs] BY TalNoJob DEF Talk!Init
<1>3. CASE cState = Talk!NoState /\ cSaved = {}
  <2>1. TalTypes BY <1>1, <1>2, <1>3, TalNoJob DEF Talk!Init, TalTypes, Talk!None
  <2>2. \A p \in TalParts : TalHeld(TalOf(cState, p), p, cForgotten)
    BY <1>3, TalNone DEF TalHeld, TalOf
  <2>3. Talk!ContextStaysWithOwner BY <1>3 DEF Talk!ContextStaysWithOwner
  <2>4. Talk!CalmOneContext BY <1>3, TalNone DEF Talk!CalmOneContext
  <2>5. \A j \in Sessions : TalJob(cJob[j]) /\ TalSaved(j, cJob[j])
    BY <1>1, <1>3, TalNoJob DEF TalJob, TalLater, TalSaved
  <2> QED BY <1>1, <2>1, <2>2, <2>3, <2>4, <2>5, TalTyped DEF TalInv
<1>4. ASSUME NEW u \in Users, NEW s \in Scenarios, NEW m \in Values, NEW d \in Ranges,
             cState = [status |-> "active", user |-> u, scenario |-> s, metrics |-> m, range |-> d],
             cSaved = {<<"none", m, d>>}
      PROVE  TalInv
  <2>1. cState \in TalRows BY <1>4 DEF TalRows
  <2>2. cSaved \in SUBSET TalSaves BY <1>4 DEF TalSaves
  <2>3. TalTypes BY <1>1, <1>2, <2>1, <2>2, TalNoJob DEF Talk!Init, TalTypes, Talk!None
  <2>4. \A p \in TalParts : TalHeld(TalOf(cState, p), p, cForgotten)
    BY <1>4 DEF Talk!Init, TalHeld, TalOf, TalPart
  <2>5. Talk!ContextStaysWithOwner BY DEF Talk!Init, Talk!ContextStaysWithOwner
  <2>6. Talk!CalmOneContext BY <1>4 DEF Talk!CalmOneContext
  <2>7. \A j \in Sessions : TalJob(cJob[j]) BY <1>1, TalNoJob DEF TalJob, TalLater
  <2>8. \A j \in Sessions : TalSaved(j, cJob[j]) BY <1>4, MemoryAssumption DEF TalSaved
  <2> QED BY <1>1, <2>3, <2>4, <2>5, <2>6, <2>7, <2>8, TalTyped DEF TalInv
<1> QED BY <1>3, <1>4 DEF Talk!Init, Talk!None

LEMMA TalKept == TalInv /\ UNCHANGED Talk!vars => TalInv'
BY DEF TalInv, Talk!TypeOK, Talk!ContextStaysWithOwner, Talk!CalmOneContext, Talk!vars,
       TalHeld, TalJob, TalLater, TalSaved, Talk!MayBind

(* The properties of the run follow.                                       *)
LEMMA TalSafe == TalInv => Talk!ConversationSafe
<1> SUFFICES ASSUME TalInv PROVE Talk!ConversationSafe OBVIOUS
<1>1. \A p \in TalParts : TalHeld(TalOf(cState, p), p, cForgotten) BY DEF TalInv
<1>2. cState.metrics # "none" => \E v \in cSaved \ cForgotten : v[2] = cState.metrics
  BY <1>1 DEF TalHeld, TalOf, TalPart, TalParts
<1>3. cState.range # "none" => \E v \in cSaved \ cForgotten : v[3] = cState.range
  BY <1>1 DEF TalHeld, TalOf, TalPart, TalParts
<1>4. Talk!ClearedIsForgotten BY <1>2, <1>3 DEF Talk!ClearedIsForgotten, Talk!None
<1> QED BY <1>4 DEF TalInv, Talk!ConversationSafe

(* A step that writes no context: the job of one request, its run and work.*)
LEMMA TalGoes ==
  ASSUME TalInv, NEW j \in Sessions, NEW x \in TalJobs,
         cJob' = [cJob EXCEPT ![j] = x],
         UNCHANGED <<cState, cSaved, cForgotten, cCalm>>,
         cRun' \in [Sessions -> {"none", "running", "succeeded", "refused"}],
         cWork' \in SUBSET Sessions,
         \/ cBinding' = cBinding
         \/ /\ cBinding = Talk!NoBinding /\ cBinding' \in Talk!Owner
            /\ cState # Talk!NoState =>
                 cState.user = cBinding'.user /\ cState.scenario = cBinding'.scenario,
         TalJob(x)', TalSaved(j, x)',
         x.seen = cJob[j].seen \/ x.seen = {} \/ x.seen = cSaved
  PROVE  TalInv'
<1>1. cJob'[j] = x /\ \A k \in Sessions \ {j} : cJob'[k] = cJob[k] BY TalFields DEF TalTypes
<1>2. x.seen \subseteq cSaved /\ \A k \in Sessions : cJob[k].seen \subseteq cSaved
  BY TalFields DEF TalTypes
<1>3. TalTypes' BY <1>1, <1>2, TalFields DEF TalTypes
<1>4. Talk!ContextStaysWithOwner' BY TalFields DEF Talk!ContextStaysWithOwner
<1>5. Talk!CalmOneContext' BY TalFields DEF Talk!CalmOneContext
<1>6. \A p \in TalParts : TalHeld(TalOf(cState, p), p, cForgotten)' BY TalFields DEF TalHeld, TalOf
<1>7. \A k \in Sessions : TalJob(cJob[k])' /\ TalSaved(k, cJob[k])'
  <2>1. TalJob(cJob[j])' /\ TalSaved(j, cJob[j])' BY <1>1 DEF TalJob, TalLater, TalSaved
  <2>2. ASSUME NEW k \in Sessions \ {j} PROVE TalJob(cJob[k])' /\ TalSaved(k, cJob[k])'
    <3>1. TalJob(cJob[k]) /\ TalSaved(k, cJob[k]) /\ cJob'[k] = cJob[k] BY <1>1, TalFields
    <3>2. cJob[k].op \in {"bound", "loaded", "running", "saved"} => cBinding # Talk!NoBinding
      BY <3>1, TalNone DEF TalJob, TalLater
    <3>3. cBinding' \in Talk!Owner => cBinding' # Talk!NoBinding
      BY MemoryAssumption DEF Talk!Owner, Talk!NoBinding, Talk!None
    <3> QED BY <3>1, <3>2, <3>3 DEF TalJob, TalLater, TalSaved, TalHeld, TalOf, Talk!MayBind
  <2> QED BY <2>1, <2>2
<1>8. \A i, k \in Sessions :
        cJob'[i].seen \subseteq cJob'[k].seen \/ cJob'[k].seen \subseteq cJob'[i].seen
  BY <1>1, <1>2, TalFields
<1>9. Talk!TypeOK' BY <1>3, TalTypedNext
<1> QED BY <1>4, <1>5, <1>6, <1>7, <1>8, <1>9 DEF TalInv

(* A step that writes the context: it stays with whom it belongs to, only  *)
(* the request itself saves, and what the others would leave was saved     *)
(* after their load.                                                       *)
LEMMA TalWrites ==
  ASSUME TalInv, NEW j \in Sessions, NEW x \in TalJobs,
         cJob' = [cJob EXCEPT ![j] = x], cBinding' = cBinding,
         cRun' = cRun, cWork' = cWork, cCalm' \in BOOLEAN,
         cState' \in TalRows,
         cState # Talk!NoState =>
           cState'.user = cState.user /\ cState'.scenario = cState.scenario,
         cState = Talk!NoState =>
           cBinding = [user |-> cState'.user, scenario |-> cState'.scenario],
         cSaved \subseteq cSaved', cSaved' \in SUBSET TalSaves, cForgotten' \in SUBSET cSaved',
         \A v \in cSaved' \ cSaved : v[1] = j,
         Talk!CalmOneContext',
         \A p \in TalParts : TalHeld(TalOf(cState, p), p, cForgotten)',
         \A k \in Sessions \ {j} : TalLater(cJob[k])',
         TalJob(x)', TalSaved(j, x)',
         x.seen = cJob[j].seen \/ x.seen = {} \/ x.seen = cSaved'
  PROVE  TalInv'
<1>1. cJob'[j] = x /\ \A k \in Sessions \ {j} : cJob'[k] = cJob[k] BY TalFields DEF TalTypes
<1>2. x.seen \subseteq cSaved' /\ \A k \in Sessions : cJob[k].seen \subseteq cSaved'
  BY TalFields DEF TalTypes
<1>3. TalTypes' BY <1>1, <1>2, TalFields DEF TalTypes
<1>4. Talk!ContextStaysWithOwner' BY TalFields DEF Talk!ContextStaysWithOwner
<1>5. \A k \in Sessions : TalJob(cJob[k])' /\ TalSaved(k, cJob[k])'
  <2>1. TalJob(cJob[j])' /\ TalSaved(j, cJob[j])' BY <1>1 DEF TalJob, TalSaved
  <2>2. ASSUME NEW k \in Sessions \ {j} PROVE TalJob(cJob[k])' /\ TalSaved(k, cJob[k])'
    <3>1. TalJob(cJob[k]) /\ TalSaved(k, cJob[k]) /\ cJob'[k] = cJob[k] BY <1>1, TalFields
    <3>2. cState' # Talk!NoState BY TalNone
    <3>3. cBinding = Talk!NoBinding => cState # Talk!NoState
      BY TalNone DEF TalRows
    <3>4. TalJob(cJob[k])' BY <3>1, <3>2, <3>3 DEF TalJob, Talk!MayBind
    <3>5. TalSaved(k, cJob[k])' BY <3>1 DEF TalSaved
    <3> QED BY <3>4, <3>5
  <2> QED BY <2>1, <2>2
<1>6. \A i, k \in Sessions :
        cJob'[i].seen \subseteq cJob'[k].seen \/ cJob'[k].seen \subseteq cJob'[i].seen
  BY <1>1, <1>2, TalFields
<1>7. Talk!TypeOK' BY <1>3, TalTypedNext
<1> QED BY <1>4, <1>5, <1>6, <1>7 DEF TalInv

LEMMA TalBind ==
  ASSUME TalInv, NEW j \in Sessions, NEW u \in Users, NEW s \in Scenarios, Talk!Bind(j, u, s)
  PROVE  TalInv'
<1>1. PICK op : op = IF cBinding = Talk!NoBinding THEN "bind" ELSE "bound" OBVIOUS
<1>2. PICK x : x = [Talk!NoJob EXCEPT !.op = op, !.user = u, !.scenario = s] OBVIOUS
<1>3. /\ x \in TalJobs /\ x.op = op /\ x.user = u /\ x.scenario = s
      /\ x.old = Talk!NoState /\ x.seen = {}
  BY <1>1, <1>2, TalNoJob DEF TalJobs, Talk!NoJob
<1>4. /\ cJob' = [cJob EXCEPT ![j] = x] /\ cJob[j].op = "idle"
      /\ UNCHANGED <<cBinding, cState, cRun, cWork, cSaved, cForgotten, cCalm>>
      /\ cBinding = [user |-> u, scenario |-> s] \/ (cBinding = Talk!NoBinding /\ Talk!MayBind(u, s))
  BY <1>1, <1>2 DEF Talk!Bind
<1>5. TalJob(x)' BY <1>1, <1>3, <1>4, TalNone DEF TalJob, TalLater, Talk!MayBind
<1>6. TalSaved(j, x)' BY <1>4, TalFields DEF TalSaved
<1> QED BY <1>3, <1>4, <1>5, <1>6, TalFields, TalGoes DEF TalTypes

LEMMA TalBindCommit ==
  ASSUME TalInv, NEW j \in Sessions, Talk!BindCommit(j)
  PROVE  TalInv'
<1>1. PICK x : x = [cJob[j] EXCEPT !.op = "bound"] OBVIOUS
<1>2. /\ x \in TalJobs /\ x.op = "bound" /\ x.user = cJob[j].user
      /\ x.scenario = cJob[j].scenario /\ x.old = cJob[j].old /\ x.seen = cJob[j].seen
  BY <1>1, TalFields DEF TalJobs
<1>3. /\ cJob' = [cJob EXCEPT ![j] = x] /\ cJob[j].op = "bind" /\ cBinding = Talk!NoBinding
      /\ cBinding' = [user |-> x.user, scenario |-> x.scenario]
      /\ UNCHANGED <<cState, cRun, cWork, cSaved, cForgotten, cCalm>>
  BY <1>1, <1>2 DEF Talk!BindCommit, Talk!Goes
<1>4. x.user \in Users /\ x.scenario \in Scenarios /\ Talk!MayBind(x.user, x.scenario)
      /\ (x.old # Talk!NoState => cState # Talk!NoState)
  BY <1>2, <1>3, TalFields DEF TalJob, TalLater
<1>5. TalJob(x)' BY <1>2, <1>3, <1>4 DEF TalJob, TalLater
<1>6. TalSaved(j, x)' BY <1>3, TalFields DEF TalSaved
<1>7. cBinding' \in Talk!Owner BY <1>3, <1>4 DEF Talk!Owner
<1>8. cState # Talk!NoState => cState.user = cBinding'.user /\ cState.scenario = cBinding'.scenario
  BY <1>3, <1>4 DEF Talk!MayBind
<1> QED BY <1>2, <1>3, <1>5, <1>6, <1>7, <1>8, TalFields, TalGoes DEF TalTypes

(* The parts of a row that was loaded are those of the context.            *)
LEMMA TalLoad ==
  ASSUME TalInv, NEW j \in Sessions, NEW expires \in BOOLEAN, Talk!Load(j, expires)
  PROVE  TalInv'
<1>1. PICK now : now = IF expires THEN [cState EXCEPT !.status = "expired"] ELSE cState OBVIOUS
<1>2. PICK x : x = [cJob[j] EXCEPT !.op = "loaded", !.old = now, !.seen = cSaved] OBVIOUS
<1>3. /\ cJob' = [cJob EXCEPT ![j] = x] /\ cJob[j].op = "bound" /\ cState' = now
      /\ expires => cState.status = "active"
      /\ UNCHANGED <<cBinding, cRun, cWork, cSaved, cForgotten, cCalm>>
  BY <1>1, <1>2 DEF Talk!Load
<1>4. expires => cState \in TalRows BY <1>3, TalFields, TalNone DEF TalTypes
<1>5. /\ now \in TalRows \cup {Talk!NoState} /\ (cState # Talk!NoState => now # Talk!NoState)
      /\ now.metrics = cState.metrics /\ now.range = cState.range
      /\ now.user = cState.user /\ now.scenario = cState.scenario
      /\ expires => now \in TalRows /\ now.status = "expired"
  <2>1. CASE expires
    <3>1. /\ now \in TalRows /\ now.status = "expired"
          /\ now.metrics = cState.metrics /\ now.range = cState.range
          /\ now.user = cState.user /\ now.scenario = cState.scenario
      BY <1>1, <1>4, <2>1 DEF TalRows
    <3> QED BY <2>1, <3>1, TalNone
  <2>2. CASE ~expires BY <1>1, <2>2, TalFields DEF TalTypes
  <2> QED BY <2>1, <2>2
<1>6. /\ x \in TalJobs /\ x.op = "loaded" /\ x.user = cJob[j].user
      /\ x.scenario = cJob[j].scenario /\ x.old = now /\ x.seen = cSaved
  BY <1>2, <1>5, TalFields DEF TalJobs, TalTypes
<1>7. \A p \in TalParts : TalOf(now, p) = TalOf(cState, p) BY <1>5 DEF TalOf
<1>8. TalJob(x)'
  <2>1. \A p \in TalParts : TalOf(x.old, p) = "none" => TalOf(cState', p) = "none"
    BY <1>3, <1>6
  <2>2. cBinding' = [user |-> x.user, scenario |-> x.scenario]
        /\ x.user \in Users /\ x.scenario \in Scenarios
    BY <1>3, <1>6, TalFields DEF TalJob, TalLater
  <2>3. x.old # Talk!NoState => cState' # Talk!NoState BY <1>3, <1>6
  <2> QED BY <1>6, <2>1, <2>2, <2>3 DEF TalJob, TalLater, TalHeld, TalOf
<1>9. TalSaved(j, x)' BY <1>3, TalFields DEF TalSaved
<1>10. CASE ~expires
  <2>1. cState' = cState BY <1>1, <1>3, <1>10
  <2> QED BY <1>3, <1>6, <1>8, <1>9, <2>1, TalFields, TalGoes DEF TalTypes
<1>11. CASE expires
  <2>1. cState # Talk!NoState /\ cState' \in TalRows BY <1>3, <1>4, <1>5, <1>11, TalNone
  <2>2. Talk!CalmOneContext' BY <1>3, <1>5, <1>11 DEF Talk!CalmOneContext
  <2>3. \A p \in TalParts : TalHeld(TalOf(cState, p), p, cForgotten)'
    BY <1>3, <1>7, TalFields DEF TalHeld, TalOf
  <2>4. ASSUME NEW k \in Sessions \ {j} PROVE TalLater(cJob[k])'
    <3>1. TalLater(cJob[k]) BY TalFields DEF TalJob, TalLater
    <3>2. cJob'[k] = cJob[k] BY <1>3, TalFields DEF TalTypes
    <3>3. \A p \in TalParts : TalOf(cState, p)' = TalOf(cState, p) BY <1>3, <1>7 DEF TalOf
    <3> QED BY <1>3, <3>1, <3>2, <3>3 DEF TalLater, TalHeld
  <2> QED BY <1>3, <1>5, <1>6, <1>8, <1>9, <2>1, <2>2, <2>3, <2>4, TalFields, TalWrites DEF TalTypes
<1> QED BY <1>10, <1>11

LEMMA TalStart ==
  ASSUME TalInv, NEW j \in Sessions, Talk!Start(j)
  PROVE  TalInv'
<1>1. PICK x : x = [cJob[j] EXCEPT !.op = "running"] OBVIOUS
<1>2. /\ x \in TalJobs /\ x.op = "running" /\ x.user = cJob[j].user
      /\ x.scenario = cJob[j].scenario /\ x.old = cJob[j].old /\ x.seen = cJob[j].seen
  BY <1>1, TalFields DEF TalJobs
<1>3. /\ cJob' = [cJob EXCEPT ![j] = x] /\ cJob[j].op = "loaded"
      /\ cRun' = [cRun EXCEPT ![j] = "running"] /\ cWork' = cWork \cup {j}
      /\ UNCHANGED <<cBinding, cState, cSaved, cForgotten, cCalm>>
  BY <1>1 DEF Talk!Start, Talk!Goes
<1>4. TalJob(x)' BY <1>2, <1>3, TalFields DEF TalJob, TalLater
<1>5. TalSaved(j, x)' BY <1>3, TalFields DEF TalSaved
<1>6. cRun' \in [Sessions -> {"none", "running", "succeeded", "refused"}] /\ cWork' \in SUBSET Sessions
  BY <1>3, TalFields DEF TalTypes
<1> QED BY <1>2, <1>3, <1>4, <1>5, <1>6, TalFields, TalGoes

(* A request that ends holds nothing, whatever becomes of its run.         *)
LEMMA TalEnds ==
  ASSUME TalInv, NEW j \in Sessions, Talk!Ends(j),
         UNCHANGED <<cBinding, cState, cSaved, cForgotten, cCalm>>,
         cRun' \in [Sessions -> {"none", "running", "succeeded", "refused"}],
         cWork' \in SUBSET Sessions
  PROVE  TalInv'
<1>1. PICK x : x = [Talk!NoJob EXCEPT !.op = "end"] OBVIOUS
<1>2. x \in TalJobs /\ x.op = "end" /\ x.old = Talk!NoState /\ x.seen = {} BY <1>1, TalEnded
<1>3. cJob' = [cJob EXCEPT ![j] = x] BY <1>1 DEF Talk!Ends
<1>4. TalJob(x)' /\ TalSaved(j, x)' BY <1>2 DEF TalJob, TalLater, TalSaved
<1> QED BY <1>2, <1>3, <1>4, TalGoes

LEMMA TalRefuse ==
  ASSUME TalInv, NEW j \in Sessions, NEW known \in BOOLEAN, Talk!Refuse(j, known)
  PROVE  TalInv'
<1>1. cRun' \in [Sessions -> {"none", "running", "succeeded", "refused"}] /\ cWork' \in SUBSET Sessions
  BY TalFields DEF Talk!Refuse, TalTypes
<1> QED BY <1>1, TalEnds DEF Talk!Refuse

LEMMA TalFinish ==
  ASSUME TalInv, NEW j \in Sessions, Talk!Finish(j)
  PROVE  TalInv'
<1>1. cRun' \in [Sessions -> {"none", "running", "succeeded", "refused"}] /\ cWork' \in SUBSET Sessions
  BY TalFields DEF Talk!Finish, TalTypes
<1> QED BY <1>1, TalEnds DEF Talk!Finish

LEMMA TalFail ==
  ASSUME TalInv, NEW j \in Sessions, Talk!Fail(j)
  PROVE  TalInv'
<1>1. cRun' \in [Sessions -> {"none", "running", "succeeded", "refused"}] /\ cWork' \in SUBSET Sessions
  BY TalFields DEF Talk!Fail, TalTypes
<1> QED BY <1>1, TalEnds DEF Talk!Fail

(* The row after attributes that differ from the loaded ones are written.  *)
LEMMA TalUpdate ==
  ASSUME TalInv, cState \in TalRows, NEW old, NEW new,
         new.status \in {"active", "cleared"},
         new.metrics \in Values \cup {"none"}, new.range \in Ranges \cup {"none"}
  PROVE  /\ Talk!Update(old, new) \in TalRows
         /\ Talk!Update(old, new).user = cState.user
         /\ Talk!Update(old, new).scenario = cState.scenario
         /\ Talk!Update(old, new).status =
              IF new.status # old.status THEN new.status ELSE cState.status
         /\ \A p \in TalParts : TalOf(Talk!Update(old, new), p) =
              IF TalOf(new, p) # TalOf(old, p) THEN TalOf(new, p) ELSE TalOf(cState, p)
<1>1. PICK a : a = IF new.status # old.status THEN new.status ELSE cState.status OBVIOUS
<1>2. PICK m : m = IF new.metrics # old.metrics THEN new.metrics ELSE cState.metrics OBVIOUS
<1>3. PICK d : d = IF new.range # old.range THEN new.range ELSE cState.range OBVIOUS
<1>4. PICK row : row = [cState EXCEPT !.status = a, !.metrics = m, !.range = d] OBVIOUS
<1>5. Talk!Update(old, new) = row BY <1>1, <1>2, <1>3, <1>4 DEF Talk!Update, Talk!Written
<1>6. /\ a \in {"active", "expired", "cleared"}
      /\ m \in Values \cup {"none"} /\ d \in Ranges \cup {"none"}
  BY <1>1, <1>2, <1>3 DEF TalRows
<1>7. /\ row \in TalRows /\ row.user = cState.user /\ row.scenario = cState.scenario
      /\ row.status = a /\ row.metrics = m /\ row.range = d
  BY <1>4, <1>6 DEF TalRows
<1> QED BY <1>1, <1>2, <1>3, <1>5, <1>7 DEF TalOf, TalParts

(* A save of a request that has not saved before: nothing has seen it.     *)
LEMMA TalFresh ==
  ASSUME TalInv, NEW j \in Sessions, NEW v \in TalSaves, v[1] = j,
         cJob[j].op \in {"loaded", "running"}
  PROVE  v \notin cSaved /\ v \notin cForgotten /\ \A k \in Sessions : v \notin cJob[k].seen
BY TalFields DEF TalSaved, TalTypes

LEMMA TalSave ==
  ASSUME TalInv, NEW j \in Sessions, NEW m \in Values, NEW d \in Ranges, Talk!Save(j, m, d)
  PROVE  TalInv'
<1>1. PICK old : old = cJob[j].old OBVIOUS
<1>2. PICK new : new = [status |-> "active", user |-> cJob[j].user, scenario |-> cJob[j].scenario,
                        metrics |-> m, range |-> d]
  OBVIOUS
<1>3. PICK v : v = <<j, m, d>> OBVIOUS
<1>4. PICK x : x = [cJob[j] EXCEPT !.op = "saved"] OBVIOUS
<1>5. /\ x \in TalJobs /\ x.op = "saved" /\ x.user = cJob[j].user
      /\ x.scenario = cJob[j].scenario /\ x.old = cJob[j].old /\ x.seen = cJob[j].seen
  BY <1>4, TalFields DEF TalJobs
<1>6. /\ cJob' = [cJob EXCEPT ![j] = x] /\ cJob[j].op \in {"loaded", "running"}
      /\ old = Talk!NoState => cState = Talk!NoState
      /\ cState' = IF old = Talk!NoState THEN new ELSE Talk!Update(old, new)
      /\ cSaved' = cSaved \cup {v}
      /\ UNCHANGED <<cBinding, cRun, cWork, cForgotten>>
  BY <1>1, <1>2, <1>3, <1>4 DEF Talk!Save, Talk!Goes
<1>7. cCalm' = (cCalm /\ cState = old) BY <1>1 DEF Talk!Save
<1>8. v \in TalSaves /\ v[1] = j /\ v[2] = m /\ v[3] = d BY <1>3 DEF TalSaves
<1>9. v \notin cSaved /\ v \notin cForgotten /\ \A k \in Sessions : v \notin cJob[k].seen
  BY <1>6, <1>8, TalFresh
<1>10. /\ cBinding = [user |-> cJob[j].user, scenario |-> cJob[j].scenario]
       /\ cJob[j].user \in Users /\ cJob[j].scenario \in Scenarios
       /\ old # Talk!NoState => cState \in TalRows
  BY <1>1, <1>6, TalFields DEF TalJob, TalTypes
<1>11. /\ new \in TalRows /\ new.status = "active" /\ new.metrics = m /\ new.range = d
       /\ new.user = cJob[j].user /\ new.scenario = cJob[j].scenario
  BY <1>2, <1>10 DEF TalRows
<1>12. \A p \in TalParts : TalOf(new, p) = TalPart(v, p) BY <1>8, <1>11 DEF TalOf, TalPart
<1>13. /\ cState' \in TalRows
       /\ \A p \in TalParts : TalOf(cState', p) = TalPart(v, p) \/ TalOf(cState', p) = TalOf(cState, p)
       /\ cState # Talk!NoState => cState'.user = cState.user /\ cState'.scenario = cState.scenario
       /\ cState = Talk!NoState =>
            cBinding = [user |-> cState'.user, scenario |-> cState'.scenario]
       /\ cState = old => cState'.metrics = m /\ cState'.range = d
  <2>1. CASE old = Talk!NoState
    <3>1. cState' = new /\ cState = Talk!NoState BY <1>6, <2>1
    <3> QED BY <1>10, <1>11, <1>12, <3>1
  <2>2. CASE old # Talk!NoState
    <3>1. cState' = Talk!Update(old, new) /\ cState \in TalRows BY <1>6, <1>10, <2>2
    <3>2. cState # Talk!NoState BY <3>1, TalNone
    <3>3. /\ cState' \in TalRows
          /\ cState'.user = cState.user /\ cState'.scenario = cState.scenario
          /\ \A p \in TalParts : TalOf(cState', p) =
               IF TalOf(new, p) # TalOf(old, p) THEN TalOf(new, p) ELSE TalOf(cState, p)
      BY <1>11, <3>1, TalUpdate
    <3>4. cState = old => \A p \in TalParts : TalOf(cState', p) = TalOf(new, p) BY <3>3
    <3>5. cState = old => cState'.metrics = m /\ cState'.range = d
      BY <1>11, <3>4 DEF TalOf, TalParts
    <3> QED BY <1>12, <3>2, <3>3, <3>5
  <2> QED BY <2>1, <2>2
<1>14. Talk!CalmOneContext'
  <2> SUFFICES ASSUME cCalm', cState'.status = "active"
               PROVE  \E w \in cSaved' : w[2] = cState'.metrics /\ w[3] = cState'.range
    BY DEF Talk!CalmOneContext
  <2> QED BY <1>6, <1>7, <1>8, <1>13
<1>15. \A p \in TalParts : TalHeld(TalOf(cState, p), p, cForgotten)'
  <2> SUFFICES ASSUME NEW p \in TalParts PROVE TalHeld(TalOf(cState, p), p, cForgotten)' OBVIOUS
  <2>1. TalHeld(TalOf(cState, p), p, cForgotten) BY TalFields
  <2>2. TalOf(cState, p)' = TalPart(v, p) \/ TalOf(cState, p)' = TalOf(cState, p)
    BY <1>13 DEF TalOf
  <2> QED BY <1>6, <1>9, <2>1, <2>2 DEF TalHeld
<1>16. ASSUME NEW k \in Sessions \ {j} PROVE TalLater(cJob[k])'
  <2>1. TalLater(cJob[k]) BY TalFields DEF TalJob
  <2>2. cJob'[k] = cJob[k] BY <1>6, TalFields DEF TalTypes
  <2>3. \A p \in TalParts : TalOf(cState, p)' = TalPart(v, p) \/ TalOf(cState, p)' = TalOf(cState, p)
    BY <1>13 DEF TalOf
  <2> QED BY <1>6, <1>9, <2>1, <2>2, <2>3 DEF TalLater, TalHeld
<1>17. TalJob(x)'
  <2>1. cState' # Talk!NoState BY <1>13, TalNone
  <2> QED BY <1>5, <1>6, <1>10, <2>1 DEF TalJob, TalLater
<1>18. TalSaved(j, x)' BY <1>5 DEF TalSaved
<1>19. cCalm' \in BOOLEAN BY <1>7
<1>20. cSaved' \in SUBSET TalSaves /\ cForgotten' \in SUBSET cSaved' /\ cSaved \subseteq cSaved'
       /\ \A w \in cSaved' \ cSaved : w[1] = j
  BY <1>6, <1>8, TalFields DEF TalTypes
<1> QED
  BY <1>5, <1>6, <1>13, <1>14, <1>15, <1>16, <1>17, <1>18, <1>19, <1>20, TalWrites

(* A clear leaves only what its session loaded empty; that was saved after *)
(* the load, and after that of any other for which it was empty too.       *)
LEMMA TalClearCommit ==
  ASSUME TalInv, NEW j \in Sessions, Talk!ClearCommit(j)
  PROVE  TalInv'
<1>1. PICK old : old = cJob[j].old OBVIOUS
<1>2. PICK new : new = [old EXCEPT !.status = "cleared", !.metrics = "none", !.range = "none"]
  OBVIOUS
<1>3. PICK x : x = [Talk!NoJob EXCEPT !.op = "end"] OBVIOUS
<1>4. x \in TalJobs /\ x.op = "end" /\ x.old = Talk!NoState /\ x.seen = {} BY <1>3, TalEnded
<1>5. PICK seen : seen = cJob[j].seen OBVIOUS
<1>6. /\ cJob' = [cJob EXCEPT ![j] = x] /\ cJob[j].op = "loaded" /\ old # Talk!NoState
      /\ cState' = Talk!Update(old, new) /\ cForgotten' = cForgotten \cup seen
      /\ UNCHANGED <<cBinding, cRun, cWork, cSaved>>
  BY <1>1, <1>2, <1>3, <1>5 DEF Talk!ClearCommit, Talk!Ends, Talk!None
<1>7. cCalm' = (cCalm /\ cState = old) BY <1>1 DEF Talk!ClearCommit
<1>8. old \in TalRows /\ cState \in TalRows
  BY <1>1, <1>6, TalFields DEF TalJob, TalJobs, TalTypes
<1>9. new.status = "cleared" /\ new.metrics = "none" /\ new.range = "none"
  BY <1>2, <1>8 DEF TalRows
<1>10. /\ cState' \in TalRows
       /\ cState'.user = cState.user /\ cState'.scenario = cState.scenario
       /\ cState'.status = (IF new.status # old.status THEN new.status ELSE cState.status)
       /\ \A p \in TalParts : TalOf(cState', p) =
            IF TalOf(new, p) # TalOf(old, p) THEN TalOf(new, p) ELSE TalOf(cState, p)
  BY <1>6, <1>8, <1>9, TalUpdate
<1>11. \A p \in TalParts : TalOf(new, p) = "none" BY <1>9 DEF TalOf
<1>12. \A p \in TalParts : TalOf(cState, p)' # "none" =>
         TalOf(old, p) = "none" /\ TalOf(cState, p)' = TalOf(cState, p)
  BY <1>10, <1>11 DEF TalOf
<1>13. \A p \in TalParts :
         TalOf(old, p) = "none" => TalHeld(TalOf(cState, p), p, cForgotten \cup seen)
  BY <1>1, <1>5, <1>6, TalFields DEF TalJob, TalLater
<1>14. \A p \in TalParts : TalHeld(TalOf(cState, p), p, cForgotten)'
  BY <1>6, <1>12, <1>13 DEF TalHeld
<1>15. Talk!CalmOneContext'
  <2>1. cState = old => cState'.status = "cleared" BY <1>9, <1>10
  <2> QED BY <1>7, <2>1 DEF Talk!CalmOneContext
<1>16. ASSUME NEW k \in Sessions \ {j} PROVE TalLater(cJob[k])'
  <2>1. cJob'[k] = cJob[k] BY <1>6, TalFields DEF TalTypes
  <2>2. PICK later : later = cJob[k].seen OBVIOUS
  <2>3. later \subseteq seen \/ seen \subseteq later BY <1>5, <2>2, TalFields
  <2>4. TalLater(cJob[k]) BY TalFields DEF TalJob
  <2> SUFFICES ASSUME cJob[k].op = "loaded", NEW p \in TalParts,
                      TalOf(cJob[k].old, p) = "none", TalOf(cState, p)' # "none"
               PROVE  TalHeld(TalOf(cState, p), p, cForgotten \cup later)'
    BY <2>1, <2>2 DEF TalLater, TalHeld
  <2>5. TalHeld(TalOf(cState, p), p, cForgotten \cup later) BY <2>2, <2>4 DEF TalLater
  <2>6. TalHeld(TalOf(cState, p), p, cForgotten \cup seen) BY <1>12, <1>13
  <2> QED BY <1>6, <1>12, <2>3, <2>5, <2>6 DEF TalHeld
<1>17. TalJob(x)' /\ TalSaved(j, x)' BY <1>4 DEF TalJob, TalLater, TalSaved
<1>18. cCalm' \in BOOLEAN BY <1>7
<1>19. cSaved' \in SUBSET TalSaves /\ cForgotten' \in SUBSET cSaved'
  BY <1>5, <1>6, TalFields DEF TalTypes
<1>20. cState # Talk!NoState BY <1>8, TalNone
<1> QED
  BY <1>4, <1>6, <1>10, <1>14, <1>15, <1>16, <1>17, <1>18, <1>19, <1>20, TalWrites

LEMMA TalStep == TalInv /\ [Talk!Next]_(Talk!vars) => TalInv'
<1> SUFFICES ASSUME TalInv, Talk!Next PROVE TalInv' BY TalKept
<1> QED
  BY TalBind, TalBindCommit, TalLoad, TalStart, TalRefuse, TalSave, TalFinish, TalFail,
     TalClearCommit DEF Talk!Next

LEMMA TalMoves == [MCNext]_allVars => [Talk!Next]_(Talk!vars)
BY DEF MCNext, allVars, UpkeepVars, WorkingVars, TalkVars, RunsVars, vars, Talk!vars

----------------------------------------------------------------------------
(* What runs leave: a run of which memory was off, so far, has read that   *)
(* it is off, and cannot be about to write; an episode has a writer that   *)
(* is past it; and what writes for a skill has a completed execution.      *)

RunJob(j, x) ==
  /\ j \in rOff => x.op \notin {"idle", "write"} /\ ~x.remember
  /\ j \in rWorking => x.op = "end"
  /\ \A r \in RunIds : rEpisode[r] = j => x.op \in {"remember", "end"}
  /\ x.kind = "skill" /\ x.op \in {"answered", "write", "remember"} =>
       rExecution[j].status = "COMPLETED"

RunInv ==
  /\ Runs!RunMemorySafe
  /\ rOff # {} => ~rEnabled
  /\ \A j \in Sessions : RunJob(j, rJob[j])

RunRows == [status : {"none", "RUNNING", "COMPLETED", "FAILED"}, version : 0 .. MaxSwitches + 1]
RunJobs ==
  [op : {"idle", "loaded", "matched", "running", "answered", "write", "remember", "end"},
   kind : {"skill", "composite", "none"}, run : RunIds \cup {"none"},
   remember : BOOLEAN, version : 0 .. MaxSwitches + 1]

RunTypes ==
  /\ rEnabled \in BOOLEAN /\ rSkill \in 0 .. MaxSwitches + 1 /\ rSwitches \in 0 .. MaxSwitches
  /\ rExecution \in [Sessions -> RunRows]
  /\ rEpisode \in [RunIds -> Sessions \cup {"none", "forgotten"}]
  /\ rWorking \in SUBSET Sessions /\ rOff \in SUBSET Sessions
  /\ rJob \in [Sessions -> RunJobs]

LEMMA RunTyped == Runs!TypeOK <=> RunTypes
BY DEF Runs!TypeOK, Runs!None, Runs!Kinds, RunTypes, RunRows, RunJobs

LEMMA RunTypedNext == Runs!TypeOK' <=> RunTypes'
BY DEF Runs!TypeOK, Runs!None, Runs!Kinds, RunTypes, RunRows, RunJobs

(* What the invariant amounts to, request by request.                      *)
LEMMA RunJobsAreEnough ==
  ASSUME RunTypes, rOff # {} => ~rEnabled, \A j \in Sessions : RunJob(j, rJob[j]),
         Runs!OffLeavesNothing, Runs!RememberedRunsCompleted
  PROVE  RunInv
BY RunTyped DEF RunInv, Runs!RunMemorySafe

LEMMA RunFields ==
  ASSUME RunInv
  PROVE  /\ RunTypes /\ Runs!OffLeavesNothing /\ Runs!RememberedRunsCompleted
         /\ (rOff # {} => ~rEnabled)
         /\ \A j \in Sessions : RunJob(j, rJob[j]) /\ rJob[j] \in RunJobs /\ rExecution[j] \in RunRows
BY RunTyped DEF RunInv, Runs!RunMemorySafe, RunTypes

LEMMA RunNoJob ==
  /\ Runs!NoJob \in RunJobs /\ Runs!NoJob.op = "idle" /\ Runs!NoJob.kind = "none"
  /\ Runs!NoRow \in RunRows
BY MemoryAssumption DEF Runs!NoJob, Runs!NoRow, Runs!None, RunJobs, RunRows

LEMMA RunInit == Runs!Init => RunInv
<1> SUFFICES ASSUME Runs!Init PROVE RunInv OBVIOUS
<1>1. RunTypes BY RunNoJob, MemoryAssumption DEF Runs!Init, RunTypes, Runs!None
<1>2. \A r \in RunIds : rEpisode[r] = "none" BY DEF Runs!Init, Runs!None
<1>3. \A j \in Sessions : rJob[j].op = "idle" /\ rJob[j].kind = "none" /\ j \notin rOff /\ j \notin rWorking
  BY RunNoJob DEF Runs!Init
<1>4. \A j \in Sessions : RunJob(j, rJob[j]) BY <1>2, <1>3, MemoryAssumption DEF RunJob
<1>5. Runs!OffLeavesNothing /\ rOff = {} BY DEF Runs!Init, Runs!OffLeavesNothing
<1>6. Runs!RememberedRunsCompleted BY <1>3 DEF Runs!RememberedRunsCompleted
<1> QED BY <1>1, <1>4, <1>5, <1>6, RunJobsAreEnough

LEMMA RunKept == RunInv /\ UNCHANGED Runs!vars => RunInv'
BY DEF RunInv, Runs!RunMemorySafe, Runs!TypeOK, Runs!OffLeavesNothing,
       Runs!RememberedRunsCompleted, Runs!vars, RunJob

(* A request goes from one operation to another, its execution with it; it *)
(* remembers only what is completed, and nothing if memory was off for it. *)
LEMMA RunGoes ==
  ASSUME RunInv, NEW j \in Sessions, NEW x \in RunJobs, NEW e \in RunRows,
         rJob' = [rJob EXCEPT ![j] = x], rExecution' = [rExecution EXCEPT ![j] = e],
         UNCHANGED <<rEnabled, rSkill, rSwitches, rEpisode, rWorking>>,
         rOff' = rOff \/ (rOff' = rOff \cup {j} /\ ~rEnabled /\ rJob[j].op = "idle"),
         RunJob(j, x)',
         x.kind = "skill" /\ (j \in rWorking \/ \E r \in RunIds : rEpisode[r] = j)
           => e.status = "COMPLETED"
  PROVE  RunInv'
<1>1. RunTypes' BY RunFields DEF RunTypes
<1>2. rJob'[j] = x /\ rExecution'[j] = e
      /\ \A k \in Sessions \ {j} : rJob'[k] = rJob[k] /\ rExecution'[k] = rExecution[k]
  BY RunFields DEF RunTypes
<1>3. rOff' # {} => ~rEnabled' BY RunFields
<1>4. \A k \in Sessions : RunJob(k, rJob[k])'
  <2> SUFFICES ASSUME NEW k \in Sessions \ {j} PROVE RunJob(k, rJob[k])' BY <1>2 DEF RunJob
  <2> QED BY <1>2, RunFields DEF RunJob
<1>5. Runs!OffLeavesNothing'
  <2>1. CASE rOff' = rOff BY <2>1, RunFields DEF Runs!OffLeavesNothing
  <2>2. CASE rOff' = rOff \cup {j} /\ rJob[j].op = "idle"
    BY <2>2, RunFields DEF Runs!OffLeavesNothing, RunJob
  <2> QED BY <2>1, <2>2
<1>6. Runs!RememberedRunsCompleted' BY <1>2, RunFields DEF Runs!RememberedRunsCompleted
<1>7. Runs!TypeOK' BY <1>1, RunTypedNext
<1> QED BY <1>3, <1>4, <1>5, <1>6, <1>7 DEF RunInv, Runs!RunMemorySafe

(* The rows of requests that have remembered.                              *)
LEMMA RunRemembered ==
  ASSUME RunInv, NEW j \in Sessions, rJob[j].op \notin {"remember", "end"}
  PROVE  j \notin rWorking /\ \A r \in RunIds : rEpisode[r] # j
BY RunFields DEF RunJob

LEMMA RunSwitchMemory ==
  ASSUME RunInv, Runs!SwitchMemory
  PROVE  RunInv'
<1>1. /\ rSwitches \in Nat /\ rSwitches < MaxSwitches /\ rSwitches' = rSwitches + 1
      /\ rEnabled' = ~rEnabled /\ rOff' = IF rEnabled' THEN {} ELSE rOff
      /\ UNCHANGED <<rSkill, rExecution, rEpisode, rWorking, rJob>>
  BY RunFields, MemoryAssumption DEF Runs!SwitchMemory, RunTypes
<1>2. rSwitches' \in 0 .. MaxSwitches BY <1>1, MemoryAssumption
<1>3. rEnabled' \in BOOLEAN /\ rOff' \in SUBSET Sessions /\ (rOff' = {} \/ rOff' = rOff)
  BY <1>1, RunFields DEF RunTypes
<1>4. RunTypes' BY <1>1, <1>2, <1>3, RunFields DEF RunTypes
<1>5. rOff' # {} => ~rEnabled' BY <1>1
<1>6. \A j \in Sessions : RunJob(j, rJob[j])' BY <1>1, <1>3, RunFields DEF RunJob
<1>7. Runs!OffLeavesNothing' BY <1>1, <1>3, RunFields DEF Runs!OffLeavesNothing
<1>8. Runs!RememberedRunsCompleted' BY <1>1, RunFields DEF Runs!RememberedRunsCompleted
<1>9. Runs!TypeOK' BY <1>4, RunTypedNext
<1> QED BY <1>5, <1>6, <1>7, <1>8, <1>9 DEF RunInv, Runs!RunMemorySafe

LEMMA RunSwitchSkill ==
  ASSUME RunInv, NEW v \in 0 .. MaxSwitches + 1, Runs!SwitchSkill(v)
  PROVE  RunInv'
<1>1. /\ rSwitches \in Nat /\ rSwitches < MaxSwitches /\ rSwitches' = rSwitches + 1
      /\ rSkill' = v /\ UNCHANGED <<rEnabled, rExecution, rEpisode, rWorking, rOff, rJob>>
  BY RunFields, MemoryAssumption DEF Runs!SwitchSkill, RunTypes
<1>2. rSwitches' \in 0 .. MaxSwitches BY <1>1, MemoryAssumption
<1>3. RunTypes' BY <1>1, <1>2, RunFields DEF RunTypes
<1>4. Runs!TypeOK' BY <1>3, RunTypedNext
<1> QED
  BY <1>1, <1>4 DEF RunInv, Runs!RunMemorySafe, Runs!OffLeavesNothing,
     Runs!RememberedRunsCompleted, RunJob

LEMMA RunForgetEpisode ==
  ASSUME RunInv, NEW r \in RunIds, Runs!ForgetEpisode(r)
  PROVE  RunInv'
<1>1. /\ rEpisode' = [rEpisode EXCEPT ![r] = "forgotten"]
      /\ UNCHANGED <<rEnabled, rSkill, rSwitches, rExecution, rWorking, rOff, rJob>>
  BY DEF Runs!ForgetEpisode
<1>2. RunTypes' BY <1>1, RunFields DEF RunTypes
<1>3. \A q \in RunIds, j \in Sessions : rEpisode'[q] = j => rEpisode[q] = j
  BY <1>1, RunFields, MemoryAssumption DEF RunTypes
<1>4. \A j \in Sessions : RunJob(j, rJob[j])' BY <1>1, <1>3, RunFields DEF RunJob
<1>5. Runs!OffLeavesNothing' BY <1>1, <1>3, RunFields DEF Runs!OffLeavesNothing, RunTypes
<1>6. Runs!RememberedRunsCompleted' BY <1>1, <1>3, RunFields DEF Runs!RememberedRunsCompleted
<1>7. Runs!TypeOK' BY <1>2, RunTypedNext
<1> QED BY <1>1, <1>4, <1>5, <1>6, <1>7, RunFields DEF RunInv, Runs!RunMemorySafe

LEMMA RunLoadContext ==
  ASSUME RunInv, NEW j \in Sessions, NEW kind \in Runs!Kinds, NEW r \in RunIds,
         Runs!LoadContext(j, kind, r)
  PROVE  RunInv'
<1>1. PICK b \in BOOLEAN : b = rEnabled BY RunFields DEF RunTypes
<1>2. PICK x : x = [Runs!NoJob EXCEPT !.op = "loaded", !.kind = kind, !.run = r, !.remember = b]
  OBVIOUS
<1>3. x \in RunJobs /\ x.op = "loaded" /\ x.remember = b
  <2>1. x = [op |-> "loaded", kind |-> kind, run |-> r, remember |-> b, version |-> 0]
    BY <1>2 DEF Runs!NoJob
  <2>2. kind \in {"skill", "composite", "none"} /\ 0 \in 0 .. MaxSwitches + 1
    BY MemoryAssumption DEF Runs!Kinds
  <2> QED BY <2>1, <2>2 DEF RunJobs
<1>4. /\ rJob' = [rJob EXCEPT ![j] = x] /\ rJob[j].op = "idle"
      /\ rOff' = IF b THEN rOff ELSE rOff \cup {j}
      /\ UNCHANGED <<rEnabled, rSkill, rSwitches, rExecution, rEpisode, rWorking>>
  BY <1>1, <1>2 DEF Runs!LoadContext
<1>5. j \notin rWorking /\ \A q \in RunIds : rEpisode[q] # j BY <1>4, RunRemembered
<1>6. j \notin rOff BY <1>4, RunFields DEF RunJob
<1>7. rExecution' = [rExecution EXCEPT ![j] = rExecution[j]] BY <1>4, RunFields DEF RunTypes
<1>8. rOff' = rOff \/ (rOff' = rOff \cup {j} /\ ~rEnabled) BY <1>1, <1>4
<1>9. j \in rOff' => ~x.remember BY <1>3, <1>4, <1>6
<1>10. RunJob(j, x)' BY <1>3, <1>4, <1>5, <1>9 DEF RunJob
<1> QED BY <1>3, <1>4, <1>5, <1>7, <1>8, <1>10, RunFields, RunGoes

(* The steps of a request before it remembers.                             *)
LEMMA RunBefore ==
  ASSUME RunInv, NEW j \in Sessions,
         NEW op \in {"matched", "running", "answered"}, NEW version \in 0 .. MaxSwitches + 1,
         NEW e \in RunRows,
         rJob' = [rJob EXCEPT ![j] = [rJob[j] EXCEPT !.op = op, !.version = version]],
         rExecution' = [rExecution EXCEPT ![j] = e],
         UNCHANGED <<rEnabled, rSkill, rSwitches, rEpisode, rWorking, rOff>>,
         rJob[j].op \in {"loaded", "matched", "running"},
         op = "answered" /\ rJob[j].kind = "skill" => e.status = "COMPLETED"
  PROVE  RunInv'
<1>1. PICK x : x = [rJob[j] EXCEPT !.op = op, !.version = version] OBVIOUS
<1>2. x \in RunJobs /\ x.op = op /\ x.kind = rJob[j].kind /\ x.remember = rJob[j].remember
  BY <1>1, RunFields DEF RunJobs
<1>3. j \notin rWorking /\ \A q \in RunIds : rEpisode[q] # j BY RunRemembered
<1>4. rExecution'[j] = e BY RunFields DEF RunTypes
<1>5. RunJob(j, x)' BY <1>2, <1>3, <1>4, RunFields DEF RunJob
<1> QED BY <1>1, <1>2, <1>3, <1>5, RunGoes

LEMMA RunMatch ==
  ASSUME RunInv, NEW j \in Sessions, Runs!Match(j)
  PROVE  RunInv'
<1>1. /\ rJob' = [rJob EXCEPT ![j] = [rJob[j] EXCEPT !.op = "matched", !.version = rSkill]]
      /\ rExecution' = [rExecution EXCEPT ![j] = rExecution[j]]
      /\ rJob[j].op = "loaded" /\ rSkill \in 0 .. MaxSwitches + 1
      /\ UNCHANGED <<rEnabled, rSkill, rSwitches, rEpisode, rWorking, rOff>>
  BY RunFields DEF Runs!Match, RunTypes
<1> QED BY <1>1, RunFields, RunBefore

LEMMA RunBegin ==
  ASSUME RunInv, NEW j \in Sessions, Runs!Begin(j)
  PROVE  RunInv'
<1>1. PICK version : version = rJob[j].version OBVIOUS
<1>2. version \in 0 .. MaxSwitches + 1 BY <1>1, RunFields DEF RunJobs
<1>3. PICK e : e = [status |-> "RUNNING", version |-> version] OBVIOUS
<1>4. e \in RunRows BY <1>2, <1>3 DEF RunRows
<1>5. /\ rJob' = [rJob EXCEPT ![j] = [rJob[j] EXCEPT !.op = "running"]]
      /\ rExecution' = [rExecution EXCEPT ![j] = e]
      /\ rJob[j].op = "matched"
      /\ UNCHANGED <<rEnabled, rSkill, rSwitches, rEpisode, rWorking, rOff>>
  BY <1>1, <1>3 DEF Runs!Begin, Runs!Goes
<1>6. [rJob[j] EXCEPT !.op = "running"] = [rJob[j] EXCEPT !.op = "running", !.version = version]
  BY <1>1, RunFields DEF RunJobs
<1> QED BY <1>2, <1>4, <1>5, <1>6, RunBefore

LEMMA RunComplete ==
  ASSUME RunInv, NEW j \in Sessions, Runs!Complete(j)
  PROVE  RunInv'
<1>1. PICK version : version = rJob[j].version OBVIOUS
<1>2. version \in 0 .. MaxSwitches + 1 BY <1>1, RunFields DEF RunJobs
<1>3. PICK e : e = [rExecution[j] EXCEPT !.status = "COMPLETED"] OBVIOUS
<1>4. e \in RunRows /\ e.status = "COMPLETED" BY <1>3, RunFields DEF RunRows
<1>5. /\ rJob' = [rJob EXCEPT ![j] = [rJob[j] EXCEPT !.op = "answered", !.version = version]]
      /\ rExecution' = [rExecution EXCEPT ![j] = e]
      /\ rJob[j].op = "running"
      /\ UNCHANGED <<rEnabled, rSkill, rSwitches, rEpisode, rWorking, rOff>>
  BY <1>1, <1>3, RunFields DEF Runs!Complete, Runs!Goes, RunTypes, RunJobs
<1> QED BY <1>2, <1>4, <1>5, RunBefore

LEMMA RunCompose ==
  ASSUME RunInv, NEW j \in Sessions, Runs!Compose(j)
  PROVE  RunInv'
<1>1. PICK version : version = rJob[j].version OBVIOUS
<1>2. version \in 0 .. MaxSwitches + 1 BY <1>1, RunFields DEF RunJobs
<1>3. /\ rJob' = [rJob EXCEPT ![j] = [rJob[j] EXCEPT !.op = "answered", !.version = version]]
      /\ rExecution' = [rExecution EXCEPT ![j] = rExecution[j]]
      /\ rJob[j].op = "loaded" /\ rJob[j].kind = "composite"
      /\ UNCHANGED <<rEnabled, rSkill, rSwitches, rEpisode, rWorking, rOff>>
  BY <1>1, RunFields DEF Runs!Compose, Runs!Goes, RunTypes, RunJobs
<1> QED BY <1>2, <1>3, RunFields, RunBefore

LEMMA RunReadPolicy ==
  ASSUME RunInv, NEW j \in Sessions, Runs!ReadPolicy(j)
  PROVE  RunInv'
<1>1. PICK remember : remember = IF rJob[j].kind = "composite" THEN rEnabled ELSE rJob[j].remember
  OBVIOUS
<1>2. PICK x : x = [rJob[j] EXCEPT !.remember = remember,
                                   !.op = IF rEnabled THEN "write" ELSE "remember"]
  OBVIOUS
<1>3. remember \in BOOLEAN BY <1>1, RunFields DEF RunTypes, RunJobs
<1>4. /\ x \in RunJobs /\ x.op = (IF rEnabled THEN "write" ELSE "remember")
      /\ x.kind = rJob[j].kind /\ x.remember = remember
  BY <1>2, <1>3, RunFields DEF RunJobs
<1>5. /\ rJob' = [rJob EXCEPT ![j] = x] /\ rJob[j].op = "answered"
      /\ UNCHANGED <<rEnabled, rSkill, rSwitches, rExecution, rEpisode, rWorking, rOff>>
  BY <1>1, <1>2 DEF Runs!ReadPolicy
<1>6. j \notin rWorking /\ \A q \in RunIds : rEpisode[q] # j BY <1>5, RunRemembered
<1>7. rExecution' = [rExecution EXCEPT ![j] = rExecution[j]] BY <1>5, RunFields DEF RunTypes
<1>8. j \in rOff => ~remember /\ ~rEnabled BY <1>1, RunFields DEF RunJob
<1>9. RunJob(j, x)' BY <1>4, <1>5, <1>6, <1>8, RunFields DEF RunJob
<1> QED BY <1>4, <1>5, <1>6, <1>7, <1>9, RunFields, RunGoes

LEMMA RunWriteEpisode ==
  ASSUME RunInv, NEW j \in Sessions, Runs!WriteEpisode(j)
  PROVE  RunInv'
<1>1. PICK x : x = [rJob[j] EXCEPT !.op = "remember"] OBVIOUS
<1>2. /\ x \in RunJobs /\ x.op = "remember" /\ x.kind = rJob[j].kind /\ x.remember = rJob[j].remember
  BY <1>1, RunFields DEF RunJobs
<1>3. /\ rJob' = [rJob EXCEPT ![j] = x] /\ rJob[j].op = "write"
      /\ UNCHANGED <<rEnabled, rSkill, rSwitches, rExecution, rWorking, rOff>>
  BY <1>1 DEF Runs!WriteEpisode, Runs!Goes
<1>4. /\ rEpisode' \in [RunIds -> Sessions \cup {"none", "forgotten"}]
      /\ \A q \in RunIds : rEpisode'[q] = rEpisode[q] \/ rEpisode'[q] = j
  BY RunFields DEF Runs!WriteEpisode, RunTypes
<1>5. rJob'[j] = x /\ \A k \in Sessions \ {j} : rJob'[k] = rJob[k] BY <1>3, RunFields DEF RunTypes
<1>6. j \notin rOff /\ j \notin rWorking BY <1>3, RunFields DEF RunJob
<1>7. rJob[j].kind = "skill" => rExecution[j].status = "COMPLETED" BY <1>3, RunFields DEF RunJob
<1>8. RunTypes' BY <1>2, <1>3, <1>4, RunFields DEF RunTypes
<1>9. \A k \in Sessions : RunJob(k, rJob[k])'
  <2>1. RunJob(j, rJob[j])' BY <1>2, <1>3, <1>5, <1>6, <1>7 DEF RunJob
  <2>2. \A k \in Sessions \ {j} : RunJob(k, rJob[k])' BY <1>3, <1>4, <1>5, RunFields DEF RunJob
  <2> QED BY <2>1, <2>2
<1>10. Runs!OffLeavesNothing' BY <1>3, <1>4, <1>6, RunFields DEF Runs!OffLeavesNothing
<1>11. Runs!RememberedRunsCompleted'
  BY <1>2, <1>3, <1>4, <1>5, <1>7, RunFields DEF Runs!RememberedRunsCompleted
<1>12. Runs!TypeOK' BY <1>8, RunTypedNext
<1> QED BY <1>3, <1>9, <1>10, <1>11, <1>12, RunFields DEF RunInv, Runs!RunMemorySafe

LEMMA RunSaveWorking ==
  ASSUME RunInv, NEW j \in Sessions, NEW stored \in BOOLEAN, Runs!SaveWorking(j, stored)
  PROVE  RunInv'
<1>1. PICK x : x = [rJob[j] EXCEPT !.op = "end"] OBVIOUS
<1>2. /\ x \in RunJobs /\ x.op = "end" /\ x.kind = rJob[j].kind /\ x.remember = rJob[j].remember
  BY <1>1, RunFields DEF RunJobs
<1>3. /\ rJob' = [rJob EXCEPT ![j] = x] /\ rJob[j].op = "remember"
      /\ UNCHANGED <<rEnabled, rSkill, rSwitches, rExecution, rEpisode, rOff>>
      /\ rWorking' = rWorking \/ (rWorking' = rWorking \cup {j} /\ rJob[j].remember)
  BY <1>1 DEF Runs!SaveWorking, Runs!Ends, Runs!Goes
<1>4. rJob'[j] = x /\ \A k \in Sessions \ {j} : rJob'[k] = rJob[k] BY <1>3, RunFields DEF RunTypes
<1>5. j \in rOff => rWorking' = rWorking BY <1>3, RunFields DEF RunJob
<1>6. rJob[j].kind = "skill" => rExecution[j].status = "COMPLETED" BY <1>3, RunFields DEF RunJob
<1>7. RunTypes' BY <1>2, <1>3, RunFields DEF RunTypes
<1>8. \A k \in Sessions : RunJob(k, rJob[k])'
  <2>1. RunJob(j, rJob[j])' BY <1>2, <1>3, <1>4, RunFields DEF RunJob
  <2>2. \A k \in Sessions \ {j} : RunJob(k, rJob[k])' BY <1>3, <1>4, RunFields DEF RunJob
  <2> QED BY <2>1, <2>2
<1>9. Runs!OffLeavesNothing' BY <1>3, <1>5, RunFields DEF Runs!OffLeavesNothing
<1>10. Runs!RememberedRunsCompleted'
  BY <1>2, <1>3, <1>4, <1>6, RunFields DEF Runs!RememberedRunsCompleted
<1>11. Runs!TypeOK' BY <1>7, RunTypedNext
<1> QED BY <1>3, <1>8, <1>9, <1>10, <1>11, RunFields DEF RunInv, Runs!RunMemorySafe

LEMMA RunFail ==
  ASSUME RunInv, NEW j \in Sessions, NEW written \in BOOLEAN, Runs!Fail(j, written)
  PROVE  RunInv'
<1>1. PICK x : x = [rJob[j] EXCEPT !.op = "end"] OBVIOUS
<1>2. /\ x \in RunJobs /\ x.op = "end" /\ x.kind = rJob[j].kind /\ x.remember = rJob[j].remember
  BY <1>1, RunFields DEF RunJobs
<1>3. PICK e : e = IF written THEN [rExecution[j] EXCEPT !.status = "FAILED"] ELSE rExecution[j]
  OBVIOUS
<1>4. e \in RunRows /\ (~written => e = rExecution[j]) BY <1>3, RunFields DEF RunRows
<1>5. /\ rJob' = [rJob EXCEPT ![j] = x] /\ rJob[j].op \notin {"idle", "end"}
      /\ rExecution' = [rExecution EXCEPT ![j] = e]
      /\ written => rJob[j].op \in {"running", "answered"}
      /\ UNCHANGED <<rEnabled, rSkill, rSwitches, rEpisode, rWorking, rOff>>
  BY <1>1, <1>3, RunFields DEF Runs!Fail, Runs!Ends, Runs!Goes, RunTypes
<1>6. written => j \notin rWorking /\ \A q \in RunIds : rEpisode[q] # j BY <1>5, RunRemembered
<1>7. x.kind = "skill" /\ (j \in rWorking \/ \E r \in RunIds : rEpisode[r] = j)
        => e.status = "COMPLETED"
  BY <1>2, <1>4, <1>6, RunFields DEF Runs!RememberedRunsCompleted
<1>8. RunJob(j, x)' BY <1>2, <1>5, RunFields DEF RunJob
<1> QED BY <1>2, <1>4, <1>5, <1>7, <1>8, RunGoes

LEMMA RunStep == RunInv /\ [Runs!Next]_(Runs!vars) => RunInv'
<1> SUFFICES ASSUME RunInv, Runs!Next PROVE RunInv' BY RunKept
<1> QED
  BY RunSwitchMemory, RunSwitchSkill, RunForgetEpisode, RunLoadContext, RunMatch, RunBegin,
     RunComplete, RunCompose, RunReadPolicy, RunWriteEpisode, RunSaveWorking, RunFail
     DEF Runs!Next

LEMMA RunMoves == [MCNext]_allVars => [Runs!Next]_(Runs!vars)
BY DEF MCNext, allVars, UpkeepVars, WorkingVars, TalkVars, RunsVars, vars, Runs!vars

----------------------------------------------------------------------------
(* The composite: what has not the focus keeps its state, so every part    *)
(* keeps its invariant.                                                    *)

MemoryInv == UpkInv /\ WrkInv /\ TalInv /\ RunInv

LEMMA MemoryAlways == MCSpec => []MemoryInv
<1>1. MCInit => MemoryInv
  BY UpkInit, WrkInit, TalInit, RunInit DEF MCInit, MemoryInv
<1>2. MemoryInv /\ [MCNext]_allVars => MemoryInv'
  <2> SUFFICES ASSUME MemoryInv, [MCNext]_allVars PROVE MemoryInv' OBVIOUS
  <2>1. UpkInv' BY UpkMoves, UpkStep DEF MemoryInv
  <2>2. WrkInv' BY WrkMoves, WrkStep DEF MemoryInv
  <2>3. TalInv' BY TalMoves, TalStep DEF MemoryInv
  <2>4. RunInv' BY RunMoves, RunStep DEF MemoryInv
  <2> QED BY <2>1, <2>2, <2>3, <2>4 DEF MemoryInv
<1> QED BY <1>1, <1>2, PTL DEF MCSpec

(* Maintenance never drops the copy of a record that can be recalled, and  *)
(* a COMPLETED task has dropped every copy it wrote an event for, for any  *)
(* number of workers, tasks and records (scheduler.py, jobs.py).           *)
THEOREM MaintenanceIsSafe == MCSpec => []MaintainSafe
<1>1. MemoryInv => MaintainSafe BY DEF MemoryInv, UpkInv, MaintainSafe
<1> QED BY <1>1, MemoryAlways, PTL

(* A purge finds every working key but for the three losses the module     *)
(* names, whatever saves, closes and purges overlap and wherever one       *)
(* breaks off (working.py, deletion.py).                                   *)
THEOREM WorkingKeysAreFound == MCSpec => []WorkingSafe
<1>1. MemoryInv => WorkingSafe BY DEF MemoryInv, WrkInv, WorkingSafe
<1> QED BY <1>1, MemoryAlways, PTL

(* The context of a conversation stays with its owner, and what was        *)
(* cleared is not used again, whatever questions and clears overlap        *)
(* (scenario_services.py, chatbi/memory.py).                               *)
THEOREM ConversationsAreSafe == MCSpec => []ConversationSafe
<1>1. MemoryInv => ConversationSafe BY TalSafe DEF MemoryInv, ConversationSafe
<1> QED BY <1>1, MemoryAlways, PTL

(* A run that began and ended with memory off leaves nothing in it, and    *)
(* what a skill remembers was completed, however often memory and skill    *)
(* are switched (skills/runtime.py, composite.py).                         *)
THEOREM RunsRememberSafely == MCSpec => []RunMemorySafe
<1>1. MemoryInv => RunMemorySafe BY DEF MemoryInv, RunInv, RunMemorySafe
<1> QED BY <1>1, MemoryAlways, PTL

=============================================================================
