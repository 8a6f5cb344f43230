---------------------------- MODULE SQLBotProofs ----------------------------
(***************************************************************************)
(* RuntimeSafe and SQLBotAnswersAreGuarded of SQLBotRuntime for any number *)
(* of questions and sessions, every mode and every threshold.              *)
(*                                                                         *)
(* One probe per window: after the window only the mark of a probe stands  *)
(* between the breaker and a second one, and whatever clears that mark, a  *)
(* success or a failure of a call that began earlier, ends the window too, *)
(* since the failures are still counted up to the threshold (BreakerInv).  *)
(* Two rebuilds: one for each of the two attempts (JobInv).                *)
(***************************************************************************)
EXTENDS SQLBotRuntime, TLAPS

Calling == {"creating", "recreating", "asking"}
Ended   == {"answered", "refused"}
Binding == {"new", "session", "creating", "rebuild", "recreating"}
Engines == {"SHADOW", "CANARY", "SQLBOT_ENABLED", "SCOPED_STABLE"}

Row(n) == [pc : Steps, session : 0 .. n, using : 0 .. n, attempt : 1 .. 2,
           rebuilds : 0 .. 2, exact : BOOLEAN, sql : {"none", "good", "bad", "unparsed"},
           engine : {"none", "sqlbot", "deterministic"}]

BreakerInv ==
  /\ breaker.opened # "no" => breaker.failures = Threshold
  /\ breaker.opened # "due" => ~breaker.half /\ probes = 0
  /\ breaker.opened = "due" => probes = IF breaker.half THEN 1 ELSE 0

(* A question has no engine before it ends and is only executed guarded.   *)
(* An attempt is spared a rebuild as long as it uses the session the       *)
(* question began with; this is why there are two at most (TypeOK).        *)
JobInv(x) ==
  /\ x.pc = "execute" => x.sql = "good"
  /\ x.pc \notin Ended => x.engine = "none"
  /\ x.pc \notin Ended \cup {"new"} => settings.mode \in Engines
  /\ x.engine = "sqlbot" => x.sql = "good" /\ settings.mode \in Engines \ {"SHADOW"}
  /\ x.pc \in Binding => x.using = x.session
  /\ x.rebuilds <= IF x.using = x.session THEN x.attempt - 1 ELSE x.attempt

JobsInv == \A r \in Requests : JobInv(job[r])

RuntimeInv == TypeOK /\ BreakerInv /\ ProbeIsUnderWay /\ JobsInv

----------------------------------------------------------------------------
(* The breaker.                                                            *)

BreakerType ==
  /\ breaker \in [failures : 0 .. Threshold, opened : {"no", "open", "due"}, half : BOOLEAN]
  /\ probes \in 0 .. 2

LEMMA SuccessCloses ==
  ASSUME RecordSuccess
  PROVE  BreakerType' /\ BreakerInv' /\ ~breaker'.half
BY RuntimeAssumption DEF RecordSuccess, Closed, BreakerType, BreakerInv

LEMMA FailureCounts ==
  ASSUME BreakerType, BreakerInv, RecordFailure
  PROVE  BreakerType' /\ BreakerInv' /\ ~breaker'.half
<1> DEFINE n == IF breaker.failures < Threshold THEN breaker.failures + 1 ELSE Threshold
<1>1. n \in 0 .. Threshold /\ (breaker.failures = Threshold => n = Threshold)
  BY RuntimeAssumption DEF BreakerType
<1>2. /\ breaker' = [failures |-> n, half |-> FALSE,
                     opened |-> IF n = Threshold THEN "open" ELSE breaker.opened]
      /\ probes' = IF n = Threshold THEN 0 ELSE probes
  BY DEF RecordFailure
<1> HIDE DEF n
<1> QED
  BY <1>1, <1>2 DEF BreakerType, BreakerInv

LEMMA CallPasses ==
  ASSUME BreakerType, BreakerInv, BeforeCall
  PROVE  BreakerType' /\ BreakerInv'
<1>1. /\ breaker.opened \in {"no", "open", "due"} /\ breaker.half \in BOOLEAN
      /\ breaker.failures \in 0 .. Threshold /\ probes \in 0 .. 2
  BY DEF BreakerType
<1>2. CASE breaker.opened = "due"
  <2>1. breaker' = [breaker EXCEPT !.half = (breaker.opened = "due")]
    BY DEF BeforeCall
  <2>2. probes = 0 /\ probes' = 1
    BY <1>2 DEF BeforeCall, LetsThrough, BreakerInv
  <2>3. (breaker.opened = "due") = TRUE
    BY <1>2
  <2>4. breaker' = [breaker EXCEPT !.half = TRUE]
    BY <2>1, <2>3
  <2>5. breaker' = [failures |-> breaker.failures, opened |-> "due", half |-> TRUE]
    BY <1>2, <2>4 DEF BreakerType
  <2>6. breaker' \in [failures : 0 .. Threshold, opened : {"no", "open", "due"}, half : BOOLEAN]
    BY <1>1, <2>5
  <2> QED
    BY <1>1, <1>2, <2>2, <2>5, <2>6 DEF BreakerType, BreakerInv
<1>3. CASE breaker.opened = "no"
  <2>1. breaker' = [breaker EXCEPT !.half = (breaker.opened = "due")]
    BY DEF BeforeCall
  <2>2. probes = 0 /\ probes' = 0
    BY <1>3 DEF BeforeCall, LetsThrough, BreakerInv
  <2>3. (breaker.opened = "due") = FALSE
    BY <1>3
  <2>4. breaker' = [breaker EXCEPT !.half = FALSE]
    BY <2>1, <2>3
  <2>5. breaker' = [failures |-> breaker.failures, opened |-> "no", half |-> FALSE]
    BY <1>3, <2>4 DEF BreakerType
  <2>6. breaker' \in [failures : 0 .. Threshold, opened : {"no", "open", "due"}, half : BOOLEAN]
    BY <1>1, <2>5
  <2> QED
    BY <1>1, <1>3, <2>2, <2>5, <2>6 DEF BreakerType, BreakerInv
<1> QED
  BY <1>2, <1>3 DEF BeforeCall, LetsThrough

----------------------------------------------------------------------------
(* One question moves.                                                     *)

Rest ==
  /\ settings \in [mode : Modes, fallback : BOOLEAN]
  /\ cached \in 0 .. MaxSessions /\ issued \in 0 .. MaxSessions /\ cached <= issued
  /\ lock \in Requests \cup {"free"}
  /\ live \in SUBSET (1 .. issued)

(* The other questions keep what is true of them, whatever is issued.      *)
LEMMA QuestionMoves ==
  ASSUME RuntimeInv, UNCHANGED settings, issued' \in Nat, issued <= issued',
         NEW r \in Requests, NEW x \in Row(issued'), JobInv(x),
         job' = [job EXCEPT ![r] = x],
         BreakerType', BreakerInv', Rest',
         \/ ~breaker'.half \/ x.pc \in Calling
         \/ UNCHANGED breaker /\ job[r].pc \notin Calling
  PROVE  RuntimeInv'
<1>1. job \in [Requests -> Row(issued)] /\ issued \in Nat
  BY RuntimeAssumption DEF RuntimeInv, TypeOK, Row
<1>2. \A q \in Requests : job[q] \in Row(issued')
  BY <1>1 DEF Row
<1>3. job' \in [Requests -> Row(issued')]
  BY <1>1, <1>2
<1>4. \A q \in Requests : job'[q] = IF q = r THEN x ELSE job[q]
  BY <1>1
<1>5. JobsInv'
  BY <1>4 DEF RuntimeInv, JobsInv, JobInv
<1>6. ProbeIsUnderWay'
  BY <1>4 DEF RuntimeInv, ProbeIsUnderWay, Calling
<1>7. TypeOK'
  BY <1>3 DEF TypeOK, Row, BreakerType, Rest
<1> QED
  BY <1>5, <1>6, <1>7 DEF RuntimeInv

(* The row of a question that moves on is typed.                           *)
LEMMA RowOf ==
  ASSUME RuntimeInv, NEW r \in Requests
  PROVE  job[r] \in Row(issued) /\ issued \in Nat /\ JobInv(job[r]) /\ BreakerType /\ Rest
BY RuntimeAssumption DEF RuntimeInv, TypeOK, Row, JobsInv, BreakerType, Rest

LEMMA NewJobType ==
  ASSUME NEW n \in Nat
  PROVE  NewJob \in Row(n)
BY DEF NewJob, Row, Steps

(* The row of r becomes a good one of some step in P.                      *)
Goes(r, n, P) == \E x \in Row(n) : x.pc \in P /\ job' = [job EXCEPT ![r] = x] /\ JobInv(x)

(* The end of a question without an answer of SQLBot.                      *)
Ends(r) == Refused(r) \/ Answered(r, "deterministic")

LEMMA ErrorEnds ==
  ASSUME NEW r \in Requests, EngineError(r)
  PROVE  Ends(r)
BY DEF EngineError, Deterministic, Ends

LEMMA EndedRow ==
  ASSUME RuntimeInv, NEW r \in Requests, NEW n \in Nat, Ends(r)
  PROVE  Goes(r, n, Ended)
<1>1. CASE Refused(r)
  <2> DEFINE x == [NewJob EXCEPT !.pc = "refused"]
  <2>1. x \in Row(n)
    BY NewJobType DEF NewJob, Row, Steps
  <2>2. /\ x.pc = "refused" /\ x.engine = "none" /\ x.rebuilds = 0 /\ x.attempt = 1
        /\ x.session = 0 /\ x.using = 0
    BY DEF NewJob
  <2>3. job' = [job EXCEPT ![r] = x]
    BY <1>1 DEF Refused
  <2> HIDE DEF x
  <2>4. JobInv(x)
    BY <2>2 DEF JobInv, Ended
  <2> QED
    BY <2>1, <2>2, <2>3, <2>4 DEF Goes, Ended
<1>2. CASE Answered(r, "deterministic")
  <2> DEFINE x == [NewJob EXCEPT !.pc = "answered", !.engine = "deterministic", !.sql = "none"]
  <2>1. x \in Row(n)
    BY NewJobType DEF NewJob, Row, Steps
  <2>2. /\ x.pc = "answered" /\ x.engine = "deterministic" /\ x.rebuilds = 0
        /\ x.attempt = 1 /\ x.session = 0 /\ x.using = 0
    BY DEF NewJob
  <2>3. job' = [job EXCEPT ![r] = x]
    BY <1>2 DEF Answered
  <2> HIDE DEF x
  <2>4. JobInv(x)
    BY <2>2 DEF JobInv, Ended
  <2> QED
    BY <2>1, <2>2, <2>3, <2>4 DEF Goes, Ended
<1> QED
  BY <1>1, <1>2 DEF Ends

(* The end with an answer of SQLBot, which only Execute gives.             *)
LEMMA AnsweredRow ==
  ASSUME RuntimeInv, NEW r \in Requests, Answered(r, "sqlbot"), job[r].sql = "good",
         settings.mode \in Engines \ {"SHADOW"}
  PROVE  Goes(r, issued, Ended)
<1> DEFINE x == [NewJob EXCEPT !.pc = "answered", !.engine = "sqlbot", !.sql = "good"]
<1>0. issued \in Nat /\ NewJob \in Row(issued)
  BY RowOf, NewJobType
<1>1. x \in Row(issued)
  BY <1>0 DEF NewJob, Row, Steps
<1>2. /\ x.pc = "answered" /\ x.engine = "sqlbot" /\ x.sql = "good" /\ x.rebuilds = 0
      /\ x.attempt = 1 /\ x.session = 0 /\ x.using = 0
  BY DEF NewJob
<1>3. job' = [job EXCEPT ![r] = x]
  BY DEF Answered
<1> HIDE DEF x
<1>4. JobInv(x)
  BY <1>2 DEF JobInv, Ended
<1> QED
  BY <1>1, <1>2, <1>3, <1>4 DEF Goes, Ended

(* The governed example goes to the guard as the second attempt.           *)
LEMMA GuardedAgain ==
  ASSUME RuntimeInv, NEW r \in Requests, NEW sql \in {"good", "bad"},
         job[r].pc \notin Ended \cup {"new"},
         job' = [job EXCEPT ![r].pc = "guard", ![r].attempt = 2, ![r].sql = sql]
  PROVE  Goes(r, issued, {"guard"})
<1>1. PICK y \in Row(issued) : y = job[r] /\ JobInv(y)
  BY RowOf
<1>2. /\ issued \in Nat /\ cached \in 0 .. issued /\ y \in Row(issued)
  BY <1>1, RowOf DEF Rest
<1> DEFINE x == [y EXCEPT !.pc = "guard", !.attempt = 2, !.sql = sql]
<1>3. "guard" \in Steps /\ 2 \in 1 .. 2 /\ sql \in {"none", "good", "bad", "unparsed"}
  BY <1>1, <1>2 DEF Row, Steps
<1>4. \A c \in Steps, a \in 1 .. 2, q \in {"none", "good", "bad", "unparsed"} :
        [y EXCEPT !.pc = c, !.attempt = a, !.sql = q] \in Row(issued)
  BY <1>2 DEF Row
<1>5. x \in Row(issued)
  BY <1>3, <1>4
<1>6. /\ x.pc = "guard" /\ x.session = y.session /\ x.using = y.using /\ x.attempt = 2
      /\ x.rebuilds = y.rebuilds /\ x.sql = sql /\ x.engine = y.engine
  BY <1>2 DEF Row
<1>7. job' = [job EXCEPT ![r] = x]
  BY <1>1
<1> HIDE DEF x
<1>8. JobInv(x)
  BY <1>1, <1>2, <1>3, <1>6 DEF JobInv, Row, Ended, Binding, Engines
<1> QED
  BY <1>5, <1>6, <1>7, <1>8 DEF Goes, Calling

(* A failed generation ends the question or goes to the guard.             *)
LEMMA FailedRow ==
  ASSUME RuntimeInv, NEW r \in Requests, NEW transport \in BOOLEAN, AskFailed(r, transport),
         job[r].pc \notin Ended \cup {"new"}
  PROVE  Goes(r, issued, Ended \cup {"guard"})
<1>1. CASE EngineError(r)
  BY <1>1, RowOf, ErrorEnds, EndedRow DEF Goes
<1>2. ASSUME NEW sql \in {"good", "bad"},
             job' = [job EXCEPT ![r].pc = "guard", ![r].attempt = 2, ![r].sql = sql]
      PROVE  Goes(r, issued, Ended \cup {"guard"})
  <2>1. Goes(r, issued, {"guard"})
    BY <1>2, GuardedAgain
  <2> QED
    BY <2>1 DEF Goes
<1> QED
  BY <1>1, <1>2 DEF AskFailed

(* A question the engine takes.                                            *)
LEMMA Opened ==
  ASSUME RuntimeInv, NEW r \in Requests, NEW exact \in BOOLEAN, At(r, "new"),
         settings.mode \in Engines,
         job' = [job EXCEPT ![r].pc = "session", ![r].exact = exact]
  PROVE  Goes(r, issued, {"session"})
<1>1. PICK y \in Row(issued) : y = job[r] /\ JobInv(y)
  BY RowOf
<1>2. /\ issued \in Nat /\ cached \in 0 .. issued /\ y \in Row(issued)
  BY <1>1, RowOf DEF Rest
<1> DEFINE x == [y EXCEPT !.pc = "session", !.exact = exact]
<1>3. "session" \in Steps /\ exact \in BOOLEAN
  BY <1>1, <1>2 DEF Row, Steps
<1>4. \A c \in Steps, e \in BOOLEAN :
        [y EXCEPT !.pc = c, !.exact = e] \in Row(issued)
  BY <1>2 DEF Row
<1>5. x \in Row(issued)
  BY <1>3, <1>4
<1>6. /\ x.pc = "session" /\ x.session = y.session /\ x.using = y.using /\ x.attempt = y.attempt
      /\ x.rebuilds = y.rebuilds /\ x.sql = y.sql /\ x.engine = y.engine
  BY <1>2 DEF Row
<1>7. job' = [job EXCEPT ![r] = x]
  BY <1>1
<1> HIDE DEF x
<1>8. JobInv(x)
  BY <1>1, <1>2, <1>3, <1>6 DEF At, JobInv, Row, Ended, Binding, Engines
<1> QED
  BY <1>5, <1>6, <1>7, <1>8 DEF Goes, Calling

(* A question goes on to its next step.                                    *)
LEMMA GoesOn ==
  ASSUME RuntimeInv, NEW r \in Requests, NEW pc \in Steps \ (Ended \cup {"new"}), Goto(r, pc),
         job[r].pc \notin Ended \cup {"new"}, pc \in Binding => job[r].using = job[r].session,
         pc = "execute" => job[r].sql = "good"
  PROVE  Goes(r, issued, {pc})
<1>1. PICK y \in Row(issued) : y = job[r] /\ JobInv(y)
  BY RowOf
<1>2. /\ issued \in Nat /\ cached \in 0 .. issued /\ y \in Row(issued)
  BY <1>1, RowOf DEF Rest
<1> DEFINE x == [y EXCEPT !.pc = pc]
<1>3. pc \in Steps
  BY <1>1, <1>2 DEF Row, Steps
<1>4. \A c \in Steps :
        [y EXCEPT !.pc = c] \in Row(issued)
  BY <1>2 DEF Row
<1>5. x \in Row(issued)
  BY <1>3, <1>4
<1>6. /\ x.pc = pc /\ x.session = y.session /\ x.using = y.using /\ x.attempt = y.attempt
      /\ x.rebuilds = y.rebuilds /\ x.sql = y.sql /\ x.engine = y.engine
  BY <1>2 DEF Row
<1>7. job' = [job EXCEPT ![r] = x]
  BY <1>1 DEF Goto
<1> HIDE DEF x
<1>8. JobInv(x)
  BY <1>1, <1>2, <1>3, <1>6 DEF JobInv, Row, Ended, Binding, Engines
<1> QED
  BY <1>5, <1>6, <1>7, <1>8 DEF Goes, Calling

(* The cached session is the one the question begins with.                 *)
LEMMA CachedTaken ==
  ASSUME RuntimeInv, NEW r \in Requests, At(r, "session"),
         job' = [job EXCEPT ![r].pc = "ask", ![r].session = cached, ![r].using = cached]
  PROVE  Goes(r, issued, {"ask"})
<1>1. PICK y \in Row(issued) : y = job[r] /\ JobInv(y)
  BY RowOf
<1>2. /\ issued \in Nat /\ cached \in 0 .. issued /\ y \in Row(issued)
  BY <1>1, RowOf DEF Rest
<1> DEFINE x == [y EXCEPT !.pc = "ask", !.session = cached, !.using = cached]
<1>3. "ask" \in Steps /\ cached \in 0 .. issued /\ cached \in 0 .. issued
  BY <1>1, <1>2 DEF Row, Steps
<1>4. \A c \in Steps, s \in 0 .. issued, u \in 0 .. issued :
        [y EXCEPT !.pc = c, !.session = s, !.using = u] \in Row(issued)
  BY <1>2 DEF Row
<1>5. x \in Row(issued)
  BY <1>3, <1>4
<1>6. /\ x.pc = "ask" /\ x.session = cached /\ x.using = cached /\ x.attempt = y.attempt
      /\ x.rebuilds = y.rebuilds /\ x.sql = y.sql /\ x.engine = y.engine
  BY <1>2 DEF Row
<1>7. job' = [job EXCEPT ![r] = x]
  BY <1>1
<1> HIDE DEF x
<1>8. JobInv(x)
  BY <1>1, <1>2, <1>3, <1>6 DEF At, JobInv, Row, Ended, Binding, Engines
<1> QED
  BY <1>5, <1>6, <1>7, <1>8 DEF Goes, Calling

(* A statement comes back.                                                 *)
LEMMA StatementRead ==
  ASSUME RuntimeInv, NEW r \in Requests, At(r, "asking"), NEW sql \in {"good", "bad", "unparsed"},
         job' = [job EXCEPT ![r].pc = "guard", ![r].sql = sql]
  PROVE  Goes(r, issued, {"guard"})
<1>1. PICK y \in Row(issued) : y = job[r] /\ JobInv(y)
  BY RowOf
<1>2. /\ issued \in Nat /\ cached \in 0 .. issued /\ y \in Row(issued)
  BY <1>1, RowOf DEF Rest
<1> DEFINE x == [y EXCEPT !.pc = "guard", !.sql = sql]
<1>3. "guard" \in Steps /\ sql \in {"none", "good", "bad", "unparsed"}
  BY <1>1, <1>2 DEF Row, Steps
<1>4. \A c \in Steps, q \in {"none", "good", "bad", "unparsed"} :
        [y EXCEPT !.pc = c, !.sql = q] \in Row(issued)
  BY <1>2 DEF Row
<1>5. x \in Row(issued)
  BY <1>3, <1>4
<1>6. /\ x.pc = "guard" /\ x.session = y.session /\ x.using = y.using /\ x.attempt = y.attempt
      /\ x.rebuilds = y.rebuilds /\ x.sql = sql /\ x.engine = y.engine
  BY <1>2 DEF Row
<1>7. job' = [job EXCEPT ![r] = x]
  BY <1>1
<1> HIDE DEF x
<1>8. JobInv(x)
  BY <1>1, <1>2, <1>3, <1>6 DEF At, JobInv, Row, Ended, Binding, Engines
<1> QED
  BY <1>5, <1>6, <1>7, <1>8 DEF Goes, Calling

(* The repair with the governed example.                                   *)
LEMMA Exampled ==
  ASSUME RuntimeInv, NEW r \in Requests, NEW sql \in {"good", "bad"}, RepairWithExample(r, sql)
  PROVE  Goes(r, issued, {"guard"})
<1>1. PICK y \in Row(issued) : y = job[r] /\ JobInv(y)
  BY RowOf
<1>2. /\ issued \in Nat /\ cached \in 0 .. issued /\ y \in Row(issued)
  BY <1>1, RowOf DEF Rest
<1> DEFINE x == [y EXCEPT !.attempt = 2, !.sql = sql]
<1>3. 2 \in 1 .. 2 /\ sql \in {"none", "good", "bad", "unparsed"}
  BY <1>1, <1>2 DEF Row, Steps
<1>4. \A a \in 1 .. 2, q \in {"none", "good", "bad", "unparsed"} :
        [y EXCEPT !.attempt = a, !.sql = q] \in Row(issued)
  BY <1>2 DEF Row
<1>5. x \in Row(issued)
  BY <1>3, <1>4
<1>6. /\ x.pc = y.pc /\ x.session = y.session /\ x.using = y.using /\ x.attempt = 2
      /\ x.rebuilds = y.rebuilds /\ x.sql = sql /\ x.engine = y.engine
  BY <1>2 DEF Row
<1>7. job' = [job EXCEPT ![r] = x]
  BY <1>1 DEF RepairWithExample
<1> HIDE DEF x
<1>8. JobInv(x)
  BY <1>1, <1>2, <1>3, <1>6 DEF RepairWithExample, First, At, JobInv, Row, Ended, Binding, Engines
<1>9. x.pc = "guard"
  BY <1>1, <1>6 DEF RepairWithExample, First, At
<1> QED
  BY <1>9, <1>5, <1>6, <1>7, <1>8 DEF Goes

(* The repair in the session the question began with.                      *)
LEMMA Asked ==
  ASSUME RuntimeInv, NEW r \in Requests, RepairByAsking(r)
  PROVE  Goes(r, issued, {"ask"})
<1>1. PICK y \in Row(issued) : y = job[r] /\ JobInv(y)
  BY RowOf
<1>2. /\ issued \in Nat /\ cached \in 0 .. issued /\ y \in Row(issued)
  BY <1>1, RowOf DEF Rest
<1> DEFINE x == [y EXCEPT !.attempt = 2, !.pc = "ask", !.using = y.session]
<1>3. 2 \in 1 .. 2 /\ "ask" \in Steps /\ y.session \in 0 .. issued
  BY <1>1, <1>2 DEF Row, Steps
<1>4. \A a \in 1 .. 2, c \in Steps, u \in 0 .. issued :
        [y EXCEPT !.attempt = a, !.pc = c, !.using = u] \in Row(issued)
  BY <1>2 DEF Row
<1>5. x \in Row(issued)
  BY <1>3, <1>4
<1>6. /\ x.pc = "ask" /\ x.session = y.session /\ x.using = y.session /\ x.attempt = 2
      /\ x.rebuilds = y.rebuilds /\ x.sql = y.sql /\ x.engine = y.engine
  BY <1>2 DEF Row
<1>7. job' = [job EXCEPT ![r] = x]
  BY <1>1 DEF RepairByAsking
<1> HIDE DEF x
<1>8. JobInv(x)
  BY <1>1, <1>2, <1>3, <1>6 DEF RepairByAsking, First, At, JobInv, Row, Ended, Binding, Engines
<1> QED
  BY <1>5, <1>6, <1>7, <1>8 DEF Goes, Calling

(* The session the upstream issues is the one the request asks with, and   *)
(* the one it began with unless it had one.                                *)
LEMMA CreatedRow ==
  ASSUME RuntimeInv, NEW r \in Requests, Created(r)
  PROVE  Goes(r, issued + 1, {"ask"})
<1>1. PICK y \in Row(issued) : y = job[r] /\ JobInv(y)
  BY RowOf
<1>2. PICK n \in Nat : n = issued + 1
  BY RowOf
<1>3. y \in Row(n) /\ n \in 0 .. n /\ y.session \in 0 .. issued /\ y.session # n
  BY <1>1, <1>2, RowOf DEF Row
<1>4. \A c \in Steps, u, s \in 0 .. n, b \in 0 .. 2 :
        [y EXCEPT !.pc = c, !.using = u, !.session = s, !.rebuilds = b] \in Row(n)
  BY <1>3 DEF Row
<1>5. CASE At(r, "creating")
  <2> DEFINE x == [y EXCEPT !.pc = "ask", !.using = n, !.session = n, !.rebuilds = y.rebuilds]
  <2>1. "ask" \in Steps /\ y.rebuilds \in 0 .. 2
    BY <1>3 DEF Row, Steps
  <2>2. x \in Row(n)
    BY <1>3, <1>4, <2>1
  <2>3. /\ x.pc = "ask" /\ x.using = n /\ x.session = n /\ x.rebuilds = y.rebuilds
        /\ x.attempt = y.attempt /\ x.sql = y.sql /\ x.engine = y.engine
    BY <1>3 DEF Row
  <2>4. job' = [job EXCEPT ![r] = x]
    BY <1>1, <1>2, <1>5 DEF Created, At
  <2> HIDE DEF x
  <2>5. JobInv(x)
    BY <1>1, <1>5, <2>3 DEF At, JobInv, Ended, Binding
  <2> QED
    BY <1>2, <2>2, <2>3, <2>4, <2>5 DEF Goes
<1>6. CASE At(r, "recreating")
  <2> DEFINE x == [y EXCEPT !.pc = "ask", !.using = n, !.session = y.session,
                            !.rebuilds = y.rebuilds + 1]
  <2>1. /\ "ask" \in Steps /\ y.session \in 0 .. n /\ y.rebuilds \in 0 .. 2
        /\ y.attempt \in 1 .. 2 /\ y.rebuilds <= y.attempt - 1 /\ y.rebuilds + 1 \in 0 .. 2
    BY <1>1, <1>3, <1>6 DEF Row, Steps, At, JobInv, Binding
  <2>2. x \in Row(n)
    BY <1>3, <1>4, <2>1
  <2>3. /\ x.pc = "ask" /\ x.using = n /\ x.session = y.session /\ x.rebuilds = y.rebuilds + 1
        /\ x.attempt = y.attempt /\ x.sql = y.sql /\ x.engine = y.engine
    BY <1>3 DEF Row
  <2>4. job' = [job EXCEPT ![r] = x]
    BY <1>1, <1>2, <1>6 DEF Created, At
  <2> HIDE DEF x
  <2>5. JobInv(x)
    BY <1>1, <1>3, <1>6, <2>1, <2>3 DEF At, JobInv, Ended, Binding
  <2> QED
    BY <1>2, <2>2, <2>3, <2>4, <2>5 DEF Goes
<1> QED
  BY <1>5, <1>6 DEF Created

----------------------------------------------------------------------------
(* The invariant.                                                          *)

Quiet == UNCHANGED <<settings, breaker, cached, lock, issued, live, probes>>

(* A step of one question that is on no call and makes none.               *)
LEMMA QuietMoves ==
  ASSUME RuntimeInv, NEW r \in Requests, NEW P, Quiet, Goes(r, issued, P),
         job[r].pc \notin Calling
  PROVE  RuntimeInv'
<1>1. PICK x \in Row(issued) : job' = [job EXCEPT ![r] = x] /\ JobInv(x)
  BY DEF Goes
<1>2. issued \in Nat /\ BreakerType /\ Rest /\ BreakerInv
  BY RowOf DEF RuntimeInv
<1>3. BreakerType' /\ Rest' /\ BreakerInv'
  BY <1>2 DEF Quiet, BreakerType, Rest, BreakerInv
<1>4. /\ UNCHANGED settings /\ UNCHANGED breaker /\ issued' = issued
      /\ issued' \in Nat /\ issued <= issued' /\ x \in Row(issued')
  BY <1>2 DEF Quiet
<1> QED
  BY <1>1, <1>3, <1>4, QuestionMoves

(* A step on an upstream call: the breaker has let it through, has         *)
(* refused it, or counts its outcome.                                      *)
LEMMA CallMoves ==
  ASSUME RuntimeInv, NEW r \in Requests, NEW P, NEW n \in Nat, issued' = n, issued <= n,
         UNCHANGED settings, Rest', Goes(r, n, P),
         \/ BeforeCall /\ P \subseteq Calling
         \/ Refuses /\ job[r].pc \notin Calling
         \/ RecordSuccess \/ RecordFailure
  PROVE  RuntimeInv'
<1>1. PICK x \in Row(n) : x.pc \in P /\ job' = [job EXCEPT ![r] = x] /\ JobInv(x)
  BY DEF Goes
<1>2. BreakerType /\ BreakerInv
  BY RowOf DEF RuntimeInv
<1>3. CASE BeforeCall /\ P \subseteq Calling
  BY <1>1, <1>2, <1>3, CallPasses, QuestionMoves
<1>4. CASE Refuses /\ job[r].pc \notin Calling
  <2>1. UNCHANGED breaker /\ BreakerType' /\ BreakerInv'
    BY <1>2, <1>4 DEF Refuses, BreakerType, BreakerInv
  <2> QED
    BY <1>1, <1>4, <2>1, QuestionMoves
<1>5. CASE RecordSuccess \/ RecordFailure
  <2>1. BreakerType' /\ BreakerInv' /\ ~breaker'.half
    BY <1>2, <1>5, SuccessCloses, FailureCounts
  <2> QED
    BY <1>1, <2>1, QuestionMoves
<1> QED
  BY <1>3, <1>4, <1>5

LEMMA RuntimeInit == Init => RuntimeInv
<1> SUFFICES ASSUME Init PROVE RuntimeInv
  OBVIOUS
<1>1. \A r \in Requests : job[r] = NewJob
  BY DEF Init
<1>2. job \in [Requests -> Row(0)]
  BY NewJobType DEF Init
<1>3. TypeOK
  BY <1>2, RuntimeAssumption DEF Init, TypeOK, Row, Closed
<1>4. BreakerInv /\ ProbeIsUnderWay
  BY DEF Init, Closed, BreakerInv, ProbeIsUnderWay
<1>5. JobsInv
  BY <1>1 DEF NewJob, JobsInv, JobInv, Ended, Binding
<1> QED
  BY <1>3, <1>4, <1>5 DEF RuntimeInv

(* One case per action.                                                    *)
LEMMA RuntimeStep ==
  ASSUME RuntimeInv, [Next]_vars
  PROVE  RuntimeInv'
<1>0. Rest /\ issued \in Nat
  BY RuntimeAssumption DEF RuntimeInv, TypeOK, Rest
<1>1. ASSUME NEW r \in Requests, NEW supported \in BOOLEAN, NEW eligible \in BOOLEAN,
             NEW exact \in BOOLEAN, Start(r, supported, eligible, exact)
      PROVE  RuntimeInv'
  <2>1. Quiet /\ At(r, "new") /\ job[r].pc \notin Calling
    BY <1>1 DEF Start, Quiet, At, Calling
  <2>2. CASE Ends(r)
    BY <1>0, <2>1, <2>2, EndedRow, QuietMoves
  <2>3. CASE /\ settings.mode \in Engines
             /\ job' = [job EXCEPT ![r].pc = "session", ![r].exact = exact]
    BY <2>1, <2>3, Opened, QuietMoves
  <2>4. settings.mode \in Modes
    BY DEF RuntimeInv, TypeOK
  <2> QED
    BY <1>1, <2>2, <2>3, <2>4, RuntimeAssumption DEF Start, Deterministic, Ends, Engines
<1>2. ASSUME NEW r \in Requests, Reject(r)
      PROVE  RuntimeInv'
  <2>1. Quiet /\ EngineError(r) /\ job[r].pc \notin Calling
    BY <1>2 DEF Reject, Quiet, At, Calling
  <2> QED
    BY <1>0, <2>1, ErrorEnds, EndedRow, QuietMoves
<1>3. ASSUME NEW r \in Requests, TakeCached(r)
      PROVE  RuntimeInv'
  <2>1. Quiet /\ At(r, "session") /\ job[r].pc \notin Calling
    BY <1>3 DEF TakeCached, Quiet, At, Calling
  <2> QED
    BY <1>3, <2>1, CachedTaken, QuietMoves DEF TakeCached
<1>4. ASSUME NEW r \in Requests, CreateCall(r)
      PROVE  RuntimeInv'
  <2>1. /\ UNCHANGED settings /\ issued' = issued
        /\ job[r].pc \notin Calling /\ job[r].pc \notin Ended \cup {"new"}
    BY <1>4 DEF CreateCall, At, Calling, Ended
  <2>2. CASE /\ BeforeCall /\ lock' = r
             /\ Goto(r, IF At(r, "session") THEN "creating" ELSE "recreating")
    <3>1. PICK pc \in {"creating", "recreating"} : Goto(r, pc)
      BY <2>2
    <3>2. job[r].using = job[r].session
      BY <1>4, RowOf DEF CreateCall, At, JobInv, Binding
    <3>3. Goes(r, issued, {pc}) /\ {pc} \subseteq Calling
      BY <2>1, <3>1, <3>2, GoesOn DEF Steps, Ended, Calling
    <3>4. Rest'
      BY <1>0, <1>4, <2>2 DEF CreateCall, Rest
    <3> QED
      BY <1>0, <2>1, <2>2, <3>3, <3>4, CallMoves
  <2>3. CASE Refuses /\ UNCHANGED lock /\ (EngineError(r) \/ AskFailed(r, TRUE))
    <3>1. Goes(r, issued, Ended \cup {"guard"})
      <4>1. CASE EngineError(r)
        BY <1>0, <4>1, ErrorEnds, EndedRow DEF Goes
      <4>2. CASE AskFailed(r, TRUE)
        BY <2>1, <4>2, FailedRow
      <4> QED
        BY <2>3, <4>1, <4>2
    <3>2. Rest'
      BY <1>0, <1>4, <2>3 DEF CreateCall, Rest
    <3> QED
      BY <1>0, <2>1, <2>3, <3>1, <3>2, CallMoves
  <2> QED
    BY <1>4, <2>2, <2>3 DEF CreateCall
<1>5. ASSUME NEW r \in Requests, Created(r) \/ BindFails(r)
      PROVE  RuntimeInv'
  <2>1. PICK n \in Nat : n = issued + 1
    BY <1>0
  <2>2. /\ UNCHANGED settings /\ RecordSuccess /\ issued' = n /\ issued <= n
        /\ issued < MaxSessions /\ cached' = n /\ live' = live \cup {n} /\ lock' = "free"
    BY <1>0, <1>5, <2>1 DEF Created, BindFails
  <2>3. Rest'
    BY <1>0, <2>1, <2>2, RuntimeAssumption DEF Rest
  <2>4. CASE Created(r)
    BY <2>1, <2>2, <2>3, <2>4, CreatedRow, CallMoves
  <2>5. CASE BindFails(r)
    <3>1. Goes(r, n, Ended)
      BY <2>5, EndedRow DEF BindFails, Ends
    <3> QED
      BY <2>2, <2>3, <3>1, CallMoves
  <2> QED
    BY <1>5, <2>4, <2>5
<1>6. ASSUME NEW r \in Requests, CreateFails(r)
      PROVE  RuntimeInv'
  <2>1. /\ UNCHANGED settings /\ issued' = issued /\ (RecordSuccess \/ RecordFailure)
        /\ job[r].pc \notin Ended \cup {"new"}
    BY <1>6 DEF CreateFails, At, Ended
  <2>2. Rest'
    BY <1>0, <1>6 DEF CreateFails, Rest
  <2>3. Goes(r, issued, Ended \cup {"guard"})
    <3>1. CASE EngineError(r)
      BY <1>0, <3>1, ErrorEnds, EndedRow DEF Goes
    <3>2. ASSUME NEW transport \in BOOLEAN, AskFailed(r, transport)
          PROVE  Goes(r, issued, Ended \cup {"guard"})
      BY <2>1, <3>2, FailedRow
    <3> QED
      BY <1>6, <3>1, <3>2 DEF CreateFails
  <2> QED
    BY <1>0, <2>1, <2>2, <2>3, CallMoves
<1>7. ASSUME NEW r \in Requests, AskCall(r)
      PROVE  RuntimeInv'
  <2>1. /\ UNCHANGED settings /\ issued' = issued
        /\ job[r].pc \notin Calling /\ job[r].pc \notin Ended \cup {"new"}
    BY <1>7 DEF AskCall, At, Calling, Ended
  <2>2. Rest'
    BY <1>0, <1>7 DEF AskCall, Rest
  <2>3. CASE BeforeCall /\ Goto(r, "asking")
    <3>1. Goes(r, issued, {"asking"})
      BY <2>1, <2>3, GoesOn DEF Steps, Ended, Binding
    <3> QED
      BY <1>0, <2>1, <2>2, <2>3, <3>1, CallMoves DEF Calling
  <2>4. CASE Refuses /\ AskFailed(r, TRUE)
    <3>1. Goes(r, issued, Ended \cup {"guard"})
      BY <2>1, <2>4, FailedRow
    <3> QED
      BY <1>0, <2>1, <2>2, <2>4, <3>1, CallMoves
  <2> QED
    BY <1>7, <2>3, <2>4 DEF AskCall
<1>8. ASSUME NEW r \in Requests, NEW sql \in {"good", "bad", "unparsed"}, AskOk(r, sql)
      PROVE  RuntimeInv'
  <2>1. UNCHANGED settings /\ issued' = issued /\ RecordSuccess /\ Rest'
    BY <1>0, <1>8 DEF AskOk, Rest
  <2>2. Goes(r, issued, {"guard"})
    BY <1>8, StatementRead DEF AskOk
  <2> QED
    BY <1>0, <2>1, <2>2, CallMoves
<1>9. ASSUME NEW r \in Requests, AskTransportError(r) \/ AskInvalid(r)
      PROVE  RuntimeInv'
  <2>1. /\ UNCHANGED settings /\ issued' = issued /\ RecordFailure /\ Rest'
        /\ job[r].pc = "asking"
    BY <1>0, <1>9 DEF AskTransportError, AskInvalid, At, Rest
  <2>2. CASE Goto(r, "rebuild") /\ job[r].using = job[r].session
    <3>1. Goes(r, issued, {"rebuild"})
      BY <2>1, <2>2, GoesOn DEF Steps, Ended
    <3> QED
      BY <1>0, <2>1, <3>1, CallMoves
  <2>3. ASSUME NEW transport \in BOOLEAN, AskFailed(r, transport)
        PROVE  RuntimeInv'
    <3>1. Goes(r, issued, Ended \cup {"guard"})
      BY <2>1, <2>3, FailedRow DEF Ended
    <3> QED
      BY <1>0, <2>1, <3>1, CallMoves
  <2> QED
    BY <1>9, <2>2, <2>3 DEF AskTransportError, AskInvalid
<1>10. ASSUME NEW r \in Requests, GuardPasses(r)
       PROVE  RuntimeInv'
  <2>1. Quiet /\ job[r].pc = "guard" /\ job[r].sql = "good" /\ Goto(r, "execute")
    BY <1>10 DEF GuardPasses, Quiet, At
  <2>2. Goes(r, issued, {"execute"})
    BY <2>1, GoesOn DEF Steps, Ended, Binding
  <2> QED
    BY <2>1, <2>2, QuietMoves DEF Calling
<1>11. ASSUME NEW r \in Requests, GuardRejects(r)
       PROVE  RuntimeInv'
  <2>1. Quiet /\ EngineError(r) /\ job[r].pc \notin Calling
    BY <1>11 DEF GuardRejects, Quiet, At, Calling
  <2> QED
    BY <1>0, <2>1, ErrorEnds, EndedRow, QuietMoves
<1>12. ASSUME NEW r \in Requests, RepairByAsking(r)
       PROVE  RuntimeInv'
  <2>1. Quiet /\ job[r].pc \notin Calling
    BY <1>12 DEF RepairByAsking, First, Quiet, At, Calling
  <2> QED
    BY <1>12, <2>1, Asked, QuietMoves
<1>13. ASSUME NEW r \in Requests, NEW sql \in {"good", "bad"}, RepairWithExample(r, sql)
       PROVE  RuntimeInv'
  <2>1. Quiet /\ job[r].pc \notin Calling
    BY <1>13 DEF RepairWithExample, First, Quiet, At, Calling
  <2> QED
    BY <1>13, <2>1, Exampled, QuietMoves
<1>14. ASSUME NEW r \in Requests, Execute(r)
       PROVE  RuntimeInv'
  <2>1. Quiet /\ job[r].pc = "execute" /\ job[r].pc \notin Calling
    BY <1>14 DEF Execute, Quiet, At, Calling
  <2>2. CASE Ends(r)
    BY <1>0, <2>1, <2>2, EndedRow, QuietMoves
  <2>3. CASE Answered(r, "sqlbot") /\ settings.mode # "SHADOW"
    <3>1. job[r].sql = "good" /\ settings.mode \in Engines \ {"SHADOW"}
      BY <2>1, <2>3, RowOf DEF JobInv, Ended
    <3> QED
      BY <2>1, <2>3, <3>1, AnsweredRow, QuietMoves
  <2> QED
    BY <1>14, <2>2, <2>3, ErrorEnds DEF Execute, Ends
<1>15. CASE WindowOver
  <2>1. /\ breaker.opened = "open" /\ breaker' = [breaker EXCEPT !.opened = "due"]
        /\ UNCHANGED <<settings, cached, lock, issued, live, probes, job>>
    BY <1>15 DEF WindowOver
  <2>2. breaker \in [failures : 0 .. Threshold, opened : {"no", "open", "due"}, half : BOOLEAN]
    BY DEF RuntimeInv, TypeOK
  <2>3. /\ breaker' \in [failures : 0 .. Threshold, opened : {"no", "open", "due"}, half : BOOLEAN]
        /\ breaker'.failures = breaker.failures /\ breaker'.opened = "due"
        /\ breaker'.half = breaker.half
    BY <2>1, <2>2
  <2>4. BreakerInv' /\ ~breaker'.half
    BY <2>1, <2>3 DEF RuntimeInv, BreakerInv
  <2>5. TypeOK' /\ ProbeIsUnderWay' /\ JobsInv'
    BY <2>1, <2>3, <2>4 DEF RuntimeInv, TypeOK, ProbeIsUnderWay, JobsInv, JobInv
  <2> QED
    BY <2>4, <2>5 DEF RuntimeInv
<1>16. ASSUME NEW s \in 1 .. MaxSessions, Revoke(s)
       PROVE  RuntimeInv'
  <2>1. live' = live \ {s} /\ UNCHANGED <<settings, breaker, cached, lock, issued, probes, job>>
    BY <1>16 DEF Revoke
  <2>2. TypeOK'
    BY <2>1 DEF RuntimeInv, TypeOK
  <2> QED
    BY <2>1, <2>2 DEF RuntimeInv, BreakerInv, ProbeIsUnderWay, JobsInv, JobInv
<1>17. CASE UNCHANGED vars
  BY <1>17 DEF vars, RuntimeInv, TypeOK, BreakerInv, ProbeIsUnderWay, JobsInv, JobInv
<1> QED
  BY <1>1, <1>2, <1>3, <1>4, <1>5, <1>6, <1>7, <1>8, <1>9, <1>10, <1>11, <1>12, <1>13, <1>14,
     <1>15, <1>16, <1>17 DEF Next, Step

LEMMA RuntimeIsInvariant == Spec => []RuntimeInv
BY RuntimeInit, RuntimeStep, PTL DEF Spec

(* The breaker lets one probe through in a window and never waits for one  *)
(* that nobody is making, and every part of the runtime has its type, for  *)
(* any number of questions (health.py, session_manager.py, engine.py).     *)
THEOREM RuntimeIsSafe == Spec => []RuntimeSafe
<1>1. RuntimeInv => RuntimeSafe
  <2> SUFFICES ASSUME RuntimeInv PROVE RuntimeSafe
    OBVIOUS
  <2>1. OneProbePerWindow
    BY DEF RuntimeInv, TypeOK, BreakerInv, OneProbePerWindow
  <2> QED
    BY <2>1 DEF RuntimeInv, RuntimeSafe
<1> QED
  BY <1>1, RuntimeIsInvariant, PTL

(* Whatever path led to it, an answer of SQLBot was guarded and its mode   *)
(* allows it (engine.py, router.py).                                       *)
THEOREM AnswersAreGuarded == Spec => []SQLBotAnswersAreGuarded
<1>1. RuntimeInv => SQLBotAnswersAreGuarded
  BY DEF RuntimeInv, JobsInv, JobInv, Engines, SQLBotAnswersAreGuarded
<1> QED
  BY <1>1, RuntimeIsInvariant, PTL
=============================================================================
