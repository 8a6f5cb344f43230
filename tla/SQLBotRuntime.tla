--------------------------- MODULE SQLBotRuntime ---------------------------
(***************************************************************************)
(* Long-tail questions on their way through EngineRouter and SQLBotEngine: *)
(* the session of a conversation, cached under a lock that is held while a *)
(* new one is requested, the circuit breaker every upstream call passes,   *)
(* the generation, its guard, one repair, the read-only execution and the  *)
(* fallback (query_engines/router.py, sqlbot/engine.py, session_manager.py,*)
(* health.py, client.py).  Session manager, client and breaker are shared  *)
(* by the process, each question has its own engine.                       *)
(*                                                                         *)
(* The requests are one conversation's, so they share a session key.       *)
(* Sessions are numbered in the order the upstream issued them; in the     *)
(* cache this is their generation.  Prompts, rows and timings are left out.*)
(***************************************************************************)
EXTENDS Naturals, FiniteSets

CONSTANTS
  Requests,      \* questions, each asked once
  Modes,         \* QUERY_ENGINE_MODE values of the scenario
  Threshold,     \* failure_threshold of the breaker
  MaxSessions    \* bound: sessions the upstream issues

(* EngineMode (router.py); the breaker refuses a threshold below one.      *)
ASSUME RuntimeAssumption ==
  /\ Modes \subseteq {"DISABLED", "DETERMINISTIC_ONLY", "SHADOW", "CANARY", "SQLBOT_ENABLED",
                      "SCOPED_STABLE"}
  /\ Threshold \in Nat \ {0} /\ MaxSessions \in Nat
  /\ "free" \notin Requests

VARIABLES
  settings,   \* mode and whether the fallback is enabled; fixed at start
  breaker,    \* CircuitState; opened is "due" once the window is over
  cached,     \* the session in the cache, 0 if there is none
  lock,       \* holder of the session manager's lock
  issued,     \* sessions issued so far
  live,       \* those the upstream still accepts
  probes,     \* history: calls let through in this recovery window
  job         \* what each request does

vars == <<settings, breaker, cached, lock, issued, live, probes, job>>

Closed == [failures |-> 0, opened |-> "no", half |-> FALSE]

Steps == {"new", "session", "creating", "ask", "asking", "rebuild", "recreating",
          "guard", "execute", "answered", "refused"}

(* The row a request is before it starts: attempt and retry count the      *)
(* generation and the second call after a rebuild.                         *)
NewJob == [pc |-> "new", session |-> 0, using |-> 0, attempt |-> 1, rebuilds |-> 0,
           exact |-> FALSE, sql |-> "none", engine |-> "none"]

(* Every part of the runtime has its type.                                 *)
TypeOK ==
  /\ settings \in [mode : Modes, fallback : BOOLEAN]
  /\ breaker \in [failures : 0 .. Threshold, opened : {"no", "open", "due"}, half : BOOLEAN]
  /\ cached \in 0 .. MaxSessions /\ issued \in 0 .. MaxSessions /\ cached <= issued
  /\ lock \in Requests \cup {"free"}
  /\ live \in SUBSET (1 .. issued)
  /\ probes \in 0 .. 2
  /\ job \in [Requests -> [pc : Steps, session : 0 .. issued, using : 0 .. issued,
                           attempt : 1 .. 2, rebuilds : 0 .. 2, exact : BOOLEAN,
                           sql : {"none", "good", "bad", "unparsed"},
                           engine : {"none", "sqlbot", "deterministic"}]]

Init ==
  /\ settings \in [mode : Modes, fallback : BOOLEAN]
  /\ breaker = Closed
  /\ cached = 0 /\ issued = 0 /\ live = {} /\ lock = "free" /\ probes = 0
  /\ job = [r \in Requests |-> NewJob]

At(r, pc) == job[r].pc = pc
Goto(r, pc) == job' = [job EXCEPT ![r].pc = pc]

----------------------------------------------------------------------------
(* The circuit breaker.                                                    *)

(* before_call lets the call through; after the recovery window only as    *)
(* the one probe.                                                          *)
LetsThrough ==
  \/ breaker.opened = "no"
  \/ breaker.opened = "due" /\ ~breaker.half

BeforeCall ==
  /\ LetsThrough
  /\ breaker' = [breaker EXCEPT !.half = (breaker.opened = "due")]
  /\ probes' = IF breaker.opened = "due" THEN probes + 1 ELSE probes

Refuses == ~LetsThrough /\ UNCHANGED <<breaker, probes>>

RecordSuccess == breaker' = Closed /\ probes' = 0

(* Variant: the breaker opens when the threshold is reached, not above it. *)
RecordFailureOnce ==
  LET failures == IF breaker.failures < Threshold THEN breaker.failures + 1 ELSE Threshold
      opens    == failures = Threshold /\ breaker.failures < Threshold
  IN
  /\ breaker' = [failures |-> failures, half |-> FALSE,
                 opened |-> IF opens THEN "open" ELSE breaker.opened]
  /\ probes' = IF opens THEN 0 ELSE probes

(* record_failure; at the threshold and above every failure opens it anew. *)
RecordFailure ==
  LET failures == IF breaker.failures < Threshold THEN breaker.failures + 1 ELSE Threshold
      opens    == failures = Threshold
  IN
  /\ breaker' = [failures |-> failures, half |-> FALSE,
                 opened |-> IF opens THEN "open" ELSE breaker.opened]
  /\ probes' = IF opens THEN 0 ELSE probes

(* recovery_seconds have passed.                                           *)
WindowOver ==
  /\ breaker.opened = "open"
  /\ breaker' = [breaker EXCEPT !.opened = "due"]
  /\ UNCHANGED <<settings, cached, lock, issued, live, probes, job>>

----------------------------------------------------------------------------
(* The end of a request.                                                   *)

Answered(r, engine) ==
  job' = [job EXCEPT ![r] = [NewJob EXCEPT !.pc = "answered", !.engine = engine,
                             !.sql = IF engine = "sqlbot" THEN job[r].sql ELSE "none"]]
Refused(r) == job' = [job EXCEPT ![r] = [NewJob EXCEPT !.pc = "refused"]]

(* The deterministic engine is asked.  It raises when the scope leaves     *)
(* nothing, its guard refuses the answer or the database fails, and so     *)
(* does the record of the route; nobody catches that.                      *)
Deterministic(r) == Answered(r, "deterministic") \/ Refused(r)

(* An error of the engine: SHADOW has its deterministic result and records *)
(* shadow and route, the other modes fall back if they may.                *)
EngineError(r) ==
  IF settings.mode = "SHADOW" \/ settings.fallback THEN Deterministic(r) ELSE Refused(r)

(* execute of the router, up to the engine: core questions are pinned, the *)
(* canary takes the eligible ones, SHADOW asks the deterministic engine    *)
(* first, which may raise.                                                 *)
Start(r, supported, eligible, exact) ==
  LET mode    == settings.mode
      pinned  == mode = "DETERMINISTIC_ONLY" \/ (supported /\ mode \notin {"DISABLED", "SHADOW"})
      outside == ~pinned /\ ~eligible /\ mode \in {"CANARY", "SCOPED_STABLE"}
  IN
  /\ At(r, "new")
  /\ \/ mode = "DISABLED" /\ Refused(r)
     \/ pinned /\ Deterministic(r)
     \/ outside /\ IF settings.fallback THEN Deterministic(r) ELSE Refused(r)
     \/ mode = "SHADOW" /\ Refused(r)
     \/ /\ mode # "DISABLED" /\ ~pinned /\ ~outside
        /\ job' = [job EXCEPT ![r].pc = "session", ![r].exact = exact]
  /\ UNCHANGED <<settings, breaker, cached, lock, issued, live, probes>>

(* execute of the engine before the session: flags, cancellation, version  *)
(* binding, schema, clarification.                                         *)
Reject(r) ==
  /\ At(r, "session")
  /\ EngineError(r)
  /\ UNCHANGED <<settings, breaker, cached, lock, issued, live, probes>>

----------------------------------------------------------------------------
(* Sessions.                                                               *)

(* What an error of _ask_with_single_rebuild leads to.  On the first       *)
(* generation a transport error is answered with the governed example,     *)
(* which counts as the second attempt and is guarded all the same.         *)
AskFailed(r, transport) ==
  IF job[r].attempt = 1 /\ transport /\ job[r].exact
  THEN \E sql \in {"good", "bad"} :
         job' = [job EXCEPT ![r].pc = "guard", ![r].attempt = 2, ![r].sql = sql]
  ELSE EngineError(r)

(* get_or_create finds a session that is young enough.                     *)
TakeCached(r) ==
  /\ At(r, "session") /\ lock = "free" /\ cached # 0
  /\ job' = [job EXCEPT ![r].pc = "ask", ![r].session = cached, ![r].using = cached]
  /\ UNCHANGED <<settings, breaker, cached, lock, issued, live, probes>>

(* get_or_create has to call the factory (no session, an old one, or a     *)
(* forced rebuild) and keeps the lock during the call.                     *)
CreateCall(r) ==
  /\ At(r, "session") \/ At(r, "rebuild")
  /\ lock = "free"
  /\ \/ BeforeCall /\ lock' = r
        /\ Goto(r, IF At(r, "session") THEN "creating" ELSE "recreating")
     \/ /\ Refuses /\ UNCHANGED lock
        /\ IF At(r, "session") THEN EngineError(r) ELSE AskFailed(r, TRUE)
  /\ UNCHANGED <<settings, cached, issued, live>>

(* The session is cached before on_bind is called, and the request asks    *)
(* with it; only _ask_with_single_rebuild knows a rebuilt one.             *)
Created(r) ==
  /\ At(r, "creating") \/ At(r, "recreating")
  /\ issued < MaxSessions
  /\ RecordSuccess
  /\ issued' = issued + 1 /\ cached' = issued' /\ live' = live \cup {issued'}
  /\ lock' = "free"
  /\ job' = [job EXCEPT ![r].pc = "ask", ![r].using = issued',
       ![r].session  = IF At(r, "creating") THEN issued' ELSE @,
       ![r].rebuilds = IF At(r, "creating") THEN @ ELSE @ + 1]
  /\ UNCHANGED settings

(* on_bind raises: the binding cannot be recorded; the session stays.  The *)
(* database session of the request then waits for a rollback that nobody   *)
(* asks for, so the fallback, and what SHADOW records, raise as well.      *)
BindFails(r) ==
  /\ At(r, "creating") \/ At(r, "recreating")
  /\ issued < MaxSessions
  /\ RecordSuccess
  /\ issued' = issued + 1 /\ cached' = issued' /\ live' = live \cup {issued'}
  /\ lock' = "free"
  /\ Refused(r)
  /\ UNCHANGED settings

(* The call fails, or succeeds with a payload that has no session.         *)
CreateFails(r) ==
  /\ At(r, "creating") \/ At(r, "recreating")
  /\ lock' = "free"
  /\ \/ /\ RecordFailure
        /\ \E transport \in BOOLEAN :
             IF At(r, "creating") THEN EngineError(r) ELSE AskFailed(r, transport)
     \/ RecordSuccess /\ EngineError(r)
  /\ UNCHANGED <<settings, cached, issued, live>>

(* The upstream forgets a session.                                         *)
Revoke(s) ==
  /\ s \in live
  /\ live' = live \ {s}
  /\ UNCHANGED <<settings, breaker, cached, lock, issued, probes, job>>

----------------------------------------------------------------------------
(* Generation, guard, repair, execution.                                   *)

AskCall(r) ==
  /\ At(r, "ask")
  /\ (BeforeCall /\ Goto(r, "asking")) \/ (Refuses /\ AskFailed(r, TRUE))
  /\ UNCHANGED <<settings, cached, lock, issued, live>>

AskOk(r, sql) ==
  /\ At(r, "asking") /\ job[r].using \in live
  /\ RecordSuccess
  /\ job' = [job EXCEPT ![r].pc = "guard", ![r].sql = sql]
  /\ UNCHANGED <<settings, cached, lock, issued, live>>

AskTransportError(r) ==
  /\ At(r, "asking")
  /\ RecordFailure
  /\ AskFailed(r, TRUE)
  /\ UNCHANGED <<settings, cached, lock, issued, live>>

(* 401 or 403: a failure of the breaker as well.  The first one of a       *)
(* generation rebuilds the session, the second one is the error.           *)
AskInvalid(r) ==
  /\ At(r, "asking") /\ job[r].using \notin live
  /\ RecordFailure
  /\ IF job[r].using = job[r].session THEN Goto(r, "rebuild") ELSE AskFailed(r, FALSE)
  /\ UNCHANGED <<settings, cached, lock, issued, live>>

GuardPasses(r) ==
  /\ At(r, "guard") /\ job[r].sql = "good"
  /\ Goto(r, "execute")
  /\ UNCHANGED <<settings, breaker, cached, lock, issued, live, probes>>

First(r) == At(r, "guard") /\ job[r].sql # "good" /\ job[r].attempt = 1

(* Variant: the governed example is executed as it is.                     *)
RepairWithTrustedExample(r, sql) ==
  /\ First(r) /\ job[r].exact
  /\ job' = [job EXCEPT ![r].attempt = 2, ![r].sql = sql, ![r].pc = "execute"]
  /\ UNCHANGED <<settings, breaker, cached, lock, issued, live, probes>>

(* The first rejection is repaired with the governed example, if there is  *)
(* one, which is guarded in turn.                                          *)
RepairWithExample(r, sql) ==
  /\ First(r) /\ job[r].exact
  /\ job' = [job EXCEPT ![r].attempt = 2, ![r].sql = sql]
  /\ UNCHANGED <<settings, breaker, cached, lock, issued, live, probes>>

(* Variant: the repair may be asked for again and again.                   *)
RepairByAskingAgain(r) ==
  /\ At(r, "guard") /\ ~job[r].exact /\ job[r].sql = "bad"
  /\ job' = [job EXCEPT ![r].attempt = 2, ![r].pc = "ask", ![r].using = job[r].session]
  /\ UNCHANGED <<settings, breaker, cached, lock, issued, live, probes>>

(* Otherwise SQLBot is asked to repair the statement, in the session the   *)
(* request began with.                                                     *)
RepairByAsking(r) ==
  /\ First(r) /\ ~job[r].exact /\ job[r].sql = "bad"
  /\ job' = [job EXCEPT ![r].attempt = 2, ![r].pc = "ask", ![r].using = job[r].session]
  /\ UNCHANGED <<settings, breaker, cached, lock, issued, live, probes>>

(* The second rejection, and a payload that does not parse.                *)
GuardRejects(r) ==
  /\ At(r, "guard")
  /\ job[r].sql = "unparsed" \/ (job[r].sql = "bad" /\ job[r].attempt = 2)
  /\ EngineError(r)
  /\ UNCHANGED <<settings, breaker, cached, lock, issued, live, probes>>

(* The read-only executor and the result guard; SHADOW compares and        *)
(* answers with the deterministic result.  The record of the route may     *)
(* raise after all.                                                        *)
Execute(r) ==
  /\ At(r, "execute")
  /\ \/ Answered(r, IF settings.mode = "SHADOW" THEN "deterministic" ELSE "sqlbot")
     \/ EngineError(r) \/ Refused(r)
  /\ UNCHANGED <<settings, breaker, cached, lock, issued, live, probes>>

----------------------------------------------------------------------------
Step(r) ==
  \/ \E supported, eligible, exact \in BOOLEAN : Start(r, supported, eligible, exact)
  \/ Reject(r) \/ TakeCached(r) \/ CreateCall(r) \/ Created(r) \/ BindFails(r) \/ CreateFails(r)
  \/ AskCall(r) \/ AskTransportError(r) \/ AskInvalid(r)
  \/ \E sql \in {"good", "bad", "unparsed"} : AskOk(r, sql)
  \/ GuardPasses(r) \/ GuardRejects(r) \/ RepairByAsking(r) \/ Execute(r)
  \/ \E sql \in {"good", "bad"} : RepairWithExample(r, sql)

Next ==
  \/ \E r \in Requests : Step(r)
  \/ WindowOver
  \/ \E s \in 1 .. MaxSessions : Revoke(s)

(* Every upstream call has a timeout, so a request always goes on.         *)
Spec == Init /\ [][Next]_vars /\ \A r \in Requests : WF_vars(Step(r))

----------------------------------------------------------------------------
(* Properties.                                                             *)

(* docs/platformization/p1b/02_SQLBOT_ADAPTER.md: a recovery window of the *)
(* breaker lets one half-open probe through, although calls that began     *)
(* before it opened may still succeed or fail in the meantime and clear    *)
(* the mark of the probe (record_failure).                                 *)
OneProbePerWindow == probes <= 1

(* The breaker never waits for a probe nobody is making: whoever set the   *)
(* mark is still on the call, whatever the other calls did to it since.    *)
ProbeIsUnderWay ==
  breaker.half => \E r \in Requests : job[r].pc \in {"creating", "recreating", "asking"}

(* An answer of SQLBot was guarded, with repair, governed example and      *)
(* rebuilt sessions on the way to it, and its mode allows such answers.    *)
SQLBotAnswersAreGuarded ==
  \A r \in Requests : job[r].engine = "sqlbot" =>
    /\ job[r].sql = "good"
    /\ settings.mode \in {"CANARY", "SQLBOT_ENABLED", "SCOPED_STABLE"}

(* The invariants of breaker, sessions and answers (health.py, engine.py). *)
RuntimeSafe == TypeOK /\ OneProbePerWindow /\ ProbeIsUnderWay

(* A question ends, with an answer or an error: it is not retried without  *)
(* end, nor left waiting for the lock of the sessions, which others keep   *)
(* during their calls, or for the breaker, whatever calls fail and         *)
(* sessions are revoked (engine.py, session_manager.py, health.py).        *)
EveryQuestionEnds ==
  \A r \in Requests : At(r, "session") ~> (At(r, "answered") \/ At(r, "refused"))

(* p1b/03_SQLBOT_SECURITY_BOUNDARY.md: "认证失效最多重建一次", a request    *)
(* rebuilds its session once at most.  The repair asks from the session    *)
(* the request began with and rebuilds again.                              *)
RebuildsOnce == \A r \in Requests : job[r].rebuilds <= 1

(* p1b/04_DUAL_ENGINE_ROUTING.md: "SQLBot 故障不影响 Shadow 用户结果", in   *)
(* SHADOW a question that has its deterministic result is answered with it *)
(* whatever SQLBot does.  A binding, or evidence of the comparison, that   *)
(* cannot be recorded takes it away.                                       *)
ShadowKeepsAnswer ==
  [][settings.mode = "SHADOW" =>
       \A r \in Requests : ~At(r, "new") /\ At(r, "refused")' => At(r, "refused")]_vars
=============================================================================
