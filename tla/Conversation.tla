---------------------------- MODULE Conversation -----------------------------
(***************************************************************************)
(* A conversation: the row that binds it to a user and a scenario, the     *)
(* context that an answer leaves for the next question, and the runs that  *)
(* answer (chatbi/scenario_services.py, chatbi/service.py, chatbi/memory.py*)
(* and sales_ops/chat_service.py).                                         *)
(*                                                                         *)
(* A question loads the context row, works, and writes the attributes that *)
(* differ from what it loaded; nothing is locked and loaded attributes are *)
(* not refreshed (expire_on_commit=False).  A context has two parts that   *)
(* a follow-up question resolves its references from, the metrics and the  *)
(* time range.  Either may be equal in two plans.                          *)
(***************************************************************************)
EXTENDS Naturals

CONSTANTS
  Users, Scenarios,
  Charging,          \* the scenario of chatbi/service.py; the others answer as sales_ops
  Metrics, Ranges,   \* parts of a query plan
  Requests           \* questions and clears, each made once

VARIABLES
  binding,   \* chat_scenario_session_binding: the user and the scenario
  state,     \* session_state
  run,       \* analysis_run of each question
  work,      \* questions with an entry in WORK_MEMORY
  saved,     \* history: the contexts that were saved, with the question
  forgotten, \* history: saves that a clear has seen
  calm,      \* history: no commit overwrote what it had not loaded
  job

vars == <<binding, state, run, work, saved, forgotten, calm, job>>

None == "none"
NoBinding == [user |-> None, scenario |-> None]
NoState == [status |-> None, user |-> None, scenario |-> None,
            metrics |-> None, range |-> None]
NoJob == [op |-> "idle", user |-> None, scenario |-> None, old |-> NoState, seen |-> {}]

Owner == [user : Users, scenario : Scenarios]
State == [status : {"active", "expired", "cleared"}, user : Users, scenario : Scenarios,
          metrics : Metrics \cup {None}, range : Ranges \cup {None}] \cup {NoState}
Saves == Requests \X Metrics \X Ranges

(* Every row and request has its type.                                     *)
TypeOK ==
  /\ binding \in Owner \cup {NoBinding}
  /\ state \in State
  /\ run \in [Requests -> {None, "running", "succeeded", "refused"}]
  /\ work \in SUBSET Requests
  /\ saved \in SUBSET (Saves \cup {<<None, m, d>> : m \in Metrics, d \in Ranges})
  /\ forgotten \in SUBSET saved
  /\ calm \in BOOLEAN
  /\ job \in [Requests -> [op : {"idle", "bind", "bound", "loaded", "running", "saved", "end"},
                           user : Users \cup {None}, scenario : Scenarios \cup {None},
                           old : State, seen : SUBSET saved]]

(* A new conversation, or one from before bindings were recorded.          *)
Init ==
  /\ binding = NoBinding
  /\ \/ state = NoState /\ saved = {}
     \/ \E u \in Users, s \in Scenarios, m \in Metrics, d \in Ranges :
          /\ state = [status |-> "active", user |-> u, scenario |-> s, metrics |-> m, range |-> d]
          /\ saved = {<<None, m, d>>}
  /\ run = [j \in Requests |-> None]
  /\ work = {} /\ forgotten = {} /\ calm = TRUE
  /\ job = [j \in Requests |-> NoJob]

Goes(j, op) == job' = [job EXCEPT ![j].op = op]
Ends(j) == job' = [job EXCEPT ![j] = [NoJob EXCEPT !.op = "end"]]

----------------------------------------------------------------------------
(* _bind_conversation.                                                     *)

(* Variant: the row is not looked at.                                      *)
MayBindAny(u, s) == TRUE

(* A row from before bindings belongs to its user and scenario.            *)
MayBind(u, s) == state = NoState \/ (state.user = u /\ state.scenario = s)

Bind(j, u, s) ==
  /\ job[j].op = "idle"
  /\ \/ binding = [user |-> u, scenario |-> s]
     \/ binding = NoBinding /\ MayBind(u, s)
  /\ job' = [job EXCEPT ![j] = [NoJob EXCEPT
       !.op = IF binding = NoBinding THEN "bind" ELSE "bound", !.user = u, !.scenario = s]]
  /\ UNCHANGED <<binding, state, run, work, saved, forgotten, calm>>

(* conversation_id is the primary key: the second of two fails.            *)
BindCommit(j) ==
  /\ job[j].op = "bind" /\ binding = NoBinding
  /\ binding' = [user |-> job[j].user, scenario |-> job[j].scenario]
  /\ Goes(j, "bound")
  /\ UNCHANGED <<state, run, work, saved, forgotten, calm>>

----------------------------------------------------------------------------
(* A question.                                                             *)

(* SessionMemory: the row of another user is refused, an active one whose  *)
(* time is over is committed as expired.  _save_state of sales loads the   *)
(* row when it has answered, and looks at neither.                         *)
Load(j, expires) ==
  LET now == IF expires THEN [state EXCEPT !.status = "expired"] ELSE state IN
  /\ job[j].op = "bound"
  /\ expires => job[j].scenario = Charging /\ state.status = "active"
  /\ job[j].scenario = Charging => state = NoState \/ state.user = job[j].user
  /\ state' = now
  /\ job' = [job EXCEPT ![j].op = "loaded", ![j].old = now, ![j].seen = saved]
  /\ UNCHANGED <<binding, run, work, saved, forgotten, calm>>

(* _ask_deterministic begins: the work state and the run.                  *)
Start(j) ==
  /\ job[j].op = "loaded" /\ job[j].scenario = Charging
  /\ run' = [run EXCEPT ![j] = "running"]
  /\ work' = work \cup {j}
  /\ Goes(j, "running")
  /\ UNCHANGED <<binding, state, saved, forgotten, calm>>

(* The question is unclear, forbidden, or out of the published range, or   *)
(* names a failed batch; after the last two the work state stays.          *)
Refuse(j, known) ==
  /\ job[j].op = "running"
  /\ run' = [run EXCEPT ![j] = "refused"]
  /\ work' = IF known THEN work ELSE work \ {j}
  /\ Ends(j)
  /\ UNCHANGED <<binding, state, saved, forgotten, calm>>

(* An attribute is written when it differs from what was loaded.           *)
Written(now, old, new) == IF new # old THEN new ELSE now

Update(old, new) ==
  [state EXCEPT !.status  = Written(state.status, old.status, new.status),
                !.metrics = Written(state.metrics, old.metrics, new.metrics),
                !.range   = Written(state.range, old.range, new.range)]

(* SessionMemory.save, and _save_state of sales.                           *)
Save(j, m, d) ==
  LET old == job[j].old
      new == [status |-> "active", user |-> job[j].user, scenario |-> job[j].scenario,
              metrics |-> m, range |-> d]
  IN
  /\ job[j].op = IF job[j].scenario = Charging THEN "running" ELSE "loaded"
  /\ old = NoState => state = NoState                      \* primary key
  /\ state' = IF old = NoState THEN new ELSE Update(old, new)
  /\ saved' = saved \cup {<<j, m, d>>}
  /\ calm' = (calm /\ state = old)
  /\ Goes(j, "saved")
  /\ UNCHANGED <<binding, run, work, forgotten>>

(* The run succeeded, and the work state is released.                      *)
Finish(j) ==
  /\ job[j].op = "saved"
  /\ run' = IF run[j] = "running" THEN [run EXCEPT ![j] = "succeeded"] ELSE run
  /\ work' = work \ {j}
  /\ Ends(j)
  /\ UNCHANGED <<binding, state, saved, forgotten, calm>>

(* An answer of SQLBot, an exception, or the end of the process; work      *)
(* states live as long as the process, which is not modelled to end.       *)
Fail(j) ==
  /\ job[j].op \notin {"idle", "end"}
  /\ Ends(j)
  /\ UNCHANGED <<binding, state, run, work, saved, forgotten, calm>>

----------------------------------------------------------------------------
(* clear_session of the owner, in a SessionMemory that has loaded the row. *)
ClearCommit(j) ==
  LET old == job[j].old IN
  /\ job[j].op = "loaded" /\ old # NoState
  /\ state' = Update(old, [old EXCEPT !.status = "cleared", !.metrics = None, !.range = None])
  /\ forgotten' = forgotten \cup job[j].seen
  /\ calm' = (calm /\ state = old)
  /\ Ends(j)
  /\ UNCHANGED <<binding, run, work, saved>>

Next == \E j \in Requests :
  \/ \E u \in Users, s \in Scenarios : Bind(j, u, s)
  \/ BindCommit(j)
  \/ \E expires \in BOOLEAN : Load(j, expires)
  \/ Start(j)
  \/ \E known \in BOOLEAN : Refuse(j, known)
  \/ \E m \in Metrics, d \in Ranges : Save(j, m, d)
  \/ Finish(j) \/ Fail(j)
  \/ ClearCommit(j)

Spec == Init /\ [][Next]_vars

----------------------------------------------------------------------------
(* Properties.                                                             *)

(* Whoever asks first, and whatever binds overlap: the context of a        *)
(* conversation belongs to the user and the scenario it is bound to, so    *)
(* that no question resolves its references from what another user, or     *)
(* another scenario, left (_bind_conversation).                            *)
ContextStaysWithOwner ==
  state # NoState /\ binding # NoBinding =>
    state.user = binding.user /\ state.scenario = binding.scenario

(* A context that was cleared is not used again: what an active row holds  *)
(* was saved by a question that the clears had not seen saved, whatever    *)
(* questions were under way when they cleared (SessionMemory.clear).       *)
ClearedIsForgotten ==
  state.status = "active" =>
    /\ state.metrics # None => \E v \in saved \ forgotten : v[2] = state.metrics
    /\ state.range # None => \E v \in saved \ forgotten : v[3] = state.range

(* Without overlapping questions the context is that of one answer.  With  *)
(* them it can be the metrics of one and the time range of another, as an  *)
(* attribute equal to the loaded one is not written (SessionMemory.save).  *)
CalmOneContext ==
  calm /\ state.status = "active" => \E v \in saved : v[2] = state.metrics /\ v[3] = state.range

ConversationSafe == TypeOK /\ ContextStaysWithOwner /\ ClearedIsForgotten /\ CalmOneContext

(* A binding is for good, and a run that ended keeps its result            *)
(* (ChatScenarioSessionBinding, _finish_run).                              *)
BindingIsFinal ==
  [][/\ binding # NoBinding => binding' = binding
     /\ \A j \in Requests : run[j] \in {"succeeded", "refused"} => run'[j] = run[j]]_vars

(* chatbi/memory.py: work state is bounded to the active request and       *)
(* released on finish.                                                     *)
WorkIsReleased == \A j \in work : job[j].op # "end"
=============================================================================
