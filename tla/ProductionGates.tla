-------------------------- MODULE ProductionGates --------------------------
(***************************************************************************)
(* The production acceptance gates: decisions with evidence and waivers,   *)
(* expiry, an append-only history and the readiness summary                *)
(* (production_acceptance/registry.py).                                    *)
(*                                                                         *)
(* A decision is taken on the row as loaded and committed later; a column  *)
(* whose new value equals the loaded one is not written                    *)
(* (core/database.py), so two decisions can mix in one row.                *)
(***************************************************************************)
EXTENDS Naturals, Sequences, StatusSessions

CONSTANTS
  Gates,          \* gate codes in scope
  Blockers,       \* those of level BLOCKER
  Proven,         \* gates of the baseline that are installed as PASSED
  Deciders,       \* concurrent sessions
  Decided,        \* statuses decisions ask for; of those that are no
                  \* clearance the code tells none apart
  Evidences,      \* evidence they come with
  MaxDecisions    \* bound: decisions recorded

Status   == {"OPEN", "IN_PROGRESS", "PASSED", "WAIVED", "BLOCKED", "EXPIRED"}
Cleared  == {"PASSED", "WAIVED"}
Evidence == {"none", "report", "approval"}

VARIABLES
  gate,      \* production_gate_registry
  due,       \* gates whose expires_at has passed
  history,   \* production_gate_history, in the order of the commits
  calm,      \* history: no two sessions have overlapped
  job        \* the row each session has loaded and what it decides

vars == <<gate, due, history, calm, job>>

NewGate    == [status |-> "OPEN", evidence |-> "none", waiver |-> FALSE, version |-> 1]
ProvenGate == [status |-> "PASSED", evidence |-> "report", waiver |-> FALSE, version |-> 1]

Row     == [status : Status, evidence : Evidence, waiver : BOOLEAN, version : 1 .. MaxDecisions + 1]
Idle    == [op |-> "idle", gate |-> "none", row |-> NewGate, status |-> "OPEN",
            evidence |-> "none", previous |-> "OPEN"]

(* Gates, entries and sessions have their types.                           *)
TypeOK ==
  /\ gate \in [Gates -> Row]
  /\ due \in SUBSET Gates /\ calm \in BOOLEAN
  /\ \A i \in DOMAIN history : history[i] \in
       [gate : Gates, status : Status, evidence : Evidence, previous : Status,
        version : 2 .. MaxDecisions + 1]
  /\ \A j \in Deciders :
       /\ job[j].op \in {"idle", "decide"} /\ job[j].gate \in Gates \cup {"none"}
       /\ job[j].row \in Row /\ job[j].evidence \in Evidence
       /\ {job[j].status, job[j].previous} \subseteq Status

(* A gate of the baseline: OPEN, or BLOCKED, which the code tells from     *)
(* OPEN nowhere, or PASSED with its evidence (RAG_MODE).  The installation *)
(* adds no history.                                                        *)
Installed(g) == IF g \in Proven THEN ProvenGate ELSE NewGate

(* install_production_gate_baseline; every gate is due in 30 days.         *)
Init ==
  /\ gate = [g \in Gates |-> Installed(g)]
  /\ due = {} /\ history = <<>> /\ calm = TRUE
  /\ job = [j \in Deciders |-> Idle]

(* Variant: the expiry of a clearance is not looked at.                    *)
EffectiveAsStored(g) == gate[g].status

(* effective_status: a clearance that is past its date is EXPIRED.         *)
Effective(g) == IF g \in due /\ gate[g].status \in Cleared THEN "EXPIRED" ELSE gate[g].status

(* summary.                                                                *)
Ready == \A g \in Blockers : Effective(g) \in Cleared

(* decide loads the gate and checks what the new status asks for: evidence *)
(* for a clearance, and a formal approval among it for a waiver.           *)
Decide(j, g, status, evidence) ==
  /\ job[j].op = "idle"
  /\ status \in Cleared => evidence # "none"
  /\ status = "WAIVED" => evidence = "approval"
  /\ job' = [job EXCEPT ![j] = [op |-> "decide", gate |-> g, row |-> gate[g], status |-> status,
                                evidence |-> evidence, previous |-> Effective(g)]]
  /\ calm' = (calm /\ Alone(job, j))
  /\ UNCHANGED <<gate, due, history>>

(* A column is written if it differs from the loaded one.                  *)
Written(now, loaded, new) == IF new = loaded THEN now ELSE new

(* Row, history entry and audit event in one commit; expires_at is new,    *)
(* the version is the loaded one and one more.                             *)
Commit(j) ==
  LET g == job[j].gate  old == job[j].row IN
  /\ job[j].op = "decide" /\ Len(history) < MaxDecisions
  /\ gate' = [gate EXCEPT ![g] =
       [status   |-> Written(@.status, old.status, job[j].status),
        evidence |-> Written(@.evidence, old.evidence, job[j].evidence),
        waiver   |-> Written(@.waiver, old.waiver, job[j].status = "WAIVED"),
        version  |-> old.version + 1]]
  /\ due' = due \ {g}
  /\ history' = Append(history, [gate |-> g, status |-> job[j].status, evidence |-> job[j].evidence,
                                 previous |-> job[j].previous, version |-> old.version + 1])
  /\ job' = [job EXCEPT ![j] = Idle]
  /\ UNCHANGED calm

Abandon(j) ==
  /\ job[j].op = "decide"
  /\ job' = [job EXCEPT ![j] = Idle]
  /\ UNCHANGED <<gate, due, history, calm>>

(* The review date of a gate passes.                                       *)
Expire(g) ==
  /\ g \notin due
  /\ due' = due \cup {g}
  /\ UNCHANGED <<gate, history, calm, job>>

Next ==
  \/ \E j \in Deciders : \/ \E g \in Gates, s \in Decided, e \in Evidences : Decide(j, g, s, e)
                         \/ Commit(j) \/ Abandon(j)
  \/ \E g \in Gates : Expire(g)

Spec == Init /\ [][Next]_vars

----------------------------------------------------------------------------
(* Properties.                                                             *)

(* The entries of a gate: one is its first or last, or follows another.    *)
Entries(g) == {i \in DOMAIN history : history[i].gate = g}
IsFirst(g, i) == \A k \in Entries(g) : i <= k
IsLast(g, i)  == \A k \in Entries(g) : k <= i
Follows(g, k, i) == k < i /\ \A l \in Entries(g) : l <= k \/ i <= l

(* Once a gate has been decided on it is never cleared without a recorded  *)
(* decision that clears it, on evidence, whatever decisions have been      *)
(* mixed in its row; until then only as it was installed, with evidence.   *)
ClearanceIsRecorded ==
  \A g \in Gates : gate[g].status \in Cleared =>
    \/ Entries(g) = {} /\ gate[g] = ProvenGate /\ g \in Proven
    \/ \E i \in Entries(g) : history[i].status = gate[g].status /\ history[i].evidence # "none"

(* What a decision replaced: a status, or its expiry.                      *)
Replaced(previous, status) ==
  previous = status \/ (previous = "EXPIRED" /\ status \in Cleared)

(* As long as decisions do not overlap the history is the life of the      *)
(* gate from its installation on: versions without gaps, each previous     *)
(* status the one before it or its expiry, and the row what the last       *)
(* decision says.                                                          *)
CalmHistoryExplains == calm => \A g \in Gates :
  /\ Entries(g) = {} => gate[g] = Installed(g)
  /\ \A i \in Entries(g) :
       /\ IsFirst(g, i) => /\ history[i].version = 2
                           /\ Replaced(history[i].previous, Installed(g).status)
       /\ IsLast(g, i) => /\ gate[g].version = history[i].version
                          /\ gate[g].status = history[i].status
                          /\ gate[g].evidence = history[i].evidence
                          /\ gate[g].waiver = (history[i].status = "WAIVED")
       /\ \A k \in Entries(g) : Follows(g, k, i) =>
            /\ history[i].version = history[k].version + 1
            /\ Replaced(history[i].previous, history[k].status)

(* docs/platformization/p5/11_GO_NO_GO_DECISION_MATRIX.md: acceptance is   *)
(* ready only while every BLOCKER has a clearance that is still valid: of  *)
(* its last decision, or of its installation.                              *)
CalmReadyIsValid ==
  calm /\ Ready => \A g \in Blockers :
    /\ g \notin due
    /\ IF Entries(g) = {} THEN g \in Proven
       ELSE \E i \in Entries(g) : IsLast(g, i) /\ history[i].status \in Cleared

(* The invariants of gates and their history (registry.py).                *)
GatesSafe == TypeOK /\ ClearanceIsRecorded /\ CalmHistoryExplains /\ CalmReadyIsValid

(* docs/platformization/p5/02_PRODUCTION_GATE_REGISTRY.md: "`PASSED` 与    *)
(* `WAIVED` 必须有受控证据引用", a clearance has evidence.                  *)
ClearedHasEvidence ==
  \A g \in Gates : gate[g].status \in Cleared => gate[g].evidence # "none"
=============================================================================
