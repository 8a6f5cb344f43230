--------------------------- MODULE DatasetRelease ---------------------------
(* Governed release of dataset versions: the version lifecycle, the          *)
(* activation pointer of a dataset, and the semantic version it is bound to  *)
(* (platform/dataset_release.py, with the publication of a semantic version  *)
(* from platform/semantic_registry.py).                                      *)
(*                                                                           *)
(* Requests run in sessions that keep what they loaded: a row read once is   *)
(* not read again, SELECT ... FOR UPDATE takes the lock but leaves a row     *)
(* that is already in the session as it was, and at the flush an attribute   *)
(* that has not changed since it was loaded is not written.  A request       *)
(* therefore is a few steps: its reads, the lock on the dataset row where it *)
(* takes one, and one commit that writes everything or nothing.              *)
(* Every request has an idempotency key of its own: a key that was used      *)
(* before returns the earlier answer or fails at the commit, and writes      *)
(* nothing in either case.                                                   *)
EXTENDS Naturals, FiniteSets

CONSTANTS
    Datasets,     \* datasets of one scenario
    Versions,     \* dataset versions that may be created
    DatasetOf,    \* the dataset of each version
    Semantics,    \* versions of the scenario's semantic model
    Accepts,      \* semantic versions a dataset version's range accepts
    Released,     \* versions published before the run starts
    Requests,     \* sessions that serve requests
    MaxMoves,     \* bound on the moves of an activation pointer
    NoVersion, NoSemantic

ASSUME ReleaseAssumption ==
    /\ DatasetOf \in [Versions -> Datasets]
    /\ Accepts \in [Versions -> SUBSET Semantics]
    /\ Released \subseteq Versions
    /\ MaxMoves \in Nat
    /\ NoVersion \notin Versions
    /\ NoSemantic \notin Semantics

VARIABLES
    version,    \* dataset_version.status, "ABSENT" before the row exists
    review,     \* review_record.status, "NONE" before the row exists
    audit,      \* release_record rows: the action, a decision by its outcome,
                \* and the version
    pointer,    \* semantic_activation row of a dataset
    semantic,   \* semantic_model_version.status
    request     \* what each session has loaded and where it stands

vars == <<version, review, audit, pointer, semantic, request>>

LockedContent == {"PUBLISHED", "ACTIVE", "SUPERSEDED"}

VersionStatus == {"ABSENT", "QUALITY_PASSED", "QUALITY_FAILED",
                  "PENDING_APPROVAL", "APPROVED", "REJECTED"} \cup LockedContent

ReviewStatus == {"NONE", "PENDING", "APPROVED", "REJECTED"}

SemanticStatus == {"DRAFT"} \cup LockedContent

AuditAction == {"SUBMIT", "APPROVED", "REJECTED", "PUBLISH", "ACTIVATE", "ROLLBACK"}

Pointer == [v : Versions \cup {NoVersion}, s : Semantics \cup {NoSemantic},
            lock : 0 .. MaxMoves]

NoPointer == [v |-> NoVersion, s |-> NoSemantic, lock |-> 0]

(* step: what the session has done; seen, seenSemantic: the statuses it      *)
(* loaded; ptr: the pointer row it loaded.                                   *)
Session == [step : {"idle", "submit", "APPROVED", "REJECTED", "publish",
                    "load", "current", "lock", "semantic"},
            v : Versions \cup {NoVersion}, seen : VersionStatus, ptr : Pointer,
            s : Semantics \cup {NoSemantic}, seenSemantic : SemanticStatus]

Idle == [step |-> "idle", v |-> NoVersion, seen |-> "ABSENT", ptr |-> NoPointer,
         s |-> NoSemantic, seenSemantic |-> "DRAFT"]

Loaded(step, v) == [Idle EXCEPT !.step = step, !.v = v, !.seen = version[v]]

TypeOK ==
    /\ version \in [Versions -> VersionStatus]
    /\ review \in [Versions -> ReviewStatus]
    /\ audit \subseteq AuditAction \X Versions
    /\ pointer \in [Datasets -> Pointer]
    /\ semantic \in [Semantics -> SemanticStatus]
    /\ request \in [Requests -> Session]

Init ==
    /\ version = [v \in Versions |-> IF v \in Released THEN "PUBLISHED" ELSE "ABSENT"]
    /\ review = [v \in Versions |-> IF v \in Released THEN "APPROVED" ELSE "NONE"]
    /\ audit = {"SUBMIT", "APPROVED", "PUBLISH"} \X Released
    /\ pointer = [d \in Datasets |-> NoPointer]
    /\ semantic = [s \in Semantics |-> "DRAFT"]
    /\ request = [q \in Requests |-> Idle]

-----------------------------------------------------------------------------
(* Rows and locks.                                                           *)

(* An attribute is written at the flush only when its value differs from the *)
(* one the session loaded.                                                   *)
Flush(row, loaded, value) == IF loaded = value THEN row ELSE value

(* The row lock of SELECT ... FOR UPDATE on the dataset.  It also holds back *)
(* the insert of a release record, whose foreign key locks the same row.     *)
DatasetFree(d) ==
    \A q \in Requests : request[q].step = "lock" => DatasetOf[request[q].v] # d

(* The partial unique indexes: one ACTIVE version in a dataset, and one in a *)
(* semantic model.                                                           *)
UniqueActive(status, rows) ==
    \A x, y \in rows : status[x] = "ACTIVE" /\ status[y] = "ACTIVE" => x = y

VersionsOf(d) == {v \in Versions : DatasetOf[v] = d}

-----------------------------------------------------------------------------
(* Creation, submission, decision and publication of a version.              *)

(* Variant: the verdict of the quality run is taken for the status.          *)
QualityStatusVariant(passed) == IF passed THEN "PASSED" ELSE "FAILED"

QualityStatus(passed) == IF passed THEN "QUALITY_PASSED" ELSE "QUALITY_FAILED"

(* The dataset row stays locked from the look-up of the key to the commit.   *)
CreateVersion(v, passed) ==
    /\ version[v] = "ABSENT"
    /\ DatasetFree(DatasetOf[v])
    /\ version' = [version EXCEPT ![v] = QualityStatus(passed)]
    /\ UNCHANGED <<review, audit, pointer, semantic, request>>

SubmitLoad(q, v) ==
    /\ request[q] = Idle
    /\ version[v] \in {"QUALITY_PASSED", "PENDING_APPROVAL"}
    /\ review[v] = "NONE"
    /\ request' = [request EXCEPT ![q] = Loaded("submit", v)]
    /\ UNCHANGED <<version, review, audit, pointer, semantic>>

(* One review per version (uq_review_dataset_version), one record per key.   *)
SubmitCommit(q) ==
    LET v == request[q].v IN
    /\ request[q].step = "submit"
    /\ DatasetFree(DatasetOf[v])
    /\ review[v] = "NONE"
    /\ version' = [version EXCEPT ![v] = Flush(@, request[q].seen, "PENDING_APPROVAL")]
    /\ review' = [review EXCEPT ![v] = "PENDING"]
    /\ audit' = audit \cup {<<"SUBMIT", v>>}
    /\ request' = [request EXCEPT ![q] = Idle]
    /\ UNCHANGED <<pointer, semantic>>

DecideLoad(q, v, decision) ==
    /\ request[q] = Idle
    /\ review[v] = "PENDING"
    /\ version[v] = "PENDING_APPROVAL"
    /\ request' = [request EXCEPT ![q] = Loaded(decision, v)]
    /\ UNCHANGED <<version, review, audit, pointer, semantic>>

(* Variant: a key of its own for every decision.                             *)
DecisionRecordedVariant(v, decision) == FALSE

(* The key of the record names the version and the decision: a second        *)
(* approval fails on it, a rejection after an approval does not.             *)
DecisionRecorded(v, decision) == <<decision, v>> \in audit

DecideCommit(q) ==
    LET v == request[q].v
        decision == request[q].step
    IN
    /\ decision \in {"APPROVED", "REJECTED"}
    /\ DatasetFree(DatasetOf[v])
    /\ ~DecisionRecorded(v, decision)
    /\ version' = [version EXCEPT ![v] = decision]
    /\ review' = [review EXCEPT ![v] = decision]
    /\ audit' = audit \cup {<<decision, v>>}
    /\ request' = [request EXCEPT ![q] = Idle]
    /\ UNCHANGED <<pointer, semantic>>

(* Variant: publication does not wait for the approval.                      *)
PublishableVariant(v) == version[v] \in {"PENDING_APPROVAL", "APPROVED"}

Publishable(v) == version[v] = "APPROVED"

PublishLoad(q, v) ==
    /\ request[q] = Idle
    /\ Publishable(v)
    /\ request' = [request EXCEPT ![q] = Loaded("publish", v)]
    /\ UNCHANGED <<version, review, audit, pointer, semantic>>

PublishCommit(q) ==
    LET v == request[q].v IN
    /\ request[q].step = "publish"
    /\ DatasetFree(DatasetOf[v])
    /\ version' = [version EXCEPT ![v] = "PUBLISHED"]
    /\ audit' = audit \cup {<<"PUBLISH", v>>}
    /\ request' = [request EXCEPT ![q] = Idle]
    /\ UNCHANGED <<review, pointer, semantic>>

-----------------------------------------------------------------------------
(* Publication of a semantic version: a draft is read, then written.         *)

SemanticLoad(q, s) ==
    /\ request[q] = Idle
    /\ semantic[s] = "DRAFT"
    /\ request' = [request EXCEPT ![q] = [Idle EXCEPT !.step = "semantic", !.s = s]]
    /\ UNCHANGED <<version, review, audit, pointer, semantic>>

SemanticCommit(q) ==
    /\ request[q].step = "semantic"
    /\ semantic' = [semantic EXCEPT ![request[q].s] = "PUBLISHED"]
    /\ request' = [request EXCEPT ![q] = Idle]
    /\ UNCHANGED <<version, review, audit, pointer>>

-----------------------------------------------------------------------------
(* Activation.  The version is loaded before the dataset row is locked; the  *)
(* administrator's handler also loads the pointer before the lock, to bind   *)
(* the new version to the semantic version that is bound now.  An            *)
(* installation names the semantic version itself and meets the pointer for  *)
(* the first time under the lock.                                            *)

Activatable == LockedContent

ActivateLoad(q, v) ==
    /\ request[q] = Idle
    /\ version[v] \in Activatable
    /\ request' = [request EXCEPT ![q] = Loaded("load", v)]
    /\ UNCHANGED <<version, review, audit, pointer, semantic>>

(* SemanticActivationService.current: refuses a pointer to a version that is *)
(* not ACTIVE.                                                               *)
ReadCurrent(q) ==
    LET p == pointer[DatasetOf[request[q].v]] IN
    /\ request[q].step = "load"
    /\ p.v # NoVersion
    /\ version[p.v] = "ACTIVE"
    /\ request' = [request EXCEPT ![q] = [@ EXCEPT !.step = "current", !.ptr = p, !.s = p.s]]
    /\ UNCHANGED <<version, review, audit, pointer, semantic>>

Bindable(s, v) ==
    \/ s = NoSemantic
    \/ s \in Semantics /\ semantic[s] \in LockedContent /\ s \in Accepts[v]

Locked(q, s, p) ==
    [request[q] EXCEPT !.step = "lock", !.ptr = p, !.s = s,
                       !.seenSemantic = IF s = NoSemantic THEN "DRAFT" ELSE semantic[s]]

(* A binding that is already in place is answered without a write.           *)
ActivateLock(q, s) ==
    LET v == request[q].v
        d == DatasetOf[v]
        p == IF request[q].step = "current" THEN request[q].ptr ELSE pointer[d]
    IN
    /\ request[q].step \in {"load", "current"}
    /\ request[q].step = "current" => s = request[q].s
    /\ DatasetFree(d)
    /\ Bindable(s, v)
    /\ <<p.v, p.s>> # <<v, s>>
    /\ request' = [request EXCEPT ![q] = Locked(q, s, p)]
    /\ UNCHANGED <<version, review, audit, pointer, semantic>>

(* The pointed version leaves ACTIVE before the new one enters it.  When     *)
(* both are the same row the session has just written SUPERSEDED to it.      *)
VersionsAfter(q) ==
    LET r == request[q]
        retired == [v \in Versions |-> IF v = r.ptr.v THEN "SUPERSEDED" ELSE version[v]]
    IN  [retired EXCEPT
            ![r.v] = Flush(@, IF r.v = r.ptr.v THEN "SUPERSEDED" ELSE r.seen, "ACTIVE")]

SemanticsAfter(q) ==
    LET r == request[q]
        retired == [s \in Semantics |->
                       IF s = r.ptr.s /\ s # r.s THEN "SUPERSEDED" ELSE semantic[s]]
    IN  [s \in Semantics |->
            IF s = r.s THEN Flush(retired[s], r.seenSemantic, "ACTIVE") ELSE retired[s]]

PointerAfter(q) ==
    LET r == request[q]
        row == pointer[DatasetOf[r.v]]
    IN  [v |-> Flush(row.v, r.ptr.v, r.v),
         s |-> Flush(row.s, r.ptr.s, r.s),
         lock |-> r.ptr.lock + 1]

ActivateCommit(q) ==
    LET d == DatasetOf[request[q].v] IN
    /\ request[q].step = "lock"
    /\ request[q].ptr.lock < MaxMoves
    /\ UniqueActive(VersionsAfter(q), VersionsOf(d))
    /\ UniqueActive(SemanticsAfter(q), Semantics)
    /\ version' = VersionsAfter(q)
    /\ semantic' = SemanticsAfter(q)
    /\ pointer' = [pointer EXCEPT ![d] = PointerAfter(q)]
    /\ audit' = audit \cup {<<"ACTIVATE", request[q].v>>}
    /\ request' = [request EXCEPT ![q] = Idle]
    /\ UNCHANGED review

(* The session is rolled back: a unique key or index refuses its commit, it  *)
(* is the victim of a deadlock, its failure hook raises, or it is lost.      *)
Abort(q) ==
    /\ request[q] # Idle
    /\ request' = [request EXCEPT ![q] = Idle]
    /\ UNCHANGED <<version, review, audit, pointer, semantic>>

(* RollbackService.rollback loads everything under the lock, and what it     *)
(* loads cannot change before its commit: one step.                          *)
Rollback(d, target) ==
    LET previous == pointer[d].v IN
    /\ DatasetFree(d)
    /\ previous \notin {NoVersion, target}
    /\ DatasetOf[target] = d
    /\ version[target] \in {"PUBLISHED", "SUPERSEDED"}
    /\ pointer[d].lock < MaxMoves
    /\ version' = [version EXCEPT ![previous] = "SUPERSEDED", ![target] = "ACTIVE"]
    /\ UniqueActive(version', VersionsOf(d))
    /\ pointer' = [pointer EXCEPT ![d].v = target, ![d].lock = @ + 1]
    /\ audit' = audit \cup {<<"ROLLBACK", target>>}
    /\ UNCHANGED <<review, semantic, request>>

-----------------------------------------------------------------------------
Next ==
    \/ \E v \in Versions, passed \in BOOLEAN : CreateVersion(v, passed)
    \/ \E q \in Requests, v \in Versions :
          \/ SubmitLoad(q, v)
          \/ \E decision \in {"APPROVED", "REJECTED"} : DecideLoad(q, v, decision)
          \/ PublishLoad(q, v)
          \/ ActivateLoad(q, v)
    \/ \E q \in Requests, s \in Semantics : SemanticLoad(q, s)
    \/ \E q \in Requests, s \in Semantics \cup {NoSemantic} : ActivateLock(q, s)
    \/ \E q \in Requests :
          \/ SubmitCommit(q)
          \/ DecideCommit(q)
          \/ PublishCommit(q)
          \/ SemanticCommit(q)
          \/ ReadCurrent(q)
          \/ ActivateCommit(q)
          \/ Abort(q)
    \/ \E d \in Datasets, v \in Versions : Rollback(d, v)

Spec == Init /\ [][Next]_vars

-----------------------------------------------------------------------------
(* Properties.                                                               *)

(* A version that consumers can be given, or that the pointer of its dataset *)
(* names, was approved, published, and put there by an activation or a       *)
(* rollback, each of them on record, whatever stale session wrote last       *)
(* (ReleaseService.decide and publish, activate, rollback).                  *)
ServedWasReleased ==
    \A v \in Versions :
        version[v] \in {"ACTIVE", "SUPERSEDED"} \/ pointer[DatasetOf[v]].v = v =>
            /\ {<<"APPROVED", v>>, <<"PUBLISH", v>>} \subseteq audit
            /\ \E move \in {"ACTIVATE", "ROLLBACK"} : <<move, v>> \in audit

(* A version whose content is locked never re-enters the approval pipeline:  *)
(* no late submission, decision or quality result makes it editable again.   *)
(* A late rejection may still withdraw it (ReleaseService, the keys of       *)
(* _audit and the unique review record).                                     *)
ReleasedStaysLocked ==
    [][\A v \in Versions : version[v] \in LockedContent =>
          version'[v] \in LockedContent \cup {"REJECTED"}]_vars

(* "Activating a new version turns the old one SUPERSEDED in the same        *)
(* transaction": an ACTIVE version is the one the pointer names.  When it is *)
(* not, neither the administrator's activation nor a rollback can move the   *)
(* pointer again.                                                            *)
ActiveIsPointed ==
    \A v \in Versions : version[v] = "ACTIVE" => pointer[DatasetOf[v]].v = v

(* "The rollback target is not a compatible published version": a pointer    *)
(* binds a dataset version to a semantic version its range accepts, after a  *)
(* rollback as after an activation.                                          *)
BoundPairIsCompatible ==
    \A d \in Datasets : pointer[d].s # NoSemantic => pointer[d].s \in Accepts[pointer[d].v]
=============================================================================
