---------------------------- MODULE ReleaseProofs ----------------------------
(***************************************************************************)
(* Proofs about DatasetRelease for any number of datasets, versions,       *)
(* semantic versions and concurrent requests.                              *)
(***************************************************************************)
EXTENDS DatasetRelease, TLAPS

(* A request at work names its version, or its semantic version.           *)
AtWork(x) ==
    /\ x.step \notin {"idle", "semantic"} => x.v \in Versions
    /\ x.step = "semantic" => x.s \in Semantics

TypeInv == TypeOK /\ \A q \in Requests : AtWork(request[q])

(* The records a version leaves behind on its way to an activation.        *)
Published(log, v) == <<"APPROVED", v>> \in log /\ <<"PUBLISH", v>> \in log

Moved(log, v) == <<"ACTIVATE", v>> \in log \/ <<"ROLLBACK", v>> \in log

(* What the rows say, and what a session that will write them has seen.    *)
VersionsOnRecord ==
    \A v \in Versions :
        /\ version[v] = "APPROVED" => <<"APPROVED", v>> \in audit
        /\ version[v] \in LockedContent => Published(audit, v)
        /\ version[v] \in {"ACTIVE", "SUPERSEDED"} => Moved(audit, v)
        /\ <<"APPROVED", v>> \in audit => review[v] # "NONE"

PointersOnRecord ==
    \A d \in Datasets : pointer[d].v # NoVersion =>
        Published(audit, pointer[d].v) /\ Moved(audit, pointer[d].v)

Justified(log, x) ==
    /\ x.step = "publish" => <<"APPROVED", x.v>> \in log
    /\ x.step \in {"load", "current", "lock"} => Published(log, x.v)
    /\ x.ptr.v # NoVersion => Published(log, x.ptr.v) /\ Moved(log, x.ptr.v)

SessionsOnRecord == \A q \in Requests : Justified(audit, request[q])

ReleaseInv == TypeInv /\ VersionsOnRecord /\ PointersOnRecord /\ SessionsOnRecord

----------------------------------------------------------------------------
(* The shapes of the rows the actions write.                               *)

LEMMA IdleSession == /\ Idle \in Session
                     /\ Idle.step = "idle"
                     /\ Idle.ptr.v = NoVersion
BY ReleaseAssumption DEF Idle, Session, NoPointer, Pointer, VersionStatus, SemanticStatus

LEMMA LoadedSession ==
  ASSUME TypeOK, NEW v \in Versions,
         NEW step \in {"submit", "APPROVED", "REJECTED", "publish", "load"}
  PROVE  /\ Loaded(step, v) \in Session
         /\ Loaded(step, v).step = step
         /\ Loaded(step, v).v = v
         /\ Loaded(step, v).ptr.v = NoVersion
BY IdleSession DEF Loaded, Idle, Session, TypeOK, NoPointer

(* A session that is replaced by a session at work leaves all at work.     *)
LEMMA ReplaceSession ==
  ASSUME TypeInv, NEW q \in Requests, NEW x \in Session, AtWork(x),
         request' = [request EXCEPT ![q] = x]
  PROVE  /\ request' \in [Requests -> Session]
         /\ \A p \in Requests : AtWork(request'[p])
BY DEF TypeInv, TypeOK, AtWork

(* A commit, an abort or an answer ends a request.                         *)
LEMMA EndSession ==
  ASSUME TypeInv, NEW q \in Requests, request' = [request EXCEPT ![q] = Idle]
  PROVE  /\ request' \in [Requests -> Session]
         /\ \A p \in Requests : AtWork(request'[p])
<1>1. AtWork(Idle) BY IdleSession DEF AtWork
<1> QED BY <1>1, IdleSession, ReplaceSession

LEMMA FlushChoice ==
  ASSUME NEW row, NEW loaded, NEW value
  PROVE  Flush(row, loaded, value) \in {row, value}
BY DEF Flush

(* The session that activates, its rows after the flush.                   *)
LEMMA ActivationRows ==
  ASSUME TypeInv, NEW q \in Requests, request[q].step = "lock",
         request[q].ptr.lock < MaxMoves
  PROVE  /\ VersionsAfter(q) \in [Versions -> VersionStatus]
         /\ SemanticsAfter(q) \in [Semantics -> SemanticStatus]
         /\ PointerAfter(q) \in Pointer
         /\ PointerAfter(q).v \in {request[q].v, pointer[DatasetOf[request[q].v]].v}
         /\ \A v \in Versions :
               \/ VersionsAfter(q)[v] = version[v]
               \/ VersionsAfter(q)[v] = "SUPERSEDED" /\ v = request[q].ptr.v
               \/ VersionsAfter(q)[v] = "ACTIVE" /\ v = request[q].v
<1> DEFINE r == request[q]
           d == DatasetOf[r.v]
           old == [v \in Versions |-> IF v = r.ptr.v THEN "SUPERSEDED" ELSE version[v]]
<1>1. r \in Session /\ r.v \in Versions BY DEF TypeInv, TypeOK, AtWork
<1>2. d \in Datasets /\ pointer[d] \in Pointer
    BY <1>1, ReleaseAssumption DEF TypeInv, TypeOK
<1>3. \A v \in Versions : VersionsAfter(q)[v] =
        IF v = r.v
        THEN Flush(old[v], IF r.v = r.ptr.v THEN "SUPERSEDED" ELSE r.seen, "ACTIVE")
        ELSE old[v]
    BY <1>1 DEF VersionsAfter
<1>4. ASSUME NEW v \in Versions
      PROVE  \/ VersionsAfter(q)[v] = version[v]
             \/ VersionsAfter(q)[v] = "SUPERSEDED" /\ v = r.ptr.v
             \/ VersionsAfter(q)[v] = "ACTIVE" /\ v = r.v
    BY <1>3 DEF Flush
<1>5. VersionsAfter(q) \in [Versions -> VersionStatus]
    <2>1. VersionsAfter(q) = [v \in Versions |-> VersionsAfter(q)[v]]
        BY DEF VersionsAfter
    <2>2. \A v \in Versions : VersionsAfter(q)[v] \in VersionStatus
        BY <1>4 DEF TypeInv, TypeOK, VersionStatus, LockedContent
    <2> QED BY <2>1, <2>2
<1>6. SemanticsAfter(q) \in [Semantics -> SemanticStatus]
    BY DEF SemanticsAfter, Flush, TypeInv, TypeOK, SemanticStatus, LockedContent
<1>7. r.ptr \in Pointer /\ r.s \in Semantics \cup {NoSemantic} BY <1>1 DEF Session
<1>8. r.ptr.lock + 1 \in 0 .. MaxMoves
    BY <1>7, ReleaseAssumption DEF Pointer
<1>9. PointerAfter(q) = [v |-> Flush(pointer[d].v, r.ptr.v, r.v),
                         s |-> Flush(pointer[d].s, r.ptr.s, r.s),
                         lock |-> r.ptr.lock + 1]
    BY DEF PointerAfter
<1>10. PointerAfter(q).v \in {r.v, pointer[d].v}
    BY <1>9, FlushChoice
<1>11. PointerAfter(q) \in Pointer
    <2>1. Flush(pointer[d].v, r.ptr.v, r.v) \in Versions \cup {NoVersion}
        BY <1>1, <1>2, FlushChoice DEF Pointer
    <2>2. Flush(pointer[d].s, r.ptr.s, r.s) \in Semantics \cup {NoSemantic}
        BY <1>2, <1>7, FlushChoice DEF Pointer
    <2> QED BY <1>8, <1>9, <2>1, <2>2 DEF Pointer
<1> QED BY <1>4, <1>5, <1>6, <1>10, <1>11

(* The session that takes the lock.                                        *)
LEMMA LockedSession ==
  ASSUME TypeInv, NEW q \in Requests, NEW s \in Semantics \cup {NoSemantic},
         NEW p \in Pointer, request[q].step \in {"load", "current"}
  PROVE  /\ Locked(q, s, p) \in Session
         /\ Locked(q, s, p).step = "lock"
         /\ Locked(q, s, p).v = request[q].v
         /\ Locked(q, s, p).ptr = p
         /\ request[q].v \in Versions
<1>1. request[q] \in Session /\ request[q].v \in Versions BY DEF TypeInv, TypeOK, AtWork
<1>2. (IF s = NoSemantic THEN "DRAFT" ELSE semantic[s]) \in SemanticStatus
    BY DEF TypeInv, TypeOK, SemanticStatus
<1> QED BY <1>1, <1>2 DEF Locked, Session
----------------------------------------------------------------------------
(* Type correctness.                                                       *)

LEMMA TypeInit == Init => TypeInv
<1> SUFFICES ASSUME Init PROVE TypeInv OBVIOUS
<1>1. NoPointer \in Pointer BY ReleaseAssumption DEF NoPointer, Pointer
<1>2. request \in [Requests -> Session] /\ \A q \in Requests : AtWork(request[q])
    BY IdleSession DEF Init, AtWork
<1> QED
    BY <1>1, <1>2, ReleaseAssumption
    DEF Init, TypeInv, TypeOK, VersionStatus, LockedContent, ReviewStatus, AuditAction,
        SemanticStatus

LEMMA TypeStep == TypeInv /\ [Next]_vars => TypeInv'
<1> SUFFICES ASSUME TypeInv, [Next]_vars PROVE TypeInv' OBVIOUS
<1> USE DEF TypeInv, TypeOK
<1>1. ASSUME NEW v \in Versions, NEW passed \in BOOLEAN, CreateVersion(v, passed)
      PROVE  TypeInv'
    BY <1>1 DEF CreateVersion, QualityStatus, VersionStatus, AtWork
<1>2. ASSUME NEW q \in Requests, NEW v \in Versions,
             NEW step \in {"submit", "APPROVED", "REJECTED", "publish", "load"},
             request' = [request EXCEPT ![q] = Loaded(step, v)],
             UNCHANGED <<version, review, audit, pointer, semantic>>
      PROVE  TypeInv'
    <2>1. AtWork(Loaded(step, v)) BY LoadedSession DEF AtWork
    <2>2. Loaded(step, v) \in Session BY LoadedSession
    <2>3. /\ request' \in [Requests -> Session]
          /\ \A p \in Requests : AtWork(request'[p])
        BY <1>2, <2>1, <2>2, ReplaceSession
    <2> QED BY <1>2, <2>3
<1>3. ASSUME NEW q \in Requests, NEW s \in Semantics, SemanticLoad(q, s) PROVE TypeInv'
    <2> DEFINE x == [Idle EXCEPT !.step = "semantic", !.s = s]
    <2>1. x \in Session /\ AtWork(x) BY IdleSession DEF Session, AtWork, Idle
    <2>2. request' = [request EXCEPT ![q] = x] BY <1>3 DEF SemanticLoad
    <2> HIDE DEF x
    <2>3. /\ request' \in [Requests -> Session]
          /\ \A p \in Requests : AtWork(request'[p])
        BY <2>1, <2>2, ReplaceSession
    <2> QED BY <1>3, <2>3 DEF SemanticLoad
<1>4. ASSUME NEW q \in Requests, NEW s \in Semantics \cup {NoSemantic}, ActivateLock(q, s)
      PROVE  TypeInv'
    <2> DEFINE d == DatasetOf[request[q].v]
               p == IF request[q].step = "current" THEN request[q].ptr ELSE pointer[d]
    <2>1. request[q] \in Session /\ request[q].v \in Versions
        BY <1>4 DEF ActivateLock, AtWork
    <2>2. p \in Pointer BY <2>1, ReleaseAssumption DEF Session
    <2>3. request[q].step \in {"load", "current"} /\ request' = [request EXCEPT ![q] = Locked(q, s, p)]
        BY <1>4 DEF ActivateLock
    <2> HIDE DEF p
    <2>4. Locked(q, s, p) \in Session /\ AtWork(Locked(q, s, p))
        BY <2>2, <2>3, LockedSession DEF AtWork
    <2>5. /\ request' \in [Requests -> Session]
          /\ \A b \in Requests : AtWork(request'[b])
        BY <2>3, <2>4, ReplaceSession
    <2> QED BY <1>4, <2>5 DEF ActivateLock
<1>5. ASSUME NEW q \in Requests, SubmitCommit(q) PROVE TypeInv'
    <2>1. /\ request' \in [Requests -> Session]
          /\ \A p \in Requests : AtWork(request'[p])
        BY <1>5, EndSession DEF SubmitCommit
    <2>2. request[q].v \in Versions BY <1>5 DEF SubmitCommit, AtWork
    <2>3. version' \in [Versions -> VersionStatus]
        BY <1>5, <2>2, FlushChoice DEF SubmitCommit, VersionStatus
    <2> QED BY <1>5, <2>1, <2>2, <2>3 DEF SubmitCommit, ReviewStatus, AuditAction
<1>6. ASSUME NEW q \in Requests, DecideCommit(q) PROVE TypeInv'
    <2>1. /\ request' \in [Requests -> Session]
          /\ \A p \in Requests : AtWork(request'[p])
        BY <1>6, EndSession DEF DecideCommit
    <2>2. request[q].v \in Versions BY <1>6 DEF DecideCommit, AtWork
    <2> QED
        BY <1>6, <2>1, <2>2 DEF DecideCommit, VersionStatus, ReviewStatus, AuditAction
<1>7. ASSUME NEW q \in Requests, PublishCommit(q) PROVE TypeInv'
    <2>1. /\ request' \in [Requests -> Session]
          /\ \A p \in Requests : AtWork(request'[p])
        BY <1>7, EndSession DEF PublishCommit
    <2>2. request[q].v \in Versions BY <1>7 DEF PublishCommit, AtWork
    <2> QED
        BY <1>7, <2>1, <2>2 DEF PublishCommit, VersionStatus, LockedContent, AuditAction
<1>8. ASSUME NEW q \in Requests, SemanticCommit(q) PROVE TypeInv'
    <2>1. /\ request' \in [Requests -> Session]
          /\ \A p \in Requests : AtWork(request'[p])
        BY <1>8, EndSession DEF SemanticCommit
    <2> QED BY <1>8, <2>1 DEF SemanticCommit, SemanticStatus, LockedContent
<1>9. ASSUME NEW q \in Requests, ReadCurrent(q) PROVE TypeInv'
    <2> DEFINE p == pointer[DatasetOf[request[q].v]]
               x == [request[q] EXCEPT !.step = "current", !.ptr = p, !.s = p.s]
    <2>1. request[q] \in Session /\ request[q].v \in Versions
        BY <1>9 DEF ReadCurrent, AtWork
    <2>2. p \in Pointer BY <2>1, ReleaseAssumption
    <2>3. x \in Session /\ AtWork(x) BY <2>1, <2>2 DEF Session, AtWork, Pointer
    <2>4. request' = [request EXCEPT ![q] = x] BY <1>9 DEF ReadCurrent
    <2> HIDE DEF x
    <2>5. /\ request' \in [Requests -> Session]
          /\ \A b \in Requests : AtWork(request'[b])
        BY <2>3, <2>4, ReplaceSession
    <2> QED BY <1>9, <2>5 DEF ReadCurrent
<1>10. ASSUME NEW q \in Requests, ActivateCommit(q) PROVE TypeInv'
    <2>1. /\ request' \in [Requests -> Session]
          /\ \A p \in Requests : AtWork(request'[p])
        BY <1>10, EndSession DEF ActivateCommit
    <2>2. request[q].v \in Versions /\ DatasetOf[request[q].v] \in Datasets
        BY <1>10, ReleaseAssumption DEF ActivateCommit, AtWork
    <2>3. /\ VersionsAfter(q) \in [Versions -> VersionStatus]
          /\ SemanticsAfter(q) \in [Semantics -> SemanticStatus]
          /\ PointerAfter(q) \in Pointer
        BY <1>10, ActivationRows DEF ActivateCommit
    <2> QED BY <1>10, <2>1, <2>2, <2>3 DEF ActivateCommit, AuditAction
<1>11. ASSUME NEW q \in Requests, Abort(q) PROVE TypeInv'
    <2>1. /\ request' \in [Requests -> Session]
          /\ \A p \in Requests : AtWork(request'[p])
        BY <1>11, EndSession DEF Abort
    <2> QED BY <1>11, <2>1 DEF Abort
<1>12. ASSUME NEW d \in Datasets, NEW v \in Versions, Rollback(d, v) PROVE TypeInv'
    <2>1. [pointer[d] EXCEPT !.v = v, !.lock = @ + 1] \in Pointer
        BY <1>12, ReleaseAssumption DEF Rollback, Pointer
    <2>2. pointer' = [pointer EXCEPT ![d] = [pointer[d] EXCEPT !.v = v, !.lock = @ + 1]]
        BY <1>12 DEF Rollback
    <2>3. pointer' \in [Datasets -> Pointer] BY <2>1, <2>2
    <2> QED
        BY <1>12, <2>3 DEF Rollback, VersionStatus, LockedContent, AuditAction, AtWork
<1>13. CASE UNCHANGED vars BY <1>13 DEF vars, AtWork
<1> QED
    BY <1>1, <1>2, <1>3, <1>4, <1>5, <1>6, <1>7, <1>8, <1>9, <1>10, <1>11, <1>12, <1>13
    DEF Next, SubmitLoad, DecideLoad, PublishLoad, ActivateLoad

(* Every reachable state is typed, for any number of versions and requests *)
(* (the rows and the statuses of platform/dataset_release.py).             *)
THEOREM TypeCorrect == Spec => []TypeOK
<1>1. Spec => []TypeInv BY TypeInit, TypeStep, PTL DEF Spec
<1>2. TypeInv => TypeOK BY DEF TypeInv
<1> QED BY <1>1, <1>2, PTL
----------------------------------------------------------------------------
(* What is served was released.                                            *)

LEMMA InvInit == Init => ReleaseInv
<1> SUFFICES ASSUME Init PROVE ReleaseInv OBVIOUS
<1>1. VersionsOnRecord
    BY ReleaseAssumption DEF Init, VersionsOnRecord, LockedContent, Published
<1>2. PointersOnRecord BY DEF Init, PointersOnRecord, NoPointer
<1>3. SessionsOnRecord BY IdleSession DEF Init, SessionsOnRecord, Justified
<1> QED BY <1>1, <1>2, <1>3, TypeInit DEF ReleaseInv

(* Records are never deleted, so what was on record stays on record.       *)
LEMMA RecordsGrow == ASSUME [Next]_vars PROVE audit \subseteq audit'
BY DEF Next, vars, CreateVersion, SubmitLoad, DecideLoad, PublishLoad, ActivateLoad,
       SemanticLoad, ActivateLock, SubmitCommit, DecideCommit, PublishCommit,
       SemanticCommit, ReadCurrent, ActivateCommit, Abort, Rollback

LEMMA OnRecordGrows ==
  ASSUME NEW old, NEW new, old \subseteq new
  PROVE  /\ \A v : Published(old, v) => Published(new, v)
         /\ \A v : Moved(old, v) => Moved(new, v)
         /\ \A x : Justified(old, x) => Justified(new, x)
BY DEF Published, Moved, Justified

(* A session that is replaced by a justified one leaves all justified.     *)
LEMMA JustifiedSessions ==
  ASSUME ReleaseInv, audit \subseteq audit', NEW q \in Requests, NEW x,
         request' = [request EXCEPT ![q] = x], Justified(audit', x)
  PROVE  SessionsOnRecord'
<1>1. \A p \in Requests : request'[p] = x \/ request'[p] = request[p]
    BY DEF ReleaseInv, TypeInv, TypeOK
<1>2. \A p \in Requests : Justified(audit', request[p])
    BY OnRecordGrows DEF ReleaseInv, SessionsOnRecord
<1> QED BY <1>1, <1>2 DEF SessionsOnRecord

LEMMA EndJustified ==
  ASSUME ReleaseInv, audit \subseteq audit', NEW q \in Requests,
         request' = [request EXCEPT ![q] = Idle]
  PROVE  SessionsOnRecord'
<1>1. Justified(audit', Idle) BY IdleSession DEF Justified
<1> QED BY <1>1, JustifiedSessions

(* Steps that only load leave the rows, and what they say, alone.          *)
LEMMA LoadKeepsRows ==
  ASSUME ReleaseInv, UNCHANGED <<version, review, audit, pointer>>
  PROVE  VersionsOnRecord' /\ PointersOnRecord'
BY DEF ReleaseInv, VersionsOnRecord, PointersOnRecord

LEMMA PointersKept ==
  ASSUME ReleaseInv, audit \subseteq audit', UNCHANGED pointer
  PROVE  PointersOnRecord'
BY OnRecordGrows DEF ReleaseInv, PointersOnRecord

LEMMA InvStep == ReleaseInv /\ [Next]_vars => ReleaseInv'
<1> SUFFICES ASSUME ReleaseInv, [Next]_vars PROVE ReleaseInv' OBVIOUS
<1>g. audit \subseteq audit' BY RecordsGrow
<1>t. TypeInv' BY TypeStep DEF ReleaseInv
<1> SUFFICES VersionsOnRecord' /\ PointersOnRecord' /\ SessionsOnRecord'
    BY <1>t DEF ReleaseInv
<1>k. /\ \A v \in Versions : version[v] \in LockedContent => Published(audit', v)
      /\ \A v \in Versions : version[v] \in {"ACTIVE", "SUPERSEDED"} => Moved(audit', v)
      /\ \A v \in Versions : version[v] = "APPROVED" => <<"APPROVED", v>> \in audit'
    BY <1>g, OnRecordGrows DEF ReleaseInv, VersionsOnRecord
<1>1. ASSUME NEW v \in Versions, NEW passed \in BOOLEAN, CreateVersion(v, passed)
      PROVE  VersionsOnRecord' /\ PointersOnRecord' /\ SessionsOnRecord'
    <2>1. VersionsOnRecord'
        BY <1>1, <1>k DEF CreateVersion, QualityStatus, LockedContent, VersionsOnRecord,
           ReleaseInv, TypeInv, TypeOK
    <2> QED BY <1>1, <1>g, <2>1, PointersKept
            DEF CreateVersion, ReleaseInv, SessionsOnRecord
<1>2. ASSUME NEW q \in Requests, NEW v \in Versions,
             NEW step \in {"submit", "APPROVED", "REJECTED", "publish", "load"},
             step = "publish" => <<"APPROVED", v>> \in audit,
             step = "load" => Published(audit, v),
             request' = [request EXCEPT ![q] = Loaded(step, v)],
             UNCHANGED <<version, review, audit, pointer, semantic>>
      PROVE  VersionsOnRecord' /\ PointersOnRecord' /\ SessionsOnRecord'
    <2>1. Justified(audit', Loaded(step, v))
        BY <1>2, LoadedSession DEF Justified, ReleaseInv, TypeInv
    <2> QED BY <1>2, <1>g, <2>1, LoadKeepsRows, JustifiedSessions
<1>3. ASSUME NEW q \in Requests, NEW s \in Semantics, SemanticLoad(q, s)
      PROVE  VersionsOnRecord' /\ PointersOnRecord' /\ SessionsOnRecord'
    <2> DEFINE x == [Idle EXCEPT !.step = "semantic", !.s = s]
    <2>1. Justified(audit', x) BY DEF Justified, Idle, NoPointer
    <2>2. request' = [request EXCEPT ![q] = x] BY <1>3 DEF SemanticLoad
    <2> HIDE DEF x
    <2> QED BY <1>3, <1>g, <2>1, <2>2, LoadKeepsRows, JustifiedSessions DEF SemanticLoad
<1>4. ASSUME NEW q \in Requests, NEW s \in Semantics \cup {NoSemantic}, ActivateLock(q, s)
      PROVE  VersionsOnRecord' /\ PointersOnRecord' /\ SessionsOnRecord'
    <2> DEFINE d == DatasetOf[request[q].v]
               p == IF request[q].step = "current" THEN request[q].ptr ELSE pointer[d]
    <2>1. request[q] \in Session /\ request[q].v \in Versions
        BY <1>4 DEF ActivateLock, AtWork, ReleaseInv, TypeInv, TypeOK
    <2>2. p \in Pointer
        BY <2>1, ReleaseAssumption DEF Session, ReleaseInv, TypeInv, TypeOK
    <2>3. p.v # NoVersion => Published(audit, p.v) /\ Moved(audit, p.v)
        BY <2>1, ReleaseAssumption
        DEF ReleaseInv, PointersOnRecord, SessionsOnRecord, Justified
    <2>4. Published(audit, request[q].v)
        BY <1>4 DEF ActivateLock, ReleaseInv, SessionsOnRecord, Justified
    <2>5. /\ request[q].step \in {"load", "current"}
          /\ request' = [request EXCEPT ![q] = Locked(q, s, p)]
          /\ UNCHANGED <<version, review, audit, pointer>>
        BY <1>4 DEF ActivateLock
    <2> HIDE DEF p
    <2>6. Justified(audit', Locked(q, s, p))
        BY <2>2, <2>3, <2>4, <2>5, LockedSession DEF Justified, ReleaseInv
    <2> QED BY <1>g, <2>5, <2>6, LoadKeepsRows, JustifiedSessions
<1>5. ASSUME NEW q \in Requests, SubmitCommit(q)
      PROVE  VersionsOnRecord' /\ PointersOnRecord' /\ SessionsOnRecord'
    <2>1. VersionsOnRecord'
        <3>1. \A v \in Versions : version'[v] \in {version[v], "PENDING_APPROVAL"}
            BY <1>5, FlushChoice DEF SubmitCommit, ReleaseInv, TypeInv, TypeOK
        <3>2. \A v \in Versions : <<"APPROVED", v>> \in audit' => review'[v] # "NONE"
            BY <1>5 DEF SubmitCommit, VersionsOnRecord, ReleaseInv, TypeInv, TypeOK
        <3> QED BY <1>k, <3>1, <3>2 DEF LockedContent, VersionsOnRecord
    <2> QED BY <1>5, <1>g, <2>1, PointersKept, EndJustified DEF SubmitCommit
<1>6. ASSUME NEW q \in Requests, DecideCommit(q)
      PROVE  VersionsOnRecord' /\ PointersOnRecord' /\ SessionsOnRecord'
    <2>1. VersionsOnRecord'
        BY <1>6, <1>k DEF DecideCommit, LockedContent, VersionsOnRecord,
           ReleaseInv, TypeInv, TypeOK
    <2> QED BY <1>6, <1>g, <2>1, PointersKept, EndJustified DEF DecideCommit
<1>7. ASSUME NEW q \in Requests, PublishCommit(q)
      PROVE  VersionsOnRecord' /\ PointersOnRecord' /\ SessionsOnRecord'
    <2>1. <<"APPROVED", request[q].v>> \in audit
        BY <1>7 DEF PublishCommit, ReleaseInv, SessionsOnRecord, Justified
    <2>2. Published(audit', request[q].v) BY <1>7, <2>1 DEF PublishCommit, Published
    <2>3. VersionsOnRecord'
        BY <1>7, <1>k, <2>1, <2>2 DEF PublishCommit, LockedContent, VersionsOnRecord,
           ReleaseInv, TypeInv, TypeOK
    <2> QED BY <1>7, <1>g, <2>3, PointersKept, EndJustified DEF PublishCommit
<1>8. ASSUME NEW q \in Requests, SemanticCommit(q) \/ Abort(q)
      PROVE  VersionsOnRecord' /\ PointersOnRecord' /\ SessionsOnRecord'
    BY <1>8, <1>g, LoadKeepsRows, EndJustified DEF SemanticCommit, Abort
<1>9. ASSUME NEW q \in Requests, ReadCurrent(q)
      PROVE  VersionsOnRecord' /\ PointersOnRecord' /\ SessionsOnRecord'
    <2> DEFINE p == pointer[DatasetOf[request[q].v]]
               x == [request[q] EXCEPT !.step = "current", !.ptr = p, !.s = p.s]
    <2>1. request[q] \in Session /\ request[q].v \in Versions
        BY <1>9 DEF ReadCurrent, AtWork, ReleaseInv, TypeInv, TypeOK
    <2>2. p.v # NoVersion => Published(audit, p.v) /\ Moved(audit, p.v)
        BY <2>1, ReleaseAssumption DEF ReleaseInv, PointersOnRecord
    <2>3. Published(audit, request[q].v)
        BY <1>9 DEF ReadCurrent, ReleaseInv, SessionsOnRecord, Justified
    <2>4. x.step = "current" /\ x.v = request[q].v /\ x.ptr = p BY <2>1 DEF Session
    <2>5. request' = [request EXCEPT ![q] = x] /\ UNCHANGED <<version, review, audit, pointer>>
        BY <1>9 DEF ReadCurrent
    <2> HIDE DEF x
    <2>6. Justified(audit', x) BY <2>2, <2>3, <2>4, <2>5 DEF Justified
    <2> QED BY <1>g, <2>5, <2>6, LoadKeepsRows, JustifiedSessions
<1>10. ASSUME NEW q \in Requests, ActivateCommit(q)
       PROVE  VersionsOnRecord' /\ PointersOnRecord' /\ SessionsOnRecord'
    <2> DEFINE r == request[q]
               d == DatasetOf[r.v]
    <2>1. r.v \in Versions /\ d \in Datasets
        BY <1>10, ReleaseAssumption DEF ActivateCommit, AtWork, ReleaseInv, TypeInv, TypeOK
    <2>2. Published(audit', r.v) /\ Moved(audit', r.v)
        <3>1. Published(audit, r.v)
            BY <1>10 DEF ActivateCommit, ReleaseInv, SessionsOnRecord, Justified
        <3> QED BY <1>10, <1>g, <3>1, OnRecordGrows DEF ActivateCommit, Moved
    <2>3. \A v \in Versions : v = r.ptr.v => Published(audit', v) /\ Moved(audit', v)
        <3>1. r.ptr.v # NoVersion => Published(audit, r.ptr.v) /\ Moved(audit, r.ptr.v)
            BY DEF ReleaseInv, SessionsOnRecord, Justified
        <3>2. r.ptr.v # NoVersion => Published(audit', r.ptr.v) /\ Moved(audit', r.ptr.v)
            BY <1>g, <3>1, OnRecordGrows
        <3> QED BY <3>2, ReleaseAssumption
    <2>4. \A v \in Versions : \/ version'[v] = version[v]
                              \/ version'[v] = "SUPERSEDED" /\ v = r.ptr.v
                              \/ version'[v] = "ACTIVE" /\ v = r.v
        BY <1>10, ActivationRows DEF ActivateCommit, ReleaseInv
    <2>5. VersionsOnRecord'
        <3>1. \A v \in Versions : <<"APPROVED", v>> \in audit' => review'[v] # "NONE"
            BY <1>10 DEF ActivateCommit, ReleaseInv, VersionsOnRecord
        <3> QED BY <1>k, <2>2, <2>3, <2>4, <3>1 DEF VersionsOnRecord, LockedContent
    <2>6. PointerAfter(q).v \in {r.v, pointer[d].v}
        BY <1>10, ActivationRows DEF ActivateCommit, ReleaseInv
    <2>7. PointersOnRecord'
        <3>1. \A e \in Datasets : pointer'[e].v = r.v \/ pointer'[e].v = pointer[e].v
            BY <1>10, <2>1, <2>6 DEF ActivateCommit, ReleaseInv, TypeInv, TypeOK
        <3> QED BY <1>g, <2>2, <3>1, OnRecordGrows DEF ReleaseInv, PointersOnRecord
    <2> QED BY <1>10, <1>g, <2>5, <2>7, EndJustified DEF ActivateCommit
<1>11. ASSUME NEW d \in Datasets, NEW v \in Versions, Rollback(d, v)
       PROVE  VersionsOnRecord' /\ PointersOnRecord' /\ SessionsOnRecord'
    <2>1. Published(audit', v) /\ Moved(audit', v)
        <3>1. version[v] \in LockedContent BY <1>11 DEF Rollback, LockedContent
        <3> QED BY <1>11, <1>k, <3>1 DEF Rollback, Moved
    <2>2. LET u == pointer[d].v IN Published(audit', u) /\ Moved(audit', u)
        <3>1. pointer[d].v # NoVersion BY <1>11 DEF Rollback
        <3>2. Published(audit, pointer[d].v) /\ Moved(audit, pointer[d].v)
            BY <3>1 DEF ReleaseInv, PointersOnRecord
        <3> QED BY <1>g, <3>2, OnRecordGrows
    <2>3. \A u \in Versions : \/ version'[u] = version[u]
                              \/ version'[u] = "SUPERSEDED" /\ u = pointer[d].v
                              \/ version'[u] = "ACTIVE" /\ u = v
        BY <1>11 DEF Rollback, ReleaseInv, TypeInv, TypeOK
    <2>4. VersionsOnRecord'
        <3>1. \A u \in Versions : <<"APPROVED", u>> \in audit' => review'[u] # "NONE"
            BY <1>11 DEF Rollback, ReleaseInv, VersionsOnRecord
        <3> QED BY <1>k, <2>1, <2>2, <2>3, <3>1 DEF VersionsOnRecord, LockedContent
    <2>5. \A e \in Datasets : pointer'[e].v = v \/ pointer'[e].v = pointer[e].v
        BY <1>11 DEF Rollback, ReleaseInv, TypeInv, TypeOK, Pointer
    <2>6. PointersOnRecord'
        BY <1>g, <2>1, <2>5, OnRecordGrows DEF ReleaseInv, PointersOnRecord
    <2>7. SessionsOnRecord'
        BY <1>11, <1>g, OnRecordGrows DEF Rollback, ReleaseInv, SessionsOnRecord
    <2> QED BY <2>4, <2>6, <2>7
<1>12. CASE UNCHANGED vars
    BY <1>12, LoadKeepsRows DEF vars, ReleaseInv, SessionsOnRecord
<1>13. ASSUME NEW q \in Requests, NEW v \in Versions,
              \/ SubmitLoad(q, v)
              \/ \E decision \in {"APPROVED", "REJECTED"} : DecideLoad(q, v, decision)
              \/ PublishLoad(q, v)
              \/ ActivateLoad(q, v)
       PROVE  VersionsOnRecord' /\ PointersOnRecord' /\ SessionsOnRecord'
    <2>1. version[v] = "APPROVED" => <<"APPROVED", v>> \in audit
        BY DEF ReleaseInv, VersionsOnRecord
    <2>2. version[v] \in LockedContent => Published(audit, v)
        BY DEF ReleaseInv, VersionsOnRecord
    <2> QED BY <1>2, <1>13, <2>1, <2>2
            DEF SubmitLoad, DecideLoad, PublishLoad, Publishable, ActivateLoad, Activatable
<1> QED
    BY <1>1, <1>3, <1>4, <1>5, <1>6, <1>7, <1>8, <1>9, <1>10, <1>11, <1>12, <1>13 DEF Next

(* Whatever session writes last, a version that is active, was active or   *)
(* is pointed at was approved, published, and activated or rolled back to, *)
(* each on record (decide, publish, activate, rollback).                   *)
THEOREM ServedImpliesReleased == Spec => []ServedWasReleased
<1>1. ReleaseInv => ServedWasReleased
    BY ReleaseAssumption
    DEF ReleaseInv, VersionsOnRecord, PointersOnRecord, ServedWasReleased, Published, Moved,
        LockedContent
<1> QED BY <1>1, InvInit, InvStep, PTL DEF Spec

(* No step takes a published version back into the approval pipeline: the  *)
(* unique review record stops a late submission, the key of the decision a *)
(* late approval (ReleaseService.submit, decide, _audit).                  *)
THEOREM LockedContentStays == Spec => ReleasedStaysLocked
<1> DEFINE P == \A v \in Versions : version[v] \in LockedContent =>
                   version'[v] \in LockedContent \cup {"REJECTED"}
<1>1. ASSUME ReleaseInv, [Next]_vars PROVE [P]_vars
    <2> SUFFICES ASSUME NEW v \in Versions, version[v] \in LockedContent
                 PROVE  version'[v] \in LockedContent \cup {"REJECTED"}
        OBVIOUS
    <2>1. <<"APPROVED", v>> \in audit /\ review[v] # "NONE"
        BY <1>1 DEF ReleaseInv, VersionsOnRecord, Published
    <2>2. CASE UNCHANGED version BY <2>2
    <2>3. ASSUME NEW u \in Versions, NEW passed \in BOOLEAN, CreateVersion(u, passed)
          PROVE  version'[v] \in LockedContent
        BY <1>1, <2>3 DEF CreateVersion, LockedContent, ReleaseInv, TypeInv, TypeOK
    <2>4. ASSUME NEW q \in Requests, SubmitCommit(q) PROVE version'[v] \in LockedContent
        BY <1>1, <2>1, <2>4 DEF SubmitCommit, ReleaseInv, TypeInv, TypeOK
    <2>5. ASSUME NEW q \in Requests, DecideCommit(q)
          PROVE  version'[v] \in LockedContent \cup {"REJECTED"}
        BY <1>1, <2>1, <2>5 DEF DecideCommit, DecisionRecorded, ReleaseInv, TypeInv, TypeOK
    <2>6. ASSUME NEW q \in Requests, PublishCommit(q) PROVE version'[v] \in LockedContent
        BY <1>1, <2>6 DEF PublishCommit, LockedContent, ReleaseInv, TypeInv, TypeOK
    <2>7. ASSUME NEW q \in Requests, ActivateCommit(q) PROVE version'[v] \in LockedContent
        BY <1>1, <2>7, ActivationRows DEF ActivateCommit, LockedContent, ReleaseInv
    <2>8. ASSUME NEW d \in Datasets, NEW u \in Versions, Rollback(d, u)
          PROVE  version'[v] \in LockedContent
        BY <1>1, <2>8 DEF Rollback, LockedContent, ReleaseInv, TypeInv, TypeOK
    <2> QED
        BY <1>1, <2>2, <2>3, <2>4, <2>5, <2>6, <2>7, <2>8
        DEF Next, vars, SubmitLoad, DecideLoad, PublishLoad, ActivateLoad, SemanticLoad,
            ActivateLock, SemanticCommit, ReadCurrent, Abort
<1>2. ReleaseInv /\ [Next]_vars => [P]_vars BY <1>1
<1> HIDE DEF P
<1>3. Spec => [][P]_vars BY <1>2, InvInit, InvStep, PTL DEF Spec
<1> QED BY <1>3 DEF P, ReleasedStaysLocked
=============================================================================
