---------------------------- MODULE ScenarioInstall ----------------------------
(***************************************************************************)
(* The installation of a scenario (charging_ops/package_adapter.py,        *)
(* sales_ops/package_adapter.py): its package is registered, validated,    *)
(* published and activated (platform/scenario_packages.py), its data set   *)
(* version is created and released, its semantic version registered and    *)
(* published, and both are activated together.  Each of these is a commit  *)
(* of its own, in one session.                                             *)
(*                                                                         *)
(* The session keeps what it loaded: SELECT ... FOR UPDATE takes the lock  *)
(* of a row and leaves a loaded one as it was; a status equal to the       *)
(* loaded one is not written.  A statement under READ COMMITTED finds its  *)
(* rows as of its start, waits for their locks one by one, and drops those *)
(* that no longer qualify; it does not look for new ones.                  *)
(***************************************************************************)
EXTENDS Naturals

CONSTANTS
  Versions,     \* versions of the package, each with its data and semantic version
  Installers,
  MaxInstalls   \* bound: installations that begin

VARIABLES
  package,    \* scenario_package_release.status of each version
  data,       \* dataset_version.status of the version a package installs
  semantic,   \* semantic_model_version.status of the version a package installs
  pointer,    \* the package version whose data and semantics are activated
  used,       \* versions whose activation key is in release_record
  installs,
  job,        \* what each installer has loaded and where it is
  last,       \* history: the version whose installation returned last, if none began since
  calm,       \* history: no two installations have overlapped
  stopped     \* history: an installation was stopped part-way

vars == <<package, data, semantic, pointer, used, installs, job, last, calm, stopped>>

None == "none"
Usable == {"PUBLISHED", "SUPERSEDED", "ACTIVE"}
PackageStatus == {"ABSENT", "INSTALLED", "VALIDATED", "PUBLISHED", "ACTIVE", "DISABLED"}
Pipeline == {"QUALITY_PASSED", "PENDING_APPROVAL", "APPROVED"}
DataStatus == {"ABSENT"} \cup Pipeline \cup Usable
SemanticStatus == {"ABSENT", "DRAFT"} \cup Usable

Idle == [at |-> "idle", v |-> None, pkg |-> "ABSENT", dat |-> "ABSENT",
         sem |-> "ABSENT", todo |-> {}, held |-> {}, cur |-> {}]

(* Every row and installer has its type.                                   *)
TypeOK ==
  /\ package \in [Versions -> PackageStatus]
  /\ data \in [Versions -> DataStatus] /\ semantic \in [Versions -> SemanticStatus]
  /\ pointer \in Versions \cup {None} /\ used \subseteq Versions
  /\ installs \in 0 .. MaxInstalls
  /\ job \in [Installers ->
       [at : {"idle", "insert", "validate", "publish", "activate", "query", "lock",
              "data", "create", "release", "semantic", "register", "review", "point"},
        v : Versions \cup {None}, pkg : PackageStatus, dat : DataStatus,
        sem : SemanticStatus, todo : SUBSET Versions, held : SUBSET Versions,
        cur : SUBSET Versions]]
  /\ last \in Versions \cup {None} /\ calm \in BOOLEAN /\ stopped \in BOOLEAN

Init ==
  /\ package = [v \in Versions |-> "ABSENT"]
  /\ data = [v \in Versions |-> "ABSENT"]
  /\ semantic = [v \in Versions |-> "ABSENT"]
  /\ pointer = None /\ used = {} /\ installs = 0
  /\ job = [j \in Installers |-> Idle]
  /\ last = None /\ calm = TRUE /\ stopped = FALSE

Flush(row, loaded, value) == IF loaded = value THEN row ELSE value

(* The lock of a row is held by no other installer.                        *)
Free(j, v) == \A k \in Installers \ {j} : v \notin job[k].held

Go(j, step) == job' = [job EXCEPT ![j].at = step]

----------------------------------------------------------------------------
(* The package (ScenarioRegistry).                                         *)

(* install: the row of this version, if there is one.                      *)
Begin(j, v) ==
  /\ job[j].at = "idle" /\ installs < MaxInstalls
  /\ installs' = installs + 1
  /\ job' = [job EXCEPT ![j] =
       [Idle EXCEPT !.at = IF package[v] = "ABSENT" THEN "insert" ELSE "validate",
                    !.v = v, !.pkg = package[v]]]
  /\ last' = None
  /\ calm' = (calm /\ \A k \in Installers : job[k].at = "idle")
  /\ UNCHANGED <<package, data, semantic, pointer, used, stopped>>

(* (scenario_id, version) is unique.                                       *)
Insert(j) ==
  LET v == job[j].v IN
  /\ job[j].at = "insert" /\ package[v] = "ABSENT"
  /\ package' = [package EXCEPT ![v] = "INSTALLED"]
  /\ job' = [job EXCEPT ![j].at = "validate", ![j].pkg = "INSTALLED"]
  /\ UNCHANGED <<data, semantic, pointer, used, installs, last, calm, stopped>>

(* validate, publish: an update waits for the lock of its row.             *)
Promote(j, from, status, to) ==
  LET v == job[j].v IN
  /\ job[j].at = from /\ Free(j, v)
  /\ package' = [package EXCEPT ![v] = Flush(@, job[j].pkg, status)]
  /\ job' = [job EXCEPT ![j].at = to, ![j].pkg = status]
  /\ UNCHANGED <<data, semantic, pointer, used, installs, last, calm, stopped>>

Validate(j) == Promote(j, "validate", "VALIDATED", "publish")
Publish(j) == Promote(j, "publish", "PUBLISHED", "activate")

(* activate: the row of the version with its lock ...                      *)
LockRelease(j) ==
  /\ job[j].at = "activate" /\ Free(j, job[j].v)
  /\ job' = [job EXCEPT ![j].at = "query", ![j].held = {job[j].v}]
  /\ UNCHANGED <<package, data, semantic, pointer, used, installs, last, calm, stopped>>

(* Variant: the active rows are not looked for.                            *)
QueryNothing(j) ==
  /\ job[j].at = "query"
  /\ job' = [job EXCEPT ![j].at = "lock"]
  /\ UNCHANGED <<package, data, semantic, pointer, used, installs, last, calm, stopped>>

(* ... the active rows, as the statement finds them ...                    *)
QueryActive(j) ==
  /\ job[j].at = "query"
  /\ job' = [job EXCEPT ![j].at = "lock",
                        ![j].todo = {v \in Versions : package[v] = "ACTIVE"}]
  /\ UNCHANGED <<package, data, semantic, pointer, used, installs, last, calm, stopped>>

(* ... their locks, one by one ...                                         *)
LockActive(j, w) ==
  /\ job[j].at = "lock" /\ w \in job[j].todo /\ Free(j, w)
  /\ job' = [job EXCEPT ![j].todo = @ \ {w}, ![j].held = @ \cup {w},
                        ![j].cur = @ \cup {x \in {w} : package[x] = "ACTIVE"}]
  /\ UNCHANGED <<package, data, semantic, pointer, used, installs, last, calm, stopped>>

(* ... and one commit: the others are disabled, this one is active.        *)
Activate(j) ==
  LET v == job[j].v IN
  /\ job[j].at = "lock" /\ job[j].todo = {}
  /\ package' = [w \in Versions |->
       IF w = v THEN Flush(package[w], job[j].pkg, "ACTIVE")
       ELSE IF w \in job[j].cur THEN "DISABLED" ELSE package[w]]
  /\ job' = [job EXCEPT ![j].at = "data", ![j].pkg = "ACTIVE", ![j].held = {}, ![j].cur = {}]
  /\ UNCHANGED <<data, semantic, pointer, used, installs, last, calm, stopped>>

----------------------------------------------------------------------------
(* The data set version and the semantic version.                          *)

(* A version that exists is taken as it is.                                *)
FindData(j) ==
  /\ job[j].at = "data"
  /\ job' = [job EXCEPT ![j].dat = data[job[j].v],
       ![j].at = IF data[job[j].v] = "ABSENT" THEN "create" ELSE "semantic"]
  /\ UNCHANGED <<package, data, semantic, pointer, used, installs, last, calm, stopped>>

(* create_version: the key finds what another installer has made; that is  *)
(* submitted unless it was decided.                                        *)
CreateData(j) ==
  LET v == job[j].v IN
  /\ job[j].at = "create" /\ data[v] \in {"ABSENT", "QUALITY_PASSED", "PENDING_APPROVAL"}
  /\ data' = [data EXCEPT ![v] = IF @ = "ABSENT" THEN "QUALITY_PASSED" ELSE @]
  /\ job' = [job EXCEPT ![j].at = "release", ![j].dat = data'[v]]
  /\ UNCHANGED <<package, semantic, pointer, used, installs, last, calm, stopped>>

(* submit, decide, publish: one review, one record under each key.         *)
ReleaseData(j) ==
  LET v == job[j].v
      next == CASE data[v] = "QUALITY_PASSED" -> "PENDING_APPROVAL"
                [] data[v] = "PENDING_APPROVAL" -> "APPROVED"
                [] OTHER -> "PUBLISHED"
  IN
  /\ job[j].at = "release" /\ data[v] \in Pipeline /\ data[v] = job[j].dat
  /\ data' = [data EXCEPT ![v] = next]
  /\ job' = [job EXCEPT ![j].dat = next,
                        ![j].at = IF next = "PUBLISHED" THEN "semantic" ELSE "release"]
  /\ UNCHANGED <<package, semantic, pointer, used, installs, last, calm, stopped>>

FindSemantic(j) ==
  /\ job[j].at = "semantic"
  /\ job' = [job EXCEPT ![j].sem = semantic[job[j].v],
       ![j].at = IF semantic[job[j].v] = "ABSENT" THEN "register" ELSE "point"]
  /\ UNCHANGED <<package, data, semantic, pointer, used, installs, last, calm, stopped>>

(* register_version: the checksum finds what another installer has made.   *)
RegisterSemantic(j) ==
  LET v == job[j].v IN
  /\ job[j].at = "register"
  /\ semantic' = [semantic EXCEPT ![v] = IF @ = "ABSENT" THEN "DRAFT" ELSE @]
  /\ job' = [job EXCEPT ![j].at = "review", ![j].sem = semantic'[v]]
  /\ UNCHANGED <<package, data, pointer, used, installs, last, calm, stopped>>

PublishSemantic(j) ==
  /\ job[j].at = "review" /\ job[j].sem \in {"DRAFT", "PUBLISHED"}
  /\ semantic' = [semantic EXCEPT ![job[j].v] = Flush(@, job[j].sem, "PUBLISHED")]
  /\ job' = [job EXCEPT ![j].at = "point", ![j].sem = "PUBLISHED"]
  /\ UNCHANGED <<package, data, pointer, used, installs, last, calm, stopped>>

(* SemanticActivationService.activate finds the pointer where it wants it. *)
PointerStands(j) ==
  LET v == job[j].v IN
  /\ job[j].at = "point" /\ {job[j].dat, job[j].sem} \subseteq Usable /\ pointer = v
  /\ job' = [job EXCEPT ![j] = Idle] /\ last' = v
  /\ UNCHANGED <<package, data, semantic, pointer, used, installs, calm, stopped>>

(* It moves it, under a key that can be used once; one data set version    *)
(* and one semantic version can be active.                                 *)
MovePointer(j) ==
  LET v == job[j].v IN
  /\ job[j].at = "point" /\ {job[j].dat, job[j].sem} \subseteq Usable
  /\ pointer # v /\ v \notin used
  /\ pointer' = v /\ used' = used \cup {v}
  /\ data' = [w \in Versions |-> IF w = v THEN Flush(data[w], job[j].dat, "ACTIVE")
                                 ELSE IF w = pointer THEN "SUPERSEDED" ELSE data[w]]
  /\ semantic' = [w \in Versions |->
       IF w = v THEN Flush(semantic[w], job[j].sem, "ACTIVE")
       ELSE IF w = pointer THEN "SUPERSEDED" ELSE semantic[w]]
  /\ \A w \in Versions \ {v} : data'[w] # "ACTIVE" /\ semantic'[w] # "ACTIVE"
  /\ job' = [job EXCEPT ![j] = Idle] /\ last' = v
  /\ UNCHANGED <<package, installs, calm, stopped>>

(* The key of this activation is on record: the insert fails.              *)
KeyRefused(j) ==
  /\ job[j].at = "point" /\ {job[j].dat, job[j].sem} \subseteq Usable
  /\ pointer # job[j].v /\ job[j].v \in used
  /\ job' = [job EXCEPT ![j] = Idle]
  /\ UNCHANGED <<package, data, semantic, pointer, used, installs, last, calm, stopped>>

(* An error, a lock that is not granted or a crash: what is not committed  *)
(* is gone.                                                                *)
Stop(j) ==
  /\ job[j].at # "idle"
  /\ job' = [job EXCEPT ![j] = Idle] /\ stopped' = TRUE
  /\ UNCHANGED <<package, data, semantic, pointer, used, installs, last, calm>>

Next ==
  \E j \in Installers :
    \/ \E v \in Versions : Begin(j, v) \/ LockActive(j, v)
    \/ Insert(j) \/ Validate(j) \/ Publish(j)
    \/ LockRelease(j) \/ QueryActive(j) \/ Activate(j)
    \/ FindData(j) \/ CreateData(j) \/ ReleaseData(j)
    \/ FindSemantic(j) \/ RegisterSemantic(j) \/ PublishSemantic(j)
    \/ PointerStands(j) \/ MovePointer(j) \/ KeyRefused(j) \/ Stop(j)

Spec == Init /\ [][Next]_vars

----------------------------------------------------------------------------
(* Properties.                                                             *)

Quiet == \A j \in Installers : job[j].at = "idle"

(* The package, the data and the semantics of a version are in force.      *)
InForce(v) ==
  /\ \A w \in Versions : package[w] = "ACTIVE" <=> w = v
  /\ pointer = v /\ data[v] = "ACTIVE" /\ semantic[v] = "ACTIVE"

(* What an installer that returned has installed is in force, until the    *)
(* next one begins, unless installations overlapped (package adapters).    *)
ReturnedIsInForce == calm /\ last # None => InForce(last)

(* Whatever overlaps, the data in force was published and activated on     *)
(* record (SemanticActivationService.activate, RollbackService).           *)
PointedIsReleased ==
  pointer # None => data[pointer] = "ACTIVE" /\ pointer \in used /\ semantic[pointer] \in Usable

(* An installation that is not interrupted leaves no version half-way      *)
(* (package adapters).                                                     *)
NothingHalfWay ==
  calm /\ ~stopped /\ Quiet =>
    \A v \in Versions : data[v] \notin Pipeline /\ semantic[v] # "DRAFT"

(* Without overlapping installations one package is active (activate).     *)
CalmOneActive ==
  calm => \A v, w \in Versions : package[v] = "ACTIVE" /\ package[w] = "ACTIVE" => v = w

InstallSafe ==
  TypeOK /\ ReturnedIsInForce /\ PointedIsReleased /\ NothingHalfWay /\ CalmOneActive

(* An active package is only disabled by the commit that activates         *)
(* another, whatever overlaps (activate).                                  *)
DisabledIsReplaced ==
  [][\A v \in Versions : package[v] = "ACTIVE" /\ package'[v] = "DISABLED" =>
       \E w \in Versions \ {v} : package'[w] = "ACTIVE"]_vars

(* docs/platformization/p1a/02_DATASET_VERSION_AND_ACTIVATION.md:45: to    *)
(* install again is idempotent.  Not so after a stop between the creation  *)
(* and the publication of a version: the next installation takes it as it  *)
(* is and is refused for ever.                                             *)
CanBeRepeated == Quiet => \A v \in Versions : data[v] \notin Pipeline /\ semantic[v] # "DRAFT"

(* ActiveSemanticResolver refuses a pointer to a semantic version that is  *)
(* not active: two overlapping installations can leave that for good.      *)
PointedIsActive == Quiet /\ pointer # None => semantic[pointer] = "ACTIVE"
=============================================================================
