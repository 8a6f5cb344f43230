-------------------------- MODULE SourceProvisioning --------------------------
(***************************************************************************)
(* The script that registers the data sources of the scenarios in SQLBot   *)
(* through its API (deploy/sqlbot/provision_runtime_api.py).  The bindings *)
(* of the platform name the sources by the ids SQLBot gives the first two  *)
(* (EXPECTED_BINDINGS in query_engines/sqlbot/source_binding.py).          *)
(*                                                                         *)
(* A run may be stopped anywhere and be repeated; a call that is not       *)
(* answered may be executed later.  The host and the approved views change *)
(* with a release of the platform.                                         *)
(***************************************************************************)
EXTENDS Naturals, Sequences

CONSTANTS
  Runs,         \* concurrent runs of the script
  MaxReleases,  \* bound: releases of the platform
  MaxSources,   \* bound: data sources in SQLBot
  MaxStarts     \* bound: runs that begin

VARIABLES
  release,    \* the release whose host and views the database has
  password,   \* of SQLBot's administrator
  source,     \* SQLBot's data sources, by id
  adds,       \* data sources whose creation was sent and not executed yet
  run,        \* where each run is
  starts,
  passed,     \* history: what runs have reported since they began: source and release
  calm        \* history: no run began beside another or beside an unanswered creation

vars == <<release, password, source, adds, run, starts, passed, calm>>

DATASOURCES == <<"charging_ops", "sales_ops">>
Releases == 0 .. MaxReleases
NoTables == MaxReleases + 1
Idle == [at |-> "idle", spec |-> 1, of |-> 0, id |-> 0]

(* Every source and run has its type.                                      *)
TypeOK ==
  /\ release \in Releases /\ password \in {"image", "runtime"}
  /\ Len(source) <= MaxSources
  /\ \A i \in DOMAIN source : source[i] \in
       [name : {DATASOURCES[1], DATASOURCES[2]}, host : Releases,
        tables : Releases \cup {NoTables}]
  /\ adds \subseteq [by : Runs, name : {DATASOURCES[1], DATASOURCES[2]}, of : Releases]
  /\ run \in [Runs -> [at : {"idle", "login", "rotate", "contract", "list", "add", "created",
                             "update", "choose", "verify"},
                       spec : 1 .. 2, of : Releases, id : 0 .. MaxSources]]
  /\ starts \in 0 .. MaxStarts
  /\ passed \subseteq (1 .. MaxSources) \X Releases /\ calm \in BOOLEAN

Init ==
  /\ release = 0 /\ password = "image" /\ source = <<>> /\ adds = {}
  /\ run = [r \in Runs |-> Idle] /\ starts = 0 /\ passed = {} /\ calm = TRUE

Name(r) == DATASOURCES[run[r].spec]

Begin(r) ==
  /\ run[r].at = "idle" /\ starts < MaxStarts /\ starts' = starts + 1
  /\ run' = [run EXCEPT ![r] = [Idle EXCEPT !.at = "login", !.of = release]]
  /\ calm' = (calm /\ adds = {} /\ \A q \in Runs : run[q].at = "idle")
  /\ UNCHANGED <<release, password, source, adds, passed>>

Go(r, from, to) ==
  /\ run[r].at = from /\ run' = [run EXCEPT ![r].at = to]
  /\ UNCHANGED <<release, source, adds, starts, passed, calm>>

(* The password of this environment, or the default of the image and then  *)
(* a rotation.                                                             *)
Login(r) ==
  /\ Go(r, "login", IF password = "runtime" THEN "contract" ELSE "rotate")
  /\ UNCHANGED password

Rotate(r) == Go(r, "rotate", "contract") /\ password' = "runtime"

(* The connection works and shows exactly the approved views.              *)
Contract(r) == run[r].of = release /\ Go(r, "contract", "list") /\ UNCHANGED password

(* Variant: sources are not looked up by their name.                       *)
ListNothing(r) == Go(r, "list", "add") /\ UNCHANGED password

(* The first source of the name is taken.                                  *)
List(r) ==
  LET own == {i \in DOMAIN source : source[i].name = Name(r)} IN
  /\ run[r].at = "list"
  /\ run' = [run EXCEPT ![r].at = IF own = {} THEN "add" ELSE "update",
                        ![r].id = IF own = {} THEN 0
                                  ELSE CHOOSE i \in own : \A k \in own : i <= k]
  /\ UNCHANGED <<release, password, source, adds, starts, passed, calm>>

SendAdd(r) ==
  /\ run[r].at = "add"
  /\ adds' = adds \cup {[by |-> r, name |-> Name(r), of |-> run[r].of]}
  /\ run' = [run EXCEPT ![r].at = "created"]
  /\ UNCHANGED <<release, password, source, starts, passed, calm>>

(* SQLBot creates the source, with its tables or, if it fails, without;    *)
(* the run gets the id if it still waits.                                  *)
ExecuteAdd(a, whole) ==
  /\ a \in adds /\ Len(source) < MaxSources
  /\ source' = Append(source,
       [name |-> a.name, host |-> a.of, tables |-> IF whole THEN a.of ELSE NoTables])
  /\ adds' = adds \ {a}
  /\ run' = IF run[a.by].at = "created" /\ Name(a.by) = a.name /\ run[a.by].of = a.of
            THEN [run EXCEPT ![a.by] =
                    IF whole THEN [@ EXCEPT !.at = "verify", !.id = Len(source) + 1] ELSE Idle]
            ELSE run
  /\ UNCHANGED <<release, password, starts, passed, calm>>

(* datasource/update, then datasource/chooseTables.                        *)
Update(r) ==
  /\ run[r].at = "update"
  /\ source' = [source EXCEPT ![run[r].id].host = run[r].of]
  /\ run' = [run EXCEPT ![r].at = "choose"]
  /\ UNCHANGED <<release, password, adds, starts, passed, calm>>

ChooseTables(r) ==
  /\ run[r].at = "choose"
  /\ source' = [source EXCEPT ![run[r].id].tables = run[r].of]
  /\ run' = [run EXCEPT ![r].at = "verify"]
  /\ UNCHANGED <<release, password, adds, starts, passed, calm>>

(* The persisted connection works, the persisted tables are the approved   *)
(* ones, and one shows rows; then the next source.                         *)
Verify(r) ==
  LET i == run[r].id IN
  /\ run[r].at = "verify" /\ source[i].host = release /\ source[i].tables = run[r].of
  /\ passed' = passed \cup {<<i, run[r].of>>}
  /\ run' = [run EXCEPT ![r] = IF @.spec = 2 THEN Idle
                               ELSE [@ EXCEPT !.at = "contract", !.spec = 2, !.id = 0]]
  /\ UNCHANGED <<release, password, source, adds, starts, calm>>

(* A call is refused or not answered, or the script is stopped.            *)
Stop(r) ==
  /\ run[r].at # "idle" /\ run' = [run EXCEPT ![r] = Idle]
  /\ UNCHANGED <<release, password, source, adds, starts, passed, calm>>

(* The views and the host of another release.                              *)
Deploy ==
  /\ release < MaxReleases /\ release' = release + 1
  /\ UNCHANGED <<password, source, adds, run, starts, passed, calm>>

Next ==
  \/ Deploy
  \/ \E r \in Runs :
       \/ Begin(r) \/ Login(r) \/ Rotate(r) \/ Contract(r) \/ List(r)
       \/ SendAdd(r) \/ Update(r) \/ ChooseTables(r) \/ Verify(r) \/ Stop(r)
  \/ \E a \in adds, whole \in BOOLEAN : ExecuteAdd(a, whole)

Spec == Init /\ [][Next]_vars

----------------------------------------------------------------------------
(* Properties.                                                             *)

(* The bindings name each scenario's own source, however often runs stop   *)
(* half-way, as long as no run begins beside another or beside an          *)
(* unanswered creation (EXPECTED_BINDINGS, main).                          *)
BoundIdsAreOwn == calm => \A i \in DOMAIN source : i <= 2 /\ source[i].name = DATASOURCES[i]

(* A source that a run has reported in this release is configured for it,  *)
(* whatever runs and releases did before; again without overlaps (main).   *)
ReportedIsConfigured ==
  calm => \A p \in passed :
            p[2] = release => source[p[1]].host = release /\ source[p[1]].tables = release

ProvisioningSafe == TypeOK /\ BoundIdsAreOwn /\ ReportedIsConfigured

(* docs/platformization/p2a-runtime/03_SQLBOT_DATASOURCE_VALIDATION.md:31: *)
(* a source is created or reused idempotently.  Two runs that overlap      *)
(* create it twice, and the id a binding names is then of another.         *)
CreatedOnce == \A i, k \in DOMAIN source : source[i].name = source[k].name => i = k
=============================================================================
