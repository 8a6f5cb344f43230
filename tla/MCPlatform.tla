----------------------------- MODULE MCPlatform -----------------------------
(* The registries and gateways of the platform for TLC: data sources with  *)
(* their credentials, governed releases, procedures and skills, policies,  *)
(* production gates, security alerts, the model gateway, external alerts, *)
(* and SQLBot's sources with their bindings.  They share no state, so a    *)
(* behaviour moves one of them and keeps the rest.                         *)
EXTENDS DataSources, Sequences, TLC

CONSTANTS
  MaxReleases,                                       \* of GovernedRelease
  Procedures, Skills, ProcedureOf, RollbackTo,       \* of ProcedureRegistry
  PolicyRows, CodeOf, DenyCodes,                     \* of PolicyGovernance
  GateCodes, Blockers, Proven, Decided, Evidences, MaxDecisions,   \* of ProductionGates
  AlertRows, AlertThreshold, MaxEvents,              \* of SecurityAlerts
  Models, Routes, FailureThreshold, CallAttempts,    \* of ModelGateway
  Keys, PostAttempts, PostThreshold,                 \* of ExternalAlerts
  MaxBindings, Codes,                                \* of SourceBindings
  MaxDeployments, MaxStarts                          \* of SourceProvisioning

ASSUME PlatformAssumption ==
  /\ MaxReleases \in Nat /\ MaxBindings \in Nat /\ MaxDeployments \in Nat /\ MaxStarts \in Nat
  /\ AlertThreshold \in Nat \ {0} /\ MaxEvents \in Nat \ {0} /\ FailureThreshold \in Nat
  /\ CallAttempts \in Nat \ {0} /\ PostAttempts \in Nat /\ PostThreshold \in Nat
  /\ \A route \in Routes : route \in Seq(Models) /\ route # <<>>

(* A skill runs a procedure, and a rollback returns to a version of its    *)
(* own kind (_get of each registry in memory/procedural.py).               *)
ASSUME ProceduresAssumption ==
  /\ Procedures \cap Skills = {} /\ ProcedureOf \in [Skills -> Procedures]
  /\ \A p \in Procedures : RollbackTo[p] \in Procedures
  /\ \A s \in Skills : RollbackTo[s] \in Skills

(* For TLC: a second skill of a second procedure; the second of each names *)
(* the first as what a rollback returns to.                                *)
SkillOf == ("s1" :> "p1") @@ ("s2" :> "p2")
Earlier == ("p1" :> "p1") @@ ("p2" :> "p1") @@ ("s1" :> "s1") @@ ("s2" :> "s1")

(* One ALLOW policy, and two versions of a DENY policy.                    *)
PolicyCode == ("a1" :> "allow") @@ ("d1" :> "deny") @@ ("d2" :> "deny")

(* A model with a fallback, and the fallback asked directly.               *)
ModelRoutes == {<<"m1", "m2">>, <<"m2">>}

VARIABLES
  focus,
  rStatus, rArtifact, rApproved, rCalm, rJob,
  pStatus, pApproved, pTested, pEnabled, pCalm, pJob,
  yStatus, yApproved, yBound, yCalm, yJob,
  gGate, gDue, gHistory, gCalm, gJob,
  sAlert, sEvents, sSeen, sCalm, sJob,
  mCircuit, mFailures, mCall,
  eRow, ePosts, eAccepted, eCircuit, eCall,
  bStatus, bScope, bApproved, bJob, bLast, bCalm,
  vRelease, vPassword, vSource, vAdds, vRun, vStarts, vPassed, vCalm

Releases == INSTANCE GovernedRelease WITH
  MaxReleases <- MaxReleases, Requests <- Requests, status <- rStatus,
  artifact <- rArtifact, approved <- rApproved, calm <- rCalm, job <- rJob

Procs == INSTANCE ProcedureRegistry WITH
  Procedures <- Procedures, Skills <- Skills,
  ProcedureOf <- ProcedureOf, RollbackTo <- RollbackTo, Requests <- Requests,
  status <- pStatus, approved <- pApproved, tested <- pTested,
  enabled <- pEnabled, calm <- pCalm, job <- pJob

Policies == INSTANCE PolicyGovernance WITH
  Policies <- PolicyRows, CodeOf <- CodeOf,
  DenyCodes <- DenyCodes, Requests <- Requests, status <- yStatus,
  approved <- yApproved, bound <- yBound, calm <- yCalm, job <- yJob

Gates == INSTANCE ProductionGates WITH
  Gates <- GateCodes, Blockers <- Blockers, Proven <- Proven, Deciders <- Requests,
  Decided <- Decided, Evidences <- Evidences, MaxDecisions <- MaxDecisions, gate <- gGate,
  due <- gDue, history <- gHistory, calm <- gCalm, job <- gJob

Security == INSTANCE SecurityAlerts WITH
  Alerts <- AlertRows, Requests <- Requests, Threshold <- AlertThreshold,
  MaxEvents <- MaxEvents, alert <- sAlert, events <- sEvents, seen <- sSeen,
  calm <- sCalm, job <- sJob

Gateway == INSTANCE ModelGateway WITH
  Models <- Models, Routes <- Routes, Calls <- Requests,
  Threshold <- FailureThreshold, MaxAttempts <- CallAttempts, circuit <- mCircuit,
  failures <- mFailures, call <- mCall

External == INSTANCE ExternalAlerts WITH
  Keys <- Keys, Calls <- Requests, MaxAttempts <- PostAttempts,
  Threshold <- PostThreshold, row <- eRow, posts <- ePosts, accepted <- eAccepted,
  circuit <- eCircuit, call <- eCall

Bindings == INSTANCE SourceBindings WITH
  MaxVersions <- MaxBindings, Codes <- Codes, Jobs <- Requests,
  status <- bStatus, scope <- bScope, approved <- bApproved, job <- bJob,
  last <- bLast, calm <- bCalm

Provision == INSTANCE SourceProvisioning WITH
  Runs <- Requests, MaxReleases <- MaxDeployments, MaxSources <- MaxSources, MaxStarts <- MaxStarts,
  release <- vRelease, password <- vPassword, source <- vSource,
  adds <- vAdds, run <- vRun, starts <- vStarts, passed <- vPassed,
  calm <- vCalm

(* Decisions name statuses and evidence of the registry.                   *)
ASSUME GatesAssumption ==
  /\ Blockers \subseteq GateCodes /\ Decided \subseteq Gates!Status
  /\ Evidences \subseteq Gates!Evidence /\ MaxDecisions \in Nat

ReleasesVars == <<rStatus, rArtifact, rApproved, rCalm, rJob>>
ProcsVars == <<pStatus, pApproved, pTested, pEnabled, pCalm, pJob>>
PoliciesVars == <<yStatus, yApproved, yBound, yCalm, yJob>>
GatesVars == <<gGate, gDue, gHistory, gCalm, gJob>>
SecurityVars == <<sAlert, sEvents, sSeen, sCalm, sJob>>
GatewayVars == <<mCircuit, mFailures, mCall>>
ExternalVars == <<eRow, ePosts, eAccepted, eCircuit, eCall>>
BindingsVars == <<bStatus, bScope, bApproved, bJob, bLast, bCalm>>
ProvisionVars == <<vRelease, vPassword, vSource, vAdds, vRun, vStarts, vPassed, vCalm>>

RegistrySymmetry == Permutations(Requests)

MCInit ==
  /\ focus \in {"sources", "releases", "procedures", "policies", "gates", "security",
               "gateway", "external", "bindings", "provision"}
  /\ Init /\ Releases!Init /\ Procs!Init /\ Policies!Init /\ Gates!Init
  /\ Security!Init /\ Gateway!Init /\ External!Init
  /\ Bindings!Init /\ Provision!Init
  /\ focus # "procedures" => pTested = {}

Keep(kind, v) == IF focus = kind THEN TRUE ELSE UNCHANGED v

MCNext ==
  /\ UNCHANGED focus
  /\ Keep("sources", vars) /\ Keep("releases", ReleasesVars)
  /\ Keep("procedures", ProcsVars) /\ Keep("policies", PoliciesVars)
  /\ Keep("gates", GatesVars) /\ Keep("security", SecurityVars)
  /\ Keep("gateway", GatewayVars) /\ Keep("external", ExternalVars)
  /\ Keep("bindings", BindingsVars) /\ Keep("provision", ProvisionVars)
  /\ \/ focus = "sources" /\ Next
     \/ focus = "releases" /\ Releases!Next
     \/ focus = "procedures" /\ Procs!Next
     \/ focus = "policies" /\ Policies!Next
     \/ focus = "gates" /\ Gates!Next
     \/ focus = "security" /\ Security!Next
     \/ focus = "gateway" /\ Gateway!Next
     \/ focus = "external" /\ External!Next
     \/ focus = "bindings" /\ Bindings!Next
     \/ focus = "provision" /\ Provision!Next

allVars == <<focus, vars, ReleasesVars, ProcsVars, PoliciesVars, GatesVars, SecurityVars,
             GatewayVars, ExternalVars, BindingsVars, ProvisionVars>>
MCSpec == MCInit /\ [][MCNext]_allVars

(* Bounds of exploration: once requests have overlapped or a credential    *)
(* has been disabled, two versions of the source; not both; once they have *)
(* overlapped, one skill; and once a second gate is decided on or due, two *)
(* decisions.                                                              *)
GateDeciders == {j \in Requests : gJob[j].op # "idle"}
GatesTouched ==
  {gHistory[i].gate : i \in DOMAIN gHistory} \cup {gJob[j].gate : j \in GateDeciders} \cup gDue

RegistryBounds ==
  /\ (calm /\ ~ended) \/ source[MaxSources] = "NONE"
  /\ calm \/ ~ended
  /\ pCalm \/ pStatus["s2"] = "NONE"
  /\ \/ Cardinality(GatesTouched) <= 1
     \/ Len(gHistory) + Cardinality(GateDeciders) <= 2

----------------------------------------------------------------------------
(* Of the components that have not the focus nothing changes, so each      *)
(* invariant is asked of the one that moves.                               *)

(* The artifact of an active release is one a reviewer approved, copies of *)
(* copies included; without overlapping requests one release of an object  *)
(* is active (release.py).                                                 *)
ReleasesSafe == focus = "releases" => Releases!ReleasesSafe

(* A skill that is executed was reviewed, and so was the procedure it runs;*)
(* without overlapping requests enabled and ACTIVE agree (procedural.py),  *)
(* and a policy code has one active version (policy.py activate).          *)
ReviewedSafe ==
  /\ focus = "procedures" => Procs!ProceduresSafe
  /\ focus = "policies" => Policies!TypeOK /\ Policies!CalmOneActive

(* A cleared gate has a recorded decision that cleared it on evidence, or  *)
(* has been installed so and not decided on; without overlapping decisions *)
(* the history explains the row, and ready means valid clearances          *)
(* (registry.py, bootstrap.py).                                            *)
GatesSafe == focus = "gates" => Gates!GatesSafe

(* What is counted happened: an open security alert had its threshold of   *)
(* events, exactly without overlapping sessions (audit.py); a circuit only *)
(* opens after a threshold of failures since its last success (router.py); *)
(* and a DELIVERED row was accepted by the endpoint, in one delivery for   *)
(* its idempotency key (preproduction/alerts.py).                          *)
CountersSafe ==
  /\ focus = "security" => Security!SecuritySafe
  /\ focus = "gateway" => Gateway!GatewaySafe
  /\ focus = "external" => External!DeliverySafe

(* A scenario's binding is approved and is the one an installation         *)
(* returned for (source_binding.py), and the SQLBot source it names is the *)
(* scenario's own, configured as reported (provision_runtime_api.py).      *)
BoundSourcesSafe ==
  /\ focus = "bindings" => Bindings!BindingsSafe
  /\ focus = "provision" => Provision!ProvisioningSafe

(* What no step of a registry may do: take the active version of a source, *)
(* a release or a binding away without replacing it, make a skill          *)
(* executable without an active procedure, change an access decision by a  *)
(* review step, or rewrite the outcome of a delivery - but for what        *)
(* overlapping requests are stated to do in the modules.                   *)
RegistrySteps ==
  /\ CalmActiveIsReplaced
  /\ Releases!ActiveIsReplaced
  /\ Procs!CalmExecutableRunsActive
  /\ Policies!CalmReviewKeepsAccess
  /\ External!OutcomeIsFinal
  /\ Bindings!StaysBound
=============================================================================
