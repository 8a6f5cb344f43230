--------------------------- MODULE PlatformProofs ---------------------------
(***************************************************************************)
(* Proofs about the platform for any number of sources, releases, calls,   *)
(* tasks and requests: one inductive invariant for each component that     *)
(* MCPlatform puts side by side, under a prefix of its name, of which      *)
(* PlatformInv is the conjunction.  The parts named Calm speak of requests *)
(* that nothing overlapped: what they loaded is still what is stored.      *)
(***************************************************************************)
EXTENDS MCPlatform, FiniteSetTheorems, WellFoundedInduction, TLAPS

(* A set without two different members has one member at most.             *)
LEMMA AtMostOne ==
  ASSUME NEW S, \A x, y \in S : x = y
  PROVE  Cardinality(S) <= 1
<1>1. CASE S = {} BY <1>1, FS_EmptySet
<1>2. ASSUME NEW x \in S PROVE Cardinality(S) <= 1
  <2>1. S = {x} OBVIOUS
  <2> QED BY <2>1, FS_Singleton
<1> QED BY <1>1, <1>2

(* A set of numbers has a smallest one.                                    *)
LEMMA Smallest ==
  ASSUME NEW S \in SUBSET Nat, S # {}
  PROVE  \E i \in S : \A k \in S : i <= k
<1>1. PICK i \in S : \A k \in S : <<k, i>> \notin OpToRel(<, Nat)
  BY NatLessThanWellFounded, WFMin, Zenon
<1>2. \A k \in S : ~(k < i)
  BY <1>1 DEF OpToRel
<1> QED BY <1>2

----------------------------------------------------------------------------
(* Governed releases.  A plan is made from statuses that others may change *)
(* before it is committed: what keeps unreviewed artifacts out of force is *)
(* that a row never loses the artifact it was inserted with, and that a    *)
(* plan only names rows that exist.                                        *)

(* What a plan may write, by the artifact of the row it writes to.         *)
RelPlanned(x) ==
  /\ x.copy \in rApproved \cup {0}
  /\ x.op = "activate" => \E r \in Releases!Releases : x.plan[r] = "ACTIVE"
  /\ x.op = "rollback" => x.copy # 0
  /\ \A r \in Releases!Releases :
       /\ x.plan[r] # "KEEP" => rStatus[r] # "NONE"
       /\ x.plan[r] \notin {"NONE", "DRAFT"}
       /\ x.plan[r] \in {"REVIEW", "APPROVED"} => rArtifact[r] = r
       /\ x.plan[r] \in {"ACTIVE", "SUPERSEDED", "ROLLED_BACK"} => rArtifact[r] \in rApproved

(* A plan that, written to the present statuses, leaves one active release. *)
RelAlone(x) ==
  /\ \A r, s \in Releases!Releases :
       x.plan[r] = "ACTIVE" /\ s # r =>
         x.plan[s] # "ACTIVE" /\ (rStatus[s] = "ACTIVE" => x.plan[s] # "KEEP")
  /\ x.copy # 0 => \A r \in Releases!Releases :
       x.plan[r] # "ACTIVE" /\ (rStatus[r] = "ACTIVE" => x.plan[r] # "KEEP")

(* The artifact of a release that has passed review was approved; one that *)
(* is under review was not copied.                                         *)
RelArtifacts ==
  \A r \in Releases!Releases :
    /\ rStatus[r] \in {"DRAFT", "REVIEW"} => rArtifact[r] = r
    /\ rStatus[r] \in {"APPROVED", "ACTIVE", "SUPERSEDED", "ROLLED_BACK"} =>
         rArtifact[r] \in rApproved

RelPlans == \A j \in Requests : RelPlanned(rJob[j])

RelCalm ==
  rCalm =>
    /\ \A r, s \in Releases!Active : r = s
    /\ \A j, k \in Requests : rJob[j].op # "idle" /\ rJob[k].op # "idle" => j = k
    /\ \A j \in Requests : rJob[j].op # "idle" => RelAlone(rJob[j])

RelInv == Releases!TypeOK /\ RelArtifacts /\ RelPlans /\ RelCalm

RelRecord == [op : {"idle", "submit", "approve", "activate", "rollback"},
              plan : [Releases!Releases -> Releases!Status \cup {"KEEP"}],
              copy : 0 .. MaxReleases]

(* The plan of no request writes nothing.                                  *)
LEMMA RelNoJob ==
  /\ Releases!NoJob \in RelRecord /\ Releases!NoJob.op = "idle"
  /\ RelPlanned(Releases!NoJob)
BY PlatformAssumption DEF Releases!NoJob, Releases!NoPlan, RelRecord, RelPlanned

LEMMA RelInit == Releases!Init => RelInv
<1> SUFFICES ASSUME Releases!Init PROVE RelInv OBVIOUS
<1>1. Releases!TypeOK
  BY RelNoJob, PlatformAssumption DEF Releases!Init, Releases!TypeOK, Releases!Status, RelRecord
<1>2. RelArtifacts BY DEF Releases!Init, RelArtifacts
<1>3. RelPlans BY RelNoJob DEF Releases!Init, RelPlans
<1>4. RelCalm BY RelNoJob DEF Releases!Init, RelCalm, Releases!Active
<1> QED BY <1>1, <1>2, <1>3, <1>4 DEF RelInv

(* A request that plans changes no row.                                    *)
LEMMA RelPlan ==
  ASSUME RelInv, NEW j \in Requests, NEW op \in {"submit", "approve", "activate", "rollback"},
         NEW plan \in [Releases!Releases -> Releases!Status \cup {"KEEP"}],
         NEW copy \in 0 .. MaxReleases, Releases!Plan(j, op, plan, copy),
         NEW x, x = [op |-> op, plan |-> plan, copy |-> copy],
         RelPlanned(x), rCalm => RelAlone(x)
  PROVE  RelInv'
<1> USE DEF RelInv, RelRecord
<1>1. /\ rJob' = [rJob EXCEPT ![j] = x]
      /\ UNCHANGED <<rStatus, rArtifact, rApproved>>
      /\ rCalm' = (rCalm /\ \A k \in DOMAIN rJob : k # j => rJob[k].op = "idle")
  BY DEF Releases!Plan, Releases!Alone
<1>2. Releases!TypeOK'
  <2>1. x \in RelRecord OBVIOUS
  <2> QED BY <1>1, <2>1 DEF Releases!TypeOK
<1>3. \A k \in Requests : rJob'[k] = IF k = j THEN x ELSE rJob[k] BY <1>1 DEF Releases!TypeOK
<1>4. RelArtifacts' BY <1>1 DEF RelArtifacts
<1>5. RelPlans' BY <1>1, <1>3 DEF RelPlans, RelPlanned
<1>6. RelCalm'
  <2> SUFFICES ASSUME rCalm' PROVE RelCalm' BY DEF RelCalm
  <2>1. rCalm /\ \A k \in Requests : k # j => rJob[k].op = "idle" BY <1>1 DEF Releases!TypeOK
  <2>2. (\A r, s \in Releases!Active : r = s)' BY <1>1, <2>1 DEF RelCalm, Releases!Active
  <2>3. (\A i, k \in Requests : rJob[i].op # "idle" /\ rJob[k].op # "idle" => i = k)'
    BY <1>3, <2>1
  <2>4. (\A k \in Requests : rJob[k].op # "idle" => RelAlone(rJob[k]))'
    BY <1>1, <1>3, <2>1 DEF RelCalm, RelAlone
  <2> QED BY <2>2, <2>3, <2>4 DEF RelCalm
<1> QED BY <1>2, <1>4, <1>5, <1>6

LEMMA RelHandlers ==
  ASSUME RelInv, NEW j \in Requests,
         \/ \E r \in Releases!Releases :
              Releases!SubmitReview(j, r) \/ Releases!Approve(j, r) \/ Releases!Activate(j, r)
         \/ \E c, t \in Releases!Releases : Releases!Rollback(j, c, t)
  PROVE  RelInv'
<1> USE DEF RelInv
<1>0. 0 \in 0 .. MaxReleases BY PlatformAssumption
<1>1. ASSUME NEW r \in Releases!Releases, Releases!SubmitReview(j, r) PROVE RelInv'
  <2> DEFINE plan == Releases!Writes(rStatus, {}, "", {r}, "REVIEW")
             x == [op |-> "submit", plan |-> plan, copy |-> 0]
  <2>1. rStatus[r] = "DRAFT" /\ Releases!Plan(j, "submit", plan, 0)
    BY <1>1 DEF Releases!SubmitReview
  <2>2. plan = [q \in Releases!Releases |-> IF q = r THEN "REVIEW" ELSE "KEEP"]
    BY <2>1 DEF Releases!Writes, Releases!TypeOK
  <2>3. plan \in [Releases!Releases -> Releases!Status \cup {"KEEP"}] BY <2>2 DEF Releases!Status
  <2>4. RelPlanned(x) BY <2>1, <2>2 DEF RelPlanned, RelArtifacts
  <2>5. RelAlone(x) BY <2>2 DEF RelAlone
  <2> HIDE DEF plan
  <2> QED BY <1>0, <2>1, <2>3, <2>4, <2>5, RelPlan
<1>2. ASSUME NEW r \in Releases!Releases, Releases!Approve(j, r) PROVE RelInv'
  <2> DEFINE plan == Releases!Writes(rStatus, {}, "", {r}, "APPROVED")
             x == [op |-> "approve", plan |-> plan, copy |-> 0]
  <2>1. rStatus[r] = "REVIEW" /\ Releases!Plan(j, "approve", plan, 0)
    BY <1>2 DEF Releases!Approve
  <2>2. plan = [q \in Releases!Releases |-> IF q = r THEN "APPROVED" ELSE "KEEP"]
    BY <2>1 DEF Releases!Writes, Releases!TypeOK
  <2>3. plan \in [Releases!Releases -> Releases!Status \cup {"KEEP"}] BY <2>2 DEF Releases!Status
  <2>4. RelPlanned(x) BY <2>1, <2>2 DEF RelPlanned, RelArtifacts
  <2>5. RelAlone(x) BY <2>2 DEF RelAlone
  <2> HIDE DEF plan
  <2> QED BY <1>0, <2>1, <2>3, <2>4, <2>5, RelPlan
<1>3. ASSUME NEW r \in Releases!Releases, Releases!Activate(j, r) PROVE RelInv'
  <2>1. CASE Releases!Active = {}
    <3> DEFINE plan == Releases!Writes(rStatus, {}, "", {r}, "ACTIVE")
               x == [op |-> "activate", plan |-> plan, copy |-> 0]
    <3>1. rStatus[r] = "APPROVED" /\ Releases!Plan(j, "activate", plan, 0)
      BY <1>3, <2>1 DEF Releases!Activate
    <3>2. plan = [q \in Releases!Releases |-> IF q = r THEN "ACTIVE" ELSE "KEEP"]
      BY <3>1 DEF Releases!Writes, Releases!TypeOK
    <3>3. plan \in [Releases!Releases -> Releases!Status \cup {"KEEP"}] BY <3>2 DEF Releases!Status
    <3>4. RelPlanned(x) BY <3>1, <3>2 DEF RelPlanned, RelArtifacts
    <3>5. RelAlone(x) BY <2>1, <3>2 DEF RelAlone, Releases!Active
    <3> HIDE DEF plan
    <3> QED BY <1>0, <3>1, <3>3, <3>4, <3>5, RelPlan
  <2>2. CASE Releases!Active # {}
    <3>0. PICK c \in Releases!Active : /\ rStatus[r] = "APPROVED"
            /\ Releases!Plan(j, "activate", Releases!Writes(rStatus, {c}, "SUPERSEDED", {r}, "ACTIVE"), 0)
      BY <1>3, <2>2 DEF Releases!Activate
    <3> DEFINE plan == Releases!Writes(rStatus, {c}, "SUPERSEDED", {r}, "ACTIVE")
               x == [op |-> "activate", plan |-> plan, copy |-> 0]
    <3>1. c \in Releases!Releases /\ rStatus[c] = "ACTIVE" BY DEF Releases!Active
    <3>2. plan = [q \in Releases!Releases |-> IF q = r THEN "ACTIVE" ELSE IF q = c THEN "SUPERSEDED" ELSE "KEEP"]
      BY <3>0, <3>1 DEF Releases!Writes, Releases!TypeOK
    <3>3. plan \in [Releases!Releases -> Releases!Status \cup {"KEEP"}] BY <3>2 DEF Releases!Status
    <3>4. RelPlanned(x) BY <3>0, <3>1, <3>2 DEF RelPlanned, RelArtifacts
    <3>5. rCalm => RelAlone(x) BY <3>0, <3>1, <3>2, PlatformAssumption DEF RelAlone, RelCalm, Releases!Active, Releases!Releases
    <3> HIDE DEF plan
    <3> QED BY <1>0, <3>0, <3>3, <3>4, <3>5, RelPlan DEF plan
  <2> QED BY <2>1, <2>2
<1>4. ASSUME NEW c \in Releases!Releases, NEW t \in Releases!Releases, Releases!Rollback(j, c, t)
      PROVE  RelInv'
  <2> DEFINE plan == Releases!Writes(rStatus, {}, "", {c}, "ROLLED_BACK")
             x == [op |-> "rollback", plan |-> plan, copy |-> rArtifact[t]]
  <2>1. /\ rStatus[c] = "ACTIVE" /\ rStatus[t] \in {"SUPERSEDED", "APPROVED", "ROLLED_BACK"}
        /\ Releases!Plan(j, "rollback", plan, rArtifact[t])
    BY <1>4 DEF Releases!Rollback
  <2>2. plan = [q \in Releases!Releases |-> IF q = c THEN "ROLLED_BACK" ELSE "KEEP"]
    BY <2>1 DEF Releases!Writes, Releases!TypeOK
  <2>3. rArtifact[t] \in rApproved /\ rArtifact[t] \in 0 .. MaxReleases /\ rArtifact[t] # 0
    <3>1. rArtifact[t] \in rApproved BY <2>1 DEF RelArtifacts
    <3>2. rArtifact[t] \in 1 .. MaxReleases BY <3>1 DEF Releases!TypeOK, Releases!Releases
    <3> QED BY <3>1, <3>2
  <2>4. plan \in [Releases!Releases -> Releases!Status \cup {"KEEP"}] BY <2>2 DEF Releases!Status
  <2>5. RelPlanned(x) BY <2>1, <2>2, <2>3 DEF RelPlanned, RelArtifacts
  <2>6. rCalm => RelAlone(x)
    <3>1. rCalm => \A q \in Releases!Releases : rStatus[q] = "ACTIVE" => q = c
      BY <2>1 DEF RelCalm, Releases!Active
    <3> QED BY <3>1, <2>2 DEF RelAlone
  <2> HIDE DEF plan
  <2> QED BY <2>1, <2>3, <2>4, <2>5, <2>6, RelPlan
<1> QED BY <1>1, <1>2, <1>3, <1>4

LEMMA RelCreate ==
  ASSUME RelInv, NEW r \in Releases!Releases, Releases!Create(r)
  PROVE  RelInv'
<1> USE DEF RelInv
<1>1. /\ rStatus[r] = "NONE" /\ rStatus' = [rStatus EXCEPT ![r] = "DRAFT"]
      /\ rArtifact' = [rArtifact EXCEPT ![r] = r] /\ UNCHANGED <<rApproved, rCalm, rJob>>
  BY DEF Releases!Create, Releases!Fresh
<1>2. \A q \in Releases!Releases : /\ rStatus'[q] = IF q = r THEN "DRAFT" ELSE rStatus[q]
                                   /\ rArtifact'[q] = IF q = r THEN r ELSE rArtifact[q]
  BY <1>1 DEF Releases!TypeOK
<1>3. Releases!TypeOK' BY <1>1, PlatformAssumption DEF Releases!TypeOK, Releases!Status, Releases!Releases
<1>4. RelArtifacts' BY <1>1, <1>2 DEF RelArtifacts
<1>5. RelPlans' BY <1>1, <1>2 DEF RelPlans, RelPlanned
<1>6. RelCalm' BY <1>1, <1>2 DEF RelCalm, RelAlone, Releases!Active
<1> QED BY <1>3, <1>4, <1>5, <1>6

(* The statuses a commit writes.                                           *)
LEMMA RelCommit ==
  ASSUME RelInv, NEW j \in Requests, Releases!Commit(j)
  PROVE  RelInv'
<1> USE DEF RelInv
<1> DEFINE x == rJob[j]
           Now(q) == IF x.plan[q] = "KEEP" THEN rStatus[q] ELSE x.plan[q]
<1>1. /\ x.op # "idle" /\ UNCHANGED rCalm /\ rJob' = [rJob EXCEPT ![j] = Releases!NoJob]
      /\ rApproved' = rApproved \cup {r \in Releases!Releases : x.plan[r] = "APPROVED"}
  BY DEF Releases!Commit
<1>2. x \in RelRecord /\ RelPlanned(x) BY DEF Releases!TypeOK, RelRecord, RelPlans
<1>3. PICK n \in Releases!Releases \cup {0} :
        /\ n \in Releases!Releases <=> x.copy # 0
        /\ n \in Releases!Releases => rStatus[n] = "NONE"
        /\ rStatus' = [q \in Releases!Releases |-> IF q = n THEN "ACTIVE" ELSE Now(q)]
        /\ rArtifact' = [q \in Releases!Releases |-> IF q = n THEN x.copy ELSE rArtifact[q]]
  <2>1. CASE x.copy = 0
    <3>1. /\ rStatus' = [q \in Releases!Releases |-> Now(q)] /\ rArtifact' = rArtifact
      BY <2>1 DEF Releases!Commit, Releases!Applied, Releases!TypeOK
    <3>2. rArtifact = [q \in Releases!Releases |-> rArtifact[q]] BY DEF Releases!TypeOK
    <3>3. 0 \notin Releases!Releases BY PlatformAssumption DEF Releases!Releases
    <3> QED BY <2>1, <3>1, <3>2, <3>3, Zenon
  <2>2. CASE x.copy # 0
    <3>1. PICK n \in Releases!Releases :
            /\ rStatus[n] = "NONE"
            /\ rStatus' = [Releases!Applied(rStatus, x.plan) EXCEPT ![n] = "ACTIVE"]
            /\ rArtifact' = [rArtifact EXCEPT ![n] = x.copy]
      BY <2>2 DEF Releases!Commit, Releases!Fresh
    <3>2. rStatus' = [q \in Releases!Releases |-> IF q = n THEN "ACTIVE" ELSE Now(q)]
      BY <3>1 DEF Releases!Applied, Releases!TypeOK
    <3>3. rArtifact' = [q \in Releases!Releases |-> IF q = n THEN x.copy ELSE rArtifact[q]]
      BY <3>1 DEF Releases!TypeOK
    <3> QED BY <2>2, <3>1, <3>2, <3>3
  <2> QED BY <2>1, <2>2
<1>4. \A k \in Requests : rJob'[k] = IF k = j THEN Releases!NoJob ELSE rJob[k]
  BY <1>1 DEF Releases!TypeOK
<1>5. \A q \in Releases!Releases :
        /\ rStatus'[q] = IF q = n THEN "ACTIVE" ELSE Now(q)
        /\ rArtifact'[q] = IF q = n THEN x.copy ELSE rArtifact[q]
  BY <1>3
<1>6. \A k \in Requests : n \in Releases!Releases => rJob[k].plan[n] = "KEEP" BY <1>3 DEF RelPlans, RelPlanned
<1>7. Releases!TypeOK'
  <2>1. rStatus' \in [Releases!Releases -> Releases!Status]
    BY <1>2, <1>3 DEF Releases!TypeOK, RelRecord, Releases!Status
  <2>2. rArtifact' \in [Releases!Releases -> 0 .. MaxReleases]
    BY <1>2, <1>3 DEF Releases!TypeOK, RelRecord
  <2>3. rJob' \in [Requests -> RelRecord] BY <1>1, RelNoJob DEF Releases!TypeOK, RelRecord
  <2> QED BY <2>1, <2>2, <2>3, <1>1 DEF Releases!TypeOK, RelRecord
<1>8. RelArtifacts'
  <2>1. ASSUME NEW q \in Releases!Releases, q = n
        PROVE  rStatus'[q] = "ACTIVE" /\ rArtifact'[q] \in rApproved'
    BY <1>1, <1>2, <1>3, <1>5, <2>1 DEF RelPlanned
  <2>2. ASSUME NEW q \in Releases!Releases, q # n
        PROVE  /\ rStatus'[q] \in {"DRAFT", "REVIEW"} => rArtifact'[q] = q
               /\ rStatus'[q] \in {"APPROVED", "ACTIVE", "SUPERSEDED", "ROLLED_BACK"} =>
                    rArtifact'[q] \in rApproved'
    <3>1. rArtifact'[q] = rArtifact[q] /\ rStatus'[q] = Now(q) BY <1>5, <2>2
    <3>2. CASE x.plan[q] = "KEEP" BY <3>1, <3>2, <1>1 DEF RelArtifacts
    <3>3. CASE x.plan[q] # "KEEP" BY <3>1, <3>3, <1>1, <1>2 DEF RelPlanned
    <3> QED BY <3>2, <3>3
  <2> QED BY <2>1, <2>2 DEF RelArtifacts
<1>9. RelPlans'
  <2>0. RelPlanned(Releases!NoJob)' BY PlatformAssumption DEF Releases!NoJob, Releases!NoPlan, RelPlanned
  <2> SUFFICES ASSUME NEW k \in Requests, k # j PROVE RelPlanned(rJob[k])'
    BY <1>4, <2>0 DEF RelPlans
  <2>1. RelPlanned(rJob[k]) /\ rJob'[k] = rJob[k] BY <1>4 DEF RelPlans
  <2>2. ASSUME NEW q \in Releases!Releases, rStatus[q] # "NONE"
        PROVE  rStatus'[q] # "NONE" /\ rArtifact'[q] = rArtifact[q]
    <3>1. q # n BY <1>3, <2>2
    <3>2. x.plan[q] # "NONE" BY <1>2 DEF RelPlanned
    <3> QED BY <3>1, <3>2, <1>5, <2>2
  <2> QED BY <2>1, <2>2, <1>1 DEF RelPlanned
<1>10. RelCalm'
  <2> SUFFICES ASSUME rCalm PROVE RelCalm' BY <1>1 DEF RelCalm
  <2>1. \A k \in Requests : rJob'[k].op = "idle" BY <1>1, <1>4, RelNoJob DEF RelCalm
  <2>2. RelAlone(x) /\ \A r, s \in Releases!Active : r = s BY <1>1 DEF RelCalm
  <2>3. \A r, s \in Releases!Releases : rStatus'[r] = "ACTIVE" /\ rStatus'[s] = "ACTIVE" => r = s
    <3> SUFFICES ASSUME NEW r \in Releases!Releases, NEW s \in Releases!Releases, r # s,
                        rStatus'[r] = "ACTIVE", rStatus'[s] = "ACTIVE"
                 PROVE  FALSE
      OBVIOUS
    <3>1. CASE r # n /\ s # n BY <3>1, <1>5, <2>2 DEF RelAlone, Releases!Active
    <3>2. CASE r = n BY <3>2, <1>3, <1>5, <2>2 DEF RelAlone
    <3>3. CASE s = n BY <3>3, <1>3, <1>5, <2>2 DEF RelAlone
    <3> QED BY <3>1, <3>2, <3>3
  <2> QED BY <2>1, <2>3 DEF RelCalm, Releases!Active
<1> QED BY <1>7, <1>8, <1>9, <1>10

LEMMA RelAbandon ==
  ASSUME RelInv, NEW j \in Requests, Releases!Abandon(j)
  PROVE  RelInv'
<1> USE DEF RelInv
<1>1. /\ rJob' = [rJob EXCEPT ![j] = Releases!NoJob]
      /\ UNCHANGED <<rStatus, rArtifact, rApproved, rCalm>>
  BY DEF Releases!Abandon
<1>2. \A k \in Requests : rJob'[k] = IF k = j THEN Releases!NoJob ELSE rJob[k]
  BY <1>1 DEF Releases!TypeOK
<1>3. Releases!TypeOK' BY <1>1, RelNoJob DEF Releases!TypeOK, RelRecord
<1>4. RelArtifacts' BY <1>1 DEF RelArtifacts
<1>5. RelPlans' BY <1>1, <1>2, RelNoJob DEF RelPlans, RelPlanned
<1>6. RelCalm' BY <1>1, <1>2, RelNoJob DEF RelCalm, RelAlone, Releases!Active
<1> QED BY <1>3, <1>4, <1>5, <1>6

LEMMA RelStep == RelInv /\ [Releases!Next]_(Releases!vars) => RelInv'
<1> SUFFICES ASSUME RelInv, [Releases!Next]_(Releases!vars) PROVE RelInv' OBVIOUS
<1>1. CASE UNCHANGED Releases!vars
  BY <1>1 DEF RelInv, Releases!vars, Releases!TypeOK, RelArtifacts, RelPlans, RelPlanned, RelCalm,
     RelAlone, Releases!Active
<1>2. CASE Releases!Next
  BY <1>2, RelCreate, RelHandlers, RelCommit, RelAbandon DEF Releases!Next, Releases!Handle
<1> QED BY <1>1, <1>2

LEMMA RelSafe == RelInv => Releases!ReleasesSafe
<1> SUFFICES ASSUME RelInv PROVE Releases!ReleasesSafe OBVIOUS
<1>1. Releases!ActiveWasApproved BY DEF RelInv, RelArtifacts, Releases!ActiveWasApproved, Releases!Active
<1>2. ASSUME rCalm PROVE Releases!Cardinality(Releases!Active) <= 1
  <2>1. Cardinality(Releases!Active) <= 1 BY <1>2, AtMostOne DEF RelInv, RelCalm
  <2>2. Releases!Cardinality(Releases!Active) = Cardinality(Releases!Active)
    BY Zenon DEF Releases!Cardinality, Cardinality
  <2> QED BY <2>1, <2>2
<1> QED BY <1>1, <1>2 DEF RelInv, Releases!ReleasesSafe, Releases!CalmOneActive

LEMMA RelReplaced ==
  ASSUME RelInv, Releases!Next, Releases!Active # {}, Releases!Active' = {}
  PROVE  \E j \in Requests : rJob[j].op \in {"submit", "approve"} /\ rJob'[j].op = "idle"
<1>1. PICK a \in Releases!Releases : rStatus[a] = "ACTIVE" BY DEF Releases!Active
<1>2. \A q \in Releases!Releases : rStatus'[q] # "ACTIVE" BY DEF Releases!Active
<1>3. ~ UNCHANGED rStatus BY <1>1, <1>2
<1>4. ASSUME NEW r \in Releases!Releases, Releases!Create(r) PROVE FALSE
  BY <1>1, <1>2, <1>4 DEF Releases!Create, Releases!Fresh, RelInv, Releases!TypeOK
<1>5. PICK j \in Requests : Releases!Commit(j)
  BY <1>3, <1>4 DEF Releases!Next, Releases!Handle, Releases!SubmitReview, Releases!Approve,
     Releases!Activate, Releases!Rollback, Releases!Plan, Releases!Abandon
<1>6. RelPlanned(rJob[j]) /\ rJob[j] \in RelRecord BY DEF RelInv, RelPlans, Releases!TypeOK, RelRecord
<1>7. rJob[j].op # "rollback"
  <2> SUFFICES ASSUME rJob[j].op = "rollback" PROVE FALSE OBVIOUS
  <2>1. PICK r \in Releases!Releases :
          rStatus' = [Releases!Applied(rStatus, rJob[j].plan) EXCEPT ![r] = "ACTIVE"]
    BY <1>5, <1>6 DEF Releases!Commit, RelPlanned
  <2> QED BY <2>1, <1>2 DEF Releases!Applied, RelInv, Releases!TypeOK
<1>8. rJob[j].op # "activate"
  <2> SUFFICES ASSUME rJob[j].op = "activate" PROVE FALSE OBVIOUS
  <2>1. PICK r \in Releases!Releases : rJob[j].plan[r] = "ACTIVE" BY <1>6 DEF RelPlanned
  <2>2. Releases!Applied(rStatus, rJob[j].plan)[r] = "ACTIVE"
    BY <2>1 DEF Releases!Applied, RelInv, Releases!TypeOK
  <2>3. rStatus'[r] = "ACTIVE"
    BY <1>5, <2>2 DEF Releases!Commit, Releases!Applied, RelInv, Releases!TypeOK
  <2> QED BY <2>3, <1>2
<1>9. rJob[j].op # "idle" /\ rJob'[j].op = "idle"
  BY <1>5, RelNoJob DEF Releases!Commit, RelInv, Releases!TypeOK
<1> QED BY <1>6, <1>7, <1>8, <1>9 DEF RelRecord

(* A behaviour of the composite moves releases as their module says.       *)
LEMMA RelMoves == [MCNext]_allVars => [Releases!Next]_(Releases!vars)
<1> SUFFICES ASSUME MCNext PROVE [Releases!Next]_(Releases!vars)
  BY DEF allVars, ReleasesVars, Releases!vars
<1>1. CASE focus = "releases" BY <1>1 DEF MCNext
<1>2. CASE focus # "releases" BY <1>2 DEF MCNext, Keep, ReleasesVars, Releases!vars
<1> QED BY <1>1, <1>2
----------------------------------------------------------------------------
(* Data sources and their credentials.  The credentials in store are       *)
(* numbered without a gap and a rotation only takes the next number, so    *)
(* the credential it retires lies below one that exists: the newest one    *)
(* stays in force until somebody ends it.                                  *)

SrcBack  == {"rollback", "retire/rollback", "clone/rollback"}
SrcForth == {"rotate", "retire/rotate", "clone/rotate"}

SrcRecord == [op : {"idle", "inspect", "status", "approve", "create", "rotate", "rollback",
                    "retire/rotate", "retire/rollback", "clone/rotate", "clone/rollback"},
              plan : [Sources -> SourceStatus \cup {"KEEP"}], s : Sources,
              ev : SUBSET Checks, signed : BOOLEAN, old : Creds, new : Creds]

(* What a plan may write: into force only what is approved.                *)
SrcPlanned(x) ==
  /\ \A q \in Sources : x.plan[q] \in {"PUBLISHED", "ACTIVE"} => q \in approved
  /\ \A q \in Sources : x.plan[q] = "APPROVED" => x.op = "approve" /\ x.s = q
  /\ x.op \in SrcBack => x.signed
  /\ x.op \in SrcForth => \A q \in Sources : x.plan[q] = "KEEP"

(* How far a rotation is.                                                  *)
SrcRotating(x) ==
  /\ x.op \in {"rotate", "rollback", "retire/rotate", "retire/rollback"} => x.old < x.new
  /\ x.op \in {"rotate", "rollback"} => \A c \in Creds : c < x.new => cred[c] # "NONE"
  /\ x.op \in {"retire/rotate", "retire/rollback"} => cred[x.new] # "NONE"

(* A plan that, written to the present statuses, leaves one active version *)
(* at most, and one at least unless it disables it.                        *)
SrcAlone(x) ==
  /\ \A r, q \in Sources :
       x.plan[r] = "ACTIVE" /\ q # r =>
         x.plan[q] # "ACTIVE" /\ (source[q] = "ACTIVE" => x.plan[q] # "KEEP")
  /\ x.op \in SrcBack => \A q \in Sources :
       x.plan[q] # "ACTIVE" /\ (source[q] = "ACTIVE" => x.plan[q] # "KEEP")
  /\ \A q \in Sources : source[q] = "ACTIVE" /\ x.plan[q] \notin {"KEEP", "DISABLED"} =>
       x.op \in SrcBack \/ \E r \in Sources : x.plan[r] = "ACTIVE"

SrcApproved == \A q \in Sources : source[q] \in {"APPROVED", "PUBLISHED", "ACTIVE"} => q \in approved

SrcNewest ==
  \E n \in Creds : /\ \A c \in Creds : cred[c] # "NONE" <=> c <= n
                   /\ ~ended => cred[n] = "ACTIVE"

SrcJobs == \A j \in Requests : SrcPlanned(job[j]) /\ SrcRotating(job[j])

SrcCalm ==
  calm =>
    /\ \A r, q \in Active : r = q
    /\ \A j, k \in Requests : job[j].op # "idle" /\ job[k].op # "idle" => j = k
    /\ \A j \in Requests : job[j].op # "idle" => SrcAlone(job[j])

SrcInv == TypeOK /\ SrcApproved /\ SrcNewest /\ SrcJobs /\ SrcCalm

LEMMA SrcNoJob ==
  /\ NoJob \in SrcRecord /\ NoJob.op = "idle" /\ \A q \in Sources : NoJob.plan[q] = "KEEP"
BY SourcesAssumption DEF NoJob, NoPlan, SrcRecord, Sources, Creds

LEMMA SrcInit == Init => SrcInv
<1> SUFFICES ASSUME Init PROVE SrcInv OBVIOUS
<1>1. TypeOK
  <2>1. 1 \in Creds BY SourcesAssumption DEF Creds
  <2> QED BY <2>1, SrcNoJob DEF Init, TypeOK, SourceStatus, CredStatus, SrcRecord
<1>2. SrcApproved BY DEF Init, SrcApproved
<1>3. SrcNewest
  <2>1. 1 \in Creds /\ \A c \in Creds : c <= 1 <=> c = 1 BY SourcesAssumption DEF Creds
  <2> QED BY <2>1 DEF Init, SrcNewest
<1>4. SrcJobs
  BY SrcNoJob DEF Init, SrcJobs, SrcPlanned, SrcRotating, SrcBack, SrcForth
<1>5. SrcCalm BY SrcNoJob DEF Init, SrcCalm, Active
<1> QED BY <1>1, <1>2, <1>3, <1>4, <1>5 DEF SrcInv

(* A request that plans changes no row and no credential.                  *)
LEMMA SrcPlan ==
  ASSUME SrcInv, NEW j \in Requests, NEW x \in SrcRecord, Plan(j, x),
         SrcPlanned(x), SrcRotating(x), calm => SrcAlone(x)
  PROVE  SrcInv'
<1> USE DEF SrcInv
<1>1. /\ job' = [job EXCEPT ![j] = x]
      /\ UNCHANGED <<source, approved, ref, evidence, cred, ended>>
      /\ calm' = (calm /\ \A k \in DOMAIN job : k # j => job[k].op = "idle")
  BY DEF Plan, Alone
<1>2. TypeOK' BY <1>1 DEF TypeOK, SrcRecord
<1>3. \A k \in Requests : job'[k] = IF k = j THEN x ELSE job[k] BY <1>1 DEF TypeOK
<1>4. SrcApproved' BY <1>1 DEF SrcApproved
<1>5. SrcNewest' BY <1>1 DEF SrcNewest
<1>6. SrcJobs' BY <1>1, <1>3 DEF SrcJobs, SrcPlanned, SrcRotating
<1>7. SrcCalm'
  <2> SUFFICES ASSUME calm' PROVE SrcCalm' BY DEF SrcCalm
  <2>1. calm /\ \A k \in Requests : k # j => job[k].op = "idle" BY <1>1 DEF TypeOK
  <2>2. (\A r, q \in Active : r = q)' BY <1>1, <2>1 DEF SrcCalm, Active
  <2>3. (\A i, k \in Requests : job[i].op # "idle" /\ job[k].op # "idle" => i = k)'
    BY <1>3, <2>1
  <2>4. (\A k \in Requests : job[k].op # "idle" => SrcAlone(job[k]))'
    BY <1>1, <1>3, <2>1 DEF SrcCalm, SrcAlone
  <2> QED BY <2>2, <2>3, <2>4 DEF SrcCalm
<1> QED BY <1>2, <1>4, <1>5, <1>6, <1>7

(* The plan for one version.                                               *)
LEMMA SrcMove ==
  ASSUME SrcInv, NEW j \in Requests, NEW s \in Sources, NEW op \in {"status", "approve"},
         NEW to \in SourceStatus \ {"ACTIVE"}, source[s] # to,
         Change(j, op, s, Writes(source, {}, "", {s}, to)),
         to = "PUBLISHED" => s \in approved, to = "APPROVED" => op = "approve",
         source[s] = "ACTIVE" => to = "DISABLED"
  PROVE  SrcInv'
<1> USE DEF SrcInv
<1> DEFINE plan == Writes(source, {}, "", {s}, to)
           x == [NoJob EXCEPT !.op = op, !.s = s, !.plan = plan]
<1>1. plan = [q \in Sources |-> IF q = s THEN to ELSE "KEEP"] BY DEF Writes, TypeOK
<1>2. plan \in [Sources -> SourceStatus \cup {"KEEP"}] BY <1>1
<1> HIDE DEF plan
<1>3. x \in SrcRecord /\ x.op = op /\ x.s = s /\ x.plan = plan BY <1>2, SrcNoJob DEF SrcRecord
<1> HIDE DEF x
<1>4. Plan(j, x) BY DEF Change, plan, x
<1>5. SrcPlanned(x)
  <2>1. x.op \notin SrcBack \cup SrcForth BY <1>3 DEF SrcBack, SrcForth
  <2>2. \A q \in Sources : x.plan[q] \in {"KEEP", to} /\ (x.plan[q] # "KEEP" => q = s)
    BY <1>1, <1>3
  <2> QED BY <1>3, <2>1, <2>2 DEF SrcPlanned
<1>6. SrcRotating(x) BY <1>3 DEF SrcRotating
<1>7. SrcAlone(x) BY <1>1, <1>3 DEF SrcAlone, SrcBack
<1> QED BY <1>3, <1>4, <1>5, <1>6, <1>7, SrcPlan

LEMMA SrcReviews ==
  ASSUME SrcInv, NEW j \in Requests, NEW s \in Sources,
         Submit(j, s) \/ Approve(j, s) \/ Publish(j, s) \/ Disable(j, s) \/ Archive(j, s)
  PROVE  SrcInv'
<1>1. CASE Submit(j, s)
  <2>1. /\ source[s] # "REVIEW" /\ Change(j, "status", s, Writes(source, {}, "", {s}, "REVIEW"))
        /\ source[s] # "ACTIVE"
    BY <1>1 DEF Submit, Move
  <2>2. "REVIEW" \in SourceStatus \ {"ACTIVE"} BY DEF SourceStatus
  <2> QED BY <2>1, <2>2, SrcMove
<1>2. CASE Approve(j, s)
  <2>1. /\ source[s] # "APPROVED" /\ Change(j, "approve", s, Writes(source, {}, "", {s}, "APPROVED"))
        /\ source[s] # "ACTIVE"
    BY <1>2 DEF Approve
  <2>2. "APPROVED" \in SourceStatus \ {"ACTIVE"} BY DEF SourceStatus
  <2> QED BY <2>1, <2>2, SrcMove
<1>3. CASE Publish(j, s)
  <2>1. /\ source[s] # "PUBLISHED" /\ Change(j, "status", s, Writes(source, {}, "", {s}, "PUBLISHED"))
        /\ source[s] # "ACTIVE"
        /\ s \in approved
    BY <1>3 DEF Publish, Move, SrcInv, SrcApproved
  <2>2. "PUBLISHED" \in SourceStatus \ {"ACTIVE"} BY DEF SourceStatus
  <2> QED BY <2>1, <2>2, SrcMove
<1>4. CASE Disable(j, s)
  <2>1. /\ source[s] # "DISABLED" /\ Change(j, "status", s, Writes(source, {}, "", {s}, "DISABLED"))
    BY <1>4 DEF Disable, Move
  <2>2. "DISABLED" \in SourceStatus \ {"ACTIVE"} BY DEF SourceStatus
  <2> QED BY <2>1, <2>2, SrcMove
<1>5. CASE Archive(j, s)
  <2>1. /\ source[s] # "ARCHIVED" /\ Change(j, "status", s, Writes(source, {}, "", {s}, "ARCHIVED"))
        /\ source[s] # "ACTIVE"
    BY <1>5 DEF Archive, Move
  <2>2. "ARCHIVED" \in SourceStatus \ {"ACTIVE"} BY DEF SourceStatus
  <2> QED BY <2>1, <2>2, SrcMove
<1> QED BY <1>1, <1>2, <1>3, <1>4, <1>5

LEMMA SrcActivate ==
  ASSUME SrcInv, NEW j \in Requests, NEW s \in Sources, Activate(j, s)
  PROVE  SrcInv'
<1> USE DEF SrcInv
<1> DEFINE plan == Writes(source, Active, "SUPERSEDED", {s}, "ACTIVE")
           x == [NoJob EXCEPT !.op = "status", !.s = s, !.plan = plan]
<1>1. source[s] = "PUBLISHED" /\ Plan(j, x) BY DEF Activate, Change
<1>2. plan = [q \in Sources |-> IF q = s THEN "ACTIVE" ELSE IF source[q] = "ACTIVE" THEN "SUPERSEDED"
                               ELSE "KEEP"]
  BY <1>1 DEF Writes, TypeOK, Active
<1>3. plan \in [Sources -> SourceStatus \cup {"KEEP"}] BY <1>2 DEF SourceStatus
<1> HIDE DEF plan
<1>4. x \in SrcRecord /\ x.op = "status" /\ x.s = s /\ x.plan = plan BY <1>3, SrcNoJob DEF SrcRecord
<1> HIDE DEF x
<1>5. SrcPlanned(x) BY <1>1, <1>2, <1>4 DEF SrcPlanned, SrcBack, SrcForth, SrcApproved
<1>6. SrcRotating(x) BY <1>4 DEF SrcRotating
<1>7. SrcAlone(x) BY <1>2, <1>4 DEF SrcAlone, SrcBack
<1> QED BY <1>1, <1>4, <1>5, <1>6, <1>7, SrcPlan

LEMMA SrcInspect ==
  ASSUME SrcInv, NEW j \in Requests, NEW s \in Sources, NEW k \in Checks, Inspect(j, s, k)
  PROVE  SrcInv'
<1> USE DEF SrcInv
<1> DEFINE x == [NoJob EXCEPT !.op = "inspect", !.s = s, !.ev = evidence[s] \cup {k}]
<1>1. evidence[s] \cup {k} \in SUBSET Checks BY DEF TypeOK
<1>2. /\ x \in SrcRecord /\ x.op = "inspect" /\ \A q \in Sources : x.plan[q] = "KEEP"
  BY <1>1, SrcNoJob DEF SrcRecord
<1>3. Plan(j, x) BY DEF Inspect
<1> HIDE DEF x
<1> QED BY <1>2, <1>3, SrcPlan DEF SrcPlanned, SrcRotating, SrcAlone, SrcBack, SrcForth

(* The next version of the credential, and what lies below it.             *)
LEMMA SrcNext ==
  ASSUME SrcInv, NEW n \in Creds, \A c \in Creds : cred[c] # "NONE" <=> c <= n
  PROVE  NextVersion = n + 1
<1>1. {c \in Creds : cred[c] # "NONE"} = 1 .. n BY SourcesAssumption DEF Creds
<1>2. Cardinality(1 .. n) = n BY FS_Interval, SourcesAssumption DEF Creds
<1> QED BY <1>1, <1>2 DEF NextVersion

LEMMA SrcBelow ==
  ASSUME SrcInv, NextVersion \in Creds, NEW c \in Creds
  PROVE  cred[c] # "NONE" <=> c < NextVersion
<1>1. PICK n \in Creds : \A d \in Creds : cred[d] # "NONE" <=> d <= n BY DEF SrcInv, SrcNewest
<1>2. NextVersion = n + 1 BY <1>1, SrcNext
<1> QED BY <1>1, <1>2, SourcesAssumption DEF Creds

LEMMA SrcRotations ==
  ASSUME SrcInv, NEW j \in Requests, NEW s \in Sources,
         Rotate(j, s) \/ \E t \in Sources : Rollback(j, s, t)
  PROVE  SrcInv'
<1> USE DEF SrcInv
<1>1. CASE Rotate(j, s)
  <2> DEFINE x == Rotation(s, "rotate")
  <2>1. NextVersion \in Creds /\ cred[ref[s]] = "ACTIVE" /\ Plan(j, x) /\ ref[s] \in Creds
    BY <1>1 DEF Rotate, TypeOK
  <2>2. /\ x \in SrcRecord /\ x.op = "rotate" /\ x.old = ref[s] /\ x.new = NextVersion
        /\ \A q \in Sources : x.plan[q] = "KEEP"
    BY <2>1, SrcNoJob DEF Rotation, SrcRecord
  <2> HIDE DEF x
  <2>3. SrcRotating(x) BY <2>1, <2>2, SrcBelow DEF SrcRotating
  <2>4. SrcPlanned(x) BY <2>2 DEF SrcPlanned, SrcBack, SrcForth
  <2>5. SrcAlone(x) BY <2>2 DEF SrcAlone, SrcBack
  <2> QED BY <2>1, <2>2, <2>3, <2>4, <2>5, SrcPlan
<1>2. ASSUME NEW t \in Sources, Rollback(j, s, t) PROVE SrcInv'
  <2> DEFINE plan == Writes(source, {}, "", {s}, "ROLLED_BACK")
             x == [Rotation(s, "rollback") EXCEPT !.plan = plan, !.ev = evidence[t],
                                                  !.signed = t \in approved]
  <2>1. /\ NextVersion \in Creds /\ cred[ref[s]] = "ACTIVE" /\ ref[s] \in Creds
        /\ source[s] = "ACTIVE" /\ t \in approved /\ Plan(j, x)
    BY <1>2 DEF Rollback, TypeOK
  <2>2. plan = [q \in Sources |-> IF q = s THEN "ROLLED_BACK" ELSE "KEEP"]
    BY <2>1 DEF Writes, TypeOK
  <2>3. plan \in [Sources -> SourceStatus \cup {"KEEP"}] BY <2>2 DEF SourceStatus
  <2> HIDE DEF plan
  <2>4. evidence[t] \in SUBSET Checks BY DEF TypeOK
  <2>5. /\ x \in SrcRecord /\ x.op = "rollback" /\ x.old = ref[s] /\ x.new = NextVersion
        /\ x.plan = plan /\ x.signed
    BY <2>1, <2>3, <2>4, SrcNoJob DEF Rotation, SrcRecord
  <2> HIDE DEF x
  <2>6. SrcRotating(x) BY <2>1, <2>5, SrcBelow DEF SrcRotating
  <2>7. SrcPlanned(x) BY <2>2, <2>5 DEF SrcPlanned, SrcBack, SrcForth
  <2>8. calm => \A q \in Sources : source[q] = "ACTIVE" => q = s BY <2>1 DEF SrcCalm, Active
  <2>9. calm => SrcAlone(x) BY <2>2, <2>5, <2>8 DEF SrcAlone, SrcBack
  <2> QED BY <2>1, <2>5, <2>6, <2>7, <2>9, SrcPlan
<1> QED BY <1>1, <1>2

LEMMA SrcCreate ==
  ASSUME SrcInv, NEW s \in Sources, NEW c \in Creds, Create(s, c)
  PROVE  SrcInv'
<1> USE DEF SrcInv
<1>1. /\ source[s] = "NONE" /\ source' = [source EXCEPT ![s] = "DRAFT"]
      /\ ref' = [ref EXCEPT ![s] = c] /\ UNCHANGED <<approved, evidence, cred, ended, calm, job>>
  BY DEF Create, Fresh
<1>2. \A q \in Sources : source'[q] = IF q = s THEN "DRAFT" ELSE source[q] BY <1>1 DEF TypeOK
<1>3. TypeOK' BY <1>1 DEF TypeOK, SourceStatus
<1>4. SrcApproved' BY <1>1, <1>2 DEF SrcApproved
<1>5. SrcNewest' BY <1>1 DEF SrcNewest
<1>6. SrcJobs' BY <1>1 DEF SrcJobs, SrcPlanned, SrcRotating
<1>7. SrcCalm' BY <1>1, <1>2 DEF SrcCalm, SrcAlone, Active
<1> QED BY <1>3, <1>4, <1>5, <1>6, <1>7

(* A credential that was in store stays in store, the newest one in force. *)
LEMMA SrcRotateCreate ==
  ASSUME SrcInv, NEW j \in Requests, RotateCreate(j)
  PROVE  SrcInv'
<1> USE DEF SrcInv
<1> DEFINE m == job[j].new
           x == [job[j] EXCEPT !.op = IF job[j].op = "rotate" THEN "retire/rotate" ELSE "retire/rollback"]
<1>1. /\ job[j].op \in {"rotate", "rollback"} /\ cred[m] = "NONE"
      /\ cred' = [cred EXCEPT ![m] = "ACTIVE"] /\ job' = [job EXCEPT ![j] = x]
      /\ UNCHANGED <<source, approved, ref, evidence, ended, calm>>
  BY DEF RotateCreate, TypeOK
<1>2. /\ job[j] \in SrcRecord /\ SrcPlanned(job[j]) /\ SrcRotating(job[j]) /\ m \in Creds
  BY DEF SrcJobs, TypeOK, SrcRecord
<1>3. /\ x \in SrcRecord /\ x.op \in {"retire/rotate", "retire/rollback"} /\ x.plan = job[j].plan
      /\ x.op = "retire/rotate" <=> job[j].op = "rotate"
      /\ x.signed = job[j].signed /\ x.old = job[j].old /\ x.new = m
  BY <1>1, <1>2 DEF SrcRecord
<1>4. /\ \A k \in Requests : job'[k] = IF k = j THEN x ELSE job[k]
      /\ \A c \in Creds : cred'[c] = IF c = m THEN "ACTIVE" ELSE cred[c]
  BY <1>1, <1>2 DEF TypeOK
<1> HIDE DEF x
<1>5. TypeOK'
  <2>1. cred' \in [Creds -> CredStatus] BY <1>1 DEF TypeOK, CredStatus
  <2>2. job' \in [Requests -> SrcRecord] BY <1>1, <1>3 DEF TypeOK, SrcRecord
  <2> QED BY <1>1, <2>1, <2>2 DEF TypeOK, SrcRecord
<1>6. SrcApproved' BY <1>1 DEF SrcApproved
<1>7. SrcNewest'
  <2>1. PICK n \in Creds : \A c \in Creds : cred[c] # "NONE" <=> c <= n BY DEF SrcNewest
  <2>2. \A c \in Creds : c < m => c <= n BY <1>1, <1>2, <2>1 DEF SrcRotating
  <2>3. \A c \in Creds : c <= m <=> c <= n \/ c = m
    BY <1>1, <1>2, <2>1, <2>2, SourcesAssumption DEF Creds
  <2>4. \A c \in Creds : cred'[c] # "NONE" <=> c <= m BY <1>4, <2>1, <2>3
  <2> QED BY <1>2, <1>4, <2>4 DEF SrcNewest
<1>8. SrcJobs'
  <2>1. SrcPlanned(job[j])' BY <1>1, <1>2, <1>3, <1>4 DEF SrcPlanned, SrcBack, SrcForth
  <2>2. SrcRotating(job[j])' BY <1>1, <1>2, <1>3, <1>4 DEF SrcRotating
  <2>3. ASSUME NEW k \in Requests, k # j PROVE (SrcPlanned(job[k]) /\ SrcRotating(job[k]))'
    <3>1. SrcPlanned(job[k]) /\ SrcRotating(job[k]) /\ job'[k] = job[k] BY <1>4, <2>3 DEF SrcJobs
    <3>2. job[k].new \in Creds BY DEF TypeOK
    <3> QED BY <1>1, <1>4, <3>1, <3>2 DEF SrcPlanned, SrcRotating
  <2> QED BY <1>4, <2>1, <2>2, <2>3 DEF SrcJobs
<1>9. SrcCalm' BY <1>1, <1>3, <1>4 DEF SrcCalm, SrcAlone, SrcBack, Active
<1> QED BY <1>5, <1>6, <1>7, <1>8, <1>9

LEMMA SrcRotateRetire ==
  ASSUME SrcInv, NEW j \in Requests, RotateRetire(j)
  PROVE  SrcInv'
<1> USE DEF SrcInv
<1> DEFINE m == job[j].old
           x == [job[j] EXCEPT !.op = IF job[j].op = "retire/rotate" THEN "clone/rotate" ELSE "clone/rollback"]
<1>1. /\ job[j].op \in {"retire/rotate", "retire/rollback"}
      /\ cred' = [cred EXCEPT ![m] = "SUPERSEDED"] /\ job' = [job EXCEPT ![j] = x]
      /\ UNCHANGED <<source, approved, ref, evidence, ended, calm>>
  BY DEF RotateRetire, TypeOK
<1>2. /\ job[j] \in SrcRecord /\ SrcPlanned(job[j]) /\ SrcRotating(job[j])
      /\ m \in Creds /\ job[j].new \in Creds
  BY DEF SrcJobs, TypeOK, SrcRecord
<1>3. /\ x \in SrcRecord /\ x.op \in {"clone/rotate", "clone/rollback"} /\ x.plan = job[j].plan
      /\ x.op = "clone/rotate" <=> job[j].op = "retire/rotate"
      /\ x.signed = job[j].signed
  BY <1>1, <1>2 DEF SrcRecord
<1>4. /\ \A k \in Requests : job'[k] = IF k = j THEN x ELSE job[k]
      /\ \A c \in Creds : cred'[c] = IF c = m THEN "SUPERSEDED" ELSE cred[c]
  BY <1>1, <1>2 DEF TypeOK
<1> HIDE DEF x
<1>5. TypeOK'
  <2>1. cred' \in [Creds -> CredStatus] BY <1>1 DEF TypeOK, CredStatus
  <2>2. job' \in [Requests -> SrcRecord] BY <1>1, <1>3 DEF TypeOK, SrcRecord
  <2> QED BY <1>1, <2>1, <2>2 DEF TypeOK, SrcRecord
<1>6. SrcApproved' BY <1>1 DEF SrcApproved
<1>7. SrcNewest'
  <2>1. PICK n \in Creds : /\ \A c \in Creds : cred[c] # "NONE" <=> c <= n
                           /\ ~ended => cred[n] = "ACTIVE"
    BY DEF SrcNewest
  <2>2. m < n
    <3>1. m < job[j].new /\ job[j].new <= n BY <1>1, <1>2, <2>1 DEF SrcRotating
    <3> QED BY <1>2, <3>1, SourcesAssumption DEF Creds
  <2>3. m <= n /\ m # n BY <1>2, <2>2, SourcesAssumption DEF Creds
  <2>4. \A c \in Creds : cred'[c] # "NONE" <=> c <= n BY <1>4, <2>1, <2>3
  <2>5. ~ended' => cred'[n] = "ACTIVE" BY <1>1, <1>4, <2>1, <2>3
  <2> QED BY <2>4, <2>5 DEF SrcNewest
<1>8. SrcJobs'
  <2>1. SrcPlanned(job[j])' BY <1>1, <1>2, <1>3, <1>4 DEF SrcPlanned, SrcBack, SrcForth
  <2>2. SrcRotating(job[j])' BY <1>3, <1>4 DEF SrcRotating
  <2>3. ASSUME NEW k \in Requests, k # j PROVE (SrcPlanned(job[k]) /\ SrcRotating(job[k]))'
    <3>1. SrcPlanned(job[k]) /\ SrcRotating(job[k]) /\ job'[k] = job[k] BY <1>4, <2>3 DEF SrcJobs
    <3>2. job[k].new \in Creds BY DEF TypeOK
    <3> QED BY <1>1, <1>4, <3>1, <3>2 DEF SrcPlanned, SrcRotating
  <2> QED BY <1>4, <2>1, <2>2, <2>3 DEF SrcJobs
<1>9. SrcCalm' BY <1>1, <1>3, <1>4 DEF SrcCalm, SrcAlone, SrcBack, Active
<1> QED BY <1>5, <1>6, <1>7, <1>8, <1>9

(* A request that ends: what it has written was planned by it.             *)
LEMMA SrcEnd ==
  ASSUME SrcInv, NEW j \in Requests, job[j].op # "idle", job' = [job EXCEPT ![j] = NoJob],
         UNCHANGED <<cred, ended, calm>>, source' \in [Sources -> SourceStatus],
         approved \subseteq approved', approved' \subseteq Sources,
         ref' \in [Sources -> Creds], evidence' \in [Sources -> SUBSET Checks],
         SrcApproved',
         calm => \A r, q \in Sources : source'[r] = "ACTIVE" /\ source'[q] = "ACTIVE" => r = q
  PROVE  SrcInv'
<1> USE DEF SrcInv
<1>1. \A k \in Requests : job'[k] = IF k = j THEN NoJob ELSE job[k] BY DEF TypeOK
<1>2. TypeOK'
  <2>1. job' \in [Requests -> SrcRecord] BY SrcNoJob DEF TypeOK, SrcRecord
  <2> QED BY <2>1 DEF TypeOK, SrcRecord
<1>3. SrcNewest' BY DEF SrcNewest
<1>4. SrcJobs'
  <2>1. (SrcPlanned(NoJob) /\ SrcRotating(NoJob))'
    BY SrcNoJob DEF SrcPlanned, SrcRotating, SrcBack, SrcForth, NoJob, NoPlan
  <2>2. ASSUME NEW k \in Requests, k # j PROVE (SrcPlanned(job[k]) /\ SrcRotating(job[k]))'
    BY <1>1, <2>2 DEF SrcJobs, SrcPlanned, SrcRotating
  <2> QED BY <1>1, <2>1, <2>2 DEF SrcJobs
<1>5. SrcCalm'
  <2> SUFFICES ASSUME calm PROVE SrcCalm' BY DEF SrcCalm
  <2>1. \A k \in Requests : job'[k].op = "idle" BY <1>1, SrcNoJob DEF SrcCalm
  <2> QED BY <2>1 DEF SrcCalm, Active
<1> QED BY <1>2, <1>3, <1>4, <1>5

LEMMA SrcClone ==
  ASSUME SrcInv, NEW j \in Requests, NEW s \in Sources, Clone(j, s)
  PROVE  SrcInv'
<1> USE DEF SrcInv
<1> DEFINE x == job[j]
           back == x.op = "clone/rollback"
<1>1. /\ x.op \in {"clone/rotate", "clone/rollback"} /\ source[s] = "NONE"
      /\ source' = [Applied(source, x.plan) EXCEPT ![s] = IF back THEN "ACTIVE" ELSE "DRAFT"]
      /\ approved' = IF x.signed THEN approved \cup {s} ELSE approved
      /\ evidence' = [evidence EXCEPT ![s] = x.ev] /\ ref' = [ref EXCEPT ![s] = x.new]
      /\ job' = [job EXCEPT ![j] = NoJob] /\ UNCHANGED <<cred, ended, calm>>
  BY DEF Clone, Fresh
<1>2. x \in SrcRecord /\ SrcPlanned(x) BY DEF SrcJobs, TypeOK, SrcRecord
<1>3. source' = [q \in Sources |-> IF q = s THEN (IF back THEN "ACTIVE" ELSE "DRAFT")
                                   ELSE IF x.plan[q] = "KEEP" THEN source[q] ELSE x.plan[q]]
  BY <1>1 DEF Applied, TypeOK
<1>4. source' \in [Sources -> SourceStatus]
  BY <1>2, <1>3 DEF TypeOK, SrcRecord, SourceStatus
<1>5. /\ approved \subseteq approved' /\ approved' \subseteq Sources
      /\ ref' \in [Sources -> Creds] /\ evidence' \in [Sources -> SUBSET Checks]
  BY <1>1, <1>2 DEF TypeOK, SrcRecord
<1>6. SrcApproved'
  <2>1. back => s \in approved' BY <1>1, <1>2 DEF SrcPlanned, SrcBack
  <2> QED BY <1>1, <1>2, <1>3, <1>5, <2>1 DEF SrcApproved, SrcPlanned
<1>7. ASSUME calm, NEW r \in Sources, NEW q \in Sources, r # q,
             source'[r] = "ACTIVE", source'[q] = "ACTIVE"
      PROVE  FALSE
  <2>1. SrcAlone(x) /\ \A a, b \in Active : a = b BY <1>1, <1>7 DEF SrcCalm
  <2>2. CASE back BY <1>3, <1>7, <2>1, <2>2 DEF SrcAlone, SrcBack
  <2>3. CASE ~back
    <3>1. \A p \in Sources : x.plan[p] = "KEEP" BY <1>1, <1>2, <2>3 DEF SrcPlanned, SrcForth
    <3> QED BY <1>3, <1>7, <2>1, <2>3, <3>1 DEF Active
  <2> QED BY <2>2, <2>3
<1> QED BY <1>1, <1>4, <1>5, <1>6, <1>7, SrcEnd

LEMMA SrcCommit ==
  ASSUME SrcInv, NEW j \in Requests, Commit(j)
  PROVE  SrcInv'
<1> USE DEF SrcInv
<1> DEFINE x == job[j]
<1>1. /\ x.op \in {"inspect", "status", "approve"} /\ source' = Applied(source, x.plan)
      /\ approved' = IF x.op = "approve" THEN approved \cup {x.s} ELSE approved
      /\ evidence' = IF x.op = "inspect" THEN [evidence EXCEPT ![x.s] = x.ev] ELSE evidence
      /\ job' = [job EXCEPT ![j] = NoJob] /\ UNCHANGED <<ref, cred, ended, calm>>
  BY DEF Commit
<1>2. x \in SrcRecord /\ SrcPlanned(x) BY DEF SrcJobs, TypeOK, SrcRecord
<1>3. source' = [q \in Sources |-> IF x.plan[q] = "KEEP" THEN source[q] ELSE x.plan[q]]
  BY <1>1 DEF Applied, TypeOK
<1>4. source' \in [Sources -> SourceStatus]
  BY <1>2, <1>3 DEF TypeOK, SrcRecord
<1>5. /\ approved \subseteq approved' /\ approved' \subseteq Sources
      /\ ref' \in [Sources -> Creds] /\ evidence' \in [Sources -> SUBSET Checks]
  BY <1>1, <1>2 DEF TypeOK, SrcRecord
<1>6. SrcApproved' BY <1>1, <1>2, <1>3, <1>5 DEF SrcApproved, SrcPlanned
<1>7. ASSUME calm, NEW r \in Sources, NEW q \in Sources, r # q,
             source'[r] = "ACTIVE", source'[q] = "ACTIVE"
      PROVE  FALSE
  <2>1. SrcAlone(x) /\ \A a, b \in Active : a = b BY <1>1, <1>7 DEF SrcCalm
  <2> QED BY <1>3, <1>7, <2>1 DEF SrcAlone, Active
<1> QED BY <1>1, <1>4, <1>5, <1>6, <1>7, SrcEnd

LEMMA SrcAbandon ==
  ASSUME SrcInv, NEW j \in Requests, Abandon(j)
  PROVE  SrcInv'
<1>1. /\ job[j].op # "idle" /\ job' = [job EXCEPT ![j] = NoJob]
      /\ UNCHANGED <<source, approved, ref, evidence, cred, ended, calm>>
  BY DEF Abandon
<1>2. SrcApproved' BY <1>1 DEF SrcInv, SrcApproved
<1>3. calm => \A r, q \in Sources : source'[r] = "ACTIVE" /\ source'[q] = "ACTIVE" => r = q
  BY <1>1 DEF SrcInv, SrcCalm, Active
<1> QED BY <1>1, <1>2, <1>3, SrcEnd DEF SrcInv, TypeOK

LEMMA SrcEndCredential ==
  ASSUME SrcInv, NEW c \in Creds, NEW to \in CredStatus, EndCredential(c, to)
  PROVE  SrcInv'
<1> USE DEF SrcInv
<1>1. /\ to # "NONE" /\ cred[c] # "NONE" /\ cred' = [cred EXCEPT ![c] = to] /\ ended' = TRUE
      /\ UNCHANGED <<source, approved, ref, evidence, calm, job>>
  BY DEF EndCredential
<1>2. \A d \in Creds : cred'[d] # "NONE" <=> cred[d] # "NONE" BY <1>1 DEF TypeOK
<1>3. TypeOK' BY <1>1 DEF TypeOK
<1>4. SrcApproved' BY <1>1 DEF SrcApproved
<1>5. SrcNewest' BY <1>1, <1>2 DEF SrcNewest
<1>6. SrcJobs'
  <2>1. \A k \in Requests : job[k].new \in Creds BY DEF TypeOK
  <2> QED BY <1>1, <1>2, <2>1 DEF SrcJobs, SrcPlanned, SrcRotating
<1>7. SrcCalm' BY <1>1 DEF SrcCalm, SrcAlone, Active
<1> QED BY <1>3, <1>4, <1>5, <1>6, <1>7

LEMMA SrcStep == SrcInv /\ [Next]_vars => SrcInv'
<1> SUFFICES ASSUME SrcInv, [Next]_vars PROVE SrcInv' OBVIOUS
<1>1. CASE UNCHANGED vars
  BY <1>1 DEF SrcInv, vars, TypeOK, SrcApproved, SrcNewest, SrcJobs, SrcPlanned, SrcRotating,
     SrcCalm, SrcAlone, Active
<1>2. CASE \E s \in Sources, c \in Creds : Create(s, c) BY <1>2, SrcCreate
<1>3. CASE \E c \in Creds, to \in CredStatus : EndCredential(c, to) BY <1>3, SrcEndCredential
<1>4. ASSUME NEW j \in Requests, Handle(j) PROVE SrcInv'
  BY <1>4, SrcReviews, SrcActivate, SrcInspect, SrcRotations, SrcClone, SrcRotateCreate,
     SrcRotateRetire, SrcCommit, SrcAbandon DEF Handle
<1> QED BY <1>1, <1>2, <1>3, <1>4 DEF Next

LEMMA SrcSafe == SrcInv => SourcesSafe
<1> SUFFICES ASSUME SrcInv PROVE SourcesSafe OBVIOUS
<1>1. ActiveWasApproved BY DEF SrcInv, SrcApproved, ActiveWasApproved, Active
<1>2. RotationLeavesNoGap BY DEF SrcInv, SrcNewest, RotationLeavesNoGap
<1>3. CalmOneActive BY AtMostOne DEF SrcInv, SrcCalm, CalmOneActive
<1> QED BY <1>1, <1>2, <1>3 DEF SrcInv, SourcesSafe

(* The last active version without overlaps: disabled, or replaced.        *)
LEMMA SrcReplaced ==
  ASSUME SrcInv, Next, calm, Active # {}, Active' = {}
  PROVE  \E s \in Active : source'[s] = "DISABLED"
<1> USE DEF SrcInv
<1>1. PICK a \in Sources : source[a] = "ACTIVE" /\ a \in Active BY DEF Active
<1>2. \A q \in Sources : source'[q] # "ACTIVE" BY DEF Active
<1>3. ~ UNCHANGED source BY <1>1, <1>2
<1>4. ASSUME NEW s \in Sources, NEW c \in Creds, Create(s, c) PROVE FALSE
  BY <1>1, <1>2, <1>4 DEF Create, Fresh, TypeOK
<1>5. PICK j \in Requests : Commit(j) \/ \E s \in Sources : Clone(j, s)
  <2>1. ASSUME NEW c \in Creds, NEW to \in CredStatus, EndCredential(c, to) PROVE FALSE
    BY <1>3, <2>1 DEF EndCredential
  <2>2. PICK j \in Requests : Handle(j) BY <1>4, <2>1 DEF Next
  <2>3. ASSUME NEW s \in Sources PROVE ~Submit(j, s) /\ ~Approve(j, s) /\ ~Publish(j, s)
    BY <1>3 DEF Submit, Approve, Publish, Move, Change, Plan
  <2>4. ASSUME NEW s \in Sources
        PROVE  ~Activate(j, s) /\ ~Disable(j, s) /\ ~Archive(j, s) /\ ~Rotate(j, s)
    BY <1>3 DEF Activate, Disable, Archive, Rotate, Move, Change, Plan
  <2>5. ASSUME NEW s \in Sources
        PROVE  (\A k \in Checks : ~Inspect(j, s, k)) /\ (\A t \in Sources : ~Rollback(j, s, t))
    BY <1>3 DEF Inspect, Rollback, Plan
  <2>6. ~RotateCreate(j) /\ ~RotateRetire(j) /\ ~Abandon(j)
    BY <1>3 DEF RotateCreate, RotateRetire, Abandon
  <2> QED BY <2>2, <2>3, <2>4, <2>5, <2>6 DEF Handle
<1>6. /\ job[j].op # "idle" /\ SrcAlone(job[j]) /\ SrcPlanned(job[j])
  BY <1>5 DEF Commit, Clone, SrcCalm, SrcJobs
<1>7. CASE Commit(j)
  <2>1. /\ job[j].op \notin SrcBack
        /\ \A q \in Sources : source'[q] = IF job[j].plan[q] = "KEEP" THEN source[q] ELSE job[j].plan[q]
    BY <1>7 DEF Commit, Applied, TypeOK, SrcBack
  <2>2. job[j].plan[a] \in {"KEEP", "DISABLED"} BY <1>1, <1>2, <1>6, <2>1 DEF SrcAlone
  <2> QED BY <1>1, <1>2, <2>1, <2>2
<1>8. ASSUME NEW s \in Sources, Clone(j, s) PROVE FALSE
  <2>1. /\ job[j].op = "clone/rotate" /\ source[s] = "NONE"
        /\ source' = [Applied(source, job[j].plan) EXCEPT ![s] = "DRAFT"]
    BY <1>2, <1>8 DEF Clone, Fresh, Applied, TypeOK
  <2>2. source'[a] = source[a]
    BY <1>1, <1>6, <2>1 DEF Applied, TypeOK, SrcPlanned, SrcForth
  <2> QED BY <1>1, <1>2, <2>2
<1> QED BY <1>5, <1>7, <1>8

LEMMA SrcMoves == [MCNext]_allVars => [Next]_vars
<1> SUFFICES ASSUME MCNext PROVE [Next]_vars BY DEF allVars, vars
<1>1. CASE focus = "sources" BY <1>1 DEF MCNext
<1>2. CASE focus # "sources" BY <1>2 DEF MCNext, Keep
<1> QED BY <1>1, <1>2

----------------------------------------------------------------------------
(* Source bindings.  The releases in store are numbered without a gap, so  *)
(* an insert that its unique key lets through takes the next number, and   *)
(* no two jobs ever hold the same release; the index on the active release *)
(* does the rest.                                                          *)

(* What a job relies on, by where it is.                                   *)
BndHolds(x) ==
  /\ x.at = "insert" => x.v >= 1 /\ \A w \in Bindings!Versions : w < x.v => bStatus[w] # "NONE"
  /\ x.at \in {"approve", "find", "activate"} =>
       /\ x.v \in Bindings!Versions /\ bScope[x.v] = x.code
       /\ bStatus[x.v] = IF x.at = "approve" THEN "DRAFT" ELSE "APPROVED"
       /\ x.at # "approve" => x.v \in bApproved
  /\ x.at = "activate" /\ x.active # 0 => bStatus[x.active] \in {"ACTIVE", "SUPERSEDED"}

BndRows ==
  \E n \in 0 .. MaxBindings : \A v \in Bindings!Versions : bStatus[v] # "NONE" <=> v <= n

BndJobs ==
  /\ \A j \in Requests : BndHolds(bJob[j])
  /\ \A j, k \in Requests :
       /\ bJob[j].at \in {"approve", "find", "activate"}
       /\ bJob[k].at \in {"approve", "find", "activate"}
       /\ bJob[j].v = bJob[k].v
       => j = k

BndCalm ==
  bCalm =>
    /\ \A j, k \in Requests : bJob[j].at # "idle" /\ bJob[k].at # "idle" => j = k
    /\ bLast # Bindings!None =>
         /\ \A j \in Requests : bJob[j].at = "idle"
         /\ \E v \in Bindings!Active : bScope[v] = bLast

BndInv ==
  Bindings!TypeOK /\ BndRows /\ Bindings!ActiveIsApproved /\ BndJobs /\ BndCalm

BndRecord ==
  [at : {"idle", "look", "count", "insert", "approve", "find", "activate"},
   code : Codes \cup {Bindings!None}, v : 0 .. MaxBindings + 1, active : 0 .. MaxBindings]

LEMMA BndIdle ==
  Bindings!Idle \in BndRecord /\ Bindings!Idle.at = "idle" /\ BndHolds(Bindings!Idle)
BY PlatformAssumption DEF Bindings!Idle, BndRecord, BndHolds

(* The largest of a set of numbers of which one is known to be it.         *)
LEMMA BndMax ==
  ASSUME NEW S \in SUBSET Nat, NEW m \in S, \A x \in S : x <= m
  PROVE  Bindings!Max(S) = m
<1>1. m \in S /\ \A y \in S : m >= y OBVIOUS
<1>2. \A x \in S : (\A y \in S : x >= y) => x = m OBVIOUS
<1> QED BY <1>1, <1>2 DEF Bindings!Max

LEMMA BndInit == Bindings!Init => BndInv
<1> SUFFICES ASSUME Bindings!Init PROVE BndInv OBVIOUS
<1>1. Bindings!TypeOK BY BndIdle DEF Bindings!Init, Bindings!TypeOK, BndRecord
<1>2. BndRows
  <2>1. 0 \in 0 .. MaxBindings /\ \A v \in Bindings!Versions : ~(v <= 0)
    BY PlatformAssumption DEF Bindings!Versions
  <2> QED BY <2>1 DEF Bindings!Init, BndRows
<1>3. Bindings!ActiveIsApproved BY DEF Bindings!Init, Bindings!ActiveIsApproved, Bindings!Active
<1>4. BndJobs BY BndIdle DEF Bindings!Init, BndJobs
<1>5. BndCalm BY BndIdle DEF Bindings!Init, BndCalm
<1> QED BY <1>1, <1>2, <1>3, <1>4, <1>5 DEF BndInv

(* A job that moves on without writing a row.                              *)
LEMMA BndJob ==
  ASSUME BndInv, NEW j \in Requests, NEW x \in BndRecord, bJob' = [bJob EXCEPT ![j] = x],
         UNCHANGED <<bStatus, bScope, bApproved>>, BndHolds(x),
         x.at \in {"approve", "find", "activate"} =>
           bJob[j].at \in {"approve", "find", "activate"} /\ x.v = bJob[j].v,
         bLast' \in Codes \cup {Bindings!None}, bCalm' \in BOOLEAN, BndCalm'
  PROVE  BndInv'
<1> USE DEF BndInv
<1>1. \A k \in Requests : bJob'[k] = IF k = j THEN x ELSE bJob[k] BY DEF Bindings!TypeOK
<1>2. Bindings!TypeOK' BY DEF Bindings!TypeOK, BndRecord
<1>3. BndRows' BY DEF BndRows
<1>4. Bindings!ActiveIsApproved' BY DEF Bindings!ActiveIsApproved, Bindings!Active
<1>5. BndJobs' BY <1>1 DEF BndJobs, BndHolds
<1> QED BY <1>2, <1>3, <1>4, <1>5

LEMMA BndBegin ==
  ASSUME BndInv, NEW j \in Requests, NEW code \in Codes, NEW step \in {"look", "count"},
         Bindings!Begin(j, code, step)
  PROVE  BndInv'
<1> DEFINE x == [Bindings!Idle EXCEPT !.at = step, !.code = code]
<1>1. /\ bJob' = [bJob EXCEPT ![j] = x] /\ bLast' = Bindings!None
      /\ bCalm' = (bCalm /\ \A k \in Requests : bJob[k].at = "idle")
      /\ UNCHANGED <<bStatus, bScope, bApproved>>
  BY DEF Bindings!Begin
<1>2. x \in BndRecord /\ x.at = step BY BndIdle DEF BndRecord
<1> HIDE DEF x
<1>3. BndHolds(x) BY <1>2 DEF BndHolds
<1>4. \A k \in Requests : k # j => bJob'[k] = bJob[k] BY <1>1 DEF BndInv, Bindings!TypeOK
<1>5. BndCalm' BY <1>1, <1>4 DEF BndCalm
<1>6. bCalm' \in BOOLEAN BY <1>1 DEF BndInv, Bindings!TypeOK
<1> QED BY <1>1, <1>2, <1>3, <1>5, <1>6, BndJob

(* A job that returns: what it returned for is bound.                      *)
LEMMA BndReturned ==
  ASSUME BndInv, NEW j \in Requests, bJob[j].at # "idle",
         bJob' = [bJob EXCEPT ![j] = Bindings!Idle], UNCHANGED bCalm,
         bLast' = bLast \/ \E v \in Bindings!Active' : bScope'[v] = bLast'
  PROVE  BndCalm'
<1>1. \A k \in Requests : bJob'[k] = IF k = j THEN Bindings!Idle ELSE bJob[k]
  BY DEF BndInv, Bindings!TypeOK
<1>2. ASSUME bCalm PROVE \A k \in Requests : bJob'[k].at = "idle"
  BY <1>1, <1>2, BndIdle DEF BndInv, BndCalm
<1>3. bCalm => bLast = Bindings!None BY DEF BndInv, BndCalm
<1> QED BY <1>2, <1>3 DEF BndCalm

LEMMA BndStands ==
  ASSUME BndInv, NEW j \in Requests, Bindings!Stands(j) \/ Bindings!Stop(j)
  PROVE  BndInv'
<1>1. /\ bJob[j].at # "idle" /\ bJob' = [bJob EXCEPT ![j] = Bindings!Idle]
      /\ UNCHANGED <<bStatus, bScope, bApproved, bCalm>>
      /\ \/ bLast' = bLast
         \/ bLast' = bJob[j].code /\ \E v \in Bindings!Active : bScope[v] = bJob[j].code
  <2>1. CASE Bindings!Stands(j) BY <2>1 DEF Bindings!Stands, Bindings!Return
  <2>2. CASE Bindings!Stop(j) BY <2>2 DEF Bindings!Stop
  <2> QED BY <2>1, <2>2
<1>2. bJob[j].code \in Codes \cup {Bindings!None} /\ bLast \in Codes \cup {Bindings!None} /\ bCalm \in BOOLEAN
  BY DEF BndInv, Bindings!TypeOK
<1>3. bLast' = bLast \/ \E v \in Bindings!Active' : bScope'[v] = bLast'
  BY <1>1 DEF Bindings!Active
<1>4. BndCalm' BY <1>1, <1>3, BndReturned
<1> QED BY <1>1, <1>2, <1>4, BndIdle, BndJob

(* A job that goes on leaves the outcome of the last one alone.            *)
LEMMA BndGoes ==
  ASSUME BndInv, NEW j \in Requests, bJob[j].at # "idle", NEW x \in BndRecord,
         bJob' = [bJob EXCEPT ![j] = x], UNCHANGED <<bLast, bCalm>>
  PROVE  BndCalm'
<1>1. \A k \in Requests : k # j => bJob'[k] = bJob[k] BY DEF BndInv, Bindings!TypeOK
<1>2. bCalm => bLast = Bindings!None BY DEF BndInv, BndCalm
<1> QED BY <1>1, <1>2 DEF BndInv, BndCalm

LEMMA BndReads ==
  ASSUME BndInv, NEW j \in Requests,
         Bindings!Differs(j) \/ Bindings!Count(j) \/ Bindings!FindActive(j)
  PROVE  BndInv'
<1> USE DEF BndInv
<1>1. /\ bJob[j] \in BndRecord /\ BndHolds(bJob[j])
      /\ bLast \in Codes \cup {Bindings!None} /\ bCalm \in BOOLEAN
  BY DEF Bindings!TypeOK, BndRecord, BndJobs
<1>2. CASE Bindings!Differs(j)
  <2> DEFINE x == [bJob[j] EXCEPT !.at = "count"]
  <2>1. /\ bJob[j].at = "look" /\ bJob' = [bJob EXCEPT ![j] = x]
        /\ UNCHANGED <<bStatus, bScope, bApproved, bLast, bCalm>>
    BY <1>2 DEF Bindings!Differs, Bindings!TypeOK
  <2>2. x \in BndRecord /\ x.at = "count" BY <1>1 DEF BndRecord
  <2> HIDE DEF x
  <2>3. BndHolds(x) BY <2>2 DEF BndHolds
  <2>4. BndCalm' BY <2>1, <2>2, BndGoes
  <2> QED BY <1>1, <2>1, <2>2, <2>3, <2>4, BndJob
<1>3. CASE Bindings!Count(j)
  <2> DEFINE m == Bindings!Max({0} \cup {v \in Bindings!Versions : bStatus[v] # "NONE"})
             x == [bJob[j] EXCEPT !.at = "insert", !.v = 1 + m]
  <2>1. /\ bJob[j].at = "count" /\ bJob' = [bJob EXCEPT ![j] = x]
        /\ UNCHANGED <<bStatus, bScope, bApproved, bLast, bCalm>>
    BY <1>3 DEF Bindings!Count, Bindings!TypeOK
  <2>2. PICK n \in 0 .. MaxBindings : \A v \in Bindings!Versions : bStatus[v] # "NONE" <=> v <= n
    BY DEF BndRows
  <2>3. m = n
    <3> DEFINE S == {0} \cup {v \in Bindings!Versions : bStatus[v] # "NONE"}
    <3>1. S \in SUBSET Nat /\ n \in S /\ \A w \in S : w <= n
      BY <2>2, PlatformAssumption DEF Bindings!Versions
    <3> QED BY <3>1, BndMax
  <2> HIDE DEF m
  <2>4. 1 + m \in 0 .. MaxBindings + 1 /\ 1 + m >= 1 BY <2>3, PlatformAssumption
  <2>5. x \in BndRecord /\ x.at = "insert" /\ x.v = 1 + m BY <1>1, <2>4 DEF BndRecord
  <2> HIDE DEF x
  <2>6. \A w \in Bindings!Versions : w < 1 + m => bStatus[w] # "NONE"
    BY <2>2, <2>3, PlatformAssumption DEF Bindings!Versions
  <2>7. BndHolds(x) BY <2>4, <2>5, <2>6 DEF BndHolds
  <2>8. BndCalm' BY <2>1, <2>5, BndGoes
  <2> QED BY <1>1, <2>1, <2>5, <2>7, <2>8, BndJob
<1>4. CASE Bindings!FindActive(j)
  <2> DEFINE m == Bindings!Max({0} \cup Bindings!Active)
             x == [bJob[j] EXCEPT !.at = "activate", !.active = m]
  <2>1. /\ bJob[j].at = "find" /\ bJob' = [bJob EXCEPT ![j] = x]
        /\ UNCHANGED <<bStatus, bScope, bApproved, bLast, bCalm>>
    BY <1>4 DEF Bindings!FindActive, Bindings!TypeOK
  <2>2. m \in 0 .. MaxBindings /\ (m # 0 => bStatus[m] = "ACTIVE")
    <3>1. CASE Bindings!Active = {}
      <4>1. m = 0 BY <3>1, BndMax
      <4> QED BY <4>1, PlatformAssumption
    <3>2. ASSUME NEW a \in Bindings!Active PROVE m = a
      <4>1. Bindings!Active = {a} BY <3>2 DEF Bindings!ActiveIsApproved
      <4>2. a \in Nat /\ 0 <= a BY <3>2 DEF Bindings!Active, Bindings!Versions
      <4>3. {0} \cup Bindings!Active \in SUBSET Nat /\ a \in {0} \cup Bindings!Active
            /\ \A w \in {0} \cup Bindings!Active : w <= a
        BY <4>1, <4>2
      <4> QED BY <4>3, BndMax
    <3>3. \A a \in Bindings!Active : a \in 0 .. MaxBindings /\ bStatus[a] = "ACTIVE"
      BY PlatformAssumption DEF Bindings!Active, Bindings!Versions
    <3> QED BY <3>1, <3>2, <3>3
  <2> HIDE DEF m
  <2>3. x \in BndRecord /\ x.at = "activate" /\ x.v = bJob[j].v /\ x.code = bJob[j].code /\ x.active = m
    BY <1>1, <2>2 DEF BndRecord
  <2> HIDE DEF x
  <2>4. BndHolds(x) BY <1>1, <2>1, <2>2, <2>3 DEF BndHolds
  <2>5. BndCalm' BY <2>1, <2>3, BndGoes
  <2> QED BY <1>1, <2>1, <2>3, <2>4, <2>5, BndJob
<1> QED BY <1>2, <1>3, <1>4

LEMMA BndInsert ==
  ASSUME BndInv, NEW j \in Requests, Bindings!Insert(j)
  PROVE  BndInv'
<1> USE DEF BndInv
<1> DEFINE v == bJob[j].v  x == [bJob[j] EXCEPT !.at = "approve"]
<1>1. /\ bJob[j].at = "insert" /\ v \in Bindings!Versions /\ bStatus[v] = "NONE"
      /\ bStatus' = [bStatus EXCEPT ![v] = "DRAFT"] /\ bScope' = [bScope EXCEPT ![v] = bJob[j].code]
      /\ bJob' = [bJob EXCEPT ![j] = x] /\ UNCHANGED <<bApproved, bLast, bCalm>>
  BY DEF Bindings!Insert, Bindings!TypeOK
<1>2. bJob[j] \in BndRecord /\ BndHolds(bJob[j]) BY DEF Bindings!TypeOK, BndRecord, BndJobs
<1>3. x \in BndRecord /\ x.at = "approve" /\ x.v = v /\ x.code = bJob[j].code BY <1>2 DEF BndRecord
<1> HIDE DEF x
<1>4. /\ \A k \in Requests : bJob'[k] = IF k = j THEN x ELSE bJob[k]
      /\ \A w \in Bindings!Versions : bStatus'[w] = IF w = v THEN "DRAFT" ELSE bStatus[w]
      /\ \A w \in Bindings!Versions : bScope'[w] = IF w = v THEN bJob[j].code ELSE bScope[w]
  BY <1>1 DEF Bindings!TypeOK
<1>5. Bindings!TypeOK'
  <2>1. /\ bStatus' \in [Bindings!Versions -> {"NONE", "DRAFT", "APPROVED", "ACTIVE", "SUPERSEDED"}]
        /\ bScope' \in [Bindings!Versions -> Codes \cup {Bindings!None}]
    BY <1>1, <1>2 DEF Bindings!TypeOK, BndRecord
  <2>2. bJob' \in [Requests -> BndRecord] BY <1>1, <1>3 DEF Bindings!TypeOK, BndRecord
  <2> QED BY <1>1, <2>1, <2>2 DEF Bindings!TypeOK, BndRecord
<1>6. BndRows'
  <2>1. PICK n \in 0 .. MaxBindings : \A w \in Bindings!Versions : bStatus[w] # "NONE" <=> w <= n
    BY DEF BndRows
  <2>2. \A w \in Bindings!Versions : w < v => w <= n BY <1>1, <1>2, <2>1 DEF BndHolds
  <2>3. v \in 0 .. MaxBindings /\ \A w \in Bindings!Versions : w <= v <=> w <= n \/ w = v
    BY <1>1, <2>1, <2>2, PlatformAssumption DEF Bindings!Versions
  <2> QED BY <1>4, <2>1, <2>3 DEF BndRows
<1>7. Bindings!ActiveIsApproved' BY <1>1, <1>4 DEF Bindings!ActiveIsApproved, Bindings!Active
<1>8. BndJobs'
  <2>1. ASSUME NEW k \in Requests, k # j PROVE BndHolds(bJob[k])' /\ bJob'[k] = bJob[k]
    <3>1. BndHolds(bJob[k]) /\ bJob'[k] = bJob[k] /\ bJob[k] \in BndRecord
      BY <1>4, <2>1 DEF BndJobs, Bindings!TypeOK, BndRecord
    <3>2. bJob[k].active # 0 => bJob[k].active \in Bindings!Versions
      BY <3>1, PlatformAssumption DEF BndRecord, Bindings!Versions
    <3> QED BY <1>1, <1>4, <3>1, <3>2 DEF BndHolds
  <2>2. BndHolds(bJob[j])' BY <1>1, <1>3, <1>4 DEF BndHolds
  <2>3. \A k \in Requests : bJob[k].at \in {"approve", "find", "activate"} => bJob[k].v # v
    BY <1>1 DEF BndJobs, BndHolds
  <2> QED BY <1>3, <1>4, <2>1, <2>2, <2>3 DEF BndJobs
<1>9. BndCalm' BY <1>1, <1>3, BndGoes
<1> QED BY <1>5, <1>6, <1>7, <1>8, <1>9

LEMMA BndApprove ==
  ASSUME BndInv, NEW j \in Requests, Bindings!Approve(j)
  PROVE  BndInv'
<1> USE DEF BndInv
<1> DEFINE v == bJob[j].v  x == [bJob[j] EXCEPT !.at = "find"]
<1>1. /\ bJob[j].at = "approve" /\ bStatus' = [bStatus EXCEPT ![v] = "APPROVED"]
      /\ bApproved' = bApproved \cup {v}
      /\ bJob' = [bJob EXCEPT ![j] = x] /\ UNCHANGED <<bScope, bLast, bCalm>>
  BY DEF Bindings!Approve, Bindings!TypeOK
<1>2. /\ bJob[j] \in BndRecord /\ v \in Bindings!Versions /\ bStatus[v] = "DRAFT"
      /\ bScope[v] = bJob[j].code
  BY <1>1 DEF Bindings!TypeOK, BndRecord, BndJobs, BndHolds
<1>3. x \in BndRecord /\ x.at = "find" /\ x.v = v /\ x.code = bJob[j].code BY <1>2 DEF BndRecord
<1> HIDE DEF x
<1>4. /\ \A k \in Requests : bJob'[k] = IF k = j THEN x ELSE bJob[k]
      /\ \A w \in Bindings!Versions : bStatus'[w] = IF w = v THEN "APPROVED" ELSE bStatus[w]
  BY <1>1 DEF Bindings!TypeOK
<1>5. Bindings!TypeOK'
  <2>1. /\ bStatus' \in [Bindings!Versions -> {"NONE", "DRAFT", "APPROVED", "ACTIVE", "SUPERSEDED"}]
    BY <1>1, <1>2 DEF Bindings!TypeOK
  <2>2. bJob' \in [Requests -> BndRecord] BY <1>1, <1>3 DEF Bindings!TypeOK, BndRecord
  <2> QED BY <1>1, <1>2, <2>1, <2>2 DEF Bindings!TypeOK, BndRecord
<1>6. BndRows' BY <1>2, <1>4 DEF BndRows
<1>7. Bindings!ActiveIsApproved' BY <1>1, <1>4 DEF Bindings!ActiveIsApproved, Bindings!Active
<1>8. BndJobs'
  <2>1. ASSUME NEW k \in Requests, k # j PROVE BndHolds(bJob[k])' /\ bJob'[k] = bJob[k]
    <3>1. BndHolds(bJob[k]) /\ bJob'[k] = bJob[k] /\ bJob[k] \in BndRecord
      BY <1>4, <2>1 DEF BndJobs, Bindings!TypeOK, BndRecord
    <3>2. bJob[k].active # 0 => bJob[k].active \in Bindings!Versions
      BY <3>1, PlatformAssumption DEF BndRecord, Bindings!Versions
    <3>3. bJob[k].at \in {"approve", "find", "activate"} => bJob[k].v # v BY <1>1, <2>1 DEF BndJobs
    <3> QED BY <1>1, <1>2, <1>4, <3>1, <3>2, <3>3 DEF BndHolds
  <2>2. BndHolds(bJob[j])' BY <1>1, <1>2, <1>3, <1>4 DEF BndHolds
  <2> QED BY <1>1, <1>3, <1>4, <2>1, <2>2 DEF BndJobs
<1>9. BndCalm' BY <1>1, <1>3, BndGoes
<1> QED BY <1>5, <1>6, <1>7, <1>8, <1>9

LEMMA BndActivate ==
  ASSUME BndInv, NEW j \in Requests, Bindings!Activate(j)
  PROVE  BndInv' /\ Bindings!Active' # {}
<1> USE DEF BndInv
<1> DEFINE v == bJob[j].v  a == bJob[j].active
<1>1. /\ bJob[j].at = "activate" /\ Bindings!Active \subseteq {a}
      /\ bStatus' = [w \in Bindings!Versions |-> IF w = v THEN "ACTIVE"
                                                 ELSE IF w = a THEN "SUPERSEDED" ELSE bStatus[w]]
      /\ bJob' = [bJob EXCEPT ![j] = Bindings!Idle] /\ bLast' = bJob[j].code
      /\ UNCHANGED <<bScope, bApproved, bCalm>>
  BY DEF Bindings!Activate, Bindings!Return
<1>2. /\ bJob[j] \in BndRecord /\ v \in Bindings!Versions /\ bStatus[v] = "APPROVED"
      /\ bScope[v] = bJob[j].code /\ v \in bApproved
      /\ a # 0 => bStatus[a] \in {"ACTIVE", "SUPERSEDED"}
  BY <1>1 DEF Bindings!TypeOK, BndRecord, BndJobs, BndHolds
<1>3. a # 0 => a \in Bindings!Versions
  BY <1>2, PlatformAssumption DEF BndRecord, Bindings!Versions
<1>4. 0 \notin Bindings!Versions BY DEF Bindings!Versions
<1>5. \A k \in Requests : bJob'[k] = IF k = j THEN Bindings!Idle ELSE bJob[k]
  BY <1>1 DEF Bindings!TypeOK
<1>6. Bindings!TypeOK'
  <2>1. /\ bStatus' \in [Bindings!Versions -> {"NONE", "DRAFT", "APPROVED", "ACTIVE", "SUPERSEDED"}]
    BY <1>1 DEF Bindings!TypeOK
  <2>2. bJob' \in [Requests -> BndRecord] BY <1>1, BndIdle DEF Bindings!TypeOK, BndRecord
  <2> QED BY <1>1, <1>2, <2>1, <2>2 DEF Bindings!TypeOK, BndRecord
<1>7. BndRows'
  <2>1. \A w \in Bindings!Versions : bStatus'[w] # "NONE" <=> bStatus[w] # "NONE"
    BY <1>1, <1>2, <1>4
  <2> QED BY <2>1 DEF BndRows
<1>8. \A w \in Bindings!Versions : bStatus'[w] = "ACTIVE" => w = v
  BY <1>1 DEF Bindings!Active
<1>9. Bindings!ActiveIsApproved'
  <2>1. \A w \in Bindings!Versions : bStatus'[w] \in {"ACTIVE", "SUPERSEDED"} => w \in bApproved'
    BY <1>1, <1>2, <1>3, <1>4 DEF Bindings!ActiveIsApproved
  <2> QED BY <1>8, <2>1 DEF Bindings!ActiveIsApproved, Bindings!Active
<1>10. BndJobs'
  <2>1. ASSUME NEW k \in Requests, k # j PROVE BndHolds(bJob[k])' /\ bJob'[k] = bJob[k]
    <3>1. BndHolds(bJob[k]) /\ bJob'[k] = bJob[k] /\ bJob[k] \in BndRecord
      BY <1>5, <2>1 DEF BndJobs, Bindings!TypeOK, BndRecord
    <3>2. bJob[k].active # 0 => bJob[k].active \in Bindings!Versions
      BY <3>1, PlatformAssumption DEF BndRecord, Bindings!Versions
    <3>3. bJob[k].at \in {"approve", "find", "activate"} => bJob[k].v # v BY <1>1, <2>1 DEF BndJobs
    <3>4. \A w \in Bindings!Versions :
            /\ bStatus[w] # "NONE" => bStatus'[w] # "NONE"
            /\ bStatus[w] \in {"ACTIVE", "SUPERSEDED"} => bStatus'[w] \in {"ACTIVE", "SUPERSEDED"}
            /\ bStatus[w] \in {"DRAFT", "APPROVED"} /\ w # v => bStatus'[w] = bStatus[w]
      BY <1>1, <1>2, <1>4
    <3> QED BY <1>1, <3>1, <3>2, <3>3, <3>4 DEF BndHolds
  <2>2. BndHolds(bJob[j])' BY <1>5, BndIdle DEF BndHolds
  <2> QED BY <1>5, <2>1, <2>2, BndIdle DEF BndJobs
<1>11. v \in Bindings!Active' /\ bScope'[v] = bLast' BY <1>1, <1>2 DEF Bindings!Active
<1>12. BndCalm' BY <1>1, <1>11, BndReturned
<1> QED BY <1>6, <1>7, <1>9, <1>10, <1>11, <1>12

LEMMA BndStep == BndInv /\ [Bindings!Next]_(Bindings!vars) => BndInv'
<1> SUFFICES ASSUME BndInv, [Bindings!Next]_(Bindings!vars) PROVE BndInv' OBVIOUS
<1>1. CASE UNCHANGED Bindings!vars
  BY <1>1 DEF BndInv, Bindings!vars, Bindings!TypeOK, BndRows, Bindings!ActiveIsApproved, BndJobs,
     BndHolds, BndCalm, Bindings!Active
<1>2. ASSUME NEW j \in Requests, NEW code \in Codes,
             \/ Bindings!Install(j, code)
             \/ \E target \in Bindings!Versions : Bindings!Rollback(j, code, target)
      PROVE  BndInv'
  BY <1>2, BndBegin DEF Bindings!Install, Bindings!Rollback
<1> QED BY <1>1, <1>2, BndStands, BndReads, BndInsert, BndApprove, BndActivate DEF Bindings!Next

LEMMA BndSafe == BndInv => Bindings!BindingsSafe
BY DEF BndInv, BndCalm, Bindings!BindingsSafe, Bindings!ReturnedIsBound

LEMMA BndStays ==
  ASSUME BndInv, Bindings!Next, Bindings!Active # {}
  PROVE  Bindings!Active' # {}
<1> USE DEF BndInv
<1>1. PICK a \in Bindings!Versions : bStatus[a] = "ACTIVE" BY DEF Bindings!Active
<1>2. PICK j \in Requests :
        \/ UNCHANGED bStatus \/ Bindings!Insert(j) \/ Bindings!Approve(j) \/ Bindings!Activate(j)
  BY DEF Bindings!Next, Bindings!Install, Bindings!Rollback, Bindings!Begin, Bindings!Stands,
     Bindings!Differs, Bindings!Count, Bindings!FindActive, Bindings!Stop
<1>3. CASE UNCHANGED bStatus BY <1>1, <1>3 DEF Bindings!Active
<1>4. CASE Bindings!Insert(j)
  BY <1>1, <1>4 DEF Bindings!Insert, Bindings!Active, Bindings!TypeOK
<1>5. CASE Bindings!Approve(j)
  <2>1. bStatus[bJob[j].v] = "DRAFT" BY <1>5 DEF Bindings!Approve, BndJobs, BndHolds
  <2> QED BY <1>1, <1>5, <2>1 DEF Bindings!Approve, Bindings!Active, Bindings!TypeOK
<1> QED BY <1>2, <1>3, <1>4, <1>5, BndActivate

LEMMA BndMoves == [MCNext]_allVars => [Bindings!Next]_(Bindings!vars)
<1> SUFFICES ASSUME MCNext PROVE [Bindings!Next]_(Bindings!vars)
  BY DEF allVars, BindingsVars, Bindings!vars
<1>1. CASE focus = "bindings" BY <1>1 DEF MCNext
<1>2. CASE focus # "bindings" BY <1>2 DEF MCNext, Keep, BindingsVars, Bindings!vars
<1> QED BY <1>1, <1>2
----------------------------------------------------------------------------
(* The provisioning of sources.  A run that has the script for itself      *)
(* finds the sources that runs before it have left in the order of their   *)
(* names, and whatever was reported it reported itself or was reported for *)
(* a release no later than its own.                                        *)

PrvName(s) == Provision!DATASOURCES[s]
PrvRow == [name : {PrvName(1), PrvName(2)}, host : Provision!Releases,
           tables : Provision!Releases \cup {Provision!NoTables}]
PrvAdd == [by : Requests, name : {PrvName(1), PrvName(2)}, of : Provision!Releases]
PrvRecord ==
  [at : {"idle", "login", "rotate", "contract", "list", "add", "created",
         "update", "choose", "verify"},
   spec : 1 .. 2, of : Provision!Releases, id : 0 .. MaxSources]

PrvRuns ==
  \A r \in Requests :
    /\ vRun[r].of <= vRelease
    /\ vRun[r].at \in {"update", "choose", "verify"} => vRun[r].id \in DOMAIN vSource

PrvPassed == \A p \in vPassed : p[1] \in DOMAIN vSource /\ p[2] <= vRelease

(* What the only run of the script relies on.                              *)
PrvAlone(r) ==
  LET x == vRun[r] IN
  /\ \A p \in vPassed : p[2] <= x.of
  /\ x.spec = 2 => Len(vSource) >= 1
  /\ x.at = "add" => Len(vSource) = x.spec - 1
  /\ x.at # "created" => vAdds = {}
  /\ x.at = "created" => \A a \in vAdds : a = [by |-> r, name |-> PrvName(x.spec), of |-> x.of]

PrvCalm ==
  vCalm =>
    /\ \A i \in DOMAIN vSource : i <= 2 /\ vSource[i].name = PrvName(i)
    /\ \A q, r \in Requests : vRun[q].at # "idle" /\ vRun[r].at # "idle" => q = r
    /\ \A r \in Requests : vRun[r].at # "idle" => PrvAlone(r)
    /\ \A a \in vAdds : Len(vSource) < 2 /\ a.name = PrvName(Len(vSource) + 1)
    /\ \A a, b \in vAdds : a = b

PrvReported ==
  vCalm => \A p \in vPassed :
    p[2] = vRelease => vSource[p[1]].host = vRelease /\ vSource[p[1]].tables = vRelease

PrvInv ==
  /\ Provision!TypeOK /\ vSource \in Seq(PrvRow)
  /\ PrvRuns /\ PrvPassed /\ PrvCalm /\ PrvReported

LEMMA PrvNames == PrvName(1) # PrvName(2) /\ \A s \in 1 .. 2 : PrvName(s) \in {PrvName(1), PrvName(2)}
BY DEF PrvName, Provision!DATASOURCES

LEMMA PrvTypes ==
  ASSUME PrvInv
  PROVE  /\ vRun \in [Requests -> PrvRecord] /\ vAdds \subseteq PrvAdd
         /\ vRelease \in 0 .. MaxDeployments /\ vCalm \in BOOLEAN
         /\ Len(vSource) \in 0 .. MaxSources /\ DOMAIN vSource = 1 .. Len(vSource)
         /\ vPassed \subseteq (1 .. MaxSources) \X (0 .. MaxDeployments)
<1>1. vSource \in Seq(PrvRow) BY DEF PrvInv
<1>2. Len(vSource) \in Nat /\ DOMAIN vSource = 1 .. Len(vSource) BY <1>1
<1> QED BY <1>2, SourcesAssumption DEF PrvInv, Provision!TypeOK, PrvRecord, PrvAdd, PrvName, Provision!Releases

LEMMA PrvIdle == Provision!Idle \in PrvRecord /\ Provision!Idle.at = "idle" /\ Provision!Idle.of = 0
BY PlatformAssumption, SourcesAssumption DEF Provision!Idle, PrvRecord, Provision!Releases

LEMMA PrvInit == Provision!Init => PrvInv
<1> SUFFICES ASSUME Provision!Init PROVE PrvInv OBVIOUS
<1>1. Provision!TypeOK
  BY PrvIdle, PlatformAssumption, SourcesAssumption
  DEF Provision!Init, Provision!TypeOK, PrvRecord, Provision!Releases
<1>2. vSource \in Seq(PrvRow) /\ DOMAIN vSource = {} BY DEF Provision!Init
<1>3. PrvRuns BY PrvIdle DEF Provision!Init, PrvRuns
<1>4. PrvPassed /\ PrvReported BY DEF Provision!Init, PrvPassed, PrvReported
<1>5. PrvCalm BY <1>2, PrvIdle DEF Provision!Init, PrvCalm
<1> QED BY <1>1, <1>2, <1>3, <1>4, <1>5 DEF PrvInv

(* A run that goes on and changes neither sources nor additions.           *)
LEMMA PrvGo ==
  ASSUME PrvInv, NEW r \in Requests, vRun[r].at # "idle", NEW x \in PrvRecord,
         vRun' = [vRun EXCEPT ![r] = x],
         UNCHANGED <<vRelease, vSource, vAdds, vPassed, vCalm, vStarts>>,
         vPassword' \in {"image", "runtime"}, x.at # "created", x.at # "idle" => vRun[r].at # "created",
         x.of = vRun[r].of \/ x = Provision!Idle,
         x.at \in {"update", "choose", "verify"} => x.id \in DOMAIN vSource,
         x.spec = vRun[r].spec \/ x = Provision!Idle,
         vCalm /\ x.at = "add" => Len(vSource) = x.spec - 1
  PROVE  PrvInv'
<1> USE DEF PrvInv
<1>1. \A q \in Requests : vRun'[q] = IF q = r THEN x ELSE vRun[q] BY PrvTypes
<1>2. Provision!TypeOK' BY DEF Provision!TypeOK, PrvRecord
<1>3. PrvRuns'
  <2>1. x.of <= vRelease BY PrvTypes, PrvIdle DEF PrvRuns
  <2> QED BY <1>1, <2>1 DEF PrvRuns
<1>4. PrvPassed' /\ PrvReported' BY DEF PrvPassed, PrvReported
<1>5. PrvCalm'
  <2> SUFFICES ASSUME vCalm PROVE PrvCalm' BY DEF PrvCalm
  <2>1. \A q \in Requests : q # r => vRun'[q].at = "idle" BY <1>1 DEF PrvCalm
  <2>2. PrvAlone(r) BY DEF PrvCalm
  <2>3. x.at # "idle" => PrvAlone(r)'
    <3> SUFFICES ASSUME x.at # "idle" PROVE PrvAlone(r)' OBVIOUS
    <3>1. x.of = vRun[r].of /\ x.spec = vRun[r].spec /\ vRun'[r] = x BY <1>1, PrvIdle
    <3> QED BY <2>2, <3>1 DEF PrvAlone
  <2> QED BY <1>1, <2>1, <2>3 DEF PrvCalm
<1> QED BY <1>2, <1>3, <1>4, <1>5

LEMMA PrvSteps ==
  ASSUME PrvInv, NEW r \in Requests,
         \/ Provision!Login(r) \/ Provision!Rotate(r) \/ Provision!Contract(r)
  PROVE  PrvInv'
<1>1. PICK to \in {"rotate", "contract", "list"} :
        /\ vRun[r].at \in {"login", "rotate", "contract"} /\ vRun' = [vRun EXCEPT ![r].at = to]
        /\ UNCHANGED <<vRelease, vSource, vAdds, vPassed, vCalm, vStarts>>
        /\ vPassword' \in {"image", "runtime"}
  <2>1. vPassword \in {"image", "runtime"} BY DEF PrvInv, Provision!TypeOK
  <2>2. CASE Provision!Login(r) BY <2>1, <2>2 DEF Provision!Login, Provision!Go
  <2>3. CASE Provision!Rotate(r) BY <2>1, <2>3 DEF Provision!Rotate, Provision!Go
  <2>4. CASE Provision!Contract(r) BY <2>1, <2>4 DEF Provision!Contract, Provision!Go
  <2> QED BY <2>2, <2>3, <2>4
<1> DEFINE x == [vRun[r] EXCEPT !.at = to]
<1>2. vRun[r] \in PrvRecord /\ vRun' = [vRun EXCEPT ![r] = x] BY <1>1, PrvTypes
<1>3. x \in PrvRecord /\ x.at = to /\ x.of = vRun[r].of /\ x.spec = vRun[r].spec
  BY <1>2 DEF PrvRecord
<1> HIDE DEF x
<1> QED BY <1>1, <1>2, <1>3, PrvGo

LEMMA PrvList ==
  ASSUME PrvInv, NEW r \in Requests, Provision!List(r)
  PROVE  PrvInv'
<1> DEFINE own == {i \in DOMAIN vSource : vSource[i].name = PrvName(vRun[r].spec)}
           first == CHOOSE i \in own : \A k \in own : i <= k
           x == [vRun[r] EXCEPT !.at = IF own = {} THEN "add" ELSE "update",
                                !.id = IF own = {} THEN 0 ELSE first]
<1>1. /\ vRun[r].at = "list" /\ vRun[r] \in PrvRecord /\ vRun' = [vRun EXCEPT ![r] = x]
      /\ UNCHANGED <<vRelease, vPassword, vSource, vAdds, vStarts, vPassed, vCalm>>
  <2>1. /\ vRun[r].at = "list"
        /\ vRun' = [vRun EXCEPT ![r].at = IF own = {} THEN "add" ELSE "update",
                                ![r].id = IF own = {} THEN 0 ELSE first]
        /\ UNCHANGED <<vRelease, vPassword, vSource, vAdds, vStarts, vPassed, vCalm>>
    BY Zenon DEF Provision!List, Provision!Name, PrvName
  <2>2. vRun[r] \in PrvRecord BY PrvTypes
  <2> HIDE DEF own, first
  <2>3. vRun' = [vRun EXCEPT ![r] = x] BY <2>1, PrvTypes
  <2> QED BY <2>1, <2>2, <2>3
<1>2. own # {} => first \in DOMAIN vSource /\ first \in 0 .. MaxSources
  <2> SUFFICES ASSUME own # {} PROVE first \in DOMAIN vSource /\ first \in 0 .. MaxSources OBVIOUS
  <2>1. own \in SUBSET Nat BY PrvTypes
  <2>2. \E i \in own : \A k \in own : i <= k BY <2>1, Smallest
  <2>3. first \in own BY <2>2
  <2>4. first \in DOMAIN vSource BY <2>3
  <2> HIDE DEF first
  <2>5. first \in 1 .. Len(vSource) BY <2>4, PrvTypes
  <2>6. \A n \in 0 .. MaxSources : \A i \in 1 .. n : i \in 0 .. MaxSources BY SourcesAssumption
  <2>7. first \in 0 .. MaxSources BY <2>5, <2>6, PrvTypes
  <2> QED BY <2>4, <2>7
<1>3. 0 \in 0 .. MaxSources BY SourcesAssumption
<1>4. vCalm /\ own = {} => Len(vSource) = vRun[r].spec - 1
  <2> SUFFICES ASSUME vCalm, own = {} PROVE Len(vSource) = vRun[r].spec - 1 OBVIOUS
  <2>1. \A i \in DOMAIN vSource : i <= 2 /\ vSource[i].name = PrvName(i) BY DEF PrvInv, PrvCalm
  <2>2. vRun[r].spec \notin DOMAIN vSource BY <2>1
  <2>3. vRun[r].spec = 2 => Len(vSource) >= 1 BY <1>1 DEF PrvInv, PrvCalm, PrvAlone
  <2>4. vRun[r].spec \in 1 .. 2 BY <1>1 DEF PrvRecord
  <2> QED BY <2>1, <2>2, <2>3, <2>4, PrvTypes
<1> HIDE DEF own, first
<1>5. /\ x \in PrvRecord /\ x.at = IF own = {} THEN "add" ELSE "update"
      /\ x.of = vRun[r].of /\ x.spec = vRun[r].spec /\ (own # {} => x.id = first)
  BY <1>1, <1>2, <1>3 DEF PrvRecord
<1> HIDE DEF x
<1>6. vPassword' \in {"image", "runtime"} BY <1>1 DEF PrvInv, Provision!TypeOK
<1> QED BY <1>1, <1>2, <1>4, <1>5, <1>6, PrvGo

LEMMA PrvStop ==
  ASSUME PrvInv, NEW r \in Requests, Provision!Stop(r)
  PROVE  PrvInv'
<1>1. /\ vRun[r].at # "idle" /\ vRun' = [vRun EXCEPT ![r] = Provision!Idle]
      /\ UNCHANGED <<vRelease, vPassword, vSource, vAdds, vStarts, vPassed, vCalm>>
  BY DEF Provision!Stop
<1>2. vPassword' \in {"image", "runtime"} BY <1>1 DEF PrvInv, Provision!TypeOK
<1> QED BY <1>1, <1>2, PrvIdle, PrvGo

LEMMA PrvBegin ==
  ASSUME PrvInv, NEW r \in Requests, Provision!Begin(r)
  PROVE  PrvInv'
<1> USE DEF PrvInv
<1> DEFINE x == [Provision!Idle EXCEPT !.at = "login", !.of = vRelease]
<1>1. /\ vStarts < MaxStarts /\ vStarts' = vStarts + 1 /\ vRun' = [vRun EXCEPT ![r] = x]
      /\ vCalm' = (vCalm /\ vAdds = {} /\ \A q \in Requests : vRun[q].at = "idle")
      /\ UNCHANGED <<vRelease, vPassword, vSource, vAdds, vPassed>>
  BY DEF Provision!Begin
<1>2. x \in PrvRecord /\ x.at = "login" /\ x.of = vRelease /\ x.spec = 1
  BY PrvIdle, PrvTypes DEF PrvRecord, Provision!Releases, Provision!Idle
<1> HIDE DEF x
<1>3. \A q \in Requests : vRun'[q] = IF q = r THEN x ELSE vRun[q] BY <1>1, PrvTypes
<1>4. Provision!TypeOK'
  <2>1. vRun' \in [Requests -> PrvRecord] BY <1>1, <1>2, PrvTypes
  <2>2. vStarts' \in 0 .. MaxStarts /\ vCalm' \in BOOLEAN
    BY <1>1, PlatformAssumption DEF Provision!TypeOK
  <2> QED BY <1>1, <2>1, <2>2 DEF Provision!TypeOK, PrvRecord
<1>5. PrvRuns' BY <1>1, <1>2, <1>3, PrvTypes DEF PrvRuns
<1>6. PrvPassed' /\ PrvReported' BY <1>1 DEF PrvPassed, PrvReported
<1>7. PrvCalm'
  <2> SUFFICES ASSUME vCalm' PROVE PrvCalm' BY DEF PrvCalm
  <2>1. vCalm /\ vAdds = {} /\ \A q \in Requests : vRun[q].at = "idle" BY <1>1
  <2>2. \A q \in Requests : q # r => vRun'[q].at = "idle" BY <1>3, <2>1
  <2>3. PrvAlone(r)' BY <1>1, <1>2, <1>3, <2>1 DEF PrvAlone, PrvPassed
  <2> QED BY <1>1, <2>1, <2>2, <2>3 DEF PrvCalm
<1> QED BY <1>1, <1>4, <1>5, <1>6, <1>7

LEMMA PrvSendAdd ==
  ASSUME PrvInv, NEW r \in Requests, Provision!SendAdd(r)
  PROVE  PrvInv'
<1> USE DEF PrvInv
<1> DEFINE x == [vRun[r] EXCEPT !.at = "created"]
           a == [by |-> r, name |-> PrvName(vRun[r].spec), of |-> vRun[r].of]
<1>1. /\ vRun[r].at = "add" /\ vRun' = [vRun EXCEPT ![r] = x] /\ vAdds' = vAdds \cup {a}
      /\ UNCHANGED <<vRelease, vPassword, vSource, vStarts, vPassed, vCalm>>
  BY PrvTypes DEF Provision!SendAdd, Provision!Name, PrvName
<1>2. vRun[r] \in PrvRecord BY PrvTypes
<1>3. x \in PrvRecord /\ x.at = "created" /\ x.of = vRun[r].of /\ x.spec = vRun[r].spec
  BY <1>2 DEF PrvRecord
<1>4. a \in PrvAdd BY <1>2, PrvNames DEF PrvAdd, PrvRecord
<1> HIDE DEF x
<1>5. \A q \in Requests : vRun'[q] = IF q = r THEN x ELSE vRun[q] BY <1>1, PrvTypes
<1>6. Provision!TypeOK'
  <2>1. vRun' \in [Requests -> PrvRecord] BY <1>1, <1>3, PrvTypes
  <2>2. vAdds' \subseteq PrvAdd BY <1>1, <1>4, PrvTypes
  <2> QED BY <1>1, <2>1, <2>2 DEF Provision!TypeOK, PrvRecord, PrvAdd, PrvName
<1>7. PrvRuns' BY <1>1, <1>3, <1>5 DEF PrvRuns
<1>8. PrvPassed' /\ PrvReported' BY <1>1 DEF PrvPassed, PrvReported
<1>9. PrvCalm'
  <2> SUFFICES ASSUME vCalm PROVE PrvCalm' BY <1>1 DEF PrvCalm
  <2>1. \A q \in Requests : q # r => vRun'[q].at = "idle" BY <1>1, <1>5 DEF PrvCalm
  <2>2. PrvAlone(r) BY <1>1 DEF PrvCalm
  <2>3. vAdds = {} /\ vAdds' = {a} BY <1>1, <2>2 DEF PrvAlone
  <2>4. vRun[r].spec \in 1 .. 2 /\ Len(vSource) = vRun[r].spec - 1 BY <1>1, <1>2, <2>2 DEF PrvAlone, PrvRecord
  <2>5. PrvAlone(r)' BY <1>1, <1>3, <1>5, <2>2, <2>3 DEF PrvAlone
  <2>6. Len(vSource) < 2 /\ vRun[r].spec = Len(vSource) + 1 BY <2>4, PrvTypes
  <2>7. a.name = PrvName(Len(vSource) + 1) BY <2>6
  <2> QED BY <1>1, <2>1, <2>3, <2>5, <2>6, <2>7 DEF PrvCalm
<1> QED BY <1>1, <1>6, <1>7, <1>8, <1>9

(* The sources a creation leaves.                                          *)
LEMMA PrvExecuteAdd ==
  ASSUME PrvInv, NEW a \in vAdds, NEW whole \in BOOLEAN, Provision!ExecuteAdd(a, whole)
  PROVE  PrvInv'
<1> USE DEF PrvInv
<1> DEFINE row == [name |-> a.name, host |-> a.of,
                   tables |-> IF whole THEN a.of ELSE Provision!NoTables]
           n == Len(vSource)
           matched == vRun[a.by].at = "created" /\ PrvName(vRun[a.by].spec) = a.name /\ vRun[a.by].of = a.of
           x == IF whole THEN [vRun[a.by] EXCEPT !.at = "verify", !.id = n + 1] ELSE Provision!Idle
<1>1. /\ n < MaxSources /\ vSource' = Append(vSource, row) /\ vAdds' = vAdds \ {a}
      /\ vRun' = IF matched THEN [vRun EXCEPT ![a.by] = x] ELSE vRun
      /\ UNCHANGED <<vRelease, vPassword, vStarts, vPassed, vCalm>>
  BY DEF Provision!ExecuteAdd, Provision!Name, PrvName
<1>2. a \in PrvAdd /\ a.by \in Requests /\ vRun[a.by] \in PrvRecord BY PrvTypes DEF PrvAdd
<1>3. row \in PrvRow BY <1>2 DEF PrvAdd, PrvRow
<1> HIDE DEF row
<1>4. /\ vSource' \in Seq(PrvRow) /\ Len(vSource') = n + 1 /\ DOMAIN vSource' = 1 .. n + 1
      /\ \A i \in 1 .. n : vSource'[i] = vSource[i]
      /\ vSource'[n + 1] = row
  BY <1>1, <1>3
<1>5. n \in Nat /\ n + 1 \in 1 .. MaxSources /\ DOMAIN vSource = 1 .. n /\ n + 1 \in 0 .. MaxSources
  BY <1>1, PrvTypes, SourcesAssumption
<1>6. /\ x \in PrvRecord /\ x.at \in {"idle", "verify"}
      /\ x.at = "verify" => x.id = n + 1 /\ x.of = vRun[a.by].of /\ x.spec = vRun[a.by].spec
      /\ x.at = "idle" => x.of = 0
  <2>1. CASE whole BY <1>2, <1>5, <2>1 DEF PrvRecord
  <2>2. CASE ~whole BY <2>2, PrvIdle
  <2> QED BY <2>1, <2>2
<1> HIDE DEF x
<1>7. \A q \in Requests : vRun'[q] = IF matched /\ q = a.by THEN x ELSE vRun[q]
  BY <1>1, <1>2, PrvTypes
<1>8. Provision!TypeOK'
  <2>1. vRun' \in [Requests -> PrvRecord] BY <1>1, <1>2, <1>6, PrvTypes
  <2>2. Len(vSource') <= MaxSources BY <1>4, <1>5
  <2>3. \A i \in DOMAIN vSource' : vSource'[i] \in PrvRow BY <1>4
  <2> QED BY <1>1, <2>1, <2>2, <2>3 DEF Provision!TypeOK, PrvRecord, PrvRow, PrvName
<1>9. PrvRuns'
  <2>1. ASSUME NEW q \in Requests
        PROVE  /\ vRun'[q].of <= vRelease
               /\ vRun'[q].at \in {"update", "choose", "verify"} => vRun'[q].id \in 1 .. n + 1
    <3>1. CASE matched /\ q = a.by
      <4>1. vRun[q].of <= vRelease /\ 0 <= vRelease /\ vRun'[q] = x BY <1>7, <3>1, PrvTypes DEF PrvRuns
      <4> QED BY <1>5, <1>6, <3>1, <4>1
    <3>2. CASE ~(matched /\ q = a.by)
      BY <1>5, <1>7, <3>2 DEF PrvRuns
    <3> QED BY <3>1, <3>2
  <2> QED BY <1>1, <1>4, <2>1 DEF PrvRuns
<1>10. PrvPassed' /\ PrvReported'
  <2>1. \A p \in vPassed : p[1] \in 1 .. n /\ p[1] \in 1 .. n + 1 BY <1>5 DEF PrvPassed
  <2> QED BY <1>1, <1>4, <2>1 DEF PrvPassed, PrvReported
<1>11. PrvCalm'
  <2> SUFFICES ASSUME vCalm PROVE PrvCalm' BY <1>1 DEF PrvCalm
  <2>1. /\ vAdds' = {} /\ n < 2 /\ a.name = PrvName(n + 1) BY <1>1 DEF PrvCalm
  <2>2. \A i \in DOMAIN vSource' : i <= 2 /\ vSource'[i].name = PrvName(i)
    <3>1. row.name = PrvName(n + 1) BY <2>1 DEF row
    <3>2. \A i \in 1 .. n : vSource[i].name = PrvName(i) BY <1>5 DEF PrvCalm
    <3> QED BY <1>4, <1>5, <2>1, <3>1, <3>2
  <2>3. ASSUME NEW q \in Requests, vRun'[q].at # "idle"
        PROVE  vRun[q].at # "idle" /\ PrvAlone(q)'
    <3>1. vRun[q].at # "idle" /\ PrvAlone(q)
      <4>1. vRun[q].at # "idle" BY <1>7, <2>3
      <4> QED BY <4>1 DEF PrvCalm
    <3>2. vRun[q].at = "created" BY <3>1 DEF PrvAlone
    <3>3. a = [by |-> q, name |-> PrvName(vRun[q].spec), of |-> vRun[q].of] BY <3>1, <3>2 DEF PrvAlone
    <3>4. matched /\ q = a.by BY <3>2, <3>3
    <3>5. vRun'[q] = x BY <1>7, <3>4
    <3>6. x.at = "verify" /\ x.of = vRun[q].of /\ x.spec = vRun[q].spec BY <1>6, <2>3, <3>4, <3>5
    <3>7. Len(vSource') >= 1 BY <1>4, <1>5
    <3> QED BY <1>1, <2>1, <3>1, <3>5, <3>6, <3>7 DEF PrvAlone
  <2>4. \A q, r \in Requests : vRun'[q].at # "idle" /\ vRun'[r].at # "idle" => q = r
    BY <2>3 DEF PrvCalm
  <2> QED BY <2>1, <2>2, <2>3, <2>4 DEF PrvCalm
<1> QED BY <1>4, <1>8, <1>9, <1>10, <1>11

(* A run that writes to the source it has found writes its own release.    *)
LEMMA PrvWrite ==
  ASSUME PrvInv, NEW r \in Requests, NEW at \in {"choose", "verify"},
         vRun[r].at \in {"update", "choose"}, NEW row \in PrvRow,
         row.name = vSource[vRun[r].id].name,
         vRun[r].of = vRelease /\ vSource[vRun[r].id].host = vRelease
           /\ vSource[vRun[r].id].tables = vRelease =>
             row.host = vRelease /\ row.tables = vRelease,
         vSource' = [vSource EXCEPT ![vRun[r].id] = row],
         vRun' = [vRun EXCEPT ![r].at = at],
         UNCHANGED <<vRelease, vPassword, vAdds, vStarts, vPassed, vCalm>>
  PROVE  PrvInv'
<1> USE DEF PrvInv
<1> DEFINE i == vRun[r].id  x == [vRun[r] EXCEPT !.at = at]
<1>1. i \in DOMAIN vSource /\ vRun[r] \in PrvRecord BY PrvTypes DEF PrvRuns
<1>2. /\ vSource' \in Seq(PrvRow) /\ DOMAIN vSource' = DOMAIN vSource /\ Len(vSource') = Len(vSource)
      /\ \A k \in DOMAIN vSource : vSource'[k] = IF k = i THEN row ELSE vSource[k]
  BY <1>1
<1>3. /\ x \in PrvRecord /\ x.at = at /\ x.of = vRun[r].of /\ x.spec = vRun[r].spec /\ x.id = i
      /\ vRun' = [vRun EXCEPT ![r] = x]
  BY <1>1, PrvTypes DEF PrvRecord
<1> HIDE DEF x
<1>4. \A q \in Requests : vRun'[q] = IF q = r THEN x ELSE vRun[q] BY <1>3, PrvTypes
<1>5. Provision!TypeOK'
  <2>1. vRun' \in [Requests -> PrvRecord] BY <1>3, PrvTypes
  <2>2. Len(vSource') <= MaxSources /\ \A k \in DOMAIN vSource' : vSource'[k] \in PrvRow
    BY <1>2 DEF Provision!TypeOK
  <2> QED BY <2>1, <2>2 DEF Provision!TypeOK, PrvRecord, PrvRow, PrvName
<1>6. PrvRuns' BY <1>1, <1>2, <1>3, <1>4 DEF PrvRuns
<1>7. PrvPassed' BY <1>2 DEF PrvPassed
<1>8. PrvCalm'
  <2> SUFFICES ASSUME vCalm PROVE PrvCalm' BY DEF PrvCalm
  <2>1. PrvAlone(r) /\ \A q \in Requests : q # r => vRun'[q].at = "idle" BY <1>4 DEF PrvCalm
  <2>2. PrvAlone(r)' BY <1>2, <1>3, <1>4, <2>1 DEF PrvAlone
  <2>3. \A k \in DOMAIN vSource' : k <= 2 /\ vSource'[k].name = PrvName(k) BY <1>2 DEF PrvCalm
  <2> QED BY <1>2, <2>1, <2>2, <2>3 DEF PrvCalm
<1>9. PrvReported'
  <2> SUFFICES ASSUME vCalm, NEW p \in vPassed, p[2] = vRelease
               PROVE  vSource'[p[1]].host = vRelease /\ vSource'[p[1]].tables = vRelease
    BY DEF PrvReported
  <2>1. p[1] \in DOMAIN vSource /\ vSource[p[1]].host = vRelease /\ vSource[p[1]].tables = vRelease
    BY DEF PrvPassed, PrvReported
  <2>2. vRun[r].of = vRelease
    <3>1. p[2] <= vRun[r].of BY DEF PrvCalm, PrvAlone
    <3>2. vRun[r].of <= vRelease /\ vRun[r].of \in Nat
      BY <1>1, PlatformAssumption DEF PrvRuns, PrvRecord, Provision!Releases
    <3> QED BY <3>1, <3>2, PrvTypes
  <2> QED BY <1>2, <2>1, <2>2
<1> QED BY <1>2, <1>5, <1>6, <1>7, <1>8, <1>9

LEMMA PrvUpdates ==
  ASSUME PrvInv, NEW r \in Requests, Provision!Update(r) \/ Provision!ChooseTables(r)
  PROVE  PrvInv'
<1> DEFINE i == vRun[r].id
<1>1. vRun[r].at \in {"update", "choose"} BY DEF Provision!Update, Provision!ChooseTables
<1>2. /\ i \in DOMAIN vSource /\ vSource[i] \in PrvRow /\ vRun[r].of \in Provision!Releases
  BY <1>1, PrvTypes DEF PrvInv, PrvRuns, PrvRecord
<1>3. CASE Provision!Update(r)
  <2> DEFINE row == [vSource[i] EXCEPT !.host = vRun[r].of]
  <2>1. row \in PrvRow /\ row.name = vSource[i].name /\ row.host = vRun[r].of
        /\ row.tables = vSource[i].tables
    BY <1>2 DEF PrvRow
  <2>2. /\ vSource' = [vSource EXCEPT ![i] = row] /\ vRun' = [vRun EXCEPT ![r].at = "choose"]
        /\ UNCHANGED <<vRelease, vPassword, vAdds, vStarts, vPassed, vCalm>>
    BY <1>2, <1>3 DEF Provision!Update, PrvInv
  <2> HIDE DEF row
  <2> QED BY <1>1, <2>1, <2>2, PrvWrite
<1>4. CASE Provision!ChooseTables(r)
  <2> DEFINE row == [vSource[i] EXCEPT !.tables = vRun[r].of]
  <2>1. row \in PrvRow /\ row.name = vSource[i].name /\ row.tables = vRun[r].of
        /\ row.host = vSource[i].host
    BY <1>2 DEF PrvRow
  <2>2. /\ vSource' = [vSource EXCEPT ![i] = row] /\ vRun' = [vRun EXCEPT ![r].at = "verify"]
        /\ UNCHANGED <<vRelease, vPassword, vAdds, vStarts, vPassed, vCalm>>
    BY <1>2, <1>4 DEF Provision!ChooseTables, PrvInv
  <2> HIDE DEF row
  <2> QED BY <1>1, <2>1, <2>2, PrvWrite
<1> QED BY <1>3, <1>4

LEMMA PrvVerify ==
  ASSUME PrvInv, NEW r \in Requests, Provision!Verify(r)
  PROVE  PrvInv'
<1> USE DEF PrvInv
<1> DEFINE i == vRun[r].id
           x == IF vRun[r].spec = 2 THEN Provision!Idle
                ELSE [vRun[r] EXCEPT !.at = "contract", !.spec = 2, !.id = 0]
<1>1. /\ vRun[r].at = "verify" /\ vSource[i].host = vRelease /\ vSource[i].tables = vRun[r].of
      /\ vPassed' = vPassed \cup {<<i, vRun[r].of>>} /\ vRun' = [vRun EXCEPT ![r] = x]
      /\ UNCHANGED <<vRelease, vPassword, vSource, vAdds, vStarts, vCalm>>
  BY PrvTypes DEF Provision!Verify
<1>2. /\ i \in DOMAIN vSource /\ vRun[r] \in PrvRecord /\ vRun[r].of \in 0 .. MaxDeployments
      /\ vRun[r].of <= vRelease /\ i \in 1 .. MaxSources
  BY <1>1, PrvTypes DEF PrvRuns, PrvRecord, Provision!Releases
<1>3. /\ x \in PrvRecord /\ x.at \in {"idle", "contract"}
      /\ x.at = "contract" => x.of = vRun[r].of /\ x.spec = 2
      /\ x.at = "idle" => x.of = 0
  <2>1. CASE vRun[r].spec = 2 BY <2>1, PrvIdle
  <2>2. CASE vRun[r].spec # 2
    <3>1. vRun[r] = [at |-> vRun[r].at, spec |-> vRun[r].spec, of |-> vRun[r].of, id |-> vRun[r].id]
          /\ vRun[r].of \in Provision!Releases
      BY <1>2 DEF PrvRecord
    <3>2. x = [at |-> "contract", spec |-> 2, of |-> vRun[r].of, id |-> 0] BY <2>2, <3>1
    <3>3. 0 \in 0 .. MaxSources BY SourcesAssumption
    <3> HIDE DEF x
    <3> QED BY <3>1, <3>2, <3>3 DEF PrvRecord
  <2> QED BY <2>1, <2>2
<1> HIDE DEF x
<1>4. \A q \in Requests : vRun'[q] = IF q = r THEN x ELSE vRun[q] BY <1>1, PrvTypes
<1>5. Provision!TypeOK'
  <2>1. vRun' \in [Requests -> PrvRecord] BY <1>1, <1>3, PrvTypes
  <2>2. vPassed' \subseteq (1 .. MaxSources) \X Provision!Releases
    BY <1>1, <1>2, PrvTypes DEF Provision!Releases
  <2> QED BY <1>1, <2>1, <2>2 DEF Provision!TypeOK, PrvRecord
<1>6. PrvRuns'
  <2>1. x.of <= vRelease BY <1>2, <1>3, PrvTypes
  <2> QED BY <1>1, <1>3, <1>4, <2>1 DEF PrvRuns
<1>7. PrvPassed' BY <1>1, <1>2 DEF PrvPassed
<1>8. PrvReported' BY <1>1, <1>2 DEF PrvReported
<1>9. PrvCalm'
  <2> SUFFICES ASSUME vCalm PROVE PrvCalm' BY <1>1 DEF PrvCalm
  <2>1. PrvAlone(r) /\ \A q \in Requests : q # r => vRun'[q].at = "idle"
    BY <1>1, <1>4 DEF PrvCalm
  <2>2. vAdds = {} /\ Len(vSource) >= 1 BY <1>1, <1>2, <2>1, PrvTypes DEF PrvAlone
  <2>3. x.at # "idle" => PrvAlone(r)'
    BY <1>1, <1>2, <1>3, <1>4, <2>1, <2>2 DEF PrvAlone
  <2> QED BY <1>1, <1>4, <2>1, <2>2, <2>3 DEF PrvCalm
<1> QED BY <1>1, <1>5, <1>6, <1>7, <1>8, <1>9

LEMMA PrvDeploy ==
  ASSUME PrvInv, Provision!Deploy
  PROVE  PrvInv'
<1> USE DEF PrvInv
<1>1. /\ vRelease < MaxDeployments /\ vRelease' = vRelease + 1
      /\ UNCHANGED <<vPassword, vSource, vAdds, vRun, vStarts, vPassed, vCalm>>
  BY DEF Provision!Deploy
<1>2. vRelease' \in 0 .. MaxDeployments BY <1>1, PrvTypes, PlatformAssumption
<1>3. Provision!TypeOK' BY <1>1, <1>2 DEF Provision!TypeOK, Provision!Releases
<1>4. \A k \in 0 .. MaxDeployments : k <= vRelease => k <= vRelease' /\ k # vRelease'
  BY <1>1, PrvTypes, PlatformAssumption
<1>5. PrvRuns' BY <1>1, <1>4, PrvTypes DEF PrvRuns, PrvRecord, Provision!Releases
<1>6. PrvPassed' /\ PrvReported' BY <1>1, <1>4, PrvTypes DEF PrvPassed, PrvReported
<1>7. PrvCalm' BY <1>1 DEF PrvCalm, PrvAlone
<1> QED BY <1>1, <1>3, <1>5, <1>6, <1>7

LEMMA PrvStep == PrvInv /\ [Provision!Next]_(Provision!vars) => PrvInv'
<1> SUFFICES ASSUME PrvInv, [Provision!Next]_(Provision!vars) PROVE PrvInv' OBVIOUS
<1>1. CASE UNCHANGED Provision!vars
  BY <1>1 DEF PrvInv, Provision!vars, Provision!TypeOK, PrvRuns, PrvPassed, PrvCalm, PrvAlone,
     PrvReported
<1> QED BY <1>1, PrvDeploy, PrvBegin, PrvSteps, PrvList, PrvSendAdd, PrvUpdates, PrvVerify, PrvStop,
           PrvExecuteAdd DEF Provision!Next

LEMMA PrvSafe == PrvInv => Provision!ProvisioningSafe
BY DEF PrvInv, PrvCalm, PrvReported, Provision!ProvisioningSafe, Provision!BoundIdsAreOwn,
   Provision!ReportedIsConfigured, PrvName

LEMMA PrvMoves == [MCNext]_allVars => [Provision!Next]_(Provision!vars)
<1> SUFFICES ASSUME MCNext PROVE [Provision!Next]_(Provision!vars)
  BY DEF allVars, ProvisionVars, Provision!vars
<1>1. CASE focus = "provision" BY <1>1 DEF MCNext
<1>2. CASE focus # "provision" BY <1>2 DEF MCNext, Keep, ProvisionVars, Provision!vars
<1> QED BY <1>1, <1>2
----------------------------------------------------------------------------
(* External alerts.  From the flush of its row on a delivery owns its key: *)
(* no other one has it until the outcome is written, the row is PENDING    *)
(* once it is committed, and the endpoint has at most the posts the owner  *)
(* has counted.                                                            *)

ExtRecord ==
  [pc : {"idle", "deliver", "insert", "flushed", "post", "answered"},
   key : Keys \cup {"none"}, attempt : 0 .. PostAttempts]

ExtOwns(x) == x.pc \in {"flushed", "post", "answered"}

(* What a delivery knows of the row and the posts of its key.              *)
ExtKnows(x) ==
  /\ x.pc # "idle" => x.key \in Keys
  /\ x.pc = "flushed" => eRow[x.key] = "NONE"
  /\ x.pc \in {"post", "answered"} => eRow[x.key] = "PENDING" /\ ePosts[x.key] <= x.attempt
  /\ x.pc \notin {"post", "answered"} => x.attempt = 0
  /\ x.pc = "answered" => x.key \in eAccepted

ExtCalls == \A c \in Requests : ExtKnows(eCall[c])

ExtOneOwner ==
  \A c, d \in Requests : ExtOwns(eCall[c]) /\ ExtOwns(eCall[d]) /\ eCall[c].key = eCall[d].key => c = d

ExtRows ==
  \A k \in Keys :
    /\ eRow[k] = "NONE" => ePosts[k] = 0
    /\ eRow[k] = "DELIVERED" => k \in eAccepted
    /\ ePosts[k] <= PostAttempts

ExtInv == External!TypeOK /\ ExtCalls /\ ExtOneOwner /\ ExtRows

LEMMA ExtTypes ==
  ASSUME ExtInv
  PROVE  /\ eCall \in [Requests -> ExtRecord] /\ eAccepted \subseteq Keys
         /\ eRow \in [Keys -> {"NONE", "PENDING", "FAILED", "DELIVERED"}]
         /\ ePosts \in [Keys -> 0 .. PostAttempts + 1]
         /\ eCircuit \in [failures : 0 .. PostThreshold, open : BOOLEAN]
BY DEF ExtInv, External!TypeOK, ExtRecord

LEMMA ExtIdle ==
  /\ External!Idle \in ExtRecord /\ External!Idle.pc = "idle" /\ External!Idle.attempt = 0
  /\ ~ExtOwns(External!Idle)
BY PlatformAssumption DEF External!Idle, ExtRecord, ExtOwns

LEMMA ExtInit == External!Init => ExtInv
<1> SUFFICES ASSUME External!Init PROVE ExtInv OBVIOUS
<1>1. External!TypeOK
  BY ExtIdle, PlatformAssumption DEF External!Init, External!TypeOK, ExtRecord
<1>2. ExtCalls /\ ExtOneOwner BY ExtIdle DEF External!Init, ExtCalls, ExtKnows, ExtOneOwner
<1>3. ExtRows BY PlatformAssumption DEF External!Init, ExtRows
<1> QED BY <1>1, <1>2, <1>3 DEF ExtInv

(* A delivery goes on and writes nothing.                                  *)
LEMMA ExtGo ==
  ASSUME ExtInv, NEW c \in Requests, NEW x \in ExtRecord, ExtKnows(x),
         ExtOwns(x) => \A d \in Requests : d # c /\ ExtOwns(eCall[d]) => eCall[d].key # x.key,
         eCall' = [eCall EXCEPT ![c] = x], UNCHANGED <<eRow, ePosts, eAccepted, eCircuit>>
  PROVE  ExtInv'
<1> USE DEF ExtInv
<1>1. \A d \in Requests : eCall'[d] = IF d = c THEN x ELSE eCall[d] BY ExtTypes
<1>2. External!TypeOK' BY ExtTypes DEF External!TypeOK, ExtRecord
<1>3. ExtCalls' BY <1>1 DEF ExtCalls, ExtKnows
<1>4. ExtOneOwner' BY <1>1 DEF ExtOneOwner
<1>5. ExtRows' BY DEF ExtRows
<1> QED BY <1>2, <1>3, <1>4, <1>5

(* The owner of a key writes its row, its posts or its acceptance, and     *)
(* goes on or is done.                                                     *)
LEMMA ExtWrite ==
  ASSUME ExtInv, NEW c \in Requests, NEW k \in Keys, ExtOwns(eCall[c]), eCall[c].key = k,
         NEW x \in ExtRecord, x.pc = "idle" \/ x.key = k,
         NEW to \in {"PENDING", "FAILED", "DELIVERED"}, NEW n \in 0 .. PostAttempts,
         NEW taken \in BOOLEAN,
         eCall' = [eCall EXCEPT ![c] = x], eRow' = [eRow EXCEPT ![k] = to],
         ePosts' = [ePosts EXCEPT ![k] = n],
         eAccepted' = IF taken THEN eAccepted \cup {k} ELSE eAccepted,
         to = "DELIVERED" => k \in eAccepted, ExtKnows(eCall[c])',
         eCircuit' \in [failures : 0 .. PostThreshold, open : BOOLEAN]
  PROVE  ExtInv'
<1> USE DEF ExtInv
<1>1. \A d \in Requests : eCall'[d] = IF d = c THEN x ELSE eCall[d] BY ExtTypes
<1>2. \A q \in Keys : /\ eRow'[q] = IF q = k THEN to ELSE eRow[q]
                      /\ ePosts'[q] = IF q = k THEN n ELSE ePosts[q]
                      /\ q \in eAccepted => q \in eAccepted'
  BY ExtTypes
<1>3. External!TypeOK'
  <2>1. n \in 0 .. PostAttempts + 1 BY PlatformAssumption
  <2>2. /\ eRow' \in [Keys -> {"NONE", "PENDING", "FAILED", "DELIVERED"}]
        /\ ePosts' \in [Keys -> 0 .. PostAttempts + 1] /\ eAccepted' \subseteq Keys
    BY <2>1, ExtTypes
  <2>3. eCall' \in [Requests -> ExtRecord] BY ExtTypes
  <2> QED BY <2>2, <2>3 DEF External!TypeOK, ExtRecord
<1>4. ExtCalls'
  <2> SUFFICES ASSUME NEW d \in Requests PROVE ExtKnows(eCall[d])' BY DEF ExtCalls
  <2>1. CASE d = c BY <1>1, <2>1 DEF ExtKnows
  <2>2. CASE d # c
    <3>1. ExtKnows(eCall[d]) /\ eCall'[d] = eCall[d] BY <1>1, <2>2 DEF ExtCalls
    <3>2. ExtOwns(eCall[d]) => eCall[d].key # k BY <2>2 DEF ExtOneOwner
    <3> QED BY <1>2, <3>1, <3>2 DEF ExtKnows, ExtOwns
  <2> QED BY <2>1, <2>2
<1>5. ExtOneOwner'
  <2>1. \A d \in Requests : d # c /\ ExtOwns(eCall[d]) => eCall[d].key # k BY DEF ExtOneOwner
  <2>2. ExtOwns(x) => x.key = k BY DEF ExtOwns
  <2> QED BY <1>1, <2>1, <2>2 DEF ExtOneOwner
<1>6. ExtRows' BY <1>2 DEF ExtRows
<1> QED BY <1>3, <1>4, <1>5, <1>6

LEMMA ExtCall ==
  ASSUME ExtInv, NEW c \in Requests
  PROVE  eCall[c] \in ExtRecord /\ ExtKnows(eCall[c])
BY ExtTypes DEF ExtInv, ExtCalls

LEMMA ExtDeliver ==
  ASSUME ExtInv, NEW c \in Requests, NEW k \in Keys, External!Deliver(c, k)
  PROVE  ExtInv'
<1> DEFINE x == [External!Idle EXCEPT !.pc = "deliver", !.key = k]
<1>1. x \in ExtRecord /\ x.pc = "deliver" /\ x.key = k /\ x.attempt = 0
  BY ExtIdle DEF ExtRecord
<1>2. eCall' = [eCall EXCEPT ![c] = x] /\ UNCHANGED <<eRow, ePosts, eAccepted, eCircuit>>
  BY DEF External!Deliver
<1> HIDE DEF x
<1>3. x \in ExtRecord /\ ExtKnows(x) /\ ~ExtOwns(x)
  BY <1>1 DEF ExtKnows, ExtOwns
<1> QED BY <1>2, <1>3, ExtGo

LEMMA ExtLookUp ==
  ASSUME ExtInv, NEW c \in Requests, External!LookUp(c) \/ External!Insert(c)
  PROVE  ExtInv'
<1> DEFINE k == eCall[c].key
<1>1. eCall[c] \in ExtRecord /\ ExtKnows(eCall[c]) BY ExtCall
<1>2. PICK to \in {"idle", "insert", "flushed"} :
        /\ eCall' = [eCall EXCEPT ![c] = IF to = "idle" THEN External!Idle ELSE [eCall[c] EXCEPT !.pc = to]]
        /\ eCall[c].pc \in {"deliver", "insert"} /\ UNCHANGED <<eRow, ePosts, eAccepted, eCircuit>>
        /\ to # "idle" => eRow[k] = "NONE"
        /\ to = "flushed" => \A d \in Requests : eCall[d].pc = "flushed" => eCall[d].key # k
  <2>1. CASE External!LookUp(c)
    BY <2>1, ExtTypes DEF External!LookUp, External!Done
  <2>2. CASE External!Insert(c)
    BY <2>2, ExtTypes DEF External!Insert, External!Done
  <2> QED BY <2>1, <2>2
<1>3. CASE to = "idle"
  BY <1>2, <1>3, ExtIdle, ExtGo DEF ExtKnows, ExtOwns
<1>4. CASE to # "idle"
  <2> DEFINE x == [eCall[c] EXCEPT !.pc = to]
  <2>1. eCall' = [eCall EXCEPT ![c] = x] BY <1>2, <1>4
  <2>2. x \in ExtRecord /\ x.pc = to /\ x.key = k /\ x.attempt = eCall[c].attempt
    BY <1>1 DEF ExtRecord
  <2> HIDE DEF x
  <2>3. ExtKnows(x) BY <1>1, <1>2, <1>4, <2>2 DEF ExtKnows
  <2>4. ExtOwns(x) => \A d \in Requests : d # c /\ ExtOwns(eCall[d]) => eCall[d].key # x.key
    <3> SUFFICES ASSUME to = "flushed", NEW d \in Requests, ExtOwns(eCall[d])
                 PROVE  eCall[d].key # k
      BY <1>4, <2>2 DEF ExtOwns
    <3>1. ExtKnows(eCall[d]) BY ExtCall
    <3> QED BY <1>2, <3>1 DEF ExtKnows, ExtOwns
  <2> QED BY <1>2, <2>1, <2>2, <2>3, <2>4, ExtGo
<1> QED BY <1>3, <1>4

(* The steps of the owner.                                                 *)
LEMMA ExtResolve ==
  ASSUME ExtInv, NEW c \in Requests, External!Resolve(c) \/ External!ResolveFails(c)
  PROVE  ExtInv'
<1> DEFINE k == eCall[c].key
<1>1. eCall[c].pc = "flushed" BY DEF External!Resolve, External!ResolveFails
<1>2. eCall[c] \in ExtRecord /\ k \in Keys /\ eRow[k] = "NONE" /\ eCall[c].attempt = 0
  BY <1>1, ExtCall DEF ExtKnows
<1>3. ePosts[k] = 0 /\ ePosts' = [ePosts EXCEPT ![k] = 0] /\ UNCHANGED <<eAccepted, eCircuit>>
  BY <1>2, ExtTypes DEF ExtInv, ExtRows, External!Resolve, External!ResolveFails
<1>4. 0 \in 0 .. PostAttempts /\ ExtOwns(eCall[c]) BY <1>1, PlatformAssumption DEF ExtOwns
<1>5. CASE External!Resolve(c)
  <2> DEFINE x == [eCall[c] EXCEPT !.pc = "post"]
  <2>1. eRow' = [eRow EXCEPT ![k] = "PENDING"] /\ eCall' = [eCall EXCEPT ![c] = x]
    BY <1>5, ExtTypes DEF External!Resolve
  <2>2. x \in ExtRecord /\ x.pc = "post" /\ x.key = k /\ x.attempt = 0 BY <1>2 DEF ExtRecord
  <2> HIDE DEF x
  <2>3. ExtKnows(eCall[c])' BY <1>2, <1>3, <2>1, <2>2, ExtTypes DEF ExtKnows
  <2> QED BY <1>2, <1>3, <1>4, <2>1, <2>2, <2>3, ExtTypes, ExtWrite
<1>6. CASE External!ResolveFails(c)
  <2> DEFINE x == External!Idle
  <2>1. eRow' = [eRow EXCEPT ![k] = "FAILED"] /\ eCall' = [eCall EXCEPT ![c] = x]
    BY <1>6 DEF External!ResolveFails, External!Done
  <2>2. x \in ExtRecord /\ x.pc = "idle" /\ ExtKnows(eCall[c])' BY <2>1, ExtIdle, ExtTypes DEF ExtKnows
  <2> HIDE DEF x
  <2> QED BY <1>2, <1>3, <1>4, <2>1, <2>2, ExtTypes, ExtWrite
<1> QED BY <1>5, <1>6

LEMMA ExtPost ==
  ASSUME ExtInv, NEW c \in Requests, NEW reaches \in BOOLEAN, NEW accepts \in BOOLEAN,
         NEW arrives \in BOOLEAN, External!Post(c, reaches, accepts, arrives)
  PROVE  ExtInv'
<1> DEFINE k == eCall[c].key
           n == IF reaches THEN ePosts[k] + 1 ELSE ePosts[k]
           to == IF reaches /\ accepts /\ arrives THEN "answered" ELSE "post"
           x == [eCall[c] EXCEPT !.attempt = @ + 1, !.pc = to]
<1>1. eCall[c].pc = "post" /\ eCall[c].attempt < PostAttempts BY DEF External!Post
<1>2. /\ eCall[c] \in ExtRecord /\ k \in Keys /\ eRow[k] = "PENDING" /\ ePosts[k] <= eCall[c].attempt
  BY <1>1, ExtCall DEF ExtKnows
<1>3. eCall[c].attempt \in 0 .. PostAttempts /\ ePosts[k] \in Nat
  BY <1>2, ExtTypes, PlatformAssumption DEF ExtRecord
<1>4. n \in 0 .. PostAttempts /\ n <= eCall[c].attempt + 1 /\ eCall[c].attempt + 1 \in 0 .. PostAttempts
  BY <1>1, <1>2, <1>3, PlatformAssumption
<1>5. ePosts[k] <= PostAttempts BY <1>1, <1>2, <1>3, PlatformAssumption
<1>6. /\ ePosts' = [ePosts EXCEPT ![k] = n] /\ eRow' = [eRow EXCEPT ![k] = "PENDING"]
      /\ eCall' = [eCall EXCEPT ![c] = x] /\ UNCHANGED eCircuit
  <2>1. ePosts' = [ePosts EXCEPT ![k] = IF reaches /\ ePosts[k] <= PostAttempts
                                        THEN ePosts[k] + 1 ELSE ePosts[k]]
    BY <1>2, ExtTypes DEF External!Post
  <2>2. eCall' = [eCall EXCEPT ![c] = x] /\ UNCHANGED <<eRow, eCircuit>>
    BY ExtTypes DEF External!Post
  <2> QED BY <1>2, <1>5, <2>1, <2>2, ExtTypes
<1>7. PICK taken \in BOOLEAN :
        /\ eAccepted' = IF taken THEN eAccepted \cup {k} ELSE eAccepted
        /\ to = "answered" => taken
  BY DEF External!Post
<1>8. x \in ExtRecord /\ x.pc = to /\ x.key = k /\ x.attempt = eCall[c].attempt + 1
  BY <1>2, <1>4 DEF ExtRecord
<1>9. to \in {"post", "answered"} /\ ExtOwns(eCall[c]) BY <1>1 DEF ExtOwns
<1> HIDE DEF x, to, n
<1>10. ExtKnows(eCall[c])' BY <1>2, <1>4, <1>6, <1>7, <1>8, <1>9, ExtTypes DEF ExtKnows
<1> QED BY <1>2, <1>4, <1>6, <1>7, <1>8, <1>9, <1>10, ExtTypes, ExtWrite

LEMMA ExtEnd ==
  ASSUME ExtInv, NEW c \in Requests, External!Succeed(c) \/ External!Fail(c)
  PROVE  ExtInv'
<1> DEFINE k == eCall[c].key
           x == External!Idle
<1>1. eCall[c].pc \in {"post", "answered"} BY DEF External!Succeed, External!Fail
<1>2. /\ k \in Keys /\ ePosts[k] <= PostAttempts /\ ExtOwns(eCall[c])
      /\ eCall[c].pc = "answered" => k \in eAccepted
  BY <1>1, ExtCall DEF ExtKnows, ExtInv, ExtRows, ExtOwns
<1>3. ePosts[k] \in 0 .. PostAttempts BY <1>2, ExtTypes, PlatformAssumption
<1>4. PICK to \in {"FAILED", "DELIVERED"} :
        /\ eRow' = [eRow EXCEPT ![k] = to]
        /\ to = "DELIVERED" => eCall[c].pc = "answered"
        /\ eCall' = [eCall EXCEPT ![c] = x] /\ UNCHANGED <<ePosts, eAccepted>>
        /\ eCircuit' \in [failures : 0 .. PostThreshold, open : BOOLEAN]
  <2>1. CASE External!Succeed(c)
    <3>1. 0 \in 0 .. PostThreshold BY PlatformAssumption
    <3> QED BY <2>1, <3>1 DEF External!Succeed, External!Done
  <2>2. CASE External!Fail(c)
    <3> DEFINE m == IF eCircuit.failures < PostThreshold THEN eCircuit.failures + 1 ELSE PostThreshold
    <3>1. m \in 0 .. PostThreshold /\ eCircuit.open \in BOOLEAN BY ExtTypes, PlatformAssumption
    <3>2. eCircuit' = [failures |-> m, open |-> eCircuit.open \/ m = PostThreshold]
      BY <2>2 DEF External!Fail
    <3> HIDE DEF m
    <3>3. (eCircuit.open \/ m = PostThreshold) \in BOOLEAN BY <3>1
    <3> QED BY <2>2, <3>1, <3>2, <3>3 DEF External!Fail, External!Done
  <2> QED BY <2>1, <2>2
<1>5. ePosts' = [ePosts EXCEPT ![k] = ePosts[k]] BY <1>4, ExtTypes
<1>6. x \in ExtRecord /\ x.pc = "idle" /\ ExtKnows(eCall[c])' BY <1>4, ExtIdle, ExtTypes DEF ExtKnows
<1> HIDE DEF x
<1>7. to \in {"PENDING", "FAILED", "DELIVERED"} /\ (to = "DELIVERED" => k \in eAccepted) BY <1>2, <1>4
<1> QED BY <1>2, <1>3, <1>4, <1>5, <1>6, <1>7, ExtWrite

LEMMA ExtStep == ExtInv /\ [External!Next]_(External!vars) => ExtInv'
<1> SUFFICES ASSUME ExtInv, [External!Next]_(External!vars) PROVE ExtInv' OBVIOUS
<1>1. CASE UNCHANGED External!vars
  BY <1>1 DEF ExtInv, External!vars, External!TypeOK, ExtCalls, ExtKnows, ExtOneOwner, ExtRows
<1>2. ASSUME NEW c \in Requests, External!Crash(c) PROVE ExtInv'
  <2>1. /\ eCall' = [eCall EXCEPT ![c] = External!Idle]
        /\ UNCHANGED <<eRow, ePosts, eAccepted, eCircuit>>
    BY <1>2 DEF External!Crash, External!Done
  <2>2. ExtKnows(External!Idle) BY ExtIdle DEF ExtKnows
  <2> QED BY <2>1, <2>2, ExtIdle, ExtGo
<1>3. CASE External!CircuitCloses
  <2>1. eCircuit' \in [failures : 0 .. PostThreshold, open : BOOLEAN]
    BY <1>3, ExtTypes DEF External!CircuitCloses
  <2> QED BY <1>3, <2>1 DEF External!CircuitCloses, ExtInv, External!TypeOK, ExtCalls, ExtKnows,
            ExtOneOwner, ExtRows
<1> QED BY <1>1, <1>2, <1>3, ExtDeliver, ExtLookUp, ExtResolve, ExtPost, ExtEnd DEF External!Next

LEMMA ExtSafe == ExtInv => External!DeliverySafe
BY DEF ExtInv, ExtRows, External!DeliverySafe, External!OneDeliveryPerKey,
   External!DeliveredWasAccepted

(* Only its owner writes a row, and none owns a key whose outcome is       *)
(* written.                                                                *)
LEMMA ExtFinal ==
  ASSUME ExtInv, [External!Next]_(External!vars), NEW k \in Keys, eRow[k] \in {"FAILED", "DELIVERED"}
  PROVE  eRow'[k] = eRow[k]
<1>1. CASE UNCHANGED eRow BY <1>1
<1>2. CASE ~UNCHANGED eRow
  <2>1. PICK c \in Requests : External!Resolve(c) \/ External!ResolveFails(c)
                              \/ External!Succeed(c) \/ External!Fail(c)
    BY <1>2 DEF External!Next, External!vars, External!Deliver, External!LookUp, External!Insert,
       External!Post, External!Crash, External!CircuitCloses
  <2>2. ExtOwns(eCall[c]) BY <2>1 DEF External!Resolve, External!ResolveFails, External!Succeed,
       External!Fail, ExtOwns
  <2>3. eCall[c].key # k /\ eCall[c].key \in Keys BY <2>2, ExtCall DEF ExtKnows, ExtOwns
  <2>4. \A q \in Keys : q # eCall[c].key => eRow'[q] = eRow[q]
    BY <2>1, ExtTypes DEF External!Resolve, External!ResolveFails, External!Succeed, External!Fail
  <2> QED BY <2>3, <2>4
<1> QED BY <1>1, <1>2

LEMMA ExtMoves == [MCNext]_allVars => [External!Next]_(External!vars)
<1> SUFFICES ASSUME MCNext PROVE [External!Next]_(External!vars)
  BY DEF allVars, ExternalVars, External!vars
<1>1. CASE focus = "external" BY <1>1 DEF MCNext
<1>2. CASE focus # "external" BY <1>2 DEF MCNext, Keep, ExternalVars, External!vars
<1> QED BY <1>1, <1>2
----------------------------------------------------------------------------
(* Security alerts.  A count never runs ahead of the events of its alert,  *)
(* nor the count a session is about to write by more than its own event;   *)
(* a session that is alone writes the count that follows.                  *)

SecAlert == [status : {"NONE", "OBSERVING", "OPEN", "ACKNOWLEDGED"}, count : 0 .. MaxEvents]
SecRecord ==
  [op : {"idle", "observe", "acknowledge"}, alert : AlertRows \cup {"none"},
   count : 0 .. MaxEvents, status : {"KEEP", "OBSERVING", "OPEN", "ACKNOWLEDGED"}]

SecCounts ==
  \A a \in AlertRows :
    /\ sAlert[a].count <= sSeen[a] /\ sSeen[a] <= sEvents
    /\ sAlert[a].status = "OPEN" => sSeen[a] >= AlertThreshold
    /\ sAlert[a].status = "NONE" => sSeen[a] = 0

(* What a session is about to write was counted from what there is.        *)
SecCounted(x) ==
  /\ x.op # "idle" => x.alert \in AlertRows
  /\ x.op = "observe" =>
       /\ x.count <= sSeen[x.alert] + 1
       /\ x.status \in {"KEEP", "OBSERVING", "OPEN"}
       /\ x.status = "OPEN" => x.count >= AlertThreshold
       /\ x.status = "KEEP" => sAlert[x.alert].status # "NONE"
  /\ x.op = "acknowledge" => sAlert[x.alert].status # "NONE"

SecJobs == \A j \in Requests : SecCounted(sJob[j])

SecExact(a) ==
  /\ sAlert[a].count = sSeen[a]
  /\ sAlert[a].count >= AlertThreshold => sAlert[a].status # "OBSERVING"

(* What the only session under way is about to write.                      *)
SecAlone(x) ==
  x.op = "observe" =>
    /\ x.count = sAlert[x.alert].count + 1
    /\ \A b \in Security!Live : b = x.alert
    /\ x.status = "KEEP" => x.count < AlertThreshold \/ sAlert[x.alert].status = "OPEN"
    /\ x.status = "OBSERVING" => x.count < AlertThreshold

SecCalm ==
  sCalm =>
    /\ \A a \in AlertRows : SecExact(a)
    /\ \A a, b \in Security!Live : a = b
    /\ \A i, j \in Requests : sJob[i].op # "idle" /\ sJob[j].op # "idle" => i = j
    /\ \A j \in Requests : SecAlone(sJob[j])

SecInv == Security!TypeOK /\ SecCounts /\ SecJobs /\ SecCalm

LEMMA SecTypes ==
  ASSUME SecInv
  PROVE  /\ sAlert \in [AlertRows -> SecAlert] /\ sJob \in [Requests -> SecRecord]
         /\ sEvents \in 0 .. MaxEvents /\ sSeen \in [AlertRows -> 0 .. MaxEvents] /\ sCalm \in BOOLEAN
BY DEF SecInv, Security!TypeOK, SecAlert, SecRecord

LEMMA SecIdle == Security!Idle \in SecRecord /\ Security!Idle.op = "idle"
BY PlatformAssumption DEF Security!Idle, SecRecord

LEMMA SecInit == Security!Init => SecInv
<1> SUFFICES ASSUME Security!Init PROVE SecInv OBVIOUS
<1> USE PlatformAssumption
<1>1. Security!NoAlert \in SecAlert /\ Security!NoAlert.count = 0 /\ Security!NoAlert.status = "NONE"
  BY DEF Security!NoAlert, SecAlert
<1>2. Security!TypeOK BY <1>1, SecIdle DEF Security!Init, Security!TypeOK, SecAlert, SecRecord
<1>3. SecCounts BY <1>1 DEF Security!Init, SecCounts
<1>4. SecJobs BY SecIdle DEF Security!Init, SecJobs, SecCounted
<1>5. SecCalm
  <2>1. \A a \in AlertRows : SecExact(a) BY <1>1 DEF Security!Init, SecExact
  <2>2. Security!Live = {} BY <1>1 DEF Security!Init, Security!Live
  <2> QED BY <2>1, <2>2, SecIdle DEF Security!Init, SecCalm, SecAlone
<1> QED BY <1>2, <1>3, <1>4, <1>5 DEF SecInv

(* A session reads and decides; nothing is written.                        *)
LEMMA SecPlan ==
  ASSUME SecInv, NEW j \in Requests, NEW x \in SecRecord, x.op # "idle",
         Security!Plan(j, x.op, x.alert, x.count, x.status),
         SecCounted(x), sCalm => SecAlone(x)
  PROVE  SecInv'
<1> USE DEF SecInv
<1>1. /\ sJob' = [sJob EXCEPT ![j] = x] /\ UNCHANGED <<sAlert, sEvents, sSeen>>
      /\ sCalm' = (sCalm /\ \A k \in DOMAIN sJob : k # j => sJob[k].op = "idle")
  <2>1. x = [op |-> x.op, alert |-> x.alert, count |-> x.count, status |-> x.status] BY DEF SecRecord
  <2> QED BY <2>1 DEF Security!Plan, Security!Alone
<1>2. Security!TypeOK' BY <1>1, SecTypes DEF Security!TypeOK, SecRecord
<1>3. \A k \in Requests : sJob'[k] = IF k = j THEN x ELSE sJob[k] BY <1>1, SecTypes
<1>4. SecCounts' BY <1>1 DEF SecCounts
<1>5. SecJobs' BY <1>1, <1>3 DEF SecJobs, SecCounted
<1>6. SecCalm'
  <2> SUFFICES ASSUME sCalm' PROVE SecCalm' BY DEF SecCalm
  <2>1. sCalm /\ \A k \in Requests : k # j => sJob[k].op = "idle" BY <1>1, SecTypes
  <2>2. (\A a \in AlertRows : SecExact(a))' BY <1>1, <2>1 DEF SecCalm, SecExact
  <2>3. (\A a, b \in Security!Live : a = b)' BY <1>1, <2>1 DEF SecCalm, Security!Live
  <2>4. (\A k \in Requests : SecAlone(sJob[k]))'
    BY <1>1, <1>3, <2>1 DEF SecCalm, SecAlone, Security!Live
  <2> QED BY <1>3, <2>1, <2>2, <2>3, <2>4 DEF SecCalm
<1> QED BY <1>2, <1>4, <1>5, <1>6

LEMMA SecReads ==
  ASSUME SecInv, NEW j \in Requests, NEW a \in AlertRows,
         \/ Security!ObserveFirst(j, a) \/ Security!ObserveAgain(j, a) \/ Security!Acknowledge(j, a)
  PROVE  SecInv'
<1> USE DEF SecInv
<1>1. /\ sAlert[a] \in SecAlert /\ sAlert[a].count <= sSeen[a] /\ sSeen[a] <= sEvents
      /\ sSeen[a] \in Nat /\ sEvents \in 0 .. MaxEvents /\ sAlert[a].count \in Nat
  BY SecTypes, PlatformAssumption DEF SecCounts, SecAlert
<1>2. sCalm => SecExact(a) /\ \A p, q \in Security!Live : p = q BY DEF SecCalm
<1>3. CASE Security!ObserveFirst(j, a)
  <2> DEFINE s == IF AlertThreshold = 1 THEN "OPEN" ELSE "OBSERVING"
             x == [op |-> "observe", alert |-> a, count |-> 1, status |-> s]
  <2>1. /\ Security!Live = {} /\ sAlert[a].status = "NONE"
        /\ Security!Plan(j, "observe", a, 1, s)
    BY <1>3 DEF Security!ObserveFirst, Security!Free
  <2>2. /\ s \in {"OPEN", "OBSERVING"}
        /\ s = "OPEN" => 1 >= AlertThreshold
        /\ s = "OBSERVING" => 1 < AlertThreshold
    BY PlatformAssumption
  <2>3. sSeen[a] = 0 BY <2>1 DEF SecCounts
  <2> HIDE DEF s
  <2>4. /\ x \in SecRecord /\ x.op = "observe" /\ x.alert = a /\ x.count = 1 /\ x.status = s
    BY <2>2, PlatformAssumption DEF SecRecord
  <2> HIDE DEF x
  <2>5. SecCounted(x)
    BY <2>2, <2>3, <2>4 DEF SecCounted
  <2>6. sCalm => SecAlone(x)
    BY <1>2, <2>1, <2>2, <2>3, <2>4 DEF SecAlone, SecExact
  <2>7. Security!Plan(j, x.op, x.alert, x.count, x.status) BY <2>1, <2>4
  <2> QED BY <2>4, <2>5, <2>6, <2>7, SecPlan
<1>4. CASE Security!ObserveAgain(j, a)
  <2> DEFINE n == sAlert[a].count + 1
             s == Security!Escalated(sAlert[a].status, n)
             x == [op |-> "observe", alert |-> a, count |-> n, status |-> s]
  <2>1. /\ a \in Security!Live /\ sEvents < MaxEvents /\ Security!Plan(j, "observe", a, n, s)
    BY <1>4 DEF Security!ObserveAgain
  <2>2. sAlert[a].status \in {"OBSERVING", "OPEN"} BY <2>1 DEF Security!Live
  <2>3. /\ s \in {"OPEN", "KEEP"}
        /\ s = "OPEN" => n >= AlertThreshold
        /\ s = "KEEP" => n < AlertThreshold \/ sAlert[a].status = "OPEN"
    BY <1>1, PlatformAssumption DEF Security!Escalated
  <2>4. n \in 0 .. MaxEvents /\ n <= sSeen[a] + 1 /\ n = sAlert[a].count + 1
    BY <1>1, <2>1, PlatformAssumption
  <2> HIDE DEF s, n
  <2>5. x \in SecRecord /\ x.op = "observe" /\ x.alert = a /\ x.count = n /\ x.status = s
    BY <2>3, <2>4 DEF SecRecord
  <2> HIDE DEF x
  <2>6. SecCounted(x) BY <2>2, <2>3, <2>4, <2>5 DEF SecCounted
  <2>7. sCalm => SecAlone(x) BY <1>2, <2>1, <2>3, <2>4, <2>5 DEF SecAlone
  <2>8. Security!Plan(j, x.op, x.alert, x.count, x.status) BY <2>1, <2>5
  <2> QED BY <2>5, <2>6, <2>7, <2>8, SecPlan
<1>5. CASE Security!Acknowledge(j, a)
  <2> DEFINE x == [op |-> "acknowledge", alert |-> a, count |-> 0, status |-> "ACKNOWLEDGED"]
  <2>1. sAlert[a].status \in {"OBSERVING", "OPEN"} /\ Security!Plan(j, "acknowledge", a, 0, "ACKNOWLEDGED")
    BY <1>5 DEF Security!Acknowledge
  <2>2. x \in SecRecord /\ x.op = "acknowledge" /\ x.alert = a /\ x.count = 0 /\ x.status = "ACKNOWLEDGED"
    BY PlatformAssumption DEF SecRecord
  <2> HIDE DEF x
  <2>3. SecCounted(x) /\ SecAlone(x) BY <2>1, <2>2 DEF SecCounted, SecAlone
  <2>4. Security!Plan(j, x.op, x.alert, x.count, x.status) BY <2>1, <2>2
  <2> QED BY <2>2, <2>3, <2>4, SecPlan
<1> QED BY <1>3, <1>4, <1>5

LEMMA SecCommitEvent ==
  ASSUME SecInv, NEW j \in Requests, Security!CommitEvent(j)
  PROVE  SecInv'
<1> USE DEF SecInv
<1> DEFINE a == sJob[j].alert  n == sJob[j].count
           s == IF sJob[j].status = "KEEP" THEN sAlert[a].status ELSE sJob[j].status
           y == [sAlert[a] EXCEPT !.count = n, !.status = s]
<1>1. /\ sJob[j].op = "observe" /\ sEvents < MaxEvents /\ sEvents' = sEvents + 1
      /\ sSeen' = [sSeen EXCEPT ![a] = @ + 1] /\ sJob' = [sJob EXCEPT ![j] = Security!Idle]
      /\ UNCHANGED sCalm
  BY DEF Security!CommitEvent
<1>2. sJob[j] \in SecRecord /\ SecCounted(sJob[j]) /\ a \in AlertRows
  BY <1>1, SecTypes DEF SecJobs, SecCounted
<1>3. /\ sAlert[a] \in SecAlert /\ sAlert[a].count <= sSeen[a] /\ sSeen[a] <= sEvents
      /\ n \in 0 .. MaxEvents /\ n <= sSeen[a] + 1
      /\ sSeen[a] \in Nat /\ sEvents \in 0 .. MaxEvents
  BY <1>1, <1>2, SecTypes, PlatformAssumption DEF SecCounts, SecCounted, SecRecord
<1>4. /\ s \in {"OBSERVING", "OPEN", "ACKNOWLEDGED"}
      /\ s = "OPEN" => sSeen[a] + 1 >= AlertThreshold
  <2>1. CASE sJob[j].status = "KEEP"
    BY <1>1, <1>2, <1>3, <2>1, PlatformAssumption DEF SecCounted, SecCounts, SecAlert
  <2>2. CASE sJob[j].status # "KEEP"
    BY <1>1, <1>2, <1>3, <2>2, PlatformAssumption DEF SecCounted
  <2> QED BY <2>1, <2>2
<1>5. sAlert' = [sAlert EXCEPT ![a] = y] BY <1>2, SecTypes DEF Security!CommitEvent
<1> HIDE DEF s
<1>6. y \in SecAlert /\ y.count = n /\ y.status = s BY <1>3, <1>4 DEF SecAlert
<1> HIDE DEF y
<1>7. \A b \in AlertRows : /\ sAlert'[b] = IF b = a THEN y ELSE sAlert[b]
                           /\ sSeen'[b] = IF b = a THEN sSeen[a] + 1 ELSE sSeen[b]
  BY <1>1, <1>5, SecTypes
<1>8. \A k \in Requests : sJob'[k] = IF k = j THEN Security!Idle ELSE sJob[k] BY <1>1, SecTypes
<1>9. Security!TypeOK'
  <2>1. sEvents' \in 0 .. MaxEvents /\ sSeen[a] + 1 \in 0 .. MaxEvents
    BY <1>1, <1>3, PlatformAssumption
  <2>2. sSeen' \in [AlertRows -> 0 .. MaxEvents] BY <1>1, <2>1, SecTypes
  <2>3. sAlert' \in [AlertRows -> SecAlert] BY <1>5, <1>6, SecTypes
  <2>4. sJob' \in [Requests -> SecRecord] BY <1>1, SecIdle, SecTypes
  <2> QED BY <1>1, <2>1, <2>2, <2>3, <2>4 DEF Security!TypeOK, SecAlert, SecRecord
<1>10. SecCounts'
  <2> SUFFICES ASSUME NEW b \in AlertRows
               PROVE  /\ sAlert'[b].count <= sSeen'[b] /\ sSeen'[b] <= sEvents'
                      /\ sAlert'[b].status = "OPEN" => sSeen'[b] >= AlertThreshold
                      /\ sAlert'[b].status = "NONE" => sSeen'[b] = 0
    BY DEF SecCounts
  <2>1. CASE b = a BY <1>1, <1>3, <1>4, <1>6, <1>7, <2>1
  <2>2. CASE b # a
    <3>1. sSeen[b] \in 0 .. MaxEvents /\ sSeen[b] <= sEvents BY SecTypes DEF SecCounts
    <3> QED BY <1>1, <1>3, <1>7, <2>2, <3>1 DEF SecCounts
  <2> QED BY <2>1, <2>2
<1>11. SecJobs'
  <2> SUFFICES ASSUME NEW k \in Requests, k # j PROVE SecCounted(sJob[k])'
    BY <1>8, SecIdle DEF SecJobs, SecCounted
  <2>1. sJob'[k] = sJob[k] /\ SecCounted(sJob[k]) /\ sJob[k] \in SecRecord
    BY <1>8, SecTypes DEF SecJobs
  <2>2. \A b \in AlertRows : sSeen[b] \in Nat BY SecTypes
  <2> QED BY <1>4, <1>6, <1>7, <2>1, <2>2 DEF SecCounted, SecRecord
<1>12. SecCalm'
  <2> SUFFICES ASSUME sCalm PROVE SecCalm' BY <1>1 DEF SecCalm
  <2>1. \A k \in Requests : sJob'[k].op = "idle"
    BY <1>1, <1>8, SecIdle DEF SecCalm
  <2>2. SecAlone(sJob[j]) /\ \A b \in AlertRows : SecExact(b) BY DEF SecCalm
  <2>3. y.count = sSeen[a] + 1 /\ (y.count >= AlertThreshold => y.status # "OBSERVING")
    <3>1. n = sAlert[a].count + 1 /\ sAlert[a].count = sSeen[a] BY <1>1, <1>2, <2>2 DEF SecAlone, SecExact
    <3>2. n >= AlertThreshold => s # "OBSERVING"
      BY <1>1, <1>2, <1>3, <2>2, PlatformAssumption DEF SecAlone, SecCounted, SecRecord, s
    <3> QED BY <1>2, <1>6, <3>1, <3>2
  <2>4. (\A b \in AlertRows : SecExact(b))'
    BY <1>7, <2>2, <2>3 DEF SecExact
  <2>5. \A b \in AlertRows : b \in Security!Live' => b = a
    BY <1>1, <1>7, <2>2 DEF SecAlone, Security!Live
  <2>6. (\A p, q \in Security!Live : p = q)' BY <2>5 DEF Security!Live
  <2> QED BY <2>1, <2>4, <2>6 DEF SecCalm, SecAlone
<1> QED BY <1>9, <1>10, <1>11, <1>12

LEMMA SecCommitAcknowledge ==
  ASSUME SecInv, NEW j \in Requests, Security!CommitAcknowledge(j)
  PROVE  SecInv'
<1> USE DEF SecInv
<1> DEFINE a == sJob[j].alert  y == [sAlert[a] EXCEPT !.status = "ACKNOWLEDGED"]
<1>1. /\ sJob[j].op = "acknowledge" /\ sJob' = [sJob EXCEPT ![j] = Security!Idle]
      /\ UNCHANGED <<sEvents, sSeen, sCalm>>
  BY DEF Security!CommitAcknowledge
<1>2. a \in AlertRows /\ sAlert[a] \in SecAlert /\ sAlert[a].status # "NONE"
  BY <1>1, SecTypes DEF SecJobs, SecCounted
<1>3. sAlert' = [sAlert EXCEPT ![a] = y] BY <1>2, SecTypes DEF Security!CommitAcknowledge
<1>4. y \in SecAlert /\ y.count = sAlert[a].count /\ y.status = "ACKNOWLEDGED" BY <1>2 DEF SecAlert
<1> HIDE DEF y
<1>5. \A b \in AlertRows : sAlert'[b] = IF b = a THEN y ELSE sAlert[b] BY <1>3, SecTypes
<1>6. \A k \in Requests : sJob'[k] = IF k = j THEN Security!Idle ELSE sJob[k] BY <1>1, SecTypes
<1>7. Security!TypeOK'
  <2>1. sAlert' \in [AlertRows -> SecAlert] BY <1>3, <1>4, SecTypes
  <2>2. sJob' \in [Requests -> SecRecord] BY <1>1, SecIdle, SecTypes
  <2> QED BY <1>1, <2>1, <2>2 DEF Security!TypeOK, SecAlert, SecRecord
<1>8. SecCounts' BY <1>1, <1>4, <1>5 DEF SecCounts
<1>9. SecJobs' BY <1>1, <1>4, <1>5, <1>6, SecIdle DEF SecJobs, SecCounted
<1>10. SecCalm'
  <2> SUFFICES ASSUME sCalm PROVE SecCalm' BY <1>1 DEF SecCalm
  <2>1. \A k \in Requests : sJob'[k].op = "idle" BY <1>1, <1>6, SecIdle DEF SecCalm
  <2>2. (\A b \in AlertRows : SecExact(b))' BY <1>1, <1>4, <1>5 DEF SecCalm, SecExact
  <2>3. (\A p, q \in Security!Live : p = q)' BY <1>4, <1>5 DEF SecCalm, Security!Live
  <2> QED BY <2>1, <2>2, <2>3 DEF SecCalm, SecAlone
<1> QED BY <1>7, <1>8, <1>9, <1>10

LEMMA SecAbandon ==
  ASSUME SecInv, NEW j \in Requests, Security!Abandon(j)
  PROVE  SecInv'
<1> USE DEF SecInv
<1>1. sJob' = [sJob EXCEPT ![j] = Security!Idle] /\ UNCHANGED <<sAlert, sEvents, sSeen, sCalm>>
  BY DEF Security!Abandon
<1>2. \A k \in Requests : sJob'[k] = IF k = j THEN Security!Idle ELSE sJob[k] BY <1>1, SecTypes
<1>3. Security!TypeOK' BY <1>1, SecIdle, SecTypes DEF Security!TypeOK, SecRecord
<1>4. SecCounts' BY <1>1 DEF SecCounts
<1>5. SecJobs' BY <1>1, <1>2, SecIdle DEF SecJobs, SecCounted
<1>6. SecCalm' BY <1>1, <1>2, SecIdle DEF SecCalm, SecExact, SecAlone, Security!Live
<1> QED BY <1>3, <1>4, <1>5, <1>6

LEMMA SecStep == SecInv /\ [Security!Next]_(Security!vars) => SecInv'
<1> SUFFICES ASSUME SecInv, [Security!Next]_(Security!vars) PROVE SecInv' OBVIOUS
<1>1. CASE UNCHANGED Security!vars
  BY <1>1 DEF SecInv, Security!vars, Security!TypeOK, SecCounts, SecJobs, SecCounted, SecCalm,
     SecExact, SecAlone, Security!Live
<1> QED BY <1>1, SecReads, SecCommitEvent, SecCommitAcknowledge, SecAbandon DEF Security!Next

LEMMA SecSafe == SecInv => Security!SecuritySafe
<1> SUFFICES ASSUME SecInv PROVE Security!SecuritySafe OBVIOUS
<1>1. Security!OpenHadItsEvents BY DEF SecInv, SecCounts, Security!OpenHadItsEvents
<1>2. ASSUME sCalm PROVE Cardinality(Security!Live) <= 1
  <2>1. \A a, b \in Security!Live : a = b BY <1>2 DEF SecInv, SecCalm
  <2> QED BY <2>1, AtMostOne
<1>3. Security!Cardinality(Security!Live) = Cardinality(Security!Live)
  BY Zenon DEF Security!Cardinality, Cardinality
<1>4. Security!CalmCountsAreExact
  BY <1>2, <1>3 DEF SecInv, SecCalm, SecExact, Security!CalmCountsAreExact
<1> QED BY <1>1, <1>4 DEF SecInv, Security!SecuritySafe

LEMMA SecMoves == [MCNext]_allVars => [Security!Next]_(Security!vars)
<1> SUFFICES ASSUME MCNext PROVE [Security!Next]_(Security!vars)
  BY DEF allVars, SecurityVars, Security!vars
<1>1. CASE focus = "security" BY <1>1 DEF MCNext
<1>2. CASE focus # "security" BY <1>2 DEF MCNext, Keep, SecurityVars, Security!vars
<1> QED BY <1>1, <1>2
----------------------------------------------------------------------------
(* The model gateway.  A call that still holds the circuit of the          *)
(* dictionary was counted among the failures when it took it, so what it   *)
(* writes back is no more than they are.                                   *)

GwCircuit == [count : 0 .. FailureThreshold, opened : {"no", "open", "due"}]
GwRecord ==
  [pc : {"idle", "admit", "calling", "failed", "count"}, route : Seq(Models),
   attempt : 0 .. CallAttempts, held : BOOLEAN, count : 0 .. FailureThreshold]

GwTypes ==
  /\ mCircuit \in [Models -> GwCircuit] /\ mFailures \in [Models -> 0 .. FailureThreshold]
  /\ mCall \in [Requests -> GwRecord]

GwRoutes(x) == x.pc # "idle" => x.route # <<>>
GwBacked(x) ==
  x.held => x.pc = "count" /\ Gateway!Bounded(x.count + 1) <= mFailures[Head(x.route)]
GwCalls == \A c \in Requests : GwRoutes(mCall[c]) /\ GwBacked(mCall[c])

GwInv == GwTypes /\ GwCalls /\ Gateway!OpenMeansFailures /\ Gateway!CountIsBacked

LEMMA GwIdle == Gateway!Idle \in GwRecord /\ Gateway!Idle.pc = "idle" /\ ~Gateway!Idle.held
<1>1. 0 \in 0 .. CallAttempts /\ 0 \in 0 .. FailureThreshold BY PlatformAssumption
<1>2. <<>> \in Seq(Models) OBVIOUS
<1> QED BY <1>1, <1>2 DEF Gateway!Idle, GwRecord

LEMMA GwFresh == Gateway!Fresh \in GwCircuit /\ Gateway!Fresh.count = 0 /\ Gateway!Fresh.opened = "no"
BY PlatformAssumption DEF Gateway!Fresh, GwCircuit

LEMMA GwBounded ==
  ASSUME NEW n \in Nat
  PROVE  /\ Gateway!Bounded(n) \in 0 .. FailureThreshold
         /\ \A k \in Nat : k <= n => Gateway!Bounded(k) <= Gateway!Bounded(n)
         /\ Gateway!Bounded(n) <= n
         /\ n \in 0 .. FailureThreshold => Gateway!Bounded(n) = n /\ n <= Gateway!Bounded(n + 1)
BY PlatformAssumption DEF Gateway!Bounded

LEMMA GwModel ==
  ASSUME GwInv, NEW c \in Requests
  PROVE  /\ mCall[c] \in GwRecord /\ GwRoutes(mCall[c]) /\ GwBacked(mCall[c])
         /\ mCall[c].pc # "idle" =>
              /\ Gateway!Model(c) = Head(mCall[c].route) /\ Gateway!Model(c) \in Models
              /\ mCircuit[Gateway!Model(c)] \in GwCircuit
              /\ mFailures[Gateway!Model(c)] \in 0 .. FailureThreshold
<1>1. mCall[c] \in GwRecord /\ GwRoutes(mCall[c]) /\ GwBacked(mCall[c])
  BY DEF GwInv, GwTypes, GwCalls
<1>2. ASSUME mCall[c].pc # "idle" PROVE Head(mCall[c].route) \in Models
  <2>1. mCall[c].route \in Seq(Models) /\ mCall[c].route # <<>> BY <1>1, <1>2 DEF GwRecord, GwRoutes
  <2> QED BY <2>1
<1>3. Gateway!Model(c) = Head(mCall[c].route) BY DEF Gateway!Model
<1> QED BY <1>1, <1>2, <1>3 DEF GwInv, GwTypes

(* The next model of the route, or the end of the call.                    *)
LEMMA GwNext ==
  ASSUME GwInv, NEW c \in Requests, mCall[c].pc # "idle", Gateway!NextModel(c)
  PROVE  \E x \in GwRecord : mCall' = [mCall EXCEPT ![c] = x] /\ ~x.held /\ GwRoutes(x)
<1> DEFINE s == mCall[c].route
           x == IF Len(s) = 1 THEN Gateway!Idle ELSE [Gateway!Idle EXCEPT !.pc = "admit", !.route = Tail(s)]
<1>1. mCall' = [mCall EXCEPT ![c] = x] BY DEF Gateway!NextModel
<1>2. s \in Seq(Models) /\ s # <<>> BY GwModel DEF GwRecord, GwRoutes
<1>3. Tail(s) \in Seq(Models) /\ (Len(s) # 1 => Tail(s) # <<>>)
  <2>1. Len(s) \in Nat /\ Len(s) # 0 BY <1>2
  <2>2. Tail(s) \in Seq(Models) BY <1>2
  <2>3. Len(Tail(s)) = Len(s) - 1 BY <1>2
  <2>4. Len(<<>>) = 0 OBVIOUS
  <2> HIDE DEF s
  <2>5. Len(s) # 1 => Len(Tail(s)) # 0 BY <2>1, <2>3
  <2> QED BY <2>2, <2>4, <2>5
<1> HIDE DEF s
<1>4. x \in GwRecord /\ ~x.held /\ GwRoutes(x)
  BY <1>3, GwIdle DEF GwRecord, GwRoutes
<1> QED BY <1>1, <1>4

LEMMA GwInit == Gateway!Init => GwInv
<1> SUFFICES ASSUME Gateway!Init PROVE GwInv OBVIOUS
<1>1. GwTypes BY GwIdle, GwFresh, PlatformAssumption DEF Gateway!Init, GwTypes
<1>2. GwCalls BY GwIdle DEF Gateway!Init, GwCalls, GwRoutes, GwBacked
<1>3. Gateway!OpenMeansFailures /\ Gateway!CountIsBacked
  BY GwFresh DEF Gateway!Init, Gateway!OpenMeansFailures, Gateway!CountIsBacked
<1> QED BY <1>1, <1>2, <1>3 DEF GwInv

(* A call that holds no circuit afterwards changes none.                   *)
LEMMA GwGo ==
  ASSUME GwInv, NEW c \in Requests, NEW x \in GwRecord, ~x.held, GwRoutes(x),
         mCall' = [mCall EXCEPT ![c] = x], UNCHANGED <<mCircuit, mFailures>>
  PROVE  GwInv'
<1> USE DEF GwInv
<1>1. \A d \in Requests : mCall'[d] = IF d = c THEN x ELSE mCall[d] BY DEF GwTypes
<1>2. GwTypes' BY DEF GwTypes
<1>3. GwCalls' BY <1>1 DEF GwCalls, GwRoutes, GwBacked
<1>4. Gateway!OpenMeansFailures' /\ Gateway!CountIsBacked'
  BY DEF Gateway!OpenMeansFailures, Gateway!CountIsBacked
<1> QED BY <1>2, <1>3, <1>4

(* A fresh circuit takes the place of one that calls may still hold.       *)
LEMMA GwReplace ==
  ASSUME GwInv, NEW c \in Requests, NEW m \in Models, NEW x \in GwRecord, ~x.held, GwRoutes(x),
         mCall' = [Gateway!Detached(m) EXCEPT ![c] = x],
         mCircuit' = [mCircuit EXCEPT ![m] = Gateway!Fresh], mFailures' = [mFailures EXCEPT ![m] = 0]
  PROVE  GwInv'
<1> USE DEF GwInv
<1>1. \A p \in Models : /\ mCircuit'[p] = IF p = m THEN Gateway!Fresh ELSE mCircuit[p]
                        /\ mFailures'[p] = IF p = m THEN 0 ELSE mFailures[p]
  BY DEF GwTypes
<1>2. ASSUME NEW d \in Requests
      PROVE  /\ Gateway!Detached(m)[d] \in GwRecord /\ GwRoutes(Gateway!Detached(m)[d])
             /\ Gateway!Detached(m)[d].held =>
                  Gateway!Detached(m)[d] = mCall[d] /\ Head(mCall[d].route) # m
  <2> DEFINE y == [mCall[d] EXCEPT !.held = FALSE]
  <2>1. mCall[d] \in GwRecord /\ GwRoutes(mCall[d]) BY GwModel
  <2>2. y \in GwRecord /\ ~y.held /\ y.pc = mCall[d].pc /\ y.route = mCall[d].route
    BY <2>1 DEF GwRecord
  <2>3. Gateway!Detached(m)[d] = IF mCall[d].held /\ Head(mCall[d].route) = m THEN y ELSE mCall[d]
    BY DEF Gateway!Detached, Gateway!Model
  <2> HIDE DEF y
  <2> QED BY <2>1, <2>2, <2>3 DEF GwRoutes
<1>3. DOMAIN Gateway!Detached(m) = Requests
      /\ Gateway!Detached(m) = [d \in Requests |-> Gateway!Detached(m)[d]]
  BY DEF Gateway!Detached
<1>4. \A d \in Requests : mCall'[d] = IF d = c THEN x ELSE Gateway!Detached(m)[d] BY <1>3
<1>5. mCall' = [d \in Requests |-> IF d = c THEN x ELSE Gateway!Detached(m)[d]] BY <1>3
<1>6. GwTypes'
  <2>1. mCall' \in [Requests -> GwRecord] BY <1>2, <1>5
  <2> QED BY <2>1, GwFresh, PlatformAssumption DEF GwTypes
<1>7. GwCalls'
  <2> SUFFICES ASSUME NEW d \in Requests, d # c PROVE (GwRoutes(mCall[d]) /\ GwBacked(mCall[d]))'
    BY <1>4 DEF GwCalls, GwRoutes, GwBacked
  <2>1. mCall'[d] = Gateway!Detached(m)[d] BY <1>4
  <2>2. GwRoutes(mCall[d])' BY <1>2, <2>1 DEF GwRoutes
  <2>3. GwBacked(mCall[d])'
    <3> SUFFICES ASSUME mCall'[d].held PROVE GwBacked(mCall[d])' BY DEF GwBacked
    <3>1. mCall'[d] = mCall[d] /\ Head(mCall[d].route) # m BY <1>2, <2>1
    <3>2. mCall[d].pc # "idle" /\ GwBacked(mCall[d]) BY <3>1, GwModel DEF GwBacked
    <3>3. Head(mCall[d].route) \in Models BY <3>2, GwModel
    <3> QED BY <1>1, <3>1, <3>2, <3>3 DEF GwBacked
  <2> QED BY <2>2, <2>3
<1>8. Gateway!OpenMeansFailures' /\ Gateway!CountIsBacked'
  BY <1>1, GwFresh DEF Gateway!OpenMeansFailures, Gateway!CountIsBacked
<1> QED BY <1>6, <1>7, <1>8

LEMMA GwStart ==
  ASSUME GwInv, NEW c \in Requests, NEW route \in Routes, Gateway!Start(c, route)
  PROVE  GwInv'
<1> DEFINE x == [Gateway!Idle EXCEPT !.pc = "admit", !.route = route]
<1>1. route \in Seq(Models) /\ route # <<>> BY PlatformAssumption
<1>2. mCall' = [mCall EXCEPT ![c] = x] /\ UNCHANGED <<mCircuit, mFailures>> BY DEF Gateway!Start
<1>3. x \in GwRecord /\ ~x.held /\ GwRoutes(x) BY <1>1, GwIdle DEF GwRecord, GwRoutes
<1> HIDE DEF x
<1> QED BY <1>2, <1>3, GwGo

LEMMA GwDeny ==
  ASSUME GwInv, NEW c \in Requests, Gateway!Deny(c)
  PROVE  GwInv'
<1>1. mCall[c].pc # "idle" /\ Gateway!NextModel(c) /\ UNCHANGED <<mCircuit, mFailures>>
  BY DEF Gateway!Deny
<1>2. PICK x \in GwRecord : mCall' = [mCall EXCEPT ![c] = x] /\ ~x.held /\ GwRoutes(x) BY <1>1, GwNext
<1> QED BY <1>1, <1>2, GwGo

LEMMA GwAdmit ==
  ASSUME GwInv, NEW c \in Requests, Gateway!Admit(c)
  PROVE  GwInv'
<1> DEFINE m == Gateway!Model(c)  x == [mCall[c] EXCEPT !.pc = "calling", !.attempt = 1]
<1>1. mCall[c].pc = "admit" BY DEF Gateway!Admit
<1>2. /\ mCall[c] \in GwRecord /\ GwRoutes(mCall[c]) /\ ~mCall[c].held /\ m \in Models
      /\ Head(mCall[c].route) = m
  BY <1>1, GwModel DEF GwBacked, GwRecord
<1>3. 1 \in 0 .. CallAttempts BY PlatformAssumption
<1>4. x \in GwRecord /\ ~x.held /\ GwRoutes(x) BY <1>1, <1>2, <1>3 DEF GwRecord, GwRoutes
<1>5. CASE mCircuit[m].opened = "due"
  <2>1. Gateway!Detached(m)[c] = mCall[c] /\ DOMAIN Gateway!Detached(m) = Requests
    BY <1>2 DEF Gateway!Detached
  <2>2. /\ mCall' = [Gateway!Detached(m) EXCEPT ![c].pc = "calling", ![c].attempt = 1]
        /\ mCircuit' = [mCircuit EXCEPT ![m] = Gateway!Fresh]
        /\ mFailures' = [mFailures EXCEPT ![m] = 0]
    BY <1>5 DEF Gateway!Admit
  <2>3. mCall' = [Gateway!Detached(m) EXCEPT ![c] = x]
    <3> DEFINE D == Gateway!Detached(m)
    <3>1. D[c] = mCall[c] /\ c \in DOMAIN D BY <2>1
    <3>2. mCall' = [D EXCEPT ![c].pc = "calling", ![c].attempt = 1] BY <2>2
    <3> HIDE DEF D
    <3>3. mCall' = [D EXCEPT ![c] = x] BY <3>1, <3>2
    <3> QED BY <3>3 DEF D
  <2> HIDE DEF x, m
  <2> QED BY <1>2, <1>4, <2>2, <2>3, GwReplace
<1>6. CASE mCircuit[m].opened # "due"
  <2>1. mCall' = [mCall EXCEPT ![c] = x] /\ UNCHANGED <<mCircuit, mFailures>>
    BY <1>6 DEF Gateway!Admit, GwInv, GwTypes
  <2> HIDE DEF x, m
  <2> QED BY <1>4, <2>1, GwGo
<1> QED BY <1>5, <1>6

LEMMA GwSucceed ==
  ASSUME GwInv, NEW c \in Requests, Gateway!Succeed(c)
  PROVE  GwInv'
<1> DEFINE m == Gateway!Model(c)  x == Gateway!Idle
<1>1. /\ mCall[c].pc = "calling" /\ mCircuit' = [mCircuit EXCEPT ![m] = Gateway!Fresh]
      /\ mFailures' = [mFailures EXCEPT ![m] = 0] /\ mCall' = [Gateway!Detached(m) EXCEPT ![c] = x]
  BY DEF Gateway!Succeed
<1>2. m \in Models BY <1>1, GwModel
<1>3. x \in GwRecord /\ ~x.held /\ GwRoutes(x) BY GwIdle DEF GwRoutes
<1> HIDE DEF m, x
<1> QED BY <1>1, <1>2, <1>3, GwReplace

LEMMA GwTries ==
  ASSUME GwInv, NEW c \in Requests, Gateway!Retry(c) \/ Gateway!GiveUp(c)
  PROVE  GwInv'
<1>1. mCall[c].pc = "calling" /\ UNCHANGED <<mCircuit, mFailures>> BY DEF Gateway!Retry, Gateway!GiveUp
<1>2. mCall[c] \in GwRecord /\ GwRoutes(mCall[c]) /\ ~mCall[c].held
  BY <1>1, GwModel DEF GwBacked, GwRecord
<1>3. CASE Gateway!Retry(c)
  <2> DEFINE x == [mCall[c] EXCEPT !.attempt = @ + 1]
  <2>1. mCall' = [mCall EXCEPT ![c] = x] /\ mCall[c].attempt < CallAttempts
    BY <1>3 DEF Gateway!Retry, GwInv, GwTypes
  <2>2. mCall[c].attempt + 1 \in 0 .. CallAttempts BY <1>2, <2>1, PlatformAssumption DEF GwRecord
  <2>3. x \in GwRecord /\ ~x.held /\ GwRoutes(x) BY <1>2, <2>2 DEF GwRecord, GwRoutes
  <2> HIDE DEF x
  <2> QED BY <1>1, <2>1, <2>3, GwGo
<1>4. CASE Gateway!GiveUp(c)
  <2> DEFINE x == [mCall[c] EXCEPT !.pc = "failed"]
  <2>1. mCall' = [mCall EXCEPT ![c] = x] BY <1>4 DEF Gateway!GiveUp, GwInv, GwTypes
  <2>2. x \in GwRecord /\ ~x.held /\ GwRoutes(x) BY <1>1, <1>2 DEF GwRecord, GwRoutes
  <2> HIDE DEF x
  <2> QED BY <1>1, <2>1, <2>2, GwGo
<1> QED BY <1>3, <1>4

LEMMA GwTake ==
  ASSUME GwInv, NEW c \in Requests, Gateway!TakeCircuit(c)
  PROVE  GwInv'
<1> USE DEF GwInv
<1> DEFINE m == Gateway!Model(c)  f == Gateway!Bounded(mFailures[m] + 1)
           x == [mCall[c] EXCEPT !.pc = "count", !.held = TRUE, !.count = mCircuit[m].count]
<1>1. mCall[c].pc = "failed" /\ UNCHANGED mCircuit /\ mFailures' = [mFailures EXCEPT ![m] = f]
  BY GwModel DEF Gateway!TakeCircuit, GwTypes
<1>2. mCall' = [mCall EXCEPT ![c] = x] BY DEF Gateway!TakeCircuit, GwTypes
<1>3. /\ mCall[c] \in GwRecord /\ GwRoutes(mCall[c]) /\ m \in Models /\ m = Head(mCall[c].route)
      /\ mCircuit[m].count \in 0 .. FailureThreshold /\ mCircuit[m].count <= mFailures[m]
      /\ mFailures[m] \in 0 .. FailureThreshold
  BY <1>1, GwModel DEF GwCircuit, Gateway!CountIsBacked
<1>4. /\ f \in 0 .. FailureThreshold /\ mFailures[m] <= f
      /\ Gateway!Bounded(mCircuit[m].count + 1) <= f
  <2>1. /\ mFailures[m] + 1 \in Nat /\ mFailures[m] \in Nat /\ mCircuit[m].count + 1 \in Nat
        /\ mCircuit[m].count + 1 <= mFailures[m] + 1
    BY <1>3, PlatformAssumption
  <2> QED BY <1>3, <2>1, GwBounded
<1>5. /\ x \in GwRecord /\ x.pc = "count" /\ x.route = mCall[c].route /\ x.count = mCircuit[m].count
      /\ x.held
  BY <1>3 DEF GwRecord
<1> HIDE DEF x, f, m
<1>6. \A d \in Requests : mCall'[d] = IF d = c THEN x ELSE mCall[d] BY <1>2 DEF GwTypes
<1>7. \A p \in Models : mFailures'[p] = IF p = m THEN f ELSE mFailures[p] BY <1>1 DEF GwTypes
<1>8. GwTypes' BY <1>1, <1>2, <1>4, <1>5 DEF GwTypes
<1>9. \A p \in Models : /\ mFailures[p] \in 0 .. FailureThreshold /\ mFailures'[p] \in 0 .. FailureThreshold
                        /\ mFailures[p] <= mFailures'[p]
  BY <1>3, <1>4, <1>7, PlatformAssumption DEF GwTypes
<1>10. GwCalls'
  <2> SUFFICES ASSUME NEW d \in Requests PROVE (GwRoutes(mCall[d]) /\ GwBacked(mCall[d]))'
    BY DEF GwCalls
  <2>1. CASE d = c
    <3>1. mCall'[d] = x /\ Head(x.route) = m /\ x.route # <<>>
      BY <1>1, <1>3, <1>5, <1>6, <2>1 DEF GwRoutes
    <3>2. Gateway!Bounded(x.count + 1) <= mFailures'[m] BY <1>3, <1>4, <1>5, <1>7
    <3> QED BY <1>5, <3>1, <3>2 DEF GwRoutes, GwBacked
  <2>2. CASE d # c
    <3>1. mCall'[d] = mCall[d] /\ GwRoutes(mCall[d]) /\ GwBacked(mCall[d]) BY <1>6, <2>2, GwModel
    <3>2. GwRoutes(mCall[d])' BY <3>1 DEF GwRoutes
    <3>3. GwBacked(mCall[d])'
      <4> SUFFICES ASSUME mCall[d].held PROVE GwBacked(mCall[d])' BY <3>1 DEF GwBacked
      <4> DEFINE p == Head(mCall[d].route)  n == Gateway!Bounded(mCall[d].count + 1)
      <4>1. mCall[d].pc = "count" /\ n <= mFailures[p] BY <3>1 DEF GwBacked
      <4>2. p \in Models /\ mCall[d].count + 1 \in Nat
        BY <4>1, GwModel, PlatformAssumption DEF GwRecord
      <4>3. n \in 0 .. FailureThreshold BY <4>2, GwBounded
      <4> HIDE DEF p, n
      <4>4. n <= mFailures'[p] BY <1>9, <4>1, <4>2, <4>3, PlatformAssumption
      <4> QED BY <3>1, <4>1, <4>4 DEF GwBacked, p, n
    <3> QED BY <3>2, <3>3
  <2> QED BY <2>1, <2>2
<1>11. Gateway!CountIsBacked'
  <2>1. \A p \in Models : mCircuit[p].count \in 0 .. FailureThreshold BY DEF GwTypes, GwCircuit
  <2> QED BY <1>1, <1>9, <2>1, PlatformAssumption DEF Gateway!CountIsBacked
<1>12. Gateway!OpenMeansFailures'
  BY <1>1, <1>9, PlatformAssumption DEF Gateway!OpenMeansFailures
<1> QED BY <1>8, <1>10, <1>11, <1>12

LEMMA GwCount ==
  ASSUME GwInv, NEW c \in Requests, Gateway!CountFailure(c)
  PROVE  GwInv'
<1> USE DEF GwInv
<1> DEFINE m == Gateway!Model(c)  n == Gateway!Bounded(mCall[c].count + 1)
           y == [count |-> n, opened |-> IF n >= FailureThreshold THEN "open" ELSE mCircuit[m].opened]
<1>1. mCall[c].pc = "count" /\ Gateway!NextModel(c) /\ UNCHANGED mFailures BY DEF Gateway!CountFailure
<1>2. /\ mCall[c] \in GwRecord /\ m = Head(mCall[c].route) /\ m \in Models /\ GwBacked(mCall[c])
      /\ mCircuit[m] \in GwCircuit /\ mFailures[m] \in 0 .. FailureThreshold
  BY <1>1, GwModel
<1>3. PICK x \in GwRecord : mCall' = [mCall EXCEPT ![c] = x] /\ ~x.held /\ GwRoutes(x) BY <1>1, GwNext
<1>4. CASE ~mCall[c].held
  <2>1. UNCHANGED mCircuit BY <1>4 DEF Gateway!CountFailure
  <2> QED BY <1>1, <1>3, <2>1, GwGo
<1>5. CASE mCall[c].held
  <2>1. mCircuit' = [mCircuit EXCEPT ![m] = y] BY <1>2, <1>5 DEF Gateway!CountFailure, GwTypes
  <2>2. n \in 0 .. FailureThreshold
    <3>1. mCall[c].count + 1 \in Nat BY <1>2, PlatformAssumption DEF GwRecord
    <3> QED BY <3>1, GwBounded
  <2>3. n <= mFailures[m] BY <1>2, <1>5 DEF GwBacked
  <2> HIDE DEF n, m
  <2>4. y \in GwCircuit BY <1>2, <2>2 DEF GwCircuit
  <2>5. y.count = n /\ (y.opened # "no" => n >= FailureThreshold \/ mCircuit[m].opened # "no") OBVIOUS
  <2> HIDE DEF y
  <2>6. \A p \in Models : mCircuit'[p] = IF p = m THEN y ELSE mCircuit[p] BY <2>1 DEF GwTypes
  <2>7. \A d \in Requests : mCall'[d] = IF d = c THEN x ELSE mCall[d] BY <1>3 DEF GwTypes
  <2>8. GwTypes' BY <1>1, <1>3, <2>1, <2>4 DEF GwTypes
  <2>9. GwCalls' BY <1>1, <1>3, <2>7 DEF GwCalls, GwRoutes, GwBacked
  <2>10. Gateway!CountIsBacked' BY <1>1, <2>3, <2>5, <2>6 DEF Gateway!CountIsBacked
  <2>11. Gateway!OpenMeansFailures'
    BY <1>1, <1>2, <2>2, <2>3, <2>5, <2>6, PlatformAssumption DEF Gateway!OpenMeansFailures
  <2> QED BY <2>8, <2>9, <2>10, <2>11
<1> QED BY <1>4, <1>5

LEMMA GwRecover ==
  ASSUME GwInv, NEW m \in Models, Gateway!Recover(m)
  PROVE  GwInv'
<1> USE DEF GwInv
<1> DEFINE y == [mCircuit[m] EXCEPT !.opened = "due"]
<1>1. /\ mCircuit[m].opened = "open" /\ mCircuit' = [mCircuit EXCEPT ![m] = y]
      /\ UNCHANGED <<mFailures, mCall>>
  BY DEF Gateway!Recover, GwTypes
<1>2. y \in GwCircuit /\ y.count = mCircuit[m].count BY DEF GwTypes, GwCircuit
<1> HIDE DEF y
<1>3. \A p \in Models : mCircuit'[p] = IF p = m THEN y ELSE mCircuit[p] BY <1>1 DEF GwTypes
<1>4. GwTypes' BY <1>1, <1>2 DEF GwTypes
<1>5. GwCalls' BY <1>1 DEF GwCalls, GwRoutes, GwBacked
<1>6. Gateway!CountIsBacked' BY <1>1, <1>2, <1>3 DEF Gateway!CountIsBacked
<1>7. Gateway!OpenMeansFailures' BY <1>1, <1>3 DEF Gateway!OpenMeansFailures
<1> QED BY <1>4, <1>5, <1>6, <1>7

LEMMA GwStep == GwInv /\ [Gateway!Next]_(Gateway!vars) => GwInv'
<1> SUFFICES ASSUME GwInv, [Gateway!Next]_(Gateway!vars) PROVE GwInv' OBVIOUS
<1>1. CASE UNCHANGED Gateway!vars
  BY <1>1 DEF GwInv, Gateway!vars, GwTypes, GwCalls, GwRoutes, GwBacked, Gateway!CountIsBacked,
     Gateway!OpenMeansFailures
<1> QED BY <1>1, GwStart, GwDeny, GwAdmit, GwSucceed, GwTries, GwTake, GwCount, GwRecover
       DEF Gateway!Next

LEMMA GwSafe == GwInv => Gateway!GatewaySafe
BY DEF GwInv, GwTypes, GwCalls, GwRoutes, GwRecord, GwCircuit, Gateway!GatewaySafe, Gateway!TypeOK

LEMMA GwMoves == [MCNext]_allVars => [Gateway!Next]_(Gateway!vars)
<1> SUFFICES ASSUME MCNext PROVE [Gateway!Next]_(Gateway!vars)
  BY DEF allVars, GatewayVars, Gateway!vars
<1>1. CASE focus = "gateway" BY <1>1 DEF MCNext
<1>2. CASE focus # "gateway" BY <1>2 DEF MCNext, Keep, GatewayVars, Gateway!vars
<1> QED BY <1>1, <1>2
----------------------------------------------------------------------------
(* Procedures and skills.  What is approved or was ever rolled out is      *)
(* approved, a procedure with its tests and a skill with its procedure;    *)
(* a request that is alone leaves enabled what it leaves ACTIVE.           *)

ProRecord ==
  [op : {"idle", "status", "approve"}, plan : [Procs!Rows -> Procs!Status \cup {"KEEP"}],
   on : SUBSET Skills, off : SUBSET Skills]

(* What an approved definition stands on.                                  *)
ProBacked(r) ==
  /\ r \in Procedures => r \in pTested
  /\ r \in Skills => ProcedureOf[r] \in pApproved

ProRows ==
  \A r \in Procs!Rows :
    /\ r \in pApproved => ProBacked(r) /\ pStatus[r] # "NONE"
    /\ pStatus[r] \in {"APPROVED"} \cup Procs!Rollout => r \in pApproved

ProPlanned(x) ==
  \A r \in Procs!Rows :
    /\ x.plan[r] # "NONE"
    /\ x.plan[r] # "KEEP" => pStatus[r] # "NONE"
    /\ x.plan[r] \in Procs!Rollout => r \in pApproved
    /\ x.plan[r] = "APPROVED" => x.op = "approve" /\ ProBacked(r)

ProJobs == \A j \in Requests : pJob[j].op # "idle" => ProPlanned(pJob[j])

(* The skills a request that is alone leaves enabled and leaves ACTIVE.    *)
ProAlone(x) ==
  \A s \in Skills :
    /\ (s \in (pEnabled \ x.off) \cup x.on) <=>
         (x.plan[s] = "ACTIVE" \/ (x.plan[s] = "KEEP" /\ pStatus[s] = "ACTIVE"))
    /\ x.plan[s] = "ACTIVE" => pStatus[ProcedureOf[s]] = "ACTIVE"

ProCalm ==
  pCalm =>
    /\ \A s \in Skills : s \in pEnabled <=> pStatus[s] = "ACTIVE"
    /\ \A i, j \in Requests : pJob[i].op # "idle" /\ pJob[j].op # "idle" => i = j
    /\ \A j \in Requests : pJob[j].op # "idle" => ProAlone(pJob[j])

ProInv == Procs!TypeOK /\ ProRows /\ ProJobs /\ ProCalm

LEMMA ProTypes ==
  ASSUME ProInv
  PROVE  /\ pStatus \in [Procs!Rows -> Procs!Status] /\ pJob \in [Requests -> ProRecord]
         /\ pApproved \subseteq Procs!Rows /\ pTested \subseteq Procedures /\ pEnabled \subseteq Skills
         /\ pCalm \in BOOLEAN
BY DEF ProInv, Procs!TypeOK, ProRecord

(* A skill is no procedure, and runs one.                                  *)
LEMMA ProKinds ==
  /\ \A p \in Procedures : p \in Procs!Rows /\ p \notin Skills /\ RollbackTo[p] \in Procedures
  /\ \A s \in Skills : /\ s \in Procs!Rows /\ s \notin Procedures /\ RollbackTo[s] \in Skills
                       /\ ProcedureOf[s] \in Procedures /\ ProcedureOf[s] \in Procs!Rows
  /\ \A r \in Procs!Rows : r \in Procedures \/ r \in Skills
BY ProceduresAssumption DEF Procs!Rows

LEMMA ProNoJob == Procs!NoJob \in ProRecord /\ Procs!NoJob.op = "idle"
<1>1. Procs!NoPlan(Procs!Rows) \in [Procs!Rows -> Procs!Status \cup {"KEEP"}] BY DEF Procs!NoPlan
<1> QED BY <1>1 DEF Procs!NoJob, ProRecord

LEMMA ProInit == Procs!Init => ProInv
<1> SUFFICES ASSUME Procs!Init PROVE ProInv OBVIOUS
<1>1. Procs!TypeOK BY ProNoJob DEF Procs!Init, Procs!TypeOK, ProRecord, Procs!Status
<1>2. ProRows BY DEF Procs!Init, ProRows, Procs!Rollout
<1>3. ProJobs BY ProNoJob DEF Procs!Init, ProJobs
<1>4. ProCalm BY ProNoJob, ProKinds DEF Procs!Init, ProCalm
<1> QED BY <1>1, <1>2, <1>3, <1>4 DEF ProInv

(* A request loads and plans.                                              *)
LEMMA ProPlan ==
  ASSUME ProInv, NEW j \in Requests, NEW op \in {"status", "approve"},
         NEW plan \in [Procs!Rows -> Procs!Status \cup {"KEEP"}],
         NEW on \in SUBSET Skills, NEW off \in SUBSET Skills,
         Procs!Plan(j, op, plan, on, off),
         NEW x, x = [op |-> op, plan |-> plan, on |-> on \ pEnabled, off |-> off \cap pEnabled],
         ProPlanned(x), pCalm => ProAlone(x)
  PROVE  ProInv'
<1> USE DEF ProInv
<1>1. /\ pJob' = [pJob EXCEPT ![j] = x] /\ UNCHANGED <<pStatus, pApproved, pTested, pEnabled>>
      /\ pCalm' = (pCalm /\ \A k \in DOMAIN pJob : k # j => pJob[k].op = "idle")
  BY DEF Procs!Plan, Procs!Alone
<1>2. x \in ProRecord /\ x.op # "idle"
  <2>1. on \ pEnabled \in SUBSET Skills /\ off \cap pEnabled \in SUBSET Skills OBVIOUS
  <2> QED BY <2>1 DEF ProRecord
<1>3. Procs!TypeOK' BY <1>1, <1>2, ProTypes DEF Procs!TypeOK, ProRecord
<1>4. \A k \in Requests : pJob'[k] = IF k = j THEN x ELSE pJob[k] BY <1>1, ProTypes
<1>5. ProRows' BY <1>1 DEF ProRows, ProBacked
<1>6. ProJobs' BY <1>1, <1>4 DEF ProJobs, ProPlanned, ProBacked
<1>7. ProCalm'
  <2> SUFFICES ASSUME pCalm' PROVE ProCalm' BY DEF ProCalm
  <2>1. pCalm /\ \A k \in Requests : k # j => pJob[k].op = "idle" BY <1>1, ProTypes
  <2> QED BY <1>1, <1>4, <2>1 DEF ProCalm, ProAlone
<1> QED BY <1>3, <1>5, <1>6, <1>7

(* A plan for one definition.                                              *)
LEMMA ProOne ==
  ASSUME ProInv, NEW j \in Requests, NEW op \in {"status", "approve"},
         NEW r \in Procs!Rows, NEW b \in Procs!Status \ {"NONE"},
         NEW on \in SUBSET Skills, NEW off \in SUBSET Skills,
         Procs!Plan(j, op, Procs!Writes(pStatus, {}, "", {r}, b), on, off),
         pStatus[r] # "NONE", b \in Procs!Rollout => r \in pApproved,
         b = "APPROVED" => op = "approve" /\ ProBacked(r),
         b = "ACTIVE" => off = {} /\ on = {r} \cap Skills,
         b = "ACTIVE" /\ r \in Skills => pStatus[ProcedureOf[r]] = "ACTIVE",
         b # "ACTIVE" => on = {} /\ off \subseteq {r} /\ (r \in Skills => r \in off \/ pStatus[r] # "ACTIVE")
  PROVE  ProInv'
<1> DEFINE plan == Procs!Writes(pStatus, {}, "", {r}, b)
           x == [op |-> op, plan |-> plan, on |-> on \ pEnabled, off |-> off \cap pEnabled]
<1>1. plan = [q \in Procs!Rows |-> IF q = r /\ pStatus[r] # b THEN b ELSE "KEEP"]
  BY ProTypes DEF Procs!Writes
<1>2. plan \in [Procs!Rows -> Procs!Status \cup {"KEEP"}] BY <1>1
<1>3. \A q \in Procs!Rows : plan[q] = IF q = r /\ pStatus[r] # b THEN b ELSE "KEEP" BY <1>1
<1>4. Procs!Plan(j, op, plan, on, off) OBVIOUS
<1> HIDE DEF plan
<1>5. x.op = op /\ x.plan = plan /\ x.on = on \ pEnabled /\ x.off = off \cap pEnabled OBVIOUS
<1>6. b # "NONE" /\ b # "KEEP" BY DEF Procs!Status, Procs!Rollout
<1>7. ProPlanned(x) BY <1>3, <1>5, <1>6 DEF ProPlanned, Procs!Rollout
<1>8. pCalm => ProAlone(x)
  <2> SUFFICES ASSUME pCalm, NEW s \in Skills
               PROVE  /\ (s \in (pEnabled \ (off \cap pEnabled)) \cup (on \ pEnabled)) <=>
                           (plan[s] = "ACTIVE" \/ (plan[s] = "KEEP" /\ pStatus[s] = "ACTIVE"))
                      /\ plan[s] = "ACTIVE" => pStatus[ProcedureOf[s]] = "ACTIVE"
    BY <1>5 DEF ProAlone
  <2>1. (s \in pEnabled <=> pStatus[s] = "ACTIVE") /\ s \in Procs!Rows
    BY ProKinds DEF ProInv, ProCalm
  <2>2. plan[s] = IF s = r /\ pStatus[r] # b THEN b ELSE "KEEP" BY <1>3, <2>1
  <2>3. CASE b = "ACTIVE" BY <2>1, <2>2, <2>3
  <2>4. CASE b # "ACTIVE" BY <1>6, <2>1, <2>2, <2>4
  <2> QED BY <2>3, <2>4
<1> HIDE DEF x
<1>9. x = [op |-> op, plan |-> plan, on |-> on \ pEnabled, off |-> off \cap pEnabled] BY DEF x
<1> QED BY <1>2, <1>4, <1>7, <1>8, <1>9, ProPlan

(* A plan that replaces c by t, for two procedures or two skills.          *)
LEMMA ProBack ==
  ASSUME ProInv, NEW j \in Requests, NEW c \in Procs!Rows, NEW t \in Procs!Rows, c # t,
         NEW on \in SUBSET Skills, NEW off \in SUBSET Skills,
         Procs!Plan(j, "status", Procs!Writes(pStatus, {c}, "DEPRECATED", {t}, "ACTIVE"), on, off),
         pStatus[c] # "NONE", pStatus[t] # "NONE", t \in pApproved,
         off = {c} \cap Skills, on = {t} \cap Skills,
         t \in Skills => pStatus[ProcedureOf[t]] = "ACTIVE"
  PROVE  ProInv'
<1> DEFINE plan == Procs!Writes(pStatus, {c}, "DEPRECATED", {t}, "ACTIVE")
           x == [op |-> "status", plan |-> plan, on |-> on \ pEnabled, off |-> off \cap pEnabled]
<1>1. plan = [q \in Procs!Rows |-> IF q = t /\ pStatus[t] # "ACTIVE" THEN "ACTIVE"
                                   ELSE IF q = c /\ pStatus[c] # "DEPRECATED" THEN "DEPRECATED" ELSE "KEEP"]
  BY ProTypes DEF Procs!Writes
<1>2. plan \in [Procs!Rows -> Procs!Status \cup {"KEEP"}] BY <1>1 DEF Procs!Status, Procs!Rollout
<1>3. \A q \in Procs!Rows : plan[q] = IF q = t /\ pStatus[t] # "ACTIVE" THEN "ACTIVE"
                                   ELSE IF q = c /\ pStatus[c] # "DEPRECATED" THEN "DEPRECATED" ELSE "KEEP"
  BY <1>1
<1>4. Procs!Plan(j, "status", plan, on, off) OBVIOUS
<1> HIDE DEF plan
<1>5. x.op = "status" /\ x.plan = plan /\ x.on = on \ pEnabled /\ x.off = off \cap pEnabled OBVIOUS
<1>6. ProPlanned(x) BY <1>3, <1>5 DEF ProPlanned, Procs!Rollout
<1>7. pCalm => ProAlone(x)
  <2> SUFFICES ASSUME pCalm, NEW s \in Skills
               PROVE  /\ (s \in (pEnabled \ (off \cap pEnabled)) \cup (on \ pEnabled)) <=>
                           (plan[s] = "ACTIVE" \/ (plan[s] = "KEEP" /\ pStatus[s] = "ACTIVE"))
                      /\ plan[s] = "ACTIVE" => pStatus[ProcedureOf[s]] = "ACTIVE"
    BY <1>5 DEF ProAlone
  <2>1. (s \in pEnabled <=> pStatus[s] = "ACTIVE") /\ s \in Procs!Rows
    BY ProKinds DEF ProInv, ProCalm
  <2> QED BY <1>3, <2>1
<1> HIDE DEF x
<1>8. x = [op |-> "status", plan |-> plan, on |-> on \ pEnabled, off |-> off \cap pEnabled] BY DEF x
<1> QED BY <1>2, <1>4, <1>6, <1>7, <1>8, ProPlan

LEMMA ProReviews ==
  ASSUME ProInv, NEW j \in Requests,
         \/ \E r \in Procs!Rows : Procs!SubmitReview(j, r)
         \/ \E p \in Procedures : Procs!ApproveProcedure(j, p) \/ Procs!Deprecate(j, p)
         \/ \E s \in Skills : Procs!ApproveSkill(j, s) \/ Procs!Disable(j, s)
  PROVE  ProInv'
<1>0. {} \in SUBSET Skills /\ {} \in SUBSET Procs!Rows OBVIOUS
<1>1. ASSUME NEW r \in Procs!Rows, Procs!SubmitReview(j, r) PROVE ProInv'
  <2>1. /\ pStatus[r] \in {"DRAFT", "CANDIDATE"} /\ r \in Procs!Rows
        /\ Procs!Plan(j, "status", Procs!Writes(pStatus, {}, "", {r}, "REVIEWING"), {}, {})
    BY <1>1 DEF Procs!SubmitReview, Procs!To
  <2>2. "REVIEWING" \in Procs!Status \ {"NONE"} /\ "REVIEWING" \notin Procs!Rollout
    BY DEF Procs!Status, Procs!Rollout
  <2> QED BY <1>0, <2>1, <2>2, ProOne
<1>2. ASSUME NEW p \in Procedures, Procs!ApproveProcedure(j, p) PROVE ProInv'
  <2>1. /\ pStatus[p] = "REVIEWING" /\ p \in pTested /\ p \in Procs!Rows /\ p \notin Skills
        /\ Procs!Plan(j, "approve", Procs!Writes(pStatus, {}, "", {p}, "APPROVED"), {}, {})
    BY <1>2, ProKinds DEF Procs!ApproveProcedure
  <2>2. "APPROVED" \in Procs!Status \ {"NONE"} /\ "APPROVED" \notin Procs!Rollout
    BY DEF Procs!Status, Procs!Rollout
  <2>3. ProBacked(p) BY <2>1 DEF ProBacked
  <2> QED BY <1>0, <2>1, <2>2, <2>3, ProOne
<1>3. ASSUME NEW p \in Procedures, Procs!Deprecate(j, p) PROVE ProInv'
  <2>1. /\ pStatus[p] \in Procs!Rollout /\ p \in Procs!Rows /\ p \notin Skills
        /\ Procs!Plan(j, "status", Procs!Writes(pStatus, {}, "", {p}, "DEPRECATED"), {}, {})
    BY <1>3, ProKinds DEF Procs!Deprecate, Procs!To
  <2>2. /\ "DEPRECATED" \in Procs!Status \ {"NONE"} /\ "DEPRECATED" \notin Procs!Rollout
        /\ pStatus[p] # "NONE"
    BY <2>1 DEF Procs!Status, Procs!Rollout
  <2> QED BY <1>0, <2>1, <2>2, ProOne
<1>4. ASSUME NEW s \in Skills, Procs!ApproveSkill(j, s) PROVE ProInv'
  <2>1. /\ pStatus[s] = "REVIEWING" /\ s \in Procs!Rows /\ s \notin Procedures
        /\ pStatus[ProcedureOf[s]] \in {"APPROVED"} \cup Procs!Rollout
        /\ Procs!Plan(j, "approve", Procs!Writes(pStatus, {}, "", {s}, "APPROVED"), {}, {})
    BY <1>4, ProKinds DEF Procs!ApproveSkill
  <2>2. "APPROVED" \in Procs!Status \ {"NONE"} /\ "APPROVED" \notin Procs!Rollout
    BY DEF Procs!Status, Procs!Rollout
  <2>3. ProBacked(s) BY <2>1, ProKinds DEF ProBacked, ProInv, ProRows
  <2> QED BY <1>0, <2>1, <2>2, <2>3, ProOne
<1>5. ASSUME NEW s \in Skills, Procs!Disable(j, s) PROVE ProInv'
  <2>1. /\ pStatus[s] # "NONE" /\ s \in Procs!Rows /\ {s} \in SUBSET Skills
        /\ Procs!Plan(j, "status", Procs!Writes(pStatus, {}, "", {s}, "DEPRECATED"), {}, {s})
    BY <1>5, ProKinds DEF Procs!Disable
  <2>2. "DEPRECATED" \in Procs!Status \ {"NONE"} /\ "DEPRECATED" \notin Procs!Rollout
    BY DEF Procs!Status, Procs!Rollout
  <2> QED BY <1>0, <2>1, <2>2, ProOne
<1> QED BY <1>1, <1>2, <1>3, <1>4, <1>5

LEMMA ProActivates ==
  ASSUME ProInv, NEW j \in Requests, NEW to \in Procs!Rollout,
         \/ \E p \in Procedures : Procs!ActivateProcedure(j, p, to)
         \/ \E s \in Skills : Procs!ActivateSkill(j, s, to)
  PROVE  ProInv'
<1>0. {} \in SUBSET Skills /\ {} \in SUBSET Procs!Rows OBVIOUS
<1>1. to \in Procs!Status \ {"NONE"} /\ to # "APPROVED" BY DEF Procs!Status, Procs!Rollout
<1>2. ASSUME NEW p \in Procedures, Procs!ActivateProcedure(j, p, to) PROVE ProInv'
  <2>1. /\ pStatus[p] # "NONE" /\ p \in pApproved /\ p \in Procs!Rows
        /\ p \notin Skills /\ {p} \cap Skills = {}
        /\ Procs!Plan(j, "status", Procs!Writes(pStatus, {}, "", {p}, to), {}, {})
    BY <1>2, ProKinds DEF Procs!ActivateProcedure, Procs!To
  <2> QED BY <1>0, <1>1, <2>1, ProOne
<1>3. ASSUME NEW s \in Skills, Procs!ActivateSkill(j, s, to) PROVE ProInv'
  <2> DEFINE on == IF to = "ACTIVE" THEN {s} ELSE {}
             off == IF to = "ACTIVE" THEN {} ELSE {s}
  <2>1. /\ pStatus[s] # "NONE" /\ s \in pApproved /\ s \in Procs!Rows
        /\ pStatus[ProcedureOf[s]] = "ACTIVE"
        /\ Procs!Plan(j, "status", Procs!Writes(pStatus, {}, "", {s}, to), on, off)
    BY <1>3, ProKinds DEF Procs!ActivateSkill
  <2>2. /\ on \in SUBSET Skills /\ off \in SUBSET Skills /\ {s} \cap Skills = {s}
        /\ to = "ACTIVE" => on = {s} /\ off = {}
        /\ to # "ACTIVE" => on = {} /\ off = {s}
    OBVIOUS
  <2> HIDE DEF on, off
  <2> QED BY <1>0, <1>1, <2>1, <2>2, ProOne
<1> QED BY <1>2, <1>3

LEMMA ProRollbacks ==
  ASSUME ProInv, NEW j \in Requests,
         \/ \E p \in Procedures : Procs!RollbackProcedure(j, p)
         \/ \E s \in Skills : Procs!RollbackSkill(j, s)
  PROVE  ProInv'
<1>0. {} \in SUBSET Skills /\ "ACTIVE" \in Procs!Status \ {"NONE"} BY DEF Procs!Status, Procs!Rollout
<1>1. ASSUME NEW p \in Procedures, Procs!RollbackProcedure(j, p) PROVE ProInv'
  <2> DEFINE t == RollbackTo[p]
  <2>1. /\ pStatus[p] # "NONE" /\ t # p /\ t \in pApproved /\ pStatus[t] # "NONE"
        /\ Procs!Plan(j, "status", Procs!Writes(pStatus, {p}, "DEPRECATED", {t}, "ACTIVE"), {}, {})
    BY <1>1 DEF Procs!RollbackProcedure
  <2>2. /\ p \in Procs!Rows /\ t \in Procs!Rows /\ t \notin Skills
        /\ {p} \cap Skills = {} /\ {t} \cap Skills = {}
    BY <2>1, ProKinds
  <2> HIDE DEF t
  <2> QED BY <1>0, <2>1, <2>2, ProBack
<1>2. ASSUME NEW s \in Skills, Procs!RollbackSkill(j, s) PROVE ProInv'
  <2> DEFINE t == RollbackTo[s]
  <2>1. /\ pStatus[s] # "NONE" /\ t # s /\ t \in pApproved /\ pStatus[ProcedureOf[t]] = "ACTIVE"
        /\ Procs!Plan(j, "status", Procs!Writes(pStatus, {s}, "DEPRECATED", {t}, "ACTIVE"), {t}, {s})
    BY <1>2 DEF Procs!RollbackSkill
  <2>2. /\ s \in Procs!Rows /\ t \in Procs!Rows
        /\ {s} \cap Skills = {s} /\ {t} \cap Skills = {t} /\ {s} \in SUBSET Skills /\ {t} \in SUBSET Skills
    BY <2>1, ProKinds
  <2>3. pStatus[t] # "NONE" BY <2>1, <2>2 DEF ProInv, ProRows
  <2> HIDE DEF t
  <2> QED BY <1>0, <2>1, <2>2, <2>3, ProBack
<1> QED BY <1>1, <1>2

(* A definition is registered: nothing has planned for it.                 *)
LEMMA ProRegister ==
  ASSUME ProInv, \/ \E p \in Procedures : Procs!RegisterProcedure(p)
                 \/ \E s \in Skills : Procs!RegisterSkill(s)
  PROVE  ProInv'
<1> USE DEF ProInv
<1>1. PICK r \in Procs!Rows, to \in {"DRAFT", "CANDIDATE"} :
        /\ pStatus[r] = "NONE" /\ pStatus' = [pStatus EXCEPT ![r] = to]
        /\ UNCHANGED <<pApproved, pTested, pEnabled, pCalm, pJob>>
  BY ProKinds DEF Procs!RegisterProcedure, Procs!RegisterSkill
<1>2. \A q \in Procs!Rows : pStatus'[q] = IF q = r THEN to ELSE pStatus[q] BY <1>1, ProTypes
<1>3. Procs!TypeOK' BY <1>1, ProTypes DEF Procs!TypeOK, Procs!Status
<1>4. ProRows' BY <1>1, <1>2 DEF ProRows, ProBacked, Procs!Rollout
<1>5. ProJobs' BY <1>1, <1>2 DEF ProJobs, ProPlanned, ProBacked
<1>6. ProCalm'
  <2> SUFFICES ASSUME pCalm PROVE ProCalm' BY <1>1 DEF ProCalm
  <2>1. \A s \in Skills : pStatus'[s] = "ACTIVE" <=> pStatus[s] = "ACTIVE" BY <1>1, <1>2, ProKinds
  <2>2. \A s \in Skills : pStatus[ProcedureOf[s]] = "ACTIVE" => pStatus'[ProcedureOf[s]] = "ACTIVE"
    BY <1>1, <1>2, ProKinds
  <2>3. ASSUME NEW j \in Requests, pJob[j].op # "idle" PROVE ProAlone(pJob[j])'
    <3>1. ProAlone(pJob[j]) BY <2>3 DEF ProCalm
    <3> QED BY <1>1, <2>1, <2>2, <3>1 DEF ProAlone
  <2> QED BY <1>1, <2>1, <2>3 DEF ProCalm
<1> QED BY <1>3, <1>4, <1>5, <1>6

LEMMA ProCommit ==
  ASSUME ProInv, NEW j \in Requests, Procs!Commit(j)
  PROVE  ProInv'
<1> USE DEF ProInv
<1> DEFINE x == pJob[j]
<1>1. /\ x.op # "idle" /\ pJob' = [pJob EXCEPT ![j] = Procs!NoJob] /\ UNCHANGED <<pTested, pCalm>>
      /\ pStatus' = Procs!Applied(pStatus, x.plan) /\ pEnabled' = (pEnabled \ x.off) \cup x.on
      /\ pApproved' = IF x.op = "approve"
                      THEN pApproved \cup {r \in Procs!Rows : x.plan[r] = "APPROVED"} ELSE pApproved
  BY DEF Procs!Commit
<1>2. x \in ProRecord /\ ProPlanned(x) BY <1>1, ProTypes DEF ProJobs
<1>3. \A q \in Procs!Rows : pStatus'[q] = IF x.plan[q] = "KEEP" THEN pStatus[q] ELSE x.plan[q]
  BY <1>1, ProTypes DEF Procs!Applied
<1>4. \A k \in Requests : pJob'[k] = IF k = j THEN Procs!NoJob ELSE pJob[k] BY <1>1, ProTypes
<1>5. \A q \in Procs!Rows : q \in pApproved' <=> q \in pApproved \/ x.plan[q] = "APPROVED"
  BY <1>1, <1>2 DEF ProPlanned
<1>6. Procs!TypeOK'
  <2>1. pStatus' \in [Procs!Rows -> Procs!Status]
    <3>1. pStatus' = [q \in Procs!Rows |-> IF x.plan[q] = "KEEP" THEN pStatus[q] ELSE x.plan[q]]
      BY <1>1, ProTypes DEF Procs!Applied
    <3>2. \A q \in Procs!Rows : x.plan[q] \in Procs!Status \cup {"KEEP"} BY <1>2 DEF ProRecord
    <3> QED BY <3>1, <3>2, ProTypes
  <2>2. pEnabled' \subseteq Skills BY <1>1, <1>2, ProTypes DEF ProRecord
  <2>3. pApproved' \subseteq Procs!Rows BY <1>1, ProTypes
  <2>4. pJob' \in [Requests -> ProRecord] BY <1>1, ProNoJob, ProTypes
  <2> QED BY <1>1, <2>1, <2>2, <2>3, <2>4, ProTypes DEF Procs!TypeOK, ProRecord
<1>7. \A q \in Procs!Rows : ProBacked(q) => ProBacked(q)'
  BY <1>1, <1>5, ProKinds DEF ProBacked
<1>8. ProRows'
  <2> SUFFICES ASSUME NEW q \in Procs!Rows
               PROVE  /\ q \in pApproved' => ProBacked(q)' /\ pStatus'[q] # "NONE"
                      /\ pStatus'[q] \in {"APPROVED"} \cup Procs!Rollout => q \in pApproved'
    BY DEF ProRows
  <2>1. /\ q \in pApproved => ProBacked(q) /\ pStatus[q] # "NONE"
        /\ pStatus[q] \in {"APPROVED"} \cup Procs!Rollout => q \in pApproved
    BY DEF ProRows
  <2>2. /\ x.plan[q] # "NONE"
        /\ x.plan[q] \in Procs!Rollout => q \in pApproved
        /\ x.plan[q] = "APPROVED" => ProBacked(q)
    BY <1>2 DEF ProPlanned
  <2> HIDE DEF x
  <2>3. q \in pApproved' => ProBacked(q)' BY <1>5, <1>7, <2>1, <2>2
  <2>4. q \in pApproved' => pStatus'[q] # "NONE" BY <1>3, <1>5, <2>1, <2>2
  <2>5. pStatus'[q] \in {"APPROVED"} \cup Procs!Rollout => q \in pApproved'
    BY <1>3, <1>5, <2>1, <2>2
  <2> QED BY <2>3, <2>4, <2>5
<1>9. ProJobs'
  <2> SUFFICES ASSUME NEW k \in Requests, pJob'[k].op # "idle" PROVE ProPlanned(pJob[k])'
    BY DEF ProJobs
  <2>1. k # j /\ pJob'[k] = pJob[k] /\ ProPlanned(pJob[k]) BY <1>4, ProNoJob DEF ProJobs
  <2>2. \A q \in Procs!Rows : pStatus[q] # "NONE" => pStatus'[q] # "NONE"
    BY <1>2, <1>3 DEF ProPlanned
  <2> QED BY <1>5, <1>7, <2>1, <2>2 DEF ProPlanned
<1>10. ProCalm'
  <2> SUFFICES ASSUME pCalm PROVE ProCalm' BY <1>1 DEF ProCalm
  <2>1. ProAlone(x) /\ \A k \in Requests : k # j => pJob[k].op = "idle" BY <1>1 DEF ProCalm
  <2>2. \A k \in Requests : pJob'[k].op = "idle" BY <1>4, <2>1, ProNoJob
  <2>3. ASSUME NEW s \in Skills PROVE s \in pEnabled' <=> pStatus'[s] = "ACTIVE"
    <3>1. s \in Procs!Rows BY ProKinds
    <3>2. (s \in (pEnabled \ x.off) \cup x.on) <=>
             (x.plan[s] = "ACTIVE" \/ (x.plan[s] = "KEEP" /\ pStatus[s] = "ACTIVE"))
      BY <2>1 DEF ProAlone
    <3> HIDE DEF x
    <3> QED BY <1>1, <1>3, <3>1, <3>2
  <2> QED BY <2>2, <2>3 DEF ProCalm
<1> QED BY <1>6, <1>8, <1>9, <1>10

LEMMA ProAbandon ==
  ASSUME ProInv, NEW j \in Requests, Procs!Abandon(j)
  PROVE  ProInv'
<1> USE DEF ProInv
<1>1. /\ pJob' = [pJob EXCEPT ![j] = Procs!NoJob]
      /\ UNCHANGED <<pStatus, pApproved, pTested, pEnabled, pCalm>>
  BY DEF Procs!Abandon
<1>2. \A k \in Requests : pJob'[k] = IF k = j THEN Procs!NoJob ELSE pJob[k] BY <1>1, ProTypes
<1>3. Procs!TypeOK' BY <1>1, ProNoJob, ProTypes DEF Procs!TypeOK, ProRecord
<1>4. ProRows' BY <1>1 DEF ProRows, ProBacked
<1>5. ProJobs' BY <1>1, <1>2, ProNoJob DEF ProJobs, ProPlanned, ProBacked
<1>6. ProCalm' BY <1>1, <1>2, ProNoJob DEF ProCalm, ProAlone
<1> QED BY <1>3, <1>4, <1>5, <1>6

LEMMA ProStep == ProInv /\ [Procs!Next]_(Procs!vars) => ProInv'
<1> SUFFICES ASSUME ProInv, [Procs!Next]_(Procs!vars) PROVE ProInv' OBVIOUS
<1>1. CASE UNCHANGED Procs!vars
  BY <1>1 DEF ProInv, Procs!vars, Procs!TypeOK, ProRows, ProBacked, ProJobs, ProPlanned, ProCalm, ProAlone
<1>2. ASSUME NEW j \in Requests, Procs!Handle(j) PROVE ProInv'
  BY <1>2, ProReviews, ProActivates, ProRollbacks, ProCommit, ProAbandon DEF Procs!Handle
<1> QED BY <1>1, <1>2, ProRegister DEF Procs!Next

LEMMA ProSafe == ProInv => Procs!ProceduresSafe
<1> SUFFICES ASSUME ProInv PROVE Procs!ProceduresSafe OBVIOUS
<1>1. Procs!ExecutableWasReviewed
  BY ProKinds DEF ProInv, ProRows, ProBacked, Procs!ExecutableWasReviewed, Procs!Executable
<1>2. Procs!CalmEnabledIsActive BY ProTypes DEF ProInv, ProCalm, Procs!CalmEnabledIsActive
<1> QED BY <1>1, <1>2 DEF ProInv, Procs!ProceduresSafe

(* Without overlaps what becomes executable becomes ACTIVE, and was        *)
(* planned so on an ACTIVE procedure.                                      *)
LEMMA ProRunsActive ==
  ASSUME ProInv, [Procs!Next]_(Procs!vars), NEW s \in Skills, pCalm,
         ~Procs!Executable(s), Procs!Executable(s)'
  PROVE  pStatus[ProcedureOf[s]] = "ACTIVE"
<1> USE DEF ProInv
<1>0. s \in Procs!Rows BY ProKinds
<1>1. pStatus[s] # "ACTIVE" /\ pStatus'[s] = "ACTIVE"
  BY <1>0 DEF Procs!Executable, ProCalm, ProRows, Procs!Rollout
<1>2. ASSUME \/ \E p \in Procedures : Procs!RegisterProcedure(p)
             \/ \E t \in Skills : Procs!RegisterSkill(t)
      PROVE  FALSE
  <2>1. PICK r \in Procs!Rows, to \in {"DRAFT", "CANDIDATE"} :
          pStatus[r] = "NONE" /\ pStatus' = [pStatus EXCEPT ![r] = to]
    BY <1>2, ProKinds DEF Procs!RegisterProcedure, Procs!RegisterSkill
  <2> QED BY <1>0, <1>1, <2>1, ProTypes
<1>3. PICK j \in Requests : Procs!Commit(j)
  BY <1>1, <1>2 DEF Procs!Next, Procs!vars, Procs!Handle, Procs!SubmitReview, Procs!ApproveProcedure, Procs!ApproveSkill,
     Procs!Deprecate, Procs!Disable, Procs!RollbackProcedure, Procs!RollbackSkill,
     Procs!ActivateProcedure, Procs!ActivateSkill, Procs!To, Procs!Plan, Procs!Abandon
<1>4. ProAlone(pJob[j]) /\ pStatus' = Procs!Applied(pStatus, pJob[j].plan)
  BY <1>3 DEF Procs!Commit, ProCalm
<1>5. pJob[j].plan[s] = "ACTIVE" BY <1>0, <1>1, <1>4, ProTypes DEF Procs!Applied
<1> QED BY <1>4, <1>5 DEF ProAlone

LEMMA ProMoves == [MCNext]_allVars => [Procs!Next]_(Procs!vars)
<1> SUFFICES ASSUME MCNext PROVE [Procs!Next]_(Procs!vars)
  BY DEF allVars, ProcsVars, Procs!vars
<1>1. CASE focus = "procedures" BY <1>1 DEF MCNext
<1>2. CASE focus # "procedures" BY <1>2 DEF MCNext, Keep, ProcsVars, Procs!vars
<1> QED BY <1>1, <1>2
----------------------------------------------------------------------------
(* Policies.  A request that is alone supersedes the active version of a   *)
(* code with the one it activates, and its other plans leave what is       *)
(* active alone.                                                           *)

PolRecord ==
  [op : {"idle", "submit", "approve", "activate", "bind"},
   plan : [PolicyRows -> Policies!Status \cup {"KEEP"}], policy : PolicyRows \cup {"none"}]

PolJobs == \A j \in Requests : yJob[j].op # "idle" => yJob[j].policy \in PolicyRows

(* What the only request under way has planned.                            *)
PolAlone(x) ==
  /\ \A q \in PolicyRows :
       /\ x.plan[q] # "KEEP" => yStatus[q] # "NONE"
       /\ x.plan[q] = "ACTIVE" => x.op = "activate" /\ q = x.policy
       /\ x.op # "activate" /\ yStatus[q] = "ACTIVE" => x.plan[q] = "KEEP"
       /\ x.op = "activate" /\ yStatus[q] = "ACTIVE" /\ CodeOf[q] = CodeOf[x.policy] =>
            x.plan[q] = "SUPERSEDED"
  /\ x.op = "approve" => yStatus[x.policy] # "ACTIVE"

PolCalm ==
  yCalm =>
    /\ \A p, q \in PolicyRows :
         CodeOf[p] = CodeOf[q] /\ yStatus[p] = "ACTIVE" /\ yStatus[q] = "ACTIVE" => p = q
    /\ \A i, j \in Requests : yJob[i].op # "idle" /\ yJob[j].op # "idle" => i = j
    /\ \A j \in Requests : yJob[j].op # "idle" => PolAlone(yJob[j])

PolInv == Policies!TypeOK /\ PolJobs /\ PolCalm

LEMMA PolTypes ==
  ASSUME PolInv
  PROVE  /\ yStatus \in [PolicyRows -> Policies!Status] /\ yJob \in [Requests -> PolRecord]
         /\ yApproved \subseteq PolicyRows /\ yBound \subseteq PolicyRows /\ yCalm \in BOOLEAN
BY DEF PolInv, Policies!TypeOK, PolRecord

LEMMA PolNoJob == Policies!NoJob \in PolRecord /\ Policies!NoJob.op = "idle"
<1>1. Policies!NoPlan(PolicyRows) \in [PolicyRows -> Policies!Status \cup {"KEEP"}]
  BY DEF Policies!NoPlan
<1> QED BY <1>1 DEF Policies!NoJob, PolRecord

LEMMA PolInit == Policies!Init => PolInv
<1> SUFFICES ASSUME Policies!Init PROVE PolInv OBVIOUS
<1>1. Policies!TypeOK BY PolNoJob DEF Policies!Init, Policies!TypeOK, PolRecord, Policies!Status
<1>2. PolJobs BY PolNoJob DEF Policies!Init, PolJobs
<1>3. PolCalm BY PolNoJob DEF Policies!Init, PolCalm
<1> QED BY <1>1, <1>2, <1>3 DEF PolInv

LEMMA PolPlan ==
  ASSUME PolInv, NEW j \in Requests, NEW op \in {"submit", "approve", "activate", "bind"},
         NEW plan \in [PolicyRows -> Policies!Status \cup {"KEEP"}], NEW p \in PolicyRows,
         Policies!Plan(j, op, plan, p),
         NEW x, x = [op |-> op, plan |-> plan, policy |-> p], yCalm => PolAlone(x)
  PROVE  PolInv'
<1> USE DEF PolInv
<1>1. /\ yJob' = [yJob EXCEPT ![j] = x] /\ UNCHANGED <<yStatus, yApproved, yBound>>
      /\ yCalm' = (yCalm /\ \A k \in DOMAIN yJob : k # j => yJob[k].op = "idle")
  BY DEF Policies!Plan, Policies!Alone
<1>2. x \in PolRecord /\ x.op # "idle" /\ x.policy = p BY DEF PolRecord
<1>3. Policies!TypeOK' BY <1>1, <1>2, PolTypes DEF Policies!TypeOK, PolRecord
<1>4. \A k \in Requests : yJob'[k] = IF k = j THEN x ELSE yJob[k] BY <1>1, PolTypes
<1>5. PolJobs' BY <1>2, <1>4 DEF PolJobs
<1>6. PolCalm'
  <2> SUFFICES ASSUME yCalm' PROVE PolCalm' BY DEF PolCalm
  <2>1. yCalm /\ \A k \in Requests : k # j => yJob[k].op = "idle" BY <1>1, PolTypes
  <2> QED BY <1>1, <1>4, <2>1 DEF PolCalm, PolAlone
<1> QED BY <1>3, <1>5, <1>6

LEMMA PolHandlers ==
  ASSUME PolInv, NEW j \in Requests, NEW p \in PolicyRows,
         \/ Policies!SubmitReview(j, p) \/ Policies!Approve(j, p)
         \/ Policies!Activate(j, p) \/ Policies!Bind(j, p)
  PROVE  PolInv'
<1>1. ASSUME NEW op \in {"submit", "approve"}, NEW b \in {"REVIEW", "APPROVED"},
             yStatus[p] \in {"DRAFT", "REVIEW"},
             Policies!Plan(j, op, Policies!Writes(yStatus, {}, "", {p}, b), p)
      PROVE  PolInv'
  <2> DEFINE plan == Policies!Writes(yStatus, {}, "", {p}, b)
             x == [op |-> op, plan |-> plan, policy |-> p]
  <2>1. plan = [q \in PolicyRows |-> IF q = p THEN IF yStatus[p] = b THEN "KEEP" ELSE b ELSE "KEEP"]
    BY PolTypes DEF Policies!Writes
  <2>2. plan \in [PolicyRows -> Policies!Status \cup {"KEEP"}] BY <2>1 DEF Policies!Status
  <2>3. PolAlone(x) BY <1>1, <2>1 DEF PolAlone
  <2>4. Policies!Plan(j, op, plan, p) /\ x = [op |-> op, plan |-> plan, policy |-> p] BY <1>1
  <2> HIDE DEF plan, x
  <2> QED BY <2>2, <2>3, <2>4, PolPlan
<1>2. CASE Policies!SubmitReview(j, p)
  <2>1. yStatus[p] = "DRAFT" /\ Policies!Plan(j, "submit", Policies!Writes(yStatus, {}, "", {p}, "REVIEW"), p)
    BY <1>2 DEF Policies!SubmitReview
  <2> QED BY <1>1, <2>1
<1>3. CASE Policies!Approve(j, p)
  <2>1. yStatus[p] = "REVIEW" /\ Policies!Plan(j, "approve", Policies!Writes(yStatus, {}, "", {p}, "APPROVED"), p)
    BY <1>3 DEF Policies!Approve
  <2> QED BY <1>1, <2>1
<1>4. CASE Policies!Activate(j, p)
  <2> DEFINE plan == Policies!Writes(yStatus, Policies!Active(CodeOf[p]), "SUPERSEDED", {p}, "ACTIVE")
             x == [op |-> "activate", plan |-> plan, policy |-> p]
  <2>1. yStatus[p] = "APPROVED" /\ Policies!Plan(j, "activate", plan, p)
    BY <1>4 DEF Policies!Activate
  <2>2. plan = [q \in PolicyRows |-> IF q = p THEN "ACTIVE"
                 ELSE IF CodeOf[q] = CodeOf[p] /\ yStatus[q] = "ACTIVE" THEN "SUPERSEDED" ELSE "KEEP"]
    BY <2>1, PolTypes DEF Policies!Writes, Policies!Active
  <2>3. plan \in [PolicyRows -> Policies!Status \cup {"KEEP"}] BY <2>2 DEF Policies!Status
  <2>4. PolAlone(x) BY <2>1, <2>2 DEF PolAlone
  <2>5. x = [op |-> "activate", plan |-> plan, policy |-> p] OBVIOUS
  <2> HIDE DEF plan, x
  <2> QED BY <2>1, <2>3, <2>4, <2>5, PolPlan
<1>5. CASE Policies!Bind(j, p)
  <2> DEFINE plan == Policies!NoPlan(PolicyRows)
             x == [op |-> "bind", plan |-> plan, policy |-> p]
  <2>1. Policies!Plan(j, "bind", plan, p) BY <1>5 DEF Policies!Bind
  <2>2. plan = [q \in PolicyRows |-> "KEEP"] BY DEF Policies!NoPlan
  <2>3. plan \in [PolicyRows -> Policies!Status \cup {"KEEP"}] BY <2>2
  <2>4. PolAlone(x) BY <2>2 DEF PolAlone
  <2>5. x = [op |-> "bind", plan |-> plan, policy |-> p] OBVIOUS
  <2> HIDE DEF plan, x
  <2> QED BY <2>1, <2>3, <2>4, <2>5, PolPlan
<1> QED BY <1>2, <1>3, <1>4, <1>5

LEMMA PolCreate ==
  ASSUME PolInv, NEW p \in PolicyRows, Policies!Create(p)
  PROVE  PolInv'
<1> USE DEF PolInv
<1>1. /\ yStatus[p] = "NONE" /\ yStatus' = [yStatus EXCEPT ![p] = "DRAFT"]
      /\ UNCHANGED <<yApproved, yBound, yCalm, yJob>>
  BY DEF Policies!Create
<1>2. \A q \in PolicyRows : yStatus'[q] = IF q = p THEN "DRAFT" ELSE yStatus[q] BY <1>1, PolTypes
<1>3. Policies!TypeOK' BY <1>1, PolTypes DEF Policies!TypeOK, Policies!Status
<1>4. PolJobs' BY <1>1 DEF PolJobs
<1>5. PolCalm'
  <2> SUFFICES ASSUME yCalm PROVE PolCalm' BY <1>1 DEF PolCalm
  <2>1. ASSUME NEW j \in Requests, yJob[j].op # "idle" PROVE PolAlone(yJob[j])'
    <3>1. PolAlone(yJob[j]) /\ yJob[j].policy \in PolicyRows BY <2>1 DEF PolCalm, PolJobs
    <3> QED BY <1>1, <1>2, <3>1 DEF PolAlone
  <2> QED BY <1>1, <1>2, <2>1 DEF PolCalm
<1> QED BY <1>3, <1>4, <1>5

LEMMA PolCommit ==
  ASSUME PolInv, NEW j \in Requests, Policies!Commit(j)
  PROVE  PolInv'
<1> USE DEF PolInv
<1> DEFINE x == yJob[j]
<1>1. /\ x.op # "idle" /\ yJob' = [yJob EXCEPT ![j] = Policies!NoJob] /\ UNCHANGED yCalm
      /\ yStatus' = Policies!Applied(yStatus, x.plan)
      /\ yApproved' \subseteq yApproved \cup {x.policy} /\ yBound' \subseteq yBound \cup {x.policy}
  BY DEF Policies!Commit
<1>2. x \in PolRecord /\ x.policy \in PolicyRows BY <1>1, PolTypes DEF PolJobs
<1>3. \A q \in PolicyRows : yStatus'[q] = IF x.plan[q] = "KEEP" THEN yStatus[q] ELSE x.plan[q]
  BY <1>1, PolTypes DEF Policies!Applied
<1>4. \A k \in Requests : yJob'[k] = IF k = j THEN Policies!NoJob ELSE yJob[k] BY <1>1, PolTypes
<1>5. Policies!TypeOK'
  <2>1. yStatus' \in [PolicyRows -> Policies!Status]
    <3>1. yStatus' = [q \in PolicyRows |-> IF x.plan[q] = "KEEP" THEN yStatus[q] ELSE x.plan[q]]
      BY <1>1, PolTypes DEF Policies!Applied
    <3>2. \A q \in PolicyRows : x.plan[q] \in Policies!Status \cup {"KEEP"} BY <1>2 DEF PolRecord
    <3> QED BY <3>1, <3>2, PolTypes
  <2>2. yJob' \in [Requests -> PolRecord] BY <1>1, PolNoJob, PolTypes
  <2>3. yApproved' \in SUBSET PolicyRows /\ yBound' \in SUBSET PolicyRows BY <1>1, <1>2, PolTypes
  <2> QED BY <1>1, <2>1, <2>2, <2>3, PolTypes DEF Policies!TypeOK, PolRecord
<1>6. PolJobs' BY <1>4, PolNoJob DEF PolJobs
<1>7. PolCalm'
  <2> SUFFICES ASSUME yCalm PROVE PolCalm' BY <1>1 DEF PolCalm
  <2>1. PolAlone(x) /\ \A k \in Requests : k # j => yJob[k].op = "idle" BY <1>1 DEF PolCalm
  <2>2. \A k \in Requests : yJob'[k].op = "idle" BY <1>4, <2>1, PolNoJob
  <2>3. ASSUME NEW p \in PolicyRows, NEW q \in PolicyRows, CodeOf[p] = CodeOf[q],
               yStatus'[p] = "ACTIVE", yStatus'[q] = "ACTIVE"
        PROVE  p = q
    <3>1. /\ yStatus[p] = "ACTIVE" /\ yStatus[q] = "ACTIVE" => p = q
          /\ \A r \in {p, q} : /\ x.plan[r] = "ACTIVE" => x.op = "activate" /\ r = x.policy
                               /\ x.op = "activate" /\ yStatus[r] = "ACTIVE" /\ CodeOf[r] = CodeOf[x.policy] =>
                                    x.plan[r] = "SUPERSEDED"
      BY <2>1, <2>3 DEF PolCalm, PolAlone
    <3>2. \A r \in {p, q} : yStatus'[r] = IF x.plan[r] = "KEEP" THEN yStatus[r] ELSE x.plan[r] BY <1>3
    <3> HIDE DEF x
    <3> QED BY <2>3, <3>1, <3>2
  <2> QED BY <2>2, <2>3 DEF PolCalm
<1> QED BY <1>5, <1>6, <1>7

LEMMA PolAbandon ==
  ASSUME PolInv, NEW j \in Requests, Policies!Abandon(j)
  PROVE  PolInv'
<1> USE DEF PolInv
<1>1. yJob' = [yJob EXCEPT ![j] = Policies!NoJob] /\ UNCHANGED <<yStatus, yApproved, yBound, yCalm>>
  BY DEF Policies!Abandon
<1>2. \A k \in Requests : yJob'[k] = IF k = j THEN Policies!NoJob ELSE yJob[k] BY <1>1, PolTypes
<1>3. Policies!TypeOK' BY <1>1, PolNoJob, PolTypes DEF Policies!TypeOK, PolRecord
<1>4. PolJobs' BY <1>2, PolNoJob DEF PolJobs
<1>5. PolCalm' BY <1>1, <1>2, PolNoJob DEF PolCalm, PolAlone
<1> QED BY <1>3, <1>4, <1>5

LEMMA PolStep == PolInv /\ [Policies!Next]_(Policies!vars) => PolInv'
<1> SUFFICES ASSUME PolInv, [Policies!Next]_(Policies!vars) PROVE PolInv' OBVIOUS
<1>1. CASE UNCHANGED Policies!vars
  BY <1>1 DEF PolInv, Policies!vars, Policies!TypeOK, PolJobs, PolCalm, PolAlone
<1> QED BY <1>1, PolHandlers, PolCreate, PolCommit, PolAbandon DEF Policies!Next, Policies!Handle

LEMMA PolSafe == PolInv => Policies!TypeOK /\ Policies!CalmOneActive
<1> SUFFICES ASSUME PolInv, yCalm, NEW p \in PolicyRows, NEW q \in PolicyRows, CodeOf[p] = CodeOf[q],
                    {yStatus[p], yStatus[q]} = {"ACTIVE"}
             PROVE  p = q
  BY DEF PolInv, Policies!CalmOneActive
<1>1. yStatus[p] = "ACTIVE" /\ yStatus[q] = "ACTIVE" OBVIOUS
<1> QED BY <1>1 DEF PolInv, PolCalm

(* Without overlaps the steps of a review change no policy in force.       *)
LEMMA PolKeepsAccess ==
  ASSUME PolInv, [Policies!Next]_(Policies!vars), yCalm, Policies!Allowed' # Policies!Allowed
  PROVE  \E j \in Requests : yJob[j].op \in {"activate", "bind"} /\ yJob'[j].op = "idle"
<1> USE DEF PolInv
<1>1. Policies!InForce' # Policies!InForce BY DEF Policies!Allowed
<1>2. ASSUME \A q \in PolicyRows : yStatus[q] = "ACTIVE" <=> yStatus'[q] = "ACTIVE",
             yBound' = yBound,
             \A q \in PolicyRows : yStatus[q] = "ACTIVE" => (q \in yApproved <=> q \in yApproved')
      PROVE  FALSE
  <2>1. yBound \subseteq PolicyRows BY PolTypes
  <2> QED BY <1>1, <1>2, <2>1 DEF Policies!InForce
<1>3. ASSUME NEW p \in PolicyRows, Policies!Create(p) PROVE FALSE
  BY <1>2, <1>3, PolTypes DEF Policies!Create
<1>4. ~UNCHANGED <<yStatus, yApproved, yBound>> BY <1>2
<1>5. PICK j \in Requests : Policies!Commit(j)
  BY <1>3, <1>4 DEF Policies!Next, Policies!vars, Policies!Handle, Policies!SubmitReview,
     Policies!Approve, Policies!Activate, Policies!Bind, Policies!Plan, Policies!Abandon
<1>6. /\ yJob[j].op # "idle" /\ PolAlone(yJob[j]) /\ yJob[j] \in PolRecord
      /\ yJob' = [yJob EXCEPT ![j] = Policies!NoJob]
  BY <1>5, PolTypes DEF Policies!Commit, PolCalm
<1>7. yJob'[j].op = "idle" BY <1>6, PolNoJob, PolTypes
<1>8. yJob[j].op \in {"activate", "bind"}
  <2> SUFFICES ASSUME yJob[j].op \notin {"activate", "bind"} PROVE FALSE OBVIOUS
  <2>1. yBound' = yBound BY <1>5 DEF Policies!Commit
  <2>2. \A q \in PolicyRows :
          yStatus'[q] = IF yJob[j].plan[q] = "KEEP" THEN yStatus[q] ELSE yJob[j].plan[q]
    BY <1>5, PolTypes DEF Policies!Commit, Policies!Applied
  <2>3. \A q \in PolicyRows : yStatus[q] = "ACTIVE" <=> yStatus'[q] = "ACTIVE"
    BY <1>6, <2>2 DEF PolAlone
  <2>4. \A q \in PolicyRows : yStatus[q] = "ACTIVE" => (q \in yApproved <=> q \in yApproved')
    BY <1>5, <1>6 DEF Policies!Commit, PolAlone
  <2> QED BY <1>2, <2>1, <2>3, <2>4
<1> QED BY <1>7, <1>8

LEMMA PolMoves == [MCNext]_allVars => [Policies!Next]_(Policies!vars)
<1> SUFFICES ASSUME MCNext PROVE [Policies!Next]_(Policies!vars)
  BY DEF allVars, PoliciesVars, Policies!vars
<1>1. CASE focus = "policies" BY <1>1 DEF MCNext
<1>2. CASE focus # "policies" BY <1>2 DEF MCNext, Keep, PoliciesVars, Policies!vars
<1> QED BY <1>1, <1>2

----------------------------------------------------------------------------
(* Production gates.  No version, loaded or stored, runs ahead of the      *)
(* history, and a session that is alone commits on the row as it is, which *)
(* is what the last entry of the gate says.                                *)

GatEntry ==
  [gate : GateCodes, status : Gates!Status, evidence : Gates!Evidence, previous : Gates!Status,
   version : 2 .. MaxDecisions + 1]
GatRecord ==
  [op : {"idle", "decide"}, gate : GateCodes \cup {"none"}, row : Gates!Row, status : Gates!Status,
   evidence : Gates!Evidence, previous : Gates!Status]

GatTypes ==
  /\ gGate \in [GateCodes -> Gates!Row] /\ gDue \subseteq GateCodes /\ gCalm \in BOOLEAN
  /\ gHistory \in Seq(GatEntry) /\ Len(gHistory) <= MaxDecisions
  /\ gJob \in [Requests -> GatRecord]

GatVersions == \A g \in GateCodes : gGate[g].version <= Len(gHistory) + 1

(* What a session has decided.                                             *)
GatDecided(x) ==
  x.op # "idle" => /\ x.gate \in GateCodes /\ x.row.version <= Len(gHistory) + 1
                   /\ x.status \in Gates!Cleared => x.evidence # "none"

GatJobs == \A j \in Requests : GatDecided(gJob[j])

(* A gate without an entry is as installed, and so is what was loaded of   *)
(* it: a first decision cannot leave it cleared unless it says so.         *)
GatLoaded(x) ==
  x.op # "idle" /\ Gates!Entries(x.gate) = {} => x.row = Gates!Installed(x.gate)

GatFresh ==
  /\ \A g \in GateCodes : Gates!Entries(g) = {} => gGate[g] = Gates!Installed(g)
  /\ \A j \in Requests : GatLoaded(gJob[j])

(* What the only session under way has loaded.                             *)
GatAlone(x) ==
  x.op # "idle" => /\ x.row = gGate[x.gate]
                   /\ Gates!Replaced(x.previous, x.row.status)

GatCalm ==
  gCalm =>
    /\ \A i, j \in Requests : gJob[i].op # "idle" /\ gJob[j].op # "idle" => i = j
    /\ \A j \in Requests : GatAlone(gJob[j])

(* CalmHistoryExplains in parts: the first entry of a gate goes on from    *)
(* its installation, the last says what its row is, and of two neighbours  *)
(* the later goes on from the earlier.                                     *)
GatFirst(g, i) ==
  gHistory[i].version = 2 /\ Gates!Replaced(gHistory[i].previous, Gates!Installed(g).status)

GatLast(g, i) ==
  /\ gGate[g].version = gHistory[i].version
  /\ gGate[g].status = gHistory[i].status
  /\ gGate[g].evidence = gHistory[i].evidence
  /\ gGate[g].waiver = (gHistory[i].status = "WAIVED")

GatNeighbours(k, i) ==
  /\ gHistory[i].version = gHistory[k].version + 1
  /\ Gates!Replaced(gHistory[i].previous, gHistory[k].status)

GatExplained(g) ==
  /\ Gates!Entries(g) = {} => gGate[g] = Gates!Installed(g)
  /\ \A i \in Gates!Entries(g) :
       /\ Gates!IsFirst(g, i) => GatFirst(g, i)
       /\ Gates!IsLast(g, i) => GatLast(g, i)
       /\ \A k \in Gates!Entries(g) : Gates!Follows(g, k, i) => GatNeighbours(k, i)

GatInv ==
  /\ GatTypes /\ GatVersions /\ GatJobs /\ GatFresh /\ GatCalm
  /\ Gates!ClearanceIsRecorded /\ Gates!CalmHistoryExplains

LEMMA GatNew == Gates!NewGate \in Gates!Row
BY GatesAssumption DEF Gates!NewGate, Gates!Row, Gates!Status, Gates!Evidence

LEMMA GatInstalled ==
  ASSUME NEW g \in GateCodes
  PROVE  /\ Gates!Installed(g) \in Gates!Row /\ Gates!Installed(g).version = 1
         /\ Gates!Installed(g).status \in Gates!Cleared =>
              g \in Proven /\ Gates!Installed(g) = Gates!ProvenGate
BY GatesAssumption DEF Gates!Installed, Gates!ProvenGate, Gates!NewGate, Gates!Row, Gates!Status,
  Gates!Evidence, Gates!Cleared

LEMMA GatIdle == Gates!Idle \in GatRecord /\ Gates!Idle.op = "idle"
BY GatNew DEF Gates!Idle, GatRecord, Gates!Status, Gates!Evidence

LEMMA GatInit == Gates!Init => GatInv
<1> SUFFICES ASSUME Gates!Init PROVE GatInv OBVIOUS
<1>1. /\ gGate = [g \in GateCodes |-> Gates!Installed(g)] /\ gDue = {} /\ gHistory = <<>>
      /\ gCalm = TRUE /\ gJob = [j \in Requests |-> Gates!Idle]
  BY DEF Gates!Init
<1>e. \A g \in GateCodes : Gates!Entries(g) = {} BY <1>1 DEF Gates!Entries
<1>2. GatTypes BY <1>1, GatInstalled, GatIdle, GatesAssumption DEF GatTypes
<1>3. GatVersions BY <1>1, GatInstalled DEF GatVersions
<1>4. GatJobs BY <1>1, GatIdle DEF GatJobs, GatDecided
<1>5. GatCalm BY <1>1, GatIdle DEF GatCalm, GatAlone
<1>6. Gates!ClearanceIsRecorded
  BY <1>1, <1>e, GatInstalled DEF Gates!ClearanceIsRecorded
<1>7. Gates!CalmHistoryExplains
  BY <1>1, <1>e DEF Gates!CalmHistoryExplains
<1>8. GatFresh BY <1>1, GatIdle DEF GatFresh, GatLoaded
<1> QED BY <1>2, <1>3, <1>4, <1>5, <1>6, <1>7, <1>8 DEF GatInv

LEMMA GatDecide ==
  ASSUME GatInv, NEW j \in Requests, NEW g \in GateCodes, NEW s \in Decided, NEW e \in Evidences,
         Gates!Decide(j, g, s, e)
  PROVE  GatInv'
<1> USE DEF GatInv, GatTypes
<1>0. PICK x : x = [op |-> "decide", gate |-> g, row |-> gGate[g], status |-> s,
                    evidence |-> e, previous |-> Gates!Effective(g)]
  OBVIOUS
<1>1. /\ s \in Gates!Cleared => e # "none"
      /\ gJob' = [gJob EXCEPT ![j] = x] /\ UNCHANGED <<gGate, gDue, gHistory>>
      /\ gCalm' = (gCalm /\ \A k \in DOMAIN gJob : k # j => gJob[k].op = "idle")
  BY <1>0 DEF Gates!Decide, Gates!Alone
<1>2. gGate[g] \in Gates!Row /\ gGate[g].status \in Gates!Status BY DEF Gates!Row
<1>3. Gates!Effective(g) \in Gates!Status BY <1>2 DEF Gates!Effective, Gates!Status
<1>4. x \in GatRecord BY <1>0, <1>2, <1>3, GatesAssumption DEF GatRecord
<1>5. GatDecided(x)' BY <1>0, <1>1 DEF GatDecided, GatVersions
<1>6. GatAlone(x)' BY <1>0, <1>1 DEF GatAlone, Gates!Effective, Gates!Replaced
<1>l. GatLoaded(x)' BY <1>0, <1>1 DEF GatLoaded, GatFresh, Gates!Entries
<1>7. x.op = "decide" BY <1>0
<1>8. \A k \in Requests : gJob'[k] = IF k = j THEN x ELSE gJob[k] BY <1>1
<1>9. GatTypes' BY <1>1, <1>4
<1>10. GatJobs'
  <2> SUFFICES ASSUME NEW k \in Requests PROVE GatDecided(gJob[k])' BY DEF GatJobs, GatDecided
  <2>1. CASE k = j
    <3>1. gJob'[k] = x BY <1>8, <2>1
    <3> QED BY <1>5, <3>1 DEF GatDecided
  <2>2. CASE k # j
    <3>1. gJob'[k] = gJob[k] /\ GatDecided(gJob[k]) BY <1>8, <2>2 DEF GatJobs
    <3> QED BY <1>1, <3>1 DEF GatDecided
  <2> QED BY <2>1, <2>2
<1>11. GatCalm'
  <2> SUFFICES ASSUME gCalm' PROVE GatCalm' BY DEF GatCalm
  <2>1. gCalm /\ \A k \in Requests : k # j => gJob[k].op = "idle" BY <1>1
  <2>2. \A k \in Requests : gJob'[k].op # "idle" => k = j BY <1>8, <2>1
  <2>3. gJob'[j] = x BY <1>8
  <2>4. GatAlone(gJob[j])' BY <1>6, <2>3 DEF GatAlone
  <2>5. \A k \in Requests : GatAlone(gJob[k])' BY <2>2, <2>4 DEF GatAlone
  <2> QED BY <2>2, <2>5 DEF GatCalm
<1>12. GatVersions' BY <1>1 DEF GatVersions
<1>f. GatFresh'
  <2>1. \A k \in Requests : GatLoaded(gJob[k])'
    BY <1>1, <1>l, <1>8 DEF GatFresh, GatLoaded, Gates!Entries
  <2> QED BY <1>1, <2>1 DEF GatFresh, Gates!Entries
<1>13. Gates!ClearanceIsRecorded' BY <1>1 DEF Gates!ClearanceIsRecorded, Gates!Entries
<1>14. Gates!CalmHistoryExplains'
  BY <1>1 DEF Gates!CalmHistoryExplains, Gates!Entries, Gates!IsFirst, Gates!IsLast, Gates!Follows
<1> QED BY <1>9, <1>10, <1>11, <1>12, <1>13, <1>14, <1>f

(* What a commit of x by j leaves: a row of its gate, and an entry more.   *)
GatCommits(j, x) ==
  /\ x \in GatRecord /\ x.op = "decide" /\ x.gate \in GateCodes /\ GatDecided(x)
  /\ \A g \in GateCodes : g # x.gate => gGate'[g] = gGate[g]
  /\ gGate'[x.gate].status = Gates!Written(gGate[x.gate].status, x.row.status, x.status)
  /\ gGate'[x.gate].evidence = Gates!Written(gGate[x.gate].evidence, x.row.evidence, x.evidence)
  /\ gGate'[x.gate].waiver = Gates!Written(gGate[x.gate].waiver, x.row.waiver, x.status = "WAIVED")
  /\ gGate'[x.gate].version = x.row.version + 1
  /\ gGate' \in [GateCodes -> Gates!Row]
  /\ Len(gHistory) \in Nat /\ gHistory' \in Seq(GatEntry)
  /\ Len(gHistory') = Len(gHistory) + 1 /\ Len(gHistory') <= MaxDecisions
  /\ \A i \in 1 .. Len(gHistory) : gHistory'[i] = gHistory[i]
  /\ gHistory'[Len(gHistory) + 1] =
       [gate |-> x.gate, status |-> x.status, evidence |-> x.evidence,
        previous |-> x.previous, version |-> x.row.version + 1]
  /\ \A k \in Requests : gJob'[k] = IF k = j THEN Gates!Idle ELSE gJob[k]

LEMMA GatCommitted ==
  ASSUME GatInv, NEW j \in Requests, Gates!Commit(j)
  PROVE  GatCommits(j, gJob[j])
<1>0. PICK x : x = gJob[j] OBVIOUS
<1> USE DEF GatInv, GatTypes
<1> DEFINE h == [gate |-> x.gate, status |-> x.status, evidence |-> x.evidence,
                 previous |-> x.previous, version |-> x.row.version + 1]
           r == [status   |-> Gates!Written(gGate[x.gate].status, x.row.status, x.status),
                 evidence |-> Gates!Written(gGate[x.gate].evidence, x.row.evidence, x.evidence),
                 waiver   |-> Gates!Written(gGate[x.gate].waiver, x.row.waiver, x.status = "WAIVED"),
                 version  |-> x.row.version + 1]
<1>1. /\ x.op = "decide" /\ Len(gHistory) < MaxDecisions
      /\ gGate' = [gGate EXCEPT ![x.gate] = r]
      /\ gHistory' = Append(gHistory, h) /\ gJob' = [gJob EXCEPT ![j] = Gates!Idle]
  BY <1>0 DEF Gates!Commit
<1>2. x \in GatRecord BY <1>0
<1>3. GatDecided(x) /\ x.gate \in GateCodes BY <1>0, <1>1 DEF GatJobs, GatDecided
<1>4. x.row.version \in 1 .. MaxDecisions + 1 /\ x.row.version <= Len(gHistory) + 1
  BY <1>1, <1>2, <1>3 DEF GatRecord, Gates!Row, GatDecided
<1>5. Len(gHistory) \in Nat OBVIOUS
<1>6. x.row.version + 1 \in 2 .. MaxDecisions + 1 BY <1>1, <1>4, <1>5, GatesAssumption
<1>7. h \in GatEntry BY <1>2, <1>3, <1>6 DEF GatRecord, GatEntry
<1>8. r \in Gates!Row
  <2>1. gGate[x.gate] \in Gates!Row /\ x.row \in Gates!Row BY <1>2, <1>3 DEF GatRecord
  <2>2. /\ Gates!Written(gGate[x.gate].status, x.row.status, x.status) \in Gates!Status
        /\ Gates!Written(gGate[x.gate].evidence, x.row.evidence, x.evidence) \in Gates!Evidence
    BY <1>2, <2>1 DEF Gates!Written, Gates!Row, GatRecord
  <2>3. Gates!Written(gGate[x.gate].waiver, x.row.waiver, x.status = "WAIVED") \in BOOLEAN
    BY <2>1 DEF Gates!Written, Gates!Row
  <2>4. x.row.version + 1 \in 1 .. MaxDecisions + 1 BY <1>6
  <2> QED BY <2>2, <2>3, <2>4 DEF Gates!Row
<1>9. gGate'[x.gate] = r /\ \A g \in GateCodes : g # x.gate => gGate'[g] = gGate[g]
  BY <1>1, <1>3
<1>10. gGate' \in [GateCodes -> Gates!Row] BY <1>1, <1>8
<1>11. /\ gHistory' \in Seq(GatEntry) /\ Len(gHistory') = Len(gHistory) + 1
       /\ \A i \in 1 .. Len(gHistory) : gHistory'[i] = gHistory[i]
       /\ gHistory'[Len(gHistory) + 1] = h
  <2> HIDE DEF h
  <2> QED BY <1>1, <1>7
<1>12. \A k \in Requests : gJob'[k] = IF k = j THEN Gates!Idle ELSE gJob[k] BY <1>1
<1>13. Len(gHistory') <= MaxDecisions BY <1>1, <1>5, <1>11, GatesAssumption
<1> QED BY <1>0, <1>1, <1>2, <1>3, <1>5, <1>9, <1>10, <1>11, <1>12, <1>13 DEF GatCommits

LEMMA GatCommit ==
  ASSUME GatInv, NEW j \in Requests, Gates!Commit(j)
  PROVE  GatInv'
<1>0. PICK x : x = gJob[j] OBVIOUS
<1>b. GatCommits(j, x) BY <1>0, GatCommitted
<1>c. PICK n : n = Len(gHistory) OBVIOUS
<1>1. /\ x \in GatRecord /\ x.op = "decide" /\ x.gate \in GateCodes /\ GatDecided(x)
      /\ \A g \in GateCodes : g # x.gate => gGate'[g] = gGate[g]
      /\ gGate'[x.gate].status = Gates!Written(gGate[x.gate].status, x.row.status, x.status)
      /\ gGate'[x.gate].evidence = Gates!Written(gGate[x.gate].evidence, x.row.evidence, x.evidence)
      /\ gGate'[x.gate].waiver = Gates!Written(gGate[x.gate].waiver, x.row.waiver, x.status = "WAIVED")
      /\ gGate'[x.gate].version = x.row.version + 1
  BY <1>b, <1>c DEF GatCommits
<1>2. /\ gGate' \in [GateCodes -> Gates!Row]
      /\ n \in Nat /\ gHistory' \in Seq(GatEntry) /\ Len(gHistory') = n + 1 /\ n + 1 <= MaxDecisions
      /\ \A i \in 1 .. n : gHistory'[i] = gHistory[i]
      /\ gHistory'[n + 1].gate = x.gate /\ gHistory'[n + 1].status = x.status
      /\ gHistory'[n + 1].evidence = x.evidence /\ gHistory'[n + 1].previous = x.previous
      /\ gHistory'[n + 1].version = x.row.version + 1
      /\ \A k \in Requests : gJob'[k] = IF k = j THEN Gates!Idle ELSE gJob[k]
  BY <1>b, <1>c DEF GatCommits
<1> USE DEF GatInv, GatTypes
<1>3. gDue' \subseteq GateCodes /\ UNCHANGED gCalm /\ gJob' = [gJob EXCEPT ![j] = Gates!Idle]
  BY DEF Gates!Commit
<1>4. DOMAIN gHistory = 1 .. n /\ DOMAIN gHistory' = 1 .. n + 1 BY <1>2, <1>c
<1>5. GatTypes' BY <1>2, <1>3, GatIdle
<1>6. GatVersions'
  <2> SUFFICES ASSUME NEW g \in GateCodes PROVE gGate'[g].version <= n + 2 BY <1>2 DEF GatVersions
  <2>1. gGate[g].version \in Nat /\ gGate[g].version <= n + 1 BY <1>c DEF GatVersions, Gates!Row
  <2>2. x.row.version \in Nat /\ x.row.version <= n + 1
    BY <1>1, <1>c DEF GatDecided, GatRecord, Gates!Row
  <2> QED BY <1>1, <1>2, <2>1, <2>2
<1>7. GatJobs'
  <2> SUFFICES ASSUME NEW k \in Requests PROVE GatDecided(gJob[k])' BY DEF GatJobs, GatDecided
  <2>1. CASE k = j
    <3>1. gJob'[k].op = "idle" BY <1>2, <2>1, GatIdle
    <3> QED BY <3>1 DEF GatDecided
  <2>2. CASE k # j
    <3>1. gJob[k] \in GatRecord /\ GatDecided(gJob[k]) BY DEF GatJobs
    <3>2. gJob[k].row.version \in Nat BY <3>1 DEF GatRecord, Gates!Row
    <3>3. gJob'[k] = gJob[k] BY <1>2, <2>2
    <3> QED BY <1>2, <1>c, <3>1, <3>2, <3>3 DEF GatDecided
  <2> QED BY <2>1, <2>2
<1>8. gCalm => /\ \A k \in Requests : k # j => gJob[k].op = "idle"
               /\ x.row = gGate[x.gate]
               /\ Gates!Replaced(x.previous, x.row.status)
  BY <1>0, <1>1 DEF GatCalm, GatAlone
<1>9. GatCalm'
  BY <1>2, <1>3, <1>8, GatIdle DEF GatCalm, GatAlone
<1>e. /\ \A g \in GateCodes : g # x.gate => (Gates!Entries(g))' = Gates!Entries(g)
      /\ (Gates!Entries(x.gate))' = Gates!Entries(x.gate) \cup {n + 1}
      /\ \A g \in GateCodes : \A i \in Gates!Entries(g) : i \in 1 .. n /\ gHistory'[i] = gHistory[i]
  BY <1>2, <1>4 DEF Gates!Entries
<1>f. GatFresh'
  <2>1. \A g \in GateCodes : (Gates!Entries(g))' = {} => gGate'[g] = Gates!Installed(g)
    BY <1>1, <1>e DEF GatFresh
  <2>2. \A k \in Requests : GatLoaded(gJob[k])'
    <3> SUFFICES ASSUME NEW k \in Requests, k # j PROVE GatLoaded(gJob[k])'
      BY <1>2, GatIdle DEF GatLoaded
    <3>1. PICK y : y = gJob[k] OBVIOUS
    <3>2. gJob'[k] = y /\ GatLoaded(y) BY <1>2, <3>1 DEF GatFresh
    <3>3. y.op # "idle" => y.gate \in GateCodes BY <3>1 DEF GatJobs, GatDecided
    <3>4. GatLoaded(y)' BY <1>e, <3>2, <3>3 DEF GatLoaded
    <3> QED BY <3>2, <3>4 DEF GatLoaded
  <2> QED BY <2>1, <2>2 DEF GatFresh
<1>10. Gates!ClearanceIsRecorded'
  <2> SUFFICES ASSUME NEW g \in GateCodes, gGate'[g].status \in Gates!Cleared
               PROVE  \/ (Gates!Entries(g))' = {} /\ gGate'[g] = Gates!ProvenGate /\ g \in Proven
                      \/ \E i \in (Gates!Entries(g))' : /\ gHistory'[i].status = gGate'[g].status
                                                       /\ gHistory'[i].evidence # "none"
    BY DEF Gates!ClearanceIsRecorded
  <2>1. CASE g # x.gate
    <3>1. gGate'[g] = gGate[g] /\ (Gates!Entries(g))' = Gates!Entries(g) BY <1>1, <1>e, <2>1
    <3> QED BY <1>e, <3>1 DEF Gates!ClearanceIsRecorded
  <2>2. CASE g = x.gate /\ gGate'[g].status = x.status
    <3>1. x.evidence # "none" BY <1>1, <2>2 DEF GatDecided
    <3> QED BY <1>2, <1>e, <2>2, <3>1
  <2>3. CASE g = x.gate /\ gGate'[g].status # x.status
    <3>1. gGate'[g].status = gGate[g].status /\ x.row.status = x.status
      BY <1>1, <2>3 DEF Gates!Written
    <3>2. Gates!Entries(g) # {}
      <4> SUFFICES ASSUME Gates!Entries(g) = {} PROVE FALSE OBVIOUS
      <4>1. gGate[g] = Gates!Installed(g) /\ x.row = Gates!Installed(g)
        BY <1>0, <1>1, <2>3 DEF GatFresh, GatLoaded
      <4> QED BY <2>3, <3>1, <4>1
    <3> QED BY <1>e, <2>3, <3>1, <3>2 DEF Gates!ClearanceIsRecorded
  <2> QED BY <2>1, <2>2, <2>3
<1>11. Gates!CalmHistoryExplains'
  <2> SUFFICES ASSUME gCalm, NEW g \in GateCodes PROVE GatExplained(g)'
    BY <1>3 DEF Gates!CalmHistoryExplains, GatExplained, GatFirst, GatLast, GatNeighbours
  <2> DEFINE E == Gates!Entries(g)
  <2>1. GatExplained(g)
    BY DEF Gates!CalmHistoryExplains, GatExplained, GatFirst, GatLast, GatNeighbours
  <2>2. \A i \in E : gHistory'[i] = gHistory[i] /\ i < n + 1 /\ i \in Nat
    BY <1>2, <1>4 DEF Gates!Entries
  <2>3. CASE g # x.gate
    <3>1. E' = E BY <1>2, <1>4, <2>3 DEF Gates!Entries
    <3>2. gGate'[g] = gGate[g] BY <1>1, <2>3
    <3>3. \A i, k \in E : /\ Gates!IsFirst(g, i)' <=> Gates!IsFirst(g, i)
                          /\ Gates!IsLast(g, i)' <=> Gates!IsLast(g, i)
                          /\ Gates!Follows(g, k, i)' <=> Gates!Follows(g, k, i)
      BY <3>1 DEF Gates!IsFirst, Gates!IsLast, Gates!Follows
    <3> HIDE DEF E
    <3>4. \A i \in E : GatLast(g, i)' <=> GatLast(g, i) BY <2>2, <3>2 DEF GatLast
    <3>5. \A i, k \in E : GatNeighbours(k, i)' <=> GatNeighbours(k, i) BY <2>2 DEF GatNeighbours
    <3>6. \A i \in E : GatFirst(g, i)' <=> GatFirst(g, i) BY <2>2 DEF GatFirst
    <3> QED BY <2>1, <2>2, <3>1, <3>2, <3>3, <3>4, <3>5, <3>6 DEF GatExplained, E
  <2>4. CASE g = x.gate
    <3>1. E' = E \cup {n + 1} /\ n + 1 \notin E BY <1>2, <1>4, <2>4 DEF Gates!Entries
    <3>2. /\ gGate'[g].status = x.status /\ gGate'[g].evidence = x.evidence
          /\ gGate'[g].waiver = (x.status = "WAIVED") /\ gGate'[g].version = x.row.version + 1
          /\ x.row = gGate[g]
      BY <1>1, <1>8, <2>4 DEF Gates!Written
    <3>3. GatLast(g, n + 1)' BY <1>2, <3>2 DEF GatLast
    <3>4. ASSUME NEW i \in E
          PROVE  /\ Gates!IsFirst(g, i)' => Gates!IsFirst(g, i)
                 /\ ~Gates!IsLast(g, i)'
                 /\ \A k \in E : Gates!Follows(g, k, i)' => Gates!Follows(g, k, i)
                 /\ ~Gates!Follows(g, n + 1, i)'
      <4>1. Gates!IsFirst(g, i)' => Gates!IsFirst(g, i) BY <3>1 DEF Gates!IsFirst
      <4>2. ~Gates!IsLast(g, i)'
        <5>1. ~(n + 1 <= i) BY <1>2, <2>2
        <5> QED BY <3>1, <5>1 DEF Gates!IsLast
      <4>3. \A k \in E : Gates!Follows(g, k, i)' => Gates!Follows(g, k, i)
        BY <3>1 DEF Gates!Follows
      <4>4. ~Gates!Follows(g, n + 1, i)'
        <5>1. ~(n + 1 < i) BY <1>2, <2>2
        <5> QED BY <5>1 DEF Gates!Follows
      <4> QED BY <4>1, <4>2, <4>3, <4>4
    <3>5. Gates!IsFirst(g, n + 1)' => E = {}
      <4>1. \A k \in E : ~(n + 1 <= k) BY <1>2, <2>2
      <4> QED BY <3>1, <4>1 DEF Gates!IsFirst
    <3>6. \A k \in E : Gates!Follows(g, k, n + 1)' => Gates!IsLast(g, k)
      <4>1. \A k \in E : ~(n + 1 <= k) BY <1>2, <2>2
      <4> QED BY <3>1, <4>1 DEF Gates!Follows, Gates!IsLast
    <3>7. ~Gates!Follows(g, n + 1, n + 1)' BY <1>2 DEF Gates!Follows
    <3> HIDE DEF E
    <3>8. ASSUME NEW k \in E, Gates!IsLast(g, k) PROVE GatNeighbours(k, n + 1)'
      <4>1. gGate[g].version = gHistory[k].version /\ gGate[g].status = gHistory[k].status
        BY <2>1, <3>8 DEF GatExplained, GatLast, E
      <4> QED BY <1>2, <1>8, <2>2, <3>2, <4>1 DEF GatNeighbours
    <3>9. E = {} => GatFirst(g, n + 1)'
      <4> SUFFICES ASSUME E = {} PROVE GatFirst(g, n + 1)' OBVIOUS
      <4>1. x.row = Gates!Installed(g) BY <2>1, <3>2 DEF GatExplained, E
      <4>2. x.row.version = 1 BY <4>1, GatInstalled
      <4> QED BY <1>2, <1>8, <4>1, <4>2 DEF GatFirst
    <3>14. \A i \in E : GatFirst(g, i)' <=> GatFirst(g, i) BY <2>2 DEF GatFirst
    <3>10. \A i, k \in E : GatNeighbours(k, i)' <=> GatNeighbours(k, i) BY <2>2 DEF GatNeighbours
    <3>11. ASSUME NEW i \in E
           PROVE  /\ Gates!IsFirst(g, i)' => GatFirst(g, i)'
                  /\ Gates!IsLast(g, i)' => GatLast(g, i)'
                  /\ \A k \in E \cup {n + 1} : Gates!Follows(g, k, i)' => GatNeighbours(k, i)'
      BY <2>1, <2>2, <3>4, <3>10, <3>14 DEF GatExplained, E
    <3>12. /\ Gates!IsFirst(g, n + 1)' => GatFirst(g, n + 1)'
           /\ \A k \in E \cup {n + 1} : Gates!Follows(g, k, n + 1)' => GatNeighbours(k, n + 1)'
      BY <3>5, <3>6, <3>7, <3>8, <3>9
    <3>13. \A i \in E \cup {n + 1} :
             /\ Gates!IsFirst(g, i)' => GatFirst(g, i)'
             /\ Gates!IsLast(g, i)' => GatLast(g, i)'
             /\ \A k \in E \cup {n + 1} : Gates!Follows(g, k, i)' => GatNeighbours(k, i)'
      BY <3>3, <3>11, <3>12
    <3> QED BY <3>1, <3>13 DEF GatExplained, E
  <2> QED BY <2>3, <2>4
<1> QED BY <1>5, <1>6, <1>7, <1>9, <1>10, <1>11, <1>f

LEMMA GatRest ==
  ASSUME GatInv, \/ \E j \in Requests : Gates!Abandon(j)
                 \/ \E g \in GateCodes : Gates!Expire(g)
                 \/ UNCHANGED Gates!vars
  PROVE  GatInv'
<1> USE DEF GatInv, GatTypes
<1>1. UNCHANGED <<gGate, gHistory, gCalm>> /\ gDue' \subseteq GateCodes
  BY DEF Gates!Abandon, Gates!Expire, Gates!vars
<1>2. /\ \A k \in Requests : gJob'[k] = gJob[k] \/ gJob'[k] = Gates!Idle
      /\ gJob' \in [Requests -> GatRecord]
  BY GatIdle DEF Gates!Abandon, Gates!Expire, Gates!vars
<1>3. GatTypes' BY <1>1, <1>2
<1>4. GatVersions' BY <1>1 DEF GatVersions
<1>5. GatJobs'
  <2> SUFFICES ASSUME NEW k \in Requests PROVE GatDecided(gJob[k])' BY DEF GatJobs, GatDecided
  <2>1. GatDecided(gJob[k]) BY DEF GatJobs
  <2>2. CASE gJob'[k] = gJob[k] BY <1>1, <2>1, <2>2 DEF GatDecided
  <2>3. CASE gJob'[k] = Gates!Idle BY <2>3, GatIdle DEF GatDecided
  <2> QED BY <1>2, <2>2, <2>3
<1>6. GatCalm'
  <2> SUFFICES ASSUME gCalm PROVE GatCalm' BY <1>1 DEF GatCalm
  <2>1. \A k \in Requests : gJob'[k].op # "idle" => gJob'[k] = gJob[k] BY <1>2, GatIdle
  <2> QED BY <1>1, <2>1 DEF GatCalm, GatAlone
<1>7. Gates!ClearanceIsRecorded' BY <1>1 DEF Gates!ClearanceIsRecorded, Gates!Entries
<1>8. Gates!CalmHistoryExplains'
  BY <1>1 DEF Gates!CalmHistoryExplains, Gates!Entries, Gates!IsFirst, Gates!IsLast, Gates!Follows
<1>9. GatFresh'
  <2>1. \A k \in Requests : GatLoaded(gJob[k])'
    BY <1>1, <1>2, GatIdle DEF GatFresh, GatLoaded, Gates!Entries
  <2> QED BY <1>1, <2>1 DEF GatFresh, Gates!Entries
<1> QED BY <1>3, <1>4, <1>5, <1>6, <1>7, <1>8, <1>9

LEMMA GatStep == GatInv /\ [Gates!Next]_(Gates!vars) => GatInv'
<1> SUFFICES ASSUME GatInv, [Gates!Next]_(Gates!vars) PROVE GatInv' OBVIOUS
<1>1. CASE UNCHANGED Gates!vars BY <1>1, GatRest
<1>2. CASE Gates!Next BY <1>2, GatDecide, GatCommit, GatRest DEF Gates!Next
<1> QED BY <1>1, <1>2

LEMMA GatSafe == GatInv => Gates!GatesSafe
<1> SUFFICES ASSUME GatInv PROVE Gates!GatesSafe OBVIOUS
<1> USE DEF GatInv, GatTypes
<1>1. Gates!TypeOK
  <2>1. \A i \in DOMAIN gHistory : gHistory[i] \in GatEntry OBVIOUS
  <2>2. \A j \in Requests : gJob[j] \in GatRecord OBVIOUS
  <2> QED BY <2>1, <2>2 DEF Gates!TypeOK, GatEntry, GatRecord
<1>2. Gates!CalmReadyIsValid
  <2> SUFFICES ASSUME gCalm, Gates!Ready, NEW g \in Blockers
               PROVE  /\ g \notin gDue
                      /\ Gates!Entries(g) = {} => g \in Proven
                      /\ Gates!Entries(g) # {} => \E i \in Gates!Entries(g) :
                           Gates!IsLast(g, i) /\ gHistory[i].status \in Gates!Cleared
    BY DEF Gates!CalmReadyIsValid
  <2>1. g \in GateCodes BY GatesAssumption
  <2>2. g \notin gDue /\ gGate[g].status \in Gates!Cleared
    BY DEF Gates!Ready, Gates!Effective, Gates!Cleared
  <2>9. Gates!Entries(g) = {} => g \in Proven
    BY <2>1, <2>2 DEF Gates!ClearanceIsRecorded
  <2> SUFFICES ASSUME Gates!Entries(g) # {}
               PROVE  \E i \in Gates!Entries(g) :
                        Gates!IsLast(g, i) /\ gHistory[i].status \in Gates!Cleared
    BY <2>2, <2>9
  <2> DEFINE E == Gates!Entries(g)  n == Len(gHistory)
  <2>3. E # {} /\ E \subseteq 1 .. n /\ n \in Nat
    BY DEF Gates!Entries
  <2>4. PICK m \in {n - i : i \in E} : \A k \in {n - i : i \in E} : m <= k
    <3>1. {n - i : i \in E} \in SUBSET Nat /\ {n - i : i \in E} # {} BY <2>3
    <3> HIDE DEF E, n
    <3> QED BY <3>1, Smallest
  <2>5. PICK i \in E : m = n - i BY <2>4
  <2>6. ASSUME NEW k \in E PROVE k <= i
    <3>1. n - k \in {n - l : l \in E} OBVIOUS
    <3>2. n - i <= n - k BY <2>4, <2>5, <3>1
    <3>3. i \in Nat /\ k \in Nat /\ n \in Nat BY <2>3
    <3> HIDE DEF n
    <3> QED BY <3>2, <3>3
  <2>7. Gates!IsLast(g, i) BY <2>6 DEF Gates!IsLast
  <2>8. gHistory[i].status = gGate[g].status BY <2>1, <2>5, <2>7 DEF Gates!CalmHistoryExplains
  <2> QED BY <2>2, <2>5, <2>7, <2>8
<1> QED BY <1>1, <1>2 DEF Gates!GatesSafe

LEMMA GatMoves == [MCNext]_allVars => [Gates!Next]_(Gates!vars)
<1> SUFFICES ASSUME MCNext PROVE [Gates!Next]_(Gates!vars)
  BY DEF allVars, GatesVars, Gates!vars
<1>1. CASE focus = "gates" BY <1>1 DEF MCNext
<1>2. CASE focus # "gates" BY <1>2 DEF MCNext, Keep, GatesVars, Gates!vars
<1> QED BY <1>1, <1>2

----------------------------------------------------------------------------
(* The composite.                                                          *)

PlatformInv ==
  /\ SrcInv /\ RelInv /\ ProInv /\ PolInv /\ GatInv
  /\ SecInv /\ GwInv /\ ExtInv /\ BndInv /\ PrvInv

LEMMA PlatformAlways == MCSpec => []PlatformInv
<1>1. MCInit => PlatformInv
  BY SrcInit, RelInit, ProInit, PolInit, GatInit, SecInit, GwInit, ExtInit, BndInit, PrvInit
     DEF MCInit, PlatformInv
<1>2. PlatformInv /\ [MCNext]_allVars => PlatformInv'
  <2> SUFFICES ASSUME PlatformInv, [MCNext]_allVars PROVE PlatformInv' OBVIOUS
  <2>1. SrcInv' BY SrcMoves, SrcStep DEF PlatformInv
  <2>2. RelInv' BY RelMoves, RelStep DEF PlatformInv
  <2>3. ProInv' BY ProMoves, ProStep DEF PlatformInv
  <2>4. PolInv' BY PolMoves, PolStep DEF PlatformInv
  <2>5. GatInv' BY GatMoves, GatStep DEF PlatformInv
  <2>6. SecInv' BY SecMoves, SecStep DEF PlatformInv
  <2>7. GwInv' BY GwMoves, GwStep DEF PlatformInv
  <2>8. ExtInv' BY ExtMoves, ExtStep DEF PlatformInv
  <2>9. BndInv' BY BndMoves, BndStep DEF PlatformInv
  <2>10. PrvInv' BY PrvMoves, PrvStep DEF PlatformInv
  <2> QED BY <2>1, <2>2, <2>3, <2>4, <2>5, <2>6, <2>7, <2>8, <2>9, <2>10 DEF PlatformInv
<1> QED BY <1>1, <1>2, PTL DEF MCSpec

(* Wherever rotations stop and however they overlap, a credential is in    *)
(* force for every active source, and what is active was approved          *)
(* (datasource.py, secrets.py).                                            *)
THEOREM SourcesAreSafe == MCSpec => []SourcesSafe
<1>1. PlatformInv => SourcesSafe BY SrcSafe DEF PlatformInv
<1> QED BY <1>1, PlatformAlways, PTL

(* The artifact of an active release was approved, through copies of       *)
(* copies and overlapping reviews, and requests that do not overlap leave  *)
(* one release active (release.py).                                        *)
THEOREM ReleasesAreSafe == MCSpec => []ReleasesSafe
<1>1. PlatformInv => ReleasesSafe BY RelSafe DEF PlatformInv, ReleasesSafe
<1> QED BY <1>1, PlatformAlways, PTL

(* No skill is executable that was not reviewed with its procedure, and    *)
(* without overlaps enabled is ACTIVE (procedural.py) and a policy code    *)
(* has one active version (policy.py).                                     *)
THEOREM ReviewedAreSafe == MCSpec => []ReviewedSafe
<1>1. PlatformInv => ReviewedSafe BY ProSafe, PolSafe DEF PlatformInv, ReviewedSafe
<1> QED BY <1>1, PlatformAlways, PTL

(* Whatever decisions have been mixed in its row, a cleared gate has a     *)
(* recorded decision that cleared it on evidence; without overlaps the     *)
(* history explains the row (registry.py).                                 *)
THEOREM GatesAreSafe == MCSpec => []GatesSafe
<1>1. PlatformInv => GatesSafe BY GatSafe DEF PlatformInv, GatesSafe
<1> QED BY <1>1, PlatformAlways, PTL

(* Alerts open, circuits open and deliveries count only for what has       *)
(* happened, also when counts are lost to overlapping sessions (audit.py,  *)
(* router.py, preproduction/alerts.py).                                    *)
THEOREM CountersAreSafe == MCSpec => []CountersSafe
<1>1. PlatformInv => CountersSafe BY SecSafe, GwSafe, ExtSafe DEF PlatformInv, CountersSafe
<1> QED BY <1>1, PlatformAlways, PTL

(* A scenario is bound to an approved binding, and to its own SQLBot       *)
(* source, configured as reported (source_binding.py,                      *)
(* provision_runtime_api.py).                                              *)
THEOREM BoundSourcesAreSafe == MCSpec => []BoundSourcesSafe
<1>1. PlatformInv => BoundSourcesSafe BY BndSafe, PrvSafe DEF PlatformInv, BoundSourcesSafe
<1> QED BY <1>1, PlatformAlways, PTL

(* No step takes what is in force away, or makes it executable or          *)
(* decided, but in the ways the modules state.                             *)
THEOREM RegistryStepsHold == MCSpec => RegistrySteps
<1>1. PlatformInv /\ [MCNext]_allVars =>
        [calm /\ Active # {} /\ Active' = {} => \E s \in Active : source'[s] = "DISABLED"]_vars
  BY SrcMoves, SrcReplaced DEF PlatformInv
<1>2. PlatformInv /\ [MCNext]_allVars =>
        [Releases!Active # {} /\ Releases!Active' = {} =>
           \E j \in Requests : rJob[j].op \in {"submit", "approve"} /\ rJob'[j].op = "idle"]_(Releases!vars)
  BY RelMoves, RelReplaced DEF PlatformInv
<1>3. PlatformInv /\ [MCNext]_allVars =>
        [\A s \in Skills : pCalm /\ ~Procs!Executable(s) /\ Procs!Executable(s)' =>
           pStatus[ProcedureOf[s]] = "ACTIVE"]_(Procs!vars)
  BY ProMoves, ProRunsActive DEF PlatformInv
<1>4. PlatformInv /\ [MCNext]_allVars =>
        [yCalm /\ Policies!Allowed' # Policies!Allowed =>
           \E j \in Requests : yJob[j].op \in {"activate", "bind"} /\ yJob'[j].op = "idle"]_(Policies!vars)
  BY PolMoves, PolKeepsAccess DEF PlatformInv
<1>5. PlatformInv /\ [MCNext]_allVars =>
        [\A k \in Keys : eRow[k] \in {"FAILED", "DELIVERED"} => eRow'[k] = eRow[k]]_(External!vars)
  BY ExtMoves, ExtFinal DEF PlatformInv
<1>6. PlatformInv /\ [MCNext]_allVars =>
        [Bindings!Active # {} => Bindings!Active' # {}]_(Bindings!vars)
  BY BndMoves, BndStays DEF PlatformInv
<1> QED
  BY <1>1, <1>2, <1>3, <1>4, <1>5, <1>6, PlatformAlways, PTL
     DEF MCSpec, RegistrySteps, CalmActiveIsReplaced, Releases!ActiveIsReplaced,
         Procs!CalmExecutableRunsActive, Policies!CalmReviewKeepsAccess,
         External!OutcomeIsFinal, Bindings!StaysBound
=============================================================================
