---------------------------- MODULE MemoryFacts ----------------------------
(***************************************************************************)
(* The long-term memory of a user: one semantic key whose values are       *)
(* proposed, confirmed as versions, recalled, aged and forgotten           *)
(* (memory/semantic.py, writer.py, retrieval.py, signals.py, lifecycle.py) *)
(* and the episodes of analysis runs with their feedback                   *)
(* (memory/episodic.py, orchestration/memory_skills.py).                   *)
(*                                                                         *)
(* A session reads rows, decides and commits once; no row is locked and an *)
(* attribute equal to the value it was loaded with is not written.  Any    *)
(* session may fail and then writes nothing.                               *)
(*                                                                         *)
(* Times are left out: the age of a record is chosen when it is read, and  *)
(* a hold shows as a record that is kept.  Deletion is one step here (its  *)
(* protocol is MemoryForget), and so is what maintain commits (its task is *)
(* MemoryMaintain).                                                        *)
(***************************************************************************)
EXTENDS Naturals

CONSTANTS
  MaxVersion,   \* bound: versions of the fact
  Episodes,     \* analysis runs, one record each
  Candidates,   \* memory_write_candidate rows of the fact
  Values,       \* values the fact may take
  Sessions      \* concurrent requests and workers

Erased == "erased"

ASSUME FactsAssumption ==
  MaxVersion \in Nat /\ Erased \notin Values /\ Episodes \cap 0 .. MaxVersion = {}

Versions == 1 .. MaxVersion
Records  == Versions \cup Episodes

Live    == {"ACTIVE", "REDUCED_RANK"}
Retired == {"COLD", "ARCHIVED", "REVOKED"}      \* what maintain may end a record as
Status  == {"NONE", "SUPERSEDED", "DELETED"} \cup Live \cup Retired

VARIABLES
  cand,    \* memory_write_candidate: status and value
  rec,     \* memory_record: status, valid_to set, deleted_at set, content
  job      \* what each session holds

vars == <<cand, rec, job>>

NoRecord == [status |-> "NONE", ended |-> FALSE, deleted |-> FALSE, value |-> Erased]
Keep     == [r \in Records |-> "KEEP"]
NoJob    == [op |-> "idle", cand |-> "none", seen |-> "NONE", version |-> 0,
             value |-> Erased, to |-> Keep, episode |-> {}]

Ops == {"idle", "duplicate", "max", "insert", "reject", "recall", "feedback", "maintain"}

(* Every row and session has its type.                                     *)
TypeOK ==
  /\ cand \in [Candidates -> [status : {"NONE", "CANDIDATE", "ACTIVE", "REJECTED"},
                              value : Values \cup {Erased}]]
  /\ rec \in [Records -> [status : Status, ended : BOOLEAN, deleted : BOOLEAN,
                          value : Values \cup {Erased}]]
  /\ \A j \in Sessions :
       /\ job[j].op \in Ops /\ job[j].cand \in Candidates \cup {"none"}
       /\ job[j].version \in 0 .. MaxVersion + 1
       /\ job[j].to \in [Records -> Status \cup {"KEEP"}]
       /\ job[j].episode \in SUBSET Episodes

Init ==
  /\ cand = [c \in Candidates |-> [status |-> "NONE", value |-> Erased]]
  /\ rec = [r \in Records |-> NoRecord]
  /\ job = [j \in Sessions |-> NoJob]

(* What the services call recallable: the filter of retrieve, replay and   *)
(* search, expiry aside.                                                   *)
Recallable(r) == rec[r].status \in Live /\ ~rec[r].deleted /\ ~rec[r].ended

Begin(j, fields) == job' = [job EXCEPT ![j] = fields]
Done(j)          == Begin(j, NoJob)

----------------------------------------------------------------------------
(* The semantic fact.                                                      *)

(* propose, or the pipeline's submit, which rejects what a live record     *)
(* already says.  PENDING_APPROVAL is treated like CANDIDATE everywhere.   *)
Propose(c, v, status) ==
  /\ cand[c].status = "NONE"
  /\ status = "REJECTED" =>
       \E r \in Versions : rec[r].status \in Live /\ ~rec[r].deleted /\ rec[r].value = v
  /\ cand' = [cand EXCEPT ![c] = [status |-> status, value |-> v]]
  /\ UNCHANGED <<rec, job>>

LiveVersions == {r \in Versions : rec[r].status \in Live}
Highest(S)   == CHOOSE r \in S : \A q \in S : q <= r

(* confirm: the candidate, whatever its status, and the newest live        *)
(* version of the fact.                                                    *)
ConfirmRead(j, c) ==
  /\ job[j].op = "idle" /\ cand[c].status # "NONE"
  /\ LET old  == IF LiveVersions = {} THEN 0 ELSE Highest(LiveVersions)
         same == old # 0 /\ rec[old].value = cand[c].value
     IN Begin(j, [NoJob EXCEPT
          !.op = IF same THEN "duplicate" ELSE "max",
          !.cand = c, !.seen = cand[c].status, !.value = cand[c].value,
          !.to = [r \in Records |-> IF r = old THEN "SUPERSEDED" ELSE "KEEP"]])
  /\ UNCHANGED <<cand, rec>>

(* The highest version of the fact, live or not.                           *)
ConfirmMax(j) ==
  /\ job[j].op = "max"
  /\ LET used == {r \in Versions : rec[r].status # "NONE"}
     IN Begin(j, [job[j] EXCEPT !.op = "insert",
                                !.version = IF used = {} THEN 1 ELSE Highest(used) + 1])
  /\ UNCHANGED <<cand, rec>>

(* The status this session gives its candidate.                            *)
CandidateTo(j, status) ==
  cand' = IF job[j].seen = status THEN cand
          ELSE [cand EXCEPT ![job[j].cand].status = status]

(* Variant: the version that says the same is superseded first.            *)
ConfirmDuplicateSupersedes(j) ==
  /\ job[j].op = "duplicate"
  /\ CandidateTo(j, "REJECTED")
  /\ rec' = [r \in Records |-> IF job[j].to[r] = "KEEP" THEN rec[r]
                               ELSE [rec[r] EXCEPT !.status = "SUPERSEDED", !.ended = TRUE]]
  /\ Done(j)

(* DUPLICATE_ACTIVE_MEMORY.                                                *)
ConfirmDuplicate(j) ==
  /\ job[j].op = "duplicate"
  /\ CandidateTo(j, "REJECTED")
  /\ Done(j)
  /\ UNCHANGED rec

(* Variant: the end of validity of the old version is not set.             *)
ConfirmCommitOpen(j) ==
  LET new == job[j].version IN
  /\ job[j].op = "insert"
  /\ new \in Versions /\ rec[new].status = "NONE"
  /\ rec' = [r \in Records |->
       IF r = new THEN [NoRecord EXCEPT !.status = "ACTIVE", !.value = job[j].value]
       ELSE IF job[j].to[r] = "KEEP" THEN rec[r]
       ELSE [rec[r] EXCEPT !.status = "SUPERSEDED"]]
  /\ CandidateTo(j, "ACTIVE")
  /\ Done(j)

(* The old version is superseded and the new one inserted, in one commit;  *)
(* the key on (duplicate_hash, version) refuses a version that exists.     *)
ConfirmCommit(j) ==
  LET new == job[j].version IN
  /\ job[j].op = "insert"
  /\ new \in Versions /\ rec[new].status = "NONE"
  /\ rec' = [r \in Records |->
       IF r = new THEN [NoRecord EXCEPT !.status = "ACTIVE", !.value = job[j].value]
       ELSE IF job[j].to[r] = "KEEP" THEN rec[r]
       ELSE [rec[r] EXCEPT !.status = "SUPERSEDED", !.ended = TRUE]]
  /\ CandidateTo(j, "ACTIVE")
  /\ Done(j)

RejectRead(j, c) ==
  /\ job[j].op = "idle" /\ cand[c].status # "NONE"
  /\ Begin(j, [NoJob EXCEPT !.op = "reject", !.cand = c, !.seen = cand[c].status])
  /\ UNCHANGED <<cand, rec>>

RejectCommit(j) ==
  /\ job[j].op = "reject"
  /\ CandidateTo(j, "REJECTED")
  /\ Done(j)
  /\ UNCHANGED rec

----------------------------------------------------------------------------
(* Recall, episodes and feedback.                                          *)

(* retrieve, replay and search: apply_recall_signal makes a recalled       *)
(* REDUCED_RANK record ACTIVE; other recalls write no status.              *)
RecallRead(j, S) ==
  /\ job[j].op = "idle"
  /\ S # {} /\ \A r \in S : Recallable(r) /\ rec[r].status = "REDUCED_RANK"
  /\ Begin(j, [NoJob EXCEPT !.op = "recall",
                 !.to = [r \in Records |-> IF r \in S THEN "ACTIVE" ELSE "KEEP"]])
  /\ UNCHANGED <<cand, rec>>

RecallCommit(j) ==
  /\ job[j].op = "recall"
  /\ rec' = [r \in Records |-> IF job[j].to[r] = "KEEP" THEN rec[r]
                               ELSE [rec[r] EXCEPT !.status = job[j].to[r]]]
  /\ Done(j)
  /\ UNCHANGED cand

(* record_success: one record per run, version 1 of its own hash.          *)
RecordEpisode(e, v) ==
  /\ rec[e].status = "NONE"
  /\ rec' = [rec EXCEPT ![e] = [NoRecord EXCEPT !.status = "ACTIVE", !.value = v]]
  /\ UNCHANGED <<cand, job>>

(* FeedbackHandler.record reads the episode and rewrites its whole         *)
(* structured value with the rating in it.                                 *)
FeedbackRead(j, e) ==
  /\ job[j].op = "idle"
  /\ rec[e].status = "ACTIVE" /\ ~rec[e].deleted
  /\ Begin(j, [NoJob EXCEPT !.op = "feedback", !.value = rec[e].value, !.episode = {e}])
  /\ UNCHANGED <<cand, rec>>

FeedbackCommit(j) ==
  /\ job[j].op = "feedback"
  /\ rec' = [r \in Records |-> IF r \in job[j].episode THEN [rec[r] EXCEPT !.value = job[j].value]
                               ELSE rec[r]]
  /\ Done(j)
  /\ UNCHANGED cand

(* _anonymize, at the commit of the deletion that carries it.              *)
Forget(r) ==
  /\ rec[r].status # "NONE" /\ ~rec[r].deleted
  /\ rec' = [rec EXCEPT ![r] = [status |-> "DELETED", ended |-> TRUE, deleted |-> TRUE,
                                value |-> Erased]]
  /\ UNCHANGED <<cand, job>>

----------------------------------------------------------------------------
(* maintain.                                                               *)

(* What maintain makes of a record of that age; "held" stands for a held   *)
(* and for a young one.  An expired fact is REVOKED, an episode ARCHIVED.  *)
Aged(r, age) ==
  LET old == rec[r].status
      new == CASE age = "expired" -> IF r \in Episodes THEN "ARCHIVED" ELSE "REVOKED"
               [] age = "90d"     -> "COLD"
               [] age = "30d"     -> IF old = "ACTIVE" THEN "REDUCED_RANK" ELSE old
               [] age = "held"    -> old
  IN IF new = old \/ old \notin Live \cup {"COLD", "ARCHIVED"} \/ rec[r].deleted
     THEN "KEEP" ELSE new

Stored == {r \in Records : rec[r].status # "NONE"}

MaintainRead(j, age) ==
  /\ job[j].op = "idle"
  /\ Begin(j, [NoJob EXCEPT !.op = "maintain", !.to =
       [r \in Records |-> IF r \in DOMAIN age THEN Aged(r, age[r]) ELSE "KEEP"]])
  /\ UNCHANGED <<cand, rec>>

MaintainCommit(j) ==
  /\ job[j].op = "maintain"
  /\ rec' = [r \in Records |->
       IF job[j].to[r] = "KEEP" THEN rec[r]
       ELSE [rec[r] EXCEPT !.status = job[j].to[r], !.ended = @ \/ job[j].to[r] \in Retired]]
  /\ Done(j)
  /\ UNCHANGED cand

(* A request fails, or its process or the worker's stops.                  *)
Abandon(j) ==
  /\ job[j].op # "idle"
  /\ Done(j)
  /\ UNCHANGED <<cand, rec>>

Fact(j) ==
  \/ \E c \in Candidates : ConfirmRead(j, c) \/ RejectRead(j, c)
  \/ ConfirmMax(j) \/ ConfirmDuplicate(j) \/ ConfirmCommit(j) \/ RejectCommit(j)
  \/ \E S \in SUBSET Records : RecallRead(j, S)
  \/ RecallCommit(j)
  \/ \E e \in Episodes : FeedbackRead(j, e)
  \/ FeedbackCommit(j)

Maintain(j) ==
  \/ \E age \in [Stored -> {"held", "30d", "90d", "expired"}] : MaintainRead(j, age)
  \/ MaintainCommit(j)

Next ==
  \/ \E c \in Candidates, v \in Values, s \in {"CANDIDATE", "REJECTED"} : Propose(c, v, s)
  \/ \E e \in Episodes, v \in Values : RecordEpisode(e, v)
  \/ \E r \in Records : Forget(r)
  \/ \E j \in Sessions : Fact(j) \/ Maintain(j) \/ Abandon(j)

Spec == Init /\ [][Next]_vars

----------------------------------------------------------------------------
(* Properties.                                                             *)

(* A record that was superseded, expired, went cold or was forgotten never *)
(* answers a recall again.  A recall or an aging that loaded it before     *)
(* writes a live status over it; the end of validity, which no handler     *)
(* clears, is what keeps it out (retrieval.py, valid_to).                  *)
EndedStaysEnded ==
  [][\A r \in Records : rec[r].status # "NONE" /\ ~Recallable(r) => ~Recallable(r)']_vars

(* Whatever confirmations race, a version is superseded only by a higher   *)
(* one: confirming a fact never leaves the user without its newest value   *)
(* (SemanticMemoryService.confirm).                                        *)
SupersededHasSuccessor ==
  \A r \in Versions : rec[r].status = "SUPERSEDED" =>
    \E q \in Versions : q > r /\ rec[q].status # "NONE"

(* The invariants of facts and candidates (semantic.py, lifecycle.py).     *)
FactsSafe == TypeOK /\ SupersededHasSuccessor

(* docs/platformization/p2b/06_MEMORY_WRITE_AND_CONFLICT.md: a new version *)
(* is ACTIVE only when the old one is SUPERSEDED.                          *)
OneLiveVersion == \A q, r \in Versions : Recallable(q) /\ Recallable(r) => q = r

(* docs/platformization/memory41/00_MEMORY_LIFECYCLE_41_IMPLEMENTATION.md: *)
(* the content of a deleted record is anonymised.                          *)
DeletedIsErased == \A r \in Records : rec[r].deleted => rec[r].value = Erased
=============================================================================
