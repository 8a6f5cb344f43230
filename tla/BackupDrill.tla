------------------------------ MODULE BackupDrill ------------------------------
(***************************************************************************)
(* Backups of the private deployment and the drills that restore them into *)
(* a schema of their own, beside the live data                             *)
(* (scripts/private_deployment.py).                                        *)
(*                                                                         *)
(* A backup is one pg_dump of the whole database, restore schemas that     *)
(* exist at that moment included; its manifest is read afterwards, by one  *)
(* statement after another, while the application writes.                  *)
(***************************************************************************)
EXTENDS Naturals

CONSTANTS
  Parts,      \* what a manifest records: table counts, business fingerprint, revision
  Backups, Drills,
  MaxWrites   \* bound: committed writes of the application

VARIABLES
  live,      \* a version of each part of the public schema
  writes,
  schemas,   \* restore schemas in the database, by their drill
  content,   \* what the schema of each drill holds
  file,      \* the dump of each backup: the parts, and the restore schemas in it
  manifest,  \* the part of the manifest of each backup that has been read
  backup,    \* where each backup is
  drill,     \* where each drill is, and the backup it restores
  dirty,     \* history: backups during which a write was committed
  lost,      \* history: drills that stopped, or failed to drop their schema
  mixed      \* history: a dump or its restore has held the schema of a drill

vars == <<live, writes, schemas, content, file, manifest, backup, drill, dirty, lost, mixed>>

None == "none"
Data == [Parts -> 0 .. MaxWrites]
NoData == [p \in Parts |-> 0]
NoFile == [data |-> NoData, extra |-> {}]
NoDrill == [at |-> "idle", of |-> None]

(* Every file and operation has its type.                                  *)
TypeOK ==
  /\ live \in Data /\ writes \in 0 .. MaxWrites
  /\ schemas \in SUBSET Drills /\ content \in [Drills -> Data]
  /\ file \in [Backups -> [data : Data, extra : SUBSET Drills]]
  /\ manifest \in [Backups -> UNION {[S -> 0 .. MaxWrites] : S \in SUBSET Parts}]
  /\ backup \in [Backups -> {"idle", "dumped", "done", "failed"}]
  /\ drill \in [Drills -> [at : {"idle", "begun", "created", "restored", "passed",
                                 "mismatch", "failed"},
                           of : Backups \cup {None}]]
  /\ dirty \in SUBSET Backups /\ lost \in SUBSET Drills /\ mixed \in BOOLEAN

Init ==
  /\ live = NoData /\ writes = 0
  /\ schemas = {} /\ content = [d \in Drills |-> NoData]
  /\ file = [b \in Backups |-> NoFile]
  /\ manifest = [b \in Backups |-> [p \in {} |-> 0]]
  /\ backup = [b \in Backups |-> "idle"]
  /\ drill = [d \in Drills |-> NoDrill]
  /\ dirty = {} /\ lost = {} /\ mixed = FALSE

(* The application commits a write that changes some of the parts.         *)
Write(S) ==
  /\ writes < MaxWrites /\ S # {}
  /\ writes' = writes + 1
  /\ live' = [p \in Parts |-> IF p \in S THEN writes + 1 ELSE live[p]]
  /\ dirty' = dirty \cup {b \in Backups : backup[b] = "dumped"}
  /\ UNCHANGED <<schemas, content, file, manifest, backup, drill, lost, mixed>>

----------------------------------------------------------------------------
(* backup.                                                                 *)

(* pg_dump, without a schema: all of them.                                 *)
Dump(b) ==
  /\ backup[b] = "idle"
  /\ file' = [file EXCEPT ![b] = [data |-> live, extra |-> schemas]]
  /\ backup' = [backup EXCEPT ![b] = "dumped"]
  /\ mixed' = (mixed \/ schemas # {})
  /\ UNCHANGED <<live, writes, schemas, content, manifest, drill, dirty, lost>>

(* table_counts, business_fingerprint and alembic_version, in an order;    *)
(* the manifest is written after the last.                                 *)
ReadPart(b, p) ==
  LET read == DOMAIN manifest[b] \cup {p} IN
  /\ backup[b] = "dumped" /\ p \notin DOMAIN manifest[b]
  /\ manifest' = [manifest EXCEPT ![b] =
       [q \in read |-> IF q = p THEN live[p] ELSE manifest[b][q]]]
  /\ backup' = [backup EXCEPT ![b] = IF read = Parts THEN "done" ELSE "dumped"]
  /\ UNCHANGED <<live, writes, schemas, content, file, drill, dirty, lost, mixed>>

(* A command fails or the script stops: a dump without a manifest.         *)
BackupFails(b) ==
  /\ backup[b] = "dumped"
  /\ backup' = [backup EXCEPT ![b] = "failed"]
  /\ UNCHANGED <<live, writes, schemas, content, file, manifest, drill, dirty, lost, mixed>>

----------------------------------------------------------------------------
(* restore_drill.                                                          *)

(* The file has the size and the digest that its manifest tells.           *)
Begin(d, b) ==
  /\ drill[d].at = "idle" /\ backup[b] = "done"
  /\ drill' = [drill EXCEPT ![d] = [at |-> "begun", of |-> b]]
  /\ UNCHANGED <<live, writes, schemas, content, file, manifest, backup, dirty, lost, mixed>>

(* A random name; one that exists is refused.                              *)
CreateSchema(d) ==
  /\ drill[d].at = "begun" /\ d \notin schemas
  /\ schemas' = schemas \cup {d}
  /\ drill' = [drill EXCEPT ![d].at = "created"]
  /\ UNCHANGED <<live, writes, content, file, manifest, backup, dirty, lost, mixed>>

(* pg_restore to psql, statement by statement: what names public is        *)
(* renamed, what names another schema is not.                              *)
Restore(d) ==
  LET f == file[drill[d].of] IN
  /\ drill[d].at = "created" /\ f.extra \cap schemas = {}
  /\ schemas' = schemas \cup f.extra
  /\ content' = [content EXCEPT ![d] = f.data]
  /\ drill' = [drill EXCEPT ![d].at = "restored"]
  /\ UNCHANGED <<live, writes, file, manifest, backup, dirty, lost, mixed>>

(* Variant: one part is compared.                                          *)
ReconcilesSome(d) == \E p \in Parts : content[d][p] = manifest[drill[d].of][p]

(* What is compared with the manifest.                                     *)
Reconciles(d) == \A p \in Parts : content[d][p] = manifest[drill[d].of][p]

(* The comparison, and the finally block: the schema is dropped.           *)
Verify(d) ==
  /\ drill[d].at = "restored"
  /\ drill' = [drill EXCEPT ![d].at = IF Reconciles(d) THEN "passed" ELSE "mismatch"]
  /\ schemas' = schemas \ {d}
  /\ UNCHANGED <<live, writes, content, file, manifest, backup, dirty, lost, mixed>>

(* A command fails, the restore at a schema that exists or anywhere: some  *)
(* of its statements were executed, and finally drops what was created.    *)
DrillFails(d, made) ==
  /\ drill[d].at \in {"begun", "created", "restored"}
  /\ made \subseteq (IF drill[d].at = "created" THEN file[drill[d].of].extra \ schemas ELSE {})
  /\ drill' = [drill EXCEPT ![d].at = "failed"]
  /\ schemas' = (schemas \cup made) \ (IF drill[d].at = "begun" THEN {} ELSE {d})
  /\ UNCHANGED <<live, writes, content, file, manifest, backup, dirty, lost, mixed>>

(* The script stops, or DROP SCHEMA fails.                                 *)
DrillLost(d) ==
  /\ drill[d].at \in {"begun", "created", "restored"}
  /\ drill' = [drill EXCEPT ![d].at = "failed"]
  /\ lost' = lost \cup {d}
  /\ UNCHANGED <<live, writes, schemas, content, file, manifest, backup, dirty, mixed>>

Next ==
  \/ \E S \in SUBSET Parts : Write(S)
  \/ \E b \in Backups :
       \/ Dump(b) \/ BackupFails(b)
       \/ \E p \in Parts : ReadPart(b, p)
  \/ \E d \in Drills :
       \/ \E b \in Backups : Begin(d, b)
       \/ CreateSchema(d) \/ Restore(d) \/ Verify(d)
       \/ \E made \in SUBSET Drills : DrillFails(d, made)
       \/ DrillLost(d)

Spec == Init /\ [][Next]_vars

----------------------------------------------------------------------------
(* Properties.                                                             *)

(* A drill that passed shows that the manifest describes the dump, however *)
(* many writes came between the two (restore_drill).                       *)
PassedIsFaithful ==
  \A d \in Drills : drill[d].at = "passed" => manifest[drill[d].of] = file[drill[d].of].data

(* A drill that finds a mismatch restores a backup that a write came into: *)
(* a quiet backup reconciles (backup).                                     *)
QuietBackupReconciles == \A d \in Drills : drill[d].at = "mismatch" => drill[d].of \in dirty

(* A restore schema in the database is that of a drill under way, of one   *)
(* that was stopped, or one that a dump took along: a drill that ended     *)
(* leaves nothing, unless backups and drills overlap (restore_drill).      *)
NothingIsLeft ==
  \A d \in schemas : drill[d].at \in {"created", "restored"} \/ d \in lost \/ mixed

DrillsSafe == TypeOK /\ PassedIsFaithful /\ QuietBackupReconciles /\ NothingIsLeft

(* deploy/private/README.md: the drill deletes the restore schema; that no *)
(* schema stays of a drill that ended is not so when a backup was taken    *)
(* during another drill.                                                   *)
EndedLeavesNothing == \A d \in schemas \ lost : drill[d].at \in {"created", "restored"}
=============================================================================
