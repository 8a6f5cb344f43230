---------------------------- MODULE WorkingMemory ----------------------------
(***************************************************************************)
(* The working memory of one user in Redis: a key per session with the     *)
(* state of the work, and a set that registers the keys, by which a purge  *)
(* finds them (memory/working.py; deletion.py _clear_working_registry).    *)
(*                                                                         *)
(* Every command is atomic, nothing joins two of them; any command may     *)
(* fail or be the last of its process, and the service then answers        *)
(* DEGRADED.                                                               *)
(***************************************************************************)
CONSTANTS
  Sessions,   \* sessions of the user, each with one key
  States,     \* encoded states
  Requests    \* concurrent saves, closes and purges

VARIABLES
  key,        \* the value of the key of each session
  registry,   \* the sessions whose keys are registered
  orphaned,   \* history: keys whose registration a failure or an overlap may have lost
  job         \* what each request is about to do

vars == <<key, registry, orphaned, job>>

None == "none"
NoJob == [op |-> "idle", session |-> None, state |-> None, found |-> {}]

(* Every key and request has its type.                                     *)
TypeOK ==
  /\ key \in [Sessions -> States \cup {None}]
  /\ registry \in SUBSET Sessions /\ orphaned \in SUBSET Sessions
  /\ job \in [Requests -> [op : {"idle", "save", "register", "close", "unregister", "purge"},
                           session : Sessions \cup {None}, state : States \cup {None},
                           found : SUBSET Sessions]]

Init ==
  /\ key = [s \in Sessions |-> None]
  /\ registry = {} /\ orphaned = {}
  /\ job = [j \in Requests |-> NoJob]

Done(j) == job' = [job EXCEPT ![j] = NoJob]
Held == {s \in Sessions : key[s] # None}

(* save: GET; a state that is stored already is neither written nor        *)
(* registered again.                                                       *)
SaveGet(j, s, v) ==
  /\ job[j].op = "idle"
  /\ job' = IF key[s] = v THEN job
            ELSE [job EXCEPT ![j] = [NoJob EXCEPT !.op = "save", !.session = s, !.state = v]]
  /\ UNCHANGED <<key, registry, orphaned>>

(* Variant: the key is only registered when it is new.                     *)
SaveSetOnce(j) ==
  LET s == job[j].session IN
  /\ job[j].op = "save"
  /\ key' = [key EXCEPT ![s] = job[j].state]
  /\ orphaned' = orphaned \ {s}
  /\ IF key[s] = None THEN job' = [job EXCEPT ![j].op = "register"] ELSE Done(j)
  /\ UNCHANGED registry

(* SET of a state that differs, whether or not the key was registered:     *)
(* what was lost before is registered again.                               *)
SaveSet(j) ==
  LET s == job[j].session IN
  /\ job[j].op = "save"
  /\ key' = [key EXCEPT ![s] = job[j].state]
  /\ orphaned' = orphaned \ {s}
  /\ job' = [job EXCEPT ![j].op = "register"]
  /\ UNCHANGED registry

SaveRegister(j) ==
  /\ job[j].op = "register"
  /\ registry' = registry \cup {job[j].session}
  /\ orphaned' = orphaned \ {job[j].session}
  /\ Done(j)
  /\ UNCHANGED key

(* close: DEL, then SREM.                                                  *)
CloseDelete(j, s) ==
  /\ job[j].op = "idle"
  /\ key' = [key EXCEPT ![s] = None]
  /\ orphaned' = orphaned \ {s}
  /\ job' = [job EXCEPT ![j] = [NoJob EXCEPT !.op = "unregister", !.session = s]]
  /\ UNCHANGED registry

(* A save that has set the key since is registered no more.                *)
CloseUnregister(j) ==
  LET s == job[j].session IN
  /\ job[j].op = "unregister"
  /\ registry' = registry \ {s}
  /\ orphaned' = IF key[s] # None THEN orphaned \cup {s} ELSE orphaned
  /\ Done(j)
  /\ UNCHANGED key

(* The purge of the user, the direct one and the delete event of the       *)
(* registry alike: SMEMBERS, then one DEL of the members and the registry. *)
PurgeMembers(j) ==
  /\ job[j].op = "idle"
  /\ job' = [job EXCEPT ![j] = [NoJob EXCEPT !.op = "purge", !.found = registry]]
  /\ UNCHANGED <<key, registry, orphaned>>

(* What was registered since SMEMBERS loses its registration and keeps its *)
(* key.                                                                    *)
PurgeDelete(j) ==
  /\ job[j].op = "purge"
  /\ key' = [s \in Sessions |-> IF s \in job[j].found THEN None ELSE key[s]]
  /\ registry' = {}
  /\ orphaned' = (orphaned \cup (registry \cap Held)) \ job[j].found
  /\ Done(j)

(* The key expires; its registration stays.                                *)
Expire(s) ==
  /\ key[s] # None
  /\ key' = [key EXCEPT ![s] = None]
  /\ orphaned' = orphaned \ {s}
  /\ UNCHANGED <<registry, job>>

(* A command fails or the process stops: what was set may stay             *)
(* unregistered.                                                           *)
Degraded(j) ==
  /\ job[j].op # "idle"
  /\ orphaned' = orphaned \cup {s \in Held : job[j].op = "register" /\ job[j].session = s}
  /\ Done(j)
  /\ UNCHANGED <<key, registry>>

Next ==
  \/ \E j \in Requests :
       \/ \E s \in Sessions, v \in States : SaveGet(j, s, v)
       \/ SaveSet(j) \/ SaveRegister(j)
       \/ \E s \in Sessions : CloseDelete(j, s)
       \/ CloseUnregister(j)
       \/ PurgeMembers(j) \/ PurgeDelete(j)
       \/ Degraded(j)
  \/ \E s \in Sessions : Expire(s)

Spec == Init /\ [][Next]_vars

----------------------------------------------------------------------------
(* A key that a purge cannot find is about to be registered, or since the  *)
(* last save that changed it one of three things happened: that save       *)
(* failed after SET, a close that began before it ended took the           *)
(* registration away, or a purge deleted the registry between SMEMBERS and *)
(* DEL.  Nothing else hides a key from a purge, saving, closing and expiry *)
(* in any order included (working.py).                                     *)
PurgeFindsKeys ==
  \A s \in Held \ registry :
    s \in orphaned \/ \E j \in Requests : job[j].op = "register" /\ job[j].session = s

(* The registry of working keys and its types together (working.py).       *)
WorkingSafe == TypeOK /\ PurgeFindsKeys
=============================================================================
