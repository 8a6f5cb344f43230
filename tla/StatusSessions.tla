--------------------------- MODULE StatusSessions ---------------------------
(***************************************************************************)
(* What the registries of the platform share.  A handler loads rows,       *)
(* decides from their statuses, and commits the statuses it has planned;   *)
(* nothing is locked in between (core/database.py: no autoflush, no expiry *)
(* on commit), so a plan may overwrite what others have committed since.   *)
(* A status equal to the loaded one is not written.                        *)
(***************************************************************************)

(* A plan over the rows of S writes the rows it does not KEEP.             *)
NoPlan(S) == [r \in S |-> "KEEP"]

Applied(status, plan) ==
  [r \in DOMAIN status |-> IF plan[r] = "KEEP" THEN status[r] ELSE plan[r]]

(* The plan that gives the rows of A the status a and, after that, the     *)
(* rows of B the status b, as far as they do not have it.                  *)
Writes(status, A, a, B, b) ==
  [r \in DOMAIN status |->
     LET new == IF r \in B THEN b ELSE IF r \in A THEN a ELSE status[r]
     IN IF new = status[r] THEN "KEEP" ELSE new]

(* No other session is under way.                                          *)
Alone(job, j) == \A k \in DOMAIN job : k # j => job[k].op = "idle"
=============================================================================
