--------------------------- MODULE IdentitySessions ---------------------------
(***************************************************************************)
(* Logins through the identity provider, the sessions they open in Redis,  *)
(* the requests that are served under them, and their logout               *)
(* (preproduction/oidc.py, TrustedIdentityMiddleware in                    *)
(* governance/identity.py, api/dependencies.py).                           *)
(*                                                                         *)
(* One person with one local user and one principal, which an operator may *)
(* switch off and on in the database at any moment.  A request looks at    *)
(* user, session, principal and user again, one after the other.           *)
(***************************************************************************)
CONSTANTS
  States,     \* authorization transactions, by their state parameter
  Callbacks,  \* concurrent callbacks
  Sids,       \* session ids
  Requests    \* concurrent requests with a token

VARIABLES
  transaction, \* the Redis entry of each state
  live,        \* sessions in Redis
  upstream,    \* sessions of the identity provider that have not been ended
  origin,      \* the transaction each session was opened for
  issued,      \* sessions whose access token was handed out
  log,         \* governance events
  inForce,     \* which of user and principal are active
  callback,    \* where each callback is
  request,     \* where each request is; off: what has not been in force since it began
  ended        \* history: sessions a logout has answered for

vars == <<transaction, live, upstream, origin, issued, log, inForce, callback, request, ended>>

None == "none"
IdleCallback == [at |-> "idle", s |-> None, sid |-> None]
IdleRequest == [at |-> "idle", sid |-> None, off |-> {}]
Admitted == {"in", "found", "deleted", "posted", "failed"}

(* Every entry, callback and request has its type.                         *)
TypeOK ==
  /\ transaction \in [States -> {"new", "open", "gone"}]
  /\ live \subseteq Sids /\ upstream \subseteq Sids
  /\ origin \in [Sids -> States \cup {None}] /\ issued \subseteq Sids
  /\ log \subseteq {"LOGIN", "SUCCESS", "PARTIAL"} \X Sids
  /\ inForce \subseteq {"user", "principal"}
  /\ callback \in [Callbacks -> [at : {"idle", "consumed", "exchanged", "resolved", "stored"},
                                 s : States \cup {None}, sid : Sids \cup {None}]]
  /\ request \in [Requests -> [at : {"idle", "user", "session", "principal", "again"} \cup Admitted,
                               sid : Sids \cup {None},
                               off : SUBSET {"user", "principal", "session"}]]
  /\ ended \subseteq Sids

Init ==
  /\ transaction = [s \in States |-> "new"]
  /\ live = {} /\ upstream = {} /\ origin = [i \in Sids |-> None]
  /\ issued = {} /\ log = {} /\ inForce = {"user", "principal"}
  /\ callback = [c \in Callbacks |-> IdleCallback]
  /\ request = [r \in Requests |-> IdleRequest]
  /\ ended = {}

----------------------------------------------------------------------------
(* Login.                                                                  *)

Start(s) ==
  /\ transaction[s] = "new"
  /\ transaction' = [transaction EXCEPT ![s] = "open"]
  /\ UNCHANGED <<live, upstream, origin, issued, log, inForce, callback, request, ended>>

TransactionExpires(s) ==
  /\ transaction[s] = "open"
  /\ transaction' = [transaction EXCEPT ![s] = "gone"]
  /\ UNCHANGED <<live, upstream, origin, issued, log, inForce, callback, request, ended>>

(* Variant: the entry is read and left to expire.                          *)
ConsumeKeeping(c, s) ==
  /\ callback[c].at = "idle" /\ transaction[s] = "open"
  /\ callback' = [callback EXCEPT ![c] = [at |-> "consumed", s |-> s, sid |-> None]]
  /\ UNCHANGED <<transaction, live, upstream, origin, issued, log, inForce, request, ended>>

(* consume_transaction: GETDEL; a state that is not there is refused.      *)
Consume(c, s) ==
  /\ callback[c].at = "idle" /\ transaction[s] = "open"
  /\ transaction' = [transaction EXCEPT ![s] = "gone"]
  /\ callback' = [callback EXCEPT ![c] = [at |-> "consumed", s |-> s, sid |-> None]]
  /\ UNCHANGED <<live, upstream, origin, issued, log, inForce, request, ended>>

(* The provider takes the code and opens a session of its own; nothing is  *)
(* assumed of how often it takes one.                                      *)
Exchange(c, i) ==
  /\ callback[c].at = "consumed"
  /\ origin[i] = None /\ i \notin upstream
  /\ upstream' = upstream \cup {i}
  /\ callback' = [callback EXCEPT ![c].at = "exchanged", ![c].sid = i]
  /\ UNCHANGED <<transaction, live, origin, issued, log, inForce, request, ended>>

(* The claims name a principal that is ACTIVE ...                          *)
Resolve(c) ==
  /\ callback[c].at = "exchanged" /\ "principal" \in inForce
  /\ callback' = [callback EXCEPT ![c].at = "resolved"]
  /\ UNCHANGED <<transaction, live, upstream, origin, issued, log, inForce, request, ended>>

(* ... whose user is active: the session is stored.                        *)
CreateSession(c) ==
  LET i == callback[c].sid IN
  /\ callback[c].at = "resolved" /\ "user" \in inForce
  /\ live' = live \cup {i} /\ origin' = [origin EXCEPT ![i] = callback[c].s]
  /\ callback' = [callback EXCEPT ![c].at = "stored"]
  /\ UNCHANGED <<transaction, upstream, issued, log, inForce, request, ended>>

(* The event is committed before the token is made and handed out.         *)
Issue(c) ==
  LET i == callback[c].sid IN
  /\ callback[c].at = "stored"
  /\ log' = log \cup {<<"LOGIN", i>>} /\ issued' = issued \cup {i}
  /\ callback' = [callback EXCEPT ![c] = IdleCallback]
  /\ UNCHANGED <<transaction, live, upstream, origin, inForce, request, ended>>

(* A refusal, an error or a crash at any of these steps; a session that is *)
(* stored stays, without a token.                                          *)
CallbackFails(c) ==
  /\ callback[c].at # "idle"
  /\ callback' = [callback EXCEPT ![c] = IdleCallback]
  /\ UNCHANGED <<transaction, live, upstream, origin, issued, log, inForce, request, ended>>

----------------------------------------------------------------------------
(* Requests.                                                               *)

Arrive(r, i) ==
  /\ request[r].at = "idle" /\ i \in issued
  /\ request' = [request EXCEPT ![r] =
       [at |-> "user", sid |-> i,
        off |-> ({"user", "principal"} \ inForce) \cup {x \in {"session"} : i \in ended}]]
  /\ UNCHANGED <<transaction, live, upstream, origin, issued, log, inForce, callback, ended>>

(* The middleware: db.get(User), get_session, db.get(Principal); then      *)
(* current_user loads the user again in the session of the handler.        *)
Check(r, from, holds, to) ==
  /\ request[r].at = from /\ holds
  /\ request' = [request EXCEPT ![r].at = to]
  /\ UNCHANGED <<transaction, live, upstream, origin, issued, log, inForce, callback, ended>>

CheckUser(r) == Check(r, "user", "user" \in inForce, "session")

CheckSession(r) == Check(r, "session", request[r].sid \in live, "principal")
CheckPrincipal(r) == Check(r, "principal", "principal" \in inForce, "again")
Admit(r) == Check(r, "again", "user" \in inForce, "in")

(* The request is refused, or served and answered.                         *)
Leave(r) ==
  /\ request[r].at \in {"user", "session", "principal", "again", "in"}
  /\ request' = [request EXCEPT ![r] = IdleRequest]
  /\ UNCHANGED <<transaction, live, upstream, origin, issued, log, inForce, callback, ended>>

----------------------------------------------------------------------------
(* Logout, in a request that was admitted.                                 *)

FindSession(r) == Check(r, "in", request[r].sid \in live, "found")

DeleteSession(r) ==
  /\ request[r].at = "found"
  /\ live' = live \ {request[r].sid}
  /\ request' = [request EXCEPT ![r].at = "deleted"]
  /\ UNCHANGED <<transaction, upstream, origin, issued, log, inForce, callback, ended>>

(* The provider ends its session, and the answer arrives or does not.      *)
EndUpstream(r, heard) ==
  /\ request[r].at = "deleted"
  /\ upstream' = upstream \ {request[r].sid}
  /\ request' = [request EXCEPT ![r].at = IF heard THEN "posted" ELSE "failed"]
  /\ UNCHANGED <<transaction, live, origin, issued, log, inForce, callback, ended>>

UpstreamFails(r) == Check(r, "deleted", TRUE, "failed")

Answer(r) ==
  LET i == request[r].sid IN
  /\ request[r].at \in {"posted", "failed"}
  /\ log' = log \cup {<<IF request[r].at = "posted" THEN "SUCCESS" ELSE "PARTIAL", i>>}
  /\ ended' = ended \cup {i}
  /\ request' = [request EXCEPT ![r] = IdleRequest]
  /\ UNCHANGED <<transaction, live, upstream, origin, issued, inForce, callback>>

(* A logout that stops half-way: the session is gone and nobody was told.  *)
LogoutStops(r) ==
  /\ request[r].at \in {"found", "deleted", "posted", "failed"}
  /\ request' = [request EXCEPT ![r] = IdleRequest]
  /\ UNCHANGED <<transaction, live, upstream, origin, issued, log, inForce, callback, ended>>

----------------------------------------------------------------------------
(* The operator and the clock.                                             *)

SwitchOff(x) ==
  /\ x \in inForce /\ inForce' = inForce \ {x}
  /\ UNCHANGED <<transaction, live, upstream, origin, issued, log, callback, request, ended>>

SwitchOn(x) ==
  /\ x \notin inForce /\ inForce' = inForce \cup {x}
  /\ request' = [r \in Requests |-> [request[r] EXCEPT !.off = @ \ {x}]]
  /\ UNCHANGED <<transaction, live, upstream, origin, issued, log, callback, ended>>

SessionExpires(i) ==
  /\ i \in live /\ live' = live \ {i}
  /\ UNCHANGED <<transaction, upstream, origin, issued, log, inForce, callback, request, ended>>

Next ==
  \/ \E s \in States :
       \/ Start(s) \/ TransactionExpires(s)
       \/ \E c \in Callbacks : Consume(c, s)
  \/ \E c \in Callbacks :
       \/ \E i \in Sids : Exchange(c, i)
       \/ Resolve(c) \/ CreateSession(c) \/ Issue(c) \/ CallbackFails(c)
  \/ \E r \in Requests :
       \/ \E i \in Sids : Arrive(r, i)
       \/ CheckUser(r) \/ CheckSession(r) \/ CheckPrincipal(r) \/ Admit(r)
       \/ Leave(r)
       \/ FindSession(r) \/ DeleteSession(r) \/ UpstreamFails(r)
       \/ \E heard \in BOOLEAN : EndUpstream(r, heard)
       \/ Answer(r) \/ LogoutStops(r)
  \/ \E x \in {"user", "principal"} : SwitchOff(x) \/ SwitchOn(x)
  \/ \E i \in Sids : SessionExpires(i)

Spec == Init /\ [][Next]_vars

----------------------------------------------------------------------------
(* Properties.                                                             *)

(* A transaction opens one session, however often its callback is called   *)
(* (consume_transaction).                                                  *)
OneSessionPerLogin ==
  \A i, k \in Sids : origin[i] = origin[k] /\ origin[i] # None => i = k

(* A token that was handed out has its login on record (callback).         *)
TokensAreLogged == \A i \in issued : <<"LOGIN", i>> \in log

(* No request is admitted under a session whose logout had been answered   *)
(* when the request began, nor for a user or a principal that was switched *)
(* off since then (TrustedIdentityMiddleware, current_user).               *)
RevokedStaysOut == \A r \in Requests : request[r].at \in Admitted => request[r].off = {}

(* A logout on record as SUCCESS has ended the session of the provider too *)
(* (logout).                                                               *)
SuccessEndsBoth == \A i \in Sids : <<"SUCCESS", i>> \in log => i \notin live \cup upstream

SessionsSafe ==
  TypeOK /\ OneSessionPerLogin /\ TokensAreLogged /\ RevokedStaysOut /\ SuccessEndsBoth
=============================================================================
