--------------------------- MODULE MCSQLBotRuntime ---------------------------
(***************************************************************************)
(* Two questions of one conversation, a breaker that opens at the second   *)
(* failure, and an upstream that issues up to three sessions.              *)
(***************************************************************************)
EXTENDS SQLBotRuntime

CONSTANTS r1, r2

MCModes == {"SHADOW", "CANARY", "DETERMINISTIC_ONLY", "DISABLED"}
=============================================================================
