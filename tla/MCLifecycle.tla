---------------------------- MODULE MCLifecycle ----------------------------
(* A service and a daemon that somebody starts beside it, on every system and *)
(* under every policy.                                                        *)
EXTENDS Lifecycle

CONSTANTS service, rival, root, somebody
=============================================================================
