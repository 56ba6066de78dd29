------------------------------- MODULE MCAccess -------------------------------
(* Access with a small pool of sessions, so that a login can end another one. *)
EXTENDS Access
=============================================================================
