---------------------------- MODULE MCContextsPool ----------------------------
(* A small instance of ContextsPool for TLC.                               *)
EXTENDS ContextsPool
=============================================================================
