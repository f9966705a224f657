---------------------------- MODULE MCInjection ----------------------------
(* Injection on small instances. *)
EXTENDS Injection
=============================================================================
