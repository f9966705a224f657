--------------------------- MODULE MCClientHello ---------------------------
(* ClientHello on the sizes that matter. *)
EXTENDS ClientHello
=============================================================================
