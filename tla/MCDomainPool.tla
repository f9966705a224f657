---------------------------- MODULE MCDomainPool ----------------------------
(* DomainPool on small instances: two domains, one of them listed twice. *)
EXTENDS DomainPool

MCPool == <<"a", "b", "a">>
=============================================================================
