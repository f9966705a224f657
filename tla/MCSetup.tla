------------------------------ MODULE MCSetup ------------------------------
(* Setup on small instances. *)
EXTENDS Setup

CONSTANTS d1, d2, i1, i2, h

\* Files with an address, a host name or endpoints only; ports, delays and the
\* threshold in and out of range, and a lower bound of the delay above 50 ms.
File(ip, eps, listen, sni, lo, hi, base, thr) ==
    [connect_ip |-> ip, connect_port |-> 0, endpoints |-> eps, listen_port |-> listen,
     fake_sni |-> sni, pool |-> <<d2>>, interface_ip |-> i2, min |-> lo, max |-> hi, fake |-> base,
     threshold |-> thr, max_connections |-> 3]

MCUserFiles ==
    {File(h, {}, 40443, Empty, 0, 0, 0, 0),
     File(Empty, {[ip |-> i1, port |-> 8443], [ip |-> h, port |-> 443]}, 1, Empty, 600, 10, 1, 2),
     File(i1, {[ip |-> i2, port |-> 0]}, 0, d1, 20, 30, 40, 2)}

\* No override, a host name with a port, and the others with a port out of range.
Env(ip, listen, sni, conns) ==
    [connect_ip |-> ip, listen_port |-> listen, fake_sni |-> sni, max_connections |-> conns]
MCEnvs == {Env(Empty, Empty, Empty, Empty), Env(h, 8080, Empty, Empty), Env(Empty, 0, d2, 7)}
=============================================================================
