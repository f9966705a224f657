---------------------------- MODULE SetupProofs ----------------------------
(***************************************************************************)
(* Proofs about Setup: what a command writes is what the next start uses,  *)
(* the settings in the file come from one source whatever happens to the   *)
(* commands, and a configuration that is accepted is usable.               *)
(*                                                                         *)
(* The properties speak of the file, which a command writes from the       *)
(* configuration it has in memory and a power failure replaces by the one  *)
(* on the disk: the inductive invariant says of that draft, from Compose   *)
(* on, and of the disk what the properties say of the file.  The facts     *)
(* about Validate and the overrides are lemmas on their own: Validate      *)
(* repairs in one go, so that what it has repaired once it leaves alone,   *)
(* and an override gives the same settings before a repair and after it.   *)
(***************************************************************************)
EXTENDS Setup, FiniteSetTheorems, TLAPS

-----------------------------------------------------------------------------
(* Validate *)

\* The delays and the threshold are as Validate leaves them.
Repaired(c) ==
    /\ c.min > 0 /\ c.max > 0 /\ c.threshold > 0
    /\ c.max >= c.min \/ c.max = 500
    /\ c.fake <= c.max /\ (c.fake >= c.min \/ c.fake = c.max)

\* Default() is a configuration, and has nothing to repair.
LEMMA DefaultOK == Default \in Configs /\ Repaired(Default)
<1>1. DefaultDomain \in Names /\ <<DefaultDomain>> \in Seq(Names)
  BY NamesAssumption
<1> QED
  BY <1>1 DEF Default, Configs, Addresses, Repaired

\* Validate repairs the delays and the threshold and nothing else, in one go.
LEMMA RepairOK ==
    ASSUME NEW c \in Configs
    PROVE  LET r == Repair(c)
           IN  /\ r \in Configs /\ Repaired(r)
               /\ r.listen_port = c.listen_port /\ r.max_connections = c.max_connections
               /\ r.interface_ip = c.interface_ip /\ r.pool = c.pool /\ r.fake_sni = c.fake_sni
<1> DEFINE lo == IF c.min <= 0 THEN 1 ELSE c.min
           hi == IF c.max <= 0 \/ c.max < lo THEN 500 ELSE c.max
           up == IF c.fake < lo THEN lo ELSE c.fake
           fk == IF up > hi THEN hi ELSE up
           th == IF c.threshold <= 0 THEN 5 ELSE c.threshold
<1>1. Repair(c) = [c EXCEPT !.min = lo, !.max = hi, !.fake = fk, !.threshold = th]
  BY DEF Repair, Configs
<1>2. c.min \in Int /\ c.max \in Int /\ c.fake \in Int /\ c.threshold \in Int
  BY DEF Configs
<1>3. /\ lo \in Int /\ hi \in Int /\ fk \in Int /\ th \in Int
      /\ lo > 0 /\ hi > 0 /\ th > 0
      /\ (hi >= lo \/ hi = 500) /\ fk <= hi /\ (fk >= lo \/ fk = hi)
  BY <1>2
<1> HIDE DEF lo, hi, up, fk, th
<1>4. LET r == Repair(c)
      IN  /\ r \in Configs
          /\ r.min = lo /\ r.max = hi /\ r.fake = fk /\ r.threshold = th
          /\ r.listen_port = c.listen_port /\ r.max_connections = c.max_connections
          /\ r.interface_ip = c.interface_ip /\ r.pool = c.pool /\ r.fake_sni = c.fake_sni
  <2>1. lo \in Int /\ hi \in Int /\ fk \in Int /\ th \in Int
    BY <1>3
  <2> DEFINE r == [c EXCEPT !.min = lo, !.max = hi, !.fake = fk, !.threshold = th]
  <2>2. /\ r \in Configs
        /\ r.min = lo /\ r.max = hi /\ r.fake = fk /\ r.threshold = th
        /\ r.listen_port = c.listen_port /\ r.max_connections = c.max_connections
        /\ r.interface_ip = c.interface_ip /\ r.pool = c.pool /\ r.fake_sni = c.fake_sni
    BY <2>1 DEF Configs
  <2> HIDE DEF r
  <2>3. Repair(c) = r
    BY <1>1 DEF r
  <2> QED
    BY <2>2, <2>3
<1> QED
  BY <1>3, <1>4 DEF Repaired

\* What has been repaired is left alone.
LEMMA RepairedKept ==
    ASSUME NEW c \in Configs, Repaired(c)
    PROVE  /\ Repair(c).min = c.min /\ Repair(c).max = c.max /\ Repair(c).fake = c.fake
           /\ Repair(c).threshold = c.threshold
<1>1. c.min \in Int /\ c.max \in Int /\ c.fake \in Int /\ c.threshold \in Int
  BY DEF Configs
<1> DEFINE lo == IF c.min <= 0 THEN 1 ELSE c.min
           hi == IF c.max <= 0 \/ c.max < lo THEN 500 ELSE c.max
           up == IF c.fake < lo THEN lo ELSE c.fake
           fk == IF up > hi THEN hi ELSE up
           th == IF c.threshold <= 0 THEN 5 ELSE c.threshold
<1>2. Repair(c) = [c EXCEPT !.min = lo, !.max = hi, !.fake = fk, !.threshold = th]
  BY DEF Repair, Configs
<1>3. lo = c.min /\ hi = c.max /\ fk = c.fake /\ th = c.threshold
  BY <1>1 DEF Repaired
<1> HIDE DEF lo, hi, up, fk, th
<1> QED
  BY <1>2, <1>3 DEF Configs

\* The settings are those of six fields.
LEMMA SettingsOf ==
    ASSUME NEW c \in Configs, NEW d \in Configs,
           c.min = d.min, c.max = d.max, c.fake = d.fake, c.threshold = d.threshold,
           c.listen_port = d.listen_port, c.max_connections = d.max_connections
    PROVE  Settings(c) = Settings(d)
<1>1. /\ Repair(c).min = Repair(d).min /\ Repair(c).max = Repair(d).max
      /\ Repair(c).fake = Repair(d).fake /\ Repair(c).threshold = Repair(d).threshold
  BY DEF Repair, Configs
<1> QED
  BY <1>1, RepairOK DEF Settings

\* A repair keeps the settings.
LEMMA RepairSettings ==
    ASSUME NEW c \in Configs
    PROVE  Settings(Repair(c)) = Settings(c)
<1> DEFINE r == Repair(c)
<1>1. /\ r \in Configs /\ Repaired(r)
      /\ r.listen_port = c.listen_port /\ r.max_connections = c.max_connections
  BY RepairOK
<1> HIDE DEF r
<1>2. /\ Repair(r).min = r.min /\ Repair(r).max = r.max /\ Repair(r).fake = r.fake
      /\ Repair(r).threshold = r.threshold
  BY <1>1, RepairedKept
<1>3. Repair(r).listen_port = r.listen_port /\ Repair(r).max_connections = r.max_connections
  BY <1>1, RepairOK
<1> QED
  BY <1>2, <1>3 DEF Settings, r

\* Configurations that agree in every setting are one.
LEMMA ConfigEqual ==
    ASSUME NEW c \in Configs, NEW d \in Configs,
           c.connect_ip = d.connect_ip, c.connect_port = d.connect_port, c.endpoints = d.endpoints,
           c.listen_port = d.listen_port, c.fake_sni = d.fake_sni, c.pool = d.pool,
           c.interface_ip = d.interface_ip, c.min = d.min, c.max = d.max, c.fake = d.fake,
           c.threshold = d.threshold, c.max_connections = d.max_connections
    PROVE  c = d
BY DEF Configs

\* An address is resolved to an address, or to nothing.
LEMMA ResolveType ==
    ASSUME dns \in Ips \cup {Empty}, NEW x \in Addresses
    PROVE  Resolve(x) \in Addresses
BY DEF Resolve, Addresses

\* What Validate makes of a configuration is one, setting by setting.
LEMMA NormalFields ==
    ASSUME NEW c \in Configs, dns \in Ips \cup {Empty}
    PROVE  LET n == Normal(c)
               d == Repair(c)
           IN  /\ n \in Configs
               /\ n.connect_ip = IF c.connect_ip = Empty THEN Empty ELSE Resolve(c.connect_ip)
               /\ n.connect_port = IF c.connect_port \in ValidPorts THEN c.connect_port ELSE 443
               /\ n.endpoints = IF c.endpoints = {} THEN {[ip |-> n.connect_ip, port |-> n.connect_port]}
                                ELSE {[e EXCEPT !.ip = Resolve(e.ip)] : e \in c.endpoints}
               /\ n.listen_port = c.listen_port /\ n.interface_ip = c.interface_ip /\ n.pool = c.pool
               /\ n.max_connections = c.max_connections
               /\ n.fake_sni = IF c.fake_sni = Empty /\ c.pool # <<>> THEN Head(c.pool) ELSE c.fake_sni
               /\ n.min = d.min /\ n.max = d.max /\ n.fake = d.fake /\ n.threshold = d.threshold
<1> DEFINE d == Repair(c)
           ip == IF c.connect_ip = Empty THEN Empty ELSE Resolve(c.connect_ip)
           port == IF c.connect_port \in ValidPorts THEN c.connect_port ELSE 443
           sni == IF c.fake_sni = Empty /\ c.pool # <<>> THEN Head(c.pool) ELSE c.fake_sni
           eps == IF c.endpoints = {} THEN {[ip |-> ip, port |-> port]}
                  ELSE {[e EXCEPT !.ip = Resolve(e.ip)] : e \in c.endpoints}
<1>1. /\ d \in Configs
      /\ d.listen_port = c.listen_port /\ d.interface_ip = c.interface_ip /\ d.pool = c.pool
      /\ d.fake_sni = c.fake_sni /\ d.max_connections = c.max_connections
  BY RepairOK
<1>2. /\ c.connect_ip \in Addresses /\ c.connect_port \in Int
      /\ c.fake_sni \in Names \cup {Empty} /\ c.pool \in Seq(Names)
  BY DEF Configs
<1>3. ip \in Addresses
  BY <1>2, ResolveType DEF Addresses
<1>4. port \in Int
  BY <1>2
<1>5. sni \in Names \cup {Empty}
  BY <1>2
<1>6. eps \in SUBSET [ip : Addresses, port : Int]
  <2>1. ASSUME NEW e \in c.endpoints PROVE [e EXCEPT !.ip = Resolve(e.ip)] \in [ip : Addresses, port : Int]
    <3>1. e \in [ip : Addresses, port : Int]
      BY DEF Configs
    <3>2. Resolve(e.ip) \in Addresses
      BY <3>1, ResolveType
    <3> QED
      BY <3>1, <3>2
  <2> QED
    BY <1>3, <1>4, <2>1
<1>7. Normal(c) = [d EXCEPT !.connect_ip = ip, !.connect_port = port,
                            !.fake_sni = IF @ = Empty /\ c.pool # <<>> THEN Head(c.pool) ELSE @,
                            !.endpoints = eps]
  BY DEF Normal
<1>8. Normal(c) = [d EXCEPT !.connect_ip = ip, !.connect_port = port, !.fake_sni = sni, !.endpoints = eps]
  BY <1>1, <1>7
<1> HIDE DEF d, ip, port, sni, eps
<1>9. Normal(c) \in Configs
  BY <1>1, <1>3, <1>4, <1>5, <1>6, <1>8 DEF Configs
<1>10. /\ Normal(c).connect_ip = ip /\ Normal(c).connect_port = port /\ Normal(c).endpoints = eps
       /\ Normal(c).fake_sni = sni
       /\ Normal(c).listen_port = d.listen_port /\ Normal(c).interface_ip = d.interface_ip
       /\ Normal(c).pool = d.pool /\ Normal(c).max_connections = d.max_connections
       /\ Normal(c).min = d.min /\ Normal(c).max = d.max /\ Normal(c).fake = d.fake
       /\ Normal(c).threshold = d.threshold
  BY <1>1, <1>8 DEF Configs
<1> QED
  BY <1>1, <1>9, <1>10 DEF d, ip, port, sni, eps

-----------------------------------------------------------------------------
(* The environment *)

\* The overrides make a configuration of a configuration, and change four
\* settings at most.
LEMMA OverrideFields ==
    ASSUME NEW c \in Configs, env \in Environments
    PROVE  LET o == Override(c)
           IN  /\ o \in Configs
               /\ o.min = c.min /\ o.max = c.max /\ o.fake = c.fake /\ o.threshold = c.threshold
               /\ o.connect_port = c.connect_port /\ o.endpoints = c.endpoints /\ o.pool = c.pool
               /\ o.interface_ip = c.interface_ip
               /\ o.listen_port = IF env.listen_port = Empty THEN c.listen_port ELSE env.listen_port
               /\ o.max_connections = IF env.max_connections = Empty THEN c.max_connections
                                      ELSE env.max_connections
<1> DEFINE ip == IF env.connect_ip = Empty THEN c.connect_ip ELSE env.connect_ip
           port == IF env.listen_port = Empty THEN c.listen_port ELSE env.listen_port
           sni == IF env.fake_sni = Empty THEN c.fake_sni ELSE env.fake_sni
           conns == IF env.max_connections = Empty THEN c.max_connections ELSE env.max_connections
<1>1. ip \in Addresses /\ port \in Int /\ sni \in Names \cup {Empty} /\ conns \in Int
  BY DEF Configs, Environments
<1>2. Override(c) = [c EXCEPT !.connect_ip = ip, !.listen_port = port, !.fake_sni = sni,
                              !.max_connections = conns]
  BY DEF Override, Configs
<1> HIDE DEF ip, port, sni, conns
<1>3. LET o == Override(c)
      IN  /\ o \in Configs
          /\ o.min = c.min /\ o.max = c.max /\ o.fake = c.fake /\ o.threshold = c.threshold
          /\ o.connect_port = c.connect_port /\ o.endpoints = c.endpoints /\ o.pool = c.pool
          /\ o.interface_ip = c.interface_ip
          /\ o.listen_port = port /\ o.max_connections = conns
  BY <1>1, <1>2 DEF Configs
<1> QED
  BY <1>3 DEF port, conns

\* Without a variable set there is no change.
LEMMA OverrideNothing ==
    ASSUME NEW c \in Configs, env \in Environments, NoOverride
    PROVE  Override(c) = c
<1>1. /\ env.connect_ip = Empty /\ env.listen_port = Empty
      /\ env.fake_sni = Empty /\ env.max_connections = Empty
  BY DEF NoOverride, Environments
<1> QED
  BY <1>1 DEF Override, Configs

\* Overrides do the same to the same settings.
LEMMA OverrideSettings ==
    ASSUME NEW c \in Configs, NEW d \in Configs, env \in Environments, Settings(c) = Settings(d)
    PROVE  Settings(Override(c)) = Settings(Override(d))
<1> DEFINE oc == Override(c)
           od == Override(d)
<1>1. /\ Repair(c).min = Repair(d).min /\ Repair(c).max = Repair(d).max
      /\ Repair(c).fake = Repair(d).fake /\ Repair(c).threshold = Repair(d).threshold
      /\ c.listen_port = d.listen_port /\ c.max_connections = d.max_connections
  BY RepairOK DEF Settings
<1>2. ASSUME NEW x \in Configs
      PROVE  /\ Override(x) \in Configs
             /\ Repair(Override(x)).min = Repair(x).min /\ Repair(Override(x)).max = Repair(x).max
             /\ Repair(Override(x)).fake = Repair(x).fake
             /\ Repair(Override(x)).threshold = Repair(x).threshold
             /\ Repair(Override(x)).listen_port = Override(x).listen_port
             /\ Repair(Override(x)).max_connections = Override(x).max_connections
  <2> DEFINE o == Override(x)
  <2>1. o \in Configs /\ o.min = x.min /\ o.max = x.max /\ o.fake = x.fake /\ o.threshold = x.threshold
    BY OverrideFields
  <2> HIDE DEF o
  <2>2. /\ Repair(o).min = Repair(x).min /\ Repair(o).max = Repair(x).max
        /\ Repair(o).fake = Repair(x).fake /\ Repair(o).threshold = Repair(x).threshold
    BY <2>1 DEF Repair, Configs
  <2>3. Repair(o).listen_port = o.listen_port /\ Repair(o).max_connections = o.max_connections
    BY <2>1, RepairOK
  <2> QED
    BY <2>1, <2>2, <2>3 DEF o
<1>3. oc.listen_port = od.listen_port /\ oc.max_connections = od.max_connections
  BY <1>1, OverrideFields
<1> HIDE DEF oc, od
<1>4. /\ Repair(oc).min = Repair(od).min /\ Repair(oc).max = Repair(od).max
      /\ Repair(oc).fake = Repair(od).fake /\ Repair(oc).threshold = Repair(od).threshold
      /\ Repair(oc).listen_port = Repair(od).listen_port
      /\ Repair(oc).max_connections = Repair(od).max_connections
  BY <1>1, <1>2, <1>3 DEF oc, od
<1> QED
  BY <1>4 DEF Settings, oc, od

\* What a start gets from a file is a repaired configuration with the settings
\* of the file and the overrides.
LEMMA LoadFields ==
    ASSUME NEW c \in Configs, dns \in Ips \cup {Empty}, env \in Environments
    PROVE  /\ Load(c) \in Configs /\ Repaired(Load(c))
           /\ Settings(Load(c)) = Settings(Override(c))
           /\ Load(c).connect_port \in ValidPorts
<1> DEFINE o == Override(c)
           n == Load(c)
           d == Repair(o)
<1>1. o \in Configs
  BY OverrideFields
<1>2. n = Normal(o)
  BY DEF Load
<1> HIDE DEF o, n
<1>3. /\ n \in Configs /\ n.listen_port = o.listen_port /\ n.max_connections = o.max_connections
      /\ n.min = d.min /\ n.max = d.max /\ n.fake = d.fake /\ n.threshold = d.threshold
      /\ n.connect_port = IF o.connect_port \in ValidPorts THEN o.connect_port ELSE 443
  BY <1>1, <1>2, NormalFields, ZenonT(60)
<1>4. /\ d \in Configs /\ Repaired(d) /\ Settings(d) = Settings(o)
      /\ d.listen_port = o.listen_port /\ d.max_connections = o.max_connections
  BY <1>1, RepairOK, RepairSettings
<1> HIDE DEF d
<1>5. Repaired(n)
  BY <1>3, <1>4 DEF Repaired
<1>6. Settings(n) = Settings(d)
  BY <1>3, <1>4, SettingsOf
<1>7. n.connect_port \in ValidPorts
  <2>1. 443 \in ValidPorts
    BY DEF ValidPorts
  <2> QED
    BY <1>3, <2>1
<1> QED
  BY <1>3, <1>4, <1>5, <1>6, <1>7 DEF n, o

-----------------------------------------------------------------------------
(* The inductive invariant *)

Typed ==
    /\ file \in Contents /\ disk \in Contents
    /\ dns \in Ips \cup {Empty} /\ env \in Environments
    /\ results \in [Domains -> {Absent} \cup Outcomes]
    /\ draft \in Configs /\ origin \in Configs

\* What Compose makes, with the address of the best domain: the name and the
\* endpoint are there twice over, so that the file needs neither of the copies.
Composed(c, ip) ==
    /\ c \in Configs /\ ip \in Ips \cup {Empty}
    /\ c.fake_sni = Head(c.pool)
    /\ Repaired(c) /\ c.connect_port \in ValidPorts
    /\ ip # Empty => c.connect_ip = ip /\ c.endpoints = {[ip |-> ip, port |-> c.connect_port]}

\* setup goes through the scan with Default() and its port.
SetupDraft ==
    kind = "setup" /\ job = "probing" =>
        /\ origin = draft
        /\ \E p \in Ports : draft = [Default EXCEPT !.listen_port = p]

\* From Compose to the write: what is going to be announced, and to be kept.
WriteInv ==
    job \in {"write", "writing"} =>
        Composed(draft, bestIp) /\ Settings(draft) = Settings(origin)

\* What a content promises, in the file and on the disk.
Sound(v) ==
    /\ v.announced # Absent =>
           Composed(v.announced.cfg, v.announced.ip) /\ v.data = Written(v.announced.cfg)
    /\ v.data \notin {Absent, Torn} => v.origin \in Configs /\ Settings(v.data) = Settings(v.origin)

IInv == Typed /\ SetupDraft /\ WriteInv /\ Sound(file) /\ Sound(disk)

\* No file, and one that is cut off, promise nothing.
LEMMA NothingSound ==
    /\ NoContent \in Contents /\ Sound(NoContent)
    /\ CutOff \in Contents /\ Sound(CutOff)
BY DEF NoContent, CutOff, Contents, Sound

\* The invariant holds at the start.
LEMMA IInvInit == Init => IInv
<1> SUFFICES ASSUME Init PROVE IInv
  OBVIOUS
<1>1. Typed
  BY DefaultOK, EnvsAssumption, NothingSound DEF Init, Typed, NoResults
<1>2. Sound(file) /\ Sound(disk)
  BY NothingSound DEF Init
<1> QED
  BY <1>1, <1>2 DEF Init, IInv, SetupDraft, WriteInv

\* When a command has ended, the contents are all there is.
LEMMA IdleStep ==
    ASSUME IInv, Idle, UNCHANGED <<dns, env>>,
           file' \in Contents, Sound(file'), disk' \in Contents, Sound(disk')
    PROVE  IInv'
<1>1. Typed'
  BY DefaultOK DEF IInv, Typed, Idle, NoResults
<1>2. Sound(file)' /\ Sound(disk)'
  BY DEF Sound, Written
<1> QED
  BY <1>1, <1>2 DEF IInv, Idle, SetupDraft, WriteInv

\* What writeCfg leaves out is none of the settings.
LEMMA WrittenOK ==
    ASSUME NEW c \in Configs
    PROVE  Written(c) \in Configs /\ Settings(Written(c)) = Settings(c)
<1>1. Written(c) \in Configs
  BY DEF Written, Configs, Addresses
<1>2. /\ Written(c).min = c.min /\ Written(c).max = c.max /\ Written(c).fake = c.fake
      /\ Written(c).threshold = c.threshold
      /\ Written(c).listen_port = c.listen_port /\ Written(c).max_connections = c.max_connections
  BY DEF Written, Configs
<1> QED
  BY <1>1, <1>2, SettingsOf

\* A probe finds an address or none.
LEMMA OutcomeIp == ASSUME NEW r \in Outcomes PROVE r.ip \in Ips \cup {Empty}
<1>1. CASE r = NotYet
  BY <1>1 DEF NotYet
<1>2. CASE r \in [alive : {TRUE}, ip : Ips \cup {Empty}, lat : Lats]
  BY <1>2
<1> QED
  BY <1>1, <1>2 DEF Outcomes

\* An order of the reachable domains starts with one of them, which has
\* an address or none.
LEMMA RankedOK ==
    ASSUME Typed, Reachable # {}, NEW q \in Ranked
    PROVE  /\ q \in Seq(Names) /\ Head(q) \in Names
           /\ results[Head(q)].ip \in Ips \cup {Empty}
<1> DEFINE n == Cardinality(Reachable)
<1>1. IsFiniteSet(Reachable)
  BY NamesAssumption, FS_Subset DEF Reachable
<1>2. n \in Nat \ {0}
  BY <1>1, FS_CardinalityType, FS_EmptySet
<1>3. q \in [1..n -> Reachable]
  BY DEF Ranked, SetToSeqs
<1> HIDE DEF n
<1>4. Reachable \subseteq Names
  BY NamesAssumption DEF Reachable
<1>5. q \in Seq(Names) /\ Head(q) = q[1] /\ q[1] \in Reachable
  BY <1>2, <1>3, <1>4
<1>6. results[q[1]] \in Outcomes
  BY <1>5 DEF Reachable, Typed
<1>7. results[q[1]].ip \in Ips \cup {Empty}
  BY <1>6, OutcomeIp
<1> QED
  BY <1>4, <1>5, <1>7

\* Compose makes a composed configuration out of a repaired one, and keeps the
\* settings.
LEMMA NamedOK ==
    ASSUME NEW c \in Configs, Repaired(c), c.connect_port \in ValidPorts,
           NEW q \in Seq(Names), Head(q) \in Names,
           NEW n, n = [c EXCEPT !.fake_sni = Head(q), !.pool = q]
    PROVE  Composed(n, Empty) /\ Settings(n) = Settings(c) /\ n.connect_port = c.connect_port
<1>1. n \in Configs
  BY DEF Configs
<1>2. /\ n.fake_sni = Head(q) /\ n.pool = q
      /\ n.min = c.min /\ n.max = c.max /\ n.fake = c.fake /\ n.threshold = c.threshold
      /\ n.listen_port = c.listen_port /\ n.connect_port = c.connect_port
      /\ n.max_connections = c.max_connections
  BY DEF Configs
<1>3. Repaired(n)
  BY <1>2 DEF Repaired
<1>4. Settings(n) = Settings(c)
  BY <1>1, <1>2, SettingsOf
<1>5. Composed(n, Empty)
  BY <1>1, <1>2, <1>3 DEF Composed
<1> QED
  BY <1>2, <1>4, <1>5

\* The address of the best domain goes into the address and the endpoint.
LEMMA AddressedOK ==
    ASSUME NEW n \in Configs, NEW ip \in Ips \cup {Empty}, Composed(n, Empty)
    PROVE  LET m == [n EXCEPT !.connect_ip = ip, !.endpoints = {[ip |-> ip, port |-> n.connect_port]}]
           IN  Composed(m, ip) /\ Settings(m) = Settings(n)
<1> DEFINE E == {[ip |-> ip, port |-> n.connect_port]}
           m == [n EXCEPT !.connect_ip = ip, !.endpoints = E]
<1>1. E \in SUBSET [ip : Addresses, port : Int]
  BY DEF Configs, Addresses
<1> HIDE DEF E
<1>2. m \in Configs
  BY <1>1 DEF Configs, Addresses
<1>3. /\ m.fake_sni = n.fake_sni /\ m.pool = n.pool
      /\ m.min = n.min /\ m.max = n.max /\ m.fake = n.fake /\ m.threshold = n.threshold
      /\ m.listen_port = n.listen_port /\ m.connect_port = n.connect_port
      /\ m.max_connections = n.max_connections
      /\ m.connect_ip = ip /\ m.endpoints = E
  BY DEF Configs
<1> HIDE DEF m
<1>4. Repaired(m)
  BY <1>3 DEF Repaired, Composed
<1>5. Settings(m) = Settings(n)
  BY <1>2, <1>3, SettingsOf
<1>6. Composed(m, ip)
  BY <1>2, <1>3, <1>4 DEF Composed, E
<1> QED
  BY <1>5, <1>6 DEF m, E

\* A file that loads is a configuration.
LEMMA LoadsType == ASSUME Typed, Loads(file.data) PROVE file.data \in Configs
BY DEF Typed, Contents, Loads

\* Compose establishes of the draft what a write makes true of the file.
LEMMA ComposeStep == ASSUME IInv, Compose PROVE IInv'
<1>1. PICK q \in Ranked :
        LET best == results[Head(q)]
            named(c) == [c EXCEPT !.fake_sni = Head(q), !.pool = q]
        IN  /\ bestIp' = best.ip
            /\ draft' = IF kind = "setup"
                        THEN [named(draft) EXCEPT !.connect_ip = best.ip,
                                                  !.endpoints = {[ip |-> best.ip, port |-> 443]}]
                        ELSE WithBest(named(IF Loads(file.data) THEN Load(file.data) ELSE Default), best)
  BY DEF Compose
<1> DEFINE ip == results[Head(q)].ip
           named(c) == [c EXCEPT !.fake_sni = Head(q), !.pool = q]
           base == IF kind = "setup" THEN draft
                   ELSE IF Loads(file.data) THEN Load(file.data) ELSE Default
           n == named(base)
<1>2. Typed /\ Reachable # {} /\ kind' = kind
  BY DEF IInv, Compose
<1>3. q \in Seq(Names) /\ Head(q) \in Names /\ ip \in Ips \cup {Empty}
  BY <1>2, RankedOK
<1>4. /\ base \in Configs /\ Repaired(base) /\ base.connect_port \in ValidPorts
      /\ kind = "setup" => base.connect_port = 443
      /\ origin' \in Configs /\ Settings(base) = Settings(origin')
  <2>1. CASE kind = "setup"
    <3>1. PICK p \in Ports : draft = [Default EXCEPT !.listen_port = p]
      BY <2>1 DEF IInv, SetupDraft, Compose
    <3>2. base = draft /\ draft \in Configs /\ origin' = draft
      BY <1>2, <2>1 DEF Typed, IInv, SetupDraft, Compose
    <3> QED
      BY <2>1, <3>1, <3>2 DEF Default, Repaired, ValidPorts
  <2>2. CASE kind # "setup" /\ Loads(file.data)
    <3>1. file.data \in Configs /\ dns \in Ips \cup {Empty} /\ env \in Environments
      BY <1>2, <2>2, LoadsType DEF Typed
    <3>2. file.origin \in Configs /\ Settings(file.data) = Settings(file.origin)
      BY <3>1, FilesAssumption DEF IInv, Sound
    <3>3. base = Load(file.data) /\ origin' = Override(file.origin)
      BY <2>2 DEF Compose
    <3>4. Settings(Load(file.data)) = Settings(Override(file.origin))
      BY <3>1, <3>2, LoadFields, OverrideSettings
    <3>5. Override(file.origin) \in Configs
      BY <3>1, <3>2, OverrideFields
    <3> HIDE DEF base
    <3> QED
      BY <2>2, <3>1, <3>3, <3>4, <3>5, LoadFields
  <2>3. CASE kind # "setup" /\ ~Loads(file.data)
    <3>1. Default.connect_port \in ValidPorts
      BY DEF Default, ValidPorts
    <3>2. base = Default /\ origin' = Default
      BY <2>3 DEF Compose
    <3> QED
      BY <2>3, <3>1, <3>2, DefaultOK
  <2> QED
    BY <2>1, <2>2, <2>3
<1> HIDE DEF base
<1>5. Composed(n, Empty) /\ Settings(n) = Settings(base) /\ n.connect_port = base.connect_port
  <2>1. base \in Configs /\ Repaired(base) /\ base.connect_port \in ValidPorts
    BY <1>4
  <2> QED
    BY <1>3, <2>1, NamedOK, Zenon
<1>6. n \in Configs
  BY <1>5 DEF Composed
<1>7. \/ draft' = [n EXCEPT !.connect_ip = ip, !.endpoints = {[ip |-> ip, port |-> n.connect_port]}]
      \/ draft' = n /\ ip = Empty
  <2>1. CASE kind = "setup"
    <3>1. base = draft /\ n.connect_port = 443
      BY <1>4, <1>5, <2>1 DEF base
    <3>2. draft' = [named(draft) EXCEPT !.connect_ip = ip, !.endpoints = {[ip |-> ip, port |-> 443]}]
      BY <1>1, <2>1, Zenon
    <3> QED
      BY <3>1, <3>2, Zenon
  <2>2. CASE kind # "setup"
    <3>1. base = IF Loads(file.data) THEN Load(file.data) ELSE Default
      BY <2>2 DEF base
    <3>2. draft' = WithBest(n, results[Head(q)])
      BY <1>1, <2>2, <3>1, Zenon
    <3> QED
      BY <3>2, Zenon DEF WithBest
  <2> QED
    BY <2>1, <2>2
<1>8. Composed(draft', ip) /\ Settings(draft') = Settings(n)
  <2>1. CASE draft' = n /\ ip = Empty
    BY <1>5, <2>1
  <2>2. CASE draft' = [n EXCEPT !.connect_ip = ip, !.endpoints = {[ip |-> ip, port |-> n.connect_port]}]
    BY <1>3, <1>5, <1>6, <2>2, AddressedOK
  <2> QED
    BY <1>7, <2>1, <2>2
<1> HIDE DEF n
<1>9. Typed'
  <2>1. draft' \in Configs
    BY <1>8 DEF Composed
  <2>2. results' \in [Domains -> {Absent} \cup Outcomes]
    BY DEF Compose, NoResults
  <2> QED
    BY <1>2, <1>4, <2>1, <2>2 DEF Typed, Compose
<1>10. WriteInv'
  <2>1. Composed(draft', bestIp')
    BY <1>1, <1>8
  <2>2. Settings(draft') = Settings(origin')
    BY <1>4, <1>5, <1>8
  <2> QED
    BY <2>1, <2>2 DEF WriteInv, Settings, Repair
<1>11. Sound(file)' /\ Sound(disk)' /\ SetupDraft'
  BY DEF IInv, Sound, SetupDraft, Compose
<1> QED
  BY <1>9, <1>10, <1>11 DEF IInv

\* The write carries what holds of the draft over to the file.
LEMMA WriteDataStep == ASSUME IInv, WriteData PROVE IInv'
<1> DEFINE v == [data |-> Written(draft), origin |-> origin, announced |-> [cfg |-> draft, ip |-> bestIp]]
<1>1. /\ Composed(draft, bestIp) /\ draft \in Configs /\ bestIp \in Ips \cup {Empty}
      /\ origin \in Configs /\ Settings(draft) = Settings(origin)
  BY DEF IInv, Typed, WriteInv, WriteData, Composed
<1>2. Written(draft) \in Configs /\ Settings(Written(draft)) = Settings(draft)
  BY <1>1, WrittenOK
<1>3. v \in Contents /\ Sound(v)
  BY <1>1, <1>2 DEF Contents, Sound
<1> HIDE DEF v
<1>4. file' = v /\ disk' = disk /\ Idle /\ UNCHANGED <<dns, env>>
  BY DEF WriteData, v
<1>5. disk' \in Contents /\ Sound(disk')
  BY <1>4 DEF IInv, Typed
<1>6. file' \in Contents /\ Sound(file')
  BY <1>3, <1>4
<1> QED
  BY <1>4, <1>5, <1>6, IdleStep

\* Every step keeps the invariant.
LEMMA IInvStep == IInv /\ [Next]_vars => IInv'
<1> SUFFICES ASSUME IInv, [Next]_vars PROVE IInv'
  OBVIOUS
<1> USE DEF IInv
<1>0. file \in Contents /\ disk \in Contents /\ Sound(file) /\ Sound(disk)
  BY DEF Typed
<1>1. CASE StartScan
  BY <1>1 DEF StartScan, Typed, SetupDraft, WriteInv, Sound
<1>2. CASE StartSetup
  <2>1. PICK p \in Ports : draft' = [Default EXCEPT !.listen_port = p]
    BY <1>2 DEF StartSetup
  <2>2. draft' \in Configs
    BY <2>1, DefaultOK, PortsAssumption DEF Configs
  <2>3. Typed'
    BY <1>2, <2>2 DEF StartSetup, Typed
  <2>4. SetupDraft'
    BY <1>2, <2>1 DEF StartSetup, SetupDraft
  <2> QED
    BY <1>2, <2>3, <2>4 DEF StartSetup, WriteInv, Sound
<1>3. ASSUME NEW d \in Domains, Probe(d) PROVE IInv'
  <2>1. Typed'
    BY <1>3 DEF Probe, Typed
  <2> QED
    BY <1>3, <2>1 DEF Probe, SetupDraft, WriteInv, Sound
<1>4. CASE NoneReachable \/ WriteFails \/ Kill
  <2>1. Idle /\ UNCHANGED <<file, disk, dns, env>>
    BY <1>4 DEF NoneReachable, WriteFails, Kill
  <2> QED
    BY <1>0, <2>1, IdleStep
<1>5. CASE Compose
  BY <1>5, ComposeStep
<1>6. CASE WriteOpen
  <2>1. Typed'
    BY <1>6, NothingSound DEF WriteOpen, Typed
  <2>2. Sound(file)'
    BY <1>6 DEF WriteOpen, Sound, CutOff, NoContent
  <2> QED
    BY <1>6, <2>1, <2>2 DEF WriteOpen, WriteInv, SetupDraft, Sound
<1>7. CASE WriteData
  BY <1>7, WriteDataStep
<1>8. CASE Edit
  <2>1. PICK f \in UserFiles : file' = [data |-> f, origin |-> f, announced |-> Absent]
    BY <1>8 DEF Edit
  <2>2. f \in Configs
    BY FilesAssumption
  <2>3. file' \in Contents
    BY <2>1, <2>2 DEF Contents
  <2>4. Typed'
    BY <1>8, <2>3 DEF Edit, Typed, jobVars
  <2>5. Sound(file)'
    BY <2>1, <2>2 DEF Sound
  <2> QED
    BY <1>8, <2>4, <2>5 DEF Edit, SetupDraft, WriteInv, Sound, jobVars
<1>9. CASE Shell \/ Resolver
  BY <1>9, EnvsAssumption DEF Shell, Resolver, Typed, SetupDraft, WriteInv, Sound, jobVars
<1>10. CASE Flush
  <2>1. Sound(disk)' /\ Sound(file)'
    BY <1>10 DEF Flush, Sound
  <2> QED
    BY <1>10, <2>1 DEF Flush, Typed, SetupDraft, WriteInv, jobVars
<1>11. CASE PowerFailure
  <2>1. file' \in Contents /\ Sound(file') /\ disk' = file'
    BY <1>0, <1>11, NothingSound DEF PowerFailure
  <2>2. disk' \in Contents /\ Sound(disk')
    BY <2>1
  <2> QED
    BY <1>11, <2>1, <2>2, IdleStep DEF PowerFailure
<1>12. CASE UNCHANGED vars
  BY <1>12 DEF vars, Typed, SetupDraft, WriteInv, Sound, jobVars
<1> QED
  BY <1>1, <1>2, <1>3, <1>4, <1>5, <1>6, <1>7, <1>8, <1>9, <1>10, <1>11, <1>12 DEF Next

\* The invariant holds in every reachable state.
THEOREM Invariance == Spec => []IInv
BY IInvInit, IInvStep, PTL DEF Spec

-----------------------------------------------------------------------------
(* What the commands promise *)

\* The settings in the file come from one source, whatever commands have been
\* run, killed and lost: the user's last file or Default(), and the overrides of
\* the scans since.
THEOREM ScansKeepSettings == Spec => []KeepsSettings
<1>1. IInv => KeepsSettings
  BY DEF IInv, Sound, KeepsSettings
<1> QED
  BY <1>1, Invariance, PTL

\* What a command announces is what the next start uses.
THEOREM AnnouncedIsUsed == Spec => []NextStartAgrees
<1>1. IInv => NextStartAgrees
  <2> DEFINE a == file.announced
  <2> SUFFICES ASSUME IInv, a # Absent, a.ip # Empty, a.cfg.listen_port \in ValidPorts, NoOverride
               PROVE  /\ Loads(file.data)
                      /\ Load(file.data) = [a.cfg EXCEPT !.interface_ip = Empty]
                      /\ {e.ip : e \in Load(file.data).endpoints} = {a.ip}
    BY DEF NextStartAgrees
  <2> DEFINE c == a.cfg
             ip == a.ip
             w == Written(c)
             n == Normal(w)
             x == [c EXCEPT !.interface_ip = Empty]
  <2>1. /\ Composed(c, ip) /\ file.data = w /\ c \in Configs /\ ip \in Ips
        /\ c.listen_port \in ValidPorts /\ dns \in Ips \cup {Empty} /\ env \in Environments /\ NoOverride
    BY DEF IInv, Sound, Typed, Composed
  <2> HIDE DEF c, ip
  <2>2. /\ c.connect_ip = ip /\ c.endpoints = {[ip |-> ip, port |-> c.connect_port]}
        /\ c.fake_sni = Head(c.pool) /\ c.connect_port \in ValidPorts /\ Repaired(c)
    BY <2>1, NamesAssumption DEF Composed
  <2>3. Resolve(ip) = ip /\ ip # Empty
    BY <2>1, NamesAssumption DEF Resolve
  <2>4. /\ w \in Configs
        /\ w.connect_ip = ip /\ w.endpoints = {} /\ w.interface_ip = Empty
        /\ w.connect_port = c.connect_port /\ w.listen_port = c.listen_port
        /\ w.fake_sni = c.fake_sni /\ w.pool = c.pool
        /\ w.min = c.min /\ w.max = c.max /\ w.fake = c.fake
        /\ w.threshold = c.threshold /\ w.max_connections = c.max_connections
    <3>1. w \in Configs
      BY <2>1, WrittenOK
    <3> QED
      BY <2>1, <2>2, <3>1 DEF Written, Configs
  <2> HIDE DEF w
  <2>5. Override(w) = w
    BY <2>1, <2>4, OverrideNothing
  <2>6. Loads(file.data) /\ Load(file.data) = n
    BY <2>1, <2>3, <2>4, <2>5, FilesAssumption DEF Loads, Load, Accepts, Resolvable
  <2>7. /\ Repair(w).min = w.min /\ Repair(w).max = w.max /\ Repair(w).fake = w.fake
        /\ Repair(w).threshold = w.threshold
    <3>1. Repaired(w)
      BY <2>2, <2>4 DEF Repaired
    <3> QED
      BY <2>4, <3>1, RepairedKept
  <2>8. /\ n \in Configs
        /\ n.connect_ip = ip /\ n.connect_port = c.connect_port
        /\ n.endpoints = {[ip |-> ip, port |-> c.connect_port]}
        /\ n.listen_port = c.listen_port /\ n.interface_ip = Empty /\ n.pool = c.pool
        /\ n.fake_sni = c.fake_sni
        /\ n.min = c.min /\ n.max = c.max /\ n.fake = c.fake
        /\ n.threshold = c.threshold /\ n.max_connections = c.max_connections
    <3> DEFINE d == Repair(w)
    <3>1. /\ n \in Configs
          /\ n.connect_ip = IF w.connect_ip = Empty THEN Empty ELSE Resolve(w.connect_ip)
          /\ n.connect_port = IF w.connect_port \in ValidPorts THEN w.connect_port ELSE 443
          /\ n.endpoints = IF w.endpoints = {} THEN {[ip |-> n.connect_ip, port |-> n.connect_port]}
                           ELSE {[e EXCEPT !.ip = Resolve(e.ip)] : e \in w.endpoints}
          /\ n.listen_port = w.listen_port /\ n.interface_ip = w.interface_ip /\ n.pool = w.pool
          /\ n.fake_sni = IF w.fake_sni = Empty /\ w.pool # <<>> THEN Head(w.pool) ELSE w.fake_sni
          /\ n.max_connections = w.max_connections
          /\ n.min = d.min /\ n.max = d.max /\ n.fake = d.fake /\ n.threshold = d.threshold
      BY <2>1, <2>4, NormalFields
    <3> HIDE DEF n, d
    <3>2. n.connect_ip = ip /\ n.connect_port = c.connect_port
      BY <2>2, <2>3, <2>4, <3>1
    <3>3. n.endpoints = {[ip |-> ip, port |-> c.connect_port]}
      BY <2>4, <3>1, <3>2
    <3>4. n.min = c.min /\ n.max = c.max /\ n.fake = c.fake /\ n.threshold = c.threshold
      BY <2>4, <2>7, <3>1 DEF d
    <3> QED
      BY <2>2, <2>4, <3>1, <3>2, <3>3, <3>4
  <2> HIDE DEF n
  <2>9. /\ x \in Configs
        /\ x.connect_ip = ip /\ x.connect_port = c.connect_port
        /\ x.endpoints = {[ip |-> ip, port |-> c.connect_port]}
        /\ x.listen_port = c.listen_port /\ x.interface_ip = Empty /\ x.pool = c.pool
        /\ x.fake_sni = c.fake_sni
        /\ x.min = c.min /\ x.max = c.max /\ x.fake = c.fake
        /\ x.threshold = c.threshold /\ x.max_connections = c.max_connections
    BY <2>1, <2>2 DEF Configs, Addresses
  <2>10. n = x
    <3> HIDE DEF x
    <3> QED
      BY <2>8, <2>9, ConfigEqual
  <2>11. {e.ip : e \in n.endpoints} = {ip}
    BY <2>8
  <2> QED
    BY <2>6, <2>10, <2>11 DEF c, ip
<1> QED
  BY <1>1, Invariance, PTL

\* A configuration that a start accepts has endpoints, addresses, a threshold
\* and delays that the router and the injection can work with.
THEOREM AcceptedIsUsable == Spec => []LoadedIsUsable
<1>1. IInv => LoadedIsUsable
  <2> SUFFICES ASSUME IInv, Loads(file.data)
               PROVE  /\ Load(file.data).endpoints # {}
                      /\ \A e \in Load(file.data).endpoints : e.ip \in Ips /\ e.port \in ValidPorts
                      /\ Load(file.data).threshold > 0 /\ 0 < Load(file.data).min
                      /\ Load(file.data).fake <= Load(file.data).max
                      /\ \/ Load(file.data).min <= Load(file.data).fake
                         \/ Load(file.data).max = 500 /\ Load(file.data).max < Load(file.data).min
    BY DEF LoadedIsUsable
  <2> DEFINE o == Override(file.data)
             n == Load(file.data)
  <2>1. Typed /\ file.data \in Configs
    BY LoadsType DEF IInv
  <2>2. o \in Configs /\ Accepts(o) /\ n = Normal(o) /\ dns \in Ips \cup {Empty}
    BY <2>1, OverrideFields DEF Loads, Load, Typed
  <2>3. n \in Configs /\ Repaired(n) /\ n.connect_port \in ValidPorts
    BY <2>1, LoadFields DEF Typed
  <2> HIDE DEF o, n
  <2>4. /\ n.connect_ip = IF o.connect_ip = Empty THEN Empty ELSE Resolve(o.connect_ip)
        /\ n.endpoints = IF o.endpoints = {} THEN {[ip |-> n.connect_ip, port |-> n.connect_port]}
                         ELSE {[e EXCEPT !.ip = Resolve(e.ip)] : e \in o.endpoints}
    BY <2>2, NormalFields
  <2>5. n.endpoints # {} /\ \A e \in n.endpoints : e.ip \in Ips /\ e.port \in ValidPorts
    <3>1. CASE o.endpoints = {}
      BY <2>2, <2>3, <2>4, <3>1 DEF Accepts, Resolvable
    <3>2. CASE o.endpoints # {}
      <4>1. n.endpoints = {[e EXCEPT !.ip = Resolve(e.ip)] : e \in o.endpoints}
        BY <2>4, <3>2
      <4>2. ASSUME NEW e \in o.endpoints
            PROVE  LET r == [e EXCEPT !.ip = Resolve(e.ip)] IN r.ip \in Ips /\ r.port \in ValidPorts
        <5>1. e \in [ip : Addresses, port : Int]
          BY <2>2 DEF Configs
        <5>2. Resolve(e.ip) \in Ips /\ e.port \in ValidPorts
          BY <2>2 DEF Accepts, Resolvable
        <5> QED
          BY <5>1, <5>2
      <4> QED
        BY <3>2, <4>1, <4>2
    <3> QED
      BY <3>1, <3>2
  <2>6. n.min \in Int /\ n.max \in Int /\ n.fake \in Int /\ n.threshold \in Int
    BY <2>3 DEF Configs
  <2>7. /\ n.threshold > 0 /\ 0 < n.min /\ n.fake <= n.max
        /\ n.min <= n.fake \/ (n.max = 500 /\ n.max < n.min)
    BY <2>3, <2>6 DEF Repaired
  <2> QED
    BY <2>5, <2>7 DEF n
<1> QED
  BY <1>1, Invariance, PTL
=============================================================================
