------------------------------- MODULE Setup -------------------------------
(***************************************************************************)
(* The commands that write config.json, and the start that follows them    *)
(* (cmd/ghostnet/main.go): setup and scan -w probe the known domains       *)
(* (internal/preflight), put the best one into a configuration and write   *)
(* it over the file; run reads the file back with Load, applyEnvOverrides  *)
(* and Validate (internal/config).                                         *)
(*                                                                         *)
(* A write is a truncation and then the data, and nothing syncs it: a      *)
(* command may be killed at any step, and a power failure may take the     *)
(* file back to what the disk holds.  A name server answers or not as it   *)
(* likes, every command has an environment of its own, and the user edits  *)
(* the file between commands.  A start changes nothing here: what it gets  *)
(* is Loads and Load of the file as it is at that moment.                  *)
(*                                                                         *)
(* A configuration is the record of the settings that the commands,        *)
(* Validate and the environment treat in ways of their own.  The delays,   *)
(* in tenths of a millisecond, and the threshold stand for all that        *)
(* Validate repairs; max_connections for all that nobody repairs, be they  *)
(* in the environment (log_level, rate_limit) or not.  Without -w, scan    *)
(* writes nothing and is left out, and so is the tuning that setup starts  *)
(* with, which neither reads nor writes any of this.                       *)
(***************************************************************************)
EXTENDS Integers, Sequences, FiniteSets, SequencesExt

CONSTANTS Domains,       \* KnownSNIDomains
          DefaultDomain, \* fake_sni of Default()
          Names,         \* server names that a file may hold
          Ips,           \* IP addresses
          Hosts,         \* host names that may stand for an address
          Empty,         \* the empty string, and a variable that is not set
          Lats,          \* latencies of a probe
          UserFiles,     \* configurations the user may write
          Ports,         \* values of setup's -p flag
          Envs,          \* the GHOSTNET_ variables that commands may be given
          Absent, Torn   \* no file; a file cut off by a crash or an error

\* A config.json that is read without an error, its settings of any value.
Addresses == Ips \cup Hosts \cup {Empty}
Configs == [connect_ip : Addresses, connect_port : Int, endpoints : SUBSET [ip : Addresses, port : Int],
            listen_port : Int, fake_sni : Names \cup {Empty}, pool : Seq(Names), interface_ip : Addresses,
            min : Int, max : Int, fake : Int, threshold : Int, max_connections : Int]

\* A number that Sscanf cannot read leaves the setting alone: it is Empty.
Environments == [connect_ip : Addresses, listen_port : Int \cup {Empty}, fake_sni : Names \cup {Empty},
                 max_connections : Int \cup {Empty}]

ASSUME NamesAssumption ==
    /\ DefaultDomain \in Domains /\ Domains \subseteq Names /\ IsFiniteSet(Domains)
    /\ Ips \cap Hosts = {} /\ Empty \notin Ips \cup Hosts \cup Names
ASSUME LatsAssumption == Lats \subseteq Nat \ {0}
ASSUME PortsAssumption == Ports \subseteq Int
ASSUME EnvsAssumption == Envs \subseteq Environments
ASSUME FilesAssumption == UserFiles \subseteq Configs /\ {Absent, Torn} \cap Configs = {} /\ Absent # Torn

\* The content of config.json, with its history: the configuration its settings
\* come from, and what a command has announced with it.
Contents == [data : Configs \cup {Absent, Torn}, origin : Configs \cup {Absent},
             announced : [cfg : Configs, ip : Ips \cup {Empty}] \cup {Absent}]

VARIABLES file,      \* the content that processes see
          disk,      \* the content that has certainly reached the disk
          dns,       \* what a host name resolves to at the moment, Empty = nothing
          env,       \* the environment of the command that runs, or the next one
          job, kind, \* the writing command: where it is, and which one
          results,   \* results of RunDomains, by domain
          draft,     \* the configuration in the command's memory
          bestIp,    \* report.Best.IP
          origin     \* history: where the settings of draft come from

jobVars == <<job, kind, results, draft, bestIp, origin>>
vars == <<file, disk, dns, env, jobVars>>

-----------------------------------------------------------------------------
(* config *)

ValidPorts == 1..65535

Default == [connect_ip |-> Empty, connect_port |-> 443, endpoints |-> {}, listen_port |-> 40443,
            fake_sni |-> DefaultDomain, pool |-> <<DefaultDomain>>, interface_ip |-> Empty,
            min |-> 5, max |-> 100, fake |-> 10, threshold |-> 5, max_connections |-> 0]

\* net.ParseIP, and LookupHost for what is not an address
Resolve(x) == IF x \in Hosts THEN dns ELSE x
Resolvable(x) == Resolve(x) \in Ips

\* applyEnvOverrides
Override(c) ==
    [c EXCEPT !.connect_ip = IF env.connect_ip = Empty THEN @ ELSE env.connect_ip,
              !.listen_port = IF env.listen_port = Empty THEN @ ELSE env.listen_port,
              !.fake_sni = IF env.fake_sni = Empty THEN @ ELSE env.fake_sni,
              !.max_connections = IF env.max_connections = Empty THEN @ ELSE env.max_connections]

\* The error returns of Validate.
Accepts(c) ==
    /\ c.connect_ip # Empty \/ c.endpoints # {}
    /\ c.connect_ip # Empty => Resolvable(c.connect_ip)
    /\ \A e \in c.endpoints : Resolvable(e.ip) /\ e.port \in ValidPorts
    /\ c.listen_port \in ValidPorts

\* Faulty variant: an upper bound below the lower one is kept.
RepairUnordered(c) ==
    LET lo == IF c.min <= 0 THEN 1 ELSE c.min
        hi == IF c.max <= 0 THEN 500 ELSE c.max
    IN  [c EXCEPT !.min = lo, !.max = hi, !.fake = IF @ < lo THEN lo ELSE @,
                  !.threshold = IF @ <= 0 THEN 5 ELSE @]

\* The settings Validate repairs, the delays in its order.
Repair(c) ==
    LET lo == IF c.min <= 0 THEN 1 ELSE c.min
        hi == IF c.max <= 0 \/ c.max < lo THEN 500 ELSE c.max
        up == IF c.fake < lo THEN lo ELSE c.fake
    IN  [c EXCEPT !.min = lo, !.max = hi, !.fake = IF up > hi THEN hi ELSE up,
                  !.threshold = IF @ <= 0 THEN 5 ELSE @]

\* What Validate makes of a configuration it accepts.
Normal(c) ==
    LET ip == IF c.connect_ip = Empty THEN Empty ELSE Resolve(c.connect_ip)
        port == IF c.connect_port \in ValidPorts THEN c.connect_port ELSE 443
    IN  [Repair(c) EXCEPT
            !.connect_ip = ip, !.connect_port = port,
            !.fake_sni = IF @ = Empty /\ c.pool # <<>> THEN Head(c.pool) ELSE @,
            !.endpoints = IF c.endpoints = {} THEN {[ip |-> ip, port |-> port]}
                          ELSE {[e EXCEPT !.ip = Resolve(e.ip)] : e \in c.endpoints}]

Loads(f) == f \notin {Absent, Torn} /\ Accepts(Override(f))
Load(f) == Normal(Override(f))

-----------------------------------------------------------------------------
(* preflight *)

NotYet == [alive |-> FALSE, ip |-> Empty, lat |-> 0]

\* probe: the address is looked up apart from the dial, and may be missing.
Outcomes == {NotYet} \cup [alive : {TRUE}, ip : Ips \cup {Empty}, lat : Lats]

Probe(d) ==
    /\ job = "probing" /\ results[d] = Absent
    /\ \E r \in Outcomes : results' = [results EXCEPT ![d] = r]
    /\ UNCHANGED <<file, disk, dns, env, job, kind, draft, bestIp, origin>>

Reachable == {d \in Domains : results[d] # Absent /\ results[d].alive}

\* The orders in which the unstable sort may leave the reachable domains.
Ranked ==
    {q \in SetToSeqs(Reachable) :
        \A i, j \in DOMAIN q : i < j => results[q[i]].lat <= results[q[j]].lat}

-----------------------------------------------------------------------------
(* The writing commands *)

NoResults == [d \in Domains |-> Absent]
Idle ==
    /\ job' = "idle" /\ kind' = "scan" /\ results' = NoResults
    /\ draft' = Default /\ bestIp' = Empty /\ origin' = Default

StartScan ==
    /\ job = "idle"
    /\ job' = "probing" /\ kind' = "scan"
    /\ UNCHANGED <<file, disk, dns, env, results, draft, bestIp, origin>>

StartSetup ==
    /\ job = "idle"
    /\ job' = "probing" /\ kind' = "setup"
    /\ \E p \in Ports : draft' = [Default EXCEPT !.listen_port = p]
    /\ origin' = draft'
    /\ UNCHANGED <<file, disk, dns, env, results, bestIp>>

\* wg.Wait() and the report: with nothing reachable the command ends.
NoneReachable ==
    /\ job = "probing" /\ \A d \in Domains : results[d] # Absent
    /\ Reachable = {}
    /\ Idle
    /\ UNCHANGED <<file, disk, dns, env>>

\* Faulty variant: scan leaves the endpoints of the configuration alone.
WithBestIpOnly(c, best) == IF best.ip = Empty THEN c ELSE [c EXCEPT !.connect_ip = best.ip]

\* scan changes the address only if the best domain has one.
WithBest(c, best) ==
    IF best.ip = Empty THEN c
    ELSE [c EXCEPT !.connect_ip = best.ip, !.endpoints = {[ip |-> best.ip, port |-> c.connect_port]}]

\* setup builds on Default(), scan on the file or, when that does not load, on
\* Default() as well.  Load has put the overrides of the environment in.
Compose ==
    /\ job = "probing" /\ \A d \in Domains : results[d] # Absent
    /\ Reachable # {}
    /\ \E q \in Ranked :
           LET best == results[Head(q)]
               named(c) == [c EXCEPT !.fake_sni = Head(q), !.pool = q]
           IN  /\ bestIp' = best.ip
               /\ draft' = IF kind = "setup"
                           THEN [named(draft) EXCEPT !.connect_ip = best.ip,
                                                     !.endpoints = {[ip |-> best.ip, port |-> 443]}]
                           ELSE WithBest(named(IF Loads(file.data) THEN Load(file.data) ELSE Default), best)
    /\ origin' = IF kind = "setup" THEN origin
                 ELSE IF Loads(file.data) THEN Override(file.origin) ELSE Default
    /\ job' = "write" /\ results' = NoResults
    /\ UNCHANGED <<file, disk, dns, env, kind>>

NoContent == [data |-> Absent, origin |-> Absent, announced |-> Absent]
CutOff == [NoContent EXCEPT !.data = Torn]

\* os.WriteFile: the file is opened and truncated, or cannot be opened.
WriteOpen ==
    /\ job = "write"
    /\ job' = "writing"
    /\ file' = CutOff
    /\ UNCHANGED <<disk, dns, env, kind, results, draft, bestIp, origin>>

WriteFails ==
    /\ job \in {"write", "writing"}
    /\ Idle
    /\ UNCHANGED <<file, disk, dns, env>>

\* Faulty variant: cfgOut has no max_connections either, and the default is read.
WrittenShort(c) == [c EXCEPT !.endpoints = {}, !.interface_ip = Empty, !.max_connections = 0]

\* What writeCfg puts into the file: cfgOut has no endpoints and no interface_ip.
Written(c) == [c EXCEPT !.endpoints = {}, !.interface_ip = Empty]

WriteData ==
    /\ job = "writing"
    /\ file' = [data |-> Written(draft), origin |-> origin, announced |-> [cfg |-> draft, ip |-> bestIp]]
    /\ Idle
    /\ UNCHANGED <<disk, dns, env>>

-----------------------------------------------------------------------------
(* The user and the host *)

Edit ==
    /\ job = "idle"
    /\ \E f \in UserFiles : file' = [data |-> f, origin |-> f, announced |-> Absent]
    /\ UNCHANGED <<disk, dns, env, jobVars>>

\* The next command is started from another environment.
Shell ==
    /\ job = "idle"
    /\ env' \in Envs
    /\ UNCHANGED <<file, disk, dns, jobVars>>

Resolver ==
    /\ dns' \in Ips \cup {Empty}
    /\ UNCHANGED <<file, disk, env, jobVars>>

\* The kernel writes the file back when it likes.
Flush ==
    /\ disk # file
    /\ disk' = file
    /\ UNCHANGED <<file, dns, env, jobVars>>

\* The command is killed, and what it has written stays.
Kill ==
    /\ job # "idle"
    /\ Idle
    /\ UNCHANGED <<file, disk, dns, env>>

\* The host goes down: what was not written back is lost, in part or as a whole.
PowerFailure ==
    /\ disk # file
    /\ file' \in {disk, CutOff}
    /\ disk' = file'
    /\ Idle
    /\ UNCHANGED <<dns, env>>

Init ==
    /\ file = NoContent /\ disk = NoContent
    /\ dns = Empty /\ env \in Envs
    /\ job = "idle" /\ kind = "scan" /\ results = NoResults
    /\ draft = Default /\ bestIp = Empty /\ origin = Default

Next ==
    \/ StartScan
    \/ StartSetup
    \/ \E d \in Domains : Probe(d)
    \/ NoneReachable
    \/ Compose
    \/ WriteOpen
    \/ WriteFails
    \/ WriteData
    \/ Edit
    \/ Shell
    \/ Resolver
    \/ Flush
    \/ Kill
    \/ PowerFailure

Spec == Init /\ [][Next]_vars

-----------------------------------------------------------------------------
(* Properties *)

NoOverride == \A v \in DOMAIN env : env[v] = Empty

\* What a command has written and announced is what the next start uses, as long
\* as the file is there: it loads, whatever the name server does, and gives back
\* the configuration the command had in memory, although writeCfg leaves out the
\* endpoints and Validate puts them together again.  Left out are the interface,
\* a listen_port out of range, which setup takes from its flag unchecked, a start
\* with overrides of its own, and a best domain that was reached without an
\* address being known.
NextStartAgrees ==
    LET a == file.announced IN
    a # Absent /\ a.ip # Empty /\ a.cfg.listen_port \in ValidPorts /\ NoOverride =>
        /\ Loads(file.data)
        /\ Load(file.data) = [a.cfg EXCEPT !.interface_ip = Empty]
        /\ {e.ip : e \in Load(file.data).endpoints} = {a.ip}

\* The settings of a configuration that no command has an opinion on, as a start
\* would use them.
Settings(c) ==
    LET r == Repair(c)
    IN  <<r.min, r.max, r.fake, r.threshold, r.listen_port, r.max_connections>>

\* However many commands have rewritten the file, been killed or lost to a power
\* failure, its settings are all from one source: the user's last file or, from a
\* setup or a scan that could not load the file, Default(), with the overrides of
\* the scans since then.  An override for one scan thus stays for good, and so
\* does what a name server outage during a scan has replaced.
KeepsSettings ==
    file.data \notin {Absent, Torn} => Settings(file.data) = Settings(file.origin)

\* Whatever the user, the environment and the commands have asked for, a start
\* that accepts it has what the router and the injection rely on: endpoints that
\* are addresses with a port, a threshold, and delays in order.  The one exception
\* is a min_delay_ms above 50 with no larger max_delay_ms: Validate then puts 50.
LoadedIsUsable ==
    Loads(file.data) =>
        LET c == Load(file.data) IN
        /\ c.endpoints # {}
        /\ \A e \in c.endpoints : e.ip \in Ips /\ e.port \in ValidPorts
        /\ c.threshold > 0 /\ 0 < c.min /\ c.fake <= c.max
        /\ c.min <= c.fake \/ (c.max = 500 /\ c.max < c.min)
=============================================================================
