CONSTANTS
    d1 = d1
    d2 = d2
    i1 = i1
    i2 = i2
    h = h
    Domains = {d1}
    DefaultDomain = d1
    Names = {d1, d2}
    Ips = {i1, i2}
    Hosts = {h}
    Empty = Empty
    Lats = {1}
    UserFiles <- MCUserFiles
    Ports = {40443, 0}
    Envs <- MCEnvs
    Absent = Absent
    Torn = Torn
SPECIFICATION Spec
INVARIANTS NextStartAgrees KeepsSettings LoadedIsUsable
