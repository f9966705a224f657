CONSTANTS
    probe = probe
    stats = stats
    Emitters = {probe, stats}
    LogCap = 2
    Signals = {"hup"}
    MaxSignals = 3
    ConfigOK = {TRUE}
    ListenOK = {TRUE}
SPECIFICATION Spec
INVARIANTS ReloadSurvives
