CONSTANTS
    probe = probe
    stats = stats
    Emitters = {probe, stats}
    LogCap = 2
    Signals = {"term", "hup"}
    MaxSignals = 3
    ConfigOK = {TRUE, FALSE}
    ListenOK = {TRUE, FALSE}
SPECIFICATION FairSpec
INVARIANTS LogFlushed PanicIsLate
PROPERTIES TermEndsProcess
