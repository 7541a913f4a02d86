SPECIFICATION FairStorageSpec
CONSTANTS
    Range16 = 4
    MaxResets = 2
    MaxLost = 1
    MaxSets = 1
    MaxPulses = 3
    None = None
    KeyId <- MCKeyId
INVARIANTS TypeOK FlowTypeOK PulsesMadeUp
PROPERTIES KeysApart NoncesNeverFall JoinsInTheEnd ReportsNeverFall LastPulseReported
