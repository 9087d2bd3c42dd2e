CONSTANTS
    Configurations <- SomeConfigurations
    Drifts <- SomeDrifts
    Start = 6
    MaxTime = 18
    MaxSetups = 2
SPECIFICATION Spec
INVARIANTS TypeOK SkewHonoured ReplayWindow ConfirmedByPhone
