SPECIFICATION HostSpec
CONSTANTS
    MlPoints <- SomeMlPoints
    Readings <- SomeReadings
    MinLevel = 2
INVARIANTS
    OneSignalNeverAlarms
    NotifiedOnlyWhenWorse
    NothingSevereUntold
PROPERTY RisingSignalsNeverLowerTheScore
