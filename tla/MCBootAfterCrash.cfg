SPECIFICATION BootSpec
CONSTANTS
    Sessions = {s1, s2}
    Runs = {r1, r2, r3}
    Lost = r3
    Home = s1
    NoRun = NoRun
    NoSession = NoSession
    Absent = Absent
    MaxTroubles = 1
SYMMETRY Symmetry
INVARIANTS
    NoZombieRun
    
PROPERTIES
    SweepClearsTheDead
CHECK_DEADLOCK FALSE
