SPECIFICATION Spec
CONSTANTS
    NaN = NaN
    Absent = Absent
    s1 = s1
    c1 = c1
    c2 = c2
    c3 = c3
    Services = {s1}
    Calls = {c1, c2, c3}
    DefaultConfig <- MCDefault
    Configs <- MCConfigs
    Forcible = {}
    MaxTime = 3
    MaxFailures = 4
PROPERTIES
    HalfOpenFailureReopens
