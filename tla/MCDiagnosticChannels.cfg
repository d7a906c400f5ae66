SPECIFICATION Spec
CONSTANTS
    Instances = {p1, p2}
    Projects <- MCProjects
    Readings = {r1, r2}
    Sticks = {s1}
    MaxFaults = 1
INVARIANTS PublishInvariant QuietCallIsAccurate
PROPERTIES AccurateAtLast
