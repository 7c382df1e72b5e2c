\* Two processes with every flag, two faults.
SPECIFICATION WrapSpec
CONSTANTS
    a = a  b = b  s1 = s1  s2 = s2  p1 = p1  p2 = p2
    Instances = {a, b}
    Absent = Absent  Torn = Torn
    Layouts <- PassLayouts
    Projects = {p1, p2}
    MaxMishaps = 2
    DryRuns = {TRUE, FALSE}
    NoRestores = {TRUE, FALSE}
CHECK_DEADLOCK FALSE
INVARIANTS OriginalKept StaysGoverned ConfigRestored
