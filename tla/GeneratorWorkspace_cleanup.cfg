\* Two clients provision one workspace; one failure, loss or restart.
SPECIFICATION Spec
CONSTANTS
    Workspaces = {w1}
    Boxes = {s1, s2}
    Callers = {c1, c2}
    Loops = {"sanitizer"}
    MaxEdits = 0
    MaxFaults = 1
INVARIANT DeletedMeansGone
PROPERTY WorkspacesAreCleaned
CHECK_DEADLOCK FALSE
