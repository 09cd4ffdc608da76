\* One client at a time, edits and snapshots, one failure, loss or restart.
SPECIFICATION Spec
CONSTANTS
    Workspaces = {w1, w2}
    Boxes = {s1, s2}
    Callers = {c1}
    Loops = {"snapshotter"}
    MaxEdits = 1
    MaxFaults = 1
INVARIANT WorkspaceInvariant
 
SYMMETRY Symmetry
CHECK_DEADLOCK FALSE
