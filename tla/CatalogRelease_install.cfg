\* Two entries, the configured digest may change at a restart, one fault.
\* A Server that refused to start, or has its baseline, may stop.
SPECIFICATION FairSpec
CONSTANTS
    d1 = d1
    d2 = d2
    e1 = e1
    e2 = e2
    None = None
    Digests <- MCDigests
    Entries <- MCEntries
    Initial = d1
    MaxSourceAttempts = 2
    MaxFaults = 1
INVARIANT BaselineInvariant
PROPERTY InstallationsEnd
CHECK_DEADLOCK FALSE
