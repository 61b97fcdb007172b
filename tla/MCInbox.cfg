SPECIFICATION InboxSpec
CONSTANTS
    d1 = d1  d2 = d2
    Copies = {d1, d2}
    MaxAttempts = 2
    Rounds = 1
    MaxFaults = 1
    MaxReleases = 1
    MaxPasses = 1
INVARIANTS InboxTypeOK ParkedNotEarly
PROPERTIES Implements Acknowledged
