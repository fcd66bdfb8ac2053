SPECIFICATION Spec
CONSTANTS
    e1 = e1
    e2 = e2
    c1 = c1
    c2 = c2
    None = None
    Experiments = {e1, e2}
    Clients = {c1, c2}
    Facts <- MCFacts
    Mandatory <- MCMandatory
    EntryOnly <- MCEntryOnly
    Protocols <- MCProtocols
    Rules <- MCRules
    Requests <- MCRequests
    CurationsOf <- MCCurationsOf
    MaxRevision = 2
    MaxClock = 1
SYMMETRY Symmetry
INVARIANTS
    OneArmedAndExplained
    AnswersAreCommitted
    InvalidOnlyByRace
    VerdictsFollowAuthority
