SPECIFICATION FairSpec
CONSTANTS
    client = client
    s1 = s1
    s2 = s2
    s3 = s3
    Ids = {s1, s2, s3}
    Clients = {client}
    Picks <- MCPicks
    Wants <- MCWants
    Payloads = {"source", "packet"}
    Charge <- MCCharge
    MaxStreams = 2
    MaxSubscribers = 1
    RetentionBytes = 2
    SubscriberBytes = 4
    MaxOpens = 4
    MaxEvents = 1
CHECK_DEADLOCK FALSE
INVARIANTS HistoryIsNewestRun MailboxWithinBudget MailboxIsTheRest
PROPERTIES OldestClosedMakesWay TerminalEventArrives
