SPECIFICATION FairSpec
CONSTANTS
    u1 = u1
    u2 = u2
    t1 = t1
    Requests <- MCRequests
    Voice <- MCVoice
    None = None
    Notice = Notice
    Chunks = 2
    MaxDeliveries <- MCMaxDeliveries
    MaxToggles = 2
INVARIANTS
    CompletionAfterPlayback
PROPERTIES
    DeliveriesSettle
CHECK_DEADLOCK FALSE
