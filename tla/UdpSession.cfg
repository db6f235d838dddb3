\* Two slots for notifications and four datagrams: notifications are dropped.
CONSTANTS
    Lens = {1, 2}
    Limits = {1, 2}
    Capacity = 2
    MaxForward = 4
    MaxFail = 1
SPECIFICATION Spec
INVARIANTS TypeOK EventMatchesCoroutine Framed BytesInOrder DataIsAnnounced InterruptionMeansData
PROPERTIES SuccessHasData ImplementsChannel
CHECK_DEADLOCK FALSE
