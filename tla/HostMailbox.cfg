SPECIFICATION FairSpec
CONSTANTS
    Dispatches <- MCDispatches
    NoDispatch = "none"
    MaxInflight = 2
    DrainWindow = 2
    MaxSequence = 3
    MaxFaults = 2
CONSTRAINT SecondDispatch
INVARIANTS
    MailboxTypeOK
    CursorsAgree
    AcknowledgedIsStored
PROPERTIES
    CommandsInOrder
    EventsInOrder
    EventuallySettled
CHECK_DEADLOCK FALSE
