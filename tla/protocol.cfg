\* Two-item timelines and four generations: a load and three requests after it.
\* Every message is handled and every timer fires; nobody has to ask for anything.
SPECIFICATION FairSpec
CONSTANTS
    ItemCount = 2
    MaxTurns = 2
    MaxGeneration = 4
INVARIANTS
    Agreement
    OneCandidate
    SeekAlone
    NoFault
PROPERTIES
    PublishedFirst
    RequestsSettle
CHECK_DEADLOCK FALSE
