SPECIFICATION FairSpec
CONSTANTS
    MaxMsgs = 4
    loop = loop
    hand = hand
    Drains <- MCDrains
    Looping <- MCLooping
    Mine <- MCMine
    Hosts <- MCHosts
INVARIANTS TypeOK NothingLost ReadOnce
PROPERTY Drained
