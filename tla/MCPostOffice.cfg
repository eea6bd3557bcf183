\* Two machines, three threads that send and receive, two mailboxes.
SPECIFICATION FairSpec
CONSTANTS
    m1 = m1
    m2 = m2
    u1 = u1
    u2 = u2
    v1 = v1
    Machines = {m1, m2}
    Users = {u1, u2, v1}
    Home <- MCHome
    Reads <- MCReads
    Boxes = {0, 1}
    MaxSends = 2
    NoPacket = NoPacket
INVARIANTS
    TypeOK
    BufferSound
    LocksSound
    OnePacketAtATime
    NoMissedWakeup
PROPERTIES
    SendReturns
    MailboxesSpec
\* threads may all wait for mail
CHECK_DEADLOCK FALSE
