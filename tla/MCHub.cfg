CONSTANTS
    a = a
    c1 = c1
    c2 = c2
    m1 = m1
    m2 = m2
    Topic = {a}
    Client = {c1, c2}
    Message = {m1, m2}
    TopicOf <- MCTopicOf
    Buffer = 1
SPECIFICATION FairSpec
INVARIANTS
    NoSendOnClosed
    StreamInOrder
    OnlyFullMiss
PROPERTIES
    MailboxImplemented
    ConnectionsEnd
