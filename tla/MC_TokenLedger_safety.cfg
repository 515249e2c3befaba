CONSTANTS
    s1 = s1
    s2 = s2
    s3 = s3
    b1 = b1
    b2 = b2
    k1 = k1
    k2 = k2
    Sessions <- MCSessions
    Brokers <- MCBrokers
    Tokens <- MCTokens
    BrokerOf <- MCBrokerOf
    FileInfoCanFail = TRUE
SPECIFICATION Spec
INVARIANTS
    TypeOK
    CheckedTokenAdmitsOnce
