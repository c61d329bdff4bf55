SPECIFICATION Spec
CONSTANTS
    Numeral <- MCNumeral
    Loopback <- MCLoopback
    LocalV4 <- MCLocalV4
    LocalV6 <- MCLocalV6
    Options <- MCOptions
    LocalAddresses <- MCLocalAddresses
    External <- MCExternal
    Servers <- MCServers
    PortNumbers <- MCPortNumbers
    Candidates <- MCCandidates
    MaxCandidates = 3
INVARIANTS
    TypeOK
    AddressRoundTrip
    PrioritizeIsTieredOrder
PROPERTIES
    ParseResolves
