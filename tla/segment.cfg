\* The codings over every boundary value, and segment files written by Flush
\* read back through every reader.
CONSTANTS
    UserKeys <- MCUserKeys
    UserValues <- MCUserValues
    TombValue <- MCTombValue
    Samples <- MCSamples
    StaleFills <- MCStaleFills
SPECIFICATION Spec
INVARIANT EncodeMatchesLEB128
INVARIANT VarintLengthMatches
INVARIANT DecodeInvertsEncode
INVARIANT TruncatedRejected
INVARIANT BoundsParsed
INVARIANT EntryStreamMatches
INVARIANT IndexLocatesValues
INVARIANT ServerParsesClientRequests
INVARIANT PartialRequestRejected
