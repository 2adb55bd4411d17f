SPECIFICATION CacheSpec
CONSTANTS
    Messages <- MCMessages
    Buffers <- MCBuffers
    EmptyMessage = "empty"
    NoMessage = "null"
    NoBytes = "none"
    Encoding <- MCEncoding
    Decoding <- MCDecoding
    ByteLen <- MCByteLen
    MaxSize = 2
    Mutants <- MCMutants
    Offspring <- MCOffspring
INVARIANTS
    TypeOK
    CacheCoherent
    FirstLoadHits
PROPERTIES
    Uncached
