\* Every chunking of a body, every route and refusal; every request is answered.
SPECIFICATION FairSpec
CONSTANTS
    Requests <- MCParsable
    Decoded <- MCDecoded
    Undecodable = {"%zz"}
    MaxBody = 2
    MaxSent = 4
    MaxChunk = 3
INVARIANTS TypeOK HandlerSeesWholeBody BufferIsBounded IdIsFromThePath
PROPERTIES EveryRequestAnswered
\* An answered request is over.
CHECK_DEADLOCK FALSE
