\* What the integration reads and writes, cut, framed and nested.
CONSTANTS
    Trees <- TheTrees
    Fields <- TheFields
    Depth <- TheDepth
    Leaves <- TheLeaves
    PfIds <- Ids
    Framings <- Frames
    Values <- TheValues
    MaxLength = 130
    None = None
    Unknown = Unknown
SPECIFICATION Spec
INVARIANTS
    BodiesDecode
    LeavesReadBack
    PaddingIsLeast
    EchoedValueIsRead
    UnknownNeverBlocks
