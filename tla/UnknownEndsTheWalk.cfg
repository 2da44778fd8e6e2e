\* dop2.py:193-194, of bodies with an array of floats inside a struct.
CONSTANTS
    Trees <- TheTrees
    Fields <- TheFields
    Depth <- TheDepth
    Leaves <- TheLeaves
    PfIds <- Ids
    Framings <- Frames
    Values <- TheValues
    MaxLength = 1
    None = None
    Unknown = Unknown
SPECIFICATION Spec
INVARIANT UnknownEndsTheWalk
