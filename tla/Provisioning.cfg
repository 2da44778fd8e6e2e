\* Two appliances, one behind the TAN gate; three commands and one rotation.
CONSTANTS
    oven = oven
    hob = hob
    Appliances <- OvenAndHob
    Gated <- Hob
    MaxCommands = 3
    MaxRotations = 1
SPECIFICATION Spec
INVARIANTS
    RoutedEntriesWork
    PairBeatsCloud
    TakenKeysAreSaved
    StoredTokenWorks
