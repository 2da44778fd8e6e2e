\* An appliance with an old address and one found only by mDNS; two moves or changes of
\* household, and a save of the options, before, in, between or after two setups.
CONSTANTS
    oven = oven
    hob = hob
    here = here
    there = there
    home = home
    Nowhere = Nowhere
    Junk = Junk
    Fabs <- Both
    Addresses <- Lan
    Entries <- CloudOrKeys
    Submissions <- Typed
    Detected = home
    GroupId = "ours"
    Groups <- Households
    Origins <- OvenIsOurs
    Upper <- Uppercase
    Named <- Both
    MaxChanges = 2
    MaxSaves = 1
    MaxSetups = 2
SPECIFICATION Spec
INVARIANTS
    BestAddressIsUsed
    EverybodyIsAccountedFor
    TheSettledAreNotMistaken
    BlameFits
