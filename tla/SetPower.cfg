\* An on and an off, together or one after the other, whose requests end in every way.
CONSTANTS
    first = first
    second = second
    Calls <- Presses
    Target <- OnThenOff
    MaxRounds = 2
    Outcomes = {"ok", "asleep", "refused", "lost", "broken"}
SPECIFICATION Spec
INVARIANTS
    WithinCeiling
    ExecutedAtMostTwice
    AcceptedHolds
