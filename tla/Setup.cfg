\* Two flows after an earlier one; a household at home, which the cloud spells in lower
\* case, and one the account has kept.
CONSTANTS
    f0 = f0
    f1 = f1
    f2 = f2
    home = home
    retired = retired
    oven = oven
    Flows <- TheFlows
    Households <- Both
    Local <- Home
    Lowercase <- Home
    Fabs <- Oven
    Clouds <- Accounts
    Before <- Earlier
SPECIFICATION Spec
INVARIANTS
    LocalWins
    FailureHasCause
    CardsAreNewcomers
PROPERTIES
    OnboardsOnce
