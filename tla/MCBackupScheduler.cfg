CONSTANTS
    Expr = {daily, weekly, typo, blank}
    Valid = {daily, weekly}
    Blank = blank
    Default = daily
    EntryId = {n1, n2}
    None = None
SPECIFICATION FairSchedulerSpec
INVARIANTS
    NoForgottenEntry
    FiresWhatWasRead
PROPERTIES
    DisablingTakesEffect
    SavesTakeEffect
