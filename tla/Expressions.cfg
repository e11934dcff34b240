\* Every expression of MCExprs, over every object that two reports of its sources and a tick make.
SPECIFICATION Spec
CONSTANTS
    Exprs <- MCExprs
    Scope <- MCScope
    Context <- MCContext
    Readings <- MCReadings
    Holidays = {4}
    Weekend = {0}
    DayTicks = 4
    Offset = 1
    FirstDay = 0
    LastDay = 9
    MaxList = 2
    MaxDays = 3
    MaxTokens = 40
    MaxNesting = 3
    MaxListLiteral = 2
    MaxArgs = 2
    MaxReadings = 2
    MaxTicks = 1
INVARIANTS ReadsItsText CompileSound RefusesOnlyErrors WasIsBefore
PROPERTY ObservingRefines
CHECK_DEADLOCK FALSE
