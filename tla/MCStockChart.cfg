SPECIFICATION Spec
CONSTANTS
    Symbol = {A, B}
    Interval = {"1d", "1wk", "5m"}
    Daily = "1d"
    Intraday = {"5m"}
    Length <- MCLength
    MadeUpLength = 14
    Drawing = {d1, d2}
    Anchors = {1, 2}
    DailyPeriods = {252, 9999}
    IntradayPeriods = {100, 9999}
    None = None
    MadeUp = MadeUp
    MaxEvents = 5
SYMMETRY Sym
INVARIANTS TypeOK SavedWhenQuiet SelectedExists BarsInSight MarksFit
PROPERTIES NothingVanishes ShowsChosen
CHECK_DEADLOCK FALSE
