----------------------------- MODULE StockChart -----------------------------
(***************************************************************************)
(* The chart of a symbol: StockChart of frontend/src/pages/ChartsPage.jsx. *)
(* Choosing another symbol mounts a new instance (key={activeSymbol}).     *)
(*                                                                         *)
(* The bars are loaded for a symbol and an interval, the trade markers for *)
(* the bars they are placed on; each effect ignores the answers of its     *)
(* earlier runs.  A failed load of bars shows made-up ones.  The window on *)
(* the bars is a preset at their end until the user zooms or pans.         *)
(*                                                                         *)
(* Drawings live in the state of the instance; an effect writes them to    *)
(* localStorage half a second after the last change.  Other tabs of the    *)
(* browser share that storage.                                             *)
(***************************************************************************)
EXTENDS Integers

CONSTANTS
    Symbol,
    Interval,
    Daily,          \* the interval an instance starts with
    Intraday,       \* the intervals shorter than a day
    Length,         \* bars the backend has for an interval
    MadeUpLength,   \* bars that generateOHLCV makes
    Drawing,        \* ids of drawings
    Anchors,        \* numbers of anchors that the drawing tools take
    DailyPeriods, IntradayPeriods,  \* the presets, in bars; ALL is 9999
    None,           \* no symbol, no drawing, no bars
    MadeUp,         \* the bars of generateOHLCV
    MaxEvents       \* bound: what the user and the other tabs do

All == 9999
Year == 252

ASSUME ChartAssumption ==
    /\ Daily \in Interval /\ Intraday \subseteq Interval \ {Daily}
    /\ Length \in [Interval -> Nat] /\ MadeUpLength \in Nat
    /\ Anchors \subseteq Nat \ {0}
    /\ DailyPeriods \subseteq Nat \ {0} /\ {Year, All} \subseteq DailyPeriods
    /\ IntradayPeriods \subseteq Nat \ {0} /\ All \in IntradayPeriods
    /\ None \notin Symbol \cup Drawing
    /\ MaxEvents \in Nat

VARIABLES
    symbol,     \* of the mounted instance, None when there is no chart
    interval,   \* chosen by the user
    bars,       \* allData: the symbol and the interval of the bars, or MadeUp
    flights,    \* requests under way: of the instance and its current effects,
                \* or of earlier ones
    trades,     \* showTradeMarkers
    marks,      \* tradeSignals: the bars they are placed on, or None
    missed,     \* history: the last request for these marks brought none
    period,     \* the preset of the window
    zoom,       \* the window of the user, or NoZoom
    zoomedOn,   \* history: the bars that zoom was set on
    drag,       \* dragRef: the window when the button went down, or NoZoom
    drawings,   \* by id, 0 = none, n = as left by its n-th change
    stored,     \* localStorage, by symbol
    timer,      \* is a save of the drawings pending?
    tool,       \* anchors that the active tool takes, 0 = no tool
    pending,    \* anchors placed so far
    selected,   \* selectedDrawingId
    grabbed,    \* drawInteraction # "idle"
    made,       \* ids in use
    erased,     \* history: drawings the user has taken off this chart
    foreign,    \* history: may storage have what this tab did not read or write?
    refused,    \* history: the last save failed
    template,   \* the drawings of the saved template, or None
    events

data == <<interval, bars, flights, trades, marks, missed>>
window == <<period, zoom, zoomedOn, drag>>
sketch == <<drawings, timer, erased>>
hand == <<tool, pending, selected, grabbed>>
storage == <<stored, made, foreign, refused, template>>
vars == <<symbol, data, window, sketch, hand, storage, events>>

NoZoom == [start |-> 0, count |-> -1]
Blank == [d \in Drawing |-> 0]

Key == (Symbol \cup {None}) \X Interval
Wanted == <<symbol, interval>>

LengthOf(b) == IF b = MadeUp THEN MadeUpLength ELSE Length[b[2]]

-----------------------------------------------------------------------------
(* Mounting.                                                               *)

\* The answers of what is unmounted or was asked before are ignored.
Cancelled(whats) ==
    {[f EXCEPT !.live = IF f.what \in whats THEN FALSE ELSE @] : f \in flights}

BarsOf(s, i) == [what |-> "bars", of |-> <<s, i>>, live |-> TRUE]
MarksOn(b) == [what |-> "marks", of |-> b, live |-> TRUE]

\* The state of a new instance; its effects ask for the bars and read the
\* drawings, which arms the timer.
Fresh(s) ==
    /\ symbol' = s
    /\ interval' = Daily /\ bars' = MadeUp
    /\ trades' = FALSE /\ marks' = None /\ missed' = FALSE
    /\ period' = Year /\ zoom' = NoZoom /\ zoomedOn' = None /\ drag' = NoZoom
    /\ tool' = 0 /\ pending' = 0 /\ selected' = None /\ grabbed' = FALSE
    /\ erased' = {} /\ refused' = FALSE

\* No chart is open; a template without drawings may have been saved before.
Init ==
    /\ symbol = None
    /\ interval = Daily /\ bars = MadeUp /\ flights = {}
    /\ trades = FALSE /\ marks = None /\ missed = FALSE
    /\ period = Year /\ zoom = NoZoom /\ zoomedOn = None /\ drag = NoZoom
    /\ drawings = Blank /\ timer = FALSE /\ erased = {}
    /\ tool = 0 /\ pending = 0 /\ selected = None /\ grabbed = FALSE
    /\ stored = [s \in Symbol |-> Blank] /\ made = {}
    /\ foreign = FALSE /\ refused = FALSE
    /\ template \in {None, Blank}
    /\ events = 0

Event == events < MaxEvents /\ events' = events + 1

\* A button of the controls is beside the chart: on the way the pointer leaves
\* it, which ends a pan or a drag (handleMouseLeave).  A button of the drawing
\* toolbar lies inside: its press does first what a press on the chart does, an
\* action of its own here, and the pan or drag ends with its release.
HandFree == symbol # None /\ drag = NoZoom /\ ~grabbed

\* Variant: the stored drawings are not read.
ReadBlank(s) == drawings' = Blank /\ foreign' = FALSE

\* The stored drawings, or none if they cannot be read or parsed.
Read(s) ==
    \/ drawings' = stored[s] /\ foreign' = FALSE
    \/ drawings' = Blank /\ foreign' = TRUE

\* The timer of the instance that goes is cleared: what it was to save is lost.
Mount(s) ==
    /\ symbol # s
    /\ Event
    /\ Fresh(s)
    /\ flights' = Cancelled({"bars", "marks"}) \cup {BarsOf(s, Daily)}
    /\ Read(s)
    /\ timer' = TRUE
    /\ UNCHANGED <<stored, made, template>>

Unmount ==
    /\ symbol # None
    /\ Event
    /\ Fresh(None)
    /\ flights' = Cancelled({"bars", "marks"})
    /\ drawings' = Blank
    /\ timer' = FALSE /\ foreign' = FALSE
    /\ UNCHANGED <<stored, made, template>>

-----------------------------------------------------------------------------
(* The bars and the markers on them.                                       *)

\* The effect of the markers runs again for other bars, or when it is turned on.
Remark(b, fs) ==
    IF trades' /\ LengthOf(b) > 0
    THEN flights' = {[f EXCEPT !.live = IF f.what = "marks" THEN FALSE ELSE @] : f \in fs}
                    \cup {MarksOn(b)}
    ELSE flights' = {[f EXCEPT !.live = IF f.what = "marks" THEN FALSE ELSE @] : f \in fs}

\* The presets of a day and of less differ; the window goes back to a preset.
ChooseInterval(i) ==
    LET periods == IF i \in Intraday THEN IntradayPeriods ELSE DailyPeriods IN
    /\ HandFree
    /\ i # interval
    /\ Event
    /\ interval' = i
    /\ flights' = Cancelled({"bars"}) \cup {BarsOf(symbol, i)}
    /\ zoom' = NoZoom /\ zoomedOn' = None
    /\ period' = IF period \in periods THEN period
                 ELSE IF i \in Intraday THEN All ELSE Year
    /\ UNCHANGED <<symbol, bars, trades, marks, missed, drag, sketch, hand, storage>>

\* Variant: every answer counts.
ReceiveBarsLate(f, b) ==
    /\ f \in flights /\ f.what = "bars"
    /\ b \in {f.of, MadeUp}
    /\ bars' = b
    /\ missed' = FALSE
    /\ UNCHANGED trades
    /\ Remark(b, flights \ {f})
    /\ UNCHANGED <<symbol, interval, marks, window, sketch, hand, storage, events>>

\* An answer for the bars, or a failure: then bars are made up.
ReceiveBars(f, b) ==
    /\ f \in flights /\ f.what = "bars"
    /\ b \in {f.of, MadeUp}
    /\ IF f.live
       THEN /\ bars' = b
            /\ missed' = FALSE
            /\ UNCHANGED trades
            /\ Remark(b, flights \ {f})
       ELSE /\ flights' = flights \ {f}
            /\ UNCHANGED <<bars, missed, trades>>
    /\ UNCHANGED <<symbol, interval, marks, window, sketch, hand, storage, events>>

ToggleTrades ==
    /\ HandFree
    /\ Event
    /\ trades' = ~trades
    /\ marks' = IF trades THEN None ELSE marks
    /\ missed' = FALSE
    /\ Remark(bars, flights)
    /\ UNCHANGED <<symbol, interval, bars, window, sketch, hand, storage>>

\* Variant: every answer counts.
ReceiveMarksLate(f, found) ==
    /\ f \in flights /\ f.what = "marks"
    /\ marks' = IF found THEN f.of ELSE marks
    /\ missed' = IF f.live THEN ~found ELSE missed
    /\ flights' = flights \ {f}
    /\ UNCHANGED <<symbol, interval, bars, trades, window, sketch, hand, storage, events>>

\* Without portfolios, or after an error, the markers stay as they were.
ReceiveMarks(f, found) ==
    /\ f \in flights /\ f.what = "marks"
    /\ marks' = IF f.live /\ found THEN f.of ELSE marks
    /\ missed' = IF f.live THEN ~found ELSE missed
    /\ flights' = flights \ {f}
    /\ UNCHANGED <<symbol, interval, bars, trades, window, sketch, hand, storage, events>>

-----------------------------------------------------------------------------
(* The window on the bars.                                                 *)

Least(a, b) == IF a < b THEN a ELSE b
Most(a, b) == IF a > b THEN a ELSE b

N == LengthOf(bars)

\* visibleStart and totalSlots; a window of the user has ten slots or more.
Slots == IF zoom = NoZoom THEN Least(period, N) ELSE Most(10, zoom.count)
Start == IF zoom = NoZoom THEN N - Slots ELSE Most(0, zoom.start)

\* visibleData.length: a slice ends where the bars end.
Visible == Most(0, Least(Slots, N - Start))

\* A window may reach a quarter of its slots, but at least ten, past the bars.
Future(count) == Most(10, (count + 2) \div 4)

\* Variant: the first bar of the window may lie past the last one.
ClampFirst(count, start) == Most(0, Least(N + Future(count), start))

Clamp(count, start) == Most(0, Least(N - count + Future(count), start))

ChoosePeriod(p) ==
    /\ HandFree
    /\ p \in IF interval \in Intraday THEN IntradayPeriods ELSE DailyPeriods
    /\ Event
    /\ period' = p
    /\ zoom' = NoZoom /\ zoomedOn' = None
    /\ UNCHANGED <<symbol, data, drag, sketch, hand, storage>>

\* Math.round(count * 1.15) and Math.round(count * 0.87)
Wider(count) == (115 * count + 50) \div 100
Narrower(count) == (87 * count + 50) \div 100

\* The pointer is at half h of the width: 0 left, 1 middle, 2 right.  A preset
\* counts with its nominal size, also when there are fewer bars.
Wheel(out, h) ==
    LET count == IF zoom = NoZoom THEN period ELSE zoom.count
        start == IF zoom = NoZoom THEN N - Least(count, N) ELSE zoom.start
        now   == Most(10, Least(N, IF out THEN Wider(count) ELSE Narrower(count)))
        pivot == start + (count * h + 1) \div 2
    IN
    /\ symbol # None
    /\ Event
    /\ zoom' = [start |-> Clamp(now, (2 * pivot - now * h + 1) \div 2), count |-> now]
    /\ zoomedOn' = bars
    /\ UNCHANGED <<symbol, data, period, drag, sketch, hand, storage>>

\* The button goes down beside every drawing.
StartPan ==
    /\ HandFree /\ tool = 0
    /\ Event
    /\ drag' = IF zoom # NoZoom THEN zoom ELSE [start |-> Start, count |-> Visible]
    /\ selected' = None
    /\ UNCHANGED <<symbol, data, period, zoom, zoomedOn, sketch, tool, pending, grabbed, storage>>

\* Bars that came since the button went down limit the window.
Pan(to) ==
    /\ drag # NoZoom /\ ~grabbed
    /\ Event
    /\ zoom' = [start |-> Clamp(drag.count, to), count |-> drag.count]
    /\ zoomedOn' = bars
    /\ UNCHANGED <<symbol, data, period, drag, sketch, hand, storage>>

\* handleMouseUp and handleMouseLeave
Release ==
    /\ drag # NoZoom \/ grabbed
    /\ drag' = IF grabbed THEN drag ELSE NoZoom
    /\ grabbed' = FALSE
    /\ UNCHANGED <<symbol, data, period, zoom, zoomedOn, sketch, tool, pending, selected, storage>>
    /\ UNCHANGED events

-----------------------------------------------------------------------------
(* The drawings.                                                           *)

\* Variant: a change does not arm the timer.
DrawUnarmed(ds) == drawings' = ds /\ UNCHANGED timer

\* Every change arms the timer anew.
Draw(ds) == drawings' = ds /\ timer' = TRUE

\* The button of the active tool puts it away; other tools may take as many.
ChooseTool(k) ==
    /\ HandFree
    /\ Event
    /\ tool' \in IF tool = k THEN {0, k} ELSE {k}
    /\ pending' = 0 /\ selected' = None
    /\ UNCHANGED <<symbol, data, window, sketch, grabbed, storage>>

\* Variant: one anchor too many.
PlaceAnchorMore(d) ==
    /\ symbol # None
    /\ tool > 0
    /\ d \notin made
    /\ Event
    /\ IF pending + 1 > tool
       THEN /\ Draw([drawings EXCEPT ![d] = 1])
            /\ made' = made \cup {d}
            /\ pending' = 0
       ELSE /\ pending' = pending + 1
            /\ UNCHANGED <<drawings, timer, made>>
    /\ UNCHANGED <<symbol, data, window, erased, tool, selected, grabbed, stored, foreign, refused, template>>

\* The last anchor makes the drawing; the tool stays active.
PlaceAnchor(d) ==
    /\ symbol # None
    /\ tool > 0
    /\ d \notin made
    /\ Event
    /\ IF pending + 1 >= tool
       THEN /\ Draw([drawings EXCEPT ![d] = 1])
            /\ made' = made \cup {d}
            /\ pending' = 0
       ELSE /\ pending' = pending + 1
            /\ UNCHANGED <<drawings, timer, made>>
    /\ UNCHANGED <<symbol, data, window, erased, tool, selected, grabbed, stored, foreign, refused, template>>

\* A click on a drawing selects it; a click on the selected one takes hold of
\* it, of its body or of one of its anchors.
Click(d) ==
    /\ HandFree /\ tool = 0
    /\ drawings[d] > 0
    /\ Event
    /\ selected' = d
    /\ grabbed' = (selected = d)
    /\ UNCHANGED <<symbol, data, window, sketch, tool, pending, storage>>

Drag ==
    /\ grabbed /\ selected # None
    /\ Event
    /\ Draw([drawings EXCEPT ![selected] = @ + 1])
    /\ UNCHANGED <<symbol, data, window, erased, hand, storage>>

\* Delete, Backspace and the button of the toolbar
Erase ==
    /\ selected # None /\ tool = 0
    /\ Event
    /\ Draw([drawings EXCEPT ![selected] = 0])
    /\ erased' = erased \cup {selected}
    /\ selected' = None
    /\ UNCHANGED <<symbol, data, window, tool, pending, grabbed, storage>>

\* "Clear all drawings"
Clear ==
    /\ HandFree
    /\ Event
    /\ Draw(Blank)
    /\ erased' = erased \cup {d \in Drawing : drawings[d] > 0}
    /\ selected' = None
    /\ UNCHANGED <<symbol, data, window, tool, pending, grabbed, storage>>

\* The key, and the button that goes back to selecting.
Escape ==
    /\ tool > 0 \/ selected # None
    /\ tool' = 0
    /\ pending' = IF tool > 0 THEN 0 ELSE pending
    /\ selected' = IF tool > 0 THEN selected ELSE None
    /\ UNCHANGED <<symbol, data, window, sketch, grabbed, storage, events>>

SaveTemplate ==
    /\ HandFree
    /\ Event
    /\ template' = drawings
    /\ UNCHANGED <<symbol, data, window, sketch, hand, stored, made, foreign, refused>>

\* Variant: what was selected stays selected.
LoadTemplateSelected ==
    /\ HandFree
    /\ template # None
    /\ Event
    /\ Draw(template)
    /\ erased' = erased \cup {d \in Drawing : drawings[d] > 0 /\ template[d] = 0}
    /\ UNCHANGED <<symbol, data, window, hand, storage>>

\* Its drawings take the place of those of the chart, whatever its symbol.
LoadTemplate ==
    /\ HandFree
    /\ template # None
    /\ Event
    /\ Draw(template)
    /\ erased' = erased \cup {d \in Drawing : drawings[d] > 0 /\ template[d] = 0}
    /\ selected' = None
    /\ UNCHANGED <<symbol, data, window, tool, pending, grabbed, storage>>

\* The timer fires: the whole list is written.
Save ==
    /\ timer
    /\ stored' = [stored EXCEPT ![symbol] = drawings]
    /\ timer' = FALSE
    /\ foreign' = FALSE /\ refused' = FALSE
    /\ UNCHANGED <<symbol, data, window, drawings, erased, hand, made, template, events>>

\* Storage is full or denied: the timer has fired and nothing was written.
SaveFails ==
    /\ timer
    /\ timer' = FALSE
    /\ refused' = TRUE
    /\ UNCHANGED <<symbol, data, window, drawings, erased, hand, stored, made, foreign, template>>
    /\ UNCHANGED events

\* Another tab writes its list: what it read of the stored one, and a drawing
\* of its own.
OtherTab(s, read, d) ==
    /\ d \notin made
    /\ Event
    /\ stored' = [stored EXCEPT ![s] =
                     [x \in Drawing |-> IF x = d THEN 1 ELSE IF x \in read THEN @[x] ELSE 0]]
    /\ made' = made \cup {d}
    /\ foreign' = (foreign \/ s = symbol)
    /\ UNCHANGED <<symbol, data, window, sketch, hand, refused, template>>

-----------------------------------------------------------------------------
Page == Unmount \/ \E s \in Symbol : Mount(s)

Answers ==
    \E f \in flights :
        \/ \E b \in {f.of, MadeUp} : ReceiveBars(f, b)
        \/ \E found \in BOOLEAN : ReceiveMarks(f, found)

Look ==
    \/ \E i \in Interval : ChooseInterval(i)
    \/ ToggleTrades
    \/ \E p \in DailyPeriods \cup IntradayPeriods : ChoosePeriod(p)
    \/ \E out \in BOOLEAN, h \in 0 .. 2 : Wheel(out, h)
    \/ StartPan
    \/ \E to \in 0 .. N + 10 : Pan(to)

Sketch ==
    \/ \E k \in Anchors : ChooseTool(k)
    \/ \E d \in Drawing : PlaceAnchor(d) \/ Click(d)
    \/ Drag \/ Erase \/ Clear \/ Escape \/ SaveTemplate \/ LoadTemplate

Next ==
    \/ Page \/ Answers \/ Look \/ Sketch \/ Release \/ Save \/ SaveFails
    \/ \E s \in Symbol, read \in SUBSET Drawing, d \in Drawing : OtherTab(s, read, d)

Spec == Init /\ [][Next]_vars

-----------------------------------------------------------------------------
(* Properties.                                                             *)

BarSet == (Symbol \X Interval) \cup {MadeUp}
Window == [start : Nat, count : Nat] \cup {NoZoom}
Flight == [what : {"bars", "marks"}, of : BarSet, live : BOOLEAN]

\* Every variable has its type; a tool never waits for more anchors than it
\* takes, and no window starts before the first bar.
TypeOK ==
    /\ symbol \in Symbol \cup {None}
    /\ interval \in Interval /\ bars \in BarSet
    /\ flights \subseteq Flight
    /\ trades \in BOOLEAN /\ marks \in BarSet \cup {None} /\ missed \in BOOLEAN
    /\ period \in IF interval \in Intraday THEN IntradayPeriods ELSE DailyPeriods
    /\ zoom \in Window /\ zoomedOn \in BarSet \cup {None} /\ drag \in Window
    /\ drawings \in [Drawing -> Nat] /\ stored \in [Symbol -> [Drawing -> Nat]]
    /\ timer \in BOOLEAN
    /\ tool \in Anchors \cup {0} /\ pending \in 0 .. Most(0, tool - 1)
    /\ selected \in Drawing \cup {None} /\ grabbed \in BOOLEAN
    /\ made \subseteq Drawing /\ erased \subseteq Drawing
    /\ foreign \in BOOLEAN /\ refused \in BOOLEAN
    /\ template \in [Drawing -> Nat] \cup {None}
    /\ events \in Nat

\* Whenever no save is pending, storage has the drawings on the screen, unless
\* the last save failed (the catch of setItem says nothing), or storage could not
\* be read or another tab has written since: every change arms the timer and
\* nothing but leaving the chart disarms it unsaved.
SavedWhenQuiet ==
    symbol # None /\ ~timer /\ ~refused /\ ~foreign => stored[symbol] = drawings

\* A save takes a drawing out of storage only if the user has taken it off this
\* chart, or this instance could not read it, or another tab has put it there
\* meanwhile: an instance never writes the empty list it starts with in place of
\* one it can read, nor the list of another symbol.
NothingVanishes ==
    [][Save => \A d \in Drawing : stored[symbol][d] > 0 /\ drawings[d] = 0
                                      => d \in erased \/ foreign]_vars

\* What is selected is on the chart, so that dragging and Delete act on it.
SelectedExists == selected # None => drawings[selected] > 0

\* Pan and wheel leave a bar in sight, but at the deepest zoom of ten slots: a
\* window can only be empty because it was set on other bars than those that
\* have come since.
BarsInSight == zoom # NoZoom /\ zoomedOn = bars /\ zoom.count > 10 /\ N > 0 => Visible > 0

\* Trade markers point into the bars on the screen, unless their request is
\* still under way or has brought none.
MarksFit ==
    marks \notin {None, bars} /\ N > 0 =>
        \/ missed
        \/ \E f \in flights : f = MarksOn(bars)

View == INSTANCE Viewer WITH
    Key         <- Key,
    Placeholder <- MadeUp,
    chosen      <- Wanted,
    shown       <- bars

\* The chart implements the promise of a view: no answer for an earlier symbol
\* or interval replaces what is on the screen.
ShowsChosen == View!Spec
=============================================================================
