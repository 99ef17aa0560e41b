-------------------------- MODULE StockChartProofs --------------------------
(***************************************************************************)
(* What is proved of StockChart: its types, that it implements Viewer, and *)
(* the safety of its drawings, its window and its markers.  The state      *)
(* falls into three groups that few actions share: the data, the window    *)
(* on it and the drawings.  Each proof looks only at the actions of its    *)
(* group.                                                                  *)
(***************************************************************************)
EXTENDS StockChart, TLAPS

-----------------------------------------------------------------------------
(* The groups.                                                             *)

\* The steps that touch the data ...
DataStep ==
    \/ Unmount \/ ToggleTrades
    \/ \E s \in Symbol : Mount(s)
    \/ \E i \in Interval : ChooseInterval(i)
    \/ \E f \in flights : \E b \in {f.of, MadeUp} : ReceiveBars(f, b)
    \/ \E f \in flights, found \in BOOLEAN : ReceiveMarks(f, found)

LEMMA DataFrame == [Next]_vars => DataStep \/ UNCHANGED <<symbol, data>>
<1> SUFFICES ASSUME [Next]_vars PROVE DataStep \/ UNCHANGED <<symbol, data>>
  OBVIOUS
<1>1. CASE UNCHANGED vars
  BY <1>1 DEF vars
<1>2. CASE Page \/ Answers
  BY <1>2 DEF Page, Answers, DataStep
<1>3. CASE Look
  BY <1>3 DEF Look, DataStep, ChoosePeriod, Wheel, StartPan, Pan
<1>4. CASE Sketch \/ Release \/ Save \/ SaveFails
  BY <1>4 DEF Sketch, ChooseTool, PlaceAnchor, Click, Drag, Erase, Clear, Escape, SaveTemplate,
              LoadTemplate, Release, Save, SaveFails
<1>5. CASE \E s \in Symbol, read \in SUBSET Drawing, d \in Drawing : OtherTab(s, read, d)
  BY <1>5 DEF OtherTab
<1> QED BY <1>1, <1>2, <1>3, <1>4, <1>5 DEF Next

\* ... the window ...
WindowStep ==
    \/ Unmount \/ StartPan \/ Release
    \/ \E s \in Symbol : Mount(s)
    \/ \E i \in Interval : ChooseInterval(i)
    \/ \E p \in DailyPeriods \cup IntradayPeriods : ChoosePeriod(p)
    \/ \E out \in BOOLEAN, h \in 0 .. 2 : Wheel(out, h)
    \/ \E to \in 0 .. N + 10 : Pan(to)

LEMMA WindowFrame == [Next]_vars => WindowStep \/ UNCHANGED <<interval, window>>
<1> SUFFICES ASSUME [Next]_vars PROVE WindowStep \/ UNCHANGED <<interval, window>>
  OBVIOUS
<1>1. CASE UNCHANGED vars
  BY <1>1 DEF vars, data
<1>2. CASE Page \/ Answers
  BY <1>2 DEF Page, Answers, WindowStep, ReceiveBars, ReceiveMarks
<1>3. CASE Look
  BY <1>3 DEF Look, WindowStep, ToggleTrades
<1>4. CASE Sketch \/ Release \/ Save \/ SaveFails
  BY <1>4 DEF Sketch, ChooseTool, PlaceAnchor, Click, Drag, Erase, Clear, Escape, SaveTemplate,
              LoadTemplate, WindowStep, Save, SaveFails, data
<1>5. CASE \E s \in Symbol, read \in SUBSET Drawing, d \in Drawing : OtherTab(s, read, d)
  BY <1>5 DEF OtherTab, data
<1> QED BY <1>1, <1>2, <1>3, <1>4, <1>5 DEF Next

\* ... and the drawings.
Drawings == <<symbol, sketch, storage, hand>>
SketchStep ==
    \/ Unmount \/ StartPan \/ Release \/ Save \/ SaveFails \/ Sketch
    \/ \E s \in Symbol : Mount(s)
    \/ \E s \in Symbol, read \in SUBSET Drawing, d \in Drawing : OtherTab(s, read, d)

LEMMA SketchFrame == [Next]_vars => SketchStep \/ UNCHANGED Drawings
<1> SUFFICES ASSUME [Next]_vars PROVE SketchStep \/ UNCHANGED Drawings
  OBVIOUS
<1>1. CASE UNCHANGED vars
  BY <1>1 DEF vars, Drawings
<1>2. CASE Page \/ Answers
  BY <1>2 DEF Page, Answers, SketchStep, ReceiveBars, ReceiveMarks, Drawings
<1>3. CASE Look
  BY <1>3 DEF Look, SketchStep, ChooseInterval, ToggleTrades, ChoosePeriod, Wheel, Pan, Drawings
<1>4. CASE Sketch \/ Release \/ Save \/ SaveFails
  BY <1>4 DEF SketchStep
<1>5. CASE \E s \in Symbol, read \in SUBSET Drawing, d \in Drawing : OtherTab(s, read, d)
  BY <1>5 DEF SketchStep
<1> QED BY <1>1, <1>2, <1>3, <1>4, <1>5 DEF Next

-----------------------------------------------------------------------------
(* The data.                                                               *)

DataOK ==
    /\ symbol \in Symbol \cup {None}
    /\ interval \in Interval /\ bars \in BarSet
    /\ flights \subseteq Flight
    /\ trades \in BOOLEAN /\ marks \in BarSet \cup {None} /\ missed \in BOOLEAN

\* Only the bars of the current choice and the markers of the bars on the
\* screen are waited for.
Awaited ==
    \A f \in flights : f.live =>
        IF f.what = "bars" THEN f.of = Wanted ELSE f.of = bars /\ trades

DataInv == DataOK /\ Awaited /\ (marks # None => trades) /\ MarksFit

LEMMA Cut ==
  ASSUME NEW f \in Flight, NEW b
  PROVE  LET g == [f EXCEPT !.live = b] IN
         /\ b \in BOOLEAN => g \in Flight
         /\ g.live = b /\ g.what = f.what /\ g.of = f.of
         /\ f.live = b => g = f
  BY DEF Flight

LEMMA MarksOnFlight ==
  ASSUME NEW b \in BarSet
  PROVE  /\ MarksOn(b) \in Flight
         /\ MarksOn(b).what = "marks" /\ MarksOn(b).live /\ MarksOn(b).of = b
  BY DEF MarksOn, Flight

LEMMA BarsOfFlight ==
  ASSUME NEW s \in Symbol, NEW i \in Interval
  PROVE  /\ BarsOf(s, i) \in Flight /\ <<s, i>> \in BarSet
         /\ BarsOf(s, i).what = "bars" /\ BarsOf(s, i).live /\ BarsOf(s, i).of = <<s, i>>
  BY DEF BarsOf, Flight, BarSet

\* Flights cut off answer nothing; the others fly on.
CutsTo(fs, gs, whats) ==
    /\ gs \subseteq Flight
    /\ \A g \in gs : g.live => g \in fs /\ g.what \notin whats
    /\ \A f \in fs : f.what \notin whats => f \in gs

LEMMA CancelledCuts ==
  ASSUME flights \subseteq Flight, NEW whats
  PROVE  CutsTo(flights, Cancelled(whats), whats)
<1> DEFINE cut(f) == [f EXCEPT !.live = IF f.what \in whats THEN FALSE ELSE f.live]
<1>1. ASSUME NEW f \in flights
      PROVE  /\ cut(f) \in Flight /\ cut(f).what = f.what
             /\ f.what \in whats => ~cut(f).live
             /\ f.what \notin whats => cut(f) = f
  <2>1. f \in Flight /\ f.live \in BOOLEAN
    BY DEF Flight
  <2>2. CASE f.what \in whats
    BY <2>1, <2>2, Cut
  <2>3. CASE f.what \notin whats
    BY <2>1, <2>3, Cut
  <2> QED BY <2>2, <2>3
<1>2. Cancelled(whats) = {cut(f) : f \in flights}
  BY DEF Cancelled
<1> HIDE DEF cut
<1> QED BY <1>1, <1>2 DEF CutsTo

\* The effect of the markers asks for those on b, if there is anything to mark.
LEMMA Remarks ==
  ASSUME NEW b \in BarSet, NEW fs, fs \subseteq Flight, Remark(b, fs)
  PROVE  /\ flights' \subseteq Flight
         /\ \A g \in flights' : g.live => (g \in fs /\ g.what # "marks") \/ (g = MarksOn(b) /\ trades')
         /\ trades' /\ LengthOf(b) > 0 => MarksOn(b) \in flights'
<1> DEFINE cut(f) == [f EXCEPT !.live = IF f.what = "marks" THEN FALSE ELSE f.live]
<1>1. ASSUME NEW f \in fs
      PROVE  /\ cut(f) \in Flight /\ cut(f).what = f.what
             /\ f.what = "marks" => ~cut(f).live
             /\ f.what # "marks" => cut(f) = f
  <2>1. f \in Flight /\ f.live \in BOOLEAN
    BY DEF Flight
  <2>2. CASE f.what = "marks"
    BY <2>1, <2>2, Cut
  <2>3. CASE f.what # "marks"
    BY <2>1, <2>3, Cut
  <2> QED BY <2>2, <2>3
<1> DEFINE cuts == {cut(f) : f \in fs}
<1>2. IF trades' /\ LengthOf(b) > 0 THEN flights' = cuts \cup {MarksOn(b)} ELSE flights' = cuts
  BY DEF Remark
<1>3. cuts \subseteq Flight /\ \A g \in cuts : g.live => g \in fs /\ g.what # "marks"
  <2> HIDE DEF cut
  <2> QED BY <1>1
<1> HIDE DEF cuts
<1> QED BY <1>2, <1>3, MarksOnFlight

LEMMA InitData == Init => DataInv
  BY ChartAssumption DEF Init, DataInv, DataOK, Awaited, MarksFit, BarSet

\* Mounting and unmounting leave no flight that counts but the one for the bars.
LEMMA FreshData ==
  ASSUME DataInv, NEW s \in Symbol \cup {None}, Fresh(s),
         \/ s \in Symbol /\ flights' = Cancelled({"bars", "marks"}) \cup {BarsOf(s, Daily)}
         \/ s = None /\ flights' = Cancelled({"bars", "marks"})
  PROVE  DataInv'
<1>1. CutsTo(flights, Cancelled({"bars", "marks"}), {"bars", "marks"})
  BY CancelledCuts DEF DataInv, DataOK
<1>2. Daily \in Interval
  BY ChartAssumption
<1> DEFINE f == BarsOf(s, Daily)
           cut == Cancelled({"bars", "marks"})
<1>b. s \in Symbol => f \in Flight /\ f.what = "bars" /\ f.of = <<s, Daily>>
  BY <1>2, BarsOfFlight
<1>c. flights' \subseteq cut \cup {f} /\ (f \in flights' => f \in cut \/ s \in Symbol)
  OBVIOUS
<1> HIDE DEF f, cut
<1>3. flights' \subseteq Flight
  BY <1>1, <1>b, <1>c DEF CutsTo, cut
<1>4. \A g \in flights' : g.live => g.what = "bars" /\ g.of = <<s, Daily>>
  <2>1. \A g \in Flight : g.what \in {"bars", "marks"}
    BY DEF Flight
  <2>2. \A g \in cut : ~g.live
    BY <1>1, <2>1 DEF CutsTo, cut
  <2> QED BY <1>b, <1>c, <2>2
<1>5. Awaited'
  BY <1>4 DEF Awaited, Fresh, Wanted
<1>6. DataOK'
  BY <1>2, <1>3 DEF DataOK, Fresh, BarSet
<1>7. (marks # None => trades)' /\ MarksFit'
  BY DEF Fresh, MarksFit
<1> QED BY <1>5, <1>6, <1>7 DEF DataInv

LEMMA StepData == DataInv /\ [Next]_vars => DataInv'
<1> SUFFICES ASSUME DataInv, [Next]_vars PROVE DataInv'
  OBVIOUS
<1> USE DEF DataInv
<1>0. DataStep \/ UNCHANGED <<symbol, data>>
  BY DataFrame
<1>1. CASE UNCHANGED <<symbol, data>>
  BY <1>1 DEF data, DataOK, Awaited, MarksFit, Wanted, N
<1>2. ASSUME NEW s \in Symbol, Mount(s) PROVE DataInv'
  BY <1>2, FreshData DEF Mount
<1>3. CASE Unmount
  BY <1>3, FreshData DEF Unmount
<1>4. ASSUME NEW i \in Interval, ChooseInterval(i) PROVE DataInv'
  <2>1. /\ symbol \in Symbol /\ interval' = i
        /\ flights' = Cancelled({"bars"}) \cup {BarsOf(symbol, i)}
        /\ UNCHANGED <<symbol, bars, trades, marks, missed>>
    BY <1>4 DEF ChooseInterval, HandFree, DataOK
  <2>2. CutsTo(flights, Cancelled({"bars"}), {"bars"})
    BY CancelledCuts DEF DataOK
  <2>3. DataOK'
    BY <2>1, <2>2, BarsOfFlight DEF DataOK, CutsTo
  <2>4. Awaited'
    <3> SUFFICES ASSUME NEW g \in flights', g.live
                 PROVE  IF g.what = "bars" THEN g.of = Wanted' ELSE g.of = bars' /\ trades'
      BY DEF Awaited
    <3>1. CASE g = BarsOf(symbol, i)
      BY <2>1, <3>1, BarsOfFlight DEF Wanted
    <3>2. CASE g \in Cancelled({"bars"})
      BY <2>1, <2>2, <3>2 DEF CutsTo, Awaited
    <3> QED BY <2>1, <3>1, <3>2
  <2>5. MarksFit'
    <3>1. MarksOn(bars) \in flights => MarksOn(bars) \in flights'
      BY <2>1, <2>2, MarksOnFlight DEF CutsTo, DataOK
    <3> QED BY <2>1, <3>1 DEF MarksFit, N, MarksOn
  <2> QED BY <2>1, <2>3, <2>4, <2>5
<1>5. ASSUME NEW f \in flights, NEW b \in {f.of, MadeUp}, ReceiveBars(f, b) PROVE DataInv'
  <2>0. f \in Flight /\ f.what = "bars" /\ b \in BarSet
    BY <1>5 DEF ReceiveBars, DataOK, Flight, BarSet
  <2>1. UNCHANGED <<symbol, interval, marks, trades>>
    BY <1>5 DEF ReceiveBars
  <2>2. CASE ~f.live
    <3>1. flights' = flights \ {f} /\ UNCHANGED <<bars, missed>>
      BY <1>5, <2>2 DEF ReceiveBars
    <3>2. DataOK' /\ Awaited'
      BY <2>1, <3>1 DEF DataOK, Awaited, Wanted
    <3>3. MarksFit'
      <4>1. MarksOn(bars) # f
        BY <2>0, MarksOnFlight DEF DataOK
      <4> QED BY <2>1, <3>1, <4>1 DEF MarksFit, N, MarksOn
    <3> QED BY <2>1, <3>2, <3>3
  <2>3. CASE f.live
    <3>1. bars' = b /\ ~missed' /\ missed' \in BOOLEAN /\ Remark(b, flights \ {f})
      BY <1>5, <2>3 DEF ReceiveBars
    <3>2. /\ flights' \subseteq Flight
          /\ \A g \in flights' : g.live => (g \in flights /\ g.what # "marks") \/ (g = MarksOn(b) /\ trades')
          /\ trades' /\ LengthOf(b) > 0 => MarksOn(b) \in flights'
      BY <2>0, <3>1, Remarks DEF DataOK
    <3>3. DataOK'
      BY <2>0, <2>1, <3>1, <3>2 DEF DataOK
    <3>4. Awaited'
      <4>1. ASSUME NEW g \in flights', g.live
            PROVE  IF g.what = "bars" THEN g.of = Wanted' ELSE g.of = bars' /\ trades'
        <5>1. g.what \in {"bars", "marks"}
          BY <3>2 DEF Flight
        <5>2. CASE g = MarksOn(b) /\ trades'
          BY <2>0, <3>1, <5>2, MarksOnFlight
        <5>3. CASE g \in flights /\ g.what # "marks"
          BY <2>1, <4>1, <5>1, <5>3 DEF Awaited, Wanted
        <5> QED BY <3>2, <4>1, <5>2, <5>3
      <4> QED BY <4>1 DEF Awaited
    <3>5. MarksFit'
      BY <2>1, <3>1, <3>2 DEF MarksFit, N
    <3> QED BY <2>1, <3>3, <3>4, <3>5
  <2> QED BY <2>2, <2>3
<1>6. ASSUME NEW f \in flights, NEW found \in BOOLEAN, ReceiveMarks(f, found) PROVE DataInv'
  <2>1. /\ f \in Flight /\ f.what = "marks" /\ flights' = flights \ {f}
        /\ UNCHANGED <<symbol, interval, bars, trades>>
        /\ marks' = IF f.live /\ found THEN f.of ELSE marks
        /\ missed' = IF f.live THEN ~found ELSE missed
    BY <1>6 DEF ReceiveMarks, DataOK
  <2>2. f.live => f.of = bars /\ trades
    BY <2>1 DEF Awaited
  <2>3. DataOK' /\ Awaited'
    BY <2>1, <2>2 DEF DataOK, Awaited, Wanted
  <2>4. CASE f.live
    BY <2>1, <2>2, <2>3, <2>4 DEF MarksFit
  <2>5. CASE ~f.live
    <3>1. MarksOn(bars) # f
      BY <2>5, MarksOnFlight DEF DataOK
    <3>2. MarksFit'
      BY <2>1, <2>5, <3>1 DEF MarksFit, N, MarksOn
    <3> QED BY <2>1, <2>3, <2>5, <3>2
  <2> QED BY <2>4, <2>5
<1>7. CASE ToggleTrades
  <2>1. /\ trades' = ~trades /\ missed' = FALSE /\ Remark(bars, flights)
        /\ marks' = IF trades THEN None ELSE marks
        /\ UNCHANGED <<symbol, interval, bars>>
    BY <1>7 DEF ToggleTrades
  <2>2. marks' = None
    BY <2>1
  <2>3. /\ flights' \subseteq Flight
        /\ \A g \in flights' : g.live => (g \in flights /\ g.what # "marks") \/ (g = MarksOn(bars) /\ trades')
    BY <2>1, Remarks DEF DataOK
  <2>4. DataOK' /\ MarksFit'
    BY <2>1, <2>2, <2>3 DEF DataOK, MarksFit
  <2>5. Awaited'
    <3>1. ASSUME NEW g \in flights', g.live
          PROVE  IF g.what = "bars" THEN g.of = Wanted' ELSE g.of = bars' /\ trades'
      <4>1. g.what \in {"bars", "marks"}
        BY <2>3 DEF Flight
      <4>2. CASE g = MarksOn(bars) /\ trades'
        BY <2>1, <4>2, MarksOnFlight DEF DataOK
      <4>3. CASE g \in flights /\ g.what # "marks"
        BY <2>1, <3>1, <4>1, <4>3 DEF Awaited, Wanted
      <4> QED BY <2>3, <3>1, <4>2, <4>3
    <3> QED BY <3>1 DEF Awaited
  <2> QED BY <2>2, <2>4, <2>5
<1> QED BY <1>0, <1>1, <1>2, <1>3, <1>4, <1>5, <1>6, <1>7 DEF DataStep

LEMMA DataInvariance == Spec => []DataInv
  BY InitData, StepData, PTL DEF Spec

-----------------------------------------------------------------------------
(* The refinement.                                                         *)

LEMMA InitView == Init => View!Init
  BY ChartAssumption DEF Init, View!Init, Key, Wanted

LEMMA StepView == DataInv /\ [Next]_vars => [View!Next]_(View!vars)
<1> SUFFICES ASSUME DataInv, [Next]_vars PROVE View!Next \/ UNCHANGED <<Wanted, bars>>
  BY DEF View!vars
<1>0. DataStep \/ UNCHANGED <<symbol, data>>
  BY DataFrame
<1>1. CASE UNCHANGED <<symbol, data>>
  BY <1>1 DEF data, Wanted
<1>2. ASSUME NEW s \in Symbol \cup {None}, Fresh(s) PROVE View!Next
  <2>1. Wanted' = <<s, Daily>> /\ bars' = MadeUp
    BY <1>2 DEF Fresh, Wanted
  <2>2. <<s, Daily>> \in Key
    BY ChartAssumption DEF Key
  <2> QED BY <2>1, <2>2 DEF View!Next, View!Choose
<1>3. ASSUME NEW s \in Symbol, Mount(s) PROVE View!Next
  BY <1>2, <1>3 DEF Mount
<1>4. CASE Unmount
  BY <1>2, <1>4 DEF Unmount
<1>5. ASSUME NEW i \in Interval, ChooseInterval(i) PROVE View!Next
  <2>1. Wanted' = <<symbol, i>> /\ bars' = bars
    BY <1>5 DEF ChooseInterval, Wanted
  <2>2. <<symbol, i>> \in Key
    BY DEF DataInv, DataOK, Key
  <2> QED BY <2>1, <2>2 DEF View!Next, View!Choose
<1>6. ASSUME NEW f \in flights, NEW b \in {f.of, MadeUp}, ReceiveBars(f, b)
      PROVE  View!Next \/ UNCHANGED <<Wanted, bars>>
  <2>1. Wanted' = Wanted /\ f.what = "bars"
    BY <1>6 DEF ReceiveBars, Wanted
  <2>2. CASE f.live
    <3>1. f.of = Wanted /\ bars' = b
      BY <1>6, <2>1, <2>2 DEF ReceiveBars, DataInv, Awaited
    <3> QED BY <2>1, <3>1 DEF View!Next, View!Show
  <2>3. CASE ~f.live
    BY <1>6, <2>1, <2>3 DEF ReceiveBars
  <2> QED BY <2>2, <2>3
<1>7. ASSUME NEW f \in flights, NEW found \in BOOLEAN, ReceiveMarks(f, found)
      PROVE  UNCHANGED <<Wanted, bars>>
  BY <1>7 DEF ReceiveMarks, Wanted
<1>8. CASE ToggleTrades
  BY <1>8 DEF ToggleTrades, Wanted
<1> QED BY <1>0, <1>1, <1>3, <1>4, <1>5, <1>6, <1>7, <1>8 DEF DataStep

\* The chart implements Viewer: what comes onto the screen is what is chosen
\* at that moment, or made up (the effect of the bars and its cancelled flag).
THEOREM Refinement == Spec => ShowsChosen
<1> QED BY InitView, StepView, DataInvariance, PTL DEF Spec, ShowsChosen, View!Spec

\* The markers on the screen are those of the bars on the screen, or are being
\* replaced, or their request brought none (the effect of the trade markers).
THEOREM MarksOnBars == Spec => []MarksFit
<1>1. DataInv => MarksFit
  BY DEF DataInv
<1> QED BY <1>1, DataInvariance, PTL

-----------------------------------------------------------------------------
(* The drawings.                                                           *)

SketchOK ==
    /\ symbol \in Symbol \cup {None}
    /\ drawings \in [Drawing -> Nat] /\ stored \in [Symbol -> [Drawing -> Nat]]
    /\ timer \in BOOLEAN
    /\ selected \in Drawing \cup {None} /\ grabbed \in BOOLEAN
    /\ made \subseteq Drawing /\ erased \subseteq Drawing
    /\ foreign \in BOOLEAN /\ refused \in BOOLEAN
    /\ template \in [Drawing -> Nat] \cup {None}

\* What storage has and the screen has not was taken off here, could not be read
\* or was put there by another tab.
Accounted ==
    symbol # None =>
        \A d \in Drawing : stored[symbol][d] > 0 /\ drawings[d] = 0 => d \in erased \/ foreign

\* What is selected is on the chart, and there is a chart.
Selectable == SelectedExists /\ (selected # None => symbol # None)

SketchInv == SketchOK /\ (timer => symbol # None) /\ Accounted /\ SavedWhenQuiet /\ Selectable

LEMMA BlankType == Blank \in [Drawing -> Nat] /\ \A d \in Drawing : Blank[d] = 0
  BY DEF Blank

LEMMA InitSketch == Init => SketchInv
<1> SUFFICES ASSUME Init PROVE SketchInv
  OBVIOUS
<1>1. SketchOK
  BY BlankType DEF Init, SketchOK
<1> QED BY <1>1 DEF Init, SketchInv, Accounted, SavedWhenQuiet, Selectable, SelectedExists

\* The user changes the drawings of the chart: what goes is erased, and the
\* timer is armed.
Changes ==
    /\ timer' = TRUE
    /\ UNCHANGED <<symbol, stored, foreign, refused>>
    /\ drawings' \in [Drawing -> Nat]
    /\ erased \subseteq erased'
    /\ \A d \in Drawing : drawings[d] > 0 /\ drawings'[d] = 0 => d \in erased'

LEMMA ChangesKeep ==
  ASSUME SketchInv, Changes, SketchOK', symbol # None, Selectable'
  PROVE  SketchInv'
<1>1. Accounted'
  <2> SUFFICES ASSUME NEW d \in Drawing, stored[symbol][d] > 0, drawings'[d] = 0
               PROVE  d \in erased' \/ foreign
    BY DEF Accounted, Changes
  <2>1. drawings[d] \in Nat
    BY DEF SketchInv, SketchOK
  <2>2. CASE drawings[d] = 0
    BY <2>2 DEF SketchInv, Accounted, Changes
  <2>3. CASE drawings[d] > 0
    BY <2>3 DEF Changes
  <2> QED BY <2>1, <2>2, <2>3
<1> QED BY <1>1 DEF SketchInv, SavedWhenQuiet, Changes

\* Steps that leave the drawings and their places alone.
Leaves == UNCHANGED <<symbol, drawings, timer, erased, stored, foreign, refused>>

LEMMA LeavesKeep ==
  ASSUME SketchInv, Leaves, SketchOK', Selectable'
  PROVE  SketchInv'
  BY DEF SketchInv, Leaves, Accounted, SavedWhenQuiet

LEMMA StepSketch == SketchInv /\ [Next]_vars => SketchInv'
<1> SUFFICES ASSUME SketchInv, [Next]_vars PROVE SketchInv'
  OBVIOUS
<1>0. SketchStep \/ UNCHANGED Drawings
  BY SketchFrame
<1>t. SketchOK /\ Selectable /\ (timer => symbol # None)
  BY DEF SketchInv
<1>1. CASE UNCHANGED Drawings
  <2>1. Leaves /\ SketchOK' /\ Selectable'
    BY <1>1, <1>t DEF Drawings, sketch, storage, hand, Leaves, SketchOK, Selectable, SelectedExists
  <2> QED BY <2>1, LeavesKeep
<1>2. ASSUME NEW s \in Symbol, Mount(s) PROVE SketchInv'
  <2>1. /\ symbol' = s /\ Read(s) /\ timer' = TRUE /\ selected' = None
        /\ grabbed' = FALSE /\ erased' = {} /\ refused' = FALSE
        /\ UNCHANGED <<stored, made, template>>
    BY <1>2 DEF Mount, Fresh
  <2>2. SketchOK'
    BY <1>t, <2>1, BlankType DEF SketchOK, Read
  <2>3. Accounted'
    <3>1. CASE drawings' = stored[s]
      <4>1. \A d \in Drawing : stored'[s][d] \in Nat /\ drawings'[d] = stored'[s][d]
        BY <1>t, <2>1, <3>1 DEF SketchOK
      <4> QED BY <2>1, <4>1 DEF Accounted
    <3>2. CASE foreign' = TRUE
      BY <3>2 DEF Accounted
    <3> QED BY <2>1, <3>1, <3>2 DEF Read
  <2>4. s # None
    BY ChartAssumption
  <2> QED BY <2>1, <2>2, <2>3, <2>4 DEF SketchInv, SavedWhenQuiet, Selectable, SelectedExists
<1>3. CASE Unmount
  <2>1. /\ symbol' = None /\ drawings' = Blank /\ timer' = FALSE /\ selected' = None
        /\ grabbed' = FALSE /\ erased' = {} /\ foreign' = FALSE /\ refused' = FALSE
        /\ UNCHANGED <<stored, made, template>>
    BY <1>3 DEF Unmount, Fresh
  <2>2. SketchOK'
    BY <1>t, <2>1, BlankType DEF SketchOK
  <2> QED BY <2>1, <2>2 DEF SketchInv, Accounted, SavedWhenQuiet, Selectable, SelectedExists
<1>4. CASE StartPan
  <2>1. Leaves /\ selected' = None /\ UNCHANGED <<grabbed, made, template>>
    BY <1>4 DEF StartPan, Leaves, sketch, storage
  <2> QED BY <1>t, <2>1, LeavesKeep DEF SketchOK, Selectable, SelectedExists, Leaves
<1>5. CASE Release
  <2>1. Leaves /\ grabbed' = FALSE /\ UNCHANGED <<selected, made, template>>
    BY <1>5 DEF Release, Leaves, sketch, storage
  <2> QED BY <1>t, <2>1, LeavesKeep DEF SketchOK, Selectable, SelectedExists, Leaves
<1>6. CASE Save
  <2>1. /\ symbol \in Symbol /\ stored' = [stored EXCEPT ![symbol] = drawings]
        /\ timer' = FALSE /\ foreign' = FALSE /\ refused' = FALSE
        /\ UNCHANGED <<symbol, drawings, erased, selected, grabbed, made, template>>
    BY <1>t, <1>6 DEF Save, hand, SketchOK
  <2>2. SketchOK' /\ stored'[symbol] = drawings
    BY <1>t, <2>1 DEF SketchOK
  <2>3. Accounted'
    <3>1. \A d \in Drawing : drawings[d] \in Nat
      BY <1>t DEF SketchOK
    <3> QED BY <2>1, <2>2, <3>1 DEF Accounted
  <2> QED BY <1>t, <2>1, <2>2, <2>3 DEF SketchInv, SavedWhenQuiet, Selectable, SelectedExists
<1>7. ASSUME NEW s \in Symbol, NEW read \in SUBSET Drawing, NEW d \in Drawing, OtherTab(s, read, d)
      PROVE  SketchInv'
  <2> DEFINE l == [x \in Drawing |-> IF x = d THEN 1 ELSE IF x \in read THEN stored[s][x] ELSE 0]
  <2>1. /\ stored' = [stored EXCEPT ![s] = l] /\ made' = made \cup {d}
        /\ foreign' = (foreign \/ s = symbol)
        /\ UNCHANGED <<symbol, drawings, timer, erased, selected, grabbed, refused, template>>
    BY <1>7 DEF OtherTab, sketch, hand
  <2>2. l \in [Drawing -> Nat]
    BY <1>t DEF SketchOK
  <2> HIDE DEF l
  <2>3. SketchOK'
    BY <1>t, <2>1, <2>2 DEF SketchOK
  <2>4. CASE s = symbol
    BY <1>t, <2>1, <2>3, <2>4 DEF SketchInv, Accounted, SavedWhenQuiet, Selectable, SelectedExists
  <2>5. CASE s # symbol
    <3>1. symbol # None => stored'[symbol] = stored[symbol]
      BY <1>t, <2>1, <2>5 DEF SketchOK
    <3>2. foreign' <=> foreign
      BY <2>1, <2>5
    <3>3. Accounted' /\ SavedWhenQuiet'
      BY <2>1, <3>1, <3>2 DEF SketchInv, Accounted, SavedWhenQuiet
    <3> QED BY <1>t, <2>1, <2>3, <3>3 DEF SketchInv, Selectable, SelectedExists
  <2> QED BY <2>4, <2>5
<1>8. ASSUME NEW k \in Anchors, ChooseTool(k) PROVE SketchInv'
  <2>1. Leaves /\ selected' = None /\ UNCHANGED <<grabbed, made, template>>
    BY <1>8 DEF ChooseTool, Leaves, sketch, storage
  <2> QED BY <1>t, <2>1, LeavesKeep DEF SketchOK, Selectable, SelectedExists, Leaves
<1>9. ASSUME NEW d \in Drawing, PlaceAnchor(d) PROVE SketchInv'
  <2>1. CASE pending + 1 >= tool
    <3>1. /\ drawings' = [drawings EXCEPT ![d] = 1] /\ timer' = TRUE /\ made' = made \cup {d}
          /\ symbol # None
          /\ UNCHANGED <<symbol, erased, selected, grabbed, stored, foreign, refused, template>>
      BY <1>9, <2>1 DEF PlaceAnchor, Draw
    <3>2. SketchOK' /\ Changes /\ Selectable'
      BY <1>t, <3>1 DEF SketchOK, Changes, Selectable, SelectedExists
    <3> QED BY <3>1, <3>2, ChangesKeep
  <2>2. CASE ~(pending + 1 >= tool)
    <3>1. Leaves /\ UNCHANGED <<selected, grabbed, made, template>>
      BY <1>9, <2>2 DEF PlaceAnchor, Leaves
    <3> QED BY <1>t, <3>1, LeavesKeep DEF SketchOK, Selectable, SelectedExists, Leaves
  <2> QED BY <2>1, <2>2
<1>10. ASSUME NEW d \in Drawing, Click(d) PROVE SketchInv'
  <2>1. Leaves /\ selected' = d /\ drawings[d] > 0 /\ grabbed' \in BOOLEAN /\ symbol # None
        /\ UNCHANGED <<made, template>>
    BY <1>10 DEF Click, HandFree, Leaves, sketch, storage
  <2> QED BY <1>t, <2>1, LeavesKeep DEF SketchOK, Selectable, SelectedExists, Leaves
<1>11. CASE Drag
  <2>1. /\ selected \in Drawing /\ drawings' = [drawings EXCEPT ![selected] = drawings[selected] + 1]
        /\ timer' = TRUE
        /\ UNCHANGED <<symbol, erased, selected, grabbed, stored, foreign, refused, made, template>>
    BY <1>11, <1>t DEF Drag, Draw, hand, storage, SketchOK
  <2>2. symbol # None
    BY <1>t, <2>1, ChartAssumption DEF Selectable
  <2>3. SketchOK' /\ Changes /\ Selectable'
    BY <1>t, <2>1 DEF SketchOK, Changes, Selectable, SelectedExists
  <2> QED BY <2>2, <2>3, ChangesKeep
<1>12. CASE Erase
  <2>1. /\ selected \in Drawing /\ drawings' = [drawings EXCEPT ![selected] = 0]
        /\ timer' = TRUE /\ erased' = erased \cup {selected} /\ selected' = None
        /\ symbol # None
        /\ UNCHANGED <<symbol, grabbed, stored, foreign, refused, made, template>>
    BY <1>12, <1>t DEF Erase, Draw, storage, SketchOK, Selectable
  <2>2. SketchOK' /\ Changes /\ Selectable'
    BY <1>t, <2>1 DEF SketchOK, Changes, Selectable, SelectedExists
  <2> QED BY <2>1, <2>2, ChangesKeep
<1>13. CASE Escape
  <2>1. Leaves /\ selected' \in {selected, None} /\ UNCHANGED <<grabbed, made, template>>
    BY <1>13 DEF Escape, Leaves, sketch, storage
  <2> QED BY <1>t, <2>1, LeavesKeep DEF SketchOK, Selectable, SelectedExists, Leaves
<1>14. CASE SaveTemplate
  <2>1. Leaves /\ template' = drawings /\ UNCHANGED <<selected, grabbed, made>>
    BY <1>14 DEF SaveTemplate, Leaves, sketch, hand
  <2> QED BY <1>t, <2>1, LeavesKeep DEF SketchOK, Selectable, SelectedExists, Leaves
<1>15. CASE LoadTemplate
  <2>1. /\ symbol # None /\ template # None /\ drawings' = template /\ timer' = TRUE
        /\ erased' = erased \cup {d \in Drawing : drawings[d] > 0 /\ template[d] = 0}
        /\ selected' = None
        /\ UNCHANGED <<symbol, grabbed, stored, foreign, refused, made, template>>
    BY <1>15 DEF LoadTemplate, Draw, HandFree, storage
  <2>2. SketchOK' /\ Changes /\ Selectable'
    BY <1>t, <2>1 DEF SketchOK, Changes, Selectable, SelectedExists
  <2> QED BY <2>1, <2>2, ChangesKeep
<1>16. CASE Clear
  <2>1. /\ symbol # None /\ drawings' = Blank /\ timer' = TRUE
        /\ erased' = erased \cup {d \in Drawing : drawings[d] > 0}
        /\ selected' = None
        /\ UNCHANGED <<symbol, grabbed, stored, foreign, refused, made, template>>
    BY <1>16 DEF Clear, Draw, HandFree, storage
  <2>2. SketchOK' /\ Changes /\ Selectable'
    BY <1>t, <2>1, BlankType DEF SketchOK, Changes, Selectable, SelectedExists
  <2> QED BY <2>1, <2>2, ChangesKeep
<1>17. CASE SaveFails
  <2>1. /\ timer' = FALSE /\ refused' = TRUE
        /\ UNCHANGED <<symbol, drawings, erased, stored, foreign, selected, grabbed, made, template>>
    BY <1>17 DEF SaveFails, hand
  <2>2. SketchOK' /\ Accounted' /\ Selectable'
    BY <1>t, <2>1 DEF SketchInv, SketchOK, Accounted, Selectable, SelectedExists
  <2> QED BY <2>1, <2>2 DEF SketchInv, SavedWhenQuiet
<1> QED
  BY <1>0, <1>1, <1>2, <1>3, <1>4, <1>5, <1>6, <1>7, <1>8, <1>9, <1>10, <1>11, <1>12, <1>13,
     <1>14, <1>15, <1>16, <1>17 DEF SketchStep, Sketch

LEMMA SketchInvariance == Spec => []SketchInv
  BY InitSketch, StepSketch, PTL DEF Spec

\* When no save is pending, storage has what the screen has, unless the last save
\* failed, or storage could not be read or another tab has written since (the
\* save effect of the drawings).
THEOREM QuietIsSaved == Spec => []SavedWhenQuiet
<1>1. SketchInv => SavedWhenQuiet
  BY DEF SketchInv
<1> QED BY <1>1, SketchInvariance, PTL

\* Delete and dragging always have a drawing to act on (selectedDrawingId).
THEOREM SelectionExists == Spec => []SelectedExists
<1>1. SketchInv => SelectedExists
  BY DEF SketchInv, Selectable
<1> QED BY <1>1, SketchInvariance, PTL

\* No save takes away a drawing that the user has not taken off this chart, but
\* one that this instance could not read or another tab has put there (the save
\* effect of the drawings).
THEOREM SavesTakeNothing == Spec => NothingVanishes
<1>1. SketchInv /\ [Next]_vars =>
        [Save => \A d \in Drawing : stored[symbol][d] > 0 /\ drawings[d] = 0
                                       => d \in erased \/ foreign]_vars
  <2> SUFFICES ASSUME SketchInv, Save, NEW d \in Drawing, stored[symbol][d] > 0, drawings[d] = 0
               PROVE  d \in erased \/ foreign
    OBVIOUS
  <2> QED BY DEF SketchInv, Accounted, Save
<1> QED BY <1>1, SketchInvariance, PTL DEF Spec, NothingVanishes

-----------------------------------------------------------------------------
(* The window.                                                             *)

WindowOK ==
    /\ interval \in Interval
    /\ period \in IF interval \in Intraday THEN IntradayPeriods ELSE DailyPeriods
    /\ zoom \in Window /\ zoomedOn \in BarSet \cup {None} /\ drag \in Window

\* The window of the user starts on one of the bars it was set on.
OnBars ==
    zoom # NoZoom =>
        /\ zoomedOn \in BarSet
        /\ zoom.count > 10 /\ LengthOf(zoomedOn) > 0 => zoom.start < LengthOf(zoomedOn)

WindowInv == WindowOK /\ OnBars

LEMMA Lengths == \A b \in BarSet : LengthOf(b) \in Nat
<1> TAKE b \in BarSet
<1>1. CASE b = MadeUp
  BY <1>1, ChartAssumption DEF LengthOf
<1>2. CASE b # MadeUp
  <2>1. b[2] \in Interval
    BY <1>2 DEF BarSet
  <2> QED BY <1>2, <2>1, ChartAssumption DEF LengthOf
<1> QED BY <1>1, <1>2

LEMMA Future10 ==
  ASSUME NEW count \in Nat
  PROVE  Future(count) \in Nat /\ (count > 10 => Future(count) < count)
  BY DEF Future, Most

LEMMA ClampStarts ==
  ASSUME N \in Nat, NEW count \in Nat, NEW x \in Int
  PROVE  /\ Clamp(count, x) \in Nat
         /\ count > 10 /\ N > 0 => Clamp(count, x) < N
  BY Future10 DEF Clamp, Most, Least

LEMMA ZoomType ==
  ASSUME NEW z \in Window, z # NoZoom
  PROVE  z.start \in Nat /\ z.count \in Nat
  BY DEF Window

LEMMA SetZoom ==
  ASSUME NEW a \in Nat, NEW c \in Nat
  PROVE  LET z == [start |-> a, count |-> c] IN
         z \in Window /\ z # NoZoom /\ z.start = a /\ z.count = c
  BY DEF Window, NoZoom

LEMMA Periods ==
  ASSUME WindowOK
  PROVE  period \in Nat
  BY ChartAssumption DEF WindowOK

LEMMA NoWindow == NoZoom \in Window
  BY DEF Window

LEMMA InitWindow == Init => WindowInv
  BY ChartAssumption, NoWindow DEF Init, WindowInv, WindowOK, OnBars

\* The new window lies on the bars on the screen.
LEMMA ZoomKeeps ==
  ASSUME WindowInv, bars \in BarSet, NEW count \in Nat, NEW x \in Int,
         zoom' = [start |-> Clamp(count, x), count |-> count],
         zoomedOn' = bars, UNCHANGED <<interval, period, drag>>
  PROVE  WindowInv'
<1>1. N \in Nat /\ N = LengthOf(bars)
  BY Lengths DEF N
<1>2. Clamp(count, x) \in Nat /\ (count > 10 /\ N > 0 => Clamp(count, x) < N)
  BY <1>1, ClampStarts
<1> DEFINE a == Clamp(count, x)
<1> HIDE DEF a
<1>3. zoom' = [start |-> a, count |-> count] /\ a \in Nat /\ (count > 10 /\ N > 0 => a < N)
  BY <1>2 DEF a
<1>4. zoom' \in Window /\ zoom'.start = a /\ zoom'.count = count
  BY <1>3, SetZoom
<1>5. OnBars'
  BY <1>1, <1>3, <1>4 DEF OnBars
<1> QED BY <1>4, <1>5 DEF WindowInv, WindowOK

LEMMA StepWindow == WindowInv /\ bars \in BarSet /\ [Next]_vars => WindowInv'
<1> SUFFICES ASSUME WindowInv, bars \in BarSet, [Next]_vars PROVE WindowInv'
  OBVIOUS
<1>0. WindowStep \/ UNCHANGED <<interval, window>>
  BY WindowFrame
<1>n. N \in Nat
  BY Lengths DEF N
<1>p. period \in Nat
  BY Periods DEF WindowInv
<1>1. CASE UNCHANGED <<interval, window>>
  BY <1>1 DEF window, WindowInv, WindowOK, OnBars
<1>2. ASSUME NEW s \in Symbol \cup {None}, Fresh(s) PROVE WindowInv'
  BY <1>2, ChartAssumption, NoWindow DEF Fresh, WindowInv, WindowOK, OnBars
<1>3. CASE Unmount \/ \E s \in Symbol : Mount(s)
  BY <1>2, <1>3 DEF Mount, Unmount
<1>4. ASSUME NEW i \in Interval, ChooseInterval(i) PROVE WindowInv'
  <2>1. /\ interval' = i /\ zoom' = NoZoom /\ zoomedOn' = None /\ drag' = drag
        /\ period' \in IF i \in Intraday THEN IntradayPeriods ELSE DailyPeriods
    BY <1>4, ChartAssumption DEF ChooseInterval
  <2> QED BY <2>1, NoWindow DEF WindowInv, WindowOK, OnBars
<1>5. ASSUME NEW p \in DailyPeriods \cup IntradayPeriods, ChoosePeriod(p) PROVE WindowInv'
  BY <1>5, NoWindow DEF ChoosePeriod, data, WindowInv, WindowOK, OnBars
<1>6. ASSUME NEW out \in BOOLEAN, NEW h \in 0 .. 2, Wheel(out, h) PROVE WindowInv'
  <2> DEFINE count == IF zoom = NoZoom THEN period ELSE zoom.count
             start == IF zoom = NoZoom THEN N - Least(count, N) ELSE zoom.start
             now   == Most(10, Least(N, IF out THEN Wider(count) ELSE Narrower(count)))
             pivot == start + (count * h + 1) \div 2
             x     == (2 * pivot - now * h + 1) \div 2
  <2>1. count \in Nat
    BY <1>p, ZoomType DEF WindowInv, WindowOK
  <2>2. zoom' = [start |-> Clamp(now, x), count |-> now] /\ zoomedOn' = bars
        /\ UNCHANGED <<interval, period, drag>>
    BY <1>6 DEF Wheel, data
  <2> HIDE DEF count
  <2>3. start \in Int
    BY <1>n, <2>1, ZoomType DEF WindowInv, WindowOK, Least
  <2>4. now \in Nat
    <3>1. Wider(count) \in Int /\ Narrower(count) \in Int
      BY <2>1 DEF Wider, Narrower
    <3> QED BY <1>n, <3>1 DEF Most, Least
  <2> HIDE DEF start, now
  <2>5. x \in Int
    <3>1. h \in Int /\ count * h \in Int /\ now * h \in Int
      BY <2>1, <2>4
    <3>2. pivot \in Int
      BY <2>3, <3>1
    <3> HIDE DEF pivot
    <3> QED BY <3>1, <3>2
  <2> HIDE DEF x
  <2> QED BY <2>2, <2>4, <2>5, ZoomKeeps
<1>7. CASE StartPan
  <2>1. UNCHANGED <<interval, period, zoom, zoomedOn>>
        /\ drag' = IF zoom # NoZoom THEN zoom ELSE [start |-> Start, count |-> Visible]
    BY <1>7 DEF StartPan, data
  <2>2. CASE zoom # NoZoom
    BY <2>1, <2>2 DEF WindowInv, WindowOK, OnBars
  <2>3. CASE zoom = NoZoom
    <3>1. Start \in Nat /\ Visible \in Nat
      BY <1>n, <1>p, <2>3 DEF Start, Visible, Slots, Least, Most
    <3>2. drag' \in Window
      BY <2>1, <2>3, <3>1, SetZoom
    <3> QED BY <2>1, <3>2 DEF WindowInv, WindowOK, OnBars
  <2> QED BY <2>2, <2>3
<1>8. CASE Release
  BY <1>8, NoWindow DEF Release, data, WindowInv, WindowOK, OnBars
<1>9. ASSUME NEW to \in 0 .. N + 10, Pan(to) PROVE WindowInv'
  <2>1. /\ drag # NoZoom /\ zoom' = [start |-> Clamp(drag.count, to), count |-> drag.count]
        /\ zoomedOn' = bars /\ UNCHANGED <<interval, period, drag>>
    BY <1>9 DEF Pan, data
  <2>2. drag.count \in Nat /\ to \in Int
    BY <1>n, <2>1, ZoomType DEF WindowInv, WindowOK
  <2> QED BY <2>1, <2>2, ZoomKeeps
<1> QED BY <1>0, <1>1, <1>3, <1>4, <1>5, <1>6, <1>7, <1>8, <1>9 DEF WindowStep

LEMMA WindowInvariance == Spec => []WindowInv
<1>1. DataInv => bars \in BarSet
  BY DEF DataInv, DataOK
<1> QED BY <1>1, InitWindow, StepWindow, DataInvariance, PTL DEF Spec

\* Zooming and panning leave a bar in sight (handleWheel and the clamps of
\* handleMouseMove), but in a window of ten slots.
THEOREM SomeBarInSight == Spec => []BarsInSight
<1>1. WindowInv /\ DataInv => BarsInSight
  <2> SUFFICES ASSUME WindowInv, bars \in BarSet, zoom # NoZoom, zoomedOn = bars, zoom.count > 10, N > 0
               PROVE  Visible > 0
    BY DEF BarsInSight, DataInv, DataOK
  <2>1. N \in Nat /\ N = LengthOf(bars)
    BY Lengths DEF N
  <2>2. zoom.start \in Nat /\ zoom.count \in Nat
    BY ZoomType DEF WindowInv, WindowOK
  <2>3. zoom.start < N
    BY <2>1 DEF WindowInv, OnBars
  <2>4. Slots = zoom.count /\ Start = zoom.start
    BY <2>2 DEF Slots, Start, Most
  <2> QED BY <2>1, <2>2, <2>3, <2>4 DEF Visible, Most, Least
<1> QED BY <1>1, WindowInvariance, DataInvariance, PTL

-----------------------------------------------------------------------------
(* The types.                                                              *)

HandOK ==
    /\ tool \in Anchors \cup {0} /\ pending \in 0 .. Most(0, tool - 1)
    /\ events \in Nat

LEMMA InitHand == Init => HandOK
  BY ChartAssumption DEF Init, HandOK, Most

LEMMA Tools == \A k \in Anchors \cup {0} : k \in Nat
  BY ChartAssumption

LEMMA StepHand == HandOK /\ [Next]_vars => HandOK'
<1> SUFFICES ASSUME HandOK, [Next]_vars PROVE HandOK'
  OBVIOUS
<1>0. 0 \in Nat /\ 0 \in 0 .. Most(0, tool - 1) /\ \A k \in Anchors \cup {0} : 0 \in 0 .. Most(0, k - 1)
  BY Tools DEF HandOK, Most
<1>e. Event \/ UNCHANGED events => events' \in Nat
  BY DEF HandOK, Event
<1>1. ASSUME tool' \in Anchors \cup {0}, pending' = 0, Event \/ UNCHANGED events PROVE HandOK'
  BY <1>1, <1>e, Tools DEF HandOK, Most
<1>2. ASSUME UNCHANGED <<tool, pending>>, Event \/ UNCHANGED events PROVE HandOK'
  BY <1>2, <1>e DEF HandOK
<1>3. CASE UNCHANGED vars
  BY <1>2, <1>3 DEF vars, hand
<1>4. ASSUME NEW s \in Symbol \cup {None}, Fresh(s), Event PROVE HandOK'
  BY <1>1, <1>4 DEF Fresh
<1>5. CASE Page
  BY <1>4, <1>5 DEF Page, Mount, Unmount
<1>6. CASE Answers \/ Look \/ Release \/ Save \/ SaveFails
  BY <1>2, <1>6 DEF Answers, ReceiveBars, ReceiveMarks, Look, ChooseInterval, ToggleTrades,
                    ChoosePeriod, Wheel, StartPan, Pan, Release, Save, SaveFails,
                    hand
<1>7. ASSUME NEW k \in Anchors, ChooseTool(k) PROVE HandOK'
  <2>1. tool' \in Anchors \cup {0} /\ pending' = 0 /\ Event
    BY <1>7 DEF ChooseTool
  <2> QED BY <1>1, <2>1
<1>8. ASSUME NEW d \in Drawing, PlaceAnchor(d) PROVE HandOK'
  <2>1. tool' = tool /\ Event /\ tool > 0
    BY <1>8 DEF PlaceAnchor
  <2>2. CASE pending + 1 >= tool
    <3>1. pending' = 0
      BY <1>8, <2>2 DEF PlaceAnchor
    <3> QED BY <1>1, <2>1, <3>1 DEF HandOK
  <2>3. CASE ~(pending + 1 >= tool)
    <3>1. pending' = pending + 1
      BY <1>8, <2>3 DEF PlaceAnchor
    <3>2. pending' \in 0 .. Most(0, tool' - 1)
      BY <2>1, <2>3, <3>1, Tools DEF HandOK, Most
    <3> QED BY <1>e, <2>1, <3>2 DEF HandOK
  <2> QED BY <2>2, <2>3
<1>9. CASE Escape
  <2>1. CASE tool > 0
    BY <1>1, <1>9, <2>1 DEF Escape
  <2>2. CASE ~(tool > 0)
    <3>1. tool = 0
      BY <2>2, ChartAssumption DEF HandOK
    <3>2. UNCHANGED <<tool, pending, events>>
      BY <1>9, <2>2, <3>1 DEF Escape
    <3> QED BY <1>2, <3>2
  <2> QED BY <2>1, <2>2
<1>10. CASE Drag \/ Erase \/ Clear \/ SaveTemplate \/ LoadTemplate \/ \E d \in Drawing : Click(d)
  BY <1>2, <1>10 DEF Drag, Erase, Clear, SaveTemplate, LoadTemplate, Click, hand
<1>11. CASE \E s \in Symbol, read \in SUBSET Drawing, d \in Drawing : OtherTab(s, read, d)
  BY <1>2, <1>11 DEF OtherTab, hand
<1> QED
  BY <1>3, <1>5, <1>6, <1>7, <1>8, <1>9, <1>10, <1>11 DEF Next, Sketch

LEMMA HandInvariance == Spec => []HandOK
  BY InitHand, StepHand, PTL DEF Spec

\* Every variable has its type; no tool waits for an anchor too many and no
\* window starts before the first bar.
THEOREM TypeCorrect == Spec => []TypeOK
<1>1. DataInv /\ WindowInv /\ SketchInv /\ HandOK => TypeOK
  BY DEF DataInv, DataOK, WindowInv, WindowOK, SketchInv, SketchOK, HandOK, TypeOK
<1> QED BY <1>1, DataInvariance, WindowInvariance, SketchInvariance, HandInvariance, PTL
=============================================================================
