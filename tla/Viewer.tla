------------------------------- MODULE Viewer -------------------------------
(***************************************************************************)
(* What a view of remote data promises: it shows the data of what is       *)
(* chosen now, or the placeholder, or it still shows what it showed        *)
(* before; an answer to an earlier choice never replaces it.  StockChart   *)
(* is shown to implement this specification.                               *)
(***************************************************************************)
CONSTANTS
    Key,         \* what can be chosen
    Placeholder  \* what is shown for want of data

VARIABLES
    chosen,
    shown

vars == <<chosen, shown>>

Init ==
    /\ chosen \in Key
    /\ shown = Placeholder

\* The data of the last choice stays on the screen until the new data comes.
Choose ==
    /\ chosen' \in Key
    /\ shown' \in {shown, Placeholder}

Show ==
    /\ shown' \in {chosen, Placeholder}
    /\ UNCHANGED chosen

Next == Choose \/ Show

Spec == Init /\ [][Next]_vars
=============================================================================
