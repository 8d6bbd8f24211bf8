------------------------------ MODULE MCBrowser ------------------------------
(***************************************************************************)
(* Values of the constants of Browser for TLC.                             *)
(***************************************************************************)
EXTENDS Browser

\* What a user does on each screen.
MCBudget == [view |-> 4, grid |-> 3, selection |-> 3, undo |-> 4, entry |-> 1,
             form |-> 4, kanban |-> 2, gantt |-> 3, calendar |-> 1, sheet |-> 2,
             csv |-> 5, queries |-> 2, builder |-> 4, layout |-> 3, options |-> 3,
             automation |-> 6, process |-> 4, designer |-> 4, org |-> 2]

\* The table
CallSymmetry == Permutations(Calls)
MCFields == <<"f", "g">>
MCOpsOf == [f |-> <<"eq", "is_null">>, g |-> <<"like", "is_null">>]
MCColumns == <<"a", "b", "c">>
MCInputs == {"num", "file", "rel", "st"}
MCTransitions == {<<"s", "t">>}
MCShowsOn == [f \in MCInputs |-> IF f = "file" THEN "num" ELSE f]
MCValuesOf == [num |-> {"1", "9"}, st |-> {"s", "t"}, file |-> {"1"}, rel |-> {"1"}]

\* Boards: days before the first are negative.
MCDeltas == {-2, 1}
MCMonthStarts == <<2, 6, 11>>
MCMaxListed == [all \in BOOLEAN |-> IF all THEN 1 ELSE 2]

\* Imports
MCHeadersOf == [p |-> {"h", "i"}, q |-> {"i", "j"}]
MCNamed == [h |-> "f", i |-> "", j |-> "n"]
MCResembles == [h |-> "f", i |-> "g", j |-> "n"]

\* Forms
MCLayouts == {<<3, 6, 2>>, <<6, 3, 0>>}
MCKeyOf == [t \in {"", "n", "?"} |-> IF t = "n" THEN "n" ELSE ""]
MCReach == [r |-> {"f"}, s |-> {"g"}]
MCTypedCrons == {[often |-> "daily", hour |-> 9, day |-> 1, months |-> "3"],
                 [often |-> "odd", hour |-> 9, day |-> 1, months |-> "*"]}
=============================================================================
