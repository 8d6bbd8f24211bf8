------------------------------- MODULE Screen -------------------------------
(***************************************************************************)
(* What the screens of the browser share: a bound on how much a user does.  *)
(* Each screen is a module of its own with its own variables; Browser.tla   *)
(* puts them behind the router of frontend/src/main.tsx.                    *)
(***************************************************************************)
EXTENDS Integers, FiniteSets, SequencesExt

CONSTANT Budget   \* what a user may do on each screen: a bound for TLC

ASSUME ScreenAssumption == \A page \in DOMAIN Budget : Budget[page] \in Nat

VARIABLE acts     \* what the user has done so far

\* The user does something on the screen.
Act(page) == acts < Budget[page] /\ acts' = acts + 1

\* The elements of a sequence at some of its positions, in their order: the filter of
\* an array, as SelectSeq but defined by what a proof can use.
ElementsAt(s, places) ==
    [n \in 1..Cardinality(places) |->
        s[CHOOSE i \in places : Cardinality({j \in places : j < i}) = n - 1]]
Filter(s, Test(_)) == ElementsAt(s, {i \in DOMAIN s : Test(s[i])})

\* A finite set in the order of a relation: sort, as SetToSortSeq but defined likewise.
Ordered(S, Before(_, _)) ==
    [n \in 1..Cardinality(S) |->
        CHOOSE i \in S : Cardinality({j \in S : Before(j, i)}) = n - 1]
=============================================================================
