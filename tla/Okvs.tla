-------------------------------- MODULE Okvs --------------------------------
(***************************************************************************)
(* What the callers in recv.cpp and send.cpp expect of an oblivious        *)
(* key-value store: one call either gives up and leaves the table it was   *)
(* handed alone, or replaces it with a table that decodes every key to its *)
(* value.  Giving up is allowed only when the equations are dependent.     *)
(***************************************************************************)
EXTENDS Naturals

CONSTANTS
    Keys,
    Columns,
    Odd(_)       \* a finite set has an odd number of elements

Key == 1 .. Keys
Column == 0 .. Columns - 1

VARIABLES
    equation,    \* equation[k]: the cells that add up to the value of key k
    outcome,     \* "none" before the call returns, then "ok" or "failed"
    cells        \* the caller's table; a value is a formal sum of key symbols

okvsVars == <<equation, outcome, cells>>

\* Symbol v is in the sum of the cells of key k just if v is k.
Solves(t) ==
    \A k \in Key : \A v \in 0 .. Keys : Odd({c \in equation[k] : v \in t[c]}) <=> v = k

\* Some of the equations add up to zero.
Dependent ==
    \E S \in (SUBSET Key) \ {{}} : \A c \in Column : ~Odd({k \in S : c \in equation[k]})

Init == outcome = "none"

Succeed ==
    /\ outcome = "none"
    /\ outcome' = "ok"
    /\ Solves(cells')
    /\ UNCHANGED equation

GiveUp ==
    /\ outcome = "none"
    /\ Dependent
    /\ outcome' = "failed"
    /\ UNCHANGED <<equation, cells>>

Next == Succeed \/ GiveUp

Spec == Init /\ [][Next]_okvsVars
=============================================================================
