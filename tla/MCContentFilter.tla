-------------------------- MODULE MCContentFilter ---------------------------
(***************************************************************************)
(* Model-checking instance of ContentFilter: two agents whose control     *)
(* units order them against their kcunits (kcunit 2 is first in the       *)
(* chain), spans of 1 or 2 bytes, and the messages agents typically send: *)
(* peek ahead, pass what was seen, pass everything.                       *)
(***************************************************************************)
EXTENDS ContentFilter

MCUnits == {1, 2}
MCControlUnit == (1 :> 7) @@ (2 :> 3)
MCMaxOffset == 100

\* One agent: for the garbage-collection races, where a second one only
\* repeats the first one's events.
MCOneUnit == {1}
MCOneControlUnit == 1 :> 7

\* A CFM_OP_DATA_UPDATE message touching one direction only.
OneWay(d, pa, pe) ==
    [e \in Dirs |-> IF e = d THEN [pass |-> pa, peek |-> pe]
                    ELSE [pass |-> 0, peek |-> 0]]

MCVerdicts ==
    {[e \in Dirs |-> [pass |-> 0, peek |-> 0]],
     [e \in Dirs |-> [pass |-> MCMaxOffset, peek |-> MCMaxOffset]]}
    \cup {OneWay(d, 0, k) : d \in DataDirs, k \in 1..MaxBytes}
    \cup {OneWay(d, k, k) : d \in DataDirs, k \in 1..MaxBytes}
    \cup {OneWay(d, MCMaxOffset, MCMaxOffset) : d \in DataDirs}

\* Only verdicts that pass data: for the questions about handing data back.
MCPassVerdicts == MCVerdicts \ {OneWay(d, 0, k) : d \in DataDirs, k \in 1..MaxBytes}
=============================================================================
