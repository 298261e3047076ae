----------------------------- MODULE LookupTable -----------------------------
(***************************************************************************)
(* What one table of the FPGA promises the pipeline: a look-up on every    *)
(* clock, whose result comes out three clocks later and is what the table  *)
(* held when the look-up was made, while the other port writes.            *)
(*                                                                         *)
(* DualportRAM is shown to implement it, and LookupPipeline is built from  *)
(* three of these tables.                                                  *)
(***************************************************************************)
EXTENDS Naturals

CONSTANTS
    Addr, Value,    \* 0 is one of either
    None            \* no look-up, no result: not one of either

VARIABLES
    up,         \* the table is not being reset
    table,
    line        \* the results on their way, line[3] at the output

tableVars == <<up, table, line>>

Depth == 3
Empty == [s \in 1 .. Depth |-> None]
Cleared == [a \in Addr |-> 0]

Init ==
    /\ up = FALSE
    /\ table \in [Addr -> Value]
    /\ line = Empty

\* One clock, with a look-up at address a or none.
Read(a) ==
    /\ up
    /\ line' = [s \in 1 .. Depth |->
                    IF s > 1 THEN line[s - 1] ELSE IF a = None THEN None ELSE table[a]]
    /\ up' = up

\* In the same clock the other port writes a cell, or does not.
Write ==
    table' \in {table} \cup {[table EXCEPT ![a] = v] : a \in Addr, v \in Value}

Clock(a) == Read(a) /\ Write

\* The reset drops the results on their way, and clears the table on the clocks
\* that it lasts, of which there is one at least.
Fall == up /\ up' = FALSE /\ line' = Empty /\ table' = table
Clear == ~up /\ table' = Cleared /\ UNCHANGED <<up, line>>
Rise == ~up /\ table = Cleared /\ up' = TRUE /\ UNCHANGED <<table, line>>

Next ==
    \/ \E a \in Addr \cup {None} : Clock(a)
    \/ Fall
    \/ Clear
    \/ Rise

Spec == Init /\ [][Next]_tableVars
=============================================================================
