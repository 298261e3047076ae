---------------------------- MODULE LookupPipeline ----------------------------
(***************************************************************************)
(* The look-up of the FPGA: a clock to hash the key, three for the three   *)
(* tables, each a LookupTable, and the selection of one of their results.  *)
(*                                                                         *)
(* The clock and the reset reach all parts, but the reset of table 1 is    *)
(* connected to a net that nothing drives (hash_ctrl declares Rst_n and    *)
(* connects rst_n).  In simulation the net is "floating": the table is     *)
(* never reset.  A synthesis tool may tie it "low": the table is always in *)
(* reset.                                                                  *)
(***************************************************************************)
EXTENDS Naturals

CONSTANTS
    Key, NoKey,
    Value,          \* of the cells, cell_full among them
    None,           \* no result
    Addr1, Addr2, Addr3,                \* addresses of the tables
    Hash_add1, Hash_add2, Hash_add3,    \* the address of each key
    cell_full,      \* 15
    ResetClocks,    \* clocks that a reset lasts, at least
    Nets            \* what becomes of the undriven net

ASSUME PipelineAssumption ==
    /\ NoKey \notin Key
    /\ Hash_add1 \in [Key -> Addr1]
    /\ Hash_add2 \in [Key -> Addr2]
    /\ Hash_add3 \in [Key -> Addr3]
    /\ {0, cell_full} \subseteq Value
    /\ None \notin Key \cup Value \cup Addr1 \cup Addr2 \cup Addr3
    /\ None \notin Value \X Value \X Value
    /\ ResetClocks \in Nat \ {0}
    /\ Nets \subseteq {"floating", "low"}

VARIABLES
    rst_n,
    net,            \* what became of table 1's reset
    low,            \* clocks since the reset began, no more than ResetClocks
    hashed,         \* the key whose addresses the hash stage holds
    table1, line1, table2, line2, table3, line3,
    result,         \* Hash_rdata, or None
    due             \* history: the key of the last clock, and the cells that
                    \* the keys of the four clocks before it found

stages == <<hashed, table1, line1, table2, line2, table3, line3, result>>
vars == <<rst_n, net, low, stages, due>>

T1 == INSTANCE LookupTable WITH
    Addr <- Addr1, up <- net = "floating", table <- table1, line <- line1
T2 == INSTANCE LookupTable WITH
    Addr <- Addr2, up <- rst_n, table <- table2, line <- line2
T3 == INSTANCE LookupTable WITH
    Addr <- Addr3, up <- rst_n, table <- table3, line <- line3

\* Hash_valid enables all three tables.
Lookup(Hash_add) == IF hashed = NoKey THEN None ELSE Hash_add[hashed]

Data(r) == IF r = None THEN 0 ELSE r

\* The first of tables 1 and 2 whose cell is full, or else table 3.
MUX(v1, v2, v3) ==
    IF v1 = cell_full THEN v1 ELSE IF v2 = cell_full THEN v2 ELSE v3

\* Waits for the result of table 2 as well.
wrong_Select ==
    IF line1[2] # None
    THEN MUX(Data(line1[3]), Data(line2[3]), Data(line3[3]))
    ELSE None

Select ==
    IF line1[3] # None
    THEN MUX(Data(line1[3]), Data(line2[3]), Data(line3[3]))
    ELSE None

\* What is due, a clock later, if this clock's input is k.
Cells(k) == <<table1[Hash_add1[k]], table2[Hash_add2[k]], table3[Hash_add3[k]]>>
NoneDue == <<None, None, None, None, None>>
DueAfter(k) ==
    <<IF k = NoKey THEN None ELSE k,
      IF due[1] = None THEN None ELSE Cells(due[1]), due[2], due[3], due[4]>>

\* Table 1 takes its address from the input of the hash stage.
wrong_Clock(k) ==
    /\ UNCHANGED <<rst_n, net>>
    /\ hashed' = IF rst_n THEN k ELSE NoKey
    /\ T1!Clock(IF hashed' = NoKey THEN None ELSE Hash_add1[k]) \/ T1!Clear
    /\ T2!Clock(Lookup(Hash_add2)) \/ T2!Clear
    /\ T3!Clock(Lookup(Hash_add3)) \/ T3!Clear
    /\ result' = IF rst_n THEN Select ELSE None
    /\ due' = IF rst_n THEN DueAfter(k) ELSE NoneDue
    /\ low' = IF rst_n \/ low = ResetClocks THEN low ELSE low + 1

Clock(k) ==
    /\ UNCHANGED <<rst_n, net>>
    /\ hashed' = IF rst_n THEN k ELSE NoKey
    /\ T1!Clock(Lookup(Hash_add1)) \/ T1!Clear
    /\ T2!Clock(Lookup(Hash_add2)) \/ T2!Clear
    /\ T3!Clock(Lookup(Hash_add3)) \/ T3!Clear
    /\ result' = IF rst_n THEN Select ELSE None
    /\ due' = IF rst_n THEN DueAfter(k) ELSE NoneDue
    /\ low' = IF rst_n \/ low = ResetClocks THEN low ELSE low + 1

ResetFalls ==
    /\ T2!Fall /\ T3!Fall
    /\ hashed' = NoKey
    /\ result' = None
    /\ due' = NoneDue
    /\ low' = 0
    /\ UNCHANGED <<net, table1, line1>>

ResetRises ==
    /\ low = ResetClocks
    /\ T2!Rise /\ T3!Rise
    /\ UNCHANGED <<net, low, hashed, table1, line1, result, due>>

\* After the falling edge of the first reset; what nothing reset holds anything.
Init ==
    /\ net \in Nets
    /\ low = 0
    /\ T2!Init /\ T3!Init
    /\ table1 \in [Addr1 -> Value]
    /\ line1 \in IF net = "low" THEN {T1!Empty} ELSE [1 .. 3 -> Value \cup {None}]
    /\ hashed = NoKey
    /\ result = None
    /\ due = NoneDue

Next ==
    \/ \E k \in Key \cup {NoKey} : Clock(k)
    \/ ResetFalls
    \/ ResetRises

Spec == Init /\ [][Next]_vars

-----------------------------------------------------------------------------
(* Properties.                                                             *)

Found == Value \X Value \X Value

\* The types of the registers.
TypeOK ==
    /\ rst_n \in BOOLEAN
    /\ net \in Nets
    /\ low \in 0 .. ResetClocks
    /\ hashed \in Key \cup {NoKey}
    /\ table1 \in [Addr1 -> Value]
    /\ table2 \in [Addr2 -> Value]
    /\ table3 \in [Addr3 -> Value]
    /\ {line1, line2, line3} \subseteq [1 .. 3 -> Value \cup {None}]
    /\ result \in Value \cup {None}
    /\ due[1] \in Key \cup {None}
    /\ \A s \in 2 .. 5 : due[s] \in Found \cup {None}

\* A key may come in on every clock, and each gives one result four clocks later,
\* selected from the cells that it found, whatever is written since; there is no
\* result without a key.
FourClocks ==
    rst_n => result = IF due[5] = None
                      THEN None
                      ELSE MUX(due[5][1], due[5][2], due[5][3])

\* The results of the three tables are those of one key: MUX looks at the enable
\* of table 1 alone.
InStep ==
    /\ TypeOK
    /\ rst_n => \A s \in 1 .. 3 :
        /\ (line1[s] = None) = (line2[s] = None)
        /\ (line2[s] = None) = (line3[s] = None)

\* Each key gives a result four clocks later.
ResultComesOut == rst_n /\ due[5] # None => result # None
=============================================================================
