------------------------- MODULE LookupPipelineProofs -------------------------
(***************************************************************************)
(* Proofs about LookupPipeline, for all keys, addresses, tables and        *)
(* contents: the types for either fate of the undriven net, and, if it     *)
(* floats and a reset lasts for three clocks, that the three tables stay   *)
(* in step and that every key gives its result four clocks later.          *)
(***************************************************************************)
EXTENDS LookupPipeline, TLAPS

-----------------------------------------------------------------------------
(* The inductive invariant.                                                *)

\* What table i has on its way at place s, as the history has it.
DueAt(i, s) == IF due[s + 1] = None THEN None ELSE due[s + 1][i]

\* Out of reset, every stage holds what the history says of its key.
Tracks ==
    rst_n =>
        /\ hashed = IF due[1] = None THEN NoKey ELSE due[1]
        /\ \A s \in 1 .. 3 :
            /\ line1[s] = DueAt(1, s)
            /\ line2[s] = DueAt(2, s)
            /\ line3[s] = DueAt(3, s)

\* In reset, table 1 goes on: each clock empties one more place of its line.
Drains ==
    ~rst_n =>
        /\ hashed = NoKey /\ due = NoneDue /\ result = None
        /\ line2 = T2!Empty /\ line3 = T3!Empty
        /\ \A s \in 1 .. 3 : s <= low => line1[s] = None

IInv == TypeOK /\ Tracks /\ Drains /\ FourClocks

\* The reset of table 1 floats, and the others last until its line is empty.
ResetEmpties == Nets = {"floating"} /\ ResetClocks >= 3

-----------------------------------------------------------------------------
(* Lemmas.                                                                 *)

\* What a look-up finds is a value of its table.
LEMMA CellsFound ==
    ASSUME TypeOK, NEW k \in Key
    PROVE  /\ Cells(k) \in Found /\ Cells(k) # None
           /\ Cells(k)[1] = table1[Hash_add1[k]]
           /\ Cells(k)[2] = table2[Hash_add2[k]]
           /\ Cells(k)[3] = table3[Hash_add3[k]]
  BY PipelineAssumption DEF TypeOK, Cells, Found

\* The selection is one of the three values.
LEMMA Selected ==
    ASSUME NEW v1 \in Value, NEW v2 \in Value, NEW v3 \in Value
    PROVE  MUX(v1, v2, v3) \in Value
  BY DEF MUX

\* The tables and the results on their way keep their types on a clock.
LEMMA TablesType ==
    ASSUME TypeOK, NEW k \in Key \cup {NoKey}, Clock(k)
    PROVE  /\ table1' \in [Addr1 -> Value]
           /\ table2' \in [Addr2 -> Value]
           /\ table3' \in [Addr3 -> Value]
           /\ {line1', line2', line3'} \subseteq [1 .. 3 -> Value \cup {None}]
  <1> USE PipelineAssumption DEF TypeOK
  <1> DEFINE Line == [1 .. 3 -> Value \cup {None}]
  <1>1. table1' \in [Addr1 -> Value] /\ line1' \in Line
    <2>1. CASE T1!Clear
      BY <2>1 DEF T1!Clear, T1!Cleared
    <2>2. CASE T1!Clock(Lookup(Hash_add1))
      <3>1. table1' \in [Addr1 -> Value]
        BY <2>2 DEF T1!Clock, T1!Write
      <3>2. Lookup(Hash_add1) \in Addr1 \cup {None}
        BY DEF Lookup
      <3>3. line1' \in Line
        BY <2>2, <3>2 DEF T1!Clock, T1!Read, T1!Depth
      <3> QED  BY <3>1, <3>3
    <2> QED  BY <2>1, <2>2 DEF Clock
  <1>2. table2' \in [Addr2 -> Value] /\ line2' \in Line
    <2>1. CASE T2!Clear
      BY <2>1 DEF T2!Clear, T2!Cleared
    <2>2. CASE T2!Clock(Lookup(Hash_add2))
      <3>1. table2' \in [Addr2 -> Value]
        BY <2>2 DEF T2!Clock, T2!Write
      <3>2. Lookup(Hash_add2) \in Addr2 \cup {None}
        BY DEF Lookup
      <3>3. line2' \in Line
        BY <2>2, <3>2 DEF T2!Clock, T2!Read, T2!Depth
      <3> QED  BY <3>1, <3>3
    <2> QED  BY <2>1, <2>2 DEF Clock
  <1>3. table3' \in [Addr3 -> Value] /\ line3' \in Line
    <2>1. CASE T3!Clear
      BY <2>1 DEF T3!Clear, T3!Cleared
    <2>2. CASE T3!Clock(Lookup(Hash_add3))
      <3>1. table3' \in [Addr3 -> Value]
        BY <2>2 DEF T3!Clock, T3!Write
      <3>2. Lookup(Hash_add3) \in Addr3 \cup {None}
        BY DEF Lookup
      <3>3. line3' \in Line
        BY <2>2, <3>2 DEF T3!Clock, T3!Read, T3!Depth
      <3> QED  BY <3>1, <3>3
    <2> QED  BY <2>1, <2>2 DEF Clock
  <1> QED  BY <1>1, <1>2, <1>3

\* The history keeps its types.
LEMMA DueType ==
    ASSUME TypeOK, NEW k \in Key \cup {NoKey}, due' \in {DueAfter(k), NoneDue}
    PROVE  due'[1] \in Key \cup {None} /\ \A s \in 2 .. 5 : due'[s] \in Found \cup {None}
  <1>1. CASE due' = NoneDue
    BY <1>1 DEF NoneDue
  <1>2. CASE due' = DueAfter(k)
    <2>1. due'[1] \in Key \cup {None}
      BY <1>2 DEF DueAfter
    <2>2. due'[2] \in Found \cup {None}
      BY <1>2, CellsFound DEF DueAfter, TypeOK
    <2>3. due'[3] = due[2] /\ due'[4] = due[3] /\ due'[5] = due[4]
      BY <1>2 DEF DueAfter
    <2>4. due'[3] \in Found \cup {None} /\ due'[4] \in Found \cup {None}
          /\ due'[5] \in Found \cup {None}
      BY <2>3 DEF TypeOK
    <2> QED  BY <2>1, <2>2, <2>4
  <1> QED  BY <1>1, <1>2

\* In reset nothing is on its way in tables 2 and 3, and they are cleared.
LEMMA ResetClears ==
    ASSUME NEW k, Clock(k), ~rst_n
    PROVE  /\ hashed' = NoKey /\ result' = None /\ due' = NoneDue /\ ~rst_n'
           /\ UNCHANGED <<line2, line3>>
  BY DEF Clock, T2!Clock, T2!Read, T2!Clear, T3!Clock, T3!Read, T3!Clear

-----------------------------------------------------------------------------
(* The types.                                                              *)

\* The first reset finds registers of their types.
LEMMA InitTypes == Init => TypeOK
  <1> SUFFICES ASSUME Init PROVE TypeOK
    OBVIOUS
  <1> USE PipelineAssumption
  <1>1. {line1, line2, line3} \subseteq [1 .. 3 -> Value \cup {None}]
    BY DEF Init, T1!Empty, T1!Depth, T2!Init, T2!Empty, T2!Depth, T3!Init, T3!Empty, T3!Depth
  <1>2. due[1] \in Key \cup {None} /\ \A s \in 2 .. 5 : due[s] \in Found \cup {None}
    BY DEF Init, NoneDue
  <1>3. /\ ~rst_n /\ net \in Nets /\ low = 0 /\ hashed = NoKey /\ result = None
        /\ table1 \in [Addr1 -> Value] /\ table2 \in [Addr2 -> Value]
        /\ table3 \in [Addr3 -> Value] /\ rst_n \in BOOLEAN
    BY DEF Init, T2!Init, T3!Init
  <1> QED  BY <1>1, <1>2, <1>3 DEF TypeOK

\* A clock keeps the types.
LEMMA ClockTypes ==
    ASSUME TypeOK, NEW k \in Key \cup {NoKey}, Clock(k)
    PROVE  TypeOK'
  <1>1. rst_n' \in BOOLEAN /\ net' \in Nets /\ hashed' \in Key \cup {NoKey}
    BY DEF Clock, TypeOK
  <1>2. low' \in 0 .. ResetClocks
    BY PipelineAssumption DEF Clock, TypeOK
  <1>3. result' \in Value \cup {None}
    <2>1. /\ line1[3] \in Value \cup {None}
          /\ line2[3] \in Value \cup {None}
          /\ line3[3] \in Value \cup {None}
      BY DEF TypeOK
    <2>2. Select \in Value \cup {None}
      BY <2>1, Selected, PipelineAssumption DEF Select, Data
    <2> QED  BY <2>2 DEF Clock
  <1>4. due'[1] \in Key \cup {None} /\ \A s \in 2 .. 5 : due'[s] \in Found \cup {None}
    BY DueType DEF Clock
  <1> QED  BY <1>1, <1>2, <1>3, <1>4, TablesType DEF TypeOK

\* The falling edge of the reset keeps the types.
LEMMA FallTypes ==
    ASSUME TypeOK, ResetFalls
    PROVE  TypeOK'
  <1>1. {line1', line2', line3'} \subseteq [1 .. 3 -> Value \cup {None}]
    BY DEF TypeOK, ResetFalls, T2!Fall, T2!Empty, T2!Depth, T3!Fall, T3!Empty, T3!Depth
  <1>2. due'[1] \in Key \cup {None} /\ \A s \in 2 .. 5 : due'[s] \in Found \cup {None}
    BY DEF ResetFalls, NoneDue
  <1>3. /\ ~rst_n' /\ rst_n' \in BOOLEAN
        /\ hashed' = NoKey /\ result' = None
        /\ UNCHANGED <<net, table1, table2, table3>>
    BY DEF ResetFalls, T2!Fall, T3!Fall
  <1>4. low' \in 0 .. ResetClocks
    BY PipelineAssumption DEF ResetFalls
  <1> QED  BY <1>1, <1>2, <1>3, <1>4 DEF TypeOK

\* Every step keeps the types.
LEMMA StepTypes ==
    ASSUME TypeOK, [Next]_vars
    PROVE  TypeOK'
  <1>1. ASSUME NEW k \in Key \cup {NoKey}, Clock(k) PROVE TypeOK'
    BY <1>1, ClockTypes
  <1>2. CASE ResetFalls
    BY <1>2, FallTypes
  <1>3. CASE ResetRises
    BY <1>3 DEF ResetRises, T2!Rise, T3!Rise, TypeOK
  <1>4. CASE UNCHANGED vars
    BY <1>4 DEF vars, stages, TypeOK
  <1> QED  BY <1>1, <1>2, <1>3, <1>4 DEF Next

\* The registers keep their types, whatever becomes of the undriven net.
THEOREM TypeCorrect == Spec => []TypeOK
  <1>1. Init => TypeOK  BY InitTypes
  <1>2. TypeOK /\ [Next]_vars => TypeOK'  BY StepTypes
  <1> QED  BY <1>1, <1>2, PTL DEF Spec

-----------------------------------------------------------------------------
(* The invariant is inductive, if the reset empties the line of table 1.   *)

\* The pipeline starts in reset, with nothing on its way in tables 2 and 3.
LEMMA InitStep == Init => IInv
  <1> SUFFICES ASSUME Init PROVE IInv
    OBVIOUS
  <1>1. ~rst_n /\ low = 0 /\ hashed = NoKey /\ due = NoneDue /\ result = None
        /\ line2 = T2!Empty /\ line3 = T3!Empty
    BY DEF Init, T2!Init, T3!Init
  <1> QED  BY <1>1, InitTypes DEF IInv, Tracks, Drains, FourClocks

\* Each table takes the address of the key that the hash stage holds, and moves
\* its results by one place.
LEMMA LinesMove ==
    ASSUME IInv, Nets = {"floating"}, rst_n, NEW k, Clock(k)
    PROVE  \A s \in 1 .. 3 :
               /\ line1'[s] = DueAt(1, s)'
               /\ line2'[s] = DueAt(2, s)'
               /\ line3'[s] = DueAt(3, s)'
  <1> USE PipelineAssumption
  <1>1. /\ T1!Read(Lookup(Hash_add1))
        /\ T2!Read(Lookup(Hash_add2))
        /\ T3!Read(Lookup(Hash_add3))
    BY DEF Clock, IInv, TypeOK, T1!Clock, T1!Clear, T2!Clock, T2!Clear, T3!Clock, T3!Clear
  <1>2. due' = DueAfter(k)
    BY DEF Clock
  <1>3. /\ hashed = IF due[1] = None THEN NoKey ELSE due[1]
        /\ due[1] \in Key \cup {None}
        /\ \A s \in 1 .. 3 : /\ line1[s] = DueAt(1, s)
                             /\ line2[s] = DueAt(2, s)
                             /\ line3[s] = DueAt(3, s)
    BY DEF IInv, TypeOK, Tracks
  <1>4. /\ line1'[1] = DueAt(1, 1)'
        /\ line2'[1] = DueAt(2, 1)'
        /\ line3'[1] = DueAt(3, 1)'
    <2>1. CASE due[1] = None
      BY <1>1, <1>2, <1>3, <2>1
      DEF Lookup, DueAt, DueAfter, T1!Read, T1!Depth, T2!Read, T2!Depth, T3!Read, T3!Depth
    <2>2. CASE due[1] # None
      <3>1. due[1] \in Key /\ hashed = due[1] /\ hashed # NoKey /\ due'[2] = Cells(due[1])
        BY <1>2, <1>3, <2>2 DEF DueAfter
      <3>2. /\ line1'[1] = table1[Hash_add1[hashed]]
            /\ line2'[1] = table2[Hash_add2[hashed]]
            /\ line3'[1] = table3[Hash_add3[hashed]]
        BY <1>1, <3>1 DEF Lookup, T1!Read, T1!Depth, T2!Read, T2!Depth, T3!Read, T3!Depth
      <3> QED  BY <3>1, <3>2, CellsFound DEF DueAt, IInv
    <2> QED  BY <2>1, <2>2
  <1>5. ASSUME NEW s \in 2 .. 3
        PROVE  /\ line1'[s] = DueAt(1, s)'
               /\ line2'[s] = DueAt(2, s)'
               /\ line3'[s] = DueAt(3, s)'
    <2>1. line1'[s] = line1[s - 1] /\ line2'[s] = line2[s - 1] /\ line3'[s] = line3[s - 1]
      BY <1>1 DEF T1!Read, T1!Depth, T2!Read, T2!Depth, T3!Read, T3!Depth
    <2>2. due'[s + 1] = due[(s - 1) + 1]
      BY <1>2 DEF DueAfter
    <2> QED  BY <1>3, <2>1, <2>2 DEF DueAt
  <1> QED  BY <1>4, <1>5

\* The selection is made from the cells of one key.
LEMMA OneKeySelected ==
    ASSUME IInv, rst_n, NEW k, Clock(k)
    PROVE  FourClocks'
  <1>1. result' = Select /\ due' = DueAfter(k)
    BY DEF Clock
  <1>2. due'[5] = due[4]
    BY <1>1 DEF DueAfter
  <1>3. line1[3] = DueAt(1, 3) /\ line2[3] = DueAt(2, 3) /\ line3[3] = DueAt(3, 3)
    BY DEF IInv, Tracks
  <1>4. CASE due[4] = None
    BY <1>1, <1>2, <1>3, <1>4 DEF FourClocks, Select, DueAt
  <1>5. CASE due[4] # None
    <2>1. due[4][1] \in Value /\ due[4][2] \in Value /\ due[4][3] \in Value
      BY <1>5 DEF IInv, TypeOK, Found
    <2>2. line1[3] = due[4][1] /\ line2[3] = due[4][2] /\ line3[3] = due[4][3]
      BY <1>3, <1>5 DEF DueAt
    <2>3. Select = MUX(due[4][1], due[4][2], due[4][3])
      BY <2>1, <2>2, PipelineAssumption DEF Select, Data
    <2> QED  BY <1>1, <1>2, <1>5, <2>3 DEF FourClocks
  <1> QED  BY <1>4, <1>5

\* A clock moves each look-up, and what the history has of it, one place on.
LEMMA ClockStep ==
    ASSUME IInv, Nets = {"floating"}, NEW k \in Key \cup {NoKey}, Clock(k)
    PROVE  IInv'
  <1>1. TypeOK'
    BY ClockTypes DEF IInv
  <1>2. CASE rst_n
    <2>1. rst_n'
      BY <1>2 DEF Clock
    <2>2. hashed' = IF due'[1] = None THEN NoKey ELSE due'[1]
      BY <1>2, PipelineAssumption DEF Clock, DueAfter
    <2>3. Tracks'
      BY <1>2, <2>2, LinesMove DEF Tracks
    <2>4. FourClocks'
      BY <1>2, OneKeySelected
    <2> QED  BY <1>1, <2>1, <2>3, <2>4 DEF IInv, Drains
  <1>3. CASE ~rst_n
    <2>1. /\ hashed = NoKey /\ line2 = T2!Empty /\ line3 = T3!Empty
          /\ \A s \in 1 .. 3 : s <= low => line1[s] = None
      BY <1>3 DEF IInv, Drains
    <2>2. T1!Read(None)
      BY <2>1 DEF IInv, TypeOK, Clock, Lookup, T1!Clock, T1!Clear
    <2>3. ASSUME NEW s \in 1 .. 3, s <= low' PROVE line1'[s] = None
      <3>1. CASE s = 1
        BY <2>2, <3>1 DEF T1!Read, T1!Depth
      <3>2. CASE s # 1
        <4>1. s - 1 \in 1 .. 3 /\ s - 1 <= low
          BY <1>3, <2>3, <3>2, PipelineAssumption DEF Clock, IInv, TypeOK
        <4> QED  BY <2>1, <2>2, <3>2, <4>1 DEF T1!Read, T1!Depth
      <3> QED  BY <3>1, <3>2
    <2>4. Drains'
      BY <1>3, <2>1, <2>3, ResetClears DEF Drains, T2!Empty, T2!Depth, T3!Empty, T3!Depth
    <2> QED  BY <1>1, <1>3, <2>4, ResetClears DEF IInv, Tracks, FourClocks
  <1> QED  BY <1>2, <1>3

\* The falling edge empties tables 2 and 3; table 1 goes on.
LEMMA ResetFallsStep ==
    ASSUME IInv, ResetFalls
    PROVE  IInv'
  <1>1. TypeOK'
    BY FallTypes DEF IInv
  <1>2. ~rst_n' /\ low' = 0 /\ hashed' = NoKey /\ due' = NoneDue /\ result' = None
        /\ line2' = T2!Empty /\ line3' = T3!Empty
    BY DEF ResetFalls, T2!Fall, T3!Fall
  <1>3. Drains'
    BY <1>2 DEF Drains, T2!Empty, T2!Depth, T3!Empty, T3!Depth
  <1> QED  BY <1>1, <1>2, <1>3 DEF IInv, Tracks, FourClocks

\* The reset has lasted long enough for the line of table 1 to be empty.
LEMMA ResetRisesStep ==
    ASSUME IInv, ResetEmpties, ResetRises
    PROVE  IInv'
  <1>1. ~rst_n /\ rst_n' /\ low = ResetClocks
        /\ UNCHANGED <<hashed, line1, line2, line3, due, result>>
    BY DEF ResetRises, T2!Rise, T3!Rise
  <1>2. TypeOK'
    BY StepTypes DEF IInv, Next
  <1>3. /\ hashed' = NoKey /\ due' = NoneDue
        /\ \A s \in 1 .. 3 : line1'[s] = None /\ line2'[s] = None /\ line3'[s] = None
    BY <1>1, PipelineAssumption
    DEF IInv, Drains, ResetEmpties, T2!Empty, T2!Depth, T3!Empty, T3!Depth
  <1>4. Tracks'
    <2>1. \A s \in 1 .. 5 : due'[s] = None
      BY <1>3 DEF NoneDue
    <2> QED  BY <1>3, <2>1 DEF Tracks, DueAt
  <1>5. FourClocks'
    BY <1>1, <1>3 DEF IInv, Drains, FourClocks, NoneDue
  <1> QED  BY <1>1, <1>2, <1>4, <1>5 DEF IInv, Drains

\* Every step keeps the invariant.
LEMMA NextStep ==
    ASSUME IInv, ResetEmpties, [Next]_vars
    PROVE  IInv'
  <1>1. ASSUME NEW k \in Key \cup {NoKey}, Clock(k) PROVE IInv'
    BY <1>1, ClockStep DEF ResetEmpties
  <1>2. CASE ResetFalls
    BY <1>2, ResetFallsStep
  <1>3. CASE ResetRises
    BY <1>3, ResetRisesStep
  <1>4. CASE UNCHANGED vars
    BY <1>4, StepTypes DEF vars, stages, IInv, Tracks, Drains, FourClocks, DueAt,
       T2!Empty, T2!Depth, T3!Empty, T3!Depth
  <1> QED  BY <1>1, <1>2, <1>3, <1>4 DEF Next

\* The invariant holds in every reachable state.
THEOREM Invariance ==
    ASSUME ResetEmpties
    PROVE  Spec => []IInv
  <1>1. Init => IInv  BY InitStep
  <1>2. IInv /\ [Next]_vars => IInv'  BY NextStep
  <1> QED  BY <1>1, <1>2, PTL DEF Spec

\* Every key gives its result four clocks later, selected from the cells that it
\* found, and there is no result without a key.
THEOREM ResultInTime ==
    ASSUME ResetEmpties
    PROVE  Spec => []FourClocks
  <1>1. IInv => FourClocks  BY DEF IInv
  <1> QED  BY <1>1, Invariance, PTL

\* The results of the three tables are those of one key.
THEOREM TablesInStep ==
    ASSUME ResetEmpties
    PROVE  Spec => []InStep
  <1>1. ASSUME IInv PROVE InStep
    <2> SUFFICES ASSUME rst_n, NEW s \in 1 .. 3
                 PROVE  /\ (line1[s] = None) = (line2[s] = None)
                        /\ (line2[s] = None) = (line3[s] = None)
      BY <1>1 DEF InStep, IInv
    <2>1. line1[s] = DueAt(1, s) /\ line2[s] = DueAt(2, s) /\ line3[s] = DueAt(3, s)
      BY <1>1 DEF IInv, Tracks
    <2>2. CASE due[s + 1] = None
      BY <2>1, <2>2 DEF DueAt
    <2>3. CASE due[s + 1] # None
      <3>1. due[s + 1] \in Found
        BY <1>1, <2>3 DEF IInv, TypeOK
      <3>2. /\ DueAt(1, s) \in Value
            /\ DueAt(2, s) \in Value
            /\ DueAt(3, s) \in Value
        BY <2>3, <3>1 DEF DueAt, Found
      <3> QED  BY <2>1, <3>2, PipelineAssumption
    <2> QED  BY <2>2, <2>3
  <1> QED  BY <1>1, Invariance, PTL
=============================================================================
