-------------------------- MODULE DualportRAMProofs --------------------------
(***************************************************************************)
(* Proofs about DualportRAM, for every set of addresses and values and     *)
(* every sharing of the cache registers: the invariant of the state        *)
(* machine of port b and of its client, what it says of the answers and of *)
(* the writes, and that the table implements LookupTable.                  *)
(***************************************************************************)
EXTENDS DualportRAM, TLAPS

-----------------------------------------------------------------------------
(* The inductive invariant.                                                *)

\* The states in which the state machine carries out a request.
Reading == {"read_1c", "read_2c"}
Writing == {"write_1c", "write_2c"}

\* While a request is carried out it stands at the inputs of port b, and the
\* answer is there in the wait state only.
Handshake ==
    /\ web => enb
    /\ dob_valid <=> current_state_b = "wait"
    /\ current_state_b # "idle" => enb
    /\ current_state_b \in Reading => ~web
    /\ current_state_b \in Writing => web

\* The register that the state machine looks at next holds what the cell holds,
\* or what is to be written there, and after that the request is carried out.
CarriedOut ==
    /\ current_state_b = "read_1c" => reg_b_2[Reg2(addrb)] = ram[addrb]
    /\ current_state_b = "read_2c" => reg_b_1[Reg1(addrb)] = ram[addrb]
    /\ current_state_b = "write_1c" => reg_b_1[Reg1(addrb)] = dib
    /\ current_state_b = "write_2c" => reg_b_2[Reg2(addrb)] = dib
    /\ current_state_b = "wait" => IF web THEN ram[addrb] = dib ELSE dob = ram[addrb]

\* What the falling edge has reset, and what the first clock after it has.
InReset ==
    /\ rst_n # "high" => ~enb /\ ~web /\ ~reg_a_1_flag /\ ~doa_valid
    /\ rst_n = "low" =>
        /\ ram = Zero(Addr)
        /\ ~reg_a_2_flag
        /\ current_state_b = "idle" /\ ~dob_valid

IInv ==
    /\ TypeOK
    /\ InReset
    /\ rst_n = "high" => Handshake /\ CarriedOut

-----------------------------------------------------------------------------
(* Lemmas about the registers and the two ports.                           *)

\* The cache registers of an address are registers.
LEMMA RegsOf == \A a \in Addr : Reg2(a) \in Regs2 /\ Reg1(a) \in Regs1
  BY DEF Regs2, Regs1

\* All cells and registers are 0 after a reset.
LEMMA ZeroTyped ==
    /\ Zero(Addr) \in [Addr -> Value]
    /\ Zero(Regs2) \in [Regs2 -> Value]
    /\ Zero(Regs1) \in [Regs1 -> Value]
  BY RAMAssumption DEF Zero

\* The registers of port a keep their types on a clock.
LEMMA PortAType ==
    ASSUME TypeOK, NEW ena \in BOOLEAN, NEW a \in Addr, PortA(ena, a)
    PROVE  /\ reg_a_2' \in [Regs2 -> Value] /\ reg_a_2_flag' \in BOOLEAN /\ reg_addra_2' \in Addr
           /\ reg_a_1' \in [Regs1 -> Value] /\ reg_a_1_flag' \in BOOLEAN /\ reg_addra_1' \in Addr
           /\ doa' \in Value /\ doa_valid' \in BOOLEAN
  <1> USE RAMAssumption, RegsOf DEF TypeOK
  <1>1. reg_a_2' \in [Regs2 -> Value] /\ reg_a_2_flag' \in BOOLEAN /\ reg_addra_2' \in Addr
    BY DEF PortA, ReadRam
  <1>2. reg_a_1' \in [Regs1 -> Value] /\ reg_a_1_flag' \in BOOLEAN /\ reg_addra_1' \in Addr
    BY DEF PortA, FillCache1
  <1>3. doa' \in Value /\ doa_valid' \in BOOLEAN
    BY DEF PortA, Output
  <1> QED  BY <1>1, <1>2, <1>3

\* The registers of port b and the cells keep their types.
LEMMA PortBType ==
    ASSUME TypeOK, PortB
    PROVE  /\ ram' \in [Addr -> Value]
           /\ reg_b_2' \in [Regs2 -> Value] /\ reg_b_1' \in [Regs1 -> Value]
           /\ current_state_b' \in States
           /\ dob' \in Value /\ dob_valid' \in BOOLEAN
  <1> USE RAMAssumption, RegsOf DEF TypeOK, States, Answer
  <1>1. CASE Idle    BY <1>1 DEF Idle
  <1>2. CASE Read1   BY <1>2 DEF Read1
  <1>3. CASE Read2   BY <1>3 DEF Read2
  <1>4. CASE Write1  BY <1>4 DEF Write1
  <1>5. CASE Write2  BY <1>5 DEF Write2
  <1>6. CASE Wait    BY <1>6 DEF Wait
  <1> QED  BY <1>1, <1>2, <1>3, <1>4, <1>5, <1>6 DEF PortB

\* The client's registers keep their types.
LEMMA ClientType ==
    ASSUME TypeOK, Client
    PROVE  enb' \in BOOLEAN /\ web' \in BOOLEAN /\ addrb' \in Addr /\ dib' \in Value
  BY RAMAssumption DEF TypeOK, Client, client, NoRequest

\* The client holds its request until it sees the answer, and then drops it.
LEMMA ClientHolds ==
    ASSUME Client, enb
    PROVE  IF dob_valid THEN NoRequest ELSE UNCHANGED client
  BY DEF Client

\* Port b changes a cell only in the last step of a write, and to the data.
LEMMA OneCell ==
    ASSUME TypeOK, Handshake, CarriedOut, PortB
    PROVE  \/ ram' = ram
           \/ enb /\ web /\ ram' = [ram EXCEPT ![addrb] = dib]
  <1>1. CASE Write2
    BY <1>1 DEF Write2, Handshake, CarriedOut, Writing
  <1>2. CASE ~Write2
    BY <1>2 DEF PortB, Idle, Read1, Read2, Write1, Wait
  <1> QED  BY <1>1, <1>2

-----------------------------------------------------------------------------
(* The invariant is inductive.                                             *)

\* The first reset finds the registers with anything in them.
LEMMA InitStep == Init => IInv
  BY RAMAssumption DEF Init, IInv, TypeOK, InReset

\* A clock takes the request one step on.
LEMMA PortBStep ==
    ASSUME TypeOK, Handshake, CarriedOut, PortB, Client
    PROVE  Handshake' /\ CarriedOut'
  <1> USE RegsOf DEF TypeOK, Handshake, CarriedOut, Reading, Writing, Answer
  <1>1. CASE Idle
    <2>1. CASE ~enb
      BY <1>1, <2>1 DEF Idle, Client, client
    <2>2. CASE enb
      <3>1. UNCHANGED client
        BY <1>1, <2>2, ClientHolds DEF Idle
      <3> QED  BY <1>1, <2>2, <3>1 DEF Idle, client
    <2> QED  BY <2>1, <2>2
  <1>2. CASE Read1
    <2>1. UNCHANGED client
      BY <1>2, ClientHolds DEF Read1
    <2> QED  BY <1>2, <2>1 DEF Read1, client
  <1>3. CASE Read2
    <2>1. UNCHANGED client
      BY <1>3, ClientHolds DEF Read2
    <2> QED  BY <1>3, <2>1 DEF Read2, client
  <1>4. CASE Write1
    <2>1. UNCHANGED client
      BY <1>4, ClientHolds DEF Write1
    <2> QED  BY <1>4, <2>1 DEF Write1, client
  <1>5. CASE Write2
    <2>1. UNCHANGED client
      BY <1>5, ClientHolds DEF Write2
    <2> QED  BY <1>5, <2>1 DEF Write2, client
  <1>6. CASE Wait
    <2>1. NoRequest
      BY <1>6, ClientHolds DEF Wait
    <2> QED  BY <1>6, <2>1 DEF Wait, NoRequest
  <1> QED  BY <1>1, <1>2, <1>3, <1>4, <1>5, <1>6 DEF PortB

\* A clock, with a look-up or without.
LEMMA ClockStep ==
    ASSUME IInv, NEW ena \in BOOLEAN, NEW a \in Addr, Clock(ena, a)
    PROVE  IInv'
  <1>1. /\ rst_n = "high" /\ rst_n' = "high"
        /\ TypeOK /\ Handshake /\ CarriedOut
        /\ PortA(ena, a) /\ PortB /\ Client
    BY DEF Clock, IInv
  <1>2. TypeOK'
    BY <1>1, PortAType, PortBType, ClientType DEF TypeOK
  <1>3. Handshake' /\ CarriedOut'
    BY <1>1, PortBStep
  <1> QED  BY <1>1, <1>2, <1>3 DEF IInv, InReset

\* The falling edge takes the request and the look-ups in flight away.
LEMMA ResetFallsStep ==
    ASSUME IInv, ResetFalls
    PROVE  IInv'
  <1> USE RAMAssumption, RegsOf
  <1>1. TypeOK'
    BY DEF ResetFalls, DropLine, NoRequest, portB, IInv, TypeOK
  <1>2. InReset'
    BY DEF ResetFalls, DropLine, NoRequest, InReset
  <1> QED  BY <1>1, <1>2 DEF ResetFalls, IInv

\* A clock in reset clears the cells and the state machine.
LEMMA ClockInResetStep ==
    ASSUME IInv, ClockInReset
    PROVE  IInv'
  <1> USE RAMAssumption, ZeroTyped DEF ClockInReset, DropLine, Answer, client
  <1>1. TypeOK'
    BY DEF IInv, TypeOK, States
  <1>2. InReset'
    BY DEF IInv, InReset
  <1> QED  BY <1>1, <1>2 DEF IInv

\* The rising edge takes a step of the idle state without a request.
LEMMA ResetRisesStep ==
    ASSUME IInv, ResetRises
    PROVE  /\ IInv'
           /\ ram = Zero(Addr) /\ ram' = ram
           /\ ~reg_a_2_flag' /\ ~reg_a_1_flag' /\ ~doa_valid'
  <1>1. /\ rst_n = "low" /\ rst_n' = "high"
        /\ ~enb /\ ~web /\ ~reg_a_1_flag /\ ~doa_valid
        /\ ram = Zero(Addr) /\ current_state_b = "idle"
    BY DEF IInv, InReset, ResetRises
  <1>2. Idle
    BY <1>1 DEF ResetRises, PortB, Read1, Read2, Write1, Write2, Wait
  <1>3. /\ UNCHANGED <<ram, current_state_b>>
        /\ ~enb' /\ ~web' /\ ~dob_valid'
        /\ ~reg_a_2_flag' /\ ~reg_a_1_flag' /\ ~doa_valid'
    BY <1>1, <1>2 DEF Idle, Answer, ResetRises, ReadRam, client
  <1>4. TypeOK'
    <2>1. TypeOK /\ PortB
      BY DEF IInv, ResetRises
    <2>2. reg_a_2' \in [Regs2 -> Value] /\ reg_a_2_flag' \in BOOLEAN /\ reg_addra_2' \in Addr
      BY <2>1, RAMAssumption, RegsOf DEF ResetRises, ReadRam, TypeOK
    <2> QED  BY <2>1, <2>2, PortBType, <1>1 DEF TypeOK, ResetRises, client
  <1>5. Handshake' /\ CarriedOut'
    BY <1>1, <1>3 DEF Handshake, CarriedOut, Reading, Writing
  <1> QED  BY <1>1, <1>3, <1>4, <1>5 DEF IInv, InReset

\* Every step keeps the invariant.
LEMMA NextStep ==
    ASSUME IInv, [Next]_vars
    PROVE  IInv'
  <1>1. ASSUME NEW a \in Addr, Clock(TRUE, a) PROVE IInv'
    BY <1>1, ClockStep
  <1>2. CASE Clock(FALSE, 0)
    BY <1>2, ClockStep, RAMAssumption
  <1>3. CASE ResetFalls
    BY <1>3, ResetFallsStep
  <1>4. CASE ClockInReset
    BY <1>4, ClockInResetStep
  <1>5. CASE ResetRises
    BY <1>5, ResetRisesStep
  <1>6. CASE UNCHANGED vars
    BY <1>6 DEF vars, portA, portB, client, IInv, TypeOK, InReset, Handshake, CarriedOut
  <1> QED  BY <1>1, <1>2, <1>3, <1>4, <1>5, <1>6 DEF Next

\* The invariant holds in every reachable state.
THEOREM Invariance == Spec => []IInv
  <1>1. Init => IInv  BY InitStep
  <1>2. IInv /\ [Next]_vars => IInv'  BY NextStep
  <1> QED  BY <1>1, <1>2, PTL DEF Spec

-----------------------------------------------------------------------------
(* What follows from it.                                                   *)

\* An answer of port b is there while its request still is, and the request has
\* been carried out.
THEOREM Answered == Spec => []AnswersRequest
  <1>1. IInv => AnswersRequest
    BY DEF IInv, Handshake, CarriedOut, AnswersRequest
  <1> QED  BY <1>1, Invariance, PTL

\* Out of reset, a cell changes only to what the request at port b wants there.
THEOREM NothingElseWritten == Spec => WritesAsAsked
  <1>1. ASSUME IInv, [Next]_vars
        PROVE  [rst_n = "high" => \A a \in Addr :
                   ram'[a] # ram[a] => enb /\ web /\ a = addrb /\ ram'[a] = dib]_vars
    <2> SUFFICES ASSUME rst_n = "high", NEW a \in Addr, ram'[a] # ram[a]
                 PROVE  enb /\ web /\ a = addrb /\ ram'[a] = dib
      OBVIOUS
    <2>1. TypeOK /\ Handshake /\ CarriedOut
      BY <1>1 DEF IInv
    <2>2. PortB
      BY <1>1 DEF Next, vars, Clock, ResetFalls, ClockInReset, ResetRises
    <2> QED  BY <2>1, <2>2, OneCell DEF TypeOK
  <1> QED  BY <1>1, Invariance, PTL DEF Spec, WritesAsAsked

\* The results that are on their way in port a, as the refinement maps them.
Line(s) ==
    IF rst_n # "high" THEN None
    ELSE CASE s = 1 -> IF reg_a_2_flag THEN reg_a_2[Reg2(reg_addra_2)] ELSE None
           [] s = 2 -> IF reg_a_1_flag THEN reg_a_1[Reg1(reg_addra_1)] ELSE None
           [] s = 3 -> IF doa_valid THEN doa ELSE None

\* A clock moves them by one place, behind the value of the cell looked up.
LEMMA LineMoves ==
    ASSUME TypeOK, rst_n = "high", rst_n' = "high",
           NEW ena \in BOOLEAN, NEW a \in Addr, PortA(ena, a)
    PROVE  /\ Line(1)' = IF ena THEN ram[a] ELSE None
           /\ Line(2)' = Line(1)
           /\ Line(3)' = Line(2)
  <1> USE RegsOf DEF TypeOK, Line
  <1>1. Line(1)' = IF ena THEN ram[a] ELSE None
    BY DEF PortA, ReadRam
  <1>2. Line(2)' = Line(1)
    BY DEF PortA, FillCache1
  <1>3. Line(3)' = Line(2)
    BY DEF PortA, Output
  <1> QED  BY <1>1, <1>2, <1>3

\* A clock of the table is a clock of LookupTable.
LEMMA ClockMaps ==
    ASSUME IInv, NEW ena \in BOOLEAN, NEW a \in Addr, Clock(ena, a)
    PROVE  Table!Clock(IF ena THEN a ELSE None)
  <1>1. /\ rst_n = "high" /\ rst_n' = "high"
        /\ TypeOK /\ Handshake /\ CarriedOut /\ PortA(ena, a) /\ PortB
    BY DEF Clock, IInv
  <1>2. a # None
    BY RAMAssumption
  <1>3. Table!Write
    <2>1. \/ ram' = ram
          \/ \E v \in Value : ram' = [ram EXCEPT ![addrb] = v]
      BY <1>1, OneCell DEF TypeOK
    <2> QED  BY <1>1, <2>1 DEF Table!Write, TypeOK
  <1>4. Table!Read(IF ena THEN a ELSE None)
    BY <1>1, <1>2, LineMoves DEF Table!Read, Table!Depth, Line
  <1> QED  BY <1>3, <1>4 DEF Table!Clock

\* Every step of the table is a step of LookupTable or leaves it as it is.
LEMMA StepMaps ==
    ASSUME IInv, [Next]_vars
    PROVE  [Table!Next]_(Table!tableVars)
  <1>1. ASSUME NEW a \in Addr, Clock(TRUE, a) PROVE Table!Next
    BY <1>1, ClockMaps DEF Table!Next
  <1>2. CASE Clock(FALSE, 0)
    BY <1>2, ClockMaps, RAMAssumption DEF Table!Next
  <1>3. CASE ResetFalls
    BY <1>3 DEF ResetFalls, Table!Next, Table!Fall, Table!Empty, Table!Depth
  <1>4. CASE ClockInReset
    BY <1>4 DEF ClockInReset, Zero, Table!Next, Table!Clear, Table!Cleared
  <1>5. CASE ResetRises
    <2>1. /\ rst_n = "low" /\ rst_n' = "high"
          /\ ram = Zero(Addr) /\ ram' = ram
          /\ ~reg_a_2_flag' /\ ~reg_a_1_flag' /\ ~doa_valid'
      BY <1>5, ResetRisesStep DEF ResetRises
    <2> QED  BY <2>1 DEF Zero, Table!Next, Table!Rise, Table!Cleared
  <1>6. CASE UNCHANGED vars
    BY <1>6 DEF vars, portA, portB, client, Table!tableVars
  <1> QED  BY <1>1, <1>2, <1>3, <1>4, <1>5, <1>6 DEF Next

\* The table implements LookupTable: a look-up on every clock, with the value
\* that the cell had then, through caches that later look-ups overwrite.
THEOREM Implements == Spec => Refinement
  <1>1. Init => Table!Init
    BY DEF Init, Table!Init, Table!Empty, Table!Depth
  <1>2. IInv /\ [Next]_vars => [Table!Next]_(Table!tableVars)
    BY StepMaps
  <1> QED  BY <1>1, <1>2, Invariance, PTL DEF Spec, Table!Spec, Refinement
=============================================================================
