----------------------------- MODULE DualportRAM -----------------------------
(***************************************************************************)
(* One table of the FPGA (Dualport_RAM_4_535, _1070 and _2140, which       *)
(* differ in their sizes), with both its ports and the client of port b    *)
(* that the test bench contains.                                           *)
(*                                                                         *)
(* Port a serves a look-up on every clock, through two levels of cache     *)
(* registers.  Port b reads or writes one cell in four clocks, by a state  *)
(* machine that looks at the address input again on each of them.          *)
(*                                                                         *)
(* All registers that a clock writes change together, in one step, from    *)
(* the values before it (non-blocking assignments).                        *)
(***************************************************************************)
EXTENDS Naturals

CONSTANTS
    Addr, Value,
    None,
    Size2,      \* addresses that share a cache2 register, 16
    Size1       \* addresses that share a cache1 register, 256

ASSUME RAMAssumption ==
    /\ Addr \subseteq Nat /\ 0 \in Addr
    /\ Value \subseteq Nat /\ 0 \in Value
    /\ None \notin Nat
    /\ Size1 \in Nat \ {0} /\ Size2 \in Nat \ {0}

VARIABLES
    rst_n,          \* "high"; "falling": low, before the first clock; "low"
    ram,
    reg_a_2, reg_a_2_flag, reg_addra_2,     \* port a, first clock
    reg_a_1, reg_a_1_flag, reg_addra_1,     \* port a, second clock
    doa, doa_valid,                         \* port a, output
    reg_b_2, reg_b_1, current_state_b,      \* port b
    dob, dob_valid,                         \* port b, output
    enb, web, addrb, dib                    \* port b, input: the client's registers

portA == <<reg_a_2, reg_a_2_flag, reg_addra_2, reg_a_1, reg_a_1_flag, reg_addra_1, doa, doa_valid>>
portB == <<reg_b_2, reg_b_1, current_state_b, dob, dob_valid>>
client == <<enb, web, addrb, dib>>
vars == <<rst_n, ram, portA, portB, client>>

\* The cache registers of an address: addr[9:4] and addr[9:8].
Reg2(a) == a \div Size2
Reg1(a) == a \div Size1
Regs2 == {Reg2(a) : a \in Addr}
Regs1 == {Reg1(a) : a \in Addr}

States == {"idle", "read_1c", "read_2c", "write_1c", "write_2c", "wait"}

Zero(S) == [x \in S |-> 0]

-----------------------------------------------------------------------------
(* Port a.                                                                 *)

\* First clock, with a look-up at a, or none: then the address input is 0.
ReadRam(ena, a) ==
    /\ reg_a_2' = [reg_a_2 EXCEPT ![Reg2(a)] = IF ena THEN ram[a] ELSE 0]
    /\ reg_a_2_flag' = ena
    /\ reg_addra_2' = IF ena THEN a ELSE 0

\* Takes the address of the clock before from the address input.
wrong_FillCache1 ==
    /\ reg_a_1' = [reg_a_1 EXCEPT ![Reg1(reg_addra_2)] =
            IF reg_a_2_flag THEN reg_a_2[Reg2(reg_addra_2)] ELSE 0]
    /\ reg_a_1_flag' = reg_a_2_flag
    /\ reg_addra_1' = reg_addra_2'

FillCache1 ==
    /\ reg_a_1' = [reg_a_1 EXCEPT ![Reg1(reg_addra_2)] =
            IF reg_a_2_flag THEN reg_a_2[Reg2(reg_addra_2)] ELSE 0]
    /\ reg_a_1_flag' = reg_a_2_flag
    /\ reg_addra_1' = IF reg_a_2_flag THEN reg_addra_2 ELSE 0

Output ==
    /\ doa' = IF reg_a_1_flag THEN reg_a_1[Reg1(reg_addra_1)] ELSE 0
    /\ doa_valid' = reg_a_1_flag

PortA(ena, a) == ReadRam(ena, a) /\ FillCache1 /\ Output

-----------------------------------------------------------------------------
(* Port b.                                                                 *)

Answer(v, valid) == dob' = v /\ dob_valid' = valid

Idle ==
    /\ current_state_b = "idle"
    /\ Answer(0, FALSE)
    /\ UNCHANGED ram
    /\ \/ /\ enb /\ ~web
          /\ reg_b_2' = [reg_b_2 EXCEPT ![Reg2(addrb)] = ram[addrb]]
          /\ current_state_b' = "read_1c"
          /\ UNCHANGED reg_b_1
       \/ /\ enb /\ web
          /\ reg_b_1' = [reg_b_1 EXCEPT ![Reg1(addrb)] = dib]
          /\ current_state_b' = "write_1c"
          /\ UNCHANGED reg_b_2
       \/ /\ ~enb
          /\ UNCHANGED <<reg_b_1, reg_b_2, current_state_b>>

\* Gives the answer a clock early.
wrong_Read1 ==
    /\ current_state_b = "read_1c"
    /\ reg_b_1' = [reg_b_1 EXCEPT ![Reg1(addrb)] = reg_b_2[Reg2(addrb)]]
    /\ Answer(reg_b_1[Reg1(addrb)], TRUE)
    /\ current_state_b' = "wait"
    /\ UNCHANGED <<ram, reg_b_2>>

Read1 ==
    /\ current_state_b = "read_1c"
    /\ reg_b_1' = [reg_b_1 EXCEPT ![Reg1(addrb)] = reg_b_2[Reg2(addrb)]]
    /\ current_state_b' = "read_2c"
    /\ UNCHANGED <<ram, reg_b_2, dob, dob_valid>>

\* Does not say that the answer is there.
wrong_Read2 ==
    /\ current_state_b = "read_2c"
    /\ Answer(reg_b_1[Reg1(addrb)], FALSE)
    /\ current_state_b' = "wait"
    /\ UNCHANGED <<ram, reg_b_1, reg_b_2>>

Read2 ==
    /\ current_state_b = "read_2c"
    /\ Answer(reg_b_1[Reg1(addrb)], TRUE)
    /\ current_state_b' = "wait"
    /\ UNCHANGED <<ram, reg_b_1, reg_b_2>>

Write1 ==
    /\ current_state_b = "write_1c"
    /\ reg_b_2' = [reg_b_2 EXCEPT ![Reg2(addrb)] = reg_b_1[Reg1(addrb)]]
    /\ Answer(0, FALSE)
    /\ current_state_b' = "write_2c"
    /\ UNCHANGED <<ram, reg_b_1>>

\* Saves the clock of the wait state.
wrong_Write2 ==
    /\ current_state_b = "write_2c"
    /\ ram' = [ram EXCEPT ![addrb] = reg_b_2[Reg2(addrb)]]
    /\ dob_valid' = TRUE
    /\ current_state_b' = "idle"
    /\ UNCHANGED <<reg_b_1, reg_b_2, dob>>

Write2 ==
    /\ current_state_b = "write_2c"
    /\ ram' = [ram EXCEPT ![addrb] = reg_b_2[Reg2(addrb)]]
    /\ dob_valid' = TRUE
    /\ current_state_b' = "wait"
    /\ UNCHANGED <<reg_b_1, reg_b_2, dob>>

Wait ==
    /\ current_state_b = "wait"
    /\ Answer(0, FALSE)
    /\ current_state_b' = "idle"
    /\ UNCHANGED <<ram, reg_b_1, reg_b_2>>

PortB == Idle \/ Read1 \/ Read2 \/ Write1 \/ Write2 \/ Wait

-----------------------------------------------------------------------------
(* The client of port b holds its request until it sees the answer, and    *)
(* makes the next one a clock later at the soonest.  The test bench's      *)
(* client only writes; this one also reads.                                *)

NoRequest == enb' = FALSE /\ web' = FALSE /\ addrb' = 0 /\ dib' = 0

Client ==
    \/ /\ ~enb
       /\ \/ UNCHANGED client
          \/ enb' = TRUE /\ web' = FALSE /\ addrb' \in Addr /\ dib' = 0
          \/ enb' = TRUE /\ web' = TRUE /\ addrb' \in Addr /\ dib' \in Value
    \/ enb /\ dob_valid /\ NoRequest
    \/ enb /\ ~dob_valid /\ UNCHANGED client

-----------------------------------------------------------------------------
(* Clock and reset.  The reset lasts for one clock at least; the address   *)
(* input of port a and the client are reset with the table.                *)

Clock(ena, a) ==
    /\ rst_n = "high"
    /\ PortA(ena, a)
    /\ PortB
    /\ Client
    /\ UNCHANGED rst_n

\* The blocks that are sensitive to the falling edge.
DropLine ==
    /\ reg_a_1_flag' = FALSE
    /\ reg_addra_1' = 0
    /\ doa' = 0
    /\ doa_valid' = FALSE

ResetFalls ==
    /\ rst_n = "high"
    /\ rst_n' = "falling"
    /\ reg_a_1' = [reg_a_1 EXCEPT ![Reg1(reg_addra_2)] = 0]
    /\ DropLine
    /\ NoRequest
    /\ UNCHANGED <<ram, reg_a_2, reg_a_2_flag, reg_addra_2, portB>>

\* The other blocks wait for the clock.
ClockInReset ==
    /\ rst_n # "high"
    /\ rst_n' = "low"
    /\ ram' = Zero(Addr)
    /\ reg_a_1' = Zero(Regs1)
    /\ reg_a_2' = Zero(Regs2)
    /\ reg_a_2_flag' = FALSE
    /\ reg_addra_2' = 0
    /\ DropLine
    /\ Answer(0, FALSE)
    /\ reg_b_1' = Zero(Regs1)
    /\ reg_b_2' = Zero(Regs2)
    /\ current_state_b' = "idle"
    /\ UNCHANGED client

\* They are also sensitive to the rising edge, on which they take a step as on
\* a clock.
ResetRises ==
    /\ rst_n = "low"
    /\ rst_n' = "high"
    /\ ReadRam(FALSE, 0)
    /\ PortB
    /\ UNCHANGED <<reg_a_1, reg_a_1_flag, reg_addra_1, doa, doa_valid, client>>

\* The falling edge of the first reset has set the blocks that are sensitive to
\* it; the other registers hold anything.
Init ==
    /\ rst_n = "falling"
    /\ ram \in [Addr -> Value]
    /\ reg_a_2 \in [Regs2 -> Value] /\ reg_a_2_flag \in BOOLEAN /\ reg_addra_2 \in Addr
    /\ reg_a_1 \in [Regs1 -> Value] /\ reg_a_1_flag = FALSE /\ reg_addra_1 = 0
    /\ doa = 0 /\ doa_valid = FALSE
    /\ reg_b_2 \in [Regs2 -> Value] /\ reg_b_1 \in [Regs1 -> Value]
    /\ current_state_b \in States
    /\ dob \in Value /\ dob_valid \in BOOLEAN
    /\ enb = FALSE /\ web = FALSE /\ addrb = 0 /\ dib = 0

Next ==
    \/ \E a \in Addr : Clock(TRUE, a)
    \/ Clock(FALSE, 0)
    \/ ResetFalls
    \/ ClockInReset
    \/ ResetRises

Spec == Init /\ [][Next]_vars

\* The clock runs.
FairSpec ==
    Spec /\ WF_vars((\E a \in Addr : Clock(TRUE, a)) \/ Clock(FALSE, 0) \/ ClockInReset)

-----------------------------------------------------------------------------
(* Properties.                                                             *)

\* The types of the registers.
TypeOK ==
    /\ rst_n \in {"high", "falling", "low"}
    /\ ram \in [Addr -> Value]
    /\ reg_a_2 \in [Regs2 -> Value] /\ reg_a_2_flag \in BOOLEAN /\ reg_addra_2 \in Addr
    /\ reg_a_1 \in [Regs1 -> Value] /\ reg_a_1_flag \in BOOLEAN /\ reg_addra_1 \in Addr
    /\ doa \in Value /\ doa_valid \in BOOLEAN
    /\ reg_b_2 \in [Regs2 -> Value] /\ reg_b_1 \in [Regs1 -> Value]
    /\ current_state_b \in States
    /\ dob \in Value /\ dob_valid \in BOOLEAN
    /\ enb \in BOOLEAN /\ web \in BOOLEAN /\ addrb \in Addr /\ dib \in Value

\* When port b says that its answer is there, the request that it answers is
\* still there, and it has been carried out: a written cell holds the data, and
\* what was read is what the cell holds.
AnswersRequest ==
    /\ TypeOK
    /\ (rst_n = "high" /\ dob_valid) =>
        /\ enb
        /\ IF web THEN ram[addrb] = dib ELSE dob = ram[addrb]

\* A cell changes only to what the present request wants written there, or in a
\* reset: no request is carried out a second time on inputs that are gone.
WritesAsAsked ==
    [][rst_n = "high" => \A a \in Addr :
        ram'[a] # ram[a] => enb /\ web /\ a = addrb /\ ram'[a] = dib]_vars

\* A request of port b is answered, unless a reset takes it away.
RequestsAnswered == enb ~> (dob_valid \/ ~enb)

\* The table implements LookupTable: one look-up per clock, with the value that
\* the cell had in the clock of the look-up.
Table == INSTANCE LookupTable WITH
    up <- rst_n = "high",
    table <- ram,
    line <- [s \in 1 .. 3 |->
        IF rst_n # "high" THEN None
        ELSE CASE s = 1 -> IF reg_a_2_flag THEN reg_a_2[Reg2(reg_addra_2)] ELSE None
               [] s = 2 -> IF reg_a_1_flag THEN reg_a_1[Reg1(reg_addra_1)] ELSE None
               [] s = 3 -> IF doa_valid THEN doa ELSE None]

Refinement == Table!Spec
=============================================================================
