----------------------------- MODULE CmphFormat ------------------------------
(***************************************************************************)
(* How CMPH writes a function to a file or to a packed block of memory:    *)
(* hash states (cmph/src/hash.c) and integers and arrays as fields         *)
(* <<size in bytes, value>>.  A file is read back field by field.  A       *)
(* packed block is read at byte offsets, and an offset at which no field   *)
(* starts yields Garbage.                                                  *)
(*                                                                         *)
(* A hash state is the function from keys to the numbers it hashes them    *)
(* to: its seed, and with it every value, is drawn by hash_state_new.      *)
(***************************************************************************)
EXTENDS Integers, Sequences, FiniteSets, FiniteSetsExt, Functions

CONSTANT Log2   \* number of keys |-> its binary logarithm in thousandths

\* The logarithm of a number is below it.
ASSUME Log2Assumption ==
    \A n \in DOMAIN Log2 : n \in Nat \ {0} /\ Log2[n] \in 0..(1000 * (n - 1))

Garbage == "garbage"

\* The elements of T in the order Before, a set of pairs.
Ranked(T, Before) ==
    [n \in 1..Cardinality(T) |->
        CHOOSE x \in T : Cardinality({y \in T : <<y, x>> \in Before}) = n - 1]

\* A loop over numbers, and what a loop over a sequence picks out of it.
InOrder(T) == Ranked(T, {p \in T \X T : p[1] < p[2]})
Those(s, T) == LET at == InOrder(T) IN [i \in DOMAIN at |-> s[at[i]]]

power2[b \in 0..31] == IF b = 0 THEN 1 ELSE 2 * power2[b - 1]

U8(v)  == <<1, v>>
U32(v) == <<4, v>>
Array(w, f) == <<w * Cardinality(DOMAIN f), f>>

CeilDiv(a, b) == (a + b - 1) \div b
\* The smallest integer not below c * m, for c = <<numerator, denominator>>.
CeilMul(c, m) == CeilDiv(c[1] * m, c[2])

\* hash_state_dump: the length of the buffer, then "jenkins" with its zero
\* byte and the four bytes of the seed.
hash_state_dump(h) == <<U32(12), <<12, h>>>>
hash_state_load(f, i) == f[i + 1][2]

\* hash_state_pack writes the type (in the caller) and the seed.
hash_state_packed_size == 4
hash_state_pack(h) == <<U32("jenkins"), <<hash_state_packed_size, h>>>>

\* The bytes before field i, and the value of the field at an offset: a
\* field of no bytes comes before the one that starts where it does.
FieldStarts(f) ==
    LET start[i \in 1..(Len(f) + 1)] == IF i = 1 THEN 0 ELSE start[i - 1] + f[i - 1][1]
    IN  start
Offset(f, i) == FieldStarts(f)[i]
Size(f) == Offset(f, Len(f) + 1)
At(f, offset) ==
    IF \E i \in DOMAIN f : Offset(f, i) = offset
    THEN f[Min({i \in DOMAIN f : Offset(f, i) = offset})][2]
    ELSE Garbage
=============================================================================
