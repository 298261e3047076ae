------------------------------ MODULE Succinct -------------------------------
(***************************************************************************)
(* The compact tables behind the constructions chd_ph and chd of CMPH: a   *)
(* select structure (cmph/src/select.c), a sequence of integers stored in  *)
(* as few bits as they need (compressed_seq.c) and the rank of a number    *)
(* among increasing ones (compressed_rank.c).  Tables are indexed from 0.  *)
(*                                                                         *)
(* A bit vector is the set of the positions of its ones; that it is kept   *)
(* in 32-bit words shows in its size only.                                 *)
(***************************************************************************)
EXTENDS CmphFormat

CONSTANT STEP_SELECT_TABLE   \* every how many ones the position is tabled

ASSUME StepAssumption == STEP_SELECT_TABLE \in Nat \ {0}

\* The bits when an array was read where it has no entry: anything.
Outside == {-1}

Words(nbits) == 4 * CeilDiv(nbits, 32)
BitVector(nbits, ones) == <<Words(nbits), ones>>

\* compressed_seq_i_log2 and compressed_rank_i_log2: 0 for 0 and 1.
i_log2(x) == Cardinality({r \in 1..30 : power2[r] <= x})
AtLeastOne(r) == IF r = 0 THEN 1 ELSE r

\* set_bits_value and set_bits_at_pos on a cleared table, get_bits_value and
\* get_bits_at_pos: a string of len bits whose first is bit pos.
BitsOf(v, len, pos) == {pos + b : b \in {b \in 0..(len - 1) : (v \div power2[b]) % 2 = 1}}
get_bits_at_pos(ones, pos, len) ==
    SumFunction([b \in {b \in 0..(len - 1) : pos + b \in ones} |-> power2[b]])

-----------------------------------------------------------------------------
\* keys_vec[j] zeros precede one number j; i counts the zeros written and j
\* the ones.  With n = 0 the loop reads an entry that is not there.
NextBit(keys_vec, n, m, s) ==
    CASE s.done -> s
      [] ~s.done /\ s.j \notin DOMAIN keys_vec -> [s EXCEPT !.ones = Outside, !.done = TRUE]
      [] ~s.done /\ s.j \in DOMAIN keys_vec /\ keys_vec[s.j] = s.i ->
            [s EXCEPT !.ones = @ \cup {s.i + s.j}, !.j = @ + 1, !.done = s.j + 1 = n]
      [] OTHER -> [s EXCEPT !.i = @ + 1, !.done = s.i = m]
Bits(keys_vec, n, m) ==
    LET bits[b \in 0..(n + m + 1)] ==
            IF b = 0 THEN [i |-> 0, j |-> 0, ones |-> {}, done |-> FALSE]
            ELSE NextBit(keys_vec, n, m, bits[b - 1])
    IN  bits

\* The k-th one, from 0, at or after position start.
OneFrom(ones, start, k) ==
    CHOOSE p \in ones : p >= start /\ Cardinality({q \in ones : start <= q /\ q < p}) = k

\* select_table holds the position of every STEP_SELECT_TABLE-th one.
select_generate_sel_table(ones, n) ==
    [t \in 0..(n \div STEP_SELECT_TABLE) |->
        IF t * STEP_SELECT_TABLE < n THEN OneFrom(ones, 0, t * STEP_SELECT_TABLE) ELSE 0]

select_generate(keys_vec, n, m) ==
    LET ones == Bits(keys_vec, n, m)[n + m + 1].ones
    IN  [n |-> n, m |-> m, ones |-> ones, select_table |-> select_generate_sel_table(ones, n)]

select_query(sel, k) ==
    OneFrom(sel.ones, sel.select_table[k \div STEP_SELECT_TABLE], k % STEP_SELECT_TABLE)
select_next_query(sel, p) == OneFrom(sel.ones, p, 1)

select_dump(sel) ==
    <<U32(sel.n), U32(sel.m), BitVector(sel.n + sel.m, sel.ones), Array(4, sel.select_table)>>
select_packed_size(sel) ==
    2 * 4 + Words(sel.n + sel.m) + 4 * (sel.n \div STEP_SELECT_TABLE + 1)

\* select_load, and what select_query_packed works on: offset is where the
\* structure starts.
select_load(p, offset) ==
    LET n == At(p, offset)
        m == At(p, offset + 4)
    IN  [n |-> n, m |-> m, ones |-> At(p, offset + 8),
         select_table |-> At(p, offset + 8 + Words(n + m))]

-----------------------------------------------------------------------------
(***************************************************************************)
(* compressed_seq: value v takes log2(v + 1) bits, and none when it is 0.  *)
(* Where the values end is kept as a quotient, in the select structure,    *)
(* and a remainder of rem_r bits.                                          *)
(***************************************************************************)
compressed_seq_generate(vals, n) ==
    LET length == [i \in 0..(n - 1) |-> IF vals[i] = 0 THEN 0 ELSE i_log2(vals[i] + 1)]
        end == [i \in 0..(n - 1) |-> SumFunction([j \in 0..i |-> length[j]])]
        r == AtLeastOne(i_log2(end[n - 1] \div n))
    IN  [n |-> n, rem_r |-> r, total_length |-> end[n - 1],
         sel |-> select_generate([i \in 0..(n - 1) |-> end[i] \div power2[r]], n, end[n - 1] \div power2[r]),
         length_rems |-> UNION {BitsOf(end[i] % power2[r], r, i * r) : i \in 0..(n - 1)},
         store_table |-> UNION {BitsOf(vals[i] - (power2[length[i]] - 1), length[i], end[i] - length[i]) :
                                i \in 0..(n - 1)}]

compressed_seq_query(cs, idx) ==
    LET sel_prev == select_query(cs.sel, idx - 1)
        sel_res == IF idx = 0 THEN select_query(cs.sel, 0) ELSE select_next_query(cs.sel, sel_prev)
        rem(i) == get_bits_at_pos(cs.length_rems, i * cs.rem_r, cs.rem_r)
        enc_idx == IF idx = 0 THEN 0 ELSE (sel_prev - (idx - 1)) * power2[cs.rem_r] + rem(idx - 1)
        enc_length == (sel_res - idx) * power2[cs.rem_r] + rem(idx) - enc_idx
    IN  IF enc_length = 0 THEN 0
        ELSE get_bits_at_pos(cs.store_table, enc_idx, enc_length) + power2[enc_length] - 1

compressed_seq_dump(cs) ==
    <<U32(cs.n), U32(cs.rem_r), U32(cs.total_length), U32(Size(select_dump(cs.sel)))>>
    \o select_dump(cs.sel)
    \o <<BitVector(cs.n * cs.rem_r, cs.length_rems), BitVector(cs.total_length, cs.store_table)>>

compressed_seq_packed_size(cs) ==
    4 * 4 + select_packed_size(cs.sel) + Words(cs.total_length) + Words(cs.n * cs.rem_r)

\* compressed_seq_load, and what compressed_seq_query_packed unpacks.
compressed_seq_load(p, offset) ==
    LET n == At(p, offset)
        rem_r == At(p, offset + 4)
        sel == offset + 16
        length_rems == sel + At(p, offset + 12)
    IN  [n |-> n, rem_r |-> rem_r, total_length |-> At(p, offset + 8),
         sel |-> select_load(p, sel), length_rems |-> At(p, length_rems),
         store_table |-> At(p, length_rems + Words(n * rem_r))]

-----------------------------------------------------------------------------
(***************************************************************************)
(* compressed_rank: vals is increasing.  The select structure finds, for   *)
(* every quotient, the first value with that quotient or a larger one.     *)
(***************************************************************************)
compressed_rank_generate(vals, n) ==
    LET max_val == vals[n - 1]
        r == AtLeastOne(i_log2(max_val \div n))
        quotients == max_val \div power2[r]
        First(i) == CHOOSE j \in DOMAIN vals :
                        vals[j] \div power2[r] >= i /\ \A l \in 0..(j - 1) : vals[l] \div power2[r] < i
    IN  [max_val |-> max_val, n |-> n, rem_r |-> r,
         sel |-> select_generate([i \in 0..(quotients - 1) |-> First(i + 1)], quotients, n),
         vals_rems |-> UNION {BitsOf(vals[i] % power2[r], r, i * r) : i \in DOMAIN vals}]

\* How many values below idx there are among those of its quotient, whose
\* first is value number rank and belongs to bit number bit.
RankFrom(cr, val_rem, bit, rank) ==
    LET Last(t) == bit + t \in cr.sel.ones
                   \/ get_bits_at_pos(cr.vals_rems, (rank + t) * cr.rem_r, cr.rem_r) >= val_rem
    IN  rank + CHOOSE t \in 0..(cr.sel.n + cr.sel.m) : Last(t) /\ \A u \in 0..(t - 1) : ~Last(u)

compressed_rank_query(cr, idx) ==
    LET quotient == idx \div power2[cr.rem_r]
        start == IF quotient = 0 THEN 0 ELSE select_query(cr.sel, quotient - 1) + 1
    IN  IF idx > cr.max_val THEN cr.n
        ELSE RankFrom(cr, idx % power2[cr.rem_r], start, start - quotient)

compressed_rank_dump(cr) ==
    <<U32(cr.max_val), U32(cr.n), U32(cr.rem_r), U32(Size(select_dump(cr.sel)))>>
    \o select_dump(cr.sel) \o <<BitVector(cr.n * cr.rem_r, cr.vals_rems)>>

compressed_rank_packed_size(cr) ==
    4 * 4 + select_packed_size(cr.sel) + Words(cr.n * cr.rem_r)

\* What compressed_rank_query_packed unpacks.
compressed_rank_load(p, offset) ==
    [max_val |-> At(p, offset), n |-> At(p, offset + 4), rem_r |-> At(p, offset + 8),
     sel |-> select_load(p, offset + 16), vals_rems |-> At(p, offset + 16 + At(p, offset + 12))]
=============================================================================
