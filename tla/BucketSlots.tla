----------------------------- MODULE BucketSlots -----------------------------
(***************************************************************************)
(* The arrays and bitmaps that MapEmbed abstracts to sets: how collect_kv  *)
(* and check_bucket walk the slots of a bucket while they take entries     *)
(* out, and how shift_kvs_bitmap turns a bitmap of guides.  The invariants *)
(* say that they do what MapEmbed makes of them, in every bucket and for   *)
(* every order of its slots that the table can have.                       *)
(***************************************************************************)
EXTENDS MapEmbed, Sequences

\* The slots of bucket b that are in use, in every order.
Orders(b) ==
    LET n == Cardinality(b.items)
    IN  {s \in [1..n -> b.items] : \A i, j \in 1..n : s[i] = s[j] => i = j}

\* The entry moved into the gap is passed over.
wrong_TakeOut(slots, j) ==
    IF j = Len(slots) THEN [slots |-> SubSeq(slots, 1, j - 1), j |-> j + 1]
    ELSE [slots |-> [SubSeq(slots, 1, Len(slots) - 1) EXCEPT ![j] = slots[Len(slots)]],
          j |-> j + 1]

\* Entry j is taken out: the last one fills its place and is looked at next.
TakeOut(slots, j) ==
    IF j = Len(slots) THEN [slots |-> SubSeq(slots, 1, j - 1), j |-> j + 1]
    ELSE [slots |-> [SubSeq(slots, 1, Len(slots) - 1) EXCEPT ![j] = slots[Len(slots)]],
          j |-> j]

\* One round of the loop of collect_kv over the slots of a bucket: w has the
\* slots, the number of the one it looks at, and the pairs so far.
CollectRound(a, w) ==
    IF w.j > Len(w.slots) THEN w
    ELSE IF w.slots[w.j].at # a THEN [w EXCEPT !.j = @ + 1]
    ELSE LET rest == TakeOut(w.slots, w.j)
         IN  [slots |-> rest.slots, j |-> rest.j, kvs |-> Append(w.kvs, w.slots[w.j].kv)]

\* Each round takes an entry out or goes on to the next slot, so that there
\* are as many rounds as slots.
CollectLoop(slots, a) ==
    LET walk[n \in 0 .. Len(slots)] ==
            IF n = 0 THEN [slots |-> slots, j |-> 1, kvs |-> <<>>]
            ELSE CollectRound(a, walk[n - 1])
    IN  walk[Len(slots)]

\* One round of the loop of check_bucket: the last entry replaces one that is
\* no longer looked up in bucket d, be it that entry itself.
CheckRound(ps, d, w) ==
    LET used == Len(w.slots)
    IN  IF w.i > used THEN w
        ELSE IF query_bucket(cell, ps, KeyOf[w.slots[w.i].kv]) = d THEN [w EXCEPT !.i = @ + 1]
        ELSE [w EXCEPT !.slots = SubSeq([w.slots EXCEPT ![w.i] = w.slots[used]], 1, used - 1)]

CheckLoop(slots, ps, d) ==
    LET walk[n \in 0 .. Len(slots)] ==
            IF n = 0 THEN [slots |-> slots, i |-> 1] ELSE CheckRound(ps, d, walk[n - 1])
    IN  walk[Len(slots)].slots

SetOf(s) == {s[i] : i \in DOMAIN s}

-----------------------------------------------------------------------------
\* Bitmaps of guides are ints.  No guide shifted by a cell value leaves these
\* places, which are those of an int but its sign when cell_hash is 16.
Places == 0 .. 2 * cell_hash - 2

\* 1 << g
Power[g \in Places] == IF g = 0 THEN 1 ELSE 2 * Power[g - 1]

Bits(x) == {g \in Places : (x \div Power[g]) % 2 = 1}

\* The bitmaps of the guides of S below each number.
Sums(S) ==
    LET sum[i \in 0 .. cell_hash] ==
            IF i = 0 THEN 0 ELSE sum[i - 1] + (IF i - 1 \in S THEN Power[i - 1] ELSE 0)
    IN  sum

BitmapOf(S) == Sums(S)[cell_hash]

calculate_kvs_initial_bitmap(kvs) == BitmapOf({kvs_initial_guide(x) : x \in kvs})

\* The bits that leave at the top do not come back at the bottom.
wrong_ShiftedBits(bitmap, now_cell) == Bits((bitmap * Power[now_cell]) % Power[cell_hash])

ShiftedBits(bitmap, now_cell) ==
    LET shifted == bitmap * Power[now_cell]
        tmp == (shifted \div Power[cell_hash]) % Power[now_cell]
    IN  Bits(shifted % Power[cell_hash]) \cup Bits(tmp % Power[cell_hash])

-----------------------------------------------------------------------------
\* Whatever the order of the slots, the two loops take out each entry they
\* should, once, and no other, though they move entries into slots they have
\* passed: collect_kv(), MapEmbed.h:173-189, and check_bucket(), 296-311.
WalksTakeAll ==
    \A d \in DOMAIN bucket : \A slots \in Orders(bucket[d]) :
        /\ \A a \in Cell :
              LET walk == CollectLoop(slots, a)
              IN  /\ SetOf(walk.slots) = bucket[d].items \ AtCell(bucket[d], a)
                  /\ Len(walk.kvs) = Cardinality(AtCell(bucket[d], a))
                  /\ SetOf(walk.kvs) = {e.kv : e \in AtCell(bucket[d], a)}
        /\ LET kept == CheckLoop(slots, PageSize, d)
           IN  SetOf(kept) = check_bucket(cell, PageSize, d, [bucket[d] EXCEPT !.check = FALSE]).items

\* A bitmap of the pairs of a cell, turned by a cell value, holds the guides
\* of the pairs under that value: shift_kvs_bitmap(), MapEmbed.h:237-244,
\* against calculate_kvs_now_guide().
BitmapsTurn ==
    \A a \in Cell : \A v \in cell[a]..cell_full :
        LET kvs == collect_kv(bucket, PageSize, a)
        IN  ShiftedBits(calculate_kvs_initial_bitmap(kvs), v) = {kvs_now_guide(x, v) : x \in kvs}
=============================================================================
