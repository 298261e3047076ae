-------------------------------- MODULE MCBrz ---------------------------------
(***************************************************************************)
(* The key sources of the run of Brz: a key is a number and its length is  *)
(* given by a sequence; hash functions are given by the values they have.  *)
(***************************************************************************)
EXTENDS Brz

Number(n) == [i \in 1..n |-> i]
Same(n, v) == [i \in 1..n |-> v]

\* Binary logarithms in thousandths.
MCLog2 == <<0, 1000, 1585, 2000, 2322, 2585, 2807, 3000>>

\* Pairs of hash functions that work for some buckets and not for others.
Draws(n) ==
    {<<[i \in 1..n |-> i], [i \in 1..n |-> i + 1]>>,
     <<[i \in 1..n |-> i \div 2], [i \in 1..n |-> i \div 2]>>,
     <<Same(n, 0), Same(n, 1)>>}

Source(cc, b, memory, len, h0s, draws) ==
    [c |-> cc, b |-> b, memory |-> memory, keys |-> Number(Len(len)), len |-> len,
     h0s |-> h0s, draws |-> draws]

\* A triangle and a fourth edge, of keys 1 to 4 and of keys 5 to 8.
Triangle == {<<<<0, 1, 2, 2, 0, 1, 2, 2>>, <<1, 2, 0, 3, 1, 2, 0, 3>>>>}

\* "fch" fills its buffer to the last byte; "files", "many" and "mixed" make
\* two to four temporary files, "exact" one that ends with its buffer;
\* "twice": a key occurs twice; "wide": c times a size does not fit a byte;
\* "whole": c is 1; "huge": a key larger than the buffer.
MCSources ==
    [s \in {"fch", "fch files", "fch many", "fch mixed", "fch exact", "fch twice", "bmz8",
            "bmz8 wide", "bmz8 whole", "huge"} |->
     CASE s = "fch"       -> Source(<<3, 1>>, 2, 20, Same(4, 1), [1..4 -> {0, 1}], Draws(4))
       [] s = "fch files" -> Source(<<3, 1>>, 2, 19, Same(4, 1), [1..4 -> {0, 1}], Draws(4))
       [] s = "fch many"  -> Source(<<3, 1>>, 2, 17, Same(4, 5), [1..4 -> {0, 1}], Draws(4))
       [] s = "fch mixed" -> Source(<<2, 1>>, 2, 22, <<3, 5, 3, 5>>, [1..4 -> {0, 1}], Draws(4))
       [] s = "fch exact" -> Source(<<3, 1>>, 3, 19, Same(5, 1), {<<0, 1, 0, 1, 1>>}, Draws(5))
       [] s = "fch twice" -> [Source(<<3, 1>>, 2, 100, Same(2, 1), [1..2 -> {0, 1}], Draws(2))
                                 EXCEPT !.keys = <<1, 2, 1>>]
       [] s = "bmz8"      -> Source(<<3, 2>>, 2, 100, Same(4, 1), [1..4 -> {0, 1}], Draws(4))
       [] s = "bmz8 wide" -> Source(<<19, 10>>, 4, 19, Same(5, 1), [1..5 -> {0, 1}], Draws(5))
       [] s = "bmz8 whole" ->
             Source(<<0, 1>>, 4, 100, Same(8, 1),
                    {<<0, 0, 0, 0, 1, 1, 1, 1>>, <<1, 0, 0, 0, 1, 1, 1, 0>>}, Triangle)
       [] s = "huge" -> Source(<<3, 1>>, 2, 8, <<1, 5>>, [1..2 -> {0}], Draws(2))]
=============================================================================
