------------------------------- MODULE MCMphMap -------------------------------
(***************************************************************************)
(* Keys and hash functions of the run of MphMap: 0 is the default key, and *)
(* the last two keys share every hash.                                     *)
(***************************************************************************)
EXTENDS MphMap

MCKey == 0..3
Twin(k) == IF k = 3 THEN 2 ELSE k
MCHash == [k \in MCKey |-> Twin(k)]

\* All keys apart; a chain of keys; all in one vertex.
MCHashes ==
    {[k \in MCKey |-> <<Twin(k), 1, 2 - Twin(k)>>],
     [k \in MCKey |-> <<0, Twin(k) \div 2, (Twin(k) + 1) \div 2>>],
     [k \in MCKey |-> <<1, 1, 1>>]}

\* The hash functions offer a seed for all keys they can: no longer sequence of
\* keys is without a repetition.
ASSUME MCSeedsWork ==
    \A n \in 1..Cardinality(MCKey), sq \in BOOLEAN : \A keys \in [1..n -> MCKey] :
        IsInjective(keys) => SeedFound(keys, sq)
=============================================================================
