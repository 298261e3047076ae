------------------------------ MODULE HashStore ------------------------------
(***************************************************************************)
(* What a MapEmbed table promises its caller, without buckets or cells: a  *)
(* set of stored pairs that only an insert adds to, that loses a pair only *)
(* during an insert that goes on to return false, and whose queries answer *)
(* exactly from that set.  MapEmbed is shown to implement it.              *)
(***************************************************************************)
EXTENDS Naturals, FiniteSets

CONSTANTS
    KV,      \* the key-value pairs the client inserts
    Key,     \* their keys
    KeyOf,   \* the key of each pair
    NoKV     \* "no pair": no insert is running, or a query found nothing

VARIABLES
    store,   \* the pairs the table holds, those on the move included
    call,    \* the pair whose insert is running, or NoKV
    ok,      \* what that insert is going to return
    reply    \* what the last call that returned answered

absVars == <<store, call, ok, reply>>

NoReply == [op |-> "none"]
InsertReply(x, b) == [op |-> "insert", kv |-> x, ok |-> b]
QueryReply(q, x) == [op |-> "query", key |-> q, kv |-> x]
CountReplies == [op : {"count"}, n : Nat]

Stored(q) == {x \in store : KeyOf[x] = q}

Init ==
    /\ store = {}
    /\ call = NoKV
    /\ ok = TRUE
    /\ reply = NoReply

Insert(x) ==
    /\ call = NoKV
    /\ call' = x
    /\ ok' = TRUE
    /\ reply' = NoReply
    /\ store' = store \cup {x}

\* An insert may find no place for a pair, not necessarily its own.
Lose(x) ==
    /\ call # NoKV
    /\ x \in store
    /\ ok' = FALSE
    /\ UNCHANGED <<call, reply>>
    /\ store' = store \ {x}

Return ==
    /\ call # NoKV
    /\ call' = NoKV
    /\ reply' = InsertReply(call, ok)
    /\ UNCHANGED <<store, ok>>

Query(q) ==
    /\ call = NoKV
    /\ \/ \E x \in KV : reply' = QueryReply(q, x) /\ x \in Stored(q)
       \/ reply' = QueryReply(q, NoKV) /\ Stored(q) = {}
    /\ UNCHANGED <<store, call, ok>>

\* The number of slots in use: a pair may be left in a second slot.
Count ==
    /\ call = NoKV
    /\ reply' \in CountReplies
    /\ reply'.n >= Cardinality(store)
    /\ UNCHANGED <<store, call, ok>>

Next ==
    \/ \E x \in KV : Insert(x) \/ Lose(x)
    \/ Return
    \/ \E q \in Key : Query(q)
    \/ Count

Spec == Init /\ [][Next]_absVars
=============================================================================
