---------------------------- MODULE MapEmbedDriver ----------------------------
(***************************************************************************)
(* basic_test() of CPU/MapEmbed/main.cpp on a table that keeps the promise *)
(* of HashStore: testcycles loads of a fresh table, a load of the table    *)
(* that is then queried, an expansion, and a load that goes on where the   *)
(* one before it stopped.                                                  *)
(*                                                                         *)
(* A pair is <<i, n>>: entry i of kvPairs[], whose key is i, inserted into *)
(* one table for the n-th time.                                            *)
(***************************************************************************)
EXTENDS Integers, Sequences, FiniteSets

CONSTANTS
    KV_NUM,         \* pairs in kvPairs[]; the entries behind them are zero
    testcycles,
    Limit,          \* insertion failures that end a load, 8
    NoKV            \* no pair

ASSUME DriverAssumption ==
    /\ KV_NUM \in Nat \ {0} /\ testcycles \in Nat \ {0} /\ Limit \in Nat \ {0}
    /\ NoKV \notin (0 .. KV_NUM - 1) \X {1, 2}

VARIABLES
    store, call, ok, reply,     \* the table
    phase,      \* which of the loops of basic_test() runs
    cycle,      \* its variable i, where it is one over testcycles
    p,          \* the pair to insert next
    i,          \* the pair to look up next
    awaiting,   \* insert(kvPairs[p]) was called and its result not looked at
    broken,     \* the load was left by its break
    fails, qfails,
    failed,     \* history: failures within the present load
    loads       \* history: failures of the loads that ended, and whether a
                \* break ended them

tableVars == <<store, call, ok, reply>>
driverVars == <<phase, cycle, p, i, awaiting, broken, fails, qfails, failed, loads>>
vars == <<tableVars, driverVars>>

KV == (0 .. KV_NUM - 1) \X {1, 2}
Key == 0 .. KV_NUM - 1
KeyOf == [x \in KV |-> x[1]]

Table == INSTANCE HashStore

\* The key of kvPairs[j].
KeyAt(j) == IF j < KV_NUM THEN j ELSE 0

Loads == {"cycle", "load", "reload"}
Loading == phase \in Loads /\ ~awaiting

\* The first insert after the expansion may repeat one before it.
Pair == <<p, IF <<p, 1>> \in store THEN 2 ELSE 1>>

\* The head of the loop and the call.
CallInsert ==
    /\ Loading /\ ~broken
    /\ p < KV_NUM
    /\ Table!Insert(Pair)
    /\ awaiting' = TRUE
    /\ UNCHANGED <<phase, cycle, p, i, broken, fails, qfails, failed, loads>>

\* Tries a pair that failed again.
wrong_InsertReturned ==
    /\ awaiting /\ call = NoKV
    /\ awaiting' = FALSE
    /\ p' = IF reply.ok THEN p + 1 ELSE p
    /\ UNCHANGED <<tableVars, phase, cycle, i, broken, fails, qfails, failed, loads>>

\* Ends a load one failure late.
wrong_Enough(n) == n > Limit
Enough(n) == n >= Limit

\* if(insert(...) == false) if(++fails >= 8) break;
InsertReturned ==
    /\ awaiting /\ call = NoKV
    /\ awaiting' = FALSE
    /\ \/ /\ reply.ok
          /\ p' = p + 1
          /\ UNCHANGED <<broken, fails, failed>>
       \/ /\ ~reply.ok
          /\ fails' = fails + 1
          /\ failed' = failed + 1
          /\ broken' = Enough(fails')
          /\ p' = IF broken' THEN p ELSE p + 1
    /\ UNCHANGED <<tableVars, phase, cycle, i, qfails, loads>>

\* What a load leaves to the one after it.
LoadEnds ==
    /\ Loading
    /\ broken \/ p = KV_NUM
    /\ loads' = Append(loads, [failed |-> failed, broken |-> broken])
    /\ failed' = 0
    /\ broken' = FALSE

\* The table of a cycle is its own, and the next load starts with an empty one.
CycleEnds ==
    /\ phase = "cycle"
    /\ LoadEnds
    /\ cycle' = (cycle + 1) % testcycles
    /\ phase' = IF cycle' = 0 THEN "load" ELSE "cycle"
    /\ p' = 0
    /\ store' = {}
    /\ UNCHANGED <<call, ok, reply, i, awaiting, fails, qfails>>

LoadStops ==
    /\ phase = "load"
    /\ LoadEnds
    /\ phase' = "query"
    /\ UNCHANGED <<tableVars, cycle, p, i, awaiting, fails, qfails>>

\* Stops before the last pair.
wrong_QueriesLeft == i < p

QueriesLeft == i <= p

LookUp ==
    /\ phase = "query"
    /\ QueriesLeft
    /\ Table!Query(KeyAt(i))
    /\ qfails' = IF reply'.kv = NoKV THEN qfails + 1 ELSE qfails
    /\ i' = i + 1
    /\ UNCHANGED <<phase, cycle, p, awaiting, broken, fails, failed, loads>>

QueriesEnd ==
    /\ phase = "query"
    /\ ~QueriesLeft
    /\ i' = 0
    /\ cycle' = (cycle + 1) % testcycles
    /\ phase' = IF cycle' = 0 THEN "expand" ELSE "query"
    /\ UNCHANGED <<tableVars, p, awaiting, broken, fails, qfails, failed, loads>>

\* Starts the pairs over.
wrong_Expand ==
    /\ phase = "expand"
    /\ fails' = 0
    /\ p' = 0
    /\ phase' = "reload"
    /\ UNCHANGED <<tableVars, cycle, i, awaiting, broken, qfails, failed, loads>>

\* extend() and the prints around it keep the pairs; what they print is not used.
Expand ==
    /\ phase = "expand"
    /\ fails' = 0
    /\ phase' = "reload"
    /\ UNCHANGED <<tableVars, cycle, p, i, awaiting, broken, qfails, failed, loads>>

ReloadEnds ==
    /\ phase = "reload"
    /\ LoadEnds
    /\ phase' = "done"
    /\ UNCHANGED <<tableVars, cycle, p, i, awaiting, fails, qfails>>

\* The steps of the table while an insert runs.
TableRuns ==
    /\ \/ \E x \in KV : Table!Lose(x)
       \/ Table!Return
    /\ UNCHANGED driverVars

Init ==
    /\ Table!Init
    /\ phase = "cycle" /\ cycle = 0
    /\ p = 0 /\ i = 0
    /\ awaiting = FALSE /\ broken = FALSE
    /\ fails = 0 /\ qfails = 0
    /\ failed = 0 /\ loads = <<>>

DriverStep ==
    \/ CallInsert \/ InsertReturned
    \/ CycleEnds \/ LoadStops \/ LookUp \/ QueriesEnd \/ Expand \/ ReloadEnds

Next == DriverStep \/ TableRuns

Spec == Init /\ [][Next]_vars

\* One thread runs the driver, and an insert returns (InsertReturns of
\* MapEmbed).
FairSpec == Spec /\ WF_vars(DriverStep) /\ WF_vars(Table!Return /\ UNCHANGED driverVars)

-----------------------------------------------------------------------------
(* Properties.                                                             *)

\* The types of the state.
TypeOK ==
    /\ store \subseteq KV /\ call \in KV \cup {NoKV} /\ ok \in BOOLEAN
    /\ phase \in Loads \cup {"query", "expand", "done"}
    /\ cycle \in 0 .. testcycles - 1
    /\ p \in 0 .. KV_NUM /\ i \in 0 .. KV_NUM + 1
    /\ awaiting \in BOOLEAN /\ broken \in BOOLEAN
    /\ fails \in Nat /\ qfails \in Nat /\ failed \in 0 .. fails

\* README.md: "until the 8th insertion failure happens".
StopsAtLimit(load) == load.broken <=> load.failed = Limit

\* The first load and the one after the expansion are left at the failure that
\* reaches the limit, and at no other.
ExpandedLoadToLimit ==
    \A j \in {1, testcycles + 2} \cap DOMAIN loads : StopsAtLimit(loads[j])

\* "qfails" counts, in each cycle over the pairs, at least one pair for each
\* insert that failed: no failure of the load goes unnoticed by the queries.
QueriesSeeLosses ==
    phase = "expand" => qfails >= testcycles * loads[testcycles + 1].failed

\* The load after the expansion repeats the pair that the one before it stopped
\* at, and no other: every other pair is stored once.
OnlyOneRepeated ==
    /\ TypeOK
    /\ Cardinality({q \in Key : {<<q, 1>>, <<q, 2>>} \subseteq store}) <= 1

\* The benchmark ends.
Ends == <>(phase = "done")
=============================================================================
