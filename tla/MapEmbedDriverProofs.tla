------------------------ MODULE MapEmbedDriverProofs ------------------------
(***************************************************************************)
(* Proofs about MapEmbedDriver, for any number of pairs and of cycles and  *)
(* any limit on the failures of a load.                                    *)
(***************************************************************************)
EXTENDS MapEmbedDriver, FiniteSetTheorems, TLAPS

Load == [failed : Nat, broken : BOOLEAN]

\* The loads that ended are those of the loops before the one that runs, and
\* the variables of a loop are at rest outside it.
Course ==
    /\ loads \in Seq(Load)
    /\ phase = "cycle" => Len(loads) = cycle
    /\ phase = "load" => Len(loads) = testcycles /\ cycle = 0
    /\ phase \in {"query", "expand", "reload"} => Len(loads) = testcycles + 1
    /\ phase = "done" => Len(loads) = testcycles + 2
    /\ phase \notin Loads => failed = 0 /\ ~broken /\ ~awaiting
    /\ phase \in {"cycle", "load"} => i = 0
    /\ awaiting => ~broken /\ p < KV_NUM
    /\ call # NoKV => awaiting
    /\ awaiting /\ call = NoKV => reply.ok \in BOOLEAN

\* In the first load and the one after the expansion `fails' started at 0.
FromZero == loads = <<>> \/ phase = "reload"

Stops ==
    /\ ExpandedLoadToLimit
    /\ FromZero => failed = fails /\ failed <= Limit /\ (broken <=> failed = Limit)

\* Second copies of pairs appear only after the expansion, and only for the
\* pair that the load before it stopped at: the pairs behind p are not stored.
Repeats ==
    /\ \A x \in store : x[1] <= p
    /\ phase \in {"cycle", "load"} /\ ~awaiting /\ ~broken => \A x \in store : x[1] < p
    /\ phase \notin {"reload", "done"} => \A q \in Key : <<q, 2>> \notin store
    /\ phase = "reload" /\ ~awaiting /\ ~broken /\ (\E x \in store : x[1] = p)
            => \A q \in Key : <<q, 2>> \notin store
    /\ \A q1, q2 \in Key : <<q1, 2>> \in store /\ <<q2, 2>> \in store => q1 = q2

\* The keys whose insert was called in the present load and that the table
\* does not have.
Gone == {q \in Key : /\ q < p \/ (q = p /\ (awaiting \/ broken))
                     /\ <<q, 1>> \notin store}

\* The running insert is going to return false, or has returned it.
LosesNow == awaiting /\ IF call = NoKV THEN ~reply.ok ELSE ~ok

\* The keys that the queries go over and the table does not have.
Unstored == {q \in Key : q <= p /\ <<q, 1>> \notin store}
LookedUp == {q \in Unstored : q < i}
LoadFailed == loads[testcycles + 1].failed

Losses ==
    /\ phase \in {"cycle", "load"} =>
            Cardinality(Gone) >= failed + (IF LosesNow THEN 1 ELSE 0)
    /\ phase = "query" =>
            /\ Cardinality(Unstored) >= LoadFailed
            /\ qfails >= cycle * LoadFailed + Cardinality(LookedUp)
    /\ QueriesSeeLosses

IInv == TypeOK /\ Course /\ Stops /\ Repeats /\ Losses

-----------------------------------------------------------------------------
(* Types, and the course of the loops.                                     *)

\* cycle + 1 wraps to 0 at the last cycle.
LEMMA NextCycle ==
    ASSUME NEW n \in Nat \ {0}, NEW c \in 0 .. n - 1
    PROVE  (c + 1) % n = IF c + 1 = n THEN 0 ELSE c + 1
OBVIOUS

\* A load that ends is appended to the loads.
LEMMA LoadsGrow ==
    ASSUME TypeOK, Course, LoadEnds
    PROVE  /\ loads' \in Seq(Load)
           /\ Len(loads') = Len(loads) + 1
           /\ \A j \in DOMAIN loads : loads'[j] = loads[j]
           /\ loads'[Len(loads')] = [failed |-> failed, broken |-> broken]
           /\ DOMAIN loads = 1 .. Len(loads) /\ DOMAIN loads' = 1 .. Len(loads')
           /\ Len(loads) \in Nat
           /\ phase \in Loads /\ ~awaiting /\ (broken \/ p = KV_NUM)
           /\ failed' = 0 /\ broken' = FALSE
<1>1. /\ loads \in Seq(Load)
      /\ [failed |-> failed, broken |-> broken] \in Load
      /\ loads' = Append(loads, [failed |-> failed, broken |-> broken])
  BY DEF TypeOK, Course, LoadEnds, Load
<1> QED
  BY <1>1 DEF LoadEnds, Loading

\* The types of the state, and the loops in their order.
LEMMA CourseStep ==
    ASSUME TypeOK, Course, [Next]_vars
    PROVE  TypeOK' /\ Course'
<1> USE DriverAssumption
<1>1. CASE CallInsert
  <2>1. Pair \in KV
    BY <1>1 DEF CallInsert, Pair, KV, TypeOK
  <2>2. /\ p < KV_NUM /\ awaiting' = TRUE /\ ~broken /\ phase \in Loads
        /\ store' = store \cup {Pair} /\ call' = Pair /\ ok' = TRUE
        /\ UNCHANGED <<phase, cycle, p, i, broken, fails, qfails, failed, loads>>
    BY <1>1 DEF CallInsert, Loading, Table!Insert
  <2>3. call' # NoKV
    BY <2>1, <2>2 DEF KV
  <2> QED
    BY <2>1, <2>2, <2>3 DEF TypeOK, Course, Loads
<1>2. CASE InsertReturned
  <2>1. /\ awaiting /\ call = NoKV /\ awaiting' = FALSE /\ ~broken /\ p < KV_NUM
        /\ UNCHANGED <<tableVars, phase, cycle, i, qfails, loads>>
    BY <1>2 DEF InsertReturned, Course
  <2>2. CASE reply.ok /\ p' = p + 1 /\ UNCHANGED <<broken, fails, failed>>
    <3>1. (store \subseteq KV /\ call \in KV \cup {NoKV} /\ ok \in BOOLEAN)'
      BY <2>1, <2>2 DEF tableVars, TypeOK
    <3>2. (phase \in Loads \cup {"query", "expand", "done"} /\ cycle \in 0 .. testcycles - 1)'
      BY <2>1, <2>2 DEF TypeOK, Loads
    <3>3. (p \in 0 .. KV_NUM /\ i \in 0 .. KV_NUM + 1)'
      BY <2>1, <2>2 DEF TypeOK
    <3>4. (awaiting \in BOOLEAN /\ broken \in BOOLEAN)'
      BY <2>1, <2>2 DEF TypeOK
    <3>5. (fails \in Nat /\ qfails \in Nat /\ failed \in 0 .. fails)'
      BY <2>1, <2>2 DEF TypeOK
    <3>6. TypeOK'
      BY <3>1, <3>2, <3>3, <3>4, <3>5 DEF TypeOK
    <3>7. Course'
      BY <2>1, <2>2 DEF tableVars, Course, Loads, TypeOK
    <3> QED
      BY <3>6, <3>7
  <2>3. CASE /\ fails' = fails + 1 /\ failed' = failed + 1
             /\ broken' \in BOOLEAN /\ (p' = p \/ p' = p + 1)
    <3>1. (store \subseteq KV /\ call \in KV \cup {NoKV} /\ ok \in BOOLEAN)'
      BY <2>1, <2>3 DEF tableVars, TypeOK
    <3>2. (phase \in Loads \cup {"query", "expand", "done"} /\ cycle \in 0 .. testcycles - 1)'
      BY <2>1, <2>3 DEF TypeOK, Loads
    <3>3. (p \in 0 .. KV_NUM /\ i \in 0 .. KV_NUM + 1)'
      BY <2>1, <2>3 DEF TypeOK
    <3>4. (awaiting \in BOOLEAN /\ broken \in BOOLEAN)'
      BY <2>1, <2>3 DEF TypeOK
    <3>5. (fails \in Nat /\ qfails \in Nat /\ failed \in 0 .. fails)'
      BY <2>1, <2>3 DEF TypeOK
    <3>6. TypeOK'
      BY <3>1, <3>2, <3>3, <3>4, <3>5 DEF TypeOK
    <3>7. Course'
      BY <2>1, <2>3 DEF tableVars, Course, Loads, TypeOK
    <3> QED
      BY <3>6, <3>7
  <2>4. \/ reply.ok /\ p' = p + 1 /\ UNCHANGED <<broken, fails, failed>>
        \/ /\ fails' = fails + 1 /\ failed' = failed + 1
           /\ (broken' = Enough(fails')) /\ (p' = p \/ p' = p + 1)
    BY <1>2 DEF InsertReturned
  <2>5. (broken' = Enough(fails')) => broken' \in BOOLEAN
    BY DEF Enough
  <2> QED
    BY <2>2, <2>3, <2>4, <2>5
<1>3. CASE CycleEnds
  <2>1. cycle' = IF cycle + 1 = testcycles THEN 0 ELSE cycle + 1
    BY <1>3, NextCycle DEF CycleEnds, TypeOK
  <2>2. /\ loads' \in Seq(Load) /\ Len(loads') = Len(loads) + 1 /\ Len(loads) \in Nat
        /\ ~awaiting /\ failed' = 0 /\ broken' = FALSE
    BY <1>3, LoadsGrow DEF CycleEnds
  <2>3. /\ phase = "cycle" /\ phase' = (IF cycle' = 0 THEN "load" ELSE "cycle")
        /\ p' = 0 /\ store' = {} /\ UNCHANGED <<call, ok, reply, i, awaiting, fails, qfails>>
    BY <1>3 DEF CycleEnds
  <2> QED
    <3>1. (store \subseteq KV /\ call \in KV \cup {NoKV} /\ ok \in BOOLEAN)'
      BY <2>1, <2>2, <2>3 DEF tableVars, TypeOK
    <3>2. (phase \in Loads \cup {"query", "expand", "done"} /\ cycle \in 0 .. testcycles - 1)'
      BY <2>1, <2>2, <2>3 DEF TypeOK, Loads
    <3>3. (p \in 0 .. KV_NUM /\ i \in 0 .. KV_NUM + 1)'
      BY <2>1, <2>2, <2>3 DEF TypeOK
    <3>4. (awaiting \in BOOLEAN /\ broken \in BOOLEAN)'
      BY <2>1, <2>2, <2>3 DEF TypeOK
    <3>5. (fails \in Nat /\ qfails \in Nat /\ failed \in 0 .. fails)'
      BY <2>1, <2>2, <2>3 DEF TypeOK
    <3>6. TypeOK'
      BY <3>1, <3>2, <3>3, <3>4, <3>5 DEF TypeOK
    <3>7. Course'
      BY <2>1, <2>2, <2>3 DEF tableVars, Course, Loads, TypeOK
    <3> QED
      BY <3>6, <3>7
<1>4. CASE LoadStops
  <2>1. /\ loads' \in Seq(Load) /\ Len(loads') = Len(loads) + 1 /\ Len(loads) \in Nat
        /\ ~awaiting /\ failed' = 0 /\ broken' = FALSE
    BY <1>4, LoadsGrow DEF LoadStops
  <2>2. /\ phase = "load" /\ phase' = "query"
        /\ UNCHANGED <<tableVars, cycle, p, i, awaiting, fails, qfails>>
    BY <1>4 DEF LoadStops
  <2> QED
    <3>1. (store \subseteq KV /\ call \in KV \cup {NoKV} /\ ok \in BOOLEAN)'
      BY <2>1, <2>2 DEF tableVars, TypeOK
    <3>2. (phase \in Loads \cup {"query", "expand", "done"} /\ cycle \in 0 .. testcycles - 1)'
      BY <2>1, <2>2 DEF TypeOK, Loads
    <3>3. (p \in 0 .. KV_NUM /\ i \in 0 .. KV_NUM + 1)'
      BY <2>1, <2>2 DEF TypeOK
    <3>4. (awaiting \in BOOLEAN /\ broken \in BOOLEAN)'
      BY <2>1, <2>2 DEF TypeOK
    <3>5. (fails \in Nat /\ qfails \in Nat /\ failed \in 0 .. fails)'
      BY <2>1, <2>2 DEF TypeOK
    <3>6. TypeOK'
      BY <3>1, <3>2, <3>3, <3>4, <3>5 DEF TypeOK
    <3>7. Course'
      BY <2>1, <2>2 DEF tableVars, Course, Loads, TypeOK
    <3> QED
      BY <3>6, <3>7
<1>5. CASE LookUp
  <2>1. /\ UNCHANGED <<store, call, ok>> /\ call = NoKV
        /\ i <= p /\ i' = i + 1 /\ phase = "query"
        /\ UNCHANGED <<phase, cycle, p, awaiting, broken, fails, failed, loads>>
        /\ (qfails' = qfails \/ qfails' = qfails + 1)
    BY <1>5 DEF LookUp, QueriesLeft, Table!Query
  <2> QED
    BY <2>1 DEF TypeOK, Course, Loads
<1>6. CASE QueriesEnd
  <2>1. cycle' = IF cycle + 1 = testcycles THEN 0 ELSE cycle + 1
    BY <1>6, NextCycle DEF QueriesEnd, TypeOK
  <2> QED
    BY <1>6, <2>1 DEF QueriesEnd, tableVars, TypeOK, Course, Loads
<1>7. CASE Expand
  BY <1>7 DEF Expand, tableVars, TypeOK, Course, Loads
<1>8. CASE ReloadEnds
  <2>1. /\ loads' \in Seq(Load) /\ Len(loads') = Len(loads) + 1 /\ Len(loads) \in Nat
        /\ ~awaiting /\ failed' = 0 /\ broken' = FALSE
    BY <1>8, LoadsGrow DEF ReloadEnds
  <2>2. /\ phase = "reload" /\ phase' = "done"
        /\ UNCHANGED <<tableVars, cycle, p, i, awaiting, fails, qfails>>
    BY <1>8 DEF ReloadEnds
  <2> QED
    <3>1. (store \subseteq KV /\ call \in KV \cup {NoKV} /\ ok \in BOOLEAN)'
      BY <2>1, <2>2 DEF tableVars, TypeOK
    <3>2. (phase \in Loads \cup {"query", "expand", "done"} /\ cycle \in 0 .. testcycles - 1)'
      BY <2>1, <2>2 DEF TypeOK, Loads
    <3>3. (p \in 0 .. KV_NUM /\ i \in 0 .. KV_NUM + 1)'
      BY <2>1, <2>2 DEF TypeOK
    <3>4. (awaiting \in BOOLEAN /\ broken \in BOOLEAN)'
      BY <2>1, <2>2 DEF TypeOK
    <3>5. (fails \in Nat /\ qfails \in Nat /\ failed \in 0 .. fails)'
      BY <2>1, <2>2 DEF TypeOK
    <3>6. TypeOK'
      BY <3>1, <3>2, <3>3, <3>4, <3>5 DEF TypeOK
    <3>7. Course'
      BY <2>1, <2>2 DEF tableVars, Course, Loads, TypeOK
    <3> QED
      BY <3>6, <3>7
<1>9. ASSUME NEW x \in KV, Table!Lose(x), UNCHANGED driverVars PROVE TypeOK' /\ Course'
  BY <1>9 DEF Table!Lose, driverVars, TypeOK, Course
<1>10. CASE Table!Return /\ UNCHANGED driverVars
  <2>1. /\ call # NoKV /\ call' = NoKV /\ reply'.ok = ok
        /\ UNCHANGED <<store, ok>> /\ UNCHANGED driverVars
    BY <1>10 DEF Table!Return, Table!InsertReply
  <2> QED
    BY <2>1 DEF driverVars, TypeOK, Course
<1>11. CASE UNCHANGED vars
  BY <1>11 DEF vars, tableVars, driverVars, TypeOK, Course
<1> QED
  BY <1>1, <1>2, <1>3, <1>4, <1>5, <1>6, <1>7, <1>8, <1>9, <1>10, <1>11
     DEF Next, DriverStep, TableRuns

-----------------------------------------------------------------------------
(* The limit on the failures of a load.                                    *)

\* A load that ends as Stops says of the load that runs, or one that is not
\* among those of ExpandedLoadToLimit.
LEMMA LoadEndsAtLimit ==
    ASSUME TypeOK, Course, Stops, LoadEnds,
           Len(loads) + 1 \in {1, testcycles + 2} => FromZero
    PROVE  ExpandedLoadToLimit'
<1> SUFFICES ASSUME NEW j \in {1, testcycles + 2}, j \in DOMAIN loads'
             PROVE  StopsAtLimit(loads'[j])
  BY DEF ExpandedLoadToLimit
<1>1. /\ Len(loads') = Len(loads) + 1 /\ Len(loads) \in Nat
      /\ \A k \in DOMAIN loads : loads'[k] = loads[k]
      /\ loads'[Len(loads')] = [failed |-> failed, broken |-> broken]
      /\ DOMAIN loads = 1 .. Len(loads) /\ DOMAIN loads' = 1 .. Len(loads')
  BY LoadsGrow
<1>2. CASE j \in DOMAIN loads
  <2>1. StopsAtLimit(loads[j])
    BY <1>2 DEF Stops, ExpandedLoadToLimit
  <2> QED
    BY <1>1, <1>2, <2>1
<1>3. CASE j \notin DOMAIN loads
  <2>1. j = Len(loads')
    BY <1>1, <1>3
  <2>2. broken <=> failed = Limit
    BY <1>1, <2>1 DEF Stops
  <2>3. loads'[j].broken = broken /\ loads'[j].failed = failed
    BY <1>1, <2>1
  <2> QED
    BY <2>2, <2>3 DEF StopsAtLimit
<1> QED
  BY <1>2, <1>3

\* Steps that leave the loads and the counts of failures alone.
LEMMA StopsKept ==
    ASSUME Stops, UNCHANGED <<loads, failed, fails, broken>>,
           phase' = phase \/ phase' # "reload"
    PROVE  Stops'
BY DEF Stops, FromZero, ExpandedLoadToLimit

\* A load with a failure counter of its own ends at the limit.
LEMMA StopsStep ==
    ASSUME TypeOK, Course, Stops, [Next]_vars
    PROVE  Stops'
<1> USE DriverAssumption
<1>1. CASE InsertReturned
  <2>1. /\ UNCHANGED <<phase, loads>> /\ ~broken /\ failed \in Nat
    BY <1>1 DEF InsertReturned, Course, TypeOK
  <2>2. CASE UNCHANGED <<broken, fails, failed>>
    BY <2>1, <2>2, StopsKept
  <2>3. CASE fails' = fails + 1 /\ failed' = failed + 1 /\ broken' = Enough(fails')
    <3>1. ExpandedLoadToLimit'
      BY <2>1 DEF Stops, ExpandedLoadToLimit
    <3>2. ASSUME FromZero' PROVE failed' = fails' /\ failed' <= Limit
      BY <2>1, <2>3, <3>2 DEF Stops, FromZero
    <3>3. ASSUME FromZero' PROVE Enough(fails') <=> failed' = Limit
      BY <2>1, <2>3, <3>2, <3>3 DEF Enough
    <3> QED
      BY <2>3, <3>1, <3>2, <3>3 DEF Stops
  <2>4. \/ UNCHANGED <<broken, fails, failed>>
        \/ fails' = fails + 1 /\ failed' = failed + 1 /\ broken' = Enough(fails')
    BY <1>1 DEF InsertReturned
  <2> QED
    BY <2>2, <2>3, <2>4
<1>2. CASE CycleEnds
  <2>1. LoadEnds /\ phase = "cycle" /\ phase' \in {"load", "cycle"}
    BY <1>2 DEF CycleEnds
  <2>2. Len(loads) = cycle /\ Len(loads') = Len(loads) + 1 /\ loads \in Seq(Load)
    BY <2>1, LoadsGrow DEF Course
  <2>3. Len(loads) + 1 \in {1, testcycles + 2} => FromZero
    BY <2>2 DEF TypeOK, FromZero
  <2>4. ~FromZero'
    BY <2>1, <2>2 DEF FromZero, Course
  <2> QED
    BY <2>1, <2>3, <2>4, LoadEndsAtLimit DEF Stops
<1>3. CASE LoadStops
  <2>1. LoadEnds /\ phase = "load" /\ phase' = "query"
    BY <1>3 DEF LoadStops
  <2>2. Len(loads) = testcycles /\ Len(loads') = Len(loads) + 1
    BY <2>1, LoadsGrow DEF Course
  <2>3. ~(Len(loads) + 1 \in {1, testcycles + 2})
    BY <2>2
  <2>4. ~FromZero'
    BY <2>1, <2>2 DEF FromZero
  <2> QED
    BY <2>1, <2>3, <2>4, LoadEndsAtLimit DEF Stops
<1>4. CASE Expand
  <2>1. failed' = 0 /\ fails' = 0 /\ ~broken' /\ loads' = loads
    BY <1>4 DEF Expand, Course, Loads
  <2> QED
    BY <2>1 DEF Stops, ExpandedLoadToLimit
<1>5. CASE ReloadEnds
  <2>1. LoadEnds /\ phase = "reload" /\ phase' = "done"
    BY <1>5 DEF ReloadEnds
  <2>2. Len(loads) = testcycles + 1 /\ Len(loads') = Len(loads) + 1
    BY <2>1, LoadsGrow DEF Course
  <2>3. ~FromZero'
    BY <2>1, <2>2 DEF FromZero
  <2> QED
    BY <2>1, <2>3, LoadEndsAtLimit DEF Stops, FromZero
<1>6. CASE UNCHANGED <<phase, loads, failed, fails, broken>>
  BY <1>6, StopsKept
<1>7. CASE QueriesEnd
  BY <1>7, StopsKept DEF QueriesEnd
<1> QED
  BY <1>1, <1>2, <1>3, <1>4, <1>5, <1>6, <1>7
     DEF Next, DriverStep, TableRuns, CallInsert, LookUp, vars, driverVars

-----------------------------------------------------------------------------
(* The pairs in the table.                                                 *)

\* The store only shrinks while the table runs.
LEMMA RepeatsShrink ==
    ASSUME TypeOK, Repeats, UNCHANGED <<phase, p, awaiting, broken>>, store' \subseteq store
    PROVE  Repeats'
BY DEF Repeats

\* No pair but the one the load stopped at is stored twice.
LEMMA RepeatsStep ==
    ASSUME TypeOK, Course, Repeats, [Next]_vars
    PROVE  Repeats'
<1> USE DriverAssumption
<1>0. store \subseteq KV /\ \A x \in KV : x[1] \in 0 .. KV_NUM - 1 /\ x = <<x[1], x[2]>>
      /\ p \in 0 .. KV_NUM
  BY DEF TypeOK, KV
<1>1. CASE CallInsert
  <2>1. /\ Loading /\ ~broken /\ p < KV_NUM /\ store' = store \cup {Pair} /\ awaiting' = TRUE
        /\ UNCHANGED <<phase, p, broken>>
    BY <1>1 DEF CallInsert, Table!Insert
  <2>2. Pair[1] = p /\ Pair = <<p, IF <<p, 1>> \in store THEN 2 ELSE 1>>
    BY DEF Pair
  <2>3. ASSUME NEW q \in Key, <<q, 2>> \in store', <<q, 2>> \notin store
        PROVE  q = p /\ <<p, 1>> \in store
    BY <2>1, <2>2, <2>3
  <2>4. phase \notin {"reload", "done"} => <<p, 1>> \notin store
    BY <1>0, <2>1 DEF Repeats, Loading, Loads
  <2>5. phase \notin {"reload", "done"} => \A q \in Key : <<q, 2>> \notin store'
    BY <2>3, <2>4 DEF Repeats
  <2>6. <<p, 1>> \in store => \A q \in Key : <<q, 2>> \notin store
    <3> HAVE <<p, 1>> \in store
    <3>1. phase = "reload"
      BY <2>1, <2>4 DEF Loading, Loads
    <3>2. \E x \in store : x[1] = p
      BY DEF Repeats
    <3> QED
      BY <2>1, <3>1, <3>2 DEF Repeats, Loading
  <2>7. \A q1, q2 \in Key : <<q1, 2>> \in store' /\ <<q2, 2>> \in store' => q1 = q2
    BY <2>3, <2>6 DEF Repeats
  <2>8. \A x \in store' : x[1] <= p
    <3>1. \A x \in store' : x \in store \/ x[1] = p
      BY <2>1, <2>2
    <3>2. p <= p
      BY DEF TypeOK
    <3> QED
      BY <3>1, <3>2 DEF Repeats
  <2>9. awaiting' /\ phase' = phase /\ p' = p
    BY <2>1
  <2> QED
    BY <2>5, <2>7, <2>8, <2>9 DEF Repeats
<1>2. CASE InsertReturned
  <2>1. /\ awaiting /\ ~awaiting' /\ UNCHANGED <<store, phase>>
        /\ \/ p' = p + 1
           \/ p' = p /\ broken'
    BY <1>2 DEF InsertReturned, tableVars
  <2>2. CASE p' = p + 1
    <3>1. \A x \in store : x[1] \in Nat /\ x[1] < p'
      BY <1>0, <2>2 DEF Repeats
    <3>2. \A x \in store : x[1] <= p' /\ x[1] # p'
      BY <1>0, <2>2, <3>1
    <3> QED
      BY <2>1, <3>1, <3>2 DEF Repeats
  <2>3. CASE p' = p /\ broken'
    BY <2>1, <2>3 DEF Repeats
  <2> QED
    BY <2>1, <2>2, <2>3
<1>3. CASE CycleEnds
  <2>1. store' = {} /\ phase' \in {"cycle", "load"}
    BY <1>3 DEF CycleEnds
  <2> QED
    BY <2>1 DEF Repeats
<1>4. CASE LoadStops
  <2>1. UNCHANGED <<store, p>> /\ phase = "load" /\ phase' = "query"
    BY <1>4 DEF LoadStops, tableVars
  <2> QED
    BY <2>1 DEF Repeats
<1>5. CASE Expand
  <2>1. UNCHANGED <<store, p>> /\ phase = "expand" /\ phase' = "reload"
    BY <1>5 DEF Expand, tableVars
  <2> QED
    BY <2>1 DEF Repeats
<1>6. CASE ReloadEnds
  <2>1. UNCHANGED <<store, p>> /\ phase' = "done"
    BY <1>6 DEF ReloadEnds, tableVars
  <2> QED
    BY <2>1 DEF Repeats
<1>7. CASE LookUp \/ QueriesEnd
  <2>1. UNCHANGED <<store, p>> /\ phase = "query" /\ phase' \in {"query", "expand"}
    BY <1>7 DEF LookUp, QueriesEnd, tableVars, Table!Query
  <2> QED
    BY <2>1 DEF Repeats
<1>8. CASE TableRuns \/ UNCHANGED vars
  <2>1. UNCHANGED <<phase, p, awaiting, broken>> /\ store' \subseteq store
    <3>1. store' \subseteq store
      BY <1>8 DEF TableRuns, vars, tableVars, Table!Lose, Table!Return
    <3>2. UNCHANGED driverVars
      BY <1>8 DEF TableRuns, vars
    <3> QED
      BY <3>1, <3>2 DEF driverVars
  <2> QED
    BY <2>1, RepeatsShrink
<1> QED
  BY <1>1, <1>2, <1>3, <1>4, <1>5, <1>6, <1>7, <1>8 DEF Next, DriverStep

-----------------------------------------------------------------------------
(* The pairs a load lost, and the queries that miss them.                  *)

\* Sets of keys are finite.
LEMMA KeySets ==
    ASSUME NEW S \in SUBSET Key, NEW T \in SUBSET Key, S \subseteq T
    PROVE  /\ IsFiniteSet(S) /\ IsFiniteSet(T)
           /\ Cardinality(S) \in Nat /\ Cardinality(T) \in Nat
           /\ Cardinality(S) <= Cardinality(T)
           /\ \A k \in T : k \notin S => Cardinality(S) + 1 <= Cardinality(T)
<1>1. IsFiniteSet(Key)
  BY FS_Interval, DriverAssumption DEF Key
<1>2. /\ IsFiniteSet(S) /\ IsFiniteSet(T) /\ Cardinality(S) <= Cardinality(T)
      /\ Cardinality(S) \in Nat /\ Cardinality(T) \in Nat
  BY <1>1, FS_Subset, FS_CardinalityType
<1>3. ASSUME NEW k \in T, k \notin S PROVE Cardinality(S) + 1 <= Cardinality(T)
  <2>1. S \cup {k} \subseteq T /\ IsFiniteSet(S \cup {k})
    BY <1>2, <1>3, FS_AddElement
  <2>2. Cardinality(S \cup {k}) = Cardinality(S) + 1
    BY <1>2, <1>3, FS_AddElement
  <2> QED
    BY <1>2, <2>1, <2>2, FS_Subset
<1> QED
  BY <1>2, <1>3

\* While a load runs, the table misses a pair for each insert that failed:
\* Lose takes a pair whose insert was called.
LEMMA LossKept ==
    ASSUME TypeOK, Course, Repeats, Losses, NEW x \in KV, Table!Lose(x), UNCHANGED driverVars,
           phase \in {"cycle", "load"}
    PROVE  Cardinality(Gone') >= failed' + (IF LosesNow' THEN 1 ELSE 0)
<1>1. /\ call # NoKV /\ x \in store /\ store' = store \ {x} /\ ok' = FALSE /\ call' = call
      /\ UNCHANGED <<phase, p, awaiting, broken, failed>>
  BY DEF Table!Lose, driverVars
<1>2. awaiting /\ failed \in Nat /\ p \in Nat
  BY <1>1, DriverAssumption DEF Course, TypeOK
<1> DEFINE k == x[1]
<1>3. k \in Key /\ x = <<k, 1>> /\ k <= p
  <2>1. k \in Key /\ (x = <<k, 1>> \/ x = <<k, 2>>)
    BY DEF KV, Key
  <2> QED
    BY <1>1, <2>1 DEF Repeats
<1> HIDE DEF k
<1>4. k < p \/ k = p
  BY <1>2, <1>3 DEF Key
<1>5. Gone \subseteq Gone' /\ Gone' \subseteq Key /\ k \in Gone' /\ k \notin Gone
  BY <1>1, <1>2, <1>3, <1>4 DEF Gone
<1>6. Cardinality(Gone) + 1 <= Cardinality(Gone') /\ Cardinality(Gone) \in Nat
      /\ Cardinality(Gone') \in Nat
  BY <1>5, KeySets
<1>7. Cardinality(Gone) >= failed
  BY <1>2, <1>6 DEF Losses
<1> QED
  BY <1>1, <1>2, <1>6, <1>7

\* A query that misses the pair it is for is counted.
LEMMA MissCounted ==
    ASSUME TypeOK, Repeats, LookUp, i \in Unstored
    PROVE  qfails' = qfails + 1
<1>1. i \in Key /\ <<i, 1>> \notin store /\ KeyAt(i) = i
  BY DriverAssumption DEF Unstored, Key, KeyAt
<1>2. phase = "query" /\ Table!Query(i)
      /\ qfails' = IF reply'.kv = NoKV THEN qfails + 1 ELSE qfails
  BY <1>1 DEF LookUp
<1>3. ASSUME NEW x \in Table!Stored(i) PROVE FALSE
  <2>1. x \in store /\ x \in KV /\ x[1] = i
    BY <1>3 DEF Table!Stored, KeyOf, TypeOK
  <2>2. x = <<i, 1>> \/ x = <<i, 2>>
    BY <2>1 DEF KV
  <2> QED
    BY <1>1, <1>2, <2>1, <2>2 DEF Repeats
<1>4. reply' = Table!QueryReply(i, NoKV)
  BY <1>2, <1>3 DEF Table!Query
<1> QED
  BY <1>2, <1>4 DEF Table!QueryReply

\* One step of the queries.
LEMMA LookUpStep ==
    ASSUME TypeOK, Course, Repeats, Losses, LookUp
    PROVE  Losses'
<1>1. /\ phase = "query" /\ i' = i + 1 /\ i \in Nat /\ qfails \in Nat
      /\ UNCHANGED <<store, phase, cycle, p, loads>>
      /\ (qfails' = qfails \/ qfails' = qfails + 1)
  BY DriverAssumption DEF LookUp, Table!Query, TypeOK
<1>2. Unstored' = Unstored /\ LoadFailed' = LoadFailed
  BY <1>1 DEF Unstored, LoadFailed
<1>3. /\ LookedUp \in SUBSET Key /\ LookedUp' \in SUBSET Key
      /\ \A q \in LookedUp' : q \in LookedUp \/ (q = i /\ i \in Unstored)
  BY <1>1, <1>2 DEF LookedUp, Unstored, Key
<1>4. LoadFailed \in Nat /\ cycle \in Nat
  <2>1. loads \in Seq(Load) /\ testcycles + 1 \in 1 .. Len(loads)
    BY <1>1, DriverAssumption DEF Course
  <2>2. loads[testcycles + 1] \in Load
    BY <2>1
  <2> QED
    BY <2>2, DriverAssumption DEF LoadFailed, Load, TypeOK
<1>5. qfails' >= cycle * LoadFailed + Cardinality(LookedUp')
  <2>1. qfails >= cycle * LoadFailed + Cardinality(LookedUp) /\ cycle * LoadFailed \in Nat
    BY <1>1, <1>4 DEF Losses
  <2>2. CASE i \in Unstored
    <3>1. qfails' = qfails + 1
      BY <2>2, MissCounted
    <3>2. IsFiniteSet(LookedUp) /\ Cardinality(LookedUp) \in Nat
      BY <1>3, KeySets
    <3>3. /\ IsFiniteSet(LookedUp \cup {i})
          /\ Cardinality(LookedUp \cup {i}) <= Cardinality(LookedUp) + 1
          /\ Cardinality(LookedUp \cup {i}) \in Nat
      <4>1. /\ IsFiniteSet(LookedUp \cup {i})
            /\ Cardinality(LookedUp \cup {i})
                  = IF i \in LookedUp THEN Cardinality(LookedUp) ELSE Cardinality(LookedUp) + 1
        BY <3>2, FS_AddElement
      <4> QED
        BY <3>2, <4>1
    <3>4. /\ Cardinality(LookedUp') <= Cardinality(LookedUp \cup {i})
          /\ Cardinality(LookedUp') \in Nat
      <4>1. LookedUp' \subseteq LookedUp \cup {i}
        BY <1>3
      <4> QED
        BY <3>3, <4>1, FS_Subset, FS_CardinalityType
    <3> QED
      BY <1>1, <2>1, <3>1, <3>2, <3>3, <3>4
  <2>3. CASE i \notin Unstored
    <3>1. LookedUp' \subseteq LookedUp
      BY <1>3, <2>3
    <3>2. /\ Cardinality(LookedUp') <= Cardinality(LookedUp)
          /\ Cardinality(LookedUp') \in Nat /\ Cardinality(LookedUp) \in Nat
      BY <1>3, <3>1, KeySets
    <3> QED
      BY <1>1, <2>1, <3>2
  <2> QED
    BY <2>2, <2>3
<1> QED
  BY <1>1, <1>2, <1>5 DEF Losses, QueriesSeeLosses

\* After a load only the queries and the expansion look at what it lost.
LEMMA LossesElsewhere ==
    ASSUME phase' \in {"reload", "done"}
    PROVE  Losses'
BY DEF Losses, QueriesSeeLosses

\* The failures of the last load are those that the queries are to notice.
LEMMA LoadStopsStep ==
    ASSUME TypeOK, Course, Losses, LoadStops
    PROVE  Losses'
<1>1. /\ LoadEnds /\ phase = "load" /\ phase' = "query"
      /\ UNCHANGED <<store, p, i, cycle, qfails>>
  BY DEF LoadStops, tableVars
<1>2. /\ Len(loads') = testcycles + 1 /\ ~awaiting /\ i = 0 /\ cycle = 0
      /\ loads'[testcycles + 1] = [failed |-> failed, broken |-> broken]
  BY <1>1, LoadsGrow DEF Course
<1>3. failed \in Nat /\ qfails \in Nat
  BY DEF TypeOK
<1>4. LoadFailed' = failed
  BY <1>2 DEF LoadFailed
<1>5. Cardinality(Gone) >= failed
  <2>1. ~LosesNow
    BY <1>2 DEF LosesNow
  <2> QED
    BY <1>1, <1>3, <2>1 DEF Losses
<1>6. Gone \subseteq Unstored' /\ Unstored' \subseteq Key
  BY <1>1, DriverAssumption DEF Gone, Unstored, Key, TypeOK
<1>7. Cardinality(Unstored') >= failed
  <2>1. /\ Cardinality(Gone) \in Nat /\ Cardinality(Unstored') \in Nat
        /\ Cardinality(Gone) <= Cardinality(Unstored')
    BY <1>6, KeySets
  <2> QED
    BY <1>3, <1>5, <2>1
<1>8. LookedUp' = {}
  BY <1>1, <1>2, DriverAssumption DEF LookedUp, Unstored, Key
<1>9. qfails' >= cycle' * LoadFailed' + Cardinality(LookedUp')
  BY <1>1, <1>2, <1>3, <1>4, <1>8, FS_EmptySet
<1> QED
  BY <1>1, <1>4, <1>7, <1>9 DEF Losses, QueriesSeeLosses

\* At the end of a cycle of queries every lost pair was looked up once more.
LEMMA QueriesEndStep ==
    ASSUME TypeOK, Course, Losses, QueriesEnd
    PROVE  Losses'
<1> DEFINE F == LoadFailed
<1>1. /\ phase = "query" /\ i > p /\ i' = 0
      /\ UNCHANGED <<store, p, qfails, loads>>
      /\ phase' = IF cycle' = 0 THEN "expand" ELSE "query"
      /\ cycle' = IF cycle + 1 = testcycles THEN 0 ELSE cycle + 1
  <2>1. ~(i <= p) /\ i \in Int /\ p \in Int
    BY DriverAssumption DEF QueriesEnd, QueriesLeft, TypeOK
  <2>2. cycle' = IF cycle + 1 = testcycles THEN 0 ELSE cycle + 1
    BY NextCycle, DriverAssumption DEF QueriesEnd, TypeOK
  <2> QED
    BY <2>1, <2>2 DEF QueriesEnd, tableVars
<1>2. F \in Nat /\ cycle \in Nat /\ qfails \in Nat
  <2>1. loads \in Seq(Load) /\ testcycles + 1 \in 1 .. Len(loads)
    BY <1>1, DriverAssumption DEF Course
  <2>2. loads[testcycles + 1] \in Load
    BY <2>1
  <2> QED
    BY <2>2, DriverAssumption DEF LoadFailed, Load, TypeOK
<1>3. LookedUp = Unstored /\ Unstored \subseteq Key
  BY <1>1, DriverAssumption DEF LookedUp, Unstored, Key, TypeOK
<1>4. LoadFailed' = F /\ Unstored' = Unstored
  BY <1>1 DEF LoadFailed, Unstored
<1>5. Cardinality(Unstored) \in Nat
  BY <1>3, KeySets
<1>6. Cardinality(Unstored) >= F /\ qfails >= cycle * F + Cardinality(Unstored)
  BY <1>1, <1>3 DEF Losses
<1> HIDE DEF F
<1>7. qfails >= (cycle + 1) * F /\ (cycle + 1) * F \in Nat
  <2>1. (cycle + 1) * F = cycle * F + F /\ cycle * F \in Nat
    BY <1>2
  <2> QED
    BY <1>2, <1>5, <1>6, <2>1
<1>8. CASE cycle + 1 = testcycles
  BY <1>1, <1>4, <1>7, <1>8 DEF Losses, QueriesSeeLosses, LoadFailed
<1>9. CASE cycle + 1 # testcycles
  <2>1. cycle' = cycle + 1 /\ cycle' # 0 /\ phase' = "query"
    BY <1>1, <1>2, <1>9
  <2>2. LookedUp' = {}
    BY <1>1, DriverAssumption DEF LookedUp, Unstored, Key
  <2>3. qfails' >= cycle' * F + Cardinality(LookedUp')
    BY <1>1, <1>2, <1>7, <2>1, <2>2, FS_EmptySet
  <2> QED
    BY <1>4, <1>6, <2>1, <2>3 DEF Losses, QueriesSeeLosses
<1> QED
  BY <1>8, <1>9

\* No failure goes unnoticed on the way from the insert to the queries.
LEMMA LossesStep ==
    ASSUME TypeOK, Course, Repeats, Losses, [Next]_vars
    PROVE  Losses'
<1>1. failed \in Nat /\ p \in Nat /\ Cardinality(Gone) \in Nat
  <2>1. Gone \subseteq Key
    BY DEF Gone
  <2> QED
    BY <2>1, KeySets, DriverAssumption DEF TypeOK
<1>2. CASE CallInsert
  <2>1. /\ ~awaiting /\ ~broken /\ awaiting' = TRUE /\ p < KV_NUM
        /\ store' = store \cup {Pair} /\ call' = Pair /\ ok' = TRUE
        /\ UNCHANGED <<phase, p, broken, failed, qfails, loads>>
        /\ phase \in Loads
    BY <1>2 DEF CallInsert, Loading, Table!Insert
  <2>2. CASE phase \in {"cycle", "load"}
    <3>1. \A x \in store : x[1] < p
      BY <2>1, <2>2 DEF Repeats
    <3>2. <<p, 1>> \notin store
      BY <1>1, <3>1
    <3>3. Pair = <<p, 1>>
      BY <3>2 DEF Pair
    <3>4. Gone' = Gone
      <4>1. ASSUME NEW q \in Key, q # p PROVE q \in Gone' <=> q \in Gone
        BY <2>1, <3>3, <4>1 DEF Gone
      <4>2. p \notin Gone' /\ p \notin Gone
        BY <1>1, <2>1, <3>3 DEF Gone
      <4>3. Gone \subseteq Key /\ Gone' \subseteq Key
        BY DEF Gone
      <4> QED
        BY <4>1, <4>2, <4>3
    <3>5. Pair # NoKV
      BY <2>1, <3>3, DriverAssumption DEF TypeOK
    <3>6. ~LosesNow'
      BY <2>1, <3>5 DEF LosesNow
    <3>7. Cardinality(Gone) >= failed
      BY <1>1, <2>2 DEF Losses
    <3>8. Cardinality(Gone') >= failed' + (IF LosesNow' THEN 1 ELSE 0)
      BY <1>1, <2>1, <3>4, <3>6, <3>7
    <3> QED
      BY <2>1, <2>2, <3>8 DEF Losses, QueriesSeeLosses
  <2>3. CASE phase = "reload"
    BY <2>1, <2>3, LossesElsewhere
  <2> QED
    BY <2>1, <2>2, <2>3 DEF Loads
<1>3. CASE InsertReturned
  <2>1. /\ awaiting /\ ~awaiting' /\ call = NoKV /\ ~broken
        /\ UNCHANGED <<store, phase, qfails, loads>>
    BY <1>3 DEF InsertReturned, tableVars, Course
  <2>2. \/ reply.ok /\ p' = p + 1 /\ ~broken' /\ failed' = failed
        \/ /\ ~reply.ok /\ failed' = failed + 1
           /\ p' = IF broken' THEN p ELSE p + 1
    BY <1>3, <2>1 DEF InsertReturned
  <2>3. CASE phase \in {"cycle", "load"}
    <3>1. \A q \in Key : q \in Int
      BY DriverAssumption DEF Key
    <3>2. Gone' = Gone
      BY <1>1, <2>1, <2>2, <3>1 DEF Gone
    <3>3. Cardinality(Gone) >= failed'
      BY <1>1, <2>1, <2>2, <2>3 DEF Losses, LosesNow
    <3>4. failed' \in Nat /\ ~LosesNow'
      BY <1>1, <2>1, <2>2 DEF LosesNow
    <3>5. Cardinality(Gone') >= failed' + (IF LosesNow' THEN 1 ELSE 0)
      BY <3>2, <3>3, <3>4
    <3> QED
      BY <2>1, <2>3, <3>5 DEF Losses, QueriesSeeLosses
  <2>4. CASE phase = "reload"
    BY <2>1, <2>4, LossesElsewhere
  <2> QED
    BY <2>1, <2>3, <2>4 DEF Loads, Course
<1>4. CASE CycleEnds
  <2>1. phase' \in {"cycle", "load"} /\ failed' = 0 /\ ~awaiting'
    BY <1>4 DEF CycleEnds, LoadEnds, Loading
  <2>2. Cardinality(Gone') \in Nat
    <3>1. Gone' \subseteq Key
      BY DEF Gone
    <3> QED
      BY <3>1, KeySets
  <2>3. ~LosesNow'
    BY <2>1 DEF LosesNow
  <2>4. Cardinality(Gone') >= failed' + (IF LosesNow' THEN 1 ELSE 0)
    BY <2>1, <2>2, <2>3
  <2> QED
    BY <2>1, <2>4 DEF Losses, QueriesSeeLosses
<1>5. CASE LoadStops
  BY <1>5, LoadStopsStep
<1>6. CASE LookUp
  BY <1>6, LookUpStep
<1>7. CASE QueriesEnd
  BY <1>7, QueriesEndStep
<1>8. CASE Expand \/ ReloadEnds
  BY <1>8, LossesElsewhere DEF Expand, ReloadEnds
<1>9. ASSUME NEW x \in KV, Table!Lose(x), UNCHANGED driverVars PROVE Losses'
  <2>1. phase' = phase /\ phase \in Loads
    BY <1>9 DEF Table!Lose, driverVars, Course
  <2>2. CASE phase \in {"cycle", "load"}
    <3>1. Cardinality(Gone') >= failed' + (IF LosesNow' THEN 1 ELSE 0)
      BY <1>9, <2>2, LossKept
    <3> QED
      BY <2>1, <2>2, <3>1 DEF Losses, QueriesSeeLosses
  <2> QED
    BY <2>1, <2>2, LossesElsewhere DEF Loads
<1>10. CASE Table!Return /\ UNCHANGED driverVars
  <2>1. /\ call # NoKV /\ call' = NoKV /\ reply'.ok = ok /\ store' = store
        /\ UNCHANGED driverVars
    BY <1>10 DEF Table!Return, Table!InsertReply
  <2>2. awaiting /\ phase \in Loads
    BY <2>1 DEF Course
  <2>3. UNCHANGED <<phase, p, awaiting, broken, failed>>
    BY <2>1 DEF driverVars
  <2>4. LosesNow' <=> LosesNow
    BY <2>1, <2>3 DEF LosesNow
  <2>5. Gone' = Gone
    BY <2>1, <2>3 DEF Gone
  <2>6. CASE phase \in {"cycle", "load"}
    <3>1. Cardinality(Gone') >= failed' + (IF LosesNow' THEN 1 ELSE 0)
      BY <2>3, <2>4, <2>5, <2>6 DEF Losses
    <3> QED
      BY <2>3, <2>6, <3>1 DEF Losses, QueriesSeeLosses
  <2> QED
    BY <2>2, <2>3, <2>6, LossesElsewhere DEF Loads
<1>11. CASE UNCHANGED vars
  BY <1>11 DEF vars, tableVars, driverVars, Losses, Gone, LosesNow, Unstored, LookedUp,
               LoadFailed, QueriesSeeLosses
<1> QED
  BY <1>2, <1>3, <1>4, <1>5, <1>6, <1>7, <1>8, <1>9, <1>10, <1>11
     DEF Next, DriverStep, TableRuns

-----------------------------------------------------------------------------
(* The theorems.                                                           *)

\* The inductive invariant holds in every reachable state of the benchmark.
THEOREM Invariance == Spec => []IInv
<1>1. Init => IInv
  <2> SUFFICES ASSUME Init PROVE IInv
    OBVIOUS
  <2> USE DriverAssumption
  <2>1. /\ store = {} /\ call = NoKV /\ ok = TRUE /\ phase = "cycle" /\ cycle = 0
        /\ p = 0 /\ i = 0 /\ awaiting = FALSE /\ broken = FALSE
        /\ fails = 0 /\ qfails = 0 /\ failed = 0 /\ loads = <<>>
    BY DEF Init, Table!Init
  <2>2. TypeOK
    <3>1. awaiting \in BOOLEAN /\ broken \in BOOLEAN /\ ok \in BOOLEAN
      BY <2>1
    <3> QED
      BY <2>1, <3>1 DEF TypeOK, Loads
  <2>3. Course
    BY <2>1 DEF Course, Loads
  <2>4. Stops
    BY <2>1 DEF Stops, ExpandedLoadToLimit
  <2>5. Repeats
    BY <2>1 DEF Repeats
  <2>6. Gone = {} /\ ~LosesNow
    BY <2>1 DEF Gone, LosesNow, Key
  <2>7. Losses
    BY <2>1, <2>6, FS_EmptySet DEF Losses, QueriesSeeLosses
  <2> QED
    BY <2>2, <2>3, <2>4, <2>5, <2>7 DEF IInv
<1>2. IInv /\ [Next]_vars => IInv'
  BY CourseStep, StopsStep, RepeatsStep, LossesStep DEF IInv
<1> QED
  BY <1>1, <1>2, PTL DEF Spec

\* The first load and the one after the expansion are left at the failure that
\* reaches the limit, and at no other, as README.md says of loads.
THEOREM LoadsStopAtLimit == Spec => []ExpandedLoadToLimit
<1>1. IInv => ExpandedLoadToLimit
  BY DEF IInv, Stops
<1> QED
  BY <1>1, Invariance, PTL

\* Whatever pairs the table loses, and whichever insert reports it, the queries
\* count at least one miss for each reported failure in each of their cycles.
THEOREM FailuresAreSeen == Spec => []QueriesSeeLosses
<1>1. IInv => QueriesSeeLosses
  BY DEF IInv, Losses
<1> QED
  BY <1>1, Invariance, PTL

\* The benchmark inserts no pair twice but the one its load stopped at.
THEOREM RepeatsOne == Spec => []OnlyOneRepeated
<1>1. IInv => OnlyOneRepeated
  <2> SUFFICES ASSUME IInv
               PROVE  Cardinality({q \in Key : {<<q, 1>>, <<q, 2>>} \subseteq store}) <= 1
    BY DEF IInv, OnlyOneRepeated
  <2> DEFINE S == {q \in Key : {<<q, 1>>, <<q, 2>>} \subseteq store}
  <2>1. \A q1, q2 \in S : q1 = q2
    BY DEF IInv, Repeats
  <2>2. CASE S = {}
    <3> HIDE DEF S
    <3>1. Cardinality(S) = 0
      BY <2>2, FS_EmptySet
    <3> QED
      BY <3>1 DEF S
  <2>3. CASE S # {}
    <3>1. PICK q : q \in S
      BY <2>3
    <3>2. S = {q}
      BY <2>1, <3>1
    <3> HIDE DEF S
    <3>3. Cardinality(S) = 1
      BY <3>2, FS_Singleton
    <3> QED
      BY <3>3 DEF S
  <2> QED
    BY <2>2, <2>3
<1> QED
  BY <1>1, Invariance, PTL
=============================================================================
