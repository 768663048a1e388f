---------------------------- MODULE WorkersProofs ----------------------------
(* Proofs about module Workers, for every number of rows and threads.      *)
EXTENDS Workers, FiniteSetTheorems, TLAPS

\* A product with a larger factor is larger by at least the other factor.
LEMMA NextMultiple ==
    ASSUME NEW t \in Nat, NEW u \in Nat, t < u, NEW c \in Nat
    PROVE  t * c + c <= u * c
<1>1. PICK d \in Nat : u = t + 1 + d
  <2>1. u - t - 1 \in Nat /\ u = t + 1 + (u - t - 1)
    OBVIOUS
  <2> QED
    BY <2>1
<1>2. u * c = t * c + c + d * c
  BY <1>1
<1>3. d * c \in Nat /\ t * c \in Nat
  BY <1>1
<1> QED
  BY <1>2, <1>3

\* Rounding up: k parts of that length cover n rows.
LEMMA RoundUp ==
    ASSUME NEW m \in Nat \ {0}, NEW k \in Nat \ {0}
    PROVE  /\ (m + k - 1) \div k \in Nat \ {0}
           /\ k * ((m + k - 1) \div k) >= m
<1> DEFINE s == m + k - 1
           q == s \div k
           r == s % k
<1>1. s \in Nat /\ s >= k
  OBVIOUS
<1>2. q \in Nat /\ r \in 0 .. k - 1 /\ s = k * q + r
  BY <1>1
<1>3. k * q >= m
  BY <1>1, <1>2
<1>4. q # 0
  BY <1>2, <1>3
<1> QED
  BY <1>2, <1>3, <1>4

\* The number of threads and the length of a part are positive.
LEMMA PartLength ==
    ASSUME n \in Nat \ {0}, limit \in Nat \ {0}
    PROVE  /\ threadCount \in Nat \ {0}
           /\ chunk \in Nat \ {0}
           /\ threadCount * chunk >= n
<1>1. n \div MinWork \in Nat
  BY WorkersAssumption
<1>2. threadCount \in Nat \ {0}
  BY <1>1, WorkersAssumption
     DEF threadCount, countThreads, rbThreads, workerCount, AtLeast1, Least
<1> QED
  BY <1>2, RoundUp DEF chunk

\* Parts are intervals of rows that do not overlap.
LEMMA Parts ==
    ASSUME n \in Nat \ {0}, limit \in Nat \ {0}
    PROVE  /\ \A t \in Worker : t \in Nat /\ Begin(t) \in Nat /\ End(t) \in Nat /\ End(t) <= n
           /\ \A t, u \in Worker : t < u => End(t) <= Begin(u)
           /\ \A t \in Worker : Begin(t) <= n => Begin(t) <= End(t)
<1>1. threadCount \in Nat \ {0} /\ chunk \in Nat \ {0}
  BY PartLength
<1>2. ASSUME NEW t \in Worker
      PROVE  t \in Nat /\ Begin(t) \in Nat /\ End(t) \in Nat /\ End(t) <= n
             /\ End(t) <= Begin(t) + chunk /\ (Begin(t) <= n => Begin(t) <= End(t))
  <2>1. t \in Nat
    BY <1>1 DEF Worker
  <2>2. t * chunk \in Nat
    BY <1>1, <2>1
  <2> QED
    BY <1>1, <2>1, <2>2 DEF Begin, End, Least
<1>3. ASSUME NEW t \in Worker, NEW u \in Worker, t < u PROVE End(t) <= Begin(u)
  <2>1. t * chunk + chunk <= u * chunk
    BY <1>1, <1>2, <1>3, NextMultiple
  <2> QED
    BY <1>1, <1>2, <1>3, <2>1 DEF Begin
<1> QED
  BY <1>2, <1>3

\* Every row is in a part of some worker that was started.
LEMMA Covered ==
    ASSUME n \in Nat \ {0}, limit \in Nat \ {0}, NEW i \in Row
    PROVE  \E t \in Worker : Begin(t) <= i /\ i < End(t)
<1>1. threadCount \in Nat \ {0} /\ chunk \in Nat \ {0} /\ threadCount * chunk >= n
  BY PartLength
<1>2. i \in Nat /\ i < n
  BY DEF Row
<1> DEFINE t == i \div chunk
<1>3. t \in Nat /\ i % chunk \in 0 .. chunk - 1 /\ i = chunk * t + (i % chunk)
  BY <1>1, <1>2
<1>4. t * chunk \in Nat /\ t * chunk = chunk * t
  BY <1>1, <1>3
<1>5. t * chunk <= i /\ i < t * chunk + chunk
  BY <1>1, <1>2, <1>3, <1>4
<1>6. t < threadCount
  <2>1. SUFFICES ASSUME t >= threadCount PROVE FALSE
    BY <1>1, <1>3
  <2>2. threadCount * chunk <= t * chunk
    <3>1. CASE t = threadCount
      BY <3>1, <1>1
    <3>2. CASE t > threadCount
      <4>1. threadCount * chunk + chunk <= t * chunk
        BY <3>2, <1>1, <1>3, NextMultiple
      <4>2. threadCount * chunk \in Nat
        BY <1>1
      <4> QED
        BY <4>1, <4>2, <1>1, <1>4
    <3> QED
      BY <2>1, <3>1, <3>2, <1>1, <1>3
  <2> QED
    BY <2>2, <1>1, <1>2, <1>4, <1>5
<1>7. t \in Worker
  BY <1>1, <1>2, <1>3, <1>4, <1>5, <1>6 DEF Worker, Begin
<1>8. Begin(t) <= i /\ i < End(t)
  BY <1>1, <1>2, <1>4, <1>5 DEF Begin, End, Least
<1> QED
  BY <1>7, <1>8

-----------------------------------------------------------------------------
(* The invariant.                                                          *)

Inv == TypeOK /\ PoolInv

\* The division of the rows does not change while the workers run.
LEMMA SameParts ==
    ASSUME UNCHANGED inputs
    PROVE  /\ Row' = Row /\ Worker' = Worker /\ chunk' = chunk /\ threadCount' = threadCount
           /\ \A t : Begin(t)' = Begin(t) /\ End(t)' = End(t)
<1>1. threadCount' = threadCount
  BY DEF inputs, threadCount, countThreads, rbThreads, workerCount
<1>2. chunk' = chunk
  BY <1>1 DEF inputs, chunk
<1> QED
  BY <1>1, <1>2 DEF inputs, Row, Worker, Begin, End

\* The workers start with the invariant.
LEMMA InitInv == Init => Inv
<1> SUFFICES ASSUME Init PROVE Inv
  OBVIOUS
<1>1. n \in Nat \ {0} /\ limit \in Nat \ {0}
  BY WorkersAssumption DEF Init
<1>2. \A t \in Worker : Begin(t) \in Nat /\ End(t) \in Nat /\ (Begin(t) <= n => Begin(t) <= End(t))
  BY <1>1, Parts
<1>3. TypeOK
  <2>1. at \in [Worker -> {"row", "try", "throw", "lock", "done"}]
        /\ row \in [Worker -> Nat] /\ partial \in [Worker -> Nat]
    BY <1>2 DEF Init
  <2>2. /\ try \in [Worker -> 0 .. MaxTries]
        /\ sk \in [Row -> 0 .. MaxTries] /\ out \in [Row -> 0 .. MaxTries]
    BY WorkersAssumption DEF Init
  <2>3. /\ job \in {"gen", "encap", "count", "okvs"} /\ hit \in SUBSET Row
        /\ firstErr \in Row \union {-1} /\ caller \in {"join", "sum", "returned", "threw"}
        /\ failed \in BOOLEAN
    BY DEF Init
  <2>4. summed \in 0 .. threadCount /\ hits \in Nat
    BY <1>1, PartLength DEF Init
  <2> QED
    BY <1>1, <2>1, <2>2, <2>3, <2>4 DEF TypeOK
<1>4. PoolInv
  <2>1. ASSUME NEW t \in Worker PROVE PartDone(t)
    BY <1>2 DEF Init, PartDone, Busy
  <2> QED
    BY <2>1 DEF Init, PoolInv
<1> QED
  BY <1>3, <1>4 DEF Inv

\* Two workers are never at the same row of both their parts.
LEMMA OwnRow ==
    ASSUME Inv, NEW t \in Worker, NEW u \in Worker, row[t] < End(t),
           Begin(u) <= row[t], row[t] < End(u)
    PROVE  u = t
<1>1. n \in Nat \ {0} /\ limit \in Nat \ {0} /\ row[t] \in Nat
  BY DEF Inv, TypeOK
<1>2. Begin(t) <= row[t]
  BY DEF Inv, PoolInv, PartDone
<1>3. /\ t \in Nat /\ u \in Nat /\ End(t) \in Nat /\ End(u) \in Nat
      /\ Begin(t) \in Nat /\ Begin(u) \in Nat
      /\ t < u => End(t) <= Begin(u)
      /\ u < t => End(u) <= Begin(t)
  BY <1>1, Parts
<1> QED
  BY <1>1, <1>2, <1>3

\* A row that worker t is at is a row of the table.
LEMMA RowInTable ==
    ASSUME Inv, NEW t \in Worker, row[t] < End(t)
    PROVE  row[t] \in Row
<1>1. n \in Nat \ {0} /\ limit \in Nat \ {0} /\ row[t] \in Nat
  BY DEF Inv, TypeOK
<1>2. End(t) \in Nat /\ End(t) <= n
  BY <1>1, Parts
<1> QED
  BY <1>1, <1>2 DEF Row

\* A step of worker t that changes at most its own row keeps what the other
\* workers have done.
LEMMA OthersKept ==
    ASSUME Inv, NEW t \in Worker, NEW u \in Worker, u # t, UNCHANGED inputs,
           row[t] < End(t) \/ UNCHANGED <<sk, out>>,
           \A i \in Row : i # row[t] => sk'[i] = sk[i] /\ out'[i] = out[i],
           at'[u] = at[u], row'[u] = row[u], try'[u] = try[u],
           failed' \in BOOLEAN, failed => failed'
    PROVE  PartDone(u)'
<1>1. n \in Nat \ {0} /\ limit \in Nat \ {0} /\ row[u] \in Nat /\ row[t] \in Nat
  BY DEF Inv, TypeOK
<1>2. PartDone(u)
  BY DEF Inv, PoolInv
<1>3. /\ Begin(u)' = Begin(u) /\ End(u)' = End(u) /\ n' = n /\ job' = job
  BY SameParts DEF inputs
<1>4. Begin(u) \in Nat /\ End(u) \in Nat /\ End(u) <= n /\ (Begin(u) <= n => Begin(u) <= End(u))
  BY <1>1, Parts
<1>5. ASSUME job # "count", NEW i \in Begin(u) .. row[u] - 1
      PROVE  out'[i] # 0 /\ (job = "gen" => out'[i] = sk'[i])
  <2>1. out[i] # 0 /\ (job = "gen" => out[i] = sk[i])
    BY <1>2, <1>5 DEF PartDone
  <2>2. Begin(u) < n
    BY <1>5 DEF Worker
  <2>3. i < End(u) /\ i \in Row /\ Begin(u) <= i
    BY <1>1, <1>2, <1>4, <1>5, <2>2 DEF PartDone, Row
  <2>4. CASE UNCHANGED <<sk, out>>
    BY <2>1, <2>4
  <2>5. CASE row[t] < End(t)
    <3>1. i # row[t]
      BY <2>3, <2>5, OwnRow
    <3> QED
      BY <2>1, <2>3, <3>1
  <2> QED
    BY <2>4, <2>5
<1> QED
  BY <1>2, <1>3, <1>5 DEF PartDone, Busy

\* The type invariant, one step per action.
LEMMA TypeStep ==
    ASSUME Inv, NEW t \in Worker, WorkerStep(t)
    PROVE  TypeOK'
<1> USE DEF Inv
<1>1. UNCHANGED inputs /\ caller' = caller /\ summed' = summed /\ hits' = hits
  BY DEF WorkerStep, Leave, Enter, Fill, Retry, Reject, Catch, Record, CountRow
<1>2. Row' = Row /\ Worker' = Worker /\ threadCount' = threadCount
  BY <1>1, SameParts
<1>3. /\ job' = job /\ n' = n /\ limit' = limit /\ hit' = hit
  BY <1>1 DEF inputs
<1>4. Busy(t) => row[t] \in Row /\ row[t] \in Nat
  BY RowInTable DEF PoolInv, PartDone, Row
<1>5. /\ at' \in [Worker -> {"row", "try", "throw", "lock", "done"}]
      /\ row' \in [Worker -> Nat]
  BY DEF TypeOK, WorkerStep, Leave, Enter, Fill, Retry, Reject, Catch, Record, CountRow
<1>6. try' \in [Worker -> 0 .. MaxTries]
  <2>1. at[t] = "try" => try[t] + 1 \in 0 .. MaxTries
    BY WorkersAssumption DEF TypeOK, PoolInv, PartDone
  <2>2. 0 \in 0 .. MaxTries
    BY WorkersAssumption
  <2> QED
    BY <2>1, <2>2 DEF TypeOK, WorkerStep, Leave, Enter, Fill, Retry, Reject, Catch, Record, CountRow
<1>7. sk' \in [Row -> 0 .. MaxTries] /\ out' \in [Row -> 0 .. MaxTries]
  <2>1. at[t] = "try" => try[t] + 1 \in 0 .. MaxTries
    BY WorkersAssumption DEF TypeOK, PoolInv, PartDone
  <2>2. 0 \in 0 .. MaxTries
    BY WorkersAssumption
  <2> QED
    BY <2>1, <2>2 DEF TypeOK, WorkerStep, Leave, Enter, Fill, Retry, Reject, Catch, Record, CountRow
<1>8. failed' \in BOOLEAN
  BY DEF TypeOK, WorkerStep, Leave, Enter, Fill, Retry, Reject, Catch, Record, CountRow
<1>9. firstErr' \in Row \union {-1}
  BY <1>4 DEF Busy, TypeOK, WorkerStep, Leave, Enter, Fill, Retry, Reject, Catch, Record, CountRow
<1>10. partial' \in [Worker -> Nat]
  BY DEF TypeOK, WorkerStep, Leave, Enter, Fill, Retry, Reject, Catch, Record, CountRow
<1> QED
  BY <1>1, <1>2, <1>3, <1>5, <1>6, <1>7, <1>8, <1>9, <1>10 DEF TypeOK

\* Worker t keeps its own part in order.
LEMMA OwnPart ==
    ASSUME Inv, NEW t \in Worker, WorkerStep(t)
    PROVE  PartDone(t)'
<1>1. /\ UNCHANGED inputs
      /\ n \in Nat \ {0} /\ limit \in Nat \ {0} /\ row[t] \in Nat /\ try[t] \in Nat
      /\ MaxTries \in Nat \ {0}
  BY WorkersAssumption
     DEF Inv, TypeOK, WorkerStep, Leave, Enter, Fill, Retry, Reject, Catch, Record, CountRow
<1>2. Begin(t)' = Begin(t) /\ End(t)' = End(t) /\ n' = n /\ job' = job
  BY <1>1, SameParts DEF inputs
<1>3. Begin(t) \in Nat /\ End(t) \in Nat /\ End(t) <= n /\ (Begin(t) <= n => Begin(t) <= End(t))
  BY <1>1, Parts
<1>4. PartDone(t)
  BY DEF Inv, PoolInv
<1>5. /\ at \in [Worker -> {"row", "try", "throw", "lock", "done"}] /\ row \in [Worker -> Nat]
      /\ try \in [Worker -> 0 .. MaxTries]
      /\ sk \in [Row -> 0 .. MaxTries] /\ out \in [Row -> 0 .. MaxTries]
  BY DEF Inv, TypeOK
<1>6. CASE Leave(t)
  BY <1>1, <1>2, <1>3, <1>4, <1>5, <1>6 DEF Leave, PartDone, Busy
<1>7. CASE Enter(t)
  <2>1. \A i \in Begin(t) .. row[t] - 1 : out'[i] = out[i] /\ sk'[i] = sk[i]
    BY <1>1, <1>3, <1>5, <1>7 DEF Enter
  <2> QED
    BY <2>1, <1>1, <1>2, <1>3, <1>4, <1>5, <1>7 DEF Enter, PartDone, Busy
<1>8. CASE Fill(t)
  <2>1. row[t] < End(t)
    BY <1>4, <1>8 DEF Fill, PartDone, Busy
  <2>2. row[t] \in Row
    BY <2>1, RowInTable
  <2>3. \A i \in Begin(t) .. row[t] - 1 : out'[i] = out[i] /\ sk'[i] = sk[i]
    BY <1>1, <1>3, <1>5, <1>8 DEF Fill
  <2>4. out'[row[t]] = try[t] + 1 /\ (job = "gen" => sk'[row[t]] = try[t] + 1)
    BY <2>2, <1>5, <1>8 DEF Fill
  <2>5. row'[t] = row[t] + 1 /\ at'[t] = "row" /\ failed' = failed
    BY <1>5, <1>8 DEF Fill
  <2>6. job # "count" => \A i \in Begin(t) .. row'[t] - 1 :
                           out'[i] # 0 /\ (job = "gen" => out'[i] = sk'[i])
    <3> SUFFICES ASSUME job # "count", NEW i \in Begin(t) .. row'[t] - 1
                 PROVE  out'[i] # 0 /\ (job = "gen" => out'[i] = sk'[i])
      OBVIOUS
    <3>1. CASE i = row[t]
      BY <3>1, <2>4, <1>1
    <3>2. CASE i \in Begin(t) .. row[t] - 1
      BY <3>2, <2>3, <1>4 DEF PartDone
    <3> QED
      BY <3>1, <3>2, <2>5, <1>1, <1>3
  <2> QED
    BY <2>1, <2>5, <2>6, <1>1, <1>2, <1>3, <1>4 DEF PartDone, Busy
<1>9. CASE Retry(t)
  <2>1. \A i \in Begin(t) .. row[t] - 1 : out'[i] = out[i] /\ sk'[i] = sk[i]
    BY <1>1, <1>3, <1>5, <1>9 DEF Retry
  <2>2. /\ row'[t] = row[t] /\ failed' = failed /\ try'[t] = try[t] + 1
        /\ at'[t] = IF try[t] + 1 < MaxTries THEN "try" ELSE "throw"
    BY <1>5, <1>9 DEF Retry
  <2> QED
    BY <2>1, <2>2, <1>1, <1>2, <1>3, <1>4, <1>9 DEF Retry, PartDone, Busy
<1>10. CASE Reject(t) \/ Catch(t) \/ Record(t)
  BY <1>1, <1>2, <1>3, <1>4, <1>5, <1>10 DEF Reject, Catch, Record, PartDone, Busy
<1>11. CASE CountRow(t)
  BY <1>1, <1>2, <1>3, <1>4, <1>5, <1>11 DEF CountRow, PartDone, Busy
<1> QED
  BY <1>6, <1>7, <1>8, <1>9, <1>10, <1>11 DEF WorkerStep

\* A step of a worker changes its own entries and at most its own row.
LEMMA StepFrame ==
    ASSUME Inv, NEW t \in Worker, WorkerStep(t)
    PROVE  /\ UNCHANGED inputs /\ caller' = caller /\ summed' = summed /\ hits' = hits
           /\ row[t] < End(t) \/ UNCHANGED <<sk, out>>
           /\ \A i \in Row : i # row[t] => sk'[i] = sk[i] /\ out'[i] = out[i]
           /\ \A u \in Worker : u # t => at'[u] = at[u] /\ row'[u] = row[u] /\ try'[u] = try[u]
           /\ failed' \in BOOLEAN /\ (failed => failed')
<1>1. at[t] = "try" => row[t] < End(t)
  BY DEF Inv, PoolInv, PartDone, Busy
<1>2. TypeOK
  BY DEF Inv
<1> QED
  BY <1>1, <1>2 DEF TypeOK, WorkerStep, Leave, Enter, Fill, Retry, Reject, Catch, Record, CountRow

\* A step of a worker keeps the flag and the recorded exception together.
LEMMA WorkerInv ==
    ASSUME Inv, NEW t \in Worker, WorkerStep(t)
    PROVE  PoolInv'
<1>1. Worker' = Worker
  BY StepFrame, SameParts
<1>2. \A u \in Worker : PartDone(u)'
  <2> TAKE u \in Worker
  <2>1. CASE u = t
    BY <2>1, OwnPart
  <2>2. CASE u # t
    BY <2>2, StepFrame, OthersKept
  <2> QED
    BY <2>1, <2>2
<1>3. TypeOK /\ PoolInv
  BY DEF Inv
<1>4. at[t] # "done"
  BY DEF WorkerStep, Leave, Enter, Fill, Retry, Reject, Catch, Record, CountRow
<1>5. caller = "join" /\ caller' = "join" /\ summed' = 0
  BY <1>3, <1>4, StepFrame DEF PoolInv
<1>6. firstErr' # -1 => failed'
  BY <1>3 DEF TypeOK, Row, PoolInv, PartDone, WorkerStep,
              Leave, Enter, Fill, Retry, Reject, Catch, Record, CountRow
<1>7. failed' /\ firstErr' = -1 => \E u \in Worker : at'[u] = "lock"
  <2> SUFFICES ASSUME failed', firstErr' = -1 PROVE \E u \in Worker : at'[u] = "lock"
    OBVIOUS
  <2>1. CASE Catch(t)
    BY <2>1, <1>3 DEF Catch, TypeOK
  <2>2. CASE ~Catch(t)
    <3>1. ~Record(t)
      <4>1. row[t] # -1
        <5>1. row[t] \in Nat
          BY <1>3 DEF TypeOK
        <5> QED
          BY <5>1
      <4> QED
        BY <4>1 DEF Record
    <3>2. failed /\ firstErr = -1
      BY <2>2, <3>1 DEF WorkerStep, Leave, Enter, Fill, Retry, Reject, CountRow
    <3>3. PICK u \in Worker : at[u] = "lock"
      BY <3>2, <1>3 DEF PoolInv
    <3>4. u # t
      BY <2>2, <3>1, <3>3 DEF WorkerStep, Leave, Enter, Fill, Retry, Reject, CountRow
    <3> QED
      BY <3>3, <3>4, StepFrame
  <2> QED
    BY <2>1, <2>2
<1> QED
  BY <1>1, <1>2, <1>5, <1>6, <1>7 DEF PoolInv

\* What the workers have done is not touched by the caller.
LEMMA CallerFrame ==
    ASSUME Inv, UNCHANGED <<inputs, at, row, try, sk, out, failed, firstErr, partial>>
    PROVE  /\ Row' = Row /\ Worker' = Worker /\ threadCount' = threadCount
           /\ \A t \in Worker : PartDone(t)'
<1>1. /\ Row' = Row /\ Worker' = Worker /\ threadCount' = threadCount
      /\ \A t : Begin(t)' = Begin(t) /\ End(t)' = End(t)
  BY SameParts
<1>2. n' = n /\ job' = job /\ \A t \in Worker : PartDone(t)
  BY DEF Inv, PoolInv, inputs
<1> QED
  BY <1>1, <1>2 DEF PartDone, Busy

\* Joining the workers preserves the invariant.
LEMMA JoinInv == ASSUME Inv, Join PROVE Inv'
<1>1. /\ Row' = Row /\ Worker' = Worker /\ threadCount' = threadCount
      /\ \A t \in Worker : PartDone(t)'
  BY CallerFrame DEF Join
<1>2. caller = "join" /\ summed = 0 /\ summed' = 0 /\ hits' = hits /\ firstErr' = firstErr /\ job' = job
  BY DEF Join, Inv, PoolInv, inputs
<1>3. /\ caller' \in {"sum", "returned", "threw"}
      /\ caller' = "threw" <=> firstErr # -1
      /\ caller' = "sum" => job = "count"
  BY DEF Join
<1>4. threadCount \in Nat \ {0}
  BY PartLength DEF Inv, TypeOK
<1>5. TypeOK'
  BY <1>1, <1>2, <1>3 DEF Join, inputs, Inv, TypeOK
<1>6. PoolInv'
  BY <1>1, <1>2, <1>3, <1>4 DEF Join, Inv, PoolInv
<1> QED
  BY <1>5, <1>6 DEF Inv

\* So does the loop that adds the counts.
LEMMA SumInv == ASSUME Inv, Sum PROVE Inv'
<1>1. /\ Row' = Row /\ Worker' = Worker /\ threadCount' = threadCount
      /\ \A t \in Worker : PartDone(t)'
  BY CallerFrame DEF Sum
<1>2. caller = "sum" /\ job = "count" /\ summed < threadCount /\ summed \in Nat /\ hits \in Nat
      /\ job' = job /\ firstErr = -1 /\ firstErr' = -1
  BY DEF Sum, Inv, PoolInv, TypeOK, inputs
<1>3. threadCount \in Nat \ {0}
  BY PartLength DEF Inv, TypeOK
<1>4. summed \in Worker
  BY <1>2, <1>3 DEF Worker
<1>5. summed' \in 0 .. threadCount /\ hits' \in Nat
  BY <1>2, <1>3, <1>4 DEF Sum, Inv, TypeOK
<1>6. /\ caller' \in {"sum", "returned"}
      /\ caller' = "sum" => summed' < threadCount
  BY <1>2, <1>3 DEF Sum
<1>7. TypeOK'
  BY <1>1, <1>5, <1>6 DEF Sum, inputs, Inv, TypeOK
<1>8. PoolInv'
  BY <1>1, <1>2, <1>6 DEF Sum, Inv, PoolInv
<1> QED
  BY <1>7, <1>8 DEF Inv

\* Every step preserves the invariant.
LEMMA NextInv == Inv /\ [Next]_vars => Inv'
<1> SUFFICES ASSUME Inv, [Next]_vars PROVE Inv'
  OBVIOUS
<1>1. ASSUME NEW t \in Worker, WorkerStep(t) PROVE Inv'
  BY <1>1, TypeStep, WorkerInv DEF Inv
<1>2. CASE UNCHANGED vars
  <2>1. /\ Row' = Row /\ Worker' = Worker /\ threadCount' = threadCount
        /\ \A t \in Worker : PartDone(t)'
    BY <1>2, CallerFrame DEF vars
  <2>2. TypeOK'
    BY <1>2, <2>1 DEF vars, inputs, Inv, TypeOK
  <2>3. PoolInv'
    BY <1>2, <2>1 DEF vars, inputs, Inv, PoolInv
  <2> QED
    BY <2>2, <2>3 DEF Inv
<1> QED
  BY <1>1, <1>2, JoinInv, SumInv DEF Next, Returned

-----------------------------------------------------------------------------
(* Counting.                                                               *)

\* The hits between two rows are finitely many.
LEMMA HitsFinite ==
    ASSUME TypeOK, NEW a \in Int, NEW b \in Int
    PROVE  /\ IsFiniteSet(hit \cap (a .. b))
           /\ Cardinality(hit \cap (a .. b)) \in Nat
<1>1. IsFiniteSet(a .. b)
  BY FS_Interval
<1>2. hit \cap (a .. b) \in SUBSET (a .. b)
  OBVIOUS
<1>3. IsFiniteSet(hit \cap (a .. b))
  BY <1>1, <1>2, FS_Subset
<1> QED
  BY <1>3, FS_CardinalityType

\* Initially nothing is counted.
LEMMA CountInit == Init => CountInv
<1> SUFFICES ASSUME Init, job = "count" PROVE CountInv
  BY DEF CountInv
<1>1. TypeOK /\ n \in Nat \ {0} /\ limit \in Nat \ {0}
  BY InitInv DEF Inv, TypeOK
<1>2. \A t \in Worker : Begin(t) \in Nat
  BY <1>1, Parts
<1>3. \A a \in Nat : hit \cap (a .. a - 1) = {}
  OBVIOUS
<1>4. \A t \in Worker : partial[t] = 0 /\ row[t] = Begin(t) /\ at[t] = "row"
  BY DEF Init
<1>5. \A t \in Worker : hit \cap (Begin(t) .. row[t] - 1) = {}
  BY <1>2, <1>3, <1>4
<1>6. Begin(summed) = 0
  BY <1>1, PartLength DEF Init, Begin
<1>7. hit \cap (0 .. Begin(summed) - 1) = {}
  BY <1>3, <1>6
<1> QED
  BY <1>4, <1>5, <1>7, FS_EmptySet DEF Init, CountInv

\* One turn of a worker's loop adds the row it is at to what it has counted.
LEMMA CountRowExact ==
    ASSUME Inv, CountInv, NEW t \in Worker, CountRow(t)
    PROVE  partial'[t] = Cardinality(hit \cap (Begin(t) .. row'[t] - 1))
<1> DEFINE b == Begin(t)
           r == row[t]
           S == hit \cap (b .. r - 1)
<1>1. n \in Nat \ {0} /\ limit \in Nat \ {0} /\ r \in Nat /\ TypeOK
      /\ partial[t] = Cardinality(S)
  BY DEF Inv, TypeOK, CountInv, CountRow
<1>2. b \in Nat /\ b <= r
  BY <1>1, Parts DEF Inv, PoolInv, PartDone
<1>3. /\ row'[t] = r + 1
      /\ partial'[t] = partial[t] + (IF r \in hit THEN 1 ELSE 0)
  BY <1>1 DEF CountRow, TypeOK
<1>4. IsFiniteSet(S)
  BY <1>1, <1>2, HitsFinite
<1>5. r \notin S
  BY <1>1, <1>2
<1>6. hit \cap (b .. (r + 1) - 1) = IF r \in hit THEN S \union {r} ELSE S
  BY <1>1, <1>2
<1> HIDE DEF S, b, r
<1>7. Cardinality(hit \cap (b .. (r + 1) - 1)) = Cardinality(S) + (IF r \in hit THEN 1 ELSE 0)
  <2>1. CASE r \in hit
    BY <1>4, <1>5, <1>6, <2>1, FS_AddElement
  <2>2. CASE r \notin hit
    <3>1. Cardinality(S) \in Nat
      BY <1>4, FS_CardinalityType
    <3>2. hit \cap (b .. (r + 1) - 1) = S
      BY <1>6, <2>2
    <3>3. Cardinality(S) + 0 = Cardinality(S)
      BY <3>1
    <3> QED
      BY <2>2, <3>2, <3>3
  <2> QED
    BY <2>1, <2>2
<1> QED
  BY <1>1, <1>3, <1>7 DEF b

\* The workers count their own parts.
LEMMA CountWorker ==
    ASSUME Inv, CountInv, NEW t \in Worker, WorkerStep(t)
    PROVE  CountInv'
<1> SUFFICES ASSUME job' = "count" PROVE CountInv'
  BY DEF CountInv
<1>1. UNCHANGED inputs /\ caller' = caller /\ summed' = summed /\ hits' = hits
  BY StepFrame
<1>2. job = "count" /\ hit' = hit
  BY <1>1 DEF inputs
<1>3. Leave(t) \/ CountRow(t)
  <2>1. at[t] \in {"row", "done"}
    BY <1>2 DEF CountInv
  <2> QED
    BY <1>2, <2>1 DEF WorkerStep, Leave, Enter, Fill, Retry, Reject, Catch, Record, CountRow
<1>4. /\ Worker' = Worker /\ threadCount' = threadCount /\ \A u : Begin(u)' = Begin(u)
  BY <1>1, SameParts
<1>5. failed' = failed /\ \A u \in Worker : at'[u] \in {"row", "done"}
  BY <1>2, <1>3 DEF Leave, CountRow, CountInv, Inv, TypeOK
<1>6. ASSUME NEW u \in Worker
      PROVE  partial'[u] = Cardinality(hit \cap (Begin(u) .. row'[u] - 1))
  <2>1. partial[u] = Cardinality(hit \cap (Begin(u) .. row[u] - 1))
    BY <1>2 DEF CountInv
  <2>2. CASE Leave(t)
    BY <2>1, <2>2 DEF Leave
  <2>3. CASE CountRow(t) /\ u = t
    BY <2>3, CountRowExact
  <2>4. CASE CountRow(t) /\ u # t
    <3>1. partial'[u] = partial[u] /\ row'[u] = row[u]
      BY <2>4 DEF CountRow, Inv, TypeOK
    <3> QED
      BY <2>1, <3>1
  <2> QED
    BY <1>3, <2>2, <2>3, <2>4
<1>7. Begin(summed)' = Begin(summed)
  BY <1>1, SameParts DEF Begin
<1> QED
  BY <1>1, <1>2, <1>4, <1>5, <1>6, <1>7 DEF CountInv

\* Adding the count of the next part counts the hits up to its end.
LEMMA SumExact ==
    ASSUME Inv, CountInv, Sum
    PROVE  hits' = Cardinality(hit \cap (0 .. Begin(summed + 1) - 1))
<1> DEFINE k == summed
           b == Begin(k)
           e == Begin(k + 1)
           S == hit \cap (0 .. b - 1)
           T == hit \cap (b .. row[k] - 1)
<1>1. /\ TypeOK /\ n \in Nat \ {0} /\ limit \in Nat \ {0} /\ k \in Nat /\ job = "count"
      /\ k < threadCount /\ hit \in SUBSET Row
  BY DEF Inv, TypeOK, PoolInv, Sum
<1>2. threadCount \in Nat \ {0} /\ chunk \in Nat \ {0}
  BY <1>1, PartLength
<1>3. k \in Worker
  BY <1>1, <1>2 DEF Worker
<1>4. b \in Nat /\ e = b + chunk
  BY <1>1, <1>2 DEF Begin
<1>5. End(k) = Least(n, e)
  BY <1>4 DEF End
<1>6. /\ row[k] \in Nat /\ row[k] >= b /\ row[k] >= End(k) /\ (b <= n => row[k] <= End(k))
  <2>1. at[k] = "done" /\ PartDone(k) /\ ~failed
    BY <1>1, <1>3 DEF Inv, PoolInv, CountInv, Sum
  <2> QED
    BY <1>3, <2>1 DEF PartDone, Inv, TypeOK
<1>7. partial[k] = Cardinality(T) /\ hits = Cardinality(S)
  BY <1>1, <1>3 DEF CountInv
<1>8. hit \cap (0 .. e - 1) = S \union T
  <2>1. ASSUME NEW i \in hit PROVE i \in 0 .. e - 1 <=> i \in 0 .. b - 1 \/ i \in b .. row[k] - 1
    <3>1. i \in Nat /\ i < n
      BY <1>1 DEF Row
    <3> QED
      BY <1>1, <1>2, <1>4, <1>5, <1>6, <3>1 DEF Least
  <2> QED
    BY <2>1
<1>9. S \cap T = {}
  BY <1>4
<1>10. IsFiniteSet(S) /\ IsFiniteSet(T) /\ Cardinality(S) \in Nat /\ Cardinality(T) \in Nat
  <2>1. 0 \in Int /\ b - 1 \in Int /\ b \in Int /\ row[k] - 1 \in Int
    BY <1>4, <1>6
  <2> HIDE DEF b
  <2> QED
    BY <1>1, <2>1, HitsFinite
<1> HIDE DEF S, T, e
<1>11. Cardinality(S \union T) = Cardinality(S) + Cardinality(T)
  <2>1. Cardinality(S \union T) = Cardinality(S) + Cardinality(T) - Cardinality(S \cap T)
    BY <1>10, FS_Union
  <2>2. Cardinality(S \cap T) = 0
    BY <1>9, FS_EmptySet
  <2> QED
    BY <1>10, <2>1, <2>2
<1> QED
  BY <1>7, <1>8, <1>11 DEF Sum, e

\* Every step preserves the counts.
LEMMA CountStep == Inv /\ CountInv /\ [Next]_vars => CountInv'
<1> SUFFICES ASSUME Inv, CountInv, [Next]_vars, job' = "count" PROVE CountInv'
  BY DEF CountInv
<1>1. CASE \E t \in Worker : WorkerStep(t)
  BY <1>1, CountWorker
<1>2. ASSUME UNCHANGED <<inputs, at, row, try, sk, out, failed, firstErr, partial>>
      PROVE  /\ job = "count" /\ Worker' = Worker /\ threadCount' = threadCount
             /\ ~failed' /\ \A t \in Worker : at'[t] \in {"row", "done"}
             /\ hit' = hit
             /\ \A t \in Worker : partial'[t] = Cardinality(hit' \cap (Begin(t)' .. row'[t] - 1))
  <2>1. job = "count" /\ hit' = hit
    BY <1>2 DEF inputs
  <2>2. /\ Worker' = Worker /\ threadCount' = threadCount /\ \A t : Begin(t)' = Begin(t)
    BY <1>2, SameParts
  <2> QED
    BY <1>2, <2>1, <2>2 DEF CountInv
<1>3. CASE UNCHANGED <<summed, hits, caller>> /\ UNCHANGED <<inputs, at, row, try, sk, out, failed, firstErr, partial>>
  <2>1. Begin(summed)' = Begin(summed)
    BY <1>3, SameParts DEF Begin
  <2> QED
    BY <1>2, <1>3, <2>1 DEF CountInv
<1>4. CASE Join
  <2>1. UNCHANGED <<inputs, at, row, try, sk, out, failed, firstErr, partial>> /\ summed' = summed /\ hits' = hits
    BY <1>4 DEF Join
  <2>2. Begin(summed)' = Begin(summed)
    BY <2>1, SameParts DEF Begin
  <2>3. caller' # "returned"
    <3>1. job = "count"
      BY <1>2, <2>1
    <3> QED
      BY <1>4, <3>1 DEF Join
  <2> QED
    BY <1>2, <2>1, <2>2, <2>3 DEF CountInv
<1>5. CASE Sum
  <2>1. UNCHANGED <<inputs, at, row, try, sk, out, failed, firstErr, partial>>
    BY <1>5 DEF Sum
  <2>2. Begin(summed)' = Begin(summed + 1)
    <3>1. chunk' = chunk /\ summed' = summed + 1
      BY <1>5, <2>1, SameParts DEF Sum
    <3> QED
      BY <3>1 DEF Begin
  <2>3. hits' = Cardinality(hit' \cap (0 .. Begin(summed)' - 1))
    BY <1>2, <1>5, <2>1, <2>2, SumExact
  <2>4. caller' = "returned" => summed' = threadCount
    <3>1. summed \in Nat /\ summed < threadCount /\ threadCount \in Nat
      BY <1>5, PartLength DEF Sum, Inv, PoolInv, TypeOK
    <3> QED
      BY <1>5, <3>1 DEF Sum
  <2> QED
    BY <1>2, <2>1, <2>3, <2>4 DEF CountInv
<1> QED
  BY <1>1, <1>3, <1>4, <1>5 DEF Next, Returned, vars

-----------------------------------------------------------------------------
(* Theorems.                                                               *)

\* The inductive invariant holds whatever the number of rows, of threads and
\* of attempts, and however the threads interleave.
THEOREM WorkersInvariance == Spec => [](TypeOK /\ WorkersInv)
<1>1. Init => Inv /\ CountInv
  BY InitInv, CountInit
<1>2. (Inv /\ CountInv) /\ [Next]_vars => (Inv /\ CountInv)'
  BY NextInv, CountStep
<1>3. Inv /\ CountInv => TypeOK /\ WorkersInv
  BY DEF Inv, WorkersInv
<1> QED
  BY <1>1, <1>2, <1>3, PTL DEF Spec

\* The workers of parallelFor never write to the same row.
THEOREM RowsPrivateHolds == Spec => []RowsPrivate
<1>1. TypeOK /\ WorkersInv => RowsPrivate
  <2> SUFFICES ASSUME Inv, NEW t \in Worker, Busy(t)
               PROVE  /\ row[t] \in Row
                      /\ \A u \in Worker : Busy(u) /\ row[u] = row[t] => u = t
    BY DEF RowsPrivate, Inv, WorkersInv
  <2>1. row[t] < End(t)
    BY DEF Inv, PoolInv, PartDone
  <2>2. \A u \in Worker : Busy(u) /\ row[u] = row[t] => u = t
    <3> SUFFICES ASSUME NEW u \in Worker, Busy(u), row[u] = row[t] PROVE u = t
      OBVIOUS
    <3>1. Begin(u) <= row[t] /\ row[t] < End(u)
      BY DEF Inv, PoolInv, PartDone
    <3> QED
      BY <2>1, <3>1, OwnRow
  <2> QED
    BY <2>1, <2>2, RowInTable
<1> QED
  BY <1>1, WorkersInvariance, PTL

\* A call of genMlKemKeys or encapMlKem that returns has filled every row,
\* and each row goes with the secret key kept for it.
THEOREM RowsCompleteHolds == Spec => []RowsComplete
<1>1. TypeOK /\ WorkersInv => RowsComplete
  <2> SUFFICES ASSUME Inv, caller = "returned", job # "count", NEW i \in Row
               PROVE  out[i] # 0 /\ (job = "gen" => out[i] = sk[i])
    BY DEF RowsComplete, Inv, WorkersInv
  <2>1. n \in Nat \ {0} /\ limit \in Nat \ {0}
    BY DEF Inv, TypeOK
  <2>2. PICK t \in Worker : Begin(t) <= i /\ i < End(t)
    BY <2>1, Covered
  <2>3. PartDone(t) /\ at[t] = "done"
    BY DEF Inv, PoolInv
  <2>4. ~failed
    BY DEF Inv, PoolInv
  <2>5. row[t] >= End(t) /\ row[t] \in Nat
    BY <2>3, <2>4 DEF PartDone, Inv, TypeOK
  <2>6. i \in Begin(t) .. row[t] - 1
    <3>1. Begin(t) \in Nat /\ End(t) \in Nat /\ i \in Nat
      BY <2>1, Parts DEF Row
    <3> QED
      BY <2>2, <2>5, <3>1
  <2> QED
    BY <2>3, <2>6 DEF PartDone
<1> QED
  BY <1>1, WorkersInvariance, PTL

\* A failure of any worker reaches the caller, and only such a failure does.
THEOREM FailureReportedHolds == Spec => []FailureReported
<1>1. TypeOK /\ WorkersInv => FailureReported
  <2> SUFFICES ASSUME TypeOK, PoolInv PROVE FailureReported
    BY DEF WorkersInv
  <2>1. failed /\ caller # "join" => caller = "threw"
    <3> SUFFICES ASSUME failed, caller # "join", caller # "threw" PROVE FALSE
      OBVIOUS
    <3>1. firstErr = -1 /\ \A t \in Worker : at[t] = "done"
      BY DEF PoolInv
    <3>2. PICK t \in Worker : at[t] = "lock"
      BY <3>1 DEF PoolInv
    <3> QED
      BY <3>1, <3>2
  <2>2. caller = "threw" => failed /\ firstErr \in Row
    BY DEF PoolInv, TypeOK
  <2> QED
    BY <2>1, <2>2 DEF FailureReported
<1> QED
  BY <1>1, WorkersInvariance, PTL

\* countDecapHits and countEcHits return the number of hits, however the rows
\* are divided and whatever the order of the workers.
THEOREM CountExactHolds == Spec => []CountExact
<1>1. TypeOK /\ WorkersInv => CountExact
  <2> SUFFICES ASSUME TypeOK, PoolInv, CountInv, caller = "returned", job = "count"
               PROVE  hits = Cardinality(hit)
    BY DEF CountExact, WorkersInv
  <2>1. n \in Nat \ {0} /\ limit \in Nat \ {0} /\ hit \in SUBSET Row
    BY DEF TypeOK
  <2>2. threadCount \in Nat \ {0} /\ chunk \in Nat \ {0} /\ threadCount * chunk >= n
    BY <2>1, PartLength
  <2>3. hits = Cardinality(hit \cap (0 .. threadCount * chunk - 1))
    BY DEF CountInv, Begin
  <2>4. threadCount * chunk \in Nat
    BY <2>2
  <2>5. ASSUME NEW i \in hit PROVE i \in 0 .. threadCount * chunk - 1
    BY <2>1, <2>2, <2>4 DEF Row
  <2>6. hit \cap (0 .. threadCount * chunk - 1) = hit
    BY <2>5
  <2> QED
    BY <2>3, <2>6
<1> QED
  BY <1>1, WorkersInvariance, PTL
=============================================================================
