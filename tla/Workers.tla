------------------------------- MODULE Workers -------------------------------
(***************************************************************************)
(* The worker threads of the protocol: parallelFor (tools/parallel.h) and  *)
(* the three jobs of tools/kem_rows.h that share state between workers or  *)
(* can fail: key generation (genMlKemKeys: an unlucky key cannot be        *)
(* encoded and is drawn again), encapsulation (encapMlKem) and the count   *)
(* of hits (countDecapHits, countEcHits); and RBFor (okvs/rb/parallel.h),  *)
(* whose workers fill rows of the OKVS and do not fail.                    *)
(*                                                                         *)
(* A key is the number of the attempt that drew it.  The flag `failed` is  *)
(* read and written with memory_order_relaxed, so a worker may still see   *)
(* it false after another one has set it.                                  *)
(***************************************************************************)
EXTENDS Integers, FiniteSets

CONSTANTS
    Counts,     \* numbers of rows
    Limits,     \* what workerLimit may return
    MinWork,    \* rows worth a thread, 8 in the source
    MaxTries,   \* kMaxKeyTries, 64 in the source
    SmallCount  \* below this many rows one thread counts hits or runs RBFor, 64

ASSUME WorkersAssumption ==
    /\ Counts \subseteq Nat \ {0}
    /\ Limits \subseteq Nat \ {0}
    /\ MinWork \in Nat \ {0}
    /\ MaxTries \in Nat \ {0}
    /\ SmallCount \in Nat

VARIABLES
    job,       \* "gen", "encap", "count" or "okvs"
    n,         \* number of rows
    limit,     \* workerLimit(multiThread, workerThreads)
    hit,       \* the rows whose secret decapsulates
    at,        \* at[t]: where worker t is
    row,       \* row[t]: the row worker t is at
    try,       \* try[t]: failed attempts at that row
    sk,        \* sk[i]: the attempt whose secret key is kept for row i
    out,       \* out[i]: the attempt whose public key (or ciphertext) is in row i, or 0
    failed,
    firstErr,  \* the row whose exception is kept, or -1
    partial,   \* partial[t]: hits of worker t
    caller,    \* "join", "sum" when counts are added, then "returned" or "threw"
    summed,    \* how many entries of partial have been added
    hits       \* their sum, which the count returns

inputs == <<job, n, limit, hit>>
vars == <<inputs, at, row, try, sk, out, failed, firstErr, partial, caller, summed, hits>>

-----------------------------------------------------------------------------
(* How the rows are divided.                                               *)

AtLeast1(x) == IF x < 1 THEN 1 ELSE x
Least(a, b) == IF a < b THEN a ELSE b

workerCount == AtLeast1(Least(limit, AtLeast1(n \div MinWork)))

\* countDecapHits divides the rows itself and gives each thread one part.
countThreads == IF n < SmallCount THEN 1 ELSE Least(limit, n)

\* RBFor, like the count, asks for no minimum length of a part.
rbThreads == IF n < SmallCount THEN 1 ELSE Least(limit, n)

threadCount ==
    CASE job = "count" -> countThreads
      [] job = "okvs" -> rbThreads
      [] OTHER -> workerCount

\* Mutant of chunk: the division rounds down.
chunkDown == n \div threadCount

chunk == (n + threadCount - 1) \div threadCount

Begin(t) == t * chunk

\* Mutant of End: one row too many.
EndTooFar(t) == Least(n, Begin(t) + chunk + 1)

End(t) == Least(n, Begin(t) + chunk)

Row == 0 .. n - 1

\* The loop that starts threads stops at the first part that is empty.
\* When hits are counted every thread is started, and may find no row.
Worker == {t \in 0 .. threadCount - 1 : Begin(t) < n \/ job = "count"}

-----------------------------------------------------------------------------
Init ==
    /\ job \in {"gen", "encap", "count", "okvs"}
    /\ n \in Counts
    /\ limit \in Limits
    /\ hit \in SUBSET Row
    /\ job # "count" => hit = {}
    /\ at = [t \in Worker |-> "row"]
    /\ row = [t \in Worker |-> Begin(t)]
    /\ try = [t \in Worker |-> 0]
    /\ sk = [i \in Row |-> 0]
    /\ out = [i \in Row |-> 0]
    /\ failed = FALSE
    /\ firstErr = -1
    /\ partial = [t \in Worker |-> 0]
    /\ caller = "join"
    /\ summed = 0
    /\ hits = 0

\* The loop condition, and the check of the flag in gen and encap.
Leave(t) ==
    /\ at[t] = "row"
    /\ row[t] >= End(t) \/ (failed /\ job # "count")
    /\ at' = [at EXCEPT ![t] = "done"]
    /\ UNCHANGED <<inputs, row, try, sk, out, failed, firstErr, partial, caller, summed, hits>>

\* genMlKemKeys clears the row and starts drawing keys; encapMlKem goes on to
\* decode the key in the row.
Enter(t) ==
    /\ job # "count"
    /\ at[t] = "row"
    /\ row[t] < End(t)
    /\ at' = [at EXCEPT ![t] = "try"]
    /\ try' = [try EXCEPT ![t] = 0]
    /\ out' = IF job = "gen" THEN [out EXCEPT ![row[t]] = 0] ELSE out
    /\ UNCHANGED <<inputs, row, sk, failed, firstErr, partial, caller, summed, hits>>

\* A key pair that encodes, a key that decodes and is encapsulated to, or a
\* row of the OKVS.
Fill(t) ==
    /\ at[t] = "try"
    /\ sk' = IF job = "gen" THEN [sk EXCEPT ![row[t]] = try[t] + 1] ELSE sk
    /\ out' = [out EXCEPT ![row[t]] = try[t] + 1]
    /\ row' = [row EXCEPT ![t] = @ + 1]
    /\ at' = [at EXCEPT ![t] = "row"]
    /\ UNCHANGED <<inputs, try, failed, firstErr, partial, caller, summed, hits>>

\* Mutant of Retry: a key that cannot be encoded is put in the row as it is.
RetryStores(t) ==
    /\ job = "gen"
    /\ at[t] = "try"
    /\ try' = [try EXCEPT ![t] = @ + 1]
    /\ out' = [out EXCEPT ![row[t]] = try[t]]
    /\ sk' = [sk EXCEPT ![row[t]] = try[t] + 1]
    /\ row' = [row EXCEPT ![t] = @ + 1]
    /\ at' = [at EXCEPT ![t] = "row"]
    /\ UNCHANGED <<inputs, failed, firstErr, partial, caller, summed, hits>>

\* Mutants of Retry: an attempt too many, no bound on the attempts.
RetryOnceMore(t) ==
    /\ job = "gen"
    /\ at[t] = "try"
    /\ sk' = [sk EXCEPT ![row[t]] = try[t] + 1]
    /\ try' = [try EXCEPT ![t] = @ + 1]
    /\ at' = [at EXCEPT ![t] = IF try[t] + 1 <= MaxTries THEN "try" ELSE "throw"]
    /\ UNCHANGED <<inputs, row, out, failed, firstErr, partial, caller, summed, hits>>

RetryForever(t) ==
    /\ job = "gen"
    /\ at[t] = "try"
    /\ sk' = [sk EXCEPT ![row[t]] = 1 - @]
    /\ UNCHANGED <<inputs, at, row, try, out, failed, firstErr, partial, caller, summed, hits>>

\* A key pair whose public key does not encode: its secret key is in sk[i]
\* already.  After kMaxKeyTries the worker throws.
Retry(t) ==
    /\ job = "gen"
    /\ at[t] = "try"
    /\ sk' = [sk EXCEPT ![row[t]] = try[t] + 1]
    /\ try' = [try EXCEPT ![t] = @ + 1]
    /\ at' = [at EXCEPT ![t] = IF try[t] + 1 < MaxTries THEN "try" ELSE "throw"]
    /\ UNCHANGED <<inputs, row, out, failed, firstErr, partial, caller, summed, hits>>

\* encapMlKem throws at once if the row does not decode to a key.
Reject(t) ==
    /\ job = "encap"
    /\ at[t] = "try"
    /\ at' = [at EXCEPT ![t] = "throw"]
    /\ UNCHANGED <<inputs, row, try, sk, out, failed, firstErr, partial, caller, summed, hits>>

\* Mutant of Catch: the exception is dropped.
CatchDrops(t) ==
    /\ at[t] = "throw"
    /\ failed' = TRUE
    /\ at' = [at EXCEPT ![t] = "done"]
    /\ UNCHANGED <<inputs, row, try, sk, out, firstErr, partial, caller, summed, hits>>

\* The handler: first the flag, then, under the mutex, the exception.
Catch(t) ==
    /\ at[t] = "throw"
    /\ failed' = TRUE
    /\ at' = [at EXCEPT ![t] = "lock"]
    /\ UNCHANGED <<inputs, row, try, sk, out, firstErr, partial, caller, summed, hits>>

Record(t) ==
    /\ at[t] = "lock"
    /\ firstErr' = IF firstErr = -1 THEN row[t] ELSE firstErr
    /\ at' = [at EXCEPT ![t] = "done"]
    /\ UNCHANGED <<inputs, row, try, sk, out, failed, partial, caller, summed, hits>>

\* One turn of the counting loop.
CountRow(t) ==
    /\ job = "count"
    /\ at[t] = "row"
    /\ row[t] < End(t)
    /\ partial' = [partial EXCEPT ![t] = @ + (IF row[t] \in hit THEN 1 ELSE 0)]
    /\ row' = [row EXCEPT ![t] = @ + 1]
    /\ UNCHANGED <<inputs, at, try, sk, out, failed, firstErr, caller, summed, hits>>

\* The workers are joined; an exception is thrown again.
Join ==
    /\ caller = "join"
    /\ \A t \in Worker : at[t] = "done"
    /\ caller' = CASE firstErr # -1 -> "threw"
                   [] firstErr = -1 /\ job = "count" -> "sum"
                   [] OTHER -> "returned"
    /\ UNCHANGED <<inputs, at, row, try, sk, out, failed, firstErr, partial, summed, hits>>

\* One turn of the loop that adds the counts up.
Sum ==
    /\ caller = "sum"
    /\ hits' = hits + partial[summed]
    /\ summed' = summed + 1
    /\ caller' = IF summed + 1 < threadCount THEN "sum" ELSE "returned"
    /\ UNCHANGED <<inputs, at, row, try, sk, out, failed, firstErr, partial>>

Returned == caller \in {"returned", "threw"} /\ UNCHANGED vars

WorkerStep(t) == Leave(t) \/ Enter(t) \/ Fill(t) \/ Retry(t) \/ Reject(t)
                   \/ Catch(t) \/ Record(t) \/ CountRow(t)

Next == (\E t \in Worker : WorkerStep(t)) \/ Join \/ Sum \/ Returned

Spec == Init /\ [][Next]_vars

Thread == UNION {0 .. l - 1 : l \in Limits}

\* The operating system runs every thread.
Fairness == WF_vars(Join) /\ WF_vars(Sum) /\ \A t \in Thread : WF_vars(t \in Worker /\ WorkerStep(t))

FairSpec == Spec /\ Fairness

-----------------------------------------------------------------------------
(* Properties.                                                             *)

\* The type invariant.  A key is drawn at most MaxTries times and an error
\* comes from a row of the call.
TypeOK ==
    /\ job \in {"gen", "encap", "count", "okvs"}
    /\ n \in Nat \ {0}
    /\ limit \in Nat \ {0}
    /\ hit \in SUBSET Row
    /\ at \in [Worker -> {"row", "try", "throw", "lock", "done"}]
    /\ row \in [Worker -> Nat]
    /\ try \in [Worker -> 0 .. MaxTries]
    /\ sk \in [Row -> 0 .. MaxTries]
    /\ out \in [Row -> 0 .. MaxTries]
    /\ failed \in BOOLEAN
    /\ firstErr \in Row \union {-1}
    /\ partial \in [Worker -> Nat]
    /\ caller \in {"join", "sum", "returned", "threw"}
    /\ summed \in 0 .. threadCount
    /\ hits \in Nat

\* Worker t is writing to its row.
Busy(t) == at[t] \in {"try", "throw", "lock"}

\* No two workers ever write to the same row, and none beyond the last one:
\* the rows and secret keys need no lock.
RowsPrivate ==
    \A t \in Worker : Busy(t) => /\ row[t] \in Row
                                 /\ \A u \in Worker : Busy(u) /\ row[u] = row[t] => u = t

\* If the call returns, every row holds the public key of the secret key kept
\* for it (or its ciphertext): no row is skipped between two parts, and a
\* retry leaves no secret key of an earlier attempt behind.
RowsComplete ==
    caller = "returned" /\ job # "count" => \A i \in Row :
        out[i] # 0 /\ (job = "gen" => out[i] = sk[i])

\* If some worker failed, the caller does not return as if nothing happened,
\* and it throws only what a worker threw.
FailureReported ==
    /\ failed /\ caller # "join" => caller = "threw"
    /\ caller = "threw" => failed /\ firstErr \in Row

\* Every hit is counted once, however the rows are divided.
CountExact == caller = "returned" /\ job = "count" => hits = Cardinality(hit)

\* What each worker has done, and is still allowed to do: the inductive
\* invariant behind the three properties above.  A worker stays in its part,
\* has filled every row before the one it is at, and leaves its part early
\* only if the flag is set, which some worker has recorded or will record.
PartDone(t) ==
    /\ row[t] >= Begin(t)
    /\ Begin(t) <= n => row[t] <= End(t)
    /\ Busy(t) => row[t] < End(t)
    /\ job # "count" => \A i \in Begin(t) .. row[t] - 1 :
                          out[i] # 0 /\ (job = "gen" => out[i] = sk[i])
    /\ at[t] = "done" /\ ~failed => row[t] >= End(t)
    /\ at[t] = "try" => try[t] < MaxTries
    /\ at[t] = "lock" => failed

PoolInv ==
    /\ \A t \in Worker : PartDone(t)
    /\ failed /\ firstErr = -1 => \E t \in Worker : at[t] = "lock"
    /\ firstErr # -1 => failed
    /\ caller # "join" => \A t \in Worker : at[t] = "done"
    /\ caller = "threw" <=> caller # "join" /\ firstErr # -1
    /\ caller = "join" => summed = 0
    /\ caller = "sum" => job = "count" /\ summed < threadCount

\* A worker has counted the hits of its part before the row it is at, and the
\* caller those of the parts it has added.
CountInv ==
    job = "count" =>
        /\ ~failed /\ \A t \in Worker : at[t] \in {"row", "done"}
        /\ \A t \in Worker : partial[t] = Cardinality(hit \cap (Begin(t) .. row[t] - 1))
        /\ hits = Cardinality(hit \cap (0 .. Begin(summed) - 1))
        /\ caller = "returned" => summed = threadCount

WorkersInv == PoolInv /\ CountInv

\* The call ends: workers that see the flag leave, and the others run out of
\* rows or attempts.
CallEnds == <>(caller \in {"returned", "threw"})
=============================================================================
