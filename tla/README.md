# A TLA+ model of PQ-PSI

PQ-PSI is a two-party private set intersection program: party 0 (the receiver)
learns how many of its items party 1 (the sender) has too. This directory
models the parts of it that carry its own logic (the protocol, the networking
layer, the OKVS codec, the key codec, the permutations and the worker threads),
checks them with TLC on small instances, and proves the central results with
TLAPS for instances of any size.
Paths below are relative to the repository's root.

## 1. Inventory

### Components, their state and their operations

| Component | State it keeps | Operations | What makes it correct |
|---|---|---|---|
| **Channel** `cryptoTools/Network/BtChannel.cpp`, `BtSocket.h`, `BtIOService.cpp` | per socket: send and receive queue, their strands, outstanding operation, `mStopped`, socket handle | `send`, `asyncSend`, `recv`, `asyncRecv`, `close`; handlers `dispatch`, `sendOne`, `receiveOne` | messages arrive in order, once, in the right buffer; no queue stalls; `close()` flushes and leaves no handler behind |
| **Connection set-up and teardown** `BtEndpoint.cpp`, `BtAcceptor.cpp`, `BtIOService.cpp` | accept loop, map of socket promises, mutex, stop flags and promises | `start`, `addChannel`, `getSocket`, `getSocketPromise`, `stop`, destructors | every channel is handed to the thread that waits for it; the acceptor outlives its handlers |
| **Protocol** `frontend/pqpsi/pqpsi.cpp`, `protocols/recv.cpp`, `send.cpp`, `net.h`, `tools/mask.h`, `tools/base.h` | rows, OKVS buffers, pending receives, hit count | warm-up, key rows, encode, send, receive, decode, encapsulate, count | the count is the size of the intersection; both parties finish |
| **OKVS codec** `frontend/okvs/rb/codec.h`, `rows.h`, `types.h` | rows, right-hand sides, pivots, table | `RBRows`/`RBRowsFlat`, `RBEncode`, `RBDecode`, limb arithmetic | a returned table decodes every key; failure only on dependent rows, and then the table is untouched |
| **Worker threads, KEM rows** `protocols/tools/parallel.h`, `kem_rows.h` | rows and secret keys shared by threads, failure flag, first error, partial counts | `parallelFor`, `genMlKemKeys`, `encapMlKem`, `countDecapHits` | parts are disjoint and cover all rows; a failure reaches the caller |
| **RBFor** `frontend/okvs/rb/parallel.h` | first error | divide rows among threads | as `parallelFor` |
| **OKVS parameter fit** `frontend/okvs/rb/fit.h` | none | `RBInfoOf` | a band fits the table and fails rarely |
| **Obfuscated ML-KEM** `frontend/kem/obf-mlkem` | mode and its preimage table | `setMode`, `encodeKey`, `decodeKey`, `encodeCipher`, `decodeCipher`, KEM calls | decoding inverts encoding; every string of the right length decodes |
| **EcKem** `frontend/kem/eckem` | none | KEM on a curve with Elligator | as above |
| **Permutations** `frontend/permutation` | parameters and keys, fixed when made | `make`, `encryptBytes`, `decryptBytes` of ConsPi, Feistel, HCTR2 and Xoodoo | inverse of each other; those of the two parties differ |
| Checks, command line, benchmarks, scripts | none | start two parties, compare counts | |
| `cryptoTools/Crypto`, `Common` | none shared | AES, PRNG, containers | |
| `volepsi/`, `thirdparty/` | | another project and vendored code | |

### How they interact

`pqpsi()` creates a `BtIOService` and a `BtEndpoint`, adds its channels one after
the other (the host's user thread waits on a promise that an io thread fulfils,
the client's connects and retries), warms them up with one byte in each
direction, runs `Recv` or `Send`, closes the channels and stops the service.
`Recv` and `Send` split an OKVS table into chunks, one per channel and thread
(`net.h`). They call `RBEncode`/`RBDecode` for tables and `genRows`, `encapRows`
and the hit counters for KEM work; all of these divide rows among threads.
Key generation encodes each public key with Kemeleon, draws again if it does not
fit, and permutes the row with the party's permutation; party 1 inverts the
permutation and decodes every row, also those that hold no key.

### What is hard

* *Threads and callbacks.* A channel call posts to a strand; a completion handler
  runs outside the strand, fulfils the promise first and pops the operation
  later, so the user thread can run in between. Handshakes of several
  connections run in several io threads. Workers share vectors without a lock.
* *Failure.* Length mismatches, closed streams, refused connections, a process
  that ends, a worker that throws, an OKVS system without a solution.
* *Blocking.* Tables larger than the kernel buffers: both parties could wait for
  each other to read.
* *Boundaries.* 64-bit lengths in 32-bit headers, shifts across limbs, rounding of
  row shares and chunks, the last start column of a band, the spare bits of an
  encoded key, windows that run over the end of a row.

`PROJECT.json` lists each of these under `hazards`, at its line.

## 2. Modules

| Module | Models | State and actions in the code |
|---|---|---|
| `Pipe` | what `Channel.h` promises: two FIFO pipes and `close()` | `Send`, `Ask`, `Fill`, `Close`, `CloseReturn` |
| `BtChannel` | one channel between two parties | user calls (`CallSend`, `CallRecv`, `CallWait`, `Return`, `Close`, `CloseReturn`); strand handlers (`PushSend`, `PopSend`, `PushRecv`, `PopRecv`); completions (`WriteHeader`, `WriteBody`, `ReadHeader`, `ReadMismatch`, `ReadBody`); errors (`WriteError`, `ReadError`, `CallThrows`), which throw in an io thread and end the process |
| `Connect` | set-up and teardown of all channels of two parties | the host's user thread (`HostStart` ... `HostFree`; `HostFind`, `HostInsert`, `HostLookup` are `getSocket`), the accept loop (`AccCheck`, `AccArm`, `Accept`, `AcceptAborted`), one handshake per connection (`ReadName`, `BadName`; `NameFind`, `NameInsert`, `NameSet` are `getSocketPromise`), the map `mSocketPromises` (`entries`: the promises under each name, `filled`: the one that has the socket, `future`: the one the host waits for), the client (`ClientConnect`, `ClientRefused`, `ClientClose`, `ClientCrash`) |
| `PqPsi` | both parties of the protocol, on top of FIFO channels, with tables cut into chunks (`shouldSplit`, `use`, `per`, `Part`) | `Recv*` are the stages of `recv.cpp`, `Send*` of `send.cpp`, `Warm*` and `Configure` of `pqpsi.cpp`, `PostRecv`, `Deliver`, `SendChunk`, `SendReturn`, `Wait` of `net.h` |
| `Okvs` | what the protocol expects of an OKVS | `Succeed`, `GiveUp` |
| `RbOkvs` | `RBEncode`: `RBRows`, one `Eliminate` per row of the outer loop, `EncodeFails`, `ClearTable`, one `BackFill` per row, `EncodeReturns`; `RBDecode` | bit vectors are sets of positions, values formal sums of key symbols |
| `RbBits` | the limb arithmetic of `rows.h` that `RbOkvs` takes as set operations | limbs are natural numbers, shifts and carries as in the code |
| `Workers` | `parallelFor` and the three loops that run in it, and `RBFor` | `Leave`, `Enter`, `Fill`, `Retry`, `Reject`, `Catch`, `Record`, `CountRow`, `Join`, and `Sum`, one turn of the caller's loop over the partial counts |
| `Kemeleon` | the codec of keys and ciphertexts | one action per turn of the loops of `encodeVec`, `encodePickedVec` (`EncodeDigit`) and `decodeVec` (`DecodeDigit`), and for each way a call ends (`Overflow`, `RejectZero`, `FinishKey`, `FinishCipher`, `FinishDecode`); `setMode`; `NoiseRow` is a row without a key |
| `Xoodoo` | the rounds of Xoodoo (XKCP) and their inverses (`xoodoo_inv.h`) | operators; `mix` is one turn of the loop that inverts theta |
| `Perm` | a permutation that is made, encrypts a row and decrypts it | one action per round: `PiRound`, `PiLast`, `PiInvFirst`, `PiInvRound`, `PiInvLast`, `FeistelRound`, `FeistelInvRound`, `HctrEncrypt`, `HctrDecrypt`, `XoodooRound`, `XoodooInvRound` |
| `BtChannelProofs`, `ConnectProofs`, `PqPsiProofs`, `RbOkvsProofs`, `RbBitsProofs`, `KemeleonProofs`, `PermProofs`, `WorkersProofs` | theorems | |
| `MC*` | instances for TLC | |

They compose by refinement: `BtChannel` implements `Pipe`, and `PqPsi` uses such
pipes between its parties; `RbOkvs` implements `Okvs`, and `PqPsi` uses such a
store for its tables; `RbBits` shows that the set operations of `RbOkvs` are what
the limbs compute. The layers of `PqPsi`, which cancel their inverses, stand on
`Perm` (`RoundTrip`, `RoundsSeparated`), and its rows, which always decode, on
`Kemeleon` (`KeyRoundTrip`, `NoiseDecodes`).

### Modelling decisions

* **Data is symbolic.** In `PqPsi` a row is a base value under layers
  (permutation, its inverse, mask); a layer cancels only its inverse directly
  under it. Accidental collisions of random values are left out, so the count is
  exact rather than exact up to a negligible probability. In `RbOkvs` a value is
  a formal sum of symbols, one for each key: an identity of such sums holds for
  any blocks.
* **A TCP stream** is a sequence of messages; a body larger than the buffers is
  not written before the peer reads. A header of 2^32 is `U32`, a constant.
* **Undefined or unordered outcomes are choices.** `set_exception` with a null
  exception makes the future ready without data. The unlocked lookup
  `mSocketPromises[tag]` during an insertion of another thread finds its entry, or
  misses it and files a second promise under the name, or crashes. A thread may see
  the relaxed flag `failed` late. `async_receive` may return part of a name.
* **Exceptions in io threads** leave `io_service::run` and end the process.
* **An encoding may fail** for any keys and must fail for repeated ones, which
  hash to equal rows; `PqPsi` covers both, because the callers ignore the result.
* **Integers for byte strings.** A GMP integer and the bytes it is exported to are
  the same number in `Kemeleon`; the modulus, the number of coefficients and the
  size of a byte are constants. The seed of a key is copied by the code and left
  out. A random pick of a preimage, the hash that fills spare bits and the
  rejection of zeros are choices.
* **Primitives are constants.** `Perm` takes Keccak, SNEIK, AES, POLYVAL and SHAKE
  as operators with the only fact the constructions need: the first three can be
  inverted, all stay in their range (`PrimitiveAssumption`). Bit order inside
  bytes and the fast path for offsets that are multiples of eight are abstracted:
  both paths of `packShifted` move the same bits. `acc` of `Kemeleon` and `trace`
  of `Perm` are history variables that no action reads.
* `RBEncode` and `parallelFor` return at once for an empty set, and `RBEncode` throws
  at once for inputs of different lengths; neither touches shared state, and `Keys`
  and `Counts` are positive and of one length in the models.
* Definitions that start with "Mutant of" are plausible bugs that a property must
  detect; they are part of no specification.

## 3. What TLC checks

| Run | Instance | Distinct states | Shows |
|---|---|---|---|
| `chan_any` | all pairs of scripts of up to two calls out of six | 463,799 | `FifoDelivery`, `SocketQuiet`, `CloseFlushes`, `SendQueueDriven`, the inductive invariant `ChannelInv`, refinement of `Pipe`, with parties that disagree, abandon futures and die |
| `chan_pqpsi` | the calls `pqpsi()` makes on one channel; tables of 0, 2 and 3 units | 7,900 | `RecvQueueDriven`, `RecvReturnsData`, `RecvLength`; `BothClose`: both parties get through `close()` |
| `chan_mismatch` | parties that expect different lengths | violation | finding 1 |
| `chan_huge` | tables of 2^32 bytes and more | violation | finding 2 |
| `connect` | three channels, two connection attempts | 17,216 | `StoppedOnce`, `AcceptorFreeSafe`, `HandoverKept`; `PartiesConnect` |
| `connect_error` | two channels, a peer that ends | violation | finding 3 |
| `psi` | sets of two out of three items with repetitions, all configurations, one or three channels, tables of four blocks | 241,920 | `HitsExact`, `NoFalseHit`, `WholeTable`; `Answer`: both parties finish or both refuse |
| `okvs` | all bands of three bits for three keys, five columns | 79,284 | `DecodeReturns`, `PivotsCleared`, the inductive invariant `RbInv`, refinement of `Okvs` |
| `bits` | all pairs of masks of three limbs of three bits; bands of 5, 6 and 8 bits | 70,304 | `Trimmed`, `LeadIsLowest`, `ShiftIsExact` |
| `workers` | 1, 4 and 5 rows, 1 to 4 threads, two attempts per key | 48,539 | `RowsPrivate`, `RowsComplete`, `FailureReported`, `CountExact`, the inductive invariant `WorkersInv`; `CallEnds` |
| `kemeleon` | q = 5, modes of two and of four coefficients, bytes of four bits; all keys, ciphertexts and strings | 83,788 | `KeyRoundTrip`, `NoiseDecodes`, `CipherRoundTrip` |
| `perm` | all rows of eight bits with a window of six, three rounds of Feistel, blocks of three bits; 14 rows of 384 bits for Xoodoo | 19,728 | `RoundTrip`, `XoodooRoundTrip`, `RoundsSeparated` |

### Bounds, and why they are enough

* `U32 = 4`: lengths 1, 2, 3 are below the limit, 4 would be the limit and 5
  wraps. `SockBuf = 2`: a table of 2 fits the buffers, one of 3 does not and
  blocks its sender. `WireCap = 2`: a stream holds more than one message and can
  be full. Two calls and `close()` on each side give queues with an operation in
  progress, one waiting and a close marker behind it, which are all the roles an
  operation can have; the proofs then cover every script.
* `psi`: two items of three per party give disjoint, overlapping, equal and
  repeated items. Four blocks on three channels are cut into chunks of two, two
  and none, which arrive in any order; rounding down would lose a block.
* `okvs`: with three rows there are rows before, at and after a pivot; five
  columns for bands of three give three start columns, overlapping and
  touching bands, and dependent systems. The proofs cover every size.
* `bits`: three limbs give shifts inside a limb, by a whole limb and by more, and
  widths that end inside (5, 8) and at (6) a limb. The code's four limbs of 64
  bits use the same loops.
* `workers`: five rows and four threads make rounding leave a thread without
  rows (5 = 2 + 2 + 1 + 0), four and four give one row each. `MinWork` and
  `SmallCount` stand for the thresholds 8 (or 16) and 64.
* `kemeleon`: the mode of four coefficients leaves three spare bits in the last
  byte, the one of two leaves none. Both capacities (512 of 625 and 16 of 25) reject
  some keys. The modes differ in `du`, so that a stale table has values without a
  preimage. Both pack two coefficients in three bytes.
* `perm`: the window of six bits moves by two over the row of eight, eight rounds
  and the full circle of offsets, half of them over the end of the row; for
  the width of seven there is no step and `make` refuses it. Xoodoo runs on lanes
  of 32 bits, as in the code: a linear step that is wrong shows on rows with a
  single one bit.
* `connect`: three channels let connections be accepted, named and requested in
  different orders, and let one name be inserted while another is looked up;
  `MaxTries = 2` lets the client succeed late or give up.

`PartiesConnect` is a promise about parties that live and connections that are
named. It excepts a process that has ended (a port in use, a client that gave up,
a crash), a name that TCP delivered in two parts, and a lookup that missed its
entry so that the host waits for a promise nobody sets (`HandoverLost`). The code
handles none of these, so no property says that they end well; `HandoverKept`
confines the last one to the channel whose own lookup missed.

### Fairness

Weak fairness of each thread or handler, and of nothing else. User threads and
workers are scheduled by the operating system; `BtIOService` starts its io
threads in the constructor and keeps them in `run()` with a work object; TCP
keeps moving bytes between two live processes. No crash is ever forced, and no
particular outcome of a choice (an encoding that succeeds, a key that encodes) is
assumed. Liveness is stated for the calls of `pqpsi()`; `chan_any` has no
liveness property because a user who never answers blocks the other for good.
`CHECK_DEADLOCK FALSE` is set where the system may stop: parties that wait for
data nobody sends (`chan_any` and the violations), a process that has ended
(`connect`), and a row that has no column left to clear (`bits`).

## 4. What is proved

The constants are arbitrary, restricted only by the named assumptions of the
component modules: `ChannelAssumption`, `ConnectAssumption`, `PqPsiAssumption`,
`RbAssumption`, `RbBitsAssumption`, `KemeleonAssumption`, `PowerAssumption`,
`PermAssumption`, `WindowAssumption`, `PrimitiveAssumption`, `WorkersAssumption`. TLC
evaluates each of them. Induction over numbers is done with the least element of a
set of naturals; the laws of powers (2^0 = 1, 2^(k+1) = 2 * 2^k), which the provers do
not know, are among the assumptions.

* **Channel** (`BtChannelProofs`). `ChannelInv` says, for each direction, that
  operation numbers run without gaps through completed operations, the front in
  progress, the rest of the queue and what is posted; that the messages in the
  stream are those between what was received and what was sent; and that a close
  marker is last. It is needed because a single queue says nothing about the
  other end: `FifoDelivery` follows only because the next message in the stream
  and the next operation in the queue have the same number. The proof has one
  lemma per action. From it: `TypeCorrect`, `FifoDeliveryHolds`,
  `SocketQuietHolds`, `CloseFlushesHolds`, `SendQueueDrivenHolds`, and
  `PipeRefinement`: the channel implements `Pipe`, for any number and order of
  calls.

  The three properties of receives are promises to users who agree, and findings 1
  and 2 show them broken for others. `Matched(script)` says what agreeing is: the
  k-th receive of a party asks for as many bytes as its peer's k-th send has,
  unless its buffer is resized; `Short(script)` that no send has 2^32 bytes. From
  such a start `AgreedInvariance` and `ExactInv` trace every operation and every
  message on its way to the call that made it (`Traced`); `ChannelInv` gives the
  front receive and the first message of the stream the same number, so their
  lengths agree and `ReadMismatch` cannot happen. From it: `RecvQueueDrivenHolds`,
  `RecvReturnsDataHolds`, `RecvLengthHolds`. `MCBtChannel` assumes, and TLC
  evaluates, that the calls of `pqpsi()` are matched and short.
* **OKVS** (`RbOkvsProofs`). `RbInv` says that every row is the sum of the bands of
  the keys in its right-hand side, that rows are sorted and that cleared pivot
  columns stay clear. The last part carries the early `break`: a row
  that starts beyond the pivot cannot have a one there. `DecodeReturns` needs
  more than the rows of the back-fill: the proof adds that every solution of the
  current rows solves the original equations, which elimination preserves
  because adding a row to another can be undone. From it: `RbInvariance`,
  `DecodeReturnsHolds`, `PivotsClearedHolds`, and `OkvsRefinement`: `RBEncode`
  gives up only on dependent bands and then leaves the table alone.
* **Limbs** (`RbBitsProofs`). A limb is a number, and its bits are read off by
  halving; lemmas show what a shift, a carry from the limb below and a mask do to
  each bit. From them, for any number of limbs, limb size and band width:
  `TrimmedAlways`, `LeadIsLowestAlways` and `ShiftIsExactAlways`, which is what lets
  `RbOkvs` use sets of positions.
* **Workers** (`WorkersProofs`). Lemmas on rounded-up division show that the parts
  are disjoint and cover all rows, for any number of rows and threads.
  `WorkersInv` says what each worker has filled, and that a set flag will be
  recorded; each partial count is the number of hits a worker has passed, and
  the sum after k turns is the number of hits in the first k parts, because the
  parts adjoin. From it: `WorkersInvariance`, `RowsPrivateHolds`,
  `RowsCompleteHolds`, `FailureReportedHolds`, `CountExactHolds`.
* **Connections** (`ConnectProofs`). `ConnInv` joins the types with four facts: the
  accept loop is started once, and the stop promise is set just when it has ended,
  which the host waits for (`LoopInv`); a connection in the backlog has no handshake
  yet and is there once (`QueueInv`); a promise is set just when its handshake is
  over, and all are before the protocol runs (`ReadyInv`); and whoever inserts a name
  holds the mutex and the name has no entry yet, so that a name has at most one
  promise unless a lookup missed it (`MapInv`). None is inductive alone: that a
  promise is set once needs that its connection was never named before.
  `HandoverKept` follows: the promise the host waits for and the one its connection
  sets are both filed under the name, and there is only one. From it, for any number of channels and attempts: `TypeCorrect`,
  `StoppedAtMostOnce`, `AcceptorFreedSafely`, `HandoverIsKept`.
* **Protocol** (`PqPsiProofs`). `PsiInv` has the types, that the warm-ups of the
  parties are at most one step apart (`WarmInv`), what each channel holds at each
  pair of positions (`NetInv`: no table meets a warm-up byte), which blocks of
  a buffer have arrived (`BufInv`) and, for every position of each party, the
  layers of its rows (`RowInv`). A lemma on rounded-up division shows that the
  chunks cover the table. From it, for sets of any size, any number of channels
  and blocks and every configuration: `TypeCorrect`, `WholeTableDecoded`,
  `NoFalseHitCounted`, `HitsAreExact`.
* **Key codec** (`KemeleonProofs`). `KemInv` says, for a key, that the integer after
  each turn is recorded and that decoding runs back over the record: dividing
  x * q + y by q gives x and y when y < q. For noise, that the rest of
  the integer is below q to the power of the digits that are left. From it:
  `KeyRoundTripHolds`, `NoiseDecodesHolds`, for every modulus, length and mode.
  For ciphertexts (`CipherRoundTripHolds`): a value of du bits always has a preimage
  below q, because 2^du is at most q (`PowerAssumption`; 2^11 and 2^10 against
  3329 in the code), so `encodePickedVec` never runs out of choices; `decodeCipher`
  compresses each coefficient back to the value it was picked for, and the bits
  packed across bytes are the bits that are unpacked. `KemInv` therefore also says
  that the preimage table is the one of the current mode whenever a call starts.
  That a string of vecBits bits is below q^vecSize comes from the way `makeInfo`
  computes vecBits; `PowerAssumption` adds that q^vecSize + 1 is no power of two,
  and facts about powers that the provers do not know.
* **Permutations** (`PermProofs`). `PermInv` says that each entry of the trace leads
  to the next by a round, and that decryption is back at an entry of it: for ConsPi
  up to the rotation by the offset, because encryption ends with a rotated row
  while the offsets of decryption start at zero. Lemmas show that a window written
  back is read again, that the round constants cancel, and that a rotation
  commutes with a round. From it: `RoundTripHolds`, for rows, windows, steps and
  numbers of rounds of any size and any primitives that can be inverted.
  `XoodooRoundTripHolds`, on 32-bit lanes and every state: each step of a round has
  its inverse, the repository's `theta` because the five turns of its loop (`mix`,
  distances 1, 2, 4, 8, 16) undo XKCP's `Theta`. `RoundsSeparatedHolds`: the constants of two rounds,
  or of the two parties, differ in the bits that consecutive windows share,
  provided those bits suffice to write the round number and the party
  (`WindowAssumption`; `bestStep` leaves at least twice the security parameter, 256
  bits, while a round number has a handful).

**Only model-checked.**

* All liveness (`BothClose`, `PartiesConnect`, `Answer`, `CallEnds`), which is
  outside the reach of the prover.
* That `AgreedInv` covers `pqpsi()`: an instance of `Matched` that TLC evaluates.

Every invariant and every action property of a passing run is a theorem, and so are
both refinements.

**A note on the prover.** The SMT translation of tlapm 1.4.5 states, for every value
S, that DOMAIN S = 1..n if and only if Len(S) = n. For a function that is no sequence
the second half is wrong, and together with 0 <= Len(S) it can make an obligation
about sequences and other functions contradictory. The proofs do not rest on it: all
of them have also been checked with that statement cut down to its first half.

## 5. Findings

1. *A receive with the wrong length succeeds, and stalls its queue*
   (`BtIOService.cpp:182`). The handler builds an exception, drops it and stores
   `std::current_exception()`, which is null outside a catch block. `Channel.h:71`
   says the call will throw. The handler then returns (line 186) without popping
   the operation, so no later receive is started, although the comment at line 353
   relies on the front operation to start them; `close()` waits for ever.
2. *Lengths are cut to 32 bits* (`BtChannel.cpp:41`). A table of 2^32 + k bytes is
   sent and received as k bytes, and both calls succeed.
3. *A handshake goes on after a failed read* (`BtAcceptor.cpp:101`). The condition
   `!ec2 || bytesTransferred != 4` also holds on an error; the branch that logs
   and frees is not reached.

None of them is met by two parties of the same configuration with tables below
4 GiB on a connection that stays up, which is what the passing runs show.

## 6. What is not modelled

* Byte statistics, stage timing, profiling, tracing and the simulated network
  delay: they change no control flow.
* Reuse of an acceptor by several endpoints: `pqpsi()` makes one endpoint per
  service.
* Workers of `RBFor` that throw. Two of them would race for an unlocked
  `exception_ptr`; only the two-dimensional `RBRows` throws there, and the protocol
  uses the flat one.
* Windows of ConsPi without room beyond the round number, for which the code leaves
  out the bit that tells the parties apart (`cons.h:387`): `WindowAssumption` excludes
  them, and `bestStep` chooses none.
* Parties with different numbers of channels. Each takes the number from its own
  hardware and environment; they would wait for each other.
* `fit.h`: floating-point interpolation of measured failure rates, with no state.
  TLC evaluates no floating point, and a table of integers in its place would not
  be the code. The models take the band and the table width as constants.
* EcKem, ML-KEM and curve arithmetic, hashing, AES, POLYVAL, Keccak and SNEIK:
  primitives, or calls into libraries; only what is built on them is modelled.
* Parsing of permutation names and of the command line, benchmarks and scripts.
* `volepsi/` is another project kept for comparison, and `thirdparty/` is vendored;
  together they are most of the repository's lines, so the share of all lines
  that the models cover is small. Of `thirdparty/` only the Xoodoo rounds are
  modelled, because the repository has its own inverse of them.

## 7. State of the plan

Done: the channel, the OKVS, the protocol with its chunks, the workers, the
connections, the key codec and the permutations, each with its run, and theorems
for all of them. Left, in order of use:

1. The error path of `RBFor`, with two workers that throw, if the protocol ever
   uses the two-dimensional `RBRows`.
2. Several endpoints on one acceptor.
3. The path from `Matched` for one channel to the chunks of `PqPsi`: a proof that
   `net.h` makes matched calls for any table and number of channels.
