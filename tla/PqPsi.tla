-------------------------------- MODULE PqPsi --------------------------------
(***************************************************************************)
(* The PQ-PSI protocol between party 0 (Recv, protocols/recv.cpp) and      *)
(* party 1 (Send, protocols/send.cpp), from the warm-up of the channels    *)
(* (pqpsi.cpp) to the hit count.                                           *)
(*                                                                         *)
(* Data is symbolic.  A row is a base (a public key, a ciphertext with its *)
(* shared secret, or noise) under layers: a permutation Pi of a party, its *)
(* inverse, or the mask H(x) of an item.  A layer cancels its inverse when *)
(* it is applied right on top of it; nothing else cancels, so accidental   *)
(* collisions of random values are left out.  An OKVS table gives back     *)
(* the row of every key it was built from and noise for any other key.     *)
(*                                                                         *)
(* A table is an array of blocks that travels in chunks, one per channel   *)
(* (protocols/net.h); each channel is the FIFO pipe that BtChannel         *)
(* implements.                                                             *)
(***************************************************************************)
EXTENDS Naturals, Sequences, FiniteSets

CONSTANTS
    Item,       \* what the sets hold
    N,          \* setSize, the same at both parties
    NumCh,      \* channels between the parties if they are multithreaded
    NumBlock,   \* blocks of a table
    MinSplit    \* minParallelBytes in blocks, 1024 in the source

ASSUME PqPsiAssumption ==
    /\ N \in Nat \ {0}
    /\ NumCh \in Nat \ {0}
    /\ NumBlock \in Nat \ {0}
    /\ MinSplit \in Nat

Party == {0, 1}
Peer(p) == 1 - p
Index == 1 .. N
Channel == 1 .. NumCh
Block == 1 .. NumBlock

VARIABLES
    set,      \* set[p][i]: item i of party p
    cfg,      \* configuration both parties were started with
    at,       \* at[p]: the next step of party p
    warm,     \* warm[p]: sends and receives of the warm-up that are done
    net,      \* net[p][c]: what p sent on channel c and the peer has not read
    toSend,   \* chunks of the outgoing table not yet handed to their channel
    posted,   \* chunks whose receive is posted and not yet complete
    rows,     \* rows[p][i]
    buf,      \* the buffer `buf` of each party: the table each block is of
    recvBuf,  \* the buffer recvBuf of party 0, likewise
    hits,     \* *hitOut
    encoded   \* encoded[p]: what RBEncode returned; the code does not look

vars == <<set, cfg, at, warm, net, toSend, posted, rows, buf, recvBuf, hits, encoded>>

-----------------------------------------------------------------------------
(* How a table is divided (net.h).                                         *)

numChannels == IF cfg.multiThread THEN NumCh ELSE 1

shouldSplit == cfg.multiThread /\ numChannels > 1 /\ NumBlock >= MinSplit

use == IF numChannels < NumBlock THEN numChannels ELSE NumBlock

\* Mutant of per: the division rounds down.
perDown == NumBlock \div use

per == (NumBlock + use - 1) \div use

\* The blocks that go on a channel; rounding up may leave the last channels
\* without any.
Part(c) ==
    IF shouldSplit
    THEN {b \in Block : c <= use /\ (c - 1) * per < b /\ b <= c * per}
    ELSE {b \in Block : c = 1}

Chunk == {c \in Channel : Part(c) # {}}

-----------------------------------------------------------------------------
(* Rows.                                                                   *)

Row(kind, of) == [kind |-> kind, of |-> of, layers |-> <<>>]
Noise == Row("noise", 0)
Zero == Row("zero", 0)

\* Puts a layer on a row, or takes off the inverse layer on top of it.
Layer(l, inverse, row) ==
    LET d == Len(row.layers) IN
    IF d > 0 /\ row.layers[d] = inverse
    THEN [row EXCEPT !.layers = SubSeq(@, 1, d - 1)]
    ELSE [row EXCEPT !.layers = Append(@, l)]

\* Pi of a party.  Xoodoo, which EcKem always uses, ignores the party.
PiOf(p) == IF cfg.kem = "EcKem" THEN 0 ELSE p

permute(p, row) == Layer(<<"Pi", PiOf(p)>>, <<"PiInverse", PiOf(p)>>, row)
unpermute(p, row) == Layer(<<"PiInverse", PiOf(p)>>, <<"Pi", PiOf(p)>>, row)
xorMask(x, row) == Layer(<<"H", x>>, <<"H", x>>, row)

\* genRows: a fresh key pair for each item; the row holds the public key.
genRows == [i \in Index |-> Row("pk", i)]

\* encapRows: a ciphertext and its secret under whatever key the row decodes
\* to; only the row of key i is a key whose secret key party 0 has.
encapRow(row) == Row("ct", IF row = Row("pk", row.of) THEN row.of ELSE 0)

\* Mutant of decap: the secret of the row is compared with itself.
decapSelf(i, row) == TRUE

\* decapBytes: the secret in the row is the one sk[i] gives.
decap(i, row) == row = Row("ct", i)

\* Mutant of countHits: an index too many.
countHitsTooFar(r) == Cardinality({i \in Index : decap(i, r[i])}) + 1

countHits(r) == Cardinality({i \in Index : decap(i, r[i])})

-----------------------------------------------------------------------------
(* OKVS tables.                                                            *)

NoTable == [rows |-> <<>>, keys |-> <<>>]
Table(keys, r) == [rows |-> r, keys |-> keys]

\* RBEncode can succeed: equal keys give equal band rows, a singular system.
Encodable(keys) == \A i, j \in Index : keys[i] = keys[j] => i = j

\* RBDecode at one key of a buffer that may hold pieces of several tables.
RBDecodeRow(b, key) ==
    LET t == b[1] IN
    IF \E k \in Block : b[k] # t THEN Noise
    ELSE IF t = NoTable THEN Zero
    ELSE IF \E i \in Index : t.keys[i] = key
         THEN t.rows[CHOOSE i \in Index : t.keys[i] = key]
         ELSE Noise

RBDecode(b, p) == [i \in Index |-> RBDecodeRow(b, set[p][i])]

\* RBEncode into buf, which it assigns only if the system is solvable; the
\* callers ignore the result and go on with what is in buf.
RBEncode(p) ==
    \/ /\ Encodable(set[p])
       /\ buf' = [buf EXCEPT ![p] = [b \in Block |-> Table(set[p], rows[p])]]
       /\ encoded' = [encoded EXCEPT ![p] = TRUE]
    \/ /\ encoded' = [encoded EXCEPT ![p] = FALSE]
       /\ UNCHANGED buf

-----------------------------------------------------------------------------
Cfg == [kem : {"ObfMlKem", "EcKem"}, pi : {"wide", "Xoodoo"},
        bobPi : BOOLEAN, long : BOOLEAN, multiThread : BOOLEAN]

Init ==
    /\ set \in [Party -> [Index -> Item]]
    /\ cfg \in Cfg
    /\ at = [p \in Party |-> "warm"]
    /\ warm = [p \in Party |-> 0]
    /\ net = [p \in Party |-> [c \in Channel |-> <<>>]]
    /\ toSend = [p \in Party |-> {}]
    /\ posted = [p \in Party |-> {}]
    /\ rows = [p \in Party |-> [i \in Index |-> Zero]]
    /\ buf = [p \in Party |-> [b \in Block |-> NoTable]]
    /\ recvBuf = [b \in Block |-> NoTable]
    /\ hits = 0
    /\ encoded = [p \in Party |-> FALSE]

Goto(p, from, to) == at[p] = from /\ at' = [at EXCEPT ![p] = to]

\* Mutant of WarmSends: both parties wait first.
WarmSendsLate(p) == warm[p] % 2 = 1

\* warmChannels: on every channel in turn party 0 sends a byte and waits for
\* one, party 1 waits for a byte and sends one.
WarmChannel(p) == (warm[p] \div 2) + 1
WarmSends(p) == warm[p] % 2 = p

WarmByte == <<"warm">>

WarmSend(p) ==
    /\ at[p] = "warm" /\ warm[p] < 2 * numChannels /\ WarmSends(p)
    /\ net' = [net EXCEPT ![p][WarmChannel(p)] = Append(@, WarmByte)]
    /\ warm' = [warm EXCEPT ![p] = @ + 1]
    /\ UNCHANGED <<set, cfg, at, toSend, posted, rows, buf, recvBuf, hits, encoded>>

WarmRecv(p) ==
    /\ at[p] = "warm" /\ warm[p] < 2 * numChannels /\ ~WarmSends(p)
    /\ net[Peer(p)][WarmChannel(p)] # <<>>
    /\ net' = [net EXCEPT ![Peer(p)][WarmChannel(p)] = Tail(@)]
    /\ warm' = [warm EXCEPT ![p] = @ + 1]
    /\ UNCHANGED <<set, cfg, at, toSend, posted, rows, buf, recvBuf, hits, encoded>>

\* After the warm-up pqpsi() settles the KEM and the permutation, and only
\* now refuses Xoodoo without EcKem; the exception ends the process.
Configure(p) ==
    /\ warm[p] = 2 * numChannels
    /\ Goto(p, "warm", IF cfg.kem = "ObfMlKem" /\ cfg.pi = "Xoodoo" THEN "dead"
                       ELSE IF p = 0 THEN "keygen" ELSE "post")
    /\ UNCHANGED <<set, cfg, warm, net, toSend, posted, rows, buf, recvBuf, hits, encoded>>

-----------------------------------------------------------------------------
(* Messages, at both parties (net::asyncRecv, PendingRecv::wait, net::send).*)

\* A chunk arrives in the buffer posted for it, whatever the party is doing.
Deliver(p, c) ==
    /\ c \in posted[p] /\ at[p] # "dead"
    /\ net[Peer(p)][c] # <<>>
    /\ net' = [net EXCEPT ![Peer(p)][c] = Tail(@)]
    /\ posted' = [posted EXCEPT ![p] = @ \ {c}]
    /\ LET chunk == Head(net[Peer(p)][c])
           Filled(old) == [b \in Block |-> IF b \in Part(c) THEN chunk[b] ELSE old[b]]
       IN IF p = 0 THEN recvBuf' = Filled(recvBuf) /\ UNCHANGED buf
                   ELSE buf' = [buf EXCEPT ![p] = Filled(buf[p])] /\ UNCHANGED recvBuf
    /\ UNCHANGED <<set, cfg, at, warm, toSend, rows, hits, encoded>>

PostRecv(p) ==
    /\ Goto(p, "post", IF p = 0 THEN "send" ELSE "wait")
    /\ posted' = [posted EXCEPT ![p] = Chunk]
    /\ toSend' = [toSend EXCEPT ![p] = IF p = 0 THEN Chunk ELSE {}]
    /\ UNCHANGED <<set, cfg, warm, net, rows, buf, recvBuf, hits, encoded>>

\* eachChunk: a thread per chunk sends it on its channel.
SendChunk(p, c) ==
    /\ at[p] = "send" /\ c \in toSend[p]
    /\ net' = [net EXCEPT ![p][c] = Append(@, [b \in Part(c) |-> buf[p][b]])]
    /\ toSend' = [toSend EXCEPT ![p] = @ \ {c}]
    /\ UNCHANGED <<set, cfg, at, warm, posted, rows, buf, recvBuf, hits, encoded>>

\* The threads are joined.  A chunk too long for the kernel buffers is sent
\* only when the peer has taken it.
SendReturn(p) ==
    /\ toSend[p] = {}
    /\ cfg.long => \A c \in Chunk : net[p][c] = <<>>
    /\ Goto(p, "send", IF p = 0 THEN "wait" ELSE "done")
    /\ UNCHANGED <<set, cfg, warm, net, toSend, posted, rows, buf, recvBuf, hits, encoded>>

\* Mutant of Wait: only the future of the first chunk is waited for.
WaitFirst(p) ==
    /\ 1 \notin posted[p]
    /\ Goto(p, "wait", "decode")
    /\ UNCHANGED <<set, cfg, warm, net, toSend, posted, rows, buf, recvBuf, hits, encoded>>

Wait(p) ==
    /\ posted[p] = {}
    /\ Goto(p, "wait", "decode")
    /\ UNCHANGED <<set, cfg, warm, net, toSend, posted, rows, buf, recvBuf, hits, encoded>>

-----------------------------------------------------------------------------
(* Recv, party 0.                                                          *)

\* Key generation, the mask cache, and the rows Pi(pk_i) ^ H(x_i).
RecvRows ==
    /\ Goto(0, "keygen", "encode")
    /\ rows' = [rows EXCEPT ![0] =
                  [i \in Index |-> xorMask(set[0][i], permute(0, genRows[i]))]]
    /\ UNCHANGED <<set, cfg, warm, net, toSend, posted, buf, recvBuf, hits, encoded>>

RecvEncode ==
    /\ Goto(0, "encode", "post")
    /\ RBEncode(0)
    /\ UNCHANGED <<set, cfg, warm, net, toSend, posted, rows, recvBuf, hits>>

\* Mutant of RecvDecode: it takes off the Pi of the wrong party.
RecvDecodeOwnPi ==
    /\ Goto(0, "decode", "count")
    /\ LET r == RBDecode(recvBuf, 0)
           unmasked(i) == xorMask(set[0][i], r[i])
       IN rows' = [rows EXCEPT ![0] =
            [i \in Index |-> IF cfg.bobPi THEN unpermute(0, unmasked(i)) ELSE unmasked(i)]]
    /\ UNCHANGED <<set, cfg, warm, net, toSend, posted, buf, recvBuf, hits, encoded>>

\* Decode OKVS2, take off H(x_i) and, if party 1 permutes, its Pi.
RecvDecode ==
    /\ Goto(0, "decode", "count")
    /\ LET r == RBDecode(recvBuf, 0)
           unmasked(i) == xorMask(set[0][i], r[i])
       IN rows' = [rows EXCEPT ![0] =
            [i \in Index |-> IF cfg.bobPi THEN unpermute(1, unmasked(i)) ELSE unmasked(i)]]
    /\ UNCHANGED <<set, cfg, warm, net, toSend, posted, buf, recvBuf, hits, encoded>>

RecvCount ==
    /\ Goto(0, "count", "done")
    /\ hits' = countHits(rows[0])
    /\ UNCHANGED <<set, cfg, warm, net, toSend, posted, rows, buf, recvBuf, encoded>>

-----------------------------------------------------------------------------
(* Send, party 1.                                                          *)

\* Decode OKVS1, take off H(y_j) and the Pi of party 0.
SendDecode ==
    /\ Goto(1, "decode", "encap")
    /\ LET r == RBDecode(buf[1], 1) IN
        rows' = [rows EXCEPT ![1] =
            [j \in Index |-> unpermute(0, xorMask(set[1][j], r[j]))]]
    /\ UNCHANGED <<set, cfg, warm, net, toSend, posted, buf, recvBuf, hits, encoded>>

\* Encapsulate, permute if bobPi, and put H(y_j) on.
SendEncap ==
    /\ Goto(1, "encap", "encode")
    /\ LET ct(j) == encapRow(rows[1][j]) IN
        rows' = [rows EXCEPT ![1] =
            [j \in Index |-> xorMask(set[1][j], IF cfg.bobPi THEN permute(1, ct(j)) ELSE ct(j))]]
    /\ UNCHANGED <<set, cfg, warm, net, toSend, posted, buf, recvBuf, hits, encoded>>

SendEncode ==
    /\ Goto(1, "encode", "send")
    /\ RBEncode(1)
    /\ toSend' = [toSend EXCEPT ![1] = Chunk]
    /\ UNCHANGED <<set, cfg, warm, net, posted, rows, recvBuf, hits>>

-----------------------------------------------------------------------------
PartyStep(p) ==
    WarmSend(p) \/ WarmRecv(p) \/ Configure(p) \/ PostRecv(p) \/ Wait(p)
      \/ SendReturn(p) \/ \E c \in Channel : SendChunk(p, c)

Recv == RecvRows \/ RecvEncode \/ RecvDecode \/ RecvCount
Send == SendDecode \/ SendEncap \/ SendEncode

Finished == (\A p \in Party : at[p] \in {"done", "dead"}) /\ UNCHANGED vars

Next ==
    \/ \E p \in Party : PartyStep(p) \/ \E c \in Channel : Deliver(p, c)
    \/ Recv \/ Send \/ Finished

Spec == Init /\ [][Next]_vars

\* Both processes run and the channels deliver.
Fairness ==
    /\ \A p \in Party : WF_vars(PartyStep(p)) /\ \A c \in Channel : WF_vars(Deliver(p, c))
    /\ WF_vars(Recv) /\ WF_vars(Send)

FairSpec == Spec /\ Fairness

-----------------------------------------------------------------------------
Base == {"pk", "ct", "noise", "zero"}

\* The type invariant.  The warm-up stops after the last channel, and the hit
\* count is never more than the size of the set.
TypeOK ==
    /\ set \in [Party -> [Index -> Item]]
    /\ cfg \in Cfg
    /\ at \in [Party -> {"warm", "keygen", "encode", "post", "send", "wait",
                         "decode", "encap", "count", "done", "dead"}]
    /\ warm \in [Party -> 0 .. 2 * numChannels]
    /\ \A p \in Party : toSend[p] \subseteq Chunk /\ posted[p] \subseteq Chunk
    /\ \A p \in Party, i \in Index : rows[p][i].kind \in Base
    /\ hits \in 0 .. N
    /\ encoded \in [Party -> BOOLEAN]

\* The items of party 0 that party 1 has too.
Common == {i \in Index : \E j \in Index : set[0][i] = set[1][j]}

\* If both encodings succeed, party 0 counts exactly the common items: every
\* layer either party puts on is taken off again by the other one, in every
\* configuration and for every arrival order of the chunks.
HitsExact ==
    at[0] = "done" /\ encoded[0] /\ encoded[1] => hits = Cardinality(Common)

\* Whatever fails, no item is counted that the parties do not share.
NoFalseHit == hits <= Cardinality(Common)

\* A buffer is decoded only when all of it has arrived: the decoding steps
\* see one whole table of the peer, or nothing the peer encoded.
WholeTable ==
    /\ at[0] = "decode" => \A b \in Block : recvBuf[b] = buf[1][b]
    /\ at[1] = "decode" => \A b \in Block : buf[1][b] = buf[0][b]

\* Both parties refuse the configuration, or both get to the end and party 0
\* has its answer: neither waits for the other for ever.
Refused == cfg.kem = "ObfMlKem" /\ cfg.pi = "Xoodoo"
Answer == <>(\A p \in Party : at[p] = IF Refused THEN "dead" ELSE "done")
=============================================================================
