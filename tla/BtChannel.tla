------------------------------ MODULE BtChannel ------------------------------
(***************************************************************************)
(* One BtChannel between two parties: cryptoTools/Network/BtChannel.cpp,   *)
(* the send and receive queues of BtSocket.h, and the asio handlers of     *)
(* BtIOService.cpp that drive them (dispatch, sendOne, receiveOne).        *)
(*                                                                         *)
(* At each party a user thread runs a script of channel calls and then     *)
(* closes the channel.  Every call posts an operation to a strand; in the  *)
(* strand the operation is pushed on a queue, and the front of the queue   *)
(* drives the socket.  A completion handler, which runs outside the        *)
(* strand, fulfils the promise of the operation and only then asks the     *)
(* strand to pop it, so the user thread may run in between.                *)
(*                                                                         *)
(* The two byte streams of the TCP connection are sequences of messages    *)
(* (header and body); a message is in the stream, not yet full, between    *)
(* the writing of its header and of the end of its body.                   *)
(***************************************************************************)
EXTENDS Integers, Sequences, FiniteSets

CONSTANTS
    Scripts,   \* the pairs of scripts the two user threads may run
    U32,       \* 2^32: operation sizes and headers are u32
    SockBuf,   \* a body longer than this fits no kernel buffer
    WireCap    \* messages the kernel buffers of one direction hold

Party == {0, 1}

Peer(p) == 1 - p

\* The calls of Channel.h: send and asyncSend, recv and asyncRecv into a
\* buffer of a given length, recv into a ChannelBuffer that is resized, and
\* waiting for the futures of all earlier asyncRecv calls.
Call == [fn : {"send", "asyncSend", "recv", "asyncRecv", "recvBuf", "wait"},
         len : Nat]

ASSUME ChannelAssumption ==
    /\ U32 \in Nat \ {0}
    /\ SockBuf \in Nat
    /\ WireCap \in Nat \ {0}
    /\ \A s \in Scripts : s \in [Party -> Seq(Call)]

VARIABLES
    script,      \* the calls each user thread has still to make
    ctl,         \* where the user thread is: running or blocked in a call
    mStopped,    \* BtSocket::mStopped
    handle,      \* BtSocket::mHandle, "open" or "closed"
    sendCount,   \* operations dispatched to the send strand
    recvCount,   \* operations dispatched to the receive strand
    sendPosted,  \* operations posted to the send strand, not yet pushed
    recvPosted,  \* operations posted to the receive strand, not yet pushed
    mSendQueue,
    mRecvQueue,
    sendIO,      \* what is under way for the front of mSendQueue
    recvIO,      \* what is under way for the front of mRecvQueue
    wire,        \* wire[p]: messages of p in the stream to its peer
    sendDone,    \* send operations whose promise is fulfilled
    recvDone,    \* receive operations whose promise is fulfilled
    got          \* the messages stored in the buffers of receive operations

userVars == <<script, ctl, mStopped, handle>>
sendVars == <<sendCount, sendPosted, mSendQueue, sendIO, sendDone>>
recvVars == <<recvCount, recvPosted, mRecvQueue, recvIO, recvDone, got>>
vars == <<userVars, sendVars, recvVars, wire>>

SendOp == [type : {"SendData", "CloseSend"}, id : Nat, len : Nat, sync : BOOLEAN]
RecvOp == [type : {"RecvData", "CloseRecv"}, id : Nat, len : Nat, resize : BOOLEAN]

\* A message in a stream: the number of the send operation, the length its
\* user asked for, the u32 size of the header, and whether the body is out.
Message == [id : Nat, len : Nat, size : Nat, full : BOOLEAN]

\* A completed receive: its number, the message it holds, and three lengths:
\* what the receiver asked for, what the sender asked for, what was stored.
Receipt == [op : Nat, msg : Nat, want : Nat, len : Nat, size : Nat, resize : BOOLEAN]

\* The type invariant.  Operation sizes and headers stay natural numbers,
\* whatever length the caller of send or recv asked for.
TypeOK ==
    /\ script \in [Party -> Seq(Call)]
    /\ ctl \in [Party -> {"run", "send", "recv", "wait", "closing", "closed", "dead"}]
    /\ mStopped \in [Party -> BOOLEAN]
    /\ handle \in [Party -> {"open", "closed"}]
    /\ sendCount \in [Party -> Nat]
    /\ recvCount \in [Party -> Nat]
    /\ sendPosted \in [Party -> Seq(SendOp)]
    /\ recvPosted \in [Party -> Seq(RecvOp)]
    /\ mSendQueue \in [Party -> Seq(SendOp)]
    /\ mRecvQueue \in [Party -> Seq(RecvOp)]
    /\ sendIO \in [Party -> {"idle", "header", "body", "done"}]
    /\ recvIO \in [Party -> {"idle", "header", "body", "done"}]
    /\ wire \in [Party -> Seq(Message)]
    /\ sendDone \in [Party -> SUBSET Nat]
    /\ recvDone \in [Party -> SUBSET Nat]
    /\ got \in [Party -> Seq(Receipt)]

Init ==
    /\ script \in Scripts
    /\ ctl = [p \in Party |-> "run"]
    /\ mStopped = [p \in Party |-> FALSE]
    /\ handle = [p \in Party |-> "open"]
    /\ sendCount = [p \in Party |-> 0]
    /\ recvCount = [p \in Party |-> 0]
    /\ sendPosted = [p \in Party |-> <<>>]
    /\ recvPosted = [p \in Party |-> <<>>]
    /\ mSendQueue = [p \in Party |-> <<>>]
    /\ mRecvQueue = [p \in Party |-> <<>>]
    /\ sendIO = [p \in Party |-> "idle"]
    /\ recvIO = [p \in Party |-> "idle"]
    /\ wire = [p \in Party |-> <<>>]
    /\ sendDone = [p \in Party |-> {}]
    /\ recvDone = [p \in Party |-> {}]
    /\ got = [p \in Party |-> <<>>]

-----------------------------------------------------------------------------
(* The user thread.                                                        *)

Running(p) == ctl[p] = "run" /\ ~mStopped[p]

\* An exception nobody catches, in the user thread or in a handler run by an
\* io thread: the process ends and the kernel closes its socket.
Die(p) ==
    /\ ctl' = [ctl EXCEPT ![p] = "dead"]
    /\ handle' = [handle EXCEPT ![p] = "closed"]

\* Mutants of SizeOf: a cast to a signed type, a cast to a narrower type.
SizeOfSigned(len) == ((len + (U32 \div 2)) % U32) - (U32 \div 2)
SizeOfNarrow(len) == len % 2

\* The u32 an operation carries for a user's u64 length.
SizeOf(len) == len % U32

\* BtChannel::send and asyncSend: post a SendData operation; send also waits
\* for its promise.
CallSend(p) ==
    /\ Running(p)
    /\ script[p] # <<>>
    /\ Head(script[p]).fn \in {"send", "asyncSend"}
    /\ SizeOf(Head(script[p]).len) # 0
    /\ LET c == Head(script[p]) IN
        /\ sendPosted' = [sendPosted EXCEPT ![p] = Append(@,
              [type |-> "SendData", id |-> sendCount[p] + 1, len |-> c.len,
               sync |-> c.fn = "send"])]
        /\ ctl' = [ctl EXCEPT ![p] = IF c.fn = "send" THEN "send" ELSE "run"]
    /\ sendCount' = [sendCount EXCEPT ![p] = @ + 1]
    /\ script' = [script EXCEPT ![p] = Tail(@)]
    /\ UNCHANGED <<mStopped, handle, mSendQueue, sendIO, sendDone, recvVars, wire>>

\* BtChannel::recv and asyncRecv: post a RecvData operation; recv also waits
\* for its future.
CallRecv(p) ==
    /\ Running(p)
    /\ script[p] # <<>>
    /\ Head(script[p]).fn \in {"recv", "asyncRecv", "recvBuf"}
    /\ Head(script[p]).fn = "recvBuf" \/ SizeOf(Head(script[p]).len) # 0
    /\ LET c == Head(script[p]) IN
        /\ recvPosted' = [recvPosted EXCEPT ![p] = Append(@,
              [type |-> "RecvData", id |-> recvCount[p] + 1, len |-> c.len,
               resize |-> c.fn = "recvBuf"])]
        /\ ctl' = [ctl EXCEPT ![p] = IF c.fn = "asyncRecv" THEN "run" ELSE "recv"]
    /\ recvCount' = [recvCount EXCEPT ![p] = @ + 1]
    /\ script' = [script EXCEPT ![p] = Tail(@)]
    /\ UNCHANGED <<mStopped, handle, mRecvQueue, recvIO, recvDone, got, sendVars, wire>>

\* BtIOService::dispatch refuses an operation of size 0, which a length that
\* is a multiple of 2^32 also has.
CallThrows(p) ==
    /\ Running(p)
    /\ script[p] # <<>>
    /\ Head(script[p]).fn \in {"send", "asyncSend", "recv", "asyncRecv"}
    /\ SizeOf(Head(script[p]).len) = 0
    /\ Die(p)
    /\ script' = [script EXCEPT ![p] = <<>>]
    /\ UNCHANGED <<mStopped, sendVars, recvVars, wire>>

CallWait(p) ==
    /\ Running(p)
    /\ script[p] # <<>>
    /\ Head(script[p]).fn = "wait"
    /\ ctl' = [ctl EXCEPT ![p] = "wait"]
    /\ script' = [script EXCEPT ![p] = Tail(@)]
    /\ UNCHANGED <<mStopped, handle, sendVars, recvVars, wire>>

\* The blocking call returns: the future it waits for is ready.
Return(p) ==
    /\ \/ ctl[p] = "send" /\ sendCount[p] \in sendDone[p]
       \/ ctl[p] = "recv" /\ recvCount[p] \in recvDone[p]
       \/ ctl[p] = "wait" /\ 1 .. recvCount[p] \subseteq recvDone[p]
    /\ ctl' = [ctl EXCEPT ![p] = "run"]
    /\ UNCHANGED <<script, mStopped, handle, sendVars, recvVars, wire>>

\* BtChannel::close, up to the wait for its two promises.
Close(p) ==
    /\ Running(p)
    /\ script[p] = <<>>
    /\ mStopped' = [mStopped EXCEPT ![p] = TRUE]
    /\ ctl' = [ctl EXCEPT ![p] = "closing"]
    /\ recvPosted' = [recvPosted EXCEPT ![p] = Append(@,
          [type |-> "CloseRecv", id |-> recvCount[p] + 1, len |-> 0, resize |-> FALSE])]
    /\ sendPosted' = [sendPosted EXCEPT ![p] = Append(@,
          [type |-> "CloseSend", id |-> sendCount[p] + 1, len |-> 0, sync |-> TRUE])]
    /\ recvCount' = [recvCount EXCEPT ![p] = @ + 1]
    /\ sendCount' = [sendCount EXCEPT ![p] = @ + 1]
    /\ UNCHANGED <<script, handle, mSendQueue, sendIO, sendDone,
                   mRecvQueue, recvIO, recvDone, got, wire>>

\* Mutants of CloseReturn: it does not wait for one of the two promises.
CloseReturnNoRecv(p) ==
    /\ ctl[p] = "closing"
    /\ sendCount[p] \in sendDone[p]
    /\ handle' = [handle EXCEPT ![p] = "closed"]
    /\ ctl' = [ctl EXCEPT ![p] = "closed"]
    /\ UNCHANGED <<script, mStopped, sendVars, recvVars, wire>>

CloseReturnNoSend(p) ==
    /\ ctl[p] = "closing"
    /\ recvCount[p] \in recvDone[p]
    /\ handle' = [handle EXCEPT ![p] = "closed"]
    /\ ctl' = [ctl EXCEPT ![p] = "closed"]
    /\ UNCHANGED <<script, mStopped, sendVars, recvVars, wire>>

\* The rest of close: both queues have drained, the socket is closed and
\* removeChannel frees the channel with its BtSocket.
CloseReturn(p) ==
    /\ ctl[p] = "closing"
    /\ recvCount[p] \in recvDone[p]
    /\ sendCount[p] \in sendDone[p]
    /\ handle' = [handle EXCEPT ![p] = "closed"]
    /\ ctl' = [ctl EXCEPT ![p] = "closed"]
    /\ UNCHANGED <<script, mStopped, sendVars, recvVars, wire>>

-----------------------------------------------------------------------------
(* The send side of BtIOService.                                           *)

Alive(p) == ctl[p] # "dead"

\* Mutant of sendOne: close() is never told that the queue has drained.
sendOneForgets(p, q) ==
    /\ UNCHANGED sendDone
    /\ \/ /\ Head(q).type = "SendData"
          /\ sendIO' = [sendIO EXCEPT ![p] = "header"]
          /\ mSendQueue' = [mSendQueue EXCEPT ![p] = q]
       \/ /\ Head(q).type = "CloseSend"
          /\ sendIO' = [sendIO EXCEPT ![p] = "idle"]
          /\ mSendQueue' = [mSendQueue EXCEPT ![p] = Tail(q)]

\* sendOne on the queue q, which is not empty, inside the strand.
sendOne(p, q) ==
    \/ /\ Head(q).type = "SendData"
       /\ sendIO' = [sendIO EXCEPT ![p] = "header"]
       /\ mSendQueue' = [mSendQueue EXCEPT ![p] = q]
       /\ UNCHANGED sendDone
    \/ /\ Head(q).type = "CloseSend"
       /\ sendIO' = [sendIO EXCEPT ![p] = "idle"]
       /\ mSendQueue' = [mSendQueue EXCEPT ![p] = Tail(q)]
       /\ sendDone' = [sendDone EXCEPT ![p] = @ \union {Head(q).id}]

\* Mutant of PushSend: it starts a write without looking at the queue size.
PushSendAlways(p) ==
    /\ Alive(p)
    /\ sendPosted[p] # <<>>
    /\ sendPosted' = [sendPosted EXCEPT ![p] = Tail(@)]
    /\ sendOne(p, Append(mSendQueue[p], Head(sendPosted[p])))
    /\ UNCHANGED <<userVars, sendCount, recvVars, wire>>

\* The handler dispatch posts to the send strand.
PushSend(p) ==
    /\ Alive(p)
    /\ sendPosted[p] # <<>>
    /\ sendPosted' = [sendPosted EXCEPT ![p] = Tail(@)]
    /\ LET q == Append(mSendQueue[p], Head(sendPosted[p])) IN
        \/ Len(q) = 1 /\ sendOne(p, q)
        \/ /\ Len(q) # 1
           /\ mSendQueue' = [mSendQueue EXCEPT ![p] = q]
           /\ UNCHANGED <<sendIO, sendDone>>
    /\ UNCHANGED <<userVars, sendCount, recvVars, wire>>

\* async_write puts the header and the first bytes of the body in the stream.
WriteHeader(p) ==
    /\ Alive(p)
    /\ sendIO[p] = "header"
    /\ Len(wire[p]) < WireCap
    /\ LET op == Head(mSendQueue[p]) IN
        wire' = [wire EXCEPT ![p] = Append(@,
            [id |-> op.id, len |-> op.len, size |-> SizeOf(op.len), full |-> FALSE])]
    /\ sendIO' = [sendIO EXCEPT ![p] = "body"]
    /\ UNCHANGED <<userVars, sendCount, sendPosted, mSendQueue, sendDone, recvVars>>

\* The peer is reading the body of the only message in the stream of p.
Draining(p) == Len(wire[p]) = 1 /\ recvIO[Peer(p)] = "body"

\* The completion handler of async_write: the last byte is in the stream,
\* which for a long body takes a peer that is reading it.
WriteBody(p) ==
    /\ Alive(p)
    /\ sendIO[p] = "body"
    /\ SizeOf(Head(mSendQueue[p]).len) <= SockBuf \/ Draining(p)
    /\ wire' = [wire EXCEPT ![p] = [@ EXCEPT ![Len(@)].full = TRUE]]
    /\ sendIO' = [sendIO EXCEPT ![p] = "done"]
    /\ LET op == Head(mSendQueue[p]) IN
        sendDone' = [sendDone EXCEPT ![p] = IF op.sync THEN @ \union {op.id} ELSE @]
    /\ UNCHANGED <<userVars, sendCount, sendPosted, mSendQueue, recvVars>>

\* Mutant of PopSend: it pops without starting the next operation.
PopSendNoMore(p) ==
    /\ Alive(p)
    /\ sendIO[p] = "done"
    /\ mSendQueue' = [mSendQueue EXCEPT ![p] = Tail(@)]
    /\ sendIO' = [sendIO EXCEPT ![p] = "idle"]
    /\ UNCHANGED <<userVars, sendCount, sendPosted, sendDone, recvVars, wire>>

\* The handler that the completion handler dispatches to the send strand.
PopSend(p) ==
    /\ Alive(p)
    /\ sendIO[p] = "done"
    /\ LET q == Tail(mSendQueue[p]) IN
        \/ q # <<>> /\ sendOne(p, q)
        \/ /\ q = <<>>
           /\ mSendQueue' = [mSendQueue EXCEPT ![p] = q]
           /\ sendIO' = [sendIO EXCEPT ![p] = "idle"]
           /\ UNCHANGED sendDone
    /\ UNCHANGED <<userVars, sendCount, sendPosted, recvVars, wire>>

\* A write to a connection the peer has closed may fail: the handler throws.
WriteError(p) ==
    /\ Alive(p)
    /\ sendIO[p] \in {"header", "body"}
    /\ handle[Peer(p)] = "closed"
    /\ Die(p)
    /\ UNCHANGED <<script, mStopped, sendVars, recvVars, wire>>

-----------------------------------------------------------------------------
(* The receive side of BtIOService.                                        *)

\* receiveOne on the queue q, which is not empty, inside the strand.
receiveOne(p, q) ==
    \/ /\ Head(q).type = "RecvData"
       /\ recvIO' = [recvIO EXCEPT ![p] = "header"]
       /\ mRecvQueue' = [mRecvQueue EXCEPT ![p] = q]
       /\ UNCHANGED recvDone
    \/ /\ Head(q).type = "CloseRecv"
       /\ recvIO' = [recvIO EXCEPT ![p] = "idle"]
       /\ mRecvQueue' = [mRecvQueue EXCEPT ![p] = Tail(q)]
       /\ recvDone' = [recvDone EXCEPT ![p] = @ \union {Head(q).id}]

\* Mutant of PushRecv: push_front in place of push_back.
PushRecvFront(p) ==
    /\ Alive(p)
    /\ recvPosted[p] # <<>>
    /\ recvPosted' = [recvPosted EXCEPT ![p] = Tail(@)]
    /\ LET q == <<Head(recvPosted[p])>> \o mRecvQueue[p] IN
        \/ Len(q) = 1 /\ receiveOne(p, q)
        \/ /\ Len(q) # 1
           /\ mRecvQueue' = [mRecvQueue EXCEPT ![p] = q]
           /\ UNCHANGED <<recvIO, recvDone>>
    /\ UNCHANGED <<userVars, recvCount, got, sendVars, wire>>

\* The handler dispatch posts to the receive strand.
PushRecv(p) ==
    /\ Alive(p)
    /\ recvPosted[p] # <<>>
    /\ recvPosted' = [recvPosted EXCEPT ![p] = Tail(@)]
    /\ LET q == Append(mRecvQueue[p], Head(recvPosted[p])) IN
        \/ Len(q) = 1 /\ receiveOne(p, q)
        \/ /\ Len(q) # 1
           /\ mRecvQueue' = [mRecvQueue EXCEPT ![p] = q]
           /\ UNCHANGED <<recvIO, recvDone>>
    /\ UNCHANGED <<userVars, recvCount, got, sendVars, wire>>

\* The buffer of the operation takes a message of this size.
FitsBuffer(op, size) == op.resize \/ SizeOf(op.len) = size

\* Mutant of ReadHeader: the promise is fulfilled ahead of the body.
ReadHeaderSignals(p) ==
    /\ Alive(p)
    /\ recvIO[p] = "header"
    /\ wire[Peer(p)] # <<>>
    /\ FitsBuffer(Head(mRecvQueue[p]), Head(wire[Peer(p)]).size)
    /\ recvIO' = [recvIO EXCEPT ![p] = "body"]
    /\ recvDone' = [recvDone EXCEPT ![p] = @ \union {Head(mRecvQueue[p]).id}]
    /\ UNCHANGED <<userVars, recvCount, recvPosted, mRecvQueue, got, sendVars, wire>>

\* The completion handler of the header read, when the sizes agree: read on.
ReadHeader(p) ==
    /\ Alive(p)
    /\ recvIO[p] = "header"
    /\ wire[Peer(p)] # <<>>
    /\ FitsBuffer(Head(mRecvQueue[p]), Head(wire[Peer(p)]).size)
    /\ recvIO' = [recvIO EXCEPT ![p] = "body"]
    /\ UNCHANGED <<userVars, recvCount, recvPosted, mRecvQueue, recvDone, got, sendVars, wire>>

\* Mutant of ReadMismatch: the message is dropped and the read tried again.
ReadMismatchDrops(p) ==
    /\ Alive(p)
    /\ recvIO[p] = "header"
    /\ wire[Peer(p)] # <<>>
    /\ ~FitsBuffer(Head(mRecvQueue[p]), Head(wire[Peer(p)]).size)
    /\ Head(wire[Peer(p)]).full
    /\ wire' = [wire EXCEPT ![Peer(p)] = Tail(@)]
    /\ UNCHANGED <<userVars, sendVars, recvVars>>

\* The same handler when they differ.  It calls set_exception with
\* std::current_exception(), which is null outside a catch block, and returns
\* without popping the operation.  A null exception breaks a precondition of
\* set_exception: the future gets a result that throws nothing, or a library
\* with assertions aborts the process.
ReadMismatch(p) ==
    /\ Alive(p)
    /\ recvIO[p] = "header"
    /\ wire[Peer(p)] # <<>>
    /\ ~FitsBuffer(Head(mRecvQueue[p]), Head(wire[Peer(p)]).size)
    /\ \/ /\ recvIO' = [recvIO EXCEPT ![p] = "idle"]
          /\ recvDone' = [recvDone EXCEPT ![p] = @ \union {Head(mRecvQueue[p]).id}]
          /\ UNCHANGED <<ctl, handle>>
       \/ Die(p) /\ UNCHANGED <<recvIO, recvDone>>
    /\ UNCHANGED <<script, mStopped, recvCount, recvPosted, mRecvQueue, got, sendVars, wire>>

\* The completion handler of the body read.
ReadBody(p) ==
    /\ Alive(p)
    /\ recvIO[p] = "body"
    /\ Head(wire[Peer(p)]).full
    /\ LET op == Head(mRecvQueue[p])
           m == Head(wire[Peer(p)])
       IN /\ got' = [got EXCEPT ![p] = Append(@,
                [op |-> op.id, msg |-> m.id, want |-> op.len, len |-> m.len,
                 size |-> m.size, resize |-> op.resize])]
          /\ recvDone' = [recvDone EXCEPT ![p] = @ \union {op.id}]
    /\ wire' = [wire EXCEPT ![Peer(p)] = Tail(@)]
    /\ recvIO' = [recvIO EXCEPT ![p] = "done"]
    /\ UNCHANGED <<userVars, recvCount, recvPosted, mRecvQueue, sendVars>>

\* Mutant of PopRecv: it pops without starting the next operation.
PopRecvNoMore(p) ==
    /\ Alive(p)
    /\ recvIO[p] = "done"
    /\ mRecvQueue' = [mRecvQueue EXCEPT ![p] = Tail(@)]
    /\ recvIO' = [recvIO EXCEPT ![p] = "idle"]
    /\ UNCHANGED <<userVars, recvCount, recvPosted, recvDone, got, sendVars, wire>>

\* The handler that the completion handler dispatches to the receive strand.
PopRecv(p) ==
    /\ Alive(p)
    /\ recvIO[p] = "done"
    /\ LET q == Tail(mRecvQueue[p]) IN
        \/ q # <<>> /\ receiveOne(p, q)
        \/ /\ q = <<>>
           /\ mRecvQueue' = [mRecvQueue EXCEPT ![p] = q]
           /\ recvIO' = [recvIO EXCEPT ![p] = "idle"]
           /\ UNCHANGED recvDone
    /\ UNCHANGED <<userVars, recvCount, recvPosted, got, sendVars, wire>>

\* The bytes the read waits for are in the stream.
Readable(p) ==
    /\ wire[Peer(p)] # <<>>
    /\ recvIO[p] = "body" => Head(wire[Peer(p)]).full

\* The peer has closed: the read meets the end of the stream, or a reset
\* because the peer closed with unread data of p.  The handler throws.
ReadError(p) ==
    /\ Alive(p)
    /\ recvIO[p] \in {"header", "body"}
    /\ handle[Peer(p)] = "closed"
    /\ ~Readable(p) \/ wire[p] # <<>>
    /\ Die(p)
    /\ UNCHANGED <<script, mStopped, sendVars, recvVars, wire>>

-----------------------------------------------------------------------------
UserStep(p) == CallSend(p) \/ CallRecv(p) \/ CallThrows(p) \/ CallWait(p)
                 \/ Return(p) \/ Close(p) \/ CloseReturn(p)

SendStep(p) == PushSend(p) \/ WriteHeader(p) \/ WriteBody(p) \/ PopSend(p)
                 \/ WriteError(p)

RecvStep(p) == PushRecv(p) \/ ReadHeader(p) \/ ReadMismatch(p) \/ ReadBody(p)
                 \/ PopRecv(p) \/ ReadError(p)

\* Both parties are through: the channel is closed or the process is gone.
Finished ==
    /\ \A p \in Party : ctl[p] \in {"closed", "dead"}
    /\ UNCHANGED vars

Next == (\E p \in Party : UserStep(p) \/ SendStep(p) \/ RecvStep(p)) \/ Finished

Spec == Init /\ [][Next]_vars

\* The user threads and the io threads keep running, and TCP keeps moving
\* bytes between two live ends.
Fairness == \A p \in Party : WF_vars(UserStep(p)) /\ WF_vars(SendStep(p)) /\ WF_vars(RecvStep(p))

FairSpec == Spec /\ Fairness

-----------------------------------------------------------------------------
(* Safety.                                                                 *)

\* The k-th receive operation to be filled is the k-th one posted, and it
\* holds the k-th message of the peer: no message is lost, duplicated,
\* reordered or split between buffers, whatever the order in which strand
\* handlers, completion handlers and user threads run.
FifoDelivery ==
    \A p \in Party : \A k \in 1 .. Len(got[p]) :
        got[p][k].op = k /\ got[p][k].msg = k /\ k <= sendCount[Peer(p)]

\* close() frees the BtSocket when it returns ("WARNING: we are deallocated
\* now"): no operation and no handler of that socket is left by then.
SocketQuiet ==
    \A p \in Party : ctl[p] = "closed" =>
        /\ sendPosted[p] = <<>> /\ recvPosted[p] = <<>>
        /\ mSendQueue[p] = <<>> /\ mRecvQueue[p] = <<>>
        /\ sendIO[p] = "idle" /\ recvIO[p] = "idle"

\* When close() returns, every message the user sent before, asynchronous
\* sends included, is in the stream in full or already with the peer.
CloseFlushes ==
    \A p \in Party : ctl[p] = "closed" =>
        /\ Len(got[Peer(p)]) + Len(wire[p]) = sendCount[p] - 1
        /\ \A i \in 1 .. Len(wire[p]) : wire[p][i].full

\* An operation on the send queue is always under way, or its successor will
\* be started by the handler that pops it (comment in dispatch).
SendQueueDriven == \A p \in Party : mSendQueue[p] # <<>> => sendIO[p] # "idle"

\* The same comment for the receive queue: "If the size > 1, then there is
\* already a set of recv operations that will kick off the newly queued recv
\* when its turn comes around".
RecvQueueDriven ==
    \A p \in Party : Alive(p) /\ mRecvQueue[p] # <<>> => recvIO[p] # "idle"

\* The receive operations posted for data, without the one of close().
DataRecvs(p) == {k \in 1 .. recvCount[p] : mStopped[p] => k # recvCount[p]}

\* A future that is ready without an exception has its message: recv "will
\* through if received message length does not match".
RecvReturnsData ==
    \A p \in Party : \A k \in recvDone[p] \cap DataRecvs(p) : k <= Len(got[p])

\* A receive into a buffer of a given length stores exactly that many bytes,
\* and the sender meant to send that many.
RecvLength ==
    \A p \in Party : \A k \in 1 .. Len(got[p]) :
        /\ got[p][k].size = got[p][k].len
        /\ ~got[p][k].resize => got[p][k].size = got[p][k].want

\* Liveness: both parties get through their scripts and close.
BothClose == <>(\A p \in Party : ctl[p] = "closed")
-----------------------------------------------------------------------------
(* The pipe a channel implements (module Pipe).                            *)

sentMap == [p \in Party |-> IF mStopped[p] THEN sendCount[p] - 1 ELSE sendCount[p]]
askedMap == [p \in Party |-> IF mStopped[p] THEN recvCount[p] - 1 ELSE recvCount[p]]
filledMap == [p \in Party |-> [k \in 1 .. Len(got[p]) |-> got[p][k].msg]]
phaseMap == [p \in Party |-> IF ~mStopped[p] THEN "open"
                             ELSE IF ctl[p] = "closed" THEN "closed" ELSE "closing"]

P == INSTANCE Pipe WITH sent <- sentMap, asked <- askedMap,
                        filled <- filledMap, phase <- phaseMap

\* The queues, strands and handlers implement the pipe, for whatever calls
\* the two users make and even if a process dies.
ImplementsPipe == P!Spec

-----------------------------------------------------------------------------
(* The inductive invariant behind the safety properties.                   *)

\* Operations (or messages) numbered from n + 1 on.
Numbered(s, n) == \A i \in 1 .. Len(s) : s[i].id = n + i

\* Operations that have left each queue, close() operations included.
sendPopped(p) == sendCount[p] - Len(sendPosted[p]) - Len(mSendQueue[p])
recvPopped(p) == recvCount[p] - Len(recvPosted[p]) - Len(mRecvQueue[p])

\* Strand and queue together hold the latest operations in the order of the
\* calls, and the operation of close() is the last one there ever is.
SendOrder(p) ==
    /\ sendPopped(p) >= 0
    /\ Numbered(mSendQueue[p], sendPopped(p))
    /\ Numbered(sendPosted[p], sendPopped(p) + Len(mSendQueue[p]))
    /\ \A i \in 1 .. Len(mSendQueue[p]) :
         mSendQueue[p][i].type = "CloseSend" <=> mStopped[p] /\ mSendQueue[p][i].id = sendCount[p]
    /\ \A i \in 1 .. Len(sendPosted[p]) :
         sendPosted[p][i].type = "CloseSend" <=> mStopped[p] /\ sendPosted[p][i].id = sendCount[p]

RecvOrder(p) ==
    /\ recvPopped(p) >= 0
    /\ Numbered(mRecvQueue[p], recvPopped(p))
    /\ Numbered(recvPosted[p], recvPopped(p) + Len(mRecvQueue[p]))
    /\ \A i \in 1 .. Len(mRecvQueue[p]) :
         mRecvQueue[p][i].type = "CloseRecv" <=> mStopped[p] /\ mRecvQueue[p][i].id = recvCount[p]
    /\ \A i \in 1 .. Len(recvPosted[p]) :
         recvPosted[p][i].type = "CloseRecv" <=> mStopped[p] /\ recvPosted[p][i].id = recvCount[p]

\* The front of the queue is a data operation and is under way.  On the
\* receive side it may also be stuck after a size mismatch.
SendFront(p) ==
    /\ sendIO[p] = "idle" <=> mSendQueue[p] = <<>>
    /\ mSendQueue[p] # <<>> => mSendQueue[p][1].type = "SendData"

RecvFront(p) ==
    /\ mRecvQueue[p] = <<>> => recvIO[p] = "idle"
    /\ mRecvQueue[p] # <<>> => mRecvQueue[p][1].type = "RecvData"

\* The promise of close() is fulfilled only when the queue has drained.
SendDrained(p) == mStopped[p] /\ sendPosted[p] = <<>> /\ mSendQueue[p] = <<>>
RecvDrained(p) == mStopped[p] /\ recvPosted[p] = <<>> /\ mRecvQueue[p] = <<>>

SendPromises(p) ==
    /\ \A k \in sendDone[p] : k <= sendCount[p]
    /\ mStopped[p] /\ sendCount[p] \in sendDone[p] => SendDrained(p)

RecvPromises(p) ==
    /\ \A k \in recvDone[p] : k <= recvCount[p]
    /\ mStopped[p] /\ recvCount[p] \in recvDone[p] => RecvDrained(p)

\* Messages of p whose header is written, and receives of p that are filled.
Written(p) ==
    IF SendDrained(p) THEN sendCount[p] - 1
    ELSE IF sendIO[p] \in {"body", "done"} THEN sendPopped(p) + 1
    ELSE sendPopped(p)

Filled(p) ==
    IF RecvDrained(p) THEN recvCount[p] - 1
    ELSE IF recvIO[p] = "done" THEN recvPopped(p) + 1
    ELSE recvPopped(p)

Receipts(p) ==
    /\ Len(got[p]) = Filled(p)
    /\ \A k \in 1 .. Len(got[p]) : got[p][k].op = k /\ got[p][k].msg = k

\* The stream from p holds exactly the written messages that the peer has
\* not read, in order; only the last one may be incomplete.
Stream(p) ==
    /\ Len(got[Peer(p)]) + Len(wire[p]) = Written(p)
    /\ Numbered(wire[p], Len(got[Peer(p)]))
    /\ \A i \in 1 .. Len(wire[p]) :
         wire[p][i].full <=> ~(sendIO[p] = "body" /\ i = Len(wire[p]))
    /\ sendIO[p] = "body" \/ recvIO[Peer(p)] = "body" => wire[p] # <<>>

Control(p) ==
    /\ ctl[p] \in {"closing", "closed"} => mStopped[p]
    /\ ctl[p] = "closed" => sendCount[p] \in sendDone[p] /\ recvCount[p] \in recvDone[p]

SendSide(p) == SendOrder(p) /\ SendFront(p) /\ SendPromises(p)
RecvSide(p) == RecvOrder(p) /\ RecvFront(p) /\ RecvPromises(p) /\ Receipts(p)

\* Every invariant of the channel follows from this one, which each step
\* preserves: it ties the operation counters, the queues, the streams and
\* the receipts of the two ends together.
ChannelInv ==
    \A p \in Party : SendSide(p) /\ RecvSide(p) /\ Stream(p) /\ Control(p)
-----------------------------------------------------------------------------
(* Users that agree.  The three receive properties above are promises to   *)
(* users whose calls match: a length that differs from the peer's makes    *)
(* ReadMismatch drop the operation, and one of 2^32 or more is cut.        *)

Sends == {"send", "asyncSend"}
Recvs == {"recv", "asyncRecv", "recvBuf"}

\* The number of sends, and of receives, in the first n calls of a script.
SendNo(c, n) == Cardinality({i \in 1 .. n : c[i].fn \in Sends})
RecvNo(c, n) == Cardinality({i \in 1 .. n : c[i].fn \in Recvs})

\* The k-th receive of a party asks for as many bytes as its peer's k-th
\* send has, unless its buffer is resized.
Matched(s) ==
    \A p \in Party : \A i \in 1 .. Len(s[p]), j \in 1 .. Len(s[Peer(p)]) :
        /\ s[p][i].fn \in Recvs \ {"recvBuf"}
        /\ s[Peer(p)][j].fn \in Sends
        /\ RecvNo(s[p], i) = SendNo(s[Peer(p)], j)
        => s[p][i].len = s[Peer(p)][j].len

\* No message has 2^32 bytes or more.
Short(s) ==
    \A p \in Party : \A j \in 1 .. Len(s[p]) : s[p][j].fn \in Sends => s[p][j].len < U32

\* The operations held by a strand or queue, the messages held by a stream.
Held(q) == {q[i] : i \in 1 .. Len(q)}

\* The operation with this number comes from a call of the script c.
IsSend(c, id, len) ==
    \E j \in 1 .. Len(c) : c[j].fn \in Sends /\ SendNo(c, j) = id /\ c[j].len = len
IsRecv(c, id, len, resize) ==
    \E j \in 1 .. Len(c) : /\ c[j].fn \in Recvs /\ RecvNo(c, j) = id /\ c[j].len = len
                           /\ resize <=> c[j].fn = "recvBuf"

\* The calls party p has still to make are the end of its script s[p], and
\* its counters number the calls before them.
OnScript(s, p) ==
    LET d == Len(s[p]) - Len(script[p]) IN
    ~mStopped[p] /\ Alive(p) =>
        /\ d >= 0
        /\ \A k \in 1 .. Len(script[p]) : script[p][k] = s[p][d + k]
        /\ sendCount[p] = SendNo(s[p], d)
        /\ recvCount[p] = RecvNo(s[p], d)

\* Number and length of an operation, and of a message on its way, are those
\* of the call that made it.
SentOnScript(s, p) ==
    /\ \A op \in Held(sendPosted[p]) \union Held(mSendQueue[p]) :
         op.type = "SendData" => IsSend(s[p], op.id, op.len)
    /\ \A m \in Held(wire[p]) : m.size = SizeOf(m.len) /\ IsSend(s[p], m.id, m.len)

AskedOnScript(s, p) ==
    \A op \in Held(recvPosted[p]) \union Held(mRecvQueue[p]) :
        op.type = "RecvData" => IsRecv(s[p], op.id, op.len, op.resize)

Traced(s) == \A p \in Party : OnScript(s, p) /\ SentOnScript(s, p) /\ AskedOnScript(s, p)

\* What a pair of matching scripts keeps: operations and messages can be
\* traced to the calls, so sizes agree and nothing is dropped.
AgreedInv == \E s \in Scripts : Matched(s) /\ Traced(s) /\ RecvQueueDriven /\ RecvReturnsData
ExactInv == \E s \in Scripts : Matched(s) /\ Short(s) /\ Traced(s) /\ RecvLength
=============================================================================
