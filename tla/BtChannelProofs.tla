--------------------------- MODULE BtChannelProofs ---------------------------
(* Proofs about BtChannel, for every set of scripts and every bound.       *)
EXTENDS BtChannel, SequenceTheorems, FiniteSetTheorems, TLAPS

\* The two ends of a channel (the localName and remoteName of BtChannel.cpp).
LEMMA PartyFacts ==
    /\ \A p \in Party : Peer(p) \in Party /\ Peer(p) # p /\ Peer(Peer(p)) = p
    /\ \A p, q \in Party : q = p \/ q = Peer(p)
BY DEF Party, Peer

\* The u32 cast of BtChannel.cpp yields a natural number.
LEMMA SizeOfType == ASSUME NEW len \in Nat PROVE SizeOf(len) \in Nat
BY ChannelAssumption DEF SizeOf

\* What pop_front and front of a queue or stream give.
LEMMA TailFacts ==
    ASSUME NEW S, NEW s \in Seq(S), s # <<>>
    PROVE  /\ Len(s) \in Nat /\ Len(s) >= 1
           /\ Head(s) = s[1] /\ s[1] \in S
           /\ Tail(s) \in Seq(S) /\ Len(Tail(s)) = Len(s) - 1
           /\ \A i \in 1 .. Len(s) - 1 : Tail(s)[i] = s[i + 1]
           /\ Tail(s) = <<>> <=> Len(s) = 1
<1>1. Len(s) \in Nat /\ Len(s) >= 1 /\ Head(s) = s[1]
  OBVIOUS
<1>2. Tail(s) \in Seq(S) /\ Len(Tail(s)) = Len(s) - 1
  OBVIOUS
<1>3. \A i \in 1 .. Len(s) - 1 : Tail(s)[i] = s[i + 1]
  BY <1>2, HeadTailProperties
<1>4. Tail(s) = <<>> <=> Len(s) = 1
  <2> DEFINE t == Tail(s)
  <2>1. t = <<>> <=> Len(t) = 0
    <3> HIDE DEF t
    <3> QED BY <1>2, EmptySeq DEF t
  <2> QED BY <1>1, <1>2, <2>1
<1>5. s[1] \in S
  BY <1>1
<1> QED BY <1>1, <1>2, <1>3, <1>4, <1>5

\* What push_back gives.
LEMMA AppendFacts ==
    ASSUME NEW S, NEW s \in Seq(S), NEW e \in S
    PROVE  /\ Len(s) \in Nat
           /\ Append(s, e) \in Seq(S) /\ Append(s, e) # <<>>
           /\ Len(Append(s, e)) = Len(s) + 1
           /\ \A i \in 1 .. Len(s) : Append(s, e)[i] = s[i]
           /\ Append(s, e)[Len(s) + 1] = e
BY AppendProperties

-----------------------------------------------------------------------------
(* Type correctness.                                                       *)

Ctl == {"run", "send", "recv", "wait", "closing", "closed", "dead"}
IO == {"idle", "header", "body", "done"}

\* sendOne keeps the types of what it changes.
LEMMA sendOneType ==
    ASSUME TypeOK, NEW p \in Party, NEW q \in Seq(SendOp), q # <<>>, sendOne(p, q)
    PROVE  /\ mSendQueue' \in [Party -> Seq(SendOp)]
           /\ sendIO' \in [Party -> IO]
           /\ sendDone' \in [Party -> SUBSET Nat]
<1>1. Tail(q) \in Seq(SendOp) /\ Head(q).id \in Nat
  <2>1. Head(q) \in SendOp /\ Tail(q) \in Seq(SendOp)
    OBVIOUS
  <2> QED BY <2>1 DEF SendOp
<1>2. CASE Head(q).type = "SendData"
  <2>1. /\ sendIO' = [sendIO EXCEPT ![p] = "header"]
        /\ mSendQueue' = [mSendQueue EXCEPT ![p] = q]
        /\ sendDone' = sendDone
    BY <1>2 DEF sendOne
  <2> QED BY <2>1 DEF TypeOK, IO
<1>3. CASE Head(q).type # "SendData"
  <2>1. /\ sendIO' = [sendIO EXCEPT ![p] = "idle"]
        /\ mSendQueue' = [mSendQueue EXCEPT ![p] = Tail(q)]
        /\ sendDone' = [sendDone EXCEPT ![p] = sendDone[p] \union {Head(q).id}]
    BY <1>3 DEF sendOne
  <2>2. sendDone' \in [Party -> SUBSET Nat]
    BY <1>1, <2>1 DEF TypeOK
  <2> QED BY <1>1, <2>1, <2>2 DEF TypeOK, IO
<1> QED BY <1>2, <1>3

\* receiveOne keeps the types of what it changes.
LEMMA receiveOneType ==
    ASSUME TypeOK, NEW p \in Party, NEW q \in Seq(RecvOp), q # <<>>, receiveOne(p, q)
    PROVE  /\ mRecvQueue' \in [Party -> Seq(RecvOp)]
           /\ recvIO' \in [Party -> IO]
           /\ recvDone' \in [Party -> SUBSET Nat]
<1>1. Tail(q) \in Seq(RecvOp) /\ Head(q).id \in Nat
  <2>1. Head(q) \in RecvOp /\ Tail(q) \in Seq(RecvOp)
    OBVIOUS
  <2> QED BY <2>1 DEF RecvOp
<1>2. CASE Head(q).type = "RecvData"
  <2>1. /\ recvIO' = [recvIO EXCEPT ![p] = "header"]
        /\ mRecvQueue' = [mRecvQueue EXCEPT ![p] = q]
        /\ recvDone' = recvDone
    BY <1>2 DEF receiveOne
  <2> QED BY <2>1 DEF TypeOK, IO
<1>3. CASE Head(q).type # "RecvData"
  <2>1. /\ recvIO' = [recvIO EXCEPT ![p] = "idle"]
        /\ mRecvQueue' = [mRecvQueue EXCEPT ![p] = Tail(q)]
        /\ recvDone' = [recvDone EXCEPT ![p] = recvDone[p] \union {Head(q).id}]
    BY <1>3 DEF receiveOne
  <2>2. recvDone' \in [Party -> SUBSET Nat]
    BY <1>1, <2>1 DEF TypeOK
  <2> QED BY <1>1, <2>1, <2>2 DEF TypeOK, IO
<1> QED BY <1>2, <1>3

\* The steps of a user thread keep the types.
LEMMA TypeOK_User ==
    ASSUME TypeOK, NEW p \in Party, UserStep(p)
    PROVE  TypeOK'
<1>0. \A s \in Seq(Call) : s # <<>> => Head(s) \in Call /\ Tail(s) \in Seq(Call)
  OBVIOUS
<1>1. CASE CallSend(p)
  <2> DEFINE c == Head(script[p])
             o == [type |-> "SendData", id |-> sendCount[p] + 1, len |-> c.len,
                   sync |-> c.fn = "send"]
  <2>1. c \in Call /\ script' \in [Party -> Seq(Call)]
    BY <1>0, <1>1 DEF TypeOK, CallSend
  <2>2. o \in SendOp
    BY <2>1 DEF TypeOK, Call, SendOp
  <2>3. sendPosted' = [sendPosted EXCEPT ![p] = Append(sendPosted[p], o)]
    BY <1>1 DEF CallSend
  <2>4. sendPosted' \in [Party -> Seq(SendOp)]
    <3> HIDE DEF o
    <3> QED BY <2>2, <2>3 DEF TypeOK
  <2>5. ctl' \in [Party -> Ctl] /\ sendCount' \in [Party -> Nat]
    <3>1. /\ ctl' = [ctl EXCEPT ![p] = IF c.fn = "send" THEN "send" ELSE "run"]
          /\ sendCount' = [sendCount EXCEPT ![p] = @ + 1]
      BY <1>1 DEF CallSend
    <3> HIDE DEF c
    <3> QED BY <3>1 DEF TypeOK, Ctl
  <2> QED BY <1>1, <2>1, <2>4, <2>5 DEF TypeOK, Ctl, CallSend, recvVars
<1>2. CASE CallRecv(p)
  <2> DEFINE c == Head(script[p])
             o == [type |-> "RecvData", id |-> recvCount[p] + 1, len |-> c.len,
                   resize |-> c.fn = "recvBuf"]
  <2>1. c \in Call /\ script' \in [Party -> Seq(Call)]
    BY <1>0, <1>2 DEF TypeOK, CallRecv
  <2>2. o \in RecvOp
    BY <2>1 DEF TypeOK, Call, RecvOp
  <2>3. recvPosted' = [recvPosted EXCEPT ![p] = Append(recvPosted[p], o)]
    BY <1>2 DEF CallRecv
  <2>4. recvPosted' \in [Party -> Seq(RecvOp)]
    <3> HIDE DEF o
    <3> QED BY <2>2, <2>3 DEF TypeOK
  <2>5. ctl' \in [Party -> Ctl] /\ recvCount' \in [Party -> Nat]
    <3>1. /\ ctl' = [ctl EXCEPT ![p] = IF c.fn = "asyncRecv" THEN "run" ELSE "recv"]
          /\ recvCount' = [recvCount EXCEPT ![p] = @ + 1]
      BY <1>2 DEF CallRecv
    <3> HIDE DEF c
    <3> QED BY <3>1 DEF TypeOK, Ctl
  <2> QED BY <1>2, <2>1, <2>4, <2>5 DEF TypeOK, Ctl, CallRecv, sendVars
<1>3. CASE CallThrows(p)
  BY <1>3 DEF TypeOK, CallThrows, Die, sendVars, recvVars
<1>4. CASE CallWait(p)
  <2>1. script' \in [Party -> Seq(Call)]
    BY <1>0, <1>4 DEF TypeOK, CallWait
  <2> QED BY <1>4, <2>1 DEF TypeOK, CallWait, sendVars, recvVars
<1>5. CASE Return(p)
  BY <1>5 DEF TypeOK, Return, sendVars, recvVars
<1>6. CASE Close(p)
  <2> DEFINE r == [type |-> "CloseRecv", id |-> recvCount[p] + 1, len |-> 0, resize |-> FALSE]
             o == [type |-> "CloseSend", id |-> sendCount[p] + 1, len |-> 0, sync |-> TRUE]
  <2>1. r \in RecvOp /\ o \in SendOp
    BY DEF TypeOK, RecvOp, SendOp
  <2>2. /\ recvPosted' = [recvPosted EXCEPT ![p] = Append(recvPosted[p], r)]
        /\ sendPosted' = [sendPosted EXCEPT ![p] = Append(sendPosted[p], o)]
    BY <1>6 DEF Close
  <2>3. recvPosted' \in [Party -> Seq(RecvOp)] /\ sendPosted' \in [Party -> Seq(SendOp)]
    <3> HIDE DEF r, o
    <3> QED BY <2>1, <2>2 DEF TypeOK
  <2>4. ctl' \in [Party -> Ctl] /\ mStopped' \in [Party -> BOOLEAN]
    <3>1. ctl' = [ctl EXCEPT ![p] = "closing"] /\ mStopped' = [mStopped EXCEPT ![p] = TRUE]
      BY <1>6 DEF Close
    <3> QED BY <3>1 DEF TypeOK, Ctl
  <2>5. sendCount' \in [Party -> Nat] /\ recvCount' \in [Party -> Nat]
    <3>1. /\ sendCount' = [sendCount EXCEPT ![p] = @ + 1]
          /\ recvCount' = [recvCount EXCEPT ![p] = @ + 1]
      BY <1>6 DEF Close
    <3> QED BY <3>1 DEF TypeOK
  <2>6. UNCHANGED <<script, handle, mSendQueue, sendIO, sendDone, mRecvQueue, recvIO,
                    recvDone, got, wire>>
    BY <1>6 DEF Close
  <2> QED BY <2>3, <2>4, <2>5, <2>6 DEF TypeOK, Ctl
<1>7. CASE CloseReturn(p)
  BY <1>7 DEF TypeOK, CloseReturn, sendVars, recvVars
<1> QED BY <1>1, <1>2, <1>3, <1>4, <1>5, <1>6, <1>7 DEF UserStep

\* The steps of the send side keep the types.
LEMMA TypeOK_Send ==
    ASSUME TypeOK, ChannelInv, NEW p \in Party, SendStep(p)
    PROVE  TypeOK'
<1>1. CASE PushSend(p)
  <2> DEFINE q == Append(mSendQueue[p], Head(sendPosted[p]))
  <2>1. Head(sendPosted[p]) \in SendOp /\ Tail(sendPosted[p]) \in Seq(SendOp)
    <3>1. sendPosted[p] \in Seq(SendOp) /\ sendPosted[p] # <<>>
      BY <1>1 DEF TypeOK, PushSend
    <3> QED BY <3>1
  <2>2. q \in Seq(SendOp) /\ q # <<>>
    <3>1. mSendQueue[p] \in Seq(SendOp)
      BY DEF TypeOK
    <3> QED BY <2>1, <3>1, AppendFacts
  <2>3. /\ mSendQueue' \in [Party -> Seq(SendOp)]
        /\ sendIO' \in [Party -> IO]
        /\ sendDone' \in [Party -> SUBSET Nat]
    <3>1. CASE sendOne(p, q)
      BY <2>2, <3>1, sendOneType
    <3>2. CASE mSendQueue' = [mSendQueue EXCEPT ![p] = q] /\ UNCHANGED <<sendIO, sendDone>>
      BY <2>2, <3>2 DEF TypeOK, IO
    <3> QED BY <1>1, <3>1, <3>2 DEF PushSend
  <2> QED BY <1>1, <2>1, <2>3 DEF TypeOK, IO, PushSend, userVars, recvVars
<1>2. CASE WriteHeader(p)
  <2>1. mSendQueue[p] \in Seq(SendOp) /\ mSendQueue[p] # <<>>
    BY <1>2 DEF TypeOK, ChannelInv, SendSide, SendFront, WriteHeader
  <2> DEFINE o == Head(mSendQueue[p])
             m == [id |-> o.id, len |-> o.len, size |-> SizeOf(o.len), full |-> FALSE]
  <2>2. o \in SendOp
    BY <2>1
  <2>3. m \in Message
    BY <2>2, SizeOfType DEF SendOp, Message
  <2>4. wire' = [wire EXCEPT ![p] = Append(wire[p], m)]
    BY <1>2 DEF WriteHeader
  <2>5. wire' \in [Party -> Seq(Message)]
    <3> HIDE DEF m
    <3> QED BY <2>3, <2>4 DEF TypeOK
  <2> QED BY <1>2, <2>5 DEF TypeOK, WriteHeader, userVars, recvVars
<1>3. CASE WriteBody(p)
  <2>1. mSendQueue[p] \in Seq(SendOp) /\ mSendQueue[p] # <<>>
    BY <1>3 DEF TypeOK, ChannelInv, SendSide, SendFront, WriteBody
  <2>2. Head(mSendQueue[p]).id \in Nat
    <3>1. Head(mSendQueue[p]) \in SendOp
      BY <2>1
    <3> QED BY <3>1 DEF SendOp
  <2>3. sendDone' \in [Party -> SUBSET Nat]
    BY <1>3, <2>2 DEF TypeOK, WriteBody
  <2> DEFINE w == wire[p]
  <2>4. w \in Seq(Message) /\ w # <<>>
    BY <1>3 DEF TypeOK, ChannelInv, Stream, WriteBody
  <2>5. [w EXCEPT ![Len(w)].full = TRUE] \in Seq(Message)
    <3>1. Len(w) \in 1 .. Len(w) /\ w[Len(w)] \in Message
      BY <2>4
    <3>2. [w[Len(w)] EXCEPT !.full = TRUE] \in Message
      BY <3>1 DEF Message
    <3>3. [w EXCEPT ![Len(w)] = [w[Len(w)] EXCEPT !.full = TRUE]] \in Seq(Message)
      BY <2>4, <3>1, <3>2
    <3> QED BY <3>3
  <2>6. wire' = [wire EXCEPT ![p] = [w EXCEPT ![Len(w)].full = TRUE]]
    BY <1>3 DEF WriteBody
  <2>7. wire' \in [Party -> Seq(Message)]
    <3> HIDE DEF w
    <3> QED BY <2>5, <2>6 DEF TypeOK
  <2> QED BY <1>3, <2>3, <2>7 DEF TypeOK, WriteBody, userVars, recvVars
<1>4. CASE PopSend(p)
  <2> DEFINE q == Tail(mSendQueue[p])
  <2>1. q \in Seq(SendOp)
    BY <1>4 DEF TypeOK, ChannelInv, SendSide, SendFront, PopSend
  <2>2. /\ mSendQueue' \in [Party -> Seq(SendOp)]
        /\ sendIO' \in [Party -> IO]
        /\ sendDone' \in [Party -> SUBSET Nat]
    <3>1. CASE q # <<>> /\ sendOne(p, q)
      BY <2>1, <3>1, sendOneType
    <3>2. CASE /\ mSendQueue' = [mSendQueue EXCEPT ![p] = q]
               /\ sendIO' = [sendIO EXCEPT ![p] = "idle"]
               /\ UNCHANGED sendDone
      BY <2>1, <3>2 DEF TypeOK, IO
    <3> QED BY <1>4, <3>1, <3>2 DEF PopSend
  <2> QED BY <1>4, <2>2 DEF TypeOK, IO, PopSend, userVars, recvVars
<1>5. CASE WriteError(p)
  BY <1>5 DEF TypeOK, WriteError, Die, sendVars, recvVars
<1> QED BY <1>1, <1>2, <1>3, <1>4, <1>5 DEF SendStep

\* The steps of the receive side keep the types.
LEMMA TypeOK_Recv ==
    ASSUME TypeOK, ChannelInv, NEW p \in Party, RecvStep(p)
    PROVE  TypeOK'
<1>0. recvIO[p] # "idle" => /\ mRecvQueue[p] \in Seq(RecvOp) /\ mRecvQueue[p] # <<>>
                            /\ Head(mRecvQueue[p]) \in RecvOp
  <2>1. recvIO[p] # "idle" => mRecvQueue[p] \in Seq(RecvOp) /\ mRecvQueue[p] # <<>>
    BY DEF TypeOK, ChannelInv, RecvSide, RecvFront
  <2> QED BY <2>1
<1>1. CASE PushRecv(p)
  <2> DEFINE q == Append(mRecvQueue[p], Head(recvPosted[p]))
  <2>1. Head(recvPosted[p]) \in RecvOp /\ Tail(recvPosted[p]) \in Seq(RecvOp)
    <3>1. recvPosted[p] \in Seq(RecvOp) /\ recvPosted[p] # <<>>
      BY <1>1 DEF TypeOK, PushRecv
    <3> QED BY <3>1
  <2>2. q \in Seq(RecvOp) /\ q # <<>>
    <3>1. mRecvQueue[p] \in Seq(RecvOp)
      BY DEF TypeOK
    <3> QED BY <2>1, <3>1, AppendFacts
  <2>3. /\ mRecvQueue' \in [Party -> Seq(RecvOp)]
        /\ recvIO' \in [Party -> IO]
        /\ recvDone' \in [Party -> SUBSET Nat]
    <3>1. CASE receiveOne(p, q)
      BY <2>2, <3>1, receiveOneType
    <3>2. CASE mRecvQueue' = [mRecvQueue EXCEPT ![p] = q] /\ UNCHANGED <<recvIO, recvDone>>
      BY <2>2, <3>2 DEF TypeOK, IO
    <3> QED BY <1>1, <3>1, <3>2 DEF PushRecv
  <2> QED BY <1>1, <2>1, <2>3 DEF TypeOK, IO, PushRecv, userVars, sendVars
<1>2. CASE ReadHeader(p)
  BY <1>2 DEF TypeOK, ReadHeader, userVars, sendVars
<1>3. CASE ReadMismatch(p)
  <2>1. Head(mRecvQueue[p]).id \in Nat
    BY <1>0, <1>3 DEF ReadMismatch, RecvOp
  <2>2. recvDone' \in [Party -> SUBSET Nat]
    <3>1. CASE recvDone' = [recvDone EXCEPT ![p] = recvDone[p] \union {Head(mRecvQueue[p]).id}]
      BY <2>1, <3>1 DEF TypeOK
    <3> QED BY <1>3, <3>1 DEF TypeOK, ReadMismatch
  <2> QED BY <1>3, <2>2 DEF TypeOK, ReadMismatch, Die, sendVars
<1>4. CASE ReadBody(p)
  <2> DEFINE op == Head(mRecvQueue[p])
             m == Head(wire[Peer(p)])
             r == [op |-> op.id, msg |-> m.id, want |-> op.len, len |-> m.len,
                   size |-> m.size, resize |-> op.resize]
  <2>1. op \in RecvOp
    BY <1>0, <1>4 DEF ReadBody
  <2>2. Peer(p) \in Party /\ Peer(Peer(p)) = p
    BY PartyFacts
  <2>3. wire[Peer(p)] \in Seq(Message) /\ wire[Peer(p)] # <<>>
    BY <1>4, <2>2 DEF TypeOK, ReadBody, ChannelInv, Stream
  <2>4. m \in Message /\ Tail(wire[Peer(p)]) \in Seq(Message)
    BY <2>3
  <2>5. r \in Receipt
    BY <2>1, <2>4 DEF RecvOp, Message, Receipt
  <2>6. got' = [got EXCEPT ![p] = Append(got[p], r)]
    BY <1>4 DEF ReadBody
  <2>7. got' \in [Party -> Seq(Receipt)]
    <3> HIDE DEF r
    <3> QED BY <2>5, <2>6 DEF TypeOK
  <2>8. wire' \in [Party -> Seq(Message)]
    BY <1>4, <2>4 DEF TypeOK, ReadBody
  <2>9. op.id \in Nat
    BY <2>1 DEF RecvOp
  <2>10. recvDone' \in [Party -> SUBSET Nat]
    BY <1>4, <2>9 DEF TypeOK, ReadBody
  <2> QED BY <1>4, <2>7, <2>8, <2>10 DEF TypeOK, ReadBody, userVars, sendVars
<1>5. CASE PopRecv(p)
  <2> DEFINE q == Tail(mRecvQueue[p])
  <2>1. q \in Seq(RecvOp)
    BY <1>0, <1>5 DEF PopRecv
  <2>2. /\ mRecvQueue' \in [Party -> Seq(RecvOp)]
        /\ recvIO' \in [Party -> IO]
        /\ recvDone' \in [Party -> SUBSET Nat]
    <3>1. CASE q # <<>> /\ receiveOne(p, q)
      BY <2>1, <3>1, receiveOneType
    <3>2. CASE /\ mRecvQueue' = [mRecvQueue EXCEPT ![p] = q]
               /\ recvIO' = [recvIO EXCEPT ![p] = "idle"]
               /\ UNCHANGED recvDone
      BY <2>1, <3>2 DEF TypeOK, IO
    <3> QED BY <1>5, <3>1, <3>2 DEF PopRecv
  <2> QED BY <1>5, <2>2 DEF TypeOK, IO, PopRecv, userVars, sendVars
<1>6. CASE ReadError(p)
  BY <1>6 DEF TypeOK, ReadError, Die, sendVars, recvVars
<1> QED BY <1>1, <1>2, <1>3, <1>4, <1>5, <1>6 DEF RecvStep

-----------------------------------------------------------------------------
(* Each party has its own thread, queues and handlers.                     *)

\* Nothing of party q changes, but perhaps the stream it writes to.
Elsewhere(q) ==
    /\ script'[q] = script[q] /\ ctl'[q] = ctl[q] /\ mStopped'[q] = mStopped[q]
    /\ sendCount'[q] = sendCount[q] /\ sendPosted'[q] = sendPosted[q]
    /\ mSendQueue'[q] = mSendQueue[q] /\ sendIO'[q] = sendIO[q] /\ sendDone'[q] = sendDone[q]
    /\ recvCount'[q] = recvCount[q] /\ recvPosted'[q] = recvPosted[q]
    /\ mRecvQueue'[q] = mRecvQueue[q] /\ recvIO'[q] = recvIO[q] /\ recvDone'[q] = recvDone[q]
    /\ got'[q] = got[q]

\* Every variable has one part for each party.
PerParty ==
    /\ DOMAIN script = Party /\ DOMAIN ctl = Party /\ DOMAIN mStopped = Party
    /\ DOMAIN sendCount = Party /\ DOMAIN sendPosted = Party /\ DOMAIN mSendQueue = Party
    /\ DOMAIN sendIO = Party /\ DOMAIN sendDone = Party /\ DOMAIN recvCount = Party
    /\ DOMAIN recvPosted = Party /\ DOMAIN mRecvQueue = Party /\ DOMAIN recvIO = Party
    /\ DOMAIN recvDone = Party /\ DOMAIN got = Party /\ DOMAIN wire = Party

LEMMA PartyParts == TypeOK => PerParty
BY DEF TypeOK, PerParty

\* A step of one party leaves the other alone.
LEMMA UserElsewhere ==
    ASSUME PerParty, NEW p \in Party, NEW q \in Party, q # p, UserStep(p)
    PROVE  Elsewhere(q) /\ wire' = wire
<1>1. CASE CallSend(p)
  BY <1>1 DEF CallSend, Elsewhere, recvVars, PerParty
<1>2. CASE CallRecv(p)
  BY <1>2 DEF CallRecv, Elsewhere, sendVars, PerParty
<1>3. CASE CallThrows(p)
  BY <1>3 DEF CallThrows, Die, Elsewhere, sendVars, recvVars, PerParty
<1>4. CASE CallWait(p)
  BY <1>4 DEF CallWait, Elsewhere, sendVars, recvVars, PerParty
<1>5. CASE Return(p)
  BY <1>5 DEF Return, Elsewhere, sendVars, recvVars, PerParty
<1>6. CASE Close(p)
  BY <1>6 DEF Close, Elsewhere, PerParty
<1>7. CASE CloseReturn(p)
  BY <1>7 DEF CloseReturn, Elsewhere, sendVars, recvVars, PerParty
<1> QED BY <1>1, <1>2, <1>3, <1>4, <1>5, <1>6, <1>7 DEF UserStep

LEMMA SendElsewhere ==
    ASSUME PerParty, NEW p \in Party, NEW q \in Party, q # p, SendStep(p)
    PROVE  Elsewhere(q) /\ wire'[q] = wire[q]
<1> DEFINE Same == mSendQueue'[q] = mSendQueue[q] /\ sendIO'[q] = sendIO[q] /\ sendDone'[q] = sendDone[q]
<1>0. ASSUME NEW x, sendOne(p, x) PROVE Same
  <2>1. CASE Head(x).type = "SendData"
    BY <1>0, <2>1 DEF sendOne, PerParty
  <2>2. CASE Head(x).type = "CloseSend"
    BY <1>0, <2>2 DEF sendOne, PerParty
  <2> QED BY <1>0, <2>1, <2>2 DEF sendOne
<1>1. CASE PushSend(p)
  <2>1. Same
    BY <1>0, <1>1 DEF PushSend, PerParty
  <2>2. sendPosted'[q] = sendPosted[q]
    BY <1>1 DEF PushSend, PerParty
  <2> QED BY <1>1, <2>1, <2>2 DEF PushSend, Elsewhere, userVars, recvVars
<1>2. CASE WriteHeader(p)
  BY <1>2 DEF WriteHeader, Elsewhere, userVars, recvVars, PerParty
<1>3. CASE WriteBody(p)
  BY <1>3 DEF WriteBody, Elsewhere, userVars, recvVars, PerParty
<1>4. CASE PopSend(p)
  <2>1. Same
    BY <1>0, <1>4 DEF PopSend, PerParty
  <2>2. sendPosted'[q] = sendPosted[q]
    BY <1>4 DEF PopSend, PerParty
  <2> QED BY <1>4, <2>1, <2>2 DEF PopSend, Elsewhere, userVars, recvVars
<1>5. CASE WriteError(p)
  BY <1>5 DEF WriteError, Die, Elsewhere, sendVars, recvVars, PerParty
<1> QED BY <1>1, <1>2, <1>3, <1>4, <1>5 DEF SendStep

LEMMA RecvElsewhere ==
    ASSUME PerParty, NEW p \in Party, NEW q \in Party, q # p, RecvStep(p)
    PROVE  Elsewhere(q)
<1> DEFINE Same == mRecvQueue'[q] = mRecvQueue[q] /\ recvIO'[q] = recvIO[q] /\ recvDone'[q] = recvDone[q]
<1>0. ASSUME NEW x, receiveOne(p, x) PROVE Same
  <2>1. CASE Head(x).type = "RecvData"
    BY <1>0, <2>1 DEF receiveOne, PerParty
  <2>2. CASE Head(x).type = "CloseRecv"
    BY <1>0, <2>2 DEF receiveOne, PerParty
  <2> QED BY <1>0, <2>1, <2>2 DEF receiveOne
<1>1. CASE PushRecv(p)
  <2>1. Same
    BY <1>0, <1>1 DEF PushRecv, PerParty
  <2>2. recvPosted'[q] = recvPosted[q]
    BY <1>1 DEF PushRecv, PerParty
  <2> QED BY <1>1, <2>1, <2>2 DEF PushRecv, Elsewhere, userVars, sendVars
<1>2. CASE ReadHeader(p)
  BY <1>2 DEF ReadHeader, Elsewhere, userVars, sendVars, PerParty
<1>3. CASE ReadMismatch(p)
  BY <1>3 DEF ReadMismatch, Die, Elsewhere, sendVars, PerParty
<1>4. CASE ReadBody(p)
  BY <1>4 DEF ReadBody, Elsewhere, userVars, sendVars, PerParty
<1>5. CASE PopRecv(p)
  <2>1. Same
    BY <1>0, <1>5 DEF PopRecv, PerParty
  <2>2. recvPosted'[q] = recvPosted[q]
    BY <1>5 DEF PopRecv, PerParty
  <2> QED BY <1>5, <2>1, <2>2 DEF PopRecv, Elsewhere, userVars, sendVars
<1>6. CASE ReadError(p)
  BY <1>6 DEF ReadError, Die, Elsewhere, sendVars, recvVars, PerParty
<1> QED BY <1>1, <1>2, <1>3, <1>4, <1>5, <1>6 DEF RecvStep

-----------------------------------------------------------------------------
(* Frames: a part of the invariant holds on if the state it is about stays. *)

SendLocal(p) ==
    <<sendCount[p], sendPosted[p], mSendQueue[p], sendIO[p], sendDone[p], mStopped[p]>>
RecvLocal(p) ==
    <<recvCount[p], recvPosted[p], mRecvQueue[p], recvIO[p], recvDone[p], got[p], mStopped[p]>>
StreamLocal(p) ==
    <<sendCount[p], sendPosted[p], mSendQueue[p], sendIO[p], mStopped[p], wire[p],
      got[Peer(p)], recvIO[Peer(p)]>>

\* The send side of p depends on nothing but its own strand and queue.
LEMMA SendFrame ==
    ASSUME NEW p \in Party, SendSide(p), SendLocal(p)' = SendLocal(p)
    PROVE  SendSide(p)'
BY DEF SendSide, SendLocal, SendOrder, SendFront, SendPromises, SendDrained, Numbered, sendPopped

\* The same for the receive side.
LEMMA RecvFrame ==
    ASSUME NEW p \in Party, RecvSide(p), RecvLocal(p)' = RecvLocal(p)
    PROVE  RecvSide(p)'
BY DEF RecvSide, RecvLocal, RecvOrder, RecvFront, RecvPromises, RecvDrained, Receipts, Filled,
       Numbered, recvPopped

\* The stream of p depends on the send side of p and the receive side of its peer.
LEMMA StreamFrame ==
    ASSUME NEW p \in Party, Stream(p), StreamLocal(p)' = StreamLocal(p)
    PROVE  Stream(p)'
BY DEF Stream, StreamLocal, Written, SendDrained, Numbered, sendPopped

\* A step of the send side that writes nothing leaves the stream as it is.
LEMMA StreamKept ==
    ASSUME NEW p \in Party, Stream(p), Written(p)' = Written(p),
           wire'[p] = wire[p], got'[Peer(p)] = got[Peer(p)],
           recvIO'[Peer(p)] = recvIO[Peer(p)],
           sendIO'[p] = "body" <=> sendIO[p] = "body"
    PROVE  Stream(p)'
BY DEF Stream, Numbered

-----------------------------------------------------------------------------
(* The send side.                                                          *)

\* Posting an operation, in send, asyncSend or close.
PostsSend(p, op) ==
    /\ op.id = sendCount[p] + 1
    /\ mStopped'[p] = (op.type = "CloseSend")
    /\ sendCount'[p] = sendCount[p] + 1
    /\ sendPosted'[p] = Append(sendPosted[p], op)
    /\ mSendQueue'[p] = mSendQueue[p] /\ sendIO'[p] = sendIO[p] /\ sendDone'[p] = sendDone[p]

\* It extends the strand and leaves what has been written as it is.
LEMMA PostSend ==
    ASSUME TypeOK, NEW p \in Party, SendSide(p), ~mStopped[p],
           NEW op \in SendOp, PostsSend(p, op)
    PROVE  SendSide(p)' /\ Written(p)' = Written(p)
<1> DEFINE s == sendPosted[p]
           q == mSendQueue[p]
           t == sendPosted'[p]
           n == sendCount[p]
<1>1. /\ n \in Nat /\ s \in Seq(SendOp) /\ q \in Seq(SendOp)
      /\ sendDone[p] \in SUBSET Nat /\ Len(s) \in Nat /\ Len(q) \in Nat
  BY DEF TypeOK
<1>2. /\ t # <<>> /\ Len(t) = Len(s) + 1 /\ t[Len(s) + 1] = op
      /\ \A i \in 1 .. Len(s) : t[i] = s[i]
  BY <1>1, AppendFacts DEF PostsSend
<1>3. sendPopped(p)' = sendPopped(p) /\ sendPopped(p) = n - Len(s) - Len(q)
  <2>1. sendPopped(p) = n - Len(s) - Len(q)
    BY DEF sendPopped
  <2>2. sendCount'[p] = n + 1 /\ mSendQueue'[p] = q
    BY DEF PostsSend
  <2>3. sendPopped(p)' = sendCount'[p] - Len(t) - Len(mSendQueue'[p])
    BY DEF sendPopped
  <2> HIDE DEF s, q, t, n
  <2>4. sendPopped(p)' = (n + 1) - (Len(s) + 1) - Len(q)
    BY <1>2, <2>2, <2>3
  <2>5. (n + 1) - (Len(s) + 1) - Len(q) = n - Len(s) - Len(q)
    BY <1>1
  <2> QED BY <2>1, <2>4, <2>5
<1>4. SendOrder(p)'
  <2>1. Numbered(q, n - Len(s) - Len(q)) /\ Numbered(s, n - Len(s))
    BY <1>1, <1>3, SMTT(30) DEF SendSide, SendOrder, Numbered
  <2>2. Numbered(t, n - Len(s)) /\ t[Len(s) + 1].id = n + 1
    <3>1. op.id = n + 1
      BY DEF PostsSend
    <3> HIDE DEF s, q, t, n
    <3>2. ASSUME NEW i \in 1 .. Len(s) PROVE t[i].id = n - Len(s) + i
      BY <1>2, <2>1 DEF Numbered
    <3>3. t[Len(s) + 1].id = n - Len(s) + (Len(s) + 1)
      BY <1>1, <1>2, <3>1
    <3>4. ASSUME NEW i \in 1 .. Len(t) PROVE t[i].id = n - Len(s) + i
      <4>1. i \in 1 .. Len(s) \/ i = Len(s) + 1
        BY <1>1, <1>2
      <4> QED BY <3>2, <3>3, <4>1
    <3> QED BY <1>2, <3>1, <3>4 DEF Numbered
  <2>3. \A i \in 1 .. Len(q) : q[i].id <= n /\ q[i].type # "CloseSend"
    <3>1. \A i \in 1 .. Len(q) : q[i].type # "CloseSend"
      BY DEF SendSide, SendOrder
    <3> HIDE DEF s, q, t, n
    <3> QED BY <1>1, <2>1, <3>1 DEF Numbered
  <2>4. \A i \in 1 .. Len(s) : s[i].id <= n /\ s[i].type # "CloseSend"
    <3>1. \A i \in 1 .. Len(s) : s[i].type # "CloseSend"
      BY DEF SendSide, SendOrder
    <3> HIDE DEF s, q, t, n
    <3> QED BY <1>1, <2>1, <3>1 DEF Numbered
  <2>5. mStopped'[p] = (op.type = "CloseSend")
    BY DEF PostsSend
  <2> DEFINE z == mStopped'[p]
  <2> HIDE DEF s, q, t, n, z
  <2>6. \A i \in 1 .. Len(q) : q[i].type = "CloseSend" <=> z /\ q[i].id = n + 1
    BY <1>1, <2>3
  <2>7. \A i \in 1 .. Len(t) : t[i].type = "CloseSend" <=> z /\ t[i].id = n + 1
    <3>1. ASSUME NEW i \in 1 .. Len(s)
          PROVE  t[i].type = "CloseSend" <=> z /\ t[i].id = n + 1
      BY <1>1, <1>2, <2>4
    <3>2. t[Len(s) + 1].type = "CloseSend" <=> z /\ t[Len(s) + 1].id = n + 1
      BY <1>2, <2>2, <2>5 DEF z
    <3> QED BY <1>1, <1>2, <3>1, <3>2
  <2>8. /\ sendCount'[p] = n + 1 /\ mSendQueue'[p] = q
        /\ sendPopped(p)' = n - Len(s) - Len(q) /\ sendPopped(p)' >= 0
    BY <1>3 DEF PostsSend, SendSide, SendOrder, n, q
  <2>9. n - Len(s) - Len(q) + Len(q) = n - Len(s)
    BY <1>1
  <2> QED BY <2>1, <2>2, <2>6, <2>7, <2>8, <2>9 DEF SendOrder, t, z
<1>5. SendFront(p)'
  BY DEF SendSide, SendFront, PostsSend
<1>6. SendPromises(p)'
  <2>1. \A k \in sendDone[p] : k <= n /\ k \in Nat
    BY <1>1 DEF SendSide, SendPromises
  <2>2. sendDone'[p] = sendDone[p] /\ sendCount'[p] = n + 1
    BY DEF PostsSend
  <2> HIDE DEF n
  <2> QED BY <1>1, <2>1, <2>2 DEF SendPromises
<1>7. Written(p)' = Written(p)
  <2>1. ~SendDrained(p) /\ ~SendDrained(p)'
    BY <1>2 DEF SendDrained
  <2>2. sendIO'[p] = sendIO[p]
    BY DEF PostsSend
  <2> QED BY <1>3, <2>1, <2>2 DEF Written
<1> QED BY <1>4, <1>5, <1>6, <1>7 DEF SendSide

\* The queue q is what is left of the send queue when its front is started,
\* by dispatch or after a pop, and n operations are through.
StartsSend(p, q, n) ==
    /\ sendCount'[p] = sendCount[p] /\ mStopped'[p] = mStopped[p]
    /\ sendPosted'[p] \in Seq(SendOp)
    /\ n = sendCount[p] - Len(sendPosted'[p]) - Len(q)
    /\ Numbered(q, n) /\ Numbered(sendPosted'[p], n + Len(q))
    /\ \A i \in 1 .. Len(q) :
         q[i].type = "CloseSend" <=> mStopped[p] /\ q[i].id = sendCount[p]
    /\ \A i \in 1 .. Len(sendPosted'[p]) :
         sendPosted'[p][i].type = "CloseSend"
           <=> mStopped[p] /\ sendPosted'[p][i].id = sendCount[p]
    /\ \A k \in sendDone[p] : k <= sendCount[p]
    /\ ~(mStopped[p] /\ sendCount[p] \in sendDone[p])

\* Either a write begins, or close() was last and strand and queue are empty.
LEMMA StartSend ==
    ASSUME TypeOK, NEW p \in Party, NEW q \in Seq(SendOp), q # <<>>, NEW n \in Nat,
           sendOne(p, q), StartsSend(p, q, n)
    PROVE  SendSide(p)' /\ Written(p)' = n /\ sendIO'[p] # "body"
<1> DEFINE t == sendPosted'[p]
           h == q[1]
           c == sendCount[p]
<1>1. /\ Len(q) \in Nat /\ Len(q) >= 1 /\ Head(q) = h /\ h \in SendOp
      /\ Tail(q) \in Seq(SendOp) /\ (Tail(q) = <<>> <=> Len(q) = 1)
  BY TailFacts
<1>2. /\ c \in Nat /\ Len(t) \in Nat /\ (t = <<>> <=> Len(t) = 0)
      /\ n = c - Len(t) - Len(q)
  <2>1. t \in Seq(SendOp) /\ c \in Nat /\ n = c - Len(t) - Len(q)
    BY DEF StartsSend, TypeOK
  <2> HIDE DEF t
  <2> QED BY <2>1, EmptySeq
<1>3. h.id = n + 1
  BY <1>1 DEF Numbered, StartsSend
<1>4. h.type = "CloseSend" <=> mStopped[p] /\ h.id = c
  BY <1>1 DEF StartsSend
<1>5. CASE h.type = "SendData"
  <2>1. sendIO'[p] = "header" /\ mSendQueue'[p] = q /\ sendDone'[p] = sendDone[p]
    BY <1>1, <1>5 DEF sendOne, TypeOK
  <2>2. sendPopped(p)' = n
    BY <1>2, <2>1 DEF sendPopped, StartsSend
  <2>3. SendOrder(p)'
    BY <2>1, <2>2 DEF SendOrder, StartsSend
  <2>4. SendFront(p)' /\ SendPromises(p)'
    BY <1>5, <2>1 DEF SendFront, SendPromises, StartsSend
  <2>5. Written(p)' = n
    BY <2>1, <2>2 DEF Written, SendDrained
  <2> QED BY <2>1, <2>3, <2>4, <2>5 DEF SendSide
<1>6. CASE h.type = "CloseSend"
  <2>1. /\ sendIO'[p] = "idle" /\ mSendQueue'[p] = Tail(q)
        /\ sendDone'[p] = sendDone[p] \union {h.id}
    BY <1>1, <1>6, SMTT(30) DEF sendOne, TypeOK
  <2>2. mStopped[p] /\ h.id = c
    BY <1>4, <1>6
  <2>3. Len(q) = 1 /\ Len(t) = 0
    <3> HIDE DEF h, t, c
    <3> QED BY <1>1, <1>2, <1>3, <2>2
  <2>4. mSendQueue'[p] = <<>> /\ t = <<>>
    <3> HIDE DEF t
    <3> QED BY <1>1, <1>2, <2>1, <2>3
  <2>5. Len(mSendQueue'[p]) = 0 /\ sendCount'[p] = c /\ mStopped'[p]
    BY <2>2, <2>4, EmptySeq DEF StartsSend
  <2>6. sendPopped(p)' = c
    BY <1>2, <2>3, <2>5 DEF sendPopped
  <2>7. SendOrder(p)'
    BY <1>2, <2>3, <2>5, <2>6 DEF SendOrder, Numbered
  <2>8. SendFront(p)'
    BY <2>1, <2>4 DEF SendFront
  <2>9. SendPromises(p)'
    <3>1. SendDrained(p)'
      BY <2>4, <2>5 DEF SendDrained
    <3>2. \A k \in sendDone'[p] : k <= sendCount'[p]
      <4>1. \A k \in sendDone[p] : k <= c
        BY DEF StartsSend
      <4>2. c <= c
        BY <1>2
      <4>3. ASSUME NEW k \in sendDone'[p] PROVE k <= c
        <5>1. k \in sendDone[p] \/ k = c
          BY <2>1, <2>2
        <5> QED BY <4>1, <4>2, <5>1
      <4> QED BY <2>5, <4>3
    <3> QED BY <3>1, <3>2 DEF SendPromises
  <2>10. Written(p)' = n
    <3>1. SendDrained(p)'
      BY <2>4, <2>5 DEF SendDrained
    <3>2. n = c - 1
      BY <1>2, <2>3
    <3> QED BY <2>5, <3>1, <3>2 DEF Written
  <2> QED BY <2>1, <2>7, <2>8, <2>9, <2>10 DEF SendSide
<1> QED BY <1>1, <1>5, <1>6 DEF SendOp

\* dispatch pushes an operation.
LEMMA PushSendInv ==
    ASSUME TypeOK, NEW p \in Party, SendSide(p), PushSend(p)
    PROVE  SendSide(p)' /\ Written(p)' = Written(p) /\ (sendIO'[p] = "body" <=> sendIO[p] = "body")
<1> DEFINE s == sendPosted[p]
           m == mSendQueue[p]
           o == s[1]
           q == Append(m, o)
           c == sendCount[p]
           n == c - Len(s) - Len(m)
<1>1. s \in Seq(SendOp) /\ s # <<>> /\ m \in Seq(SendOp) /\ c \in Nat
  BY DEF PushSend, TypeOK
<1>2. /\ Len(s) \in Nat /\ Len(s) >= 1 /\ o \in SendOp /\ Head(s) = o
      /\ Tail(s) \in Seq(SendOp) /\ Len(Tail(s)) = Len(s) - 1
      /\ \A i \in 1 .. Len(s) - 1 : Tail(s)[i] = s[i + 1]
  <2> HIDE DEF s
  <2> QED BY <1>1, TailFacts
<1>3. /\ Len(m) \in Nat /\ q \in Seq(SendOp) /\ q # <<>> /\ Len(q) = Len(m) + 1
      /\ \A i \in 1 .. Len(m) : q[i] = m[i]
      /\ q[Len(m) + 1] = o
  <2> HIDE DEF m, o
  <2> QED BY <1>1, <1>2, AppendFacts
<1>4. sendPosted'[p] = Tail(s) /\ sendCount'[p] = c /\ mStopped'[p] = mStopped[p]
  BY DEF PushSend, userVars, TypeOK
<1>5. n \in Nat /\ sendPopped(p) = n /\ Numbered(m, n) /\ Numbered(s, n + Len(m))
  BY <1>1, <1>2, <1>3 DEF SendSide, SendOrder, sendPopped
<1>6. /\ \A i \in 1 .. Len(m) : m[i].type = "CloseSend" <=> mStopped[p] /\ m[i].id = c
      /\ \A i \in 1 .. Len(s) : s[i].type = "CloseSend" <=> mStopped[p] /\ s[i].id = c
      /\ \A k \in sendDone[p] : k <= c
      /\ ~(mStopped[p] /\ c \in sendDone[p])
  BY <1>1 DEF SendSide, SendOrder, SendPromises, SendDrained
<1>7. StartsSend(p, q, n)
  <2>1. n = c - Len(Tail(s)) - Len(q)
    BY <1>1, <1>2, <1>3
  <2> DEFINE t == Tail(s)
             z == mStopped[p]
  <2>2. t \in Seq(SendOp) /\ Len(t) = Len(s) - 1 /\ \A i \in 1 .. Len(t) : t[i] = s[i + 1]
    BY <1>2
  <2> HIDE DEF s, m, o, q, c, n, t, z
  <2>3. ASSUME NEW i \in 1 .. Len(q)
        PROVE  q[i].id = n + i /\ (q[i].type = "CloseSend" <=> z /\ q[i].id = c)
    <3>1. CASE i \in 1 .. Len(m)
      BY <1>3, <1>5, <1>6, <3>1 DEF Numbered, z
    <3>2. CASE i = Len(m) + 1
      <4>1. q[i] = s[1] /\ 1 \in 1 .. Len(s)
        BY <1>2, <1>3, <3>2 DEF o
      <4>2. s[1].id = n + Len(m) + 1
        BY <1>5, <4>1 DEF Numbered
      <4> QED BY <1>3, <1>5, <1>6, <3>2, <4>1, <4>2 DEF z
    <3> QED BY <1>3, <3>1, <3>2
  <2>4. ASSUME NEW i \in 1 .. Len(t)
        PROVE  t[i].id = n + Len(q) + i /\ (t[i].type = "CloseSend" <=> z /\ t[i].id = c)
    <3>1. i + 1 \in 1 .. Len(s) /\ t[i] = s[i + 1]
      BY <1>2, <2>2
    <3>2. s[i + 1].id = n + Len(m) + (i + 1)
      BY <1>5, <3>1 DEF Numbered
    <3> QED BY <1>3, <1>5, <1>6, <3>1, <3>2 DEF z
  <2>5. sendPosted'[p] = t
    BY <1>4 DEF t, s
  <2>6. sendCount'[p] = sendCount[p] /\ c = sendCount[p]
    BY <1>4 DEF c
  <2> QED BY <1>4, <1>6, <2>1, <2>2, <2>3, <2>4, <2>5, <2>6 DEF StartsSend, Numbered, z, t
<1>8. sendPopped(p) = n /\ ~SendDrained(p)
  BY <1>1, <1>5 DEF SendDrained
<1>9. CASE Len(q) = 1
  <2>1. m = <<>>
    <3> HIDE DEF m, q
    <3> QED BY <1>1, <1>3, <1>9, EmptySeq
  <2>2. sendIO[p] = "idle"
    BY <2>1 DEF SendSide, SendFront
  <2>3. sendOne(p, q)
    BY <1>2, <1>9 DEF PushSend
  <2>4. SendSide(p)' /\ Written(p)' = n /\ sendIO'[p] # "body"
    <3> HIDE DEF q, n
    <3> QED BY <1>3, <1>5, <1>7, <2>3, StartSend
  <2> QED BY <1>8, <2>2, <2>4 DEF Written
<1>10. CASE Len(q) # 1
  <2>1. mSendQueue'[p] = q /\ sendIO'[p] = sendIO[p] /\ sendDone'[p] = sendDone[p]
    BY <1>2, <1>10 DEF PushSend, TypeOK
  <2>2. m # <<>> /\ Len(m) >= 1
    <3> HIDE DEF m, q
    <3> QED BY <1>1, <1>3, <1>10, EmptySeq
  <2>3. sendPopped(p)' = n
    <3> HIDE DEF q
    <3> QED BY <1>7, <2>1 DEF sendPopped, StartsSend
  <2>4. SendOrder(p)'
    <3> HIDE DEF q, n
    <3> QED BY <1>5, <1>7, <2>1, <2>3 DEF SendOrder, StartsSend
  <2>5. q[1] = m[1]
    BY <1>3, <2>2
  <2>6. SendFront(p)'
    <3> HIDE DEF q
    <3> QED BY <1>3, <2>1, <2>2, <2>5 DEF SendSide, SendFront
  <2>7. SendPromises(p)'
    <3> HIDE DEF q, n
    <3> QED BY <1>7, <2>1 DEF SendPromises, StartsSend
  <2>8. Written(p)' = Written(p)
    <3> HIDE DEF q, n
    <3>1. ~SendDrained(p)'
      BY <1>3, <2>1 DEF SendDrained
    <3> QED BY <1>8, <2>1, <2>3, <3>1 DEF Written
  <2> QED BY <2>1, <2>4, <2>6, <2>7, <2>8 DEF SendSide
<1> QED BY <1>9, <1>10

\* The completion handler of a write has the strand pop the operation.
LEMMA PopSendInv ==
    ASSUME TypeOK, NEW p \in Party, SendSide(p), PopSend(p)
    PROVE  SendSide(p)' /\ Written(p)' = Written(p) /\ (sendIO'[p] = "body" <=> sendIO[p] = "body")
<1> DEFINE s == sendPosted[p]
           m == mSendQueue[p]
           q == Tail(m)
           c == sendCount[p]
           n == c - Len(s) - Len(m) + 1
           z == mStopped[p]
<1>1. sendIO[p] = "done" /\ s \in Seq(SendOp) /\ m \in Seq(SendOp) /\ m # <<>> /\ c \in Nat
  BY DEF PopSend, TypeOK, SendSide, SendFront
<1>2. /\ Len(m) \in Nat /\ Len(m) >= 1 /\ q \in Seq(SendOp) /\ Len(q) = Len(m) - 1
      /\ \A i \in 1 .. Len(m) - 1 : q[i] = m[i + 1]
      /\ Len(s) \in Nat
  <2> HIDE DEF m
  <2> QED BY <1>1, TailFacts
<1>3. sendPosted'[p] = s /\ sendCount'[p] = c /\ mStopped'[p] = z
  BY DEF PopSend, userVars
<1>4. /\ sendPopped(p) = n - 1 /\ n - 1 >= 0
      /\ Numbered(m, n - 1) /\ Numbered(s, n - 1 + Len(m))
  BY <1>1, <1>2 DEF SendSide, SendOrder, sendPopped
<1>5. n \in Nat
  BY <1>1, <1>2, <1>4
<1>6. /\ \A i \in 1 .. Len(m) : m[i].type = "CloseSend" <=> z /\ m[i].id = c
      /\ \A i \in 1 .. Len(s) : s[i].type = "CloseSend" <=> z /\ s[i].id = c
      /\ \A k \in sendDone[p] : k <= c
      /\ ~(z /\ c \in sendDone[p])
  BY <1>1 DEF SendSide, SendOrder, SendPromises, SendDrained
<1>7. StartsSend(p, q, n)
  <2>1. n = c - Len(s) - Len(q)
    BY <1>1, <1>2
  <2> HIDE DEF s, m, q, c, n, z
  <2>2. ASSUME NEW i \in 1 .. Len(q)
        PROVE  q[i].id = n + i /\ (q[i].type = "CloseSend" <=> z /\ q[i].id = c)
    <3>1. i + 1 \in 1 .. Len(m) /\ q[i] = m[i + 1]
      BY <1>2
    <3>2. m[i + 1].id = n - 1 + (i + 1)
      BY <1>4, <3>1 DEF Numbered
    <3> QED BY <1>5, <1>6, <3>1, <3>2
  <2>3. Numbered(s, n + Len(q))
    <3>1. n - 1 + Len(m) = n + Len(q)
      BY <1>2, <1>5
    <3> QED BY <1>4, <3>1
  <2>4. c = sendCount[p] /\ z = mStopped[p] /\ s \in Seq(SendOp)
    BY <1>1 DEF c, z
  <2> QED BY <1>3, <1>6, <2>1, <2>2, <2>3, <2>4 DEF StartsSend, Numbered
<1>8. Written(p) = n
  <2>1. ~SendDrained(p)
    BY <1>1 DEF SendDrained
  <2> QED BY <1>1, <1>4, <1>5, <2>1 DEF Written
<1>9. CASE q # <<>>
  <2>1. sendOne(p, q)
    BY <1>9 DEF PopSend
  <2> HIDE DEF q, n
  <2> QED BY <1>1, <1>2, <1>5, <1>7, <1>8, <1>9, <2>1, StartSend
<1>10. CASE q = <<>>
  <2>1. mSendQueue'[p] = <<>> /\ sendIO'[p] = "idle" /\ sendDone'[p] = sendDone[p]
    BY <1>10 DEF PopSend, TypeOK
  <2>2. Len(q) = 0 /\ Len(mSendQueue'[p]) = 0
    <3> HIDE DEF q
    <3> QED BY <1>10, <2>1, EmptySeq
  <2>3. n = c - Len(s)
    <3>1. c \in Nat /\ Len(s) \in Nat /\ Len(m) = 1
      <4> HIDE DEF q, m, s, c
      <4> QED BY <1>1, <1>2, <2>2
    <3> HIDE DEF m, s, c
    <3> QED BY <3>1
  <2> HIDE DEF q, n, s, c, z
  <2>4. sendPopped(p)' = n
    BY <1>1, <1>2, <1>3, <2>2, <2>3 DEF sendPopped
  <2>5. SendOrder(p)'
    BY <1>3, <1>5, <1>6, <1>7, <2>1, <2>2, <2>4 DEF SendOrder, StartsSend, Numbered
  <2>6. SendFront(p)'
    BY <2>1 DEF SendFront
  <2>7. SendPromises(p)'
    BY <1>3, <1>6, <2>1 DEF SendPromises
  <2>8. ~SendDrained(p)'
    <3>1. SUFFICES ASSUME z, s = <<>> PROVE FALSE
      BY <1>3 DEF SendDrained
    <3>2. Len(s) = 0 /\ Len(m) = 1 /\ n = c
      BY <1>1, <1>2, <2>2, <2>3, <3>1, EmptySeq
    <3>3. m[1].id = c
      BY <1>1, <1>4, <3>2 DEF Numbered
    <3>4. m[1].type = "CloseSend"
      BY <1>6, <3>1, <3>2, <3>3
    <3>5. m[1].type = "SendData"
      BY <1>1 DEF SendSide, SendFront
    <3> QED BY <3>4, <3>5
  <2>9. Written(p)' = n
    BY <2>1, <2>4, <2>8 DEF Written
  <2> QED BY <1>1, <1>8, <2>1, <2>5, <2>6, <2>7, <2>9 DEF SendSide
<1> QED BY <1>9, <1>10

\* async_write puts the header of the front operation in the stream.
LEMMA WriteHeaderInv ==
    ASSUME TypeOK, NEW p \in Party, SendSide(p), Stream(p), WriteHeader(p)
    PROVE  SendSide(p)' /\ Stream(p)'
<1> DEFINE m == mSendQueue[p]
           w == wire[p]
           x == wire'[p]
           g == Len(got[Peer(p)])
<1>1. /\ sendIO[p] = "header" /\ m \in Seq(SendOp) /\ m # <<>>
      /\ w \in Seq(Message) /\ g \in Nat /\ sendCount[p] \in Nat
      /\ sendPosted[p] \in Seq(SendOp)
  BY PartyFacts DEF WriteHeader, TypeOK, SendSide, SendFront
<1>2. Head(m) = m[1] /\ m[1] \in SendOp /\ Len(m) \in Nat /\ Len(m) >= 1
  <2> HIDE DEF m
  <2> QED BY <1>1, TailFacts
<1>3. \E e \in Message : e.id = m[1].id /\ e.full = FALSE /\ x = Append(w, e)
  <2> DEFINE e == [id |-> m[1].id, len |-> m[1].len, size |-> SizeOf(m[1].len), full |-> FALSE]
  <2>1. e \in Message
    BY <1>2, SizeOfType DEF SendOp, Message
  <2>2. x = Append(w, e)
    BY <1>2 DEF WriteHeader, TypeOK
  <2> QED BY <2>1, <2>2
<1>4. PICK e \in Message : e.id = m[1].id /\ e.full = FALSE /\ x = Append(w, e)
  BY <1>3
<1>5. /\ Len(w) \in Nat /\ Len(x) = Len(w) + 1 /\ x # <<>> /\ x[Len(w) + 1] = e
      /\ \A i \in 1 .. Len(w) : x[i] = w[i]
  <2> HIDE DEF w, x
  <2> QED BY <1>1, <1>4, AppendFacts
<1>6. /\ sendIO'[p] = "body" /\ sendCount'[p] = sendCount[p] /\ mStopped'[p] = mStopped[p]
      /\ sendPosted'[p] = sendPosted[p] /\ mSendQueue'[p] = m /\ sendDone'[p] = sendDone[p]
      /\ got'[Peer(p)] = got[Peer(p)]
  BY DEF WriteHeader, userVars, recvVars, TypeOK
<1>7. SendSide(p)'
  <2>1. SendOrder(p)' /\ SendPromises(p)'
    BY <1>6 DEF SendSide, SendOrder, SendPromises, SendDrained, Numbered, sendPopped
  <2>2. SendFront(p)'
    BY <1>1, <1>6 DEF SendSide, SendFront
  <2> QED BY <2>1, <2>2 DEF SendSide
<1>8. sendPopped(p)' = sendPopped(p) /\ sendPopped(p) \in Nat
  BY <1>1, <1>2, <1>6 DEF sendPopped, SendSide, SendOrder
<1>9. ~SendDrained(p) /\ ~SendDrained(p)'
  BY <1>1, <1>6 DEF SendDrained
<1>10. Written(p) = sendPopped(p) /\ Written(p)' = sendPopped(p) + 1
  BY <1>1, <1>6, <1>8, <1>9 DEF Written
<1>11. g + Len(w) = sendPopped(p) /\ Numbered(w, g) /\ \A i \in 1 .. Len(w) : w[i].full
  BY <1>1, <1>10 DEF Stream
<1>12. e.id = sendPopped(p) + 1
  BY <1>2, <1>4, <1>8 DEF SendSide, SendOrder, Numbered
<1> HIDE DEF m, w, x, g
<1>13. ASSUME NEW i \in 1 .. Len(x)
       PROVE  x[i].id = g + i /\ (x[i].full <=> i # Len(x))
  <2>1. CASE i \in 1 .. Len(w)
    BY <1>5, <1>11, <2>1 DEF Numbered
  <2>2. CASE i = Len(w) + 1
    BY <1>1, <1>4, <1>5, <1>8, <1>11, <1>12, <2>2
  <2> QED BY <1>5, <2>1, <2>2
<1>14. g + Len(x) = Written(p)'
  BY <1>1, <1>5, <1>8, <1>10, <1>11
<1>15. Stream(p)'
  <2>1. Len(got'[Peer(p)]) = g /\ wire'[p] = x
    BY <1>6 DEF g, x
  <2> QED BY <1>5, <1>6, <1>13, <1>14, <2>1 DEF Stream, Numbered
<1> QED BY <1>7, <1>15

\* The completion handler of async_write: the body is out, a synchronous
\* send is told so.
LEMMA WriteBodyInv ==
    ASSUME TypeOK, NEW p \in Party, SendSide(p), Stream(p), WriteBody(p)
    PROVE  SendSide(p)' /\ Stream(p)'
<1> DEFINE m == mSendQueue[p]
           w == wire[p]
           x == wire'[p]
           c == sendCount[p]
<1>1. /\ sendIO[p] = "body" /\ m \in Seq(SendOp) /\ m # <<>> /\ c \in Nat
      /\ w \in Seq(Message) /\ w # <<>> /\ sendPosted[p] \in Seq(SendOp)
  BY DEF WriteBody, TypeOK, SendSide, SendFront, Stream
<1>2. Head(m) = m[1] /\ m[1] \in SendOp /\ Len(m) \in Nat /\ Len(m) >= 1
  <2> HIDE DEF m
  <2> QED BY <1>1, TailFacts
<1>3. /\ sendIO'[p] = "done" /\ sendCount'[p] = c /\ mStopped'[p] = mStopped[p]
      /\ sendPosted'[p] = sendPosted[p] /\ mSendQueue'[p] = m
      /\ got'[Peer(p)] = got[Peer(p)]
  BY DEF WriteBody, userVars, recvVars, TypeOK
<1>4. sendDone'[p] = sendDone[p] \/ sendDone'[p] = sendDone[p] \union {m[1].id}
  BY <1>2 DEF WriteBody, TypeOK
<1>5. x = [w EXCEPT ![Len(w)].full = TRUE]
  BY DEF WriteBody, TypeOK
<1>6. /\ Len(w) \in Nat /\ Len(w) >= 1 /\ Len(x) = Len(w) /\ x # <<>>
      /\ \A i \in 1 .. Len(w) : x[i].id = w[i].id /\ (i # Len(w) => x[i].full = w[i].full)
      /\ x[Len(w)].full
  <2> HIDE DEF w, x
  <2>1. Len(w) \in Nat /\ Len(w) >= 1 /\ \A i \in 1 .. Len(w) : w[i] \in Message
    BY <1>1
  <2>2. x = [w EXCEPT ![Len(w)] = [w[Len(w)] EXCEPT !.full = TRUE]]
    BY <1>5
  <2>3. Len(x) = Len(w) /\ x # <<>>
    BY <1>1, <2>1, <2>2
  <2>4. \A i \in 1 .. Len(w) : i # Len(w) => x[i] = w[i]
    BY <1>1, <2>1, <2>2
  <2>5. x[Len(w)] = [w[Len(w)] EXCEPT !.full = TRUE]
    <3>1. w \in [1 .. Len(w) -> Message] /\ Len(w) \in 1 .. Len(w)
      BY <1>1, <2>1
    <3> DEFINE k == Len(w)
    <3> HIDE DEF k
    <3>2. w \in [1 .. k -> Message] /\ k \in 1 .. k
      BY <3>1 DEF k
    <3>3. [w EXCEPT ![k] = [w[k] EXCEPT !.full = TRUE]][k] = [w[k] EXCEPT !.full = TRUE]
      BY <3>2
    <3> QED BY <2>2, <3>3 DEF k
  <2>6. x[Len(w)].id = w[Len(w)].id /\ x[Len(w)].full
    BY <2>1, <2>5 DEF Message
  <2> QED BY <2>1, <2>3, <2>4, <2>6
<1>7. SendOrder(p)' /\ SendFront(p)'
  <2>1. SendOrder(p)'
    BY <1>3 DEF SendSide, SendOrder, Numbered, sendPopped
  <2>2. SendFront(p)'
    BY <1>1, <1>3 DEF SendSide, SendFront
  <2> QED BY <2>1, <2>2
<1>8. SendPromises(p)'
  <2>1. m[1].id <= c /\ (mStopped[p] => m[1].id # c)
    <3>1. m[1].type = "SendData" /\ m[1].id = sendPopped(p) + 1
      BY <1>1, <1>2 DEF SendSide, SendFront, SendOrder, Numbered
    <3>2. mStopped[p] => m[1].id # c
      BY <1>2, <3>1 DEF SendSide, SendOrder
    <3>3. sendPopped(p) + 1 <= c
      <4>1. Len(sendPosted[p]) \in Nat
        BY <1>1
      <4> QED BY <1>1, <1>2, <4>1 DEF sendPopped
    <3> QED BY <3>1, <3>2, <3>3
  <2>2. /\ \A k \in sendDone[p] : k <= c
        /\ mStopped[p] /\ c \in sendDone[p] => SendDrained(p)
    BY DEF SendSide, SendPromises
  <2>3. \A k \in sendDone'[p] : k \in sendDone[p] \/ k = m[1].id
    BY <1>4
  <2>4. SendDrained(p)' <=> SendDrained(p)
    BY <1>3 DEF SendDrained
  <2> HIDE DEF m, c
  <2>5. \A k \in sendDone'[p] : k <= c
    BY <2>1, <2>2, <2>3
  <2>6. mStopped[p] /\ c \in sendDone'[p] => SendDrained(p)
    BY <2>1, <2>2, <2>3
  <2> QED BY <1>3, <2>4, <2>5, <2>6 DEF SendPromises
<1>9. Stream(p)'
  <2>1. SendDrained(p)' <=> SendDrained(p)
    BY <1>3 DEF SendDrained
  <2>2. sendPopped(p)' = sendPopped(p)
    BY <1>3 DEF sendPopped
  <2>3. Written(p)' = Written(p)
    BY <1>1, <1>3, <2>1, <2>2 DEF Written
  <2>4. /\ Len(got[Peer(p)]) + Len(w) = Written(p)
        /\ Numbered(w, Len(got[Peer(p)]))
        /\ \A i \in 1 .. Len(w) : w[i].full <=> ~(i = Len(w))
    BY <1>1 DEF Stream
  <2>5. Len(got'[Peer(p)]) + Len(x) = Written(p)' /\ Numbered(x, Len(got'[Peer(p)]))
    <3> HIDE DEF w, x
    <3> QED BY <1>3, <1>6, <2>3, <2>4 DEF Numbered
  <2>6. \A i \in 1 .. Len(x) : x[i].full <=> ~(sendIO'[p] = "body" /\ i = Len(x))
    <3> HIDE DEF w, x
    <3> QED BY <1>3, <1>6, <2>4
  <2> HIDE DEF w
  <2> QED BY <1>6, <2>5, <2>6 DEF Stream
<1> QED BY <1>7, <1>8, <1>9 DEF SendSide

-----------------------------------------------------------------------------
(* The receive side.                                                       *)

RecvCore(p) == RecvOrder(p) /\ RecvFront(p) /\ RecvPromises(p)

\* A step that fills nothing leaves the receipts as they are.
LEMMA ReceiptsKept ==
    ASSUME NEW p \in Party, Receipts(p), Filled(p)' = Filled(p), got'[p] = got[p]
    PROVE  Receipts(p)'
BY DEF Receipts

\* Posting an operation, in recv, asyncRecv or close.
PostsRecv(p, op) ==
    /\ op.id = recvCount[p] + 1
    /\ mStopped'[p] = (op.type = "CloseRecv")
    /\ recvCount'[p] = recvCount[p] + 1
    /\ recvPosted'[p] = Append(recvPosted[p], op)
    /\ mRecvQueue'[p] = mRecvQueue[p] /\ recvIO'[p] = recvIO[p] /\ recvDone'[p] = recvDone[p]

\* It extends the strand and leaves what has been filled as it is.
LEMMA PostRecv ==
    ASSUME TypeOK, NEW p \in Party, RecvCore(p), ~mStopped[p],
           NEW op \in RecvOp, PostsRecv(p, op)
    PROVE  RecvCore(p)' /\ Filled(p)' = Filled(p)
<1> DEFINE s == recvPosted[p]
           q == mRecvQueue[p]
           t == recvPosted'[p]
           n == recvCount[p]
<1>1. /\ n \in Nat /\ s \in Seq(RecvOp) /\ q \in Seq(RecvOp)
      /\ recvDone[p] \in SUBSET Nat /\ Len(s) \in Nat /\ Len(q) \in Nat
  BY DEF TypeOK
<1>2. /\ t # <<>> /\ Len(t) = Len(s) + 1 /\ t[Len(s) + 1] = op
      /\ \A i \in 1 .. Len(s) : t[i] = s[i]
  BY <1>1, AppendFacts DEF PostsRecv
<1>3. recvPopped(p)' = recvPopped(p) /\ recvPopped(p) = n - Len(s) - Len(q)
  <2>1. recvPopped(p) = n - Len(s) - Len(q)
    BY DEF recvPopped
  <2>2. recvCount'[p] = n + 1 /\ mRecvQueue'[p] = q
    BY DEF PostsRecv
  <2>3. recvPopped(p)' = recvCount'[p] - Len(t) - Len(mRecvQueue'[p])
    BY DEF recvPopped
  <2> HIDE DEF s, q, t, n
  <2>4. recvPopped(p)' = (n + 1) - (Len(s) + 1) - Len(q)
    BY <1>2, <2>2, <2>3
  <2>5. (n + 1) - (Len(s) + 1) - Len(q) = n - Len(s) - Len(q)
    BY <1>1
  <2> QED BY <2>1, <2>4, <2>5
<1>4. RecvOrder(p)'
  <2>1. Numbered(q, n - Len(s) - Len(q)) /\ Numbered(s, n - Len(s))
    BY <1>1, <1>3, SMTT(30) DEF RecvCore, RecvOrder, Numbered
  <2>2. Numbered(t, n - Len(s)) /\ t[Len(s) + 1].id = n + 1
    <3>1. op.id = n + 1
      BY DEF PostsRecv
    <3> HIDE DEF s, q, t, n
    <3>2. ASSUME NEW i \in 1 .. Len(s) PROVE t[i].id = n - Len(s) + i
      BY <1>2, <2>1 DEF Numbered
    <3>3. t[Len(s) + 1].id = n - Len(s) + (Len(s) + 1)
      BY <1>1, <1>2, <3>1
    <3>4. ASSUME NEW i \in 1 .. Len(t) PROVE t[i].id = n - Len(s) + i
      <4>1. i \in 1 .. Len(s) \/ i = Len(s) + 1
        BY <1>1, <1>2
      <4> QED BY <3>2, <3>3, <4>1
    <3> QED BY <1>2, <3>1, <3>4 DEF Numbered
  <2>3. \A i \in 1 .. Len(q) : q[i].id <= n /\ q[i].type # "CloseRecv"
    <3>1. \A i \in 1 .. Len(q) : q[i].type # "CloseRecv"
      BY DEF RecvCore, RecvOrder
    <3> HIDE DEF s, q, t, n
    <3> QED BY <1>1, <2>1, <3>1 DEF Numbered
  <2>4. \A i \in 1 .. Len(s) : s[i].id <= n /\ s[i].type # "CloseRecv"
    <3>1. \A i \in 1 .. Len(s) : s[i].type # "CloseRecv"
      BY DEF RecvCore, RecvOrder
    <3> HIDE DEF s, q, t, n
    <3> QED BY <1>1, <2>1, <3>1 DEF Numbered
  <2>5. mStopped'[p] = (op.type = "CloseRecv")
    BY DEF PostsRecv
  <2> DEFINE z == mStopped'[p]
  <2> HIDE DEF s, q, t, n, z
  <2>6. \A i \in 1 .. Len(q) : q[i].type = "CloseRecv" <=> z /\ q[i].id = n + 1
    BY <1>1, <2>3
  <2>7. \A i \in 1 .. Len(t) : t[i].type = "CloseRecv" <=> z /\ t[i].id = n + 1
    <3>1. ASSUME NEW i \in 1 .. Len(s)
          PROVE  t[i].type = "CloseRecv" <=> z /\ t[i].id = n + 1
      BY <1>1, <1>2, <2>4
    <3>2. t[Len(s) + 1].type = "CloseRecv" <=> z /\ t[Len(s) + 1].id = n + 1
      BY <1>2, <2>2, <2>5 DEF z
    <3> QED BY <1>1, <1>2, <3>1, <3>2
  <2>8. /\ recvCount'[p] = n + 1 /\ mRecvQueue'[p] = q
        /\ recvPopped(p)' = n - Len(s) - Len(q) /\ recvPopped(p)' >= 0
    BY <1>3 DEF PostsRecv, RecvCore, RecvOrder, n, q
  <2>9. n - Len(s) - Len(q) + Len(q) = n - Len(s)
    BY <1>1
  <2> QED BY <2>1, <2>2, <2>6, <2>7, <2>8, <2>9 DEF RecvOrder, t, z
<1>5. RecvFront(p)'
  BY DEF RecvCore, RecvFront, PostsRecv
<1>6. RecvPromises(p)'
  <2>1. \A k \in recvDone[p] : k <= n /\ k \in Nat
    BY <1>1 DEF RecvCore, RecvPromises
  <2>2. recvDone'[p] = recvDone[p] /\ recvCount'[p] = n + 1
    BY DEF PostsRecv
  <2> HIDE DEF n
  <2> QED BY <1>1, <2>1, <2>2 DEF RecvPromises
<1>7. Filled(p)' = Filled(p)
  <2>1. ~RecvDrained(p) /\ ~RecvDrained(p)'
    BY <1>2 DEF RecvDrained
  <2>2. recvIO'[p] = recvIO[p]
    BY DEF PostsRecv
  <2> QED BY <1>3, <2>1, <2>2 DEF Filled
<1> QED BY <1>4, <1>5, <1>6, <1>7 DEF RecvCore

\* The queue q is what is left of the receive queue when its front is started,
\* by dispatch or after a pop, and n operations are through.
StartsRecv(p, q, n) ==
    /\ recvCount'[p] = recvCount[p] /\ mStopped'[p] = mStopped[p]
    /\ recvPosted'[p] \in Seq(RecvOp)
    /\ n = recvCount[p] - Len(recvPosted'[p]) - Len(q)
    /\ Numbered(q, n) /\ Numbered(recvPosted'[p], n + Len(q))
    /\ \A i \in 1 .. Len(q) :
         q[i].type = "CloseRecv" <=> mStopped[p] /\ q[i].id = recvCount[p]
    /\ \A i \in 1 .. Len(recvPosted'[p]) :
         recvPosted'[p][i].type = "CloseRecv"
           <=> mStopped[p] /\ recvPosted'[p][i].id = recvCount[p]
    /\ \A k \in recvDone[p] : k <= recvCount[p]
    /\ ~(mStopped[p] /\ recvCount[p] \in recvDone[p])

\* Either a read begins, or close() was last and strand and queue are empty.
LEMMA StartRecv ==
    ASSUME TypeOK, NEW p \in Party, NEW q \in Seq(RecvOp), q # <<>>, NEW n \in Nat,
           receiveOne(p, q), StartsRecv(p, q, n)
    PROVE  RecvCore(p)' /\ Filled(p)' = n /\ recvIO'[p] # "body"
<1> DEFINE t == recvPosted'[p]
           h == q[1]
           c == recvCount[p]
<1>1. /\ Len(q) \in Nat /\ Len(q) >= 1 /\ Head(q) = h /\ h \in RecvOp
      /\ Tail(q) \in Seq(RecvOp) /\ (Tail(q) = <<>> <=> Len(q) = 1)
  BY TailFacts
<1>2. /\ c \in Nat /\ Len(t) \in Nat /\ (t = <<>> <=> Len(t) = 0)
      /\ n = c - Len(t) - Len(q)
  <2>1. t \in Seq(RecvOp) /\ c \in Nat /\ n = c - Len(t) - Len(q)
    BY DEF StartsRecv, TypeOK
  <2> HIDE DEF t
  <2> QED BY <2>1, EmptySeq
<1>3. h.id = n + 1
  BY <1>1 DEF Numbered, StartsRecv
<1>4. h.type = "CloseRecv" <=> mStopped[p] /\ h.id = c
  BY <1>1 DEF StartsRecv
<1>5. CASE h.type = "RecvData"
  <2>1. recvIO'[p] = "header" /\ mRecvQueue'[p] = q /\ recvDone'[p] = recvDone[p]
    BY <1>1, <1>5 DEF receiveOne, TypeOK
  <2>2. recvPopped(p)' = n
    BY <1>2, <2>1 DEF recvPopped, StartsRecv
  <2>3. RecvOrder(p)'
    BY <2>1, <2>2 DEF RecvOrder, StartsRecv
  <2>4. RecvFront(p)' /\ RecvPromises(p)'
    BY <1>5, <2>1 DEF RecvFront, RecvPromises, StartsRecv
  <2>5. Filled(p)' = n
    BY <2>1, <2>2 DEF Filled, RecvDrained
  <2> QED BY <2>1, <2>3, <2>4, <2>5 DEF RecvCore
<1>6. CASE h.type = "CloseRecv"
  <2>1. /\ recvIO'[p] = "idle" /\ mRecvQueue'[p] = Tail(q)
        /\ recvDone'[p] = recvDone[p] \union {h.id}
    BY <1>1, <1>6, SMTT(30) DEF receiveOne, TypeOK
  <2>2. mStopped[p] /\ h.id = c
    BY <1>4, <1>6
  <2>3. Len(q) = 1 /\ Len(t) = 0
    <3> HIDE DEF h, t, c
    <3> QED BY <1>1, <1>2, <1>3, <2>2
  <2>4. mRecvQueue'[p] = <<>> /\ t = <<>>
    <3> HIDE DEF t
    <3> QED BY <1>1, <1>2, <2>1, <2>3
  <2>5. Len(mRecvQueue'[p]) = 0 /\ recvCount'[p] = c /\ mStopped'[p]
    BY <2>2, <2>4, EmptySeq DEF StartsRecv
  <2>6. recvPopped(p)' = c
    BY <1>2, <2>3, <2>5 DEF recvPopped
  <2>7. RecvOrder(p)'
    BY <1>2, <2>3, <2>5, <2>6 DEF RecvOrder, Numbered
  <2>8. RecvFront(p)'
    BY <2>1, <2>4 DEF RecvFront
  <2>9. RecvPromises(p)'
    <3>1. RecvDrained(p)'
      BY <2>4, <2>5 DEF RecvDrained
    <3>2. \A k \in recvDone'[p] : k <= recvCount'[p]
      <4>1. \A k \in recvDone[p] : k <= c
        BY DEF StartsRecv
      <4>2. c <= c
        BY <1>2
      <4>3. ASSUME NEW k \in recvDone'[p] PROVE k <= c
        <5>1. k \in recvDone[p] \/ k = c
          BY <2>1, <2>2
        <5> QED BY <4>1, <4>2, <5>1
      <4> QED BY <2>5, <4>3
    <3> QED BY <3>1, <3>2 DEF RecvPromises
  <2>10. Filled(p)' = n
    <3>1. RecvDrained(p)'
      BY <2>4, <2>5 DEF RecvDrained
    <3>2. n = c - 1
      BY <1>2, <2>3
    <3> QED BY <2>5, <3>1, <3>2 DEF Filled
  <2> QED BY <2>1, <2>7, <2>8, <2>9, <2>10 DEF RecvCore
<1> QED BY <1>1, <1>5, <1>6 DEF RecvOp

\* dispatch pushes an operation.
LEMMA PushRecvInv ==
    ASSUME TypeOK, NEW p \in Party, RecvCore(p), PushRecv(p)
    PROVE  RecvCore(p)' /\ Filled(p)' = Filled(p) /\ (recvIO'[p] = "body" <=> recvIO[p] = "body")
<1> DEFINE s == recvPosted[p]
           m == mRecvQueue[p]
           o == s[1]
           q == Append(m, o)
           c == recvCount[p]
           n == c - Len(s) - Len(m)
<1>1. s \in Seq(RecvOp) /\ s # <<>> /\ m \in Seq(RecvOp) /\ c \in Nat
  BY DEF PushRecv, TypeOK
<1>2. /\ Len(s) \in Nat /\ Len(s) >= 1 /\ o \in RecvOp /\ Head(s) = o
      /\ Tail(s) \in Seq(RecvOp) /\ Len(Tail(s)) = Len(s) - 1
      /\ \A i \in 1 .. Len(s) - 1 : Tail(s)[i] = s[i + 1]
  <2> HIDE DEF s
  <2> QED BY <1>1, TailFacts
<1>3. /\ Len(m) \in Nat /\ q \in Seq(RecvOp) /\ q # <<>> /\ Len(q) = Len(m) + 1
      /\ \A i \in 1 .. Len(m) : q[i] = m[i]
      /\ q[Len(m) + 1] = o
  <2> HIDE DEF m, o
  <2> QED BY <1>1, <1>2, AppendFacts
<1>4. recvPosted'[p] = Tail(s) /\ recvCount'[p] = c /\ mStopped'[p] = mStopped[p]
  BY DEF PushRecv, userVars, TypeOK
<1>5. n \in Nat /\ recvPopped(p) = n /\ Numbered(m, n) /\ Numbered(s, n + Len(m))
  BY <1>1, <1>2, <1>3 DEF RecvCore, RecvOrder, recvPopped
<1>6. /\ \A i \in 1 .. Len(m) : m[i].type = "CloseRecv" <=> mStopped[p] /\ m[i].id = c
      /\ \A i \in 1 .. Len(s) : s[i].type = "CloseRecv" <=> mStopped[p] /\ s[i].id = c
      /\ \A k \in recvDone[p] : k <= c
      /\ ~(mStopped[p] /\ c \in recvDone[p])
  BY <1>1 DEF RecvCore, RecvOrder, RecvPromises, RecvDrained
<1>7. StartsRecv(p, q, n)
  <2>1. n = c - Len(Tail(s)) - Len(q)
    BY <1>1, <1>2, <1>3
  <2> DEFINE t == Tail(s)
             z == mStopped[p]
  <2>2. t \in Seq(RecvOp) /\ Len(t) = Len(s) - 1 /\ \A i \in 1 .. Len(t) : t[i] = s[i + 1]
    BY <1>2
  <2> HIDE DEF s, m, o, q, c, n, t, z
  <2>3. ASSUME NEW i \in 1 .. Len(q)
        PROVE  q[i].id = n + i /\ (q[i].type = "CloseRecv" <=> z /\ q[i].id = c)
    <3>1. CASE i \in 1 .. Len(m)
      BY <1>3, <1>5, <1>6, <3>1 DEF Numbered, z
    <3>2. CASE i = Len(m) + 1
      <4>1. q[i] = s[1] /\ 1 \in 1 .. Len(s)
        BY <1>2, <1>3, <3>2 DEF o
      <4>2. s[1].id = n + Len(m) + 1
        BY <1>5, <4>1 DEF Numbered
      <4> QED BY <1>3, <1>5, <1>6, <3>2, <4>1, <4>2 DEF z
    <3> QED BY <1>3, <3>1, <3>2
  <2>4. ASSUME NEW i \in 1 .. Len(t)
        PROVE  t[i].id = n + Len(q) + i /\ (t[i].type = "CloseRecv" <=> z /\ t[i].id = c)
    <3>1. i + 1 \in 1 .. Len(s) /\ t[i] = s[i + 1]
      BY <1>2, <2>2
    <3>2. s[i + 1].id = n + Len(m) + (i + 1)
      BY <1>5, <3>1 DEF Numbered
    <3> QED BY <1>3, <1>5, <1>6, <3>1, <3>2 DEF z
  <2>5. recvPosted'[p] = t
    BY <1>4 DEF t, s
  <2>6. recvCount'[p] = recvCount[p] /\ c = recvCount[p]
    BY <1>4 DEF c
  <2> QED BY <1>4, <1>6, <2>1, <2>2, <2>3, <2>4, <2>5, <2>6 DEF StartsRecv, Numbered, z, t
<1>8. recvPopped(p) = n /\ ~RecvDrained(p)
  BY <1>1, <1>5 DEF RecvDrained
<1>9. CASE Len(q) = 1
  <2>1. m = <<>>
    <3> HIDE DEF m, q
    <3> QED BY <1>1, <1>3, <1>9, EmptySeq
  <2>2. recvIO[p] = "idle"
    BY <2>1 DEF RecvCore, RecvFront
  <2>3. receiveOne(p, q)
    BY <1>2, <1>9 DEF PushRecv
  <2>4. RecvCore(p)' /\ Filled(p)' = n /\ recvIO'[p] # "body"
    <3> HIDE DEF q, n
    <3> QED BY <1>3, <1>5, <1>7, <2>3, StartRecv
  <2> QED BY <1>8, <2>2, <2>4 DEF Filled
<1>10. CASE Len(q) # 1
  <2>1. mRecvQueue'[p] = q /\ recvIO'[p] = recvIO[p] /\ recvDone'[p] = recvDone[p]
    BY <1>2, <1>10 DEF PushRecv, TypeOK
  <2>2. m # <<>> /\ Len(m) >= 1
    <3> HIDE DEF m, q
    <3> QED BY <1>1, <1>3, <1>10, EmptySeq
  <2>3. recvPopped(p)' = n
    <3> HIDE DEF q
    <3> QED BY <1>7, <2>1 DEF recvPopped, StartsRecv
  <2>4. RecvOrder(p)'
    <3> HIDE DEF q, n
    <3>1. /\ Numbered(mRecvQueue'[p], n) /\ Numbered(recvPosted'[p], n + Len(mRecvQueue'[p]))
          /\ n >= 0 /\ recvCount'[p] = recvCount[p] /\ mStopped'[p] = mStopped[p]
      BY <1>5, <1>7, <2>1 DEF StartsRecv
    <3> QED BY <1>7, <2>1, <2>3, <3>1 DEF RecvOrder, StartsRecv
  <2>5. q[1] = m[1]
    BY <1>3, <2>2
  <2>6. RecvFront(p)'
    <3> HIDE DEF q
    <3> QED BY <1>3, <2>1, <2>2, <2>5 DEF RecvCore, RecvFront
  <2>7. RecvPromises(p)'
    <3> HIDE DEF q, n
    <3> QED BY <1>7, <2>1 DEF RecvPromises, StartsRecv
  <2>8. Filled(p)' = Filled(p)
    <3> HIDE DEF q, n
    <3>1. ~RecvDrained(p)'
      BY <1>3, <2>1 DEF RecvDrained
    <3> QED BY <1>8, <2>1, <2>3, <3>1 DEF Filled
  <2> QED BY <2>1, <2>4, <2>6, <2>7, <2>8 DEF RecvCore
<1> QED BY <1>9, <1>10

\* The completion handler of a read has the strand pop the operation.
LEMMA PopRecvInv ==
    ASSUME TypeOK, NEW p \in Party, RecvCore(p), PopRecv(p)
    PROVE  RecvCore(p)' /\ Filled(p)' = Filled(p) /\ (recvIO'[p] = "body" <=> recvIO[p] = "body")
<1> DEFINE s == recvPosted[p]
           m == mRecvQueue[p]
           q == Tail(m)
           c == recvCount[p]
           n == c - Len(s) - Len(m) + 1
           z == mStopped[p]
<1>1. recvIO[p] = "done" /\ s \in Seq(RecvOp) /\ m \in Seq(RecvOp) /\ m # <<>> /\ c \in Nat
  BY DEF PopRecv, TypeOK, RecvCore, RecvFront
<1>2. /\ Len(m) \in Nat /\ Len(m) >= 1 /\ q \in Seq(RecvOp) /\ Len(q) = Len(m) - 1
      /\ \A i \in 1 .. Len(m) - 1 : q[i] = m[i + 1]
      /\ Len(s) \in Nat
  <2> HIDE DEF m
  <2> QED BY <1>1, TailFacts
<1>3. recvPosted'[p] = s /\ recvCount'[p] = c /\ mStopped'[p] = z
  BY DEF PopRecv, userVars
<1>4. /\ recvPopped(p) = n - 1 /\ n - 1 >= 0
      /\ Numbered(m, n - 1) /\ Numbered(s, n - 1 + Len(m))
  BY <1>1, <1>2 DEF RecvCore, RecvOrder, recvPopped
<1>5. n \in Nat
  BY <1>1, <1>2, <1>4
<1>6. /\ \A i \in 1 .. Len(m) : m[i].type = "CloseRecv" <=> z /\ m[i].id = c
      /\ \A i \in 1 .. Len(s) : s[i].type = "CloseRecv" <=> z /\ s[i].id = c
      /\ \A k \in recvDone[p] : k <= c
      /\ ~(z /\ c \in recvDone[p])
  BY <1>1 DEF RecvCore, RecvOrder, RecvPromises, RecvDrained
<1>7. StartsRecv(p, q, n)
  <2>1. n = c - Len(s) - Len(q)
    BY <1>1, <1>2
  <2> HIDE DEF s, m, q, c, n, z
  <2>2. ASSUME NEW i \in 1 .. Len(q)
        PROVE  q[i].id = n + i /\ (q[i].type = "CloseRecv" <=> z /\ q[i].id = c)
    <3>1. i + 1 \in 1 .. Len(m) /\ q[i] = m[i + 1]
      BY <1>2
    <3>2. m[i + 1].id = n - 1 + (i + 1)
      BY <1>4, <3>1 DEF Numbered
    <3> QED BY <1>5, <1>6, <3>1, <3>2
  <2>3. Numbered(s, n + Len(q))
    <3>1. n - 1 + Len(m) = n + Len(q)
      BY <1>2, <1>5
    <3> QED BY <1>4, <3>1
  <2>4. c = recvCount[p] /\ z = mStopped[p] /\ s \in Seq(RecvOp)
    BY <1>1 DEF c, z
  <2> QED BY <1>3, <1>6, <2>1, <2>2, <2>3, <2>4 DEF StartsRecv, Numbered
<1>8. Filled(p) = n
  <2>1. ~RecvDrained(p)
    BY <1>1 DEF RecvDrained
  <2> QED BY <1>1, <1>4, <1>5, <2>1 DEF Filled
<1>9. CASE q # <<>>
  <2>1. receiveOne(p, q)
    BY <1>9 DEF PopRecv
  <2> HIDE DEF q, n
  <2> QED BY <1>1, <1>2, <1>5, <1>7, <1>8, <1>9, <2>1, StartRecv
<1>10. CASE q = <<>>
  <2>1. mRecvQueue'[p] = <<>> /\ recvIO'[p] = "idle" /\ recvDone'[p] = recvDone[p]
    BY <1>10 DEF PopRecv, TypeOK
  <2>2. Len(q) = 0 /\ Len(mRecvQueue'[p]) = 0
    <3> HIDE DEF q
    <3> QED BY <1>10, <2>1, EmptySeq
  <2>3. n = c - Len(s)
    <3>1. c \in Nat /\ Len(s) \in Nat /\ Len(m) = 1
      <4> HIDE DEF q, m, s, c
      <4> QED BY <1>1, <1>2, <2>2
    <3> HIDE DEF m, s, c
    <3> QED BY <3>1
  <2> HIDE DEF q, n, s, c, z
  <2>4. recvPopped(p)' = n
    BY <1>1, <1>2, <1>3, <2>2, <2>3 DEF recvPopped
  <2>5. RecvOrder(p)'
    BY <1>3, <1>5, <1>6, <1>7, <2>1, <2>2, <2>4 DEF RecvOrder, StartsRecv, Numbered
  <2>6. RecvFront(p)'
    BY <2>1 DEF RecvFront
  <2>7. RecvPromises(p)'
    BY <1>3, <1>6, <2>1 DEF RecvPromises
  <2>8. ~RecvDrained(p)'
    <3>1. SUFFICES ASSUME z, s = <<>> PROVE FALSE
      BY <1>3 DEF RecvDrained
    <3>2. Len(s) = 0 /\ Len(m) = 1 /\ n = c
      BY <1>1, <1>2, <2>2, <2>3, <3>1, EmptySeq
    <3>3. m[1].id = c
      BY <1>1, <1>4, <3>2 DEF Numbered
    <3>4. m[1].type = "CloseRecv"
      BY <1>6, <3>1, <3>2, <3>3
    <3>5. m[1].type = "RecvData"
      BY <1>1 DEF RecvCore, RecvFront
    <3> QED BY <3>4, <3>5
  <2>9. Filled(p)' = n
    BY <2>1, <2>4, <2>8 DEF Filled
  <2> QED BY <1>1, <1>8, <2>1, <2>5, <2>6, <2>7, <2>9 DEF RecvCore
<1> QED BY <1>9, <1>10

\* The front of the receive queue, whose promise may be fulfilled now: it is
\* not the operation of close().
LEMMA RecvHead ==
    ASSUME TypeOK, NEW p \in Party, RecvCore(p), recvIO[p] # "idle"
    PROVE  /\ mRecvQueue[p] # <<>> /\ Head(mRecvQueue[p]) = mRecvQueue[p][1]
           /\ mRecvQueue[p][1] \in RecvOp
           /\ mRecvQueue[p][1].id = recvPopped(p) + 1 /\ recvPopped(p) \in Nat
           /\ recvPopped(p) + 1 <= recvCount[p]
           /\ mStopped[p] => recvPopped(p) + 1 # recvCount[p]
<1> DEFINE m == mRecvQueue[p]
           c == recvCount[p]
<1>1. m \in Seq(RecvOp) /\ m # <<>> /\ c \in Nat /\ recvPosted[p] \in Seq(RecvOp)
  BY DEF TypeOK, RecvCore, RecvFront
<1>2. Head(m) = m[1] /\ m[1] \in RecvOp /\ Len(m) \in Nat /\ Len(m) >= 1
  <2> HIDE DEF m
  <2> QED BY <1>1, TailFacts
<1>3. m[1].type = "RecvData" /\ m[1].id = recvPopped(p) + 1
  BY <1>1, <1>2 DEF RecvCore, RecvFront, RecvOrder, Numbered
<1>4. mStopped[p] => m[1].id # c
  BY <1>2, <1>3 DEF RecvCore, RecvOrder
<1>5. Len(recvPosted[p]) \in Nat
  BY <1>1
<1>6. recvPopped(p) \in Nat /\ recvPopped(p) + 1 <= c
  BY <1>1, <1>2, <1>5 DEF recvPopped, RecvCore, RecvOrder
<1> QED BY <1>1, <1>2, <1>3, <1>4, <1>6

\* Fulfilling the promise of the front operation.
LEMMA RecvFulfil ==
    ASSUME TypeOK, NEW p \in Party, RecvCore(p), recvIO[p] # "idle",
           recvCount'[p] = recvCount[p], recvPosted'[p] = recvPosted[p],
           mRecvQueue'[p] = mRecvQueue[p], mStopped'[p] = mStopped[p],
           recvDone'[p] = recvDone[p] \union {Head(mRecvQueue[p]).id}
    PROVE  RecvCore(p)'
<1>1. RecvOrder(p)'
  BY DEF RecvCore, RecvOrder, Numbered, recvPopped
<1>2. RecvFront(p)'
  BY RecvHead DEF RecvCore, RecvFront
<1>3. RecvPromises(p)'
  <2> DEFINE c == recvCount[p]
             h == recvPopped(p) + 1
  <2>1. Head(mRecvQueue[p]).id = h /\ h <= c /\ (mStopped[p] => h # c)
    BY RecvHead
  <2>2. /\ \A k \in recvDone[p] : k <= c
        /\ mStopped[p] /\ c \in recvDone[p] => RecvDrained(p)
    BY DEF RecvCore, RecvPromises
  <2>3. \A k \in recvDone'[p] : k \in recvDone[p] \/ k = h
    BY <2>1
  <2>4. RecvDrained(p)' <=> RecvDrained(p)
    BY DEF RecvDrained
  <2> HIDE DEF h
  <2>5. \A k \in recvDone'[p] : k <= c
    BY <2>1, <2>2, <2>3
  <2>6. mStopped[p] /\ c \in recvDone'[p] => RecvDrained(p)
    BY <2>1, <2>2, <2>3
  <2> QED BY <2>4, <2>5, <2>6 DEF RecvPromises
<1> QED BY <1>1, <1>2, <1>3 DEF RecvCore

\* The header of a message that fits has been read.
LEMMA ReadHeaderInv ==
    ASSUME TypeOK, NEW p \in Party, RecvSide(p), Stream(Peer(p)), ReadHeader(p)
    PROVE  RecvSide(p)' /\ Stream(Peer(p))'
<1>0. Peer(p) \in Party /\ Peer(Peer(p)) = p
  BY PartyFacts
<1>1. /\ recvIO[p] = "header" /\ recvIO'[p] = "body" /\ recvCount'[p] = recvCount[p]
      /\ recvPosted'[p] = recvPosted[p] /\ mRecvQueue'[p] = mRecvQueue[p]
      /\ mStopped'[p] = mStopped[p] /\ recvDone'[p] = recvDone[p] /\ got'[p] = got[p]
      /\ wire[Peer(p)] # <<>>
  BY DEF ReadHeader, userVars, TypeOK
<1>2. mRecvQueue[p] # <<>>
  BY <1>1 DEF RecvSide, RecvFront
<1>3. RecvCore(p)'
  <2>1. RecvOrder(p)' /\ RecvPromises(p)'
    BY <1>1 DEF RecvSide, RecvOrder, RecvPromises, RecvDrained, Numbered, recvPopped
  <2>2. RecvFront(p)'
    BY <1>1, <1>2 DEF RecvSide, RecvFront
  <2> QED BY <2>1, <2>2 DEF RecvCore
<1>4. Filled(p)' = Filled(p)
  BY <1>1 DEF Filled, RecvDrained, recvPopped
<1>5. Receipts(p)'
  BY <1>1, <1>4, ReceiptsKept DEF RecvSide
<1>6. Stream(Peer(p))'
  <2> DEFINE q == Peer(p)
  <2>1. /\ sendCount'[q] = sendCount[q] /\ sendPosted'[q] = sendPosted[q]
        /\ mSendQueue'[q] = mSendQueue[q] /\ sendIO'[q] = sendIO[q]
        /\ mStopped'[q] = mStopped[q] /\ wire'[q] = wire[q]
    BY DEF ReadHeader, userVars, sendVars
  <2>2. Written(q)' = Written(q)
    BY <2>1 DEF Written, SendDrained, sendPopped
  <2>3. Len(got[Peer(q)]) + Len(wire[q]) = Written(q) /\ Numbered(wire[q], Len(got[Peer(q)]))
    BY DEF Stream
  <2>4. \A i \in 1 .. Len(wire[q]) : wire[q][i].full <=> ~(sendIO[q] = "body" /\ i = Len(wire[q]))
    BY DEF Stream
  <2> HIDE DEF q
  <2>5. got'[Peer(q)] = got[Peer(q)] /\ wire[q] # <<>>
    BY <1>0, <1>1 DEF q
  <2>6. Stream(q)'
    BY <2>1, <2>2, <2>3, <2>4, <2>5 DEF Stream, Numbered
  <2> QED BY <2>6 DEF q
<1> QED BY <1>3, <1>5, <1>6 DEF RecvSide, RecvCore

\* A message of another size: the promise is fulfilled, the operation stays.
LEMMA ReadMismatchInv ==
    ASSUME TypeOK, NEW p \in Party, RecvSide(p), ReadMismatch(p)
    PROVE  RecvSide(p)' /\ (recvIO'[p] = "body" <=> recvIO[p] = "body")
<1>0. RecvCore(p) /\ Receipts(p)
  BY DEF RecvSide, RecvCore
<1>1. /\ recvIO[p] = "header" /\ recvCount'[p] = recvCount[p]
      /\ recvPosted'[p] = recvPosted[p] /\ mRecvQueue'[p] = mRecvQueue[p]
      /\ mStopped'[p] = mStopped[p] /\ got'[p] = got[p]
  BY DEF ReadMismatch
<1>2. CASE recvIO' = recvIO /\ recvDone' = recvDone
  BY <1>1, <1>2, RecvFrame DEF RecvLocal
<1>3. CASE /\ recvIO' = [recvIO EXCEPT ![p] = "idle"]
           /\ recvDone' = [recvDone EXCEPT ![p] = recvDone[p] \union {Head(mRecvQueue[p]).id}]
  <2>1. recvIO'[p] = "idle" /\ recvDone'[p] = recvDone[p] \union {Head(mRecvQueue[p]).id}
    BY <1>3 DEF TypeOK
  <2>2. RecvCore(p)'
    BY <1>0, <1>1, <2>1, RecvFulfil
  <2>3. Filled(p)' = Filled(p)
    BY <1>1, <2>1 DEF Filled, RecvDrained, recvPopped
  <2>4. Receipts(p)'
    BY <1>0, <1>1, <2>3, ReceiptsKept
  <2> QED BY <1>1, <2>1, <2>2, <2>4 DEF RecvSide, RecvCore
<1> QED BY <1>2, <1>3 DEF ReadMismatch

\* The body is in the buffer of the front operation.
LEMMA ReadBodyInv ==
    ASSUME TypeOK, NEW p \in Party, RecvSide(p), Stream(Peer(p)), ReadBody(p)
    PROVE  RecvSide(p)' /\ Stream(Peer(p))'
<1> DEFINE q == Peer(p)
           g == got[p]
           h == got'[p]
           w == wire[q]
           x == wire'[q]
           n == recvPopped(p)
<1>0. q \in Party /\ Peer(q) = p /\ q # p
  BY PartyFacts
<1>1. /\ recvIO[p] = "body" /\ recvIO'[p] = "done" /\ recvCount'[p] = recvCount[p]
      /\ recvPosted'[p] = recvPosted[p] /\ mRecvQueue'[p] = mRecvQueue[p]
      /\ mStopped'[p] = mStopped[p]
      /\ recvDone'[p] = recvDone[p] \union {Head(mRecvQueue[p]).id}
  BY DEF ReadBody, userVars, TypeOK
<1>2. RecvCore(p) /\ Receipts(p)
  BY DEF RecvSide, RecvCore
<1>3. RecvCore(p)'
  BY <1>1, <1>2, RecvFulfil
<1>4. /\ mRecvQueue[p] # <<>> /\ n \in Nat
      /\ Head(mRecvQueue[p]).id = n + 1 /\ Head(mRecvQueue[p]) \in RecvOp
  BY <1>1, <1>2, RecvHead
<1>5. g \in Seq(Receipt) /\ w \in Seq(Message) /\ w # <<>> /\ Head(w).full
  BY <1>0, <1>1 DEF TypeOK, Stream, ReadBody
<1>6. /\ Len(w) \in Nat /\ Len(w) >= 1 /\ Head(w) = w[1] /\ w[1] \in Message
      /\ Len(Tail(w)) = Len(w) - 1 /\ \A i \in 1 .. Len(w) - 1 : Tail(w)[i] = w[i + 1]
      /\ (Tail(w) = <<>> <=> Len(w) = 1)
  <2> HIDE DEF w
  <2> QED BY <1>5, TailFacts
<1>7. Len(g) = n
  <2>1. ~RecvDrained(p)
    BY <1>4 DEF RecvDrained
  <2> QED BY <1>1, <1>2, <2>1 DEF Receipts, Filled
<1>8. w[1].id = n + 1
  BY <1>0, <1>6, <1>7 DEF Stream, Numbered
<1>9. \E r \in Receipt : r.op = n + 1 /\ r.msg = n + 1 /\ h = Append(g, r)
  <2> DEFINE o == Head(mRecvQueue[p])
             m == Head(w)
             r == [op |-> o.id, msg |-> m.id, want |-> o.len, len |-> m.len,
                   size |-> m.size, resize |-> o.resize]
  <2>1. r \in Receipt
    BY <1>4, <1>6 DEF RecvOp, Message, Receipt
  <2>2. h = Append(g, r)
    BY DEF ReadBody, TypeOK
  <2>3. r.op = n + 1 /\ r.msg = n + 1
    BY <1>4, <1>6, <1>8
  <2> QED BY <2>1, <2>2, <2>3
<1>10. PICK r \in Receipt : r.op = n + 1 /\ r.msg = n + 1 /\ h = Append(g, r)
  BY <1>9
<1>11. Len(h) = n + 1 /\ h[n + 1] = r /\ \A i \in 1 .. n : h[i] = g[i]
  <2> HIDE DEF g, h, n
  <2> QED BY <1>5, <1>7, <1>10, AppendFacts
<1>12. Receipts(p)'
  <2>1. ~RecvDrained(p)' /\ recvPopped(p)' = n
    BY <1>1, <1>4 DEF RecvDrained, recvPopped
  <2>2. Filled(p)' = n + 1
    BY <1>1, <2>1 DEF Filled
  <2>3. \A k \in 1 .. n : g[k].op = k /\ g[k].msg = k
    BY <1>2, <1>7 DEF Receipts
  <2> HIDE DEF g, h, n
  <2>4. ASSUME NEW k \in 1 .. n + 1 PROVE h[k].op = k /\ h[k].msg = k
    <3>1. k \in 1 .. n \/ k = n + 1
      BY <1>4
    <3> QED BY <1>10, <1>11, <2>3, <3>1
  <2> QED BY <1>11, <2>2, <2>4 DEF Receipts, h
<1>13. x = Tail(w)
  BY <1>0 DEF ReadBody, TypeOK
<1>14. /\ sendCount'[q] = sendCount[q] /\ sendPosted'[q] = sendPosted[q]
       /\ mSendQueue'[q] = mSendQueue[q] /\ sendIO'[q] = sendIO[q] /\ mStopped'[q] = mStopped[q]
  BY DEF ReadBody, userVars, sendVars
<1>15. Written(q)' = Written(q)
  BY <1>14 DEF Written, SendDrained, sendPopped
<1>16. n + Len(w) = Written(q)
  BY <1>0, <1>7 DEF Stream
<1>17. /\ \A i \in 1 .. Len(w) : w[i].id = n + i
       /\ \A i \in 1 .. Len(w) : w[i].full <=> ~(sendIO[q] = "body" /\ i = Len(w))
  BY <1>0, <1>7 DEF Stream, Numbered
<1> HIDE DEF g, h, w, x, n
<1>18. Len(h) + Len(x) = Written(q)'
  <2>1. Len(x) = Len(w) - 1 /\ Len(w) \in Nat
    BY <1>6, <1>13
  <2>2. n + 1 + (Len(w) - 1) = n + Len(w)
    BY <1>4, <2>1
  <2> QED BY <1>11, <1>15, <1>16, <2>1, <2>2
<1>19. ASSUME NEW i \in 1 .. Len(x)
       PROVE  x[i].id = n + 1 + i /\ (x[i].full <=> ~(sendIO[q] = "body" /\ i = Len(x)))
  <2>1. i + 1 \in 1 .. Len(w) /\ x[i] = w[i + 1] /\ (i = Len(x) <=> i + 1 = Len(w))
    BY <1>6, <1>13
  <2>2. w[i + 1].id = n + (i + 1)
    BY <1>17, <2>1
  <2> QED BY <1>4, <1>17, <2>1, <2>2
<1>20. sendIO[q] = "body" => x # <<>>
  <2>1. sendIO[q] = "body" => Len(w) # 1
    <3>1. w[1].full /\ 1 \in 1 .. Len(w)
      BY <1>5, <1>6
    <3>2. w[1].full <=> ~(sendIO[q] = "body" /\ 1 = Len(w))
      BY <1>17, <3>1
    <3> QED BY <3>1, <3>2
  <2> QED BY <1>6, <1>13, <2>1
<1>21. Stream(q)'
  <2> HIDE DEF q
  <2>1. got'[Peer(q)] = h /\ wire'[q] = x /\ recvIO'[Peer(q)] = "done"
    BY <1>0, <1>1 DEF h, x
  <2> QED BY <1>11, <1>14, <1>18, <1>19, <1>20, <2>1 DEF Stream, Numbered
<1> QED BY <1>3, <1>12, <1>21 DEF RecvSide, RecvCore

-----------------------------------------------------------------------------
(* Every step preserves the invariant.                                     *)

\* Steps of a user thread.
LEMMA Inv_User ==
    ASSUME TypeOK, ChannelInv, NEW p \in Party, UserStep(p)
    PROVE  ChannelInv'
<1> DEFINE q == Peer(p)
<1>0. q \in Party /\ q # p /\ Peer(q) = p /\ \A r \in Party : r = p \/ r = q
  BY PartyFacts
<1>1. SendSide(p) /\ RecvSide(p) /\ Stream(p) /\ Control(p)
  BY DEF ChannelInv
<1>2. SendSide(q) /\ RecvSide(q) /\ Stream(q) /\ Control(q)
  BY <1>0 DEF ChannelInv
<1>3. SendSide(q)' /\ RecvSide(q)' /\ Stream(q)' /\ Control(q)'
  <2> HIDE DEF q
  <2>0. Elsewhere(q) /\ wire' = wire /\ got' = got /\ recvIO' = recvIO
    <3>1. Elsewhere(q) /\ wire' = wire
      BY <1>0, PartyParts, UserElsewhere
    <3>2. got' = got /\ recvIO' = recvIO
      BY DEF UserStep, CallSend, CallRecv, CallThrows, CallWait, Return, Close, CloseReturn, recvVars
    <3> QED BY <3>1, <3>2
  <2>1. SendLocal(q)' = SendLocal(q) /\ RecvLocal(q)' = RecvLocal(q) /\ ctl'[q] = ctl[q]
    BY <2>0 DEF Elsewhere, SendLocal, RecvLocal
  <2>2. StreamLocal(q)' = StreamLocal(q)
    BY <2>0 DEF Elsewhere, StreamLocal
  <2>3. Control(q)'
    BY <1>2, <2>1 DEF Control, SendLocal, RecvLocal
  <2> QED BY <1>0, <1>2, <2>1, <2>2, <2>3, SendFrame, RecvFrame, StreamFrame
<1>4. SUFFICES SendSide(p)' /\ RecvSide(p)' /\ Stream(p)' /\ Control(p)'
  BY <1>0, <1>3 DEF ChannelInv
<1>5. CASE CallSend(p)
  <2> DEFINE c == Head(script[p])
             o == [type |-> "SendData", id |-> sendCount[p] + 1, len |-> c.len,
                   sync |-> c.fn = "send"]
  <2>1. c \in Call
    BY <1>5 DEF TypeOK, CallSend
  <2>2. o \in SendOp
    BY <2>1 DEF TypeOK, Call, SendOp
  <2>3. ~mStopped[p] /\ PostsSend(p, o)
    BY <1>5 DEF CallSend, Running, PostsSend, TypeOK
  <2>4. SendSide(p)' /\ Written(p)' = Written(p)
    <3> HIDE DEF o
    <3> QED BY <1>1, <2>2, <2>3, PostSend
  <2>5. RecvLocal(p)' = RecvLocal(p)
    BY <1>5 DEF CallSend, recvVars, RecvLocal
  <2>6. Stream(p)'
    <3>1. /\ wire'[p] = wire[p] /\ got'[q] = got[q] /\ recvIO'[q] = recvIO[q]
          /\ sendIO'[p] = sendIO[p]
      BY <1>5 DEF CallSend, recvVars
    <3> QED BY <1>1, <2>4, <3>1, StreamKept
  <2>7. Control(p)'
    BY <1>5 DEF CallSend, Control, TypeOK
  <2> QED BY <1>1, <2>4, <2>5, <2>6, <2>7, RecvFrame
<1>6. CASE CallRecv(p)
  <2> DEFINE c == Head(script[p])
             o == [type |-> "RecvData", id |-> recvCount[p] + 1, len |-> c.len,
                   resize |-> c.fn = "recvBuf"]
  <2>1. c \in Call
    BY <1>6 DEF TypeOK, CallRecv
  <2>2. o \in RecvOp
    BY <2>1 DEF TypeOK, Call, RecvOp
  <2>3. ~mStopped[p] /\ PostsRecv(p, o)
    BY <1>6 DEF CallRecv, Running, PostsRecv, TypeOK
  <2>4. RecvCore(p)' /\ Filled(p)' = Filled(p)
    <3> HIDE DEF o
    <3>1. RecvCore(p)
      BY <1>1 DEF RecvSide, RecvCore
    <3> QED BY <2>2, <2>3, <3>1, PostRecv
  <2>5. Receipts(p)'
    <3>1. got'[p] = got[p]
      BY <1>6 DEF CallRecv
    <3> QED BY <1>1, <2>4, <3>1, ReceiptsKept DEF RecvSide
  <2>6. SendLocal(p)' = SendLocal(p) /\ StreamLocal(p)' = StreamLocal(p)
    BY <1>6 DEF CallRecv, sendVars, SendLocal, StreamLocal
  <2>7. Control(p)'
    BY <1>6 DEF CallRecv, Control, TypeOK
  <2> QED BY <1>1, <2>4, <2>5, <2>6, <2>7, SendFrame, StreamFrame DEF RecvSide, RecvCore
<1>7. CASE Close(p)
  <2> DEFINE r == [type |-> "CloseRecv", id |-> recvCount[p] + 1, len |-> 0, resize |-> FALSE]
             o == [type |-> "CloseSend", id |-> sendCount[p] + 1, len |-> 0, sync |-> TRUE]
  <2>1. r \in RecvOp /\ o \in SendOp
    BY DEF TypeOK, RecvOp, SendOp
  <2>2. ~mStopped[p] /\ PostsSend(p, o)
    BY <1>7 DEF Close, Running, PostsSend, TypeOK
  <2>3. PostsRecv(p, r)
    BY <1>7 DEF Close, PostsRecv, TypeOK
  <2>4. SendSide(p)' /\ Written(p)' = Written(p)
    <3> HIDE DEF o
    <3> QED BY <1>1, <2>1, <2>2, PostSend
  <2>5. RecvCore(p)' /\ Filled(p)' = Filled(p)
    <3> HIDE DEF r
    <3>1. RecvCore(p)
      BY <1>1 DEF RecvSide, RecvCore
    <3> QED BY <2>1, <2>2, <2>3, <3>1, PostRecv
  <2>6. Stream(p)' /\ Receipts(p)'
    <3>1. /\ wire'[p] = wire[p] /\ got'[q] = got[q] /\ recvIO'[q] = recvIO[q]
          /\ sendIO'[p] = sendIO[p] /\ got'[p] = got[p]
      BY <1>7 DEF Close
    <3> QED BY <1>1, <2>4, <2>5, <3>1, StreamKept, ReceiptsKept DEF RecvSide
  <2>7. Control(p)'
    BY <1>7 DEF Close, Control, TypeOK
  <2> QED BY <2>4, <2>5, <2>6, <2>7 DEF RecvSide, RecvCore
<1>8. CASE CallThrows(p) \/ CallWait(p) \/ Return(p) \/ CloseReturn(p)
  <2>1. SendLocal(p)' = SendLocal(p) /\ RecvLocal(p)' = RecvLocal(p)
    BY <1>8 DEF CallThrows, CallWait, Return, CloseReturn, Die, sendVars, recvVars, SendLocal, RecvLocal
  <2>2. StreamLocal(p)' = StreamLocal(p)
    BY <1>8 DEF CallThrows, CallWait, Return, CloseReturn, Die, sendVars, recvVars, StreamLocal
  <2>3. Control(p)'
    BY <1>1, <1>8 DEF CallThrows, CallWait, Return, CloseReturn, Die, sendVars, recvVars, Control, TypeOK
  <2> QED BY <1>1, <2>1, <2>2, <2>3, SendFrame, RecvFrame, StreamFrame
<1> QED BY <1>5, <1>6, <1>7, <1>8 DEF UserStep

\* Steps of the send side.
LEMMA Inv_Send ==
    ASSUME TypeOK, ChannelInv, NEW p \in Party, SendStep(p)
    PROVE  ChannelInv'
<1> DEFINE q == Peer(p)
<1>0. q \in Party /\ q # p /\ Peer(q) = p /\ \A r \in Party : r = p \/ r = q
  BY PartyFacts
<1>1. SendSide(p) /\ RecvSide(p) /\ Stream(p) /\ Control(p)
  BY DEF ChannelInv
<1>2. SendSide(q) /\ RecvSide(q) /\ Stream(q) /\ Control(q)
  BY <1>0 DEF ChannelInv
<1>3. SendSide(q)' /\ RecvSide(q)' /\ Stream(q)' /\ Control(q)' /\ RecvSide(p)'
  <2> HIDE DEF q
  <2>0. Elsewhere(q) /\ wire'[q] = wire[q] /\ UNCHANGED recvVars /\ mStopped' = mStopped
    <3>1. Elsewhere(q) /\ wire'[q] = wire[q]
      BY <1>0, PartyParts, SendElsewhere
    <3>2. UNCHANGED recvVars /\ mStopped' = mStopped
      BY DEF SendStep, PushSend, WriteHeader, WriteBody, PopSend, WriteError, userVars
    <3> QED BY <3>1, <3>2
  <2>1. SendLocal(q)' = SendLocal(q) /\ RecvLocal(q)' = RecvLocal(q) /\ ctl'[q] = ctl[q]
    BY <2>0 DEF Elsewhere, SendLocal, RecvLocal
  <2>2. StreamLocal(q)' = StreamLocal(q) /\ RecvLocal(p)' = RecvLocal(p)
    BY <2>0 DEF Elsewhere, StreamLocal, RecvLocal, recvVars
  <2>3. Control(q)'
    BY <1>2, <2>1 DEF Control, SendLocal, RecvLocal
  <2> QED BY <1>0, <1>1, <1>2, <2>1, <2>2, <2>3, SendFrame, RecvFrame, StreamFrame
<1>4. SUFFICES SendSide(p)' /\ Stream(p)' /\ Control(p)'
  BY <1>0, <1>3 DEF ChannelInv
<1>5. got'[q] = got[q] /\ recvIO'[q] = recvIO[q]
  BY DEF SendStep, PushSend, WriteHeader, WriteBody, PopSend, WriteError, recvVars
<1>6. Control(p)'
  <2>1. sendDone[p] \subseteq sendDone'[p]
    BY DEF SendStep, PushSend, WriteHeader, WriteBody, PopSend, WriteError, sendOne, sendVars, TypeOK
  <2>2. /\ sendCount'[p] = sendCount[p] /\ recvCount'[p] = recvCount[p]
        /\ recvDone'[p] = recvDone[p] /\ mStopped'[p] = mStopped[p]
    BY DEF SendStep, PushSend, WriteHeader, WriteBody, PopSend, WriteError, userVars, sendVars, recvVars
  <2>3. ctl'[p] = ctl[p] \/ ctl'[p] = "dead"
    BY DEF SendStep, PushSend, WriteHeader, WriteBody, PopSend, WriteError, Die, userVars, TypeOK
  <2> QED BY <1>1, <2>1, <2>2, <2>3 DEF Control
<1>7. CASE PushSend(p)
  <2>1. wire'[p] = wire[p]
    BY <1>7 DEF PushSend
  <2> QED BY <1>1, <1>5, <1>6, <1>7, <2>1, PushSendInv, StreamKept
<1>8. CASE PopSend(p)
  <2>1. wire'[p] = wire[p]
    BY <1>8 DEF PopSend
  <2> QED BY <1>1, <1>5, <1>6, <1>8, <2>1, PopSendInv, StreamKept
<1>9. CASE WriteHeader(p)
  BY <1>1, <1>6, <1>9, WriteHeaderInv
<1>10. CASE WriteBody(p)
  BY <1>1, <1>6, <1>10, WriteBodyInv
<1>11. CASE WriteError(p)
  <2>1. SendLocal(p)' = SendLocal(p) /\ StreamLocal(p)' = StreamLocal(p)
    BY <1>11 DEF WriteError, sendVars, recvVars, SendLocal, StreamLocal
  <2> QED BY <1>1, <1>6, <2>1, SendFrame, StreamFrame
<1> QED BY <1>7, <1>8, <1>9, <1>10, <1>11 DEF SendStep

\* Steps of the receive side.
LEMMA Inv_Recv ==
    ASSUME TypeOK, ChannelInv, NEW p \in Party, RecvStep(p)
    PROVE  ChannelInv'
<1> DEFINE q == Peer(p)
<1>0. q \in Party /\ q # p /\ Peer(q) = p /\ \A r \in Party : r = p \/ r = q
  BY PartyFacts
<1>1. SendSide(p) /\ RecvSide(p) /\ Stream(p) /\ Control(p)
  BY DEF ChannelInv
<1>2. SendSide(q) /\ RecvSide(q) /\ Stream(q) /\ Control(q)
  BY <1>0 DEF ChannelInv
<1>3. SendSide(q)' /\ RecvSide(q)' /\ Control(q)' /\ SendSide(p)' /\ Stream(p)'
  <2> HIDE DEF q
  <2>1. SendLocal(q)' = SendLocal(q) /\ RecvLocal(q)' = RecvLocal(q) /\ ctl'[q] = ctl[q]
    <3>1. Elsewhere(q)
      BY <1>0, PartyParts, RecvElsewhere
    <3> QED BY <3>1 DEF Elsewhere, SendLocal, RecvLocal
  <2>2. SendLocal(p)' = SendLocal(p)
    BY <1>0 DEF RecvStep, PushRecv, ReadHeader, ReadMismatch, ReadBody, PopRecv, ReadError,
                SendLocal, userVars, sendVars
  <2>3. wire'[p] = wire[p] /\ got'[q] = got[q] /\ recvIO'[q] = recvIO[q]
    <3>1. wire'[p] = wire[p]
      BY <1>0, PartyParts DEF RecvStep, PushRecv, ReadHeader, ReadMismatch, ReadBody, PopRecv, ReadError,
                  q, PerParty
    <3> QED BY <2>1, <3>1 DEF RecvLocal
  <2>4. StreamLocal(p)' = StreamLocal(p)
    BY <2>2, <2>3 DEF SendLocal, StreamLocal, q
  <2>5. Control(q)'
    BY <1>2, <2>1 DEF Control, SendLocal, RecvLocal
  <2> QED BY <1>0, <1>1, <1>2, <2>1, <2>2, <2>4, <2>5, SendFrame, RecvFrame, StreamFrame
<1>4. SUFFICES RecvSide(p)' /\ Stream(q)' /\ Control(p)'
  BY <1>0, <1>3 DEF ChannelInv
<1>5. Control(p)'
  <2>1. recvDone[p] \subseteq recvDone'[p]
    BY DEF RecvStep, PushRecv, ReadHeader, ReadMismatch, ReadBody, PopRecv, ReadError, receiveOne,
           recvVars, TypeOK
  <2>2. /\ sendCount'[p] = sendCount[p] /\ recvCount'[p] = recvCount[p]
        /\ sendDone'[p] = sendDone[p] /\ mStopped'[p] = mStopped[p]
    BY DEF RecvStep, PushRecv, ReadHeader, ReadMismatch, ReadBody, PopRecv, ReadError,
           userVars, sendVars, recvVars
  <2>3. ctl'[p] = ctl[p] \/ ctl'[p] = "dead"
    BY DEF RecvStep, PushRecv, ReadHeader, ReadMismatch, ReadBody, PopRecv, ReadError, Die,
           userVars, TypeOK
  <2> QED BY <1>1, <2>1, <2>2, <2>3 DEF Control
<1>6. ASSUME SendLocal(q)' = SendLocal(q), wire'[q] = wire[q], got'[p] = got[p],
             recvIO'[p] = "body" => recvIO[p] = "body"
      PROVE  Stream(q)'
  <2>1. Written(q)' = Written(q) /\ sendIO'[q] = sendIO[q]
    BY <1>6 DEF SendLocal, Written, SendDrained, sendPopped
  <2> HIDE DEF q
  <2> QED BY <1>0, <1>2, <1>6, <2>1 DEF Stream, Numbered
<1>7. RecvCore(p) /\ Receipts(p)
  BY <1>1 DEF RecvSide, RecvCore
<1>8. CASE PushRecv(p)
  <2>1. SendLocal(q)' = SendLocal(q) /\ wire'[q] = wire[q] /\ got'[p] = got[p]
    BY <1>8 DEF PushRecv, SendLocal, userVars, sendVars
  <2>2. RecvCore(p)' /\ Filled(p)' = Filled(p) /\ (recvIO'[p] = "body" <=> recvIO[p] = "body")
    BY <1>7, <1>8, PushRecvInv
  <2> QED BY <1>5, <1>6, <1>7, <2>1, <2>2, ReceiptsKept DEF RecvSide, RecvCore
<1>9. CASE PopRecv(p)
  <2>1. SendLocal(q)' = SendLocal(q) /\ wire'[q] = wire[q] /\ got'[p] = got[p]
    BY <1>9 DEF PopRecv, SendLocal, userVars, sendVars
  <2>2. RecvCore(p)' /\ Filled(p)' = Filled(p) /\ (recvIO'[p] = "body" <=> recvIO[p] = "body")
    BY <1>7, <1>9, PopRecvInv
  <2> QED BY <1>5, <1>6, <1>7, <2>1, <2>2, ReceiptsKept DEF RecvSide, RecvCore
<1>10. CASE ReadHeader(p)
  BY <1>1, <1>2, <1>5, <1>10, ReadHeaderInv
<1>11. CASE ReadMismatch(p)
  <2>1. SendLocal(q)' = SendLocal(q) /\ wire'[q] = wire[q] /\ got'[p] = got[p]
    BY <1>11 DEF ReadMismatch, SendLocal, sendVars
  <2> QED BY <1>1, <1>5, <1>6, <1>11, <2>1, ReadMismatchInv
<1>12. CASE ReadBody(p)
  BY <1>1, <1>2, <1>5, <1>12, ReadBodyInv
<1>13. CASE ReadError(p)
  <2>1. SendLocal(q)' = SendLocal(q) /\ wire'[q] = wire[q] /\ RecvLocal(p)' = RecvLocal(p)
    BY <1>13 DEF ReadError, SendLocal, RecvLocal, sendVars, recvVars
  <2>2. got'[p] = got[p] /\ recvIO'[p] = recvIO[p]
    BY <2>1 DEF RecvLocal
  <2> QED BY <1>1, <1>5, <1>6, <2>1, <2>2, RecvFrame
<1> QED BY <1>8, <1>9, <1>10, <1>11, <1>12, <1>13 DEF RecvStep

-----------------------------------------------------------------------------
(* The theorems.                                                           *)

\* Types and invariant hold in the initial states: queues and streams are empty.
LEMMA InitInv == Init => TypeOK /\ ChannelInv
<1> SUFFICES ASSUME Init PROVE TypeOK /\ ChannelInv
  OBVIOUS
<1>1. TypeOK
  <2>1. \A S : <<>> \in Seq(S)
    OBVIOUS
  <2>2. script \in [Party -> Seq(Call)]
    BY ChannelAssumption DEF Init
  <2> QED BY <2>1, <2>2 DEF Init, TypeOK
<1>2. ASSUME NEW p \in Party PROVE SendSide(p) /\ RecvSide(p) /\ Stream(p) /\ Control(p)
  <2>1. /\ sendCount[p] = 0 /\ sendPosted[p] = <<>> /\ mSendQueue[p] = <<>>
        /\ sendIO[p] = "idle" /\ sendDone[p] = {} /\ ~mStopped[p] /\ wire[p] = <<>>
        /\ recvCount[p] = 0 /\ recvPosted[p] = <<>> /\ mRecvQueue[p] = <<>>
        /\ recvIO[p] = "idle" /\ recvDone[p] = {} /\ got[p] = <<>> /\ ctl[p] = "run"
        /\ got[Peer(p)] = <<>> /\ recvIO[Peer(p)] = "idle"
    BY PartyFacts DEF Init
  <2>2. SendSide(p)
    BY <2>1 DEF SendSide, SendOrder, SendFront, SendPromises, Numbered, sendPopped
  <2>3. RecvSide(p)
    BY <2>1 DEF RecvSide, RecvOrder, RecvFront, RecvPromises, RecvDrained, Receipts, Filled,
                Numbered, recvPopped
  <2>4. Stream(p)
    BY <2>1 DEF Stream, Written, SendDrained, Numbered, sendPopped
  <2>5. Control(p)
    BY <2>1 DEF Control
  <2> QED BY <2>2, <2>3, <2>4, <2>5
<1> QED BY <1>1, <1>2 DEF ChannelInv

\* Each step of either party preserves types and invariant.
LEMMA NextInv == TypeOK /\ ChannelInv /\ [Next]_vars => TypeOK' /\ ChannelInv'
<1> SUFFICES ASSUME TypeOK, ChannelInv, [Next]_vars PROVE TypeOK' /\ ChannelInv'
  OBVIOUS
<1>1. ASSUME NEW p \in Party, UserStep(p) PROVE TypeOK' /\ ChannelInv'
  BY <1>1, TypeOK_User, Inv_User
<1>2. ASSUME NEW p \in Party, SendStep(p) PROVE TypeOK' /\ ChannelInv'
  BY <1>2, TypeOK_Send, Inv_Send
<1>3. ASSUME NEW p \in Party, RecvStep(p) PROVE TypeOK' /\ ChannelInv'
  BY <1>3, TypeOK_Recv, Inv_Recv
<1>4. CASE UNCHANGED vars
  <2>1. TypeOK'
    BY <1>4 DEF TypeOK, vars, userVars, sendVars, recvVars
  <2>2. ASSUME NEW p \in Party PROVE SendSide(p)' /\ RecvSide(p)' /\ Stream(p)' /\ Control(p)'
    <3>1. SendLocal(p)' = SendLocal(p) /\ RecvLocal(p)' = RecvLocal(p) /\ StreamLocal(p)' = StreamLocal(p)
      BY <1>4 DEF SendLocal, RecvLocal, StreamLocal, vars, userVars, sendVars, recvVars
    <3>2. SendSide(p) /\ RecvSide(p) /\ Stream(p) /\ Control(p)
      BY DEF ChannelInv
    <3>3. Control(p)'
      BY <1>4, <3>2 DEF Control, vars, userVars, sendVars, recvVars
    <3> QED BY <3>1, <3>2, <3>3, SendFrame, RecvFrame, StreamFrame
  <2> QED BY <2>1, <2>2 DEF ChannelInv
<1> QED BY <1>1, <1>2, <1>3, <1>4 DEF Next, Finished

\* The inductive invariant of a channel: at all times the operation counters,
\* strands, queues, streams and receipts of the two ends agree.
THEOREM ChannelInvariance == Spec => [](TypeOK /\ ChannelInv)
<1>1. Init => TypeOK /\ ChannelInv
  BY InitInv
<1>2. TypeOK /\ ChannelInv /\ [Next]_vars => (TypeOK /\ ChannelInv)'
  BY NextInv
<1> QED BY <1>1, <1>2, PTL DEF Spec

\* Every variable keeps its type, whatever the two users call.
THEOREM TypeCorrect == Spec => []TypeOK
BY ChannelInvariance, PTL

\* What has been written or filled was asked for.
LEMMA WrittenBound ==
    ASSUME TypeOK, NEW p \in Party, SendSide(p)
    PROVE  Written(p) <= IF mStopped[p] THEN sendCount[p] - 1 ELSE sendCount[p]
<1> DEFINE s == sendPosted[p]
           m == mSendQueue[p]
           c == sendCount[p]
<1>1. s \in Seq(SendOp) /\ m \in Seq(SendOp) /\ c \in Nat /\ Len(s) \in Nat /\ Len(m) \in Nat
  BY DEF TypeOK
<1>2. (s = <<>> <=> Len(s) = 0) /\ (m = <<>> <=> Len(m) = 0)
  <2> HIDE DEF s, m
  <2> QED BY <1>1, EmptySeq
<1>3. sendPopped(p) = c - Len(s) - Len(m)
  BY DEF sendPopped
<1>4. CASE SendDrained(p)
  BY <1>1, <1>4 DEF Written, SendDrained
<1>5. CASE ~SendDrained(p) /\ m = <<>>
  <2>1. Written(p) = c - Len(s) - Len(m) /\ (mStopped[p] => s # <<>>)
    BY <1>3, <1>5 DEF Written, SendSide, SendFront, SendDrained
  <2> HIDE DEF s, m, c
  <2>2. Written(p) <= c /\ (mStopped[p] => Written(p) <= c - 1)
    BY <1>1, <1>2, <1>5, <2>1
  <2> QED BY <2>2 DEF c
<1>6. CASE ~SendDrained(p) /\ m # <<>>
  <2>1. Len(m) >= 1 /\ m[1].type = "SendData" /\ m[1].id = c - Len(s) - Len(m) + 1
    BY <1>1, <1>2, <1>3, <1>6 DEF SendSide, SendFront, SendOrder, Numbered
  <2>2. mStopped[p] => m[1].id # c
    BY <1>1, <2>1, SMTT(30) DEF SendSide, SendOrder
  <2>3. Written(p) <= c - Len(s) - Len(m) + 1
    BY <1>1, <1>3, <1>6 DEF Written
  <2>4. Written(p) = c - Len(s) - Len(m) \/ Written(p) = c - Len(s) - Len(m) + 1
    BY <1>3, <1>6 DEF Written
  <2> HIDE DEF s, m, c
  <2>5. Written(p) <= c /\ (mStopped[p] => Written(p) <= c - 1)
    BY <1>1, <2>1, <2>2, <2>4
  <2> QED BY <2>5 DEF c
<1> QED BY <1>4, <1>5, <1>6

\* The state is quiet, and all is written, when close() has returned.
LEMMA ClosedState ==
    ASSUME TypeOK, ChannelInv, NEW p \in Party, ctl[p] = "closed"
    PROVE  SendDrained(p) /\ RecvDrained(p) /\ sendIO[p] = "idle" /\ recvIO[p] = "idle"
<1>1. mStopped[p] /\ sendCount[p] \in sendDone[p] /\ recvCount[p] \in recvDone[p]
  BY DEF ChannelInv, Control
<1>2. SendDrained(p) /\ RecvDrained(p)
  BY <1>1 DEF ChannelInv, SendSide, RecvSide, SendPromises, RecvPromises
<1> QED BY <1>2 DEF ChannelInv, SendSide, RecvSide, SendFront, RecvFront, SendDrained, RecvDrained

\* The k-th receive of a party gets the k-th message of its peer.
THEOREM FifoDeliveryHolds == Spec => []FifoDelivery
<1>1. TypeOK /\ ChannelInv => FifoDelivery
  <2> SUFFICES ASSUME TypeOK, ChannelInv, NEW p \in Party, NEW k \in 1 .. Len(got[p])
               PROVE  got[p][k].op = k /\ got[p][k].msg = k /\ k <= sendCount[Peer(p)]
    BY DEF FifoDelivery
  <2> DEFINE q == Peer(p)
  <2>1. q \in Party /\ Peer(q) = p
    BY PartyFacts
  <2>2. got[p][k].op = k /\ got[p][k].msg = k
    BY DEF ChannelInv, RecvSide, Receipts
  <2> HIDE DEF q
  <2>3. Len(got[p]) + Len(wire[q]) = Written(q)
    BY <2>1 DEF ChannelInv, Stream
  <2>4. Written(q) <= IF mStopped[q] THEN sendCount[q] - 1 ELSE sendCount[q]
    BY <2>1, WrittenBound DEF ChannelInv
  <2>5. Len(got[p]) \in Nat /\ Len(wire[q]) \in Nat /\ sendCount[q] \in Nat
    BY <2>1, SMTT(30) DEF TypeOK
  <2>6. k <= sendCount[q]
    <3> DEFINE a == Len(got[p])
               b == Len(wire[q])
               c == sendCount[q]
    <3>1. k \in 1 .. a /\ a \in Nat /\ b \in Nat /\ c \in Nat /\ a + b = Written(q)
      BY <2>3, <2>5
    <3>2. Written(q) <= c \/ Written(q) <= c - 1
      BY <2>4
    <3> HIDE DEF a, b, c
    <3>3. k <= c
      BY <3>1, <3>2
    <3> QED BY <3>3 DEF c
  <2> QED BY <2>2, <2>6 DEF q
<1> QED BY <1>1, ChannelInvariance, PTL

\* No handler of a socket is left when close() frees it.
THEOREM SocketQuietHolds == Spec => []SocketQuiet
<1>1. TypeOK /\ ChannelInv => SocketQuiet
  BY ClosedState DEF SocketQuiet, SendDrained, RecvDrained
<1> QED BY <1>1, ChannelInvariance, PTL

\* close() returns only when every message of the user is in the stream.
THEOREM CloseFlushesHolds == Spec => []CloseFlushes
<1>1. TypeOK /\ ChannelInv => CloseFlushes
  <2> SUFFICES ASSUME TypeOK, ChannelInv, NEW p \in Party, ctl[p] = "closed"
               PROVE  /\ Len(got[Peer(p)]) + Len(wire[p]) = sendCount[p] - 1
                      /\ \A i \in 1 .. Len(wire[p]) : wire[p][i].full
    BY DEF CloseFlushes
  <2>1. SendDrained(p) /\ sendIO[p] = "idle" /\ Stream(p)
    BY ClosedState DEF ChannelInv
  <2> QED BY <2>1 DEF Stream, Written
<1> QED BY <1>1, ChannelInvariance, PTL

\* The send queue is never left with nobody to drive it.
THEOREM SendQueueDrivenHolds == Spec => []SendQueueDriven
<1>1. ChannelInv => SendQueueDriven
  BY DEF ChannelInv, SendQueueDriven, SendSide, SendFront
<1> QED BY <1>1, ChannelInvariance, PTL

-----------------------------------------------------------------------------
(* A channel implements the pipe of module Pipe.                           *)

pipeMap == <<sentMap, askedMap, filledMap, phaseMap>>

\* The variables of the pipe are functions of these four, at either party.
LEMMA PipeStutter ==
    ASSUME mStopped' = mStopped, sendCount' = sendCount, recvCount' = recvCount, got' = got,
           \A r \in Party : mStopped[r] => (ctl'[r] = "closed" <=> ctl[r] = "closed")
    PROVE  UNCHANGED pipeMap
<1>1. sentMap' = sentMap /\ askedMap' = askedMap /\ filledMap' = filledMap
  BY DEF sentMap, askedMap, filledMap
<1>2. phaseMap' = phaseMap
  BY DEF phaseMap
<1> QED BY <1>1, <1>2 DEF pipeMap

\* The initial states are initial states of the pipe.
LEMMA PipeInit == Init => P!Init
<1> SUFFICES ASSUME Init PROVE P!Init
  OBVIOUS
<1>1. filledMap = [p \in Party |-> <<>>]
  <2>1. \A p \in Party : got[p] = <<>>
    BY DEF Init
  <2>2. \A p \in Party : [k \in 1 .. Len(got[p]) |-> got[p][k].msg] = <<>>
    BY <2>1
  <2> QED BY <2>2 DEF filledMap
<1>2. /\ sentMap = [p \in Party |-> 0] /\ askedMap = [p \in Party |-> 0]
      /\ phaseMap = [p \in Party |-> "open"]
  BY DEF Init, sentMap, askedMap, phaseMap
<1> QED BY <1>1, <1>2 DEF P!Init, P!Party, Party

\* The only step that fills a buffer puts the next message into the next one.
LEMMA PipeFill ==
    ASSUME TypeOK, ChannelInv, TypeOK', ChannelInv', NEW p \in Party, ReadBody(p)
    PROVE  P!Fill(p)
<1> DEFINE q == Peer(p)
           n == Len(got[p])
<1>1. q \in Party /\ Peer(q) = p
  BY PartyFacts
<1>2. /\ got[p] \in Seq(Receipt) /\ got'[p] \in Seq(Receipt) /\ n \in Nat
      /\ wire[q] \in Seq(Message) /\ wire[q] # <<>>
  BY <1>1 DEF TypeOK, ReadBody, ChannelInv, Stream
<1>3. /\ sendCount' = sendCount /\ recvCount' = recvCount /\ mStopped' = mStopped /\ ctl' = ctl
      /\ recvIO[p] = "body"
  BY DEF ReadBody, userVars, sendVars
<1>4. sentMap' = sentMap /\ askedMap' = askedMap /\ phaseMap' = phaseMap
  BY <1>3 DEF sentMap, askedMap, phaseMap
<1>5. \E r : got' = [got EXCEPT ![p] = Append(got[p], r)]
  BY DEF ReadBody
<1>6. Len(got'[p]) = n + 1 /\ \A s \in Party : s # p => got'[s] = got[s]
  BY <1>2, <1>5 DEF TypeOK
<1>7. /\ \A k \in 1 .. n : got[p][k].msg = k
      /\ \A k \in 1 .. n + 1 : got'[p][k].msg = k
  BY <1>6 DEF ChannelInv, RecvSide, Receipts
<1>8. filledMap[p] = [k \in 1 .. n |-> k] /\ filledMap'[p] = [k \in 1 .. n + 1 |-> k]
  BY <1>6, <1>7 DEF filledMap
<1>9. filledMap[p] \in Seq(Nat) /\ Len(filledMap[p]) = n
  BY <1>2, <1>8
<1>10. filledMap'[p] = Append(filledMap[p], n + 1)
  BY <1>2, <1>8
<1>11. filledMap' = [filledMap EXCEPT ![p] = Append(filledMap[p], Len(filledMap[p]) + 1)]
  <2>1. \A s \in Party : s # p => filledMap'[s] = filledMap[s]
    BY <1>6 DEF filledMap
  <2>2. filledMap = [s \in Party |-> filledMap[s]] /\ filledMap' = [s \in Party |-> filledMap'[s]]
    BY DEF filledMap
  <2> QED BY <1>9, <1>10, <2>1, <2>2
<1>12. n < sentMap[q]
  <2>1. n + Len(wire[q]) = Written(q) /\ SendSide(q)
    BY <1>1 DEF ChannelInv, Stream
  <2>2. Written(q) <= sentMap[q]
    <3>1. sentMap[q] = IF mStopped[q] THEN sendCount[q] - 1 ELSE sendCount[q]
      BY <1>1 DEF sentMap
    <3>2. Written(q) <= IF mStopped[q] THEN sendCount[q] - 1 ELSE sendCount[q]
      <4> HIDE DEF q
      <4> QED BY <1>1, <2>1, WrittenBound
    <3> QED BY <3>1, <3>2
  <2>3. Len(wire[q]) \in Nat /\ Len(wire[q]) >= 1 /\ sentMap[q] \in Int
    <3>1. sentMap[q] \in Int
      <4> HIDE DEF q
      <4>1. sendCount[q] \in Nat
        BY <1>1 DEF TypeOK
      <4>2. sentMap[q] = sendCount[q] \/ sentMap[q] = sendCount[q] - 1
        BY <1>1 DEF sentMap
      <4> QED BY <4>1, <4>2
    <3>2. Len(wire[q]) \in Nat /\ Len(wire[q]) >= 1
      <4> DEFINE w == wire[q]
      <4> HIDE DEF w
      <4>1. w \in Seq(Message) /\ w # <<>>
        BY <1>2 DEF w
      <4> QED BY <4>1, EmptySeq DEF w
    <3> QED BY <3>1, <3>2
  <2> HIDE DEF n, q
  <2> QED BY <1>2, <2>1, <2>2, <2>3
<1>13. n < askedMap[p]
  <2>1. RecvCore(p) /\ Receipts(p)
    BY DEF ChannelInv, RecvSide, RecvCore
  <2>2. /\ mRecvQueue[p] # <<>> /\ recvPopped(p) \in Nat
        /\ recvPopped(p) + 1 <= recvCount[p]
        /\ mStopped[p] => recvPopped(p) + 1 # recvCount[p]
    BY <1>3, <2>1, RecvHead
  <2>3. n = recvPopped(p)
    BY <1>3, <2>1, <2>2 DEF Receipts, Filled, RecvDrained
  <2>4. recvCount[p] \in Nat
    BY DEF TypeOK
  <2> HIDE DEF n
  <2> QED BY <2>2, <2>3, <2>4 DEF askedMap
<1> QED BY <1>4, <1>9, <1>11, <1>12, <1>13 DEF P!Fill, P!Peer, Peer

\* The calls of a user are the operations of the pipe.
LEMMA PipeUser ==
    ASSUME TypeOK, ChannelInv, NEW p \in Party, UserStep(p)
    PROVE  P!Next \/ UNCHANGED pipeMap
<1>0. /\ mStopped \in [Party -> BOOLEAN] /\ sendCount \in [Party -> Nat]
      /\ recvCount \in [Party -> Nat]
      /\ ctl \in [Party -> {"run", "send", "recv", "wait", "closing", "closed", "dead"}]
  BY DEF TypeOK
<1>1. CASE CallSend(p)
  <2>1. /\ ~mStopped[p] /\ mStopped' = mStopped /\ sendCount' = [sendCount EXCEPT ![p] = @ + 1]
        /\ recvCount' = recvCount /\ got' = got
        /\ \A r \in Party : r # p => ctl'[r] = ctl[r]
    BY <1>0, <1>1 DEF CallSend, Running, recvVars
  <2>2. sentMap' = [sentMap EXCEPT ![p] = @ + 1]
    BY <1>0, <2>1 DEF sentMap
  <2>3. askedMap' = askedMap /\ filledMap' = filledMap
    BY <2>1 DEF askedMap, filledMap
  <2>4. phaseMap' = phaseMap /\ phaseMap[p] = "open"
    BY <2>1 DEF phaseMap
  <2> QED BY <2>2, <2>3, <2>4 DEF P!Next, P!Send, P!Party, Party
<1>2. CASE CallRecv(p)
  <2>1. /\ ~mStopped[p] /\ mStopped' = mStopped /\ recvCount' = [recvCount EXCEPT ![p] = @ + 1]
        /\ sendCount' = sendCount /\ got' = got
        /\ \A r \in Party : r # p => ctl'[r] = ctl[r]
    BY <1>0, <1>2 DEF CallRecv, Running, sendVars
  <2>2. askedMap' = [askedMap EXCEPT ![p] = @ + 1]
    BY <1>0, <2>1 DEF askedMap
  <2>3. sentMap' = sentMap /\ filledMap' = filledMap
    BY <2>1 DEF sentMap, filledMap
  <2>4. phaseMap' = phaseMap /\ phaseMap[p] = "open"
    BY <2>1 DEF phaseMap
  <2> QED BY <2>2, <2>3, <2>4 DEF P!Next, P!Ask, P!Party, Party
<1>3. CASE Close(p)
  <2>1. /\ ~mStopped[p] /\ mStopped' = [mStopped EXCEPT ![p] = TRUE]
        /\ sendCount' = [sendCount EXCEPT ![p] = @ + 1]
        /\ recvCount' = [recvCount EXCEPT ![p] = @ + 1]
        /\ ctl' = [ctl EXCEPT ![p] = "closing"] /\ got' = got
    BY <1>3 DEF Close, Running
  <2>2. sentMap' = sentMap /\ askedMap' = askedMap
    BY <1>0, <2>1 DEF sentMap, askedMap
  <2>3. filledMap' = filledMap
    BY <2>1 DEF filledMap
  <2>4. phaseMap' = [phaseMap EXCEPT ![p] = "closing"] /\ phaseMap[p] = "open"
    BY <1>0, <2>1 DEF phaseMap
  <2> QED BY <2>2, <2>3, <2>4 DEF P!Next, P!Close, P!Party, Party
<1>4. CASE CloseReturn(p)
  <2>1. /\ ctl[p] = "closing" /\ ctl' = [ctl EXCEPT ![p] = "closed"] /\ got' = got
        /\ mStopped' = mStopped /\ sendCount' = sendCount /\ recvCount' = recvCount
        /\ recvCount[p] \in recvDone[p]
    BY <1>4 DEF CloseReturn, sendVars, recvVars
  <2>2. mStopped[p]
    BY <2>1 DEF ChannelInv, Control
  <2>3. sentMap' = sentMap /\ askedMap' = askedMap /\ filledMap' = filledMap
    BY <2>1 DEF sentMap, askedMap, filledMap
  <2>4. phaseMap' = [phaseMap EXCEPT ![p] = "closed"] /\ phaseMap[p] = "closing"
    BY <1>0, <2>1, <2>2 DEF phaseMap
  <2>5. Len(got[p]) = recvCount[p] - 1
    <3>1. RecvDrained(p)
      BY <2>1, <2>2 DEF ChannelInv, RecvSide, RecvPromises
    <3> QED BY <3>1 DEF ChannelInv, RecvSide, Receipts, Filled
  <2>6. Len(filledMap[p]) = askedMap[p]
    <3>1. filledMap[p] = [k \in 1 .. Len(got[p]) |-> got[p][k].msg] /\ Len(got[p]) \in Nat
      BY DEF filledMap, TypeOK
    <3>2. Len(filledMap[p]) = Len(got[p])
      BY <3>1
    <3>3. askedMap[p] = recvCount[p] - 1
      BY <2>2 DEF askedMap
    <3> QED BY <2>5, <3>2, <3>3
  <2> QED BY <2>3, <2>4, <2>6 DEF P!Next, P!CloseReturn, P!Party, Party
<1>5. CASE CallThrows(p) \/ CallWait(p) \/ Return(p)
  <2>1. /\ mStopped' = mStopped /\ sendCount' = sendCount /\ recvCount' = recvCount /\ got' = got
        /\ \A r \in Party : r # p => ctl'[r] = ctl[r]
        /\ ctl[p] # "closed" /\ ctl'[p] # "closed"
    BY <1>0, <1>5 DEF CallThrows, CallWait, Return, Running, Die, sendVars, recvVars
  <2> QED BY <2>1, PipeStutter
<1> QED BY <1>1, <1>2, <1>3, <1>4, <1>5 DEF UserStep

\* Every step of a channel is a step of the pipe or leaves it unchanged.
LEMMA PipeNext ==
    ASSUME TypeOK, ChannelInv, TypeOK', ChannelInv', [Next]_vars
    PROVE  P!Next \/ UNCHANGED pipeMap
<1>0. ctl \in [Party -> {"run", "send", "recv", "wait", "closing", "closed", "dead"}]
  BY DEF TypeOK
<1>1. ASSUME NEW p \in Party, UserStep(p) PROVE P!Next \/ UNCHANGED pipeMap
  BY <1>1, PipeUser
<1>2. ASSUME NEW p \in Party, SendStep(p) PROVE UNCHANGED pipeMap
  <2>1. mStopped' = mStopped /\ sendCount' = sendCount /\ recvCount' = recvCount /\ got' = got
    BY <1>2 DEF SendStep, PushSend, WriteHeader, WriteBody, PopSend, WriteError, userVars,
                sendVars, recvVars
  <2>2. ctl' = ctl \/ WriteError(p)
    BY <1>2 DEF SendStep, PushSend, WriteHeader, WriteBody, PopSend, userVars
  <2>3. WriteError(p) => ctl[p] # "closed" /\ ctl' = [ctl EXCEPT ![p] = "dead"]
    BY ClosedState DEF WriteError, Die
  <2> QED BY <1>0, <2>1, <2>2, <2>3, PipeStutter
<1>3. ASSUME NEW p \in Party, RecvStep(p) PROVE P!Next \/ UNCHANGED pipeMap
  <2>1. CASE ReadBody(p)
    BY <2>1, PipeFill DEF P!Next, P!Party, Party
  <2>2. CASE ~ReadBody(p)
    <3>1. mStopped' = mStopped /\ sendCount' = sendCount /\ recvCount' = recvCount /\ got' = got
      BY <1>3, <2>2 DEF RecvStep, PushRecv, ReadHeader, ReadMismatch, PopRecv, ReadError, userVars,
                        sendVars, recvVars
    <3>2. \/ ctl' = ctl
          \/ ctl' = [ctl EXCEPT ![p] = "dead"] /\ recvIO[p] # "idle"
      BY <1>3, <2>2 DEF RecvStep, PushRecv, ReadHeader, ReadMismatch, PopRecv, ReadError, Die,
                        userVars
    <3>3. recvIO[p] # "idle" => ctl[p] # "closed"
      BY ClosedState
    <3> QED BY <1>0, <3>1, <3>2, <3>3, PipeStutter
  <2> QED BY <2>1, <2>2
<1>4. CASE UNCHANGED vars
  BY <1>4, PipeStutter DEF vars, userVars, sendVars, recvVars
<1> QED BY <1>1, <1>2, <1>3, <1>4 DEF Next, Finished

\* A channel is a FIFO pipe: whatever the users call, whatever the order of
\* handlers, and even if a process dies.
THEOREM PipeRefinement == Spec => ImplementsPipe
<1>1. TypeOK /\ ChannelInv /\ TypeOK' /\ ChannelInv' /\ [Next]_vars => [P!Next]_(P!pipeVars)
  BY PipeNext DEF P!pipeVars, pipeMap
<1> QED BY <1>1, PipeInit, ChannelInvariance, PTL DEF Spec, ImplementsPipe, P!Spec

-----------------------------------------------------------------------------
(* Users that agree.                                                       *)

\* Counting the members of A among the first numbers.
LEMMA CountNext ==
    ASSUME NEW n \in Nat, NEW A
    PROVE  /\ Cardinality({i \in 1 .. 0 : i \in A}) = 0
           /\ Cardinality({i \in 1 .. n : i \in A}) \in Nat
           /\ n + 1 \in A => Cardinality({i \in 1 .. n + 1 : i \in A})
                               = Cardinality({i \in 1 .. n : i \in A}) + 1
           /\ n + 1 \notin A => Cardinality({i \in 1 .. n + 1 : i \in A})
                               = Cardinality({i \in 1 .. n : i \in A})
<1> DEFINE S == {i \in 1 .. n : i \in A}
           T == {i \in 1 .. n + 1 : i \in A}
<1>1. IsFiniteSet(S) /\ Cardinality(S) \in Nat
  <2>1. IsFiniteSet(1 .. n)
    BY FS_Interval
  <2>2. S \subseteq 1 .. n
    OBVIOUS
  <2>3. IsFiniteSet(S)
    <3> HIDE DEF S
    <3> QED BY <2>1, <2>2, FS_Subset
  <2> HIDE DEF S
  <2> QED BY <2>3, FS_CardinalityType
<1>2. n + 1 \notin S
  OBVIOUS
<1>3. {i \in 1 .. 0 : i \in A} = {}
  OBVIOUS
<1>4. n + 1 \in A => T = S \union {n + 1}
  OBVIOUS
<1>5. n + 1 \notin A => T = S
  OBVIOUS
<1>6. Cardinality({}) = 0
  BY FS_EmptySet
<1>7. Cardinality(S \union {n + 1}) = Cardinality(S) + 1
  <2> HIDE DEF S
  <2> QED BY <1>1, <1>2, FS_AddElement
<1>8. n + 1 \in A => Cardinality(T) = Cardinality(S) + 1
  BY <1>4, <1>7
<1> QED BY <1>1, <1>3, <1>5, <1>6, <1>8

\* One more call is one more send, or one more receive, or neither.
LEMMA CallNo ==
    ASSUME NEW c, NEW n \in Nat
    PROVE  /\ SendNo(c, 0) = 0 /\ RecvNo(c, 0) = 0
           /\ SendNo(c, n) \in Nat /\ RecvNo(c, n) \in Nat
           /\ c[n + 1].fn \in Sends => SendNo(c, n + 1) = SendNo(c, n) + 1
           /\ c[n + 1].fn \notin Sends => SendNo(c, n + 1) = SendNo(c, n)
           /\ c[n + 1].fn \in Recvs => RecvNo(c, n + 1) = RecvNo(c, n) + 1
           /\ c[n + 1].fn \notin Recvs => RecvNo(c, n + 1) = RecvNo(c, n)
<1> DEFINE A == {i \in Nat : c[i].fn \in Sends}
           B == {i \in Nat : c[i].fn \in Recvs}
<1>1. ASSUME NEW k \in Nat
      PROVE  /\ {i \in 1 .. k : c[i].fn \in Sends} = {i \in 1 .. k : i \in A}
             /\ {i \in 1 .. k : c[i].fn \in Recvs} = {i \in 1 .. k : i \in B}
  OBVIOUS
<1>2. (n + 1 \in A <=> c[n + 1].fn \in Sends) /\ (n + 1 \in B <=> c[n + 1].fn \in Recvs)
  OBVIOUS
<1>3. ASSUME NEW k \in Nat
      PROVE  /\ SendNo(c, k) = Cardinality({i \in 1 .. k : i \in A})
             /\ RecvNo(c, k) = Cardinality({i \in 1 .. k : i \in B})
  BY <1>1 DEF SendNo, RecvNo
<1> HIDE DEF A, B
<1>4. /\ Cardinality({i \in 1 .. 0 : i \in A}) = 0
      /\ Cardinality({i \in 1 .. n : i \in A}) \in Nat
      /\ n + 1 \in A => Cardinality({i \in 1 .. n + 1 : i \in A})
                          = Cardinality({i \in 1 .. n : i \in A}) + 1
      /\ n + 1 \notin A => Cardinality({i \in 1 .. n + 1 : i \in A})
                          = Cardinality({i \in 1 .. n : i \in A})
  BY CountNext
<1>5. /\ Cardinality({i \in 1 .. 0 : i \in B}) = 0
      /\ Cardinality({i \in 1 .. n : i \in B}) \in Nat
      /\ n + 1 \in B => Cardinality({i \in 1 .. n + 1 : i \in B})
                          = Cardinality({i \in 1 .. n : i \in B}) + 1
      /\ n + 1 \notin B => Cardinality({i \in 1 .. n + 1 : i \in B})
                          = Cardinality({i \in 1 .. n : i \in B})
  BY CountNext
<1>6. 0 \in Nat /\ n + 1 \in Nat
  OBVIOUS
<1>7. /\ SendNo(c, 0) = Cardinality({i \in 1 .. 0 : i \in A})
      /\ SendNo(c, n) = Cardinality({i \in 1 .. n : i \in A})
      /\ SendNo(c, n + 1) = Cardinality({i \in 1 .. n + 1 : i \in A})
      /\ RecvNo(c, 0) = Cardinality({i \in 1 .. 0 : i \in B})
      /\ RecvNo(c, n) = Cardinality({i \in 1 .. n : i \in B})
      /\ RecvNo(c, n + 1) = Cardinality({i \in 1 .. n + 1 : i \in B})
  BY <1>3, <1>6
<1> QED BY <1>2, <1>4, <1>5, <1>7, Zenon

\* What push_back and pop_front leave in a queue.
LEMMA HeldFacts ==
    ASSUME NEW S, NEW s \in Seq(S), NEW e \in S
    PROVE  /\ Held(Append(s, e)) = Held(s) \union {e}
           /\ Held(<<>>) = {}
           /\ s # <<>> => Held(Tail(s)) \subseteq Held(s) /\ Head(s) \in Held(s)
<1>1. Held(Append(s, e)) = Held(s) \union {e}
  <2> DEFINE t == Append(s, e)
  <2>1. /\ Len(s) \in Nat /\ Len(t) = Len(s) + 1
        /\ \A i \in 1 .. Len(s) : t[i] = s[i]
        /\ t[Len(s) + 1] = e
    BY AppendFacts
  <2> HIDE DEF t
  <2>2. ASSUME NEW x \in Held(t) PROVE x \in Held(s) \union {e}
    <3>1. PICK i \in 1 .. Len(t) : x = t[i]
      BY DEF Held
    <3>2. i \in 1 .. Len(s) \/ i = Len(s) + 1
      BY <2>1
    <3> QED BY <2>1, <3>1, <3>2 DEF Held
  <2>3. ASSUME NEW x \in Held(s) \union {e} PROVE x \in Held(t)
    <3>1. CASE x \in Held(s)
      <4>1. PICK i \in 1 .. Len(s) : x = s[i]
        BY <3>1 DEF Held
      <4>2. i \in 1 .. Len(t)
        BY <2>1
      <4> QED BY <2>1, <4>1, <4>2 DEF Held
    <3>2. CASE x = e
      <4>1. Len(s) + 1 \in 1 .. Len(t)
        BY <2>1
      <4> QED BY <2>1, <3>2, <4>1 DEF Held
    <3> QED BY <3>1, <3>2
  <2> QED BY <2>2, <2>3 DEF t
<1>2. Held(<<>>) = {}
  BY DEF Held
<1>3. ASSUME s # <<>> PROVE Held(Tail(s)) \subseteq Held(s) /\ Head(s) \in Held(s)
  <2> DEFINE t == Tail(s)
  <2>1. /\ Len(s) \in Nat /\ Len(s) >= 1 /\ Head(s) = s[1] /\ Len(t) = Len(s) - 1
        /\ \A i \in 1 .. Len(s) - 1 : t[i] = s[i + 1]
    BY <1>3, TailFacts
  <2> HIDE DEF t
  <2>2. ASSUME NEW x \in Held(t) PROVE x \in Held(s)
    <3>1. PICK i \in 1 .. Len(t) : x = t[i]
      BY DEF Held
    <3>2. i + 1 \in 1 .. Len(s) /\ x = s[i + 1]
      BY <2>1, <3>1
    <3> QED BY <3>2 DEF Held
  <2>3. Head(s) \in Held(s)
    <3>1. 1 \in 1 .. Len(s)
      BY <2>1
    <3> QED BY <2>1, <3>1 DEF Held
  <2> QED BY <2>2, <2>3 DEF t
<1> QED BY <1>1, <1>2, <1>3

\* The u32 cast keeps a length below 2^32.
LEMMA SizeOfShort == ASSUME NEW len \in Nat, len < U32 PROVE SizeOf(len) = len
<1>1. U32 \in Nat /\ U32 > 0
  BY ChannelAssumption
<1>2. ASSUME NEW k \in Nat, len < k PROVE len % k = len
  BY <1>2
<1> QED BY <1>1, <1>2 DEF SizeOf

\* A script is a pair of sequences of calls.
LEMMA ScriptType ==
    ASSUME NEW s \in Scripts, NEW p \in Party
    PROVE  s[p] \in Seq(Call) /\ Len(s[p]) \in Nat
<1>1. s[p] \in Seq(Call)
  BY ChannelAssumption
<1> QED BY <1>1

\* A step that makes no call leaves the user where it was on its script, or
\* past the end of it.
LEMMA OnScriptKept ==
    ASSUME NEW s, NEW p \in Party, OnScript(s, p), script'[p] = script[p],
           sendCount'[p] = sendCount[p], recvCount'[p] = recvCount[p],
           ~mStopped'[p] /\ ctl'[p] # "dead" => ~mStopped[p] /\ ctl[p] # "dead"
    PROVE  OnScript(s, p)'
BY DEF OnScript, Alive

\* A call moves the user one call on, and the operation it makes is the one
\* its place in the script gives.
LEMMA OnScriptCall ==
    ASSUME TypeOK, NEW s \in Scripts, NEW p \in Party, OnScript(s, p), Running(p),
           script[p] # <<>>, script'[p] = Tail(script[p]), NEW e, e = Head(script[p]),
           e.fn \in Sends => sendCount'[p] = sendCount[p] + 1,
           e.fn \notin Sends => sendCount'[p] = sendCount[p],
           e.fn \in Recvs => recvCount'[p] = recvCount[p] + 1,
           e.fn \notin Recvs => recvCount'[p] = recvCount[p]
    PROVE  /\ OnScript(s, p)'
           /\ e.fn \in Sends => IsSend(s[p], sendCount[p] + 1, e.len)
           /\ e.fn \in Recvs => IsRecv(s[p], recvCount[p] + 1, e.len, e.fn = "recvBuf")
<1> DEFINE c == s[p]
           u == script[p]
           v == Tail(u)
           d == Len(c) - Len(u)
<1>1. c \in Seq(Call) /\ Len(c) \in Nat /\ u \in Seq(Call) /\ u # <<>>
  BY ScriptType DEF TypeOK
<1>2. /\ Len(u) \in Nat /\ Len(u) >= 1 /\ Head(u) = u[1] /\ Len(v) = Len(u) - 1
      /\ \A k \in 1 .. Len(u) - 1 : v[k] = u[k + 1]
  <2> HIDE DEF u
  <2> QED BY <1>1, TailFacts
<1>3. /\ d >= 0 /\ \A k \in 1 .. Len(u) : u[k] = c[d + k]
      /\ sendCount[p] = SendNo(c, d) /\ recvCount[p] = RecvNo(c, d)
  BY DEF OnScript, Running, Alive
<1>4. d \in Nat /\ d + 1 \in 1 .. Len(c)
  <2> HIDE DEF c, u
  <2> QED BY <1>1, <1>2, <1>3
<1>5. e = c[d + 1]
  <2>1. 1 \in 1 .. Len(u) /\ e = u[1]
    BY <1>2
  <2> QED BY <1>3, <2>1
<1>6. Len(c) - Len(v) = d + 1
  <2> HIDE DEF c, u, v
  <2> QED BY <1>1, <1>2
<1>7. ASSUME NEW k \in 1 .. Len(v) PROVE v[k] = c[d + 1 + k]
  <2> HIDE DEF c, u, v
  <2>1. k \in 1 .. Len(u) - 1 /\ k + 1 \in 1 .. Len(u) /\ d + (k + 1) = d + 1 + k
    BY <1>1, <1>2, <1>4
  <2> QED BY <1>2, <1>3, <2>1
<1> HIDE DEF c, d, v
<1>8. /\ e.fn \in Sends => SendNo(c, d + 1) = SendNo(c, d) + 1
      /\ e.fn \notin Sends => SendNo(c, d + 1) = SendNo(c, d)
      /\ e.fn \in Recvs => RecvNo(c, d + 1) = RecvNo(c, d) + 1
      /\ e.fn \notin Recvs => RecvNo(c, d + 1) = RecvNo(c, d)
  BY <1>4, <1>5, CallNo
<1>9. sendCount'[p] = SendNo(c, d + 1) /\ recvCount'[p] = RecvNo(c, d + 1)
  BY <1>3, <1>8, Zenon
<1>10. OnScript(s, p)'
  <2>1. Len(s[p]) - Len(script'[p]) = d + 1 /\ d + 1 >= 0
    <3>1. script'[p] = v /\ s[p] = c
      BY DEF v, c
    <3>2. d + 1 >= 0
      BY <1>4
    <3> QED BY <1>6, <3>1, <3>2, Zenon
  <2>2. \A k \in 1 .. Len(script'[p]) : script'[p][k] = s[p][d + 1 + k]
    BY <1>7 DEF c, v
  <2> QED BY <1>9, <2>1, <2>2 DEF OnScript, c
<1>11. e.fn \in Sends => IsSend(c, sendCount[p] + 1, e.len)
  <2> SUFFICES ASSUME e.fn \in Sends PROVE IsSend(c, sendCount[p] + 1, e.len)
    OBVIOUS
  <2>1. SendNo(c, d + 1) = sendCount[p] + 1
    BY <1>3, <1>8
  <2> QED BY <1>4, <1>5, <2>1 DEF IsSend
<1>12. e.fn \in Recvs => IsRecv(c, recvCount[p] + 1, e.len, e.fn = "recvBuf")
  <2> SUFFICES ASSUME e.fn \in Recvs PROVE IsRecv(c, recvCount[p] + 1, e.len, e.fn = "recvBuf")
    OBVIOUS
  <2>1. RecvNo(c, d + 1) = recvCount[p] + 1
    BY <1>3, <1>8
  <2> QED BY <1>4, <1>5, <2>1 DEF IsRecv
<1> QED BY <1>10, <1>11, <1>12 DEF c

\* Operations and messages that were there can still be traced.
LEMMA SentKept ==
    ASSUME NEW s, NEW p \in Party, SentOnScript(s, p),
           Held(sendPosted'[p]) \union Held(mSendQueue'[p])
             \subseteq Held(sendPosted[p]) \union Held(mSendQueue[p]),
           \A m \in Held(wire'[p]) : \E o \in Held(wire[p]) :
             m.id = o.id /\ m.len = o.len /\ m.size = o.size
    PROVE  SentOnScript(s, p)'
<1>1. \A op \in Held(sendPosted'[p]) \union Held(mSendQueue'[p]) :
        op.type = "SendData" => IsSend(s[p], op.id, op.len)
  BY DEF SentOnScript
<1>2. ASSUME NEW m \in Held(wire'[p])
      PROVE  m.size = SizeOf(m.len) /\ IsSend(s[p], m.id, m.len)
  <2>1. PICK o \in Held(wire[p]) : m.id = o.id /\ m.len = o.len /\ m.size = o.size
    OBVIOUS
  <2>2. o.size = SizeOf(o.len) /\ IsSend(s[p], o.id, o.len)
    BY <2>1 DEF SentOnScript
  <2> QED BY <2>1, <2>2
<1> QED BY <1>1, <1>2 DEF SentOnScript

LEMMA AskedKept ==
    ASSUME NEW s, NEW p \in Party, AskedOnScript(s, p),
           Held(recvPosted'[p]) \union Held(mRecvQueue'[p])
             \subseteq Held(recvPosted[p]) \union Held(mRecvQueue[p])
    PROVE  AskedOnScript(s, p)'
BY DEF AskedOnScript

\* What can be traced at p depends on these.
TraceLocal(p) ==
    <<script[p], ctl[p], mStopped[p], sendCount[p], recvCount[p], sendPosted[p], mSendQueue[p],
      recvPosted[p], mRecvQueue[p], wire[p]>>
LEMMA TraceFrame ==
    ASSUME NEW s, NEW p \in Party, OnScript(s, p) /\ SentOnScript(s, p) /\ AskedOnScript(s, p),
           TraceLocal(p)' = TraceLocal(p)
    PROVE  OnScript(s, p)' /\ SentOnScript(s, p)' /\ AskedOnScript(s, p)'
BY DEF TraceLocal, OnScript, SentOnScript, AskedOnScript, Alive

\* sendOne and receiveOne keep the queue they are given, or pop its front.
LEMMA StartHeld ==
    ASSUME TypeOK, NEW p \in Party
    PROVE  /\ \A q \in Seq(SendOp) : q # <<>> /\ sendOne(p, q) => Held(mSendQueue'[p]) \subseteq Held(q)
           /\ \A q \in Seq(RecvOp) : q # <<>> /\ receiveOne(p, q) => Held(mRecvQueue'[p]) \subseteq Held(q)
<1>1. ASSUME NEW q \in Seq(SendOp), q # <<>>, sendOne(p, q)
      PROVE  Held(mSendQueue'[p]) \subseteq Held(q)
  <2>1. mSendQueue'[p] = q \/ mSendQueue'[p] = Tail(q)
    BY <1>1 DEF sendOne, TypeOK
  <2>2. Head(q) \in SendOp
    BY <1>1
  <2>3. Held(Tail(q)) \subseteq Held(q)
    BY <1>1, <2>2, HeldFacts
  <2> QED BY <2>1, <2>3
<1>2. ASSUME NEW q \in Seq(RecvOp), q # <<>>, receiveOne(p, q)
      PROVE  Held(mRecvQueue'[p]) \subseteq Held(q)
  <2>1. mRecvQueue'[p] = q \/ mRecvQueue'[p] = Tail(q)
    BY <1>2 DEF receiveOne, TypeOK
  <2>2. Head(q) \in RecvOp
    BY <1>2
  <2>3. Held(Tail(q)) \subseteq Held(q)
    BY <1>2, <2>2, HeldFacts
  <2> QED BY <2>1, <2>3
<1> QED BY <1>1, <1>2

\* Steps of a user thread.
LEMMA Traced_User ==
    ASSUME TypeOK, ChannelInv, NEW s \in Scripts, Traced(s), NEW p \in Party, UserStep(p)
    PROVE  Traced(s)'
<1> DEFINE q == Peer(p)
<1>0. q \in Party /\ q # p /\ \A r \in Party : r = p \/ r = q
  BY PartyFacts
<1>1. OnScript(s, p) /\ SentOnScript(s, p) /\ AskedOnScript(s, p)
  BY DEF Traced
<1>2. OnScript(s, q)' /\ SentOnScript(s, q)' /\ AskedOnScript(s, q)'
  <2> HIDE DEF q
  <2>1. OnScript(s, q) /\ SentOnScript(s, q) /\ AskedOnScript(s, q)
    BY <1>0 DEF Traced
  <2>2. TraceLocal(q)' = TraceLocal(q)
    BY <1>0, PartyParts, UserElsewhere DEF Elsewhere, TraceLocal
  <2> QED BY <1>0, <2>1, <2>2, TraceFrame
<1>3. SUFFICES OnScript(s, p)' /\ SentOnScript(s, p)' /\ AskedOnScript(s, p)'
  BY <1>0, <1>2 DEF Traced
<1>4. CASE CallSend(p)
  <2> DEFINE c == Head(script[p])
             o == [type |-> "SendData", id |-> sendCount[p] + 1, len |-> c.len,
                   sync |-> c.fn = "send"]
  <2>1. c \in Call /\ c.fn \in Sends /\ c.fn \notin Recvs
    BY <1>4 DEF TypeOK, CallSend, Sends, Recvs
  <2>2. o \in SendOp
    BY <2>1 DEF TypeOK, Call, SendOp
  <2>3. /\ sendPosted'[p] = Append(sendPosted[p], o) /\ mSendQueue'[p] = mSendQueue[p]
        /\ wire'[p] = wire[p]
    BY <1>4 DEF CallSend, TypeOK
  <2>4. /\ Running(p) /\ script[p] # <<>> /\ script'[p] = Tail(script[p])
        /\ sendCount'[p] = sendCount[p] + 1 /\ recvCount'[p] = recvCount[p]
        /\ recvPosted'[p] = recvPosted[p] /\ mRecvQueue'[p] = mRecvQueue[p]
    BY <1>4 DEF CallSend, TypeOK, recvVars
  <2>5. OnScript(s, p)' /\ IsSend(s[p], sendCount[p] + 1, c.len)
    <3> HIDE DEF c
    <3>1. c = Head(script[p])
      BY DEF c
    <3> QED BY <1>1, <2>1, <2>4, <3>1, OnScriptCall
  <2>6. IsSend(s[p], o.id, o.len)
    BY <2>5
  <2>7. SentOnScript(s, p)'
    <3> HIDE DEF o
    <3>1. Held(sendPosted'[p]) = Held(sendPosted[p]) \union {o}
      <4>1. sendPosted[p] \in Seq(SendOp)
        BY DEF TypeOK
      <4> QED BY <2>2, <2>3, <4>1, HeldFacts
    <3> QED BY <1>1, <2>3, <2>6, <3>1 DEF SentOnScript
  <2>8. AskedOnScript(s, p)'
    BY <1>1, <2>4 DEF AskedOnScript
  <2> QED BY <2>5, <2>7, <2>8
<1>5. CASE CallRecv(p)
  <2> DEFINE c == Head(script[p])
             o == [type |-> "RecvData", id |-> recvCount[p] + 1, len |-> c.len,
                   resize |-> c.fn = "recvBuf"]
  <2>1. c \in Call /\ c.fn \in Recvs /\ c.fn \notin Sends
    BY <1>5 DEF TypeOK, CallRecv, Sends, Recvs
  <2>2. o \in RecvOp
    BY <2>1 DEF TypeOK, Call, RecvOp
  <2>3. recvPosted'[p] = Append(recvPosted[p], o) /\ mRecvQueue'[p] = mRecvQueue[p]
    BY <1>5 DEF CallRecv, TypeOK
  <2>4. /\ Running(p) /\ script[p] # <<>> /\ script'[p] = Tail(script[p])
        /\ recvCount'[p] = recvCount[p] + 1 /\ sendCount'[p] = sendCount[p]
        /\ sendPosted'[p] = sendPosted[p] /\ mSendQueue'[p] = mSendQueue[p]
        /\ wire'[p] = wire[p]
    BY <1>5 DEF CallRecv, TypeOK, sendVars
  <2>5. OnScript(s, p)' /\ IsRecv(s[p], recvCount[p] + 1, c.len, c.fn = "recvBuf")
    <3> HIDE DEF c
    <3>1. c = Head(script[p])
      BY DEF c
    <3> QED BY <1>1, <2>1, <2>4, <3>1, OnScriptCall
  <2>6. IsRecv(s[p], o.id, o.len, o.resize)
    BY <2>5
  <2>7. AskedOnScript(s, p)'
    <3> HIDE DEF o
    <3>1. Held(recvPosted'[p]) = Held(recvPosted[p]) \union {o}
      <4>1. recvPosted[p] \in Seq(RecvOp)
        BY DEF TypeOK
      <4> QED BY <2>2, <2>3, <4>1, HeldFacts
    <3> QED BY <1>1, <2>3, <2>6, <3>1 DEF AskedOnScript
  <2>8. SentOnScript(s, p)'
    BY <1>1, <2>4 DEF SentOnScript
  <2> QED BY <2>5, <2>7, <2>8
<1>6. CASE CallWait(p)
  <2>1. /\ Running(p) /\ script[p] # <<>> /\ script'[p] = Tail(script[p])
        /\ Head(script[p]).fn \notin Sends /\ Head(script[p]).fn \notin Recvs
        /\ sendCount'[p] = sendCount[p] /\ recvCount'[p] = recvCount[p]
        /\ sendPosted'[p] = sendPosted[p] /\ mSendQueue'[p] = mSendQueue[p]
        /\ recvPosted'[p] = recvPosted[p] /\ mRecvQueue'[p] = mRecvQueue[p]
        /\ wire'[p] = wire[p]
    BY <1>6 DEF CallWait, TypeOK, sendVars, recvVars, Sends, Recvs
  <2>2. OnScript(s, p)'
    BY <1>1, <2>1, OnScriptCall
  <2> QED BY <1>1, <2>1, <2>2 DEF SentOnScript, AskedOnScript
<1>7. CASE Close(p)
  <2> DEFINE r == [type |-> "CloseRecv", id |-> recvCount[p] + 1, len |-> 0, resize |-> FALSE]
             o == [type |-> "CloseSend", id |-> sendCount[p] + 1, len |-> 0, sync |-> TRUE]
  <2>1. r \in RecvOp /\ o \in SendOp /\ r.type # "RecvData" /\ o.type # "SendData"
    BY DEF TypeOK, RecvOp, SendOp
  <2>2. /\ recvPosted'[p] = Append(recvPosted[p], r) /\ sendPosted'[p] = Append(sendPosted[p], o)
        /\ mSendQueue'[p] = mSendQueue[p] /\ mRecvQueue'[p] = mRecvQueue[p]
        /\ wire'[p] = wire[p] /\ mStopped'[p]
    BY <1>7 DEF Close, TypeOK
  <2>3. OnScript(s, p)'
    BY <2>2 DEF OnScript
  <2> HIDE DEF r, o
  <2>4. /\ Held(recvPosted'[p]) = Held(recvPosted[p]) \union {r}
        /\ Held(sendPosted'[p]) = Held(sendPosted[p]) \union {o}
    <3>1. recvPosted[p] \in Seq(RecvOp) /\ sendPosted[p] \in Seq(SendOp)
      BY DEF TypeOK
    <3> QED BY <2>1, <2>2, <3>1, HeldFacts
  <2>5. SentOnScript(s, p)'
    BY <1>1, <2>1, <2>2, <2>4 DEF SentOnScript
  <2>6. AskedOnScript(s, p)'
    BY <1>1, <2>1, <2>2, <2>4 DEF AskedOnScript
  <2> QED BY <2>3, <2>5, <2>6
<1>8. CASE CallThrows(p) \/ Return(p) \/ CloseReturn(p)
  <2>1. /\ sendPosted'[p] = sendPosted[p] /\ mSendQueue'[p] = mSendQueue[p]
        /\ recvPosted'[p] = recvPosted[p] /\ mRecvQueue'[p] = mRecvQueue[p]
        /\ wire'[p] = wire[p]
    BY <1>8 DEF CallThrows, Return, CloseReturn, sendVars, recvVars
  <2>2. CASE CallThrows(p)
    <3>1. ctl'[p] = "dead"
      BY <2>2 DEF CallThrows, Die, TypeOK
    <3>2. OnScript(s, p)'
      BY <3>1 DEF OnScript, Alive
    <3> QED BY <1>1, <2>1, <3>2 DEF SentOnScript, AskedOnScript
  <2>3. CASE Return(p) \/ CloseReturn(p)
    <3>1. /\ script'[p] = script[p] /\ sendCount'[p] = sendCount[p] /\ recvCount'[p] = recvCount[p]
          /\ mStopped'[p] = mStopped[p] /\ ctl[p] # "dead"
      BY <2>3 DEF Return, CloseReturn, sendVars, recvVars
    <3>2. OnScript(s, p)'
      BY <1>1, <3>1, OnScriptKept
    <3> QED BY <1>1, <2>1, <3>2 DEF SentOnScript, AskedOnScript
  <2> QED BY <1>8, <2>2, <2>3
<1> QED BY <1>4, <1>5, <1>6, <1>7, <1>8 DEF UserStep

\* Steps of the send side.
LEMMA Traced_Send ==
    ASSUME TypeOK, ChannelInv, NEW s \in Scripts, Traced(s), NEW p \in Party, SendStep(p)
    PROVE  Traced(s)'
<1> DEFINE q == Peer(p)
<1>0. q \in Party /\ q # p /\ \A r \in Party : r = p \/ r = q
  BY PartyFacts
<1>1. OnScript(s, p) /\ SentOnScript(s, p) /\ AskedOnScript(s, p)
  BY DEF Traced
<1>2. OnScript(s, q)' /\ SentOnScript(s, q)' /\ AskedOnScript(s, q)'
  <2> HIDE DEF q
  <2>1. OnScript(s, q) /\ SentOnScript(s, q) /\ AskedOnScript(s, q)
    BY <1>0 DEF Traced
  <2>2. TraceLocal(q)' = TraceLocal(q)
    BY <1>0, PartyParts, SendElsewhere DEF Elsewhere, TraceLocal
  <2> QED BY <1>0, <2>1, <2>2, TraceFrame
<1>3. SUFFICES OnScript(s, p)' /\ SentOnScript(s, p)' /\ AskedOnScript(s, p)'
  BY <1>0, <1>2 DEF Traced
<1>4. OnScript(s, p)' /\ AskedOnScript(s, p)'
  <2>1. /\ script'[p] = script[p] /\ sendCount'[p] = sendCount[p] /\ recvCount'[p] = recvCount[p]
        /\ mStopped'[p] = mStopped[p] /\ (ctl'[p] = "dead" \/ ctl'[p] = ctl[p])
        /\ recvPosted'[p] = recvPosted[p] /\ mRecvQueue'[p] = mRecvQueue[p]
    BY PartyParts DEF SendStep, PushSend, WriteHeader, WriteBody, PopSend, WriteError, Die,
                      userVars, sendVars, recvVars, PerParty
  <2>2. OnScript(s, p)'
    BY <1>1, <2>1, OnScriptKept
  <2> QED BY <1>1, <2>1, <2>2 DEF AskedOnScript
<1>5. CASE PushSend(p)
  <2> DEFINE o == Head(sendPosted[p])
             t == Append(mSendQueue[p], o)
  <2>1. /\ sendPosted[p] \in Seq(SendOp) /\ sendPosted[p] # <<>> /\ mSendQueue[p] \in Seq(SendOp)
        /\ sendPosted'[p] = Tail(sendPosted[p]) /\ wire'[p] = wire[p]
    BY <1>5 DEF PushSend, TypeOK
  <2>2. o \in SendOp
    BY <2>1
  <2>3. Held(Tail(sendPosted[p])) \subseteq Held(sendPosted[p]) /\ o \in Held(sendPosted[p])
    BY <2>1, <2>2, HeldFacts
  <2>4. sendOne(p, t) \/ mSendQueue'[p] = t
    BY <1>5 DEF PushSend, TypeOK
  <2> HIDE DEF o
  <2>5. Held(t) = Held(mSendQueue[p]) \union {o} /\ t \in Seq(SendOp) /\ t # <<>>
    BY <2>1, <2>2, HeldFacts, AppendFacts
  <2> HIDE DEF t
  <2>6. Held(mSendQueue'[p]) \subseteq Held(t)
    BY <2>4, <2>5, StartHeld
  <2>7. /\ Held(sendPosted'[p]) \union Held(mSendQueue'[p])
             \subseteq Held(sendPosted[p]) \union Held(mSendQueue[p])
        /\ \A m \in Held(wire'[p]) : \E w \in Held(wire[p]) :
             m.id = w.id /\ m.len = w.len /\ m.size = w.size
    BY <2>1, <2>3, <2>5, <2>6
  <2> QED BY <1>1, <1>4, <2>7, SentKept
<1>6. CASE PopSend(p)
  <2> DEFINE t == Tail(mSendQueue[p])
  <2>1. mSendQueue[p] \in Seq(SendOp) /\ mSendQueue[p] # <<>>
    BY <1>6 DEF PopSend, TypeOK, ChannelInv, SendSide, SendFront
  <2>2. Head(mSendQueue[p]) \in SendOp /\ t \in Seq(SendOp)
    BY <2>1
  <2>3. Held(t) \subseteq Held(mSendQueue[p])
    BY <2>1, <2>2, HeldFacts
  <2>4. (t # <<>> /\ sendOne(p, t)) \/ mSendQueue'[p] = t
    BY <1>6 DEF PopSend, TypeOK
  <2> HIDE DEF t
  <2>5. Held(mSendQueue'[p]) \subseteq Held(t)
    BY <2>2, <2>4, StartHeld
  <2>6. sendPosted'[p] = sendPosted[p] /\ wire'[p] = wire[p]
    BY <1>6 DEF PopSend
  <2>7. /\ Held(sendPosted'[p]) \union Held(mSendQueue'[p])
             \subseteq Held(sendPosted[p]) \union Held(mSendQueue[p])
        /\ \A m \in Held(wire'[p]) : \E w \in Held(wire[p]) :
             m.id = w.id /\ m.len = w.len /\ m.size = w.size
    BY <2>3, <2>5, <2>6
  <2> QED BY <1>1, <1>4, <2>7, SentKept
<1>7. CASE WriteHeader(p)
  <2> DEFINE o == Head(mSendQueue[p])
             m == [id |-> o.id, len |-> o.len, size |-> SizeOf(o.len), full |-> FALSE]
  <2>1. /\ mSendQueue[p] \in Seq(SendOp) /\ mSendQueue[p] # <<>>
        /\ mSendQueue[p][1].type = "SendData"
    BY <1>7 DEF WriteHeader, TypeOK, ChannelInv, SendSide, SendFront
  <2>2. o \in SendOp /\ o.type = "SendData"
    BY <2>1
  <2>3. o \in Held(mSendQueue[p])
    BY <2>1, <2>2, HeldFacts
  <2>4. IsSend(s[p], o.id, o.len)
    BY <1>1, <2>2, <2>3 DEF SentOnScript
  <2>5. m \in Message
    BY <2>2, SizeOfType DEF SendOp, Message
  <2>6. /\ wire'[p] = Append(wire[p], m) /\ sendPosted'[p] = sendPosted[p]
        /\ mSendQueue'[p] = mSendQueue[p] /\ wire[p] \in Seq(Message)
    BY <1>7 DEF WriteHeader, TypeOK
  <2>7. m.size = SizeOf(m.len) /\ IsSend(s[p], m.id, m.len)
    BY <2>4
  <2> HIDE DEF m
  <2>8. Held(wire'[p]) = Held(wire[p]) \union {m}
    BY <2>5, <2>6, HeldFacts
  <2>9. SentOnScript(s, p)'
    BY <1>1, <2>6, <2>7, <2>8 DEF SentOnScript
  <2> QED BY <1>4, <2>9
<1>8. CASE WriteBody(p)
  <2> DEFINE w == wire[p]
             v == [w EXCEPT ![Len(w)].full = TRUE]
  <2>1. w \in Seq(Message) /\ w # <<>>
    BY <1>8 DEF TypeOK, ChannelInv, Stream, WriteBody
  <2>2. Len(w) \in Nat /\ Len(w) \in 1 .. Len(w) /\ DOMAIN w = 1 .. Len(w)
    BY <2>1
  <2>3. /\ wire'[p] = v /\ sendPosted'[p] = sendPosted[p]
        /\ mSendQueue'[p] = mSendQueue[p]
    BY <1>8 DEF WriteBody, TypeOK
  <2>4. ASSUME NEW m \in Held(v)
        PROVE  \E o \in Held(w) : m.id = o.id /\ m.len = o.len /\ m.size = o.size
    <3>1. Len(v) = Len(w)
      BY <2>1, <2>2
    <3>2. PICK i \in 1 .. Len(w) : m = v[i]
      BY <3>1 DEF Held
    <3>3. w[i] \in Message /\ w[i] \in Held(w)
      BY <2>1, <3>2 DEF Held
    <3>4. m.id = w[i].id /\ m.len = w[i].len /\ m.size = w[i].size
      <4>1. CASE i = Len(w)
        <5>1. m = [w[i] EXCEPT !.full = TRUE]
          BY <2>2, <3>2, <4>1
        <5> QED BY <3>3, <5>1 DEF Message
      <4>2. CASE i # Len(w)
        BY <2>2, <3>2, <4>2
      <4> QED BY <4>1, <4>2
    <3> QED BY <3>3, <3>4
  <2> HIDE DEF v
  <2>5. SentOnScript(s, p)'
    BY <1>1, <2>3, <2>4, SentKept
  <2> QED BY <1>4, <2>5
<1>9. CASE WriteError(p)
  <2>1. sendPosted'[p] = sendPosted[p] /\ mSendQueue'[p] = mSendQueue[p] /\ wire'[p] = wire[p]
    BY <1>9 DEF WriteError, sendVars
  <2> QED BY <1>1, <1>4, <2>1 DEF SentOnScript
<1> QED BY <1>5, <1>6, <1>7, <1>8, <1>9 DEF SendStep

\* Steps of the receive side.
LEMMA Traced_Recv ==
    ASSUME TypeOK, ChannelInv, NEW s \in Scripts, Traced(s), NEW p \in Party, RecvStep(p)
    PROVE  Traced(s)'
<1> DEFINE q == Peer(p)
<1>0. q \in Party /\ q # p /\ Peer(q) = p /\ \A r \in Party : r = p \/ r = q
  BY PartyFacts
<1>1. OnScript(s, p) /\ SentOnScript(s, p) /\ AskedOnScript(s, p)
  BY DEF Traced
<1>2. OnScript(s, q)' /\ SentOnScript(s, q)' /\ AskedOnScript(s, q)'
  <2>1. OnScript(s, q) /\ SentOnScript(s, q) /\ AskedOnScript(s, q)
    BY <1>0 DEF Traced
  <2>2. CASE ~ReadBody(p)
    <3>1. TraceLocal(q)' = TraceLocal(q)
      <4> HIDE DEF q
      <4>1. wire' = wire
        BY <2>2 DEF RecvStep, PushRecv, ReadHeader, ReadMismatch, PopRecv, ReadError
      <4> QED BY <1>0, <4>1, PartyParts, RecvElsewhere DEF Elsewhere, TraceLocal
    <3> QED BY <1>0, <2>1, <3>1, TraceFrame
  <2>3. CASE ReadBody(p)
    <3>1. wire[q] \in Seq(Message) /\ wire[q] # <<>> /\ wire'[q] = Tail(wire[q])
      BY <1>0, <2>3 DEF TypeOK, ReadBody, ChannelInv, Stream
    <3>2. /\ script'[q] = script[q] /\ ctl'[q] = ctl[q] /\ mStopped'[q] = mStopped[q]
          /\ sendCount'[q] = sendCount[q] /\ recvCount'[q] = recvCount[q]
          /\ sendPosted'[q] = sendPosted[q] /\ mSendQueue'[q] = mSendQueue[q]
          /\ recvPosted'[q] = recvPosted[q] /\ mRecvQueue'[q] = mRecvQueue[q]
      BY <2>3 DEF ReadBody, userVars, sendVars
    <3> HIDE DEF q
    <3>3. Held(wire'[q]) \subseteq Held(wire[q])
      <4>1. Head(wire[q]) \in Message
        BY <3>1
      <4> QED BY <3>1, <4>1, HeldFacts
    <3>4. OnScript(s, q)'
      BY <1>0, <2>1, <3>2, OnScriptKept
    <3>5. SentOnScript(s, q)'
      BY <2>1, <3>2, <3>3 DEF SentOnScript
    <3> QED BY <2>1, <3>2, <3>4, <3>5 DEF AskedOnScript
  <2> QED BY <2>2, <2>3
<1>3. SUFFICES OnScript(s, p)' /\ SentOnScript(s, p)' /\ AskedOnScript(s, p)'
  BY <1>0, <1>2 DEF Traced
<1>4. OnScript(s, p)' /\ SentOnScript(s, p)'
  <2>1. /\ script'[p] = script[p] /\ sendCount'[p] = sendCount[p] /\ recvCount'[p] = recvCount[p]
        /\ mStopped'[p] = mStopped[p] /\ (ctl'[p] = "dead" \/ ctl'[p] = ctl[p])
        /\ sendPosted'[p] = sendPosted[p] /\ mSendQueue'[p] = mSendQueue[p]
    BY PartyParts DEF RecvStep, PushRecv, ReadHeader, ReadMismatch, ReadBody, PopRecv, ReadError, Die,
                      userVars, sendVars, recvVars, PerParty
  <2>2. wire'[p] = wire[p]
    <3> HIDE DEF q
    <3>1. q = Peer(p)
      BY DEF q
    <3> QED BY <1>0, <3>1, PartyParts DEF RecvStep, PushRecv, ReadHeader, ReadMismatch, ReadBody, PopRecv,
                    ReadError, PerParty
  <2>3. OnScript(s, p)'
    BY <1>1, <2>1, OnScriptKept
  <2> QED BY <1>1, <2>1, <2>2, <2>3 DEF SentOnScript
<1>5. CASE PushRecv(p)
  <2> DEFINE o == Head(recvPosted[p])
             t == Append(mRecvQueue[p], o)
  <2>1. /\ recvPosted[p] \in Seq(RecvOp) /\ recvPosted[p] # <<>> /\ mRecvQueue[p] \in Seq(RecvOp)
        /\ recvPosted'[p] = Tail(recvPosted[p])
    BY <1>5 DEF PushRecv, TypeOK
  <2>2. o \in RecvOp
    BY <2>1
  <2>3. Held(Tail(recvPosted[p])) \subseteq Held(recvPosted[p]) /\ o \in Held(recvPosted[p])
    BY <2>1, <2>2, HeldFacts
  <2>4. receiveOne(p, t) \/ mRecvQueue'[p] = t
    BY <1>5 DEF PushRecv, TypeOK
  <2> HIDE DEF o
  <2>5. Held(t) = Held(mRecvQueue[p]) \union {o} /\ t \in Seq(RecvOp) /\ t # <<>>
    BY <2>1, <2>2, HeldFacts, AppendFacts
  <2> HIDE DEF t
  <2>6. Held(mRecvQueue'[p]) \subseteq Held(t)
    BY <2>4, <2>5, StartHeld
  <2>7. Held(recvPosted'[p]) \union Held(mRecvQueue'[p])
          \subseteq Held(recvPosted[p]) \union Held(mRecvQueue[p])
    BY <2>1, <2>3, <2>5, <2>6
  <2> QED BY <1>1, <1>4, <2>7, AskedKept
<1>6. CASE PopRecv(p)
  <2> DEFINE t == Tail(mRecvQueue[p])
  <2>1. mRecvQueue[p] \in Seq(RecvOp) /\ mRecvQueue[p] # <<>>
    BY <1>6 DEF PopRecv, TypeOK, ChannelInv, RecvSide, RecvFront
  <2>2. Head(mRecvQueue[p]) \in RecvOp /\ t \in Seq(RecvOp)
    BY <2>1
  <2>3. Held(t) \subseteq Held(mRecvQueue[p])
    BY <2>1, <2>2, HeldFacts
  <2>4. (t # <<>> /\ receiveOne(p, t)) \/ mRecvQueue'[p] = t
    BY <1>6 DEF PopRecv, TypeOK
  <2> HIDE DEF t
  <2>5. Held(mRecvQueue'[p]) \subseteq Held(t)
    BY <2>2, <2>4, StartHeld
  <2>6. recvPosted'[p] = recvPosted[p]
    BY <1>6 DEF PopRecv
  <2>7. Held(recvPosted'[p]) \union Held(mRecvQueue'[p])
          \subseteq Held(recvPosted[p]) \union Held(mRecvQueue[p])
    BY <2>3, <2>5, <2>6
  <2> QED BY <1>1, <1>4, <2>7, AskedKept
<1>7. CASE ReadHeader(p) \/ ReadMismatch(p) \/ ReadBody(p) \/ ReadError(p)
  <2>1. recvPosted'[p] = recvPosted[p] /\ mRecvQueue'[p] = mRecvQueue[p]
    BY <1>7 DEF ReadHeader, ReadMismatch, ReadBody, ReadError, recvVars
  <2> QED BY <1>1, <1>4, <2>1 DEF AskedOnScript
<1> QED BY <1>5, <1>6, <1>7 DEF RecvStep

\* Every step leaves operations and messages traceable to the calls.
LEMMA TracedNext ==
    ASSUME TypeOK, ChannelInv, NEW s \in Scripts, Traced(s), [Next]_vars
    PROVE  Traced(s)'
<1>1. ASSUME NEW p \in Party, UserStep(p) PROVE Traced(s)'
  BY <1>1, Traced_User
<1>2. ASSUME NEW p \in Party, SendStep(p) PROVE Traced(s)'
  BY <1>2, Traced_Send
<1>3. ASSUME NEW p \in Party, RecvStep(p) PROVE Traced(s)'
  BY <1>3, Traced_Recv
<1>4. CASE UNCHANGED vars
  <2> SUFFICES ASSUME NEW p \in Party
               PROVE  OnScript(s, p)' /\ SentOnScript(s, p)' /\ AskedOnScript(s, p)'
    BY DEF Traced
  <2>1. TraceLocal(p)' = TraceLocal(p)
    BY <1>4 DEF TraceLocal, vars, userVars, sendVars, recvVars
  <2>2. OnScript(s, p) /\ SentOnScript(s, p) /\ AskedOnScript(s, p)
    BY DEF Traced
  <2> QED BY <2>1, <2>2, TraceFrame
<1> QED BY <1>1, <1>2, <1>3, <1>4 DEF Next, Finished

\* At the start nothing has been called and nothing is under way.
LEMMA TracedInit == Init => script \in Scripts /\ Traced(script)
<1> SUFFICES ASSUME Init, NEW p \in Party
             PROVE  OnScript(script, p) /\ SentOnScript(script, p) /\ AskedOnScript(script, p)
  BY DEF Init, Traced
<1>1. /\ script \in Scripts /\ sendCount[p] = 0 /\ recvCount[p] = 0 /\ wire[p] = <<>>
      /\ sendPosted[p] = <<>> /\ mSendQueue[p] = <<>>
      /\ recvPosted[p] = <<>> /\ mRecvQueue[p] = <<>>
  BY DEF Init
<1>2. Len(script[p]) \in Nat
  BY <1>1, ScriptType
<1>3. SendNo(script[p], 0) = 0 /\ RecvNo(script[p], 0) = 0
  BY CallNo
<1>4. OnScript(script, p)
  <2>1. Len(script[p]) - Len(script[p]) = 0
    BY <1>2
  <2>2. \A k \in 1 .. Len(script[p]) : script[p][k] = script[p][0 + k]
    BY <1>2
  <2> QED BY <1>1, <1>3, <2>1, <2>2 DEF OnScript
<1>5. Held(<<>>) = {}
  BY DEF Held
<1> QED BY <1>1, <1>4, <1>5 DEF SentOnScript, AskedOnScript

\* The front receive operation and the first message of the stream have the
\* same number; so, if the scripts match, the same length.
LEMMA HeadsMatch ==
    ASSUME TypeOK, ChannelInv, NEW s \in Scripts, Matched(s), Traced(s), NEW p \in Party,
           recvIO[p] \in {"header", "body"}, wire[Peer(p)] # <<>>,
           NEW op, op = Head(mRecvQueue[p]), NEW m, m = Head(wire[Peer(p)])
    PROVE  /\ op.id = Len(got[p]) + 1 /\ Len(got[p]) \in Nat
           /\ mStopped[p] => op.id # recvCount[p]
           /\ m.size = SizeOf(m.len)
           /\ op.resize \/ op.len = m.len
           /\ Short(s) => m.size = m.len
<1> DEFINE q == Peer(p)
           c == s[p]
           b == s[q]
<1>0. q \in Party /\ Peer(q) = p
  BY PartyFacts
<1>1. /\ mRecvQueue[p] # <<>> /\ op = mRecvQueue[p][1] /\ op \in RecvOp
      /\ op.id = recvPopped(p) + 1 /\ recvPopped(p) \in Nat
      /\ mStopped[p] => recvPopped(p) + 1 # recvCount[p]
  <2>1. RecvCore(p) /\ recvIO[p] # "idle"
    BY DEF ChannelInv, RecvSide, RecvCore
  <2> QED BY <2>1, RecvHead
<1>2. op.type = "RecvData"
  BY <1>1 DEF ChannelInv, RecvSide, RecvFront
<1>3. Len(got[p]) = recvPopped(p)
  <2>1. ~RecvDrained(p)
    BY <1>1 DEF RecvDrained
  <2> QED BY <2>1 DEF ChannelInv, RecvSide, Receipts, Filled
<1>4. /\ wire[q] \in Seq(Message) /\ m \in Message /\ m \in Held(wire[q])
      /\ m.id = Len(got[p]) + 1
  <2>1. wire[q] \in Seq(Message) /\ wire[q] # <<>> /\ m = Head(wire[q])
    BY <1>0 DEF TypeOK
  <2>2. Numbered(wire[q], Len(got[p]))
    BY <1>0 DEF ChannelInv, Stream
  <2> HIDE DEF q
  <2>3. m = wire[q][1] /\ m \in Message /\ 1 \in 1 .. Len(wire[q])
    BY <2>1, TailFacts
  <2>4. m \in Held(wire[q])
    BY <2>3 DEF Held
  <2>5. m.id = Len(got[p]) + 1
    BY <2>2, <2>3 DEF Numbered
  <2> QED BY <2>1, <2>3, <2>4, <2>5
<1>5. IsRecv(c, op.id, op.len, op.resize)
  <2>1. mRecvQueue[p] \in Seq(RecvOp)
    BY DEF TypeOK
  <2>2. op \in Held(mRecvQueue[p])
    BY <1>1, <2>1, HeldFacts
  <2> QED BY <1>2, <2>2 DEF Traced, AskedOnScript
<1>6. m.size = SizeOf(m.len) /\ IsSend(b, m.id, m.len)
  BY <1>0, <1>4 DEF Traced, SentOnScript
<1>7. PICK i \in 1 .. Len(c) : /\ c[i].fn \in Recvs /\ RecvNo(c, i) = op.id /\ c[i].len = op.len
                               /\ op.resize <=> c[i].fn = "recvBuf"
  BY <1>5 DEF IsRecv
<1>8. PICK j \in 1 .. Len(b) : b[j].fn \in Sends /\ SendNo(b, j) = m.id /\ b[j].len = m.len
  BY <1>6 DEF IsSend
<1>9. op.id = m.id
  BY <1>1, <1>3, <1>4
<1>10. op.resize \/ op.len = m.len
  <2> SUFFICES ASSUME ~op.resize PROVE op.len = m.len
    OBVIOUS
  <2>1. c[i].fn \in Recvs \ {"recvBuf"}
    BY <1>7
  <2>2. c[i].len = b[j].len
    BY <1>7, <1>8, <1>9, <2>1 DEF Matched
  <2> QED BY <1>7, <1>8, <2>2
<1>11. Short(s) => m.size = m.len
  <2> SUFFICES ASSUME Short(s) PROVE SizeOf(m.len) = m.len
    BY <1>6
  <2>1. m.len < U32
    BY <1>0, <1>8 DEF Short
  <2>2. m.len \in Nat
    BY <1>4 DEF Message
  <2> QED BY <2>1, <2>2, SizeOfShort
<1> QED BY <1>1, <1>3, <1>6, <1>10, <1>11

\* With matching scripts no receive meets a size that does not fit.
LEMMA NoMismatch ==
    ASSUME TypeOK, ChannelInv, NEW s \in Scripts, Matched(s), Traced(s), NEW p \in Party
    PROVE  ~ReadMismatch(p)
<1> SUFFICES ASSUME ReadMismatch(p) PROVE FALSE
  OBVIOUS
<1> DEFINE op == Head(mRecvQueue[p])
           m == Head(wire[Peer(p)])
<1>1. recvIO[p] = "header" /\ wire[Peer(p)] # <<>> /\ ~FitsBuffer(op, m.size)
  BY DEF ReadMismatch
<1>2. m.size = SizeOf(m.len) /\ (op.resize \/ op.len = m.len)
  <2>1. recvIO[p] \in {"header", "body"}
    BY <1>1
  <2>2. op = Head(mRecvQueue[p]) /\ m = Head(wire[Peer(p)])
    OBVIOUS
  <2> HIDE DEF op, m
  <2> QED BY <1>1, <2>1, <2>2, HeadsMatch
<1> QED BY <1>1, <1>2 DEF FitsBuffer

\* receiveOne starts a read, or fulfils the promise of close() when the queue
\* is empty behind it.
LEMMA StartDrives ==
    ASSUME TypeOK, ChannelInv', NEW p \in Party, NEW q \in Seq(RecvOp), q # <<>>, receiveOne(p, q),
           recvCount'[p] = recvCount[p], mStopped'[p] = mStopped[p],
           Head(q).type = "CloseRecv" => mStopped[p] /\ Head(q).id = recvCount[p]
    PROVE  /\ mRecvQueue'[p] # <<>> => recvIO'[p] # "idle"
           /\ \A k \in recvDone'[p] : k \in recvDone[p] \/ (mStopped[p] /\ k = recvCount[p])
<1>1. CASE Head(q).type = "RecvData"
  <2>1. recvIO'[p] = "header" /\ recvDone'[p] = recvDone[p]
    BY <1>1 DEF receiveOne, TypeOK
  <2> QED BY <2>1
<1>2. CASE Head(q).type = "CloseRecv"
  <2>1. recvDone'[p] = recvDone[p] \union {Head(q).id}
    BY <1>2 DEF receiveOne, TypeOK
  <2>2. mStopped'[p] /\ recvCount'[p] \in recvDone'[p]
    BY <1>2, <2>1
  <2>3. mRecvQueue'[p] = <<>>
    BY <2>2 DEF ChannelInv, RecvSide, RecvPromises, RecvDrained
  <2> QED BY <1>2, <2>1, <2>3
<1> QED BY <1>1, <1>2 DEF receiveOne

\* The two steps of the receive strand.
LEMMA StrandDrives ==
    ASSUME TypeOK, ChannelInv, ChannelInv', NEW p \in Party, RecvQueueDriven,
           PushRecv(p) \/ PopRecv(p)
    PROVE  /\ mRecvQueue'[p] # <<>> => recvIO'[p] # "idle"
           /\ \A k \in recvDone'[p] : k \in recvDone[p] \/ (mStopped[p] /\ k = recvCount[p])
<1>0. RecvOrder(p) /\ Alive(p) /\ recvCount'[p] = recvCount[p] /\ mStopped'[p] = mStopped[p]
  BY DEF ChannelInv, RecvSide, PushRecv, PopRecv, userVars
<1>1. CASE PushRecv(p)
  <2> DEFINE o == Head(recvPosted[p])
             r == mRecvQueue[p]
             q == Append(r, o)
  <2>1. recvPosted[p] \in Seq(RecvOp) /\ recvPosted[p] # <<>> /\ r \in Seq(RecvOp)
    BY <1>1 DEF PushRecv, TypeOK
  <2>2. o \in RecvOp /\ o = recvPosted[p][1] /\ 1 \in 1 .. Len(recvPosted[p])
    BY <2>1
  <2>3. o.type = "CloseRecv" => mStopped[p] /\ o.id = recvCount[p]
    BY <1>0, <2>2 DEF RecvOrder
  <2>4. \/ Len(q) = 1 /\ receiveOne(p, q)
        \/ Len(q) # 1 /\ recvIO'[p] = recvIO[p] /\ recvDone'[p] = recvDone[p]
    BY <1>1 DEF PushRecv
  <2> HIDE DEF o, r
  <2>5. /\ Len(r) \in Nat /\ q \in Seq(RecvOp) /\ q # <<>> /\ Len(q) = Len(r) + 1
        /\ q[Len(r) + 1] = o
    BY <2>1, <2>2, AppendFacts
  <2> HIDE DEF q
  <2>6. CASE Len(q) = 1
    <3>1. Head(q) = o
      BY <2>5, <2>6, TailFacts
    <3> QED BY <1>0, <2>3, <2>4, <2>5, <2>6, <3>1, StartDrives
  <2>7. CASE Len(q) # 1
    <3>1. r # <<>>
      BY <2>1, <2>5, <2>7, EmptySeq
    <3>2. recvIO[p] # "idle"
      BY <1>0, <3>1 DEF RecvQueueDriven, r
    <3> QED BY <2>4, <2>7, <3>2
  <2> QED BY <2>6, <2>7
<1>2. CASE PopRecv(p)
  <2> DEFINE r == mRecvQueue[p]
             q == Tail(r)
  <2>1. r \in Seq(RecvOp) /\ r # <<>>
    BY <1>2 DEF PopRecv, TypeOK, ChannelInv, RecvSide, RecvFront
  <2>2. \/ q # <<>> /\ receiveOne(p, q)
        \/ mRecvQueue'[p] = <<>> /\ recvDone'[p] = recvDone[p]
    BY <1>2 DEF PopRecv, TypeOK
  <2>3. \A i \in 1 .. Len(r) : r[i].type = "CloseRecv" => mStopped[p] /\ r[i].id = recvCount[p]
    BY <1>0 DEF RecvOrder
  <2> HIDE DEF r
  <2>4. /\ Len(r) \in Nat /\ q \in Seq(RecvOp) /\ Len(q) = Len(r) - 1
        /\ \A i \in 1 .. Len(r) - 1 : q[i] = r[i + 1]
    BY <2>1, TailFacts
  <2> HIDE DEF q
  <2>5. CASE q # <<>> /\ receiveOne(p, q)
    <3>1. Head(q) = q[1] /\ Len(q) >= 1
      BY <2>4, <2>5, TailFacts
    <3>2. 1 \in 1 .. Len(r) - 1 /\ 2 \in 1 .. Len(r) /\ 1 + 1 = 2
      BY <2>4, <3>1
    <3>3. Head(q) = r[2]
      BY <2>4, <3>1, <3>2
    <3>4. Head(q).type = "CloseRecv" => mStopped[p] /\ Head(q).id = recvCount[p]
      BY <2>3, <3>2, <3>3
    <3> QED BY <1>0, <2>4, <2>5, <3>4, StartDrives
  <2> QED BY <2>2, <2>5
<1> QED BY <1>1, <1>2

\* A queue of receives is never left with nobody to drive it.
LEMMA DrivenNext ==
    ASSUME TypeOK, ChannelInv, ChannelInv', NEW s \in Scripts, Matched(s), Traced(s),
           RecvQueueDriven, [Next]_vars
    PROVE  RecvQueueDriven'
<1> SUFFICES ASSUME NEW r \in Party, ctl'[r] # "dead", mRecvQueue'[r] # <<>>
             PROVE  recvIO'[r] # "idle"
  BY DEF RecvQueueDriven, Alive
<1>1. ctl[r] # "dead" /\ mRecvQueue[r] # <<>> => recvIO[r] # "idle"
  BY DEF RecvQueueDriven, Alive
<1>2. ASSUME mRecvQueue'[r] = mRecvQueue[r], recvIO'[r] = recvIO[r], ctl[r] # "dead"
      PROVE  recvIO'[r] # "idle"
  BY <1>1, <1>2
<1>3. ASSUME NEW p \in Party, UserStep(p) PROVE recvIO'[r] # "idle"
  <2>1. mRecvQueue'[r] = mRecvQueue[r] /\ recvIO'[r] = recvIO[r]
    BY <1>3 DEF UserStep, CallSend, CallRecv, CallThrows, CallWait, Return, Close, CloseReturn, recvVars
  <2>2. ctl[r] # "dead"
    <3>1. ctl[p] # "dead"
      BY <1>3 DEF UserStep, CallSend, CallRecv, CallThrows, CallWait, Return, Close, CloseReturn, Running
    <3>2. r # p => ctl'[r] = ctl[r]
      BY <1>3, PartyParts, UserElsewhere DEF Elsewhere
    <3> QED BY <3>1, <3>2
  <2> QED BY <1>2, <2>1, <2>2
<1>4. ASSUME NEW p \in Party, SendStep(p) PROVE recvIO'[r] # "idle"
  <2>1. mRecvQueue'[r] = mRecvQueue[r] /\ recvIO'[r] = recvIO[r]
    BY <1>4 DEF SendStep, PushSend, WriteHeader, WriteBody, PopSend, WriteError, recvVars
  <2>2. ctl[r] # "dead"
    <3>1. ctl[p] # "dead"
      BY <1>4 DEF SendStep, PushSend, WriteHeader, WriteBody, PopSend, WriteError, Alive
    <3>2. r # p => ctl'[r] = ctl[r]
      BY <1>4, PartyParts, SendElsewhere DEF Elsewhere
    <3> QED BY <3>1, <3>2
  <2> QED BY <1>2, <2>1, <2>2
<1>5. ASSUME NEW p \in Party, RecvStep(p) PROVE recvIO'[r] # "idle"
  <2>1. ctl[r] # "dead"
    <3>1. ctl[p] # "dead"
      BY <1>5 DEF RecvStep, PushRecv, ReadHeader, ReadMismatch, ReadBody, PopRecv, ReadError, Alive
    <3>2. r # p => ctl'[r] = ctl[r]
      BY <1>5, PartyParts, RecvElsewhere DEF Elsewhere
    <3> QED BY <3>1, <3>2
  <2>2. CASE r # p
    <3>1. mRecvQueue'[r] = mRecvQueue[r] /\ recvIO'[r] = recvIO[r]
      BY <1>5, <2>2, PartyParts, RecvElsewhere DEF Elsewhere
    <3> QED BY <1>2, <2>1, <3>1
  <2>3. CASE r = p
    <3>1. CASE PushRecv(p) \/ PopRecv(p)
      BY <2>3, <3>1, StrandDrives
    <3>2. CASE ReadHeader(p) \/ ReadBody(p)
      BY <2>3, <3>2 DEF ReadHeader, ReadBody, TypeOK
    <3>3. CASE ReadError(p)
      BY <1>2, <2>1, <3>3 DEF ReadError, recvVars
    <3>4. ~ReadMismatch(p)
      BY NoMismatch
    <3> QED BY <1>5, <3>1, <3>2, <3>3, <3>4 DEF RecvStep
  <2> QED BY <2>2, <2>3
<1>6. CASE UNCHANGED vars
  BY <1>1, <1>6 DEF vars, userVars, recvVars
<1> QED BY <1>3, <1>4, <1>5, <1>6 DEF Next, Finished

\* A future is ready only when its message is in the buffer.
LEMMA ReturnsNext ==
    ASSUME TypeOK, ChannelInv, ChannelInv', NEW s \in Scripts, Matched(s), Traced(s),
           RecvQueueDriven, RecvReturnsData, [Next]_vars
    PROVE  RecvReturnsData'
<1> SUFFICES ASSUME NEW r \in Party, NEW k \in recvDone'[r], k \in 1 .. recvCount'[r],
                    mStopped'[r] => k # recvCount'[r]
             PROVE  k <= Len(got'[r])
  BY DEF RecvReturnsData, DataRecvs
<1>0. /\ recvCount[r] \in Nat /\ Len(got[r]) \in Nat
      /\ \A i \in recvDone[r] : i <= recvCount[r] /\ i \in Nat
  <2>1. recvCount[r] \in Nat /\ got[r] \in Seq(Receipt) /\ recvDone[r] \in SUBSET Nat
    BY DEF TypeOK
  <2>2. \A i \in recvDone[r] : i <= recvCount[r]
    BY DEF ChannelInv, RecvSide, RecvPromises
  <2> QED BY <2>1, <2>2
<1>1. k \in recvDone[r] /\ k \in 1 .. recvCount[r] /\ (mStopped[r] => k # recvCount[r])
        => k <= Len(got[r])
  BY DEF RecvReturnsData, DataRecvs
<1>2. ASSUME recvDone'[r] = recvDone[r], got'[r] = got[r],
             (mStopped'[r] = mStopped[r] /\ recvCount'[r] = recvCount[r]) \/ ~mStopped[r]
      PROVE  k <= Len(got'[r])
  <2>1. k \in recvDone[r] /\ k \in 1 .. recvCount[r]
    BY <1>0, <1>2
  <2> QED BY <1>1, <1>2, <2>1
<1>3. ASSUME NEW p \in Party, UserStep(p) PROVE k <= Len(got'[r])
  <2>1. recvDone'[r] = recvDone[r] /\ got'[r] = got[r]
    BY <1>3 DEF UserStep, CallSend, CallRecv, CallThrows, CallWait, Return, Close, CloseReturn, recvVars
  <2>2. (mStopped'[r] = mStopped[r] /\ recvCount'[r] = recvCount[r]) \/ ~mStopped[r]
    <3>1. CASE CallRecv(p)
      <4>1. ~mStopped[p] /\ mStopped' = mStopped /\ (r # p => recvCount'[r] = recvCount[r])
        BY <3>1 DEF CallRecv, Running, TypeOK
      <4> QED BY <4>1
    <3>2. CASE Close(p)
      <4>1. ~mStopped[p] /\ (r # p => mStopped'[r] = mStopped[r] /\ recvCount'[r] = recvCount[r])
        BY <3>2 DEF Close, Running, TypeOK
      <4> QED BY <4>1
    <3>3. CASE CallSend(p) \/ CallThrows(p) \/ CallWait(p) \/ Return(p) \/ CloseReturn(p)
      BY <3>3 DEF CallSend, CallThrows, CallWait, Return, CloseReturn, recvVars
    <3> QED BY <1>3, <3>1, <3>2, <3>3 DEF UserStep
  <2> QED BY <1>2, <2>1, <2>2
<1>4. ASSUME NEW p \in Party, SendStep(p) PROVE k <= Len(got'[r])
  <2>1. /\ recvDone'[r] = recvDone[r] /\ got'[r] = got[r]
        /\ mStopped'[r] = mStopped[r] /\ recvCount'[r] = recvCount[r]
    BY <1>4 DEF SendStep, PushSend, WriteHeader, WriteBody, PopSend, WriteError, userVars, recvVars
  <2> QED BY <1>2, <2>1
<1>5. ASSUME NEW p \in Party, RecvStep(p) PROVE k <= Len(got'[r])
  <2>0. mStopped'[r] = mStopped[r] /\ recvCount'[r] = recvCount[r]
    BY <1>5 DEF RecvStep, PushRecv, ReadHeader, ReadMismatch, ReadBody, PopRecv, ReadError,
                userVars, recvVars
  <2>1. CASE r # p
    <3>1. recvDone'[r] = recvDone[r] /\ got'[r] = got[r]
      BY <1>5, <2>1, PartyParts, RecvElsewhere DEF Elsewhere
    <3> QED BY <1>2, <2>0, <3>1
  <2>2. CASE r = p
    <3>1. CASE PushRecv(p) \/ PopRecv(p)
      <4>1. k \in recvDone[r] \/ (mStopped[r] /\ k = recvCount[r])
        BY <2>2, <3>1, StrandDrives
      <4>2. got'[r] = got[r]
        BY <3>1 DEF PushRecv, PopRecv
      <4> QED BY <1>1, <2>0, <4>1, <4>2
    <3>2. CASE ReadHeader(p) \/ ReadError(p)
      <4>1. recvDone'[r] = recvDone[r] /\ got'[r] = got[r]
        BY <3>2 DEF ReadHeader, ReadError, recvVars
      <4> QED BY <1>2, <2>0, <4>1
    <3>3. ~ReadMismatch(p)
      BY NoMismatch
    <3>4. CASE ReadBody(p)
      <4> DEFINE op == Head(mRecvQueue[p])
                 m == Head(wire[Peer(p)])
                 e == [op |-> op.id, msg |-> m.id, want |-> op.len, len |-> m.len,
                       size |-> m.size, resize |-> op.resize]
      <4>1. Peer(p) \in Party /\ Peer(Peer(p)) = p
        BY PartyFacts
      <4>2. recvIO[p] \in {"header", "body"} /\ wire[Peer(p)] # <<>>
        BY <3>4, <4>1 DEF ReadBody, ChannelInv, Stream
      <4>3. op.id = Len(got[p]) + 1
        <5>1. op = Head(mRecvQueue[p]) /\ m = Head(wire[Peer(p)])
          OBVIOUS
        <5> HIDE DEF op, m
        <5> QED BY <4>2, <5>1, HeadsMatch
      <4>4. got'[p] = Append(got[p], e) /\ recvDone'[p] = recvDone[p] \union {op.id}
        BY <3>4 DEF ReadBody, TypeOK
      <4> HIDE DEF op, e
      <4>5. Len(got'[p]) = Len(got[p]) + 1
        <5>1. got[p] \in Seq(Receipt)
          BY DEF TypeOK
        <5> QED BY <4>4, <5>1
      <4>6. CASE k \in recvDone[r]
        <5>1. k <= Len(got[r])
          BY <1>1, <2>0, <4>6
        <5> QED BY <1>0, <2>2, <4>5, <5>1
      <4>7. CASE k = op.id
        BY <1>0, <2>2, <4>3, <4>5, <4>7
      <4> QED BY <2>2, <4>4, <4>6, <4>7
    <3> QED BY <1>5, <3>1, <3>2, <3>3, <3>4 DEF RecvStep
  <2> QED BY <2>1, <2>2
<1>6. CASE UNCHANGED vars
  BY <1>2, <1>6 DEF vars, userVars, recvVars
<1> QED BY <1>3, <1>4, <1>5, <1>6 DEF Next, Finished

\* What is stored has the length both users meant.
LEMMA LengthNext ==
    ASSUME TypeOK, ChannelInv, NEW s \in Scripts, Matched(s), Short(s), Traced(s),
           RecvLength, [Next]_vars
    PROVE  RecvLength'
<1> SUFFICES ASSUME NEW r \in Party, NEW k \in 1 .. Len(got'[r])
             PROVE  /\ got'[r][k].size = got'[r][k].len
                    /\ ~got'[r][k].resize => got'[r][k].size = got'[r][k].want
  BY DEF RecvLength
<1>1. CASE got'[r] = got[r]
  BY <1>1 DEF RecvLength
<1>2. ASSUME NEW p \in Party, UserStep(p) PROVE got'[r] = got[r]
  BY <1>2 DEF UserStep, CallSend, CallRecv, CallThrows, CallWait, Return, Close, CloseReturn, recvVars
<1>3. ASSUME NEW p \in Party, SendStep(p) PROVE got'[r] = got[r]
  BY <1>3 DEF SendStep, PushSend, WriteHeader, WriteBody, PopSend, WriteError, recvVars
<1>4. ASSUME NEW p \in Party, RecvStep(p), got'[r] # got[r] PROVE r = p /\ ReadBody(p)
  <2>1. ReadBody(p)
    BY <1>4 DEF RecvStep, PushRecv, ReadHeader, ReadMismatch, PopRecv, ReadError, recvVars
  <2>2. r = p
    BY <1>4, <2>1 DEF ReadBody, TypeOK
  <2> QED BY <2>1, <2>2
<1>5. CASE ReadBody(r)
  <2> DEFINE op == Head(mRecvQueue[r])
             m == Head(wire[Peer(r)])
             e == [op |-> op.id, msg |-> m.id, want |-> op.len, len |-> m.len,
                   size |-> m.size, resize |-> op.resize]
  <2>1. Peer(r) \in Party /\ Peer(Peer(r)) = r
    BY PartyFacts
  <2>2. recvIO[r] \in {"header", "body"} /\ wire[Peer(r)] # <<>>
    BY <1>5, <2>1 DEF ReadBody, ChannelInv, Stream
  <2>3. m.size = m.len /\ (op.resize \/ op.len = m.len)
    <3>1. op = Head(mRecvQueue[r]) /\ m = Head(wire[Peer(r)])
      OBVIOUS
    <3> HIDE DEF op, m
    <3> QED BY <2>2, <3>1, HeadsMatch
  <2>4. e.size = e.len /\ (~e.resize => e.size = e.want)
    BY <2>3
  <2>5. got'[r] = Append(got[r], e) /\ got[r] \in Seq(Receipt)
    BY <1>5 DEF ReadBody, TypeOK
  <2> HIDE DEF e
  <2>6. /\ Len(got[r]) \in Nat /\ Len(got'[r]) = Len(got[r]) + 1
        /\ \A i \in 1 .. Len(got[r]) : got'[r][i] = got[r][i]
        /\ got'[r][Len(got[r]) + 1] = e
    BY <2>5, AppendProperties
  <2>7. CASE k \in 1 .. Len(got[r])
    BY <2>6, <2>7 DEF RecvLength
  <2>8. CASE k = Len(got[r]) + 1
    BY <2>4, <2>6, <2>8
  <2> QED BY <2>6, <2>7, <2>8
<1>6. CASE UNCHANGED vars
  BY <1>1, <1>6 DEF vars, recvVars
<1> QED BY <1>1, <1>2, <1>3, <1>4, <1>5, <1>6 DEF Next, Finished

\* The invariant of two users whose calls match: every operation and message
\* can be traced to its call, receives are driven and futures hold data.
THEOREM AgreedInvariance == Spec /\ Matched(script) => []AgreedInv
<1>1. Init /\ Matched(script) => AgreedInv
  <2> SUFFICES ASSUME Init, Matched(script) PROVE AgreedInv
    OBVIOUS
  <2>1. script \in Scripts /\ Traced(script)
    BY TracedInit
  <2>2. RecvQueueDriven /\ RecvReturnsData
    BY DEF Init, RecvQueueDriven, RecvReturnsData
  <2> QED BY <2>1, <2>2 DEF AgreedInv
<1>2. TypeOK /\ ChannelInv /\ AgreedInv /\ [Next]_vars => AgreedInv'
  <2> SUFFICES ASSUME TypeOK, ChannelInv, AgreedInv, [Next]_vars PROVE AgreedInv'
    OBVIOUS
  <2>1. PICK s \in Scripts : Matched(s) /\ Traced(s) /\ RecvQueueDriven /\ RecvReturnsData
    BY DEF AgreedInv
  <2>2. ChannelInv'
    BY NextInv
  <2>3. Traced(s)'
    BY <2>1, TracedNext
  <2>4. RecvQueueDriven'
    BY <2>1, <2>2, DrivenNext
  <2>5. RecvReturnsData'
    BY <2>1, <2>2, ReturnsNext
  <2> QED BY <2>1, <2>3, <2>4, <2>5 DEF AgreedInv
<1> QED BY <1>1, <1>2, ChannelInvariance, PTL DEF Spec

\* With matching calls the receive queue of dispatch and receiveOne is never
\* left with nobody to drive it.
THEOREM RecvQueueDrivenHolds == Spec /\ Matched(script) => []RecvQueueDriven
<1>1. AgreedInv => RecvQueueDriven
  BY DEF AgreedInv
<1> QED BY <1>1, AgreedInvariance, PTL

\* With matching calls a future of recv is ready only with its message.
THEOREM RecvReturnsDataHolds == Spec /\ Matched(script) => []RecvReturnsData
<1>1. AgreedInv => RecvReturnsData
  BY DEF AgreedInv
<1> QED BY <1>1, AgreedInvariance, PTL

\* With matching calls of less than 2^32 bytes, the headers of sendOne and
\* receiveOne make every receive store the length both users meant.
THEOREM RecvLengthHolds == Spec /\ Matched(script) /\ Short(script) => []RecvLength
<1>1. Init /\ Matched(script) /\ Short(script) => ExactInv
  <2> SUFFICES ASSUME Init, Matched(script), Short(script) PROVE ExactInv
    OBVIOUS
  <2>1. script \in Scripts /\ Traced(script)
    BY TracedInit
  <2>2. RecvLength
    BY DEF Init, RecvLength
  <2> QED BY <2>1, <2>2 DEF ExactInv
<1>2. TypeOK /\ ChannelInv /\ ExactInv /\ [Next]_vars => ExactInv'
  <2> SUFFICES ASSUME TypeOK, ChannelInv, ExactInv, [Next]_vars PROVE ExactInv'
    OBVIOUS
  <2>1. PICK s \in Scripts : Matched(s) /\ Short(s) /\ Traced(s) /\ RecvLength
    BY DEF ExactInv
  <2>2. Traced(s)' /\ RecvLength'
    BY <2>1, TracedNext, LengthNext
  <2> QED BY <2>1, <2>2 DEF ExactInv
<1>3. ExactInv => RecvLength
  BY DEF ExactInv
<1> QED BY <1>1, <1>2, <1>3, ChannelInvariance, PTL DEF Spec
=============================================================================
