---------------------------- MODULE ConnectProofs ----------------------------
(***************************************************************************)
(* The safety of the set-up and of the teardown, for every number of       *)
(* channels and of attempts.                                               *)
(***************************************************************************)
EXTENDS Connect, SequenceTheorems, TLAPS

-----------------------------------------------------------------------------
(* The inductive invariant.                                                *)

\* The promise is set by the end of the accept loop, which is started once and
\* ends for good; the acceptor is freed after that.
LoopInv ==
    /\ host = "start" => acc = "none"
    /\ stoppedSet = IF acc = "ended" THEN 1 ELSE 0
    /\ host = "done" => acc = "ended"

\* A channel is connected once: what waits in the backlog has no handshake
\* yet, and neither has what the client still has to connect.
QueueInv ==
    /\ client = "connect" => tries <= MaxTries
    /\ \A i \in 1 .. Len(backlog) : shake[backlog[i]] = "none"
    /\ \A i, j \in 1 .. Len(backlog) : backlog[i] = backlog[j] => i = j
    /\ client = "connect" =>
          \A c \in Channel : c >= clientCh =>
              shake[c] = "none" /\ \A i \in 1 .. Len(backlog) : backlog[i] # c

\* The host has the sockets of the channels behind it, and a promise is set
\* just when the handshake is over.
ReadyInv ==
    /\ \A c \in Channel : filled[c] # 0 <=> shake[c] = "done"
    /\ \A c \in Channel : c < hostCh => filled[c] # 0
    /\ host \in {"run", "close", "stop", "free", "done"} => \A c \in Channel : filled[c] # 0

\* Who inserts holds the mutex and has found no entry; who is past the search
\* has one; and there is never more than one but for a lookup that missed it.
MapInv ==
    /\ host = "insert" => inserting = User /\ entries[hostCh] = 0
    /\ host \in {"lookup", "wait"} => entries[hostCh] > 0
    /\ host = "wait" => future \in 1 .. entries[hostCh]
    /\ \A c \in Channel :
          /\ shake[c] = "insert" => inserting = c /\ entries[c] = 0
          /\ shake[c] = "set" => entries[c] > 0
          /\ filled[c] <= entries[c]
          /\ c \notin missed => entries[c] <= 1

ConnInv == TypeOK /\ LoopInv /\ QueueInv /\ ReadyInv /\ MapInv

LEMMA ChannelInt == NumCh \in Nat /\ MaxTries \in Nat /\ Channel \subseteq Nat /\ 1 \in Channel
BY ConnectAssumption DEF Channel

LEMMA Holders ==
    /\ Free \in Free .. User /\ User \in Free .. User /\ Channel \subseteq Free .. User
    /\ Free \notin Channel /\ User \notin Channel /\ Free # User
BY ChannelInt DEF Channel, Free, User

LEMMA InitConn == Init => ConnInv
<1> SUFFICES ASSUME Init PROVE ConnInv
  OBVIOUS
<1>1. TypeOK
  <2>1. Free \in Free .. User /\ 0 \in 0 .. MaxTries + 1
    BY ChannelInt DEF Free, User
  <2>2. <<>> \in Seq(Channel)
    OBVIOUS
  <2> QED BY ChannelInt, <2>1, <2>2 DEF Init, TypeOK
<1>2. LoopInv /\ MapInv
  BY DEF Init, LoopInv, MapInv
<1>3. QueueInv
  BY ChannelInt DEF Init, QueueInv
<1>4. ReadyInv
  BY ChannelInt DEF Init, ReadyInv, Channel
<1> QED BY <1>1, <1>2, <1>3, <1>4 DEF ConnInv

LEMMA HostStartConn ==
    ASSUME ConnInv, HostStart
    PROVE  ConnInv'
<1> USE ChannelInt DEF ConnInv
<1>1. TypeOK'
  BY DEF HostStart, TypeOK, hostVars, clientVars, accVars, mapVars
<1>2. LoopInv'
  BY DEF HostStart, TypeOK, LoopInv, hostVars, clientVars, accVars, mapVars
<1>3. QueueInv'
  BY DEF HostStart, TypeOK, QueueInv, hostVars, clientVars, accVars, mapVars
<1>4. ReadyInv'
  BY DEF HostStart, TypeOK, ReadyInv, hostVars, clientVars, accVars, mapVars
<1>5. MapInv'
  BY DEF HostStart, TypeOK, MapInv, hostVars, clientVars, accVars, mapVars
<1> QED BY <1>1, <1>2, <1>3, <1>4, <1>5

LEMMA BindFailsConn ==
    ASSUME ConnInv, BindFails
    PROVE  ConnInv'
<1> USE ChannelInt DEF ConnInv
<1>1. TypeOK'
  BY DEF BindFails, TypeOK, hostVars, clientVars, accVars, mapVars
<1>2. LoopInv'
  BY DEF BindFails, TypeOK, LoopInv, hostVars, clientVars, accVars, mapVars
<1>3. QueueInv'
  BY DEF BindFails, TypeOK, QueueInv, hostVars, clientVars, accVars, mapVars
<1>4. ReadyInv'
  BY DEF BindFails, TypeOK, ReadyInv, hostVars, clientVars, accVars, mapVars
<1>5. MapInv'
  BY DEF BindFails, TypeOK, MapInv, hostVars, clientVars, accVars, mapVars
<1> QED BY <1>1, <1>2, <1>3, <1>4, <1>5

LEMMA HostFindConn ==
    ASSUME ConnInv, HostFind
    PROVE  ConnInv'
<1> USE ChannelInt, Holders DEF ConnInv
<1>1. /\ UNCHANGED <<hostCh, client, clientCh, tries, chans, listening, backlog, acc, accStopped>>
      /\ UNCHANGED <<stoppedSet, shake, entries, filled, future, missed, misread>>
      /\ host = "find" /\ inserting = Free /\ hostCh \in Channel
  BY DEF HostFind, TypeOK, clientVars, accVars
<1>2. \/ host' = "lookup" /\ inserting' = inserting /\ entries[hostCh] > 0
      \/ host' = "insert" /\ inserting' = User /\ entries[hostCh] = 0
  BY DEF HostFind
<1>3. TypeOK'
  BY <1>1, <1>2 DEF TypeOK
<1>4. LoopInv' /\ QueueInv' /\ ReadyInv'
  BY <1>1, <1>2 DEF LoopInv, QueueInv, ReadyInv
<1>5. MapInv'
  BY <1>1, <1>2 DEF MapInv
<1> QED BY <1>3, <1>4, <1>5

LEMMA HostInsertConn ==
    ASSUME ConnInv, HostInsert
    PROVE  ConnInv'
<1> USE ChannelInt, Holders DEF ConnInv
<1>1. /\ UNCHANGED <<hostCh, client, clientCh, tries, chans, listening, backlog, acc, accStopped>>
      /\ UNCHANGED <<stoppedSet, shake, filled, future, missed, misread>>
      /\ host = "insert" /\ host' = "lookup" /\ inserting' = Free /\ hostCh \in Channel
      /\ entries' = [entries EXCEPT ![hostCh] = @ + 1] /\ entries \in [Channel -> Nat]
      /\ filled \in [Channel -> Nat]
  BY DEF HostInsert, File, TypeOK, clientVars, accVars
<1>2. inserting = User /\ entries[hostCh] = 0
  BY <1>1 DEF MapInv
<1>3. TypeOK'
  <2>1. entries' \in [Channel -> Nat]
    BY <1>1
  <2>2. inserting' \in Free .. User
    BY <1>1
  <2> QED BY <1>1, <2>1, <2>2 DEF TypeOK
<1>4. LoopInv' /\ QueueInv' /\ ReadyInv'
  BY <1>1 DEF LoopInv, QueueInv, ReadyInv
<1>5. MapInv'
  <2>1. \A c \in Channel : shake[c] # "insert"
    BY <1>2 DEF MapInv
  <2>2. entries'[hostCh] = 1 /\ \A c \in Channel \ {hostCh} : entries'[c] = entries[c]
    BY <1>1, <1>2
  <2>3. \A c \in Channel : filled[c] <= entries'[c]
    BY <1>1, <1>2, <2>2 DEF MapInv
  <2> QED BY <1>1, <2>1, <2>2, <2>3 DEF MapInv
<1> QED BY <1>3, <1>4, <1>5

\* A lookup returns an entry of its name; it files one more at most, and
\* then the name is marked.
LEMMA LookupType ==
    ASSUME ConnInv, NEW c \in Channel, NEW e \in 1 .. entries[c] + 1, Lookup(c, e)
    PROVE  /\ entries' \in [Channel -> Nat] /\ entries'[c] >= e
           /\ \A d \in Channel : entries'[d] >= entries[d]
           /\ \A d \in Channel : d \notin missed' => d \notin missed /\ entries'[d] = entries[d]
           /\ missed' \subseteq Channel
           /\ \A d \in Channel \ {c} : entries'[d] = entries[d]
<1>1. entries \in [Channel -> Nat] /\ missed \subseteq Channel /\ e \in Nat
  BY DEF ConnInv, TypeOK
<1>2. CASE e \in 1 .. entries[c] /\ UNCHANGED <<entries, missed>>
  BY <1>1, <1>2
<1>3. CASE e = entries[c] + 1 /\ File(c) /\ missed' = missed \union {c}
  BY <1>1, <1>3 DEF File
<1> QED BY <1>2, <1>3 DEF Lookup

LEMMA HostLookupConn ==
    ASSUME ConnInv, HostLookup
    PROVE  ConnInv'
<1> USE ChannelInt DEF ConnInv
<1>1. UNCHANGED <<hostCh, clientVars, chans, accVars, shake, inserting, filled, misread>>
  BY DEF HostLookup
<1>2. CASE inserting # Free /\ host' = "dead" /\ UNCHANGED <<entries, future, missed>>
  <2>1. TypeOK'
    BY <1>1, <1>2 DEF TypeOK, clientVars, accVars
  <2>2. LoopInv' /\ QueueInv'
    BY <1>1, <1>2 DEF LoopInv, QueueInv, clientVars, accVars
  <2>3. ReadyInv' /\ MapInv'
    BY <1>1, <1>2 DEF ReadyInv, MapInv
  <2> QED BY <2>1, <2>2, <2>3
<1>3. ASSUME NEW e \in 1 .. entries[hostCh] + 1, Lookup(hostCh, e), future' = e, host' = "wait"
      PROVE  ConnInv'
  <2>1. /\ host = "lookup" /\ hostCh \in Channel /\ entries[hostCh] \in Nat \ {0} /\ e \in Nat
        /\ entries \in [Channel -> Nat] /\ filled \in [Channel -> Nat]
    BY <1>3 DEF HostLookup, TypeOK, MapInv
  <2>2. /\ entries' \in [Channel -> Nat] /\ entries'[hostCh] >= e
        /\ \A d \in Channel : entries'[d] >= entries[d]
        /\ \A d \in Channel : d \notin missed' => d \notin missed /\ entries'[d] = entries[d]
        /\ missed' \subseteq Channel
        /\ \A d \in Channel \ {hostCh} : entries'[d] = entries[d]
    BY <1>3, <2>1, LookupType
  <2>3. TypeOK'
    BY <1>1, <1>3, <2>1, <2>2 DEF TypeOK, clientVars, accVars
  <2>4. LoopInv' /\ QueueInv' /\ ReadyInv'
    BY <1>1, <1>3 DEF TypeOK, LoopInv, QueueInv, ReadyInv, clientVars, accVars
  <2>5. MapInv'
    <3>1. \A d \in Channel : filled[d] <= entries'[d]
      BY <2>1, <2>2 DEF MapInv
    <3>2. \A d \in Channel : shake[d] = "insert" => d # hostCh
      BY <2>1 DEF MapInv
    <3> QED BY <1>1, <1>3, <2>1, <2>2, <3>1, <3>2 DEF MapInv
  <2> QED BY <2>3, <2>4, <2>5
<1> QED BY <1>2, <1>3 DEF HostLookup

LEMMA HostTakeConn ==
    ASSUME ConnInv, HostTake
    PROVE  ConnInv'
<1> USE ChannelInt DEF ConnInv
<1>1. /\ UNCHANGED <<client, clientCh, tries, listening, backlog, acc, accStopped, stoppedSet>>
      /\ UNCHANGED <<shake, inserting, entries, filled, future, missed, misread>>
      /\ host = "wait" /\ filled[hostCh] = future /\ hostCh \in Channel
  BY DEF HostTake, TypeOK, clientVars, accVars, mapVars
<1>2. \/ hostCh < NumCh /\ host' = "find" /\ hostCh' = hostCh + 1
         /\ chans' = [chans EXCEPT ![0] = @ \union {hostCh + 1}]
      \/ hostCh = NumCh /\ host' = "run" /\ hostCh' = hostCh /\ chans' = chans
  BY DEF HostTake
<1>3. hostCh' \in Channel
  BY <1>1, <1>2 DEF Channel
<1>4. chans' \in [{0, 1} -> SUBSET Channel]
  BY <1>2, <1>3 DEF TypeOK
<1>5. TypeOK'
  BY <1>1, <1>2, <1>3, <1>4 DEF TypeOK
<1>6. LoopInv' /\ QueueInv'
  BY <1>1, <1>2 DEF LoopInv, QueueInv
<1>7. ReadyInv'
  <2>1. filled[hostCh] # 0
    BY <1>1 DEF MapInv, TypeOK
  <2>2. \A c \in Channel : c <= hostCh => filled[c] # 0
    BY <1>1, <2>1 DEF ReadyInv
  <2>3. CASE host' = "find" /\ hostCh' = hostCh + 1
    BY <1>1, <2>2, <2>3 DEF ReadyInv
  <2>4. CASE hostCh = NumCh /\ host' = "run" /\ hostCh' = hostCh
    BY <1>1, <2>2, <2>4 DEF ReadyInv, Channel
  <2> QED BY <1>2, <2>3, <2>4
<1>8. MapInv'
  BY <1>1, <1>2 DEF MapInv
<1> QED BY <1>5, <1>6, <1>7, <1>8

LEMMA HostCloseConn ==
    ASSUME ConnInv, HostClose
    PROVE  ConnInv'
<1> USE ChannelInt DEF ConnInv
<1>1. TypeOK'
  BY DEF HostClose, TypeOK, hostVars, clientVars, accVars, mapVars
<1>2. LoopInv'
  BY DEF HostClose, TypeOK, LoopInv, hostVars, clientVars, accVars, mapVars
<1>3. QueueInv'
  BY DEF HostClose, TypeOK, QueueInv, hostVars, clientVars, accVars, mapVars
<1>4. ReadyInv'
  BY DEF HostClose, TypeOK, ReadyInv, hostVars, clientVars, accVars, mapVars
<1>5. MapInv'
  BY DEF HostClose, TypeOK, MapInv, hostVars, clientVars, accVars, mapVars
<1> QED BY <1>1, <1>2, <1>3, <1>4, <1>5

LEMMA HostStopConn ==
    ASSUME ConnInv, HostStop
    PROVE  ConnInv'
<1> USE ChannelInt DEF ConnInv
<1>1. TypeOK'
  BY DEF HostStop, TypeOK, hostVars, clientVars, accVars, mapVars
<1>2. LoopInv'
  BY DEF HostStop, TypeOK, LoopInv, hostVars, clientVars, accVars, mapVars
<1>3. QueueInv'
  BY DEF HostStop, TypeOK, QueueInv, hostVars, clientVars, accVars, mapVars
<1>4. ReadyInv'
  BY DEF HostStop, TypeOK, ReadyInv, hostVars, clientVars, accVars, mapVars
<1>5. MapInv'
  BY DEF HostStop, TypeOK, MapInv, hostVars, clientVars, accVars, mapVars
<1> QED BY <1>1, <1>2, <1>3, <1>4, <1>5

LEMMA HostFreeConn ==
    ASSUME ConnInv, HostFree
    PROVE  ConnInv'
<1> USE ChannelInt DEF ConnInv
<1>1. TypeOK'
  BY DEF HostFree, TypeOK, hostVars, clientVars, accVars, mapVars
<1>2. LoopInv'
  BY DEF HostFree, TypeOK, LoopInv, hostVars, clientVars, accVars, mapVars
<1>3. QueueInv'
  BY DEF HostFree, TypeOK, QueueInv, hostVars, clientVars, accVars, mapVars
<1>4. ReadyInv'
  BY DEF HostFree, TypeOK, ReadyInv, hostVars, clientVars, accVars, mapVars
<1>5. MapInv'
  BY DEF HostFree, TypeOK, MapInv, hostVars, clientVars, accVars, mapVars
<1> QED BY <1>1, <1>2, <1>3, <1>4, <1>5

LEMMA AccCheckConn ==
    ASSUME ConnInv, AccCheck
    PROVE  ConnInv'
<1> USE ChannelInt DEF ConnInv
<1>1. TypeOK'
  <2>1. stoppedSet' \in Nat /\ acc' \in {"arm", "ended"}
    BY DEF AccCheck, TypeOK
  <2>2. UNCHANGED <<hostVars, clientVars, chans, listening, backlog, accStopped, shake, mapVars, misread>>
    BY DEF AccCheck
  <2> QED BY <2>1, <2>2 DEF TypeOK, hostVars, clientVars, mapVars
<1>2. LoopInv'
  BY DEF AccCheck, TypeOK, LoopInv, hostVars, clientVars, accVars, mapVars
<1>3. QueueInv'
  BY DEF AccCheck, TypeOK, QueueInv, hostVars, clientVars, accVars, mapVars
<1>4. ReadyInv'
  BY DEF AccCheck, TypeOK, ReadyInv, hostVars, clientVars, accVars, mapVars
<1>5. MapInv'
  BY DEF AccCheck, TypeOK, MapInv, hostVars, clientVars, accVars, mapVars
<1> QED BY <1>1, <1>2, <1>3, <1>4, <1>5

LEMMA AccArmConn ==
    ASSUME ConnInv, AccArm
    PROVE  ConnInv'
<1> USE ChannelInt DEF ConnInv
<1>1. TypeOK'
  BY DEF AccArm, TypeOK, hostVars, clientVars, accVars, mapVars
<1>2. LoopInv'
  BY DEF AccArm, TypeOK, LoopInv, hostVars, clientVars, accVars, mapVars
<1>3. QueueInv'
  BY DEF AccArm, TypeOK, QueueInv, hostVars, clientVars, accVars, mapVars
<1>4. ReadyInv'
  BY DEF AccArm, TypeOK, ReadyInv, hostVars, clientVars, accVars, mapVars
<1>5. MapInv'
  BY DEF AccArm, TypeOK, MapInv, hostVars, clientVars, accVars, mapVars
<1> QED BY <1>1, <1>2, <1>3, <1>4, <1>5

LEMMA AcceptConn ==
    ASSUME ConnInv, Accept
    PROVE  ConnInv'
<1> USE ChannelInt DEF ConnInv
<1>1. TypeOK'
  <2>1. Head(backlog) \in Channel /\ Tail(backlog) \in Seq(Channel)
    BY DEF Accept, TypeOK
  <2>2. shake' \in [Channel -> {"none", "header", "body", "find", "insert", "set", "done", "lost"}]
    BY <2>1 DEF Accept, TypeOK
  <2>3. backlog' \in Seq(Channel) /\ acc' = "check"
    BY <2>1 DEF Accept
  <2> QED BY <2>2, <2>3 DEF Accept, TypeOK, hostVars, clientVars, mapVars
<1>2. LoopInv'
  BY DEF Accept, TypeOK, LoopInv, hostVars, clientVars, accVars, mapVars
<1>3. QueueInv'
  <2>1. /\ Head(backlog) = backlog[1] /\ 1 \in 1 .. Len(backlog)
        /\ Len(backlog') = Len(backlog) - 1 /\ Len(backlog) \in Nat
        /\ \A i \in 1 .. Len(backlog') : backlog'[i] = backlog[i + 1]
        /\ \A i \in 1 .. Len(backlog) : backlog[i] \in Channel
    BY DEF Accept, TypeOK
  <2>2. \A d \in Channel : d # backlog[1] => shake'[d] = shake[d]
    BY <2>1 DEF Accept, TypeOK
  <2>3. UNCHANGED <<client, clientCh, tries>>
    BY DEF Accept, clientVars
  <2>4. \A i \in 1 .. Len(backlog') :
           i + 1 \in 1 .. Len(backlog) /\ backlog[i + 1] \in Channel /\ backlog[i + 1] # backlog[1]
    BY <2>1 DEF QueueInv
  <2>5. \A i \in 1 .. Len(backlog') : shake'[backlog'[i]] = "none"
    <3>1. \A j \in 1 .. Len(backlog) : shake[backlog[j]] = "none"
      BY DEF QueueInv
    <3> SUFFICES ASSUME NEW i \in 1 .. Len(backlog') PROVE shake'[backlog'[i]] = "none"
      OBVIOUS
    <3>2. backlog'[i] = backlog[i + 1] /\ i + 1 \in 1 .. Len(backlog)
      BY <2>1, <2>4
    <3>3. shake'[backlog[i + 1]] = shake[backlog[i + 1]]
      BY <2>2, <2>4
    <3>4. shake[backlog[i + 1]] = "none"
      BY <3>1, <3>2
    <3> QED BY <3>2, <3>3, <3>4
  <2>6. \A i, j \in 1 .. Len(backlog') : backlog'[i] = backlog'[j] => i = j
    BY <2>1, <2>4 DEF QueueInv
  <2>7. client = "connect" =>
           \A d \in Channel : d >= clientCh =>
               shake'[d] = "none" /\ \A i \in 1 .. Len(backlog') : backlog'[i] # d
    <3> SUFFICES ASSUME client = "connect", NEW d \in Channel, d >= clientCh
                 PROVE  shake'[d] = "none" /\ \A i \in 1 .. Len(backlog') : backlog'[i] # d
      OBVIOUS
    <3>1. shake[d] = "none" /\ \A i \in 1 .. Len(backlog) : backlog[i] # d
      BY DEF QueueInv
    <3> QED BY <2>1, <2>2, <2>4, <3>1
  <2> QED BY <2>3, <2>5, <2>6, <2>7 DEF QueueInv
<1>4. ReadyInv'
  <2>1. Head(backlog) = backlog[1] /\ 1 \in 1 .. Len(backlog) /\ Head(backlog) \in Channel
    BY DEF Accept, TypeOK
  <2>2. shake[Head(backlog)] = "none"
    BY <2>1 DEF QueueInv
  <2>3. UNCHANGED <<host, hostCh, filled>> /\ shake' = [shake EXCEPT ![Head(backlog)] = "header"]
    BY DEF Accept, hostVars, clientVars, accVars, mapVars
  <2> QED BY <2>2, <2>3 DEF TypeOK, ReadyInv
<1>5. MapInv'
  BY DEF Accept, TypeOK, MapInv, hostVars, clientVars, accVars, mapVars
<1> QED BY <1>1, <1>2, <1>3, <1>4, <1>5

LEMMA AcceptAbortedConn ==
    ASSUME ConnInv, AcceptAborted
    PROVE  ConnInv'
<1> USE ChannelInt DEF ConnInv
<1>1. TypeOK'
  BY DEF AcceptAborted, TypeOK, hostVars, clientVars, accVars, mapVars
<1>2. LoopInv'
  BY DEF AcceptAborted, TypeOK, LoopInv, hostVars, clientVars, accVars, mapVars
<1>3. QueueInv'
  BY DEF AcceptAborted, TypeOK, QueueInv, hostVars, clientVars, accVars, mapVars
<1>4. ReadyInv'
  BY DEF AcceptAborted, TypeOK, ReadyInv, hostVars, clientVars, accVars, mapVars
<1>5. MapInv'
  BY DEF AcceptAborted, TypeOK, MapInv, hostVars, clientVars, accVars, mapVars
<1> QED BY <1>1, <1>2, <1>3, <1>4, <1>5

LEMMA ReadNameConn ==
    ASSUME NEW c \in Channel, ConnInv, ReadName(c)
    PROVE  ConnInv'
<1> USE ChannelInt DEF ConnInv
<1>1. TypeOK'
  <2>1. UNCHANGED <<hostCh, clientVars, chans, accVars, mapVars>>
    BY DEF ReadName
  <2>2. (host' = host \/ host' = "dead")
        /\ (misread' = misread \/ misread' = misread \union {c})
    BY DEF ReadName, BadName
  <2>3. shake' = shake \/ \E v \in {"body", "find", "lost"} : shake' = [shake EXCEPT ![c] = v]
    BY DEF ReadName, BadName, TypeOK
  <2>4. shake' \in [Channel -> {"none", "header", "body", "find", "insert", "set", "done", "lost"}]
    BY <2>3 DEF TypeOK
  <2>5. misread' \subseteq Channel
    BY <2>2 DEF TypeOK
  <2>6. host' \in {"start", "find", "insert", "lookup", "wait", "run",
                   "close", "stop", "free", "done", "dead"}
    BY <2>2 DEF TypeOK
  <2> QED BY <2>1, <2>4, <2>5, <2>6 DEF TypeOK, hostVars, clientVars, accVars, mapVars
<1>2. LoopInv'
  <2>1. UNCHANGED <<acc, stoppedSet>> /\ (host' = host \/ host' = "dead")
    BY DEF ReadName, BadName, accVars
  <2> QED BY <2>1 DEF LoopInv
<1>3. QueueInv'
  <2>1. UNCHANGED <<client, clientCh, tries, backlog>> /\ shake[c] \in {"header", "body"}
    BY DEF ReadName, clientVars, accVars
  <2>2. \A e \in Channel : shake[e] = "none" => shake'[e] = "none"
    BY <2>1 DEF ReadName, BadName, TypeOK
  <2>3. \A i \in 1 .. Len(backlog) : backlog[i] \in Channel
    BY DEF TypeOK
  <2> QED BY <2>1, <2>2, <2>3 DEF QueueInv
<1>4. ReadyInv'
  BY DEF ReadName, BadName, TypeOK, hostVars, clientVars, accVars, mapVars, ReadyInv
<1>5. MapInv'
  BY DEF ReadName, BadName, TypeOK, hostVars, clientVars, accVars, mapVars, MapInv
<1> QED BY <1>1, <1>2, <1>3, <1>4, <1>5

LEMMA NameFindConn ==
    ASSUME NEW c \in Channel, ConnInv, NameFind(c)
    PROVE  ConnInv'
<1> USE ChannelInt, Holders DEF ConnInv
<1>1. /\ UNCHANGED <<host, hostCh, client, clientCh, tries, chans, listening, backlog, acc>>
      /\ UNCHANGED <<accStopped, stoppedSet, entries, filled, future, missed, misread>>
      /\ shake[c] = "find" /\ inserting = Free /\ hostCh \in Channel
  BY DEF NameFind, TypeOK, hostVars, clientVars, accVars
<1>2. \/ shake' = [shake EXCEPT ![c] = "set"] /\ inserting' = inserting /\ entries[c] > 0
      \/ shake' = [shake EXCEPT ![c] = "insert"] /\ inserting' = c /\ entries[c] = 0
  BY DEF NameFind
<1>3. TypeOK'
  <2>1. shake' \in [Channel -> {"none", "header", "body", "find", "insert", "set", "done", "lost"}]
    BY <1>2 DEF TypeOK
  <2>2. inserting' \in Free .. User
    BY <1>2 DEF TypeOK
  <2> QED BY <1>1, <2>1, <2>2, Zenon DEF TypeOK
<1>4. LoopInv'
  BY <1>1 DEF LoopInv
<1>5. QueueInv'
  <2>1. \A e \in Channel : shake[e] = "none" => shake'[e] = "none"
    BY <1>1, <1>2 DEF TypeOK
  <2>2. \A i \in 1 .. Len(backlog) : backlog[i] \in Channel
    BY DEF TypeOK
  <2> QED BY <1>1, <2>1, <2>2 DEF QueueInv
<1>6. ReadyInv'
  BY <1>1, <1>2 DEF TypeOK, ReadyInv
<1>7. MapInv'
  BY <1>1, <1>2 DEF TypeOK, MapInv
<1> QED BY <1>3, <1>4, <1>5, <1>6, <1>7

LEMMA NameInsertConn ==
    ASSUME NEW c \in Channel, ConnInv, NameInsert(c)
    PROVE  ConnInv'
<1> USE ChannelInt, Holders DEF ConnInv
<1>1. /\ UNCHANGED <<host, hostCh, client, clientCh, tries, chans, listening, backlog, acc>>
      /\ UNCHANGED <<accStopped, stoppedSet, filled, future, missed, misread>>
      /\ shake[c] = "insert" /\ shake' = [shake EXCEPT ![c] = "set"] /\ inserting' = Free
      /\ entries' = [entries EXCEPT ![c] = @ + 1] /\ entries \in [Channel -> Nat]
      /\ filled \in [Channel -> Nat] /\ hostCh \in Channel
  BY DEF NameInsert, File, TypeOK, hostVars, clientVars, accVars
<1>2. inserting = c /\ entries[c] = 0
  BY <1>1 DEF MapInv
<1>3. TypeOK'
  <2>1. entries' \in [Channel -> Nat]
    BY <1>1
  <2>2. inserting' \in Free .. User
    BY <1>1
  <2>3. shake' \in [Channel -> {"none", "header", "body", "find", "insert", "set", "done", "lost"}]
    BY <1>1 DEF TypeOK
  <2> QED BY <1>1, <2>1, <2>2, <2>3, Zenon DEF TypeOK
<1>4. LoopInv'
  BY <1>1 DEF LoopInv
<1>5. QueueInv'
  <2>1. \A e \in Channel : shake[e] = "none" => shake'[e] = "none"
    BY <1>1 DEF TypeOK
  <2>2. \A i \in 1 .. Len(backlog) : backlog[i] \in Channel
    BY DEF TypeOK
  <2> QED BY <1>1, <2>1, <2>2 DEF QueueInv
<1>6. ReadyInv'
  BY <1>1 DEF TypeOK, ReadyInv
<1>7. MapInv'
  <2>1. host # "insert" /\ \A d \in Channel : shake'[d] # "insert"
    BY <1>1, <1>2 DEF TypeOK, MapInv
  <2>2. entries'[c] = 1 /\ \A d \in Channel \ {c} : entries'[d] = entries[d]
    BY <1>1, <1>2
  <2>3. \A d \in Channel : filled[d] <= entries'[d] /\ entries'[d] >= entries[d]
    BY <1>1, <1>2, <2>2 DEF MapInv
  <2>4. host \notin {"lookup", "wait"} \/ hostCh # c
    BY <1>1, <1>2 DEF MapInv
  <2>5. \A d \in Channel : shake'[d] = "set" => entries'[d] > 0
    <3>1. \A d \in Channel \ {c} : shake'[d] = shake[d]
      BY <1>1 DEF TypeOK
    <3> QED BY <2>2, <3>1 DEF MapInv
  <2> QED BY <1>1, <2>1, <2>2, <2>3, <2>4, <2>5 DEF MapInv
<1> QED BY <1>3, <1>4, <1>5, <1>6, <1>7

LEMMA NameSetConn ==
    ASSUME NEW c \in Channel, ConnInv, NameSet(c)
    PROVE  ConnInv'
<1> USE ChannelInt DEF ConnInv
<1>1. UNCHANGED <<hostCh, clientVars, chans, accVars, inserting, future, misread>>
  BY DEF NameSet
<1>2. CASE inserting # Free /\ host' = "dead" /\ UNCHANGED <<shake, entries, filled, missed>>
  <2>1. TypeOK'
    BY <1>1, <1>2 DEF TypeOK, clientVars, accVars
  <2>2. LoopInv' /\ QueueInv'
    BY <1>1, <1>2 DEF LoopInv, QueueInv, clientVars, accVars
  <2>3. ReadyInv' /\ MapInv'
    BY <1>1, <1>2 DEF ReadyInv, MapInv
  <2> QED BY <2>1, <2>2, <2>3
<1>3. ASSUME NEW e \in 1 .. entries[c] + 1, Lookup(c, e), filled' = [filled EXCEPT ![c] = e],
             shake' = [shake EXCEPT ![c] = "done"], UNCHANGED host
      PROVE  ConnInv'
  <2>1. shake[c] = "set" /\ entries[c] \in Nat /\ e \in Nat
    BY <1>3 DEF NameSet, TypeOK
  <2>2. /\ entries' \in [Channel -> Nat] /\ entries'[c] >= e
        /\ \A d \in Channel : entries'[d] >= entries[d]
        /\ \A d \in Channel : d \notin missed' => d \notin missed /\ entries'[d] = entries[d]
        /\ missed' \subseteq Channel
        /\ \A d \in Channel \ {c} : entries'[d] = entries[d]
    BY <1>3, <2>1, LookupType
  <2>3. TypeOK'
    <3>1. shake' \in [Channel -> {"none", "header", "body", "find", "insert", "set", "done", "lost"}]
      BY <1>3 DEF TypeOK
    <3>2. filled' \in [Channel -> Nat]
      BY <1>3, <2>1 DEF TypeOK
    <3> QED BY <1>1, <1>3, <2>2, <3>1, <3>2, Zenon DEF TypeOK, clientVars, accVars
  <2>4. LoopInv' /\ QueueInv'
    <3>1. UNCHANGED <<host, acc, stoppedSet, client, clientCh, tries, backlog>>
      BY <1>1, <1>3 DEF clientVars, accVars
    <3>2. \A d \in Channel : shake[d] = "none" => shake'[d] = "none"
      BY <1>3, <2>1 DEF TypeOK
    <3>3. \A i \in 1 .. Len(backlog) : backlog[i] \in Channel
      BY DEF TypeOK
    <3> QED BY <3>1, <3>2, <3>3 DEF LoopInv, QueueInv
  <2>5. ReadyInv'
    <3>1. filled'[c] # 0 /\ shake'[c] = "done"
      BY <1>3, <2>1 DEF TypeOK
    <3>2. \A d \in Channel \ {c} : filled'[d] = filled[d] /\ shake'[d] = shake[d]
      BY <1>3 DEF TypeOK
    <3> QED BY <1>1, <1>3, <3>1, <3>2 DEF ReadyInv
  <2>6. MapInv'
    <3>1. \A d \in Channel : filled'[d] <= entries'[d]
      BY <1>3, <2>1, <2>2 DEF TypeOK, MapInv
    <3>2. hostCh' \in Channel /\ hostCh' = hostCh /\ future' = future /\ host' = host /\ inserting' = inserting
      BY <1>1, <1>3 DEF TypeOK
    <3>3. host = "insert" => hostCh # c
      BY <2>1 DEF MapInv
    <3>4. \A d \in Channel : shake'[d] = "insert" => inserting = d /\ entries'[d] = 0
      BY <1>3, <2>1, <2>2 DEF TypeOK, MapInv
    <3>5. \A d \in Channel : shake'[d] = "set" => entries'[d] > 0
      BY <1>3, <2>1, <2>2 DEF TypeOK, MapInv
    <3>6. \A d \in Channel : d \notin missed' => entries'[d] <= 1
      BY <2>2 DEF MapInv
    <3>7. host = "insert" => inserting = User /\ entries'[hostCh] = 0
      BY <2>2, <3>2, <3>3 DEF MapInv
    <3>8. /\ host \in {"lookup", "wait"} => entries'[hostCh] > 0
          /\ host = "wait" => future \in 1 .. entries'[hostCh]
      <4>1. /\ entries[hostCh] \in Nat /\ entries'[hostCh] \in Nat
            /\ entries'[hostCh] >= entries[hostCh] /\ future \in Nat
        BY <2>2, <3>2 DEF TypeOK
      <4> QED BY <4>1 DEF MapInv
    <3> QED BY <3>1, <3>2, <3>4, <3>5, <3>6, <3>7, <3>8 DEF MapInv
  <2> QED BY <2>3, <2>4, <2>5, <2>6
<1> QED BY <1>2, <1>3 DEF NameSet

LEMMA ClientConnectConn ==
    ASSUME ConnInv, ClientConnect
    PROVE  ConnInv'
<1> USE ChannelInt DEF ConnInv
<1>1. TypeOK'
  <2>1. clientCh' \in Channel /\ client' \in {"connect", "run"} /\ tries' \in 0 .. MaxTries + 1
    BY DEF ClientConnect, TypeOK, Channel
  <2>2. backlog' \in Seq(Channel)
    BY DEF ClientConnect, TypeOK
  <2>3. chans' \in [{0, 1} -> SUBSET Channel]
    BY DEF ClientConnect, TypeOK
  <2> QED BY <2>1, <2>2, <2>3 DEF ClientConnect, TypeOK, hostVars, mapVars
<1>2. LoopInv'
  BY DEF ClientConnect, TypeOK, LoopInv, hostVars, clientVars, accVars, mapVars
<1>3. QueueInv'
  <2>1. /\ Len(backlog') = Len(backlog) + 1 /\ Len(backlog) \in Nat
        /\ \A i \in 1 .. Len(backlog) : backlog'[i] = backlog[i] /\ backlog[i] \in Channel
        /\ backlog'[Len(backlog) + 1] = clientCh /\ clientCh \in Channel
    BY DEF ClientConnect, TypeOK
  <2>2. /\ client = "connect" /\ tries' = 0 /\ shake' = shake
        /\ client' = "connect" => clientCh' = clientCh + 1
    BY DEF ClientConnect
  <2>3. /\ shake[clientCh] = "none"
        /\ \A i \in 1 .. Len(backlog) : shake[backlog[i]] = "none" /\ backlog[i] # clientCh
    BY <2>1, <2>2 DEF QueueInv
  <2>4. \A i \in 1 .. Len(backlog') : i \in 1 .. Len(backlog) \/ i = Len(backlog) + 1
    BY <2>1
  <2>5. \A i \in 1 .. Len(backlog') : shake'[backlog'[i]] = "none"
    BY <2>1, <2>2, <2>3, <2>4
  <2>6. \A i, j \in 1 .. Len(backlog') : backlog'[i] = backlog'[j] => i = j
    BY <2>1, <2>3, <2>4 DEF QueueInv
  <2>7. client' = "connect" =>
           \A d \in Channel : d >= clientCh' =>
               shake'[d] = "none" /\ \A i \in 1 .. Len(backlog') : backlog'[i] # d
    <3> SUFFICES ASSUME client' = "connect", NEW d \in Channel, d >= clientCh'
                 PROVE  shake'[d] = "none" /\ \A i \in 1 .. Len(backlog') : backlog'[i] # d
      OBVIOUS
    <3>1. d >= clientCh /\ d # clientCh
      BY <2>1, <2>2
    <3> QED BY <2>1, <2>2, <2>4, <3>1 DEF QueueInv
  <2> QED BY <2>2, <2>5, <2>6, <2>7 DEF QueueInv
<1>4. ReadyInv'
  BY DEF ClientConnect, TypeOK, ReadyInv, hostVars, clientVars, accVars, mapVars
<1>5. MapInv'
  BY DEF ClientConnect, TypeOK, MapInv, hostVars, clientVars, accVars, mapVars
<1> QED BY <1>1, <1>2, <1>3, <1>4, <1>5

LEMMA ClientRefusedConn ==
    ASSUME ConnInv, ClientRefused
    PROVE  ConnInv'
<1> USE ChannelInt DEF ConnInv
<1>1. TypeOK'
  <2>1. tries' \in 0 .. MaxTries + 1
    BY DEF ClientRefused, QueueInv, TypeOK
  <2>2. client' \in {"connect", "dead"}
    BY DEF ClientRefused
  <2> QED BY <2>1, <2>2 DEF ClientRefused, TypeOK, hostVars, accVars, mapVars
<1>2. LoopInv'
  BY DEF ClientRefused, TypeOK, LoopInv, hostVars, clientVars, accVars, mapVars
<1>3. QueueInv'
  BY DEF ClientRefused, TypeOK, QueueInv, hostVars, clientVars, accVars, mapVars
<1>4. ReadyInv'
  BY DEF ClientRefused, TypeOK, ReadyInv, hostVars, clientVars, accVars, mapVars
<1>5. MapInv'
  BY DEF ClientRefused, TypeOK, MapInv, hostVars, clientVars, accVars, mapVars
<1> QED BY <1>1, <1>2, <1>3, <1>4, <1>5

LEMMA ClientCrashConn ==
    ASSUME ConnInv, ClientCrash
    PROVE  ConnInv'
<1> USE ChannelInt DEF ConnInv
<1>1. TypeOK'
  BY DEF ClientCrash, TypeOK, hostVars, clientVars, accVars, mapVars
<1>2. LoopInv'
  BY DEF ClientCrash, TypeOK, LoopInv, hostVars, clientVars, accVars, mapVars
<1>3. QueueInv'
  BY DEF ClientCrash, TypeOK, QueueInv, hostVars, clientVars, accVars, mapVars
<1>4. ReadyInv'
  BY DEF ClientCrash, TypeOK, ReadyInv, hostVars, clientVars, accVars, mapVars
<1>5. MapInv'
  BY DEF ClientCrash, TypeOK, MapInv, hostVars, clientVars, accVars, mapVars
<1> QED BY <1>1, <1>2, <1>3, <1>4, <1>5

LEMMA ClientCloseConn ==
    ASSUME ConnInv, ClientClose
    PROVE  ConnInv'
<1> USE ChannelInt DEF ConnInv
<1>1. TypeOK'
  <2>1. chans' \in [{0, 1} -> SUBSET Channel]
    BY DEF ClientClose, TypeOK
  <2>2. client' \in {"close", "done"}
    BY DEF ClientClose
  <2> QED BY <2>1, <2>2 DEF ClientClose, TypeOK, hostVars, accVars, mapVars
<1>2. LoopInv'
  BY DEF ClientClose, TypeOK, LoopInv, hostVars, clientVars, accVars, mapVars
<1>3. QueueInv'
  BY DEF ClientClose, TypeOK, QueueInv, hostVars, clientVars, accVars, mapVars
<1>4. ReadyInv'
  BY DEF ClientClose, TypeOK, ReadyInv, hostVars, clientVars, accVars, mapVars
<1>5. MapInv'
  BY DEF ClientClose, TypeOK, MapInv, hostVars, clientVars, accVars, mapVars
<1> QED BY <1>1, <1>2, <1>3, <1>4, <1>5

LEMMA ProtocolConn ==
    ASSUME ConnInv, Protocol
    PROVE  ConnInv'
<1> USE ChannelInt DEF ConnInv
<1>1. TypeOK'
  BY DEF Protocol, TypeOK, hostVars, clientVars, accVars, mapVars
<1>2. LoopInv'
  BY DEF Protocol, TypeOK, LoopInv, hostVars, clientVars, accVars, mapVars
<1>3. QueueInv'
  BY DEF Protocol, TypeOK, QueueInv, hostVars, clientVars, accVars, mapVars
<1>4. ReadyInv'
  BY DEF Protocol, TypeOK, ReadyInv, hostVars, clientVars, accVars, mapVars
<1>5. MapInv'
  BY DEF Protocol, TypeOK, MapInv, hostVars, clientVars, accVars, mapVars
<1> QED BY <1>1, <1>2, <1>3, <1>4, <1>5

LEMMA NextConn == ConnInv /\ [Next]_vars => ConnInv'
<1> SUFFICES ASSUME ConnInv, [Next]_vars PROVE ConnInv'
  OBVIOUS
<1>1. CASE HostStep
  BY <1>1, HostStartConn, BindFailsConn, HostFindConn, HostInsertConn, HostLookupConn,
     HostTakeConn, HostCloseConn, HostStopConn, HostFreeConn DEF HostStep
<1>2. CASE AccStep
  BY <1>2, AccCheckConn, AccArmConn, AcceptConn, AcceptAbortedConn DEF AccStep
<1>3. ASSUME NEW c \in Channel, ShakeStep(c)
      PROVE  ConnInv'
  BY <1>3, ReadNameConn, NameFindConn, NameInsertConn, NameSetConn DEF ShakeStep
<1>4. CASE ClientStep
  BY <1>4, ClientConnectConn, ClientRefusedConn, ClientCloseConn DEF ClientStep
<1>5. CASE ClientCrash \/ Protocol
  BY <1>5, ClientCrashConn, ProtocolConn
<1>6. CASE UNCHANGED vars
  <2>1. /\ UNCHANGED <<host, hostCh, client, clientCh, tries, chans, listening, backlog>>
        /\ UNCHANGED <<acc, accStopped, stoppedSet, shake, inserting, entries, filled, future, missed, misread>>
    BY <1>6 DEF vars, hostVars, clientVars, accVars, mapVars
  <2>2. TypeOK'
    BY <2>1 DEF ConnInv, TypeOK
  <2>3. LoopInv' /\ QueueInv'
    BY <2>1 DEF ConnInv, LoopInv, QueueInv
  <2>4. ReadyInv' /\ MapInv'
    BY <2>1 DEF ConnInv, ReadyInv, MapInv
  <2> QED BY <2>2, <2>3, <2>4 DEF ConnInv
<1> QED BY <1>1, <1>2, <1>3, <1>4, <1>5, <1>6 DEF Next

\* The invariant holds of every behaviour of the set-up and the teardown.
THEOREM ConnInvHolds == Spec => []ConnInv
BY InitConn, NextConn, PTL DEF Spec

-----------------------------------------------------------------------------
\* The state of the set-up is of its types, and addChannel gives up after
\* MaxTries + 1 attempts, for every number of channels.
THEOREM TypeCorrect == Spec => []TypeOK
<1>1. ConnInv => TypeOK
  BY DEF ConnInv
<1> QED BY <1>1, ConnInvHolds, PTL

\* mStoppedPromise of BtAcceptor is never set twice.
THEOREM StoppedAtMostOnce == Spec => []StoppedOnce
<1>1. ConnInv => StoppedOnce
  BY DEF ConnInv, LoopInv, StoppedOnce
<1> QED BY <1>1, ConnInvHolds, PTL

\* When BtIOService::stop has freed the acceptor no handler that uses it is
\* left: the host has taken the socket of every channel, so every handshake
\* is over, and the accept loop has ended.
THEOREM AcceptorFreedSafely == Spec => []AcceptorFreeSafe
<1>1. ASSUME ConnInv, host = "done" PROVE acc = "ended" /\ Shaking = {}
  <2>1. acc = "ended" /\ \A c \in Channel : shake[c] = "done"
    BY <1>1 DEF ConnInv, LoopInv, ReadyInv
  <2> QED BY <2>1 DEF Shaking
<1>2. ConnInv => AcceptorFreeSafe
  BY <1>1 DEF AcceptorFreeSafe
<1> QED BY <1>2, ConnInvHolds, PTL

\* The user thread of the host waits for the promise that the handshake of
\* its connection has set, whoever files it: search and insertion are one
\* step to the other thread, so that a name has one promise unless a lookup
\* of this very name missed it.
THEOREM HandoverIsKept == Spec => []HandoverKept
<1>1. ASSUME ConnInv, host = "wait", shake[hostCh] = "done", hostCh \notin missed
      PROVE  filled[hostCh] = future
  <2>1. hostCh \in Channel /\ entries[hostCh] \in Nat /\ filled[hostCh] \in Nat
    BY <1>1 DEF ConnInv, TypeOK
  <2>2. entries[hostCh] <= 1 /\ future \in 1 .. entries[hostCh]
    BY <1>1, <2>1 DEF ConnInv, MapInv
  <2>3. filled[hostCh] # 0 /\ filled[hostCh] <= entries[hostCh]
    BY <1>1, <2>1 DEF ConnInv, MapInv, ReadyInv
  <2> QED BY <2>1, <2>2, <2>3
<1>2. ConnInv => HandoverKept
  BY <1>1 DEF HandoverKept
<1> QED BY <1>2, ConnInvHolds, PTL
=============================================================================
