------------------------------- MODULE Connect -------------------------------
(***************************************************************************)
(* How the two parties connect and part: BtEndpoint.cpp, BtAcceptor.cpp    *)
(* and the acceptor list of BtIOService.cpp, driven by the set-up and the  *)
(* teardown of pqpsi.cpp.                                                  *)
(*                                                                         *)
(* The host (party 0) listens; its acceptor accepts connections in io      *)
(* threads, reads a name from each and hands the socket over through a     *)
(* promise that it files under that name.  The user thread of the host     *)
(* waits for the promise of one channel after the other.  The client       *)
(* (party 1) connects one channel after the other, trying again while the  *)
(* host is not listening yet, and sends the name without waiting.          *)
(*                                                                         *)
(* A promise is filed in the map mSocketPromises by whoever asks for its   *)
(* name first.  The map is searched and inserted into under a mutex, and   *)
(* then looked up once more without it.  A lookup that runs during an      *)
(* insertion is a data race: it finds the entry, or misses it and adds a   *)
(* second promise under the same name, or walks into freed buckets.        *)
(***************************************************************************)
EXTENDS Integers, Sequences, FiniteSets

CONSTANTS
    NumCh,     \* nCh
    MaxTries   \* BT_CONNECT_RETRY_MAX

ASSUME ConnectAssumption == NumCh \in Nat \ {0} /\ MaxTries \in Nat \ {0}

Channel == 1 .. NumCh

\* Nobody is inserting, or the user thread of the host is.
Free == 0
User == NumCh + 1

VARIABLES
    host,       \* what the user thread of the host does next
    hostCh,     \* the channel it is at
    client,     \* what the user thread of the client does next
    clientCh,
    tries,      \* connects of this channel that failed
    chans,      \* chans[p]: channels of the endpoint of p
    listening,  \* the acceptor's handle is open
    backlog,    \* connections the kernel holds for the acceptor
    acc,        \* where the accept loop (BtAcceptor::start) is
    accStopped, \* BtAcceptor::mStopped
    stoppedSet, \* how often mStoppedPromise was set
    shake,      \* shake[c]: the handshake of connection c
    inserting,  \* who holds mMtx to insert into mSocketPromises
    entries,    \* entries[c]: promises filed under the name of c, numbered from 1
    filled,     \* filled[c]: the one of them that holds the socket, or 0
    future,     \* the one whose future the user thread of the host has, or 0
    missed,     \* names whose entry a lookup missed
    misread     \* connections that go on after a read that failed

hostVars == <<host, hostCh>>
clientVars == <<client, clientCh, tries>>
accVars == <<listening, backlog, acc, accStopped, stoppedSet>>
mapVars == <<inserting, entries, filled, future, missed>>
vars == <<hostVars, clientVars, chans, accVars, shake, mapVars, misread>>

\* The handlers of these handshakes are still to run in the host.
Shaking == {c \in Channel : shake[c] \in {"header", "body", "find", "insert", "set"}}

HostAlive == host # "dead"
ClientAlive == client # "dead"

Init ==
    /\ host = "start" /\ hostCh = 1
    /\ client = "connect" /\ clientCh = 1 /\ tries = 0
    /\ chans = [p \in {0, 1} |-> {}]
    /\ listening = FALSE /\ backlog = <<>>
    /\ acc = "none" /\ accStopped = FALSE /\ stoppedSet = 0
    /\ shake = [c \in Channel |-> "none"]
    /\ inserting = Free
    /\ entries = [c \in Channel |-> 0] /\ filled = [c \in Channel |-> 0]
    /\ future = 0 /\ missed = {} /\ misread = {}

-----------------------------------------------------------------------------
(* The user thread of the host.                                            *)

\* BtEndpoint::start: getAcceptor binds, listens and calls start().
HostStart ==
    /\ host = "start"
    /\ host' = "find"
    /\ chans' = [chans EXCEPT ![0] = {hostCh}]
    /\ listening' = TRUE
    /\ acc' = "check"
    /\ UNCHANGED <<hostCh, clientVars, backlog, accStopped, stoppedSet, shake, mapVars,
                   misread>>

\* The port is taken: bind throws.
BindFails ==
    /\ host = "start"
    /\ host' = "dead"
    /\ UNCHANGED <<hostCh, clientVars, chans, accVars, shake, mapVars, misread>>

\* A new promise under the name of c.
File(c) == entries' = [entries EXCEPT ![c] = @ + 1]

\* mSocketPromises[tag], without the mutex: the promise e of c.
Lookup(c, e) ==
    \/ e \in 1 .. entries[c] /\ UNCHANGED <<entries, missed>>
    \/ inserting # Free /\ e = entries[c] + 1 /\ File(c) /\ missed' = missed \union {c}

\* Mutant of HostFind: it searches before it has the mutex.
HostFindUnlocked ==
    /\ host = "find"
    /\ \/ entries[hostCh] > 0 /\ host' = "lookup" /\ UNCHANGED inserting
       \/ entries[hostCh] = 0 /\ host' = "insert" /\ inserting' = User
    /\ UNCHANGED <<hostCh, clientVars, chans, accVars, shake, entries, filled, future, missed,
                   misread>>

\* getSocket, under the mutex: an entry for the name of the channel.
HostFind ==
    /\ host = "find"
    /\ inserting = Free
    /\ \/ entries[hostCh] > 0 /\ host' = "lookup" /\ UNCHANGED inserting
       \/ entries[hostCh] = 0 /\ host' = "insert" /\ inserting' = User
    /\ UNCHANGED <<hostCh, clientVars, chans, accVars, shake, entries, filled, future, missed,
                   misread>>

HostInsert ==
    /\ host = "insert"
    /\ File(hostCh)
    /\ inserting' = Free
    /\ host' = "lookup"
    /\ UNCHANGED <<hostCh, clientVars, chans, accVars, shake, filled, future, missed, misread>>

\* mSocketPromises[tag].get_future(), or a crash in the race.
HostLookup ==
    /\ host = "lookup"
    /\ \/ /\ \E e \in 1 .. entries[hostCh] + 1 : Lookup(hostCh, e) /\ future' = e
          /\ host' = "wait"
       \/ inserting # Free /\ host' = "dead" /\ UNCHANGED <<entries, future, missed>>
    /\ UNCHANGED <<hostCh, clientVars, chans, accVars, shake, inserting, filled, misread>>

\* The future is ready; addChannel returns and the next one begins.
HostTake ==
    /\ host = "wait"
    /\ filled[hostCh] = future
    /\ \/ hostCh < NumCh /\ host' = "find" /\ hostCh' = hostCh + 1
          /\ chans' = [chans EXCEPT ![0] = @ \union {hostCh + 1}]
       \/ hostCh = NumCh /\ host' = "run" /\ UNCHANGED <<hostCh, chans>>
    /\ UNCHANGED <<clientVars, accVars, shake, mapVars, misread>>

-----------------------------------------------------------------------------
(* The accept loop and the handshakes, in the io threads of the host.      *)

\* BtAcceptor::start: it reads the flag, and later calls async_accept.
AccCheck ==
    /\ HostAlive
    /\ acc = "check"
    /\ \/ ~accStopped /\ acc' = "arm" /\ UNCHANGED stoppedSet
       \/ accStopped /\ acc' = "ended" /\ stoppedSet' = stoppedSet + 1
    /\ UNCHANGED <<hostVars, clientVars, chans, listening, backlog, accStopped, shake,
                   mapVars, misread>>

AccArm ==
    /\ HostAlive
    /\ acc = "arm"
    /\ acc' = "armed"
    /\ UNCHANGED <<hostVars, clientVars, chans, listening, backlog, accStopped, stoppedSet,
                   shake, mapVars, misread>>

\* Mutant of Accept: the handler does not accept again.
AcceptOnce ==
    /\ HostAlive
    /\ acc = "armed" /\ listening /\ backlog # <<>>
    /\ acc' = "none"
    /\ backlog' = Tail(backlog)
    /\ shake' = [shake EXCEPT ![Head(backlog)] = "header"]
    /\ UNCHANGED <<hostVars, clientVars, chans, listening, accStopped, stoppedSet, mapVars,
                   misread>>

\* The handler of async_accept: it calls start() again and reads the header
\* of the name.
Accept ==
    /\ HostAlive
    /\ acc = "armed" /\ listening /\ backlog # <<>>
    /\ acc' = "check"
    /\ backlog' = Tail(backlog)
    /\ shake' = [shake EXCEPT ![Head(backlog)] = "header"]
    /\ UNCHANGED <<hostVars, clientVars, chans, listening, accStopped, stoppedSet, mapVars,
                   misread>>

\* Mutant of AcceptAborted: the aborted accept ends the loop on its own.
AcceptAbortedSets ==
    /\ HostAlive
    /\ acc = "armed" /\ ~listening
    /\ acc' = "check"
    /\ stoppedSet' = stoppedSet + 1
    /\ UNCHANGED <<hostVars, clientVars, chans, listening, backlog, accStopped, shake, mapVars,
                   misread>>

\* The handler of an accept that close() aborted.
AcceptAborted ==
    /\ HostAlive
    /\ acc = "armed" /\ ~listening
    /\ acc' = "check"
    /\ UNCHANGED <<hostVars, clientVars, chans, listening, backlog, accStopped, stoppedSet,
                   shake, mapVars, misread>>

\* The name in the buffer is not one: it is filed where nobody asks for it,
\* or the split finds too few parts and names[2] is out of range.
BadName(c) ==
    \/ shake' = [shake EXCEPT ![c] = "lost"] /\ UNCHANGED host
    \/ host' = "dead" /\ UNCHANGED shake

\* async_receive of the four bytes of the header, then of the name.  It may
\* return with fewer bytes than asked for, and with an error if the client
\* is gone; `if (!ec2 || bytesTransferred != 4)` then goes on all the same,
\* with whatever is in the buffer.
ReadName(c) ==
    /\ HostAlive
    /\ shake[c] \in {"header", "body"}
    /\ \/ /\ shake' = [shake EXCEPT ![c] = IF @ = "header" THEN "body" ELSE "find"]
          /\ UNCHANGED <<host, misread>>
       \/ BadName(c) /\ UNCHANGED misread
       \/ ~ClientAlive /\ BadName(c) /\ misread' = misread \union {c}
    /\ UNCHANGED <<hostCh, clientVars, chans, accVars, mapVars>>

\* getSocketPromise, under the mutex.
NameFind(c) ==
    /\ HostAlive
    /\ shake[c] = "find"
    /\ inserting = Free
    /\ \/ entries[c] > 0 /\ shake' = [shake EXCEPT ![c] = "set"] /\ UNCHANGED inserting
       \/ entries[c] = 0 /\ shake' = [shake EXCEPT ![c] = "insert"] /\ inserting' = c
    /\ UNCHANGED <<hostVars, clientVars, chans, accVars, entries, filled, future, missed, misread>>

NameInsert(c) ==
    /\ HostAlive
    /\ shake[c] = "insert"
    /\ File(c)
    /\ inserting' = Free
    /\ shake' = [shake EXCEPT ![c] = "set"]
    /\ UNCHANGED <<hostVars, clientVars, chans, accVars, filled, future, missed, misread>>

\* The lookup of its return statement and set_value, or a crash in the race.
NameSet(c) ==
    /\ HostAlive
    /\ shake[c] = "set"
    /\ \/ /\ \E e \in 1 .. entries[c] + 1 : Lookup(c, e) /\ filled' = [filled EXCEPT ![c] = e]
          /\ shake' = [shake EXCEPT ![c] = "done"]
          /\ UNCHANGED host
       \/ inserting # Free /\ host' = "dead" /\ UNCHANGED <<shake, entries, filled, missed>>
    /\ UNCHANGED <<hostCh, clientVars, chans, accVars, inserting, future, misread>>

-----------------------------------------------------------------------------
(* The user thread of the client.                                          *)

\* BtEndpoint::addChannel: connected, and the name is on its way.
ClientConnect ==
    /\ client = "connect"
    /\ listening
    /\ backlog' = Append(backlog, clientCh)
    /\ chans' = [chans EXCEPT ![1] = @ \union {clientCh}]
    /\ tries' = 0
    /\ \/ clientCh < NumCh /\ clientCh' = clientCh + 1 /\ UNCHANGED client
       \/ clientCh = NumCh /\ client' = "run" /\ UNCHANGED clientCh
    /\ UNCHANGED <<hostVars, listening, acc, accStopped, stoppedSet, shake, mapVars,
                   misread>>

\* Mutant of ClientRefused: the attempts are not bounded.
ClientRefusedAlways ==
    /\ client = "connect"
    /\ ~listening
    /\ tries <= MaxTries + 1
    /\ tries' = tries + 1
    /\ UNCHANGED <<hostVars, client, clientCh, chans, accVars, shake, mapVars, misread>>

\* Refused: close, open and try again, until the attempts are used up or
\* the socket does not open again.
ClientRefused ==
    /\ client = "connect"
    /\ ~listening
    /\ tries' = tries + 1
    /\ \/ tries < MaxTries /\ UNCHANGED client
       \/ client' = "dead"
    /\ UNCHANGED <<hostVars, clientCh, chans, accVars, shake, mapVars, misread>>

\* addChannel throws because the socket does not open, or the client process
\* ends while it is still connecting.
ClientCrash ==
    /\ client = "connect"
    /\ client' = "dead"
    /\ UNCHANGED <<hostVars, clientCh, tries, chans, accVars, shake, mapVars, misread>>

-----------------------------------------------------------------------------
(* The protocol and the teardown.                                          *)

\* The warm-up and the protocol (module PqPsi) take both parties.
Protocol ==
    /\ host = "run" /\ client = "run"
    /\ host' = "close" /\ client' = "close"
    /\ UNCHANGED <<hostCh, clientCh, tries, chans, accVars, shake, mapVars, misread>>

\* BtChannel::close (module BtChannel) and removeChannel for each channel,
\* then BtEndpoint::stop, which finds no channel left.
HostClose ==
    /\ host = "close"
    /\ \/ \E c \in chans[0] : chans' = [chans EXCEPT ![0] = @ \ {c}] /\ UNCHANGED host
       \/ chans[0] = {} /\ host' = "stop" /\ UNCHANGED chans
    /\ UNCHANGED <<hostCh, clientVars, accVars, shake, mapVars, misread>>

ClientClose ==
    /\ client = "close"
    /\ \/ \E c \in chans[1] : chans' = [chans EXCEPT ![1] = @ \ {c}] /\ UNCHANGED client
       \/ chans[1] = {} /\ client' = "done" /\ UNCHANGED chans
    /\ UNCHANGED <<hostVars, clientCh, tries, accVars, shake, mapVars, misread>>

\* BtIOService::stop: the acceptor's flag is set and its handle closed.
HostStop ==
    /\ host = "stop"
    /\ host' = "free"
    /\ accStopped' = TRUE
    /\ listening' = FALSE
    /\ UNCHANGED <<hostCh, clientVars, chans, backlog, acc, stoppedSet, shake, mapVars,
                   misread>>

\* Mutant of HostFree: the destructor does not wait for the accept loop.
HostFreeEarly ==
    /\ host = "free"
    /\ host' = "done"
    /\ UNCHANGED <<hostCh, clientVars, chans, accVars, shake, mapVars, misread>>

\* mAcceptors.clear(): the destructor waits for mStoppedFuture and frees the
\* acceptor; then the io threads are joined.
HostFree ==
    /\ host = "free"
    /\ stoppedSet > 0
    /\ host' = "done"
    /\ UNCHANGED <<hostCh, clientVars, chans, accVars, shake, mapVars, misread>>

-----------------------------------------------------------------------------
HostStep == HostStart \/ BindFails \/ HostFind \/ HostInsert \/ HostLookup \/ HostTake
              \/ HostClose \/ HostStop \/ HostFree
AccStep == AccCheck \/ AccArm \/ Accept \/ AcceptAborted
ShakeStep(c) == ReadName(c) \/ NameFind(c) \/ NameInsert(c) \/ NameSet(c)
ClientStep == ClientConnect \/ ClientRefused \/ ClientClose

Next == HostStep \/ AccStep \/ (\E c \in Channel : ShakeStep(c)) \/ ClientStep
          \/ ClientCrash \/ Protocol

Spec == Init /\ [][Next]_vars

\* User threads and io threads keep running; nobody has to crash.
Fairness ==
    /\ WF_vars(HostStep) /\ WF_vars(AccStep) /\ WF_vars(ClientStep) /\ WF_vars(Protocol)
    /\ \A c \in Channel : WF_vars(ShakeStep(c))

FairSpec == Spec /\ Fairness

-----------------------------------------------------------------------------
(* Properties.                                                             *)

\* The type invariant.  A channel is tried at most MaxTries + 1 times before
\* addChannel gives up.
TypeOK ==
    /\ host \in {"start", "find", "insert", "lookup", "wait", "run",
                 "close", "stop", "free", "done", "dead"}
    /\ client \in {"connect", "run", "close", "done", "dead"}
    /\ hostCh \in Channel /\ clientCh \in Channel /\ tries \in 0 .. MaxTries + 1
    /\ chans \in [{0, 1} -> SUBSET Channel]
    /\ listening \in BOOLEAN /\ accStopped \in BOOLEAN
    /\ backlog \in Seq(Channel) /\ stoppedSet \in Nat
    /\ acc \in {"none", "check", "arm", "armed", "ended"}
    /\ shake \in [Channel -> {"none", "header", "body", "find", "insert", "set", "done", "lost"}]
    /\ inserting \in Free .. User
    /\ entries \in [Channel -> Nat] /\ filled \in [Channel -> Nat] /\ future \in Nat
    /\ missed \subseteq Channel /\ misread \subseteq Channel

\* mStoppedPromise is set at most once, although the accept loop restarts
\* itself and stop() is called twice: a second set_value would throw in an io
\* thread.
StoppedOnce == stoppedSet <= 1

\* When BtIOService::stop has freed the acceptor, no accept and no handshake
\* is left whose handler would use it.
AcceptorFreeSafe == host = "done" => acc = "ended" /\ Shaking = {}

\* The user thread waits for the very promise that the handshake of its
\* connection has set.  Both search the map for the name, both insert when
\* they do not find it, each may come first, and nothing but the mutex keeps
\* them from filing two.  Only a channel whose own entry a lookup missed is
\* excepted: a race of another name does it no harm.
HandoverKept ==
    host = "wait" /\ shake[hostCh] = "done" /\ hostCh \notin missed => filled[hostCh] = future

\* A socket does not get to its channel: its name was cut by TCP, or the
\* race has left two promises, and the host waits for the one nobody sets.
HandoverLost ==
    \/ \E c \in Channel : shake[c] = "lost"
    \/ host = "wait" /\ filled[hostCh] \notin {0, future}

\* Unless a process ends or a socket is lost on its way to its channel, both
\* parties get all their channels, whatever the order in which the
\* connections are accepted, named and asked for, and both get through the
\* teardown.
PartiesConnect ==
    <>((host = "done" /\ client = "done") \/ host = "dead" \/ client = "dead" \/ HandoverLost)

\* A handshake whose read fails is given up: the branches that log
\* "async_accept->async_receive (header) failed with error_code" are there
\* for it.
ErrorEndsHandshake == misread = {}
=============================================================================
