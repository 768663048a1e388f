-------------------------------- MODULE Pipe --------------------------------
(***************************************************************************)
(* What Channel.h promises of a channel: each direction is a FIFO pipe of  *)
(* messages.  The k-th receive of a party is filled with the k-th message  *)
(* its peer sent, messages sent before close() still arrive, and close()   *)
(* returns only when every receive of the party has been filled.           *)
(***************************************************************************)
EXTENDS Naturals, Sequences

Party == {0, 1}
Peer(p) == 1 - p

VARIABLES
    sent,     \* messages a party has sent
    asked,    \* receives a party has asked for
    filled,   \* filled[p][k]: the message in the buffer of p's k-th receive
    phase     \* "open", "closing" or "closed"

pipeVars == <<sent, asked, filled, phase>>

Init ==
    /\ sent = [p \in Party |-> 0]
    /\ asked = [p \in Party |-> 0]
    /\ filled = [p \in Party |-> <<>>]
    /\ phase = [p \in Party |-> "open"]

Send(p) ==
    /\ phase[p] = "open"
    /\ sent' = [sent EXCEPT ![p] = @ + 1]
    /\ UNCHANGED <<asked, filled, phase>>

Ask(p) ==
    /\ phase[p] = "open"
    /\ asked' = [asked EXCEPT ![p] = @ + 1]
    /\ UNCHANGED <<sent, filled, phase>>

Fill(p) ==
    /\ Len(filled[p]) < asked[p]
    /\ Len(filled[p]) < sent[Peer(p)]
    /\ filled' = [filled EXCEPT ![p] = Append(@, Len(@) + 1)]
    /\ UNCHANGED <<sent, asked, phase>>

Close(p) ==
    /\ phase[p] = "open"
    /\ phase' = [phase EXCEPT ![p] = "closing"]
    /\ UNCHANGED <<sent, asked, filled>>

CloseReturn(p) ==
    /\ phase[p] = "closing"
    /\ Len(filled[p]) = asked[p]
    /\ phase' = [phase EXCEPT ![p] = "closed"]
    /\ UNCHANGED <<sent, asked, filled>>

Next == \E p \in Party : Send(p) \/ Ask(p) \/ Fill(p) \/ Close(p) \/ CloseReturn(p)

Spec == Init /\ [][Next]_pipeVars
=============================================================================
