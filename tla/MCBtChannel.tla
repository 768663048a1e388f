----------------------------- MODULE MCBtChannel -----------------------------
(* Scripts for the model checker.                                          *)
EXTENDS BtChannel

C(fn, len) == [fn |-> fn, len |-> len]

\* Every pair of scripts of at most two of these calls: with both parties
\* free to call what they like, futures are abandoned, lengths disagree,
\* processes die and streams are closed with unread data.
SomeCalls == {C("asyncSend", 1), C("send", 2), C("asyncRecv", 1), C("recv", 2),
              C("recvBuf", 0), C("send", 0)}
ShortScripts == {<<>>} \union {<<c>> : c \in SomeCalls}
                  \union {<<c, d>> : c, d \in SomeCalls}
AnyScripts == {[p \in Party |-> IF p = 0 THEN a ELSE b] : a, b \in ShortScripts}

\* What pqpsi() does with one channel: warmChannels, then OKVS1 from party 0
\* to party 1 and OKVS2 back, each receive posted ahead, or (a spare channel)
\* nothing after the warm-up.  t is the length of a party's share of a table.
Alice(t) == <<C("send", 1), C("recv", 1)>> \o
            (IF t = 0 THEN <<>> ELSE <<C("asyncRecv", t), C("send", t), C("wait", 0)>>)
Bob(t) == <<C("recv", 1), C("send", 1)>> \o
            (IF t = 0 THEN <<>> ELSE <<C("asyncRecv", t), C("wait", 0), C("send", t)>>)
Tables(a, b) == [p \in Party |-> IF p = 0 THEN Alice(a) ELSE Bob(b)]

PqPsiScripts == {Tables(0, 0), Tables(2, 2), Tables(3, 3)}

\* Two parties that disagree on the size of the table.
MismatchScripts == {Tables(2, 3), Tables(3, 2)}

\* Tables of 2^32 bytes and more, scaled down to U32 = 4.
HugeScripts == {Tables(5, 5)}

\* The calls of pqpsi() match: the receive theorems apply to them.
ASSUME PqPsiMatched == \A s \in PqPsiScripts : Matched(s) /\ Short(s)
=============================================================================
