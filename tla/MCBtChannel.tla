---------------------------- MODULE MCBtChannel -----------------------------
(* Values of BtChannel's constants for model checking. *)
EXTENDS BtChannel

Does(type, len) == [type |-> type, len |-> len]
Script(s0, s1)  == [p \in Side |-> IF p = 0 THEN s0 ELSE s1]

\* Request and reply, as in the PSI and in BtNetwork_ConnectMany: into buffers
\* of the right size and into one that is resized; an empty send is refused.
PingPong == Script(
    <<Does("asyncSend", 1), Does("recv", AnyLen), Does("asyncSend", 2)>>,
    <<Does("recv", 1), Does("asyncSend", 0), Does("send", 2), Does("recv", 2)>>)

\* Several messages one way, receives asked for in advance, as the labels.
Stream == Script(
    <<Does("asyncSend", 3), Does("asyncSend", 2), Does("send", 1)>>,
    <<Does("asyncRecv", AnyLen), Does("asyncRecv", 2), Does("recv", 1)>>)

\* Both sides send first and read the other's message later.
Cross == Script(
    <<Does("asyncSend", 2), Does("asyncSend", 1), Does("asyncRecv", 1)>>,
    <<Does("asyncSend", 1), Does("recv", 2), Does("recv", AnyLen)>>)

Matched == {PingPong, Stream, Cross}

\* The first message is longer than the buffer of the first receive.
WrongSize == {Script(<<Does("asyncSend", 2), Does("asyncSend", 1)>>,
                     <<Does("recv", 1), Does("recv", 1)>>)}

\* Shorter uses of the same kinds, for the properties that need fairness.
Talk  == Script(<<Does("asyncSend", 1), Does("recv", 2)>>,
                <<Does("recv", AnyLen), Does("send", 2)>>)
Flow  == Script(<<Does("asyncSend", 1), Does("send", 2)>>,
                <<Does("asyncRecv", 1), Does("asyncRecv", AnyLen)>>)
Swap  == Script(<<Does("asyncSend", 2), Does("asyncRecv", 1)>>,
                <<Does("asyncSend", 1), Does("recv", 2)>>)
Short == {Talk, Flow, Swap}

=============================================================================
