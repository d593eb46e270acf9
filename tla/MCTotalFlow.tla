------------------------------- MODULE MCTotalFlow -------------------------------
(* Two flows over two servers, in tandem, crossing against each other and joining *)
(* half-way, and a flow that passes a server twice; rates of half a byte a tick   *)
(* and more; and one network for each way to be refused.                          *)
EXTENDS TotalFlow

MCFlow(s, r, p) == [burst |-> s, rate |-> r, path |-> p]
Even(r, t) == <<[rate |-> r, latency |-> t], [rate |-> r, latency |-> t]>>
Net(fs, ss) == [flows |-> fs, services |-> ss]

Accepted == {
    Net(<<MCFlow(1, 1, <<1, 2>>), MCFlow(2, 1, <<2, 1>>)>>, Even(4, 0)),
    Net(<<MCFlow(1, 2, <<1, 2>>), MCFlow(1, 1, <<2, 1>>)>>, Even(4, 0)),
    Net(<<MCFlow(1, 1, <<1, 2>>), MCFlow(1, 1, <<2, 1>>)>>, Even(6, 1)),
    Net(<<MCFlow(1, 2, <<1, 2>>), MCFlow(1, 2, <<1, 2>>)>>, Even(6, 1)),
    Net(<<MCFlow(1, 2, <<1, 2>>), MCFlow(1, 1, <<2>>)>>, Even(4, 0)),
    Net(<<MCFlow(2, 2, <<1, 2, 1>>)>>, Even(6, 0)),
    Net(<<MCFlow(1, 2, <<1, 2, 1>>)>>, Even(6, 1))}

(* No flow; an unknown server; a rate too high; bursts that grow past the         *)
(* ceiling; bursts that still grow at the iteration limit.                        *)
Refused == {
    Net(<< >>, Even(4, 0)),
    Net(<<MCFlow(1, 1, <<1, 3>>)>>, Even(4, 0)),
    Net(<<MCFlow(1, 2, <<1, 2>>), MCFlow(1, 2, <<2, 1>>)>>, Even(4, 0)),
    Net(<<MCFlow(1, 2, <<1, 2, 1>>)>>, Even(5, 2)),
    Net(<<MCFlow(1, 3, <<1, 2, 1>>)>>, Even(7, 0))}

MCNetworks == Accepted \cup Refused

(* One stream without a declared output rate: a burst and rate 0.  And one whose  *)
(* burst grows by two thirds of a byte.                                           *)
NotCovered == {
    Net(<<MCFlow(1, 0, <<1>>)>>, <<[rate |-> 2, latency |-> 1]>>),
    Net(<<MCFlow(1, 2, <<1, 2>>)>>, Even(3, 0))}
===================================================================================
