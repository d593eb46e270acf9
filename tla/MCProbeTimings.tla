----------------------------- MODULE MCProbeTimings ------------------------------
(* Two threads, three activations and three ids written: the dotted path of one   *)
(* probe, a bare name it shares with a second probe, whose own path never appears *)
(* in the trace, and an id the model does not declare.                            *)
EXTENDS ProbeTimings, TLC

CONSTANTS t1, t2

MCThreads == {t1, t2}
Interchangeable == Permutations(MCThreads)
MCIds == {"Sys.brake", "brake", "idle"}
MCExpected ==
    ("Sys.brake" :> [aliases |-> <<"brake">>, bcet |-> 1, wcet |-> 2, mean |-> None]) @@
    ("Rear.brake" :> [aliases |-> <<"brake">>, bcet |-> None, wcet |-> 1, mean |-> 2])
===================================================================================
