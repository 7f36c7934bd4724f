------------------------------ MODULE MCScript ------------------------------
(* Signatures by two keys of the scripts that ask for them, in stacks of    *)
(* the kinds the operations need                                            *)
EXTENDS Script

SigOf(k, p) == <<"sig", k, <<p, 0>>>>

MCPushes == {Num(0), Num(2), SigOf("k1", "output")}
MCStarts ==
    {<< >>,
     <<SigOf("k1", "output")>>,
     <<SigOf("k1", "output"), K1>>,
     <<Num(0), SigOf("k2", "output")>>,
     <<SigOf("k1", "redeem"), Redeem>>,
     <<<<"wide", 1>>, <<"negzero", 0>>, Num(-1), <<"wide", 0>>, Num(1), Num(2)>>,
     <<Num(0), SigOf("k2", "output"), SigOf("k1", "output"), Num(2), K2, <<"key", "k3">>, K1, Num(3)>>}
=============================================================================
