-------------------------- MODULE MC_RlinkConnect --------------------------
(***************************************************************************)
(* Instances of RlinkConnect for TLC: the command lists of the threads.    *)
(***************************************************************************)
EXTENDS RlinkConnect

CONSTANTS f1, f2, srv

C(code) == [cmd |-> code, seq |-> 0, bsize |-> 1, statchk |-> "on", flags |-> {},
            data |-> 0, stat |-> "ok"]

\* One caller executing labo+rreg; the server executing an attn command.
OneCaller == [t \in {f1, srv} |-> IF t = srv THEN <<C("attn")>>
                                  ELSE <<C("labo"), C("rreg")>>]
\* One caller executing a single rreg.
OneReader == [t \in {f1, srv} |-> IF t = srv THEN <<C("attn")>> ELSE <<C("rreg")>>]
\* Two callers.
TwoCallers == [t \in {f1, f2, srv} |-> IF t = srv THEN <<C("attn")>> ELSE <<C("rreg")>>]
=============================================================================
