--------------------------- MODULE MCBcmrWatchdog ---------------------------
(* Authchains for TLC: up to two publications by different holders, the first *)
(* one too big to archive inline.                                             *)
EXTENDS BcmrWatchdog

CONSTANTS DocA, DocB, AddrA, AddrB

MCHopDoc == SubSeq(<<DocA, DocB>>, 1, NHops)
MCHopAddr == SubSeq(<<AddrA, AddrB>>, 1, NHops)
MCHopHeight == [h \in 1..NHops |-> h]
=============================================================================
