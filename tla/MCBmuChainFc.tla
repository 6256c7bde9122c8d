---------------------------- MODULE MCBmuChainFc ----------------------------
(* Small instances of BmuChainFc for TLC: which HSE services may fail.     *)
EXTENDS BmuChainFc

NoFaults   == {}
HaltFaults == HseServices \ {"probe"}
ProbeFault == {"probe"}
=============================================================================
