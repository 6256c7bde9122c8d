---------------------------- MODULE MCSecureLink ----------------------------
(* Instances of SecureLink for TLC.                                        *)
EXTENDS SecureLink, TLC

\* Everything that may go wrong, except a failed restore of the session key.
AllFaults == FaultKinds \ {"restore"}

\* What the protocol recovers from.
BearableFaults == {"kxLoss", "kxLate", "dataLoss", "noise", "restore"}

ResyncMacFault == {"resyncMac"}
ResetFaults    == {"bmuReset"}

SeedSymmetry == Permutations(Seeds)
=============================================================================
