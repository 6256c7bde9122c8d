-------------------------- MODULE MCPassportFabric --------------------------
(* Instances of PassportFabric for TLC.                                    *)
EXTENDS PassportFabric, TLC

CONSTANTS k1, k2, k3

\* One passport is followed through its life; documents under the other keys
\* refer to it, or to another passport that only exists.
OnePassportEdited == k1 :> 6 @@ k2 :> 0 @@ k3 :> 0

Interchangeable == Permutations(Keys \ {k1}) \cup Permutations(Verdicts)
=============================================================================
