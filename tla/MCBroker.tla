------------------------------ MODULE MCBroker ------------------------------
(***************************************************************************)
(* Instances of Broker for TLC.  A cfg picks the sessions' ids and which   *)
(* callers misbehave, which sessions are risky and which stream their      *)
(* events.                                                                 *)
(***************************************************************************)
EXTENDS Broker, TLC

CONSTANTS s1, s2, s3, i1, i2, i3

OwnIds   == [s \in Sessions |-> CASE s = s1 -> i1 [] s = s2 -> i2 [] s = s3 -> i3]
SharedId  == [s \in Sessions |-> i1]

\* The callers are interchangeable; sound for the safety runs only.
CallerSymmetry == Permutations(Callers)

\* So are s2 with id i2 and s3 with id i3, where Id is OwnIds.
Swap23 == (s2 :> s3) @@ (s3 :> s2) @@ (i2 :> i3) @@ (i3 :> i2)
Symmetry == CallerSymmetry \cup {Swap23} \cup {Swap23 @@ c : c \in CallerSymmetry}
=============================================================================
