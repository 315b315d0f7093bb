-------------------------- MODULE ExclusiveAccess --------------------------
(***************************************************************************)
(* What the reveal lock promises: at any time a talent of a pool is held   *)
(* by at most one recruiter, the holder keeps it until it is released, and *)
(* only a talent nobody holds can be acquired. How a hold ends (the 14     *)
(* days run out, the project is closed, the account is deleted) is left to *)
(* the implementation, and several holds may end in one step.              *)
(***************************************************************************)
CONSTANTS
  Users,
  Profiles,  \* talents of pools
  Nobody

VARIABLE holder

Init == holder = [f \in Profiles |-> Nobody]

Acquire(f, u) ==
  /\ holder[f] = Nobody
  /\ holder' = [holder EXCEPT ![f] = u]

Release(ended) ==
  holder' = [f \in Profiles |-> IF f \in ended THEN Nobody ELSE holder[f]]

Next ==
  \/ \E f \in Profiles, u \in Users : Acquire(f, u)
  \/ \E ended \in SUBSET Profiles : Release(ended)

Spec == Init /\ [][Next]_holder
=============================================================================
