----------------------------- MODULE VideoDevice ------------------------------
(***************************************************************************)
(* What the capture paths promise about the video node: it has one user    *)
(* at a time, and a new user opens it only after the last has closed it.   *)
(***************************************************************************)
CONSTANTS Users, Nobody

VARIABLE holder  \* who has the video node open

Init == holder = Nobody

Open(u) == holder = Nobody /\ holder' = u

Close == holder # Nobody /\ holder' = Nobody

Next == (\E u \in Users : Open(u)) \/ Close

Spec == Init /\ [][Next]_holder
====
