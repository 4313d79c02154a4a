--------------------------- MODULE MCVirtualMedia ---------------------------
(* Instances of VirtualMedia for TLC. *)
EXTENDS VirtualMedia, TLC

CONSTANTS net, d1, d2

\* MSD is switched off and on, the network function added, the media moved.
MCConfigs ==
    {[msd |-> TRUE, others |-> NoOthers, dir |-> d1],
     [msd |-> FALSE, others |-> NoOthers, dir |-> d1],
     [msd |-> TRUE, others |-> net, dir |-> d1],
     [msd |-> TRUE, others |-> NoOthers, dir |-> d2]}
====
