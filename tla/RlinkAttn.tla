------------------------------ MODULE RlinkAttn ------------------------------
(***************************************************************************)
(* What RlinkConnect promises about attention notifies, abstractly: the   *)
(* pattern of pending notifies (fAttnNotiPatt) collects the bits of the   *)
(* notifies received while no server is active, and is emptied only as a *)
(* whole, by a harvest that hands all of it to a WaitAttn caller.  While  *)
(* a server is active, notifies go to the server and nothing is added.    *)
(***************************************************************************)
CONSTANTS Bits

VARIABLES pend, srv

Init == pend = {} /\ srv = FALSE

\* A notify with pattern bits is received.
Receive(bits) ==
  /\ ~srv /\ bits # {}
  /\ pend' = pend \cup bits
  /\ UNCHANGED srv

\* The whole pending pattern is handed out and cleared.
Harvest == pend # {} /\ pend' = {} /\ UNCHANGED srv

ServerStart == ~srv /\ srv' = TRUE /\ UNCHANGED pend
ServerStop == srv /\ srv' = FALSE /\ UNCHANGED pend

Next ==
  \/ \E bits \in SUBSET Bits : Receive(bits)
  \/ Harvest \/ ServerStart \/ ServerStop

Spec == Init /\ [][Next]_<<pend, srv>>
====
