---------------------------- MODULE RlinkLinkLife ----------------------------
(***************************************************************************)
(* The life cycle of a link as the connection engine promises it (spec    *)
(* 4.3): Closed -> Open(uninitialised) -> Open(initialised), the last     *)
(* reached through the link-init step of open(); close() returns to       *)
(* Closed from any state; link-init once initialised is a no-op success,  *)
(* and, as every exchange, faults on a link that is not open.             *)
(*                                                                         *)
(* link is the state, op the call last made and res what it returned:    *)
(* "ok", "fail" (false) or "throw".                                        *)
(***************************************************************************)
VARIABLES link, op, res

LinkStates == {"closed", "open", "inited"}

Init == link = "closed" /\ op = "none" /\ res = "ok"

\* A call o that leaves the link in state l and returns r.
Call(o, l, r) == op' = o /\ link' = l /\ res' = r

\* open(): the port does not open, or link-init returns false and the
\* port is closed again; with noinit, or when link-init throws, the link
\* is left open and uninitialised; a link-init that succeeds initialises it.
Open ==
  \/ Call("open", "closed", "fail")
  \/ Call("open", "open", "ok")
  \/ Call("open", "open", "throw")
  \/ Call("open", "inited", "ok")

LinkInit ==
  \/ link = "inited" /\ Call("linkinit", "inited", "ok")
  \/ /\ link = "open"
     /\ \/ Call("linkinit", "inited", "ok")
        \/ Call("linkinit", "open", "fail")
        \/ Call("linkinit", "open", "throw")
  \/ link = "closed" /\ Call("linkinit", "closed", "throw")

Close == Call("close", "closed", "ok")

Next == Open \/ LinkInit \/ Close

Spec == Init /\ [][Next]_<<link, op, res>>
====
