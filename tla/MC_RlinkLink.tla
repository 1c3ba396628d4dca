---------------------------- MODULE MC_RlinkLink ----------------------------
(***************************************************************************)
(* Two devices that differ in every optional feature: one with USR_ACCESS *)
(* registers and an rbus monitor, one with neither and a larger buffer.   *)
(***************************************************************************)
EXTENDS RlinkLink

MCDevices ==
  { [sysid |-> "sysA", rbsize |-> 0, ua |-> TRUE, uaval |-> 7, rbmon |-> TRUE],
    [sysid |-> "sysB", rbsize |-> 2, ua |-> FALSE, uaval |-> 0, rbmon |-> FALSE] }
====
