------------------------------ MODULE RlinkLink ------------------------------
(***************************************************************************)
(* The link identity of RlinkConnect: Open(name), LinkInit() and Close(),  *)
(* called in sequence by the thread that owns the connection, against a   *)
(* choice of devices.                                                      *)
(*                                                                         *)
(* A device is a record [sysid, rbsize, ua, uaval, rbmon]: the value of    *)
(* RLID1/RLID0, the RBSize field of RLSTAT, whether the optional RLUA1/0   *)
(* registers answer without a bus error and what they hold, and whether   *)
(* the rbus monitor register RMBASE answers.  The Exec of LinkInit's      *)
(* command list returns true, returns false (send failure) or throws      *)
(* (timeout or decode error, see RlinkConnect.tla).                        *)
(***************************************************************************)
EXTENDS Integers

CONSTANTS
  Devices,    \* the devices a port name may reach
  NoDev,      \* no port
  MaxCalls,   \* calls of Open, LinkInit and Close
  RadixArgs,  \* arguments given to SetLogBase*
  LevelArgs,  \* arguments given to SetPrintLevel, SetDumpLevel, SetTraceLevel
  TimeoutArgs \* arguments given to SetTimeout, in seconds

\* The names LinkInit enters into the address map.
CoreNames == {"rl.cntl", "rl.stat", "rl.id1", "rl.id0"}
UaNames == {"rl.ua1", "rl.ua0"}

VARIABLES
  dev,     \* the device behind fupPort, NoDev when closed
  id,      \* [done, rbuf, sysid, usracc, rbmon, amap]: fLinkInitDone,
           \* fRbufSize, fSysId ("none" for 0xffffffff), fUsrAcc,
           \* fHasRbmon and the names in the address map
  ret,     \* result of the last call
  op,      \* the last call: "none", "open", "linkinit" or "close"
  calls,   \* calls made so far
  conf,    \* [addr, data, stat, print, dump, timeout]: fLogBaseAddr,
           \* fLogBaseData, fLogBaseStat, fPrintLevel, fDumpLevel, fTimeout
  traceLevel, \* fTraceLevel
  portTrace,  \* the trace level of the port behind fupPort
  log         \* where fspLog writes: "cout", "file" or "stream"

vars == <<dev, id, ret, op, calls, conf, traceLevel, portTrace, log>>
cfgVars == <<conf, traceLevel, log>>

Outcomes == {"ok", "fail", "throw"}

\* The buffer sizes LinkInit can derive from the 3-bit RBSize field, and
\* the 2 kB startup value.
RbufSizes == {2 ^ (10 + k) : k \in 0..7}
ASSUME \A d \in Devices : d.rbsize \in 0..7

-----------------------------------------------------------------------------
(* LinkInit on a link not yet initialised, after an Exec that returned     *)
(* true: map the core names, derive the buffer size from RLSTAT and the   *)
(* system id from RLID1/0; map the UA names and take fUsrAcc only when    *)
(* both RLUA registers answered; set fHasRbmon when RMBASE answered.      *)
\* Mutant: the buffer size is taken one power of two too small.
InitedRbufLow(i, d) ==
  [i EXCEPT !.done = TRUE,
            !.rbuf = 2 ^ (9 + d.rbsize),
            !.sysid = d.sysid,
            !.usracc = IF d.ua THEN d.uaval ELSE @,
            !.amap = @ \cup CoreNames \cup (IF d.ua THEN UaNames ELSE {}),
            !.rbmon = IF d.rbmon THEN TRUE ELSE @]
Inited(i, d) ==
  [i EXCEPT !.done = TRUE,
            !.rbuf = 2 ^ (10 + d.rbsize),
            !.sysid = d.sysid,
            !.usracc = IF d.ua THEN d.uaval ELSE @,
            !.amap = @ \cup CoreNames \cup (IF d.ua THEN UaNames ELSE {}),
            !.rbmon = IF d.rbmon THEN TRUE ELSE @]

\* LinkInit's effect for an Exec outcome: nothing once done, nothing when
\* Exec returns false or throws.
AfterLinkInit(i, d, res) ==
  IF ~i.done /\ res = "ok" THEN Inited(i, d) ELSE i
LinkInitRet(i, res) == IF i.done THEN "ok" ELSE res

LinkInit ==
  /\ calls < MaxCalls /\ calls' = calls + 1 /\ op' = "linkinit"
  /\ \/ /\ dev = NoDev                       \* Exec: port not open
        /\ ret' = LinkInitRet(id, "throw") /\ UNCHANGED id
     \/ /\ dev # NoDev
        /\ \E res \in Outcomes :
             /\ id' = AfterLinkInit(id, dev, res)
             /\ ret' = LinkInitRet(id, res)
  /\ UNCHANGED <<dev, portTrace, cfgVars>>

-----------------------------------------------------------------------------
(* Close: releases the port; the link identity is left as it is.          *)
Close ==
  /\ calls < MaxCalls /\ calls' = calls + 1 /\ op' = "close"
  /\ dev' = NoDev /\ ret' = "ok"
  /\ UNCHANGED <<id, portTrace, cfgVars>>

\* Mutant: Open does not reset fUsrAcc.
OpenResetKeepUsrAcc(i) == [i EXCEPT !.done = FALSE, !.rbuf = 2048, !.sysid = "none"]
\* The identity Open resets on a new port.
OpenReset(i) ==
  [i EXCEPT !.done = FALSE, !.rbuf = 2048, !.sysid = "none", !.usracc = 0]

(* Open(name): Close, then open a port; a failed open returns false.  On  *)
(* a new port the identity is reset and, unless the name has "noinit",    *)
(* LinkInit runs: false closes the port again and returns false, a throw  *)
(* propagates with the port left open.                                     *)
\* Mutant: the new port keeps its own default trace level.
OpenPortTraceDefault == 0
\* The trace level Open hands to the new port (fupPort->SetTraceLevel).
OpenPortTrace == traceLevel

Open ==
  /\ calls < MaxCalls /\ calls' = calls + 1 /\ op' = "open"
  /\ UNCHANGED cfgVars
  /\ \/ /\ dev' = NoDev /\ ret' = "fail" /\ UNCHANGED <<id, portTrace>>
     \/ /\ portTrace' = OpenPortTrace
        /\ \E d \in Devices, noinit \in BOOLEAN, res \in Outcomes :
             LET i == OpenReset(id) IN
             IF noinit
             THEN dev' = d /\ id' = i /\ ret' = "ok"
             ELSE /\ id' = AfterLinkInit(i, d, res)
                  /\ dev' = IF res = "fail" THEN NoDev ELSE d
                  /\ ret' = res

Init ==
  /\ dev = NoDev
  /\ id = [done |-> FALSE, rbuf |-> 2048, sysid |-> "none", usracc |-> 0,
           rbmon |-> FALSE, amap |-> {}]
  /\ ret = "ok" /\ op = "none"
  /\ calls = 0
  /\ conf = [addr |-> 16, data |-> 16, stat |-> 16, print |-> 2, dump |-> 0,
             timeout |-> 10]
  /\ traceLevel = 0 /\ portTrace = 0 /\ log = "cout"

-----------------------------------------------------------------------------
(* The configuration setters.  They may be called at any time, whatever   *)
(* the state of the link.  A setter that throws on a bad argument changes *)
(* nothing, so only its accepted calls are steps.                          *)
setterVars == <<dev, id, ret, op, calls>>

\* SetLogBaseAddr/Data/Stat: only 2, 8 and 16 are taken.
SetLogBase(f, b) ==
  /\ b \in {2, 8, 16}
  /\ conf' = [conf EXCEPT ![f] = b]
  /\ UNCHANGED <<setterVars, traceLevel, portTrace, log>>

\* SetPrintLevel and SetDumpLevel.
SetLevel(f, l) ==
  /\ conf' = [conf EXCEPT ![f] = l]
  /\ UNCHANGED <<setterVars, traceLevel, portTrace, log>>

\* SetTraceLevel: also passed on to the port when one is open.
SetTraceLevel(l) ==
  /\ traceLevel' = l
  /\ portTrace' = IF dev # NoDev THEN l ELSE portTrace
  /\ UNCHANGED <<setterVars, conf, log>>

\* SetTimeout: the timeout must be positive.
SetTimeout(t) ==
  /\ t > 0
  /\ conf' = [conf EXCEPT !.timeout = t]
  /\ UNCHANGED <<setterVars, traceLevel, portTrace, log>>

\* LogOpen and SetLogFileName (the same, throwing where LogOpen returns
\* false): a file that does not open leaves the log on cout.
LogOpen ==
  /\ \E ok \in BOOLEAN : log' = IF ok THEN "file" ELSE "cout"
  /\ UNCHANGED <<setterVars, conf, traceLevel, portTrace>>

LogUseStream ==
  /\ log' = "stream"
  /\ UNCHANGED <<setterVars, conf, traceLevel, portTrace>>

Configure ==
  \/ \E f \in {"addr", "data", "stat"}, b \in RadixArgs : SetLogBase(f, b)
  \/ \E f \in {"print", "dump"}, l \in LevelArgs : SetLevel(f, l)
  \/ \E l \in LevelArgs : SetTraceLevel(l)
  \/ \E t \in TimeoutArgs : SetTimeout(t)
  \/ LogOpen
  \/ LogUseStream

\* The owner of the connection may stop calling at any point.
Done == calls = MaxCalls /\ UNCHANGED vars

Next == Open \/ LinkInit \/ Close \/ Configure \/ Done

Spec == Init /\ [][Next]_vars

-----------------------------------------------------------------------------
(* Properties.                                                              *)

(* Type invariant.                                                         *)
TypeOK ==
  /\ dev \in Devices \cup {NoDev}
  /\ id.done \in BOOLEAN /\ id.rbmon \in BOOLEAN /\ id.rbuf \in RbufSizes
  /\ id.amap \subseteq CoreNames \cup UaNames
  /\ ret \in Outcomes /\ op \in {"none", "open", "linkinit", "close"}
  /\ calls \in 0..MaxCalls
  /\ conf \in [addr : {2, 8, 16}, data : {2, 8, 16}, stat : {2, 8, 16},
               print : Nat, dump : Nat, timeout : Nat \ {0}]
  /\ traceLevel \in Nat /\ portTrace \in Nat
  /\ log \in {"cout", "file", "stream"}

(* What an initialised link reports is the connected device's: its        *)
(* system id, the buffer size from its RLSTAT, and its USR_ACCESS value   *)
(* or 0 when it has none.  Open must reset every value LinkInit only sets *)
(* conditionally, or a reopen to another device shows the old one's.      *)
IdentityOfDevice ==
  id.done /\ dev # NoDev =>
    /\ id.sysid = dev.sysid
    /\ id.rbuf = 2 ^ (10 + dev.rbsize)
    /\ id.usracc = IF dev.ua THEN dev.uaval ELSE 0

(* The optional features an initialised link reports are the connected   *)
(* device's: HasRbmon() and the rl.ua0/rl.ua1 names of the address map.  *)
OptionalFeaturesOfDevice ==
  id.done /\ dev # NoDev =>
    /\ id.rbmon = dev.rbmon
    /\ (UaNames \subseteq id.amap) = dev.ua

(* The life cycle of the link is the one RlinkLinkLife gives: a link is   *)
(* closed without a port, initialised when fLinkInitDone is set on an     *)
(* open port, open otherwise; and every call of Open, LinkInit and Close  *)
(* moves it, and returns, as that specification allows.  In particular    *)
(* LinkInit on a link that Close (or a failed Open) left without a port   *)
(* must not report success.                                                *)
LinkState == IF dev = NoDev THEN "closed" ELSE IF id.done THEN "inited" ELSE "open"
Life == INSTANCE RlinkLinkLife WITH link <- LinkState, res <- ret
LinkLifeRefined == Life!Spec

(* The port of an open link traces at the connection's trace level, in    *)
(* whatever order SetTraceLevel, Open and Close were called: the level     *)
(* set on a closed connection must reach the port Open creates later, and  *)
(* a level set on an open one must reach its port at once (spec: the      *)
(* configuration is mutable at any time, independent of link state).     *)
PortTraceFollows == dev # NoDev => portTrace = traceLevel
====
