---------------------------- MODULE RlinkConnect ----------------------------
(***************************************************************************)
(* RlinkConnect: the command execution engine shared by caller threads     *)
(* and the RlinkServer thread, with the port it drives and the device at   *)
(* the far end.                                                            *)
(*                                                                         *)
(* Threads are foreground callers (Fg) and the server thread (Srv).  Each  *)
(* public operation is split at the points where another thread can run:  *)
(* before the connect mutex is taken, and at every blocking port read.    *)
(*                                                                         *)
(* The byte stream from the device is a sequence of packets (rx): the     *)
(* bytes still in the transport and those already read into the raw      *)
(* buffer of fRcvPkt are one in-order stream.  A packet that fRcvPkt has  *)
(* framed but that was not yet accepted (AcceptPacket) is "held".         *)
(***************************************************************************)
EXTENDS RlinkDecode, FiniteSets

CONSTANTS
  Fg,         \* foreground caller threads
  Srv,        \* the RlinkServer thread
  NoThread,   \* mutex free
  Clist,      \* [Fg \cup {Srv} -> command list] the list each thread executes
  AttnBits,   \* bits of an attention pattern
  MaxOps,     \* operations each thread calls
  MaxPkts,    \* packets the device sends or loses
  MaxStarts   \* server starts

Threads == Fg \cup {Srv}
ASSUME Srv \notin Fg /\ NoThread \notin Threads

VARIABLES
  portOpen,     \* fupPort is set
  srvActive,    \* RlinkServer active (fpServ && fpServ->IsActive())
  owner,        \* holder of fConnectMutex
  pc,           \* where each thread is in its current operation
  clist,        \* each thread's command list (reused across Exec calls)
  ret,          \* result of each thread's last operation
  opsLeft,      \* operations a thread may still call
  rx,           \* packets from the device not yet framed by fRcvPkt
  held,         \* <<p>>: response framed by fRcvPkt and not accepted
  dq,           \* requests sent and not yet answered by the device
  attnPatt,     \* fAttnNotiPatt, a set of bits
  undelivered,  \* ghost: accepted notify bits not yet handed to anyone
  nreq,         \* ghost: requests sent so far; the id of the next request
  reqOf,        \* ghost: id of each thread's last request
  tmo,          \* ghost: ReadResponse failed in the thread's current Exec
  npkt,         \* packets the device sent or lost so far
  nstart        \* server starts so far

vars == <<portOpen, srvActive, owner, pc, clist, ret, opsLeft, rx, held, dq,
          attnPatt, undelivered, nreq, reqOf, tmo, npkt, nstart>>

Pcs == {"idle", "exec_lock", "exec_read", "exec_decode",
        "wait_lock", "wait_read", "hud_lock"}
\* Phases in which a thread holds the mutex and uses fupPort.
PortPcs == {"exec_read", "exec_decode", "wait_read"}

\* ServerActiveOutside(): server active and caller is not the server thread.
ServerActiveOutside(t) == srvActive /\ t # Srv
ServerActiveInside(t) == srvActive /\ t = Srv
\* lock() blocks until fConnectMutex is free.
MutexFree == owner = NoThread

\* Mutant: the mutex is not released on return.
ReleaseNot == owner' = owner
Release == owner' = NoThread
Finish(t, r) == /\ pc' = [pc EXCEPT ![t] = "idle"]
                /\ ret' = [ret EXCEPT ![t] = r]
Goto(t, l) == pc' = [pc EXCEPT ![t] = l]

-----------------------------------------------------------------------------
(* ProcessAttnNotify over the valid notifies among packets ps: a notify    *)
(* with good CRC and non-zero pattern goes to the server if it is active, *)
(* else is ored into fAttnNotiPatt.  Zero or corrupt ones are dropped.    *)
ValidPats(ps) ==
  UNION {ps[i].pat : i \in {k \in 1..Len(ps) : ps[k].kind = "attn" /\ ps[k].crc}}

\* Mutant: the pattern of a valid notify is assigned to fAttnNotiPatt
\* instead of ored into it.
AttnNotifyAssign(ps) ==
  LET pats == ValidPats(ps)
  IN  [patt |-> IF srvActive \/ pats = {} THEN attnPatt ELSE pats,
       und  |-> (undelivered \cup pats) \ (IF srvActive THEN pats ELSE {})]

\* Mutant: the pattern is ored into fAttnNotiPatt even with a server.
AttnNotifyIgnoreServer(ps) ==
  LET pats == ValidPats(ps)
  IN  [patt |-> attnPatt \cup pats,
       und  |-> (undelivered \cup pats) \ (IF srvActive THEN pats ELSE {})]

\* The new fAttnNotiPatt, and the ghost set of accepted bits not yet handed
\* on (those signalled to the server are handed on at once).
AttnNotify(ps) ==
  LET pats == ValidPats(ps)
  IN  [patt |-> IF srvActive THEN attnPatt ELSE attnPatt \cup pats,
       und  |-> (undelivered \cup pats) \ (IF srvActive THEN pats ELSE {})]

ProcessAttnNotify(ps) ==
  /\ attnPatt' = AttnNotify(ps).patt
  /\ undelivered' = AttnNotify(ps).und

\* ProcessUnsolicitedData: frames the packets already read into the raw
\* buffer (a prefix of rx of length k), handles the notifies among them
\* and drops everything else as spurious.
ProcessUnsolicitedData(k) ==
  /\ ProcessAttnNotify(SubSeq(rx, 1, k))
  /\ rx' = SubSeq(rx, k + 1, Len(rx))

-----------------------------------------------------------------------------
(* Exec(clist, cntx, emsg): the port-open check happens before the mutex  *)
(* is taken.                                                               *)
ExecStart(t) ==
  /\ pc[t] = "idle" /\ opsLeft[t] > 0 /\ (t = Srv => srvActive)
  /\ Len(Clist[t]) > 0
  /\ opsLeft' = [opsLeft EXCEPT ![t] = @ - 1]
  /\ IF portOpen
     THEN Goto(t, "exec_lock") /\ UNCHANGED ret
     ELSE Finish(t, "fault")                  \* Bad state: port not open
  /\ UNCHANGED <<portOpen, srvActive, owner, clist, rx, held, dq, attnPatt,
                 undelivered, nreq, reqOf, tmo, npkt, nstart>>

\* Flags Exec clears before sending; the check flags are not among them.
ExecClears == {"send", "pktbeg", "pktend", "done", "labo", "errdec"}

\* Under the mutex: trap an attn command outside the active server, clear
\* the transient flags, recheck the port in ExecPart, encode (kFlagSend)
\* and send the packet.  A failing SndPacket makes Exec return false.
WithFlags(cl, f(_)) == [i \in DOMAIN cl |-> [cl[i] EXCEPT !.flags = f(@)]]
Cleared(F) == F \ ExecClears
\* EncodeRequest: each command gets its sequence number (abstracted to the
\* id s of the request: the per-opcode counters only grow, so no reply to an
\* earlier request echoes it) and kFlagSend; the first command gets
\* kFlagPktBeg, the last kFlagPktEnd.
Encoded(cl, s) ==
  [i \in DOMAIN cl |->
     [cl[i] EXCEPT !.seq = s,
                   !.flags = (@ \ ExecClears) \cup {"send"}
                             \cup (IF i = 1 THEN {"pktbeg"} ELSE {})
                             \cup (IF i = Len(cl) THEN {"pktend"} ELSE {})]]

\* The loop over the commands clears the flags of each in turn, and the
\* attn trap throws at the first attn command: the commands before it are
\* left cleared, the others as they were.
FirstAttn(cl) ==
  CHOOSE i \in DOMAIN cl : cl[i].cmd = "attn" /\ \A k \in 1..(i - 1) : cl[k].cmd # "attn"
ClearedBefore(cl, n) ==
  [i \in DOMAIN cl |-> IF i < n THEN [cl[i] EXCEPT !.flags = Cleared(@)] ELSE cl[i]]

ExecLock(t) ==
  /\ pc[t] = "exec_lock" /\ MutexFree
  /\ IF \E i \in 1..Len(clist[t]) :
          clist[t][i].cmd = "attn" /\ ServerActiveOutside(t)
     THEN /\ Finish(t, "fault")                 \* attn outside active server
          /\ clist' = [clist EXCEPT ![t] = ClearedBefore(@, FirstAttn(@))]
          /\ UNCHANGED <<owner, dq, nreq, reqOf, tmo>>
     ELSE IF ~portOpen
     THEN /\ Finish(t, "fault")                 \* ExecPart: port not open
          /\ clist' = [clist EXCEPT ![t] = WithFlags(@, Cleared)]
          /\ UNCHANGED <<owner, dq, nreq, reqOf, tmo>>
     ELSE /\ clist' = [clist EXCEPT ![t] = Encoded(@, nreq + 1)]
          /\ \/ /\ nreq' = nreq + 1
                /\ reqOf' = [reqOf EXCEPT ![t] = nreq + 1]
                /\ dq' = Append(dq, [id |-> nreq + 1,
                                     cl |-> Encoded(clist[t], nreq + 1)])
                /\ owner' = t /\ Goto(t, "exec_read")
                /\ tmo' = [tmo EXCEPT ![t] = FALSE]
                /\ UNCHANGED ret
             \/ /\ Finish(t, "sendfail")          \* SndPacket failed
                /\ UNCHANGED <<owner, dq, nreq, reqOf, tmo>>
  /\ UNCHANGED <<portOpen, srvActive, opsLeft, rx, held, attnPatt, undelivered,
                 npkt, nstart>>

\* ReadResponse: one pass of its read loop.  ReadData returns bytes when
\* the stream has any; the framed packet is a response (return true), a
\* notify (ProcessAttnNotify, read on) or spurious (dropped, read on).  A
\* response that fRcvPkt still holds unaccepted is returned again as soon
\* as ReadData brings any byte.  ReadData timing out returns false without
\* discarding anything; the deadline passing after a read discards a
\* partially framed packet (AcceptPacket), whose rest is then garbage.
\* ExecPart does not throw on a false return (line 774) and decodes.
Junk == [kind |-> "junk"]

ExecRead(t) ==
  /\ pc[t] = "exec_read"
  /\ \/ /\ held # <<>> /\ rx # <<>>
        /\ Goto(t, "exec_decode")
        /\ UNCHANGED <<rx, held, attnPatt, undelivered, tmo>>
     \/ /\ held = <<>> /\ rx # <<>> /\ Head(rx).kind = "resp"
        /\ held' = <<Head(rx)>> /\ rx' = Tail(rx)
        /\ Goto(t, "exec_decode")
        /\ UNCHANGED <<attnPatt, undelivered, tmo>>
     \/ /\ held = <<>> /\ rx # <<>> /\ Head(rx).kind # "resp"
        /\ ProcessUnsolicitedData(1)
        /\ UNCHANGED <<pc, held, tmo>>
     \/ /\ rx = <<>>                              \* ReadData timeout
        /\ tmo' = [tmo EXCEPT ![t] = TRUE] /\ Goto(t, "exec_decode")
        /\ UNCHANGED <<rx, held, attnPatt, undelivered>>
     \/ /\ held = <<>> /\ rx # <<>>               \* deadline after a read
        /\ \E split \in BOOLEAN :
             rx' = IF split THEN <<Junk>> \o Tail(rx) ELSE rx
        /\ tmo' = [tmo EXCEPT ![t] = TRUE] /\ Goto(t, "exec_decode")
        /\ UNCHANGED <<held, attnPatt, undelivered>>
  /\ UNCHANGED <<portOpen, srvActive, owner, clist, ret, opsLeft, dq, nreq,
                 reqOf, npkt, nstart>>

\* DecodeResponse on what fRcvPkt holds; a count short of the list size
\* throws "incomplete response" (the mutex is released, the response is
\* not accepted).  Otherwise AcceptResponse: accept the packet and process
\* the packets already read behind it.
ExecDecode(t) ==
  LET r == DecodeResponse(clist[t], IF held = <<>> THEN <<>> ELSE held[1].chunks)
  IN  /\ pc[t] = "exec_decode"
      /\ clist' = [clist EXCEPT ![t] = r.cl]
      /\ Release
      /\ IF r.ncmd # Len(clist[t])
         THEN Finish(t, "fault") /\ UNCHANGED <<rx, held, attnPatt, undelivered>>
         ELSE /\ Finish(t, "ok")
              /\ held' = <<>>
              /\ \E k \in 0..Len(rx) : ProcessUnsolicitedData(k)
      /\ UNCHANGED <<portOpen, srvActive, opsLeft, dq, nreq, reqOf, tmo, npkt,
                     nstart>>

-----------------------------------------------------------------------------
(* WaitAttn(timeout, twait, apat, emsg).                                   *)
WaitStart(t) ==
  /\ pc[t] = "idle" /\ opsLeft[t] > 0 /\ (t = Srv => srvActive)
  /\ opsLeft' = [opsLeft EXCEPT ![t] = @ - 1]
  /\ IF ServerActiveOutside(t)
     THEN Finish(t, "fault")               \* not allowed outside active server
     ELSE Goto(t, "wait_lock") /\ UNCHANGED ret
  /\ UNCHANGED <<portOpen, srvActive, owner, clist, rx, held, dq, attnPatt,
                 undelivered, nreq, reqOf, tmo, npkt, nstart>>

\* Harvest pending notifies (return 0); else return 0 on a zero timeout;
\* else wait.  Reading a closed port faults in the port layer.
WaitLock(t) ==
  /\ pc[t] = "wait_lock" /\ MutexFree
  /\ IF attnPatt # {}
     THEN /\ Finish(t, "pending")
          /\ attnPatt' = {} /\ undelivered' = undelivered \ attnPatt
          /\ UNCHANGED owner
     ELSE /\ UNCHANGED <<attnPatt, undelivered>>
          /\ \/ Finish(t, "poll") /\ UNCHANGED owner     \* timeout zero
             \/ /\ ~portOpen /\ Finish(t, "fault") /\ UNCHANGED owner
             \/ /\ portOpen /\ owner' = t /\ Goto(t, "wait_read")
                /\ UNCHANGED ret
  /\ UNCHANGED <<portOpen, srvActive, clist, opsLeft, rx, held, dq, nreq, reqOf,
                 tmo, npkt, nstart>>

\* One pass of the wait loop: time out (-1), or frame the next packet.  A
\* notify leaving fAttnNotiPatt non-zero is harvested (return 1); any
\* other packet, and a response still held, is dropped as spurious.
WaitRead(t) ==
  /\ pc[t] = "wait_read"
  /\ \/ /\ Finish(t, "timeout") /\ Release
        /\ UNCHANGED <<rx, held, attnPatt, undelivered>>
     \/ /\ held # <<>> /\ rx # <<>>
        /\ held' = <<>>
        /\ UNCHANGED <<pc, ret, owner, rx, attnPatt, undelivered>>
     \/ /\ held = <<>> /\ rx # <<>>
        /\ rx' = Tail(rx)
        /\ LET n == AttnNotify(<<Head(rx)>>)
           IN  IF n.patt # {}
               THEN /\ Finish(t, "received") /\ Release
                    /\ attnPatt' = {} /\ undelivered' = n.und \ n.patt
               ELSE /\ attnPatt' = n.patt /\ undelivered' = n.und
                    /\ UNCHANGED <<pc, ret, owner>>
        /\ UNCHANGED held
  /\ UNCHANGED <<portOpen, srvActive, clist, opsLeft, dq, nreq, reqOf, tmo,
                 npkt, nstart>>

-----------------------------------------------------------------------------
(* HandleUnsolicitedData, called by the server thread.                     *)
HudStart ==
  /\ pc[Srv] = "idle" /\ opsLeft[Srv] > 0 /\ ServerActiveInside(Srv)
  /\ opsLeft' = [opsLeft EXCEPT ![Srv] = @ - 1]
  /\ Goto(Srv, "hud_lock")
  /\ UNCHANGED <<portOpen, srvActive, owner, clist, ret, rx, held, dq, attnPatt,
                 undelivered, nreq, reqOf, tmo, npkt, nstart>>

\* A non-blocking ReadData: nothing to read returns at once; otherwise the
\* bytes read (k packets) are processed, a still held response first.
HudLock ==
  /\ pc[Srv] = "hud_lock" /\ MutexFree
  /\ Finish(Srv, "hud")
  /\ IF rx = <<>>
     THEN UNCHANGED <<rx, held, attnPatt, undelivered>>
     ELSE /\ held' = <<>>
          /\ \E k \in 1..Len(rx) : ProcessUnsolicitedData(k)
  /\ UNCHANGED <<portOpen, srvActive, owner, clist, opsLeft, dq, nreq, reqOf,
                 tmo, npkt, nstart>>

-----------------------------------------------------------------------------
(* SndOob(addr, data) and SndAttn(): under the mutex, one packet is sent  *)
(* on fupPort.get(); nothing is read, so it is one step.  The code makes  *)
(* no IsOpen check; what a send on a null port does is decided by         *)
(* RlinkPacketBufSnd, which is not in this tree, so only calls on an open *)
(* port are steps.                                                         *)
SndOob(t) ==
  /\ pc[t] = "idle" /\ opsLeft[t] > 0 /\ MutexFree /\ (t = Srv => srvActive)
  /\ portOpen
  /\ opsLeft' = [opsLeft EXCEPT ![t] = @ - 1]
  /\ ret' = [ret EXCEPT ![t] = "sent"]
  /\ UNCHANGED <<portOpen, srvActive, owner, pc, clist, rx, held, dq, attnPatt,
                 undelivered, nreq, reqOf, tmo, npkt, nstart>>

-----------------------------------------------------------------------------
(* Close() and Open(name) (with "noinit"), called by a foreground thread.  *)
(* Neither takes the connect mutex.  Stopping the server joins its thread. *)
(* A new port is a new transport: nothing of the old stream survives it,  *)
(* but fRcvPkt is not reset.                                               *)
StopsServer == srvActive => pc[Srv] = "idle"

Close(t) ==
  /\ pc[t] = "idle" /\ opsLeft[t] > 0 /\ StopsServer
  /\ opsLeft' = [opsLeft EXCEPT ![t] = @ - 1]
  /\ ret' = [ret EXCEPT ![t] = "close"]
  /\ IF portOpen
     THEN /\ srvActive' = FALSE /\ portOpen' = FALSE
          /\ rx' = <<>> /\ dq' = <<>>
     ELSE UNCHANGED <<srvActive, portOpen, rx, dq>>
  /\ UNCHANGED <<owner, pc, clist, held, attnPatt, undelivered, nreq, reqOf,
                 tmo, npkt, nstart>>

Open(t) ==
  /\ pc[t] = "idle" /\ opsLeft[t] > 0 /\ StopsServer
  /\ opsLeft' = [opsLeft EXCEPT ![t] = @ - 1]
  /\ srvActive' = FALSE /\ rx' = <<>> /\ dq' = <<>>
  /\ \E ok \in BOOLEAN :
       /\ portOpen' = ok
       /\ ret' = [ret EXCEPT ![t] = IF ok THEN "open" ELSE "fail"]
  /\ UNCHANGED <<owner, pc, clist, held, attnPatt, undelivered, nreq, reqOf,
                 tmo, npkt, nstart>>

-----------------------------------------------------------------------------
(* The environment: RlinkServer start and stop, and the device.            *)
StartServer ==
  /\ ~srvActive /\ portOpen /\ nstart < MaxStarts
  /\ srvActive' = TRUE /\ nstart' = nstart + 1
  /\ UNCHANGED <<portOpen, owner, pc, clist, ret, opsLeft, rx, held, dq,
                 attnPatt, undelivered, nreq, reqOf, tmo, npkt>>

StopServer ==
  /\ srvActive /\ pc[Srv] = "idle"
  /\ srvActive' = FALSE
  /\ UNCHANGED <<portOpen, owner, pc, clist, ret, opsLeft, rx, held, dq,
                 attnPatt, undelivered, nreq, reqOf, tmo, npkt, nstart>>

\* The replies the device may send to request req: one body per command in
\* order, each with any status, at most one with a bad CRC, and none after
\* a labo that aborts (non-zero abort byte).
Replies(req) ==
  LET cl == req.cl
      n  == Len(cl)
      Body(i, ab, st, bad) ==
        [cmd |-> cl[i].cmd, seq |-> cl[i].seq, cnt |-> cl[i].bsize,
         babo |-> IF cl[i].cmd = "labo" THEN ab ELSE 0,
         data |-> req.id, stat |-> st[i], crc |-> i # bad]
      Stop(ab) == IF ab = 1 /\ \E i \in 1..n : cl[i].cmd = "labo"
                  THEN CHOOSE i \in 1..n : cl[i].cmd = "labo" /\
                                           \A k \in 1..(i - 1) : cl[k].cmd # "labo"
                  ELSE n
  IN  {[i \in 1..Stop(ab) |-> Body(i, ab, st, bad)] :
         ab \in {0, 1}, st \in [1..n -> {"ok", "err"}], bad \in 0..n}

DevReply ==
  /\ dq # <<>> /\ npkt < MaxPkts
  /\ \E rsp \in Replies(Head(dq)) :
       rx' = Append(rx, [kind |-> "resp", id |-> Head(dq).id, chunks |-> rsp])
  /\ dq' = Tail(dq) /\ npkt' = npkt + 1
  /\ UNCHANGED <<portOpen, srvActive, owner, pc, clist, ret, opsLeft, held,
                 attnPatt, undelivered, nreq, reqOf, tmo, nstart>>

\* A request or its reply lost on the line.
DevLose ==
  /\ dq # <<>> /\ npkt < MaxPkts
  /\ dq' = Tail(dq) /\ npkt' = npkt + 1
  /\ UNCHANGED <<portOpen, srvActive, owner, pc, clist, ret, opsLeft, rx, held,
                 attnPatt, undelivered, nreq, reqOf, tmo, nstart>>

\* An attention notify, possibly zero or with a bad CRC.
DevAttn ==
  /\ portOpen /\ npkt < MaxPkts
  /\ \E pat \in SUBSET AttnBits, crc \in BOOLEAN :
       rx' = Append(rx, [kind |-> "attn", pat |-> pat, crc |-> crc])
  /\ npkt' = npkt + 1
  /\ UNCHANGED <<portOpen, srvActive, owner, pc, clist, ret, opsLeft, held, dq,
                 attnPatt, undelivered, nreq, reqOf, tmo, nstart>>

-----------------------------------------------------------------------------
Init ==
  /\ portOpen = TRUE /\ srvActive = FALSE /\ owner = NoThread
  /\ pc = [t \in Threads |-> "idle"]
  /\ clist = Clist
  /\ ret = [t \in Threads |-> "none"]
  /\ opsLeft = [t \in Threads |-> MaxOps]
  /\ rx = <<>> /\ held = <<>> /\ dq = <<>>
  /\ attnPatt = {} /\ undelivered = {}
  /\ nreq = 0 /\ reqOf = [t \in Threads |-> 0]
  /\ tmo = [t \in Threads |-> FALSE]
  /\ npkt = 0 /\ nstart = 0

\* Every thread has called all its operations and returned.
Terminated ==
  /\ \A t \in Threads : pc[t] = "idle" /\ (opsLeft[t] = 0 \/ (t = Srv /\ ~srvActive))
  /\ UNCHANGED vars

Thread(t) ==
  \/ ExecStart(t) \/ ExecLock(t) \/ ExecRead(t) \/ ExecDecode(t)
  \/ WaitStart(t) \/ WaitLock(t) \/ WaitRead(t)
  \/ SndOob(t)

Next ==
  \/ \E t \in Threads : Thread(t)
  \/ HudStart \/ HudLock
  \/ \E t \in Fg : Close(t) \/ Open(t)
  \/ StartServer \/ StopServer
  \/ DevReply \/ DevLose \/ DevAttn
  \/ Terminated

\* Threads are scheduled fairly; the device and the server start/stop are
\* not: a device may fall silent, and nobody need start or stop a server.
Fairness ==
  /\ \A t \in Threads : WF_vars(Thread(t))
  /\ WF_vars(HudLock)

Spec == Init /\ [][Next]_vars /\ Fairness

-----------------------------------------------------------------------------
(* Properties.                                                              *)
(* The port is never released under a thread that took the connect mutex  *)
(* and is reading or decoding from it: Exec/WaitAttn check IsOpen, then    *)
(* work on fupPort, while Close() resets fupPort without the mutex.        *)
PortInUseOpen ==
  \A t \in Threads : pc[t] \in PortPcs => portOpen /\ owner = t

(* No attention notify is lost: every bit of a valid notify the host      *)
(* processed (ProcessAttnNotify) and has not handed to the server or to a *)
(* WaitAttn caller is still in fAttnNotiPatt, whichever thread's read     *)
(* (Exec, WaitAttn, HandleUnsolicitedData, AcceptResponse) framed it.     *)
AttnNotLost == undelivered \subseteq attnPatt

(* The data a command returns after a successful Exec is from the reply to *)
(* the request that Exec sent, never from a reply to an earlier request.   *)
DataCmds == {"rreg", "rblk", "attn"}
OwnReply ==
  \A t \in Threads :
    pc[t] = "idle" /\ ret[t] = "ok" =>
      \A i \in DOMAIN clist[t] :
        clist[t][i].cmd \in DataCmds /\ "labo" \notin clist[t][i].flags =>
          clist[t][i].data = reqOf[t]

(* A response timeout is a recoverable failure (spec 4.4, 7): Exec reports *)
(* it by returning false, it does not throw.                               *)
TimeoutIsFailure ==
  \A t \in Threads : pc[t] = "idle" /\ tmo[t] => ret[t] # "fault"

(* After a successful Exec a command carries a failed status check only if *)
(* the status its reply returned in this Exec fails the check.             *)
CheckFlagsFresh ==
  \A t \in Threads :
    pc[t] = "idle" /\ ret[t] = "ok" =>
      \A i \in DOMAIN clist[t] :
        "chkstat" \in clist[t][i].flags =>
          "labo" \notin clist[t][i].flags /\ clist[t][i].stat = "err"

(* A command list whose Exec failed to send is left as it was before the  *)
(* Exec (spec 7): no command of it is marked as sent.                     *)
SendFailUnsent ==
  \A t \in Threads :
    ret[t] = "sendfail" => \A i \in DOMAIN clist[t] : "send" \notin clist[t][i].flags

(* The pending-notify pattern behaves as RlinkAttn says: it grows by the  *)
(* bits of received notifies only while no server is active, and shrinks *)
(* only by being harvested as a whole (WaitAttn).                          *)
Attn == INSTANCE RlinkAttn WITH Bits <- AttnBits, pend <- attnPatt, srv <- srvActive
AttnRefined == Attn!Spec

(* Every operation a thread calls returns: port reads are bounded by the   *)
(* timeout and the connect mutex is released on every path.                *)
OpsComplete == \A t \in Threads : pc[t] # "idle" ~> pc[t] = "idle"
=============================================================================
