---------------------------- MODULE RlinkDecode ----------------------------
(***************************************************************************)
(* The response decoder of RlinkConnect (RlinkConnect::DecodeResponse).    *)
(*                                                                         *)
(* A command of a command list is a record                                 *)
(*   [cmd, seq, bsize, statchk, flags, data, stat]                         *)
(* where cmd is the command code, seq the sequence number EncodeRequest    *)
(* stamped on it, bsize the block length of rblk/wblk,                     *)
(* statchk whether a status expectation is active ("on") or disabled       *)
(* ("off", SetLastExpectStatus(0,0)), flags the RlinkCommand flag bits     *)
(* this layer sets, data the data word and stat the status byte.           *)
(*                                                                         *)
(* The response packet is abstracted to the sequence of per-command reply *)
(* bodies ("chunks") it contains, in wire order:                           *)
(*   [cmd, seq, cnt, babo, data, stat, crc]                                *)
(* cmd and seq are the echoed request byte, cnt the rblk count field, babo the labo *)
(* abort byte, data the data word (for rblk: the block), stat the status   *)
(* byte and crc whether the trailing CRC of this body checks.  A packet    *)
(* too short for the next command (CheckSize fails) is a chunk sequence    *)
(* that ends before it.                                                    *)
(***************************************************************************)
EXTENDS Integers, Sequences, FiniteSets

\* Command codes RlinkCommand::kCmdRreg .. kCmdInit.
Codes == {"rreg", "rblk", "wreg", "wblk", "labo", "attn", "init"}

\* The flag bits written by Exec/EncodeRequest/DecodeResponse.
Flags == {"send", "pktbeg", "pktend", "done", "labo", "errdec", "chkstat"}

SetFlags(c, F) == [c EXCEPT !.flags = @ \cup F]

\* A decode error: the command gets kFlagErrDec and DecodeResponse
\* returns -1 at once, leaving the later commands untouched.
Fail(cl, i, c) == [ncmd |-> -1, cl |-> [cl EXCEPT ![i] = SetFlags(c, {"errdec"})]]

\* The fields read from a reply body before its CRC is checked: the data
\* word (rreg, attn), the block (rblk), the abort byte (labo), and the
\* status byte for every command.
Received(c, r) ==
  [c EXCEPT !.data = CASE c.cmd \in {"rreg", "rblk", "attn"} -> r.data
                       [] c.cmd = "labo"                    -> r.babo
                       [] OTHER                             -> c.data,
            !.stat = r.stat]

\* Mutant: only the command code of the echoed request byte is compared.
MatchesCodeOnly(c, r) == r.cmd = c.cmd
\* The echoed request byte equals cmd.Request(): the command code and the
\* sequence number stamped on the command when it was encoded.
Matches(c, r) == r.cmd = c.cmd /\ r.seq = c.seq

\* Mutant: the disabled status check (mask 0) is ignored.
StatusCheckedIgnoreOff(c) ==
  IF c.stat = "err" THEN SetFlags(c, {"chkstat"}) ELSE c

\* Status check after a good CRC: a failed check sets kFlagChkStat; a
\* passed check leaves the flags as they are.
StatusChecked(c) ==
  IF c.statchk = "on" /\ c.stat = "err" THEN SetFlags(c, {"chkstat"}) ELSE c

\* A command after an active labo: done via labo, no reply consumed.
\* Mutant: marked labo but not done.
LaboSkippedNoDone(c) == SetFlags(c, {"labo"})
LaboSkipped(c) == SetFlags(c, {"done", "labo"})

\* The per-command loop of DecodeResponse: i is the command index, j the
\* next reply body, n the count of handled commands, labo whether an
\* active labo (non-zero abort byte, good CRC) was seen.  Commands after an
\* active labo are marked done+labo without consuming reply bytes.
RECURSIVE DecodeFrom(_, _, _, _, _, _)
DecodeFrom(cl, rsp, i, j, n, labo) ==
  IF i > Len(cl) THEN [ncmd |-> n, cl |-> cl]
  ELSE IF labo
  THEN DecodeFrom([cl EXCEPT ![i] = LaboSkipped(@)],
                  rsp, i + 1, j, n + 1, TRUE)
  ELSE IF j > Len(rsp) THEN Fail(cl, i, cl[i])             \* missing data
  ELSE IF ~Matches(cl[i], rsp[j]) THEN Fail(cl, i, cl[i])  \* command mismatch
  ELSE IF cl[i].cmd = "rblk" /\ rsp[j].cnt # cl[i].bsize
       THEN Fail(cl, i, cl[i])                             \* length mismatch
  ELSE IF ~rsp[j].crc THEN Fail(cl, i, Received(cl[i], rsp[j]))
  ELSE LET c == StatusChecked(SetFlags(Received(cl[i], rsp[j]), {"done"}))
       IN  DecodeFrom([cl EXCEPT ![i] = c], rsp, i + 1, j + 1, n + 1,
                      c.cmd = "labo" /\ c.data # 0)

\* RlinkConnect::DecodeResponse(clist, 0, size-1): the number of decoded
\* commands (-1 on a decode error) and the updated command list.
DecodeResponse(cl, rsp) == DecodeFrom(cl, rsp, 1, 1, 0, FALSE)

-----------------------------------------------------------------------------
(* What Exec does with a list after ExecPart returned true: each command  *)
(* with a failed check (kFlagChkStat; data and done checks are not        *)
(* modelled) or an error (kFlagErrNak, kFlagErrDec) adds one to the       *)
(* context's error count (cntx.IncErrorCount), and the list is logged at  *)
(* level 1 if an error was seen, 2 if a check failed, 3 otherwise.        *)
CheckFound(c) == "chkstat" \in c.flags
ErrorFound(c) == "errdec" \in c.flags
\* Mutant: a command is counted only when it has both a check failure and
\* an error (& for |).
ExecErrorCountBoth(cl) ==
  Cardinality({i \in DOMAIN cl : CheckFound(cl[i]) /\ ErrorFound(cl[i])})
ExecErrorCount(cl) ==
  Cardinality({i \in DOMAIN cl : CheckFound(cl[i]) \/ ErrorFound(cl[i])})
ExecLogLevel(cl) ==
  IF \E i \in DOMAIN cl : ErrorFound(cl[i]) THEN 1
  ELSE IF \E i \in DOMAIN cl : CheckFound(cl[i]) THEN 2
  ELSE 3
=============================================================================
