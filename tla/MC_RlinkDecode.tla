--------------------------- MODULE MC_RlinkDecode ---------------------------
(***************************************************************************)
(* Checks DecodeResponse against a declarative statement of what the      *)
(* decoder must do, for every command list and every reply packet over    *)
(* small bounded sets: one Decode step per pair.                           *)
(***************************************************************************)
EXTENDS RlinkDecode

CONSTANTS
  MCCodes,    \* the command codes used in the lists
  MaxCmds,    \* longest command list
  BlkSizes,   \* block lengths of rblk commands and rblk count fields
  DataVals,   \* data words a reply may carry
  SeqVals     \* sequence numbers a reply may echo (commands carry 0)

ASSUME MCCodes \subseteq Codes /\ MaxCmds \in Nat \ {0}

VARIABLES cl, rsp, res
vars == <<cl, rsp, res>>

Cmd == [cmd : MCCodes, seq : {0}, bsize : BlkSizes, statchk : {"on", "off"},
        flags : {{}}, data : {0}, stat : {"ok"}]
Chunk == [cmd : MCCodes, seq : SeqVals, cnt : BlkSizes, babo : {0, 1}, data : DataVals,
          stat : {"ok", "err"}, crc : BOOLEAN]
SeqsUpTo(S, k) == UNION {[1..m -> S] : m \in 0..k}

Init ==
  /\ cl \in SeqsUpTo(Cmd, MaxCmds) \ {<<>>}
  /\ rsp \in SeqsUpTo(Chunk, MaxCmds)
  /\ res = [ncmd |-> 0, cl |-> cl]

Decode ==
  /\ res.cl = cl /\ res.ncmd = 0
  /\ res' = DecodeResponse(cl, rsp)
  /\ UNCHANGED <<cl, rsp>>

Spec == Init /\ [][Decode]_vars

-----------------------------------------------------------------------------
(* Reference: command i meets reply body i (no body is skipped before the  *)
(* first active labo).                                                     *)
\* Reply body i belongs to command i and is read up to its CRC.
Read(i) ==
  /\ i <= Len(rsp)
  /\ rsp[i].cmd = cl[i].cmd /\ rsp[i].seq = cl[i].seq
  /\ cl[i].cmd = "rblk" => rsp[i].cnt = cl[i].bsize
Good(i) == Read(i) /\ rsp[i].crc
ActiveLabo(i) == Good(i) /\ cl[i].cmd = "labo" /\ rsp[i].babo # 0
Reached(i) == \A k \in 1..(i - 1) : Good(k) /\ ~ActiveLabo(k)
AfterLabo(i) == \E k \in 1..(i - 1) : Reached(k) /\ ActiveLabo(k)
Failing(i) == Reached(i) /\ ~Good(i)

ExpectedFlags(i) ==
  CASE Reached(i) /\ Good(i) -> {"done"}
    [] AfterLabo(i)          -> {"done", "labo"}
    [] Failing(i)            -> {"errdec"}
    [] OTHER                 -> {}

(* The decoder agrees with the spec's account of a response (spec 4.2):    *)
(* it reports every command (ncmd = size) exactly when no command before   *)
(* the first active labo has a missing, mismatched, wrong-length or        *)
(* CRC-failing reply; the commands before the failure are done, the        *)
(* failing one carries the decode error, the ones after it are untouched,  *)
(* and the ones after an active labo are done via labo.  Every command     *)
(* whose reply body was read, the one failing its CRC included, holds the *)
(* status (and data word, or abort byte) of that body; the others keep    *)
(* what they had.                                                          *)
ExpectedStat(i) == IF Reached(i) /\ Read(i) THEN rsp[i].stat ELSE cl[i].stat
ExpectedData(i) ==
  IF Reached(i) /\ Read(i)
  THEN CASE cl[i].cmd \in {"rreg", "rblk", "attn"} -> rsp[i].data
         [] cl[i].cmd = "labo"                    -> rsp[i].babo
         [] OTHER                                 -> cl[i].data
  ELSE cl[i].data
DecodeMatchesReference ==
  res.cl # cl =>
    /\ res.ncmd = IF \E i \in 1..Len(cl) : Failing(i) THEN -1 ELSE Len(cl)
    /\ \A i \in 1..Len(cl) :
         /\ res.cl[i].flags \ {"chkstat"} = ExpectedFlags(i)
         /\ res.cl[i].stat = ExpectedStat(i)
         /\ res.cl[i].data = ExpectedData(i)

(* A failed status check is reported only on a command whose own reply     *)
(* was decoded with a good CRC and carried an error status while its       *)
(* status check was enabled; commands after an active labo consume no      *)
(* reply and never carry one.                                              *)
StatusCheckOnOwnReply ==
  res.cl # cl =>
    \A i \in 1..Len(cl) :
      "chkstat" \in res.cl[i].flags <=>
        Reached(i) /\ Good(i) /\ cl[i].statchk = "on" /\ rsp[i].stat = "err"

(* An Exec whose response decoded completely adds to the context's error  *)
(* count one for each command whose own reply failed its enabled status   *)
(* check (spec 4.3, step 7), and logs the list at level 2 exactly when    *)
(* there is one, at level 3 otherwise (step 8): commands done via labo    *)
(* and commands with a disabled check never count, and level 1 is never   *)
(* reached, since a decode error makes ExecPart throw before the count.   *)
CheckFailures == {i \in 1..Len(cl) :
                    Reached(i) /\ Good(i) /\ cl[i].statchk = "on" /\ rsp[i].stat = "err"}
ExecCountsCheckFailures ==
  res.cl # cl /\ res.ncmd = Len(cl) =>
    /\ ExecErrorCount(res.cl) = Cardinality(CheckFailures)
    /\ ExecLogLevel(res.cl) = IF CheckFailures # {} THEN 2 ELSE 3
=============================================================================
