# TLA+ models of the rlink connection engine and Rw11 units

This directory holds TLA+ models of the code under `src/`, and the TLC configurations that check them. The models cover `RlinkConnect.cpp`, `Rw11UnitRHRP.cpp` and `Rw11UnitTape.cpp`. `PROJECT.json` lists every component, run, mutant, finding and hazard, and maps each model definition to the source lines it translates.

## The system

`RlinkConnect` is the engine that talks to an FPGA board over a byte port.

- **Exec.** A caller hands `Exec` a command list. Exec does the following:
  - checks the port;
  - takes the connect mutex (`boost::lock_guard` on `fConnectMutex`);
  - traps attn commands issued outside the active server;
  - clears the transient flags;
  - encodes and sends one packet (`ExecPart`/`EncodeRequest`);
  - reads the response with a deadline (`ReadResponse`), decodes it (`DecodeResponse`) and accepts it (`AcceptResponse`).
- **Attention notifies.** The device also sends unsolicited attention notifies. Every path that frames packets handles them with `ProcessAttnNotify`:
  - if an `RlinkServer` is active, the pattern goes to the server;
  - otherwise it is ored into `fAttnNotiPatt`.
- **WaitAttn** harvests that pattern, or polls, or waits for a notify.
- **HandleUnsolicitedData** is the server thread's non-blocking poll.
- **Open and Close** replace the port. Neither takes the mutex. Both stop the server, and joining its thread is part of stopping it.

So the engine has these actors:
- foreground caller threads;
- the server thread;
- the device, which replies, loses requests or replies, and sends notifies;
- whoever opens and closes the port.

The Rw11 unit classes hold the configuration of emulated drives:
- `Rw11UnitRHRP::SetType` sets a disk drive's type and geometry.
- `Rw11UnitTape` sets write protect and capacity, and forwards the tape operations.

Both guard their setters against an attached virtual medium.

## Modules

| Module | Models | State / actions |
|---|---|---|
| `RlinkDecode` | `DecodeResponse` (874-1020) | No state. `DecodeFrom` is the RECURSIVE per-command loop over abstract reply bodies `[cmd, seq, cnt, babo, data, stat, crc]`: labo skip, missing data, command mismatch (`Matches`: the echoed request byte, code and sequence number, against `cmd.Request()`, line 903), rblk length mismatch, CRC failure (data and status are stored first), the active-labo latch, and the status check. After it, `ExecErrorCount` and `ExecLogLevel` (410-437) are what `Exec` makes of the decoded list: one context error per command with a failed check or an error, and the log level 1/2/3. |
| `MC_RlinkDecode` | checks `RlinkDecode` | One `Decode` step for every command list (at most 2 commands) and every reply (at most 2 bodies), compared with a declarative reference: `Read`, `Good`, `ActiveLabo`, `Reached`, `AfterLabo`, `Failing`, and the status and data each command must hold. Commands carry sequence number 0, reply bodies echo 0 or 1. |
| `RlinkConnect` | `Exec`, `ExecPart`, `EncodeRequest`, `ReadResponse`, `AcceptResponse`, `WaitAttn`, `HandleUnsolicitedData`, `ProcessUnsolicitedData`, `ProcessAttnNotify`, `DecodeAttnNotify`, `Open` (with noinit), `Close` | Variables: `portOpen`, `srvActive`, `owner` (the mutex: `lock()` is the guard `MutexFree`, `unlock()` is `Release`; the thread predicates are `ServerActiveInside`/`ServerActiveOutside`), per-thread `pc`, `clist` and `ret`, the device stream `rx`, the framed but unaccepted response `held`, the device queue `dq`, `attnPatt` (= `fAttnNotiPatt`), and ghost variables (`undelivered`, `nreq`, `reqOf`, `tmo`). Each operation is split where another thread can run: `ExecStart`/`ExecLock`/`ExecRead`/`ExecDecode`, `WaitStart`/`WaitLock`/`WaitRead`, `HudStart`/`HudLock`. `SndOob` (which also stands for `SndAttn`) is one locked step on an open port; what a send on a null port does is `RlinkPacketBufSnd`'s, not in this tree, so that case is left out. `Encoded` stamps each command with its sequence number and kFlagSend, and the first and last with kFlagPktBeg and kFlagPktEnd. The attn trap of `Exec` throws from inside the loop that clears the flags, so the commands before the first attn command are left cleared (`FirstAttn`, `ClearedBefore`). |
| `MC_RlinkConnect` | instantiates `RlinkConnect` | Thread model values, and the command lists `OneCaller`, `OneReader` and `TwoCallers`. Commands are records `[cmd, seq, bsize, statchk, flags, data, stat]`. |
| `RlinkLink` | `Open` (port open failure; with and without noinit; LinkInit returning false, which closes again, or throwing, which leaves the port open), `LinkInit` (223-278), `Close`, and the configuration setters (565-670): `SetLogBase*`, `SetPrintLevel`, `SetDumpLevel`, `SetTraceLevel`, `SetTimeout`, `LogOpen`/`SetLogFileName`, `LogUseStream` | Variables: `dev` (the device behind the port), `id` (the link identity: `fLinkInitDone`, `fRbufSize`, `fSysId`, `fUsrAcc`, `fHasRbmon` and the names in the address map), `ret`, `op` (the call last made, for the refinement) and `calls`; `conf` (the radices, print and dump levels and timeout), `traceLevel` (`fTraceLevel`), `portTrace` (the trace level of the port) and `log` (where `fspLog` writes). A setter that throws on a bad argument (radix not 2/8/16, timeout not positive) changes nothing, so only its accepted calls are steps; the setters may interleave with every call, since the code lets them run in any link state. A device is a record giving its system id, its RBSize field, whether it has the USR_ACCESS registers (and their value) and whether it has the rbus monitor. |
| `MC_RlinkLink` | instantiates `RlinkLink` | Two devices that differ in every optional feature. |
| `RlinkLinkLife` | abstract specification of the link life cycle (spec 4.3) | `link` is closed, open or initialised; `op` is the call last made and `res` what it returned. `Open`, `LinkInit` and `Close` move the link as spec 4.3 says: a link-init on a closed link faults like every exchange. `RlinkLink` is mapped onto it with `Life == INSTANCE RlinkLinkLife WITH link <- LinkState, res <- ret`; `LinkState` is closed without a port, initialised when `fLinkInitDone` is set, open otherwise. |
| `RlinkAttn` | abstract specification of `fAttnNotiPatt` | `pend` grows by received bits only while no server is active (`Receive`), and is emptied only as a whole (`Harvest`). `RlinkConnect` implements it through `Attn == INSTANCE RlinkAttn WITH pend <- attnPatt, srv <- srvActive`, and `AttnRefined == Attn!Spec` is checked as a property. |
| `Rw11Units` | `Rw11UnitRHRP::SetType`, the constructors, and `Rw11UnitTape::SetType/SetWProt/SetCapacity`, `SetPos*` (`SetPos`, throws without a tape) and `Virt*` (`VirtOp`, returns false without a tape) | Variables `disk`, `tape`, `virt` (the attached medium and the configuration it was opened with) and `hw` (the controller's drive type after `UnitSetup`). |

### How the RlinkConnect model abstracts the code

- The byte stream is a sequence of whole packets. A packet split by a deadline becomes a leading `Junk` packet.
- A response is a sequence of reply bodies, one per command, as generated by `Replies`. A body may carry a bad CRC or an error status, and a body is omitted after an aborting labo.
- Attention patterns are sets of bits, so or is union.
- `held` models `RlinkPacketBufRcv` keeping a framed packet until `AcceptPacket`.
- Some definitions come from interfaces whose code is not in this tree, and are marked `spec_modelled` in the map:
  - `RlinkServer` start and stop (`StartServer`/`StopServer`);
  - the device (`DevReply`, `DevLose`, `DevAttn`);
  - the port layer failing a read on a closed port (in `WaitLock`);
  - `RlinkCommand` (`Codes`, `Flags`, `SetFlags`).
- The sequence number EncodeRequest stamps (line 803, `fSeqNumber[ccode]++`) is abstracted to the id of the request. The per-opcode counters only grow, so a reply to an earlier request never echoes the current request byte; the widths at which they wrap are declared in headers not in this tree.
- Left out: data words beyond the request id, which is put into read data so that `OwnReply` can tell replies apart; expect objects other than the status check; statistics and logging.

## Runs

| Run | Config | Expect | What it shows |
|---|---|---|---|
| `decode_reference` | `MC_RlinkDecode.cfg` | pass | `DecodeMatchesReference`: the decoder reports every command exactly when nothing before the first active labo fails. Commands before a failure are done, the failing one is marked errdec, later ones are untouched, and the ones after an active labo are done via labo. Every command whose body was read holds that body's status and data, the CRC-failing one included (line 955 stores them before the CRC test). `StatusCheckOnOwnReply`: kFlagChkStat appears only on a command whose own good-CRC reply had an error status and whose check was enabled. `ExecCountsCheckFailures`: a completely decoded Exec counts exactly the commands whose own reply failed an enabled status check and logs at level 2 exactly when there is one, else at 3; level 1 is never reached, because a decode error throws in `ExecPart` before the count. |
| `connect_safety` | `MC_RlinkConnect.cfg` | pass | One caller runs `<<rreg>>` and the server runs `<<attn>>`. They interleave with Open, Close, server start and stop, and a device that loses requests and delays replies. `OwnReply`: the data of a successful Exec comes from the reply to its own request. A reply that misses its timeout is read by the next Exec, or is returned again from the unaccepted packet after an incomplete-response throw; the sequence number in the echoed request byte (803, 903) makes that Exec throw instead of taking it. `AttnRefined`: the pending-notify pattern refines `RlinkAttn`. `OpsComplete`: every started operation returns, whatever the device does. |
| `connect_attn` | `MC_RlinkConnect_attn.cfg` | pass | The same threads with two attention bits: `AttnNotLost`, an accepted notify bit stays in `fAttnNotiPatt` until it is harvested or signalled to the server, whichever read framed it. With two bits a notify that assigned its pattern (`=` for `|=` at line 1180) would drop a pending bit. |
| `connect_closerace` | `MC_RlinkConnect_closerace.cfg` | violation | With two foreground threads, Close runs while the other thread holds the mutex in Exec. |
| `connect_timeout` | `MC_RlinkConnect_timeout.cfg` | violation | A timeout makes Exec throw: `ReadResponse` returns false (1088-1091), `ExecPart` goes on (774), `DecodeResponse` finds no data and line 779 throws "incomplete response". |
| `connect_chkflags` | `MC_RlinkConnect_chkflags.cfg` | violation | A command list is executed twice and the status-check flag from the first Exec survives. |
| `connect_sendfail` | `MC_RlinkConnect_sendfail.cfg` | violation | After a failed `SndPacket`, Exec returns false with every command flagged as sent. |
| `link_identity` | `MC_RlinkLink.cfg` | pass | `TypeOK` (which includes the buffer sizes the 3-bit RBSize field allows), and `IdentityOfDevice`: after any 4 calls on two devices, an initialised link reports the connected device's system id, buffer size and USR_ACCESS value (0 when it has none). `PortTraceFollows`: an open port traces at the connection's trace level in any order of `SetTraceLevel`, `Open` and `Close`; a level set while closed reaches the next port only because `Open` copies `fTraceLevel` into it (line 184). |
| `link_features` | `MC_RlinkLink_features.cfg` | violation | Open device A (with rbus monitor and USR_ACCESS), then reopen to device B (with neither). `HasRbmon()` and the `rl.ua*` names still report A. |
| `link_lifecycle` | `MC_RlinkLink_life.cfg` | violation | `LinkLifeRefined`: open A with link-init, then reopen with a port that fails to open (or Close); `LinkInit` returns true on the link without a port. |
| `units` | `MC_Rw11Units.cfg` | pass | `TypeOK`, and `AttachedConfigStable`: an attached medium always sees the configuration it was opened with. |

Each property of a passing run has a mutant in `PROJECT.json`: a plausible bug in a mapped definition, and TLC finds the property violated once that bug is put in. The mutants:
- the unlock is missing;
- the decoder compares only the command code of the echoed request byte, not its sequence number;
- a valid notify assigns its pattern instead of oring it;
- the labo skip does not mark done;
- a disabled status check is still applied;
- Exec counts a command only when it has both a check failure and an error;
- a new port keeps its own default trace level;
- SetType takes an unknown type;
- SetType ignores an attached file;
- a notify is ored into the pending pattern even while a server is active (this breaks `AttnRefined`);
- LinkInit derives a buffer size one power of two too small;
- Open does not reset `fUsrAcc`.

## Bounds

- `MaxOps = 2` operations per thread. This is enough for a timed-out Exec followed by a second Exec, or an Exec followed by Close.
- `MaxPkts = 2` device packets. This allows a reply plus a notify, or a late reply plus a new one.
- `MaxStarts = 1` server start.
- `AttnBits = {1}` in `connect_safety`, which also checks liveness; `AttnBits = {1, 2}` in `connect_attn`, the least that tells `|=` from `=` for a valid notify (one pending bit, then a notify of the other).
- `MaxCalls = 4` in `RlinkLink`. The shortest stale-identity trace is 3 calls (a failed open, open A, open B), and 4 allows a Close or a second LinkInit in between.
- `RadixArgs = {8, 10}`, `LevelArgs = {0, 1}`, `TimeoutArgs = {0, 5}`: one accepted value other than the default and one rejected value for each setter. The configuration setters are not counted in `MaxCalls`; their values are finite, so the state space stays bounded (about 104,000 states).
- In the decode run, the command codes are rreg, rblk, labo and wblk, with block sizes 1 and 2. This reaches every branch of the decoder: a labo before another command, rblk length mismatch, and each failure at position 1 or 2.

## Fairness

- Each thread's steps are weakly fair: a thread that can run does run. The same holds for the server's poll (`HudLock`). The code never blocks a thread other than on the mutex, and on reads bounded by a timeout.
- The device is not fair: it may stay silent or lose everything. The spec bounds every wait with a timeout, so liveness must hold without it.
- Server start and stop are not fair, since the application decides them.

## Findings

1. **Timeout is a fault, not a failure.** `ExecPart` ignores `ReadResponse`'s false return at `RlinkConnect.cpp:774`, and the decode of the missing response throws "incomplete response" at 779. Spec §7 calls a timeout a recoverable failure.
2. **Close takes no lock.** `Close` does not take the connect mutex, which is unsafe with two foreground threads.
3. **Check flags survive reuse.** Exec does not clear the check-failure flags of a reused command list.
4. **Link identity is stale after reopening.** Open resets neither `fHasRbmon` nor the address map (`RlinkConnect.cpp:186`).
5. **A failed send leaves commands flagged as sent.** `EncodeRequest` flags every command as sent before `SndPacket` fails.
6. **LinkInit succeeds on a closed link.** `LinkInit` returns true as soon as `fLinkInitDone` is set (line 225). Close never clears it, and Open clears it only after a port opened (line 186). After Close, or an Open whose port fails, `LinkInit` reports an initialised link that has no port. Spec 4.3 says close() returns the link to Closed from any state.

## Not modelled, and the plan

- **The attn-command trap against a server start** (line 371). `RlinkServer::Start` is not in this tree, so the model cannot say whether starting the server waits for an Exec in progress.
- **SndOob/SndAttn on a closed port.** The code makes no `IsOpen` check, but what `SndPacket` does with a null port is decided in `RlinkPacketBufSnd`, not in this tree.
- **Sequence counter wrap** (line 803). The widths are in headers not in this tree; the model's counters only grow.
- **The logging itself.** `ExecLogLevel` models which level Exec picks; what `Print` and `Dump` write is formatting and has no protocol state. The count is checked on the decoded list in `decode_reference`, not carried as a variable of the engine model, because an extra counter multiplies the engine's state space beyond the time budget.
- **Data and done checks.** Expect objects are not modelled, so `kFlagChkData` and `kFlagChkDone` never arise; `CheckFound` tests the status check only.
- **Rw11VirtTerm::New and the headers.** `New` is a scheme dispatch to the pty and tcp subclasses, whose `Open` is not in this tree, and it keeps no state of its own; the headers only declare classes implemented elsewhere. `Print` and `Dump` only format.
- **Next steps:**
  - an abstract exchange specification that `RlinkConnect` refines with one foreground thread;
  - a composition of `RlinkLink` with the engine, so that LinkInit's Exec runs through the modelled Exec. Both are held back by the engine run's time budget: the engine run already takes about 1.5 minutes with one bit and would grow with a second caller.
