------------------------------ MODULE Rw11Units ------------------------------
(***************************************************************************)
(* The unit-level configuration of Rw11 disk and tape units: the drive    *)
(* type of an RH70 disk unit (Rw11UnitRHRP::SetType) and the write        *)
(* protect and capacity of a tape unit (Rw11UnitTape), against the attach *)
(* and detach of a virtual medium (Rw11UnitVirt::Attach/Detach, not in    *)
(* this source tree: modelled at its interface).                          *)
(*                                                                         *)
(* An attached medium is opened with the unit's geometry (disk) or write  *)
(* protect and capacity (tape) as they are at attach time; those are      *)
(* recorded with the attachment.                                           *)
(***************************************************************************)
EXTENDS Integers, TLC

CONSTANTS
  Disks,      \* RH70 disk units
  Tapes,      \* tape units
  TypeArgs,   \* type strings passed to SetType, valid and not
  CapArgs,    \* capacities passed to SetCapacity
  None        \* no medium attached

\* SetType's table: drive type -> <<fNCyl, fNHead, fNSect>>.
Geometry ==
  ("off" :> <<0, 0, 0>>) @@ ("rp04" :> <<411, 19, 22>>) @@
  ("rp06" :> <<815, 19, 22>>) @@ ("rm03" :> <<823, 5, 32>>) @@
  ("rm80" :> <<559, 14, 31>>) @@ ("rm05" :> <<823, 19, 32>>) @@
  ("rp07" :> <<630, 32, 50>>)
DiskTypes == DOMAIN Geometry

VARIABLES
  disk,       \* [Disks -> [type, ncyl, nhead, nsect, nblock, enabled]]
  tape,       \* [Tapes -> [wprot, capacity]]
  virt,       \* [Disks \cup Tapes -> None or the unit state at attach]
  hw,         \* drive type the controller was last set up with (UnitSetup)
  ret         \* result of the last call: "ok", "throw" or "noattach"

vars == <<disk, tape, virt, hw, ret>>
Units == Disks \cup Tapes

HasVirt(u) == virt[u] # None

\* Constructor: type "off", disabled, no geometry.
DiskInit == [type |-> "off", ncyl |-> 0, nhead |-> 0, nsect |-> 0,
             nblock |-> 0, enabled |-> FALSE]
TapeInit == [wprot |-> FALSE, capacity |-> 0]

-----------------------------------------------------------------------------
(* Rw11UnitRHRP::SetType(type).                                            *)
\* The unit after a valid type: geometry from the table, fEnabled and
\* fNBlock derived from it.
Typed(type) ==
  LET g == Geometry[type]
  IN  [type |-> type, ncyl |-> g[1], nhead |-> g[2], nsect |-> g[3],
       nblock |-> g[1] * g[2] * g[3], enabled |-> g[1] # 0]

\* Mutant: SetType does not check for an attached file.
SetTypeAllowedAlways(u) == TRUE
SetTypeAllowed(u) == ~HasVirt(u)

\* Mutant: the final else does not throw; fType is set and the geometry
\* of the previous type is kept.
SetTypeUnknownKept(u, type) ==
  /\ IF SetTypeAllowed(u)
     THEN /\ disk' = [disk EXCEPT ![u] =
                        IF type \in DiskTypes THEN Typed(type)
                        ELSE [@ EXCEPT !.type = type]]
          /\ hw' = [hw EXCEPT ![u] = type]
          /\ ret' = "ok"
     ELSE ret' = "throw" /\ UNCHANGED <<disk, hw>>
  /\ UNCHANGED <<tape, virt>>

SetType(u, type) ==
  /\ IF SetTypeAllowed(u) /\ type \in DiskTypes
     THEN /\ disk' = [disk EXCEPT ![u] = Typed(type)]
          /\ hw' = [hw EXCEPT ![u] = type]
          /\ ret' = "ok"
     ELSE /\ ret' = "throw"       \* Bad state: file attached / Bad args
          /\ UNCHANGED <<disk, hw>>
  /\ UNCHANGED <<tape, virt>>

-----------------------------------------------------------------------------
(* Rw11UnitTape: SetType always throws; SetWProt and SetCapacity only      *)
(* without an attached tape; the positioning and record operations need   *)
(* one and are otherwise passed to the virtual tape.                       *)
TapeSetType(u) == ret' = "throw" /\ UNCHANGED <<disk, tape, virt, hw>>

TapeConfigurable(u) == ~HasVirt(u)

SetWProt(u, w) ==
  /\ IF TapeConfigurable(u)
     THEN tape' = [tape EXCEPT ![u].wprot = w] /\ ret' = "ok"
     ELSE ret' = "throw" /\ UNCHANGED tape
  /\ UNCHANGED <<disk, virt, hw>>

SetCapacity(u, n) ==
  /\ IF ~HasVirt(u)
     THEN tape' = [tape EXCEPT ![u].capacity = n] /\ ret' = "ok"
     ELSE ret' = "throw" /\ UNCHANGED tape
  /\ UNCHANGED <<disk, virt, hw>>

\* SetPosFile/SetPosRecord throw without a tape; VirtReadRecord,
\* VirtWriteRecord, VirtWriteEof, VirtSpaceForw, VirtSpaceBack and
\* VirtRewind return false ("no tape attached").  With a tape they are
\* the virtual tape's business, which this layer does not see.
SetPos(u) ==
  /\ ret' = IF HasVirt(u) THEN "ok" ELSE "throw"
  /\ UNCHANGED <<disk, tape, virt, hw>>

VirtOp(u) ==
  /\ ret' = IF HasVirt(u) THEN "ok" ELSE "noattach"
  /\ UNCHANGED <<disk, tape, virt, hw>>

-----------------------------------------------------------------------------
(* Attach and detach (Rw11UnitVirt, modelled at its interface): a medium  *)
(* is opened for a unit with nothing attached and records the unit       *)
(* configuration it was opened with.                                      *)
Attach(u) ==
  /\ ~HasVirt(u)
  /\ virt' = [virt EXCEPT ![u] = IF u \in Disks THEN disk[u] ELSE tape[u]]
  /\ ret' = "ok"
  /\ UNCHANGED <<disk, tape, hw>>

Detach(u) ==
  /\ HasVirt(u)
  /\ virt' = [virt EXCEPT ![u] = None] /\ ret' = "ok"
  /\ UNCHANGED <<disk, tape, hw>>

Init ==
  /\ disk = [u \in Disks |-> DiskInit]
  /\ tape = [u \in Tapes |-> TapeInit]
  /\ virt = [u \in Units |-> None]
  /\ hw = [u \in Disks |-> "off"]
  /\ ret = "ok"

Next ==
  \/ \E u \in Disks, type \in TypeArgs : SetType(u, type)
  \/ \E u \in Tapes : TapeSetType(u)
  \/ \E u \in Tapes, w \in BOOLEAN : SetWProt(u, w)
  \/ \E u \in Tapes, n \in CapArgs : SetCapacity(u, n)
  \/ \E u \in Tapes : SetPos(u) \/ VirtOp(u)
  \/ \E u \in Units : Attach(u) \/ Detach(u)

Spec == Init /\ [][Next]_vars

-----------------------------------------------------------------------------
(* Properties.                                                              *)
(* Type invariant: a disk unit only ever has a drive type of SetType's   *)
(* table (an unknown type string throws and changes nothing).             *)
TypeOK ==
  /\ disk \in [Disks -> [type : DiskTypes, ncyl : Nat, nhead : Nat,
                         nsect : Nat, nblock : Nat, enabled : BOOLEAN]]
  /\ tape \in [Tapes -> [wprot : BOOLEAN, capacity : CapArgs \cup {0}]]
  /\ hw \in [Disks -> DiskTypes]
  /\ ret \in {"ok", "throw", "noattach"}

(* An attached medium always sees the configuration it was opened with:  *)
(* no SetType on a disk unit, and no SetWProt or SetCapacity on a tape    *)
(* unit, changes the unit under an attached file; and the controller's    *)
(* drive type is the unit's (SetType ends with Cntl().UnitSetup).         *)
AttachedConfigStable ==
  /\ \A u \in Disks : HasVirt(u) => virt[u] = disk[u] /\ hw[u] = disk[u].type
  /\ \A u \in Tapes : HasVirt(u) => virt[u] = tape[u]
====
