------------------------------ MODULE Equalizer ------------------------------
(***************************************************************************)
(* How a SET_EQ command reaches the sound card: local.setEqualizer asks the  *)
(* local service for its zones, writes the zone's curve to a file of its     *)
(* own, rebuilds Equalizer APO's config.txt from the files it finds, and      *)
(* removes the files of zones that are gone (agent-bridge/lib/local-api.js,  *)
(* lib/eq-apo.js).  Commands may overlap; withLock serializes what they      *)
(* write, not what they read before.                                        *)
(*                                                                         *)
(* A rename replaces a file at once or fails; the temporary file it replaces *)
(* it with matches no pattern, and is left out.                             *)
(***************************************************************************)
EXTENDS Integers, Sequences

CONSTANTS
  EqZones,        \* local zones
  Devices,        \* output devices
  NoDevice,       \* no device bound, no file
  Curves,         \* equalizer settings
  EqRuns,         \* SET_EQ commands that may be carried out together
  EqFaults,       \* the kinds of fault that may happen
  MaxEqEdits,     \* bound: zones created, deleted or bound to another device
  MaxEqFaults     \* bound: faults in one behaviour

ASSUME EqualizerConstants ==
  /\ NoDevice \notin Devices
  /\ EqFaults \subseteq {"rename", "crash"}
  /\ MaxEqEdits \in Nat /\ MaxEqFaults \in Nat

VARIABLES
  bound,       \* the zones of the local service and the device of each
  files,       \* cmmp-zone-<id>.txt of each zone: its device line and its curve
  config,      \* config.txt: a block for each device and the zone file it includes
  eqRun,       \* the commands
  lock,        \* the queue of withLock, the holder at its head
  applied,     \* history: what the last SET_EQ of a zone wrote, if it succeeded
  eqEdits,     \* edits so far
  eqFaults,    \* faults so far
  mingled      \* history: two commands were once carried out together

eqVars == <<bound, files, config, eqRun, lock, applied, eqEdits, eqFaults, mingled>>

NoFile == [device |-> NoDevice, curve |-> NoDevice]
File   == [device : Devices \cup {NoDevice}, curve : Curves \cup {NoDevice}]
NoEq   == [pc |-> "idle", zone |-> {}, wants |-> NoFile, zones |-> {}]

Named(fs)   == {z \in EqZones : fs[z] # NoFile}
Mapping(fs) == {<<fs[z].device, z>> : z \in Named(fs)}

EqualizerTypeOK ==
  /\ bound \in [EqZones -> Devices \cup {NoDevice}]
  /\ files \in [EqZones -> File] /\ applied \in [EqZones -> File]
  /\ config \subseteq Devices \X EqZones
  /\ eqRun \in [EqRuns -> [pc : {"idle", "read", "write", "rebuild", "written", "prune",
                                 "pruned"},
                           zone : SUBSET EqZones, wants : File, zones : SUBSET EqZones]]
  /\ lock \in Seq(EqRuns)
  /\ eqEdits \in Nat /\ eqFaults \in Nat /\ mingled \in BOOLEAN

EqualizerInit ==
  /\ bound \in [EqZones -> Devices \cup {NoDevice}]
  /\ files = [z \in EqZones |-> NoFile] /\ applied = files /\ config = {}
  /\ eqRun = [r \in EqRuns |-> NoEq] /\ lock = <<>>
  /\ eqEdits = 0 /\ eqFaults = 0 /\ mingled = FALSE

EqFault(kind) == kind \in EqFaults /\ eqFaults < MaxEqFaults /\ eqFaults' = eqFaults + 1

EqStep(r, step) == eqRun' = [eqRun EXCEPT ![r] = step]

Holds(r, pc) == eqRun[r].pc = pc /\ lock # <<>> /\ Head(lock) = r

\* A zone is created on a device, bound to another one, or deleted.
EditZone(z, d) ==
  /\ eqEdits < MaxEqEdits /\ bound[z] # d
  /\ eqEdits' = eqEdits + 1
  /\ bound' = [bound EXCEPT ![z] = d]
  /\ applied' = IF d = NoDevice THEN [applied EXCEPT ![z] = NoFile] ELSE applied
  /\ UNCHANGED <<files, config, eqRun, lock, eqFaults, mingled>>

\* setEqualizer: the local service has no "eq" action; its zones are read.
ReadZones(r, z, c) ==
  /\ eqRun[r].pc = "idle"
  /\ EqStep(r, [pc |-> "read", zone |-> {z}, wants |-> [device |-> bound[z], curve |-> c],
                zones |-> {y \in EqZones : bound[y] # NoDevice}])
  /\ applied' = [applied EXCEPT ![z] = NoFile]
  /\ mingled' = (mingled \/ \E q \in EqRuns : eqRun[q].pc # "idle")
  /\ UNCHANGED <<bound, files, config, lock, eqEdits, eqFaults>>

\* applyZoneEqualizer throws for a zone or a device that is gone; otherwise it queues up.
QueueWrite(r) ==
  /\ eqRun[r].pc = "read"
  /\ IF eqRun[r].wants.device = NoDevice
     THEN EqStep(r, NoEq) /\ UNCHANGED lock
     ELSE /\ EqStep(r, [eqRun[r] EXCEPT !.pc = "write"])
          /\ lock' = Append(lock, r)
  /\ UNCHANGED <<bound, files, config, applied, eqEdits, eqFaults, mingled>>

\* The zone's file is replaced.
WriteCurve(r) ==
  /\ Holds(r, "write")
  /\ files' = [z \in EqZones |-> IF z \in eqRun[r].zone THEN eqRun[r].wants ELSE files[z]]
  /\ EqStep(r, [eqRun[r] EXCEPT !.pc = "rebuild"])
  /\ UNCHANGED <<bound, config, lock, applied, eqEdits, eqFaults, mingled>>

\* config.txt is rebuilt from the files there are, and the lock is released.
Rebuild(r) ==
  /\ Holds(r, "rebuild")
  /\ config' = Mapping(files)
  /\ lock' = Tail(lock)
  /\ EqStep(r, [eqRun[r] EXCEPT !.pc = "written"])
  /\ UNCHANGED <<bound, files, applied, eqEdits, eqFaults, mingled>>

QueuePrune(r) ==
  /\ eqRun[r].pc = "written"
  /\ EqStep(r, [eqRun[r] EXCEPT !.pc = "prune"])
  /\ lock' = Append(lock, r)
  /\ UNCHANGED <<bound, files, config, applied, eqEdits, eqFaults, mingled>>

\* The command has succeeded.
Succeed(r) ==
  /\ EqStep(r, NoEq)
  /\ lock' = Tail(lock)
  /\ applied' = [z \in EqZones |-> IF z \in eqRun[r].zone /\ bound[z] # NoDevice
                                   THEN eqRun[r].wants ELSE applied[z]]

\* Planted defect: of the files, only that of the command's own zone is kept.
KeepOwn(r) == [z \in EqZones |-> IF z \in eqRun[r].zone THEN files[z] ELSE NoFile]

Keep(r) == [z \in EqZones |-> IF z \in eqRun[r].zones THEN files[z] ELSE NoFile]

\* Planted defect: config.txt is left as it is.
PruneFilesOnly(r) ==
  /\ Holds(r, "prune")
  /\ files' = Keep(r)
  /\ Succeed(r)
  /\ UNCHANGED <<bound, config, eqEdits, eqFaults, mingled>>

\* pruneStaleZones: the files of zones that were not there when the zones were read are
\* deleted. If there were any, config.txt is to be rebuilt.
PruneFiles(r) ==
  /\ Holds(r, "prune")
  /\ files' = Keep(r)
  /\ IF files' = files THEN Succeed(r)
     ELSE EqStep(r, [eqRun[r] EXCEPT !.pc = "pruned"]) /\ UNCHANGED <<lock, applied>>
  /\ UNCHANGED <<bound, config, eqEdits, eqFaults, mingled>>

RebuildPruned(r) ==
  /\ Holds(r, "pruned")
  /\ config' = Mapping(files)
  /\ Succeed(r)
  /\ UNCHANGED <<bound, files, eqEdits, eqFaults, mingled>>

\* Planted defect: a command that fails keeps the lock.
RenameFailsLocked(r) ==
  /\ \E pc \in {"write", "rebuild", "pruned"} : Holds(r, pc)
  /\ EqFault("rename")
  /\ EqStep(r, NoEq)
  /\ UNCHANGED <<bound, files, config, lock, applied, eqEdits, mingled>>

\* Every attempt at a rename fails: the command fails, and the next one gets the lock.
RenameFails(r) ==
  /\ \E pc \in {"write", "rebuild", "pruned"} : Holds(r, pc)
  /\ EqFault("rename")
  /\ EqStep(r, NoEq)
  /\ lock' = Tail(lock)
  /\ UNCHANGED <<bound, files, config, applied, eqEdits, mingled>>

\* The agent is stopped and started again: what is on the disk stays.
AgentCrash ==
  /\ EqFault("crash")
  /\ eqRun' = [r \in EqRuns |-> NoEq] /\ lock' = <<>>
  /\ UNCHANGED <<bound, files, config, applied, eqEdits, mingled>>

-----------------------------------------------------------------------------
EqSteps(r) ==
  \/ QueueWrite(r) \/ WriteCurve(r) \/ Rebuild(r) \/ QueuePrune(r) \/ PruneFiles(r)
  \/ RebuildPruned(r)

EqualizerNext ==
  \/ \E z \in EqZones, d \in Devices \cup {NoDevice} : EditZone(z, d)
  \/ \E r \in EqRuns : \/ EqSteps(r) \/ RenameFails(r)
                       \/ \E z \in EqZones, c \in Curves : ReadZones(r, z, c)
  \/ AgentCrash

\* A command that is carried out goes on.
EqualizerFairness == \A r \in EqRuns : WF_eqVars(EqSteps(r))

EqualizerSpec == EqualizerInit /\ [][EqualizerNext]_eqVars
EqualizerFairSpec == EqualizerSpec /\ EqualizerFairness

-----------------------------------------------------------------------------
\* While nobody writes, config.txt includes the curve of every zone that has one, under
\* the device it was written for, and nothing else, unless a write failed.
ConfigMatchesFiles == lock = <<>> /\ eqFaults = 0 => config = Mapping(files)

\* A curve that was acknowledged stays in force: neither commands for other zones that
\* fail half way nor a restart take it away, as long as commands did not overlap.
AppliedStays ==
  ~ mingled => \A z \in EqZones : applied[z] # NoFile =>
                 files[z] = applied[z] /\ <<applied[z].device, z>> \in config

\* Every SET_EQ command comes to an end: nobody waits for the lock for ever.
EqualizerSettles == \A r \in EqRuns : (eqRun[r].pc # "idle") ~> (eqRun[r].pc = "idle")
=============================================================================
