----------------------------- MODULE ZoneReports -----------------------------
(***************************************************************************)
(* The zones of one server, in the cloud and on the machine: the agent      *)
(* reports its local zones after each heartbeat (heartbeatOnce in           *)
(* agent-bridge/lib/agent.js) and the cloud makes its rows match            *)
(* (POST /server/zones/sync in routes/agent.ts); a zone deleted in the      *)
(* portal is deleted on the machine by a SYNC_CONFIG command                *)
(* (DELETE /zones/:id in routes/zones.ts, SERVER_HANDLERS.SYNC_CONFIG).     *)
(* Reports may overlap: a timer, the control panel and SYNC_CONFIG send them.*)
(*                                                                         *)
(* A row is the number of the creation it stems from, 0 where there is none:*)
(* what hangs on a row (its playlist, its schedules, Prayer Mode) is lost   *)
(* with it.                                                                *)
(***************************************************************************)
EXTENDS Integers, FiniteSets

CONSTANTS
  LocalZones,        \* local zone identifiers
  Reports,           \* reports that may be in progress together
  ZoneFaults,        \* the kinds of fault that may happen
  MaxRows,           \* bound: rows created for one zone
  MaxZoneEdits,      \* bound: zones created or deleted by hand in one behaviour
  MaxZoneFaults      \* bound: faults in one behaviour

ASSUME ZoneReportsConstants ==
  /\ ZoneFaults \subseteq {"lost", "local"}
  /\ {MaxRows, MaxZoneEdits, MaxZoneFaults} \subseteq Nat

VARIABLES
  zoneRow,      \* Zone rows of the server, by localZoneId
  created,      \* rows created so far, per zone
  localZones,   \* the zones the machine has
  deleting,     \* zones whose row was deleted and whose command is not created yet
  syncConfig,   \* zones named by SYNC_CONFIG commands not carried out yet
  report,       \* the reports in progress
  zoneEdits,    \* creations and deletions by hand so far
  zoneFaults    \* faults so far

zoneVars == <<zoneRow, created, localZones, deleting, syncConfig, report, zoneEdits,
              zoneFaults>>

NoReport == [pc |-> "idle", zones |-> {}, todo |-> {}, zone |-> {}, found |-> 0, stale |-> {}]

ZoneReportsTypeOK ==
  /\ zoneRow \in [LocalZones -> Nat] /\ created \in [LocalZones -> Nat]
  /\ localZones \subseteq LocalZones
  /\ deleting \subseteq LocalZones /\ syncConfig \subseteq LocalZones
  /\ report \in [Reports -> [pc : {"idle", "loop", "write", "prune"},
                             zones : SUBSET LocalZones, todo : SUBSET LocalZones,
                             zone : SUBSET LocalZones, found : Nat,
                             stale : SUBSET (LocalZones \X Nat)]]
  /\ zoneEdits \in Nat /\ zoneFaults \in Nat

ZoneReportsInit ==
  /\ zoneRow = [z \in LocalZones |-> 0] /\ created = zoneRow
  /\ localZones \in SUBSET LocalZones
  /\ deleting = {} /\ syncConfig = {}
  /\ report = [r \in Reports |-> NoReport]
  /\ zoneEdits = 0 /\ zoneFaults = 0

ZoneFault(kind) ==
  kind \in ZoneFaults /\ zoneFaults < MaxZoneFaults /\ zoneFaults' = zoneFaults + 1

ReportStep(r, step) == report' = [report EXCEPT ![r] = step]

-----------------------------------------------------------------------------
(* By hand: the control panel and the portal *)

\* A zone is created or deleted on the control panel (agent-bridge/ui/server.js).
EditLocally(z) ==
  /\ zoneEdits < MaxZoneEdits
  /\ zoneEdits' = zoneEdits + 1
  /\ localZones' = IF z \in localZones THEN localZones \ {z} ELSE localZones \cup {z}
  /\ UNCHANGED <<zoneRow, created, deleting, syncConfig, report, zoneFaults>>

\* DELETE /zones/:id deletes the row ...
DeleteRow(z) ==
  /\ zoneEdits < MaxZoneEdits /\ zoneRow[z] # 0 /\ z \notin deleting
  /\ zoneEdits' = zoneEdits + 1
  /\ zoneRow' = [zoneRow EXCEPT ![z] = 0]
  /\ deleting' = deleting \cup {z}
  /\ UNCHANGED <<created, localZones, syncConfig, report, zoneFaults>>

\* Planted defect: no command is created.
CreateNoSyncConfig(z) ==
  /\ z \in deleting
  /\ deleting' = deleting \ {z}
  /\ UNCHANGED <<zoneRow, created, localZones, syncConfig, report, zoneEdits, zoneFaults>>

\* ... and then creates the SYNC_CONFIG command.
CreateSyncConfig(z) ==
  /\ z \in deleting
  /\ deleting' = deleting \ {z}
  /\ syncConfig' = syncConfig \cup {z}
  /\ UNCHANGED <<zoneRow, created, localZones, report, zoneEdits, zoneFaults>>

-----------------------------------------------------------------------------
(* Reports *)

\* The machine's zones are read; the report that is sent holds what was read.
BeginReport(r) ==
  /\ report[r].pc = "idle"
  /\ ReportStep(r, [NoReport EXCEPT !.pc = "loop", !.zones = localZones, !.todo = localZones])
  /\ UNCHANGED <<zoneRow, created, localZones, deleting, syncConfig, zoneEdits, zoneFaults>>

\* The agent carries out SYNC_CONFIG: it deletes the zone as well as it can, and reports. If
\* its acknowledgement is lost the command comes again.
RunSyncConfig(r, z) ==
  /\ z \in syncConfig /\ report[r].pc = "idle"
  /\ LET left == localZones \ {z} IN
     \/ /\ localZones' = left
        /\ \/ syncConfig' = syncConfig \ {z} /\ UNCHANGED zoneFaults
           \/ ZoneFault("lost") /\ UNCHANGED syncConfig
        /\ ReportStep(r, [NoReport EXCEPT !.pc = "loop", !.zones = left, !.todo = left])
     \/ /\ ZoneFault("local") /\ syncConfig' = syncConfig \ {z} /\ UNCHANGED localZones
        /\ ReportStep(r, [NoReport EXCEPT !.pc = "loop", !.zones = localZones,
                                          !.todo = localZones])
  /\ UNCHANGED <<zoneRow, created, deleting, zoneEdits>>

\* The row of the next reported zone is looked up.
FindRow(r, z) ==
  /\ report[r].pc = "loop" /\ z \in report[r].todo
  /\ ReportStep(r, [report[r] EXCEPT !.pc = "write", !.todo = @ \ {z}, !.zone = {z},
                                     !.found = zoneRow[z]])
  /\ UNCHANGED <<zoneRow, created, localZones, deleting, syncConfig, zoneEdits, zoneFaults>>

\* It is updated by its id, or created; an update of a row that is gone, or the creation
\* of a second row for a zone, throws, and the request ends there.
WriteRow(r, z) ==
  LET q == report[r] IN
  /\ q.pc = "write" /\ z \in q.zone
  /\ IF q.found = 0 /\ zoneRow[z] = 0
     THEN /\ created[z] < MaxRows
          /\ created' = [created EXCEPT ![z] = @ + 1]
          /\ zoneRow' = [zoneRow EXCEPT ![z] = created[z] + 1]
     ELSE UNCHANGED <<zoneRow, created>>
  /\ ReportStep(r, IF q.found = zoneRow[z]
                   THEN [q EXCEPT !.pc = "loop", !.zone = {}, !.found = 0] ELSE NoReport)
  /\ UNCHANGED <<localZones, deleting, syncConfig, zoneEdits, zoneFaults>>

\* Planted defect: no row is stale.
FindNoStale(r) ==
  /\ report[r].pc = "loop" /\ report[r].todo = {}
  /\ ReportStep(r, [report[r] EXCEPT !.pc = "prune"])
  /\ UNCHANGED <<zoneRow, created, localZones, deleting, syncConfig, zoneEdits, zoneFaults>>

\* After the last zone, the rows of zones that were not reported are looked up ...
FindStale(r) ==
  LET q == report[r] IN
  /\ q.pc = "loop" /\ q.todo = {}
  /\ ReportStep(r, [q EXCEPT !.pc = "prune",
       !.stale = {<<z, zoneRow[z]>> : z \in {y \in LocalZones \ q.zones : zoneRow[y] # 0}}])
  /\ UNCHANGED <<zoneRow, created, localZones, deleting, syncConfig, zoneEdits, zoneFaults>>

\* ... and deleted by their ids.
Prune(r) ==
  /\ report[r].pc = "prune"
  /\ zoneRow' = [z \in LocalZones |-> IF <<z, zoneRow[z]>> \in report[r].stale THEN 0
                                      ELSE zoneRow[z]]
  /\ ReportStep(r, NoReport)
  /\ UNCHANGED <<created, localZones, deleting, syncConfig, zoneEdits, zoneFaults>>

\* A report is lost on its way, or the local API fails: heartbeatOnce logs it.
LoseReport(r) ==
  /\ report[r].pc = "loop" /\ report[r].todo = report[r].zones
  /\ ZoneFault("lost")
  /\ ReportStep(r, NoReport)
  /\ UNCHANGED <<zoneRow, created, localZones, deleting, syncConfig, zoneEdits>>

-----------------------------------------------------------------------------
ReportSteps(r) ==
  \/ \E z \in LocalZones : FindRow(r, z) \/ WriteRow(r, z)
  \/ FindStale(r) \/ Prune(r)

ZoneReportsNext ==
  \/ \E z \in LocalZones : EditLocally(z) \/ DeleteRow(z) \/ CreateSyncConfig(z)
  \/ \E r \in Reports : \/ BeginReport(r) \/ ReportSteps(r) \/ LoseReport(r)
                        \/ \E z \in LocalZones : RunSyncConfig(r, z)

\* The heartbeat timer fires, a report goes on, and a command is polled for and carried out.
ZoneReportsFairness ==
  /\ WF_zoneVars(\E r \in Reports : BeginReport(r))
  /\ \A r \in Reports : WF_zoneVars(ReportSteps(r))
  /\ \A z \in LocalZones : /\ WF_zoneVars(CreateSyncConfig(z))
                           /\ SF_zoneVars(\E r \in Reports : RunSyncConfig(r, z))

ZoneReportsSpec == ZoneReportsInit /\ [][ZoneReportsNext]_zoneVars
ZoneReportsFairSpec == ZoneReportsSpec /\ ZoneReportsFairness

-----------------------------------------------------------------------------
\* Whatever is created and deleted on either side, and in whatever order reports and
\* deletions overtake each other, the portal ends up with the zones the machine has: no
\* row lingers of a zone that is gone, and none is missing.
ZonesConverge == <>[](\A z \in LocalZones : zoneRow[z] # 0 <=> z \in localZones)

\* A zone deleted in the portal does not come back: a report that was under way may create
\* its row again, but once the command is carried out the zone is gone on both sides. It says
\* so of a single edit by hand, the deletion, that meets no fault: a behaviour in which anybody
\* edits again, of whatever zone, or a fault happens (the machine may refuse to delete) is left out.
DeletedStaysDeleted ==
  \A z \in LocalZones :
    [](z \in deleting => \/ <>[](zoneRow[z] = 0 /\ z \notin localZones)
                         \/ <>(zoneEdits > 1 \/ zoneFaults > 0))
=============================================================================
