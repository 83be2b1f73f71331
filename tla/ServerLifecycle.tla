--------------------------- MODULE ServerLifecycle ---------------------------
(***************************************************************************)
(* A venue server from its registration to its removal: the rows of the    *)
(* portal (backend/src/routes/servers.ts), the pairing and heartbeat       *)
(* endpoints (routes/agent.ts), the two sweeps (lib/agent-sweep.ts), and    *)
(* the credential each venue machine keeps (agent-bridge/lib/cmmp.js,      *)
(* lib/config.js, the FORGET_SERVER handler of lib/agent.js).              *)
(*                                                                         *)
(* Every database statement of a handler is a step of its own. The n-th    *)
(* pairing code and the n-th token of a server are the number n.           *)
(***************************************************************************)
EXTENDS Integers, FiniteSets

CONSTANTS
  Servers,          \* identifiers of server rows, each registered at most once
  Agents,           \* venue machines
  NoServer,         \* no server
  Sibling,          \* the pairs of servers that belong to one organization
  LifecycleFaults,  \* the kinds of fault that may happen
  MaxCodes,         \* bound: pairing codes generated for a server
  MaxForgets,       \* bound: "Forget Server" requests in one behaviour
  MaxBusy,          \* bound: requests, sweeps and scripts in progress together
  MaxLifecycleFaults \* bound: faults in one behaviour

Statuses == {"UNKNOWN", "ONLINE", "OFFLINE"}
Orders   == 1 .. MaxForgets
NoOrder  == 0

ASSUME LifecycleConstants ==
  /\ NoServer \notin Servers
  /\ Sibling \subseteq Servers \X Servers
  /\ LifecycleFaults \subseteq {"lost", "restart"}
  /\ {MaxCodes, MaxForgets, MaxBusy, MaxLifecycleFaults} \subseteq Nat

VARIABLES
  row,        \* MusicServer rows: agentTokenHash, status, the pairing code and its age
  codes,      \* pairing codes generated so far, per server
  minted,     \* tokens issued so far, per server
  seen,       \* servers whose lastSeen entry is fresh (lib/agent-registry.ts)
  cred,       \* the state file of each machine: token, serverId, libraryForServerId
  pairing,    \* the /pairing/complete request of each machine
  beat,       \* the heartbeat request of each machine
  wiping,     \* the FORGET_SERVER each machine is carrying out
  offline,    \* the offline sweep
  retention,  \* the retention sweep
  forget,     \* the "Forget Server" request
  order,      \* the FORGET_SERVER commands
  shut,       \* history: the commands whose Windows shutdown script has succeeded
  dropped,    \* history: tokens given up on a machine's side, or never delivered to it
  mishaps     \* faults so far

lifecycleVars == <<row, codes, minted, seen, cred, pairing, beat, wiping, offline,
                   retention, forget, order, shut, dropped, mishaps>>

NoRow     == [exists |-> FALSE, token |-> 0, status |-> "UNKNOWN", code |-> 0, age |-> "live"]
NoCred    == [token |-> 0, server |-> NoServer, library |-> NoServer]
NoPairing == [pc |-> "idle", server |-> NoServer, token |-> 0, previous |-> NoServer]
NoBeat    == [pc |-> "idle", server |-> NoServer]
NoWipe    == [pc |-> "idle", order |-> NoOrder]
NoSweep   == [pc |-> "idle", todo |-> {}, server |-> NoServer]
NoForget  == [pc |-> "idle", server |-> NoServer, order |-> NoOrder, reply |-> "none"]

LifecycleTypeOK ==
  /\ row \in [Servers -> [exists : BOOLEAN, token : Nat, status : Statuses, code : Nat,
                          age : {"live", "expired", "abandoned"}]]
  /\ codes \in [Servers -> Nat] /\ minted \in [Servers -> Nat]
  /\ seen \subseteq Servers
  /\ cred \in [Agents -> [token : Nat, server : Servers \cup {NoServer},
                          library : Servers \cup {NoServer}]]
  /\ pairing \in [Agents -> [pc : {"idle", "found", "claimed", "release", "done"},
                             server : Servers \cup {NoServer}, token : Nat,
                             previous : Servers \cup {NoServer}]]
  /\ beat \in [Agents -> [pc : {"idle", "authed"}, server : Servers \cup {NoServer}]]
  /\ wiping \in [Agents -> [pc : {"idle", "script", "succeeded", "failed", "acked"},
                            order : Orders \cup {NoOrder}]]
  /\ offline \in [pc : {"idle", "loop", "write"}, todo : SUBSET Servers,
                  server : Servers \cup {NoServer}]
  /\ retention \in [pc : {"idle", "loop"}, todo : SUBSET Servers,
                    server : Servers \cup {NoServer}]
  /\ forget \in [pc : {"idle", "wait", "overdue", "answered", "delete"},
                 server : Servers \cup {NoServer}, order : Orders \cup {NoOrder},
                 reply : {"none", "reached", "unreached", "refused"}]
  /\ order \in [Orders -> [server : Servers \cup {NoServer},
                           status : {"none", "PENDING", "SENT", "SUCCESS", "FAILED",
                                     "TIMEOUT"}]]
  /\ shut \subseteq Orders
  /\ dropped \subseteq Servers \X Nat
  /\ mishaps \in Nat

LifecycleInit ==
  /\ row = [s \in Servers |-> NoRow]
  /\ codes = [s \in Servers |-> 0] /\ minted = [s \in Servers |-> 0]
  /\ seen = {}
  /\ cred = [a \in Agents |-> NoCred]
  /\ pairing = [a \in Agents |-> NoPairing]
  /\ beat = [a \in Agents |-> NoBeat]
  /\ wiping = [a \in Agents |-> NoWipe]
  /\ offline = NoSweep /\ retention = NoSweep
  /\ forget = NoForget
  /\ order = [k \in Orders |-> [server |-> NoServer, status |-> "none"]]
  /\ shut = {} /\ dropped = {} /\ mishaps = 0

\* verifyAgentToken: the row exists and its hash is that of the machine's token.
Accepted(a) ==
  /\ cred[a].token # 0
  /\ row[cred[a].server].exists
  /\ row[cred[a].server].token = cred[a].token

\* There is room for another request, sweep or script.
Room ==
  Cardinality({a \in Agents : pairing[a].pc # "idle"})
    + Cardinality({a \in Agents : beat[a].pc # "idle"})
    + Cardinality({a \in Agents : wiping[a].pc # "idle"})
    + Cardinality({x \in {"offline"} : offline.pc # "idle"})
    + Cardinality({x \in {"retention"} : retention.pc # "idle"})
    + Cardinality({x \in {"forget"} : forget.pc # "idle"}) < MaxBusy

-----------------------------------------------------------------------------
(* The portal: registering, a new code, deleting. *)

\* POST /servers.
Register(s) ==
  /\ codes[s] = 0 /\ MaxCodes > 0
  /\ codes' = [codes EXCEPT ![s] = 1]
  /\ row' = [row EXCEPT ![s] = [NoRow EXCEPT !.exists = TRUE, !.code = 1]]
  /\ UNCHANGED <<minted, seen, cred, pairing, beat, wiping, offline, retention, forget,
                 order, shut, dropped, mishaps>>

\* POST /servers/:id/pairing-code, of a row in any state.
NewPairingCode(s) ==
  /\ row[s].exists /\ codes[s] < MaxCodes
  /\ codes' = [codes EXCEPT ![s] = @ + 1]
  /\ row' = [row EXCEPT ![s].code = codes[s] + 1, ![s].age = "live"]
  /\ UNCHANGED <<minted, seen, cred, pairing, beat, wiping, offline, retention, forget,
                 order, shut, dropped, mishaps>>

\* DELETE /servers/:id removes the row and leaves the machine as it is.
DeleteServer(s) ==
  /\ row[s].exists
  /\ row' = [row EXCEPT ![s] = NoRow]
  /\ UNCHANGED <<codes, minted, seen, cred, pairing, beat, wiping, offline, retention,
                 forget, order, shut, dropped, mishaps>>

\* Time passes: a code expires, and after the retention period its row is abandoned.
CodeAges(s) ==
  /\ row[s].exists /\ row[s].code # 0 /\ row[s].age # "abandoned"
  /\ row' = [row EXCEPT ![s].age = IF @ = "live" THEN "expired" ELSE "abandoned"]
  /\ UNCHANGED <<codes, minted, seen, cred, pairing, beat, wiping, offline, retention,
                 forget, order, shut, dropped, mishaps>>

\* Time passes: the last heartbeat is older than the staleness window.
SeenAges(s) ==
  /\ s \in seen
  /\ seen' = seen \ {s}
  /\ UNCHANGED <<row, codes, minted, cred, pairing, beat, wiping, offline, retention,
                 forget, order, shut, dropped, mishaps>>

-----------------------------------------------------------------------------
(* Pairing: POST /pairing/complete, called by cmmp.pair. *)

\* A technician types code n of server s; findFirst looks for an unexpired code.
PairLookup(a, s, n) ==
  /\ Room /\ pairing[a].pc = "idle"
  /\ row[s].exists /\ row[s].code = n /\ row[s].age = "live"
  /\ pairing' = [pairing EXCEPT ![a] = [pc |-> "found", server |-> s, token |-> 0,
                                        previous |-> cred[a].server]]
  /\ UNCHANGED <<row, codes, minted, seen, cred, beat, wiping, offline, retention, forget,
                 order, shut, dropped, mishaps>>

\* Planted defect: a row that has a token already keeps it, and hands it out again.
PairClaimAgain(a) ==
  LET s == pairing[a].server
      n == IF row[s].token # 0 THEN row[s].token ELSE minted[s] + 1 IN
  /\ pairing[a].pc = "found"
  /\ \/ /\ row[s].exists
        /\ minted' = [minted EXCEPT ![s] = IF @ < n THEN n ELSE @]
        /\ row' = [row EXCEPT ![s].token = n, ![s].status = "ONLINE", ![s].code = 0,
                              ![s].age = "live"]
        /\ pairing' = [pairing EXCEPT ![a].pc = "claimed", ![a].token = n]
     \/ /\ ~ row[s].exists
        /\ pairing' = [pairing EXCEPT ![a] = NoPairing]
        /\ UNCHANGED <<row, minted>>
  /\ UNCHANGED <<codes, seen, cred, beat, wiping, offline, retention, forget, order, shut,
                 dropped, mishaps>>

\* The row found gets a new token and loses its code; update throws if it is gone.
PairClaim(a) ==
  LET s == pairing[a].server IN
  /\ pairing[a].pc = "found"
  /\ \/ /\ row[s].exists
        /\ minted' = [minted EXCEPT ![s] = @ + 1]
        /\ row' = [row EXCEPT ![s].token = minted[s] + 1, ![s].status = "ONLINE",
                              ![s].code = 0, ![s].age = "live"]
        /\ pairing' = [pairing EXCEPT ![a].pc = "claimed", ![a].token = minted[s] + 1]
     \/ /\ ~ row[s].exists
        /\ pairing' = [pairing EXCEPT ![a] = NoPairing]
        /\ UNCHANGED <<row, minted>>
  /\ UNCHANGED <<codes, seen, cred, beat, wiping, offline, retention, forget, order, shut,
                 dropped, mishaps>>

\* Planted defect: no row is released when its machine pairs with another one.
NeverReleasable(a) == FALSE

\* The row the machine was paired with before, if it is another one, still exists and
\* belongs to the same organization.
Releasable(a) ==
  LET p == pairing[a].previous IN
  /\ p \notin {NoServer, pairing[a].server}
  /\ row[p].exists
  /\ <<p, pairing[a].server>> \in Sibling

\* previousServerId is looked up.
PairFindPrevious(a) ==
  /\ pairing[a].pc = "claimed"
  /\ pairing' = [pairing EXCEPT ![a].pc = IF Releasable(a) THEN "release" ELSE "done"]
  /\ UNCHANGED <<row, codes, minted, seen, cred, beat, wiping, offline, retention, forget,
                 order, shut, dropped, mishaps>>

\* The old row is released. If it has been deleted since the lookup, update throws and
\* the machine never learns the token that was issued to it.
PairRelease(a) ==
  LET p == pairing[a].previous IN
  /\ pairing[a].pc = "release"
  /\ \/ /\ row[p].exists
        /\ row' = [row EXCEPT ![p].token = 0, ![p].status = "UNKNOWN"]
        /\ seen' = seen \ {p}
        /\ pairing' = [pairing EXCEPT ![a].pc = "done"]
        /\ UNCHANGED dropped
     \/ /\ ~ row[p].exists
        /\ pairing' = [pairing EXCEPT ![a] = NoPairing]
        /\ dropped' = dropped \cup {<<pairing[a].server, pairing[a].token>>}
        /\ UNCHANGED <<row, seen>>
  /\ UNCHANGED <<codes, minted, cred, beat, wiping, offline, retention, forget, order,
                 shut, mishaps>>

\* The tokens a machine gives up when its credential is replaced or reset.
Given(a) == IF cred[a].token = 0 THEN {} ELSE {<<cred[a].server, cred[a].token>>}

\* The reply reaches the machine, which keeps it: cmmp.pair. The credential it replaces
\* was released above, unless that row belongs to another organization or is gone.
PairSaved(a) ==
  LET q == pairing[a] IN
  /\ pairing[a].pc = "done"
  /\ seen' = seen \cup {q.server}
  /\ cred' = [cred EXCEPT ![a] = [token |-> q.token, server |-> q.server,
                                  library |-> q.server]]
  /\ dropped' = dropped \cup
       {t \in Given(a) : t[1] # q.server /\ <<t[1], q.server>> \notin Sibling}
  /\ pairing' = [pairing EXCEPT ![a] = NoPairing]
  /\ UNCHANGED <<row, codes, minted, beat, wiping, offline, retention, forget, order,
                 shut, mishaps>>

\* The reply is lost on its way: the code is spent and the machine keeps what it had.
PairLost(a) ==
  /\ "lost" \in LifecycleFaults /\ mishaps < MaxLifecycleFaults
  /\ pairing[a].pc = "done"
  /\ mishaps' = mishaps + 1
  /\ seen' = seen \cup {pairing[a].server}
  /\ dropped' = dropped \cup {<<pairing[a].server, pairing[a].token>>}
  /\ pairing' = [pairing EXCEPT ![a] = NoPairing]
  /\ UNCHANGED <<row, codes, minted, cred, beat, wiping, offline, retention, forget,
                 order, shut>>

\* The control panel's "unpair" resets the state file, keeps the library's bookkeeping
\* and tells the cloud nothing.
Unpair(a) ==
  /\ cred[a].token # 0
  /\ cred' = [cred EXCEPT ![a] = [NoCred EXCEPT !.library = cred[a].library]]
  /\ dropped' = dropped \cup Given(a)
  /\ UNCHANGED <<row, codes, minted, seen, pairing, beat, wiping, offline, retention,
                 forget, order, shut, mishaps>>

-----------------------------------------------------------------------------
(* Heartbeats and the offline sweep. *)

\* Any other request of a paired machine (a poll, zone or playlist sync, schedules, the hub's
\* handshake) counts as a sign of life and leaves the row as it is.
Poll(a) ==
  /\ Accepted(a)
  /\ seen' = seen \cup {cred[a].server}
  /\ UNCHANGED <<row, codes, minted, cred, pairing, beat, wiping, offline, retention, forget,
                 order, shut, dropped, mishaps>>

\* requireAgent reads the row.
BeatBegin(a) ==
  /\ Room /\ beat[a].pc = "idle" /\ Accepted(a)
  /\ beat' = [beat EXCEPT ![a] = [pc |-> "authed", server |-> cred[a].server]]
  /\ UNCHANGED <<row, codes, minted, seen, cred, pairing, wiping, offline, retention,
                 forget, order, shut, dropped, mishaps>>

\* Planted defect: only a row of a server never seen before becomes ONLINE.
BeatWriteOnce(a) ==
  LET s == beat[a].server IN
  /\ beat[a].pc = "authed"
  /\ IF row[s].exists
     THEN row' = [row EXCEPT ![s].status = IF @ = "UNKNOWN" THEN "ONLINE" ELSE @]
          /\ seen' = seen \cup {s}
     ELSE UNCHANGED <<row, seen>>
  /\ beat' = [beat EXCEPT ![a] = NoBeat]
  /\ UNCHANGED <<codes, minted, cred, pairing, wiping, offline, retention, forget, order,
                 shut, dropped, mishaps>>

\* The row becomes ONLINE, whoever holds its token by now; update throws if it is gone.
BeatWrite(a) ==
  LET s == beat[a].server IN
  /\ beat[a].pc = "authed"
  /\ IF row[s].exists
     THEN row' = [row EXCEPT ![s].status = "ONLINE"] /\ seen' = seen \cup {s}
     ELSE UNCHANGED <<row, seen>>
  /\ beat' = [beat EXCEPT ![a] = NoBeat]
  /\ UNCHANGED <<codes, minted, cred, pairing, wiping, offline, retention, forget, order,
                 shut, dropped, mishaps>>

\* startAgentHeartbeatSweep: the rows believed online are read.
SweepRead ==
  /\ Room /\ offline.pc = "idle"
  /\ offline' = [NoSweep EXCEPT !.pc = "loop",
                   !.todo = {s \in Servers : row[s].exists /\ row[s].status = "ONLINE"}]
  /\ UNCHANGED <<row, codes, minted, seen, cred, pairing, beat, wiping, retention, forget,
                 order, shut, dropped, mishaps>>

\* isAgentConnected decides whether the next row is written.
SweepCheck(s) ==
  /\ offline.pc = "loop" /\ s \in offline.todo
  /\ offline' = [pc |-> IF s \in seen THEN "loop" ELSE "write",
                 todo |-> offline.todo \ {s},
                 server |-> IF s \in seen THEN NoServer ELSE s]
  /\ UNCHANGED <<row, codes, minted, seen, cred, pairing, beat, wiping, retention, forget,
                 order, shut, dropped, mishaps>>

\* Planted defect: lastSeen is forgotten, and the row stays as it is.
SweepForgetsOnly ==
  /\ offline.pc = "write"
  /\ seen' = seen \ {offline.server}
  /\ offline' = [offline EXCEPT !.pc = "loop", !.server = NoServer]
  /\ UNCHANGED <<row, codes, minted, cred, pairing, beat, wiping, retention, forget, order,
                 shut, dropped, mishaps>>

\* The row becomes OFFLINE, and lastSeen is forgotten; a row that is gone ends the sweep.
SweepWrite ==
  LET s == offline.server IN
  /\ offline.pc = "write"
  /\ IF row[s].exists
     THEN /\ row' = [row EXCEPT ![s].status = "OFFLINE"]
          /\ seen' = seen \ {s}
          /\ offline' = [offline EXCEPT !.pc = "loop", !.server = NoServer]
     ELSE offline' = NoSweep /\ UNCHANGED <<row, seen>>
  /\ UNCHANGED <<codes, minted, cred, pairing, beat, wiping, retention, forget, order,
                 shut, dropped, mishaps>>

SweepEnd ==
  /\ offline.pc = "loop" /\ offline.todo = {}
  /\ offline' = NoSweep
  /\ UNCHANGED <<row, codes, minted, seen, cred, pairing, beat, wiping, retention, forget,
                 order, shut, dropped, mishaps>>

-----------------------------------------------------------------------------
(* The retention sweep: startUnpairedRetentionSweep. *)

\* Registered, never paired, and the code expired longer ago than the retention period.
Abandoned(s) ==
  /\ row[s].exists /\ row[s].status = "UNKNOWN" /\ row[s].token = 0
  /\ row[s].code # 0 /\ row[s].age = "abandoned"

RetentionRead ==
  /\ Room /\ retention.pc = "idle" /\ \E s \in Servers : Abandoned(s)
  /\ retention' = [NoSweep EXCEPT !.pc = "loop", !.todo = {s \in Servers : Abandoned(s)}]
  /\ UNCHANGED <<row, codes, minted, seen, cred, pairing, beat, wiping, offline, forget,
                 order, shut, dropped, mishaps>>

\* A row is deleted by its id, whatever it has become; a row that is gone ends the sweep.
RetentionDelete(s) ==
  /\ retention.pc = "loop" /\ s \in retention.todo
  /\ row' = [row EXCEPT ![s] = NoRow]
  /\ retention' = IF ~ row[s].exists \/ retention.todo = {s} THEN NoSweep
                  ELSE [retention EXCEPT !.todo = @ \ {s}]
  /\ UNCHANGED <<codes, minted, seen, cred, pairing, beat, wiping, offline, forget, order,
                 shut, dropped, mishaps>>

-----------------------------------------------------------------------------
(* "Forget Server". RemoteCommands models how a command is fetched and acknowledged *)
(* statement by statement; here a fetch and an acknowledgement are one step each.   *)

FreshOrder(k) == order[k].status = "none" /\ \A j \in 1 .. k - 1 : order[j].status # "none"

\* POST /servers/:id/forget reads the row; a reachable machine is sent FORGET_SERVER.
ForgetBegin(s) ==
  /\ Room /\ forget.pc = "idle" /\ row[s].exists
  /\ \/ /\ row[s].token # 0 /\ s \in seen
        /\ \E k \in Orders :
             /\ FreshOrder(k)
             /\ order' = [order EXCEPT ![k] = [server |-> s, status |-> "PENDING"]]
             /\ forget' = [pc |-> "wait", server |-> s, order |-> k, reply |-> "none"]
     \/ /\ row[s].token = 0 \/ s \notin seen
        /\ forget' = [NoForget EXCEPT !.pc = "delete", !.server = s]
        /\ UNCHANGED order
  /\ UNCHANGED <<row, codes, minted, seen, cred, pairing, beat, wiping, offline, retention,
                 shut, dropped, mishaps>>

\* The machine's poll fetches the command. One run at a time holds it: runs that overlap here are
\* left out.
FetchForget(a, k) ==
  /\ Room /\ Accepted(a) /\ wiping[a].pc = "idle"
  /\ order[k].status \in {"PENDING", "SENT"} /\ order[k].server = cred[a].server
  /\ order' = [order EXCEPT ![k].status = "SENT"]
  /\ wiping' = [wiping EXCEPT ![a] = [pc |-> "script", order |-> k]]
  /\ seen' = seen \cup {cred[a].server}
  /\ UNCHANGED <<row, codes, minted, cred, pairing, beat, offline, retention, forget, shut,
                 dropped, mishaps>>

\* Set-AutoBoot.ps1 -Action Forget stops the player, or fails.
RunForgetScript(a, ok) ==
  /\ wiping[a].pc = "script"
  /\ wiping' = [wiping EXCEPT ![a].pc = IF ok THEN "succeeded" ELSE "failed"]
  /\ shut' = IF ok THEN shut \cup {wiping[a].order} ELSE shut
  /\ UNCHANGED <<row, codes, minted, seen, cred, pairing, beat, offline, retention, forget,
                 order, dropped, mishaps>>

\* The acknowledgement is accepted from a machine whose token is that of the command's
\* server; one that comes for a closed command is not applied. A waiting request is told.
AckForget(a) ==
  LET k == wiping[a].order
      answer == IF wiping[a].pc = "succeeded" THEN "SUCCESS" ELSE "FAILED" IN
  /\ wiping[a].pc \in {"succeeded", "failed"}
  /\ Accepted(a) /\ order[k].server = cred[a].server
  /\ seen' = seen \cup {cred[a].server}
  /\ IF order[k].status \in {"PENDING", "SENT"}
     THEN /\ order' = [order EXCEPT ![k].status = answer]
          /\ forget' = IF forget.pc = "wait" /\ forget.order = k
                       THEN [forget EXCEPT !.pc = "answered"] ELSE forget
     ELSE UNCHANGED <<order, forget>>
  /\ wiping' = [wiping EXCEPT ![a] = IF answer = "SUCCESS" THEN [@ EXCEPT !.pc = "acked"]
                                     ELSE NoWipe]
  /\ UNCHANGED <<row, codes, minted, cred, pairing, beat, offline, retention, shut,
                 dropped, mishaps>>

\* The acknowledgement is refused (the credential is another one by now, or its row is
\* gone), and so is the FAILED one that follows: the machine gives up.
AckRefused(a) ==
  /\ wiping[a].pc \in {"succeeded", "failed"}
  /\ ~ (Accepted(a) /\ order[wiping[a].order].server = cred[a].server)
  /\ wiping' = [wiping EXCEPT ![a] = NoWipe]
  /\ UNCHANGED <<row, codes, minted, seen, cred, pairing, beat, offline, retention, forget,
                 order, shut, dropped, mishaps>>

\* The reply to the acknowledgement arrives: clearLibraryState and resetState.
WipeCredential(a) ==
  /\ wiping[a].pc = "acked"
  /\ cred' = [cred EXCEPT ![a] = NoCred]
  /\ dropped' = dropped \cup Given(a)
  /\ wiping' = [wiping EXCEPT ![a] = NoWipe]
  /\ UNCHANGED <<row, codes, minted, seen, pairing, beat, offline, retention, forget,
                 order, shut, mishaps>>

\* The reply is lost: the machine acknowledges FAILED, which is not applied, and is done.
WipeLost(a) ==
  /\ "lost" \in LifecycleFaults /\ mishaps < MaxLifecycleFaults
  /\ wiping[a].pc = "acked"
  /\ mishaps' = mishaps + 1
  /\ wiping' = [wiping EXCEPT ![a] = NoWipe]
  /\ UNCHANGED <<row, codes, minted, seen, cred, pairing, beat, offline, retention, forget,
                 order, shut, dropped>>

\* waitForAck's timer removes the waiter ...
ForgetOverdue ==
  /\ forget.pc = "wait"
  /\ forget' = [forget EXCEPT !.pc = "overdue"]
  /\ UNCHANGED <<row, codes, minted, seen, cred, pairing, beat, wiping, offline, retention,
                 order, shut, dropped, mishaps>>

\* ... and TIMEOUT is written, over whatever was recorded since: the row stays.
ForgetTimeout ==
  /\ forget.pc = "overdue"
  /\ order' = [order EXCEPT ![forget.order].status = "TIMEOUT"]
  /\ forget' = [forget EXCEPT !.pc = "idle", !.reply = "refused"]
  /\ UNCHANGED <<row, codes, minted, seen, cred, pairing, beat, wiping, offline, retention,
                 shut, dropped, mishaps>>

\* Planted defect: any answer will do.
ForgetAnsweredAnyhow ==
  /\ forget.pc = "answered"
  /\ forget' = [forget EXCEPT !.pc = "delete"]
  /\ UNCHANGED <<row, codes, minted, seen, cred, pairing, beat, wiping, offline, retention,
                 order, shut, dropped, mishaps>>

\* The answer decides whether the row is deleted.
ForgetAnswered ==
  /\ forget.pc = "answered"
  /\ forget' = IF order[forget.order].status = "SUCCESS" THEN [forget EXCEPT !.pc = "delete"]
               ELSE [forget EXCEPT !.pc = "idle", !.reply = "refused"]
  /\ UNCHANGED <<row, codes, minted, seen, cred, pairing, beat, wiping, offline, retention,
                 order, shut, dropped, mishaps>>

\* delete throws if the row is gone.
ForgetDelete ==
  LET s == forget.server IN
  /\ forget.pc = "delete"
  /\ row' = [row EXCEPT ![s] = NoRow]
  /\ seen' = IF row[s].exists THEN seen \ {s} ELSE seen
  /\ forget' = [forget EXCEPT !.pc = "idle",
                  !.reply = IF ~ row[s].exists THEN "refused"
                            ELSE IF forget.order = NoOrder THEN "unreached" ELSE "reached"]
  /\ UNCHANGED <<codes, minted, cred, pairing, beat, wiping, offline, retention, order,
                 shut, dropped, mishaps>>

\* The backend restarts: lastSeen, the sweeps, the waiter and every request are gone.
LifecycleRestart ==
  /\ "restart" \in LifecycleFaults /\ mishaps < MaxLifecycleFaults
  /\ mishaps' = mishaps + 1
  /\ seen' = {}
  /\ pairing' = [a \in Agents |-> NoPairing]
  /\ dropped' = dropped \cup {<<pairing[a].server, pairing[a].token>> : a \in
                               {b \in Agents : pairing[b].token # 0}}
  /\ beat' = [a \in Agents |-> NoBeat]
  /\ offline' = NoSweep /\ retention' = NoSweep
  /\ forget' = IF forget.pc = "idle" THEN forget ELSE NoForget
  /\ UNCHANGED <<row, codes, minted, cred, wiping, order, shut>>

-----------------------------------------------------------------------------
PairSteps(a) ==
  PairClaim(a) \/ PairFindPrevious(a) \/ PairRelease(a) \/ PairSaved(a)

WipeSteps(a) ==
  \/ \E ok \in BOOLEAN : RunForgetScript(a, ok)
  \/ AckForget(a) \/ AckRefused(a) \/ WipeCredential(a)

SweepSteps == SweepRead \/ (\E s \in Servers : SweepCheck(s)) \/ SweepWrite \/ SweepEnd

ForgetSteps == ForgetOverdue \/ ForgetTimeout \/ ForgetAnswered \/ ForgetDelete

LifecycleNext ==
  \/ \E s \in Servers :
       \/ Register(s) \/ NewPairingCode(s) \/ DeleteServer(s) \/ CodeAges(s) \/ SeenAges(s)
       \/ RetentionDelete(s) \/ ForgetBegin(s)
  \/ \E a \in Agents :
       \/ \E s \in Servers, n \in 1 .. MaxCodes : PairLookup(a, s, n)
       \/ PairSteps(a) \/ PairLost(a) \/ Unpair(a)
       \/ Poll(a) \/ BeatBegin(a) \/ BeatWrite(a)
       \/ \E k \in Orders : FetchForget(a, k)
       \/ WipeSteps(a) \/ WipeLost(a)
  \/ SweepSteps \/ RetentionRead
  \/ ForgetSteps
  \/ LifecycleRestart

\* Requests and sweeps run on, time passes, and a paired machine sends heartbeats.
LifecycleFairness ==
  /\ \A s \in Servers : WF_lifecycleVars(SeenAges(s))
  /\ WF_lifecycleVars(ForgetSteps)
  /\ WF_lifecycleVars(\E s \in Servers : RetentionDelete(s))
  /\ SF_lifecycleVars(SweepRead) /\ WF_lifecycleVars(SweepSteps)
  /\ \A a \in Agents : /\ WF_lifecycleVars(PairSteps(a))
                       /\ WF_lifecycleVars(WipeSteps(a))
                       /\ SF_lifecycleVars(BeatBegin(a)) /\ WF_lifecycleVars(BeatWrite(a))

LifecycleSpec == LifecycleInit /\ [][LifecycleNext]_lifecycleVars
LifecycleFairSpec == LifecycleSpec /\ LifecycleFairness

-----------------------------------------------------------------------------
\* The portal reports a machine as shut down and wiped only if its shutdown script has
\* run to success for that very request.
ReachedMeansShut == forget.reply = "reached" => forget.order \in shut

\* Every token a row accepts is held by a machine, on its way to one, or was given up on
\* the machine's side: re-pairing never leaves a row that waits for a token nobody has.
NoOrphanToken ==
  \A s \in Servers : row[s].token # 0 =>
    \/ \E a \in Agents : cred[a].server = s /\ cred[a].token = row[s].token
    \/ \E a \in Agents : pairing[a].server = s /\ pairing[a].token = row[s].token
    \/ <<s, row[s].token>> \in dropped

\* The tokens a machine has, or is being sent.
Tokens(a) ==
  Given(a) \cup (IF pairing[a].token = 0 THEN {} ELSE {<<pairing[a].server, pairing[a].token>>})

Pairing == INSTANCE PairingPromise
           WITH accepts <- [s \in Servers |-> row[s].token], issued <- minted,
                has <- [a \in Agents |-> Tokens(a)]

\* However requests, sweeps and restarts overlap, and although two machines may claim one code,
\* pairing implements its promise: a token goes to one machine, a row accepts none but the one
\* issued last, and one that was replaced or revoked is never accepted again.
PairingKept == Pairing!Spec

\* A server that no machine is paired to any more ends up not shown as online.
SilentIsOffline ==
  \A s \in Servers : <>[](\A a \in Agents : cred[a].server # s) => []<>(row[s].status # "ONLINE")

\* A server whose machine keeps its pairing is shown online again and again, whatever the
\* sweep wrote over a heartbeat.
BeatingIsOnline ==
  \A s \in Servers, a \in Agents :
    <>[](cred[a].server = s /\ Accepted(a)) => []<>(row[s].status = "ONLINE")
=============================================================================
