-------------------------- MODULE MCRemoteCommands --------------------------
EXTENDS RemoteCommands, TLC

\* Requests and poll runs are interchangeable: Init and Next treat them alike.
Symmetry == Permutations(Commands) \cup Permutations(Polls)

Issued(kinds, sources) ==
  \A c \in Commands : cmd'[c] = NoCommand \/ (cmd'[c].kind \in kinds /\ cmd'[c].source \in sources)

\* Poll runs overlap while nothing fails (local handlers apart), over commands that differ ...
Overlapping ==
  /\ faults' = 0 /\ (connected => connected') /\ Issued({"PAUSE", "NEXT"}, {"USER"})
  /\ \A c, d \in Commands : c # d /\ cmd'[c] # NoCommand => cmd'[c].kind # cmd'[d].kind
  /\ \A p \in Polls : poll'[p].at = "reply" /\ poll'[p].result = "SUCCESS"
                       => poll'[p].state # NoState

\* ... or there is one of them, and anything may fail, over commands that differ in kind or in
\* who issued them.
OneRun ==
  /\ Issued({"PAUSE", "SYNC_MUSIC"}, {"USER", "SCHEDULE"})
  /\ \A c, d \in Commands : c # d /\ cmd'[c] # NoCommand
                               => <<cmd'[c].kind, cmd'[c].source>> # <<cmd'[d].kind, cmd'[d].source>>
  /\ \E p \in Polls : \A q \in Polls \ {p} :
       poll'[q] = IdlePoll /\ \A r \in Results : ack'[q][r] = IdleAck

\* The steps that commands_path explores.
Explored == OneRun \/ Overlapping

\* What is cut here is left to users, staleness and faults, which are not fair. Nothing fails a
\* PAUSE ...
Converging == Issued({"PAUSE"}, {"USER"}) /\ faults' = 0

\* ... and a message may be lost while a NEXT and a SYNC_MUSIC are on their way.
Settling ==
  /\ Issued({"NEXT", "SYNC_MUSIC"}, {"USER"}) /\ (connected => connected')
  /\ \A c, d \in Commands : c # d /\ cmd'[c] # NoCommand => cmd'[c].kind # cmd'[d].kind

\* The steps that commands_settle explores.
Settled == Converging \/ Settling
=============================================================================
