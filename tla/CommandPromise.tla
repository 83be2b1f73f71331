--------------------------- MODULE CommandPromise ---------------------------
(***************************************************************************)
(* What the remote-command path promises to whoever presses a button,      *)
(* whatever the network, the timers and the two processes do: a command is *)
(* answered at most once; "ok" is only ever said of a command the venue PC *)
(* has carried out; a command refused because the venue is offline is      *)
(* never carried out; an error or a missing answer promises nothing, so    *)
(* the command may still be carried out afterwards.                        *)
(***************************************************************************)
CONSTANT Commands

VARIABLES
  answer,  \* what the requester has been told of each command
  done     \* the commands the venue PC has carried out

vars == <<answer, done>>

Init ==
  /\ answer = [c \in Commands |-> "none"]
  /\ done = {}

Tell(c, from, to) ==
  /\ answer[c] = from
  /\ answer' = [answer EXCEPT ![c] = to]
  /\ UNCHANGED done

Accept(c)      == Tell(c, "none", "open")
Refuse(c)      == Tell(c, "none", "refused")
AnswerOk(c)    == c \in done /\ Tell(c, "open", "ok")
AnswerError(c) == Tell(c, "open", "error")

Perform(c) ==
  /\ answer[c] \notin {"none", "refused"}
  /\ done' = done \cup {c}
  /\ UNCHANGED answer

Next ==
  \E c \in Commands :
    Accept(c) \/ Refuse(c) \/ AnswerOk(c) \/ AnswerError(c) \/ Perform(c)

Spec == Init /\ [][Next]_vars
=============================================================================
