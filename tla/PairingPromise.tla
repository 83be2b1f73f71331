--------------------------- MODULE PairingPromise ---------------------------
(***************************************************************************)
(* What pairing promises, whatever requests overlap, are lost or cut off:  *)
(* a token is granted to one machine, no other ever comes to have it, and  *)
(* a server accepts none but the one granted last.  A token that was       *)
(* replaced or revoked is never accepted again, and a machine may come to   *)
(* be without the token that its server accepts.                           *)
(***************************************************************************)
EXTENDS Naturals

CONSTANTS Servers, Agents

VARIABLES
  accepts,  \* the number of the token that each server accepts, or 0
  issued,   \* how many tokens were issued for each server
  has       \* the tokens that each machine has, or is being sent

vars == <<accepts, issued, has>>

Init ==
  /\ accepts = [s \in Servers |-> 0] /\ issued = accepts
  /\ has = [a \in Agents |-> {}]

Grant(a, s) ==
  LET n == issued[s] + 1 IN
  /\ issued' = [issued EXCEPT ![s] = n]
  /\ accepts' = [accepts EXCEPT ![s] = n]
  /\ has' = [has EXCEPT ![a] = @ \cup {<<s, n>>}]

Revoke(s) ==
  /\ accepts' = [accepts EXCEPT ![s] = 0]
  /\ UNCHANGED <<issued, has>>

\* Machines lose tokens, several of them at once in a restart.
Lose ==
  /\ has' = [a \in Agents |-> has[a] \cap has'[a]]
  /\ UNCHANGED <<accepts, issued>>

Next ==
  \/ \E a \in Agents, s \in Servers : Grant(a, s)
  \/ \E s \in Servers : Revoke(s)
  \/ Lose

Spec == Init /\ [][Next]_vars

-----------------------------------------------------------------------------
\* At most one machine has the token that a server accepts.
OneHolder ==
  \A s \in Servers, a, b \in Agents :
    accepts[s] # 0 /\ <<s, accepts[s]>> \in has[a] \cap has[b] => a = b
=============================================================================
