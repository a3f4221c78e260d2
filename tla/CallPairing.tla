---------------------------- MODULE CallPairing ----------------------------
(***************************************************************************)
(* What executeToolCalls promises the conversation: every tool call of the *)
(* assistant message is answered by exactly one tool result, an answer     *)
(* given is never changed, and the batch returns when all are answered.    *)
(***************************************************************************)
CONSTANTS Calls, Results, None

VARIABLES result, returned

vars == <<result, returned>>

Init ==
  /\ result = [c \in Calls |-> None]
  /\ returned = FALSE

\* any unanswered calls are answered; the last answers may come with the return
Next ==
  /\ ~returned
  /\ result' \in [Calls -> Results \cup {None}]
  /\ \A c \in Calls : result[c] # None => result'[c] = result[c]
  /\ returned' \in BOOLEAN
  /\ returned' => \A c \in Calls : result'[c] # None

Spec == Init /\ [][Next]_vars
=============================================================================
