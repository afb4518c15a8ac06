----------------------------- MODULE CommandRpc -----------------------------
(***************************************************************************)
(* What the command transport promises a caller of t2audio_send_cmd_sync:  *)
(* a call ends with the reply to its own command, with a timeout, or       *)
(* without having been sent; and a reply ends at most one call.  The one   *)
(* weakness the design admits is part of the promise: replies are matched  *)
(* by a tag that comes round again, so that the reply to a command issued  *)
(* at least StaleAge tags earlier may be taken for the answer.             *)
(***************************************************************************)
EXTENDS Naturals

CONSTANTS
  Callers,   \* threads that call
  StaleAge   \* how old an answer must be to be taken for a new one

VARIABLES
  calling,   \* the callers inside a call
  mine,      \* the number of the command a caller's call sends, 0 for none
  got,       \* the number of the command whose reply it was given
  outcome,   \* how a caller's last call ended
  issued,    \* commands and notifications numbered so far
  answered   \* the commands whose reply has been given to a call

rpcVars == <<calling, mine, got, outcome, issued, answered>>

Outcomes == {"none", "replied", "sent", "timedout", "notsent"}

Init ==
  /\ calling = {}
  /\ mine = [c \in Callers |-> 0]
  /\ got = [c \in Callers |-> 0]
  /\ outcome = [c \in Callers |-> "none"]
  /\ issued = 0
  /\ answered = {}

Call(c) ==
  /\ c \notin calling
  /\ calling' = calling \union {c}
  /\ mine' = [mine EXCEPT ![c] = 0]
  /\ got' = [got EXCEPT ![c] = 0]
  /\ outcome' = [outcome EXCEPT ![c] = "none"]
  /\ UNCHANGED <<issued, answered>>

Issue(c) ==
  /\ c \in calling
  /\ mine[c] = 0
  /\ issued' = issued + 1
  /\ mine' = [mine EXCEPT ![c] = issued + 1]
  /\ UNCHANGED <<calling, got, outcome, answered>>

(* The call is given the reply to command n: its own, or one so old that   *)
(* it bears the same tag.                                                  *)
Answer(c, n) ==
  /\ c \in calling
  /\ got[c] = 0
  /\ n = mine[c] \/ n + StaleAge <= mine[c]
  /\ n \in (1 .. issued) \ answered
  /\ got' = [got EXCEPT ![c] = n]
  /\ answered' = answered \union {n}
  /\ UNCHANGED <<calling, mine, outcome, issued>>

(* A call that says "replied" has a reply, and one that says "notsent" has *)
(* issued nothing; the reply to a call that timed out may have come at the *)
(* last moment.                                                            *)
Return(c, o) ==
  /\ c \in calling
  /\ o \in Outcomes \ {"none"}
  /\ o = "replied" => got[c] # 0
  /\ o = "notsent" => mine[c] = 0
  /\ o # "notsent" => mine[c] # 0
  /\ calling' = calling \ {c}
  /\ outcome' = [outcome EXCEPT ![c] = o]
  /\ UNCHANGED <<mine, got, issued, answered>>

Next ==
  \E c \in Callers :
    \/ Call(c)
    \/ Issue(c)
    \/ \E n \in 1 .. issued : Answer(c, n)
    \/ \E o \in Outcomes : Return(c, o)

Spec == Init /\ [][Next]_rpcVars
=============================================================================
