------------------------------ MODULE RpcCalls ------------------------------
(***************************************************************************)
(* What an RPC connection promises the threads that use it, whichever of   *)
(* them does the I/O: a call that returns a reply was handled by the       *)
(* server, and a call fails only when the connection is closed.            *)
(***************************************************************************)
CONSTANT Calls

VARIABLES
  status,  \* of each call
  served,  \* calls the server has handled
  open     \* the connection is usable

vars == <<status, served, open>>

Init ==
  /\ status = [c \in Calls |-> "new"]
  /\ served = {}
  /\ open = TRUE

Begin(c) ==
  /\ status[c] = "new" /\ open
  /\ status' = [status EXCEPT ![c] = "waiting"]
  /\ UNCHANGED <<served, open>>

Refuse(c) ==
  /\ status[c] = "new" /\ ~open
  /\ status' = [status EXCEPT ![c] = "failed"]
  /\ UNCHANGED <<served, open>>

\* The request may reach the server after its caller has given up.
Serve(c) ==
  /\ status[c] \in {"waiting", "failed"} /\ c \notin served
  /\ served' = served \cup {c}
  /\ UNCHANGED <<status, open>>

\* The last packet may come with the end of the connection.
Reply(c) ==
  /\ status[c] = "waiting" /\ c \in served
  /\ status' = [status EXCEPT ![c] = "ok"]
  /\ open' \in {open, FALSE}
  /\ UNCHANGED served

Fail(c) ==
  /\ status[c] = "waiting"
  /\ status' = [status EXCEPT ![c] = "failed"]
  /\ open' = FALSE
  /\ UNCHANGED served

Close ==
  /\ open
  /\ open' = FALSE
  /\ UNCHANGED <<status, served>>

Next ==
  \/ Close
  \/ \E c \in Calls : Begin(c) \/ Refuse(c) \/ Serve(c) \/ Reply(c) \/ Fail(c)

Spec == Init /\ [][Next]_vars
=============================================================================
