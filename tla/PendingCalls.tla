---------------------------- MODULE PendingCalls ----------------------------
(***************************************************************************)
(* What AbstractRpcClient promises to the code that places calls: a call   *)
(* that was placed is answered at most once, the answer it got never       *)
(* changes, and nothing un-places a call.  How the answer travels (which   *)
(* thread carries it, how requests are numbered, who holds the lock) is    *)
(* left to RpcClient, which is shown to implement this specification.      *)
(***************************************************************************)

CONSTANTS
  Call,      \* the calls the program may place
  Answer,    \* everything a call can be answered with
  NoAnswer   \* "not answered yet", none of the answers

VARIABLES
  status,    \* status[c]: "idle", "pending" or "resolved"
  answer     \* answer[c]: what the call was answered with

pvars == <<status, answer>>

PTypeOK ==
  /\ status \in [Call -> {"idle", "pending", "resolved"}]
  /\ answer \in [Call -> Answer \cup {NoAnswer}]

PInit ==
  /\ status = [c \in Call |-> "idle"]
  /\ answer = [c \in Call |-> NoAnswer]

\* The call is registered and waits for its answer.
Place(c) ==
  /\ status[c] = "idle"
  /\ status' = [status EXCEPT ![c] = "pending"]
  /\ UNCHANGED answer

\* The answer is handed over: the callback runs, or the waiting thread may go on.
Resolve(c, a) ==
  /\ status[c] = "pending"
  /\ status' = [status EXCEPT ![c] = "resolved"]
  /\ answer' = [answer EXCEPT ![c] = a]

\* The call cannot be registered and is answered on the spot.
Refuse(c, a) ==
  /\ status[c] = "idle"
  /\ status' = [status EXCEPT ![c] = "resolved"]
  /\ answer' = [answer EXCEPT ![c] = a]

PNext == \E c \in Call :
           \/ Place(c)
           \/ \E a \in Answer : Resolve(c, a) \/ Refuse(c, a)

PSpec == PInit /\ [][PNext]_pvars

=============================================================================
