----------------------------- MODULE RpcMulticall -----------------------------
(***************************************************************************)
(* Server.multicall (MulticallContext in src/src/imtjson/rpc.cpp): several *)
(* calls executed one after the other, any of which may be answered at     *)
(* once, later by another thread, or never.                                *)
(*                                                                         *)
(* There is no lock.  For each call the counter mtfork is set to 0, and    *)
(* both the thread that executed the call and the thread that answers it   *)
(* increment it; whoever makes it 2 goes on with the next call and has the *)
(* MulticallContext for itself.  A call nobody answers is answered by the  *)
(* destructor of its request.                                              *)
(*                                                                         *)
(* Every thread has a stack of frames (the head is the top): run(), the    *)
(* sub-request's onResult/onError, and the setResult around it.  Each step *)
(* of a frame is one action.  Op_Slip before Op is Op with one slip.       *)
(***************************************************************************)
EXTENDS Naturals, Sequences

CONSTANTS
  Thread,
  Main,      \* the thread that executes the multicall
  NCalls,    \* length of the list of calls
  LateThrow  \* whether a method may throw after it answered or handed over

ASSUME MulticallAssumption ==
  /\ Main \in Thread
  /\ NCalls \in Nat
  /\ LateThrow \in BOOLEAN

Calls == 1 .. NCalls

VARIABLES
  list,      \* list[i]: "call", or "junk" for an entry that has no method
  pos,       \* the next entry nextfn will look at
  mtfork,
  results,   \* owner.results and owner.errors: which call, result or error
  sent,      \* sent[i]: responseSent of the sub-request of call i
  local,     \* local[i]: run() has its reference to the sub-request
  copies,    \* copies[i]: threads that keep a copy of the sub-request
  handed,    \* calls whose request was handed to another thread, ever
  stack,
  replies,   \* answers given to the multicall itself
  deleted,   \* `delete this' was executed
  wild       \* the MulticallContext was used after that

subVars == <<sent, local, copies, handed>>
vars == <<list, pos, mtfork, results, subVars, stack, replies, deleted, wild>>

Kind == {"result", "error"}
Frame == [at : {"next", "exec", "close", "fork", "finish", "push", "join", "post"},
          call : 0 .. NCalls, kind : Kind]
At(where, i) == [at |-> where, call |-> i, kind |-> "result"]

TypeOK ==
  /\ list \in [Calls -> {"call", "junk"}]
  /\ pos \in 1 .. (NCalls + 1) /\ mtfork \in 0 .. 2
  /\ results \in Seq([call : Calls, kind : Kind])
  /\ sent \in [Calls -> BOOLEAN] /\ local \in [Calls -> BOOLEAN]
  /\ copies \in [Calls -> SUBSET Thread] /\ handed \subseteq Calls
  /\ stack \in [Thread -> Seq(Frame)]
  /\ replies \in Nat /\ deleted \in BOOLEAN /\ wild \in BOOLEAN

Init ==
  /\ list \in [Calls -> {"call", "junk"}]
  /\ pos = 1 /\ mtfork = 0 /\ results = <<>>
  /\ sent = [i \in Calls |-> FALSE] /\ local = [i \in Calls |-> FALSE]
  /\ copies = [i \in Calls |-> {}] /\ handed = {}
  /\ stack = [t \in Thread |-> IF t = Main THEN <<At("next", 0)>> ELSE <<>>]
  /\ replies = 0 /\ deleted = FALSE /\ wild = FALSE

-----------------------------------------------------------------------------
(* The stack *)

Running(t, where) == stack[t] # <<>> /\ Head(stack[t]).at = where
Top(t) == Head(stack[t])

\* The top frame goes on as f; a function that it calls is put on top of it.
Continue(t, f)  == stack' = [stack EXCEPT ![t] = <<f>> \o Tail(@)]
Enter(t, f, g)  == stack' = [stack EXCEPT ![t] = <<g, f>> \o Tail(@)]
Leave(t)        == stack' = [stack EXCEPT ![t] = Tail(@)]

\* A step that uses the MulticallContext.
Use == wild' = (wild \/ deleted)

-----------------------------------------------------------------------------
(* MulticallContext::run *)

Reset_Half == 1
Reset == 0

\* Both sides have passed.
Second_Any(n) == n >= 1
Second(n) == n = 2

\* nextfn() gives another call ...
More == pos <= NCalls /\ list[pos] = "call"

NextCall(t) ==
  /\ Running(t, "next")
  /\ More
  /\ mtfork' = Reset
  /\ local' = [local EXCEPT ![pos] = TRUE]
  /\ pos' = pos + 1
  /\ Continue(t, At("exec", pos))
  /\ Use
  /\ UNCHANGED <<list, results, sent, copies, handed, replies, deleted>>

\* ... or an undefined method name: the list is over, or has no method there.
NextEnds(t) ==
  /\ Running(t, "next")
  /\ ~More
  /\ mtfork' = Reset
  /\ pos' = IF pos > NCalls THEN pos ELSE pos + 1
  /\ Continue(t, At("finish", 0))
  /\ Use
  /\ UNCHANGED <<list, results, subVars, replies, deleted>>

\* server.exec(req): the method answers, or exec does in its place (an unknown
\* method, an invalid request).  Only a request that is still open is answered.
Answers(t, kind) ==
  /\ Running(t, "exec")
  /\ LET i == Top(t).call IN
       /\ ~sent[i] /\ i \notin handed
       /\ Enter(t, Top(t), [at |-> "push", call |-> i, kind |-> kind])
  /\ UNCHANGED <<list, pos, mtfork, results, subVars, replies, deleted, wild>>

\* The method gives a copy of the request to thread u.
HandsOver(t, u) ==
  /\ Running(t, "exec")
  /\ LET i == Top(t).call IN
       /\ ~sent[i] /\ i \notin handed
       /\ copies' = [copies EXCEPT ![i] = {u}]
       /\ handed' = handed \cup {i}
  /\ UNCHANGED <<list, pos, mtfork, results, sent, local, stack, replies, deleted, wild>>

\* exec returns, and the scope of `req' ends.
Returns(t) ==
  /\ Running(t, "exec")
  /\ Continue(t, At("close", Top(t).call))
  /\ UNCHANGED <<list, pos, mtfork, results, subVars, replies, deleted, wild>>

\* The method throws: exec calls setInternalError, and this form of a request
\* (see RpcRequest) does not look whether it was answered before.  Where it was, or
\* will be by a worker (LateThrow), the callback runs twice for one call: it
\* pushes two entries, and when mtfork is 2 in the second one, run() goes on with the
\* next call while the first run() has this one on its stack, or in two threads at a
\* time.  exec has no such guard; without it ContextSafe, NoRecursion and Implements
\* fail.
Throws(t) ==
  /\ Running(t, "exec")
  /\ LET i == Top(t).call IN
       /\ LateThrow \/ (~sent[i] /\ i \notin handed)
       /\ Enter(t, At("close", i), [at |-> "push", call |-> i, kind |-> "error"])
  /\ UNCHANGED <<list, pos, mtfork, results, subVars, replies, deleted, wild>>

\* The request of call i, gone without an answer, answers itself.
Orphaned_Ignored(i) == FALSE
Orphaned(i) == copies'[i] = {} /\ ~local'[i] /\ ~sent[i]

Close(t) ==
  /\ Running(t, "close")
  /\ LET i == Top(t).call IN
       /\ local' = [local EXCEPT ![i] = FALSE]
       /\ UNCHANGED copies
       /\ IF Orphaned(i)
            THEN Enter(t, At("fork", i), [at |-> "push", call |-> i, kind |-> "error"])
            ELSE Continue(t, At("fork", i))
  /\ UNCHANGED <<list, pos, mtfork, results, sent, handed, replies, deleted, wild>>

\* while (++mtfork == 2)
Fork(t) ==
  /\ Running(t, "fork")
  /\ mtfork' = mtfork + 1
  /\ IF Second(mtfork') THEN Continue(t, At("next", 0)) ELSE Leave(t)
  /\ Use
  /\ UNCHANGED <<list, pos, results, subVars, replies, deleted>>

\* req.setResult(...); delete this
Finish(t) ==
  /\ Running(t, "finish")
  /\ replies' = replies + 1
  /\ deleted' = TRUE
  /\ Leave(t)
  /\ Use
  /\ UNCHANGED <<list, pos, mtfork, results, subVars>>

-----------------------------------------------------------------------------
(* The callbacks of a sub-request *)

\* owner.results.push_back, and owner.errors.push_back of an error.
Entry_ResultOnly(i, kind) == IF kind = "result" THEN <<[call |-> i, kind |-> kind]>> ELSE <<>>
Entry(i, kind) == <<[call |-> i, kind |-> kind]>>

Push(t) ==
  /\ Running(t, "push")
  /\ results' = results \o Entry(Top(t).call, Top(t).kind)
  /\ Continue(t, At("join", Top(t).call))
  /\ Use
  /\ UNCHANGED <<list, pos, mtfork, subVars, replies, deleted>>

\* if (++owner.mtfork == 2) owner.run()
Join(t) ==
  /\ Running(t, "join")
  /\ mtfork' = mtfork + 1
  /\ IF Second(mtfork') THEN Enter(t, At("post", Top(t).call), At("next", 0))
                        ELSE Continue(t, At("post", Top(t).call))
  /\ Use
  /\ UNCHANGED <<list, pos, results, subVars, replies, deleted>>

\* postSendResponse, of the sub-request, which is still referenced.
Post(t) ==
  /\ Running(t, "post")
  /\ sent' = [sent EXCEPT ![Top(t).call] = TRUE]
  /\ Leave(t)
  /\ UNCHANGED <<list, pos, mtfork, results, local, copies, handed, replies, deleted, wild>>

-----------------------------------------------------------------------------
(* A thread that keeps a copy of a sub-request *)

AnswersLate(t, i, kind) ==
  /\ stack[t] = <<>> /\ t \in copies[i] /\ ~sent[i]
  /\ stack' = [stack EXCEPT ![t] = <<[at |-> "push", call |-> i, kind |-> kind]>>]
  /\ UNCHANGED <<list, pos, mtfork, results, subVars, replies, deleted, wild>>

LetsGo(t, i) ==
  /\ stack[t] = <<>> /\ t \in copies[i]
  /\ copies' = [copies EXCEPT ![i] = @ \ {t}]
  /\ UNCHANGED local
  /\ IF Orphaned(i)
       THEN stack' = [stack EXCEPT ![t] = <<[at |-> "push", call |-> i, kind |-> "error"]>>]
       ELSE UNCHANGED stack
  /\ UNCHANGED <<list, pos, mtfork, results, sent, handed, replies, deleted, wild>>

-----------------------------------------------------------------------------
\* What a thread does on its own.
Step(t) ==
  \/ NextCall(t) \/ NextEnds(t) \/ Returns(t) \/ Throws(t) \/ Close(t) \/ Fork(t) \/ Finish(t)
  \/ Push(t) \/ Join(t) \/ Post(t)
  \/ \E kind \in Kind : Answers(t, kind)
  \/ \E u \in Thread : HandsOver(t, u)

Copy(t) == \E i \in Calls :
  \/ LetsGo(t, i)
  \/ \E kind \in Kind : AnswersLate(t, i, kind)

Next == \E t \in Thread : Step(t) \/ Copy(t)

Spec == Init /\ [][Next]_vars

\* Fairness: methods return, and a thread that keeps a copy of a request either
\* answers it or lets it go.
FairSpec == Spec /\ \A t \in Thread : WF_vars(Step(t)) /\ WF_vars(Copy(t))

-----------------------------------------------------------------------------
(* Properties *)

\* Two threads never are at work on the MulticallContext at once, although no lock
\* protects its results and its position: mtfork hands it from one to the other.
Exclusive ==
  \A t, u \in Thread :
    stack[t] # <<>> /\ stack[u] # <<>> /\ t # u =>
      ~{Top(t).at, Top(u).at} \subseteq {"next", "push", "finish"}

\* Nobody uses the MulticallContext after it deleted itself, and in particular
\* not the thread that comes back from executing the call or from answering it.
NoUseAfterDelete == ~wild

\* The context is passed on without a lock and freed by whoever answers: whoever
\* has it has it alone, and nobody has it after that.
ContextSafe == TypeOK /\ Exclusive /\ NoUseAfterDelete

\* A list of calls that are answered at once is worked off in a loop: no thread
\* ever executes run() inside run(), however long the list is.
NoRecursion ==
  \A t \in Thread : \A m, n \in 1 .. Len(stack[t]) :
    {stack[t][m].at, stack[t][n].at} \subseteq {"next", "exec", "close", "fork", "finish"}
      => m = n

\* The calls before the first entry that has no method.
Served == CHOOSE n \in 0 .. NCalls :
            /\ \A i \in 1 .. n : list[i] = "call"
            /\ n < NCalls => list[n + 1] = "junk"

SC == INSTANCE SequentialCalls WITH total <- Served, entries <- results

\* The reply has one entry per call, in the order of the calls, whoever answers
\* them and when; and it is sent once.
Implements == SC!SSpec

\* A multicall is answered.
Completes == <>(replies > 0)

-----------------------------------------------------------------------------
(* What the tests expect and the code does not do, with LateThrow *)

\* The reply has one entry per call: a method that throws after it answered adds
\* another (CBS::onError).
OneEntryPerCall ==
  \A m, n \in 1 .. Len(results) : results[m].call = results[n].call => m = n
=============================================================================
