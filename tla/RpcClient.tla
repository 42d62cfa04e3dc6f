------------------------------ MODULE RpcClient ------------------------------
(***************************************************************************)
(* AbstractRpcClient (src/src/imtjson/rpc.h, rpc.cpp): the client side of  *)
(* JSON-RPC as several threads use it.  A thread prepares a call (draws a  *)
(* request id), registers a pending-call object in callMap under that id,  *)
(* hands the request to sendRequest, and then either goes on (operator >>, *)
(* a callback gets the answer) or waits (operator RpcResult, the object    *)
(* lives on the waiting thread's stack).  Meanwhile any thread may process *)
(* a response, cancel one call, cancel all calls or filter the map.        *)
(*                                                                         *)
(* Granularity.  Everything the code does in one critical section of the   *)
(* recursive mutex `lock' is one action.  The exception is sendRequest,    *)
(* which is called under the lock and belongs to the application: the      *)
(* thread is "sending" between its two ends, holds the lock, and may       *)
(* itself (a loop-back transport) process responses and cancel calls.      *)
(* What happens outside the lock - storing the answer, destroying the      *)
(* pending-call object - is one action per step.                           *)
(*                                                                         *)
(* A definition Op_Slip stands just before Op: it is Op with one slip a    *)
(* maintainer could make.  No specification uses it; it serves to confirm  *)
(* that a property would notice the slip.                                  *)
(***************************************************************************)
EXTENDS Integers

CONSTANTS
  Thread,    \* threads of the program
  Call,      \* pending-call objects: one per use of operator >> or RpcResult
  IdSpace,   \* number of values of `unsigned int idCounter' (2^32 in the code)
  MaxId,     \* bound: how many ids are ever drawn
  NoThread, NoCall

ASSUME ClientAssumption ==
  /\ IdSpace \in Nat \ {0}
  /\ MaxId \in Nat
  /\ NoThread \notin Thread
  /\ NoCall \notin Call

VARIABLES
  idCounter,  \* ids drawn so far, before truncation to IdSpace values
  serial,     \* serial[c]: the number c drew (0: none yet)
  phase,      \* phase[c]: how far the pending-call object got
  callMap,    \* callMap[i]: the object registered under id i, or NoCall
  lock,       \* holder of the mutex across sendRequest, or NoThread
  pc, cur,    \* what a thread executes, and for which call
  task,       \* task[t]: the answer thread t is carrying to a pending call
  todo,       \* todo[t]: ids cancelAllPendingCalls has still to cancel
  out,        \* out[t]: objects filterPendingCalls moved out for t
  stored,     \* stored[c]: `res' of the pending-call object
  fired,      \* fired[c]: how often the callback ran (or release() was called)
  sent,       \* calls whose request reached the server
  context,    \* serials of the responses whose context change was merged
  wild        \* a pending-call object was used after its frame was gone

callVars == <<serial, phase, stored, fired>>
threadVars == <<pc, cur, todo, out>>
vars == <<idCounter, callVars, callMap, lock, threadVars, task, sent, context, wild>>

Id == 0 .. (IdSpace - 1)

\* What a call can be answered with.  A default-constructed RpcResult is
\* "empty"; a response remembers the request it answers.
Empty       == [kind |-> "empty", of |-> 0]
Cancelled   == [kind |-> "cancelled", of |-> 0]
Response(n) == [kind |-> "response", of |-> n]
Answer      == [kind : {"empty", "cancelled", "response"}, of : 0 .. MaxId]

NoTask == [step |-> "none", id |-> 0, call |-> NoCall, res |-> Empty]
Task   == [step : {"none", "find", "taken", "given"}, id : Id,
           call : Call \cup {NoCall}, res : Answer]

Phase == {"new", "prepared", "async", "failed", "sync", "returned", "unwound"}

\* `Value id = genRequestID()': an unsigned int, so it wraps around.
IdOf_Narrow(n) == n % (IdSpace \div 2)
IdOf(n) == n % IdSpace

-----------------------------------------------------------------------------
(* The mutex and the program counter *)

LockFree(t) == lock \in {NoThread, t}

\* Nothing in progress besides, possibly, sendRequest itself.
Settled(t) == task[t].step = "none" /\ todo[t] = {} /\ out[t] = {}
Idle(t)       == pc[t] = "idle" /\ Settled(t)
CanProcess(t) == pc[t] \in {"idle", "sending"} /\ Settled(t)

\* LocalPendingCall lives in the frame of operator RpcResult.
Dead(c) == phase[c] \in {"returned", "unwound"}

-----------------------------------------------------------------------------
(* callMap *)

\* callMap.emplace(id, pcall): an id that is taken is left alone.
Emplace(m, i, c) == IF m[i] = NoCall THEN [m EXCEPT ![i] = c] ELSE m

\* callMap.erase(it)
Erase_Forgotten(m, i) == m
Erase(m, i) == [m EXCEPT ![i] = NoCall]

\* The pending-call objects that filterPendingCalls leaves in the map.
Keep_All(m, ids) == m
Keep(m, ids) == [i \in Id |-> IF i \in ids THEN m[i] ELSE NoCall]

\* cancelAllPendingCalls: the keys found under the lock.
Keys(m) == {i \in Id : m[i] # NoCall}

\* LocalPendingCall::received, which release() sets.
Received_OnWake(c) == fired[c] > 0 \/ \E t \in Thread : pc[t] = "woken" /\ cur[t] = c
Received(c) == fired[c] > 0

\* trig.notify_one(): the thread that waits for c, if one does.
Notified_None(c) == pc
Notified(c) == [t \in Thread |->
                  IF pc[t] = "blocked" /\ cur[t] = c THEN "woken" ELSE pc[t]]

\* The number a call uses when k ids are drawn one after the other.
NextSerial_Again(n, k) == n + k + 1
NextSerial(n, k) == n + k

\* updateContext(ctx) on the arrival of response n.
MergeContext_Skip(ctx, n) == ctx
MergeContext(ctx, n) == ctx \cup {n}

-----------------------------------------------------------------------------
Init ==
  /\ idCounter = 0
  /\ serial = [c \in Call |-> 0]
  /\ phase = [c \in Call |-> "new"]
  /\ callMap = [i \in Id |-> NoCall]
  /\ lock = NoThread
  /\ pc = [t \in Thread |-> "idle"]
  /\ cur = [t \in Thread |-> NoCall]
  /\ task = [t \in Thread |-> NoTask]
  /\ todo = [t \in Thread |-> {}]
  /\ out = [t \in Thread |-> {}]
  /\ stored = [c \in Call |-> Empty]
  /\ fired = [c \in Call |-> 0]
  /\ sent = {}
  /\ context = {}
  /\ wild = FALSE

-----------------------------------------------------------------------------
(* Placing a call *)

\* client(method, args[, context]): the form without a context draws an id
\* and then calls the other form, which draws the one that is used (k = 2).
Prepare(t, c, k) ==
  /\ Idle(t) /\ LockFree(t)
  /\ phase[c] = "new"
  /\ idCounter + k <= MaxId
  /\ idCounter' = idCounter + k
  /\ serial' = [serial EXCEPT ![c] = NextSerial(idCounter, k)]
  /\ phase' = [phase EXCEPT ![c] = "prepared"]
  /\ UNCHANGED <<stored, fired, callMap, lock, threadVars, task, sent, context, wild>>

\* The common part of both operators: take the lock, addPendingCall, and
\* enter sendRequest.  emplace moves the object into a node first, so under a
\* taken id it is destroyed at once: the callback runs (or release() does)
\* with the empty result.
Enter(t, c, i) ==
  /\ lock' = t
  /\ callMap' = Emplace(callMap, i, c)
  /\ fired' = [fired EXCEPT ![c] = IF callMap'[i] = c THEN @ ELSE @ + 1]
  /\ pc' = [pc EXCEPT ![t] = "sending"]
  /\ cur' = [cur EXCEPT ![t] = c]
  /\ UNCHANGED <<idCounter, stored, todo, out, task, sent, context, wild>>

StartAsync(t, c) ==
  /\ Idle(t) /\ LockFree(t)
  /\ phase[c] = "prepared"
  /\ phase' = [phase EXCEPT ![c] = "async"]
  /\ Enter(t, c, IdOf(serial[c]))
  /\ UNCHANGED serial

StartSync(t, c) ==
  /\ Idle(t) /\ LockFree(t)
  /\ phase[c] = "prepared"
  /\ phase' = [phase EXCEPT ![c] = "sync"]
  /\ Enter(t, c, IdOf(serial[c]))
  /\ UNCHANGED serial

\* Either operator on a PreparedCall whose operator >> threw (`executed' was not
\* set): a new object d under the same id.
Retry(t, c, d, form) ==
  /\ Idle(t) /\ LockFree(t)
  /\ phase[c] = "failed" /\ phase[d] = "new"
  /\ phase' = [phase EXCEPT ![c] = "async", ![d] = form]
  /\ serial' = [serial EXCEPT ![d] = serial[c]]
  /\ Enter(t, d, IdOf(serial[c]))

\* sendRequest puts the request on the wire ...
Transmit(t) ==
  /\ pc[t] = "sending" /\ Settled(t)
  /\ cur[t] \notin sent
  /\ sent' = sent \cup {cur[t]}
  /\ UNCHANGED <<idCounter, callVars, callMap, lock, threadVars, task, context, wild>>

\* ... and returns.  The lock is released: at the end of operator >>, or when
\* operator RpcResult returns or starts to wait.
AsyncSent(t) ==
  /\ pc[t] = "sending" /\ Settled(t)
  /\ cur[t] \in sent /\ phase[cur[t]] = "async"
  /\ lock' = NoThread
  /\ pc' = [pc EXCEPT ![t] = "idle"]
  /\ cur' = [cur EXCEPT ![t] = NoCall]
  /\ UNCHANGED <<idCounter, callVars, callMap, todo, out, task, sent, context, wild>>

\* trig.wait(_, [&]{return lpc.received;}): look first, then block.  Returning
\* pops the frame that the pending-call object lives in.
Await(t) ==
  /\ IF Received(cur[t])
       THEN /\ phase' = [phase EXCEPT ![cur[t]] = "returned"]
            /\ pc' = [pc EXCEPT ![t] = "idle"]
            /\ cur' = [cur EXCEPT ![t] = NoCall]
       ELSE /\ pc' = [pc EXCEPT ![t] = "blocked"]
            /\ UNCHANGED <<phase, cur>>
  /\ UNCHANGED <<idCounter, serial, stored, fired, callMap, todo, out, task, sent,
                 context, wild>>

SyncSent(t) ==
  /\ pc[t] = "sending" /\ Settled(t)
  /\ cur[t] \in sent /\ phase[cur[t]] = "sync"
  /\ lock' = NoThread
  /\ Await(t)

\* sendRequest throws.  The registration stays; `executed' stays false in
\* operator >>, and in operator RpcResult the frame is unwound.
SendThrows(t) ==
  /\ pc[t] = "sending" /\ Settled(t)
  /\ phase' = [phase EXCEPT ![cur[t]] = IF @ = "sync" THEN "unwound" ELSE "failed"]
  /\ lock' = NoThread
  /\ pc' = [pc EXCEPT ![t] = "idle"]
  /\ cur' = [cur EXCEPT ![t] = NoCall]
  /\ UNCHANGED <<idCounter, serial, stored, fired, callMap, todo, out, task, sent,
                 context, wild>>

\* A notified thread gets the mutex back and looks again.
Wake(t) ==
  /\ pc[t] = "woken" /\ lock = NoThread
  /\ Await(t)
  /\ UNCHANGED lock

SpuriousWake(t) ==
  /\ pc[t] = "blocked"
  /\ pc' = [pc EXCEPT ![t] = "woken"]
  /\ UNCHANGED <<idCounter, callVars, callMap, lock, cur, todo, out, task, sent,
                 context, wild>>

-----------------------------------------------------------------------------
(* Answering a call *)

\* find, move out and erase, in one critical section, of id i for answer a.
Take(t, i, a) ==
  /\ callMap' = Erase(callMap, i)
  /\ task' = [task EXCEPT ![t] = [step |-> "taken", id |-> i, call |-> callMap[i],
                                 res |-> a]]

\* processResponse, first critical section: updateContext.  The network may
\* deliver any response at any time after the request, and more than once.
Receive(t, c) ==
  /\ CanProcess(t) /\ LockFree(t)
  /\ c \in sent
  /\ context' = MergeContext(context, serial[c])
  /\ task' = [task EXCEPT ![t] = [step |-> "find", id |-> IdOf(serial[c]),
                                 call |-> NoCall, res |-> Response(serial[c])]]
  /\ UNCHANGED <<idCounter, callVars, callMap, lock, threadVars, sent, wild>>

\* processResponse, second critical section: cancelAsyncCall with the result.
Find(t) ==
  /\ task[t].step = "find" /\ LockFree(t)
  /\ callMap[task[t].id] # NoCall
  /\ Take(t, task[t].id, task[t].res)
  /\ UNCHANGED <<idCounter, callVars, lock, threadVars, sent, context, wild>>

\* Nobody waits for it: processResponse returns `unexpected'.
Unexpected(t) ==
  /\ task[t].step = "find" /\ LockFree(t)
  /\ callMap[task[t].id] = NoCall
  /\ task' = [task EXCEPT ![t] = NoTask]
  /\ UNCHANGED <<idCounter, callVars, callMap, lock, threadVars, sent, context, wild>>

\* cancelPendingCall; when it returns false nothing changes.
Cancel(t, i) ==
  /\ CanProcess(t) /\ LockFree(t)
  /\ callMap[i] # NoCall
  /\ Take(t, i, Cancelled)
  /\ UNCHANGED <<idCounter, callVars, lock, threadVars, sent, context, wild>>

\* The ids that cancelAllPendingCalls has left after id i.
Remaining_Break(t, i) == IF callMap[i] = NoCall THEN {} ELSE todo[t] \ {i}
Remaining(t, i) == todo[t] \ {i}

\* cancelAllPendingCalls copies the ids under the lock, releases it, and then
\* cancels them one by one.
CancelAll(t) ==
  /\ CanProcess(t) /\ LockFree(t)
  /\ Keys(callMap) # {}
  /\ todo' = [todo EXCEPT ![t] = Keys(callMap)]
  /\ UNCHANGED <<idCounter, callVars, callMap, lock, pc, cur, out, task, sent, context,
                 wild>>

CancelNext(t, i) ==
  /\ i \in todo[t] /\ task[t].step = "none" /\ LockFree(t)
  /\ todo' = [todo EXCEPT ![t] = Remaining(t, i)]
  /\ IF callMap[i] # NoCall THEN Take(t, i, Cancelled) ELSE UNCHANGED <<callMap, task>>
  /\ UNCHANGED <<idCounter, callVars, lock, pc, cur, out, sent, context, wild>>

\* filterPendingCalls: calls that are not in ids are moved out of the map.
Filter(t, ids) ==
  /\ CanProcess(t) /\ LockFree(t)
  /\ \E i \in Id \ ids : callMap[i] # NoCall
  /\ callMap' = Keep(callMap, ids)
  /\ out' = [out EXCEPT ![t] = {callMap[i] : i \in Keys(callMap) \ ids}]
  /\ UNCHANGED <<idCounter, callVars, lock, pc, cur, todo, task, sent, context, wild>>

\* What the subclass does with them: answers them, or just drops them.
DropNext(t, c, answered) ==
  /\ c \in out[t] /\ task[t].step = "none"
  /\ out' = [out EXCEPT ![t] = @ \ {c}]
  /\ task' = [task EXCEPT ![t] = [step |-> IF answered THEN "taken" ELSE "given",
                                 id |-> IdOf(serial[c]), call |-> c, res |-> Cancelled]]
  /\ UNCHANGED <<idCounter, callVars, callMap, lock, pc, cur, todo, sent, context, wild>>

\* pc->onResponse(result), outside the lock.
OnResponse(t) ==
  /\ task[t].step = "taken"
  /\ task' = [task EXCEPT ![t].step = "given"]
  /\ IF Dead(task[t].call)
       THEN wild' = TRUE /\ UNCHANGED stored
       ELSE stored' = [stored EXCEPT ![task[t].call] = task[t].res] /\ UNCHANGED wild
  /\ UNCHANGED <<idCounter, serial, phase, fired, callMap, lock, threadVars, sent, context>>

\* The object is destroyed: an asynchronous one runs its callback ...
RunCallback(t) ==
  /\ task[t].step = "given" /\ phase[task[t].call] \in {"async", "failed"}
  /\ fired' = [fired EXCEPT ![task[t].call] = @ + 1]
  /\ task' = [task EXCEPT ![t] = NoTask]
  /\ UNCHANGED <<idCounter, serial, phase, stored, callMap, lock, threadVars, sent,
                 context, wild>>

\* ... a synchronous one locks, sets `received' and notifies.
Release(t) ==
  /\ task[t].step = "given" /\ phase[task[t].call] = "sync" /\ LockFree(t)
  /\ fired' = [fired EXCEPT ![task[t].call] = @ + 1]
  /\ pc' = Notified(task[t].call)
  /\ task' = [task EXCEPT ![t] = NoTask]
  /\ UNCHANGED <<idCounter, serial, phase, stored, callMap, lock, cur, todo, out, sent,
                 context, wild>>

\* release() on an object whose frame is gone: undefined behaviour.
ReleaseDead(t) ==
  /\ task[t].step = "given" /\ Dead(task[t].call)
  /\ wild' = TRUE
  /\ task' = [task EXCEPT ![t] = NoTask]
  /\ UNCHANGED <<idCounter, callVars, callMap, lock, threadVars, sent, context>>

-----------------------------------------------------------------------------
\* The steps a thread takes on its own once an operation has begun.
Continue(t) ==
  \/ Transmit(t) \/ AsyncSent(t) \/ SyncSent(t) \/ Wake(t)
  \/ Find(t) \/ Unexpected(t) \/ OnResponse(t)
  \/ RunCallback(t) \/ Release(t) \/ ReleaseDead(t)
  \/ \E i \in Id : CancelNext(t, i)
  \/ \E c \in Call, answered \in BOOLEAN : DropNext(t, c, answered)

\* The operations the program may begin, and what may happen to it.
Begin(t) ==
  \/ \E c \in Call : \/ \E k \in {1, 2} : Prepare(t, c, k)
                     \/ StartAsync(t, c) \/ StartSync(t, c)
                     \/ \E d \in Call, form \in {"async", "sync"} : Retry(t, c, d, form)
                     \/ Receive(t, c)
  \/ \E i \in Id : Cancel(t, i)
  \/ CancelAll(t)
  \/ \E ids \in SUBSET Id : Filter(t, ids)
  \/ SendThrows(t) \/ SpuriousWake(t)

Next == \E t \in Thread : Continue(t) \/ Begin(t)

Spec == Init /\ [][Next]_vars

\* Fairness.  A thread that is inside an operation is scheduled, and the
\* application's sendRequest transmits and ends, even if it processes
\* responses on the way.  Nothing makes the program begin an operation and
\* nothing makes the server answer.
Fairness == \A t \in Thread :
  WF_vars(Continue(t)) /\ SF_vars(Transmit(t) \/ AsyncSent(t) \/ SyncSent(t))

FairSpec == Spec /\ Fairness

-----------------------------------------------------------------------------
(* Safety *)

TypeOK ==
  /\ idCounter \in 0 .. MaxId
  /\ serial \in [Call -> 0 .. MaxId]
  /\ phase \in [Call -> Phase]
  /\ callMap \in [Id -> Call \cup {NoCall}]
  /\ lock \in Thread \cup {NoThread}
  /\ pc \in [Thread -> {"idle", "sending", "blocked", "woken"}]
  /\ cur \in [Thread -> Call \cup {NoCall}]
  /\ task \in [Thread -> Task]
  /\ todo \in [Thread -> SUBSET Id]
  /\ out \in [Thread -> SUBSET Call]
  /\ stored \in [Call -> Answer]
  /\ fired \in [Call -> Nat]
  /\ sent \subseteq Call
  /\ context \subseteq 0 .. MaxId
  /\ wild \in BOOLEAN

Registered(c) == phase[c] \notin {"new", "prepared"}
InMap(c)      == \E i \in Id : callMap[i] = c
CarriedBy(t, c) == task[t].call = c \/ c \in out[t]
Carried(c)    == \E t \in Thread : CarriedBy(t, c)

\* Ownership of the unique_ptr, however add, cancel, cancel-all, filter and
\* response processing interleave: a registered pending-call object is in the
\* map, in the hands of one thread, or done, never in two of these places and
\* never in none (unless its own frame was unwound by a throwing sendRequest).
OnePlace ==
  \A c \in Call :
    /\ Registered(c) /\ phase[c] # "unwound" => InMap(c) \/ Carried(c) \/ Received(c)
    /\ InMap(c) => ~Carried(c) /\ ~Received(c)
    /\ Carried(c) => ~Received(c)
    /\ \A t, u \in Thread : CarriedBy(t, c) /\ CarriedBy(u, c) => t = u
    /\ \A i, j \in Id : callMap[i] = c /\ callMap[j] = c => i = j

\* The response a call gets is the response to its own request, across retries,
\* late and repeated responses - or to one numbered at least a full turn of the
\* id counter earlier or later.
NoMisdelivery ==
  \A c \in Call :
    stored[c].kind = "response" =>
      \/ stored[c].of = serial[c]
      \/ stored[c].of - serial[c] >= IdSpace
      \/ serial[c] - stored[c].of >= IdSpace

\* The object on the stack of operator RpcResult is not touched after the
\* operator is left, the single exception being a sendRequest that threw.
NoUseAfterReturn == wild => \E c \in Call : phase[c] = "unwound"

\* The context change that came with a response is merged before the caller
\* can see that response, so the caller's next request carries it.
ContextFirst ==
  \A c \in Call : Received(c) /\ stored[c].kind = "response" => stored[c].of \in context

-----------------------------------------------------------------------------
(* RpcClient implements PendingCalls *)

NoAnswer == [kind |-> "none", of |-> 0]

Status == [c \in Call |-> IF Received(c) THEN "resolved"
                         ELSE IF Registered(c) THEN "pending" ELSE "idle"]
Answered == [c \in Call |-> IF Received(c) THEN stored[c] ELSE NoAnswer]

PC == INSTANCE PendingCalls WITH status <- Status, answer <- Answered

\* Each call is answered at most once, after it was placed, and the answer the
\* callback or the waiting thread was given never changes afterwards.
Implements == PC!PSpec

-----------------------------------------------------------------------------
(* Liveness *)

Gone(c) == Received(c) \/ phase[c] = "unwound"

\* A call that a thread took out of the map is answered, and so is every call
\* that was pending when cancelAllPendingCalls copied the ids, whatever other
\* threads do to the map before it gets to them.
ClaimedIsResolved ==
  \A c \in Call :
    (Carried(c) \/ \E t \in Thread : \E i \in todo[t] : callMap[i] = c) ~> Gone(c)

\* No lost wake-up: a synchronous call returns once its answer has arrived,
\* also when it arrived before the thread started to wait.
SyncReturns ==
  \A c \in Call : (phase[c] = "sync" /\ Received(c)) ~> phase[c] \in {"returned", "unwound"}

-----------------------------------------------------------------------------
(* The inductive invariant behind the safety theorems *)

\* A thread inside an operator works for a call of its own, and a thread
\* carries a pending-call object exactly between Take and its destruction.
ThreadsOK ==
  /\ \A t \in Thread : pc[t] # "idle" => cur[t] \in Call /\ phase[cur[t]] \in {"async", "sync"}
  /\ \A t, u \in Thread : pc[t] # "idle" /\ pc[u] # "idle" /\ cur[t] = cur[u] => t = u
  /\ \A t \in Thread : task[t].step \in {"taken", "given"} <=> task[t].call # NoCall

\* OnePlace, spelled out per place, and what holds of an object in each.
PlacesOK ==
  /\ \A i \in Id : callMap[i] # NoCall =>
       /\ Registered(callMap[i]) /\ IdOf(serial[callMap[i]]) = i
       /\ fired[callMap[i]] = 0
       /\ \A t \in Thread : ~CarriedBy(t, callMap[i])
  /\ \A t \in Thread, c \in Call : CarriedBy(t, c) =>
       /\ Registered(c) /\ fired[c] = 0
       /\ ~(task[t].call = c /\ c \in out[t])
       /\ \A u \in Thread : CarriedBy(u, c) => u = t
  /\ \A c \in Call : fired[c] > 0 => Registered(c)
  /\ \A c \in Call : phase[c] = "returned" => fired[c] > 0

\* No registered object is lost.
NoneLost ==
  \A c \in Call : Registered(c) /\ phase[c] # "unwound" => InMap(c) \/ Carried(c) \/ Received(c)

\* Every response on its way, or delivered, has the id of the call it is for.
AnswersOK ==
  /\ \A c \in Call : stored[c].kind = "response" =>
       Registered(c) /\ IdOf(stored[c].of) = IdOf(serial[c]) /\ stored[c].of \in context
  /\ \A t \in Thread : task[t].res.kind = "response" =>
       IdOf(task[t].res.of) = task[t].id /\ task[t].res.of \in context
  /\ \A t \in Thread : task[t].call # NoCall => task[t].id = IdOf(serial[task[t].call])

IInv == TypeOK /\ ThreadsOK /\ PlacesOK /\ NoneLost /\ AnswersOK /\ NoUseAfterReturn
=============================================================================
