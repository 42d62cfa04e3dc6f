------------------------------ MODULE RpcRequest ------------------------------
(***************************************************************************)
(* The life of one request in RpcServer (src/src/imtjson/rpc.h, rpc.cpp):  *)
(* RpcRequest::create, RpcServer::exec, the method, the proxy or the       *)
(* exception handler that exec calls, the copies of the request that       *)
(* outlive exec in the hands of workers, and the destructor that reports   *)
(* a request nobody answered.                                              *)
(*                                                                         *)
(* RpcRequest::create comes in two forms that answer differently: with a   *)
(* function, which sees the finished response (RequestData::sendResult and *)
(* sendError), and with an object of class Callbacks; variant says which.  *)
(* Below, the function is what was given to create, either of the two.     *)
(*                                                                         *)
(* Granularity.  Neither RpcServer nor RpcRequest locks; the parties that  *)
(* share a request are expected to take turns.  A call of the function is  *)
(* two steps, though: the function may return what it likes, it is given   *)
(* the request and may use it before it returns, and it may throw (the     *)
(* methods of Callbacks are noexcept).  calls is the stack of such calls.  *)
(* While one runs, the other parties only copy the request or let it go.   *)
(*                                                                         *)
(* Op_Slip before Op is Op with one slip; see RpcClient.                   *)
(***************************************************************************)
EXTENDS Naturals, Sequences, SequencesExt

CONSTANTS
  Worker,     \* parties that may be handed a copy of the request
  MaxNotes,   \* bound: notifications sent
  MaxReplies, \* bound: answers begun, above which only exec and the destructor answer
  OnceOnly    \* whether the application heeds "can be called once only"

ASSUME RequestAssumption ==
  /\ MaxNotes \in Nat
  /\ MaxReplies \in Nat \ {0}
  /\ OnceOnly \in BOOLEAN
  /\ {"creator", "server"} \cap Worker = {}
  /\ {"function", "exec", "destructor"} \cap Worker = {}

VARIABLES
  variant,        \* which RpcRequest::create made it: "fn" or "callbacks"
  hasId,          \* the request has an id that is not null
  flags,          \* RpcFlags: SUBSET {"pre", "post"}
  srvsvc,         \* init() was called: the server knows the request
  stage,          \* how far RpcServer::exec is
  holders,        \* who has a copy of the request
  shared,         \* workers that were handed a copy (each once: a bound)
  responseSent, errorSent, notifyEnabled,
  calls,          \* the calls of the function in progress: what for, on whose behalf
  replies, taken, \* answers the function was called with, and returned from
  early, late,    \* notifications begun before and after an answer was taken
  refused,        \* a notification was refused by the other side
  inAnswer,       \* the function answered while it was being given an answer
  inNote          \* the function used the request while it was given a notification

dataVars == <<responseSent, errorSent, notifyEnabled>>
answerVars == <<dataVars, calls, replies, inAnswer, inNote>>
noteVars == <<early, late, refused>>
vars == <<variant, hasId, flags, srvsvc, stage, holders, shared, answerVars, taken, noteVars>>

Party == Worker \cup {"creator", "server"}
Stage == {"created", "method", "proxy", "refused", "caught", "done"}
Kind == {"result", "error", "note"}
Call == [kind : Kind, by : Party \cup {"function", "exec", "destructor"}]

TypeOK ==
  /\ variant \in {"fn", "callbacks"}
  /\ hasId \in BOOLEAN /\ flags \subseteq {"pre", "post"} /\ srvsvc \in BOOLEAN
  /\ stage \in Stage /\ holders \subseteq Party /\ shared \subseteq Worker
  /\ responseSent \in BOOLEAN /\ errorSent \in BOOLEAN /\ notifyEnabled \in BOOLEAN
  /\ calls \in Seq(Call)
  /\ replies \in 0 .. (MaxReplies + 1) /\ taken \in Nat
  /\ early \in Nat /\ late \in Nat /\ refused \in BOOLEAN
  /\ inAnswer \in BOOLEAN /\ inNote \in BOOLEAN

\* RpcRequest::create: the creator holds the first reference.  The form with
\* an object takes no flags; it allows notifications.
Init ==
  /\ variant \in {"fn", "callbacks"}
  /\ hasId \in BOOLEAN
  /\ flags \in IF variant = "fn" THEN SUBSET {"pre", "post"} ELSE {{"pre", "post"}}
  /\ srvsvc = FALSE /\ stage = "created" /\ holders = {"creator"} /\ shared = {}
  /\ responseSent = FALSE /\ errorSent = FALSE
  /\ notifyEnabled \in BOOLEAN /\ (notifyEnabled <=> "pre" \in flags)
  /\ calls = <<>> /\ replies = 0 /\ taken = 0
  /\ early = 0 /\ late = 0 /\ refused = FALSE
  /\ inAnswer = FALSE /\ inNote = FALSE

-----------------------------------------------------------------------------
(* Calls of the function *)

IsAnswer(call) == call.kind # "note"
Answering == \E i \in DOMAIN calls : IsAnswer(calls[i])
Noting == calls # <<>> /\ ~IsAnswer(Last(calls))

\* Who may use the request now: its holders, or the function in a call.  While
\* exec refuses the request itself, its reference is in nobody else's hands.
Active(p) ==
  IF calls = <<>> THEN p \in holders /\ ~(p = "server" /\ stage = "refused")
                  ELSE p = "function"

\* p waits for a call of the function to end.
Busy(p) == \E i \in DOMAIN calls : calls[i].by = p

\* The function is called.
Counted(kind) == replies' = IF kind = "note" THEN replies ELSE replies + 1
Begin(kind, by) ==
  /\ calls' = Append(calls, [kind |-> kind, by |-> by])
  /\ Counted(kind)
  /\ inAnswer' = (inAnswer \/ (kind # "note" /\ Answering))
  /\ inNote' = (inNote \/ Noting)

\* The form with a function drops a second answer, and answers no
\* notification; the form with an object passes everything on.
Accepts_Always == TRUE
Accepts == variant = "callbacks" \/ (hasId /\ ~responseSent)

\* What is recorded before the function is called: RequestData::sendError sets
\* its flags first, sendResult and both methods of the other form set none.
Recorded_ErrorOnly(kind) ==
  /\ errorSent' = (errorSent \/ (kind = "error" /\ variant = "fn"))
  /\ UNCHANGED <<responseSent, notifyEnabled>>
Recorded(kind) ==
  IF kind = "error" /\ variant = "fn"
    THEN responseSent' = TRUE /\ errorSent' = TRUE /\ UNCHANGED notifyEnabled
    ELSE UNCHANGED dataVars

\* sendResult, sendError: on behalf of by
Send(kind, by) ==
  IF Accepts THEN Begin(kind, by) /\ Recorded(kind) ELSE UNCHANGED answerVars

\* postSendResponse(ok): ok is what the function returned.
PostSendResponse(ok) ==
  /\ responseSent' = TRUE
  /\ notifyEnabled' = ("post" \in flags /\ ok)
  /\ UNCHANGED errorSent

\* One reference is dropped.  With the last one the object is destroyed, and
\* a request that the server saw and nobody answered gets an error.
MustReport_Never == FALSE
MustReport == ~responseSent /\ srvsvc
DropRef(p) ==
  /\ holders' = holders \ {p}
  /\ IF holders' = {} /\ MustReport THEN Send("error", "destructor") ELSE UNCHANGED answerVars

-----------------------------------------------------------------------------
(* How a call of the function ends *)

\* exec's own call ends: exec returns.
ExecEnds == stage' = "done" /\ holders' = holders \ {"server"}

\* The rest of sendResult or sendError after the function returned ok.
AnswerTaken(ok) ==
  /\ calls # <<>> /\ IsAnswer(Last(calls))
  /\ calls' = Front(calls)
  /\ PostSendResponse(ok)
  /\ taken' = taken + 1
  /\ IF Last(calls).by = "exec" THEN ExecEnds ELSE UNCHANGED <<stage, holders>>
  /\ UNCHANGED <<variant, hasId, flags, srvsvc, shared, replies, inAnswer, inNote, noteVars>>

\* The rest of sendNotify: a refusal disables notifications.  The form with an
\* object remembers nothing.
Stop_Not(ok) == notifyEnabled
Stop(ok) == ok
NoteTaken(ok) ==
  /\ Noting
  /\ calls' = Front(calls)
  /\ notifyEnabled' = IF variant = "fn" THEN Stop(ok) ELSE notifyEnabled
  /\ refused' = (refused \/ ~ok)
  /\ UNCHANGED <<variant, hasId, flags, srvsvc, stage, holders, shared, responseSent, errorSent,
                 replies, taken, inAnswer, inNote, early, late>>

\* The function throws, and what follows the call is skipped.  What passes through
\* a party or through the function itself is theirs to handle; setNoResultError
\* drops it; exec catches it, and what its own setInternalError then throws or
\* sends comes to nothing, responseSent being set.  (The program ends where the
\* exception handler threw before, exec being noexcept: the model goes on.)
Thrown ==
  /\ calls # <<>> /\ variant = "fn"
  /\ calls' = Front(calls)
  /\ IF Last(calls).by # "exec" THEN UNCHANGED <<stage, holders>>
     ELSE IF stage = "refused" THEN stage' = "caught" /\ UNCHANGED holders
     ELSE ExecEnds
  /\ UNCHANGED <<variant, hasId, flags, srvsvc, shared, dataVars, replies, taken, inAnswer, inNote,
                 noteVars>>

-----------------------------------------------------------------------------
(* RpcServer::exec *)

\* init(), and the method or the proxy is found; or the request is malformed or
\* its method unknown, and exec is about to refuse it.
Exec(next) ==
  /\ stage = "created" /\ Active("creator")
  /\ srvsvc' = TRUE
  /\ stage' = next
  /\ holders' = holders \cup {"server"}
  /\ UNCHANGED <<variant, hasId, flags, shared, answerVars, taken, noteVars>>

\* The method returns, the proxy or the exception handler returns true, and
\* exec drops its reference.
Return ==
  /\ stage \in {"method", "proxy", "caught"} /\ ~Busy("server") /\ ~Busy("exec")
  /\ stage' = "done"
  /\ DropRef("server")
  /\ UNCHANGED <<variant, hasId, flags, srvsvc, shared, taken, noteVars>>

\* The method or the proxy throws, and the exception handler is next; or the
\* proxy returns false.
Leave(next) ==
  /\ calls = <<>>
  /\ stage = "proxy" \/ (stage = "method" /\ next = "caught")
  /\ stage' = next
  /\ UNCHANGED <<variant, hasId, flags, srvsvc, shared, holders, answerVars, taken, noteVars>>

\* exec answers: the request is refused, or the exception handler is absent,
\* returns false or throws (internal error).  Where nothing is sent exec returns;
\* the destructor could not send anything either.
Fail ==
  /\ stage \in {"refused", "caught"} /\ calls = <<>>
  /\ Send("error", "exec")
  /\ IF Accepts THEN UNCHANGED <<stage, holders>> ELSE ExecEnds
  /\ UNCHANGED <<variant, hasId, flags, srvsvc, shared, taken, noteVars>>

-----------------------------------------------------------------------------
(* What may be done with the request *)

\* setResult, setError
Answer(p, kind) ==
  /\ Active(p) /\ replies < MaxReplies
  /\ OnceOnly => replies = 0
  /\ Send(kind, p)
  /\ UNCHANGED <<variant, hasId, flags, srvsvc, stage, holders, shared, taken, noteVars>>

\* RequestData::sendNotify up to the call.  The form with an object forwards
\* every notification.
Notify(p) ==
  /\ Active(p) /\ early + late < MaxNotes
  /\ variant = "callbacks" \/ notifyEnabled
  /\ Begin("note", p)
  /\ IF taken = 0 THEN early' = early + 1 /\ UNCHANGED late
                  ELSE late' = late + 1 /\ UNCHANGED early
  /\ UNCHANGED <<variant, hasId, flags, srvsvc, stage, holders, shared, dataVars, taken, refused>>

\* The request is copied, to be answered later.
Share(p, w) ==
  /\ p \in holders /\ w \notin shared
  /\ holders' = holders \cup {w}
  /\ shared' = shared \cup {w}
  /\ UNCHANGED <<variant, hasId, flags, srvsvc, stage, answerVars, taken, noteVars>>

\* A worker or the creator lets its copy go.
Drop(p) ==
  /\ p \in holders \ {"server"} /\ ~Busy(p)
  /\ DropRef(p)
  /\ UNCHANGED <<variant, hasId, flags, srvsvc, stage, shared, taken, noteVars>>

-----------------------------------------------------------------------------
Finish == Return \/ Fail
CallEnds == Thrown \/ \E ok \in BOOLEAN : AnswerTaken(ok) \/ NoteTaken(ok)

Next ==
  \/ \E next \in {"method", "proxy", "refused"} : Exec(next)
  \/ \E next \in {"refused", "caught"} : Leave(next)
  \/ Finish \/ CallEnds
  \/ \E p \in Party \cup {"function"} :
       Notify(p) \/ \E kind \in {"result", "error"} : Answer(p, kind)
  \/ \E p \in Party, w \in Worker : Share(p, w)
  \/ \E p \in Worker \cup {"creator"} : Drop(p)

Spec == Init /\ [][Next]_vars

\* Fairness: exec ends, so does every call of the function, and nobody keeps a
\* copy of the request for ever.
FairSpec ==
  /\ Spec
  /\ WF_vars(Finish) /\ WF_vars(CallEnds)
  /\ \A p \in Worker \cup {"creator"} : SF_vars(Drop(p))

-----------------------------------------------------------------------------
(* Properties *)

\* sendResult and sendError against exec, the workers and the destructor: a
\* request made with a function is answered once at most, and a notification
\* never, whoever tries to; an answer that the function threw out of does not
\* count.  The code does not guard against a function that answers the request it
\* is just given the answer of (inAnswer), because responseSent is not set yet.
AnsweredOnce ==
  variant = "fn" =>
    /\ replies > 0 => hasId
    /\ inAnswer \/ taken <= IF Answering THEN 0 ELSE 1

\* An answer that was taken, or an error, is the last: a function that has returned
\* from an answer, or has been called with an error and threw out of it, is given
\* no other one, not by exec that catches the exception either.
AnswerIsLast ==
  [][variant = "fn" /\ (taken > 0 \/ errorSent) => replies' = replies]_vars

\* Once the server has seen a request, it cannot disappear unanswered: when the
\* last copy is gone, an answer was taken or an error was at least tried.
NeverSilent ==
  holders = {} /\ calls = <<>> /\ srvsvc /\ (hasId \/ variant = "callbacks") =>
    taken > 0 \/ errorSent

\* A notification is delivered before the answer is taken only under
\* preResponseNotify and after it only under postResponseNotify, and under
\* preResponseNotify alone a refusal is final.  What a function did with the request
\* while it was given a notification (inNote) is undone when it returns: sendNotify
\* writes notifyEnabled last.
NotesAllowed ==
  variant = "fn" /\ ~inNote =>
    /\ early > 0 => "pre" \in flags
    /\ late > 0 => "post" \in flags
    /\ notifyEnabled /\ refused => "post" \in flags /\ taken > 0

\* Every request that reaches the server is answered, if everybody who keeps a
\* copy lets it go in the end.
EventuallyAnswered ==
  (srvsvc /\ (hasId \/ variant = "callbacks")) ~> (taken > 0 \/ errorSent)

-----------------------------------------------------------------------------
(* The inductive invariant behind the theorems *)

\* Who is behind each call: somebody who still holds the request, except for the
\* destructor, and the function itself where a call was made inside another.
CallOK(i) ==
  LET call == calls[i] IN
    /\ call.by = "function" <=> i > 1
    /\ call.by \in Party => call.by \in holders
    /\ call.by = "exec" => stage \in {"refused", "caught"}
    /\ call.by = "destructor" => holders = {}
    /\ call.by \in {"exec", "destructor"} => IsAnswer(call) /\ (variant = "fn" => errorSent)
CallsOK == \A i \in DOMAIN calls : CallOK(i)

\* responseSent tells the truth for both forms, and while exec runs it holds the
\* request.  An answer above the bound is exec's or the destructor's, and the last.
ProgressOK ==
  /\ responseSent <=> taken > 0 \/ errorSent
  /\ errorSent => variant = "fn"
  /\ stage \in {"method", "proxy", "refused", "caught"} => "server" \in holders
  /\ stage = "created" => ~srvsvc
BoundOK ==
  \/ replies <= MaxReplies
  \/ errorSent \/ (responseSent /\ stage = "done") \/ holders = {}
  \/ calls # <<>> /\ calls[1].by = "exec"

\* Where the function does not use the request inside a call, there is one answer
\* at a time, and a notification has nothing above it on the stack.
NestOK ==
  /\ inAnswer \/ \A i, j \in DOMAIN calls : IsAnswer(calls[i]) /\ IsAnswer(calls[j]) => i = j
  /\ inNote \/ \A i \in DOMAIN calls : ~IsAnswer(calls[i]) => i = Len(calls)

\* When notifications are enabled, and for how long.
EnabledOK ==
  variant = "fn" /\ ~inNote =>
    /\ notifyEnabled => IF taken > 0 THEN "post" \in flags ELSE "pre" \in flags /\ ~refused
    /\ Noting => notifyEnabled

RInv ==
  /\ TypeOK /\ CallsOK /\ ProgressOK /\ BoundOK /\ NestOK /\ EnabledOK
  /\ AnsweredOnce /\ NeverSilent /\ NotesAllowed

-----------------------------------------------------------------------------
(* What the documentation says and the code does not do *)

\* rpc.h: "set result (can be called once only)", "set error (can be called once
\* only)".  If the application heeds that, the function is called once.
OnceEach == replies <= 1

\* rpc.h: "there is no way to reenable disallowed notification".
StaysDisallowed == [][refused => ~notifyEnabled']_vars
=============================================================================
