--------------------------- MODULE RpcRequestProofs ---------------------------
(***************************************************************************)
(* Theorems about RpcRequest, for any set of workers and any bounds.  The  *)
(* invariant RInv adds to the properties who is behind each call in        *)
(* progress (CallsOK), that responseSent tells whether an answer was taken *)
(* or an error tried (ProgressOK), where the bound on answers can be       *)
(* passed (BoundOK), how calls nest (NestOK) and what notifyEnabled stands *)
(* for (EnabledOK).                                                        *)
(***************************************************************************)
EXTENDS RpcRequest, TLAPS

USE RequestAssumption

-----------------------------------------------------------------------------
(* The stack of calls *)

\* What a call that begins does to the stack.
LEMMA Pushed ==
  ASSUME calls \in Seq(Call), NEW call \in Call, calls' = Append(calls, call)
  PROVE  /\ calls' \in Seq(Call) /\ calls' # <<>>
         /\ Len(calls) \in Nat /\ DOMAIN calls = 1 .. Len(calls)
         /\ Len(calls') = Len(calls) + 1 /\ DOMAIN calls' = 1 .. Len(calls) + 1
         /\ \A i \in DOMAIN calls : calls'[i] = calls[i]
         /\ calls'[Len(calls) + 1] = call /\ Last(calls') = call
  BY DEF Last

\* What a call that ends does to it.
LEMMA Popped ==
  ASSUME calls \in Seq(Call), calls # <<>>, calls' = Front(calls)
  PROVE  /\ calls' \in Seq(Call)
         /\ Len(calls) \in Nat \ {0} /\ DOMAIN calls = 1 .. Len(calls)
         /\ Len(calls') = Len(calls) - 1 /\ DOMAIN calls' = 1 .. Len(calls) - 1
         /\ \A i \in DOMAIN calls' : i \in DOMAIN calls /\ calls'[i] = calls[i]
         /\ Len(calls) # 1 => calls' # <<>>
         /\ Last(calls) = calls[Len(calls)] /\ Len(calls) \in DOMAIN calls
<1>1. Len(calls) \in Nat /\ DOMAIN calls = 1 .. Len(calls) /\ Len(calls) # 0
  OBVIOUS
<1>2. calls' = SubSeq(calls, 1, Len(calls) - 1) /\ Last(calls) = calls[Len(calls)]
  BY DEF Last, Front
<1>3. calls' \in Seq(Call) /\ Len(calls') = Len(calls) - 1
      /\ DOMAIN calls' = 1 .. Len(calls) - 1
  BY <1>1, <1>2
<1>4. \A i \in DOMAIN calls' : i \in DOMAIN calls /\ calls'[i] = calls[i]
  BY <1>1, <1>2, <1>3
<1>5. Len(calls) # 1 => calls' # <<>>
  <2>1. Len(calls) # 1 => 1 \in DOMAIN calls'
    BY <1>1, <1>3
  <2>2. QED
    BY <2>1
<1>6. QED
  BY <1>1, <1>2, <1>3, <1>4, <1>5

-----------------------------------------------------------------------------
(* Answers: what each attempt to answer does *)

\* What a step keeps intact besides the answers.
Frame ==
  /\ UNCHANGED <<variant, hasId, flags, taken, noteVars>>
  /\ srvsvc' \in BOOLEAN /\ stage' \in Stage
  /\ holders' \subseteq Party /\ shared' \subseteq Worker
  /\ stage' \in {"method", "proxy", "refused", "caught"} => "server" \in holders'
  /\ stage' = "created" => ~srvsvc'
  /\ stage = "done" => stage' = "done"
  /\ holders = {} => holders' = {}
  /\ \A p \in Party : Busy(p) => p \in holders'
  /\ Busy("exec") => stage' \in {"refused", "caught"}

\* The caller of the function is entitled to call it.
Entitled(by) ==
  /\ by \in Party \cup {"function", "exec", "destructor"}
  /\ by = "function" <=> calls # <<>>
  /\ by \in Party => by \in holders'
  /\ by = "exec" => stage' \in {"refused", "caught"}
  /\ by = "destructor" => holders' = {}

\* A step that begins an answer keeps the invariant.
LEMMA SentKeeps ==
  ASSUME RInv, Frame, NEW kind \in {"result", "error"}, NEW by, Entitled(by),
         Accepts, Send(kind, by), by \in {"exec", "destructor"} => kind = "error",
         \/ replies < MaxReplies
         \/ replies <= MaxReplies /\ (by = "exec" \/ holders' = {})
  PROVE  RInv'
<1> DEFINE call == [kind |-> kind, by |-> by]
<1>a. calls \in Seq(Call) /\ replies \in Nat /\ TypeOK /\ MaxReplies \in Nat
  BY DEF RInv, TypeOK
<1>b. call \in Call /\ IsAnswer(call) /\ call.by = by
  BY DEF Call, Kind, Entitled, IsAnswer
<1>c. /\ calls' = Append(calls, call) /\ replies' = replies + 1
      /\ inAnswer' = (inAnswer \/ Answering) /\ inNote' = (inNote \/ Noting)
      /\ Recorded(kind)
  BY DEF Send, Begin, Counted
<1>d. /\ calls' \in Seq(Call) /\ calls' # <<>>
      /\ Len(calls) \in Nat /\ DOMAIN calls = 1 .. Len(calls)
      /\ Len(calls') = Len(calls) + 1 /\ DOMAIN calls' = 1 .. Len(calls) + 1
      /\ \A i \in DOMAIN calls : calls'[i] = calls[i]
      /\ calls'[Len(calls) + 1] = call /\ Last(calls') = call
  BY <1>a, <1>b, <1>c, Pushed
<1> HIDE DEF call
<1>e. /\ errorSent' \in BOOLEAN /\ responseSent' \in BOOLEAN /\ notifyEnabled' = notifyEnabled
      /\ errorSent => errorSent' /\ responseSent'
      /\ errorSent' => errorSent \/ (responseSent' /\ variant = "fn")
      /\ responseSent' => responseSent \/ errorSent'
      /\ responseSent => responseSent'
      /\ kind = "error" /\ variant = "fn" => errorSent'
  BY <1>a, <1>c, Zenon DEF Recorded, dataVars, TypeOK, RInv, ProgressOK
<1>f. variant = "fn" => hasId /\ taken = 0
  BY <1>a DEF Accepts, RInv, ProgressOK, TypeOK
<1>1. TypeOK'
  <2>1. replies' \in 0 .. (MaxReplies + 1)
    BY <1>a, <1>c
  <2>2. inAnswer' \in BOOLEAN /\ inNote' \in BOOLEAN
    BY <1>a, <1>c DEF TypeOK
  <2>3. QED
    BY <1>a, <1>d, <1>e, <2>1, <2>2 DEF TypeOK, Frame, noteVars
<1>2. CallsOK'
  <2> SUFFICES ASSUME NEW i \in DOMAIN calls' PROVE CallOK(i)'
    BY DEF CallsOK
  <2>1. CASE i \in DOMAIN calls
    <3>1. CallOK(i) /\ calls'[i] = calls[i]
      BY <1>d, <2>1 DEF RInv, CallsOK
    <3>2. /\ calls[i].by \in Party => calls[i].by \in holders'
          /\ calls[i].by = "exec" => stage' \in {"refused", "caught"}
      BY <2>1 DEF Frame, Busy
    <3>3. QED
      BY <3>1, <3>2, <1>e DEF CallOK, IsAnswer, Frame
  <2>2. CASE i = Len(calls) + 1
    <3>1. calls'[i] = call /\ call.kind = kind
      BY <1>d, <2>2 DEF call
    <3>2. by = "function" <=> i > 1
      BY <1>a, <1>d, <2>2 DEF Entitled
    <3>3. QED
      BY <3>1, <3>2, <1>b, <1>e DEF CallOK, IsAnswer, Entitled, Frame
  <2>3. QED
    BY <1>d, <2>1, <2>2
<1>3. ProgressOK'
  BY <1>e DEF RInv, ProgressOK, Frame
<1>4. BoundOK'
  <2>1. CASE replies < MaxReplies
    BY <2>1, <1>a, <1>c DEF BoundOK
  <2>2. CASE by = "exec"
    <3>1. Len(calls) = 0
      BY <2>2, <1>a DEF Entitled
    <3>2. calls'[1].by = "exec"
      BY <3>1, <1>b, <1>d, <2>2
    <3>3. QED
      BY <3>2, <1>d DEF BoundOK
  <2>3. CASE holders' = {}
    BY <2>3 DEF BoundOK
  <2>4. QED
    BY <2>1, <2>2, <2>3
<1>5. NestOK'
  <2>1. inAnswer' \/ \A i, j \in DOMAIN calls' :
                       IsAnswer(calls'[i]) /\ IsAnswer(calls'[j]) => i = j
    <3> SUFFICES ASSUME ~inAnswer', NEW i \in DOMAIN calls', IsAnswer(calls'[i])
                 PROVE  i = Len(calls) + 1
      BY <1>d
    <3>1. i \notin DOMAIN calls
      BY <1>c, <1>d DEF Answering
    <3>2. QED
      BY <1>d, <3>1
  <2>2. inNote' \/ \A i \in DOMAIN calls' : ~IsAnswer(calls'[i]) => i = Len(calls')
    <3> SUFFICES ASSUME ~inNote', NEW i \in DOMAIN calls', ~IsAnswer(calls'[i]) PROVE FALSE
      OBVIOUS
    <3>1. i \in DOMAIN calls
      BY <1>b, <1>d
    <3>2. ~IsAnswer(calls[i]) /\ calls # <<>> /\ ~inNote
      BY <1>a, <1>c, <1>d, <3>1 DEF TypeOK
    <3>3. i = Len(calls)
      BY <3>1, <3>2 DEF RInv, NestOK
    <3>4. Noting
      BY <3>2, <3>3 DEF Noting, Last
    <3>5. QED
      BY <1>a, <1>c, <3>4 DEF TypeOK
  <2>3. QED
    BY <2>1, <2>2 DEF NestOK, IsAnswer
<1>6. ~Noting' /\ (inNote => inNote')
  BY <1>b, <1>c, <1>d DEF Noting, IsAnswer
<1>7. EnabledOK'
  BY <1>e, <1>6 DEF RInv, EnabledOK, Frame, noteVars
<1>8. AnsweredOnce'
  BY <1>a, <1>c, <1>f DEF AnsweredOnce, Frame
<1>9. NeverSilent'
  BY <1>d DEF NeverSilent
<1>10. NotesAllowed'
  BY <1>e, <1>6 DEF RInv, NotesAllowed, Frame, noteVars
<1>11. QED
  BY <1>1, <1>2, <1>3, <1>4, <1>5, <1>7, <1>8, <1>9, <1>10 DEF RInv

\* So does one that begins none, if nobody goes unanswered by it.
LEMMA QuietKeeps ==
  ASSUME RInv, Frame, UNCHANGED answerVars,
         holders' = {} /\ srvsvc' => responseSent \/ ~Accepts
  PROVE  RInv'
<1> USE DEF RInv, Frame, answerVars, dataVars, noteVars
<1>1. TypeOK'
  BY DEF TypeOK
<1>2. CallsOK'
  <2> SUFFICES ASSUME NEW i \in DOMAIN calls PROVE CallOK(i)'
    BY DEF CallsOK
  <2>1. CallOK(i)
    BY DEF CallsOK
  <2>2. /\ calls[i].by \in Party => calls[i].by \in holders'
        /\ calls[i].by = "exec" => stage' \in {"refused", "caught"}
    BY DEF Busy
  <2>3. QED
    BY <2>1, <2>2 DEF CallOK, IsAnswer
<1>3. ProgressOK' /\ BoundOK'
  BY DEF ProgressOK, BoundOK
<1>4. NestOK' /\ EnabledOK' /\ AnsweredOnce' /\ NotesAllowed'
  BY DEF NestOK, EnabledOK, AnsweredOnce, NotesAllowed, IsAnswer, Answering, Noting
<1>5. NeverSilent'
  <2>1. responseSent => taken > 0 \/ errorSent
    BY DEF ProgressOK
  <2>2. hasId \/ variant = "callbacks" => Accepts \/ responseSent
    BY DEF Accepts, TypeOK
  <2>3. QED
    BY <2>1, <2>2 DEF NeverSilent
<1>6. QED
  BY <1>1, <1>2, <1>3, <1>4, <1>5

\* Dropping a reference that is not in use sends at most the error nobody else sent.
LEMMA DropKeeps ==
  ASSUME RInv, NEW p \in holders, Frame, DropRef(p), srvsvc' = srvsvc,
         ~Busy("exec") \/ holders' # {}
  PROVE  RInv'
<1>a. TypeOK /\ calls \in Seq(Call) /\ replies \in Nat /\ MaxReplies \in Nat
  BY DEF RInv, TypeOK
<1>1. CASE holders' = {} /\ MustReport
  <2>1. Send("error", "destructor")
    BY <1>1 DEF DropRef
  <2>2. CASE ~Accepts
    BY <2>1, <2>2, QuietKeeps DEF Send
  <2>3. CASE Accepts
    <3>1. calls = <<>>
      <4> SUFFICES ASSUME calls # <<>> PROVE FALSE
        OBVIOUS
      <4>1. 1 \in DOMAIN calls /\ calls[1] \in Call
        BY <1>a
      <4>2. CallOK(1)
        BY <4>1 DEF RInv, CallsOK
      <4>3. calls[1].by \notin Party
        BY <1>1, <4>1 DEF Frame, Busy
      <4>4. calls[1].by = "exec" => FALSE
        BY <1>1, <4>1 DEF Busy
      <4>5. calls[1].by = "destructor"
        BY <4>1, <4>2, <4>3, <4>4 DEF CallOK, Call
      <4>6. QED
        BY <4>2, <4>5 DEF CallOK
    <3>2. replies <= MaxReplies
      BY <1>1, <3>1 DEF RInv, BoundOK, ProgressOK, MustReport
    <3>3. Entitled("destructor")
      BY <1>1, <3>1, RequestAssumption DEF Entitled, Party
    <3>4. QED
      BY <1>1, <2>1, <2>3, <3>2, <3>3, SentKeeps
  <2>4. QED
    BY <2>2, <2>3
<1>2. CASE ~(holders' = {} /\ MustReport)
  <2>1. UNCHANGED answerVars
    BY <1>2 DEF DropRef
  <2>2. holders' = {} /\ srvsvc' => responseSent
    BY <1>2 DEF MustReport
  <2>3. QED
    BY <2>1, <2>2, QuietKeeps
<1>3. QED
  BY <1>1, <1>2

-----------------------------------------------------------------------------
(* The end of a call *)

\* The last call ends, and exec goes on if it was its own.
Ended ==
  /\ calls # <<>> /\ calls' = Front(calls)
  /\ UNCHANGED <<variant, hasId, flags, srvsvc, shared, replies, errorSent, inAnswer, inNote>>
  /\ \/ Last(calls).by # "exec" /\ UNCHANGED <<stage, holders>>
     \/ Last(calls).by = "exec" /\ ExecEnds
     \/ Last(calls).by = "exec" /\ stage' = "caught" /\ UNCHANGED holders

\* What is left on the stack is as it was.
LEMMA EndedKeeps ==
  ASSUME RInv, Ended
  PROVE  /\ calls' \in Seq(Call) /\ stage' \in Stage /\ holders' \subseteq Party
         /\ CallsOK' /\ NestOK'
         /\ inNote \/ ~Noting'
         /\ Answering' => Answering
         /\ inAnswer \/ ~IsAnswer(Last(calls)) \/ ~Answering'
         /\ stage' \in {"method", "proxy", "refused", "caught"} => "server" \in holders'
         /\ stage' # "created" \/ UNCHANGED stage
<1>a. calls \in Seq(Call) /\ TypeOK /\ CallsOK /\ NestOK /\ ProgressOK
  BY DEF RInv, TypeOK
<1>b. /\ calls' \in Seq(Call)
      /\ Len(calls) \in Nat \ {0} /\ DOMAIN calls = 1 .. Len(calls)
      /\ Len(calls') = Len(calls) - 1 /\ DOMAIN calls' = 1 .. Len(calls) - 1
      /\ \A i \in DOMAIN calls' : i \in DOMAIN calls /\ calls'[i] = calls[i]
      /\ Last(calls) = calls[Len(calls)] /\ Len(calls) \in DOMAIN calls
  BY <1>a, Popped DEF Ended
<1>c. CallOK(Len(calls))
  BY <1>a, <1>b DEF CallsOK
<1>d. Last(calls).by = "exec" => Len(calls) = 1 /\ stage \in {"refused", "caught"}
  BY <1>b, <1>c DEF CallOK
<1>1. stage' \in Stage /\ holders' \subseteq Party
  BY <1>a DEF Ended, ExecEnds, TypeOK, Stage
<1>2. CallsOK'
  <2> SUFFICES ASSUME NEW i \in DOMAIN calls' PROVE CallOK(i)'
    BY DEF CallsOK
  <2>1. CallOK(i) /\ calls'[i] = calls[i]
    BY <1>a, <1>b DEF CallsOK
  <2>2. UNCHANGED <<stage, holders>>
    BY <1>b, <1>d DEF Ended
  <2>3. QED
    BY <2>1, <2>2 DEF CallOK, IsAnswer, Ended
<1>3. NestOK'
  <2>1. inAnswer' \/ \A i, j \in DOMAIN calls' : IsAnswer(calls'[i]) /\ IsAnswer(calls'[j]) => i = j
    BY <1>a, <1>b, Zenon DEF NestOK, Ended
  <2>2. inNote' \/ \A i \in DOMAIN calls' : IsAnswer(calls'[i])
    BY <1>a, <1>b DEF NestOK, Ended
  <2>3. QED
    BY <2>1, <2>2 DEF NestOK, IsAnswer
<1>4. inNote \/ ~Noting'
  <2> SUFFICES ASSUME ~inNote, Noting' PROVE FALSE
    OBVIOUS
  <2>1. Len(calls') \in DOMAIN calls' /\ ~IsAnswer(calls'[Len(calls')])
    BY <1>b DEF Noting, Last, IsAnswer
  <2>2. QED
    BY <1>a, <1>b, <2>1 DEF NestOK
<1>5. Answering' => Answering
  BY <1>b DEF Answering, IsAnswer
<1>6. inAnswer \/ ~IsAnswer(Last(calls)) \/ ~Answering'
  <2> SUFFICES ASSUME ~inAnswer, IsAnswer(Last(calls)), Answering' PROVE FALSE
    OBVIOUS
  <2>1. PICK i \in DOMAIN calls' : IsAnswer(calls'[i])
    BY DEF Answering, IsAnswer
  <2>2. i = Len(calls)
    BY <1>a, <1>b, <2>1 DEF NestOK
  <2>3. QED
    BY <1>b, <2>2
<1>7. stage' \in {"method", "proxy", "refused", "caught"} => "server" \in holders'
  BY <1>a, <1>d DEF Ended, ExecEnds, ProgressOK
<1>8. stage' # "created" \/ UNCHANGED stage
  BY DEF Ended, ExecEnds
<1>9. QED
  BY <1>b, <1>1, <1>2, <1>3, <1>4, <1>5, <1>6, <1>7, <1>8

\* Where the last call of all ends, somebody was behind it.
LEMMA LastEnded ==
  ASSUME RInv, Ended, ~(calls' # <<>> /\ calls'[1] = calls[1])
  PROVE  /\ Last(calls) = calls[1] /\ Last(calls) \in Call
         /\ \/ Last(calls).by \in holders
            \/ /\ Last(calls).by \in {"exec", "destructor"}
               /\ IsAnswer(Last(calls)) /\ (variant = "fn" => errorSent)
<1>1. calls \in Seq(Call)
  BY DEF RInv, TypeOK
<1>2. /\ Len(calls) \in Nat \ {0} /\ DOMAIN calls' = 1 .. Len(calls) - 1
      /\ \A i \in DOMAIN calls' : calls'[i] = calls[i]
      /\ Len(calls) # 1 => calls' # <<>>
      /\ Last(calls) = calls[Len(calls)]
  BY <1>1, Popped DEF Ended
<1>3. Len(calls) = 1
  BY <1>2
<1>4. 1 \in DOMAIN calls /\ calls[1] \in Call
  BY <1>1, <1>3
<1>5. CallOK(1)
  BY <1>4 DEF RInv, CallsOK
<1>6. QED
  BY <1>2, <1>3, <1>4, <1>5 DEF CallOK, Call

\* sendResult, sendError: the function returns.
LEMMA AnswerKeeps == ASSUME RInv, NEW ok \in BOOLEAN, AnswerTaken(ok) PROVE RInv'
<1>a. TypeOK /\ taken \in Nat /\ replies \in Nat
  BY DEF RInv, TypeOK
<1>b. Ended
  BY DEF AnswerTaken, Ended, PostSendResponse
<1>c. /\ calls' \in Seq(Call) /\ stage' \in Stage /\ holders' \subseteq Party
      /\ CallsOK' /\ NestOK' /\ (inNote \/ ~Noting') /\ (inAnswer \/ ~Answering')
      /\ stage' \in {"method", "proxy", "refused", "caught"} => "server" \in holders'
      /\ stage' # "created" \/ UNCHANGED stage
  BY <1>b, EndedKeeps DEF AnswerTaken
<1>d. /\ responseSent' = TRUE /\ notifyEnabled' \in BOOLEAN /\ (notifyEnabled' => "post" \in flags)
      /\ taken' = taken + 1
      /\ UNCHANGED <<variant, hasId, flags, srvsvc, shared, errorSent, replies, inAnswer, inNote, noteVars>>
  BY DEF AnswerTaken, PostSendResponse
<1>1. TypeOK'
  BY <1>a, <1>c, <1>d DEF TypeOK, noteVars
<1>2. ProgressOK'
  BY <1>a, <1>c, <1>d DEF RInv, ProgressOK
<1>3. BoundOK'
  <2>1. CASE replies <= MaxReplies \/ errorSent
    BY <1>d, <2>1 DEF BoundOK
  <2>2. CASE stage = "done" \/ holders = {}
    BY <1>d, <2>2 DEF BoundOK, AnswerTaken, ExecEnds
  <2>3. CASE calls # <<>> /\ calls[1].by = "exec"
    <3>1. CASE calls' # <<>> /\ calls'[1] = calls[1]
      BY <2>3, <3>1 DEF BoundOK
    <3>2. CASE ~(calls' # <<>> /\ calls'[1] = calls[1])
      <4>1. Last(calls).by = "exec"
        BY <1>b, <2>3, <3>2, LastEnded
      <4>2. QED
        BY <1>d, <4>1 DEF BoundOK, AnswerTaken, ExecEnds
    <3>3. QED
      BY <3>1, <3>2
  <2>4. QED
    BY <2>1, <2>2, <2>3 DEF RInv, BoundOK
<1>4. EnabledOK'
  BY <1>a, <1>c, <1>d DEF EnabledOK
<1>5. AnsweredOnce'
  <2>1. Answering
    <3>1. calls \in Seq(Call)
      BY <1>a DEF TypeOK
    <3>2. Len(calls) \in DOMAIN calls /\ Last(calls) = calls[Len(calls)]
      BY <1>b, <3>1, Popped DEF Ended
    <3>3. QED
      BY <3>2 DEF Answering, AnswerTaken
  <2>2. variant = "fn" => (replies > 0 => hasId) /\ (inAnswer \/ taken <= 0)
    BY <2>1 DEF RInv, AnsweredOnce
  <2>3. QED
    BY <1>a, <1>c, <1>d, <2>2 DEF AnsweredOnce
<1>6. NeverSilent'
  BY <1>a, <1>d DEF NeverSilent
<1>7. NotesAllowed'
  BY <1>a, <1>d DEF RInv, NotesAllowed, noteVars
<1>8. QED
  BY <1>1, <1>2, <1>3, <1>4, <1>5, <1>6, <1>7, <1>c DEF RInv

\* sendNotify: the function returns.
LEMMA NoteKeeps == ASSUME RInv, NEW ok \in BOOLEAN, NoteTaken(ok) PROVE RInv'
<1>a. TypeOK /\ taken \in Nat
  BY DEF RInv, TypeOK
<1>b. Noting /\ ~IsAnswer(Last(calls)) /\ calls # <<>>
  BY DEF NoteTaken, Noting
<1>c. Ended
  <2>1. Last(calls).by # "exec"
    <3>1. calls \in Seq(Call)
      BY <1>a DEF TypeOK
    <3>2. Len(calls) \in DOMAIN calls /\ Last(calls) = calls[Len(calls)]
      BY <1>b, <3>1, Popped DEF NoteTaken
    <3>3. CallOK(Len(calls))
      BY <3>2 DEF RInv, CallsOK
    <3>4. QED
      BY <1>b, <3>2, <3>3 DEF CallOK
  <2>2. QED
    BY <1>b, <2>1 DEF NoteTaken, Ended
<1>d. /\ calls' \in Seq(Call) /\ stage' \in Stage /\ holders' \subseteq Party
      /\ CallsOK' /\ NestOK' /\ (inNote \/ ~Noting') /\ (Answering' => Answering)
  BY <1>c, EndedKeeps
<1>e. /\ notifyEnabled' \in BOOLEAN /\ refused' \in BOOLEAN
      /\ variant = "fn" /\ notifyEnabled' => (refused' => refused)
      /\ UNCHANGED <<variant, hasId, flags, srvsvc, stage, holders, shared, responseSent, errorSent,
                     replies, taken, inAnswer, inNote, early, late>>
  BY <1>a DEF NoteTaken, Stop, TypeOK
<1>1. TypeOK'
  BY <1>a, <1>d, <1>e DEF TypeOK
<1>2. ProgressOK'
  BY <1>e DEF RInv, ProgressOK
<1>f. \/ calls' # <<>> /\ calls'[1] = calls[1]
      \/ Last(calls) = calls[1] /\ Last(calls).by \in holders
  BY <1>b, <1>c, LastEnded, Zenon
<1>3. BoundOK'
  <2>1. "exec" \notin holders
    BY <1>a, RequestAssumption DEF TypeOK, Party
  <2>2. QED
    BY <1>e, <1>f, <2>1 DEF RInv, BoundOK
<1>4. EnabledOK'
  <2>1. variant = "fn" /\ ~inNote =>
          IF taken > 0 THEN "post" \in flags ELSE "pre" \in flags /\ ~refused
    BY <1>b DEF RInv, EnabledOK
  <2>2. QED
    BY <1>d, <1>e, <2>1 DEF EnabledOK
<1>5. AnsweredOnce'
  BY <1>a, <1>d, <1>e DEF RInv, AnsweredOnce
<1>6. NeverSilent'
  BY <1>e, <1>f DEF RInv, NeverSilent
<1>7. NotesAllowed'
  <2>1. variant = "fn" /\ ~inNote => (early > 0 => "pre" \in flags) /\ (late > 0 => "post" \in flags)
    BY DEF RInv, NotesAllowed
  <2>2. QED
    BY <1>a, <1>e, <1>4, <2>1 DEF NotesAllowed, EnabledOK
<1>8. QED
  BY <1>1, <1>2, <1>3, <1>4, <1>5, <1>6, <1>7, <1>d DEF RInv

\* The function throws.
LEMMA ThrownKeeps == ASSUME RInv, Thrown PROVE RInv'
<1>a. TypeOK /\ taken \in Nat /\ variant = "fn"
  BY DEF RInv, TypeOK, Thrown
<1>b. Ended
  BY DEF Thrown, Ended, dataVars, ExecEnds
<1>c. /\ calls' \in Seq(Call) /\ stage' \in Stage /\ holders' \subseteq Party
      /\ CallsOK' /\ NestOK' /\ (inNote \/ ~Noting') /\ (Answering' => Answering)
      /\ stage' \in {"method", "proxy", "refused", "caught"} => "server" \in holders'
      /\ stage' # "created" \/ UNCHANGED stage
  BY <1>b, EndedKeeps
<1>d. /\ UNCHANGED <<dataVars, variant, hasId, flags, srvsvc, shared, replies, taken, inAnswer, inNote>>
      /\ UNCHANGED noteVars
  BY DEF Thrown
<1>e. \/ calls' # <<>> /\ calls'[1] = calls[1]
      \/ Last(calls) = calls[1] /\ Last(calls).by \in holders
      \/ Last(calls) = calls[1] /\ errorSent
  BY <1>a, <1>b, LastEnded
<1>f. "exec" \notin holders
  BY <1>a, RequestAssumption DEF TypeOK, Party
<1>1. TypeOK'
  BY <1>a, <1>c, <1>d DEF TypeOK, noteVars, dataVars
<1>2. ProgressOK'
  BY <1>c, <1>d DEF RInv, ProgressOK, dataVars
<1>3. BoundOK'
  <2>1. stage = "done" => stage' = "done"
    BY DEF Thrown, ExecEnds
  <2>2. holders = {} => holders' = {}
    BY DEF Thrown, ExecEnds
  <2>3. QED
    BY <1>d, <1>e, <1>f, <2>1, <2>2 DEF RInv, BoundOK, dataVars
<1>4. EnabledOK'
  BY <1>c, <1>d DEF RInv, EnabledOK, dataVars, noteVars
<1>5. AnsweredOnce'
  BY <1>a, <1>c, <1>d DEF RInv, AnsweredOnce
<1>6. NeverSilent'
  <2>1. Last(calls).by \in holders => UNCHANGED holders
    BY <1>f DEF Thrown
  <2>2. CASE UNCHANGED holders
    BY <1>d, <1>e, <2>2 DEF RInv, NeverSilent, dataVars
  <2>3. CASE Last(calls).by \notin holders /\ calls' = <<>>
    BY <1>d, <1>e, <2>3 DEF NeverSilent, dataVars
  <2>4. QED
    BY <2>1, <2>2, <2>3 DEF NeverSilent
<1>7. NotesAllowed'
  BY <1>d DEF RInv, NotesAllowed, dataVars, noteVars
<1>8. QED
  BY <1>1, <1>2, <1>3, <1>4, <1>5, <1>6, <1>7, <1>c DEF RInv

-----------------------------------------------------------------------------
(* The inductive invariant *)

\* A request nobody has touched satisfies the invariant.
LEMMA InitRInv == Init => RInv
<1> SUFFICES ASSUME Init PROVE RInv
  OBVIOUS
<1>1. flags \subseteq {"pre", "post"} /\ (notifyEnabled <=> "pre" \in flags)
  BY DEF Init
<1>2. calls = <<>> /\ DOMAIN calls = {} /\ ~Noting /\ ~Answering
  BY DEF Init, Noting, Answering
<1>3. TypeOK
  <2>1. notifyEnabled \in BOOLEAN /\ responseSent \in BOOLEAN /\ errorSent \in BOOLEAN
        /\ hasId \in BOOLEAN /\ srvsvc \in BOOLEAN /\ refused \in BOOLEAN
        /\ inAnswer \in BOOLEAN /\ inNote \in BOOLEAN
    BY Zenon DEF Init
  <2>2. replies \in 0 .. (MaxReplies + 1) /\ taken \in Nat /\ early \in Nat /\ late \in Nat
    BY RequestAssumption DEF Init
  <2>3. variant \in {"fn", "callbacks"} /\ stage \in Stage /\ holders \subseteq Party
        /\ shared \subseteq Worker
    BY DEF Init, Party, Stage
  <2>4. calls \in Seq(Call)
    BY <1>2
  <2>5. QED
    BY <1>1, <2>1, <2>2, <2>3, <2>4, Zenon DEF TypeOK
<1>4. CallsOK /\ NestOK
  BY <1>2 DEF CallsOK, NestOK
<1>5. ProgressOK /\ BoundOK
  BY DEF Init, ProgressOK, BoundOK
<1>6. AnsweredOnce /\ NeverSilent
  BY DEF Init, AnsweredOnce, NeverSilent
<1>7. EnabledOK /\ NotesAllowed
  BY <1>1, <1>2 DEF Init, EnabledOK, NotesAllowed
<1>8. QED
  BY <1>3, <1>4, <1>5, <1>6, <1>7 DEF RInv

\* Who waits for the function is still there.
LEMMA BusyStays ==
  ASSUME RInv
  PROVE  /\ \A p \in Party : Busy(p) => p \in holders
         /\ Busy("exec") => stage \in {"refused", "caught"}
         /\ \A p : Busy(p) => calls # <<>>
<1>1. \A i \in DOMAIN calls : CallOK(i)
  BY DEF RInv, CallsOK
<1>2. QED
  BY <1>1 DEF Busy, CallOK

\* A step that only moves the request about.
LEMMA MovedKeeps ==
  ASSUME RInv, UNCHANGED <<variant, hasId, flags, answerVars, taken, noteVars>>,
         srvsvc' \in BOOLEAN, stage' \in Stage, stage' # "created" \/ UNCHANGED <<stage, srvsvc>>,
         holders \subseteq holders', holders # {}, holders' \subseteq Party, shared' \subseteq Worker,
         stage' \in {"method", "proxy", "refused", "caught"} => "server" \in holders',
         stage = "done" => stage' = "done",
         calls = <<>> \/ UNCHANGED stage
  PROVE  RInv'
<1>1. \A p \in Party : Busy(p) => p \in holders'
  BY BusyStays
<1>2. Busy("exec") => stage' \in {"refused", "caught"}
  BY BusyStays
<1>3. stage' = "created" => ~srvsvc'
  BY DEF RInv, ProgressOK
<1>4. Frame
  BY <1>1, <1>2, <1>3 DEF Frame
<1>5. holders' # {}
  OBVIOUS
<1>6. QED
  BY <1>4, <1>5, QuietKeeps

\* exec answers.
LEMMA FailKeeps == ASSUME RInv, Fail PROVE RInv'
<1>a. TypeOK /\ replies \in Nat /\ MaxReplies \in Nat
  BY DEF RInv, TypeOK
<1>b. stage \in {"refused", "caught"} /\ calls = <<>> /\ "server" \in holders
  BY DEF Fail, RInv, ProgressOK
<1>c. \A p : ~Busy(p)
  BY <1>b, BusyStays
<1>1. Frame
  <2>1. stage' \in Stage /\ holders' \subseteq Party /\ stage' # "created"
        /\ (stage' # "done" => UNCHANGED holders)
    BY <1>a, <1>b DEF Fail, ExecEnds, TypeOK, Stage
  <2>2. UNCHANGED <<variant, hasId, flags, taken, noteVars, srvsvc, shared>>
    BY DEF Fail
  <2>3. ~Busy("exec") /\ \A p \in Party : ~Busy(p)
    BY <1>c
  <2>4. stage' \in {"method", "proxy", "refused", "caught"} => "server" \in holders'
    BY <1>b, <2>1
  <2>5. stage # "done" /\ holders # {}
    BY <1>b
  <2>6. QED
    BY <1>a, <2>1, <2>2, <2>3, <2>4, <2>5 DEF Frame, TypeOK
<1>2. CASE ~Accepts
  BY <1>1, <1>2, QuietKeeps DEF Fail, Send
<1>3. CASE Accepts
  <2>1. Entitled("exec")
    BY <1>b, <1>3, RequestAssumption DEF Entitled, Fail, Party
  <2>2. replies <= MaxReplies
    BY <1>b, <1>3 DEF RInv, BoundOK, ProgressOK, Accepts
  <2>3. QED
    BY <1>1, <1>3, <2>1, <2>2, SentKeeps DEF Fail
<1>4. QED
  BY <1>2, <1>3

\* A party or the function answers.
LEMMA AnswerBegins ==
  ASSUME RInv, NEW p \in Party \cup {"function"}, NEW kind \in {"result", "error"},
         Answer(p, kind)
  PROVE  RInv'
<1>1. Frame
  BY BusyStays DEF Answer, Frame, RInv, TypeOK, ProgressOK
<1>2. CASE ~Accepts
  BY <1>1, <1>2, QuietKeeps DEF Answer, Send
<1>3. CASE Accepts
  <2>1. Entitled(p)
    <3>1. holders \subseteq Party /\ "function" \notin Party /\ UNCHANGED holders /\ Active(p)
      BY RequestAssumption DEF RInv, TypeOK, Party, Answer
    <3>2. p \notin {"exec", "destructor"}
      BY RequestAssumption DEF Party
    <3>3. QED
      BY <3>1, <3>2 DEF Entitled, Active
  <2>2. p \notin {"exec", "destructor"}
    BY RequestAssumption DEF Party
  <2>3. QED
    BY <1>1, <1>3, <2>1, <2>2, SentKeeps DEF Answer
<1>4. QED
  BY <1>2, <1>3

\* A party or the function notifies.
LEMMA NoteBegins ==
  ASSUME RInv, NEW p \in Party \cup {"function"}, Notify(p)
  PROVE  RInv'
<1> DEFINE call == [kind |-> "note", by |-> p]
<1>a. calls \in Seq(Call) /\ TypeOK /\ taken \in Nat
  BY DEF RInv, TypeOK
<1>b. call \in Call /\ ~IsAnswer(call) /\ call.by = p
  BY DEF Call, Kind, IsAnswer
<1>c. /\ calls' = Append(calls, call) /\ replies' = replies
      /\ inAnswer' = inAnswer /\ inNote' = (inNote \/ Noting)
  BY <1>a DEF Notify, Begin, Counted, TypeOK
<1>d. /\ calls' \in Seq(Call) /\ calls' # <<>>
      /\ Len(calls) \in Nat /\ DOMAIN calls = 1 .. Len(calls)
      /\ Len(calls') = Len(calls) + 1 /\ DOMAIN calls' = 1 .. Len(calls) + 1
      /\ \A i \in DOMAIN calls : calls'[i] = calls[i]
      /\ calls'[Len(calls) + 1] = call /\ Last(calls') = call
  BY <1>a, <1>b, <1>c, Pushed
<1> HIDE DEF call
<1>e. /\ UNCHANGED <<variant, hasId, flags, srvsvc, stage, holders, shared>>
      /\ UNCHANGED <<dataVars, taken, refused>>
  BY DEF Notify
<1>1. TypeOK'
  <2>1. early' \in Nat /\ late' \in Nat
    BY <1>a DEF Notify, TypeOK
  <2>2. inAnswer' \in BOOLEAN /\ inNote' \in BOOLEAN
    BY <1>a, <1>c DEF TypeOK
  <2>3. QED
    BY <1>a, <1>c, <1>d, <1>e, <2>1, <2>2 DEF TypeOK, dataVars
<1>2. CallsOK'
  <2> SUFFICES ASSUME NEW i \in DOMAIN calls' PROVE CallOK(i)'
    BY DEF CallsOK
  <2>1. CASE i \in DOMAIN calls
    <3>1. CallOK(i) /\ calls'[i] = calls[i]
      BY <1>d, <2>1 DEF RInv, CallsOK
    <3>2. QED
      BY <3>1, <1>e DEF CallOK, IsAnswer, dataVars
  <2>2. CASE i = Len(calls) + 1
    <3>1. calls'[i] = call
      BY <1>d, <2>2
    <3>2. p = "function" <=> i > 1
      BY <1>a, <1>d, <2>2, RequestAssumption DEF Notify, Active, TypeOK, Party
    <3>3. p \in Party => p \in holders'
      BY <1>e, RequestAssumption DEF Notify, Active, Party
    <3>4. p \notin {"exec", "destructor"}
      BY RequestAssumption DEF Party
    <3>5. QED
      BY <3>1, <3>2, <3>3, <3>4, <1>b DEF CallOK
  <2>3. QED
    BY <1>d, <2>1, <2>2
<1>3. ProgressOK'
  BY <1>e DEF RInv, ProgressOK, dataVars
<1>4. BoundOK'
  <2>1. calls # <<>> => calls'[1] = calls[1]
    BY <1>a, <1>d
  <2>2. QED
    BY <1>c, <1>d, <1>e, <2>1 DEF RInv, BoundOK, dataVars
<1>5. NestOK'
  <2>1. inAnswer' \/ \A i, j \in DOMAIN calls' :
                       IsAnswer(calls'[i]) /\ IsAnswer(calls'[j]) => i = j
    <3> SUFFICES ASSUME ~inAnswer, NEW i \in DOMAIN calls', NEW j \in DOMAIN calls',
                        IsAnswer(calls'[i]), IsAnswer(calls'[j])
                 PROVE  i = j
      BY <1>c
    <3>1. i \in DOMAIN calls /\ j \in DOMAIN calls
      BY <1>b, <1>d
    <3>2. IsAnswer(calls[i]) /\ IsAnswer(calls[j])
      BY <1>d, <3>1
    <3>3. QED
      BY <3>1, <3>2 DEF RInv, NestOK
  <2>2. inNote' \/ \A i \in DOMAIN calls' : ~IsAnswer(calls'[i]) => i = Len(calls')
    <3> SUFFICES ASSUME ~inNote', NEW i \in DOMAIN calls, ~IsAnswer(calls[i]) PROVE FALSE
      BY <1>d
    <3>1. ~inNote /\ ~Noting
      BY <1>a, <1>c DEF TypeOK
    <3>2. i = Len(calls) /\ calls # <<>>
      BY <1>a, <3>1 DEF RInv, NestOK
    <3>3. QED
      BY <3>1, <3>2 DEF Noting, Last
  <2>3. QED
    BY <2>1, <2>2 DEF NestOK, IsAnswer
<1>6. variant = "fn" => notifyEnabled
  BY DEF Notify
<1>7. EnabledOK'
  BY <1>a, <1>c, <1>e, <1>6 DEF RInv, EnabledOK, dataVars, TypeOK
<1>8. AnsweredOnce'
  <2>1. Answering' => Answering
    <3> SUFFICES ASSUME NEW i \in DOMAIN calls', IsAnswer(calls'[i]) PROVE Answering
      BY DEF Answering, IsAnswer
    <3>1. i \in DOMAIN calls
      BY <1>b, <1>d
    <3>2. QED
      BY <1>d, <3>1 DEF Answering
  <2>2. QED
    BY <1>a, <1>c, <1>e, <2>1 DEF RInv, AnsweredOnce
<1>9. NeverSilent'
  BY <1>d DEF NeverSilent
<1>10. NotesAllowed'
  <2> SUFFICES ASSUME variant = "fn", ~inNote' PROVE NotesAllowed'
    BY <1>e DEF NotesAllowed
  <2>1. ~inNote /\ notifyEnabled
    BY <1>a, <1>c, <1>6 DEF TypeOK
  <2>2. IF taken > 0 THEN "post" \in flags ELSE "pre" \in flags /\ ~refused
    BY <2>1 DEF RInv, EnabledOK
  <2>3. IF taken = 0 THEN late' = late ELSE early' = early
    BY DEF Notify
  <2>4. (early > 0 => "pre" \in flags) /\ (late > 0 => "post" \in flags)
    BY <2>1 DEF RInv, NotesAllowed
  <2>5. QED
    BY <1>a, <1>e, <2>2, <2>3, <2>4 DEF NotesAllowed
<1>11. QED
  BY <1>1, <1>2, <1>3, <1>4, <1>5, <1>7, <1>8, <1>9, <1>10 DEF RInv

\* Every step keeps the invariant.
LEMMA StepRInv == RInv /\ [Next]_vars => RInv'
<1> SUFFICES ASSUME RInv, [Next]_vars PROVE RInv'
  OBVIOUS
<1>t. TypeOK /\ ProgressOK
  BY DEF RInv
<1>1. ASSUME NEW next \in {"method", "proxy", "refused"}, Exec(next) PROVE RInv'
  <2>1. calls = <<>> /\ "creator" \in holders /\ holders \subseteq Party
    BY <1>1, <1>t, RequestAssumption DEF Exec, Active, TypeOK
  <2>2. holders # {}
    BY <2>1
  <2>3. QED
    BY <1>1, <1>t, <2>1, <2>2, MovedKeeps DEF Exec, TypeOK, Party, Stage
<1>2. ASSUME NEW next \in {"refused", "caught"}, Leave(next) PROVE RInv'
  BY <1>2, <1>t, MovedKeeps DEF Leave, TypeOK, ProgressOK, Stage
<1>3. CASE Return
  <2>1. "server" \in holders /\ DropRef("server") /\ ~Busy("server") /\ ~Busy("exec")
    BY <1>3, <1>t DEF Return, ProgressOK
  <2>2. holders' = holders \ {"server"}
    BY <2>1 DEF DropRef
  <2>3. Frame
    BY <1>3, <1>t, <2>1, <2>2, BusyStays DEF Return, Frame, TypeOK, Stage
  <2>4. QED
    BY <1>3, <2>1, <2>3, DropKeeps DEF Return
<1>4. CASE Fail
  BY <1>4, FailKeeps
<1>5. CASE CallEnds
  BY <1>5, AnswerKeeps, NoteKeeps, ThrownKeeps DEF CallEnds
<1>6. ASSUME NEW p \in Party \cup {"function"}, NEW kind \in {"result", "error"}, Answer(p, kind)
      PROVE  RInv'
  BY <1>6, AnswerBegins
<1>7. ASSUME NEW p \in Party \cup {"function"}, Notify(p) PROVE RInv'
  BY <1>7, NoteBegins
<1>8. ASSUME NEW p \in Party, NEW w \in Worker, Share(p, w) PROVE RInv'
  BY <1>8, <1>t, MovedKeeps DEF Share, TypeOK, ProgressOK, Party
<1>9. ASSUME NEW p \in Worker \cup {"creator"}, Drop(p) PROVE RInv'
  <2>1. p \in holders \ {"server"} /\ DropRef(p) /\ ~Busy(p)
    BY <1>9 DEF Drop
  <2>2. holders' = holders \ {p}
    BY <2>1 DEF DropRef
  <2>3. Frame
    BY <1>9, <1>t, <2>1, <2>2, BusyStays DEF Drop, Frame, TypeOK, ProgressOK
  <2>4. ~Busy("exec") \/ holders' # {}
    BY <1>t, <2>1, <2>2, BusyStays DEF ProgressOK
  <2>5. QED
    BY <1>9, <2>1, <2>3, <2>4, DropKeeps DEF Drop
<1>10. CASE UNCHANGED vars
  <2>1. Frame /\ UNCHANGED answerVars
    BY <1>10, <1>t, BusyStays DEF vars, Frame, TypeOK, ProgressOK
  <2>2. QED
    BY <1>10, <2>1 DEF vars, answerVars, dataVars, noteVars, RInv, TypeOK, CallsOK, CallOK,
      ProgressOK, BoundOK, NestOK, EnabledOK, AnsweredOnce, NeverSilent, NotesAllowed,
      Answering, Noting, IsAnswer
<1>11. QED
  BY <1>1, <1>2, <1>3, <1>4, <1>5, <1>6, <1>7, <1>8, <1>9, <1>10 DEF Next, Finish

\* The invariant holds in every reachable state.
THEOREM RequestInductive == Spec => []RInv
  BY InitRInv, StepRInv, PTL DEF Spec

-----------------------------------------------------------------------------
(* The properties *)

\* Every variable keeps its type; the number of answers is bounded.
THEOREM RequestTypes == Spec => []TypeOK
<1>1. RInv => TypeOK
  BY DEF RInv
<1>2. QED
  BY <1>1, RequestInductive, PTL

\* A function that does not answer while it is being given an answer takes one answer
\* at most, whatever it throws and whoever else answers; a notification gets none.
THEOREM AtMostOneAnswer == Spec => []AnsweredOnce
<1>1. RInv => AnsweredOnce
  BY DEF RInv
<1>2. QED
  BY <1>1, RequestInductive, PTL

\* Once a function has taken an answer, or was called with an error, it is not called
\* with an answer again.
THEOREM NoAnswerAfterAnswer == Spec => AnswerIsLast
<1>1. RInv /\ [Next]_vars =>
        [variant = "fn" /\ (taken > 0 \/ errorSent) => replies' = replies]_vars
  <2> SUFFICES ASSUME RInv, Next, variant = "fn", taken > 0 \/ errorSent
               PROVE  replies' = replies
    OBVIOUS
  <2>1. ~Accepts
    BY DEF RInv, ProgressOK, Accepts
  <2>2. \A kind, by : Send(kind, by) => replies' = replies
    BY <2>1 DEF Send, answerVars
  <2>3. \A p : DropRef(p) => replies' = replies
    BY <2>2 DEF DropRef, answerVars
  <2>4. Finish => replies' = replies
    BY <2>2, <2>3 DEF Finish, Return, Fail
  <2>5. CallEnds => replies' = replies
    BY DEF CallEnds, Thrown, AnswerTaken, NoteTaken
  <2>6. \A p : (Notify(p) => replies' = replies) /\ (Drop(p) => replies' = replies)
    BY <2>3 DEF Notify, Begin, Counted, Drop
  <2>7. \A p, x : /\ Answer(p, x) => replies' = replies
                  /\ Share(p, x) => replies' = replies
    BY <2>2 DEF Answer, Share, answerVars
  <2>8. \A next : (Exec(next) => replies' = replies) /\ (Leave(next) => replies' = replies)
    BY DEF Exec, Leave, answerVars
  <2>9. QED
    BY <2>4, <2>5, <2>6, <2>7, <2>8 DEF Next
<1>2. QED
  BY <1>1, RequestInductive, PTL DEF Spec, AnswerIsLast

\* When the last copy of a request the server has seen is gone, it was answered.
THEOREM NoSilentRequest == Spec => []NeverSilent
<1>1. RInv => NeverSilent
  BY DEF RInv
<1>2. QED
  BY <1>1, RequestInductive, PTL

\* Notifications are delivered only when the flags of the request allow them.
THEOREM NotesWhereAllowed == Spec => []NotesAllowed
<1>1. RInv => NotesAllowed
  BY DEF RInv
<1>2. QED
  BY <1>1, RequestInductive, PTL
=============================================================================
