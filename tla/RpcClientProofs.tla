--------------------------- MODULE RpcClientProofs ---------------------------
(***************************************************************************)
(* Theorems about RpcClient, for any set of threads and calls, any width   *)
(* of the id counter and any number of ids drawn.                          *)
(*                                                                         *)
(* All of them follow from one inductive invariant, IInv.  Where an object *)
(* is (PlacesOK) cannot be proved without knowing what threads are doing   *)
(* (ThreadsOK) and vice versa, so every lemma about one step assumes the   *)
(* whole of IInv and concludes one conjunct of it; each has one step per   *)
(* action.                                                                 *)
(***************************************************************************)
EXTENDS RpcClient, TLAPS

USE ClientAssumption DEF Id

-----------------------------------------------------------------------------
(* Lemmas about the operators *)

\* A request id fits the counter, whatever number it was drawn from.
LEMMA IdOfType == ASSUME NEW n \in 0 .. MaxId PROVE IdOf(n) \in Id
  BY DEF IdOf

\* Two numbers with one id are equal or at least a full turn of the counter apart.
LEMMA SameId ==
  ASSUME NEW n \in Nat, NEW k \in Nat, IdOf(n) = IdOf(k), n < k
  PROVE  k - n >= IdSpace
<1>1. /\ n = IdSpace * (n \div IdSpace) + IdOf(n)
      /\ k = IdSpace * (k \div IdSpace) + IdOf(k)
  BY DEF IdOf
<1>2. n \div IdSpace \in Int /\ k \div IdSpace \in Int
  OBVIOUS
<1> DEFINE q == (k \div IdSpace) - (n \div IdSpace)
<1>3. IdOf(n) \in Int
  BY DEF IdOf
<1>4. q \in Int /\ k - n = IdSpace * q
  <2>1. \A a, b, r \in Int : (IdSpace * a + r) - (IdSpace * b + r) = IdSpace * (a - b)
    OBVIOUS
  <2>2. QED
    BY <1>1, <1>2, <1>3, <2>1
<1>5. q >= 1
  <2> HIDE DEF q
  <2>1. q \leq 0 => IdSpace * q \leq 0
    BY <1>4
  <2>2. QED
    BY <1>4, <2>1
<1>6. IdSpace * q >= IdSpace
  <2> HIDE DEF q
  <2>1. IdSpace * q = IdSpace * (q - 1) + IdSpace
    BY <1>4
  <2>2. IdSpace * (q - 1) >= 0
    BY <1>4, <1>5
  <2>3. QED
    BY <2>1, <2>2, <1>4
<1>7. QED
  BY <1>4, <1>6

\* The answers the client itself makes up are answers.
LEMMA AnswerTypes ==
  /\ Empty \in Answer /\ Cancelled \in Answer
  /\ \A n \in 0 .. MaxId : Response(n) \in Answer
  BY DEF Empty, Cancelled, Response, Answer

\* A thread that carries nothing is well typed.
LEMMA NoTaskType == NoTask \in Task
  BY AnswerTypes DEF NoTask, Task

\* Taking an object out of the map keeps the map and the tasks well typed.
LEMMA TakeType ==
  ASSUME TypeOK, NEW t \in Thread, NEW i \in Id, NEW a \in Answer, Take(t, i, a)
  PROVE  callMap' \in [Id -> Call \cup {NoCall}] /\ task' \in [Thread -> Task]
  BY DEF Take, Erase, Task, TypeOK

\* Registering an object and entering sendRequest keeps every type.
LEMMA EnterType ==
  ASSUME TypeOK, NEW t \in Thread, NEW c \in Call, NEW i \in Id, Enter(t, c, i),
         serial' \in [Call -> 0 .. MaxId], phase' \in [Call -> Phase]
  PROVE  TypeOK'
<1>1. callMap' \in [Id -> Call \cup {NoCall}] /\ fired' \in [Call -> Nat]
  BY DEF Enter, Emplace, TypeOK
<1>2. QED
  BY <1>1 DEF Enter, TypeOK

-----------------------------------------------------------------------------
(* The inductive invariant *)

\* The empty client satisfies the invariant.
LEMMA InitIInv == Init => IInv
<1> SUFFICES ASSUME Init PROVE IInv
  OBVIOUS
<1> USE DEF Init
<1>1. TypeOK
  <2>1. idCounter \in 0 .. MaxId /\ serial \in [Call -> 0 .. MaxId] /\ fired \in [Call -> Nat]
    OBVIOUS
  <2>2. phase \in [Call -> Phase] /\ callMap \in [Id -> Call \cup {NoCall}]
    BY DEF Phase
  <2>3. /\ pc \in [Thread -> {"idle", "sending", "blocked", "woken"}]
        /\ cur \in [Thread -> Call \cup {NoCall}]
    OBVIOUS
  <2>4. task \in [Thread -> Task] /\ stored \in [Call -> Answer]
    BY AnswerTypes, NoTaskType
  <2>5. todo \in [Thread -> SUBSET Id] /\ out \in [Thread -> SUBSET Call]
    OBVIOUS
  <2>6. lock \in Thread \cup {NoThread} /\ sent \subseteq Call /\ context \subseteq 0 .. MaxId
    OBVIOUS
  <2>7. wild \in BOOLEAN
    OBVIOUS
  <2>8. QED
    BY <2>1, <2>2, <2>3, <2>4, <2>5, <2>6, <2>7, Zenon DEF TypeOK
<1>2. ThreadsOK
  BY DEF ThreadsOK, NoTask
<1>3. PlacesOK
  BY DEF PlacesOK, CarriedBy, NoTask
<1>4. NoneLost
  BY DEF NoneLost, Registered
<1>5. AnswersOK
  BY DEF AnswersOK, NoTask, Empty
<1>6. NoUseAfterReturn
  BY DEF NoUseAfterReturn
<1>7. QED
  BY <1>1, <1>2, <1>3, <1>4, <1>5, <1>6 DEF IInv

\* Type correctness: it needs ThreadsOK, for a thread that is sending has a call
\* and a thread that carries an answer has an object to carry it to.
LEMMA TypeStep == IInv /\ [Next]_vars => TypeOK'
<1> SUFFICES ASSUME IInv, [Next]_vars PROVE TypeOK'
  OBVIOUS
<1> USE DEF IInv, TypeOK, ThreadsOK, Phase
<1>1. ASSUME NEW t \in Thread, NEW c \in Call, NEW k \in {1, 2}, Prepare(t, c, k)
      PROVE TypeOK'
  BY <1>1 DEF Prepare, NextSerial, threadVars
<1>2. ASSUME NEW t \in Thread, NEW c \in Call, StartAsync(t, c) PROVE TypeOK'
  <2>1. IdOf(serial[c]) \in Id
    BY IdOfType
  <2>2. serial' \in [Call -> 0 .. MaxId] /\ phase' \in [Call -> Phase]
    BY <1>2 DEF StartAsync
  <2>3. QED
    BY <1>2, <2>1, <2>2, EnterType DEF StartAsync
<1>3. ASSUME NEW t \in Thread, NEW c \in Call, StartSync(t, c) PROVE TypeOK'
  <2>1. IdOf(serial[c]) \in Id
    BY IdOfType
  <2>2. serial' \in [Call -> 0 .. MaxId] /\ phase' \in [Call -> Phase]
    BY <1>3 DEF StartSync
  <2>3. QED
    BY <1>3, <2>1, <2>2, EnterType DEF StartSync
<1>4. ASSUME NEW t \in Thread, NEW c \in Call, NEW d \in Call,
            NEW form \in {"async", "sync"}, Retry(t, c, d, form) PROVE TypeOK'
  <2>1. IdOf(serial[c]) \in Id
    BY IdOfType
  <2>2. serial' \in [Call -> 0 .. MaxId] /\ phase' \in [Call -> Phase]
    BY <1>4 DEF Retry
  <2>3. QED
    BY <1>4, <2>1, <2>2, EnterType DEF Retry
<1>5. ASSUME NEW t \in Thread, Transmit(t) PROVE TypeOK'
  <2>1. cur[t] \in Call
    BY <1>5 DEF Transmit
  <2>2. QED
    BY <1>5, <2>1 DEF Transmit, callVars, threadVars
<1>6. ASSUME NEW t \in Thread, AsyncSent(t) PROVE TypeOK'
  BY <1>6 DEF AsyncSent, callVars
<1>7. ASSUME NEW t \in Thread, SyncSent(t) PROVE TypeOK'
  <2>1. cur[t] \in Call /\ "returned" \in Phase
    BY <1>7 DEF SyncSent
  <2>2. phase' = [phase EXCEPT ![cur[t]] = "returned"] \/ phase' = phase
    BY <1>7 DEF SyncSent, Await
  <2>3. phase' \in [Call -> Phase]
    BY <2>1, <2>2
  <2>4. cur' \in [Thread -> Call \cup {NoCall}]
    BY <1>7 DEF SyncSent, Await
  <2>5. pc' \in [Thread -> {"idle", "sending", "blocked", "woken"}]
    <3>1. pc' = [pc EXCEPT ![t] = "idle"] \/ pc' = [pc EXCEPT ![t] = "blocked"]
      BY <1>7 DEF SyncSent, Await
    <3>2. QED
      BY <3>1
  <2>6. lock' \in Thread \cup {NoThread}
    BY <1>7 DEF SyncSent
  <2>7. UNCHANGED <<idCounter, serial, stored, fired, callMap, todo, out, task, sent, context, wild>>
    BY <1>7 DEF SyncSent, Await
  <2>8. QED
    BY <2>3, <2>4, <2>5, <2>6, <2>7
<1>8. ASSUME NEW t \in Thread, SendThrows(t) PROVE TypeOK'
  <2>1. cur[t] \in Call /\ phase'[cur[t]] \in Phase
    BY <1>8 DEF SendThrows
  <2>2. phase' \in [Call -> Phase]
    BY <1>8, <2>1 DEF SendThrows
  <2>3. QED
    BY <1>8, <2>2 DEF SendThrows
<1>9. ASSUME NEW t \in Thread, Wake(t) PROVE TypeOK'
  <2>1. cur[t] \in Call /\ "returned" \in Phase
    BY <1>9 DEF Wake
  <2>2. phase' = [phase EXCEPT ![cur[t]] = "returned"] \/ phase' = phase
    BY <1>9 DEF Wake, Await
  <2>3. phase' \in [Call -> Phase]
    BY <2>1, <2>2
  <2>4. cur' \in [Thread -> Call \cup {NoCall}]
    BY <1>9 DEF Wake, Await
  <2>5. pc' \in [Thread -> {"idle", "sending", "blocked", "woken"}]
    <3>1. pc' = [pc EXCEPT ![t] = "idle"] \/ pc' = [pc EXCEPT ![t] = "blocked"]
      BY <1>9 DEF Wake, Await
    <3>2. QED
      BY <3>1
  <2>6. lock' \in Thread \cup {NoThread}
    BY <1>9 DEF Wake
  <2>7. UNCHANGED <<idCounter, serial, stored, fired, callMap, todo, out, task, sent, context, wild>>
    BY <1>9 DEF Wake, Await
  <2>8. QED
    BY <2>3, <2>4, <2>5, <2>6, <2>7
<1>10. ASSUME NEW t \in Thread, SpuriousWake(t) PROVE TypeOK'
  BY <1>10 DEF SpuriousWake, callVars
<1>11. ASSUME NEW t \in Thread, NEW c \in Call, Receive(t, c) PROVE TypeOK'
  <2>1. IdOf(serial[c]) \in Id /\ Response(serial[c]) \in Answer
    BY IdOfType, AnswerTypes
  <2>2. task' \in [Thread -> Task]
    <3>1. [step |-> "find", id |-> IdOf(serial[c]), call |-> NoCall,
           res |-> Response(serial[c])] \in Task
      BY <2>1 DEF Task
    <3>2. QED
      BY <1>11, <3>1 DEF Receive
  <2>3. context' \subseteq 0 .. MaxId
    <3>1. context' = context \cup {serial[c]} /\ serial[c] \in 0 .. MaxId
      BY <1>11 DEF Receive, MergeContext
    <3>2. QED
      BY <3>1, Zenon
  <2>4. UNCHANGED <<idCounter, serial, phase, stored, fired, callMap, lock, pc, cur, todo, out, sent, wild>>
    BY <1>11 DEF Receive, callVars, threadVars
  <2>5. QED
    BY <2>2, <2>3, <2>4
<1>12. ASSUME NEW t \in Thread, Find(t) PROVE TypeOK'
  <2>1. task[t].id \in Id /\ task[t].res \in Answer
    BY DEF Task
  <2>2. callMap' \in [Id -> Call \cup {NoCall}] /\ task' \in [Thread -> Task]
    BY <1>12, <2>1, TakeType DEF Find
  <2>3. QED
    BY <1>12, <2>2 DEF Find, callVars, threadVars
<1>13. ASSUME NEW t \in Thread, Unexpected(t) PROVE TypeOK'
  BY <1>13, NoTaskType DEF Unexpected, callVars, threadVars
<1>14. ASSUME NEW t \in Thread, NEW i \in Id, Cancel(t, i) PROVE TypeOK'
  <2>1. callMap' \in [Id -> Call \cup {NoCall}] /\ task' \in [Thread -> Task]
    BY <1>14, TakeType, AnswerTypes DEF Cancel
  <2>2. QED
    BY <1>14, <2>1 DEF Cancel, callVars, threadVars
<1>15. ASSUME NEW t \in Thread, CancelAll(t) PROVE TypeOK'
  BY <1>15 DEF CancelAll, Keys, callVars
<1>16. ASSUME NEW t \in Thread, NEW i \in Id, CancelNext(t, i) PROVE TypeOK'
  <2>1. callMap' \in [Id -> Call \cup {NoCall}] /\ task' \in [Thread -> Task]
    BY <1>16, TakeType, AnswerTypes DEF CancelNext
  <2>2. QED
    BY <1>16, <2>1 DEF CancelNext, Remaining, callVars
<1>17. ASSUME NEW t \in Thread, NEW ids \in SUBSET Id, Filter(t, ids) PROVE TypeOK'
  <2>1. {callMap[i] : i \in Keys(callMap) \ ids} \subseteq Call
    BY DEF Keys
  <2>2. callMap' \in [Id -> Call \cup {NoCall}]
    BY <1>17 DEF Filter, Keep
  <2>3. QED
    BY <1>17, <2>1, <2>2 DEF Filter, callVars
<1>18. ASSUME NEW t \in Thread, NEW c \in Call, NEW answered \in BOOLEAN, DropNext(t, c, answered)
       PROVE TypeOK'
  <2>1. IdOf(serial[c]) \in Id
    BY IdOfType
  <2>2. task' \in [Thread -> Task]
    BY <1>18, <2>1, AnswerTypes DEF DropNext, Task
  <2>3. QED
    BY <1>18, <2>2 DEF DropNext, callVars
<1>19. ASSUME NEW t \in Thread, OnResponse(t) PROVE TypeOK'
  <2>1. task[t].call \in Call /\ task[t].res \in Answer
    BY <1>19 DEF OnResponse, Task
  <2>2. task' \in [Thread -> Task]
    <3>1. [task[t] EXCEPT !.step = "given"] \in Task
      <4>1. task[t] \in Task
        OBVIOUS
      <4>2. QED
        BY <4>1, Zenon DEF Task
    <3>2. QED
      BY <1>19, <3>1 DEF OnResponse
  <2>3. stored' \in [Call -> Answer] /\ wild' \in BOOLEAN
    BY <1>19, <2>1 DEF OnResponse
  <2>4. QED
    BY <1>19, <2>2, <2>3 DEF OnResponse, threadVars
<1>20. ASSUME NEW t \in Thread, RunCallback(t) PROVE TypeOK'
  <2>1. task[t].call \in Call
    BY <1>20, NoTaskType DEF RunCallback, Task
  <2>2. QED
    BY <1>20, <2>1, NoTaskType DEF RunCallback, NoTask, Empty, threadVars, Task
<1>21. ASSUME NEW t \in Thread, Release(t) PROVE TypeOK'
  <2>1. task[t].call \in Call
    BY <1>21, NoTaskType DEF Release, Task
  <2>2. QED
    BY <1>21, <2>1, NoTaskType DEF Release, NoTask, Empty, Notified, Task
<1>22. ASSUME NEW t \in Thread, ReleaseDead(t) PROVE TypeOK'
  BY <1>22, NoTaskType DEF ReleaseDead, callVars, threadVars
<1>23. CASE UNCHANGED vars
  BY <1>23 DEF vars, callVars, threadVars
<1> HIDE DEF IInv, TypeOK, ThreadsOK, Phase
<1>24. QED
  BY <1>1, <1>2, <1>3, <1>4, <1>5, <1>6, <1>7, <1>8, <1>9, <1>10, <1>11, <1>12, <1>13, <1>14,
     <1>15, <1>16, <1>17, <1>18, <1>19, <1>20, <1>21, <1>22, <1>23
  DEF Next, Continue, Begin

\* Two threads are never inside an operator for the same pending-call object.
LEMMA ThreadsStep == IInv /\ [Next]_vars => ThreadsOK'
<1> SUFFICES ASSUME IInv, [Next]_vars PROVE ThreadsOK'
  OBVIOUS
<1> USE DEF IInv, TypeOK, ThreadsOK, Task, Registered
<1>1. ASSUME NEW t \in Thread, NEW c \in Call, NEW k \in {1, 2}, Prepare(t, c, k)
      PROVE ThreadsOK'
  BY <1>1 DEF Prepare, NextSerial, threadVars
<1>2. ASSUME NEW t \in Thread, NEW c \in Call, StartAsync(t, c) PROVE ThreadsOK'
  <2>1. \A x \in Thread : pc'[x] # "idle" => cur'[x] \in Call /\ phase'[cur'[x]] \in {"async", "sync"}
    BY <1>2 DEF StartAsync, Enter, Emplace, Idle, Settled
  <2>2. \A x, y \in Thread : pc'[x] # "idle" /\ pc'[y] # "idle" /\ cur'[x] = cur'[y] => x = y
    <3> SUFFICES ASSUME NEW x \in Thread, NEW y \in Thread, x # y,
                         pc'[x] # "idle", pc'[y] # "idle", cur'[x] = cur'[y]
                 PROVE  FALSE
      OBVIOUS
    <3>1. \A z \in Thread : pc[z] # "idle" => cur[z] # c
      BY <1>2 DEF StartAsync, Enter, Emplace, Idle, Settled
    <3>2. \A z \in Thread : z # t => pc'[z] = pc[z] /\ cur'[z] = cur[z]
      BY <1>2 DEF StartAsync, Enter, Emplace, Idle, Settled
    <3>3. cur'[t] = c
      BY <1>2 DEF StartAsync, Enter, Emplace, Idle, Settled
    <3>4. CASE x = t \/ y = t
      <4>1. CASE x = t
        <5>1. y # t /\ pc[y] # "idle" /\ cur[y] = cur'[t]
          BY <3>2, <4>1, ZenonT(60)
        <5>2. QED
          BY <3>1, <3>3, <5>1, ZenonT(60)
      <4>2. CASE y = t
        <5>1. x # t /\ pc[x] # "idle" /\ cur[x] = cur'[t]
          BY <3>2, <4>2, ZenonT(60)
        <5>2. QED
          BY <3>1, <3>3, <5>1, ZenonT(60)
      <4>3. QED
        BY <3>4, <4>1, <4>2, ZenonT(60)
    <3>5. CASE x # t /\ y # t
      <4>1. pc[x] # "idle" /\ pc[y] # "idle" /\ cur[x] = cur[y]
        BY <3>2, <3>5, ZenonT(60)
      <4>2. QED
        BY <4>1
    <3>6. QED
      BY <3>4, <3>5, ZenonT(60)
  <2>3. \A x \in Thread : task'[x].step \in {"taken", "given"} <=> task'[x].call # NoCall
    BY <1>2 DEF StartAsync, Enter, Emplace, Idle, Settled
  <2>4. QED
    BY <2>1, <2>2, <2>3
<1>3. ASSUME NEW t \in Thread, NEW c \in Call, StartSync(t, c) PROVE ThreadsOK'
  <2>1. \A x \in Thread : pc'[x] # "idle" => cur'[x] \in Call /\ phase'[cur'[x]] \in {"async", "sync"}
    BY <1>3 DEF StartSync, Enter, Emplace, Idle, Settled
  <2>2. \A x, y \in Thread : pc'[x] # "idle" /\ pc'[y] # "idle" /\ cur'[x] = cur'[y] => x = y
    <3> SUFFICES ASSUME NEW x \in Thread, NEW y \in Thread, x # y,
                         pc'[x] # "idle", pc'[y] # "idle", cur'[x] = cur'[y]
                 PROVE  FALSE
      OBVIOUS
    <3>1. \A z \in Thread : pc[z] # "idle" => cur[z] # c
      BY <1>3 DEF StartSync, Enter, Emplace, Idle, Settled
    <3>2. \A z \in Thread : z # t => pc'[z] = pc[z] /\ cur'[z] = cur[z]
      BY <1>3 DEF StartSync, Enter, Emplace, Idle, Settled
    <3>3. cur'[t] = c
      BY <1>3 DEF StartSync, Enter, Emplace, Idle, Settled
    <3>4. CASE x = t \/ y = t
      <4>1. CASE x = t
        <5>1. y # t /\ pc[y] # "idle" /\ cur[y] = cur'[t]
          BY <3>2, <4>1, ZenonT(60)
        <5>2. QED
          BY <3>1, <3>3, <5>1, ZenonT(60)
      <4>2. CASE y = t
        <5>1. x # t /\ pc[x] # "idle" /\ cur[x] = cur'[t]
          BY <3>2, <4>2, ZenonT(60)
        <5>2. QED
          BY <3>1, <3>3, <5>1, ZenonT(60)
      <4>3. QED
        BY <3>4, <4>1, <4>2, ZenonT(60)
    <3>5. CASE x # t /\ y # t
      <4>1. pc[x] # "idle" /\ pc[y] # "idle" /\ cur[x] = cur[y]
        BY <3>2, <3>5, ZenonT(60)
      <4>2. QED
        BY <4>1
    <3>6. QED
      BY <3>4, <3>5, ZenonT(60)
  <2>3. \A x \in Thread : task'[x].step \in {"taken", "given"} <=> task'[x].call # NoCall
    BY <1>3 DEF StartSync, Enter, Emplace, Idle, Settled
  <2>4. QED
    BY <2>1, <2>2, <2>3
<1>4. ASSUME NEW t \in Thread, NEW c \in Call, NEW d \in Call,
            NEW form \in {"async", "sync"}, Retry(t, c, d, form) PROVE ThreadsOK'
  <2>1. \A x \in Thread : pc'[x] # "idle" => cur'[x] \in Call /\ phase'[cur'[x]] \in {"async", "sync"}
    <3>1. /\ phase' = [phase EXCEPT ![c] = "async", ![d] = form]
          /\ pc' = [pc EXCEPT ![t] = "sending"] /\ cur' = [cur EXCEPT ![t] = d]
      BY <1>4 DEF Retry, Enter
    <3>2. \A y \in Call : phase[y] \in {"async", "sync"} => phase'[y] \in {"async", "sync"}
      BY <3>1
    <3>3. d \in Call /\ phase'[d] \in {"async", "sync"}
      BY <3>1, <1>4
    <3>4. \A x \in Thread : x # t => pc'[x] = pc[x] /\ cur'[x] = cur[x]
      BY <3>1
    <3>5. cur'[t] = d
      BY <3>1
    <3>6. \A x \in Thread : x # t /\ pc[x] # "idle" =>
            cur[x] \in Call /\ phase[cur[x]] \in {"async", "sync"}
      OBVIOUS
    <3>7. QED
      BY <3>2, <3>3, <3>4, <3>5, <3>6, Zenon
  <2>2. \A x, y \in Thread : pc'[x] # "idle" /\ pc'[y] # "idle" /\ cur'[x] = cur'[y] => x = y
    <3> SUFFICES ASSUME NEW x \in Thread, NEW y \in Thread, x # y,
                         pc'[x] # "idle", pc'[y] # "idle", cur'[x] = cur'[y]
                 PROVE  FALSE
      OBVIOUS
    <3>1. \A z \in Thread : pc[z] # "idle" => cur[z] # d
      BY <1>4 DEF Retry, Enter, Emplace, Idle, Settled
    <3>2. \A z \in Thread : z # t => pc'[z] = pc[z] /\ cur'[z] = cur[z]
      BY <1>4 DEF Retry, Enter, Emplace, Idle, Settled
    <3>3. cur'[t] = d
      BY <1>4 DEF Retry, Enter, Emplace, Idle, Settled
    <3>4. CASE x = t \/ y = t
      <4>1. CASE x = t
        <5>1. y # t /\ pc[y] # "idle" /\ cur[y] = cur'[t]
          BY <3>2, <4>1, ZenonT(60)
        <5>2. QED
          BY <3>1, <3>3, <5>1, ZenonT(60)
      <4>2. CASE y = t
        <5>1. x # t /\ pc[x] # "idle" /\ cur[x] = cur'[t]
          BY <3>2, <4>2, ZenonT(60)
        <5>2. QED
          BY <3>1, <3>3, <5>1, ZenonT(60)
      <4>3. QED
        BY <3>4, <4>1, <4>2, ZenonT(60)
    <3>5. CASE x # t /\ y # t
      <4>1. pc[x] # "idle" /\ pc[y] # "idle" /\ cur[x] = cur[y]
        BY <3>2, <3>5, ZenonT(60)
      <4>2. QED
        BY <4>1
    <3>6. QED
      BY <3>4, <3>5, ZenonT(60)
  <2>3. \A x \in Thread : task'[x].step \in {"taken", "given"} <=> task'[x].call # NoCall
    BY <1>4 DEF Retry, Enter, Emplace, Idle, Settled
  <2>4. QED
    BY <2>1, <2>2, <2>3
<1>5. ASSUME NEW t \in Thread, Transmit(t) PROVE ThreadsOK'
  BY <1>5 DEF Transmit, callVars, threadVars
<1>6. ASSUME NEW t \in Thread, AsyncSent(t) PROVE ThreadsOK'
  BY <1>6 DEF AsyncSent, callVars
<1>7. ASSUME NEW t \in Thread, SyncSent(t) PROVE ThreadsOK'
  <2>1. \A x \in Thread : pc'[x] # "idle" => cur'[x] \in Call /\ phase'[cur'[x]] \in {"async", "sync"}
    BY <1>7 DEF SyncSent, Await, Received
  <2>2. \A x, y \in Thread : pc'[x] # "idle" /\ pc'[y] # "idle" /\ cur'[x] = cur'[y] => x = y
    <3> SUFFICES ASSUME NEW x \in Thread, NEW y \in Thread,
                         pc'[x] # "idle", pc'[y] # "idle", cur'[x] = cur'[y]
                 PROVE  x = y
      OBVIOUS
    <3>1. \A z \in Thread : pc'[z] # "idle" => pc[z] # "idle" /\ cur'[z] = cur[z]
      BY <1>7 DEF SyncSent, Await, Received
    <3>2. pc[x] # "idle" /\ pc[y] # "idle" /\ cur[x] = cur[y]
      BY <3>1, Zenon
    <3>3. QED
      BY <3>2
  <2>3. \A x \in Thread : task'[x].step \in {"taken", "given"} <=> task'[x].call # NoCall
    BY <1>7 DEF SyncSent, Await, Received
  <2>4. QED
    BY <2>1, <2>2, <2>3
<1>8. ASSUME NEW t \in Thread, SendThrows(t) PROVE ThreadsOK'
  BY <1>8 DEF SendThrows
<1>9. ASSUME NEW t \in Thread, Wake(t) PROVE ThreadsOK'
  <2>1. \A x \in Thread : pc'[x] # "idle" => cur'[x] \in Call /\ phase'[cur'[x]] \in {"async", "sync"}
    BY <1>9 DEF Wake, Await, Received
  <2>2. \A x, y \in Thread : pc'[x] # "idle" /\ pc'[y] # "idle" /\ cur'[x] = cur'[y] => x = y
    <3> SUFFICES ASSUME NEW x \in Thread, NEW y \in Thread,
                         pc'[x] # "idle", pc'[y] # "idle", cur'[x] = cur'[y]
                 PROVE  x = y
      OBVIOUS
    <3>1. \A z \in Thread : pc'[z] # "idle" => pc[z] # "idle" /\ cur'[z] = cur[z]
      BY <1>9 DEF Wake, Await, Received
    <3>2. pc[x] # "idle" /\ pc[y] # "idle" /\ cur[x] = cur[y]
      BY <3>1, Zenon
    <3>3. QED
      BY <3>2
  <2>3. \A x \in Thread : task'[x].step \in {"taken", "given"} <=> task'[x].call # NoCall
    BY <1>9 DEF Wake, Await, Received
  <2>4. QED
    BY <2>1, <2>2, <2>3
<1>10. ASSUME NEW t \in Thread, SpuriousWake(t) PROVE ThreadsOK'
  BY <1>10 DEF SpuriousWake, callVars
<1>11. ASSUME NEW t \in Thread, NEW c \in Call, Receive(t, c) PROVE ThreadsOK'
  BY <1>11 DEF Receive, MergeContext, callVars, threadVars, CanProcess, Settled, Response
<1>12. ASSUME NEW t \in Thread, Find(t) PROVE ThreadsOK'
  BY <1>12 DEF Find, Take, Erase, callVars, threadVars
<1>13. ASSUME NEW t \in Thread, Unexpected(t) PROVE ThreadsOK'
  BY <1>13 DEF Unexpected, NoTask, Empty, callVars, threadVars
<1>14. ASSUME NEW t \in Thread, NEW i \in Id, Cancel(t, i) PROVE ThreadsOK'
  BY <1>14 DEF Cancel, Take, Erase, Cancelled, callVars, threadVars, CanProcess, Settled
<1>15. ASSUME NEW t \in Thread, CancelAll(t) PROVE ThreadsOK'
  BY <1>15 DEF CancelAll, callVars
<1>16. ASSUME NEW t \in Thread, NEW i \in Id, CancelNext(t, i) PROVE ThreadsOK'
  <2>1. CASE callMap[i] = NoCall
    BY <1>16, <2>1 DEF CancelNext, Take, Erase, Cancelled, callVars, Remaining
  <2>2. CASE callMap[i] # NoCall
    <3>1. task[t].step = "none" /\ task[t].call = NoCall /\ i \in Id
      BY <1>16 DEF CancelNext
    <3>2. /\ callMap' = [callMap EXCEPT ![i] = NoCall]
          /\ task' = [task EXCEPT ![t] = [step |-> "taken", id |-> i, call |-> callMap[i],
                                         res |-> [kind |-> "cancelled", of |-> 0]]]
      BY <1>16, <2>2 DEF CancelNext, Take, Erase, Cancelled
    <3>3. UNCHANGED <<idCounter, serial, phase, stored, fired, lock, pc, cur, out, sent, context, wild>>
      BY <1>16 DEF CancelNext, callVars
    <3>4. QED
      BY <2>2, <3>1, <3>2, <3>3
  <2>3. QED
    BY <2>1, <2>2
<1>17. ASSUME NEW t \in Thread, NEW ids \in SUBSET Id, Filter(t, ids) PROVE ThreadsOK'
  BY <1>17 DEF Filter, Keep, Keys, callVars, CanProcess, Settled
<1>18. ASSUME NEW t \in Thread, NEW c \in Call, NEW answered \in BOOLEAN, DropNext(t, c, answered)
       PROVE ThreadsOK'
  BY <1>18 DEF DropNext, Cancelled, callVars
<1>19. ASSUME NEW t \in Thread, OnResponse(t) PROVE ThreadsOK'
  BY <1>19 DEF OnResponse, Dead, threadVars
<1>20. ASSUME NEW t \in Thread, RunCallback(t) PROVE ThreadsOK'
  BY <1>20 DEF RunCallback, NoTask, Empty, threadVars
<1>21. ASSUME NEW t \in Thread, Release(t) PROVE ThreadsOK'
  BY <1>21 DEF Release, NoTask, Empty, Notified
<1>22. ASSUME NEW t \in Thread, ReleaseDead(t) PROVE ThreadsOK'
  BY <1>22 DEF ReleaseDead, NoTask, Empty, Dead, callVars, threadVars
<1>23. CASE UNCHANGED vars
  BY <1>23 DEF vars, callVars, threadVars
<1> HIDE DEF IInv, TypeOK, ThreadsOK, Task, Registered
<1>24. QED
  BY <1>1, <1>2, <1>3, <1>4, <1>5, <1>6, <1>7, <1>8, <1>9, <1>10, <1>11, <1>12, <1>13, <1>14,
     <1>15, <1>16, <1>17, <1>18, <1>19, <1>20, <1>21, <1>22, <1>23
  DEF Next, Continue, Begin

\* An object in the map is in nobody's hands, one that is carried is carried by
\* one thread, and neither was answered before.
LEMMA PlacesStep == IInv /\ [Next]_vars => PlacesOK'
<1> SUFFICES ASSUME IInv, [Next]_vars PROVE PlacesOK'
  OBVIOUS
<1> USE DEF IInv, TypeOK, ThreadsOK, PlacesOK, Task, Registered, CarriedBy
<1>1. ASSUME NEW t \in Thread, NEW c \in Call, NEW k \in {1, 2}, Prepare(t, c, k)
      PROVE PlacesOK'
  BY <1>1 DEF Prepare, NextSerial, threadVars
<1>2. ASSUME NEW t \in Thread, NEW c \in Call, StartAsync(t, c) PROVE PlacesOK'
  BY <1>2 DEF StartAsync, Enter, Emplace, Idle, Settled
<1>3. ASSUME NEW t \in Thread, NEW c \in Call, StartSync(t, c) PROVE PlacesOK'
  BY <1>3 DEF StartSync, Enter, Emplace, Idle, Settled
<1>4. ASSUME NEW t \in Thread, NEW c \in Call, NEW d \in Call,
            NEW form \in {"async", "sync"}, Retry(t, c, d, form) PROVE PlacesOK'
  BY <1>4 DEF Retry, Enter, Emplace, Idle, Settled
<1>5. ASSUME NEW t \in Thread, Transmit(t) PROVE PlacesOK'
  BY <1>5 DEF Transmit, callVars, threadVars
<1>6. ASSUME NEW t \in Thread, AsyncSent(t) PROVE PlacesOK'
  BY <1>6 DEF AsyncSent, callVars
<1>7. ASSUME NEW t \in Thread, SyncSent(t) PROVE PlacesOK'
  BY <1>7 DEF SyncSent, Await, Received
<1>8. ASSUME NEW t \in Thread, SendThrows(t) PROVE PlacesOK'
  BY <1>8 DEF SendThrows
<1>9. ASSUME NEW t \in Thread, Wake(t) PROVE PlacesOK'
  BY <1>9 DEF Wake, Await, Received
<1>10. ASSUME NEW t \in Thread, SpuriousWake(t) PROVE PlacesOK'
  BY <1>10 DEF SpuriousWake, callVars
<1>11. ASSUME NEW t \in Thread, NEW c \in Call, Receive(t, c) PROVE PlacesOK'
  BY <1>11 DEF Receive, MergeContext, callVars, threadVars, CanProcess, Settled, Response
<1>12. ASSUME NEW t \in Thread, Find(t) PROVE PlacesOK'
  BY <1>12 DEF Find, Take, Erase, callVars, threadVars
<1>13. ASSUME NEW t \in Thread, Unexpected(t) PROVE PlacesOK'
  BY <1>13 DEF Unexpected, NoTask, Empty, callVars, threadVars
<1>14. ASSUME NEW t \in Thread, NEW i \in Id, Cancel(t, i) PROVE PlacesOK'
  BY <1>14 DEF Cancel, Take, Erase, Cancelled, callVars, threadVars, CanProcess, Settled
<1>15. ASSUME NEW t \in Thread, CancelAll(t) PROVE PlacesOK'
  BY <1>15 DEF CancelAll, callVars
<1>16. ASSUME NEW t \in Thread, NEW i \in Id, CancelNext(t, i) PROVE PlacesOK'
  <2>1. CASE callMap[i] = NoCall
    BY <1>16, <2>1 DEF CancelNext, Take, Erase, Cancelled, callVars, Remaining
  <2>2. CASE callMap[i] # NoCall
    <3>1. task[t].step = "none" /\ task[t].call = NoCall /\ i \in Id
      BY <1>16 DEF CancelNext
    <3>2. /\ callMap' = [callMap EXCEPT ![i] = NoCall]
          /\ task' = [task EXCEPT ![t] = [step |-> "taken", id |-> i, call |-> callMap[i],
                                         res |-> [kind |-> "cancelled", of |-> 0]]]
      BY <1>16, <2>2 DEF CancelNext, Take, Erase, Cancelled
    <3>3. UNCHANGED <<idCounter, serial, phase, stored, fired, lock, pc, cur, out, sent, context, wild>>
      BY <1>16 DEF CancelNext, callVars
    <3>4. QED
      BY <2>2, <3>1, <3>2, <3>3
  <2>3. QED
    BY <2>1, <2>2
<1>17. ASSUME NEW t \in Thread, NEW ids \in SUBSET Id, Filter(t, ids) PROVE PlacesOK'
  BY <1>17 DEF Filter, Keep, Keys, callVars, CanProcess, Settled
<1>18. ASSUME NEW t \in Thread, NEW c \in Call, NEW answered \in BOOLEAN, DropNext(t, c, answered)
       PROVE PlacesOK'
  BY <1>18 DEF DropNext, Cancelled, callVars
<1>19. ASSUME NEW t \in Thread, OnResponse(t) PROVE PlacesOK'
  BY <1>19 DEF OnResponse, Dead, threadVars
<1>20. ASSUME NEW t \in Thread, RunCallback(t) PROVE PlacesOK'
  BY <1>20 DEF RunCallback, NoTask, Empty, threadVars
<1>21. ASSUME NEW t \in Thread, Release(t) PROVE PlacesOK'
  BY <1>21 DEF Release, NoTask, Empty, Notified
<1>22. ASSUME NEW t \in Thread, ReleaseDead(t) PROVE PlacesOK'
  BY <1>22 DEF ReleaseDead, NoTask, Empty, Dead, callVars, threadVars
<1>23. CASE UNCHANGED vars
  BY <1>23 DEF vars, callVars, threadVars
<1> HIDE DEF IInv, TypeOK, ThreadsOK, PlacesOK, Task, Registered, CarriedBy
<1>24. QED
  BY <1>1, <1>2, <1>3, <1>4, <1>5, <1>6, <1>7, <1>8, <1>9, <1>10, <1>11, <1>12, <1>13, <1>14,
     <1>15, <1>16, <1>17, <1>18, <1>19, <1>20, <1>21, <1>22, <1>23
  DEF Next, Continue, Begin

\* Registering an object loses none: under a taken id it is answered on the spot.
LEMMA EnterKeeps ==
  ASSUME TypeOK, PlacesOK, NoneLost, NEW t \in Thread, NEW c \in Call, NEW i \in Id, Enter(t, c, i),
         \A x \in Call : Registered(x)' /\ phase'[x] # "unwound" /\ x # c
                          => Registered(x) /\ phase[x] # "unwound"
  PROVE  NoneLost'
<1> SUFFICES ASSUME NEW x \in Call, Registered(x)', phase'[x] # "unwound"
             PROVE  InMap(x)' \/ Carried(x)' \/ Received(x)'
  BY DEF NoneLost
<1>1. CASE x = c
  BY <1>1 DEF Enter, Emplace, InMap, Received, TypeOK
<1>2. CASE x # c /\ InMap(x)
  <2>1. PICK j \in Id : callMap[j] = x
    BY <1>2 DEF InMap
  <2>2. callMap'[j] = x
    BY <2>1 DEF Enter, Emplace, TypeOK
  <2>3. QED
    BY <2>2 DEF InMap
<1>3. CASE x # c /\ Carried(x)
  BY <1>3 DEF Enter, Carried, CarriedBy
<1>4. CASE x # c /\ Received(x)
  BY <1>4 DEF Enter, Received, TypeOK
<1>5. QED
  BY <1>1, <1>2, <1>3, <1>4 DEF NoneLost

\* Taking an object out of the map puts it into the hands of the thread.
LEMMA TakeKeeps ==
  ASSUME TypeOK, ThreadsOK, NoneLost, NEW t \in Thread, NEW i \in Id, NEW a, Take(t, i, a),
         callMap[i] # NoCall, task[t].call = NoCall, UNCHANGED <<out, fired, phase>>
  PROVE  NoneLost'
<1> SUFFICES ASSUME NEW x \in Call, Registered(x)', phase'[x] # "unwound"
             PROVE  InMap(x)' \/ Carried(x)' \/ Received(x)'
  BY DEF NoneLost
<1>1. CASE x = callMap[i]
  <2>1. task'[t].call = x
    BY <1>1 DEF Take, TypeOK
  <2>2. QED
    BY <2>1 DEF Carried, CarriedBy
<1>2. CASE x # callMap[i] /\ InMap(x)
  BY <1>2 DEF Take, Erase, InMap, TypeOK
<1>3. CASE Carried(x)
  <2>1. PICK u \in Thread : CarriedBy(u, x)
    BY <1>3 DEF Carried
  <2>2. CarriedBy(u, x)'
    BY <2>1 DEF CarriedBy, Take, TypeOK
  <2>3. QED
    BY <2>2 DEF Carried
<1>4. CASE Received(x)
  BY <1>4 DEF Received
<1>5. QED
  BY <1>1, <1>2, <1>3, <1>4 DEF NoneLost, Registered

\* No step loses a registered object.
LEMMA NoneLostStep == IInv /\ [Next]_vars => NoneLost'
<1> SUFFICES ASSUME IInv, [Next]_vars PROVE NoneLost'
  OBVIOUS
<1> USE DEF IInv
<1>1. ASSUME NEW t \in Thread, NEW c \in Call, NEW k \in {1, 2}, Prepare(t, c, k)
      PROVE NoneLost'
  BY <1>1 DEF Prepare, NextSerial, threadVars, NoneLost, Registered, InMap, Carried,
     CarriedBy, Received, ThreadsOK, TypeOK
<1>2. ASSUME NEW t \in Thread, NEW c \in Call, StartAsync(t, c) PROVE NoneLost'
  <2>1. IdOf(serial[c]) \in Id
    BY IdOfType DEF TypeOK
  <2>2. QED
    BY <1>2, <2>1, EnterKeeps DEF StartAsync, Registered, TypeOK
<1>3. ASSUME NEW t \in Thread, NEW c \in Call, StartSync(t, c) PROVE NoneLost'
  <2>1. IdOf(serial[c]) \in Id
    BY IdOfType DEF TypeOK
  <2>2. QED
    BY <1>3, <2>1, EnterKeeps DEF StartSync, Registered, TypeOK
<1>4. ASSUME NEW t \in Thread, NEW c \in Call, NEW d \in Call,
            NEW form \in {"async", "sync"}, Retry(t, c, d, form) PROVE NoneLost'
  <2>1. IdOf(serial[c]) \in Id
    BY IdOfType DEF TypeOK
  <2>2. QED
    BY <1>4, <2>1, EnterKeeps DEF Retry, Registered, TypeOK
<1>5. ASSUME NEW t \in Thread, Transmit(t) PROVE NoneLost'
  BY <1>5 DEF Transmit, callVars, threadVars, NoneLost, Registered, InMap, Carried, CarriedBy,
     Received, ThreadsOK, TypeOK
<1>6. ASSUME NEW t \in Thread, AsyncSent(t) PROVE NoneLost'
  BY <1>6 DEF AsyncSent, callVars, NoneLost, Registered, InMap, Carried, CarriedBy, Received,
     ThreadsOK, TypeOK
<1>7. ASSUME NEW t \in Thread, SyncSent(t) PROVE NoneLost'
  <2>1. \A x \in Call : phase'[x] = phase[x] \/ (phase'[x] = "returned" /\ Received(x))
    BY <1>7 DEF SyncSent, Await, TypeOK
  <2>2. UNCHANGED <<callMap, task, out, fired>>
    BY <1>7 DEF SyncSent, Await
  <2>3. QED
    BY <2>1, <2>2 DEF NoneLost, Registered, InMap, Carried, CarriedBy, Received
<1>8. ASSUME NEW t \in Thread, SendThrows(t) PROVE NoneLost'
  BY <1>8 DEF SendThrows, NoneLost, Registered, InMap, Carried, CarriedBy, Received,
     ThreadsOK, TypeOK
<1>9. ASSUME NEW t \in Thread, Wake(t) PROVE NoneLost'
  <2>1. \A x \in Call : phase'[x] = phase[x] \/ (phase'[x] = "returned" /\ Received(x))
    BY <1>9 DEF Wake, Await, TypeOK
  <2>2. UNCHANGED <<callMap, task, out, fired>>
    BY <1>9 DEF Wake, Await
  <2>3. QED
    BY <2>1, <2>2 DEF NoneLost, Registered, InMap, Carried, CarriedBy, Received
<1>10. ASSUME NEW t \in Thread, SpuriousWake(t) PROVE NoneLost'
  BY <1>10 DEF SpuriousWake, callVars, NoneLost, Registered, InMap, Carried, CarriedBy,
     Received, ThreadsOK, TypeOK
<1>11. ASSUME NEW t \in Thread, NEW c \in Call, Receive(t, c) PROVE NoneLost'
  BY <1>11 DEF Receive, MergeContext, callVars, threadVars, CanProcess, Settled, Response,
     NoneLost, Registered, InMap, Carried, CarriedBy, Received, Task, ThreadsOK, TypeOK
<1>12. ASSUME NEW t \in Thread, Find(t) PROVE NoneLost'
  <2>1. task[t].call = NoCall /\ task[t].id \in Id
    BY <1>12 DEF Find, ThreadsOK, TypeOK, Task
  <2>2. QED
    BY <1>12, <2>1, TakeKeeps DEF Find, callVars, threadVars
<1>13. ASSUME NEW t \in Thread, Unexpected(t) PROVE NoneLost'
  BY <1>13 DEF Unexpected, NoTask, Empty, callVars, threadVars, NoneLost, Registered, InMap,
     Carried, CarriedBy, Received, Task, ThreadsOK, TypeOK
<1>14. ASSUME NEW t \in Thread, NEW i \in Id, Cancel(t, i) PROVE NoneLost'
  <2>1. task[t].call = NoCall
    BY <1>14 DEF Cancel, CanProcess, Settled, ThreadsOK, TypeOK, Task
  <2>2. QED
    BY <1>14, <2>1, TakeKeeps DEF Cancel, callVars, threadVars
<1>15. ASSUME NEW t \in Thread, CancelAll(t) PROVE NoneLost'
  BY <1>15 DEF CancelAll, callVars, NoneLost, Registered, InMap, Carried, CarriedBy, Received,
     ThreadsOK, TypeOK
<1>16. ASSUME NEW t \in Thread, NEW i \in Id, CancelNext(t, i) PROVE NoneLost'
  <2>1. CASE callMap[i] = NoCall
    BY <1>16, <2>1 DEF CancelNext, NoneLost, Registered, InMap, Carried, CarriedBy, Received,
       callVars
  <2>2. CASE callMap[i] # NoCall
    <3>1. task[t].call = NoCall
      BY <1>16 DEF CancelNext, ThreadsOK, TypeOK, Task
    <3>2. QED
      BY <1>16, <2>2, <3>1, TakeKeeps DEF CancelNext, callVars
  <2>3. QED
    BY <2>1, <2>2
<1>17. ASSUME NEW t \in Thread, NEW ids \in SUBSET Id, Filter(t, ids) PROVE NoneLost'
  <2> SUFFICES ASSUME NEW x \in Call, Registered(x), phase[x] # "unwound"
               PROVE  InMap(x)' \/ Carried(x)' \/ Received(x)'
    BY <1>17 DEF Filter, callVars, NoneLost, Registered
  <2>1. CASE InMap(x)
    <3>1. PICK j \in Id : callMap[j] = x
      BY <2>1 DEF InMap
    <3>2. CASE j \in ids
      BY <1>17, <3>1, <3>2 DEF Filter, Keep, InMap, TypeOK
    <3>3. CASE j \notin ids
      <4>1. x \in out'[t]
        BY <1>17, <3>1, <3>3 DEF Filter, Keys, TypeOK
      <4>2. QED
        BY <4>1 DEF Carried, CarriedBy
    <3>4. QED
      BY <3>2, <3>3
  <2>2. CASE Carried(x)
    <3>1. PICK u \in Thread : CarriedBy(u, x)
      BY <2>2 DEF Carried
    <3>2. u # t
      BY <1>17, <3>1 DEF Filter, CanProcess, Settled, CarriedBy, ThreadsOK, TypeOK, Task
    <3>3. CarriedBy(u, x)'
      BY <1>17, <3>1, <3>2 DEF Filter, CarriedBy, TypeOK
    <3>4. QED
      BY <3>3 DEF Carried
  <2>3. CASE Received(x)
    BY <1>17, <2>3 DEF Filter, callVars, Received
  <2>4. QED
    BY <2>1, <2>2, <2>3 DEF NoneLost
<1>18. ASSUME NEW t \in Thread, NEW c \in Call, NEW answered \in BOOLEAN, DropNext(t, c, answered)
       PROVE NoneLost'
  <2> SUFFICES ASSUME NEW x \in Call, Registered(x), phase[x] # "unwound"
               PROVE  InMap(x)' \/ Carried(x)' \/ Received(x)'
    BY <1>18 DEF DropNext, callVars, NoneLost, Registered
  <2>1. CASE x = c
    <3>1. task'[t].call = x
      BY <1>18, <2>1 DEF DropNext, TypeOK
    <3>2. QED
      BY <3>1 DEF Carried, CarriedBy
  <2>2. CASE x # c /\ Carried(x)
    <3>1. PICK u \in Thread : CarriedBy(u, x)
      BY <2>2 DEF Carried
    <3>2. task[t].call = NoCall
      BY <1>18 DEF DropNext, ThreadsOK, TypeOK, Task
    <3>3. CarriedBy(u, x)'
      BY <1>18, <2>2, <3>1, <3>2 DEF DropNext, CarriedBy, TypeOK
    <3>4. QED
      BY <3>3 DEF Carried
  <2>3. CASE InMap(x) \/ Received(x)
    BY <1>18, <2>3 DEF DropNext, callVars, InMap, Received
  <2>4. QED
    BY <2>1, <2>2, <2>3 DEF NoneLost
<1>19. ASSUME NEW t \in Thread, OnResponse(t) PROVE NoneLost'
  <2>1. \A u \in Thread : task'[u].call = task[u].call
    BY <1>19 DEF OnResponse, TypeOK, Task
  <2>2. UNCHANGED <<phase, callMap, out, fired>>
    BY <1>19 DEF OnResponse, threadVars
  <2>3. QED
    BY <2>1, <2>2 DEF NoneLost, Registered, InMap, Carried, CarriedBy, Received
<1>20. ASSUME NEW t \in Thread, RunCallback(t) PROVE NoneLost'
  <2> SUFFICES ASSUME NEW x \in Call, Registered(x), phase[x] # "unwound"
               PROVE  InMap(x)' \/ Carried(x)' \/ Received(x)'
    BY <1>20 DEF RunCallback, threadVars, NoneLost, Registered
  <2>1. CASE x = task[t].call
    BY <1>20, <2>1 DEF RunCallback, Received, TypeOK
  <2>2. CASE x # task[t].call /\ Carried(x)
    <3>1. PICK u \in Thread : CarriedBy(u, x)
      BY <2>2 DEF Carried
    <3>2. CarriedBy(u, x)'
      BY <1>20, <2>2, <3>1 DEF RunCallback, CarriedBy, TypeOK, threadVars
    <3>3. QED
      BY <3>2 DEF Carried
  <2>3. CASE InMap(x) \/ Received(x)
    BY <1>20, <2>3 DEF RunCallback, threadVars, InMap, Received, TypeOK
  <2>4. QED
    BY <2>1, <2>2, <2>3 DEF NoneLost
<1>21. ASSUME NEW t \in Thread, Release(t) PROVE NoneLost'
  <2> SUFFICES ASSUME NEW x \in Call, Registered(x), phase[x] # "unwound"
               PROVE  InMap(x)' \/ Carried(x)' \/ Received(x)'
    BY <1>21 DEF Release, threadVars, NoneLost, Registered
  <2>1. CASE x = task[t].call
    BY <1>21, <2>1 DEF Release, Received, TypeOK
  <2>2. CASE x # task[t].call /\ Carried(x)
    <3>1. PICK u \in Thread : CarriedBy(u, x)
      BY <2>2 DEF Carried
    <3>2. CarriedBy(u, x)'
      BY <1>21, <2>2, <3>1 DEF Release, CarriedBy, TypeOK, threadVars
    <3>3. QED
      BY <3>2 DEF Carried
  <2>3. CASE InMap(x) \/ Received(x)
    BY <1>21, <2>3 DEF Release, threadVars, InMap, Received, TypeOK
  <2>4. QED
    BY <2>1, <2>2, <2>3 DEF NoneLost
<1>22. ASSUME NEW t \in Thread, ReleaseDead(t) PROVE NoneLost'
  <2> SUFFICES ASSUME NEW x \in Call, Registered(x), phase[x] # "unwound"
               PROVE  InMap(x)' \/ Carried(x)' \/ Received(x)'
    BY <1>22 DEF ReleaseDead, callVars, NoneLost, Registered
  <2>1. x # task[t].call
    <3>1. phase[task[t].call] = "returned" => CarriedBy(t, task[t].call) /\ fired[task[t].call] > 0
      BY <1>22 DEF ReleaseDead, CarriedBy, PlacesOK, ThreadsOK, TypeOK, Task
    <3>2. QED
      BY <1>22, <3>1 DEF ReleaseDead, Dead, PlacesOK, TypeOK
  <2>2. CASE Carried(x)
    <3>1. PICK u \in Thread : CarriedBy(u, x)
      BY <2>2 DEF Carried
    <3>2. CarriedBy(u, x)'
      BY <1>22, <2>1, <3>1 DEF ReleaseDead, CarriedBy, TypeOK, threadVars
    <3>3. QED
      BY <3>2 DEF Carried
  <2>3. CASE InMap(x) \/ Received(x)
    BY <1>22, <2>3 DEF ReleaseDead, callVars, InMap, Received
  <2>4. QED
    BY <2>2, <2>3 DEF NoneLost
<1>23. CASE UNCHANGED vars
  BY <1>23 DEF NoneLost, Registered, InMap, Carried, CarriedBy, Received, vars, callVars,
     threadVars
<1> HIDE DEF IInv
<1>24. QED
  BY <1>1, <1>2, <1>3, <1>4, <1>5, <1>6, <1>7, <1>8, <1>9, <1>10, <1>11, <1>12, <1>13, <1>14,
     <1>15, <1>16, <1>17, <1>18, <1>19, <1>20, <1>21, <1>22, <1>23
  DEF Next, Continue, Begin

\* An answer travels under the id of the call it is for, after its context.
LEMMA AnswersStep == IInv /\ [Next]_vars => AnswersOK'
<1> SUFFICES ASSUME IInv, [Next]_vars PROVE AnswersOK'
  OBVIOUS
<1> USE DEF IInv, TypeOK, ThreadsOK, PlacesOK, AnswersOK, Task, Answer, Registered, CarriedBy
<1>1. ASSUME NEW t \in Thread, NEW c \in Call, NEW k \in {1, 2}, Prepare(t, c, k)
      PROVE AnswersOK'
  BY <1>1 DEF Prepare, NextSerial, threadVars
<1>2. ASSUME NEW t \in Thread, NEW c \in Call, StartAsync(t, c) PROVE AnswersOK'
  BY <1>2 DEF StartAsync, Enter, Emplace, Idle, Settled
<1>3. ASSUME NEW t \in Thread, NEW c \in Call, StartSync(t, c) PROVE AnswersOK'
  BY <1>3 DEF StartSync, Enter, Emplace, Idle, Settled
<1>4. ASSUME NEW t \in Thread, NEW c \in Call, NEW d \in Call,
            NEW form \in {"async", "sync"}, Retry(t, c, d, form) PROVE AnswersOK'
  BY <1>4 DEF Retry, Enter, Emplace, Idle, Settled
<1>5. ASSUME NEW t \in Thread, Transmit(t) PROVE AnswersOK'
  BY <1>5 DEF Transmit, callVars, threadVars
<1>6. ASSUME NEW t \in Thread, AsyncSent(t) PROVE AnswersOK'
  BY <1>6 DEF AsyncSent, callVars
<1>7. ASSUME NEW t \in Thread, SyncSent(t) PROVE AnswersOK'
  BY <1>7 DEF SyncSent, Await, Received
<1>8. ASSUME NEW t \in Thread, SendThrows(t) PROVE AnswersOK'
  BY <1>8 DEF SendThrows
<1>9. ASSUME NEW t \in Thread, Wake(t) PROVE AnswersOK'
  BY <1>9 DEF Wake, Await, Received
<1>10. ASSUME NEW t \in Thread, SpuriousWake(t) PROVE AnswersOK'
  BY <1>10 DEF SpuriousWake, callVars
<1>11. ASSUME NEW t \in Thread, NEW c \in Call, Receive(t, c) PROVE AnswersOK'
  BY <1>11 DEF Receive, MergeContext, callVars, threadVars, CanProcess, Settled, Response
<1>12. ASSUME NEW t \in Thread, Find(t) PROVE AnswersOK'
  BY <1>12 DEF Find, Take, Erase, callVars, threadVars
<1>13. ASSUME NEW t \in Thread, Unexpected(t) PROVE AnswersOK'
  BY <1>13 DEF Unexpected, NoTask, Empty, callVars, threadVars
<1>14. ASSUME NEW t \in Thread, NEW i \in Id, Cancel(t, i) PROVE AnswersOK'
  BY <1>14 DEF Cancel, Take, Erase, Cancelled, callVars, threadVars, CanProcess, Settled
<1>15. ASSUME NEW t \in Thread, CancelAll(t) PROVE AnswersOK'
  BY <1>15 DEF CancelAll, callVars
<1>16. ASSUME NEW t \in Thread, NEW i \in Id, CancelNext(t, i) PROVE AnswersOK'
  <2>1. CASE callMap[i] = NoCall
    BY <1>16, <2>1 DEF CancelNext, Take, Erase, Cancelled, callVars, Remaining
  <2>2. CASE callMap[i] # NoCall
    <3>1. task[t].step = "none" /\ task[t].call = NoCall /\ i \in Id
      BY <1>16 DEF CancelNext
    <3>2. /\ callMap' = [callMap EXCEPT ![i] = NoCall]
          /\ task' = [task EXCEPT ![t] = [step |-> "taken", id |-> i, call |-> callMap[i],
                                         res |-> [kind |-> "cancelled", of |-> 0]]]
      BY <1>16, <2>2 DEF CancelNext, Take, Erase, Cancelled
    <3>3. UNCHANGED <<idCounter, serial, phase, stored, fired, lock, pc, cur, out, sent, context, wild>>
      BY <1>16 DEF CancelNext, callVars
    <3>4. QED
      BY <2>2, <3>1, <3>2, <3>3
  <2>3. QED
    BY <2>1, <2>2
<1>17. ASSUME NEW t \in Thread, NEW ids \in SUBSET Id, Filter(t, ids) PROVE AnswersOK'
  BY <1>17 DEF Filter, Keep, Keys, callVars, CanProcess, Settled
<1>18. ASSUME NEW t \in Thread, NEW c \in Call, NEW answered \in BOOLEAN, DropNext(t, c, answered)
       PROVE AnswersOK'
  BY <1>18 DEF DropNext, Cancelled, callVars
<1>19. ASSUME NEW t \in Thread, OnResponse(t) PROVE AnswersOK'
  <2>1. task[t].call \in Call /\ task[t].res \in Answer /\ task[t].step \in {"taken", "given"}
    BY <1>19 DEF OnResponse
  <2>2. CarriedBy(t, task[t].call)
    BY <2>1
  <2>3. \A u \in Thread : /\ task'[u].call = task[u].call
                          /\ task'[u].res = task[u].res /\ task'[u].id = task[u].id
    BY <1>19 DEF OnResponse
  <2>4. UNCHANGED <<serial, phase, context>>
    BY <1>19 DEF OnResponse
  <2>5. \A c \in Call : stored'[c] = stored[c] \/ (c = task[t].call /\ stored'[c] = task[t].res)
    BY <1>19 DEF OnResponse
  <2>6. \A c \in Call : stored'[c].kind = "response" =>
          Registered(c) /\ IdOf(stored'[c].of) = IdOf(serial[c]) /\ stored'[c].of \in context
    <3>1. ASSUME NEW c \in Call, stored'[c].kind = "response", stored'[c] = stored[c]
          PROVE  Registered(c) /\ IdOf(stored'[c].of) = IdOf(serial[c]) /\ stored'[c].of \in context
      BY <3>1
    <3>2. ASSUME NEW c \in Call, stored'[c].kind = "response", c = task[t].call, stored'[c] = task[t].res
          PROVE  Registered(c) /\ IdOf(stored'[c].of) = IdOf(serial[c]) /\ stored'[c].of \in context
      <4>1. IdOf(task[t].res.of) = task[t].id /\ task[t].res.of \in context
        BY <3>2
      <4>2. task[t].id = IdOf(serial[c])
        BY <2>1, <3>2
      <4>3. Registered(c)
        BY <2>2, <3>2
      <4>4. QED
        BY <3>2, <4>1, <4>2, <4>3
    <3>3. QED
      BY <2>5, <3>1, <3>2
  <2>7. QED
    BY <2>3, <2>4, <2>6
<1>20. ASSUME NEW t \in Thread, RunCallback(t) PROVE AnswersOK'
  BY <1>20 DEF RunCallback, NoTask, Empty, threadVars
<1>21. ASSUME NEW t \in Thread, Release(t) PROVE AnswersOK'
  BY <1>21 DEF Release, NoTask, Empty, Notified
<1>22. ASSUME NEW t \in Thread, ReleaseDead(t) PROVE AnswersOK'
  BY <1>22 DEF ReleaseDead, NoTask, Empty, Dead, callVars, threadVars
<1>23. CASE UNCHANGED vars
  BY <1>23 DEF vars, callVars, threadVars
<1> HIDE DEF IInv, TypeOK, ThreadsOK, PlacesOK, AnswersOK, Task, Answer, Registered, CarriedBy
<1>24. QED
  BY <1>1, <1>2, <1>3, <1>4, <1>5, <1>6, <1>7, <1>8, <1>9, <1>10, <1>11, <1>12, <1>13, <1>14,
     <1>15, <1>16, <1>17, <1>18, <1>19, <1>20, <1>21, <1>22, <1>23
  DEF Next, Continue, Begin

\* A frame that returned is out of reach: its object was answered, so it is neither
\* in the map nor carried; only an unwound frame can still be.
LEMMA ReturnStep == IInv /\ [Next]_vars => NoUseAfterReturn'
<1> SUFFICES ASSUME IInv, [Next]_vars PROVE NoUseAfterReturn'
  OBVIOUS
<1> USE DEF IInv, TypeOK, ThreadsOK, PlacesOK, NoUseAfterReturn, Task, Registered, CarriedBy
<1>1. ASSUME NEW t \in Thread, NEW c \in Call, NEW k \in {1, 2}, Prepare(t, c, k)
      PROVE NoUseAfterReturn'
  BY <1>1 DEF Prepare, NextSerial, threadVars
<1>2. ASSUME NEW t \in Thread, NEW c \in Call, StartAsync(t, c) PROVE NoUseAfterReturn'
  BY <1>2 DEF StartAsync, Enter, Emplace, Idle, Settled
<1>3. ASSUME NEW t \in Thread, NEW c \in Call, StartSync(t, c) PROVE NoUseAfterReturn'
  BY <1>3 DEF StartSync, Enter, Emplace, Idle, Settled
<1>4. ASSUME NEW t \in Thread, NEW c \in Call, NEW d \in Call,
            NEW form \in {"async", "sync"}, Retry(t, c, d, form)
      PROVE NoUseAfterReturn'
  BY <1>4 DEF Retry, Enter, Emplace, Idle, Settled
<1>5. ASSUME NEW t \in Thread, Transmit(t) PROVE NoUseAfterReturn'
  BY <1>5 DEF Transmit, callVars, threadVars
<1>6. ASSUME NEW t \in Thread, AsyncSent(t) PROVE NoUseAfterReturn'
  BY <1>6 DEF AsyncSent, callVars
<1>7. ASSUME NEW t \in Thread, SyncSent(t) PROVE NoUseAfterReturn'
  BY <1>7 DEF SyncSent, Await, Received
<1>8. ASSUME NEW t \in Thread, SendThrows(t) PROVE NoUseAfterReturn'
  BY <1>8 DEF SendThrows
<1>9. ASSUME NEW t \in Thread, Wake(t) PROVE NoUseAfterReturn'
  <2>1. wild' = wild /\ cur[t] \in Call /\ phase[cur[t]] # "unwound"
    BY <1>9 DEF Wake, Await
  <2>2. phase' = phase \/ phase' = [phase EXCEPT ![cur[t]] = "returned"]
    BY <1>9 DEF Wake, Await
  <2>3. \A c \in Call : phase[c] = "unwound" => phase'[c] = "unwound"
    BY <2>1, <2>2
  <2>4. QED
    BY <2>1, <2>3, Zenon
<1>10. ASSUME NEW t \in Thread, SpuriousWake(t) PROVE NoUseAfterReturn'
  BY <1>10 DEF SpuriousWake, callVars
<1>11. ASSUME NEW t \in Thread, NEW c \in Call, Receive(t, c) PROVE NoUseAfterReturn'
  BY <1>11 DEF Receive, MergeContext, callVars, threadVars, CanProcess, Settled, Response
<1>12. ASSUME NEW t \in Thread, Find(t) PROVE NoUseAfterReturn'
  BY <1>12 DEF Find, Take, Erase, callVars, threadVars
<1>13. ASSUME NEW t \in Thread, Unexpected(t) PROVE NoUseAfterReturn'
  BY <1>13 DEF Unexpected, NoTask, Empty, callVars, threadVars
<1>14. ASSUME NEW t \in Thread, NEW i \in Id, Cancel(t, i) PROVE NoUseAfterReturn'
  BY <1>14 DEF Cancel, Take, Erase, Cancelled, callVars, threadVars, CanProcess, Settled
<1>15. ASSUME NEW t \in Thread, CancelAll(t) PROVE NoUseAfterReturn'
  BY <1>15 DEF CancelAll, callVars
<1>16. ASSUME NEW t \in Thread, NEW i \in Id, CancelNext(t, i) PROVE NoUseAfterReturn'
  BY <1>16 DEF CancelNext, Take, Erase, Cancelled, callVars, Remaining
<1>17. ASSUME NEW t \in Thread, NEW ids \in SUBSET Id, Filter(t, ids) PROVE NoUseAfterReturn'
  BY <1>17 DEF Filter, Keep, Keys, callVars, CanProcess, Settled
<1>18. ASSUME NEW t \in Thread, NEW c \in Call, NEW answered \in BOOLEAN, DropNext(t, c, answered)
       PROVE NoUseAfterReturn'
  BY <1>18 DEF DropNext, Cancelled, callVars
<1>19. ASSUME NEW t \in Thread, OnResponse(t) PROVE NoUseAfterReturn'
  <2>1. task[t].call \in Call /\ CarriedBy(t, task[t].call)
    BY <1>19 DEF OnResponse
  <2>2. Dead(task[t].call) => phase[task[t].call] = "unwound"
    BY <2>1 DEF Dead
  <2>3. QED
    BY <1>19, <2>1, <2>2 DEF OnResponse
<1>20. ASSUME NEW t \in Thread, RunCallback(t) PROVE NoUseAfterReturn'
  BY <1>20 DEF RunCallback, NoTask, Empty, threadVars
<1>21. ASSUME NEW t \in Thread, Release(t) PROVE NoUseAfterReturn'
  BY <1>21 DEF Release, NoTask, Empty, Notified
<1>22. ASSUME NEW t \in Thread, ReleaseDead(t) PROVE NoUseAfterReturn'
  BY <1>22 DEF ReleaseDead, NoTask, Empty, Dead, callVars, threadVars
<1>23. CASE UNCHANGED vars
  BY <1>23 DEF vars, callVars, threadVars
<1> HIDE DEF IInv, TypeOK, ThreadsOK, PlacesOK, NoUseAfterReturn, Task, Registered, CarriedBy
<1>24. QED
  BY <1>1, <1>2, <1>3, <1>4, <1>5, <1>6, <1>7, <1>8, <1>9, <1>10, <1>11, <1>12, <1>13, <1>14,
     <1>15, <1>16, <1>17, <1>18, <1>19, <1>20, <1>21, <1>22, <1>23
  DEF Next, Continue, Begin

-----------------------------------------------------------------------------
(* Safety *)

\* IInv holds in every reachable state.
THEOREM Inductive == Spec => []IInv
<1>1. Init => IInv
  BY InitIInv
<1>2. IInv /\ [Next]_vars => IInv'
  BY TypeStep, ThreadsStep, PlacesStep, NoneLostStep, AnswersStep, ReturnStep DEF IInv
<1>3. QED
  BY <1>1, <1>2, PTL DEF Spec

\* Every variable keeps its type.
THEOREM TypeCorrect == Spec => []TypeOK
<1>1. IInv => TypeOK
  BY DEF IInv
<1>2. QED
  BY <1>1, Inductive, PTL

\* However threads interleave add, cancel, cancel-all, filter and response
\* processing, a registered pending-call object is in exactly one place.
THEOREM OnePlaceAlways == Spec => []OnePlace
<1>1. ASSUME IInv PROVE OnePlace
  <2> USE <1>1
  <2> SUFFICES ASSUME NEW c \in Call
               PROVE  /\ Registered(c) /\ phase[c] # "unwound" => InMap(c) \/ Carried(c) \/ Received(c)
                      /\ InMap(c) => ~Carried(c) /\ ~Received(c)
                      /\ Carried(c) => ~Received(c)
                      /\ \A t, u \in Thread : CarriedBy(t, c) /\ CarriedBy(u, c) => t = u
                      /\ \A i, j \in Id : callMap[i] = c /\ callMap[j] = c => i = j
    BY DEF OnePlace
  <2>1. Registered(c) /\ phase[c] # "unwound" => InMap(c) \/ Carried(c) \/ Received(c)
    BY DEF IInv, NoneLost
  <2>2. InMap(c) => ~Carried(c) /\ ~Received(c)
    BY DEF IInv, PlacesOK, InMap, Carried, Received
  <2>3. Carried(c) => ~Received(c)
    BY DEF IInv, PlacesOK, Carried, Received
  <2>4. \A t, u \in Thread : CarriedBy(t, c) /\ CarriedBy(u, c) => t = u
    BY DEF IInv, PlacesOK
  <2>5. \A i, j \in Id : callMap[i] = c /\ callMap[j] = c => i = j
    BY DEF IInv, PlacesOK
  <2>6. QED
    BY <2>1, <2>2, <2>3, <2>4, <2>5
<1>2. QED
  BY <1>1, Inductive, PTL

\* A call is only ever given the response to its own request, unless the id counter
\* went through a full turn in between.
THEOREM NeverMisdelivered == Spec => []NoMisdelivery
<1>1. ASSUME IInv PROVE NoMisdelivery
  <2> SUFFICES ASSUME NEW c \in Call, stored[c].kind = "response",
                      stored[c].of # serial[c]
               PROVE  stored[c].of - serial[c] >= IdSpace \/ serial[c] - stored[c].of >= IdSpace
    BY DEF NoMisdelivery
  <2>1. IdOf(stored[c].of) = IdOf(serial[c])
    BY <1>1 DEF IInv, AnswersOK
  <2>2. stored[c].of \in Nat /\ serial[c] \in Nat
    BY <1>1 DEF IInv, TypeOK, Answer
  <2>3. stored[c].of < serial[c] \/ serial[c] < stored[c].of
    BY <2>2
  <2>4. QED
    BY <2>1, <2>2, <2>3, SameId
<1>2. QED
  BY <1>1, Inductive, PTL

\* The stack object of a synchronous call is not touched after the call returned,
\* as long as no sendRequest threw.
THEOREM ReturnedIsSafe == Spec => []NoUseAfterReturn
<1>1. IInv => NoUseAfterReturn
  BY DEF IInv
<1>2. QED
  BY <1>1, Inductive, PTL

\* A caller that sees a response also sees the context change that came with it.
THEOREM ContextComesFirst == Spec => []ContextFirst
<1>1. IInv => ContextFirst
  BY DEF IInv, AnswersOK, ContextFirst
<1>2. QED
  BY <1>1, Inductive, PTL

-----------------------------------------------------------------------------
(* Refinement *)

\* A step that changes neither who was answered nor what with is invisible.
LEMMA Stutter ==
  ASSUME \A x \in Call : /\ Registered(x)' = Registered(x)
                         /\ Received(x)' = Received(x)
                         /\ Received(x) => stored'[x] = stored[x]
  PROVE  UNCHANGED PC!pvars
  BY Zenon DEF PC!pvars, Status, Answered

\* Destroying an object in a thread's hands is the abstract Resolve.
LEMMA ResolveMaps ==
  ASSUME IInv, NEW c \in Call, Registered(c), ~Received(c), Received(c)',
         UNCHANGED <<phase, stored>>,
         \A x \in Call : x # c => Received(x)' = Received(x)
  PROVE  PC!Resolve(c, stored[c])
<1>1. Status[c] = "pending"
  BY DEF Status
<1>2. \A x \in Call : Registered(x)' = Registered(x)
  BY DEF Registered
<1>3. Status' = [Status EXCEPT ![c] = "resolved"]
  BY <1>2, Zenon DEF Status
<1>4. Answered' = [Answered EXCEPT ![c] = stored[c]]
  BY Zenon DEF Answered
<1>5. QED
  BY <1>1, <1>3, <1>4 DEF PC!Resolve

\* Registering an object is Place, or Refuse when the id is taken.
LEMMA EnterMaps ==
  ASSUME IInv, NEW t \in Thread, NEW c \in Call, NEW i \in Id, Enter(t, c, i),
         ~Registered(c), Registered(c)',
         \A x \in Call : x # c => Registered(x)' = Registered(x)
  PROVE  PC!PNext
<1>1. ~Received(c)
  BY DEF IInv, PlacesOK, Received
<1>2. \A x \in Call : x # c => Received(x)' = Received(x)
  BY DEF Enter, Received, IInv, TypeOK
<1>3. stored' = stored
  BY DEF Enter
<1>4. Status[c] = "idle"
  BY <1>1 DEF Status
<1>5. CASE Received(c)'
  <2>1. Status' = [Status EXCEPT ![c] = "resolved"]
    BY <1>2, <1>5, Zenon DEF Status
  <2>2. Answered' = [Answered EXCEPT ![c] = stored[c]]
    BY <1>2, <1>3, <1>5, Zenon DEF Answered
  <2>3. stored[c] \in Answer
    BY DEF IInv, TypeOK
  <2>4. PC!Refuse(c, stored[c])
    BY <1>4, <2>1, <2>2 DEF PC!Refuse
  <2>5. QED
    BY <2>3, <2>4 DEF PC!PNext
<1>6. CASE ~Received(c)'
  <2>1. Status' = [Status EXCEPT ![c] = "pending"]
    BY <1>2, <1>6, Zenon DEF Status
  <2>2. Answered' = Answered
    BY <1>1, <1>2, <1>3, <1>6, Zenon DEF Answered
  <2>3. PC!Place(c)
    BY <1>4, <2>1, <2>2 DEF PC!Place
  <2>4. QED
    BY <2>3 DEF PC!PNext
<1>7. QED
  BY <1>5, <1>6

\* Every step of the client is a step of PendingCalls or invisible to it.
LEMMA StepMaps == IInv /\ [Next]_vars => [PC!PNext]_(PC!pvars)
<1> SUFFICES ASSUME IInv, [Next]_vars PROVE [PC!PNext]_(PC!pvars)
  OBVIOUS
<1>1. ASSUME NEW t \in Thread, NEW c \in Call, StartAsync(t, c) \/ StartSync(t, c)
      PROVE  PC!PNext
  <2>1. ~Registered(c) /\ Registered(c)' /\ \A x \in Call : x # c => Registered(x)' = Registered(x)
    BY <1>1 DEF StartAsync, StartSync, Registered, IInv, TypeOK
  <2>2. Enter(t, c, IdOf(serial[c])) /\ IdOf(serial[c]) \in Id
    BY <1>1, IdOfType DEF StartAsync, StartSync, IInv, TypeOK
  <2>3. QED
    BY <2>1, <2>2, EnterMaps
<1>2. ASSUME NEW t \in Thread, NEW c \in Call, NEW d \in Call,
            NEW form \in {"async", "sync"}, Retry(t, c, d, form)
      PROVE  PC!PNext
  <2>1. ~Registered(d) /\ Registered(d)' /\ \A x \in Call : x # d => Registered(x)' = Registered(x)
    BY <1>2 DEF Retry, Registered, IInv, TypeOK
  <2>2. Enter(t, d, IdOf(serial[c])) /\ IdOf(serial[c]) \in Id
    BY <1>2, IdOfType DEF Retry, IInv, TypeOK
  <2>3. QED
    BY <2>1, <2>2, EnterMaps
<1>3. ASSUME NEW t \in Thread, RunCallback(t) \/ Release(t)
      PROVE  PC!PNext
  <2>1. PICK c \in Call : c = task[t].call
    BY <1>3 DEF RunCallback, Release, IInv, TypeOK, ThreadsOK, Task
  <2>2. Registered(c) /\ ~Received(c)
    BY <2>1 DEF IInv, PlacesOK, CarriedBy, Received
  <2>3. fired' = [fired EXCEPT ![c] = @ + 1] /\ UNCHANGED <<phase, stored>>
    BY <1>3, <2>1 DEF RunCallback, Release
  <2>4. Received(c)' /\ \A x \in Call : x # c => Received(x)' = Received(x)
    BY <2>1, <2>3 DEF Received, IInv, TypeOK
  <2>5. PC!Resolve(c, stored[c])
    BY <2>1, <2>2, <2>3, <2>4, ResolveMaps
  <2>6. stored[c] \in Answer
    BY <2>1 DEF IInv, TypeOK
  <2>7. QED
    BY <2>1, <2>5, <2>6 DEF PC!PNext
<1>4. ASSUME NEW t \in Thread, OnResponse(t)
      PROVE  UNCHANGED PC!pvars
  <2>1. task[t].call \in Call /\ ~Received(task[t].call)
    BY <1>4 DEF OnResponse, IInv, TypeOK, ThreadsOK, PlacesOK, CarriedBy, Received, Task
  <2>2. UNCHANGED <<phase, fired>> /\ \A x \in Call : x # task[t].call => stored'[x] = stored[x]
    BY <1>4, <2>1 DEF OnResponse, IInv, TypeOK
  <2>3. QED
    BY <2>1, <2>2, Stutter DEF Registered, Received
<1>5. ASSUME UNCHANGED <<fired, stored>>, \A x \in Call : Registered(x)' = Registered(x)
      PROVE  UNCHANGED PC!pvars
  BY <1>5, Stutter DEF Received
<1>6. ASSUME NEW t \in Thread, NEW c \in Call, NEW k \in {1, 2}, Prepare(t, c, k)
      PROVE  UNCHANGED PC!pvars
  BY <1>6, <1>5 DEF Prepare, Registered, IInv, TypeOK
<1>7. ASSUME NEW t \in Thread, SendThrows(t) \/ SyncSent(t) \/ Wake(t)
      PROVE  UNCHANGED PC!pvars
  <2>1. cur[t] \in Call /\ Registered(cur[t])
    BY <1>7 DEF SendThrows, SyncSent, Wake, Registered, IInv, ThreadsOK
  <2>2. UNCHANGED <<fired, stored>> /\ \A x \in Call : Registered(x)' = Registered(x)
    BY <1>7, <2>1 DEF SendThrows, SyncSent, Wake, Await, Registered, IInv, TypeOK
  <2>3. QED
    BY <2>2, <1>5
<1>8. ASSUME UNCHANGED <<phase, fired, stored>>
      PROVE  UNCHANGED PC!pvars
  BY <1>8, <1>5 DEF Registered
<1>9. ASSUME NEW t \in Thread,
             \/ Transmit(t) \/ AsyncSent(t) \/ SpuriousWake(t) \/ Find(t) \/ Unexpected(t)
             \/ CancelAll(t) \/ ReleaseDead(t)
      PROVE  UNCHANGED PC!pvars
  BY <1>9, <1>8
  DEF Transmit, AsyncSent, SpuriousWake, Find, Unexpected, CancelAll, ReleaseDead, callVars
<1>10. ASSUME NEW t \in Thread, NEW c \in Call, Receive(t, c)
       PROVE  UNCHANGED PC!pvars
  BY <1>10, <1>8 DEF Receive, callVars
<1>11. ASSUME NEW t \in Thread, NEW i \in Id, Cancel(t, i) \/ CancelNext(t, i)
       PROVE  UNCHANGED PC!pvars
  BY <1>11, <1>8 DEF Cancel, CancelNext, callVars
<1>12. ASSUME NEW t \in Thread, NEW ids \in SUBSET Id, Filter(t, ids)
       PROVE  UNCHANGED PC!pvars
  BY <1>12, <1>8 DEF Filter, callVars
<1>13. ASSUME NEW t \in Thread, NEW c \in Call, NEW answered \in BOOLEAN, DropNext(t, c, answered)
       PROVE  UNCHANGED PC!pvars
  BY <1>13, <1>8 DEF DropNext, callVars
<1>14. CASE UNCHANGED vars
  BY <1>14, <1>8 DEF vars, callVars
<1>15. QED
  BY <1>1, <1>2, <1>3, <1>4, <1>6, <1>7, <1>9, <1>10, <1>11, <1>12, <1>13, <1>14
  DEF Next, Continue, Begin

\* The client implements PendingCalls: a call is answered at most once, after it was
\* placed, and the answer it got never changes.
THEOREM Refinement == Spec => Implements
<1>1. Init => PC!PInit
  <2> SUFFICES ASSUME Init PROVE PC!PInit
    OBVIOUS
  <2>1. \A c \in Call : ~Registered(c) /\ ~Received(c)
    BY DEF Init, Registered, Received
  <2>2. Status = [c \in Call |-> "idle"] /\ Answered = [c \in Call |-> NoAnswer]
    BY <2>1 DEF Status, Answered
  <2>3. QED
    BY <2>2 DEF PC!PInit
<1>2. IInv /\ [Next]_vars => [PC!PNext]_(PC!pvars)
  BY StepMaps
<1>3. QED
  BY <1>1, <1>2, Inductive, PTL DEF Implements, Spec, PC!PSpec

=============================================================================
