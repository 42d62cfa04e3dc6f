------------------------- MODULE RpcMulticallProofs -------------------------
(***************************************************************************)
(* Proofs about Server.multicall, for any number of threads and calls.     *)
(*                                                                         *)
(* The two increments of mtfork are a rendezvous: the invariant says of    *)
(* each frame on each stack what is counted while it is there.  There is   *)
(* one run() on one stack (OneRun), one callback for a call (OneCallback), *)
(* mtfork counts the callback of the call that is being executed (Bodies), *)
(* and whoever looks for the next call finds every earlier one counted     *)
(* (Past).                                                                 *)
(***************************************************************************)
EXTENDS RpcMulticall, Integers, SetInduction, TLAPS

\* What a frame is: the body of run() for a call, run() as a whole, and the callback
\* of a sub-request (onResult or onError, and the setResult around it).
Body == {"exec", "close", "fork"}
Run == Body \cup {"next", "finish"}
Callback == {"push", "join", "post"}

\* Frames are numbered from the bottom of a stack, so that entering and leaving a
\* function does not move the ones below it.
D == [t \in Thread |-> Len(stack[t])]
Flip(s) == [d \in 1 .. Len(s) |-> s[Len(s) + 1 - d]]
F == [t \in Thread |-> Flip(stack[t])]

\* The callback of call i has counted itself.
Joined(i) ==
  sent[i] \/ \E t \in Thread : \E d \in 1 .. D[t] : F[t][d].at = "post" /\ F[t][d].call = i

\* run() is executed by one frame of one thread.
OneRun ==
  \A t, u \in Thread : \A d \in 1 .. D[t], e \in 1 .. D[u] :
    F[t][d].at \in Run /\ F[u][e].at \in Run => t = u /\ d = e

\* Above run() is at most the callback it called, below it the ends of callbacks.
OverPosts ==
  \A t \in Thread : \A d \in 1 .. D[t] :
    F[t][d].at \in Run => D[t] <= d + 1 /\ \A e \in 1 .. d - 1 : F[t][e].at = "post"

\* run() is at the call before pos, and mtfork counts its callback.
BodyOK(f) ==
  /\ f.call \in Calls /\ f.call = pos - 1 /\ list[f.call] = "call"
  /\ f.at # "fork" => local[f.call]
  /\ mtfork = IF Joined(f.call) THEN 1 ELSE 0

Bodies == \A t \in Thread : \A d \in 1 .. D[t] : F[t][d].at \in Body => BodyOK(F[t][d])

\* A callback that has not sent its response belongs to a call that is open; until it
\* counted itself that is the call run() is at.  At the bottom of a stack its thread has
\* the request, or nobody has; higher up it was called by run().
CallbackOK(t, d) ==
  LET i == F[t][d].call
  IN /\ i \in Calls /\ i < pos /\ list[i] = "call" /\ ~sent[i]
     /\ F[t][d].at # "post" => d = D[t] /\ i = pos - 1
     /\ d = 1 => copies[i] = {t} \/ (copies[i] = {} /\ ~local[i])
     /\ d > 1 => /\ d = D[t] /\ copies[i] = {}
                 /\ F[t][d - 1].at \in Body /\ F[t][d - 1].call = i

Callbacks == \A t \in Thread : \A d \in 1 .. D[t] : F[t][d].at \in Callback => CallbackOK(t, d)

\* A call has one callback.
OneCallback ==
  \A t, u \in Thread : \A d \in 1 .. D[t], e \in 1 .. D[u] :
    /\ F[t][d].at \in Callback /\ F[u][e].at \in Callback
    /\ F[t][d].call = F[u][e].call
    => t = u /\ d = e

\* One thread at most has a copy, and only requests that were handed over are copied.
Copies ==
  \A i \in Calls :
    /\ \A t, u \in copies[i] : t = u
    /\ copies[i] # {} => i \in handed
    /\ i \in handed \/ sent[i] => i < pos /\ list[i] = "call"

\* Some frame is there, and some frame of call i.
Runs(where) == \E t \in Thread : \E d \in 1 .. D[t] : F[t][d].at = where
Has(where, i) == \E t \in Thread : \E d \in 1 .. D[t] : F[t][d].at = where /\ F[t][d].call = i

\* All calls but the last one have been counted, and the last one too once run() looks
\* for the next call or ends.
Past ==
  /\ \A i \in Calls : i < pos - 1 /\ list[i] = "call" => Joined(i)
  /\ deleted \/ Runs("next") \/ Runs("finish") =>
       \A i \in Calls : i < pos /\ list[i] = "call" => Joined(i)

\* mtfork is 2 only on the way to the next call.
Forked == mtfork = 2 => Runs("next")

\* After the context was deleted nobody executes run().
Gone == deleted => \A t \in Thread : \A d \in 1 .. D[t] : F[t][d].at \notin Run

\* The inductive invariant.
MInv ==
  /\ TypeOK /\ ~wild /\ OneRun /\ OverPosts /\ Bodies /\ Callbacks /\ OneCallback
  /\ Copies /\ Past /\ Forked /\ Gone

\* The result of call i is in the list.
Pushed(i) == sent[i] \/ Has("post", i) \/ Has("join", i)
Ended == deleted \/ Runs("finish")

\* What the list of results holds: the calls before pos in their order, the last one as
\* soon as its callback pushed it; and the reply is sent when the context is deleted.
Listed ==
  /\ \A n \in 1 .. Len(results) : results[n].call = n
  /\ ~Ended => /\ \A i \in 1 .. pos - 1 : list[i] = "call"
               /\ Len(results) = IF pos = 1 THEN 0 ELSE IF Pushed(pos - 1) THEN pos - 1 ELSE pos - 2
  /\ Ended => Len(results) = Served
  /\ replies = IF deleted THEN 1 ELSE 0

-----------------------------------------------------------------------------
(* Stacks *)

USE MulticallAssumption

Depths == D \in [Thread -> Nat]
Frames == \A t \in Thread : \A d \in 1 .. D[t] : F[t][d] \in Frame
Stacks == stack \in [Thread -> Seq(Frame)]

\* What Continue, Enter and Leave make of a stack.
Replaced(s, f) == <<f>> \o Tail(s)
Grown(s, f, g) == <<g, f>> \o Tail(s)
Shrunk(s) == Tail(s)

\* A stack counted from the bottom has the same frames.
LEMMA Flipped ==
  ASSUME NEW s \in Seq(Frame)
  PROVE  /\ \A d \in 1 .. Len(s) : Flip(s)[d] \in Frame /\ Flip(s)[d] = s[Len(s) + 1 - d]
         /\ \A m \in 1 .. Len(s) : s[m] = Flip(s)[Len(s) + 1 - m]
         /\ s # <<>> => Head(s) = Flip(s)[Len(s)] /\ Len(s) \in 1 .. Len(s)
<1>1. Len(s) \in Nat /\ \A d \in 1 .. Len(s) : Len(s) + 1 - d \in 1 .. Len(s) /\ Len(s) + 1 - (Len(s) + 1 - d) = d
  OBVIOUS
<1>2. \A d \in 1 .. Len(s) : Flip(s)[d] = s[Len(s) + 1 - d]
  BY DEF Flip
<1>3. \A d \in 1 .. Len(s) : s[d] \in Frame
  OBVIOUS
<1>4. \A m \in 1 .. Len(s) : s[m] = Flip(s)[Len(s) + 1 - m]
  BY <1>1, <1>2
<1>5. ASSUME s # <<>>
      PROVE  Head(s) = Flip(s)[Len(s)] /\ Len(s) \in 1 .. Len(s)
  <2>1. Head(s) = s[1] /\ 1 \in 1 .. Len(s) /\ Len(s) \in 1 .. Len(s) /\ Len(s) + 1 - 1 = Len(s)
    BY <1>5
  <2>2. QED
    BY <1>4, <2>1
<1>6. QED
  BY <1>1, <1>2, <1>3, <1>4, <1>5

\* Replacing the top frame leaves the frames below alone.
LEMMA FlipReplaced ==
  ASSUME NEW s \in Seq(Frame), s # <<>>, NEW f \in Frame
  PROVE  LET r == Replaced(s, f) IN
         /\ r \in Seq(Frame) /\ Len(r) = Len(s)
         /\ \A d \in 1 .. Len(s) : Flip(r)[d] = IF d = Len(s) THEN f ELSE Flip(s)[d]
<1> DEFINE r == Replaced(s, f)
<1>1. r \in Seq(Frame) /\ Len(r) = Len(s) /\ r[1] = f /\ Len(s) \in Nat
      /\ \A m \in 2 .. Len(s) : r[m] = s[m]
  BY DEF Replaced
<1> HIDE DEF r
<1>2. \A d \in 1 .. Len(s) : Flip(r)[d] = r[Len(s) + 1 - d] /\ Flip(s)[d] = s[Len(s) + 1 - d]
  BY <1>1, Flipped
<1>3. \A d \in 1 .. Len(s) : IF d = Len(s) THEN Len(s) + 1 - d = 1 ELSE Len(s) + 1 - d \in 2 .. Len(s)
  BY <1>1
<1>4. QED
  BY <1>1, <1>2, <1>3 DEF r

\* r is s with its top frame replaced and another on it.
IsGrown(r, s, f, g) ==
  /\ r \in Seq(Frame) /\ Len(r) = Len(s) + 1 /\ Flip(r)[Len(s) + 1] = g
  /\ \A d \in 1 .. Len(s) : Flip(r)[d] = IF d = Len(s) THEN f ELSE Flip(s)[d]

\* Putting a frame on top leaves the frames below alone.
LEMMA FlipGrown ==
  ASSUME NEW s \in Seq(Frame), s # <<>>, NEW f \in Frame, NEW g \in Frame, NEW r, r = Grown(s, f, g)
  PROVE  IsGrown(r, s, f, g)
<1>1. r \in Seq(Frame) /\ Len(r) = Len(s) + 1 /\ r[1] = g /\ r[2] = f /\ Len(s) \in Nat
      /\ \A m \in 3 .. Len(s) + 1 : r[m] = s[m - 1]
  BY DEF Grown
<1>2. /\ \A d \in 1 .. Len(s) + 1 : Flip(r)[d] = r[Len(s) + 2 - d]
      /\ \A d \in 1 .. Len(s) : Flip(s)[d] = s[Len(s) + 1 - d]
  <2>1. \A d \in 1 .. Len(r) : Flip(r)[d] = r[Len(r) + 1 - d]
    BY <1>1, Flipped
  <2>2. \A d \in 1 .. Len(s) + 1 : Len(r) + 1 - d = Len(s) + 2 - d
    BY <1>1
  <2>3. QED
    BY <1>1, <2>1, <2>2, Flipped
<1>3. \A d \in 1 .. Len(s) :
        \/ d = Len(s) /\ Len(s) + 2 - d = 2
        \/ d # Len(s) /\ Len(s) + 2 - d \in 3 .. Len(s) + 1 /\ Len(s) + 2 - d - 1 = Len(s) + 1 - d
  BY <1>1
<1>4. Len(s) + 1 \in 1 .. Len(s) + 1 /\ Len(s) + 2 - (Len(s) + 1) = 1
      /\ \A d \in 1 .. Len(s) : d \in 1 .. Len(s) + 1
  BY <1>1
<1>5. Flip(r)[Len(s) + 1] = g
  BY <1>1, <1>2, <1>4
<1>6. ASSUME NEW d \in 1 .. Len(s) PROVE Flip(r)[d] = IF d = Len(s) THEN f ELSE Flip(s)[d]
  <2>1. Flip(r)[d] = r[Len(s) + 2 - d] /\ Flip(s)[d] = s[Len(s) + 1 - d]
    BY <1>2, <1>4
  <2>2. CASE d = Len(s)
    BY <1>1, <1>3, <2>1, <2>2
  <2>3. CASE d # Len(s)
    <3>0. Len(s) + 2 - d \in 3 .. Len(s) + 1 /\ Len(s) + 2 - d - 1 = Len(s) + 1 - d
      BY <1>3, <2>3
    <3>1. PICK m \in 3 .. Len(s) + 1 : m = Len(s) + 2 - d /\ m - 1 = Len(s) + 1 - d
      BY <3>0
    <3>2. r[m] = s[m - 1]
      BY <1>1
    <3>3. QED
      BY <2>1, <2>3, <3>1, <3>2
  <2>4. QED
    BY <2>2, <2>3
<1>7. QED
  BY <1>1, <1>5, <1>6 DEF IsGrown

\* Taking the top frame away leaves the frames below alone.
LEMMA FlipShrunk ==
  ASSUME NEW s \in Seq(Frame), s # <<>>
  PROVE  LET r == Shrunk(s) IN
         /\ r \in Seq(Frame) /\ Len(r) = Len(s) - 1
         /\ \A d \in 1 .. Len(s) - 1 : Flip(r)[d] = Flip(s)[d]
<1> DEFINE r == Shrunk(s)
<1>1. r \in Seq(Frame) /\ Len(r) = Len(s) - 1 /\ Len(s) \in Nat
      /\ \A m \in 1 .. Len(s) - 1 : r[m] = s[m + 1]
  BY DEF Shrunk
<1> HIDE DEF r
<1>2. ASSUME NEW d \in 1 .. Len(s) - 1 PROVE Flip(r)[d] = Flip(s)[d]
  <2>1. d \in 1 .. Len(r) /\ d \in 1 .. Len(s) /\ Len(r) + 1 - d = Len(s) - d
        /\ Len(s) - d \in 1 .. Len(s) - 1 /\ Len(s) - d + 1 = Len(s) + 1 - d
    BY <1>1
  <2>2. Flip(r)[d] = r[Len(r) + 1 - d]
    BY <1>1, <2>1, Flipped
  <2>3. Flip(s)[d] = s[Len(s) + 1 - d]
    BY <2>1, Flipped
  <2>4. r[Len(s) - d] = s[Len(s) - d + 1]
    BY <1>1, <2>1
  <2>5. QED
    BY <2>1, <2>2, <2>3, <2>4
<1>3. QED
  BY <1>1, <1>2 DEF r

\* Depths and frames are typed as the stacks are, and the head is the deepest frame.
LEMMA StackTypes ==
  ASSUME Stacks
  PROVE  /\ Depths /\ Frames
         /\ \A t \in Thread : stack[t] = <<>> <=> D[t] = 0
         /\ \A t \in Thread : stack[t] # <<>> => Head(stack[t]) = F[t][D[t]] /\ D[t] \in 1 .. D[t]
         /\ \A t \in Thread : \A m \in 1 .. D[t] : stack[t][m] = F[t][D[t] + 1 - m]
<1>1. \A t \in Thread : stack[t] \in Seq(Frame) /\ Len(stack[t]) \in Nat /\ D[t] = Len(stack[t])
                         /\ F[t] = Flip(stack[t]) /\ (stack[t] = <<>> <=> Len(stack[t]) = 0)
  <2>1. \A t \in Thread : stack[t] \in Seq(Frame) /\ D[t] = Len(stack[t]) /\ F[t] = Flip(stack[t])
    BY DEF Stacks, D, F
  <2>2. \A s \in Seq(Frame) : Len(s) \in Nat /\ (s = <<>> <=> Len(s) = 0)
    OBVIOUS
  <2>3. QED
    BY <2>1, <2>2
<1>2. Depths
  BY <1>1 DEF Depths, D
<1>3. Frames
  BY <1>1, Flipped DEF Frames
<1>4. QED
  BY <1>1, <1>2, <1>3, Flipped

\* One thread's stack changes.
Changes(t, r) == stack' = [stack EXCEPT ![t] = r]

\* A step that changes the stack of thread t leaves the others alone.
LEMMA OneStack ==
  ASSUME Stacks, NEW t \in Thread, NEW r \in Seq(Frame), Changes(t, r)
  PROVE  /\ Stacks' /\ D' = [D EXCEPT ![t] = Len(r)] /\ F' = [F EXCEPT ![t] = Flip(r)]
         /\ D[t] = Len(stack[t]) /\ F[t] = Flip(stack[t]) /\ stack[t] \in Seq(Frame)
         /\ D'[t] = Len(r) /\ F'[t] = Flip(r)
         /\ \A u \in Thread : u # t => D'[u] = D[u] /\ F'[u] = F[u]
<1>1. stack'[t] = r /\ \A u \in Thread : u # t => stack'[u] = stack[u]
  BY DEF Stacks, Changes
<1>2. QED
  BY <1>1 DEF Stacks, D, F, Changes

\* Continue replaces the top frame.
LEMMA ContinueEffect ==
  ASSUME Stacks, NEW t \in Thread, stack[t] # <<>>, NEW f \in Frame, Continue(t, f)
  PROVE  /\ Stacks' /\ D' = D
         /\ \A u \in Thread : \A d \in 1 .. D[u] :
              F'[u][d] = IF u = t /\ d = D[t] THEN f ELSE F[u][d]
<1> DEFINE r == Replaced(stack[t], f)
<1>2. stack[t] \in Seq(Frame) /\ Changes(t, r)
  BY DEF Changes, Continue, Stacks, Replaced
<1>3. r \in Seq(Frame) /\ Len(r) = Len(stack[t])
      /\ \A d \in 1 .. Len(stack[t]) : Flip(r)[d] = IF d = Len(stack[t]) THEN f ELSE Flip(stack[t])[d]
  BY <1>2, FlipReplaced
<1> HIDE DEF r
<1>4. \A u \in Thread : D'[u] = D[u]
  BY <1>2, <1>3, OneStack
<1>5. D' = D
  BY <1>4 DEF D
<1>6. QED
  BY <1>2, <1>3, <1>5, OneStack

\* Enter replaces the top frame and puts one on it.
LEMMA EnterEffect ==
  ASSUME Stacks, NEW t \in Thread, stack[t] # <<>>, NEW f \in Frame, NEW g \in Frame,
         Enter(t, f, g)
  PROVE  /\ Stacks' /\ D' = [D EXCEPT ![t] = D[t] + 1]
         /\ F'[t][D[t] + 1] = g
         /\ \A u \in Thread : \A d \in 1 .. D[u] :
              F'[u][d] = IF u = t /\ d = D[t] THEN f ELSE F[u][d]
<1>1. PICK s \in Seq(Frame) : s = stack[t] /\ s # <<>>
  BY DEF Stacks
<1>r. PICK r : r = Grown(s, f, g)
  OBVIOUS
<1>2. Changes(t, r)
  BY <1>1, <1>r DEF Changes, Enter, Stacks, Grown
<1>3. r \in Seq(Frame) /\ Len(r) = Len(s) + 1 /\ Flip(r)[Len(s) + 1] = g
      /\ \A d \in 1 .. Len(s) : Flip(r)[d] = IF d = Len(s) THEN f ELSE Flip(s)[d]
  <2>1. IsGrown(r, s, f, g)
    BY <1>1, <1>r, FlipGrown
  <2>2. QED
    BY <2>1 DEF IsGrown
<1>4. /\ Stacks' /\ D' = [D EXCEPT ![t] = Len(r)] /\ D[t] = Len(s) /\ F[t] = Flip(s) /\ F'[t] = Flip(r)
      /\ \A u \in Thread : u # t => F'[u] = F[u]
  BY <1>1, <1>2, <1>3, OneStack
<1>5. QED
  BY <1>3, <1>4

\* Leave takes the top frame away.
LEMMA LeaveEffect ==
  ASSUME Stacks, NEW t \in Thread, stack[t] # <<>>, Leave(t)
  PROVE  /\ Stacks' /\ D' = [D EXCEPT ![t] = D[t] - 1]
         /\ \A u \in Thread : \A d \in 1 .. D'[u] : F'[u][d] = F[u][d]
<1>1. PICK s \in Seq(Frame) : s = stack[t] /\ s # <<>>
  BY DEF Stacks
<1> DEFINE r == Shrunk(s)
<1>2. Changes(t, r)
  BY <1>1 DEF Changes, Leave, Stacks, Shrunk
<1>3. r \in Seq(Frame) /\ Len(r) = Len(s) - 1
      /\ \A d \in 1 .. Len(s) - 1 : Flip(r)[d] = Flip(s)[d]
  BY <1>1, FlipShrunk
<1> HIDE DEF r
<1>4. /\ Stacks' /\ D' = [D EXCEPT ![t] = Len(r)] /\ D[t] = Len(s) /\ F[t] = Flip(s) /\ F'[t] = Flip(r)
      /\ D'[t] = Len(r) /\ \A u \in Thread : u # t => F'[u] = F[u]
  BY <1>1, <1>2, <1>3, OneStack
<1>5. QED
  BY <1>3, <1>4

\* A thread that is not at work starts with one frame.
LEMMA StartEffect ==
  ASSUME Stacks, NEW t \in Thread, stack[t] = <<>>, NEW g \in Frame,
         stack' = [stack EXCEPT ![t] = <<g>>]
  PROVE  /\ Stacks' /\ D[t] = 0 /\ D' = [D EXCEPT ![t] = 1] /\ F'[t][1] = g
         /\ \A u \in Thread : \A d \in 1 .. D[u] : F'[u][d] = F[u][d]
<1> DEFINE r == <<g>>
<1>1. r \in Seq(Frame) /\ Changes(t, r) /\ Len(r) = 1 /\ r[1] = g
  BY DEF Changes
<1> HIDE DEF r
<1>2. D[t] = 0
  BY StackTypes
<1>3. Flip(r)[1] = g
  BY <1>1 DEF Flip
<1>4. /\ Stacks' /\ D' = [D EXCEPT ![t] = Len(r)] /\ F'[t] = Flip(r)
      /\ \A u \in Thread : u # t => F'[u] = F[u]
  BY <1>1, OneStack
<1>5. \A u \in Thread : \A d \in 1 .. D[u] : u # t
  BY <1>2
<1>6. QED
  BY <1>1, <1>2, <1>3, <1>4, <1>5

\* The frame a step of thread t works on.
LEMMA TopOf ==
  ASSUME MInv, NEW t \in Thread, NEW where, Running(t, where)
  PROVE  /\ Stacks /\ Depths /\ Frames /\ stack[t] # <<>>
         /\ D[t] \in Nat /\ D[t] \in 1 .. D[t]
         /\ Top(t) = F[t][D[t]] /\ F[t][D[t]] \in Frame /\ F[t][D[t]].at = where
<1>1. Stacks /\ stack[t] # <<>>
  BY DEF MInv, TypeOK, Stacks, Running
<1>2. Top(t) = F[t][D[t]] /\ D[t] \in 1 .. D[t] /\ Depths /\ Frames
  BY <1>1, StackTypes DEF Top
<1>3. QED
  BY <1>1, <1>2 DEF Running, Top, Depths, Frames

\* A call with a callback at work that has not been counted.
LEMMA Uncounted ==
  ASSUME MInv, NEW t \in Thread, NEW d \in 1 .. D[t], F[t][d].at \in {"push", "join"}
  PROVE  /\ ~Joined(pos - 1) /\ ~deleted /\ ~Runs("next") /\ ~Runs("finish")
         /\ F[t][d].call = pos - 1 /\ d = D[t] /\ pos - 1 \in Calls /\ list[pos - 1] = "call"
<1>1. LET i == F[t][d].call
      IN i \in Calls /\ i < pos /\ list[i] = "call" /\ ~sent[i] /\ d = D[t] /\ i = pos - 1
  BY DEF MInv, Callbacks, CallbackOK, Callback
<1>2. ~Joined(pos - 1)
  BY <1>1 DEF MInv, OneCallback, Joined, Callback
<1>3. QED
  BY <1>1, <1>2 DEF MInv, Past

\* At gives a frame.
LEMMA AtIsFrame ==
  ASSUME NEW i \in 0 .. NCalls,
         NEW where \in {"next", "exec", "close", "fork", "finish", "push", "join", "post"}
  PROVE  At(where, i) \in Frame /\ At(where, i).at = where /\ At(where, i).call = i
  BY DEF Frame, At, Kind

\* The start of a callback is a frame.
LEMMA PushIsFrame ==
  ASSUME NEW i \in 0 .. NCalls, NEW kind \in Kind
  PROVE  \E g \in Frame : g = [at |-> "push", call |-> i, kind |-> kind] /\ g.at = "push" /\ g.call = i
<1> DEFINE g == [at |-> "push", call |-> i, kind |-> kind]
<1>1. g \in Frame /\ g.at = "push" /\ g.call = i
  BY DEF Frame
<1>2. QED
  BY <1>1

\* The parts of the invariant that only speak of the frames.
Shape == OneRun /\ OverPosts /\ OneCallback

\* A frame goes on as one of its kind.
LEMMA ContinueShape ==
  ASSUME Shape, Stacks, NEW t \in Thread, stack[t] # <<>>, NEW f \in Frame, Continue(t, f),
         f.at \in Run => F[t][D[t]].at \in Run,
         f.at \in Callback => F[t][D[t]].at \in Callback /\ f.call = F[t][D[t]].call
  PROVE  Shape'
<1>1. /\ D' = D /\ Depths
      /\ \A u \in Thread : \A e \in 1 .. D[u] :
              F'[u][e] = IF u = t /\ e = D[t] THEN f ELSE F[u][e]
  BY ContinueEffect, StackTypes
<1>2. \A u \in Thread : \A e \in 1 .. D[u] :
        /\ F'[u][e].at \in Run => F[u][e].at \in Run
        /\ F'[u][e].at \in Callback => F[u][e].at \in Callback /\ F'[u][e].call = F[u][e].call
  BY <1>1
<1>3. OneRun'
  BY <1>1, <1>2 DEF Shape, OneRun
<1>4. OneCallback'
  <2> SUFFICES ASSUME NEW u \in Thread, NEW v \in Thread, NEW d \in 1 .. D[u], NEW e \in 1 .. D[v],
                      F'[u][d].at \in Callback, F'[v][e].at \in Callback, F'[u][d].call = F'[v][e].call
               PROVE  u = v /\ d = e
    BY <1>1 DEF OneCallback
  <2>1. F[u][d].at \in Callback /\ F[v][e].at \in Callback /\ F[u][d].call = F[v][e].call
    BY <1>2
  <2>2. QED
    BY <2>1 DEF Shape, OneCallback
<1>5. OverPosts'
  <2> SUFFICES ASSUME NEW u \in Thread, NEW d \in 1 .. D[u], F'[u][d].at \in Run
               PROVE  D[u] <= d + 1 /\ \A e \in 1 .. d - 1 : F'[u][e].at = "post"
    BY <1>1 DEF OverPosts
  <2>1. D[u] <= d + 1 /\ \A e \in 1 .. d - 1 : F[u][e].at = "post"
    BY <1>2 DEF Shape, OverPosts
  <2>2. \A e \in 1 .. d - 1 : e \in 1 .. D[u] /\ e # D[u]
    BY <1>1 DEF Depths
  <2>3. QED
    BY <1>1, <2>1, <2>2
<1>6. QED
  BY <1>3, <1>4, <1>5 DEF Shape

\* The run calls a callback.
LEMMA EnterShape ==
  ASSUME Shape, Stacks, NEW t \in Thread, stack[t] # <<>>, NEW f \in Frame, NEW g \in Frame,
         Enter(t, f, g), f.at \in Run, F[t][D[t]].at \in Run, g.at \in Callback,
         \A u \in Thread : \A e \in 1 .. D[u] :
           F[u][e].at \in Callback => F[u][e].call # g.call
  PROVE  Shape'
<1>1. /\ Stacks' /\ D' = [D EXCEPT ![t] = D[t] + 1] /\ Depths
      /\ F'[t][D[t] + 1] = g
      /\ \A u \in Thread : \A e \in 1 .. D[u] :
              F'[u][e] = IF u = t /\ e = D[t] THEN f ELSE F[u][e]
  BY EnterEffect, StackTypes
<1>2. D[t] \in Nat /\ D[t] \in 1 .. D[t] /\ D'[t] = D[t] + 1 /\ \A u \in Thread : u # t => D'[u] = D[u]
  BY <1>1, StackTypes DEF Depths
<1>3. \A u \in Thread : \A e \in 1 .. D'[u] :
        \/ u = t /\ e = D[t] + 1 /\ F'[u][e] = g
        \/ u = t /\ e = D[t] /\ F'[u][e] = f
        \/ (u # t \/ e < D[t]) /\ e \in 1 .. D[u] /\ F'[u][e] = F[u][e]
  BY <1>1, <1>2
<1>4. f.at \notin Callback /\ g.at \notin Run
  BY DEF Run, Body, Callback
<1>5. \A u \in Thread : \A e \in 1 .. D'[u] : F'[u][e].at \in Run => u = t /\ e = D[t]
  <2> SUFFICES ASSUME NEW u \in Thread, NEW e \in 1 .. D'[u], F'[u][e].at \in Run,
                      u # t \/ e < D[t], e \in 1 .. D[u], F'[u][e] = F[u][e]
               PROVE  FALSE
    BY <1>3, <1>4
  <2>1. u = t /\ e = D[t]
    BY <1>2 DEF Shape, OneRun
  <2>2. QED
    BY <1>2, <2>1
<1>6. OneRun'
  BY <1>5 DEF OneRun
<1>7. OverPosts'
  <2> SUFFICES ASSUME NEW e \in 1 .. D[t] - 1
               PROVE  F'[t][e].at = "post"
    BY <1>2, <1>5 DEF OverPosts
  <2>1. F[t][e].at = "post"
    BY <1>2 DEF Shape, OverPosts
  <2>2. e \in 1 .. D[t] /\ e # D[t]
    BY <1>2
  <2>3. QED
    BY <1>1, <2>1, <2>2
<1>8. OneCallback'
  <2> SUFFICES ASSUME NEW u \in Thread, NEW v \in Thread, NEW d \in 1 .. D'[u], NEW e \in 1 .. D'[v],
                      F'[u][d].at \in Callback, F'[v][e].at \in Callback, F'[u][d].call = F'[v][e].call
               PROVE  u = v /\ d = e
    BY DEF OneCallback
  <2>1. \/ u = t /\ d = D[t] + 1 /\ F'[u][d] = g
        \/ d \in 1 .. D[u] /\ F'[u][d] = F[u][d]
    BY <1>3, <1>4
  <2>2. \/ v = t /\ e = D[t] + 1 /\ F'[v][e] = g
        \/ e \in 1 .. D[v] /\ F'[v][e] = F[v][e]
    BY <1>3, <1>4
  <2>3. CASE d \in 1 .. D[u] /\ F'[u][d] = F[u][d] /\ e \in 1 .. D[v] /\ F'[v][e] = F[v][e]
    BY <2>3 DEF Shape, OneCallback
  <2>4. QED
    BY <2>1, <2>2, <2>3
<1>9. QED
  BY <1>6, <1>7, <1>8 DEF Shape

\* A frame returns.
LEMMA LeaveShape ==
  ASSUME Shape, Stacks, NEW t \in Thread, stack[t] # <<>>, Leave(t)
  PROVE  Shape'
<1>1. /\ D' = [D EXCEPT ![t] = D[t] - 1] /\ Depths
      /\ \A u \in Thread : \A e \in 1 .. D'[u] : F'[u][e] = F[u][e]
  BY LeaveEffect, StackTypes
<1>2. D[t] \in Nat /\ D'[t] = D[t] - 1 /\ \A u \in Thread : D'[u] <= D[u] /\ D[u] \in Nat
                 /\ D'[u] \in Int
  BY <1>1, StackTypes DEF Depths
<1>3. \A u \in Thread : \A e \in 1 .. D'[u] : e \in 1 .. D[u] /\ F'[u][e] = F[u][e]
  BY <1>1, <1>2
<1>4. OneRun'
  BY <1>3 DEF Shape, OneRun
<1>5. OverPosts'
  <2> SUFFICES ASSUME NEW u \in Thread, NEW d \in 1 .. D'[u], F'[u][d].at \in Run
               PROVE  D'[u] <= d + 1 /\ \A e \in 1 .. d - 1 : F'[u][e].at = "post"
    BY DEF OverPosts
  <2>1. D[u] <= d + 1 /\ \A e \in 1 .. d - 1 : F[u][e].at = "post"
    BY <1>3 DEF Shape, OverPosts
  <2>2. \A e \in 1 .. d - 1 : e \in 1 .. D'[u]
    BY <1>2
  <2>3. QED
    BY <1>2, <1>3, <2>1, <2>2
<1>6. OneCallback'
  <2> SUFFICES ASSUME NEW u \in Thread, NEW v \in Thread, NEW d \in 1 .. D'[u], NEW e \in 1 .. D'[v],
                      F'[u][d].at \in Callback, F'[v][e].at \in Callback, F'[u][d].call = F'[v][e].call
               PROVE  u = v /\ d = e
    BY DEF OneCallback
  <2>1. d \in 1 .. D[u] /\ e \in 1 .. D[v] /\ F'[u][d] = F[u][d] /\ F'[v][e] = F[v][e]
    BY <1>3
  <2>2. QED
    BY <2>1 DEF Shape, OneCallback
<1>7. QED
  BY <1>4, <1>5, <1>6 DEF Shape

\* A thread starts a callback of a call nobody answers.
LEMMA StartShape ==
  ASSUME Shape, Stacks, NEW t \in Thread, stack[t] = <<>>, NEW g \in Frame, g.at \in Callback,
         stack' = [stack EXCEPT ![t] = <<g>>],
         \A u \in Thread : \A e \in 1 .. D[u] :
           F[u][e].at \in Callback => F[u][e].call # g.call
  PROVE  Shape'
<1>1. /\ D[t] = 0 /\ D' = [D EXCEPT ![t] = 1] /\ F'[t][1] = g /\ Depths
      /\ \A u \in Thread : \A d \in 1 .. D[u] : F'[u][d] = F[u][d]
  BY StartEffect, StackTypes
<1>2. D'[t] = 1 /\ \A u \in Thread : u # t => D'[u] = D[u]
  BY <1>1 DEF Depths
<1>3. \A u \in Thread : \A e \in 1 .. D'[u] :
        \/ u = t /\ e = 1 /\ F'[u][e] = g
        \/ u # t /\ e \in 1 .. D[u] /\ F'[u][e] = F[u][e]
  BY <1>1, <1>2
<1>4. g.at \notin Run
  BY DEF Run, Body, Callback
<1>5. OneRun'
  BY <1>3, <1>4 DEF Shape, OneRun
<1>6. OverPosts'
  <2> SUFFICES ASSUME NEW u \in Thread, NEW d \in 1 .. D'[u], F'[u][d].at \in Run
               PROVE  D'[u] <= d + 1 /\ \A e \in 1 .. d - 1 : F'[u][e].at = "post"
    BY DEF OverPosts
  <2>1. u # t /\ d \in 1 .. D[u] /\ F[u][d].at \in Run
    BY <1>3, <1>4
  <2>2. D[u] <= d + 1 /\ \A e \in 1 .. d - 1 : F[u][e].at = "post"
    BY <2>1 DEF Shape, OverPosts
  <2>3. D[u] \in Nat /\ \A e \in 1 .. d - 1 : e \in 1 .. D[u]
    BY <1>1, <2>1 DEF Depths
  <2>4. QED
    BY <1>1, <1>2, <2>1, <2>2, <2>3
<1>7. OneCallback'
  <2> SUFFICES ASSUME NEW u \in Thread, NEW v \in Thread, NEW d \in 1 .. D'[u], NEW e \in 1 .. D'[v],
                      F'[u][d].at \in Callback, F'[v][e].at \in Callback, F'[u][d].call = F'[v][e].call
               PROVE  u = v /\ d = e
    BY DEF OneCallback
  <2>1. (u = t /\ d = 1 /\ F'[u][d] = g) \/ (u # t /\ d \in 1 .. D[u] /\ F'[u][d] = F[u][d])
    BY <1>3
  <2>2. (v = t /\ e = 1 /\ F'[v][e] = g) \/ (v # t /\ e \in 1 .. D[v] /\ F'[v][e] = F[v][e])
    BY <1>3
  <2>3. CASE u # t /\ d \in 1 .. D[u] /\ F'[u][d] = F[u][d] /\ v # t /\ e \in 1 .. D[v] /\ F'[v][e] = F[v][e]
    BY <2>3 DEF Shape, OneCallback
  <2>4. QED
    BY <2>1, <2>2, <2>3
<1>8. QED
  BY <1>5, <1>6, <1>7 DEF Shape

\* Nobody answers call i.
NoCallback(i) ==
  \A u \in Thread : \A e \in 1 .. D[u] : F[u][e].at \in Callback => F[u][e].call # i

\* What most steps need of the invariant.
LEMMA Parts ==
  ASSUME MInv
  PROVE  /\ Shape /\ Stacks /\ Depths /\ Frames
         /\ \A t \in Thread : D[t] \in Nat
         /\ pos \in 1 .. NCalls + 1 /\ mtfork \in 0 .. 2 /\ ~wild
<1>1. Stacks
  BY DEF MInv, TypeOK, Stacks
<1>2. QED
  BY <1>1, StackTypes DEF MInv, TypeOK, Shape, Depths

\* The same call's request, executed and not yet out of the hands of exec.
LEMMA NotAnswering ==
  ASSUME MInv, NEW t \in Thread, D[t] \in 1 .. D[t], F[t][D[t]].at \in {"exec", "close"},
         copies[F[t][D[t]].call] = {}
  PROVE  NoCallback(F[t][D[t]].call)
<1> PICK i \in Calls : i = F[t][D[t]].call /\ local[i]
  BY DEF MInv, Bodies, BodyOK, Body
<1> SUFFICES ASSUME NEW u \in Thread, NEW e \in 1 .. D[u], F[u][e].at \in Callback, F[u][e].call = i
             PROVE  FALSE
  BY DEF NoCallback
<1>1. CallbackOK(u, e) /\ D[u] \in Nat
  BY Parts DEF MInv, Callbacks
<1>2. e # 1
  BY <1>1 DEF CallbackOK
<1>3. e > 1 /\ e - 1 \in 1 .. D[u] /\ F[u][e - 1].at \in Body
  BY <1>1, <1>2 DEF CallbackOK
<1>4. u = t /\ e - 1 = D[t]
  BY <1>3 DEF MInv, OneRun, Run, Body
<1>5. QED
  BY <1>1, <1>4

\* A thread that keeps a copy and is not at work: nobody answers the call yet.
LEMMA NotAnswered ==
  ASSUME MInv, NEW t \in Thread, stack[t] = <<>>, NEW i \in Calls, t \in copies[i], ~sent[i]
  PROVE  /\ NoCallback(i) /\ ~Joined(i) /\ i = pos - 1 /\ list[i] = "call" /\ i \in handed
         /\ copies[i] = {t} /\ D[t] = 0
<1>1. copies[i] = {t} /\ i < pos /\ list[i] = "call" /\ i \in handed /\ D[t] = 0
  BY StackTypes, Parts DEF MInv, Copies
<1>2. ASSUME NEW u \in Thread, NEW e \in 1 .. D[u], F[u][e].at \in Callback, F[u][e].call = i
      PROVE  FALSE
  <2>1. CallbackOK(u, e) /\ D[u] \in Nat
    BY <1>2, Parts DEF MInv, Callbacks
  <2>2. copies[i] # {}
    BY <1>1
  <2>3. /\ e = 1 => copies[i] = {u} \/ copies[i] = {}
        /\ e > 1 => copies[i] = {}
    BY <1>2, <2>1 DEF CallbackOK
  <2>4. copies[i] = {u}
    BY <2>1, <2>2, <2>3
  <2>5. u = t
    BY <1>1, <2>4
  <2>6. QED
    BY <1>1, <2>5
<1>3. NoCallback(i) /\ ~Joined(i)
  BY <1>2 DEF NoCallback, Joined, Callback
<1>4. i = pos - 1
  BY <1>1, <1>3, Parts DEF MInv, Past, Calls
<1>5. QED
  BY <1>1, <1>3, <1>4

\* Between two calls: what is left of the earlier ones is the ends of their callbacks.
LEMMA Between ==
  ASSUME MInv, NEW t \in Thread, Running(t, "next") \/ Running(t, "finish")
  PROVE  /\ ~deleted
         /\ \A u \in Thread : \A e \in 1 .. D[u] : F[u][e].at \in Run => u = t /\ e = D[t]
         /\ \A u \in Thread : \A e \in 1 .. D[u] : F[u][e].at \in Callback => F[u][e].at = "post" /\ e = 1
         /\ \A i \in Calls : i < pos /\ list[i] = "call" => Joined(i)
<1>1. D[t] \in 1 .. D[t] /\ F[t][D[t]].at \in {"next", "finish"}
  BY TopOf
<1>2. \A u \in Thread : \A e \in 1 .. D[u] : F[u][e].at \in Run => u = t /\ e = D[t]
  BY <1>1 DEF MInv, OneRun, Run
<1>3. ~deleted /\ (Runs("next") \/ Runs("finish"))
  BY <1>1 DEF MInv, Gone, Run, Runs
<1>4. ASSUME NEW u \in Thread, NEW e \in 1 .. D[u], F[u][e].at \in Callback
      PROVE  F[u][e].at = "post" /\ e = 1
  <2>1. F[u][e].at = "post"
    BY <1>3, <1>4, Uncounted DEF Callback
  <2>2. CallbackOK(u, e) /\ D[u] \in Nat
    BY <1>4, Parts DEF MInv, Callbacks
  <2>3. ASSUME e # 1 PROVE FALSE
    <3>1. e - 1 \in 1 .. D[u] /\ F[u][e - 1].at \in Body
      BY <2>2, <2>3 DEF CallbackOK
    <3>2. e - 1 = D[t] /\ u = t
      BY <1>2, <3>1 DEF Run
    <3>3. QED
      BY <1>1, <3>1, <3>2 DEF Body
  <2>4. QED
    BY <2>1, <2>3
<1>5. QED
  BY <1>2, <1>3, <1>4 DEF MInv, Past

\* The callback adds its result: one step of the induction, as the lemmas that follow.
LEMMA PushKeeps ==
  ASSUME MInv, NEW t \in Thread, Push(t)
  PROVE  MInv'
<1>1. /\ Stacks /\ Depths /\ Frames /\ stack[t] # <<>> /\ D[t] \in Nat /\ D[t] \in 1 .. D[t]
      /\ Top(t) = F[t][D[t]] /\ F[t][D[t]] \in Frame /\ F[t][D[t]].at = "push"
  BY TopOf DEF Push
<1>2. PICK i \in Calls : i = F[t][D[t]].call /\ i = pos - 1
  BY <1>1, Uncounted
<1>3. PICK f \in Frame : f = At("join", i) /\ f.at = "join" /\ f.call = i
  <2>1. i \in 0 .. NCalls
    BY <1>2 DEF Calls
  <2>2. QED
    BY <2>1, AtIsFrame
<1>4. /\ Stacks' /\ D' = D
      /\ \A u \in Thread : \A e \in 1 .. D[u] :
              F'[u][e] = IF u = t /\ e = D[t] THEN f ELSE F[u][e]
  BY <1>1, <1>2, <1>3, ContinueEffect DEF Push
<1>5. /\ UNCHANGED <<list, pos, mtfork, sent, local, copies, handed, replies, deleted>>
      /\ results' = results \o Entry(i, F[t][D[t]].kind) /\ wild' = (wild \/ deleted)
  BY <1>1, <1>2 DEF Push, subVars, Use
<1>6. ~Joined(i) /\ ~deleted /\ ~Runs("next") /\ ~Runs("finish")
  BY <1>1, <1>2, Uncounted
<1>7. \A j \in Int : Joined(j)' <=> Joined(j)
  BY <1>1, <1>2, <1>3, <1>4, <1>5 DEF Joined
<1>8. Entry(i, F[t][D[t]].kind) \in Seq([call : Calls, kind : Kind])
  BY <1>1 DEF Entry, Frame
<1>9. TypeOK' /\ ~wild'
  BY <1>4, <1>5, <1>6, <1>8 DEF MInv, TypeOK, Stacks
<1>10. Shape'
  <2>1. Continue(t, f) /\ f.at \notin Run /\ F[t][D[t]].at \in Callback
    BY <1>1, <1>2, <1>3 DEF Push, Run, Body, Callback
  <2>2. QED
    BY <1>1, <1>2, <1>3, <2>1, Parts, ContinueShape
<1>11. Bodies'
  <2> SUFFICES ASSUME NEW u \in Thread, NEW e \in 1 .. D[u], F'[u][e].at \in Body
               PROVE  BodyOK(F[u][e])' 
    BY <1>4 DEF Bodies
  <2>1. F'[u][e] = F[u][e]
    BY <1>3, <1>4 DEF Body
  <2>2. BodyOK(F[u][e])
    BY <2>1 DEF MInv, Bodies
  <2>3. QED
    BY <1>5, <1>7, <2>1, <2>2 DEF BodyOK, Calls
<1>12. Callbacks'
  <2> SUFFICES ASSUME NEW u \in Thread, NEW e \in 1 .. D[u], F'[u][e].at \in Callback
               PROVE  CallbackOK(u, e)'
    BY <1>4 DEF Callbacks
  <2>1. F[u][e].at \in Callback /\ F'[u][e].call = F[u][e].call /\ (F'[u][e].at # "post" => F[u][e].at # "post")
    BY <1>1, <1>2, <1>3, <1>4 DEF Callback
  <2>2. CallbackOK(u, e)
    BY <2>1 DEF MInv, Callbacks
  <2>3. ASSUME e > 1 PROVE F'[u][e - 1] = F[u][e - 1]
    BY <1>1, <1>4, <2>3 DEF Depths
  <2>4. QED
    BY <1>4, <1>5, <2>1, <2>2, <2>3 DEF CallbackOK
<1>14. Copies'
  BY <1>5 DEF MInv, Copies
<1>15. Past'
  BY <1>3, <1>4, <1>5, <1>6, <1>7 DEF MInv, Past, Runs, Calls
<1>16. Forked' /\ Gone'
  BY <1>3, <1>4, <1>5, <1>6 DEF MInv, Forked, Gone, Runs
<1>17. QED
  BY <1>9, <1>10, <1>11, <1>12, <1>14, <1>15, <1>16 DEF MInv, Shape

\* The response of the sub-request is sent; its callback ends.
LEMMA PostKeeps ==
  ASSUME MInv, NEW t \in Thread, Post(t)
  PROVE  MInv'
<1>1. /\ Stacks /\ Depths /\ Frames /\ stack[t] # <<>> /\ D[t] \in Nat /\ D[t] \in 1 .. D[t]
      /\ Top(t) = F[t][D[t]] /\ F[t][D[t]] \in Frame /\ F[t][D[t]].at = "post"
  BY TopOf DEF Post
<1>2. PICK i \in Calls : i = F[t][D[t]].call /\ i < pos /\ list[i] = "call"
  BY <1>1 DEF MInv, Callbacks, CallbackOK, Callback
<1>3. /\ Stacks' /\ D' = [D EXCEPT ![t] = D[t] - 1]
      /\ \A u \in Thread : \A e \in 1 .. D'[u] : F'[u][e] = F[u][e]
  BY <1>1, LeaveEffect DEF Post
<1>4. /\ UNCHANGED <<list, pos, mtfork, results, local, copies, handed, replies, deleted, wild>>
      /\ sent' = [sent EXCEPT ![i] = TRUE]
  BY <1>1, <1>2 DEF Post
<1>5. /\ D'[t] = D[t] - 1 /\ \A u \in Thread : u # t => D'[u] = D[u]
      /\ \A u \in Thread : D'[u] \in Nat /\ D[u] \in Nat
      /\ \A u \in Thread : \A e \in 1 .. D'[u] : e \in 1 .. D[u] /\ F'[u][e] = F[u][e] /\ (u # t \/ e < D[t])
      /\ \A u \in Thread : \A e \in 1 .. D[u] : (u = t /\ e = D[t]) \/ e \in 1 .. D'[u]
  BY <1>1, <1>3 DEF Depths
<1>6. sent' \in [Calls -> BOOLEAN] /\ \A j \in Calls : sent'[j] <=> j = i \/ sent[j]
  BY <1>4 DEF MInv, TypeOK
<1>7. TypeOK'
  BY <1>3, <1>4, <1>6 DEF MInv, TypeOK, Stacks
<1>8. Shape'
  BY <1>1, Parts, LeaveShape DEF Post
<1>9. \A j \in Calls : Joined(j)' <=> Joined(j)
  <2> TAKE j \in Calls
  <2>1. ASSUME Joined(j) PROVE Joined(j)'
    <3>1. CASE sent[j]
      BY <1>6, <3>1 DEF Joined
    <3>2. CASE \E u \in Thread : \E e \in 1 .. D[u] : F[u][e].at = "post" /\ F[u][e].call = j
      <4>a. PICK u \in Thread : \E e \in 1 .. D[u] : F[u][e].at = "post" /\ F[u][e].call = j
        BY <3>2
      <4>b. PICK e \in 1 .. D[u] : F[u][e].at = "post" /\ F[u][e].call = j
        BY <4>a
      <4>1. CASE u = t /\ e = D[t]
        BY <1>2, <1>6, <4>1, <4>b DEF Joined
      <4>2. CASE e \in 1 .. D'[u]
        BY <1>5, <4>2, <4>b DEF Joined
      <4>3. QED
        BY <1>5, <4>1, <4>2
    <3>3. QED
      BY <2>1, <3>1, <3>2 DEF Joined
  <2>2. ASSUME Joined(j)' PROVE Joined(j)
    BY <1>1, <1>2, <1>5, <1>6, <2>2 DEF Joined
  <2>3. QED
    BY <2>1, <2>2
<1>10. Bodies'
  <2> SUFFICES ASSUME NEW u \in Thread, NEW e \in 1 .. D'[u], F'[u][e].at \in Body
               PROVE  BodyOK(F[u][e])'
    BY DEF Bodies
  <2>1. F'[u][e] = F[u][e]
    BY <1>5
  <2>2. BodyOK(F[u][e])
    BY <1>5, <2>1 DEF MInv, Bodies
  <2>3. QED
    BY <1>4, <1>9, <2>1, <2>2 DEF BodyOK
<1>11. Callbacks'
  <2> SUFFICES ASSUME NEW u \in Thread, NEW e \in 1 .. D'[u], F'[u][e].at \in Callback
               PROVE  CallbackOK(u, e)'
    BY DEF Callbacks
  <2>1. e \in 1 .. D[u] /\ F'[u][e] = F[u][e] /\ (u # t \/ e < D[t]) /\ D'[u] \in Nat
    BY <1>5
  <2>2. CallbackOK(u, e)
    BY <2>1 DEF MInv, Callbacks
  <2>3. F[u][e].call # i
    BY <1>1, <1>2, <2>1 DEF MInv, OneCallback, Callback
  <2>4. e > 1 => F'[u][e - 1] = F[u][e - 1]
    BY <1>5, <2>1
  <2>5. u = t => ~(e = D[t])
    BY <1>1, <2>1
  <2>6. QED
    BY <1>4, <1>5, <1>6, <2>1, <2>2, <2>3, <2>4, <2>5 DEF CallbackOK
<1>12. Copies'
  BY <1>2, <1>4, <1>6 DEF MInv, Copies
<1>13. \A where : Runs(where)' => Runs(where)
  BY <1>5 DEF Runs
<1>14. Past'
  BY <1>4, <1>9, <1>13 DEF MInv, Past
<1>15. Forked'
  BY <1>1, <1>4, <1>5 DEF MInv, Forked, Runs
<1>16. Gone'
  BY <1>4, <1>5 DEF MInv, Gone
<1>17. QED
  BY <1>4, <1>7, <1>8, <1>10, <1>11, <1>12, <1>14, <1>15, <1>16 DEF MInv, Shape

\* The callback counts itself and, as the second one, goes on with run(): nobody else is
\* in run() then, because its thread has counted itself and left.
LEMMA JoinKeeps ==
  ASSUME MInv, NEW t \in Thread, Join(t)
  PROVE  MInv'
<1>1. /\ Stacks /\ Depths /\ Frames /\ stack[t] # <<>> /\ D[t] \in Nat /\ D[t] \in 1 .. D[t]
      /\ Top(t) = F[t][D[t]] /\ F[t][D[t]] \in Frame /\ F[t][D[t]].at = "join"
  BY TopOf DEF Join
<1>2. PICK i \in Calls : i = F[t][D[t]].call /\ i = pos - 1
  BY <1>1, Uncounted
<1>3. PICK f \in Frame : f = At("post", i) /\ f.at = "post" /\ f.call = i
  <2>1. i \in 0 .. NCalls
    BY <1>2 DEF Calls
  <2>2. QED
    BY <2>1, AtIsFrame
<1>4. ~Joined(i) /\ ~deleted /\ ~Runs("next") /\ ~Runs("finish")
  BY <1>1, <1>2, Uncounted
<1>5. /\ UNCHANGED <<list, pos, results, sent, local, copies, handed, replies, deleted>>
      /\ mtfork' = mtfork + 1 /\ mtfork \in {0, 1} /\ ~deleted'
      /\ wild' \in BOOLEAN /\ ~wild'
  <2>1. mtfork \in 0 .. 2 /\ mtfork # 2 /\ ~wild
    BY <1>4, Parts DEF MInv, Forked
  <2>2. UNCHANGED <<list, pos, results, sent, local, copies, handed, replies, deleted>>
        /\ mtfork' = mtfork + 1 /\ wild' = (wild \/ deleted)
    BY DEF Join, subVars, Use
  <2>3. mtfork \in {0, 1}
    BY <2>1
  <2>4. ~wild' /\ wild' \in BOOLEAN /\ ~deleted'
    BY <1>4, <2>1, <2>2, Zenon
  <2>5. QED
    BY <2>2, <2>3, <2>4
<1>6. Copies'
  BY <1>5 DEF MInv, Copies
<1>7. CASE mtfork = 0
  <2>1. Continue(t, f)
    BY <1>1, <1>2, <1>3, <1>5, <1>7 DEF Join, Second
  <2>2. /\ Stacks' /\ D' = D
        /\ \A u \in Thread : \A e \in 1 .. D[u] :
              F'[u][e] = IF u = t /\ e = D[t] THEN f ELSE F[u][e]
    BY <1>1, <2>1, ContinueEffect
  <2>3. TypeOK'
    BY <1>5, <2>2 DEF MInv, TypeOK, Stacks
  <2>4. Shape'
    <3>1. f.at \notin Run /\ F[t][D[t]].at \in Callback
      BY <1>1, <1>3 DEF Run, Body, Callback
    <3>2. QED
      BY <1>1, <1>2, <1>3, <2>1, <3>1, Parts, ContinueShape
  <2>5. \A j \in Calls : Joined(j)' <=> j = i \/ Joined(j)
    BY <1>1, <1>2, <1>3, <1>5, <2>2 DEF Joined
  <2>6. Bodies'
    <3> SUFFICES ASSUME NEW u \in Thread, NEW e \in 1 .. D[u], F'[u][e].at \in Body
                 PROVE  BodyOK(F[u][e])'
      BY <2>2 DEF Bodies
    <3>1. F'[u][e] = F[u][e]
      BY <1>3, <2>2 DEF Body
    <3>2. BodyOK(F[u][e])
      BY <3>1 DEF MInv, Bodies
    <3>3. QED
      BY <1>2, <1>5, <1>7, <2>5, <3>1, <3>2 DEF BodyOK
  <2>7. Callbacks'
    <3> SUFFICES ASSUME NEW u \in Thread, NEW e \in 1 .. D[u], F'[u][e].at \in Callback
                 PROVE  CallbackOK(u, e)'
      BY <2>2 DEF Callbacks
    <3>1. F[u][e].at \in Callback /\ F'[u][e].call = F[u][e].call /\ (F'[u][e].at # "post" => F[u][e].at # "post")
      BY <1>1, <1>2, <1>3, <2>2 DEF Callback
    <3>2. CallbackOK(u, e)
      BY <3>1 DEF MInv, Callbacks
    <3>3. e > 1 => F'[u][e - 1] = F[u][e - 1]
      BY <1>1, <2>2 DEF Depths
    <3>4. QED
      BY <1>5, <2>2, <3>1, <3>2, <3>3 DEF CallbackOK
  <2>8. \A where \in {"next", "finish"} : ~Runs(where)'
    BY <1>3, <1>4, <2>2 DEF Runs
  <2>9. Past'
    BY <1>5, <2>5, <2>8 DEF MInv, Past
  <2>10. Forked' /\ Gone'
    BY <1>5, <1>7 DEF Forked, Gone
  <2>11. QED
    BY <1>5, <1>6, <2>3, <2>4, <2>6, <2>7, <2>9, <2>10 DEF MInv, Shape
<1>8. CASE mtfork = 1
  <2> DEFINE g == At("next", 0)
  <2>1. Enter(t, f, g) /\ g \in Frame /\ g.at = "next"
    BY <1>1, <1>2, <1>3, <1>5, <1>8 DEF Join, Second, At, Frame, Kind
  <2> HIDE DEF g
  <2>2. \A u \in Thread : \A e \in 1 .. D[u] : F[u][e].at \notin Run
    <3> SUFFICES ASSUME NEW u \in Thread, NEW e \in 1 .. D[u], F[u][e].at \in Body
                 PROVE  FALSE
      BY <1>4 DEF Runs, Run
    <3>1. F[u][e].call = i /\ mtfork = 0
      BY <1>2, <1>4 DEF MInv, Bodies, BodyOK
    <3>2. QED
      BY <1>8, <3>1
  <2>3. D[t] = 1
    <3>1. D[t] > 1 => F[t][D[t] - 1].at \in Body /\ D[t] - 1 \in 1 .. D[t]
      BY <1>1 DEF MInv, Callbacks, CallbackOK, Callback
    <3>2. QED
      BY <1>1, <2>2, <3>1 DEF Run
  <2>4. /\ Stacks' /\ D'[t] = 2 /\ F'[t][1] = f /\ F'[t][2] = g
        /\ \A u \in Thread : u # t => D'[u] = D[u]
        /\ \A u \in Thread : \A e \in 1 .. D[u] : u # t => F'[u][e] = F[u][e]
    <3>1. /\ Stacks' /\ D' = [D EXCEPT ![t] = D[t] + 1]
          /\ F'[t][D[t] + 1] = g
          /\ \A u \in Thread : \A d \in 1 .. D[u] :
               F'[u][d] = IF u = t /\ d = D[t] THEN f ELSE F[u][d]
      BY <1>1, <2>1, EnterEffect
    <3>2. QED
      BY <1>1, <2>3, <3>1 DEF Depths
  <2>5. \A u \in Thread : \A e \in 1 .. D'[u] :
           \/ u = t /\ e = 2 /\ F'[u][e] = g
           \/ u = t /\ e = 1 /\ F'[u][e] = f /\ e = D[t]
           \/ u # t /\ e \in 1 .. D[u] /\ D'[u] = D[u] /\ F'[u][e] = F[u][e]
    BY <2>3, <2>4
  <2>6. TypeOK'
    BY <1>5, <2>4 DEF MInv, TypeOK, Stacks
  <2>7. f.at \notin Run /\ f.at \in Callback /\ g.at \in Run /\ g.at \notin Callback /\ g.at \notin Body
    BY <1>3, <2>1 DEF Run, Body, Callback
  <2>8. \A u \in Thread : \A e \in 1 .. D'[u] : F'[u][e].at \in Run => u = t /\ e = 2 /\ F'[u][e] = g
    BY <2>2, <2>5, <2>7
  <2>9. OneRun' /\ OverPosts'
    <3>1. \A e \in 1 .. 2 - 1 : e = 1
      OBVIOUS
    <3>2. QED
      BY <1>3, <2>4, <2>8, <3>1 DEF OneRun, OverPosts
  <2>10. OneCallback'
    <3> SUFFICES ASSUME NEW u \in Thread, NEW v \in Thread, NEW d \in 1 .. D'[u], NEW e \in 1 .. D'[v],
                        F'[u][d].at \in Callback, F'[v][e].at \in Callback, F'[u][d].call = F'[v][e].call
                 PROVE  u = v /\ d = e
      BY DEF OneCallback
    <3>1. \A w \in Thread : \A c \in 1 .. D'[w] : F'[w][c].at \in Callback =>
            c \in 1 .. D[w] /\ F[w][c].at \in Callback /\ F[w][c].call = F'[w][c].call
      <4> SUFFICES ASSUME NEW w \in Thread, NEW c \in 1 .. D'[w], F'[w][c].at \in Callback
                   PROVE  c \in 1 .. D[w] /\ F[w][c].at \in Callback /\ F[w][c].call = F'[w][c].call
        OBVIOUS
      <4>1. CASE w = t /\ c = 1 /\ F'[w][c] = f /\ c = D[t]
        <5>1. F[w][c].at \in Callback
          BY <1>1, <4>1 DEF Callback
        <5>2. QED
          BY <1>1, <1>2, <1>3, <4>1, <5>1
      <4>2. CASE w # t /\ c \in 1 .. D[w] /\ D'[w] = D[w] /\ F'[w][c] = F[w][c]
        BY <4>2
      <4>3. QED
        BY <2>5, <2>7, <4>1, <4>2
    <3>2. QED
      BY <3>1 DEF MInv, OneCallback
  <2>11. Bodies'
    BY <2>7, <2>8 DEF Bodies, Run
  <2>12. Callbacks'
    <3> SUFFICES ASSUME NEW u \in Thread, NEW e \in 1 .. D'[u], F'[u][e].at \in Callback
                 PROVE  CallbackOK(u, e)'
      BY DEF Callbacks
    <3>1. /\ e \in 1 .. D[u] /\ F[u][e].at \in Callback /\ F'[u][e].call = F[u][e].call
          /\ (F'[u][e].at # "post" => F[u][e].at # "post" /\ D'[u] = D[u])
      BY <1>1, <1>2, <1>3, <2>5, <2>7 DEF Callback
    <3>2. CallbackOK(u, e)
      BY <3>1 DEF MInv, Callbacks
    <3>3. e = 1
      <4>1. e # 1 => e - 1 \in 1 .. D[u] /\ F[u][e - 1].at \in Run
        BY <3>1, <3>2, Parts DEF CallbackOK, Run
      <4>2. QED
        BY <2>2, <4>1
    <3>4. QED
      BY <1>5, <3>1, <3>2, <3>3 DEF CallbackOK
  <2>13. \A j \in Calls : Joined(j) \/ j = i => Joined(j)'
    <3> SUFFICES ASSUME NEW j \in Calls, Joined(j) \/ j = i PROVE Joined(j)'
      OBVIOUS
    <3>1. CASE sent[j]
      BY <1>5, <3>1 DEF Joined
    <3>2. CASE j = i
      BY <1>3, <2>4, <3>2 DEF Joined
    <3>3. CASE \E u \in Thread : \E e \in 1 .. D[u] : F[u][e].at = "post" /\ F[u][e].call = j
      <4>a. PICK u \in Thread : \E e \in 1 .. D[u] : F[u][e].at = "post" /\ F[u][e].call = j
        BY <3>3
      <4>b. PICK e \in 1 .. D[u] : F[u][e].at = "post" /\ F[u][e].call = j
        BY <4>a
      <4>1. u # t
        BY <1>1, <2>3, <4>b
      <4>2. F'[u][e] = F[u][e] /\ D'[u] = D[u]
        BY <2>4, <4>1
      <4>3. QED
        BY <4>b, <4>2 DEF Joined
    <3>4. QED
      BY <3>1, <3>2, <3>3 DEF Joined
  <2>14. Past'
    <3>1. \A j \in Calls : j < pos /\ list[j] = "call" => j = i \/ Joined(j)
      BY <1>2, Parts DEF MInv, Past, Calls
    <3>2. \A j \in Calls : j < pos /\ list[j] = "call" => Joined(j)'
      BY <2>13, <3>1
    <3>3. \A j \in Calls : j < pos - 1 => j < pos
      BY Parts DEF Calls
    <3>4. QED
      BY <1>5, <3>2, <3>3 DEF Past
  <2>15. Forked' /\ Gone'
    BY <1>5, <2>1, <2>4 DEF Forked, Gone, Runs
  <2>16. QED
    BY <1>5, <1>6, <2>6, <2>9, <2>10, <2>11, <2>12, <2>14, <2>15 DEF MInv
<1>9. QED
  BY <1>5, <1>7, <1>8

\* run() goes to the next call: all the earlier ones are counted, nobody answers.
LEMMA NextCallKeeps ==
  ASSUME MInv, NEW t \in Thread, NextCall(t)
  PROVE  MInv'
<1>1. /\ Stacks /\ Depths /\ Frames /\ stack[t] # <<>> /\ D[t] \in Nat /\ D[t] \in 1 .. D[t]
      /\ F[t][D[t]] \in Frame /\ F[t][D[t]].at = "next" /\ Running(t, "next")
  BY TopOf DEF NextCall
<1>2. PICK i \in Calls : i = pos /\ list[i] = "call"
  BY Parts DEF NextCall, More, Calls
<1>3. PICK f \in Frame : f = At("exec", i) /\ f.at = "exec" /\ f.call = i
  <2>1. i \in 0 .. NCalls
    BY <1>2 DEF Calls
  <2>2. QED
    BY <2>1, AtIsFrame
<1>4. /\ ~deleted
      /\ \A u \in Thread : \A e \in 1 .. D[u] : F[u][e].at \in Run => u = t /\ e = D[t]
      /\ \A u \in Thread : \A e \in 1 .. D[u] : F[u][e].at \in Callback => F[u][e].at = "post" /\ e = 1
      /\ \A j \in Calls : j < pos /\ list[j] = "call" => Joined(j)
  BY <1>1, Between
<1>5. /\ UNCHANGED <<list, results, sent, copies, handed, replies, deleted>>
      /\ mtfork' = 0 /\ pos' = i + 1 /\ local' = [local EXCEPT ![i] = TRUE] /\ Continue(t, f)
      /\ wild' = (wild \/ deleted)
  BY <1>2, <1>3 DEF NextCall, Reset, Use
<1>6. ~wild' /\ wild' \in BOOLEAN /\ ~deleted'
  BY <1>4, <1>5, Parts, Zenon
<1>7. /\ Stacks' /\ D' = D
      /\ \A u \in Thread : \A e \in 1 .. D[u] :
            F'[u][e] = IF u = t /\ e = D[t] THEN f ELSE F[u][e]
  BY <1>1, <1>5, ContinueEffect
<1>8. local' \in [Calls -> BOOLEAN] /\ local'[i] /\ \A j \in Calls : j # i => local'[j] = local[j]
  BY <1>5 DEF MInv, TypeOK
<1>9. TypeOK'
  BY <1>2, <1>5, <1>6, <1>7, <1>8 DEF MInv, TypeOK, Stacks, Calls
<1>10. Shape'
  <2>1. F[t][D[t]].at \in Run /\ f.at \notin Callback
    BY <1>1, <1>3 DEF Run, Callback
  <2>2. QED
    BY <1>1, <1>5, <2>1, Parts, ContinueShape
<1>11. ~Joined(i) /\ \A j \in Calls : Joined(j)' <=> Joined(j)
  <2>1. \A u \in Thread : \A e \in 1 .. D[u] : F[u][e].at = "post" => F[u][e].call < pos
    BY DEF MInv, Callbacks, CallbackOK, Callback
  <2>2. ~sent[i]
    BY <1>2 DEF MInv, Copies, Calls
  <2>3. ~Joined(i)
    BY <1>2, <2>1, <2>2 DEF Joined, Calls
  <2>4. QED
    BY <1>1, <1>3, <1>5, <1>7, <2>3 DEF Joined
<1>12. \A u \in Thread : \A e \in 1 .. D[u] : F'[u][e].at \in Run => u = t /\ e = D[t] /\ F'[u][e] = f
  BY <1>4, <1>7
<1>13. Bodies'
  <2> SUFFICES ASSUME NEW u \in Thread, NEW e \in 1 .. D[u], F'[u][e] = f
               PROVE  BodyOK(F[u][e])'
    BY <1>7, <1>12 DEF Bodies, Run
  <2>1. i = pos' - 1
    BY <1>5 DEF Calls
  <2>2. QED
    BY <1>2, <1>3, <1>5, <1>8, <1>11, <2>1 DEF BodyOK
<1>14. Callbacks'
  <2> SUFFICES ASSUME NEW u \in Thread, NEW e \in 1 .. D[u], F'[u][e].at \in Callback
               PROVE  CallbackOK(u, e)'
    BY <1>7 DEF Callbacks
  <2>1. F'[u][e] = F[u][e] /\ F[u][e].at = "post" /\ e = 1
    BY <1>3, <1>4, <1>7 DEF Callback
  <2>2. CallbackOK(u, e) /\ F[u][e].call # i /\ F[u][e].call \in Calls
    BY <1>2, <2>1 DEF MInv, Callbacks, CallbackOK, Callback, Calls
  <2>3. \A j \in Calls : j < pos => j < pos'
    BY <1>2, <1>5 DEF Calls
  <2>4. QED
    BY <1>5, <1>8, <2>1, <2>2, <2>3 DEF CallbackOK
<1>15. Copies'
  <2>1. \A j \in Calls : j < pos => j < pos'
    BY <1>2, <1>5 DEF Calls
  <2>2. QED
    BY <1>5, <2>1 DEF MInv, Copies
<1>16. Past'
  <2>1. ~Runs("next")' /\ ~Runs("finish")'
    BY <1>3, <1>7, <1>12 DEF Runs, Run
  <2>2. \A j \in Calls : j < pos' - 1 => j < pos
    BY <1>2, <1>5 DEF Calls
  <2>3. QED
    BY <1>4, <1>5, <1>6, <1>11, <2>1, <2>2 DEF Past
<1>17. Forked' /\ Gone'
  BY <1>5, <1>6 DEF Forked, Gone
<1>18. QED
  BY <1>6, <1>9, <1>10, <1>13, <1>14, <1>15, <1>16, <1>17 DEF MInv, Shape

\* run() finds no call: all are counted.
LEMMA NextEndsKeeps ==
  ASSUME MInv, NEW t \in Thread, NextEnds(t)
  PROVE  MInv'
<1>1. /\ Stacks /\ Depths /\ Frames /\ stack[t] # <<>> /\ D[t] \in Nat /\ D[t] \in 1 .. D[t]
      /\ F[t][D[t]] \in Frame /\ F[t][D[t]].at = "next" /\ Running(t, "next")
  BY TopOf DEF NextEnds
<1>2. PICK f \in Frame : f = At("finish", 0) /\ f.at = "finish"
  <2>1. 0 \in 0 .. NCalls
    BY DEF MulticallAssumption
  <2>2. QED
    BY <2>1, AtIsFrame
<1>3. /\ ~deleted
      /\ \A u \in Thread : \A e \in 1 .. D[u] : F[u][e].at \in Run => u = t /\ e = D[t]
      /\ \A u \in Thread : \A e \in 1 .. D[u] : F[u][e].at \in Callback => F[u][e].at = "post" /\ e = 1
      /\ \A j \in Calls : j < pos /\ list[j] = "call" => Joined(j)
  BY <1>1, Between
<1>4. /\ UNCHANGED <<list, results, sent, local, copies, handed, replies, deleted>>
      /\ mtfork' = 0 /\ Continue(t, f) /\ wild' = (wild \/ deleted)
  BY <1>2 DEF NextEnds, Reset, Use, subVars
<1>5. /\ pos' \in 1 .. NCalls + 1
      /\ \A j \in Calls : j < pos => j < pos'
      /\ \A j \in Calls : j < pos' /\ list[j] = "call" => j < pos
      /\ \A j \in Calls : j < pos' - 1 => j < pos'
  BY Parts DEF NextEnds, More, Calls
<1>6. ~wild' /\ wild' \in BOOLEAN /\ ~deleted'
  BY <1>3, <1>4, Parts, Zenon
<1>7. /\ Stacks' /\ D' = D
      /\ \A u \in Thread : \A e \in 1 .. D[u] :
            F'[u][e] = IF u = t /\ e = D[t] THEN f ELSE F[u][e]
  BY <1>1, <1>4, ContinueEffect
<1>8. TypeOK'
  BY <1>4, <1>5, <1>6, <1>7 DEF MInv, TypeOK, Stacks
<1>9. Shape'
  <2>1. F[t][D[t]].at \in Run /\ f.at \notin Callback
    BY <1>1, <1>2 DEF Run, Callback
  <2>2. QED
    BY <1>1, <1>4, <2>1, Parts, ContinueShape
<1>10. \A j \in Calls : Joined(j)' <=> Joined(j)
  BY <1>1, <1>2, <1>4, <1>7 DEF Joined
<1>11. \A u \in Thread : \A e \in 1 .. D[u] : F'[u][e].at \in Run => F'[u][e] = f
  BY <1>3, <1>7
<1>12. Bodies'
  BY <1>2, <1>7, <1>11 DEF Bodies, Run, Body
<1>13. Callbacks'
  <2> SUFFICES ASSUME NEW u \in Thread, NEW e \in 1 .. D[u], F'[u][e].at \in Callback
               PROVE  CallbackOK(u, e)'
    BY <1>7 DEF Callbacks
  <2>1. F'[u][e] = F[u][e] /\ F[u][e].at = "post" /\ e = 1
    BY <1>2, <1>3, <1>7 DEF Callback
  <2>2. CallbackOK(u, e) /\ F[u][e].call \in Calls
    BY <2>1 DEF MInv, Callbacks, CallbackOK, Callback
  <2>3. QED
    BY <1>4, <1>5, <2>1, <2>2 DEF CallbackOK
<1>14. Copies'
  BY <1>4, <1>5 DEF MInv, Copies
<1>15. Past'
  BY <1>3, <1>4, <1>5, <1>10 DEF Past
<1>16. Forked' /\ Gone'
  BY <1>4, <1>6 DEF Forked, Gone
<1>17. QED
  BY <1>6, <1>8, <1>9, <1>12, <1>13, <1>14, <1>15, <1>16 DEF MInv, Shape

\* The context is deleted: nobody is in run(), no callback will use it.
LEMMA FinishKeeps ==
  ASSUME MInv, NEW t \in Thread, Finish(t)
  PROVE  MInv'
<1>1. /\ Stacks /\ Depths /\ Frames /\ stack[t] # <<>> /\ D[t] \in Nat /\ D[t] \in 1 .. D[t]
      /\ F[t][D[t]] \in Frame /\ F[t][D[t]].at = "finish" /\ Running(t, "finish")
  BY TopOf DEF Finish
<1>2. /\ ~deleted
      /\ \A u \in Thread : \A e \in 1 .. D[u] : F[u][e].at \in Run => u = t /\ e = D[t]
      /\ \A u \in Thread : \A e \in 1 .. D[u] : F[u][e].at \in Callback => F[u][e].at = "post" /\ e = 1
      /\ \A j \in Calls : j < pos /\ list[j] = "call" => Joined(j)
  BY <1>1, Between
<1>3. /\ UNCHANGED <<list, pos, mtfork, results, sent, local, copies, handed>>
      /\ replies' = replies + 1 /\ deleted' = TRUE /\ Leave(t) /\ wild' = (wild \/ deleted)
  BY DEF Finish, Use, subVars
<1>4. ~wild' /\ wild' \in BOOLEAN
  BY <1>2, <1>3, Parts, Zenon
<1>5. /\ Stacks' /\ D' = [D EXCEPT ![t] = D[t] - 1]
      /\ \A u \in Thread : \A e \in 1 .. D'[u] : F'[u][e] = F[u][e]
  BY <1>1, <1>3, LeaveEffect
<1>6. /\ \A u \in Thread : \A e \in 1 .. D'[u] : e \in 1 .. D[u] /\ F'[u][e] = F[u][e] /\ (u # t \/ e < D[t])
      /\ \A u \in Thread : \A e \in 1 .. D[u] : (u = t /\ e = D[t]) \/ e \in 1 .. D'[u]
  BY <1>1, <1>5 DEF Depths
<1>7. TypeOK'
  BY <1>3, <1>4, <1>5 DEF MInv, TypeOK, Stacks
<1>8. Shape'
  BY <1>1, <1>3, Parts, LeaveShape
<1>9. \A j \in Calls : Joined(j)' <=> Joined(j)
  <2>1. \A u \in Thread : \A e \in 1 .. D[u] : F[u][e].at = "post" => e \in 1 .. D'[u] /\ F'[u][e] = F[u][e]
    BY <1>1, <1>6
  <2>2. QED
    BY <1>3, <1>6, <2>1 DEF Joined
<1>10. \A u \in Thread : \A e \in 1 .. D'[u] : F'[u][e].at \notin Run
  <2> SUFFICES ASSUME NEW u \in Thread, NEW e \in 1 .. D'[u], F'[u][e].at \in Run
               PROVE  FALSE
    OBVIOUS
  <2>1. u = t /\ e = D[t] /\ (u # t \/ e < D[t])
    BY <1>2, <1>6
  <2>2. QED
    BY <1>1, <2>1
<1>11. Bodies' /\ Gone'
  BY <1>10 DEF Bodies, Gone, Run
<1>12. Callbacks'
  <2> SUFFICES ASSUME NEW u \in Thread, NEW e \in 1 .. D'[u], F'[u][e].at \in Callback
               PROVE  CallbackOK(u, e)'
    BY DEF Callbacks
  <2>1. F'[u][e] = F[u][e] /\ F[u][e].at = "post" /\ e = 1 /\ e \in 1 .. D[u]
    BY <1>2, <1>6
  <2>2. CallbackOK(u, e)
    BY <2>1 DEF MInv, Callbacks, Callback
  <2>3. QED
    BY <1>3, <2>1, <2>2 DEF CallbackOK
<1>13. Copies'
  BY <1>3 DEF MInv, Copies
<1>14. Past'
  <2>1. \A j \in Calls : j < pos - 1 => j < pos
    BY Parts DEF Calls
  <2>2. QED
    BY <1>2, <1>3, <1>9, <2>1 DEF Past
<1>15. Forked'
  <2>1. ~Runs("next")
    BY <1>1, <1>2 DEF Runs, Run
  <2>2. QED
    BY <1>3, <2>1 DEF MInv, Forked
<1>16. QED
  BY <1>4, <1>7, <1>8, <1>11, <1>12, <1>13, <1>14, <1>15 DEF MInv, Shape

\* exec, or the end of the scope of the request, calls its onResult or onError.
LEMMA CallsBack ==
  ASSUME MInv, NEW t \in Thread, NEW i \in Calls, NEW f \in Frame, NEW g \in Frame,
         stack[t] # <<>>, F[t][D[t]].at \in {"exec", "close"}, F[t][D[t]].call = i,
         f.at \in Body, f.call = i, g.at = "push", g.call = i,
         Enter(t, f, g), ~sent[i], copies[i] = {},
         UNCHANGED <<list, pos, mtfork, results, sent, copies, handed, replies, deleted, wild>>,
         local' = local \/ (local' = [local EXCEPT ![i] = FALSE] /\ f.at = "fork")
  PROVE  MInv'
<1>1. /\ Stacks /\ Depths /\ Shape /\ D[t] \in Nat /\ D[t] \in 1 .. D[t] /\ NoCallback(i)
      /\ BodyOK(F[t][D[t]])
  <2>1. Stacks /\ Depths /\ Shape /\ D[t] \in Nat /\ D[t] \in 1 .. D[t]
    BY Parts, StackTypes
  <2>2. QED
    BY <2>1, NotAnswering DEF MInv, Bodies, Body
<1>2. /\ Stacks' /\ D' = [D EXCEPT ![t] = D[t] + 1]
      /\ F'[t][D[t] + 1] = g
      /\ \A u \in Thread : \A e \in 1 .. D[u] :
              F'[u][e] = IF u = t /\ e = D[t] THEN f ELSE F[u][e]
  BY <1>1, EnterEffect
<1>3. D'[t] = D[t] + 1 /\ \A u \in Thread : u # t => D'[u] = D[u]
  BY <1>1, <1>2 DEF Depths
<1>4. \A u \in Thread : \A e \in 1 .. D'[u] :
        \/ u = t /\ e = D[t] + 1 /\ F'[u][e] = g
        \/ u = t /\ e = D[t] /\ F'[u][e] = f
        \/ (u # t \/ e < D[t]) /\ e \in 1 .. D[u] /\ F'[u][e] = F[u][e]
  BY <1>1, <1>2, <1>3
<1>5. f.at \notin Callback /\ f.at \in Run /\ F[t][D[t]].at \in Run /\ g.at \notin Run /\ g.at \in Callback
  BY DEF Run, Body, Callback
<1>6. Shape'
  BY <1>1, <1>2, <1>5, EnterShape DEF NoCallback
<1>7. local' \in [Calls -> BOOLEAN] /\ \A j \in Calls : (j # i \/ f.at # "fork" => local'[j] = local[j])
      /\ (local'[j] => local[j])
  BY DEF MInv, TypeOK
<1>8. TypeOK'
  BY <1>2, <1>7 DEF MInv, TypeOK, Stacks
<1>9. \A j \in Calls : Joined(j)' <=> Joined(j)
  <2>1. \A u \in Thread : \A e \in 1 .. D'[u] : F'[u][e].at = "post" => e \in 1 .. D[u] /\ F'[u][e] = F[u][e]
    BY <1>4, <1>5 DEF Callback
  <2>2. \A u \in Thread : \A e \in 1 .. D[u] : F[u][e].at = "post" => e \in 1 .. D'[u] /\ F'[u][e] = F[u][e]
    BY <1>1, <1>2, <1>3 DEF Depths
  <2>3. QED
    BY <2>1, <2>2 DEF Joined
<1>10. \A u \in Thread : \A e \in 1 .. D'[u] : F'[u][e].at \in Run => F'[u][e] = f
  <2>1. \A u \in Thread : \A e \in 1 .. D[u] : F[u][e].at \in Run => u = t /\ e = D[t]
    BY <1>1, <1>5 DEF Shape, OneRun
  <2>2. QED
    BY <1>1, <1>4, <1>5, <2>1
<1>11. Bodies'
  <2> SUFFICES BodyOK(f)'
    BY <1>10 DEF Bodies, Run
  <2>1. BodyOK(f)' <=>
          /\ f.call \in Calls /\ f.call = pos' - 1 /\ list'[f.call] = "call"
          /\ f.at # "fork" => local'[f.call]
          /\ mtfork' = IF Joined(f.call)' THEN 1 ELSE 0
    BY DEF BodyOK
  <2>2. QED
    BY <1>1, <1>7, <1>9, <2>1 DEF BodyOK
<1>12. Callbacks'
  <2> SUFFICES ASSUME NEW u \in Thread, NEW e \in 1 .. D'[u], F'[u][e].at \in Callback
               PROVE  CallbackOK(u, e)'
    BY DEF Callbacks
  <2>1. CASE u = t /\ e = D[t] + 1 /\ F'[u][e] = g
    <3>1. e > 1 /\ e - 1 = D[t] /\ F'[u][e - 1] = f /\ e = D'[u]
      BY <1>1, <1>2, <1>3, <2>1
    <3>2. i < pos /\ i = pos - 1 /\ list[i] = "call"
      BY <1>1, Parts DEF BodyOK
    <3>3. QED
      BY <2>1, <3>1, <3>2 DEF CallbackOK
  <2>2. CASE (u # t \/ e < D[t]) /\ e \in 1 .. D[u] /\ F'[u][e] = F[u][e]
    <3>1. CallbackOK(u, e) /\ F[u][e].call # i
      BY <1>1, <2>2 DEF MInv, Callbacks, NoCallback
    <3>2. CASE u # t
      <4>1. e > 1 => F'[u][e - 1] = F[u][e - 1]
        <5>1. e > 1 => e - 1 \in 1 .. D[u]
          BY <1>1, <2>2 DEF Depths
        <5>2. QED
          BY <1>2, <3>2, <5>1
      <4>2. QED
        BY <1>3, <1>7, <2>2, <3>1, <3>2, <4>1 DEF CallbackOK
    <3>3. CASE u = t /\ e < D[t]
      <4>1. F[u][e].at = "post"
        BY <1>1, <1>5, <2>2, <3>3 DEF Shape, OverPosts
      <4>2. ~(e > 1)
        BY <1>1, <3>1, <3>3 DEF CallbackOK
      <4>3. QED
        BY <1>7, <2>2, <3>1, <4>1, <4>2 DEF CallbackOK
    <3>4. QED
      BY <2>2, <3>2, <3>3
  <2>3. QED
    BY <1>4, <1>5, <2>1, <2>2
<1>13. Copies'
  BY DEF MInv, Copies
<1>14. ~deleted
  BY <1>1, <1>5 DEF MInv, Gone
<1>15. Past' /\ Forked' /\ Gone'
  <2>1. mtfork # 2 /\ \A j \in Calls : j < pos - 1 /\ list[j] = "call" => Joined(j)
    BY <1>1 DEF BodyOK, MInv, Past
  <2>2. ~Runs("next")' /\ ~Runs("finish")'
    BY <1>10 DEF Runs, Run, Body
  <2>3. QED
    BY <1>9, <1>14, <2>1, <2>2 DEF Past, Forked, Gone
<1>16. QED
  BY <1>6, <1>8, <1>11, <1>12, <1>13, <1>15 DEF MInv, Shape

\* exec returns, and the scope of the request ends.
LEMMA GoesOn ==
  ASSUME MInv, NEW t \in Thread, NEW i \in Calls, NEW f \in Frame,
         stack[t] # <<>>, F[t][D[t]].at \in {"exec", "close"}, F[t][D[t]].call = i,
         f.at \in Body, f.call = i, Continue(t, f),
         UNCHANGED <<list, pos, mtfork, results, sent, copies, handed, replies, deleted, wild>>,
         local' = local \/ (local' = [local EXCEPT ![i] = FALSE] /\ f.at = "fork")
  PROVE  MInv'
<1>1. /\ Stacks /\ Depths /\ Shape /\ D[t] \in Nat /\ D[t] \in 1 .. D[t]
      /\ BodyOK(F[t][D[t]])
  <2>1. Stacks /\ Depths /\ Shape /\ D[t] \in Nat /\ D[t] \in 1 .. D[t]
    BY Parts, StackTypes
  <2>2. QED
    BY <2>1 DEF MInv, Bodies, Body
<1>2. /\ Stacks' /\ D' = D
      /\ \A u \in Thread : \A e \in 1 .. D[u] :
              F'[u][e] = IF u = t /\ e = D[t] THEN f ELSE F[u][e]
  BY <1>1, ContinueEffect
<1>3. f.at \notin Callback /\ f.at \in Run /\ F[t][D[t]].at \in Run
  BY DEF Run, Body, Callback
<1>4. Shape'
  BY <1>1, <1>3, ContinueShape
<1>5. local' \in [Calls -> BOOLEAN] /\ \A j \in Calls : (j # i \/ f.at # "fork" => local'[j] = local[j])
      /\ (local'[j] => local[j])
  BY DEF MInv, TypeOK
<1>6. TypeOK'
  BY <1>2, <1>5 DEF MInv, TypeOK, Stacks
<1>7. \A j \in Calls : Joined(j)' <=> Joined(j)
  BY <1>2, <1>3 DEF Joined, Callback
<1>8. \A u \in Thread : \A e \in 1 .. D[u] : F'[u][e].at \in Run => F'[u][e] = f
  <2>1. \A u \in Thread : \A e \in 1 .. D[u] : F[u][e].at \in Run => u = t /\ e = D[t]
    BY <1>1, <1>3 DEF Shape, OneRun
  <2>2. QED
    BY <1>2, <2>1
<1>9. Bodies'
  <2> SUFFICES BodyOK(f)'
    BY <1>2, <1>8 DEF Bodies, Run
  <2>1. BodyOK(f)' <=>
          /\ f.call \in Calls /\ f.call = pos' - 1 /\ list'[f.call] = "call"
          /\ f.at # "fork" => local'[f.call]
          /\ mtfork' = IF Joined(f.call)' THEN 1 ELSE 0
    BY DEF BodyOK
  <2>2. QED
    BY <1>1, <1>5, <1>7, <2>1 DEF BodyOK
<1>10. Callbacks'
  <2> SUFFICES ASSUME NEW u \in Thread, NEW e \in 1 .. D[u], F'[u][e].at \in Callback
               PROVE  CallbackOK(u, e)'
    BY <1>2 DEF Callbacks
  <2>1. F'[u][e] = F[u][e]
    BY <1>2, <1>3
  <2>2. CallbackOK(u, e)
    BY <2>1 DEF MInv, Callbacks
  <2>3. e > 1 => F'[u][e - 1] = F[u][e - 1]
    BY <1>1, <1>2 DEF Depths
  <2>4. QED
    BY <1>2, <1>5, <2>1, <2>2, <2>3 DEF CallbackOK
<1>11. Copies'
  BY DEF MInv, Copies
<1>12. ~deleted
  BY <1>1, <1>3 DEF MInv, Gone
<1>13. Past' /\ Forked' /\ Gone'
  <2>1. mtfork # 2 /\ \A j \in Calls : j < pos - 1 /\ list[j] = "call" => Joined(j)
    BY <1>1 DEF BodyOK, MInv, Past
  <2>2. ~Runs("next")' /\ ~Runs("finish")'
    BY <1>2, <1>8 DEF Runs, Run, Body
  <2>3. QED
    BY <1>7, <1>12, <2>1, <2>2 DEF Past, Forked, Gone
<1>14. QED
  BY <1>4, <1>6, <1>9, <1>10, <1>11, <1>13 DEF MInv, Shape

\* Facts of a thread that executes call i.
LEMMA Executing ==
  ASSUME MInv, NEW t \in Thread, Running(t, "exec") \/ Running(t, "close")
  PROVE  /\ stack[t] # <<>> /\ Top(t) \in Frame /\ Top(t).call \in Calls /\ Top(t) = F[t][D[t]]
         /\ F[t][D[t]].at \in {"exec", "close"}
         /\ local[Top(t).call] /\ Top(t).call \in 0 .. NCalls
         /\ Running(t, "exec") => Top(t).at = "exec"
         /\ Top(t).call \notin handed => copies[Top(t).call] = {}
<1>1. /\ stack[t] # <<>> /\ Top(t) = F[t][D[t]] /\ Top(t) \in Frame /\ D[t] \in 1 .. D[t]
      /\ Top(t).at \in {"exec", "close"} /\ (Running(t, "exec") => Top(t).at = "exec")
  BY TopOf
<1>2. BodyOK(Top(t))
  BY <1>1 DEF MInv, Bodies, Body
<1>3. Top(t).call \in Calls /\ local[Top(t).call]
  BY <1>1, <1>2 DEF BodyOK
<1>4. QED
  BY <1>1, <1>3 DEF MInv, Copies, Calls

\* The method answers at once.
LEMMA AnswersKeeps ==
  ASSUME MInv, NEW t \in Thread, NEW kind \in Kind, Answers(t, kind)
  PROVE  MInv'
<1>1. PICK i \in Calls, f \in Frame :
        /\ i = Top(t).call /\ f = Top(t) /\ f.at = "exec" /\ f.call = i /\ i \in 0 .. NCalls
        /\ F[t][D[t]] = f /\ stack[t] # <<>> /\ ~sent[i] /\ copies[i] = {}
  <2>1. Running(t, "exec") /\ ~sent[Top(t).call] /\ Top(t).call \notin handed
    BY DEF Answers
  <2>2. /\ Top(t) \in Frame /\ Top(t).call \in Calls /\ Top(t) = F[t][D[t]] /\ Top(t).at = "exec"
        /\ stack[t] # <<>> /\ Top(t).call \in 0 .. NCalls /\ copies[Top(t).call] = {}
    BY <2>1, Executing
  <2>3. QED
    BY <2>1, <2>2
<1>2. PICK g \in Frame : g = [at |-> "push", call |-> i, kind |-> kind] /\ g.at = "push" /\ g.call = i
  <2>1. i \in 0 .. NCalls
    BY <1>1
  <2>2. QED
    BY <2>1, PushIsFrame
<1>3. /\ UNCHANGED <<list, pos, mtfork, results, sent, copies, handed, replies, deleted, wild, local>>
      /\ Enter(t, f, g)
  BY <1>1, <1>2 DEF Answers, subVars
<1>4. f.at \in Body /\ f.at \in {"exec", "close"}
  BY <1>1 DEF Body
<1>5. QED
  BY <1>1, <1>2, <1>3, <1>4, CallsBack

\* The method throws, before it answered or handed the request over.
LEMMA ThrowsKeeps ==
  ASSUME MInv, ~LateThrow, NEW t \in Thread, Throws(t)
  PROVE  MInv'
<1>1. PICK i \in Calls :
        /\ i = Top(t).call /\ i \in 0 .. NCalls
        /\ F[t][D[t]].at \in {"exec", "close"} /\ F[t][D[t]].call = i /\ stack[t] # <<>> /\ ~sent[i] /\ copies[i] = {}
  BY Executing DEF Throws
<1>2. PICK f \in Frame : f = At("close", i) /\ f.at = "close" /\ f.call = i
  BY <1>1, AtIsFrame
<1>3. PICK g \in Frame : g = [at |-> "push", call |-> i, kind |-> "error"] /\ g.at = "push" /\ g.call = i
  <2>1. i \in 0 .. NCalls /\ "error" \in Kind
    BY <1>1 DEF Kind
  <2>2. QED
    BY <2>1, PushIsFrame
<1>4. /\ UNCHANGED <<list, pos, mtfork, results, sent, copies, handed, replies, deleted, wild, local>>
      /\ Enter(t, f, g)
  BY <1>1, <1>2, <1>3 DEF Throws, subVars
<1>5. f.at \in Body
  BY <1>2 DEF Body
<1>6. QED
  BY <1>1, <1>2, <1>3, <1>4, <1>5, CallsBack

\* The method returns.
LEMMA ReturnsKeeps ==
  ASSUME MInv, NEW t \in Thread, Returns(t)
  PROVE  MInv'
<1>1. PICK i \in Calls :
        /\ i = Top(t).call /\ i \in 0 .. NCalls
        /\ F[t][D[t]].at \in {"exec", "close"} /\ F[t][D[t]].call = i /\ stack[t] # <<>>
  BY Executing DEF Returns
<1>2. PICK f \in Frame : f = At("close", i) /\ f.at = "close" /\ f.call = i
  BY <1>1, AtIsFrame
<1>3. /\ UNCHANGED <<list, pos, mtfork, results, sent, copies, handed, replies, deleted, wild, local>>
      /\ Continue(t, f)
  BY <1>1, <1>2 DEF Returns, subVars
<1>4. f.at \in Body
  BY <1>2 DEF Body
<1>5. QED
  BY <1>1, <1>2, <1>3, <1>4, GoesOn

\* The scope of the request ends; without a copy and an answer it answers itself.
LEMMA CloseKeeps ==
  ASSUME MInv, NEW t \in Thread, Close(t)
  PROVE  MInv'
<1>1. PICK i \in Calls :
        /\ i = Top(t).call /\ i \in 0 .. NCalls
        /\ F[t][D[t]].at \in {"exec", "close"} /\ F[t][D[t]].call = i /\ stack[t] # <<>>
  BY Executing DEF Close
<1>2. PICK f \in Frame : f = At("fork", i) /\ f.at = "fork" /\ f.call = i
  BY <1>1, AtIsFrame
<1>3. PICK g \in Frame : g = [at |-> "push", call |-> i, kind |-> "error"] /\ g.at = "push" /\ g.call = i
  <2>1. i \in 0 .. NCalls /\ "error" \in Kind
    BY <1>1 DEF Kind
  <2>2. QED
    BY <2>1, PushIsFrame
<1>4. /\ UNCHANGED <<list, pos, mtfork, results, sent, copies, handed, replies, deleted, wild>>
      /\ local' = [local EXCEPT ![i] = FALSE]
      /\ IF Orphaned(i) THEN Enter(t, f, g) ELSE Continue(t, f)
  BY <1>1, <1>2, <1>3 DEF Close
<1>5. f.at \in Body
  BY <1>2 DEF Body
<1>6. CASE Orphaned(i)
  <2>1. ~sent[i] /\ copies[i] = {} /\ Enter(t, f, g)
    BY <1>4, <1>6 DEF Orphaned
  <2>2. QED
    BY <1>1, <1>2, <1>3, <1>4, <1>5, <2>1, CallsBack
<1>7. CASE ~Orphaned(i)
  <2>1. Continue(t, f)
    BY <1>4, <1>7
  <2>2. QED
    BY <1>1, <1>2, <1>4, <1>5, <2>1, GoesOn
<1>8. QED
  BY <1>6, <1>7

\* The method hands a copy to another thread.
LEMMA HandsOverKeeps ==
  ASSUME MInv, NEW t \in Thread, NEW u \in Thread, HandsOver(t, u)
  PROVE  MInv'
<1>1. PICK i \in Calls :
        /\ i = Top(t).call /\ F[t][D[t]].at \in {"exec", "close"} /\ F[t][D[t]].call = i
        /\ ~sent[i] /\ copies[i] = {} /\ D[t] \in 1 .. D[t]
  BY Executing, TopOf DEF HandsOver
<1>2. /\ UNCHANGED <<list, pos, mtfork, results, sent, local, stack, replies, deleted, wild>>
      /\ copies' = [copies EXCEPT ![i] = {u}] /\ handed' = handed \cup {i}
  BY <1>1 DEF HandsOver
<1>3. NoCallback(i) /\ i < pos /\ list[i] = "call"
  <2>1. BodyOK(F[t][D[t]])
    BY <1>1 DEF MInv, Bodies, Body
  <2>2. QED
    BY <1>1, <2>1, NotAnswering, Parts DEF BodyOK
<1>4. D' = D /\ F' = F
  BY <1>2 DEF D, F
<1>5. copies' \in [Calls -> SUBSET Thread] /\ copies'[i] = {u} /\ \A j \in Calls : j # i => copies'[j] = copies[j]
  BY <1>2 DEF MInv, TypeOK
<1>6. TypeOK'
  BY <1>2, <1>5 DEF MInv, TypeOK
<1>7. OneRun' /\ OverPosts' /\ OneCallback' /\ Forked' /\ Gone'
  BY <1>2, <1>4 DEF MInv, OneRun, OverPosts, OneCallback, Forked, Gone, Runs
<1>8. \A j \in Int : Joined(j)' <=> Joined(j)
  BY <1>2, <1>4 DEF Joined
<1>9. Bodies'
  BY <1>2, <1>4, <1>8 DEF MInv, Bodies, BodyOK, Calls
<1>10. Callbacks'
  <2> SUFFICES ASSUME NEW v \in Thread, NEW e \in 1 .. D[v], F[v][e].at \in Callback
               PROVE  CallbackOK(v, e)'
    BY <1>4 DEF Callbacks
  <2>1. CallbackOK(v, e) /\ F[v][e].call # i
    BY <1>3 DEF MInv, Callbacks, NoCallback
  <2>2. QED
    BY <1>2, <1>4, <1>5, <2>1 DEF CallbackOK
<1>11. Copies'
  BY <1>2, <1>3, <1>5 DEF MInv, Copies
<1>12. Past'
  BY <1>2, <1>4, <1>8 DEF MInv, Past, Runs, Calls
<1>13. QED
  BY <1>2, <1>6, <1>7, <1>9, <1>10, <1>11, <1>12 DEF MInv

\* run() counts itself and goes on if the callback was there before it, or leaves.
LEMMA ForkKeeps ==
  ASSUME MInv, NEW t \in Thread, Fork(t)
  PROVE  MInv'
<1>1. /\ Stacks /\ Depths /\ Frames /\ stack[t] # <<>> /\ D[t] \in Nat /\ D[t] \in 1 .. D[t]
      /\ F[t][D[t]] \in Frame /\ F[t][D[t]].at = "fork" /\ F[t][D[t]].at \in Body /\ F[t][D[t]].at \in Run
  BY TopOf DEF Fork, Body, Run
<1>2. BodyOK(F[t][D[t]])
  BY <1>1 DEF MInv, Bodies
<1>3. PICK i \in Calls : i = F[t][D[t]].call /\ i = pos - 1 /\ mtfork = IF Joined(i) THEN 1 ELSE 0
  BY <1>2 DEF BodyOK
<1>4. /\ UNCHANGED <<list, pos, results, sent, local, copies, handed, replies, deleted>>
      /\ mtfork' = mtfork + 1 /\ wild' = (wild \/ deleted)
  BY DEF Fork, Use, subVars
<1>5. ~deleted
  BY <1>1 DEF MInv, Gone
<1>6. ~wild' /\ wild' \in BOOLEAN /\ ~deleted'
  BY <1>4, <1>5, Parts, Zenon
<1>7. \A u \in Thread : \A e \in 1 .. D[u] : F[u][e].at \in Run => u = t /\ e = D[t]
  BY <1>1 DEF MInv, OneRun
<1>8. ASSUME NEW u \in Thread, NEW e \in 1 .. D[u], F[u][e].at \in Callback, u # t \/ e <= D[t]
      PROVE  e = 1 /\ CallbackOK(u, e)
  <2>1. CallbackOK(u, e) /\ D[u] \in Nat
    BY <1>8, Parts DEF MInv, Callbacks
  <2>2. e > 1 => e - 1 \in 1 .. D[u] /\ F[u][e - 1].at \in Run
    BY <2>1 DEF CallbackOK, Run
  <2>3. QED
    BY <1>7, <1>8, <2>1, <2>2
<1>9. Copies'
  BY <1>4 DEF MInv, Copies
<1>10. \A j \in Calls : j < pos /\ list[j] = "call" => j = i \/ Joined(j)
  BY <1>3, Parts DEF MInv, Past, Calls
<1>11. CASE Joined(i)
  <2>1. mtfork' = 2
    BY <1>3, <1>4, <1>11
  <2>2. PICK f \in Frame : f = At("next", 0) /\ f.at = "next"
    <3>1. 0 \in 0 .. NCalls
      BY DEF MulticallAssumption
    <3>2. QED
      BY <3>1, AtIsFrame
  <2>3. Continue(t, f)
    BY <2>1, <2>2 DEF Fork, Second
  <2>4. /\ Stacks' /\ D' = D
        /\ \A u \in Thread : \A e \in 1 .. D[u] :
             F'[u][e] = IF u = t /\ e = D[t] THEN f ELSE F[u][e]
    BY <1>1, <2>3, ContinueEffect
  <2>5. TypeOK'
    BY <1>4, <1>6, <2>1, <2>4 DEF MInv, TypeOK, Stacks
  <2>6. Shape'
    <3>1. f.at \notin Callback
      BY <2>2 DEF Callback
    <3>2. QED
      BY <1>1, <2>3, <3>1, Parts, ContinueShape
  <2>7. \A j \in Calls : Joined(j)' <=> Joined(j)
    BY <1>1, <1>4, <2>2, <2>4 DEF Joined
  <2>8. \A u \in Thread : \A e \in 1 .. D[u] : F'[u][e].at \in Run => F'[u][e] = f
    BY <1>7, <2>4
  <2>9. Bodies'
    BY <2>2, <2>4, <2>8 DEF Bodies, Run, Body
  <2>10. Callbacks'
    <3> SUFFICES ASSUME NEW u \in Thread, NEW e \in 1 .. D[u], F'[u][e].at \in Callback
                 PROVE  CallbackOK(u, e)'
      BY <2>4 DEF Callbacks
    <3>1. F'[u][e] = F[u][e]
      BY <2>2, <2>4 DEF Callback
    <3>2. e = 1 /\ CallbackOK(u, e)
      BY <1>1, <1>8, <3>1
    <3>3. F[u][e].at = "post"
      BY <1>3, <1>11, <3>1, Uncounted DEF Callback
    <3>4. QED
      BY <1>4, <3>1, <3>2, <3>3 DEF CallbackOK
  <2>11. Past'
    <3>1. \A j \in Calls : j < pos - 1 => j < pos
      BY Parts DEF Calls
    <3>2. QED
      BY <1>4, <1>10, <1>11, <2>7, <3>1 DEF Past
  <2>12. Forked' /\ Gone'
    BY <1>1, <1>6, <2>2, <2>4 DEF Forked, Gone, Runs
  <2>13. QED
    BY <1>6, <1>9, <2>5, <2>6, <2>9, <2>10, <2>11, <2>12 DEF MInv, Shape
<1>12. CASE ~Joined(i)
  <2>1. mtfork' = 1
    BY <1>3, <1>4, <1>12
  <2>2. Leave(t)
    BY <2>1 DEF Fork, Second
  <2>3. /\ Stacks' /\ D' = [D EXCEPT ![t] = D[t] - 1]
        /\ \A u \in Thread : \A e \in 1 .. D'[u] : F'[u][e] = F[u][e]
    BY <1>1, <2>2, LeaveEffect
  <2>4. /\ \A u \in Thread : u # t => D'[u] = D[u]
        /\ \A u \in Thread : \A e \in 1 .. D'[u] : e \in 1 .. D[u] /\ F'[u][e] = F[u][e] /\ (u # t \/ e < D[t])
        /\ \A u \in Thread : \A e \in 1 .. D[u] : (u = t /\ e = D[t]) \/ e \in 1 .. D'[u]
    BY <1>1, <2>3 DEF Depths
  <2>5. TypeOK'
    BY <1>4, <1>6, <2>1, <2>3 DEF MInv, TypeOK, Stacks
  <2>6. Shape'
    BY <1>1, <2>2, Parts, LeaveShape
  <2>7. \A j \in Calls : Joined(j)' <=> Joined(j)
    <3>1. \A u \in Thread : \A e \in 1 .. D[u] : F[u][e].at = "post" => e \in 1 .. D'[u] /\ F'[u][e] = F[u][e]
      BY <1>1, <2>4
    <3>2. QED
      BY <1>4, <2>4, <3>1 DEF Joined
  <2>8. \A u \in Thread : \A e \in 1 .. D'[u] : F'[u][e].at \notin Run
    <3> SUFFICES ASSUME NEW u \in Thread, NEW e \in 1 .. D'[u], F'[u][e].at \in Run
                 PROVE  FALSE
      OBVIOUS
    <3>1. u = t /\ e = D[t] /\ (u # t \/ e < D[t])
      BY <1>7, <2>4
    <3>2. QED
      BY <1>1, <3>1
  <2>9. Bodies' /\ Gone'
    BY <2>8 DEF Bodies, Gone, Run
  <2>10. Callbacks'
    <3> SUFFICES ASSUME NEW u \in Thread, NEW e \in 1 .. D'[u], F'[u][e].at \in Callback
                 PROVE  CallbackOK(u, e)'
      BY DEF Callbacks
    <3>1. F'[u][e] = F[u][e] /\ e \in 1 .. D[u] /\ (u # t \/ e < D[t])
      BY <2>4
    <3>2. e = 1 /\ CallbackOK(u, e)
      BY <1>1, <1>8, <3>1
    <3>3. u = t => F[u][e].at = "post"
      BY <1>1, <3>1 DEF MInv, OverPosts
    <3>4. QED
      BY <1>4, <2>4, <3>1, <3>2, <3>3 DEF CallbackOK
  <2>11. Past'
    <3>1. ~Runs("next")' /\ ~Runs("finish")'
      BY <2>8 DEF Runs, Run
    <3>2. QED
      BY <1>4, <1>6, <2>7, <3>1 DEF MInv, Past
  <2>12. Forked'
    BY <2>1 DEF Forked
  <2>13. QED
    BY <1>6, <1>9, <2>5, <2>6, <2>9, <2>10, <2>11, <2>12 DEF MInv, Shape
<1>13. QED
  BY <1>11, <1>12

\* A thread that keeps a copy answers, or lets the last reference go.
LEMMA CallsBackLate ==
  ASSUME MInv, NEW t \in Thread, NEW i \in Calls, NEW g \in Frame,
         stack[t] = <<>>, t \in copies[i], ~sent[i], g.at = "push", g.call = i,
         stack' = [stack EXCEPT ![t] = <<g>>],
         UNCHANGED <<list, pos, mtfork, results, sent, local, handed, replies, deleted, wild>>,
         copies' = copies \/ (copies' = [copies EXCEPT ![i] = @ \ {t}] /\ ~local[i])
  PROVE  MInv'
<1>1. /\ Stacks /\ Depths /\ Shape /\ D[t] = 0 /\ NoCallback(i) /\ ~Joined(i)
      /\ i = pos - 1 /\ i < pos /\ list[i] = "call" /\ i \in handed /\ copies[i] = {t}
      /\ ~deleted /\ ~Runs("next") /\ ~Runs("finish") /\ ~wild
  BY Parts, NotAnswered DEF MInv, Past, Copies
<1>2. /\ Stacks' /\ D' = [D EXCEPT ![t] = 1] /\ F'[t][1] = g
      /\ \A u \in Thread : \A d \in 1 .. D[u] : F'[u][d] = F[u][d]
  BY <1>1, StartEffect
<1>3. D'[t] = 1 /\ \A u \in Thread : u # t => D'[u] = D[u]
  BY <1>1, <1>2 DEF Depths
<1>4. /\ \A u \in Thread : \A e \in 1 .. D'[u] :
          \/ u = t /\ e = 1 /\ F'[u][e] = g
          \/ u # t /\ e \in 1 .. D[u] /\ F'[u][e] = F[u][e]
      /\ \A u \in Thread : \A e \in 1 .. D[u] : u # t /\ e \in 1 .. D'[u] /\ F'[u][e] = F[u][e]
  BY <1>1, <1>2, <1>3
<1>5. g.at \notin Run /\ g.at \notin Body /\ g.at \in Callback
  BY DEF Run, Body, Callback
<1>6. Shape'
  <2>1. \A u \in Thread : \A e \in 1 .. D[u] : F[u][e].at \in Callback => F[u][e].call # g.call
    BY <1>1 DEF NoCallback
  <2>2. QED
    BY <1>1, <1>5, <2>1, StartShape
<1>7. /\ copies' \in [Calls -> SUBSET Thread] /\ \A j \in Calls : j # i => copies'[j] = copies[j]
      /\ copies'[i] = {t} \/ (copies'[i] = {} /\ ~local[i])
  BY <1>1 DEF MInv, TypeOK
<1>8. TypeOK'
  BY <1>2, <1>7 DEF MInv, TypeOK, Stacks
<1>9. \A j \in Calls : Joined(j)' <=> Joined(j)
  BY <1>4 DEF Joined
<1>10. Bodies'
  <2> SUFFICES ASSUME NEW u \in Thread, NEW e \in 1 .. D[u], F[u][e].at \in Body, F'[u][e] = F[u][e]
               PROVE  BodyOK(F[u][e])'
    BY <1>4, <1>5 DEF Bodies
  <2>1. BodyOK(F[u][e])
    BY DEF MInv, Bodies
  <2>2. QED
    BY <1>9, <2>1 DEF BodyOK
<1>11. Callbacks'
  <2> SUFFICES ASSUME NEW u \in Thread, NEW e \in 1 .. D'[u], F'[u][e].at \in Callback
               PROVE  CallbackOK(u, e)'
    BY DEF Callbacks
  <2>1. CASE u = t /\ e = 1 /\ F'[u][e] = g
    BY <1>1, <1>3, <1>7, <2>1 DEF CallbackOK
  <2>2. CASE u # t /\ e \in 1 .. D[u] /\ F'[u][e] = F[u][e]
    <3>1. CallbackOK(u, e) /\ F[u][e].call # i
      BY <1>1, <2>2 DEF MInv, Callbacks, NoCallback
    <3>2. e > 1 => F'[u][e - 1] = F[u][e - 1]
      BY <1>1, <1>2, <2>2 DEF Depths
    <3>3. QED
      BY <1>3, <1>7, <2>2, <3>1, <3>2 DEF CallbackOK
  <2>3. QED
    BY <1>4, <2>1, <2>2
<1>12. Copies'
  BY <1>1, <1>7 DEF MInv, Copies
<1>13. \A where \in {"next", "finish"} : ~Runs(where)'
  BY <1>1, <1>4, <1>5 DEF Runs, Run
<1>14. Past' /\ Gone'
  BY <1>1, <1>9, <1>13 DEF MInv, Past, Gone
<1>15. Forked'
  BY <1>1 DEF MInv, Forked
<1>16. QED
  BY <1>1, <1>6, <1>8, <1>10, <1>11, <1>12, <1>14, <1>15 DEF MInv, Shape

\* A thread answers the request it was given.
LEMMA AnswersLateKeeps ==
  ASSUME MInv, NEW t \in Thread, NEW i \in Calls, NEW kind \in Kind, AnswersLate(t, i, kind)
  PROVE  MInv'
<1>1. PICK g \in Frame : g = [at |-> "push", call |-> i, kind |-> kind] /\ g.at = "push" /\ g.call = i
  <2>1. i \in 0 .. NCalls
    BY DEF Calls
  <2>2. QED
    BY <2>1, PushIsFrame
<1>2. QED
  BY <1>1, CallsBackLate DEF AnswersLate, subVars

\* A thread lets its copy go; the last one answers the request by that.
LEMMA LetsGoKeeps ==
  ASSUME MInv, NEW t \in Thread, NEW i \in Calls, LetsGo(t, i)
  PROVE  MInv'
<1>1. PICK g \in Frame : g = [at |-> "push", call |-> i, kind |-> "error"] /\ g.at = "push" /\ g.call = i
  <2>1. i \in 0 .. NCalls
    BY DEF Calls
  <2>2. QED
    BY <2>1, PushIsFrame DEF Kind
<1>2. /\ UNCHANGED <<list, pos, mtfork, results, sent, local, handed, replies, deleted, wild>>
      /\ copies' = [copies EXCEPT ![i] = @ \ {t}] /\ stack[t] = <<>> /\ t \in copies[i]
      /\ IF Orphaned(i) THEN stack' = [stack EXCEPT ![t] = <<g>>] ELSE UNCHANGED stack
  BY <1>1 DEF LetsGo
<1>3. /\ copies' \in [Calls -> SUBSET Thread] /\ \A j \in Calls : j # i => copies'[j] = copies[j]
      /\ copies'[i] = {}
  BY <1>2 DEF MInv, TypeOK, Copies
<1>4. CASE Orphaned(i)
  BY <1>1, <1>2, <1>4, CallsBackLate DEF Orphaned
<1>5. CASE ~Orphaned(i)
  <2>1. D' = D /\ F' = F /\ UNCHANGED stack
    BY <1>2, <1>5 DEF D, F
  <2>2. ASSUME NEW u \in Thread, NEW e \in 1 .. D[u], F[u][e].at \in Callback
        PROVE  CallbackOK(u, e) /\ F[u][e].call # i
    <3>1. CallbackOK(u, e)
      BY <2>2 DEF MInv, Callbacks
    <3>2. CASE sent[i]
      BY <3>1, <3>2 DEF CallbackOK
    <3>3. CASE ~sent[i]
      BY <1>2, <2>2, <3>1, <3>3, NotAnswered DEF NoCallback
    <3>4. QED
      BY <3>1, <3>2, <3>3
  <2>3. \A j \in Int : Joined(j)' <=> Joined(j)
    BY <1>2, <2>1 DEF Joined
  <2>4. TypeOK'
    BY <1>2, <1>3, <2>1 DEF MInv, TypeOK
  <2>5. OneRun' /\ OverPosts' /\ OneCallback' /\ Forked' /\ Gone'
    BY <1>2, <2>1 DEF MInv, OneRun, OverPosts, OneCallback, Forked, Gone, Runs
  <2>6. Bodies'
    BY <1>2, <2>1, <2>3 DEF MInv, Bodies, BodyOK, Calls
  <2>7. Callbacks'
    <3> SUFFICES ASSUME NEW u \in Thread, NEW e \in 1 .. D[u], F[u][e].at \in Callback
                 PROVE  CallbackOK(u, e)'
      BY <2>1 DEF Callbacks
    <3>1. QED
      BY <1>2, <1>3, <2>1, <2>2 DEF CallbackOK
  <2>8. Copies'
    BY <1>2, <1>3 DEF MInv, Copies
  <2>9. Past'
    BY <1>2, <2>1, <2>3 DEF MInv, Past, Runs, Calls
  <2>10. QED
    BY <1>2, <2>4, <2>5, <2>6, <2>7, <2>8, <2>9 DEF MInv
<1>6. QED
  BY <1>4, <1>5

\* The invariant holds at the start.
LEMMA InitMInv == Init => MInv
<1> SUFFICES ASSUME Init PROVE MInv
  OBVIOUS
<1>1. PICK f \in Frame : f = At("next", 0) /\ f.at = "next"
  <2>1. 0 \in 0 .. NCalls
    BY DEF MulticallAssumption
  <2>2. QED
    BY <2>1, AtIsFrame
<1>2. stack = [t \in Thread |-> IF t = Main THEN <<f>> ELSE <<>>] /\ Main \in Thread
  BY <1>1 DEF Init, MulticallAssumption
<1>3. <<f>> \in Seq(Frame) /\ Len(<<f>>) = 1 /\ <<f>>[1] = f /\ <<>> \in Seq(Frame) /\ Len(<<>>) = 0
  OBVIOUS
<1>4. Stacks /\ \A t \in Thread : D[t] = IF t = Main THEN 1 ELSE 0
  BY <1>2, <1>3 DEF Stacks, D
<1>5. F[Main][1] = f
  BY <1>2, <1>3 DEF F, Flip
<1>6. \A t \in Thread : \A d \in 1 .. D[t] : t = Main /\ d = 1 /\ F[t][d] = f
  BY <1>4, <1>5
<1>7. f.at \notin Body /\ f.at \notin Callback
  BY <1>1 DEF Body, Callback
<1>8. TypeOK /\ ~wild
  <2>1. stack \in [Thread -> Seq(Frame)]
    BY <1>4 DEF Stacks
  <2>2. results \in Seq([call : Calls, kind : Kind]) /\ pos \in 1 .. NCalls + 1 /\ mtfork \in 0 .. 2 /\ replies \in Nat
    BY DEF Init, MulticallAssumption
  <2>3. /\ list \in [Calls -> {"call", "junk"}] /\ sent \in [Calls -> BOOLEAN] /\ local \in [Calls -> BOOLEAN]
        /\ copies \in [Calls -> SUBSET Thread] /\ handed \subseteq Calls
        /\ deleted \in BOOLEAN /\ wild \in BOOLEAN /\ ~wild
    BY DEF Init
  <2>4. QED
    BY <2>1, <2>2, <2>3 DEF TypeOK
<1>9. OneRun /\ OneCallback /\ Bodies /\ Callbacks
  BY <1>6, <1>7 DEF OneRun, OneCallback, Bodies, Callbacks
<1>10. OverPosts
  BY <1>4, <1>6 DEF OverPosts
<1>11. Copies /\ Past /\ Forked /\ Gone
  BY DEF Init, Copies, Past, Forked, Gone, Calls
<1>12. QED
  BY <1>8, <1>9, <1>10, <1>11 DEF MInv

\* It depends on the variables alone.
LEMMA StutterMInv == MInv /\ UNCHANGED vars => MInv'
<1> SUFFICES ASSUME MInv, UNCHANGED vars PROVE MInv'
  OBVIOUS
<1>1. D' = D /\ F' = F /\ UNCHANGED <<list, pos, mtfork, results, sent, local, copies, handed, stack, replies, deleted, wild>>
  BY DEF vars, subVars, D, F
<1>2. \A j : Joined(j)' <=> Joined(j)
  BY <1>1 DEF Joined
<1>3. QED
  <2>1. TypeOK' /\ ~wild'
    BY <1>1 DEF MInv, TypeOK
  <2>2. OneRun' /\ OverPosts' /\ OneCallback'
    BY <1>1 DEF MInv, OneRun, OverPosts, OneCallback
  <2>3. Bodies'
    BY <1>1, <1>2 DEF MInv, Bodies, BodyOK
  <2>4. Callbacks'
    BY <1>1 DEF MInv, Callbacks, CallbackOK
  <2>5. Copies' /\ Past' /\ Forked' /\ Gone'
    BY <1>1, <1>2 DEF MInv, Copies, Past, Runs, Forked, Gone
  <2>6. QED
    BY <2>1, <2>2, <2>3, <2>4, <2>5 DEF MInv

\* Every step keeps it.
LEMMA NextMInv == ~LateThrow /\ MInv /\ Next => MInv'
<1> SUFFICES ASSUME ~LateThrow, MInv, NEW t \in Thread, Step(t) \/ Copy(t) PROVE MInv'
  BY DEF Next
<1>1. CASE Step(t)
  BY <1>1, NextCallKeeps, NextEndsKeeps, ReturnsKeeps, ThrowsKeeps, CloseKeeps, ForkKeeps, FinishKeeps,
     PushKeeps, JoinKeeps, PostKeeps, AnswersKeeps, HandsOverKeeps DEF Step
<1>2. CASE Copy(t)
  BY <1>2, LetsGoKeeps, AnswersLateKeeps DEF Copy
<1>3. QED
  BY <1>1, <1>2

\* It holds in every state, when no method throws after it answered or handed over.
LEMMA MInvAlways == ASSUME ~LateThrow PROVE Spec => []MInv
  BY InitMInv, NextMInv, StutterMInv, PTL DEF Spec

\* Two threads at work on the context at once would be two runs, two callbacks of one
\* call, or a run that goes on before the callback is counted.
LEMMA MInvExclusive == MInv => Exclusive
<1> SUFFICES ASSUME MInv, NEW t \in Thread, NEW u \in Thread, stack[t] # <<>>, stack[u] # <<>>, t # u,
                    {Top(t).at, Top(u).at} \subseteq {"next", "push", "finish"}
             PROVE  FALSE
  BY DEF Exclusive
<1>1. /\ D[t] \in 1 .. D[t] /\ Top(t) = F[t][D[t]] /\ D[u] \in 1 .. D[u] /\ Top(u) = F[u][D[u]]
  BY Parts, StackTypes DEF Top
<1>2. CASE Top(t).at = "push" /\ Top(u).at = "push"
  BY <1>1, <1>2, Uncounted DEF MInv, OneCallback, Callback
<1>3. CASE Top(t).at \in {"next", "finish"} /\ Top(u).at \in {"next", "finish"}
  BY <1>1, <1>3 DEF MInv, OneRun, Run
<1>4. CASE Top(t).at = "push" /\ Top(u).at \in {"next", "finish"}
  BY <1>1, <1>4, Uncounted DEF Runs
<1>5. CASE Top(u).at = "push" /\ Top(t).at \in {"next", "finish"}
  BY <1>1, <1>5, Uncounted DEF Runs
<1>6. QED
  BY <1>2, <1>3, <1>4, <1>5

\* run() is never executed inside run().
LEMMA MInvNoRecursion == MInv => NoRecursion
<1> SUFFICES ASSUME MInv, NEW t \in Thread, NEW m \in 1 .. Len(stack[t]), NEW n \in 1 .. Len(stack[t]),
                    stack[t][m].at \in Run, stack[t][n].at \in Run
             PROVE  m = n
  BY DEF NoRecursion, Run, Body
<1>1. D[t] = Len(stack[t]) /\ D[t] \in Nat /\ m \in 1 .. D[t] /\ n \in 1 .. D[t]
  BY Parts DEF D
<1>2. stack[t][m] = F[t][D[t] + 1 - m] /\ stack[t][n] = F[t][D[t] + 1 - n]
  BY <1>1, Parts, StackTypes
<1>3. D[t] + 1 - m \in 1 .. D[t] /\ D[t] + 1 - n \in 1 .. D[t]
  BY <1>1
<1>4. D[t] + 1 - m = D[t] + 1 - n
  BY <1>2, <1>3 DEF MInv, OneRun
<1>5. QED
  BY <1>1, <1>4

\* The MulticallContext has no lock and deletes itself: whoever is at work on it is alone,
\* and nobody uses it afterwards; for any number of threads and calls.
THEOREM MulticallSafe == ASSUME ~LateThrow PROVE Spec => []ContextSafe
<1>1. MInv => ContextSafe
  BY MInvExclusive DEF MInv, ContextSafe, NoUseAfterDelete
<1>2. QED
  BY <1>1, MInvAlways, PTL

\* However many calls are answered at once, the stack does not grow: run() is a loop.
THEOREM MulticallLoops == ASSUME ~LateThrow PROVE Spec => []NoRecursion
  BY MInvNoRecursion, MInvAlways, PTL

-----------------------------------------------------------------------------
(* The refinement *)

\* n calls come before the first entry that has no method.
IsServed(n) ==
  /\ n \in 0 .. NCalls
  /\ \A i \in 1 .. n : list[i] = "call"
  /\ n < NCalls => list[n + 1] = "junk"

\* There is one such n.
LEMMA ServedUnique ==
  ASSUME NEW m, NEW n, IsServed(m), IsServed(n)
  PROVE  m = n
<1>1. m \in Int /\ n \in Int /\ m \in 0 .. NCalls /\ n \in 0 .. NCalls
  BY DEF IsServed
<1>2. CASE m < n
  <2>1. m + 1 \in 1 .. n /\ m < NCalls
    BY <1>1, <1>2
  <2>2. QED
    BY <2>1 DEF IsServed
<1>3. CASE n < m
  <2>1. n + 1 \in 1 .. m /\ n < NCalls
    BY <1>1, <1>3
  <2>2. QED
    BY <2>1 DEF IsServed
<1>4. QED
  BY <1>1, <1>2, <1>3

\* Served is such an n: the least one with no call after it.
LEMMA ServedExists ==
  ASSUME TypeOK
  PROVE  IsServed(Served)
<1> DEFINE T == {n \in 0 .. NCalls : n < NCalls => list[n + 1] = "junk"}
<1>1. T \subseteq Nat /\ NCalls \in T
  BY DEF MulticallAssumption
<1>2. PICK n \in T : \A m \in T : n <= m
  <2> HIDE DEF T
  <2>1. QED
    BY <1>1, Least
<1>3. ASSUME NEW i \in 1 .. n PROVE list[i] = "call"
  <2>1. i - 1 \in 0 .. NCalls /\ i - 1 \notin T /\ i - 1 + 1 = i /\ i \in Calls
    BY <1>2 DEF Calls
  <2>2. list[i] # "junk"
    BY <2>1
  <2>3. QED
    BY <2>1, <2>2 DEF TypeOK
<1>4. IsServed(n)
  BY <1>3 DEF IsServed
<1>5. Served = CHOOSE m \in 0 .. NCalls : IsServed(m)
  BY DEF Served, IsServed
<1>6. \E m \in 0 .. NCalls : IsServed(m)
  BY <1>4
<1>7. QED
  BY <1>5, <1>6

\* Served is that n.
LEMMA ServedIs ==
  ASSUME TypeOK, NEW n, IsServed(n)
  PROVE  Served = n
  BY ServedExists, ServedUnique

\* The frames the list of results depends on, and a step that keeps them.
Matters == {"join", "post", "finish"}
SameMatters ==
  \A where \in Matters : /\ Runs(where)' <=> Runs(where)
                         /\ \A i : Has(where, i)' <=> Has(where, i)

\* Going on among the other frames keeps them.
LEMMA QuietContinue ==
  ASSUME Stacks, NEW t \in Thread, stack[t] # <<>>, NEW f \in Frame, Continue(t, f),
         F[t][D[t]].at \notin Matters, f.at \notin Matters
  PROVE  SameMatters
<1>1. /\ D' = D
      /\ \A u \in Thread : \A d \in 1 .. D[u] : F'[u][d] = IF u = t /\ d = D[t] THEN f ELSE F[u][d]
  BY ContinueEffect
<1>2. ASSUME NEW u \in Thread, NEW d \in 1 .. D[u], NEW where \in Matters
      PROVE  /\ F'[u][d].at = where <=> F[u][d].at = where
             /\ F[u][d].at = where => F'[u][d].call = F[u][d].call
  BY <1>1
<1>3. QED
  BY <1>1, <1>2 DEF SameMatters, Runs, Has

\* So does entering another frame,
LEMMA QuietEnter ==
  ASSUME Stacks, NEW t \in Thread, stack[t] # <<>>, NEW f \in Frame, NEW g \in Frame, Enter(t, f, g),
         F[t][D[t]].at \notin Matters, f.at \notin Matters, g.at \notin Matters
  PROVE  SameMatters
<1>1. /\ D' = [D EXCEPT ![t] = D[t] + 1] /\ F'[t][D[t] + 1] = g /\ Depths
      /\ \A u \in Thread : \A d \in 1 .. D[u] : F'[u][d] = IF u = t /\ d = D[t] THEN f ELSE F[u][d]
  BY EnterEffect, StackTypes
<1>2. \A u \in Thread : /\ \A d \in 1 .. D'[u] : d \in 1 .. D[u] \/ (u = t /\ d = D[t] + 1)
                        /\ \A d \in 1 .. D[u] : d \in 1 .. D'[u]
  BY <1>1 DEF Depths
<1>3. ASSUME NEW u \in Thread, NEW d \in 1 .. D[u], NEW where \in Matters
      PROVE  /\ F'[u][d].at = where <=> F[u][d].at = where
             /\ F[u][d].at = where => F'[u][d].call = F[u][d].call
  BY <1>1
<1>4. \A u \in Thread : \A d \in 1 .. D'[u] : F'[u][d].at \in Matters => d \in 1 .. D[u]
  BY <1>1, <1>2
<1>5. QED
  BY <1>2, <1>3, <1>4 DEF SameMatters, Runs, Has

\* leaving one,
LEMMA QuietLeave ==
  ASSUME Stacks, NEW t \in Thread, stack[t] # <<>>, Leave(t), F[t][D[t]].at \notin Matters
  PROVE  SameMatters
<1>1. /\ D' = [D EXCEPT ![t] = D[t] - 1] /\ Depths
      /\ \A u \in Thread : \A d \in 1 .. D'[u] : F'[u][d] = F[u][d]
  BY LeaveEffect, StackTypes
<1>2. \A u \in Thread : /\ \A d \in 1 .. D'[u] : d \in 1 .. D[u]
                        /\ \A d \in 1 .. D[u] : d \in 1 .. D'[u] \/ (u = t /\ d = D[t])
  BY <1>1 DEF Depths
<1>3. \A u \in Thread : \A d \in 1 .. D[u] : F[u][d].at \in Matters => d \in 1 .. D'[u]
  BY <1>2
<1>4. QED
  BY <1>1, <1>2, <1>3 DEF SameMatters, Runs, Has

\* starting one,
LEMMA QuietStart ==
  ASSUME Stacks, NEW t \in Thread, stack[t] = <<>>, NEW g \in Frame,
         stack' = [stack EXCEPT ![t] = <<g>>], g.at \notin Matters
  PROVE  SameMatters
<1>1. /\ D[t] = 0 /\ D' = [D EXCEPT ![t] = 1] /\ F'[t][1] = g /\ Depths
      /\ \A u \in Thread : \A d \in 1 .. D[u] : F'[u][d] = F[u][d]
  BY StartEffect, StackTypes
<1>2. \A u \in Thread : /\ \A d \in 1 .. D'[u] : d \in 1 .. D[u] \/ (u = t /\ d = 1)
                        /\ \A d \in 1 .. D[u] : d \in 1 .. D'[u]
  BY <1>1 DEF Depths
<1>3. \A u \in Thread : \A d \in 1 .. D'[u] : F'[u][d].at \in Matters => d \in 1 .. D[u]
  BY <1>1, <1>2
<1>4. QED
  BY <1>1, <1>2, <1>3 DEF SameMatters, Runs, Has

\* and doing nothing.
LEMMA QuietSame ==
  ASSUME UNCHANGED stack PROVE SameMatters
<1>1. D' = D /\ F' = F
  BY DEF D, F
<1>2. QED
  BY <1>1 DEF SameMatters, Runs, Has

\* The steps that neither collect a result nor look at the list.
Quiet == SameMatters /\ UNCHANGED <<list, pos, results, sent, replies, deleted>>

\* Such steps keep Listed.
LEMMA QuietListed ==
  ASSUME MInv, Listed, Quiet
  PROVE  Listed'
<1>1. \A i : Pushed(i)' <=> Pushed(i)
  BY DEF Quiet, SameMatters, Matters, Pushed
<1>2. Ended' <=> Ended
  BY DEF Quiet, SameMatters, Matters, Ended
<1>3. Served' = Served
  BY DEF Quiet, Served
<1>4. QED
  BY <1>1, <1>2, <1>3 DEF Quiet, Listed

\* All steps of a call but those of its callback are of that kind.
LEMMA QuietSteps ==
  ASSUME MInv, NEW t \in Thread,
         \/ Returns(t) \/ Throws(t) \/ Close(t) \/ Fork(t)
         \/ (\E kind \in Kind : Answers(t, kind)) \/ (\E u \in Thread : HandsOver(t, u)) \/ Copy(t)
  PROVE  Quiet
<1>1. Stacks
  BY Parts
<1>2. CASE Returns(t)
  <2>1. /\ stack[t] # <<>> /\ Top(t).call \in 0 .. NCalls /\ F[t][D[t]].at \notin Matters
    BY <1>2, Executing DEF Returns, Matters
  <2>2. PICK f \in Frame : f = At("close", Top(t).call) /\ f.at = "close"
    BY <2>1, AtIsFrame
  <2>3. SameMatters
    BY <1>1, <1>2, <2>1, <2>2, QuietContinue DEF Returns, Matters
  <2>4. QED
    BY <1>2, <2>3 DEF Quiet, Returns, subVars
<1>3. CASE Throws(t)
  <2>1. /\ stack[t] # <<>> /\ Top(t).call \in 0 .. NCalls /\ F[t][D[t]].at \notin Matters
    BY <1>3, Executing DEF Throws, Matters
  <2>2. PICK f \in Frame : f = At("close", Top(t).call) /\ f.at = "close"
    BY <2>1, AtIsFrame
  <2>3. PICK g \in Frame : g = [at |-> "push", call |-> Top(t).call, kind |-> "error"] /\ g.at = "push"
    <3>1. Top(t).call \in 0 .. NCalls /\ "error" \in Kind
      BY <2>1 DEF Kind
    <3>2. QED
      BY <3>1, PushIsFrame
  <2>4. SameMatters
    BY <1>1, <1>3, <2>1, <2>2, <2>3, QuietEnter DEF Throws, Matters
  <2>5. QED
    BY <1>3, <2>4 DEF Quiet, Throws, subVars
<1>4. CASE Close(t)
  <2>1. /\ stack[t] # <<>> /\ Top(t).call \in 0 .. NCalls /\ F[t][D[t]].at \notin Matters
    BY <1>4, Executing DEF Close, Matters
  <2>2. PICK f \in Frame : f = At("fork", Top(t).call) /\ f.at = "fork"
    BY <2>1, AtIsFrame
  <2>3. PICK g \in Frame : g = [at |-> "push", call |-> Top(t).call, kind |-> "error"] /\ g.at = "push"
    <3>1. Top(t).call \in 0 .. NCalls /\ "error" \in Kind
      BY <2>1 DEF Kind
    <3>2. QED
      BY <3>1, PushIsFrame
  <2>4. Enter(t, f, g) \/ Continue(t, f)
    BY <1>4, <2>2, <2>3 DEF Close
  <2>5. SameMatters
    BY <1>1, <2>1, <2>2, <2>3, <2>4, QuietEnter, QuietContinue DEF Matters
  <2>6. QED
    BY <1>4, <2>5 DEF Quiet, Close
<1>5. CASE Fork(t)
  <2>1. stack[t] # <<>> /\ F[t][D[t]].at \notin Matters
    BY <1>5, TopOf DEF Fork, Matters
  <2>2. PICK f \in Frame : f = At("next", 0) /\ f.at = "next"
    <3>1. 0 \in 0 .. NCalls
      BY DEF MulticallAssumption
    <3>2. QED
      BY <3>1, AtIsFrame
  <2>3. Leave(t) \/ Continue(t, f)
    BY <1>5, <2>2 DEF Fork
  <2>4. SameMatters
    BY <1>1, <2>1, <2>2, <2>3, QuietLeave, QuietContinue DEF Matters
  <2>5. QED
    BY <1>5, <2>4 DEF Quiet, Fork, subVars
<1>6. CASE \E kind \in Kind : Answers(t, kind)
  <2> PICK kind \in Kind : Answers(t, kind)
    BY <1>6
  <2>1. Running(t, "exec")
    BY DEF Answers
  <2>2. /\ stack[t] # <<>> /\ Top(t).call \in 0 .. NCalls /\ F[t][D[t]].at \notin Matters /\ Top(t) = F[t][D[t]]
    BY <2>1, Executing DEF Matters
  <2>3. PICK f \in Frame : f = Top(t)
    BY <2>1, Executing
  <2>4. PICK g \in Frame : g = [at |-> "push", call |-> Top(t).call, kind |-> kind] /\ g.at = "push"
    <3>1. Top(t).call \in 0 .. NCalls
      BY <2>2
    <3>2. QED
      BY <3>1, PushIsFrame
  <2>5. Enter(t, f, g)
    BY <2>3, <2>4 DEF Answers
  <2>6. SameMatters
    BY <1>1, <2>2, <2>3, <2>4, <2>5, QuietEnter DEF Matters
  <2>7. QED
    BY <2>6 DEF Quiet, Answers, subVars
<1>7. CASE \E u \in Thread : HandsOver(t, u)
  BY <1>7, QuietSame DEF HandsOver, Quiet
<1>8. CASE Copy(t)
  <2> PICK i \in Calls : LetsGo(t, i) \/ \E kind \in Kind : AnswersLate(t, i, kind)
    BY <1>8 DEF Copy
  <2>1. i \in 0 .. NCalls
    BY DEF Calls
  <2>2. ASSUME NEW kind \in Kind, stack[t] = <<>>,
               stack' = [stack EXCEPT ![t] = <<[at |-> "push", call |-> i, kind |-> kind]>>]
        PROVE  SameMatters
    <3>1. PICK g \in Frame : g = [at |-> "push", call |-> i, kind |-> kind] /\ g.at = "push"
      BY <2>1, PushIsFrame
    <3>2. QED
      BY <1>1, <2>2, <3>1, QuietStart DEF Matters
  <2>3. CASE \E kind \in Kind : AnswersLate(t, i, kind)
    BY <2>2, <2>3 DEF AnswersLate, Quiet, subVars
  <2>4. CASE LetsGo(t, i)
    <3>1. SameMatters
      BY <2>2, <2>4, QuietSame DEF LetsGo, Kind
    <3>2. QED
      BY <2>4, <3>1 DEF LetsGo, Quiet
  <2>5. QED
    BY <2>3, <2>4
<1>9. QED
  BY <1>2, <1>3, <1>4, <1>5, <1>6, <1>7, <1>8

\* A callback pushes: the list gets the entry of the next call in order.
LEMMA PushCollects ==
  ASSUME MInv, Listed, NEW t \in Thread, Push(t)
  PROVE  /\ Listed'
         /\ \E kind \in Kind : SC!Collect(kind)
<1>1. /\ Stacks /\ stack[t] # <<>> /\ D[t] \in Nat /\ D[t] \in 1 .. D[t]
      /\ Top(t) = F[t][D[t]] /\ Top(t) \in Frame /\ Top(t).at = "push"
  BY TopOf DEF Push
<1>2. PICK i \in Calls : i = Top(t).call /\ i = pos - 1
  BY <1>1, Uncounted
<1>3. PICK f \in Frame : f = At("join", i) /\ f.at = "join" /\ f.call = i
  <2>1. i \in 0 .. NCalls
    BY <1>2 DEF Calls
  <2>2. QED
    BY <2>1, AtIsFrame
<1>4. PICK kind \in Kind : kind = Top(t).kind
  BY <1>1 DEF Frame
<1>5. /\ D' = D
      /\ \A u \in Thread : \A e \in 1 .. D[u] : F'[u][e] = IF u = t /\ e = D[t] THEN f ELSE F[u][e]
  BY <1>1, <1>2, <1>3, ContinueEffect DEF Push
<1>6. /\ UNCHANGED <<list, pos, sent, replies, deleted>>
      /\ results' = results \o <<[call |-> i, kind |-> kind]>>
  BY <1>2, <1>4 DEF Push, subVars, Entry
<1>7. ~Ended /\ ~Ended'
  <2>1. ~deleted /\ ~Runs("finish")
    BY <1>1, Uncounted
  <2>2. QED
    BY <1>3, <1>5, <1>6, <2>1 DEF Ended, Runs
<1>8. ~Pushed(i)
  <2>1. /\ ~sent[i]
        /\ \A u \in Thread : \A e \in 1 .. D[u] : F[u][e].at \in {"post", "join"} => F[u][e].call # i
    BY <1>1, <1>2 DEF MInv, Callbacks, CallbackOK, OneCallback, Callback
  <2>2. QED
    BY <2>1 DEF Pushed, Has
<1>9. Pushed(i)'
  BY <1>1, <1>3, <1>5 DEF Pushed, Has
<1>10. i \in Nat /\ i >= 1 /\ pos = i + 1 /\ results \in Seq([call : Calls, kind : Kind])
  BY <1>2, Parts DEF Calls, MInv, TypeOK
<1>11. Len(results) = i - 1
  BY <1>2, <1>7, <1>8, <1>10 DEF Listed
<1>12. results' = Append(results, [call |-> i, kind |-> kind]) /\ Len(results') = i
       /\ results'[i].call = i /\ \A n \in 1 .. i - 1 : results'[n] = results[n]
  BY <1>6, <1>10, <1>11
<1>13. Listed'
  <2>1. \A n \in 1 .. Len(results') : results'[n].call = n
    BY <1>10, <1>11, <1>12 DEF Listed
  <2>2. \A j \in 1 .. pos' - 1 : list'[j] = "call"
    BY <1>6, <1>7 DEF Listed
  <2>5. Pushed(pos - 1)'
    <3>1. pos' - 1 = i
      BY <1>6, <1>10
    <3>2. QED
      BY <1>9, <3>1 DEF Pushed, Has
  <2>6. Len(results') = IF pos' = 1 THEN 0 ELSE IF Pushed(pos - 1)' THEN pos' - 1 ELSE pos' - 2
    BY <1>6, <1>10, <1>12, <2>5
  <2>3. replies' = IF deleted' THEN 1 ELSE 0
    BY <1>6 DEF Listed
  <2>4. QED
    BY <1>7, <2>1, <2>2, <2>3, <2>6 DEF Listed
<1>14. Len(results) < Served
  <2>1. IsServed(Served) /\ Served \in Int
    BY ServedExists DEF MInv, IsServed
  <2>2. CASE Served < i
    <3>1. Served + 1 \in 1 .. pos - 1 /\ Served < NCalls
      BY <1>10, <2>1, <2>2 DEF IsServed, Calls
    <3>2. QED
      BY <1>7, <2>1, <3>1 DEF IsServed, Listed
  <2>3. QED
    BY <1>10, <1>11, <2>1, <2>2
<1>15. Served' = Served
  BY <1>6 DEF Served
<1>16. replies = 0
  BY <1>7 DEF Listed, Ended
<1>17. SC!Collect(kind)
  BY <1>6, <1>10, <1>11, <1>12, <1>14, <1>15, <1>16 DEF SC!Collect
<1>18. QED
  BY <1>13, <1>17

\* The end of run() sends the reply, when the list has an entry for each call.
LEMMA FinishReplies ==
  ASSUME MInv, Listed, NEW t \in Thread, Finish(t)
  PROVE  Listed' /\ SC!Reply
<1>1. /\ D[t] \in 1 .. D[t] /\ F[t][D[t]].at = "finish"
  BY TopOf DEF Finish
<1>2. Runs("finish") /\ ~deleted
  BY <1>1 DEF MInv, Gone, Run, Runs
<1>3. /\ UNCHANGED <<list, pos, results, sent>> /\ replies' = replies + 1 /\ deleted' = TRUE
  BY DEF Finish, subVars
<1>4. Served' = Served
  BY <1>3 DEF Served
<1>5. Ended /\ Ended' /\ replies = 0 /\ Len(results) = Served
  BY <1>2, <1>3 DEF Ended, Listed
<1>6. Listed'
  BY <1>3, <1>4, <1>5 DEF Listed
<1>7. QED
  BY <1>3, <1>4, <1>5, <1>6 DEF SC!Reply

\* run() goes to the next call when the last one is in the list.
LEMMA NextCallListed ==
  ASSUME MInv, Listed, NEW t \in Thread, NextCall(t)
  PROVE  Listed'
<1>1. /\ Stacks /\ stack[t] # <<>> /\ D[t] \in 1 .. D[t] /\ F[t][D[t]].at = "next" /\ Running(t, "next")
  BY TopOf DEF NextCall
<1>2. PICK i \in Calls : i = pos /\ list[i] = "call"
  BY Parts DEF NextCall, More, Calls
<1>3. PICK f \in Frame : f = At("exec", i) /\ f.at = "exec"
  <2>1. i \in 0 .. NCalls
    BY <1>2 DEF Calls
  <2>2. QED
    BY <2>1, AtIsFrame
<1>4. /\ UNCHANGED <<list, results, sent, replies, deleted>> /\ pos' = i + 1 /\ Continue(t, f)
  BY <1>2, <1>3 DEF NextCall
<1>5. SameMatters
  BY <1>1, <1>3, <1>4, QuietContinue DEF Matters
<1>6. /\ ~deleted /\ \A u \in Thread : \A e \in 1 .. D[u] : F[u][e].at \in Run => u = t /\ e = D[t]
      /\ \A j \in Calls : j < pos /\ list[j] = "call" => Joined(j)
      /\ \A u \in Thread : \A e \in 1 .. D[u] : F[u][e].at \in Callback => F[u][e].at = "post"
  BY <1>1, Between
<1>7. ~Ended /\ ~Ended'
  <2>1. ~Runs("finish")
    BY <1>1, <1>6 DEF Runs, Run
  <2>2. QED
    BY <1>4, <1>5, <1>6, <2>1 DEF Ended, SameMatters, Matters
<1>8. ~Pushed(i)'
  <2>1. ~sent[i]
    BY <1>2 DEF MInv, Copies, Calls
  <2>2. \A u \in Thread : \A e \in 1 .. D[u] : F[u][e].at \in Callback => F[u][e].call < pos
    BY DEF MInv, Callbacks, CallbackOK
  <2>3. ~Has("post", i) /\ ~Has("join", i)
    BY <1>2, <2>2 DEF Has, Callback, Calls
  <2>4. QED
    BY <1>4, <1>5, <2>1, <2>3 DEF Pushed, SameMatters, Matters
<1>9. Len(results) = i - 1
  <2>1. CASE pos = 1
    BY <1>2, <1>7, <2>1 DEF Listed
  <2>2. CASE pos # 1
    <3>1. pos - 1 \in Calls /\ pos - 1 < pos /\ pos - 1 \in 1 .. pos - 1
      BY <2>2, Parts DEF Calls
    <3>2. list[pos - 1] = "call"
      BY <1>7, <3>1 DEF Listed
    <3>3. Joined(pos - 1)
      BY <1>6, <3>1, <3>2
    <3>4. Pushed(pos - 1)
      BY <3>3 DEF Joined, Pushed, Has
    <3>5. QED
      BY <1>2, <1>7, <2>2, <3>4 DEF Listed
  <2>3. QED
    BY <2>1, <2>2
<1>10. i \in Int /\ i >= 1
  BY DEF Calls
<1>11. /\ \A n \in 1 .. Len(results') : results'[n].call = n
       /\ replies' = IF deleted' THEN 1 ELSE 0
  BY <1>4 DEF Listed
<1>12. pos' # 1 /\ pos' - 1 = i /\ pos' - 2 = i - 1
  BY <1>4, <1>10
<1>13. \A j \in 1 .. pos' - 1 : list'[j] = "call"
  <2>1. \A j \in 1 .. i : j = i \/ j \in 1 .. pos - 1
    BY <1>2, <1>10
  <2>2. QED
    BY <1>2, <1>4, <1>7, <1>12, <2>1 DEF Listed
<1>14. Len(results') = IF pos' = 1 THEN 0 ELSE IF Pushed(pos - 1)' THEN pos' - 1 ELSE pos' - 2
  <2>1. ~Pushed(pos - 1)'
    BY <1>8, <1>12 DEF Pushed, Has
  <2>2. QED
    BY <1>4, <1>9, <1>12, <2>1
<1>15. QED
  BY <1>7, <1>11, <1>13, <1>14 DEF Listed

\* run() ends when the calls before the first entry without a method are in the list.
LEMMA NextEndsListed ==
  ASSUME MInv, Listed, NEW t \in Thread, NextEnds(t)
  PROVE  Listed'
<1>1. /\ Stacks /\ stack[t] # <<>> /\ D[t] \in 1 .. D[t] /\ F[t][D[t]].at = "next" /\ Running(t, "next")
  BY TopOf DEF NextEnds
<1>2. PICK f \in Frame : f = At("finish", 0) /\ f.at = "finish"
  <2>1. 0 \in 0 .. NCalls
    BY DEF MulticallAssumption
  <2>2. QED
    BY <2>1, AtIsFrame
<1>3. /\ UNCHANGED <<list, results, replies, deleted>> /\ Continue(t, f) /\ ~More
  BY <1>2 DEF NextEnds
<1>4. /\ D' = D
      /\ \A u \in Thread : \A e \in 1 .. D[u] : F'[u][e] = IF u = t /\ e = D[t] THEN f ELSE F[u][e]
  BY <1>1, <1>3, ContinueEffect
<1>5. Ended'
  BY <1>1, <1>2, <1>4 DEF Ended, Runs
<1>6. /\ ~deleted /\ \A u \in Thread : \A e \in 1 .. D[u] : F[u][e].at \in Run => u = t /\ e = D[t]
      /\ \A j \in Calls : j < pos /\ list[j] = "call" => Joined(j)
  BY <1>1, Between
<1>7. ~Ended
  BY <1>1, <1>6 DEF Ended, Runs, Run
<1>8. Len(results) = pos - 1
  <2>1. CASE pos = 1
    BY <1>7, <2>1 DEF Listed
  <2>2. CASE pos # 1
    <3>1. pos - 1 \in Calls /\ pos - 1 < pos /\ pos - 1 \in 1 .. pos - 1
      BY <2>2, Parts DEF Calls
    <3>2. list[pos - 1] = "call"
      BY <1>7, <3>1 DEF Listed
    <3>3. Joined(pos - 1)
      BY <1>6, <3>1, <3>2
    <3>4. Pushed(pos - 1)
      BY <3>3 DEF Joined, Pushed, Has
    <3>5. QED
      BY <1>7, <2>2, <3>4 DEF Listed
  <2>3. QED
    BY <2>1, <2>2
<1>9. IsServed(pos - 1)
  <2>1. pos - 1 \in 0 .. NCalls /\ (pos - 1 < NCalls => pos \in Calls /\ pos <= NCalls /\ pos - 1 + 1 = pos)
    BY Parts DEF Calls
  <2>2. \A i \in 1 .. pos - 1 : list[i] = "call"
    BY <1>7 DEF Listed
  <2>3. pos - 1 < NCalls => list[pos - 1 + 1] = "junk"
    BY <1>3, <2>1 DEF More, MInv, TypeOK
  <2>4. QED
    BY <2>1, <2>2, <2>3 DEF IsServed
<1>10. Len(results') = Served'
  <2>1. Served = pos - 1 /\ Served' = Served
    BY <1>3, <1>9, ServedIs DEF MInv, Served
  <2>2. QED
    BY <1>3, <1>8, <2>1
<1>11. QED
  BY <1>3, <1>5, <1>10 DEF Listed

\* Sending the response of the sub-request changes nothing in the list.
LEMMA PostListed ==
  ASSUME MInv, Listed, NEW t \in Thread, Post(t)
  PROVE  Listed'
<1>1. /\ Stacks /\ Depths /\ stack[t] # <<>> /\ D[t] \in 1 .. D[t] /\ F[t][D[t]].at = "post" /\ Top(t) = F[t][D[t]]
  BY TopOf DEF Post
<1>2. PICK i \in Calls : i = F[t][D[t]].call
  BY <1>1 DEF MInv, Callbacks, CallbackOK, Callback
<1>3. /\ UNCHANGED <<list, pos, results, replies, deleted>> /\ sent' = [sent EXCEPT ![i] = TRUE] /\ Leave(t)
  BY <1>1, <1>2 DEF Post
<1>4. sent \in [Calls -> BOOLEAN] /\ \A j \in Calls : sent'[j] <=> j = i \/ sent[j]
  BY <1>3 DEF MInv, TypeOK
<1>5. /\ D' = [D EXCEPT ![t] = D[t] - 1]
      /\ \A u \in Thread : \A e \in 1 .. D'[u] : F'[u][e] = F[u][e]
  BY <1>1, <1>3, LeaveEffect
<1>6. \A u \in Thread : /\ \A e \in 1 .. D'[u] : e \in 1 .. D[u]
                        /\ \A e \in 1 .. D[u] : e \in 1 .. D'[u] \/ (u = t /\ e = D[t])
  BY <1>1, <1>5 DEF Depths
<1>7. Ended' <=> Ended
  BY <1>1, <1>3, <1>5, <1>6 DEF Ended, Runs
<1>8. ASSUME NEW j \in Calls PROVE Pushed(j)' <=> Pushed(j)
  <2>1. Has("join", j)' <=> Has("join", j)
    BY <1>1, <1>5, <1>6 DEF Has
  <2>2. Has("post", j)' => Has("post", j)
    BY <1>5, <1>6 DEF Has
  <2>3. Has("post", j) => Has("post", j)' \/ j = i
    BY <1>2, <1>5, <1>6 DEF Has
  <2>4. Has("post", i)
    BY <1>1, <1>2 DEF Has
  <2>5. QED
    BY <1>4, <2>1, <2>2, <2>3, <2>4 DEF Pushed
<1>9. pos # 1 => (Pushed(pos - 1)' <=> Pushed(pos - 1))
  <2>1. pos # 1 => pos - 1 \in Calls
    BY Parts DEF Calls
  <2>2. pos' - 1 = pos - 1
    BY <1>3
  <2>3. QED
    BY <1>8, <2>1, <2>2 DEF Pushed, Has
<1>10. Served' = Served
  BY <1>3 DEF Served
<1>11. QED
  BY <1>3, <1>7, <1>9, <1>10 DEF Listed

\* Neither does counting the callback.
LEMMA JoinListed ==
  ASSUME MInv, Listed, NEW t \in Thread, Join(t)
  PROVE  Listed'
<1>1. /\ Stacks /\ Depths /\ stack[t] # <<>> /\ D[t] \in Nat /\ D[t] \in 1 .. D[t]
      /\ F[t][D[t]].at = "join" /\ Top(t) = F[t][D[t]]
  BY TopOf DEF Join
<1>2. PICK i \in Calls : i = F[t][D[t]].call
  BY <1>1, Uncounted
<1>3. PICK f \in Frame : f = At("post", i) /\ f.at = "post" /\ f.call = i
  <2>1. i \in 0 .. NCalls
    BY <1>2 DEF Calls
  <2>2. QED
    BY <2>1, AtIsFrame
<1>4. PICK g \in Frame : g = At("next", 0) /\ g.at = "next"
  <2>1. 0 \in 0 .. NCalls
    BY DEF MulticallAssumption
  <2>2. QED
    BY <2>1, AtIsFrame
<1>5. /\ UNCHANGED <<list, pos, results, sent, replies, deleted>>
      /\ Enter(t, f, g) \/ Continue(t, f)
  BY <1>1, <1>2, <1>3, <1>4 DEF Join, subVars
<1>6. /\ \A u \in Thread : \A e \in 1 .. D[u] :
            e \in 1 .. D'[u] /\ F'[u][e] = IF u = t /\ e = D[t] THEN f ELSE F[u][e]
      /\ \A u \in Thread : \A e \in 1 .. D'[u] :
            e \in 1 .. D[u] \/ F'[u][e] = g
  <2>1. CASE Continue(t, f)
    BY <1>1, <2>1, ContinueEffect
  <2>2. CASE Enter(t, f, g)
    <3>1. /\ D' = [D EXCEPT ![t] = D[t] + 1] /\ F'[t][D[t] + 1] = g
          /\ \A u \in Thread : \A e \in 1 .. D[u] : F'[u][e] = IF u = t /\ e = D[t] THEN f ELSE F[u][e]
      BY <1>1, <2>2, EnterEffect
    <3>2. QED
      BY <1>1, <3>1 DEF Depths
  <2>3. QED
    BY <1>5, <2>1, <2>2
<1>7. Ended' <=> Ended
  BY <1>1, <1>3, <1>4, <1>5, <1>6 DEF Ended, Runs
<1>8. ASSUME NEW j \in Int PROVE Pushed(j)' <=> Pushed(j)
  <2>1. ASSUME Has("post", j) \/ Has("join", j) PROVE Has("post", j)' \/ Has("join", j)'
    BY <1>1, <1>2, <1>3, <1>6, <2>1 DEF Has
  <2>2. ASSUME Has("post", j)' \/ Has("join", j)' PROVE Has("post", j) \/ Has("join", j)
    BY <1>1, <1>2, <1>3, <1>4, <1>6, <2>2 DEF Has
  <2>3. QED
    BY <1>5, <2>1, <2>2 DEF Pushed
<1>9. Pushed(pos - 1)' <=> Pushed(pos - 1)
  <2>1. pos - 1 \in Int /\ pos' - 1 = pos - 1
    BY <1>5, Parts
  <2>2. QED
    BY <1>8, <2>1 DEF Pushed, Has
<1>10. Served' = Served
  BY <1>5 DEF Served
<1>11. QED
  BY <1>5, <1>7, <1>9, <1>10 DEF Listed

\* The list is empty at the start.
LEMMA InitListed == Init => Listed
<1> SUFFICES ASSUME Init PROVE Listed
  OBVIOUS
<1>1. ~Ended
  <2>1. stack = [t \in Thread |-> IF t = Main THEN <<At("next", 0)>> ELSE <<>>] /\ ~deleted
    BY DEF Init
  <2>2. \A t \in Thread : \A d \in 1 .. D[t] : F[t][d] = At("next", 0)
    <3>1. <<At("next", 0)>>[1] = At("next", 0) /\ Len(<<At("next", 0)>>) = 1 /\ Len(<<>>) = 0
      OBVIOUS
    <3>2. QED
      BY <2>1, <3>1 DEF D, F, Flip
  <2>3. QED
    BY <2>1, <2>2 DEF Ended, Runs, At
<1>2. results = <<>> /\ Len(results) = 0 /\ pos = 1 /\ replies = 0 /\ ~deleted
  BY DEF Init
<1>3. QED
  BY <1>1, <1>2 DEF Listed

\* Every step is a step of the abstract specification or leaves its state alone.
LEMMA StepRefines ==
  ASSUME MInv, Listed, [Next]_vars
  PROVE  Listed' /\ [SC!SNext]_(SC!svars)
<1>1. ASSUME Quiet PROVE Listed' /\ UNCHANGED SC!svars
  BY <1>1, QuietListed DEF SC!svars, Quiet, Served
<1>2. CASE UNCHANGED vars
  <2>1. Quiet
    BY <1>2, QuietSame DEF vars, subVars, Quiet
  <2>2. QED
    BY <1>1, <2>1
<1>3. CASE Next
  <2> PICK t \in Thread : Step(t) \/ Copy(t)
    BY <1>3 DEF Next
  <2>1. CASE \/ Returns(t) \/ Throws(t) \/ Close(t) \/ Fork(t)
             \/ (\E kind \in Kind : Answers(t, kind)) \/ (\E u \in Thread : HandsOver(t, u)) \/ Copy(t)
    BY <1>1, <2>1, QuietSteps
  <2>2. CASE Push(t)
    BY <2>2, PushCollects DEF SC!SNext, Kind
  <2>3. CASE Finish(t)
    BY <2>3, FinishReplies DEF SC!SNext
  <2>4. CASE NextCall(t)
    BY <2>4, NextCallListed DEF NextCall, SC!svars, Served
  <2>5. CASE NextEnds(t)
    BY <2>5, NextEndsListed DEF NextEnds, SC!svars, Served
  <2>6. CASE Post(t)
    BY <2>6, PostListed DEF Post, SC!svars, Served
  <2>7. CASE Join(t)
    BY <2>7, JoinListed DEF Join, SC!svars, Served
  <2>8. QED
    BY <2>1, <2>2, <2>3, <2>4, <2>5, <2>6, <2>7 DEF Step
<1>4. QED
  BY <1>2, <1>3

\* The initial states are those of the abstract specification.
LEMMA InitRefines == Init => SC!SInit
<1> SUFFICES ASSUME Init PROVE SC!SInit
  OBVIOUS
<1>1. Served \in Nat
  BY InitMInv, ServedExists DEF MInv, IsServed
<1>2. QED
  BY <1>1 DEF Init, SC!SInit

\* The reply has one entry per call, in the order of the calls, and is sent once, whoever
\* answers them and when.
THEOREM MulticallRefines == ASSUME ~LateThrow PROVE Spec => Implements
<1>1. MInv /\ Listed /\ [Next]_vars => Listed' /\ [SC!SNext]_(SC!svars)
  BY StepRefines
<1>2. Spec => []MInv
  BY MInvAlways
<1>3. Spec => [](MInv /\ Listed)
  BY <1>1, <1>2, InitListed, PTL DEF Spec
<1>4. QED
  BY <1>1, <1>3, InitRefines, PTL DEF Spec, Implements, SC!SSpec
=============================================================================
