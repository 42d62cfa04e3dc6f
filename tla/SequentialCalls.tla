--------------------------- MODULE SequentialCalls ---------------------------
(***************************************************************************)
(* What Server.multicall promises to its caller: the calls are answered    *)
(* one after the other, the reply lists one entry per call in the order of *)
(* the calls, and there is one reply, after the last entry.                *)
(***************************************************************************)
EXTENDS Naturals, Sequences

VARIABLES
  total,    \* how many calls there are
  entries,  \* the entries collected so far: which call, result or error
  replies   \* replies sent

svars == <<total, entries, replies>>

SInit == total \in Nat /\ entries = <<>> /\ replies = 0

Collect(kind) ==
  /\ replies = 0 /\ Len(entries) < total
  /\ entries' = Append(entries, [call |-> Len(entries) + 1, kind |-> kind])
  /\ UNCHANGED <<total, replies>>

Reply ==
  /\ replies = 0 /\ Len(entries) = total
  /\ replies' = 1
  /\ UNCHANGED <<total, entries>>

SNext == Reply \/ \E kind \in {"result", "error"} : Collect(kind)

SSpec == SInit /\ [][SNext]_svars
=============================================================================
