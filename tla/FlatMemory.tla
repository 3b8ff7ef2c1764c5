----------------------------- MODULE FlatMemory -----------------------------
(***************************************************************************)
(* What the pipeline may expect of data memory, whatever lies between: one *)
(* word access at a time, each answered from a flat array of words at some *)
(* moment between its issue and its answer.                                *)
(***************************************************************************)
CONSTANTS Blocks, Words, Values, NoRequest, Requests, READ

VARIABLES store, request, reply

vars == <<store, request, reply>>

Init ==
  /\ store \in [Blocks -> [Words -> Values]]
  /\ request = NoRequest
  /\ reply \in Values

Issue(r) ==
  /\ request = NoRequest
  /\ request' = r
  /\ UNCHANGED <<store, reply>>

Read ==
  /\ request # NoRequest /\ request.op = READ
  /\ reply' = store[request.block][request.word]
  /\ request' = NoRequest
  /\ UNCHANGED store

Write ==
  /\ request # NoRequest /\ request.op # READ
  /\ store' = [store EXCEPT ![request.block][request.word] = request.val]
  /\ request' = NoRequest
  /\ UNCHANGED reply

Next == (\E r \in Requests : Issue(r)) \/ Read \/ Write

Spec == Init /\ [][Next]_vars
=============================================================================
