----------------------------- MODULE AbstractStacks -----------------------------
(***************************************************************************)
(* What a hash promises: for each key a stack of data, of which the last   *)
(* that was pushed is seen and taken.                                      *)
(***************************************************************************)
EXTENDS Integers, Sequences, Functions

CONSTANTS Keys, Data, NoData

VARIABLES
  stacks,   \* of each key, the last first
  call,     \* the last call
  result    \* what it returned

vars == <<stacks, call, result>>

Calls(op, key) == call' = [op |-> op, key |-> key]

Push(key, data) ==
  /\ Calls("push", key)
  /\ stacks' = [stacks EXCEPT ![key] = <<data>> \o @]
  /\ result' = NoData

Top(key) == IF stacks[key] = <<>> THEN NoData ELSE Head(stacks[key])

Look(key) == Calls("look", key) /\ result' = Top(key) /\ UNCHANGED stacks

Take(key) ==
  /\ Calls("take", key)
  /\ stacks' = [stacks EXCEPT ![key] = IF @ = <<>> THEN @ ELSE Tail(@)]
  /\ result' = Top(key)

Has(key) ==
  /\ Calls("has", key)
  /\ result' = (stacks[key] # <<>>)
  /\ UNCHANGED stacks

\* All pairs, those of one key in their order.
List ==
  /\ Calls("list", 0)
  /\ \A key \in Keys :
       LET OfKey(pair) == pair[1] = key
           found == SelectSeq(result', OfKey)
       IN [i \in 1 .. Len(found) |-> found[i][2]] = stacks[key]
  /\ UNCHANGED stacks

Count ==
  /\ Calls("size", 0)
  /\ result' = FoldFunction(LAMBDA stack, n : n + Len(stack), 0, stacks)
  /\ UNCHANGED stacks

Empty ==
  /\ Calls("clear", 0)
  /\ stacks' = [key \in Keys |-> <<>>]
  /\ result' = NoData

Init ==
  /\ stacks = [key \in Keys |-> <<>>]
  /\ call = [op |-> "clear", key |-> 0]
  /\ result = NoData

Next ==
  \/ \E key \in Keys :
       \/ \E data \in Data : Push(key, data)
       \/ Look(key) \/ Take(key) \/ Has(key)
  \/ List \/ Count \/ Empty

Spec == Init /\ [][Next]_vars

===============================================================================
