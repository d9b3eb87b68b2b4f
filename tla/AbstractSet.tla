------------------------------ MODULE AbstractSet ------------------------------
(***************************************************************************)
(* What a search tree promises: a set, of which the members can be found   *)
(* and counted.                                                            *)
(***************************************************************************)
EXTENDS FiniteSets

CONSTANTS Keys

VARIABLES
  members,
  call,     \* the last call
  result    \* what it returned

vars == <<members, call, result>>

Calls(op, key) == call' = [op |-> op, key |-> key]

Init ==
  /\ members = {}
  /\ call = [op |-> "clear", key |-> 0]
  /\ result = 0

Add(key) ==
  /\ Calls("add", key)
  /\ members' = members \cup {key}
  /\ result' = 0

Remove(key) ==
  /\ Calls("remove", key)
  /\ members' = members \ {key}
  /\ result' = 0

Find(key) ==
  /\ Calls("find", key)
  /\ result' = (key \in members)
  /\ UNCHANGED members

Count ==
  /\ Calls("size", 0)
  /\ result' = Cardinality(members)
  /\ UNCHANGED members

Empty ==
  /\ Calls("clear", 0)
  /\ members' = {}
  /\ result' = 0

\* The tree gets the value of another that is equal to it.
Copy ==
  /\ Calls("copy", 0)
  /\ result' = 0
  /\ UNCHANGED members

Next ==
  \/ \E key \in Keys : Add(key) \/ Remove(key) \/ Find(key)
  \/ Count \/ Empty \/ Copy

Spec == Init /\ [][Next]_vars

===============================================================================
