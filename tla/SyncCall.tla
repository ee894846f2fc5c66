------------------------------- MODULE SyncCall -------------------------------
(***************************************************************************)
(* What the functions of nodegl.h promise their caller: a call is carried  *)
(* out once, before it returns, and returns its own result; the next call  *)
(* comes after it.  Calls are numbered, and the result of a call is its    *)
(* number.                                                                 *)
(***************************************************************************)
EXTENDS Naturals

VARIABLES
  calls,    \* the number of calls made
  runs,     \* the number of calls carried out
  result,   \* the result of the last one carried out
  returned  \* the last value returned to the caller

vars == <<calls, runs, result, returned>>

Init == calls = 0 /\ runs = 0 /\ result = 0 /\ returned = 0

Request ==
  /\ returned = calls
  /\ calls' = calls + 1
  /\ UNCHANGED <<runs, result, returned>>

Execute ==
  /\ runs < calls
  /\ runs' = runs + 1
  /\ result' = calls
  /\ UNCHANGED <<calls, returned>>

Respond ==
  /\ returned < calls
  /\ runs = calls
  /\ returned' = calls
  /\ UNCHANGED <<calls, runs, result>>

Next == Request \/ Execute \/ Respond

Spec == Init /\ [][Next]_vars

=============================================================================
