---------------------------- MODULE WorkerDispatch ----------------------------
(***************************************************************************)
(* How libnodegl/api.c hands the commands of a context over to its worker  *)
(* thread: dispatch_cmd, worker_thread and stop_thread.  The client calls  *)
(* a context from one thread, its controller (nodes.h:71).                 *)
(*                                                                         *)
(* A step is what a thread does between two points where it may lose the   *)
(* CPU to the other one: taking or releasing the lock, waiting on a        *)
(* condition, and running the command.  A wait may end without a signal.   *)
(***************************************************************************)
EXTENDS Naturals

CONSTANT
  MaxCalls  \* bound on the calls of a behaviour; ngl_freep is the last one

ASSUME CallsAssumption == MaxCalls \in Nat \ {0}

VARIABLES
  lock,      \* the thread that holds s->lock
  cmd_func,  \* s->cmd_func: "null", "work" for any command but cmd_stop, "stop"
  cmd_arg,   \* s->cmd_arg, the number of the call whose stack it points to
  cmd_ret,   \* s->cmd_ret, the number of the call it is the result of
  ctl,       \* where the controller stands
  wkr,       \* where the worker stands
  call,      \* the number of calls made by the controller
  request,   \* the command of the current call
  returned,  \* what dispatch_cmd returned last
  runs,      \* the number of commands the worker has run
  live       \* whether the lock and the conditions exist

dispatchVars == <<lock, cmd_func, cmd_arg, cmd_ret, ctl, wkr, call, request, returned, runs, live>>

Thread == {"none", "controller", "worker"}

DispatchTypeOK ==
  /\ lock \in Thread
  /\ cmd_func \in {"null", "work", "stop"}
  /\ cmd_arg \in 0 .. MaxCalls
  /\ cmd_ret \in 0 .. MaxCalls
  /\ ctl \in {"idle", "locking", "checking", "waiting", "woken", "reading", "joining", "freed"}
  /\ wkr \in {"starting", "checking", "waiting", "woken", "ran", "leaving", "unlocking", "exited"}
  /\ call \in 0 .. MaxCalls
  /\ request \in {"work", "stop"}
  /\ returned \in 0 .. MaxCalls
  /\ runs \in 0 .. MaxCalls
  /\ live \in BOOLEAN

(* ngl_create starts the worker.                                           *)
DispatchInit ==
  /\ lock = "none"
  /\ cmd_func = "null"
  /\ cmd_arg = 0
  /\ cmd_ret = 0
  /\ ctl = "idle"
  /\ wkr = "starting"
  /\ call = 0
  /\ request = "work"
  /\ returned = 0
  /\ runs = 0
  /\ live = TRUE

(***************************************************************************)
(* dispatch_cmd and stop_thread                                            *)
(***************************************************************************)
shared == <<cmd_func, cmd_arg, cmd_ret>>

Dispatch(f) ==
  /\ ctl = "idle"
  /\ call < MaxCalls
  /\ f = "work" => call + 1 < MaxCalls
  /\ call' = call + 1
  /\ request' = f
  /\ ctl' = "locking"
  /\ UNCHANGED <<lock, shared, wkr, returned, runs, live>>

(* A signal wakes the thread that waits; it is lost if there is none.      *)
WorkerSignalled == IF wkr = "waiting" THEN "woken" ELSE wkr
ControllerSignalled == IF ctl = "waiting" THEN "woken" ELSE ctl

SetCommand ==
  /\ ctl = "locking"
  /\ lock = "none"
  /\ lock' = "controller"
  /\ cmd_func' = request
  /\ cmd_arg' = call
  /\ wkr' = WorkerSignalled
  /\ ctl' = "checking"
  /\ UNCHANGED <<cmd_ret, call, request, returned, runs, live>>

WaitForResult ==
  /\ ctl = "checking"
  /\ cmd_func # "null"
  /\ ctl' = "waiting"
  /\ lock' = "none"
  /\ UNCHANGED <<shared, wkr, call, request, returned, runs, live>>

ControllerRelocks ==
  /\ ctl = "woken"
  /\ lock = "none"
  /\ ctl' = "checking"
  /\ lock' = "controller"
  /\ UNCHANGED <<shared, wkr, call, request, returned, runs, live>>

(* Mutant: the controller does not wait for the result.                    *)
ResultThere_Early ==
  /\ ctl = "checking"
  /\ ctl' = "reading"
  /\ lock' = "none"
  /\ UNCHANGED <<shared, wkr, call, request, returned, runs, live>>

ResultThere ==
  /\ ctl = "checking"
  /\ cmd_func = "null"
  /\ ctl' = "reading"
  /\ lock' = "none"
  /\ UNCHANGED <<shared, wkr, call, request, returned, runs, live>>

(* cmd_ret is read after the lock is released.                             *)
ReturnResult ==
  /\ ctl = "reading"
  /\ returned' = cmd_ret
  /\ ctl' = IF request = "stop" THEN "joining" ELSE "idle"
  /\ UNCHANGED <<lock, shared, wkr, call, request, runs, live>>

(* Mutant: the worker is not joined.                                       *)
JoinWorker_NoJoin ==
  /\ ctl = "joining"
  /\ ctl' = "freed"
  /\ live' = FALSE
  /\ UNCHANGED <<lock, shared, wkr, call, request, returned, runs>>

JoinWorker ==
  /\ ctl = "joining"
  /\ wkr = "exited"
  /\ ctl' = "freed"
  /\ live' = FALSE
  /\ UNCHANGED <<lock, shared, wkr, call, request, returned, runs>>

(***************************************************************************)
(* worker_thread                                                           *)
(***************************************************************************)
WorkerLocks ==
  /\ wkr \in {"starting", "woken"}
  /\ lock = "none"
  /\ wkr' = "checking"
  /\ lock' = "worker"
  /\ UNCHANGED <<shared, ctl, call, request, returned, runs, live>>

(* Mutant: the worker waits for a signal before it looks for a command.    *)
WaitForCommand_Blindly ==
  /\ wkr = "checking"
  /\ wkr' = "waiting"
  /\ lock' = "none"
  /\ UNCHANGED <<shared, ctl, call, request, returned, runs, live>>

WaitForCommand ==
  /\ wkr = "checking"
  /\ cmd_func = "null"
  /\ wkr' = "waiting"
  /\ lock' = "none"
  /\ UNCHANGED <<shared, ctl, call, request, returned, runs, live>>

(* Mutant: a worker that is woken up runs the command without looking.     *)
RunCommand_Unchecked ==
  /\ wkr = "checking"
  /\ cmd_ret' = cmd_arg
  /\ runs' = runs + 1
  /\ wkr' = "ran"
  /\ UNCHANGED <<lock, cmd_func, cmd_arg, ctl, call, request, returned, live>>

RunCommand ==
  /\ wkr = "checking"
  /\ cmd_func # "null"
  /\ cmd_ret' = cmd_arg
  /\ runs' = runs + 1
  /\ wkr' = "ran"
  /\ UNCHANGED <<lock, cmd_func, cmd_arg, ctl, call, request, returned, live>>

CommandDone ==
  /\ wkr = "ran"
  /\ wkr' = IF cmd_func = "stop" THEN "leaving" ELSE "checking"
  /\ cmd_func' = "null"
  /\ cmd_arg' = 0
  /\ ctl' = ControllerSignalled
  /\ UNCHANGED <<lock, cmd_ret, call, request, returned, runs, live>>

(* The lock is free before the worker has returned from unlocking it.      *)
WorkerUnlocks ==
  /\ wkr = "leaving"
  /\ wkr' = "unlocking"
  /\ lock' = "none"
  /\ UNCHANGED <<shared, ctl, call, request, returned, runs, live>>

WorkerExits ==
  /\ wkr = "unlocking"
  /\ wkr' = "exited"
  /\ UNCHANGED <<lock, shared, ctl, call, request, returned, runs, live>>

(***************************************************************************)
(* The whole                                                               *)
(***************************************************************************)
Spurious ==
  /\ \/ ctl = "waiting" /\ ctl' = "woken" /\ UNCHANGED wkr
     \/ wkr = "waiting" /\ wkr' = "woken" /\ UNCHANGED ctl
  /\ UNCHANGED <<lock, shared, call, request, returned, runs, live>>

Controller ==
  \/ SetCommand \/ WaitForResult \/ ControllerRelocks
  \/ ResultThere \/ ReturnResult \/ JoinWorker

Worker == WorkerLocks \/ WaitForCommand \/ RunCommand \/ CommandDone \/ WorkerUnlocks \/ WorkerExits

DispatchNext == Controller \/ Worker \/ Spurious \/ \E f \in {"work", "stop"} : Dispatch(f)

(* Both threads are scheduled, and a free lock is not refused forever to   *)
(* the one that asks for it; nothing obliges the client to make a call,    *)
(* and nothing ends a wait but a signal.                                   *)
DispatchSpec ==
  /\ DispatchInit /\ [][DispatchNext]_dispatchVars
  /\ WF_dispatchVars(Controller) /\ WF_dispatchVars(Worker)
  /\ SF_dispatchVars(ControllerRelocks) /\ SF_dispatchVars(SetCommand) /\ SF_dispatchVars(WorkerLocks)

(***************************************************************************)
(* Properties                                                              *)
(***************************************************************************)

(* Synchronous: dispatch_cmd is a synchronous call: the worker carries out *)
(* each command once, in order, and the controller gets the result of its  *)
(* own command, though it reads cmd_ret without the lock and the worker    *)
(* may not have reached its first wait when the first signal is sent.      *)
Caller == INSTANCE SyncCall WITH calls <- call, result <- cmd_ret
Synchronous == Caller!Spec

(* ControllerWaits: while a command runs, the controller is inside         *)
(* dispatch_cmd for that very command: its argument, which is on the stack *)
(* of the controller, is still there, and the fields that nodes.h reserves *)
(* for the controller and for the worker are never used by both at once.   *)
ControllerWaits ==
  wkr = "ran" => ctl \in {"waiting", "woken"} /\ cmd_arg = call /\ cmd_func = request

(* DestroyedUnused: stop_thread destroys the lock and the conditions once  *)
(* the worker, which unlocks after its last signal, is done with them.     *)
DestroyedUnused == ~live => wkr = "exited" /\ ctl = "freed" /\ lock = "none"

(* CallReturns: no call blocks forever, whatever signals are sent before   *)
(* the other thread waits.                                                 *)
CallReturns == (ctl # "idle") ~> (ctl \in {"idle", "freed"})

=============================================================================
