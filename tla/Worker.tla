-------------------------------- MODULE Worker --------------------------------
(***************************************************************************)
(* WebPWorker (libwebp's src/utils/thread_utils.c): one background thread  *)
(* that runs a hook each time its owner launches it.  Owner and thread     *)
(* share status_ under a mutex and ONE condition variable, on which either *)
(* of them may sleep; both signal it after they have let go of the mutex.  *)
(*                                                                         *)
(* A step is what a thread does between two points at which the other can  *)
(* interfere: a lock, a wait, an unlock, a signal.  Here the owner calls   *)
(* the interface in any order; a decoder that uses it extends this module. *)
(***************************************************************************)
VARIABLES
  status,    (* status_                                                        *)
  impl,      (* impl_ # NULL: mutex, condition and thread exist                *)
  hadError,  (* had_error                                                      *)
  mutex,     (* who holds mutex_                                               *)
  asleep,    (* who is blocked on condition_                                   *)
  mpc,       (* where the owner is inside the interface, "out" if nowhere      *)
  want,      (* new_status of its ChangeState                                  *)
  tpc        (* where the thread is in ThreadLoop                              *)

workerVars == <<status, impl, hadError, mutex, asleep, mpc, want, tpc>>

Thread == {"main", "worker"}
Status == {"NOT_OK", "OK", "WORK"}

InitWorker ==
  /\ status = "NOT_OK" /\ impl = FALSE /\ hadError = FALSE
  /\ mutex = "free" /\ asleep = {}
  /\ mpc = "out" /\ want = "OK" /\ tpc = "none"

-----------------------------------------------------------------------------
(* pthread_mutex_lock, pthread_cond_wait and pthread_cond_signal, which wakes *)
(* one sleeper if there is one.                                               *)
Lock(t) == mutex = "free" /\ mutex' = t

Sleep(t) == mutex' = "free" /\ asleep' = asleep \cup {t}

Signal ==
  \/ asleep = {} /\ UNCHANGED asleep
  \/ \E t \in asleep : asleep' = asleep \ {t}

(* A sleeper may also wake for no reason.                                     *)
WakeSpuriously ==
  /\ \E t \in asleep : asleep' = asleep \ {t}
  /\ UNCHANGED <<status, impl, hadError, mutex, mpc, want, tpc>>

-----------------------------------------------------------------------------
(* The owner.  Reset starts the thread, which first waits for the mutex that  *)
(* Reset still holds; the thread may not come up.                             *)
Start ==
  /\ mpc = "out" /\ status = "NOT_OK"
  /\ hadError' = FALSE
  /\ \/ status' = "OK" /\ impl' = TRUE /\ tpc' = "lock"
     \/ UNCHANGED <<status, impl, tpc>>
  /\ UNCHANGED <<mutex, asleep, mpc, want>>

(* Sync, Launch and End begin ChangeState with "OK", "WORK" and "NOT_OK"; it  *)
(* does nothing for a thread that did not come up.                            *)
ChangeState(new) ==
  /\ mpc = "out"
  /\ IF impl THEN mpc' = "lock" /\ want' = new ELSE UNCHANGED <<mpc, want>>
  /\ UNCHANGED <<status, impl, hadError, mutex, asleep, tpc>>

OwnerLocks ==
  /\ mpc = "lock" \/ (mpc = "wait" /\ "main" \notin asleep)
  /\ Lock("main")
  /\ mpc' = "test"
  /\ UNCHANGED <<status, impl, hadError, asleep, want, tpc>>

(* while (status_ != OK) wait                                                 *)
OwnerWaits ==
  /\ mpc = "test" /\ status = "WORK"
  /\ Sleep("main")
  /\ mpc' = "wait"
  /\ UNCHANGED <<status, impl, hadError, want, tpc>>

(* Mutant: the status is not waited for.                                      *)
OwnerAssignsAtOnce ==
  /\ mpc = "test"
  /\ status' = IF want = "OK" THEN status ELSE want
  /\ mpc' = IF want = "OK" THEN "out" ELSE "signal"
  /\ mutex' = "free"
  /\ UNCHANGED <<impl, hadError, asleep, want, tpc>>

(* Assign the new status and unlock; Sync has nothing to assign.              *)
OwnerAssigns ==
  /\ mpc = "test" /\ status = "OK"
  /\ status' = want
  /\ mpc' = IF want = "OK" THEN "out" ELSE "signal"
  /\ mutex' = "free"
  /\ UNCHANGED <<impl, hadError, asleep, want, tpc>>

OwnerSignals ==
  /\ mpc = "signal"
  /\ Signal
  /\ mpc' = IF want = "NOT_OK" THEN "join" ELSE "out"
  /\ UNCHANGED <<status, impl, hadError, mutex, want, tpc>>

(* End joins the thread and destroys everything.                              *)
Join ==
  /\ mpc = "join" /\ tpc = "exited"
  /\ mpc' = "out" /\ tpc' = "none" /\ impl' = FALSE
  /\ UNCHANGED <<status, hadError, mutex, asleep, want>>

-----------------------------------------------------------------------------
(* The thread.                                                                *)
ThreadLocks ==
  /\ tpc = "lock" \/ (tpc = "wait" /\ "worker" \notin asleep)
  /\ Lock("worker")
  /\ tpc' = "test"
  /\ UNCHANGED <<status, impl, hadError, asleep, mpc, want>>

(* while (status_ == OK) wait                                                 *)
ThreadWaits ==
  /\ tpc = "test" /\ status = "OK"
  /\ Sleep("worker")
  /\ tpc' = "wait"
  /\ UNCHANGED <<status, impl, hadError, mpc, want>>

(* Execute runs the hook with the mutex held.                                 *)
BeginHook ==
  /\ tpc = "test" /\ status = "WORK"
  /\ tpc' = "hook"
  /\ UNCHANGED <<status, impl, hadError, mutex, asleep, mpc, want>>

(* Mutant: the end of the hook is not signalled.                              *)
EndHookSilently(ok) ==
  /\ tpc = "hook"
  /\ hadError' = (hadError \/ ~ok)
  /\ status' = "OK"
  /\ mutex' = "free"
  /\ tpc' = "lock"
  /\ UNCHANGED <<impl, asleep, mpc, want>>

(* The hook has returned: status_ = OK, unlock.                               *)
EndHook(ok) ==
  /\ tpc = "hook"
  /\ hadError' = (hadError \/ ~ok)
  /\ status' = "OK"
  /\ mutex' = "free"
  /\ tpc' = "signal"
  /\ UNCHANGED <<impl, asleep, mpc, want>>

(* status_ == NOT_OK: the last round of the loop.                             *)
ThreadFinishes ==
  /\ tpc = "test" /\ status = "NOT_OK"
  /\ mutex' = "free"
  /\ tpc' = "last_signal"
  /\ UNCHANGED <<status, impl, hadError, asleep, mpc, want>>

ThreadSignals ==
  /\ tpc \in {"signal", "last_signal"}
  /\ Signal
  /\ tpc' = IF tpc = "signal" THEN "lock" ELSE "exited"
  /\ UNCHANGED <<status, impl, hadError, mutex, mpc, want>>

-----------------------------------------------------------------------------
OwnerInside == OwnerLocks \/ OwnerWaits \/ OwnerAssigns \/ OwnerSignals \/ Join

(* All that the thread does by itself, apart from the hook's end.             *)
ThreadInside ==
  ThreadLocks \/ ThreadWaits \/ BeginHook \/ ThreadFinishes \/ ThreadSignals

NextWorker ==
  \/ Start
  \/ \E new \in Status : ChangeState(new)
  \/ OwnerInside \/ ThreadInside \/ WakeSpuriously
  \/ \E ok \in BOOLEAN : EndHook(ok)

WorkerSpec == InitWorker /\ [][NextWorker]_workerVars

-----------------------------------------------------------------------------
WorkerTypeOK ==
  /\ status \in Status /\ want \in Status
  /\ impl \in BOOLEAN /\ hadError \in BOOLEAN
  /\ mutex \in Thread \cup {"free"}
  /\ asleep \subseteq Thread
  /\ mpc \in {"out", "lock", "test", "wait", "signal", "join"}
  /\ tpc \in {"none", "lock", "test", "wait", "hook", "signal", "last_signal", "exited"}

(* One sleeper at most, so that a signal never goes to the wrong thread; and  *)
(* whoever sleeps although its wait is over is yet to be signalled by the     *)
(* other: the unlock before the signal loses no wakeup (lines 204-228,        *)
(* 231-257).                                                                  *)
SignalComes ==
  /\ asleep # Thread
  /\ "main" \in asleep /\ status # "WORK" => tpc \in {"signal", "last_signal"}
  /\ "worker" \in asleep /\ status # "OK" => mpc = "signal"

(* The hook runs, with the mutex held, between a Launch and the end of the    *)
(* next Sync and at no other time: after Sync, and until the next Launch, what*)
(* the hook touches is the owner's (lines 213-225, 231-257, 268-274).         *)
HookOnlyWhenLaunched ==
  /\ tpc = "hook" => status = "WORK" /\ mutex = "worker"
  /\ mpc = "out" /\ want = "OK" => status # "WORK"
==============================================================================
