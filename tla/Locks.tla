-------------------------------- MODULE Locks -------------------------------
(***************************************************************************)
(* The calls over SVC_EVENT_WAIT and the reader-writer lock of pthread.c   *)
(* side by side: each behaviour uses one kind, the other stays as          *)
(* initialised.                                                            *)
(***************************************************************************)
EXTENDS Sync, RWLock

VARIABLE lock       \* the kind in use

vars == <<lock, syncVars, rwVars>>

Init ==
  /\ lock \in {"sync", "rwlock"}
  /\ SyncInit /\ RWInit

Next ==
  \/ lock = "sync" /\ SyncNext /\ UNCHANGED <<lock, rwVars>>
  \/ lock = "rwlock" /\ RWNext /\ UNCHANGED <<lock, syncVars>>

Spec == Init /\ [][Next]_vars
=============================================================================
