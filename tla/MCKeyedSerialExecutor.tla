----------------------- MODULE MCKeyedSerialExecutor -----------------------
(* Three fibers on two keys: one can hold a key, one wait for it and one    *)
(* come or go.  A candidate is made even when it is not used, so there is   *)
(* one semaphore more than fibers.                                          *)
EXTENDS KeyedSerialExecutor
=============================================================================
