------------------------------ MODULE MCThreads ------------------------------
(* The pool of threads (ThreadPool) and the reader thread (ReaderLoop) of a       *)
(* context on one instance for TLC.  They share no variable, so a behaviour       *)
(* exercises one of them, chosen by part, and the other stays as it began.        *)
EXTENDS ThreadPool, ReaderLoop, TLC

VARIABLE part

threadsVars == <<poolVars, readerVars, part>>

ThreadsInit ==
  /\ part \in {"pool", "reader"} /\ PoolInit /\ ReaderInit
  /\ part = "reader" => ~preemtive /\ ~skip_wait

ThreadsNext ==
  /\ UNCHANGED part
  /\ \/ part = "pool" /\ PoolNext /\ UNCHANGED readerVars
     \/ part = "reader" /\ ReaderNext /\ UNCHANGED poolVars

\* PoolFairness and ReaderFairness, for the behaviours that exercise the module.
ThreadsFairness ==
  /\ \A w \in Workers : WF_poolVars(part = "pool" /\ PoolThread(w))
  /\ WF_poolVars(part = "pool" /\ PoolExit)
  /\ WF_readerVars(part = "reader" /\ ReaderStep)
  /\ WF_readerVars(part = "reader" /\ \E c \in Watchable : UnwatchTask(c))
  /\ WF_readerVars(part = "reader" /\ io_change # "no" /\ IoChange)

ThreadsSpec == ThreadsInit /\ [][ThreadsNext]_threadsVars /\ ThreadsFairness

ThreadsTypeOK == PoolTypeOK /\ ReaderTypeOK
==============================================================================
