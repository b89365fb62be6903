------------------------------ MODULE LogWriter ------------------------------
(***************************************************************************)
(* A Log_Writer (log.c), used by any number of threads: each message goes  *)
(* to the file that is open, which is reopened when access() finds that    *)
(* somebody (a log rotation) took it away.  log_init has opened the first  *)
(* stream before the threads start; formatting is left out, and a level    *)
(* below the writer's is a call that does nothing.                         *)
(*                                                                         *)
(* fopen makes the file and gives a new stream; a stream is known by the   *)
(* order in which it was opened.  A step is the code between two accesses  *)
(* to fp or the file system.  access() may also fail for a file that is    *)
(* there, as when its mode was changed; that is not modelled.              *)
(***************************************************************************)
EXTENDS Integers

CONSTANTS Threads,
          Nobody,      \* who holds a mutex that is free
          MaxRemovals  \* bound: how often the file is taken away

ASSUME LogAssumption == MaxRemovals \in Nat /\ Nobody \notin Threads

NoStream == 0  \* NULL

VARIABLES fp,        \* the stream of the writer
          opened,    \* how many streams were opened
          closed,    \* the streams that were closed
          file,      \* whether there is a file at m_filelocation
          mutex,     \* who holds m_mutex
          pc,        \* where each thread is in log
          stream,    \* the stream a thread has taken from fp to write to
          removals,  \* history: how often the file was taken away
          exited,    \* loginit could not open the file: the process is gone
          harmed,    \* history: the threads whose last message was written to
                     \* NULL or to a closed stream
          disturbed  \* history: those during whose last call another thread was
                     \* reopening the file

fileVars == <<fp, opened, closed, file>>
endVars == <<removals, exited, harmed, disturbed>>
vars == <<fileVars, mutex, pc, stream, endVars>>

Open == 1 .. opened \ closed

(* A thread that holds the lock is replacing the stream of fp.               *)
Replacing == mutex # Nobody /\ pc[mutex] \in {"forget", "open", "assign"}

Init ==
  /\ fp = 1
  /\ opened = 1
  /\ closed = {}
  /\ file = TRUE
  /\ mutex = Nobody
  /\ pc = [t \in Threads |-> "idle"]
  /\ stream = [t \in Threads |-> NoStream]
  /\ removals = 0
  /\ exited = FALSE
  /\ harmed = {}
  /\ disturbed = {}

-----------------------------------------------------------------------------
Goes(t, from, to) ==
  /\ ~exited
  /\ pc[t] = from
  /\ pc' = [pc EXCEPT ![t] = to]

(* log: a message that finds no stream goes to stderr.                       *)
Log(t) ==
  /\ fp # NoStream
  /\ Goes(t, "idle", "access")
  /\ harmed' = harmed \ {t}
  /\ disturbed' = IF Replacing THEN disturbed \cup {t} ELSE disturbed \ {t}
  /\ UNCHANGED <<fileVars, mutex, stream, removals, exited>>

(* _write: the first look at the file.                                       *)
Access(t) ==
  /\ Goes(t, "access", IF file THEN "fetch" ELSE "lock")
  /\ UNCHANGED <<fileVars, mutex, stream, endVars>>

Lock(t) ==
  /\ Goes(t, "lock", "recheck")
  /\ mutex = Nobody
  /\ mutex' = t
  /\ UNCHANGED <<fileVars, stream, endVars>>

(* The second look, under the lock.                                          *)
RecheckMut(t) ==
  /\ Goes(t, "recheck", "close")
  /\ UNCHANGED <<fileVars, mutex, stream, endVars>>
Recheck(t) ==
  /\ Goes(t, "recheck", IF file THEN "unlock" ELSE "close")
  /\ UNCHANGED <<fileVars, mutex, stream, endVars>>

(* logclose: fclose, and only then fp = NULL.  It returns at once if fp is   *)
(* NULL, but whoever holds the lock finds it set: the holder before has set  *)
(* it again, or ended the process.                                           *)
Close(t) ==
  /\ Goes(t, "close", "forget")
  /\ closed' = closed \cup {fp}
  /\ disturbed' = disturbed \cup {u \in Threads \ {t} : pc[u] # "idle"}
  /\ UNCHANGED <<fp, opened, file, mutex, stream, removals, exited, harmed>>

ForgetMut(t) ==
  /\ Goes(t, "forget", "open")
  /\ UNCHANGED <<fileVars, mutex, stream, endVars>>
Forget(t) ==
  /\ Goes(t, "forget", "open")
  /\ fp' = NoStream
  /\ UNCHANGED <<opened, closed, file, mutex, stream, endVars>>

(* loginit opens only when fp is NULL: fopen, which can fail, and fp.        *)
LogInit(t) ==
  /\ Goes(t, "open", IF fp = NoStream THEN "assign" ELSE "unlock")
  /\ IF fp = NoStream THEN opened' = opened + 1 /\ file' = TRUE
                      ELSE UNCHANGED <<opened, file>>
  /\ UNCHANGED <<fp, closed, mutex, stream, endVars>>

LogInitExits(t) ==
  /\ Goes(t, "open", "open")
  /\ fp = NoStream
  /\ exited' = TRUE
  /\ UNCHANGED <<fileVars, mutex, stream, removals, harmed, disturbed>>

AssignMut(t) ==
  /\ Goes(t, "assign", "unlock")
  /\ UNCHANGED <<fileVars, mutex, stream, endVars>>
Assign(t) ==
  /\ Goes(t, "assign", "unlock")
  /\ fp' = opened
  /\ UNCHANGED <<opened, closed, file, mutex, stream, endVars>>

Unlock(t) ==
  /\ Goes(t, "unlock", "fetch")
  /\ mutex' = Nobody
  /\ UNCHANGED <<fileVars, stream, endVars>>

(* fwrite is given what fp is now, and uses it without the lock.             *)
Fetch(t) ==
  /\ Goes(t, "fetch", "write")
  /\ stream' = [stream EXCEPT ![t] = fp]
  /\ UNCHANGED <<fileVars, mutex, endVars>>

Write(t) ==
  /\ Goes(t, "write", "idle")
  /\ harmed' = IF stream[t] \in Open THEN harmed ELSE harmed \cup {t}
  /\ stream' = [stream EXCEPT ![t] = NoStream]
  /\ UNCHANGED <<fileVars, mutex, removals, exited, disturbed>>

(* Somebody takes the file away.                                             *)
Remove ==
  /\ ~exited
  /\ file
  /\ removals < MaxRemovals
  /\ file' = FALSE
  /\ removals' = removals + 1
  /\ UNCHANGED <<fp, opened, closed, mutex, pc, stream, exited, harmed, disturbed>>

-----------------------------------------------------------------------------
Next ==
  \/ Remove
  \/ \E t \in Threads :
       \/ Log(t) \/ Access(t) \/ Lock(t) \/ Recheck(t) \/ Close(t) \/ Forget(t)
       \/ LogInit(t) \/ LogInitExits(t) \/ Assign(t) \/ Unlock(t) \/ Fetch(t) \/ Write(t)

Spec == Init /\ [][Next]_vars

-----------------------------------------------------------------------------
TypeOK ==
  /\ opened \in Nat \ {0}
  /\ fp \in 0 .. opened
  /\ closed \subseteq 1 .. opened
  /\ file \in BOOLEAN
  /\ mutex \in Threads \cup {Nobody}
  /\ pc \in [Threads -> {"idle", "access", "lock", "recheck", "close", "forget", "open",
                         "assign", "unlock", "fetch", "write"}]
  /\ stream \in [Threads -> Nat]
  /\ removals \in 0 .. MaxRemovals
  /\ exited \in BOOLEAN
  /\ harmed \subseteq Threads
  /\ disturbed \subseteq Threads

(* The file is reopened once for each time it was taken away, however many   *)
(* threads find it missing: that is what the second look under the lock is   *)
(* for, says the comment there (_write).                                     *)
ReopenedOncePerRemoval == opened <= removals + 1

(* At most one stream is open, and it is the one of fp, except while a       *)
(* thread that holds the lock is replacing it: none is leaked and none is    *)
(* closed twice (_write, logclose, loginit).                                 *)
StreamOwned ==
  /\ \A s \in Open : s = fp \/ (s = opened /\ Replacing)
  /\ fp \in Open \/ Replacing

(* A message is written to the open stream, though fwrite is outside of the  *)
(* lock, unless another thread reopened the file during the call: then it    *)
(* may be given NULL or a stream that is closed (log, _write).               *)
HarmNeedsReopening == harmed \subseteq disturbed
=============================================================================
