--------------------------- MODULE LogWriterProofs ---------------------------
(***************************************************************************)
(* The properties of LogWriter for any number of threads and removals.     *)
(*                                                                         *)
(* None of them is inductive.  What they rest on: a thread is between lock *)
(* and unlock exactly if it holds the mutex (LockHeld); on the way from    *)
(* the second look to fopen the file stays away, and each file that is     *)
(* away is one removal ahead of the streams (Removed); which stream is     *)
(* open at each place of the reopening (Streams); and whoever is inside    *)
(* log while another thread replaces the stream knows it (Told).           *)
(***************************************************************************)
EXTENDS LogWriter, TLAPS

Locked == {"recheck", "close", "forget", "open", "assign", "unlock"}

LockHeld == \A t \in Threads : pc[t] \in Locked <=> mutex = t

Removed ==
  /\ opened <= removals + 1
  /\ ~file => opened <= removals
  /\ \A t \in Threads : pc[t] \in {"close", "forget", "open"} => ~file

Streams ==
  /\ \A t \in Threads :
       /\ pc[t] \in {"forget", "open"} => Open = {}
       /\ pc[t] \in {"open", "assign"} => fp = NoStream
       /\ pc[t] = "assign" => Open = {opened}
  /\ ~Replacing => Open = {fp}

Told ==
  /\ \A t, u \in Threads :
       pc[t] \in {"forget", "open", "assign"} /\ u # t /\ pc[u] # "idle" => u \in disturbed
  /\ \A t \in Threads : pc[t] = "write" => stream[t] \in Open \/ t \in disturbed
  /\ HarmNeedsReopening

IInv == TypeOK /\ LockHeld /\ Removed /\ Streams /\ Told
-----------------------------------------------------------------------------
(* The values of the variables; what is closed was open.                     *)
LEMMA TypeStep ==
  ASSUME IInv, [Next]_vars
  PROVE  TypeOK'
<1> USE LogAssumption DEF IInv, TypeOK, Goes, fileVars, endVars, NoStream
<1>1. CASE UNCHANGED vars
  BY <1>1 DEF vars, fileVars, endVars
<1>2. CASE Remove
  <2>1. removals' \in 0 .. MaxRemovals
    BY <1>2 DEF Remove
  <2> QED  BY <2>1, <1>2 DEF Remove
<1>3. ASSUME NEW t \in Threads, Log(t) PROVE TypeOK'
  BY <1>3 DEF Log
<1>4. ASSUME NEW t \in Threads, Access(t) PROVE TypeOK'
  BY <1>4 DEF Access
<1>5. ASSUME NEW t \in Threads, Lock(t) PROVE TypeOK'
  BY <1>5 DEF Lock
<1>6. ASSUME NEW t \in Threads, Recheck(t) PROVE TypeOK'
  BY <1>6 DEF Recheck
<1>7. ASSUME NEW t \in Threads, Close(t) PROVE TypeOK'
  <2>1. fp \in Open
    BY <1>7 DEF Close, LockHeld, Locked, Streams, Replacing
  <2> QED  BY <2>1, <1>7 DEF Close, Open
<1>8. ASSUME NEW t \in Threads, Forget(t) PROVE TypeOK'
  BY <1>8 DEF Forget
<1>9. ASSUME NEW t \in Threads, LogInit(t) PROVE TypeOK'
  <2>1. opened' \in Nat \ {0} /\ opened <= opened' /\ fp' \in 0 .. opened'
    BY <1>9 DEF LogInit
  <2>2. closed' \subseteq 1 .. opened'
    BY <2>1, <1>9 DEF LogInit
  <2> QED  BY <2>1, <2>2, <1>9 DEF LogInit
<1>10. ASSUME NEW t \in Threads, LogInitExits(t) PROVE TypeOK'
  BY <1>10 DEF LogInitExits
<1>11. ASSUME NEW t \in Threads, Assign(t) PROVE TypeOK'
  BY <1>11 DEF Assign
<1>12. ASSUME NEW t \in Threads, Unlock(t) PROVE TypeOK'
  BY <1>12 DEF Unlock
<1>13. ASSUME NEW t \in Threads, Fetch(t) PROVE TypeOK'
  BY <1>13 DEF Fetch
<1>14. ASSUME NEW t \in Threads, Write(t) PROVE TypeOK'
  BY <1>14 DEF Write
<1> QED
  BY <1>1, <1>2, <1>3, <1>4, <1>5, <1>6, <1>7, <1>8, <1>9, <1>10, <1>11, <1>12,
     <1>13, <1>14 DEF Next

(* Only the holder of the mutex is between lock and unlock.                  *)
LEMMA LockStep ==
  ASSUME IInv, [Next]_vars
  PROVE  LockHeld'
<1> USE LogAssumption DEF IInv, TypeOK, LockHeld, Locked, Goes, fileVars, endVars
<1>1. CASE UNCHANGED vars
  BY <1>1 DEF vars, fileVars, endVars
<1>2. CASE Remove
  BY <1>2 DEF Remove
<1>3. ASSUME NEW t \in Threads, Log(t) PROVE LockHeld'
  BY <1>3 DEF Log
<1>4. ASSUME NEW t \in Threads, Access(t) PROVE LockHeld'
  BY <1>4 DEF Access
<1>5. ASSUME NEW t \in Threads, Lock(t) PROVE LockHeld'
  BY <1>5 DEF Lock
<1>6. ASSUME NEW t \in Threads, Recheck(t) PROVE LockHeld'
  BY <1>6 DEF Recheck
<1>7. ASSUME NEW t \in Threads, Close(t) PROVE LockHeld'
  BY <1>7 DEF Close
<1>8. ASSUME NEW t \in Threads, Forget(t) PROVE LockHeld'
  BY <1>8 DEF Forget
<1>9. ASSUME NEW t \in Threads, LogInit(t) PROVE LockHeld'
  BY <1>9 DEF LogInit
<1>10. ASSUME NEW t \in Threads, LogInitExits(t) PROVE LockHeld'
  BY <1>10 DEF LogInitExits
<1>11. ASSUME NEW t \in Threads, Assign(t) PROVE LockHeld'
  BY <1>11 DEF Assign
<1>12. ASSUME NEW t \in Threads, Unlock(t) PROVE LockHeld'
  BY <1>12 DEF Unlock
<1>13. ASSUME NEW t \in Threads, Fetch(t) PROVE LockHeld'
  BY <1>13 DEF Fetch
<1>14. ASSUME NEW t \in Threads, Write(t) PROVE LockHeld'
  BY <1>14 DEF Write
<1> QED
  BY <1>1, <1>2, <1>3, <1>4, <1>5, <1>6, <1>7, <1>8, <1>9, <1>10, <1>11, <1>12,
     <1>13, <1>14 DEF Next

(* A file that is away is opened once; nobody else does it meanwhile.        *)
LEMMA RemovedStep ==
  ASSUME IInv, [Next]_vars
  PROVE  Removed'
<1> USE DEF IInv, TypeOK, LockHeld, Locked, Removed, Goes, fileVars, endVars, NoStream
<1>1. CASE UNCHANGED vars
  BY <1>1 DEF vars, fileVars, endVars
<1>2. CASE Remove
  BY <1>2 DEF Remove
<1>3. ASSUME NEW t \in Threads, Log(t) PROVE Removed'
  BY <1>3 DEF Log
<1>4. ASSUME NEW t \in Threads, Access(t) PROVE Removed'
  BY <1>4 DEF Access
<1>5. ASSUME NEW t \in Threads, Lock(t) PROVE Removed'
  BY <1>5 DEF Lock
<1>6. ASSUME NEW t \in Threads, Recheck(t) PROVE Removed'
  BY <1>6 DEF Recheck
<1>7. ASSUME NEW t \in Threads, Close(t) PROVE Removed'
  BY <1>7 DEF Close
<1>8. ASSUME NEW t \in Threads, Forget(t) PROVE Removed'
  BY <1>8 DEF Forget
<1>9. ASSUME NEW t \in Threads, LogInit(t) PROVE Removed'
  BY <1>9 DEF LogInit
<1>10. ASSUME NEW t \in Threads, LogInitExits(t) PROVE Removed'
  BY <1>10 DEF LogInitExits
<1>11. ASSUME NEW t \in Threads, Assign(t) PROVE Removed'
  BY <1>11 DEF Assign
<1>12. ASSUME NEW t \in Threads, Unlock(t) PROVE Removed'
  BY <1>12 DEF Unlock
<1>13. ASSUME NEW t \in Threads, Fetch(t) PROVE Removed'
  BY <1>13 DEF Fetch
<1>14. ASSUME NEW t \in Threads, Write(t) PROVE Removed'
  BY <1>14 DEF Write
<1> QED
  BY <1>1, <1>2, <1>3, <1>4, <1>5, <1>6, <1>7, <1>8, <1>9, <1>10, <1>11, <1>12,
     <1>13, <1>14 DEF Next

(* Which stream is open at each place of the reopening.                      *)
LEMMA StreamsStep ==
  ASSUME IInv, [Next]_vars
  PROVE  Streams'
<1> USE DEF IInv, TypeOK, LockHeld, Locked, Streams, Replacing, Open, Goes, fileVars,
           endVars, NoStream
<1>1. CASE UNCHANGED vars
  BY <1>1 DEF vars, fileVars, endVars
<1>2. CASE Remove
  BY <1>2 DEF Remove
<1>3. ASSUME NEW t \in Threads, Log(t) PROVE Streams'
  BY <1>3 DEF Log
<1>4. ASSUME NEW t \in Threads, Access(t) PROVE Streams'
  BY <1>4 DEF Access
<1>5. ASSUME NEW t \in Threads, Lock(t) PROVE Streams'
  BY <1>5 DEF Lock
<1>6. ASSUME NEW t \in Threads, Recheck(t) PROVE Streams'
  BY <1>6 DEF Recheck
<1>7. ASSUME NEW t \in Threads, Close(t) PROVE Streams'
  <2>1. mutex = t /\ pc[t] = "close" /\ \A u \in Threads : pc[u] \in Locked => u = t
    BY <1>7 DEF Close
  <2>2. Open = {fp}
    BY <2>1
  <2>3. opened' = opened /\ closed' = closed \cup {fp}
    BY <1>7 DEF Close
  <2>4. Open' = Open \ {fp}
    <3>1. \A s : s \in closed' <=> s \in closed \/ s = fp
      BY <2>3, Zenon
    <3>2. (1 .. opened)' = 1 .. opened
      BY <2>3, Zenon
    <3> HIDE DEF IInv
    <3>3. \A s : s \in Open' <=> s \in Open /\ s # fp
      BY <3>1, <3>2, Zenon
    <3> HIDE DEF Open
    <3> QED  BY <3>3, Zenon
  <2>5. pc'[t] = "forget" /\ mutex' = t
    BY <2>1, <1>7 DEF Close
  <2>6. \A u \in Threads : u # t => pc'[u] = pc[u]
    BY <1>7 DEF Close
  <2>7. Replacing'
    <3>1. t # Nobody
      BY LogAssumption
    <3> HIDE DEF IInv, TypeOK, Streams, Open
    <3> QED  BY <2>5, <3>1
  <2> HIDE DEF Open, Replacing
  <2> QED  BY <2>1, <2>2, <2>4, <2>5, <2>6, <2>7
<1>8. ASSUME NEW t \in Threads, Forget(t) PROVE Streams'
  BY <1>8 DEF Forget
<1>9. ASSUME NEW t \in Threads, LogInit(t) PROVE Streams'
  BY <1>9 DEF LogInit
<1>10. ASSUME NEW t \in Threads, LogInitExits(t) PROVE Streams'
  BY <1>10 DEF LogInitExits
<1>11. ASSUME NEW t \in Threads, Assign(t) PROVE Streams'
  BY <1>11 DEF Assign
<1>12. ASSUME NEW t \in Threads, Unlock(t) PROVE Streams'
  BY <1>12 DEF Unlock
<1>13. ASSUME NEW t \in Threads, Fetch(t) PROVE Streams'
  BY <1>13 DEF Fetch
<1>14. ASSUME NEW t \in Threads, Write(t) PROVE Streams'
  BY <1>14 DEF Write
<1> QED
  BY <1>1, <1>2, <1>3, <1>4, <1>5, <1>6, <1>7, <1>8, <1>9, <1>10, <1>11, <1>12,
     <1>13, <1>14 DEF Next

(* Whoever is inside log while the stream is replaced is disturbed.          *)
LEMMA ToldStep ==
  ASSUME IInv, [Next]_vars
  PROVE  Told'
<1> USE LogAssumption DEF IInv, TypeOK, LockHeld, Locked, Told, HarmNeedsReopening, Goes, fileVars,
           endVars
<1>1. CASE UNCHANGED vars
  BY <1>1 DEF vars, Open
<1>2. CASE Remove
  BY <1>2 DEF Remove, Open
<1>3. ASSUME NEW t \in Threads, Log(t) PROVE Told'
  BY <1>3 DEF Log, Open, Replacing
<1>4. ASSUME NEW t \in Threads, Access(t) PROVE Told'
  BY <1>4 DEF Access, Open
<1>5. ASSUME NEW t \in Threads, Lock(t) PROVE Told'
  BY <1>5 DEF Lock, Open
<1>6. ASSUME NEW t \in Threads, Recheck(t) PROVE Told'
  BY <1>6 DEF Recheck, Open
<1>7. ASSUME NEW t \in Threads, Close(t) PROVE Told'
  BY <1>7 DEF Close, Open
<1>8. ASSUME NEW t \in Threads, Forget(t) PROVE Told'
  BY <1>8 DEF Forget, Open
<1>9. ASSUME NEW t \in Threads, LogInit(t) PROVE Told'
  BY <1>9 DEF LogInit, Open
<1>10. ASSUME NEW t \in Threads, LogInitExits(t) PROVE Told'
  BY <1>10 DEF LogInitExits, Open
<1>11. ASSUME NEW t \in Threads, Assign(t) PROVE Told'
  BY <1>11 DEF Assign, Open
<1>12. ASSUME NEW t \in Threads, Unlock(t) PROVE Told'
  BY <1>12 DEF Unlock, Open
<1>13. ASSUME NEW t \in Threads, Fetch(t) PROVE Told'
  <2>1. fp \in Open \/ Replacing
    BY DEF Streams
  <2>2. pc[t] = "fetch" /\ mutex # t
    BY <1>13 DEF Fetch
  <2>3. fp \in Open \/ t \in disturbed
    BY <2>1, <2>2 DEF Replacing
  <2>4. Open' = Open
    BY <1>13 DEF Fetch, Open
  <2> QED  BY <2>2, <2>3, <2>4, <1>13 DEF Fetch
<1>14. ASSUME NEW t \in Threads, Write(t) PROVE Told'
  BY <1>14 DEF Write, Open
<1> QED
  BY <1>1, <1>2, <1>3, <1>4, <1>5, <1>6, <1>7, <1>8, <1>9, <1>10, <1>11, <1>12,
     <1>13, <1>14 DEF Next

(* The four conjuncts and the types are inductive together.                  *)
LEMMA Inductive == Spec => []IInv
<1>1. Init => IInv
  <2> SUFFICES ASSUME Init PROVE IInv
    OBVIOUS
  <2> USE LogAssumption DEF Init, NoStream
  <2>1. Open = {fp}
    BY DEF Open
  <2>2. /\ pc \in [Threads -> {"idle", "access", "lock", "recheck", "close", "forget", "open",
                          "assign", "unlock", "fetch", "write"}]
        /\ stream \in [Threads -> Nat]
    OBVIOUS
  <2>3. opened \in Nat \ {0} /\ fp \in 0 .. opened /\ removals \in 0 .. MaxRemovals
    OBVIOUS
  <2>4. closed \subseteq 1 .. opened /\ file \in BOOLEAN /\ mutex \in Threads \cup {Nobody}
    BY Zenon
  <2>5. exited \in BOOLEAN /\ harmed \subseteq Threads /\ disturbed \subseteq Threads
    BY Zenon
  <2>6. TypeOK
    BY <2>2, <2>3, <2>4, <2>5, Zenon DEF TypeOK
  <2> QED  BY <2>1, <2>6 DEF IInv, LockHeld, Locked, Removed, Streams, Told, HarmNeedsReopening
<1>2. IInv /\ [Next]_vars => IInv'
  BY TypeStep, LockStep, RemovedStep, StreamsStep, ToldStep DEF IInv
<1> QED
  BY <1>1, <1>2, PTL DEF Spec

LEMMA InvariantImplies ==
  IInv => TypeOK /\ ReopenedOncePerRemoval /\ StreamOwned /\ HarmNeedsReopening
<1> SUFFICES ASSUME IInv
             PROVE  TypeOK /\ ReopenedOncePerRemoval /\ StreamOwned /\ HarmNeedsReopening
  OBVIOUS
<1>1. TypeOK /\ ReopenedOncePerRemoval /\ HarmNeedsReopening
  BY DEF IInv, Removed, Told, ReopenedOncePerRemoval
<1>2. StreamOwned
  <2>1. CASE ~Replacing
    BY <2>1 DEF IInv, Streams, StreamOwned
  <2>2. CASE Replacing
    BY <2>2, LogAssumption DEF IInv, TypeOK, Streams, StreamOwned, Replacing
  <2> QED  BY <2>1, <2>2
<1> QED
  BY <1>1, <1>2

(* With any number of threads the file is reopened once for each time it was *)
(* taken away (_write).                                                      *)
THEOREM LogReopensOnce == Spec => [](TypeOK /\ ReopenedOncePerRemoval)
  BY Inductive, InvariantImplies, PTL

(* With any number of threads no stream is leaked and none is closed twice.  *)
THEOREM LogOwnsStream == Spec => []StreamOwned
  BY Inductive, InvariantImplies, PTL

(* A message that is written to NULL or to a closed stream was logged while  *)
(* another thread reopened the file (log, _write).                           *)
THEOREM LogHarmless == Spec => []HarmNeedsReopening
  BY Inductive, InvariantImplies, PTL
=============================================================================
