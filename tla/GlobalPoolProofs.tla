--------------------------- MODULE GlobalPoolProofs ---------------------------
(***************************************************************************)
(* Proofs about GlobalPool, for any number of threads, calls and files:    *)
(* the locks are held as the code means them to be, no half-built pool is  *)
(* handed out, a derived descriptor() finds its type, and every panic has  *)
(* its cause.                                                              *)
(***************************************************************************)
EXTENDS GlobalPool, TLAPS

-----------------------------------------------------------------------------
(* Types.                                                                  *)

AddedBatches == {WellKnown} \cup { c.batch : c \in Calls }
AllFiles == UNION { Range(b) : b \in AddedBatches }

Lefts == 0..MaxCalls

ThreadState ==
  [at : Places, call : Calls \cup {NoCall}, next : {"build", "clone"},
   copy : [live : BOOLEAN, protos : SUBSET AllFiles, torn : BOOLEAN],
   error : BOOLEAN, left : Lefts]

Types ==
  /\ cell \in {"empty", "initialising", "ready"}
  /\ protos \in SUBSET AllFiles /\ torn \in BOOLEAN
  /\ owner \in Threads \cup {NoThread} /\ poisoned \in BOOLEAN
  /\ once \in [Calls -> {"new", "running", "done", "poisoned"}]
  /\ thread \in [Threads -> ThreadState] /\ refused \in SUBSET Calls

\* What is added to the pool comes from a batch.
LEMMA NewFilesAreOfBatches ==
  ASSUME NEW S, NEW b \in AddedBatches
  PROVE  Registry!NewFiles(S, b) \subseteq AllFiles
<1>1. Registry!NewFiles(S, b) \subseteq Range(b)
  BY DEF Registry!NewFiles, Registry!NewPositions, Range
<1> QED BY <1>1 DEF AllFiles

LEMMA AddedBeforeOfBatches ==
  ASSUME NEW th, thread[th].call.batch \in AddedBatches
  PROVE  AddedBefore(th) \subseteq AllFiles
<1>1. AddedBefore(th) \subseteq Range(thread[th].call.batch)
  BY DEF AddedBefore, Registry!NewPositions, Range
<1> QED BY <1>1 DEF AllFiles

\* A thread that is in a call is in one of Calls.
InCall == \A th \in Threads : thread[th].at # "idle" => thread[th].call \in Calls

LEMMA TypesInit == Init => Types /\ InCall
<1> SUFFICES ASSUME Init PROVE Types /\ InCall
  OBVIOUS
<1>1. Idle(MaxCalls) \in ThreadState /\ Idle(MaxCalls).at = "idle"
  BY CallsAssumption DEF Idle, ThreadState, Places, NoCopy, Lefts
<1> QED BY <1>1 DEF Init, Types, InCall

LEMMA TypesStep == Types /\ InCall /\ [Next]_vars => Types' /\ InCall'
<1> SUFFICES ASSUME Types, InCall, [Next]_vars PROVE Types' /\ InCall'
  OBVIOUS
<1> USE DEF Types, InCall, At, Moved
<1>p. ASSUME NEW th \in Threads, NEW p \in Places \ {"idle"}, thread[th].at # "idle"
      PROVE  /\ Moved(th, p) \in [Threads -> ThreadState]
             /\ \A u \in Threads : Moved(th, p)[u].at # "idle" => Moved(th, p)[u].call \in Calls
  BY <1>p DEF ThreadState
<1>1. ASSUME NEW th \in Threads, NEW c \in Calls, Enter(th, c)
      PROVE  Types' /\ InCall'
  BY <1>1 DEF Enter, ThreadState, Places, Lefts
<1>2. ASSUME NEW th \in Threads, Panic(th), thread[th].at # "idle",
             UNCHANGED <<cell, refused>>, protos' \in SUBSET AllFiles,
             torn' \in BOOLEAN, poisoned' \in BOOLEAN, owner' \in Threads \cup {NoThread}
      PROVE  Types' /\ InCall'
  <2>1. thread' = Moved(th, "panicked") /\ once' \in [Calls -> {"new", "running", "done", "poisoned"}]
    BY <1>2 DEF Panic
  <2>2. thread' \in [Threads -> ThreadState] /\ InCall'
    BY <1>2, <1>p, <2>1 DEF Places
  <2> QED BY <1>2, <2>1, <2>2
<1>3. ASSUME NEW th \in Threads, CallOnce(th)
      PROVE  Types' /\ InCall'
  <2>1. CASE Panic(th)
    BY <1>2, <1>3, <2>1 DEF CallOnce
  <2>2. CASE thread' = Moved(th, "cell") /\ once' = [once EXCEPT ![thread[th].call] = "running"]
    BY <1>3, <1>p, <2>2 DEF CallOnce, Places
  <2>3. CASE thread' = [thread EXCEPT ![th].at = "cell", ![th].next = "clone"] /\ once' = once
    BY <1>3, <2>3 DEF CallOnce, ThreadState, Places
  <2> QED BY <1>3, <2>1, <2>2, <2>3 DEF CallOnce
<1>4. ASSUME NEW th \in Threads, EnterCell(th)
      PROVE  Types' /\ InCall'
  <2>1. CASE cell' = "initialising" /\ thread' = Moved(th, "init")
    BY <1>4, <1>p, <2>1 DEF EnterCell, Places
  <2>2. CASE cell' = cell /\ thread' = Moved(th, "lock")
    BY <1>4, <1>p, <2>2 DEF EnterCell, Places
  <2> QED BY <1>4, <2>1, <2>2 DEF EnterCell
<1>5. ASSUME NEW th \in Threads, InitCell(th)
      PROVE  Types' /\ InCall'
  BY <1>5, <1>p, NewFilesAreOfBatches DEF InitCell, Initial, AddedBatches, Places
<1>6. ASSUME NEW th \in Threads, Lock(th)
      PROVE  Types' /\ InCall'
  <2>1. CASE poisoned
    BY <1>2, <1>6, <2>1 DEF Lock
  <2>2. CASE ~poisoned
    <3> DEFINE p == thread[th].next
    <3>0. thread' = Moved(th, p)
      BY <1>6, <2>2 DEF Lock
    <3>1. p \in Places \ {"idle"} /\ thread[th].at # "idle"
      BY <1>6 DEF Lock, Places, ThreadState
    <3> HIDE DEF p
    <3>2. thread' \in [Threads -> ThreadState] /\ InCall'
      BY ONLY <1>p, <3>0, <3>1, th \in Threads DEF Moved, InCall
    <3> QED BY <1>6, <2>2, <3>2 DEF Lock
  <2> QED BY <2>1, <2>2
<1>7. ASSUME NEW th \in Threads, BuildPanics(th)
      PROVE  Types' /\ InCall'
  <2>1. thread[th].call.batch \in AddedBatches
    BY <1>7 DEF BuildPanics, AddedBatches
  <2>2. protos' \in SUBSET AllFiles
    BY <1>7, <2>1, AddedBeforeOfBatches DEF BuildPanics
  <2> QED BY <1>2, <1>7, <2>2 DEF BuildPanics
<1>8. ASSUME NEW th \in Threads, Build(th)
      PROVE  Types' /\ InCall'
  <2>0. thread[th].call.batch \in AddedBatches
    BY <1>8 DEF Build, AddedBatches
  <2>1. New(th) \subseteq AllFiles
    BY <2>0, NewFilesAreOfBatches DEF New
  <2>2. protos' \in SUBSET AllFiles
    BY <1>8, <2>1 DEF Build
  <2>e. PICK e \in BOOLEAN : thread' = [thread EXCEPT ![th].at = "built", ![th].error = e]
    BY <1>8 DEF Build
  <2> DEFINE s == [thread[th] EXCEPT !.at = "built", !.error = e]
  <2>3. thread' = [thread EXCEPT ![th] = s] /\ UNCHANGED <<cell, torn, owner, poisoned, once>>
    BY <1>8, <2>e DEF Build
  <2>4. /\ s.call = thread[th].call /\ thread[th].at # "idle"
        /\ refused' \in SUBSET Calls
    BY <1>8 DEF Build, ThreadState
  <2>6. s \in ThreadState
    BY ZenonT(60) DEF ThreadState, Places
  <2> HIDE DEF s
  <2> QED BY <2>2, <2>3, <2>4, <2>6
<1>9. ASSUME NEW th \in Threads, Unlock(th)
      PROVE  Types' /\ InCall'
  <2>1. ASSUME NEW p \in {"complete", "returned"}, thread' = Moved(th, p)
        PROVE  Types' /\ InCall'
    BY <1>9, <1>p, <2>1 DEF Unlock, Places
  <2> QED BY <1>9, <2>1 DEF Unlock
<1>10. ASSUME NEW th \in Threads, Complete(th)
      PROVE  Types' /\ InCall'
  <2>1. CASE thread[th].error
    BY <1>2, <1>10, <2>1 DEF Complete
  <2>2. CASE ~thread[th].error
    <3> DEFINE s == [thread[th] EXCEPT !.at = "cell", !.next = "clone"]
    <3>1. thread' = [thread EXCEPT ![th] = s]
      BY <1>10, <2>2 DEF Complete
    <3>a. thread[th] \in ThreadState /\ thread[th].at # "idle" /\ thread[th].call \in Calls
      BY <1>10 DEF Complete
    <3>2. s \in ThreadState /\ s.call \in Calls
      BY <3>a DEF ThreadState, Places
    <3>3. /\ UNCHANGED <<cell, protos, torn, owner, poisoned, refused>>
          /\ once' = [once EXCEPT ![thread[th].call] = "done"]
      BY <1>10, <2>2 DEF Complete
    <3> HIDE DEF s
    <3> QED BY <3>1, <3>2, <3>3
  <2> QED BY <2>1, <2>2
<1>11. ASSUME NEW th \in Threads, CloneGlobal(th)
      PROVE  Types' /\ InCall'
  <2> DEFINE c == [live |-> TRUE, protos |-> protos, torn |-> torn]
             s == [thread[th] EXCEPT !.at = "lookup", !.copy = c]
  <2>1. thread' = [thread EXCEPT ![th] = s]
    BY <1>11 DEF CloneGlobal
  <2>a. thread[th] \in ThreadState /\ thread[th].at # "idle" /\ thread[th].call \in Calls
    BY <1>11 DEF CloneGlobal
  <2>2. s \in ThreadState /\ s.call \in Calls
    BY <2>a DEF ThreadState, Places
  <2>3. UNCHANGED <<cell, protos, torn, poisoned, once, refused>> /\ owner' = NoThread
    BY <1>11 DEF CloneGlobal
  <2> HIDE DEF s
  <2> QED BY <2>1, <2>2, <2>3
<1>12. ASSUME NEW th \in Threads, LookUp(th)
      PROVE  Types' /\ InCall'
  BY <1>12, <1>p DEF LookUp, Places
<1>13. ASSUME NEW th \in Threads, Return(th)
      PROVE  Types' /\ InCall'
  BY <1>13 DEF Return, Idle, ThreadState, Places, NoCopy
<1>14. CASE UNCHANGED vars
  BY <1>14 DEF vars
<1> QED
  BY <1>1, <1>3, <1>4, <1>5, <1>6, <1>7, <1>8, <1>9, <1>10, <1>11, <1>12, <1>13, <1>14
  DEF Next, Step, Finished

-----------------------------------------------------------------------------
(* What the steps do, thread by thread.                                    *)

Others(th) == \A u \in Threads : u # th => thread'[u] = thread[u]
Keeps(th) ==
  /\ thread'[th].call = thread[th].call /\ thread'[th].next = thread[th].next
  /\ thread'[th].copy = thread[th].copy /\ thread'[th].error = thread[th].error
Goes(th, place) == Others(th) /\ Keeps(th) /\ thread'[th].at = place
GoesToClone(th) ==
  /\ Others(th) /\ thread'[th].at = "cell" /\ thread'[th].next = "clone"
  /\ thread'[th].call = thread[th].call /\ thread'[th].copy = thread[th].copy
SetsOnce(th, state) ==
  \A c \in Calls : once'[c] = IF c = thread[th].call THEN state ELSE once[c]
Panics(th) ==
  /\ Goes(th, "panicked")
  /\ IF thread[th].call.derived /\ thread[th].next = "build" /\ thread[th].at # "once"
     THEN SetsOnce(th, "poisoned") ELSE once' = once

LEMMA MovedGoes ==
  ASSUME Types, NEW th \in Threads, NEW place, thread' = Moved(th, place)
  PROVE  Goes(th, place)
BY DEF Types, ThreadState, Moved, Goes, Others, Keeps

LEMMA PanicEffect ==
  ASSUME Types, NEW th \in Threads, Panic(th)
  PROVE  Panics(th)
<1>1. Goes(th, "panicked")
  BY MovedGoes DEF Panic
<1>2. CASE thread[th].call.derived /\ thread[th].next = "build" /\ thread[th].at # "once"
  BY <1>1, <1>2 DEF Panic, Panics, SetsOnce, At, Types
<1>3. CASE ~(thread[th].call.derived /\ thread[th].next = "build" /\ thread[th].at # "once")
  BY <1>1, <1>3 DEF Panic, Panics, At
<1> QED BY <1>2, <1>3

LEMMA EnterEffect ==
  ASSUME Types, NEW th \in Threads, NEW c \in Calls, Enter(th, c)
  PROVE  /\ thread[th].at = "idle" /\ Others(th)
         /\ thread'[th].at = IF c.derived THEN "once" ELSE "cell"
         /\ thread'[th].call = c /\ thread'[th].next = thread[th].next
         /\ thread'[th].copy = thread[th].copy
         /\ UNCHANGED <<cell, protos, torn, owner, poisoned, once, refused>>
BY DEF Enter, Types, ThreadState, At, Others

LEMMA CallOnceEffect ==
  ASSUME Types, NEW th \in Threads, CallOnce(th)
  PROVE  /\ thread[th].at = "once" /\ UNCHANGED <<cell, protos, torn, owner, poisoned, refused>>
         /\ \/ once[thread[th].call] = "new" /\ SetsOnce(th, "running") /\ Goes(th, "cell")
            \/ once[thread[th].call] = "done" /\ once' = once /\ GoesToClone(th)
            \/ once[thread[th].call] = "poisoned" /\ Panics(th)
<1>1. ASSUME once' = [once EXCEPT ![thread[th].call] = "running"] PROVE SetsOnce(th, "running")
  BY <1>1 DEF Types, SetsOnce
<1>2. ASSUME thread' = [thread EXCEPT ![th].at = "cell", ![th].next = "clone"] PROVE GoesToClone(th)
  BY <1>2 DEF Types, ThreadState, GoesToClone, Others
<1> QED BY <1>1, <1>2, MovedGoes, PanicEffect DEF CallOnce, At

LEMMA EnterCellEffect ==
  ASSUME Types, NEW th \in Threads, EnterCell(th)
  PROVE  /\ thread[th].at = "cell" /\ UNCHANGED <<protos, torn, owner, poisoned, once, refused>>
         /\ \/ cell = "empty" /\ cell' = "initialising" /\ Goes(th, "init")
            \/ cell = "ready" /\ cell' = "ready" /\ Goes(th, "lock")
BY MovedGoes DEF EnterCell, At

LEMMA InitCellEffect ==
  ASSUME Types, NEW th \in Threads, InitCell(th)
  PROVE  /\ thread[th].at = "init" /\ cell' = "ready" /\ Goes(th, "lock")
         /\ UNCHANGED <<torn, owner, poisoned, once, refused>>
BY MovedGoes DEF InitCell, At

LEMMA LockEffect ==
  ASSUME Types, NEW th \in Threads, Lock(th)
  PROVE  /\ thread[th].at = "lock" /\ owner = NoThread /\ thread[th].next \in {"build", "clone"}
         /\ UNCHANGED <<cell, protos, torn, poisoned, refused>>
         /\ \/ poisoned /\ owner' = owner /\ Panics(th)
            \/ ~poisoned /\ owner' = th /\ Goes(th, thread[th].next) /\ once' = once
BY MovedGoes, PanicEffect DEF Lock, At, Types, ThreadState

LEMMA BuildPanicsEffect ==
  ASSUME Types, NEW th \in Threads, BuildPanics(th)
  PROVE  /\ thread[th].at = "build" /\ torn' = TRUE /\ poisoned' = TRUE /\ owner' = NoThread
         /\ Panics(th) /\ UNCHANGED <<cell, refused>> /\ protos \subseteq protos'
BY PanicEffect DEF BuildPanics, At

LEMMA BuildEffect ==
  ASSUME Types, NEW th \in Threads, Build(th)
  PROVE  /\ thread[th].at = "build" /\ Others(th)
         /\ thread'[th].at = "built" /\ thread'[th].call = thread[th].call
         /\ thread'[th].next = thread[th].next /\ thread'[th].copy = thread[th].copy
         /\ protos' = IF ~thread'[th].error THEN protos \cup New(th) ELSE protos
         /\ refused' = IF thread'[th].error THEN refused \cup {thread[th].call} ELSE refused
         /\ UNCHANGED <<cell, torn, owner, poisoned, once>>
<1>1. PICK error \in BOOLEAN :
        /\ At(th, "build") /\ UNCHANGED <<cell, torn, owner, poisoned, once>>
        /\ refused' = IF error THEN refused \cup {thread[th].call} ELSE refused
        /\ protos' = IF error THEN protos ELSE protos \cup New(th)
        /\ thread' = [thread EXCEPT ![th].at = "built", ![th].error = error]
  BY DEF Build
<1>2. /\ Others(th) /\ thread'[th].at = "built" /\ thread'[th].error = error
      /\ thread'[th].call = thread[th].call
      /\ thread'[th].next = thread[th].next /\ thread'[th].copy = thread[th].copy
  BY <1>1 DEF Types, ThreadState, Others
<1> QED BY <1>1, <1>2 DEF At

LEMMA UnlockEffect ==
  ASSUME Types, NEW th \in Threads, Unlock(th)
  PROVE  /\ thread[th].at = "built" /\ owner' = NoThread
         /\ Goes(th, IF thread[th].call.derived THEN "complete" ELSE "returned")
         /\ UNCHANGED <<cell, protos, torn, poisoned, once, refused>>
BY MovedGoes DEF Unlock, At

LEMMA CompleteEffect ==
  ASSUME Types, NEW th \in Threads, Complete(th)
  PROVE  /\ thread[th].at = "complete" /\ UNCHANGED <<cell, protos, torn, owner, poisoned, refused>>
         /\ \/ thread[th].error /\ Panics(th)
            \/ ~thread[th].error /\ SetsOnce(th, "done") /\ GoesToClone(th)
<1>1. ASSUME once' = [once EXCEPT ![thread[th].call] = "done"] PROVE SetsOnce(th, "done")
  BY <1>1 DEF Types, SetsOnce
<1>2. ASSUME thread' = [thread EXCEPT ![th].at = "cell", ![th].next = "clone"] PROVE GoesToClone(th)
  BY <1>2 DEF Types, ThreadState, GoesToClone, Others
<1> QED BY <1>1, <1>2, PanicEffect DEF Complete, At

LEMMA CloneGlobalEffect ==
  ASSUME Types, NEW th \in Threads, CloneGlobal(th)
  PROVE  /\ thread[th].at = "clone" /\ owner' = NoThread /\ Others(th)
         /\ thread'[th].at = "lookup" /\ thread'[th].call = thread[th].call
         /\ thread'[th].next = thread[th].next
         /\ thread'[th].copy.protos = protos /\ thread'[th].copy.torn = torn
         /\ UNCHANGED <<cell, protos, torn, poisoned, once, refused>>
BY DEF CloneGlobal, At, Types, ThreadState, Others

LEMMA LookUpEffect ==
  ASSUME Types, NEW th \in Threads, LookUp(th)
  PROVE  /\ thread[th].at = "lookup"
         /\ Goes(th, "returned") \/ Goes(th, "panicked")
         /\ UNCHANGED <<cell, protos, torn, owner, poisoned, once, refused>>
BY MovedGoes DEF LookUp, At

LEMMA ReturnEffect ==
  ASSUME Types, NEW th \in Threads, Return(th)
  PROVE  /\ thread[th].at \in {"returned", "panicked"} /\ Others(th)
         /\ thread'[th].at = "idle" /\ thread'[th].next = "build" /\ ~thread'[th].call.derived
         /\ ~thread'[th].copy.torn
         /\ UNCHANGED <<cell, protos, torn, owner, poisoned, once, refused>>
BY DEF Return, Types, ThreadState, Idle, NoCall, NoCopy, Others

-----------------------------------------------------------------------------
(* Where the threads are, and who holds what.                              *)

\* The way of a thread: with "next" it remembers whether it builds or clones.
Order ==
  \A th \in Threads :
    /\ thread[th].at \in {"idle", "once", "build", "built", "complete"} => thread[th].next = "build"
    /\ thread[th].at \in {"clone", "lookup"} => thread[th].next = "clone"
    /\ thread[th].at \in {"once", "complete"} \/ thread[th].next = "clone" => thread[th].call.derived
    /\ thread[th].at \in {"lock", "build", "built", "complete", "clone"} => cell = "ready"

LEMMA OrderStep == Types /\ Order /\ [Next]_vars => Order'
<1> SUFFICES ASSUME Types, Order, [Next]_vars PROVE Order'
  OBVIOUS
<1> USE DEF Others, Keeps, Goes, GoesToClone, Panics, Order
<1>1. ASSUME NEW th \in Threads, NEW c \in Calls, Enter(th, c) PROVE Order'
  BY <1>1, EnterEffect
<1>2. ASSUME NEW th \in Threads, CallOnce(th) PROVE Order'
  BY <1>2, CallOnceEffect
<1>3. ASSUME NEW th \in Threads, EnterCell(th) PROVE Order'
  BY <1>3, EnterCellEffect
<1>4. ASSUME NEW th \in Threads, InitCell(th) PROVE Order'
  BY <1>4, InitCellEffect
<1>5. ASSUME NEW th \in Threads, Lock(th) PROVE Order'
  BY <1>5, LockEffect
<1>6. ASSUME NEW th \in Threads, BuildPanics(th) PROVE Order'
  BY ZenonT(60), <1>6, BuildPanicsEffect
<1>7. ASSUME NEW th \in Threads, Build(th) PROVE Order'
  BY <1>7, BuildEffect
<1>8. ASSUME NEW th \in Threads, Unlock(th) PROVE Order'
  BY <1>8, UnlockEffect
<1>9. ASSUME NEW th \in Threads, Complete(th) PROVE Order'
  BY <1>9, CompleteEffect
<1>10. ASSUME NEW th \in Threads, CloneGlobal(th) PROVE Order'
  BY <1>10, CloneGlobalEffect
<1>11. ASSUME NEW th \in Threads, LookUp(th) PROVE Order'
  BY <1>11, LookUpEffect
<1>12. ASSUME NEW th \in Threads, Return(th) PROVE Order'
  BY <1>12, ReturnEffect
<1>13. CASE UNCHANGED vars
  BY <1>13 DEF vars
<1> QED
  BY <1>1, <1>2, <1>3, <1>4, <1>5, <1>6, <1>7, <1>8, <1>9, <1>10, <1>11, <1>12, <1>13
  DEF Next, Step, Finished

\* The guard of the Mutex.
LEMMA GuardStep == Types /\ Order /\ GuardMatches /\ [Next]_vars => GuardMatches'
<1> SUFFICES ASSUME Types, Order, GuardMatches, [Next]_vars PROVE GuardMatches'
  OBVIOUS
<1> USE ThreadsAssumption DEF Others, Keeps, Goes, GoesToClone, Panics, GuardMatches, Holds
<1>1. ASSUME NEW th \in Threads, NEW c \in Calls, Enter(th, c) PROVE GuardMatches'
  BY <1>1, EnterEffect
<1>2. ASSUME NEW th \in Threads, CallOnce(th) PROVE GuardMatches'
  BY <1>2, CallOnceEffect
<1>3. ASSUME NEW th \in Threads, EnterCell(th) PROVE GuardMatches'
  BY <1>3, EnterCellEffect
<1>4. ASSUME NEW th \in Threads, InitCell(th) PROVE GuardMatches'
  BY <1>4, InitCellEffect
<1>5. ASSUME NEW th \in Threads, Lock(th) PROVE GuardMatches'
  BY <1>5, LockEffect
<1>6. ASSUME NEW th \in Threads, BuildPanics(th) PROVE GuardMatches'
  BY ZenonT(60), <1>6, BuildPanicsEffect
<1>7. ASSUME NEW th \in Threads, Build(th) PROVE GuardMatches'
  BY <1>7, BuildEffect
<1>8. ASSUME NEW th \in Threads, Unlock(th) PROVE GuardMatches'
  BY <1>8, UnlockEffect
<1>9. ASSUME NEW th \in Threads, Complete(th) PROVE GuardMatches'
  BY <1>9, CompleteEffect
<1>10. ASSUME NEW th \in Threads, CloneGlobal(th) PROVE GuardMatches'
  BY <1>10, CloneGlobalEffect
<1>11. ASSUME NEW th \in Threads, LookUp(th) PROVE GuardMatches'
  BY <1>11, LookUpEffect
<1>12. ASSUME NEW th \in Threads, Return(th) PROVE GuardMatches'
  BY <1>12, ReturnEffect
<1>13. CASE UNCHANGED vars
  BY <1>13 DEF vars
<1> QED
  BY <1>1, <1>2, <1>3, <1>4, <1>5, <1>6, <1>7, <1>8, <1>9, <1>10, <1>11, <1>12, <1>13
  DEF Next, Step, Finished

\* The OnceLock.
LEMMA CellStep == Types /\ Order /\ CellMatches /\ [Next]_vars => CellMatches'
<1> SUFFICES ASSUME Types, Order, CellMatches, [Next]_vars PROVE CellMatches'
  OBVIOUS
<1> USE DEF Others, Keeps, Goes, GoesToClone, Panics, Order, CellMatches, At
<1>1. ASSUME NEW th \in Threads, NEW c \in Calls, Enter(th, c) PROVE CellMatches'
  BY <1>1, EnterEffect
<1>2. ASSUME NEW th \in Threads, CallOnce(th) PROVE CellMatches'
  BY <1>2, CallOnceEffect
<1>3. ASSUME NEW th \in Threads, EnterCell(th) PROVE CellMatches'
  <2>1. CASE cell = "empty" /\ cell' = "initialising" /\ Goes(th, "init")
    BY <2>1
  <2>2. CASE cell = "ready" /\ cell' = "ready" /\ Goes(th, "lock")
    BY <2>2
  <2> QED BY <1>3, <2>1, <2>2, EnterCellEffect
<1>4. ASSUME NEW th \in Threads, InitCell(th) PROVE CellMatches'
  BY <1>4, InitCellEffect
<1>5. ASSUME NEW th \in Threads, Lock(th) PROVE CellMatches'
  BY <1>5, LockEffect
<1>6. ASSUME NEW th \in Threads, BuildPanics(th) PROVE CellMatches'
  BY ZenonT(60), <1>6, BuildPanicsEffect
<1>7. ASSUME NEW th \in Threads, Build(th) PROVE CellMatches'
  BY <1>7, BuildEffect
<1>8. ASSUME NEW th \in Threads, Unlock(th) PROVE CellMatches'
  BY <1>8, UnlockEffect
<1>9. ASSUME NEW th \in Threads, Complete(th) PROVE CellMatches'
  BY <1>9, CompleteEffect
<1>10. ASSUME NEW th \in Threads, CloneGlobal(th) PROVE CellMatches'
  BY <1>10, CloneGlobalEffect
<1>11. ASSUME NEW th \in Threads, LookUp(th) PROVE CellMatches'
  BY <1>11, LookUpEffect
<1>12. ASSUME NEW th \in Threads, Return(th) PROVE CellMatches'
  BY <1>12, ReturnEffect
<1>13. CASE UNCHANGED vars
  BY <1>13 DEF vars
<1> QED
  BY <1>1, <1>2, <1>3, <1>4, <1>5, <1>6, <1>7, <1>8, <1>9, <1>10, <1>11, <1>12, <1>13
  DEF Next, Step, Finished

\* The Onces.  Nothing changes when the same threads are in their closures ...
LEMMA SameRegistrations ==
  ASSUME OncesMatch, once' = once,
         \A u \in Threads : /\ Registers(u)' <=> Registers(u)
                            /\ Registers(u) => thread'[u].call = thread[u].call
  PROVE  OncesMatch'
BY DEF OncesMatch

\* ... one thread enters a closure when its Once is new ...
LEMMA RegistrationStarts ==
  ASSUME Types, InCall, Order, OncesMatch, NEW th \in Threads,
         thread[th].at = "once", once[thread[th].call] = "new",
         SetsOnce(th, "running"), Goes(th, "cell")
  PROVE  OncesMatch'
<1>1. thread[th].call \in Calls /\ Registers(th)' /\ thread'[th].call = thread[th].call
  BY DEF InCall, Order, Registers, Goes, Keeps
<1>2. \A u \in Threads : u # th => thread'[u] = thread[u] /\ (Registers(u)' <=> Registers(u))
  BY DEF Goes, Others, Registers
<1>3. \A u \in Threads : ~(Registers(u) /\ thread[u].call = thread[th].call)
  BY <1>1 DEF OncesMatch
<1>4. ASSUME NEW c \in Calls
      PROVE  once'[c] = "running" <=> \E u \in Threads : thread'[u].call = c /\ Registers(u)'
  <2>1. CASE c = thread[th].call
    BY <1>1, <2>1 DEF SetsOnce
  <2>2. CASE c # thread[th].call
    <3>1. once'[c] = once[c]
      BY <2>2 DEF SetsOnce
    <3>2. ~Registers(th)
      BY DEF Registers
    <3> QED BY <1>1, <1>2, <2>2, <3>1, <3>2 DEF OncesMatch
  <2> QED BY <2>1, <2>2
<1>5. \A t, u \in Threads :
         Registers(t)' /\ Registers(u)' /\ thread'[t].call = thread'[u].call => t = u
  BY <1>1, <1>2, <1>3 DEF OncesMatch
<1> QED BY <1>4, <1>5 DEF OncesMatch

\* ... and the closure of a thread ends with its Once done or poisoned.
LEMMA RegistrationEnds ==
  ASSUME Types, InCall, OncesMatch, NEW th \in Threads, Registers(th), ~Registers(th)',
         Others(th), NEW v \in {"done", "poisoned"}, SetsOnce(th, v)
  PROVE  OncesMatch'
<1>1. \A u \in Threads : u # th => (Registers(u)' <=> Registers(u)) /\ thread'[u] = thread[u]
  BY DEF Registers, Others
<1>2. \A u \in Threads : Registers(u) => thread[u].call \in Calls
  BY DEF Registers, InCall
<1>3. \A c \in Calls : once'[c] = IF c = thread[th].call THEN v ELSE once[c]
  BY DEF SetsOnce
<1>4. \A u \in Threads : Registers(u)' => u # th /\ Registers(u) /\ thread'[u] = thread[u]
  BY <1>1
<1>5. \A c \in Calls : once'[c] = "running" <=> \E u \in Threads : thread'[u].call = c /\ Registers(u)'
  <2> SUFFICES ASSUME NEW c \in Calls
               PROVE  once'[c] = "running" <=> \E u \in Threads : thread'[u].call = c /\ Registers(u)'
    OBVIOUS
  <2>1. CASE c = thread[th].call
    <3>1. once'[c] # "running"
      BY <1>3, <2>1
    <3>2. \A u \in Threads : ~(thread'[u].call = c /\ Registers(u)')
      BY <1>4, <2>1 DEF OncesMatch
    <3> QED BY <3>1, <3>2
  <2>2. CASE c # thread[th].call
    BY <1>1, <1>3, <1>4, <2>2 DEF OncesMatch
  <2> QED BY <2>1, <2>2
<1>6. \A t, u \in Threads :
         Registers(t)' /\ Registers(u)' /\ thread'[t].call = thread'[u].call => t = u
  BY <1>4 DEF OncesMatch
<1> QED BY <1>5, <1>6 DEF OncesMatch

LEMMA PanicStep ==
  ASSUME Types, InCall, Order, OncesMatch, NEW th \in Threads, Panics(th),
         thread[th].at \in {"once", "lock", "build", "complete"}
  PROVE  OncesMatch'
<1>1. Others(th) /\ ~Registers(th)'
  BY DEF Panics, Goes, Registers
<1>2. CASE Registers(th)
  BY <1>1, <1>2, RegistrationEnds DEF Panics, Registers
<1>3. CASE ~Registers(th)
  <2>1. once' = once
    BY <1>3 DEF Panics, Registers
  <2>2. \A u \in Threads : u # th => (Registers(u)' <=> Registers(u)) /\ thread'[u] = thread[u]
    BY <1>1 DEF Registers, Others
  <2> QED BY <1>1, <1>3, <2>1, <2>2, SameRegistrations
<1> QED BY <1>2, <1>3

LEMMA OnceStep == Types /\ InCall /\ Order /\ OncesMatch /\ [Next]_vars => OncesMatch'
<1> SUFFICES ASSUME Types, InCall, Order, OncesMatch, [Next]_vars PROVE OncesMatch'
  OBVIOUS
<1> USE DEF Others, Keeps, Goes, GoesToClone, Panics, Order
<1>1. ASSUME NEW th \in Threads, NEW c \in Calls, Enter(th, c) PROVE OncesMatch'
  BY <1>1, EnterEffect, SameRegistrations DEF Registers
<1>2. ASSUME NEW th \in Threads, CallOnce(th) PROVE OncesMatch'
  <2>1. CASE once[thread[th].call] = "new" /\ SetsOnce(th, "running") /\ Goes(th, "cell")
    BY <1>2, <2>1, CallOnceEffect, RegistrationStarts
  <2>2. CASE once' = once /\ GoesToClone(th)
    BY <1>2, <2>2, CallOnceEffect, SameRegistrations DEF Registers
  <2>3. CASE Panics(th)
    BY <1>2, <2>3, CallOnceEffect, PanicStep
  <2> QED BY <1>2, <2>1, <2>2, <2>3, CallOnceEffect
<1>3. ASSUME NEW th \in Threads, EnterCell(th) PROVE OncesMatch'
  BY <1>3, EnterCellEffect, SameRegistrations DEF Registers
<1>4. ASSUME NEW th \in Threads, InitCell(th) PROVE OncesMatch'
  BY <1>4, InitCellEffect, SameRegistrations DEF Registers
<1>5. ASSUME NEW th \in Threads, Lock(th) PROVE OncesMatch'
  <2>1. CASE Panics(th)
    BY <1>5, <2>1, LockEffect, PanicStep
  <2>2. CASE Goes(th, thread[th].next) /\ once' = once
    BY <1>5, <2>2, LockEffect, SameRegistrations DEF Registers
  <2> QED BY <1>5, <2>1, <2>2, LockEffect
<1>6. ASSUME NEW th \in Threads, BuildPanics(th) PROVE OncesMatch'
  BY <1>6, BuildPanicsEffect, PanicStep
<1>7. ASSUME NEW th \in Threads, Build(th) PROVE OncesMatch'
  BY <1>7, BuildEffect, SameRegistrations DEF Registers
<1>8. ASSUME NEW th \in Threads, Unlock(th) PROVE OncesMatch'
  BY <1>8, UnlockEffect, SameRegistrations DEF Registers
<1>9. ASSUME NEW th \in Threads, Complete(th) PROVE OncesMatch'
  <2>1. CASE Panics(th)
    BY <1>9, <2>1, CompleteEffect, PanicStep
  <2>2. CASE SetsOnce(th, "done") /\ GoesToClone(th)
    BY <1>9, <2>2, CompleteEffect, RegistrationEnds DEF Registers
  <2> QED BY <1>9, <2>1, <2>2, CompleteEffect
<1>10. ASSUME NEW th \in Threads, CloneGlobal(th) PROVE OncesMatch'
  BY <1>10, CloneGlobalEffect, SameRegistrations DEF Registers
<1>11. ASSUME NEW th \in Threads, LookUp(th) PROVE OncesMatch'
  BY <1>11, LookUpEffect, SameRegistrations DEF Registers
<1>12. ASSUME NEW th \in Threads, Return(th) PROVE OncesMatch'
  BY <1>12, ReturnEffect, SameRegistrations DEF Registers
<1>13. CASE UNCHANGED vars
  BY <1>13 DEF vars, OncesMatch, Registers
<1> QED
  BY <1>1, <1>2, <1>3, <1>4, <1>5, <1>6, <1>7, <1>8, <1>9, <1>10, <1>11, <1>12, <1>13
  DEF Next, Step, Finished

\* A half-built pool is behind a poisoned Mutex, and was never copied.
Untorn ==
  /\ torn => poisoned
  /\ \A th \in Threads : (Holds(th) => ~torn) /\ ~thread[th].copy.torn

LEMMA UntornStep == Types /\ GuardMatches /\ Untorn /\ [Next]_vars => Untorn'
<1> SUFFICES ASSUME Types, GuardMatches, Untorn, [Next]_vars PROVE Untorn'
  OBVIOUS
<1> USE ThreadsAssumption DEF Others, Keeps, Goes, GoesToClone, Panics, GuardMatches, Holds, Untorn
<1>1. ASSUME NEW th \in Threads, NEW c \in Calls, Enter(th, c) PROVE Untorn'
  BY <1>1, EnterEffect
<1>2. ASSUME NEW th \in Threads, CallOnce(th) PROVE Untorn'
  BY <1>2, CallOnceEffect
<1>3. ASSUME NEW th \in Threads, EnterCell(th) PROVE Untorn'
  BY <1>3, EnterCellEffect
<1>4. ASSUME NEW th \in Threads, InitCell(th) PROVE Untorn'
  BY <1>4, InitCellEffect
<1>5. ASSUME NEW th \in Threads, Lock(th) PROVE Untorn'
  BY <1>5, LockEffect
<1>6. ASSUME NEW th \in Threads, BuildPanics(th) PROVE Untorn'
  BY <1>6, BuildPanicsEffect
<1>7. ASSUME NEW th \in Threads, Build(th) PROVE Untorn'
  BY <1>7, BuildEffect
<1>8. ASSUME NEW th \in Threads, Unlock(th) PROVE Untorn'
  BY <1>8, UnlockEffect
<1>9. ASSUME NEW th \in Threads, Complete(th) PROVE Untorn'
  BY <1>9, CompleteEffect
<1>10. ASSUME NEW th \in Threads, CloneGlobal(th) PROVE Untorn'
  BY <1>10, CloneGlobalEffect
<1>11. ASSUME NEW th \in Threads, LookUp(th) PROVE Untorn'
  BY <1>11, LookUpEffect
<1>12. ASSUME NEW th \in Threads, Return(th) PROVE Untorn'
  BY <1>12, ReturnEffect
<1>13. CASE UNCHANGED vars
  BY <1>13 DEF vars
<1> QED
  BY <1>1, <1>2, <1>3, <1>4, <1>5, <1>6, <1>7, <1>8, <1>9, <1>10, <1>11, <1>12, <1>13
  DEF Next, Step, Finished

-----------------------------------------------------------------------------
(* What the pool contains.                                                 *)

\* The files declare the message of the call.
HasEach(files, c) == \E p \in files : Registry!Declares(p, {"message"}, c.message)

\* What a thread relies on where it is.
Relies(th) ==
  LET t == thread[th]
  IN  /\ t.next = "clone" /\ t.at \in {"cell", "init", "lock", "clone"} => once[t.call] = "done"
      /\ t.at \in {"built", "complete"} /\ t.call.derived /\ ~t.error => HasEach(protos, t.call)
      /\ t.at = "lookup" => HasEach(t.copy.protos, t.call)

\* A Once that is done has registered its type, and what a thread relies on holds.
Registered ==
  /\ cell # "ready" => protos = {}
  /\ \A c \in Calls : c.derived /\ once[c] = "done" => HasEach(protos, c)
  /\ \A th \in Threads : Relies(th)

\* A pool that took a batch in contains the type of the batch, also when some of
\* its files were skipped because the pool had them.
LEMMA BatchContains ==
  ASSUME DerivedTypesAgree, NEW c \in Calls, c.derived, NEW S \in SUBSET AllFiles
  PROVE  HasEach(S \cup Registry!NewFiles(S, c.batch), c)
<1>1. PICK p \in Range(c.batch) : Registry!Declares(p, {"message"}, c.message)
  BY DEF DerivedTypesAgree
<1>2. CASE Registry!FileOf(S, p.name) = {}
  <2>1. p \in Registry!NewFiles(S, c.batch)
    BY <1>2 DEF Registry!NewFiles, Registry!NewPositions, Range
  <2> QED BY <1>1, <2>1 DEF HasEach
<1>3. CASE Registry!FileOf(S, p.name) # {}
  <2>1. PICK q \in S : q.name = p.name
    BY <1>3 DEF Registry!FileOf
  <2>2. PICK b \in AddedBatches : q \in Range(b)
    BY DEF AllFiles
  <2>3. q = p
    BY <2>1, <2>2 DEF DerivedTypesAgree, AddedBatches
  <2> QED BY <1>1, <2>3 DEF HasEach
<1> QED BY <1>2, <1>3

\* A step of a thread that keeps files and finished Onces only has to establish
\* what the thread itself relies on.
LEMMA RegisteredKept ==
  ASSUME Registered, NEW th \in Threads, Relies(th)',
         cell' # "ready" => protos' = {},
         protos \subseteq protos',
         \A c \in Calls : once[c] = "done" => once'[c] = "done",
         \A c \in Calls : c.derived /\ once'[c] = "done" /\ once[c] # "done" => HasEach(protos, c),
         Others(th), InCall
  PROVE  Registered'
<1>1. \A c \in Calls : HasEach(protos, c) => HasEach(protos', c)
  BY DEF HasEach
<1>2. ASSUME NEW u \in Threads, u # th PROVE Relies(u)'
  <2>1. Relies(u) /\ thread'[u] = thread[u]
    BY <1>2 DEF Registered, Others
  <2>2. thread[u].at # "idle" => thread[u].call \in Calls
    BY DEF InCall
  <2> QED BY <1>1, <2>1, <2>2 DEF Relies
<1> QED BY <1>1, <1>2 DEF Registered

LEMMA PanicKeepsRegistered ==
  ASSUME InCall, OncesMatch, Registered, NEW th \in Threads, Panics(th),
         thread[th].at \in {"once", "lock", "build", "complete"}, UNCHANGED cell,
         protos \subseteq protos', cell # "ready" => protos' = {}
  PROVE  Registered'
<1>1. \A c \in Calls : once'[c] = "done" <=> once[c] = "done"
  <2>1. CASE Registers(th)
    <3>1. SetsOnce(th, "poisoned")
      BY <2>1 DEF Panics, Registers
    <3>2. once[thread[th].call] = "running"
      BY <2>1 DEF OncesMatch, InCall, Registers
    <3> QED BY <3>1, <3>2 DEF SetsOnce
  <2>2. CASE ~Registers(th)
    BY <2>2 DEF Panics, Registers
  <2> QED BY <2>1, <2>2
<1>2. Relies(th)'
  BY DEF Panics, Goes, Relies
<1>3. Others(th)
  BY DEF Panics, Goes
<1> QED BY <1>1, <1>2, <1>3, RegisteredKept DEF Registered

LEMMA RegisteredStep == DerivedTypesAgree /\ Types /\ InCall /\ Order /\ OncesMatch /\ CellMatches /\ Registered /\ [Next]_vars => Registered'
<1> SUFFICES ASSUME DerivedTypesAgree, Types, InCall, Order, OncesMatch, CellMatches, Registered, [Next]_vars PROVE Registered'
  OBVIOUS
<1> USE DEF Others, Keeps, Goes, GoesToClone, Panics, Order
<1>1. ASSUME NEW th \in Threads, NEW c \in Calls, Enter(th, c) PROVE Registered'
  <2>1. Relies(th)'
    BY <1>1, EnterEffect DEF Relies
  <2> QED BY <1>1, <2>1, EnterEffect, RegisteredKept DEF Registered
<1>2. ASSUME NEW th \in Threads, CallOnce(th) PROVE Registered'
  <2>1. CASE Panics(th)
    <3>1. cell # "ready" => protos' = {}
      BY <1>2, CallOnceEffect DEF Registered
    <3> QED BY <1>2, <2>1, <3>1, CallOnceEffect, PanicKeepsRegistered
  <2>2. CASE once[thread[th].call] = "new" /\ SetsOnce(th, "running") /\ Goes(th, "cell")
    <3>1. Relies(th)'
      BY <1>2, <2>2, CallOnceEffect DEF Relies
    <3>2. \A c \in Calls : once'[c] = "done" <=> once[c] = "done"
      BY <2>2 DEF SetsOnce
    <3> QED BY <1>2, <2>2, <3>1, <3>2, CallOnceEffect, RegisteredKept DEF Registered
  <2>3. CASE once[thread[th].call] = "done" /\ once' = once /\ GoesToClone(th)
    <3>1. Relies(th)'
      BY <2>3 DEF Relies
    <3> QED BY <1>2, <2>3, <3>1, CallOnceEffect, RegisteredKept DEF Registered
  <2> QED BY <1>2, <2>1, <2>2, <2>3, CallOnceEffect
<1>3. ASSUME NEW th \in Threads, EnterCell(th) PROVE Registered'
  <2>1. Relies(th)'
    BY <1>3, EnterCellEffect DEF Relies, Registered
  <2> QED BY <1>3, <2>1, EnterCellEffect, RegisteredKept DEF Registered
<1>4. ASSUME NEW th \in Threads, InitCell(th) PROVE Registered'
  <2>1. protos = {}
    BY <1>4, InitCellEffect DEF CellMatches, Registered, At
  <2>2. Relies(th)'
    BY <1>4, InitCellEffect DEF Relies, Registered
  <2> QED BY <1>4, <2>1, <2>2, InitCellEffect, RegisteredKept
<1>5. ASSUME NEW th \in Threads, Lock(th) PROVE Registered'
  <2>1. CASE Panics(th)
    BY <1>5, <2>1, LockEffect, PanicKeepsRegistered
  <2>2. CASE Goes(th, thread[th].next) /\ once' = once
    <3>1. Relies(th)'
      BY <1>5, <2>2, LockEffect DEF Relies, Registered
    <3> QED BY <1>5, <2>2, <3>1, LockEffect, RegisteredKept DEF Registered
  <2> QED BY <1>5, <2>1, <2>2, LockEffect
<1>6. ASSUME NEW th \in Threads, BuildPanics(th) PROVE Registered'
  <2>1. cell = "ready"
    BY <1>6, BuildPanicsEffect DEF Order
  <2> QED BY <1>6, <2>1, BuildPanicsEffect, PanicKeepsRegistered
<1>7. ASSUME NEW th \in Threads, Build(th) PROVE Registered'
  <2>1. thread[th].call \in Calls /\ protos \in SUBSET AllFiles
    BY <1>7, BuildEffect DEF InCall, Types
  <2>2. ASSUME ~thread'[th].error, thread[th].call.derived
        PROVE  HasEach(protos', thread[th].call)
    BY ZenonT(60), <1>7, <2>1, <2>2, BuildEffect, BatchContains DEF New
  <2>3. Relies(th)'
    BY <1>7, <2>2, BuildEffect DEF Relies
  <2>4. protos \subseteq protos'
    BY <1>7, BuildEffect
  <2> QED BY <1>7, <2>3, <2>4, BuildEffect, RegisteredKept
<1>8. ASSUME NEW th \in Threads, Unlock(th) PROVE Registered'
  <2>1. Relies(th)'
    BY <1>8, UnlockEffect DEF Relies, Registered
  <2> QED BY <1>8, <2>1, UnlockEffect, RegisteredKept DEF Registered
<1>9. ASSUME NEW th \in Threads, Complete(th) PROVE Registered'
  <2>1. CASE Panics(th)
    BY <1>9, <2>1, CompleteEffect, PanicKeepsRegistered
  <2>2. CASE ~thread[th].error /\ SetsOnce(th, "done") /\ GoesToClone(th)
    <3>1. thread[th].call \in Calls /\ thread[th].call.derived
      BY <1>9, CompleteEffect DEF InCall
    <3>2. HasEach(protos, thread[th].call)
      BY <1>9, <2>2, <3>1, CompleteEffect DEF Relies, Registered
    <3>3. Relies(th)'
      BY <2>2, <3>1 DEF Relies, SetsOnce
    <3>4. /\ \A c \in Calls : once[c] = "done" => once'[c] = "done"
          /\ \A c \in Calls : once'[c] = "done" /\ once[c] # "done" => c = thread[th].call
      BY <2>2 DEF SetsOnce
    <3> QED BY <1>9, <2>2, <3>2, <3>3, <3>4, CompleteEffect, RegisteredKept DEF Registered
  <2> QED BY <1>9, <2>1, <2>2, CompleteEffect
<1>10. ASSUME NEW th \in Threads, CloneGlobal(th) PROVE Registered'
  <2>1. thread[th].call \in Calls
    BY <1>10, CloneGlobalEffect DEF InCall
  <2>2. HasEach(protos, thread[th].call)
    BY <1>10, <2>1, CloneGlobalEffect DEF Registered, Relies
  <2>3. Relies(th)'
    BY <1>10, <2>2, CloneGlobalEffect DEF Relies
  <2> QED BY <1>10, <2>3, CloneGlobalEffect, RegisteredKept DEF Registered
<1>11. ASSUME NEW th \in Threads, LookUp(th) PROVE Registered'
  <2>1. Relies(th)'
    BY <1>11, LookUpEffect DEF Relies
  <2> QED BY <1>11, <2>1, LookUpEffect, RegisteredKept DEF Registered
<1>12. ASSUME NEW th \in Threads, Return(th) PROVE Registered'
  <2>1. Relies(th)'
    BY <1>12, ReturnEffect DEF Relies
  <2> QED BY <1>12, <2>1, ReturnEffect, RegisteredKept DEF Registered
<1>13. CASE UNCHANGED vars
  BY <1>13 DEF vars, Registered, Relies
<1> QED
  BY <1>1, <1>2, <1>3, <1>4, <1>5, <1>6, <1>7, <1>8, <1>9, <1>10, <1>11, <1>12, <1>13
  DEF Next, Step, Finished

-----------------------------------------------------------------------------
(* Who is to blame for a panic.                                            *)

\* A poisoned Mutex, a poisoned Once, an error and a panic each have a cause.
Blamed ==
  /\ poisoned => torn
  /\ \A c \in Calls : once[c] = "poisoned" => torn \/ c \in refused
  /\ \A th \in Threads :
       /\ thread[th].at \in {"built", "complete"} /\ thread[th].error => thread[th].call \in refused
       /\ thread[th].at = "panicked" => torn \/ thread[th].call \in refused

\* A thread that panics for a cause leaves the others' as they were.
LEMMA PanicBlamed ==
  ASSUME InCall, Blamed, NEW th \in Threads, thread[th].at # "idle", Panics(th),
         torn' \/ thread[th].call \in refused, torn => torn', poisoned' => torn',
         refused' = refused
  PROVE  Blamed'
<1>1. \A c \in Calls : once'[c] = "poisoned" => once[c] = "poisoned" \/ c = thread[th].call
  BY DEF Panics, SetsOnce
<1>2. \A u \in Threads : u # th => thread'[u] = thread[u]
  BY DEF Panics, Goes, Others
<1>3. thread'[th].at = "panicked" /\ thread'[th].call = thread[th].call
  BY DEF Panics, Goes, Keeps
<1> QED BY <1>1, <1>2, <1>3 DEF Blamed

LEMMA BlamedStep == DerivedTypesAgree /\ Types /\ InCall /\ Order /\ Registered /\ Blamed /\ [Next]_vars => Blamed'
<1> SUFFICES ASSUME DerivedTypesAgree, Types, InCall, Order, Registered, Blamed, [Next]_vars PROVE Blamed'
  OBVIOUS
<1> USE DEF Others, Keeps, Goes, GoesToClone, Order
<1>1. ASSUME NEW th \in Threads, NEW c \in Calls, Enter(th, c) PROVE Blamed'
  BY <1>1, EnterEffect DEF Blamed
<1>2. ASSUME NEW th \in Threads, CallOnce(th) PROVE Blamed'
  <2>1. CASE once[thread[th].call] = "poisoned" /\ Panics(th)
    BY <1>2, <2>1, CallOnceEffect, PanicBlamed DEF InCall, Blamed
  <2>2. CASE SetsOnce(th, "running") /\ Goes(th, "cell")
    BY <1>2, <2>2, CallOnceEffect DEF Blamed, SetsOnce
  <2>3. CASE once' = once /\ GoesToClone(th)
    BY <1>2, <2>3, CallOnceEffect DEF Blamed
  <2> QED BY <1>2, <2>1, <2>2, <2>3, CallOnceEffect
<1>3. ASSUME NEW th \in Threads, EnterCell(th) PROVE Blamed'
  BY <1>3, EnterCellEffect DEF Blamed
<1>4. ASSUME NEW th \in Threads, InitCell(th) PROVE Blamed'
  BY <1>4, InitCellEffect DEF Blamed
<1>5. ASSUME NEW th \in Threads, Lock(th) PROVE Blamed'
  <2>1. CASE poisoned /\ Panics(th)
    BY <1>5, <2>1, LockEffect, PanicBlamed DEF Blamed
  <2>2. CASE Goes(th, thread[th].next) /\ once' = once
    BY <1>5, <2>2, LockEffect DEF Blamed
  <2> QED BY <1>5, <2>1, <2>2, LockEffect
<1>6. ASSUME NEW th \in Threads, BuildPanics(th) PROVE Blamed'
  BY <1>6, BuildPanicsEffect, PanicBlamed DEF Blamed
<1>7. ASSUME NEW th \in Threads, Build(th) PROVE Blamed'
  BY <1>7, BuildEffect DEF Blamed
<1>8. ASSUME NEW th \in Threads, Unlock(th) PROVE Blamed'
  BY <1>8, UnlockEffect DEF Blamed
<1>9. ASSUME NEW th \in Threads, Complete(th) PROVE Blamed'
  <2>1. CASE thread[th].error /\ Panics(th)
    BY <1>9, <2>1, CompleteEffect, PanicBlamed DEF Blamed
  <2>2. CASE SetsOnce(th, "done") /\ GoesToClone(th)
    BY <1>9, <2>2, CompleteEffect DEF Blamed, SetsOnce
  <2> QED BY <1>9, <2>1, <2>2, CompleteEffect
<1>10. ASSUME NEW th \in Threads, CloneGlobal(th) PROVE Blamed'
  BY <1>10, CloneGlobalEffect DEF Blamed
<1>11. ASSUME NEW th \in Threads, LookUp(th) PROVE Blamed'
  <2>1. HasEach(thread[th].copy.protos, thread[th].call)
    BY <1>11, LookUpEffect DEF Registered, Relies
  <2>2. HasMessage(th)
    BY <2>1 DEF HasEach, HasMessage
  <2>3. Goes(th, "returned")
    BY <1>11, <2>2, MovedGoes DEF LookUp
  <2> QED BY <1>11, <2>3, LookUpEffect DEF Blamed
<1>12. ASSUME NEW th \in Threads, Return(th) PROVE Blamed'
  BY <1>12, ReturnEffect DEF Blamed
<1>13. CASE UNCHANGED vars
  BY <1>13 DEF vars, Blamed
<1> QED
  BY <1>1, <1>2, <1>3, <1>4, <1>5, <1>6, <1>7, <1>8, <1>9, <1>10, <1>11, <1>12, <1>13
  DEF Next, Step, Finished

-----------------------------------------------------------------------------
(* The theorems.                                                           *)

Inv == Types /\ InCall /\ Order /\ GuardMatches /\ CellMatches /\ OncesMatch /\ Untorn

LEMMA InvInit == Init => Inv /\ Registered /\ Blamed
<1> SUFFICES ASSUME Init PROVE Inv /\ Registered /\ Blamed
  OBVIOUS
<1>1. Types /\ InCall
  BY TypesInit
<1>2. \A th \in Threads : thread[th] = Idle(MaxCalls)
  BY DEF Init
<1>3. Order /\ Untorn
  BY <1>2 DEF Init, Order, Untorn, Idle, NoCall, NoCopy, Holds
<1>4. GuardMatches /\ CellMatches
  BY <1>2, ThreadsAssumption DEF Init, GuardMatches, CellMatches, Idle, Holds, At
<1>5. OncesMatch
  BY <1>2 DEF Init, OncesMatch, Idle, Registers
<1>6. Registered
  BY <1>2 DEF Init, Registered, Relies, Idle
<1>7. Blamed
  BY <1>2 DEF Init, Blamed, Idle
<1> QED BY <1>1, <1>3, <1>4, <1>5, <1>6, <1>7 DEF Inv

LEMMA InvStep == Inv /\ [Next]_vars => Inv'
BY TypesStep, OrderStep, GuardStep, CellStep, OnceStep, UntornStep DEF Inv

\* The three locks are held where the code means them to be, by one thread each,
\* and every variable has its type (instance, call_once).
THEOREM TypeCorrect == Spec => []TypeOK
<1>1. Init => Inv
  BY InvInit
<1>2. Inv => TypeOK
  <2> SUFFICES ASSUME Inv PROVE TypeOK
    OBVIOUS
  <2>1. AllFiles \subseteq Proto
    <3>1. \A b \in AddedBatches : Range(b) \subseteq Proto
      BY CallsAssumption DEF AddedBatches, Call, Range
    <3> QED BY <3>1 DEF AllFiles
  <2> QED BY <2>1 DEF Inv, TypeOK, Types, ThreadState, Lefts
<1> QED BY <1>1, <1>2, InvStep, PTL DEF Spec

\* No call ever gets a clone of a pool that a panicking build left half built: the
\* Mutex is poisoned before its guard is gone (instance).
THEOREM CopiesAreWhole == Spec => []NoTornCopies
<1>1. Init => Inv
  BY InvInit
<1>2. Inv => NoTornCopies
  BY DEF Inv, Untorn, NoTornCopies
<1> QED BY <1>1, <1>2, InvStep, PTL DEF Spec

\* A derived descriptor() finds its type, in whatever order any number of threads
\* register types and add files, when files of the type's set are not added with
\* other contents (ReflectMessage::descriptor).
THEOREM TypesAreFound ==
  ASSUME DerivedTypesAgree
  PROVE  Spec => []LookupsSucceed
<1>1. Init => Inv /\ Registered
  BY InvInit
<1>2. Inv /\ Registered /\ [Next]_vars => Inv' /\ Registered'
  BY InvStep, RegisteredStep DEF Inv
<1>3. Inv /\ Registered => LookupsSucceed
  BY DEF Registered, Relies, HasEach, LookupsSucceed, HasMessage, At
<1> QED BY <1>1, <1>2, <1>3, PTL DEF Spec

\* A call panics only because its own files were refused, or after a build panicked:
\* the errors that other callers unwrap never poison the Mutex.
THEOREM PanicsHaveCauses ==
  ASSUME DerivedTypesAgree
  PROVE  Spec => []FailuresAreContained
<1>1. Init => Inv /\ Registered /\ Blamed
  BY InvInit
<1>2. Inv /\ Registered /\ Blamed /\ [Next]_vars => Inv' /\ Registered' /\ Blamed'
  BY InvStep, RegisteredStep, BlamedStep DEF Inv
<1>3. Blamed => FailuresAreContained
  BY DEF Blamed, FailuresAreContained, At
<1> QED BY <1>1, <1>2, <1>3, PTL DEF Spec
=============================================================================
