----------------------------- MODULE GlobalPool -----------------------------
(***************************************************************************)
(* The global descriptor pool, and the threads that use it.                *)
(*                                                                         *)
(* It is a DescriptorPool in a Mutex in a OnceLock.  A derived             *)
(* ReflectMessage::descriptor() adds the file descriptor set of its type   *)
(* to it (once, guarded by a Once of its own), takes a clone of it, and    *)
(* looks its message up in the clone.  The program may also add files      *)
(* directly.  The three locks nest: Once, then OnceLock, then Mutex.       *)
(*                                                                         *)
(* Building is atomic here, as it happens under the Mutex: DescriptorPool  *)
(* has its phases, and shows that it adds whole well-formed batches and    *)
(* changes nothing when it fails.  What cannot be left out is that it can  *)
(* panic with the Mutex held and the pool half built, and that it may      *)
(* itself ask for the global pool.                                         *)
(***************************************************************************)
EXTENDS PoolTables

CONSTANTS
  Threads, NoThread,
  Calls,       \* what a thread may call: see Call
  WellKnown,   \* the batch of the well-known types
  MaxCalls     \* bound on the calls of a thread

\* A derived descriptor() registers "batch" once and returns "message"; adding
\* files directly ("derived" is FALSE) returns whether it worked.
Call == [derived : BOOLEAN, batch : Seq(Proto), message : Names]

ASSUME ThreadsAssumption == NoThread \notin Threads
ASSUME CallsAssumption ==
  Calls \subseteq Call /\ WellKnown \in Seq(Proto) /\ MaxCalls \in Nat \ {0}

VARIABLES
  cell,      \* the OnceLock: "empty", "initialising" or "ready"
  protos,    \* the files of the global pool
  torn,      \* a build was interrupted and left it half built
  owner,     \* the thread that holds the Mutex
  poisoned,  \* the Mutex is poisoned
  once,      \* call -> the Once of its type
  thread,    \* thread -> what it is doing
  refused    \* history: the calls whose files were refused

vars == <<cell, protos, torn, owner, poisoned, once, thread, refused>>

Places == {"idle", "once", "cell", "init", "lock", "build", "built", "complete",
           "clone", "lookup", "returned", "panicked"}

NoCopy == [live |-> FALSE, protos |-> {}, torn |-> FALSE]

\* "next" is where the thread goes with the Mutex, "copy" the clone it took,
\* "error" whether its build failed, "left" how many more calls it makes.
NoCall == [derived |-> FALSE, batch |-> << >>, message |-> FileOptions]
Idle(left) == [at |-> "idle", call |-> NoCall, next |-> "build", copy |-> NoCopy,
               error |-> FALSE, left |-> left]
At(th, place) == thread[th].at = place
Moved(th, place) == [thread EXCEPT ![th].at = place]

\* What PoolRegistry says of batches; its handles are the clones that threads took.
Registry == INSTANCE PoolRegistry WITH
  Handles <- Threads,
  Batches <- { c.batch : c \in Calls },
  held <- [th \in Threads |-> [live |-> thread[th].copy.live, protos |-> thread[th].copy.protos]]

-----------------------------------------------------------------------------
Init ==
  /\ cell = "empty" /\ protos = {} /\ torn = FALSE
  /\ owner = NoThread /\ poisoned = FALSE
  /\ once = [c \in Calls |-> "new"] /\ refused = {}
  /\ thread = [th \in Threads |-> Idle(MaxCalls)]

\* The program calls descriptor() or adds files.
Enter(th, call) ==
  /\ At(th, "idle") /\ thread[th].left > 0
  /\ thread' = [thread EXCEPT ![th].at = IF call.derived THEN "once" ELSE "cell",
                              ![th].call = call, ![th].left = @ - 1]
  /\ UNCHANGED <<cell, protos, torn, owner, poisoned, once, refused>>

\* Panicking inside the closure of a Once poisons it.
Panic(th) ==
  /\ thread' = Moved(th, "panicked")
  /\ once' = IF thread[th].call.derived /\ thread[th].next = "build" /\ ~At(th, "once")
             THEN [once EXCEPT ![thread[th].call] = "poisoned"] ELSE once

\* Fault: a thread does not wait for the one that registers the type.
CallOnceNotWaiting(th) ==
  /\ At(th, "once")
  /\ UNCHANGED <<cell, protos, torn, owner, poisoned, refused>>
  /\ IF once[thread[th].call] = "new"
     THEN /\ once' = [once EXCEPT ![thread[th].call] = "running"]
          /\ thread' = Moved(th, "cell")
     ELSE /\ thread' = [thread EXCEPT ![th].at = "cell", ![th].next = "clone"]
          /\ UNCHANGED once

\* Once::call_once: the first caller runs the closure, the others wait for it; a
\* poisoned Once panics.
CallOnce(th) ==
  /\ At(th, "once")
  /\ UNCHANGED <<cell, protos, torn, owner, poisoned, refused>>
  /\ \/ /\ once[thread[th].call] = "new"
        /\ once' = [once EXCEPT ![thread[th].call] = "running"]
        /\ thread' = Moved(th, "cell")
     \/ /\ once[thread[th].call] = "done"
        /\ thread' = [thread EXCEPT ![th].at = "cell", ![th].next = "clone"]
        /\ UNCHANGED once
     \/ once[thread[th].call] = "poisoned" /\ Panic(th)

\* OnceLock::get_or_init: one thread runs make_wkt_descriptor_pool, the others
\* wait for it.
EnterCell(th) ==
  /\ At(th, "cell")
  /\ \/ cell = "empty" /\ cell' = "initialising" /\ thread' = Moved(th, "init")
     \/ cell = "ready" /\ thread' = Moved(th, "lock") /\ UNCHANGED cell
  /\ UNCHANGED <<protos, torn, owner, poisoned, once, refused>>

\* Fault: the global pool starts empty.
NoFiles == {}

\* make_wkt_descriptor_pool
Initial == Registry!NewFiles({}, WellKnown)

InitCell(th) ==
  /\ At(th, "init")
  /\ cell' = "ready" /\ protos' = Initial
  /\ thread' = Moved(th, "lock")
  /\ UNCHANGED <<torn, owner, poisoned, once, refused>>

\* Fault: a poisoned Mutex is used as if it were not.
LockIgnoringPoison(th) ==
  /\ At(th, "lock") /\ owner = NoThread
  /\ owner' = th
  /\ thread' = Moved(th, thread[th].next)
  /\ UNCHANGED <<cell, protos, torn, poisoned, once, refused>>

\* Mutex::lock().unwrap()
Lock(th) ==
  /\ At(th, "lock") /\ owner = NoThread
  /\ IF poisoned
     THEN Panic(th) /\ UNCHANGED owner
     ELSE owner' = th /\ thread' = Moved(th, thread[th].next) /\ UNCHANGED once
  /\ UNCHANGED <<cell, protos, torn, poisoned, refused>>

New(th) == Registry!NewFiles(protos, thread[th].call.batch)
Unlabelled(th) == \E p \in New(th) : ~p.knownSyntax

\* OptionsVisitor asks for DescriptorPool::global() when options are set and
\* the pool has no definition of their type.
AsksForGlobal(th) ==
  /\ \E p \in New(th) : p.options # << >>
  /\ ~\E p \in protos \cup New(th) : Registry!Declares(p, {"message"}, FileOptions)

\* The files of the batch that are in the pool when one of unknown syntax is met.
AddedBefore(th) ==
  LET batch == thread[th].call.batch
      new == Registry!NewPositions(protos, batch)
  IN  { batch[i] : i \in { i \in new : \A j \in new : j <= i => batch[j].knownSyntax } }

\* A file of unknown syntax panics in the middle of the build: unwinding drops
\* the guard and poisons the Mutex, and the files before it stay in the pool.
BuildPanics(th) ==
  /\ At(th, "build") /\ Unlabelled(th)
  /\ protos' = protos \cup AddedBefore(th)
  /\ torn' = TRUE /\ poisoned' = TRUE /\ owner' = NoThread
  /\ Panic(th)
  /\ UNCHANGED <<cell, refused>>

\* A public import of a file that has public imports: the code does not follow it.
Chained(files) ==
  \E p, q \in files : q.name \in Registry!PublicImports(p) /\ Registry!PublicImports(q) # {}

\* build_files on the global pool, which accepts well-formed batches; it may refuse one
\* that depends on a chain of public imports.  A build that asks for the global pool
\* waits for the Mutex of its own thread, forever.
Build(th) ==
  LET valid == Registry!WellFormed(protos, thread[th].call.batch)
  IN  \E error \in BOOLEAN :
        /\ At(th, "build") /\ ~Unlabelled(th) /\ ~AsksForGlobal(th)
        /\ ~valid => error
        /\ error => ~valid \/ Chained(protos \cup New(th))
        /\ protos' = IF error THEN protos ELSE protos \cup New(th)
        /\ refused' = IF error THEN refused \cup {thread[th].call} ELSE refused
        /\ thread' = [thread EXCEPT ![th].at = "built", ![th].error = error]
        /\ UNCHANGED <<cell, torn, owner, poisoned, once>>

\* Fault: the error is unwrapped before the guard is dropped.
UnlockUnwrapping(th) ==
  /\ At(th, "built")
  /\ owner' = NoThread
  /\ poisoned' = (poisoned \/ thread[th].error)
  /\ thread' = Moved(th, IF thread[th].call.derived THEN "complete" ELSE "returned")
  /\ UNCHANGED <<cell, protos, torn, once, refused>>

\* decode_global_file_descriptor_set and add_global_file_descriptor_proto drop
\* the guard before they return.
Unlock(th) ==
  /\ At(th, "built")
  /\ owner' = NoThread
  /\ thread' = Moved(th, IF thread[th].call.derived THEN "complete" ELSE "returned")
  /\ UNCHANGED <<cell, protos, torn, poisoned, once, refused>>

\* The closure of the Once unwraps the result.
Complete(th) ==
  /\ At(th, "complete")
  /\ IF thread[th].error
     THEN Panic(th)
     ELSE /\ once' = [once EXCEPT ![thread[th].call] = "done"]
          /\ thread' = [thread EXCEPT ![th].at = "cell", ![th].next = "clone"]
  /\ UNCHANGED <<cell, protos, torn, owner, poisoned, refused>>

\* Fault: the guard outlives the clone.
CloneHoldingGuard(th) ==
  /\ At(th, "clone")
  /\ thread' = [thread EXCEPT ![th].at = "lookup",
                              ![th].copy = [live |-> TRUE, protos |-> protos, torn |-> torn]]
  /\ UNCHANGED <<cell, protos, torn, owner, poisoned, once, refused>>

\* DescriptorPool::global: a clone, and the guard is dropped.
CloneGlobal(th) ==
  /\ At(th, "clone")
  /\ owner' = NoThread
  /\ thread' = [thread EXCEPT ![th].at = "lookup",
                              ![th].copy = [live |-> TRUE, protos |-> protos, torn |-> torn]]
  /\ UNCHANGED <<cell, protos, torn, poisoned, once, refused>>

HasMessage(th) ==
  \E p \in thread[th].copy.protos : Registry!Declares(p, {"message"}, thread[th].call.message)

\* get_message_by_name(..).expect(..)
LookUp(th) ==
  /\ At(th, "lookup")
  /\ thread' = Moved(th, IF HasMessage(th) THEN "returned" ELSE "panicked")
  /\ UNCHANGED <<cell, protos, torn, owner, poisoned, once, refused>>

\* The descriptor is dropped, or the panic caught.
Return(th) ==
  /\ thread[th].at \in {"returned", "panicked"}
  /\ thread' = [thread EXCEPT ![th] = Idle(@.left)]
  /\ UNCHANGED <<cell, protos, torn, owner, poisoned, once, refused>>

\* What a thread that is in a call does.
Step(th) ==
  \/ CallOnce(th) \/ EnterCell(th) \/ InitCell(th) \/ Lock(th)
  \/ Build(th) \/ BuildPanics(th) \/ Unlock(th) \/ Complete(th)
  \/ CloneGlobal(th) \/ LookUp(th) \/ Return(th)

\* All calls made.
Finished == (\A th \in Threads : thread[th] = Idle(0)) /\ UNCHANGED vars

Next ==
  \/ \E th \in Threads : Step(th) \/ \E c \in Calls : Enter(th, c)
  \/ Finished

\* The scheduler runs every thread that can run.  Neither Once nor Mutex is fair
\* to those that wait, so this is weak fairness of each thread.
Spec == Init /\ [][Next]_vars /\ \A th \in Threads : WF_vars(Step(th))

-----------------------------------------------------------------------------
(* Properties.                                                             *)

\* Where a thread holds the guard of the Mutex, and where it is in the closure of
\* the Once of its type.
Holds(th) == thread[th].at \in {"build", "built", "clone"}
Registers(th) ==
  /\ thread[th].call.derived /\ thread[th].next = "build"
  /\ thread[th].at \in {"cell", "init", "lock", "build", "built", "complete"}

\* The guard is held exactly while the pool is used, by one thread.
GuardMatches == \A th \in Threads : Holds(th) <=> owner = th

\* A Once is running exactly while one thread runs its closure.
OncesMatch ==
  /\ \A c \in Calls : once[c] = "running" <=> \E th \in Threads : thread[th].call = c /\ Registers(th)
  /\ \A th, u \in Threads :
        Registers(th) /\ Registers(u) /\ thread[th].call = thread[u].call => th = u

\* The pool is initialised by one thread.
CellMatches ==
  /\ cell = "initialising" <=> \E th \in Threads : At(th, "init")
  /\ \A th, u \in Threads : At(th, "init") /\ At(u, "init") => th = u

\* The kinds of values of the variables, and that the states of the locks agree with
\* where the threads are.
TypeOK ==
  /\ GuardMatches /\ OncesMatch /\ CellMatches
  /\ cell \in {"empty", "initialising", "ready"}
  /\ protos \subseteq Proto /\ torn \in BOOLEAN
  /\ owner \in Threads \cup {NoThread} /\ poisoned \in BOOLEAN
  /\ once \in [Calls -> {"new", "running", "done", "poisoned"}]
  /\ refused \subseteq Calls
  /\ \A th \in Threads : thread[th].at \in Places /\ thread[th].left \in 0..MaxCalls

\* What a program has to respect for its derived types to be found: the set of a
\* type declares it, and files of one name are the same file in it and in
\* whatever else is added (a file whose name is in the pool is skipped).
DerivedTypesAgree ==
  \A c \in Calls : c.derived =>
    /\ \E p \in Range(c.batch) : Registry!Declares(p, {"message"}, c.message)
    /\ \A b \in {WellKnown} \cup { d.batch : d \in Calls } :
         \A p \in Range(b), q \in Range(c.batch) : p.name = q.name => p = q

\* A derived descriptor() that got as far as looking its message up finds it,
\* whoever registered the type and whatever else was added in the meantime: the
\* .expect("descriptor for message type .. not found") never fires.
LookupsSucceed == \A th \in Threads : At(th, "lookup") => HasMessage(th)

\* No call ever gets a clone of a pool that a panicking build left half built.
NoTornCopies == \A th \in Threads : ~thread[th].copy.torn

\* A call panics only for a reason of its own, that its files were refused, now or
\* when its Once ran, or after a build panicked: errors of other callers, which
\* they or their Once unwrap, do not poison the pool.
FailuresAreContained ==
  \A th \in Threads : At(th, "panicked") => torn \/ thread[th].call \in refused

\* Every call returns or panics: nobody waits forever in the nested locks, also
\* when builds fail or panic or their options need the global pool itself.
CallsEnd == \A th \in Threads : thread[th].at # "idle" ~> thread[th].at = "idle"
=============================================================================
