----------------------------- MODULE ModelCache -----------------------------
(***************************************************************************)
(* LocalBackend._get_pipeline: the threads of the pool share one cache of  *)
(* loaded models, filled under a lock after a second look (double-checked  *)
(* locking).  Loading may raise, and a thread goes from chunk to chunk.    *)
(***************************************************************************)
EXTENDS Integers

CONSTANTS
  Thread,    \* the threads of the pool, max_concurrent_chunks
  Model,     \* model ids
  NoModel,   \* no model
  NoThread   \* the holder of a free lock

VARIABLES
  pc,      \* where each thread stands
  model,   \* the model its chunk needs
  pipe,    \* its local variable: the pipeline it found or loaded, 0 for None
  cache,   \* _pipelines: 0 for a model that is not there
  holder,  \* the thread that holds _lock
  loads    \* the pipelines built so far; a pipeline is named by its number

vars == <<pc, model, pipe, cache, holder, loads>>

Pc == {"idle", "look", "lock", "again", "load", "run"}

Init ==
  /\ pc = [t \in Thread |-> "idle"]
  /\ model = [t \in Thread |-> NoModel]
  /\ pipe = [t \in Thread |-> 0]
  /\ cache = [m \in Model |-> 0]
  /\ holder = NoThread
  /\ loads = 0

Goto(t, to) == pc' = [pc EXCEPT ![t] = to]

\* The executor hands the thread a chunk.
Start(t) ==
  /\ pc[t] = "idle"
  /\ \E m \in Model : model' = [model EXCEPT ![t] = m]
  /\ Goto(t, "look")
  /\ UNCHANGED <<pipe, cache, holder, loads>>

\* The first look, without the lock
Look(t) ==
  /\ pc[t] = "look"
  /\ pipe' = [pipe EXCEPT ![t] = cache[model[t]]]
  /\ Goto(t, IF cache[model[t]] # 0 THEN "run" ELSE "lock")
  /\ UNCHANGED <<model, cache, holder, loads>>

\* with self._lock
Acquire(t) ==
  /\ pc[t] = "lock" /\ holder = NoThread
  /\ holder' = t
  /\ Goto(t, "again")
  /\ UNCHANGED <<model, pipe, cache, loads>>

\* Variant: no second look.
AgainUnchecked(t) ==
  /\ pc[t] = "again"
  /\ Goto(t, "load")
  /\ UNCHANGED <<model, pipe, cache, holder, loads>>

\* The second look, under the lock
Again(t) ==
  /\ pc[t] = "again"
  /\ pipe' = [pipe EXCEPT ![t] = cache[model[t]]]
  /\ \/ cache[model[t]] # 0 /\ Goto(t, "run") /\ holder' = NoThread
     \/ cache[model[t]] = 0 /\ Goto(t, "load") /\ UNCHANGED holder
  /\ UNCHANGED <<model, cache, loads>>

\* The model is built, cached, and the lock released.
Load(t) ==
  /\ pc[t] = "load"
  /\ loads' = loads + 1
  /\ pipe' = [pipe EXCEPT ![t] = loads + 1]
  /\ cache' = [cache EXCEPT ![model[t]] = loads + 1]
  /\ holder' = NoThread
  /\ Goto(t, "run")
  /\ UNCHANGED model

\* _run returns or raises: the thread waits for the next chunk, its locals are gone.
Leave(t) ==
  /\ Goto(t, "idle")
  /\ model' = [model EXCEPT ![t] = NoModel]
  /\ pipe' = [pipe EXCEPT ![t] = 0]

\* Variant: lock and unlock without a with statement.
LoadRaisesLocked(t) ==
  /\ pc[t] = "load"
  /\ Leave(t)
  /\ UNCHANGED <<cache, holder, loads>>

\* Building it raises: the lock is released, nothing is cached, the chunk fails.
LoadRaises(t) ==
  /\ pc[t] = "load"
  /\ holder' = NoThread
  /\ Leave(t)
  /\ UNCHANGED <<cache, loads>>

\* The chunk is transcribed.
Run(t) ==
  /\ pc[t] = "run"
  /\ Leave(t)
  /\ UNCHANGED <<cache, holder, loads>>

Work(t) ==
  Look(t) \/ Acquire(t) \/ Again(t) \/ Load(t) \/ LoadRaises(t) \/ Run(t)

Next == \E t \in Thread : Start(t) \/ Work(t)

Spec == Init /\ [][Next]_vars

-----------------------------------------------------------------------------
(***************************************************************************)
(* Properties                                                              *)
(***************************************************************************)

\* Every chunk runs on the one cached copy of its model: no thread uses a second
\* copy, or a copy of another model, at any time (DECISIONS D4: the model is loaded
\* once per process and shared).
OneCopyInUse ==
  \A t \in Thread : pc[t] = "run" => pipe[t] # 0 /\ pipe[t] = cache[model[t]]

=============================================================================
