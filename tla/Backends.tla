------------------------------ MODULE Backends ------------------------------
(***************************************************************************)
(* The calls of `transcribe' that one process has in flight, and the two   *)
(* backends that serve them.  A hosted call that raises may be repeated on *)
(* the local backend, which is either in the process itself (LocalBackend) *)
(* or a model server that other processes share (ModelServerBackend): the  *)
(* same thread pool behind a queue, but reached by HTTP.  The server loads *)
(* its model before it serves, and a client that waited too long gives up  *)
(* while the server goes on with its request.                              *)
(*                                                                         *)
(* HostedBackend and ModelCache are the components; their actions are      *)
(* taken together with what this module adds.                              *)
(***************************************************************************)
EXTENDS Integers, Sequences, FiniteSets

CONSTANTS
  Call,        \* the calls, one per chunk that is being executed
  Hosted,      \* those whose plan tries the hosted backend first
  MayFallBack, \* those of them whose plan allows the local fallback
  ModelOf,     \* ModelOf[c]: the model call c asks the local backend for
  Warmed,      \* the model a model server loads before it serves
  Cap,         \* hosted_max_concurrency
  MaxRetries,  \* _MAX_RETRIES
  Thread,      \* the threads of the local backend's pool
  Warmer,      \* and the one of the event loop's own pool
  NoCall, NoModel, NoThread

ASSUME BackendsAssumption ==
  /\ MayFallBack \subseteq Hosted /\ Hosted \subseteq Call
  /\ Cap \in Nat \ {0} /\ MaxRetries \in Nat
  /\ Warmer \notin Thread /\ NoThread \notin Thread \cup {Warmer}
  /\ NoCall \notin Call

VARIABLES
  \* HostedBackend
  pc, attempt, permits, waiters, posts,
  \* LocalBackend: ModelCache, and the queue of its thread pool
  tpc, model, pipe, cache, holder, loads,
  pool,     \* the calls that wait for a thread, oldest first
  job,      \* job[t]: the call thread t works for
  answer,   \* answer[c]: what the future of call c in the pool was resolved with
  \* Where it is, and how the calls fare
  host,     \* "inProcess", or the model server: "warming", "up" or "down"
  asked,    \* the calls that went to the local backend
  outcome   \* "open", the backend whose text was returned, or "failed"

hostedVars == <<pc, attempt, permits, waiters, posts>>
cacheVars == <<tpc, model, pipe, cache, holder, loads>>
poolVars == <<pool, job, answer>>
vars == <<hostedVars, cacheVars, poolVars, host, asked, outcome>>

HostedCalls == INSTANCE HostedBackend WITH Call <- Hosted
Models == INSTANCE ModelCache WITH
  pc <- tpc, Thread <- Thread \cup {Warmer},
  Model <- {ModelOf[c] : c \in Call} \cup {Warmed}

Init ==
  /\ HostedCalls!Init
  /\ Models!Init
  /\ pool = <<>>
  /\ job = [t \in Thread |-> NoCall]
  /\ answer = [c \in Call |-> "none"]
  /\ host \in {"inProcess", "warming"}
  /\ asked = {}
  /\ outcome = [c \in Call |-> "open"]

-----------------------------------------------------------------------------
(***************************************************************************)
(* A call                                                                  *)
(***************************************************************************)

\* `transcribe' returns to the coroutine that awaits it, or raises in it.
Ended(c, how) == outcome' = [outcome EXCEPT ![c] = how]

PostHosted(c) ==
  /\ HostedCalls!Ask(c) \/ HostedCalls!Enter(c) \/ HostedCalls!Answer(c)
  /\ UNCHANGED <<cacheVars, poolVars, host, asked, outcome>>

\* The hosted backend is tried first, and the local one by plan or by fallback.
WantsLocal(c) ==
  /\ outcome[c] = "open" /\ c \notin asked
  /\ c \in Hosted => pc[c] = "raised" /\ c \in MayFallBack

\* The hosted call returned, or raised and there is no fallback.
EndHosted(c) ==
  /\ c \in Hosted /\ outcome[c] = "open"
  /\ \/ pc[c] = "returned" /\ Ended(c, "hosted")
     \/ pc[c] = "raised" /\ c \notin MayFallBack /\ Ended(c, "failed")
  /\ UNCHANGED <<hostedVars, cacheVars, poolVars, host, asked>>

\* run_in_executor, in this process or in the server
AskLocal(c) ==
  /\ WantsLocal(c)
  /\ host \in {"inProcess", "up"}
  /\ asked' = asked \cup {c}
  /\ pool' = Append(pool, c)
  /\ UNCHANGED <<hostedVars, cacheVars, job, answer, host, outcome>>

\* The awaited future of the pool is resolved, here or behind the server's response.
EndLocal(c) ==
  /\ outcome[c] = "open"
  /\ answer[c] # "none"
  /\ Ended(c, answer[c])
  /\ UNCHANGED <<hostedVars, cacheVars, poolVars, host, asked>>

\* The server does not listen before it is warm; nobody tries again.
Refused(c) ==
  /\ WantsLocal(c)
  /\ host \in {"warming", "down"}
  /\ asked' = asked \cup {c}
  /\ Ended(c, "failed")
  /\ UNCHANGED <<hostedVars, cacheVars, poolVars, host>>

\* The client's timeout, or a connection that breaks: the server is not told.
GiveUp(c) ==
  /\ host = "up"
  /\ c \in asked /\ outcome[c] = "open"
  /\ Ended(c, "failed")
  /\ UNCHANGED <<hostedVars, cacheVars, poolVars, host, asked>>

-----------------------------------------------------------------------------
(***************************************************************************)
(* A thread of the pool, and the one that warms the model server           *)
(***************************************************************************)

\* The oldest call in the queue gets an idle thread, wanted or not.
Take(t) ==
  /\ pool # <<>>
  /\ Models!Start(t) /\ model'[t] = ModelOf[Head(pool)]
  /\ job' = [job EXCEPT ![t] = Head(pool)]
  /\ pool' = Tail(pool)
  /\ UNCHANGED <<hostedVars, answer, host, asked, outcome>>

\* _get_pipeline, up to the model
FindModel(t) ==
  /\ Models!Look(t) \/ Models!Acquire(t) \/ Models!Again(t) \/ Models!Load(t)
  /\ UNCHANGED <<hostedVars, poolVars, host, asked, outcome>>

Answered(c, how) == answer' = [answer EXCEPT ![c] = how]

\* The thread is through: with a text, because inference raised, or because the
\* model could not be loaded.  It resolves the call's future, awaited or not.
Finish(t) ==
  /\ \/ Models!Run(t) /\ \E how \in {"local", "failed"} : Answered(job[t], how)
     \/ Models!LoadRaises(t) /\ Answered(job[t], "failed")
  /\ job' = [job EXCEPT ![t] = NoCall]
  /\ UNCHANGED <<hostedVars, pool, host, asked, outcome>>

\* Variant: the server serves while its model loads.
WarmInBackground ==
  /\ host = "warming"
  /\ Models!Start(Warmer) /\ model'[Warmer] = Warmed
  /\ host' = "up"
  /\ UNCHANGED <<hostedVars, poolVars, asked, outcome>>

\* The model server's lifespan, up to its yield: the model is loaded by another
\* thread, and the server starts to serve, or not at all.
Warm ==
  /\ host = "warming"
  /\ \/ Models!Start(Warmer) /\ model'[Warmer] = Warmed /\ UNCHANGED host
     \/ Models!Run(Warmer) /\ host' = "up"
     \/ Models!LoadRaises(Warmer) /\ host' = "down"
  /\ UNCHANGED <<hostedVars, poolVars, asked, outcome>>

CallStep(c) ==
  \/ c \in Hosted /\ PostHosted(c)
  \/ EndHosted(c) \/ AskLocal(c) \/ EndLocal(c) \/ Refused(c)
ThreadStep(t) == Take(t) \/ FindModel(t) \/ Finish(t)
WarmStep == Warm \/ FindModel(Warmer)

Next ==
  \/ \E c \in Call : CallStep(c) \/ GiveUp(c)
  \/ \E t \in Thread : ThreadStep(t)
  \/ WarmStep

Spec == Init /\ [][Next]_vars

\* The event loop and the threads run, sleeps and POSTs end, models load or do
\* not; a caller need not lose its patience.
FairSpec ==
  /\ Spec
  /\ \A c \in Call : WF_vars(CallStep(c))
  /\ \A t \in Thread : WF_vars(ThreadStep(t))
  /\ WF_vars(WarmStep)

-----------------------------------------------------------------------------
(***************************************************************************)
(* Properties                                                              *)
(***************************************************************************)

\* HostedBackend's: at most Cap POSTs at once and no permit lost or made, and no
\* audio sent more than 1 + MaxRetries times, also while calls fall back.
PermitsAccounted == HostedCalls!PermitsAccounted
BoundedPosts == HostedCalls!BoundedPosts

\* ModelCache's: every thread runs the one cached copy of the model it was asked for.
OneCopyInUse == Models!OneCopyInUse

\* A model server that answers has its model in memory: no request of a client with
\* the same settings pays for loading it (model_server.py:32, "/healthz only passes
\* once it's ready").
UpIsWarm == host = "up" => cache[Warmed] # 0

\* Every call ends, and whatever ended it, nothing of it stays behind: no permit,
\* lock, thread or place in the queue is kept by one that failed, was refused, or
\* was given up by its caller, whose request is worked off all the same.
EveryCallEnds ==
  <>[](/\ \A c \in Call : outcome[c] # "open"
       /\ pool = <<>> /\ holder = NoThread /\ permits = Cap
       /\ \A t \in Thread : tpc[t] = "idle")

=============================================================================
