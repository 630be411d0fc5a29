--------------------------- MODULE BackendsProofs ---------------------------
(***************************************************************************)
(* What Backends promises of the calls of one process, for every set of    *)
(* calls, threads and models, every cap and every number of retries.       *)
(*                                                                         *)
(* The composition adds nothing to what its two components do: a step is   *)
(* one of HostedBackend's or leaves its variables alone, and the same of   *)
(* ModelCache's.  The invariants of the components are proved from that,   *)
(* and the one that relates the cache to the model server from both.       *)
(***************************************************************************)
EXTENDS Backends, FiniteSetTheorems, TLAPS

AllModels == {ModelOf[c] : c \in Call} \cup {Warmed}
AllThreads == Thread \cup {Warmer}

-----------------------------------------------------------------------------
(***************************************************************************)
(* The components                                                          *)
(***************************************************************************)

\* What a step does to the hosted calls is a step of HostedBackend.
LEMMA HostedPart ==
  ASSUME [Next]_vars
  PROVE  [HostedCalls!Next]_hostedVars
  BY DEF Next, vars, hostedVars, CallStep, PostHosted, EndHosted, AskLocal, EndLocal,
     Refused, GiveUp, ThreadStep, Take, FindModel, Finish, WarmStep, Warm, HostedCalls!Next

\* What a step does to the cache is a step of ModelCache by a thread of the pool
\* or by the one that warms the server.
LEMMA CachePart ==
  ASSUME [Next]_vars
  PROVE  [Models!Next]_cacheVars
<1>1. ASSUME NEW t \in AllThreads, FindModel(t)
      PROVE  Models!Next
  BY <1>1 DEF FindModel, Models!Next, Models!Work, AllThreads
<1>2. ASSUME NEW t \in Thread, Take(t) \/ Finish(t)
      PROVE  Models!Next
  BY <1>2 DEF Take, Finish, Models!Next, Models!Work
<1>3. ASSUME Warm
      PROVE  Models!Next
  BY <1>3 DEF Warm, Models!Next, Models!Work
<1>4. ASSUME NEW c \in Hosted, PostHosted(c)
      PROVE  UNCHANGED cacheVars
  BY <1>4 DEF PostHosted, cacheVars
<1>5. ASSUME NEW c \in Call,
             EndHosted(c) \/ AskLocal(c) \/ EndLocal(c) \/ Refused(c) \/ GiveUp(c)
      PROVE  UNCHANGED cacheVars
  BY <1>5 DEF EndHosted, AskLocal, EndLocal, Refused, GiveUp, cacheVars
<1>6. CASE UNCHANGED vars
  BY <1>6 DEF vars, cacheVars
<1> QED
  BY <1>1, <1>2, <1>3, <1>4, <1>5, <1>6 DEF Next, CallStep, ThreadStep, WarmStep, AllThreads

-----------------------------------------------------------------------------
(***************************************************************************)
(* The hosted calls                                                        *)
(***************************************************************************)

HostedTypes ==
  /\ pc \in [Hosted -> HostedCalls!Pc]
  /\ attempt \in [Hosted -> Nat]
  /\ posts \in [Hosted -> Nat]
  /\ permits \in Int

\* A permit is out for each call in a POST, and for nothing else.
PermitsOut ==
  /\ IsFiniteSet(HostedCalls!Posting)
  /\ permits = Cap - Cardinality(HostedCalls!Posting)
  /\ permits >= 0

\* A call has posted once for every attempt it is through with or in.
PostsCounted ==
  \A c \in Hosted :
    /\ attempt[c] <= MaxRetries
    /\ pc[c] = "sleep" => attempt[c] < MaxRetries
    /\ posts[c] = IF pc[c] \in {"ready", "queued"} THEN attempt[c] ELSE attempt[c] + 1

HostedInv == HostedTypes /\ PermitsOut /\ PostsCounted

\* It holds when no call has been made.
LEMMA HostedAtInit ==
  ASSUME HostedCalls!Init
  PROVE  HostedInv
<1>1. HostedCalls!Posting = {}
  BY DEF HostedCalls!Init, HostedCalls!Posting
<1>2. HostedTypes
  BY BackendsAssumption DEF HostedTypes, HostedCalls!Init, HostedCalls!Pc
<1>3. PermitsOut
  BY <1>1, FS_EmptySet, BackendsAssumption DEF PermitsOut, HostedCalls!Init
<1>4. PostsCounted
  BY BackendsAssumption DEF PostsCounted, HostedCalls!Init
<1> QED
  BY <1>2, <1>3, <1>4 DEF HostedInv

\* Every step of a hosted call keeps it.
LEMMA HostedKept ==
  ASSUME HostedInv, [HostedCalls!Next]_hostedVars
  PROVE  HostedInv'
<1> USE BackendsAssumption
<1> USE DEF HostedInv, HostedTypes
<1>1. ASSUME NEW c \in Hosted, HostedCalls!Ask(c)
      PROVE  HostedInv'
  <2>1. HostedTypes'
    BY <1>1 DEF HostedCalls!Ask, HostedCalls!Goto, HostedCalls!Pc
  <2>2. HostedCalls!Posting' = HostedCalls!Posting
    BY <1>1 DEF HostedCalls!Ask, HostedCalls!Goto, HostedCalls!Posting
  <2>3. PermitsOut'
    BY <1>1, <2>2 DEF PermitsOut, HostedCalls!Ask
  <2>4. PostsCounted'
    BY <1>1, <2>1 DEF PostsCounted, HostedCalls!Ask, HostedCalls!Goto
  <2> QED
    BY <2>1, <2>3, <2>4
<1>2. ASSUME NEW c \in Hosted, HostedCalls!Enter(c)
      PROVE  HostedInv'
  <2>1. HostedTypes'
    BY <1>2 DEF HostedCalls!Enter, HostedCalls!Goto, HostedCalls!Pc
  <2>2. /\ HostedCalls!Posting' = HostedCalls!Posting \cup {c}
        /\ c \notin HostedCalls!Posting
    BY <1>2 DEF HostedCalls!Enter, HostedCalls!Goto, HostedCalls!Posting
  <2>3. /\ IsFiniteSet(HostedCalls!Posting')
        /\ Cardinality(HostedCalls!Posting') = Cardinality(HostedCalls!Posting) + 1
    BY <2>2, FS_AddElement DEF PermitsOut
  <2>4. Cardinality(HostedCalls!Posting) \in Nat
    BY FS_CardinalityType DEF PermitsOut
  <2>5. PermitsOut'
    BY <1>2, <2>3, <2>4 DEF PermitsOut, HostedCalls!Enter
  <2>6. PostsCounted'
    BY <1>2, <2>1 DEF PostsCounted, HostedCalls!Enter, HostedCalls!Goto
  <2> QED
    BY <2>1, <2>5, <2>6
<1>3. ASSUME NEW c \in Hosted, HostedCalls!Answer(c)
      PROVE  HostedInv'
  <2>1. PICK to \in {"returned", "raised", "sleep"} :
          /\ to = "sleep" => attempt[c] < MaxRetries
          /\ permits' = permits + 1 /\ pc' = [pc EXCEPT ![c] = to]
          /\ pc[c] = "post" /\ UNCHANGED <<attempt, waiters, posts>>
    BY <1>3 DEF HostedCalls!Answer, HostedCalls!Retries, HostedCalls!Leave,
       HostedCalls!Goto
  <2>2. HostedTypes'
    BY <2>1 DEF HostedCalls!Pc
  <2>3. /\ HostedCalls!Posting' = HostedCalls!Posting \ {c}
        /\ c \in HostedCalls!Posting
    BY <2>1 DEF HostedCalls!Posting
  <2>4. /\ IsFiniteSet(HostedCalls!Posting')
        /\ Cardinality(HostedCalls!Posting') = Cardinality(HostedCalls!Posting) - 1
    BY <2>3, FS_RemoveElement DEF PermitsOut
  <2>5. Cardinality(HostedCalls!Posting) \in Nat
    BY FS_CardinalityType DEF PermitsOut
  <2>6. PermitsOut'
    BY <2>1, <2>4, <2>5 DEF PermitsOut
  <2>7. PostsCounted'
    BY <2>1, <2>2 DEF PostsCounted
  <2> QED
    BY <2>2, <2>6, <2>7
<1>4. CASE UNCHANGED hostedVars
  BY <1>4 DEF hostedVars, PermitsOut, PostsCounted, HostedCalls!Posting
<1> QED
  BY <1>1, <1>2, <1>3, <1>4 DEF HostedCalls!Next

-----------------------------------------------------------------------------
(***************************************************************************)
(* The model cache                                                         *)
(***************************************************************************)

CacheTypes ==
  /\ tpc \in [AllThreads -> Models!Pc]
  /\ model \in [AllThreads -> AllModels \cup {NoModel}]
  /\ pipe \in [AllThreads -> Nat]
  /\ cache \in [AllModels -> Nat]
  /\ loads \in Nat
  /\ \A t \in AllThreads : tpc[t] # "idle" => model[t] \in AllModels

\* Between the second look and the load the lock is held by that thread, so what the
\* second look found missing still is.
LockGuards ==
  \A t \in AllThreads :
    /\ tpc[t] \in {"again", "load"} <=> holder = t
    /\ tpc[t] = "load" => cache[model[t]] = 0

CacheInv == CacheTypes /\ LockGuards /\ OneCopyInUse

\* It holds when no thread has taken a chunk.
LEMMA CacheAtInit ==
  ASSUME Models!Init
  PROVE  CacheInv
<1> USE BackendsAssumption
<1>1. CacheTypes
  BY DEF Models!Init, CacheTypes, Models!Pc, AllThreads, AllModels
<1>2. LockGuards /\ OneCopyInUse
  BY DEF Models!Init, LockGuards, OneCopyInUse, Models!OneCopyInUse, AllThreads
<1> QED
  BY <1>1, <1>2 DEF CacheInv

\* A model that is in the cache is not replaced: only a thread that found none loads.
LEMMA CachedStays ==
  ASSUME CacheInv, [Models!Next]_cacheVars
  PROVE  \A m \in AllModels : cache[m] # 0 => cache'[m] = cache[m]
<1>1. ASSUME NEW t \in AllThreads, Models!Load(t)
      PROVE  \A m \in AllModels : cache[m] # 0 => cache'[m] = cache[m]
  BY <1>1 DEF CacheInv, CacheTypes, LockGuards, Models!Load
<1>2. CASE UNCHANGED cache
  BY <1>2
<1> QED
  BY <1>1, <1>2 DEF Models!Next, Models!Work, Models!Start, Models!Look, Models!Acquire,
     Models!Again, Models!LoadRaises, Models!Run, cacheVars, AllThreads

\* Every step of a thread keeps the invariant of the cache.
LEMMA CacheKept ==
  ASSUME CacheInv, [Models!Next]_cacheVars
  PROVE  CacheInv'
<1> USE BackendsAssumption
<1> DEFINE OwnCopy(t) == tpc[t] = "run" => pipe[t] # 0 /\ pipe[t] = cache[model[t]]
<1>1. OneCopyInUse <=> \A t \in AllThreads : OwnCopy(t)
  BY DEF OneCopyInUse, Models!OneCopyInUse, AllThreads
<1>2. OneCopyInUse' <=> \A t \in AllThreads : OwnCopy(t)'
  BY DEF OneCopyInUse, Models!OneCopyInUse, AllThreads
<1>3. \A m \in AllModels : cache[m] # 0 => cache'[m] = cache[m]
  BY CachedStays
<1>4. ASSUME NEW t \in AllThreads, Models!Start(t)
      PROVE  CacheInv'
  <2>1. CacheTypes'
    BY <1>4 DEF CacheInv, CacheTypes, Models!Start, Models!Goto, Models!Pc, AllModels
  <2>2. LockGuards'
    BY <1>4 DEF CacheInv, CacheTypes, LockGuards, Models!Start, Models!Goto, AllModels
  <2>3. \A u \in AllThreads : OwnCopy(u)'
    BY <1>1, <1>4 DEF CacheInv, CacheTypes, Models!Start, Models!Goto, AllModels
  <2> QED
    BY <1>2, <2>1, <2>2, <2>3 DEF CacheInv
<1>5. ASSUME NEW t \in AllThreads, Models!Look(t)
      PROVE  CacheInv'
  <2>1. CacheTypes'
    BY <1>5 DEF CacheInv, CacheTypes, Models!Look, Models!Goto, Models!Pc
  <2>2. LockGuards'
    BY <1>5 DEF CacheInv, CacheTypes, LockGuards, Models!Look, Models!Goto
  <2>3. \A u \in AllThreads : OwnCopy(u)'
    BY <1>1, <1>5 DEF CacheInv, CacheTypes, Models!Look, Models!Goto
  <2> QED
    BY <1>2, <2>1, <2>2, <2>3 DEF CacheInv
<1>6. ASSUME NEW t \in AllThreads, Models!Acquire(t)
      PROVE  CacheInv'
  <2>1. CacheTypes'
    BY <1>6 DEF CacheInv, CacheTypes, Models!Acquire, Models!Goto, Models!Pc
  <2>2. LockGuards'
    BY <1>6 DEF CacheInv, CacheTypes, LockGuards, Models!Acquire, Models!Goto, AllThreads
  <2>3. \A u \in AllThreads : OwnCopy(u)'
    BY <1>1, <1>6 DEF CacheInv, CacheTypes, Models!Acquire, Models!Goto
  <2> QED
    BY <1>2, <2>1, <2>2, <2>3 DEF CacheInv
<1>7. ASSUME NEW t \in AllThreads, Models!Again(t)
      PROVE  CacheInv'
  <2>1. CacheTypes'
    BY <1>7 DEF CacheInv, CacheTypes, Models!Again, Models!Goto, Models!Pc
  <2>2. LockGuards'
    BY <1>7 DEF CacheInv, CacheTypes, LockGuards, Models!Again, Models!Goto, AllThreads
  <2>3. \A u \in AllThreads : OwnCopy(u)'
    BY <1>1, <1>7 DEF CacheInv, CacheTypes, Models!Again, Models!Goto
  <2> QED
    BY <1>2, <2>1, <2>2, <2>3 DEF CacheInv
<1>8. ASSUME NEW t \in AllThreads, Models!Load(t)
      PROVE  CacheInv'
  <2>1. CacheTypes'
    BY <1>8 DEF CacheInv, CacheTypes, Models!Load, Models!Goto, Models!Pc
  <2>2. LockGuards'
    BY <1>8 DEF CacheInv, CacheTypes, LockGuards, Models!Load, Models!Goto, AllThreads
  <2>3. ASSUME NEW u \in AllThreads, u # t
        PROVE  OwnCopy(u)'
    BY <1>1, <1>3, <1>8, <2>3 DEF CacheInv, CacheTypes, Models!Load, Models!Goto
  <2>4. OwnCopy(t)'
    BY <1>8 DEF CacheInv, CacheTypes, Models!Load, Models!Goto
  <2> QED
    BY <1>2, <2>1, <2>2, <2>3, <2>4 DEF CacheInv
<1>9. ASSUME NEW t \in AllThreads, Models!LoadRaises(t) \/ Models!Run(t)
      PROVE  CacheInv'
  <2>1. CacheTypes'
    BY <1>9 DEF CacheInv, CacheTypes, Models!LoadRaises, Models!Run, Models!Leave,
       Models!Goto, Models!Pc
  <2>2. LockGuards'
    BY <1>9 DEF CacheInv, CacheTypes, LockGuards, Models!LoadRaises, Models!Run,
       Models!Leave, Models!Goto, AllThreads
  <2>3. \A u \in AllThreads : OwnCopy(u)'
    BY <1>1, <1>9 DEF CacheInv, CacheTypes, Models!LoadRaises, Models!Run, Models!Leave,
       Models!Goto
  <2> QED
    BY <1>2, <2>1, <2>2, <2>3 DEF CacheInv
<1>10. CASE UNCHANGED cacheVars
  BY <1>10 DEF cacheVars, CacheInv, CacheTypes, LockGuards, OneCopyInUse, Models!OneCopyInUse
<1> QED
  BY <1>4, <1>5, <1>6, <1>7, <1>8, <1>9, <1>10 DEF Models!Next, Models!Work, AllThreads

-----------------------------------------------------------------------------
(***************************************************************************)
(* The model server, and how the calls fare                                *)
(***************************************************************************)

\* The warming thread loads the warmed model and nothing else, and only before the
\* server serves; when it serves, that model is there.
WarmingInv ==
  /\ tpc[Warmer] # "idle" => host = "warming" /\ model[Warmer] = Warmed
  /\ host = "up" => cache[Warmed] # 0

OutcomeTypes ==
  /\ outcome \in [Call -> {"open", "hosted", "local", "failed"}]
  /\ answer \in [Call -> {"none", "local", "failed"}]

\* A thread of the pool that works has a call to work for.
JobsKnown ==
  /\ pool \in Seq(Call)
  /\ job \in [Thread -> Call \cup {NoCall}]
  /\ \A t \in Thread : tpc[t] # "idle" => job[t] \in Call

IndInv == HostedInv /\ CacheInv /\ WarmingInv /\ OutcomeTypes /\ JobsKnown

\* It holds at the start.
LEMMA IndInvAtInit ==
  ASSUME Init
  PROVE  IndInv
<1> USE BackendsAssumption DEF Init
<1>1. HostedInv /\ CacheInv
  BY HostedAtInit, CacheAtInit
<1>2. WarmingInv
  BY DEF WarmingInv, Models!Init
<1>3. OutcomeTypes /\ JobsKnown
  BY DEF OutcomeTypes, JobsKnown, Models!Init
<1> QED
  BY <1>1, <1>2, <1>3 DEF IndInv

\* Only Warm starts or ends the warming; the threads of the pool load what they need.
LEMMA WarmingKept ==
  ASSUME IndInv, [Next]_vars
  PROVE  WarmingInv'
<1> USE BackendsAssumption DEF IndInv, WarmingInv
<1>1. \A m \in AllModels : cache[m] # 0 => cache'[m] = cache[m]
  BY CachePart, CachedStays
<1>2. Warmed \in AllModels /\ (cache[Warmed] # 0 => cache'[Warmed] # 0)
  BY <1>1 DEF AllModels
<1>3. ASSUME NEW t \in Thread, ThreadStep(t)
      PROVE  WarmingInv'
  <2>1. UNCHANGED <<tpc[Warmer], model[Warmer], host>>
    BY <1>3 DEF ThreadStep, Take, FindModel, Finish, Models!Start, Models!Look,
       Models!Acquire, Models!Again, Models!Load, Models!LoadRaises, Models!Run,
       Models!Leave, Models!Goto, CacheInv, CacheTypes, AllThreads
  <2> QED
    BY <1>2, <2>1
<1>4. ASSUME FindModel(Warmer)
      PROVE  WarmingInv'
  <2>1. tpc[Warmer] # "idle" /\ UNCHANGED <<model, host>>
    BY <1>4 DEF FindModel, Models!Look, Models!Acquire, Models!Again, Models!Load
  <2> QED
    BY <1>2, <2>1
<1>5. ASSUME Warm
      PROVE  WarmingInv'
  <2>1. CASE Models!Start(Warmer) /\ model'[Warmer] = Warmed /\ UNCHANGED host
    BY <1>5, <2>1 DEF Warm
  <2>2. CASE Models!Run(Warmer) /\ host' = "up"
    <3>1. tpc'[Warmer] = "idle" /\ UNCHANGED cache
      BY <2>2 DEF Models!Run, Models!Leave, Models!Goto, CacheInv, CacheTypes, AllThreads
    <3>2. cache[Warmed] # 0
      BY <2>2 DEF Models!Run, CacheInv, OneCopyInUse, Models!OneCopyInUse
    <3> QED
      BY <2>2, <3>1, <3>2
  <2>3. CASE Models!LoadRaises(Warmer) /\ host' = "down"
    <3>1. tpc'[Warmer] = "idle"
      BY <2>3 DEF Models!LoadRaises, Models!Leave, Models!Goto, CacheInv, CacheTypes, AllThreads
    <3> QED
      BY <2>3, <3>1
  <2> QED
    BY <1>5, <2>1, <2>2, <2>3 DEF Warm
<1>6. ASSUME NEW c \in Call,
             \/ c \in Hosted /\ PostHosted(c)
             \/ EndHosted(c) \/ AskLocal(c) \/ EndLocal(c) \/ Refused(c) \/ GiveUp(c)
      PROVE  WarmingInv'
  BY <1>6 DEF PostHosted, EndHosted, AskLocal, EndLocal, Refused, GiveUp, cacheVars
<1>7. CASE UNCHANGED vars
  BY <1>7 DEF vars, cacheVars
<1> QED
  BY <1>3, <1>4, <1>5, <1>6, <1>7 DEF Next, CallStep, WarmStep

\* The queue and the threads hold calls.
LEMMA JobsKept ==
  ASSUME IndInv, [Next]_vars
  PROVE  JobsKnown'
<1> USE BackendsAssumption DEF IndInv, JobsKnown
<1>1. ASSUME NEW c \in Call, AskLocal(c)
      PROVE  JobsKnown'
  BY <1>1 DEF AskLocal, cacheVars
<1>2. ASSUME NEW t \in Thread, Take(t)
      PROVE  JobsKnown'
  <2>1. /\ Head(pool) \in Call
        /\ pool' \in Seq(Call)
        /\ job' = [job EXCEPT ![t] = Head(pool)]
    BY <1>2 DEF Take
  <2>2. \A u \in AllThreads : u # t => tpc'[u] = tpc[u]
    BY <1>2 DEF Take, Models!Start, Models!Goto, CacheInv, CacheTypes
  <2> QED
    BY <2>1, <2>2 DEF AllThreads
<1>3. ASSUME NEW t \in Thread, Finish(t)
      PROVE  JobsKnown'
  <2>1. tpc'[t] = "idle" /\ \A u \in AllThreads : u # t => tpc'[u] = tpc[u]
    BY <1>3 DEF Finish, Models!Run, Models!LoadRaises, Models!Leave, Models!Goto, CacheInv,
       CacheTypes, AllThreads
  <2>2. job' = [job EXCEPT ![t] = NoCall] /\ UNCHANGED pool
    BY <1>3 DEF Finish
  <2> QED
    BY <2>1, <2>2 DEF AllThreads
<1>4. ASSUME NEW t \in AllThreads, FindModel(t)
      PROVE  JobsKnown'
  <2>1. tpc[t] # "idle" /\ \A u \in AllThreads : u # t => tpc'[u] = tpc[u]
    BY <1>4 DEF FindModel, Models!Look, Models!Acquire, Models!Again, Models!Load,
       Models!Goto, CacheInv, CacheTypes
  <2>2. UNCHANGED <<pool, job>>
    BY <1>4 DEF FindModel, poolVars
  <2> QED
    BY <2>1, <2>2 DEF AllThreads
<1>5. ASSUME Warm
      PROVE  JobsKnown'
  <2>1. \A u \in Thread : tpc'[u] = tpc[u]
    BY <1>5 DEF Warm, Models!Start, Models!Run, Models!LoadRaises, Models!Leave,
       Models!Goto, CacheInv, CacheTypes, AllThreads
  <2> QED
    BY <1>5, <2>1 DEF Warm, poolVars
<1>6. ASSUME NEW c \in Call,
             \/ c \in Hosted /\ PostHosted(c)
             \/ EndHosted(c) \/ EndLocal(c) \/ Refused(c) \/ GiveUp(c)
      PROVE  JobsKnown'
  BY <1>6 DEF PostHosted, EndHosted, EndLocal, Refused, GiveUp, cacheVars, poolVars
<1>7. CASE UNCHANGED vars
  BY <1>7 DEF vars, cacheVars, poolVars
<1> QED
  BY <1>1, <1>2, <1>3, <1>4, <1>5, <1>6, <1>7 DEF Next, CallStep, ThreadStep, WarmStep,
     AllThreads

\* A thread answers with a text of the local backend or a failure, and a call ends with
\* that, with a text of the hosted backend, or by failing without an answer.
LEMMA OutcomesKept ==
  ASSUME IndInv, [Next]_vars
  PROVE  OutcomeTypes'
<1> USE DEF IndInv, OutcomeTypes
<1>1. ASSUME NEW t \in Thread, ThreadStep(t)
      PROVE  OutcomeTypes'
  <2>1. CASE Take(t) \/ FindModel(t)
    BY <2>1 DEF Take, FindModel, poolVars
  <2>2. CASE Finish(t)
    BY <2>2 DEF Finish, Answered
  <2> QED
    BY <1>1, <2>1, <2>2 DEF ThreadStep
<1>2. ASSUME NEW c \in Call, EndHosted(c) \/ AskLocal(c) \/ Refused(c) \/ GiveUp(c)
      PROVE  OutcomeTypes'
  BY <1>2 DEF EndHosted, AskLocal, Refused, GiveUp, Ended, poolVars
<1>3. ASSUME NEW c \in Call, EndLocal(c)
      PROVE  OutcomeTypes'
  <2>1. answer[c] \in {"local", "failed"}
    BY <1>3 DEF EndLocal
  <2> QED
    BY <1>3, <2>1 DEF EndLocal, Ended, poolVars
<1>4. ASSUME WarmStep \/ (\E c \in Hosted : PostHosted(c)) \/ UNCHANGED vars
      PROVE  OutcomeTypes'
  BY <1>4 DEF WarmStep, Warm, FindModel, PostHosted, poolVars, vars
<1> QED
  BY <1>1, <1>2, <1>3, <1>4 DEF Next, CallStep

\* Every step keeps the strengthening.
LEMMA IndInvKept ==
  ASSUME IndInv, [Next]_vars
  PROVE  IndInv'
<1>1. HostedInv' /\ CacheInv'
  BY HostedPart, CachePart, HostedKept, CacheKept DEF IndInv
<1> QED
  BY <1>1, WarmingKept, JobsKept, OutcomesKept DEF IndInv

-----------------------------------------------------------------------------
(***************************************************************************)
(* Theorems                                                                *)
(***************************************************************************)

\* The strengthening is an invariant.
THEOREM Inductive == Spec => []IndInv
  BY IndInvAtInit, IndInvKept, PTL DEF Spec

\* The calls one process has in flight are HostedBackend's behaviours on its variables
\* and ModelCache's on its own: fallbacks, refusals, callers that give up and the
\* warming of the model server add no step to either.
THEOREM ComponentsImplemented == Spec => HostedCalls!Spec /\ Models!Spec
<1>1. Init => HostedCalls!Init /\ Models!Init
  BY DEF Init
<1>2. [Next]_vars => [HostedCalls!Next]_hostedVars /\ [Models!Next]_cacheVars
  BY HostedPart, CachePart
<1>3. hostedVars = HostedCalls!vars /\ cacheVars = Models!vars
  BY DEF hostedVars, cacheVars, HostedCalls!vars, Models!vars
<1>4. [Next]_vars => [HostedCalls!Next]_(HostedCalls!vars) /\ [Models!Next]_(Models!vars)
  BY <1>2, <1>3 DEF hostedVars, cacheVars, HostedCalls!vars, Models!vars
<1> QED
  BY <1>1, <1>4, PTL DEF Spec, HostedCalls!Spec, Models!Spec

\* However many calls retry, fall back or are given up, at most Cap POSTs are open and
\* every permit that is not in one is there to be taken: the `async with' of
\* HostedBackend.transcribe gives it back on every path.
THEOREM PermitsAlwaysAccounted == Spec => []PermitsAccounted
<1>1. IndInv => PermitsAccounted
  <2> SUFFICES ASSUME IndInv PROVE PermitsAccounted
    OBVIOUS
  <2>1. Cardinality(HostedCalls!Posting) \in Nat
    BY FS_CardinalityType DEF IndInv, HostedInv, PermitsOut
  <2>2. HostedCalls!Cardinality(HostedCalls!Posting) = Cardinality(HostedCalls!Posting)
    BY DEF Cardinality, HostedCalls!Cardinality
  <2> QED
    BY <2>1, <2>2, BackendsAssumption
    DEF IndInv, HostedInv, PermitsOut, PermitsAccounted, HostedCalls!PermitsAccounted
<1> QED
  BY <1>1, Inductive, PTL

\* No call sends its audio more often than the first time and MaxRetries times again.
THEOREM PostsAlwaysBounded == Spec => []BoundedPosts
<1>1. IndInv => BoundedPosts
  BY BackendsAssumption DEF IndInv, HostedInv, HostedTypes, PostsCounted, BoundedPosts,
     HostedCalls!BoundedPosts
<1> QED
  BY <1>1, Inductive, PTL

\* Double-checked locking: no thread ever runs a model that is not the one cached copy
\* of what its chunk asked for, whatever loads raise.
THEOREM OneCopyAlwaysInUse == Spec => []OneCopyInUse
<1>1. IndInv => OneCopyInUse
  BY DEF IndInv, CacheInv
<1> QED
  BY <1>1, Inductive, PTL

\* A model server that serves has its model in memory.
THEOREM UpIsAlwaysWarm == Spec => []UpIsWarm
<1>1. IndInv => UpIsWarm
  BY DEF IndInv, WarmingInv, UpIsWarm
<1> QED
  BY <1>1, Inductive, PTL

=============================================================================
