--------------------------- MODULE HostedBackend ---------------------------
(***************************************************************************)
(* HostedBackend.transcribe: concurrent calls to the hosted inference API, *)
(* at most Cap of them in a POST at the same time (an asyncio.Semaphore,   *)
(* which serves its waiters first come, first served), each retried a few  *)
(* times while the API answers 503.                                        *)
(***************************************************************************)
EXTENDS Integers, Sequences, FiniteSets

CONSTANTS
  Call,       \* the calls in flight, one per chunk being transcribed
  Cap,        \* hosted_max_concurrency
  MaxRetries  \* _MAX_RETRIES

VARIABLES
  pc,       \* where each call stands
  attempt,  \* the loop variable
  permits,  \* the semaphore's value
  waiters,  \* and the calls waiting for it, oldest first
  posts     \* history: how often each call has posted its audio

vars == <<pc, attempt, permits, waiters, posts>>

Pc == {"ready", "queued", "post", "sleep", "returned", "raised"}

Init ==
  /\ pc = [c \in Call |-> "ready"]
  /\ attempt = [c \in Call |-> 0]
  /\ permits = Cap
  /\ waiters = <<>>
  /\ posts = [c \in Call |-> 0]

Goto(c, to) == pc' = [pc EXCEPT ![c] = to]

\* async with self._sem, from the first time or after a back-off
Ask(c) ==
  /\ pc[c] \in {"ready", "sleep"}
  /\ waiters' = Append(waiters, c)
  /\ attempt' = [attempt EXCEPT ![c] = IF pc[c] = "sleep" THEN @ + 1 ELSE @]
  /\ Goto(c, "queued")
  /\ UNCHANGED <<permits, posts>>

\* The oldest waiter gets a permit and sends its POST.
Enter(c) ==
  /\ pc[c] = "queued" /\ Head(waiters) = c
  /\ permits > 0
  /\ permits' = permits - 1
  /\ waiters' = Tail(waiters)
  /\ posts' = [posts EXCEPT ![c] = @ + 1]
  /\ Goto(c, "post")
  /\ UNCHANGED attempt

\* Variant: the permit is kept when the POST raises.
LeaveIfAnswered(to) == permits' = IF to = "raised" THEN permits ELSE permits + 1

\* The end of the async with: the permit is given back on every path.
Leave(to) == permits' = permits + 1

\* Variant: one retry more.
RetriesTooOften(c) == attempt[c] <= MaxRetries

Retries(c) == attempt[c] < MaxRetries

\* The answer: 200, 503 (retried while attempts are left), another status, or
\* no answer at all (a timeout or a network error).
Answer(c) ==
  /\ pc[c] = "post"
  /\ \E to \in {"returned", "raised"} \cup (IF Retries(c) THEN {"sleep"} ELSE {}) :
       Leave(to) /\ Goto(c, to)
  /\ UNCHANGED <<attempt, waiters, posts>>

Next == \E c \in Call : Ask(c) \/ Enter(c) \/ Answer(c)

Spec == Init /\ [][Next]_vars

-----------------------------------------------------------------------------
(***************************************************************************)
(* Properties                                                              *)
(***************************************************************************)

Posting == {c \in Call : pc[c] = "post"}

\* Never more than Cap POSTs at once, and no permit is lost or made: those not in
\* a POST are there for the next call, whatever ended the earlier ones.
PermitsAccounted == Cardinality(Posting) <= Cap /\ permits = Cap - Cardinality(Posting)

\* A call sends its audio at most 1 + MaxRetries times, however long the API
\* goes on answering 503.
BoundedPosts == \A c \in Call : posts[c] <= 1 + MaxRetries

=============================================================================
