---------------------------- MODULE JobContract ----------------------------
(***************************************************************************)
(* What the service promises a client about a job, whatever drives it (the *)
(* in-process scheduler, or Redis and separate workers):                   *)
(*                                                                         *)
(*   - a job is recorded, then started, then finished at most once;        *)
(*   - each of its chunks is settled at most once, while the job is being  *)
(*     processed, with an outcome that never changes afterwards;           *)
(*   - the job finishes only when every chunk is settled; its transcript   *)
(*     is then the chunks' texts in index order, and it failed exactly     *)
(*     when one of its chunks failed.                                      *)
(*                                                                         *)
(* This is the abstract specification the detailed modules implement.      *)
(***************************************************************************)
EXTENDS Integers, Sequences

CONSTANTS
  Job,         \* the jobs clients may submit
  ChunkCount,  \* ChunkCount[j]: number of windows job j's audio is cut into
  Text         \* what a chunk's transcription may be

VARIABLES
  status,      \* status[j]: the job's status, "absent" before POST /jobs
  outcome,     \* outcome[ch]: the settled result of a chunk, or Open
  transcript   \* transcript[j]: the job's final transcript

contractVars == <<status, outcome, transcript>>

ChunksOf(j) == {j} \X (0 .. ChunkCount[j] - 1)
Chunk == UNION {ChunksOf(j) : j \in Job}

Open == [status |-> "open", text |-> "none"]
Outcome == [status : {"done", "failed"}, text : Text]

Init ==
  /\ status = [j \in Job |-> "absent"]
  /\ outcome = [ch \in Chunk |-> Open]
  /\ transcript = [j \in Job |-> <<>>]

Create(j) ==
  /\ status[j] = "absent"
  /\ status' = [status EXCEPT ![j] = "pending"]
  /\ UNCHANGED <<outcome, transcript>>

Start(j) ==
  /\ status[j] = "pending"
  /\ status' = [status EXCEPT ![j] = "processing"]
  /\ UNCHANGED <<outcome, transcript>>

Settle(ch) ==
  /\ status[ch[1]] = "processing"
  /\ outcome[ch] = Open
  /\ \E o \in Outcome : outcome' = [outcome EXCEPT ![ch] = o]
  /\ UNCHANGED <<status, transcript>>

Finish(j) ==
  /\ status[j] = "processing"
  /\ \A ch \in ChunksOf(j) : outcome[ch] # Open
  /\ status' = [status EXCEPT ![j] =
       IF \E ch \in ChunksOf(j) : outcome[ch].status = "failed"
         THEN "failed" ELSE "done"]
  /\ transcript' = [transcript EXCEPT ![j] =
       [k \in 1 .. ChunkCount[j] |-> outcome[<<j, k - 1>>].text]]
  /\ UNCHANGED outcome

Next ==
  \/ \E j \in Job : Create(j) \/ Start(j) \/ Finish(j)
  \/ \E ch \in Chunk : Settle(ch)

Spec == Init /\ [][Next]_contractVars

=============================================================================
