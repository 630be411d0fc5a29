----------------------------- MODULE StreamTail -----------------------------
(***************************************************************************)
(* Watching an asynchronous job while the workers write it.  A client that *)
(* has the id of a job follows it to its end, either by GET                *)
(* /jobs/{id}/stream, whose generator polls the store, or with a card of   *)
(* the web page, which polls GET /jobs/{id} and GET /jobs/{id}/chunks.     *)
(*                                                                         *)
(* Every GET reads one key of Redis at a time, so what a viewer is shown   *)
(* is put together from several moments of the job.                        *)
(***************************************************************************)
EXTENDS RedisAsync, SequencesExt

VARIABLES
  kind,   \* kind[j]: what follows job j, a "tail", a "card" or nothing yet
  at,     \* where it stands in its loop
  told,   \* the status of the job it read in this turn of the loop
  rows,   \* the chunk records it has read in this turn
  shown   \* what its reader sees

viewVars == <<kind, at, told, rows, shown>>

ViewPc == {"closed", "job", "rows", "show", "ended", "broken"}

ViewInit ==
  /\ Init
  /\ kind = [j \in Job |-> "none"]
  /\ at = [j \in Job |-> "closed"]
  /\ told = [j \in Job |-> "absent"]
  /\ rows = [j \in Job |-> <<>>]
  /\ shown = [j \in Job |-> [transcript |-> <<>>, completed |-> 0, status |-> "absent"]]

ViewGoto(j, from, to) == at[j] = from /\ at' = [at EXCEPT ![j] = to]

\* The client has the job's id only from the answer to its POST, when every chunk
\* is listed in the store.
Open(j) ==
  /\ api[j] = "returned"
  /\ ViewGoto(j, "closed", "job")
  /\ \E k \in {"tail", "card"} : kind' = [kind EXCEPT ![j] = k]
  /\ UNCHANGED <<told, rows, shown>>

\* A turn of the loop starts with the job.  A card shows its transcript at once,
\* which is empty until the job is finished.
ReadJob(j) ==
  /\ ViewGoto(j, "job", "rows")
  /\ told' = [told EXCEPT ![j] = jobs[j].status]
  /\ rows' = [rows EXCEPT ![j] = <<>>]
  /\ shown' = IF kind[j] = "card"
                THEN [shown EXCEPT ![j].transcript = jobs[j].transcript]
                ELSE shown
  /\ UNCHANGED kind

\* store.list_chunks: one GET per chunk, in index order
ReadRow(j) ==
  /\ ViewGoto(j, "rows", IF Len(rows[j]) + 1 = ChunkCount[j] THEN "show" ELSE "rows")
  /\ rows' = [rows EXCEPT ![j] = Append(@, chunks[<<j, Len(@)>>])]
  /\ UNCHANGED <<kind, told, shown>>

\* Variant: the tail looks at the job after its chunks.
ToldLate(j) == jobs[j].status

\* The job's status as this turn of the loop knows it
Told(j) == told[j]

\* Variant: a failed job is not taken for an end.
OverIfDone(j) == Told(j) = "done"

Over(j) == Told(j) \in {"done", "failed"}

SettledRow(r) == r.status \in {"done", "failed"}
Completed(j) == Cardinality({k \in 1 .. Len(rows[j]) : SettledRow(rows[j][k])})
Texts(records) == [k \in 1 .. Len(records) |-> records[k].text]

\* Variant: everything that is settled is shown, gaps or not.
AssembledWithGaps(records) == Texts(SelectSeq(records, SettledRow))

\* The InOrderAssembler fed with the settled rows: their longest contiguous prefix.
Assembled(records) ==
  Texts(SubSeq(records, 1,
    Max({n \in 0 .. Len(records) : \A k \in 1 .. n : SettledRow(records[k])})))

\* The tail sends a progress event if its snapshot is new, and the last event when
\* the job it read is over.
TailShows(j) ==
  /\ kind[j] = "tail"
  /\ shown' = [shown EXCEPT ![j] = [transcript |-> Assembled(rows[j]),
                                    completed |-> Completed(j),
                                    status |-> Told(j)]]

\* The card moves its progress bar; `completed' is 0 when the chunks did not come.
CardProgress(j, completed) ==
  /\ kind[j] = "card"
  /\ shown' = [shown EXCEPT
       ![j].completed = IF Over(j) THEN ChunkCount[j] ELSE completed,
       ![j].status = Told(j)]

\* The end of a turn, after which the loop sleeps or is left
NextTurn(j) == IF Over(j) THEN "ended" ELSE "job"

Show(j) ==
  /\ ViewGoto(j, "show", NextTurn(j))
  /\ TailShows(j) \/ CardProgress(j, Completed(j))
  /\ UNCHANGED <<kind, told, rows>>

\* A read raises: the stream breaks off, the card gives up if it was reading the
\* job and goes on without the chunks otherwise.
ViewRaises(j) ==
  /\ at[j] \in {"job", "rows"}
  /\ \/ /\ kind[j] = "tail" \/ at[j] = "job"
        /\ at' = [at EXCEPT ![j] = "broken"]
        /\ UNCHANGED shown
     \/ /\ at[j] = "rows"
        /\ CardProgress(j, 0)
        /\ at' = [at EXCEPT ![j] = NextTurn(j)]
  /\ UNCHANGED <<kind, told, rows>>

ViewStep(j) == Open(j) \/ ReadJob(j) \/ ReadRow(j) \/ Show(j)

ViewNext ==
  \/ Next /\ UNCHANGED viewVars
  \/ \E j \in Job : ViewStep(j) /\ UNCHANGED vars
  \/ /\ faults < MaxFaults
     /\ faults' = faults + 1
     /\ \E j \in Job : ViewRaises(j)
     /\ UNCHANGED <<redisVars, apiVars, pc, taskVars, stop>>

ViewSpec == ViewInit /\ [][ViewNext]_<<vars, viewVars>>

\* A viewer's loop is resumed after each of its reads and sleeps.
FairViewSpec ==
  /\ ViewSpec
  /\ \A j \in Job : WF_<<vars, viewVars>>(ViewStep(j) /\ UNCHANGED vars)

-----------------------------------------------------------------------------
(***************************************************************************)
(* Properties                                                              *)
(***************************************************************************)

\* A viewer that ended has shown the job as it is stored: its whole transcript,
\* every chunk counted and the status it ended with, although these were read at
\* different moments (stream_job's last event, pollAsyncCard's last turn).
LastViewIsTheJob ==
  \A j \in Job : at[j] = "ended" =>
    shown[j] = [transcript |-> jobs[j].transcript,
                completed |-> ChunkCount[j],
                status |-> jobs[j].status]

\* While nothing goes wrong, what a reader has seen stays: the transcript only
\* grows at its end and the count never falls (core/reassembly.py, "always grows
\* front-to-back with no gaps").
ViewOnlyGrows ==
  [][faults' = 0 => \A j \in Job :
       /\ IsPrefix(shown[j].transcript, shown'[j].transcript)
       /\ shown[j].completed <= shown'[j].completed]_<<vars, viewVars>>

\* Whoever follows a job that has come to its end, well or not, comes to the end
\* of following it.
EveryViewEnds ==
  \A j \in Job : (Finished(j) /\ at[j] # "closed") ~> at[j] \in {"ended", "broken"}

(***************************************************************************)
(* Why LastViewIsTheJob holds: the viewer's part of an inductive invariant *)
(* whose other part is IndInv.                                             *)
(***************************************************************************)

ViewTypeOK ==
  /\ kind \in [Job -> {"none", "tail", "card"}]
  /\ at \in [Job -> ViewPc]
  /\ told \in [Job -> Status]
  /\ rows \in [Job -> Seq(ChunkRecord)]
  /\ shown \in [Job -> [transcript : Seq(Text), completed : Nat, status : Status]]

\* A viewer that was told the job is over reads what does not change any more: its
\* rows are the final records, and a card shows the final transcript already.
ToldTrue(j) ==
  /\ at[j] = "ended" => Over(j)
  /\ (at[j] \in {"rows", "show", "ended"} /\ Over(j)) =>
       /\ told[j] = jobs[j].status
       /\ \A k \in 1 .. Len(rows[j]) : rows[j][k] = chunks[<<j, k - 1>>]
       /\ kind[j] = "card" => shown[j].transcript = jobs[j].transcript

ViewPlaceOK(j) ==
  /\ api[j] = "returned" => ChunkCount[j] > 0
  /\ at[j] # "closed" => api[j] = "returned"
  /\ Len(rows[j]) <= ChunkCount[j]
  /\ at[j] = "rows" => Len(rows[j]) < ChunkCount[j]
  /\ at[j] = "show" => Len(rows[j]) = ChunkCount[j]

\* The last view is the job, because a viewer follows only jobs that were returned,
\* which no handler writes any more, and finished ones are over for everyone.
ViewInv ==
  /\ ViewTypeOK
  /\ LastViewIsTheJob
  /\ \A j \in Job : ViewPlaceOK(j) /\ ToldTrue(j)

=============================================================================
