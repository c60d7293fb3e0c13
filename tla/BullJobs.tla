-------------------------------- MODULE BullJobs --------------------------------
(***************************************************************************)
(* A BullMQ job, as far as src/ relies on it: a job that rejects is tried  *)
(* again until opts.attempts are used; a job whose worker died is put back *)
(* maxStalledCount times and then failed; a job that has ended is kept     *)
(* until removeOnComplete or removeOnFail pushes it out.                   *)
(***************************************************************************)
EXTENDS Naturals

CONSTANTS Attempts,          \* opts.attempts
          MaxStalledCount    \* BullMQ's default is 1

\* "waiting" stands for BullMQ's waiting and delayed (scheduledAt, backoff).
Job == [state : {"none", "waiting", "active", "completed", "failed"},
        tries : Nat, stalls : Nat]

NoJob    == [state |-> "none", tries |-> 0, stalls |-> 0]
FreshJob == [NoJob EXCEPT !.state = "waiting"]
Finished == {"completed", "failed"}

\* The handler rejected: try again until the attempts are used up.
Rejected(j) == [j EXCEPT !.tries = @ + 1,
                         !.state = IF j.tries + 1 < Attempts THEN "waiting" ELSE "failed"]

\* The worker died: put the job back, at most MaxStalledCount times.
Stalled(j) == IF j.stalls < MaxStalledCount
              THEN [j EXCEPT !.stalls = @ + 1, !.state = "waiting"]
              ELSE [j EXCEPT !.state = "failed"]
===============================================================================
