-------------------------- MODULE IndexingContract --------------------------
(***************************************************************************)
(* What an indexing job promises to whoever reads its outcome and its      *)
(* events, whatever else the service does at the same time:                *)
(*  - it fixes how many chunks it has before it writes any, and never      *)
(*    writes more;                                                         *)
(*  - it announces "indexed" only when every chunk has been written, with  *)
(*    that number, and never after announcing "failed";                    *)
(*  - it ends "ready" only with "indexed" announced and "failed" not, and  *)
(*    "failed" only with "failed" announced;                               *)
(*  - it ends once.                                                        *)
(***************************************************************************)
EXTENDS Naturals

CONSTANT Jobs

VARIABLES
  phase,      \* "idle", "running", "dead", or the outcome
  size,       \* chunks the job has to write
  written,    \* chunks the job has written
  announced   \* <<type, job, count>>

vars == <<phase, size, written, announced>>

Init ==
  /\ phase = [j \in Jobs |-> "idle"]
  /\ size = [j \in Jobs |-> 0]
  /\ written = [j \in Jobs |-> 0]
  /\ announced = {}

FailedAnnounced(j) == <<"failed", j, 0>> \in announced

Begin(j) ==
  /\ phase[j] = "idle"
  /\ phase' = [phase EXCEPT ![j] = "running"]
  /\ UNCHANGED <<size, written, announced>>

Measure(j) ==
  /\ phase[j] = "running" /\ size[j] = 0 /\ written[j] = 0
  /\ size' = [size EXCEPT ![j] = size'[j]] /\ size'[j] \in Nat
  /\ UNCHANGED <<phase, written, announced>>

Write(j) ==
  /\ phase[j] = "running"
  /\ \E n \in (written[j] + 1) .. size[j] : written' = [written EXCEPT ![j] = n]
  /\ UNCHANGED <<phase, size, announced>>

AnnounceIndexed(j) ==
  /\ phase[j] = "running" /\ written[j] = size[j] /\ ~FailedAnnounced(j)
  /\ announced' = announced \cup {<<"indexed", j, size[j]>>}
  /\ UNCHANGED <<phase, size, written>>

AnnounceFailed(j) ==
  /\ phase[j] = "running"
  /\ announced' = announced \cup {<<"failed", j, 0>>}
  /\ UNCHANGED <<phase, size, written>>

Finish(j) ==
  /\ phase[j] = "running"
  /\ \/ /\ <<"indexed", j, size[j]>> \in announced /\ ~FailedAnnounced(j)
        /\ phase' = [phase EXCEPT ![j] = "ready"]
     \/ FailedAnnounced(j) /\ phase' = [phase EXCEPT ![j] = "failed"]
     \/ phase' = [phase EXCEPT ![j] = "raised"]
  /\ UNCHANGED <<size, written, announced>>

\* The process dies with every job it runs.
Die ==
  /\ phase' = [j \in Jobs |-> IF phase[j] = "running" THEN "dead" ELSE phase[j]]
  /\ UNCHANGED <<size, written, announced>>

Next ==
  \/ \E j \in Jobs :
       \/ Begin(j) \/ Measure(j) \/ Write(j)
       \/ AnnounceIndexed(j) \/ AnnounceFailed(j) \/ Finish(j)
  \/ Die

Spec == Init /\ [][Next]_vars
=============================================================================
