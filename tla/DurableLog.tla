----------------------------- MODULE DurableLog -----------------------------
(***************************************************************************)
(* What the log manager promises: a log of records numbered 0, 1, 2, ...   *)
(* without gaps, of which a prefix is durable.  A stop of the process      *)
(* loses the volatile rest and nothing else; numbering then goes on after  *)
(* the last durable record.                                                *)
(***************************************************************************)
EXTENDS Naturals, Sequences

VARIABLES durable,   \* log sequence numbers that survive a stop
          volatile   \* log sequence numbers that do not, in order

logvars == <<durable, volatile>>

LogInit == durable = <<>> /\ volatile = <<>>

Extend ==
  /\ volatile' = Append(volatile, Len(durable) + Len(volatile))
  /\ UNCHANGED durable

Persist ==
  \E n \in 1..Len(volatile) :
    /\ durable' = durable \o SubSeq(volatile, 1, n)
    /\ volatile' = SubSeq(volatile, n + 1, Len(volatile))

Lose ==
  /\ volatile' = <<>>
  /\ UNCHANGED durable

LogNext == Extend \/ Persist \/ Lose

LogSpec == LogInit /\ [][LogNext]_logvars
=============================================================================
