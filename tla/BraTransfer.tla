---------------------------- MODULE BraTransfer ----------------------------
(***************************************************************************)
(* What an archive promises, without archive files, trees, sums or chunks: *)
(* entries are handed over in the order of the plan, each either exactly   *)
(* as planned or, unverified, left alone; a session succeeds only when all *)
(* of the plan was handled, and may be given up at any point before.       *)
(***************************************************************************)
EXTENDS Naturals, Sequences

CONSTANT Unverified   \* marks an entry that was not delivered

VARIABLES
  plan,        \* what is to be handed over
  delivered,   \* what was
  status       \* "running", "ok" or "failed"

tvars == <<plan, delivered, status>>

Running == status = "running"
Unfinished == Len(delivered) < Len(plan)

TInit == delivered = <<>> /\ status = "running"

Deliver ==
  /\ Running /\ Unfinished
  /\ delivered' = Append(delivered, plan[Len(delivered) + 1])
  /\ UNCHANGED <<plan, status>>

LeaveAlone ==
  /\ Running /\ Unfinished
  /\ delivered' = Append(delivered, Unverified)
  /\ UNCHANGED <<plan, status>>

Succeed ==
  /\ Running /\ ~Unfinished
  /\ status' = "ok"
  /\ UNCHANGED <<plan, delivered>>

Abandon ==
  /\ Running
  /\ status' = "failed"
  /\ UNCHANGED <<plan, delivered>>

TSpec == TInit /\ [][Deliver \/ LeaveAlone \/ Succeed \/ Abandon]_tvars
============================================================================
