----------------------------- MODULE MCDelivery -----------------------------
(***************************************************************************)
(* Small instances of Delivery for TLC: how often each mishap may happen,  *)
(* and which invocations of the replay tool the operator makes.            *)
(***************************************************************************)
EXTENDS Delivery, TLC

MCSymmetry == Permutations(Events) \cup Permutations(Slots) \cup Permutations(Requests)

LimitOf(f, c, l, r, p, t) ==
    ("receiver_fault" :> f @@ "worker_crash" :> c @@ "job_lost" :> l
     @@ "redis_loss" :> r @@ "replay_fault" :> p @@ "truncation" :> t)

\* Everything may go wrong once.
EachOnce == LimitOf(1, 1, 1, 1, 1, 1)

\* Whatever strands an event, once.
LossesOnly == LimitOf(1, 1, 1, 1, 0, 0)

AnyReplay == Invocation

EnqueueAll == [mode : {"enqueue"}, truncate : {FALSE}]

=============================================================================
