---------------------------- MODULE AppendOnlyLog ----------------------------
(***************************************************************************)
(* What both audit services promise ("append-only, hash-chained"): a log   *)
(* that grows at its end, by entries that point at the entry before.       *)
(***************************************************************************)
EXTENDS Naturals, Sequences

CONSTANT Hashes

VARIABLE log

Previous == IF log = <<>> THEN 0 ELSE log[Len(log)].hash

Write(h) == log' = Append(log, [hash |-> h, prev |-> Previous])

Init == log = <<>>

Next == \E h \in Hashes : Write(h)

Spec == Init /\ [][Next]_log

=============================================================================
