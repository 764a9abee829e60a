--------------------------- MODULE MCOutboxRelay ---------------------------
(* Instances of OutboxRelay for TLC.  One tick is about a lease's granule: *)
(* in production the timeout (120 s) is shorter than the lease (150 s).    *)
EXTENDS OutboxRelay

MCRetryDelays == [n \in 1..(MaxAttempts - 1) |-> 0..n]
=============================================================================
