------------------------- MODULE MC_StateTransition -------------------------
(* StateTransition on small instances. *)
EXTENDS StateTransition

CONSTANTS s1, s2, k1, k2, k3, w1, l1, g1, p1

Req(kind, key, expected, event, to) ==
  [kind |-> kind, key |-> key, expected |-> expected, event |-> event, to |-> to,
   stage |-> None, stageTo |-> None, step |-> None, stepTo |-> None, worker |-> None]

Start == Req("transition", k1, 0, "RUN_START_ACCEPTED", "SOURCE_VALIDATION_RUNNING")
Cancel == Req("transition", k2, 0, "RUN_CANCELLED", "CANCELLED")
PrepareStage == [Req("transition", k3, 1, "STAGE_CREATED", "STAGE_CREATED")
                   EXCEPT !.stage = g1, !.stageTo = "preparing"]
CompleteStep(k, v, w) ==
  [Req("transition", k, v, "STEP_COMPLETED", None)
     EXCEPT !.stage = g1, !.step = p1, !.stepTo = "PASSED", !.worker = w]
Audit(k) == Req("audit", k, 0, "G05_CREATED", None)
Raw(k) == Req("raw", k, 0, "COMMAND_STARTED", None)

\* Racing transitions, a retry with another payload, an audit and a raw writer
\* that share a key with a transition, requests the table or the ownership
\* check refuses, and a step completed under a lease.
MCRequests ==
  {Start, Cancel, Audit(k3), Raw(k1), [PrepareStage EXCEPT !.stage = "foreign"],
   CompleteStep(k3, 0, w1), [CompleteStep(k2, 1, None) EXCEPT !.stepTo = "RUNNING"]}

LegacyEvent(q, k) ==
  [seq |-> q, key |-> k, checksum |-> None, kind |-> "raw", prev |-> 0, next |-> 0,
   from |-> None, to |-> None]
MCLegacyLogs == {<< >>, <<LegacyEvent(2, k3)>>}
=============================================================================
