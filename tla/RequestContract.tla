-------------------------- MODULE RequestContract --------------------------
(***************************************************************************)
(* What the Codex adapter promises about one request, whatever crashes and *)
(* lost replies lie in between (adapters/codex/README.md, "After a crash,  *)
(* an uncertain execution is reported and never automatically repeated"):  *)
(* a request is executed at most once, its sender is told one outcome and  *)
(* never another, and it is told an answer only if the request was run.    *)
(***************************************************************************)
EXTENDS Naturals

CONSTANTS Requests,    \* the requests that ask for work
          Outcomes,    \* the texts a sender can be told
          Answer       \* the outcome that reports a finished execution

VARIABLES runs,        \* how often each request was handed to Codex
          told         \* the outcomes recorded for its sender

vars == <<runs, told>>

Init == /\ runs = [m \in Requests |-> 0]
        /\ told = [m \in Requests |-> {}]

Run(m) == /\ runs[m] = 0
          /\ told[m] = {}
          /\ runs' = [runs EXCEPT ![m] = 1]
          /\ UNCHANGED told

Tell(m, t) == /\ told[m] = {}
              /\ t = Answer => runs[m] = 1
              /\ told' = [told EXCEPT ![m] = {t}]
              /\ UNCHANGED runs

Next == \E m \in Requests : Run(m) \/ \E t \in Outcomes : Tell(m, t)

Spec == Init /\ [][Next]_vars
=============================================================================
