----------------------------- MODULE AtLeastOnce -----------------------------
(***************************************************************************)
(* What a durable job queue promises: a submitted job stays open until it  *)
(* has run at least once, or is given up; a job given up may be reopened,  *)
(* and then has to run again; a job that succeeded is never touched again. *)
(* It says nothing of how many times a job runs, nor by whom.              *)
(***************************************************************************)
CONSTANT Jobs

VARIABLES status, ran

vars == <<status, ran>>

Init == /\ status = [j \in Jobs |-> "absent"]
        /\ ran = [j \in Jobs |-> FALSE]

Submit(j) == /\ status[j] = "absent"
             /\ status' = [status EXCEPT ![j] = "open"]
             /\ UNCHANGED ran

\* A run may come late: of a job already settled.
Run(j) == /\ status[j] # "absent"
          /\ ran' = [ran EXCEPT ![j] = TRUE]
          /\ UNCHANGED status

Succeed(j) == /\ status[j] = "open"
              /\ ran[j]
              /\ status' = [status EXCEPT ![j] = "succeeded"]
              /\ UNCHANGED ran

GiveUp(j) == /\ status[j] = "open"
             /\ status' = [status EXCEPT ![j] = "dead"]
             /\ UNCHANGED ran

Reopen(js) == /\ \A j \in js : status[j] = "dead"
              /\ status' = [j \in Jobs |-> IF j \in js THEN "open" ELSE status[j]]
              /\ ran' = [j \in Jobs |-> j \notin js /\ ran[j]]

Next == \/ \E j \in Jobs : Submit(j) \/ Run(j) \/ Succeed(j) \/ GiveUp(j)
        \/ \E js \in SUBSET Jobs : Reopen(js)

Spec == Init /\ [][Next]_vars
=============================================================================
