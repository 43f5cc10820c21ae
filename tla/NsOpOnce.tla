------------------------------ MODULE NsOpOnce ------------------------------
(***************************************************************************)
(* What the HA scheme of the LCM promises about an operation, without      *)
(* database, bus or coroutines: some worker takes it, at most once in its  *)
(* whole life; it runs there and nowhere else; once it is over it never    *)
(* runs again.  "True=lock was successful => execute the task (not         *)
(* registered by any other LCM instance)", says TaskRegistry.lock_HA.      *)
(***************************************************************************)
CONSTANTS Op, Worker, NoWorker

VARIABLES runner, stage

OnceInit ==
    /\ runner = [o \in Op |-> NoWorker]
    /\ stage = [o \in Op |-> "open"]

Take(o, w) ==
    /\ runner[o] = NoWorker /\ stage[o] = "open"
    /\ runner' = [runner EXCEPT ![o] = w]
    /\ stage' = [stage EXCEPT ![o] = "running"]

\* One operation ends, or all those of a worker that crashes.
End(S) ==
    /\ S # {} /\ \A o \in S : stage[o] = "running"
    /\ \A o, p \in S : runner[o] = runner[p]
    /\ stage' = [o \in Op |-> IF o \in S THEN "over" ELSE stage[o]]
    /\ UNCHANGED runner

OnceNext ==
    \/ \E o \in Op, w \in Worker : Take(o, w)
    \/ \E S \in SUBSET Op : End(S)

OnceSpec == OnceInit /\ [][OnceNext]_<<runner, stage>>
=============================================================================
