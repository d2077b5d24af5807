------------------------------ MODULE StartGate ------------------------------
(***************************************************************************)
(* What the driver promises of a starting process, without records, locks  *)
(* and events: it is held at the gate while somebody listens, it gets out  *)
(* when it has been judged or when the gate was opened for everyone, and a *)
(* process that was denied is sentenced when it gets out.                  *)
(***************************************************************************)

CONSTANTS
  Pid,          \* process ids
  SentenceFails \* whether sentencing a process may fail

VARIABLES
  stage,      \* a process is absent, free or held at the gate
  verdict,    \* the verdict on each process
  listening,  \* somebody has asked to be told of held processes
  freed,      \* held processes without a verdict that may go
  sentenced   \* processes that are going to be terminated

vars == <<stage, verdict, listening, freed, sentenced>>

Verdict == {"Clean", "Disallowed", "Allowed"}

Held == {p \in Pid : stage[p] = "held"}

Move(p, from, to) ==
  /\ stage[p] = from
  /\ stage' = [stage EXCEPT ![p] = to]

Init ==
  /\ stage \in [Pid -> {"absent", "free"}]
  /\ verdict = [p \in Pid |-> "Clean"]
  /\ listening = FALSE
  /\ freed = {}
  /\ sentenced = {}

Start(p) ==
  /\ Move(p, "absent", "free")
  /\ UNCHANGED <<verdict, listening, freed, sentenced>>

\* The record of a free process is lost; the process may be gone with it.
Forget(p) ==
  /\ Move(p, "free", "free") \/ Move(p, "free", "absent")
  /\ verdict' = [verdict EXCEPT ![p] = "Clean"]
  /\ UNCHANGED <<listening, freed, sentenced>>

\* Nobody is held unless there is somebody to decide.
Hold(p) ==
  /\ listening
  /\ Move(p, "free", "held")
  /\ UNCHANGED <<verdict, listening, freed, sentenced>>

\* A verdict may come early, and may be replaced by another one.
Judge(p) ==
  /\ verdict' \in {[verdict EXCEPT ![p] = v] : v \in {"Allowed", "Disallowed"}}
  /\ freed' = freed \ {p}
  /\ UNCHANGED <<stage, listening, sentenced>>

\* The gate is opened: those without a verdict may go.
Open ==
  /\ listening' = FALSE
  /\ freed' = {p \in Held : verdict[p] = "Clean"}
  /\ UNCHANGED <<stage, verdict, sentenced>>

Listen ==
  /\ listening' \in BOOLEAN
  /\ UNCHANGED <<stage, verdict, freed, sentenced>>

\* Out of the gate: judged or set free. Who was denied does not get away.
Leave(p) ==
  /\ verdict[p] # "Clean" \/ p \in freed
  /\ Move(p, "held", "free")
  /\ freed' = freed \ {p}
  /\ \/ verdict[p] = "Disallowed" /\ sentenced' = sentenced \cup {p}
     \/ /\ verdict[p] # "Disallowed" \/ SentenceFails
        /\ UNCHANGED sentenced
  /\ UNCHANGED <<verdict, listening>>

\* Only processes that were denied are sentenced.
Sentence ==
  /\ sentenced \subseteq sentenced'
  /\ sentenced' \subseteq sentenced \cup {p \in Pid : verdict[p] = "Disallowed"}
  /\ UNCHANGED <<stage, verdict, listening, freed>>

Executed(p) ==
  /\ sentenced' = sentenced \ {p}
  /\ UNCHANGED <<stage, verdict, listening, freed>>

Next ==
  \/ Open
  \/ Listen
  \/ Sentence
  \/ \E p \in Pid : \/ Start(p) \/ Forget(p) \/ Hold(p)
                    \/ Judge(p) \/ Leave(p) \/ Executed(p)

Spec == Init /\ [][Next]_vars
=============================================================================
