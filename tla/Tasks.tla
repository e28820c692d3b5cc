------------------------------- MODULE Tasks --------------------------------
(* What a context promises about its executors: each is a task that is       *)
(* running until it finishes, once and for good; a task that is started gets *)
(* an id no living task has; only the host removes one.                      *)
CONSTANT TaskIds

VARIABLE status  \* the living tasks: id -> "running" or "finished"

Init == status = [id \in {} |-> "running"]

Without(ids) == [id \in DOMAIN status \ ids |-> status[id]]

Start(id) ==
  /\ id \in TaskIds \ DOMAIN status
  /\ status' = [i \in DOMAIN status \cup {id} |-> IF i = id THEN "running" ELSE status[i]]

Finish(id) ==
  /\ id \in DOMAIN status /\ status[id] = "running"
  /\ status' = [status EXCEPT ![id] = "finished"]

Remove(ids) ==
  /\ ids \subseteq DOMAIN status
  /\ status' = Without(ids)

Next ==
  \/ \E id \in TaskIds : Start(id) \/ Finish(id) \/ Remove({id})
  \/ Remove(DOMAIN status)

Spec == Init /\ [][Next]_status
=============================================================================
