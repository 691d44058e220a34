------------------------------ MODULE NdService ------------------------------
(***************************************************************************)
(* What NdStartup, NdCleanup and the calls between them promise to callers *)
(* that pair them: the framework is there exactly as long as somebody has  *)
(* started it, and nobody is in a call of a framework that is gone.  Once  *)
(* a caller has used what it never started, nothing is promised.           *)
(***************************************************************************)
CONSTANT Threads

VARIABLES
  users,     \* threads whose NdStartup succeeded and that have not cleaned up
  working,   \* threads inside a call of the framework
  service,   \* "up" while there is an initialised framework
  paired     \* no caller has broken the rule

vars == <<users, working, service, paired>>

Init == users = {} /\ working = {} /\ service = "down" /\ paired = TRUE

Start(t) ==
  /\ t \notin users
  /\ users' = users \cup {t} /\ service' = "up"
  /\ UNCHANGED <<working, paired>>

Stop(t) ==
  /\ t \in users \ working
  /\ users' = users \ {t}
  /\ service' = IF users' = {} THEN "down" ELSE "up"
  /\ UNCHANGED <<working, paired>>

Enter(t) ==
  /\ t \in users \ working /\ service = "up"
  /\ working' = working \cup {t}
  /\ UNCHANGED <<users, service, paired>>

Leave(t) ==
  /\ t \in working
  /\ working' = working \ {t}
  /\ UNCHANGED <<users, service, paired>>

(* From the step that breaks the rule on, anything may happen. *)
Broken == paired' = FALSE

Next == Broken \/ \E t \in Threads : Start(t) \/ Stop(t) \/ Enter(t) \/ Leave(t)
Spec == Init /\ [][Next]_vars
==============================================================================
