---------------------------- MODULE SessionSpec ----------------------------
(***************************************************************************)
(* What a session promises its user (crates/kstep/src/session.rs): the     *)
(* commands are carried out one at a time, in the order they were given,   *)
(* each once, and the state read after a reply is the state that command   *)
(* left.                                                                   *)
(***************************************************************************)
EXTENDS Integers

VARIABLES
  sent,      \* commands given to the session
  done,      \* commands the driver has carried out
  answered,  \* commands whose reply the caller has
  seen       \* how many commands the state last read had seen carried out

vars == <<sent, done, answered, seen>>

Init == sent = 0 /\ done = 0 /\ answered = 0 /\ seen = 0

Send ==
  /\ answered = sent
  /\ sent' = sent + 1
  /\ UNCHANGED <<done, answered, seen>>

Execute ==
  /\ done < sent
  /\ done' = done + 1
  /\ UNCHANGED <<sent, answered, seen>>

Answer ==
  /\ answered < done
  /\ answered' = answered + 1
  /\ UNCHANGED <<sent, done, seen>>

Observe ==
  /\ answered = sent
  /\ seen' = done
  /\ UNCHANGED <<sent, done, answered>>

Next == Send \/ Execute \/ Answer \/ Observe

Spec == Init /\ [][Next]_vars
=============================================================================
