----------------------------- MODULE AtLeastOnce -----------------------------
(***************************************************************************)
(* What durable delivery promises about each event and each sink: only     *)
(* events that were written are ever handed to a receiver, an              *)
(* acknowledgement is recorded only for an event the receiver has, and an  *)
(* acknowledged or abandoned delivery is never attempted, acknowledged or  *)
(* abandoned again.  Nothing bounds how often an open delivery is sent.    *)
(***************************************************************************)
CONSTANTS Events, Sinks, Alerts

VARIABLES written, received, acked, dead

avars == <<written, received, acked, dead>>

Open(e, s) == e \in written \ Alerts /\ <<e, s>> \notin acked \cup dead

Init ==
  /\ written = {}
  /\ received = {}
  /\ acked = {}
  /\ dead = {}

Write(e) ==
  /\ e \notin written
  /\ written' = written \cup {e}
  /\ UNCHANGED <<received, acked, dead>>

Receive(e, s) ==
  /\ Open(e, s)
  /\ received' = received \cup {<<e, s>>}
  /\ UNCHANGED <<written, acked, dead>>

Acknowledge(e, s) ==
  /\ Open(e, s)
  /\ <<e, s>> \in received
  /\ acked' = acked \cup {<<e, s>>}
  /\ UNCHANGED <<written, received, dead>>

Abandon(e, s) ==
  /\ Open(e, s)
  /\ dead' = dead \cup {<<e, s>>}
  /\ UNCHANGED <<written, received, acked>>

Next ==
  \/ \E e \in Events : Write(e)
  \/ \E e \in Events, s \in Sinks : Receive(e, s) \/ Acknowledge(e, s) \/ Abandon(e, s)

Spec == Init /\ [][Next]_avars
=============================================================================
