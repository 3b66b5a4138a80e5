----------------------------- MODULE AtMostOnce -----------------------------
(***************************************************************************)
(* What the replay protection promises: a broadcast that is remembered is  *)
(* never accepted again.  Memory is lost only by whole sources (one that   *)
(* stayed silent too long, or gave up its place to a new one), all at once *)
(* on the operator's request, or by a reboot, which goes back to what was  *)
(* last made durable.                                                      *)
(***************************************************************************)
CONSTANT Message, Source, SourceOf(_), Nothing

VARIABLES seen,    \* the messages remembered as accepted
          durable, \* the messages a reboot would remember
          current  \* the message accepted and not yet passed on, or Nothing

vars == <<seen, durable, current>>

From(s) == {m \in seen : SourceOf(m) = s}

Init == seen = {} /\ durable = {} /\ current = Nothing

Accept(m) ==
    /\ current = Nothing /\ current' = m
    /\ m \notin seen
    /\ \/ seen' = seen \cup {m}
       \/ \E s \in Source \ {SourceOf(m)} : seen' = (seen \ From(s)) \cup {m}
    /\ UNCHANGED durable

PassOn == current' = Nothing /\ UNCHANGED <<seen, durable>>

ForgetSources ==
    /\ \E gone \in SUBSET Source : seen' = {m \in seen : SourceOf(m) \notin gone}
    /\ UNCHANGED <<durable, current>>

ForgetAll == seen' = {} /\ UNCHANGED <<durable, current>>

Save == durable' = seen /\ UNCHANGED <<seen, current>>

Reboot == seen' = durable /\ current' = Nothing /\ UNCHANGED durable

Next ==
    \/ \E m \in Message : Accept(m)
    \/ PassOn
    \/ ForgetSources \/ ForgetAll \/ Save \/ Reboot

Spec == Init /\ [][Next]_vars
=============================================================================
