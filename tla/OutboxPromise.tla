--------------------------- MODULE OutboxPromise ---------------------------
(***************************************************************************)
(* What the outbox promises, without dispatchers, leases or retries: a     *)
(* committed event waits, its consumers handle it once each, it is         *)
(* published when all whose errors surface did, or it ends in the dead     *)
(* letter table.  One published without its dispatcher learning of it may  *)
(* be buried all the same.                                                 *)
(***************************************************************************)
CONSTANTS Event, Consumer, Listeners, Suppressed

VARIABLES
  status,   \* [subset of Event -> "pending", "published", "dead" or "gone"]
  handled,  \* <<event, consumer>> pairs whose effect is committed
  unheard   \* events published by an update whose answer was lost

\* Nobody hears of what a suppressed handler throws.
Handled(e) == \A c \in Listeners[e] \ Suppressed : <<e, c>> \in handled

Init == status = [e \in {} |-> "none"] /\ handled = {} /\ unheard = {}

\* The producer's transaction commits.
Accept(e) ==
  /\ e \notin DOMAIN status
  /\ status' = [f \in DOMAIN status \cup {e} |-> IF f = e THEN "pending" ELSE status[f]]
  /\ UNCHANGED <<handled, unheard>>

Handle(e, c) ==
  /\ e \in DOMAIN status
  /\ c \in Listeners[e]
  /\ handled' = handled \cup {<<e, c>>}
  /\ UNCHANGED <<status, unheard>>

Become(e, from, to) ==
  /\ e \in DOMAIN status
  /\ status[e] = from
  /\ status' = [status EXCEPT ![e] = to]
  /\ UNCHANGED handled

\* All whose errors surface did, and somebody listens.
Publish(e) ==
  /\ Listeners[e] # {} /\ Handled(e)
  /\ Become(e, "pending", "published")
  /\ unheard' \in {unheard, unheard \cup {e}}

\* Given up: a waiting event, or one nobody heard was published.
Bury(e) ==
  /\ Become(e, "pending", "dead") \/ (e \in unheard /\ Become(e, "published", "dead"))
  /\ UNCHANGED unheard

\* A retention purge removes any number of settled events at once.
Purge ==
  /\ \E S \in SUBSET {e \in DOMAIN status : status[e] \in {"published", "dead"}} :
       status' = [e \in DOMAIN status |-> IF e \in S THEN "gone" ELSE status[e]]
  /\ UNCHANGED <<handled, unheard>>

Next ==
  \/ \E e \in Event : Accept(e) \/ Publish(e) \/ Bury(e)
  \/ \E e \in Event, c \in Consumer : Handle(e, c)
  \/ Purge

Spec == Init /\ [][Next]_<<status, handled, unheard>>
=============================================================================
