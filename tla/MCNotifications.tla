-------------------------- MODULE MCNotifications --------------------------
(* What becomes of a notification that the outbox has handed over: the     *)
(* deliveries by its channels and the item in the feed, Delivery and       *)
(* NotificationFeed.  They share no state after the transaction of the     *)
(* consumer, which inserts for both: a behaviour of this module is one of  *)
(* either, and the outbox, which MCOutbox checks, is at rest.              *)
EXTENDS Outbox

CONSTANTS
  w1, w2, Delivery, Push, Token, MailBatch, MailAttempts, Slow, NoMail, NoTaken,
  InApp, Call, MaxClock, NoItem

VARIABLES
  part,
  rows, expired, mailStep, taken, inHand, halted, mailFaults, enqueued, overrun, lost, mailed, tries,
  feed, handled, clock, target, loaded, read

Mail == INSTANCE Delivery WITH
  BatchSize <- MailBatch, MaxAttempts <- MailAttempts, NoRow <- NoMail, NoClaim <- NoTaken,
  pc <- mailStep, claimed <- taken, current <- inHand, stopped <- halted, faults <- mailFaults,
  unheard <- lost

Feed == INSTANCE NotificationFeed WITH processed <- handled

ASSUME NotificationsAssumption == Mail!DeliveryAssumption /\ Feed!FeedAssumption

\* The outbox at rest needs no listener and no order.
NoListeners == [e \in Event |-> {}]
NoOrder == [e \in Event |-> 0]

mailVars ==
  <<rows, expired, mailStep, taken, inHand, halted, mailFaults, enqueued, overrun, lost, mailed, tries>>
feedVars == <<feed, handled, clock, target, loaded, read>>

EitherInit == part \in {"delivery", "feed"} /\ Init /\ Mail!Init /\ Feed!Init

EitherNext ==
  /\ UNCHANGED <<part, vars>>
  /\ \/ part = "delivery" /\ Mail!Next /\ UNCHANGED feedVars
     \/ part = "feed" /\ Feed!Next /\ UNCHANGED mailVars

\* Where nothing is enqueued the fairness of Delivery asks for nothing.
EitherSpec ==
  /\ EitherInit
  /\ [][EitherNext]_<<part, vars, mailVars, feedVars>>
  /\ part = "delivery" => Mail!Fairness

OutcomeIsTrue == Mail!OutcomeIsTrue
DeliverySettles == Mail!DeliverySettles
StampsOutliveRequests == Feed!StampsOutliveRequests
=============================================================================
