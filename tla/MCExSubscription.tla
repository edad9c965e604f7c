-------------------------- MODULE MCExSubscription --------------------------
(* A notifier that wants at least 50 seconds, two ticks and a bit. *)
EXTENDS ExSubscription
McAsks == {30, 50}

\* What StaysForBoth of ExSubscriptionProofs asks of the periods and the ticks holds here.
ASSUME McShortTicks == ShortTicks
=============================================================================
