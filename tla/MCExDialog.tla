----------------------------- MODULE MCExDialog -----------------------------
(* Small instances of ExDialog. *)
EXTENDS ExDialog

Call(chn, expires, n, m, k) == [chain |-> chn, se |-> expires, requests |-> n, moves |-> m, challenges |-> k]

\* Two proxies with ";lr", or none.
SomeCalls == {Call(<<"p1", "p2">>, "bare", 2, 0, 1), Call(<<"p1", "p2">>, "bare", 1, 1, 1),
              Call(<<"p1">>, "bare", 2, 1, 0), Call(<<>>, "none", 2, 0, 1)}

\* Two proxies, the first without ";lr".
StrictCalls == {Call(<<"s", "p2">>, "none", 2, 0, 1)}

=============================================================================
