----------------------------- MODULE MCReqQuery -----------------------------
(* Small catalogues of subscriptions for TLC. *)
EXTENDS ReqQuery, TLC

CONSTANTS e1, x, y, z, s2, s3, s4, s5, s6

Subscription(id, filters, historical, scraper) ==
    [id |-> id, filters |-> filters, historical |-> historical, scraper |-> scraper]

\* Two subscriptions of one id, so that one replaces the other; one of a second id, for
\* live events only; one whose id is too long; a scraper.
SubsOfAllKinds == {s2, s3, s4, s5, s6}
AllKinds ==
       s2 :> Subscription(x, <<{e1}, {e1}>>, TRUE, FALSE)
    @@ s3 :> Subscription(y, <<{e1}>>, FALSE, FALSE)
    @@ s4 :> Subscription(z, <<{e1}>>, TRUE, FALSE)
    @@ s5 :> Subscription(x, <<{e1}>>, TRUE, TRUE)
    @@ s6 :> Subscription(x, <<{e1}>>, TRUE, FALSE)

\* One subscription, asked for again after it was closed.
SubsInTurn == {s2}
InTurn == s2 :> Subscription(x, <<{e1}>>, TRUE, FALSE)

\* What the configurations give to Content.  TLC computes a definition once, but one that
\* stands for a constant anew at every use: hence the second names.
ContentOfAllKinds == AllKinds
ContentInTurn == InTurn

=============================================================================
