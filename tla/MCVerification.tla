--------------------------- MODULE MCVerification ---------------------------
(* A small catalogue of profiles for TLC. *)
EXTENDS Verification, TLC

CONSTANTS a, b, x, y, p1, p2, q1, n1

Profile(author, created, name) ==
    [author |-> author, metadata |-> TRUE, created_at |-> created, name |-> name]

\* One author moves from one name to another; a second one claims the first name too.
Profiles == {p1, p2, q1, n1}
FourProfiles ==
       p1 :> Profile(a, 1, x)
    @@ p2 :> Profile(a, 2, y)
    @@ q1 :> Profile(b, 1, x)
    @@ n1 :> [author |-> a, metadata |-> FALSE, created_at |-> 1, name |-> NoName]

\* One profile.
ProfileOfOne == {p1, n1}
ContentOfOne == [e \in ProfileOfOne |-> FourProfiles[e]]

\* What the configuration gives to Content: TLC computes a definition once, but one that
\* stands for a constant anew at every use.
ProfileContent == FourProfiles

=============================================================================
