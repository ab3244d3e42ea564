------------------------------ MODULE MCAnnounce ------------------------------
(* The instance of Announce for TLC: a tier of three and a tier of one. *)
EXTENDS Announce

CONSTANTS h1, h2, u, w

List   == <<<<h1, u, h2>>, <<>>, <<w>>>>
NoUrl  == <<>>
Scheme1 == [x \in Urls |-> IF x = u THEN "udp" ELSE "http"]

\* h1 answers now and then; the others are of each kind in some of the cases.
Case(mh2, mu, mw) == h1 :> "flaky" @@ h2 :> mh2 @@ u :> mu @@ w :> mw
Moods1 == {Case("down", "up", "down"), Case("down", "flaky", "up"),
           Case("down", "flaky", "down"), Case("garbled", "up", "down"),
           Case("down", "garbled", "up")}
=============================================================================
