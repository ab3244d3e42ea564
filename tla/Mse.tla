---------------------------------- MODULE Mse ----------------------------------
(***************************************************************************)
(* Setting up one connection: the encryption handshake of mse.py, as       *)
(* PeerConnection.connect drives it on the dialling side A (peer.py) and   *)
(* Client._handle_incoming on the answering side B (client.py), with the   *)
(* BitTorrent handshake that follows.  A stream carries tokens, the units  *)
(* the code reads; a token that was enciphered can be read only with the   *)
(* same cipher.  A is this program or any other one that speaks MSE.       *)
(***************************************************************************)
EXTENDS Naturals, Sequences

CONSTANTS Hashes,      \* info hashes of torrents
          Initiators   \* subset of {"aiobt", "foreign"}: who dials

ASSUME MseAssumption == Initiators \subseteq {"aiobt", "foreign"}

Modes    == {"plain", "rc4"}
Policies == {"DISABLED", "PREFERRED", "FORCED"}

VARIABLES
    setup,     \* what both sides bring to the connection, fixed
    sessions,  \* torrents registered at B
    lookup,    \* B: the info hashes mse_receive may match, copied when it starts
    pcA, pcB,  \* where the coroutine of each side waits
    modeA, modeB, \* the mode of the stream each side has built
    hashB,     \* B: the torrents its handshake may be for
    toA, toB,  \* bytes on their way
    closed,    \* sides whose transport is closed
    faulted    \* an early timeout, a broken connection or a removal interfered

sideA  == <<pcA, modeA>>
sideB  == <<lookup, pcB, modeB, hashB>>
vars   == <<setup, sessions, sideA, sideB, toA, toB, closed, faulted>>

\* The modes a policy accepts (mse.py:33-43).
Accepts(policy) == CASE policy = "DISABLED"  -> {"plain"}
                     [] policy = "PREFERRED" -> Modes
                     [] policy = "FORCED"    -> {"rc4"}

\* Whether A starts with MSE or with the plain handshake.
UsesMse(s) == s.who = "foreign" \/ s.policyA # "DISABLED"

Setups ==
    {s \in [who : Initiators, policyA : Policies, policyB : Policies, hash : Hashes,
            offer : SUBSET Modes, early : {"no", "inside", "behind"}, key19 : BOOLEAN] :
       /\ s.offer # {}
       /\ s.who = "aiobt" => s.offer = Accepts(s.policyA) /\ s.early = "no"
       /\ s.who = "foreign" => s.policyA = "PREFERRED"
       \* payload behind the offer has to be in the only mode that is offered
       /\ s.early = "behind" => s.offer # Modes}

\* A selection names one mode; an offer may name several.
Tokens == {t \in [what : {"key", "pad", "offer", "select", "hs", "msg"}, mode : Modes,
                  hash : Hashes, crypto : SUBSET Modes] :
             t.what = "select" => \E m \in Modes : t.crypto = {m}}

Token(w, m, c) == [what |-> w, mode |-> m, hash |-> setup.hash, crypto |-> c]
Key       == Token("key", "plain", {})
Pad       == Token("pad", "plain", {})
Offer     == Token("offer", "rc4", setup.offer)
\* Mutant: B selects every mode there is.
SelectFlag(m) == Token("select", "rc4", Modes)

Select(m) == Token("select", "rc4", {m})
Hs(m)     == Token("hs", m, {})
Msg(m)    == Token("msg", m, {})

\* Padding has a random length, zero included.
Padded(t) == {<<t>>, <<t, Pad>>}

TypeOK ==
    /\ setup \in Setups
    /\ sessions \in SUBSET Hashes /\ lookup \in SUBSET Hashes /\ hashB \in SUBSET Hashes
    /\ pcA \in {"dial", "key", "vc", "hs", "open", "failed"}
    /\ pcB \in {"idle", "first", "key", "offer", "hs", "open", "failed"}
    /\ modeA \in Modes /\ modeB \in Modes
    /\ toA \in Seq(Tokens) /\ toB \in Seq(Tokens)
    /\ closed \in SUBSET {"A", "B"}
    /\ faulted \in BOOLEAN

Init ==
    /\ setup \in Setups
    /\ sessions \in SUBSET Hashes
    /\ lookup = {} /\ hashB = {}
    /\ pcA = "dial" /\ pcB = "idle"
    /\ modeA = "plain" /\ modeB = "plain"
    /\ toA = <<>> /\ toB = <<>>
    /\ closed = {}
    /\ faulted = FALSE

-----------------------------------------------------------------------------
(* Side A: PeerConnection.connect *)

\* Bytes written reach a side that has not closed.
ToB(ts) == toB' = IF "B" \in closed THEN toB ELSE toB \o ts
ToA(ts) == toA' = IF "A" \in closed THEN toA ELSE toA \o ts

\* The TCP connection is made; the first bytes depend on the policy.
Dial ==
    /\ pcA = "dial"
    /\ pcB' = "first"
    /\ IF UsesMse(setup) THEN \E ts \in Padded(Key) : ToB(ts) /\ pcA' = "key"
                         ELSE ToB(<<Hs("plain")>>) /\ pcA' = "hs"
    /\ UNCHANGED <<setup, sessions, lookup, modeA, modeB, hashB, toA, closed, faulted>>

\* mse_initiate has raised: FORCED closes and gives up, PREFERRED goes on in
\* plaintext on the same streams.
Declined ==
    IF setup.who = "aiobt" /\ setup.policyA = "PREFERRED"
    THEN /\ ToB(<<Hs("plain")>>)
         /\ pcA' = "hs"
         /\ UNCHANGED closed
    ELSE /\ pcA' = "failed"
         /\ closed' = closed \cup {"A"}
         /\ UNCHANGED toB

\* A's next token, and the end of its stream.
NextA(w) == toA # <<>> /\ Head(toA).what = w /\ toA' = Tail(toA)
EndOfA   == toA = <<>> /\ "B" \in closed

\* B's public key: the secret is known, the offer goes out.
ReadKeyA ==
    /\ pcA = "key" /\ NextA("key")
    /\ pcA' = "vc"
    /\ ToB(<<Offer>> \o IF setup.early = "behind"
                        THEN <<Hs(CHOOSE m \in setup.offer : TRUE)>> ELSE <<>>)
    /\ UNCHANGED <<setup, sessions, modeA, sideB, closed, faulted>>

\* The scan for the verification constant skips B's padding.
SkipPadA ==
    /\ pcA = "vc" /\ NextA("pad")
    /\ UNCHANGED <<setup, sessions, sideA, sideB, toB, closed, faulted>>

\* B's selection: the stream is built, and the BitTorrent handshake sent on it.
ReadSelect(m) ==
    /\ pcA = "vc" /\ NextA("select")
    /\ m \in Head(toA).crypto
    /\ IF m \in setup.offer
       THEN /\ modeA' = m
            /\ pcA' = "hs"
            /\ ToB(IF setup.early = "no" THEN <<Hs(m)>> ELSE <<>>)
            /\ UNCHANGED closed
       ELSE Declined /\ UNCHANGED modeA
    /\ UNCHANGED <<setup, sessions, sideB, faulted>>

\* The stream ended before the MSE handshake did.
MseEndA ==
    /\ pcA \in {"key", "vc"} /\ EndOfA
    /\ Declined
    /\ UNCHANGED <<setup, sessions, modeA, sideB, toA, faulted>>

\* A timer that fires while something is still on its way interferes; one that
\* ends a wait for nothing does not.
Timer == faulted' = (faulted \/ toA # <<>> \/ toB # <<>>)

\* wait_for gave up on it.
MseTimeoutA ==
    /\ pcA \in {"key", "vc"}
    /\ Declined
    /\ Timer
    /\ UNCHANGED <<setup, sessions, modeA, sideB, toA>>

\* _receive_handshake: B's handshake, read with the stream A has.  The engine
\* then sends its first message.
ReadHandshakeA ==
    /\ pcA = "hs" /\ NextA("hs") /\ Head(toA).mode = modeA
    /\ IF Head(toA).hash = setup.hash
       THEN pcA' = "open" /\ ToB(<<Msg(modeA)>>) /\ UNCHANGED closed
       ELSE pcA' = "failed" /\ closed' = closed \cup {"A"} /\ UNCHANGED toB
    /\ UNCHANGED <<setup, sessions, modeA, sideB, faulted>>

\* Something else arrives, or nothing more: connect raises, and leaves the
\* transport open.
BadHandshakeA ==
    /\ pcA = "hs"
    /\ \/ EndOfA
       \/ toA # <<>> /\ (Head(toA).what # "hs" \/ Head(toA).mode # modeA)
    /\ pcA' = "failed"
    /\ UNCHANGED <<setup, sessions, modeA, sideB, toA, toB, closed, faulted>>

-----------------------------------------------------------------------------
(* Side B: Client._handle_incoming *)

NextB(w) == toB # <<>> /\ Head(toB).what = w /\ toB' = Tail(toB)
EndOfB   == toB = <<>> /\ "A" \in closed

\* Mutant: an error path leaves the transport open.
RejectedOpen == pcB' = "failed" /\ UNCHANGED closed

\* Every error path of B closes the transport.
Rejected == pcB' = "failed" /\ closed' = closed \cup {"B"}

\* Mutant: every first byte is taken for a handshake.
LooksPlainAlways(t) == t.what \in {"hs", "key"}

\* The first byte is 19 for a handshake, and by chance for a public key.
LooksPlain(t) == t.what = "hs" \/ (t.what = "key" /\ setup.key19)

\* The first byte says MSE, and the policy allows it.
FirstByteMse ==
    /\ pcB = "first" /\ toB # <<>>
    /\ ~LooksPlain(Head(toB)) /\ setup.policyB # "DISABLED"
    /\ lookup' = sessions
    /\ pcB' = "key"
    /\ UNCHANGED <<setup, sessions, sideA, modeB, hashB, toA, toB, closed, faulted>>

\* Mutant: FORCED is not enforced on the plain path.
PlainUnforced ==
    /\ pcB = "first" /\ toB # <<>>
    /\ LooksPlain(Head(toB)) \/ setup.policyB = "DISABLED"
    /\ toB' = Tail(toB)
    /\ IF Head(toB).what = "hs" /\ Head(toB).hash \in sessions
       THEN pcB' = "open" /\ ToA(<<Hs("plain"), Msg("plain")>>) /\ UNCHANGED closed
       ELSE Rejected /\ UNCHANGED toA
    /\ UNCHANGED <<setup, sessions, sideA, lookup, modeB, hashB, faulted>>

\* The plain path: read the handshake, find the session, refuse if FORCED,
\* answer, and let the engine send its first message.
FirstBytePlain ==
    /\ pcB = "first" /\ toB # <<>>
    /\ LooksPlain(Head(toB)) \/ setup.policyB = "DISABLED"
    /\ toB' = Tail(toB)
    /\ IF /\ Head(toB).what = "hs"
          /\ Head(toB).hash \in sessions
          /\ setup.policyB # "FORCED"
       THEN pcB' = "open" /\ ToA(<<Hs("plain"), Msg("plain")>>) /\ UNCHANGED closed
       ELSE Rejected /\ UNCHANGED toA
    /\ UNCHANGED <<setup, sessions, sideA, lookup, modeB, hashB, faulted>>

\* A's public key: answer with ours.
ReadKeyB ==
    /\ pcB = "key" /\ NextB("key")
    /\ \E ts \in Padded(Key) : ToA(ts)
    /\ pcB' = "offer"
    /\ UNCHANGED <<setup, sessions, sideA, lookup, modeB, hashB, closed, faulted>>

\* The scan for HASH('req1', S) skips A's padding, and anything else.
SkipPadB ==
    /\ pcB = "offer" /\ toB # <<>> /\ Head(toB).what # "offer"
    /\ toB' = Tail(toB)
    /\ UNCHANGED <<setup, sessions, sideA, sideB, toA, closed, faulted>>

\* What B selects from an offer; nothing if its policy accepts none of it.
Selections(offer) ==
    LET common == offer \cap Accepts(setup.policyB)
    IN  IF "rc4" \in common THEN {"rc4"} ELSE common

\* A's offer: match the hash, select, answer.  Payload inside the offer is
\* dropped; so is what came in one chunk with it if plaintext is selected.
\* The session is looked up again.
ReadOffer ==
    LET matched  == {setup.hash} \cap lookup
        selected == Selections(Head(toB).crypto)
    IN  /\ pcB = "offer" /\ toB # <<>> /\ Head(toB).what = "offer"
        /\ \/ toB' = Tail(toB)
           \/ modeB' = "plain" /\ toB' = <<>>
        /\ IF matched = {} \/ selected = {}
           THEN Rejected /\ UNCHANGED <<hashB, toA>> /\ modeB' = modeB
           ELSE /\ modeB' \in selected
                /\ hashB' = matched
                /\ ToA(<<Select(modeB')>>)
                /\ IF matched \subseteq sessions THEN pcB' = "hs" /\ UNCHANGED closed
                                                 ELSE Rejected
        /\ UNCHANGED <<setup, sessions, sideA, lookup, faulted>>

\* The handshake over the stream that was negotiated: no timeout guards it.
ReadHandshakeB ==
    /\ pcB = "hs" /\ NextB("hs") /\ Head(toB).mode = modeB
    /\ IF Head(toB).hash \in hashB
       THEN pcB' = "open" /\ ToA(<<Hs(modeB), Msg(modeB)>>) /\ UNCHANGED closed
       ELSE Rejected /\ UNCHANGED toA
    /\ UNCHANGED <<setup, sessions, sideA, lookup, modeB, hashB, faulted>>

\* Bytes that are no handshake, or the end of the stream.
BadHandshakeB ==
    /\ \/ pcB \in {"first", "key", "offer", "hs"} /\ EndOfB
       \/ /\ pcB = "hs" /\ toB # <<>>
          /\ Head(toB).what # "hs" \/ Head(toB).mode # modeB
    /\ Rejected
    /\ UNCHANGED <<setup, sessions, sideA, lookup, modeB, hashB, toA, toB, faulted>>

\* The reads before and during the MSE handshake give up after ten seconds.
TimeoutB ==
    /\ pcB \in {"first", "key", "offer"}
    /\ Rejected
    /\ Timer
    /\ UNCHANGED <<setup, sessions, sideA, lookup, modeB, hashB, toA, toB>>

-----------------------------------------------------------------------------
(* What both sides do once open, and what happens to them *)

\* A message is read by the engine of a side that is open.
ReadMessage ==
    /\ \/ pcA = "open" /\ NextA("msg") /\ UNCHANGED toB
       \/ pcB = "open" /\ NextB("msg") /\ UNCHANGED toA
    /\ UNCHANGED <<setup, sessions, sideA, sideB, closed, faulted>>

\* The connection breaks: what was on its way is lost.
Reset ==
    /\ pcB # "idle" /\ closed # {"A", "B"}
    /\ closed' = {"A", "B"}
    /\ toA' = <<>> /\ toB' = <<>>
    /\ faulted' = TRUE
    /\ UNCHANGED <<setup, sessions, sideA, sideB>>

\* The torrent is removed at B while the handshake goes on.
RemoveTorrent ==
    /\ setup.hash \in sessions
    /\ sessions' = sessions \ {setup.hash}
    /\ faulted' = TRUE
    /\ UNCHANGED <<setup, sideA, sideB, toA, toB, closed>>

StepA == \/ Dial \/ ReadKeyA \/ SkipPadA \/ MseEndA \/ ReadHandshakeA \/ BadHandshakeA
         \/ \E m \in Modes : ReadSelect(m)
StepB == \/ FirstByteMse \/ FirstBytePlain \/ ReadKeyB \/ SkipPadB \/ ReadOffer
         \/ ReadHandshakeB \/ BadHandshakeB

Next == StepA \/ StepB \/ ReadMessage \/ MseTimeoutA \/ TimeoutB \/ Reset \/ RemoveTorrent

Spec == Init /\ [][Next]_vars

\* The event loop runs a coroutine whose bytes have arrived, and timers fire.
FairSpec == /\ Spec
            /\ WF_vars(StepA) /\ WF_vars(StepB) /\ WF_vars(ReadMessage)
            /\ WF_vars(MseTimeoutA) /\ WF_vars(TimeoutB)

-----------------------------------------------------------------------------
(* Properties *)

\* Whatever happens, the connection is one both policies allow, in one mode,
\* and the dialling side is up only if the answering side is.
Outcome(pc, mode) == CASE pc = "open"   -> mode
                       [] pc = "failed" -> "failed"
                       [] OTHER         -> "pending"
AcceptsA(s) == IF s.who = "foreign" THEN s.offer ELSE Accepts(s.policyA)
Agreement == INSTANCE Channel WITH
                allowed  <- AcceptsA(setup) \cap Accepts(setup.policyB),
                dialler  <- Outcome(pcA, modeA),
                answerer <- Outcome(pcB, modeB)
Implements == Agreement!Spec

\* Every attempt between two instances of this program ends on both sides,
\* although the reads of the BitTorrent handshake after MSE have no timeout
\* (peer.py:200, client.py:1105): none waits for the other forever.
EveryAttemptEnds ==
    setup.who = "aiobt" =>
        <>(pcA \in {"open", "failed"} /\ pcB \in {"open", "failed"})

\* Policies with a mode in common connect, if nothing interferes, the torrent
\* is known and the first byte does not mislead B.  A DISABLED listener is the
\* exception: it reads a public key as a handshake (client.py:1058).
Compatible ==
    /\ setup.who = "aiobt"
    /\ Accepts(setup.policyA) \cap Accepts(setup.policyB) # {}
    /\ setup.hash \in sessions
    /\ UsesMse(setup) => setup.policyB # "DISABLED" /\ ~setup.key19
CompatibleConnects == Compatible => <>(faulted \/ (pcA = "open" /\ pcB = "open"))
=============================================================================
