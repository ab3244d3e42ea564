------------------------------ MODULE Choking ------------------------------
(***************************************************************************)
(* The upload side of one torrent session: the ChokingManager task         *)
(* (choking.py), the Interested, NotInterested and Request handlers of the *)
(* run_peer coroutines (engine.py), the registration of connections with   *)
(* the manager and its start and stop (client.py).                         *)
(*                                                                         *)
(* A step is the code between two awaits.  The manager suspends while it   *)
(* sends a Choke or Unchoke and while it waits for the next round; a peer's*)
(* coroutine suspends while it reads a requested block from the storage.   *)
(* am_choking is set before its message is written, and the write itself   *)
(* never waits, so what the peer was told last is am_choking.              *)
(*                                                                         *)
(* Abstractions.  Connections are told apart from addresses: the manager's *)
(* dict has one entry per address.  Interval byte counters count messages  *)
(* up to MaxBytes.  A message that a coroutine does not read now is read   *)
(* later.  The time of day is the expiry of the rechoke timer.  The dict   *)
(* keeps its entries in insertion order and is not compacted while a round *)
(* iterates over it.                                                       *)
(***************************************************************************)
EXTENDS Naturals, FiniteSets, SequencesExt

CONSTANTS Conns,            \* connections
          AddrOf,           \* the address a connection is registered under
          Traits,           \* what each remote peer may do, see TraitNames
          MaxUnchoked,      \* max_unchoked
          OptimisticEvery,  \* rounds between two rotations
          MaxBytes,         \* bound on an interval counter
          MayStop,          \* the user may stop and start the torrent
          None              \* no address, no connection

(***************************************************************************)
(* What a remote peer may do beyond connecting and becoming interested:    *)
(*   leaves   its connection breaks or is closed                           *)
(*   fickle   it loses interest, or repeats itself                         *)
(*   sends    it sends us blocks                                           *)
(*   asks     it requests blocks                                           *)
(***************************************************************************)
TraitNames == {"leaves", "fickle", "sends", "asks"}

Addrs == {AddrOf[c] : c \in Conns}

ASSUME ChokingAssumption ==
    /\ IsFiniteSet(Conns)
    /\ None \notin Conns \cup Addrs
    /\ Traits \in [Conns -> SUBSET TraitNames]
    /\ MaxUnchoked \in Nat
    /\ OptimisticEvery \in Nat \ {0}
    /\ MaxBytes \in Nat
    /\ MayStop \in BOOLEAN

VARIABLES
    link,        \* "out", "dialing", "up" (is_connected) or "closing"
    interested,  \* PeerRates.peer_interested
    amChoking,   \* PeerRates.am_choking
    down, up,    \* PeerRates.bytes_down_interval and bytes_up_interval
    serving,     \* the coroutine is reading a requested block
    entries,     \* _rates.items(), in order
    optimistic,  \* _optimistic_addr
    ticks,       \* _ticks_since_optimistic
    wake,        \* _wake_event is set
    seeding,     \* _is_seeding
    complete,    \* tracker.is_complete
    phase,       \* where the choking task is, see Phases
    granted,     \* to_unchoke of the last round that chose one
    rest,        \* entries the round's iterator has not reached
    size,        \* the size of the dict when its iterator was made
    left,        \* entries that iterator will still yield
    sendTo,      \* the connection whose Choke or Unchoke is in drain()
    unseen       \* interest has changed since the last round looked at it

peers   == <<link, interested, amChoking, down, up, serving>>
round   == <<phase, granted, rest, size, left, sendTo>>
manager == <<entries, optimistic, ticks, wake, seeding>>
vars    == <<peers, round, manager, complete, unseen>>

(***************************************************************************)
(* "off" no task; "due" a round is about to begin; "sending" suspended in  *)
(* a send; "waiting" for the timer, a wake or the stop; "dead" the task    *)
(* ended with a RuntimeError.                                              *)
(***************************************************************************)
Phases == {"off", "due", "sending", "waiting", "dead"}

\* At most one entry per address.
OnePerAddress(s) == \A i, j \in DOMAIN s : AddrOf[s[i]] = AddrOf[s[j]] => i = j

TypeOK ==
    /\ link \in [Conns -> {"out", "dialing", "up", "closing"}]
    /\ interested \in [Conns -> BOOLEAN]
    /\ amChoking \in [Conns -> BOOLEAN]
    /\ down \in [Conns -> 0 .. MaxBytes]
    /\ up \in [Conns -> 0 .. MaxBytes]
    /\ serving \in [Conns -> BOOLEAN]
    /\ entries \in Seq(Conns) /\ OnePerAddress(entries)
    /\ optimistic \in Addrs \cup {None}
    /\ ticks \in 0 .. OptimisticEvery - 1
    /\ wake \in BOOLEAN
    /\ seeding \in BOOLEAN
    /\ complete \in BOOLEAN
    /\ phase \in Phases
    /\ granted \subseteq Addrs
    /\ rest \in Seq(Conns)
    /\ size \in Nat
    /\ left \in 0 .. size
    /\ sendTo \in Conns \cup {None}
    /\ unseen \in BOOLEAN

Init ==
    /\ link = [c \in Conns |-> "out"]
    /\ interested = [c \in Conns |-> FALSE]
    /\ amChoking = [c \in Conns |-> TRUE]
    /\ down = [c \in Conns |-> 0] /\ up = [c \in Conns |-> 0]
    /\ serving = [c \in Conns |-> FALSE]
    /\ entries = <<>> /\ optimistic = None /\ ticks = 0 /\ wake = FALSE
    /\ seeding = FALSE /\ complete = FALSE
    /\ phase = "off" /\ granted = {} /\ rest = <<>> /\ size = 0 /\ left = 0
    /\ sendTo = None
    /\ unseen = FALSE

-----------------------------------------------------------------------------
(* The dict: one entry per address, in the order the addresses came. *)

\* The place of an address in s, 0 when it has none.
PlaceOf(s, a) == SelectInSeq(s, LAMBDA d : AddrOf[d] = a)

Registered(a) == PlaceOf(entries, a) # 0

\* Assigning to a key that is there keeps its place.
Replaced(s, c) ==
    LET i == PlaceOf(s, AddrOf[c]) IN IF i = 0 THEN s ELSE [s EXCEPT ![i] = c]

Without(s, a) == LET i == PlaceOf(s, a) IN IF i = 0 THEN s ELSE RemoveAt(s, i)

-----------------------------------------------------------------------------
(* Connections, client.py. *)

\* add_peer: an address that is connected is not dialed again.
Dial(c) ==
    /\ link[c] = "out" /\ ~Registered(AddrOf[c])
    /\ link' = [link EXCEPT ![c] = "dialing"]
    /\ UNCHANGED <<interested, amChoking, down, up, serving, round, manager,
                   complete, unseen>>

\* The connection is made: a fresh PeerRates, in the entry of its address.
Register(c) ==
    /\ link[c] = "dialing"
    /\ link' = [link EXCEPT ![c] = "up"]
    /\ interested' = [interested EXCEPT ![c] = FALSE]
    /\ amChoking' = [amChoking EXCEPT ![c] = TRUE]
    /\ down' = [down EXCEPT ![c] = 0] /\ up' = [up EXCEPT ![c] = 0]
    /\ IF Registered(AddrOf[c])
       THEN entries' = Replaced(entries, c) /\ rest' = Replaced(rest, c)
       ELSE /\ entries' = Append(entries, c)
            /\ rest' = IF phase = "sending" THEN Append(rest, c) ELSE rest
    /\ UNCHANGED <<serving, phase, granted, size, left, sendTo, optimistic,
                   ticks, wake, seeding, complete, unseen>>

\* The transport closes, before the coroutine has noticed.
Close(c) ==
    /\ "leaves" \in Traits[c] /\ link[c] = "up"
    /\ link' = [link EXCEPT ![c] = "closing"]
    /\ UNCHANGED <<interested, amChoking, down, up, serving, round, manager,
                   complete, unseen>>

\* The connection cannot be made: add_peer returns.
DialFails(c) ==
    /\ link[c] = "dialing"
    /\ link' = [link EXCEPT ![c] = "out"]
    /\ UNCHANGED <<interested, amChoking, down, up, serving, round, manager,
                   complete, unseen>>

\* Mutant: the optimistic slot outlives its connection.
Remembered(a) == optimistic

\* unregister: whatever is registered under the address goes.
Forgotten(a) == IF optimistic = a THEN None ELSE optimistic

\* The coroutine ends: the finally of _run_peer_wrapper.
Unregister(c) ==
    /\ link[c] = "closing"
    /\ link' = [link EXCEPT ![c] = "out"]
    /\ serving' = [serving EXCEPT ![c] = FALSE]
    /\ entries' = Without(entries, AddrOf[c])
    /\ rest' = Without(rest, AddrOf[c])
    /\ optimistic' = Forgotten(AddrOf[c])
    /\ UNCHANGED <<interested, amChoking, down, up, phase, granted, size, left,
                   sendTo, ticks, wake, seeding, complete, unseen>>

-----------------------------------------------------------------------------
(* Messages of a peer, engine.py. *)

Listening(c) == link[c] = "up" /\ ~serving[c]

\* Interested and NotInterested.
RecvInterest(c, b) ==
    /\ Listening(c)
    /\ "fickle" \in Traits[c] \/ (b /\ ~interested[c])
    /\ interested' = [interested EXCEPT ![c] = b]
    /\ wake' = TRUE
    /\ unseen' = (unseen \/ b # interested[c])
    /\ UNCHANGED <<link, amChoking, down, up, serving, round, entries, optimistic,
                   ticks, seeding, complete>>

\* A block of the piece we asked for.
RecvBlock(c) ==
    /\ "sends" \in Traits[c] /\ Listening(c) /\ down[c] < MaxBytes
    /\ down' = [down EXCEPT ![c] = @ + 1]
    /\ UNCHANGED <<link, interested, amChoking, up, serving, round, manager,
                   complete, unseen>>

\* A Request, up to the storage read; a peer we choke is ignored.
RecvRequest(c) ==
    /\ "asks" \in Traits[c] /\ Listening(c) /\ ~amChoking[c]
    /\ serving' = [serving EXCEPT ![c] = TRUE]
    /\ UNCHANGED <<link, interested, amChoking, down, up, round, manager,
                   complete, unseen>>

\* The rest of the Request handler: the block is sent and counted.
SendBlock(c) ==
    /\ serving[c] /\ link[c] = "up"
    /\ serving' = [serving EXCEPT ![c] = FALSE]
    /\ up' = [up EXCEPT ![c] = IF @ < MaxBytes THEN @ + 1 ELSE @]
    /\ UNCHANGED <<link, interested, amChoking, down, round, manager, complete,
                   unseen>>

\* The last missing piece is verified.
Complete ==
    /\ ~complete
    /\ complete' = TRUE
    /\ UNCHANGED <<peers, round, manager, unseen>>

-----------------------------------------------------------------------------
(* Start and stop, client.py. *)

\* start(): the manager learns whether the torrent is complete.
Start ==
    /\ phase = "off"
    /\ phase' = "due"
    /\ seeding' = (seeding \/ complete)
    /\ UNCHANGED <<peers, granted, rest, size, left, sendTo, entries, optimistic,
                   ticks, wake, complete, unseen>>

\* stop(): the task is cancelled wherever it is suspended.
Stop ==
    /\ MayStop /\ phase # "off"
    /\ phase' = "off" /\ rest' = <<>> /\ size' = 0 /\ left' = 0 /\ sendTo' = None
    /\ UNCHANGED <<peers, granted, manager, complete, unseen>>

-----------------------------------------------------------------------------
(* A round: _rechoke, choking.py. *)

\* Interested and connected entries.
Candidates == {c \in ToSet(entries) : interested[c] /\ link[c] = "up"}

Rate(c) == IF seeding THEN up[c] ELSE down[c]

\* The stable sort by descending rate.
Outranks(c, d) ==
    \/ Rate(c) > Rate(d)
    \/ /\ Rate(c) = Rate(d)
       /\ PlaceOf(entries, AddrOf[c]) < PlaceOf(entries, AddrOf[d])

\* Mutant: one slot too many.
IsWiderTop(S) ==
    /\ Cardinality(S) <= MaxUnchoked + 1
    /\ S = Candidates \/ Cardinality(S) = MaxUnchoked + 1
    /\ \A c \in S, d \in Candidates \ S : Outranks(c, d)

\* The first MaxUnchoked candidates, all of them when they are fewer.
IsTop(S) ==
    /\ Cardinality(S) <= MaxUnchoked
    /\ S = Candidates \/ Cardinality(S) = MaxUnchoked
    /\ \A c \in S, d \in Candidates \ S : Outranks(c, d)

\* Mutant: the optimistic peer keeps its slot as long as it stays.
StickyChoices(top, rotates) ==
    IF ~rotates \/ optimistic # None THEN {optimistic}
    ELSE IF Candidates = top THEN {None}
    ELSE {AddrOf[c] : c \in Candidates \ top}

\* The optimistic peers a round may come to: a random one outside the top when
\* it rotates, the one there is otherwise.
OptimisticChoices(top, rotates) ==
    IF ~rotates THEN {optimistic}
    ELSE IF Candidates = top THEN {None}
    ELSE {AddrOf[c] : c \in Candidates \ top}

Rotates == ticks + 1 >= OptimisticEvery

\* Mutant: the count of rounds is not reset.
TicksKept == ticks + 1

Ticked == IF Rotates THEN 0 ELSE ticks + 1

\* Mutant: only interested peers are choked.
TurnedInterested(c, g) ==
    /\ link[c] = "up" /\ amChoking[c] = (AddrOf[c] \in g)
    /\ interested[c]

\* An entry that the loop sends a Choke or an Unchoke to: should_unchoke and
\* am_choking, or neither.
Turned(c, g) == link[c] = "up" /\ amChoking[c] = (AddrOf[c] \in g)

\* After a round the counters start again and wakes made so far are cleared.
Settle ==
    /\ phase' = "waiting" /\ rest' = <<>> /\ size' = 0 /\ left' = 0 /\ sendTo' = None
    /\ down' = [c \in Conns |-> IF c \in ToSet(entries) THEN 0 ELSE down[c]]
    /\ up' = [c \in Conns |-> IF c \in ToSet(entries) THEN 0 ELSE up[c]]
    /\ wake' = FALSE
    /\ UNCHANGED amChoking

\* "dictionary changed size during iteration" ends the task.
Die ==
    /\ phase' = "dead" /\ rest' = <<>> /\ size' = 0 /\ left' = 0 /\ sendTo' = None
    /\ UNCHANGED <<down, up, amChoking, wake>>

\* The place of the first of the next n entries of s to be sent a message, or 0.
FirstTurned(s, n, g) ==
    LET reach == SubSeq(s, 1, IF n < Len(s) THEN n ELSE Len(s))
    IN SelectInSeq(reach, LAMBDA c : Turned(c, g))

\* The loop sends the message at place i of s and suspends.
Turn(s, n, i, total) ==
    /\ phase' = "sending" /\ sendTo' = s[i] /\ size' = total
    /\ rest' = SubSeq(s, i + 1, Len(s)) /\ left' = n - i
    /\ amChoking' = [amChoking EXCEPT ![s[i]] = ~@]
    /\ UNCHANGED <<down, up, wake>>

\* The loop from the entries of s on, with n of the total entries to yield: up
\* to the next message, or to the end.
Visit(s, n, g, total) ==
    LET i == FirstTurned(s, n, g)
    IN \/ i # 0 /\ Turn(s, n, i, total)
       \/ i = 0 /\ Len(s) > n /\ Die
       \/ i = 0 /\ Len(s) <= n /\ Settle

\* Mutant: only wake() ends the wait.
BeginsWhenWoken(timer) ==
    /\ phase = "due" \/ (phase = "waiting" /\ wake)
    /\ ticks' = Ticked
    /\ unseen' = FALSE

\* What begins a round: the task is new, the timer expires or wake() was called.
Begins(timer) ==
    /\ phase = "due" \/ (phase = "waiting" /\ (timer \/ wake))
    /\ ticks' = Ticked
    /\ unseen' = FALSE

\* Nobody is interested: the early return.
IdleRound(timer) ==
    /\ Begins(timer) /\ Candidates = {}
    /\ phase' = "waiting" /\ wake' = FALSE
    /\ UNCHANGED <<peers, granted, rest, size, left, sendTo, entries, optimistic,
                   seeding, complete>>

Rechoke(timer, o) ==
    /\ Begins(timer) /\ Candidates # {}
    /\ \E top \in SUBSET Candidates :
          /\ IsTop(top) /\ o \in OptimisticChoices(top, Rotates)
          /\ granted' = {AddrOf[c] : c \in top} \cup ({o} \ {None})
          /\ Visit(entries, Len(entries), granted', Len(entries))
    /\ optimistic' = o
    /\ UNCHANGED <<link, interested, serving, entries, seeding, complete>>

\* drain() returned or raised; the iterator compares the dict's size first.
Sent ==
    /\ phase = "sending"
    /\ IF Len(entries) # size THEN Die
       ELSE Visit(rest, left, granted, size)
    /\ UNCHANGED <<link, interested, serving, granted, entries, optimistic, ticks,
                   seeding, complete, unseen>>

Next ==
    \/ \E c \in Conns :
          \/ Dial(c) \/ DialFails(c) \/ Register(c) \/ Close(c) \/ Unregister(c)
          \/ \E b \in BOOLEAN : RecvInterest(c, b)
          \/ RecvBlock(c) \/ RecvRequest(c) \/ SendBlock(c)
    \/ Complete \/ Start \/ Stop \/ Sent
    \/ \E timer \in BOOLEAN :
          IdleRound(timer) \/ \E o \in Addrs \cup {None} : Rechoke(timer, o)

Spec == Init /\ [][Next]_vars

\* A message is written out or its connection breaks; the timer expires; the
\* random choice of an optimistic peer does not avoid one for ever.
TimedRound == IdleRound(TRUE) \/ \E o \in Addrs \cup {None} : Rechoke(TRUE, o)

RotateTo(c) == Rotates /\ \E timer \in BOOLEAN : Rechoke(timer, AddrOf[c])

Fairness ==
    /\ WF_vars(Sent)
    /\ WF_vars(TimedRound)
    /\ \A c \in Conns : SF_vars(RotateTo(c))

FairSpec == Spec /\ Fairness

-----------------------------------------------------------------------------
(* Safety *)

Unchoked == {c \in Conns : link[c] = "up" /\ ~amChoking[c]}

\* choking.py:72: max_unchoked is the "Number of regular unchoke slots"; with
\* the optimistic one no more connections are unchoked between two rounds.
SlotBound == phase = "waiting" => Cardinality(Unchoked) <= MaxUnchoked + 1

\* The optimistic slot is never held for an address nobody is registered
\* under, whatever left while a round was sending (choking.py:107-111).
OptimisticIsRegistered == optimistic # None => Registered(optimistic)

\* A round that was not cut short leaves unchoked only connections it granted
\* a slot, whoever came, left, was cancelled or lost interest while it was
\* sending, and whatever an earlier stop had left half done (choking.py:205-220).
RoundIsApplied ==
    [][phase = "sending" /\ phase' = "waiting" =>
          \A c \in Unchoked : AddrOf[c] \in granted]_vars

-----------------------------------------------------------------------------
(* Liveness *)

Running == phase \notin {"off", "dead"}

\* choking.py:3: "Every *rechoke_interval* seconds (default 10)".  A round
\* that begins ends, and whatever wakes are lost the timer brings the next: a
\* change of interest is looked at as long as the task lives.
ChangesAreSeen == unseen ~> (~unseen \/ ~Running)

\* choking.py:13-15: a peer that stays interested is unchoked again and again,
\* however the others outrank it, if the task goes on.
InterestedGetTurns ==
    \A c \in Conns :
       <>[](Running /\ link[c] = "up" /\ interested[c]) => []<>~amChoking[c]

\* choking.py:6-7: "choke the rest".  A peer that has lost interest does not
\* keep its slot while another waits for one.
UninterestedYield ==
    \A c, d \in Conns :
       <>[](/\ Running /\ link[c] = "up" /\ ~interested[c]
            /\ link[d] = "up" /\ interested[d]) => []<>amChoking[c]
=============================================================================
