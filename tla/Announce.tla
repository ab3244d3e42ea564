-------------------------------- MODULE Announce --------------------------------
(***************************************************************************)
(* Announcing a torrent: do_announce of client.py, which goes through the  *)
(* tiers of trackers until one answers, and the HTTP and UDP announces of  *)
(* tracker.py below it.  Several calls run at once for one torrent (its    *)
(* user's, and the one stop() makes); they share the tiers and change them *)
(* while the others go through them.  UDP datagrams are lost, duplicated   *)
(* and late.                                                               *)
(***************************************************************************)
EXTENDS Naturals, Sequences, SequencesExt

CONSTANTS
    Calls,         \* concurrent callers of do_announce
    Urls,          \* tracker URLs
    Scheme,        \* of each URL: "http" or "udp"
    AnnounceList,  \* meta.announce_list: tiers of URLs, or none
    AnnounceUrl,   \* meta.announce: a sequence of at most one URL
    Moods,         \* what the trackers may be like: see Outcomes
    Tids,          \* transaction identifiers
    Retries        \* how often a UDP request is repeated (8 in the code)

\* What the announce to a tracker may end in.
Outcomes(m) == CASE m = "up"      -> {"ok"}
                 [] m = "flaky"   -> {"ok", "refused", "lost"}
                 [] m = "down"    -> {"refused", "lost"}
                 [] m = "garbled" -> {"garbled"}

\* _build_tracker_tiers
NonEmpty(list) ==
    LET kept[i \in 0 .. Len(list)] ==
           IF i = 0 THEN <<>>
           ELSE IF list[i] = <<>> THEN kept[i - 1] ELSE Append(kept[i - 1], list[i])
    IN  kept[Len(list)]
BuildTiers(list, url) ==
    IF list # <<>> THEN NonEmpty(list)
    ELSE IF url # <<>> THEN <<url>> ELSE <<>>

Built == BuildTiers(AnnounceList, AnnounceUrl)

AllMoods == {"up", "flaky", "down", "garbled"}

\* A tier may repeat a URL, and two tiers may have one in common.
ASSUME AnnounceAssumption ==
    /\ AnnounceList \in Seq(Seq(Urls)) /\ AnnounceUrl \in Seq(Urls)
    /\ Scheme \in [Urls -> {"http", "udp"}]
    /\ Moods \subseteq [Urls -> AllMoods]
    /\ Retries \in Nat

VARIABLES
    mood,    \* of each tracker, fixed
    tiers,   \* _tracker_tiers
    at,      \* where each call is
    tier,    \* the index of the tier it goes through
    left,    \* what its copy of that tier still has, the current URL first
    tried,   \* history: URLs the call has tried
    udp,     \* the UDP exchange of the call: its step, transaction and attempt
    sent,    \* requests that reached the tracker through the call's socket
    inbox,   \* datagrams that may still reach that socket
    proven   \* history: of each tier, the URL that was promoted last, if any

vars    == <<mood, tiers, at, tier, left, tried, udp, sent, inbox, proven>>

Working == {"http", "udp"}
Ended   == {"ok", "failed", "raised"}
NoUdp   == [step |-> "none", tid |-> 0, n |-> 0]

\* A sequence in another order: the places of the new one are mapped onto those
\* of the old one, and so one to one.
Rearranged(s) == {[i \in DOMAIN s |-> s[p[i]]] : p \in Surjection(DOMAIN s, DOMAIN s)}

TypeOK ==
    /\ mood \in [Urls -> AllMoods]
    /\ tiers \in Seq(Seq(Urls)) /\ Len(tiers) = Len(Built)
    \* a tier keeps its URLs, each as often as it had it, whatever the calls do to it
    /\ \A i \in DOMAIN tiers : tiers[i] \in Rearranged(Built[i])
    /\ at \in [Calls -> {"idle"} \cup Working \cup Ended]
    /\ tier \in [Calls -> Nat]
    /\ left \in [Calls -> Seq(Urls)]
    /\ tried \in [Calls -> SUBSET Urls]
    /\ udp \in [Calls -> [step : {"none", "connect", "announce"},
                          tid : Tids \cup {0}, n : 0 .. Retries]]
    /\ sent \in [Calls -> SUBSET (Tids \X {"connect", "announce"})]
    /\ inbox \in [Calls -> SUBSET (Tids \X {"connect", "announce", "error"})]
    /\ proven \in [DOMAIN Built -> SUBSET Urls]

Init ==
    /\ mood \in Moods
    /\ tiers = Built
    /\ at = [c \in Calls |-> "idle"]
    /\ tier = [c \in Calls |-> 0]
    /\ left = [c \in Calls |-> <<>>]
    /\ tried = [c \in Calls |-> {}]
    /\ udp = [c \in Calls |-> NoUdp]
    /\ sent = [c \in Calls |-> {}]
    /\ inbox = [c \in Calls |-> {}]
    /\ proven = [i \in DOMAIN Built |-> {}]

-----------------------------------------------------------------------------
(* Going through the tiers *)

\* The call ends; its socket is closed.
EndCall(c, how) ==
    /\ at' = [at EXCEPT ![c] = how]
    /\ tier' = [tier EXCEPT ![c] = 0]
    /\ left' = [left EXCEPT ![c] = <<>>]
    /\ udp' = [udp EXCEPT ![c] = NoUdp]
    /\ sent' = [sent EXCEPT ![c] = {}]
    /\ inbox' = [inbox EXCEPT ![c] = {}]

\* A request of the call leaves, on a socket of its own for every announce.
Request(c, step, tid, attempt, others) ==
    /\ udp' = [udp EXCEPT ![c] = [step |-> step, tid |-> tid, n |-> attempt]]
    /\ sent' = [sent EXCEPT ![c] = others \cup {<<tid, step>>}]

\* announce(url) is called, by its scheme, for the first of urls.
Try(c, t, urls, before) ==
    LET url == Head(urls)
    IN  /\ tried' = [tried EXCEPT ![c] = before \cup {url}]
        /\ at' = [at EXCEPT ![c] = Scheme[url]]
        /\ tier' = [tier EXCEPT ![c] = t]
        /\ left' = [left EXCEPT ![c] = urls]
        /\ inbox' = [inbox EXCEPT ![c] = {}]
        /\ IF Scheme[url] = "udp"
           THEN \E tid \in Tids : Request(c, "connect", tid, 0, {})
           ELSE /\ udp' = [udp EXCEPT ![c] = NoUdp]
                /\ sent' = [sent EXCEPT ![c] = {}]

\* Mutant: the whole tier is shuffled.
ShuffledWhole(s) == Rearranged(s)

\* The rest of a tier is shuffled in place, its first URL keeps its place.
Shuffled(s) == {<<Head(s)>> \o rest : rest \in Rearranged(Tail(s))}

\* The next tier is shuffled, copied and gone through.
EnterTier(c, t, before) ==
    \E s \in Shuffled(tiers[t]) :
       /\ tiers' = [tiers EXCEPT ![t] = s]
       /\ Try(c, t, s, before)

\* do_announce is called.
Begin(c) ==
    /\ at[c] \in {"idle"} \cup Ended
    /\ IF tiers = <<>>
       THEN EndCall(c, "failed") /\ UNCHANGED <<tiers, tried>>
       ELSE EnterTier(c, 1, {})
    /\ UNCHANGED <<mood, proven>>

\* Mutant: the calls go through the tier itself, which others reorder.
FailoverLive(c) ==
    LET live == tiers[tier[c]]
        next == Len(live) - Len(left[c]) + 2
    IN  /\ IF Len(left[c]) > 1
           THEN Try(c, tier[c], SubSeq(live, next, Len(live)), tried[c]) /\ UNCHANGED tiers
           ELSE IF tier[c] < Len(tiers)
           THEN EnterTier(c, tier[c] + 1, tried[c])
           ELSE EndCall(c, "failed") /\ UNCHANGED <<tiers, tried>>
        /\ UNCHANGED <<mood, proven>>

\* Mutant: a tier that fails ends the call.
FailoverInTier(c) ==
    /\ IF Len(left[c]) > 1
       THEN Try(c, tier[c], Tail(left[c]), tried[c]) /\ UNCHANGED tiers
       ELSE EndCall(c, "failed") /\ UNCHANGED <<tiers, tried>>
    /\ UNCHANGED <<mood, proven>>

\* TrackerError or OSError: on to the next URL, the next tier, or the end.
Failover(c) ==
    /\ IF Len(left[c]) > 1
       THEN Try(c, tier[c], Tail(left[c]), tried[c]) /\ UNCHANGED tiers
       ELSE IF tier[c] < Len(tiers)
       THEN EnterTier(c, tier[c] + 1, tried[c])
       ELSE EndCall(c, "failed") /\ UNCHANGED <<tiers, tried>>
    /\ UNCHANGED <<mood, proven>>

\* Mutant: the promoted URL keeps its old place too.
PromoteTwice(s, url) == <<url>> \o s

\* A tracker has answered: its URL goes to the front of its tier.
Promote(s, url) == <<url>> \o RemoveFirst(s, url)

Succeed(c) ==
    /\ tiers' = [tiers EXCEPT ![tier[c]] = Promote(@, Head(left[c]))]
    /\ proven' = [proven EXCEPT ![tier[c]] = {Head(left[c])}]
    /\ EndCall(c, "ok")
    /\ UNCHANGED <<mood, tried>>

\* Any other exception leaves do_announce.
Raise(c) == EndCall(c, "raised") /\ UNCHANGED <<mood, tiers, tried, proven>>

May(c, outcome) == outcome \in Outcomes(mood[Head(left[c])])

-----------------------------------------------------------------------------
(* HTTP: the request runs in a worker thread *)

HttpAnswers(c) == at[c] = "http" /\ May(c, "ok") /\ Succeed(c)

\* A failure reason, a network error, or tracker_timeout.
HttpFails(c) ==
    /\ at[c] = "http"
    /\ May(c, "refused") \/ May(c, "lost")
    /\ Failover(c)

\* The answer is not what _parse_http_response expects, or the URL has no
\* host or an unknown scheme.
HttpGarbled(c) == at[c] = "http" /\ May(c, "garbled") /\ Raise(c)

-----------------------------------------------------------------------------
(* UDP: connect, then announce, each repeated until answered *)

\* The tracker answers a request that has reached it, now or again.
TrackerAnswers(c) ==
    /\ at[c] = "udp"
    /\ \E r \in sent[c], kind \in {"connect", "announce", "error"} :
         /\ kind = "error" => May(c, "refused")
         /\ kind # "error" => kind = r[2] /\ ~ May(c, "garbled") /\
                              (kind = "announce" => May(c, "ok"))
         /\ <<r[1], kind>> \notin inbox[c]
         /\ inbox' = [inbox EXCEPT ![c] = @ \cup {<<r[1], kind>>}]
    /\ UNCHANGED <<mood, tiers, at, tier, left, tried, udp, sent, proven>>

\* A datagram for the transaction that is waiting; others find no waiter, or
\* one that is done.  It may come again.
Received(c, kind) == at[c] = "udp" /\ <<udp[c].tid, kind>> \in inbox[c]

\* udp_connect returns the connection id; the announce is sent, under a new
\* identifier.  That it is the old one again, one in 2^32, is left out for a
\* tracker that is "up".
Connected(c) ==
    /\ udp[c].step = "connect" /\ Received(c, "connect")
    /\ \E tid \in Tids : /\ tid = udp[c].tid => May(c, "lost")
                        /\ Request(c, "announce", tid, 0, sent[c])
    /\ UNCHANGED <<mood, tiers, at, tier, left, tried, inbox, proven>>

\* The answer to the announce is parsed.
Announced(c) ==
    /\ udp[c].step = "announce" /\ Received(c, "announce")
    /\ Succeed(c)

\* An error message, an answer to the wrong request, or one too short.
UdpRefused(c) ==
    /\ \/ \E kind \in {"connect", "announce", "error"} \ {udp[c].step} : Received(c, kind)
       \/ at[c] = "udp" /\ May(c, "garbled")
    /\ Failover(c)

\* No answer in time: the request is repeated under the same identifier ...
Resend(c) ==
    /\ at[c] = "udp" /\ May(c, "lost")
    /\ udp[c].n < Retries
    /\ Request(c, udp[c].step, udp[c].tid, udp[c].n + 1, sent[c])
    /\ UNCHANGED <<mood, tiers, at, tier, left, tried, inbox, proven>>

\* ... until it has been repeated enough, tracker_timeout expires, or the
\* network reports an error.
UdpLost(c) == at[c] = "udp" /\ May(c, "lost") /\ Failover(c)

-----------------------------------------------------------------------------
Http(c) == HttpAnswers(c) \/ HttpFails(c) \/ HttpGarbled(c)
Udp(c)  == Connected(c) \/ Announced(c) \/ UdpRefused(c) \/ UdpLost(c)

Next == \E c \in Calls : Begin(c) \/ Http(c) \/ Udp(c) \/ TrackerAnswers(c) \/ Resend(c)

Spec == Init /\ [][Next]_vars

\* An HTTP request returns or times out; a datagram that can arrive does, and
\* tracker_timeout bounds the rest.
FairSpec ==
    /\ Spec
    /\ \A c \in Calls : WF_vars(Http(c)) /\ WF_vars(Udp(c)) /\ WF_vars(TrackerAnswers(c))

-----------------------------------------------------------------------------
(* Properties *)

AllUrls == UNION {ToSet(Built[i]) : i \in DOMAIN Built}

\* A call says "all trackers failed" only when it has tried each of them, even
\* though other calls reorder the tiers while it goes through them
\* (client.py:542-586).
AllTriedBeforeFailing == \A c \in Calls : at[c] = "failed" => tried[c] = AllUrls

\* A URL that was promoted stays the first of its tier until another of the
\* tier is: whichever calls shuffle the tier meanwhile, go through it or promote
\* one of theirs, it is the first that the next call tries (client.py:543-565).
PromotionLasts == \A i \in DOMAIN tiers : \A u \in proven[i] : Head(tiers[i]) = u

\* With one tracker that works, every call gets its answer from some tracker,
\* unless an undecodable answer ended it (client.py:573).
Sound == \A u \in AllUrls : mood[u] = "garbled" => Scheme[u] = "udp"
CallsSucceed ==
    (\E u \in AllUrls : mood[u] = "up") =>
       \A c \in Calls :
          at[c] \in Working ~> (at[c] = "ok" \/ (at[c] = "raised" /\ ~Sound))
=============================================================================
