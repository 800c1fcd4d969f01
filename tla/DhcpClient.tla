----------------------------- MODULE DhcpClient -----------------------------
(***************************************************************************)
(* class DhcpClient of dhcp_client.py as _run_dhcp of ipoedhcp.py drives   *)
(* it: the handshake, the loop that keeps the lease, a stop request at any *)
(* moment, and the Release of the finally block.                           *)
(*                                                                         *)
(* Every exchange is a conversation between the main thread, which sends,  *)
(* polls and gives up, and the callback of the packet sniffer, which       *)
(* stores replies, over a network that loses, delays, reorders and         *)
(* duplicates messages. Time is a clock in ticks; the polling of the code  *)
(* (every 0.2 s) is shorter than a tick, so the clock does not advance     *)
(* while the main thread has something to do.                              *)
(***************************************************************************)
EXTENDS Integers

CONSTANTS
    Servers, NoServer,  \* DHCP servers; "no server expected"
    Addrs, NoAddr,      \* addresses they assign; 0.0.0.0
    Terms,              \* lease times offered, as [lease, t1, t2]
    NoReply, NoLease,
    AutoRenew,          \* values of behavior.auto_renew
    Timeout,            \* --timeout
    StartupTimeout,     \* 5 s for the sniffer to start
    RetryInterval,      \* 4 s before the first retransmission
    RetryWait,          \* 5 s between failed renewals
    ConfigTime,         \* bound: longest configure_lease
    MaxTime,            \* bound: the clock
    MaxAnswers,         \* bound: replies the servers send
    MaxFaults           \* bound: system calls that fail

ASSUME ServersAssumption == NoServer \notin Servers /\ NoAddr \notin Addrs
ASSUME TermsAssumption == Terms \subseteq [lease : Int, t1 : Int, t2 : Int]
ASSUME TimesAssumption ==
    /\ {Timeout, RetryInterval} \subseteq Nat \ {0}
    /\ {StartupTimeout, RetryWait, ConfigTime, MaxTime, MaxAnswers, MaxFaults} \subseteq Nat
    /\ AutoRenew \subseteq BOOLEAN

Least(a, b) == IF a < b THEN a ELSE b
Greatest(a, b) == IF a > b THEN a ELSE b

(* Mutant of Renewal: T1 is not kept below the lease time.                 *)
RenewalUnbounded(t) == Greatest(t.t1, 1)

(* T1 and T2 as _parse_reply normalises them.                              *)
Renewal(t) == IF t.lease > 1 THEN Least(Greatest(t.t1, 1), t.lease - 1) ELSE 1
Rebinding(t) ==
    IF t.lease > 1 THEN Least(Greatest(t.t2, Renewal(t)), t.lease - 1) ELSE 1

Requests ==
    [ kind : {"discover", "request", "renew", "rebind"},
      server : Servers \cup {NoServer},
      ip : Addrs \cup {NoAddr},
      fresh : BOOLEAN ]     \* carries the current xid

Replies ==
    [ kind : {"offer", "ack", "nak"},
      server : Servers,
      ip : Addrs \cup {NoAddr},
      mask : BOOLEAN,       \* carries a subnet mask
      term : Terms,
      fresh : BOOLEAN ]

Leases == [server : Servers, ip : Addrs \cup {NoAddr}, term : Terms, acquired : 0..MaxTime]

ASSUME NoneAssumption == NoReply \notin Replies /\ NoLease \notin Leases

VARIABLES
    now,        \* time.monotonic()
    pc,         \* where the main thread is
    ex,         \* the exchange in progress: arguments and locals of _exchange
    heard,      \* reply[-1] of the sniffer callback
    offer,      \* the reply the handshake selected
    lease,      \* self.lease
    wakeAt,     \* when the wait in progress ends
    stop,       \* stop_event
    code,       \* exit_code of _run_dhcp
    released,   \* a Release has been sent
    lateSends,  \* requests sent after the stop request
    requests, net,  \* messages to and from the servers; they stay, as duplicates
    granted,    \* addresses the servers consider leased to this client
    answers, faults     \* replies and failures so far

clientVars == <<pc, ex, offer, lease, wakeAt, code, released, lateSends>>
netVars == <<requests, net, granted, answers>>
vars == <<now, clientVars, heard, stop, netVars, faults>>

Steps == {"offer", "ack", "renew", "rebind"}
Exchanging == {"listen", "send", "poll", "resend", "collect"}
Pcs ==
    Exchanging \cup
    {"handshake", "configure", "renewal", "sleep", "expiry", "release", "done"}

TypeOK ==
    /\ now \in 0..MaxTime
    /\ pc \in Pcs
    /\ ex \in [ step : Steps, packet : Requests, started : Int, deadline : Int,
                retryAt : Int, interval : Int, sends : Nat ]
    /\ heard \in Replies \cup {NoReply}
    /\ offer \in Replies \cup {NoReply}
    /\ lease \in Leases \cup {NoLease}
    /\ wakeAt \in Int
    /\ stop \in BOOLEAN
    /\ code \in {0, 4, 5}
    /\ released \in BOOLEAN
    /\ lateSends \in Nat
    /\ requests \subseteq Requests
    /\ net \subseteq Replies
    /\ granted \subseteq Servers \X (Addrs \cup {NoAddr})
    /\ answers \in 0..MaxAnswers
    /\ faults \in 0..MaxFaults

Message(kind, server, ip) == [kind |-> kind, server |-> server, ip |-> ip, fresh |-> TRUE]

(* _exchange before its first send: the deadline is the sniffer's.         *)
Exchange(step, packet) ==
    [ step |-> step, packet |-> packet, started |-> now,
      deadline |-> now + StartupTimeout, retryAt |-> now,
      interval |-> RetryInterval, sends |-> 0 ]

Init ==
    /\ now = 0
    /\ pc = "handshake"
    /\ ex = Exchange("offer", Message("discover", NoServer, NoAddr))
    /\ heard = NoReply
    /\ offer = NoReply
    /\ lease = NoLease
    /\ wakeAt = 0
    /\ stop = FALSE
    /\ code = 0
    /\ released = FALSE
    /\ lateSends = 0
    /\ requests = {}
    /\ net = {}
    /\ granted = {}
    /\ answers = 0
    /\ faults = 0

-----------------------------------------------------------------------------
(* The lease's instants.                                                   *)
RenewAt == lease.acquired + Renewal(lease.term)
RebindAt == lease.acquired + Rebinding(lease.term)
ExpiresAt == lease.acquired + lease.term.lease

Goto(from, to) == pc = from /\ pc' = to

Fault == faults < MaxFaults /\ faults' = faults + 1

(* A new random xid: whatever is still under way answers another one.      *)
NewXid ==
    /\ requests' = {[q EXCEPT !.fresh = FALSE] : q \in requests}
    /\ net' = {[m EXCEPT !.fresh = FALSE] : m \in net}
    /\ UNCHANGED <<granted, answers>>

(* _exchange is called: an empty reply list, a sniffer that starts.        *)
StartExchange(from, step, packet) ==
    /\ Goto(from, "listen")
    /\ ex' = Exchange(step, packet)
    /\ heard' = NoReply

(* Mutant of Raise: a failed handshake leaves exit_code as it was.         *)
RaiseQuietly(why) ==
    IF ex.step \in {"renew", "rebind"} /\ why = "error"
    THEN pc' = "sleep" /\ wakeAt' = now + RetryWait /\ UNCHANGED code
    ELSE pc' = "release" /\ UNCHANGED <<wakeAt, code>>

(* Mutant of Raise: the pause after a failed renewal ignores the lease.    *)
RaiseFixedWait(why) ==
    IF ex.step \in {"renew", "rebind"} /\ why = "error"
    THEN pc' = "sleep" /\ wakeAt' = now + RetryWait /\ UNCHANGED code
    ELSE /\ pc' = "release"
         /\ code' = IF ex.step \in {"offer", "ack"} /\ why # "stopped" THEN 4 ELSE code
         /\ UNCHANGED wakeAt

(* Mutant of Raise: a handshake that fails is begun again, stop or not.    *)
RaiseStartsAgain(why) ==
    IF ex.step \in {"renew", "rebind"} /\ why = "error"
    THEN pc' = "sleep" /\ wakeAt' = now + RetryWait /\ UNCHANGED code
    ELSE /\ pc' = IF ex.step \in {"offer", "ack"} THEN "handshake" ELSE "release"
         /\ UNCHANGED <<wakeAt, code>>

(* An exception leaves _exchange. The handshake lets it through; the       *)
(* renewal loop lets a stop through, ends on a NAK and waits after any     *)
(* other error, at most until the lease's next instant.                    *)
Raise(why) ==
    LET boundary == IF ex.step = "renew" THEN RebindAt ELSE ExpiresAt IN
    IF ex.step \in {"renew", "rebind"} /\ why = "error"
    THEN /\ pc' = "sleep"
         /\ wakeAt' = now + Least(RetryWait, Greatest(0, boundary - now))
         /\ UNCHANGED code
    ELSE /\ pc' = "release"
         /\ code' = IF ex.step \in {"offer", "ack"} /\ why # "stopped" THEN 4 ELSE code
         /\ UNCHANGED wakeAt

-----------------------------------------------------------------------------
(* handshake: a Discover with a new xid.                                   *)
Handshake ==
    /\ StartExchange("handshake", "offer", Message("discover", NoServer, NoAddr))
    /\ NewXid
    /\ UNCHANGED <<now, offer, lease, wakeAt, stop, code, released, lateSends, faults>>

(* Waiting for the sniffer. Once it runs, nothing looks at the stop event  *)
(* before the first send.                                                  *)
SnifferStarts ==
    /\ Goto("listen", "send")
    /\ UNCHANGED <<now, ex, heard, offer, lease, wakeAt, stop, code, released, lateSends,
                   netVars, faults>>

SnifferFails ==
    /\ pc = "listen"
    /\ \/ stop /\ Raise("stopped") /\ UNCHANGED faults
       \/ now >= ex.deadline /\ Raise("error") /\ UNCHANGED faults
       \/ Fault /\ Raise("error")
    /\ UNCHANGED <<now, ex, heard, offer, lease, stop, released, lateSends, netVars>>

(* sendp(packet)                                                           *)
Transmit ==
    /\ requests' = requests \cup {ex.packet}
    /\ lateSends' = IF stop THEN lateSends + 1 ELSE lateSends
    /\ UNCHANGED <<net, granted, answers>>

SendFirst ==
    /\ \/ /\ Goto("send", "poll")
          /\ Transmit
          /\ ex' = [ex EXCEPT !.started = now,
                              !.deadline = now + Timeout,
                              !.retryAt = now + RetryInterval,
                              !.sends = 1]
          /\ UNCHANGED <<wakeAt, code, faults>>
       \/ /\ pc = "send"
          /\ Fault /\ Raise("error")
          /\ UNCHANGED <<ex, lateSends, netVars>>
    /\ UNCHANGED <<now, heard, offer, lease, stop, released>>

(* The polling loop: a reply first, then the stop event, then the deadline,*)
(* and only then a retransmission.                                         *)
Poll ==
    /\ pc = "poll"
    /\ \/ /\ heard # NoReply
          /\ pc' = "collect" /\ UNCHANGED <<wakeAt, code>>
       \/ heard = NoReply /\ stop /\ Raise("stopped")
       \/ heard = NoReply /\ ~stop /\ now >= ex.deadline /\ Raise("error")
       \/ /\ heard = NoReply /\ ~stop /\ ex.retryAt <= now /\ now < ex.deadline
          /\ pc' = "resend" /\ UNCHANGED <<wakeAt, code>>
    /\ UNCHANGED <<now, ex, heard, offer, lease, stop, released, lateSends, netVars, faults>>

(* Mutant of Resend: the interval does not grow.                           *)
ResendSteadily ==
    /\ Goto("resend", "poll")
    /\ Transmit
    /\ ex' = [ex EXCEPT !.retryAt = now + ex.interval, !.sends = ex.sends + 1]
    /\ UNCHANGED <<now, heard, offer, lease, wakeAt, stop, code, released, faults>>

(* A stop that arrives after the check does not prevent this send.         *)
Resend ==
    /\ \/ /\ Goto("resend", "poll")
          /\ Transmit
          /\ ex' = [ex EXCEPT !.interval = 2 * ex.interval,
                              !.retryAt = now + 2 * ex.interval,
                              !.sends = ex.sends + 1]
          /\ UNCHANGED <<wakeAt, code, faults>>
       \/ /\ pc = "resend"
          /\ Fault /\ Raise("error")
          /\ UNCHANGED <<ex, lateSends, netVars>>
    /\ UNCHANGED <<now, heard, offer, lease, stop, released>>

(* Mutant of Accepts: the callback does not look at the message type.      *)
AcceptsAnyType(m) ==
    m.fresh /\ m.term.lease > 0 /\ ex.packet.server \in {NoServer, m.server}

(* The sniffer's callback, until stop() has joined its thread: a reply to  *)
(* the current xid, of the expected type or a NAK, from the expected       *)
(* server. The last one counts.                                            *)
Accepts(m) ==
    /\ m.fresh /\ m.term.lease > 0
    /\ m.kind \in {IF ex.step = "offer" THEN "offer" ELSE "ack", "nak"}
    /\ ex.packet.server \in {NoServer, m.server}

Hear(m) ==
    /\ pc \in Exchanging \ {"listen"}
    /\ Accepts(m)
    /\ heard' = m
    /\ UNCHANGED <<now, clientVars, stop, netVars, faults>>

(* _exchange returns reply[-1] to handshake ...                            *)
CollectOffer ==
    /\ ex.step = "offer"
    /\ IF heard.ip # NoAddr
       THEN /\ offer' = heard
            /\ StartExchange("collect", "ack", Message("request", heard.server, heard.ip))
            /\ UNCHANGED <<wakeAt, code>>
       ELSE Raise("error") /\ UNCHANGED <<ex, heard, offer>>
    /\ UNCHANGED lease

CollectAck ==
    /\ ex.step = "ack"
    /\ IF heard.mask /\ heard.server = offer.server /\ heard.ip = offer.ip
       THEN /\ lease' = [server |-> heard.server, ip |-> heard.ip,
                         term |-> heard.term, acquired |-> now]
            /\ pc' = "configure"
            /\ wakeAt' = now + ConfigTime
            /\ UNCHANGED code
       ELSE Raise("error") /\ UNCHANGED lease
    /\ UNCHANGED <<ex, heard, offer>>

(* ... or to renew_forever, which updates the lease.                       *)
CollectRenewal ==
    /\ ex.step \in {"renew", "rebind"}
    /\ IF heard.mask
       THEN /\ lease' = [server |-> heard.server, ip |-> heard.ip,
                         term |-> heard.term, acquired |-> now]
            /\ pc' = "renewal"
            /\ UNCHANGED <<wakeAt, code>>
       ELSE Raise("error") /\ UNCHANGED lease
    /\ UNCHANGED <<ex, heard, offer>>

Collect ==
    /\ pc = "collect"
    /\ \/ heard.kind = "nak" /\ Raise("nak") /\ UNCHANGED <<ex, heard, offer, lease>>
       \/ heard.kind # "nak" /\ (CollectOffer \/ CollectAck \/ CollectRenewal)
    /\ UNCHANGED <<now, stop, released, lateSends, netVars, faults>>

-----------------------------------------------------------------------------
(* configure_lease of the transaction, then one of the two ways to keep    *)
(* the lease. wait_until_expiry counts from here, not from the ACK.        *)
Configure ==
    /\ \/ TRUE \in AutoRenew /\ Goto("configure", "renewal") /\ UNCHANGED <<wakeAt, code, faults>>
       \/ /\ FALSE \in AutoRenew /\ Goto("configure", "expiry")
          /\ wakeAt' = now + lease.term.lease
          /\ UNCHANGED <<code, faults>>
       \/ Goto("configure", "release") /\ Fault /\ code' = 5 /\ UNCHANGED wakeAt
    /\ UNCHANGED <<now, ex, heard, offer, lease, stop, released, lateSends, netVars>>

(* Mutant of KeepWaiting: at T1 itself there is nothing to do yet.         *)
KeepWaitingAtT1 ==
    /\ ~stop /\ now <= RenewAt
    /\ Goto("renewal", "sleep")
    /\ wakeAt' = RenewAt
    /\ UNCHANGED <<ex, heard, netVars>>

(* The head of renew_forever's loop.                                       *)
KeepWaiting ==
    /\ ~stop /\ now < RenewAt
    /\ Goto("renewal", "sleep")
    /\ wakeAt' = RenewAt
    /\ UNCHANGED <<ex, heard, netVars>>

GiveUp ==
    /\ stop \/ (now >= RenewAt /\ now >= ExpiresAt)
    /\ Goto("renewal", "release")
    /\ UNCHANGED <<ex, heard, wakeAt, netVars>>

Renew ==
    /\ ~stop /\ RenewAt <= now /\ now < ExpiresAt
    /\ IF now < RebindAt
       THEN StartExchange("renewal", "renew", Message("renew", lease.server, lease.ip))
       ELSE StartExchange("renewal", "rebind", Message("rebind", NoServer, lease.ip))
    /\ NewXid
    /\ UNCHANGED wakeAt

KeepLease ==
    /\ pc = "renewal"
    /\ KeepWaiting \/ GiveUp \/ Renew
    /\ UNCHANGED <<now, offer, lease, stop, code, released, lateSends, faults>>

(* Mutant of Wake: a plain sleep.                                          *)
WakeLate ==
    /\ now >= wakeAt
    /\ Goto("sleep", "renewal") \/ Goto("expiry", "release")
    /\ UNCHANGED <<now, ex, heard, offer, lease, wakeAt, stop, code, released, lateSends,
                   netVars, faults>>

(* stop_event.wait(...) returns.                                           *)
Wake ==
    /\ stop \/ now >= wakeAt
    /\ Goto("sleep", "renewal") \/ Goto("expiry", "release")
    /\ UNCHANGED <<now, ex, heard, offer, lease, wakeAt, stop, code, released, lateSends,
                   netVars, faults>>

(* Mutant of Release: the failure is reported with the capture's code.     *)
ReleaseWrongCode ==
    /\ Goto("release", "done")
    /\ \/ lease = NoLease /\ UNCHANGED <<released, code, faults>>
       \/ lease # NoLease /\ released' = TRUE /\ UNCHANGED <<code, faults>>
       \/ lease # NoLease /\ Fault /\ code' = 3 /\ UNCHANGED released
    /\ UNCHANGED <<now, ex, heard, offer, lease, wakeAt, stop, lateSends, netVars>>

(* The finally block of _run_dhcp: no lease, no Release.                   *)
Release ==
    /\ Goto("release", "done")
    /\ \/ lease = NoLease /\ UNCHANGED <<released, code, faults>>
       \/ lease # NoLease /\ released' = TRUE /\ UNCHANGED <<code, faults>>
       \/ lease # NoLease /\ Fault /\ code' = (IF code = 0 THEN 4 ELSE code) /\ UNCHANGED released
    /\ UNCHANGED <<now, ex, heard, offer, lease, wakeAt, stop, lateSends, netVars>>

Client ==
    \/ Handshake \/ SnifferStarts \/ SnifferFails \/ SendFirst \/ Poll \/ Resend
    \/ Collect \/ Configure \/ KeepLease \/ Wake \/ Release

-----------------------------------------------------------------------------
(* The environment.                                                        *)

(* Ctrl+C: StopController.handle, at any moment and any number of times.   *)
Stop ==
    /\ pc # "done" /\ ~stop
    /\ stop' = TRUE
    /\ UNCHANGED <<now, clientVars, heard, netVars, faults>>

(* A server answers a request it has received, perhaps long after. A       *)
(* server acknowledges the address it is asked for.                        *)
Answer(s, q) ==
    /\ answers < MaxAnswers
    /\ answers' = answers + 1
    /\ q.server \in {NoServer, s}
    /\ \E ip \in Addrs \cup {NoAddr}, mask \in BOOLEAN, term \in Terms :
        LET reply(kind) == [ kind |-> kind, server |-> s, ip |-> ip, mask |-> mask,
                             term |-> term, fresh |-> q.fresh ]
        IN
        \/ /\ q.kind = "discover" /\ mask
           /\ net' = net \cup {reply("offer")}
           /\ UNCHANGED granted
        \/ /\ q.kind # "discover" /\ ip = q.ip
           /\ net' = net \cup {reply("ack")}
           /\ granted' = granted \cup {<<s, ip>>}
        \/ /\ q.kind # "discover" /\ ip = NoAddr /\ ~mask
           /\ net' = net \cup {reply("nak")}
           /\ UNCHANGED granted
    /\ UNCHANGED <<now, clientVars, heard, stop, requests, faults>>

(* The main thread has something to do now.                                *)
Urgent ==
    \/ pc \in {"handshake", "send", "resend", "collect", "renewal", "release"}
    \/ pc = "listen" /\ (stop \/ now >= ex.deadline)
    \/ pc = "poll" /\ (heard # NoReply \/ stop \/ now >= Least(ex.deadline, ex.retryAt))
    \/ pc \in {"sleep", "expiry"} /\ (stop \/ now >= wakeAt)
    \/ pc = "configure" /\ now >= wakeAt

Tick ==
    /\ pc # "done" /\ ~Urgent /\ now < MaxTime
    /\ now' = now + 1
    /\ UNCHANGED <<clientVars, heard, stop, netVars, faults>>

Terminated == pc = "done" /\ UNCHANGED vars

Next ==
    \/ Client \/ Stop \/ Tick
    \/ \E m \in net : Hear(m)
    \/ \E s \in Servers, q \in requests : Answer(s, q)
    \/ Terminated

Spec == Init /\ [][Next]_vars

(* The operating system schedules the main thread.                         *)
FairSpec == Spec /\ WF_vars(Client)

-----------------------------------------------------------------------------
(* Properties.                                                             *)

(* The lease is one that its server has granted: not an address only       *)
(* offered, and not one another server was asked for, whatever arrives     *)
(* late, twice or out of order (the filter of _exchange's callback).       *)
LeaseGranted == lease # NoLease => <<lease.server, lease.ip>> \in granted

(* RELEASE_NOTES.md:31 and test_exchange_retries_within_total_timeout      *)
(* _budget: retransmissions back off (4, 8, 16 s) and stay within the      *)
(* total budget. The n-th request of an exchange leaves at least           *)
(* 2^(n-1) - 1 intervals after the first, and before the deadline.         *)
RetryBudget ==
    LET last == ex.retryAt - ex.interval IN
    ex.sends > 0 =>
        /\ RetryInterval * (2 ^ (ex.sends - 1) - 1) <= last - ex.started
        /\ last - ex.started < Timeout

(* Whatever T1 and T2 the server sends, the lease is renewed before it is  *)
(* rebound and rebound before it ends, and a lease of more than a second   *)
(* leaves time for both.                                                   *)
TimersOrdered ==
    lease # NoLease =>
        /\ lease.acquired < RenewAt /\ RenewAt <= RebindAt /\ RebindAt <= ExpiresAt
        /\ lease.term.lease > 1 => RebindAt < ExpiresAt

(* An expired lease is used no longer than one exchange that was started   *)
(* while it was valid, or, without renewal, than configuring it took.      *)
OverrunBounded ==
    /\ pc \in Exchanging \cup {"sleep"} /\ lease # NoLease
        => now < ExpiresAt + StartupTimeout + Timeout
    /\ pc = "expiry" => now <= ExpiresAt + ConfigTime

(* After Ctrl+C at most two more requests leave: one that nothing stops    *)
(* any more (the Discover of a sniffer that has just started, or a         *)
(* retransmission already decided), and, when the Offer arrives before the *)
(* next look at the stop event, one Request.                               *)
StopQuiet == lateSends <= 2

(* Exit code 0 of _run_dhcp: the lease, if there ever was one, has been    *)
(* released; if there was none, the user asked to stop.                    *)
HonestCode ==
    pc = "done" /\ code = 0 => IF lease = NoLease THEN stop ELSE released

(* README.md:117: normal stops and DHCP failures all send a DHCP Release.  *)
(* An ACK that the client has received means a lease on the server; the    *)
(* code sends no Release when it finds that ACK unusable.                  *)
FailureReleases ==
    pc = "done" /\ heard # NoReply /\ heard.kind = "ack" => released

(* Liveness: a stop request is obeyed without any time passing, wherever   *)
(* the client is waiting ("Offer/ACK and renewal waits respond to the stop *)
(* event", RELEASE_NOTES.md:39).                                           *)
StopObeyed == stop ~> pc = "done"

(* Liveness: if time passes while the client waits, it ends once the       *)
(* servers are silent, and the interface is restored, instead of keeping a *)
(* dead lease.                                                             *)
GivesUp == WF_vars(Tick) => <>(pc = "done")
=============================================================================
