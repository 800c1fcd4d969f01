-------------------------- MODULE DhcpClientProofs --------------------------
(***************************************************************************)
(* Proofs about DhcpClient, for all servers, addresses, lease times and    *)
(* time-outs: its types, the order of a lease's instants, that a lease is  *)
(* one its server granted, what may still be sent after a stop, how often  *)
(* a request is repeated, how far the use of an address outlives its lease *)
(* and what the exit code says.                                            *)
(***************************************************************************)
EXTENDS DhcpClient, FiniteSetTheorems, TLAPS

(* The normalisation of _parse_reply, for every T1 and T2 a server sends.  *)
LEMMA TimersNormalised ==
    ASSUME NEW t \in [lease : Int, t1 : Int, t2 : Int], t.lease > 0
    PROVE  /\ Renewal(t) \in Int /\ Rebinding(t) \in Int
           /\ 0 < Renewal(t) /\ Renewal(t) <= Rebinding(t) /\ Rebinding(t) <= t.lease
           /\ t.lease > 1 => Rebinding(t) < t.lease
  BY DEF Renewal, Rebinding, Least, Greatest

-----------------------------------------------------------------------------
(* The inductive invariant. What a location implies: a reply to collect, a *)
(* lease to keep.                                                          *)
Located ==
    /\ pc = "collect" => heard # NoReply
    /\ pc \in {"configure", "renewal", "sleep", "expiry"} => lease # NoLease
    /\ pc \in Exchanging /\ ex.step \in {"renew", "rebind"} => lease # NoLease

(* What the callback lets through.                                         *)
Filtered ==
    /\ heard # NoReply =>
        /\ heard.term.lease > 0
        /\ pc \in Exchanging =>
            heard.kind \in {IF ex.step = "offer" THEN "offer" ELSE "ack", "nak"}
    /\ lease # NoLease => lease.term.lease > 0

(* Acknowledgements are grants, wherever they are.                         *)
AcksGranted ==
    /\ \A m \in net : m.kind = "ack" => <<m.server, m.ip>> \in granted
    /\ heard # NoReply /\ heard.kind = "ack" => <<heard.server, heard.ip>> \in granted
    /\ LeaseGranted

(* Requests sent after the stop, by location: a renewal starts before it,  *)
(* and so does the decision to send again.                                 *)
LateCount ==
    /\ lateSends \in 0..2
    /\ ~stop \/ pc \in {"handshake", "resend"} => lateSends = 0
    /\ pc \in {"listen", "send"} =>
        lateSends <= 1 /\ (ex.step # "ack" => lateSends = 0)
    /\ pc \in {"poll", "collect"} /\ ex.step # "ack" => lateSends <= 1

IInv == TypeOK /\ Located /\ Filtered /\ AcksGranted /\ LateCount

-----------------------------------------------------------------------------
(* A message to a server, and the state of an exchange about to start.     *)
LEMMA ExchangeTyped ==
    ASSUME now \in Int, NEW step \in Steps, NEW packet \in Requests
    PROVE  Exchange(step, packet) \in
               [ step : Steps, packet : Requests, started : Int, deadline : Int,
                 retryAt : Int, interval : Int, sends : Nat ]
  BY TimesAssumption DEF Exchange

LEMMA MessageTyped ==
    ASSUME NEW kind \in {"discover", "request", "renew", "rebind"},
           NEW s \in Servers \cup {NoServer}, NEW ip \in Addrs \cup {NoAddr}
    PROVE  Message(kind, s, ip) \in Requests
  BY DEF Message, Requests

LEMMA InvariantInit == Init => IInv
<1> SUFFICES ASSUME Init PROVE IInv
  OBVIOUS
<1> USE DEF Init
<1>1. TypeOK
  <2>1. ex \in [ step : Steps, packet : Requests, started : Int, deadline : Int,
                 retryAt : Int, interval : Int, sends : Nat ]
    BY ExchangeTyped, MessageTyped DEF Steps
  <2>2. now \in 0..MaxTime /\ answers \in 0..MaxAnswers /\ faults \in 0..MaxFaults
    BY TimesAssumption
  <2>3. pc \in Pcs /\ wakeAt \in Int /\ code \in {0, 4, 5} /\ lateSends \in Nat
    BY DEF Pcs
  <2>4. stop \in BOOLEAN /\ released \in BOOLEAN
    OBVIOUS
  <2>5. heard \in Replies \cup {NoReply} /\ offer \in Replies \cup {NoReply}
        /\ lease \in Leases \cup {NoLease}
    OBVIOUS
  <2>6. requests \subseteq Requests /\ net \subseteq Replies
        /\ granted \subseteq Servers \X (Addrs \cup {NoAddr})
    OBVIOUS
  <2> QED
    BY <2>1, <2>2, <2>3, <2>4, <2>5, <2>6 DEF TypeOK
<1>2. Located /\ Filtered /\ AcksGranted /\ LateCount
  BY DEF Located, Filtered, AcksGranted, LeaseGranted, LateCount, Exchanging, Exchange
<1> QED
  BY <1>1, <1>2 DEF IInv

(* The instants of a lease are instants.                                   *)
LEMMA InstantsTyped ==
    ASSUME TypeOK, Filtered, lease # NoLease
    PROVE  /\ RenewAt \in Int /\ RebindAt \in Int /\ ExpiresAt \in Int
           /\ lease.server \in Servers /\ lease.ip \in Addrs \cup {NoAddr}
           /\ lease.term.lease \in Int
  BY TimersNormalised, TermsAssumption
     DEF TypeOK, Filtered, Leases, RenewAt, RebindAt, ExpiresAt

(* What is left of an exchange that raises.                                *)
LEMMA RaiseEnds ==
    ASSUME IInv, pc \in Exchanging, NEW why, Raise(why)
    PROVE  /\ pc' \in {"sleep", "release"} /\ (pc' = "sleep" => lease # NoLease)
           /\ wakeAt' \in Int
           /\ code' \in {0, 4, 5}
<1>1. ex.step \in Steps /\ now \in Int /\ RetryWait \in Int /\ wakeAt \in Int /\ code \in {0, 4, 5}
  BY TimesAssumption DEF IInv, TypeOK
<1>2. CASE ex.step \in {"renew", "rebind"} /\ why = "error"
  <2>1. lease # NoLease
    BY <1>2 DEF IInv, Located
  <2>2. RebindAt \in Int /\ ExpiresAt \in Int
    BY <2>1, InstantsTyped DEF IInv
  <2> QED
    BY <1>1, <1>2, <2>1, <2>2 DEF Raise, Least, Greatest
<1>3. CASE ~(ex.step \in {"renew", "rebind"} /\ why = "error")
  BY <1>1, <1>3 DEF Raise
<1> QED
  BY <1>2, <1>3

(* Ageing messages changes no address.                                     *)
LEMMA NewXidInv ==
    ASSUME TypeOK, AcksGranted, NewXid
    PROVE  /\ requests' \subseteq Requests /\ net' \subseteq Replies
           /\ granted' = granted /\ answers' = answers
           /\ \A m \in net' : m.kind = "ack" => <<m.server, m.ip>> \in granted'
<1>1. \A m \in Replies : LET n == [m EXCEPT !.fresh = FALSE] IN
          n \in Replies /\ n.kind = m.kind /\ n.server = m.server /\ n.ip = m.ip
  BY DEF Replies
<1>2. \A q \in Requests : [q EXCEPT !.fresh = FALSE] \in Requests
  BY DEF Requests
<1>3. requests' = {[q EXCEPT !.fresh = FALSE] : q \in requests} /\ requests \subseteq Requests
  BY DEF NewXid, TypeOK
<1>4. net' = {[m EXCEPT !.fresh = FALSE] : m \in net} /\ net \subseteq Replies
  BY DEF NewXid, TypeOK
<1>5. requests' \subseteq Requests
  BY <1>2, <1>3
<1>6. net' \subseteq Replies
  BY <1>1, <1>4
<1>7. \A m \in net' : m.kind = "ack" => <<m.server, m.ip>> \in granted
  <2> TAKE n \in net'
  <2>1. PICK m \in net : n = [m EXCEPT !.fresh = FALSE]
    BY <1>4
  <2>2. n.kind = m.kind /\ n.server = m.server /\ n.ip = m.ip
    BY <2>1, <1>1, <1>4
  <2> QED
    BY <2>1, <2>2 DEF AcksGranted
<1> QED
  BY <1>5, <1>6, <1>7 DEF NewXid

LEMMA InvariantHandshake == ASSUME IInv, Handshake PROVE IInv'
<1> USE DEF Handshake, StartExchange, Goto, IInv
<1>1. TypeOK'
  <2>1. ex' \in [ step : Steps, packet : Requests, started : Int, deadline : Int,
                  retryAt : Int, interval : Int, sends : Nat ]
    BY ExchangeTyped, MessageTyped DEF Steps, TypeOK
  <2> QED
    BY <2>1, NewXidInv DEF TypeOK, Pcs, Exchanging
<1>2. ex'.step = "offer"
  BY DEF Exchange
<1>3. Located' /\ Filtered' /\ LateCount'
  BY <1>2 DEF Located, Filtered, LateCount, Exchanging
<1>4. AcksGranted'
  BY NewXidInv DEF AcksGranted, LeaseGranted
<1> QED
  BY <1>1, <1>3, <1>4

LEMMA InvariantListen == ASSUME IInv, SnifferStarts \/ SnifferFails PROVE IInv'
<1>1. CASE SnifferStarts
  BY <1>1 DEF SnifferStarts, Goto, IInv, TypeOK, Located, Filtered, AcksGranted,
              LeaseGranted, LateCount, Exchanging, Pcs, netVars
<1>2. CASE SnifferFails
  <2>1. /\ pc = "listen"
        /\ pc' \in {"sleep", "release"} /\ (pc' = "sleep" => lease # NoLease)
        /\ wakeAt' \in Int /\ code' \in {0, 4, 5}
    BY <1>2, RaiseEnds DEF SnifferFails, Exchanging
  <2>2. faults' \in 0..MaxFaults
    BY <1>2, TimesAssumption DEF SnifferFails, Fault, IInv, TypeOK
  <2>3. UNCHANGED <<now, ex, heard, offer, lease, stop, released, lateSends, netVars>>
    BY <1>2 DEF SnifferFails
  <2> QED
    BY <2>1, <2>2, <2>3 DEF IInv, TypeOK, Located, Filtered, AcksGranted,
       LeaseGranted, LateCount, Exchanging, Pcs, netVars
<1> QED
  BY <1>1, <1>2

(* A send adds the exchange's own packet, and counts when it is late.      *)
LEMMA TransmitTyped ==
    ASSUME TypeOK, Transmit
    PROVE  /\ requests' \subseteq Requests
           /\ UNCHANGED <<net, granted, answers>>
           /\ lateSends' = (IF stop THEN lateSends + 1 ELSE lateSends)
<1>1. ex.packet \in Requests
  BY DEF TypeOK
<1> QED
  BY <1>1 DEF TypeOK, Transmit

(* Updating the locals of an exchange.                                     *)
LEMMA LocalsTyped ==
    ASSUME NEW e \in [ step : Steps, packet : Requests, started : Int, deadline : Int,
                       retryAt : Int, interval : Int, sends : Nat ],
           NEW a \in Int, NEW b \in Int, NEW c \in Int, NEW n \in Nat,
           NEW f \in { [e EXCEPT !.started = a, !.deadline = b, !.retryAt = c, !.sends = n],
                       [e EXCEPT !.interval = a, !.retryAt = b, !.sends = n] }
    PROVE  /\ f \in [ step : Steps, packet : Requests, started : Int, deadline : Int,
                       retryAt : Int, interval : Int, sends : Nat ]
           /\ f.step = e.step
  OBVIOUS

LEMMA InvariantSendFirst == ASSUME IInv, SendFirst PROVE IInv'
<1> USE DEF IInv
<1>1. CASE pc' = "poll" /\ Goto("send", "poll") /\ Transmit
           /\ ex' = [ex EXCEPT !.started = now, !.deadline = now + Timeout,
                               !.retryAt = now + RetryInterval, !.sends = 1]
           /\ UNCHANGED <<wakeAt, code, faults>>
  <2>1. pc = "send" /\ UNCHANGED <<now, heard, offer, lease, stop, released>>
    BY <1>1 DEF SendFirst, Goto
  <2>2. ex' \in [ step : Steps, packet : Requests, started : Int, deadline : Int,
                  retryAt : Int, interval : Int, sends : Nat ] /\ ex'.step = ex.step
    <3>1. now \in Int /\ now + Timeout \in Int /\ now + RetryInterval \in Int
      BY TimesAssumption DEF TypeOK
    <3> QED
      BY <1>1, <3>1, LocalsTyped DEF TypeOK
  <2>3. requests' \subseteq Requests /\ UNCHANGED <<net, granted, answers>>
        /\ lateSends' = (IF stop THEN lateSends + 1 ELSE lateSends)
    BY <1>1, TransmitTyped
  <2>4. LateCount'
    BY <1>1, <2>1, <2>2, <2>3 DEF LateCount
  <2>5. TypeOK'
    BY <1>1, <2>1, <2>2, <2>3, <2>4 DEF TypeOK, LateCount, Pcs, Exchanging
  <2> QED
    BY <1>1, <2>1, <2>2, <2>3, <2>4, <2>5
       DEF Located, Filtered, AcksGranted, LeaseGranted, Exchanging
<1>2. CASE pc = "send" /\ Fault /\ Raise("error") /\ UNCHANGED <<ex, lateSends, netVars>>
  <2>1. /\ pc' \in {"sleep", "release"} /\ (pc' = "sleep" => lease # NoLease)
        /\ wakeAt' \in Int /\ code' \in {0, 4, 5}
    BY <1>2, RaiseEnds DEF Exchanging
  <2>2. faults' \in 0..MaxFaults
    BY <1>2, TimesAssumption DEF Fault, TypeOK
  <2>3. UNCHANGED <<now, heard, offer, lease, stop, released>>
    BY DEF SendFirst
  <2> QED
    BY <1>2, <2>1, <2>2, <2>3 DEF TypeOK, Located, Filtered, AcksGranted,
       LeaseGranted, LateCount, Exchanging, Pcs, netVars
<1> QED
  BY <1>1, <1>2 DEF SendFirst, Goto

LEMMA InvariantPoll == ASSUME IInv, Poll PROVE IInv'
<1> USE DEF IInv
<1>1. pc = "poll" /\ UNCHANGED <<now, ex, heard, offer, lease, stop, released, lateSends,
                                 netVars, faults>>
  BY DEF Poll
<1>2. CASE heard # NoReply /\ pc' = "collect" /\ UNCHANGED <<wakeAt, code>>
  BY <1>1, <1>2 DEF TypeOK, Located, Filtered, AcksGranted, LeaseGranted, LateCount,
     Exchanging, Pcs, netVars
<1>3. CASE ~stop /\ pc' = "resend" /\ UNCHANGED <<wakeAt, code>>
  BY <1>1, <1>3 DEF TypeOK, Located, Filtered, AcksGranted, LeaseGranted, LateCount,
     Exchanging, Pcs, netVars
<1>4. CASE \E why \in {"stopped", "error"} : Raise(why)
  <2>1. /\ pc' \in {"sleep", "release"} /\ (pc' = "sleep" => lease # NoLease)
        /\ wakeAt' \in Int /\ code' \in {0, 4, 5}
    BY <1>1, <1>4, RaiseEnds DEF Exchanging
  <2> QED
    BY <1>1, <2>1 DEF TypeOK, Located, Filtered, AcksGranted, LeaseGranted, LateCount,
       Exchanging, Pcs, netVars
<1> QED
  BY <1>2, <1>3, <1>4 DEF Poll

LEMMA InvariantResend == ASSUME IInv, Resend PROVE IInv'
<1> USE DEF IInv
<1>1. CASE Goto("resend", "poll") /\ Transmit
           /\ ex' = [ex EXCEPT !.interval = 2 * ex.interval,
                               !.retryAt = now + 2 * ex.interval, !.sends = ex.sends + 1]
           /\ UNCHANGED <<wakeAt, code, faults>>
  <2>1. pc = "resend" /\ pc' = "poll" /\ UNCHANGED <<now, heard, offer, lease, stop, released>>
    BY <1>1 DEF Resend, Goto
  <2>2. ex' \in [ step : Steps, packet : Requests, started : Int, deadline : Int,
                  retryAt : Int, interval : Int, sends : Nat ] /\ ex'.step = ex.step
    <3>1. 2 * ex.interval \in Int /\ now + 2 * ex.interval \in Int /\ ex.sends + 1 \in Nat
      BY DEF TypeOK
    <3> QED
      BY <1>1, <3>1, LocalsTyped DEF TypeOK
  <2>3. requests' \subseteq Requests /\ UNCHANGED <<net, granted, answers>>
        /\ lateSends' = (IF stop THEN lateSends + 1 ELSE lateSends)
    BY <1>1, TransmitTyped
  <2>4. LateCount'
    BY <2>1, <2>2, <2>3 DEF LateCount
  <2>5. TypeOK'
    BY <1>1, <2>1, <2>2, <2>3, <2>4 DEF TypeOK, LateCount, Pcs, Exchanging
  <2> QED
    BY <1>1, <2>1, <2>2, <2>3, <2>4, <2>5
       DEF Located, Filtered, AcksGranted, LeaseGranted, Exchanging
<1>2. CASE pc = "resend" /\ Fault /\ Raise("error") /\ UNCHANGED <<ex, lateSends, netVars>>
  <2>1. /\ pc' \in {"sleep", "release"} /\ (pc' = "sleep" => lease # NoLease)
        /\ wakeAt' \in Int /\ code' \in {0, 4, 5}
    BY <1>2, RaiseEnds DEF Exchanging
  <2>2. faults' \in 0..MaxFaults
    BY <1>2, TimesAssumption DEF Fault, TypeOK
  <2>3. UNCHANGED <<now, heard, offer, lease, stop, released>>
    BY DEF Resend
  <2> QED
    BY <1>2, <2>1, <2>2, <2>3 DEF TypeOK, Located, Filtered, AcksGranted,
       LeaseGranted, LateCount, Exchanging, Pcs, netVars
<1> QED
  BY <1>1, <1>2 DEF Resend

(* A new lease: granted, and not over before it starts.                    *)
LEMMA NewLeaseTyped ==
    ASSUME IInv, heard \in Replies,
           lease' = [server |-> heard.server, ip |-> heard.ip,
                     term |-> heard.term, acquired |-> now]
    PROVE  /\ lease' \in Leases /\ lease' # NoLease
           /\ lease'.server = heard.server /\ lease'.ip = heard.ip /\ lease'.term = heard.term
  BY NoneAssumption DEF IInv, TypeOK, Leases, Replies

LEMMA InvariantCollect == ASSUME IInv, Collect PROVE IInv'
<1> USE DEF IInv
<1>1. pc = "collect" /\ UNCHANGED <<now, stop, released, lateSends, netVars, faults>>
  BY DEF Collect
<1>2. heard # NoReply /\ heard \in Replies
  BY <1>1 DEF Located, TypeOK
<1>3. ASSUME NEW why, Raise(why), UNCHANGED <<ex, heard, offer, lease>> PROVE IInv'
  <2>1. /\ pc' \in {"sleep", "release"} /\ (pc' = "sleep" => lease # NoLease)
        /\ wakeAt' \in Int /\ code' \in {0, 4, 5}
    BY <1>1, <1>3, RaiseEnds DEF Exchanging
  <2> QED
    BY <1>1, <1>3, <2>1 DEF TypeOK, Located, Filtered, AcksGranted, LeaseGranted, LateCount,
       Exchanging, Pcs, netVars
<1>4. CASE ex.step = "offer" /\ heard.ip # NoAddr /\ offer' = heard /\ UNCHANGED lease
           /\ StartExchange("collect", "ack", Message("request", heard.server, heard.ip))
           /\ UNCHANGED <<wakeAt, code>>
  <2>1. Message("request", heard.server, heard.ip) \in Requests
    BY <1>2, MessageTyped DEF Replies
  <2>2. now \in Int
    BY DEF TypeOK
  <2>3. ex' \in [ step : Steps, packet : Requests, started : Int, deadline : Int,
                  retryAt : Int, interval : Int, sends : Nat ]
        /\ ex'.step = "ack"
    BY <1>4, <2>1, <2>2, ExchangeTyped DEF StartExchange, Exchange, Steps
  <2>4. pc' = "listen" /\ heard' = NoReply
    BY <1>4 DEF StartExchange, Goto
  <2> QED
    BY <1>1, <1>2, <1>4, <2>3, <2>4 DEF TypeOK, Located, Filtered, AcksGranted, LeaseGranted,
       LateCount, Exchanging, Pcs, netVars
<1>5. CASE /\ heard.kind # "nak" /\ ex.step # "offer"
           /\ lease' = [server |-> heard.server, ip |-> heard.ip,
                        term |-> heard.term, acquired |-> now]
           /\ pc' \in {"configure", "renewal"} /\ wakeAt' \in Int
           /\ UNCHANGED <<code, ex, heard, offer>>
           /\ (pc' = "renewal" => ex.step # "ack")
  <2>1. /\ lease' \in Leases /\ lease' # NoLease
        /\ lease'.server = heard.server /\ lease'.ip = heard.ip /\ lease'.term = heard.term
    BY <1>2, <1>5, NewLeaseTyped
  <2>2. heard.kind = "ack" /\ heard.term.lease > 0
    BY <1>1, <1>2, <1>5 DEF Filtered, Exchanging
  <2>3. <<heard.server, heard.ip>> \in granted
    BY <1>2, <2>2 DEF AcksGranted
  <2>4. TypeOK'
    BY <1>1, <1>5, <2>1 DEF TypeOK, Pcs, netVars
  <2>5. AcksGranted'
    BY <1>1, <1>5, <2>1, <2>3 DEF AcksGranted, LeaseGranted, netVars
  <2> QED
    BY <1>1, <1>2, <1>5, <2>1, <2>2, <2>4, <2>5 DEF Located, Filtered, LateCount, Exchanging
<1>6. CASE heard.kind = "nak" /\ Raise("nak") /\ UNCHANGED <<ex, heard, offer, lease>>
  BY <1>3, <1>6
<1>7. CASE heard.kind # "nak" /\ CollectOffer
  BY <1>3, <1>4, <1>7 DEF CollectOffer
<1>8. CASE heard.kind # "nak" /\ CollectAck
  <2>1. now + ConfigTime \in Int
    BY TimesAssumption DEF TypeOK
  <2>2. CASE heard.mask /\ heard.server = offer.server /\ heard.ip = offer.ip
    BY <1>5, <1>8, <2>1, <2>2 DEF CollectAck
  <2>3. CASE ~(heard.mask /\ heard.server = offer.server /\ heard.ip = offer.ip)
    BY <1>3, <1>8, <2>3 DEF CollectAck
  <2> QED
    BY <2>2, <2>3
<1>9. CASE heard.kind # "nak" /\ CollectRenewal
  <2>1. wakeAt \in Int
    BY DEF TypeOK
  <2>2. CASE heard.mask
    BY <1>5, <1>9, <2>1, <2>2 DEF CollectRenewal
  <2>3. CASE ~heard.mask
    BY <1>3, <1>9, <2>3 DEF CollectRenewal
  <2> QED
    BY <2>2, <2>3
<1> QED
  BY <1>6, <1>7, <1>8, <1>9 DEF Collect

LEMMA InvariantConfigure == ASSUME IInv, Configure PROVE IInv'
<1> USE DEF IInv
<1>1. pc = "configure" /\ lease # NoLease
      /\ UNCHANGED <<now, ex, heard, offer, lease, stop, released, lateSends, netVars>>
  BY DEF Configure, Goto, Located
<1>2. pc' \in {"renewal", "expiry", "release"}
  BY DEF Configure, Goto
<1>3. faults' = faults \/ Fault
  BY DEF Configure
<1>4. faults' \in 0..MaxFaults /\ code' \in {0, 4, 5}
  <2>1. code' = code \/ code' = 5
    BY DEF Configure
  <2>2. faults' \in 0..MaxFaults
    BY <1>3, TimesAssumption DEF Fault, TypeOK
  <2> QED
    BY <2>1, <2>2 DEF TypeOK
<1>5. wakeAt' \in Int
  <2>1. now + lease.term.lease \in Int /\ wakeAt \in Int
    BY <1>1, InstantsTyped DEF TypeOK
  <2>2. wakeAt' \in {wakeAt, now + lease.term.lease}
    BY DEF Configure
  <2> QED
    BY <2>1, <2>2
<1> QED
  BY <1>1, <1>2, <1>4, <1>5 DEF TypeOK, Located, Filtered, AcksGranted, LeaseGranted,
     LateCount, Exchanging, Pcs, netVars

LEMMA InvariantKeepLease == ASSUME IInv, KeepLease PROVE IInv'
<1> USE DEF IInv
<1>1. pc = "renewal" /\ lease # NoLease
      /\ UNCHANGED <<now, offer, lease, stop, code, released, lateSends, faults>>
  BY DEF KeepLease, Located
<1>2. CASE KeepWaiting \/ GiveUp
  <2>1. pc' \in {"sleep", "release"} /\ UNCHANGED <<ex, heard, netVars>> /\ wakeAt' \in Int
    BY <1>1, <1>2, InstantsTyped DEF KeepWaiting, GiveUp, Goto, TypeOK
  <2> QED
    BY <1>1, <2>1 DEF TypeOK, Located, Filtered, AcksGranted, LeaseGranted, LateCount,
       Exchanging, Pcs, netVars
<1>3. CASE Renew
  <2>1. ~stop /\ NewXid /\ UNCHANGED wakeAt /\ now \in Int
    BY <1>3 DEF Renew, TypeOK
  <2>2. /\ Message("renew", lease.server, lease.ip) \in Requests
        /\ Message("rebind", NoServer, lease.ip) \in Requests
    BY <1>1, InstantsTyped, MessageTyped
  <2>3. PICK step \in {"renew", "rebind"}, packet \in Requests :
            StartExchange("renewal", step, packet)
    BY <1>3, <2>2 DEF Renew
  <2>4. ex' \in [ step : Steps, packet : Requests, started : Int, deadline : Int,
                  retryAt : Int, interval : Int, sends : Nat ]
        /\ ex'.step \in {"renew", "rebind"}
    BY <2>1, <2>3, ExchangeTyped DEF StartExchange, Exchange, Steps
  <2>5. pc' = "listen" /\ heard' = NoReply
    BY <2>3 DEF StartExchange, Goto
  <2>6. TypeOK'
    BY <1>1, <2>1, <2>4, <2>5, NewXidInv DEF TypeOK, Pcs, Exchanging
  <2>7. AcksGranted'
    BY <1>1, <2>1, <2>5, NewXidInv DEF AcksGranted, LeaseGranted
  <2> QED
    BY <1>1, <2>1, <2>4, <2>5, <2>6, <2>7 DEF Located, Filtered, LateCount, Exchanging
<1> QED
  BY <1>2, <1>3 DEF KeepLease

LEMMA InvariantWake == ASSUME IInv, Wake \/ Release PROVE IInv'
<1> USE DEF IInv, Goto
<1>1. CASE Wake
  BY <1>1 DEF Wake, TypeOK, Located, Filtered, AcksGranted, LeaseGranted, LateCount,
     Exchanging, Pcs, netVars
<1>2. CASE Release
  <2>1. pc' = "done" /\ UNCHANGED <<now, ex, heard, offer, lease, wakeAt, stop, lateSends, netVars>>
    BY <1>2 DEF Release
  <2>2. faults' \in 0..MaxFaults /\ code' \in {0, 4, 5}
    BY <1>2, TimesAssumption DEF Release, Fault, TypeOK
  <2>3. released' \in BOOLEAN
    BY <1>2 DEF Release, TypeOK
  <2> QED
    BY <2>1, <2>2, <2>3 DEF TypeOK, Located, Filtered, AcksGranted, LeaseGranted, LateCount,
       Exchanging, Pcs, netVars
<1> QED
  BY <1>1, <1>2

LEMMA InvariantHear == ASSUME IInv, NEW m \in net, Hear(m) PROVE IInv'
<1> USE DEF IInv
<1>1. heard' = m /\ pc \in Exchanging \ {"listen"} /\ Accepts(m)
      /\ UNCHANGED <<now, clientVars, stop, netVars, faults>>
  BY DEF Hear
<1>2. m \in Replies /\ m # NoReply
  BY NoneAssumption DEF TypeOK
<1>3. TypeOK'
  BY <1>1, <1>2 DEF TypeOK, clientVars, netVars
<1>4. AcksGranted'
  BY <1>1 DEF AcksGranted, LeaseGranted, clientVars, netVars
<1>5. Filtered'
  BY <1>1 DEF Filtered, Accepts, clientVars, Exchanging
<1> QED
  BY <1>1, <1>2, <1>3, <1>4, <1>5 DEF Located, LateCount, clientVars, Exchanging

LEMMA InvariantAnswer ==
    ASSUME IInv, NEW s \in Servers, NEW q \in requests, Answer(s, q) PROVE IInv'
<1> USE DEF IInv
<1>1. UNCHANGED <<now, clientVars, heard, stop, requests, faults>>
      /\ answers' \in 0..MaxAnswers
  BY TimesAssumption DEF Answer, TypeOK
<1>2. q \in Requests
  BY DEF TypeOK
<1>3. PICK r \in Replies :
        /\ net' = net \cup {r}
        /\ granted \subseteq granted'
        /\ r.kind = "ack" => <<r.server, r.ip>> \in granted'
        /\ granted' \subseteq Servers \X (Addrs \cup {NoAddr})
  <2>1. PICK ip \in Addrs \cup {NoAddr}, mask \in BOOLEAN, term \in Terms,
             kind \in {"offer", "ack", "nak"} :
          /\ net' = net \cup {[ kind |-> kind, server |-> s, ip |-> ip, mask |-> mask,
                                term |-> term, fresh |-> q.fresh ]}
          /\ granted' = IF kind = "ack" THEN granted \cup {<<s, ip>>} ELSE granted
    BY DEF Answer
  <2> DEFINE r == [ kind |-> kind, server |-> s, ip |-> ip, mask |-> mask,
                    term |-> term, fresh |-> q.fresh ]
  <2>2. q.fresh \in BOOLEAN
    BY <1>2 DEF Requests
  <2>3. r \in Replies /\ r.kind = kind /\ r.server = s /\ r.ip = ip
    BY <2>2 DEF Replies
  <2>4. <<s, ip>> \in Servers \X (Addrs \cup {NoAddr})
    OBVIOUS
  <2>5. /\ granted \subseteq granted' /\ (kind = "ack" => <<s, ip>> \in granted')
        /\ granted' \subseteq Servers \X (Addrs \cup {NoAddr})
    BY <2>1, <2>4 DEF TypeOK
  <2> QED
    BY <2>1, <2>3, <2>5
<1>4. TypeOK'
  BY <1>1, <1>3 DEF TypeOK, clientVars
<1>5. AcksGranted'
  <2>1. \A m \in net' : m.kind = "ack" => <<m.server, m.ip>> \in granted'
    BY <1>3 DEF AcksGranted
  <2> QED
    BY <1>1, <1>3, <2>1 DEF AcksGranted, LeaseGranted, clientVars
<1> QED
  BY <1>1, <1>4, <1>5 DEF Located, Filtered, LateCount, clientVars, Exchanging

LEMMA InvariantTime == ASSUME IInv, Stop \/ Tick \/ UNCHANGED vars PROVE IInv'
<1> USE DEF IInv
<1>1. UNCHANGED <<clientVars, heard, netVars, faults>>
  BY DEF Stop, Tick, vars
<1>2. now' \in 0..MaxTime
  BY TimesAssumption DEF Stop, Tick, vars, TypeOK
<1>3. stop' \in BOOLEAN /\ (~stop' => ~stop)
  BY DEF Stop, Tick, vars, TypeOK
<1>4. TypeOK'
  BY <1>1, <1>2, <1>3 DEF TypeOK, clientVars, netVars
<1>5. AcksGranted'
  BY <1>1 DEF AcksGranted, LeaseGranted, clientVars, netVars
<1> QED
  BY <1>1, <1>3, <1>4, <1>5 DEF Located, Filtered, LateCount, clientVars, Exchanging

LEMMA InvariantStep == ASSUME IInv, [Next]_vars PROVE IInv'
<1>1. CASE Client
  BY <1>1, InvariantHandshake, InvariantListen, InvariantSendFirst, InvariantPoll,
     InvariantResend, InvariantCollect, InvariantConfigure, InvariantKeepLease, InvariantWake
     DEF Client
<1>2. CASE \E m \in net : Hear(m)
  BY <1>2, InvariantHear
<1>3. CASE \E s \in Servers, q \in requests : Answer(s, q)
  BY <1>3, InvariantAnswer
<1>4. CASE Stop \/ Tick \/ Terminated \/ UNCHANGED vars
  BY <1>4, InvariantTime DEF Terminated
<1> QED
  BY <1>1, <1>2, <1>3, <1>4 DEF Next

THEOREM Invariant == Spec => []IInv
<1>1. Init => IInv
  BY InvariantInit
<1>2. IInv /\ [Next]_vars => IInv'
  BY InvariantStep
<1> QED
  BY <1>1, <1>2, PTL DEF Spec

-----------------------------------------------------------------------------
(* The second inductive invariant, about time and about the exit code; it  *)
(* rests on the first. 2 ^ n is hidden behind a name, for the provers.     *)
Doubled(n) == 2 ^ n

(* Doubling is what ^ does: a set with one element more has twice the      *)
(* subsets (the library counts subsets with ^ and says nothing else of it).*)
LEMMA PowerDoubles ==
    ASSUME NEW n \in Nat
    PROVE  2 ^ n \in Nat /\ 2 ^ (n + 1) = 2 * 2 ^ n
<1> DEFINE S == 1 .. n
           T == SUBSET S
           U == {A \cup {n + 1} : A \in T}
           f == [A \in T |-> A \cup {n + 1}]
<1>1. /\ IsFiniteSet(S) /\ Cardinality(S) = n
      /\ IsFiniteSet(S \cup {n + 1}) /\ Cardinality(S \cup {n + 1}) = n + 1
  <2>1. IsFiniteSet(S) /\ Cardinality(S) = n /\ n + 1 \notin S
    BY FS_Interval
  <2> HIDE DEF S
  <2> QED
    BY <2>1, FS_AddElement
<1>2. IsFiniteSet(T) /\ Cardinality(T) = 2 ^ n
  BY <1>1, FS_SUBSET, Zenon
<1>3. Cardinality(SUBSET (S \cup {n + 1})) = 2 ^ (n + 1)
  BY <1>1, FS_SUBSET, Zenon
<1>4. IsFiniteSet(U) /\ Cardinality(U) = Cardinality(T)
  <2>1. \A A, B \in T : A \cup {n + 1} = B \cup {n + 1} => A = B
    <3>1. n + 1 \notin S
      OBVIOUS
    <3> QED
      BY <3>1
  <2>2. f \in Bijection(T, U)
    <3>1. f \in [T -> U] /\ \A B \in U : \E A \in T : f[A] = B
      OBVIOUS
    <3>2. \A A, B \in T : f[A] = f[B] => A = B
      BY <2>1
    <3> QED
      BY <3>1, <3>2 DEF Bijection, Injection, Surjection, IsInjective
  <2> QED
    BY <1>2, <2>2, FS_Bijection DEF ExistsBijection
<1>5. SUBSET (S \cup {n + 1}) = T \cup U
  <2>1. ASSUME NEW A \in SUBSET (S \cup {n + 1}), n + 1 \in A PROVE A \in U
    <3>1. A \ {n + 1} \in T /\ A = (A \ {n + 1}) \cup {n + 1}
      BY <2>1
    <3> QED
      BY <3>1
  <2>2. \A A \in SUBSET (S \cup {n + 1}) : n + 1 \notin A => A \in T
    OBVIOUS
  <2>3. \A A \in T \cup U : A \in SUBSET (S \cup {n + 1})
    OBVIOUS
  <2> HIDE DEF T, U
  <2> QED
    BY <2>1, <2>2, <2>3
<1>6. T \cap U = {}
  OBVIOUS
<1> HIDE DEF S, T, U
<1>7. Cardinality(T) \in Nat
  BY <1>2, FS_CardinalityType
<1>8. Cardinality(T \cup U) = 2 * Cardinality(T)
  BY <1>2, <1>4, <1>6, <1>7, FS_Union, FS_EmptySet
<1>9. 2 ^ n \in Nat
  BY <1>2, <1>7, Zenon
<1>10. 2 ^ (n + 1) = 2 * 2 ^ n
  BY <1>2, <1>3, <1>5, <1>8, Zenon
<1> QED
  BY <1>9, <1>10, Zenon

(* What the invariant needs of the retry intervals: they add up.           *)
LEMMA IntervalsAddUp ==
    /\ RetryInterval * Doubled(0) = RetryInterval
    /\ \A n \in Nat :
        /\ Doubled(n) \in Nat
        /\ RetryInterval * Doubled(n) \in Nat
        /\ RetryInterval * Doubled(n + 1) = 2 * (RetryInterval * Doubled(n))
        /\ RetryInterval * (Doubled(n) - 1) = RetryInterval * Doubled(n) - RetryInterval
<1>1. Doubled(0) = 1
  BY DEF Doubled
<1>2. ASSUME NEW n \in Nat
      PROVE  Doubled(n) \in Nat /\ Doubled(n + 1) = 2 * Doubled(n)
  BY PowerDoubles, Zenon DEF Doubled
<1>3. RetryInterval \in Nat
  BY TimesAssumption
<1> QED
  BY <1>1, <1>2, <1>3

(* Requests of one exchange: the interval has doubled with every one after *)
(* the first, the last left when the intervals before it were over, and    *)
(* all left before the deadline.                                           *)
Paced ==
    /\ ex.sends = 0 => ex.interval = RetryInterval
    /\ ex.sends > 0 =>
        /\ ex.interval = RetryInterval * Doubled(ex.sends - 1)
        /\ ex.interval - RetryInterval <= ex.retryAt - ex.interval - ex.started
        /\ ex.retryAt - ex.interval - ex.started < Timeout
    /\ pc \in {"listen", "send"} => ex.sends = 0
    /\ pc \in {"poll", "resend", "collect"} =>
        ex.sends > 0 /\ ex.deadline = ex.started + Timeout
    /\ pc = "resend" => ex.retryAt <= now /\ now < ex.deadline

(* How far a lease can be overrun: a renewal starts while it is valid, and *)
(* no wait ends after the deadline or the instant it waits for.            *)
Valid ==
    /\ pc = "handshake" \/ (pc \in Exchanging /\ ex.step \in {"offer", "ack"})
        => lease = NoLease
    /\ pc \in Exchanging /\ ex.step \in {"renew", "rebind"} =>
        /\ now <= ex.deadline
        /\ ex.deadline < ExpiresAt + StartupTimeout
                         + (IF pc \in {"listen", "send"} THEN 0 ELSE Timeout)
    /\ pc = "configure" => now <= wakeAt /\ wakeAt <= lease.acquired + ConfigTime
    /\ pc = "sleep" =>
        /\ now < ExpiresAt + StartupTimeout + Timeout
        /\ wakeAt <= ExpiresAt \/ wakeAt <= now
    /\ pc = "expiry" => now <= wakeAt /\ wakeAt <= ExpiresAt + ConfigTime

(* Why the client may report success.                                      *)
Honest ==
    /\ pc = "release" /\ code = 0 /\ lease = NoLease => stop
    /\ HonestCode

TInv == Paced /\ Valid /\ Honest

LEMMA TimedInit == Init => TInv
<1> SUFFICES ASSUME Init PROVE TInv
  OBVIOUS
<1> USE DEF Init
<1>1. Paced
  BY DEF Paced, Exchange
<1>2. Valid
  BY DEF Valid, Exchange
<1>3. Honest
  BY DEF Honest, HonestCode
<1> QED
  BY <1>1, <1>2, <1>3 DEF TInv

(* The order of a lease's instants.                                        *)
LEMMA InstantsBounded ==
    ASSUME IInv, lease # NoLease
    PROVE  /\ lease.acquired \in Int /\ lease.term.lease \in Int
           /\ RenewAt \in Int /\ RebindAt \in Int /\ ExpiresAt \in Int
           /\ lease.acquired < RenewAt /\ RenewAt <= RebindAt /\ RebindAt <= ExpiresAt
           /\ lease.term.lease > 1 => RebindAt < ExpiresAt
           /\ ExpiresAt = lease.acquired + lease.term.lease
<1>1. lease \in Leases /\ lease.acquired \in Int /\ lease.term.lease > 0
      /\ lease.term \in [lease : Int, t1 : Int, t2 : Int]
  BY TermsAssumption DEF IInv, TypeOK, Filtered, Leases
<1> QED
  BY <1>1, TimersNormalised DEF RenewAt, RebindAt, ExpiresAt

(* The clock, the waits and the locals of an exchange are numbers.         *)
LEMMA NumbersTyped ==
    ASSUME IInv
    PROVE  /\ now \in Int /\ wakeAt \in Int
           /\ Timeout \in Int /\ Timeout > 0 /\ RetryInterval \in Int /\ RetryInterval > 0
           /\ StartupTimeout \in Nat /\ ConfigTime \in Nat /\ RetryWait \in Nat
           /\ ex.started \in Int /\ ex.deadline \in Int /\ ex.retryAt \in Int
           /\ ex.interval \in Int /\ ex.sends \in Nat /\ ex.step \in Steps
<1>1. now \in Int /\ wakeAt \in Int
  BY DEF IInv, TypeOK
<1>2. ex.started \in Int /\ ex.deadline \in Int /\ ex.retryAt \in Int
      /\ ex.interval \in Int /\ ex.sends \in Nat /\ ex.step \in Steps
  BY DEF IInv, TypeOK
<1> QED
  BY <1>1, <1>2, TimesAssumption

(* Whatever fails in an exchange, the pause that follows ends with the     *)
(* lease, and only a stop ends a handshake with exit code 0.               *)
LEMMA TimedRaise ==
    ASSUME IInv, TInv, pc \in Exchanging,
           NEW why, Raise(why), why = "stopped" => stop,
           UNCHANGED <<now, ex, lease, stop, released>>
    PROVE  TInv'
<1>1. ex.step \in Steps /\ now \in Int /\ RetryWait \in Nat /\ Timeout \in Int /\ Timeout > 0
      /\ StartupTimeout \in Nat /\ ex.deadline \in Int
  BY NumbersTyped
<1>2. pc' \in {"sleep", "release"}
  BY RaiseEnds
<1>3. Paced'
  BY <1>2 DEF Paced, TInv
<1>4. CASE ex.step \in {"renew", "rebind"} /\ why = "error"
  <2>1. lease # NoLease
    BY <1>4 DEF IInv, Located
  <2>2. RebindAt \in Int /\ ExpiresAt \in Int /\ RebindAt <= ExpiresAt
    BY <2>1, InstantsBounded
  <2>3. ExpiresAt' = ExpiresAt
    BY DEF ExpiresAt
  <2>4. pc' = "sleep" /\ (wakeAt' <= ExpiresAt \/ wakeAt' <= now)
    BY <1>1, <1>4, <2>2 DEF Raise, Least, Greatest
  <2>5. now < ExpiresAt + StartupTimeout + Timeout
    BY <1>1, <1>4, <2>2 DEF TInv, Valid
  <2>6. Valid'
    BY <2>3, <2>4, <2>5 DEF Valid, Exchanging
  <2>7. Honest'
    BY <2>4 DEF Honest, HonestCode
  <2> QED
    BY <1>3, <2>6, <2>7 DEF TInv
<1>5. CASE ~(ex.step \in {"renew", "rebind"} /\ why = "error")
  <2>1. pc' = "release" /\ code' = IF ex.step \in {"offer", "ack"} /\ why # "stopped" THEN 4 ELSE code
    BY <1>5 DEF Raise
  <2>2. code' = 0 /\ lease' = NoLease => stop'
    <3>1. ex.step \notin {"offer", "ack"} => lease # NoLease
      BY <1>1 DEF Steps, IInv, Located
    <3> QED
      BY <2>1, <3>1
  <2> QED
    BY <1>3, <2>1, <2>2 DEF TInv, Valid, Exchanging, Honest, HonestCode
<1> QED
  BY <1>4, <1>5

(* Steps that leave the client as it is.                                   *)
LEMMA TimedOthers ==
    ASSUME TInv, UNCHANGED <<now, pc, ex, lease, wakeAt, code, released>>, stop => stop'
    PROVE  TInv'
<1>1. Paced'
  BY DEF TInv, Paced
<1>2. ExpiresAt' = ExpiresAt
  BY DEF ExpiresAt
<1>3. Valid'
  BY <1>2 DEF TInv, Valid
<1>4. Honest'
  BY DEF TInv, Honest, HonestCode
<1> QED
  BY <1>1, <1>3, <1>4 DEF TInv

(* An exchange begins with no request sent and the sniffer's deadline.     *)
LEMMA ExchangeBegins ==
    ASSUME IInv, NEW from, NEW step \in Steps, NEW packet, StartExchange(from, step, packet)
    PROVE  /\ pc = from /\ pc' = "listen"
           /\ ex'.sends = 0 /\ ex'.interval = RetryInterval /\ ex'.step = step
           /\ ex'.deadline = now + StartupTimeout
  BY DEF StartExchange, Exchange, Goto

LEMMA TimedHandshake == ASSUME IInv, TInv, Handshake PROVE TInv'
<1>1. /\ pc = "handshake" /\ pc' = "listen"
      /\ ex'.sends = 0 /\ ex'.interval = RetryInterval /\ ex'.step = "offer"
  BY ExchangeBegins DEF Handshake, Steps
<1>2. UNCHANGED lease /\ lease = NoLease
  BY <1>1 DEF Handshake, TInv, Valid
<1> QED
  BY <1>1, <1>2 DEF TInv, Paced, Valid, Honest, HonestCode, Exchanging

LEMMA TimedListen == ASSUME IInv, TInv, SnifferStarts \/ SnifferFails PROVE TInv'
<1>1. CASE SnifferStarts
  <2>1. pc = "listen" /\ pc' = "send" /\ UNCHANGED <<now, ex, lease, stop, released, wakeAt, code>>
    BY <1>1 DEF SnifferStarts, Goto
  <2>2. ExpiresAt' = ExpiresAt
    BY <2>1 DEF ExpiresAt
  <2> QED
    BY <2>1, <2>2 DEF TInv, Paced, Valid, Honest, HonestCode, Exchanging
<1>2. CASE SnifferFails
  <2>1. pc \in Exchanging /\ UNCHANGED <<now, ex, lease, stop, released>>
    BY <1>2 DEF SnifferFails, Exchanging
  <2>2. \E why : Raise(why) /\ (why = "stopped" => stop)
    BY <1>2 DEF SnifferFails
  <2> QED
    BY <2>1, <2>2, TimedRaise
<1> QED
  BY <1>1, <1>2

LEMMA TimedSendFirst == ASSUME IInv, TInv, SendFirst PROVE TInv'
<1>1. pc = "send" /\ UNCHANGED <<now, lease, stop, released>>
  BY DEF SendFirst, Goto
<1>2. CASE Raise("error") /\ UNCHANGED ex
  BY <1>1, <1>2, TimedRaise DEF Exchanging
<1>3. CASE /\ pc' = "poll" /\ UNCHANGED <<wakeAt, code>>
           /\ ex' = [ex EXCEPT !.started = now, !.deadline = now + Timeout,
                               !.retryAt = now + RetryInterval, !.sends = 1]
  <2>1. /\ ex'.started = now /\ ex'.deadline = now + Timeout /\ ex'.sends = 1
        /\ ex'.retryAt = now + RetryInterval /\ ex'.interval = ex.interval /\ ex'.step = ex.step
    BY <1>3 DEF IInv, TypeOK
  <2>2. ex.sends = 0 /\ ex.interval = RetryInterval
    BY <1>1 DEF TInv, Paced
  <2>3. RetryInterval * Doubled(ex'.sends - 1) = RetryInterval
    <3>1. ex'.sends - 1 = 0
      BY <2>1
    <3> QED
      BY <3>1, IntervalsAddUp
  <2>4. Paced'
    BY <1>3, <2>1, <2>2, <2>3, NumbersTyped DEF Paced
  <2>5. ExpiresAt' = ExpiresAt
    BY <1>1 DEF ExpiresAt
  <2>6. Valid'
    <3>1. ASSUME ex.step \in {"renew", "rebind"}
          PROVE  ExpiresAt \in Int /\ now < ExpiresAt + StartupTimeout
      <4>1. lease # NoLease
        BY <1>1, <3>1 DEF IInv, Located, Exchanging
      <4> QED
        BY <1>1, <3>1, <4>1, InstantsBounded, NumbersTyped DEF TInv, Valid, Exchanging
    <3> QED
      BY <1>1, <1>3, <2>1, <2>5, <3>1, NumbersTyped DEF TInv, Valid, Exchanging
  <2>7. Honest'
    BY <1>1, <1>3 DEF TInv, Honest, HonestCode
  <2> QED
    BY <2>4, <2>6, <2>7 DEF TInv
<1> QED
  BY <1>2, <1>3 DEF SendFirst, Goto

LEMMA TimedPoll == ASSUME IInv, TInv, Poll PROVE TInv'
<1>1. pc = "poll" /\ UNCHANGED <<now, ex, lease, stop, released>>
  BY DEF Poll
<1>2. CASE \E why : Raise(why) /\ (why = "stopped" => stop)
  BY <1>1, <1>2, TimedRaise DEF Exchanging
<1>3. CASE /\ pc' \in {"collect", "resend"} /\ UNCHANGED <<wakeAt, code>>
           /\ pc' = "resend" => ex.retryAt <= now /\ now < ex.deadline
  <2>1. ExpiresAt' = ExpiresAt
    BY <1>1 DEF ExpiresAt
  <2>2. Paced'
    BY <1>1, <1>3 DEF TInv, Paced
  <2>3. Valid'
    BY <1>1, <1>3, <2>1 DEF TInv, Valid, Exchanging
  <2> QED
    BY <1>1, <1>3, <2>2, <2>3 DEF TInv, Honest, HonestCode
<1> QED
  BY <1>2, <1>3 DEF Poll

LEMMA TimedResend == ASSUME IInv, TInv, Resend PROVE TInv'
<1>1. pc = "resend" /\ UNCHANGED <<now, lease, stop, released>>
  BY DEF Resend, Goto
<1>2. CASE Raise("error") /\ UNCHANGED ex
  BY <1>1, <1>2, TimedRaise DEF Exchanging
<1>3. CASE /\ pc' = "poll" /\ UNCHANGED <<wakeAt, code>>
           /\ ex' = [ex EXCEPT !.interval = 2 * ex.interval,
                               !.retryAt = now + 2 * ex.interval, !.sends = ex.sends + 1]
  <2>1. /\ ex'.started = ex.started /\ ex'.deadline = ex.deadline /\ ex'.sends = ex.sends + 1
        /\ ex'.retryAt = now + 2 * ex.interval /\ ex'.interval = 2 * ex.interval
        /\ ex'.step = ex.step
    BY <1>3 DEF IInv, TypeOK
  <2>2. /\ ex.sends > 0 /\ ex.deadline = ex.started + Timeout
        /\ ex.interval = RetryInterval * Doubled(ex.sends - 1)
        /\ ex.interval - RetryInterval <= ex.retryAt - ex.interval - ex.started
        /\ ex.retryAt <= now /\ now < ex.deadline
    BY <1>1, NumbersTyped DEF TInv, Paced
  <2>3. ex'.interval = RetryInterval * Doubled(ex'.sends - 1)
    <3>1. ex.sends - 1 \in Nat /\ ex'.sends - 1 = (ex.sends - 1) + 1
      BY <2>1, <2>2, NumbersTyped
    <3> QED
      BY <2>1, <2>2, <3>1, IntervalsAddUp
  <2>4. Paced'
    BY <1>3, <2>1, <2>2, <2>3, NumbersTyped DEF Paced
  <2>5. ExpiresAt' = ExpiresAt
    BY <1>1 DEF ExpiresAt
  <2>6. Valid'
    BY <1>1, <1>3, <2>1, <2>5 DEF TInv, Valid, Exchanging
  <2>7. Honest'
    BY <1>1, <1>3 DEF TInv, Honest, HonestCode
  <2> QED
    BY <2>4, <2>6, <2>7 DEF TInv
<1> QED
  BY <1>2, <1>3 DEF Resend, Goto

LEMMA TimedCollect == ASSUME IInv, TInv, Collect PROVE TInv'
<1>1. pc = "collect" /\ heard # NoReply /\ UNCHANGED <<now, stop, released>>
  BY DEF Collect, IInv, Located
<1>2. CASE \E why \in {"nak", "error"} : Raise(why) /\ UNCHANGED <<ex, lease>>
  BY <1>1, <1>2, TimedRaise DEF Exchanging
<1>3. CASE /\ ex.step = "offer" /\ UNCHANGED <<lease, wakeAt, code>>
           /\ StartExchange("collect", "ack", Message("request", heard.server, heard.ip))
  <2>1. /\ pc' = "listen" /\ ex'.step = "ack"
        /\ ex'.sends = 0 /\ ex'.interval = RetryInterval
    BY <1>3, ExchangeBegins DEF Steps
  <2>2. lease = NoLease
    BY <1>1, <1>3 DEF TInv, Valid, Exchanging
  <2> QED
    BY <1>1, <1>3, <2>1, <2>2 DEF TInv, Paced, Valid, Honest, HonestCode, Exchanging
<1>4. CASE /\ lease' = [server |-> heard.server, ip |-> heard.ip,
                        term |-> heard.term, acquired |-> now]
           /\ pc' \in {"configure", "renewal"}
           /\ pc' = "configure" => wakeAt' = now + ConfigTime
           /\ UNCHANGED <<code, ex>>
  <2>1. lease'.acquired = now
    BY <1>4
  <2>2. Valid'
    BY <1>1, <1>4, <2>1, NumbersTyped DEF Valid, Exchanging
  <2> QED
    BY <1>1, <1>4, <2>2 DEF TInv, Paced, Honest, HonestCode
<1>5. CASE CollectOffer
  BY <1>2, <1>3, <1>5 DEF CollectOffer
<1>6. CASE CollectAck
  BY <1>2, <1>4, <1>6 DEF CollectAck
<1>7. CASE CollectRenewal
  BY <1>2, <1>4, <1>7 DEF CollectRenewal
<1>8. CASE Raise("nak") /\ UNCHANGED <<ex, heard, offer, lease>>
  BY <1>2, <1>8
<1> QED
  BY <1>5, <1>6, <1>7, <1>8 DEF Collect

LEMMA TimedConfigure == ASSUME IInv, TInv, Configure PROVE TInv'
<1>1. pc = "configure" /\ lease # NoLease /\ UNCHANGED <<now, ex, lease, stop, released>>
  BY DEF Configure, Goto, IInv, Located
<1>2. pc' \in {"renewal", "expiry", "release"} /\ (code' = code \/ code' = 5)
      /\ (pc' = "expiry" => wakeAt' = now + lease.term.lease)
  BY DEF Configure, Goto
<1>3. Valid'
  <2>1. now <= wakeAt /\ wakeAt <= lease.acquired + ConfigTime
    BY <1>1 DEF TInv, Valid
  <2>2. lease.term.lease > 0
    BY <1>1 DEF IInv, Filtered
  <2>3. ExpiresAt' = ExpiresAt
    BY <1>1 DEF ExpiresAt
  <2> QED
    BY <1>1, <1>2, <2>1, <2>2, <2>3, InstantsBounded, NumbersTyped DEF Valid, Exchanging
<1> QED
  BY <1>1, <1>2, <1>3 DEF TInv, Paced, Honest, HonestCode

LEMMA TimedKeepLease == ASSUME IInv, TInv, KeepLease PROVE TInv'
<1>1. pc = "renewal" /\ lease # NoLease /\ UNCHANGED <<now, lease, stop, code, released>>
  BY DEF KeepLease, IInv, Located
<1>2. ExpiresAt' = ExpiresAt
  BY <1>1 DEF ExpiresAt
<1>3. CASE KeepWaiting \/ GiveUp
  <2>1. UNCHANGED ex /\ pc' \in {"sleep", "release"}
        /\ (pc' = "sleep" => now < RenewAt /\ wakeAt' = RenewAt)
    BY <1>3 DEF KeepWaiting, GiveUp, Goto
  <2>2. Valid'
    BY <1>1, <1>2, <2>1, InstantsBounded, NumbersTyped DEF Valid, Exchanging
  <2> QED
    BY <1>1, <2>1, <2>2 DEF TInv, Paced, Honest, HonestCode
<1>4. CASE Renew
  <2>1. now < ExpiresAt
    BY <1>4 DEF Renew
  <2>2. /\ pc' = "listen" /\ ex'.step \in {"renew", "rebind"}
        /\ ex'.sends = 0 /\ ex'.interval = RetryInterval
        /\ ex'.deadline = now + StartupTimeout
    <3>1. PICK step \in {"renew", "rebind"} : \E packet : StartExchange("renewal", step, packet)
      BY <1>4 DEF Renew
    <3> QED
      BY <3>1, ExchangeBegins DEF Steps
  <2>3. Valid'
    BY <1>1, <1>2, <2>1, <2>2, InstantsBounded, NumbersTyped DEF Valid, Exchanging
  <2> QED
    BY <1>1, <2>2, <2>3 DEF TInv, Paced, Honest, HonestCode
<1> QED
  BY <1>3, <1>4 DEF KeepLease

LEMMA TimedWake == ASSUME IInv, TInv, Wake \/ Release PROVE TInv'
<1>1. CASE Wake
  <2>1. /\ pc \in {"sleep", "expiry"} /\ pc' \in {"renewal", "release"} /\ lease # NoLease
        /\ UNCHANGED <<now, ex, lease, wakeAt, stop, code, released>>
    BY <1>1 DEF Wake, Goto, IInv, Located
  <2> QED
    BY <2>1 DEF TInv, Paced, Valid, Honest, HonestCode, Exchanging
<1>2. CASE Release
  <2>1. /\ pc = "release" /\ pc' = "done" /\ UNCHANGED <<now, ex, lease, wakeAt, stop>>
    BY <1>2 DEF Release, Goto
  <2>2. code' = 0 => IF lease = NoLease THEN code = 0 ELSE released'
    BY <1>2 DEF Release
  <2> QED
    BY <2>1, <2>2 DEF TInv, Paced, Valid, Honest, HonestCode, Exchanging
<1> QED
  BY <1>1, <1>2

(* Time passes only while every wait in progress lasts.                    *)
LEMMA TimedTick == ASSUME IInv, TInv, Tick PROVE TInv'
<1>1. pc # "done" /\ ~Urgent /\ now' = now + 1
      /\ UNCHANGED <<pc, ex, lease, wakeAt, code, released, stop, heard>>
  BY DEF Tick, clientVars
<1>2. /\ pc \in {"listen", "poll", "sleep", "expiry", "configure"}
      /\ pc \in {"listen", "poll"} => now < ex.deadline
      /\ pc \in {"sleep", "expiry", "configure"} => now < wakeAt
  BY <1>1, NumbersTyped DEF Urgent, Least, IInv, TypeOK, Pcs, Exchanging
<1>3. Paced'
  BY <1>1, <1>2 DEF TInv, Paced
<1>4. ExpiresAt' = ExpiresAt
  BY <1>1 DEF ExpiresAt
<1>5. Valid'
  <2>1. pc = "sleep" => now + 1 < ExpiresAt + StartupTimeout + Timeout
    BY <1>2, InstantsBounded, NumbersTyped DEF IInv, Located, TInv, Valid
  <2> QED
    BY <1>1, <1>2, <1>4, <2>1, NumbersTyped DEF TInv, Valid, Exchanging
<1> QED
  BY <1>1, <1>3, <1>5 DEF TInv, Honest, HonestCode

LEMMA TimedStep == ASSUME IInv, TInv, [Next]_vars PROVE TInv'
<1>1. CASE Client
  BY <1>1, TimedHandshake, TimedListen, TimedSendFirst, TimedPoll, TimedResend,
     TimedCollect, TimedConfigure, TimedKeepLease, TimedWake DEF Client
<1>2. CASE Tick
  BY <1>2, TimedTick
<1>3. CASE \/ \E m \in net : Hear(m)
           \/ \E s \in Servers, q \in requests : Answer(s, q)
           \/ Stop \/ Terminated \/ UNCHANGED vars
  <2>1. UNCHANGED <<now, pc, ex, lease, wakeAt, code, released>> /\ (stop => stop')
    BY <1>3 DEF Hear, Answer, Stop, Terminated, vars, clientVars
  <2> QED
    BY <2>1, TimedOthers
<1> QED
  BY <1>1, <1>2, <1>3 DEF Next

(* The timing invariant holds, by induction beside the first one.          *)
THEOREM TimedInvariant == Spec => []TInv
<1>1. Init => TInv
  BY TimedInit
<1>2. IInv /\ TInv /\ [Next]_vars => TInv'
  BY TimedStep
<1> QED
  BY <1>1, <1>2, Invariant, PTL DEF Spec

-----------------------------------------------------------------------------
(* Results. The variables of DhcpClient keep their types, for every set of *)
(* servers, addresses and lease times, and every time-out.                 *)
THEOREM ClientTypeCorrect == Spec => []TypeOK
<1>1. IInv => TypeOK
  BY DEF IInv
<1> QED
  BY <1>1, Invariant, PTL

(* The lease is one its server has granted, whatever the network does with *)
(* the messages: the reply filter and the checks of handshake suffice.     *)
THEOREM LeaseIsGranted == Spec => []LeaseGranted
<1>1. IInv => LeaseGranted
  BY DEF IInv, AcksGranted
<1> QED
  BY <1>1, Invariant, PTL

(* A lease is renewed, rebound and over in this order, for every T1 and T2 *)
(* that servers may send (the normalisation of _parse_reply).              *)
THEOREM InstantsOrdered == Spec => []TimersOrdered
<1>1. IInv => TimersOrdered
  BY InstantsBounded, Zenon DEF TimersOrdered
<1> QED
  BY <1>1, Invariant, PTL

(* At most two requests leave after the user asked to stop.                *)
THEOREM QuietAfterStop == Spec => []StopQuiet
<1>1. IInv => StopQuiet
  BY DEF IInv, LateCount, StopQuiet
<1> QED
  BY <1>1, Invariant, PTL

(* Retransmissions back off and stay within the time-out, for every retry  *)
(* interval and time-out: the n-th request of an exchange leaves at least  *)
(* 2^(n-1) - 1 intervals after the first, and before the deadline.         *)
THEOREM RetriesWithinBudget == Spec => []RetryBudget
<1>1. ASSUME IInv, TInv PROVE RetryBudget
  <2>1. ASSUME ex.sends > 0
        PROVE  /\ RetryInterval * (Doubled(ex.sends - 1) - 1)
                      <= ex.retryAt - ex.interval - ex.started
               /\ ex.retryAt - ex.interval - ex.started < Timeout
    <3>1. ex.sends - 1 \in Nat
      BY <1>1, <2>1, NumbersTyped
    <3> QED
      BY <1>1, <2>1, <3>1, IntervalsAddUp DEF TInv, Paced
  <2> QED
    BY <2>1, Zenon DEF RetryBudget, Doubled
<1>2. IInv /\ TInv => RetryBudget
  BY <1>1
<1> QED
  BY <1>2, Invariant, TimedInvariant, PTL

(* An expired lease is used no longer than one exchange begun while it was *)
(* valid, or, without renewal, than its configuration took: for every      *)
(* lease time, time-out and sequence of failures.                          *)
THEOREM OverrunIsBounded == Spec => []OverrunBounded
<1>1. ASSUME IInv, TInv PROVE OverrunBounded
  <2>1. ASSUME pc \in Exchanging \cup {"sleep"}, lease # NoLease
        PROVE  now < ExpiresAt + StartupTimeout + Timeout
    <3>1. CASE pc = "sleep"
      BY <1>1, <3>1 DEF TInv, Valid
    <3>2. CASE pc \in Exchanging
      <4>1. ex.step \in {"renew", "rebind"}
        BY <1>1, <2>1, <3>2, NumbersTyped DEF TInv, Valid, Steps
      <4> QED
        BY <1>1, <2>1, <3>2, <4>1, NumbersTyped, InstantsBounded DEF TInv, Valid
    <3> QED
      BY <2>1, <3>1, <3>2
  <2>2. ASSUME pc = "expiry" PROVE now <= ExpiresAt + ConfigTime
    <3>1. lease # NoLease
      BY <1>1, <2>2 DEF IInv, Located
    <3> QED
      BY <1>1, <2>2, <3>1, NumbersTyped, InstantsBounded DEF TInv, Valid
  <2> QED
    BY <2>1, <2>2 DEF OverrunBounded
<1>2. IInv /\ TInv => OverrunBounded
  BY <1>1
<1> QED
  BY <1>2, Invariant, TimedInvariant, PTL

(* Exit code 0 means what it says: the lease was released, or there was    *)
(* none because the user stopped the handshake.                            *)
THEOREM CodeIsHonest == Spec => []HonestCode
<1>1. TInv => HonestCode
  BY DEF TInv, Honest
<1> QED
  BY <1>1, TimedInvariant, PTL
=============================================================================
