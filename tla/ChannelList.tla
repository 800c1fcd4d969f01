---------------------------- MODULE ChannelList ----------------------------
(***************************************************************************)
(* How the extractor (extractor.py) finds the channel list of a set-top    *)
(* box in a capture: the TCP segments of an HTTP response are collected,   *)
(* put together, and parsed. The response is numbered by position: 0 is    *)
(* its header, then comes a body in which the call CTCSetConfig(...) is    *)
(* the positions of Marker, its argument follows, and the rest. A server   *)
(* may compress the body: the same positions then stand for the bytes that *)
(* decode to these. The capture may lack packets, repeat them, or hold a   *)
(* damaged one.                                                            *)
(***************************************************************************)
EXTENDS Integers, SequencesExt, FiniteSetsExt

CONSTANTS
    Length,         \* positions of the response
    MarkerAt,       \* where the three positions of the marker begin
    Modulus,        \* of TCP sequence numbers
    Starts,         \* sequence numbers of position 0
    Segmentations,  \* sets of packets <<first, last>> that may be captured
    Framings,       \* how the end of the body is known
    Encodings,      \* whether it is compressed
    MaxSegments, MaxBytes,  \* MAX_TCP_SEGMENTS, MAX_TCP_STREAM_BYTES
    MaxPackets, MaxDamaged  \* bounds

Positions == 0..(Length - 1)
Marker == <<MarkerAt, MarkerAt + 1, MarkerAt + 2>>
Argument == MarkerAt + 3
Damage == Length    \* a byte that is no position's

ASSUME ChannelAssumption ==
    /\ {Length, MarkerAt, Modulus} \subseteq Nat
    /\ MarkerAt > 0 /\ Argument \in Positions /\ Starts \subseteq 0..(Modulus - 1)
    /\ Length <= Modulus
    /\ \A s \in Segmentations : \A p \in s : p[1] \in Positions /\ p[2] \in p[1]..(Length - 1)
    /\ Framings \subseteq {"length", "chunked", "close"}
    /\ Encodings \subseteq {"identity", "gzip"}

VARIABLES
    start, packets, framing, encoding,  \* the connection
    segments,       \* what TcpStream holds
    captured,       \* packets captured whole so far; damaged ones
    damaged,
    outcome,        \* "capturing", "parsed", "kept" (no list, the old one stays)
    reason          \* or "failed", with a reason

vars == <<start, packets, framing, encoding, segments, captured, damaged, outcome, reason>>

Init ==
    /\ start \in Starts /\ packets \in Segmentations /\ framing \in Framings /\ encoding \in Encodings
    /\ segments = {} /\ captured = {} /\ damaged = {}
    /\ outcome = "capturing" /\ reason = "none"

-----------------------------------------------------------------------------
(* TcpStream.add                                                           *)
Size(segs) == FoldSet(LAMBDA s, n : n + Len(s.data), 0, segs)

Byte(s, n) == s.data[n - s.seq + 1]
Covers(s) == s.seq..(s.seq + Len(s.data) - 1)

(* Mutant of Conflict: only a segment at the same place is compared.       *)
ConflictInPlace(s, t) == s.seq = t.seq /\ Len(s.data) = Len(t.data) /\ s.data # t.data

Conflict(s, t) == \E n \in Covers(s) \cap Covers(t) : Byte(s, n) # Byte(t, n)

Segment(p, whole) ==
    [ seq |-> (start + p[1]) % Modulus,
      data |-> [k \in 1..(p[2] - p[1] + 1) |-> IF whole THEN p[1] + k - 1 ELSE Damage] ]

Limited(s) == Cardinality(segments) >= MaxSegments \/ Size(segments) + Len(s.data) > MaxBytes

Add ==
    /\ outcome = "capturing" /\ Cardinality(captured) + Cardinality(damaged) < MaxPackets
    /\ \E p \in packets, whole \in BOOLEAN : LET s == Segment(p, whole) IN
        /\ captured' = IF whole THEN captured \cup {p} ELSE captured
        /\ damaged' = IF whole THEN damaged ELSE damaged \cup {p}
        /\ Cardinality(damaged') <= MaxDamaged
        /\ s \notin segments
        /\ IF Limited(s) THEN outcome' = "failed" /\ reason' = "limit" /\ UNCHANGED segments
           ELSE IF \E t \in segments : Conflict(s, t)
           THEN outcome' = "failed" /\ reason' = "conflict" /\ UNCHANGED segments
           ELSE segments' = segments \cup {s} /\ UNCHANGED <<outcome, reason>>
    /\ UNCHANGED <<start, packets, framing, encoding>>

-----------------------------------------------------------------------------
(* TcpStream.assemble. Overlapping segments agree, so of two that begin at *)
(* the same place the longer one comes last.                               *)
Before(s, t) == s.seq < t.seq \/ (s.seq = t.seq /\ Len(s.data) < Len(t.data))

Ordered(segs) ==
    CHOOSE q \in [1..Cardinality(segs) -> segs] : \A i, j \in DOMAIN q : i < j => Before(q[i], q[j])

Joined(segs) ==
    LET q == Ordered(segs)
        joined[i \in 0..Len(q)] == IF i = 0 THEN <<>> ELSE joined[i - 1] \o q[i].data
    IN  joined[Len(q)]

(* Mutant of Extend: what overlaps is appended again.                      *)
ExtendAll(sofar, s) ==
    [ out |-> sofar.out \o s.data, end |-> sofar.end + Len(s.data),
      gap |-> sofar.gap \/ s.seq > sofar.end ]

(* Mutant of Extend: a segment that overlaps is taken to add nothing.      *)
ExtendNew(sofar, s) ==
    IF s.seq < sofar.end THEN sofar
    ELSE [ out |-> sofar.out \o s.data, end |-> s.seq + Len(s.data),
           gap |-> sofar.gap \/ s.seq > sofar.end ]

(* Mutant of Extend: a segment that follows at once leaves a gap.          *)
ExtendStrict(sofar, s) ==
    [ out |-> sofar.out \o s.data, end |-> sofar.end + Len(s.data),
      gap |-> sofar.gap \/ (sofar.out # <<>> /\ s.seq >= sofar.end) ]

Extend(sofar, s) ==
    LET overlap == IF sofar.end > s.seq THEN sofar.end - s.seq ELSE 0 IN
    IF overlap >= Len(s.data) THEN sofar
    ELSE [ out |-> sofar.out \o SubSeq(s.data, overlap + 1, Len(s.data)),
           end |-> sofar.end + Len(s.data) - overlap,
           gap |-> sofar.gap \/ s.seq > sofar.end ]

Assembled ==
    LET q == Ordered(segments)
        sofar[i \in 0..Len(q)] ==
            IF i = 0 THEN [out |-> <<>>, end |-> q[1].seq, gap |-> FALSE]
            ELSE Extend(sofar[i - 1], q[i])
    IN  sofar[Len(q)]

Has(data, word) == \E k \in 1..(Len(data) - Len(word) + 1) : SubSeq(data, k, k + Len(word) - 1) = word

(* The marker is searched for in what was sent, not in what that decodes   *)
(* to: nothing shows in a compressed body.                                 *)
Shows(data) == encoding = "identity" /\ Has(data, Marker)

(* What the stream of the decompressor ends with, and its checksum is of.  *)
Compressed == [k \in 1..(Length - 1) |-> k]

(* _http_bodies and _ctc_calls, of a response whose header has been found. *)
Parse(body) ==
    LET whole == Len(body) >= Length - 1 IN
    CASE ~whole /\ framing = "chunked" -> "incomplete"
      [] ~whole /\ framing = "length" -> IF Shows(body) THEN "incomplete" ELSE "kept"
      [] (whole \/ framing = "close") /\ encoding = "gzip" ->
             IF body = Compressed THEN "parsed" ELSE "incomplete"
      [] OTHER -> IF ~Has(body, Marker) THEN "kept"
                  ELSE IF Has(body, Marker \o <<Argument>>) \/ Has(body, Marker \o <<Damage>>)
                       THEN "parsed" ELSE "incomplete"

(* Mutant of Found: without a header there is no list.                     *)
FoundQuietly(data) ==
    IF \E k \in DOMAIN data : data[k] = 0
    THEN LET k == CHOOSE k \in DOMAIN data : data[k] = 0 IN Parse(SubSeq(data, k + 1, Len(data)))
    ELSE "kept"

Found(data) ==
    IF \E k \in DOMAIN data : data[k] = 0
    THEN LET k == CHOOSE k \in DOMAIN data : data[k] = 0 IN Parse(SubSeq(data, k + 1, Len(data)))
    ELSE IF Shows(data) THEN "incomplete" ELSE "kept"

Verdict ==
    IF segments = {} THEN "kept"
    ELSE IF Assembled.gap THEN IF Shows(Joined(segments)) THEN "missing" ELSE "kept"
    ELSE Found(Assembled.out)

(* extract_profile: the capture is over.                                   *)
Extract ==
    /\ outcome = "capturing"
    /\ outcome' = IF Verdict \in {"parsed", "kept"} THEN Verdict ELSE "failed"
    /\ reason' = IF Verdict \in {"parsed", "kept"} THEN "none" ELSE Verdict
    /\ UNCHANGED <<start, packets, framing, encoding, segments, captured, damaged>>

Next == Add \/ Extract
Spec == Init /\ [][Next]_vars

-----------------------------------------------------------------------------
At(ps) == UNION {p[1]..p[2] : p \in ps}

(* A response captured whole is parsed, in whatever order and however      *)
(* often its packets were captured and whichever way they overlap.         *)
WholeParsed ==
    At(captured) = Positions /\ damaged = {} /\ outcome \notin {"capturing", "parsed"} =>
        reason = "limit"

(* The routes are replaced only from a response captured whole, if its end *)
(* is not that of the connection.                                          *)
ParsedWhole ==
    outcome = "parsed" /\ framing # "close" => At(captured \cup damaged) = Positions

(* A damaged copy of what has also been captured whole does not get in.    *)
DamageSeen == outcome = "parsed" => \A p \in damaged : p[1]..p[2] \cap At(captured) = {}

(* A list whose marker has been captured is not passed over, as if there   *)
(* were none, when the body is not compressed and no byte is sent again in *)
(* other pieces or damaged.                                                *)
Aligned == \A p, q \in packets : p # q => p[2] < q[1] \/ q[2] < p[1]
MarkerSeen == Aligned /\ damaged = {} /\ {Marker[i] : i \in 1..3} \subseteq At(captured)
NeverSilent == encoding = "identity" /\ MarkerSeen => outcome # "kept"

(* Segments are said to be missing only if some are.                       *)
GapHonest == reason = "missing" => At(captured) # Positions
=============================================================================
