------------------------------ MODULE Helpers -------------------------------
(***************************************************************************)
(* Pure functions of the SFU, against reference definitions: the VP8       *)
(* payload descriptor and H.264 key frames (buffer/helpers.go), NTP time   *)
(* and the choice of a codec (helpers.go), sender reports (downtrack.go),  *)
(* the packets a subscriber's source descriptions are spread over          *)
(* (subscribe.go), and the order of RTP timestamps (buffer/buffer.go).     *)
(*                                                                         *)
(* A payload is a sequence of bytes.  The references say how a sender      *)
(* writes what the function reads: Encode is the diagram above type VP8,   *)
(* Packed the payload formats of H.264.  The constants of NTP time, the    *)
(* size of a packet and the width of a timestamp are scaled down.          *)
(***************************************************************************)
EXTENDS Integers, Sequences, FiniteSets

CONSTANTS Second,       \* 10^9: nanoseconds of a second
          Fraction,     \* 2^32: fractions of a second, and seconds of an era
          ClockRate,    \* 90000 or 48000: ticks of an RTP timestamp in a second
          Chunks,       \* 15: source descriptions in a packet
          TsBits,       \* 32: width of an RTP timestamp
          MaxGap,       \* bound: between one timestamp and the next
          MaxElapsed,   \* bound: nanoseconds from a sender's report to the SFU's
          MaxUnits,     \* bound: units of an H.264 packet
          MaxSources    \* bound: source descriptions

ASSUME NtpAssumption == Second \in Nat \ {0} /\ Fraction \in Nat /\ Fraction > Second
ASSUME TsAssumption == TsBits \in Nat /\ TsBits >= 6

VARIABLE sample     \* the argument

Bit(byte, n) == (byte \div 2^n) % 2 = 1
Num(b) == IF b THEN 1 ELSE 0
Low5(byte) == byte % 32

-----------------------------------------------------------------------------
(* VP8.Unmarshal.  The field that is cut off does not matter to the        *)
(* caller, which drops the packet.                                         *)

Short == [ok |-> FALSE]

\* Mutant of Unmarshal: the second byte of a long picture id is not skipped
UnmarshalShortId(p) ==
    LET X == Len(p) > 0 /\ Bit(p[1], 7)
        Ext(n) == X /\ Len(p) > 1 /\ Bit(p[2], n)
        size == 1 + Num(X) + Num(Ext(7)) + Num(Ext(6)) + Num(Ext(5) \/ Ext(4))
    IN IF Len(p) <= size THEN Short
       ELSE [ok |-> TRUE, temporal |-> Ext(5), pictureID |-> 0, tl0 |-> 0, tid |-> 0,
             key |-> Bit(p[1], 4) /\ ~Bit(p[size + 1], 0)]

Unmarshal(p) ==
    LET X == Len(p) > 0 /\ Bit(p[1], 7)
        Ext(n) == X /\ Len(p) > 1 /\ Bit(p[2], n)
        I == Ext(7)
        L == Ext(6)
        T == Ext(5)
        K == Ext(4)
        M == I /\ Len(p) > 2 /\ Bit(p[3], 7)
        tlzIdx == 3 + Num(I) + Num(M)
        size == 1 + Num(X) + Num(I) + Num(M) + Num(L) + Num(T \/ K)
    IN IF Len(p) <= size THEN Short
       ELSE [ok |-> TRUE, temporal |-> T,
             pictureID |-> CASE ~I -> 0
                             [] I /\ ~M -> p[3] % 128
                             [] OTHER -> 256 * (p[3] % 128) + p[4],
             tl0 |-> IF L THEN p[tlzIdx] ELSE 0,
             tid |-> IF T \/ K THEN p[size] \div 64 ELSE 0,
             key |-> Bit(p[1], 4) /\ ~Bit(p[size + 1], 0)]

Flags == {"X", "S", "I", "M", "L", "T", "K", "P"}
Vp8Samples == [kind : {"vp8"}, on : SUBSET Flags]

Encode(on) ==
    LET If(f, bytes) == IF f \in on THEN bytes ELSE <<>>
        Set(f, n) == Num(f \in on) * 2^n
    IN <<Set("X", 7) + Set("S", 4)>>
       \o If("X", <<Set("I", 7) + Set("L", 6) + Set("T", 5) + Set("K", 4)>>
                  \o If("I", IF "M" \in on THEN <<128 + 1, 5>> ELSE <<5>>)
                  \o If("L", <<9>>)
                  \o (IF on \cap {"T", "K"} # {} THEN <<2 * 64 + 7>> ELSE <<>>))
       \o <<Set("P", 0) + 2>>

\* Whole payloads are read as they were written, and nothing less is accepted
Vp8Agrees ==
    LET on == sample.on
        whole == Encode(on)
        Has(f) == {"X", f} \subseteq on
    IN /\ Unmarshal(whole) =
            [ok |-> TRUE, temporal |-> Has("T"),
             pictureID |-> IF ~Has("I") THEN 0 ELSE IF "M" \in on THEN 256 + 5 ELSE 5,
             tl0 |-> IF Has("L") THEN 9 ELSE 0,
             tid |-> IF Has("T") \/ Has("K") THEN 2 ELSE 0,
             key |-> "S" \in on /\ "P" \notin on]
       /\ \A n \in 0 .. Len(whole) - 1 : Unmarshal(SubSeq(whole, 1, n)) = Short

-----------------------------------------------------------------------------
(* isH264Keyframe                                                          *)

\* Bytes of a unit before its NAL unit (in MTAP packets)
UnitOffset(nalu) == CASE nalu = 26 -> 3 [] nalu = 27 -> 4 [] OTHER -> 0

\* The loop over the units of an aggregate, from byte i (counted from 0) on
HasSps(p, nalu, i0) ==
    LET Scan[i \in 0 .. Len(p) + 3] ==
            LET length == 256 * p[i + 1] + p[i + 2]
            IN /\ i + 2 <= Len(p)
               /\ i + 2 + length <= Len(p) /\ UnitOffset(nalu) < length
               /\ Low5(p[i + 3 + UnitOffset(nalu)]) = 7 \/ Scan[i + 2 + length]
    IN Scan[i0]

isH264Keyframe(p) ==
    /\ Len(p) > 0
    /\ LET nalu == Low5(p[1])
       IN \/ nalu = 5
          \/ nalu = 24 /\ HasSps(p, nalu, 1)
          \/ nalu \in 25 .. 27 /\ HasSps(p, nalu, 3)
          \/ nalu \in {28, 29} /\ Len(p) > 1 /\ Bit(p[2], 7) /\ Low5(p[2]) = 7

H264Samples ==
    [kind : {"h264"}, nalu : 24 .. 27, units : UNION {[1 .. n -> {1, 5, 7}] : n \in 0 .. MaxUnits}]
    \cup [kind : {"nal"}, nalu : 0 .. 31 , second : {1, 7, 128 + 5, 128 + 7}]

\* Units of the given types, whose sizes differ
Packed(nalu, units) ==
    LET Unit(type) == <<0, UnitOffset(nalu) + 1 + (type % 3)>>
                      \o [i \in 1 .. UnitOffset(nalu) |-> 7] \o <<96 + type>>
                      \o [i \in 1 .. type % 3 |-> 7]
        From[n \in 0 .. Len(units)] ==
            IF n = Len(units) THEN <<>> ELSE Unit(units[n + 1]) \o From[n + 1]
    IN <<96 + nalu>> \o (IF nalu = 24 THEN <<>> ELSE <<0, 7>>) \o From[0]

\* An aggregate is a key frame if a parameter set is among its units, wherever, and a
\* part of it is one only if the set is in that part; of the other packets, a picture
\* of its own or the start of a fragmented set.
H264Agrees ==
    IF sample.kind = "nal"
    THEN sample.nalu \notin 24 .. 27 =>
            (isH264Keyframe(<<sample.nalu, sample.second>>)
               <=> sample.nalu = 5 \/ (sample.nalu \in {28, 29} /\ sample.second = 128 + 7))
    ELSE LET whole == Packed(sample.nalu, sample.units)
             sps == {n \in DOMAIN sample.units : sample.units[n] = 7}
             Part(n) == Packed(sample.nalu, SubSeq(sample.units, 1, n))
         IN /\ isH264Keyframe(whole) <=> sps # {}
            /\ \A n \in 0 .. Len(whole) : isH264Keyframe(SubSeq(whole, 1, n)) <=>
                  \E m \in sps : n >= Len(Part(m))

-----------------------------------------------------------------------------
(* NTP time: seconds in the upper half, fractions in the lower             *)

toNtpTime(ns) ==
    LET sec == ns \div Second
        scaled == (ns - sec * Second) * Fraction
        frac == scaled \div Second + Num(scaled % Second >= Second \div 2)
    IN ((sec * Fraction) % (Fraction * Fraction)) + frac

Duration(t) ==
    LET frac == (t % Fraction) * Second
    IN (t \div Fraction) * Second + frac \div Fraction
         + Num(frac % Fraction >= Fraction \div 2)

NtpSamples == [kind : {"ntp"}, ns : 0 .. Second * Fraction - 1]

\* Within an era (until 2036) conversion and back lose nothing
NtpAgrees == Duration(toNtpTime(sample.ns)) = sample.ns

-----------------------------------------------------------------------------
(* CreateSenderReport, at the time `now`, from the last report of the      *)
(* publisher.  The difference is unsigned: its test for < 0 does nothing.  *)

CreateSenderReport(bound, srRTP, srNTP, now) ==
    LET word == Fraction * Fraction     \* uint64
        diff == (((now - Duration(srNTP)) % word) * ClockRate % word) \div Second
    IN IF ~bound \/ srRTP = 0 THEN <<>>
       ELSE <<[ntp |-> toNtpTime(now), rtp |-> (srRTP + diff) % 2^TsBits]>>

SrSamples ==
    [kind : {"sr"}, bound : BOOLEAN, rtp : {0, 1, 2^TsBits - 1}, ns : 0 .. Second * 2,
     elapsed : 0 .. MaxElapsed]

\* The report says of `now` what the publisher's clock shows then.  (When the
\* publisher's clock is ahead of the SFU's, the difference wraps, and it does not.)
SrAgrees ==
    LET now == sample.ns + sample.elapsed
        sr == CreateSenderReport(sample.bound, sample.rtp, toNtpTime(sample.ns), now)
        Ticks == {n \in 1 .. MaxElapsed * ClockRate : n * Second <= sample.elapsed * ClockRate}
    IN IF sample.bound /\ sample.rtp # 0
       THEN /\ Len(sr) = 1 /\ Duration(sr[1].ntp) = now
            /\ (sr[1].rtp - sample.rtp) % 2^TsBits = Cardinality(Ticks) % 2^TsBits
       ELSE sr = <<>>

-----------------------------------------------------------------------------
(* codecParametersFuzzySearch, on codecs [mime, fmtp]; 0: not found        *)

FuzzySearch(needle, haystack) ==
    LET First(S) == IF S = {} THEN 0 ELSE CHOOSE i \in S : \A j \in S : i <= j
        mime == {i \in DOMAIN haystack : haystack[i].mime = needle.mime}
        exact == {i \in mime : haystack[i].fmtp = needle.fmtp}
    IN IF exact # {} THEN First(exact) ELSE First(mime)

Codecs == [mime : {"VP8", "H264"}, fmtp : {"a", "b"}]
CodecSamples == [kind : {"codec"}, needle : Codecs, haystack : [1 .. 3 -> Codecs]]

\* The codec found serves as well as any of the list could
CodecAgrees ==
    LET Fit(c) == Num(c.mime = sample.needle.mime)
                    + Num(c = sample.needle)
        found == FuzzySearch(sample.needle, sample.haystack)
        best == IF found = 0 THEN 0 ELSE Fit(sample.haystack[found])
    IN \A i \in 1 .. 3 : Fit(sample.haystack[i]) <= best

-----------------------------------------------------------------------------
(* downTracksReports: packets of at most 15 source descriptions            *)

\* The slices of a list of n: [from, to)
Batches(n) ==
    LET Next[j \in 0 .. n] ==
            LET i == IF (j + 1) * Chunks >= n THEN n ELSE (j + 1) * Chunks
            IN <<[from |-> j * Chunks, to |-> i]>> \o (IF i < n THEN Next[j + 1] ELSE <<>>)
    IN IF n = 0 THEN <<>> ELSE Next[0]

BatchSamples == [kind : {"batch"}, n : 0 .. MaxSources]

\* Every description is in exactly one packet, in order, and no packet is too large
BatchesAgree ==
    LET b == Batches(sample.n)
        Size(k) == b[k].to - b[k].from
    IN /\ \A k \in DOMAIN b : Size(k) \in 1 .. Chunks
       /\ \A i \in 0 .. sample.n - 1 :
             Cardinality({k \in DOMAIN b : b[k].from <= i /\ i < b[k].to}) = 1
       /\ \A k \in DOMAIN b : b[k].to <= sample.n /\ (k > 1 => b[k - 1].to = b[k].from)

-----------------------------------------------------------------------------
(* Timestamps.  The mask 0xC000000 selects bits 26 and 27 of 32.           *)

Masked(ts) == (ts \div 2^(TsBits - 6)) % 4

IsTimestampWrapAround(ts1, ts2) == Masked(ts1) = 0 /\ Masked(ts2) = 3

IsLaterTimestamp(ts1, ts2) ==
    IF ts1 > ts2 THEN ~IsTimestampWrapAround(ts2, ts1) ELSE IsTimestampWrapAround(ts1, ts2)

TsSamples == [kind : {"ts"}, from : 0 .. 2^TsBits - 1, gap : 1 .. MaxGap]

\* What is sent after `from` is later, and `from` is not later than it
LaterAgrees ==
    LET next == (sample.from + sample.gap) % 2^TsBits
    IN IsLaterTimestamp(next, sample.from) /\ ~IsLaterTimestamp(sample.from, next)

-----------------------------------------------------------------------------
Samples ==
    Vp8Samples \cup H264Samples \cup NtpSamples \cup CodecSamples \cup BatchSamples
    \cup TsSamples \cup SrSamples

HelperInit == sample \in Samples

\* The pure helpers compute what their references define, for every sample: VP8
\* descriptors and H.264 packets of every shape and cut off at every byte, NTP time
\* there and back, sender reports, the choice of a codec, the spreading of source
\* descriptions, and the order of timestamps MaxGap apart across a wrap.
HelpersAgree ==
    CASE sample.kind = "vp8" -> Vp8Agrees
      [] sample.kind \in {"h264", "nal"} -> H264Agrees
      [] sample.kind = "ntp" -> NtpAgrees
      [] sample.kind = "sr" -> SrAgrees
      [] sample.kind = "codec" -> CodecAgrees
      [] sample.kind = "batch" -> BatchesAgree
      [] OTHER -> LaterAgrees

-----------------------------------------------------------------------------
(* What the repository says and the code does not do                       *)

\* buffer.go:585, "returns true if timestamp1 is later in time than timestamp2
\* factoring in timestamp wrap-around": also after a pause of the sender.
LaterTimestamp == sample.kind = "ts" => LaterAgrees
=============================================================================
