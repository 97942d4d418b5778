--------------------------- MODULE H264Payloader ---------------------------
(***************************************************************************)
(* From NAL units to RTP packets (Payload and Packetize of                 *)
(* src/sink/appsink/go/h264/h264_parser.go, called by writeSample) and on  *)
(* to a receiver, which goes by RFC 6184 and not by this code.  A unit is  *)
(* its type, its length in bytes and its number among all units; a         *)
(* packet's payload is the list of pieces of units it carries, with its    *)
(* size and header bits.  One step is one round of the loop of Payload.    *)
(* How a sample is split into units is H264Split; what Packetize does to   *)
(* the clock is in AppSink; the other header fields are left out.          *)
(***************************************************************************)
EXTENDS Integers, Sequences, SequencesExt

CONSTANTS MTU,          \* p.MTU - 12
          Units,        \* BOUND: the units of a sample, but for their number
          MaxUnits      \* BOUND: units in all samples together

UnitTypes == {"sps", "pps", "aud", "filler", "picture"}

ASSUME PayloaderAssumption ==
    /\ MTU \in Nat /\ MTU > 2                           \* more than a FU header
    /\ Units \subseteq [type : UnitTypes, len : Nat]
    /\ MaxUnits \in Nat

FuaHeaderSize == 2

VARIABLES
    sps, pps,       \* p.spsNalu, p.ppsNalu, None when nil
    given,          \* HISTORY: the units of all samples so far, in order
    done,           \* how many of them the loop has been through
    payloads,       \* HISTORY: the payloads of all calls so far, in order
    taken,          \* how many of them ReadRTP has returned
    open,           \* the receiver: the pieces of a unit not complete yet
    received        \* the receiver: the units it has put together

pvars == <<sps, pps, given, done, payloads, taken, open, received>>

None == [type |-> "none", len |-> 0, nr |-> 0]

-----------------------------------------------------------------------------
\* the bytes from..to of a unit
Piece(unit, from, to) == [unit |-> unit, from |-> from, to |-> to]
Single(unit) == [kind |-> "single", size |-> unit.len, start |-> FALSE, end |-> FALSE,
                 pieces |-> <<Piece(unit, 1, unit.len)>>]
StapA(s, p) == [kind |-> "stap-a", size |-> 1 + 2 + s.len + 2 + p.len, start |-> FALSE,
                end |-> FALSE, pieces |-> <<Piece(s, 1, s.len), Piece(p, 1, p.len)>>]

\* MUTANT of Fragments: a last fragment that does not fill its packet is lost
FragmentsTailLost(unit) ==
    LET size == MTU - FuaHeaderSize
        n == (unit.len - 1) \div size
        last(i) == 1 + i * size
    IN  [i \in 1 .. n |->
            [kind |-> "fu-a", size |-> FuaHeaderSize + size,
             start |-> i = 1, end |-> i = n /\ i # 1,
             pieces |-> <<Piece(unit, 2 + (i - 1) * size, last(i))>>]]

\* The fragments of a unit longer than a packet, without its first byte, which
\* the header stands for.  The end bit is in the else branch of the start bit.
Fragments(unit) ==
    LET size == MTU - FuaHeaderSize
        n == (unit.len - 1 + size - 1) \div size
        last(i) == IF i = n THEN unit.len ELSE 1 + i * size
    IN  [i \in 1 .. n |->
            [kind |-> "fu-a", size |-> FuaHeaderSize + last(i) - (1 + (i - 1) * size),
             start |-> i = 1, end |-> i = n /\ i # 1,
             pieces |-> <<Piece(unit, 2 + (i - 1) * size, last(i))>>]]

-----------------------------------------------------------------------------
(* Packetize, a call for each sample: writeSample hands all packets of one *)
(* over before the next begins.                                            *)

Packetize(units) ==
    /\ done = Len(given) /\ taken = Len(payloads)
    /\ given' = given \o [i \in DOMAIN units |->
            [type |-> units[i].type, len |-> units[i].len, nr |-> Len(given) + i]]
    /\ UNCHANGED <<sps, pps, done, payloads, taken, open, received>>

\* the next unit of the loop of Payload
NextUnit(unit) ==
    /\ done < Len(given) /\ unit = given[done + 1]
    /\ done' = done + 1
    /\ UNCHANGED <<given, taken, open, received>>

SkipUnit(unit) ==
    /\ NextUnit(unit)
    /\ unit.len = 0 \/ unit.type \in {"aud", "filler"}
    /\ UNCHANGED <<sps, pps, payloads>>

StashSps(unit) ==
    /\ NextUnit(unit)
    /\ unit.len > 0 /\ unit.type = "sps"
    /\ sps' = unit
    /\ UNCHANGED <<pps, payloads>>

StashPps(unit) ==
    /\ NextUnit(unit)
    /\ unit.len > 0 /\ unit.type = "pps"
    /\ pps' = unit
    /\ UNCHANGED <<sps, payloads>>

Both == sps # None /\ pps # None
Sets == IF Both /\ StapA(sps, pps).size <= MTU THEN <<StapA(sps, pps)>> ELSE <<>>
Body(unit) == IF unit.len <= MTU THEN <<Single(unit)>> ELSE Fragments(unit)

\* MUTANT of SendPicture: the parameter sets stay stashed after they are sent
SendPictureKeepsSets(unit) ==
    /\ NextUnit(unit)
    /\ unit.len > 0 /\ unit.type = "picture"
    /\ payloads' = payloads \o Sets \o Body(unit)
    /\ UNCHANGED <<sps, pps>>

\* the stash goes ahead of a picture, or is dropped if it does not fit
SendPicture(unit) ==
    /\ NextUnit(unit)
    /\ unit.len > 0 /\ unit.type = "picture"
    /\ payloads' = payloads \o Sets \o Body(unit)
    /\ sps' = IF Both THEN None ELSE sps
    /\ pps' = IF Both THEN None ELSE pps

Payload == \E unit \in ToSet(given) :
    SkipUnit(unit) \/ StashSps(unit) \/ StashPps(unit) \/ SendPicture(unit)

-----------------------------------------------------------------------------
(* The receiver (RFC 6184).                                                *)

\* the pieces ps make up a unit; the first byte may come with a header
Whole(ps) ==
    /\ \A i \in DOMAIN ps : ps[i].unit = ps[1].unit
    /\ ps[1].from <= 2 /\ ps[Len(ps)].to = ps[1].unit.len
    /\ \A i \in 2 .. Len(ps) : ps[i].from = ps[i - 1].to + 1

\* A start bit opens a unit, an end bit completes it.
Receive(packet) ==
    LET pieces == IF packet.start THEN packet.pieces ELSE open \o packet.pieces
    IN  \/ /\ packet.kind # "fu-a"
           /\ open' = <<>>
           /\ received' = received \o [i \in DOMAIN packet.pieces |-> packet.pieces[i].unit]
        \/ /\ packet.kind = "fu-a" /\ ~packet.end
           /\ open' = pieces
           /\ UNCHANGED received
        \/ /\ packet.kind = "fu-a" /\ packet.end
           /\ open' = <<>>
           /\ received' = IF Whole(pieces) THEN Append(received, pieces[1].unit) ELSE received

\* ReadRTP, once the call that made the packet has returned
ReadPacket ==
    /\ done = Len(given) /\ taken < Len(payloads)
    /\ taken' = taken + 1
    /\ Receive(payloads[taken + 1])
    /\ UNCHANGED <<sps, pps, given, done, payloads>>

PayloadInit ==
    /\ sps = None /\ pps = None
    /\ given = <<>> /\ done = 0 /\ payloads = <<>> /\ taken = 0
    /\ open = <<>> /\ received = <<>>

\* a sample that is not empty has a unit at least
Samples == UNION {[1 .. n -> Units] : n \in 1 .. MaxUnits - Len(given)}

PayloadNext == (\E s \in Samples : Packetize(s)) \/ Payload \/ ReadPacket

PayloadSpec == PayloadInit /\ [][PayloadNext]_pvars

-----------------------------------------------------------------------------
Live(k, type) == given[k].len > 0 /\ given[k].type = type

\* Every picture unit reaches a receiver that goes by the start and end bits
\* whole, once and in order, whatever the sizes and the parameter sets in
\* between, and is there when the packets of a call are through: the fragments
\* can be put together again, as the comment at h264_parser.go:250 says; and no
\* packet is longer than a datagram takes.
PicturesArrive ==
    /\ \A i \in DOMAIN received : received[i] \in ToSet(given)
    /\ \A i, j \in DOMAIN received :
           i < j /\ received[i].type = "picture" /\ received[j].type = "picture"
               => received[i].nr < received[j].nr
    /\ done = Len(given) /\ taken = Len(payloads) =>
           \A k \in DOMAIN given : Live(k, "picture") => given[k] \in ToSet(received)
    /\ \A i \in DOMAIN payloads : payloads[i].size <= MTU

\* the last unit of a type before unit k is unit i
Latest(i, k, type) == Live(i, type) /\ \A m \in i + 1 .. k - 1 : ~Live(m, type)

\* units i and j are the sets for unit k, with no picture in between
Pair(i, j, k) ==
    /\ Latest(i, k, "sps") /\ Latest(j, k, "pps")
    /\ \A m \in 1 .. k - 1 : Live(m, "picture") => m < i /\ m < j
    /\ StapA(given[i], given[j]).size <= MTU

\* A pair of parameter sets that comes with no picture in between is sent
\* directly before the next picture, unless it is too long for a packet, also
\* when the sets came with earlier samples; and it is neither sent again nor
\* kept once it went out (h264_parser.go:208-237).
ParameterSetsFirst ==
    /\ \A at \in DOMAIN received : received[at].type = "picture" =>
           \A i, j \in 1 .. received[at].nr - 1 : Pair(i, j, received[at].nr) =>
               at > 2 /\ received[at - 2] = given[i] /\ received[at - 1] = given[j]
    /\ \A i, j \in DOMAIN received : i # j => received[i] # received[j]
    /\ \A i \in DOMAIN received : received[i] \notin {sps, pps}
=============================================================================
