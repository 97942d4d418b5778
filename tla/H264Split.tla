----------------------------- MODULE H264Split -----------------------------
(***************************************************************************)
(* Splitting a sample of the encoder into NAL units                        *)
(* (SplitNALUs and findIndicator of                                        *)
(* src/sink/appsink/go/h264/h264_parser.go, U32BE of the pio package): a   *)
(* call for every sample up to MaxBytes over the alphabet Bytes, a step    *)
(* for each round of one of its loops.  A unit is a slice of the sample,   *)
(* given by its first and its last byte; bytes are counted from 1.         *)
(***************************************************************************)
EXTENDS Integers, Sequences

CONSTANTS Bytes,        \* BOUND: the bytes of a sample; 0 and 1 among them
          MaxBytes      \* BOUND: its length

ASSUME SplitAssumption == {0, 1} \subseteq Bytes /\ Bytes \subseteq 0 .. 255 /\ MaxBytes \in Nat

VARIABLES
    payload,    \* the sample
    spc,        \* where SplitNALUs is
    pos,        \* findIndicator's start + i; where nalu begins in the second loop
    zCount,
    prevStart,  \* 0 before the first indicator
    naluSz,
    nalus, typ  \* what is returned

svars == <<payload, spc, pos, zCount, prevStart, naluSz, nalus, typ>>

Slice(from, to) == [from |-> from, to |-> to]

U32BE(p) == ((payload[p] * 256 + payload[p + 1]) * 256 + payload[p + 2]) * 256 + payload[p + 3]

-----------------------------------------------------------------------------
\* A return, with the deferred function: no units become the sample itself.
Return(units, kind) ==
    /\ spc' = "done"
    /\ nalus' = IF units = <<>> \/ kind = "NALU_NONE"
                THEN Append(units, Slice(1, Len(payload))) ELSE units
    /\ typ' = IF units = <<>> \/ kind = "NALU_NONE" THEN "NALU_RAW" ELSE kind
    /\ UNCHANGED <<payload, pos, zCount, prevStart, naluSz>>

Short ==
    /\ spc = "start" /\ Len(payload) < 4
    /\ Return(<<>>, "NALU_NONE")

Begin ==
    /\ spc = "start" /\ Len(payload) >= 4
    /\ spc' = "find"
    /\ UNCHANGED <<payload, pos, zCount, prevStart, naluSz, nalus, typ>>

\* findIndicator, a byte at a time
Zero ==
    /\ spc = "find" /\ pos <= Len(payload) /\ payload[pos] = 0
    /\ zCount' = zCount + 1 /\ pos' = pos + 1
    /\ UNCHANGED <<payload, spc, prevStart, naluSz, nalus, typ>>

Other ==
    /\ spc = "find" /\ pos <= Len(payload)
    /\ payload[pos] # 0 /\ ~(payload[pos] = 1 /\ zCount >= 2)
    /\ zCount' = 0 /\ pos' = pos + 1
    /\ UNCHANGED <<payload, spc, prevStart, naluSz, nalus, typ>>

\* It returns an indicator of all the zeros before the 1: the unit before ends
\* there, and the search goes on behind it.
Indicator ==
    /\ spc = "find" /\ pos <= Len(payload) /\ payload[pos] = 1 /\ zCount >= 2
    /\ nalus' = IF prevStart = 0 THEN nalus ELSE Append(nalus, Slice(prevStart, pos - zCount - 1))
    /\ prevStart' = pos + 1 /\ pos' = pos + 1 /\ zCount' = 0
    /\ UNCHANGED <<payload, spc, naluSz, typ>>

\* it returns -1 after an indicator
LastUnit ==
    /\ spc = "find" /\ pos > Len(payload) /\ prevStart # 0
    /\ Return(Append(nalus, Slice(prevStart, Len(payload))), "NALU_ANNEXB")

\* it returns -1 the first time
FirstLength ==
    /\ spc = "find" /\ pos > Len(payload) /\ prevStart = 0 /\ U32BE(1) <= Len(payload)
    /\ spc' = "lengths" /\ naluSz' = U32BE(1) /\ pos' = 5
    /\ UNCHANGED <<payload, zCount, prevStart, nalus, typ>>

NoLength ==
    /\ spc = "find" /\ pos > Len(payload) /\ prevStart = 0 /\ U32BE(1) > Len(payload)
    /\ Return(nalus, "NALU_NONE")

\* a round of the loop over lengths and units
Rest(p) == Len(payload) + 1 - p

LengthUnit ==
    /\ spc = "lengths" /\ naluSz <= Rest(pos)
    /\ nalus' = Append(nalus, Slice(pos, pos + naluSz - 1))
    /\ \/ /\ Rest(pos + naluSz) < 4
          /\ spc' = "rest" /\ pos' = pos + naluSz
          /\ UNCHANGED naluSz
       \/ /\ Rest(pos + naluSz) >= 4
          /\ naluSz' = U32BE(pos + naluSz) /\ pos' = pos + naluSz + 4
          /\ UNCHANGED spc
    /\ UNCHANGED <<payload, zCount, prevStart, typ>>

LengthTooLong ==
    /\ spc = "lengths" /\ naluSz > Rest(pos)
    /\ spc' = "rest"
    /\ UNCHANGED <<payload, pos, zCount, prevStart, naluSz, nalus, typ>>

\* MUTANT of LengthsEnd: trailing bytes are ignored
LengthsEndLoose ==
    /\ spc = "rest"
    /\ Return(nalus, "NALU_AVCC")

LengthsEnd ==
    /\ spc = "rest"
    /\ IF Rest(pos) = 0 THEN Return(nalus, "NALU_AVCC") ELSE Return(<<>>, "NALU_NONE")

SplitInit ==
    /\ payload \in UNION {[1 .. n -> Bytes] : n \in 1 .. MaxBytes}
    /\ spc = "start" /\ pos = 1 /\ zCount = 0 /\ prevStart = 0 /\ naluSz = 0
    /\ nalus = <<>> /\ typ = "NALU_NONE"

SplitNALUs ==
    \/ Short \/ Begin \/ Zero \/ Other \/ Indicator \/ LastUnit
    \/ FirstLength \/ NoLength \/ LengthUnit \/ LengthTooLong \/ LengthsEnd

SplitSpec == SplitInit /\ [][SplitNALUs]_svars

-----------------------------------------------------------------------------
(* The two formats, as an encoder writes them.                             *)

\* two zeros or more and a one, from the byte `from` to the byte `to`
IsStartCode(from, to) ==
    to - from >= 2 /\ payload[to] = 1 /\ \A k \in from .. to - 1 : payload[k] = 0

HasStartCode(from, to) == \E k \in from .. to - 2 : IsStartCode(k, k + 2)

\* The bytes after the n-th are units, each behind a start code; none hides
\* one, and the zeros before a start code belong to it.
IsAnnexB(n, units) ==
    /\ units # <<>> /\ units[Len(units)].to = Len(payload)
    /\ IsStartCode(n + 1, units[1].from - 1)
    /\ \A u \in 1 .. Len(units) - 1 : IsStartCode(units[u].to + 1, units[u + 1].from - 1)
    /\ \A u \in DOMAIN units :
          /\ units[u].to >= units[u].from - 1 /\ ~HasStartCode(units[u].from, units[u].to)
          /\ u < Len(units) /\ units[u].to >= units[u].from => payload[units[u].to] # 0

\* The bytes are units, each behind its length in four bytes; a last length
\* may have nothing of its unit behind it.
IsAvcc(units) ==
    /\ units # <<>> /\ units[1].from = 5
    /\ \A u \in 1 .. Len(units) - 1 : units[u + 1].from = units[u].to + 5
    /\ \A u \in DOMAIN units : units[u].to + 1 - units[u].from = U32BE(units[u].from - 4)
    /\ LET rest == Rest(units[Len(units)].to + 1)
       IN  rest = 0 \/ (rest = 4 /\ U32BE(Len(payload) - 3) > 0)

\* Lengths and units alternate to the last byte: the lengths are at the bytes
\* of `at`, and where the last unit ends.
Alternate(at) ==
    \A p \in at : \/ Rest(p) = 0
                  \/ Rest(p) >= 4 /\ p + 4 + U32BE(p) \in at
Covered == \E at \in SUBSET (5 .. Len(payload) + 1) : Alternate({1} \cup at)

\* SplitNALUs inverts what the encoder wrote.  A sample with a start code is
\* the byte stream of exactly the units it returns: no byte is lost or moved,
\* but for what precedes the first start code (h264_parser.go:133-149).  A
\* sample without one is cut by its lengths only if these cover it to the last
\* byte, or to a last length whose unit is cut off whole; it always is when they
\* cover it, and otherwise it is one unit (h264_parser.go:159-186).
SplitInverted ==
    spc = "done" =>
        IF Len(payload) >= 4 /\ HasStartCode(1, Len(payload))
        THEN /\ typ = "NALU_ANNEXB"
             /\ \E n \in 0 .. Len(payload) : ~HasStartCode(1, n) /\ IsAnnexB(n, nalus)
        ELSE \/ typ = "NALU_AVCC" /\ IsAvcc(nalus)
             \/ typ = "NALU_RAW" /\ nalus = <<Slice(1, Len(payload))>> /\ ~Covered
=============================================================================
