----------------------------- MODULE H264Proofs -----------------------------
(***************************************************************************)
(* What is proved of H264Split, for any sample, and of H264Payloader, for  *)
(* any units, any packet length the header of a fragment fits in, and any  *)
(* number of samples.                                                      *)
(***************************************************************************)
EXTENDS H264Payloader, H264Split, SequenceTheorems, TLAPS

LEMMA Division ==
    ASSUME NEW a \in Int, NEW b \in Nat \ {0}
    PROVE  /\ a % b \in 0 .. b - 1 /\ a \div b \in Int
           /\ a - b * (a \div b) = a % b
<1>1. a % b \in 0 .. b - 1 /\ a \div b \in Int
  OBVIOUS
<1>2. a = (a \div b) * b + (a % b)
  BY Z3
<1> QED
  BY <1>1, <1>2

-----------------------------------------------------------------------------
\* the units there are, their fragments and their packets
Numbered == [type : UnitTypes, len : Nat, nr : Nat \ {0}]
PieceSet == [unit : Numbered, from : Int, to : Int]
PacketSet == [kind : {"single", "stap-a", "fu-a"}, size : Int, start : BOOLEAN,
              end : BOOLEAN, pieces : Seq(PieceSet)]

Completes(p) == p.kind # "fu-a" \/ p.end

PayloadTypes ==
    /\ given \in Seq(Numbered) /\ \A k \in DOMAIN given : given[k].nr = k
    /\ done \in 0 .. Len(given)
    /\ payloads \in Seq(PacketSet)

\* The stash holds the latest set of each kind, unless a picture came since.
StashOf(x, type) ==
    /\ x # None => /\ x.nr \in 1 .. done /\ x = given[x.nr]
                   /\ Latest(x.nr, done + 1, type)
    /\ \A i \in 1 .. done :
           Latest(i, done + 1, type) /\ (\A m \in i + 1 .. done : ~Live(m, "picture"))
               => x = given[i]
Stash == StashOf(sps, "sps") /\ StashOf(pps, "pps")

\* What the packets carry.
IsPicture(k) == k \in 1 .. done /\ Live(k, "picture")
Made(p) ==
    \/ \E k \in 1 .. done : IsPicture(k) /\ given[k].len <= MTU /\ p = Single(given[k])
    \/ \E i, j \in 1 .. done : /\ Live(i, "sps") /\ Live(j, "pps")
                               /\ p = StapA(given[i], given[j]) /\ p.size <= MTU
    \/ \E k \in 1 .. done : /\ IsPicture(k) /\ given[k].len > MTU
                            /\ \E m \in DOMAIN Fragments(given[k]) : p = Fragments(given[k])[m]
AllMade == \A n \in DOMAIN payloads : Made(payloads[n])

\* the fragments of unit k are the packets after the b-th
BodyAt(b, k) ==
    /\ IsPicture(k) /\ given[k].len > MTU
    /\ \A m \in DOMAIN Fragments(given[k]) :
           b + m \in DOMAIN payloads /\ payloads[b + m] = Fragments(given[k])[m]
Bodies ==
    \A n \in DOMAIN payloads : payloads[n].kind = "fu-a" =>
        \E b \in 0 .. n - 1, k \in 1 .. done :
            BodyAt(b, k) /\ n - b \in DOMAIN Fragments(given[k])

\* Units of a type are sent in order, and the stash is younger than all sent.
Sorted ==
    \A n, o \in DOMAIN payloads : n < o /\ Completes(payloads[n]) =>
        \A x \in DOMAIN payloads[n].pieces, y \in DOMAIN payloads[o].pieces :
            payloads[n].pieces[x].unit.type = payloads[o].pieces[y].unit.type
                => payloads[n].pieces[x].unit.nr < payloads[o].pieces[y].unit.nr
Younger ==
    \A n \in DOMAIN payloads : \A x \in DOMAIN payloads[n].pieces : \A s \in {sps, pps} :
        payloads[n].pieces[x].unit.type = s.type => payloads[n].pieces[x].unit.nr < s.nr

\* a pair of sets for picture k
Sent ==
    \A k \in 1 .. done : IsPicture(k) =>
        \E n \in DOMAIN payloads : /\ Completes(payloads[n])
                                   /\ payloads[n].pieces[1].unit = given[k]
Led ==
    \A n \in DOMAIN payloads, k \in 1 .. done :
        /\ payloads[n].kind = "single" \/ payloads[n].start
        /\ payloads[n].pieces[1].unit.nr = k
        => \A i, j \in 1 .. k - 1 : Pair(i, j, k)
               => n > 1 /\ payloads[n - 1] = StapA(given[i], given[j])

PayloadInv == PayloadTypes /\ Stash /\ AllMade /\ Bodies /\ Sorted /\ Younger /\ Sent /\ Led

-----------------------------------------------------------------------------
\* how far the receiver has put together what it took
Opened ==
    \/ open = <<>> /\ (taken = 0 \/ Completes(payloads[taken]))
    \/ \E b \in 0 .. taken - 1, k \in 1 .. done :
           /\ BodyAt(b, k) /\ taken - b \in 1 .. Len(Fragments(given[k])) - 1
           /\ open = [m \in 1 .. taken - b |-> Fragments(given[k])[m].pieces[1]]

Taken ==
    \A i \in DOMAIN received : \E n \in 1 .. taken :
        /\ Completes(payloads[n])
        /\ \E x \in DOMAIN payloads[n].pieces : received[i] = payloads[n].pieces[x].unit
Arrived ==
    \A n \in 1 .. taken : Completes(payloads[n]) =>
        \A x \in DOMAIN payloads[n].pieces : \E i \in DOMAIN received :
            received[i] = payloads[n].pieces[x].unit
InTurn ==
    \A i, j \in DOMAIN received : i < j /\ received[i].type = received[j].type
        => received[i].nr < received[j].nr

\* the sets that were taken last, before a unit not complete yet
Before ==
    \A b \in DOMAIN payloads : b = taken - Len(open) /\ payloads[b].kind = "stap-a" =>
        /\ Len(received) >= 2
        /\ received[Len(received) - 1] = payloads[b].pieces[1].unit
        /\ received[Len(received)] = payloads[b].pieces[2].unit
PairsFirst ==
    \A at \in DOMAIN received, k \in 1 .. done :
        received[at].type = "picture" /\ received[at].nr = k =>
            \A i, j \in 1 .. k - 1 : Pair(i, j, k) =>
                at > 2 /\ received[at - 2] = given[i] /\ received[at - 1] = given[j]

ReceiverInv ==
    /\ taken \in 0 .. Len(payloads) /\ received \in Seq(Numbered)
    /\ Opened /\ Taken /\ Arrived /\ InTurn /\ Before /\ PairsFirst
-----------------------------------------------------------------------------
(* Fragments.                                                              *)

Room == MTU - FuaHeaderSize
Count(u) == (u.len - 1 + Room - 1) \div Room
LastByte(u, m) == IF m = Count(u) THEN u.len ELSE 1 + m * Room

LEMMA RoomNat == Room \in Nat \ {0} /\ MTU \in Nat /\ MTU = Room + 2
  BY PayloaderAssumption DEF Room, FuaHeaderSize

LEMMA FragmentsForm ==
    ASSUME NEW u
    PROVE  Fragments(u) = [i \in 1 .. Count(u) |->
              [kind |-> "fu-a", size |-> 2 + LastByte(u, i) - (1 + (i - 1) * Room),
               start |-> i = 1, end |-> i = Count(u) /\ i # 1,
               pieces |-> <<Piece(u, 2 + (i - 1) * Room, LastByte(u, i))>>]]
  BY Zenon DEF Fragments, Count, LastByte, Room, FuaHeaderSize

\* how many there are: the last is not empty, and takes what is left
LEMMA CountFits ==
    ASSUME NEW u \in Numbered, u.len > MTU
    PROVE  /\ Count(u) \in Nat /\ Count(u) >= 2
           /\ (Count(u) - 1) * Room < u.len - 1
           /\ u.len - 1 <= (Count(u) - 1) * Room + Room
<1> DEFINE n == Count(u)
           r == Room
           l == u.len
<1>1. r \in Nat \ {0} /\ l \in Nat /\ l > r + 2
  BY RoomNat DEF Numbered
<1>2. n \in Int /\ l - 1 + r - 1 - r * n \in 0 .. r - 1
  <2> DEFINE a == l - 1 + r - 1
  <2>1. a \in Int
    BY <1>1
  <2>2. n = a \div r
    BY DEF Count
  <2> HIDE DEF a, r, n, l
  <2>3. n \in Int /\ a - r * n \in 0 .. r - 1
    BY <1>1, <2>1, <2>2, Division
  <2> QED
    BY <1>1, <2>3 DEF a
<1> HIDE DEF n, r, l
<1>3. r * n = (n - 1) * r + r
  BY <1>1, <1>2
<1>4. n >= 2
  <2> SUFFICES ASSUME n <= 1 PROVE FALSE
    BY <1>2
  <2>1. r * n <= r * 1
    BY <1>1, <1>2
  <2> QED
    BY <1>1, <1>2, <2>1
<1> DEFINE p == (n - 1) * r
           q == r * n
<1>5. p \in Int /\ q \in Int /\ q = p + r /\ l - 1 + r - 1 - q \in 0 .. r - 1
  BY <1>1, <1>2, <1>3
<1> HIDE DEF p, q
<1>6. p < l - 1 /\ l - 1 <= p + r
  BY <1>1, <1>5
<1> QED
  BY <1>2, <1>4, <1>6 DEF n, r, l, p

\* A fragment ends where the next begins, and none is too long.
LEMMA FragmentEnds ==
    ASSUME NEW u \in Numbered, u.len > MTU, NEW m \in 1 .. Count(u)
    PROVE  /\ (m - 1) * Room \in Nat /\ LastByte(u, m) \in Int
           /\ m < Count(u) => LastByte(u, m) = 1 + m * Room
           /\ m = Count(u) => LastByte(u, m) = u.len
           /\ LastByte(u, m) <= (m - 1) * Room + Room + 1
<1>1. Count(u) \in Nat /\ Count(u) >= 2 /\ u.len - 1 <= (Count(u) - 1) * Room + Room
  BY CountFits
<1>2. u.len \in Nat /\ Room \in Nat \ {0}
  BY RoomNat DEF Numbered
<1>3. (m - 1) * Room \in Nat /\ m * Room \in Nat /\ m * Room = (m - 1) * Room + Room
  BY <1>1, <1>2
<1>4. CASE m = Count(u)
  BY <1>1, <1>2, <1>3, <1>4 DEF LastByte
<1>5. CASE m # Count(u)
  BY <1>1, <1>2, <1>3, <1>5 DEF LastByte
<1> QED
  BY <1>4, <1>5

LEMMA FragmentFacts ==
    ASSUME NEW u \in Numbered, u.len > MTU
    PROVE  /\ Len(Fragments(u)) = Count(u) /\ Count(u) \in Nat /\ Count(u) >= 2
           /\ DOMAIN Fragments(u) = 1 .. Count(u)
           /\ Fragments(u) \in Seq(PacketSet)
           /\ \A m \in 1 .. Count(u) :
                 /\ Fragments(u)[m].kind = "fu-a" /\ Fragments(u)[m].size <= MTU
                 /\ Fragments(u)[m].start <=> m = 1
                 /\ Fragments(u)[m].end <=> m = Count(u)
                 /\ Fragments(u)[m].pieces
                       = <<Piece(u, 2 + (m - 1) * Room, LastByte(u, m))>>
<1>1. Count(u) \in Nat /\ Count(u) >= 2
  BY CountFits
<1>2. ASSUME NEW m \in 1 .. Count(u)
      PROVE  /\ Fragments(u)[m].kind = "fu-a" /\ Fragments(u)[m].size <= MTU
             /\ Fragments(u)[m].start <=> m = 1
             /\ Fragments(u)[m].end <=> m = Count(u)
             /\ Fragments(u)[m].pieces = <<Piece(u, 2 + (m - 1) * Room, LastByte(u, m))>>
             /\ Fragments(u)[m] \in PacketSet
  <2> DEFINE a == (m - 1) * Room
             l == LastByte(u, m)
             f == [kind |-> "fu-a", size |-> 2 + l - (1 + a), start |-> m = 1,
                   end |-> m = Count(u) /\ m # 1, pieces |-> <<Piece(u, 2 + a, l)>>]
  <2>1. a \in Nat /\ l \in Int /\ l <= a + Room + 1
    BY FragmentEnds
  <2>2. Fragments(u)[m] = f
    BY FragmentsForm
  <2> HIDE DEF a, l
  <2>3. f.kind = "fu-a" /\ (f.start <=> m = 1) /\ f.pieces = <<Piece(u, 2 + a, l)>>
    BY Zenon
  <2>4. f.end <=> m = Count(u)
    <3>1. f.end <=> (m = Count(u) /\ m # 1)
      BY Zenon
    <3> QED
      BY <1>1, <3>1
  <2>5. f.size = 2 + l - (1 + a)
    BY Zenon
  <2>6. f.size \in Int /\ f.size <= MTU
    BY <2>1, <2>5, RoomNat
  <2>7. f \in PacketSet
    <3>1. Piece(u, 2 + a, l) \in PieceSet
      BY <2>1 DEF Piece, PieceSet
    <3>2. <<Piece(u, 2 + a, l)>> \in Seq(PieceSet)
      BY <3>1
    <3>3. 2 + l - (1 + a) \in Int
      BY <2>1
    <3>4. (m = 1) \in BOOLEAN /\ (m = Count(u) /\ m # 1) \in BOOLEAN
      OBVIOUS
    <3> QED
      BY <3>2, <3>3, <3>4, Zenon DEF PacketSet
  <2> QED
    BY <2>2, <2>3, <2>4, <2>6, <2>7 DEF a, l
<1>3. DOMAIN Fragments(u) = 1 .. Count(u)
  BY FragmentsForm
<1>4. Fragments(u) \in Seq(PacketSet) /\ Len(Fragments(u)) = Count(u)
  <2>1. Fragments(u) \in [1 .. Count(u) -> PacketSet]
    <3>1. Fragments(u) = [i \in 1 .. Count(u) |-> Fragments(u)[i]]
      BY FragmentsForm
    <3> QED
      BY <1>2, <3>1
  <2> QED
    BY <1>1, <2>1, <1>3
<1> QED
  BY <1>1, <1>2, <1>3, <1>4

\* A fragment tells its unit and its place.
LEMMA FragmentTells ==
    ASSUME NEW u \in Numbered, u.len > MTU, NEW v \in Numbered, v.len > MTU,
           NEW m \in 1 .. Count(u), NEW n \in 1 .. Count(v),
           Fragments(u)[m] = Fragments(v)[n]
    PROVE  u = v /\ m = n
<1>1. Count(u) \in Nat /\ Count(v) \in Nat /\ Room \in Nat \ {0}
  BY CountFits, RoomNat
<1>2. Piece(u, 2 + (m - 1) * Room, LastByte(u, m)) = Piece(v, 2 + (n - 1) * Room, LastByte(v, n))
  <2>1. Fragments(u)[m].pieces = <<Piece(u, 2 + (m - 1) * Room, LastByte(u, m))>>
    BY FragmentFacts
  <2>2. Fragments(v)[n].pieces = <<Piece(v, 2 + (n - 1) * Room, LastByte(v, n))>>
    BY FragmentFacts
  <2> QED
    BY <2>1, <2>2
<1>3. u = v /\ 2 + (m - 1) * Room = 2 + (n - 1) * Room
  BY <1>2 DEF Piece
<1>4. (m - 1) * Room = (n - 1) * Room
  <2>1. (m - 1) * Room \in Int /\ (n - 1) * Room \in Int
    BY <1>1
  <2> QED
    BY <1>3, <2>1
<1>5. (m - n) * Room = 0
  BY <1>1, <1>4
<1>6. m - n = 0
  <2>1. ASSUME m - n >= 1 PROVE FALSE
    <3>1. (m - n) * Room >= 1 * Room
      BY <1>1, <2>1
    <3> QED
      BY <1>1, <1>5, <3>1
  <2>2. ASSUME m - n <= -1 PROVE FALSE
    <3>1. (m - n) * Room <= (-1) * Room
      BY <1>1, <2>2
    <3> QED
      BY <1>1, <1>5, <3>1
  <2> QED
    BY <1>1, <2>1, <2>2
<1> QED
  BY <1>1, <1>3, <1>6

\* The fragments of a unit, put together, are the unit.
LEMMA FragmentsWhole ==
    ASSUME NEW u \in Numbered, u.len > MTU
    PROVE  Whole([m \in 1 .. Count(u) |-> Fragments(u)[m].pieces[1]])
<1> DEFINE ps == [m \in 1 .. Count(u) |-> Fragments(u)[m].pieces[1]]
<1>1. Count(u) \in Nat /\ Count(u) >= 2 /\ Room \in Nat \ {0}
  BY CountFits, RoomNat
<1>2. ASSUME NEW m \in 1 .. Count(u)
      PROVE  /\ ps[m].unit = u /\ ps[m].from = 2 + (m - 1) * Room
             /\ ps[m].to = LastByte(u, m)
  <2>1. ps[m] = Piece(u, 2 + (m - 1) * Room, LastByte(u, m))
    BY FragmentFacts
  <2> HIDE DEF ps
  <2> QED
    BY <2>1 DEF Piece
<1>3. Len(ps) = Count(u) /\ DOMAIN ps = 1 .. Count(u)
  BY <1>1
<1> HIDE DEF ps
<1>4. ps[1].unit = u /\ ps[1].from = 2
  BY <1>1, <1>2
<1>5. ps[Count(u)].to = u.len
  BY <1>1, <1>2, FragmentEnds
<1>6. ASSUME NEW m \in 2 .. Count(u)
      PROVE  ps[m].from = ps[m - 1].to + 1
  <2>1. m - 1 \in 1 .. Count(u) /\ m - 1 < Count(u) /\ m \in 1 .. Count(u)
    BY <1>1
  <2>2. ps[m].from = 2 + (m - 1) * Room /\ ps[m - 1].to = 1 + (m - 1) * Room
    BY <1>2, <2>1, FragmentEnds
  <2>3. (m - 1) * Room \in Int
    BY <1>1, <2>1
  <2> QED
    BY <2>2, <2>3
<1>7. Whole(ps)
  <2>1. \A m \in DOMAIN ps : ps[m].unit = ps[1].unit
    BY <1>2, <1>3, <1>4
  <2>2. ps[1].from <= 2 /\ ps[Len(ps)].to = ps[1].unit.len
    BY <1>3, <1>4, <1>5
  <2>3. \A m \in 2 .. Len(ps) : ps[m].from = ps[m - 1].to + 1
    BY <1>3, <1>6
  <2> QED
    BY <2>1, <2>2, <2>3 DEF Whole
<1> QED
  BY <1>7 DEF ps

-----------------------------------------------------------------------------
(* The packets.                                                            *)

LEMMA SingleFacts ==
    ASSUME NEW u \in Numbered
    PROVE  /\ Single(u) \in PacketSet /\ Single(u).kind = "single" /\ Single(u).size = u.len
           /\ DOMAIN Single(u).pieces = 1 .. 1 /\ Single(u).pieces[1].unit = u
           /\ ~Single(u).start
<1>1. Piece(u, 1, u.len) \in PieceSet /\ u.len \in Int /\ Piece(u, 1, u.len).unit = u
  BY DEF Piece, PieceSet, Numbered
<1>2. <<Piece(u, 1, u.len)>> \in Seq(PieceSet) /\ DOMAIN <<Piece(u, 1, u.len)>> = 1 .. 1
  BY <1>1
<1>3. Single(u) \in PacketSet
  BY <1>1, <1>2, Zenon DEF Single, PacketSet
<1> QED
  BY <1>1, <1>2, <1>3 DEF Single

LEMMA StapAFacts ==
    ASSUME NEW s \in Numbered, NEW p \in Numbered
    PROVE  /\ StapA(s, p) \in PacketSet /\ StapA(s, p).kind = "stap-a"
           /\ DOMAIN StapA(s, p).pieces = 1 .. 2
           /\ StapA(s, p).pieces[1].unit = s /\ StapA(s, p).pieces[2].unit = p
           /\ ~StapA(s, p).start
<1> DEFINE a == Piece(s, 1, s.len)
           b == Piece(p, 1, p.len)
<1>1. a \in PieceSet /\ b \in PieceSet /\ a.unit = s /\ b.unit = p
  BY DEF Piece, PieceSet, Numbered
<1>2. 1 + 2 + s.len + 2 + p.len \in Int
  BY DEF Numbered
<1> HIDE DEF a, b
<1>3. <<a, b>> \in Seq(PieceSet) /\ DOMAIN <<a, b>> = 1 .. 2 /\ <<a, b>>[1] = a /\ <<a, b>>[2] = b
  BY <1>1
<1>4. StapA(s, p).pieces = <<a, b>>
  BY DEF StapA, a, b
<1>5. StapA(s, p) \in PacketSet
  BY <1>2, <1>3, Zenon DEF StapA, PacketSet, a, b
<1> QED
  BY <1>1, <1>3, <1>4, <1>5 DEF StapA

LEMMA GivenUnit ==
    ASSUME PayloadTypes, NEW k \in 1 .. Len(given)
    PROVE  given[k] \in Numbered /\ given[k].nr = k
  BY DEF PayloadTypes

\* which units are where
LEMMA MadeFacts ==
    ASSUME PayloadTypes, NEW p, Made(p)
    PROVE  /\ p \in PacketSet /\ p.size <= MTU
           /\ p.kind = "stap-a" =>
                 /\ DOMAIN p.pieces = 1 .. 2
                 /\ p.pieces[1].unit.type = "sps" /\ p.pieces[2].unit.type = "pps"
                 /\ ~p.start
           /\ p.kind # "stap-a" =>
                 /\ DOMAIN p.pieces = 1 .. 1 /\ IsPicture(p.pieces[1].unit.nr)
           /\ p.kind = "single" => ~p.start
           /\ \A x \in DOMAIN p.pieces :
                 /\ p.pieces[x].unit \in Numbered /\ p.pieces[x].unit.nr \in 1 .. done
                 /\ p.pieces[x].unit = given[p.pieces[x].unit.nr]
<1>0. 1 .. done \subseteq 1 .. Len(given)
  BY DEF PayloadTypes
<1>1. CASE \E k \in 1 .. done : IsPicture(k) /\ given[k].len <= MTU /\ p = Single(given[k])
  <2> PICK k \in 1 .. done : IsPicture(k) /\ given[k].len <= MTU /\ p = Single(given[k])
    BY <1>1
  <2>1. given[k] \in Numbered /\ given[k].nr = k
    BY <1>0, GivenUnit
  <2> QED
    BY <2>1, SingleFacts
<1>2. CASE \E i, j \in 1 .. done : /\ Live(i, "sps") /\ Live(j, "pps")
                                   /\ p = StapA(given[i], given[j]) /\ p.size <= MTU
  <2> PICK i \in 1 .. done, j \in 1 .. done : /\ Live(i, "sps") /\ Live(j, "pps")
                                              /\ p = StapA(given[i], given[j]) /\ p.size <= MTU
    BY <1>2
  <2>1. given[i] \in Numbered /\ given[i].nr = i /\ given[j] \in Numbered /\ given[j].nr = j
    BY <1>0, GivenUnit
  <2>2. given[i].type = "sps" /\ given[j].type = "pps"
    BY DEF Live
  <2> QED
    BY <2>1, <2>2, StapAFacts
<1>3. CASE \E k \in 1 .. done : /\ IsPicture(k) /\ given[k].len > MTU
                                /\ \E m \in DOMAIN Fragments(given[k]) : p = Fragments(given[k])[m]
  <2> PICK k \in 1 .. done : /\ IsPicture(k) /\ given[k].len > MTU
                             /\ \E m \in DOMAIN Fragments(given[k]) : p = Fragments(given[k])[m]
    BY <1>3
  <2>1. given[k] \in Numbered /\ given[k].nr = k
    BY <1>0, GivenUnit
  <2>2. PICK m \in 1 .. Count(given[k]) : p = Fragments(given[k])[m]
    BY <2>1, FragmentFacts
  <2>3. /\ p.kind = "fu-a" /\ p.size <= MTU /\ p \in PacketSet
        /\ p.pieces = <<Piece(given[k], 2 + (m - 1) * Room, LastByte(given[k], m))>>
    BY <2>1, <2>2, FragmentFacts
  <2>4. DOMAIN p.pieces = 1 .. 1 /\ p.pieces[1].unit = given[k]
    BY <2>3 DEF Piece
  <2> QED
    BY <2>1, <2>3, <2>4
<1> QED
  BY <1>1, <1>2, <1>3 DEF Made

-----------------------------------------------------------------------------
(* What a step does to what was there before.                              *)

Grows ==
    /\ \A k \in 1 .. Len(given) : k \in 1 .. Len(given)' /\ given'[k] = given[k]
    /\ done <= done'
    /\ \A n \in DOMAIN payloads : n \in DOMAIN payloads' /\ payloads'[n] = payloads[n]

LEMMA LiveKept ==
    ASSUME Grows, NEW k \in 1 .. Len(given), NEW type
    PROVE  Live(k, type)' <=> Live(k, type)
  BY DEF Grows, Live

LEMMA LatestKept ==
    ASSUME Grows, NEW k \in 1 .. Len(given) + 1, NEW i \in 1 .. k - 1, NEW type
    PROVE  Latest(i, k, type)' <=> Latest(i, k, type)
<1>1. \A m \in i .. k - 1 : Live(m, type)' <=> Live(m, type)
  BY LiveKept
<1>2. Live(i, type)' <=> Live(i, type)
  BY <1>1
<1>3. \A m \in i + 1 .. k - 1 : Live(m, type)' <=> Live(m, type)
  BY <1>1
<1> QED
  BY <1>2, <1>3 DEF Latest

LEMMA PairKept ==
    ASSUME PayloadTypes, Grows, NEW k \in 1 .. Len(given) + 1, NEW i \in 1 .. k - 1, NEW j \in 1 .. k - 1
    PROVE  Pair(i, j, k)' <=> Pair(i, j, k)
<1>1. Latest(i, k, "sps")' <=> Latest(i, k, "sps")
  BY LatestKept
<1>2. Latest(j, k, "pps")' <=> Latest(j, k, "pps")
  BY LatestKept
<1>3. \A m \in 1 .. k - 1 : Live(m, "picture")' <=> Live(m, "picture")
  BY LiveKept DEF PayloadTypes
<1>4. given'[i] = given[i] /\ given'[j] = given[j]
  <2>1. Len(given) \in Nat
    BY DEF PayloadTypes
  <2>2. i \in 1 .. Len(given) /\ j \in 1 .. Len(given)
    BY <2>1
  <2> QED
    BY <2>2 DEF Grows
<1> QED
  BY <1>1, <1>2, <1>3, <1>4 DEF Pair

LEMMA PictureKept ==
    ASSUME PayloadTypes, PayloadTypes', Grows, NEW k, IsPicture(k)
    PROVE  IsPicture(k)' /\ k \in 1 .. Len(given) /\ given'[k] = given[k] /\ k \in 1 .. done'
<1>1. k \in 1 .. Len(given) /\ k \in 1 .. done'
  BY DEF IsPicture, PayloadTypes, Grows
<1> QED
  BY <1>1, LiveKept DEF IsPicture, Grows

LEMMA MadeKept ==
    ASSUME PayloadTypes, PayloadTypes', Grows, NEW p, Made(p)
    PROVE  Made(p)'
<1>0. 1 .. done \subseteq 1 .. Len(given) /\ 1 .. done \subseteq 1 .. done'
  BY DEF PayloadTypes, Grows
<1>1. ASSUME NEW k \in 1 .. done, IsPicture(k)
      PROVE  IsPicture(k)' /\ k \in 1 .. done' /\ given'[k] = given[k]
  BY <1>1, PictureKept
<1>2. CASE \E k \in 1 .. done : IsPicture(k) /\ given[k].len <= MTU /\ p = Single(given[k])
  BY <1>1, <1>2 DEF Made
<1>3. CASE \E i, j \in 1 .. done : /\ Live(i, "sps") /\ Live(j, "pps")
                                   /\ p = StapA(given[i], given[j]) /\ p.size <= MTU
  <2> PICK i \in 1 .. done, j \in 1 .. done : /\ Live(i, "sps") /\ Live(j, "pps")
                                              /\ p = StapA(given[i], given[j]) /\ p.size <= MTU
    BY <1>3
  <2>1. Live(i, "sps")' /\ Live(j, "pps")'
    BY <1>0, LiveKept
  <2>2. given'[i] = given[i] /\ given'[j] = given[j] /\ i \in 1 .. done' /\ j \in 1 .. done'
    BY <1>0 DEF Grows
  <2> QED
    BY <2>1, <2>2 DEF Made
<1>4. CASE \E k \in 1 .. done : /\ IsPicture(k) /\ given[k].len > MTU
                                /\ \E m \in DOMAIN Fragments(given[k]) : p = Fragments(given[k])[m]
  BY <1>1, <1>4 DEF Made
<1> QED
  BY <1>2, <1>3, <1>4 DEF Made

LEMMA BodyKept ==
    ASSUME PayloadTypes, PayloadTypes', Grows, NEW b, NEW k, BodyAt(b, k)
    PROVE  BodyAt(b, k)' /\ k \in 1 .. done' /\ given'[k] = given[k]
<1>1. IsPicture(k)' /\ k \in 1 .. done' /\ given'[k] = given[k]
  BY PictureKept DEF BodyAt
<1>2. \A m \in DOMAIN Fragments(given[k]) :
          b + m \in DOMAIN payloads' /\ payloads'[b + m] = Fragments(given[k])[m]
  BY DEF BodyAt, Grows
<1> QED
  BY <1>1, <1>2 DEF BodyAt

-----------------------------------------------------------------------------
(* The invariant of the payloader.                                         *)

LEMMA PayloadInitInv == PayloadInit => PayloadInv /\ ReceiverInv
<1> SUFFICES ASSUME PayloadInit PROVE PayloadInv /\ ReceiverInv
  OBVIOUS
<1> USE DEF PayloadInit
<1>1. PayloadTypes
  BY DEF PayloadTypes
<1>2. Stash
  BY DEF Stash, StashOf
<1>3. AllMade /\ Bodies /\ Sorted /\ Younger /\ Sent /\ Led
  BY DEF AllMade, Bodies, Sorted, Younger, Sent, Led
<1>4. ReceiverInv
  <2>1. Opened
    BY DEF Opened
  <2> QED
    BY <2>1 DEF ReceiverInv, Taken, Arrived, InTurn, Before, PairsFirst
<1> QED
  BY <1>1, <1>2, <1>3, <1>4 DEF PayloadInv

\* The units of a sample are numbered on.
LEMMA SampleNumbered ==
    ASSUME PayloadTypes, NEW s \in Samples, Packetize(s)
    PROVE  PayloadTypes' /\ Grows
<1> DEFINE t == [i \in DOMAIN s |-> [type |-> s[i].type, len |-> s[i].len, nr |-> Len(given) + i]]
<1>1. PICK n \in 1 .. MaxUnits - Len(given) : s \in [1 .. n -> Units]
  BY DEF Samples
<1>2. Len(given) \in Nat /\ n \in Nat
  BY DEF PayloadTypes
<1>3. \A i \in 1 .. n : t[i] \in Numbered /\ t[i].nr = Len(given) + i
  <2> TAKE i \in 1 .. n
  <2>1. s[i] \in [type : UnitTypes, len : Nat] /\ i \in DOMAIN s
    BY <1>1, PayloaderAssumption
  <2> QED
    BY <1>2, <2>1 DEF Numbered
<1>4. t \in Seq(Numbered) /\ Len(t) = n
  <2>1. DOMAIN s = 1 .. n
    BY <1>1
  <2>2. t \in [1 .. n -> Numbered]
    BY <1>3, <2>1
  <2> QED
    BY <1>2, <2>1, <2>2
<1>5. given' = given \o t
  BY DEF Packetize
<1> HIDE DEF t
<1>6. /\ given' \in Seq(Numbered) /\ Len(given') = Len(given) + n
      /\ \A k \in 1 .. Len(given) : given'[k] = given[k]
      /\ \A k \in 1 .. n : given'[Len(given) + k] = t[k]
  <2>1. given \in Seq(Numbered)
    BY DEF PayloadTypes
  <2>2. /\ given' \in Seq(Numbered) /\ Len(given') = Len(given) + n
        /\ \A k \in 1 .. Len(given) + n :
               given'[k] = IF k <= Len(given) THEN given[k] ELSE t[k - Len(given)]
    BY <1>4, <1>5, <2>1, ConcatProperties
  <2>3. ASSUME NEW k \in 1 .. n PROVE given'[Len(given) + k] = t[k]
    <3>1. Len(given) + k \in 1 .. Len(given) + n /\ ~(Len(given) + k <= Len(given))
          /\ (Len(given) + k) - Len(given) = k
      BY <1>2
    <3> QED
      BY <2>2, <3>1
  <2> QED
    BY <1>2, <2>2, <2>3
<1>7. \A k \in DOMAIN given' : given'[k].nr = k
  <2> TAKE k \in DOMAIN given'
  <2>1. k \in 1 .. Len(given) + n
    BY <1>6
  <2>2. CASE k <= Len(given)
    BY <1>6, <2>1, <2>2 DEF PayloadTypes
  <2>3. CASE k > Len(given)
    <3> DEFINE i == k - Len(given)
    <3>1. i \in 1 .. n /\ k = Len(given) + i
      BY <1>2, <2>1, <2>3
    <3> HIDE DEF i
    <3> QED
      BY <1>3, <1>6, <3>1
  <2> QED
    BY <1>2, <2>1, <2>2, <2>3
<1>8. done' = done /\ payloads' = payloads
  BY DEF Packetize
<1>9. PayloadTypes'
  BY <1>2, <1>6, <1>7, <1>8 DEF PayloadTypes
<1> QED
  BY <1>2, <1>6, <1>8, <1>9 DEF Grows, PayloadTypes

LEMMA PacketizeKeeps ==
    ASSUME PayloadInv, NEW s \in Samples, Packetize(s)
    PROVE  PayloadInv' /\ Grows
<1> USE DEF PayloadInv
<1>1. PayloadTypes' /\ Grows
  BY SampleNumbered
<1>2. /\ done' = done /\ payloads' = payloads /\ sps' = sps /\ pps' = pps
      /\ done \in 0 .. Len(given) /\ Len(given) \in Nat
  BY DEF Packetize, PayloadTypes
<1>3. ASSUME NEW x, NEW type, StashOf(x, type) PROVE StashOf(x, type)'
  <2>1. \A i \in 1 .. done : Latest(i, done + 1, type)' <=> Latest(i, done + 1, type)
    BY <1>1, <1>2, LatestKept
  <2>2. \A m \in 1 .. done : Live(m, "picture")' <=> Live(m, "picture")
    BY <1>1, <1>2, LiveKept
  <2>3. \A m \in 1 .. done : given'[m] = given[m]
    BY <1>1, <1>2 DEF Grows
  <2>4. x # None => /\ x.nr \in 1 .. done' /\ x = given'[x.nr]
                    /\ Latest(x.nr, done + 1, type)'
    BY <1>2, <1>3, <2>1, <2>3 DEF StashOf
  <2>5. ASSUME NEW i \in 1 .. done', Latest(i, done + 1, type)',
               \A m \in i + 1 .. done' : ~Live(m, "picture")'
        PROVE  x = given'[i]
    <3>1. i \in 1 .. done /\ Latest(i, done + 1, type)
      BY <1>2, <2>1, <2>5
    <3>2. \A m \in i + 1 .. done : ~Live(m, "picture")
      BY <1>2, <2>2, <2>5
    <3> QED
      BY <1>3, <2>3, <3>1, <3>2 DEF StashOf
  <2> QED
    BY <1>2, <2>4, <2>5 DEF StashOf
<1>4. Stash'
  <2>1. StashOf(sps, "sps") /\ StashOf(pps, "pps")
    BY DEF Stash
  <2> PICK x, y : x = sps /\ y = pps
    OBVIOUS
  <2>2. StashOf(x, "sps")' /\ StashOf(y, "pps")'
    BY <1>3, <2>1
  <2> QED
    BY <1>2, <2>2 DEF Stash, StashOf
<1>5. AllMade'
  BY <1>1, <1>2, MadeKept DEF AllMade
<1>6. Bodies'
  <2> SUFFICES ASSUME NEW n \in DOMAIN payloads, payloads[n].kind = "fu-a"
               PROVE  \E b \in 0 .. n - 1, k \in 1 .. done' :
                          BodyAt(b, k)' /\ n - b \in DOMAIN Fragments(given'[k])
    BY <1>2 DEF Bodies
  <2> PICK b \in 0 .. n - 1, k \in 1 .. done : BodyAt(b, k) /\ n - b \in DOMAIN Fragments(given[k])
    BY DEF Bodies
  <2> QED
    BY <1>1, <1>2, BodyKept
<1>7. Sorted' /\ Younger'
  BY <1>2 DEF Sorted, Younger
<1>8. Sent'
  <2> SUFFICES ASSUME NEW k \in 1 .. done, IsPicture(k)'
               PROVE  \E n \in DOMAIN payloads : /\ Completes(payloads[n])
                                                 /\ payloads[n].pieces[1].unit = given'[k]
    BY <1>2 DEF Sent, Completes
  <2>1. k \in 1 .. Len(given)
    BY <1>2
  <2>2. given'[k] = given[k] /\ IsPicture(k)
    BY <1>1, <1>2, <2>1, LiveKept DEF IsPicture, Grows
  <2> QED
    BY <2>2 DEF Sent
<1>9. Led'
  <2> SUFFICES ASSUME NEW n \in DOMAIN payloads', NEW k \in 1 .. done',
                      payloads'[n].kind = "single" \/ payloads'[n].start,
                      payloads'[n].pieces[1].unit.nr = k,
                      NEW i \in 1 .. k - 1, NEW j \in 1 .. k - 1, Pair(i, j, k)'
               PROVE  n > 1 /\ payloads'[n - 1] = StapA(given'[i], given'[j])
    BY DEF Led
  <2>1. k \in 1 .. Len(given) + 1 /\ i \in 1 .. Len(given) /\ j \in 1 .. Len(given)
    BY <1>2
  <2>2. Pair(i, j, k) /\ given'[i] = given[i] /\ given'[j] = given[j]
    BY <1>1, <2>1, PairKept DEF Grows
  <2> QED
    BY <1>2, <2>2 DEF Led
<1> QED
  BY <1>1, <1>4, <1>5, <1>6, <1>7, <1>8, <1>9

-----------------------------------------------------------------------------
(* A round of the loop.                                                    *)

LEMMA UnitFacts ==
    ASSUME PayloadTypes, NEW unit, NextUnit(unit)
    PROVE  /\ unit \in Numbered /\ unit.nr = done + 1 /\ unit = given[done + 1]
           /\ done + 1 \in 1 .. Len(given) /\ done \in Nat
           /\ done' = done + 1 /\ given' = given
<1>1. done \in 0 .. Len(given) /\ Len(given) \in Nat /\ done < Len(given)
  BY DEF PayloadTypes, NextUnit
<1>2. done + 1 \in 1 .. Len(given)
  BY <1>1
<1> QED
  BY <1>1, <1>2, GivenUnit DEF NextUnit

\* the stash, whatever the unit is
LEMMA StashSame ==
    ASSUME PayloadTypes, NEW unit, NextUnit(unit), NEW x, NEW type, StashOf(x, type),
           ~(unit.len > 0 /\ unit.type = type)
    PROVE  StashOf(x, type)'
<1>1. /\ done \in Nat /\ done' = done + 1 /\ given' = given /\ unit = given[done + 1]
  BY UnitFacts
<1>2. ~Live(done + 1, type)
  BY <1>1 DEF Live
<1>3. ASSUME NEW i \in 1 .. done + 1
      PROVE  Latest(i, done + 1, type)' <=> i \in 1 .. done /\ Latest(i, done + 1, type)
  <2>1. CASE i = done + 1
    BY <1>1, <1>2, <2>1 DEF Latest, Live
  <2>2. CASE i \in 1 .. done
    <3>1. Latest(i, done + 1, type)' <=>
              Live(i, type) /\ \A m \in i + 1 .. done + 1 : ~Live(m, type)
      BY <1>1 DEF Latest, Live
    <3>2. i + 1 .. done + 1 = (i + 1 .. done) \cup {done + 1}
      BY <1>1, <2>2
    <3>3. Latest(i, done + 1, type) <=> Live(i, type) /\ \A m \in i + 1 .. done : ~Live(m, type)
      BY <1>1 DEF Latest
    <3> QED
      BY <1>2, <2>2, <3>1, <3>2, <3>3
  <2> QED
    BY <1>1, <2>1, <2>2
<1>4. \A m : Live(m, "picture")' <=> Live(m, "picture")
  BY <1>1 DEF Live
<1>5. ASSUME x # None
      PROVE  x.nr \in 1 .. done + 1 /\ x = given'[x.nr] /\ Latest(x.nr, done + 1, type)'
  <2> PICK i : i = x.nr
    OBVIOUS
  <2>1. i \in 1 .. done /\ x = given[i] /\ Latest(i, done + 1, type)
    BY <1>5 DEF StashOf
  <2>2. i \in 1 .. done + 1 /\ Latest(i, done + 1, type)'
    BY <1>1, <1>3, <2>1
  <2> QED
    BY <1>1, <2>1, <2>2
<1>6. ASSUME NEW i \in 1 .. done + 1, Latest(i, done + 1, type)',
             \A m \in i + 1 .. done + 1 : ~Live(m, "picture")
      PROVE  x = given[i]
  <2>1. i \in 1 .. done /\ Latest(i, done + 1, type)
    BY <1>3, <1>6
  <2>2. \A m \in i + 1 .. done : ~Live(m, "picture")
    BY <1>1, <1>6
  <2> QED
    BY <2>1, <2>2 DEF StashOf
<1> QED
  BY <1>1, <1>4, <1>5, <1>6 DEF StashOf

LEMMA StashNew ==
    ASSUME PayloadTypes, NEW unit, NextUnit(unit), NEW type,
           unit.len > 0, unit.type = type
    PROVE  StashOf(unit, type)'
<1>1. /\ done \in Nat /\ done' = done + 1 /\ given' = given /\ unit = given[done + 1]
      /\ unit.nr = done + 1
  BY UnitFacts
<1>2. Live(done + 1, type)
  BY <1>1 DEF Live
<1>3. Latest(unit.nr, done + 1, type)'
  <2>1. \A m \in done + 2 .. done + 1 : FALSE
    BY <1>1
  <2> QED
    BY <1>1, <1>2, <2>1 DEF Latest, Live
<1>4. ASSUME NEW i \in 1 .. done + 1, Latest(i, done + 1, type)'
      PROVE  i = done + 1
  <2> SUFFICES ASSUME i \in 1 .. done PROVE FALSE
    BY <1>1
  <2>1. done + 1 \in i + 1 .. (done + 1 + 1) - 1
    BY <1>1
  <2> QED
    BY <1>1, <1>2, <1>4, <2>1 DEF Latest, Live
<1> QED
  BY <1>1, <1>3, <1>4 DEF StashOf

LEMMA StashGone ==
    ASSUME PayloadTypes, NEW unit, NextUnit(unit), NEW type, type # "picture",
           unit.len > 0, unit.type = "picture"
    PROVE  StashOf(None, type)'
<1>1. /\ done \in Nat /\ done' = done + 1 /\ given' = given /\ unit = given[done + 1]
  BY UnitFacts
<1>2. Live(done + 1, "picture") /\ ~Live(done + 1, type)
  BY <1>1 DEF Live
<1>3. ASSUME NEW i \in 1 .. done + 1, Latest(i, done + 1, type)',
             \A m \in i + 1 .. done + 1 : ~Live(m, "picture")
      PROVE  FALSE
  <2>1. CASE i = done + 1
    BY <1>1, <1>2, <1>3, <2>1 DEF Latest, Live
  <2>2. CASE i \in 1 .. done
    <3>1. done + 1 \in i + 1 .. done + 1
      BY <1>1, <2>2
    <3> QED
      BY <1>2, <1>3, <3>1
  <2> QED
    BY <1>1, <2>1, <2>2
<1>4. \A m : Live(m, "picture")' <=> Live(m, "picture")
  BY <1>1 DEF Live
<1> QED
  BY <1>1, <1>3, <1>4 DEF StashOf

LEMMA BodyFacts ==
    ASSUME NEW u \in Numbered
    PROVE  /\ Body(u) \in Seq(PacketSet) /\ Len(Body(u)) \in Nat \ {0}
           /\ \A m \in 1 .. Len(Body(u)) :
                 /\ DOMAIN Body(u)[m].pieces = 1 .. 1 /\ Body(u)[m].pieces[1].unit = u
                 /\ Body(u)[m].kind # "stap-a"
                 /\ Completes(Body(u)[m]) <=> m = Len(Body(u))
                 /\ Body(u)[m].kind = "single" \/ Body(u)[m].start => m = 1
<1>1. CASE u.len <= MTU
  <2>1. Body(u) = <<Single(u)>>
    BY <1>1 DEF Body
  <2>2. /\ Single(u) \in PacketSet /\ Single(u).kind = "single"
        /\ DOMAIN Single(u).pieces = 1 .. 1 /\ Single(u).pieces[1].unit = u
    BY SingleFacts
  <2>3. Completes(Single(u))
    BY <2>2 DEF Completes
  <2>4. /\ Len(Body(u)) = 1 /\ Body(u)[1] = Single(u) /\ Body(u) \in Seq(PacketSet)
        /\ 1 .. 1 = {1}
    BY <2>1, <2>2
  <2> QED
    BY <2>2, <2>3, <2>4
<1>2. CASE u.len > MTU
  <2>1. Body(u) = Fragments(u)
    BY <1>2, RoomNat DEF Body, Numbered
  <2>2. ASSUME NEW m \in 1 .. Count(u)
        PROVE  /\ DOMAIN Fragments(u)[m].pieces = 1 .. 1 /\ Fragments(u)[m].pieces[1].unit = u
               /\ Fragments(u)[m].kind # "stap-a"
               /\ Completes(Fragments(u)[m]) <=> m = Count(u)
               /\ Fragments(u)[m].kind = "single" \/ Fragments(u)[m].start => m = 1
    <3>1. /\ Fragments(u)[m].kind = "fu-a"
          /\ Fragments(u)[m].start <=> m = 1
          /\ Fragments(u)[m].end <=> m = Count(u)
          /\ Fragments(u)[m].pieces = <<Piece(u, 2 + (m - 1) * Room, LastByte(u, m))>>
      BY <1>2, FragmentFacts
    <3>2. DOMAIN Fragments(u)[m].pieces = 1 .. 1 /\ Fragments(u)[m].pieces[1].unit = u
      BY <3>1 DEF Piece
    <3>3. Completes(Fragments(u)[m]) <=> m = Count(u)
      BY <3>1, Zenon DEF Completes
    <3> QED
      BY <3>1, <3>2, <3>3
  <2>3. /\ Len(Fragments(u)) = Count(u) /\ Fragments(u) \in Seq(PacketSet)
        /\ Count(u) \in Nat \ {0}
    BY <1>2, FragmentFacts
  <2> QED
    BY <2>1, <2>2, <2>3
<1> QED
  BY <1>1, <1>2, RoomNat DEF Numbered

\* what is stashed
LEMMA StashFacts ==
    ASSUME PayloadTypes, Stash
    PROVE  /\ sps # None => /\ sps \in Numbered /\ sps.nr \in 1 .. done /\ sps = given[sps.nr]
                            /\ sps.type = "sps" /\ Live(sps.nr, "sps")
           /\ pps # None => /\ pps \in Numbered /\ pps.nr \in 1 .. done /\ pps = given[pps.nr]
                            /\ pps.type = "pps" /\ Live(pps.nr, "pps")
<1>1. 1 .. done \subseteq 1 .. Len(given)
  BY DEF PayloadTypes
<1>2. ASSUME NEW x, NEW type, x # None, StashOf(x, type)
      PROVE  x \in Numbered /\ x.nr \in 1 .. done /\ x = given[x.nr] /\ x.type = type /\ Live(x.nr, type)
  <2>1. x.nr \in 1 .. done /\ x = given[x.nr] /\ Live(x.nr, type)
    BY <1>2 DEF StashOf, Latest
  <2>2. given[x.nr] \in Numbered
    BY <1>1, <2>1, GivenUnit
  <2> QED
    BY <2>1, <2>2 DEF Live
<1> QED
  BY <1>2 DEF Stash

LEMMA SetsFacts ==
    ASSUME PayloadTypes, Stash
    PROVE  /\ Sets \in Seq(PacketSet) /\ Len(Sets) \in 0 .. 1
           /\ Len(Sets) = 1 => /\ Both /\ Sets[1] = StapA(sps, pps) /\ StapA(sps, pps).size <= MTU
           /\ Both /\ StapA(sps, pps).size <= MTU => Len(Sets) = 1
<1>1. CASE Both /\ StapA(sps, pps).size <= MTU
  <2>1. Sets = <<StapA(sps, pps)>>
    BY <1>1 DEF Sets
  <2>2. StapA(sps, pps) \in PacketSet
    BY <1>1, StashFacts, StapAFacts DEF Both
  <2>3. Sets \in Seq(PacketSet) /\ Len(Sets) = 1 /\ Sets[1] = StapA(sps, pps)
    BY <2>1, <2>2
  <2> QED
    BY <1>1, <2>3
<1>2. CASE ~(Both /\ StapA(sps, pps).size <= MTU)
  <2>1. Sets = <<>>
    BY <1>2 DEF Sets
  <2>2. Sets \in Seq(PacketSet) /\ Len(Sets) = 0
    BY <2>1
  <2> QED
    BY <1>2, <2>2
<1> QED
  BY <1>1, <1>2

\* where the packets of a picture go
LEMMA SendForm ==
    ASSUME PayloadTypes, Stash, NEW unit \in Numbered, SendPicture(unit)
    PROVE  /\ payloads' \in Seq(PacketSet) /\ Len(payloads) \in Nat
           /\ Len(payloads') = Len(payloads) + Len(Sets) + Len(Body(unit))
           /\ \A n \in 1 .. Len(payloads) : payloads'[n] = payloads[n]
           /\ \A n \in 1 .. Len(Sets) : payloads'[Len(payloads) + n] = Sets[n]
           /\ \A m \in 1 .. Len(Body(unit)) :
                  payloads'[Len(payloads) + Len(Sets) + m] = Body(unit)[m]
<1> DEFINE S == Sets
           B == Body(unit)
           P == payloads
<1>1. P \in Seq(PacketSet) /\ S \in Seq(PacketSet) /\ B \in Seq(PacketSet)
  BY SetsFacts, BodyFacts DEF PayloadTypes
<1>2. payloads' = (P \o S) \o B
  BY DEF SendPicture
<1> HIDE DEF S, B, P
<1> DEFINE Q == P \o S
<1>3. /\ Q \in Seq(PacketSet) /\ Len(Q) = Len(P) + Len(S) /\ Len(P) \in Nat /\ Len(S) \in Nat
      /\ \A n \in 1 .. Len(P) : Q[n] = P[n]
      /\ \A n \in 1 .. Len(S) : Q[Len(P) + n] = S[n]
  BY <1>1
<1> HIDE DEF Q
<1>4. /\ Q \o B \in Seq(PacketSet) /\ Len(Q \o B) = Len(Q) + Len(B) /\ Len(B) \in Nat
      /\ \A n \in 1 .. Len(Q) : (Q \o B)[n] = Q[n]
      /\ \A n \in 1 .. Len(B) : (Q \o B)[Len(Q) + n] = B[n]
  <2>1. Q \o B \in Seq(PacketSet) /\ Len(Q \o B) = Len(Q) + Len(B)
    BY <1>1, <1>3, ConcatProperties
  <2>2. Len(B) \in Nat /\ Len(Q) \in Nat
    BY <1>1, <1>3
  <2>3. \A n \in 1 .. Len(Q) + Len(B) :
            (Q \o B)[n] = IF n <= Len(Q) THEN Q[n] ELSE B[n - Len(Q)]
    BY <1>1, <1>3, ConcatProperties
  <2>4. ASSUME NEW n \in 1 .. Len(B) PROVE (Q \o B)[Len(Q) + n] = B[n]
    <3>1. /\ Len(Q) + n \in 1 .. Len(Q) + Len(B) /\ ~(Len(Q) + n <= Len(Q))
          /\ (Len(Q) + n) - Len(Q) = n
      BY <2>2
    <3> QED
      BY <2>3, <3>1
  <2> QED
    BY <2>1, <2>2, <2>3, <2>4
<1>5. payloads' = Q \o B
  BY <1>2 DEF Q
<1>6. \A n \in 1 .. Len(P) : n \in 1 .. Len(Q) /\ payloads'[n] = P[n]
  BY <1>3, <1>4, <1>5
<1>7. \A n \in 1 .. Len(S) : Len(P) + n \in 1 .. Len(Q) /\ payloads'[Len(P) + n] = S[n]
  <2> TAKE n \in 1 .. Len(S)
  <2>1. Len(P) + n \in 1 .. Len(Q)
    BY <1>3
  <2> QED
    BY <1>3, <1>4, <1>5, <2>1
<1> QED
  BY <1>3, <1>4, <1>5, <1>6, <1>7 DEF P, S, B

\* Each packet is an old one, the sets, or one of the picture's.
LEMMA SendWhere ==
    ASSUME PayloadTypes, Stash, NEW unit \in Numbered, SendPicture(unit), NEW n \in DOMAIN payloads'
    PROVE  \/ n \in 1 .. Len(payloads) /\ payloads'[n] = payloads[n]
           \/ /\ n = Len(payloads) + 1 /\ Len(Sets) = 1 /\ payloads'[n] = StapA(sps, pps)
              /\ Both /\ StapA(sps, pps).size <= MTU
           \/ \E m \in 1 .. Len(Body(unit)) :
                  n = Len(payloads) + Len(Sets) + m /\ payloads'[n] = Body(unit)[m]
<1> DEFINE c == Len(payloads)
           s == Len(Sets)
           b == Len(Body(unit))
<1>1. c \in Nat /\ s \in 0 .. 1 /\ b \in Nat /\ n \in 1 .. c + s + b
  BY SendForm, SetsFacts, BodyFacts
<1>2. CASE n \in 1 .. c
  BY <1>2, SendForm
<1>3. CASE n = c + 1 /\ s = 1
  <2>1. payloads'[c + 1] = Sets[1]
    BY <1>3, SendForm
  <2> QED
    BY <1>3, <2>1, SetsFacts
<1>4. CASE n > c + s
  <2> DEFINE m == n - (c + s)
  <2>1. m \in 1 .. b /\ n = c + s + m
    BY <1>1, <1>4
  <2> HIDE DEF m
  <2>2. payloads'[n] = Body(unit)[m]
    BY <2>1, SendForm
  <2> QED
    BY <2>1, <2>2
<1>5. n \in 1 .. c \/ (n = c + 1 /\ s = 1) \/ n > c + s
  <2> HIDE DEF c, s, b
  <2> QED
    BY <1>1
<1> QED
  BY <1>2, <1>3, <1>4, <1>5

LEMMA SendGrows ==
    ASSUME PayloadTypes, Stash, NEW unit \in Numbered, SendPicture(unit)
    PROVE  PayloadTypes' /\ Grows /\ IsPicture(unit.nr)'
<1>1. /\ done' = done + 1 /\ given' = given /\ done + 1 \in 1 .. Len(given) /\ done \in Nat
      /\ unit = given[done + 1] /\ unit.nr = done + 1
  BY UnitFacts DEF SendPicture
<1>2. /\ payloads' \in Seq(PacketSet) /\ Len(payloads) \in Nat
      /\ Len(payloads') = Len(payloads) + Len(Sets) + Len(Body(unit))
      /\ \A n \in 1 .. Len(payloads) : payloads'[n] = payloads[n]
  BY SendForm
<1>3. Len(Sets) \in Nat /\ Len(Body(unit)) \in Nat
  BY SetsFacts, BodyFacts
<1>4. PayloadTypes'
  BY <1>1, <1>2 DEF PayloadTypes
<1>5. DOMAIN payloads = 1 .. Len(payloads) /\ DOMAIN payloads' = 1 .. Len(payloads')
  BY <1>2 DEF PayloadTypes
<1>6. \A n \in DOMAIN payloads : n \in DOMAIN payloads' /\ payloads'[n] = payloads[n]
  BY <1>2, <1>3, <1>5
<1>7. Grows
  BY <1>1, <1>6 DEF Grows
<1>8. IsPicture(unit.nr)'
  BY <1>1 DEF IsPicture, Live, SendPicture
<1> QED
  BY <1>4, <1>7, <1>8

\* a unit that is not sent
LEMMA QuietKeeps ==
    ASSUME PayloadInv, NEW unit, NextUnit(unit), payloads' = payloads,
           ~(unit.len > 0 /\ unit.type = "picture"), Stash', Younger'
    PROVE  PayloadInv' /\ Grows
<1> USE DEF PayloadInv
<1>1. /\ done' = done + 1 /\ given' = given /\ done + 1 \in 1 .. Len(given) /\ done \in Nat
      /\ unit = given[done + 1]
  BY UnitFacts
<1>2. PayloadTypes' /\ Grows
  BY <1>1 DEF PayloadTypes, Grows
<1>3. AllMade'
  BY <1>2, MadeKept DEF AllMade
<1>4. Bodies'
  <2> SUFFICES ASSUME NEW n \in DOMAIN payloads, payloads[n].kind = "fu-a"
               PROVE  \E b \in 0 .. n - 1, k \in 1 .. done' :
                          BodyAt(b, k)' /\ n - b \in DOMAIN Fragments(given'[k])
    BY DEF Bodies
  <2> PICK b \in 0 .. n - 1, k \in 1 .. done : BodyAt(b, k) /\ n - b \in DOMAIN Fragments(given[k])
    BY DEF Bodies
  <2> QED
    BY <1>2, BodyKept
<1>5. Sorted'
  BY DEF Sorted
<1>6. ASSUME NEW k \in 1 .. done', IsPicture(k)'
      PROVE  k \in 1 .. done /\ IsPicture(k)
  <2>1. k # done + 1
    BY <1>1, <1>6 DEF IsPicture, Live
  <2>2. k \in 1 .. done
    BY <1>1, <2>1
  <2> QED
    BY <1>1, <1>6, <2>2 DEF IsPicture, Live
<1>7. Sent'
  BY <1>1, <1>6 DEF Sent, Completes
<1>8. Led'
  <2> SUFFICES ASSUME NEW n \in DOMAIN payloads, NEW k \in 1 .. done',
                      payloads[n].kind = "single" \/ payloads[n].start,
                      payloads[n].pieces[1].unit.nr = k,
                      NEW i \in 1 .. k - 1, NEW j \in 1 .. k - 1, Pair(i, j, k)'
               PROVE  n > 1 /\ payloads[n - 1] = StapA(given[i], given[j])
    BY <1>1 DEF Led
  <2>1. k \in 1 .. done
    <3>1. Made(payloads[n]) /\ payloads[n].kind # "stap-a"
      BY MadeFacts DEF AllMade
    <3> QED
      BY <3>1, MadeFacts
  <2>2. Pair(i, j, k)
    BY <1>1, <1>2, <2>1, PairKept
  <2> QED
    BY <2>1, <2>2 DEF Led
<1> QED
  BY <1>2, <1>3, <1>4, <1>5, <1>7, <1>8

\* all units sent have come before
LEMMA PiecesOld ==
    ASSUME PayloadTypes, AllMade, NEW n \in DOMAIN payloads, NEW x \in DOMAIN payloads[n].pieces
    PROVE  /\ payloads[n].pieces[x].unit \in Numbered
           /\ payloads[n].pieces[x].unit.nr \in 1 .. done
  BY MadeFacts DEF AllMade

LEMMA SkipKeeps ==
    ASSUME PayloadInv, NEW unit, SkipUnit(unit)
    PROVE  PayloadInv' /\ Grows
<1> USE DEF PayloadInv
<1>1. NextUnit(unit) /\ payloads' = payloads /\ sps' = sps /\ pps' = pps
  BY DEF SkipUnit
<1>2. unit.len \in Nat /\ \A t \in {"sps", "pps", "picture"} : ~(unit.len > 0 /\ unit.type = t)
  BY <1>1, UnitFacts DEF SkipUnit, Numbered
<1>3. Stash'
  <2> PICK x, y : x = sps /\ y = pps
    OBVIOUS
  <2>1. StashOf(x, "sps") /\ StashOf(y, "pps")
    BY DEF Stash
  <2>2. StashOf(x, "sps")' /\ StashOf(y, "pps")'
    BY <1>1, <1>2, <2>1, StashSame
  <2> QED
    BY <1>1, <2>2 DEF Stash, StashOf
<1>4. Younger'
  BY <1>1 DEF Younger
<1> QED
  BY <1>1, <1>2, <1>3, <1>4, QuietKeeps

LEMMA StashSpsKeeps ==
    ASSUME PayloadInv, NEW unit, StashSps(unit)
    PROVE  PayloadInv' /\ Grows
<1> USE DEF PayloadInv
<1>1. NextUnit(unit) /\ payloads' = payloads /\ sps' = unit /\ pps' = pps
      /\ unit.type = "sps" /\ unit.len > 0
  BY DEF StashSps
<1>2. Stash'
  <2> PICK y : y = pps
    OBVIOUS
  <2>1. StashOf(unit, "sps")'
    BY <1>1, StashNew
  <2>2. StashOf(y, "pps")
    BY DEF Stash
  <2>3. StashOf(y, "pps")'
    BY <1>1, <2>2, StashSame
  <2> QED
    BY <1>1, <2>1, <2>3 DEF Stash, StashOf
<1>3. Younger'
  <2>1. unit.nr = done + 1 /\ done \in Nat
    BY <1>1, UnitFacts
  <2>2. \A n \in DOMAIN payloads : \A x \in DOMAIN payloads[n].pieces :
            payloads[n].pieces[x].unit.nr < unit.nr
    BY <2>1, PiecesOld
  <2> QED
    BY <1>1, <2>2 DEF Younger
<1> QED
  BY <1>1, <1>2, <1>3, QuietKeeps

LEMMA StashPpsKeeps ==
    ASSUME PayloadInv, NEW unit, StashPps(unit)
    PROVE  PayloadInv' /\ Grows
<1> USE DEF PayloadInv
<1>1. NextUnit(unit) /\ payloads' = payloads /\ pps' = unit /\ sps' = sps
      /\ unit.type = "pps" /\ unit.len > 0
  BY DEF StashPps
<1>2. Stash'
  <2> PICK y : y = sps
    OBVIOUS
  <2>1. StashOf(unit, "pps")'
    BY <1>1, StashNew
  <2>2. StashOf(y, "sps")
    BY DEF Stash
  <2>3. StashOf(y, "sps")'
    BY <1>1, <2>2, StashSame
  <2> QED
    BY <1>1, <2>1, <2>3 DEF Stash, StashOf
<1>3. Younger'
  <2>1. unit.nr = done + 1 /\ done \in Nat
    BY <1>1, UnitFacts
  <2>2. \A n \in DOMAIN payloads : \A x \in DOMAIN payloads[n].pieces :
            payloads[n].pieces[x].unit.nr < unit.nr
    BY <2>1, PiecesOld
  <2> QED
    BY <1>1, <2>2 DEF Younger
<1> QED
  BY <1>1, <1>2, <1>3, QuietKeeps

\* a picture
LEMMA SendKeeps ==
    ASSUME PayloadInv, NEW unit, SendPicture(unit)
    PROVE  PayloadInv' /\ Grows
<1> USE DEF PayloadInv
<1> DEFINE c == Len(payloads)
           s == Len(Sets)
           b == Len(Body(unit))
<1>1. /\ NextUnit(unit) /\ unit \in Numbered /\ unit.nr = done + 1 /\ unit = given[done + 1]
      /\ done' = done + 1 /\ given' = given /\ done + 1 \in 1 .. Len(given) /\ done \in Nat
      /\ unit.len > 0 /\ unit.type = "picture"
  BY UnitFacts DEF SendPicture
<1>2. PayloadTypes' /\ Grows /\ IsPicture(unit.nr)'
  BY <1>1, SendGrows
<1>3. /\ c \in Nat /\ s \in 0 .. 1 /\ b \in Nat \ {0} /\ Len(payloads') = c + s + b
      /\ DOMAIN payloads' = 1 .. c + s + b /\ DOMAIN payloads = 1 .. c
  BY <1>1, SendForm, SetsFacts, BodyFacts DEF PayloadTypes
<1>4. ASSUME NEW n \in DOMAIN payloads'
      PROVE  \/ n \in 1 .. c /\ payloads'[n] = payloads[n]
             \/ /\ n = c + 1 /\ s = 1 /\ payloads'[n] = StapA(sps, pps)
                /\ Both /\ StapA(sps, pps).size <= MTU
             \/ \E m \in 1 .. b : n = c + s + m /\ payloads'[n] = Body(unit)[m]
  BY <1>1, SendWhere
<1>5. \A m \in 1 .. b : payloads'[c + s + m] = Body(unit)[m]
  BY <1>1, SendForm
<1>6. Both => /\ sps \in Numbered /\ sps.nr \in 1 .. done /\ sps = given[sps.nr]
              /\ sps.type = "sps" /\ Live(sps.nr, "sps")
              /\ pps \in Numbered /\ pps.nr \in 1 .. done /\ pps = given[pps.nr]
              /\ pps.type = "pps" /\ Live(pps.nr, "pps")
  BY StashFacts DEF Both
<1>7. \A m \in 1 .. b :
         /\ DOMAIN Body(unit)[m].pieces = 1 .. 1 /\ Body(unit)[m].pieces[1].unit = unit
         /\ Body(unit)[m].kind # "stap-a"
         /\ Completes(Body(unit)[m]) <=> m = b
         /\ Body(unit)[m].kind = "single" \/ Body(unit)[m].start => m = 1
  BY <1>1, BodyFacts
<1>8. Both => /\ StapA(sps, pps).kind = "stap-a" /\ DOMAIN StapA(sps, pps).pieces = 1 .. 2
              /\ StapA(sps, pps).pieces[1].unit = sps /\ StapA(sps, pps).pieces[2].unit = pps
              /\ ~StapA(sps, pps).start
  BY <1>6, StapAFacts
<1> HIDE DEF c, s, b
<1>9. Stash'
  <2>1. CASE Both
    <3>1. sps' = None /\ pps' = None
      BY <2>1 DEF SendPicture
    <3>2. StashOf(None, "sps")' /\ StashOf(None, "pps")'
      BY <1>1, StashGone
    <3> QED
      BY <3>1, <3>2 DEF Stash, StashOf
  <2>2. CASE ~Both
    <3>1. sps' = sps /\ pps' = pps
      BY <2>2 DEF SendPicture
    <3> PICK x, y : x = sps /\ y = pps
      OBVIOUS
    <3>2. StashOf(x, "sps") /\ StashOf(y, "pps")
      BY DEF Stash
    <3>3. StashOf(x, "sps")' /\ StashOf(y, "pps")'
      BY <1>1, <3>2, StashSame
    <3> QED
      BY <3>1, <3>3 DEF Stash, StashOf
  <2> QED
    BY <2>1, <2>2
<1>10. AllMade'
  <2> SUFFICES ASSUME NEW n \in DOMAIN payloads', NEW p, p = payloads'[n]
               PROVE  Made(p)'
    BY DEF AllMade, Made
  <2>1. CASE n \in 1 .. c /\ payloads'[n] = payloads[n]
    <3>1. Made(p)
      BY <1>3, <2>1 DEF AllMade
    <3> QED
      BY <1>2, <3>1, MadeKept
  <2>2. CASE Both /\ StapA(sps, pps).size <= MTU /\ payloads'[n] = StapA(sps, pps)
    <3> PICK i, j : i = sps.nr /\ j = pps.nr
      OBVIOUS
    <3>1. /\ i \in 1 .. done' /\ j \in 1 .. done' /\ Live(i, "sps")' /\ Live(j, "pps")'
          /\ p = StapA(given'[i], given'[j]) /\ p.size <= MTU
      BY <1>1, <1>6, <2>2 DEF Live
    <3> QED
      BY <3>1 DEF Made
  <2>3. CASE \E m \in 1 .. b : n = c + s + m /\ payloads'[n] = Body(unit)[m]
    <3> PICK m \in 1 .. b : payloads'[n] = Body(unit)[m]
      BY <2>3
    <3>1. given'[unit.nr] = unit /\ unit.nr \in 1 .. done'
      BY <1>1
    <3>2. CASE unit.len <= MTU
      <4>1. Body(unit) = <<Single(unit)>>
        BY <3>2 DEF Body
      <4>2. b = 1
        BY <4>1 DEF b
      <4>3. p = Single(unit)
        BY <4>1, <4>2
      <4> QED
        BY <1>2, <3>1, <3>2, <4>3 DEF Made
    <3>3. CASE ~(unit.len <= MTU)
      <4>1. Body(unit) = Fragments(unit) /\ unit.len > MTU
        BY <1>1, <3>3, RoomNat DEF Body, Numbered
      <4>2. m \in DOMAIN Fragments(unit)
        BY <1>1, <4>1, FragmentFacts DEF b
      <4> QED
        BY <1>2, <3>1, <4>1, <4>2 DEF Made
    <3> QED
      BY <3>2, <3>3
  <2> QED
    BY <1>4, <2>1, <2>2, <2>3
<1>11. Bodies'
  <2> SUFFICES ASSUME NEW n \in DOMAIN payloads', payloads'[n].kind = "fu-a"
               PROVE  \E d \in 0 .. n - 1, k \in 1 .. done' :
                          BodyAt(d, k)' /\ n - d \in DOMAIN Fragments(given'[k])
    BY DEF Bodies
  <2>1. CASE n \in 1 .. c /\ payloads'[n] = payloads[n]
    <3> PICK d \in 0 .. n - 1, k \in 1 .. done : BodyAt(d, k) /\ n - d \in DOMAIN Fragments(given[k])
      BY <1>3, <2>1 DEF Bodies
    <3> QED
      BY <1>2, BodyKept
  <2>2. CASE \E m \in 1 .. b : n = c + s + m /\ payloads'[n] = Body(unit)[m]
    <3> PICK m \in 1 .. b : n = c + s + m /\ payloads'[n] = Body(unit)[m]
      BY <2>2
    <3>1. unit.len > MTU /\ Body(unit) = Fragments(unit)
      <4>1. CASE unit.len <= MTU
        <5>1. Body(unit) = <<Single(unit)>>
          BY <4>1 DEF Body
        <5>2. b = 1
          BY <5>1 DEF b
        <5>3. payloads'[n] = Single(unit)
          BY <5>1, <5>2
        <5> QED
          BY <1>1, <5>3, SingleFacts
      <4>2. CASE ~(unit.len <= MTU)
        BY <1>1, <4>2, RoomNat DEF Body, Numbered
      <4> QED
        BY <4>1, <4>2
    <3>2. DOMAIN Fragments(unit) = 1 .. b
      BY <1>1, <3>1, FragmentFacts DEF b
    <3> PICK d : d = c + s
      OBVIOUS
    <3>3. given'[unit.nr] = unit /\ unit.nr \in 1 .. done'
      BY <1>1
    <3>4. \A l \in 1 .. b : d + l \in DOMAIN payloads' /\ payloads'[d + l] = Fragments(unit)[l]
      <4> TAKE l \in 1 .. b
      <4>1. payloads'[c + s + l] = Body(unit)[l] /\ c + s + l \in DOMAIN payloads'
        BY <1>3, <1>5
      <4> QED
        BY <3>1, <4>1
    <3>5. BodyAt(d, unit.nr)'
      BY <1>2, <3>1, <3>2, <3>3, <3>4 DEF BodyAt
    <3>6. d \in 0 .. n - 1 /\ n - d \in 1 .. b
      <4> HIDE DEF c, s, b
      <4>1. c \in Nat /\ s \in Nat /\ b \in Nat
        BY <1>3
      <4> QED
        BY <4>1
    <3> QED
      BY <3>2, <3>3, <3>5, <3>6
  <2> QED
    BY <1>4, <1>6, <1>8, <2>1, <2>2
<1>12. ASSUME NEW n \in 1 .. c, NEW x \in DOMAIN payloads[n].pieces
      PROVE  /\ payloads[n].pieces[x].unit \in Numbered
             /\ payloads[n].pieces[x].unit.nr \in 1 .. done
  BY <1>3, PiecesOld
<1>13. Sorted'
  <2> SUFFICES ASSUME NEW n \in DOMAIN payloads', NEW o \in DOMAIN payloads', n < o,
                      Completes(payloads'[n]),
                      NEW x \in DOMAIN payloads'[n].pieces, NEW y \in DOMAIN payloads'[o].pieces,
                      payloads'[n].pieces[x].unit.type = payloads'[o].pieces[y].unit.type
               PROVE  payloads'[n].pieces[x].unit.nr < payloads'[o].pieces[y].unit.nr
    BY DEF Sorted, Completes
  <2> DEFINE p == payloads'[n]
             q == payloads'[o]
  <2>1. CASE o \in 1 .. c /\ q = payloads[o]
    <3>1. n \in 1 .. c /\ p = payloads[n]
      BY <1>3, <1>4, <2>1
    <3> QED
      BY <1>3, <2>1, <3>1 DEF Sorted
  <2>2. CASE o = c + 1 /\ q = StapA(sps, pps) /\ s = 1 /\ Both
    <3>1. n \in 1 .. c /\ p = payloads[n]
      BY <1>3, <1>4, <2>2
    <3>2. q.pieces[y].unit \in {sps, pps}
      BY <1>8, <2>2
    <3> QED
      BY <1>3, <3>1, <3>2 DEF Younger
  <2>3. CASE \E m \in 1 .. b : o = c + s + m /\ q = Body(unit)[m]
    <3> PICK m \in 1 .. b : o = c + s + m /\ q = Body(unit)[m]
      BY <2>3
    <3>1. q.pieces[y].unit = unit
      BY <1>7
    <3>2. CASE n \in 1 .. c /\ p = payloads[n]
      BY <1>1, <1>12, <3>1, <3>2
    <3>3. CASE p = StapA(sps, pps) /\ Both
      <4>1. p.pieces[x].unit \in {sps, pps}
        BY <1>8, <3>3
      <4> QED
        BY <1>1, <1>6, <3>1, <3>3, <4>1
    <3>4. CASE \E l \in 1 .. b : n = c + s + l /\ p = Body(unit)[l]
      <4> PICK l \in 1 .. b : n = c + s + l /\ p = Body(unit)[l]
        BY <3>4
      <4>1. l = b
        BY <1>7
      <4> QED
        BY <1>3, <4>1
    <3> QED
      BY <1>4, <3>2, <3>3, <3>4
  <2> QED
    BY <1>4, <2>1, <2>2, <2>3
<1>14. Younger'
  <2>1. CASE Both
    <3>1. sps' = None /\ pps' = None
      BY <2>1 DEF SendPicture
    <3> SUFFICES ASSUME NEW n \in DOMAIN payloads', NEW x \in DOMAIN payloads'[n].pieces
                 PROVE  payloads'[n].pieces[x].unit.type # None.type
      BY <3>1 DEF Younger
    <3>2. payloads'[n] \in PacketSet
      BY <1>2 DEF PayloadTypes
    <3>3. payloads'[n].pieces \in Seq(PieceSet)
      BY <3>2 DEF PacketSet
    <3>4. payloads'[n].pieces[x].unit \in Numbered
      <4> PICK ps : ps = payloads'[n].pieces
        OBVIOUS
      <4>1. ps \in Seq(PieceSet) /\ x \in DOMAIN ps
        BY <3>3
      <4>2. ps[x] \in PieceSet
        BY <4>1
      <4> QED
        BY <4>2 DEF PieceSet
    <3> QED
      BY <3>4 DEF Numbered, None, UnitTypes
  <2>2. CASE ~Both
    <3>1. sps' = sps /\ pps' = pps
      BY <2>2 DEF SendPicture
    <3> SUFFICES ASSUME NEW n \in DOMAIN payloads', NEW x \in DOMAIN payloads'[n].pieces,
                        NEW z \in {sps, pps}, payloads'[n].pieces[x].unit.type = z.type
                 PROVE  payloads'[n].pieces[x].unit.nr < z.nr
      BY <3>1 DEF Younger
    <3>2. CASE n \in 1 .. c /\ payloads'[n] = payloads[n]
      BY <1>3, <3>2 DEF Younger
    <3>3. CASE \E m \in 1 .. b : n = c + s + m /\ payloads'[n] = Body(unit)[m]
      <4>1. payloads'[n].pieces[x].unit = unit
        BY <1>7, <3>3
      <4>2. z.type # "picture"
        BY StashFacts DEF None
      <4> QED
        BY <1>1, <4>1, <4>2
    <3> QED
      BY <1>4, <2>2, <3>2, <3>3
  <2> QED
    BY <2>1, <2>2
<1>15. Sent'
  <2> SUFFICES ASSUME NEW k \in 1 .. done', IsPicture(k)'
               PROVE  \E n \in DOMAIN payloads' : /\ Completes(payloads'[n])
                                                  /\ payloads'[n].pieces[1].unit = given[k]
    BY <1>1 DEF Sent, Completes
  <2>1. CASE k = done + 1
    <3>1. c + s + b \in DOMAIN payloads' /\ payloads'[c + s + b] = Body(unit)[b]
      BY <1>3, <1>5
    <3> QED
      BY <1>1, <1>3, <1>7, <2>1, <3>1
  <2>2. CASE k \in 1 .. done
    <3>1. IsPicture(k)
      BY <1>1, <2>2 DEF IsPicture, Live
    <3> PICK n \in DOMAIN payloads : Completes(payloads[n]) /\ payloads[n].pieces[1].unit = given[k]
      BY <2>2, <3>1 DEF Sent
    <3> QED
      BY <1>2 DEF Grows
  <2> QED
    BY <1>1, <2>1, <2>2
<1>16. Led'
  <2> SUFFICES ASSUME NEW n \in DOMAIN payloads', NEW k \in 1 .. done',
                      payloads'[n].kind = "single" \/ payloads'[n].start,
                      payloads'[n].pieces[1].unit.nr = k,
                      NEW i \in 1 .. k - 1, NEW j \in 1 .. k - 1, Pair(i, j, k)'
               PROVE  n > 1 /\ payloads'[n - 1] = StapA(given[i], given[j])
    BY <1>1 DEF Led
  <2>1. k \in 1 .. Len(given) + 1 /\ Len(given) \in Nat
    BY <1>1 DEF PayloadTypes
  <2>2. Pair(i, j, k)
    BY <1>2, <2>1, PairKept
  <2>3. CASE n \in 1 .. c /\ payloads'[n] = payloads[n]
    <3>1. k \in 1 .. done
      <4>1. Made(payloads[n]) /\ payloads[n].kind # "stap-a"
        BY <1>3, <2>3, MadeFacts DEF AllMade
      <4> QED
        BY <2>3, <4>1, MadeFacts
    <3>2. n > 1 /\ payloads[n - 1] = StapA(given[i], given[j])
      BY <1>3, <2>2, <2>3, <3>1 DEF Led
    <3>3. n - 1 \in DOMAIN payloads
      BY <1>3, <2>3, <3>2
    <3> QED
      BY <1>2, <3>2, <3>3 DEF Grows
  <2>4. CASE \E m \in 1 .. b : n = c + s + m /\ payloads'[n] = Body(unit)[m]
    <3> PICK m \in 1 .. b : n = c + s + m /\ payloads'[n] = Body(unit)[m]
      BY <2>4
    <3>1. m = 1 /\ k = done + 1
      BY <1>1, <1>7
    <3>2. /\ Latest(i, done + 1, "sps") /\ Latest(j, done + 1, "pps")
          /\ StapA(given[i], given[j]).size <= MTU
          /\ \A l \in 1 .. done : Live(l, "picture") => l < i /\ l < j
      BY <1>1, <2>2, <3>1 DEF Pair
    <3>3. i \in 1 .. done /\ j \in 1 .. done
      BY <1>1, <3>1
    <3>4. sps = given[i]
      <4>1. \A l \in i + 1 .. done : ~Live(l, "picture")
        BY <1>1, <3>2, <3>3
      <4> QED
        BY <3>2, <3>3, <4>1 DEF Stash, StashOf
    <3>5. pps = given[j]
      <4>1. \A l \in j + 1 .. done : ~Live(l, "picture")
        BY <1>1, <3>2, <3>3
      <4> QED
        BY <3>2, <3>3, <4>1 DEF Stash, StashOf
    <3>6. Both
      <4>1. given[i].nr = i /\ given[j].nr = j
        BY <1>1, <3>3, GivenUnit
      <4> QED
        BY <3>3, <3>4, <3>5, <4>1 DEF Both, None
    <3>7. s = 1 /\ Sets[1] = StapA(sps, pps)
      BY <3>2, <3>4, <3>5, <3>6, SetsFacts DEF s
    <3>8. payloads'[c + 1] = Sets[1]
      BY <1>1, <3>7, SendForm DEF c, s
    <3>9. n = c + 2 /\ n - 1 = c + 1
      BY <1>3, <3>1, <3>7
    <3> QED
      BY <1>3, <3>4, <3>5, <3>7, <3>8, <3>9
  <2> QED
    BY <1>4, <1>8, <2>3, <2>4
<1> QED
  BY <1>2, <1>9, <1>10, <1>11, <1>13, <1>14, <1>15, <1>16

LEMMA PayloadStep ==
    ASSUME PayloadInv, [PayloadNext]_pvars
    PROVE  PayloadInv' /\ Grows
<1>1. CASE \E s \in Samples : Packetize(s)
  BY <1>1, PacketizeKeeps
<1>2. CASE Payload
  BY <1>2, SkipKeeps, StashSpsKeeps, StashPpsKeeps, SendKeeps DEF Payload
<1>3. CASE UNCHANGED <<sps, pps, given, done, payloads>>
  <2>1. Grows
    BY <1>3 DEF Grows, PayloadInv, PayloadTypes
  <2>2. PayloadTypes'
    BY <1>3 DEF PayloadInv, PayloadTypes
  <2>3. Stash'
    BY <1>3 DEF PayloadInv, Stash, StashOf, Latest, Live
  <2>4. AllMade'
    BY <1>3 DEF PayloadInv, AllMade, Made, IsPicture, Live
  <2>5. Bodies' /\ Sent'
    BY <1>3 DEF PayloadInv, Bodies, BodyAt, Sent, IsPicture, Live, Completes
  <2>6. Sorted' /\ Younger'
    BY <1>3 DEF PayloadInv, Sorted, Younger, Completes
  <2>7. Led'
    BY <1>3 DEF PayloadInv, Led, Pair, Latest, Live
  <2> QED
    BY <2>1, <2>2, <2>3, <2>4, <2>5, <2>6, <2>7 DEF PayloadInv
<1>4. CASE ReadPacket
  BY <1>3, <1>4 DEF ReadPacket
<1>5. CASE UNCHANGED pvars
  BY <1>3, <1>5 DEF pvars
<1> QED
  BY <1>1, <1>2, <1>4, <1>5 DEF PayloadNext

-----------------------------------------------------------------------------
(* The invariant of the receiver.                                          *)

LEMMA OpenedFacts ==
    ASSUME PayloadInv, ReceiverInv
    PROVE  /\ Len(open) \in Nat /\ taken - Len(open) \in 0 .. taken /\ taken \in Nat
           /\ open # <<>> => \E b \in 0 .. taken - 1, k \in 1 .. done :
                /\ BodyAt(b, k) /\ Len(open) = taken - b /\ Len(open) \in 1 .. Count(given[k]) - 1
                /\ given[k] \in Numbered /\ given[k].len > MTU
                /\ open = [m \in 1 .. Len(open) |-> Fragments(given[k])[m].pieces[1]]
<1>1. taken \in Nat /\ 1 .. done \subseteq 1 .. Len(given)
  BY DEF PayloadInv, PayloadTypes, ReceiverInv
<1>2. CASE open = <<>>
  BY <1>1, <1>2
<1>3. CASE \E b \in 0 .. taken - 1, k \in 1 .. done :
           /\ BodyAt(b, k) /\ taken - b \in 1 .. Len(Fragments(given[k])) - 1
           /\ open = [m \in 1 .. taken - b |-> Fragments(given[k])[m].pieces[1]]
  <2> PICK b \in 0 .. taken - 1, k \in 1 .. done :
           /\ BodyAt(b, k) /\ taken - b \in 1 .. Len(Fragments(given[k])) - 1
           /\ open = [m \in 1 .. taken - b |-> Fragments(given[k])[m].pieces[1]]
    BY <1>3
  <2>1. given[k] \in Numbered /\ given[k].len > MTU
    BY <1>1, GivenUnit DEF BodyAt, PayloadInv
  <2>2. Len(open) = taken - b
    BY <1>1
  <2>3. Len(open) \in 1 .. Count(given[k]) - 1
    BY <2>1, <2>2, FragmentFacts
  <2>4. Len(open) \in Nat /\ taken - Len(open) \in 0 .. taken
    BY <1>1, <2>2
  <2> QED
    BY <1>1, <2>1, <2>2, <2>3, <2>4
<1> QED
  BY <1>2, <1>3 DEF ReceiverInv, Opened

\* A packet that is no fragment comes when nothing is open.
LEMMA NothingOpen ==
    ASSUME PayloadInv, ReceiverInv, taken + 1 \in DOMAIN payloads, payloads[taken + 1].kind # "fu-a"
    PROVE  open = <<>>
<1> SUFFICES ASSUME open # <<>> PROVE FALSE
  OBVIOUS
<1> PICK b \in 0 .. taken - 1, k \in 1 .. done :
        /\ BodyAt(b, k) /\ Len(open) = taken - b /\ Len(open) \in 1 .. Count(given[k]) - 1
        /\ given[k] \in Numbered /\ given[k].len > MTU
  BY OpenedFacts
<1>1. Count(given[k]) \in Nat /\ taken \in Nat
  BY FragmentFacts, OpenedFacts
<1>2. taken + 1 - b \in 1 .. Count(given[k])
  BY <1>1
<1>3. taken + 1 - b \in DOMAIN Fragments(given[k]) /\ Fragments(given[k])[taken + 1 - b].kind = "fu-a"
  BY <1>2, FragmentFacts
<1>4. b + (taken + 1 - b) = taken + 1
  BY <1>1
<1> QED
  BY <1>3, <1>4 DEF BodyAt

\* A fragment goes on where the open unit ends.
LEMMA FragmentComes ==
    ASSUME PayloadInv, ReceiverInv, taken + 1 \in DOMAIN payloads, payloads[taken + 1].kind = "fu-a"
    PROVE  \E b \in 0 .. taken, k \in 1 .. done :
             /\ BodyAt(b, k) /\ given[k] \in Numbered /\ given[k].len > MTU
             /\ taken + 1 - b \in 1 .. Count(given[k])
             /\ payloads[taken + 1] = Fragments(given[k])[taken + 1 - b]
             /\ b # taken => /\ Len(open) = taken - b
                             /\ open = [m \in 1 .. taken - b |-> Fragments(given[k])[m].pieces[1]]
<1>1. taken \in Nat /\ 1 .. done \subseteq 1 .. Len(given)
  BY DEF PayloadInv, PayloadTypes, ReceiverInv
<1>2. \E b \in 0 .. (taken + 1) - 1, k \in 1 .. done :
        BodyAt(b, k) /\ (taken + 1) - b \in DOMAIN Fragments(given[k])
  BY DEF PayloadInv, Bodies
<1>b. PICK b \in 0 .. taken, k \in 1 .. done :
        BodyAt(b, k) /\ (taken + 1) - b \in DOMAIN Fragments(given[k])
  BY <1>1, <1>2
<1>m. PICK m : m = (taken + 1) - b
  OBVIOUS
<1> DEFINE u == given[k]
<1>3. u \in Numbered /\ u.len > MTU /\ PayloadTypes
  BY <1>1, <1>b, GivenUnit DEF BodyAt, PayloadInv
<1>4. m \in 1 .. Count(u) /\ Count(u) \in Nat /\ DOMAIN Fragments(u) = 1 .. Count(u)
  <2>1. Count(u) \in Nat /\ DOMAIN Fragments(u) = 1 .. Count(u)
    BY <1>3, FragmentFacts
  <2> QED
    BY <1>b, <1>m, <2>1
<1>5. /\ b + m = taken + 1 /\ b + (m - 1) = taken /\ m - 1 = taken - b
      /\ b # taken => m - 1 \in 1 .. Count(u) /\ m - 1 # Count(u) /\ taken # 0
  BY <1>1, <1>4, <1>m
<1>6. \A l \in 1 .. Count(u) : payloads[b + l] = Fragments(u)[l]
  BY <1>4, <1>b DEF BodyAt
<1>7. payloads[taken + 1] = Fragments(u)[m]
  BY <1>4, <1>5, <1>6
<1> HIDE DEF u
<1>8. ASSUME b # taken
      PROVE  Len(open) = taken - b /\ open = [l \in 1 .. taken - b |-> Fragments(u)[l].pieces[1]]
  <2>1. payloads[taken] = Fragments(u)[m - 1]
    BY <1>5, <1>6, <1>8
  <2>2. ~Completes(payloads[taken])
    <3>1. Fragments(u)[m - 1].kind = "fu-a" /\ ~Fragments(u)[m - 1].end
      BY <1>3, <1>5, <1>8, FragmentFacts
    <3> QED
      BY <2>1, <3>1 DEF Completes
  <2>3. open # <<>>
    <3>1. \E d \in 0 .. taken - 1, j \in 1 .. done :
             /\ BodyAt(d, j) /\ taken - d \in 1 .. Len(Fragments(given[j])) - 1
             /\ open = [l \in 1 .. taken - d |-> Fragments(given[j])[l].pieces[1]]
      BY <1>5, <1>8, <2>2 DEF ReceiverInv, Opened
    <3> PICK d \in 0 .. taken - 1, j \in 1 .. done :
             /\ BodyAt(d, j) /\ taken - d \in 1 .. Len(Fragments(given[j])) - 1
             /\ open = [l \in 1 .. taken - d |-> Fragments(given[j])[l].pieces[1]]
      BY <3>1
    <3>2. DOMAIN open = 1 .. taken - d
      OBVIOUS
    <3>3. 1 \in DOMAIN open
      BY <1>1, <3>2
    <3> QED
      BY <3>3
  <2>d. PICK d \in 0 .. taken - 1, j \in 1 .. done :
        /\ BodyAt(d, j) /\ Len(open) = taken - d /\ Len(open) \in 1 .. Count(given[j]) - 1
        /\ given[j] \in Numbered /\ given[j].len > MTU
        /\ open = [l \in 1 .. Len(open) |-> Fragments(given[j])[l].pieces[1]]
    BY <2>3, OpenedFacts
  <2>n. PICK n, v : n = Len(open) /\ v = given[j]
    OBVIOUS
  <2>4. Count(v) \in Nat /\ DOMAIN Fragments(v) = 1 .. Count(v) /\ v \in Numbered /\ v.len > MTU
    BY <2>d, <2>n, FragmentFacts
  <2>5. n \in 1 .. Count(v) /\ d + n = taken /\ n = taken - d
    <3>1. n = taken - d /\ n \in 1 .. Count(v) - 1
      BY <2>d, <2>n
    <3>2. d \in Int /\ taken \in Int
      BY <1>1, <2>d
    <3>3. n \in 1 .. Count(v)
      BY <2>4, <3>1
    <3> QED
      BY <3>1, <3>2, <3>3
  <2>6. payloads[taken] = Fragments(v)[n]
    <3>1. payloads[d + n] = Fragments(v)[n]
      BY <2>4, <2>5, <2>d, <2>n DEF BodyAt
    <3> QED
      BY <2>5, <3>1
  <2>7. Fragments(u)[m - 1] = Fragments(v)[n] /\ m - 1 \in 1 .. Count(u)
    BY <1>5, <1>8, <2>1, <2>6
  <2>8. u = v /\ m - 1 = n
    <3>1. u \in Numbered /\ u.len > MTU /\ v \in Numbered /\ v.len > MTU
      BY <1>3, <2>4
    <3>2. m - 1 \in 1 .. Count(u) /\ n \in 1 .. Count(v)
      BY <2>5, <2>7
    <3> QED
      BY <2>7, <3>1, <3>2, FragmentTells
  <2> QED
    BY <1>5, <2>8, <2>d, <2>n
<1>9. BodyAt(b, k) /\ given[k] \in Numbered /\ given[k].len > MTU
  BY <1>3, <1>b DEF u
<1>10. /\ taken + 1 - b \in 1 .. Count(given[k])
       /\ payloads[taken + 1] = Fragments(given[k])[taken + 1 - b]
  <2>1. taken + 1 - b = m
    BY <1>1, <1>m
  <2> QED
    BY <1>4, <1>7, <2>1 DEF u
<1>11. b # taken => /\ Len(open) = taken - b
                    /\ open = [l \in 1 .. taken - b |-> Fragments(given[k])[l].pieces[1]]
  BY <1>8 DEF u
<1> QED
  BY <1>9, <1>10, <1>11

\* the pieces there are after a fragment
LEMMA PiecesJoin ==
    ASSUME NEW u \in Numbered, u.len > MTU, NEW m \in 1 .. Count(u), NEW opened,
           m > 1 => opened = [l \in 1 .. m - 1 |-> Fragments(u)[l].pieces[1]]
    PROVE  (IF Fragments(u)[m].start THEN Fragments(u)[m].pieces ELSE opened \o Fragments(u)[m].pieces)
               = [l \in 1 .. m |-> Fragments(u)[l].pieces[1]]
<1> DEFINE g(l) == Fragments(u)[l].pieces[1]
<1>1. Count(u) \in Nat /\ (Fragments(u)[m].start <=> m = 1) /\ Fragments(u)[m].pieces = <<g(m)>>
  BY FragmentFacts
<1> HIDE DEF g
<1>2. CASE m = 1
  <2>1. [l \in 1 .. m |-> g(l)] = <<g(m)>>
    BY <1>2
  <2> QED
    BY <1>1, <1>2, <2>1 DEF g
<1>3. CASE m > 1
  <2> DEFINE a == [l \in 1 .. m - 1 |-> g(l)]
  <2>1. opened = a
    BY <1>3 DEF g
  <2>2. a \o <<g(m)>> = [l \in 1 .. m |-> g(l)]
    <3>1. m - 1 \in Nat
      BY <1>1
    <3> QED
      BY <1>1, <1>3, <3>1
  <2> HIDE DEF a
  <2>3. ~Fragments(u)[m].start
    BY <1>1, <1>3
  <2>4. (IF Fragments(u)[m].start THEN Fragments(u)[m].pieces ELSE opened \o Fragments(u)[m].pieces)
            = a \o <<g(m)>>
    BY <1>1, <2>1, <2>3
  <2> QED
    BY <2>2, <2>4 DEF g
<1> QED
  BY <1>1, <1>2, <1>3

\* a step of the payloader
LEMMA ReceiverKept ==
    ASSUME PayloadInv, PayloadInv', Grows, ReceiverInv,
           taken' = taken, open' = open, received' = received
    PROVE  ReceiverInv'
<1>1. /\ taken \in 0 .. Len(payloads) /\ received \in Seq(Numbered)
      /\ payloads \in Seq(PacketSet) /\ payloads' \in Seq(PacketSet)
      /\ done \in Nat /\ done' \in Nat /\ done <= done' /\ 1 .. done \subseteq 1 .. Len(given)
      /\ DOMAIN payloads = 1 .. Len(payloads) /\ DOMAIN payloads' = 1 .. Len(payloads')
      /\ Len(payloads) \in Nat /\ Len(payloads') \in Nat
  BY DEF ReceiverInv, PayloadInv, PayloadTypes, Grows
<1>2. \A n \in 1 .. taken : n \in DOMAIN payloads /\ payloads'[n] = payloads[n] /\ n \in DOMAIN payloads'
  <2> TAKE n \in 1 .. taken
  <2>1. n \in DOMAIN payloads
    BY <1>1
  <2> QED
    BY <2>1 DEF Grows
<1>3. taken' \in 0 .. Len(payloads')
  <2>1. CASE taken = 0
    BY <1>1, <2>1
  <2>2. CASE taken # 0
    BY <1>1, <1>2, <2>2
  <2> QED
    BY <2>1, <2>2
<1>4. Opened'
  <2>1. CASE open = <<>> /\ (taken = 0 \/ Completes(payloads[taken]))
    <3>1. taken # 0 => payloads'[taken] = payloads[taken]
      BY <1>1, <1>2
    <3> QED
      BY <2>1, <3>1 DEF Opened, Completes
  <2>2. CASE \E b \in 0 .. taken - 1, k \in 1 .. done :
           /\ BodyAt(b, k) /\ taken - b \in 1 .. Len(Fragments(given[k])) - 1
           /\ open = [m \in 1 .. taken - b |-> Fragments(given[k])[m].pieces[1]]
    <3> PICK b \in 0 .. taken - 1, k \in 1 .. done :
           /\ BodyAt(b, k) /\ taken - b \in 1 .. Len(Fragments(given[k])) - 1
           /\ open = [m \in 1 .. taken - b |-> Fragments(given[k])[m].pieces[1]]
      BY <2>2
    <3>1. BodyAt(b, k)' /\ k \in 1 .. done' /\ given'[k] = given[k]
      BY BodyKept DEF PayloadInv
    <3> QED
      BY <3>1 DEF Opened
  <2> QED
    BY <2>1, <2>2 DEF ReceiverInv, Opened
<1>5. Taken'
  BY <1>2 DEF ReceiverInv, Taken, Completes
<1>6. Arrived'
  BY <1>2 DEF ReceiverInv, Arrived, Completes
<1>7. InTurn'
  BY DEF ReceiverInv, InTurn
<1>8. Before'
  <2> SUFFICES ASSUME NEW b \in DOMAIN payloads', b = taken - Len(open), payloads'[b].kind = "stap-a"
               PROVE  /\ Len(received) >= 2
                      /\ received[Len(received) - 1] = payloads'[b].pieces[1].unit
                      /\ received[Len(received)] = payloads'[b].pieces[2].unit
    BY DEF Before
  <2>1. b \in 1 .. taken
    <3>1. b \in 0 .. taken /\ taken \in Nat
      BY OpenedFacts
    <3>2. b # 0
      BY <1>1
    <3> QED
      BY <3>1, <3>2
  <2>2. b \in DOMAIN payloads /\ payloads'[b] = payloads[b]
    BY <1>2, <2>1
  <2> QED
    BY <2>2 DEF ReceiverInv, Before
<1>9. PairsFirst'
  <2> SUFFICES ASSUME NEW at \in DOMAIN received, NEW k \in 1 .. done',
                      received[at].type = "picture", received[at].nr = k,
                      NEW i \in 1 .. k - 1, NEW j \in 1 .. k - 1, Pair(i, j, k)'
               PROVE  at > 2 /\ received[at - 2] = given'[i] /\ received[at - 1] = given'[j]
    BY DEF PairsFirst
  <2>1. k \in 1 .. done
    <3> PICK n \in 1 .. taken : \E x \in DOMAIN payloads[n].pieces :
                                    received[at] = payloads[n].pieces[x].unit
      BY DEF ReceiverInv, Taken
    <3>1. n \in DOMAIN payloads
      BY <1>2
    <3> QED
      BY <3>1, PiecesOld DEF PayloadInv
  <2>2. k \in 1 .. Len(given) + 1 /\ i \in 1 .. Len(given) /\ j \in 1 .. Len(given)
    <3>1. Len(given) \in Nat /\ k \in 1 .. Len(given)
      BY <1>1, <2>1 DEF PayloadInv, PayloadTypes
    <3> QED
      BY <3>1
  <2>3. Pair(i, j, k) /\ given'[i] = given[i] /\ given'[j] = given[j]
    BY <2>2, PairKept DEF Grows, PayloadInv
  <2> QED
    BY <2>1, <2>3 DEF ReceiverInv, PairsFirst
<1> QED
  BY <1>1, <1>3, <1>4, <1>5, <1>6, <1>7, <1>8, <1>9 DEF ReceiverInv

LEMMA TwoBack ==
    ASSUME NEW r \in Nat, NEW at \in 1 .. r, at > 2
    PROVE  at - 2 \in 1 .. r /\ at - 1 \in 1 .. r
  OBVIOUS

\* A packet that completes its units hands them over.
LEMMA Completing ==
    ASSUME PayloadInv, ReceiverInv, taken + 1 \in DOMAIN payloads,
           UNCHANGED <<sps, pps, given, done, payloads>>,
           NEW p, p = payloads[taken + 1], Completes(p),
           NEW f \in DOMAIN payloads, f = taken - Len(open) + 1,
           p.kind # "stap-a" => /\ payloads[f].kind = "single" \/ payloads[f].start
                                /\ payloads[f].pieces[1].unit = p.pieces[1].unit,
           taken' = taken + 1, open' = <<>>,
           received' = received \o [x \in DOMAIN p.pieces |-> p.pieces[x].unit]
    PROVE  ReceiverInv'
<1> DEFINE us == [x \in DOMAIN p.pieces |-> p.pieces[x].unit]
           r == Len(received)
           t == taken + 1
<1>1. /\ taken \in Nat /\ t \in 1 .. Len(payloads) /\ t \in DOMAIN payloads
      /\ received \in Seq(Numbered) /\ r \in Nat /\ DOMAIN received = 1 .. r
  BY DEF ReceiverInv, PayloadInv, PayloadTypes
<1>2. Made(p) /\ PayloadTypes
  BY DEF PayloadInv, AllMade
<1>3. /\ p.kind = "stap-a" =>
            /\ DOMAIN p.pieces = 1 .. 2
            /\ p.pieces[1].unit.type = "sps" /\ p.pieces[2].unit.type = "pps"
      /\ p.kind # "stap-a" => DOMAIN p.pieces = 1 .. 1 /\ IsPicture(p.pieces[1].unit.nr)
      /\ \A x \in DOMAIN p.pieces :
            /\ p.pieces[x].unit \in Numbered /\ p.pieces[x].unit.nr \in 1 .. done
            /\ p.pieces[x].unit = given[p.pieces[x].unit.nr]
  BY <1>2, MadeFacts
<1>4. PICK l \in 1 .. 2 : DOMAIN p.pieces = 1 .. l /\ (l = 2 <=> p.kind = "stap-a")
  <2>1. CASE p.kind = "stap-a"
    BY <1>3, <2>1
  <2>2. CASE p.kind # "stap-a"
    BY <1>3, <2>2
  <2> QED
    BY <2>1, <2>2
<1>5. /\ received' \in Seq(Numbered) /\ Len(received') = r + l /\ DOMAIN received' = 1 .. r + l
      /\ \A i \in 1 .. r : received'[i] = received[i]
      /\ \A x \in 1 .. l : received'[r + x] = p.pieces[x].unit
  <2>1. us \in Seq(Numbered) /\ Len(us) = l /\ \A x \in 1 .. l : us[x] = p.pieces[x].unit
    BY <1>3, <1>4
  <2>2. received' = received \o us
    OBVIOUS
  <2> HIDE DEF us
  <2>3. /\ received' \in Seq(Numbered) /\ Len(received') = r + l
        /\ \A i \in 1 .. r + l : received'[i] = IF i <= r THEN received[i] ELSE us[i - r]
    BY <1>1, <2>1, <2>2, ConcatProperties
  <2>4. DOMAIN received' = 1 .. r + l
    BY <2>3
  <2>5. ASSUME NEW i \in 1 .. r PROVE received'[i] = received[i]
    <3>1. i \in 1 .. r + l /\ i <= r
      BY <1>1
    <3> QED
      BY <2>3, <3>1
  <2>6. ASSUME NEW x \in 1 .. l PROVE received'[r + x] = p.pieces[x].unit
    <3>1. r + x \in 1 .. r + l /\ ~(r + x <= r) /\ (r + x) - r = x
      BY <1>1
    <3> QED
      BY <2>1, <2>3, <3>1
  <2> QED
    BY <2>3, <2>4, <2>5, <2>6
<1> HIDE DEF us, r, t
<1>6. ASSUME NEW i \in DOMAIN received'
      PROVE  \/ i \in 1 .. r /\ received'[i] = received[i]
             \/ \E x \in 1 .. l : i = r + x /\ received'[i] = p.pieces[x].unit
  <2>0. i \in 1 .. r + l /\ i \in Int /\ r \in Nat /\ l \in Nat
    BY <1>1, <1>5
  <2>1. CASE i <= r
    BY <1>1, <1>5, <2>0, <2>1
  <2>2. CASE i > r
    <3>1. i - r \in 1 .. l /\ i = r + (i - r)
      BY <2>0, <2>2
    <3> QED
      BY <1>5, <3>1
  <2>3. i <= r \/ i > r
    BY <2>0
  <2> QED
    BY <2>1, <2>2, <2>3
<1>7. taken' \in 0 .. Len(payloads')
  BY <1>1 DEF t
<1>8. Opened'
  BY DEF Opened, Completes
<1>9. Taken'
  <2> SUFFICES ASSUME NEW i \in DOMAIN received'
               PROVE  \E n \in 1 .. t : /\ Completes(payloads[n])
                                        /\ \E x \in DOMAIN payloads[n].pieces :
                                               received'[i] = payloads[n].pieces[x].unit
    BY DEF Taken, Completes, t
  <2>1. CASE i \in 1 .. r /\ received'[i] = received[i]
    <3> PICK n \in 1 .. taken : /\ Completes(payloads[n])
                                /\ \E x \in DOMAIN payloads[n].pieces :
                                       received[i] = payloads[n].pieces[x].unit
      BY <1>1, <2>1 DEF ReceiverInv, Taken
    <3>1. n \in 1 .. t
      BY <1>1 DEF t
    <3> QED
      BY <2>1, <3>1
  <2>2. CASE \E x \in 1 .. l : i = r + x /\ received'[i] = p.pieces[x].unit
    <3>1. t \in 1 .. t /\ payloads[t] = p
      BY <1>1 DEF t
    <3> QED
      BY <1>4, <2>2, <3>1
  <2> QED
    BY <1>6, <2>1, <2>2
<1>10. Arrived'
  <2> SUFFICES ASSUME NEW n \in 1 .. t, Completes(payloads[n]), NEW x \in DOMAIN payloads[n].pieces
               PROVE  \E i \in DOMAIN received' : received'[i] = payloads[n].pieces[x].unit
    BY DEF Arrived, Completes, t
  <2>1. CASE n = t
    <3>1. x \in 1 .. l /\ received'[r + x] = payloads[n].pieces[x].unit
      BY <1>4, <1>5, <2>1 DEF t
    <3>2. r + x \in DOMAIN received'
      BY <1>1, <1>5, <3>1
    <3> QED
      BY <3>1, <3>2
  <2>2. CASE n # t
    <3>1. n \in 1 .. taken
      BY <1>1, <2>2 DEF t
    <3> PICK i \in DOMAIN received : received[i] = payloads[n].pieces[x].unit
      BY <3>1 DEF ReceiverInv, Arrived
    <3>2. i \in DOMAIN received' /\ received'[i] = received[i]
      BY <1>1, <1>5
    <3> QED
      BY <3>2
  <2> QED
    BY <2>1, <2>2
<1>11. InTurn'
  <2> SUFFICES ASSUME NEW i \in DOMAIN received', NEW j \in DOMAIN received', i < j,
                      received'[i].type = received'[j].type
               PROVE  received'[i].nr < received'[j].nr
    BY ZenonT(30) DEF InTurn
  <2>1. CASE j \in 1 .. r /\ received'[j] = received[j]
    <3>1. i \in 1 .. r /\ received'[i] = received[i]
      BY <1>1, <1>5, <2>1
    <3> QED
      BY <1>1, <2>1, <3>1 DEF ReceiverInv, InTurn
  <2>2. CASE \E x \in 1 .. l : j = r + x /\ received'[j] = p.pieces[x].unit
    <3> PICK x \in 1 .. l : j = r + x /\ received'[j] = p.pieces[x].unit
      BY <2>2
    <3>1. CASE i \in 1 .. r /\ received'[i] = received[i]
      <4>n. PICK n \in 1 .. taken : /\ Completes(payloads[n])
                                    /\ \E z \in DOMAIN payloads[n].pieces :
                                           received[i] = payloads[n].pieces[z].unit
        BY <1>1, <3>1 DEF ReceiverInv, Taken
      <4>z. PICK z \in DOMAIN payloads[n].pieces : received[i] = payloads[n].pieces[z].unit
        BY <4>n
      <4>1. n \in DOMAIN payloads /\ n < t /\ payloads[t] = p
        BY <1>1 DEF t, PayloadInv, PayloadTypes
      <4>2. x \in DOMAIN payloads[t].pieces
        BY <1>4, <4>1
      <4>3. Sorted
        BY DEF PayloadInv
      <4>4. payloads[n].pieces[z].unit.type = payloads[t].pieces[x].unit.type
        BY <3>1, <4>z, <4>1
      <4>5. payloads[n].pieces[z].unit.nr < payloads[t].pieces[x].unit.nr
        BY <1>1, <4>n, <4>1, <4>2, <4>3, <4>4 DEF Sorted
      <4> QED
        BY <3>1, <4>z, <4>1, <4>5
    <3>2. CASE \E y \in 1 .. l : i = r + y /\ received'[i] = p.pieces[y].unit
      <4> PICK y \in 1 .. l : i = r + y /\ received'[i] = p.pieces[y].unit
        BY <3>2
      <4>1. y = 1 /\ x = 2 /\ l = 2
        BY <1>1
      <4> QED
        BY <1>3, <1>4, <4>1
    <3> QED
      BY <1>6, <3>1, <3>2
  <2> QED
    BY <1>6, <2>1, <2>2
<1>12. Before'
  <2> SUFFICES ASSUME p.kind = "stap-a"
               PROVE  /\ Len(received') >= 2
                      /\ received'[Len(received') - 1] = p.pieces[1].unit
                      /\ received'[Len(received')] = p.pieces[2].unit
    <3>1. taken' - Len(open') = t /\ payloads'[t] = p
      BY <1>1 DEF t
    <3> QED
      BY <3>1 DEF Before
  <2>1. l = 2
    BY <1>4
  <2>2. Len(received') = r + 2
    BY <1>5, <2>1
  <2>3. received'[r + 1] = p.pieces[1].unit /\ received'[r + 2] = p.pieces[2].unit
    <3>1. 1 \in 1 .. l /\ 2 \in 1 .. l
      BY <2>1
    <3>2. \A x \in 1 .. l : received'[r + x] = p.pieces[x].unit
      BY <1>5
    <3> QED
      BY <3>1, <3>2
  <2>4. r + 2 >= 2 /\ (r + 2) - 1 = r + 1
    BY <1>1
  <2> QED
    BY <2>2, <2>3, <2>4
<1>13. PairsFirst'
  <2> SUFFICES ASSUME NEW at \in DOMAIN received', NEW k \in 1 .. done,
                      received'[at].type = "picture", received'[at].nr = k,
                      NEW i \in 1 .. k - 1, NEW j \in 1 .. k - 1, Pair(i, j, k)'
               PROVE  at > 2 /\ received'[at - 2] = given'[i] /\ received'[at - 1] = given'[j]
    <3>1. 1 .. done' = 1 .. done
      OBVIOUS
    <3> QED
      BY <3>1, Zenon DEF PairsFirst
  <2>0. Pair(i, j, k) /\ given' = given
    BY DEF Pair, Latest, Live
  <2>1. CASE at \in 1 .. r /\ received'[at] = received[at]
    <3>1. at > 2 /\ received[at - 2] = given[i] /\ received[at - 1] = given[j]
      <4>1. PairsFirst /\ at \in DOMAIN received
        BY <1>1, <2>1 DEF ReceiverInv
      <4>2. received[at].type = "picture" /\ received[at].nr = k
        BY <2>1
      <4> QED
        BY <2>0, <4>1, <4>2 DEF PairsFirst
    <3>2. at - 2 \in 1 .. r /\ at - 1 \in 1 .. r
      <4>1. at \in 1 .. r /\ r \in Nat /\ at > 2
        BY <1>1, <2>1, <3>1
      <4> QED
        BY <4>1, TwoBack
    <3> QED
      BY <1>5, <2>0, <3>1, <3>2
  <2>2. CASE \E x \in 1 .. l : at = r + x /\ received'[at] = p.pieces[x].unit
    <3> PICK x \in 1 .. l : at = r + x /\ received'[at] = p.pieces[x].unit
      BY <2>2
    <3>1. p.kind # "stap-a"
      <4> SUFFICES ASSUME p.kind = "stap-a" PROVE FALSE
        OBVIOUS
      <4>1. x = 1 \/ x = 2
        OBVIOUS
      <4> QED
        BY <1>3, <4>1
    <3>2. l = 1 /\ x = 1 /\ at = r + 1 /\ p.pieces[1].unit.nr = k
      <4>1. l = 1
        BY <1>4, <3>1
      <4>2. x = 1
        BY <4>1
      <4> QED
        BY <4>1, <4>2
    <3>3. f > 1 /\ payloads[f - 1] = StapA(given[i], given[j])
      BY <2>0, <3>1, <3>2 DEF PayloadInv, Led
    <3>4. given[i] \in Numbered /\ given[j] \in Numbered
      <4>1. i \in 1 .. Len(given) /\ j \in 1 .. Len(given)
        BY <1>2 DEF PayloadTypes
      <4> QED
        BY <1>2, <4>1, GivenUnit
    <3>5. /\ payloads[f - 1].kind = "stap-a" /\ payloads[f - 1].pieces[1].unit = given[i]
          /\ payloads[f - 1].pieces[2].unit = given[j]
      BY <3>3, <3>4, StapAFacts
    <3>6. f - 1 \in DOMAIN payloads /\ f - 1 = taken - Len(open)
      <4>1. Len(open) \in Nat /\ taken \in Nat
        BY OpenedFacts
      <4>2. f \in 1 .. Len(payloads) /\ Len(payloads) \in Nat /\ DOMAIN payloads = 1 .. Len(payloads)
        BY <1>2 DEF PayloadTypes
      <4> QED
        BY <3>3, <4>1, <4>2
    <3>7. r >= 2 /\ received[r - 1] = given[i] /\ received[r] = given[j]
      BY <3>5, <3>6 DEF ReceiverInv, Before, r
    <3>8. at > 2 /\ at - 2 = r - 1 /\ at - 1 = r /\ r - 1 \in 1 .. r /\ r \in 1 .. r
      BY <1>1, <3>2, <3>7
    <3> QED
      BY <1>5, <2>0, <3>7, <3>8
  <2> QED
    BY <1>6, <2>1, <2>2
<1> QED
  BY <1>5, <1>7, <1>8, <1>9, <1>10, <1>11, <1>12, <1>13 DEF ReceiverInv


LEMMA FragmentUnit ==
    ASSUME NEW u \in Numbered, u.len > MTU, NEW m \in 1 .. Count(u)
    PROVE  Fragments(u)[m].pieces[1].unit = u
<1>1. Fragments(u)[m].pieces = <<Piece(u, 2 + (m - 1) * Room, LastByte(u, m))>>
  BY FragmentFacts
<1> QED
  BY <1>1 DEF Piece

LEMMA ReadWhole ==
    ASSUME PayloadInv, ReceiverInv, ReadPacket, payloads[taken + 1].kind # "fu-a"
    PROVE  ReceiverInv'
<1>p. PICK p : p = payloads[taken + 1]
  OBVIOUS
<1>1. /\ taken \in Nat /\ taken + 1 \in DOMAIN payloads
      /\ PayloadTypes /\ Made(payloads[taken + 1])
  BY DEF ReadPacket, PayloadInv, PayloadTypes, ReceiverInv, AllMade
<1>2. Completes(p) /\ p \in PacketSet
  BY <1>1, <1>p, MadeFacts DEF Completes
<1>3. open = <<>>
  BY <1>1, NothingOpen
<1>4. taken + 1 = taken - Len(open) + 1
  BY <1>1, <1>3
<1>5. p.kind # "stap-a" => payloads[taken + 1].kind = "single"
  BY <1>2, <1>p DEF PacketSet
<1>6. /\ taken' = taken + 1 /\ open' = <<>>
      /\ received' = received \o [x \in DOMAIN p.pieces |-> p.pieces[x].unit]
      /\ UNCHANGED <<sps, pps, given, done, payloads>>
  BY <1>p DEF ReadPacket, Receive
<1> QED
  BY <1>1, <1>2, <1>4, <1>5, <1>6, <1>p, Completing

\* a fragment: the pieces there are with it, the first among them
LEMMA ReadFragment ==
    ASSUME PayloadInv, ReceiverInv, ReadPacket, payloads[taken + 1].kind = "fu-a"
    PROVE  \E b \in 0 .. taken, k \in 1 .. done, m \in Nat \ {0} :
             /\ BodyAt(b, k) /\ given[k] \in Numbered /\ given[k].len > MTU
             /\ m = taken + 1 - b /\ m \in 1 .. Count(given[k])
             /\ payloads[taken + 1] = Fragments(given[k])[m]
             /\ m > 1 => Len(open) = m - 1
             /\ IF m = Count(given[k])
                THEN open' = <<>> /\ received' = Append(received, given[k])
                ELSE /\ open' = [l \in 1 .. m |-> Fragments(given[k])[l].pieces[1]]
                     /\ received' = received
<1>1. taken \in Nat /\ taken + 1 \in DOMAIN payloads
  BY DEF ReadPacket, PayloadInv, PayloadTypes, ReceiverInv
<1>b. PICK b \in 0 .. taken, k \in 1 .. done :
             /\ BodyAt(b, k) /\ given[k] \in Numbered /\ given[k].len > MTU
             /\ taken + 1 - b \in 1 .. Count(given[k])
             /\ payloads[taken + 1] = Fragments(given[k])[taken + 1 - b]
             /\ b # taken => /\ Len(open) = taken - b
                             /\ open = [l \in 1 .. taken - b |-> Fragments(given[k])[l].pieces[1]]
  BY <1>1, FragmentComes
<1>m. PICK m, u : m = taken + 1 - b /\ u = given[k]
  OBVIOUS
<1>2. /\ u \in Numbered /\ u.len > MTU /\ m \in 1 .. Count(u) /\ payloads[taken + 1] = Fragments(u)[m]
      /\ Count(u) \in Nat
  BY <1>b, <1>m, FragmentFacts
<1>3. m \in Nat \ {0} /\ (m > 1 => b # taken /\ taken - b = m - 1)
  BY <1>1, <1>2, <1>m
<1>4. m > 1 => Len(open) = m - 1 /\ open = [l \in 1 .. m - 1 |-> Fragments(u)[l].pieces[1]]
  BY <1>3, <1>b, <1>m
<1> DEFINE ps == [l \in 1 .. m |-> Fragments(u)[l].pieces[1]]
<1>5. (IF payloads[taken + 1].start THEN payloads[taken + 1].pieces
       ELSE open \o payloads[taken + 1].pieces) = ps
  <2>1. (IF Fragments(u)[m].start THEN Fragments(u)[m].pieces ELSE open \o Fragments(u)[m].pieces) = ps
    BY <1>2, <1>4, PiecesJoin
  <2> HIDE DEF ps
  <2> QED
    BY <1>2, <2>1
<1>6. payloads[taken + 1].end <=> m = Count(u)
  BY <1>2, FragmentFacts
<1>7. m = Count(u) => Whole(ps) /\ ps[1].unit = u
  <2> SUFFICES ASSUME m = Count(u) PROVE Whole(ps) /\ ps[1].unit = u
    OBVIOUS
  <2>1. Whole(ps)
    BY <1>2, FragmentsWhole
  <2>2. 1 \in 1 .. Count(u)
    BY <1>2
  <2>3. Fragments(u)[1].pieces[1].unit = u
    BY <1>2, <2>2, FragmentUnit
  <2> QED
    BY <2>1, <2>2, <2>3
<1> HIDE DEF ps
<1>8. IF m = Count(u) THEN open' = <<>> /\ received' = Append(received, u)
                      ELSE open' = ps /\ received' = received
  BY <1>5, <1>6, <1>7 DEF ReadPacket, Receive
<1> QED
  BY <1>2, <1>3, <1>4, <1>8, <1>b, <1>m DEF ps

LEMMA ReadLast ==
    ASSUME PayloadInv, ReceiverInv, ReadPacket,
           NEW b \in 0 .. taken, NEW k \in 1 .. done, BodyAt(b, k),
           given[k] \in Numbered, given[k].len > MTU,
           taken + 1 - b = Count(given[k]), Len(open) = taken - b,
           payloads[taken + 1] = Fragments(given[k])[Count(given[k])],
           open' = <<>>, received' = Append(received, given[k])
    PROVE  ReceiverInv'
<1>p. PICK p, u, f : p = payloads[taken + 1] /\ u = given[k] /\ f = b + 1
  OBVIOUS
<1>1. /\ taken \in Nat /\ taken + 1 \in DOMAIN payloads /\ PayloadTypes /\ received \in Seq(Numbered)
  BY DEF ReadPacket, PayloadInv, PayloadTypes, ReceiverInv
<1>2. /\ Count(u) \in Nat /\ Count(u) >= 2 /\ 1 \in DOMAIN Fragments(u)
      /\ Count(u) \in 1 .. Count(u) /\ 1 \in 1 .. Count(u) /\ u \in Numbered /\ u.len > MTU
  BY <1>p, FragmentFacts
<1>3. p.kind = "fu-a" /\ p.end /\ p.pieces = <<Piece(u, 2 + (Count(u) - 1) * Room, LastByte(u, Count(u)))>>
  BY <1>2, <1>p, FragmentFacts
<1>4. DOMAIN p.pieces = 1 .. 1 /\ p.pieces[1].unit = u /\ Completes(p)
  BY <1>3 DEF Piece, Completes
<1>5. [x \in DOMAIN p.pieces |-> p.pieces[x].unit] = <<u>>
  BY <1>4
<1>6. received' = received \o [x \in DOMAIN p.pieces |-> p.pieces[x].unit]
  <2>1. Append(received, u) = received \o <<u>>
    BY <1>1, <1>2, AppendIsConcat
  <2> QED
    BY <1>5, <1>p, <2>1
<1>7. f = taken - Len(open) + 1 /\ f \in DOMAIN payloads /\ payloads[f] = Fragments(u)[1]
  <2>1. f \in DOMAIN payloads /\ payloads[f] = Fragments(u)[1]
    BY <1>2, <1>p DEF BodyAt
  <2>2. taken - Len(open) = b
    BY <1>1
  <2> QED
    BY <1>p, <2>1, <2>2
<1>8. payloads[f].start /\ payloads[f].pieces[1].unit = u
  BY <1>2, <1>7, FragmentFacts, FragmentUnit
<1>9. taken' = taken + 1 /\ UNCHANGED <<sps, pps, given, done, payloads>>
  BY DEF ReadPacket
<1> QED
  BY <1>1, <1>4, <1>6, <1>7, <1>8, <1>9, <1>p, Completing

LEMMA ReadInner ==
    ASSUME PayloadInv, ReceiverInv, ReadPacket,
           NEW b \in 0 .. taken, NEW k \in 1 .. done, NEW m \in 1 .. Count(given[k]), BodyAt(b, k),
           given[k] \in Numbered, given[k].len > MTU,
           m = taken + 1 - b, m # Count(given[k]), m > 1 => Len(open) = m - 1,
           payloads[taken + 1] = Fragments(given[k])[m],
           open' = [l \in 1 .. m |-> Fragments(given[k])[l].pieces[1]], received' = received
    PROVE  ReceiverInv'
<1>1. /\ taken \in Nat /\ taken + 1 \in DOMAIN payloads /\ received \in Seq(Numbered)
      /\ taken + 1 \in 1 .. Len(payloads)
  BY DEF ReadPacket, PayloadInv, PayloadTypes, ReceiverInv
<1>2. /\ taken' = taken + 1 /\ given' = given /\ done' = done /\ payloads' = payloads
      /\ received' = received
  BY DEF ReadPacket
<1>3. Count(given[k]) \in Nat /\ Len(Fragments(given[k])) = Count(given[k]) /\ m \in Nat
  BY FragmentFacts
<1>4. ~Completes(payloads[taken + 1])
  BY <1>3, FragmentFacts DEF Completes
<1>5. Len(open') = m
  BY <1>3
<1>6. taken' \in 0 .. Len(payloads') /\ received' \in Seq(Numbered)
  BY <1>1, <1>2
<1>7. Opened'
  <2>1. b \in 0 .. taken' - 1 /\ taken' - b = m /\ m \in 1 .. Count(given[k]) - 1
    BY <1>1, <1>2, <1>3
  <2>2. BodyAt(b, k)'
    BY <1>2 DEF BodyAt, IsPicture, Live
  <2>3. k \in 1 .. done' /\ given'[k] = given[k]
    BY <1>2
  <2> QED
    BY <1>3, <2>1, <2>2, <2>3 DEF Opened
<1>8. Taken'
  <2> SUFFICES ASSUME NEW i \in DOMAIN received
               PROVE  \E n \in 1 .. taken' :
                        /\ Completes(payloads[n])
                        /\ \E x \in DOMAIN payloads[n].pieces : received[i] = payloads[n].pieces[x].unit
    BY <1>2 DEF Taken, Completes
  <2>1. \A n \in 1 .. taken : n \in 1 .. taken'
    BY <1>1, <1>2
  <2>2. \E n \in 1 .. taken :
          /\ Completes(payloads[n])
          /\ \E x \in DOMAIN payloads[n].pieces : received[i] = payloads[n].pieces[x].unit
    BY DEF ReceiverInv, Taken
  <2> QED
    BY <2>1, <2>2
<1>9. Arrived'
  <2>1. \A n \in 1 .. taken' : Completes(payloads[n]) => n \in 1 .. taken
    BY <1>1, <1>2, <1>4
  <2> QED
    BY <1>2, <2>1 DEF ReceiverInv, Arrived, Completes
<1>10. InTurn'
  BY <1>2 DEF ReceiverInv, InTurn
<1>11. Before'
  <2> SUFFICES ASSUME NEW c \in DOMAIN payloads, c = taken' - Len(open'), payloads[c].kind = "stap-a"
               PROVE  /\ Len(received) >= 2
                      /\ received[Len(received) - 1] = payloads[c].pieces[1].unit
                      /\ received[Len(received)] = payloads[c].pieces[2].unit
    BY <1>2, Zenon DEF Before
  <2>1. c = b
    BY <1>1, <1>2, <1>5
  <2>2. c = taken - Len(open)
    <3>1. CASE m > 1
      BY <1>1, <2>1, <3>1
    <3>2. CASE m = 1
      <4>1. c = taken
        BY <1>1, <2>1, <3>2
      <4>2. taken # 0
        BY <4>1, <1>1 DEF PayloadInv, PayloadTypes
      <4>3. open = <<>>
        <5> SUFFICES ASSUME open # <<>> PROVE FALSE
          OBVIOUS
        <5>d. PICK d \in 0 .. taken - 1, j \in 1 .. done :
                /\ BodyAt(d, j) /\ Len(open) = taken - d /\ Len(open) \in 1 .. Count(given[j]) - 1
                /\ given[j] \in Numbered /\ given[j].len > MTU
          BY OpenedFacts
        <5>n. PICK n, v : n = Len(open) /\ v = given[j]
          OBVIOUS
        <5>1. Count(v) \in Nat /\ DOMAIN Fragments(v) = 1 .. Count(v)
          BY <5>d, <5>n, FragmentFacts
        <5>2. n \in 1 .. Count(v) /\ d + n = taken
          <6>1. n = taken - d /\ n \in 1 .. Count(v) - 1
            BY <5>d, <5>n
          <6>2. n \in 1 .. Count(v)
            BY <5>1, <6>1
          <6>3. d + n = taken
            BY <1>1, <6>1
          <6> QED
            BY <6>2, <6>3
        <5>3. payloads[d + n] = Fragments(v)[n]
          BY <5>1, <5>2, <5>d, <5>n DEF BodyAt
        <5>4. v \in Numbered /\ v.len > MTU /\ payloads[taken] = Fragments(v)[n]
          BY <5>2, <5>3, <5>d, <5>n
        <5>5. payloads[taken].kind = "fu-a"
          BY <5>2, <5>4, FragmentFacts
        <5> QED
          BY <4>1, <5>5
      <4> QED
        BY <1>1, <4>1, <4>3
    <3> QED
      BY <1>3, <3>1, <3>2
  <2> QED
    BY <2>2 DEF ReceiverInv, Before
<1>12. PairsFirst'
  <2> SUFFICES ASSUME NEW at \in DOMAIN received', NEW n \in 1 .. done',
                      received'[at].type = "picture", received'[at].nr = n,
                      NEW i \in 1 .. n - 1, NEW j \in 1 .. n - 1, Pair(i, j, n)'
               PROVE  at > 2 /\ received'[at - 2] = given'[i] /\ received'[at - 1] = given'[j]
    BY DEF PairsFirst
  <2>1. Pair(i, j, n)
    BY <1>2 DEF Pair, Latest, Live
  <2>2. n \in 1 .. done /\ at \in DOMAIN received /\ PairsFirst
    BY <1>2 DEF ReceiverInv
  <2>3. at > 2 /\ received[at - 2] = given[i] /\ received[at - 1] = given[j]
    BY <1>2, <2>1, <2>2 DEF PairsFirst
  <2> QED
    BY <1>2, <2>3
<1> QED
  BY <1>6, <1>7, <1>8, <1>9, <1>10, <1>11, <1>12 DEF ReceiverInv

LEMMA ReadStep ==
    ASSUME PayloadInv, ReceiverInv, ReadPacket
    PROVE  ReceiverInv'
<1>1. CASE payloads[taken + 1].kind # "fu-a"
  BY <1>1, ReadWhole
<1>2. CASE payloads[taken + 1].kind = "fu-a"
  <2>b. PICK b \in 0 .. taken, k \in 1 .. done, m \in Nat \ {0} :
             /\ BodyAt(b, k) /\ given[k] \in Numbered /\ given[k].len > MTU
             /\ m = taken + 1 - b /\ m \in 1 .. Count(given[k])
             /\ payloads[taken + 1] = Fragments(given[k])[m]
             /\ m > 1 => Len(open) = m - 1
             /\ IF m = Count(given[k])
                THEN open' = <<>> /\ received' = Append(received, given[k])
                ELSE /\ open' = [l \in 1 .. m |-> Fragments(given[k])[l].pieces[1]]
                     /\ received' = received
    BY <1>2, ReadFragment
  <2>1. CASE m = Count(given[k])
    <3>1. Count(given[k]) >= 2 /\ taken \in Nat
      BY <2>b, FragmentFacts, OpenedFacts
    <3>2. m > 1 /\ m - 1 = taken - b
      BY <2>1, <2>b, <3>1
    <3> QED
      BY <2>1, <2>b, <3>2, ReadLast
  <2>2. CASE m # Count(given[k])
    BY <2>2, <2>b, ReadInner
  <2> QED
    BY <2>1, <2>2
<1> QED
  BY <1>1, <1>2

-----------------------------------------------------------------------------
(* The theorems.                                                           *)

LEMMA PayloadHolds == PayloadSpec => [](PayloadInv /\ ReceiverInv)
<1>1. PayloadInit => PayloadInv /\ ReceiverInv
  BY PayloadInitInv
<1>2. PayloadInv /\ ReceiverInv /\ [PayloadNext]_pvars => PayloadInv' /\ ReceiverInv'
  <2> SUFFICES ASSUME PayloadInv, ReceiverInv, [PayloadNext]_pvars
               PROVE  PayloadInv' /\ ReceiverInv'
    OBVIOUS
  <2>1. PayloadInv' /\ Grows
    BY PayloadStep
  <2>2. CASE ReadPacket
    BY <2>1, <2>2, ReadStep
  <2>3. CASE taken' = taken /\ open' = open /\ received' = received
    BY <2>1, <2>3, ReceiverKept
  <2>4. CASE \E s \in Samples : Packetize(s)
    BY <2>3, <2>4 DEF Packetize
  <2>5. CASE Payload
    BY <2>3, <2>5 DEF Payload, SkipUnit, StashSps, StashPps, SendPicture, NextUnit
  <2>6. CASE UNCHANGED pvars
    BY <2>3, <2>6 DEF pvars
  <2> QED
    BY <2>1, <2>2, <2>4, <2>5, <2>6 DEF PayloadNext
<1> QED
  BY <1>1, <1>2, PTL DEF PayloadSpec

LEMMA ReceivedFacts ==
    ASSUME PayloadInv, ReceiverInv
    PROVE  \A i \in DOMAIN received :
             /\ received[i] \in Numbered /\ received[i].nr \in 1 .. done
             /\ received[i].nr \in 1 .. Len(given) /\ received[i] = given[received[i].nr]
             /\ \A s \in {sps, pps} : received[i].type = s.type => received[i].nr < s.nr
<1> TAKE i \in DOMAIN received
<1>n. PICK n \in 1 .. taken : \E x \in DOMAIN payloads[n].pieces :
                                  received[i] = payloads[n].pieces[x].unit
  BY DEF ReceiverInv, Taken
<1>x. PICK x \in DOMAIN payloads[n].pieces : received[i] = payloads[n].pieces[x].unit
  BY <1>n
<1>1. n \in DOMAIN payloads /\ PayloadTypes
  BY DEF ReceiverInv, PayloadInv, PayloadTypes
<1>2. Made(payloads[n])
  BY <1>1 DEF PayloadInv, AllMade
<1>3. /\ received[i] \in Numbered /\ received[i].nr \in 1 .. done
      /\ received[i] = given[received[i].nr]
  BY <1>1, <1>2, <1>x, MadeFacts
<1>4. \A s \in {sps, pps} : received[i].type = s.type => received[i].nr < s.nr
  BY <1>1, <1>x DEF PayloadInv, Younger
<1>5. 1 .. done \subseteq 1 .. Len(given)
  BY <1>1 DEF PayloadTypes
<1> QED
  BY <1>3, <1>4, <1>5

LEMMA PicturesFollow ==
    ASSUME PayloadInv, ReceiverInv
    PROVE  PicturesArrive
<1>1. \A i \in DOMAIN received : received[i] \in ToSet(given)
  <2> TAKE i \in DOMAIN received
  <2>1. received[i].nr \in DOMAIN given /\ received[i] = given[received[i].nr]
    BY ReceivedFacts DEF PayloadInv, PayloadTypes
  <2> QED
    BY <2>1 DEF ToSet
<1>2. \A i, j \in DOMAIN received :
          i < j /\ received[i].type = "picture" /\ received[j].type = "picture"
              => received[i].nr < received[j].nr
  BY DEF ReceiverInv, InTurn
<1>3. ASSUME done = Len(given), taken = Len(payloads), NEW k \in DOMAIN given, Live(k, "picture")
      PROVE  given[k] \in ToSet(received)
  <2>1. IsPicture(k) /\ k \in 1 .. done
    BY <1>3 DEF IsPicture, PayloadInv, PayloadTypes
  <2>n. PICK n \in DOMAIN payloads : Completes(payloads[n]) /\ payloads[n].pieces[1].unit = given[k]
    BY <2>1 DEF PayloadInv, Sent
  <2>2. n \in 1 .. taken
    BY <1>3 DEF PayloadInv, PayloadTypes
  <2>3. Made(payloads[n]) /\ PayloadTypes
    BY DEF PayloadInv, AllMade
  <2>4. 1 \in DOMAIN payloads[n].pieces
    BY <2>3, MadeFacts
  <2>5. PICK i \in DOMAIN received : received[i] = given[k]
    BY <2>2, <2>4, <2>n DEF ReceiverInv, Arrived
  <2> QED
    BY <2>5 DEF ToSet
<1>4. \A i \in DOMAIN payloads : payloads[i].size <= MTU
  BY MadeFacts DEF PayloadInv, AllMade
<1> QED
  BY <1>1, <1>2, <1>3, <1>4 DEF PicturesArrive

LEMMA SetsLead ==
    ASSUME PayloadInv, ReceiverInv
    PROVE  ParameterSetsFirst
<1>0. DOMAIN received = 1 .. Len(received) /\ Len(received) \in Nat
  BY DEF ReceiverInv
<1>1. ASSUME NEW at \in DOMAIN received, received[at].type = "picture",
             NEW i \in 1 .. received[at].nr - 1, NEW j \in 1 .. received[at].nr - 1,
             Pair(i, j, received[at].nr)
      PROVE  at > 2 /\ received[at - 2] = given[i] /\ received[at - 1] = given[j]
  <2>1. received[at].nr \in 1 .. done
    BY ReceivedFacts
  <2> QED
    BY <1>1, <2>1 DEF ReceiverInv, PairsFirst
<1>2. ASSUME NEW i \in DOMAIN received, NEW j \in DOMAIN received, i # j
      PROVE  received[i] # received[j]
  <2> SUFFICES ASSUME received[i] = received[j] PROVE FALSE
    OBVIOUS
  <2>1. received[i].nr \in Nat /\ received[j].nr = received[i].nr /\ received[i].type = received[j].type
    BY ReceivedFacts DEF Numbered
  <2>2. i < j \/ j < i
    BY <1>0, <1>2
  <2> QED
    BY <2>1, <2>2 DEF ReceiverInv, InTurn
<1>3. ASSUME NEW i \in DOMAIN received
      PROVE  received[i] \notin {sps, pps}
  <2> SUFFICES ASSUME NEW s \in {sps, pps}, received[i] = s PROVE FALSE
    OBVIOUS
  <2>1. received[i].type = s.type /\ received[i].nr = s.nr /\ received[i].nr \in Nat
    BY ReceivedFacts DEF Numbered
  <2>2. received[i].nr < s.nr
    BY <2>1, ReceivedFacts
  <2> QED
    BY <2>1, <2>2
<1> QED
  BY <1>1, <1>2, <1>3 DEF ParameterSetsFirst

\* A receiver that goes by RFC 6184 puts every picture unit together again,
\* whole, once and in order, however it was cut into fragments and whatever was
\* sent between, and no packet is longer than a datagram takes
\* (h264_parser.go:192-307).
THEOREM AllPicturesArrive == PayloadSpec => []PicturesArrive
<1>1. PayloadInv /\ ReceiverInv => PicturesArrive
  BY PicturesFollow
<1> QED
  BY <1>1, PayloadHolds, PTL

\* A pair of parameter sets comes directly before the picture it is for, once,
\* also when it came with an earlier sample (h264_parser.go:208-237).
THEOREM SetsComeFirst == PayloadSpec => []ParameterSetsFirst
<1>1. PayloadInv /\ ReceiverInv => ParameterSetsFirst
  BY SetsLead
<1> QED
  BY <1>1, PayloadHolds, PTL

-----------------------------------------------------------------------------
(* H264Split: the inductive invariant.                                     *)

Byte == 0 .. 255
Slices == [from : Nat, to : Nat]

SplitTypes ==
    /\ payload \in Seq(Byte) /\ Len(payload) >= 1
    /\ spc \in {"start", "find", "lengths", "rest", "done"}
    /\ pos \in Nat \ {0} /\ zCount \in Nat /\ prevStart \in Nat /\ naluSz \in Nat
    /\ nalus \in Seq(Slices)

Starting == spc = "start" => pos = 1 /\ zCount = 0 /\ prevStart = 0 /\ nalus = <<>>

\* where the unit begins that is under way, or the bytes before the first
Base == IF prevStart = 0 THEN 1 ELSE prevStart

\* the zeros before the byte looked at
Zeros ==
    /\ pos \in Base .. Len(payload) + 1 /\ zCount \in 0 .. pos - Base
    /\ \A k \in pos - zCount .. pos - 1 : payload[k] = 0
    /\ zCount = pos - Base \/ payload[pos - zCount - 1] # 0

\* the u-th unit begins, the last of them where one is under way
From(u) == IF u \in DOMAIN nalus THEN nalus[u].from ELSE prevStart

\* The units found so far are those of the bytes after the n-th.
SoFar(n) ==
    /\ ~HasStartCode(1, n) /\ IsStartCode(n + 1, From(1) - 1) /\ From(1) <= Len(payload) + 1
    /\ \A u \in DOMAIN nalus :
          /\ IsStartCode(nalus[u].to + 1, From(u + 1) - 1)
          /\ nalus[u].to >= nalus[u].from - 1 /\ ~HasStartCode(nalus[u].from, nalus[u].to)
          /\ nalus[u].to >= nalus[u].from => payload[nalus[u].to] # 0

Finding ==
    spc = "find" =>
        /\ Len(payload) >= 4 /\ Zeros /\ ~HasStartCode(Base, pos - 1)
        /\ IF prevStart = 0 THEN nalus = <<>> ELSE \E n \in 0 .. Len(payload) : SoFar(n)

\* Byte p begins a length, if lengths cover the sample.
OnTheWay(p) ==
    \A at \in SUBSET (5 .. Len(payload) + 1) : Alternate({1} \cup at) => p \in {1} \cup at

\* The units found so far are behind their lengths, the last of them ends
\* before byte p.
Measured(p) ==
    /\ IF nalus = <<>> THEN p = 5 ELSE nalus[1].from = 5 /\ nalus[Len(nalus)].to + 5 = p
    /\ \A u \in 1 .. Len(nalus) - 1 : nalus[u + 1].from = nalus[u].to + 5
    /\ \A u \in DOMAIN nalus : nalus[u].to + 1 - nalus[u].from = U32BE(nalus[u].from - 4)

Lengths ==
    spc \in {"lengths", "rest"} =>
        /\ Len(payload) >= 4 /\ ~HasStartCode(1, Len(payload)) /\ pos \in 5 .. Len(payload) + 1
        /\ \/ /\ naluSz = U32BE(pos - 4) /\ Measured(pos) /\ OnTheWay(pos - 4)
              /\ spc = "rest" => naluSz > Rest(pos)
           \/ /\ spc = "rest" /\ Rest(pos) < 4
              /\ nalus # <<>> /\ Measured(pos + 4) /\ OnTheWay(pos)

SplitInv == SplitTypes /\ Starting /\ Finding /\ Lengths /\ SplitInverted

\* what a step leaves alone, as the sample stays
LEMMA SampleKept ==
    ASSUME payload' = payload
    PROVE  /\ \A a, b : IsStartCode(a, b)' <=> IsStartCode(a, b)
           /\ \A a, b : HasStartCode(a, b)' <=> HasStartCode(a, b)
           /\ \A p : U32BE(p)' = U32BE(p) /\ Rest(p)' = Rest(p)
           /\ \A p : OnTheWay(p)' <=> OnTheWay(p)
           /\ Covered' <=> Covered
<1>1. \A a, b : IsStartCode(a, b)' <=> IsStartCode(a, b)
  BY DEF IsStartCode
<1>2. \A a, b : HasStartCode(a, b)' <=> HasStartCode(a, b)
  BY DEF HasStartCode, IsStartCode
<1>3. \A p : U32BE(p)' = U32BE(p) /\ Rest(p)' = Rest(p)
  BY DEF U32BE, Rest
<1>4. \A at : Alternate(at)' <=> Alternate(at)
  BY <1>3 DEF Alternate, Rest, U32BE
<1>5. \A p : OnTheWay(p)' <=> OnTheWay(p)
  BY <1>4 DEF OnTheWay, Alternate, Rest, U32BE
<1>6. Covered' <=> Covered
  BY <1>4 DEF Covered, Alternate, Rest, U32BE
<1> QED
  BY <1>1, <1>2, <1>3, <1>5, <1>6

LEMMA ByteNat == Byte \subseteq Nat
  BY DEF Byte

LEMMA U32Nat ==
    ASSUME payload \in Seq(Byte), NEW p \in Int, p >= 1, p + 3 <= Len(payload)
    PROVE  U32BE(p) \in Nat
<1>1. /\ p \in 1 .. Len(payload) /\ p + 1 \in 1 .. Len(payload)
      /\ p + 2 \in 1 .. Len(payload) /\ p + 3 \in 1 .. Len(payload)
  BY LenProperties
<1>2. \A k \in 1 .. Len(payload) : payload[k] \in Nat
  <2> TAKE k \in 1 .. Len(payload)
  <2>1. payload[k] \in Byte
    BY ElementOfSeq
  <2> QED
    BY <2>1, ByteNat
<1>3. payload[p] \in Nat /\ payload[p + 1] \in Nat /\ payload[p + 2] \in Nat /\ payload[p + 3] \in Nat
  BY <1>1, <1>2
<1>4. PICK a, b, c, d : a = payload[p] /\ b = payload[p + 1] /\ c = payload[p + 2] /\ d = payload[p + 3]
  OBVIOUS
<1>5. U32BE(p) = ((a * 256 + b) * 256 + c) * 256 + d
  BY <1>4 DEF U32BE
<1>6. a \in Nat /\ b \in Nat /\ c \in Nat /\ d \in Nat
  BY <1>3, <1>4
<1>7. ((a * 256 + b) * 256 + c) * 256 + d \in Nat
  BY <1>6
<1> QED
  BY <1>5, <1>7

\* a start code in a part of the bytes is one in all of them
LEMMA Wider ==
    ASSUME NEW a \in Int, NEW b \in Int, NEW c \in Int, NEW d \in Int,
           a <= c, d <= b, HasStartCode(c, d)
    PROVE  HasStartCode(a, b)
<1>1. PICK k \in c .. d - 2 : IsStartCode(k, k + 2)
  BY DEF HasStartCode
<1>2. k \in a .. b - 2
  OBVIOUS
<1> QED
  BY <1>1, <1>2 DEF HasStartCode

\* A start code that ends here is seen by the zeros counted.
LEMMA CodeEndsHere ==
    ASSUME SplitTypes, Zeros, ~HasStartCode(Base, pos - 1), HasStartCode(Base, pos)
    PROVE  payload[pos] = 1 /\ zCount >= 2
<1>1. pos \in Nat /\ zCount \in Nat /\ Base \in Nat
  BY DEF SplitTypes, Base
<1>2. PICK k \in Base .. pos - 2 : IsStartCode(k, k + 2)
  BY DEF HasStartCode
<1>3. k = pos - 2
  <2>1. ASSUME k # pos - 2 PROVE FALSE
    <3>1. k \in Base .. (pos - 1) - 2
      BY <1>1, <2>1
    <3> QED
      BY <1>2, <3>1 DEF HasStartCode
  <2> QED
    BY <2>1
<1>4. payload[pos] = 1 /\ payload[pos - 1] = 0 /\ payload[pos - 2] = 0 /\ pos - 2 >= Base
  <2>1. k + 2 = pos /\ k = pos - 2 /\ k + 1 = pos - 1 /\ pos - 2 >= Base
    BY <1>1, <1>3
  <2>2. payload[k + 2] = 1 /\ payload[k] = 0 /\ payload[k + 1] = 0
    BY <1>2 DEF IsStartCode
  <2> QED
    BY <2>1, <2>2
<1>5. ASSUME zCount < 2 PROVE FALSE
  <2>1. zCount # pos - Base
    BY <1>1, <1>4, <1>5
  <2>2. payload[pos - zCount - 1] # 0
    BY <2>1 DEF Zeros
  <2>3. pos - zCount - 1 = pos - 1 \/ pos - zCount - 1 = pos - 2
    BY <1>1, <1>5
  <2> QED
    BY <1>4, <2>2, <2>3
<1> QED
  BY <1>1, <1>4, <1>5

\* the counted zeros and a one
LEMMA CodeHere ==
    ASSUME SplitTypes, Zeros, payload[pos] = 1, zCount >= 2
    PROVE  /\ IsStartCode(pos - zCount, pos)
           /\ pos - zCount >= Base
           /\ zCount = pos - Base \/ payload[pos - zCount - 1] # 0
<1>1. pos \in Nat /\ zCount \in Nat /\ Base \in Nat /\ zCount \in 0 .. pos - Base
  BY DEF SplitTypes, Base, Zeros
<1>2. pos - (pos - zCount) >= 2
  BY <1>1
<1>3. \A k \in pos - zCount .. pos - 1 : payload[k] = 0
  BY DEF Zeros
<1>4. pos - zCount >= Base
  BY <1>1
<1> QED
  BY <1>2, <1>3, <1>4 DEF IsStartCode, Zeros

LEMMA SplitInitInv == SplitInit => SplitInv
<1> SUFFICES ASSUME SplitInit PROVE SplitInv
  OBVIOUS
<1> USE DEF SplitInit
<1>1. PICK n \in 1 .. MaxBytes : payload \in [1 .. n -> Bytes]
  OBVIOUS
<1>2. n \in Nat /\ n >= 1
  BY SplitAssumption
<1>3. payload \in [1 .. n -> Byte]
  BY <1>1, SplitAssumption DEF Byte
<1>4. payload \in Seq(Byte) /\ Len(payload) = n
  BY <1>2, <1>3
<1>5. SplitTypes
  BY <1>2, <1>4 DEF SplitTypes
<1> QED
  BY <1>5 DEF SplitInv, Starting, Finding, Lengths, SplitInverted

LEMMA ShortKeeps == SplitInv /\ Short => SplitInv'
<1> SUFFICES ASSUME SplitInv, Short PROVE SplitInv'
  OBVIOUS
<1>1. /\ payload' = payload /\ pos' = pos /\ zCount' = zCount /\ prevStart' = prevStart
      /\ naluSz' = naluSz /\ spc' = "done" /\ Len(payload) < 4
      /\ nalus' = <<Slice(1, Len(payload))>> /\ typ' = "NALU_RAW"
  BY DEF Short, Return
<1>2. Len(payload) \in Nat /\ Len(payload) >= 1 /\ SplitTypes
  BY DEF SplitInv, SplitTypes
<1>3. SplitTypes'
  <2>1. Slice(1, Len(payload)) \in Slices
    BY <1>2 DEF Slice, Slices
  <2> QED
    BY <1>1, <1>2, <2>1 DEF SplitTypes
<1>4. ~Covered
  <2>1. Rest(1) = Len(payload)
    BY <1>2 DEF Rest
  <2> QED
    BY <1>1, <1>2, <2>1 DEF Covered, Alternate
<1>5. SplitInverted'
  BY <1>1, <1>4, SampleKept DEF SplitInverted, Slice
<1> QED
  BY <1>1, <1>3, <1>5 DEF SplitInv, Starting, Finding, Lengths

LEMMA BeginKeeps == SplitInv /\ Begin => SplitInv'
<1> SUFFICES ASSUME SplitInv, Begin PROVE SplitInv'
  OBVIOUS
<1>1. /\ payload' = payload /\ pos' = 1 /\ zCount' = 0 /\ prevStart' = 0
      /\ naluSz' = naluSz /\ spc' = "find" /\ Len(payload) >= 4 /\ nalus' = <<>>
  BY DEF Begin, SplitInv, Starting
<1>2. SplitTypes'
  BY <1>1 DEF SplitInv, SplitTypes
<1>3. Len(payload) \in Nat /\ Base' = 1
  BY <1>1 DEF SplitInv, SplitTypes, Base
<1>4. Zeros'
  BY <1>1, <1>3 DEF Zeros
<1>5. ~HasStartCode(1, 0)
  BY DEF HasStartCode
<1>6. (~HasStartCode(Base, pos - 1))'
  BY <1>1, <1>3, <1>5 DEF HasStartCode, IsStartCode
<1>7. Finding'
  BY <1>1, <1>4, <1>6 DEF Finding
<1> QED
  BY <1>1, <1>2, <1>7 DEF SplitInv, Starting, Lengths, SplitInverted

\* The bytes looked at hide no start code but one that ends at the last of them.
LEMMA FoundKept ==
    ASSUME SplitTypes, UNCHANGED <<payload, prevStart, nalus>>, NEW n, SoFar(n)
    PROVE  SoFar(n)'
<1>1. \A u : From(u)' = From(u)
  BY DEF From
<1>2. \A a, b : (IsStartCode(a, b)' <=> IsStartCode(a, b)) /\ (HasStartCode(a, b)' <=> HasStartCode(a, b))
  BY SampleKept
<1>3. payload' = payload /\ nalus' = nalus
  OBVIOUS
<1>4. ~HasStartCode(1, n)' /\ IsStartCode(n + 1, From(1) - 1)'
  BY <1>1 DEF SoFar, HasStartCode, IsStartCode
<1>5. ASSUME NEW u \in DOMAIN nalus
      PROVE  /\ IsStartCode(nalus[u].to + 1, From(u + 1) - 1)'
             /\ nalus[u].to >= nalus[u].from - 1 /\ ~HasStartCode(nalus[u].from, nalus[u].to)'
             /\ nalus[u].to >= nalus[u].from => payload[nalus[u].to] # 0
  <2>1. From(u + 1)' = From(u + 1)
    BY <1>1
  <2> QED
    BY <1>3, <2>1 DEF SoFar, HasStartCode, IsStartCode
<1>6. (From(1) <= Len(payload) + 1)'
  BY <1>1, <1>3 DEF SoFar
<1> QED
  BY <1>3, <1>4, <1>5, <1>6 DEF SoFar

LEMMA NextByte ==
    ASSUME SplitInv, spc = "find", pos <= Len(payload), pos' = pos + 1, Zeros',
           ~(payload[pos] = 1 /\ zCount >= 2), zCount' \in Nat,
           UNCHANGED <<payload, spc, prevStart, naluSz, nalus, typ>>
    PROVE  SplitInv'
<1>1. SplitTypes /\ Zeros /\ Len(payload) >= 4 /\ ~HasStartCode(Base, pos - 1)
  BY DEF SplitInv, Finding
<1>2. ~HasStartCode(Base, pos)
  BY <1>1, CodeEndsHere
<1>3. pos \in Nat /\ pos + 1 - 1 = pos
  BY <1>1 DEF SplitTypes
<1>4. SplitTypes'
  BY <1>1 DEF SplitTypes
<1>5. Base' = Base
  BY DEF Base
<1>6. (~HasStartCode(Base, pos - 1))'
  <2>1. pos' - 1 = pos
    BY <1>3
  <2> QED
    BY <1>2, <1>5, <2>1 DEF HasStartCode, IsStartCode
<1>7. IF prevStart = 0 THEN nalus = <<>> ELSE \E n \in 0 .. Len(payload) : SoFar(n)
  BY DEF SplitInv, Finding
<1>8. (IF prevStart = 0 THEN nalus = <<>> ELSE \E n \in 0 .. Len(payload) : SoFar(n))'
  <2>1. CASE prevStart = 0
    BY <1>7, <2>1
  <2>2. CASE prevStart # 0
    <3> PICK n \in 0 .. Len(payload) : SoFar(n)
      BY <1>7, <2>2
    <3>1. SoFar(n)'
      BY <1>1, FoundKept
    <3> QED
      BY <2>2, <3>1
  <2> QED
    BY <2>1, <2>2
<1>9. Finding'
  BY <1>1, <1>6, <1>8 DEF Finding
<1> QED
  BY <1>4, <1>9 DEF SplitInv, Starting, Lengths, SplitInverted

LEMMA ZeroKeeps == SplitInv /\ Zero => SplitInv'
<1> SUFFICES ASSUME SplitInv, Zero PROVE SplitInv'
  OBVIOUS
<1>1. Zeros /\ pos \in Nat /\ zCount \in Nat /\ Base \in Nat /\ Len(payload) \in Nat
  BY DEF SplitInv, Finding, Zero, SplitTypes, Base
<1>2. /\ payload' = payload /\ pos' = pos + 1 /\ zCount' = zCount + 1 /\ prevStart' = prevStart
      /\ payload[pos] = 0 /\ pos <= Len(payload)
  BY DEF Zero
<1>3. Base' = Base
  BY <1>2 DEF Base
<1>4. pos' \in Base .. Len(payload) + 1 /\ zCount' \in 0 .. pos' - Base
  BY <1>1, <1>2 DEF Zeros
<1>5. pos' - zCount' = pos - zCount /\ (zCount' = pos' - Base <=> zCount = pos - Base)
  BY <1>1, <1>2
<1>6. \A k \in pos - zCount .. pos' - 1 : payload[k] = 0
  <2> TAKE k \in pos - zCount .. pos' - 1
  <2>1. k = pos \/ k \in pos - zCount .. pos - 1
    BY <1>1, <1>2
  <2> QED
    BY <1>1, <1>2, <2>1 DEF Zeros
<1>7. zCount' = pos' - Base \/ payload[pos' - zCount' - 1] # 0
  BY <1>1, <1>5 DEF Zeros
<1>8. Zeros'
  BY <1>2, <1>3, <1>4, <1>5, <1>6, <1>7 DEF Zeros
<1> QED
  BY <1>1, <1>2, <1>8, NextByte DEF Zero

LEMMA OtherKeeps == SplitInv /\ Other => SplitInv'
<1> SUFFICES ASSUME SplitInv, Other PROVE SplitInv'
  OBVIOUS
<1>1. Zeros /\ pos \in Nat /\ zCount \in Nat /\ Base \in Nat /\ Len(payload) \in Nat
  BY DEF SplitInv, Finding, Other, SplitTypes, Base
<1>2. /\ payload' = payload /\ pos' = pos + 1 /\ zCount' = 0 /\ prevStart' = prevStart
      /\ payload[pos] # 0 /\ pos <= Len(payload)
  BY DEF Other
<1>3. Base' = Base
  BY <1>2 DEF Base
<1>4. pos' \in Base .. Len(payload) + 1 /\ zCount' \in 0 .. pos' - Base
  BY <1>1, <1>2 DEF Zeros
<1>5. pos' - zCount' = pos + 1 /\ pos' - 1 = pos /\ pos' - zCount' - 1 = pos
  BY <1>1, <1>2
<1>6. Zeros'
  BY <1>1, <1>2, <1>3, <1>4, <1>5 DEF Zeros
<1> QED
  BY <1>2, <1>6, NextByte DEF Other

\* a unit more
LEMMA OneMore ==
    ASSUME nalus \in Seq(Slices), NEW e \in Slices, nalus' = Append(nalus, e)
    PROVE  /\ nalus' \in Seq(Slices) /\ Len(nalus') = Len(nalus) + 1 /\ Len(nalus) \in Nat
           /\ DOMAIN nalus = 1 .. Len(nalus) /\ DOMAIN nalus' = 1 .. Len(nalus) + 1
           /\ \A u \in 1 .. Len(nalus) : nalus'[u] = nalus[u]
           /\ nalus'[Len(nalus) + 1] = e
  BY AppendProperties, LenProperties

\* A start code behind the first byte of the unit under way ends it.
LEMMA UnitFound ==
    ASSUME SplitTypes, NEW n \in Nat, SoFar(n), NEW to \in Nat, NEW next \in Nat, next <= Len(payload) + 1,
           prevStart # 0, to >= prevStart - 1, ~HasStartCode(prevStart, to),
           to >= prevStart => payload[to] # 0, IsStartCode(to + 1, next - 1),
           payload' = payload, nalus' = Append(nalus, Slice(prevStart, to)), prevStart' = next
    PROVE  SoFar(n)'
<1>e. PICK e, l : e = Slice(prevStart, to) /\ l = Len(nalus)
  OBVIOUS
<1>1. e.from = prevStart /\ e.to = to /\ e \in Slices
  BY <1>e DEF Slice, Slices, SplitTypes
<1>2. /\ l \in Nat /\ DOMAIN nalus = 1 .. l /\ DOMAIN nalus' = 1 .. l + 1
      /\ \A u \in 1 .. l : nalus'[u] = nalus[u]
      /\ nalus'[l + 1] = e
  BY <1>1, <1>e, OneMore DEF SplitTypes
<1>3. ASSUME NEW u \in 1 .. l + 1 PROVE From(u)' = From(u)
  <2>1. CASE u \in 1 .. l
    BY <1>2, <2>1 DEF From
  <2>2. CASE u = l + 1
    BY <1>1, <1>2, <2>2 DEF From
  <2> QED
    BY <1>2, <2>1, <2>2
<1>4. \A u : u = l + 2 => From(u)' = next
  BY <1>2 DEF From
<1>5. (From(1) <= Len(payload) + 1 /\ ~HasStartCode(1, n) /\ IsStartCode(n + 1, From(1) - 1))'
  <2>1. From(1)' = From(1)
    BY <1>2, <1>3
  <2> QED
    BY <2>1 DEF SoFar, HasStartCode, IsStartCode
<1>6. ASSUME NEW u \in DOMAIN nalus'
      PROVE  /\ IsStartCode(nalus'[u].to + 1, From(u + 1)' - 1)
             /\ nalus'[u].to >= nalus'[u].from - 1 /\ ~HasStartCode(nalus'[u].from, nalus'[u].to)
             /\ nalus'[u].to >= nalus'[u].from => payload[nalus'[u].to] # 0
  <2>1. CASE u \in 1 .. l
    <3>1. nalus'[u] = nalus[u] /\ u \in DOMAIN nalus
      BY <1>2, <2>1
    <3>2. From(u + 1)' = From(u + 1)
      <4>1. u + 1 \in 1 .. l + 1
        BY <1>2, <2>1
      <4> QED
        BY <1>3, <4>1
    <3> QED
      BY <3>1, <3>2 DEF SoFar
  <2>2. CASE u = l + 1
    <3>1. From(u + 1)' = next
      <4>1. u + 1 = l + 2
        BY <1>2, <2>2
      <4> QED
        BY <1>4, <4>1
    <3> QED
      BY <1>1, <1>2, <2>2, <3>1
  <2> QED
    BY <1>2, <2>1, <2>2
<1>7. \A a, b : (IsStartCode(a, b)' <=> IsStartCode(a, b)) /\ (HasStartCode(a, b)' <=> HasStartCode(a, b))
  BY SampleKept
<1>8. ASSUME NEW u \in DOMAIN nalus'
      PROVE  (/\ IsStartCode(nalus[u].to + 1, From(u + 1) - 1)
              /\ nalus[u].to >= nalus[u].from - 1 /\ ~HasStartCode(nalus[u].from, nalus[u].to)
              /\ nalus[u].to >= nalus[u].from => payload[nalus[u].to] # 0)'
  BY <1>6 DEF HasStartCode, IsStartCode
<1> QED
  BY <1>5, <1>8 DEF SoFar

LEMMA IndicatorKeeps == SplitInv /\ Indicator => SplitInv'
<1> SUFFICES ASSUME SplitInv, Indicator PROVE SplitInv'
  OBVIOUS
<1>1. /\ SplitTypes /\ Zeros /\ Len(payload) >= 4 /\ ~HasStartCode(Base, pos - 1)
      /\ IF prevStart = 0 THEN nalus = <<>> ELSE \E n \in 0 .. Len(payload) : SoFar(n)
  BY DEF SplitInv, Finding, Indicator
<1>2. /\ payload' = payload /\ spc' = spc /\ naluSz' = naluSz /\ typ' = typ /\ spc = "find"
      /\ prevStart' = pos + 1 /\ pos' = pos + 1 /\ zCount' = 0
      /\ payload[pos] = 1 /\ zCount >= 2 /\ pos <= Len(payload)
      /\ nalus' = IF prevStart = 0 THEN nalus ELSE Append(nalus, Slice(prevStart, pos - zCount - 1))
  BY DEF Indicator
<1>t. PICK to : to = pos - zCount - 1
  OBVIOUS
<1>3. /\ pos \in Nat /\ zCount \in Nat /\ prevStart \in Nat /\ Len(payload) \in Nat /\ Base \in Nat
      /\ Base >= 1 /\ nalus \in Seq(Slices)
  BY <1>1 DEF SplitTypes, Base
<1>4. IsStartCode(to + 1, pos) /\ to >= Base - 1 /\ (to >= Base => payload[to] # 0)
  <2>1. /\ IsStartCode(pos - zCount, pos) /\ pos - zCount >= Base
        /\ zCount = pos - Base \/ payload[pos - zCount - 1] # 0
    BY <1>1, <1>2, CodeHere
  <2>2. to + 1 = pos - zCount /\ (to >= Base => zCount # pos - Base)
    BY <1>3, <1>t
  <2> QED
    BY <1>3, <1>t, <2>1, <2>2
<1>5. to \in Nat /\ to <= pos - 1 /\ to <= Len(payload)
  BY <1>2, <1>3, <1>4, <1>t
<1>6. ~HasStartCode(Base, to)
  <2>1. Base \in Int /\ pos - 1 \in Int /\ to \in Int
    BY <1>3, <1>5
  <2> QED
    BY <1>1, <1>3, <1>5, <2>1, Wider
<1>7. Base' = pos + 1
  BY <1>2, <1>3 DEF Base
<1>8. Zeros'
  BY <1>2, <1>3, <1>7 DEF Zeros
<1>9. (~HasStartCode(Base, pos - 1))'
  BY <1>2, <1>3, <1>7 DEF HasStartCode
<1>10. SplitTypes'
  <2>1. nalus' \in Seq(Slices)
    <3>1. CASE prevStart = 0
      BY <1>2, <1>3, <3>1
    <3>2. CASE prevStart # 0
      <4>1. Slice(prevStart, to) \in Slices
        BY <1>3, <1>5 DEF Slice, Slices
      <4> QED
        BY <1>2, <1>3, <1>t, <3>2, <4>1, AppendProperties
    <3> QED
      BY <3>1, <3>2
  <2> QED
    BY <1>1, <1>2, <1>3, <2>1 DEF SplitTypes
<1>11. \E n \in 0 .. Len(payload) : SoFar(n)'
  <2>1. CASE prevStart = 0
    <3>1. Base = 1 /\ nalus' = <<>>
      BY <1>1, <1>2, <2>1 DEF Base
    <3>2. From(1)' = pos + 1
      BY <1>2, <3>1 DEF From
    <3>3. From(1)' - 1 = pos /\ From(1)' <= Len(payload) + 1
      BY <1>2, <1>3, <3>2
    <3>4. ~HasStartCode(1, to)
      BY <1>6, <3>1
    <3>5. SoFar(to)'
      BY <1>2, <1>4, <3>1, <3>3, <3>4 DEF SoFar, HasStartCode, IsStartCode
    <3> QED
      BY <1>5, <3>5
  <2>2. CASE prevStart # 0
    <3> PICK n \in 0 .. Len(payload) : SoFar(n)
      BY <1>1, <2>2
    <3>n. PICK next : next = pos + 1
      OBVIOUS
    <3>1. Base = prevStart /\ next \in Nat /\ next - 1 = pos /\ next <= Len(payload) + 1 /\ n \in Nat
      BY <1>2, <1>3, <2>2, <3>n DEF Base
    <3>2. nalus' = Append(nalus, Slice(prevStart, to)) /\ prevStart' = next
      BY <1>2, <1>t, <2>2, <3>n
    <3>3. SoFar(n)'
      BY <1>1, <1>2, <1>4, <1>5, <1>6, <2>2, <3>1, <3>2, UnitFound
    <3> QED
      BY <3>3
  <2> QED
    BY <2>1, <2>2
<1>12. Finding'
  <2>1. prevStart' # 0
    BY <1>2, <1>3
  <2> QED
    BY <1>1, <1>2, <1>8, <1>9, <1>11, <2>1 DEF Finding
<1> QED
  BY <1>2, <1>10, <1>12 DEF SplitInv, Starting, Lengths, SplitInverted

\* The start code before the first unit is one in the sample.
LEMMA CodeBefore ==
    ASSUME SplitTypes, NEW n \in Nat, IsStartCode(n + 1, From(1) - 1), From(1) <= Len(payload) + 1,
           From(1) \in Nat
    PROVE  HasStartCode(1, Len(payload))
<1>k. PICK k : k = From(1) - 3
  OBVIOUS
<1>1. /\ k \in n + 1 .. (From(1) - 1) - 1 /\ k + 1 \in n + 1 .. (From(1) - 1) - 1 /\ k + 2 = From(1) - 1
      /\ k \in 1 .. Len(payload) - 2
  BY <1>k DEF IsStartCode, SplitTypes
<1>2. payload[k] = 0 /\ payload[k + 1] = 0 /\ payload[k + 2] = 1
  BY <1>1 DEF IsStartCode
<1>3. IsStartCode(k, k + 2)
  <2>1. (k + 2) - k >= 2 /\ \A j \in k .. (k + 2) - 1 : j = k \/ j = k + 1
    BY <1>1
  <2> QED
    BY <1>2, <2>1 DEF IsStartCode
<1> QED
  BY <1>1, <1>3 DEF HasStartCode

LEMMA LastUnitKeeps == SplitInv /\ LastUnit => SplitInv'
<1> SUFFICES ASSUME SplitInv, LastUnit PROVE SplitInv'
  OBVIOUS
<1>1. /\ SplitTypes /\ Zeros /\ Len(payload) >= 4 /\ ~HasStartCode(Base, pos - 1)
      /\ prevStart # 0 /\ pos > Len(payload)
      /\ \E n \in 0 .. Len(payload) : SoFar(n)
  BY DEF SplitInv, Finding, LastUnit
<1>2. /\ prevStart \in Nat /\ Len(payload) \in Nat /\ nalus \in Seq(Slices) /\ pos = Len(payload) + 1
      /\ Base = prevStart /\ Len(payload) >= prevStart - 1
  BY <1>1 DEF SplitTypes, Zeros, Base
<1>e. PICK e, l : e = Slice(prevStart, Len(payload)) /\ l = Len(nalus)
  OBVIOUS
<1>3. e.from = prevStart /\ e.to = Len(payload) /\ e \in Slices
  BY <1>2, <1>e DEF Slice, Slices
<1>4. Append(nalus, e) # <<>>
  BY <1>2, <1>3, AppendProperties
<1>5. /\ payload' = payload /\ pos' = pos /\ zCount' = zCount /\ prevStart' = prevStart
      /\ naluSz' = naluSz /\ spc' = "done" /\ typ' = "NALU_ANNEXB" /\ nalus' = Append(nalus, e)
  BY <1>4, <1>e DEF LastUnit, Return
<1>6. /\ nalus' \in Seq(Slices) /\ l \in Nat /\ DOMAIN nalus = 1 .. l /\ DOMAIN nalus' = 1 .. l + 1
      /\ Len(nalus') = l + 1 /\ \A u \in 1 .. l : nalus'[u] = nalus[u]
      /\ nalus'[l + 1] = e
  BY <1>2, <1>3, <1>5, <1>e, OneMore
<1>n. PICK n \in 0 .. Len(payload) : SoFar(n)
  BY <1>1
<1>7. \A u \in 1 .. l + 1 : From(u) = nalus'[u].from
  <2> TAKE u \in 1 .. l + 1
  <2>1. CASE u \in 1 .. l
    BY <1>6, <2>1 DEF From
  <2>2. CASE u = l + 1
    BY <1>3, <1>6, <2>2 DEF From
  <2> QED
    BY <1>6, <2>1, <2>2
<1>8. IsAnnexB(n, nalus')
  <2>1. nalus' # <<>> /\ nalus'[Len(nalus')].to = Len(payload)
    BY <1>3, <1>4, <1>5, <1>6
  <2>2. IsStartCode(n + 1, nalus'[1].from - 1)
    <3>1. From(1) = nalus'[1].from
      BY <1>6, <1>7
    <3> QED
      BY <1>n, <3>1 DEF SoFar
  <2>3. ASSUME NEW u \in 1 .. Len(nalus') - 1
        PROVE  IsStartCode(nalus'[u].to + 1, nalus'[u + 1].from - 1)
    <3>1. u \in DOMAIN nalus /\ nalus'[u] = nalus[u] /\ u + 1 \in 1 .. l + 1
      BY <1>6
    <3>2. From(u + 1) = nalus'[u + 1].from
      BY <1>7, <3>1
    <3> QED
      BY <1>n, <3>1, <3>2 DEF SoFar
  <2>4. ASSUME NEW u \in DOMAIN nalus'
        PROVE  /\ nalus'[u].to >= nalus'[u].from - 1 /\ ~HasStartCode(nalus'[u].from, nalus'[u].to)
               /\ u < Len(nalus') /\ nalus'[u].to >= nalus'[u].from => payload[nalus'[u].to] # 0
    <3>1. CASE u \in 1 .. l
      <4>1. u \in DOMAIN nalus /\ nalus'[u] = nalus[u]
        BY <1>6, <3>1
      <4> QED
        BY <1>n, <4>1 DEF SoFar
    <3>2. CASE u = l + 1
      <4>1. ~HasStartCode(prevStart, Len(payload))
        <5>1. pos - 1 = Len(payload)
          BY <1>2
        <5> QED
          BY <1>1, <1>2, <5>1
      <4>2. ~(u < Len(nalus'))
        BY <1>6, <3>2
      <4> QED
        BY <1>2, <1>3, <1>6, <3>2, <4>1, <4>2
    <3> QED
      BY <1>6, <3>1, <3>2
  <2> QED
    BY <2>1, <2>2, <2>3, <2>4 DEF IsAnnexB
<1>9. HasStartCode(1, Len(payload))
  <2>1. From(1) \in Nat
    <3>1. 1 \in 1 .. l + 1 /\ nalus'[1] \in Slices
      BY <1>6, ElementOfSeq
    <3>2. From(1) = nalus'[1].from
      BY <1>7, <3>1
    <3> QED
      BY <3>1, <3>2 DEF Slices
  <2> QED
    BY <1>1, <1>n, <2>1, CodeBefore DEF SoFar
<1>10. SplitInverted'
  <2>1. HasStartCode(1, Len(payload))' /\ ~HasStartCode(1, n)'
    BY <1>5, <1>9, <1>n, SampleKept DEF SoFar, HasStartCode, IsStartCode
  <2>2. IsAnnexB(n, nalus)'
    BY <1>5, <1>8 DEF IsAnnexB, HasStartCode, IsStartCode
  <2> QED
    BY <1>1, <1>5, <2>1, <2>2, <1>n DEF SplitInverted, HasStartCode, IsStartCode
<1>11. SplitTypes'
  BY <1>1, <1>5, <1>6 DEF SplitTypes
<1> QED
  BY <1>5, <1>10, <1>11 DEF SplitInv, Starting, Finding, Lengths

\* the lengths of every cover go on behind the unit
LEMMA WayOn ==
    ASSUME NEW p, Rest(p) >= 4, OnTheWay(p), NEW q, q = p + 4 + U32BE(p)
    PROVE  OnTheWay(q)
<1> SUFFICES ASSUME NEW at \in SUBSET (5 .. Len(payload) + 1), Alternate({1} \cup at)
             PROVE  q \in {1} \cup at
  BY DEF OnTheWay
<1>1. p \in {1} \cup at
  BY DEF OnTheWay
<1>2. Rest(p) # 0
  OBVIOUS
<1> QED
  BY <1>1, <1>2 DEF Alternate

\* no cover, where its lengths cannot go on
LEMMA NoWay ==
    ASSUME payload \in Seq(Byte), NEW p \in Nat, p >= 1, OnTheWay(p), Rest(p) # 0,
           Rest(p) >= 4 => p + 4 + U32BE(p) > Len(payload) + 1
    PROVE  ~Covered
<1>1. Len(payload) \in Nat
  OBVIOUS
<1> SUFFICES ASSUME NEW at \in SUBSET (5 .. Len(payload) + 1), Alternate({1} \cup at)
             PROVE  FALSE
  BY DEF Covered
<1>2. p \in {1} \cup at
  BY DEF OnTheWay
<1>3. Rest(p) >= 4 /\ p + 4 + U32BE(p) \in {1} \cup at
  BY <1>2 DEF Alternate
<1>4. U32BE(p) \in Nat
  <2>1. p + 3 <= Len(payload)
    BY <1>1, <1>3 DEF Rest
  <2> QED
    BY <2>1, U32Nat
<1> QED
  BY <1>1, <1>3, <1>4

LEMMA FirstOnTheWay == OnTheWay(1)
  BY DEF OnTheWay

\* the search saw all the bytes and no indicator
LEMMA NothingFound ==
    ASSUME SplitInv, spc = "find", pos > Len(payload), prevStart = 0
    PROVE  /\ SplitTypes /\ payload \in Seq(Byte) /\ Len(payload) \in Nat /\ Len(payload) >= 4
           /\ ~HasStartCode(1, Len(payload)) /\ nalus = <<>> /\ U32BE(1) \in Nat
<1>1. /\ SplitTypes /\ Zeros /\ Len(payload) >= 4 /\ ~HasStartCode(Base, pos - 1) /\ nalus = <<>>
  BY DEF SplitInv, Finding
<1>2. Base = 1 /\ payload \in Seq(Byte) /\ Len(payload) \in Nat
  BY <1>1 DEF Base, SplitTypes
<1>3. pos - 1 = Len(payload)
  BY <1>1, <1>2 DEF Zeros
<1>4. U32BE(1) \in Nat
  BY <1>1, <1>2, U32Nat
<1> QED
  BY <1>1, <1>2, <1>3, <1>4

LEMMA FirstLengthKeeps == SplitInv /\ FirstLength => SplitInv'
<1> SUFFICES ASSUME SplitInv, FirstLength PROVE SplitInv'
  OBVIOUS
<1>1. /\ payload' = payload /\ spc' = "lengths" /\ naluSz' = U32BE(1) /\ pos' = 5
      /\ zCount' = zCount /\ prevStart' = prevStart /\ nalus' = nalus
      /\ spc = "find" /\ pos > Len(payload) /\ prevStart = 0
  BY DEF FirstLength
<1>2. /\ SplitTypes /\ payload \in Seq(Byte) /\ Len(payload) \in Nat /\ Len(payload) >= 4
      /\ ~HasStartCode(1, Len(payload)) /\ nalus = <<>> /\ U32BE(1) \in Nat
  BY <1>1, NothingFound
<1>3. SplitTypes'
  BY <1>1, <1>2 DEF SplitTypes
<1>4. Measured(pos)'
  BY <1>1, <1>2 DEF Measured
<1>p. PICK p : p = 1
  OBVIOUS
<1>5. OnTheWay(p)'
  BY <1>1, <1>p, FirstOnTheWay, SampleKept
<1>6. OnTheWay(pos - 4)'
  <2>1. pos' - 4 = p
    BY <1>1, <1>p
  <2> QED
    BY <1>5, <2>1 DEF OnTheWay
<1>7. (naluSz = U32BE(pos - 4))'
  <2>1. pos' - 4 = 1
    BY <1>1
  <2> QED
    BY <1>1, <2>1 DEF U32BE
<1>8. (~HasStartCode(1, Len(payload)))'
  BY <1>1, <1>2 DEF HasStartCode, IsStartCode
<1>9. Lengths'
  BY <1>1, <1>2, <1>4, <1>6, <1>7, <1>8 DEF Lengths
<1> QED
  BY <1>1, <1>3, <1>9 DEF SplitInv, Starting, Finding, SplitInverted

\* a sample that no lengths cover is one unit
LEMMA RawReturned ==
    ASSUME SplitTypes, ~HasStartCode(1, Len(payload)), ~Covered,
           UNCHANGED <<payload, pos, zCount, prevStart, naluSz>>, spc' = "done",
           nalus' = <<Slice(1, Len(payload))>>, typ' = "NALU_RAW"
    PROVE  SplitInv'
<1>1. Len(payload) \in Nat /\ payload' = payload
  BY DEF SplitTypes
<1>2. SplitTypes'
  <2>1. Slice(1, Len(payload)) \in Slices
    BY <1>1 DEF Slice, Slices
  <2> QED
    BY <2>1 DEF SplitTypes
<1>3. (~HasStartCode(1, Len(payload)))'
  BY <1>1 DEF HasStartCode, IsStartCode
<1>4. (~Covered)'
  BY <1>1, SampleKept
<1>5. SplitInverted'
  BY <1>1, <1>3, <1>4 DEF SplitInverted, Slice
<1> QED
  BY <1>2, <1>5 DEF SplitInv, Starting, Finding, Lengths

LEMMA NoLengthKeeps == SplitInv /\ NoLength => SplitInv'
<1> SUFFICES ASSUME SplitInv, NoLength PROVE SplitInv'
  OBVIOUS
<1>1. spc = "find" /\ pos > Len(payload) /\ prevStart = 0 /\ U32BE(1) > Len(payload)
  BY DEF NoLength
<1>2. /\ SplitTypes /\ payload \in Seq(Byte) /\ Len(payload) \in Nat /\ Len(payload) >= 4
      /\ ~HasStartCode(1, Len(payload)) /\ nalus = <<>> /\ U32BE(1) \in Nat
  BY <1>1, NothingFound
<1>3. /\ UNCHANGED <<payload, pos, zCount, prevStart, naluSz>> /\ spc' = "done"
      /\ nalus' = <<Slice(1, Len(payload))>> /\ typ' = "NALU_RAW"
  BY <1>2 DEF NoLength, Return
<1>4. ~Covered
  <2>1. 1 + 4 + U32BE(1) > Len(payload) + 1 /\ Rest(1) # 0
    BY <1>1, <1>2 DEF Rest
  <2> QED
    BY <1>2, <2>1, NoWay, FirstOnTheWay
<1> QED
  BY <1>2, <1>3, <1>4, RawReturned

\* what the loop over the lengths knows
LEMMA InLengths ==
    ASSUME SplitInv, spc \in {"lengths", "rest"}
    PROVE  /\ SplitTypes /\ payload \in Seq(Byte) /\ Len(payload) \in Nat /\ Len(payload) >= 4
           /\ ~HasStartCode(1, Len(payload)) /\ pos \in 5 .. Len(payload) + 1 /\ pos \in Nat
           /\ naluSz \in Nat /\ nalus \in Seq(Slices)
  BY DEF SplitInv, SplitTypes, Lengths

\* A unit behind its length: what was measured is kept, and q is where the
\* next unit begins, behind a length of its own.
LEMMA MeasuredMore ==
    ASSUME SplitInv, spc = "lengths", naluSz <= Rest(pos), naluSz = U32BE(pos - 4), Measured(pos),
           payload' = payload, nalus' = Append(nalus, Slice(pos, pos + naluSz - 1)),
           NEW q, q = pos + naluSz + 4
    PROVE  nalus' \in Seq(Slices) /\ nalus' # <<>> /\ Measured(q)'
<1>1. /\ Len(payload) \in Nat /\ pos \in Nat /\ pos >= 5 /\ naluSz \in Nat /\ nalus \in Seq(Slices)
  BY InLengths
<1>e. PICK e, l : e = Slice(pos, pos + naluSz - 1) /\ l = Len(nalus)
  OBVIOUS
<1>2. e.from = pos /\ e.to = pos + naluSz - 1 /\ e \in Slices
  BY <1>1, <1>e DEF Slice, Slices
<1>3. /\ nalus' \in Seq(Slices) /\ Len(nalus') = l + 1 /\ l \in Nat
      /\ DOMAIN nalus = 1 .. l /\ DOMAIN nalus' = 1 .. l + 1
      /\ \A u \in 1 .. l : nalus'[u] = nalus[u]
      /\ nalus'[l + 1] = e
  BY <1>1, <1>2, <1>e, OneMore
<1>4. nalus' # <<>>
  BY <1>3, EmptySeq
<1>5. nalus = <<>> <=> l = 0
  BY <1>1, <1>e, EmptySeq
<1>6. nalus'[1].from = 5
  <2>1. CASE l = 0
    <3>1. pos = 5
      BY <1>5, <2>1 DEF Measured
    <3>2. l + 1 = 1
      BY <2>1
    <3> QED
      BY <1>2, <1>3, <3>1, <3>2
  <2>2. CASE l # 0
    <3>1. nalus[1].from = 5
      BY <1>5, <2>2 DEF Measured
    <3>2. 1 \in 1 .. l
      BY <1>3, <2>2
    <3> QED
      BY <1>3, <3>1, <3>2
  <2> QED
    BY <2>1, <2>2
<1>7. nalus'[Len(nalus')].to + 5 = q
  BY <1>1, <1>2, <1>3
<1>8. ASSUME NEW u \in 1 .. Len(nalus') - 1 PROVE nalus'[u + 1].from = nalus'[u].to + 5
  <2>1. u \in 1 .. l /\ nalus'[u] = nalus[u]
    BY <1>3
  <2>2. CASE u = l
    <3>1. nalus[l].to + 5 = pos
      BY <1>e, <1>3, <1>5, <2>1 DEF Measured
    <3>2. nalus'[u + 1] = e
      BY <1>3, <2>2
    <3> QED
      BY <1>2, <2>1, <2>2, <3>1, <3>2
  <2>3. CASE u # l
    <3>1. u \in 1 .. l - 1 /\ u + 1 \in 1 .. l
      BY <1>3, <2>1, <2>3
    <3>2. nalus[u + 1].from = nalus[u].to + 5
      BY <1>e, <3>1 DEF Measured
    <3>3. nalus'[u + 1] = nalus[u + 1]
      BY <1>3, <3>1
    <3> QED
      BY <2>1, <3>2, <3>3
  <2> QED
    BY <2>2, <2>3
<1>9. ASSUME NEW u \in DOMAIN nalus'
      PROVE  nalus'[u].to + 1 - nalus'[u].from = U32BE(nalus'[u].from - 4)
  <2>1. CASE u \in 1 .. l
    <3>1. u \in DOMAIN nalus /\ nalus'[u] = nalus[u]
      BY <1>3, <2>1
    <3> QED
      BY <3>1 DEF Measured
  <2>2. CASE u = l + 1
    <3>1. nalus'[u] = e /\ e.to + 1 - e.from = naluSz
      BY <1>1, <1>2, <1>3, <2>2
    <3> QED
      BY <1>2, <3>1
  <2> QED
    BY <1>3, <2>1, <2>2
<1>10. ASSUME NEW u \in DOMAIN nalus'
       PROVE  (nalus[u].to + 1 - nalus[u].from = U32BE(nalus[u].from - 4))'
  BY <1>9 DEF U32BE
<1> QED
  BY <1>3, <1>4, <1>6, <1>7, <1>8, <1>10 DEF Measured

LEMMA LengthUnitKeeps == SplitInv /\ LengthUnit => SplitInv'
<1> SUFFICES ASSUME SplitInv, LengthUnit PROVE SplitInv'
  OBVIOUS
<1>1. /\ payload' = payload /\ zCount' = zCount /\ prevStart' = prevStart
      /\ spc = "lengths" /\ naluSz <= Rest(pos) /\ nalus' = Append(nalus, Slice(pos, pos + naluSz - 1))
  BY DEF LengthUnit
<1>2. /\ SplitTypes /\ payload \in Seq(Byte) /\ Len(payload) \in Nat /\ Len(payload) >= 4
      /\ ~HasStartCode(1, Len(payload)) /\ pos \in 5 .. Len(payload) + 1 /\ pos \in Nat
      /\ naluSz \in Nat /\ nalus \in Seq(Slices)
  BY <1>1, InLengths
<1>3. naluSz = U32BE(pos - 4) /\ Measured(pos) /\ OnTheWay(pos - 4)
  BY <1>1 DEF SplitInv, Lengths
<1>q. PICK q, r : q = pos + naluSz /\ r = pos + naluSz + 4
  OBVIOUS
<1>4. /\ q \in Nat /\ q \in 5 .. Len(payload) + 1 /\ r = q + 4 /\ r \in Nat /\ q >= 1
      /\ Rest(q) = Len(payload) + 1 - q
  BY <1>1, <1>2, <1>q DEF Rest
<1>5. nalus' \in Seq(Slices) /\ nalus' # <<>> /\ Measured(r)'
  BY <1>1, <1>3, <1>q, MeasuredMore
<1>6. OnTheWay(q)
  <2>1. q = (pos - 4) + 4 + U32BE(pos - 4)
    BY <1>2, <1>3, <1>q
  <2>2. Rest(pos - 4) >= 4
    BY <1>2 DEF Rest
  <2> QED
    BY <1>3, <2>1, <2>2, WayOn
<1>7. OnTheWay(q)' /\ (~HasStartCode(1, Len(payload)))'
  <2>1. OnTheWay(q)'
    BY <1>1, <1>6, SampleKept
  <2> QED
    BY <1>1, <1>2, <2>1 DEF HasStartCode, IsStartCode
<1>8. CASE Rest(q) < 4 /\ spc' = "rest" /\ pos' = q /\ naluSz' = naluSz
  <2>1. SplitTypes'
    BY <1>1, <1>2, <1>4, <1>5, <1>8 DEF SplitTypes
  <2>2. Measured(pos + 4)'
    <3>1. pos' + 4 = r
      BY <1>4, <1>8
    <3> QED
      BY <1>5, <3>1 DEF Measured
  <2>3. OnTheWay(pos)'
    BY <1>7, <1>8 DEF OnTheWay
  <2>4. (Rest(pos) < 4)'
    BY <1>1, <1>8 DEF Rest
  <2>5. Lengths'
    BY <1>1, <1>2, <1>4, <1>5, <1>7, <1>8, <2>2, <2>3, <2>4 DEF Lengths
  <2> QED
    BY <1>8, <2>1, <2>5 DEF SplitInv, Starting, Finding, SplitInverted
<1>9. CASE Rest(q) >= 4 /\ naluSz' = U32BE(q) /\ pos' = r /\ spc' = "lengths"
  <2>1. U32BE(q) \in Nat
    <3>1. q + 3 <= Len(payload)
      BY <1>4, <1>9
    <3> QED
      BY <1>2, <1>4, <3>1, U32Nat
  <2>2. SplitTypes'
    BY <1>1, <1>2, <1>4, <1>5, <1>9, <2>1 DEF SplitTypes
  <2>3. pos' - 4 = q /\ pos' \in 5 .. Len(payload) + 1
    BY <1>4, <1>9
  <2>4. (naluSz = U32BE(pos - 4))'
    BY <1>1, <1>9, <2>3 DEF U32BE
  <2>5. Measured(pos)'
    BY <1>5, <1>9 DEF Measured
  <2>6. OnTheWay(pos - 4)'
    BY <1>7, <2>3 DEF OnTheWay
  <2>7. Lengths'
    BY <1>1, <1>2, <1>7, <1>9, <2>3, <2>4, <2>5, <2>6 DEF Lengths
  <2> QED
    BY <1>9, <2>2, <2>7 DEF SplitInv, Starting, Finding, SplitInverted
<1> QED
  BY <1>1, <1>8, <1>9, <1>q DEF LengthUnit

LEMMA LengthTooLongKeeps == SplitInv /\ LengthTooLong => SplitInv'
<1> SUFFICES ASSUME SplitInv, LengthTooLong PROVE SplitInv'
  OBVIOUS
<1>1. /\ payload' = payload /\ pos' = pos /\ zCount' = zCount /\ prevStart' = prevStart
      /\ naluSz' = naluSz /\ nalus' = nalus /\ spc = "lengths" /\ spc' = "rest" /\ naluSz > Rest(pos)
  BY DEF LengthTooLong
<1>2. /\ SplitTypes /\ Len(payload) \in Nat /\ Len(payload) >= 4
      /\ ~HasStartCode(1, Len(payload)) /\ pos \in 5 .. Len(payload) + 1
  BY <1>1, InLengths
<1>3. naluSz = U32BE(pos - 4) /\ Measured(pos) /\ OnTheWay(pos - 4)
  BY <1>1 DEF SplitInv, Lengths
<1>4. SplitTypes'
  BY <1>1, <1>2 DEF SplitTypes
<1>5. (naluSz = U32BE(pos - 4) /\ naluSz > Rest(pos))'
  BY <1>1, <1>3 DEF U32BE, Rest
<1>6. Measured(pos)'
  BY <1>1, <1>3 DEF Measured, U32BE
<1>7. OnTheWay(pos - 4)'
  BY <1>1, <1>3, SampleKept DEF OnTheWay, Alternate, Rest, U32BE
<1>8. (~HasStartCode(1, Len(payload)))'
  BY <1>1, <1>2 DEF HasStartCode, IsStartCode
<1>9. Lengths'
  BY <1>1, <1>2, <1>5, <1>6, <1>7, <1>8 DEF Lengths
<1> QED
  BY <1>1, <1>4, <1>9 DEF SplitInv, Starting, Finding, SplitInverted

\* all the bytes are units behind their lengths, but for a last length
LEMMA AllMeasured ==
    ASSUME SplitInv, spc = "rest", Rest(pos) = 0, nalus # <<>>
    PROVE  IsAvcc(nalus)
<1>1. /\ payload \in Seq(Byte) /\ Len(payload) \in Nat /\ Len(payload) >= 4 /\ pos = Len(payload) + 1
      /\ naluSz \in Nat /\ nalus \in Seq(Slices)
  <2>1. /\ payload \in Seq(Byte) /\ Len(payload) \in Nat /\ Len(payload) >= 4 /\ pos \in Nat
        /\ naluSz \in Nat /\ nalus \in Seq(Slices)
    BY InLengths
  <2> QED
    BY <2>1 DEF Rest
<1>to. PICK to : to = nalus[Len(nalus)].to
  OBVIOUS
<1>2. to \in Nat
  <2>1. Len(nalus) \in 1 .. Len(nalus)
    BY <1>1, EmptySeq, LenProperties
  <2>2. nalus[Len(nalus)] \in Slices
    BY <1>1, <2>1, ElementOfSeq
  <2> QED
    BY <1>to, <2>2 DEF Slices
<1>3. \/ naluSz = U32BE(pos - 4) /\ Measured(pos) /\ naluSz > 0
      \/ Measured(pos + 4)
  BY DEF SplitInv, Lengths
<1>4. CASE naluSz = U32BE(pos - 4) /\ Measured(pos) /\ naluSz > 0
  <2>1. pos - 4 = Len(payload) - 3
    BY <1>1
  <2>2. to + 5 = pos
    BY <1>4, <1>to DEF Measured
  <2>3. Rest(to + 1) = 4 /\ U32BE(Len(payload) - 3) > 0
    BY <1>1, <1>2, <1>4, <2>1, <2>2 DEF Rest
  <2> QED
    BY <1>4, <1>to, <2>3 DEF Measured, IsAvcc
<1>5. CASE Measured(pos + 4)
  <2>1. to + 5 = pos + 4
    BY <1>5, <1>to DEF Measured
  <2>2. Rest(to + 1) = 0
    BY <1>1, <1>2, <2>1 DEF Rest
  <2> QED
    BY <1>5, <1>to, <2>2 DEF Measured, IsAvcc
<1> QED
  BY <1>3, <1>4, <1>5

\* bytes are left over, or no unit was found
LEMMA NotMeasured ==
    ASSUME SplitInv, spc = "rest", Rest(pos) # 0 \/ nalus = <<>>
    PROVE  ~Covered
<1>1. /\ payload \in Seq(Byte) /\ Len(payload) \in Nat /\ pos \in Nat /\ pos \in 5 .. Len(payload) + 1
      /\ naluSz \in Nat
  BY InLengths
<1>2. \/ naluSz = U32BE(pos - 4) /\ OnTheWay(pos - 4) /\ naluSz > Rest(pos)
      \/ Rest(pos) < 4 /\ nalus # <<>> /\ OnTheWay(pos)
  BY DEF SplitInv, Lengths
<1>3. CASE naluSz = U32BE(pos - 4) /\ OnTheWay(pos - 4) /\ naluSz > Rest(pos)
  <2>1. /\ pos - 4 \in Nat /\ pos - 4 >= 1 /\ Rest(pos - 4) # 0
        /\ (pos - 4) + 4 + U32BE(pos - 4) > Len(payload) + 1
    BY <1>1, <1>3 DEF Rest
  <2> QED
    BY <1>1, <1>3, <2>1, NoWay
<1>4. CASE Rest(pos) < 4 /\ nalus # <<>> /\ OnTheWay(pos)
  <2>1. Rest(pos) # 0 /\ ~(Rest(pos) >= 4) /\ pos >= 1
    BY <1>1, <1>4 DEF Rest
  <2> QED
    BY <1>1, <1>4, <2>1, NoWay
<1> QED
  BY <1>2, <1>3, <1>4

LEMMA LengthsEndKeeps == SplitInv /\ LengthsEnd => SplitInv'
<1> SUFFICES ASSUME SplitInv, LengthsEnd PROVE SplitInv'
  OBVIOUS
<1>1. /\ UNCHANGED <<payload, pos, zCount, prevStart, naluSz>> /\ spc = "rest" /\ spc' = "done"
  BY DEF LengthsEnd, Return
<1>2. /\ SplitTypes /\ Len(payload) \in Nat /\ ~HasStartCode(1, Len(payload))
  BY <1>1, InLengths
<1>3. CASE Rest(pos) = 0 /\ nalus # <<>>
  <2>1. nalus' = nalus /\ typ' = "NALU_AVCC"
    BY <1>3 DEF LengthsEnd, Return
  <2>2. IsAvcc(nalus)
    BY <1>1, <1>3, AllMeasured
  <2>3. IsAvcc(nalus)'
    BY <1>1, <2>1, <2>2 DEF IsAvcc, U32BE, Rest
  <2>4. (~HasStartCode(1, Len(payload)))'
    BY <1>1, <1>2 DEF HasStartCode, IsStartCode
  <2>5. SplitInverted'
    BY <2>1, <2>3, <2>4 DEF SplitInverted
  <2>6. SplitTypes'
    BY <1>1, <1>2, <2>1 DEF SplitTypes
  <2> QED
    BY <1>1, <2>5, <2>6 DEF SplitInv, Starting, Finding, Lengths
<1>4. CASE Rest(pos) # 0 \/ nalus = <<>>
  <2>1. nalus' = <<Slice(1, Len(payload))>> /\ typ' = "NALU_RAW"
    <3>1. CASE Rest(pos) # 0
      BY <3>1 DEF LengthsEnd, Return
    <3>2. CASE Rest(pos) = 0 /\ nalus = <<>>
      <4>1. /\ nalus' = Append(nalus, Slice(1, Len(payload)))
            /\ typ' = "NALU_RAW"
        BY <3>2 DEF LengthsEnd, Return
      <4> QED
        BY <3>2, <4>1
    <3> QED
      BY <1>4, <3>1, <3>2
  <2>2. ~Covered
    BY <1>1, <1>4, NotMeasured
  <2> QED
    BY <1>1, <1>2, <2>1, <2>2, RawReturned
<1> QED
  BY <1>3, <1>4

LEMMA SplitStutter == SplitInv /\ UNCHANGED svars => SplitInv'
<1> SUFFICES ASSUME SplitInv, UNCHANGED svars PROVE SplitInv'
  OBVIOUS
<1> USE DEF svars
<1>1. SplitTypes' /\ Starting'
  BY DEF SplitInv, SplitTypes, Starting
<1>2. Finding'
  BY DEF SplitInv, Finding, Base, Zeros, SoFar, From, HasStartCode, IsStartCode
<1>3. Lengths'
  <2>1. payload' = payload /\ spc' = spc /\ pos' = pos /\ naluSz' = naluSz /\ nalus' = nalus
    OBVIOUS
  <2>2. /\ (naluSz = U32BE(pos - 4))' <=> naluSz = U32BE(pos - 4)
        /\ (naluSz > Rest(pos))' <=> naluSz > Rest(pos)
        /\ (Rest(pos) < 4)' <=> Rest(pos) < 4
    BY <2>1 DEF U32BE, Rest
  <2>3. (Measured(pos)' <=> Measured(pos)) /\ (Measured(pos + 4)' <=> Measured(pos + 4))
    BY <2>1 DEF Measured, U32BE
  <2>4. (OnTheWay(pos)' <=> OnTheWay(pos)) /\ (OnTheWay(pos - 4)' <=> OnTheWay(pos - 4))
    BY <2>1 DEF OnTheWay, Alternate, Rest, U32BE
  <2>5. HasStartCode(1, Len(payload))' <=> HasStartCode(1, Len(payload))
    BY <2>1 DEF HasStartCode, IsStartCode
  <2>6. Lengths
    BY DEF SplitInv
  <2> QED
    BY <2>1, <2>2, <2>3, <2>4, <2>5, <2>6 DEF Lengths
<1>4. SplitInverted'
  <2>1. /\ payload' = payload /\ spc' = spc /\ nalus' = nalus /\ typ' = typ
        /\ HasStartCode(1, Len(payload))' <=> HasStartCode(1, Len(payload))
    BY DEF HasStartCode, IsStartCode
  <2>2. SUFFICES ASSUME spc = "done" PROVE SplitInverted'
    BY <2>1 DEF SplitInverted
  <2>3. CASE Len(payload) >= 4 /\ HasStartCode(1, Len(payload))
    <3>1. typ = "NALU_ANNEXB" /\ \E n \in 0 .. Len(payload) : ~HasStartCode(1, n) /\ IsAnnexB(n, nalus)
      BY <2>2, <2>3 DEF SplitInv, SplitInverted
    <3>2. PICK n \in 0 .. Len(payload) : ~HasStartCode(1, n) /\ IsAnnexB(n, nalus)
      BY <3>1
    <3>3. ~HasStartCode(1, n)' /\ IsAnnexB(n, nalus)'
      BY <2>1, <3>2 DEF IsAnnexB, HasStartCode, IsStartCode
    <3> QED
      BY <2>1, <2>3, <3>1, <3>3 DEF SplitInverted
  <2>4. CASE ~(Len(payload) >= 4 /\ HasStartCode(1, Len(payload)))
    <3>1. \/ typ = "NALU_AVCC" /\ IsAvcc(nalus)
          \/ typ = "NALU_RAW" /\ nalus = <<Slice(1, Len(payload))>> /\ ~Covered
      BY <2>2, <2>4 DEF SplitInv, SplitInverted
    <3>2. IsAvcc(nalus)' <=> IsAvcc(nalus)
      BY <2>1 DEF IsAvcc, U32BE, Rest
    <3>3. Covered' <=> Covered
      BY <2>1, SampleKept
    <3>4. (nalus = <<Slice(1, Len(payload))>>)' <=> nalus = <<Slice(1, Len(payload))>>
      BY <2>1 DEF Slice
    <3> QED
      BY <2>1, <2>4, <3>1, <3>2, <3>3, <3>4 DEF SplitInverted
  <2> QED
    BY <2>3, <2>4
<1> QED
  BY <1>1, <1>2, <1>3, <1>4 DEF SplitInv

LEMMA SplitKeeps == SplitInv /\ [SplitNALUs]_svars => SplitInv'
<1> SUFFICES ASSUME SplitInv, [SplitNALUs]_svars PROVE SplitInv'
  OBVIOUS
<1>1. CASE UNCHANGED svars
  BY <1>1, SplitStutter
<1>2. CASE Short \/ Begin
  BY <1>2, ShortKeeps, BeginKeeps
<1>3. CASE Zero \/ Other \/ Indicator \/ LastUnit
  BY <1>3, ZeroKeeps, OtherKeeps, IndicatorKeeps, LastUnitKeeps
<1>4. CASE FirstLength \/ NoLength
  BY <1>4, FirstLengthKeeps, NoLengthKeeps
<1>5. CASE LengthUnit \/ LengthTooLong \/ LengthsEnd
  BY <1>5, LengthUnitKeeps, LengthTooLongKeeps, LengthsEndKeeps
<1> QED
  BY <1>1, <1>2, <1>3, <1>4, <1>5 DEF SplitNALUs

LEMMA SplitHolds == SplitSpec => []SplitInv
  BY SplitInitInv, SplitKeeps, PTL DEF SplitSpec

\* SplitNALUs inverts what the encoder wrote, whatever the bytes of the sample
\* and however many (h264_parser.go:110-187): it returns the units of a byte
\* stream as they lie between the start codes, or those that lengths measure to
\* the last byte; a sample neither describes comes back in one piece.
THEOREM SamplesComeApart == SplitSpec => []SplitInverted
<1>1. SplitInv => SplitInverted
  BY DEF SplitInv
<1> QED
  BY <1>1, SplitHolds, PTL
=============================================================================
