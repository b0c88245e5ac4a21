---------------------------- MODULE SessionProofs ----------------------------
(***************************************************************************)
(* Theorems about the two servers and their codecs, for every set of       *)
(* documents, texts and settings, every way a message may be written, and  *)
(* every way the pipe may cut the bytes.                                   *)
(***************************************************************************)
EXTENDS Session, TLAPS, SequenceTheorems, FiniteSetTheorems, WellFoundedInduction

(***************************************************************************)
(* Units, and the pieces messages are written in: a piece is a frame or a  *)
(* line, with what may come before it.                                     *)
(***************************************************************************)
Kinds == {"blank", "field", "length", "newline", "open", "lead", "trail", "end", "replaced"}
Units == [is : Kinds, n : Nat]

LEMMA TuplesAreUnits ==
  /\ \A a \in Units : <<a>> \in Seq(Units) /\ Len(<<a>>) = 1
  /\ \A a, b \in Units : <<a, b>> \in Seq(Units) /\ Len(<<a, b>>) = 2
  /\ \A a, b, c \in Units : <<a, b, c>> \in Seq(Units) /\ Len(<<a, b, c>>) = 3
  /\ \A a, b, c, d \in Units : <<a, b, c, d>> \in Seq(Units) /\ Len(<<a, b, c, d>>) = 4
OBVIOUS

LEMMA UnitIsUnit == ASSUME NEW s \in Kinds, NEW n \in Nat PROVE Unit(s, n) \in Units
BY DEF Unit, Units

LEMMA Joined ==
  ASSUME NEW S, NEW s \in Seq(S), NEW t \in Seq(S)
  PROVE  /\ s \o t \in Seq(S) /\ Len(s \o t) = Len(s) + Len(t)
         /\ \A k \in 1 .. Len(s) : (s \o t)[k] = s[k]
         /\ \A k \in 1 .. Len(t) : (s \o t)[Len(s) + k] = t[k]
OBVIOUS

\* The units of the message i itself.
BodyOf(bd, i) ==
  /\ bd \in Seq(Units) /\ Len(bd) \in {2, 4}
  /\ bd[1] = Unit("open", i) /\ bd[Len(bd)] = Unit("end", i)
  /\ \A j \in 1 .. Len(bd) :
       /\ bd[j].n = i /\ bd[j].is \in {"open", "lead", "trail", "end"}
       /\ bd[j].is = "trail" => j > 1 /\ bd[j - 1].is = "lead"

LEMMA BodyShape ==
  ASSUME NEW i \in Nat, NEW m
  PROVE  BodyOf(Body(i, m), i)
<1> DEFINE o == Unit("open", i)
           l == Unit("lead", i)
           t == Unit("trail", i)
           e == Unit("end", i)
<1>1. o \in Units /\ l \in Units /\ t \in Units /\ e \in Units BY UnitIsUnit DEF Kinds
<1>2. Body(i, m) = (<<o>> \o <<l, t>>) \o <<e>> \/ Body(i, m) = (<<o>> \o <<>>) \o <<e>>
  BY DEF Body
<1>3. /\ <<o>> \in Seq(Units) /\ Len(<<o>>) = 1 /\ <<o>>[1] = o
      /\ <<e>> \in Seq(Units) /\ Len(<<e>>) = 1 /\ <<e>>[1] = e
      /\ <<l, t>> \in Seq(Units) /\ Len(<<l, t>>) = 2 /\ <<l, t>>[1] = l /\ <<l, t>>[2] = t
      /\ <<>> \in Seq(Units) /\ Len(<<>>) = 0
  BY <1>1, TuplesAreUnits
<1>4. /\ o.is = "open" /\ l.is = "lead" /\ t.is = "trail" /\ e.is = "end"
      /\ o.n = i /\ l.n = i /\ t.n = i /\ e.n = i
  BY DEF Unit
<1> HIDE DEF o, l, t, e
<1>5. CASE Body(i, m) = (<<o>> \o <<l, t>>) \o <<e>>
  <2> DEFINE h == <<o>> \o <<l, t>>
  <2>1. h \in Seq(Units) /\ Len(h) = 3 /\ h[1] = o /\ h[2] = l /\ h[3] = t
    BY <1>3, ConcatProperties
  <2> HIDE DEF h
  <2>2. h \o <<e>> \in Seq(Units) /\ Len(h \o <<e>>) = 4
        /\ (h \o <<e>>)[1] = o /\ (h \o <<e>>)[2] = l /\ (h \o <<e>>)[3] = t /\ (h \o <<e>>)[4] = e
    <3>1. /\ \A k \in 1 .. 3 : (h \o <<e>>)[k] = h[k]
          /\ \A k \in 1 .. 1 : (h \o <<e>>)[3 + k] = <<e>>[k]
          /\ h \o <<e>> \in Seq(Units) /\ Len(h \o <<e>>) = 4
      BY <1>3, <2>1, Joined
    <3>2. (h \o <<e>>)[3 + 1] = <<e>>[1] /\ 3 + 1 = 4 BY <3>1
    <3> QED BY <1>3, <2>1, <3>1, <3>2
  <2>3. Body(i, m) = h \o <<e>> BY <1>5 DEF h
  <2>4. \A j \in 1 .. 4 : j = 1 \/ j = 2 \/ j = 3 \/ j = 4 OBVIOUS
  <2> HIDE DEF h
  <2>5. ASSUME NEW j \in 1 .. 4
        PROVE  LET x == Body(i, m)[j] IN
               /\ x.n = i /\ x.is \in {"open", "lead", "trail", "end"}
               /\ x.is = "trail" => j > 1 /\ Body(i, m)[j - 1].is = "lead"
    BY <1>4, <2>2, <2>3, <2>4
  <2>6. Body(i, m)[1] = Unit("open", i) /\ Body(i, m)[4] = Unit("end", i) BY <2>2, <2>3 DEF o, e
  <2> QED BY <2>2, <2>3, <2>5, <2>6 DEF BodyOf
<1>6. CASE Body(i, m) = (<<o>> \o <<>>) \o <<e>>
  <2>1. <<o>> \o <<>> = <<o>> BY <1>3, ConcatEmptySeq
  <2>2. <<o>> \o <<e>> \in Seq(Units) /\ Len(<<o>> \o <<e>>) = 2
        /\ (<<o>> \o <<e>>)[1] = o /\ (<<o>> \o <<e>>)[2] = e
    BY <1>3, ConcatProperties
  <2> QED BY <1>4, <1>6, <2>1, <2>2 DEF BodyOf, o, e
<1> QED BY <1>2, <1>5, <1>6
Sized(us, bd, h) ==
  /\ us \in Seq(Units) /\ Len(us) = h + Len(bd)
  /\ us[h] = Blank
  /\ \A j \in 1 .. (h - 1) : us[j] \in {Field, Unit("length", Len(bd))}
  /\ \E j \in 1 .. (h - 1) : us[j].is = "length"
  /\ \A k \in 1 .. Len(bd) : us[h + k] = bd[k]

Unsized(us, bd) ==
  /\ us \in Seq(Units) /\ Len(us) = 4 + Len(bd)
  /\ us[1] = Field /\ us[2] = Blank /\ us[3] = Unit("length", Len(bd)) /\ us[4] = Blank
  /\ \A k \in 1 .. Len(bd) : us[4 + k] = bd[k]

Lined(us, bd, h, i) ==
  /\ us \in Seq(Units) /\ Len(us) = h + Len(bd) + 1
  /\ h = 1 => us[1] = Newline(0)
  /\ h = 2 => us[1] = Field /\ us[2] = Newline(0)
  /\ \A k \in 1 .. Len(bd) : us[h + k] = bd[k]
  /\ us[h + Len(bd) + 1] = Newline(i)

LEMMA FrameShape ==
  ASSUME NEW i \in Nat, NEW m, NEW us \in Frames(i, m)
  PROVE  (\E h \in {2, 3} : Sized(us, Body(i, m), h)) \/ Unsized(us, Body(i, m))
<1> DEFINE bd == Body(i, m)
           l == Unit("length", Len(bd))
<1>0. BodyOf(bd, i) BY BodyShape
<1>1. bd \in Seq(Units) /\ Len(bd) \in Nat BY <1>0 DEF BodyOf
<1> HIDE DEF bd
<1>2. l \in Units /\ Field \in Units /\ Blank \in Units
  BY <1>1, UnitIsUnit DEF Kinds, Field, Blank
<1>3. l.is = "length" BY DEF Unit
<1>a. l = Unit("length", Len(bd)) OBVIOUS
<1> HIDE DEF l
<1>4. us \in {<<l, Blank>> \o bd, <<Field, l, Blank>> \o bd,
              <<l, Field, Blank>> \o bd, <<Field, Blank, l, Blank>> \o bd}
  BY DEF Frames, l, bd
<1>5. ASSUME NEW h \in Seq(Units)
      PROVE  LET u == h \o bd IN
             /\ u \in Seq(Units) /\ Len(u) = Len(h) + Len(bd)
             /\ \A k \in 1 .. Len(h) : u[k] = h[k]
             /\ \A k \in 1 .. Len(bd) : u[Len(h) + k] = bd[k]
  BY <1>1, Joined
<1>6. CASE us = <<l, Blank>> \o bd
  <2>1. <<l, Blank>> \in Seq(Units) /\ Len(<<l, Blank>>) = 2
        /\ <<l, Blank>>[1] = l /\ <<l, Blank>>[2] = Blank
    BY <1>2, TuplesAreUnits
  <2>2. us[1] = l /\ us[2] = Blank BY <1>5, <1>6, <2>1
  <2>3. \A j \in 1 .. (2 - 1) : j = 1 OBVIOUS
  <2>4. \E j \in 1 .. (2 - 1) : us[j].is = "length" BY <1>3, <2>2
  <2>5. us \in Seq(Units) /\ Len(us) = 2 + Len(bd) /\ \A k \in 1 .. Len(bd) : us[2 + k] = bd[k]
    BY <1>5, <1>6, <2>1
  <2>6. Sized(us, bd, 2) BY <1>a, <2>2, <2>3, <2>4, <2>5 DEF Sized
  <2> QED BY <2>6 DEF bd
<1>7. CASE us = <<Field, l, Blank>> \o bd
  <2> DEFINE t == <<Field, l, Blank>>
  <2>1. t \in Seq(Units) /\ Len(t) = 3 /\ t[1] = Field /\ t[2] = l /\ t[3] = Blank
    BY <1>2, TuplesAreUnits
  <2>2. us[1] = Field /\ us[2] = l /\ us[3] = Blank BY <1>5, <1>7, <2>1
  <2>3. \A j \in 1 .. (3 - 1) : j = 1 \/ j = 2 OBVIOUS
  <2>4. \E j \in 1 .. (3 - 1) : us[j].is = "length"
    <3>1. 2 \in 1 .. (3 - 1) OBVIOUS
    <3> QED BY <1>3, <2>2, <3>1
  <2>5. us \in Seq(Units) /\ Len(us) = 3 + Len(bd) /\ \A k \in 1 .. Len(bd) : us[3 + k] = bd[k]
    BY <1>5, <1>7, <2>1
  <2>6. Sized(us, bd, 3) BY <1>a, <2>2, <2>3, <2>4, <2>5 DEF Sized
  <2> QED BY <2>6 DEF bd
<1>8. CASE us = <<l, Field, Blank>> \o bd
  <2> DEFINE t == <<l, Field, Blank>>
  <2>1. t \in Seq(Units) /\ Len(t) = 3 /\ t[1] = l /\ t[2] = Field /\ t[3] = Blank
    BY <1>2, TuplesAreUnits
  <2>2. us[1] = l /\ us[2] = Field /\ us[3] = Blank BY <1>5, <1>8, <2>1
  <2>3. \A j \in 1 .. (3 - 1) : j = 1 \/ j = 2 OBVIOUS
  <2>4. \E j \in 1 .. (3 - 1) : us[j].is = "length"
    <3>1. 1 \in 1 .. (3 - 1) OBVIOUS
    <3> QED BY <1>3, <2>2, <3>1
  <2>5. us \in Seq(Units) /\ Len(us) = 3 + Len(bd) /\ \A k \in 1 .. Len(bd) : us[3 + k] = bd[k]
    BY <1>5, <1>8, <2>1
  <2>6. Sized(us, bd, 3) BY <1>a, <2>2, <2>3, <2>4, <2>5 DEF Sized
  <2> QED BY <2>6 DEF bd
<1>9. CASE us = <<Field, Blank, l, Blank>> \o bd
  <2> DEFINE t == <<Field, Blank, l, Blank>>
  <2>1. t \in Seq(Units) /\ Len(t) = 4 /\ t[1] = Field /\ t[2] = Blank /\ t[3] = l /\ t[4] = Blank
    BY <1>2, TuplesAreUnits
  <2>2. us[1] = Field /\ us[2] = Blank /\ us[3] = l /\ us[4] = Blank BY <1>5, <1>9, <2>1
  <2>3. Unsized(us, bd) BY <1>5, <1>9, <2>1, <2>2 DEF Unsized, l
  <2> QED BY <2>3 DEF bd
<1> QED BY <1>4, <1>6, <1>7, <1>8, <1>9

LEMMA LineShape ==
  ASSUME NEW i \in Nat, NEW m, NEW us \in Lines(i, m)
  PROVE  \E h \in {0, 1, 2} : Lined(us, Body(i, m), h, i)
<1> DEFINE bd == Body(i, m)
           n == Newline(i)
           z == Newline(0)
           line == bd \o <<n>>
<1>0. BodyOf(bd, i) BY BodyShape
<1>1. bd \in Seq(Units) /\ Len(bd) \in Nat BY <1>0 DEF BodyOf
<1>2. us \in {line, <<z>> \o line, <<Field, z>> \o line} BY DEF Lines
<1> HIDE DEF bd
<1>3. n \in Units /\ z \in Units /\ Field \in Units
  BY UnitIsUnit DEF Kinds, Field, Newline
<1> HIDE DEF n, z
<1>4. line \in Seq(Units) /\ Len(line) = Len(bd) + 1
      /\ (\A k \in 1 .. Len(bd) : line[k] = bd[k]) /\ line[Len(bd) + 1] = n
  <2>1. <<n>> \in Seq(Units) /\ Len(<<n>>) = 1 /\ <<n>>[1] = n BY <1>3, TuplesAreUnits
  <2>2. \A k \in 1 .. 1 : line[Len(bd) + k] = <<n>>[k] BY <1>1, <2>1, Joined
  <2>3. line[Len(bd) + 1] = <<n>>[1] BY <2>2
  <2> QED BY <1>1, <2>1, <2>3, Joined
<1> HIDE DEF line
<1>5. CASE us = line
  <2>1. Lined(us, bd, 0, i) BY <1>1, <1>4, <1>5 DEF Lined, n
  <2> QED BY <2>1 DEF bd
<1>6. CASE us = <<z>> \o line
  <2>1. <<z>> \in Seq(Units) /\ Len(<<z>>) = 1 /\ <<z>>[1] = z BY <1>3, TuplesAreUnits
  <2>2. us \in Seq(Units) /\ Len(us) = 1 + Len(line) /\ us[1] = z
        /\ \A k \in 1 .. Len(line) : us[1 + k] = line[k]
    BY <1>4, <1>6, <2>1, Joined
  <2>3. us[1 + (Len(bd) + 1)] = n /\ 1 + (Len(bd) + 1) = 1 + Len(bd) + 1 BY <1>1, <1>4, <2>2
  <2>4. Lined(us, bd, 1, i) BY <1>1, <1>4, <2>2, <2>3 DEF Lined, n, z
  <2> QED BY <2>4 DEF bd
<1>7. CASE us = <<Field, z>> \o line
  <2>1. <<Field, z>> \in Seq(Units) /\ Len(<<Field, z>>) = 2
        /\ <<Field, z>>[1] = Field /\ <<Field, z>>[2] = z
    BY <1>3, TuplesAreUnits
  <2>2. us \in Seq(Units) /\ Len(us) = 2 + Len(line) /\ us[1] = Field /\ us[2] = z
        /\ \A k \in 1 .. Len(line) : us[2 + k] = line[k]
    BY <1>4, <1>7, <2>1, Joined
  <2>3. us[2 + (Len(bd) + 1)] = n /\ 2 + (Len(bd) + 1) = 2 + Len(bd) + 1 BY <1>1, <1>4, <2>2
  <2>4. Lined(us, bd, 2, i) BY <1>1, <1>4, <2>2, <2>3 DEF Lined, n, z
  <2> QED BY <2>4 DEF bd
<1> QED BY <1>2, <1>5, <1>6, <1>7

Around(us, bd, h, e) ==
  /\ us \in Seq(Units) /\ Len(us) = h + Len(bd) + e /\ e \in {0, 1}
  /\ \A k \in 1 .. h : /\ us[k].is \in {"field", "length", "blank", "newline"}
                       /\ us[k].is = "length" \/ us[k].n = 0
  /\ \A k \in 1 .. Len(bd) : us[h + k] = bd[k]

PieceOf(us, i) ==
  /\ us \in Seq(Units) /\ Len(us) >= 3
  /\ us[Len(us)].n = i /\ us[Len(us)].is \in {"end", "newline"}
  /\ \A k \in 1 .. Len(us) :
       /\ us[k].is # "replaced"
       /\ us[k].is = "length" \/ us[k].n \in {0, i}
       /\ us[k].is = "trail" => k > 1 /\ us[k - 1].is = "lead"

LEMMA AtLeastThree ==
  ASSUME NEW h \in Nat, NEW n \in {2, 4}, NEW e \in {0, 1}, h + e > 0
  PROVE  h + n + e >= 3
OBVIOUS

LEMMA AroundPiece ==
  ASSUME NEW i \in Nat, NEW us, NEW bd, NEW h \in 0 .. 4, NEW e,
         BodyOf(bd, i), Around(us, bd, h, e), h + e > 0, e = 1 => us[Len(us)] = Newline(i)
  PROVE  PieceOf(us, i)
<1>1. Len(us) \in Nat /\ Len(us) = h + Len(bd) + e /\ Len(bd) \in {2, 4} /\ e \in {0, 1}
  BY DEF Around, BodyOf
<1>a. \A k \in 1 .. h : us[k].is \in {"field", "length", "blank", "newline"}
                        /\ (us[k].is = "length" \/ us[k].n = 0)
  BY DEF Around
<1>b. \A k \in 1 .. Len(bd) : us[h + k] = bd[k] BY DEF Around
<1>2. ASSUME NEW k \in 1 .. Len(us)
      PROVE  \/ k <= h
             \/ k > h /\ k - h \in 1 .. Len(bd) /\ us[k] = bd[k - h]
             \/ e = 1 /\ k = Len(us)
  <2>1. CASE k - h \in 1 .. Len(bd)
    <3>1. us[h + (k - h)] = bd[k - h] BY <2>1, <1>b
    <3> QED BY <2>1, <3>1, <1>1, SMTT(30)
  <2> QED BY <1>1, <2>1, SMTT(30)
<1>3. e = 1 => us[Len(us)].is = "newline" /\ us[Len(us)].n = i BY DEF Newline, Unit
<1>4. ASSUME NEW k \in 1 .. Len(us)
      PROVE  /\ us[k].is # "replaced"
             /\ us[k].is = "length" \/ us[k].n \in {0, i}
             /\ us[k].is = "trail" => k > 1 /\ us[k - 1].is = "lead"
  <2>1. CASE k <= h
    <3>1. k \in 1 .. h BY <1>1, <2>1
    <3>2. us[k].is \in {"field", "length", "blank", "newline"} /\ (us[k].is = "length" \/ us[k].n = 0)
      BY <1>a, <3>1
    <3> QED BY <3>2
  <2>2. CASE k > h /\ k - h \in 1 .. Len(bd) /\ us[k] = bd[k - h]
    <3>1. /\ bd[k - h].n = i /\ bd[k - h].is \in {"open", "lead", "trail", "end"}
          /\ bd[k - h].is = "trail" => k - h > 1 /\ bd[k - h - 1].is = "lead"
      BY <2>2 DEF BodyOf
    <3>2. k - h > 1 => us[h + (k - h - 1)] = bd[k - h - 1]
      <4>1. k - h > 1 => k - h - 1 \in 1 .. Len(bd) BY <1>1, <2>2
      <4> QED BY <1>b, <4>1
    <3> QED BY <2>2, <3>1, <3>2, <1>1
  <2>3. CASE e = 1 /\ k = Len(us) BY <1>3, <2>3
  <2> QED BY <1>2, <2>1, <2>2, <2>3
<1>5. us[Len(us)].n = i /\ us[Len(us)].is \in {"end", "newline"}
  <2>1. CASE e = 0
    <3>1. us[h + Len(bd)] = bd[Len(bd)] BY <1>1, <1>b
    <3>2. bd[Len(bd)].n = i /\ bd[Len(bd)].is = "end" BY DEF BodyOf, Unit
    <3> QED BY <1>1, <2>1, <3>1, <3>2
  <2> QED BY <1>1, <1>3, <2>1
<1>c. us \in Seq(Units) BY DEF Around
<1>6. us \in Seq(Units) /\ Len(us) >= 3
  <2>1. h \in Nat OBVIOUS
  <2> QED BY <1>1, <1>c, <2>1, AtLeastThree
<1> QED BY <1>4, <1>5, <1>6 DEF PieceOf

LEMMA WrittenShape ==
  ASSUME NEW i \in Nat, NEW m, NEW us \in Written(i, m), wire \in {"frame", "line"}
  PROVE  /\ BodyOf(Body(i, m), i)
         /\ wire = "frame" =>
              (\E h \in {2, 3} : Sized(us, Body(i, m), h)) \/ Unsized(us, Body(i, m))
         /\ wire = "line" => \E h \in {0, 1, 2} : Lined(us, Body(i, m), h, i)
  BY BodyShape, FrameShape, LineShape DEF Written

LEMMA WrittenPiece ==
  ASSUME NEW i \in Nat, NEW m, NEW us \in Written(i, m), wire \in {"frame", "line"}
  PROVE  PieceOf(us, i)
<1> DEFINE bd == Body(i, m)
<1>1. BodyOf(bd, i) BY WrittenShape
<1>2. Field.is = "field" /\ Field.n = 0 /\ Blank.is = "blank" /\ Blank.n = 0
      /\ Newline(0).is = "newline" /\ Newline(0).n = 0 /\ Unit("length", Len(bd)).is = "length"
  BY DEF Field, Blank, Newline, Unit
<1>3. (\E h \in {2, 3} : Sized(us, bd, h)) \/ Unsized(us, bd)
      \/ \E h \in {0, 1, 2} : Lined(us, bd, h, i)
  BY WrittenShape
<1>4. Len(bd) \in Nat BY <1>1 DEF BodyOf
<1> HIDE DEF bd
<1>5. ASSUME NEW h \in {2, 3}, Sized(us, bd, h) PROVE PieceOf(us, i)
  <2>1. \A k \in 1 .. h : k \in 1 .. (h - 1) \/ k = h OBVIOUS
  <2>2. Around(us, bd, h, 0) BY <1>2, <1>4, <1>5, <2>1 DEF Around, Sized
  <2>3. h \in 0 .. 4 /\ h + 0 > 0 /\ 0 # 1 OBVIOUS
  <2> QED BY <1>1, <2>2, <2>3, AroundPiece
<1>6. CASE Unsized(us, bd)
  <2>1. \A k \in 1 .. 4 : k = 1 \/ k = 2 \/ k = 3 \/ k = 4 OBVIOUS
  <2>2. Around(us, bd, 4, 0) BY <1>2, <1>4, <1>6, <2>1 DEF Around, Unsized
  <2> QED BY <1>1, <2>2, AroundPiece
<1>7. ASSUME NEW h \in {0, 1, 2}, Lined(us, bd, h, i) PROVE PieceOf(us, i)
  <2>1. \A k \in 1 .. h : (h = 1 /\ k = 1) \/ (h = 2 /\ (k = 1 \/ k = 2)) OBVIOUS
  <2>2. Around(us, bd, h, 1) BY <1>2, <1>4, <1>7, <2>1 DEF Around, Lined
  <2>3. us[Len(us)] = Newline(i) BY <1>4, <1>7 DEF Lined
  <2> QED BY <1>1, <2>2, <2>3, AroundPiece
<1> QED BY <1>3, <1>5, <1>6, <1>7

LEMMA UsualWritten ==
  ASSUME NEW i, NEW m, wire \in {"frame", "line"}
  PROVE  Usual(i, m) \in Written(i, m)
  BY DEF Usual, Written, Frames, Lines

(***************************************************************************)
(* The buffer and then the pipe are one stream; it is cut into the         *)
(* messages not yet handled, which is what Laid says: message i ends at    *)
(* b[i], and what is between b[i - 1] and b[i] spells it.                  *)
(***************************************************************************)
Done == Len(handled)
All == Len(sent)
Total == Len(buffer) + Len(pipe)
Stream(j) == IF j <= Len(buffer) THEN buffer[j] ELSE pipe[j - Len(buffer)]

\* x is y, or what is left of half a character of it.
Like(x, y) ==
  \/ x = y
  \/ wire = "line" /\ y.is \in {"lead", "trail"} /\ x = Unit("replaced", y.n)

Spells(at, units) == \A j \in 1 .. Len(units) : Like(Stream(at + j), units[j])

\* Nothing in the stream after b[i] is of a message up to i.
Laid(b) ==
  /\ b \in [Done .. All -> Nat] /\ b[Done] = 0 /\ b[All] = Total
  /\ \A i, j \in Done .. All : i < j => b[i] < b[j]
  /\ \A i \in (Done + 1) .. All : \E units \in Written(i, sent[i]) :
       b[i] = b[i - 1] + Len(units) /\ Spells(b[i - 1], units)
  /\ \A i \in Done .. All : \A k \in 1 .. Total :
       k > b[i] => Stream(k).is = "length" \/ Stream(k).n \in {0} \union ((i + 1) .. All)

CodecOK ==
  /\ wire \in {"frame", "line"}
  /\ buffer \in Seq(Units) /\ pipe \in Seq(Units)
  /\ Done \in Nat /\ All \in Nat /\ Done <= All

LEMMA MinIs ==
  ASSUME NEW S \in SUBSET Nat, NEW x \in S, \A y \in S : x <= y
  PROVE  Min(S) = x
<1>1. Min(S) \in S /\ \A y \in S : Min(S) <= y BY DEF Min
<1>2. Min(S) \in Nat /\ x \in Nat BY <1>1
<1>3. Min(S) <= x /\ x <= Min(S) BY <1>1
<1> QED BY <1>2, <1>3

LEMMA MaxIs ==
  ASSUME NEW S \in SUBSET Nat, NEW x \in S, \A y \in S : y <= x
  PROVE  Max(S) = x
<1>1. Max(S) \in S /\ \A y \in S : y <= Max(S) BY DEF Max
<1>2. Max(S) \in Nat /\ x \in Nat BY <1>1
<1>3. Max(S) <= x /\ x <= Max(S) BY <1>1
<1> QED BY <1>2, <1>3

LEMMA Least ==
  ASSUME NEW S \in SUBSET Nat, S # {}
  PROVE  \E x \in S : \A y \in S : x <= y
<1>1. PICK x \in S : \A y \in S : <<y, x>> \notin OpToRel(<, Nat)
  BY NatLessThanWellFounded, WFMin
<1>2. \A y \in S : ~(y < x) BY <1>1 DEF OpToRel
<1> QED BY <1>2

LEMMA MinIn ==
  ASSUME NEW S \in SUBSET Nat, S # {}
  PROVE  Min(S) \in S /\ \A y \in S : Min(S) <= y
BY Least, MinIs

LEMMA MaxIn ==
  ASSUME NEW n \in Nat, NEW S \in SUBSET (1 .. n), S # {}
  PROVE  Max(S) \in S /\ \A y \in S : y <= Max(S)
<1> DEFINE T == {n - y : y \in S}
<1>1. T \in SUBSET Nat /\ T # {}
  <2>1. \A y \in S : n - y \in Nat OBVIOUS
  <2> QED BY <2>1
<1>2. PICK z \in T : \A y \in T : z <= y BY <1>1, Least
<1>3. PICK x \in S : z = n - x BY <1>2
<1>4. \A y \in S : y <= x
  <2> TAKE y \in S
  <2>1. n - y \in T OBVIOUS
  <2>2. z <= n - y BY <1>2, <2>1
  <2> QED BY <1>3, <2>2
<1>5. Max(S) = x BY <1>4, MaxIs
<1> QED BY <1>4, <1>5

LEMMA SpelledIs ==
  ASSUME NEW f \in 1 .. All, All \in Nat, NEW units \in Seq(Units),
         Len(units) = Len(Body(f, sent[f])),
         \A k \in 1 .. Len(units) : LET u == Body(f, sent[f])[k] IN
           units[k] = u \/ (u.is \in {"lead", "trail"} /\ units[k] = Unit("replaced", u.n))
  PROVE  /\ Spelled(units) = {f}
         /\ (\A k \in 1 .. Len(units) : units[k].is # "replaced") => Read(units, f) = sent[f].texts
<1> DEFINE bd == Body(f, sent[f])
<1>1. f \in Nat BY DEF All
<1>2. BodyOf(bd, f) BY <1>1, BodyShape
<1>3. /\ Len(bd) \in {2, 4} /\ bd[1] = Unit("open", f)
      /\ \A j \in 1 .. Len(bd) : bd[j].n = f
  BY <1>2 DEF BodyOf
<1>4. f \in Spelled(units) BY <1>3 DEF Spelled, All
<1>5. ASSUME NEW i \in Spelled(units) PROVE i = f
  <2>1. i \in 1 .. Len(sent) /\ i \in Nat BY DEF Spelled, All
  <2>2. BodyOf(Body(i, sent[i]), i) BY <2>1, BodyShape
  <2>3. Body(i, sent[i])[1] = Unit("open", i) BY <2>2 DEF BodyOf
  <2>4. 1 \in 1 .. Len(units) BY <1>3
  <2>5. units[1] \in {Unit("open", i), Unit("replaced", i)} BY <2>3, <2>4 DEF Spelled
  <2>6. units[1] = Unit("open", f)
    <3>1. bd[1] = Unit("open", f) /\ bd[1].is = "open" BY <1>3 DEF Unit
    <3> QED BY <2>4, <3>1
  <2> QED BY <2>5, <2>6 DEF Unit
<1> QED BY <1>4, <1>5 DEF Read

LEMMA SpelledNone ==
  ASSUME NEW units, Len(units) \in {0, 1}, All \in Nat
  PROVE  Spelled(units) = {}
<1>1. SUFFICES ASSUME NEW i \in Spelled(units) PROVE FALSE OBVIOUS
<1>2. i \in Nat /\ Len(units) = Len(Body(i, sent[i])) BY DEF Spelled, All
<1>3. BodyOf(Body(i, sent[i]), i) BY <1>2, BodyShape
<1> QED BY <1>2, <1>3, SMTT(30) DEF BodyOf

(***************************************************************************)
(* Where a message ends, and how much of the buffer a turn takes.          *)
(***************************************************************************)
Mark == IF wire = "frame" THEN "blank" ELSE "newline"

LEMMA EndIs ==
  ASSUME CodecOK, NEW p \in Nat \ {0},
         \A j \in 1 .. (p - 1) : j <= Len(buffer) => buffer[j].is # Mark,
         p <= Len(buffer) => buffer[p].is = Mark
  PROVE  /\ Ends # {} <=> p <= Len(buffer)
         /\ p <= Len(buffer) => End = p
<1>1. Len(buffer) \in Nat BY DEF CodecOK
<1>2. Ends = {j \in 1 .. Len(buffer) : buffer[j].is = Mark} BY DEF Ends, Mark
<1>3. \A j \in Ends : j \in 1 .. Len(buffer) /\ p <= j
  <2> TAKE j \in Ends
  <2>1. j \in 1 .. Len(buffer) /\ buffer[j].is = Mark BY <1>2
  <2>2. ~(j \in 1 .. (p - 1)) BY <2>1
  <2> QED BY <1>1, <2>1, <2>2
<1>4. p <= Len(buffer) => p \in Ends BY <1>1, <1>2
<1>5. Ends \in SUBSET Nat BY <1>3
<1>6. p <= Len(buffer) => End = p BY <1>3, <1>4, <1>5, MinIs DEF End
<1>7. Ends # {} => p <= Len(buffer) BY <1>1, <1>3
<1> QED BY <1>4, <1>6, <1>7

LEMMA Fronts ==
  ASSUME CodecOK, NEW us \in Seq(Units), Spells(0, us), NEW j \in 1 .. Len(us), j <= Len(buffer)
  PROVE  Like(buffer[j], us[j])
<1>1. 0 + j = j /\ Stream(j) = buffer[j] BY DEF Stream, CodecOK
<1>2. Like(Stream(0 + j), us[j]) BY DEF Spells
<1> QED BY <1>1, <1>2

LEMMA SizedTurn ==
  ASSUME CodecOK, wire = "frame", NEW bd \in Seq(Units), NEW h \in {2, 3}, NEW us,
         Sized(us, bd, h), Spells(0, us)
  PROVE  /\ Ready <=> Len(us) <= Len(buffer)
         /\ Ready => Taken = bd /\ Rest = SubSeq(buffer, Len(us) + 1, Len(buffer))
<1>1. us \in Seq(Units) /\ Len(us) = h + Len(bd) /\ Len(bd) \in Nat /\ Len(buffer) \in Nat
      /\ buffer \in Seq(Units)
  BY DEF Sized, CodecOK
<1>2. \A j \in 1 .. Len(us) : j <= Len(buffer) => buffer[j] = us[j]
  BY <1>1, Fronts DEF Like
<1>3. us[h] = Blank /\ Blank.is = "blank" BY DEF Sized, Blank, Unit
<1>4. ASSUME NEW j \in 1 .. (h - 1)
      PROVE  us[j].is # "blank" /\ (us[j].is = "length" => us[j].n = Len(bd))
  <2>1. us[j] \in {Field, Unit("length", Len(bd))} BY DEF Sized
  <2> QED BY <2>1 DEF Field, Unit
<1>5. (Ends # {} <=> h <= Len(buffer)) /\ (h <= Len(buffer) => End = h)
  <2>1. h \in Nat \ {0} OBVIOUS
  <2>2. \A j \in 1 .. (h - 1) : j <= Len(buffer) => buffer[j].is # Mark
    <3> TAKE j \in 1 .. (h - 1)
    <3>1. j \in 1 .. Len(us) BY <1>1
    <3> QED BY <1>2, <1>4, <3>1 DEF Mark
  <2>3. h <= Len(buffer) => buffer[h].is = Mark
    <3>1. h \in 1 .. Len(us) BY <1>1
    <3> QED BY <1>2, <1>3, <3>1 DEF Mark
  <2> QED BY <2>1, <2>2, <2>3, EndIs
<1>6. CASE ~(h <= Len(buffer))
  <2>1. ~Ready BY <1>5, <1>6 DEF Ready
  <2>2. ~(Len(us) <= Len(buffer)) BY <1>1, <1>6
  <2> QED BY <2>1, <2>2
<1>7. CASE h <= Len(buffer)
  <2>1. End = h /\ Ends # {} BY <1>5, <1>7
  <2>2. Lengths = {j \in 1 .. h : buffer[j].is = "length"} BY <2>1 DEF Lengths
  <2>3. \A j \in 1 .. h : buffer[j] = us[j] /\ (j \in 1 .. (h - 1) \/ j = h) BY <1>1, <1>2, <1>7
  <2>4. Lengths # {}
    <3>1. PICK j \in 1 .. (h - 1) : us[j].is = "length" BY DEF Sized
    <3>2. j \in 1 .. h BY <3>1
    <3> QED BY <2>2, <2>3, <3>1, <3>2
  <2>5. Min(Lengths) \in Lengths
    <3>1. Lengths \in SUBSET Nat BY <2>2
    <3> QED BY <2>4, <3>1, MinIn
  <2>6. Size = Len(bd)
    <3> DEFINE j == Min(Lengths)
    <3>1. j \in 1 .. h /\ buffer[j].is = "length" BY <2>2, <2>5
    <3>2. us[j].is = "length" /\ j # h BY <1>3, <2>3, <3>1
    <3>3. j \in 1 .. (h - 1) BY <2>3, <3>1, <3>2
    <3>4. us[j].n = Len(bd) BY <1>4, <3>2, <3>3
    <3> QED BY <2>3, <3>1, <3>4 DEF Size
  <2>7. Ready <=> Len(us) <= Len(buffer) BY <1>1, <2>1, <2>4, <2>6 DEF Ready
  <2>8. ASSUME Ready PROVE Taken = bd
    <3>1. Taken = SubSeq(buffer, h + 1, h + Len(bd)) BY <2>1, <2>4, <2>6 DEF Taken
    <3>2. \A k \in (h + 1) .. (h + Len(bd)) : buffer[k] = us[k] /\ buffer[k] \in Units
      BY <1>1, <1>2, <2>7, <2>8
    <3>3. /\ SubSeq(buffer, h + 1, h + Len(bd)) \in Seq(Units)
          /\ Len(SubSeq(buffer, h + 1, h + Len(bd)))
               = IF h + 1 <= h + Len(bd) THEN (h + Len(bd)) - (h + 1) + 1 ELSE 0
          /\ \A k \in 1 .. (h + Len(bd)) - (h + 1) + 1 :
               SubSeq(buffer, h + 1, h + Len(bd))[k] = buffer[(h + 1) + k - 1]
      BY <1>1, <3>2, SubSeqProperties
    <3>4. Len(Taken) = Len(bd) BY <1>1, <3>1, <3>3
    <3>5. \A k \in 1 .. Len(bd) : Taken[k] = bd[k]
      <4> TAKE k \in 1 .. Len(bd)
      <4>1. Taken[k] = buffer[(h + 1) + k - 1] /\ (h + 1) + k - 1 = h + k BY <1>1, <3>1, <3>3
      <4>2. buffer[h + k] = us[h + k] BY <1>1, <3>2
      <4>3. us[h + k] = bd[k] BY DEF Sized
      <4> QED BY <4>1, <4>2, <4>3
    <3> QED BY <3>1, <3>3, <3>4, <3>5, SeqEqual
  <2>9. Ready => Rest = SubSeq(buffer, Len(us) + 1, Len(buffer))
    BY <1>1, <2>1, <2>4, <2>6 DEF Rest
  <2> QED BY <2>7, <2>8, <2>9
<1> QED BY <1>6, <1>7

LEMMA UnsizedTurn ==
  ASSUME CodecOK, wire = "frame", NEW bd \in Seq(Units), NEW us, Unsized(us, bd), Spells(0, us)
  PROVE  /\ Ready <=> 2 <= Len(buffer)
         /\ Ready => Taken = <<>> /\ Rest = SubSeq(buffer, 3, Len(buffer))
<1>1. us \in Seq(Units) /\ Len(us) = 4 + Len(bd) /\ Len(bd) \in Nat /\ Len(buffer) \in Nat
  BY DEF Unsized, CodecOK
<1>2. \A j \in 1 .. Len(us) : j <= Len(buffer) => buffer[j] = us[j]
  BY <1>1, Fronts DEF Like
<1>3. us[1].is = "field" /\ us[2].is = "blank" BY DEF Unsized, Field, Blank, Unit
<1>4. (Ends # {} <=> 2 <= Len(buffer)) /\ (2 <= Len(buffer) => End = 2)
  <2>1. \A j \in 1 .. (2 - 1) : j = 1 OBVIOUS
  <2>2. 1 \in 1 .. Len(us) /\ 2 \in 1 .. Len(us) BY <1>1
  <2>3. \A j \in 1 .. (2 - 1) : j <= Len(buffer) => buffer[j].is # Mark
    BY <1>2, <1>3, <2>1, <2>2 DEF Mark
  <2>4. 2 <= Len(buffer) => buffer[2].is = Mark BY <1>2, <1>3, <2>2 DEF Mark
  <2> QED BY <2>3, <2>4, EndIs
<1>5. 2 <= Len(buffer) => Lengths = {}
  <2>1. \A j \in 1 .. 2 : j = 1 \/ j = 2 OBVIOUS
  <2>2. 1 \in 1 .. Len(us) /\ 2 \in 1 .. Len(us) BY <1>1
  <2>3. 2 <= Len(buffer) => \A j \in 1 .. 2 : buffer[j].is # "length"
    BY <1>1, <1>2, <1>3, <2>1, <2>2
  <2> QED BY <1>4, <2>3 DEF Lengths
<1> QED BY <1>4, <1>5 DEF Ready, Taken, Rest

LEMMA LinedTurn ==
  ASSUME CodecOK, wire = "line", NEW i \in Nat, NEW bd, BodyOf(bd, i),
         NEW h \in {0, 1, 2}, NEW us, Lined(us, bd, h, i), Spells(0, us)
  PROVE  LET p == IF h = 0 THEN Len(bd) + 1 ELSE h IN
         /\ Ready <=> p <= Len(buffer)
         /\ Ready => Taken = SubSeq(buffer, 1, p - 1) /\ Rest = SubSeq(buffer, p + 1, Len(buffer))
<1> DEFINE p == IF h = 0 THEN Len(bd) + 1 ELSE h
<1>1. us \in Seq(Units) /\ Len(us) = h + Len(bd) + 1 /\ Len(bd) \in Nat /\ Len(buffer) \in Nat
  BY DEF Lined, CodecOK, BodyOf
<1>2. \A j \in 1 .. Len(us) : j <= Len(buffer) => Like(buffer[j], us[j])
  BY <1>1, Fronts
<1>3. p \in Nat \ {0} /\ p <= Len(us) BY <1>1
<1>4. us[p].is = "newline" BY DEF Lined, Newline, Unit
<1>5. ASSUME NEW j \in 1 .. (p - 1) PROVE us[j].is # "newline"
  <2>1. CASE h = 0
    <3>1. j \in 1 .. Len(bd) BY <1>1, <2>1
    <3>2. us[0 + j] = bd[j] /\ 0 + j = j BY <2>1, <3>1 DEF Lined
    <3> QED BY <3>1, <3>2 DEF BodyOf
  <2>2. CASE h = 2
    <3>1. j = 1 BY <2>2
    <3> QED BY <2>2, <3>1 DEF Lined, Field, Unit
  <2> QED BY <2>1, <2>2
<1> HIDE DEF p
<1>6. (Ends # {} <=> p <= Len(buffer)) /\ (p <= Len(buffer) => End = p)
  <2>1. \A j \in 1 .. (p - 1) : j <= Len(buffer) => buffer[j].is # Mark
    <3> TAKE j \in 1 .. (p - 1)
    <3>1. j \in 1 .. Len(us) BY <1>1, <1>3
    <3>2. us[j].is # "newline" BY <1>5
    <3>3. ASSUME j <= Len(buffer) PROVE buffer[j].is # "newline"
      <4>1. Like(buffer[j], us[j]) BY <1>2, <3>1, <3>3
      <4>2. Unit("replaced", us[j].n).is = "replaced" BY DEF Unit
      <4> QED BY <3>2, <4>1, <4>2 DEF Like
    <3> QED BY <3>3 DEF Mark
  <2>2. p <= Len(buffer) => buffer[p].is = Mark
    <3>1. p \in 1 .. Len(us) BY <1>1, <1>3
    <3> QED BY <1>2, <1>4, <3>1 DEF Mark, Like
  <2> QED BY <1>3, <2>1, <2>2, EndIs
<1>7. /\ Ready <=> p <= Len(buffer)
      /\ Ready => Taken = SubSeq(buffer, 1, p - 1) /\ Rest = SubSeq(buffer, p + 1, Len(buffer))
  BY <1>6 DEF Ready, Taken, Rest
<1> QED BY <1>7 DEF p

(***************************************************************************)
(* A piece written as usual is whole, and no other is a message.           *)
(***************************************************************************)
LEMMA UsualFrame ==
  ASSUME NEW i \in Nat, NEW m, wire = "frame"
  PROVE  LET us == Usual(i, m)
             bd == Body(i, m)
         IN  /\ us \in Seq(Units) /\ Len(us) = 2 + Len(bd)
             /\ us[1] = Unit("length", Len(bd)) /\ us[2] = Blank
             /\ \A k \in 1 .. Len(bd) : us[2 + k] = bd[k]
<1> DEFINE bd == Body(i, m)
           l == Unit("length", Len(bd))
<1>1. BodyOf(bd, i) BY BodyShape
<1>2. Usual(i, m) = <<l, Blank>> \o bd BY DEF Usual
<1>3. bd \in Seq(Units) /\ Len(bd) \in Nat BY <1>1 DEF BodyOf
<1>4. l \in Units /\ Blank \in Units BY <1>3, UnitIsUnit DEF Kinds, Blank
<1> HIDE DEF bd, l
<1>5. <<l, Blank>> \in Seq(Units) /\ Len(<<l, Blank>>) = 2
      /\ <<l, Blank>>[1] = l /\ <<l, Blank>>[2] = Blank
  BY <1>4, TuplesAreUnits
<1>6. LET us == <<l, Blank>> \o bd IN
      /\ us \in Seq(Units) /\ Len(us) = 2 + Len(bd) /\ us[1] = l /\ us[2] = Blank
      /\ \A k \in 1 .. Len(bd) : us[2 + k] = bd[k]
  BY <1>3, <1>5, Joined
<1> QED BY <1>2, <1>6 DEF l, bd

LEMMA UsualLine ==
  ASSUME NEW i \in Nat, NEW m, wire = "line"
  PROVE  LET us == Usual(i, m)
             bd == Body(i, m)
         IN  /\ us \in Seq(Units) /\ Len(us) = Len(bd) + 1
             /\ us[Len(bd) + 1] = Newline(i)
             /\ \A k \in 1 .. Len(bd) : us[k] = bd[k]
<1> DEFINE bd == Body(i, m)
           n == Newline(i)
<1>1. BodyOf(bd, i) BY BodyShape
<1>2. Usual(i, m) = bd \o <<n>> BY DEF Usual
<1>3. bd \in Seq(Units) /\ Len(bd) \in Nat BY <1>1 DEF BodyOf
<1>4. n \in Units BY UnitIsUnit DEF Kinds, Newline
<1> HIDE DEF bd, n
<1>5. <<n>> \in Seq(Units) /\ Len(<<n>>) = 1 /\ <<n>>[1] = n BY <1>4, TuplesAreUnits
<1>6. LET us == bd \o <<n>> IN
      /\ us \in Seq(Units) /\ Len(us) = Len(bd) + 1
      /\ \A k \in 1 .. Len(bd) : us[k] = bd[k]
      /\ \A k \in 1 .. 1 : us[Len(bd) + k] = <<n>>[k]
  BY <1>3, <1>5, Joined
<1>7. (bd \o <<n>>)[Len(bd) + 1] = n BY <1>5, <1>6
<1> QED BY <1>2, <1>6, <1>7 DEF n, bd

\* What a turn of the codec does with the first piece.
Whole(us, f) ==
  /\ Len(us) <= Len(buffer)
  /\ Spelled(Taken) = {f}
  /\ Rest = SubSeq(buffer, Len(us) + 1, Len(buffer))
  /\ (\A k \in 1 .. Len(buffer) : buffer[k].is # "replaced") => Read(Taken, f) = sent[f].texts

Passed(us, f) ==
  /\ Spelled(Taken) = {}
  /\ \E c \in 1 .. Len(buffer), vs \in Written(f, sent[f]) :
       /\ vs \in Seq(Units) /\ Len(us) = c + Len(vs) /\ Spells(c, vs)
       /\ Rest = SubSeq(buffer, c + 1, Len(buffer))

LEMMA Later ==
  ASSUME NEW us \in Seq(Units), NEW vs \in Seq(Units), NEW c \in Nat, Len(us) = c + Len(vs),
         \A k \in 1 .. Len(vs) : vs[k] = us[c + k], Spells(0, us)
  PROVE  Spells(c, vs)
<1>1. SUFFICES ASSUME NEW k \in 1 .. Len(vs) PROVE Like(Stream(c + k), vs[k]) BY DEF Spells
<1>2. c + k \in 1 .. Len(us) /\ 0 + (c + k) = c + k OBVIOUS
<1>3. Like(Stream(0 + (c + k)), us[c + k]) BY <1>2 DEF Spells
<1> QED BY <1>2, <1>3

LEMMA FrameTurn ==
  ASSUME CodecOK, wire = "frame", NEW f \in 1 .. All, NEW us \in Written(f, sent[f]), Spells(0, us)
  PROVE  /\ Ready => Whole(us, f) \/ Passed(us, f)
         /\ Len(us) <= Len(buffer) => Ready
<1> DEFINE bd == Body(f, sent[f])
<1>1. f \in Nat /\ All \in Nat /\ Len(buffer) \in Nat BY DEF CodecOK
<1>2. BodyOf(bd, f) /\ ((\E h \in {2, 3} : Sized(us, bd, h)) \/ Unsized(us, bd))
  BY <1>1, WrittenShape
<1>3. bd \in Seq(Units) /\ Len(bd) \in Nat /\ \A k \in 1 .. Len(bd) : bd[k].is # "replaced"
  <2>1. \A k \in 1 .. Len(bd) : bd[k].is \in {"open", "lead", "trail", "end"} BY <1>2 DEF BodyOf
  <2> QED BY <1>2, <2>1 DEF BodyOf
<1>4. ASSUME NEW h \in {2, 3}, Sized(us, bd, h)
      PROVE  (Ready => Whole(us, f)) /\ (Len(us) <= Len(buffer) => Ready)
  <2>1. /\ Ready <=> Len(us) <= Len(buffer)
        /\ Ready => Taken = bd /\ Rest = SubSeq(buffer, Len(us) + 1, Len(buffer))
    BY <1>3, <1>4, SizedTurn
  <2>2. Spelled(bd) = {f} /\ Read(bd, f) = sent[f].texts
    BY <1>1, <1>3, SpelledIs
  <2> QED BY <2>1, <2>2 DEF Whole
<1>5. CASE Unsized(us, bd)
  <2> DEFINE vs == Usual(f, sent[f])
  <2>1. /\ Ready <=> 2 <= Len(buffer)
        /\ Ready => Taken = <<>> /\ Rest = SubSeq(buffer, 3, Len(buffer))
    BY <1>3, <1>5, UnsizedTurn
  <2>2. vs \in Seq(Units) /\ Len(vs) = 2 + Len(bd)
        /\ vs[1] = Unit("length", Len(bd)) /\ vs[2] = Blank
        /\ \A k \in 1 .. Len(bd) : vs[2 + k] = bd[k]
    BY <1>1, UsualFrame
  <2>3. us \in Seq(Units) /\ Len(us) = 4 + Len(bd) /\ us[3] = Unit("length", Len(bd)) /\ us[4] = Blank
        /\ \A k \in 1 .. Len(bd) : us[4 + k] = bd[k]
    BY <1>5 DEF Unsized
  <2>4. vs \in Written(f, sent[f]) BY UsualWritten
  <2> HIDE DEF vs, bd
  <2>5. ASSUME NEW k \in 1 .. Len(vs) PROVE vs[k] = us[2 + k]
    <3>1. CASE k = 1 BY <2>2, <2>3, <3>1
    <3>2. CASE k = 2 BY <2>2, <2>3, <3>2
    <3>3. CASE k > 2
      <4>1. k - 2 \in 1 .. Len(bd) BY <1>3, <2>2, <3>3
      <4>2. vs[2 + (k - 2)] = bd[k - 2] /\ us[4 + (k - 2)] = bd[k - 2] BY <2>2, <2>3, <4>1
      <4>3. 2 + (k - 2) = k /\ 4 + (k - 2) = 2 + k OBVIOUS
      <4> QED BY <4>2, <4>3
    <3> QED BY <3>1, <3>2, <3>3
  <2>6. Len(us) = 2 + Len(vs) BY <1>3, <2>2, <2>3
  <2>7. Spells(2, vs) BY <2>2, <2>3, <2>5, <2>6, Later
  <2>8. Spelled(<<>>) = {} BY <1>1, SpelledNone
  <2>9. ASSUME Ready PROVE Passed(us, f)
    <3>1. 2 \in 1 .. Len(buffer) /\ 2 + 1 = 3 BY <1>1, <2>1, <2>9
    <3> QED BY <2>1, <2>2, <2>4, <2>6, <2>7, <2>8, <2>9, <3>1 DEF Passed
  <2>10. Len(us) <= Len(buffer) => Ready BY <1>1, <1>3, <2>1, <2>3
  <2> QED BY <2>9, <2>10
<1> QED BY <1>2, <1>4, <1>5

LEMMA LineTurn ==
  ASSUME CodecOK, wire = "line", NEW f \in 1 .. All, NEW us \in Written(f, sent[f]), Spells(0, us)
  PROVE  /\ Ready => Whole(us, f) \/ Passed(us, f)
         /\ Len(us) <= Len(buffer) => Ready
<1> DEFINE bd == Body(f, sent[f])
<1>1. f \in Nat /\ All \in Nat /\ Len(buffer) \in Nat /\ buffer \in Seq(Units) BY DEF CodecOK
<1>2. BodyOf(bd, f) BY <1>1, WrittenShape
<1>3. PICK h \in {0, 1, 2} : Lined(us, bd, h, f) BY <1>1, WrittenShape
<1>4. bd \in Seq(Units) /\ Len(bd) \in Nat BY <1>2 DEF BodyOf
<1>5. us \in Seq(Units) /\ Len(us) = h + Len(bd) + 1 /\ us[h + Len(bd) + 1] = Newline(f)
      /\ \A k \in 1 .. Len(bd) : us[h + k] = bd[k]
  BY <1>3 DEF Lined
<1> DEFINE p == IF h = 0 THEN Len(bd) + 1 ELSE h
<1>6. /\ Ready <=> p <= Len(buffer)
      /\ Ready => Taken = SubSeq(buffer, 1, p - 1) /\ Rest = SubSeq(buffer, p + 1, Len(buffer))
  BY <1>1, <1>2, <1>3, LinedTurn
<1>7. Len(us) <= Len(buffer) => Ready BY <1>1, <1>4, <1>5, <1>6
<1>8. CASE h = 0
  <2> DEFINE n == Len(bd)
             t == SubSeq(buffer, 1, n)
  <2>1. p = n + 1 /\ p - 1 = n /\ p = Len(us) BY <1>4, <1>5, <1>8
  <2>2. ASSUME Ready PROVE Whole(us, f)
    <3>1. n + 1 <= Len(buffer) /\ Taken = t /\ Rest = SubSeq(buffer, Len(us) + 1, Len(buffer))
      BY <1>6, <2>1, <2>2
    <3>2. t \in Seq(Units) /\ Len(t) = n /\ \A k \in 1 .. n : t[k] = buffer[k]
      <4>1. \A k \in 1 .. n : buffer[k] \in Units BY <1>1, <1>4, <3>1
      <4>2. t \in Seq(Units) /\ Len(t) = (IF 1 <= n THEN n - 1 + 1 ELSE 0)
            /\ \A k \in 1 .. n - 1 + 1 : t[k] = buffer[1 + k - 1]
        BY <1>4, <4>1, SubSeqProperties
      <4> QED BY <1>4, <4>2
    <3>3. \A k \in 1 .. n : t[k] = bd[k] \/ (bd[k].is \in {"lead", "trail"} /\ t[k] = Unit("replaced", bd[k].n))
      <4> TAKE k \in 1 .. n
      <4>1. k \in 1 .. Len(us) /\ k <= Len(buffer) /\ 0 + k = k BY <1>1, <1>4, <1>5, <1>8, <3>1
      <4>2. us[k] = bd[k] BY <1>5, <1>8, <4>1
      <4>3. Like(buffer[k], us[k]) BY <1>5, <4>1, Fronts
      <4> QED BY <3>2, <4>2, <4>3 DEF Like
    <3>4. Spelled(t) = {f}
          /\ ((\A k \in 1 .. Len(t) : t[k].is # "replaced") => Read(t, f) = sent[f].texts)
      BY <1>1, <3>2, <3>3, SpelledIs, ZenonT(30)
    <3>5. (\A k \in 1 .. Len(buffer) : buffer[k].is # "replaced") =>
             \A k \in 1 .. Len(t) : t[k].is # "replaced"
      BY <1>1, <1>4, <3>1, <3>2
    <3>6. Len(us) <= Len(buffer) BY <2>1, <3>1
    <3> QED BY <3>1, <3>4, <3>5, <3>6 DEF Whole
  <2> QED BY <1>7, <2>2
<1>9. CASE h # 0
  <2> DEFINE vs == Usual(f, sent[f])
  <2>1. p = h /\ h \in Nat BY <1>9
  <2>2. vs \in Seq(Units) /\ Len(vs) = Len(bd) + 1 /\ vs[Len(bd) + 1] = Newline(f)
        /\ \A k \in 1 .. Len(bd) : vs[k] = bd[k]
    BY <1>1, UsualLine
  <2>3. vs \in Written(f, sent[f]) BY UsualWritten
  <2> HIDE DEF vs, bd
  <2>4. ASSUME NEW k \in 1 .. Len(vs) PROVE vs[k] = us[h + k]
    <3>1. CASE k \in 1 .. Len(bd) BY <1>5, <2>2, <3>1
    <3>2. CASE k = Len(bd) + 1
      <4>1. h + k = h + Len(bd) + 1 BY <1>4, <3>2
      <4> QED BY <1>5, <2>2, <3>2, <4>1
    <3> QED BY <1>4, <2>2, <3>1, <3>2
  <2>5. Len(us) = h + Len(vs) BY <1>4, <1>5, <2>2
  <2>6. Spells(h, vs) BY <1>5, <2>1, <2>2, <2>4, <2>5, Later
  <2>7. ASSUME Ready PROVE Passed(us, f)
    <3>1. h \in 1 .. Len(buffer) /\ Taken = SubSeq(buffer, 1, h - 1)
          /\ Rest = SubSeq(buffer, h + 1, Len(buffer))
      BY <1>1, <1>6, <1>9, <2>1, <2>7
    <3>2. Len(Taken) \in {0, 1}
      <4>1. \A k \in 1 .. h - 1 : buffer[k] \in Units BY <1>1, <3>1
      <4>2. Len(SubSeq(buffer, 1, h - 1)) = IF 1 <= h - 1 THEN (h - 1) - 1 + 1 ELSE 0
        BY <2>1, <4>1, SubSeqProperties
      <4> QED BY <3>1, <4>2
    <3>3. Spelled(Taken) = {} BY <1>1, <3>2, SpelledNone
    <3> QED BY <2>2, <2>3, <2>5, <2>6, <3>1, <3>3 DEF Passed
  <2> QED BY <1>7, <2>7
<1> QED BY <1>8, <1>9

(***************************************************************************)
(* The first piece of the stream: ready, or waiting for what is in the     *)
(* pipe.                                                                   *)
(***************************************************************************)
LEMMA FirstPiece ==
  ASSUME CodecOK, NEW b, Laid(b), Done < All
  PROVE  \E us \in Written(Done + 1, sent[Done + 1]) :
           us \in Seq(Units) /\ Len(us) >= 3 /\ b[Done + 1] = Len(us) /\ Spells(0, us)
<1>1. Done + 1 \in (Done + 1) .. All /\ (Done + 1) - 1 = Done /\ Done + 1 \in Nat BY DEF CodecOK
<1>2. PICK us \in Written(Done + 1, sent[Done + 1]) :
        b[Done + 1] = b[Done] + Len(us) /\ Spells(b[Done], us)
  BY <1>1 DEF Laid
<1>3. PieceOf(us, Done + 1) BY <1>1, WrittenPiece DEF CodecOK
<1>4. us \in Seq(Units) /\ Len(us) >= 3 /\ Len(us) \in Nat BY <1>3 DEF PieceOf
<1>5. b[Done] = 0 BY DEF Laid
<1> QED BY <1>2, <1>4, <1>5

LEMMA ReadyTurn ==
  ASSUME CodecOK, NEW b, Laid(b), Ready
  PROVE  /\ Done < All
         /\ \E us \in Written(Done + 1, sent[Done + 1]) :
              /\ us \in Seq(Units) /\ Len(us) >= 3 /\ b[Done + 1] = Len(us) /\ Spells(0, us)
              /\ Whole(us, Done + 1) \/ Passed(us, Done + 1)
<1>1. Done < All
  <2>1. SUFFICES ASSUME Done = All PROVE FALSE BY DEF CodecOK
  <2>2. Total = 0 BY <2>1 DEF Laid
  <2>3. Len(buffer) = 0 BY <2>2 DEF Total, CodecOK
  <2>4. Ends = {} BY <2>3 DEF Ends
  <2> QED BY <2>4 DEF Ready
<1>2. PICK us \in Written(Done + 1, sent[Done + 1]) :
        us \in Seq(Units) /\ Len(us) >= 3 /\ b[Done + 1] = Len(us) /\ Spells(0, us)
  BY <1>1, FirstPiece
<1>3. Done + 1 \in 1 .. All BY <1>1 DEF CodecOK
<1>4. Whole(us, Done + 1) \/ Passed(us, Done + 1)
  BY <1>2, <1>3, FrameTurn, LineTurn DEF CodecOK
<1> QED BY <1>1, <1>2, <1>4

LEMMA Waits ==
  ASSUME CodecOK, NEW b, Laid(b), ~Ready, Done < All
  PROVE  Len(buffer) < b[Done + 1]
<1>1. PICK us \in Written(Done + 1, sent[Done + 1]) :
        us \in Seq(Units) /\ Len(us) >= 3 /\ b[Done + 1] = Len(us) /\ Spells(0, us)
  BY FirstPiece
<1>2. Done + 1 \in 1 .. All /\ Len(buffer) \in Nat BY DEF CodecOK
<1>3. ~(Len(us) <= Len(buffer)) BY <1>1, <1>2, FrameTurn, LineTurn DEF CodecOK
<1> QED BY <1>1, <1>2, <1>3

LEMMA DeliveredAre ==
  ASSUME CodecOK, NEW b, Laid(b), ~Ready
  PROVE  Delivered = 1 .. Done
<1>1. /\ Len(buffer) \in Nat /\ Len(pipe) \in Nat /\ Done \in Nat /\ All \in Nat /\ Done <= All
      /\ Total = Len(buffer) + Len(pipe) /\ All = Len(sent)
  BY DEF CodecOK, Total, All
<1>2. ASSUME NEW i \in 1 .. Done PROVE i \in Delivered
  <2>1. i \in 1 .. Len(sent) BY <1>1
  <2>2. ASSUME NEW k \in 1 .. Len(pipe) PROVE pipe[k].n # i \/ pipe[k].is = "length"
    <3> DEFINE q == Len(buffer) + k
    <3>1. q \in 1 .. Total /\ ~(q <= Len(buffer)) /\ q - Len(buffer) = k BY <1>1
    <3>2. Stream(q) = pipe[k] BY <3>1 DEF Stream
    <3>3. Done \in Done .. All /\ q > b[Done] BY <1>1, <3>1 DEF Laid
    <3>4. Stream(q).is = "length" \/ Stream(q).n \in {0} \union ((Done + 1) .. All)
      BY <3>1, <3>3 DEF Laid
    <3> QED BY <1>1, <3>2, <3>4
  <2> QED BY <2>1, <2>2 DEF Delivered
<1>3. ASSUME NEW i \in Delivered, i \notin 1 .. Done PROVE FALSE
  <2>1. i \in (Done + 1) .. All /\ i \in Nat /\ Done < All BY <1>1, <1>3 DEF Delivered
  <2>2. PICK us \in Written(i, sent[i]) : b[i] = b[i - 1] + Len(us) /\ Spells(b[i - 1], us)
    BY <2>1 DEF Laid
  <2>3. PieceOf(us, i) BY <2>1, WrittenPiece DEF CodecOK
  <2>4. Len(us) \in Nat /\ Len(us) >= 3 /\ us[Len(us)].n = i /\ us[Len(us)].is \in {"end", "newline"}
    BY <2>3 DEF PieceOf
  <2>5. b[i] \in Nat /\ b[i - 1] \in Nat
    <3>1. i \in Done .. All /\ i - 1 \in Done .. All BY <1>1, <2>1
    <3> QED BY <3>1 DEF Laid
  <2>6. Stream(b[i]) = us[Len(us)]
    <3>1. Like(Stream(b[i - 1] + Len(us)), us[Len(us)]) BY <2>2, <2>4 DEF Spells
    <3> QED BY <2>2, <2>4, <3>1 DEF Like
  <2>7. Len(buffer) < b[i]
    <3>1. Len(buffer) < b[Done + 1] BY <2>1, Waits
    <3>2. CASE i = Done + 1 BY <3>1, <3>2
    <3>3. CASE i # Done + 1
      <4>1. Done + 1 \in Done .. All /\ i \in Done .. All /\ Done + 1 < i BY <1>1, <2>1, <3>3
      <4>2. b[Done + 1] < b[i] /\ b[Done + 1] \in Nat BY <4>1 DEF Laid
      <4> QED BY <1>1, <2>5, <3>1, <4>2
    <3> QED BY <3>2, <3>3
  <2>8. b[i] <= Total
    <3>1. i \in Done .. All /\ All \in Done .. All BY <1>1, <2>1
    <3>2. i < All => b[i] < b[All] BY <3>1 DEF Laid
    <3>3. b[All] = Total BY DEF Laid
    <3>4. i = All \/ i < All BY <1>1, <2>1
    <3> QED BY <1>1, <2>5, <3>2, <3>3, <3>4
  <2> DEFINE k == b[i] - Len(buffer)
  <2>9. k \in 1 .. Len(pipe) /\ ~(b[i] <= Len(buffer)) BY <1>1, <2>5, <2>7, <2>8
  <2>10. pipe[k] = us[Len(us)] BY <2>6, <2>9 DEF Stream
  <2> QED BY <2>4, <2>9, <2>10, <1>3 DEF Delivered
<1> QED BY <1>2, <1>3

\* A step that takes c units off the buffer.
Dropped(c) ==
  /\ c \in 1 .. Len(buffer)
  /\ buffer' = SubSeq(buffer, c + 1, Len(buffer))
  /\ UNCHANGED <<wire, sent, pipe>>

LEMMA DroppedShifts ==
  ASSUME CodecOK, NEW c, Dropped(c)
  PROVE  /\ buffer' \in Seq(Units) /\ Len(buffer') = Len(buffer) - c
         /\ \A k \in 1 .. Len(buffer') : buffer'[k] = buffer[c + k]
         /\ Total' = Total - c
         /\ \A j \in 1 .. Total' : Stream(j)' = Stream(c + j)
<1>1. Len(buffer) \in Nat /\ Len(pipe) \in Nat /\ buffer \in Seq(Units) /\ c \in 1 .. Len(buffer)
      /\ buffer' = SubSeq(buffer, c + 1, Len(buffer)) /\ pipe' = pipe
  BY DEF CodecOK, Dropped
<1>2. \A k \in (c + 1) .. Len(buffer) : buffer[k] \in Units BY <1>1
<1>3. /\ buffer' \in Seq(Units)
      /\ Len(buffer') = IF c + 1 <= Len(buffer) THEN Len(buffer) - (c + 1) + 1 ELSE 0
      /\ \A k \in 1 .. Len(buffer) - (c + 1) + 1 : buffer'[k] = buffer[(c + 1) + k - 1]
  BY <1>1, <1>2, SubSeqProperties
<1>4. Len(buffer') = Len(buffer) - c BY <1>1, <1>3
<1>5. \A k \in 1 .. Len(buffer') : buffer'[k] = buffer[c + k]
  <2> TAKE k \in 1 .. Len(buffer')
  <2>1. k \in 1 .. Len(buffer) - (c + 1) + 1 /\ (c + 1) + k - 1 = c + k BY <1>1, <1>4
  <2> QED BY <1>3, <2>1
<1>6. Total' = Total - c BY <1>1, <1>4 DEF Total
<1>7. ASSUME NEW j \in 1 .. Total' PROVE Stream(j)' = Stream(c + j)
  <2>1. Stream(j)' = IF j <= Len(buffer') THEN buffer'[j] ELSE pipe[j - Len(buffer')]
    BY <1>1 DEF Stream
  <2>2. j \in Nat /\ j >= 1 BY <1>1, <1>6 DEF Total
  <2>3. CASE j <= Len(buffer')
    <3>1. c + j <= Len(buffer) /\ j \in 1 .. Len(buffer') BY <1>1, <1>4, <2>2, <2>3
    <3> QED BY <1>5, <2>1, <2>3, <3>1 DEF Stream
  <2>4. CASE ~(j <= Len(buffer'))
    <3>1. c \in Nat /\ Len(buffer) \in Nat /\ j \in Nat BY <1>1, <2>2
    <3>2. ~(j <= Len(buffer) - c) BY <1>4, <2>4
    <3>3. ~(c + j <= Len(buffer)) BY <3>1, <3>2
    <3>4. j - (Len(buffer) - c) = (c + j) - Len(buffer) BY <3>1
    <3> QED BY <1>4, <2>1, <2>4, <3>3, <3>4 DEF Stream
  <2> QED BY <2>3, <2>4
<1> QED BY <1>3, <1>4, <1>5, <1>6, <1>7

(***************************************************************************)
(* What a turn takes is dropped from the stream, and the rest is still laid. *)
(***************************************************************************)
LEMMA SameForms ==
  ASSUME wire' = wire
  PROVE  /\ \A i, m : Written(i, m)' = Written(i, m)
         /\ \A x, y : Like(x, y)' <=> Like(x, y)
BY DEF Written, Like

LEMMA DropTo ==
  ASSUME CodecOK, NEW b, Laid(b), NEW c, Dropped(c), NEW e \in Done .. All, Done' = e,
         b[e] <= c, \A i \in (e + 1) .. All : c < b[i], e = All => c = Total,
         e < All => \E us \in Written(e + 1, sent[e + 1]) :
                      b[e + 1] = c + Len(us) /\ us \in Seq(Units) /\ Spells(c, us)
  PROVE  \E d : Laid(d)'
<1>0. PICK d : d = [i \in e .. All |-> IF i = e THEN 0 ELSE b[i] - c] OBVIOUS
<1> DEFINE S == [j \in 1 .. Total' |-> Stream(j)']
           Fit(at, us) == \A j \in 1 .. Len(us) : Like(S[at + j], us[j])
<1>1. /\ Len(buffer) \in Nat /\ Len(pipe) \in Nat /\ Done \in Nat /\ All \in Nat /\ e \in Nat
      /\ c \in Nat /\ c >= 1 /\ e <= All /\ Done <= e /\ Total \in Nat
  BY DEF CodecOK, Dropped, Total
<1>2. wire' = wire /\ sent' = sent /\ All' = All /\ Done' = e BY DEF Dropped, All
<1>3. /\ Total' = Total - c
      /\ \A j \in 1 .. Total' : Stream(j)' = Stream(c + j)
  BY DroppedShifts
<1>4. /\ \A i \in Done .. All : b[i] \in Nat
      /\ \A i, j \in Done .. All : i < j => b[i] < b[j]
      /\ b[All] = Total
      /\ \A i \in (Done + 1) .. All : \E units \in Written(i, sent[i]) :
           b[i] = b[i - 1] + Len(units) /\ Spells(b[i - 1], units)
      /\ \A i \in Done .. All : \A k \in 1 .. Total :
           k > b[i] => Stream(k).is = "length" \/ Stream(k).n \in {0} \union ((i + 1) .. All)
  BY DEF Laid
<1>5. \A i \in e .. All : /\ i \in Done .. All /\ b[i] \in Nat /\ b[i] <= Total
                          /\ i # e => c < b[i] /\ i \in (e + 1) .. All
  <2> TAKE i \in e .. All
  <2>1. i \in Done .. All /\ All \in Done .. All /\ b[i] \in Nat BY <1>1, <1>4
  <2>2. i < All => b[i] < b[All] BY <1>4, <2>1
  <2>3. b[i] <= Total BY <1>1, <1>4, <2>1, <2>2
  <2>4. i # e => i \in (e + 1) .. All BY <1>1
  <2> QED BY <2>1, <2>3, <2>4
<1>6. /\ d \in [e .. All -> Nat]
      /\ \A i \in e .. All : d[i] = IF i = e THEN 0 ELSE b[i] - c
  <2>1. ASSUME NEW i \in e .. All PROVE (IF i = e THEN 0 ELSE b[i] - c) \in Nat
    BY <1>1, <1>5
  <2> QED BY <1>0, <2>1
<1>7. d[e] = 0 /\ d[All] = Total - c
  <2>1. e \in e .. All /\ All \in e .. All BY <1>1
  <2> QED BY <1>1, <1>4, <1>6, <2>1, SMTT(30)
<1>8. ASSUME NEW i \in e .. All, NEW j \in e .. All, i < j PROVE d[i] < d[j]
  <2>1. j # e /\ c < b[j] /\ b[j] \in Nat /\ b[i] \in Nat BY <1>1, <1>5, <1>8, SMTT(30)
  <2>2. d[j] = b[j] - c BY <1>6, <2>1
  <2>3. CASE i = e BY <1>1, <1>7, <2>1, <2>2, <2>3
  <2>4. CASE i # e
    <3>1. b[i] < b[j] /\ d[i] = b[i] - c BY <1>4, <1>5, <1>6, <1>8, <2>4
    <3> QED BY <1>1, <2>1, <2>2, <2>4, <3>1
  <2> QED BY <2>3, <2>4
<1>9. ASSUME NEW at \in Nat, NEW us, Len(us) \in Nat, c + at + Len(us) <= Total, Spells(c + at, us)
      PROVE  Fit(at, us)
  <2>1. SUFFICES ASSUME NEW j \in 1 .. Len(us) PROVE Like(S[at + j], us[j]) OBVIOUS
  <2>2. at + j \in 1 .. Total' /\ c + (at + j) = (c + at) + j BY <1>1, <1>3, <1>9
  <2>3. S[at + j] = Stream((c + at) + j) BY <1>3, <2>2
  <2> QED BY <1>9, <2>3 DEF Spells
<1>10. ASSUME NEW i \in (e + 1) .. All
       PROVE  \E us \in Written(i, sent[i]) :
                Len(us) \in Nat /\ d[i] = d[i - 1] + Len(us) /\ Fit(d[i - 1], us)
  <2>1. i \in e .. All /\ i - 1 \in e .. All /\ i # e /\ i \in Nat BY <1>1
  <2>2. b[i] \in Nat /\ c < b[i] /\ b[i] <= Total /\ b[i - 1] \in Nat BY <1>5, <2>1
  <2>3. d[i] = b[i] - c BY <1>6, <2>1
  <2>4. CASE i = e + 1
    <3>1. PICK us \in Written(i, sent[i]) :
            b[i] = c + Len(us) /\ us \in Seq(Units) /\ Spells(c, us)
      BY <1>1, <2>1, <2>4
    <3>2. Len(us) \in Nat BY <3>1
    <3>3. i - 1 = e /\ d[i - 1] = 0 BY <1>1, <1>7, <2>4
    <3>4. c + 0 = c BY <1>1
    <3>5. Fit(0, us) BY <1>1, <1>9, <2>2, <3>1, <3>2, <3>4
    <3>6. d[i] = 0 + Len(us) BY <1>1, <2>3, <3>1, <3>2
    <3> QED BY <3>2, <3>3, <3>5, <3>6
  <2>5. CASE i # e + 1
    <3>1. i \in (Done + 1) .. All BY <1>1, <2>1
    <3>2. PICK us \in Written(i, sent[i]) : b[i] = b[i - 1] + Len(us) /\ Spells(b[i - 1], us)
      BY <1>4, <3>1
    <3>3. Len(us) \in Nat
      <4>1. PieceOf(us, i) BY <2>1, WrittenPiece DEF CodecOK
      <4> QED BY <4>1 DEF PieceOf
    <3>4. i - 1 # e BY <1>1, <2>1, <2>5
    <3>5. d[i - 1] = b[i - 1] - c /\ c < b[i - 1] BY <1>5, <1>6, <2>1, <3>4
    <3>6. d[i - 1] \in Nat /\ c + d[i - 1] = b[i - 1]
      <4>1. c \in Nat /\ b[i - 1] \in Nat BY <1>1, <2>2
      <4> QED BY <3>5, <4>1
    <3>7. Fit(d[i - 1], us)
      <4>1. c + d[i - 1] + Len(us) <= Total BY <1>1, <2>2, <3>2, <3>3, <3>6
      <4>2. Spells(c + d[i - 1], us) BY <3>2, <3>6
      <4> QED BY <1>9, <3>3, <3>6, <4>1, <4>2
    <3>8. d[i] = d[i - 1] + Len(us) BY <1>1, <2>2, <2>3, <3>2, <3>3, <3>5
    <3> QED BY <3>2, <3>3, <3>7, <3>8
  <2> QED BY <2>4, <2>5
<1>11. ASSUME NEW i \in e .. All, NEW k \in 1 .. Total', k > d[i]
       PROVE  Stream(k)'.is = "length" \/ Stream(k)'.n \in {0} \union ((i + 1) .. All)
  <2>1. c + k \in 1 .. Total /\ Stream(k)' = Stream(c + k) BY <1>1, <1>3
  <2>2. c + k > b[i]
    <3>1. CASE i = e BY <1>1, <1>3, <1>5, <1>7, <1>11, <3>1, SMTT(30)
    <3>2. CASE i # e
      <4>1. d[i] = b[i] - c /\ b[i] \in Nat BY <1>5, <1>6, <3>2
      <4> QED BY <1>1, <1>3, <1>11, <4>1
    <3> QED BY <3>1, <3>2
  <2> QED BY <1>4, <1>5, <2>1, <2>2
<1>12. Laid(d)'
  <2>1. \A i \in (e + 1) .. All : \E us \in Written(i, sent[i])' :
          d[i] = d[i - 1] + Len(us) /\ Spells(d[i - 1], us)'
    <3> TAKE i \in (e + 1) .. All
    <3>1. PICK us \in Written(i, sent[i]) :
            Len(us) \in Nat /\ d[i] = d[i - 1] + Len(us) /\ Fit(d[i - 1], us)
      BY <1>10
    <3>2. d[i] <= Total' /\ d[i - 1] \in Nat
      <4>1. i \in e .. All /\ i - 1 \in e .. All /\ All \in e .. All BY <1>1
      <4>2. i < All => d[i] < d[All] BY <1>8, <4>1
      <4>3. d[i] \in Nat /\ d[i - 1] \in Nat /\ d[All] = Total' BY <1>3, <1>6, <1>7, <4>1
      <4>4. i = All \/ i < All BY <1>1
      <4> QED BY <1>6, <4>1, <4>2, <4>3, <4>4
    <3>3. ASSUME NEW j \in 1 .. Len(us) PROVE Like(Stream(d[i - 1] + j)', us[j])
      <4> HIDE DEF S, Fit
      <4>1. d[i - 1] + j \in 1 .. Total'
        <5>1. Total' \in Int BY <1>1, <1>3
        <5>2. d[i - 1] \in Nat /\ Len(us) \in Nat /\ d[i - 1] + Len(us) <= Total' BY <3>1, <3>2
        <5> QED BY <5>1, <5>2
      <4>2. S[d[i - 1] + j] = Stream(d[i - 1] + j)' BY <4>1 DEF S, Stream
      <4> QED BY <3>1, <4>2 DEF Fit
    <3>4. Spells(d[i - 1], us)' BY <1>2, <3>3, SameForms DEF Spells
    <3>5. us \in Written(i, sent[i])' BY <1>2, SameForms
    <3> QED BY <3>1, <3>4, <3>5
  <2>2. /\ d \in [Done' .. All' -> Nat] /\ d[Done'] = 0 /\ d[All'] = Total'
        /\ \A i, j \in Done' .. All' : i < j => d[i] < d[j]
        /\ \A i \in (Done' + 1) .. All' : \E us \in Written(i, sent[i])' :
             d[i] = d[i - 1] + Len(us) /\ Spells(d[i - 1], us)'
        /\ \A i \in Done' .. All' : \A k \in 1 .. Total' :
             k > d[i] => Stream(k)'.is = "length" \/ Stream(k)'.n \in {0} \union ((i + 1) .. All')
    BY <1>2, <1>3, <1>6, <1>7, <1>8, <1>11, <2>1
  <2> QED BY <2>2 DEF Laid
<1> QED BY <1>12

(***************************************************************************)
(* A chunk moves from the pipe to the buffer: the stream stays like it was. *)
(***************************************************************************)
LEMMA FunctionIsSeq ==
  ASSUME NEW S, NEW n \in Nat, NEW f \in [1 .. n -> S]
  PROVE  f \in Seq(S) /\ Len(f) = n
OBVIOUS

LEMMA LikeLike ==
  ASSUME NEW x, NEW y, NEW z, Like(x, y), Like(y, z)
  PROVE  Like(x, z)
<1>1. Unit("replaced", z.n).is = "replaced" BY DEF Unit
<1> QED BY <1>1 DEF Like

LEMMA DecodedIs ==
  ASSUME NEW chunk \in Seq(Units)
  PROVE  /\ Decoded(chunk) \in Seq(Units) /\ Len(Decoded(chunk)) = Len(chunk)
         /\ \A k \in 1 .. Len(chunk) : Like(Decoded(chunk)[k], chunk[k])
         /\ \A k \in 1 .. Len(chunk) : Decoded(chunk)[k] # chunk[k] =>
              wire = "line" /\ ((k = 1 /\ chunk[k].is = "trail") \/ (k = Len(chunk) /\ chunk[k].is = "lead"))
<1> DEFINE D == Decoded(chunk)
           Cut(k) == wire = "line" /\ ((chunk[k].is = "trail" /\ k = 1)
                                       \/ (chunk[k].is = "lead" /\ k = Len(chunk)))
<1>1. Len(chunk) \in Nat /\ \A k \in 1 .. Len(chunk) : chunk[k] \in Units OBVIOUS
<1>2. D = [k \in 1 .. Len(chunk) |-> IF Cut(k) THEN Unit("replaced", chunk[k].n) ELSE chunk[k]]
  BY DEF Decoded
<1> HIDE DEF D
<1>3. ASSUME NEW k \in 1 .. Len(chunk)
      PROVE  /\ D[k] \in Units /\ Like(D[k], chunk[k])
             /\ D[k] # chunk[k] =>
                  wire = "line" /\ ((k = 1 /\ chunk[k].is = "trail") \/ (k = Len(chunk) /\ chunk[k].is = "lead"))
  <2>1. chunk[k] \in Units /\ chunk[k].n \in Nat BY <1>1 DEF Units
  <2>2. Unit("replaced", chunk[k].n) \in Units BY <2>1, UnitIsUnit DEF Kinds
  <2>3. CASE Cut(k)
    <3>1. D[k] = Unit("replaced", chunk[k].n) BY <1>2, <2>3
    <3>2. wire = "line" /\ ((k = 1 /\ chunk[k].is = "trail") \/ (k = Len(chunk) /\ chunk[k].is = "lead"))
      BY <2>3
    <3>3. Like(D[k], chunk[k]) BY <3>1, <3>2 DEF Like
    <3> QED BY <2>2, <3>1, <3>2, <3>3
  <2>4. CASE ~Cut(k)
    <3>1. D[k] = chunk[k] BY <1>2, <2>4
    <3> QED BY <2>1, <3>1 DEF Like
  <2> QED BY <2>3, <2>4
<1>4. D \in [1 .. Len(chunk) -> Units]
  <2>1. \A k \in 1 .. Len(chunk) : D[k] \in Units BY <1>3
  <2>2. D = [k \in 1 .. Len(chunk) |-> D[k]] BY <1>2
  <2> HIDE DEF Cut
  <2> QED BY <2>1, <2>2
<1>5. D \in Seq(Units) /\ Len(D) = Len(chunk) BY <1>1, <1>4, FunctionIsSeq
<1> QED BY <1>3, <1>5 DEF D

\* A step that brings k units.
Pushed(k) ==
  /\ k \in 1 .. Len(pipe)
  /\ buffer' = buffer \o Decoded(SubSeq(pipe, 1, k))
  /\ pipe' = SubSeq(pipe, k + 1, Len(pipe))
  /\ UNCHANGED <<wire, sent, handled>>

LEMMA PushedParts ==
  ASSUME CodecOK, NEW k, Pushed(k)
  PROVE  /\ buffer' \in Seq(Units) /\ pipe' \in Seq(Units)
         /\ Len(buffer') = Len(buffer) + k /\ Len(pipe') = Len(pipe) - k
         /\ \A j \in 1 .. Len(buffer) : buffer'[j] = buffer[j]
         /\ \A j \in 1 .. k : /\ Like(buffer'[Len(buffer) + j], pipe[j])
                              /\ buffer'[Len(buffer) + j] # pipe[j] =>
                                   wire = "line" /\ ((j = 1 /\ pipe[j].is = "trail")
                                                     \/ (j = k /\ pipe[j].is = "lead"))
         /\ \A j \in 1 .. Len(pipe) - k : pipe'[j] = pipe[k + j]
<1> DEFINE c == SubSeq(pipe, 1, k)
           D == Decoded(c)
<1>1. /\ Len(buffer) \in Nat /\ Len(pipe) \in Nat /\ buffer \in Seq(Units) /\ pipe \in Seq(Units)
      /\ k \in 1 .. Len(pipe) /\ k \in Nat
      /\ buffer' = buffer \o D /\ pipe' = SubSeq(pipe, k + 1, Len(pipe))
  BY DEF CodecOK, Pushed
<1>2. c \in Seq(Units) /\ Len(c) = k /\ \A j \in 1 .. k : c[j] = pipe[j]
  <2>1. \A j \in 1 .. k : pipe[j] \in Units BY <1>1
  <2>2. c \in Seq(Units) /\ Len(c) = (IF 1 <= k THEN k - 1 + 1 ELSE 0)
        /\ \A j \in 1 .. k - 1 + 1 : c[j] = pipe[1 + j - 1]
    BY <1>1, <2>1, SubSeqProperties
  <2> QED BY <1>1, <2>2
<1> HIDE DEF c
<1>3. /\ D \in Seq(Units) /\ Len(D) = k
      /\ \A j \in 1 .. k : Like(D[j], pipe[j])
      /\ \A j \in 1 .. k : D[j] # pipe[j] =>
           wire = "line" /\ ((j = 1 /\ pipe[j].is = "trail") \/ (j = k /\ pipe[j].is = "lead"))
  <2>1. /\ D \in Seq(Units) /\ Len(D) = Len(c)
        /\ \A j \in 1 .. Len(c) : Like(D[j], c[j])
        /\ \A j \in 1 .. Len(c) : D[j] # c[j] =>
             wire = "line" /\ ((j = 1 /\ c[j].is = "trail") \/ (j = Len(c) /\ c[j].is = "lead"))
    BY <1>2, DecodedIs
  <2> HIDE DEF D
  <2> QED BY <1>2, <2>1
<1> HIDE DEF D
<1>4. /\ buffer' \in Seq(Units) /\ Len(buffer') = Len(buffer) + k
      /\ \A j \in 1 .. Len(buffer) : buffer'[j] = buffer[j]
      /\ \A j \in 1 .. k : buffer'[Len(buffer) + j] = D[j]
  <2>1. /\ buffer \o D \in Seq(Units) /\ Len(buffer \o D) = Len(buffer) + Len(D)
        /\ \A j \in 1 .. Len(buffer) : (buffer \o D)[j] = buffer[j]
        /\ \A j \in 1 .. Len(D) : (buffer \o D)[Len(buffer) + j] = D[j]
    <3>1. buffer \in Seq(Units) /\ D \in Seq(Units) BY <1>1, <1>3
    <3> QED BY <3>1, Joined
  <2>2. buffer' = buffer \o D /\ Len(D) = k BY <1>1, <1>3
  <2> QED BY <2>1, <2>2
<1>5. /\ pipe' \in Seq(Units) /\ Len(pipe') = Len(pipe) - k
      /\ \A j \in 1 .. Len(pipe) - k : pipe'[j] = pipe[k + j]
  <2>1. \A j \in (k + 1) .. Len(pipe) : pipe[j] \in Units BY <1>1
  <2>2. /\ pipe' \in Seq(Units)
        /\ Len(pipe') = (IF k + 1 <= Len(pipe) THEN Len(pipe) - (k + 1) + 1 ELSE 0)
        /\ \A j \in 1 .. Len(pipe) - (k + 1) + 1 : pipe'[j] = pipe[(k + 1) + j - 1]
    BY <1>1, <2>1, SubSeqProperties
  <2>3. Len(pipe') = Len(pipe) - k BY <1>1, <2>2
  <2>4. ASSUME NEW j \in 1 .. Len(pipe) - k PROVE pipe'[j] = pipe[k + j]
    <3>1. j \in 1 .. Len(pipe) - (k + 1) + 1 /\ (k + 1) + j - 1 = k + j BY <1>1
    <3> QED BY <2>2, <3>1
  <2> QED BY <2>2, <2>3, <2>4
<1> QED BY <1>3, <1>4, <1>5

LEMMA PushedStream ==
  ASSUME CodecOK, NEW k, Pushed(k)
  PROVE  /\ Total' = Total
         /\ \A j \in 1 .. Total : Like(Stream(j)', Stream(j))
<1>1. /\ Len(buffer) \in Nat /\ Len(pipe) \in Nat /\ k \in 1 .. Len(pipe) /\ k \in Nat
      /\ Total = Len(buffer) + Len(pipe)
  BY DEF CodecOK, Pushed, Total
<1>2. /\ Len(buffer') = Len(buffer) + k /\ Len(pipe') = Len(pipe) - k
      /\ \A j \in 1 .. Len(buffer) : buffer'[j] = buffer[j]
      /\ \A j \in 1 .. k : Like(buffer'[Len(buffer) + j], pipe[j])
      /\ \A j \in 1 .. Len(pipe) - k : pipe'[j] = pipe[k + j]
  BY PushedParts
<1>3. Total' = Total BY <1>1, <1>2 DEF Total
<1>4. ASSUME NEW j \in 1 .. Total PROVE Like(Stream(j)', Stream(j))
  <2>1. Stream(j)' = IF j <= Len(buffer) + k THEN buffer'[j] ELSE pipe'[j - (Len(buffer) + k)]
    BY <1>2 DEF Stream
  <2>2. j \in Nat /\ j >= 1 BY <1>1
  <2>3. CASE j <= Len(buffer)
    <3>1. j <= Len(buffer) + k /\ j \in 1 .. Len(buffer) BY <1>1, <2>2, <2>3
    <3> QED BY <1>2, <2>1, <2>3, <3>1 DEF Stream, Like
  <2>4. CASE ~(j <= Len(buffer)) /\ j <= Len(buffer) + k
    <3> DEFINE p == j - Len(buffer)
    <3>1. p \in 1 .. k /\ Len(buffer) + p = j BY <1>1, <2>2, <2>4
    <3>2. Like(buffer'[Len(buffer) + p], pipe[p]) BY <1>2, <3>1
    <3>3. Stream(j) = pipe[p] BY <2>4 DEF Stream
    <3> QED BY <2>1, <2>4, <3>1, <3>2, <3>3
  <2>5. CASE ~(j <= Len(buffer) + k)
    <3> DEFINE p == j - (Len(buffer) + k)
    <3>1. p \in 1 .. Len(pipe) - k /\ k + p = j - Len(buffer) /\ ~(j <= Len(buffer))
      BY <1>1, <2>2, <2>5
    <3>2. pipe'[p] = pipe[k + p] BY <1>2, <3>1
    <3>3. Stream(j) = pipe[k + p] BY <3>1 DEF Stream
    <3> QED BY <2>1, <2>5, <3>2, <3>3 DEF Like
  <2> QED BY <2>3, <2>4, <2>5
<1> QED BY <1>3, <1>4

LEMMA PushedLaid ==
  ASSUME CodecOK, NEW b, Laid(b), NEW k, Pushed(k)
  PROVE  Laid(b)'
<1>1. wire' = wire /\ sent' = sent /\ All' = All /\ Done' = Done BY DEF Pushed, All, Done
<1>2. Total' = Total /\ \A j \in 1 .. Total : Like(Stream(j)', Stream(j)) BY PushedStream
<1>3. /\ Done \in Nat /\ All \in Nat /\ Done <= All /\ Total \in Nat BY DEF CodecOK, Total
<1>4. /\ b \in [Done .. All -> Nat] /\ b[Done] = 0 /\ b[All] = Total
      /\ \A i, j \in Done .. All : i < j => b[i] < b[j]
      /\ \A i \in (Done + 1) .. All : \E units \in Written(i, sent[i]) :
           b[i] = b[i - 1] + Len(units) /\ Spells(b[i - 1], units)
      /\ \A i \in Done .. All : \A q \in 1 .. Total :
           q > b[i] => Stream(q).is = "length" \/ Stream(q).n \in {0} \union ((i + 1) .. All)
  BY DEF Laid
<1>5. ASSUME NEW i \in (Done + 1) .. All
      PROVE  \E us \in Written(i, sent[i])' : b[i] = b[i - 1] + Len(us) /\ Spells(b[i - 1], us)'
  <2>1. PICK us \in Written(i, sent[i]) : b[i] = b[i - 1] + Len(us) /\ Spells(b[i - 1], us)
    BY <1>4
  <2>2. i \in Nat /\ i \in Done .. All /\ i - 1 \in Done .. All /\ All \in Done .. All BY <1>3
  <2>3. Len(us) \in Nat
    <3>1. PieceOf(us, i) BY <2>2, WrittenPiece DEF CodecOK
    <3> QED BY <3>1 DEF PieceOf
  <2>4. b[i] <= Total /\ b[i - 1] \in Nat /\ b[i] \in Nat
    <3>1. i < All => b[i] < b[All] BY <1>4, <2>2
    <3>2. b[i] \in Nat /\ b[i - 1] \in Nat /\ b[All] \in Nat BY <1>4, <2>2
    <3>3. i = All \/ i < All BY <1>3
    <3> QED BY <1>4, <3>1, <3>2, <3>3
  <2>5. ASSUME NEW j \in 1 .. Len(us) PROVE Like(Stream(b[i - 1] + j)', us[j])
    <3>1. b[i - 1] + j \in 1 .. Total BY <1>3, <2>1, <2>3, <2>4
    <3>2. Like(Stream(b[i - 1] + j)', Stream(b[i - 1] + j)) BY <1>2, <3>1
    <3>3. Like(Stream(b[i - 1] + j), us[j]) BY <2>1 DEF Spells
    <3> QED BY <3>2, <3>3, LikeLike
  <2>6. Spells(b[i - 1], us)' BY <1>1, <2>5, SameForms DEF Spells
  <2>7. us \in Written(i, sent[i])' BY <1>1, SameForms
  <2> QED BY <2>1, <2>6, <2>7
<1>6. ASSUME NEW i \in Done .. All, NEW q \in 1 .. Total, q > b[i]
      PROVE  Stream(q)'.is = "length" \/ Stream(q)'.n \in {0} \union ((i + 1) .. All)
  <2>1. Stream(q).is = "length" \/ Stream(q).n \in {0} \union ((i + 1) .. All) BY <1>4, <1>6
  <2>2. Like(Stream(q)', Stream(q)) BY <1>2
  <2>3. CASE Stream(q)' = Stream(q) BY <2>1, <2>3
  <2>4. CASE Stream(q).is \in {"lead", "trail"} /\ Stream(q)' = Unit("replaced", Stream(q).n)
    <3>1. Stream(q)'.n = Stream(q).n BY <2>4 DEF Unit
    <3> QED BY <2>1, <2>4, <3>1
  <2> QED BY <2>2, <2>3, <2>4 DEF Like
<1> QED BY <1>1, <1>2, <1>4, <1>5, <1>6 DEF Laid

(***************************************************************************)
(* A message written lengthens the stream by its own piece.                *)
(***************************************************************************)
IsSeq(s) == \E S : s \in Seq(S)

LEMMA Appended ==
  ASSUME NEW s, NEW e, IsSeq(s)
  PROVE  /\ IsSeq(Append(s, e)) /\ Len(s) \in Nat /\ Len(Append(s, e)) = Len(s) + 1
         /\ \A i \in 1 .. Len(s) : Append(s, e)[i] = s[i]
         /\ Append(s, e)[Len(s) + 1] = e
<1>1. PICK S : s \in Seq(S) BY DEF IsSeq
<1> DEFINE T == S \union {e}
<1>2. s \in Seq(T) /\ e \in T BY <1>1, SeqMonotonic
<1> HIDE DEF T
<1> QED BY <1>2, AppendProperties DEF IsSeq

\* A step of the client.
Added(r, us) ==
  /\ us \in Written(All + 1, r)
  /\ sent' = Append(sent, r)
  /\ pipe' = pipe \o us
  /\ UNCHANGED <<wire, buffer, handled>>

LEMMA AddedParts ==
  ASSUME CodecOK, IsSeq(sent), NEW r, NEW us, Added(r, us)
  PROVE  /\ PieceOf(us, All + 1)
         /\ pipe' \in Seq(Units) /\ Len(pipe') = Len(pipe) + Len(us)
         /\ \A k \in 1 .. Len(pipe) : pipe'[k] = pipe[k]
         /\ \A k \in 1 .. Len(us) : pipe'[Len(pipe) + k] = us[k]
         /\ IsSeq(sent') /\ All' = All + 1 /\ sent'[All + 1] = r
         /\ \A i \in 1 .. All : sent'[i] = sent[i]
<1>1. All + 1 \in Nat /\ pipe \in Seq(Units) BY DEF CodecOK
<1>2. PieceOf(us, All + 1) BY <1>1, WrittenPiece DEF Added, CodecOK
<1>3. us \in Seq(Units) BY <1>2 DEF PieceOf
<1>4. pipe' = pipe \o us /\ sent' = Append(sent, r) BY DEF Added
<1>5. IsSeq(sent') /\ Len(sent') = Len(sent) + 1 /\ sent'[Len(sent) + 1] = r
      /\ \A i \in 1 .. Len(sent) : sent'[i] = sent[i]
  BY <1>4, Appended
<1>6. /\ pipe \o us \in Seq(Units) /\ Len(pipe \o us) = Len(pipe) + Len(us)
      /\ \A k \in 1 .. Len(pipe) : (pipe \o us)[k] = pipe[k]
      /\ \A k \in 1 .. Len(us) : (pipe \o us)[Len(pipe) + k] = us[k]
  BY <1>1, <1>3, Joined
<1> QED BY <1>2, <1>4, <1>5, <1>6 DEF All

LEMMA AddedLaid ==
  ASSUME CodecOK, IsSeq(sent), NEW b, Laid(b), NEW r, NEW us, Added(r, us)
  PROVE  \E d : Laid(d)'
<1>a. PICK N, L, T, a : N = All + 1 /\ L = Len(us) /\ T = Total /\ a = Done OBVIOUS
<1>0. PICK d : d = [i \in a .. N |-> IF i = N THEN T + L ELSE b[i]] OBVIOUS
<1>1. /\ Len(buffer) \in Nat /\ Len(pipe) \in Nat /\ a \in Nat /\ All \in Nat /\ a <= All
      /\ T \in Nat /\ N \in Nat /\ N = All + 1 /\ T = Len(buffer) + Len(pipe)
  BY <1>a DEF CodecOK, Total
<1>2. /\ wire' = wire /\ buffer' = buffer /\ Done' = a /\ us \in Written(N, r)
  BY <1>a DEF Added, Done
<1>3. /\ PieceOf(us, N) /\ Len(pipe') = Len(pipe) + L
      /\ \A k \in 1 .. Len(pipe) : pipe'[k] = pipe[k]
      /\ \A k \in 1 .. L : pipe'[Len(pipe) + k] = us[k]
      /\ All' = N /\ sent'[N] = r
      /\ \A i \in 1 .. All : sent'[i] = sent[i]
  BY <1>a, AddedParts
<1>4. L \in Nat /\ L >= 3
      /\ \A k \in 1 .. L : us[k].is = "length" \/ us[k].n \in {0, N}
  BY <1>a, <1>3 DEF PieceOf
<1>5. Total' = T + L BY <1>1, <1>2, <1>3, <1>4 DEF Total
<1>6. \A j \in 1 .. T : Stream(j)' = Stream(j)
  <2> TAKE j \in 1 .. T
  <2>1. Stream(j)' = IF j <= Len(buffer) THEN buffer[j] ELSE pipe'[j - Len(buffer)]
    BY <1>2 DEF Stream
  <2>2. ~(j <= Len(buffer)) => j - Len(buffer) \in 1 .. Len(pipe) BY <1>1
  <2> QED BY <1>3, <2>1, <2>2 DEF Stream
<1>7. \A j \in 1 .. L : Stream(T + j)' = us[j]
  <2> TAKE j \in 1 .. L
  <2>1. Stream(T + j)' = IF T + j <= Len(buffer) THEN buffer[T + j] ELSE pipe'[(T + j) - Len(buffer)]
    BY <1>2 DEF Stream
  <2>2. ~(T + j <= Len(buffer)) /\ (T + j) - Len(buffer) = Len(pipe) + j BY <1>1, <1>4
  <2> QED BY <1>3, <2>1, <2>2
<1>8. /\ b \in [a .. All -> Nat] /\ b[a] = 0 /\ b[All] = T
      /\ \A i, j \in a .. All : i < j => b[i] < b[j]
      /\ \A i \in (a + 1) .. All : \E units \in Written(i, sent[i]) :
           b[i] = b[i - 1] + Len(units) /\ Spells(b[i - 1], units)
      /\ \A i \in a .. All : \A q \in 1 .. T :
           q > b[i] => Stream(q).is = "length" \/ Stream(q).n \in {0} \union ((i + 1) .. All)
  BY <1>a DEF Laid
<1>9. \A i \in a .. All : /\ i \in a .. N /\ i # N /\ d[i] = b[i] /\ b[i] \in Nat /\ b[i] <= T
  <2> TAKE i \in a .. All
  <2>1. i \in a .. N /\ i # N /\ All \in a .. All /\ (i = All \/ i < All) BY <1>1
  <2>2. b[i] \in Nat /\ (i < All => b[i] < b[All]) BY <1>8, <2>1
  <2> QED BY <1>0, <1>1, <1>8, <2>1, <2>2
<1>10. d[N] = T + L /\ d[a] = 0 /\ \A i \in a .. N : i = N \/ i \in a .. All
  <2>1. N \in a .. N /\ a \in a .. All BY <1>1
  <2> QED BY <1>0, <1>1, <1>8, <1>9, <2>1
<1>11. d \in [a .. N -> Nat]
  <2>1. \A i \in a .. N : (IF i = N THEN T + L ELSE b[i]) \in Nat BY <1>1, <1>4, <1>9, <1>10
  <2> QED BY <1>0, <2>1
<1>12. ASSUME NEW i \in a .. N, NEW j \in a .. N, i < j PROVE d[i] < d[j]
  <2>1. i \in a .. All BY <1>1, <1>12
  <2>2. CASE j = N BY <1>1, <1>4, <1>9, <1>10, <2>1, <2>2
  <2>3. CASE j # N
    <3>1. j \in a .. All BY <1>10, <2>3
    <3> QED BY <1>8, <1>9, <1>12, <2>1, <3>1
  <2> QED BY <2>2, <2>3
<1>13. ASSUME NEW i \in (a + 1) .. N
       PROVE  \E vs \in Written(i, sent[i])' : d[i] = d[i - 1] + Len(vs) /\ Spells(d[i - 1], vs)'
  <2>1. CASE i = N
    <3>1. i - 1 = All /\ All \in a .. All BY <1>1, <2>1
    <3>2. d[i - 1] = T BY <1>8, <1>9, <3>1
    <3>3. us \in Written(i, sent[i])' BY <1>2, <1>3, <2>1, SameForms
    <3>4. ASSUME NEW j \in 1 .. Len(us) PROVE Like(Stream(T + j)', us[j]) BY <1>a, <1>7 DEF Like
    <3>5. Spells(T, us)' BY <1>2, <3>4, SameForms DEF Spells
    <3>6. Spells(d[i - 1], us)' BY <3>2, <3>5 DEF Spells
    <3> QED BY <1>a, <1>10, <2>1, <3>2, <3>3, <3>6
  <2>2. CASE i # N
    <3>1. i \in (a + 1) .. All /\ i \in a .. All /\ i - 1 \in a .. All /\ i \in 1 .. All /\ i \in Nat
      BY <1>1, <2>2
    <3>2. PICK vs \in Written(i, sent[i]) : b[i] = b[i - 1] + Len(vs) /\ Spells(b[i - 1], vs)
      BY <1>8, <3>1
    <3>3. Len(vs) \in Nat
      <4>1. PieceOf(vs, i) BY <3>1, WrittenPiece DEF CodecOK
      <4> QED BY <4>1 DEF PieceOf
    <3>4. d[i] = b[i] /\ d[i - 1] = b[i - 1] /\ b[i] <= T /\ b[i] \in Nat /\ b[i - 1] \in Nat
      BY <1>9, <3>1
    <3>5. ASSUME NEW j \in 1 .. Len(vs) PROVE Like(Stream(d[i - 1] + j)', vs[j])
      <4>1. d[i - 1] + j \in 1 .. T BY <1>1, <3>2, <3>3, <3>4
      <4>2. Stream(d[i - 1] + j)' = Stream(d[i - 1] + j) BY <1>6, <4>1
      <4>3. Like(Stream(b[i - 1] + j), vs[j]) BY <3>2 DEF Spells
      <4> QED BY <3>4, <4>2, <4>3
    <3>6. Spells(d[i - 1], vs)' BY <1>2, <3>5, SameForms DEF Spells
    <3>7. vs \in Written(i, sent[i])' BY <1>2, <1>3, <3>1, SameForms
    <3> QED BY <3>2, <3>4, <3>6, <3>7
  <2> QED BY <2>1, <2>2
<1>14. ASSUME NEW i \in a .. N, NEW q \in 1 .. T + L, q > d[i]
       PROVE  Stream(q)'.is = "length" \/ Stream(q)'.n \in {0} \union ((i + 1) .. N)
  <2>1. i \in a .. All /\ d[i] = b[i] /\ i \in Nat /\ i <= All
    BY <1>1, <1>4, <1>9, <1>10, <1>14
  <2>2. CASE q <= T
    <3>1. q \in 1 .. T BY <1>1, <1>4, <2>2
    <3>2. Stream(q)' = Stream(q) BY <1>6, <3>1
    <3>3. Stream(q).is = "length" \/ Stream(q).n \in {0} \union ((i + 1) .. All)
      BY <1>8, <1>14, <2>1, <3>1
    <3> QED BY <1>1, <2>1, <3>2, <3>3
  <2>3. CASE ~(q <= T)
    <3>1. q - T \in 1 .. L /\ T + (q - T) = q BY <1>1, <1>4, <2>3
    <3>2. Stream(T + (q - T))' = us[q - T] BY <1>7, <3>1
    <3>3. Stream(q)' = us[q - T] BY <3>1, <3>2 DEF Stream
    <3>4. us[q - T].is = "length" \/ us[q - T].n \in {0, N} BY <1>4, <3>1
    <3> QED BY <1>1, <2>1, <3>3, <3>4
  <2> QED BY <2>2, <2>3
<1>15. Laid(d)' BY <1>2, <1>3, <1>5, <1>10, <1>11, <1>12, <1>13, <1>14 DEF Laid
<1> QED BY <1>15

(***************************************************************************)
(* The invariant of the codecs, kept by every step.                        *)
(***************************************************************************)
CodecInv == CodecOK /\ IsSeq(sent) /\ IsSeq(handled) /\ \E b : Laid(b)

LEMMA AddedCodec ==
  ASSUME CodecInv, NEW r, NEW us, Added(r, us)
  PROVE  CodecInv'
<1>1. CodecOK' /\ IsSeq(sent')
  <2>1. pipe' \in Seq(Units) /\ IsSeq(sent') /\ All' = All + 1 BY AddedParts DEF CodecInv
  <2> QED BY <2>1 DEF CodecInv, CodecOK, Added, Done
<1>2. IsSeq(handled)' BY DEF CodecInv, Added, IsSeq
<1>3. (\E b : Laid(b))' BY AddedLaid DEF CodecInv
<1> QED BY <1>1, <1>2, <1>3 DEF CodecInv, IsSeq

LEMMA PushedCodec ==
  ASSUME CodecInv, NEW k, Pushed(k)
  PROVE  CodecInv'
<1>1. CodecOK'
  <2>1. pipe' \in Seq(Units) /\ buffer' \in Seq(Units) BY PushedParts DEF CodecInv
  <2> QED BY <2>1 DEF CodecInv, CodecOK, Pushed, Done, All
<1>2. IsSeq(handled)' /\ IsSeq(sent)' BY DEF CodecInv, Pushed, IsSeq
<1>3. (\E b : Laid(b))' BY PushedLaid DEF CodecInv
<1> QED BY <1>1, <1>2, <1>3 DEF CodecInv

LEMMA ArrivesCodec ==
  ASSUME CodecInv, NEW i, Arrives(i)
  PROVE  /\ i = Done + 1 /\ i \in 1 .. All /\ Done' = i /\ CodecInv'
         /\ \A k \in 1 .. Done : handled'[k] = handled[k]
         /\ handled'[i] = <<i, Read(Taken, i)>>
         /\ (\A k \in 1 .. Len(buffer) : buffer[k].is # "replaced") => Read(Taken, i) = sent[i].texts
         /\ \E c : Dropped(c)
<1>0. CodecOK /\ IsSeq(sent) /\ IsSeq(handled) BY DEF CodecInv
<1>1. PICK b : Laid(b) BY DEF CodecInv
<1>2. Ready /\ i \in Spelled(Taken) /\ buffer' = Rest
      /\ handled' = Append(handled, <<i, Read(Taken, i)>>) /\ UNCHANGED <<wire, sent, pipe, cut>>
  BY DEF Arrives
<1>3. PICK f : f = Done + 1 OBVIOUS
<1>4. Done < All /\ \E us \in Written(f, sent[f]) :
         /\ us \in Seq(Units) /\ Len(us) >= 3 /\ b[f] = Len(us) /\ Spells(0, us)
         /\ Whole(us, f) \/ Passed(us, f)
  BY <1>0, <1>1, <1>2, <1>3, ReadyTurn
<1>5. PICK us \in Written(f, sent[f]) :
         /\ us \in Seq(Units) /\ Len(us) >= 3 /\ b[f] = Len(us) /\ Spells(0, us)
         /\ Whole(us, f) \/ Passed(us, f)
  BY <1>4
<1>6. Whole(us, f) BY <1>2, <1>5 DEF Passed
<1>7. i = f BY <1>2, <1>6 DEF Whole
<1>8. PICK c : c = Len(us) OBVIOUS
<1>9. Len(us) \in Nat /\ Len(buffer) \in Nat /\ Done \in Nat /\ All \in Nat BY <1>0, <1>5 DEF CodecOK
<1>10. Dropped(c) BY <1>2, <1>5, <1>6, <1>8, <1>9 DEF Dropped, Whole
<1>11. /\ IsSeq(handled') /\ Done' = f
       /\ \A k \in 1 .. Done : handled'[k] = handled[k]
       /\ handled'[f] = <<i, Read(Taken, i)>>
  BY <1>0, <1>2, <1>3, Appended DEF Done
<1>12. f \in 1 .. All /\ f \in Done .. All /\ f \in (Done + 1) .. All BY <1>3, <1>4, <1>9
<1>13. CodecOK'
  <2>1. buffer' \in Seq(Units) BY <1>0, <1>10, DroppedShifts
  <2>2. wire' = wire /\ pipe' = pipe /\ All' = All BY <1>10 DEF Dropped, All
  <2> QED BY <1>0, <1>9, <1>11, <1>12, <2>1, <2>2 DEF CodecOK
<1>14. \E d : Laid(d)'
  <2>1. /\ \A j, k \in Done .. All : j < k => b[j] < b[k]
        /\ b[All] = Total /\ b[f] = c
    BY <1>1, <1>5, <1>8 DEF Laid
  <2>2. \A j \in (f + 1) .. All : c < b[j]
    <3> TAKE j \in (f + 1) .. All
    <3>1. j \in Done .. All /\ f < j BY <1>9, <1>12
    <3> QED BY <1>12, <2>1, <3>1
  <2>3. f = All => c = Total BY <2>1
  <2>4. ASSUME f < All
        PROVE  \E vs \in Written(f + 1, sent[f + 1]) :
                 b[f + 1] = c + Len(vs) /\ vs \in Seq(Units) /\ Spells(c, vs)
    <3>1. f + 1 \in (Done + 1) .. All /\ (f + 1) - 1 = f /\ f + 1 \in Nat BY <1>9, <1>12, <2>4
    <3>2. PICK vs \in Written(f + 1, sent[f + 1]) :
            b[f + 1] = b[f] + Len(vs) /\ Spells(b[f], vs)
      BY <1>1, <3>1 DEF Laid
    <3>3. PieceOf(vs, f + 1) BY <1>0, <3>1, WrittenPiece DEF CodecOK
    <3> QED BY <2>1, <3>2, <3>3 DEF PieceOf
  <2>5. b[f] <= c BY <1>8, <1>9, <2>1
  <2> QED BY <1>0, <1>1, <1>10, <1>11, <1>12, <2>2, <2>3, <2>4, <2>5, DropTo
<1>15. CodecInv'
  <2>1. IsSeq(sent)' /\ IsSeq(handled)' BY <1>0, <1>2, <1>11 DEF IsSeq
  <2> QED BY <1>13, <1>14, <2>1 DEF CodecInv
<1>16. (\A k \in 1 .. Len(buffer) : buffer[k].is # "replaced") => Read(Taken, i) = sent[i].texts
  BY <1>6, <1>7 DEF Whole
<1> QED BY <1>3, <1>7, <1>10, <1>11, <1>12, <1>15, <1>16

LEMMA UnreadableCodec ==
  ASSUME CodecInv, Unreadable
  PROVE  CodecInv' /\ \E c : Dropped(c)
<1>0. CodecOK /\ IsSeq(sent) /\ IsSeq(handled) BY DEF CodecInv
<1>1. PICK b : Laid(b) BY DEF CodecInv
<1>2. Ready /\ Spelled(Taken) = {} /\ buffer' = Rest /\ UNCHANGED <<wire, sent, pipe, handled, cut>>
  BY DEF Unreadable
<1>3. PICK a, f : a = Done /\ f = Done + 1 OBVIOUS
<1>4. Done < All /\ \E us \in Written(f, sent[f]) :
         /\ us \in Seq(Units) /\ Len(us) >= 3 /\ b[f] = Len(us) /\ Spells(0, us)
         /\ Whole(us, f) \/ Passed(us, f)
  BY <1>0, <1>1, <1>2, <1>3, ReadyTurn
<1>5. PICK us \in Written(f, sent[f]) :
         /\ us \in Seq(Units) /\ Len(us) >= 3 /\ b[f] = Len(us) /\ Spells(0, us)
         /\ Whole(us, f) \/ Passed(us, f)
  BY <1>4
<1>6. Passed(us, f) BY <1>2, <1>5 DEF Whole
<1>7. PICK c \in 1 .. Len(buffer), vs \in Written(f, sent[f]) :
        /\ vs \in Seq(Units) /\ Len(us) = c + Len(vs) /\ Spells(c, vs)
        /\ Rest = SubSeq(buffer, c + 1, Len(buffer))
  BY <1>6 DEF Passed
<1>8. Len(us) \in Nat /\ Len(buffer) \in Nat /\ a \in Nat /\ All \in Nat /\ c \in Nat /\ a < All
      /\ f = a + 1
  BY <1>0, <1>3, <1>4, <1>5, <1>7 DEF CodecOK
<1>9. Dropped(c) BY <1>2, <1>7 DEF Dropped
<1>10. Done' = a /\ All' = All BY <1>2, <1>3 DEF Done, All
<1>11. CodecOK'
  <2>1. buffer' \in Seq(Units) BY <1>0, <1>9, DroppedShifts
  <2> QED BY <1>0, <1>2, <1>8, <1>10, <2>1 DEF CodecOK
<1>12. \E d : Laid(d)'
  <2>1. /\ \A j, k \in a .. All : j < k => b[j] < b[k]
        /\ \A j \in a .. All : b[j] \in Nat
        /\ b[a] = 0 /\ b[f] = c + Len(vs)
    BY <1>1, <1>3, <1>5, <1>7 DEF Laid
  <2>2. Len(vs) \in Nat /\ Len(vs) >= 3
    <3>1. f \in Nat BY <1>8
    <3>2. PieceOf(vs, f) BY <1>0, <1>7, <3>1, WrittenPiece DEF CodecOK
    <3> QED BY <3>2 DEF PieceOf
  <2>3. \A j \in (a + 1) .. All : c < b[j]
    <3> TAKE j \in (a + 1) .. All
    <3>1. j \in a .. All /\ f \in a .. All /\ (j = f \/ f < j) BY <1>8
    <3>2. c < b[f] BY <1>8, <2>1, <2>2
    <3> QED BY <1>8, <2>1, <3>1, <3>2
  <2>4. a \in Done .. All /\ b[a] <= c /\ ~(a = All) BY <1>3, <1>8, <2>1
  <2>5. \E ws \in Written(a + 1, sent[a + 1]) :
          b[a + 1] = c + Len(ws) /\ ws \in Seq(Units) /\ Spells(c, ws)
    BY <1>7, <1>8, <2>1
  <2> QED BY <1>0, <1>1, <1>9, <1>10, <2>3, <2>4, <2>5, DropTo
<1>13. CodecInv'
  <2>1. IsSeq(sent)' /\ IsSeq(handled)' BY <1>0, <1>2 DEF IsSeq
  <2> QED BY <1>11, <1>12, <2>1 DEF CodecInv
<1> QED BY <1>9, <1>13

LEMMA SameCodec ==
  ASSUME CodecInv, UNCHANGED <<wire, sent, pipe, buffer, handled>>
  PROVE  CodecInv'
<1>1. CodecOK' /\ IsSeq(sent)' /\ IsSeq(handled)' BY DEF CodecInv, CodecOK, IsSeq, Done, All
<1>2. PICK b : Laid(b) BY DEF CodecInv
<1>3. Laid(b)'
  BY <1>2, SameForms DEF Laid, Spells, Stream, Total, Done, All
<1> QED BY <1>1, <1>3 DEF CodecInv

(***************************************************************************)
(* What was cut, and what was handled: with the codecs' invariant, all     *)
(* that is said of the texts.                                              *)
(***************************************************************************)
\* A character whose half is still in the pipe was cut; where none was, nothing
\* in the buffer was replaced.
CutInv ==
  /\ cut \in BOOLEAN
  /\ \A k \in 1 .. Len(pipe) : pipe[k].is # "replaced"
  /\ \A k \in 2 .. Len(pipe) : pipe[k].is = "trail" => pipe[k - 1].is = "lead"
  /\ wire = "line" /\ Len(pipe) >= 1 /\ pipe[1].is = "trail" => cut
  /\ ~cut => \A k \in 1 .. Len(buffer) : buffer[k].is # "replaced"

HandledInv ==
  /\ \A k \in 1 .. Done : handled[k][1] = k
  /\ ~cut => \A k \in 1 .. Done : handled[k][2] = sent[k].texts

Texts == CodecInv /\ CutInv /\ HandledInv

LEMMA AddedTexts ==
  ASSUME Texts, NEW r, NEW us, Added(r, us), UNCHANGED cut
  PROVE  Texts'
<1>0. CodecInv /\ CodecOK /\ IsSeq(sent) BY DEF Texts, CodecInv
<1>1. /\ PieceOf(us, All + 1) /\ Len(pipe') = Len(pipe) + Len(us)
      /\ \A k \in 1 .. Len(pipe) : pipe'[k] = pipe[k]
      /\ \A k \in 1 .. Len(us) : pipe'[Len(pipe) + k] = us[k]
      /\ \A i \in 1 .. All : sent'[i] = sent[i]
  BY <1>0, AddedParts
<1>2. Len(pipe) \in Nat /\ Done \in Nat /\ All \in Nat /\ Done <= All BY <1>0 DEF CodecOK
<1>3. /\ Len(us) \in Nat
      /\ \A k \in 1 .. Len(us) : us[k].is # "replaced" /\ (us[k].is = "trail" => k > 1 /\ us[k - 1].is = "lead")
  BY <1>1 DEF PieceOf
<1>4. wire' = wire /\ buffer' = buffer /\ handled' = handled /\ Done' = Done BY DEF Added, Done
<1>5. /\ cut \in BOOLEAN
      /\ \A k \in 1 .. Len(pipe) : pipe[k].is # "replaced"
      /\ \A k \in 2 .. Len(pipe) : pipe[k].is = "trail" => pipe[k - 1].is = "lead"
      /\ wire = "line" /\ Len(pipe) >= 1 /\ pipe[1].is = "trail" => cut
      /\ ~cut => \A k \in 1 .. Len(buffer) : buffer[k].is # "replaced"
  BY DEF Texts, CutInv
<1>6. ASSUME NEW k \in 1 .. Len(pipe')
      PROVE  \/ k \in 1 .. Len(pipe) /\ pipe'[k] = pipe[k]
             \/ ~(k \in 1 .. Len(pipe)) /\ k - Len(pipe) \in 1 .. Len(us) /\ pipe'[k] = us[k - Len(pipe)]
  <2>1. CASE k \in 1 .. Len(pipe) BY <1>1, <2>1
  <2>2. CASE ~(k \in 1 .. Len(pipe))
    <3>1. k - Len(pipe) \in 1 .. Len(us) /\ Len(pipe) + (k - Len(pipe)) = k BY <1>1, <1>2, <1>3, <2>2
    <3>2. pipe'[Len(pipe) + (k - Len(pipe))] = us[k - Len(pipe)] BY <1>1, <3>1
    <3> QED BY <2>2, <3>1, <3>2
  <2> QED BY <2>1, <2>2
<1>7. \A k \in 1 .. Len(pipe') : pipe'[k].is # "replaced" BY <1>3, <1>5, <1>6
<1>8. ASSUME NEW k \in 2 .. Len(pipe'), pipe'[k].is = "trail" PROVE pipe'[k - 1].is = "lead"
  <2>1. k \in 1 .. Len(pipe') /\ k - 1 \in 1 .. Len(pipe') BY <1>1, <1>2, <1>3
  <2>2. CASE k \in 1 .. Len(pipe)
    <3>1. pipe'[k] = pipe[k] /\ pipe'[k - 1] = pipe[k - 1] /\ k \in 2 .. Len(pipe) BY <1>1, <1>2, <2>2
    <3> QED BY <1>5, <1>8, <3>1
  <2>3. CASE ~(k \in 1 .. Len(pipe))
    <3> DEFINE q == k - Len(pipe)
    <3>1. q \in 1 .. Len(us) /\ pipe'[k] = us[q] BY <1>6, <2>1, <2>3
    <3>2. q > 1 /\ us[q - 1].is = "lead" BY <1>3, <1>8, <3>1
    <3>3. q - 1 \in 1 .. Len(us) /\ Len(pipe) + (q - 1) = k - 1 BY <1>2, <1>3, <3>1, <3>2
    <3>4. pipe'[Len(pipe) + (q - 1)] = us[q - 1] BY <1>1, <3>3
    <3> QED BY <3>2, <3>3, <3>4
  <2> QED BY <2>2, <2>3
<1>9. ASSUME wire = "line", Len(pipe') >= 1, pipe'[1].is = "trail" PROVE cut
  <2>1. 1 \in 1 .. Len(pipe') BY <1>1, <1>2, <1>3, <1>9
  <2>2. CASE 1 \in 1 .. Len(pipe)
    <3>1. Len(pipe) >= 1 /\ pipe'[1] = pipe[1] BY <1>1, <1>2, <2>2
    <3> QED BY <1>5, <1>9, <3>1
  <2>3. CASE ~(1 \in 1 .. Len(pipe))
    <3>1. Len(pipe) = 0 /\ 1 \in 1 .. Len(us) /\ 0 + 1 = 1 BY <1>1, <1>2, <1>3, <1>9, <2>3
    <3>2. pipe'[0 + 1] = us[1] BY <1>1, <3>1
    <3> QED BY <1>3, <1>9, <3>1, <3>2
  <2> QED BY <2>2, <2>3
<1>10. CutInv' BY <1>4, <1>5, <1>7, <1>8, <1>9 DEF CutInv
<1>11. HandledInv'
  <2>1. \A k \in 1 .. Done : k \in 1 .. All BY <1>2
  <2> QED BY <1>1, <1>4, <2>1 DEF Texts, HandledInv
<1>12. CodecInv' BY <1>0, AddedCodec
<1> QED BY <1>10, <1>11, <1>12 DEF Texts

LEMMA PushedTexts ==
  ASSUME Texts, NEW k, Pushed(k), cut' = (cut \/ (wire = "line" /\ pipe[k].is = "lead"))
  PROVE  Texts'
<1>0. CodecInv /\ CodecOK BY DEF Texts, CodecInv
<1>1. /\ Len(buffer') = Len(buffer) + k /\ Len(pipe') = Len(pipe) - k
      /\ \A j \in 1 .. Len(buffer) : buffer'[j] = buffer[j]
      /\ \A j \in 1 .. k : buffer'[Len(buffer) + j] # pipe[j] =>
           wire = "line" /\ ((j = 1 /\ pipe[j].is = "trail") \/ (j = k /\ pipe[j].is = "lead"))
      /\ \A j \in 1 .. Len(pipe) - k : pipe'[j] = pipe[k + j]
  BY <1>0, PushedParts
<1>2. /\ Len(buffer) \in Nat /\ Len(pipe) \in Nat /\ k \in 1 .. Len(pipe) /\ k \in Nat
      /\ Done \in Nat /\ wire' = wire /\ sent' = sent /\ handled' = handled /\ Done' = Done
  BY <1>0 DEF CodecOK, Pushed, Done
<1>3. /\ cut \in BOOLEAN
      /\ \A j \in 1 .. Len(pipe) : pipe[j].is # "replaced"
      /\ \A j \in 2 .. Len(pipe) : pipe[j].is = "trail" => pipe[j - 1].is = "lead"
      /\ wire = "line" /\ Len(pipe) >= 1 /\ pipe[1].is = "trail" => cut
      /\ ~cut => \A j \in 1 .. Len(buffer) : buffer[j].is # "replaced"
  BY DEF Texts, CutInv
<1>4. cut' \in BOOLEAN /\ (cut => cut') OBVIOUS
<1>5. ASSUME NEW j \in 1 .. Len(pipe')
      PROVE  /\ pipe'[j] = pipe[k + j] /\ pipe'[j].is # "replaced"
             /\ j >= 2 /\ pipe'[j].is = "trail" => pipe'[j - 1].is = "lead"
             /\ j = 1 /\ wire = "line" /\ pipe'[j].is = "trail" => cut'
  <2>1. j \in 1 .. Len(pipe) - k /\ k + j \in 2 .. Len(pipe) /\ k + j \in 1 .. Len(pipe) BY <1>1, <1>2
  <2>2. pipe'[j] = pipe[k + j] /\ pipe'[j].is # "replaced" BY <1>1, <1>3, <2>1
  <2>3. pipe'[j].is = "trail" => pipe[(k + j) - 1].is = "lead" BY <1>3, <2>1, <2>2
  <2>4. j >= 2 => pipe'[j - 1] = pipe[(k + j) - 1]
    <3>1. j >= 2 => j - 1 \in 1 .. Len(pipe) - k /\ k + (j - 1) = (k + j) - 1 BY <1>2, <2>1
    <3> QED BY <1>1, <3>1
  <2>5. j = 1 => (k + j) - 1 = k BY <1>2
  <2> QED BY <2>2, <2>3, <2>4, <2>5
<1>6. \A j \in 2 .. Len(pipe') : pipe'[j].is = "trail" => pipe'[j - 1].is = "lead"
  <2> TAKE j \in 2 .. Len(pipe')
  <2>1. j \in 1 .. Len(pipe') /\ j >= 2 BY <1>1, <1>2
  <2> QED BY <1>5, <2>1
<1>7. wire = "line" /\ Len(pipe') >= 1 /\ pipe'[1].is = "trail" => cut'
  <2>1. Len(pipe') >= 1 => 1 \in 1 .. Len(pipe') BY <1>1, <1>2
  <2> QED BY <1>5, <2>1
<1>8. ASSUME ~cut', NEW j \in 1 .. Len(buffer') PROVE buffer'[j].is # "replaced"
  <2>1. CASE j \in 1 .. Len(buffer) BY <1>1, <1>3, <1>4, <1>8, <2>1
  <2>2. CASE ~(j \in 1 .. Len(buffer))
    <3> DEFINE q == j - Len(buffer)
    <3>1. q \in 1 .. k /\ Len(buffer) + q = j /\ q \in 1 .. Len(pipe) BY <1>1, <1>2, <2>2
    <3>2. q = 1 => Len(pipe) >= 1 BY <1>2
    <3>3. buffer'[Len(buffer) + q] = pipe[q] BY <1>1, <1>3, <1>8, <3>1, <3>2
    <3> QED BY <1>3, <3>1, <3>3
  <2> QED BY <2>1, <2>2
<1>9. CutInv' BY <1>2, <1>4, <1>5, <1>6, <1>7, <1>8 DEF CutInv
<1>10. HandledInv' BY <1>2, <1>4 DEF Texts, HandledInv
<1> QED BY <1>0, <1>9, <1>10, PushedCodec DEF Texts

LEMMA DroppedCut ==
  ASSUME CodecOK, CutInv, NEW c, Dropped(c), UNCHANGED cut
  PROVE  CutInv'
<1>1. /\ Len(buffer') = Len(buffer) - c
      /\ \A k \in 1 .. Len(buffer') : buffer'[k] = buffer[c + k]
  BY DroppedShifts
<1>2. c \in 1 .. Len(buffer) /\ Len(buffer) \in Nat /\ wire' = wire /\ pipe' = pipe
  BY DEF Dropped, CodecOK
<1>3. \A k \in 1 .. Len(buffer') : c + k \in 1 .. Len(buffer) BY <1>1, <1>2
<1> QED BY <1>1, <1>2, <1>3 DEF CutInv

LEMMA ArrivesTexts ==
  ASSUME Texts, NEW i, Arrives(i)
  PROVE  Texts' /\ (~cut => Read(Taken, i) = sent[i].texts)
<1>0. CodecInv /\ CodecOK /\ CutInv /\ cut' = cut /\ sent' = sent BY DEF Texts, CodecInv, Arrives
<1>1. /\ i = Done + 1 /\ i \in 1 .. All /\ Done' = i /\ CodecInv'
      /\ \A k \in 1 .. Done : handled'[k] = handled[k]
      /\ handled'[i] = <<i, Read(Taken, i)>>
      /\ (\A k \in 1 .. Len(buffer) : buffer[k].is # "replaced") => Read(Taken, i) = sent[i].texts
      /\ \E c : Dropped(c)
  BY <1>0, ArrivesCodec
<1>2. CutInv' BY <1>0, <1>1, DroppedCut
<1>3. ~cut => Read(Taken, i) = sent[i].texts BY <1>0, <1>1 DEF CutInv
<1>4. Done \in Nat /\ \A k \in 1 .. i : k \in 1 .. Done \/ k = i BY <1>0, <1>1 DEF CodecOK
<1>5. /\ \A k \in 1 .. Done : handled[k][1] = k
      /\ ~cut => \A k \in 1 .. Done : handled[k][2] = sent[k].texts
  BY DEF Texts, HandledInv
<1>6. handled'[i][1] = i /\ handled'[i][2] = Read(Taken, i) BY <1>1
<1>7. HandledInv' BY <1>0, <1>1, <1>3, <1>4, <1>5, <1>6 DEF HandledInv
<1> QED BY <1>1, <1>2, <1>3, <1>7 DEF Texts

LEMMA UnreadableTexts ==
  ASSUME Texts, Unreadable
  PROVE  Texts'
<1>0. CodecInv /\ CodecOK /\ CutInv /\ cut' = cut /\ sent' = sent /\ handled' = handled
  BY DEF Texts, CodecInv, Unreadable
<1>1. CodecInv' /\ \E c : Dropped(c) BY <1>0, UnreadableCodec
<1>2. CutInv' BY <1>0, <1>1, DroppedCut
<1>3. HandledInv' BY <1>0 DEF Texts, HandledInv, Done
<1> QED BY <1>1, <1>2, <1>3 DEF Texts

LEMMA SameTexts ==
  ASSUME Texts, UNCHANGED <<wire, sent, pipe, buffer, handled, cut>>
  PROVE  Texts'
BY SameCodec DEF Texts, CutInv, HandledInv, Done

LEMMA TextsMean ==
  ASSUME Texts
  PROVE  HandledAsSent /\ (Ready => Cardinality(Spelled(Taken)) <= 1) /\ (~Ready => Delivered = 1 .. Done)
<1>0. CodecInv /\ CodecOK /\ HandledInv BY DEF Texts, CodecInv
<1>1. PICK b : Laid(b) BY <1>0 DEF CodecInv
<1>2. ~Ready => Delivered = 1 .. Done BY <1>0, <1>1, DeliveredAre
<1>3. HandledAsSent BY <1>0, <1>2 DEF HandledAsSent, HandledInv, Idle, Done
<1>4. ASSUME Ready PROVE Cardinality(Spelled(Taken)) <= 1
  <2>1. Spelled(Taken) = {} \/ \E f : Spelled(Taken) = {f}
    BY <1>0, <1>1, <1>4, ReadyTurn DEF Whole, Passed
  <2>2. CASE Spelled(Taken) = {} BY <2>2, FS_EmptySet
  <2>3. ASSUME NEW f, Spelled(Taken) = {f} PROVE Cardinality(Spelled(Taken)) <= 1
    BY <2>3, FS_Singleton
  <2> QED BY <2>1, <2>2, <2>3
<1> QED BY <1>2, <1>3, <1>4

(***************************************************************************)
(* The messages a client may send.                                         *)
(***************************************************************************)
\* The record of message i is one the client may send.
Known(i, m) ==
  /\ Message(m.op, m.uri, m.texts) \in (IF wire = "frame" THEN FrameMessages ELSE LineMessages)
  /\ m.op = "initialize" => i = 1

ServerTypes ==
  /\ IsSeq(out)
  /\ docs \in [DOMAIN docs -> Text] /\ DOMAIN docs \subseteq Uri
  /\ setting \in Setting \union {Started}
  /\ shutdown \in BOOLEAN /\ running \in BOOLEAN

LEMMA KnownFacts ==
  ASSUME NEW i, NEW m, Known(i, m)
  PROVE  /\ m.op = "initialize" => m.texts[1] \in Setting
         /\ m.op = "open" => m.uri \in Uri /\ m.texts # <<>> /\ Last(m.texts) \in Text
         /\ m.op = "change" => m.uri \in Uri /\ (m.texts # <<>> => Last(m.texts) \in Text)
         /\ m.op \in {"close", "hover", "definition", "completion"} => m.uri \in Uri
<1> DEFINE M == Message(m.op, m.uri, m.texts)
<1>1. M.op = m.op /\ M.uri = m.uri /\ M.texts = m.texts BY DEF Message
<1> HIDE DEF M
<1>2. CASE M \in LineMessages
  <2>1. m.op \in {"call", "unnamed", "unknown", "notice"}
    BY <1>1, <1>2 DEF LineMessages, Message, Plain
  <2> QED BY <2>1
<1>3. CASE M \in FrameMessages
  <2>1. CASE \E s \in Setting : M = Message("initialize", NoUri, <<s>>)
    BY <1>1, <2>1 DEF Message
  <2>2. CASE \E u \in Uri, t \in Text : M = Message("open", u, <<t>>)
    <3>1. PICK u \in Uri, t \in Text : M = Message("open", u, <<t>>) BY <2>2
    <3>2. m.op = "open" /\ m.uri = u /\ m.texts = <<t>> BY <1>1, <3>1 DEF Message
    <3>3. Last(<<t>>) = t /\ <<t>> # <<>> BY DEF Last
    <3> QED BY <3>2, <3>3
  <2>3. CASE \E u \in Uri, ts \in {<<>>} \union {<<t>> : t \in Text} \union {<<s, t>> : s \in Text, t \in Wide} :
               M = Message("change", u, ts)
    <3>1. PICK u \in Uri, ts \in {<<>>} \union {<<t>> : t \in Text} \union {<<s, t>> : s \in Text, t \in Wide} :
            M = Message("change", u, ts)
      BY <2>3
    <3>2. m.op = "change" /\ m.uri = u /\ m.texts = ts BY <1>1, <3>1 DEF Message
    <3>3. ts # <<>> => Last(ts) \in Text
      <4>1. ASSUME NEW t \in Text, ts = <<t>> PROVE Last(ts) \in Text BY <4>1 DEF Last
      <4>2. ASSUME NEW s \in Text, NEW t \in Wide, ts = <<s, t>> PROVE Last(ts) \in Text
        BY <4>2, SessionAssumption DEF Last
      <4> QED BY <4>1, <4>2
    <3> QED BY <3>2, <3>3
  <2>4. CASE \E op \in {"close", "hover", "definition", "completion"}, u \in Uri : M = Message(op, u, <<>>)
    <3>1. PICK op \in {"close", "hover", "definition", "completion"}, u \in Uri : M = Message(op, u, <<>>)
      BY <2>4
    <3>2. m.op = op /\ m.uri = u BY <1>1, <3>1 DEF Message
    <3> QED BY <3>2
  <2>5. CASE \E op \in {"unknown", "notice", "shutdown", "exit"} : M = Plain(op)
    <3>1. m.op \in {"unknown", "notice", "shutdown", "exit"} BY <1>1, <2>5 DEF Message, Plain
    <3> QED BY <3>1
  <2> DEFINE initialize == {Message("initialize", NoUri, <<s>>) : s \in Setting}
             open == {Message("open", u, <<t>>) : u \in Uri, t \in Text}
             change == {Message("change", u, ts) : u \in Uri, ts \in {<<>>} \union {<<t>> : t \in Text}
                                                         \union {<<s, t>> : s \in Text, t \in Wide}}
             ask == {Message(op, u, <<>>) : op \in {"close", "hover", "definition", "completion"}, u \in Uri}
             plain == {Plain(op) : op \in {"unknown", "notice", "shutdown", "exit"}}
  <2>6. M \in initialize \/ M \in open \/ M \in change \/ M \in ask \/ M \in plain
    <3>1. FrameMessages = initialize \union open \union change \union ask \union plain
      BY DEF FrameMessages
    <3> HIDE DEF initialize, open, change, ask, plain
    <3> QED BY <1>3, <3>1
  <2>7. CASE M \in initialize BY <2>1, <2>7
  <2>8. CASE M \in open BY <2>2, <2>8
  <2>9. CASE M \in change BY <2>3, <2>9
  <2>10. CASE M \in ask BY <2>4, <2>10
  <2>11. CASE M \in plain BY <2>5, <2>11
  <2> HIDE DEF initialize, open, change, ask, plain
  <2> QED BY <2>6, <2>7, <2>8, <2>9, <2>10, <2>11
<1> QED BY <1>2, <1>3 DEF Known, M

LEMMA SendAdds ==
  ASSUME CodecOK, NEW m, Send(m), m \in IF wire = "frame" THEN FrameMessages ELSE LineMessages
  PROVE  \E r, us : Added(r, us) /\ Known(All + 1, r)
<1>1. PICK us \in Written(Len(sent) + 1, m) :
        LET odd == us # Usual(Len(sent) + 1, m)
        IN  /\ sent' = Append(sent, [op |-> m.op, uri |-> m.uri, texts |-> m.texts, odd |-> odd])
            /\ pipe' = pipe \o us
  BY DEF Send
<1> DEFINE r == [op |-> m.op, uri |-> m.uri, texts |-> m.texts, odd |-> us # Usual(Len(sent) + 1, m)]
<1>2. r.op = m.op /\ r.uri = m.uri /\ r.texts = m.texts OBVIOUS
<1>3. sent' = Append(sent, r) /\ pipe' = pipe \o us BY <1>1
<1> HIDE DEF r
<1>4. \A i : Body(i, r) = Body(i, m) BY <1>2 DEF Body
<1>5. us \in Written(All + 1, r) BY <1>1, <1>4 DEF Written, Frames, Lines, All
<1>6. Added(r, us) BY <1>3, <1>5 DEF Added, Send
<1>7. Message(m.op, m.uri, m.texts) = m
  BY DEF Message, FrameMessages, LineMessages, Plain
<1>8. m.op = "initialize" => Len(sent) = 0 BY DEF Send, Legal
<1>9. Known(All + 1, r) BY <1>2, <1>7, <1>8 DEF Known, All
<1> QED BY <1>6, <1>9

(***************************************************************************)
(* What the documents, the settings and the replies are at each message:   *)
(* the server holds what the client had written up to the one it handled.  *)
(***************************************************************************)
Told == [n \in 0 .. All |-> [u \in Uri |-> TextAsOf(n, u)]]
Answers == [i \in 1 .. All |-> AnswerDue(i)]

Held(u) == IF u \in DOMAIN docs THEN <<docs[u]>> ELSE <<>>
Due(u) == IF u \in DOMAIN docs THEN <<docs[u], setting>> ELSE <<>>

\* The server holds, shows and is set to what the client had written up to the
\* last message handled.
ServerInv ==
  /\ ServerTypes
  /\ \A i \in 1 .. All : Known(i, sent[i])
  /\ setting = SettingAsOf(Done)
  /\ Done = 0 => DOMAIN docs = {}
  /\ \A u \in Uri : Told[Done][u] = Held(u)
  /\ \A u \in Uri : ShownFor(u) = Due(u)

\* The numbered replies are those due for the messages handled, in order.
ReplyInv ==
  /\ \A k \in Replies : /\ out[k].to \in 1 .. Done /\ sent[out[k].to].op \in Requests
                        /\ ~cut => out[k].of = Answers[out[k].to]
  /\ \A k, l \in Replies : k < l => out[k].to < out[l].to
  /\ \A i \in 1 .. Done : sent[i].op \in Requests => \E k \in Replies : out[k].to = i

Inv == Texts /\ ServerInv /\ ReplyInv

LEMMA TextStep ==
  ASSUME All \in Nat, NEW i \in 1 .. All, NEW u
  PROVE  TextAsOf(i, u) = IF Touches(sent[i], u)
                          THEN IF sent[i].op = "close" THEN <<>> ELSE <<Last(sent[i].texts)>>
                          ELSE TextAsOf(i - 1, u)
<1> DEFINE T == {j \in 1 .. i : Touches(sent[j], u)}
<1>1. i \in Nat /\ i >= 1 OBVIOUS
<1>2. CASE Touches(sent[i], u)
  <2>1. i \in T /\ T \in SUBSET Nat /\ \A j \in T : j <= i BY <1>1, <1>2
  <2>2. Max(T) = i BY <2>1, MaxIs
  <2> QED BY <1>2, <2>1, <2>2 DEF TextAsOf
<1>3. CASE ~Touches(sent[i], u)
  <2>1. T = {j \in 1 .. (i - 1) : Touches(sent[j], u)} BY <1>1, <1>3
  <2> QED BY <1>3, <2>1 DEF TextAsOf
<1> QED BY <1>2, <1>3

LEMMA TextKept ==
  ASSUME All \in Nat, NEW n \in 0 .. All, NEW u, All <= All', \A i \in 1 .. All : sent'[i] = sent[i]
  PROVE  TextAsOf(n, u)' = TextAsOf(n, u)
<1> DEFINE T == {j \in 1 .. n : Touches(sent[j], u)}
           R == {j \in 1 .. n : Touches(sent'[j], u)}
<1>1. n \in Nat /\ \A j \in 1 .. n : j \in 1 .. All OBVIOUS
<1>2. R = T BY <1>1
<1>3. T # {} => Max(T) \in T BY <1>1, MaxIn
<1>4. T # {} => sent'[Max(T)] = sent[Max(T)] BY <1>1, <1>3
<1>5. TextAsOf(n, u)' = IF R = {} \/ sent'[Max(R)].op = "close" THEN <<>>
                        ELSE <<Last(sent'[Max(R)].texts)>>
  BY DEF TextAsOf
<1>6. TextAsOf(n, u) = IF T = {} \/ sent[Max(T)].op = "close" THEN <<>>
                        ELSE <<Last(sent[Max(T)].texts)>>
  BY DEF TextAsOf
<1> HIDE DEF T, R
<1> QED BY <1>2, <1>4, <1>5, <1>6

LEMMA SettingStep ==
  ASSUME All \in Nat, NEW i \in 1 .. All, Known(i, sent[i])
  PROVE  SettingAsOf(i) = IF sent[i].op = "initialize" THEN sent[i].texts[1] ELSE SettingAsOf(i - 1)
<1>1. sent[i].op = "initialize" => i = 1 BY DEF Known
<1>2. i \in Nat /\ i >= 1 /\ (i # 1 => i - 1 > 0) OBVIOUS
<1> QED BY <1>1, <1>2 DEF SettingAsOf

LEMMA ShownStep ==
  ASSUME IsSeq(out), NEW e, out' = Append(out, e), NEW u
  PROVE  ShownFor(u)' = IF e.is = "diagnostics" /\ e.to = u THEN e.of ELSE ShownFor(u)
<1> DEFINE P == {k \in 1 .. Len(out) : out[k].is = "diagnostics" /\ out[k].to = u}
           Q == {k \in 1 .. Len(out') : out'[k].is = "diagnostics" /\ out'[k].to = u}
<1>1. /\ Len(out) \in Nat /\ Len(out') = Len(out) + 1 /\ out'[Len(out) + 1] = e
      /\ \A k \in 1 .. Len(out) : out'[k] = out[k]
  BY Appended
<1>2. ShownFor(u)' = IF Q = {} THEN <<>> ELSE out'[Max(Q)].of BY DEF ShownFor
<1>3. ShownFor(u) = IF P = {} THEN <<>> ELSE out[Max(P)].of BY DEF ShownFor
<1>4. CASE e.is = "diagnostics" /\ e.to = u
  <2>1. Len(out) + 1 \in Q /\ Q \in SUBSET Nat /\ \A k \in Q : k <= Len(out) + 1 BY <1>1, <1>4
  <2>2. Max(Q) = Len(out) + 1 BY <2>1, MaxIs
  <2> HIDE DEF Q
  <2> QED BY <1>1, <1>2, <1>4, <2>1, <2>2
<1>5. CASE ~(e.is = "diagnostics" /\ e.to = u)
  <2>1. Q = P
    <3>1. \A k \in 1 .. Len(out') : k \in 1 .. Len(out) \/ k = Len(out) + 1 BY <1>1
    <3>2. \A k \in 1 .. Len(out) : k \in 1 .. Len(out') BY <1>1
    <3> QED BY <1>1, <1>5, <3>1, <3>2
  <2>2. P # {} => Max(P) \in 1 .. Len(out) BY <1>1, MaxIn
  <2> HIDE DEF P, Q
  <2>3. P # {} => out'[Max(P)] = out[Max(P)] BY <1>1, <2>2
  <2> QED BY <1>2, <1>3, <1>5, <2>1, <2>3
<1> QED BY <1>4, <1>5

LEMMA ShownSame == ASSUME out' = out, NEW u PROVE ShownFor(u)' = ShownFor(u)
BY DEF ShownFor

LEMMA ToldSame == ASSUME sent' = sent PROVE Told' = Told /\ Answers' = Answers
BY DEF Told, Answers, All, TextAsOf, AnswerDue, SettingAsOf

LEMMA ToldKept ==
  ASSUME All \in Nat, All' = All + 1, \A i \in 1 .. All : sent'[i] = sent[i]
  PROVE  /\ \A n \in 0 .. All : Told'[n] = Told[n]
         /\ \A i \in 1 .. All : Answers'[i] = Answers[i]
<1>1. \A n \in 0 .. All, u \in Uri \union {NoUri} : TextAsOf(n, u)' = TextAsOf(n, u) BY TextKept
<1>2. \A n \in 0 .. All : n \in 0 .. All' OBVIOUS
<1>3. ASSUME NEW n \in 0 .. All PROVE Told'[n] = Told[n]
  <2>1. \A u \in Uri : TextAsOf(n, u)' = TextAsOf(n, u) BY <1>1
  <2>2. Told[n] = [u \in Uri |-> TextAsOf(n, u)] BY DEF Told
  <2>3. Told'[n] = [u \in Uri |-> TextAsOf(n, u)'] BY <1>2 DEF Told
  <2> QED BY <2>1, <2>2, <2>3
<1>4. ASSUME NEW i \in 1 .. All PROVE Answers'[i] = Answers[i]
  <2>1. i \in 1 .. All' /\ i \in 0 .. All /\ 1 \in 1 .. All BY <1>2
  <2>2. Answers'[i] = AnswerDue(i)' /\ Answers[i] = AnswerDue(i) BY <2>1 DEF Answers
  <2>3. sent'[i] = sent[i] /\ sent'[1] = sent[1] BY <2>1
  <2>4. PICK u : u = sent[i].uri OBVIOUS
  <2>5. TextAsOf(i, u)' = TextAsOf(i, u) BY <2>1, TextKept
  <2>6. SettingAsOf(i)' = SettingAsOf(i) BY <2>3 DEF SettingAsOf
  <2>7. sent'[i].uri = u BY <2>3, <2>4
  <2>8. AnswerDue(i)' = AnswerDue(i) BY <2>3, <2>4, <2>5, <2>6, <2>7 DEF AnswerDue
  <2> QED BY <2>2, <2>8
<1> QED BY <1>3, <1>4

(***************************************************************************)
(* Replies: a turn answers its own request and nothing else does.          *)
(***************************************************************************)
LEMMA DueOf ==
  ASSUME NEW i
  PROVE  /\ sent[i].op = "initialize" => AnswerDue(i) = <<"capabilities">>
         /\ sent[i].op = "shutdown" => AnswerDue(i) = <<>>
         /\ sent[i].op = "unknown" => AnswerDue(i) = <<"unknown">>
         /\ sent[i].op = "unnamed" => AnswerDue(i) = <<"unnamed">>
         /\ sent[i].op = "call" => AnswerDue(i) = sent[i].texts
         /\ sent[i].op = "hover" =>
              AnswerDue(i) = IF TextAsOf(i, sent[i].uri) = <<>> THEN <<>>
                             ELSE TextAsOf(i, sent[i].uri) \o <<SettingAsOf(i)>>
         /\ sent[i].op = "definition" => AnswerDue(i) = TextAsOf(i, sent[i].uri)
         /\ sent[i].op = "completion" =>
              AnswerDue(i) = IF TextAsOf(i, sent[i].uri) = <<>> THEN <<"">>
                             ELSE TextAsOf(i, sent[i].uri)
<1>1. sent[i].op = "initialize" => AnswerDue(i) = <<"capabilities">> BY DEF AnswerDue
<1>2. sent[i].op = "shutdown" => AnswerDue(i) = <<>> BY DEF AnswerDue
<1>3. sent[i].op = "unknown" => AnswerDue(i) = <<"unknown">> BY DEF AnswerDue
<1>4. sent[i].op = "unnamed" => AnswerDue(i) = <<"unnamed">> BY DEF AnswerDue
<1>5. sent[i].op = "call" => AnswerDue(i) = sent[i].texts BY DEF AnswerDue
<1>6. sent[i].op = "hover" =>
        AnswerDue(i) = IF TextAsOf(i, sent[i].uri) = <<>> THEN <<>>
                       ELSE TextAsOf(i, sent[i].uri) \o <<SettingAsOf(i)>>
  BY DEF AnswerDue
<1>7. sent[i].op = "definition" => AnswerDue(i) = TextAsOf(i, sent[i].uri) BY DEF AnswerDue
<1>8. sent[i].op = "completion" =>
        AnswerDue(i) = IF TextAsOf(i, sent[i].uri) = <<>> THEN <<"">>
                       ELSE TextAsOf(i, sent[i].uri)
  BY DEF AnswerDue
<1> QED BY <1>1, <1>2, <1>3, <1>4, <1>5, <1>6, <1>7, <1>8

LEMMA RepliesAppended ==
  ASSUME IsSeq(out), NEW e, out' = Append(out, e)
  PROVE  /\ IsSeq(out') /\ Len(out) \in Nat /\ out'[Len(out) + 1] = e
         /\ \A k \in Replies : k \in 1 .. Len(out) /\ out'[k] = out[k]
         /\ Replies' = Replies \union (IF e.is = "reply" /\ e.to # 0 THEN {Len(out) + 1} ELSE {})
<1> DEFINE P == {k \in 1 .. Len(out) : out[k].is = "reply" /\ out[k].to # 0}
           Q == {k \in 1 .. Len(out') : out'[k].is = "reply" /\ out'[k].to # 0}
           n == Len(out) + 1
<1>1. /\ IsSeq(out') /\ Len(out) \in Nat /\ Len(out') = n /\ out'[n] = e
      /\ \A k \in 1 .. Len(out) : out'[k] = out[k]
  BY Appended
<1>2. Replies = P /\ Replies' = Q BY DEF Replies
<1>3. \A k : k \in 1 .. Len(out') <=> k \in 1 .. Len(out) \/ k = n BY <1>1
<1>4. \A k : k \in 1 .. Len(out) => k # n BY <1>1
<1>5. Q = P \union (IF e.is = "reply" /\ e.to # 0 THEN {n} ELSE {})
  <2> HIDE DEF n
  <2>1. \A k : k \in Q <=> (k \in P \/ (k = n /\ e.is = "reply" /\ e.to # 0)) BY <1>1, <1>3, <1>4
  <2> QED BY <2>1
<1> QED BY <1>1, <1>2, <1>5

LEMMA QuietReplies ==
  ASSUME CodecOK, IsSeq(out), ReplyInv, Done' = Done, cut => cut',
         \A i \in 1 .. All : sent'[i].op = sent[i].op /\ Answers'[i] = Answers[i],
         out' = out \/ \E e : out' = Append(out, e) /\ ~(e.is = "reply" /\ e.to # 0)
  PROVE  ReplyInv' /\ IsSeq(out')
<1>1. Replies' = Replies /\ IsSeq(out') /\ \A k \in Replies : out'[k] = out[k]
  <2>1. CASE out' = out BY <2>1 DEF Replies
  <2>2. ASSUME NEW e, out' = Append(out, e), ~(e.is = "reply" /\ e.to # 0)
        PROVE  Replies' = Replies /\ IsSeq(out') /\ \A k \in Replies : out'[k] = out[k]
    BY <2>2, RepliesAppended
  <2> QED BY <2>1, <2>2
<1>2. \A i \in 1 .. Done : i \in 1 .. All BY DEF CodecOK
<1> QED BY <1>1, <1>2 DEF ReplyInv

LEMMA TurnReplies ==
  ASSUME CodecOK, IsSeq(out), ReplyInv, NEW i, i = Done + 1, Done' = i, i \in 1 .. All,
         UNCHANGED <<sent, cut>>,
         \/ sent[i].op \in Requests /\ \E of : Reply(i, of) /\ (~cut => of = AnswerDue(i))
         \/ sent[i].op \notin Requests /\ (out' = out \/ \E e : out' = Append(out, e) /\ e.is # "reply")
  PROVE  ReplyInv' /\ IsSeq(out')
<1>0. /\ Done \in Nat /\ \A j \in 1 .. i : j \in 1 .. Done \/ j = i
      /\ \A j \in 1 .. Done : j \in 1 .. i /\ j < i
      /\ i \in Nat /\ i \in 1 .. i
  BY DEF CodecOK
<1>1. Answers' = Answers BY ToldSame
<1>2. CASE sent[i].op \in Requests /\ \E of : Reply(i, of) /\ (~cut => of = AnswerDue(i))
  <2>1. PICK of : Reply(i, of) /\ (~cut => of = AnswerDue(i)) BY <1>2
  <2>2. PICK e : e = [is |-> "reply", to |-> i, of |-> of] OBVIOUS
  <2>3. e.is = "reply" /\ e.to = i /\ e.of = of /\ i # 0 BY <1>0, <2>2
  <2>4. out' = Append(out, e) BY <2>1, <2>2 DEF Reply
  <2>5. PICK n : n = Len(out) + 1 OBVIOUS
  <2>6. /\ IsSeq(out') /\ Len(out) \in Nat /\ out'[n] = e
        /\ \A k \in Replies : k \in 1 .. Len(out) /\ out'[k] = out[k]
        /\ Replies' = Replies \union {n}
    BY <2>3, <2>4, <2>5, RepliesAppended
  <2>7. \A k \in Replies : k \in Nat /\ k < n BY <2>5, <2>6
  <2>8. ~cut => of = Answers[i] BY <2>1 DEF Answers
  <2>9. ASSUME NEW k \in Replies'
        PROVE  /\ out'[k].to \in 1 .. i /\ sent[out'[k].to].op \in Requests
               /\ ~cut => out'[k].of = Answers[out'[k].to]
    <3>1. CASE k \in Replies BY <1>0, <2>6, <3>1 DEF ReplyInv
    <3>2. CASE k = n BY <1>0, <1>2, <2>3, <2>6, <2>8, <3>2
    <3> QED BY <2>6, <3>1, <3>2
  <2>10. ASSUME NEW k \in Replies', NEW l \in Replies', k < l
         PROVE  out'[k].to < out'[l].to
    <3>1. CASE k \in Replies /\ l \in Replies BY <2>6, <2>10, <3>1 DEF ReplyInv
    <3>2. CASE k \in Replies /\ l = n BY <1>0, <2>3, <2>6, <3>2 DEF ReplyInv
    <3>3. CASE k = n
      <4>1. l \in Nat /\ n \in Nat /\ l <= n BY <2>5, <2>6, <2>7
      <4> QED BY <2>10, <3>3, <4>1
    <3> QED BY <2>6, <3>1, <3>2, <3>3
  <2>11. ASSUME NEW j \in 1 .. i, sent[j].op \in Requests PROVE \E k \in Replies' : out'[k].to = j
    <3>1. CASE j \in 1 .. Done BY <2>6, <2>11, <3>1 DEF ReplyInv
    <3>2. CASE j = i BY <2>3, <2>6, <3>2
    <3> QED BY <1>0, <3>1, <3>2
  <2> QED BY <1>1, <2>6, <2>9, <2>10, <2>11 DEF ReplyInv
<1>3. CASE sent[i].op \notin Requests /\ (out' = out \/ \E e : out' = Append(out, e) /\ e.is # "reply")
  <2>1. Replies' = Replies /\ IsSeq(out') /\ \A k \in Replies : out'[k] = out[k]
    <3>1. CASE out' = out BY <3>1 DEF Replies
    <3>2. ASSUME NEW e, out' = Append(out, e), e.is # "reply"
          PROVE  Replies' = Replies /\ IsSeq(out') /\ \A k \in Replies : out'[k] = out[k]
      BY <3>2, RepliesAppended
    <3> QED BY <1>3, <3>1, <3>2
  <2>2. \A j \in 1 .. i : sent[j].op \in Requests => j \in 1 .. Done BY <1>0, <1>3
  <2> QED BY <1>0, <1>1, <2>1, <2>2, SMTT(30) DEF ReplyInv
<1> QED BY <1>2, <1>3

(***************************************************************************)
(* The server's own state, after a turn and where there was none.          *)
(***************************************************************************)
\* What a message makes of the document u, and of the settings.
NextHeld(m, u) ==
  IF Touches(m, u) THEN IF m.op = "close" THEN <<>> ELSE <<Last(m.texts)>> ELSE Held(u)
NextSetting(m) == IF m.op = "initialize" THEN m.texts[1] ELSE setting

LEMMA TurnKnown ==
  ASSUME CodecOK, ServerInv, NEW i, i = Done + 1, i \in 1 .. All
  PROVE  /\ Known(i, sent[i])
         /\ \A u \in Uri : TextAsOf(i, u) = NextHeld(sent[i], u)
         /\ SettingAsOf(i) = NextSetting(sent[i])
         /\ sent[i].op = "initialize" => \A u \in Uri : Held(u) = <<>> /\ u \notin DOMAIN docs
<1>1. Known(i, sent[i]) BY DEF ServerInv
<1>2. Done \in Nat /\ All \in Nat /\ i - 1 = Done /\ Done \in 0 .. All BY DEF CodecOK
<1>3. PICK n : n = Done OBVIOUS
<1>4. \A u \in Uri : TextAsOf(n, u) = Held(u) BY <1>2, <1>3 DEF ServerInv, Told
<1>5. SettingAsOf(n) = setting BY <1>3 DEF ServerInv
<1>6. \A u \in Uri : TextAsOf(i, u) = NextHeld(sent[i], u)
  BY <1>2, <1>3, <1>4, TextStep DEF NextHeld
<1>7. SettingAsOf(i) = NextSetting(sent[i]) BY <1>1, <1>2, <1>3, <1>5, SettingStep DEF NextSetting
<1>8. sent[i].op = "initialize" => n = 0 BY <1>1, <1>2, <1>3 DEF Known
<1>9. sent[i].op = "initialize" => DOMAIN docs = {} BY <1>3, <1>8 DEF ServerInv
<1> QED BY <1>1, <1>6, <1>7, <1>9 DEF Held

LEMMA TurnServer ==
  ASSUME Texts, ServerInv, NEW i, Arrives(i), ServerTypes',
         setting' = NextSetting(sent[i]),
         \A u \in Uri : Held(u)' = NextHeld(sent[i], u) /\ ShownFor(u)' = Due(u)'
  PROVE  ServerInv'
<1>0. CodecInv /\ CodecOK BY DEF Texts, CodecInv
<1>1. i = Done + 1 /\ i \in 1 .. All /\ Done' = i BY <1>0, ArrivesCodec
<1>2. /\ \A u \in Uri : TextAsOf(i, u) = NextHeld(sent[i], u)
      /\ SettingAsOf(i) = NextSetting(sent[i])
  BY <1>0, <1>1, TurnKnown
<1>3. sent' = sent /\ wire' = wire BY DEF Arrives
<1>4. All' = All /\ Told' = Told BY <1>3, ToldSame DEF All
<1>5. SettingAsOf(i)' = SettingAsOf(i) BY <1>3 DEF SettingAsOf
<1>6. setting' = SettingAsOf(Done)' BY <1>1, <1>2, <1>5
<1>7. i # 0 /\ i \in 0 .. All BY <1>0, <1>1 DEF CodecOK
<1>8. \A u \in Uri : Told'[Done'][u] = Held(u)' BY <1>1, <1>2, <1>4, <1>7 DEF Told
<1>9. \A j \in 1 .. All' : Known(j, sent[j])' BY <1>3, <1>4 DEF ServerInv, Known
<1> QED BY <1>1, <1>6, <1>7, <1>8, <1>9 DEF ServerInv

LEMMA QuietServer ==
  ASSUME CodecOK, ServerInv, UNCHANGED <<wire, sent, handled, docs, setting>>, ServerTypes',
         \A u \in Uri : ShownFor(u)' = ShownFor(u)
  PROVE  ServerInv'
<1>1. Told' = Told /\ Done' = Done /\ All' = All BY ToldSame DEF Done, All
<1>2. SettingAsOf(Done)' = SettingAsOf(Done) BY DEF SettingAsOf, Done
<1>3. \A j \in 1 .. All' : Known(j, sent[j])' BY <1>1 DEF ServerInv, Known
<1>4. \A u \in Uri : Held(u)' = Held(u) /\ Due(u)' = Due(u) BY DEF Held, Due
<1> QED BY <1>1, <1>2, <1>3, <1>4 DEF ServerInv

LEMMA AddedServer ==
  ASSUME CodecInv, ServerInv, NEW r, NEW us, Added(r, us), Known(All + 1, r), UNCHANGED <<server, out>>
  PROVE  ServerInv' /\ \A i \in 1 .. All : sent'[i].op = sent[i].op /\ Answers'[i] = Answers[i]
<1>0. CodecOK /\ IsSeq(sent) BY DEF CodecInv
<1>1. /\ All' = All + 1 /\ sent'[All + 1] = r
      /\ \A i \in 1 .. All : sent'[i] = sent[i]
  BY <1>0, AddedParts
<1>2. PICK a, N : a = Done /\ N = All OBVIOUS
<1>3. /\ wire' = wire /\ Done' = a /\ All' = N + 1 /\ a \in Nat /\ N \in Nat /\ a <= N
      /\ docs' = docs /\ setting' = setting /\ out' = out
  BY <1>0, <1>1, <1>2 DEF Added, Done, CodecOK, server
<1>4. /\ \A n \in 0 .. All : Told'[n] = Told[n]
      /\ \A i \in 1 .. All : Answers'[i] = Answers[i]
  BY <1>1, <1>2, <1>3, ToldKept
<1>5. SettingAsOf(a)' = SettingAsOf(a)
  <2>1. a > 0 => 1 \in 1 .. All BY <1>2, <1>3
  <2> QED BY <1>1, <2>1 DEF SettingAsOf
<1>6. setting' = SettingAsOf(Done)' BY <1>2, <1>3, <1>5 DEF ServerInv
<1>7. a \in 0 .. All BY <1>2, <1>3
<1>8. \A j \in 1 .. N + 1 : j \in 1 .. N \/ j = N + 1 BY <1>3
<1>9. \A j \in 1 .. N : Known(j, sent[j]) BY <1>2 DEF ServerInv
<1>10. \A j \in 1 .. All' : Known(j, sent[j])' BY <1>1, <1>2, <1>3, <1>8, <1>9 DEF Known
<1>11. \A u \in Uri : ShownFor(u)' = ShownFor(u) /\ Held(u)' = Held(u) /\ Due(u)' = Due(u)
  BY <1>3, ShownSame DEF Held, Due
<1>12. ServerTypes' BY DEF ServerInv, ServerTypes, IsSeq, server
<1>13. \A u \in Uri : Told'[Done'][u] = Held(u)' BY <1>2, <1>3, <1>4, <1>7, <1>11 DEF ServerInv
<1>14. Done' = 0 => DOMAIN docs' = {} BY <1>2, <1>3 DEF ServerInv
<1>15. \A u \in Uri : ShownFor(u)' = Due(u)' BY <1>11 DEF ServerInv
<1> QED BY <1>1, <1>4, <1>6, <1>10, <1>12, <1>13, <1>14, <1>15 DEF ServerInv

(***************************************************************************)
(* A turn that replies, one that does neither, and one that publishes.     *)
(***************************************************************************)
LEMMA Turn ==
  ASSUME Inv, NEW i, Arrives(i)
  PROVE  /\ CodecOK /\ IsSeq(out) /\ i = Done + 1 /\ i \in 1 .. All /\ Done' = i /\ Texts'
         /\ UNCHANGED <<sent, cut>>
         /\ ~cut => Read(Taken, i) = sent[i].texts
         /\ Known(i, sent[i])
         /\ \A u \in Uri : TextAsOf(i, u) = NextHeld(sent[i], u)
         /\ SettingAsOf(i) = NextSetting(sent[i])
         /\ sent[i].op = "initialize" => \A u \in Uri : Held(u) = <<>> /\ u \notin DOMAIN docs
<1>1. Texts /\ ServerInv /\ CodecInv /\ CodecOK BY DEF Inv, Texts, CodecInv
<1>2. i = Done + 1 /\ i \in 1 .. All /\ Done' = i BY <1>1, ArrivesCodec
<1>3. Texts' /\ (~cut => Read(Taken, i) = sent[i].texts) BY <1>1, ArrivesTexts
<1> QED BY <1>1, <1>2, <1>3, TurnKnown DEF Arrives, ServerInv, ServerTypes

LEMMA RepliedKept ==
  ASSUME Inv, NEW i, Arrives(i), NEW of, Reply(i, of), ~cut => of = AnswerDue(i),
         sent[i].op \in Requests, UNCHANGED docs, setting' = NextSetting(sent[i]),
         shutdown' \in BOOLEAN, running' \in BOOLEAN
  PROVE  Inv'
<1>1. /\ CodecOK /\ IsSeq(out) /\ i = Done + 1 /\ i \in 1 .. All /\ Done' = i /\ Texts'
      /\ UNCHANGED <<sent, cut>> /\ Known(i, sent[i])
      /\ sent[i].op = "initialize" => \A u \in Uri : Held(u) = <<>> /\ u \notin DOMAIN docs
  BY Turn
<1>2. Texts /\ ServerInv /\ ReplyInv BY DEF Inv
<1>3. ReplyInv' /\ IsSeq(out') BY <1>1, <1>2, TurnReplies
<1>4. setting' \in Setting \union {Started}
  BY <1>1, <1>2, KnownFacts DEF NextSetting, ServerInv, ServerTypes
<1>5. ServerTypes' BY <1>2, <1>3, <1>4 DEF ServerInv, ServerTypes
<1>6. ASSUME NEW u \in Uri PROVE Held(u)' = NextHeld(sent[i], u)
  <2>1. ~Touches(sent[i], u) BY DEF Touches, Requests
  <2>2. Held(u)' = Held(u) BY DEF Held
  <2> QED BY <2>1, <2>2 DEF NextHeld
<1>7. ASSUME NEW u \in Uri PROVE ShownFor(u)' = Due(u)'
  <2>1. PICK e : e = [is |-> "reply", to |-> i, of |-> of] OBVIOUS
  <2>2. out' = Append(out, e) /\ e.is = "reply" BY <2>1 DEF Reply
  <2>3. ShownFor(u)' = ShownFor(u)
    <3>1. ~(e.is = "diagnostics" /\ e.to = u) BY <2>2
    <3>2. ShownFor(u)' = IF e.is = "diagnostics" /\ e.to = u THEN e.of ELSE ShownFor(u)
      BY <1>1, <2>2, ShownStep
    <3> QED BY <3>1, <3>2
  <2>4. Due(u)' = Due(u) BY <1>1 DEF Due, NextSetting
  <2> QED BY <1>2, <2>3, <2>4 DEF ServerInv
<1>8. ServerInv' BY <1>2, <1>5, <1>6, <1>7, TurnServer
<1> QED BY <1>1, <1>3, <1>8 DEF Inv

LEMMA IgnoredKept ==
  ASSUME Inv, NEW i, Arrives(i), sent[i].op \notin Requests, \A u \in Uri : ~Touches(sent[i], u),
         out' = out \/ \E e : out' = Append(out, e) /\ e.is \notin {"reply", "diagnostics"},
         UNCHANGED <<docs, setting, shutdown>>, running' \in BOOLEAN
  PROVE  Inv'
<1>1. /\ CodecOK /\ IsSeq(out) /\ i = Done + 1 /\ i \in 1 .. All /\ Done' = i /\ Texts'
      /\ UNCHANGED <<sent, cut>>
  BY Turn
<1>2. Texts /\ ServerInv /\ ReplyInv BY DEF Inv
<1>3. ReplyInv' /\ IsSeq(out') BY <1>1, <1>2, TurnReplies
<1>4. setting' = NextSetting(sent[i]) BY DEF NextSetting, Requests
<1>5. ServerTypes' BY <1>2, <1>3 DEF ServerInv, ServerTypes
<1>6. \A u \in Uri : Held(u)' = NextHeld(sent[i], u) BY DEF Held, NextHeld
<1>7. ASSUME NEW u \in Uri PROVE ShownFor(u)' = Due(u)'
  <2>1. ShownFor(u)' = ShownFor(u)
    <3>1. CASE out' = out BY <3>1, ShownSame
    <3>2. ASSUME NEW e, out' = Append(out, e), e.is \notin {"reply", "diagnostics"}
          PROVE  ShownFor(u)' = ShownFor(u)
      BY <1>1, <3>2, ShownStep
    <3> QED BY <3>1, <3>2
  <2>2. Due(u)' = Due(u) BY DEF Due
  <2> QED BY <1>2, <2>1, <2>2 DEF ServerInv
<1>8. ServerInv' BY <1>2, <1>4, <1>5, <1>6, <1>7, TurnServer
<1> QED BY <1>1, <1>3, <1>8 DEF Inv

LEMMA PublishedKept ==
  ASSUME Inv, NEW i, Arrives(i), NEW uri \in Uri, NEW of, Publish(uri, of),
         sent[i].uri = uri, sent[i].op \notin Requests, UNCHANGED <<setting, shutdown, running>>,
         docs' \in [DOMAIN docs' -> Text], DOMAIN docs' \subseteq Uri,
         \A u \in Uri : Held(u)' = NextHeld(sent[i], u),
         of = Due(uri)', \A u \in Uri \ {uri} : Due(u)' = Due(u)
  PROVE  Inv'
<1>1. /\ CodecOK /\ IsSeq(out) /\ i = Done + 1 /\ i \in 1 .. All /\ Done' = i /\ Texts'
      /\ UNCHANGED <<sent, cut>>
  BY Turn
<1>2. Texts /\ ServerInv /\ ReplyInv BY DEF Inv
<1>3. PICK e : e = [is |-> "diagnostics", to |-> uri, of |-> of] OBVIOUS
<1>4. out' = Append(out, e) /\ e.is = "diagnostics" /\ e.to = uri /\ e.of = of BY <1>3 DEF Publish
<1>5. e.is # "reply" BY <1>4
<1>6. ReplyInv' /\ IsSeq(out') BY <1>1, <1>2, <1>4, <1>5, TurnReplies
<1>7. setting' = NextSetting(sent[i]) BY DEF NextSetting, Requests
<1>8. ASSUME NEW u \in Uri PROVE ShownFor(u)' = Due(u)'
  <2>1. ShownFor(u)' = IF e.is = "diagnostics" /\ e.to = u THEN e.of ELSE ShownFor(u)
    BY <1>1, <1>4, ShownStep
  <2>2. CASE u = uri BY <1>4, <2>1, <2>2
  <2>3. CASE u # uri
    <3>1. Due(u)' = Due(u) BY <2>3
    <3> QED BY <1>2, <1>4, <2>1, <2>3, <3>1 DEF ServerInv
  <2> QED BY <2>2, <2>3
<1>9. ServerTypes' BY <1>2, <1>6 DEF ServerInv, ServerTypes
<1>10. ServerInv' BY <1>2, <1>7, <1>8, <1>9, TurnServer
<1> QED BY <1>1, <1>6, <1>10 DEF Inv

(***************************************************************************)
(* One step per action.                                                    *)
(***************************************************************************)
LEMMA SendKept ==
  ASSUME Inv, NEW m \in IF wire = "frame" THEN FrameMessages ELSE LineMessages, Send(m)
  PROVE  Inv'
<1>1. Texts /\ CodecInv /\ CodecOK /\ ServerInv /\ ReplyInv BY DEF Inv, Texts, CodecInv
<1>2. PICK r, us : Added(r, us) /\ Known(All + 1, r) BY <1>1, SendAdds
<1>3. UNCHANGED <<docs, setting, shutdown, running, out, handled, cut>> BY DEF Send
<1>4. Texts' BY <1>1, <1>2, <1>3, AddedTexts
<1>5. ServerInv' /\ \A i \in 1 .. All : sent'[i].op = sent[i].op /\ Answers'[i] = Answers[i]
  BY <1>1, <1>2, <1>3, AddedServer DEF server
<1>6. IsSeq(out) /\ Done' = Done BY <1>1, <1>3 DEF ServerInv, ServerTypes, Done
<1>7. ReplyInv' BY <1>1, <1>3, <1>5, <1>6, QuietReplies
<1> QED BY <1>4, <1>5, <1>7 DEF Inv

\* What changes neither the messages, nor the documents, nor a numbered reply.
LEMMA QuietKept ==
  ASSUME Inv, Texts', UNCHANGED <<wire, sent, handled, docs, setting, shutdown>>,
         running' \in BOOLEAN, cut => cut',
         out' = out \/ \E e : out' = Append(out, e) /\ e.is # "diagnostics" /\ (e.is = "reply" => e.to = 0)
  PROVE  Inv'
<1>1. Texts /\ CodecInv /\ CodecOK /\ ServerInv /\ ReplyInv BY DEF Inv, Texts, CodecInv
<1>2. IsSeq(out) BY <1>1 DEF ServerInv, ServerTypes
<1>3. Answers' = Answers /\ Done' = Done BY ToldSame DEF Done
<1>4. ReplyInv' /\ IsSeq(out') BY <1>1, <1>2, <1>3, QuietReplies
<1>5. ASSUME NEW u \in Uri PROVE ShownFor(u)' = ShownFor(u)
  <2>1. CASE out' = out BY <2>1, ShownSame
  <2>2. ASSUME NEW e, out' = Append(out, e), e.is # "diagnostics" PROVE ShownFor(u)' = ShownFor(u)
    BY <1>2, <2>2, ShownStep
  <2> QED BY <2>1, <2>2
<1>6. ServerTypes' BY <1>1, <1>4 DEF ServerInv, ServerTypes
<1>7. ServerInv' BY <1>1, <1>5, <1>6, QuietServer
<1> QED BY <1>4, <1>7 DEF Inv

LEMMA PushKept == ASSUME Inv, Push PROVE Inv'
<1>1. PICK k : Pushed(k) /\ cut' = (cut \/ (wire = "line" /\ pipe[k].is = "lead"))
  BY DEF Push, Pushed
<1>2. UNCHANGED <<wire, sent, handled, docs, setting, shutdown, running, out>> BY DEF Push
<1>3. Texts /\ cut \in BOOLEAN /\ running \in BOOLEAN
  BY DEF Inv, Texts, CutInv, ServerInv, ServerTypes
<1>4. Texts' BY <1>1, <1>3, PushedTexts
<1>5. cut => cut' BY <1>1, <1>3
<1> QED BY <1>2, <1>3, <1>4, <1>5, QuietKept

LEMMA UnreadableKept == ASSUME Inv, Unreadable PROVE Inv'
<1>1. Texts' BY UnreadableTexts DEF Inv
<1>2. UNCHANGED <<wire, sent, handled, docs, setting, shutdown, running, cut>> BY DEF Unreadable
<1>3. running \in BOOLEAN BY DEF Inv, ServerInv, ServerTypes
<1>4. out' = out \/ \E e : out' = Append(out, e) /\ e.is # "diagnostics" /\ (e.is = "reply" => e.to = 0)
  <2>1. CASE Reply(0, <<"parse error">>)
    <3>1. PICK e : e = [is |-> "reply", to |-> 0, of |-> <<"parse error">>] OBVIOUS
    <3>2. out' = Append(out, e) /\ e.is = "reply" /\ e.to = 0 BY <2>1, <3>1 DEF Reply
    <3> QED BY <3>2
  <2> QED BY <2>1 DEF Unreadable
<1> QED BY <1>1, <1>2, <1>3, <1>4, QuietKept

LEMMA HangUpKept == ASSUME Inv, HangUp PROVE Inv'
<1>1. UNCHANGED <<wire, sent, pipe, buffer, docs, setting, shutdown, handled, cut>> /\ running' = FALSE
  BY DEF HangUp
<1>2. Texts' BY <1>1, SameTexts DEF Inv
<1>3. PICK e : e = [is |-> "exit", to |-> 0, of |-> <<wire = "line" \/ shutdown>>] OBVIOUS
<1>4. out' = Append(out, e) /\ e.is # "diagnostics" /\ e.is # "reply" BY <1>3 DEF HangUp
<1> QED BY <1>1, <1>2, <1>4, QuietKept

LEMMA InitializeKept == ASSUME Inv, NEW i, Initialize(i) PROVE Inv'
<1>1. Arrives(i) /\ sent[i].op = "initialize" /\ setting' = sent[i].texts[1]
      /\ Reply(i, <<"capabilities">>) /\ UNCHANGED <<docs, shutdown, running>>
  BY DEF Initialize
<1>2. shutdown \in BOOLEAN /\ running \in BOOLEAN BY DEF Inv, ServerInv, ServerTypes
<1>3. setting' = NextSetting(sent[i]) /\ sent[i].op \in Requests BY <1>1 DEF NextSetting, Requests
<1>4. AnswerDue(i) = <<"capabilities">> BY <1>1, DueOf
<1> QED BY <1>1, <1>2, <1>3, <1>4, RepliedKept

LEMMA ShutdownKept == ASSUME Inv, NEW i, Shutdown(i) PROVE Inv'
<1>1. Arrives(i) /\ sent[i].op = "shutdown" /\ shutdown' = TRUE
      /\ Reply(i, <<>>) /\ UNCHANGED <<docs, setting, running>>
  BY DEF Shutdown
<1>2. running \in BOOLEAN BY DEF Inv, ServerInv, ServerTypes
<1>3. setting' = NextSetting(sent[i]) /\ sent[i].op \in Requests BY <1>1 DEF NextSetting, Requests
<1>4. AnswerDue(i) = <<>> BY <1>1, DueOf
<1> QED BY <1>1, <1>2, <1>3, <1>4, RepliedKept

LEMMA ExitKept == ASSUME Inv, NEW i, Exit(i) PROVE Inv'
<1>1. Arrives(i) /\ sent[i].op = "exit" /\ running' = FALSE /\ UNCHANGED <<docs, setting, shutdown>>
      /\ out' = Append(out, [is |-> "exit", to |-> i, of |-> <<shutdown>>])
  BY DEF Exit
<1>2. sent[i].op \notin Requests /\ \A u \in Uri : ~Touches(sent[i], u) BY <1>1 DEF Requests, Touches
<1>3. PICK e : e = [is |-> "exit", to |-> i, of |-> <<shutdown>>] OBVIOUS
<1>4. out' = Append(out, e) /\ e.is \notin {"reply", "diagnostics"} BY <1>1, <1>3
<1> QED BY <1>1, <1>2, <1>4, IgnoredKept

LEMMA NoticeKept == ASSUME Inv, NEW i, Notice(i) PROVE Inv'
<1>1. /\ Arrives(i) /\ UNCHANGED <<docs, setting, shutdown, running, out>>
      /\ sent[i].op = "notice" \/ (sent[i].op = "change" /\ sent[i].texts = <<>>)
  BY DEF Notice
<1>2. sent[i].op \notin Requests /\ \A u \in Uri : ~Touches(sent[i], u) BY <1>1 DEF Requests, Touches
<1>3. running \in BOOLEAN BY DEF Inv, ServerInv, ServerTypes
<1> QED BY <1>1, <1>2, <1>3, IgnoredKept

LEMMA UnknownKept == ASSUME Inv, NEW i, Unknown(i) PROVE Inv'
<1>1. Arrives(i) /\ sent[i].op \in {"unknown", "unnamed"} /\ Reply(i, <<sent[i].op>>)
      /\ UNCHANGED <<docs, setting, shutdown, running>>
  BY DEF Unknown, server
<1>2. shutdown \in BOOLEAN /\ running \in BOOLEAN BY DEF Inv, ServerInv, ServerTypes
<1>3. setting' = NextSetting(sent[i]) /\ sent[i].op \in Requests BY <1>1 DEF NextSetting, Requests
<1>4. AnswerDue(i) = <<sent[i].op>> BY <1>1, DueOf
<1> QED BY <1>1, <1>2, <1>3, <1>4, RepliedKept

LEMMA CallKept == ASSUME Inv, NEW i, Call(i) PROVE Inv'
<1>1. Arrives(i) /\ sent[i].op = "call" /\ Reply(i, Read(Taken, i))
      /\ UNCHANGED <<docs, setting, shutdown, running>>
  BY DEF Call, server
<1>2. shutdown \in BOOLEAN /\ running \in BOOLEAN BY DEF Inv, ServerInv, ServerTypes
<1>3. setting' = NextSetting(sent[i]) /\ sent[i].op \in Requests BY <1>1 DEF NextSetting, Requests
<1>4. ~cut => Read(Taken, i) = AnswerDue(i) BY <1>1, Turn, DueOf
<1>5. PICK of : of = Read(Taken, i) OBVIOUS
<1>6. Reply(i, of) /\ (~cut => of = AnswerDue(i)) BY <1>1, <1>4, <1>5 DEF Reply
<1> QED BY <1>1, <1>2, <1>3, <1>6, RepliedKept

LEMMA Pair == ASSUME NEW x, NEW y PROVE <<x>> \o <<y>> = <<x, y>>
<1> DEFINE S == {x, y}
<1>1. <<x>> \in Seq(S) /\ <<y>> \in Seq(S) /\ <<x, y>> \in Seq(S) OBVIOUS
<1>2. Len(<<x>>) = 1 /\ Len(<<y>>) = 1 /\ Len(<<x, y>>) = 2 OBVIOUS
<1>3. <<x>> \o <<y>> \in Seq(S) /\ Len(<<x>> \o <<y>>) = 2 BY <1>1, <1>2, ConcatProperties
<1>4. (<<x>> \o <<y>>)[1] = x /\ (<<x>> \o <<y>>)[2] = y BY <1>1, <1>2, ConcatProperties
<1> HIDE DEF S
<1>5. \A j \in 1 .. 2 : (<<x>> \o <<y>>)[j] = <<x, y>>[j] BY <1>4
<1> QED BY <1>1, <1>2, <1>3, <1>5, SeqEqual

LEMMA AskKept == ASSUME Inv, NEW i, Ask(i) PROVE Inv'
<1>1. Arrives(i) /\ sent[i].op \in {"hover", "definition", "completion"} /\ Reply(i, Answer(sent[i]))
      /\ UNCHANGED <<docs, setting, shutdown, running>>
  BY DEF Ask, server
<1>2. shutdown \in BOOLEAN /\ running \in BOOLEAN BY DEF Inv, ServerInv, ServerTypes
<1>3. setting' = NextSetting(sent[i]) /\ sent[i].op \in Requests BY <1>1 DEF NextSetting, Requests
<1>4. PICK u : u = sent[i].uri OBVIOUS
<1>5. u \in Uri BY <1>1, <1>4, Turn, KnownFacts
<1>6. TextAsOf(i, u) = Held(u) /\ SettingAsOf(i) = setting
  <2>1. ~Touches(sent[i], u) BY <1>1 DEF Touches
  <2> QED BY <1>1, <1>5, <2>1, Turn DEF NextHeld, NextSetting
<1>7. Answer(sent[i]) = AnswerDue(i)
  <2>1. CASE u \in DOMAIN docs
    <3>1. Held(u) = <<docs[u]>> /\ <<docs[u]>> # <<>> BY <2>1 DEF Held
    <3>2. CASE sent[i].op = "hover"
      <4>1. Answer(sent[i]) = <<docs[u], setting>> BY <1>4, <2>1, <3>2 DEF Answer, Computed
      <4>2. AnswerDue(i) = Held(u) \o <<setting>> BY <1>4, <1>6, <3>1, <3>2, DueOf
      <4>3. <<docs[u]>> \o <<setting>> = <<docs[u], setting>> BY Pair
      <4> QED BY <3>1, <4>1, <4>2, <4>3
    <3>3. CASE sent[i].op # "hover"
      <4>1. Answer(sent[i]) = <<docs[u]>> BY <1>4, <2>1, <3>3 DEF Answer
      <4>2. AnswerDue(i) = Held(u) BY <1>1, <1>4, <1>6, <3>1, <3>3, DueOf
      <4> QED BY <3>1, <4>1, <4>2
    <3> QED BY <3>2, <3>3
  <2>2. CASE u \notin DOMAIN docs
    <3>1. Held(u) = <<>> BY <2>2 DEF Held
    <3>2. Answer(sent[i]) = IF sent[i].op = "completion" THEN <<"">> ELSE <<>>
      BY <1>4, <2>2 DEF Answer
    <3>3. TextAsOf(i, sent[i].uri) = <<>> BY <1>4, <1>6, <3>1
    <3>4. CASE sent[i].op = "hover"
      <4>1. AnswerDue(i) = <<>> BY <3>3, <3>4, DueOf
      <4> QED BY <3>2, <3>4, <4>1
    <3>5. CASE sent[i].op = "definition"
      <4>1. AnswerDue(i) = <<>> BY <3>3, <3>5, DueOf
      <4> QED BY <3>2, <3>5, <4>1
    <3>6. CASE sent[i].op = "completion"
      <4>1. AnswerDue(i) = <<"">> BY <3>3, <3>6, DueOf
      <4> QED BY <3>2, <3>6, <4>1
    <3> QED BY <1>1, <3>4, <3>5, <3>6
  <2> QED BY <2>1, <2>2
<1> QED BY <1>1, <1>2, <1>3, <1>7, RepliedKept

LEMMA DidOpenOrChangeKept == ASSUME Inv, NEW i, DidOpenOrChange(i) PROVE Inv'
<1>1. PICK uri, text : uri = sent[i].uri /\ text = Last(sent[i].texts) OBVIOUS
<1>2. /\ Arrives(i) /\ sent[i].op \in {"open", "change"} /\ sent[i].texts # <<>>
      /\ docs' = [u \in DOMAIN docs \union {uri} |-> IF u = uri THEN text ELSE docs[u]]
      /\ Publish(uri, <<text, setting>>) /\ UNCHANGED <<setting, shutdown, running>>
  BY <1>1 DEF DidOpenOrChange, NewText, Computed
<1>3. docs \in [DOMAIN docs -> Text] /\ DOMAIN docs \subseteq Uri BY DEF Inv, ServerInv, ServerTypes
<1>4. uri \in Uri /\ text \in Text BY <1>1, <1>2, Turn, KnownFacts
<1>5. docs' \in [DOMAIN docs' -> Text] /\ DOMAIN docs' \subseteq Uri
      /\ DOMAIN docs' = DOMAIN docs \union {uri}
  BY <1>2, <1>3, <1>4
<1>6. docs'[uri] = text /\ \A u \in DOMAIN docs : u # uri => docs'[u] = docs[u] BY <1>2
<1>7. sent[i].op \notin Requests BY <1>2 DEF Requests
<1>8. ASSUME NEW u \in Uri PROVE Held(u)' = NextHeld(sent[i], u) /\ (u # uri => Due(u)' = Due(u))
  <2>1. Touches(sent[i], u) <=> u = uri BY <1>1, <1>2 DEF Touches
  <2>2. CASE u = uri
    <3>1. NextHeld(sent[i], u) = <<text>> BY <1>1, <1>2, <2>1, <2>2 DEF NextHeld
    <3>2. Held(u)' = <<text>> BY <1>5, <1>6, <2>2 DEF Held
    <3> QED BY <2>2, <3>1, <3>2
  <2>3. CASE u # uri
    <3>1. NextHeld(sent[i], u) = Held(u) BY <2>1, <2>3 DEF NextHeld
    <3>2. Held(u)' = Held(u) BY <1>5, <1>6, <2>3 DEF Held
    <3>3. Due(u)' = Due(u) BY <1>2, <1>5, <1>6, <2>3 DEF Due
    <3> QED BY <3>1, <3>2, <3>3
  <2> QED BY <2>2, <2>3
<1>9. <<text, setting>> = Due(uri)' BY <1>2, <1>5, <1>6 DEF Due
<1> QED BY <1>1, <1>2, <1>4, <1>5, <1>7, <1>8, <1>9, PublishedKept

LEMMA DidCloseKept == ASSUME Inv, NEW i, DidClose(i) PROVE Inv'
<1>1. PICK uri : uri = sent[i].uri OBVIOUS
<1>2. /\ Arrives(i) /\ sent[i].op = "close"
      /\ docs' = [u \in DOMAIN docs \ {uri} |-> docs[u]]
      /\ Publish(uri, <<>>) /\ UNCHANGED <<setting, shutdown, running>>
  BY <1>1 DEF DidClose, Closed
<1>3. docs \in [DOMAIN docs -> Text] /\ DOMAIN docs \subseteq Uri BY DEF Inv, ServerInv, ServerTypes
<1>4. uri \in Uri BY <1>1, <1>2, Turn, KnownFacts
<1>5. docs' \in [DOMAIN docs' -> Text] /\ DOMAIN docs' \subseteq Uri
      /\ DOMAIN docs' = DOMAIN docs \ {uri}
  BY <1>2, <1>3
<1>6. \A u \in DOMAIN docs : u # uri => docs'[u] = docs[u] BY <1>2
<1>7. sent[i].op \notin Requests BY <1>2 DEF Requests
<1>8. ASSUME NEW u \in Uri PROVE Held(u)' = NextHeld(sent[i], u) /\ (u # uri => Due(u)' = Due(u))
  <2>1. Touches(sent[i], u) <=> u = uri BY <1>1, <1>2 DEF Touches
  <2>2. CASE u = uri
    <3>1. NextHeld(sent[i], u) = <<>> BY <1>2, <2>1, <2>2 DEF NextHeld
    <3>2. Held(u)' = <<>> BY <1>5, <2>2 DEF Held
    <3> QED BY <2>2, <3>1, <3>2
  <2>3. CASE u # uri
    <3>1. NextHeld(sent[i], u) = Held(u) BY <2>1, <2>3 DEF NextHeld
    <3>2. Held(u)' = Held(u) BY <1>5, <1>6, <2>3 DEF Held
    <3>3. Due(u)' = Due(u) BY <1>2, <1>5, <1>6, <2>3 DEF Due
    <3> QED BY <3>1, <3>2, <3>3
  <2> QED BY <2>2, <2>3
<1>9. <<>> = Due(uri)' BY <1>5 DEF Due
<1> QED BY <1>1, <1>2, <1>4, <1>5, <1>7, <1>8, <1>9, PublishedKept

LEMMA InvInit == ASSUME Init PROVE Inv
<1>1. /\ wire \in {"frame", "line"} /\ sent = <<>> /\ pipe = <<>> /\ buffer = <<>> /\ docs = <<>>
      /\ setting = Started /\ shutdown = FALSE /\ running = TRUE /\ out = <<>> /\ handled = <<>> /\ cut = FALSE
  BY SessionAssumption DEF Init
<1>2. Len(<<>>) = 0 /\ \A S : <<>> \in Seq(S) OBVIOUS
<1>3. Done = 0 /\ All = 0 /\ Total = 0 BY <1>1, <1>2 DEF Done, All, Total
<1>4. CodecOK
  <2>1. buffer \in Seq(Units) /\ pipe \in Seq(Units) BY <1>1, <1>2
  <2> QED BY <1>1, <1>3, <2>1 DEF CodecOK
<1>5. Laid([i \in 0 .. 0 |-> 0])
  <2> DEFINE b == [i \in 0 .. 0 |-> 0]
  <2>1. b \in [0 .. 0 -> Nat] /\ b[0] = 0 OBVIOUS
  <2>2. \A i, j \in 0 .. 0 : ~(i < j) OBVIOUS
  <2>3. (0 + 1) .. 0 = {} /\ 1 .. 0 = {} OBVIOUS
  <2> HIDE DEF b
  <2>4. \A i \in 0 .. 0 : \A k \in 1 .. 0 :
          k > b[i] => Stream(k).is = "length" \/ Stream(k).n \in {0} \union ((i + 1) .. 0)
    BY <2>3
  <2>5. \A i \in (0 + 1) .. 0 : \E units \in Written(i, sent[i]) :
          b[i] = b[i - 1] + Len(units) /\ Spells(b[i - 1], units)
    BY <2>3
  <2> QED BY <1>3, <2>1, <2>2, <2>4, <2>5 DEF Laid, b
<1>6. IsSeq(sent) /\ IsSeq(handled) /\ IsSeq(out) BY <1>1, <1>2 DEF IsSeq
<1>7. CodecInv BY <1>4, <1>5, <1>6 DEF CodecInv
<1>8. CutInv /\ HandledInv
  <2>1. 1 .. 0 = {} /\ 2 .. 0 = {} /\ ~(0 >= 1) OBVIOUS
  <2>2. Len(pipe) = 0 /\ Len(buffer) = 0 BY <1>1, <1>2
  <2>3. cut \in BOOLEAN BY <1>1
  <2>4. CutInv BY <2>1, <2>2, <2>3 DEF CutInv
  <2>5. HandledInv BY <1>3, <2>1 DEF HandledInv
  <2> QED BY <2>4, <2>5
<1>9. DOMAIN docs = {} /\ docs \in [DOMAIN docs -> Text] BY <1>1
<1>10. ServerTypes BY <1>1, <1>6, <1>9 DEF ServerTypes
<1>11. SettingAsOf(Done) = setting BY <1>1, <1>3 DEF SettingAsOf
<1>12. ASSUME NEW u \in Uri PROVE Told[Done][u] = Held(u) /\ ShownFor(u) = Due(u)
  <2>1. {i \in 1 .. 0 : Touches(sent[i], u)} = {} OBVIOUS
  <2>2. TextAsOf(0, u) = <<>> BY <2>1 DEF TextAsOf
  <2>3. 0 \in 0 .. All BY <1>3
  <2>4. Told[Done][u] = <<>> BY <1>3, <2>2, <2>3 DEF Told
  <2>5. {k \in 1 .. Len(out) : out[k].is = "diagnostics" /\ out[k].to = u} = {} BY <1>1, <1>2
  <2>6. ShownFor(u) = <<>> BY <2>5 DEF ShownFor
  <2> QED BY <1>9, <2>4, <2>6 DEF Held, Due
<1>13. ServerInv BY <1>3, <1>9, <1>10, <1>11, <1>12 DEF ServerInv
<1>14. Replies = {} BY <1>1, <1>2 DEF Replies
<1>15. ReplyInv BY <1>3, <1>14 DEF ReplyInv
<1> QED BY <1>7, <1>8, <1>13, <1>15 DEF Inv, Texts

LEMMA InvNext == ASSUME Inv, [Next]_vars PROVE Inv'
<1>1. ASSUME NEW m \in IF wire = "frame" THEN FrameMessages ELSE LineMessages, Send(m) PROVE Inv'
  BY <1>1, SendKept
<1>2. ASSUME NEW i \in 1 .. Len(sent), Handle(i) PROVE Inv'
  BY <1>2, InitializeKept, ShutdownKept, ExitKept, DidOpenOrChangeKept, DidCloseKept,
     AskKept, UnknownKept, NoticeKept, CallKept DEF Handle
<1>3. ASSUME UNCHANGED vars PROVE Inv'
  <2>1. Texts' BY <1>3, SameTexts DEF Inv, vars
  <2>2. running' \in BOOLEAN BY <1>3 DEF Inv, ServerInv, ServerTypes, vars
  <2> QED BY <1>3, <2>1, <2>2, QuietKept DEF vars
<1> QED BY <1>1, <1>2, <1>3, PushKept, UnreadableKept, HangUpKept DEF Next

LEMMA InvMeans == ASSUME Inv, wire \in Wires PROVE TypeOK /\ HandledAsSent /\ ShownIsCurrent /\ AnsweredAsAsked
<1>1. Texts /\ CodecInv /\ CodecOK /\ ServerInv /\ ReplyInv /\ CutInv BY DEF Inv, Texts, CodecInv
<1>2. HandledAsSent /\ (Ready => Cardinality(Spelled(Taken)) <= 1) /\ (~Ready => Delivered = 1 .. Done)
  BY <1>1, TextsMean
<1>3. TypeOK
  <2>1. docs \in [DOMAIN docs -> Text] /\ DOMAIN docs \in SUBSET Uri BY <1>1 DEF ServerInv, ServerTypes
  <2>2. docs \in UNION {[us -> Text] : us \in SUBSET Uri} BY <2>1
  <2> QED BY <1>1, <1>2, <2>2 DEF TypeOK, ServerInv, ServerTypes, CutInv
<1>4. ASSUME pipe = <<>>, Idle, NEW u \in Uri
      PROVE  ShownFor(u) = IF TextAsOf(Len(sent), u) = <<>> THEN <<>>
                           ELSE TextAsOf(Len(sent), u) \o <<SettingAsOf(Len(sent))>>
  <2>1. Done = All
    <3>1. Delivered = 1 .. All BY <1>4 DEF Delivered, All
    <3>2. 1 .. Done = 1 .. All BY <1>2, <1>4, <3>1 DEF Idle
    <3> QED BY <1>1, <3>2 DEF CodecOK
  <2>2. PICK n : n = Done OBVIOUS
  <2>3. n = Len(sent) /\ n \in 0 .. All BY <1>1, <2>1, <2>2 DEF All, CodecOK
  <2>4. TextAsOf(n, u) = Held(u) /\ SettingAsOf(n) = setting
    BY <1>1, <2>2, <2>3 DEF ServerInv, Told
  <2>5. ShownFor(u) = Due(u) BY <1>1 DEF ServerInv
  <2>6. CASE u \in DOMAIN docs
    <3>1. Held(u) = <<docs[u]>> /\ <<docs[u]>> # <<>> BY <2>6 DEF Held
    <3>2. Due(u) = <<docs[u]>> \o <<setting>> BY <2>6, Pair DEF Due
    <3> QED BY <2>3, <2>4, <2>5, <3>1, <3>2
  <2>7. CASE u \notin DOMAIN docs BY <2>3, <2>4, <2>5, <2>7 DEF Held, Due
  <2> QED BY <2>6, <2>7
<1>5. ShownIsCurrent BY <1>4 DEF ShownIsCurrent
<1>6. AnsweredAsAsked
  <2>1. SUFFICES ASSUME Idle, ~cut
                 PROVE  /\ {out[k].to : k \in Replies} = {i \in Delivered : sent[i].op \in Requests}
                        /\ \A k, l \in Replies : k < l => out[k].to < out[l].to
                        /\ \A k \in Replies : out[k].of = AnswerDue(out[k].to)
    BY DEF AnsweredAsAsked
  <2>2. Delivered = 1 .. Done /\ \A i \in 1 .. Done : i \in 1 .. All BY <1>1, <1>2, <2>1 DEF Idle, CodecOK
  <2>3. {out[k].to : k \in Replies} = {i \in Delivered : sent[i].op \in Requests}
    BY <1>1, <2>2 DEF ReplyInv
  <2>4. \A k \in Replies : out[k].of = AnswerDue(out[k].to)
    BY <1>1, <2>1, <2>2 DEF ReplyInv, Answers
  <2> QED BY <1>1, <2>3, <2>4 DEF ReplyInv
<1> QED BY <1>2, <1>3, <1>5, <1>6

LEMMA Invariance == Spec => [](Inv /\ wire \in Wires)
<1>1. Init => Inv /\ wire \in Wires BY InvInit DEF Init
<1>2. ASSUME Inv /\ wire \in Wires, [Next]_vars PROVE (Inv /\ wire \in Wires)'
  <2>1. wire' = wire
    BY <1>2 DEF Next, vars, Send, Push, Unreadable, HangUp, Handle, Initialize, Shutdown, Exit,
       DidOpenOrChange, DidClose, Ask, Unknown, Notice, Call, Arrives
  <2> QED BY <1>2, <2>1, InvNext
<1> QED BY <1>1, <1>2, PTL DEF Spec

\* What the server keeps is of its type, and what a turn takes from the
\* buffer spells one message at most: the codecs never run two together.
THEOREM SessionTypes == Spec => []TypeOK
<1>1. Inv /\ wire \in Wires => TypeOK BY InvMeans
<1> QED BY <1>1, Invariance, PTL

\* However the bytes are cut, both servers have between two chunks handled the
\* messages they were handed whole, each once, in order and as written - but
\* for the tool server's texts where a chunk ended inside a character.
THEOREM MessagesAreHandledAsSent == Spec => []HandledAsSent
<1>1. Inv /\ wire \in Wires => HandledAsSent BY InvMeans
<1> QED BY <1>1, Invariance, PTL

\* Once the pipe is empty an editor is shown, for each document, what its own
\* text and settings say, and nothing for one it closed.
THEOREM EditorsSeeTheirText == Spec => []ShownIsCurrent
<1>1. Inv /\ wire \in Wires => ShownIsCurrent BY InvMeans
<1> QED BY <1>1, Invariance, PTL

\* Every request is answered once, in the order they were written, of the text
\* the document had where the request was written.
THEOREM RequestsAreAnsweredInOrder == Spec => []AnsweredAsAsked
<1>1. Inv /\ wire \in Wires => AnsweredAsAsked BY InvMeans
<1> QED BY <1>1, Invariance, PTL
=============================================================================
