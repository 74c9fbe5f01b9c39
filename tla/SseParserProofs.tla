--------------------------- MODULE SseParserProofs ---------------------------
(***************************************************************************)
(* The parser yields each frame of a body as it was sent, wherever the     *)
(* transport cuts the body and wherever it ends (SseParser.tla), for every *)
(* number of frames, in both newline conventions, with and without event   *)
(* lines and comments.                                                     *)
(*                                                                         *)
(* The argument: a heartbeat or a block has one separator, its end.  So    *)
(* the leftmost separator of the buffer is the end of the first of them    *)
(* that it holds, and a buffer without a separator is a proper beginning   *)
(* of the next one.  What the parser makes of such a beginning is read off *)
(* its lines, one lemma for each.                                          *)
(***************************************************************************)
EXTENDS SseParser, FiniteSetTheorems, SequenceTheorems, TLAPS

-----------------------------------------------------------------------------
(* Texts, and the blocks of a script.                                      *)

Symbol ==
    Marks \cup {"beat", "i", "d", "eve", "nt", "da", "ta"}
    \cup {"assistant", "_delta", "local_tool", "_call", "res", "ult"}
    \cup {Digits[k] : k \in 1..MaxFrames}

Text(t, n) == t \in Seq(Symbol) /\ Len(t) = n

\* The n symbols of c stand in t after the first e.
Holds(t, e, c, n) == \A i \in 1..n : t[e + i] = c[i]

Joins(t, c, n, d, m) == Text(t, n + m) /\ Holds(t, 0, c, n) /\ Holds(t, n, d, m)

\* Two texts, one after the other.
LEMMA Joined ==
    ASSUME NEW c, NEW n, NEW d, NEW m, Text(c, n), Text(d, m)
    PROVE  Joins(c \o d, c, n, d, m)
BY DEF Text, Joins, Holds

\* A part of a part of a text is a part of it.
LEMMA Within ==
    ASSUME NEW t, NEW e \in Nat, NEW c, NEW n \in Nat, NEW f \in Nat, NEW d, NEW m \in Nat,
           Holds(t, e, c, n), Holds(c, f, d, m), f + m <= n
    PROVE  Holds(t, e + f, d, m)
<1> SUFFICES ASSUME NEW i \in 1..m PROVE t[(e + f) + i] = d[i]
  BY DEF Holds
<1>1. f + i \in 1..n /\ (e + f) + i = e + (f + i)
  OBVIOUS
<1>2. t[e + (f + i)] = c[f + i] /\ c[f + i] = d[i]
  BY <1>1 DEF Holds
<1> QED
  BY <1>1, <1>2

\* Texts written symbol by symbol.
LEMMA Three ==
    ASSUME NEW a \in Symbol, NEW b \in Symbol, NEW c \in Symbol
    PROVE  Text(<<a, b, c>>, 3)
BY DEF Text

\* The same of four symbols.
LEMMA Four ==
    ASSUME NEW a \in Symbol, NEW b \in Symbol, NEW c \in Symbol, NEW d \in Symbol
    PROVE  Text(<<a, b, c, d>>, 4)
BY DEF Text

\* The same of five.
LEMMA Five ==
    ASSUME NEW a \in Symbol, NEW b \in Symbol, NEW c \in Symbol, NEW d \in Symbol, NEW e \in Symbol
    PROVE  Text(<<a, b, c, d, e>>, 5)
BY DEF Text

\* The same of seven.
LEMMA Seven ==
    ASSUME NEW a \in Symbol, NEW b \in Symbol, NEW c \in Symbol, NEW d \in Symbol, NEW e \in Symbol,
           NEW f \in Symbol, NEW g \in Symbol
    PROVE  Text(<<a, b, c, d, e, f, g>>, 7)
BY DEF Text

\* A newline of w symbols: its last is LF, after CR if there are two.
IsNewline(nl, w) ==
    /\ Text(nl, w) /\ w \in {1, 2}
    /\ nl[w] = LF
    /\ w = 2 => nl[1] = CR

\* The newlines of a script are newlines.
LEMMA NewlineMeans ==
    ASSUME NEW s \in Script
    PROVE  IsNewline(s.newline, Len(s.newline))
<1>1. s.newline \in {<<LF>>, <<CR, LF>>}
  BY DEF Script
<1>2. {CR, LF} \subseteq Symbol
  BY DEF Symbol, Marks
<1>3. <<LF>> \in Seq(Symbol) /\ <<CR, LF>> \in Seq(Symbol)
  <2> HIDE DEF CR, LF
  <2> QED
    BY <1>2
<1>4. Len(<<LF>>) = 1 /\ <<LF>>[1] = LF /\ Len(<<CR, LF>>) = 2 /\ <<CR, LF>>[1] = CR /\ <<CR, LF>>[2] = LF
  OBVIOUS
<1> QED
  BY <1>1, <1>3, <1>4 DEF IsNewline, Text

IdText(D) == <<"i", "d", ":", SP, D>>
EventText == <<"eve", "nt", ":", SP>>
DataText(D) == <<"da", "ta", ":", SP, Open, D, Close>>

\* The pieces of a block that are the same in every script.
LEMMA TextsMean ==
    ASSUME NEW D \in Symbol
    PROVE  Text(IdText(D), 5) /\ Text(EventText, 4) /\ Text(DataText(D), 7)
<1>1. /\ "i" \in Symbol /\ "d" \in Symbol /\ ":" \in Symbol /\ SP \in Symbol
      /\ "eve" \in Symbol /\ "nt" \in Symbol /\ "da" \in Symbol /\ "ta" \in Symbol
      /\ Open \in Symbol /\ Close \in Symbol
  BY DEF Symbol, Marks
<1> QED
  BY <1>1, Four, Five, Seven DEF IdText, EventText, DataText

\* Where the parts of a block are.
IdPart(t, w, nl, D) == Holds(t, 0, IdText(D), 5) /\ Holds(t, 5, nl, w)
EventPart(t, w, nl, name, e) ==
    Holds(t, e, EventText, 4) /\ Holds(t, e + 4, name, 2) /\ Holds(t, e + 6, nl, w)
DataPart(t, w, nl, D, d) ==
    Holds(t, d, DataText(D), 7) /\ Holds(t, d + 7, nl, w) /\ Holds(t, d + 7 + w, nl, w)

BlockOf(nl, D, event) ==
    IdText(D) \o nl \o event \o DataText(D) \o nl \o nl

\* An event line.
LEMMA EventMeans ==
    ASSUME NEW nl, NEW w, IsNewline(nl, w), NEW name, Text(name, 2)
    PROVE  LET t == EventText \o name \o nl
           IN  Text(t, 6 + w) /\ EventPart(t, w, nl, name, 0)
<1> DEFINE c == EventText \o name
           t == c \o nl
<1>1. Joins(c, EventText, 4, name, 2)
  <2>1. Text(EventText, 4)
    BY TextsMean DEF Symbol, Marks
  <2> QED
    BY <2>1, Joined
<1> HIDE DEF c
<1>2. Joins(t, c, 6, nl, w)
  <2>1. Text(c, 6)
    BY <1>1 DEF Joins
  <2> QED
    BY <2>1, Joined DEF IsNewline
<1> HIDE DEF t
<1>3. /\ Holds(t, 0 + 0, EventText, 4)
      /\ Holds(t, 0 + 4, name, 2)
  <2>1. Holds(t, 0, c, 6) /\ Holds(c, 0, EventText, 4) /\ Holds(c, 4, name, 2)
    BY <1>1, <1>2 DEF Joins
  <2>2. Holds(t, 0 + 0, EventText, 4)
    BY <2>1, Within
  <2>3. Holds(t, 0 + 4, name, 2)
    BY <2>1, Within
  <2> QED
    BY <2>2, <2>3
<1>4. Text(t, 6 + w) /\ Holds(t, 6, nl, w)
  BY <1>2 DEF Joins
<1> QED
  BY <1>3, <1>4 DEF EventPart, t, c

\* A block, with an event line of n symbols or, for n = 0, with none.
LEMMA BlockMeans ==
    ASSUME NEW nl, NEW w, IsNewline(nl, w), NEW D \in Symbol,
           NEW event, NEW n \in Nat, Text(event, n)
    PROVE  LET t == BlockOf(nl, D, event)
               d == 5 + w + n
           IN  /\ Text(t, d + 7 + 2 * w)
               /\ IdPart(t, w, nl, D)
               /\ Holds(t, 5 + w, event, n)
               /\ DataPart(t, w, nl, D, d)
<1> DEFINE a == IdText(D) \o nl
           b == a \o event
           c == b \o DataText(D)
           l == c \o nl
           t == l \o nl
           d == 5 + w + n
<1>0. w \in {1, 2} /\ Text(nl, w)
  BY DEF IsNewline
<1>1. Joins(a, IdText(D), 5, nl, w)
  BY <1>0, TextsMean, Joined
<1> HIDE DEF a
<1>2. Joins(b, a, 5 + w, event, n)
  BY <1>1, Joined DEF Joins
<1> HIDE DEF b
<1>3. Joins(c, b, d, DataText(D), 7)
  BY <1>2, TextsMean, Joined DEF Joins
<1> HIDE DEF c
<1>4. Joins(l, c, d + 7, nl, w)
  BY <1>0, <1>3, Joined DEF Joins
<1> HIDE DEF l
<1>5. Joins(t, l, d + 7 + w, nl, w)
  BY <1>0, <1>4, Joined DEF Joins
<1> HIDE DEF t
<1>6. d \in Nat
  BY <1>0
<1> HIDE DEF d
<1>7. Holds(t, 0, l, d + 7 + w) /\ Holds(t, d + 7 + w, nl, w) /\ Text(t, d + 7 + w + w)
  BY <1>5 DEF Joins
<1>8. Holds(t, 0 + 0, c, d + 7) /\ Holds(t, 0 + (d + 7), nl, w)
  BY <1>0, <1>4, <1>6, <1>7, Within DEF Joins
<1>9. Holds(t, 0, c, d + 7) /\ Holds(t, d + 7, nl, w)
  BY <1>6, <1>8
<1>10. Holds(t, 0 + 0, b, d) /\ Holds(t, 0 + d, DataText(D), 7)
  BY <1>3, <1>6, <1>9, Within DEF Joins
<1>11. Holds(t, 0, b, d) /\ Holds(t, d, DataText(D), 7)
  BY <1>6, <1>10
<1>12. Holds(t, 0 + 0, a, 5 + w) /\ Holds(t, 0 + (5 + w), event, n)
  BY <1>0, <1>2, <1>11, Within DEF Joins, d
<1>13. Holds(t, 0, a, 5 + w) /\ Holds(t, 5 + w, event, n)
  BY <1>0, <1>12
<1>14. Holds(t, 0 + 0, IdText(D), 5) /\ Holds(t, 0 + 5, nl, w)
  <2>1. Holds(a, 0, IdText(D), 5) /\ Holds(a, 5, nl, w)
    BY <1>1 DEF Joins
  <2>2. 5 + w \in Nat /\ w \in Nat /\ 0 + 5 <= 5 + w
    BY <1>0
  <2>3. Holds(t, 0 + 0, IdText(D), 5)
    BY <1>13, <2>1, <2>2, Within
  <2>4. Holds(t, 0 + 5, nl, w)
    BY <1>13, <2>1, <2>2, Within
  <2> QED
    BY <2>3, <2>4
<1>15. IdPart(t, w, nl, D)
  BY <1>14 DEF IdPart
<1>16. DataPart(t, w, nl, D, d)
  BY <1>7, <1>9, <1>11 DEF DataPart
<1>17. Text(t, d + 7 + 2 * w)
  BY <1>0, <1>6, <1>7
<1> QED
  BY <1>13, <1>15, <1>16, <1>17 DEF BlockOf, a, b, c, l, t, d

-----------------------------------------------------------------------------
(* The lines of a text.                                                    *)

\* The least number of a set.
LEMMA MinIs ==
    ASSUME NEW S \in SUBSET Int, NEW x \in S, \A y \in S : x <= y
    PROVE  Min(S) = x
<1>1. Min(S) \in S /\ \A y \in S : Min(S) <= y
  <2>1. \E z \in S : \A y \in S : z <= y
    OBVIOUS
  <2> QED
    BY <2>1 DEF Min
<1>2. x \in Int /\ Min(S) \in Int /\ x <= Min(S) /\ Min(S) <= x
  BY <1>1
<1> QED
  BY <1>2

\* The greatest number of a set of one.
LEMMA MaxOfOne ==
    ASSUME NEW x \in Int
    PROVE  Max({x}) = x
BY DEF Max

\* The symbols that SubSeq takes out of a text.
LEMMA Part ==
    ASSUME NEW t \in Seq(Symbol), NEW i \in 1..Len(t) + 1, NEW j \in i - 1..Len(t)
    PROVE  /\ Text(SubSeq(t, i, j), j - i + 1)
           /\ \A n \in 1..j - i + 1 : SubSeq(t, i, j)[n] = t[i + n - 1]
<1>1. \A n \in i..j : t[n] \in Symbol
  OBVIOUS
<1>2. /\ SubSeq(t, i, j) \in Seq(Symbol)
      /\ Len(SubSeq(t, i, j)) = IF i <= j THEN j - i + 1 ELSE 0
      /\ \A n \in 1..j - i + 1 : SubSeq(t, i, j)[n] = t[i + n - 1]
  BY <1>1, SubSeqProperties
<1> QED
  BY <1>2 DEF Text

\* There is one text of no symbols.
LEMMA EmptyText ==
    ASSUME NEW t, Text(t, 0)
    PROVE  t = <<>>
BY DEF Text

\* A text is what its symbols are.
LEMMA SameText ==
    ASSUME NEW t, NEW u, NEW n \in Nat, Text(t, n), Text(u, n), \A i \in 1..n : t[i] = u[i]
    PROVE  t = u
BY SeqEqual DEF Text

\* A prefix of one symbol is the first symbol.
LEMMA StartsWith ==
    ASSUME NEW t \in Seq(Symbol), NEW x \in Symbol
    PROVE  IsPrefix(<<x>>, t) <=> Len(t) > 0 /\ t[1] = x
<1>1. Len(<<x>>) = 1 /\ SubSeq(<<x>>, 1, 1) = <<x>>
  <2>1. <<x>> \in Seq(Symbol) /\ Len(<<x>>) = 1
    OBVIOUS
  <2> QED
    BY <2>1, SubSeqFull
<1>2. ASSUME Len(t) > 0
      PROVE  SubSeq(t, 1, 1) = <<t[1]>>
  <2>1. 1 \in 1..Len(t)
    BY <1>2
  <2>2. SubSeq(t, 1, 1) = SubSeq(t, 1, 0) \o <<t[1]>>
    BY <2>1, SubSeqRecursiveSecond
  <2>3. SubSeq(t, 1, 0) = <<>>
    BY SubSeqEmpty
  <2>4. <<t[1]>> \in Seq(Symbol)
    BY <2>1
  <2> QED
    BY <2>2, <2>3, <2>4, ConcatEmptySeq
<1> QED
  BY <1>1, <1>2 DEF IsPrefix

\* A suffix of one symbol is the last.
LEMMA EndsWith ==
    ASSUME NEW t \in Seq(Symbol), NEW x \in Symbol
    PROVE  IsSuffix(<<x>>, t) <=> Len(t) > 0 /\ t[Len(t)] = x
<1>1. Reverse(<<x>>) = <<x>>
  BY DEF Reverse
<1>2. Reverse(t) \in Seq(Symbol) /\ Len(Reverse(t)) = Len(t)
  BY DEF Reverse
<1>3. Len(t) > 0 => Reverse(t)[1] = t[Len(t)]
  BY DEF Reverse
<1> QED
  BY <1>1, <1>2, <1>3, StartsWith DEF IsSuffix

\* The symbol is dropped if it is there, and nothing else is.
LEMMA Dropped ==
    ASSUME NEW t \in Seq(Symbol), NEW x \in Symbol
    PROVE  /\ DropPrefix(t, <<x>>) =
                  IF Len(t) > 0 /\ t[1] = x THEN SubSeq(t, 2, Len(t)) ELSE t
           /\ DropSuffix(t, <<x>>) =
                  IF Len(t) > 0 /\ t[Len(t)] = x THEN SubSeq(t, 1, Len(t) - 1) ELSE t
<1>1. Len(<<x>>) = 1
  OBVIOUS
<1> QED
  BY <1>1, StartsWith, EndsWith DEF DropPrefix, DropSuffix

\* The line that starts at i and ends before e.
IsLine(raw, i, e) ==
    /\ raw \in Seq(Symbol) /\ i \in 1..Len(raw) + 1 /\ e \in i..Len(raw) + 1
    /\ e = Len(raw) + 1 \/ raw[e] = LF
    /\ \A j \in i..e - 1 : raw[j] # LF

\* The parser finds the end of a line where it is.
LEMMA LineEndsAt ==
    ASSUME NEW raw, NEW i, NEW e, IsLine(raw, i, e)
    PROVE  LineEnd(raw, i) = e
<1> DEFINE S == {j \in i..Len(raw) : raw[j] = LF} \cup {Len(raw) + 1}
<1>1. S \in SUBSET Int /\ e \in S /\ \A j \in S : e <= j
  BY DEF IsLine
<1> HIDE DEF S
<1>2. Min(S) = e
  BY <1>1, MinIs
<1> QED
  BY <1>2 DEF LineEnd, S

\* An empty line, or one of a carriage return.
LEMMA EmptyLine ==
    ASSUME NEW raw, NEW i, NEW e, IsLine(raw, i, e),
           e = i \/ (e = i + 1 /\ raw[i] = CR)
    PROVE  ~Counts(Line(raw, i))
<1> DEFINE l == SubSeq(raw, i, e - 1)
<1>1. Line(raw, i) = DropPrefix(l, <<CR>>)
  BY LineEndsAt DEF Line
<1>2. Text(l, e - i) /\ (e = i + 1 => l[1] = raw[i])
  BY Part DEF IsLine
<1>3. CR \in Symbol
  BY DEF Symbol, Marks
<1> HIDE DEF l
<1>4. CASE e = i
  <2>1. Text(l, 0)
    BY <1>2, <1>4 DEF IsLine
  <2>2. l = <<>> /\ Len(l) = 0 /\ l \in Seq(Symbol)
    BY <2>1, EmptyText DEF Text
  <2>3. DropPrefix(l, <<CR>>) = <<>>
    BY <1>3, <2>2, Dropped
  <2> QED
    BY <1>1, <2>3 DEF Counts
<1>5. CASE e = i + 1 /\ raw[i] = CR
  <2>1. Text(l, 1) /\ l[1] = CR
    BY <1>2, <1>5 DEF IsLine
  <2>2. DropPrefix(l, <<CR>>) = SubSeq(l, 2, 1)
    BY <1>3, <2>1, Dropped DEF Text
  <2>3. SubSeq(l, 2, 1) = <<>>
    BY SubSeqEmpty
  <2> QED
    BY <1>1, <2>2, <2>3 DEF Counts
<1> QED
  BY <1>4, <1>5

\* A line without a carriage return in front.
LEMMA LineIs ==
    ASSUME NEW raw, NEW i, NEW n \in Nat, IsLine(raw, i, i + n), n > 0, raw[i] # CR
    PROVE  /\ Text(Line(raw, i), n)
           /\ \A j \in 1..n : Line(raw, i)[j] = raw[i + j - 1]
<1> DEFINE l == SubSeq(raw, i, i + n - 1)
<1>0. /\ raw \in Seq(Symbol) /\ i \in 1..Len(raw) + 1 /\ i + n - 1 \in i - 1..Len(raw)
      /\ (i + n - 1) - i + 1 = n
  BY DEF IsLine
<1>1. Line(raw, i) = DropPrefix(l, <<CR>>)
  <2>1. LineEnd(raw, i) = i + n
    BY LineEndsAt
  <2>2. SubSeq(raw, i, LineEnd(raw, i) - 1) = l
    BY <1>0, <2>1
  <2> HIDE DEF l
  <2> QED
    BY <2>2 DEF Line
<1>2. Text(l, n) /\ \A j \in 1..n : l[j] = raw[i + j - 1]
  <2> DEFINE e == i + n - 1
  <2>1. /\ Text(SubSeq(raw, i, e), e - i + 1)
        /\ \A j \in 1..e - i + 1 : SubSeq(raw, i, e)[j] = raw[i + j - 1]
    <3> HIDE DEF e
    <3> QED
      BY <1>0, Part DEF e
  <2>2. e - i + 1 = n
    BY <1>0
  <2> HIDE DEF e
  <2> QED
    BY <2>1, <2>2 DEF e
<1>3. l[1] = raw[i]
  BY <1>0, <1>2
<1>4. CR \in Symbol
  BY DEF Symbol, Marks
<1> HIDE DEF l
<1>5. DropPrefix(l, <<CR>>) = l
  BY <1>2, <1>3, <1>4, Dropped DEF Text
<1> QED
  BY <1>1, <1>2, <1>5

-----------------------------------------------------------------------------
(* The fields of a line.                                                   *)

\* Nothing is dropped from an empty value.
LEMMA NothingDropped ==
    ASSUME NEW x \in Symbol
    PROVE  DropSuffix(<<>>, <<x>>) = <<>>
<1>1. <<>> \in Seq(Symbol) /\ ~(Len(<<>>) > 0)
  OBVIOUS
<1> QED
  BY <1>1, Dropped

\* A line without a colon is the name of a field.
LEMMA NoColon ==
    ASSUME NEW l, NEW n \in Nat, Text(l, n), \A i \in 1..n : l[i] # ":"
    PROVE  Field(l) = [name |-> l, value |-> <<>>]
<1>1. {i \in DOMAIN l : l[i] = ":"} = {}
  BY DEF Text
<1> QED
  BY <1>1 DEF Field

\* A line with a colon after two symbols: the value is what follows the space,
\* without a carriage return at the end.
LEMMA ColonAfterTwo ==
    ASSUME NEW l, NEW n \in Nat, Text(l, n), n >= 3,
           l[1] # ":", l[2] # ":", l[3] = ":", n >= 4 => l[4] = SP
    PROVE  /\ Field(l).name = SubSeq(l, 1, 2)
           /\ n <= 4 => Field(l).value = <<>>
           /\ n >= 5 => Field(l).value =
                            IF l[n] = CR THEN SubSeq(l, 5, n - 1) ELSE SubSeq(l, 5, n)
<1> DEFINE colons == {i \in DOMAIN l : l[i] = ":"}
           after == SubSeq(l, 4, n)
           cut == DropPrefix(after, <<SP>>)
<1>0. l \in Seq(Symbol) /\ Len(l) = n /\ DOMAIN l = 1..n
  BY DEF Text
<1>1. 3 \in colons /\ \A i \in colons : 3 <= i
  <2>1. \A i \in 1..n : i < 3 => i = 1 \/ i = 2
    OBVIOUS
  <2> QED
    BY <1>0, <2>1
<1>2. Min(colons) = 3 /\ colons # {}
  <2>1. colons \in SUBSET Int
    BY <1>0
  <2> HIDE DEF colons
  <2> QED
    BY <1>1, <2>1, MinIs
<1>3. Field(l) = [name |-> SubSeq(l, 1, 2), value |-> DropSuffix(cut, <<CR>>)]
  BY <1>0, <1>2 DEF Field
<1>4. CR \in Symbol /\ SP \in Symbol
  BY DEF Symbol, Marks
<1>5. Text(after, n - 3) /\ (n >= 4 => after[1] = SP)
  BY <1>0, Part
<1>6. cut = IF n >= 4 THEN SubSeq(after, 2, n - 3) ELSE after
  <2> HIDE DEF after
  <2> QED
    BY <1>4, <1>5, Dropped DEF Text
<1>7. CASE n = 3
  <2>1. cut = <<>>
    BY <1>6, <1>7, SubSeqEmpty
  <2>2. DropSuffix(cut, <<CR>>) = <<>>
    BY <1>4, <2>1, NothingDropped
  <2> HIDE DEF cut
  <2> QED
    BY <1>3, <1>7, <2>2
<1>8. CASE n = 4
  <2>1. cut = <<>>
    BY <1>6, <1>8, SubSeqEmpty
  <2>2. DropSuffix(cut, <<CR>>) = <<>>
    BY <1>4, <2>1, NothingDropped
  <2> HIDE DEF cut
  <2> QED
    BY <1>3, <1>8, <2>2
<1>9. CASE n >= 5
  <2>1. cut = SubSeq(l, 5, n)
    <3>1. 4 \in 1..Len(l) /\ n \in 1..Len(l) /\ 2 \in 1..n - 4 + 1 /\ n - 3 \in 1..n - 4 + 1
      BY <1>0, <1>9
    <3>2. SubSeq(SubSeq(l, 4, n), 2, n - 3) = SubSeq(l, 4 + 2 - 1, 4 + (n - 3) - 1)
      BY <1>0, <3>1, SubSeqOfSubSeq
    <3>3. 4 + 2 - 1 = 5 /\ 4 + (n - 3) - 1 = n
      OBVIOUS
    <3> HIDE DEF cut
    <3> QED
      BY <1>6, <1>9, <3>2, <3>3
  <2>2. Text(SubSeq(l, 5, n), n - 4) /\ SubSeq(l, 5, n)[n - 4] = l[n]
    BY <1>0, <1>9, Part
  <2>3. SubSeq(SubSeq(l, 5, n), 1, n - 5) = SubSeq(l, 5, n - 1)
    <3>1. CASE n = 5
      <4>1. SubSeq(SubSeq(l, 5, n), 1, 0) = <<>> /\ SubSeq(l, 5, 4) = <<>>
        BY SubSeqEmpty
      <4> QED
        BY <3>1, <4>1
    <3>2. CASE n > 5
      <4>1. 5 \in 1..Len(l) /\ n \in 1..Len(l) /\ 1 \in 1..n - 5 + 1 /\ n - 5 \in 1..n - 5 + 1
        BY <1>0, <3>2
      <4>2. SubSeq(SubSeq(l, 5, n), 1, n - 5) = SubSeq(l, 5 + 1 - 1, 5 + (n - 5) - 1)
        BY <1>0, <4>1, SubSeqOfSubSeq
      <4> QED
        BY <4>2
    <3> QED
      BY <1>9, <3>1, <3>2
  <2> HIDE DEF cut
  <2>4. DropSuffix(cut, <<CR>>) = IF l[n] = CR THEN SubSeq(cut, 1, n - 5) ELSE cut
    <3>1. cut \in Seq(Symbol) /\ Len(cut) = n - 4 /\ cut[n - 4] = l[n] /\ n - 4 > 0
      BY <1>9, <2>1, <2>2 DEF Text
    <3>2. DropSuffix(cut, <<CR>>) =
              IF Len(cut) > 0 /\ cut[Len(cut)] = CR THEN SubSeq(cut, 1, Len(cut) - 1) ELSE cut
      BY <1>4, <3>1, Dropped
    <3>3. (n - 4) - 1 = n - 5
      OBVIOUS
    <3> QED
      BY ONLY <3>1, <3>2, <3>3
  <2>5. Field(l).name = SubSeq(l, 1, 2) /\ Field(l).value = DropSuffix(cut, <<CR>>)
    BY <1>3
  <2>6. ~(n <= 4)
    BY <1>9
  <2> QED
    BY ONLY <2>1, <2>3, <2>4, <2>5, <2>6
<1> QED
  BY <1>7, <1>8, <1>9

\* What the parser finds in the line of n symbols at i: the name of a field,
\* a colon, a space and the value, or as much of that as is there.
IsField(raw, i, n) ==
    /\ IsLine(raw, i, i + n) /\ n \in Nat \ {0}
    /\ raw[i] \notin {CR, ":"}
    /\ n >= 2 => raw[i + 1] # ":"
    /\ n >= 3 => raw[i + 2] = ":"
    /\ n >= 4 => raw[i + 3] = SP

\* How many symbols of it are its value.
ValueLen(raw, i, n) ==
    IF n <= 4 THEN 0 ELSE IF raw[i + n - 1] = CR THEN n - 5 ELSE n - 4

\* The parser reads such a line so.
LEMMA FieldIs ==
    ASSUME NEW raw, NEW i, NEW n, IsField(raw, i, n)
    PROVE  /\ Counts(Line(raw, i))
           /\ n = 1 => Field(Line(raw, i)).name = <<raw[i]>>
           /\ n >= 2 => Field(Line(raw, i)).name = <<raw[i], raw[i + 1]>>
           /\ Text(Value(raw, i), ValueLen(raw, i, n))
           /\ \A j \in 1..ValueLen(raw, i, n) : Value(raw, i)[j] = raw[i + 3 + j]
<1> DEFINE l == Line(raw, i)
           m == ValueLen(raw, i, n)
<1>1. /\ IsLine(raw, i, i + n) /\ n \in Nat /\ n > 0 /\ raw[i] # CR /\ raw[i] # ":"
      /\ raw \in Seq(Symbol) /\ i \in Nat /\ i >= 1 /\ i + n <= Len(raw) + 1
  BY DEF IsField, IsLine
<1>2. Text(l, n) /\ \A j \in 1..n : l[j] = raw[i + j - 1]
  BY <1>1, LineIs
<1>3. /\ l[1] = raw[i]
      /\ n >= 2 => l[2] = raw[i + 1]
      /\ n >= 3 => l[3] = raw[i + 2]
      /\ n >= 4 => l[4] = raw[i + 3]
      /\ n >= 5 => l[n] = raw[i + n - 1]
  BY <1>1, <1>2
<1>4. \A j \in 1..Len(raw) : raw[j] \in Symbol
  BY <1>1
<1> HIDE DEF l
<1>5. Counts(l)
  BY <1>1, <1>2, <1>3 DEF Counts, Text
<1>6. CASE n <= 2
  <2>1. \A j \in 1..n : l[j] # ":"
    BY <1>1, <1>3, <1>6 DEF IsField
  <2>2. Field(l).name = l /\ Field(l).value = <<>>
    BY <1>1, <1>2, <2>1, NoColon
  <2>3. n = 1 => l = <<raw[i]>>
    <3> SUFFICES ASSUME n = 1 PROVE l = <<raw[i]>>
      OBVIOUS
    <3>1. <<raw[i]>> \in Seq(Symbol) /\ Len(<<raw[i]>>) = 1
      BY <1>1, <1>4
    <3> QED
      BY <1>2, <1>3, <3>1, SameText DEF Text
  <2>4. n = 2 => l = <<raw[i], raw[i + 1]>>
    <3> SUFFICES ASSUME n = 2 PROVE l = <<raw[i], raw[i + 1]>>
      OBVIOUS
    <3>1. raw[i] \in Symbol /\ raw[i + 1] \in Symbol
      BY <1>1, <1>4
    <3>2. <<raw[i], raw[i + 1]>> \in Seq(Symbol) /\ Len(<<raw[i], raw[i + 1]>>) = 2
      BY <3>1
    <3> QED
      BY <1>2, <1>3, <3>2, SameText DEF Text
  <2>5. Text(<<>>, 0)
    BY DEF Text
  <2> QED
    BY <1>1, <1>5, <1>6, <2>2, <2>3, <2>4, <2>5 DEF Value, ValueLen, l
<1>7. CASE n >= 3
  <2>1. /\ Field(l).name = SubSeq(l, 1, 2)
        /\ n <= 4 => Field(l).value = <<>>
        /\ n >= 5 => Field(l).value = IF l[n] = CR THEN SubSeq(l, 5, n - 1) ELSE SubSeq(l, 5, n)
    BY <1>1, <1>2, <1>3, <1>7, ColonAfterTwo DEF IsField
  <2>2. SubSeq(l, 1, 2) = <<raw[i], raw[i + 1]>>
    <3>1. raw[i] \in Symbol /\ raw[i + 1] \in Symbol
      BY <1>1, <1>4, <1>7
    <3>2. <<raw[i], raw[i + 1]>> \in Seq(Symbol) /\ Len(<<raw[i], raw[i + 1]>>) = 2
      BY <3>1
    <3>3. Text(SubSeq(l, 1, 2), 2) /\ SubSeq(l, 1, 2)[1] = l[1] /\ SubSeq(l, 1, 2)[2] = l[2]
      BY <1>1, <1>2, <1>7, Part DEF Text
    <3>4. \A j \in 1..2 : SubSeq(l, 1, 2)[j] = <<raw[i], raw[i + 1]>>[j]
      <4>1. <<raw[i], raw[i + 1]>>[1] = raw[i] /\ <<raw[i], raw[i + 1]>>[2] = raw[i + 1]
        OBVIOUS
      <4>2. SubSeq(l, 1, 2)[1] = raw[i] /\ SubSeq(l, 1, 2)[2] = raw[i + 1]
        BY <1>1, <1>3, <1>7, <3>3
      <4>3. \A j \in 1..2 : j = 1 \/ j = 2
        OBVIOUS
      <4> QED
        BY ONLY <4>1, <4>2, <4>3
    <3> QED
      BY <3>2, <3>3, <3>4, SameText DEF Text
  <2>3. n >= 5 => Value(raw, i) = SubSeq(l, 5, 4 + m)
    <3> SUFFICES ASSUME n >= 5 PROVE Value(raw, i) = SubSeq(l, 5, 4 + m)
      OBVIOUS
    <3>1. Value(raw, i) = IF raw[i + n - 1] = CR THEN SubSeq(l, 5, n - 1) ELSE SubSeq(l, 5, n)
      BY <1>3, <2>1 DEF Value, l
    <3>2. 4 + m = IF raw[i + n - 1] = CR THEN n - 1 ELSE n
      BY <1>1 DEF ValueLen
    <3> QED
      BY <3>1, <3>2
  <2>4. n <= 4 => Value(raw, i) = <<>>
    BY <2>1 DEF Value, l
  <2>5. Text(Value(raw, i), m) /\ \A j \in 1..m : Value(raw, i)[j] = raw[i + 3 + j]
    <3>1. CASE n <= 4
      <4>1. m = 0 /\ Text(<<>>, 0)
        BY <3>1 DEF ValueLen, Text
      <4> QED
        BY <2>4, <3>1, <4>1
    <3>2. CASE n >= 5
      <4>1. m \in Nat /\ 4 + m <= n
        BY <1>1, <3>2 DEF ValueLen
      <4> HIDE DEF m
      <4>2. /\ Text(SubSeq(l, 5, 4 + m), m)
            /\ \A j \in 1..m : SubSeq(l, 5, 4 + m)[j] = l[4 + j]
        <5>1. 5 \in 1..Len(l) + 1 /\ 4 + m \in 5 - 1..Len(l) /\ l \in Seq(Symbol)
          BY <1>1, <1>2, <3>2, <4>1 DEF Text
        <5> QED
          BY <4>1, <5>1, Part
      <4>3. \A j \in 1..m : l[4 + j] = raw[i + 3 + j]
        BY <1>1, <1>2, <4>1
      <4> QED
        BY <2>3, <3>2, <4>2, <4>3
    <3> QED
      BY <1>1, <3>1, <3>2
  <2> QED
    BY <1>5, <1>7, <2>1, <2>2, <2>5 DEF l
<1> QED
  BY <1>1, <1>6, <1>7

-----------------------------------------------------------------------------
(* The lines of a block.                                                   *)

\* The lines of a block: n is where its data line starts, after the event
\* line, if there is one, with the name <<a, b>>.
DataAt(w, named) == IF named THEN 12 + 2 * w ELSE 6 + w

IsId(t, w, D) ==
    /\ t[1] = "i" /\ t[2] = "d" /\ t[3] = ":" /\ t[4] = SP /\ t[5] = D
    /\ w = 2 => t[6] = CR
    /\ t[5 + w] = LF

IsEventName(t, w, a, b) ==
    /\ t[6 + w] = "eve" /\ t[7 + w] = "nt" /\ t[8 + w] = ":" /\ t[9 + w] = SP
    /\ t[10 + w] = a /\ t[11 + w] = b
    /\ w = 2 => t[12 + w] = CR
    /\ t[11 + 2 * w] = LF

IsData(t, w, D, d) ==
    /\ t[d] = "da" /\ t[d + 1] = "ta" /\ t[d + 2] = ":" /\ t[d + 3] = SP
    /\ t[d + 4] = Open /\ t[d + 5] = D /\ t[d + 6] = Close
    /\ w = 2 => t[d + 7] = CR /\ t[d + 9] = CR
    /\ t[d + 6 + w] = LF /\ t[d + 6 + 2 * w] = LF

IsBlock(t, w, named, D, a, b) ==
    /\ w \in {1, 2} /\ named \in BOOLEAN
    /\ a \notin Marks /\ b \notin Marks /\ D \notin Marks
    /\ Text(t, DataAt(w, named) + 6 + 2 * w)
    /\ IsId(t, w, D)
    /\ named => IsEventName(t, w, a, b)
    /\ IsData(t, w, D, DataAt(w, named))

\* Where its lines end.
BlockEnds(w, named) ==
    {5 + w} \cup (IF named THEN {11 + 2 * w} ELSE {})
    \cup {DataAt(w, named) + 6 + w, DataAt(w, named) + 6 + 2 * w}

\* A text of w-symbol newlines at these places and nowhere else.
Lines(t, w, ends) ==
    \A i \in 1..Len(t) :
        /\ t[i] = LF <=> i \in ends
        /\ t[i] = CR <=> w = 2 /\ i + 1 \in ends

\* The lines of a block end there.
LEMMA BlockLines ==
    ASSUME NEW t, NEW w, NEW named, NEW D, NEW a, NEW b, IsBlock(t, w, named, D, a, b)
    PROVE  Lines(t, w, BlockEnds(w, named))
<1> DEFINE d == DataAt(w, named)
           E == BlockEnds(w, named)
<1>0. /\ w \in {1, 2} /\ named \in BOOLEAN /\ d \in Nat /\ Len(t) = d + 6 + 2 * w
      /\ d = IF named THEN 12 + 2 * w ELSE 6 + w
      /\ E = {5 + w} \cup (IF named THEN {11 + 2 * w} ELSE {}) \cup {d + 6 + w, d + 6 + 2 * w}
  BY DEF IsBlock, DataAt, Text, BlockEnds
<1> HIDE DEF d, E
<1>1. ASSUME NEW i \in 1..5 + w
      PROVE  (t[i] = LF <=> i \in E) /\ (t[i] = CR <=> w = 2 /\ i + 1 \in E)
  <2>1. i = 1 \/ i = 2 \/ i = 3 \/ i = 4 \/ i = 5 \/ (i = 6 /\ w = 1) \/ (i = 6 /\ w = 2) \/ (i = 7 /\ w = 2)
    BY <1>0, <1>1
  <2>2. IsId(t, w, D) /\ D \notin {CR, LF}
    BY DEF IsBlock, Marks
  <2>3. i \in E <=> i = 5 + w
    BY <1>0, <1>1
  <2>4. i + 1 \in E <=> i + 1 = 5 + w
    BY <1>0, <1>1
  <2> QED
    BY <1>0, <2>1, <2>2, <2>3, <2>4 DEF IsId, CR, LF, SP
<1>2. ASSUME named, NEW i \in 6 + w..11 + 2 * w
      PROVE  (t[i] = LF <=> i \in E) /\ (t[i] = CR <=> w = 2 /\ i + 1 \in E)
  <2>1. \/ i = 6 + w \/ i = 7 + w \/ i = 8 + w \/ i = 9 + w \/ i = 10 + w \/ i = 11 + w
        \/ (i = 12 + w /\ w = 2) \/ i = 11 + 2 * w
    BY <1>0, <1>2
  <2>2. IsEventName(t, w, a, b) /\ a \notin {CR, LF} /\ b \notin {CR, LF}
    BY <1>2 DEF IsBlock, Marks
  <2>3. i \in E <=> i = 11 + 2 * w
    BY <1>0, <1>2
  <2>4. i + 1 \in E <=> i + 1 = 11 + 2 * w
    BY <1>0, <1>2
  <2>5. CASE w = 1
    BY <1>0, <2>1, <2>2, <2>3, <2>5 DEF IsEventName, CR, LF, SP
  <2>6. CASE w = 2
    <3>1. t[i] = LF <=> i = 11 + 2 * w
      BY <1>0, <2>1, <2>2, <2>6 DEF IsEventName, CR, LF, SP
    <3>2. t[i] = CR <=> i + 1 = 11 + 2 * w
      BY <1>0, <2>1, <2>2, <2>6 DEF IsEventName, CR, LF, SP
    <3> QED
      BY <2>3, <2>4, <2>6, <3>1, <3>2
  <2> QED
    BY <1>0, <2>5, <2>6
<1>3. ASSUME NEW i \in d..d + 6 + 2 * w
      PROVE  (t[i] = LF <=> i \in E) /\ (t[i] = CR <=> w = 2 /\ i + 1 \in E)
  <2>1. \/ i = d \/ i = d + 1 \/ i = d + 2 \/ i = d + 3 \/ i = d + 4 \/ i = d + 5 \/ i = d + 6
        \/ (i = d + 7 /\ w = 2) \/ i = d + 6 + w \/ (i = d + 9 /\ w = 2) \/ i = d + 6 + 2 * w
    BY <1>0, <1>3
  <2>2. IsData(t, w, D, d) /\ D \notin {CR, LF}
    BY DEF IsBlock, Marks, d
  <2>3. i \in E <=> i = d + 6 + w \/ i = d + 6 + 2 * w
    BY <1>0, <1>3
  <2>4. i + 1 \in E <=> i + 1 = d + 6 + w \/ i + 1 = d + 6 + 2 * w
    BY <1>0, <1>3
  <2>5. CASE w = 1
    BY <1>0, <2>1, <2>2, <2>3, <2>5 DEF IsData, CR, LF, SP, Open, Close
  <2>6. CASE w = 2
    <3>1. t[i] = LF <=> i = d + 6 + w \/ i = d + 6 + 2 * w
      BY <1>0, <2>1, <2>2, <2>6 DEF IsData, CR, LF, SP, Open, Close
    <3>2. t[i] = CR <=> i + 1 = d + 6 + w \/ i + 1 = d + 6 + 2 * w
      BY <1>0, <2>1, <2>2, <2>6 DEF IsData, CR, LF, SP, Open, Close
    <3> QED
      BY <2>3, <2>4, <2>6, <3>1, <3>2
  <2> QED
    BY <1>0, <2>5, <2>6
<1>4. \A i \in 1..Len(t) : i \in 1..5 + w \/ (named /\ i \in 6 + w..11 + 2 * w) \/ i \in d..d + 6 + 2 * w
  BY <1>0
<1> QED
  BY <1>1, <1>2, <1>3, <1>4 DEF Lines, E

-----------------------------------------------------------------------------
(* Separators.                                                             *)

\* A separator of two symbols, and where it is.
LEMMA PairAt ==
    ASSUME NEW u \in Seq(Symbol), NEW j \in 1..Len(u) - 1
    PROVE  SubSeq(u, j, j + 1) = <<LF, LF>> <=> u[j] = LF /\ u[j + 1] = LF
<1> DEFINE p == SubSeq(u, j, j + 1)
<1>1. Text(p, 2) /\ p[1] = u[j] /\ p[2] = u[j + 1]
  <2>1. j \in 1..Len(u) + 1 /\ j + 1 \in j - 1..Len(u)
    OBVIOUS
  <2>2. Text(p, (j + 1) - j + 1) /\ \A n \in 1..(j + 1) - j + 1 : p[n] = u[j + n - 1]
    BY <2>1, Part
  <2>3. (j + 1) - j + 1 = 2 /\ j + 1 - 1 = j /\ j + 2 - 1 = j + 1
    OBVIOUS
  <2> HIDE DEF p
  <2> QED
    BY <2>2, <2>3
<1> HIDE DEF p
<1>2. LF \in Symbol
  BY DEF Symbol, Marks
<1>3. <<LF, LF>> \in Seq(Symbol) /\ Len(<<LF, LF>>) = 2 /\ <<LF, LF>>[1] = LF /\ <<LF, LF>>[2] = LF
  BY <1>2
<1>4. p = <<LF, LF>> => p[1] = LF /\ p[2] = LF
  BY <1>3
<1>5. ASSUME p[1] = LF, p[2] = LF PROVE p = <<LF, LF>>
  <2>1. \A i \in 1..2 : p[i] = <<LF, LF>>[i]
    <3>1. \A i \in 1..2 : i = 1 \/ i = 2
      OBVIOUS
    <3> QED
      BY <1>3, <1>5, <3>1
  <2> QED
    BY <1>1, <1>3, <2>1, SameText DEF Text
<1> QED
  BY <1>1, <1>4, <1>5 DEF p

\* A separator of four.
LEMMA FourAt ==
    ASSUME NEW u \in Seq(Symbol), NEW j \in 1..Len(u) - 3
    PROVE  SubSeq(u, j, j + 3) = <<CR, LF, CR, LF>> <=>
               u[j] = CR /\ u[j + 1] = LF /\ u[j + 2] = CR /\ u[j + 3] = LF
<1> DEFINE p == SubSeq(u, j, j + 3)
           q == <<CR, LF, CR, LF>>
<1>1. Text(p, 4) /\ p[1] = u[j] /\ p[2] = u[j + 1] /\ p[3] = u[j + 2] /\ p[4] = u[j + 3]
  <2>1. j \in 1..Len(u) + 1 /\ j + 3 \in j - 1..Len(u)
    OBVIOUS
  <2>2. Text(p, (j + 3) - j + 1) /\ \A n \in 1..(j + 3) - j + 1 : p[n] = u[j + n - 1]
    BY <2>1, Part
  <2>3. /\ (j + 3) - j + 1 = 4 /\ j + 1 - 1 = j /\ j + 2 - 1 = j + 1
        /\ j + 3 - 1 = j + 2 /\ j + 4 - 1 = j + 3
    OBVIOUS
  <2> HIDE DEF p
  <2>4. Text(p, 4) /\ \A n \in 1..4 : p[n] = u[j + n - 1]
    BY <2>2, <2>3
  <2>5. p[1] = u[j + 1 - 1] /\ p[2] = u[j + 2 - 1] /\ p[3] = u[j + 3 - 1] /\ p[4] = u[j + 4 - 1]
    BY ONLY <2>4
  <2> QED
    BY <2>3, <2>4, <2>5
<1> HIDE DEF p
<1>2. CR \in Symbol /\ LF \in Symbol
  BY DEF Symbol, Marks
<1>3. Text(q, 4)
  BY <1>2, Four
<1>4. q[1] = CR /\ q[2] = LF /\ q[3] = CR /\ q[4] = LF
  OBVIOUS
<1> HIDE DEF q
<1>5. ASSUME p[1] = CR, p[2] = LF, p[3] = CR, p[4] = LF PROVE p = q
  <2>1. \A i \in 1..4 : p[i] = q[i]
    <3>1. \A i \in 1..4 : i = 1 \/ i = 2 \/ i = 3 \/ i = 4
      OBVIOUS
    <3> QED
      BY <1>4, <1>5, <3>1
  <2> QED
    BY <1>1, <1>3, <2>1, SameText
<1> QED
  BY <1>1, <1>4, <1>5 DEF p, q

\* A text whose only separator is its end.
Closed(t, w, ends) ==
    /\ t \in Seq(Symbol) /\ w \in {1, 2} /\ Lines(t, w, ends)
    /\ Len(t) > 2 * w
    /\ Len(t) \in ends /\ Len(t) - w \in ends
    /\ ends \subseteq Nat
    /\ \A i \in ends : i + w \in ends => i = Len(t) - w
    /\ w = 2 => \A i \in ends : i + 1 \notin ends

\* Where a separator is, in what begins like t.
LEMMA InsideClosed ==
    ASSUME NEW t, NEW w, NEW ends, Closed(t, w, ends),
           NEW u \in Seq(Symbol), \A i \in 1..Len(u) : i <= Len(t) => u[i] = t[i]
    PROVE  /\ \A j \in 1..Len(u) - 1 :
                  u[j] = LF /\ u[j + 1] = LF /\ j < Len(t) => w = 1 /\ j = Len(t) - 1
           /\ \A j \in 1..Len(u) - 3 :
                  u[j] = CR /\ u[j + 1] = LF /\ u[j + 2] = CR /\ u[j + 3] = LF /\ j <= Len(t) - 3 =>
                      w = 2 /\ j = Len(t) - 3
           /\ w = 1 => \A j \in 1..Len(u) : j <= Len(t) => u[j] # CR
<1>0. t \in Seq(Symbol) /\ Len(t) \in Nat /\ Len(u) \in Nat /\ w \in {1, 2}
  BY DEF Closed
<1>1. ASSUME NEW j \in 1..Len(u) - 1, u[j] = LF, u[j + 1] = LF, j < Len(t)
      PROVE  w = 1 /\ j = Len(t) - 1
  <2>1. t[j] = LF /\ t[j + 1] = LF
    BY <1>0, <1>1
  <2>2. j \in ends /\ j + 1 \in ends
    BY <1>0, <1>1, <2>1 DEF Closed, Lines
  <2> QED
    BY <1>0, <2>2 DEF Closed
<1>2. ASSUME NEW j \in 1..Len(u) - 3, j <= Len(t) - 3,
             u[j] = CR, u[j + 1] = LF, u[j + 2] = CR, u[j + 3] = LF
      PROVE  w = 2 /\ j = Len(t) - 3
  <2>1. t[j] = CR /\ t[j + 1] = LF /\ t[j + 3] = LF
    BY <1>0, <1>2
  <2>2. w = 2 /\ j + 1 \in ends /\ j + 3 \in ends
    BY <1>0, <1>2, <2>1 DEF Closed, Lines
  <2>3. j + 1 = Len(t) - 2
    BY <1>0, <2>2 DEF Closed
  <2> QED
    BY <1>0, <2>2, <2>3
<1>3. ASSUME w = 1, NEW j \in 1..Len(u), j <= Len(t)
      PROVE  u[j] # CR
  <2>1. u[j] = t[j] /\ j \in 1..Len(t)
    BY <1>0, <1>3
  <2> QED
    BY <1>3, <2>1 DEF Closed, Lines
<1> QED
  BY <1>1, <1>2, <1>3

\* No separator is in a beginning of such a text.
LEMMA NoneInside ==
    ASSUME NEW t, NEW w, NEW ends, Closed(t, w, ends),
           buffer \in Seq(Symbol), Len(buffer) < Len(t),
           \A i \in 1..Len(buffer) : buffer[i] = t[i]
    PROVE  Separators = {}
<1>0. Len(t) \in Nat /\ Len(buffer) \in Nat
  BY DEF Closed
<1>1. /\ \A j \in 1..Len(buffer) - 1 :
             buffer[j] = LF /\ buffer[j + 1] = LF /\ j < Len(t) => w = 1 /\ j = Len(t) - 1
      /\ \A j \in 1..Len(buffer) - 3 :
             buffer[j] = CR /\ buffer[j + 1] = LF /\ buffer[j + 2] = CR /\ buffer[j + 3] = LF
             /\ j <= Len(t) - 3 => w = 2 /\ j = Len(t) - 3
  BY InsideClosed
<1>2. \A j \in 1..Len(buffer) - 1 : SubSeq(buffer, j, j + 1) # <<LF, LF>>
  BY <1>0, <1>1, PairAt
<1>3. \A j \in 1..Len(buffer) - 3 : SubSeq(buffer, j, j + 3) # <<CR, LF, CR, LF>>
  BY <1>0, <1>1, FourAt
<1> QED
  BY <1>2, <1>3 DEF Separators, LfSeparators, CrLfSeparators

\* Its end is a separator, and every other is after it.
LEMMA OneAtTheEnd ==
    ASSUME NEW t, NEW w, NEW ends, Closed(t, w, ends),
           buffer \in Seq(Symbol), Len(buffer) >= Len(t),
           \A i \in 1..Len(t) : buffer[i] = t[i]
    PROVE  LET end == <<Len(t) - 2 * w + 1, Len(t) + 1>>
           IN  /\ end \in Separators
               /\ \A m \in Separators :
                      m[1] >= end[1] /\ (m[1] <= end[1] => m = end)
<1> DEFINE s == Len(t) - 2 * w + 1
<1>0. /\ Len(t) \in Nat /\ Len(buffer) \in Nat /\ w \in {1, 2} /\ Len(t) > 2 * w
      /\ t \in Seq(Symbol)
  BY DEF Closed
<1>1. /\ \A j \in 1..Len(buffer) - 1 :
             buffer[j] = LF /\ buffer[j + 1] = LF /\ j < Len(t) => w = 1 /\ j = Len(t) - 1
      /\ \A j \in 1..Len(buffer) - 3 :
             buffer[j] = CR /\ buffer[j + 1] = LF /\ buffer[j + 2] = CR /\ buffer[j + 3] = LF
             /\ j <= Len(t) - 3 => w = 2 /\ j = Len(t) - 3
      /\ w = 1 => \A j \in 1..Len(buffer) : j <= Len(t) => buffer[j] # CR
  <2>1. \A i \in 1..Len(buffer) : i <= Len(t) => buffer[i] = t[i]
    BY <1>0
  <2> QED
    BY <2>1, InsideClosed
<1>2. t[Len(t)] = LF /\ t[Len(t) - w] = LF
  BY <1>0 DEF Closed, Lines
<1>3. w = 2 => t[Len(t) - 1] = CR /\ t[Len(t) - 3] = CR
  <2> SUFFICES ASSUME w = 2 PROVE t[Len(t) - 1] = CR /\ t[Len(t) - 3] = CR
    OBVIOUS
  <2>1. Len(t) - 1 \in 1..Len(t) /\ Len(t) - 3 \in 1..Len(t)
        /\ (Len(t) - 1) + 1 = Len(t) /\ (Len(t) - 3) + 1 = Len(t) - 2
    BY <1>0
  <2> QED
    BY <1>0, <2>1 DEF Closed, Lines
<1>4. w = 1 => buffer[s] = LF /\ buffer[s + 1] = LF /\ s \in 1..Len(buffer) - 1
  BY <1>0, <1>2
<1>5. w = 2 => /\ buffer[s] = CR /\ buffer[s + 1] = LF /\ buffer[s + 2] = CR /\ buffer[s + 3] = LF
               /\ s \in 1..Len(buffer) - 3
  BY <1>0, <1>2, <1>3
<1>6. <<s, Len(t) + 1>> \in Separators
  <2>1. CASE w = 1
    <3>1. s \in {j \in 1..Len(buffer) - 1 : SubSeq(buffer, j, j + 1) = <<LF, LF>>} /\ s + 2 = Len(t) + 1
      BY <1>0, <1>4, <2>1, PairAt
    <3> QED
      BY <3>1 DEF Separators, LfSeparators
  <2>2. CASE w = 2
    <3>1. /\ s \in {j \in 1..Len(buffer) - 3 : SubSeq(buffer, j, j + 3) = <<CR, LF, CR, LF>>}
          /\ s + 4 = Len(t) + 1
      BY <1>0, <1>5, <2>2, FourAt
    <3> QED
      BY <3>1 DEF Separators, CrLfSeparators
  <2> QED
    BY <1>0, <2>1, <2>2
<1>7. ASSUME NEW m \in LfSeparators
      PROVE  m[1] >= s /\ (m[1] <= s => m = <<s, Len(t) + 1>>)
  <2>1. PICK j \in 1..Len(buffer) - 1 :
            m = <<j, j + 2>> /\ buffer[j] = LF /\ buffer[j + 1] = LF
    BY <1>7, PairAt DEF LfSeparators
  <2>2. m[1] = j
    BY <2>1
  <2>3. CASE w = 1
    <3>1. j >= s /\ (j <= s => j = s /\ j + 2 = Len(t) + 1)
      BY <1>0, <1>1, <2>1, <2>3
    <3> QED
      BY <2>1, <2>2, <3>1
  <2>4. CASE w = 2
    <3>1. j >= Len(t) /\ Len(t) > s
      BY <1>0, <1>1, <2>1, <2>4
    <3> QED
      BY <1>0, <2>2, <3>1
  <2> QED
    BY <1>0, <2>3, <2>4
<1>8. ASSUME NEW m \in CrLfSeparators
      PROVE  m[1] >= s /\ (m[1] <= s => m = <<s, Len(t) + 1>>)
  <2>1. PICK j \in 1..Len(buffer) - 3 :
            /\ m = <<j, j + 4>> /\ buffer[j] = CR /\ buffer[j + 1] = LF
            /\ buffer[j + 2] = CR /\ buffer[j + 3] = LF
    BY <1>8, FourAt DEF CrLfSeparators
  <2>2. m[1] = j
    BY <2>1
  <2>3. CASE w = 1
    <3>1. j > Len(t) /\ Len(t) > s
      BY <1>0, <1>1, <2>1, <2>3
    <3> QED
      BY <1>0, <2>2, <3>1
  <2>4. CASE w = 2
    <3>1. j >= s /\ (j <= s => j = s /\ j + 4 = Len(t) + 1)
      BY <1>0, <1>1, <2>1, <2>4
    <3> QED
      BY <2>1, <2>2, <3>1
  <2> QED
    BY <1>0, <2>3, <2>4
<1> HIDE DEF s
<1>9. <<s, Len(t) + 1>>[1] = s
  OBVIOUS
<1> QED
  BY <1>6, <1>7, <1>8, <1>9 DEF Separators, s

-----------------------------------------------------------------------------
(* The blocks of a script, symbol by symbol.                               *)

\* The names of the events, two symbols each.
LEMMA NameMeans ==
    ASSUME NEW kind \in Kinds
    PROVE  /\ Text(Name[kind], 2)
           /\ Name[kind][1] \notin Marks /\ Name[kind][2] \notin Marks
           /\ Name[kind] = <<Name[kind][1], Name[kind][2]>>
<1>1. PICK a, b \in {"assistant", "_delta", "local_tool", "_call", "res", "ult"} : Name[kind] = <<a, b>>
  BY DEF Name, Kinds
<1>2. a \notin Marks /\ b \notin Marks
  BY DEF Marks, CR, LF, SP, Open, Close
<1>3. a \in Symbol /\ b \in Symbol
  BY DEF Symbol
<1>4. <<a, b>> \in Seq(Symbol) /\ Len(<<a, b>>) = 2 /\ <<a, b>>[1] = a /\ <<a, b>>[2] = b
  BY <1>3
<1> QED
  BY <1>1, <1>2, <1>4 DEF Text

\* The parts of a script.
LEMMA ScriptMeans ==
    ASSUME NEW s \in Script
    PROVE  /\ Len(s.kinds) \in 1..MaxFrames /\ DOMAIN s.kinds = 1..Len(s.kinds)
           /\ \A k \in 1..Len(s.kinds) : s.kinds[k] \in Kinds
           /\ s.named \in BOOLEAN /\ s.comments \in BOOLEAN
<1>1. /\ s.kinds \in UNION {[1..n -> Kinds] : n \in 1..MaxFrames}
      /\ s.named \in BOOLEAN /\ s.comments \in BOOLEAN
  BY DEF Script
<1>2. PICK n \in 1..MaxFrames : s.kinds \in [1..n -> Kinds]
  BY <1>1
<1>3. Len(s.kinds) = n
  BY <1>2, SseParserAssumption
<1> QED
  BY <1>1, <1>2, <1>3

\* The id line of a block, symbol by symbol.
LEMMA IdIs ==
    ASSUME NEW t, NEW w \in {1, 2}, NEW nl, NEW D, IsNewline(nl, w), IdPart(t, w, nl, D)
    PROVE  IsId(t, w, D)
<1>1. t[0 + 1] = IdText(D)[1] /\ t[0 + 2] = IdText(D)[2] /\ t[0 + 3] = IdText(D)[3]
      /\ t[0 + 4] = IdText(D)[4] /\ t[0 + 5] = IdText(D)[5]
  BY DEF IdPart, Holds
<1>2. t[5 + w] = nl[w] /\ t[5 + 1] = nl[1]
  BY DEF IdPart, Holds
<1>3. IdText(D)[1] = "i" /\ IdText(D)[2] = "d" /\ IdText(D)[3] = ":" /\ IdText(D)[4] = SP
      /\ IdText(D)[5] = D
  BY DEF IdText
<1>4. nl[w] = LF /\ (w = 2 => nl[1] = CR)
  BY DEF IsNewline
<1>5. 0 + 1 = 1 /\ 0 + 2 = 2 /\ 0 + 3 = 3 /\ 0 + 4 = 4 /\ 0 + 5 = 5 /\ 5 + 1 = 6
  OBVIOUS
<1> QED
  BY ONLY <1>1, <1>2, <1>3, <1>4, <1>5 DEF IsId

\* Its event line.
LEMMA EventIs ==
    ASSUME NEW t, NEW w \in {1, 2}, NEW nl, NEW name, NEW l, NEW n \in Nat,
           IsNewline(nl, w), EventPart(l, w, nl, name, 0), n = 6 + w, Holds(t, 5 + w, l, n)
    PROVE  IsEventName(t, w, name[1], name[2])
<1>1. /\ l[0 + 1] = EventText[1] /\ l[0 + 2] = EventText[2] /\ l[0 + 3] = EventText[3]
      /\ l[0 + 4] = EventText[4]
      /\ l[0 + 4 + 1] = name[1] /\ l[0 + 4 + 2] = name[2]
      /\ l[0 + 6 + 1] = nl[1] /\ l[0 + 6 + w] = nl[w]
  BY DEF EventPart, Holds
<1>2. EventText[1] = "eve" /\ EventText[2] = "nt" /\ EventText[3] = ":" /\ EventText[4] = SP
  BY DEF EventText
<1>3. nl[w] = LF /\ (w = 2 => nl[1] = CR)
  BY DEF IsNewline
<1>4. \A i \in 1..6 + w : t[5 + w + i] = l[i]
  BY DEF Holds
<1>5. /\ t[5 + w + 1] = l[1] /\ t[5 + w + 2] = l[2] /\ t[5 + w + 3] = l[3]
      /\ t[5 + w + 4] = l[4] /\ t[5 + w + 5] = l[5] /\ t[5 + w + 6] = l[6] 
      /\ t[5 + w + 7] = l[7] /\ t[5 + w + (6 + w)] = l[6 + w]
  BY <1>4
<1>6. /\ 0 + 1 = 1 /\ 0 + 2 = 2 /\ 0 + 3 = 3 /\ 0 + 4 = 4 /\ 0 + 4 + 1 = 5 /\ 0 + 4 + 2 = 6
      /\ 0 + 6 + 1 = 7 /\ 0 + 6 + w = 6 + w
      /\ 5 + w + 1 = 6 + w /\ 5 + w + 2 = 7 + w /\ 5 + w + 3 = 8 + w /\ 5 + w + 4 = 9 + w
      /\ 5 + w + 5 = 10 + w /\ 5 + w + 6 = 11 + w /\ 5 + w + 7 = 12 + w
      /\ 5 + w + (6 + w) = 11 + 2 * w
  OBVIOUS
<1> QED
  BY ONLY <1>1, <1>2, <1>3, <1>5, <1>6 DEF IsEventName

\* Its data line, and the empty line.
LEMMA DataIs ==
    ASSUME NEW t, NEW w \in {1, 2}, NEW nl, NEW D, NEW d \in Nat,
           IsNewline(nl, w), DataPart(t, w, nl, D, d)
    PROVE  IsData(t, w, D, d + 1)
<1>1. /\ t[d + 1] = DataText(D)[1] /\ t[d + 2] = DataText(D)[2] /\ t[d + 3] = DataText(D)[3]
      /\ t[d + 4] = DataText(D)[4] /\ t[d + 5] = DataText(D)[5] /\ t[d + 6] = DataText(D)[6]
      /\ t[d + 7] = DataText(D)[7]
      /\ t[d + 7 + 1] = nl[1] /\ t[d + 7 + w] = nl[w]
      /\ t[d + 7 + w + 1] = nl[1] /\ t[d + 7 + w + w] = nl[w]
  BY DEF DataPart, Holds
<1>2. /\ DataText(D)[1] = "da" /\ DataText(D)[2] = "ta" /\ DataText(D)[3] = ":" /\ DataText(D)[4] = SP
      /\ DataText(D)[5] = Open /\ DataText(D)[6] = D /\ DataText(D)[7] = Close
  BY DEF DataText
<1>3. nl[w] = LF /\ (w = 2 => nl[1] = CR)
  BY DEF IsNewline
<1>4. /\ d + 1 + 1 = d + 2 /\ d + 1 + 2 = d + 3 /\ d + 1 + 3 = d + 4 /\ d + 1 + 4 = d + 5
      /\ d + 1 + 5 = d + 6 /\ d + 1 + 6 = d + 7 /\ d + 1 + 7 = d + 7 + 1
      /\ w = 2 => d + 1 + 9 = d + 7 + w + 1
      /\ d + 1 + 6 + w = d + 7 + w /\ d + 1 + 6 + 2 * w = d + 7 + w + w
  OBVIOUS
<1> QED
  BY ONLY <1>1, <1>2, <1>3, <1>4 DEF IsData

\* The block of frame k, as the lemmas above have it.
LEMMA BlockIs ==
    ASSUME NEW s \in Script, NEW k \in 1..Len(s.kinds)
    PROVE  LET name == Name[s.kinds[k]]
           IN  IsBlock(Block(s, k), Len(s.newline), s.named, Digits[k], name[1], name[2])
<1> DEFINE name == Name[s.kinds[k]]
           nl == s.newline
           w == Len(s.newline)
           D == Digits[k]
           event == EventLine(s, k)
           t == Block(s, k)
<1>1. IsNewline(nl, w) /\ w \in {1, 2}
  BY NewlineMeans DEF IsNewline
<1>2. s.named \in BOOLEAN /\ s.kinds[k] \in Kinds /\ k \in 1..MaxFrames
  BY ScriptMeans, SseParserAssumption
<1>3. Text(name, 2) /\ name[1] \notin Marks /\ name[2] \notin Marks
  BY <1>2, NameMeans
<1>4. D \in Symbol /\ D \notin Marks
  BY <1>2, SseParserAssumption DEF Symbol
<1>5. t = BlockOf(nl, D, event)
  BY DEF Block, BlockOf, IdText, DataText
<1>6. event = IF s.named THEN EventText \o name \o nl ELSE <<>>
  BY DEF EventLine, EventText
<1> HIDE DEF name, nl, w, D, event, t
<1>7. CASE s.named
  <2> DEFINE n == 6 + w
  <2>1. Text(event, n) /\ EventPart(event, w, nl, name, 0) /\ n \in Nat
    BY <1>1, <1>3, <1>6, <1>7, EventMeans
  <2>2. n = 6 + w
    OBVIOUS
  <2> HIDE DEF n
  <2> DEFINE d == 5 + w + n
  <2>3. /\ Text(t, d + 7 + 2 * w) /\ IdPart(t, w, nl, D)
        /\ Holds(t, 5 + w, event, n) /\ DataPart(t, w, nl, D, d)
    BY <1>1, <1>4, <1>5, <2>1, BlockMeans
  <2>4. d \in Nat /\ d + 1 = DataAt(w, s.named) /\ d + 7 + 2 * w = DataAt(w, s.named) + 6 + 2 * w
    BY <1>1, <1>7, <2>2 DEF DataAt
  <2> HIDE DEF d
  <2>5. IsId(t, w, D)
    BY <1>1, <2>3, IdIs
  <2>6. IsEventName(t, w, name[1], name[2])
    BY <1>1, <2>1, <2>2, <2>3, EventIs
  <2>7. IsData(t, w, D, DataAt(w, s.named))
    BY <1>1, <2>3, <2>4, DataIs
  <2>8. Text(t, DataAt(w, s.named) + 6 + 2 * w)
    BY <2>3, <2>4
  <2> QED
    BY <1>1, <1>2, <1>3, <1>4, <2>5, <2>6, <2>7, <2>8 DEF IsBlock, name, nl, w, D, t
<1>8. CASE ~s.named
  <2> DEFINE n == 0
  <2>1. Text(event, n) /\ n \in Nat
    BY <1>6, <1>8 DEF Text
  <2>2. n = 0
    OBVIOUS
  <2> HIDE DEF n
  <2> DEFINE d == 5 + w + n
  <2>3. /\ Text(t, d + 7 + 2 * w) /\ IdPart(t, w, nl, D) /\ DataPart(t, w, nl, D, d)
    BY <1>1, <1>4, <1>5, <2>1, BlockMeans
  <2>4. d \in Nat /\ d + 1 = DataAt(w, s.named) /\ d + 7 + 2 * w = DataAt(w, s.named) + 6 + 2 * w
    BY <1>1, <1>8, <2>2 DEF DataAt
  <2> HIDE DEF d
  <2>5. IsId(t, w, D)
    BY <1>1, <2>3, IdIs
  <2>7. IsData(t, w, D, DataAt(w, s.named))
    BY <1>1, <2>3, <2>4, DataIs
  <2>8. Text(t, DataAt(w, s.named) + 6 + 2 * w)
    BY <2>3, <2>4
  <2> QED
    BY <1>1, <1>2, <1>3, <1>4, <1>8, <2>5, <2>7, <2>8 DEF IsBlock, name, nl, w, D, t
<1> QED
  BY <1>2, <1>7, <1>8

-----------------------------------------------------------------------------
(* Heartbeats and blocks hold no separator but their end.                  *)

\* The symbols of a heartbeat.
IsBeat(t, w) ==
    /\ w \in {1, 2} /\ Text(t, 3 + 2 * w)
    /\ t[1] = ":" /\ t[2] = SP /\ t[3] = "beat"
    /\ w = 2 => t[4] = CR /\ t[6] = CR
    /\ t[3 + w] = LF /\ t[3 + 2 * w] = LF

BeatEnds(w) == {3 + w, 3 + 2 * w}

\* A heartbeat of a script is that.
LEMMA BeatIs ==
    ASSUME NEW s \in Script, s.comments
    PROVE  IsBeat(Heartbeat(s), Len(s.newline))
<1> DEFINE nl == s.newline
           w == Len(s.newline)
           h == <<":", SP, "beat">>
           l == h \o nl
           t == l \o nl
<1>1. IsNewline(nl, w) /\ w \in {1, 2}
  BY NewlineMeans DEF IsNewline
<1>2. Text(h, 3) /\ h[1] = ":" /\ h[2] = SP /\ h[3] = "beat"
  <2>1. ":" \in Symbol /\ SP \in Symbol /\ "beat" \in Symbol
    BY DEF Symbol, Marks
  <2>2. Text(h, 3)
    BY <2>1, Three
  <2> QED
    BY <2>2
<1>3. Heartbeat(s) = t
  BY DEF Heartbeat
<1> HIDE DEF nl, w, h
<1>4. Joins(l, h, 3, nl, w)
  BY <1>1, <1>2, Joined DEF IsNewline
<1> HIDE DEF l
<1>5. Joins(t, l, 3 + w, nl, w)
  BY <1>1, <1>4, Joined DEF IsNewline, Joins
<1> HIDE DEF t
<1>6. /\ l[0 + 1] = h[1] /\ l[0 + 2] = h[2] /\ l[0 + 3] = h[3]
      /\ l[3 + 1] = nl[1] /\ l[3 + w] = nl[w]
  BY <1>1, <1>4 DEF Joins, Holds
<1>7. /\ t[0 + 1] = l[1] /\ t[0 + 2] = l[2] /\ t[0 + 3] = l[3]
      /\ t[0 + 4] = l[4] /\ t[0 + (3 + w)] = l[3 + w]
      /\ t[3 + w + 1] = nl[1] /\ t[3 + w + w] = nl[w]
      /\ Text(t, 3 + w + w)
  BY <1>1, <1>5 DEF Joins, Holds
<1>8. /\ 0 + 1 = 1 /\ 0 + 2 = 2 /\ 0 + 3 = 3 /\ 0 + 4 = 4 /\ 3 + 1 = 4 /\ 0 + (3 + w) = 3 + w
      /\ (w = 2 => 3 + w + 1 = 6) /\ 3 + w + w = 3 + 2 * w
  BY <1>1
<1>9. nl[w] = LF /\ (w = 2 => nl[1] = CR)
  BY <1>1 DEF IsNewline
<1>10. IsBeat(t, w)
  BY ONLY <1>1, <1>2, <1>6, <1>7, <1>8, <1>9 DEF IsBeat
<1> QED
  BY <1>3, <1>10 DEF w

\* A heartbeat has no separator but the one it ends in.
LEMMA BeatClosed ==
    ASSUME NEW t, NEW w, IsBeat(t, w)
    PROVE  Closed(t, w, BeatEnds(w))
<1> DEFINE E == BeatEnds(w)
<1>0. w \in {1, 2} /\ t \in Seq(Symbol) /\ Len(t) = 3 + 2 * w /\ E = {3 + w, 3 + 2 * w}
  BY DEF IsBeat, Text, BeatEnds
<1>1. ASSUME NEW i \in 1..Len(t)
      PROVE  (t[i] = LF <=> i \in E) /\ (t[i] = CR <=> w = 2 /\ i + 1 \in E)
  <2>1. CASE w = 1
    <3>1. i = 1 \/ i = 2 \/ i = 3 \/ i = 4 \/ i = 5
      BY <1>0, <1>1, <2>1
    <3>2. E = {4, 5}
      BY <1>0, <2>1
    <3> QED
      BY <2>1, <3>1, <3>2 DEF IsBeat, CR, LF, SP
  <2>2. CASE w = 2
    <3>1. i = 1 \/ i = 2 \/ i = 3 \/ i = 4 \/ i = 5 \/ i = 6 \/ i = 7
      BY <1>0, <1>1, <2>2
    <3>2. E = {5, 7}
      BY <1>0, <2>2
    <3> HIDE DEF E
    <3> QED
      BY <2>2, <3>1, <3>2 DEF IsBeat, CR, LF, SP
  <2> QED
    BY <1>0, <2>1, <2>2
<1>2. Lines(t, w, E)
  BY <1>1 DEF Lines
<1> HIDE DEF E
<1> QED
  BY <1>0, <1>2 DEF Closed, E

\* Nor has a block.
LEMMA BlockClosed ==
    ASSUME NEW t, NEW w, NEW named, NEW D, NEW a, NEW b, IsBlock(t, w, named, D, a, b)
    PROVE  Closed(t, w, BlockEnds(w, named))
<1> DEFINE d == DataAt(w, named)
           E == BlockEnds(w, named)
<1>0. /\ w \in {1, 2} /\ named \in BOOLEAN /\ d \in Nat /\ Len(t) = d + 6 + 2 * w
      /\ d = IF named THEN 12 + 2 * w ELSE 6 + w
      /\ E = {5 + w} \cup (IF named THEN {11 + 2 * w} ELSE {}) \cup {d + 6 + w, d + 6 + 2 * w}
      /\ t \in Seq(Symbol)
  BY DEF IsBlock, DataAt, Text, BlockEnds
<1>1. Lines(t, w, E)
  BY BlockLines
<1> HIDE DEF d, E
<1>2. Len(t) \in E /\ Len(t) - w \in E /\ E \subseteq Nat /\ Len(t) > 2 * w
  BY <1>0
<1>3. ASSUME NEW i \in E, i + w \in E PROVE i = Len(t) - w
  BY <1>0, <1>3
<1>4. ASSUME w = 2, NEW i \in E PROVE i + 1 \notin E
  BY <1>0, <1>4
<1> QED
  BY <1>0, <1>1, <1>2, <1>3, <1>4 DEF Closed, E

-----------------------------------------------------------------------------
(* Beginnings of heartbeats and blocks: their lines.                       *)

\* The first c symbols of t.
Begins(raw, t, c) ==
    /\ Text(raw, c) /\ c \in 1..Len(t) - 1
    /\ \A i \in 1..c : raw[i] = t[i]

\* The lines of such a beginning start after the ends of lines of t.
LEMMA StartsAre ==
    ASSUME NEW raw, NEW t, NEW c, NEW w, NEW ends, Begins(raw, t, c), Closed(t, w, ends)
    PROVE  \A i \in LineStarts(raw) : i = 1 \/ \E j \in ends : i = j + 1 /\ j <= c
<1> SUFFICES ASSUME NEW i \in LineStarts(raw), i # 1
             PROVE  \E j \in ends : i = j + 1 /\ j <= c
  OBVIOUS
<1>1. PICK j \in 1..c : raw[j] = LF /\ i = j + 1
  BY DEF LineStarts, Begins, Text
<1>2. j \in 1..Len(t) /\ t[j] = LF
  BY <1>1 DEF Begins, Closed
<1>3. j \in ends
  BY <1>2 DEF Closed, Lines
<1> QED
  BY <1>1, <1>3

\* And after each of those that is there.
LEMMA StartsThere ==
    ASSUME NEW raw, NEW t, NEW c, NEW w, NEW ends, Begins(raw, t, c), Closed(t, w, ends)
    PROVE  1 \in LineStarts(raw) /\ \A j \in ends : j >= 1 /\ j <= c => j + 1 \in LineStarts(raw)
<1>1. ASSUME NEW j \in ends, j >= 1, j <= c PROVE j + 1 \in LineStarts(raw)
  <2>1. j \in 1..c /\ j \in 1..Len(t) /\ c \in Nat
    BY <1>1 DEF Begins, Closed
  <2>2. raw[j] = LF
    BY <2>1 DEF Begins, Closed, Lines
  <2> QED
    BY <2>1, <2>2 DEF LineStarts, Begins, Text
<1> QED
  BY <1>1 DEF LineStarts

\* They end where those of t do, or with it.
LEMMA LineBetween ==
    ASSUME NEW raw, NEW t, NEW c, NEW w, NEW ends, Begins(raw, t, c), Closed(t, w, ends),
           NEW i \in 1..c + 1, NEW e \in i..c + 1, e = c + 1 \/ e \in ends,
           \A j \in ends : j < i \/ j >= e
    PROVE  IsLine(raw, i, e)
<1>1. raw \in Seq(Symbol) /\ Len(raw) = c /\ c \in Nat /\ Len(t) \in Nat /\ c < Len(t)
  BY DEF Begins, Text, Closed
<1>2. ASSUME NEW j \in 1..c PROVE raw[j] = LF <=> j \in ends
  <2>1. j \in 1..Len(t) /\ raw[j] = t[j]
    BY <1>1 DEF Begins
  <2> QED
    BY <2>1 DEF Closed, Lines
<1>3. e = Len(raw) + 1 \/ raw[e] = LF
  BY <1>1, <1>2
<1>4. \A j \in i..e - 1 : raw[j] # LF
  BY <1>1, <1>2
<1> QED
  BY <1>1, <1>3, <1>4 DEF IsLine

\* A heartbeat is not an event, and no part of it is.
LEMMA BeatSaysNothing ==
    ASSUME NEW raw, NEW t, NEW c, NEW w, IsBeat(t, w), Begins(raw, t, c)
    PROVE  ~IsEvent(raw)
<1> DEFINE E == BeatEnds(w)
<1>0. /\ w \in {1, 2} /\ Len(t) = 3 + 2 * w /\ E = {3 + w, 3 + 2 * w} /\ c \in 1..2 + 2 * w
      /\ raw \in Seq(Symbol) /\ Len(raw) = c
  BY DEF IsBeat, Text, BeatEnds, Begins
<1>1. Closed(t, w, E)
  BY BeatClosed
<1> HIDE DEF E
<1>2. ~Counts(Line(raw, 1))
  <2> DEFINE n == IF c < 3 + w THEN c ELSE 2 + w
  <2>1. n \in Nat /\ n > 0 /\ 1 + n \in 1..c + 1 /\ (1 + n = c + 1 \/ 1 + n \in E)
        /\ \A j \in E : j < 1 \/ j >= 1 + n
    BY <1>0
  <2> HIDE DEF n
  <2>2. IsLine(raw, 1, 1 + n)
    <3> DEFINE e == 1 + n
    <3>1. e \in 1..c + 1 /\ (e = c + 1 \/ e \in E) /\ (\A j \in E : j < 1 \/ j >= e) /\ 1 \in 1..c + 1
      BY <1>0, <2>1
    <3> HIDE DEF e
    <3>2. IsLine(raw, 1, e)
      BY <1>1, <3>1, LineBetween
    <3> QED
      BY <3>2 DEF e
  <2>3. raw[1] = ":"
    BY <1>0 DEF Begins, IsBeat
  <2>4. raw[1] # CR
    BY <2>3 DEF CR
  <2>5. Text(Line(raw, 1), n) /\ Line(raw, 1)[1] = raw[1]
    <3>1. Text(Line(raw, 1), n) /\ \A j \in 1..n : Line(raw, 1)[j] = raw[1 + j - 1]
      BY <2>1, <2>2, <2>4, LineIs
    <3>2. 1 \in 1..n /\ 1 + 1 - 1 = 1
      BY <2>1
    <3> QED
      BY <3>1, <3>2
  <2> QED
    BY <2>3, <2>5 DEF Counts
<1>3. c >= 3 + w => ~Counts(Line(raw, 4 + w))
  <2> SUFFICES ASSUME c >= 3 + w PROVE ~Counts(Line(raw, 4 + w))
    OBVIOUS
  <2> DEFINE i == 4 + w
             e == c + 1
  <2>1. i \in 1..c + 1 /\ e \in i..c + 1 /\ \A j \in E : j < i \/ j >= e
    BY <1>0
  <2>2. e = i \/ (e = i + 1 /\ raw[i] = CR)
    <3>1. e = i \/ (w = 2 /\ c = 6)
      BY <1>0
    <3>2. w = 2 /\ c = 6 => raw[i] = CR /\ e = i + 1
      BY <1>0 DEF Begins, IsBeat
    <3> QED
      BY <3>1, <3>2
  <2>3. e = c + 1
    OBVIOUS
  <2> HIDE DEF i, e
  <2>4. IsLine(raw, i, e)
    BY <1>1, <2>1, <2>3, LineBetween
  <2>5. ~Counts(Line(raw, i))
    BY <2>2, <2>4, EmptyLine
  <2> QED
    BY <2>5 DEF i
<1>4. \A i \in LineStarts(raw) : i = 1 \/ (i = 4 + w /\ c >= 3 + w)
  <2>1. \A i \in LineStarts(raw) : i = 1 \/ \E j \in E : i = j + 1 /\ j <= c
    BY <1>1, StartsAre
  <2>2. \A j \in E : j <= c => j + 1 = 4 + w /\ c >= 3 + w
    BY <1>0
  <2> QED
    BY <2>1, <2>2
<1> QED
  BY <1>2, <1>3, <1>4 DEF IsEvent, Fields

\* What is there of the line of n symbols at i.
There(c, i, n) == IF c < i + n THEN c - i + 1 ELSE n

\* The lengths of a block.
LEMMA BlockFacts ==
    ASSUME NEW t, NEW w, NEW named, NEW D, NEW a, NEW b, IsBlock(t, w, named, D, a, b)
    PROVE  LET d == DataAt(w, named)
               E == BlockEnds(w, named)
           IN  /\ w \in {1, 2} /\ named \in BOOLEAN /\ d \in Nat /\ Len(t) = d + 6 + 2 * w
               /\ d = IF named THEN 12 + 2 * w ELSE 6 + w
               /\ E = {5 + w} \cup (IF named THEN {11 + 2 * w} ELSE {}) \cup {d + 6 + w, d + 6 + 2 * w}
               /\ t \in Seq(Symbol)
BY DEF IsBlock, DataAt, Text, BlockEnds

\* A line of t in a beginning of it, cut where the beginning is.
LEMMA LineThere ==
    ASSUME NEW raw, NEW t, NEW c, NEW w, NEW ends, Begins(raw, t, c), Closed(t, w, ends),
           NEW i \in 1..c, NEW n \in Nat \ {0}, i + n \in ends,
           \A j \in ends : j < i \/ j >= i + n
    PROVE  /\ IsLine(raw, i, i + There(c, i, n))
           /\ There(c, i, n) \in 1..n /\ i + There(c, i, n) <= c + 1
<1>0. c \in Nat
  BY DEF Begins, Closed
<1> DEFINE m == There(c, i, n)
           e == i + m
<1>1. m \in 1..n /\ e \in i..c + 1 /\ (e = c + 1 \/ e \in ends) /\ e <= i + n
  BY <1>0 DEF There
<1>2. \A j \in ends : j < i \/ j >= e
  <2>1. ends \subseteq Nat
    BY DEF Closed
  <2> HIDE DEF m
  <2> QED
    BY <1>1, <2>1
<1> HIDE DEF e
<1>3. IsLine(raw, i, e)
  BY <1>0, <1>1, <1>2, LineBetween
<1> QED
  BY <1>1, <1>3 DEF e

\* The first line of what there is of a block.
LEMMA IdLine ==
    ASSUME NEW t, NEW w, NEW named, NEW D, NEW a, NEW b, IsBlock(t, w, named, D, a, b),
           NEW raw, NEW c, Begins(raw, t, c)
    PROVE  IsField(raw, 1, There(c, 1, 4 + w)) /\ raw[1] = "i" /\ (c >= 2 => raw[2] = "d")
<1> DEFINE d == DataAt(w, named)
           E == BlockEnds(w, named)
           m == There(c, 1, 4 + w)
<1>0. /\ w \in {1, 2} /\ named \in BOOLEAN /\ d \in Nat /\ Len(t) = d + 6 + 2 * w
      /\ d = IF named THEN 12 + 2 * w ELSE 6 + w
      /\ E = {5 + w} \cup (IF named THEN {11 + 2 * w} ELSE {}) \cup {d + 6 + w, d + 6 + 2 * w}
      /\ c \in 1..Len(t) - 1
  BY BlockFacts DEF Begins
<1>1. Closed(t, w, E)
  BY BlockClosed
<1> HIDE DEF d, E
<1>2. IsLine(raw, 1, 1 + m) /\ m \in 1..4 + w /\ 1 + m <= c + 1
  <2> DEFINE n == 4 + w
             i == 1
  <2>1. i \in 1..c /\ n \in Nat \ {0} /\ i + n \in E /\ \A j \in E : j < i \/ j >= i + n
    BY <1>0
  <2> HIDE DEF n, i
  <2>2. IsLine(raw, i, i + There(c, i, n)) /\ There(c, i, n) \in 1..n /\ i + There(c, i, n) <= c + 1
    BY <1>1, <2>1, LineThere
  <2> QED
    BY <2>2 DEF n, i
<1> HIDE DEF m
<1>3. m <= c
  BY <1>0, <1>2
<1>4. raw[1] = "i" /\ (c >= 2 => raw[2] = "d") /\ (c >= 3 => raw[3] = ":") /\ (c >= 4 => raw[4] = SP)
  <2>1. IsId(t, w, D)
    BY DEF IsBlock
  <2>2. \A i \in 1..c : raw[i] = t[i]
    BY DEF Begins
  <2> QED
    BY <1>0, <2>1, <2>2 DEF IsId
<1>5. IsField(raw, 1, m)
  BY <1>0, <1>2, <1>3, <1>4 DEF IsField, CR
<1> QED
  BY <1>4, <1>5 DEF m

\* Where its event line starts.
NameAt(w) == 6 + w

NameThere(raw, c, w, i, a, b) ==
    /\ IsField(raw, i, There(c, i, 5 + w))
    /\ raw[i] = "eve" /\ (c >= i + 1 => raw[i + 1] = "nt")
    /\ (c >= i + 4 => raw[i + 4] = a) /\ (c >= i + 5 => raw[i + 5] = b)
    /\ (c >= i + 6 /\ w = 2 => raw[i + 6] = CR)

\* What there is of its event line.
LEMMA NameLine ==
    ASSUME NEW t, NEW w, NEW D, NEW a, NEW b, IsBlock(t, w, TRUE, D, a, b),
           NEW raw, NEW c, Begins(raw, t, c), NEW i, i = NameAt(w), c >= i
    PROVE  NameThere(raw, c, w, i, a, b)
<1> DEFINE d == DataAt(w, TRUE)
           E == BlockEnds(w, TRUE)
           n == 5 + w
           m == There(c, i, n)
<1>0. /\ i = 6 + w /\ w \in {1, 2} /\ d \in Nat /\ Len(t) = d + 6 + 2 * w
      /\ d = 12 + 2 * w
      /\ E = {5 + w, 11 + 2 * w, d + 6 + w, d + 6 + 2 * w}
      /\ c \in 1..Len(t) - 1
  <2>1. d = IF TRUE THEN 12 + 2 * w ELSE 6 + w
    BY BlockFacts
  <2>2. E = {5 + w} \cup (IF TRUE THEN {11 + 2 * w} ELSE {}) \cup {d + 6 + w, d + 6 + 2 * w}
    BY BlockFacts
  <2>3. w \in {1, 2} /\ d \in Nat /\ Len(t) = d + 6 + 2 * w
    BY BlockFacts
  <2>4. c \in 1..Len(t) - 1
    BY DEF Begins
  <2>5. i = 6 + w
    BY DEF NameAt
  <2> HIDE DEF d, E
  <2> QED
    BY <2>1, <2>2, <2>3, <2>4, <2>5
<1>1. Closed(t, w, E)
  BY BlockClosed
<1> HIDE DEF d, E
<1>2. IsLine(raw, i, i + m) /\ m \in 1..n /\ i + m <= c + 1
  <2>1. i \in 1..c /\ n \in Nat \ {0} /\ i + n \in E /\ \A j \in E : j < i \/ j >= i + n
    BY <1>0
  <2> HIDE DEF n
  <2> QED
    BY <1>1, <2>1, LineThere DEF m
<1> HIDE DEF m
<1>4. /\ raw[i] = "eve" /\ (c >= i + 1 => raw[i + 1] = "nt")
      /\ (c >= i + 2 => raw[i + 2] = ":") /\ (c >= i + 3 => raw[i + 3] = SP)
      /\ (c >= i + 4 => raw[i + 4] = a) /\ (c >= i + 5 => raw[i + 5] = b)
      /\ (c >= i + 6 /\ w = 2 => raw[i + 6] = CR)
  <2>1. IsEventName(t, w, a, b)
    BY <1>0 DEF IsBlock
  <2>2. \A j \in 1..c : raw[j] = t[j]
    BY DEF Begins
  <2>3. /\ i + 1 = 7 + w /\ i + 2 = 8 + w /\ i + 3 = 9 + w /\ i + 4 = 10 + w
        /\ i + 5 = 11 + w /\ i + 6 = 12 + w
    BY <1>0
  <2> QED
    BY <1>0, <2>1, <2>2, <2>3 DEF IsEventName
<1>5. IsField(raw, i, m)
  <2>1. (m >= 2 => raw[i + 1] = "nt") /\ (m >= 3 => raw[i + 2] = ":")
        /\ (m >= 4 => raw[i + 3] = SP)
    BY <1>0, <1>2, <1>4
  <2>2. m \in Nat \ {0}
    BY <1>0, <1>2
  <2> QED
    BY <1>2, <1>4, <2>1, <2>2 DEF IsField, CR
<1> QED
  BY <1>4, <1>5 DEF m, NameThere

\* What there is of its data line.
LEMMA DataLine ==
    ASSUME NEW t, NEW w, NEW named, NEW D, NEW a, NEW b, IsBlock(t, w, named, D, a, b),
           NEW raw, NEW c, Begins(raw, t, c), NEW d, d = DataAt(w, named), c >= d
    PROVE  /\ IsField(raw, d, There(c, d, 6 + w))
           /\ raw[d] = "da" /\ (c >= d + 1 => raw[d + 1] = "ta")
           /\ (c >= d + 4 => raw[d + 4] = Open) /\ (c >= d + 5 => raw[d + 5] = D)
           /\ (c >= d + 6 => raw[d + 6] = Close)
           /\ (c >= d + 7 /\ w = 2 => raw[d + 7] = CR) /\ (c >= d + 9 /\ w = 2 => raw[d + 9] = CR)
<1> DEFINE E == BlockEnds(w, named)
           n == 6 + w
           m == There(c, d, n)
<1>0. /\ w \in {1, 2} /\ named \in BOOLEAN /\ d \in Nat /\ Len(t) = d + 6 + 2 * w
      /\ d = IF named THEN 12 + 2 * w ELSE 6 + w
      /\ E = {5 + w} \cup (IF named THEN {11 + 2 * w} ELSE {}) \cup {d + 6 + w, d + 6 + 2 * w}
      /\ c \in 1..Len(t) - 1
  BY BlockFacts DEF Begins
<1>1. Closed(t, w, E)
  BY BlockClosed
<1> HIDE DEF E
<1>2. IsLine(raw, d, d + m) /\ m \in 1..n /\ d + m <= c + 1
  <2>1. d \in 1..c /\ n \in Nat \ {0} /\ d + n \in E /\ \A j \in E : j < d \/ j >= d + n
    BY <1>0
  <2> HIDE DEF n
  <2> QED
    BY <1>1, <2>1, LineThere DEF m
<1> HIDE DEF m
<1>4. /\ raw[d] = "da" /\ (c >= d + 1 => raw[d + 1] = "ta")
      /\ (c >= d + 2 => raw[d + 2] = ":") /\ (c >= d + 3 => raw[d + 3] = SP)
      /\ (c >= d + 4 => raw[d + 4] = Open) /\ (c >= d + 5 => raw[d + 5] = D)
      /\ (c >= d + 6 => raw[d + 6] = Close)
      /\ (c >= d + 7 /\ w = 2 => raw[d + 7] = CR) /\ (c >= d + 9 /\ w = 2 => raw[d + 9] = CR)
  <2>1. IsData(t, w, D, d)
    BY <1>0 DEF IsBlock
  <2>2. \A j \in 1..c : raw[j] = t[j]
    BY DEF Begins
  <2>3. c \in Nat /\ d >= 1
    BY <1>0
  <2> QED
    BY <1>0, <2>1, <2>2, <2>3 DEF IsData
<1>5. IsField(raw, d, m)
  <2>1. (m >= 2 => raw[d + 1] = "ta") /\ (m >= 3 => raw[d + 2] = ":")
        /\ (m >= 4 => raw[d + 3] = SP)
    BY <1>0, <1>2, <1>4
  <2>2. m \in Nat \ {0}
    BY <1>0, <1>2
  <2> QED
    BY <1>2, <1>4, <2>1, <2>2 DEF IsField, CR
<1> QED
  BY <1>4, <1>5 DEF m

\* The other places where a line starts have nothing, or a carriage return.
LEMMA NothingElse ==
    ASSUME NEW t, NEW w, NEW named, NEW D, NEW a, NEW b, IsBlock(t, w, named, D, a, b),
           NEW raw, NEW c, Begins(raw, t, c), NEW d, d = DataAt(w, named)
    PROVE  \A i \in LineStarts(raw) :
               \/ ~Counts(Line(raw, i))
               \/ i = 1
               \/ named /\ c >= 6 + w /\ i = 6 + w
               \/ c >= d /\ i = d
<1> DEFINE E == BlockEnds(w, named)
<1>0. /\ w \in {1, 2} /\ named \in BOOLEAN /\ d \in Nat /\ Len(t) = d + 6 + 2 * w
      /\ d = IF named THEN 12 + 2 * w ELSE 6 + w
      /\ E = {5 + w} \cup (IF named THEN {11 + 2 * w} ELSE {}) \cup {d + 6 + w, d + 6 + 2 * w}
      /\ c \in 1..Len(t) - 1
  BY BlockFacts DEF Begins
<1>1. Closed(t, w, E)
  BY BlockClosed
<1> HIDE DEF E
<1> SUFFICES ASSUME NEW i \in LineStarts(raw), i # 1,
                    ~(named /\ c >= 6 + w /\ i = 6 + w), ~(c >= d /\ i = d)
             PROVE  ~Counts(Line(raw, i))
  OBVIOUS
<1>2. PICK j \in E : i = j + 1 /\ j <= c
  BY <1>1, StartsAre
<1>3. i = c + 1 \/ i = d + 7 + w
  BY <1>0, <1>2
<1> DEFINE e == c + 1
<1>4. i \in 1..c + 1 /\ e \in i..c + 1 /\ \A l \in E : l < i \/ l >= e
  BY <1>0, <1>2, <1>3
<1>5. e = i \/ (e = i + 1 /\ raw[i] = CR)
  <2>1. e = i \/ (w = 2 /\ i = d + 9 /\ c = d + 9)
    BY <1>0, <1>2, <1>3
  <2>2. w = 2 /\ c = d + 9 => raw[d + 9] = CR
    <3>1. c = d + 9 => c >= d /\ c >= d + 9
      BY <1>0
    <3> QED
      BY <3>1, DataLine
  <2> QED
    BY <1>0, <2>1, <2>2
<1>6. e = c + 1
  OBVIOUS
<1> HIDE DEF e
<1>7. IsLine(raw, i, e)
  BY <1>1, <1>4, <1>6, LineBetween
<1> QED
  BY <1>5, <1>7, EmptyLine

-----------------------------------------------------------------------------
(* What the parser reads in a beginning of a block.                        *)

\* No field name is another, or a part of one.
LEMMA NamesDiffer ==
    /\ Id # Event /\ Id # Data /\ Event # Data
    /\ \A x : <<x>> # Id /\ <<x>> # Event /\ <<x>> # Data
<1>1. Len(Id) = 2 /\ Len(Event) = 2 /\ Len(Data) = 2 /\ Id[1] = "i" /\ Event[1] = "eve" /\ Data[1] = "da"
  BY DEF Id, Event, Data
<1>2. \A x : Len(<<x>>) = 1
  OBVIOUS
<1> QED
  BY <1>1, <1>2

\* What the parser reads in the first line.
LEMMA IdFields ==
    ASSUME NEW t, NEW w, NEW named, NEW D, NEW a, NEW b, IsBlock(t, w, named, D, a, b),
           NEW raw, NEW c, Begins(raw, t, c)
    PROVE  /\ Counts(Line(raw, 1))
           /\ Field(Line(raw, 1)).name = IF c >= 2 THEN Id ELSE <<"i">>
<1>1. IsField(raw, 1, There(c, 1, 4 + w)) /\ raw[1] = "i" /\ (c >= 2 => raw[2] = "d")
  BY IdLine
<1>2. w \in {1, 2} /\ c \in Nat \ {0}
  BY BlockFacts DEF Begins
<1> DEFINE n == There(c, 1, 4 + w)
<1>3. n \in Nat \ {0} /\ (n >= 2 <=> c >= 2)
  BY <1>2 DEF There
<1> HIDE DEF n
<1>4. /\ Counts(Line(raw, 1))
      /\ n = 1 => Field(Line(raw, 1)).name = <<raw[1]>>
      /\ n >= 2 => Field(Line(raw, 1)).name = <<raw[1], raw[1 + 1]>>
  BY <1>1, FieldIs DEF n
<1>5. n = 1 \/ n >= 2
  BY <1>3
<1>6. 1 + 1 = 2
  OBVIOUS
<1> QED
  BY <1>1, <1>3, <1>4, <1>5, <1>6 DEF Id

NameRead(raw, c, i, a, b) ==
    /\ Counts(Line(raw, i))
    /\ Field(Line(raw, i)).name = IF c >= i + 1 THEN Event ELSE <<"eve">>
    /\ c < i + 4 => Value(raw, i) = <<>>
    /\ c = i + 4 => Value(raw, i) = <<a>>
    /\ c >= i + 5 => Value(raw, i) = <<a, b>>

\* What it reads in the event line: a name cut in the middle is its first half.
LEMMA NameFields ==
    ASSUME NEW t, NEW w, NEW D, NEW a, NEW b, IsBlock(t, w, TRUE, D, a, b),
           NEW raw, NEW c, Begins(raw, t, c), NEW i, i = NameAt(w), c >= i
    PROVE  NameRead(raw, c, i, a, b)
<1> DEFINE n == There(c, i, 5 + w)
           m == ValueLen(raw, i, n)
<1>0. /\ i = 6 + w /\ w \in {1, 2} /\ c \in Nat /\ raw \in Seq(Symbol) /\ Len(raw) = c
      /\ i \in Nat /\ i >= 1
  <2>1. w \in {1, 2}
    BY DEF IsBlock
  <2>2. c \in Nat /\ raw \in Seq(Symbol) /\ Len(raw) = c
    BY DEF Begins, Text
  <2>3. i = 6 + w
    BY DEF NameAt
  <2> QED
    BY <2>1, <2>2, <2>3
<1>1. /\ IsField(raw, i, n)
      /\ raw[i] = "eve" /\ (c >= i + 1 => raw[i + 1] = "nt")
      /\ (c >= i + 4 => raw[i + 4] = a) /\ (c >= i + 5 => raw[i + 5] = b)
      /\ (c >= i + 6 /\ w = 2 => raw[i + 6] = CR)
  <2>1. NameThere(raw, c, w, i, a, b)
    BY NameLine
  <2> QED
    BY <2>1 DEF NameThere
<1>2. a # CR /\ b # CR
  BY DEF IsBlock, Marks
<1>3. /\ n \in Nat \ {0} /\ (n >= 2 <=> c >= i + 1) /\ (n >= 5 <=> c >= i + 4)
      /\ (n >= 6 <=> c >= i + 5) /\ (n = 7 <=> w = 2 /\ c >= i + 6)  /\ n <= 7
      /\ (n = 5 <=> c = i + 4)
  BY <1>0 DEF There
<1>4. (n = 5 => i + n - 1 = i + 4) /\ (n = 6 => i + n - 1 = i + 5) /\ (n = 7 => i + n - 1 = i + 6)
  BY <1>0
<1> HIDE DEF n
<1>5. /\ Counts(Line(raw, i))
      /\ n = 1 => Field(Line(raw, i)).name = <<raw[i]>>
      /\ n >= 2 => Field(Line(raw, i)).name = <<raw[i], raw[i + 1]>>
      /\ Text(Value(raw, i), m) /\ \A j \in 1..m : Value(raw, i)[j] = raw[i + 3 + j]
  BY <1>1, FieldIs
<1>6. Field(Line(raw, i)).name = IF c >= i + 1 THEN Event ELSE <<"eve">>
  <2>1. n = 1 \/ n >= 2
    BY <1>3
  <2> QED
    BY <1>1, <1>3, <1>5, <2>1 DEF Event
<1>7. m = IF c < i + 4 THEN 0 ELSE IF c = i + 4 THEN 1 ELSE 2
  <2>1. n <= 4 \/ n = 5 \/ n = 6 \/ n = 7
    BY <1>3
  <2>2. n = 5 => raw[i + n - 1] # CR
    BY <1>0, <1>1, <1>2, <1>3, <1>4
  <2>3. n = 6 => raw[i + n - 1] # CR
    BY <1>0, <1>1, <1>2, <1>3, <1>4
  <2>4. n = 7 => raw[i + n - 1] = CR
    BY <1>0, <1>1, <1>2, <1>3, <1>4
  <2> QED
    BY <1>0, <1>3, <2>1, <2>2, <2>3, <2>4 DEF ValueLen
<1> HIDE DEF m
<1>8. i + 3 + 1 = i + 4 /\ i + 3 + 2 = i + 5
  BY <1>0
<1>9. \A x \in 1..c : raw[x] \in Symbol
  BY <1>0
<1>10. c < i + 4 => Value(raw, i) = <<>>
  BY <1>5, <1>7, EmptyText
<1>11. ASSUME c = i + 4 PROVE Value(raw, i) = <<a>>
  <2>1. a \in Symbol
    BY <1>0, <1>1, <1>9, <1>11
  <2>2. Text(<<a>>, 1) /\ <<a>>[1] = a
    BY <2>1 DEF Text
  <2>3. m = 1
    BY <1>0, <1>7, <1>11
  <2>4. Text(Value(raw, i), 1) /\ Value(raw, i)[1] = raw[i + 3 + 1]
    BY <1>5, <2>3
  <2>5. raw[i + 3 + 1] = a
    BY <1>0, <1>1, <1>8, <1>11
  <2>6. \A j \in 1..1 : Value(raw, i)[j] = <<a>>[j]
    BY <2>2, <2>4, <2>5
  <2> QED
    BY <2>2, <2>4, <2>6, SameText
<1>12. ASSUME c >= i + 5 PROVE Value(raw, i) = <<a, b>>
  <2>1. a \in Symbol /\ b \in Symbol
    BY <1>0, <1>1, <1>9, <1>12
  <2>2. Text(<<a, b>>, 2) /\ <<a, b>>[1] = a /\ <<a, b>>[2] = b
    BY <2>1 DEF Text
  <2>3. m = 2
    BY <1>0, <1>7, <1>12
  <2>4. Text(Value(raw, i), 2) /\ Value(raw, i)[1] = raw[i + 3 + 1] /\ Value(raw, i)[2] = raw[i + 3 + 2]
    BY <1>5, <2>3
  <2>5. raw[i + 3 + 1] = a /\ raw[i + 3 + 2] = b
    BY <1>0, <1>1, <1>8, <1>12
  <2>6. \A j \in 1..2 : Value(raw, i)[j] = <<a, b>>[j]
    <3>1. \A j \in 1..2 : j = 1 \/ j = 2
      OBVIOUS
    <3> QED
      BY <2>2, <2>4, <2>5, <3>1
  <2> QED
    BY <2>2, <2>4, <2>6, SameText
<1> QED
  BY <1>5, <1>6, <1>10, <1>11, <1>12 DEF NameRead

\* What it reads in the data line: the JSON once all of it is there, and less
\* before.
LEMMA DataFields ==
    ASSUME NEW t, NEW w, NEW named, NEW D, NEW a, NEW b, IsBlock(t, w, named, D, a, b),
           NEW raw, NEW c, Begins(raw, t, c), NEW d, d = DataAt(w, named), c >= d
    PROVE  /\ Counts(Line(raw, d))
           /\ Field(Line(raw, d)).name = IF c >= d + 1 THEN Data ELSE <<"da">>
           /\ c >= d + 6 => Value(raw, d) = <<Open, D, Close>>
           /\ c < d + 6 => Len(Value(raw, d)) < 3
<1> DEFINE n == There(c, d, 6 + w)
           m == ValueLen(raw, d, n)
<1>0. w \in {1, 2} /\ c \in Nat /\ raw \in Seq(Symbol) /\ Len(raw) = c /\ d \in Nat
  BY BlockFacts DEF Begins, Text
<1>1. /\ IsField(raw, d, n)
      /\ raw[d] = "da" /\ (c >= d + 1 => raw[d + 1] = "ta")
      /\ (c >= d + 4 => raw[d + 4] = Open) /\ (c >= d + 5 => raw[d + 5] = D)
      /\ (c >= d + 6 => raw[d + 6] = Close)
      /\ (c >= d + 7 /\ w = 2 => raw[d + 7] = CR)
  BY DataLine
<1>3. /\ n \in Nat \ {0} /\ (n >= 2 <=> c >= d + 1) /\ (n >= 7 <=> c >= d + 6)
      /\ (n = 8 <=> w = 2 /\ c >= d + 7) /\ n <= 8
  BY <1>0 DEF There
<1>4. (n = 7 => d + n - 1 = d + 6) /\ (n = 8 => d + n - 1 = d + 7)
  BY <1>0
<1> HIDE DEF n
<1>5. /\ Counts(Line(raw, d))
      /\ n = 1 => Field(Line(raw, d)).name = <<raw[d]>>
      /\ n >= 2 => Field(Line(raw, d)).name = <<raw[d], raw[d + 1]>>
      /\ Text(Value(raw, d), m) /\ \A j \in 1..m : Value(raw, d)[j] = raw[d + 3 + j]
  BY <1>1, FieldIs
<1>6. Field(Line(raw, d)).name = IF c >= d + 1 THEN Data ELSE <<"da">>
  <2>1. n = 1 \/ n >= 2
    BY <1>3
  <2> QED
    BY <1>1, <1>3, <1>5, <2>1 DEF Data
<1>7. (c >= d + 6 => m = 3) /\ (c < d + 6 => m < 3)
  <2>1. n = 7 => raw[d + n - 1] # CR
    BY <1>0, <1>1, <1>3, <1>4 DEF CR, Close
  <2>2. n = 8 => raw[d + n - 1] = CR
    BY <1>0, <1>1, <1>3, <1>4
  <2>3. n <= 6 \/ n = 7 \/ n = 8
    BY <1>3
  <2>4. c < d + 6 <=> n <= 6
    BY <1>0, <1>3
  <2>5. c < d + 6 <=> ~(c >= d + 6)
    BY <1>0
  <2> QED
    BY <1>3, <2>1, <2>2, <2>3, <2>4, <2>5 DEF ValueLen
<1> HIDE DEF m
<1>8. ASSUME c >= d + 6 PROVE Value(raw, d) = <<Open, D, Close>>
  <2>1. Open \in Symbol /\ D \in Symbol /\ Close \in Symbol
    <3>1. \A x \in 1..c : raw[x] \in Symbol
      BY <1>0
    <3>2. d + 5 \in 1..c /\ raw[d + 5] = D
      BY <1>0, <1>1, <1>8
    <3> QED
      BY <3>1, <3>2 DEF Symbol, Marks
  <2>2. Text(<<Open, D, Close>>, 3)
    BY <2>1, Three
  <2>3. Text(Value(raw, d), 3) /\ \A j \in 1..3 : Value(raw, d)[j] = raw[d + 3 + j]
    BY <1>5, <1>7, <1>8
  <2>4. /\ Value(raw, d)[1] = raw[d + 3 + 1] /\ Value(raw, d)[2] = raw[d + 3 + 2]
        /\ Value(raw, d)[3] = raw[d + 3 + 3]
    BY <2>3
  <2>5. d + 3 + 1 = d + 4 /\ d + 3 + 2 = d + 5 /\ d + 3 + 3 = d + 6
        /\ (c >= d + 4) /\ (c >= d + 5)
    BY <1>0, <1>8
  <2>6. \A j \in 1..3 : Value(raw, d)[j] = <<Open, D, Close>>[j]
    <3>1. \A j \in 1..3 : j = 1 \/ j = 2 \/ j = 3
      OBVIOUS
    <3>2. <<Open, D, Close>>[1] = Open /\ <<Open, D, Close>>[2] = D /\ <<Open, D, Close>>[3] = Close
      OBVIOUS
    <3>3. Value(raw, d)[1] = Open /\ Value(raw, d)[2] = D /\ Value(raw, d)[3] = Close
      BY ONLY <1>1, <1>8, <2>4, <2>5
    <3> QED
      BY ONLY <3>1, <3>2, <3>3
  <2> QED
    BY <2>2, <2>3, <2>6, SameText
<1>9. c < d + 6 => Len(Value(raw, d)) < 3
  BY <1>5, <1>7 DEF Text
<1> QED
  BY <1>5, <1>6, <1>8, <1>9

\* The fields in what there is of a block.
LEMMA BlockFields ==
    ASSUME NEW t, NEW w, NEW named, NEW D, NEW a, NEW b, IsBlock(t, w, named, D, a, b),
           NEW raw, NEW c, Begins(raw, t, c), NEW d, d = DataAt(w, named)
    PROVE  /\ IsEvent(raw) <=> c >= 2
           /\ Fields(raw, Event) = IF named /\ c >= 7 + w THEN {6 + w} ELSE {}
           /\ Fields(raw, Data) = IF c >= d + 1 THEN {d} ELSE {}
<1> DEFINE E == BlockEnds(w, named)
<1>0. /\ w \in {1, 2} /\ named \in BOOLEAN /\ d \in Nat /\ Len(t) = d + 6 + 2 * w
      /\ d = IF named THEN 12 + 2 * w ELSE 6 + w
      /\ E = {5 + w} \cup (IF named THEN {11 + 2 * w} ELSE {}) \cup {d + 6 + w, d + 6 + 2 * w}
      /\ c \in 1..Len(t) - 1
  BY BlockFacts DEF Begins
<1>1. Closed(t, w, E)
  BY BlockClosed
<1> HIDE DEF E
<1>2. 1 \in LineStarts(raw) /\ \A j \in E : j >= 1 /\ j <= c => j + 1 \in LineStarts(raw)
  BY <1>1, StartsThere
<1>3. named /\ c >= 6 + w => 6 + w \in LineStarts(raw)
  <2> SUFFICES ASSUME named, c >= 6 + w PROVE 6 + w \in LineStarts(raw)
    OBVIOUS
  <2> DEFINE j == 5 + w
  <2>1. j \in E /\ j >= 1 /\ j <= c /\ j + 1 = 6 + w
    BY <1>0
  <2> HIDE DEF j
  <2> QED
    BY <1>2, <2>1
<1>4. c >= d => d \in LineStarts(raw)
  <2> SUFFICES ASSUME c >= d PROVE d \in LineStarts(raw)
    OBVIOUS
  <2> DEFINE j == d - 1
  <2>1. j \in E /\ j >= 1 /\ j <= c /\ j + 1 = d
    BY <1>0
  <2> HIDE DEF j
  <2> QED
    BY <1>2, <2>1
<1>5. \A i \in LineStarts(raw) :
          \/ ~Counts(Line(raw, i))
          \/ i = 1
          \/ named /\ c >= 6 + w /\ i = 6 + w
          \/ c >= d /\ i = d
  BY NothingElse
<1>6. /\ Counts(Line(raw, 1))
      /\ Field(Line(raw, 1)).name = IF c >= 2 THEN Id ELSE <<"i">>
  BY IdFields
<1>7. named /\ c >= 6 + w =>
          /\ Counts(Line(raw, 6 + w))
          /\ Field(Line(raw, 6 + w)).name = IF c >= 7 + w THEN Event ELSE <<"eve">>
  <2> DEFINE i == 6 + w
  <2>1. c >= 7 + w <=> c >= i + 1
    BY <1>0
  <2> HIDE DEF i
  <2>2. named /\ c >= i => 
            /\ Counts(Line(raw, i))
            /\ Field(Line(raw, i)).name = IF c >= i + 1 THEN Event ELSE <<"eve">>
    <3> SUFFICES ASSUME named, c >= i
                 PROVE  /\ Counts(Line(raw, i))
                        /\ Field(Line(raw, i)).name = IF c >= i + 1 THEN Event ELSE <<"eve">>
      OBVIOUS
    <3>1. IsBlock(t, w, TRUE, D, a, b)
      <4>1. named = TRUE
        BY <1>0
      <4> QED
        BY <4>1
    <3>2. i = NameAt(w)
      BY DEF i, NameAt
    <3>3. NameRead(raw, c, i, a, b)
      BY <3>1, <3>2, NameFields
    <3> QED
      BY <3>3 DEF NameRead
  <2> QED
    BY <2>1, <2>2 DEF i
<1>8. c >= d =>
          /\ Counts(Line(raw, d))
          /\ Field(Line(raw, d)).name = IF c >= d + 1 THEN Data ELSE <<"da">>
  BY DataFields
<1>9. /\ Id # Event /\ Id # Data /\ Event # Data
      /\ <<"i">> # Event /\ <<"i">> # Data /\ <<"i">> # Id
      /\ <<"eve">> # Id /\ <<"eve">> # Event /\ <<"eve">> # Data
      /\ <<"da">> # Id /\ <<"da">> # Event /\ <<"da">> # Data
  BY NamesDiffer
<1>10. /\ c >= 7 + w => c >= 6 + w /\ c >= 2
       /\ c >= d + 1 => c >= d /\ c >= 2
  BY <1>0
<1> HIDE DEF E
<1>11. Fields(raw, Event) = IF named /\ c >= 7 + w THEN {6 + w} ELSE {}
  <2>1. \A i \in Fields(raw, Event) : i \in LineStarts(raw) /\ Counts(Line(raw, i)) /\ Field(Line(raw, i)).name = Event
    BY DEF Fields
  <2>2. \A i \in Fields(raw, Event) : named /\ c >= 7 + w /\ i = 6 + w
    BY <1>5, <1>6, <1>7, <1>8, <1>9, <2>1
  <2>3. named /\ c >= 7 + w => 6 + w \in Fields(raw, Event)
    BY <1>3, <1>7, <1>10 DEF Fields
  <2> QED
    BY <2>2, <2>3
<1>12. Fields(raw, Data) = IF c >= d + 1 THEN {d} ELSE {}
  <2>1. \A i \in Fields(raw, Data) : i \in LineStarts(raw) /\ Counts(Line(raw, i)) /\ Field(Line(raw, i)).name = Data
    BY DEF Fields
  <2>2. \A i \in Fields(raw, Data) : c >= d + 1 /\ i = d
    BY <1>5, <1>6, <1>7, <1>8, <1>9, <2>1
  <2>3. c >= d + 1 => d \in Fields(raw, Data)
    BY <1>4, <1>8, <1>10 DEF Fields
  <2> QED
    BY <2>2, <2>3
<1>13. c >= 2 => 1 \in Fields(raw, Id)
  BY <1>2, <1>6 DEF Fields
<1>14. Fields(raw, Id) # {} => c >= 2
  <2>1. \A i \in Fields(raw, Id) : i \in LineStarts(raw) /\ Counts(Line(raw, i)) /\ Field(Line(raw, i)).name = Id
    BY DEF Fields
  <2> QED
    BY <1>5, <1>6, <1>7, <1>8, <1>9, <2>1
<1> QED
  BY <1>10, <1>11, <1>12, <1>13, <1>14 DEF IsEvent

-----------------------------------------------------------------------------
(* The run event of a beginning of a block.                                *)

\* The names of the events tell them apart, but not a success from a failure.
LEMMA NamesTell ==
    /\ Name["call"] # Name["success"]
    /\ Name["delta"] # Name["call"] /\ Name["delta"] # Name["success"]
    /\ Name["failure"] = Name["success"]
    /\ \A x : <<x>> # Name["call"] /\ <<x>> # Name["success"]
    /\ <<>> # Name["call"] /\ <<>> # Name["success"] /\ <<>> # Name["delta"]
<1>1. /\ Name["call"] = <<"local_tool", "_call">> /\ Name["success"] = <<"res", "ult">>
      /\ Name["failure"] = <<"res", "ult">> /\ Name["delta"] = <<"assistant", "_delta">>
  BY DEF Name
<1>2. /\ Len(Name["call"]) = 2 /\ Len(Name["success"]) = 2 /\ Len(Name["delta"]) = 2
      /\ Name["call"][1] = "local_tool" /\ Name["success"][1] = "res"
      /\ Name["delta"][1] = "assistant"
  BY <1>1
<1>3. \A x : Len(<<x>>) = 1
  OBVIOUS
<1>4. Len(<<>>) = 0
  OBVIOUS
<1> QED
  BY <1>1, <1>2, <1>3, <1>4

\* What the data of one frame says is not what that of another does.
LEMMA OneJson ==
    ASSUME NEW k \in 1..MaxFrames, NEW l \in 1..MaxFrames, Json(k) = Json(l)
    PROVE  k = l
<1>1. Json(k)[2] = Digits[k] /\ Json(l)[2] = Digits[l]
  BY DEF Json
<1> QED
  BY <1>1, SseParserAssumption

\* Where the data of a block of the script starts, and the event line.
Newline == Len(script.newline)
DataOf == DataAt(Newline, script.named)

\* The block of frame k of the script.
LEMMA ThisBlock ==
    ASSUME script \in Script, NEW k \in 1..Len(script.kinds)
    PROVE  LET name == Name[script.kinds[k]]
           IN  IsBlock(Block(script, k), Newline, script.named, Digits[k], name[1], name[2])
BY BlockIs DEF Newline

\* Its data parses once all of it is there, to its number.
LEMMA ParsedIs ==
    ASSUME script \in Script, NEW k \in 1..Len(script.kinds),
           NEW raw, NEW c, Begins(raw, Block(script, k), c)
    PROVE  Parsed(raw) = IF c >= DataOf + 6 THEN {k} ELSE {}
<1> DEFINE name == Name[script.kinds[k]]
           t == Block(script, k)
           w == Newline
           d == DataOf
<1>1. IsBlock(t, w, script.named, Digits[k], name[1], name[2])
  BY ThisBlock
<1>2. d = DataAt(w, script.named)
  BY DEF DataOf
<1>3. c \in Nat /\ d \in Nat
  <2>1. DataAt(w, script.named) \in Nat
    BY <1>1, BlockFacts
  <2>2. c \in Nat
    BY DEF Begins
  <2> QED
    BY <1>2, <2>1, <2>2
<1> HIDE DEF name, t, w, d
<1>4. Fields(raw, Data) = IF c >= d + 1 THEN {d} ELSE {}
  BY <1>1, <1>2, BlockFields DEF t
<1>5. c >= d => /\ c >= d + 6 => Value(raw, d) = <<Open, Digits[k], Close>>
                /\ c < d + 6 => Len(Value(raw, d)) < 3
  BY <1>1, <1>2, DataFields DEF t
<1>6. DOMAIN script.kinds = 1..Len(script.kinds) /\ Len(script.kinds) \in 1..MaxFrames
  BY ScriptMeans
<1>7. Len(script.kinds) <= MaxFrames /\ MaxFrames \in Nat
  BY <1>6, SseParserAssumption
<1>8. \A l : Len(Json(l)) = 3
  BY DEF Json
<1>9. CASE c >= d + 6
  <2>1. Fields(raw, Data) = {d} /\ Value(raw, d) = Json(k)
    BY <1>3, <1>4, <1>5, <1>9 DEF Json
  <2>2. \A l \in DOMAIN script.kinds : Value(raw, d) = Json(l) <=> l = k
    BY <1>6, <1>7, <2>1, OneJson
  <2>3. k \in DOMAIN script.kinds
    BY <1>6
  <2>4. Parsed(raw) = {k}
    BY <2>1, <2>2, <2>3 DEF Parsed
  <2> QED
    BY <1>9, <2>4 DEF d
<1>10. CASE ~(c >= d + 6)
  <2>1. \A i \in Fields(raw, Data) : i = d /\ Len(Value(raw, i)) < 3
    BY <1>3, <1>4, <1>5, <1>10
  <2>2. ASSUME NEW i \in Fields(raw, Data), NEW l PROVE Value(raw, i) # Json(l)
    <3>1. Len(Json(l)) = 3 /\ Len(Value(raw, i)) < 3
      BY <1>8, <2>1
    <3>2. ~(3 < 3)
      OBVIOUS
    <3> QED
      BY ONLY <3>1, <3>2
  <2>3. Parsed(raw) = {}
    BY <2>2 DEF Parsed
  <2> QED
    BY <1>10, <2>3 DEF d
<1> QED
  BY <1>9, <1>10

\* The type that its event line gives it.
LEMMA NamedIs ==
    ASSUME script \in Script, NEW k \in 1..Len(script.kinds),
           NEW raw, NEW c, Begins(raw, Block(script, k), c)
    PROVE  LET name == Name[script.kinds[k]]
               i == NameAt(Newline)
           IN  Named(raw) =
                   IF ~script.named \/ c < i + 4 THEN <<>>
                   ELSE IF c = i + 4 THEN <<name[1]>>
                   ELSE name
<1> DEFINE name == Name[script.kinds[k]]
           t == Block(script, k)
           w == Newline
           i == NameAt(w)
           a == name[1]
           b == name[2]
<1>1. IsBlock(t, w, script.named, Digits[k], a, b)
  BY ThisBlock
<1>2. DataOf = DataAt(w, script.named)
  BY DEF DataOf
<1>3. c \in Nat /\ i \in Nat /\ i = 6 + w /\ w \in {1, 2}
  <2>1. w \in {1, 2}
    BY <1>1, BlockFacts
  <2>2. c \in Nat
    BY DEF Begins
  <2> HIDE DEF w
  <2> QED
    BY <2>1, <2>2 DEF NameAt
<1>4. name = <<a, b>> /\ script.named \in BOOLEAN
  <2>1. script.kinds[k] \in Kinds /\ script.named \in BOOLEAN
    BY ScriptMeans
  <2> QED
    BY <2>1, NameMeans
<1> HIDE DEF name, t, w, i, a, b
<1>5. Fields(raw, Event) = IF script.named /\ c >= 7 + w THEN {6 + w} ELSE {}
  BY <1>1, <1>2, BlockFields DEF t
<1>6. CASE ~script.named \/ c < i + 1
  <2>1. Fields(raw, Event) = {}
    BY <1>3, <1>5, <1>6
  <2>2. Named(raw) = <<>>
    BY <2>1 DEF Named
  <2>3. ~script.named \/ c < i + 4
    BY <1>3, <1>6
  <2> QED
    BY <2>2, <2>3 DEF w, i
<1>7. CASE script.named /\ c >= i + 1
  <2>1. Fields(raw, Event) = {i}
    BY <1>3, <1>5, <1>7
  <2>2. Named(raw) = Value(raw, i)
    <3>1. Max({i}) = i
      BY <1>3, MaxOfOne
    <3> QED
      BY <2>1, <3>1 DEF Named
  <2>3. NameRead(raw, c, i, a, b)
    <3>1. IsBlock(t, w, TRUE, Digits[k], a, b)
      <4>1. script.named = TRUE
        BY <1>4, <1>7
      <4> QED
        BY <1>1, <4>1
    <3>2. c >= i /\ i = NameAt(w)
      BY <1>3, <1>7 DEF i
    <3> QED
      BY <3>1, <3>2, NameFields DEF t
  <2>4. /\ c < i + 4 => Named(raw) = <<>>
        /\ c = i + 4 => Named(raw) = <<a>>
        /\ c >= i + 5 => Named(raw) = name
    BY <1>4, <2>2, <2>3 DEF NameRead
  <2>5. c < i + 4 \/ c = i + 4 \/ c >= i + 5
    BY <1>3
  <2>6. c = i + 4 => ~(c < i + 4)
    BY <1>3
  <2>7. c >= i + 5 => ~(c < i + 4) /\ c # i + 4
    BY <1>3
  <2>8. Named(raw) = IF c < i + 4 THEN <<>> ELSE IF c = i + 4 THEN <<a>> ELSE name
    BY ONLY <2>4, <2>5, <2>6, <2>7
  <2> QED
    BY <1>7, <2>8 DEF i, a, name, w
<1> QED
  <2>1. (~script.named \/ c < i + 1) \/ (script.named /\ c >= i + 1)
    BY <1>3, <1>4
  <2> QED
    BY <1>6, <1>7, <2>1

\* A block whose data is all there is the event of its frame.
LEMMA WholeBlock ==
    ASSUME script \in Script, NEW k \in 1..Len(script.kinds),
           NEW raw, NEW c, Begins(raw, Block(script, k), c), c >= DataOf + 6
    PROVE  IsEvent(raw) /\ RunEvent(raw) = [kind |-> script.kinds[k], seq |-> k]
<1> DEFINE kind == script.kinds[k]
           name == Name[kind]
           w == Newline
           d == DataOf
           i == NameAt(w)
<1>1. Parsed(raw) = {k}
  BY ParsedIs
<1>2. Named(raw) =
          IF ~script.named \/ c < i + 4 THEN <<>> ELSE IF c = i + 4 THEN <<name[1]>> ELSE name
  BY NamedIs
<1>3. IsBlock(Block(script, k), w, script.named, Digits[k], name[1], name[2]) /\ d = DataAt(w, script.named)
  BY ThisBlock DEF DataOf
<1>4. /\ w \in {1, 2} /\ script.named \in BOOLEAN /\ d \in Nat /\ c \in Nat
      /\ d = IF script.named THEN 12 + 2 * w ELSE 6 + w
  <2>1. c \in Nat
    BY DEF Begins
  <2> HIDE DEF w, d, name
  <2> QED
    BY <1>3, <2>1, BlockFacts
<1>5. kind \in Kinds
  BY ScriptMeans
<1>6. IsEvent(raw)
  <2>1. IsEvent(raw) <=> c >= 2
    <3> HIDE DEF w, d, name
    <3> QED
      BY <1>3, BlockFields
  <2>2. c >= 2
    BY <1>4
  <2> QED
    BY <2>1, <2>2
<1>7. Named(raw) = IF script.named THEN name ELSE <<>>
  <2>0. c >= d + 6
    OBVIOUS
  <2>1. script.named => ~(c < i + 4) /\ c # i + 4
    <3> HIDE DEF w, d
    <3> QED
      BY <1>4, <2>0 DEF NameAt
  <2> QED
    BY <1>2, <2>1
<1>8. (CHOOSE l \in {k} : TRUE) = k
  OBVIOUS
<1>9. name # <<>>
  BY <1>5, NamesTell DEF Kinds
<1>10. Type(raw) = name
  <2>1. Parsed(raw) # {} /\ script.kinds[CHOOSE l \in Parsed(raw) : TRUE] = kind
    BY <1>1, <1>8
  <2> HIDE DEF kind
  <2> QED
    BY <1>7, <1>9, <2>1 DEF Type
<1>11. (\E l \in Parsed(raw) : script.kinds[l] = "success") <=> kind = "success"
  BY <1>1
<1> HIDE DEF kind
<1>12. KindOf(raw) = kind
  <2>1. CASE kind = "delta"
    BY <1>10, <2>1, NamesTell DEF KindOf
  <2>2. CASE kind = "call"
    BY <1>10, <2>2, NamesTell DEF KindOf
  <2>3. CASE kind = "success"
    BY <1>10, <1>11, <2>3, NamesTell DEF KindOf
  <2>4. CASE kind = "failure"
    BY <1>10, <1>11, <2>4, NamesTell DEF KindOf
  <2> QED
    BY <1>5, <2>1, <2>2, <2>3, <2>4 DEF Kinds
<1> QED
  BY <1>1, <1>6, <1>8, <1>12 DEF RunEvent, kind

\* What there is of any other is the event RunStream takes it for, or none.
LEMMA CutBlock ==
    ASSUME script \in Script, NEW k \in 1..Len(script.kinds),
           NEW raw, NEW c, Begins(raw, Block(script, k), c), ~(c >= DataOf + 6)
    PROVE  \E kind \in CutKinds(script.kinds[k]) : RunEvent(raw) = [kind |-> kind, seq |-> LastSeq]
<1> DEFINE kind == script.kinds[k]
           name == Name[kind]
           i == NameAt(Newline)
<1>1. Parsed(raw) = {}
  BY ParsedIs
<1>2. Named(raw) =
          IF ~script.named \/ c < i + 4 THEN <<>> ELSE IF c = i + 4 THEN <<name[1]>> ELSE name
  BY NamedIs
<1>3. kind \in Kinds
  BY ScriptMeans
<1>4. Named(raw) = <<>> \/ Named(raw) = <<name[1]>> \/ Named(raw) = name
  BY <1>2
<1> HIDE DEF kind
<1>5. KindOf(raw) \in CutKinds(kind)
  <2>1. CASE Type(raw) = <<"message">> \/ Type(raw) = <<name[1]>>
    <3>1. Type(raw) # Name["call"] /\ Type(raw) # Name["success"]
      BY <2>1, NamesTell
    <3>2. KindOf(raw) = "delta"
      BY <3>1 DEF KindOf
    <3> QED
      BY <3>2 DEF CutKinds
  <2>2. CASE Type(raw) = name
    <3>1. CASE kind = "delta"
      BY <1>1, <2>2, <3>1, NamesTell DEF KindOf, CutKinds
    <3>2. CASE kind = "call"
      BY <1>1, <2>2, <3>2, NamesTell DEF KindOf, CutKinds
    <3>3. CASE kind = "success" \/ kind = "failure"
      <4>1. Type(raw) = Name["success"] /\ Type(raw) # Name["call"]
        BY <2>2, <3>3, NamesTell
      <4>2. KindOf(raw) = "failure"
        BY <1>1, <4>1 DEF KindOf
      <4> QED
        BY <3>3, <4>2 DEF CutKinds
    <3> QED
      BY <1>3, <3>1, <3>2, <3>3 DEF Kinds
  <2>3. Type(raw) = <<"message">> \/ Type(raw) = <<name[1]>> \/ Type(raw) = name
    BY <1>1, <1>4 DEF Type
  <2> QED
    BY <2>1, <2>2, <2>3
<1>6. RunEvent(raw) = [kind |-> KindOf(raw), seq |-> LastSeq]
  BY <1>1 DEF RunEvent
<1> QED
  BY <1>5, <1>6 DEF kind

-----------------------------------------------------------------------------
(* Bodies.                                                                 *)

\* A set of numbers that has zero and, of every number in it, the next, has
\* them all: among the intervals 0..n that end at a number it lacks, one
\* would be the smallest.
LEMMA AllNumbers ==
    ASSUME NEW S, 0 \in S, \A n \in Nat : n \in S => n + 1 \in S
    PROVE  \A n \in Nat : n \in S
<1> SUFFICES ASSUME {n \in Nat : n \notin S} # {} PROVE FALSE
  OBVIOUS
<1> DEFINE Upto(n) == 0..n
           Missing == {n \in Nat : n \notin S}
           Sets == {Upto(n) : n \in Missing}
<1>1. Sets \subseteq FiniteSubsetsOf(Nat) /\ Sets # {}
  <2>1. \A n \in Nat : IsFiniteSet(Upto(n)) /\ Upto(n) \subseteq Nat
    BY FS_Interval
  <2> QED
    BY <2>1 DEF FiniteSubsetsOf
<1>2. \E g \in Sets : \A h \in Sets : <<h, g>> \notin StrictSubsetOrdering(Nat)
  <2> HIDE DEF Sets
  <2> QED
    BY <1>1, FS_StrictSubsetOrderingWellFounded, WFMin
<1>3. PICK n \in Missing :
          \A m \in Missing : <<Upto(m), Upto(n)>> \notin StrictSubsetOrdering(Nat)
  BY <1>2
<1>4. n - 1 \in Missing
  OBVIOUS
<1>5. /\ Upto(n - 1) \subseteq Upto(n) /\ Upto(n - 1) # Upto(n)
      /\ Upto(n) \subseteq Nat /\ Upto(n - 1) \subseteq Nat
  <2>1. n \in Upto(n) /\ n \notin Upto(n - 1)
    OBVIOUS
  <2> QED
    BY <2>1
<1> QED
  <2> HIDE DEF Upto
  <2> QED
    BY <1>3, <1>4, <1>5 DEF StrictSubsetOrdering

\* What FlattenSeq has at the i-th sequence, from what it had.
Flat(seqs, f, i) == IF i = 1 THEN seqs[i] ELSE f[i - 1] \o seqs[i]

\* There is such a function, for as many sequences as you like.
LEMMA FlatDefined ==
    ASSUME NEW seqs, NEW N \in Nat
    PROVE  \E f : f = [i \in 1..N |-> Flat(seqs, f, i)]
<1> DEFINE Flats(m, f) == f = [i \in 1..m |-> Flat(seqs, f, i)]
           Defined == {m \in Nat : \E f : Flats(m, f)}
<1>1. 0 \in Defined
  <2> DEFINE f == [i \in 1..0 |-> <<>>]
  <2>1. f = [i \in 1..0 |-> Flat(seqs, f, i)]
    <3> HIDE DEF f
    <3> QED
      BY DEF f
  <2>2. Flats(0, f)
    BY <2>1
  <2> QED
    BY <2>2
<1>2. ASSUME NEW m \in Nat, m \in Defined PROVE m + 1 \in Defined
  <2>1. PICK f : Flats(m, f)
    BY <1>2
  <2> DEFINE g == [i \in 1..m + 1 |-> Flat(seqs, f, i)]
  <2>2. \A i \in 1..m : g[i] = f[i]
    BY <2>1
  <2>3. \A i \in 1..m + 1 : Flat(seqs, f, i) = Flat(seqs, g, i)
    <3> HIDE DEF g
    <3> QED
      BY <2>2 DEF Flat
  <2>4. Flats(m + 1, g)
    BY <2>3
  <2> HIDE DEF g, Flats
  <2>5. \E h : Flats(m + 1, h)
    BY <2>4
  <2> QED
    BY <2>5
<1> HIDE DEF Defined
<1>3. N \in Defined
  BY <1>1, <1>2, AllNumbers
<1> QED
  BY <1>3 DEF Defined

\* FlattenSeq takes its last value.
LEMMA FlattenSeqIs ==
    ASSUME NEW seqs, Len(seqs) \in Nat, Len(seqs) # 0
    PROVE  \E f : /\ \A i \in 1..Len(seqs) : f[i] = Flat(seqs, f, i)
                  /\ FlattenSeq(seqs) = f[Len(seqs)]
<1> DEFINE f == CHOOSE g : g = [i \in 1..Len(seqs) |-> Flat(seqs, g, i)]
<1>1. f = [i \in 1..Len(seqs) |-> Flat(seqs, f, i)]
  BY FlatDefined
<1>2. FlattenSeq(seqs) = f[Len(seqs)]
  BY DEF FlattenSeq, Flat
<1> HIDE DEF f
<1>3. \A i \in 1..Len(seqs) : f[i] = Flat(seqs, f, i)
  BY <1>1
<1> QED
  BY <1>2, <1>3

\* The body of no frames.
LEMMA NoFrames ==
    ASSUME NEW s
    PROVE  FramesUpTo(s, 0) = <<>>
<1>1. [i \in 1..0 |-> Frame(s, i)] = <<>>
  OBVIOUS
<1>2. FlattenSeq(<<>>) = <<>>
  BY DEF FlattenSeq
<1> QED
  BY <1>1, <1>2 DEF FramesUpTo

\* The body of one.
LEMMA OneFrame ==
    ASSUME NEW s
    PROVE  FramesUpTo(s, 1) = Frame(s, 1)
<1> DEFINE seqs == [i \in 1..1 |-> Frame(s, i)]
<1>1. Len(seqs) = 1 /\ seqs[1] = Frame(s, 1)
  OBVIOUS
<1>2. FramesUpTo(s, 1) = FlattenSeq(seqs)
  BY DEF FramesUpTo
<1> HIDE DEF seqs
<1>3. PICK f : /\ \A i \in 1..Len(seqs) : f[i] = Flat(seqs, f, i)
               /\ FlattenSeq(seqs) = f[Len(seqs)]
  <2>1. Len(seqs) \in Nat /\ Len(seqs) # 0
    BY <1>1
  <2> QED
    BY <2>1, FlattenSeqIs
<1> QED
  BY <1>1, <1>2, <1>3 DEF Flat

\* The body of one frame more.
LEMMA NextFrame ==
    ASSUME NEW s, NEW k \in Nat \ {0}
    PROVE  FramesUpTo(s, k + 1) = FramesUpTo(s, k) \o Frame(s, k + 1)
<1> DEFINE few == [i \in 1..k |-> Frame(s, i)]
           more == [i \in 1..k + 1 |-> Frame(s, i)]
<1>1. /\ Len(few) = k /\ Len(more) = k + 1
      /\ \A i \in 1..k : few[i] = more[i]
      /\ more[k + 1] = Frame(s, k + 1)
  OBVIOUS
<1>2. FramesUpTo(s, k) = FlattenSeq(few) /\ FramesUpTo(s, k + 1) = FlattenSeq(more)
  BY DEF FramesUpTo
<1> HIDE DEF few, more
<1>3. PICK f : (\A i \in 1..k : f[i] = Flat(few, f, i)) /\ FlattenSeq(few) = f[k]
  <2>1. Len(few) \in Nat /\ Len(few) # 0
    BY <1>1
  <2>2. PICK f : (\A i \in 1..Len(few) : f[i] = Flat(few, f, i)) /\ FlattenSeq(few) = f[Len(few)]
    BY <2>1, FlattenSeqIs
  <2> QED
    BY <1>1, <2>2
<1>4. PICK g : (\A i \in 1..k + 1 : g[i] = Flat(more, g, i)) /\ FlattenSeq(more) = g[k + 1]
  <2>1. Len(more) \in Nat /\ Len(more) # 0
    BY <1>1
  <2>2. PICK g : (\A i \in 1..Len(more) : g[i] = Flat(more, g, i)) /\ FlattenSeq(more) = g[Len(more)]
    BY <2>1, FlattenSeqIs
  <2> QED
    BY <1>1, <2>2
<1> DEFINE Same == {n \in Nat : n \in 1..k => f[n] = g[n]}
<1>5. 0 \in Same
  OBVIOUS
<1>6. ASSUME NEW n \in Nat, n \in Same PROVE n + 1 \in Same
  <2> SUFFICES ASSUME n + 1 \in 1..k PROVE f[n + 1] = g[n + 1]
    OBVIOUS
  <2>1. n + 1 \in 1..k + 1 /\ (n + 1) - 1 = n /\ (n + 1 = 1 \/ n \in 1..k)
    OBVIOUS
  <2>2. n \in 1..k => f[n] = g[n]
    BY <1>6
  <2> QED
    BY <1>1, <1>3, <1>4, <2>1, <2>2 DEF Flat
<1> HIDE DEF Same
<1>7. k \in Same
  BY <1>5, <1>6, AllNumbers
<1>8. f[k] = g[k]
  BY <1>7 DEF Same
<1>9. g[k + 1] = g[k] \o more[k + 1]
  <2>1. k + 1 # 1 /\ k + 1 \in 1..k + 1 /\ (k + 1) - 1 = k
    OBVIOUS
  <2> QED
    BY <1>4, <2>1 DEF Flat
<1> QED
  BY <1>1, <1>2, <1>3, <1>4, <1>8, <1>9

-----------------------------------------------------------------------------
(* Where the frames of a body are.                                         *)

\* Heartbeats, blocks and frames are texts.
LEMMA FrameText ==
    ASSUME NEW s \in Script, NEW k \in 1..Len(s.kinds)
    PROVE  Heartbeat(s) \in Seq(Symbol) /\ Block(s, k) \in Seq(Symbol) /\ Frame(s, k) \in Seq(Symbol)
<1>1. Heartbeat(s) \in Seq(Symbol)
  <2>1. CASE s.comments
    BY <2>1, BeatIs DEF IsBeat, Text
  <2>2. CASE ~s.comments
    BY <2>2 DEF Heartbeat
  <2> QED
    BY <2>1, <2>2
<1>2. Block(s, k) \in Seq(Symbol)
  BY BlockIs DEF IsBlock, Text
<1> QED
  BY <1>1, <1>2 DEF Frame

\* The body of one frame more, from none on.
LEMMA Grows ==
    ASSUME NEW s \in Script, NEW k \in 0..Len(s.kinds) - 1, FramesUpTo(s, k) \in Seq(Symbol)
    PROVE  FramesUpTo(s, k + 1) = FramesUpTo(s, k) \o Frame(s, k + 1)
<1>1. CASE k = 0
  <2>1. 1 \in 1..Len(s.kinds)
    BY ScriptMeans, SseParserAssumption
  <2>2. Frame(s, 1) \in Seq(Symbol)
    BY <2>1, FrameText
  <2>3. <<>> \o Frame(s, 1) = Frame(s, 1)
    BY <2>2, ConcatEmptySeq
  <2>4. k + 1 = 1
    BY <1>1
  <2> QED
    BY <1>1, <2>3, <2>4, NoFrames, OneFrame
<1>2. CASE k # 0
  <2>1. k \in Nat \ {0}
    BY <1>2
  <2> QED
    BY <2>1, NextFrame
<1> QED
  BY <1>1, <1>2

\* Bodies are texts.
LEMMA FramesText ==
    ASSUME NEW s \in Script, NEW k \in 0..Len(s.kinds)
    PROVE  FramesUpTo(s, k) \in Seq(Symbol)
<1> DEFINE Good == {n \in Nat : n <= Len(s.kinds) => FramesUpTo(s, n) \in Seq(Symbol)}
<1>0. Len(s.kinds) \in Nat
  BY ScriptMeans, SseParserAssumption
<1>1. 0 \in Good
  <2>1. FramesUpTo(s, 0) = <<>> /\ <<>> \in Seq(Symbol)
    BY NoFrames
  <2> HIDE DEF Symbol
  <2> QED
    BY ONLY <2>1
<1>2. ASSUME NEW n \in Nat, n \in Good PROVE n + 1 \in Good
  <2> SUFFICES ASSUME n + 1 <= Len(s.kinds) PROVE FramesUpTo(s, n + 1) \in Seq(Symbol)
    OBVIOUS
  <2>1. n \in 0..Len(s.kinds) - 1 /\ n + 1 \in 1..Len(s.kinds) /\ FramesUpTo(s, n) \in Seq(Symbol)
    BY <1>0, <1>2
  <2>2. FramesUpTo(s, n + 1) = FramesUpTo(s, n) \o Frame(s, n + 1)
    BY <2>1, Grows
  <2>3. Frame(s, n + 1) \in Seq(Symbol)
    BY <2>1, FrameText
  <2> QED
    BY <2>1, <2>2, <2>3, ConcatProperties
<1> HIDE DEF Good
<1>3. k \in Good
  BY <1>1, <1>2, AllNumbers
<1> QED
  BY <1>3 DEF Good

\* The first k frames are where they are in all that has them.
Starts(t, u) ==
    /\ t \in Seq(Symbol) /\ u \in Seq(Symbol) /\ Len(u) <= Len(t)
    /\ Holds(t, 0, u, Len(u))

\* The first k frames start the body of any l >= k.
LEMMA FramesStart ==
    ASSUME NEW s \in Script, NEW k \in 0..Len(s.kinds), NEW l \in k..Len(s.kinds)
    PROVE  Starts(FramesUpTo(s, l), FramesUpTo(s, k))
<1> DEFINE u == FramesUpTo(s, k)
           Good == {n \in Nat : k + n <= Len(s.kinds) => Starts(FramesUpTo(s, k + n), u)}
<1>0. Len(s.kinds) \in Nat /\ k \in Nat
  BY ScriptMeans, SseParserAssumption
<1>1. u \in Seq(Symbol)
  BY FramesText
<1> HIDE DEF u
<1>2. 0 \in Good
  <2>1. Starts(u, u)
    BY <1>1 DEF Starts, Holds
  <2> QED
    BY <1>0, <2>1 DEF u
<1>3. ASSUME NEW n \in Nat, n \in Good PROVE n + 1 \in Good
  <2> SUFFICES ASSUME k + (n + 1) <= Len(s.kinds) PROVE Starts(FramesUpTo(s, k + (n + 1)), u)
    OBVIOUS
  <2> DEFINE j == k + n
             t == FramesUpTo(s, j)
             f == Frame(s, j + 1)
  <2>1. j \in 0..Len(s.kinds) - 1 /\ j + 1 \in 1..Len(s.kinds) /\ j + 1 = k + (n + 1)
    BY <1>0
  <2>2. Starts(t, u)
    BY <1>0, <1>3
  <2> HIDE DEF j
  <2>3. FramesUpTo(s, j + 1) = t \o f
    BY <2>1, <2>2, Grows DEF Starts
  <2>4. f \in Seq(Symbol)
    BY <2>1, FrameText
  <2> HIDE DEF t, f
  <2>5. Starts(t \o f, u)
    BY <2>2, <2>4 DEF Starts, Holds
  <2> QED
    BY <2>1, <2>3, <2>5
<1> HIDE DEF Good
<1>4. l - k \in Nat /\ k + (l - k) = l /\ l <= Len(s.kinds)
  BY <1>0
<1>5. l - k \in Good
  BY <1>2, <1>3, <1>4, AllNumbers
<1> QED
  BY <1>4, <1>5 DEF Good, u

\* How long the body is up to the end of frame k.
Start(k) == Len(FramesUpTo(script, k))

\* t stands in the body after the first p symbols.
Stands(t, p) ==
    /\ t \in Seq(Symbol) /\ p \in Nat /\ p + Len(t) <= Len(body)
    /\ \A i \in 1..Len(t) : body[p + i] = t[i]

LaidOut(k) ==
    /\ Stands(Heartbeat(script), Start(k))
    /\ Stands(Block(script, k + 1), Start(k) + Len(Heartbeat(script)))
    /\ Start(k + 1) = Start(k) + Len(Heartbeat(script)) + Len(Block(script, k + 1))

BodyOK == script \in Script /\ body = FramesUpTo(script, Len(script.kinds))

\* The body of the script.
LEMMA BodyText ==
    ASSUME BodyOK
    PROVE  /\ body \in Seq(Symbol) /\ Len(body) = Start(Len(script.kinds))
           /\ Len(script.kinds) \in Nat \ {0} /\ Start(0) = 0
<1>1. Len(script.kinds) \in Nat \ {0}
  BY ScriptMeans, SseParserAssumption DEF BodyOK
<1>2. body \in Seq(Symbol)
  BY <1>1, FramesText DEF BodyOK
<1> QED
  BY <1>1, <1>2, NoFrames DEF Start, BodyOK

\* The heartbeat and the block of a frame stand one after the other, from where
\* the frames before end.
LEMMA Layout ==
    ASSUME BodyOK, NEW k \in 0..Len(script.kinds) - 1
    PROVE  LaidOut(k)
<1> DEFINE h == Heartbeat(script)
           b == Block(script, k + 1)
           t == FramesUpTo(script, k)
           u == FramesUpTo(script, k + 1)
<1>1. Len(script.kinds) \in Nat \ {0} /\ body \in Seq(Symbol) /\ script \in Script
  BY BodyText DEF BodyOK
<1>2. k \in 0..Len(script.kinds) /\ k + 1 \in 1..Len(script.kinds)
      /\ k + 1 \in 0..Len(script.kinds) /\ Len(script.kinds) \in k + 1..Len(script.kinds)
  BY <1>1
<1>3. h \in Seq(Symbol) /\ b \in Seq(Symbol)
  BY <1>1, <1>2, FrameText
<1>4. t \in Seq(Symbol)
  BY <1>1, <1>2, FramesText
<1>5. u = t \o (h \o b)
  BY <1>1, <1>4, Grows DEF Frame
<1>6. Starts(body, u)
  BY <1>1, <1>2, FramesStart DEF BodyOK
<1> HIDE DEF h, b, t
<1>7. /\ Len(u) = Len(t) + Len(h) + Len(b)
      /\ \A i \in 1..Len(h) : u[Len(t) + i] = h[i]
      /\ \A i \in 1..Len(b) : u[Len(t) + Len(h) + i] = b[i]
  <2> HIDE DEF u
  <2>1. h \o b \in Seq(Symbol) /\ Len(h \o b) = Len(h) + Len(b)
        /\ (\A i \in 1..Len(h) : (h \o b)[i] = h[i])
        /\ \A i \in 1..Len(b) : (h \o b)[Len(h) + i] = b[i]
    BY <1>3
  <2> DEFINE x == h \o b
  <2> HIDE DEF x
  <2>2. Len(t \o x) = Len(t) + Len(x) /\ \A i \in 1..Len(x) : (t \o x)[Len(t) + i] = x[i]
    BY <1>4, <2>1 DEF x
  <2>3. u = t \o x
    BY <1>5 DEF x
  <2>4. \A i \in 1..Len(h) : u[Len(t) + i] = h[i]
    BY <1>3, <1>4, <2>1, <2>2, <2>3 DEF x
  <2>5. \A i \in 1..Len(b) : u[Len(t) + Len(h) + i] = b[i]
    <3> SUFFICES ASSUME NEW i \in 1..Len(b) PROVE u[Len(t) + Len(h) + i] = b[i]
      OBVIOUS
    <3>1. Len(h) + i \in 1..Len(x) /\ Len(t) + Len(h) + i = Len(t) + (Len(h) + i)
      BY <1>3, <1>4, <2>1 DEF x
    <3>2. u[Len(t) + (Len(h) + i)] = x[Len(h) + i]
      BY <2>2, <2>3, <3>1
    <3>3. x[Len(h) + i] = b[i]
      BY <2>1 DEF x
    <3> QED
      BY <3>1, <3>2, <3>3
  <2> QED
    BY <1>3, <1>4, <2>1, <2>2, <2>3, <2>4, <2>5 DEF x
<1> HIDE DEF u
<1>8. \A i \in 1..Len(u) : body[i] = u[i]
  BY <1>6 DEF Starts, Holds
<1>9. Len(u) <= Len(body) /\ Len(t) \in Nat /\ Len(h) \in Nat /\ Len(b) \in Nat /\ Len(body) \in Nat
  BY <1>1, <1>3, <1>4, <1>6 DEF Starts
<1>10. Stands(h, Len(t))
  <2> DEFINE p == Len(t)
  <2>1. p \in Nat /\ p + Len(h) <= Len(u) /\ p + Len(h) <= Len(body) /\ Len(u) \in Nat
    BY <1>7, <1>9
  <2>2. \A i \in 1..Len(h) : u[p + i] = h[i]
    BY <1>7
  <2> HIDE DEF p
  <2>3. \A i \in 1..Len(h) : body[p + i] = h[i]
    BY <1>8, <1>9, <2>1, <2>2
  <2>4. Stands(h, p)
    BY <1>3, <2>1, <2>3 DEF Stands
  <2> QED
    BY <2>4 DEF p
<1>11. Stands(b, Len(t) + Len(h))
  <2> DEFINE p == Len(t) + Len(h)
  <2>1. p \in Nat /\ p + Len(b) = Len(u) /\ p + Len(b) <= Len(body) /\ Len(u) \in Nat
    BY <1>7, <1>9
  <2>2. \A i \in 1..Len(b) : u[p + i] = b[i]
    BY <1>7
  <2> HIDE DEF p
  <2>3. \A i \in 1..Len(b) : body[p + i] = b[i]
    BY <1>8, <1>9, <2>1, <2>2
  <2>4. Stands(b, p)
    BY <1>3, <2>1, <2>3 DEF Stands
  <2> QED
    BY <2>4 DEF p
<1> QED
  BY <1>7, <1>10, <1>11 DEF LaidOut, Start, h, b, t, u

-----------------------------------------------------------------------------
(* The buffer.                                                             *)

\* A frame ends after those before it.
LEMMA Ordered ==
    ASSUME BodyOK, NEW j \in 0..Len(script.kinds), NEW l \in j..Len(script.kinds)
    PROVE  Start(j) \in Nat /\ Start(l) \in Nat /\ Start(j) <= Start(l)
<1>1. Starts(FramesUpTo(script, l), FramesUpTo(script, j))
  BY FramesStart DEF BodyOK
<1> QED
  BY <1>1 DEF Starts, Start

\* The frames fed are those that end by now.
LEMMA FedIs ==
    ASSUME BodyOK, fed \in Nat, NEW k \in 0..Len(script.kinds), Start(k) <= fed,
           k < Len(script.kinds) => fed < Start(k + 1)
    PROVE  FramesFed = k
<1> DEFINE n == Len(script.kinds)
           Fed == {j \in DOMAIN script.kinds : Len(FramesUpTo(script, j)) <= fed}
<1>0. n \in Nat /\ DOMAIN script.kinds = 1..n
  BY BodyText, ScriptMeans DEF BodyOK
<1>1. ASSUME NEW j \in 1..n, j <= k PROVE Start(j) <= fed
  <2>1. j \in 0..n /\ k \in j..n
    BY <1>0, <1>1
  <2>2. Start(j) \in Nat /\ Start(k) \in Nat /\ Start(j) <= Start(k)
    BY <2>1, Ordered
  <2> QED
    BY <2>2
<1>2. ASSUME NEW j \in 1..n, ~(j <= k) PROVE ~(Start(j) <= fed)
  <2>1. k + 1 \in 0..n /\ j \in k + 1..n /\ k < n
    BY <1>0, <1>2
  <2>2. Start(k + 1) \in Nat /\ Start(j) \in Nat /\ Start(k + 1) <= Start(j)
    BY <2>1, Ordered
  <2>3. fed < Start(k + 1)
    BY <2>1
  <2> QED
    BY <2>2, <2>3
<1>3. Fed = 1..k
  <2>1. Fed = {j \in 1..n : Start(j) <= fed}
    BY <1>0 DEF Start
  <2>2. \A j \in 1..n : Start(j) <= fed <=> j <= k
    BY <1>1, <1>2
  <2>3. k \in Nat /\ k <= n
    BY <1>0
  <2> HIDE DEF Fed, n
  <2>4. Fed = {j \in 1..n : j <= k}
    BY <2>1, <2>2
  <2>5. {j \in 1..n : j <= k} = 1..k
    BY <1>0, <2>3
  <2> QED
    BY <2>4, <2>5
<1>4. Cardinality(1..k) = k
  <2>1. 1 \in Int /\ k \in Int
    OBVIOUS
  <2>2. Cardinality(1..k) = IF 1 > k THEN 0 ELSE k - 1 + 1
    BY <2>1, FS_Interval
  <2> QED
    BY <2>2
<1> QED
  BY <1>3, <1>4 DEF FramesFed

\* The buffer is what has arrived after the first p symbols.
Buffered(p) ==
    /\ body \in Seq(Symbol) /\ fed \in 0..Len(body) /\ p \in 0..fed
    /\ buffer = SubSeq(body, p + 1, fed)

\* The symbols in the buffer.
LEMMA BufferText ==
    ASSUME NEW p, Buffered(p)
    PROVE  /\ Text(buffer, fed - p)
           /\ \A i \in 1..fed - p : buffer[i] = body[p + i]
<1>1. p + 1 \in 1..Len(body) + 1 /\ fed \in (p + 1) - 1..Len(body) /\ fed - (p + 1) + 1 = fed - p
  BY DEF Buffered
<1> DEFINE q == p + 1
<1>2. q = p + 1
  OBVIOUS
<1> HIDE DEF q
<1>3. /\ Text(SubSeq(body, q, fed), fed - q + 1)
      /\ \A n \in 1..fed - q + 1 : SubSeq(body, q, fed)[n] = body[q + n - 1]
  BY <1>1, <1>2, Part DEF Buffered
<1>4. fed - q + 1 = fed - p /\ \A i \in Nat : q + i - 1 = p + i
  BY <1>2 DEF Buffered
<1>5. \A n \in 1..fed - p : SubSeq(body, q, fed)[n] = body[p + n]
  <2> SUFFICES ASSUME NEW n \in 1..fed - p PROVE SubSeq(body, q, fed)[n] = body[p + n]
    OBVIOUS
  <2>1. n \in 1..fed - q + 1 /\ q + n - 1 = p + n
    BY <1>4
  <2>2. SubSeq(body, q, fed)[n] = body[q + n - 1]
    BY <1>3, <2>1
  <2> QED
    BY <2>1, <2>2
<1>6. SubSeq(body, q, fed) = buffer
  BY <1>2 DEF Buffered
<1> QED
  BY <1>3, <1>4, <1>5, <1>6

\* A text that has not all arrived: no separator is there.
LEMMA NotYet ==
    ASSUME NEW t, NEW w, NEW ends, Closed(t, w, ends), NEW p, Stands(t, p), Buffered(p),
           fed < p + Len(t)
    PROVE  Separators = {} /\ (buffer # <<>> => Begins(buffer, t, fed - p))
<1>0. t \in Seq(Symbol) /\ Len(t) \in Nat /\ fed \in Nat /\ p \in Nat /\ p <= fed
  BY DEF Closed, Buffered
<1>1. Text(buffer, fed - p) /\ \A i \in 1..fed - p : buffer[i] = t[i]
  <2>1. Text(buffer, fed - p) /\ \A i \in 1..fed - p : buffer[i] = body[p + i]
    BY BufferText
  <2>2. \A i \in 1..fed - p : i \in 1..Len(t)
    BY <1>0
  <2>3. \A i \in 1..Len(t) : body[p + i] = t[i]
    BY DEF Stands
  <2> QED
    BY <2>1, <2>2, <2>3
<1>2. Separators = {}
  BY <1>0, <1>1, NoneInside DEF Text
<1>3. ASSUME buffer # <<>> PROVE Begins(buffer, t, fed - p)
  <2>1. fed - p # 0
    BY <1>1, <1>3, EmptyText
  <2> QED
    BY <1>0, <1>1, <2>1 DEF Begins
<1> QED
  BY <1>2, <1>3

\* A text that has: its end is the leftmost separator.
LEMMA EndThere ==
    ASSUME NEW t, NEW w, NEW ends, Closed(t, w, ends), NEW p, Stands(t, p), Buffered(p),
           ~(fed < p + Len(t))
    PROVE  LET end == <<Len(t) - 2 * w + 1, Len(t) + 1>>
           IN  /\ end \in Separators
               /\ \A m \in Separators : m[1] >= end[1] /\ (m[1] <= end[1] => m = end)
<1>0. /\ t \in Seq(Symbol) /\ Len(t) \in Nat /\ fed \in Nat /\ p \in Nat /\ Len(t) <= fed - p
  BY DEF Closed, Buffered
<1>1. Text(buffer, fed - p) /\ \A i \in 1..fed - p : buffer[i] = body[p + i]
  BY BufferText
<1>2. \A i \in 1..Len(t) : buffer[i] = t[i]
  BY <1>0, <1>1 DEF Stands
<1> QED
  BY <1>0, <1>1, <1>2, OneAtTheEnd DEF Text

\* Splitting there leaves the text without its empty line before, and what
\* follows it after.
LEMMA Arrived ==
    ASSUME NEW t, NEW w, NEW ends, Closed(t, w, ends), NEW p, Stands(t, p), Buffered(p),
           ~(fed < p + Len(t)),
           NEW m \in Separators, \A other \in Separators : m[1] <= other[1]
    PROVE  /\ Begins(Before(m), t, Len(t) - 2 * w)
           /\ After(m) = SubSeq(body, p + Len(t) + 1, fed)
<1> DEFINE l == Len(t)
           s == l - 2 * w + 1
           c == l - 2 * w
<1>0. /\ t \in Seq(Symbol) /\ l \in Nat /\ fed \in Nat /\ p \in Nat /\ w \in {1, 2} /\ l > 2 * w
      /\ l <= fed - p /\ fed <= Len(body) /\ body \in Seq(Symbol)
  BY DEF Closed, Buffered
<1>1. Text(buffer, fed - p) /\ \A i \in 1..fed - p : buffer[i] = body[p + i]
  BY BufferText
<1>2. \A i \in 1..l : buffer[i] = t[i]
  BY <1>0, <1>1 DEF Stands
<1>3. LET end == <<Len(t) - 2 * w + 1, Len(t) + 1>>
      IN  /\ end \in Separators
          /\ \A o \in Separators : o[1] >= end[1] /\ (o[1] <= end[1] => o = end)
  BY EndThere
<1>4. m = <<s, l + 1>>
  <2>1. <<s, l + 1>> \in Separators /\ <<s, l + 1>>[1] = s
    BY <1>3
  <2>2. m[1] <= <<s, l + 1>>[1]
    BY <2>1
  <2> HIDE DEF s, l
  <2> QED
    BY <1>3, <2>2 DEF s, l
<1>5. m[1] = s /\ m[2] = l + 1 /\ s - 1 = c /\ c \in 1..l - 1 /\ c \in 1..fed - p
  BY <1>0, <1>4
<1> HIDE DEF l, s, c
<1>6. Before(m) = SubSeq(buffer, 1, c)
  BY <1>5 DEF Before
<1>7. Text(SubSeq(buffer, 1, c), c) /\ \A n \in 1..c : SubSeq(buffer, 1, c)[n] = buffer[n]
  <2>1. 1 \in 1..Len(buffer) + 1 /\ c \in 1 - 1..Len(buffer) /\ buffer \in Seq(Symbol)
    BY <1>0, <1>1, <1>5 DEF Text
  <2>2. /\ Text(SubSeq(buffer, 1, c), c - 1 + 1)
        /\ \A n \in 1..c - 1 + 1 : SubSeq(buffer, 1, c)[n] = buffer[1 + n - 1]
    BY <2>1, Part
  <2>3. c - 1 + 1 = c /\ \A n \in 1..c : 1 + n - 1 = n
    BY <1>5
  <2> QED
    BY <2>2, <2>3
<1>8. Begins(Before(m), t, c)
  BY <1>0, <1>2, <1>5, <1>6, <1>7 DEF Begins, l
<1>9. After(m) = SubSeq(body, p + l + 1, fed)
  <2> DEFINE x == SubSeq(buffer, l + 1, fed - p)
             y == SubSeq(body, p + l + 1, fed)
             n == fed - p - l
  <2>1. After(m) = x
    BY <1>1, <1>5 DEF After, Text
  <2>2. Text(x, n) /\ \A i \in 1..n : x[i] = buffer[l + i]
    <3> DEFINE a == l + 1
               e == fed - p
    <3>1. a \in 1..Len(buffer) + 1 /\ e \in a - 1..Len(buffer) /\ buffer \in Seq(Symbol)
          /\ e - a + 1 = n
      BY <1>0, <1>1, <1>5 DEF Text, l
    <3>2. \A i \in 1..n : a + i - 1 = l + i
      BY <1>0
    <3> HIDE DEF a, e, n
    <3>3. /\ Text(SubSeq(buffer, a, e), e - a + 1)
          /\ \A i \in 1..e - a + 1 : SubSeq(buffer, a, e)[i] = buffer[a + i - 1]
      BY <3>1, Part
    <3>4. \A i \in 1..n : SubSeq(buffer, a, e)[i] = buffer[l + i]
      BY <3>1, <3>2, <3>3
    <3> QED
      BY <3>1, <3>3, <3>4 DEF a, e
  <2>3. Text(y, n) /\ \A i \in 1..n : y[i] = body[p + l + i]
    <3> DEFINE a == p + l + 1
    <3>1. a \in 1..Len(body) + 1 /\ fed \in a - 1..Len(body) /\ fed - a + 1 = n
      BY <1>0
    <3>2. \A i \in 1..n : a + i - 1 = p + l + i
      BY <1>0
    <3> HIDE DEF a, n
    <3>3. /\ Text(SubSeq(body, a, fed), fed - a + 1)
          /\ \A i \in 1..fed - a + 1 : SubSeq(body, a, fed)[i] = body[a + i - 1]
      BY <1>0, <3>1, Part
    <3>4. \A i \in 1..n : SubSeq(body, a, fed)[i] = body[p + l + i]
      BY <3>1, <3>2, <3>3
    <3> QED
      BY <3>1, <3>3, <3>4 DEF a
  <2>4. n \in Nat /\ n <= fed - p
    BY <1>0
  <2>5. \A i \in 1..n : l + i \in 1..fed - p /\ p + (l + i) = p + l + i
    BY <1>0
  <2> HIDE DEF x, y, n
  <2>6. \A i \in 1..n : x[i] = y[i]
    BY <1>1, <2>2, <2>3, <2>5
  <2>7. x = y
    BY <2>2, <2>3, <2>4, <2>6, SameText
  <2> QED
    BY <2>1, <2>7 DEF y
<1> QED
  BY <1>8, <1>9 DEF l, c

-----------------------------------------------------------------------------
(* What comes next.                                                        *)

\* The parser has read k frames, p symbols, and what comes next is a
\* heartbeat, a block or nothing.
AtBeat(k, p) == script.comments /\ k \in 0..Len(script.kinds) - 1 /\ p = Start(k)
AtBlock(k, p) == k \in 0..Len(script.kinds) - 1 /\ p = Start(k) + Len(Heartbeat(script))
AtEnd(k, p) == k = Len(script.kinds) /\ p = Len(body)
At(k, p) == AtBeat(k, p) \/ AtBlock(k, p) \/ AtEnd(k, p)

BeatNext(k, p) ==
    LET t == Heartbeat(script)
    IN  /\ IsBeat(t, Newline) /\ Closed(t, Newline, BeatEnds(Newline)) /\ Stands(t, p)
        /\ AtBlock(k, p + Len(t))
        /\ p + Len(t) <= Start(k + 1)

\* What stands where a heartbeat comes next.
LEMMA Beats ==
    ASSUME BodyOK, NEW k, NEW p, AtBeat(k, p)
    PROVE  BeatNext(k, p)
<1>1. IsBeat(Heartbeat(script), Newline)
  BY BeatIs DEF BodyOK, AtBeat, Newline
<1>2. Closed(Heartbeat(script), Newline, BeatEnds(Newline))
  BY <1>1, BeatClosed
<1>3. LaidOut(k)
  BY Layout DEF AtBeat
<1>4. Stands(Block(script, k + 1), Start(k) + Len(Heartbeat(script)))
  BY <1>3 DEF LaidOut
<1>5. Len(Block(script, k + 1)) \in Nat /\ Start(k) + Len(Heartbeat(script)) \in Nat
  BY <1>4 DEF Stands
<1> QED
  BY <1>1, <1>2, <1>3, <1>5 DEF BeatNext, LaidOut, AtBlock, AtBeat

BlockNext(k, p) ==
    LET t == Block(script, k + 1)
    IN  /\ Closed(t, Newline, BlockEnds(Newline, script.named)) /\ Stands(t, p)
        /\ k + 1 \in 1..Len(script.kinds)
        /\ p + Len(t) = Start(k + 1)
        /\ Len(t) - 2 * Newline >= DataOf + 6
        /\ Start(k) <= p

\* What stands where a block comes next.
LEMMA Blocks ==
    ASSUME BodyOK, NEW k, NEW p, AtBlock(k, p)
    PROVE  BlockNext(k, p)
<1> DEFINE t == Block(script, k + 1)
           name == Name[script.kinds[k + 1]]
           w == Newline
<1>0. k + 1 \in 1..Len(script.kinds)
  BY BodyText DEF AtBlock
<1>1. IsBlock(t, w, script.named, Digits[k + 1], name[1], name[2])
  BY <1>0, ThisBlock DEF BodyOK
<1>2. Closed(t, w, BlockEnds(w, script.named))
  BY <1>1, BlockClosed
<1>3. LaidOut(k)
  BY Layout DEF AtBlock
<1>4. Len(t) = DataOf + 6 + 2 * w /\ DataOf \in Nat /\ w \in {1, 2}
  <2> HIDE DEF t, w, name
  <2> QED
    BY <1>1, BlockFacts DEF DataOf, w
<1>5. Stands(Heartbeat(script), Start(k)) /\ Stands(t, p) /\ p + Len(t) = Start(k + 1)
  BY <1>3 DEF LaidOut, AtBlock
<1>6. Len(Heartbeat(script)) \in Nat /\ Start(k) \in Nat
  BY <1>5 DEF Stands
<1>7. Start(k) <= p
  BY <1>6 DEF AtBlock
<1>8. Len(t) - 2 * w >= DataOf + 6
  <2> HIDE DEF t, w
  <2> QED
    BY <1>4
<1> QED
  BY <1>0, <1>2, <1>5, <1>7, <1>8 DEF BlockNext

Reading(k, p) == At(k, p) /\ Buffered(p) /\ yielded = Sent(k)

\* While it asks for more, no text that it waits for has all arrived.
LEMMA Waiting ==
    ASSUME BodyOK, NEW k, NEW p, Reading(k, p), Separators = {}
    PROVE  /\ FramesFed = k
           /\ AtBeat(k, p) => fed < p + Len(Heartbeat(script))
           /\ AtBlock(k, p) => fed < p + Len(Block(script, k + 1))
           /\ AtEnd(k, p) => buffer = <<>>
<1>0. /\ fed \in Nat /\ p \in Nat /\ p <= fed /\ fed <= Len(body) /\ Len(body) \in Nat
      /\ Len(script.kinds) \in Nat /\ body \in Seq(Symbol)
      /\ Len(body) = Start(Len(script.kinds))
  BY BodyText DEF Reading, Buffered
<1>1. ASSUME AtBeat(k, p) PROVE fed < p + Len(Heartbeat(script)) /\ FramesFed = k
  <2>1. BeatNext(k, p)
    BY <1>1, Beats
  <2>2. fed < p + Len(Heartbeat(script))
    <3> SUFFICES ASSUME ~(fed < p + Len(Heartbeat(script))) PROVE FALSE
      OBVIOUS
    <3> DEFINE t == Heartbeat(script)
    <3>1. Closed(t, Newline, BeatEnds(Newline)) /\ Stands(t, p) /\ Buffered(p)
      BY <2>1 DEF BeatNext, Reading
    <3> HIDE DEF t
    <3>2. <<Len(t) - 2 * Newline + 1, Len(t) + 1>> \in Separators
      BY <3>1, EndThere DEF t
    <3> QED
      BY <3>2
  <2>3. k \in 0..Len(script.kinds) /\ k + 1 \in 0..Len(script.kinds) /\ k \in Nat
    BY <1>0, <1>1 DEF AtBeat
  <2>4. Start(k) <= fed
    BY <1>0, <1>1 DEF AtBeat
  <2>5. fed < Start(k + 1)
    <3>1. p + Len(Heartbeat(script)) <= Start(k + 1) /\ Len(Heartbeat(script)) \in Nat
      BY <2>1 DEF BeatNext, Stands
    <3>2. Start(k + 1) \in Nat
      <4>1. Len(script.kinds) \in k + 1..Len(script.kinds)
        BY <1>0, <2>3
      <4> QED
        BY <2>3, <4>1, Ordered
    <3> QED
      BY <1>0, <2>2, <3>1, <3>2
  <2>6. FramesFed = k
    BY <1>0, <2>3, <2>4, <2>5, FedIs
  <2> QED
    BY <2>2, <2>6
<1>2. ASSUME AtBlock(k, p) PROVE fed < p + Len(Block(script, k + 1)) /\ FramesFed = k
  <2>1. BlockNext(k, p)
    BY <1>2, Blocks
  <2>2. fed < p + Len(Block(script, k + 1))
    <3> SUFFICES ASSUME ~(fed < p + Len(Block(script, k + 1))) PROVE FALSE
      OBVIOUS
    <3> DEFINE t == Block(script, k + 1)
               E == BlockEnds(Newline, script.named)
    <3>1. Closed(t, Newline, E) /\ Stands(t, p) /\ Buffered(p)
      BY <2>1 DEF BlockNext, Reading
    <3> HIDE DEF t, E
    <3>2. <<Len(t) - 2 * Newline + 1, Len(t) + 1>> \in Separators
      BY <3>1, EndThere DEF t
    <3> QED
      BY <3>2
  <2>3. k \in 0..Len(script.kinds) /\ k + 1 \in 0..Len(script.kinds) /\ k \in Nat
    BY <1>0, <1>2 DEF AtBlock
  <2>4. Start(k) <= fed
    <3>1. Start(k) <= p
      BY <2>1 DEF BlockNext
    <3>2. Start(k) \in Nat
      BY <2>3, Ordered
    <3> QED
      BY <1>0, <3>1, <3>2
  <2>5. fed < Start(k + 1)
    BY <2>1, <2>2 DEF BlockNext
  <2>6. FramesFed = k
    BY <1>0, <2>3, <2>4, <2>5, FedIs
  <2> QED
    BY <2>2, <2>6
<1>3. ASSUME AtEnd(k, p) PROVE buffer = <<>> /\ FramesFed = k
  <2>1. fed = p
    BY <1>0, <1>3 DEF AtEnd
  <2>2. buffer = <<>>
    BY <1>0, <2>1, SubSeqEmpty DEF Reading, Buffered
  <2>3. k \in 0..Len(script.kinds) /\ Start(k) <= fed /\ ~(k < Len(script.kinds))
    BY <1>0, <1>3 DEF AtEnd
  <2> QED
    BY <1>0, <2>2, <2>3, FedIs
<1> QED
  BY <1>1, <1>2, <1>3 DEF Reading, At

\* What one more frame adds, and the seq of the last one.
LEMMA SentNext ==
    ASSUME script \in Script, NEW k \in 0..Len(script.kinds) - 1
    PROVE  /\ Sent(k + 1) = Append(Sent(k), [kind |-> script.kinds[k + 1], seq |-> k + 1])
           /\ yielded = Sent(k) => LastSeq = k
<1>1. k \in Nat
  OBVIOUS
<1>2. Sent(k + 1) = Append(Sent(k), [kind |-> script.kinds[k + 1], seq |-> k + 1])
  BY <1>1 DEF Sent
<1>3. ASSUME yielded = Sent(k) PROVE LastSeq = k
  <2>1. Len(Sent(k)) = k
    BY <1>1 DEF Sent
  <2>2. CASE k = 0
    <3>1. Sent(k) = <<>>
      BY <2>2 DEF Sent
    <3> QED
      BY <1>3, <2>2, <3>1 DEF LastSeq
  <2>3. CASE k # 0
    <3>1. Sent(k) # <<>>
      BY <2>1, <2>3
    <3>2. Sent(k)[k].seq = k
      BY <1>1, <2>3 DEF Sent
    <3> QED
      BY <1>3, <2>1, <3>1, <3>2 DEF LastSeq, Last
  <2> QED
    BY <2>2, <2>3
<1> QED
  BY <1>2, <1>3

-----------------------------------------------------------------------------
(* The invariant.                                                          *)

\* What the parser has read when it is between two steps.
ParserInv ==
    /\ BodyOK /\ fed \in 0..Len(body) /\ pc \in {"feed", "split", "done"}
    /\ pc # "done" => \E k \in 0..Len(script.kinds), p \in 0..fed : Reading(k, p)
    /\ pc = "feed" => Separators = {}
    /\ CutFrameIsKnown

\* The next step finds the same k frames read, with p symbols.
Reads(k, p) == k \in 0..Len(script.kinds) /\ p \in 0..fed /\ Reading(k, p)

\* Nothing has been read when the parser starts.
LEMMA InitParser ==
    ASSUME Init
    PROVE  ParserInv
<1>1. BodyOK /\ fed = 0 /\ buffer = <<>> /\ yielded = <<>> /\ pc = "feed"
  BY DEF Init, BodyOK
<1>2. /\ body \in Seq(Symbol) /\ Len(script.kinds) \in Nat \ {0} /\ Start(0) = 0
      /\ Len(body) \in Nat
  BY <1>1, BodyText
<1>3. Separators = {}
  <2>1. Len(buffer) = 0
    BY <1>1
  <2>2. 1 .. Len(buffer) - 1 = {} /\ 1 .. Len(buffer) - 3 = {}
    BY <2>1
  <2> QED
    BY <2>2 DEF Separators, LfSeparators, CrLfSeparators
<1>4. Buffered(0)
  <2>1. SubSeq(body, 0 + 1, 0) = <<>>
    BY SubSeqEmpty
  <2> QED
    BY <1>1, <1>2, <2>1 DEF Buffered
<1>5. yielded = Sent(0)
  BY <1>1 DEF Sent
<1>6. At(0, 0)
  <2>1. LaidOut(0) /\ 0 \in 0..Len(script.kinds) - 1
    BY <1>1, <1>2, Layout
  <2>2. CASE script.comments
    BY <1>2, <2>1, <2>2 DEF At, AtBeat
  <2>3. CASE ~script.comments
    <3>1. Heartbeat(script) = <<>> /\ Len(Heartbeat(script)) = 0
      BY <2>3 DEF Heartbeat
    <3> QED
      BY <1>2, <2>1, <3>1 DEF At, AtBlock
  <2> QED
    BY <2>2, <2>3
<1>7. \E k \in 0..Len(script.kinds), p \in 0..fed : Reading(k, p)
  <2>1. Reading(0, 0) /\ 0 \in 0..Len(script.kinds) /\ 0 \in 0..fed
    BY <1>1, <1>2, <1>4, <1>5, <1>6 DEF Reading
  <2> QED
    BY <2>1
<1> QED
  BY <1>1, <1>2, <1>3, <1>7 DEF ParserInv, CutFrameIsKnown

\* A chunk is appended to what the buffer has.
LEMMA FeedParser ==
    ASSUME ParserInv, Feed
    PROVE  ParserInv'
<1>1. PICK k \in 0..Len(script.kinds), p \in 0..fed : Reading(k, p)
  BY DEF ParserInv, Feed
<1>2. PICK n \in fed + 1..Len(body) : fed' = n /\ buffer' = Extend(SubSeq(body, fed + 1, n))
  BY DEF Feed
<1>3. /\ script' = script /\ body' = body /\ yielded' = yielded /\ pc' = "split"
      /\ BodyOK /\ Buffered(p)
  BY <1>1 DEF Feed, ParserInv, Reading
<1>4. fed \in Nat /\ fed <= Len(body) /\ p \in Nat /\ p <= fed /\ Len(body) \in Nat /\ body \in Seq(Symbol)
  BY <1>3 DEF Buffered
<1>5. buffer' = SubSeq(body, p + 1, n)
  <2> DEFINE m == p + 1
  <2>1. m \in 1..Len(body) + 1 /\ fed \in m - 1..Len(body) /\ n \in fed..Len(body)
    BY <1>2, <1>4
  <2> HIDE DEF m
  <2>2. SubSeq(body, m, fed) \o SubSeq(body, fed + 1, n) = SubSeq(body, m, n)
    BY <1>4, <2>1, ConcatAdjacentSubSeq
  <2>3. buffer = SubSeq(body, m, fed)
    BY <1>3 DEF Buffered, m
  <2> QED
    BY <1>2, <2>2, <2>3 DEF Extend, m
<1>6. Buffered(p)'
  BY <1>2, <1>3, <1>4, <1>5 DEF Buffered
<1>7. At(k, p)' /\ (yielded = Sent(k))'
  BY <1>1, <1>3 DEF Reading, At, AtBeat, AtBlock, AtEnd, Start, Sent
<1>8. BodyOK'
  BY <1>3 DEF BodyOK
<1>9. \E j \in 0..Len(script'.kinds), q \in 0..fed' : Reading(j, q)'
  <2>1. k \in 0..Len(script'.kinds) /\ p \in 0..fed'
    BY <1>2, <1>3, <1>4
  <2> QED
    BY <1>6, <1>7, <2>1 DEF Reading
<1>10. fed' \in 0..Len(body')
  BY <1>2, <1>3, <1>4
<1> QED
  BY <1>3, <1>8, <1>9, <1>10 DEF ParserInv, CutFrameIsKnown

\* The leftmost separator is the end of the next heartbeat or block, and all of
\* that is there.
LEMMA SplitParser ==
    ASSUME ParserInv, Split
    PROVE  ParserInv'
<1>1. PICK k \in 0..Len(script.kinds), p \in 0..fed : Reading(k, p)
  BY DEF ParserInv, Split
<1>2. PICK m \in Separators :
          /\ \A other \in Separators : m[1] <= other[1]
          /\ YieldBlock(Before(m))
          /\ buffer' = After(m)
  BY DEF Split
<1>3. /\ script' = script /\ body' = body /\ fed' = fed /\ pc' = "split"
      /\ BodyOK /\ Buffered(p) /\ script \in Script
  BY <1>1 DEF Split, ParserInv, Reading, BodyOK
<1>4. /\ fed \in Nat /\ fed <= Len(body) /\ p \in Nat /\ p <= fed /\ Len(body) \in Nat
      /\ body \in Seq(Symbol) /\ Len(script.kinds) \in Nat
      /\ Len(body) = Start(Len(script.kinds))
  BY <1>3, BodyText DEF Buffered
<1>5. ASSUME NEW j \in 0..Len(script.kinds), NEW q \in 0..fed, At(j, q),
             buffer' = SubSeq(body, q + 1, fed), yielded' = Sent(j)
      PROVE  ParserInv'
  <2>1. Buffered(q)'
    BY <1>3, <1>4, <1>5 DEF Buffered
  <2>2. At(j, q)' /\ (yielded = Sent(j))'
    BY <1>3, <1>5 DEF At, AtBeat, AtBlock, AtEnd, Start, Sent
  <2>3. Reading(j, q)'
    BY <2>1, <2>2 DEF Reading
  <2>4. \E i \in 0..Len(script'.kinds), r \in 0..fed' : Reading(i, r)'
    BY <1>3, <2>3
  <2>5. BodyOK' /\ fed' \in 0..Len(body')
    BY <1>3, <1>4 DEF BodyOK
  <2> QED
    BY <1>3, <2>4, <2>5 DEF ParserInv, CutFrameIsKnown
<1>6. CASE AtBeat(k, p)
  <2> DEFINE t == Heartbeat(script)
             w == Newline
             c == Len(t) - 2 * w
             q == p + Len(t)
  <2>1. IsBeat(t, w) /\ Closed(t, w, BeatEnds(w)) /\ Stands(t, p) /\ AtBlock(k, q)
    BY <1>3, <1>6, Beats DEF BeatNext
  <2>2. Len(t) \in Nat
    BY <2>1 DEF Stands
  <2> HIDE DEF t, w
  <2>3. ~(fed < p + Len(t))
    <3> SUFFICES ASSUME fed < p + Len(t) PROVE FALSE
      OBVIOUS
    <3>1. Separators = {}
      BY <1>3, <2>1, NotYet
    <3> QED
      BY <1>2, <3>1
  <2>4. Begins(Before(m), t, c) /\ After(m) = SubSeq(body, q + 1, fed)
    BY <1>2, <1>3, <2>1, <2>3, Arrived
  <2>5. ~IsEvent(Before(m))
    <3> HIDE DEF c
    <3> QED
      BY <2>1, <2>4, BeatSaysNothing
  <2>6. yielded' = Sent(k)
    BY <1>1, <1>2, <2>5 DEF YieldBlock, Reading
  <2>7. q \in 0..fed
    BY <1>4, <2>2, <2>3
  <2> HIDE DEF q
  <2> QED
    BY <1>2, <1>5, <2>1, <2>4, <2>6, <2>7 DEF At
<1>7. CASE AtBlock(k, p)
  <2> DEFINE t == Block(script, k + 1)
             w == Newline
             c == Len(t) - 2 * w
             q == p + Len(t)
  <2>1. /\ Closed(t, w, BlockEnds(w, script.named)) /\ Stands(t, p)
        /\ k + 1 \in 1..Len(script.kinds) /\ q = Start(k + 1) /\ c >= DataOf + 6
    BY <1>3, <1>7, Blocks DEF BlockNext
  <2>2. Len(t) \in Nat
    BY <2>1 DEF Stands
  <2> DEFINE E == BlockEnds(w, script.named)
  <2> HIDE DEF t, w, E
  <2>3. ~(fed < p + Len(t))
    <3> SUFFICES ASSUME fed < p + Len(t) PROVE FALSE
      OBVIOUS
    <3>1. Separators = {}
      BY <1>3, <2>1, NotYet DEF E
    <3> QED
      BY <1>2, <3>1
  <2>4. Begins(Before(m), t, c) /\ After(m) = SubSeq(body, q + 1, fed)
    BY <1>2, <1>3, <2>1, <2>3, Arrived
  <2>5. IsEvent(Before(m)) /\ RunEvent(Before(m)) = [kind |-> script.kinds[k + 1], seq |-> k + 1]
    <3> HIDE DEF c
    <3> QED
      BY <1>3, <2>1, <2>4, WholeBlock DEF t
  <2>6. yielded' = Sent(k + 1)
    <3>1. yielded' = Append(Sent(k), [kind |-> script.kinds[k + 1], seq |-> k + 1])
      BY <1>1, <1>2, <2>5 DEF YieldBlock, Reading
    <3>2. k \in 0..Len(script.kinds) - 1
      BY <1>7 DEF AtBlock
    <3> QED
      BY <1>3, <3>1, <3>2, SentNext
  <2>7. q \in 0..fed
    BY <1>4, <2>2, <2>3
  <2>8. k + 1 \in 0..Len(script.kinds)
    BY <2>1
  <2>9. At(k + 1, q)
    <3>1. CASE k + 1 = Len(script.kinds)
      BY <1>4, <2>1, <3>1 DEF At, AtEnd
    <3>2. CASE k + 1 # Len(script.kinds) /\ script.comments
      BY <1>4, <2>1, <3>2 DEF At, AtBeat
    <3>3. CASE k + 1 # Len(script.kinds) /\ ~script.comments
      <4>1. Heartbeat(script) = <<>> /\ Len(Heartbeat(script)) = 0
        BY <3>3 DEF Heartbeat
      <4>2. q = Start(k + 1) + Len(Heartbeat(script)) /\ k + 1 \in 0..Len(script.kinds) - 1
        <5>1. q \in Nat
          BY <1>4, <2>7
        <5> QED
          BY <1>4, <2>1, <3>3, <4>1, <5>1
      <4> QED
        BY <4>2 DEF At, AtBlock
    <3> QED
      BY <3>1, <3>2, <3>3
  <2> DEFINE j == k + 1
  <2> HIDE DEF q, j
  <2>10. j \in 0..Len(script.kinds) /\ At(j, q) /\ yielded' = Sent(j)
    BY <2>6, <2>8, <2>9 DEF j
  <2> QED
    BY <1>2, <1>5, <2>4, <2>7, <2>10
<1>8. CASE AtEnd(k, p)
  <2>1. buffer = <<>>
    <3>1. fed = p
      BY <1>4, <1>8 DEF AtEnd
    <3> QED
      BY <1>3, <1>4, <3>1, SubSeqEmpty DEF Buffered
  <2>2. 1 .. Len(buffer) - 1 = {} /\ 1 .. Len(buffer) - 3 = {}
    BY <2>1
  <2>3. Separators = {}
    BY <2>2 DEF Separators, LfSeparators, CrLfSeparators
  <2> QED
    BY <1>2, <2>3
<1> QED
  BY <1>1, <1>6, <1>7, <1>8 DEF Reading, At

\* What is left when the body ends is a proper beginning of the next text.
LEMMA FinishParser ==
    ASSUME ParserInv, Finish
    PROVE  ParserInv'
<1>1. PICK k \in 0..Len(script.kinds), p \in 0..fed : Reading(k, p)
  BY DEF ParserInv, Finish
<1>2. /\ script' = script /\ body' = body /\ fed' = fed /\ pc' = "done"
      /\ BodyOK /\ Buffered(p) /\ Separators = {} /\ yielded = Sent(k) /\ script \in Script
      /\ fed \in 0..Len(body)
  BY <1>1 DEF Finish, ParserInv, Reading, BodyOK
<1>3. /\ FramesFed = k
      /\ AtBeat(k, p) => fed < p + Len(Heartbeat(script))
      /\ AtBlock(k, p) => fed < p + Len(Block(script, k + 1))
      /\ AtEnd(k, p) => buffer = <<>>
  BY <1>1, <1>2, Waiting
<1>4. FramesFed' = k
  BY <1>2, <1>3 DEF FramesFed
<1>5. /\ buffer = <<>> => yielded' = yielded
      /\ buffer # <<>> => yielded' = IF IsEvent(buffer) THEN Append(yielded, RunEvent(buffer)) ELSE yielded
  BY DEF Finish, YieldBlock
<1>6. \A j : Sent(j)' = Sent(j)
  BY <1>2 DEF Sent
<1>7. \/ yielded' = Sent(k)
      \/ k < Len(script.kinds) /\ yielded' = Sent(k + 1)
      \/ /\ k < Len(script.kinds)
         /\ \E kind \in CutKinds(script.kinds[k + 1]) :
               yielded' = Append(Sent(k), [kind |-> kind, seq |-> k])
  <2>1. CASE buffer = <<>>
    BY <1>2, <1>5, <2>1
  <2>2. CASE buffer # <<>> /\ AtBeat(k, p)
    <3> DEFINE t == Heartbeat(script)
               c == fed - p
    <3>1. IsBeat(t, Newline) /\ Closed(t, Newline, BeatEnds(Newline)) /\ Stands(t, p)
      BY <1>2, <2>2, Beats DEF BeatNext
    <3> HIDE DEF t
    <3>2. Begins(buffer, t, c)
      BY <1>2, <1>3, <2>2, <3>1, NotYet DEF t
    <3> HIDE DEF c
    <3>3. ~IsEvent(buffer)
      BY <3>1, <3>2, BeatSaysNothing
    <3> QED
      BY <1>2, <1>5, <2>2, <3>3
  <2>3. CASE buffer # <<>> /\ AtBlock(k, p)
    <3> DEFINE t == Block(script, k + 1)
               E == BlockEnds(Newline, script.named)
               c == fed - p
    <3>1. /\ Closed(t, Newline, E) /\ Stands(t, p) /\ k + 1 \in 1..Len(script.kinds)
      BY <1>2, <2>3, Blocks DEF BlockNext
    <3>2. k \in 0..Len(script.kinds) - 1 /\ k < Len(script.kinds)
      <4>1. Len(script.kinds) \in Nat
        BY <1>2, BodyText
      <4> QED
        BY <2>3, <4>1 DEF AtBlock
    <3> HIDE DEF t, E
    <3>3. Begins(buffer, t, c)
      BY <1>2, <1>3, <2>3, <3>1, NotYet DEF t
    <3> HIDE DEF c
    <3>4. /\ Sent(k + 1) = Append(Sent(k), [kind |-> script.kinds[k + 1], seq |-> k + 1])
          /\ LastSeq = k
      BY <1>2, <3>2, SentNext
    <3>5. CASE c >= DataOf + 6
      <4>1. IsEvent(buffer) /\ RunEvent(buffer) = [kind |-> script.kinds[k + 1], seq |-> k + 1]
        BY <1>2, <3>1, <3>3, <3>5, WholeBlock DEF t
      <4>2. yielded' = Sent(k + 1)
        BY <1>2, <1>5, <2>3, <3>4, <4>1
      <4> QED
        BY <3>2, <4>2
    <3>6. CASE ~(c >= DataOf + 6)
      <4>1. PICK kind \in CutKinds(script.kinds[k + 1]) : RunEvent(buffer) = [kind |-> kind, seq |-> LastSeq]
        BY <1>2, <3>1, <3>3, <3>6, CutBlock DEF t
      <4>2. CASE IsEvent(buffer)
        <5>1. yielded' = Append(Sent(k), [kind |-> kind, seq |-> k])
          BY <1>2, <1>5, <2>3, <3>4, <4>1, <4>2
        <5> QED
          BY <3>2, <5>1
      <4>3. CASE ~IsEvent(buffer)
        BY <1>2, <1>5, <2>3, <4>3
      <4> QED
        BY <4>2, <4>3
    <3> QED
      BY <3>5, <3>6
  <2> QED
    BY <1>1, <1>3, <2>1, <2>2, <2>3 DEF Reading, At
<1>8. CutFrameIsKnown'
  <2> HIDE DEF Sent
  <2> QED
    BY <1>2, <1>4, <1>6, <1>7 DEF CutFrameIsKnown
<1>9. BodyOK'
  BY <1>2 DEF BodyOK
<1> QED
  BY <1>2, <1>8, <1>9 DEF ParserInv

\* The other steps read nothing.
LEMMA IdleParser ==
    ASSUME ParserInv, NoSeparator \/ Done \/ UNCHANGED vars
    PROVE  ParserInv'
<1>1. /\ script' = script /\ body' = body /\ fed' = fed /\ buffer' = buffer /\ yielded' = yielded
      /\ pc' = pc \/ (pc = "split" /\ pc' = "feed" /\ Separators = {})
  BY DEF NoSeparator, Done, vars
<1>2. \A k, p : Reading(k, p)' <=> Reading(k, p)
  BY <1>1 DEF Reading, At, AtBeat, AtBlock, AtEnd, Start, Sent, Buffered
<1>3. Separators' = Separators
  BY <1>1 DEF Separators, LfSeparators, CrLfSeparators
<1>4. BodyOK' <=> BodyOK
  BY <1>1 DEF BodyOK
<1>5. FramesFed' = FramesFed /\ \A j : Sent(j)' = Sent(j)
  BY <1>1 DEF FramesFed, Sent
<1>6. CutFrameIsKnown'
  <2>1. CASE pc' = pc
    BY <1>1, <1>5, <2>1 DEF ParserInv, CutFrameIsKnown
  <2>2. CASE pc' = "feed"
    BY <2>2 DEF CutFrameIsKnown
  <2> QED
    BY <1>1, <2>1, <2>2
<1>7. pc' # "done" => \E k \in 0..Len(script'.kinds), p \in 0..fed' : Reading(k, p)'
  BY <1>1, <1>2 DEF ParserInv
<1> QED
  BY <1>1, <1>3, <1>4, <1>6, <1>7 DEF ParserInv

\* Between two steps the parser has read a whole number of frames, with or
\* without the heartbeat of the next, and yielded what they stand for; what has
\* arrived after that is in the buffer, and when it asks for more it holds no
\* separator.
THEOREM ParserInvariant == Spec => []ParserInv
<1>1. Init => ParserInv
  BY InitParser
<1>2. ParserInv /\ [Next]_vars => ParserInv'
  BY FeedParser, SplitParser, FinishParser, IdleParser DEF Next
<1> QED
  BY <1>1, <1>2, PTL DEF Spec

\* Wherever the transport cuts the body, every frame that has arrived whole has
\* been yielded, as it was sent and in order, before the parser asks for more.
THEOREM FramesAreYieldedOnArrival == Spec => []FramesYieldedOnArrival
<1>1. ParserInv => FramesYieldedOnArrival
  <2> SUFFICES ASSUME ParserInv, pc = "feed" PROVE yielded = Sent(FramesFed)
    BY DEF FramesYieldedOnArrival
  <2>1. PICK k \in 0..Len(script.kinds), p \in 0..fed : Reading(k, p)
    BY DEF ParserInv
  <2>2. FramesFed = k
    BY <2>1, Waiting DEF ParserInv
  <2> QED
    BY <2>1, <2>2 DEF Reading
<1> QED
  BY <1>1, ParserInvariant, PTL

\* A body that ends early adds one event at most: the frame itself, if only its
\* empty line was missing, or one that RunStream's model has for a cut frame.
THEOREM CutFramesAreKnown == Spec => []CutFrameIsKnown
<1>1. ParserInv => CutFrameIsKnown
  BY DEF ParserInv
<1> QED
  BY <1>1, ParserInvariant, PTL

-----------------------------------------------------------------------------
(* Types.                                                                  *)

\* What is left of a text after its first p symbols is a suffix of it.
LEMMA RestIsSuffix ==
    ASSUME NEW t, NEW n \in Nat, Text(t, n), NEW u, NEW m \in 0..n, Text(u, m),
           \A i \in 1..m : u[i] = t[n - m + i]
    PROVE  IsSuffix(u, t)
<1>1. /\ Text(Reverse(t), n) /\ \A i \in 1..n : Reverse(t)[i] = t[n - i + 1]
      /\ Text(Reverse(u), m) /\ \A i \in 1..m : Reverse(u)[i] = u[m - i + 1]
  BY DEF Reverse, Text
<1>2. ASSUME NEW i \in 1..m PROVE Reverse(u)[i] = Reverse(t)[i]
  <2>1. i \in 1..n /\ m - i + 1 \in 1..m /\ n - m + (m - i + 1) = n - i + 1
    OBVIOUS
  <2> QED
    BY <1>1, <2>1
<1> DEFINE r == Reverse(u)
           s == Reverse(t)
<1> HIDE DEF r, s
<1>3. Text(r, m) /\ Text(s, n) /\ \A i \in 1..m : r[i] = s[i]
  BY <1>1, <1>2 DEF r, s
<1>4. SubSeq(r, 1, m) = r
  BY <1>3, SubSeqFull DEF Text
<1>5. SubSeq(s, 1, m) = r
  <2>1. s \in Seq(Symbol) /\ 1 \in 1..Len(s) + 1 /\ m \in 1 - 1..Len(s)
    BY <1>3 DEF Text
  <2>2. /\ Text(SubSeq(s, 1, m), m - 1 + 1)
        /\ \A i \in 1..m - 1 + 1 : SubSeq(s, 1, m)[i] = s[1 + i - 1]
    BY <2>1, Part
  <2>3. m - 1 + 1 = m /\ \A i \in 1..m : 1 + i - 1 = i
    OBVIOUS
  <2> DEFINE v == SubSeq(s, 1, m)
  <2> HIDE DEF v
  <2>4. m \in Nat /\ Text(v, m) /\ \A i \in 1..m : v[i] = r[i]
    BY <1>3, <2>2, <2>3 DEF v
  <2>5. v = r
    BY <1>3, <2>4, SameText
  <2> QED
    BY <2>5 DEF v
<1> QED
  BY <1>3, <1>4, <1>5 DEF IsSuffix, IsPrefix, Text, r, s

\* What stands for frames is a sequence of events, also with one more after it.
LEMMA SentTyped ==
    ASSUME script \in Script, NEW k \in 0..Len(script.kinds)
    PROVE  /\ Sent(k) \in Seq([kind : Kinds, seq : 0..MaxFrames])
           /\ \A kind \in Kinds :
                 Append(Sent(k), [kind |-> kind, seq |-> k]) \in Seq([kind : Kinds, seq : 0..MaxFrames])
<1> DEFINE E == [kind : Kinds, seq : 0..MaxFrames]
<1>1. Len(script.kinds) \in 1..MaxFrames /\ MaxFrames \in Nat
  BY ScriptMeans, SseParserAssumption
<1>2. k \in Nat /\ k <= MaxFrames
  BY <1>1
<1>3. ASSUME NEW i \in 1..k PROVE [kind |-> script.kinds[i], seq |-> i] \in E
  <2>1. i \in 1..Len(script.kinds) /\ i \in 0..MaxFrames
    BY <1>1, <1>2
  <2> QED
    BY <2>1, ScriptMeans
<1>4. Sent(k) \in Seq(E)
  <2> HIDE DEF E
  <2> QED
    BY <1>2, <1>3 DEF Sent
<1>5. ASSUME NEW kind \in Kinds PROVE [kind |-> kind, seq |-> k] \in E
  BY <1>2
<1>6. ASSUME NEW kind \in Kinds PROVE Append(Sent(k), [kind |-> kind, seq |-> k]) \in Seq(E)
  <2> HIDE DEF E
  <2> QED
    BY <1>4, <1>5, <1>6, AppendProperties
<1> QED
  BY <1>4, <1>6

\* Frames that end by now are frames of the script.
LEMMA FramesFedIn ==
    ASSUME script \in Script
    PROVE  FramesFed \in 0..Len(script.kinds)
<1> DEFINE n == Len(script.kinds)
           Fed == {k \in DOMAIN script.kinds : Len(FramesUpTo(script, k)) <= fed}
<1>1. n \in Nat /\ DOMAIN script.kinds = 1..n
  BY ScriptMeans, SseParserAssumption
<1> HIDE DEF n
<1>2. IsFiniteSet(1..n) /\ Cardinality(1..n) <= n
  BY <1>1, FS_Interval
<1>3. Fed \subseteq 1..n
  BY <1>1
<1> HIDE DEF Fed
<1>4. IsFiniteSet(Fed) /\ Cardinality(Fed) <= Cardinality(1..n)
  BY <1>2, <1>3, FS_Subset
<1>5. Cardinality(Fed) \in Nat /\ Cardinality(1..n) \in Nat
  BY <1>2, <1>4, FS_CardinalityType
<1>6. FramesFed = Cardinality(Fed)
  BY DEF FramesFed, Fed
<1> QED
  BY <1>1, <1>2, <1>4, <1>5, <1>6 DEF n

\* The buffer is always an end of what has arrived, and every event that was
\* yielded has a seq that a frame can have, or none.
THEOREM TypeCorrect == Spec => []TypeOK
<1> DEFINE Emptied == pc = "done" => buffer = <<>>
<1>1. Init => Emptied
  BY DEF Init
<1>2. Emptied /\ [Next]_vars => Emptied'
  BY DEF Next, Feed, Split, NoSeparator, Finish, Done, vars
<1>3. ParserInv /\ Emptied => TypeOK
  <2> SUFFICES ASSUME ParserInv, Emptied PROVE TypeOK
    OBVIOUS
  <2>1. script \in Script /\ fed \in 0..Len(body) /\ body \in Seq(Symbol) /\ pc \in {"feed", "split", "done"}
    BY BodyText DEF ParserInv, BodyOK
  <2>2. Text(SubSeq(body, 1, fed), fed) /\ \A i \in 1..fed : SubSeq(body, 1, fed)[i] = body[i]
    <3>1. 1 \in 1..Len(body) + 1 /\ fed \in 1 - 1..Len(body)
      BY <2>1
    <3>2. /\ Text(SubSeq(body, 1, fed), fed - 1 + 1)
          /\ \A i \in 1..fed - 1 + 1 : SubSeq(body, 1, fed)[i] = body[1 + i - 1]
      BY <2>1, <3>1, Part
    <3>3. fed - 1 + 1 = fed /\ \A i \in 1..fed : 1 + i - 1 = i
      BY <2>1
    <3> QED
      BY <3>2, <3>3
  <2>3. CASE pc = "done"
    <3>1. IsSuffix(buffer, SubSeq(body, 1, fed))
      <4>1. Text(<<>>, 0) /\ fed \in Nat /\ 0 \in 0..fed
        BY <2>1 DEF Text
      <4>2. IsSuffix(<<>>, SubSeq(body, 1, fed))
        <5> DEFINE t == SubSeq(body, 1, fed)
        <5> HIDE DEF t
        <5>1. Text(t, fed)
          BY <2>2 DEF t
        <5>2. \A i \in 1..0 : <<>>[i] = t[fed - 0 + i]
          OBVIOUS
        <5>3. IsSuffix(<<>>, t)
          BY <4>1, <5>1, <5>2, RestIsSuffix
        <5> QED
          BY <5>3 DEF t
      <4> QED
        BY <2>3, <4>2
    <3>2. yielded \in Seq([kind : Kinds, seq : 0..MaxFrames])
      <4>1. FramesFed \in 0..Len(script.kinds) /\ Len(script.kinds) \in Nat
        BY <2>1, FramesFedIn, ScriptMeans, SseParserAssumption
      <4>2. CASE yielded = Sent(FramesFed)
        BY <2>1, <4>1, <4>2, SentTyped
      <4>3. CASE FramesFed < Len(script.kinds) /\ yielded = Sent(FramesFed + 1)
        <5>1. FramesFed + 1 \in 0..Len(script.kinds)
          BY <4>1, <4>3
        <5> QED
          BY <2>1, <4>3, <5>1, SentTyped
      <4>4. ASSUME FramesFed < Len(script.kinds), NEW kind \in CutKinds(script.kinds[FramesFed + 1]),
                   yielded = Append(Sent(FramesFed), [kind |-> kind, seq |-> FramesFed])
            PROVE  yielded \in Seq([kind : Kinds, seq : 0..MaxFrames])
        <5>1. FramesFed + 1 \in 1..Len(script.kinds)
          BY <4>1, <4>4
        <5>2. script.kinds[FramesFed + 1] \in Kinds
          BY <2>1, <5>1, ScriptMeans
        <5>3. kind \in Kinds
          BY <5>2 DEF CutKinds, Kinds
        <5> QED
          BY <2>1, <4>1, <4>4, <5>3, SentTyped
      <4> QED
        BY <2>3, <4>2, <4>3, <4>4 DEF ParserInv, CutFrameIsKnown
    <3> QED
      BY <2>1, <3>1, <3>2 DEF TypeOK
  <2>4. CASE pc # "done"
    <3>1. PICK k \in 0..Len(script.kinds), p \in 0..fed : Reading(k, p)
      BY <2>4 DEF ParserInv
    <3>2. Text(buffer, fed - p) /\ \A i \in 1..fed - p : buffer[i] = body[p + i]
      BY <3>1, BufferText DEF Reading
    <3>3. IsSuffix(buffer, SubSeq(body, 1, fed))
      <4> DEFINE t == SubSeq(body, 1, fed)
                 m == fed - p
      <4>1. fed \in Nat /\ m \in 0..fed /\ \A i \in 1..m : p + i \in 1..fed /\ fed - m + i = p + i
        BY <2>1
      <4>2. Text(t, fed) /\ \A i \in 1..fed : t[i] = body[i]
        BY <2>2
      <4>3. Text(buffer, m) /\ \A i \in 1..m : buffer[i] = body[p + i]
        BY <3>2
      <4> HIDE DEF t, m
      <4>4. \A i \in 1..m : buffer[i] = t[fed - m + i]
        BY <4>1, <4>2, <4>3
      <4>5. IsSuffix(buffer, t)
        BY <4>1, <4>2, <4>3, <4>4, RestIsSuffix
      <4> QED
        BY <4>5 DEF t
    <3>4. yielded \in Seq([kind : Kinds, seq : 0..MaxFrames])
      BY <2>1, <3>1, SentTyped DEF Reading
    <3> QED
      BY <2>1, <3>3, <3>4 DEF TypeOK
  <2> QED
    BY <2>3, <2>4
<1> HIDE DEF Emptied
<1> QED
  BY <1>1, <1>2, <1>3, ParserInvariant, PTL DEF Spec
=============================================================================
