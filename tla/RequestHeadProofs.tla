------------------------- MODULE RequestHeadProofs -------------------------
(***************************************************************************)
(* Theorems about the head of a request, for texts of any length and any   *)
(* number of parameters and headers: a server reads from it what was put   *)
(* into it, and as many bytes of content are announced as are written.     *)
(***************************************************************************)
EXTENDS RequestHead, DataLemmas, FiniteSetTheorems

\* Every token that a text can hold: a word, or one that the builder writes itself.
Token == STRING \cup Separators \cup {"HTTP/1.1", ContentLength}
Text == Seq(Token)
Readers == [parts : Seq(Text), part : Text]

\* No token of s is the separator.
Bare(s, separator) == \A k \in 1 .. Len(s) : s[k] # separator

\* A text and one more token.
LEMMA OneMore ==
  ASSUME NEW t \in Text, NEW x \in Token
  PROVE  /\ Append(t, x) \in Text /\ Len(Append(t, x)) = Len(t) + 1
         /\ Append(t, x)[Len(t) + 1] = x
         /\ \A i \in 1 .. Len(t) : Append(t, x)[i] = t[i]
<1>1. Append(t, x) \in Seq(Token) /\ Len(Append(t, x)) = Len(t) + 1
  BY AppendProperties DEF Text
<1>2. \A i \in 1 .. Len(t) : Append(t, x)[i] = t[i]
  BY AppendProperties DEF Text
<1>3. Append(t, x)[Len(t) + 1] = x
  BY AppendProperties DEF Text
<1> QED BY <1>1, <1>2, <1>3 DEF Text

\* Joining texts.
LEMMA JoinNothing ==
  ASSUME NEW T, NEW s \in Seq(T)
  PROVE  s \o <<>> = s /\ <<>> \o s = s
BY ConcatEmptySeq

\* Joining with a longer text.
LEMMA JoinOneMore ==
  ASSUME NEW T, NEW s \in Seq(T), NEW t \in Seq(T), NEW x \in T
  PROVE  s \o Append(t, x) = Append(s \o t, x)
BY SMTT(30)

\* Joining with one token is appending it.
LEMMA JoinOne ==
  ASSUME NEW T, NEW s \in Seq(T), NEW x \in T
  PROVE  s \o <<x>> = Append(s, x)
BY SMTT(30)

\* Joining is associative.
LEMMA JoinTwice ==
  ASSUME NEW T, NEW s \in Seq(T), NEW t \in Seq(T), NEW u \in Seq(T)
  PROVE  (s \o t) \o u = s \o (t \o u)
BY SMTT(30)

-------------------------------------------------------------------------------
(* Split *)

\* A reader stays a reader.
LEMMA ReaderTypes ==
  /\ NoPart \in Readers
  /\ \A r \in Readers : \A t \in Token : \A c : ReadToken(r, t, c) \in Readers
<1>1. NoPart \in Readers
  <2>1. <<>> \in Text /\ <<>> \in Seq(Text)
    BY EmptySeq DEF Text
  <2> QED BY <2>1 DEF NoPart, Readers
<1>2. ASSUME NEW r \in Readers, NEW t \in Token, NEW c
      PROVE  ReadToken(r, t, c) \in Readers
  <2>1. r.parts \in Seq(Text) /\ r.part \in Text
    BY DEF Readers
  <2>2. Append(r.parts, r.part) \in Seq(Text) /\ Append(r.part, t) \in Text /\ <<>> \in Text
    BY <2>1, AppendProperties, EmptySeq DEF Text
  <2>3. CASE t = c
    BY <2>2, <2>3 DEF ReadToken, Readers
  <2>4. CASE t # c
    <3>1. PICK p \in Text : p = Append(r.part, t)
      BY <2>2
    <3>2. [r EXCEPT !.part = p] \in Readers
      BY DEF Readers
    <3>3. ReadToken(r, t, c) = [r EXCEPT !.part = p]
      BY <2>4, <3>1 DEF ReadToken
    <3> QED BY <3>2, <3>3
  <2> QED BY <2>3, <2>4
<1> QED BY <1>1, <1>2

\* What a reader has after every token of a text.
Reading(t, c, f) ==
  /\ f \in [0 .. Len(t) -> Readers]
  /\ f[0] = NoPart
  /\ \A i \in 1 .. Len(t) : f[i] = ReadToken(f[i - 1], t[i], c)

\* The function that Read defines by recursion exists.
LEMMA ReadingExists ==
  ASSUME NEW t \in Text, NEW c
  PROVE  \E f : Reading(t, c, f)
<1>1. PICK n \in Nat : n = Len(t)
  BY DEF Text
<1> DEFINE step == [i \in 1 .. n |-> [r \in Readers |-> ReadToken(r, t[i], c)]]
<1>2. step \in [1 .. n -> [Readers -> Readers]]
  <2>1. \A i \in 1 .. n : t[i] \in Token
    BY <1>1, ElementOfSeq DEF Text
  <2> QED BY <2>1, ReaderTypes
<1>3. PICK f : Recurs(f, Readers, n, NoPart, step)
  <2> HIDE DEF step
  <2> QED BY <1>2, ReaderTypes, Recursion
<1>4. f \in [0 .. n -> Readers] /\ f[0] = NoPart /\ \A i \in 1 .. n : f[i] = step[i][f[i - 1]]
  BY <1>3 DEF Recurs
<1>5. ASSUME NEW i \in 1 .. n
      PROVE  f[i] = ReadToken(f[i - 1], t[i], c)
  <2>1. i - 1 \in 0 .. n
    OBVIOUS
  <2>2. f[i - 1] \in Readers
    BY <1>4, <2>1
  <2>3. step[i][f[i - 1]] = ReadToken(f[i - 1], t[i], c)
    BY <2>2
  <2> QED BY <1>4, <2>3
<1> QED BY <1>1, <1>4, <1>5 DEF Reading

\* Read is the last of what any such reader has.
LEMMA ReadIsLast ==
  ASSUME NEW t \in Text, NEW c, NEW f, Reading(t, c, f)
  PROVE  Read(t, c) = f[Len(t)] /\ Read(t, c) \in Readers
<1>1. PICK n \in Nat : n = Len(t)
  BY DEF Text
<1> DEFINE Runs(g) == g = [i \in 0 .. Len(t) |-> IF i = 0 THEN NoPart ELSE ReadToken(g[i - 1], t[i], c)]
<1>2. /\ f \in [0 .. n -> Readers] /\ f[0] = NoPart
      /\ \A i \in 1 .. n : f[i] = ReadToken(f[i - 1], t[i], c)
  BY <1>1 DEF Reading
<1>3. Runs(f)
  <2>1. \A i \in 0 .. n : f[i] = IF i = 0 THEN NoPart ELSE ReadToken(f[i - 1], t[i], c)
    <3>1. \A i \in 0 .. n : i = 0 \/ i \in 1 .. n
      OBVIOUS
    <3> QED BY <1>2, <3>1
  <2>2. f = [i \in 0 .. n |-> f[i]]
    BY <1>2
  <2>3. f = [i \in 0 .. n |-> IF i = 0 THEN NoPart ELSE ReadToken(f[i - 1], t[i], c)]
    BY <2>1, <2>2, Zenon
  <2> QED BY <1>1, <2>3
<1>4. PICK g : g = CHOOSE h : Runs(h)
  OBVIOUS
<1>5. Runs(g)
  BY <1>3, <1>4
<1>6. Read(t, c) = g[n]
  BY <1>1, <1>4 DEF Read
<1>7. g[0] = NoPart /\ \A i \in 1 .. n : g[i] = ReadToken(g[i - 1], t[i], c)
  <2>1. g = [i \in 0 .. n |-> IF i = 0 THEN NoPart ELSE ReadToken(g[i - 1], t[i], c)]
    BY <1>1, <1>5
  <2>2. 0 \in 0 .. n /\ \A i \in 1 .. n : i \in 0 .. n /\ i # 0
    OBVIOUS
  <2> QED BY <2>1, <2>2
<1> DEFINE Same == {i \in 0 .. n : g[i] = f[i]}
<1>8. \A i \in 0 .. n : i \in Same
  <2>1. 0 \in Same
    BY <1>2, <1>7
  <2>2. ASSUME NEW i \in 0 .. n, i \in Same, i < n
        PROVE  i + 1 \in Same
    <3>1. i + 1 \in 1 .. n /\ i + 1 \in 0 .. n /\ (i + 1) - 1 = i
      BY <2>2
    <3>2. g[i] = f[i]
      BY <2>2
    <3>3. g[i + 1] = ReadToken(g[i], t[i + 1], c) /\ f[i + 1] = ReadToken(f[i], t[i + 1], c)
      BY <1>2, <1>7, <3>1
    <3> QED BY <3>1, <3>2, <3>3
  <2> HIDE DEF Same
  <2> QED BY <2>1, <2>2, Induction
<1>9. g[n] = f[n] /\ f[n] \in Readers
  BY <1>2, <1>8
<1> QED BY <1>1, <1>6, <1>9

\* Read gives the parts of a text.
LEMMA ReadType ==
  ASSUME NEW t \in Text, NEW c
  PROVE  Read(t, c) \in Readers /\ Read(t, c).parts \in Seq(Text) /\ Read(t, c).part \in Text
BY ReadingExists, ReadIsLast DEF Readers

\* One token more.
LEMMA ReadAppend ==
  ASSUME NEW t \in Text, NEW x \in Token, NEW c
  PROVE  Read(Append(t, x), c) = ReadToken(Read(t, c), x, c)
<1>1. PICK n \in Nat : n = Len(t)
  BY DEF Text
<1>2. PICK u : u = Append(t, x)
  OBVIOUS
<1>3. u \in Text /\ Len(u) = n + 1 /\ u[n + 1] = x /\ \A i \in 1 .. n : u[i] = t[i]
  BY <1>1, <1>2, OneMore
<1>4. PICK f : Reading(t, c, f)
  BY ReadingExists
<1>5. /\ f \in [0 .. n -> Readers] /\ f[0] = NoPart
      /\ \A i \in 1 .. n : f[i] = ReadToken(f[i - 1], t[i], c)
  BY <1>1, <1>4 DEF Reading
<1>6. Read(t, c) = f[n] /\ f[n] \in Readers
  BY <1>1, <1>4, ReadIsLast
<1>7. PICK r \in Readers : r = ReadToken(f[n], x, c)
  BY <1>6, ReaderTypes
<1>8. PICK g : g = [i \in 0 .. n + 1 |-> IF i <= n THEN f[i] ELSE r]
  OBVIOUS
<1>9. g \in [0 .. n + 1 -> Readers] /\ g[n + 1] = r /\ \A i \in 0 .. n : g[i] = f[i]
  <2>1. \A i \in 0 .. n + 1 : i <= n => i \in 0 .. n
    OBVIOUS
  <2>2. g \in [0 .. n + 1 -> Readers]
    BY <1>5, <1>8, <2>1
  <2>3. n + 1 \in 0 .. n + 1 /\ ~(n + 1 <= n)
    OBVIOUS
  <2>4. \A i \in 0 .. n : i \in 0 .. n + 1 /\ i <= n
    OBVIOUS
  <2> QED BY <1>8, <2>2, <2>3, <2>4
<1>10. ASSUME NEW i \in 1 .. n + 1
       PROVE  g[i] = ReadToken(g[i - 1], u[i], c)
  <2>1. CASE i = n + 1
    <3>1. i - 1 = n /\ n \in 0 .. n
      BY <2>1
    <3> QED BY <1>3, <1>7, <1>9, <2>1, <3>1
  <2>2. CASE i # n + 1
    <3>1. i \in 1 .. n /\ i \in 0 .. n /\ i - 1 \in 0 .. n
      BY <2>2
    <3> QED BY <1>3, <1>5, <1>9, <3>1
  <2> QED BY <2>1, <2>2
<1>11. Reading(u, c, g)
  <2>1. 0 \in 0 .. n
    OBVIOUS
  <2> QED BY <1>3, <1>5, <1>9, <1>10, <2>1 DEF Reading
<1>12. Read(u, c) = r
  BY <1>3, <1>9, <1>11, ReadIsLast
<1> QED BY <1>2, <1>6, <1>7, <1>12

\* The beginnings of a text.
LEMMA Beginnings ==
  ASSUME NEW T, NEW s \in Seq(T)
  PROVE  /\ SubSeq(s, 1, 0) = <<>>
         /\ SubSeq(s, 1, Len(s)) = s
<1>1. SubSeq(s, 1, 0) = <<>>
  BY SubSeqEmpty
<1>2. SubSeq(s, 1, Len(s)) = s
  BY SubSeqFull
<1> QED BY <1>1, <1>2

\* The beginnings of a sequence, one element after the other.
LEMMA BeginningGrows ==
  ASSUME NEW T, NEW s \in Seq(T), NEW j \in Nat, j < Len(s)
  PROVE  /\ SubSeq(s, 1, j) \in Seq(T) /\ s[j + 1] \in T
         /\ SubSeq(s, 1, j + 1) = Append(SubSeq(s, 1, j), s[j + 1])
<1>1. PICK m \in 1 .. Len(s) : m = j + 1
  OBVIOUS
<1>2. 1 \in 1 .. m /\ m - 1 = j
  BY <1>1
<1>3. /\ SubSeq(s, 1, m) = Append(SubSeq(s, 1, m - 1), s[m])
      /\ SubSeq(s, 1, m - 1) \in Seq(T) /\ s[m] \in T
  BY <1>2, PartGrows
<1> QED BY <1>1, <1>2, <1>3

\* A reader that has read t has these parts, and reads this one.
Has(t, c, ps, p) ==
  /\ t \in Text /\ ps \in Seq(Text) /\ p \in Text
  /\ Read(t, c).parts = ps /\ Read(t, c).part = p

\* What a reader has is what Split gives.
LEMMA HasSplit ==
  ASSUME NEW t, NEW c, NEW ps, NEW p, Has(t, c, ps, p)
  PROVE  Split(t, c) = Append(ps, p)
BY DEF Has, Split

\* A token that is no separator extends the part.
LEMMA ReadOther ==
  ASSUME NEW t, NEW c, NEW ps, NEW p, Has(t, c, ps, p), NEW x \in Token, x # c
  PROVE  Has(Append(t, x), c, ps, Append(p, x))
<1>1. t \in Text /\ ps \in Seq(Text) /\ p \in Text /\ Read(t, c).parts = ps /\ Read(t, c).part = p
  BY DEF Has
<1>2. PICK r \in Readers : r = Read(t, c)
  BY <1>1, ReadType
<1>3. Read(Append(t, x), c) = ReadToken(r, x, c)
  BY <1>1, <1>2, ReadAppend
<1>4. ReadToken(r, x, c) = [r EXCEPT !.part = Append(r.part, x)]
  BY DEF ReadToken
<1>5. PICK q \in Text : q = Append(p, x)
  BY <1>1, OneMore
<1>6. [r EXCEPT !.part = q].parts = r.parts /\ [r EXCEPT !.part = q].part = q
  BY DEF Readers
<1>7. Append(t, x) \in Text
  BY <1>1, OneMore
<1> QED BY <1>1, <1>2, <1>3, <1>4, <1>5, <1>6, <1>7 DEF Has

\* Nothing has been read from the empty text.
LEMMA ReadNothing ==
  ASSUME NEW c
  PROVE  Has(<<>>, c, <<>>, <<>>)
<1>1. PICK t \in Text : t = <<>>
  BY EmptySeq DEF Text
<1>2. Len(t) = 0
  BY <1>1
<1>3. PICK f : Reading(t, c, f)
  BY ReadingExists
<1>4. Read(t, c) = f[Len(t)]
  BY <1>3, ReadIsLast
<1>5. Read(t, c) = NoPart
  BY <1>2, <1>3, <1>4 DEF Reading
<1>6. <<>> \in Seq(Text)
  BY EmptySeq
<1>7. NoPart.parts = <<>> /\ NoPart.part = <<>>
  BY DEF NoPart
<1> QED BY <1>1, <1>5, <1>6, <1>7 DEF Has

\* A text without the separator continues the part that is read.
LEMMA ReadBare ==
  ASSUME NEW t, NEW c, NEW ps, NEW p, Has(t, c, ps, p), NEW s \in Text, Bare(s, c)
  PROVE  Has(t \o s, c, ps, p \o s)
<1>1. PICK n \in Nat : n = Len(s)
  BY DEF Text
<1>2. t \in Text /\ p \in Text
  BY DEF Has
<1> DEFINE Good == {j \in 0 .. n : Has(t \o SubSeq(s, 1, j), c, ps, p \o SubSeq(s, 1, j))}
<1>3. 0 \in Good
  <2>1. SubSeq(s, 1, 0) = <<>>
    BY Beginnings DEF Text
  <2>2. t \o <<>> = t /\ p \o <<>> = p
    BY <1>2, JoinNothing DEF Text
  <2>3. 0 \in 0 .. n
    OBVIOUS
  <2> QED BY <2>1, <2>2, <2>3
<1>4. ASSUME NEW j \in 0 .. n, j \in Good, j < n
      PROVE  j + 1 \in Good
  <2>1. PICK v \in Text, x \in Token :
          v = SubSeq(s, 1, j) /\ x = s[j + 1] /\ SubSeq(s, 1, j + 1) = Append(v, x)
    <3>1. j \in Nat /\ j < Len(s) /\ s \in Seq(Token)
      BY <1>1, <1>4 DEF Text
    <3>2. /\ SubSeq(s, 1, j) \in Seq(Token) /\ s[j + 1] \in Token
          /\ SubSeq(s, 1, j + 1) = Append(SubSeq(s, 1, j), s[j + 1])
      BY <3>1, BeginningGrows
    <3> QED BY <3>2 DEF Text
  <2>2. j + 1 \in 1 .. n /\ j + 1 \in 0 .. n
    BY <1>4
  <2>3. x # c
    BY <1>1, <2>1, <2>2 DEF Bare
  <2>4. PICK u \in Seq(Token), q \in Seq(Token) : u = t \o v /\ q = p \o v /\ Has(u, c, ps, q)
    BY <1>4, <2>1 DEF Has, Text
  <2>5. Has(Append(u, x), c, ps, Append(q, x))
    BY <2>3, <2>4, ReadOther
  <2>6. t \o Append(v, x) = Append(u, x)
    <3>1. t \in Seq(Token) /\ v \in Seq(Token)
      BY <1>2 DEF Text
    <3>2. t \o Append(v, x) = Append(t \o v, x)
      BY <2>1, <3>1, SMTT(30)
    <3> QED BY <2>4, <3>2
  <2>7. p \o Append(v, x) = Append(q, x)
    <3>1. p \in Seq(Token) /\ v \in Seq(Token)
      BY <1>2 DEF Text
    <3>2. p \o Append(v, x) = Append(p \o v, x)
      BY <2>1, <3>1, SMTT(30)
    <3> QED BY <2>4, <3>2
  <2>8. Has(t \o SubSeq(s, 1, j + 1), c, ps, p \o SubSeq(s, 1, j + 1))
    BY <2>1, <2>5, <2>6, <2>7
  <2> QED BY <2>2, <2>8
<1>5. n \in Good
  <2>1. n \in 0 .. n /\ 0 \in Nat
    OBVIOUS
  <2> HIDE DEF Good
  <2> QED BY <1>3, <1>4, <2>1, Induction
<1>6. SubSeq(s, 1, n) = s
  BY <1>1, Beginnings DEF Text
<1> QED BY <1>5, <1>6

\* The separator ends it.
LEMMA ReadSeparator ==
  ASSUME NEW t, NEW c \in Token, NEW ps, NEW p, Has(t, c, ps, p)
  PROVE  Has(t \o <<c>>, c, Append(ps, p), <<>>)
<1>1. t \in Text /\ ps \in Seq(Text) /\ p \in Text /\ Read(t, c).parts = ps /\ Read(t, c).part = p
  BY DEF Has
<1>2. t \o <<c>> = Append(t, c) /\ Append(t, c) \in Text
  BY <1>1, JoinOne, OneMore DEF Text
<1>3. Read(Append(t, c), c) = ReadToken(Read(t, c), c, c)
  BY <1>1, ReadAppend
<1>4. ReadToken(Read(t, c), c, c) = [parts |-> Append(ps, p), part |-> <<>>]
  BY <1>1 DEF ReadToken
<1>5. Append(ps, p) \in Seq(Text) /\ <<>> \in Text
  BY <1>1, AppendProperties, EmptySeq DEF Text
<1>6. PICK r : r = Read(t \o <<c>>, c) /\ r = [parts |-> Append(ps, p), part |-> <<>>]
  BY <1>2, <1>3, <1>4, Zenon
<1>7. r.parts = Append(ps, p) /\ r.part = <<>>
  BY <1>6
<1> QED BY <1>2, <1>5, <1>6, <1>7 DEF Has

\* A sequence of one.
LEMMA OneToken ==
  ASSUME NEW T, NEW c \in T
  PROVE  <<c>> \in Seq(T)
OBVIOUS

\* A line, with the separator at its end.
LEMMA ReadLine ==
  ASSUME NEW t, NEW c \in Token, NEW ps, Has(t, c, ps, <<>>), NEW s \in Text, Bare(s, c)
  PROVE  Has(t \o (s \o <<c>>), c, Append(ps, s), <<>>)
<1>1. t \in Seq(Token) /\ s \in Seq(Token)
  BY DEF Has, Text
<1>2. <<>> \o s = s
  BY <1>1, JoinNothing
<1>3. Has(t \o s, c, ps, s)
  BY <1>2, ReadBare, Zenon
<1>4. Has((t \o s) \o <<c>>, c, Append(ps, s), <<>>)
  BY <1>3, ReadSeparator
<1>5. PICK d \in Seq(Token) : d = <<c>>
  BY OneToken
<1>6. (t \o s) \o d = t \o (s \o d)
  BY <1>1, SMTT(30)
<1> QED BY <1>4, <1>5, <1>6

\* Lines that follow one another.
Ended(ends, ls, c) ==
  /\ Len(ends) = Len(ls)
  /\ \A i \in 1 .. Len(ls) : Bare(ls[i], c) /\ ends[i] = ls[i] \o <<c>>

\* A reader reads back the lines that follow one another.
LEMMA ReadLines ==
  ASSUME NEW ls \in Seq(Text), NEW c \in Token, NEW ends \in Seq(Text), Ended(ends, ls, c),
         NEW t, NEW ps, Has(t, c, ps, <<>>)
  PROVE  Has(t \o FlattenSeq(ends), c, ps \o ls, <<>>)
<1>1. PICK n \in Nat : n = Len(ls)
  OBVIOUS
<1>2. t \in Seq(Token) /\ ps \in Seq(Text)
  BY DEF Has, Text
<1>3. \A i \in 1 .. n : ls[i] \in Text /\ ls[i] \o <<c>> \in Text
  <2>1. \A i \in 1 .. n : ls[i] \in Text
    BY <1>1, ElementOfSeq
  <2>2. PICK d \in Text : d = <<c>>
    BY OneToken DEF Text
  <2>3. \A s \in Text : s \o d \in Text
    BY ConcatProperties DEF Text
  <2> QED BY <2>1, <2>2, <2>3
<1>4. /\ ends \in Seq(Text) /\ Len(ends) = n
      /\ \A i \in 1 .. n : Bare(ls[i], c) /\ ends[i] = ls[i] \o <<c>>
  BY <1>1 DEF Ended
<1>5. CASE n = 0
  <2>1. ends = <<>> /\ ls = <<>>
    BY <1>1, <1>4, <1>5, EmptySeq
  <2>2. FlattenSeq(<<>>) = <<>>
    BY DEF FlattenSeq
  <2>3. t \o <<>> = t /\ ps \o <<>> = ps
    BY <1>2, JoinNothing
  <2> QED BY <2>1, <2>2, <2>3
<1>6. CASE n # 0
  <2>1. Len(ends) \in Nat \ {0}
    BY <1>4, <1>6
  <2>2. PICK f : /\ f = [i \in 1 .. Len(ends) |-> IF i = 1 THEN ends[i] ELSE f[i - 1] \o ends[i]]
                 /\ FlattenSeq(ends) = f[Len(ends)]
    BY <2>1, FlattenUnrolls
  <2>3. f[1] = ends[1] /\ \A i \in 2 .. n : f[i] = f[i - 1] \o ends[i]
    <3>1. f = [i \in 1 .. n |-> IF i = 1 THEN ends[i] ELSE f[i - 1] \o ends[i]]
      BY <1>4, <2>2
    <3>2. 1 \in 1 .. n /\ \A i \in 2 .. n : i \in 1 .. n /\ i # 1
      BY <1>6
    <3> QED BY <3>1, <3>2
  <2> DEFINE Good == {i \in 1 .. n : f[i] \in Text /\ Has(t \o f[i], c, ps \o SubSeq(ls, 1, i), <<>>)}
  <2>4. 1 \in Good
    <3>1. 1 \in 1 .. n /\ 0 \in Nat /\ 0 < Len(ls) /\ 0 + 1 = 1
      BY <1>1, <1>6
    <3>2. PICK s \in Text : s = ls[1] /\ Bare(s, c)
      BY <1>3, <1>4, <3>1
    <3>3. f[1] = s \o <<c>> /\ f[1] \in Text
      BY <1>3, <1>4, <2>3, <3>1, <3>2
    <3>4. Has(t \o (s \o <<c>>), c, Append(ps, s), <<>>)
      BY <3>2, ReadLine
    <3>5. PICK v \in Seq(Text), x \in Text :
            v = SubSeq(ls, 1, 0) /\ x = ls[0 + 1] /\ SubSeq(ls, 1, 0 + 1) = Append(v, x)
      <4>1. /\ SubSeq(ls, 1, 0) \in Seq(Text) /\ ls[0 + 1] \in Text
            /\ SubSeq(ls, 1, 0 + 1) = Append(SubSeq(ls, 1, 0), ls[0 + 1])
        BY <3>1, BeginningGrows
      <4> QED BY <4>1
    <3>6. v = <<>>
      BY <3>5, Beginnings
    <3>7. ps \o Append(v, x) = Append(ps \o v, x) /\ ps \o <<>> = ps
      BY <1>2, JoinNothing, JoinOneMore
    <3> QED BY <3>1, <3>2, <3>3, <3>4, <3>5, <3>6, <3>7
  <2>5. ASSUME NEW i \in 1 .. n, i \in Good, i < n
        PROVE  i + 1 \in Good
    <3>1. i + 1 \in 2 .. n /\ i + 1 \in 1 .. n /\ (i + 1) - 1 = i /\ i \in Nat /\ i < Len(ls)
      BY <1>1, <2>5
    <3>2. PICK v \in Seq(Text), s \in Text :
            v = SubSeq(ls, 1, i) /\ s = ls[i + 1] /\ SubSeq(ls, 1, i + 1) = Append(v, s)
      <4>1. /\ SubSeq(ls, 1, i) \in Seq(Text) /\ ls[i + 1] \in Text
            /\ SubSeq(ls, 1, i + 1) = Append(SubSeq(ls, 1, i), ls[i + 1])
        BY <3>1, BeginningGrows
      <4> QED BY <4>1
    <3>3. Bare(s, c)
      BY <1>4, <3>1, <3>2
    <3>4. PICK u \in Seq(Token) : u = f[i]
      BY <2>5 DEF Text
    <3>5. Has(t \o u, c, ps \o v, <<>>)
      BY <2>5, <3>2, <3>4
    <3>6. PICK d \in Seq(Token) : d = s \o <<c>> /\ d = ends[i + 1]
      BY <1>3, <1>4, <3>1, <3>2 DEF Text
    <3>7. f[i + 1] = u \o d /\ u \o d \in Text
      <4>1. f[i + 1] = u \o d
        BY <2>3, <3>1, <3>4, <3>6
      <4>2. u \o d \in Text
        BY ConcatProperties DEF Text
      <4> QED BY <4>1, <4>2
    <3>8. Has((t \o u) \o d, c, Append(ps \o v, s), <<>>)
      BY <3>3, <3>5, <3>6, ReadLine
    <3>9. (t \o u) \o d = t \o (u \o d)
      BY <1>2, SMTT(30)
    <3>10. ps \o Append(v, s) = Append(ps \o v, s)
      BY <1>2, JoinOneMore
    <3> QED BY <3>1, <3>2, <3>7, <3>8, <3>9, <3>10
  <2>6. n \in Good
    <3>1. n \in 1 .. n /\ 1 \in Nat
      BY <1>6
    <3> HIDE DEF Good
    <3> QED BY <2>4, <2>5, <3>1, Induction
  <2>7. SubSeq(ls, 1, n) = ls
    BY <1>1, Beginnings
  <2> QED BY <1>4, <2>2, <2>6, <2>7
<1> QED BY <1>5, <1>6

\* A sequence and one more element.
LEMMA AppendMore ==
  ASSUME NEW T, NEW t \in Seq(T), NEW x \in T
  PROVE  /\ Append(t, x) \in Seq(T) /\ Len(Append(t, x)) = Len(t) + 1
         /\ Append(t, x)[Len(t) + 1] = x
         /\ \A i \in 1 .. Len(t) : Append(t, x)[i] = t[i]
<1>1. Append(t, x) \in Seq(T) /\ Len(Append(t, x)) = Len(t) + 1
  BY AppendProperties
<1>2. \A i \in 1 .. Len(t) : Append(t, x)[i] = t[i]
  BY AppendProperties
<1>3. Append(t, x)[Len(t) + 1] = x
  BY AppendProperties
<1> QED BY <1>1, <1>2, <1>3

\* The first two of three.
LEMMA ThreeOf ==
  ASSUME NEW T, NEW a \in T, NEW b \in T, NEW d \in T
  PROVE  /\ Append(Append(Append(<<>>, a), b), d)[1] = a
         /\ Append(Append(Append(<<>>, a), b), d)[2] = b
<1>1. PICK s \in Seq(T) : s = <<>> /\ Len(s) = 0
  BY EmptySeq
<1>2. PICK u \in Seq(T) : u = Append(s, a)
  BY AppendMore
<1>3. Len(u) = 1 /\ u[1] = a
  <2>1. Len(u) = Len(s) + 1 /\ u[Len(s) + 1] = a
    BY <1>2, AppendMore
  <2> QED BY <1>1, <2>1
<1>4. PICK v \in Seq(T) : v = Append(u, b)
  BY AppendMore
<1>5. Len(v) = 2 /\ v[1] = a /\ v[2] = b
  <2>1. Len(v) = Len(u) + 1 /\ v[Len(u) + 1] = b /\ \A i \in 1 .. Len(u) : v[i] = u[i]
    BY <1>4, AppendMore
  <2>2. 1 \in 1 .. Len(u)
    BY <1>3
  <2> QED BY <1>3, <2>1, <2>2
<1>6. Append(v, d)[1] = v[1] /\ Append(v, d)[2] = v[2]
  <2>1. \A i \in 1 .. Len(v) : Append(v, d)[i] = v[i]
    BY AppendMore
  <2>2. 1 \in 1 .. Len(v) /\ 2 \in 1 .. Len(v)
    BY <1>5
  <2> QED BY <2>1, <2>2
<1> QED BY <1>1, <1>2, <1>4, <1>5, <1>6

\* Texts that one reads after another.
LEMMA ReadThree ==
  ASSUME NEW a \in Text, NEW b \in Text, NEW d \in Text, NEW c \in Token,
         Bare(a, c), Bare(b, c), Bare(d, c)
  PROVE  /\ Split((((a \o <<c>>) \o b) \o <<c>>) \o d, c)[1] = a
         /\ Split((((a \o <<c>>) \o b) \o <<c>>) \o d, c)[2] = b
<1>1. Has(<<>>, c, <<>>, <<>>)
  BY ReadNothing
<1>2. <<>> \o a = a /\ <<>> \o b = b /\ <<>> \o d = d
  BY JoinNothing DEF Text
<1>3. Has(a, c, <<>>, a)
  BY <1>1, <1>2, ReadBare, Zenon
<1>4. Has(a \o <<c>>, c, Append(<<>>, a), <<>>)
  BY <1>3, ReadSeparator
<1>5. Has((a \o <<c>>) \o b, c, Append(<<>>, a), b)
  BY <1>2, <1>4, ReadBare, Zenon
<1>6. Has(((a \o <<c>>) \o b) \o <<c>>, c, Append(Append(<<>>, a), b), <<>>)
  BY <1>5, ReadSeparator
<1>7. Has((((a \o <<c>>) \o b) \o <<c>>) \o d, c, Append(Append(<<>>, a), b), d)
  BY <1>2, <1>6, ReadBare, Zenon
<1>8. /\ Append(Append(Append(<<>>, a), b), d)[1] = a
      /\ Append(Append(Append(<<>>, a), b), d)[2] = b
  BY ThreeOf
<1>9. Split((((a \o <<c>>) \o b) \o <<c>>) \o d, c) = Append(Append(Append(<<>>, a), b), d)
  <2>1. PICK t, ps : t = (((a \o <<c>>) \o b) \o <<c>>) \o d /\ ps = Append(Append(<<>>, a), b)
    OBVIOUS
  <2>2. Has(t, c, ps, d)
    BY <1>7, <2>1, Zenon
  <2>3. Split(t, c) = Append(ps, d)
    BY <2>2, HasSplit
  <2> QED BY <2>1, <2>3, Zenon
<1> QED BY <1>8, <1>9, Zenon

-------------------------------------------------------------------------------
(* Texts without a separator *)

\* Another token is bare.
LEMMA BareToken ==
  ASSUME NEW x, NEW c, x # c
  PROVE  Bare(<<x>>, c)
BY DEF Bare

\* Bare texts join to a bare text.
LEMMA BareJoin ==
  ASSUME NEW a \in Text, NEW b \in Text, NEW c, Bare(a, c), Bare(b, c)
  PROVE  Bare(a \o b, c) /\ a \o b \in Text
<1>1. a \in Seq(Token) /\ b \in Seq(Token)
  BY DEF Text
<1>2. PICK u \in Seq(Token) : u = a \o b
  BY <1>1, Join
<1>3. PICK m \in Nat, n \in Nat : m = Len(a) /\ n = Len(b)
  BY <1>1
<1>4. /\ Len(u) = m + n
      /\ \A k \in 1 .. m : u[k] = a[k]
      /\ \A k \in 1 .. n : u[m + k] = b[k]
  <2>1. /\ a \o b \in Seq(Token) /\ Len(a \o b) = Len(a) + Len(b)
        /\ \A k \in 1 .. Len(a) : (a \o b)[k] = a[k]
        /\ \A k \in 1 .. Len(b) : (a \o b)[Len(a) + k] = b[k]
    BY <1>1, Join
  <2> QED BY <1>2, <1>3, <2>1
<1>5. ASSUME NEW k \in 1 .. m + n
      PROVE  u[k] # c
  <2>1. CASE k <= m
    <3>1. k \in 1 .. m
      BY <2>1
    <3> QED BY <1>3, <1>4, <3>1 DEF Bare
  <2>2. CASE k > m
    <3>1. PICK j \in 1 .. n : m + j = k
      <4>1. k - m \in 1 .. n /\ m + (k - m) = k
        BY <2>2
      <4> QED BY <4>1
    <3>2. u[m + j] = b[j] /\ b[j] # c
      BY <1>3, <1>4 DEF Bare
    <3> QED BY <3>1, <3>2
  <2> QED BY <2>1, <2>2
<1> QED BY <1>2, <1>4, <1>5 DEF Bare, Text

\* A text without the separator is bare ...
LEMMA BareOf ==
  ASSUME NEW t \in Text, NEW c, c \notin ToSet(t)
  PROVE  Bare(t, c)
BY DEF Bare, ToSet, Text

AllBare(s, c) == \A i \in 1 .. Len(s) : Bare(s[i], c)

\* Any number of bare texts join to a bare text.
LEMMA BareFlatten ==
  ASSUME NEW s \in Seq(Text), NEW c, AllBare(s, c)
  PROVE  Bare(FlattenSeq(s), c) /\ FlattenSeq(s) \in Text
<1>1. PICK n \in Nat : n = Len(s)
  OBVIOUS
<1>2. \A i \in 1 .. n : s[i] \in Text /\ Bare(s[i], c)
  <2>1. \A i \in 1 .. n : s[i] \in Text
    BY <1>1, ElementOfSeq
  <2> QED BY <1>1, <2>1 DEF AllBare
<1>3. CASE n = 0
  <2>1. s = <<>>
    BY <1>1, <1>3, EmptySeq
  <2>2. FlattenSeq(<<>>) = <<>>
    BY DEF FlattenSeq
  <2>3. <<>> \in Text /\ Bare(<<>>, c)
    BY EmptySeq DEF Text, Bare
  <2> QED BY <2>1, <2>2, <2>3
<1>4. CASE n # 0
  <2>1. Len(s) \in Nat \ {0}
    BY <1>1, <1>4
  <2>2. PICK f : /\ f = [i \in 1 .. Len(s) |-> IF i = 1 THEN s[i] ELSE f[i - 1] \o s[i]]
                 /\ FlattenSeq(s) = f[Len(s)]
    BY <2>1, FlattenUnrolls
  <2>3. f[1] = s[1] /\ \A i \in 2 .. n : f[i] = f[i - 1] \o s[i]
    <3>1. f = [i \in 1 .. n |-> IF i = 1 THEN s[i] ELSE f[i - 1] \o s[i]]
      BY <1>1, <2>2
    <3>2. 1 \in 1 .. n /\ \A i \in 2 .. n : i \in 1 .. n /\ i # 1
      BY <1>4
    <3> QED BY <3>1, <3>2
  <2> DEFINE Good == {i \in 1 .. n : f[i] \in Text /\ Bare(f[i], c)}
  <2>4. 1 \in Good
    <3>1. 1 \in 1 .. n
      BY <1>4
    <3> QED BY <1>1, <1>2, <2>3, <3>1
  <2>5. ASSUME NEW i \in 1 .. n, i \in Good, i < n
        PROVE  i + 1 \in Good
    <3>1. i + 1 \in 2 .. n /\ i + 1 \in 1 .. n /\ (i + 1) - 1 = i
      BY <2>5
    <3>2. f[i + 1] = f[i] \o s[i + 1] /\ s[i + 1] \in Text /\ Bare(s[i + 1], c)
      BY <1>1, <1>2, <2>3, <3>1
    <3>3. f[i] \in Text /\ Bare(f[i], c)
      BY <2>5
    <3>4. Bare(f[i] \o s[i + 1], c) /\ f[i] \o s[i + 1] \in Text
      BY <3>2, <3>3, BareJoin
    <3> QED BY <3>1, <3>2, <3>4
  <2>6. n \in Good
    <3>1. n \in 1 .. n /\ 1 \in Nat
      BY <1>4
    <3> HIDE DEF Good
    <3> QED BY <2>4, <2>5, <3>1, Induction
  <2> QED BY <1>1, <2>2, <2>6
<1> QED BY <1>3, <1>4

-------------------------------------------------------------------------------
(* Cut *)

\* Where the first separator is.
LEMMA CutFirst ==
  ASSUME NEW s \in Seq(Token), NEW c \in Token, NEW m \in 1 .. Len(s), s[m] = c,
         \A k \in 1 .. Len(s) : k < m => s[k] # c
  PROVE  Cut(s, c) = <<SubSeq(s, 1, m - 1), SubSeq(s, m + 1, Len(s))>>
<1> DEFINE I == {i \in 1 .. Len(s) : s[i] = c}
<1>1. SelectInSeq(s, LAMBDA t : t = c) = IF I # {} THEN Min(I) ELSE 0
  BY DEF SelectInSeq
<1>2. I \in SUBSET Nat /\ m \in I
  <2>1. PICK n \in Nat : n = Len(s)
    OBVIOUS
  <2>2. I \in SUBSET (1 .. n)
    BY <2>1
  <2>3. 1 .. n \in SUBSET Nat
    OBVIOUS
  <2> QED BY <2>2, <2>3
<1>3. \A k \in I : k \in Nat /\ m <= k
  <2>1. \A k \in I : k \in 1 .. Len(s) /\ ~(k < m)
    OBVIOUS
  <2>2. PICK n \in Nat : n = Len(s)
    OBVIOUS
  <2>3. \A k \in 1 .. n : k \in Nat /\ (~(k < m) => m <= k)
    BY <2>2
  <2> HIDE DEF I
  <2> QED BY <2>1, <2>2, <2>3
<1> HIDE DEF I
<1>4. Min(I) \in I /\ \A k \in I : Min(I) <= k
  BY <1>2, MinIsLeast
<1>5. SelectInSeq(s, LAMBDA t : t = c) = m
  BY <1>1, <1>2, <1>3, <1>4
<1> QED BY <1>5 DEF Cut

\* At a separator that no token in front of it is equal to.
LEMMA CutAt ==
  ASSUME NEW a \in Text, NEW b \in Text, NEW c \in Token, Bare(a, c)
  PROVE  Cut((a \o <<c>>) \o b, c) = <<a, b>>
<1>1. PICK d \in Seq(Token) : d = <<c>> /\ Len(d) = 1 /\ d[1] = c
  <2>1. <<c>> \in Seq(Token)
    BY OneToken
  <2>2. Len(<<c>>) = 1 /\ <<c>>[1] = c
    OBVIOUS
  <2> QED BY <2>1, <2>2
<1>2. a \in Seq(Token) /\ b \in Seq(Token)
  BY DEF Text
<1>3. PICK m \in Nat, n \in Nat : m = Len(a) /\ n = Len(b)
  BY <1>2
<1>4. PICK e \in Seq(Token) : e = a \o d
  BY <1>2, Join
<1>5. /\ Len(e) = m + 1 /\ \A k \in 1 .. m : e[k] = a[k]
      /\ e[m + 1] = c
  <2>1. /\ Len(a \o d) = Len(a) + Len(d)
        /\ \A k \in 1 .. Len(a) : (a \o d)[k] = a[k]
        /\ \A k \in 1 .. Len(d) : (a \o d)[Len(a) + k] = d[k]
    BY <1>2, Join
  <2>2. Len(e) = m + 1
    BY <1>1, <1>3, <1>4, <2>1
  <2>3. \A k \in 1 .. m : e[k] = a[k]
    BY <1>3, <1>4, <2>1
  <2>4. e[m + 1] = d[1]
    <3>1. 1 \in 1 .. Len(d)
      BY <1>1
    <3> QED BY <1>3, <1>4, <2>1, <3>1
  <2> QED BY <1>1, <2>2, <2>3, <2>4
<1>6. PICK u \in Seq(Token) : u = e \o b
  BY <1>2, Join
<1>7. Len(u) = m + 1 + n /\ \A k \in 1 .. m + 1 : u[k] = e[k]
  <2>1. Len(e \o b) = Len(e) + Len(b) /\ \A k \in 1 .. Len(e) : (e \o b)[k] = e[k]
    BY <1>2, Join
  <2> QED BY <1>3, <1>5, <1>6, <2>1
<1>8. Cut(u, c) = <<SubSeq(u, 1, (m + 1) - 1), SubSeq(u, (m + 1) + 1, Len(u))>>
  <2>1. PICK j \in 1 .. Len(u) : j = m + 1
    BY <1>7
  <2>3. u[j] = c /\ Len(u) \in Nat
    <3>1. m + 1 \in 1 .. m + 1
      OBVIOUS
    <3>2. u[m + 1] = e[m + 1]
      BY <1>7, <3>1
    <3> QED BY <1>5, <2>1, <3>2
  <2>2. \A k \in 1 .. Len(u) : k < j => u[k] # c
    <3> SUFFICES ASSUME NEW k \in 1 .. Len(u), k < j
                 PROVE  u[k] # c
      OBVIOUS
    <3>1. k \in 1 .. m /\ k \in 1 .. m + 1
      BY <2>1
    <3>2. u[k] = a[k]
      BY <1>5, <1>7, <3>1
    <3>3. a[k] # c
      BY <1>3, <3>1 DEF Bare
    <3> QED BY <3>2, <3>3
  <2>4. Cut(u, c) = <<SubSeq(u, 1, j - 1), SubSeq(u, j + 1, Len(u))>>
    BY <2>2, <2>3, CutFirst
  <2> QED BY <2>1, <2>4
<1>9. SubSeq(u, m + 2, Len(u)) = b
  <2>1. SubSeq(e \o b, Len(e) + 1, Len(e \o b)) = b
    BY <1>2, PartOfJoin
  <2>2. Len(e) + 1 = m + 2
    BY <1>5
  <2> QED BY <1>6, <2>1, <2>2
<1>10. SubSeq(u, 1, m) = a
  <2>1. PICK g \in Seq(Token) : g = d \o b
    BY <1>2, Join
  <2>2. u = a \o g
    BY <1>2, <1>4, <1>6, <2>1, SMTT(30)
  <2>3. SubSeq(a \o g, 1, Len(a)) = a
    BY <1>2, PartOfJoin
  <2> QED BY <1>3, <2>2, <2>3
<1>11. (m + 1) - 1 = m /\ (m + 1) + 1 = m + 2
  OBVIOUS
<1> QED BY <1>1, <1>4, <1>6, <1>9, <1>8, <1>10, <1>11

-------------------------------------------------------------------------------
(* The query of a request target *)

\* A mark, and texts with separators between them.
Marked(marked, q, c, ps) ==
  /\ Len(marked) = Len(ps) /\ marked[1] = <<q>> \o ps[1]
  /\ \A i \in 2 .. Len(ps) : marked[i] = <<c>> \o ps[i]

\* A reader reads back the texts that a mark introduces and separators part.
LEMMA ReadMarked ==
  ASSUME NEW q \in Token, NEW c \in Token,
         NEW ps \in Seq(Text), Len(ps) # 0, AllBare(ps, c),
         NEW marked \in Seq(Text), Marked(marked, q, c, ps)
  PROVE  \E g \in Text : FlattenSeq(marked) = <<q>> \o g /\ Split(g, c) = ps
<1>1. PICK n \in Nat : n = Len(ps)
  OBVIOUS
<1>2. \A i \in 1 .. n : ps[i] \in Text /\ Bare(ps[i], c)
  <2>1. \A i \in 1 .. n : ps[i] \in Text
    BY <1>1, ElementOfSeq
  <2> QED BY <1>1, <2>1 DEF AllBare
<1>3. PICK mark \in Seq(Token), ends \in Seq(Token) : mark = <<q>> /\ ends = <<c>>
  <2>1. <<q>> \in Seq(Token) /\ <<c>> \in Seq(Token)
    BY OneToken
  <2> QED BY <2>1
<1>4. marked[1] = mark \o ps[1] /\ \A i \in 2 .. n : marked[i] = ends \o ps[i]
  BY <1>1, <1>3 DEF Marked
<1>5. Len(marked) = n /\ Len(marked) \in Nat \ {0}
  BY <1>1 DEF Marked
<1>6. PICK f : /\ f = [i \in 1 .. Len(marked) |-> IF i = 1 THEN marked[i] ELSE f[i - 1] \o marked[i]]
               /\ FlattenSeq(marked) = f[Len(marked)]
  BY <1>5, FlattenUnrolls
<1>7. f[1] = marked[1] /\ \A i \in 2 .. n : f[i] = f[i - 1] \o marked[i]
  <2>1. f = [i \in 1 .. n |-> IF i = 1 THEN marked[i] ELSE f[i - 1] \o marked[i]]
    BY <1>5, <1>6
  <2>2. 1 \in 1 .. n /\ \A i \in 2 .. n : i \in 1 .. n /\ i # 1
    BY <1>1
  <2> QED BY <2>1, <2>2
<1> DEFINE Good == {i \in 1 .. n : \E g : f[i] = mark \o g /\ Has(g, c, SubSeq(ps, 1, i - 1), ps[i])}
<1>8. 1 \in Good
  <2>1. 1 \in 1 .. n /\ 1 - 1 = 0
    BY <1>1
  <2>2. PICK p \in Text : p = ps[1] /\ Bare(p, c)
    BY <1>1, <1>2, <2>1
  <2>3. <<>> \o p = p
    BY JoinNothing DEF Text
  <2>4. Has(<<>> \o p, c, <<>>, <<>> \o p)
    BY <2>2, ReadNothing, ReadBare
  <2>5. SubSeq(ps, 1, 0) = <<>>
    BY Beginnings
  <2>6. f[1] = mark \o p /\ Has(p, c, SubSeq(ps, 1, 1 - 1), p)
    BY <1>4, <1>7, <2>1, <2>2, <2>3, <2>4, <2>5
  <2> QED BY <2>1, <2>2, <2>6
<1>9. ASSUME NEW i \in 1 .. n, i \in Good, i < n
      PROVE  i + 1 \in Good
  <2>1. i + 1 \in 2 .. n /\ i + 1 \in 1 .. n /\ (i + 1) - 1 = i
    BY <1>9
  <2>2. PICK g : f[i] = mark \o g /\ Has(g, c, SubSeq(ps, 1, i - 1), ps[i])
    BY <1>9
  <2>3. PICK p \in Text : p = ps[i + 1] /\ Bare(p, c)
    BY <1>1, <1>2, <2>1
  <2>4. SubSeq(ps, 1, i) = Append(SubSeq(ps, 1, i - 1), ps[i])
    <3>1. 1 \in 1 .. i /\ i \in 1 .. Len(ps)
      BY <1>1
    <3> QED BY <3>1, PartGrows
  <2>5. Has(g \o <<c>>, c, SubSeq(ps, 1, i), <<>>)
    <3>1. Has(g \o <<c>>, c, Append(SubSeq(ps, 1, i - 1), ps[i]), <<>>)
      BY <2>2, ReadSeparator
    <3> QED BY <2>4, <3>1, Zenon
  <2>6. Has((g \o <<c>>) \o p, c, SubSeq(ps, 1, i), <<>> \o p)
    BY <2>3, <2>5, ReadBare
  <2>7. <<>> \o p = p
    BY JoinNothing DEF Text
  <2>8. f[i + 1] = (mark \o g) \o (ends \o p)
    BY <1>4, <1>7, <2>1, <2>2, <2>3
  <2>9. (mark \o g) \o (ends \o p) = mark \o ((g \o ends) \o p)
    <3>1. PICK h \in Seq(Token), r \in Seq(Token) : h = g /\ r = p
      BY <2>2 DEF Has, Text
    <3>2. (mark \o h) \o (ends \o r) = mark \o ((h \o ends) \o r)
      BY SMTT(30)
    <3> QED BY <3>1, <3>2
  <2>10. f[i + 1] = mark \o ((g \o ends) \o p)
    BY <2>8, <2>9
  <2>11. Has((g \o ends) \o p, c, SubSeq(ps, 1, (i + 1) - 1), ps[i + 1])
    BY <1>3, <2>1, <2>3, <2>6, <2>7
  <2> QED BY <2>1, <2>10, <2>11
<1>10. n \in Good
  <2>1. n \in 1 .. n /\ 1 \in Nat
    BY <1>1
  <2> HIDE DEF Good
  <2> QED BY <1>8, <1>9, <2>1, Induction
<1>11. PICK g : f[n] = mark \o g /\ Has(g, c, SubSeq(ps, 1, n - 1), ps[n])
  BY <1>10
<1>12. Append(SubSeq(ps, 1, n - 1), ps[n]) = ps
  <2>1. 1 \in 1 .. n /\ n \in 1 .. Len(ps)
    BY <1>1
  <2>2. SubSeq(ps, 1, n) = Append(SubSeq(ps, 1, n - 1), ps[n])
    BY <2>1, PartGrows
  <2>3. SubSeq(ps, 1, n) = ps
    BY <1>1, Beginnings
  <2> QED BY <2>2, <2>3
<1>13. Split(g, c) = ps
  <2>1. Split(g, c) = Append(SubSeq(ps, 1, n - 1), ps[n])
    BY <1>11 DEF Has, Split
  <2> QED BY <1>12, <2>1
<1>14. g \in Text
  BY <1>11 DEF Has
<1> QED BY <1>3, <1>5, <1>6, <1>11, <1>13, <1>14

-------------------------------------------------------------------------------
(* The names of the headers, in the order in which they are written *)

\* SetToSeq lists a finite set, whichever order it takes.
LEMMA NamesInOrder ==
  ASSUME NEW S, IsFiniteSet(S)
  PROVE  /\ SetToSeq(S) \in Seq(S)
         /\ \A x \in S : \E i \in 1 .. Len(SetToSeq(S)) : SetToSeq(S)[i] = x
<1>1. PICK n \in Nat : n = Cardinality(S) /\ ExistsBijection(1 .. n, S)
  BY FS_CardinalityType
<1>2. PICK b : b \in [1 .. n -> S] /\ IsInjective(b)
  BY <1>1 DEF ExistsBijection, Bijection, Injection
<1>3. PICK f : f = SetToSeq(S)
  OBVIOUS
<1>4. f \in [1 .. n -> S] /\ IsInjective(f)
  BY <1>1, <1>2, <1>3 DEF SetToSeq
<1>5. f \in Injection(1 .. n, S)
  BY <1>4 DEF Injection
<1>6. Cardinality(1 .. n) = n
  BY FS_Interval
<1>7. f \in Surjection(1 .. n, S)
  BY <1>1, <1>5, <1>6, FS_Injection
<1>8. \A x \in S : \E i \in 1 .. n : f[i] = x
  BY <1>7 DEF Surjection
<1>9. f \in Seq(S) /\ Len(f) = n
  BY <1>4, FunctionIsSeq
<1> QED BY <1>3, <1>8, <1>9

-------------------------------------------------------------------------------
(* The lines of a head *)

\* The lines after the first.
Rest(lines) == {lines[k] : k \in 2 .. Len(lines)}

\* The lines after the first, when there is a first line only ...
LEMMA RestOfFirst ==
  ASSUME NEW T, NEW x \in T, NEW s \in Seq(T)
  PROVE  /\ Append(<<>>, x) \o s \in Seq(T)
         /\ Len(Append(<<>>, x) \o s) = Len(s) + 1
         /\ (Append(<<>>, x) \o s)[1] = x
         /\ Rest(Append(<<>>, x) \o s) = {s[i] : i \in 1 .. Len(s)}
<1>1. PICK o \in Seq(T) : o = Append(<<>>, x) /\ Len(o) = 1 /\ o[1] = x
  <2>1. PICK e \in Seq(T) : e = <<>> /\ Len(e) = 0
    BY EmptySeq
  <2>2. PICK u \in Seq(T) : u = Append(e, x)
    BY AppendMore
  <2>3. Len(u) = Len(e) + 1 /\ u[Len(e) + 1] = x
    BY <2>2, AppendMore
  <2>4. Len(u) = 1 /\ u[1] = x
    BY <2>1, <2>3
  <2>5. u = Append(<<>>, x)
    BY <2>1, <2>2
  <2> QED BY <2>4, <2>5
<1>2. PICK u \in Seq(T) : u = o \o s
  BY Join
<1>3. PICK n \in Nat : n = Len(s)
  OBVIOUS
<1>4. Len(u) = n + 1 /\ u[1] = x /\ \A i \in 1 .. n : u[1 + i] = s[i]
  <2>1. /\ Len(o \o s) = Len(o) + Len(s)
        /\ \A p \in 1 .. Len(o) : (o \o s)[p] = o[p]
        /\ \A k \in 1 .. Len(s) : (o \o s)[Len(o) + k] = s[k]
    BY Join
  <2>2. 1 \in 1 .. Len(o)
    BY <1>1
  <2>3. Len(u) = n + 1
    BY <1>1, <1>2, <1>3, <2>1
  <2>4. u[1] = x
    BY <1>1, <1>2, <2>1, <2>2
  <2>5. \A i \in 1 .. n : u[1 + i] = s[i]
    BY <1>1, <1>2, <1>3, <2>1
  <2> QED BY <2>3, <2>4, <2>5
<1>5. ASSUME NEW l
      PROVE  l \in Rest(u) <=> \E i \in 1 .. n : l = s[i]
  <2>1. ASSUME NEW k \in 2 .. n + 1
        PROVE  \E i \in 1 .. n : u[k] = s[i]
    <3>1. k - 1 \in 1 .. n /\ 1 + (k - 1) = k
      OBVIOUS
    <3> QED BY <1>4, <3>1
  <2>2. ASSUME NEW i \in 1 .. n
        PROVE  \E k \in 2 .. n + 1 : u[k] = s[i]
    <3>1. 1 + i \in 2 .. n + 1
      OBVIOUS
    <3> QED BY <1>4, <3>1
  <2>3. l \in Rest(u) <=> \E k \in 2 .. n + 1 : l = u[k]
    BY <1>4 DEF Rest
  <2> QED BY <2>1, <2>2, <2>3
<1>6. Rest(u) = {s[i] : i \in 1 .. n}
  BY <1>5
<1> QED BY <1>1, <1>2, <1>3, <1>4, <1>6

\* ... and when one more line follows.
LEMMA RestOfMore ==
  ASSUME NEW T, NEW s \in Seq(T), Len(s) # 0, NEW x \in T
  PROVE  Append(s, x)[1] = s[1] /\ Rest(Append(s, x)) = Rest(s) \cup {x}
<1>1. PICK n \in Nat : n = Len(s) /\ 1 <= n
  OBVIOUS
<1>2. PICK u \in Seq(T) : u = Append(s, x)
  BY AppendMore
<1>3. Len(u) = n + 1 /\ u[n + 1] = x /\ \A i \in 1 .. n : u[i] = s[i]
  <2>1. Len(u) = Len(s) + 1 /\ u[Len(s) + 1] = x /\ \A i \in 1 .. Len(s) : u[i] = s[i]
    BY <1>2, AppendMore
  <2> QED BY <1>1, <2>1
<1>4. ASSUME NEW l
      PROVE  l \in Rest(u) <=> l \in Rest(s) \cup {x}
  <2>1. l \in Rest(u) <=> \E k \in 2 .. n + 1 : l = u[k]
    BY <1>3 DEF Rest
  <2>2. l \in Rest(s) <=> \E k \in 2 .. n : l = s[k]
    BY <1>1 DEF Rest
  <2>3. \A k \in 2 .. n + 1 : k \in 2 .. n \/ k = n + 1
    OBVIOUS
  <2>4. \A k \in 2 .. n : k \in 2 .. n + 1 /\ k \in 1 .. n
    OBVIOUS
  <2>5. n + 1 \in 2 .. n + 1
    BY <1>1
  <2>6. ASSUME l \in Rest(u)
        PROVE  l \in Rest(s) \cup {x}
    <3>1. PICK k \in 2 .. n + 1 : l = u[k]
      BY <2>1, <2>6
    <3>2. CASE k \in 2 .. n
      BY <1>3, <2>2, <2>4, <3>1, <3>2
    <3>3. CASE k = n + 1
      BY <1>3, <3>1, <3>3
    <3> QED BY <2>3, <3>2, <3>3
  <2>7. ASSUME l \in Rest(s) \cup {x}
        PROVE  l \in Rest(u)
    <3>1. CASE l = x
      BY <1>3, <2>1, <2>5, <3>1
    <3>2. CASE l \in Rest(s)
      <4>1. PICK k \in 2 .. n : l = s[k]
        BY <2>2, <3>2
      <4> QED BY <1>3, <2>1, <2>4, <4>1
    <3> QED BY <2>7, <3>1, <3>2
  <2> QED BY <2>6, <2>7
<1>5. Rest(u) = Rest(s) \cup {x}
  BY <1>4
<1>6. 1 \in 1 .. n
  BY <1>1
<1> QED BY <1>2, <1>3, <1>5, <1>6

\* A sequence of two.
LEMMA TwoTokens ==
  ASSUME NEW T, NEW x \in T, NEW y \in T
  PROVE  <<x, y>> \in Seq(T)
OBVIOUS

\* Something that is twice at the end of a sequence, and not before: where it is first.
LEMMA TwiceAtEnd ==
  ASSUME NEW T, NEW X \in Seq(T), NEW e \in T, Bare(X, e),
         NEW w, w = Append(Append(X, e), e)
  PROVE  /\ {i \in 1 .. Len(w) : w[i] = e} # {}
         /\ Min({i \in 1 .. Len(w) : w[i] = e}) = Len(X) + 1
         /\ \A k \in 1 .. Len(X) : w[k] = X[k]
         /\ SubSeq(w, Len(w) - 1, Len(w)) = <<e, e>>
<1>1. PICK n \in Nat : n = Len(X)
  OBVIOUS
<1>2. PICK u \in Seq(T) : u = Append(X, e)
  BY AppendMore
<1>3. Len(u) = n + 1 /\ u[n + 1] = e /\ \A i \in 1 .. n : u[i] = X[i]
  <2>1. Len(u) = Len(X) + 1 /\ u[Len(X) + 1] = e /\ \A i \in 1 .. Len(X) : u[i] = X[i]
    BY <1>2, AppendMore
  <2> QED BY <1>1, <2>1
<1>4. PICK v \in Seq(T) : v = Append(u, e)
  BY AppendMore
<1>5. v = w
  BY <1>2, <1>4
<1>6. Len(v) = n + 2 /\ \A i \in 1 .. n + 1 : v[i] = u[i]
  <2>1. Len(v) = Len(u) + 1 /\ \A i \in 1 .. Len(u) : v[i] = u[i]
    BY <1>4, AppendMore
  <2> QED BY <1>3, <2>1
<1>7. \A i \in 1 .. n : v[i] = X[i]
  <2>1. \A i \in 1 .. n : i \in 1 .. n + 1
    OBVIOUS
  <2> QED BY <1>3, <1>6, <2>1
<1> DEFINE I == {i \in 1 .. Len(v) : v[i] = e}
<1>8. I \in SUBSET Nat /\ n + 1 \in I /\ \A i \in I : n + 1 <= i
  <2>1. n + 1 \in 1 .. n + 2 /\ n + 1 \in 1 .. n + 1
    OBVIOUS
  <2>2. n + 1 \in I
    BY <1>3, <1>6, <2>1
  <2>3. \A i \in 1 .. n + 2 : i \in Nat /\ (n + 1 <= i \/ i \in 1 .. n)
    OBVIOUS
  <2>4. \A i \in 1 .. n : v[i] # e
    BY <1>1, <1>7 DEF Bare
  <2>5. \A i \in I : i \in 1 .. n + 2 /\ v[i] = e
    BY <1>6
  <2> HIDE DEF I
  <2> QED BY <2>2, <2>3, <2>4, <2>5
<1>9. I # {} /\ Min(I) = n + 1
  <2> HIDE DEF I
  <2>1. Min(I) \in I /\ \A i \in I : Min(I) <= i
    BY <1>8, MinIsLeast
  <2>2. Min(I) \in Nat /\ n + 1 <= Min(I) /\ Min(I) <= n + 1
    BY <1>8, <2>1
  <2> QED BY <1>8, <2>2
<1>10. SubSeq(v, Len(v) - 1, Len(v)) = <<e, e>>
  <2>1. PICK d \in Seq(T) : d = <<e, e>>
    BY TwoTokens
  <2>2. v = X \o d
    BY <1>2, <1>4, <2>1, SMTT(30)
  <2>3. SubSeq(X \o d, Len(X) + 1, Len(X \o d)) = d
    BY PartOfJoin
  <2>4. Len(X) + 1 = Len(v) - 1
    BY <1>1, <1>6
  <2> QED BY <2>1, <2>2, <2>3, <2>4
<1> QED BY <1>1, <1>5, <1>7, <1>9, <1>10

-------------------------------------------------------------------------------
(* A name, a separator and a value *)

\* Two tokens are joined from one and one.
LEMMA PairJoins ==
  ASSUME NEW T, NEW x \in T, NEW y \in T
  PROVE  <<x>> \o <<y>> = <<x, y>>
<1>1. PICK a \in Seq(T) : a = <<x>> /\ Len(a) = 1 /\ a[1] = x
  <2>1. <<x>> \in Seq(T) /\ Len(<<x>>) = 1 /\ <<x>>[1] = x
    BY OneToken
  <2> QED BY <2>1
<1>2. PICK b \in Seq(T) : b = <<x, y>> /\ Len(b) = 2 /\ b[1] = x /\ b[2] = y
  <2>1. <<x, y>> \in Seq(T) /\ Len(<<x, y>>) = 2 /\ <<x, y>>[1] = x /\ <<x, y>>[2] = y
    BY TwoTokens
  <2> QED BY <2>1
<1>3. PICK u \in Seq(T) : u = Append(a, y)
  BY AppendMore
<1>4. Len(u) = 2 /\ u[1] = x /\ u[2] = y
  <2>1. Len(u) = Len(a) + 1 /\ u[Len(a) + 1] = y /\ \A i \in 1 .. Len(a) : u[i] = a[i]
    BY <1>3, AppendMore
  <2>2. 1 \in 1 .. Len(a)
    BY <1>1
  <2> QED BY <1>1, <2>1, <2>2
<1>5. u = b
  <2>1. \A i \in 1 .. Len(u) : i = 1 \/ i = 2
    BY <1>4
  <2>2. Len(u) = Len(b) /\ \A i \in 1 .. Len(u) : u[i] = b[i]
    BY <1>2, <1>4, <2>1
  <2> QED BY <2>2, SeqEqual
<1>6. a \o <<y>> = Append(a, y)
  BY JoinOne
<1> QED BY <1>1, <1>2, <1>3, <1>5, <1>6

\* Three tokens are joined from one and two, and from two and one.
LEMMA TripleJoins ==
  ASSUME NEW T, NEW x \in T, NEW y \in T, NEW z \in T
  PROVE  <<x>> \o <<y, z>> = <<x, y, z>> /\ <<x, y>> \o <<z>> = <<x, y, z>>
<1>1. PICK a \in Seq(T) : a = <<x>>
  BY OneToken
<1>2. PICK b \in Seq(T) : b = <<y>>
  BY OneToken
<1>3. PICK c \in Seq(T) : c = <<z>>
  BY OneToken
<1>4. PICK d \in Seq(T) : d = <<x, y>> /\ Len(d) = 2 /\ d[1] = x /\ d[2] = y
  <2>1. <<x, y>> \in Seq(T) /\ Len(<<x, y>>) = 2 /\ <<x, y>>[1] = x /\ <<x, y>>[2] = y
    BY TwoTokens
  <2> QED BY <2>1
<1>5. PICK e \in Seq(T) : e = <<x, y, z>> /\ Len(e) = 3 /\ e[1] = x /\ e[2] = y /\ e[3] = z
  <2>1. <<x, y, z>> \in Seq(T)
    OBVIOUS
  <2>2. Len(<<x, y, z>>) = 3 /\ <<x, y, z>>[1] = x /\ <<x, y, z>>[2] = y /\ <<x, y, z>>[3] = z
    OBVIOUS
  <2> QED BY <2>1, <2>2
<1>6. PICK u \in Seq(T) : u = Append(d, z)
  BY AppendMore
<1>7. Len(u) = 3 /\ u[1] = x /\ u[2] = y /\ u[3] = z
  <2>1. Len(u) = Len(d) + 1 /\ u[Len(d) + 1] = z /\ \A i \in 1 .. Len(d) : u[i] = d[i]
    BY <1>6, AppendMore
  <2>2. 1 \in 1 .. Len(d) /\ 2 \in 1 .. Len(d)
    BY <1>4
  <2> QED BY <1>4, <2>1, <2>2
<1>8. u = e
  <2>1. \A i \in 1 .. Len(u) : i = 1 \/ i = 2 \/ i = 3
    BY <1>7
  <2>2. Len(u) = Len(e) /\ \A i \in 1 .. Len(u) : u[i] = e[i]
    BY <1>5, <1>7, <2>1
  <2> QED BY <2>2, SeqEqual
<1>9. d \o <<z>> = Append(d, z)
  BY JoinOne
<1>10. <<x>> \o <<y>> = <<x, y>> /\ <<y>> \o <<z>> = <<y, z>>
  BY PairJoins
<1>11. (a \o b) \o c = a \o (b \o c)
  BY SMTT(30)
<1> QED BY <1>1, <1>2, <1>3, <1>4, <1>5, <1>6, <1>8, <1>9, <1>10, <1>11

\* A name, a separator and a value, and how they are cut apart again.
LEMMA NameAndValue ==
  ASSUME NEW x \in Token, NEW e \in Token, NEW v \in Text
  PROVE  /\ <<x, e>> \o v \in Text
         /\ \A c : x # c /\ e # c /\ Bare(v, c) => Bare(<<x, e>> \o v, c)
         /\ x # e => Cut(<<x, e>> \o v, e) = <<<<x>>, v>>
<1>1. PICK d \in Text : d = <<x, e>>
  BY TwoTokens DEF Text
<1>2. d \o v \in Text
  BY ConcatProperties DEF Text
<1>3. ASSUME NEW c, x # c, e # c, Bare(v, c)
      PROVE  Bare(<<x, e>> \o v, c)
  <2>1. Len(<<x, e>>) = 2 /\ <<x, e>>[1] = x /\ <<x, e>>[2] = e /\ \A k \in 1 .. 2 : k = 1 \/ k = 2
    OBVIOUS
  <2>3. Bare(d, c)
    BY <1>1, <1>3, <2>1 DEF Bare
  <2>2. Bare(d \o v, c)
    BY <1>3, <2>3, BareJoin
  <2> QED BY <1>1, <2>2
<1>4. ASSUME x # e
      PROVE  Cut(<<x, e>> \o v, e) = <<<<x>>, v>>
  <2>1. PICK a \in Text : a = <<x>>
    BY OneToken DEF Text
  <2>2. Bare(<<x>>, e)
    BY <1>4, BareToken
  <2>3. Bare(a, e)
    BY <2>1, <2>2
  <2>4. Cut((a \o <<e>>) \o v, e) = <<a, v>>
    BY <2>3, CutAt
  <2>5. <<x>> \o <<e>> = <<x, e>>
    BY PairJoins
  <2> QED BY <2>1, <2>4, <2>5
<1> QED BY <1>1, <1>2, <1>3, <1>4

\* The mark of a parameter comes before its name.
LEMMA MarkedPart ==
  ASSUME NEW q \in Token, NEW x \in Token, NEW e \in Token, NEW v \in Text
  PROVE  <<q, x, e>> \o v = <<q>> \o (<<x, e>> \o v)
<1>1. PICK a \in Seq(Token) : a = <<q>>
  BY OneToken
<1>2. PICK b \in Seq(Token) : b = <<x, e>>
  BY TwoTokens
<1>3. v \in Seq(Token)
  BY DEF Text
<1>4. (a \o b) \o v = a \o (b \o v)
  BY <1>3, SMTT(30)
<1>5. <<q>> \o <<x, e>> = <<q, x, e>>
  BY TripleJoins
<1> QED BY <1>1, <1>2, <1>4, <1>5

-------------------------------------------------------------------------------
(* The fields of a request *)

\* The fields have their types, and the head is the one that is built from them.
RequestInv ==
  /\ method \in Text /\ path \in Text
  /\ query_params \in Seq(Token \X Text)
  /\ IsFiniteSet(DOMAIN headers) /\ DOMAIN headers \subseteq Token
  /\ headers \in [DOMAIN headers -> Text]
  /\ content \in 0 .. MaxContent /\ content_type \in {"NONE", "COMPLETE"}
  /\ built \in BOOLEAN /\ (built => head = BuildRequest)

\* The parameters as they are written, without the marks.
Params == [i \in 1 .. Len(query_params) |-> <<query_params[i][1], "=">> \o query_params[i][2]]

\* A parameter of a well-formed request is bare, and is cut into its name and value.
LEMMA ParamFacts ==
  ASSUME RequestInv, WellFormed, NEW i \in 1 .. Len(query_params)
  PROVE  /\ query_params[i][1] \in Token /\ query_params[i][2] \in Text
         /\ query_params[i][1] \notin {" ", "?", "&", "=", CRLF}
         /\ \A c \in {" ", "?", "&", "=", CRLF} : Bare(query_params[i][2], c)
         /\ Params[i] \in Text
         /\ \A c \in {" ", "&", CRLF} : Bare(Params[i], c)
         /\ Cut(Params[i], "=") = <<<<query_params[i][1]>>, query_params[i][2]>>
<1>1. PICK x, v : x = query_params[i][1] /\ v = query_params[i][2]
  OBVIOUS
<1>2. query_params[i] \in Token \X Text /\ DOMAIN query_params = 1 .. Len(query_params)
  BY ElementOfSeq DEF RequestInv
<1>3. x \in Token /\ v \in Text
  BY <1>1, <1>2
<1>4. Plain(<<x>>) /\ Plain(v)
  BY <1>1, <1>2 DEF WellFormed
<1>5. x \notin {" ", "?", "&", "=", CRLF}
  <2>1. x \in ToSet(<<x>>)
    BY DEF ToSet
  <2> QED BY <1>4, <2>1 DEF Plain
<1>6. ASSUME NEW c \in {" ", "?", "&", "=", CRLF}
      PROVE  Bare(v, c)
  <2>1. c \notin ToSet(v)
    BY <1>4 DEF Plain
  <2> QED BY <1>3, <2>1, BareOf
<1>7. PICK e \in Token : e = "="
  <2>1. "=" \in Token
    BY DEF Token, Separators
  <2> QED BY <2>1
<1>8. Params[i] = <<x, e>> \o v
  BY <1>1, <1>7 DEF Params
<1>9. /\ <<x, e>> \o v \in Text
      /\ \A c : x # c /\ e # c /\ Bare(v, c) => Bare(<<x, e>> \o v, c)
      /\ x # e => Cut(<<x, e>> \o v, e) = <<<<x>>, v>>
  BY <1>3, NameAndValue
<1>10. ASSUME NEW c \in {" ", "&", CRLF}
       PROVE  Bare(Params[i], c)
  <2>1. x # c /\ Bare(v, c)
    BY <1>5, <1>6
  <2>2. e # c
    BY <1>7 DEF CRLF
  <2> QED BY <1>8, <1>9, <2>1, <2>2
<1>11. x # e
  BY <1>5, <1>7
<1>12. Cut(Params[i], "=") = <<<<x>>, v>>
  BY <1>7, <1>8, <1>9, <1>11
<1> QED BY <1>1, <1>3, <1>5, <1>6, <1>8, <1>9, <1>10, <1>12

\* The builder writes tokens.
LEMMA SomeTokens ==
  {" ", "?", "&", "=", ": ", CRLF, "HTTP/1.1", ContentLength} \subseteq Token
BY DEF Token, Separators

\* The parameters as texts.
LEMMA ParamsType ==
  ASSUME RequestInv, WellFormed
  PROVE  /\ Params \in Seq(Text) /\ Len(Params) = Len(query_params) /\ Len(query_params) \in Nat
         /\ DOMAIN query_params = 1 .. Len(query_params)
         /\ \A i \in 1 .. Len(query_params) : Params[i] = <<query_params[i][1], "=">> \o query_params[i][2]
<1>1. PICK n \in Nat : n = Len(query_params) /\ DOMAIN query_params = 1 .. n
  BY DEF RequestInv
<1>2. \A i \in 1 .. n : Params[i] \in Text
  BY <1>1, ParamFacts
<1>3. Params = [i \in 1 .. n |-> Params[i]]
  BY <1>1 DEF Params
<1>4. Params \in [1 .. n -> Text]
  BY <1>2, <1>3
<1>5. Params \in Seq(Text) /\ Len(Params) = n
  BY <1>4, FunctionIsSeq
<1>6. \A i \in 1 .. n : Params[i] = <<query_params[i][1], "=">> \o query_params[i][2]
  BY <1>1 DEF Params
<1> QED BY <1>1, <1>5, <1>6

\* The query has no end of a target in it, and is read back as the parameters.
LEMMA QueryFacts ==
  ASSUME RequestInv, WellFormed
  PROVE  /\ Query \in Text /\ Bare(Query, " ") /\ Bare(Query, CRLF)
         /\ Len(query_params) = 0 => Query = <<>>
         /\ Len(query_params) # 0 => \E g \in Text : Query = <<"?">> \o g /\ Split(g, "&") = Params
<1>1. PICK n \in Nat : n = Len(query_params) /\ DOMAIN query_params = 1 .. n
  BY ParamsType
<1>2. PICK ps \in Seq(Text) : ps = Params
  BY ParamsType
<1>3. /\ Len(ps) = n
      /\ \A i \in 1 .. n : ps[i] = <<query_params[i][1], "=">> \o query_params[i][2]
  BY <1>1, <1>2, ParamsType
<1>4. PICK q \in Token, a \in Token, e \in Token : q = "?" /\ a = "&" /\ e = "="
  BY SomeTokens
<1>5. PICK marked : marked = [i \in DOMAIN query_params |->
               <<IF i = 1 THEN "?" ELSE "&", query_params[i][1], "=">> \o query_params[i][2]]
  OBVIOUS
<1>6. Query = FlattenSeq(marked)
  BY <1>5 DEF Query
<1>7. ASSUME NEW i \in 1 .. n
      PROVE  /\ ps[i] \in Text /\ marked[i] = (IF i = 1 THEN <<q>> ELSE <<a>>) \o ps[i]
             /\ \A c \in {" ", "&", CRLF} : Bare(ps[i], c)
  <2>1. PICK x \in Token, v \in Text : x = query_params[i][1] /\ v = query_params[i][2]
    BY <1>1, ParamFacts
  <2>2. PICK m \in Token : m = IF i = 1 THEN q ELSE a
    OBVIOUS
  <2>3. marked[i] = <<m, x, e>> \o v
    BY <1>1, <1>4, <1>5, <2>1, <2>2
  <2>4. <<m, x, e>> \o v = <<m>> \o (<<x, e>> \o v)
    BY MarkedPart, SMTT(60)
  <2>5. ps[i] = <<x, e>> \o v
    BY <1>3, <1>4, <2>1
  <2>6. <<m>> = IF i = 1 THEN <<q>> ELSE <<a>>
    BY <2>2
  <2>7. ps[i] \in Text /\ \A c \in {" ", "&", CRLF} : Bare(ps[i], c)
    BY <1>1, <1>2, ParamFacts
  <2>8. marked[i] = <<m>> \o ps[i]
    BY <2>3, <2>4, <2>5
  <2> QED BY <2>6, <2>7, <2>8
<1>8. ASSUME NEW i \in 1 .. n
      PROVE  marked[i] \in Text /\ Bare(marked[i], " ") /\ Bare(marked[i], CRLF)
  <2>1. PICK m \in Token : m = (IF i = 1 THEN q ELSE a) /\ m # " " /\ m # CRLF
    BY <1>4 DEF CRLF
  <2>2. PICK d \in Text : d = <<m>>
    BY OneToken DEF Text
  <2>3. Bare(<<m>>, " ") /\ Bare(<<m>>, CRLF)
    BY <2>1, BareToken
  <2>4. ps[i] \in Text /\ Bare(ps[i], " ") /\ Bare(ps[i], CRLF)
    BY <1>7
  <2>5. Bare(d \o ps[i], " ") /\ Bare(d \o ps[i], CRLF) /\ d \o ps[i] \in Text
    BY <2>2, <2>3, <2>4, BareJoin
  <2>6. marked[i] = d \o ps[i]
    BY <1>7, <2>1, <2>2
  <2> QED BY <2>5, <2>6
<1>9. marked \in Seq(Text) /\ Len(marked) = n
  <2>1. marked = [i \in 1 .. n |-> marked[i]]
    BY <1>1, <1>5
  <2>2. marked \in [1 .. n -> Text]
    BY <1>8, <2>1
  <2> QED BY <2>2, FunctionIsSeq
<1>10. Query \in Text /\ Bare(Query, " ") /\ Bare(Query, CRLF)
  <2>1. AllBare(marked, " ")
    BY <1>8, <1>9 DEF AllBare
  <2>2. AllBare(marked, CRLF)
    BY <1>8, <1>9 DEF AllBare
  <2>3. Bare(FlattenSeq(marked), " ") /\ FlattenSeq(marked) \in Text
    BY <1>9, <2>1, BareFlatten
  <2>4. Bare(FlattenSeq(marked), CRLF)
    BY <1>9, <2>2, BareFlatten
  <2> QED BY <1>6, <2>3, <2>4
<1>11. ASSUME n = 0
       PROVE  Query = <<>>
  <2>1. marked = <<>>
    BY <1>9, <1>11, EmptySeq
  <2>2. FlattenSeq(<<>>) = <<>>
    BY DEF FlattenSeq
  <2> QED BY <1>6, <2>1, <2>2
<1>12. ASSUME n # 0
       PROVE  \E g \in Text : Query = <<"?">> \o g /\ Split(g, "&") = Params
  <2>1. Len(ps) # 0
    BY <1>3, <1>12
  <2>2. AllBare(ps, a)
    BY <1>3, <1>4, <1>7 DEF AllBare
  <2>3. Marked(marked, q, a, ps)
    <3>1. 1 \in 1 .. n /\ \A i \in 2 .. n : i \in 1 .. n /\ i # 1
      BY <1>12
    <3> QED BY <1>3, <1>7, <1>9, <3>1 DEF Marked
  <2>4. PICK g \in Text : FlattenSeq(marked) = <<q>> \o g /\ Split(g, a) = ps
    BY <1>9, <2>1, <2>2, <2>3, ReadMarked
  <2> QED BY <1>2, <1>4, <1>6, <2>4
<1> QED BY <1>1, <1>10, <1>11, <1>12

-------------------------------------------------------------------------------
(* The target of a request *)

\* Method and path of a well-formed request are bare.
LEMMA FieldFacts ==
  ASSUME RequestInv, WellFormed
  PROVE  /\ Bare(method, " ") /\ Bare(method, CRLF) /\ method # <<>>
         /\ \A c \in {" ", "?", "&", "=", CRLF} : Bare(path, c)
<1>1. method \in Text /\ path \in Text
  BY DEF RequestInv
<1>2. " " \notin ToSet(method) /\ CRLF \notin ToSet(method) /\ method # <<>>
  BY DEF WellFormed
<1>3. \A c \in {" ", "?", "&", "=", CRLF} : c \notin ToSet(path)
  BY DEF WellFormed, Plain
<1>4. Bare(method, " ") /\ Bare(method, CRLF)
  BY <1>1, <1>2, BareOf
<1>5. \A c \in {" ", "?", "&", "=", CRLF} : Bare(path, c)
  BY <1>1, <1>3, BareOf
<1> QED BY <1>2, <1>4, <1>5

\* The parameters that are read from a target.
ParamsOf(target) ==
  LET params == Split(Cut(target, "?")[2], "&")
  IN IF "?" \notin ToSet(target) THEN <<>> ELSE [k \in DOMAIN params |-> Cut(params[k], "=")]

\* The parameters of the request.
ParamsGiven == [i \in DOMAIN query_params |-> <<<<query_params[i][1]>>, query_params[i][2]>>]

\* ... and the other way round.
LEMMA BareAndToSet ==
  ASSUME NEW t \in Text, NEW c, Bare(t, c)
  PROVE  c \notin ToSet(t)
BY DEF Bare, ToSet, Text

\* A separator between two texts is in their join.
LEMMA InJoin ==
  ASSUME NEW a \in Text, NEW b \in Text, NEW c \in Token
  PROVE  c \in ToSet((a \o <<c>>) \o b)
<1>1. PICK d \in Seq(Token) : d = <<c>> /\ Len(d) = 1 /\ d[1] = c
  <2>1. <<c>> \in Seq(Token) /\ Len(<<c>>) = 1 /\ <<c>>[1] = c
    BY OneToken
  <2> QED BY <2>1
<1>2. a \in Seq(Token) /\ b \in Seq(Token)
  BY DEF Text
<1>3. PICK u \in Seq(Token) : u = a \o d
  BY <1>2, Join
<1>4. PICK m \in Nat : m = Len(a)
  BY <1>2
<1>5. Len(u) = m + 1 /\ u[m + 1] = c
  <2>1. Len(a \o d) = Len(a) + Len(d) /\ \A k \in 1 .. Len(d) : (a \o d)[Len(a) + k] = d[k]
    BY <1>2, Join
  <2>2. 1 \in 1 .. Len(d)
    BY <1>1
  <2> QED BY <1>1, <1>3, <1>4, <2>1, <2>2
<1>6. PICK w \in Seq(Token) : w = u \o b
  BY <1>2, Join
<1>7. m + 1 \in 1 .. Len(w) /\ w[m + 1] = c
  <2>1. Len(u \o b) = Len(u) + Len(b) /\ \A k \in 1 .. Len(u) : (u \o b)[k] = u[k]
    BY <1>2, Join
  <2>2. m + 1 \in 1 .. Len(u) /\ Len(b) \in Nat
    BY <1>2, <1>5
  <2> QED BY <1>5, <1>6, <2>1, <2>2
<1>8. c \in ToSet(w)
  BY <1>7 DEF ToSet
<1> QED BY <1>1, <1>3, <1>6, <1>8

\* From the target the path is read back, and the parameters.
LEMMA TargetFacts ==
  ASSUME RequestInv, WellFormed, NEW target, target = path \o Query
  PROVE  /\ target \in Text /\ Bare(target, " ") /\ Bare(target, CRLF)
         /\ Cut(Append(target, "?"), "?")[1] = path
         /\ ParamsOf(target) = ParamsGiven
<1>1. PICK p \in Text : p = path /\ Bare(p, " ") /\ Bare(p, CRLF) /\ Bare(p, "?")
  BY FieldFacts DEF RequestInv
<1>2. target \in Text /\ Bare(target, " ") /\ Bare(target, CRLF)
  <2>1. Query \in Text /\ Bare(Query, " ") /\ Bare(Query, CRLF)
    BY QueryFacts
  <2> QED BY <1>1, <2>1, BareJoin
<1>3. PICK q \in Token : q = "?"
  BY SomeTokens
<1>4. PICK n \in Nat : n = Len(query_params) /\ DOMAIN query_params = 1 .. n
  BY ParamsType
<1>5. PICK e \in Text : e = <<>>
  BY EmptySeq DEF Text
<1>6. PICK m \in Text : m = <<q>>
  BY OneToken DEF Text
<1>7. CASE n = 0
  <2>1. target = p
    <3>1. p \o <<>> = p
      BY JoinNothing DEF Text
    <3> QED BY <1>1, <1>4, <1>7, <3>1, QueryFacts
  <2>2. Cut(Append(p, q), q) = <<p, e>>
    <3>1. Cut((p \o <<q>>) \o e, q) = <<p, e>>
      BY <1>1, <1>3, CutAt
    <3>2. p \o m \in Text
      BY ConcatProperties DEF Text
    <3>3. (p \o m) \o <<>> = p \o m
      BY <3>2, JoinNothing DEF Text
    <3>4. p \o <<q>> = Append(p, q)
      BY JoinOne DEF Text
    <3> QED BY <1>5, <1>6, <3>1, <3>3, <3>4
  <2>3. "?" \notin ToSet(target)
    BY <1>1, <2>1, BareAndToSet
  <2>4. ParamsOf(target) = <<>>
    BY <2>3 DEF ParamsOf
  <2>5. ParamsGiven = <<>>
    <3>1. ParamsGiven = [i \in 1 .. 0 |-> <<<<query_params[i][1]>>, query_params[i][2]>>]
      BY <1>4, <1>7 DEF ParamsGiven
    <3>2. ParamsGiven \in [1 .. 0 -> {}]
      BY <3>1
    <3>3. ParamsGiven \in Seq({}) /\ Len(ParamsGiven) = 0
      BY <3>2, FunctionIsSeq
    <3> QED BY <3>3, EmptySeq
  <2>6. Cut(Append(target, "?"), "?")[1] = path
    <3>1. Cut(Append(p, q), q)[1] = p
      BY <2>2
    <3> QED BY <1>1, <1>3, <2>1, <3>1, Zenon
  <2> QED BY <1>2, <2>4, <2>5, <2>6
<1>8. CASE n # 0
  <2>1. PICK g \in Text : Query = <<"?">> \o g /\ Split(g, "&") = Params
    BY <1>4, <1>8, QueryFacts
  <2>2. target = (p \o m) \o g
    <3>1. target = p \o (m \o g)
      BY <1>1, <1>3, <1>6, <2>1
    <3>2. PICK x \in Seq(Token), y \in Seq(Token), z \in Seq(Token) : x = p /\ y = m /\ z = g
      BY DEF Text
    <3>3. (x \o y) \o z = x \o (y \o z)
      BY SMTT(30)
    <3> QED BY <3>1, <3>2, <3>3
  <2>3. Cut(target, q) = <<p, g>>
    <3>1. Cut((p \o <<q>>) \o g, q) = <<p, g>>
      BY <1>1, <1>3, CutAt
    <3> QED BY <1>6, <2>2, <3>1, Zenon
  <2>4. Cut(Append(target, q), q) = <<p, Append(g, q)>>
    <3>1. PICK h \in Text : h = Append(g, q)
      BY OneMore
    <3>2. Cut((p \o <<q>>) \o h, q) = <<p, h>>
      BY <1>1, <1>3, CutAt
    <3>3. (p \o m) \o Append(g, q) = Append((p \o m) \o g, q)
      <4>1. PICK x \in Seq(Token), z \in Seq(Token) : x = p \o m /\ z = g
        BY ConcatProperties DEF Text
      <4>2. x \o Append(z, q) = Append(x \o z, q)
        BY JoinOneMore
      <4> QED BY <4>1, <4>2
    <3> QED BY <1>6, <2>2, <3>1, <3>2, <3>3
  <2>5. "?" \in ToSet(target)
    BY <1>3, <1>6, <2>2, InJoin
  <2>6. ParamsOf(target) = [k \in DOMAIN Params |-> Cut(Params[k], "=")]
    BY <1>3, <2>1, <2>3, <2>5 DEF ParamsOf
  <2>7. DOMAIN Params = 1 .. n
    BY <1>4 DEF Params
  <2>8. \A k \in 1 .. n : Cut(Params[k], "=") = <<<<query_params[k][1]>>, query_params[k][2]>>
    BY <1>4, ParamFacts
  <2>9. ParamsOf(target) = ParamsGiven
    BY <1>4, <2>6, <2>7, <2>8 DEF ParamsGiven
  <2>10. Cut(Append(target, "?"), "?")[1] = path
    <3>1. Cut(Append(target, q), q)[1] = p
      BY <2>4
    <3> QED BY <1>1, <1>3, <3>1, Zenon
  <2> QED BY <1>2, <2>9, <2>10
<1> QED BY <1>7, <1>8

-------------------------------------------------------------------------------
(* The head *)

FirstLine == (((method \o <<" ">>) \o (path \o Query)) \o <<" ">>) \o <<"HTTP/1.1">>
HeaderLine(n) == <<n, ": ">> \o headers[n]
ContentHeader == <<ContentLength, ": ", ToString(content)>>

\* A line with a name is not the empty line.
LEMMA NotEmpty ==
  ASSUME NEW x \in Token, NEW y \in Token, NEW v \in Text
  PROVE  <<x, y>> \o v # <<>>
<1>1. PICK d \in Seq(Token) : d = <<x, y>> /\ Len(d) = 2
  <2>1. <<x, y>> \in Seq(Token) /\ Len(<<x, y>>) = 2
    BY TwoTokens
  <2> QED BY <2>1
<1>2. v \in Seq(Token)
  BY DEF Text
<1>3. Len(d \o v) = Len(d) + Len(v) /\ Len(v) \in Nat
  BY <1>2, Join
<1>4. Len(d \o v) # 0
  BY <1>1, <1>3
<1>5. Len(<<>>) = 0
  OBVIOUS
<1> QED BY <1>1, <1>4, <1>5

\* A header line of a well-formed request is bare, and is cut into name and value.
LEMMA HeaderFacts ==
  ASSUME RequestInv, WellFormed, NEW n \in DOMAIN headers
  PROVE  /\ n \in Token /\ headers[n] \in Text
         /\ HeaderLine(n) \in Text /\ Bare(HeaderLine(n), CRLF) /\ HeaderLine(n) # <<>>
         /\ Cut(HeaderLine(n), ": ") = <<<<n>>, headers[n]>>
<1>1. PICK v \in Text : v = headers[n]
  BY DEF RequestInv
<1>2. n \in Token
  BY DEF RequestInv, Token
<1>3. n # ": " /\ n # CRLF /\ CRLF \notin ToSet(v)
  BY <1>1 DEF WellFormed
<1>4. PICK e \in Token : e = ": " /\ e # CRLF
  BY SomeTokens DEF CRLF
<1>5. Bare(v, CRLF)
  BY <1>3, BareOf
<1>6. /\ <<n, e>> \o v \in Text
      /\ \A c : n # c /\ e # c /\ Bare(v, c) => Bare(<<n, e>> \o v, c)
      /\ n # e => Cut(<<n, e>> \o v, e) = <<<<n>>, v>>
  BY <1>2, NameAndValue
<1>7. <<n, e>> \o v # <<>>
  BY <1>2, NotEmpty
<1>8. HeaderLine(n) = <<n, e>> \o v
  BY <1>1, <1>4 DEF HeaderLine
<1>9. Bare(<<n, e>> \o v, CRLF)
  BY <1>3, <1>4, <1>5, <1>6
<1>10. Cut(HeaderLine(n), ": ") = <<<<n>>, v>>
  BY <1>3, <1>4, <1>6, <1>8
<1> QED BY <1>1, <1>2, <1>6, <1>7, <1>8, <1>9, <1>10

\* The line that announces the content is bare, and is cut into name and length.
LEMMA ContentFacts ==
  ASSUME RequestInv
  PROVE  /\ ContentHeader \in Text /\ Bare(ContentHeader, CRLF) /\ ContentHeader # <<>>
         /\ Cut(ContentHeader, ": ") = <<<<ContentLength>>, <<ToString(content)>>>>
         /\ ContentHeader \o <<CRLF>> = <<ContentLength, ": ", ToString(content), CRLF>>
<1>1. PICK t \in Token : t = ToString(content) /\ t # CRLF
  <2>1. ToString(content) \in STRING \ Separators
    BY RequestAssumption DEF RequestInv
  <2> QED BY <2>1 DEF Token, Separators
<1>2. PICK l \in Token, e \in Token, c \in Token : l = ContentLength /\ e = ": " /\ c = CRLF
  BY SomeTokens
<1>3. l # e /\ l # c /\ e # c
  BY <1>2 DEF ContentLength, CRLF
<1>4. PICK v \in Text : v = <<t>>
  BY OneToken DEF Text
<1>5. ContentHeader = <<l, e>> \o v
  <2>1. <<l, e>> \o <<t>> = <<l, e, t>>
    BY TripleJoins
  <2> QED BY <1>1, <1>2, <1>4, <2>1 DEF ContentHeader
<1>6. Bare(<<t>>, c)
  BY <1>1, <1>2, BareToken
<1>7. /\ <<l, e>> \o v \in Text
      /\ \A d : l # d /\ e # d /\ Bare(v, d) => Bare(<<l, e>> \o v, d)
      /\ l # e => Cut(<<l, e>> \o v, e) = <<<<l>>, v>>
  BY NameAndValue
<1>8. Bare(ContentHeader, CRLF)
  BY <1>2, <1>3, <1>4, <1>5, <1>6, <1>7
<1>9. ContentHeader # <<>>
  BY <1>5, NotEmpty
<1>10. Cut(ContentHeader, ": ") = <<<<l>>, v>>
  BY <1>2, <1>3, <1>5, <1>7
<1>11. <<l, e, t>> \o <<c>> = <<l, e, t, c>>
  <2>1. PICK a \in Seq(Token) : a = <<l, e, t>> /\ Len(a) = 3 /\ a[1] = l /\ a[2] = e /\ a[3] = t
    <3>1. <<l, e, t>> \in Seq(Token)
      OBVIOUS
    <3>2. Len(<<l, e, t>>) = 3 /\ <<l, e, t>>[1] = l /\ <<l, e, t>>[2] = e /\ <<l, e, t>>[3] = t
      OBVIOUS
    <3> QED BY <3>1, <3>2
  <2>2. PICK b \in Seq(Token) : b = <<l, e, t, c>> /\ Len(b) = 4 /\ b[1] = l /\ b[2] = e /\ b[3] = t /\ b[4] = c
    <3>1. <<l, e, t, c>> \in Seq(Token)
      OBVIOUS
    <3>2. /\ Len(<<l, e, t, c>>) = 4 /\ <<l, e, t, c>>[1] = l /\ <<l, e, t, c>>[2] = e
          /\ <<l, e, t, c>>[3] = t /\ <<l, e, t, c>>[4] = c
      OBVIOUS
    <3> QED BY <3>1, <3>2
  <2>3. PICK u \in Seq(Token) : u = Append(a, c)
    BY AppendMore
  <2>4. Len(u) = 4 /\ u[1] = l /\ u[2] = e /\ u[3] = t /\ u[4] = c
    <3>1. Len(u) = Len(a) + 1 /\ u[Len(a) + 1] = c /\ \A i \in 1 .. Len(a) : u[i] = a[i]
      BY <2>3, AppendMore
    <3>2. 1 \in 1 .. Len(a) /\ 2 \in 1 .. Len(a) /\ 3 \in 1 .. Len(a)
      BY <2>1
    <3> QED BY <2>1, <3>1, <3>2
  <2>5. u = b
    <3>1. \A i \in 1 .. Len(u) : i = 1 \/ i = 2 \/ i = 3 \/ i = 4
      BY <2>4
    <3>2. Len(u) = Len(b) /\ \A i \in 1 .. Len(u) : u[i] = b[i]
      BY <2>2, <2>4, <3>1
    <3> QED BY <3>2, SeqEqual
  <2>6. a \o <<c>> = Append(a, c)
    BY JoinOne
  <2> QED BY <2>1, <2>2, <2>3, <2>5, <2>6
<1> QED BY <1>1, <1>2, <1>4, <1>5, <1>7, <1>8, <1>9, <1>10, <1>11 DEF ContentHeader

\* The first line is bare, and its parts are the method and the target.
LEMMA FirstLineFacts ==
  ASSUME RequestInv, WellFormed
  PROVE  /\ FirstLine \in Text /\ Bare(FirstLine, CRLF) /\ FirstLine # <<>>
         /\ Split(FirstLine, " ")[1] = method
         /\ Split(FirstLine, " ")[2] = path \o Query
<1>1. PICK m \in Text : m = method /\ Bare(m, " ") /\ Bare(m, CRLF)
  BY FieldFacts DEF RequestInv
<1>2. PICK t \in Text : t = path \o Query /\ Bare(t, " ") /\ Bare(t, CRLF)
  BY TargetFacts
<1>3. PICK s \in Token, h \in Token : s = " " /\ h = "HTTP/1.1"
  BY SomeTokens
<1>4. PICK v \in Text : v = <<h>> /\ Bare(v, " ") /\ Bare(v, CRLF)
  <2>1. <<h>> \in Text
    BY OneToken DEF Text
  <2>2. h # " " /\ h # CRLF
    BY <1>3 DEF CRLF
  <2>3. Bare(<<h>>, " ") /\ Bare(<<h>>, CRLF)
    BY <2>2, BareToken
  <2> QED BY <2>1, <2>3
<1>5. PICK b \in Text : b = <<s>> /\ Bare(b, CRLF)
  <2>1. <<s>> \in Text
    BY OneToken DEF Text
  <2>2. s # CRLF
    BY <1>3 DEF CRLF
  <2>3. Bare(<<s>>, CRLF)
    BY <2>2, BareToken
  <2> QED BY <2>1, <2>3
<1>6. FirstLine = (((m \o b) \o t) \o b) \o v
  BY <1>1, <1>2, <1>3, <1>4, <1>5 DEF FirstLine
<1>7. PICK x \in Text : x = m \o b /\ Bare(x, CRLF)
  BY <1>1, <1>5, BareJoin
<1>8. PICK y \in Text : y = x \o t /\ Bare(y, CRLF)
  BY <1>2, <1>7, BareJoin
<1>9. PICK z \in Text : z = y \o b /\ Bare(z, CRLF)
  BY <1>5, <1>8, BareJoin
<1>10. z \o v \in Text /\ Bare(z \o v, CRLF)
  BY <1>4, <1>9, BareJoin
<1>11. FirstLine = z \o v
  BY <1>6, <1>7, <1>8, <1>9
<1>12. z \o v # <<>>
  <2>1. PICK f \in Seq(Token), g \in Seq(Token) : f = z /\ g = v /\ Len(g) = 1
    BY <1>4 DEF Text
  <2>2. Len(f \o g) = Len(f) + Len(g) /\ Len(f) \in Nat
    BY Join
  <2>3. Len(f \o g) # 0 /\ Len(<<>>) = 0
    BY <2>1, <2>2
  <2> QED BY <2>1, <2>3
<1>13. /\ Split((((m \o <<s>>) \o t) \o <<s>>) \o v, s)[1] = m
       /\ Split((((m \o <<s>>) \o t) \o <<s>>) \o v, s)[2] = t
  <2>1. Bare(m, s) /\ Bare(t, s) /\ Bare(v, s)
    BY <1>1, <1>2, <1>3, <1>4
  <2> QED BY <2>1, ReadThree
<1> QED BY <1>1, <1>2, <1>3, <1>5, <1>6, <1>10, <1>11, <1>12, <1>13

\* The header lines are one line for every header, in some order.
LEMMA HeaderLinesFacts ==
  ASSUME RequestInv, WellFormed
  PROVE  \E ls \in Seq(Text), ends \in Seq(Text) :
           /\ Ended(ends, ls, CRLF) /\ HeaderLines = FlattenSeq(ends)
           /\ {ls[i] : i \in 1 .. Len(ls)} = {HeaderLine(n) : n \in DOMAIN headers}
<1> DEFINE N == DOMAIN headers
<1>1. PICK names : names = SetToSeq(N)
  OBVIOUS
<1>2. names \in Seq(N) /\ \A x \in N : \E i \in 1 .. Len(names) : names[i] = x
  BY <1>1, NamesInOrder DEF RequestInv
<1>3. PICK n \in Nat : n = Len(names) /\ DOMAIN names = 1 .. n
  BY <1>2
<1>4. \A i \in 1 .. n : names[i] \in N
  BY <1>2, <1>3, ElementOfSeq
<1>5. PICK ls : ls = [i \in 1 .. n |-> HeaderLine(names[i])]
  OBVIOUS
<1>6. PICK ends : ends = [i \in 1 .. n |-> <<names[i], ": ">> \o headers[names[i]] \o <<CRLF>>]
  OBVIOUS
<1>7. \A i \in 1 .. n : ls[i] = HeaderLine(names[i]) /\ ls[i] \in Text /\ Bare(ls[i], CRLF)
  BY <1>4, <1>5, HeaderFacts
<1>8. \A i \in 1 .. n : ends[i] = ls[i] \o <<CRLF>>
  BY <1>5, <1>6 DEF HeaderLine
<1>9. \A s \in Text : s \o <<CRLF>> \in Text
  <2>1. PICK c \in Text : c = <<CRLF>>
    BY OneToken, SomeTokens DEF Text
  <2>2. \A s \in Text : s \o c \in Text
    BY ConcatProperties DEF Text
  <2> QED BY <2>1, <2>2
<1>10. ls \in Seq(Text) /\ Len(ls) = n
  <2>1. ls \in [1 .. n -> Text]
    BY <1>5, <1>7
  <2> QED BY <2>1, FunctionIsSeq
<1>11. ends \in Seq(Text) /\ Len(ends) = n
  <2>1. \A i \in 1 .. n : ends[i] \in Text
    BY <1>7, <1>8, <1>9
  <2>2. ends \in [1 .. n -> Text]
    BY <1>6, <2>1
  <2> QED BY <2>2, FunctionIsSeq
<1>12. Ended(ends, ls, CRLF)
  BY <1>7, <1>8, <1>10, <1>11 DEF Ended
<1>13. HeaderLines = FlattenSeq(ends)
  BY <1>1, <1>3, <1>6 DEF HeaderLines
<1>14. {ls[i] : i \in 1 .. n} = {HeaderLine(k) : k \in N}
  <2>1. ASSUME NEW i \in 1 .. n
        PROVE  \E k \in N : ls[i] = HeaderLine(k)
    BY <1>4, <1>7
  <2>2. ASSUME NEW k \in N
        PROVE  \E i \in 1 .. n : ls[i] = HeaderLine(k)
    BY <1>2, <1>3, <1>7
  <2> QED BY <2>1, <2>2
<1> QED BY <1>10, <1>11, <1>12, <1>13, <1>14

\* The head by its parts.
LEMMA HeadIsJoined ==
  ASSUME RequestInv, WellFormed
  PROVE  BuildRequest = (((FirstLine \o <<CRLF>>) \o HeaderLines) \o ContentLine) \o <<CRLF>>
<1>1. method # <<>> /\ path # <<>>
  BY DEF WellFormed
<1>2. PICK m \in Seq(Token), p \in Seq(Token), q \in Seq(Token) : m = method /\ p = path /\ q = Query
  BY QueryFacts DEF RequestInv, Text
<1>3. PICK s \in Token, h \in Token, e \in Token : s = " " /\ h = "HTTP/1.1" /\ e = CRLF
  BY SomeTokens
<1>4. PICK a \in Seq(Token), v \in Seq(Token), c \in Seq(Token) : a = <<s>> /\ v = <<h>> /\ c = <<e>>
  BY OneToken
<1>5. <<s>> \o <<h>> = <<s, h>> /\ <<s, h>> \o <<e>> = <<s, h, e>>
  BY PairJoins, TripleJoins
<1>6. ((m \o a) \o p) \o q \o ((a \o v) \o c) = (((((m \o a) \o (p \o q)) \o a) \o v) \o c)
  <2>1. PICK x \in Seq(Token), z \in Seq(Token) : x = m \o a /\ z = a \o v
    BY Join
  <2>2. PICK y \in Seq(Token) : y = (x \o p) \o q
    BY Join
  <2>3. y = x \o (p \o q)
    BY <2>2, SMTT(30)
  <2>4. y \o (z \o c) = (y \o z) \o c
    BY SMTT(30)
  <2>5. y \o (a \o v) = (y \o a) \o v
    BY SMTT(30)
  <2> QED BY <2>1, <2>2, <2>3, <2>4, <2>5
<1>7. BuildRequest = (((((m \o a) \o p) \o q \o <<s, h, e>>) \o HeaderLines) \o ContentLine) \o c
  BY <1>1, <1>2, <1>3, <1>4 DEF BuildRequest
<1>8. <<s, h, e>> = (a \o v) \o c
  BY <1>4, <1>5
<1>9. FirstLine \o <<CRLF>> = (((((m \o a) \o (p \o q)) \o a) \o v) \o c)
  BY <1>2, <1>3, <1>4 DEF FirstLine
<1> QED BY <1>3, <1>4, <1>6, <1>7, <1>8, <1>9

ContentHeaders == IF content_type = "COMPLETE" THEN {ContentHeader} ELSE {}

\* The lines of a head: the request line, a line for each header and for the content,
\* and two that are empty.
LEMMA HeadIsRead ==
  ASSUME RequestInv, WellFormed
  PROVE  \E X \in Seq(Text) :
           /\ Split(BuildRequest, CRLF) = Append(Append(X, <<>>), <<>>)
           /\ Len(X) # 0 /\ X[1] = FirstLine
           /\ Rest(X) = {HeaderLine(n) : n \in DOMAIN headers} \cup ContentHeaders
<1>1. PICK c \in Token : c = CRLF
  BY SomeTokens
<1>2. PICK f \in Text : f = FirstLine /\ Bare(f, c)
  BY <1>1, FirstLineFacts
<1>3. PICK ls \in Seq(Text), ends \in Seq(Text) :
        /\ Ended(ends, ls, c) /\ HeaderLines = FlattenSeq(ends)
        /\ {ls[i] : i \in 1 .. Len(ls)} = {HeaderLine(n) : n \in DOMAIN headers}
  BY <1>1, HeaderLinesFacts
<1>4. Has(<<>>, c, <<>>, <<>>)
  BY ReadNothing
<1>5. Has(f \o <<c>>, c, Append(<<>>, f), <<>>)
  <2>1. Has(<<>> \o (f \o <<c>>), c, Append(<<>>, f), <<>>)
    BY <1>2, <1>4, ReadLine
  <2>2. <<>> \o (f \o <<c>>) = f \o <<c>>
    <3>1. PICK d \in Seq(Token) : d = <<c>>
      BY OneToken
    <3>2. f \o d \in Seq(Token)
      BY ConcatProperties DEF Text
    <3>3. <<>> \o (f \o d) = f \o d
      BY <3>2, JoinNothing
    <3> QED BY <3>1, <3>3
  <2> QED BY <2>1, <2>2
<1>6. PICK X \in Seq(Text) : X = Append(<<>>, f) \o ls
  BY RestOfFirst
<1>7. Has((f \o <<c>>) \o HeaderLines, c, X, <<>>)
  <2>1. Has((f \o <<c>>) \o FlattenSeq(ends), c, Append(<<>>, f) \o ls, <<>>)
    BY <1>3, <1>5, ReadLines
  <2> QED BY <1>3, <1>6, <2>1
<1>8. Len(X) # 0 /\ X[1] = f /\ Rest(X) = {HeaderLine(n) : n \in DOMAIN headers}
  <2>1. Len(X) = Len(ls) + 1 /\ X[1] = f /\ Rest(X) = {ls[i] : i \in 1 .. Len(ls)}
    BY <1>6, RestOfFirst
  <2>2. Len(ls) \in Nat
    OBVIOUS
  <2>3. Len(X) # 0
    BY <2>1, <2>2
  <2> QED BY <1>3, <2>1, <2>3
<1>9. BuildRequest = (((f \o <<c>>) \o HeaderLines) \o ContentLine) \o <<c>>
  BY <1>1, <1>2, HeadIsJoined
<1>10. CASE content_type = "COMPLETE"
  <2>1. PICK l \in Text : l = ContentHeader /\ Bare(l, c) /\ l \o <<c>> = ContentLine
    BY <1>1, <1>10, ContentFacts DEF ContentLine
  <2>2. Has(((f \o <<c>>) \o HeaderLines) \o (l \o <<c>>), c, Append(X, l), <<>>)
    BY <1>7, <2>1, ReadLine
  <2>3. Has((((f \o <<c>>) \o HeaderLines) \o (l \o <<c>>)) \o <<c>>, c, Append(Append(X, l), <<>>), <<>>)
    BY <2>2, ReadSeparator
  <2>4. Split(BuildRequest, c) = Append(Append(Append(X, l), <<>>), <<>>)
    <3>1. Has(BuildRequest, c, Append(Append(X, l), <<>>), <<>>)
      BY <1>9, <2>1, <2>3
    <3> QED BY <3>1 DEF Has, Split
  <2>5. PICK Y \in Seq(Text) : Y = Append(X, l)
    BY AppendMore
  <2>6. Len(Y) # 0
    <3>1. Len(Y) = Len(X) + 1 /\ Len(X) \in Nat
      BY <2>5, AppendMore
    <3> QED BY <3>1
  <2>7. Y[1] = f /\ Rest(Y) = Rest(X) \cup {l}
    BY <1>8, <2>5, RestOfMore
  <2>8. ContentHeaders = {l}
    BY <1>10, <2>1 DEF ContentHeaders
  <2> QED BY <1>1, <1>2, <1>8, <2>4, <2>5, <2>6, <2>7, <2>8
<1>11. CASE content_type # "COMPLETE"
  <2>1. ContentLine = <<>>
    BY <1>11 DEF ContentLine
  <2>2. PICK w \in Seq(Token) : w = (f \o <<c>>) \o HeaderLines
    BY <1>7 DEF Has, Text
  <2>3. w \o <<>> = w
    BY JoinNothing
  <2>4. Has(w \o <<c>>, c, Append(X, <<>>), <<>>)
    BY <1>7, <2>2, ReadSeparator
  <2>5. BuildRequest = w \o <<c>>
    BY <1>9, <2>1, <2>2, <2>3
  <2>6. Split(BuildRequest, c) = Append(Append(X, <<>>), <<>>)
    BY <2>4, <2>5, HasSplit
  <2>7. ContentHeaders = {}
    BY <1>11 DEF ContentHeaders
  <2> QED BY <1>1, <1>2, <1>8, <2>6, <2>7
<1> QED BY <1>10, <1>11

\* The header lines that are read.
LEMMA HeadersAreRead ==
  ASSUME NEW X \in Seq(Text), \A k \in 1 .. Len(X) : X[k] # <<>>,
         Lines = Append(Append(X, <<>>), <<>>)
  PROVE  HeadersRead = {Cut(l, ": ") : l \in Rest(X)}
<1>1. PICK e \in Text : e = <<>>
  BY EmptySeq DEF Text
<1>2. PICK w : w = Lines
  OBVIOUS
<1> DEFINE I == {i \in 1 .. Len(w) : w[i] = e}
<1>3. I # {} /\ Min(I) = Len(X) + 1 /\ \A k \in 1 .. Len(X) : w[k] = X[k]
  <2>1. w = Append(Append(X, e), e) /\ Bare(X, e)
    BY <1>1, <1>2 DEF Bare
  <2> QED BY <2>1, TwiceAtEnd
<1>4. SelectInSeq(Lines, LAMBDA l : l = <<>>) = IF I # {} THEN Min(I) ELSE 0
  BY <1>1, <1>2 DEF SelectInSeq
<1>5. SelectInSeq(Lines, LAMBDA l : l = <<>>) = Len(X) + 1
  <2> HIDE DEF I
  <2> QED BY <1>3, <1>4
<1>6. HeadersRead = {Cut(Lines[k], ": ") : k \in 2 .. (Len(X) + 1) - 1}
  BY <1>5 DEF HeadersRead
<1>7. PICK n \in Nat : n = Len(X) /\ (n + 1) - 1 = n
  <2>1. Len(X) \in Nat
    OBVIOUS
  <2>2. \A n \in Nat : (n + 1) - 1 = n
    OBVIOUS
  <2> QED BY <2>1, <2>2
<1>8. \A k \in 2 .. n : Lines[k] = X[k]
  <2>1. \A k \in 2 .. n : k \in 1 .. n
    OBVIOUS
  <2> HIDE DEF I
  <2> QED BY <1>2, <1>3, <1>7, <2>1
<1>9. HeadersRead = {Cut(X[k], ": ") : k \in 2 .. n}
  BY <1>6, <1>7, <1>8
<1>10. {Cut(X[k], ": ") : k \in 2 .. n} = {Cut(l, ": ") : l \in Rest(X)}
  BY <1>7 DEF Rest
<1> QED BY <1>9, <1>10

-------------------------------------------------------------------------------
(* What a server reads *)

\* What a server reads from the head of a well-formed request.
LEMMA HeadFacts ==
  ASSUME RequestInv, WellFormed, built
  PROVE  /\ RequestLine[1] = method /\ RequestLine[2] = path \o Query
         /\ HeadersRead = {<<<<n>>, headers[n]>> : n \in DOMAIN headers}
                            \cup (IF content_type = "COMPLETE"
                                  THEN {<<<<ContentLength>>, <<ToString(content)>>>>} ELSE {})
         /\ SubSeq(Lines, Len(Lines) - 1, Len(Lines)) = <<<<>>, <<>>>>
<1>1. Lines = Split(BuildRequest, CRLF)
  BY DEF Lines, RequestInv
<1>2. PICK X \in Seq(Text) :
        /\ Lines = Append(Append(X, <<>>), <<>>)
        /\ Len(X) # 0 /\ X[1] = FirstLine
        /\ Rest(X) = {HeaderLine(n) : n \in DOMAIN headers} \cup ContentHeaders
  BY <1>1, HeadIsRead
<1>3. PICK m \in Nat : m = Len(X) /\ 1 <= m
  BY <1>2
<1>4. \A l \in Rest(X) : l # <<>>
  <2>1. \A n \in DOMAIN headers : HeaderLine(n) # <<>>
    BY HeaderFacts
  <2>2. \A l \in ContentHeaders : l # <<>>
    BY ContentFacts DEF ContentHeaders
  <2> QED BY <1>2, <2>1, <2>2
<1>5. ASSUME NEW k \in 1 .. m
      PROVE  X[k] # <<>>
  <2>1. CASE k = 1
    BY <1>2, <2>1, FirstLineFacts
  <2>2. CASE k # 1
    <3>1. k \in 2 .. m
      BY <2>2
    <3>2. X[k] \in Rest(X)
      BY <1>3, <3>1 DEF Rest
    <3> QED BY <1>4, <3>2
  <2> QED BY <2>1, <2>2
<1>6. PICK e \in Text : e = <<>>
  BY EmptySeq DEF Text
<1>7. PICK w : w = Lines /\ w = Append(Append(X, e), e)
  BY <1>2, <1>6
<1>8. Bare(X, e)
  BY <1>3, <1>5, <1>6 DEF Bare
<1>9. (\A k \in 1 .. Len(X) : w[k] = X[k]) /\ SubSeq(w, Len(w) - 1, Len(w)) = <<e, e>>
  <2>1. w = Append(Append(X, e), e)
    BY <1>7
  <2>2. \A k \in 1 .. Len(X) : w[k] = X[k]
    BY <1>8, <2>1, TwiceAtEnd
  <2>3. SubSeq(w, Len(w) - 1, Len(w)) = <<e, e>>
    BY <1>8, <2>1, TwiceAtEnd
  <2> QED BY <2>2, <2>3
<1>10. Lines[1] = FirstLine
  <2>1. 1 \in 1 .. Len(X)
    BY <1>3
  <2> QED BY <1>2, <1>7, <1>9, <2>1
<1>11. RequestLine[1] = method /\ RequestLine[2] = path \o Query
  BY <1>10, FirstLineFacts DEF RequestLine
<1>12. HeadersRead = {Cut(l, ": ") : l \in Rest(X)}
  BY <1>2, <1>3, <1>5, HeadersAreRead
<1>13. \A n \in DOMAIN headers : Cut(HeaderLine(n), ": ") = <<<<n>>, headers[n]>>
  BY HeaderFacts
<1>14. {Cut(l, ": ") : l \in ContentHeaders}
         = IF content_type = "COMPLETE" THEN {<<<<ContentLength>>, <<ToString(content)>>>>} ELSE {}
  BY ContentFacts DEF ContentHeaders
<1> DEFINE H == {HeaderLine(n) : n \in DOMAIN headers}
           C == ContentHeaders
<1>15. {Cut(l, ": ") : l \in H} = {<<<<n>>, headers[n]>> : n \in DOMAIN headers}
  <2>1. {Cut(l, ": ") : l \in H} = {Cut(HeaderLine(n), ": ") : n \in DOMAIN headers}
    OBVIOUS
  <2>2. {Cut(HeaderLine(n), ": ") : n \in DOMAIN headers}
          = {<<<<n>>, headers[n]>> : n \in DOMAIN headers}
    BY <1>13
  <2> QED BY <2>1, <2>2
<1>16. {Cut(l, ": ") : l \in H \cup C} = {Cut(l, ": ") : l \in H} \cup {Cut(l, ": ") : l \in C}
  <2> HIDE DEF H, C
  <2> QED OBVIOUS
<1>17. HeadersRead = {<<<<n>>, headers[n]>> : n \in DOMAIN headers}
                       \cup (IF content_type = "COMPLETE"
                             THEN {<<<<ContentLength>>, <<ToString(content)>>>>} ELSE {})
  BY <1>2, <1>12, <1>14, <1>15, <1>16, Zenon
<1>18. SubSeq(Lines, Len(Lines) - 1, Len(Lines)) = <<<<>>, <<>>>>
  BY <1>6, <1>7, <1>9, Zenon
<1> QED BY <1>11, <1>17, <1>18

-------------------------------------------------------------------------------
(* The invariant *)

\* The application's texts are made of tokens.
LEMMA TextsAreTexts ==
  Seq(STRING) \subseteq Text /\ STRING \subseteq Token
<1>1. STRING \subseteq Token
  BY DEF Token
<1>2. ASSUME NEW s \in Seq(STRING)
      PROVE  s \in Seq(Token)
  <2>1. PICK n \in Nat : s \in [1 .. n -> STRING]
    BY SeqDef
  <2>2. s \in [1 .. n -> Token]
    BY <1>1, <2>1
  <2> QED BY <2>2, FunctionIsSeq
<1> QED BY <1>1, <1>2 DEF Text

\* A new request has the invariant.
LEMMA InvInit == Init => RequestInv
<1> SUFFICES ASSUME Init PROVE RequestInv
  OBVIOUS
<1>1. method \in Text /\ path \in Text
  BY EmptySeq DEF Init, Text
<1>2. query_params \in Seq(Token \X Text)
  BY EmptySeq DEF Init
<1>3. DOMAIN headers = {} /\ headers \in [{} -> Text]
  BY DEF Init
<1>4. IsFiniteSet(DOMAIN headers)
  BY <1>3, FS_EmptySet
<1>5. content \in 0 .. MaxContent
  BY RequestAssumption DEF Init
<1>6. content_type = "NONE" /\ built = FALSE
  BY DEF Init
<1>7. DOMAIN headers \subseteq Token /\ headers \in [DOMAIN headers -> Text]
  BY <1>3
<1> QED BY <1>1, <1>2, <1>4, <1>5, <1>6, <1>7, Zenon DEF RequestInv

\* A setter: what it was given becomes part of the request.
LEMMA InvSet ==
  ASSUME RequestInv, ~built, Set, UNCHANGED <<built, head>>
  PROVE  RequestInv'
<1> USE RequestAssumption, TextsAreTexts
<1>1. ~built'
  OBVIOUS
<1>2. CASE \E m \in Methods : SetMethod(m)
  BY <1>1, <1>2 DEF SetMethod, RequestInv
<1>3. CASE \E p \in Paths : SetPath(p)
  BY <1>1, <1>3 DEF SetPath, RequestInv
<1>4. CASE \E n \in Names, v \in Values : AddQueryParam(n, v)
  <2>1. PICK n \in Names, v \in Values : AddQueryParam(n, v)
    BY <1>4
  <2>2. <<n, v>> \in Token \X Text
    OBVIOUS
  <2>3. query_params' \in Seq(Token \X Text)
    <3>1. query_params \in Seq(Token \X Text)
      BY Zenon DEF RequestInv
    <3>2. query_params' = Append(query_params, <<n, v>>)
      BY <2>1 DEF AddQueryParam
    <3> HIDE RequestAssumption, TextsAreTexts
    <3> QED BY <2>2, <3>1, <3>2, AppendProperties
  <2>4. UNCHANGED <<method, path, headers, content_type, content>>
    BY <2>1 DEF AddQueryParam
  <2> HIDE RequestAssumption, TextsAreTexts
  <2> QED BY <1>1, <2>3, <2>4, Zenon DEF RequestInv
<1>5. CASE \E n \in Names, v \in Values : AddHeader(n, v)
  <2>1. PICK n \in Names, v \in Values : AddHeader(n, v)
    BY <1>5
  <2>2. v \in Text /\ n \in Token
    OBVIOUS
  <2>3. DOMAIN headers' = DOMAIN headers \cup {n}
    BY <2>1 DEF AddHeader
  <2>4. headers' \in [DOMAIN headers \cup {n} -> Text]
    BY <2>1, <2>2 DEF AddHeader, RequestInv
  <2>5. IsFiniteSet(DOMAIN headers \cup {n})
    BY FS_AddElement DEF RequestInv
  <2>6. DOMAIN headers \subseteq Token
    BY Zenon DEF RequestInv
  <2>7. UNCHANGED <<method, path, query_params, content_type, content>>
    BY <2>1 DEF AddHeader
  <2>8. DOMAIN headers' \subseteq Token /\ IsFiniteSet(DOMAIN headers')
    BY <2>2, <2>3, <2>5, <2>6, Zenon
  <2>9. headers' \in [DOMAIN headers' -> Text]
    BY <2>3, <2>4, Zenon
  <2> HIDE RequestAssumption, TextsAreTexts
  <2> QED BY <1>1, <2>7, <2>8, <2>9, Zenon DEF RequestInv
<1>6. CASE \E c \in 0 .. MaxContent : SetContent(c)
  BY <1>1, <1>6 DEF SetContent, RequestInv
<1> QED BY <1>2, <1>3, <1>4, <1>5, <1>6 DEF Set

\* BuildRequest changes none of the fields.
LEMMA InvBuild ==
  ASSUME RequestInv, Build
  PROVE  RequestInv'
<1>1. UNCHANGED fields
  BY DEF Build
<1>2. BuildRequest' = BuildRequest
  BY <1>1 DEF fields, BuildRequest, Query, HeaderLines, ContentLine
<1> QED BY <1>1, <1>2 DEF Build, RequestInv, fields

\* Every setter keeps the invariant, and Run() writes the head for it.
LEMMA InvNext == RequestInv /\ [Next]_vars => RequestInv'
<1> SUFFICES ASSUME RequestInv, [Next]_vars PROVE RequestInv'
  OBVIOUS
<1>1. CASE ~built /\ Set /\ UNCHANGED <<built, head>>
  BY <1>1, InvSet
<1>2. CASE Build
  BY <1>2, InvBuild
<1>3. CASE UNCHANGED vars
  <2>1. UNCHANGED fields /\ UNCHANGED <<built, head>>
    BY <1>3 DEF vars
  <2>2. BuildRequest' = BuildRequest
    BY <2>1 DEF fields, BuildRequest, Query, HeaderLines, ContentLine
  <2> QED BY <2>1, <2>2 DEF RequestInv, fields
<1> QED BY <1>1, <1>2, <1>3 DEF Next

\* The fields of a request have the types that their setters take, and the head
\* that has been built is the one that BuildRequest writes for them: no setter is
\* called on a request that a stream runs (http_stream.h:54-63).
THEOREM RequestIsKept == Spec => []RequestInv
BY InvInit, InvNext, PTL DEF Spec

\* A server reads from the head what the setters have put into the request, for
\* any number of parameters and headers and texts of any length: the method, the
\* path, the parameters in their order, every header once and no other, and an
\* empty line at the end (request_builder.h:18-46).
THEOREM RequestsAreRead == Spec => []RoundTrip
<1>1. RequestInv => RoundTrip
  <2> SUFFICES ASSUME RequestInv, built, WellFormed
               PROVE  /\ RequestLine[1] = method
                      /\ Cut(Append(RequestLine[2], "?"), "?")[1] = path
                      /\ ParamsRead = ParamsGiven
                      /\ {h \in HeadersRead : h[1] # <<ContentLength>>}
                           = {<<<<n>>, headers[n]>> : n \in DOMAIN headers \ {ContentLength}}
                      /\ SubSeq(Lines, Len(Lines) - 1, Len(Lines)) = <<<<>>, <<>>>>
    BY DEF RoundTrip, ParamsGiven
  <2>1. PICK target : target = path \o Query /\ target = RequestLine[2]
    BY HeadFacts
  <2>2. Cut(Append(target, "?"), "?")[1] = path /\ ParamsOf(target) = ParamsGiven
    BY <2>1, TargetFacts
  <2>3. ParamsRead = ParamsOf(target)
    BY <2>1 DEF ParamsRead, ParamsOf
  <2>4. {h \in HeadersRead : h[1] # <<ContentLength>>}
          = {<<<<n>>, headers[n]>> : n \in DOMAIN headers \ {ContentLength}}
    <3>1. PICK G, C : /\ G = {<<<<n>>, headers[n]>> : n \in DOMAIN headers}
                      /\ HeadersRead = G \cup C /\ \A h \in C : h[1] = <<ContentLength>>
      <4>1. \A h \in (IF content_type = "COMPLETE"
                      THEN {<<<<ContentLength>>, <<ToString(content)>>>>} ELSE {}) :
              h[1] = <<ContentLength>>
        OBVIOUS
      <4>2. \E G, C : /\ G = {<<<<n>>, headers[n]>> : n \in DOMAIN headers}
                      /\ C = (IF content_type = "COMPLETE"
                              THEN {<<<<ContentLength>>, <<ToString(content)>>>>} ELSE {})
                      /\ HeadersRead = G \cup C
        BY HeadFacts
      <4> QED BY <4>1, <4>2, Zenon
    <3>2. \A n : <<n>> = <<ContentLength>> <=> n = ContentLength
      OBVIOUS
    <3>3. {h \in G : h[1] # <<ContentLength>>}
            = {<<<<n>>, headers[n]>> : n \in DOMAIN headers \ {ContentLength}}
      BY <3>1, <3>2
    <3>4. {h \in HeadersRead : h[1] # <<ContentLength>>} = {h \in G : h[1] # <<ContentLength>>}
      BY <3>1
    <3> QED BY <3>3, <3>4
  <2> QED BY <2>1, <2>2, <2>3, <2>4, HeadFacts
<1> QED BY <1>1, RequestIsKept, PTL

\* The head announces as many bytes of content as are written after it, and none
\* without content, unless the application has added a content-length of its own
\* (http_stream.h:148-159).
THEOREM ContentIsAnnounced == Spec => []AnnouncedIsWritten
<1>1. RequestInv => AnnouncedIsWritten
  <2> SUFFICES ASSUME RequestInv, built, WellFormed, ContentLength \notin DOMAIN headers,
                      NEW announced,
                      announced = {h[2] : h \in {h \in HeadersRead : h[1] = <<ContentLength>>}}
               PROVE  IF content_type = "NONE" THEN announced = {} /\ ContentWritten = 0
                                               ELSE announced = {<<ToString(ContentWritten)>>}
    BY DEF AnnouncedIsWritten
  <2>1. PICK G, C : /\ G = {<<<<n>>, headers[n]>> : n \in DOMAIN headers}
                    /\ C = (IF content_type = "COMPLETE"
                            THEN {<<<<ContentLength>>, <<ToString(content)>>>>} ELSE {})
                    /\ HeadersRead = G \cup C
    BY HeadFacts
  <2>2. \A h \in G : h[1] # <<ContentLength>>
    <3>1. \A n : <<n>> = <<ContentLength>> <=> n = ContentLength
      OBVIOUS
    <3> QED BY <2>1, <3>1
  <2>3. {h \in HeadersRead : h[1] = <<ContentLength>>} = C
    <3>1. \A h \in C : h[1] = <<ContentLength>>
      BY <2>1
    <3> QED BY <2>1, <2>2, <3>1
  <2>4. announced = {h[2] : h \in C}
    BY <2>3
  <2>5. CASE content_type = "NONE"
    BY <2>1, <2>4, <2>5 DEF ContentWritten
  <2>6. CASE content_type = "COMPLETE"
    BY <2>1, <2>4, <2>6 DEF ContentWritten
  <2> QED BY <2>5, <2>6 DEF RequestInv
<1> QED BY <1>1, RequestIsKept, PTL

===============================================================================
