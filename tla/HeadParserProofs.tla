---------------------------- MODULE HeadParserProofs ----------------------------
(***************************************************************************)
(* Theorems about the parsers of utils.h, for texts of any length:         *)
(* ci_less is the strict weak order that std::map asks for, a chunk size   *)
(* is read from a proper size line and from little else, a proper status   *)
(* line is taken apart at its spaces, and of a proper head the map holds   *)
(* the first line of each name.                                            *)
(***************************************************************************)
EXTENDS HeadParser, DataLemmas

\* Lower-cased characters are numbers, on which < is a strict order.
LEMMA LowerType ==
  ASSUME NEW c \in Char
  PROVE  Lower(c) \in Nat
BY DEF Char, Lower

\* No string is less than itself, as std::map requires of its comparator.
THEOREM CiLessIrreflexive ==
  ASSUME NEW s \in String
  PROVE  ~CiLess(s, s)
<1> SUFFICES ASSUME NEW k \in 1 .. Len(s), Lower(s[k]) < Lower(s[k])
             PROVE  FALSE
  BY DEF CiLess, String
<1>1. s[k] \in Char
  BY DEF String
<1> QED BY <1>1, LowerType

\* ci_less is transitive, as std::map requires of its comparator.
THEOREM CiLessTransitive ==
  ASSUME NEW r \in String, NEW s \in String, NEW t \in String,
         CiLess(r, s), CiLess(s, t)
  PROVE  CiLess(r, t)
<1> DEFINE L(u, i) == Lower(u[i])
<1>1. PICK j \in 1 .. Len(s) : /\ j <= Len(r) + 1
                               /\ \A i \in 1 .. j - 1 : L(r, i) = L(s, i)
                               /\ j <= Len(r) => L(r, j) < L(s, j)
  BY DEF CiLess
<1>2. PICK k \in 1 .. Len(t) : /\ k <= Len(s) + 1
                               /\ \A i \in 1 .. k - 1 : L(s, i) = L(t, i)
                               /\ k <= Len(s) => L(s, k) < L(t, k)
  BY DEF CiLess
<1>3. /\ Len(r) \in Nat /\ Len(s) \in Nat /\ Len(t) \in Nat
      /\ \A i \in 1 .. Len(r) : L(r, i) \in Nat
      /\ \A i \in 1 .. Len(s) : L(s, i) \in Nat
      /\ \A i \in 1 .. Len(t) : L(t, i) \in Nat
  BY LowerType DEF String
<1> HIDE DEF L
<1>4. CASE j <= k
  <2>1. j \in 1 .. Len(t) /\ j <= Len(r) + 1
    BY <1>1, <1>2, <1>3, <1>4
  <2>2. \A i \in 1 .. j - 1 : L(r, i) = L(t, i)
    BY <1>1, <1>2, <1>3, <1>4
  <2>3. j <= Len(r) => L(r, j) < L(t, j)
    <3>1. CASE j = k
      BY <1>1, <1>2, <1>3, <3>1
    <3>2. CASE j < k
      BY <1>1, <1>2, <1>3, <3>2
    <3> QED BY <1>4, <3>1, <3>2
  <2> QED BY <2>1, <2>2, <2>3 DEF CiLess, L
<1>5. CASE k < j
  <2>1. k <= Len(r) + 1
    BY <1>1, <1>2, <1>3, <1>5
  <2>2. \A i \in 1 .. k - 1 : L(r, i) = L(t, i)
    BY <1>1, <1>2, <1>3, <1>5
  <2>3. k <= Len(r) => L(r, k) < L(t, k)
    BY <1>1, <1>2, <1>3, <1>5
  <2> QED BY <1>2, <2>1, <2>2, <2>3 DEF CiLess, L
<1> QED BY <1>1, <1>2, <1>4, <1>5

\* Two keys that ci_less does not order are equal but for case, and the reverse:
\* so header names match whatever their case, and equivalence is transitive.
THEOREM SameKeyIsSameLetters ==
  ASSUME NEW s \in String, NEW t \in String
  PROVE  SameKey(s, t) <=> SameLetters(s, t)
<1> DEFINE L(u, i) == Lower(u[i])
<1>1. /\ Len(s) \in Nat /\ Len(t) \in Nat
      /\ \A i \in 1 .. Len(s) : L(s, i) \in Nat
      /\ \A i \in 1 .. Len(t) : L(t, i) \in Nat
  BY LowerType DEF String
<1>2. CiLess(s, t) <=> \E k \in 1 .. Len(t) : /\ k <= Len(s) + 1
                                              /\ \A i \in 1 .. k - 1 : L(s, i) = L(t, i)
                                              /\ k <= Len(s) => L(s, k) < L(t, k)
  BY DEF CiLess
<1>3. CiLess(t, s) <=> \E k \in 1 .. Len(s) : /\ k <= Len(t) + 1
                                              /\ \A i \in 1 .. k - 1 : L(t, i) = L(s, i)
                                              /\ k <= Len(t) => L(t, k) < L(s, k)
  BY DEF CiLess
<1>4. SameLetters(s, t) <=> Len(s) = Len(t) /\ \A i \in 1 .. Len(s) : L(s, i) = L(t, i)
  BY DEF SameLetters
<1> HIDE DEF L
<1>5. ASSUME SameLetters(s, t)
      PROVE  ~CiLess(s, t) /\ ~CiLess(t, s)
  BY <1>1, <1>2, <1>3, <1>4, <1>5
<1>6. ASSUME ~SameLetters(s, t)
      PROVE  CiLess(s, t) \/ CiLess(t, s)
  <2> DEFINE D == {i \in 1 .. Len(s) : i \in 1 .. Len(t) /\ L(s, i) # L(t, i)}
  <2>1. CASE D # {}
    <3>1. PICK k \in D : \A i \in D : k <= i
      <4>1. D \in SUBSET Nat
        BY <1>1
      <4> HIDE DEF D
      <4> QED BY <4>1, <2>1, LeastNumber
    <3>2. \A i \in 1 .. k - 1 : L(s, i) = L(t, i)
      BY <3>1, <1>1
    <3>3. L(s, k) < L(t, k) \/ L(t, k) < L(s, k)
      BY <3>1, <1>1
    <3> QED BY <3>1, <3>2, <3>3, <1>1, <1>2, <1>3
  <2>2. CASE D = {} /\ Len(s) < Len(t)
    <3>1. Len(s) + 1 \in 1 .. Len(t)
      BY <2>2, <1>1
    <3>2. \A i \in 1 .. (Len(s) + 1) - 1 : L(s, i) = L(t, i)
      BY <2>2, <1>1
    <3> QED BY <3>1, <3>2, <1>1, <1>2
  <2>3. CASE D = {} /\ Len(t) < Len(s)
    <3>1. Len(t) + 1 \in 1 .. Len(s)
      BY <2>3, <1>1
    <3>2. \A i \in 1 .. (Len(t) + 1) - 1 : L(t, i) = L(s, i)
      BY <2>3, <1>1
    <3> QED BY <3>1, <3>2, <1>1, <1>3
  <2>4. D = {} => Len(s) # Len(t)
    BY <1>6, <1>4, <1>1
  <2> QED BY <2>1, <2>2, <2>3, <2>4, <1>1
<1> QED BY <1>5, <1>6 DEF SameKey

\* Being the same key is transitive, which makes ci_less a strict weak order.
THEOREM SameKeyTransitive ==
  ASSUME NEW r \in String, NEW s \in String, NEW t \in String,
         SameKey(r, s), SameKey(s, t)
  PROVE  SameKey(r, t)
<1>1. SameLetters(r, s) /\ SameLetters(s, t)
  BY SameKeyIsSameLetters
<1>2. SameLetters(r, t)
  BY <1>1 DEF SameLetters
<1> QED BY <1>2, SameKeyIsSameLetters

-------------------------------------------------------------------------------
(* Positions *)

\* The least member of D, or one past the end.
LEMMA LeastOrEnd ==
  ASSUME NEW n \in Nat, NEW i \in 1 .. n + 1, NEW D \in SUBSET (i .. n),
         NEW m, m = Min(D \cup {n + 1})
  PROVE  /\ m \in i .. n + 1
         /\ m <= n => m \in D
         /\ \A k \in i .. n : k < m => k \notin D
<1> DEFINE A == D \cup {n + 1}
<1>1. A \in SUBSET Nat /\ A # {} /\ m = Min(A)
  OBVIOUS
<1>2. \A k \in A : k \in i .. n + 1
  OBVIOUS
<1>3. \A k \in A : k <= n => k \in D
  OBVIOUS
<1>4. m \in A /\ \A k \in A : m <= k
  <2> HIDE DEF A
  <2>1. Min(A) \in A /\ \A k \in A : Min(A) <= k
    BY <1>1, MinIsLeast
  <2> QED BY <1>1, <2>1, Zenon
<1>5. m \in i .. n + 1 /\ (m <= n => m \in D)
  BY <1>2, <1>3, <1>4
<1>6. ASSUME NEW k \in i .. n, k < m
      PROVE  k \notin D
  BY <1>4, <1>5, <1>6
<1> QED BY <1>5, <1>6

\* Where the white space in front of a number ends.
LEMMA FindNoSpace ==
  ASSUME NEW s \in String, NEW i \in 1 .. Len(s) + 1,
         NEW m, m = Find(s, i, LAMBDA c : ~IsSpace(c))
  PROVE  /\ m \in i .. Len(s) + 1
         /\ m <= Len(s) => ~IsSpace(s[m])
         /\ \A k \in i .. Len(s) : k < m => IsSpace(s[k])
<1> DEFINE D == {k \in i .. Len(s) : ~IsSpace(s[k])}
<1>1. Len(s) \in Nat /\ D \in SUBSET (i .. Len(s)) /\ m = Min(D \cup {Len(s) + 1})
  BY DEF Find, String
<1>2. \A k \in i .. Len(s) : k \in D <=> ~IsSpace(s[k])
  OBVIOUS
<1> HIDE DEF D
<1> QED BY <1>1, <1>2, LeastOrEnd

\* Where the hexadecimal digits end.
LEMMA FindNoHex ==
  ASSUME NEW s \in String, NEW i \in 1 .. Len(s) + 1,
         NEW m, m = Find(s, i, LAMBDA c : ~IsHex(c))
  PROVE  /\ m \in i .. Len(s) + 1
         /\ m <= Len(s) => ~IsHex(s[m])
         /\ \A k \in i .. Len(s) : k < m => IsHex(s[k])
<1> DEFINE D == {k \in i .. Len(s) : ~IsHex(s[k])}
<1>1. Len(s) \in Nat /\ D \in SUBSET (i .. Len(s)) /\ m = Min(D \cup {Len(s) + 1})
  BY DEF Find, String
<1>2. \A k \in i .. Len(s) : k \in D <=> ~IsHex(s[k])
  OBVIOUS
<1> HIDE DEF D
<1> QED BY <1>1, <1>2, LeastOrEnd

\* Where the white space begins that ends a word.
LEMMA FindSpace ==
  ASSUME NEW s \in String, NEW i \in 1 .. Len(s) + 1,
         NEW m, m = Find(s, i, IsSpace)
  PROVE  /\ m \in i .. Len(s) + 1
         /\ m <= Len(s) => IsSpace(s[m])
         /\ \A k \in i .. Len(s) : k < m => ~IsSpace(s[k])
<1> DEFINE D == {k \in i .. Len(s) : IsSpace(s[k])}
<1>1. Len(s) \in Nat /\ D \in SUBSET (i .. Len(s)) /\ m = Min(D \cup {Len(s) + 1})
  BY DEF Find, String
<1>2. \A k \in i .. Len(s) : k \in D <=> IsSpace(s[k])
  OBVIOUS
<1> HIDE DEF D
<1> QED BY <1>1, <1>2, LeastOrEnd

\* Where the decimal digits end.
LEMMA FindNoDigit ==
  ASSUME NEW s \in String, NEW i \in 1 .. Len(s) + 1,
         NEW m, m = Find(s, i, LAMBDA c : ~IsDigit(c))
  PROVE  /\ m \in i .. Len(s) + 1
         /\ m <= Len(s) => ~IsDigit(s[m])
         /\ \A k \in i .. Len(s) : k < m => IsDigit(s[k])
<1> DEFINE D == {k \in i .. Len(s) : ~IsDigit(s[k])}
<1>1. Len(s) \in Nat /\ D \in SUBSET (i .. Len(s)) /\ m = Min(D \cup {Len(s) + 1})
  BY DEF Find, String
<1>2. \A k \in i .. Len(s) : k \in D <=> ~IsDigit(s[k])
  OBVIOUS
<1> HIDE DEF D
<1> QED BY <1>1, <1>2, LeastOrEnd

\* Where a line ends.
LEMMA FindLineFeed ==
  ASSUME NEW s \in String, NEW i \in 1 .. Len(s) + 1,
         NEW m, m = Find(s, i, LAMBDA c : c = LF)
  PROVE  /\ m \in i .. Len(s) + 1
         /\ m <= Len(s) => s[m] = LF
         /\ \A k \in i .. Len(s) : k < m => s[k] # LF
<1> DEFINE D == {k \in i .. Len(s) : s[k] = LF}
<1>1. Len(s) \in Nat /\ D \in SUBSET (i .. Len(s)) /\ m = Min(D \cup {Len(s) + 1})
  BY DEF Find, String
<1>2. \A k \in i .. Len(s) : k \in D <=> s[k] = LF
  OBVIOUS
<1> HIDE DEF D
<1> QED BY <1>1, <1>2, LeastOrEnd

\* Where the name of a header ends.
LEMMA FindColon ==
  ASSUME NEW s \in String, NEW i \in 1 .. Len(s) + 1,
         NEW m, m = Find(s, i, LAMBDA c : c = COLON)
  PROVE  /\ m \in i .. Len(s) + 1
         /\ m <= Len(s) => s[m] = COLON
         /\ \A k \in i .. Len(s) : k < m => s[k] # COLON
<1> DEFINE D == {k \in i .. Len(s) : s[k] = COLON}
<1>1. Len(s) \in Nat /\ D \in SUBSET (i .. Len(s)) /\ m = Min(D \cup {Len(s) + 1})
  BY DEF Find, String
<1>2. \A k \in i .. Len(s) : k \in D <=> s[k] = COLON
  OBVIOUS
<1> HIDE DEF D
<1> QED BY <1>1, <1>2, LeastOrEnd

\* Where the padding of a value ends.
LEMMA FindNoBlank ==
  ASSUME NEW s \in String, NEW i \in 1 .. Len(s) + 1,
         NEW m, m = Find(s, i, LAMBDA c : c # SP)
  PROVE  /\ m \in i .. Len(s) + 1
         /\ m <= Len(s) => s[m] # SP
         /\ \A k \in i .. Len(s) : k < m => s[k] = SP
<1> DEFINE D == {k \in i .. Len(s) : s[k] # SP}
<1>1. Len(s) \in Nat /\ D \in SUBSET (i .. Len(s)) /\ m = Min(D \cup {Len(s) + 1})
  BY DEF Find, String
<1>2. \A k \in i .. Len(s) : k \in D <=> s[k] # SP
  OBVIOUS
<1> HIDE DEF D
<1> QED BY <1>1, <1>2, LeastOrEnd

\* The characters left after the first n.
LEMMA AfterType ==
  ASSUME NEW s \in String, NEW n \in Nat
  PROVE  /\ After(s, n) \in String
         /\ Len(After(s, n)) = IF n < Len(s) THEN Len(s) - n ELSE 0
         /\ \A i \in 1 .. Len(After(s, n)) : After(s, n)[i] = s[n + i]
BY TailOf DEF After, String

\* The characters of a string.
LEMMA CharAt ==
  ASSUME NEW s \in String, NEW k \in 1 .. Len(s)
  PROVE  s[k] \in Char
BY ElementOfSeq DEF String

\* The hexadecimal digits, and the x of "0x".
LEMMA HexCodes ==
  ASSUME NEW c \in Char
  PROVE  /\ IsHex(c) <=> c \in 48 .. 57 \cup 65 .. 70 \cup 97 .. 102
         /\ Lower(c) = 120 <=> c \in {88, 120}
<1>1. c \in 0 .. 255
  BY DEF Char
<1>2. CASE c \in 65 .. 90
  <2>1. Lower(c) = c + 32
    BY <1>2 DEF Lower
  <2> QED BY <1>1, <1>2, <2>1 DEF IsHex, IsDigit
<1>3. CASE c \notin 65 .. 90
  <2>1. Lower(c) = c
    BY <1>3 DEF Lower
  <2> QED BY <1>1, <1>3, <2>1 DEF IsHex, IsDigit
<1> QED BY <1>2, <1>3

\* Where a CRLF follows the first n characters.
LEMMA CrlfAfter ==
  ASSUME NEW s \in String, NEW n \in Nat
  PROVE  IsPrefix(CRLF, After(s, n)) <=> n + 2 <= Len(s) /\ s[n + 1] = CR /\ s[n + 2] = LF
<1> DEFINE r == After(s, n)
<1>1. CRLF \in Seq(Char) /\ Len(CRLF) = 2 /\ CRLF[1] = CR /\ CRLF[2] = LF
  BY DEF CRLF, CR, LF, Char
<1>2. /\ r \in Seq(Char) /\ Len(s) \in Nat
      /\ Len(r) = IF n < Len(s) THEN Len(s) - n ELSE 0
      /\ \A i \in 1 .. Len(r) : r[i] = s[n + i]
  BY AfterType DEF String
<1> HIDE DEF r
<1>3. IsPrefix(CRLF, r) <=> Len(CRLF) <= Len(r) /\ \A k \in 1 .. Len(CRLF) : CRLF[k] = r[k]
  <2>1. \A u \in Seq(Char), v \in Seq(Char) :
          IsPrefix(u, v) <=> Len(u) <= Len(v) /\ \A k \in 1 .. Len(u) : u[k] = v[k]
    BY PrefixOf
  <2> QED BY <1>1, <1>2, <2>1, Zenon
<1>4. IsPrefix(CRLF, r) <=> 2 <= Len(r) /\ r[1] = CR /\ r[2] = LF
  <2>1. \A k \in 1 .. 2 : k = 1 \/ k = 2
    OBVIOUS
  <2>2. 1 \in 1 .. 2 /\ 2 \in 1 .. 2
    OBVIOUS
  <2> QED BY <1>1, <1>3, <2>1, <2>2, Zenon
<1>5. 2 <= Len(r) => r[1] = s[n + 1] /\ r[2] = s[n + 2]
  BY <1>2
<1>6. 2 <= Len(r) <=> n + 2 <= Len(s)
  BY <1>2
<1> QED BY <1>4, <1>5, <1>6 DEF r

-------------------------------------------------------------------------------
(* GetChunkSize *)

\* The positions GetChunkSize goes through: white space up to i, a sign up to j,
\* "0x" up to d, digits up to e.
Scan(s, i, j, d, e) ==
  /\ i = Find(s, 1, LAMBDA c : ~IsSpace(c))
  /\ j = Unsigned(s, i)
  /\ d = IF j < Len(s) /\ s[j] = 48 /\ Lower(s[j + 1]) = 120 THEN j + 2 ELSE j
  /\ e = Find(s, d, LAMBDA c : ~IsHex(c))

\* Where operator>> finds white space, a sign and a prefix.
LEMMA ScanType ==
  ASSUME NEW s \in String, NEW i, NEW j, NEW d, NEW e, Scan(s, i, j, d, e)
  PROVE  /\ i \in 1 .. Len(s) + 1 /\ j \in i .. Len(s) + 1
         /\ d \in j .. Len(s) + 1 /\ e \in d .. Len(s) + 1
         /\ \A k \in 1 .. Len(s) : k < i => IsSpace(s[k])
         /\ i < j => j = i + 1 /\ s[i] \in {43, 45}
         /\ j < d => d = j + 2 /\ s[j] = 48 /\ s[j + 1] \in {88, 120}
         /\ \A k \in d .. Len(s) : k < e => IsHex(s[k])
<1>1. Len(s) \in Nat
  BY DEF String
<1>2. /\ i \in 1 .. Len(s) + 1
      /\ \A k \in 1 .. Len(s) : k < i => IsSpace(s[k])
  <2>1. i = Find(s, 1, LAMBDA c : ~IsSpace(c)) /\ 1 \in 1 .. Len(s) + 1
    BY <1>1 DEF Scan
  <2> QED BY <2>1, FindNoSpace
<1>3. /\ j \in i .. Len(s) + 1
      /\ i < j => j = i + 1 /\ s[i] \in {43, 45}
  <2>1. j = Unsigned(s, i)
    BY DEF Scan
  <2>2. CASE i <= Len(s) /\ s[i] \in {43, 45}
    BY <1>1, <1>2, <2>1, <2>2 DEF Unsigned
  <2>3. CASE ~(i <= Len(s) /\ s[i] \in {43, 45})
    <3>1. j = i
      BY <2>1, <2>3 DEF Unsigned
    <3> QED BY <1>1, <1>2, <3>1
  <2> QED BY <2>2, <2>3
<1>4. /\ d \in j .. Len(s) + 1
      /\ j < d => d = j + 2 /\ s[j] = 48 /\ s[j + 1] \in {88, 120}
  <2>1. CASE j < Len(s) /\ s[j] = 48 /\ Lower(s[j + 1]) = 120
    <3>1. d = j + 2
      BY <2>1 DEF Scan
    <3>2. j \in 1 .. Len(s) /\ j + 1 \in 1 .. Len(s)
      BY <1>1, <1>2, <1>3, <2>1
    <3>3. s[j + 1] \in {88, 120}
      BY <2>1, <3>2, CharAt, HexCodes
    <3> QED BY <1>1, <1>2, <1>3, <2>1, <3>1, <3>2, <3>3
  <2>2. CASE ~(j < Len(s) /\ s[j] = 48 /\ Lower(s[j + 1]) = 120)
    <3>1. d = j
      BY <2>2 DEF Scan
    <3> QED BY <1>1, <1>2, <1>3, <3>1
  <2> QED BY <2>1, <2>2
<1>5. e \in d .. Len(s) + 1 /\ \A k \in d .. Len(s) : k < e => IsHex(s[k])
  <2>1. e = Find(s, d, LAMBDA c : ~IsHex(c)) /\ d \in 1 .. Len(s) + 1
    BY <1>1, <1>2, <1>3, <1>4 DEF Scan
  <2> QED BY <2>1, FindNoHex
<1> QED BY <1>2, <1>3, <1>4, <1>5

\* A digit is no sign, no x and no white space.
LEMMA DigitCodes ==
  ASSUME NEW x \in 48 .. 57 \cup 65 .. 70 \cup 97 .. 102
  PROVE  x \notin {43, 45} /\ x \notin {88, 120} /\ ~IsSpace(x)
BY DEF IsSpace, SP

\* Nor is a sign white space.
LEMMA SignCodes ==
  ASSUME NEW x \in {43, 45}
  PROVE  ~IsSpace(x)
BY DEF IsSpace, SP

\* A size line is scanned at the places at which it is divided.
LEMMA SizeLineScan ==
  ASSUME NEW s \in String, NEW i, NEW j, NEW d, NEW e, Scan(s, i, j, d, e),
         NEW a \in 1 .. Len(s), NEW b \in 1 .. Len(s), NEW c \in 1 .. Len(s), NEW f \in 1 .. Len(s),
         SizeLine(s, a, b, c, f)
  PROVE  i = a /\ j = b /\ d = c /\ e = f
<1>1. /\ Len(s) \in Nat /\ a \in Nat /\ b \in Nat /\ c \in Nat /\ f \in Nat
      /\ 1 <= a /\ a <= b /\ b <= c /\ c < f /\ f + 1 <= Len(s)
  <2>1. Len(s) \in Nat
    BY DEF String
  <2>2. a <= b /\ b <= c /\ c < f /\ f < Len(s)
    BY DEF SizeLine
  <2> QED BY <2>1, <2>2
<1>2. /\ \A k \in 1 .. a - 1 : IsSpace(s[k])
      /\ a < b => b = a + 1 /\ s[a] \in {43, 45}
      /\ b < c => c = b + 2 /\ s[b] = 48 /\ s[b + 1] \in {88, 120}
      /\ \A k \in c .. f - 1 : IsHex(s[k])
      /\ s[f] = CR /\ s[f + 1] = LF
  BY DEF SizeLine
<1>3. s[c] \in 48 .. 57 \cup 65 .. 70 \cup 97 .. 102
  <2>1. IsHex(s[c]) /\ s[c] \in Char
    BY <1>1, <1>2, CharAt
  <2> QED BY <2>1, HexCodes
<1>4. s[b] \in 48 .. 57 \cup 65 .. 70 \cup 97 .. 102
  <2>1. CASE b < c
    BY <1>2, <2>1
  <2>2. CASE b = c
    BY <1>3, <2>2
  <2> QED BY <1>1, <2>1, <2>2
<1>5. ~IsSpace(s[a])
  <2>1. CASE a < b
    BY <1>2, <2>1, SignCodes
  <2>2. CASE a = b
    BY <1>4, <2>2, DigitCodes
  <2> QED BY <1>1, <2>1, <2>2
<1>6. i = a
  <2>1. /\ i \in 1 .. Len(s) + 1
        /\ i <= Len(s) => ~IsSpace(s[i])
        /\ \A k \in 1 .. Len(s) : k < i => IsSpace(s[k])
    <3>1. i = Find(s, 1, LAMBDA x : ~IsSpace(x)) /\ 1 \in 1 .. Len(s) + 1
      BY <1>1 DEF Scan
    <3> QED BY <3>1, FindNoSpace
  <2>2. ~(a < i)
    BY <1>1, <1>5, <2>1
  <2>3. ~(i < a)
    BY <1>1, <1>2, <2>1
  <2> QED BY <1>1, <2>1, <2>2, <2>3
<1>7. j = b
  <2>1. j = IF a <= Len(s) /\ s[a] \in {43, 45} THEN a + 1 ELSE a
    BY <1>6 DEF Scan, Unsigned
  <2>2. CASE a < b
    BY <1>1, <1>2, <2>1, <2>2
  <2>3. CASE a = b
    <3>1. s[a] \in 48 .. 57 \cup 65 .. 70 \cup 97 .. 102
      BY <1>4, <2>3
    <3>2. s[a] \notin {43, 45}
      BY <3>1, DigitCodes
    <3> QED BY <2>1, <2>3, <3>2
  <2> QED BY <1>1, <2>2, <2>3
<1>8. d = c
  <2>1. d = IF b < Len(s) /\ s[b] = 48 /\ Lower(s[b + 1]) = 120 THEN b + 2 ELSE b
    BY <1>7 DEF Scan
  <2>2. b + 1 \in 1 .. Len(s) /\ s[b + 1] \in Char
    <3>1. b + 1 \in 1 .. Len(s)
      BY <1>1
    <3> QED BY <3>1, CharAt
  <2>3. CASE b < c
    <3>1. Lower(s[b + 1]) = 120
      BY <1>2, <2>2, <2>3, HexCodes
    <3> QED BY <1>1, <1>2, <2>1, <2>3, <3>1
  <2>4. CASE b = c
    <3>1. s[b + 1] \notin {88, 120}
      <4>1. CASE b + 1 < f
        <5>1. IsHex(s[b + 1])
          BY <1>1, <1>2, <2>4, <4>1
        <5>2. s[b + 1] \in 48 .. 57 \cup 65 .. 70 \cup 97 .. 102
          BY <2>2, <5>1, HexCodes
        <5> QED BY <5>2, DigitCodes
      <4>2. CASE b + 1 = f
        BY <1>2, <4>2 DEF CR
      <4> QED BY <1>1, <2>4, <4>1, <4>2
    <3>2. Lower(s[b + 1]) # 120
      BY <2>2, <3>1, HexCodes
    <3> QED BY <2>1, <2>4, <3>2
  <2> QED BY <1>1, <2>3, <2>4
<1>9. e = f
  <2>1. /\ e \in c .. Len(s) + 1
        /\ e <= Len(s) => ~IsHex(s[e])
        /\ \A k \in c .. Len(s) : k < e => IsHex(s[k])
    <3>1. e = Find(s, c, LAMBDA x : ~IsHex(x)) /\ c \in 1 .. Len(s) + 1
      BY <1>1, <1>8 DEF Scan
    <3> QED BY <3>1, FindNoHex
  <2>2. ~IsHex(s[f])
    BY <1>2 DEF IsHex, IsDigit, Lower, CR
  <2>3. ~(f < e)
    BY <1>1, <2>1, <2>2
  <2>4. ~(e < f)
    BY <1>1, <1>2, <2>1
  <2> QED BY <1>1, <2>1, <2>3, <2>4
<1> QED BY <1>6, <1>7, <1>8, <1>9

\* GetChunkSize in terms of the places of a scan.
LEMMA ScanGives ==
  ASSUME NEW s \in String, NEW i, NEW j, NEW d, NEW e, Scan(s, i, j, d, e),
         NEW c, c = GetChunkSize(s), NEW n, n = Value(SubSeq(s, d, e - 1))
  PROVE  /\ c.good <=> d < e /\ e <= Len(s) /\ n <= MaxSize /\ EndsSize(s, e)
         /\ c.size = IF i < j /\ s[i] = 45 THEN (MaxSize + 1 - n) % (MaxSize + 1) ELSE n
         /\ c.rest = After(s, e + 1)
<1> DEFINE good == d < e /\ e <= Len(s) /\ n <= MaxSize /\ EndsSize(s, e)
           size == IF i < j /\ s[i] = 45 THEN (MaxSize + 1 - n) % (MaxSize + 1) ELSE n
           rest == After(s, e + 1)
<1>1. c = [good |-> good, size |-> size, rest |-> rest]
  BY Zenon DEF Scan, GetChunkSize
<1>2. (good <=> d < e /\ e <= Len(s) /\ n <= MaxSize /\ EndsSize(s, e)) /\ rest = After(s, e + 1)
      /\ size = IF i < j /\ s[i] = 45 THEN (MaxSize + 1 - n) % (MaxSize + 1) ELSE n
  OBVIOUS
<1> HIDE DEF good, size, rest
<1>3. c.good = good /\ c.size = size /\ c.rest = rest
  BY <1>1
<1> QED BY <1>2, <1>3, Zenon

\* What ChunkSizeRead says of the text s and of what was read from it.
Sized(s, i, j, d, e, size, rest) ==
  /\ SizeLine(s, i, j, d, e) /\ Number(s, d, e) <= MaxSize
  /\ size = IF i < j /\ s[i] = 45
            THEN (MaxSize + 1 - Number(s, d, e)) % (MaxSize + 1) ELSE Number(s, d, e)
  /\ rest = After(s, e + 1)

SizeRead(s, good, size, rest) ==
  IF good THEN \E i, j, d, e \in 1 .. Len(s) : Sized(s, i, j, d, e, size, rest)
  ELSE ~\E i, j, d, e \in 1 .. Len(s) : SizeLine(s, i, j, d, e) /\ Number(s, d, e) <= MaxSize

\* What GetChunkSize reads is what SizeRead says of the text.
LEMMA SizeLineRead ==
  ASSUME NEW s \in String, NEW c, c = GetChunkSize(s)
  PROVE  SizeRead(s, c.good, c.size, c.rest)
<1> DEFINE i == Find(s, 1, LAMBDA x : ~IsSpace(x))
           j == Unsigned(s, i)
           d == IF j < Len(s) /\ s[j] = 48 /\ Lower(s[j + 1]) = 120 THEN j + 2 ELSE j
           e == Find(s, d, LAMBDA x : ~IsHex(x))
           n == Number(s, d, e)
<1>1. Scan(s, i, j, d, e)
  BY DEF Scan
<1>2. n = Value(SubSeq(s, d, e - 1)) /\ n = Number(s, d, e)
  BY DEF Number
<1> HIDE DEF i, j, d, e, n
<1>3. /\ i \in 1 .. Len(s) + 1 /\ j \in i .. Len(s) + 1
      /\ d \in j .. Len(s) + 1 /\ e \in d .. Len(s) + 1
      /\ \A k \in 1 .. Len(s) : k < i => IsSpace(s[k])
      /\ i < j => j = i + 1 /\ s[i] \in {43, 45}
      /\ j < d => d = j + 2 /\ s[j] = 48 /\ s[j + 1] \in {88, 120}
      /\ \A k \in d .. Len(s) : k < e => IsHex(s[k])
  BY <1>1, ScanType
<1>4. /\ c.good <=> d < e /\ e <= Len(s) /\ n <= MaxSize /\ EndsSize(s, e)
      /\ c.size = IF i < j /\ s[i] = 45 THEN (MaxSize + 1 - n) % (MaxSize + 1) ELSE n
      /\ c.rest = After(s, e + 1)
  BY <1>1, <1>2, ScanGives
<1>5. Len(s) \in Nat
  BY DEF String
<1>6. EndsSize(s, e) <=> e + 1 <= Len(s) /\ s[e] = CR /\ s[e + 1] = LF
  <2>1. e - 1 \in Nat /\ (e - 1) + 2 = e + 1 /\ (e - 1) + 1 = e
    BY <1>3, <1>5
  <2>2. IsPrefix(CRLF, After(s, e - 1)) <=>
          (e - 1) + 2 <= Len(s) /\ s[(e - 1) + 1] = CR /\ s[(e - 1) + 2] = LF
    BY <2>1, CrlfAfter
  <2> QED BY <2>1, <2>2 DEF EndsSize
<1>7. CASE c.good
  <2>1. d < e /\ e < Len(s) /\ s[e] = CR /\ s[e + 1] = LF /\ n <= MaxSize
    BY <1>3, <1>4, <1>5, <1>6, <1>7
  <2>2. /\ i \in 1 .. Len(s) /\ j \in 1 .. Len(s) /\ d \in 1 .. Len(s) /\ e \in 1 .. Len(s)
        /\ i <= j /\ j <= d
    BY <1>3, <1>5, <2>1
  <2>3. \A k \in 1 .. i - 1 : IsSpace(s[k])
    BY <1>3, <1>5
  <2>4. \A k \in d .. e - 1 : IsHex(s[k])
    BY <1>3, <1>5, <2>1
  <2>5. SizeLine(s, i, j, d, e)
    BY <1>3, <2>1, <2>2, <2>3, <2>4 DEF SizeLine
  <2>6. Sized(s, i, j, d, e, c.size, c.rest)
    BY <1>2, <1>4, <2>1, <2>5, Zenon DEF Sized
  <2> QED BY <1>7, <2>2, <2>6 DEF SizeRead
<1>8. CASE ~c.good
  <2>1. ASSUME NEW a \in 1 .. Len(s), NEW b \in 1 .. Len(s), NEW x \in 1 .. Len(s), NEW f \in 1 .. Len(s),
               SizeLine(s, a, b, x, f)
        PROVE  ~(Number(s, x, f) <= MaxSize)
    <3>1. i = a /\ j = b /\ d = x /\ e = f
      BY <1>1, <2>1, SizeLineScan
    <3>2. d < e /\ e < Len(s) /\ s[e] = CR /\ s[e + 1] = LF
      BY <2>1, <3>1 DEF SizeLine
    <3>3. ~(n <= MaxSize)
      BY <1>3, <1>4, <1>5, <1>6, <1>8, <3>2
    <3> QED BY <1>2, <3>1, <3>3
  <2> QED BY <1>8, <2>1 DEF SizeRead
<1> QED BY <1>7, <1>8

-------------------------------------------------------------------------------
(* The handlers *)

\* A chunk size that has arrived is still to be read, or it has been read.
SizeInv ==
  \/ input \in Heads
  \/ /\ input \in [size : ChunkTexts]
     /\ \/ phase = "chunkSize" /\ text = input.size
        \/ phase \in {"done", "error"} /\ SizeRead(input.size, phase = "done", chunk_size, text)

\* The invariant of the chunk sizes holds at first ...
LEMMA SizeInit == Init => SizeInv
<1> SUFFICES ASSUME Init
             PROVE  SizeInv
  OBVIOUS
<1>1. CASE input \in Heads
  BY <1>1 DEF SizeInv
<1>2. CASE phase = "chunkSize" /\ \E x \in ChunkTexts : input = [size |-> x] /\ text = x
  BY <1>2 DEF SizeInv
<1> QED BY <1>1, <1>2 DEF Init

\* ... and after every step.
LEMMA SizeStep == SizeInv /\ [Next]_vars => SizeInv'
<1> SUFFICES ASSUME SizeInv, [Next]_vars
             PROVE  SizeInv'
  OBVIOUS
<1>1. CASE input \in Heads
  BY <1>1 DEF SizeInv, Next, ReadStatusLine, ReadHeader, ReadChunkSize, vars
<1>2. CASE input \in [size : ChunkTexts] /\ phase = "chunkSize" /\ text = input.size
  <2>1. CASE ReadChunkSize
    <3>1. PICK c : c = GetChunkSize(text)
      OBVIOUS
    <3>2. /\ input' = input /\ chunk_size' = c.size /\ text' = c.rest
          /\ phase' = IF c.good THEN "done" ELSE "error"
      BY <2>1, <3>1 DEF ReadChunkSize
    <3>3. input.size \in String
      BY <1>2, TextsAssumption
    <3>4. SizeRead(input.size, c.good, c.size, c.rest)
      BY <1>2, <3>1, <3>3, SizeLineRead
    <3>5. phase' \in {"done", "error"} /\ (phase' = "done" <=> c.good)
      BY <3>2
    <3>6. SizeRead(input.size, phase' = "done", chunk_size', text')
      BY <3>2, <3>4, <3>5 DEF SizeRead
    <3> QED BY <1>2, <3>2, <3>5, <3>6 DEF SizeInv
  <2>2. CASE UNCHANGED vars
    BY <1>2, <2>2 DEF vars, SizeInv
  <2> QED BY <1>2, <2>1, <2>2 DEF Next, ReadStatusLine, ReadHeader
<1>3. CASE /\ input \in [size : ChunkTexts]
           /\ phase \in {"done", "error"} /\ SizeRead(input.size, phase = "done", chunk_size, text)
  <2>1. UNCHANGED vars
    BY <1>3 DEF Next, ReadStatusLine, ReadHeader, ReadChunkSize
  <2> QED BY <1>3, <2>1 DEF vars, SizeInv
<1> QED BY <1>1, <1>2, <1>3 DEF SizeInv

\* A chunk size is read from a size line that fits a size_t, and from nothing else;
\* it is the number in the line, and the chunk's data is left (ChunkSizeRead),
\* whatever text has arrived and however long it is.
THEOREM SizesAreRead == Spec => []ChunkSizeRead
<1>1. Init => SizeInv
  BY SizeInit
<1>2. SizeInv => ChunkSizeRead
  <2> SUFFICES ASSUME SizeInv, phase \in {"done", "error"}, "size" \in DOMAIN input
               PROVE  ChunkSizeRead
    BY DEF ChunkSizeRead
  <2>1. input \notin Heads
    BY TextsAssumption
  <2>2. SizeRead(input.size, phase = "done", chunk_size, text)
    BY <2>1 DEF SizeInv
  <2>3. CASE phase = "done"
    <3>1. \E i, j, d, e \in 1 .. Len(input.size) : Sized(input.size, i, j, d, e, chunk_size, text)
      BY <2>2, <2>3 DEF SizeRead
    <3> QED BY <2>3, <3>1, Zenon DEF Sized, ChunkSizeRead
  <2>4. CASE phase = "error"
    <3>1. ~\E i, j, d, e \in 1 .. Len(input.size) :
            SizeLine(input.size, i, j, d, e) /\ Number(input.size, d, e) <= MaxSize
      BY <2>2, <2>4 DEF SizeRead
    <3> QED BY <2>4, <3>1, Zenon DEF ChunkSizeRead
  <2> QED BY <2>3, <2>4
<1> QED BY <1>1, <1>2, SizeStep, PTL DEF Spec
-------------------------------------------------------------------------------
(* GetStatusLine *)

\* A line l, its CRLF, and what follows it.
LineThen(l, r) == (l \o CRLF) \o r

\* A line, its end, and what follows.
LEMMA LineText ==
  ASSUME NEW l \in String, NEW r \in String
  PROVE  LET t == LineThen(l, r) IN
           /\ t \in String /\ Len(t) = Len(l) + 2 + Len(r)
           /\ \A k \in 1 .. Len(l) : t[k] = l[k]
           /\ t[Len(l) + 1] = CR /\ t[Len(l) + 2] = LF
           /\ After(t, Len(l) + 2) = r
<1>1. CRLF \in String /\ Len(CRLF) = 2 /\ CRLF[1] = CR /\ CRLF[2] = LF
  BY DEF CRLF, CR, LF, Char, String
<1>2. PICK u : u = l \o CRLF
  OBVIOUS
<1>3. /\ u \in String /\ Len(u) = Len(l) + 2
      /\ \A k \in 1 .. Len(l) : u[k] = l[k]
      /\ u[Len(l) + 1] = CR /\ u[Len(l) + 2] = LF
  <2>1. PICK v \in String : v = CRLF
    BY <1>1
  <2>2. /\ l \o v \in String /\ Len(l \o v) = Len(l) + Len(v)
        /\ \A k \in 1 .. Len(l) : (l \o v)[k] = l[k]
        /\ \A k \in 1 .. Len(v) : (l \o v)[Len(l) + k] = v[k]
    BY Join DEF String
  <2>3. 1 \in 1 .. 2 /\ 2 \in 1 .. 2
    OBVIOUS
  <2> QED BY <1>1, <1>2, <2>1, <2>2, <2>3, Zenon
<1>4. PICK t : t = u \o r
  OBVIOUS
<1>5. /\ t \in String /\ Len(t) = Len(u) + Len(r)
      /\ \A k \in 1 .. Len(u) : t[k] = u[k]
      /\ SubSeq(t, Len(u) + 1, Len(t)) = r
  <2>1. /\ u \o r \in String /\ Len(u \o r) = Len(u) + Len(r)
        /\ \A k \in 1 .. Len(u) : (u \o r)[k] = u[k]
    BY <1>3, Join, ZenonT(60) DEF String
  <2>2. SubSeq(u \o r, Len(u) + 1, Len(u \o r)) = r
    BY <1>3, PartOfJoin DEF String
  <2> QED BY <1>4, <2>1, <2>2, Zenon
<1>6. Len(l) \in Nat /\ Len(r) \in Nat
  BY DEF String
<1>7. \A k \in 1 .. Len(l) : k \in 1 .. Len(u)
  BY <1>3, <1>6
<1>8. Len(l) + 1 \in 1 .. Len(u) /\ Len(l) + 2 \in 1 .. Len(u)
  BY <1>3, <1>6
<1>9. After(t, Len(l) + 2) = r
  BY <1>3, <1>5, Zenon DEF After
<1>10. \A k \in 1 .. Len(l) : t[k] = l[k]
  BY <1>3, <1>5, <1>7
<1>11. t[Len(l) + 1] = CR /\ t[Len(l) + 2] = LF
  BY <1>3, <1>5, <1>8
<1>12. Len(t) = Len(l) + 2 + Len(r)
  BY <1>3, <1>5, <1>6
<1>13. t = LineThen(l, r)
  BY <1>2, <1>4 DEF LineThen
<1> QED BY <1>5, <1>9, <1>10, <1>11, <1>12, <1>13, Zenon

\* The line ends at that CRLF if there is no line feed in it.
LEMMA LineStops ==
  ASSUME NEW l \in String, NEW r \in String, \A k \in 1 .. Len(l) : l[k] # LF,
         NEW i \in 1 .. Len(l) + 2
  PROVE  LineEnd(LineThen(l, r), i) = Len(l) + 2
<1>1. PICK t : t = LineThen(l, r)
  OBVIOUS
<1>2. /\ t \in String /\ Len(t) = Len(l) + 2 + Len(r)
      /\ \A k \in 1 .. Len(l) : t[k] = l[k]
      /\ t[Len(l) + 1] = CR /\ t[Len(l) + 2] = LF
  BY <1>1, LineText
<1>3. Len(l) \in Nat /\ Len(r) \in Nat
  BY DEF String
<1>4. i \in 1 .. Len(t) + 1
  BY <1>2, <1>3
<1>5. PICK m : m = Find(t, i, LAMBDA c : c = LF)
  OBVIOUS
<1>6. /\ m \in i .. Len(t) + 1
      /\ m <= Len(t) => t[m] = LF
      /\ \A k \in i .. Len(t) : k < m => t[k] # LF
  BY <1>2, <1>4, <1>5, FindLineFeed, ZenonT(60)
<1>7. ~(Len(l) + 2 < m)
  BY <1>2, <1>3, <1>6
<1>8. ASSUME m < Len(l) + 2
      PROVE  FALSE
  <2>1. m \in 1 .. Len(l) \/ m = Len(l) + 1
    BY <1>3, <1>6, <1>8
  <2>2. m <= Len(t)
    BY <1>2, <1>3, <1>6, <1>8
  <2> QED BY <1>2, <1>6, <2>1, <2>2 DEF CR, LF
<1>9. m = Len(l) + 2
  BY <1>3, <1>4, <1>6, <1>7, <1>8
<1> QED BY <1>1, <1>5, <1>9 DEF LineEnd

\* Only the carriage return at the end of a text is dropped from it, if there is
\* no other.
LEMMA NoCrDrops ==
  ASSUME NEW u \in String, NEW n \in Nat, Len(u) = n + 1, u[n + 1] = CR,
         \A k \in 1 .. n : u[k] # CR
  PROVE  NoCr(u) = SubSeq(u, 1, n)
<1> DEFINE N == n + 1
           Kept(f) == f = [i \in 0 .. N |->
                         IF i = 0 THEN <<>> ELSE IF u[i] = CR THEN f[i - 1] ELSE Append(f[i - 1], u[i])]
           step == [i \in 1 .. N |-> [s \in String |-> IF u[i] = CR THEN s ELSE Append(s, u[i])]]
<1>1. \E f : Kept(f)
  <2>1. step \in [1 .. N -> [String -> String]]
    <3>1. ASSUME NEW i \in 1 .. N, NEW s \in String
          PROVE  Append(s, u[i]) \in String
      <4>1. u[i] \in Char
        BY CharAt
      <4> QED BY <4>1, AppendProperties DEF String
    <3> QED BY <3>1
  <2>2. <<>> \in String /\ N \in Nat
    BY DEF String
  <2>3. PICK f \in [0 .. N -> String] : f[0] = <<>> /\ \A i \in 1 .. N : f[i] = step[i][f[i - 1]]
    <3>1. \E f : Recurs(f, String, N, <<>>, step)
      <4> HIDE DEF step, N
      <4> QED BY <2>1, <2>2, Recursion
    <3> QED BY <3>1 DEF Recurs
  <2>4. ASSUME NEW i \in 1 .. N
        PROVE  f[i] = IF u[i] = CR THEN f[i - 1] ELSE Append(f[i - 1], u[i])
    <3>1. i - 1 \in 0 .. N
      OBVIOUS
    <3>2. f[i - 1] \in String
      BY <3>1
    <3>3. step[i][f[i - 1]] = IF u[i] = CR THEN f[i - 1] ELSE Append(f[i - 1], u[i])
      BY <3>2
    <3> QED BY <2>3, <3>3
  <2>5. \A i \in 0 .. N : i = 0 \/ i \in 1 .. N
    OBVIOUS
  <2>6. f = [i \in 0 .. N |-> f[i]]
    OBVIOUS
  <2>7. \A i \in 0 .. N :
          f[i] = IF i = 0 THEN <<>> ELSE IF u[i] = CR THEN f[i - 1] ELSE Append(f[i - 1], u[i])
    BY <2>3, <2>4, <2>5
  <2>8. Kept(f)
    BY <2>6, <2>7, Zenon
  <2> QED BY <2>8
<1>2. PICK f : f = CHOOSE g : Kept(g)
  OBVIOUS
<1>3. Kept(f)
  BY <1>1, <1>2
<1>4. NoCr(u) = f[N]
  BY <1>2 DEF NoCr
<1>5. /\ f[0] = <<>>
      /\ \A i \in 1 .. n : f[i] = Append(f[i - 1], u[i])
      /\ f[N] = f[n]
  <2>1. /\ 0 \in 0 .. N /\ N \in 0 .. N /\ N # 0 /\ N - 1 = n
        /\ \A i \in 1 .. n : i \in 0 .. N /\ i # 0
    OBVIOUS
  <2> QED BY <1>3, <2>1
<1>6. \A i \in 0 .. n : f[i] = SubSeq(u, 1, i)
  <2> DEFINE Good == {i \in 0 .. n : f[i] = SubSeq(u, 1, i)}
  <2>1. 0 \in Good
    <3>1. SubSeq(u, 1, 0) = <<>> /\ 0 \in 0 .. n
      BY SubSeqEmpty
    <3>2. f[0] = SubSeq(u, 1, 0)
      BY <1>5, <3>1
    <3> QED BY <3>1, <3>2
  <2>2. ASSUME NEW i \in 0 .. n, i \in Good, i < n
        PROVE  i + 1 \in Good
    <3>1. i + 1 \in 1 .. n /\ i + 1 \in 1 .. Len(u) /\ 1 \in 1 .. i + 1 /\ (i + 1) - 1 = i
      BY <2>2
    <3>2. SubSeq(u, 1, i + 1) = Append(SubSeq(u, 1, i), u[i + 1])
      BY <3>1, PartGrows DEF String
    <3>3. f[i + 1] = Append(f[i], u[i + 1])
      BY <1>5, <3>1
    <3> QED BY <2>2, <3>1, <3>2, <3>3
  <2>3. \A i \in 0 .. n : i \in Good
    <3> HIDE DEF Good
    <3> QED BY <2>1, <2>2, Induction
  <2> QED BY <2>3
<1>7. n \in 0 .. n
  OBVIOUS
<1> QED BY <1>4, <1>5, <1>6, <1>7
\* No search goes beyond the end.
LEMMA DigitsEnd ==
  ASSUME NEW s \in String, NEW i \in Nat, NEW m, m = Find(s, i, LAMBDA c : ~IsDigit(c))
  PROVE  m \in Nat /\ m <= Len(s) + 1
<1> DEFINE A == {k \in i .. Len(s) : ~IsDigit(s[k])} \cup {Len(s) + 1}
<1>1. Len(s) \in Nat /\ m = Min(A)
  BY DEF Find, String
<1>2. A \in SUBSET Nat /\ A # {} /\ Len(s) + 1 \in A
  BY <1>1
<1> HIDE DEF A
<1>3. Min(A) \in A /\ \A k \in A : Min(A) <= k
  BY <1>2, MinIsLeast
<1> QED BY <1>1, <1>2, <1>3

\* A proper status line: a version before the space at w, digits up to e.
ProperParts(l, w, e) ==
  /\ w \in 2 .. Len(l) /\ e \in w + 2 .. Len(l) + 1
  /\ l[w] = SP
  /\ \A k \in 1 .. w - 1 : ~IsSpace(l[k])
  /\ \A k \in w + 1 .. e - 1 : IsDigit(l[k])
  /\ e <= Len(l) => ~IsDigit(l[e])
  /\ \A k \in 1 .. Len(l) : l[k] # CR /\ l[k] # LF

\* The parts of a proper status line.
LEMMA ProperStatusParts ==
  ASSUME NEW l \in String, ProperStatus(l)
  PROVE  \E w, e : ProperParts(l, w, e)
<1>1. PICK w : w = Find(l, 1, IsSpace)
  OBVIOUS
<1>2. PICK e : e = Find(l, w + 1, LAMBDA c : ~IsDigit(c))
  OBVIOUS
<1>3. ToSet(l) \cap {CR, LF} = {} /\ 1 < w /\ w + 1 < e /\ l[w] = SP
  BY <1>1, <1>2 DEF ProperStatus
<1>4. Len(l) \in Nat /\ 1 \in 1 .. Len(l) + 1
  BY DEF String
<1>5. /\ w \in 1 .. Len(l) + 1
      /\ \A k \in 1 .. Len(l) : k < w => ~IsSpace(l[k])
  BY <1>1, <1>4, FindSpace
<1>6. e \in Nat /\ e <= Len(l) + 1
  <2>1. w + 1 \in Nat
    BY <1>4, <1>5
  <2> QED BY <1>2, <2>1, DigitsEnd
<1>7. w \in 2 .. Len(l) /\ e \in w + 2 .. Len(l) + 1 /\ w + 1 \in 1 .. Len(l) + 1
  BY <1>3, <1>4, <1>5, <1>6
<1>8. /\ e <= Len(l) => ~IsDigit(l[e])
      /\ \A k \in w + 1 .. Len(l) : k < e => IsDigit(l[k])
  BY <1>2, <1>7, FindNoDigit
<1>9. \A k \in 1 .. w - 1 : ~IsSpace(l[k])
  <2>1. \A k \in 1 .. w - 1 : k \in 1 .. Len(l) /\ k < w
    BY <1>4, <1>7
  <2> QED BY <1>5, <2>1
<1>10. \A k \in w + 1 .. e - 1 : IsDigit(l[k])
  <2>1. \A k \in w + 1 .. e - 1 : k \in w + 1 .. Len(l) /\ k < e
    BY <1>4, <1>7
  <2> QED BY <1>8, <2>1
<1>11. \A k \in 1 .. Len(l) : l[k] # CR /\ l[k] # LF
  <2>1. \A k \in 1 .. Len(l) : l[k] \in ToSet(l)
    BY DEF ToSet, String
  <2> QED BY <1>3, <2>1
<1> QED BY <1>3, <1>7, <1>8, <1>9, <1>10, <1>11 DEF ProperParts

\* operator>> finds these parts, and the end of the line, whatever follows it.
Scanned(t, w, e, n) ==
  /\ Find(t, 1, LAMBDA c : ~IsSpace(c)) = 1
  /\ Find(t, 1, IsSpace) = w
  /\ Find(t, w, LAMBDA c : ~IsSpace(c)) = w + 1
  /\ Unsigned(t, w + 1) = w + 1
  /\ Find(t, w + 1, LAMBDA c : ~IsDigit(c)) = e
  /\ LineEnd(t, e) = n

\* The status line is scanned to its parts.
LEMMA StatusScan ==
  ASSUME NEW l \in String, NEW r \in String, NEW t, t = LineThen(l, r),
         NEW w, NEW e, ProperParts(l, w, e)
  PROVE  Scanned(t, w, e, Len(l) + 2)
<1>1. /\ t \in String /\ Len(t) = Len(l) + 2 + Len(r)
      /\ \A k \in 1 .. Len(l) : t[k] = l[k]
      /\ t[Len(l) + 1] = CR
  BY LineText
<1>2. Len(l) \in Nat /\ Len(r) \in Nat
  BY DEF String
<1>3. /\ w \in 2 .. Len(l) /\ e \in w + 2 .. Len(l) + 1
      /\ l[w] = SP
      /\ \A k \in 1 .. w - 1 : ~IsSpace(l[k])
      /\ \A k \in w + 1 .. e - 1 : IsDigit(l[k])
      /\ e <= Len(l) => ~IsDigit(l[e])
      /\ \A k \in 1 .. Len(l) : l[k] # LF
  BY DEF ProperParts
<1>4. /\ 1 \in 1 .. Len(l) /\ w \in 1 .. Len(l) /\ w + 1 \in 1 .. Len(l)
      /\ 1 \in 1 .. w - 1 /\ w + 1 \in w + 1 .. e - 1
      /\ 1 \in 1 .. Len(t) + 1 /\ w \in 1 .. Len(t) + 1 /\ w + 1 \in 1 .. Len(t) + 1
      /\ e \in 1 .. Len(l) + 2 /\ e \in w + 1 .. Len(t) /\ w \in 1 .. Len(t)
      /\ 1 \in 1 .. Len(t) /\ w + 1 \in w .. Len(t) /\ w \in w .. Len(t)
  BY <1>1, <1>2, <1>3
<1>5. /\ ~IsSpace(t[1])
      /\ IsSpace(t[w])
      /\ IsDigit(t[w + 1]) /\ ~IsSpace(t[w + 1]) /\ t[w + 1] \notin {43, 45}
  <2>1. IsDigit(t[w + 1])
    BY <1>1, <1>3, <1>4
  <2>2. ~IsSpace(t[w + 1]) /\ t[w + 1] \notin {43, 45}
    BY <2>1 DEF IsDigit, IsSpace, SP
  <2>3. IsSpace(SP)
    BY DEF IsSpace
  <2> QED BY <1>1, <1>3, <1>4, <2>1, <2>2, <2>3
<1>6. Find(t, 1, LAMBDA c : ~IsSpace(c)) = 1
  <2>1. PICK m : m = Find(t, 1, LAMBDA c : ~IsSpace(c))
    OBVIOUS
  <2>2. m \in 1 .. Len(t) + 1 /\ \A k \in 1 .. Len(t) : k < m => IsSpace(t[k])
    BY <1>1, <1>4, <2>1, FindNoSpace, ZenonT(60)
  <2>3. ~(1 < m)
    BY <1>4, <1>5, <2>2
  <2> QED BY <1>1, <1>2, <2>1, <2>2, <2>3
<1>7. Find(t, 1, IsSpace) = w
  <2>1. PICK m : m = Find(t, 1, IsSpace)
    OBVIOUS
  <2>2. /\ m \in 1 .. Len(t) + 1
        /\ m <= Len(t) => IsSpace(t[m])
        /\ \A k \in 1 .. Len(t) : k < m => ~IsSpace(t[k])
    BY <1>1, <1>4, <2>1, FindSpace, ZenonT(60)
  <2>3. ~(w < m)
    BY <1>4, <1>5, <2>2
  <2>4. ASSUME m < w
        PROVE  FALSE
    <3>1. m \in 1 .. w - 1 /\ m \in 1 .. Len(l) /\ m <= Len(t)
      BY <1>1, <1>2, <1>3, <2>2, <2>4
    <3> QED BY <1>1, <1>3, <2>2, <3>1
  <2> QED BY <1>1, <1>2, <1>3, <2>1, <2>2, <2>3, <2>4
<1>8. Find(t, w, LAMBDA c : ~IsSpace(c)) = w + 1
  <2>1. PICK m : m = Find(t, w, LAMBDA c : ~IsSpace(c))
    OBVIOUS
  <2>2. /\ m \in w .. Len(t) + 1
        /\ m <= Len(t) => ~IsSpace(t[m])
        /\ \A k \in w .. Len(t) : k < m => IsSpace(t[k])
    BY <1>1, <1>4, <2>1, FindNoSpace
  <2>3. ~(w + 1 < m)
    BY <1>4, <1>5, <2>2
  <2>4. m # w
    <3>1. w <= Len(t)
      BY <1>1, <1>2, <1>3
    <3> QED BY <1>5, <2>2, <3>1
  <2> QED BY <1>1, <1>2, <1>3, <2>1, <2>2, <2>3, <2>4
<1>9. Unsigned(t, w + 1) = w + 1
  BY <1>5 DEF Unsigned
<1>10. Find(t, w + 1, LAMBDA c : ~IsDigit(c)) = e
  <2>1. PICK m : m = Find(t, w + 1, LAMBDA c : ~IsDigit(c))
    OBVIOUS
  <2>2. /\ m \in w + 1 .. Len(t) + 1
        /\ m <= Len(t) => ~IsDigit(t[m])
        /\ \A k \in w + 1 .. Len(t) : k < m => IsDigit(t[k])
    <3>1. PICK i : i = w + 1
      OBVIOUS
    <3>2. t \in String /\ i \in 1 .. Len(t) + 1 /\ m = Find(t, i, LAMBDA c : ~IsDigit(c))
      BY <1>1, <1>4, <2>1, <3>1
    <3>3. /\ m \in i .. Len(t) + 1
          /\ m <= Len(t) => ~IsDigit(t[m])
          /\ \A k \in i .. Len(t) : k < m => IsDigit(t[k])
      BY <3>2, FindNoDigit
    <3> QED BY <3>1, <3>3
  <2>3. ~IsDigit(t[e])
    <3>1. CASE e = Len(l) + 1
      BY <1>1, <3>1 DEF IsDigit, CR
    <3>2. CASE e # Len(l) + 1
      <4>1. e \in 1 .. Len(l) /\ e <= Len(l)
        BY <1>2, <1>3, <3>2
      <4> QED BY <1>1, <1>3, <4>1
    <3> QED BY <3>1, <3>2
  <2>4. ~(e < m)
    BY <1>4, <2>2, <2>3
  <2>5. ASSUME m < e
        PROVE  FALSE
    <3>1. m \in w + 1 .. e - 1 /\ m \in 1 .. Len(l) /\ m <= Len(t)
      BY <1>1, <1>2, <1>3, <2>2, <2>5
    <3> QED BY <1>1, <1>3, <2>2, <3>1
  <2> QED BY <1>1, <1>2, <1>3, <2>1, <2>2, <2>4, <2>5
<1>11. LineEnd(t, e) = Len(l) + 2
  BY <1>3, <1>4, LineStops
<1> QED BY <1>6, <1>7, <1>8, <1>9, <1>10, <1>11 DEF Scanned
\* A proper status line is not refused, its parts make it up again, and all that
\* follows it is left.
LEMMA StatusLine ==
  ASSUME NEW l \in String, NEW r \in String, ProperStatus(l),
         NEW g, g = GetStatusLine(LineThen(l, r))
  PROVE  /\ g.good
         /\ g.version \o <<SP>> \o g.code \o g.message = l
         /\ g.rest = r
<1>1. PICK t : t = LineThen(l, r)
  OBVIOUS
<1>2. PICK w, e : ProperParts(l, w, e)
  BY ProperStatusParts
<1>3. Scanned(t, w, e, Len(l) + 2)
  BY <1>1, <1>2, StatusScan
<1> DEFINE good == w + 1 < e /\ Len(l) + 2 <= Len(t)
           version == SubSeq(t, 1, w - 1)
           code == SubSeq(t, w + 1, e - 1)
           message == NoCr(SubSeq(t, e, (Len(l) + 2) - 1))
           rest == After(t, Len(l) + 2)
<1>4. /\ g.good = good /\ g.version = version /\ g.code = code
      /\ g.message = message /\ g.rest = rest
  <2>1. g = [good |-> good, version |-> version, code |-> code, message |-> message, rest |-> rest]
    BY <1>1, <1>3 DEF GetStatusLine, Scanned
  <2> HIDE DEF good, version, code, message, rest
  <2> QED BY <2>1
<1>5. /\ t \in String /\ Len(t) = Len(l) + 2 + Len(r)
      /\ \A k \in 1 .. Len(l) : t[k] = l[k]
      /\ t[Len(l) + 1] = CR
      /\ After(t, Len(l) + 2) = r
  BY <1>1, LineText
<1>6. Len(l) \in Nat /\ Len(r) \in Nat /\ l \in Seq(Char) /\ t \in Seq(Char)
  BY <1>5 DEF String
<1>7. /\ w \in 2 .. Len(l) /\ e \in w + 2 .. Len(l) + 1
      /\ l[w] = SP
      /\ \A k \in 1 .. Len(l) : l[k] # CR
  BY <1>2 DEF ProperParts
<1>8. ASSUME NEW m \in 1 .. Len(l) + 1, NEW n \in m - 1 .. Len(l)
      PROVE  SubSeq(t, m, n) = SubSeq(l, m, n) /\ SubSeq(l, m, n) \in Seq(Char)
  <2>1. \A i \in m .. n : i \in 1 .. Len(l) /\ i \in 1 .. Len(t)
    BY <1>5, <1>6
  <2>2. \A i \in m .. n : l[i] \in Char /\ t[i] \in Char
    BY <1>5, <2>1, CharAt
  <2>3. m \in Int /\ n \in Int
    BY <1>6
  <2>4. PICK a : a = SubSeq(t, m, n)
    OBVIOUS
  <2>5. PICK b : b = SubSeq(l, m, n)
    OBVIOUS
  <2>6. a \in Seq(Char) /\ Len(a) = (IF m <= n THEN n - m + 1 ELSE 0)
        /\ \A i \in 1 .. n - m + 1 : a[i] = t[m + i - 1]
    BY <2>2, <2>3, <2>4, SubSeqProperties
  <2>7. b \in Seq(Char) /\ Len(b) = (IF m <= n THEN n - m + 1 ELSE 0)
        /\ \A i \in 1 .. n - m + 1 : b[i] = l[m + i - 1]
    BY <2>2, <2>3, <2>5, SubSeqProperties
  <2>8. ASSUME NEW i \in 1 .. Len(a)
        PROVE  a[i] = b[i]
    <3>1. i \in 1 .. n - m + 1 /\ m + i - 1 \in 1 .. Len(l)
      BY <1>6, <2>3, <2>6
    <3> QED BY <1>5, <2>6, <2>7, <3>1
  <2>9. a = b
    BY <2>6, <2>7, <2>8, SeqEqual
  <2> QED BY <2>4, <2>5, <2>7, <2>9
<1>9. g.good /\ g.rest = r
  <2>1. w + 1 < e /\ Len(l) + 2 <= Len(t)
    BY <1>5, <1>6, <1>7
  <2>2. good = TRUE
    BY <2>1
  <2> HIDE DEF good
  <2> QED BY <1>4, <1>5, <2>2
<1>10. g.version = SubSeq(l, 1, w - 1)
  <2>1. 1 \in 1 .. Len(l) + 1 /\ w - 1 \in 1 - 1 .. Len(l)
    BY <1>6, <1>7
  <2> QED BY <1>4, <1>8, <2>1
<1>11. g.code = SubSeq(l, w + 1, e - 1)
  <2>1. PICK m, n : m = w + 1 /\ n = e - 1
    OBVIOUS
  <2>2. m \in 1 .. Len(l) + 1 /\ n \in m - 1 .. Len(l)
    BY <1>6, <1>7, <2>1
  <2>3. SubSeq(t, m, n) = SubSeq(l, m, n)
    BY <1>8, <2>2
  <2>4. g.code = SubSeq(t, w + 1, e - 1)
    BY <1>4
  <2> QED BY <2>1, <2>3, <2>4
<1>12. g.message = SubSeq(l, e, Len(l))
  <2> DEFINE u == SubSeq(t, e, (Len(l) + 2) - 1)
             n == Len(l) + 1 - e
  <2>1. n \in Nat /\ e \in Int /\ (Len(l) + 2) - 1 \in Int /\ e <= (Len(l) + 2) - 1
        /\ ((Len(l) + 2) - 1) - e + 1 = n + 1
    BY <1>6, <1>7
  <2>2. \A i \in e .. (Len(l) + 2) - 1 : t[i] \in Char
    <3>1. \A i \in e .. (Len(l) + 2) - 1 : i \in 1 .. Len(t)
      BY <1>5, <1>6, <1>7
    <3> QED BY <1>5, <3>1, CharAt
  <2>3. /\ u \in Seq(Char)
        /\ Len(u) = IF e <= (Len(l) + 2) - 1 THEN ((Len(l) + 2) - 1) - e + 1 ELSE 0
        /\ \A i \in 1 .. ((Len(l) + 2) - 1) - e + 1 : u[i] = t[e + i - 1]
    BY <2>1, <2>2, SubSeqProperties
  <2> HIDE DEF u
  <2>4. Len(u) = n + 1 /\ \A i \in 1 .. n + 1 : u[i] = t[e + i - 1]
    BY <2>1, <2>3
  <2>5. u[n + 1] = CR
    <3>1. n + 1 \in 1 .. n + 1 /\ e + (n + 1) - 1 = Len(l) + 1
      BY <1>6, <1>7, <2>1
    <3>2. u[n + 1] = t[e + (n + 1) - 1]
      BY <2>4, <3>1
    <3> QED BY <1>5, <3>1, <3>2
  <2>6. ASSUME NEW k \in 1 .. n
        PROVE  u[k] # CR /\ u[k] = l[e + k - 1]
    <3>1. k \in 1 .. n + 1 /\ e + k - 1 \in 1 .. Len(l)
      BY <1>6, <1>7, <2>1
    <3>2. u[k] = t[e + k - 1]
      BY <2>4, <3>1
    <3> QED BY <1>5, <1>7, <3>1, <3>2
  <2>7. u \in String
    BY <2>3 DEF String
  <2> HIDE DEF n
  <2>8. NoCr(u) = SubSeq(u, 1, n)
    BY <2>1, <2>4, <2>5, <2>6, <2>7, NoCrDrops
  <2>9. SubSeq(u, 1, n) = SubSeq(l, e, Len(l))
    <3>1. PICK a : a = SubSeq(u, 1, n)
      OBVIOUS
    <3>2. PICK b : b = SubSeq(l, e, Len(l))
      OBVIOUS
    <3>3. a \in Seq(Char) /\ Len(a) = n /\ \A k \in 1 .. n : a[k] = u[k]
      <4>1. n <= Len(u)
        BY <2>1, <2>4
      <4> QED BY <2>1, <2>3, <3>1, <4>1, FirstOf
    <3>4. /\ b \in Seq(Char)
          /\ Len(b) = IF e <= Len(l) THEN Len(l) - e + 1 ELSE 0
          /\ \A k \in 1 .. Len(l) - e + 1 : b[k] = l[e + k - 1]
      <4>1. \A i \in e .. Len(l) : i \in 1 .. Len(l)
        BY <1>6, <1>7
      <4>2. \A i \in e .. Len(l) : l[i] \in Char
        BY <4>1, CharAt
      <4>3. Len(l) \in Int /\ e \in Int
        BY <1>6, <2>1
      <4> QED BY <3>2, <4>2, <4>3, SubSeqProperties
    <3>5. n = Len(l) - e + 1 /\ Len(b) = n
      <4>1. n = Len(l) - e + 1
        BY <1>6, <1>7 DEF n
      <4>2. n = 0 <=> ~(e <= Len(l))
        BY <1>6, <1>7 DEF n
      <4> QED BY <3>4, <4>1, <4>2
    <3>6. \A k \in 1 .. Len(a) : a[k] = b[k]
      BY <2>6, <3>3, <3>4, <3>5
    <3>7. a = b
      BY <3>3, <3>4, <3>5, <3>6, SeqEqual
    <3> QED BY <3>1, <3>2, <3>7
  <2>10. g.message = NoCr(u)
    BY <1>4 DEF u
  <2> QED BY <2>8, <2>9, <2>10
<1>13. SubSeq(l, 1, w - 1) \o <<SP>> = SubSeq(l, 1, w)
  <2>1. w \in 1 .. Len(l) /\ 1 \in 1 .. w
    BY <1>6, <1>7
  <2>2. SubSeq(l, 1, w) = Append(SubSeq(l, 1, w - 1), l[w]) /\ SubSeq(l, 1, w - 1) \in Seq(Char)
        /\ l[w] \in Char
    BY <1>6, <2>1, PartGrows
  <2>3. Append(SubSeq(l, 1, w - 1), l[w]) = SubSeq(l, 1, w - 1) \o <<l[w]>>
    BY <2>2, AppendIsConcat
  <2> QED BY <1>7, <2>2, <2>3
<1>14. SubSeq(l, 1, w) \o SubSeq(l, w + 1, e - 1) = SubSeq(l, 1, e - 1)
  <2>1. 1 \in 1 .. Len(l) + 1 /\ w \in 1 - 1 .. Len(l) /\ e - 1 \in w .. Len(l)
    BY <1>6, <1>7
  <2> QED BY <1>6, <2>1, ConcatAdjacentSubSeq
<1>15. SubSeq(l, 1, e - 1) \o SubSeq(l, e, Len(l)) = l
  <2>1. PICK k : k = e - 1
    OBVIOUS
  <2>2. 1 \in 1 .. Len(l) + 1 /\ k \in 1 - 1 .. Len(l) /\ Len(l) \in k .. Len(l) /\ k + 1 = e
    BY <1>6, <1>7, <2>1
  <2>3. SubSeq(l, 1, k) \o SubSeq(l, k + 1, Len(l)) = SubSeq(l, 1, Len(l))
    BY <1>6, <2>2, ConcatAdjacentSubSeq
  <2>4. SubSeq(l, 1, Len(l)) = l
    BY <1>6, SubSeqFull
  <2> QED BY <2>1, <2>2, <2>3, <2>4
<1> QED BY <1>9, <1>10, <1>11, <1>12, <1>13, <1>14, <1>15
-------------------------------------------------------------------------------
(* The text of a head *)

\* The end of a line is a string.
LEMMA CrlfType == CRLF \in String
BY DEF CRLF, CR, LF, Char, String

\* The header lines ls, the empty line and the body b.
Rest(ls, b) == Lines(ls) \o CRLF \o b

Ended(ls) == [k \in DOMAIN ls |-> ls[k] \o CRLF]

\* Lines with their ends.
LEMMA EndedType ==
  ASSUME NEW ls \in Seq(String)
  PROVE  /\ Ended(ls) \in Seq(String) /\ Len(Ended(ls)) = Len(ls)
         /\ \A k \in 1 .. Len(ls) : Ended(ls)[k] = ls[k] \o CRLF
         /\ Lines(ls) = FlattenSeq(Ended(ls)) /\ Lines(ls) \in String
<1>1. Len(ls) \in Nat /\ DOMAIN ls = 1 .. Len(ls)
  BY LenProperties
<1>2. ASSUME NEW k \in 1 .. Len(ls)
      PROVE  ls[k] \o CRLF \in String
  <2>1. ls[k] \in String
    BY ElementOfSeq
  <2> QED BY <2>1, CrlfType, ConcatProperties DEF String
<1>3. Ended(ls) \in [1 .. Len(ls) -> String]
  BY <1>1, <1>2 DEF Ended
<1>4. Ended(ls) \in Seq(String) /\ Len(Ended(ls)) = Len(ls)
  BY <1>1, <1>3, FunctionIsSeq
<1>5. \A k \in 1 .. Len(ls) : Ended(ls)[k] = ls[k] \o CRLF
  BY <1>1 DEF Ended
<1>6. Lines(ls) = FlattenSeq(Ended(ls))
  BY DEF Lines, Ended
<1>7. FlattenSeq(Ended(ls)) \in String
  BY <1>4, FlattenType DEF String
<1> QED BY <1>4, <1>5, <1>6, <1>7

\* The text after the status line.
LEMMA RestTypes ==
  ASSUME NEW ls \in Seq(String), NEW b \in String
  PROVE  Rest(ls, b) \in String /\ Rest(ls, b) = Lines(ls) \o (CRLF \o b)
<1>1. PICK u \in Seq(Char) : u = Lines(ls)
  BY EndedType DEF String
<1>2. PICK v \in Seq(Char) : v = CRLF
  BY CrlfType DEF String
<1>3. b \in Seq(Char)
  BY DEF String
<1>4. (u \o v) \o b = u \o (v \o b) /\ u \o (v \o b) \in Seq(Char)
  <2>1. (u \o v) \o b = u \o (v \o b)
    BY <1>3, SMTT(30)
  <2>2. PICK w \in Seq(Char) : w = v \o b
    BY <1>3, ConcatProperties
  <2>3. u \o w \in Seq(Char)
    BY ConcatProperties
  <2> QED BY <2>1, <2>2, <2>3
<1> QED BY <1>1, <1>2, <1>4 DEF Rest, String

\* A head as it arrives: its status line, and what follows it.
LEMMA HeadText ==
  ASSUME NEW l \in String, NEW ls \in Seq(String), NEW b \in String
  PROVE  l \o CRLF \o Lines(ls) \o CRLF \o b = LineThen(l, Rest(ls, b))
<1>1. PICK u \in Seq(Char) : u = Lines(ls)
  BY EndedType DEF String
<1>2. PICK v \in Seq(Char) : v = CRLF
  BY CrlfType DEF String
<1>3. PICK w \in Seq(Char) : w = b
  BY DEF String
<1>4. PICK x \in Seq(Char) : x = l \o v
  BY ConcatProperties DEF String
<1>5. PICK y \in Seq(Char) : y = u \o v
  BY ConcatProperties
<1>6. ((x \o u) \o v) \o w = x \o (y \o w)
  <2>1. (x \o u) \o v = x \o (u \o v)
    BY SMTT(30)
  <2>2. (x \o y) \o w = x \o (y \o w)
    BY SMTT(30)
  <2> QED BY <1>5, <2>1, <2>2
<1> QED BY <1>1, <1>2, <1>3, <1>4, <1>5, <1>6 DEF LineThen, Rest

\* The first header line, and what follows it.
LEMMA RestUnrolls ==
  ASSUME NEW ls \in Seq(String), NEW b \in String, Len(ls) # 0
  PROVE  Rest(ls, b) = LineThen(ls[1], Rest(SubSeq(ls, 2, Len(ls)), b))
<1>1. /\ Ended(ls) \in Seq(String) /\ Len(Ended(ls)) = Len(ls)
      /\ \A k \in 1 .. Len(ls) : Ended(ls)[k] = ls[k] \o CRLF
      /\ Lines(ls) = FlattenSeq(Ended(ls))
  BY EndedType
<1>2. Len(ls) \in Nat /\ 1 \in 1 .. Len(ls) /\ ls[1] \in String
  <2>1. Len(ls) \in Nat /\ 1 \in 1 .. Len(ls)
    OBVIOUS
  <2> QED BY <2>1, ElementOfSeq
<1>3. PICK r : r = SubSeq(ls, 2, Len(ls))
  OBVIOUS
<1>4. /\ r \in Seq(String) /\ Len(r) = Len(ls) - 1
      /\ \A k \in 1 .. Len(r) : r[k] = ls[k + 1]
  <2>1. ls # <<>>
    BY <1>2
  <2>2. /\ r \in Seq(String) /\ Len(r) = Len(ls) - 1
        /\ \A k \in 1 .. Len(ls) - 1 : r[k] = ls[k + 1]
    BY <1>3, <2>1, DropFirst
  <2> QED BY <2>2
<1>5. Ended(r) = SubSeq(Ended(ls), 2, Len(Ended(ls)))
  <2>1. PICK e \in Seq(String) : e = Ended(ls)
    BY <1>1
  <2>2. PICK f : f = SubSeq(e, 2, Len(e))
    OBVIOUS
  <2>3. Len(e) = Len(ls) /\ \A k \in 1 .. Len(ls) : e[k] = ls[k] \o CRLF
    BY <1>1, <2>1
  <2>4. /\ f \in Seq(String) /\ Len(f) = Len(ls) - 1
        /\ \A k \in 1 .. Len(ls) - 1 : f[k] = e[k + 1]
    <3>1. 2 \in Int /\ Len(e) \in Int /\ \A k \in 2 .. Len(e) : k \in 1 .. Len(e)
      BY <1>2, <2>3
    <3>2. \A k \in 2 .. Len(e) : e[k] \in String
      BY <3>1, ElementOfSeq
    <3>3. /\ f \in Seq(String)
          /\ Len(f) = IF 2 <= Len(e) THEN Len(e) - 2 + 1 ELSE 0
          /\ \A k \in 1 .. Len(e) - 2 + 1 : f[k] = e[2 + k - 1]
      BY <2>2, <3>1, <3>2, SubSeqProperties
    <3>4. Len(f) = Len(ls) - 1
      BY <1>2, <2>3, <3>3
    <3>5. \A k \in 1 .. Len(ls) - 1 : k \in 1 .. Len(e) - 2 + 1 /\ 2 + k - 1 = k + 1
      BY <1>2, <2>3
    <3> QED BY <3>3, <3>4, <3>5
  <2>5. /\ Ended(r) \in Seq(String) /\ Len(Ended(r)) = Len(r)
        /\ \A k \in 1 .. Len(r) : Ended(r)[k] = r[k] \o CRLF
    BY <1>4, EndedType
  <2>6. ASSUME NEW k \in 1 .. Len(Ended(r))
        PROVE  Ended(r)[k] = f[k]
    <3>1. k \in 1 .. Len(r) /\ k \in 1 .. Len(ls) - 1 /\ k + 1 \in 1 .. Len(ls)
      BY <1>2, <1>4, <2>5
    <3> QED BY <1>4, <2>3, <2>4, <2>5, <3>1
  <2>7. Ended(r) = f
    <3>1. PICK g \in Seq(String) : g = Ended(r)
      BY <2>5
    <3>2. Len(g) = Len(f) /\ \A k \in 1 .. Len(g) : g[k] = f[k]
      BY <1>4, <2>4, <2>5, <2>6, <3>1
    <3>3. g = f
      BY <2>4, <3>2, SeqEqual
    <3> QED BY <3>1, <3>3
  <2> QED BY <2>1, <2>2, <2>7
<1>6. Lines(ls) = (ls[1] \o CRLF) \o Lines(r)
  <2>1. PICK e \in Seq(Seq(Char)) : e = Ended(ls)
    BY <1>1 DEF String
  <2>2. FlattenSeq(e) = e[1] \o FlattenSeq(SubSeq(e, 2, Len(e)))
    BY <1>1, <1>2, <2>1, FlattenFirst
  <2>3. Lines(r) = FlattenSeq(Ended(r))
    BY DEF Lines, Ended
  <2> QED BY <1>1, <1>2, <1>5, <2>1, <2>2, <2>3
<1>7. Rest(ls, b) = LineThen(ls[1], Rest(r, b))
  <2>1. PICK u \in Seq(Char) : u = ls[1] \o CRLF
    BY <1>2, CrlfType, ConcatProperties DEF String
  <2>2. PICK v \in Seq(Char) : v = Lines(r)
    BY <1>4, EndedType DEF String
  <2>3. PICK c \in Seq(Char) : c = CRLF \o b
    BY CrlfType, ConcatProperties DEF String
  <2>4. (u \o v) \o c = u \o (v \o c)
    BY SMTT(30)
  <2>5. Rest(ls, b) = Lines(ls) \o (CRLF \o b) /\ Rest(r, b) = Lines(r) \o (CRLF \o b)
    BY <1>4, RestTypes
  <2> QED BY <1>6, <2>1, <2>2, <2>3, <2>4, <2>5 DEF LineThen
<1> QED BY <1>3, <1>7
-------------------------------------------------------------------------------
(* ReadStatusLineCallback *)

\* A head that has arrived is still to be read, or its status line has been, and
\* if that is proper it has been read rightly.
StatusInv ==
  input \in Heads =>
    /\ phase \in {"statusLine", "headers", "starved", "done", "error"}
    /\ phase = "statusLine" => text = LineThen(input.status, Rest(input.lines, input.body))
    /\ StatusLineRead

\* The parts of a head.
LEMMA HeadType ==
  ASSUME NEW h \in Heads
  PROVE  h.status \in String /\ h.lines \in Seq(String) /\ h.body \in String
BY TextsAssumption

\* The invariant of the status lines holds at first ...
LEMMA StatusInit == Init => StatusInv
<1> SUFFICES ASSUME Init, input \in Heads
             PROVE  StatusInv
  BY DEF StatusInv
<1>1. phase = "statusLine"
       /\ text = input.status \o CRLF \o Lines(input.lines) \o CRLF \o input.body
  <2>1. \A x : input # [size |-> x]
    BY TextsAssumption
  <2> QED BY <2>1 DEF Init
<1>2. text = LineThen(input.status, Rest(input.lines, input.body))
  BY <1>1, HeadType, HeadText
<1> QED BY <1>1, <1>2 DEF StatusInv, StatusLineRead

\* ... and after every step.
LEMMA StatusStep == SizeInv /\ StatusInv /\ [Next]_vars => StatusInv'
<1> SUFFICES ASSUME SizeInv, StatusInv, [Next]_vars, input' \in Heads
             PROVE  StatusInv'
  BY DEF StatusInv
<1>1. input' = input /\ input \in Heads
  BY DEF Next, ReadStatusLine, ReadHeader, ReadChunkSize, vars
<1>2. CASE ReadStatusLine
  <2>1. PICK g : g = GetStatusLine(text)
    OBVIOUS
  <2>2. /\ phase = "statusLine"
        /\ status' = g /\ text' = g.rest
        /\ phase' = IF ~g.good THEN "error" ELSE IF HasHead(g.rest) THEN "headers" ELSE "starved"
    BY <1>2, <2>1 DEF ReadStatusLine
  <2>3. text = LineThen(input.status, Rest(input.lines, input.body))
    BY <1>1, <2>2 DEF StatusInv
  <2>4. /\ input.status \in String /\ input.lines \in Seq(String) /\ input.body \in String
        /\ Rest(input.lines, input.body) \in String
    BY <1>1, HeadType, RestTypes
  <2>5. ASSUME ProperStatus(input.status)
        PROVE  /\ g.good
               /\ g.version \o <<SP>> \o g.code \o g.message = input.status
               /\ g.rest = Rest(input.lines, input.body)
    <3>1. PICK l \in String, r \in String : l = input.status /\ r = Rest(input.lines, input.body)
      BY <2>4
    <3>2. ProperStatus(l) /\ g = GetStatusLine(LineThen(l, r))
      BY <2>1, <2>3, <2>5, <3>1
    <3>3. /\ g.good
          /\ g.version \o <<SP>> \o g.code \o g.message = l
          /\ g.rest = r
      BY <3>2, StatusLine
    <3> QED BY <3>1, <3>3
  <2>6. StatusLineRead'
    BY <1>1, <2>2, <2>5 DEF StatusLineRead, Rest
  <2> QED BY <1>1, <2>2, <2>6 DEF StatusInv
<1>3. CASE ReadHeader
  <2>1. phase = "headers" /\ phase' \in {"headers", "done", "error"} /\ status' = status
    BY <1>3 DEF ReadHeader
  <2> QED BY <1>1, <2>1 DEF StatusInv, StatusLineRead
<1>4. CASE ReadChunkSize
  BY <1>1, <1>4 DEF ReadChunkSize, StatusInv
<1>5. CASE UNCHANGED vars
  BY <1>1, <1>5 DEF vars, StatusInv, StatusLineRead
<1> QED BY <1>2, <1>3, <1>4, <1>5 DEF Next

\* The two invariants so far.
LEMMA StatusCorrect == Spec => [](SizeInv /\ StatusInv)
<1>1. Init => SizeInv
  BY SizeInit
<1>2. Init => StatusInv
  BY StatusInit
<1>3. SizeInv /\ StatusInv /\ [Next]_vars => SizeInv' /\ StatusInv'
  BY SizeStep, StatusStep
<1> QED BY <1>1, <1>2, <1>3, PTL DEF Spec

\* A proper status line of any length is never refused, it is taken apart at its
\* spaces, and nothing is taken of what follows it (StatusLineRead).
THEOREM StatusLinesAreRead == Spec => []StatusLineRead
<1>1. SizeInv /\ StatusInv => StatusLineRead
  <2>1. CASE input \in Heads
    BY <2>1 DEF StatusInv
  <2>2. CASE input \in [size : ChunkTexts]
    BY <2>2 DEF StatusLineRead
  <2> QED BY <2>1, <2>2 DEF SizeInv
<1> QED BY <1>1, StatusCorrect, PTL

-------------------------------------------------------------------------------
(* GetHeader *)

\* The fields that GetHeader keeps while it reads a line.
Fields == [name : String, value : String, naming : BOOLEAN, padding : BOOLEAN]

Field(n, v, naming, padding) ==
  [name |-> n, value |-> v, naming |-> naming, padding |-> padding]

\* In the name n, in the padding after it, and in the value v.
Named(n)     == Field(n, <<>>, TRUE, TRUE)
Padded(n)    == Field(n, <<>>, FALSE, TRUE)
Valued(n, v) == Field(n, v, FALSE, FALSE)

\* What a character does to them.
LEMMA CharacterCases ==
  ASSUME NEW n, NEW c, c # CR
  PROVE  /\ c \notin {SP, COLON} => HeaderChar(Named(n), c) = Named(Append(n, c))
         /\ c = COLON => HeaderChar(Named(n), c) = Padded(n)
         /\ c = SP => HeaderChar(Padded(n), c) = Padded(n)
         /\ c # SP => HeaderChar(Padded(n), c) = Valued(n, Append(<<>>, c))
<1>1. SP # CR /\ COLON # CR /\ COLON # SP
  BY DEF SP, COLON, CR
<1>2. PICK h : h = Named(n)
  OBVIOUS
<1>3. PICK g : g = Padded(n)
  OBVIOUS
<1>4. /\ h.naming /\ h.padding /\ ~g.naming /\ g.padding
      /\ h.name = n /\ g.value = <<>>
  BY <1>2, <1>3 DEF Named, Padded, Field
<1>5. PICK no : no = FALSE
  OBVIOUS
<1>6. PICK yes : yes = TRUE
  OBVIOUS
<1>7. PICK x : x = Append(n, c)
  OBVIOUS
<1>8. PICK y : y = Append(<<>>, c)
  OBVIOUS
<1>9. /\ h = Field(n, <<>>, yes, yes) /\ g = Field(n, <<>>, no, yes)
       /\ Named(x) = Field(x, <<>>, yes, yes) /\ Valued(n, y) = Field(n, y, no, no)
  BY <1>2, <1>3, <1>5, <1>6 DEF Named, Padded, Valued
<1>10. [h EXCEPT !.name = x] = Named(x) /\ [h EXCEPT !.naming = no] = g
  BY <1>9 DEF Field
<1>11. [g EXCEPT !.value = y, !.padding = no] = Valued(n, y)
  <2>1. PICK d : d = [g EXCEPT !.value = y]
    OBVIOUS
  <2>2. d = Field(n, y, no, yes)
    BY <1>9, <2>1 DEF Field
  <2>3. [d EXCEPT !.padding = no] = Field(n, y, no, no)
    BY <2>2 DEF Field
  <2>4. [g EXCEPT !.value = y, !.padding = no] = [[g EXCEPT !.value = y] EXCEPT !.padding = no]
    OBVIOUS
  <2> QED BY <1>9, <2>1, <2>3, <2>4
<1>12. c \notin {SP, COLON} => HeaderChar(h, c) = Named(x)
  <2>1. c \notin {SP, COLON} => HeaderChar(h, c) = [h EXCEPT !.name = Append(n, c)]
    BY <1>4, Zenon DEF HeaderChar
  <2> QED BY <1>7, <1>10, <2>1
<1>13. c = COLON => HeaderChar(h, c) = g
  <2>1. c = COLON => HeaderChar(h, c) = [h EXCEPT !.naming = FALSE]
    BY <1>1, <1>4, Zenon DEF HeaderChar
  <2> QED BY <1>5, <1>10, <2>1
<1>14. c = SP => HeaderChar(g, c) = g
  BY <1>4, Zenon DEF HeaderChar
<1>15. c # SP => HeaderChar(g, c) = Valued(n, y)
  <2>1. c # SP => HeaderChar(g, c) = [g EXCEPT !.value = Append(<<>>, c), !.padding = FALSE]
    BY <1>4, Zenon DEF HeaderChar
  <2> QED BY <1>5, <1>8, <1>11, <2>1
<1> QED BY <1>2, <1>3, <1>7, <1>8, <1>12, <1>13, <1>14, <1>15, Zenon

\* A character of a value.
LEMMA CharacterOfValue ==
  ASSUME NEW n, NEW v, NEW c, c # CR
  PROVE  HeaderChar(Valued(n, v), c) = Valued(n, Append(v, c))
<1>1. PICK f : f = Valued(n, v)
  OBVIOUS
<1>2. ~f.naming /\ ~f.padding /\ f.value = v
  BY <1>1 DEF Valued, Field
<1>3. PICK no : no = FALSE
  OBVIOUS
<1>4. PICK z : z = Append(v, c)
  OBVIOUS
<1>5. f = Field(n, v, no, no) /\ Valued(n, z) = Field(n, z, no, no)
  BY <1>1, <1>3 DEF Valued
<1>6. PICK d : d = [f EXCEPT !.value = z]
  OBVIOUS
<1>7. d = Field(n, z, no, no)
  BY <1>5, <1>6 DEF Field
<1>8. [d EXCEPT !.padding = no] = Field(n, z, no, no)
  BY <1>7 DEF Field
<1>9. [f EXCEPT !.value = z, !.padding = no] = [[f EXCEPT !.value = z] EXCEPT !.padding = no]
  OBVIOUS
<1>10. HeaderChar(f, c) = [f EXCEPT !.value = Append(v, c), !.padding = FALSE]
  BY <1>2, Zenon DEF HeaderChar
<1>11. HeaderChar(f, c) = Valued(n, z)
  BY <1>3, <1>4, <1>5, <1>6, <1>8, <1>9, <1>10
<1> QED BY <1>1, <1>4, <1>11

\* A header that has its name and a value so far.
LEMMA ValuedFields ==
  ASSUME NEW n, NEW v
  PROVE  Valued(n, v).name = n /\ Valued(n, v).value = v
<1>1. PICK f : f = Valued(n, v)
  OBVIOUS
<1>2. f.name = n /\ f.value = v
  BY <1>1 DEF Valued, Field
<1> QED BY <1>1, <1>2

\* The carriage return is skipped.
LEMMA CharacterOfLineEnd ==
  ASSUME NEW h
  PROVE  HeaderChar(h, CR) = h
BY DEF HeaderChar

\* A character leaves a header.
LEMMA CharacterType ==
  ASSUME NEW h \in Fields, NEW c \in Char
  PROVE  HeaderChar(h, c) \in Fields
<1>1. Append(h.name, c) \in String /\ Append(h.value, c) \in String
  BY AppendProperties DEF Fields, String
<1> QED BY <1>1 DEF HeaderChar, Fields

\* A line l whose name ends before position e, and whose value begins at position b.
HeaderSplit(l, e, b) ==
  /\ e \in 1 .. Len(l) + 1
  /\ b \in e + 1 .. Len(l) + 2
  /\ e <= Len(l) => l[e] = COLON /\ b <= Len(l) + 1
  /\ \A k \in 1 .. e - 1 : k <= Len(l) => l[k] # COLON
  /\ \A k \in e + 1 .. b - 1 : k <= Len(l) => l[k] = SP
  /\ b <= Len(l) => l[b] # SP
  /\ Name(l) = SubSeq(l, 1, e - 1)
  /\ Text(l) = After(l, b - 1)

\* A header line has a name and a value.
LEMMA HeaderParts ==
  ASSUME NEW l \in String
  PROVE  /\ \E e, b : HeaderSplit(l, e, b)
         /\ Name(l) \in String /\ Text(l) \in String
<1>1. Len(l) \in Nat /\ 1 \in 1 .. Len(l) + 1
  BY DEF String
<1>2. PICK e : e = Find(l, 1, LAMBDA c : c = COLON)
  OBVIOUS
<1>3. /\ e \in 1 .. Len(l) + 1
      /\ e <= Len(l) => l[e] = COLON
      /\ \A k \in 1 .. Len(l) : k < e => l[k] # COLON
  BY <1>1, <1>2, FindColon
<1>4. Name(l) = SubSeq(l, 1, e - 1)
  BY <1>2 DEF Name
<1>5. SubSeq(l, 1, e - 1) \in String /\ Len(SubSeq(l, 1, e - 1)) = e - 1
  <2>1. PICK n \in Nat : n = e - 1 /\ n <= Len(l)
    BY <1>1, <1>3
  <2>2. SubSeq(l, 1, n) \in Seq(Char) /\ Len(SubSeq(l, 1, n)) = n
    BY <2>1, FirstOf DEF String
  <2> QED BY <2>1, <2>2 DEF String
<1>6. PICK v : v = After(l, e)
  OBVIOUS
<1>7. /\ v \in String /\ Len(v) = IF e < Len(l) THEN Len(l) - e ELSE 0
      /\ \A i \in 1 .. Len(v) : v[i] = l[e + i]
  BY <1>1, <1>3, <1>6, AfterType
<1>8. PICK q : q = Find(v, 1, LAMBDA c : c # SP)
  OBVIOUS
<1>9. Len(v) \in Nat /\ 1 \in 1 .. Len(v) + 1
  BY <1>7 DEF String
<1>10. /\ q \in 1 .. Len(v) + 1
       /\ q <= Len(v) => v[q] # SP
       /\ \A k \in 1 .. Len(v) : k < q => v[k] = SP
  BY <1>7, <1>8, <1>9, FindNoBlank
<1>11. Text(l) = After(v, q - 1)
  <2>1. Len(Name(l)) + 1 = e
    BY <1>3, <1>4, <1>5
  <2> QED BY <1>6, <1>8, <2>1 DEF Text
<1>12. PICK b \in Nat : b = e + q
  BY <1>3, <1>9, <1>10
<1>13. Text(l) = After(l, b - 1)
  <2>1. PICK m \in Nat, j \in Nat : m = q - 1 /\ j = b - 1 /\ j = e + m
    BY <1>3, <1>9, <1>10, <1>12
  <2>2. PICK x : x = After(v, m)
    OBVIOUS
  <2>3. /\ x \in String /\ Len(x) = IF m < Len(v) THEN Len(v) - m ELSE 0
        /\ \A i \in 1 .. Len(x) : x[i] = v[m + i]
    BY <1>7, <2>2, AfterType
  <2>4. PICK y : y = After(l, j)
    OBVIOUS
  <2>5. /\ y \in String /\ Len(y) = IF j < Len(l) THEN Len(l) - j ELSE 0
        /\ \A i \in 1 .. Len(y) : y[i] = l[j + i]
    BY <2>4, AfterType
  <2>6. Len(x) = Len(y)
    <3>1. PICK lx \in Nat, ly \in Nat, lv \in Nat, ll \in Nat :
            lx = Len(x) /\ ly = Len(y) /\ lv = Len(v) /\ ll = Len(l)
      <4>1. Len(x) \in Nat
        BY <2>3 DEF String
      <4>2. Len(y) \in Nat
        BY <2>5 DEF String
      <4>3. Len(l) \in Nat
        BY DEF String
      <4> QED BY <1>9, <4>1, <4>2, <4>3, Zenon
    <3>2. lv = IF e < ll THEN ll - e ELSE 0
      BY <1>7, <3>1
    <3>3. lx = (IF m < lv THEN lv - m ELSE 0) /\ ly = (IF j < ll THEN ll - j ELSE 0)
      <4>1. Len(x) = IF m < Len(v) THEN Len(v) - m ELSE 0
        BY <2>3, Zenon
      <4>2. Len(y) = IF j < Len(l) THEN Len(l) - j ELSE 0
        BY <2>5, Zenon
      <4> QED BY <3>1, <4>1, <4>2, Zenon
    <3>4. e \in Nat
      BY <1>3, SMTT(30)
    <3>5. lx = ly
      <4>1. j = e + m
        BY <2>1, Zenon
      <4> QED BY <3>2, <3>3, <3>4, <4>1
    <3> QED BY <3>1, <3>5
  <2>7. ASSUME NEW i \in 1 .. Len(x)
        PROVE  x[i] = y[i]
    <3>1. m + i \in 1 .. Len(v) /\ e + (m + i) = j + i
      <4>1. i \in Nat /\ 1 <= i /\ i <= Len(x)
        BY <1>9, <2>1, <2>3
      <4>2. e \in Nat
        BY <1>3
      <4>3. Len(x) = Len(v) - m
        BY <1>9, <2>1, <2>3, <4>1
      <4>4. m + i <= Len(v) /\ 1 <= m + i /\ m + i \in Nat
        BY <1>9, <2>1, <4>1, <4>3
      <4>5. j = e + m /\ m \in Nat /\ j \in Nat
        BY <2>1
      <4>6. e + (m + i) = j + i
        BY <4>1, <4>2, <4>5
      <4> QED BY <1>9, <4>4, <4>6
    <3>2. x[i] = l[e + (m + i)]
      BY <1>7, <2>3, <3>1
    <3> QED BY <2>5, <2>6, <3>1, <3>2
  <2>8. x = y
    BY <2>3, <2>5, <2>6, <2>7, SeqEqual DEF String
  <2> QED BY <1>11, <2>1, <2>2, <2>4, <2>8
<1>14. b \in e + 1 .. Len(l) + 2 /\ (e <= Len(l) => b <= Len(l) + 1)
  BY <1>1, <1>3, <1>7, <1>9, <1>10, <1>12
<1>15. ASSUME NEW k \in e + 1 .. b - 1, k <= Len(l)
       PROVE  l[k] = SP
  <2>1. k - e \in 1 .. Len(v) /\ k - e < q /\ e + (k - e) = k
    BY <1>1, <1>3, <1>7, <1>9, <1>10, <1>12, <1>15
  <2> QED BY <1>7, <1>10, <2>1
<1>16. ASSUME b <= Len(l)
       PROVE  l[b] # SP
  <2>1. q \in 1 .. Len(v) /\ e + q = b
    BY <1>1, <1>3, <1>7, <1>9, <1>10, <1>12, <1>16
  <2> QED BY <1>7, <1>10, <2>1
<1>17. \A k \in 1 .. e - 1 : k <= Len(l) => l[k] # COLON
  BY <1>1, <1>3
<1>18. HeaderSplit(l, e, b)
  BY <1>3, <1>4, <1>13, <1>14, <1>15, <1>16, <1>17 DEF HeaderSplit
<1>19. Text(l) \in String
  <2>1. b - 1 \in Nat
    BY <1>3, <1>14
  <2> QED BY <1>13, <2>1, AfterType
<1> QED BY <1>4, <1>5, <1>18, <1>19

\* What GetHeader has taken from the first i characters of such a line.
ReadTo(l, e, b, i, h) ==
  /\ i < e => h = Named(SubSeq(l, 1, i))
  /\ e <= i /\ i < b => h = Padded(Name(l))
  /\ b <= i => h = Valued(Name(l), SubSeq(l, b, i))

\* What it takes from the line.
LEMMA HeaderLine ==
  ASSUME NEW l \in String, NEW r \in String,
         \A k \in 1 .. Len(l) : l[k] # CR /\ l[k] # LF,
         NEW e, NEW b, HeaderSplit(l, e, b), \A k \in 1 .. e - 1 : l[k] # SP
  PROVE  LET g == GetHeader(LineThen(l, r)) IN
           g.good /\ g.name = Name(l) /\ g.value = Text(l) /\ g.rest = r
<1>1. PICK t : t = LineThen(l, r)
  OBVIOUS
<1>2. /\ t \in String /\ Len(t) = Len(l) + 2 + Len(r)
      /\ \A k \in 1 .. Len(l) : t[k] = l[k]
      /\ t[Len(l) + 1] = CR /\ After(t, Len(l) + 2) = r
  BY <1>1, LineText
<1>3. PICK n \in Nat : n = Len(l)
  BY DEF String
<1>4. LineEnd(t, 1) = n + 2
  <2>1. 1 \in 1 .. Len(l) + 2
    BY <1>3
  <2> QED BY <1>1, <1>3, <2>1, LineStops
<1>5. Len(r) \in Nat /\ n + 2 <= Len(t)
  <2>1. Len(r) \in Nat
    BY DEF String
  <2> QED BY <1>2, <1>3, <2>1
<1> DEFINE N == (n + 2) - 1
           Read(f) == f = [i \in 0 .. N |-> IF i = 0 THEN NoHeader ELSE HeaderChar(f[i - 1], t[i])]
           step == [i \in 1 .. N |-> [h \in Fields |-> HeaderChar(h, t[i])]]
<1>6. \E f : Read(f)
  <2>1. step \in [1 .. N -> [Fields -> Fields]]
    <3>1. ASSUME NEW i \in 1 .. N, NEW h \in Fields
          PROVE  HeaderChar(h, t[i]) \in Fields
      <4>1. i \in 1 .. Len(t)
        BY <1>5
      <4>2. t[i] \in Char
        BY <1>2, <4>1, CharAt
      <4> QED BY <4>2, CharacterType
    <3> QED BY <3>1
  <2>2. NoHeader \in Fields /\ N \in Nat
    BY DEF NoHeader, Fields, String
  <2>3. PICK f \in [0 .. N -> Fields] : f[0] = NoHeader /\ \A i \in 1 .. N : f[i] = step[i][f[i - 1]]
    <3>1. \E f : Recurs(f, Fields, N, NoHeader, step)
      <4> HIDE DEF step, N
      <4> QED BY <2>1, <2>2, Recursion
    <3> QED BY <3>1 DEF Recurs
  <2>4. ASSUME NEW i \in 1 .. N
        PROVE  f[i] = HeaderChar(f[i - 1], t[i])
    <3>1. i - 1 \in 0 .. N
      OBVIOUS
    <3>2. f[i - 1] \in Fields
      BY <3>1
    <3>3. step[i][f[i - 1]] = HeaderChar(f[i - 1], t[i])
      BY <3>2
    <3> QED BY <2>3, <3>3
  <2>5. \A i \in 0 .. N : i = 0 \/ i \in 1 .. N
    OBVIOUS
  <2>6. f = [i \in 0 .. N |-> f[i]]
    OBVIOUS
  <2>7. \A i \in 0 .. N : f[i] = IF i = 0 THEN NoHeader ELSE HeaderChar(f[i - 1], t[i])
    BY <2>3, <2>4, <2>5
  <2>8. Read(f)
    BY <2>6, <2>7, Zenon
  <2> QED BY <2>8
<1>7. PICK f : f = CHOOSE g : Read(g)
  OBVIOUS
<1>8. Read(f)
  BY <1>6, <1>7
<1>9. /\ f[0] = NoHeader
      /\ \A i \in 1 .. n : f[i] = HeaderChar(f[i - 1], l[i])
      /\ f[N] = f[n]
  <2>1. /\ 0 \in 0 .. N /\ N \in 0 .. N /\ N # 0 /\ N - 1 = n /\ N = n + 1
        /\ \A i \in 1 .. n : i \in 0 .. N /\ i # 0
    OBVIOUS
  <2>2. f[0] = NoHeader /\ f[N] = HeaderChar(f[n], t[N]) /\ t[N] = CR
    BY <1>2, <1>3, <1>8, <2>1
  <2>3. \A i \in 1 .. n : f[i] = HeaderChar(f[i - 1], t[i])
    BY <1>8, <2>1
  <2> QED BY <1>2, <1>3, <2>2, <2>3, CharacterOfLineEnd
<1>10. /\ e \in 1 .. n + 1 /\ b \in e + 1 .. n + 2
       /\ e <= n => l[e] = COLON /\ b <= n + 1
       /\ \A k \in 1 .. e - 1 : k <= n => l[k] # COLON
       /\ \A k \in e + 1 .. b - 1 : k <= n => l[k] = SP
       /\ b <= n => l[b] # SP
       /\ Name(l) = SubSeq(l, 1, e - 1) /\ Text(l) = After(l, b - 1)
  BY <1>3 DEF HeaderSplit
<1> DEFINE Good == {i \in 0 .. n : ReadTo(l, e, b, i, f[i])}
<1>11. 0 \in Good
  <2>1. SubSeq(l, 1, 0) = <<>>
    BY SubSeqEmpty
  <2>2. f[0] = Named(<<>>)
    BY <1>9, Zenon DEF NoHeader, Named, Field
  <2>3. 0 < e /\ 0 < b /\ 0 \in 0 .. n
    BY <1>10
  <2>4. ReadTo(l, e, b, 0, f[0])
    <3>1. ~(e <= 0) /\ ~(b <= 0)
      BY <1>10
    <3> QED BY <2>1, <2>2, <3>1, Zenon DEF ReadTo
  <2> QED BY <2>3, <2>4
<1>12. ASSUME NEW i \in 0 .. n, i \in Good, i < n
       PROVE  i + 1 \in Good
  <2>1. PICK j \in 1 .. n : j = i + 1
    BY <1>12
  <2>2. f[j] = HeaderChar(f[i], l[j]) /\ l[j] # CR
    BY <1>3, <1>9, <2>1
  <2>3. e \in Nat /\ b \in Nat /\ i \in Nat /\ j \in Nat /\ e < b
    BY <1>10
  <2>4. CASE j < e
    <3>1. f[i] = Named(SubSeq(l, 1, i))
      BY <1>12, <2>1, <2>3, <2>4 DEF ReadTo
    <3>2. l[j] \notin {SP, COLON}
      BY <1>10, <2>1, <2>3, <2>4
    <3>3. f[j] = Named(Append(SubSeq(l, 1, i), l[j]))
      BY <2>2, <3>1, <3>2, CharacterCases, Zenon
    <3>4. SubSeq(l, 1, j) = Append(SubSeq(l, 1, i), l[j])
      <4>1. j \in 1 .. Len(l) /\ 1 \in 1 .. j /\ j - 1 = i
        BY <1>3, <2>1
      <4> QED BY <4>1, PartGrows DEF String
    <3>5. ReadTo(l, e, b, j, f[j])
      <4>1. ~(e <= j) /\ ~(b <= j)
        BY <2>3, <2>4
      <4> QED BY <3>3, <3>4, <4>1, Zenon DEF ReadTo
    <3> QED BY <2>1, <3>5
  <2>5. CASE j = e
    <3>1. f[i] = Named(Name(l))
      <4>1. i < e /\ i = e - 1
        BY <2>1, <2>3, <2>5
      <4> QED BY <1>10, <1>12, <4>1 DEF ReadTo
    <3>2. l[j] = COLON
      BY <1>10, <2>5
    <3>3. f[j] = Padded(Name(l))
      BY <2>2, <3>1, <3>2, CharacterCases, Zenon
    <3>4. ReadTo(l, e, b, j, f[j])
      BY <2>3, <2>5, <3>3 DEF ReadTo
    <3> QED BY <2>1, <3>4
  <2>6. CASE e < j /\ j < b
    <3>1. f[i] = Padded(Name(l))
      <4>1. e <= i /\ i < b
        BY <2>1, <2>3, <2>6
      <4> QED BY <1>12, <4>1 DEF ReadTo
    <3>2. l[j] = SP
      <4>1. j \in e + 1 .. b - 1 /\ j <= n
        BY <2>3, <2>6
      <4> QED BY <1>10, <4>1
    <3>3. f[j] = Padded(Name(l))
      BY <2>2, <3>1, <3>2, CharacterCases, Zenon
    <3>4. ReadTo(l, e, b, j, f[j])
      BY <2>3, <2>6, <3>3 DEF ReadTo
    <3> QED BY <2>1, <3>4
  <2>7. CASE j = b
    <3>1. f[i] = Padded(Name(l))
      <4>1. e <= i /\ i < b
        BY <2>1, <2>3, <2>7
      <4> QED BY <1>12, <4>1 DEF ReadTo
    <3>2. l[j] # SP
      BY <1>10, <2>7
    <3>3. f[j] = Valued(Name(l), Append(<<>>, l[j]))
      BY <2>2, <3>1, <3>2, CharacterCases, Zenon
    <3>4. SubSeq(l, b, j) = Append(<<>>, l[j])
      <4>1. j \in 1 .. Len(l) /\ b \in 1 .. j /\ j - 1 = i /\ i < b
        BY <1>3, <2>1, <2>3, <2>7
      <4>2. SubSeq(l, b, j) = Append(SubSeq(l, b, i), l[j])
        BY <4>1, PartGrows DEF String
      <4>3. SubSeq(l, b, i) = <<>>
        BY <4>1, SubSeqEmpty
      <4> QED BY <4>2, <4>3
    <3>5. ReadTo(l, e, b, j, f[j])
      BY <2>3, <2>7, <3>3, <3>4 DEF ReadTo
    <3> QED BY <2>1, <3>5
  <2>8. CASE b < j
    <3>1. f[i] = Valued(Name(l), SubSeq(l, b, i))
      <4>1. b <= i
        BY <2>1, <2>3, <2>8
      <4> QED BY <1>12, <4>1 DEF ReadTo
    <3>2. f[j] = Valued(Name(l), Append(SubSeq(l, b, i), l[j]))
      <4>1. PICK v : v = SubSeq(l, b, i)
        OBVIOUS
      <4>2. HeaderChar(Valued(Name(l), v), l[j]) = Valued(Name(l), Append(v, l[j]))
        <5>1. PICK m : m = Name(l)
          OBVIOUS
        <5>2. PICK c : c = l[j] /\ c # CR
          BY <2>2
        <5>3. HeaderChar(Valued(m, v), c) = Valued(m, Append(v, c))
          BY <5>2, CharacterOfValue
        <5> QED BY <5>1, <5>2, <5>3
      <4> QED BY <2>2, <3>1, <4>1, <4>2
    <3>3. SubSeq(l, b, j) = Append(SubSeq(l, b, i), l[j])
      <4>1. j \in 1 .. Len(l) /\ b \in 1 .. j /\ j - 1 = i
        BY <1>3, <1>10, <2>1, <2>3, <2>8
      <4> QED BY <4>1, PartGrows DEF String
    <3>4. ReadTo(l, e, b, j, f[j])
      BY <2>3, <2>8, <3>2, <3>3 DEF ReadTo
    <3> QED BY <2>1, <3>4
  <2> QED BY <2>3, <2>4, <2>5, <2>6, <2>7, <2>8
<1>13. n \in Good
  <2>1. \A i \in 0 .. n : i \in Good
    <3> HIDE DEF Good
    <3> QED BY <1>11, <1>12, Induction
  <2>2. n \in 0 .. n
    OBVIOUS
  <2> QED BY <2>1, <2>2
<1>14. f[n].name = Name(l) /\ f[n].value = Text(l)
  <2>1. Text(l) = SubSeq(l, b, n)
    <3>1. (b - 1) + 1 = b
      BY <1>10
    <3> QED BY <1>3, <1>10, <3>1 DEF After
  <2>2. CASE n < e
    <3>1. n = e - 1 /\ n < b
      BY <1>10, <2>2
    <3>2. f[n] = Named(Name(l))
      BY <1>10, <1>13, <2>2, <3>1 DEF ReadTo
    <3>3. SubSeq(l, b, n) = <<>>
      BY <1>10, <3>1, SubSeqEmpty
    <3> QED BY <2>1, <3>2, <3>3 DEF Named, Field
  <2>3. CASE e <= n /\ n < b
    <3>1. f[n] = Padded(Name(l))
      BY <1>13, <2>3 DEF ReadTo
    <3>2. SubSeq(l, b, n) = <<>>
      BY <1>10, <2>3, SubSeqEmpty
    <3> QED BY <2>1, <3>1, <3>2 DEF Padded, Field
  <2>4. CASE b <= n
    <3>1. f[n] = Valued(Name(l), SubSeq(l, b, n))
      BY <1>13, <2>4 DEF ReadTo
    <3>2. PICK h : h = f[n]
      OBVIOUS
    <3>3. PICK x, v : x = Name(l) /\ v = SubSeq(l, b, n)
      OBVIOUS
    <3>4. h = Valued(x, v)
      BY <3>1, <3>2, <3>3
    <3>5. h.name = x /\ h.value = v
      BY <3>4, ValuedFields, Zenon
    <3> QED BY <2>1, <3>2, <3>3, <3>5
  <2>5. n < e \/ (e <= n /\ n < b) \/ b <= n
    BY <1>10
  <2>6. f[n].name = Name(l) /\ f[n].value = Text(l)
    BY <2>2, <2>3, <2>4, <2>5
  <2> QED BY <2>6
<1>15. GetHeader(t) = [good |-> n + 2 <= Len(t), name |-> f[N].name, value |-> f[N].value,
                       rest |-> After(t, n + 2)]
  BY <1>4, <1>7 DEF GetHeader
<1>16. PICK g : g = GetHeader(t)
  OBVIOUS
<1>17. g.good /\ g.name = f[N].name /\ g.value = f[N].value /\ g.rest = After(t, n + 2)
  <2>1. PICK good : good = (n + 2 <= Len(t))
    OBVIOUS
  <2>2. PICK name : name = f[N].name
    OBVIOUS
  <2>3. PICK value : value = f[N].value
    OBVIOUS
  <2>4. PICK rest : rest = After(t, n + 2)
    OBVIOUS
  <2>5. g = [good |-> good, name |-> name, value |-> value, rest |-> rest]
    BY <1>15, <1>16, <2>1, <2>2, <2>3, <2>4
  <2>6. g.good = good /\ g.name = name /\ g.value = value /\ g.rest = rest
    BY <2>5
  <2> QED BY <1>5, <2>1, <2>2, <2>3, <2>4, <2>6
<1> QED BY <1>1, <1>2, <1>3, <1>9, <1>14, <1>16, <1>17

-------------------------------------------------------------------------------
(* The map of headers *)

\* The lines that are the first of their name among the first k ...
Firsts(ls, k) ==
  {i \in 1 .. k : \A j \in 1 .. i - 1 : ~SameLetters(Name(ls[j]), Name(ls[i]))}

\* ... and the map that holds them.
Mapped(ls, k) == {<<Name(ls[i]), Text(ls[i])>> : i \in Firsts(ls, k)}

\* What a map answers for a name (HeadersRead's Found).
ValuesOf(m, n) == {h[2] : h \in {h \in m : SameKey(h[1], n)}}

\* Having the same letters is symmetric and transitive.
LEMMA SameLettersLaws ==
  /\ \A s, t : SameLetters(s, t) => SameLetters(t, s)
  /\ \A r, s, t : SameLetters(r, s) /\ SameLetters(s, t) => SameLetters(r, t)
BY DEF SameLetters

\* A header line, its name and its value.
LEMMA LineTypes ==
  ASSUME NEW ls \in Seq(String), NEW i \in 1 .. Len(ls)
  PROVE  ls[i] \in String /\ Name(ls[i]) \in String /\ Text(ls[i]) \in String
<1>1. PICK l \in String : l = ls[i]
  BY ElementOfSeq
<1>2. Name(l) \in String /\ Text(l) \in String
  BY HeaderParts
<1> QED BY <1>1, <1>2

\* If a name occurs in the first j lines, there is a first line of that name.
LEMMA FirstIsThere ==
  ASSUME NEW ls \in Seq(String), NEW k \in 0 .. Len(ls), NEW j \in 1 .. k,
         NEW n, SameLetters(Name(ls[j]), n)
  PROVE  \E i \in Firsts(ls, k) : i <= j /\ SameLetters(Name(ls[i]), n)
<1> DEFINE D == {i \in 1 .. k : SameLetters(Name(ls[i]), n)}
<1>1. k \in Nat /\ D \in SUBSET Nat /\ j \in D
  OBVIOUS
<1>2. PICK i \in D : \A x \in D : i <= x
  <2> HIDE DEF D
  <2> QED BY <1>1, LeastNumber
<1>3. i \in 1 .. k /\ i <= j /\ SameLetters(Name(ls[i]), n)
  BY <1>1, <1>2
<1>4. ASSUME NEW x \in 1 .. i - 1, SameLetters(Name(ls[x]), Name(ls[i]))
      PROVE  FALSE
  <2>1. x \in 1 .. k /\ ~(i <= x)
    BY <1>1, <1>3
  <2>2. SameLetters(Name(ls[x]), n)
    BY <1>3, <1>4, SameLettersLaws, Zenon
  <2> QED BY <1>2, <2>1, <2>2
<1>5. i \in Firsts(ls, k)
  BY <1>3, <1>4 DEF Firsts
<1> QED BY <1>3, <1>5

\* Insert keeps the map that of the first lines of their names.
LEMMA InsertNext ==
  ASSUME NEW ls \in Seq(String), NEW k \in 0 .. Len(ls), k < Len(ls)
  PROVE  Insert(Mapped(ls, k), Name(ls[k + 1]), Text(ls[k + 1])) = Mapped(ls, k + 1)
<1>1. PICK j : j = k + 1
  OBVIOUS
<1>2. j \in 1 .. Len(ls) /\ j \in 1 .. j /\ k \in Nat /\ j - 1 = k /\ k \in 0 .. Len(ls) /\ j \in 0 .. Len(ls)
  BY <1>1
<1>3. PICK n : n = Name(ls[j])
  OBVIOUS
<1>4. n \in String /\ \A i \in 1 .. k : Name(ls[i]) \in String
  <2>1. \A i \in 1 .. k : i \in 1 .. Len(ls)
    BY <1>2
  <2> QED BY <1>2, <1>3, <2>1, LineTypes
<1>5. \A i \in 1 .. k : SameKey(Name(ls[i]), n) <=> SameLetters(Name(ls[i]), n)
  BY <1>4, SameKeyIsSameLetters
<1>6. \A i \in Firsts(ls, k) : i \in 1 .. k /\ i \in Firsts(ls, j)
  BY <1>1, <1>2 DEF Firsts
<1>7. \A i \in Firsts(ls, j) : i = j \/ i \in Firsts(ls, k)
  BY <1>1, <1>2 DEF Firsts
<1>8. CASE \E i \in 1 .. k : SameLetters(Name(ls[i]), n)
  <2>1. PICK i \in Firsts(ls, k) : SameLetters(Name(ls[i]), n)
    BY <1>2, <1>8, FirstIsThere
  <2>2. PICK h : h = <<Name(ls[i]), Text(ls[i])>>
    OBVIOUS
  <2>3. h \in Mapped(ls, k) /\ h[1] = Name(ls[i]) /\ SameKey(h[1], n)
    BY <1>5, <1>6, <2>1, <2>2 DEF Mapped
  <2>4. Insert(Mapped(ls, k), n, Text(ls[j])) = Mapped(ls, k)
    BY <2>3 DEF Insert
  <2>5. j \notin Firsts(ls, j)
    BY <1>2, <1>3, <1>8 DEF Firsts
  <2>6. Firsts(ls, j) = Firsts(ls, k)
    BY <1>6, <1>7, <2>5
  <2> QED BY <1>1, <1>3, <2>4, <2>6 DEF Mapped
<1>9. CASE ~ \E i \in 1 .. k : SameLetters(Name(ls[i]), n)
  <2>1. ASSUME NEW h \in Mapped(ls, k), SameKey(h[1], n)
        PROVE  FALSE
    <3>1. PICK i \in Firsts(ls, k) : h = <<Name(ls[i]), Text(ls[i])>>
      BY DEF Mapped
    <3>2. h[1] = Name(ls[i]) /\ i \in 1 .. k
      BY <1>6, <3>1
    <3> QED BY <1>5, <1>9, <2>1, <3>2
  <2>2. Insert(Mapped(ls, k), n, Text(ls[j])) = Mapped(ls, k) \cup {<<n, Text(ls[j])>>}
    BY <2>1 DEF Insert
  <2>3. j \in Firsts(ls, j)
    BY <1>2, <1>3, <1>9 DEF Firsts
  <2>4. \A i : i \in Firsts(ls, j) <=> i = j \/ i \in Firsts(ls, k)
    BY <1>6, <1>7, <2>3
  <2>5. Mapped(ls, j) = Mapped(ls, k) \cup {<<n, Text(ls[j])>>}
    BY <1>3, <2>4 DEF Mapped
  <2> QED BY <1>1, <1>3, <2>2, <2>5
<1> QED BY <1>8, <1>9

\* What the map finds is the value of the first line of that name.
LEMMA FoundIsFirst ==
  ASSUME NEW ls \in Seq(String), NEW k \in 0 .. Len(ls), NEW j \in 1 .. k,
         NEW first, first = Min({i \in 1 .. k : SameLetters(Name(ls[i]), Name(ls[j]))})
  PROVE  ValuesOf(Mapped(ls, k), Name(ls[j])) = {Text(ls[first])}
<1> DEFINE n == Name(ls[j])
           D == {i \in 1 .. k : SameLetters(Name(ls[i]), n)}
           Found == {h \in Mapped(ls, k) : SameKey(h[1], n)}
<1>1. k \in Nat /\ j \in Nat /\ D \in SUBSET Nat /\ j \in D
  BY DEF SameLetters
<1>2. first \in D /\ \A x \in D : first <= x
  <2>1. first = Min(D)
    OBVIOUS
  <2> HIDE DEF D
  <2>2. D # {}
    BY <1>1
  <2>3. Min(D) \in D /\ \A x \in D : Min(D) <= x
    BY <1>1, <2>2, MinIsLeast
  <2> QED BY <2>1, <2>3, Zenon
<1>3. n \in String /\ \A i \in 1 .. k : Name(ls[i]) \in String
  <2>1. j \in 1 .. Len(ls) /\ \A i \in 1 .. k : i \in 1 .. Len(ls)
    OBVIOUS
  <2> QED BY <2>1, LineTypes
<1>4. \A i \in 1 .. k : SameKey(Name(ls[i]), n) <=> i \in D
  BY <1>3, SameKeyIsSameLetters
<1>5. first \in Firsts(ls, k)
  <2>1. PICK i \in Firsts(ls, k) : i <= first /\ SameLetters(Name(ls[i]), n)
    <3>1. first \in 1 .. k /\ SameLetters(Name(ls[first]), n)
      BY <1>2
    <3> QED BY <3>1, FirstIsThere
  <2>2. i \in D /\ i \in Nat /\ first \in Nat
    BY <1>1, <1>2, <2>1 DEF Firsts
  <2>3. i = first
    BY <1>2, <2>1, <2>2
  <2> QED BY <2>1, <2>3
<1>6. ASSUME NEW i \in Firsts(ls, k), i \in D
      PROVE  i = first
  <2>1. i \in Nat /\ first \in Nat /\ first <= i /\ 1 <= first
    BY <1>1, <1>2, <1>6
  <2>2. ASSUME first < i
        PROVE  FALSE
    <3>1. first \in 1 .. i - 1
      BY <2>1, <2>2
    <3>2. SameLetters(Name(ls[first]), n) /\ SameLetters(Name(ls[i]), n)
      BY <1>2, <1>6
    <3>3. SameLetters(Name(ls[first]), Name(ls[i]))
      BY <3>2, SameLettersLaws, Zenon
    <3> QED BY <3>1, <3>3 DEF Firsts
  <2> QED BY <2>1, <2>2
<1>7. PICK g : g = <<Name(ls[first]), Text(ls[first])>>
  OBVIOUS
<1>8. g \in Found /\ g[2] = Text(ls[first])
  <2>1. g \in Mapped(ls, k) /\ g[1] = Name(ls[first]) /\ g[2] = Text(ls[first])
    BY <1>5, <1>7 DEF Mapped
  <2> QED BY <1>2, <1>4, <2>1
<1>9. ASSUME NEW h \in Found
      PROVE  h = g
  <2>1. PICK i \in Firsts(ls, k) : h = <<Name(ls[i]), Text(ls[i])>>
    BY DEF Mapped
  <2>2. h[1] = Name(ls[i]) /\ i \in 1 .. k
    BY <2>1 DEF Firsts
  <2>3. i \in D
    BY <1>4, <2>2
  <2> QED BY <1>6, <1>7, <2>1, <2>3
<1>10. {h[2] : h \in Found} = {Text(ls[first])}
  <2> HIDE DEF Found
  <2> QED BY <1>8, <1>9
<1> QED BY <1>10 DEF ValuesOf

-------------------------------------------------------------------------------
(* The loop over the header lines *)

\* What is left after k lines, in full.
LEMMA LinesLeft ==
  ASSUME NEW ls \in Seq(String), NEW b \in String, NEW k \in 0 .. Len(ls)
  PROVE  /\ After(ls, k) \in Seq(String) /\ Rest(After(ls, k), b) \in String
         /\ k < Len(ls) => Rest(After(ls, k), b) = LineThen(ls[k + 1], Rest(After(ls, k + 1), b))
         /\ k = Len(ls) => Rest(After(ls, k), b) = LineThen(<<>>, b)
<1>1. k \in Nat /\ Len(ls) \in Nat
  OBVIOUS
<1>2. PICK r : r = After(ls, k)
  OBVIOUS
<1>3. /\ r \in Seq(String)
      /\ Len(r) = IF k < Len(ls) THEN Len(ls) - k ELSE 0
      /\ \A i \in 1 .. Len(r) : r[i] = ls[k + i]
  BY <1>1, <1>2, TailOf DEF After
<1>4. Rest(r, b) \in String
  BY <1>3, RestTypes
<1>5. ASSUME k < Len(ls)
      PROVE  Rest(r, b) = LineThen(ls[k + 1], Rest(After(ls, k + 1), b))
  <2>1. PICK m \in Nat : m = k + 1
    BY <1>1
  <2>2. PICK s : s = After(ls, m)
    OBVIOUS
  <2>3. /\ s \in Seq(String)
        /\ Len(s) = IF m < Len(ls) THEN Len(ls) - m ELSE 0
        /\ \A i \in 1 .. Len(s) : s[i] = ls[m + i]
    BY <2>2, TailOf DEF After
  <2>4. Len(r) = Len(ls) - k /\ Len(s) = Len(ls) - m /\ Len(r) \in Nat /\ Len(r) # 0
    BY <1>1, <1>3, <1>5, <2>1, <2>3
  <2>5. PICK u : u = SubSeq(r, 2, Len(r))
    OBVIOUS
  <2>6. u \in Seq(String) /\ Len(u) = Len(r) - 1 /\ \A i \in 1 .. Len(r) - 1 : u[i] = r[i + 1]
    <3>1. r # <<>>
      BY <2>4
    <3> QED BY <1>3, <2>5, <3>1, DropFirst
  <2>7. ASSUME NEW i \in 1 .. Len(u)
        PROVE  u[i] = s[i]
    <3>1. i \in 1 .. Len(r) - 1 /\ i + 1 \in 1 .. Len(r) /\ i \in 1 .. Len(s) /\ k + (i + 1) = m + i
      BY <1>1, <2>1, <2>4, <2>6
    <3> QED BY <1>3, <2>3, <2>6, <3>1
  <2>8. u = s
    <3>1. Len(u) = Len(s)
      BY <1>1, <2>1, <2>4, <2>6
    <3> QED BY <2>3, <2>6, <2>7, <3>1, SeqEqual
  <2>9. Rest(r, b) = LineThen(r[1], Rest(u, b))
    BY <1>3, <2>4, <2>5, RestUnrolls
  <2>10. r[1] = ls[k + 1]
    BY <1>3, <2>4
  <2> QED BY <2>1, <2>2, <2>8, <2>9, <2>10
<1>6. ASSUME k = Len(ls)
      PROVE  Rest(r, b) = LineThen(<<>>, b)
  <2>1. Len(r) = 0
    BY <1>1, <1>3, <1>6
  <2>2. PICK e \in Seq(String) : e = Ended(r) /\ Len(e) = 0 /\ Lines(r) = FlattenSeq(e)
    BY <1>3, <2>1, EndedType
  <2>3. e = <<>> /\ FlattenSeq(e) = e
    BY <2>2, EmptySeq DEF FlattenSeq
  <2>4. Lines(r) = <<>>
    BY <2>2, <2>3
  <2> QED BY <2>4 DEF Rest, LineThen
<1> QED BY <1>2, <1>3, <1>4, <1>5, <1>6

\* A proper line, and the empty one.
LEMMA ProperLineRead ==
  ASSUME NEW l \in String, NEW r \in String, ProperLine(l) \/ l = <<>>
  PROVE  LET g == GetHeader(LineThen(l, r)) IN
           g.good /\ g.name = Name(l) /\ g.value = Text(l) /\ g.rest = r
<1>1. PICK e, b : HeaderSplit(l, e, b)
  BY HeaderParts
<1>2. Len(l) \in Nat /\ e \in 1 .. Len(l) + 1 /\ Name(l) = SubSeq(l, 1, e - 1)
  BY <1>1 DEF HeaderSplit, String
<1>3. CASE l = <<>>
  <2>1. Len(l) = 0 /\ e = 1
    BY <1>2, <1>3
  <2>2. /\ \A k \in 1 .. Len(l) : l[k] # CR /\ l[k] # LF
        /\ \A k \in 1 .. e - 1 : l[k] # SP
    BY <2>1
  <2> QED BY <1>1, <2>2, HeaderLine
<1>4. CASE ProperLine(l)
  <2>1. \A k \in 1 .. Len(l) : l[k] \in ToSet(l)
    BY <1>2 DEF ToSet, String
  <2>2. \A k \in 1 .. Len(l) : l[k] # CR /\ l[k] # LF
    BY <1>4, <2>1 DEF ProperLine
  <2>3. ASSUME NEW k \in 1 .. e - 1
        PROVE  l[k] # SP
    <3>1. PICK m \in Nat : m = e - 1 /\ m <= Len(l)
      BY <1>2
    <3>2. PICK n : n = SubSeq(l, 1, m)
      OBVIOUS
    <3>3. n \in Seq(Char) /\ Len(n) = m /\ \A i \in 1 .. m : n[i] = l[i]
      BY <3>1, <3>2, FirstOf DEF String
    <3>4. n[k] \in ToSet(n) /\ n[k] = l[k]
      BY <3>1, <3>3 DEF ToSet
    <3>5. SP \notin ToSet(n)
      BY <1>2, <1>4, <3>1, <3>2 DEF ProperLine
    <3> QED BY <3>4, <3>5
  <2> QED BY <1>1, <2>2, <2>3, HeaderLine
<1> QED BY <1>3, <1>4

\* The empty line has no name.
LEMMA NoName == Name(<<>>) = <<>>
<1>1. PICK l \in String : l = <<>> /\ Len(l) = 0
  <2>1. <<>> \in Seq(Char) /\ Len(<<>>) = 0
    BY EmptySeq
  <2> QED BY <2>1 DEF String
<1>2. PICK e, b : HeaderSplit(l, e, b)
  BY HeaderParts
<1>3. e = 1 /\ Name(l) = SubSeq(l, 1, e - 1)
  BY <1>1, <1>2 DEF HeaderSplit
<1>4. SubSeq(l, 1, 0) = <<>>
  BY SubSeqEmpty
<1> QED BY <1>1, <1>3, <1>4

\* Where the first line without a value is.
LEMMA FindNoText ==
  ASSUME NEW s \in Seq(String), NEW i \in 1 .. Len(s) + 1,
         NEW m, m = Find(s, i, LAMBDA l : Text(l) = <<>>)
  PROVE  /\ m \in i .. Len(s) + 1
         /\ m <= Len(s) => Text(s[m]) = <<>>
         /\ \A k \in i .. Len(s) : k < m => Text(s[k]) # <<>>
<1> DEFINE D == {k \in i .. Len(s) : Text(s[k]) = <<>>}
<1>1. Len(s) \in Nat /\ D \in SUBSET (i .. Len(s)) /\ m = Min(D \cup {Len(s) + 1})
  BY DEF Find
<1>2. \A k \in i .. Len(s) : k \in D <=> Text(s[k]) = <<>>
  OBVIOUS
<1> HIDE DEF D
<1> QED BY <1>1, <1>2, LeastOrEnd

\* The first header without a value is where reading stops.
LEMMA StopAt ==
  ASSUME NEW ls \in Seq(String), NEW k \in 0 .. Len(ls),
         \A i \in 1 .. k : Text(ls[i]) # <<>>,
         k < Len(ls) => Text(ls[k + 1]) = <<>>
  PROVE  Find(ls, 1, LAMBDA l : Text(l) = <<>>) = k + 1
<1>1. PICK m : m = Find(ls, 1, LAMBDA l : Text(l) = <<>>)
  OBVIOUS
<1>2. 1 \in 1 .. Len(ls) + 1 /\ Len(ls) \in Nat
  OBVIOUS
<1>3. /\ m \in 1 .. Len(ls) + 1
      /\ m <= Len(ls) => Text(ls[m]) = <<>>
      /\ \A i \in 1 .. Len(ls) : i < m => Text(ls[i]) # <<>>
  BY <1>1, <1>2, FindNoText
<1>4. k \in Nat /\ k <= Len(ls)
  BY <1>2
<1>5. ~(m <= k)
  BY <1>2, <1>3, <1>4
<1>6. ~(k + 1 < m)
  <2>1. ASSUME k + 1 < m
        PROVE  FALSE
    <3>1. k + 1 \in 1 .. Len(ls) /\ k < Len(ls)
      BY <1>2, <1>3, <1>4, <2>1
    <3> QED BY <1>3, <2>1, <3>1
  <2> QED BY <2>1
<1>7. m = k + 1
  BY <1>2, <1>3, <1>4, <1>5, <1>6
<1> QED BY <1>1, <1>7

\* The first k lines have been taken.
Filled(k) ==
  /\ \A i \in 1 .. k : Text(input.lines[i]) # <<>>
  /\ headers = Mapped(input.lines, k)

\* The loop is about to read the line after them, or has stopped there.
Turn(k) == Filled(k) /\ text = Rest(After(input.lines, k), input.body)
Stopped(k) ==
  /\ Filled(k)
  /\ k < Len(input.lines) =>
       Text(input.lines[k + 1]) = <<>> /\ text = Rest(After(input.lines, k + 1), input.body)
  /\ k = Len(input.lines) => text = input.body

HeadersInv ==
  input \in Heads /\ ProperHead(input) =>
    /\ phase \in {"statusLine", "starved"} => headers = {}
    /\ phase = "headers" => \E k \in 0 .. Len(input.lines) : Turn(k)
    /\ phase = "done" => \E k \in 0 .. Len(input.lines) : Stopped(k)
    /\ phase # "error"

\* The header lines of a proper head are proper.
LEMMA ProperHeadType ==
  ASSUME NEW h \in Heads, ProperHead(h)
  PROVE  /\ h.lines \in Seq(String) /\ h.body \in String
         /\ \A i \in 1 .. Len(h.lines) : h.lines[i] \in String /\ ProperLine(h.lines[i])
<1>1. PICK ls \in Seq(String) : ls = h.lines
  BY HeadType
<1>2. DOMAIN ls = 1 .. Len(ls)
  OBVIOUS
<1>3. \A i \in 1 .. Len(ls) : ls[i] \in String
  BY ElementOfSeq
<1>4. \A i \in 1 .. Len(ls) : ProperLine(ls[i])
  BY <1>1, <1>2 DEF ProperHead
<1> QED BY <1>1, <1>3, <1>4, HeadType

\* The invariant of the headers holds at first ...
LEMMA HeadersInit == Init => HeadersInv
<1> SUFFICES ASSUME Init, input \in Heads
             PROVE  phase = "statusLine" /\ headers = {}
  BY DEF HeadersInv
<1>1. \A x : input # [size |-> x]
  BY TextsAssumption
<1> QED BY <1>1 DEF Init

\* After the status line the loop begins with the first header line.
LEMMA HeadersBegin ==
  ASSUME StatusInv, StatusInv', HeadersInv, ReadStatusLine, input \in Heads, ProperHead(input)
  PROVE  HeadersInv'
<1>1. /\ phase = "statusLine" /\ headers = {} /\ headers' = {} /\ input' = input
      /\ phase' \in {"headers", "starved", "error"}
      /\ text' = status'.rest /\ (phase' = "error" => ~status'.good)
  BY DEF ReadStatusLine, HeadersInv
<1>2. "lines" \in DOMAIN input /\ ProperStatus(input.status)
  BY TextsAssumption DEF ProperHead
<1>3. status'.good /\ status'.rest = Rest(input.lines, input.body)
  BY <1>1, <1>2 DEF StatusInv, StatusLineRead, Rest
<1>4. PICK ls \in Seq(String) : ls = input.lines
  BY ProperHeadType
<1>5. After(ls, 0) = ls
  <2>1. PICK r : r = After(ls, 0)
    OBVIOUS
  <2>2. 0 \in Nat /\ Len(ls) \in Nat
    OBVIOUS
  <2>3. /\ r \in Seq(String)
        /\ Len(r) = IF 0 < Len(ls) THEN Len(ls) - 0 ELSE 0
        /\ \A i \in 1 .. Len(r) : r[i] = ls[0 + i]
    BY <2>1, <2>2, TailOf DEF After
  <2>4. Len(r) = Len(ls) /\ \A i \in 1 .. Len(r) : r[i] = ls[i]
    BY <2>2, <2>3
  <2>5. r = ls
    BY <2>3, <2>4, SeqEqual
  <2> QED BY <2>1, <2>5
<1>6. Mapped(ls, 0) = {} /\ 0 \in 0 .. Len(ls)
  BY DEF Mapped, Firsts
<1>7. Turn(0)'
  BY <1>1, <1>3, <1>4, <1>5, <1>6 DEF Turn, Filled
<1> QED BY <1>1, <1>3, <1>4, <1>6, <1>7 DEF HeadersInv

\* A turn of the loop takes the next line, or stops there.
LEMMA HeadersTurn ==
  ASSUME HeadersInv, ReadHeader, input \in Heads, ProperHead(input)
  PROVE  HeadersInv'
<1>1. PICK g : g = GetHeader(text)
  OBVIOUS
<1>2. /\ input' = input /\ text' = g.rest
      /\ headers' = IF g.good /\ g.name # <<>> /\ g.value # <<>>
                    THEN Insert(headers, g.name, g.value) ELSE headers
      /\ phase' = IF g.good /\ g.name # <<>> /\ g.value # <<>>
                  THEN "headers" ELSE IF g.good THEN "done" ELSE "error"
  BY <1>1 DEF ReadHeader
<1>3. PICK ls \in Seq(String), b \in String : ls = input.lines /\ b = input.body
  BY ProperHeadType
<1>4. PICK k \in 0 .. Len(ls) : Turn(k)
  BY <1>3 DEF ReadHeader, HeadersInv
<1>5. /\ \A i \in 1 .. k : Text(ls[i]) # <<>>
      /\ headers = Mapped(ls, k) /\ text = Rest(After(ls, k), b)
  BY <1>3, <1>4 DEF Turn, Filled
<1>6. k \in Nat /\ Len(ls) \in Nat
  OBVIOUS
<1>7. CASE k < Len(ls)
  <2>1. PICK j : j = k + 1
    OBVIOUS
  <2>2. j \in 1 .. Len(ls) /\ j \in 0 .. Len(ls)
    BY <1>6, <1>7, <2>1
  <2>3. PICK l \in String : l = ls[j] /\ ProperLine(l)
    BY <1>3, <2>2, ProperHeadType
  <2>4. PICK r \in String : r = Rest(After(ls, j), b)
    BY <2>2, LinesLeft
  <2>5. text = LineThen(l, r)
    BY <1>5, <1>7, <2>1, <2>3, <2>4, LinesLeft
  <2>6. g.good /\ g.name = Name(l) /\ g.value = Text(l) /\ g.rest = r
    BY <1>1, <2>3, <2>5, ProperLineRead
  <2>7. g.name # <<>>
    BY <2>3, <2>6 DEF ProperLine
  <2>8. CASE Text(l) # <<>>
    <3>1. phase' = "headers" /\ headers' = Insert(headers, Name(l), Text(l)) /\ text' = r
      BY <1>2, <2>6, <2>7, <2>8
    <3>2. headers' = Mapped(ls, j)
      BY <1>5, <1>7, <2>1, <2>3, <3>1, InsertNext
    <3>3. \A i \in 1 .. j : Text(ls[i]) # <<>>
      <4>1. \A i \in 1 .. j : i = j \/ i \in 1 .. k
        BY <1>6, <2>1
      <4> QED BY <1>5, <2>3, <2>8, <4>1
    <3>4. Turn(j)'
      BY <1>2, <1>3, <2>4, <3>1, <3>2, <3>3 DEF Turn, Filled
    <3> QED BY <1>2, <1>3, <2>2, <3>1, <3>4 DEF HeadersInv
  <2>9. CASE Text(l) = <<>>
    <3>1. phase' = "done" /\ headers' = headers /\ text' = r
      BY <1>2, <2>6, <2>9
    <3>2. Stopped(k)'
      BY <1>2, <1>3, <1>5, <1>6, <1>7, <2>1, <2>3, <2>4, <2>9, <3>1 DEF Stopped, Filled
    <3> QED BY <1>2, <1>3, <3>1, <3>2 DEF HeadersInv
  <2> QED BY <2>8, <2>9
<1>8. CASE k = Len(ls)
  <2>1. PICK l \in String : l = <<>>
    <3>1. <<>> \in Seq(Char)
      BY EmptySeq
    <3> QED BY <3>1 DEF String
  <2>2. text = LineThen(l, b)
    BY <1>5, <1>8, <2>1, LinesLeft
  <2>3. g.good /\ g.name = Name(l) /\ g.rest = b
    BY <1>1, <2>1, <2>2, ProperLineRead
  <2>4. g.name = <<>>
    BY <2>1, <2>3, NoName
  <2>5. phase' = "done" /\ headers' = headers /\ text' = b
    BY <1>2, <2>3, <2>4
  <2>6. Stopped(k)'
    BY <1>2, <1>3, <1>5, <1>6, <1>8, <2>5 DEF Stopped, Filled
  <2> QED BY <1>2, <1>3, <2>5, <2>6 DEF HeadersInv
<1> QED BY <1>6, <1>7, <1>8

\* ... and after every step.
LEMMA HeadersStep ==
  SizeInv /\ StatusInv /\ HeadersInv /\ [Next]_vars => HeadersInv'
<1> SUFFICES ASSUME SizeInv, StatusInv, StatusInv', HeadersInv, [Next]_vars,
                    input' \in Heads, ProperHead(input')
             PROVE  HeadersInv'
  BY StatusStep DEF HeadersInv
<1>1. input' = input /\ input \in Heads /\ ProperHead(input)
  BY DEF Next, ReadStatusLine, ReadHeader, ReadChunkSize, vars
<1>2. CASE ReadStatusLine
  BY <1>1, <1>2, HeadersBegin
<1>3. CASE ReadHeader
  BY <1>1, <1>3, HeadersTurn
<1>4. CASE ReadChunkSize
  BY <1>1, <1>4 DEF ReadChunkSize, StatusInv
<1>5. CASE UNCHANGED vars
  BY <1>5 DEF vars, HeadersInv, Turn, Stopped, Filled
<1> QED BY <1>2, <1>3, <1>4, <1>5 DEF Next

\* The loop has stopped where HeadersRead has it stop.
LEMMA StoppedIsRead ==
  ASSUME input \in Heads, ProperHead(input), HeadersInv, phase = "done"
  PROVE  HeadersRead
<1>1. PICK ls \in Seq(String), b \in String : ls = input.lines /\ b = input.body
  BY ProperHeadType
<1>2. PICK k \in 0 .. Len(ls) : Stopped(k)
  BY <1>1 DEF HeadersInv
<1>3. /\ \A i \in 1 .. k : Text(ls[i]) # <<>>
      /\ headers = Mapped(ls, k)
      /\ k < Len(ls) => Text(ls[k + 1]) = <<>> /\ text = Rest(After(ls, k + 1), b)
      /\ k = Len(ls) => text = b
  BY <1>1, <1>2 DEF Stopped, Filled
<1>4. PICK stop : stop = Find(ls, 1, LAMBDA l : Text(l) = <<>>)
  OBVIOUS
<1>5. k \in Nat /\ Len(ls) \in Nat /\ stop = k + 1 /\ stop - 1 = k
  <2>1. stop = k + 1
    BY <1>3, <1>4, StopAt
  <2> QED BY <2>1
<1>6. PICK lines : lines = SubSeq(ls, 1, k)
  OBVIOUS
<1>7. lines \in Seq(String) /\ Len(lines) = k /\ \A i \in 1 .. k : lines[i] = ls[i]
  BY <1>5, <1>6, FirstOf
<1>8. DOMAIN lines = 1 .. k
  BY <1>7
<1>9. PICK rest : rest = IF stop > Len(ls) THEN <<>> ELSE Lines(After(ls, stop)) \o CRLF
  OBVIOUS
<1>10. text = rest \o b
  <2>1. CASE k < Len(ls)
    <3>1. rest = Lines(After(ls, stop)) \o CRLF
      BY <1>5, <1>9, <2>1
    <3> QED BY <1>3, <1>5, <2>1, <3>1 DEF Rest
  <2>2. CASE k = Len(ls)
    <3>1. rest = <<>>
      BY <1>5, <1>9, <2>2
    <3>2. <<>> \o b = b
      BY ConcatEmptySeq DEF String
    <3> QED BY <1>3, <2>2, <3>1, <3>2
  <2> QED BY <1>5, <2>1, <2>2
<1>11. ASSUME NEW j \in 1 .. k
       PROVE  LET first == Min({i \in 1 .. k : SameLetters(Name(lines[i]), Name(lines[j]))})
              IN ValuesOf(headers, Name(lines[j])) = {Text(lines[first])}
  <2>1. PICK first : first = Min({i \in 1 .. k : SameLetters(Name(ls[i]), Name(ls[j]))})
    OBVIOUS
  <2>2. {i \in 1 .. k : SameLetters(Name(lines[i]), Name(lines[j]))}
           = {i \in 1 .. k : SameLetters(Name(ls[i]), Name(ls[j]))}
    BY <1>7
  <2>3. ValuesOf(headers, Name(ls[j])) = {Text(ls[first])}
    <3>1. ValuesOf(Mapped(ls, k), Name(ls[j])) = {Text(ls[first])}
      BY <2>1, FoundIsFirst, ZenonT(30)
    <3> QED BY <1>3, <3>1
  <2>4. first \in 1 .. k
    <3> DEFINE D == {i \in 1 .. k : SameLetters(Name(ls[i]), Name(ls[j]))}
    <3>1. D \in SUBSET Nat /\ j \in D
      BY DEF SameLetters
    <3>2. D # {}
      BY <3>1
    <3>3. \A i \in D : i \in 1 .. k
      OBVIOUS
    <3>4. Min(D) \in D
      <4> HIDE DEF D
      <4> QED BY <3>1, <3>2, MinIsLeast
    <3> QED BY <2>1, <3>3, <3>4, Zenon
  <2>5. lines[j] = ls[j] /\ lines[first] = ls[first]
    BY <1>7, <2>4
  <2> QED BY <2>1, <2>2, <2>3, <2>5
<1>12. ASSUME NEW h \in headers
       PROVE  \E i \in 1 .. k : h = <<Name(lines[i]), Text(lines[i])>>
  BY <1>3, <1>7 DEF Mapped, Firsts
<1> DEFINE s == Find(input.lines, 1, LAMBDA l : Text(l) = <<>>)
           m == SubSeq(input.lines, 1, s - 1)
           r == IF s > Len(input.lines) THEN <<>> ELSE Lines(After(input.lines, s)) \o CRLF
<1>13. s = stop
  BY <1>1, <1>4
<1>14. m = lines /\ r = rest
  <2> HIDE DEF s
  <2> QED BY <1>1, <1>5, <1>6, <1>9, <1>13
<1>15. /\ text = r \o input.body
       /\ \A j \in DOMAIN m :
            LET first == Min({i \in DOMAIN m : SameLetters(Name(m[i]), Name(m[j]))})
            IN ValuesOf(headers, Name(m[j])) = {Text(m[first])}
       /\ \A h \in headers : \E i \in DOMAIN m : h = <<Name(m[i]), Text(m[i])>>
  <2> HIDE DEF m, r
  <2>1. text = r \o input.body
    BY <1>1, <1>10, <1>14
  <2>2. \A j \in DOMAIN m :
          LET first == Min({i \in DOMAIN m : SameLetters(Name(m[i]), Name(m[j]))})
          IN ValuesOf(headers, Name(m[j])) = {Text(m[first])}
    BY <1>8, <1>11, <1>14, Zenon
  <2>3. \A h \in headers : \E i \in DOMAIN m : h = <<Name(m[i]), Text(m[i])>>
    BY <1>8, <1>12, <1>14, Zenon
  <2> QED BY <2>1, <2>2, <2>3, Zenon
<1> QED BY <1>15, Zenon DEF HeadersRead, ValuesOf

\* Of every proper head, with lines of any number and length, the map of headers
\* holds, under any case of the name, the value of the first line of each name,
\* and no byte after the head is taken (HeadersRead, http_stream.h:195-205).
THEOREM HeadersAreRead == Spec => []HeadersRead
<1>1. Init => HeadersInv
  BY HeadersInit
<1>2. SizeInv /\ StatusInv /\ HeadersInv /\ [Next]_vars => HeadersInv'
  BY HeadersStep
<1>3. SizeInv /\ StatusInv /\ HeadersInv => HeadersRead
  <2> SUFFICES ASSUME SizeInv, StatusInv, HeadersInv, phase \in {"done", "error"},
                      "lines" \in DOMAIN input, ProperHead(input)
               PROVE  HeadersRead
    BY DEF HeadersRead
  <2>1. input \in Heads
    BY DEF SizeInv
  <2>2. phase = "done"
    BY <2>1 DEF HeadersInv
  <2> QED BY <2>1, <2>2, StoppedIsRead
<1> QED BY <1>1, <1>2, <1>3, StatusCorrect, PTL DEF Spec

================================================================================
