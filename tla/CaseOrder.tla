------------------------------- MODULE CaseOrder -------------------------------
(* ci_less (src/src/utils.h:18-30), the order of the map Response::headers():   *)
(* strings are sequences of character codes.                                    *)
EXTENDS Naturals, Sequences

Char == 0 .. 255
String == Seq(Char)

\* tolower in the "C" locale.
Lower(c) == IF c \in 65 .. 90 THEN c + 32 ELSE c

\* Mutant: the strings are compared with case.
CiLessCased(s, t) ==
  \E k \in 1 .. Len(t) :
    /\ k <= Len(s) + 1
    /\ \A i \in 1 .. k - 1 : s[i] = t[i]
    /\ k <= Len(s) => s[k] < t[k]

\* std::lexicographical_compare by nocase_compare: s and t agree up to some
\* position, where s has ended or has the lesser character.
CiLess(s, t) ==
  \E k \in 1 .. Len(t) :
    /\ k <= Len(s) + 1
    /\ \A i \in 1 .. k - 1 : Lower(s[i]) = Lower(t[i])
    /\ k <= Len(s) => Lower(s[k]) < Lower(t[k])

\* What std::map takes for the same key.
SameKey(s, t) == ~CiLess(s, t) /\ ~CiLess(t, s)

\* What the map is meant to take for the same key: equal but for case.
SameLetters(s, t) ==
  /\ Len(s) = Len(t)
  /\ \A i \in 1 .. Len(s) : Lower(s[i]) = Lower(t[i])
===============================================================================
