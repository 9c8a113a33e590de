------------------------ MODULE SessionRequestProofs ------------------------
(***************************************************************************)
(* Theorems about SessionRequest for any clients and any requests of the   *)
(* types that RequestsAssumption gives them.                               *)
(***************************************************************************)
EXTENDS SessionRequest, SequenceTheorems, FiniteSetTheorems, WellFoundedInduction, TLAPS

USE DEF vars

-----------------------------------------------------------------------------
(* What errors are answered with and counted as.                           *)

LEMMA Statuses ==
    /\ ErrorPayload("Error").status = 500
    /\ ErrorPayload("JweDecrypter").status = 403
    /\ ErrorPayload("SessionValidation").status = 400
    /\ ErrorPayload("InvalidRequest").status = 400
<1>1. /\ "Error" \notin DOMAIN BaseErrors
      /\ {"JweDecrypter", "SessionValidation", "InvalidRequest"} \subseteq DOMAIN BaseErrors
      /\ BaseErrors["JweDecrypter"].status = 403
      /\ BaseErrors["SessionValidation"].status = 400
      /\ BaseErrors["InvalidRequest"].status = 400
  BY DEF BaseErrors, Answer
<1> QED BY <1>1 DEF ErrorPayload, IsBaseError

\* Two metrics, one after the other.
LEMMA TwoMetrics ==
    ASSUME NEW a, NEW b
    PROVE  LET both == <<a>> \o <<b>>
           IN  DOMAIN both = 1 .. 2 /\ both[1] = a /\ both[2] = b
<1> DEFINE x == <<a>>
           y == <<b>>
<1>1. /\ x \in Seq({a, b}) /\ Len(x) = 1 /\ x[1] = a
      /\ y \in Seq({a, b}) /\ Len(y) = 1 /\ y[1] = b
  OBVIOUS
<1> HIDE DEF x, y
<1>2. /\ x \o y \in Seq({a, b}) /\ Len(x \o y) = 2
      /\ \A i \in 1 .. 2 : (x \o y)[i] = IF i <= 1 THEN x[i] ELSE y[i - 1]
  BY <1>1, ConcatProperties
<1>3. DOMAIN (x \o y) = 1 .. 2
  BY <1>2
<1>4. (x \o y)[1] = x[1] /\ (x \o y)[2] = y[1]
  BY <1>2
<1> QED BY <1>1, <1>3, <1>4 DEF x, y

Created(value) == Metric("session_created", value)

LEMMA OneMetric ==
    ASSUME NEW value \in {0, 1}
    PROVE  /\ CountedAs(<<Created(value)>>, "session_created", value)
           /\ Metric("jwt_expired", 1) \notin Range(<<Created(value)>>)
           /\ Metric("jwt_verification_failed", 1) \notin Range(<<Created(value)>>)
<1>1. /\ Created(value) # Metric("jwt_expired", 1)
      /\ Created(value) # Metric("jwt_verification_failed", 1)
      /\ Created(value).name = "session_created"
  BY DEF Created, Metric
<1>2. DOMAIN <<Created(value)>> = {1} /\ <<Created(value)>>[1] = Created(value)
  OBVIOUS
<1> QED BY <1>1, <1>2 DEF CountedAs, Range, Created

\* The error middleware counts a failed session once, and a failed validation as
\* expired exactly if its details say so and as a failed verification if not.
LEMMA MiddlewareCounts ==
    ASSUME NEW error, NEW details
    PROVE  LET counted == ErrorMetrics("session_created", error, details)
           IN  /\ CountedAs(counted, "session_created", 0)
               /\ Metric("jwt_expired", 1) \in Range(counted) <=>
                    error = "SessionValidation" /\ details = "ERR_JWT_EXPIRED"
               /\ Metric("jwt_verification_failed", 1) \in Range(counted) <=>
                    error = "SessionValidation" /\ details # "ERR_JWT_EXPIRED"
<1> DEFINE failed  == Metric("session_created", 0)
           expired == Metric("jwt_expired", 1)
           bad     == Metric("jwt_verification_failed", 1)
<1>1. /\ failed.name = "session_created"
      /\ expired.name # "session_created" /\ bad.name # "session_created"
      /\ failed # expired /\ failed # bad /\ bad # expired
  BY DEF Metric
<1>2. ASSUME NEW other, other.name # "session_created"
      PROVE  LET counted == <<failed>> \o <<other>>
             IN  /\ CountedAs(counted, "session_created", 0)
                 /\ Range(counted) = {failed, other}
  <2> DEFINE counted == <<failed>> \o <<other>>
  <2>1. DOMAIN counted = 1 .. 2 /\ counted[1] = failed /\ counted[2] = other
    <3> HIDE DEF failed
    <3> QED BY TwoMetrics
  <2> HIDE DEF counted
  <2>2. DOMAIN counted = {1, 2} /\ 1 # 2
    BY <2>1
  <2>3. CountedAs(counted, "session_created", 0)
    BY <1>1, <1>2, <2>1, <2>2 DEF CountedAs
  <2>4. Range(counted) = {failed, other}
    <3> HIDE DEF failed
    <3> QED BY <2>1, <2>2 DEF Range
  <2> QED BY <2>3, <2>4 DEF counted
<1>3. <<failed>> \o <<>> = <<failed>>
  OBVIOUS
<1>4. /\ CountedAs(<<failed>>, "session_created", 0)
      /\ expired \notin Range(<<failed>>) /\ bad \notin Range(<<failed>>)
  BY OneMetric DEF Created
<1> DEFINE counted == ErrorMetrics("session_created", error, details)
<1>5. counted = <<failed>> \o (IF error = "SessionValidation"
                               THEN IF details = "ERR_JWT_EXPIRED"
                                    THEN <<expired>> ELSE <<bad>>
                               ELSE <<>>)
  BY DEF ErrorMetrics
<1> HIDE DEF failed, expired, bad, counted
<1>6. CASE error = "SessionValidation" /\ details = "ERR_JWT_EXPIRED"
  <2>1. counted = <<failed>> \o <<expired>>
    BY <1>5, <1>6
  <2> QED BY <1>1, <1>2, <1>6, <2>1 DEF counted, expired, bad
<1>7. CASE error = "SessionValidation" /\ details # "ERR_JWT_EXPIRED"
  <2>1. counted = <<failed>> \o <<bad>>
    BY <1>5, <1>7
  <2> QED BY <1>1, <1>2, <1>7, <2>1 DEF counted, expired, bad
<1>8. CASE error # "SessionValidation"
  <2>1. counted = <<failed>>
    BY <1>3, <1>5, <1>8
  <2> QED BY <1>4, <1>8, <2>1 DEF counted, expired, bad
<1> QED BY <1>6, <1>7, <1>8

-----------------------------------------------------------------------------
(* The postal code at the end of an address.                               *)

LEMMA Reversed ==
    ASSUME NEW Char, NEW q \in Seq(Char)
    PROVE  /\ Reverse(q) \in Seq(Char) /\ Len(Reverse(q)) = Len(q)
           /\ \A j \in 1 .. Len(q) : Reverse(q)[j] = q[Len(q) - j + 1]
<1>1. Len(q) \in Nat /\ \A j \in 1 .. Len(q) : q[Len(q) - j + 1] \in Char
  BY LenProperties, ElementOfSeq
<1>2. [j \in 1 .. Len(q) |-> q[Len(q) - j + 1]] \in [1 .. Len(q) -> Char]
  BY <1>1
<1> QED BY <1>1, <1>2, SeqDef, LenProperties, IsASeq DEF Reverse

LEMMA ElementsOfSuffix ==
    ASSUME NEW Char, NEW s \in Seq(Char), NEW t \in Seq(Char), IsSuffix(s, t)
    PROVE  /\ Len(s) <= Len(t)
           /\ \A i \in 1 .. Len(s) : t[Len(t) - Len(s) + i] = s[i]
<1> DEFINE back(q) == Reverse(q)
<1>1. \A q \in Seq(Char) :
          /\ back(q) \in Seq(Char) /\ Len(back(q)) = Len(q)
          /\ \A j \in 1 .. Len(q) : back(q)[j] = q[Len(q) - j + 1]
  BY Reversed
<1>2. Len(s) \in Nat /\ Len(t) \in Nat
  OBVIOUS
<1>3. /\ Len(s) <= Len(t)
      /\ SubSeq(back(s), 1, Len(s)) = SubSeq(back(t), 1, Len(s))
  BY <1>1 DEF IsSuffix, IsPrefix
<1>4. \A j \in 1 .. Len(s) : back(s)[j] \in Char /\ back(t)[j] \in Char
  BY <1>1, <1>2, <1>3, ElementOfSeq
<1> HIDE DEF back
<1>5. \A j \in 1 .. Len(s) :
          /\ SubSeq(back(s), 1, Len(s))[j] = back(s)[j]
          /\ SubSeq(back(t), 1, Len(s))[j] = back(t)[j]
  BY <1>2, <1>4, SubSeqProperties
<1>6. ASSUME NEW i \in 1 .. Len(s)
      PROVE  t[Len(t) - Len(s) + i] = s[i]
  <2> DEFINE j == Len(s) - i + 1
  <2>1. /\ j \in 1 .. Len(s) /\ j \in 1 .. Len(t)
        /\ Len(s) - j + 1 = i /\ Len(t) - j + 1 = Len(t) - Len(s) + i
    BY <1>2, <1>3
  <2> HIDE DEF j
  <2>2. back(s)[j] = back(t)[j]
    BY <1>3, <1>5, <2>1
  <2> QED BY <1>1, <2>1, <2>2
<1> QED BY <1>3, <1>6

\* A text that has the elements of another at its end ends in it.
LEMMA SuffixOfElements ==
    ASSUME NEW Char, NEW s \in Seq(Char), NEW t \in Seq(Char), Len(s) <= Len(t),
           \A i \in 1 .. Len(s) : t[Len(t) - Len(s) + i] = s[i]
    PROVE  IsSuffix(s, t)
<1> DEFINE back(q) == Reverse(q)
           n       == Len(s)
           m       == Len(t)
<1>1. /\ back(s) \in Seq(Char) /\ Len(back(s)) = n
      /\ back(t) \in Seq(Char) /\ Len(back(t)) = m
      /\ \A j \in 1 .. n : back(s)[j] = s[n - j + 1]
      /\ \A j \in 1 .. m : back(t)[j] = t[m - j + 1]
  BY Reversed
<1>2. n \in Nat /\ m \in Nat /\ n <= m /\ 1 \in Int /\ n - 1 + 1 = n
  OBVIOUS
<1>3. \A j \in 1 .. n : back(s)[j] = back(t)[j]
  <2> TAKE j \in 1 .. n
  <2>1. /\ n - j + 1 \in 1 .. n /\ m - n + (n - j + 1) = m - j + 1 /\ j \in 1 .. m
    BY <1>2
  <2> HIDE DEF back
  <2> QED BY <1>1, <2>1
<1> HIDE DEF back, n, m
<1>4. \A j \in 1 .. n : back(s)[j] \in Char /\ back(t)[j] \in Char
  BY <1>1, <1>2, ElementOfSeq
<1>5. /\ SubSeq(back(s), 1, n) \in Seq(Char) /\ Len(SubSeq(back(s), 1, n)) = n
      /\ SubSeq(back(t), 1, n) \in Seq(Char) /\ Len(SubSeq(back(t), 1, n)) = n
      /\ \A j \in 1 .. n : SubSeq(back(s), 1, n)[j] = back(s)[j]
      /\ \A j \in 1 .. n : SubSeq(back(t), 1, n)[j] = back(t)[j]
  <2>1. \A j \in 1 .. n : 1 + j - 1 = j
    BY <1>2
  <2>2. CASE n = 0
    BY <1>1, <1>2, <2>2, SubSeqProperties
  <2>3. CASE n # 0
    BY <1>2, <1>4, <2>1, <2>3, SubSeqProperties
  <2> QED BY <2>2, <2>3
<1>6. SubSeq(back(s), 1, n) = SubSeq(back(t), 1, n)
  BY <1>3, <1>5, SeqEqual
<1> QED BY <1>1, <1>2, <1>6 DEF IsSuffix, IsPrefix, back, n, m

\* Blanks before a and after b are all that is trimmed.
LEMMA Trimmed ==
    ASSUME NEW Char, NEW text \in Seq(Char),
           NEW a \in 1 .. Len(text), NEW b \in 1 .. Len(text), a <= b,
           text[a] # Space, text[b] # Space,
           \A i \in 1 .. Len(text) : i < a \/ i > b => text[i] = Space
    PROVE  Trim(text) = SubSeq(text, a, b)
<1> DEFINE kept == {i \in DOMAIN text : text[i] # Space}
<1>1. /\ a \in kept /\ b \in kept /\ kept \subseteq Int
      /\ \A i \in kept : a <= i /\ i <= b
  OBVIOUS
<1> HIDE DEF kept
<1>2. Min(kept) = a
  <2>1. \A x \in kept : (\A y \in kept : x =< y) <=> x = a
    BY <1>1
  <2> QED BY <1>1, <2>1 DEF Min
<1>3. Max(kept) = b
  <2>1. \A x \in kept : (\A y \in kept : x >= y) <=> x = b
    BY <1>1
  <2> QED BY <1>1, <2>1 DEF Max
<1>4. kept # {}
  BY <1>1
<1> QED BY <1>2, <1>3, <1>4 DEF Trim, kept

\* A text that is a code behind nothing but blanks is trimmed to the code.
LEMMA TrimmedToCode ==
    ASSUME NEW Char, NEW text \in Seq(Char), NEW code \in Seq(Char),
           NEW k \in Nat, Len(code) >= 1, Len(text) = k + Len(code),
           code[1] # Space, code[Len(code)] # Space,
           \A i \in 1 .. k : text[i] = Space,
           \A i \in 1 .. Len(code) : text[k + i] = code[i]
    PROVE  Trim(text) = code
<1> DEFINE n == Len(code)
<1>1. n \in Nat /\ n >= 1
  OBVIOUS
<1> HIDE DEF n
<1>2. /\ k + 1 \in 1 .. Len(text) /\ k + n \in 1 .. Len(text) /\ k + 1 <= k + n
      /\ text[k + 1] # Space /\ text[k + n] # Space
      /\ \A i \in 1 .. Len(text) : i < k + 1 \/ i > k + n => text[i] = Space
  BY <1>1 DEF n
<1>3. Trim(text) = SubSeq(text, k + 1, k + n)
  BY <1>2, Trimmed
<1>4. \A i \in k + 1 .. k + n : text[i] \in Char
  BY <1>1, <1>2, ElementOfSeq
<1> DEFINE from == k + 1
           to   == k + n
           cut  == SubSeq(text, from, to)
<1>5. /\ cut \in Seq(Char) /\ Len(cut) = n
      /\ \A i \in 1 .. n : cut[i] = text[k + i]
  <2>1. from \in Int /\ to \in Int /\ from <= to
    BY <1>1
  <2>1a. to - from + 1 = n
    BY <1>1
  <2>2. \A i \in from .. to : text[i] \in Char
    BY <1>4
  <2>3. \A i \in 1 .. n : from + i - 1 = k + i
    BY <1>1
  <2> HIDE DEF from, to
  <2>4. /\ cut \in Seq(Char) /\ Len(cut) = to - from + 1
        /\ \A i \in 1 .. to - from + 1 : cut[i] = text[from + i - 1]
    BY <2>1, <2>2, SubSeqProperties
  <2> QED BY <2>1, <2>1a, <2>3, <2>4
<1> HIDE DEF cut
<1>6. cut = code
  BY <1>5, SeqEqual DEF n
<1> QED BY <1>3, <1>6 DEF cut

LEMMA LeastOfSet ==
    ASSUME NEW T \in SUBSET Nat, T # {}
    PROVE  \E a \in T : \A i \in T : a <= i
<1>1. PICK a \in T : \A i \in T : <<i, a>> \notin OpToRel(<, Nat)
  BY NatLessThanWellFounded, WFMin
<1>2. \A i, j \in Nat : i < j => <<i, j>> \in OpToRel(<, Nat)
  BY DEF OpToRel
<1>3. \A i \in T : a \in Nat /\ i \in Nat /\ ~(i < a)
  BY <1>1, <1>2
<1> QED BY <1>3

\* A text that ends in a code is trimmed to one that does, and to the code
\* alone exactly if only blanks are in front of it.
LEMMA TrimmedEndsInCode ==
    ASSUME NEW Char, NEW text \in Seq(Char), NEW code \in Seq(Char),
           NEW k \in 0 .. 8, Len(code) >= 1, Len(text) = k + Len(code),
           code[1] # Space, code[Len(code)] # Space,
           \A i \in 1 .. Len(code) : text[k + i] = code[i]
    PROVE  /\ IsSuffix(code, Trim(text))
           /\ Trim(text) = code <=> \A i \in 1 .. k : text[i] = Space
<1> DEFINE n == Len(code)
           m == Len(text)
<1>1. n \in Nat /\ n >= 1 /\ k \in Nat /\ m = k + n
  OBVIOUS
<1> HIDE DEF n, m
<1>2. CASE \A i \in 1 .. k : text[i] = Space
  <2>1. Trim(text) = code
    BY <1>1, <1>2, TrimmedToCode DEF n
  <2>2. IsSuffix(code, code)
    <3>1. Len(code) <= Len(code) /\ \A i \in 1 .. Len(code) : code[Len(code) - Len(code) + i] = code[i]
      OBVIOUS
    <3> QED BY <3>1, SuffixOfElements
  <2> QED BY <1>2, <2>1, <2>2
<1>3. CASE \E i \in 1 .. k : text[i] # Space
  <2> DEFINE clear == {i \in 1 .. k : text[i] # Space}
  <2>1. PICK a \in clear : \A i \in clear : a <= i
    <3>1. clear \in SUBSET Nat /\ clear # {}
      BY <1>3
    <3> HIDE DEF clear
    <3> QED BY <3>1, LeastOfSet
  <2>2. /\ a \in 1 .. k /\ text[a] # Space
        /\ \A i \in 1 .. k : i < a => text[i] = Space
    <3>1. \A i \in 1 .. k : i < a => ~(a <= i)
      OBVIOUS
    <3> QED BY <2>1, <3>1
  <2> HIDE DEF clear
  <2>3. /\ a \in 1 .. Len(text) /\ m \in 1 .. Len(text) /\ a <= m /\ text[m] # Space
        /\ \A i \in 1 .. Len(text) : i < a \/ i > m => text[i] = Space
    <3>1. n \in 1 .. Len(code) /\ text[k + n] = code[n] /\ code[n] # Space
      BY <1>1 DEF n
    <3> QED BY <1>1, <2>2, <3>1 DEF m
  <2> DEFINE cut == SubSeq(text, a, m)
  <2>4. Trim(text) = cut
    BY <2>2, <2>3, Trimmed
  <2>5. /\ cut \in Seq(Char) /\ Len(cut) = m - a + 1
        /\ \A i \in 1 .. m - a + 1 : cut[i] = text[a + i - 1]
    <3>1. a \in Int /\ m \in Int /\ a <= m
      BY <1>1, <2>3
    <3>2. \A i \in a .. m : text[i] \in Char
      BY <2>3, <3>1, ElementOfSeq DEF m
    <3> QED BY <3>1, <3>2, SubSeqProperties
  <2> HIDE DEF cut
  <2>6. n < Len(cut) /\ Len(cut) - n + a - 1 = k
    BY <1>1, <2>2, <2>5
  <2>7. \A i \in 1 .. n : cut[Len(cut) - n + i] = code[i]
    <3> TAKE i \in 1 .. n
    <3>1. Len(cut) - n + i \in 1 .. m - a + 1 /\ a + (Len(cut) - n + i) - 1 = k + i
      BY <1>1, <2>2, <2>5, <2>6
    <3> QED BY <2>5, <3>1 DEF n
  <2>8. IsSuffix(code, cut)
    <3>1. Len(code) <= Len(cut) /\ \A i \in 1 .. Len(code) : cut[Len(cut) - Len(code) + i] = code[i]
      BY <1>1, <2>5, <2>6, <2>7 DEF n
    <3> QED BY <2>5, <3>1, SuffixOfElements
  <2>9. cut # code
    BY <2>5, <2>6 DEF n
  <2> QED BY <1>3, <2>4, <2>8, <2>9
<1> QED BY <1>2, <1>3

\* The last characters that extractPostalCode looks at, of a text that is not
\* taken for a code as it is.
LEMMA CodeInWindow ==
    ASSUME NEW Char, NEW text \in Seq(Char), NEW code \in Seq(Char),
           Len(text) > 6, Len(code) \in 1 .. 8, EndsIn(text, code)
    PROVE  LET window == IF Len(text) >= 8 THEN Slice(text, 8) ELSE text
               k      == Len(window) - Len(code)
           IN  /\ window \in Seq(Char) /\ Len(window) \in {7, 8} /\ k \in 0 .. 7
               /\ \A i \in 1 .. Len(code) : window[k + i] = code[i]
               /\ StandsFree(text, code) <=>
                    \A i \in 1 .. k : window[i] = Space \/ (window[i] = Comma /\ i = 1)
<1> DEFINE n      == Len(code)
           m      == Len(text)
           from   == IF m >= 8 THEN m - 8 ELSE 0
           window == IF Len(text) >= 8 THEN Slice(text, 8) ELSE text
           before == {i \in 1 .. m - n : i > m - 8}
<1>1. n \in 1 .. 8 /\ m \in Nat /\ m > 6 /\ n <= m /\ from \in Nat
  BY ElementsOfSuffix DEF EndsIn
<1>2. \A i \in 1 .. n : text[m - n + i] = code[i]
  BY ElementsOfSuffix DEF EndsIn
<1>3. /\ window \in Seq(Char) /\ Len(window) = m - from
      /\ \A i \in 1 .. m - from : window[i] = text[from + i]
  <2>1. CASE m >= 8
    <3> DEFINE first == m - 8 + 1
    <3>1. first \in Int /\ m \in Int /\ first <= m /\ m - first + 1 = 8 /\ from = m - 8
      BY <1>1, <2>1
    <3>2. \A i \in first .. m : text[i] \in Char
      BY <1>1, <2>1, ElementOfSeq
    <3>3. window = SubSeq(text, first, m)
      BY <2>1 DEF Slice
    <3>4. \A i \in 1 .. 8 : first + i - 1 = from + i
      <4> HIDE DEF from, m
      <4> QED BY <1>1, <3>1
    <3>5. m - from = 8
      BY <1>1, <3>1
    <3> HIDE DEF window, first, m, from
    <3>6. /\ window \in Seq(Char) /\ Len(window) = m - first + 1
          /\ \A i \in 1 .. m - first + 1 : window[i] = text[first + i - 1]
      BY <3>1, <3>2, <3>3, SubSeqProperties
    <3> QED BY <3>1, <3>4, <3>5, <3>6
  <2>2. CASE ~(m >= 8)
    BY <1>1, <2>2
  <2> QED BY <2>1, <2>2
<1> DEFINE k == Len(window) - n
<1>4. /\ Len(window) \in {7, 8} /\ k \in 0 .. 7 /\ k = m - from - n /\ from + k = m - n
      /\ m >= 8 => from = m - 8
      /\ ~(m >= 8) => from = 0 /\ m = 7
  <2> HIDE DEF window, n, m, before
  <2>1. CASE m >= 8
    BY <1>1, <1>3, <2>1
  <2>2. CASE ~(m >= 8)
    BY <1>1, <1>3, <2>2
  <2> QED BY <2>1, <2>2
<1>5. StandsFree(text, code) <=>
        \A i \in before : text[i] = Space \/ (text[i] = Comma /\ i - 1 \notin before)
  <2>1. ~(m <= 6)
    BY <1>1
  <2> QED BY <2>1 DEF StandsFree
<1> HIDE DEF window, n, m, from, k
<1>6. ASSUME NEW i \in 1 .. n
      PROVE  window[k + i] = code[i]
  <2>1. k + i \in 1 .. m - from /\ from + (k + i) = m - n + i
    BY <1>1, <1>4
  <2> QED BY <1>2, <1>3, <2>1
<1>7. ASSUME NEW i \in 1 .. k
      PROVE  /\ from + i \in before /\ text[from + i] = window[i]
             /\ (from + i) - 1 \notin before <=> i = 1
  <2>1. i \in 1 .. m - from /\ from + i \in before /\ ((from + i) - 1 \notin before <=> i = 1)
    BY <1>1, <1>4
  <2> QED BY <1>3, <2>1
<1>8. ASSUME NEW j \in before
      PROVE  \E i \in 1 .. k : j = from + i
  <2>1. j - from \in 1 .. k /\ j = from + (j - from)
    BY <1>1, <1>4
  <2> QED BY <2>1
<1> HIDE DEF before
<1>9. (\A i \in before : text[i] = Space \/ (text[i] = Comma /\ i - 1 \notin before))
      <=> \A i \in 1 .. k : window[i] = Space \/ (window[i] = Comma /\ i = 1)
  <2> DEFINE free(j) == text[j] = Space \/ (text[j] = Comma /\ j - 1 \notin before)
             open(i) == window[i] = Space \/ (window[i] = Comma /\ i = 1)
  <2>1. \A i \in 1 .. k : free(from + i) <=> open(i)
    <3> TAKE i \in 1 .. k
    <3>1. /\ text[from + i] = window[i]
          /\ (from + i) - 1 \notin before <=> i = 1
      BY <1>7
    <3> QED BY <3>1, Zenon
  <2> HIDE DEF free, open
  <2>2. (\A j \in before : free(j)) <=> \A i \in 1 .. k : open(i)
    BY <1>7, <1>8, <2>1
  <2> QED BY <2>2 DEF free, open
<1> QED BY <1>3, <1>4, <1>5, <1>6, <1>9 DEF window, k, n, m

\* Of an address of any length that ends in a code of up to eight characters,
\* whatever characters those are, extractPostalCode leaves a text that ends in
\* the code; and it leaves the code alone exactly if that stands free.
THEOREM PostalCodesAreExtracted ==
    ASSUME NEW Char, NEW text \in Seq(Char),
           NEW code \in Seq(Char), Len(code) \in 1 .. 8,
           code[1] \notin {Space, Comma}, code[Len(code)] # Space,
           EndsIn(text, code)
    PROVE  /\ EndsIn(ExtractPostalCode(text), code)
           /\ ExtractPostalCode(text) = code <=> StandsFree(text, code)
<1> DEFINE window == IF Len(text) >= 8 THEN Slice(text, 8) ELSE text
           rest   == Tail(window)
           n      == Len(code)
           k      == Len(window) - n
<1>1. n \in 1 .. 8 /\ Len(text) \in Nat /\ n <= Len(text)
  BY ElementsOfSuffix DEF EndsIn
<1>2. CASE Len(text) <= 6
  <2>1. ExtractPostalCode(text) = text
    BY <1>2 DEF ExtractPostalCode
  <2>2. StandsFree(text, code) <=> n = Len(text)
    <3>1. StandsFree(text, code) <=> {i \in 1 .. Len(text) - n : i > Len(text) - 8} = {}
      BY <1>2 DEF StandsFree
    <3>2. \A i \in 1 .. Len(text) - n : i > Len(text) - 8
      BY <1>1, <1>2
    <3>3. n # Len(text) => 1 \in 1 .. Len(text) - n
      BY <1>1
    <3>4. n = Len(text) => 1 .. Len(text) - n = {}
      BY <1>1
    <3> HIDE DEF n
    <3> QED BY <3>1, <3>2, <3>3, <3>4
  <2>3. n = Len(text) => text = code
    <3>1. \A i \in 1 .. n : text[Len(text) - n + i] = code[i]
      BY ElementsOfSuffix DEF EndsIn
    <3>2. ASSUME n = Len(text), NEW i \in 1 .. n
          PROVE  text[i] = code[i]
      <4>1. Len(text) - n + i = i
        BY <1>1, <3>2
      <4> QED BY <3>1, <4>1
    <3> QED BY <3>2, SeqEqual
  <2> QED BY <2>1, <2>2, <2>3
<1>3. CASE Len(text) > 6
  <2>1. /\ window \in Seq(Char) /\ Len(window) \in {7, 8} /\ k \in 0 .. 7
        /\ \A i \in 1 .. n : window[k + i] = code[i]
        /\ StandsFree(text, code) <=>
             \A i \in 1 .. k : window[i] = Space \/ (window[i] = Comma /\ i = 1)
    BY <1>3, CodeInWindow
  <2>2. ExtractPostalCode(text) = Trim(IF window[1] = Comma THEN rest ELSE window)
    <3>1. ~(Len(text) <= 6)
      BY <1>1, <1>3
    <3> QED BY <3>1 DEF ExtractPostalCode
  <2>3. k \in Int /\ Len(window) = k + n
    <3> HIDE DEF window
    <3> QED BY <1>1, <2>1
  <2> HIDE DEF window, k
  <2>4. /\ rest \in Seq(Char) /\ Len(rest) = k + n - 1
        /\ \A i \in 1 .. k + n - 1 : rest[i] = window[i + 1]
    <3>1. window # <<>>
      BY <2>1
    <3>2. /\ rest \in Seq(Char) /\ Len(rest) = Len(window) - 1
          /\ \A i \in 1 .. Len(rest) : rest[i] = window[i + 1]
      BY <2>1, <3>1, HeadTailProperties
    <3> HIDE DEF rest
    <3> QED BY <2>3, <3>2
  <2> HIDE DEF rest
  <2>5. Space # Comma
    BY DEF Space, Comma
  <2>6. CASE window[1] = Comma
    <3>1. k \in 1 .. 7
      <4>1. k = 0 => window[1] = code[1]
        BY <1>1, <2>1
      <4> QED BY <2>1, <2>6, <4>1
    <3> DEFINE j == k - 1
    <3>2. /\ j \in 0 .. 8 /\ n >= 1 /\ Len(rest) = j + n
          /\ \A i \in 1 .. n : rest[j + i] = code[i]
      <4>1. \A i \in 1 .. n : j + i \in 1 .. k + n - 1 /\ j + i + 1 = k + i
        BY <1>1, <3>1
      <4> QED BY <1>1, <2>1, <2>4, <3>1, <4>1
    <3>3. (\A i \in 1 .. j : rest[i] = Space)
          <=> \A i \in 1 .. k : window[i] = Space \/ (window[i] = Comma /\ i = 1)
      <4>1. ASSUME NEW i \in 1 .. j
            PROVE  rest[i] = window[i + 1] /\ i + 1 \in 1 .. k /\ i + 1 # 1
        BY <1>1, <2>4, <3>1
      <4>2. ASSUME NEW i \in 1 .. k, i # 1
            PROVE  i - 1 \in 1 .. j /\ rest[i - 1] = window[i]
        <5>1. i - 1 \in 1 .. j /\ i - 1 + 1 = i
          BY <3>1, <4>2
        <5> QED BY <4>1, <5>1
      <4> HIDE DEF j
      <4> QED BY <2>6, <4>1, <4>2
    <3> HIDE DEF j
    <3>4. /\ IsSuffix(code, Trim(rest))
          /\ Trim(rest) = code <=> \A i \in 1 .. j : rest[i] = Space
      BY <2>4, <3>2, TrimmedEndsInCode
    <3> QED BY <2>1, <2>2, <2>6, <3>3, <3>4 DEF EndsIn
  <2>7. CASE window[1] # Comma
    <3>1. /\ k \in 0 .. 8 /\ n >= 1 /\ window \in Seq(Char) /\ Len(window) = k + n
          /\ \A i \in 1 .. n : window[k + i] = code[i]
      BY <1>1, <2>1, <2>3
    <3>2. /\ IsSuffix(code, Trim(window))
          /\ Trim(window) = code <=> \A i \in 1 .. k : window[i] = Space
      BY <3>1, TrimmedEndsInCode
    <3> QED BY <2>1, <2>2, <2>7, <3>2 DEF EndsIn
  <2> QED BY <2>6, <2>7
<1> QED BY <1>1, <1>2, <1>3

LEMMA LongBlankAddress ==
    ASSUME NEW text \in Seq({Space}), Len(text) > 6
    PROVE  ExtractPostalCode(text) = <<>>
<1> DEFINE suffix == IF Len(text) >= 8 THEN Slice(text, 8) ELSE text
<1>1. ASSUME NEW t \in Seq({Space})
      PROVE  Trim(t) = <<>>
  <2>1. {i \in DOMAIN t : t[i] # Space} = {}
    BY <1>1, ElementOfSeq, LenProperties
  <2> QED BY <2>1 DEF Trim
<1>2. suffix \in Seq({Space}) /\ suffix # <<>>
  <2>1. CASE Len(text) >= 8
    <3> DEFINE from == Len(text) - 8 + 1
               to   == Len(text)
    <3>1. /\ from \in Int /\ to \in Int /\ from <= to /\ to - from + 1 = 8
          /\ \A i \in from .. to : i \in 1 .. Len(text)
      BY <2>1
    <3>2. \A i \in from .. to : text[i] \in {Space}
      BY <3>1, ElementOfSeq
    <3>3. suffix = SubSeq(text, from, to)
      BY <2>1 DEF Slice
    <3> HIDE DEF suffix, from, to
    <3>4. suffix \in Seq({Space}) /\ Len(suffix) = to - from + 1
      BY <3>1, <3>2, <3>3, SubSeqProperties
    <3> QED BY <3>1, <3>4
  <2>2. CASE ~(Len(text) >= 8)
    BY <2>2
  <2> QED BY <2>1, <2>2
<1>3. suffix[1] # Comma
  <2>1. Space # Comma
    BY DEF Space, Comma
  <2>2. suffix[1] \in {Space}
    <3> HIDE DEF suffix
    <3>1. Len(suffix) \in Nat /\ Len(suffix) # 0
      BY <1>2
    <3> QED BY <1>2, <3>1, ElementOfSeq
  <2> HIDE DEF suffix
  <2> QED BY <2>1, <2>2
<1>4. ExtractPostalCode(text) = Trim(IF suffix[1] = Comma THEN Tail(suffix) ELSE suffix)
  <2>1. ~(Len(text) <= 6)
    OBVIOUS
  <2> QED BY <2>1 DEF ExtractPostalCode
<1> HIDE DEF suffix
<1> QED BY <1>1, <1>2, <1>3, <1>4

\* Of an address of blanks it leaves nothing, however long that is, unless there
\* are one to six: those it takes for a code and leaves as they are.
THEOREM BlankAddresses ==
    ASSUME NEW text, text \in Seq(Range(text)), IsBlank(text)
    PROVE  ExtractPostalCode(text) = IF IsShortBlank(text) THEN text ELSE <<>>
<1>1. text \in Seq({Space})
  <2>1. Range(text) \subseteq {Space}
    BY DEF IsBlank
  <2> QED BY <2>1, SeqMonotonic
<1>2. Len(text) \in Nat
  BY <1>1, LenProperties
<1> DEFINE n == Len(text)
<1>3. /\ n \in Nat /\ n <= 6 => n = 0 \/ n \in 1 .. 6
      /\ n > 6 => n \notin 1 .. 6
  <2> HIDE DEF n
  <2>1. n \in Nat
    BY <1>2 DEF n
  <2> QED BY <2>1
<1>4. CASE Len(text) <= 6
  <2>1. ExtractPostalCode(text) = text
    BY <1>4 DEF ExtractPostalCode
  <2>2. Len(text) = 0 => text = <<>>
    BY <1>1, EmptySeq
  <2>3. IsShortBlank(text) <=> Len(text) \in 1 .. 6
    BY Zenon DEF IsShortBlank
  <2>4. Len(text) = 0 \/ Len(text) \in 1 .. 6
    BY <1>2, <1>3, <1>4
  <2>5. Len(text) = 0 => Len(text) \notin 1 .. 6
    OBVIOUS
  <2> QED BY <2>1, <2>2, <2>3, <2>4, <2>5, Zenon
<1>5. CASE Len(text) > 6
  <2>1. ExtractPostalCode(text) = <<>>
    BY <1>1, <1>5, LongBlankAddress
  <2>2. ~IsShortBlank(text)
    <3>1. Len(text) \notin 1 .. 6
      BY <1>3, <1>5
    <3> QED BY <3>1, Zenon DEF IsShortBlank
  <2> QED BY <2>1, <2>2
<1> QED BY <1>1, <1>4, <1>5

\* What is kept of a finite list is finite.
LEMMA Finite ==
    ASSUME NEW codes, NEW n \in Nat, DOMAIN codes = 1 .. n, NEW T \in SUBSET DOMAIN codes
    PROVE  IsFiniteSet(T) /\ Cardinality(T) \in Nat
<1>1. IsFiniteSet(1 .. n)
  BY FS_Interval
<1> QED BY <1>1, FS_Subset, FS_CardinalityType

\* filter: the codes that are there keep their order, and none is lost.
LEMMA FilterKeeps ==
    ASSUME NEW codes, NEW n \in Nat, DOMAIN codes = 1 .. n
    PROVE  LET kept == {i \in DOMAIN codes : codes[i] # <<>>}
               list == NonEmpty(codes)
           IN  /\ DOMAIN list = 1 .. Cardinality(kept)
               /\ Cardinality(kept) \in Nat
               /\ \E place \in [DOMAIN list -> kept] :
                      /\ \A k, l \in DOMAIN list : k < l => place[k] < place[l]
                      /\ \A i \in kept : \E k \in DOMAIN list : place[k] = i
                      /\ \A k \in DOMAIN list : list[k] = codes[place[k]]
<1> DEFINE kept     == {i \in DOMAIN codes : codes[i] # <<>>}
           upTo(i)  == {j \in kept : j <= i}
           size     == Cardinality(kept)
           rank     == [i \in kept |-> Cardinality(upTo(i))]
           at(k) == CHOOSE i \in kept : Cardinality(upTo(i)) = k
           place    == [k \in 1 .. size |-> at(k)]
           list     == NonEmpty(codes)
<1>1. kept \in SUBSET DOMAIN codes /\ kept \subseteq Int
  OBVIOUS
<1>2. IsFiniteSet(kept) /\ size \in Nat
  BY <1>1, Finite
<1>3. \A i \in kept : /\ upTo(i) \in SUBSET kept /\ IsFiniteSet(upTo(i))
                      /\ Cardinality(upTo(i)) \in 1 .. size
  <2> SUFFICES ASSUME NEW i \in kept
               PROVE  /\ upTo(i) \in SUBSET kept /\ IsFiniteSet(upTo(i))
                      /\ Cardinality(upTo(i)) \in 1 .. size
    OBVIOUS
  <2>1. upTo(i) \in SUBSET kept /\ i \in upTo(i) /\ upTo(i) # {}
    BY <1>1
  <2> HIDE DEF upTo, kept
  <2>2. IsFiniteSet(upTo(i)) /\ Cardinality(upTo(i)) <= size
    BY <1>2, <2>1, FS_Subset
  <2>3. Cardinality(upTo(i)) \in Nat /\ Cardinality(upTo(i)) # 0
    BY <2>1, <2>2, FS_CardinalityType, FS_EmptySet
  <2> QED BY <1>2, <2>1, <2>2, <2>3
\* Of two places, the lower has fewer at or below it.
<1>4. \A i, j \in kept : i < j => rank[i] < rank[j]
  <2> SUFFICES ASSUME NEW i \in kept, NEW j \in kept, i < j
               PROVE  Cardinality(upTo(i)) < Cardinality(upTo(j))
    OBVIOUS
  <2>1. upTo(i) \in SUBSET upTo(j) /\ j \in upTo(j) /\ j \notin upTo(i)
    BY <1>1
  <2> HIDE DEF upTo, kept
  <2>2. IsFiniteSet(upTo(j)) /\ Cardinality(upTo(i)) \in Nat /\ Cardinality(upTo(j)) \in Nat
    BY <1>3, FS_CardinalityType
  <2>3. /\ Cardinality(upTo(i)) <= Cardinality(upTo(j))
        /\ Cardinality(upTo(i)) # Cardinality(upTo(j))
    BY <2>1, <2>2, FS_Subset
  <2> QED BY <2>2, <2>3
<1>5. rank \in Injection(kept, 1 .. size)
  <2>1. rank \in [kept -> 1 .. size]
    BY <1>3
  <2>2. \A i, j \in kept : rank[i] = rank[j] => i = j
    <3> HIDE DEF rank, kept, size
    <3>1. \A i \in kept : rank[i] \in Int
      BY <2>1
    <3>2. \A i, j \in kept : i < j \/ j < i \/ i = j
      BY <1>1
    <3> QED BY <1>4, <3>1, <3>2
  <2> HIDE DEF rank, kept, size
  <2> QED BY <2>1, <2>2 DEF Injection, IsInjective
<1>6. rank \in Surjection(kept, 1 .. size)
  <2>1. IsFiniteSet(1 .. size) /\ Cardinality(1 .. size) = size
    <3> HIDE DEF size
    <3>1. size \in Int /\ 1 \in Int
      BY <1>2
    <3>2. IsFiniteSet(1 .. size) /\ Cardinality(1 .. size) = IF 1 > size THEN 0 ELSE size - 1 + 1
      BY <3>1, FS_Interval
    <3> QED BY <1>2, <3>2
  <2> HIDE DEF rank, kept, size
  <2>2. Cardinality(kept) = Cardinality(1 .. size)
    BY <2>1 DEF size
  <2> QED BY <1>5, <2>1, <2>2, FS_Injection
<1>7. \A k \in 1 .. size : at(k) \in kept /\ rank[at(k)] = k
  <2> TAKE k \in 1 .. size
  <2>1. \E i \in kept : rank[i] = k
    <3> HIDE DEF rank, kept, size
    <3> QED BY <1>6 DEF Surjection
  <2>2. \E i \in kept : Cardinality(upTo(i)) = k
    BY <2>1
  <2>3. at(k) \in kept /\ Cardinality(upTo(at(k))) = k
    BY <2>2
  <2> QED BY <2>3
<1>8. list = [k \in 1 .. size |-> codes[at(k)]]
  BY DEF NonEmpty
<1>9. DOMAIN list = 1 .. size
  BY <1>8
<1> HIDE DEF list, at, rank, size, kept
<1>10. /\ place \in [DOMAIN list -> kept]
       /\ \A k \in DOMAIN list : list[k] = codes[place[k]] /\ rank[place[k]] = k
  BY <1>7, <1>8, <1>9
<1> HIDE DEF place
<1>11. ASSUME NEW k \in DOMAIN list, NEW l \in DOMAIN list, k < l
       PROVE  place[k] < place[l]
  <2>1. /\ place[k] \in kept /\ place[l] \in kept
        /\ rank[place[k]] = k /\ rank[place[l]] = l
    BY <1>10
  <2>2. ~(place[l] < place[k]) /\ place[k] # place[l]
    BY <1>4, <1>9, <1>2, <1>11, <2>1
  <2> QED BY <1>1, <2>1, <2>2
<1>12. ASSUME NEW i \in kept
       PROVE  \E k \in DOMAIN list : place[k] = i
  <2>1. rank[i] \in DOMAIN list /\ rank[i] \in 1 .. size
    BY <1>5, <1>9 DEF Injection
  <2>2. rank[place[rank[i]]] = rank[i] /\ place[rank[i]] \in kept
    BY <1>10, <2>1
  <2>3. place[rank[i]] = i
    BY <1>5, <2>2 DEF Injection, IsInjective
  <2> QED BY <2>1, <2>3
<1>13. \E p \in [DOMAIN list -> kept] :
          /\ \A k, l \in DOMAIN list : k < l => p[k] < p[l]
          /\ \A i \in kept : \E k \in DOMAIN list : p[k] = i
          /\ \A k \in DOMAIN list : list[k] = codes[p[k]]
  BY <1>10, <1>11, <1>12
<1> QED BY <1>2, <1>9, <1>13 DEF list, size, kept

\* What a postal code is made of.
LEMMA PostalCodes ==
    ASSUME NEW code \in PostalCode
    PROVE  /\ code \in Seq({"x", Space}) /\ Len(code) \in 5 .. 8
           /\ code[1] \notin {Space, Comma} /\ code[Len(code)] # Space
<1> DEFINE longest == <<"x", "x", "x", "x", Space, "x", "x", "x">>
           letter  == "x"
<1>1. letter # Space /\ letter # Comma
  BY DEF Space, Comma
<1>2. /\ longest \in Seq({letter, Space}) /\ Len(longest) = 8
      /\ \A i \in 1 .. 8 : longest[i] = IF i = 5 THEN Space ELSE letter
  OBVIOUS
<1>3. \/ \E n \in 6 .. 8 : code = Slice(longest, n)
      \/ \E n \in 5 .. 7 : code = [i \in 1 .. n |-> letter]
  BY DEF PostalCode
<1> HIDE DEF longest, letter
<1>4. ASSUME NEW n \in 6 .. 8, code = Slice(longest, n)
      PROVE  code \in Seq({letter, Space}) /\ Len(code) = n /\ code[1] = letter /\ code[n] = letter
  <2> DEFINE from == 8 - n + 1
  <2>1. /\ from \in Int /\ from <= 8 /\ 8 - from + 1 = n /\ n - 1 + from = 8
        /\ \A i \in from .. 8 : i \in 1 .. 8
        /\ from + 1 - 1 = from /\ from # 5 /\ from + n - 1 = 8 /\ from \in 1 .. 8
    OBVIOUS
  <2>2. code = SubSeq(longest, from, 8)
    BY <1>2, <1>4 DEF Slice
  <2> HIDE DEF from
  <2>3. \A i \in from .. 8 : longest[i] \in {letter, Space}
    BY <1>2, <2>1
  <2>4. /\ code \in Seq({letter, Space}) /\ Len(code) = n
        /\ \A i \in 1 .. n : code[i] = longest[from + i - 1]
    <3>1. 8 \in Int
      OBVIOUS
    <3> QED BY <2>1, <2>2, <2>3, <3>1, SubSeqProperties
  <2>5. 1 \in 1 .. n /\ n \in 1 .. n
    OBVIOUS
  <2>6. code[1] = longest[from] /\ code[n] = longest[8]
    BY <2>1, <2>4, <2>5
  <2> QED BY <1>2, <2>1, <2>4, <2>6
<1>5. ASSUME NEW n \in 5 .. 7, code = [i \in 1 .. n |-> letter]
      PROVE  code \in Seq({letter, Space}) /\ Len(code) = n /\ code[1] = letter /\ code[n] = letter
  BY <1>5
<1> QED BY <1>1, <1>3, <1>4, <1>5 DEF letter

\* Of any list of driving permits, savePersonIdentity draws an address from each
\* that ends in a code or has one to six blanks, in their order, which is the
\* code alone exactly if that stands free, and none from other blanks.
THEOREM PermitsGiveTheirCodes ==
    ASSUME NEW permits, permits # None, permits \in Seq(Range(permits)),
           \A text \in Range(permits) : text \in Seq(Range(text))
    PROVE  LET list == DrivingPermitAddresses(permits)
           IN  /\ LeaveNothing(permits) => list = <<>>
               /\ WithCode(permits) # {} => list # <<>> /\ HasCodesOf(list, permits)
<1> DEFINE codes == [i \in DOMAIN permits |-> ExtractPostalCode(permits[i])]
           kept  == {i \in DOMAIN codes : codes[i] # <<>>}
           list  == NonEmpty(codes)
<1>1. PICK n \in Nat : DOMAIN permits = 1 .. n
  BY LenProperties
<1>2. DOMAIN codes = 1 .. n /\ DOMAIN codes = DOMAIN permits
  BY <1>1
<1>3. DrivingPermitAddresses(permits) = list
  BY DEF DrivingPermitAddresses
<1>4. /\ DOMAIN list = 1 .. Cardinality(kept) /\ Cardinality(kept) \in Nat
      /\ \E place \in [DOMAIN list -> kept] :
             /\ \A k, l \in DOMAIN list : k < l => place[k] < place[l]
             /\ \A i \in kept : \E k \in DOMAIN list : place[k] = i
             /\ \A k \in DOMAIN list : list[k] = codes[place[k]]
  <2> HIDE DEF codes
  <2> QED BY <1>2, FilterKeeps
<1>5. ASSUME NEW i \in DOMAIN permits, NEW code \in PostalCode, EndsIn(permits[i], code)
      PROVE  /\ EndsIn(codes[i], code) /\ i \in kept
             /\ codes[i] = code <=> StandsFree(permits[i], code)
  <2> DEFINE text == permits[i]
             Char == Range(text) \cup {"x", Space}
             left == ExtractPostalCode(text)
  <2>1. text \in Seq(Range(text))
    BY DEF Range
  <2>2. text \in Seq(Char) /\ code \in Seq(Char)
    BY <2>1, PostalCodes, SeqMonotonic
  <2>3. /\ Len(code) \in 5 .. 8 /\ Len(code) \in 1 .. 8
        /\ code[1] \notin {Space, Comma} /\ code[Len(code)] # Space
    BY PostalCodes
  <2>4. EndsIn(left, code) /\ (left = code <=> StandsFree(text, code))
    <3> HIDE DEF text, Char
    <3> QED BY <1>5, <2>2, <2>3, PostalCodesAreExtracted DEF text
  <2>5. left # <<>>
    <3> SUFFICES ASSUME left = <<>>
                 PROVE  FALSE
      OBVIOUS
    <3> DEFINE empty == <<>>
    <3>1. empty \in Seq(Char) /\ Len(empty) = 0
      OBVIOUS
    <3>2. IsSuffix(code, empty)
      BY <2>4 DEF EndsIn
    <3> HIDE DEF empty, Char
    <3>3. Len(code) <= Len(empty)
      BY <2>2, <3>1, <3>2, ElementsOfSuffix
    <3>4. \A m \in 5 .. 8 : ~(m <= 0)
      OBVIOUS
    <3> QED BY <2>3, <3>1, <3>3, <3>4
  <2> QED BY <2>4, <2>5
<1>6. ASSUME NEW i \in DOMAIN permits, IsBlank(permits[i])
      PROVE  /\ i \in kept <=> IsShortBlank(permits[i])
             /\ IsShortBlank(permits[i]) => codes[i] = permits[i]
  <2> DEFINE text == permits[i]
  <2>1. text \in Seq(Range(text))
    BY DEF Range
  <2>2. ExtractPostalCode(text) = IF IsShortBlank(text) THEN text ELSE <<>>
    <3> HIDE DEF text
    <3> QED BY <1>6, <2>1, BlankAddresses DEF text
  <2>3. IsShortBlank(text) => text # <<>>
    <3>1. IsShortBlank(text) => Len(text) \in 1 .. 6
      BY Zenon DEF IsShortBlank
    <3>2. \A q : q = <<>> => Len(q) \notin 1 .. 6
      OBVIOUS
    <3> HIDE DEF text
    <3> QED BY <3>1, <3>2, Zenon
  <2> HIDE DEF text
  <2> QED BY <1>2, <2>2, <2>3 DEF text
<1> HIDE DEF codes, list
<1>7. ASSUME LeaveNothing(permits)
      PROVE  list = <<>>
  <2>1. kept = {}
    <3>1. \A i \in DOMAIN permits : permits[i] \in Range(permits)
      BY DEF Range
    <3>2. \A i \in DOMAIN permits : IsBlank(permits[i]) /\ ~IsShortBlank(permits[i])
      BY <1>7, <3>1 DEF LeaveNothing
    <3> QED BY <1>2, <1>6, <3>2
  <2>2. DOMAIN list = 1 .. 0
    <3> HIDE DEF kept
    <3> QED BY <1>4, <2>1, FS_EmptySet
  <2>3. list = [k \in 1 .. 0 |-> list[k]]
    BY <2>2 DEF list, NonEmpty
  <2> QED BY <2>3
<1>8. ASSUME WithCode(permits) # {}
      PROVE  list # <<>> /\ HasCodesOf(list, permits)
  <2>1. PICK place \in [DOMAIN list -> kept] :
            /\ \A k, l \in DOMAIN list : k < l => place[k] < place[l]
            /\ \A i \in kept : \E k \in DOMAIN list : place[k] = i
            /\ \A k \in DOMAIN list : list[k] = codes[place[k]]
    BY <1>4
  <2>2. WithCode(permits) \subseteq kept
    <3> SUFFICES ASSUME NEW i \in WithCode(permits)
                 PROVE  i \in kept
      OBVIOUS
    <3>1. /\ i \in DOMAIN permits
          /\ IsShortBlank(permits[i]) \/ \E code \in PostalCode : EndsIn(permits[i], code)
      BY DEF WithCode
    <3>2. IsShortBlank(permits[i]) => IsBlank(permits[i])
      BY DEF IsShortBlank
    <3> HIDE DEF kept
    <3> QED BY <1>5, <1>6, <3>1, <3>2
  <2>3. kept \subseteq DOMAIN permits
    BY <1>2
  <2> HIDE DEF kept
  <2>4. place \in [DOMAIN list -> DOMAIN permits] /\ DOMAIN place = DOMAIN list
    BY <2>1, <2>3
  <2>5. WithCode(permits) \subseteq Range(place)
    BY <2>1, <2>2, <2>4 DEF Range
  <2>6. ASSUME NEW k \in DOMAIN list
        PROVE  /\ IsBlank(permits[place[k]]) =>
                      IsShortBlank(permits[place[k]]) /\ list[k] = permits[place[k]]
               /\ \A code \in PostalCode : EndsIn(permits[place[k]], code) =>
                      /\ EndsIn(list[k], code)
                      /\ list[k] = code <=> StandsFree(permits[place[k]], code)
    <3>1. place[k] \in DOMAIN permits /\ place[k] \in kept /\ list[k] = codes[place[k]]
      BY <2>1, <2>3
    <3> QED BY <1>5, <1>6, <3>1
  <2>7. HasCodesOf(list, permits)
    BY <2>1, <2>4, <2>5, <2>6 DEF HasCodesOf
  <2>8. list # <<>>
    <3>1. PICK i : i \in WithCode(permits)
      BY <1>8
    <3>2. DOMAIN list # {}
      BY <2>1, <2>2, <3>1
    <3> QED BY <3>2
  <2> QED BY <2>7, <2>8
<1> QED BY <1>3, <1>7, <1>8

-----------------------------------------------------------------------------
(* The handling of a request.                                              *)

LEMMA OutcomesOfVerify ==
    ASSUME NEW r
    PROVE  /\ VerifyError(r) = None =>
                r.signer = r.client /\ r.timely /\ r.complete
           /\ r.signer = r.client /\ r.timely /\ r.complete => VerifyError(r) = None
           /\ VerifyError(r) = "ERR_JWT_EXPIRED" <=> OnlyExpired(r)
<1>1. \A error \in VerifyErrors : error # None
  BY AbsentAssumption
<1> QED BY <1>1 DEF VerifyErrors, VerifyError, OnlyExpired

\* What is said of a request does not change while it is handled.
LEMMA SameRequest ==
    ASSUME request' = request, UNCHANGED ipvClaimsRequired
    PROVE  /\ Verified(request)' <=> Verified(request)
           /\ Summary(request)' = Summary(request)
           /\ OnlyExpired(request)' <=> OnlyExpired(request)
           /\ HeaderError(request.headers)' <=> HeaderError(request.headers)
<1>1. ClaimsAccepted(request)' <=> ClaimsAccepted(request)
  BY DEF ClaimsAccepted, IpvClaim
<1>2. VerifyError(request)' = VerifyError(request)
  BY DEF VerifyError
<1> QED BY <1>1, <1>2 DEF Verified, Summary, OnlyExpired, HeaderError

\* The handler has the next effect to do.
LEMMA GoneOn ==
    ASSUME HandlingInv, NEW next, GoOn(next),
           step \notin {"none", "answered"},
           next \in {"decrypt", "config", "validate", "save", "identity", "audit"},
           request' = request, UNCHANGED ipvClaimsRequired, ~outage',
           next \in {"save", "identity", "audit"} => Verified(request),
           stored' = IF next \in {"identity", "audit"} THEN Summary(request) ELSE None,
           next # "audit" => addresses' = {}
    PROVE  HandlingInv'
<1>1. /\ step' = next /\ answer' = 0
      /\ request' \in Requests
  BY DEF GoOn, HandlingInv, OnItsWay
<1>2. OnItsWay'
  BY <1>1, SameRequest DEF OnItsWay
<1>3. AnswerInv'
  BY <1>1 DEF AnswerInv
<1> QED BY <1>1, <1>2, <1>3 DEF HandlingInv

\* A middleware has refused the request.
LEMMA MiddlewareRefused ==
    ASSUME HandlingInv,
           NEW error \in {"Error", "JweDecrypter", "SessionValidation"}, NEW details,
           Refuse(error, details),
           request \in Requests, request' = request, UNCHANGED ipvClaimsRequired,
           stored' = None, addresses' = {},
           error = "SessionValidation" => outage' \/ ~Verified(request),
           error = "SessionValidation" =>
               (details = "ERR_JWT_EXPIRED" <=> ~outage' /\ OnlyExpired(request))
    PROVE  HandlingInv'
<1>1. /\ step' = "answered" /\ answer' = ErrorPayload(error).status
      /\ metrics' = ErrorMetrics("session_created", error, details)
  BY DEF Refuse
<1>2. /\ answer' \in {400, 403, 500} /\ answer' # 201
      /\ answer' = 400 <=> error = "SessionValidation"
  BY <1>1, Statuses
<1>3. /\ CountedAs(metrics', "session_created", 0)
      /\ Metric("jwt_expired", 1) \in Range(metrics') <=>
           error = "SessionValidation" /\ details = "ERR_JWT_EXPIRED"
      /\ Metric("jwt_verification_failed", 1) \in Range(metrics') <=>
           error = "SessionValidation" /\ details # "ERR_JWT_EXPIRED"
  BY <1>1, MiddlewareCounts
<1>4. CountedAs(metrics', "session_created", IF answer' = 201 THEN 1 ELSE 0)
  BY <1>2, <1>3
<1>5. AnswerInv'
  BY <1>2, <1>3, <1>4, SameRequest DEF AnswerInv
<1>6. OnItsWay'
  BY <1>1 DEF OnItsWay
<1> QED BY <1>1, <1>5, <1>6 DEF HandlingInv

\* The handler has failed on a request whose JWT was verified.
LEMMA HandlerFailed ==
    ASSUME HandlingInv, step \in {"save", "identity", "audit"},
           NEW error \in {"Error", "InvalidRequest"}, HandlerFails(error),
           request' = request, UNCHANGED <<ipvClaimsRequired, outage>>,
           stored' \in {None, Summary(request)},
           error = "InvalidRequest" =>
               /\ HeaderError(request.headers)
               /\ stored' = None /\ addresses' = {}
    PROVE  HandlingInv'
<1>1. /\ step' = "answered" /\ answer' = ErrorPayload(error).status
      /\ metrics' = <<Created(0)>>
  BY DEF HandlerFails, Created
<1>2. /\ answer' \in {400, 500} /\ answer' # 201
      /\ answer' = 400 <=> error = "InvalidRequest"
  BY <1>1, Statuses
<1>3. request \in Requests /\ Verified(request) /\ ~outage /\ ~OnlyExpired(request)
  BY OutcomesOfVerify DEF HandlingInv, OnItsWay, Verified, OnlyExpired
<1>4. /\ CountedAs(metrics', "session_created", 0)
      /\ Metric("jwt_expired", 1) \notin Range(metrics')
      /\ Metric("jwt_verification_failed", 1) \notin Range(metrics')
  BY <1>1, OneMetric
<1>5. CountedAs(metrics', "session_created", IF answer' = 201 THEN 1 ELSE 0)
  BY <1>2, <1>4
<1>6. AnswerInv'
  BY <1>2, <1>3, <1>4, <1>5, SameRequest DEF AnswerInv
<1>7. OnItsWay'
  BY <1>1 DEF OnItsWay
<1> QED BY <1>1, <1>6, <1>7 DEF HandlingInv

LEMMA HandlingInit == Init => HandlingInv
BY DEF Init, HandlingInv, OnItsWay, AnswerInv

LEMMA HandlingStep ==
    ASSUME HandlingInv, [Next]_vars
    PROVE  HandlingInv'
<1>1. CASE UNCHANGED vars
  <2>1. OnItsWay'
    BY <1>1, SameRequest DEF HandlingInv, OnItsWay
  <2>2. AnswerInv'
    BY <1>1, SameRequest DEF HandlingInv, AnswerInv
  <2> QED BY <1>1, <2>1, <2>2 DEF HandlingInv
<1>2. ASSUME NEW r \in Requests, Receive(r)
      PROVE  HandlingInv'
  BY <1>2 DEF Receive, HandlingInv, OnItsWay, AnswerInv
<1>3. CASE Deliver
  BY <1>3 DEF Deliver, HandlingInv, OnItsWay, AnswerInv
<1>4. CASE InitConfig
  <2>1. /\ step = "init" /\ request \in Requests /\ ~outage /\ stored = None
        /\ addresses = {} /\ UNCHANGED <<ipvClaimsRequired, request, outage, stored, addresses>>
    BY <1>4 DEF InitConfig, HandlingInv, OnItsWay
  <2>2. CASE GoOn("decrypt")
    BY <2>1, <2>2, GoneOn
  <2>3. CASE Refuse("Error", "")
    BY <2>1, <2>3, MiddlewareRefused
  <2> QED BY <1>4, <2>2, <2>3 DEF InitConfig
<1>5. CASE DecryptJwe
  <2>1. /\ step = "decrypt" /\ request \in Requests /\ ~outage /\ stored = None
        /\ addresses = {} /\ UNCHANGED <<ipvClaimsRequired, request, outage, stored, addresses>>
    BY <1>5 DEF DecryptJwe, HandlingInv, OnItsWay
  <2>2. CASE GoOn("config")
    BY <2>1, <2>2, GoneOn
  <2>3. CASE Refuse("Error", "")
    BY <2>1, <2>3, MiddlewareRefused
  <2>4. CASE Refuse("JweDecrypter", "")
    BY <2>1, <2>4, MiddlewareRefused
  <2> QED BY <1>5, <2>2, <2>3, <2>4 DEF DecryptJwe
<1>6. CASE ClientConfig
  <2>1. /\ step = "config" /\ request \in Requests /\ ~outage /\ stored = None
        /\ addresses = {} /\ UNCHANGED <<ipvClaimsRequired, request, outage, stored, addresses>>
    BY <1>6 DEF ClientConfig, HandlingInv, OnItsWay
  <2>2. CASE GoOn("validate")
    BY <2>1, <2>2, GoneOn
  <2>3. CASE Refuse("Error", "")
    BY <2>1, <2>3, MiddlewareRefused
  <2> QED BY <1>6, <2>2, <2>3 DEF ClientConfig
<1>7. CASE ValidateJwt
  <2>1. /\ step = "validate" /\ request \in Requests /\ stored = None /\ addresses = {}
        /\ UNCHANGED <<ipvClaimsRequired, request, stored, addresses>>
    BY <1>7 DEF ValidateJwt, HandlingInv, OnItsWay
  <2>2. CASE outage' = TRUE /\ Refuse("SessionValidation", "JWT verification failure")
    BY <2>1, <2>2, MiddlewareRefused
  <2>3. CASE /\ outage' = FALSE /\ VerifyError(request) # None
             /\ Refuse("SessionValidation", VerifyError(request))
    <3>1. ~Verified(request)
      BY <2>3 DEF Verified
    <3> QED BY <2>1, <2>3, <3>1, OutcomesOfVerify, MiddlewareRefused
  <2>4. CASE /\ outage' = FALSE /\ VerifyError(request) = None
             /\ ClaimsAccepted(request) /\ GoOn("save")
    <3>1. Verified(request)
      BY <2>4 DEF Verified
    <3> QED BY <2>1, <2>4, <3>1, GoneOn
  <2>5. CASE /\ outage' = FALSE /\ VerifyError(request) = None
             /\ ~ClaimsAccepted(request) /\ Refuse("SessionValidation", "Invalid request")
    <3>1. ~Verified(request) /\ ~OnlyExpired(request)
      BY <2>5, OutcomesOfVerify DEF Verified, OnlyExpired
    <3> QED BY <2>1, <2>5, <3>1, MiddlewareRefused
  <2> QED BY <1>7, <2>2, <2>3, <2>4, <2>5 DEF ValidateJwt
<1>8. CASE SaveSession
  <2>1. /\ step = "save" /\ Verified(request) /\ ~outage /\ stored = None /\ addresses = {}
        /\ UNCHANGED <<ipvClaimsRequired, request, outage, addresses>>
    BY <1>8 DEF SaveSession, HandlingInv, OnItsWay
  <2>2. CASE /\ HeaderError(request.headers)
             /\ HandlerFails("InvalidRequest") /\ UNCHANGED stored
    BY <2>1, <2>2, HandlerFailed
  <2>3. CASE GoOn("identity") /\ stored' = Summary(request)
    BY <2>1, <2>3, GoneOn
  <2>4. CASE HandlerFails("Error") /\ stored' \in {None, Summary(request)}
    BY <2>1, <2>4, HandlerFailed
  <2> QED BY <1>8, <2>2, <2>3, <2>4 DEF SaveSession
<1>9. CASE SaveIdentity
  <2>1. /\ step = "identity" /\ Verified(request) /\ ~outage /\ stored = Summary(request)
        /\ addresses = {} /\ UNCHANGED <<ipvClaimsRequired, request, outage, stored>>
    BY <1>9 DEF SaveIdentity, HandlingInv, OnItsWay
  <2>2. CASE GoOn("audit")
    BY <2>1, <2>2, GoneOn
  <2>3. CASE HandlerFails("Error")
    BY <2>1, <2>3, HandlerFailed
  <2> QED BY <1>9, <2>2, <2>3 DEF SaveIdentity
<1>10. CASE Audit
  <2>1. /\ step = "audit" /\ request \in Requests /\ Verified(request) /\ ~outage
        /\ stored = Summary(request)
        /\ UNCHANGED <<ipvClaimsRequired, request, outage, stored, addresses>>
    BY <1>10 DEF Audit, HandlingInv, OnItsWay
  <2>2. CASE /\ step' = "answered" /\ answer' = 201
             /\ metrics' = <<Metric("session_created", 1)>>
    <3>1. /\ CountedAs(metrics', "session_created", 1)
          /\ Metric("jwt_expired", 1) \notin Range(metrics')
          /\ Metric("jwt_verification_failed", 1) \notin Range(metrics')
      BY <2>2, OneMetric DEF Created
    <3>2. CountedAs(metrics', "session_created", IF answer' = 201 THEN 1 ELSE 0)
      BY <2>2, <3>1
    <3>3. AnswerInv'
      BY <2>1, <2>2, <3>1, <3>2, SameRequest DEF AnswerInv
    <3> QED BY <2>1, <2>2, <3>3 DEF HandlingInv, OnItsWay
  <2>3. CASE HandlerFails("Error")
    BY <2>1, <2>3, HandlerFailed
  <2> QED BY <1>10, <2>2, <2>3 DEF Audit
<1> QED BY <1>1, <1>2, <1>3, <1>4, <1>5, <1>6, <1>7, <1>8, <1>9, <1>10 DEF Next

LEMMA Handling == Spec => []HandlingInv
<1>1. HandlingInv /\ [Next]_vars => HandlingInv'
  BY HandlingStep
<1> QED BY HandlingInit, <1>1, PTL DEF Spec

-----------------------------------------------------------------------------
(* What follows for the sessions that are stored and for the answers.      *)

LEMMA StoredOfVerified ==
    ASSUME HandlingInv, stored # None
    PROVE  request \in Requests /\ stored = Summary(request) /\ Verified(request)
BY DEF HandlingInv, OnItsWay, AnswerInv

\* Whatever the requests, a session is stored only for the client whose key
\* signed the request (validateJwt, then saveSession).
THEOREM OwnClientsSignSessions == Spec => []SignedByOwnClient
<1>1. HandlingInv => SignedByOwnClient
  <2> SUFFICES ASSUME HandlingInv, stored # None
               PROVE  /\ request.signer = stored.clientId
                      /\ request.client = stored.clientId
                      /\ request.timely /\ request.redirects
    BY DEF SignedByOwnClient
  <2>1. stored = Summary(request) /\ Verified(request)
    BY StoredOfVerified
  <2>2. /\ request.signer = request.client /\ request.timely
        /\ request.client_id = request.client /\ request.redirects
    BY <2>1, OutcomesOfVerify DEF Verified, ClaimsAccepted
  <2>3. stored.clientId = request.client_id
    BY <2>1 DEF Summary
  <2> QED BY <2>2, <2>3
<1> QED BY <1>1, Handling, PTL

\* A storage token that validateJwt accepts is the one that is parsed again.
LEMMA TokenParsedAgain ==
    ASSUME NEW r \in Requests, Verified(r)
    PROVE  LET token == StorageAccessToken(r.storage)
           IN  /\ token # None => token.signature /\ token.alg \notin {None, "", "none"}
               /\ token = None <=> r.storage = None
               /\ token = None => ~ipvClaimsRequired
<1>1. CASE r.storage = None
  BY <1>1 DEF StorageAccessToken, Verified, ClaimsAccepted, IpvClaim
<1>2. CASE r.storage # None
  <2> DEFINE token == r.storage[1]
  <2>1. StorageAccessTokenSchema(r.storage)
    BY <1>2 DEF Verified, ClaimsAccepted, IpvClaim
  <2>2. r.storage \in Seq(Jwt) /\ Len(r.storage) = 1 /\ IsSignedJwt(token)
    BY <1>2, <2>1, RequestsAssumption DEF StorageAccessTokenSchema
  <2>3. token \in Jwt
    <3> HIDE DEF Jwt
    <3> QED BY <2>2
  <2>4. token # None
    BY <2>3, AbsentAssumption
  <2>5. StorageAccessToken(r.storage) = token
    BY <1>2, <2>1 DEF StorageAccessToken
  <2> QED BY <1>2, <2>2, <2>4, <2>5 DEF IsSignedJwt
<1> QED BY <1>1, <1>2

\* Whatever the claims are, those that are stored are the valid ones: the
\* second parse of the token loses none, and lets none in, that the first has
\* accepted (validateJwt, then createSessionRequestSummary).
THEOREM StoredClaimsAreValid == Spec => []StoredClaimsValid
<1>1. HandlingInv => StoredClaimsValid
  <2> DEFINE vtr      == stored.vtr
             token    == stored.storageAccessToken
             evidence == stored.evidenceRequest
  <2> SUFFICES ASSUME HandlingInv, stored # None
               PROVE  /\ vtr # None => /\ vtr # <<>>
                                       /\ Range(vtr) \subseteq {"P1", "P2", "P3", "P4"}
                      /\ token # None => /\ token.signature
                                         /\ token.alg \notin {None, "", "none"}
                      /\ token = None <=> request.storage = None
                      /\ None \in {vtr, token} => ~ipvClaimsRequired
                      /\ evidence # None =>
                           /\ DOMAIN evidence # {}
                           /\ \A f \in DOMAIN evidence : evidence[f] \in Scores[f]
    BY DEF StoredClaimsValid
  <2>1. request \in Requests /\ stored = Summary(request) /\ Verified(request)
    BY StoredOfVerified
  <2>2. /\ vtr = request.vtr /\ evidence = request.evidence_requested
        /\ token = StorageAccessToken(request.storage)
    BY <2>1 DEF Summary
  <2>3. IF vtr = None THEN ~ipvClaimsRequired ELSE VtrSchema(vtr)
    BY <2>1, <2>2 DEF Verified, ClaimsAccepted, IpvClaim
  <2>4. evidence # None => EvidenceRequestSchema(evidence)
    BY <2>1, <2>2 DEF Verified, ClaimsAccepted
  <2>5. /\ token # None => token.signature /\ token.alg \notin {None, "", "none"}
        /\ token = None <=> request.storage = None
        /\ token = None => ~ipvClaimsRequired
    BY <2>1, <2>2, TokenParsedAgain
  <2> HIDE DEF vtr, token, evidence
  <2>6. vtr # None => vtr # <<>> /\ Range(vtr) \subseteq {"P1", "P2", "P3", "P4"}
    BY <2>3 DEF VtrSchema, Range
  <2>7. evidence # None => /\ DOMAIN evidence # {}
                           /\ \A f \in DOMAIN evidence : evidence[f] \in Scores[f]
    BY <2>4 DEF EvidenceRequestSchema
  <2> QED BY <2>3, <2>5, <2>6, <2>7
<1> QED BY <1>1, Handling, PTL

\* What a flawless request may claim is what the schemas accept.
LEMMA FlawlessClaims ==
    /\ EvidenceRequestSchema([verificationScore |-> 0])
    /\ VtrSchema(<<"P2">>)
    /\ StorageAccessTokenSchema(<<Token(TRUE, "ES256")>>)
<1> DEFINE zero  == [verificationScore |-> 0]
           token == Token(TRUE, "ES256")
<1>1. EvidenceRequestSchema(zero)
  <2>1. zero # Null
    BY AbsentAssumption
  <2>2. DOMAIN zero = {"verificationScore"} /\ zero["verificationScore"] = 0
    OBVIOUS
  <2>3. "verificationScore" \in DOMAIN Scores /\ Scores["verificationScore"] = 0 .. 4
    BY DEF Scores
  <2> HIDE DEF zero
  <2> QED BY <2>1, <2>2, <2>3 DEF EvidenceRequestSchema
<1>2. VtrSchema(<<"P2">>)
  <2> DEFINE vtr == <<"P2">>
  <2>1. vtr # Null
    BY AbsentAssumption
  <2>2. Len(vtr) = 1 /\ DOMAIN vtr = {1} /\ vtr[1] = "P2"
    OBVIOUS
  <2> HIDE DEF vtr
  <2>3. VtrSchema(vtr)
    BY <2>1, <2>2 DEF VtrSchema
  <2> QED BY <2>3 DEF vtr
<1>3. StorageAccessTokenSchema(<<token>>)
  <2> DEFINE claim == <<token>>
  <2>1. claim # Null
    BY AbsentAssumption
  <2>2. Len(claim) = 1 /\ claim[1] = token
    OBVIOUS
  <2>3. IsSignedJwt(token)
    BY AbsentAssumption DEF IsSignedJwt, Token
  <2> HIDE DEF claim, token
  <2>4. StorageAccessTokenSchema(claim)
    BY <2>1, <2>2, <2>3 DEF StorageAccessTokenSchema
  <2> QED BY <2>4 DEF claim, token
<1> QED BY <1>1, <1>2, <1>3

\* Whatever the requests, one with nothing wrong in it is not answered 400.
THEOREM FlawlessAreNotRefused == Spec => []FlawlessNotRefused
<1>1. HandlingInv => FlawlessNotRefused
  <2> DEFINE optional == IF ipvClaimsRequired THEN {} ELSE {None}
  <2> SUFFICES ASSUME HandlingInv, answer = 400, ~outage,
                      request.headers = {}, request.timely, request.complete,
                      request.redirects, request.signer = request.client,
                      request.client_id = request.client,
                      request.evidence_requested \in {None, [verificationScore |-> 0]},
                      request.vtr \in {<<"P2">>} \cup optional,
                      request.storage \in {<<Token(TRUE, "ES256")>>} \cup optional
               PROVE  FALSE
    BY DEF FlawlessNotRefused
  <2>1. ~Verified(request) \/ HeaderError(request.headers)
    BY DEF HandlingInv, OnItsWay, AnswerInv
  <2>2. ~HeaderError(request.headers)
    BY DEF HeaderError
  <2>3. VerifyError(request) = None
    BY OutcomesOfVerify
  <2>4. \/ request.evidence_requested = None
        \/ EvidenceRequestSchema(request.evidence_requested)
    BY FlawlessClaims
  <2>5. IpvClaim(request.vtr, VtrSchema(request.vtr))
    BY FlawlessClaims, AbsentAssumption DEF IpvClaim
  <2>6. IpvClaim(request.storage, StorageAccessTokenSchema(request.storage))
    BY FlawlessClaims, AbsentAssumption DEF IpvClaim
  <2> QED BY <2>1, <2>2, <2>3, <2>4, <2>5, <2>6 DEF Verified, ClaimsAccepted
<1> QED BY <1>1, Handling, PTL

\* Whatever the requests, a refused one has left nothing in either table
\* (the handler of POST /session looks the headers up before it saves).
THEOREM RefusedLeaveNothing == Spec => []RefusedLeavesNothing
<1>1. HandlingInv => RefusedLeavesNothing
  BY DEF HandlingInv, OnItsWay, AnswerInv, RefusedLeavesNothing
<1> QED BY <1>1, Handling, PTL

\* Whatever the requests, each is counted once and for what it was answered
\* (the handler's captureMetric, and onError of the error middleware).
THEOREM MetricsTellOfAnswers == Spec => []MetricsTell
<1>1. HandlingInv => MetricsTell
  <2> SUFFICES ASSUME HandlingInv, answer # 0
               PROVE  /\ CountedAs(metrics, "session_created", IF answer = 201 THEN 1 ELSE 0)
                      /\ Metric("jwt_expired", 1) \in Range(metrics) <=>
                           /\ answer = 400 /\ ~outage
                           /\ request.signer = request.client /\ ~request.timely
                      /\ Metric("jwt_verification_failed", 1) \in Range(metrics) <=>
                           /\ answer = 400 /\ Metric("jwt_expired", 1) \notin Range(metrics)
                           /\ outage \/ VerifyError(request) # None \/ ~ClaimsAccepted(request)
    BY DEF MetricsTell
  <2>1. step = "answered"
    BY DEF HandlingInv, OnItsWay
  <2> QED BY <2>1 DEF HandlingInv, AnswerInv, OnlyExpired, Verified
<1> QED BY <1>1, Handling, PTL

\* Where the identity comes from that a request leaves behind.
LEMMA IdentityStep ==
    ASSUME HandlingInv, IdentityInv, [Next]_vars
    PROVE  IdentityInv'
<1>1. ASSUME UNCHANGED <<request, addresses>>
      PROVE  IdentityInv'
  BY <1>1 DEF IdentityInv
<1>2. CASE UNCHANGED vars
  BY <1>1, <1>2
<1>3. ASSUME NEW r \in Requests, Receive(r)
      PROVE  IdentityInv'
  BY <1>3 DEF Receive, HandlingInv, OnItsWay, IdentityInv
<1>4. CASE Deliver
  BY <1>4 DEF Deliver, IdentityInv
<1>5. CASE InitConfig \/ DecryptJwe \/ ClientConfig \/ ValidateJwt \/ SaveSession \/ Audit
  BY <1>1, <1>5 DEF InitConfig, DecryptJwe, ClientConfig, ValidateJwt, SaveSession, Audit
<1>6. CASE SaveIdentity
  <2>1. request \in Requests /\ addresses = {} /\ UNCHANGED request
    BY <1>6 DEF SaveIdentity, HandlingInv, OnItsWay
  <2> DEFINE claims == request.shared_claims
  <2>2. \/ addresses' = {}
        \/ claims # None /\ Mappable(claims) /\ addresses' = {Addresses(claims)}
    BY <1>6, <2>1 DEF SaveIdentity
  <2> QED BY <2>1, <2>2 DEF IdentityInv
<1> QED BY <1>2, <1>3, <1>4, <1>5, <1>6 DEF Next

\* Whatever the requests, the identity of a person has an address for each of the
\* driving permits that end in a postal code, and the shared addresses if all are
\* blank and none is short enough to be taken for a code (savePersonIdentity).
THEOREM PostalCodesAreFound == Spec => []PostalCodeFound
<1>1. IdentityInv => PostalCodeFound
  <2> DEFINE claims  == request.shared_claims
             permits == claims.drivingPermit
             list    == DrivingPermitAddresses(permits)
  <2> SUFFICES ASSUME IdentityInv, addresses # {}, permits # None
               PROVE  /\ LeaveNothing(permits) => addresses = {claims.address}
                      /\ WithCode(permits) # {} =>
                           \E found \in addresses : HasCodesOf(found, permits)
    BY DEF PostalCodeFound
  <2>1. /\ request \in Requests /\ claims # None
        /\ Mappable(claims) /\ addresses = {Addresses(claims)}
    BY DEF IdentityInv
  <2>2. PermitsAreTexts(permits)
    BY <2>1, RequestsAssumption
  <2>3. ~Contains(permits, Null)
    BY <2>1 DEF Mappable
  <2> HIDE DEF permits
  <2>4. permits \in Seq(Range(permits))
    BY <2>2 DEF PermitsAreTexts
  <2>5. \A text \in Range(permits) : text \in Seq(Range(text))
    <3>1. \A i \in 1 .. Len(permits) : permits[i] # Null
      BY <2>3 DEF Contains
    <3>2. DOMAIN permits = 1 .. Len(permits)
      BY <2>4
    <3>3. \A text \in Range(permits) : text # Null
      BY <3>1, <3>2 DEF Range
    <3> QED BY <2>2, <3>3 DEF PermitsAreTexts
  <2>6. /\ LeaveNothing(permits) => list = <<>>
        /\ WithCode(permits) # {} => list # <<>> /\ HasCodesOf(list, permits)
    BY <2>4, <2>5, PermitsGiveTheirCodes
  <2>7. Addresses(claims) = IF list # <<>> THEN list ELSE claims.address
    BY DEF Addresses, permits
  <2> QED BY <2>1, <2>6, <2>7
<1>2. Init => IdentityInv
  BY DEF Init, IdentityInv
<1>3. HandlingInv /\ IdentityInv /\ [Next]_vars => IdentityInv'
  BY IdentityStep
<1>4. Spec => []IdentityInv
  BY <1>2, <1>3, Handling, PTL DEF Spec
<1> QED BY <1>1, <1>4, PTL
=============================================================================
