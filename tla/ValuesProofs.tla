---------------------------- MODULE ValuesProofs ----------------------------
(***************************************************************************)
(* One-time passwords: for how long a code is valid, for every URL, every  *)
(* period and every time.                                                  *)
(***************************************************************************)
EXTENDS Values, FiniteSetTheorems, TLAPS

\* A set of numbers up to n has a last one: otherwise counting up would map the
\* numbers below one of them one to one into fewer.
LEMMA LastExists ==
    ASSUME NEW n \in Nat, NEW T \in SUBSET (1 .. n), T # {}
    PROVE  \E i \in T : \A j \in T : j <= i
<1> SUFFICES ASSUME \A i \in T : \E j \in T : ~(j <= i)
             PROVE  FALSE
  OBVIOUS
<1> DEFINE C == {k \in 0 .. n : \E t \in T : k <= t}
           f == [k \in C |-> k + 1]
<1>1. \A k \in C : k + 1 \in C \ {0}
  <2> SUFFICES ASSUME NEW k \in 0 .. n, \E t \in T : k <= t
               PROVE  k + 1 \in C \ {0}
    OBVIOUS
  <2>0. PICK t \in T : k <= t
    OBVIOUS
  <2>1. PICK v \in T : ~(v <= t)
    OBVIOUS
  <2>2. k + 1 <= v /\ k + 1 \in 0 .. n
    BY <2>0, <2>1
  <2> QED  BY <2>2
<1>2. 0 \in C
  <2>1. PICK t \in T : TRUE
    OBVIOUS
  <2>2. 0 <= t /\ 0 \in 0 .. n
    OBVIOUS
  <2> QED  BY <2>2
<1>3. IsFiniteSet(C) /\ Cardinality(C) \in Nat
  <2>1. IsFiniteSet(0 .. n)
    BY FS_Interval
  <2> QED  BY <2>1, FS_Subset, FS_CardinalityType
<1>4. IsFiniteSet(C \ {0}) /\ Cardinality(C \ {0}) < Cardinality(C)
  <2> HIDE DEF C, f
  <2>1. /\ IsFiniteSet(C \ {0})
        /\ Cardinality(C \ {0}) = IF 0 \in C THEN Cardinality(C) - 1 ELSE Cardinality(C)
    BY <1>3, FS_RemoveElement
  <2> QED  BY <1>2, <1>3, <2>1
<1>5. f \in [C -> C \ {0}]
  BY <1>1
<1>6. \A x, y \in C : f[x] = f[y] => x = y
  OBVIOUS
<1> HIDE DEF C, f
<1> QED  BY <1>3, <1>4, <1>5, <1>6, FS_PigeonHole

\* The period in a URL that TOTP::from_str accepts is a number.
LEMMA PeriodIsNumber ==
    ASSUME NEW u \in Urls, Works(Parsed(u))
    PROVE  Parsed(u).period \in Nat
<1> DEFINE given == {u[i][1] : i \in DOMAIN u}
           at == {i \in DOMAIN u : u[i][1] = "period"}
           good == [f \in DOMAIN Defaults |-> IF f \in given THEN LastOf(u, f)[2] ELSE Defaults[f]]
<1>1. /\ \A i \in DOMAIN u : ~BadPair(u[i])
      /\ Parsed(u) = good
  <2>1. \A x : ~Works([error |-> x])
    BY DEF Works
  <2> HIDE DEF good
  <2>2. \/ \E x : Parsed(u) = [error |-> x]
        \/ (\A i \in DOMAIN u : ~BadPair(u[i])) /\ Parsed(u) = good
    BY DEF Parsed, good
  <2> QED  BY <2>1, <2>2
<1>2. "period" \in DOMAIN Defaults /\ Defaults.period = 30
  BY DEF Defaults
<1>3. Parsed(u).period = IF "period" \in given THEN LastOf(u, "period")[2] ELSE 30
  BY <1>1, <1>2
<1>4. ASSUME "period" \in given
      PROVE  LastOf(u, "period")[2] \in Nat
  <2>1. /\ Len(u) \in Nat /\ DOMAIN u = 1 .. Len(u)
        /\ \A i \in DOMAIN u : u[i][2][1] = "number" => u[i][2][2] \in Nat
    BY UrlsAssumption
  <2>2. at \in SUBSET (1 .. Len(u)) /\ at # {}
    BY <1>4, <2>1
  <2>3. \E i \in at : \A j \in at : j <= i
    <3> HIDE DEF at
    <3> QED  BY <2>1, <2>2, LastExists
  <2>4. PICK i \in at : LastOf(u, "period") = u[i][2]
    BY <2>3 DEF LastOf
  <2>5. u[i][2][1] = "number"
    BY <1>1, <2>4 DEF BadPair, Numbers
  <2> QED  BY <2>1, <2>4, <2>5
<1> QED  BY <1>3, <1>4

LEMMA PeriodsAreCounted ==
    ASSUME NEW p \in Nat \ {0}, NEW from \in Nat, NEW at \in Nat, from <= at
    PROVE  (at \div p = from \div p) <=> at < from + (p - (from % p))
OBVIOUS

\* What is shown was a code at the time of its making, not after now.
Shown ==
    \/ shown = NoCode
    \/ /\ Works(totp) /\ totp.period \in Nat \ {0}
       /\ shownAt \in Nat /\ shownAt <= time
       /\ shown = [code |-> CodeAt(totp, shownAt), validFor |-> ValidFor(totp, shownAt)]

OtpInv ==
    /\ time \in Nat
    /\ form = "otpauth" => url \in Urls
    /\ Works(totp) => form = "otpauth" /\ totp = Parsed(url)
    /\ Shown

LEMMA NoTotpFails == ~Works(NoTotp)
BY DEF Works, NoTotp

LEMMA OtpInvInit == Init => OtpInv
<1>1. ASSUME OtpIdle
      PROVE  OtpInv
  BY <1>1, NoTotpFails DEF OtpIdle, OtpInv, Shown
<1>2. ASSUME OtpInit
      PROVE  OtpInv
  BY <1>2, ClockAssumption, NoTotpFails DEF OtpInit, NoOtp, OtpInv, Shown
<1> QED  BY <1>1, <1>2 DEF Init

LEMMA OtpInvNext ==
    ASSUME OtpInv, [Next]_vars
    PROVE  OtpInv'
<1>1. CASE about = "password" /\ OtpNext /\ UNCHANGED about
  <2>1. CASE GetOtp
    <3>1. Works([error |-> form]) = FALSE
      BY DEF Works
    <3> QED  BY <2>1, <3>1, NoTotpFails DEF GetOtp, OtpInv, Shown
  <2>2. CASE ValueNow
    <3>1. totp = Parsed(url) /\ url \in Urls
      BY <1>1, <2>2, NoTotpFails DEF ValueNow, OtpInv
    <3>2. totp.period \in Nat \ {0}
      BY <2>2, <3>1, PeriodIsNumber DEF ValueNow
    <3> QED  BY <1>1, <2>2, <3>2 DEF ValueNow, OtpInv, Shown
  <2>3. CASE Second
    BY <1>1, <2>3 DEF Second, OtpInv, Shown
  <2> QED  BY <1>1, <2>1, <2>2, <2>3 DEF OtpNext
<1>2. CASE UNCHANGED <<about, otpVars>>
  BY <1>2 DEF otpVars, OtpInv, Shown
<1> QED  BY <1>1, <1>2 DEF Next, vars

\* A code stays the code for as many seconds as are shown with it and not one
\* more, from whatever second it is asked for, and for every period that a URL
\* can give (valid_for in value_at).
THEOREM CodesLast == Spec => []CodeValid
<1>1. ASSUME OtpInv
      PROVE  CodeValid
  <2> SUFFICES ASSUME shown # NoCode
               PROVE  CodeAt(totp, time) = shown.code <=> time < shownAt + shown.validFor
    BY DEF CodeValid
  <2>1. /\ totp.period \in Nat \ {0} /\ time \in Nat
        /\ shownAt \in Nat /\ shownAt <= time
        /\ shown.code = CodeAt(totp, shownAt) /\ shown.validFor = ValidFor(totp, shownAt)
    BY <1>1 DEF OtpInv, Shown
  <2>2. CodeAt(totp, time) = CodeAt(totp, shownAt)
            <=> time \div totp.period = shownAt \div totp.period
    BY DEF CodeAt
  <2> QED  BY <2>1, <2>2, PeriodsAreCounted DEF ValidFor
<1> QED  BY <1>1, OtpInvInit, OtpInvNext, PTL DEF Spec
=============================================================================
