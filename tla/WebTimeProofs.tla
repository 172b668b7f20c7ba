--------------------------- MODULE WebTimeProofs ---------------------------
(***************************************************************************)
(* Proofs about WebTime.tla, for every number of attempts, every set of    *)
(* times, every length of the answer and every way it is cut into          *)
(* segments.                                                               *)
(***************************************************************************)
EXTENDS WebTime, SequenceTheorems, TLAPS

USE WebTimeAssumption DEF WebTimeAssumption

-----------------------------------------------------------------------------
(* Characters *)

LEMMA Interval == \A n \in Int : \E m \in Nat : 1 .. n = 1 .. m
<1> SUFFICES ASSUME NEW n \in Int PROVE \E m \in Nat : 1 .. n = 1 .. m
  OBVIOUS
<1>1. CASE n \in Nat
  BY <1>1
<1>2. CASE n < 0
  <2>1. 1 .. n = 1 .. 0
    BY <1>2
  <2>. QED BY <2>1
<1>. QED BY <1>1, <1>2

(***************************************************************************)
(* What is cut out of a text is a text, whatever the places.               *)
(***************************************************************************)
LEMMA SubstringType ==
    ASSUME NEW s \in Seq(Nat), NEW from \in Nat, NEW to \in Int
    PROVE  substring(s, from, to) \in Seq(Nat)
<1> DEFINE n == (IF to < Len(s) THEN to ELSE Len(s)) - from
<1>1. n \in Int /\ Len(s) \in Nat /\ s \in [1 .. Len(s) -> Nat]
  BY LenProperties
<1>2. PICK m \in Nat : 1 .. n = 1 .. m
  BY <1>1, Interval
<1>3. \A i \in 1 .. n : from + i \in 1 .. Len(s)
  BY <1>1
<1>4. [i \in 1 .. n |-> s[from + i]] \in [1 .. m -> Nat]
  BY <1>1, <1>2, <1>3
<1>5. [i \in 1 .. n |-> s[from + i]] \in Seq(Nat)
  BY <1>4, SeqDef
<1>. QED BY <1>5 DEF substring


LEMMA DigitsType ==
    ASSUME NEW n \in Nat
    PROVE  /\ TwoDigits(n) \in Seq(Nat) /\ zero_padding(n) \in Seq(Nat)
<1>1. n \div 10 \in Nat /\ n % 10 \in Nat
  OBVIOUS
<1>. QED BY <1>1 DEF TwoDigits, zero_padding

LEMMA toIntType ==
    ASSUME NEW s \in Seq(Nat)
    PROVE  toInt(s) \in Nat
<1>0. Len(s) \in Nat
  BY LenProperties
<1>1. /\ Len(s) >= 1 => s[1] \in Nat
      /\ Len(s) >= 2 => s[2] \in Nat
  BY LenProperties
<1>2. CASE Len(s) = 0
  BY <1>2 DEF toInt
<1>3. CASE Len(s) = 1
  BY <1>0, <1>1, <1>3 DEF toInt
<1>4. CASE Len(s) >= 2
  <2>1. 10 * s[1] + s[2] \in Nat /\ Len(s) # 0 /\ Len(s) # 1
    BY <1>0, <1>1, <1>4
  <2>. QED BY <2>1 DEF toInt
<1>5. Len(s) = 0 \/ Len(s) = 1 \/ Len(s) >= 2
  <2>1. \A k \in Nat : k = 0 \/ k = 1 \/ k >= 2
    OBVIOUS
  <2>. QED BY <1>0, <2>1, Zenon
<1>. QED BY <1>2, <1>3, <1>4, <1>5

LEMMA DateType ==
    ASSUME gmt \in GmtTimes
    PROVE  Date \in Seq(Nat)
<1>1. /\ gmt.day \in Nat /\ gmt.year \in Nat /\ gmt.hour \in Nat
      /\ gmt.minute \in Nat /\ gmt.second \in Nat
  <2>1. gmt \in [year : Nat, month : 1 .. 12, day : 1 .. 31,
                 hour : 0 .. 23, minute : 0 .. 59, second : 0 .. 59]
    OBVIOUS
  <2>. QED BY <2>1
<1>2. gmt.year \div 100 \in Nat /\ gmt.year % 100 \in Nat
  BY <1>1
<1>3. <<NotADigit>> \in Seq(Nat) /\ [i \in 1 .. 3 |-> NotADigit] \in Seq(Nat)
  <2>1. [i \in 1 .. 3 |-> NotADigit] \in [1 .. 3 -> Nat]
    BY DEF NotADigit
  <2>. QED BY <2>1, SeqDef DEF NotADigit
<1>4. /\ TwoDigits(gmt.day) \in Seq(Nat)
      /\ TwoDigits(gmt.year \div 100) \in Seq(Nat)
      /\ TwoDigits(gmt.year % 100) \in Seq(Nat)
      /\ TwoDigits(gmt.hour) \in Seq(Nat)
      /\ TwoDigits(gmt.minute) \in Seq(Nat)
      /\ TwoDigits(gmt.second) \in Seq(Nat)
  BY <1>1, <1>2, DigitsType
<1>. QED BY <1>3, <1>4, ConcatProperties DEF Date

(***************************************************************************)
(* The timestamp put together from what was read, complete or not.         *)
(***************************************************************************)
LEMMA FormattedType ==
    ASSUME gmt \in GmtTimes, html \in Nat
    PROVE  formatted \in Seq(Nat)
<1>1. raw_timestamp \in Seq(Nat)
  <2>1. substring(Date, 0, html - (DateAt + 11)) \in Seq(Nat)
    BY DateType, SubstringType
  <2>2. [i \in 1 .. (html - 10) |-> NotADigit] \in Seq(Nat)
    <3>1. PICK m \in Nat : 1 .. (html - 10) = 1 .. m
      BY Interval
    <3>2. [i \in 1 .. (html - 10) |-> NotADigit] \in [1 .. m -> Nat]
      BY <3>1 DEF NotADigit
    <3>. QED BY <3>2, SeqDef
  <2>. QED BY <2>1, <2>2, Zenon DEF raw_timestamp
<1>2. /\ substring(raw_timestamp, 7, 11) \in Seq(Nat)
      /\ substring(raw_timestamp, 0, 2) \in Seq(Nat)
      /\ substring(raw_timestamp, 12, 14) \in Seq(Nat)
      /\ substring(raw_timestamp, 15, 17) \in Seq(Nat)
      /\ substring(raw_timestamp, 18, 20) \in Seq(Nat)
  <2>1. /\ 0 \in Nat /\ 7 \in Nat /\ 12 \in Nat /\ 15 \in Nat /\ 18 \in Nat
        /\ 2 \in Int /\ 11 \in Int /\ 14 \in Int /\ 17 \in Int /\ 20 \in Int
    OBVIOUS
  <2>. QED BY <1>1, <2>1, SubstringType, Zenon
<1>3. zero_padding(toInt(substring(raw_timestamp, 12, 14)) + 1) \in Seq(Nat)
  <2> DEFINE hour == substring(raw_timestamp, 12, 14)
  <2>0. hour \in Seq(Nat)
    BY <1>2, Zenon
  <2>. HIDE DEF hour
  <2>1. toInt(hour) \in Nat
    BY <2>0, toIntType
  <2>2. toInt(hour) + 1 \in Nat
    BY <2>1
  <2>3. zero_padding(toInt(hour) + 1) \in Seq(Nat)
    BY <2>2, DigitsType
  <2>. QED BY <2>3 DEF hour
<1>4. zero_padding(month2index) \in Seq(Nat)
  <2>1. gmt.month \in Nat
    <3>1. gmt \in [year : Nat, month : 1 .. 12, day : 1 .. 31,
                   hour : 0 .. 23, minute : 0 .. 59, second : 0 .. 59]
      OBVIOUS
    <3>. QED BY <3>1
  <2>2. month2index \in Nat
    BY <2>1 DEF month2index
  <2>. QED BY <2>2, DigitsType
<1>5. <<NotADigit>> \in Seq(Nat) /\ <<NotADigit, NotADigit>> \in Seq(Nat)
  BY DEF NotADigit
<1>. QED BY <1>2, <1>3, <1>4, <1>5, ConcatProperties DEF formatted

-----------------------------------------------------------------------------
(* Types *)

(***************************************************************************)
(* get_web_time starts with nothing asked, nothing read and no time.       *)
(***************************************************************************)
LEMMA InitialType == Init => TypeOK
<1> SUFFICES ASSUME Init PROVE TypeOK
  OBVIOUS
<1>1. timestamp \in Seq(Nat)
  BY EmptySeq DEF Init
<1>2. /\ retry \in 0 .. TIMEAPI_RETRY /\ arrived \in 0 .. AnswerLength
      /\ html \in 0 .. arrived
  BY DEF Init
<1>3. /\ pc \in {"connecting", "sending", "reading", "returned"}
      /\ link \in BOOLEAN /\ asked \in BOOLEAN /\ gmt \in GmtTimes
  BY DEF Init
<1>. QED BY <1>1, <1>2, <1>3 DEF TypeOK

(***************************************************************************)
(* No step of get_web_time, of the server or of the network takes a        *)
(* variable out of its type: in particular the attempts are never more     *)
(* than TIMEAPI_RETRY, and no more is read than has arrived.               *)
(***************************************************************************)
LEMMA TypeStep == TypeOK /\ [Next]_vars => TypeOK'
<1> SUFFICES ASSUME TypeOK, [Next]_vars PROVE TypeOK'
  OBVIOUS
<1>1. CASE Connect
  BY <1>1 DEF TypeOK, Connect
<1>2. CASE ConnectDone
  BY <1>2 DEF TypeOK, ConnectDone
<1>3. CASE SendGet
  BY <1>3 DEF TypeOK, SendGet
<1>4. CASE SendDone
  BY <1>4 DEF TypeOK, SendDone
<1>5. CASE Read
  BY <1>5 DEF TypeOK, Read, available
<1>6. CASE ReadDone
  <2>1. formatted \in Seq(Nat)
    BY FormattedType DEF TypeOK
  <2>. QED BY <1>6, <2>1 DEF TypeOK, ReadDone
<1>7. CASE Answer
  BY <1>7 DEF TypeOK, Answer
<1>8. CASE LinkLost
  BY <1>8 DEF TypeOK, LinkLost
<1>9. CASE Terminated \/ UNCHANGED vars
  BY <1>9 DEF TypeOK, Terminated, vars
<1>. QED
  BY <1>1, <1>2, <1>3, <1>4, <1>5, <1>6, <1>7, <1>8, <1>9
  DEF Next, get_web_time

(***************************************************************************)
(* Every variable of get_web_time keeps its type: no more attempts than    *)
(* TIMEAPI_RETRY, nothing read that has not arrived, and a timestamp,      *)
(* however the answer was cut.                                             *)
(***************************************************************************)
THEOREM WebTimeTypeCorrect == Spec => []TypeOK
<1>. QED BY InitialType, TypeStep, PTL DEF Spec
=============================================================================
