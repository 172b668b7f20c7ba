------------------------------ MODULE WebTime ------------------------------
(***************************************************************************)
(* get_web_time: the firmware asks a web server for its home page and      *)
(* takes the time of the Date header.  One connection is used; the answer  *)
(* travels in segments of any size and is read character by character      *)
(* until nothing is available, which is not until it is complete.  What    *)
(* was read is cut at fixed places and put together again for the web      *)
(* application, which cuts the result at fixed places too.                 *)
(*                                                                         *)
(* Of the characters only digits are told apart.  The answer is the one    *)
(* documented in the code: its first "GMT" ends the Date header.           *)
(***************************************************************************)
EXTENDS Integers, Sequences

CONSTANTS
    TIMEAPI_RETRY,  \* attempts (3 in the code)
    GmtTimes,       \* times the server can answer with
    DateAt,         \* characters of the answer before "Date"
    AnswerLength    \* characters of the answer

ASSUME WebTimeAssumption ==
    /\ TIMEAPI_RETRY \in Nat \ {0}
    /\ GmtTimes \subseteq [year : Nat, month : 1 .. 12, day : 1 .. 31,
                           hour : 0 .. 23, minute : 0 .. 59, second : 0 .. 59]
    /\ DateAt \in Nat
    /\ AnswerLength \in Nat
    /\ AnswerLength >= DateAt + 31

VARIABLES
    pc,         \* the loop get_web_time is in
    retry,
    link,       \* the TCP connection is up
    asked,      \* a request has been sent
    arrived,    \* characters of the answer that have arrived
    html,       \* characters read
    gmt,        \* the time the server answers with
    timestamp   \* the result

vars == <<pc, retry, link, asked, arrived, html, gmt, timestamp>>

Init ==
    /\ pc = "connecting"
    /\ retry = 0
    /\ link = FALSE
    /\ asked = FALSE
    /\ arrived = 0
    /\ html = 0
    /\ gmt \in GmtTimes
    /\ timestamp = <<>>

-----------------------------------------------------------------------------
(* Characters: 0 to 9, or something else *)

NotADigit == 10

TwoDigits(n) == <<n \div 10, n % 10>>

(* String::substring: what is there of the places from .. to - 1. *)
substring(s, from, to) ==
    [i \in 1 .. ((IF to < Len(s) THEN to ELSE Len(s)) - from) |-> s[from + i]]

(* String::toInt of at most two digits. *)
toInt(s) == IF Len(s) = 0 THEN 0
            ELSE IF Len(s) = 1 THEN s[1] ELSE 10 * s[1] + s[2]

(* Mutant: numbers below ten are not padded. *)
zero_padding_Bare(n) == IF n < 10 THEN <<n>> ELSE TwoDigits(n)

zero_padding(n) == TwoDigits(n)

(* "21 Jan 2017 13:42:08", the date of the header. *)
Date == TwoDigits(gmt.day) \o <<NotADigit>>
        \o [i \in 1 .. 3 |-> NotADigit] \o <<NotADigit>>
        \o TwoDigits(gmt.year \div 100) \o TwoDigits(gmt.year % 100) \o <<NotADigit>>
        \o TwoDigits(gmt.hour) \o <<NotADigit>>
        \o TwoDigits(gmt.minute) \o <<NotADigit>>
        \o TwoDigits(gmt.second)

(* indexOf("Date"), and the characters from there to the ones the date     *)
(* ends with.  When "Date" is not there, indexOf is -1 and something else  *)
(* is cut out of the headers; when "GMT" is not there, all the rest is.    *)
DateFound == html >= DateAt + 4

raw_timestamp ==
    IF DateFound
    THEN substring(Date, 0, html - (DateAt + 11))
    ELSE [i \in 1 .. (html - 10) |-> NotADigit]

(* The name of a month is recognised when it is complete. *)
month2index == IF DateFound /\ Len(raw_timestamp) >= 6 THEN gmt.month ELSE 0

(* year-month-day--hh-mm-ss; Italy is GMT+1, so the hour is one more.      *)
formatted ==
    substring(raw_timestamp, 7, 11)
    \o <<NotADigit>> \o zero_padding(month2index)
    \o <<NotADigit>> \o substring(raw_timestamp, 0, 2)
    \o <<NotADigit, NotADigit>>
    \o zero_padding(toInt(substring(raw_timestamp, 12, 14)) + 1)
    \o <<NotADigit>> \o substring(raw_timestamp, 15, 17)
    \o <<NotADigit>> \o substring(raw_timestamp, 18, 20)

-----------------------------------------------------------------------------
(* get_web_time *)

available == arrived > html

(* Mutant: attempts are counted, not limited. *)
Connect_Unlimited ==
    /\ pc = "connecting" /\ ~link
    /\ link' \in BOOLEAN
    /\ retry' = retry + 1
    /\ UNCHANGED <<pc, asked, arrived, html, gmt, timestamp>>

(***************************************************************************)
(* try TIMEAPI_RETRY times to connect to service                           *)
(***************************************************************************)
Connect ==
    /\ pc = "connecting" /\ ~link /\ retry < TIMEAPI_RETRY
    /\ link' \in BOOLEAN
    /\ retry' = retry + 1
    /\ UNCHANGED <<pc, asked, arrived, html, gmt, timestamp>>

ConnectDone ==
    /\ pc = "connecting" /\ (link \/ retry = TIMEAPI_RETRY)
    /\ pc' = "sending"
    /\ UNCHANGED <<retry, link, asked, arrived, html, gmt, timestamp>>

(* Mutant: only the attempts end the loop. *)
SendDone_AfterRetries ==
    /\ pc = "sending" /\ retry = TIMEAPI_RETRY
    /\ pc' = "reading"
    /\ UNCHANGED <<retry, link, asked, arrived, html, gmt, timestamp>>

(* Mutant: the loop also waits for an answer when nothing was asked. *)
SendDone_Waits ==
    /\ pc = "sending" /\ available
    /\ pc' = "reading"
    /\ UNCHANGED <<retry, link, asked, arrived, html, gmt, timestamp>>

(***************************************************************************)
(* The request is sent again every 500 ms until something arrives.  The    *)
(* loop does not count, and does not look at the connection.               *)
(***************************************************************************)
SendGet ==
    /\ pc = "sending" /\ ~available /\ retry < TIMEAPI_RETRY
    /\ asked' = TRUE
    /\ UNCHANGED <<pc, retry, link, arrived, html, gmt, timestamp>>

SendDone ==
    /\ pc = "sending" /\ (available \/ retry = TIMEAPI_RETRY)
    /\ pc' = "reading"
    /\ UNCHANGED <<retry, link, asked, arrived, html, gmt, timestamp>>

Read ==
    /\ pc = "reading" /\ available
    /\ html' = html + 1
    /\ UNCHANGED <<pc, retry, link, asked, arrived, gmt, timestamp>>

ReadDone ==
    /\ pc = "reading" /\ ~available
    /\ pc' = "returned"
    /\ timestamp' = formatted
    /\ link' = FALSE
    /\ UNCHANGED <<retry, asked, arrived, html, gmt>>

(***************************************************************************)
(* The server and the network.                                             *)
(***************************************************************************)
Answer ==
    /\ link /\ asked
    /\ arrived' \in (arrived + 1) .. AnswerLength
    /\ UNCHANGED <<pc, retry, link, asked, html, gmt, timestamp>>

LinkLost ==
    /\ link
    /\ link' = FALSE
    /\ UNCHANGED <<pc, retry, asked, arrived, html, gmt, timestamp>>

Terminated == pc = "returned" /\ UNCHANGED vars

get_web_time == Connect \/ ConnectDone \/ SendGet \/ SendDone \/ Read \/ ReadDone

Next == get_web_time \/ Answer \/ LinkLost \/ Terminated

Spec == Init /\ [][Next]_vars

(* The device runs; nothing is assumed of the server and the network. *)
DeviceFairSpec == Spec /\ WF_vars(get_web_time)
-----------------------------------------------------------------------------
TypeOK ==
    /\ pc \in {"connecting", "sending", "reading", "returned"}
    /\ retry \in 0 .. TIMEAPI_RETRY
    /\ link \in BOOLEAN
    /\ asked \in BOOLEAN
    /\ arrived \in 0 .. AnswerLength
    /\ html \in 0 .. arrived
    /\ gmt \in GmtTimes
    /\ timestamp \in Seq(Nat)

(***************************************************************************)
(* What the web application reads in a timestamp: it cuts fields out of    *)
(* fixed places; a field with anything but digits makes the date invalid,  *)
(* an empty field is 0, and hour 24 is the first of the next day.          *)
(***************************************************************************)
Fields == {<<0, 4>>, <<5, 7>>, <<8, 10>>, <<12, 14>>, <<15, 17>>, <<18, 20>>}

Field(f) == substring(timestamp, f[1], f[2])

Readable == \A f \in Fields : \A i \in DOMAIN Field(f) : Field(f)[i] # NotADigit

SecondOfDay == 3600 * toInt(Field(<<12, 14>>)) + 60 * toInt(Field(<<15, 17>>))
               + toInt(Field(<<18, 20>>))

(***************************************************************************)
(* However the answer is cut, within the date too, the device works with   *)
(* no time the application can read, or with the local time, one hour      *)
(* after GMT, less the seconds that were cut off.  When the whole date was *)
(* read the time can be read and is exact.                                 *)
(***************************************************************************)
LocalSecond == 3600 * (gmt.hour + 1) + 60 * gmt.minute + gmt.second

TimestampIsLocal ==
    pc = "returned" =>
        /\ Readable =>
              /\ Field(<<0, 4>>) = TwoDigits(gmt.year \div 100) \o TwoDigits(gmt.year % 100)
              /\ Field(<<5, 7>>) = TwoDigits(gmt.month)
              /\ Field(<<8, 10>>) = TwoDigits(gmt.day)
              /\ LocalSecond - SecondOfDay \in 0 .. 59
        /\ html >= DateAt + 31 => Readable /\ SecondOfDay = LocalSecond

(***************************************************************************)
(* get_web_time gives up in the end when the server cannot be reached:     *)
(* using up the attempts leads to its return, whatever the network does.   *)
(***************************************************************************)
GivesUp == retry = TIMEAPI_RETRY ~> pc = "returned"

(***************************************************************************)
(* The first bytes of an answer release the device, even if the rest of it *)
(* never comes.                                                            *)
(***************************************************************************)
AnswerReleases == arrived > 0 ~> pc = "returned"
=============================================================================
