------------------------------- MODULE StoredTimes -------------------------------
(***************************************************************************)
(* Instants in the database are text in Go's RFC3339Nano layout (UTC), and *)
(* SQL compares them as text: leases, due deliveries, expiry and the order *)
(* of runs (internal/store/sqlite.go).  The layout drops trailing zeros of *)
(* the fraction, and with a fraction of zero the point too.  An instant is *)
(* a second and the digits of its fraction; of the text this module keeps  *)
(* the two digits of the second and what follows, everything before it     *)
(* being of one width.                                                     *)
(***************************************************************************)
EXTENDS Integers, Sequences

CONSTANTS FractionDigits,  \* nine in the code
          Instants         \* [second : 0..59, fraction : digits]

ASSUME TimesAssumption ==
    /\ FractionDigits \in Nat \ {0}
    /\ Instants \subseteq [second : 0..59, fraction : [1..FractionDigits -> 0..9]]

VARIABLES due,     \* the instant a row holds: a lease, a delivery, an expiry
          now,     \* the instant the query binds
          passed   \* what the query finds: "unasked", or whether due <= now
timesVars == <<due, now, passed>>

(* ASCII, in which text is compared.                                       *)
Point == 46
Digit(d) == 48 + d
Zulu == 90

-------------------------------------------------------------------------------
(* Operators whose name starts with Bad are deliberate mistakes: no action *)
(* uses them.                                                              *)

(* The fraction without its trailing zeros.                                *)
Trimmed(fraction) ==
    LET upTo == {n \in 1..FractionDigits : fraction[n] # 0}
        last == IF upTo = {} THEN 0 ELSE CHOOSE n \in upTo : \A m \in upTo : m <= n
    IN [n \in 1..last |-> Digit(fraction[n])]

Tail9(fraction) ==
    IF Trimmed(fraction) = <<>> THEN <<Zulu>> ELSE <<Point>> \o Trimmed(fraction) \o <<Zulu>>

(* The second is written with as many digits as it has.                    *)
BadText(t) ==
    (IF t.second < 10 THEN <<Digit(t.second)>>
     ELSE <<Digit(t.second \div 10), Digit(t.second % 10)>>) \o Tail9(t.fraction)

(* Format(time.RFC3339Nano).                                               *)
Text(t) == <<Digit(t.second \div 10), Digit(t.second % 10)>> \o Tail9(t.fraction)

(* SQL's < on text: at the first difference, or by length.                 *)
TextBefore(x, y) ==
    \E n \in 1..(Len(y)) :
       /\ \A m \in 1..(n - 1) : m <= Len(x) /\ x[m] = y[m]
       /\ n > Len(x) \/ x[n] < y[n]

FractionBefore(f, g) ==
    \E n \in 1..FractionDigits : f[n] < g[n] /\ \A m \in 1..(n - 1) : f[m] = g[m]

Before(s, t) == s.second < t.second \/ (s.second = t.second /\ FractionBefore(s.fraction, t.fraction))

-------------------------------------------------------------------------------
TimesInit == due \in Instants /\ now \in Instants /\ passed = "unasked"
AskDatabase == passed' = (IF TextBefore(Text(now), Text(due)) THEN "no" ELSE "yes") /\ UNCHANGED <<due, now>>
TimesNext == AskDatabase
TimesSpec == TimesInit /\ [][TimesNext]_timesVars

-------------------------------------------------------------------------------
(* The database takes what is due for due, up to the fraction of a second: *)
(* within one second the order of texts is wrong exactly when the shorter  *)
(* fraction, without its zeros, begins the longer one.  So no lease, retry *)
(* or expiry is a second or more early or late.                            *)
TextOrderIsTimeOrder ==
    passed # "unasked" =>
       IF due.second # now.second THEN passed = "yes" <=> due.second < now.second
       ELSE LET begins(s, t) == \A n \in DOMAIN Trimmed(s.fraction) : s.fraction[n] = t.fraction[n]
            IN passed = "yes" <=> \/ due = now
                                  \/ Before(due, now) /\ ~begins(due, now)
                                  \/ Before(now, due) /\ begins(now, due)
================================================================================
