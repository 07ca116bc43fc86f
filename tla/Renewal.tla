------------------------------- MODULE Renewal -------------------------------
(***************************************************************************)
(* When a host asks for a replacement of a certificate it holds: what the  *)
(* other modules take as the moment a certificate falls due.  A date is a  *)
(* number of nanoseconds, 0 the time that was never set.  A duration is a  *)
(* Go int64: a difference of dates saturates, a product wraps, a quotient  *)
(* is cut towards zero.                                                    *)
(***************************************************************************)
EXTENDS Integers

CONSTANT MaxDuration  \* the longest time.Duration, 2^63 - 1

ASSUME RenewalAssumption == MaxDuration \in Nat \ {0}

Records == [issuedAt : Nat, notAfter : Nat, renewAfter : Nat]

MinDuration  == - MaxDuration - 1
Durations    == MinDuration..MaxDuration
Saturated(d) == IF d > MaxDuration THEN MaxDuration
                ELSE IF d < MinDuration THEN MinDuration ELSE d
Twice(d)     == IF 2 * d > MaxDuration THEN 2 * d + 2 * MinDuration ELSE 2 * d
Third(d)     == IF d >= 0 THEN d \div 3 ELSE - ((- d) \div 3)

Life(r) == Saturated(r.notAfter - r.issuedAt)

\* The core's date is taken as it is, unless it lies before the issuance and the
\* record tells what to do instead.
Overridden(r) ==
    /\ r.issuedAt # 0
    /\ r.renewAfter < r.issuedAt
    /\ Life(r) > 0

RenewAt(r) == IF Overridden(r) THEN r.issuedAt + Third(Twice(Life(r))) ELSE r.renewAfter

\* RenewDue asks when the date is not still to come.
Asks(r, now) == ~(now < RenewAt(r))

-----------------------------------------------------------------------------
(* What the rule is for.                                                   *)

Lifetime(r) == r.notAfter - r.issuedAt

\* 146 years: any longer, and twice the life does not fit a duration.
Countable(r) == 2 * Lifetime(r) <= MaxDuration

\* renewAt: "renew when a third of the certificate's life remains", to the unit.
LeavesAThird(r) ==
    Overridden(r) /\ Countable(r) =>
        LET left == r.notAfter - RenewAt(r)
        IN  /\ 3 * left \in Lifetime(r)..Lifetime(r) + 2
            /\ left \in 1..Lifetime(r)

\* RenewDue: "When to renew is the core's decision", and "a host that picked its
\* own moment would be a host that could decide to renew hourly".  A date the core
\* can have meant is taken as it is, as is any date where the record tells no
\* other; and no host asks sooner than the core said.
TheCoreDecides(r) ==
    /\ r.renewAfter >= r.issuedAt \/ Lifetime(r) <= 0 => RenewAt(r) = r.renewAfter
    /\ Countable(r) => RenewAt(r) >= r.renewAfter

\* renewAt: obeying a date before the issuance "meant a new order to the CA on
\* every cycle".  A certificate with a life to speak of for which the host asks
\* the moment it is issued is one the core wants renewed at that very moment.
NotOnEveryCycle(r) ==
    (/\ r.issuedAt # 0 /\ Lifetime(r) > 1 /\ Countable(r)
     /\ Asks(r, r.issuedAt))
        => r.renewAfter = r.issuedAt

\* "Replaced rather than ignored, because ignoring it would mean never renewing
\* at all".  By the expiry the host asks, unless the core named a later date;
\* where a date was replaced, it asks before.
AsksByExpiry(r) ==
    /\ r.renewAfter <= r.notAfter => Asks(r, r.notAfter)
    /\ Overridden(r) => \E now \in 0..r.notAfter - 1 : Asks(r, now)

\* The limit of the rule.  Twice a longer life wraps, and the replaced date is
\* no later than the issuance: the host asks on every cycle after all.
WrapsBeyond(r) == Overridden(r) /\ ~Countable(r) => Asks(r, r.issuedAt)
=============================================================================
