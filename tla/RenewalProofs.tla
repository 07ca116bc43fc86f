---------------------------- MODULE RenewalProofs ----------------------------
(* What renewAt promises, for all dates and whatever a duration can hold.  *)
EXTENDS Renewal, TLAPS

(***************************************************************************)
(* A third of a number is known by three times it, so that the rest is     *)
(* linear.                                                                 *)
(***************************************************************************)

LEMMA ThirdOfANatural ==
    ASSUME NEW d \in Nat
    PROVE  Third(d) \in Nat /\ 3 * Third(d) <= d /\ d <= 3 * Third(d) + 2
BY SMT DEF Third

LEMMA ThirdOfANegative ==
    ASSUME NEW d \in Int, d < 0
    PROVE  Third(d) \in Int /\ Third(d) <= 0
<1>1. /\ (- d) \div 3 \in Nat
  BY SMT
<1>. QED BY <1>1, SMT DEF Third

LEMMA LifeOfARecord ==
    ASSUME NEW r \in Records
    PROVE  /\ r.issuedAt \in Nat /\ r.notAfter \in Nat /\ r.renewAfter \in Nat
           /\ Lifetime(r) \in Int /\ Lifetime(r) = r.notAfter - r.issuedAt
           /\ Life(r) \in Durations
           /\ Life(r) > 0 <=> Lifetime(r) > 0
           /\ Countable(r) /\ Life(r) > 0 => Life(r) = Lifetime(r)
<1>1. r.issuedAt \in Nat /\ r.notAfter \in Nat /\ r.renewAfter \in Nat
  BY DEF Records
<1>. QED BY <1>1, RenewalAssumption, SMT
         DEF Life, Lifetime, Saturated, Durations, MinDuration, Countable

\* Twice a life that is counted is a natural number; twice a longer one wraps
\* to a negative one.
LEMMA TwiceALife ==
    ASSUME NEW r \in Records, Life(r) > 0
    PROVE  /\ Countable(r) => Twice(Life(r)) = 2 * Lifetime(r)
           /\ ~Countable(r) => Twice(Life(r)) \in Int /\ Twice(Life(r)) < 0
<1>1. CASE Countable(r)
  <2>1. Life(r) = Lifetime(r) /\ Lifetime(r) \in Int
    BY <1>1, LifeOfARecord
  <2>. QED BY <1>1, <2>1, RenewalAssumption, SMT DEF Twice, Countable
<1>2. CASE ~Countable(r)
  <2>1. Life(r) \in Int /\ Life(r) <= MaxDuration /\ 2 * Life(r) > MaxDuration
    <3>1. Lifetime(r) \in Int /\ Lifetime(r) = r.notAfter - r.issuedAt
      BY LifeOfARecord
    <3>. QED BY <3>1, <1>2, RenewalAssumption, SMT
             DEF Life, Lifetime, Saturated, MinDuration, Countable
  <2>. QED BY <1>2, <2>1, RenewalAssumption, SMT DEF Twice, MinDuration
<1>. QED BY <1>1, <1>2

-----------------------------------------------------------------------------
(* Where a date is replaced.                                               *)

LEMMA Replaced ==
    ASSUME NEW r \in Records, Overridden(r), Countable(r)
    PROVE  /\ Lifetime(r) \in Nat /\ Lifetime(r) > 0
           /\ RenewAt(r) \in Nat /\ RenewAt(r) >= r.issuedAt
           /\ 3 * (RenewAt(r) - r.issuedAt) <= 2 * Lifetime(r)
           /\ 2 * Lifetime(r) <= 3 * (RenewAt(r) - r.issuedAt) + 2
<1>1. Life(r) > 0
  BY DEF Overridden
<1>2. r.issuedAt \in Nat /\ Lifetime(r) \in Nat /\ Lifetime(r) > 0
  BY <1>1, LifeOfARecord, SMT
<1>3. Twice(Life(r)) = 2 * Lifetime(r)
  BY <1>1, TwiceALife
<1>4. 2 * Lifetime(r) \in Nat
  BY <1>2, SMT
<1>5. PICK t \in Nat : /\ t = Third(Twice(Life(r)))
                       /\ 3 * t <= 2 * Lifetime(r) /\ 2 * Lifetime(r) <= 3 * t + 2
  BY <1>3, <1>4, ThirdOfANatural
<1>6. RenewAt(r) = r.issuedAt + t
  BY <1>5 DEF RenewAt
<1>. QED BY <1>2, <1>5, <1>6, SMT

LEMMA ReplacedTooLong ==
    ASSUME NEW r \in Records, Overridden(r), ~Countable(r)
    PROVE  RenewAt(r) \in Int /\ RenewAt(r) <= r.issuedAt
<1>1. Life(r) > 0 /\ r.issuedAt \in Nat
  BY LifeOfARecord DEF Overridden
<1>2. Twice(Life(r)) \in Int /\ Twice(Life(r)) < 0
  BY <1>1, TwiceALife
<1>3. Third(Twice(Life(r))) \in Int /\ Third(Twice(Life(r))) <= 0
  BY <1>2, ThirdOfANegative
<1>. QED BY <1>1, <1>3, SMT DEF RenewAt

LEMMA Obeyed ==
    ASSUME NEW r \in Records, ~Overridden(r)
    PROVE  RenewAt(r) = r.renewAfter
BY DEF RenewAt

-----------------------------------------------------------------------------

\* A replaced date leaves a third of the certificate's life, and lies between the
\* issuance and the expiry, however long the life is up to half of what a
\* duration can hold.
THEOREM AThirdIsLeft == \A r \in Records : LeavesAThird(r)
<1>. SUFFICES ASSUME NEW r \in Records, Overridden(r), Countable(r)
              PROVE  /\ 3 * (r.notAfter - RenewAt(r)) \in Lifetime(r)..Lifetime(r) + 2
                     /\ r.notAfter - RenewAt(r) \in 1..Lifetime(r)
  BY Zenon DEF LeavesAThird
<1>1. /\ Lifetime(r) \in Nat /\ Lifetime(r) > 0
      /\ RenewAt(r) \in Nat /\ RenewAt(r) >= r.issuedAt
      /\ 3 * (RenewAt(r) - r.issuedAt) <= 2 * Lifetime(r)
      /\ 2 * Lifetime(r) <= 3 * (RenewAt(r) - r.issuedAt) + 2
  BY Replaced
<1>2. r.issuedAt \in Nat /\ r.notAfter \in Nat /\ Lifetime(r) = r.notAfter - r.issuedAt
  BY LifeOfARecord
<1>. QED BY <1>1, <1>2, SMT

\* However the core's dates are, one it can have meant is obeyed, and the host
\* asks no sooner than it was told to.
THEOREM TheCoreIsObeyed == \A r \in Records : TheCoreDecides(r)
<1>. SUFFICES ASSUME NEW r \in Records PROVE TheCoreDecides(r)
  OBVIOUS
<1>1. /\ r.issuedAt \in Nat /\ r.renewAfter \in Nat /\ Lifetime(r) \in Int
      /\ Life(r) > 0 <=> Lifetime(r) > 0
  BY LifeOfARecord
<1>2. ASSUME r.renewAfter >= r.issuedAt \/ Lifetime(r) <= 0
      PROVE  RenewAt(r) = r.renewAfter
  <2>1. ~Overridden(r)
    BY <1>1, <1>2, SMT DEF Overridden
  <2>. QED BY <2>1, Obeyed
<1>3. ASSUME Countable(r)
      PROVE  RenewAt(r) >= r.renewAfter
  <2>1. CASE Overridden(r)
    <3>1. RenewAt(r) \in Nat /\ RenewAt(r) >= r.issuedAt
      BY <1>3, <2>1, Replaced
    <3>. QED BY <1>1, <2>1, <3>1, SMT DEF Overridden
  <2>2. CASE ~Overridden(r)
    BY <1>1, <2>2, Obeyed, SMT
  <2>. QED BY <2>1, <2>2
<1>. QED BY <1>2, <1>3 DEF TheCoreDecides

\* No certificate with a life to speak of is due as it is issued, unless that is
\* the date the core named.
THEOREM NoOrderOnEveryCycle == \A r \in Records : NotOnEveryCycle(r)
<1>. SUFFICES ASSUME NEW r \in Records, r.issuedAt # 0, Lifetime(r) > 1, Countable(r),
                     Asks(r, r.issuedAt)
              PROVE  r.renewAfter = r.issuedAt
  BY DEF NotOnEveryCycle
<1>1. /\ r.issuedAt \in Nat /\ r.renewAfter \in Nat /\ Lifetime(r) \in Int
      /\ Life(r) > 0 <=> Lifetime(r) > 0
  BY LifeOfARecord
<1>2. Life(r) > 0
  BY <1>1, SMT
<1>3. CASE Overridden(r)
  <2>1. RenewAt(r) \in Nat /\ 2 * Lifetime(r) <= 3 * (RenewAt(r) - r.issuedAt) + 2
    BY <1>3, Replaced
  <2>2. ~(r.issuedAt < RenewAt(r))
    BY DEF Asks
  <2>. QED BY <1>1, <2>1, <2>2, SMT
<1>4. CASE ~Overridden(r)
  <2>1. ~(r.renewAfter < r.issuedAt)
    BY <1>2, <1>4 DEF Overridden
  <2>2. ~(r.issuedAt < r.renewAfter)
    BY <1>4, Obeyed DEF Asks
  <2>. QED BY <1>1, <2>1, <2>2, SMT
<1>. QED BY <1>3, <1>4

\* By the expiry of a certificate the host has come to ask for another, unless
\* the core named a date beyond it; with a replaced date it asks before.
THEOREM AskedInTime == \A r \in Records : AsksByExpiry(r)
<1>. SUFFICES ASSUME NEW r \in Records PROVE AsksByExpiry(r)
  OBVIOUS
<1>1. /\ r.issuedAt \in Nat /\ r.notAfter \in Nat /\ r.renewAfter \in Nat
      /\ Lifetime(r) = r.notAfter - r.issuedAt
      /\ Life(r) > 0 <=> Lifetime(r) > 0
  BY LifeOfARecord
<1>2. ASSUME Overridden(r)
      PROVE  RenewAt(r) \in Int /\ RenewAt(r) < r.notAfter
  <2>1. Lifetime(r) > 0
    BY <1>1, <1>2 DEF Overridden
  <2>2. CASE Countable(r)
    <3>1. RenewAt(r) \in Nat /\ 3 * (RenewAt(r) - r.issuedAt) <= 2 * Lifetime(r)
      BY <1>2, <2>2, Replaced
    <3>. QED BY <1>1, <2>1, <3>1, SMT
  <2>3. CASE ~Countable(r)
    <3>1. RenewAt(r) \in Int /\ RenewAt(r) <= r.issuedAt
      BY <1>2, <2>3, ReplacedTooLong
    <3>. QED BY <1>1, <2>1, <3>1, SMT
  <2>. QED BY <2>2, <2>3
<1>3. ASSUME r.renewAfter <= r.notAfter
      PROVE  Asks(r, r.notAfter)
  <2>1. CASE Overridden(r)
    BY <1>1, <1>2, <2>1, SMT DEF Asks
  <2>2. CASE ~Overridden(r)
    BY <1>1, <1>3, <2>2, Obeyed, SMT DEF Asks
  <2>. QED BY <2>1, <2>2
<1>4. ASSUME Overridden(r)
      PROVE  \E now \in 0..r.notAfter - 1 : Asks(r, now)
  <2>1. r.notAfter - 1 \in 0..r.notAfter - 1
    <3>1. Lifetime(r) > 0
      BY <1>1, <1>4 DEF Overridden
    <3>. QED BY <1>1, <3>1, SMT
  <2>2. Asks(r, r.notAfter - 1)
    BY <1>1, <1>2, <1>4, SMT DEF Asks
  <2>. QED BY <2>1, <2>2
<1>. QED BY <1>3, <1>4, Zenon DEF AsksByExpiry

\* Beyond half of what a duration can hold the rule fails: the hypothesis of the
\* theorems above cannot be left out.
THEOREM TooLongIsAskedAtOnce == \A r \in Records : WrapsBeyond(r)
<1>. SUFFICES ASSUME NEW r \in Records, Overridden(r), ~Countable(r)
              PROVE  ~(r.issuedAt < RenewAt(r))
  BY DEF WrapsBeyond, Asks
<1>1. RenewAt(r) \in Int /\ RenewAt(r) <= r.issuedAt
  BY ReplacedTooLong
<1>2. r.issuedAt \in Nat
  BY LifeOfARecord
<1>. QED BY <1>1, <1>2, SMT
=============================================================================
