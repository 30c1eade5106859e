--------------------------------- MODULE Money ---------------------------------
(***************************************************************************)
(* kernel::Money: whole cents of one currency in a signed integer of a fixed *)
(* width, with arithmetic that throws when the result does not fit.  An      *)
(* account is a Money that amounts are added to and taken from.              *)
(***************************************************************************)
EXTENDS Integers

CONSTANTS MaxCents,      \* numeric_limits<int64_t>::max()
          Currencies

ASSUME MaxCentsAssumption == MaxCents \in Nat \ {0}

MinCents == -(MaxCents + 1)
Cents == MinCents..MaxCents
Moneys == [cents : Cents, currency : Currencies]

\* What the build makes of a result that does not fit: two's complement.
Wrapped(n) == MinCents + ((n - MinCents) % (2 * MaxCents + 2))

Thrown == [what |-> "DomainError"]

VARIABLES balance,   \* a Money
          \* Kept to state properties.
          booked     \* the sum of what has been added and taken, as a number

money_vars == <<balance, booked>>

MoneyInit ==
    /\ balance \in {m \in Moneys : m.cents = 0}
    /\ booked = 0

\* check_same_currency()
Same(a, b) == a.currency = b.currency

FitsOffByOne(a, b) ==
    /\ ~(b > 0 /\ a > MaxCents - b + 1)
    /\ ~(b < 0 /\ a < MinCents - b)

\* check_no_overflow()
Fits(a, b) ==
    /\ ~(b > 0 /\ a > MaxCents - b)
    /\ ~(b < 0 /\ a < MinCents - b)

\* operator+
Plus(m, o) ==
    IF Same(m, o) /\ Fits(m.cents, o.cents)
    THEN [m EXCEPT !.cents = Wrapped(m.cents + o.cents)]
    ELSE Thrown

\* operator-: the check is given the negated amount.
Minus(m, o) ==
    IF Same(m, o) /\ Fits(m.cents, Wrapped(-o.cents))
    THEN [m EXCEPT !.cents = Wrapped(m.cents - o.cents)]
    ELSE Thrown

\* operator<, and the other three comparisons by it
Less(m, o) == IF Same(m, o) THEN m.cents < o.cents ELSE Thrown

\* Every amount but the smallest, whose negation does not fit
Negatable == {m \in Moneys : m.cents # MinCents}

Booked(result, amount) ==
    IF result = Thrown
    THEN UNCHANGED money_vars
    ELSE balance' = result /\ booked' = booked + amount

Add(m) == Booked(Plus(balance, m), m.cents)
Take(m) == Booked(Minus(balance, m), -m.cents)

MoneyNext == (\E m \in Moneys : Add(m)) \/ (\E m \in Negatable : Take(m))

MoneySpec == MoneyInit /\ [][MoneyNext]_money_vars

-----------------------------------------------------------------------------
(* Properties *)

Exactly(n, currency, m) ==
    IF m.currency = currency /\ n \in Cents THEN [cents |-> n, currency |-> currency] ELSE Thrown

\* Money refuses exactly the operations whose result does not fit or that mix
\* currencies (no smallest amount being taken away), its comparisons agree with its
\* arithmetic, and so an account never loses or gains a cent, however many amounts
\* are added, taken and refused.
ArithmeticExact ==
    /\ balance.cents = booked
    /\ \A m \in Moneys :
          /\ Plus(balance, m) = Exactly(booked + m.cents, balance.currency, m)
          /\ m \in Negatable =>
                Minus(balance, m) = Exactly(booked - m.cents, balance.currency, m)
          /\ Plus(balance, m) # Thrown => (Less(balance, Plus(balance, m)) <=> m.cents > 0)
=============================================================================
