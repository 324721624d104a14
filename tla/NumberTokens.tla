---------------------------- MODULE NumberTokens ----------------------------
(***************************************************************************)
(* Integer tokens beyond the safe range (_binary64_numbers in main.py): a  *)
(* client writes one, the service reads it and signs the canonical bytes   *)
(* of what it has read.  Floating-point numbers have Precision bits and    *)
(* are below 2^TopBit; canonical JSON writes those below 10^Digits in full. *)
(***************************************************************************)
EXTENDS Integers, FiniteSetsExt

CONSTANTS
  Precision,    \* 53
  Digits,       \* 21
  TopBit,       \* 1024
  MaxToken,     \* bound of the tokens that are checked
  Rejected,     \* ValueError
  Exponential,  \* a token with an exponent, no integer token
  None, Any

ASSUME TokensAssumption ==
  /\ Precision \in Nat \ {0} /\ Digits \in Nat /\ TopBit \in Nat /\ MaxToken \in Nat
  /\ Precision < TopBit
  /\ {Rejected, Exponential, None, Any} \cap Int = {} /\ None # Rejected /\ None # Any

VARIABLES
  wrote,        \* the number a client means to write, or Any integer
  token,        \* the integer token it writes
  read,         \* the number the service takes it for, or Rejected
  signed        \* the canonical token of that number, or Exponential

vars == <<wrote, token, read, signed>>

Abs(v) == IF v < 0 THEN -v ELSE v
Like(v, n) == IF v < 0 THEN -n ELSE n

Power(b) == LET power[n \in Nat] == IF n = 0 THEN 1 ELSE b * power[n - 1] IN power
Two == Power(2)
Ten == Power(10)

Safe(v) == Abs(v) <= Two[Precision] - 1

\* The power of two that is the last place of a number of that size.
IsPlace(n, e) == n < Two[Precision + e] /\ (e > 0 => n >= Two[Precision + e - 1])
Unit(n) == Two[CHOOSE e \in 0 .. TopBit : IsPlace(n, e)]

\* float(value): to the nearest, ties to an even last place.
Round(n) ==
  LET u == Unit(n)
      q == n \div u
      r == n % u
  IN  IF 2 * r < u \/ (2 * r = u /\ q % 2 = 0) THEN q * u ELSE (q + 1) * u

Float(v) == Like(v, Round(Abs(v)))

\* OverflowError.
Overflows(v) == Abs(v) >= Two[TopBit + 1] \/ Abs(Float(v)) >= Two[TopBit]

\* The decimals with zeros from place j on that denote n, next to it.
Near(n, j) ==
  LET below == n - (n % Ten[j])
  IN  {c \in {below, below + Ten[j]} : c < Two[TopBit] /\ Round(c) = n}

\* The shortest digits that denote the number, the nearest of them.
Shortest(x) ==
  LET n == Abs(x)
      j == Max({i \in 0 .. Digits : Near(n, i) # {}})
  IN  Like(x, CHOOSE c \in Near(n, j) : \A d \in Near(n, j) : Abs(c - n) <= Abs(d - n))

Written(x) == IF Abs(x) < Ten[Digits] THEN Shortest(x) ELSE Exponential

\* Mutant: only exact integers.
AdaptedExact(v) ==
  IF Safe(v) THEN v
  ELSE IF Overflows(v) THEN Rejected
  ELSE IF Float(v) = v THEN Float(v) ELSE Rejected

\* Mutant: whatever float makes of it.
AdaptedAny(v) ==
  IF Safe(v) THEN v ELSE IF Overflows(v) THEN Rejected ELSE Float(v)

\* _binary64_numbers.
Adapted(v) ==
  IF Safe(v) THEN v
  ELSE IF Overflows(v) THEN Rejected
  ELSE IF Float(v) = v \/ Written(Float(v)) = v THEN Float(v) ELSE Rejected

Tokens  == -MaxToken .. MaxToken
Numbers == {x \in -Two[TopBit] .. Two[TopBit] : Safe(x) \/ (~Overflows(x) /\ Float(x) = x)}

Init == wrote = None /\ token = None /\ read = None /\ signed = None

\* JSON.stringify of a number, or of an integer of another kind.
Stringify(x) ==
  /\ token = None /\ Written(x) # Exponential
  /\ wrote' = x /\ token' = Written(x) /\ UNCHANGED <<read, signed>>

WriteInteger(v) ==
  /\ token = None
  /\ wrote' = Any /\ token' = v /\ UNCHANGED <<read, signed>>

Read ==
  /\ token # None /\ read = None
  /\ read' = Adapted(token) /\ UNCHANGED <<wrote, token, signed>>

\* rfc8785.dumps: what is hashed, signed and stored as a digest.
Sign ==
  /\ read \notin {None, Rejected} /\ signed = None
  /\ signed' = Written(read) /\ UNCHANGED <<wrote, token, read>>

Answer ==
  /\ read = Rejected \/ signed # None
  /\ wrote' = None /\ token' = None /\ read' = None /\ signed' = None

Next ==
  \/ \E x \in Numbers : Stringify(x)
  \/ \E v \in Tokens : WriteInteger(v)
  \/ Read \/ Sign \/ Answer

Spec == Init /\ [][Next]_vars

-----------------------------------------------------------------------------
(* Properties.                                                             *)

\* What JSON.stringify makes of a number is accepted, read as that number, and
\* signed with the very digits the client wrote: both sign the same bytes.
StringifiedIsSigned ==
  wrote \in Int /\ read # None => read = wrote /\ signed \in {None, token}

\* A token is accepted just when it is a number, or the way one is written.
OnlyNumbersAreRead ==
  read # None =>
    (read # Rejected <=> \E x \in Numbers : token = x \/ token = Written(x))
=============================================================================
