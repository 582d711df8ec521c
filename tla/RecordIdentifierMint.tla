------------------------- MODULE RecordIdentifierMint -------------------------
(***************************************************************************)
(* The mint of record identifiers (store.rs, RecordIdentifierMint and      *)
(* RecordIdentifierCodeRange): for each length of code, from the shortest  *)
(* on, a number of random draws, then a scan of the length's whole range.  *)
(*                                                                         *)
(* A store mints for one record at a time and sees its live identifiers as *)
(* they are, so the mint is a relation between the identifiers in use and  *)
(* the ones it may answer: how often it draws does not matter, since every *)
(* draw may be of a used one and the scan comes after the last.            *)
(***************************************************************************)
EXTENDS Integers

CONSTANTS
  Radix,       \* digits of a code
  MinLength,   \* shortest code
  MaxLength,   \* longest code that is minted
  Bits         \* what the system's random source may give

Lengths == MinLength..MaxLength

\* radix_power
Power(exponent) == Radix ^ exponent

\* Of arithmetic the mint uses only that longer codes are more.
ASSUME MintAssumption ==
  /\ MinLength \in Nat \ {0}
  /\ MaxLength \in Nat
  /\ MinLength <= MaxLength
  /\ \A length \in Lengths :
       /\ Power(length - 1) \in Nat
       /\ Power(length) \in Nat
       /\ Power(length - 1) < Power(length)
  /\ Bits \subseteq Nat

\* Mutant: the shortest length starts where its first digit is not zero.
FirstValueOfUnpadded(length) == Power(length - 1)

\* RecordIdentifierCodeRange::new: the shortest codes are padded with zeros.
FirstValue(length) == IF length = MinLength THEN 0 ELSE Power(length - 1)

\* Mutant: one code too few.
ValueCountShort(length) == Power(length) - FirstValue(length) - 1

ValueCount(length) == Power(length) - FirstValue(length)

Codes(length) == FirstValue(length)..(FirstValue(length) + ValueCount(length) - 1)

\* random_identifier
Draw(length, bits) == FirstValue(length) + (bits % ValueCount(length))

\* An unused draw is answered at once.
MayDraw(length, used, id) ==
  \E bits \in Bits : id = Draw(length, bits) /\ id \notin used

\* first_available_identifier
IsFirstAvailable(length, used, id) ==
  /\ id \in Codes(length) \ used
  /\ \A smaller \in Codes(length) : smaller < id => smaller \in used

\* The scan has found nothing.
IsExhausted(length, used) == Codes(length) \subseteq used

\* next_identifier
MayMint(used, id) ==
  \E length \in Lengths :
    /\ \A shorter \in Lengths : shorter < length => IsExhausted(shorter, used)
    /\ MayDraw(length, used, id) \/ IsFirstAvailable(length, used, id)

-----------------------------------------------------------------------------
(* Reference: the length of a code is the number of digits it is written   *)
(* with.                                                                   *)

Digits(id) ==
  CHOOSE n \in Lengths :
    id < Radix ^ n /\ \A m \in Lengths : id < Radix ^ m => n <= m

ShortCodes == 0..(Radix ^ MaxLength - 1)
==============================================================================
