---------------------------- MODULE PrefixRange ----------------------------
(***************************************************************************)
(* The range_end that EtcdClientV3::Range and EtcdWatcher::Watch compute   *)
(* for with_prefix, and what etcd makes of it.  A key is a sequence of     *)
(* bytes; the code computes with char, which is signed and as wide as a    *)
(* byte.                                                                   *)
(***************************************************************************)
EXTENDS Integers, Sequences, SequencesExt

CONSTANTS
  Byte,      \* number of byte values, 256 in the code
  MaxLen     \* bound on the length of keys

ASSUME ByteAssumption == Byte \in Nat \ {0} /\ Byte % 2 = 0
ASSUME LenAssumption == MaxLen \in Nat \ {0}

Key == UNION {[1 .. n -> 0 .. Byte - 1] : n \in 1 .. MaxLen}

\* A byte as a signed char, and what a char keeps of an int.
Signed(b) == IF b < Byte \div 2 THEN b ELSE b - Byte
Narrow(i) == i % Byte

\* Mutant: the sum is kept below the largest char.
SaturatedEnd(k) ==
  [k EXCEPT ![Len(k)] = Narrow(IF Signed(@) + 1 = Byte \div 2 THEN Signed(@) ELSE Signed(@) + 1)]

\* range_end.back() = (int)range_end.back() + 1; the key must not be empty.
RangeEnd(k) == [k EXCEPT ![Len(k)] = Narrow(Signed(@) + 1)]

----------------------------------------------------------------------------
(* etcd: keys are compared byte by byte, unsigned; the end is exclusive,   *)
(* and the end of one byte 0 stands for no end at all.                     *)

NoEnd == <<0>>

Less(a, b) ==
  \/ IsStrictPrefix(a, b)
  \/ \E i \in DOMAIN a \cap DOMAIN b :
       a[i] < b[i] /\ \A j \in 1 .. i - 1 : a[j] = b[j]

Selected(key, range_end, k) ==
  ~Less(k, key) /\ (range_end = NoEnd \/ Less(k, range_end))
=============================================================================
