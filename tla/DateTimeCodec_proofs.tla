------------------------ MODULE DateTimeCodec_proofs ------------------------
(***************************************************************************)
(* Proof that re-encoding an expiry never extends it, for every year       *)
(* bound, every length of a year and every set of offsets.                 *)
(***************************************************************************)
EXTENDS DateTimeCodec, TLAPS

USE ConstantsAssumption

(***************************************************************************)
(* format_datetime writes the whole seconds of the instant: read back,     *)
(* its text names the instant rounded down to a whole second.             *)
(***************************************************************************)
\* Every offset is a whole number of seconds.
LEMMA OffsetsInt == Offsets \subseteq Int
<1>1. \A x \in -(SecondsPerYear - 1)..(SecondsPerYear - 1) : x \in Int
  OBVIOUS
<1> QED BY <1>1, ConstantsAssumption

LEMMA FormatOfInstant ==
  ASSUME NEW v \in Int
  PROVE  /\ FormatOf(v) \in Text(Int)
         /\ InstantOf(FormatOf(v)) = 2 * (v \div 2)
<1> DEFINE s == v \div 2
<1>1. s \in Int
  OBVIOUS
<1>2. s \div SecondsPerYear \in Int /\ s % SecondsPerYear \in 0..(SecondsPerYear - 1)
  BY <1>1
<1>3. (s \div SecondsPerYear) * SecondsPerYear + (s % SecondsPerYear) = s
  BY <1>1
<1>4. FormatOf(v) \in Text(Int)
  BY <1>2 DEF FormatOf, Text
<1>5. InstantOf(FormatOf(v)) = 2 * ((s \div SecondsPerYear) * SecondsPerYear + (s % SecondsPerYear) - 0) + 0
  BY DEF FormatOf, InstantOf
<1> QED BY <1>3, <1>4, <1>5

(***************************************************************************)
(* The inductive invariant: the types, a decoded value whenever one is in  *)
(* hand or a codec text was written, and the bound of ExpiryNeverExtended. *)
(***************************************************************************)
IInv ==
  /\ TypeOK
  /\ status = "value" => value \in Int
  /\ writer = "codec" => value \in Int
  /\ ExpiryNeverExtended

LEMMA InitIInv == Init => IInv
BY DEF Init, IInv, TypeOK, WireTexts, Text, ExpiryNeverExtended

LEMMA NextIInv == IInv /\ [Next]_vars => IInv'
<1> SUFFICES ASSUME IInv, [Next]_vars PROVE IInv'
  OBVIOUS
<1>1. CASE ParseOk
  <2>1. InstantOf(text) \in Int
    <3>0. text.year \in Int /\ text.second \in 0..(SecondsPerYear - 1)
          /\ text.frac \in {0, 1} /\ text.offset \in Offsets
      BY DEF IInv, TypeOK, Text
    <3>1. text.offset \in Int
      BY <3>0, OffsetsInt
    <3>2. text.year \in Int /\ text.second \in Int /\ text.frac \in Int
      BY <3>0, ConstantsAssumption
    <3> QED BY <3>1, <3>2 DEF InstantOf
  <2> QED BY <1>1, <2>1 DEF ParseOk, IInv, TypeOK, ExpiryNeverExtended
<1>2. CASE ParseError
  BY <1>2 DEF ParseError, IInv, TypeOK, ExpiryNeverExtended
<1>3. CASE FormatDatetime
  <2>1. value \in Int
    BY <1>3 DEF FormatDatetime, IInv
  <2>2. text' \in Text(Int) /\ InstantOf(text') = 2 * (value \div 2)
    BY <1>3, <2>1, FormatOfInstant DEF FormatDatetime
  <2>3. 2 * (value \div 2) <= value /\ value < 2 * (value \div 2) + 2
    BY <2>1
  <2> QED BY <1>3, <2>1, <2>2, <2>3 DEF FormatDatetime, IInv, TypeOK, ExpiryNeverExtended
<1>4. CASE Refetch
  BY <1>4 DEF Refetch, IInv, TypeOK, WireTexts, Text, ExpiryNeverExtended
<1>5. CASE UNCHANGED vars
  BY <1>5 DEF vars, IInv, TypeOK, ExpiryNeverExtended
<1> QED BY <1>1, <1>2, <1>3, <1>4, <1>5 DEF Next

(***************************************************************************)
(* For every year bound, length of a year and set of offsets smaller than  *)
(* a year: the expiry format_datetime writes for a decoded DateTime names  *)
(* an instant no later than it and less than a second earlier, so that     *)
(* re-encoding a metadata document never extends its validity.             *)
(***************************************************************************)
THEOREM ReencodeNeverExtends == Spec => []ExpiryNeverExtended
<1>1. Init => IInv
  BY InitIInv
<1>2. IInv /\ [Next]_vars => IInv'
  BY NextIInv
<1>3. IInv => ExpiryNeverExtended
  BY DEF IInv
<1> QED BY <1>1, <1>2, <1>3, PTL DEF Spec

(* Every text the codec meets or writes is a well-formed date-time text    *)
(* with an offset, and parse_datetime / format_datetime only ever hold an  *)
(* integer instant: format_datetime's output stays inside the grammar      *)
(* parse_datetime reads, for every year bound and set of offsets.          *)
THEOREM DateTimeTypeCorrect == Spec => []TypeOK
<1>1. Init => IInv
  BY InitIInv
<1>2. IInv /\ [Next]_vars => IInv'
  BY NextIInv
<1>3. IInv => TypeOK
  BY DEF IInv
<1> QED BY <1>1, <1>2, <1>3, PTL DEF Spec

=============================================================================
