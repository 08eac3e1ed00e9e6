---------------------------- MODULE DateTimeCodec ----------------------------
(***************************************************************************)
(* The `expires` codec of src/tuf/src/pouf/pouf1/shims.rs, lines 26-42.   *)
(* parse_datetime reads RFC 3339 text (four-digit year, optional fraction, *)
(* `Z` or a numeric offset) and moves it to UTC; format_datetime writes    *)
(* `{:04}-{:02}-{:02}T{:02}:{:02}:{:02}Z` from the UTC calendar fields,    *)
(* dropping the fraction.                                                  *)
(*                                                                         *)
(* The calendar is scaled.  A year has SecondsPerYear seconds (no months,  *)
(* no leap years: what matters is where a year ends), YearMax stands for   *)
(* 9999, the last year `{:04}` writes in four digits, and an offset is a   *)
(* whole number of seconds smaller than a year.  Instants are counted in   *)
(* half seconds so that a non-zero fraction (or chrono's leap-second       *)
(* nanoseconds) is the odd half.  A text is the record of its fields; its  *)
(* year is the number the year field spells, and a year outside           *)
(* 0..YearMax is one that does not fit four digits (`{:04}` of 10000 is    *)
(* "10000", of -1 is "-001").                                              *)
(***************************************************************************)
EXTENDS Integers

CONSTANTS
  YearMax,         \* the largest year written with four digits (9999)
  SecondsPerYear,  \* seconds in a (scaled) year
  Offsets,         \* UTC offsets a text may carry, in seconds
  NoValue          \* no DateTime decoded yet

ASSUME ConstantsAssumption ==
  /\ YearMax \in Nat
  /\ SecondsPerYear \in Nat \ {0}
  /\ Offsets \subseteq -(SecondsPerYear - 1)..(SecondsPerYear - 1)
  /\ 0 \in Offsets
  /\ NoValue \notin Int

VARIABLES
  text,     \* the `expires` string of the document in hand
  writer,   \* "external" for a fetched document, "codec" after format_datetime
  value,    \* the DateTime<Utc> last decoded, in half seconds
  status    \* "text", "value" (decoded) or "error" (parse failed)

vars == <<text, writer, value, status>>

Text(Years) ==
  [year : Years, second : 0..(SecondsPerYear - 1), frac : {0, 1}, offset : Offsets]

\* What a document may carry: RFC 3339 text, or a year field of the wrong width.
WireTexts == Text(-1..(YearMax + 1))

(***************************************************************************)
(* parse_from_rfc3339 demands exactly four year digits and no sign.        *)
(***************************************************************************)
Parses(t) == t.year \in 0..YearMax

(* `.with_timezone(&Utc)`: the instant the text names, in half seconds.    *)
InstantOf(t) == 2 * (t.year * SecondsPerYear + t.second - t.offset) + t.frac

(* Mutant of FormatOf: the year is split off with Rust's `/`, which       *)
(* truncates towards zero, so an instant before year 0 gets a negative     *)
(* second-of-year.                                                         *)
FormatTruncating(v) ==
  LET s == v \div 2
      y == IF s < 0 THEN -((-s) \div SecondsPerYear) ELSE s \div SecondsPerYear
  IN  [year |-> y, second |-> s - y * SecondsPerYear, frac |-> 0, offset |-> 0]

(* Mutant of FormatOf: the fraction is rounded to the nearest second       *)
(* instead of dropped.                                                     *)
FormatRounded(v) ==
  LET s == (v + 1) \div 2
  IN  [year |-> s \div SecondsPerYear, second |-> s % SecondsPerYear,
       frac |-> 0, offset |-> 0]

(***************************************************************************)
(* format_datetime: the UTC calendar fields of the instant, whole seconds, *)
(* `Z`.  Calendar fields round towards the past (\div is floor division),  *)
(* also before year 0.                                                     *)
(***************************************************************************)
FormatOf(v) ==
  LET s == v \div 2
  IN  [year |-> s \div SecondsPerYear, second |-> s % SecondsPerYear,
       frac |-> 0, offset |-> 0]

Init ==
  /\ text \in WireTexts
  /\ writer = "external"
  /\ value = NoValue
  /\ status = "text"

(* parse_datetime returns Ok.                                              *)
ParseOk ==
  /\ status = "text"
  /\ Parses(text)
  /\ value' = InstantOf(text)
  /\ status' = "value"
  /\ UNCHANGED <<text, writer>>

(* parse_datetime returns Err(Encoding("Can't parse DateTime")).           *)
ParseError ==
  /\ status = "text"
  /\ ~Parses(text)
  /\ status' = "error"
  /\ UNCHANGED <<text, writer, value>>

(* The decoded metadata is encoded again: format_datetime(meta.expires()). *)
FormatDatetime ==
  /\ status = "value"
  /\ text' = FormatOf(value)
  /\ writer' = "codec"
  /\ status' = "text"
  /\ UNCHANGED value

(* The caller drops a document that failed to decode and fetches another.  *)
Refetch ==
  /\ status = "error"
  /\ text' \in WireTexts
  /\ writer' = "external"
  /\ status' = "text"
  /\ UNCHANGED value

Next == ParseOk \/ ParseError \/ FormatDatetime \/ Refetch

Spec == Init /\ [][Next]_vars

-----------------------------------------------------------------------------
TypeOK ==
  /\ text \in Text(Int)
  /\ writer \in {"external", "codec"}
  /\ value \in Int \cup {NoValue}
  /\ status \in {"text", "value", "error"}

(***************************************************************************)
(* Re-encoding never extends validity: the expiry format_datetime writes   *)
(* names an instant no later than the decoded one, and less than a second  *)
(* earlier, whatever the offset and fraction of the text it came from.     *)
(***************************************************************************)
ExpiryNeverExtended ==
  writer = "codec" =>
    /\ InstantOf(text) <= value
    /\ value < InstantOf(text) + 2

(***************************************************************************)
(* Spec section 8 (round trip, idempotent canonicalization): decoding      *)
(* never fails on an `expires` text that format_datetime itself wrote for  *)
(* a DateTime that parse_datetime had accepted.                            *)
(***************************************************************************)
CodecTextDecodes == status = "error" => writer = "external"

=============================================================================
