------------------------------- MODULE Values -------------------------------
(***************************************************************************)
(* The protocol types of watermelon-proto whose values are written to, or  *)
(* read from, control lines and header blocks: what their constructors     *)
(* accept and what their parsers return.                                   *)
(*                                                                         *)
(* A string is a sequence of symbols.  A symbol is one character, except   *)
(* Crlf, which stands for a line terminator, and the verbs of the protocol *)
(* (with the marker NATS/1.0), which are one symbol each.  A parser returns*)
(* a record whose field err is NoErr or the variant of its error enum.     *)
(***************************************************************************)
EXTENDS Naturals, SequencesExt, FiniteSetsExt

CONSTANT Letters            \* the characters without a meaning of their own

Crlf == "crlf"
Blanks == {" ", "tab"}
HighBytes == {"high"}        \* a byte >= 0x80
Digits == <<"0", "1", "2", "3", "4", "5", "6", "7", "8", "9">>
Verbs == {"PUB", "HPUB", "SUB", "UNSUB", "MSG", "HMSG", "NATS/1.0"}
Symbols == Letters \cup {Digits[i] : i \in 1..10} \cup Verbs \cup HighBytes \cup Blanks
             \cup {".", "*", ">", ":", Crlf}
Strings == Seq(Symbols)

NoErr == "ok"
Ok(v) == [err |-> NoErr, val |-> v]
Err(e) == [err |-> e, val |-> <<>>]
Accepts(r) == r.err = NoErr

IsAsciiDigit(b) == \E d \in 0..9 : Digits[d + 1] = b
DigitOf(b) == CHOOSE d \in 0..9 : Digits[d + 1] = b

(* itoa, and the decimal numbers a server writes. *)
Decimal[n \in Nat] ==
    IF n < 10 THEN <<Digits[n + 1]>>
    ELSE Append(Decimal[n \div 10], Digits[(n % 10) + 1])

(* parse_u16, parse_u64, parse_usize: max is the type's largest value, and *)
(* both the multiplication and the addition are checked.                   *)
NextDigit(acc, b, max) ==
    IF ~Accepts(acc) THEN acc
    ELSE IF ~IsAsciiDigit(b) THEN Err("InvalidByte")
    ELSE IF acc.val * 10 + DigitOf(b) > max THEN Err("Overflow")
    ELSE Ok(acc.val * 10 + DigitOf(b))

ParseUint(buf, max) ==
    LET val[s \in Strings] ==
            IF s = <<>> THEN Ok(0) ELSE NextDigit(val[Front(s)], Last(s), max)
    IN IF buf = <<>> THEN Err("Empty") ELSE val[buf]

(* Where the first of some symbols is, 0 when there is none; memchr.       *)
FirstOf(s, set) ==
    LET found == {i \in DOMAIN s : s[i] \in set}
    IN IF found = {} THEN 0 ELSE Min(found)

(* The tokens of a subject; Rust's str::split at the dots: a token may be  *)
(* empty, and there is always at least one.  Each is known by where it     *)
(* begins, and ends before a dot or with the subject.                      *)
TokenStarts(s) == {a \in 1..Len(s) + 1 : a > 1 => s[a - 1] = "."}
TokenEnd(s, a) == CHOOSE e \in a - 1..Len(s) :
                    /\ \A i \in a..e : s[i] # "."
                    /\ e < Len(s) => s[e + 1] = "."
Token(s, a) == SubSeq(s, a, TokenEnd(s, a))

(* What validate_subject says of one token. *)
BrokenWildcard(t) == Len(t) > 1 /\ \E k \in DOMAIN t : t[k] \in {"*", ">"}

(* A mutant: > is taken anywhere among the tokens. *)
TokenErrAnyTail(s, a) ==
    IF Token(s, a) = <<>> THEN "BrokenToken"
    ELSE IF BrokenWildcard(Token(s, a)) THEN "BrokenWildcard" ELSE NoErr

TokenErr(s, a) ==
    IF Token(s, a) = <<>> THEN "BrokenToken"
    ELSE IF \/ BrokenWildcard(Token(s, a))
            \/ Token(s, a) = <<">">> /\ TokenEnd(s, a) < Len(s)
         THEN "BrokenWildcard"
    ELSE NoErr

Separators == Blanks \cup {Crlf}
IsSeparated(s) == \E i \in DOMAIN s : s[i] \in Separators

(* validate_subject, in the order of its checks. *)
ValidateSubject(s) ==
    LET bad == {a \in TokenStarts(s) : TokenErr(s, a) # NoErr}
    IN IF s = <<>> THEN "Empty"
       ELSE IF IsSeparated(s) THEN "IllegalCharacter"
       ELSE IF bad # {} THEN TokenErr(s, Min(bad)) ELSE NoErr

(* validate_queue_group. *)
ValidateQueueGroup(s) ==
    IF s = <<>> THEN "Empty" ELSE IF IsSeparated(s) THEN "IllegalCharacter" ELSE NoErr

(* validate_header_name and validate_header_value_bytes. *)
ValidateHeaderName(s) ==
    IF s = <<>> THEN "Empty"
    ELSE IF \E i \in DOMAIN s : s[i] \in HighBytes \cup {Crlf, ":"} THEN "IllegalCharacter"
    ELSE NoErr

ValidateHeaderValue(s) ==
    IF \E i \in DOMAIN s : s[i] = Crlf THEN "IllegalCharacter" ELSE NoErr

(* from_static, FromStr and the TryFrom implementations of each type check *)
(* first and wrap the string as it is; from_dangerous_value checks again,  *)
(* in debug builds, and panics.                                            *)
Checked(e, s) == IF e = NoErr THEN Ok(s) ELSE Err(e)
NewSubject(s) == Checked(ValidateSubject(s), s)
NewQueueGroup(s) == Checked(ValidateQueueGroup(s), s)
NewHeaderName(s) == Checked(ValidateHeaderName(s), s)
NewHeaderValue(s) == Checked(ValidateHeaderValue(s), s)

(* SubscriptionId::from_ascii_bytes; MaxId stands for u64::MAX. *)
SubscriptionIdFrom(buf, maxId) == ParseUint(buf, maxId)

(* StatusCode::from_ascii_bytes and its TryFrom<u16>: three digits, and    *)
(* 100 to 999.                                                             *)
StatusCodeFrom(buf) ==
    LET n == ParseUint(buf, 65535)
    IN IF Len(buf) # 3 \/ ~Accepts(n) \/ n.val \notin 100..999
       THEN Err("StatusCodeError") ELSE n
=============================================================================
