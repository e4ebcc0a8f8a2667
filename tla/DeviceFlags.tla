----------------------------- MODULE DeviceFlags -----------------------------
(***************************************************************************)
(* The parser of the device-add-flags option (src/src/device_flags.py).    *)
(*                                                                         *)
(* A flag string is a sequence of symbols.  "," and " " are the separator *)
(* and the whitespace characters; every other symbol stands for a run of  *)
(* letters (a word), so that split(","), strip() and lower() act on the   *)
(* string exactly as they act on its characters.  Lower maps each word to *)
(* its lower-case form.                                                    *)
(***************************************************************************)
EXTENDS Naturals, Sequences, SequencesExt

CONSTANTS
    Comma,       \* the character ","
    Space,       \* a whitespace character
    Words,       \* the letter runs that may occur in the option
    Lower(_),    \* str.lower() on a word
    WipeOsd,     \* the word "wipe:osd"
    EncryptOsd   \* the word "encrypt:osd"

Char == Words \cup {Comma, Space}

(* VALID_FLAGS, as the one-word tokens it accepts. *)
VALID_FLAGS == {<<WipeOsd>>, <<EncryptOsd>>}

(* DeviceAddFlags() and the ValueError raised for an unknown token. *)
DeviceAddFlags(w, e) == [ok |-> TRUE, wipe_osd |-> w, encrypt_osd |-> e]
UnknownFlag(t) == [ok |-> FALSE, flag |-> t]

IsBlank(s) == \A i \in DOMAIN s : s[i] = Space

(* str.strip(): drop leading and trailing whitespace. *)
RECURSIVE Strip(_)
Strip(s) ==
    IF s = <<>> THEN s
    ELSE IF Head(s) = Space THEN Strip(Tail(s))
    ELSE IF Last(s) = Space THEN Strip(Front(s))
    ELSE s

LowerSeq(s) == [i \in DOMAIN s |-> IF s[i] \in Words THEN Lower(s[i]) ELSE s[i]]

(* str.split(","): the tokens between separators, empty ones included. *)
RECURSIVE Split(_)
Split(s) ==
    LET i == SelectInSeq(s, LAMBDA c : c = Comma) IN
    IF i = 0 THEN <<s>>
    ELSE <<SubSeq(s, 1, i - 1)>> \o Split(SubSeq(s, i + 1, Len(s)))

(* The for-loop of parse_device_add_flags over the tokens from index k:   *)
(* an empty token is skipped, an unknown one raises, a known one sets its *)
(* field.                                                                  *)
(* Mutant: an empty token ("wipe:osd,,") is reported as an unknown flag. *)
RECURSIVE ParseTokensNoSkip(_, _, _)
ParseTokensNoSkip(toks, k, result) ==
    IF k > Len(toks) THEN result
    ELSE LET flag == LowerSeq(Strip(toks[k])) IN
         IF flag \notin VALID_FLAGS THEN UnknownFlag(flag)
         ELSE ParseTokensNoSkip(toks, k + 1,
                 IF flag = <<WipeOsd>> THEN [result EXCEPT !.wipe_osd = TRUE]
                 ELSE [result EXCEPT !.encrypt_osd = TRUE])

RECURSIVE ParseTokens(_, _, _)
ParseTokens(toks, k, result) ==
    IF k > Len(toks) THEN result
    ELSE LET flag == LowerSeq(Strip(toks[k])) IN
         IF flag = <<>> THEN ParseTokens(toks, k + 1, result)
         ELSE IF flag \notin VALID_FLAGS THEN UnknownFlag(flag)
         ELSE IF flag = <<WipeOsd>>
              THEN ParseTokens(toks, k + 1, [result EXCEPT !.wipe_osd = TRUE])
              ELSE ParseTokens(toks, k + 1, [result EXCEPT !.encrypt_osd = TRUE])

parse_device_add_flags(flags_str) ==
    IF flags_str = <<>> \/ IsBlank(flags_str)
    THEN DeviceAddFlags(FALSE, FALSE)
    ELSE ParseTokens(Split(flags_str), 1, DeviceAddFlags(FALSE, FALSE))

-----------------------------------------------------------------------------
(***************************************************************************)
(* A reference definition of the same function, written from positions   *)
(* rather than by recursion: the tokens lie between consecutive commas,   *)
(* trimming keeps the span between the first and last non-space symbol,  *)
(* and the error names the first unknown token.                            *)
(***************************************************************************)
RefTokens(s) ==
    LET bounds == <<0>> \o SetToSortSeq({i \in DOMAIN s : s[i] = Comma}, <)
                      \o <<Len(s) + 1>>
    IN [k \in 1..(Len(bounds) - 1) |-> SubSeq(s, bounds[k] + 1, bounds[k + 1] - 1)]

RefTrim(t) ==
    LET inner == {i \in DOMAIN t : t[i] # Space} IN
    IF inner = {} THEN <<>>
    ELSE LowerSeq(SubSeq(t, Min(inner), Max(inner)))

RefParse(s) ==
    LET toks == RefTokens(s)
        norm == [k \in DOMAIN toks |-> RefTrim(toks[k])]
        bad  == {k \in DOMAIN norm : norm[k] # <<>> /\ norm[k] \notin VALID_FLAGS}
    IN IF bad # {} THEN UnknownFlag(norm[Min(bad)])
       ELSE DeviceAddFlags(\E k \in DOMAIN norm : norm[k] = <<WipeOsd>>,
                           \E k \in DOMAIN norm : norm[k] = <<EncryptOsd>>)

-----------------------------------------------------------------------------
(* Every flag string up to MaxLen symbols is an initial state. *)
CONSTANT MaxLen

VARIABLE input

Init == input \in BoundedSeq(Char, MaxLen)
Next == UNCHANGED input
Spec == Init /\ [][Next]_input

(* parse_device_add_flags agrees with the reference on every string: it   *)
(* is case-, whitespace-, order- and duplicate-insensitive, ignores empty *)
(* tokens, and reports the first unknown token.                            *)
ParseMatchesReference == parse_device_add_flags(input) = RefParse(input)
=============================================================================
