------------------------------ MODULE EnvFile ------------------------------
(***************************************************************************)
(* A line of an env file (config/loader.py): its value is written          *)
(* character by character in one of three styles, and load_env_file()      *)
(* reads it back.  One action is what the parser does up to its loop over  *)
(* the escapes, or one iteration of that loop.                             *)
(***************************************************************************)
EXTENDS Naturals, Sequences, FiniteSets, SequencesExt

CONSTANTS
  Letters,    \* characters of a value, among "x", "n", "space", "hash", "double", "single",
              \* "backslash" and "newline"
  Tails,      \* what may stand behind a value on its line
  MaxLength   \* bound on the length of a value

VARIABLES
  style,      \* how the value is written: "bare", or within "double" or "single" quotes
  text,       \* the value meant
  raw,        \* the value as it is written, up to the quote that closes it
  stage,      \* "write", "decode", "read" or "refused" (ValueError)
  inner, position, result  \* value, index and result of the loop over the escapes

valueVars == <<style, text, raw, stage, inner, position, result>>

Init ==
  /\ style \in {"bare", "double", "single"}
  /\ text = << >>
  /\ raw = IF style = "bare" THEN << >> ELSE <<style>>
  /\ stage = "write"
  /\ inner = << >> /\ position = 1 /\ result = << >>

-----------------------------------------------------------------------------
(* The writer                                                              *)

Escape(c) ==
  CASE c = "newline" -> <<"backslash", "n">>
    [] c \in {"double", "backslash"} -> <<"backslash", c>>
    [] OTHER -> <<c>>

\* Only double quotes have escapes: no line holds a newline, and no value in single quotes
\* one of those.
Write ==
  /\ stage = "write" /\ Len(text) < MaxLength
  /\ \E c \in Letters :
       /\ style # "double" => c # "newline"
       /\ style = "single" => c # "single"
       /\ text' = Append(text, c)
       /\ raw' = raw \o (IF style = "double" THEN Escape(c) ELSE <<c>>)
  /\ UNCHANGED <<style, stage, inner, position, result>>

\* Without quotes a value has no blanks around it and holds nothing that begins a comment.
Plain(v) ==
  /\ v # << >> => v[1] \notin {"double", "single", "space", "hash"} /\ v[Len(v)] # "space"
  /\ \A i \in 2 .. Len(v) : v[i] = "hash" => v[i - 1] # "space"

\* Blanks, and a comment if there is more; only a quote may be followed by a comment at once.
Follows(tail) == style = "bare" /\ tail # << >> => tail[1] = "space"

Line(tail) == (IF style = "bare" THEN raw ELSE Append(raw, style)) \o tail

-----------------------------------------------------------------------------
(* The parser                                                              *)

Strip(v) ==
  LET kept == {i \in DOMAIN v : v[i] # "space"} IN
  IF kept = {} THEN << >> ELSE SubSeq(v, Min(kept), Max(kept))

\* Mutant: only the character before is looked at.
EscapedByOne(v, i) == v[i - 1] = "backslash"

EscapedByBackslash(v, i) ==
  LET run == {k \in 1 .. i - 1 : \A m \in k .. i - 1 : v[m] = "backslash"} IN
  Cardinality(run) % 2 = 1

ClosingQuotes(v) ==
  {i \in 2 .. Len(v) : v[i] = v[1] /\ (v[1] = "double" => ~EscapedByBackslash(v, i))}

Hashes(v) == {i \in DOMAIN v : v[i] = "hash" /\ (i = 1 \/ v[i - 1] = "space")}

StripComment(v) == IF Hashes(v) = {} THEN v ELSE SubSeq(v, 1, Min(Hashes(v)) - 1)

Refuse == stage' = "refused" /\ UNCHANGED <<inner, result>>

Returns(v) == stage' = "read" /\ result' = v /\ UNCHANGED inner

ParseQuoted(v) ==
  LET closing == Min(ClosingQuotes(v))
      suffix == Strip(SubSeq(v, closing + 1, Len(v)))
      quoted == SubSeq(v, 2, closing - 1)
  IN
  \/ /\ ClosingQuotes(v) = {} \/ (suffix # << >> /\ suffix[1] # "hash")
     /\ Refuse
  \/ /\ ClosingQuotes(v) # {} /\ (suffix # << >> => suffix[1] = "hash")
     /\ \/ v[1] = "single" /\ Returns(quoted)
        \/ v[1] = "double" /\ stage' = "decode" /\ inner' = quoted /\ UNCHANGED result

\* _parse_env_value() on what is left of the line without outer blanks
ParseValue(v) ==
  \/ v = << >> /\ Returns(<< >>)
  \/ v # << >> /\ v[1] \in {"double", "single"} /\ ParseQuoted(v)
  \/ v # << >> /\ v[1] \notin {"double", "single"} /\ Returns(Strip(StripComment(v)))

Parse ==
  /\ stage = "write" /\ (style = "bare" => Plain(text))
  /\ \E tail \in Tails : Follows(tail) /\ ParseValue(Strip(Line(tail)))
  /\ UNCHANGED <<style, text, raw, position>>

Meaning(c) ==
  CASE c = "n" -> <<"newline">>
    [] c \in {"double", "backslash"} -> <<c>>
    [] OTHER -> <<"backslash", c>>

\* _decode_double_quoted_env_value()
Decode ==
  /\ stage = "decode" /\ position <= Len(inner)
  /\ IF inner[position] # "backslash" \/ position = Len(inner)
     THEN result' = Append(result, inner[position]) /\ position' = position + 1
     ELSE result' = result \o Meaning(inner[position + 1]) /\ position' = position + 2
  /\ UNCHANGED <<style, text, raw, stage, inner>>

DecodeEnds ==
  /\ stage = "decode" /\ position > Len(inner)
  /\ stage' = "read"
  /\ UNCHANGED <<style, text, raw, inner, position, result>>

Next == Write \/ Parse \/ Decode \/ DecodeEnds

Spec == Init /\ [][Next]_valueVars

-----------------------------------------------------------------------------

\* Whatever a value holds, quotes, escapes and hashes included, it is accepted and read back
\* as it was meant, with a comment behind it or not.
ReadsBack ==
  /\ stage # "refused"
  /\ stage = "read" => result = text
=============================================================================
