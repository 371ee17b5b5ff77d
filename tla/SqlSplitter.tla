---------------------------- MODULE SqlSplitter ----------------------------
(***************************************************************************)
(* split_sql_statements() (database/migrations.py), which cuts a migration *)
(* file at its semicolons, checked against what the tokens of MySQL are.   *)
(* One action is one iteration of its loop.  A script is a sequence of     *)
(* characters, of which only those that the splitter looks at are told     *)
(* apart, and a text taken from it is the set of its positions: characters *)
(* are appended in the order of the script.                                *)
(***************************************************************************)
EXTENDS Naturals, Sequences, FiniteSets, SequencesExt

CONSTANTS
  Characters,  \* among "'", "double quote", "backtick", ";", "-", "/", "*", "hash", "bang",
               \* "backslash", "newline", "space" and others
  MaxScript    \* bound on the length of a script

VARIABLES
  script,
  index, statements, buffer, quote, in_line_comment, in_block_comment,
  done  \* split_sql_statements() has returned statements

mode == <<quote, in_line_comment, in_block_comment>>

scriptVars == <<script, index, statements, buffer, mode, done>>

Quotes == {"'", "double quote", "backtick"}
NoQuote == "none"

Init ==
  /\ script = << >>
  /\ index = 1 /\ statements = << >> /\ buffer = {}
  /\ quote = NoQuote /\ in_line_comment = FALSE /\ in_block_comment = FALSE
  /\ done = FALSE

\* Every script is reached by writing it, before the loop begins.
Write ==
  /\ index = 1 /\ ~done
  /\ Len(script) < MaxScript
  /\ \E c \in Characters : script' = Append(script, c)
  /\ UNCHANGED <<index, statements, buffer, mode, done>>

-----------------------------------------------------------------------------
(* The loop                                                                *)

CharAt(sql, i) == IF i \in DOMAIN sql THEN sql[i] ELSE ""

StartsLineComment(sql, i) == sql[i] = "-" /\ CharAt(sql, i + 1) = "-"
StartsBlockComment(sql, i) == sql[i] = "/" /\ CharAt(sql, i + 1) = "*"

Blank(c) == c \in {"newline", "space"}

Strip(sql, text) ==
  {k \in text : \E i, j \in text : i <= k /\ k <= j /\ ~Blank(sql[i]) /\ ~Blank(sql[j])}

AppendStatement ==
  LET statement == Strip(script, buffer) IN
  statements' = IF statement = {} THEN statements ELSE Append(statements, statement)

Goes(steps) == index' = index + steps /\ UNCHANGED <<script, done>>

Keep == buffer' = buffer \cup {index}

\* Mutant: the newline that ends a comment is part of it.
LineCommentEaten ==
  /\ in_line_comment' = (script[index] # "newline")
  /\ Goes(1) /\ UNCHANGED <<statements, buffer, quote, in_block_comment>>

InLineComment ==
  /\ in_line_comment' = (script[index] # "newline")
  /\ buffer' = IF script[index] = "newline" THEN buffer \cup {index} ELSE buffer
  /\ Goes(1) /\ UNCHANGED <<statements, quote, in_block_comment>>

InBlockComment ==
  LET ends == script[index] = "*" /\ CharAt(script, index + 1) = "/" IN
  /\ in_block_comment' = ~ends
  /\ Goes(IF ends THEN 2 ELSE 1)
  /\ UNCHANGED <<statements, buffer, quote, in_line_comment>>

EntersLineComment ==
  /\ quote = NoQuote /\ StartsLineComment(script, index)
  /\ in_line_comment' = TRUE
  /\ Goes(2) /\ UNCHANGED <<statements, buffer, quote, in_block_comment>>

EntersBlockComment ==
  /\ quote = NoQuote /\ StartsBlockComment(script, index)
  /\ in_block_comment' = TRUE
  /\ Goes(2) /\ UNCHANGED <<statements, buffer, quote, in_line_comment>>

Escaped == CharAt(script, index - 1) = "backslash"

UpdatedQuote ==
  IF quote = NoQuote THEN script[index]
  ELSE IF quote = script[index] /\ ~Escaped THEN NoQuote
  ELSE quote

AtQuote ==
  /\ script[index] \in Quotes
  /\ quote' = UpdatedQuote
  /\ Keep /\ Goes(1) /\ UNCHANGED <<statements, in_line_comment, in_block_comment>>

AtSeparator ==
  /\ quote = NoQuote /\ script[index] = ";"
  /\ AppendStatement
  /\ buffer' = {}
  /\ Goes(1) /\ UNCHANGED mode

AtCharacter ==
  /\ script[index] \notin Quotes
  /\ quote = NoQuote =>
       /\ script[index] # ";"
       /\ ~StartsLineComment(script, index) /\ ~StartsBlockComment(script, index)
  /\ Keep /\ Goes(1) /\ UNCHANGED <<statements, mode>>

Step ==
  /\ index <= Len(script)
  /\ \/ in_line_comment /\ InLineComment
     \/ ~in_line_comment /\ in_block_comment /\ InBlockComment
     \/ /\ ~in_line_comment /\ ~in_block_comment
        /\ EntersLineComment \/ EntersBlockComment \/ AtQuote \/ AtSeparator \/ AtCharacter

Return ==
  /\ index > Len(script) /\ ~done
  /\ AppendStatement
  /\ done' = TRUE
  /\ UNCHANGED <<script, index, buffer, mode>>

Stay == done /\ UNCHANGED scriptVars

Next == Write \/ Step \/ Return \/ Stay

Spec == Init /\ [][Next]_scriptVars

-----------------------------------------------------------------------------
(* Reference: to MySQL, with its default sql_mode, a script is a sequence  *)
(* of tokens, each of which begins where the one before it ends.  A        *)
(* doubled quote in a string is the end of one string and the beginning of *)
(* the next: no cut is between the two.                                    *)

\* Two hyphens begin a comment only if a blank or the end of the script follows them.
LineComment(sql, i) ==
  \/ sql[i] = "hash"
  \/ StartsLineComment(sql, i) /\ CharAt(sql, i + 2) \in {"newline", "space", ""}

\* Is the backslash before position j itself escaped, in the string that opens at i?
OddBackslashes(sql, i, j) ==
  LET run == {k \in i + 1 .. j - 1 : \A m \in k .. j - 1 : sql[m] = "backslash"} IN
  Cardinality(run) % 2 = 1

Kind(sql, i) ==
  CASE LineComment(sql, i) -> "line comment"
    [] StartsBlockComment(sql, i) -> "block comment"
    [] sql[i] \in Quotes -> "string"
    [] sql[i] = ";" -> "separator"
    [] OTHER -> "character"

\* A quote ends what it opened unless it is escaped, and between backticks nothing is.
Closes(sql, i, j) ==
  j > i /\ sql[j] = sql[i] /\ (sql[i] = "backtick" \/ ~OddBackslashes(sql, i, j))

\* May the token that begins at i end at j?
MayEnd(sql, i, j) ==
  LET kind == Kind(sql, i) IN
  \/ kind = "line comment" /\ CharAt(sql, j + 1) = "newline"
  \/ kind = "block comment" /\ j >= i + 3 /\ sql[j - 1] = "*" /\ sql[j] = "/"
  \/ kind = "string" /\ Closes(sql, i, j)
  \/ kind \in {"separator", "character"}

\* The last position of the token that begins at i: where it may end first, or the end of
\* the script.
TokenEnd(sql, i) ==
  LET ends == {j \in i .. Len(sql) : MayEnd(sql, i, j)} IN
  IF ends = {} THEN Len(sql) ELSE Min(ends)

\* Where the tokens begin: the least set with the first position and, for each of its
\* tokens, the position after it.
Tokens(sql) ==
  LET spans == {<<i, TokenEnd(sql, i)>> : i \in DOMAIN sql}
      closed ==
        {T \in SUBSET DOMAIN sql :
           /\ 1 \in DOMAIN sql => 1 \in T
           /\ \A t \in spans : t[1] \in T /\ t[2] < Len(sql) => t[2] + 1 \in T}
  IN {i \in DOMAIN sql : \A T \in closed : i \in T}

Separators(sql) == {i \in Tokens(sql) : Kind(sql, i) = "separator"}

Commented(sql) ==
  UNION {i .. TokenEnd(sql, i) :
           i \in {j \in Tokens(sql) : Kind(sql, j) \in {"line comment", "block comment"}}}

\* The text before a position and after the last separator before it, without comments.
Text(cut, separators, comments) ==
  {k \in (1 .. cut - 1) \ comments : \A s \in separators : s < cut => s < k}

\* A statement is the text before a separator or the end, without outer blanks.
Statements(sql) ==
  LET separators == Separators(sql)
      comments == Commented(sql)
  IN {Strip(sql, Text(cut, separators, comments)) :
        cut \in separators \cup {Len(sql) + 1}} \ {{}}

\* Where the splitter departs from MySQL: it takes a backslash for an escape though
\* another one escapes it, and though it is between backticks;
MisreadsBackslash(sql, i) ==
  /\ Kind(sql, i) = "string"
  /\ \E j \in i + 1 .. TokenEnd(sql, i) - 1 :
       /\ sql[j] = "backslash"
       /\ sql[j + 1] = "backslash" \/ (sql[i] = "backtick" /\ sql[j + 1] = "backtick")

\* it does not know the comments that # begins, and takes two hyphens for a comment though
\* no blank follows; and it leaves out the text that /*! has MySQL execute.
MisreadsComment(sql, i) ==
  \/ sql[i] = "hash"
  \/ StartsLineComment(sql, i) /\ ~LineComment(sql, i)
  \/ StartsBlockComment(sql, i) /\ CharAt(sql, i + 2) = "bang"

Misread(sql) == \E i \in Tokens(sql) : MisreadsBackslash(sql, i) \/ MisreadsComment(sql, i)

\* The splitter cuts a script exactly where MySQL ends a statement: never inside a string
\* or a comment, even one left open, and at every other semicolon.  It lists the statements
\* in their order, without their comments.  So it is for every script without one of the
\* constructs above, which the splitter does not know.
SplitsStatements ==
  done /\ ~Misread(script) =>
    /\ Range(statements) = Statements(script)
    /\ \A i, j \in DOMAIN statements : i < j =>
         \A k \in statements[i], l \in statements[j] : k < l
=============================================================================
