----------------------------- MODULE RuleTokens -----------------------------
(***************************************************************************)
(* The tokens of a rules document (rules/lexer.rs).  A text is a sequence  *)
(* of characters; a keyword stands for one letter, so that a word is a     *)
(* keyword when it is that letter alone.  Case and source spans are left   *)
(* out.  A reading is [ok, rest, v], or [ok, why] when it is refused.      *)
(***************************************************************************)
EXTENDS Integers, Sequences, FiniteSetsExt

CONSTANTS
  Letters,   \* the characters a word starts with, keywords included
  Digits

Spaces == {" ", "\n"}
Punctuation == {"[", "]", "(", ")", "{", "}", ",", ";", ":", "!", "@", "+", "-", "*", "/", "=", "<", ">"}
Doubled == {<<"-", ">">>, <<"<", "=">>, <<"<", ">">>, <<">", "=">>}
Spelled == [pair \in Doubled |->
              CASE pair = <<"-", ">">> -> "->" [] pair = <<"<", "=">> -> "<="
                [] pair = <<"<", ">">> -> "<>" [] OTHER -> ">="]

Got(rest, v) == [ok |-> TRUE, rest |-> rest, v |-> v]
Refuse(why) == [ok |-> FALSE, why |-> why]
Then(r, Next(_, _)) == IF r.ok THEN Next(r.rest, r.v) ELSE r

Tok(kind, v) == [kind |-> kind, v |-> v]
Mark(kind) == Tok(kind, <<>>)

\* The text from its n-th character on, and the first place that holds c.
From(text, n) == SubSeq(text, n, Len(text))
FirstAt(text, start, At(_)) ==
  LET places == {i \in start .. Len(text) : At(i)} IN IF places = {} THEN 0 ELSE Min(places)
FirstTwo(text) == IF Len(text) < 2 THEN text ELSE SubSeq(text, 1, 2)
Run(text, chars) ==
  LET end == FirstAt(text, 1, LAMBDA i : text[i] \notin chars)
  IN IF end = 0 THEN Len(text) ELSE end - 1

\* A quoted name or string: a closing mark that is doubled stands for one.
RECURSIVE Quoted(_, _, _)
Quoted(close, text, sofar) ==
  LET end == FirstAt(text, 1, LAMBDA i : text[i] = close)
      body == sofar \o SubSeq(text, 1, end - 1)
  IN IF end = 0 THEN Refuse("unterminated")
     ELSE IF end < Len(text) /\ text[end + 1] = close THEN Quoted(close, From(text, end + 2), Append(body, close))
     ELSE Got(From(text, end + 1), body)

\* Digits, and a point with the digits after it.
Number(text) ==
  LET whole == Run(text, Digits)
      point == whole < Len(text) /\ text[whole + 1] = "."
      all == IF point THEN whole + 1 + Run(From(text, whole + 2), Digits) ELSE whole
  IN Got(From(text, all + 1), Tok("number", SubSeq(text, 1, all)))

\* Past a comment: to the end of the line, or past the closing mark.
PastLine(text) == LET end == FirstAt(text, 1, LAMBDA i : text[i] = "\n")
                  IN IF end = 0 THEN <<>> ELSE From(text, end)
PastBlock(text) == FirstAt(text, 3, LAMBDA i : i < Len(text) /\ text[i] = "*" /\ text[i + 1] = "/")

\* The next token of a text that starts with no space and no comment.
NextToken(text) ==
  LET c == text[1]
      pair == FirstTwo(text)
      word == Run(text, Letters \cup Digits)
  IN CASE pair \in Doubled -> Got(From(text, 3), Mark(Spelled[pair]))
       [] c \in Punctuation -> Got(Tail(text), Mark(c))
       [] c = "'" -> Then(Quoted("'", Tail(text), <<>>), LAMBDA rest, v : Got(rest, Tok("quoted", v)))
       [] c \in Digits -> Number(text)
       [] c \in Letters -> Got(From(text, word + 1), Tok("word", SubSeq(text, 1, word)))
       [] OTHER -> Refuse("unexpected character")

RECURSIVE Lex(_, _)
Lex(text, toks) ==
  CASE text = <<>> -> Got(<<>>, toks)
    [] text[1] \in Spaces -> Lex(Tail(text), toks)
    [] text[1] = "#" -> Lex(PastLine(text), toks)
    [] FirstTwo(text) = <<"/", "*">> ->
         IF PastBlock(text) = 0 THEN Refuse("unterminated comment")
         ELSE Lex(From(text, PastBlock(text) + 2), toks)
    [] OTHER -> Then(NextToken(text), LAMBDA rest, t : Lex(rest, Append(toks, t)))
=============================================================================
