------------------------------- MODULE Texts -------------------------------
(***************************************************************************)
(* The texts a user writes and what the program makes of them: a rules     *)
(* document, a set over a dimension (a dynamic subset, MdxEvaluator), a    *)
(* query over a cube (execute_mdx) and the CSV of a flow's input.  A       *)
(* source is [lang, text] with what its writer meant, where that is known; *)
(* reading it is one step.                                                 *)
(***************************************************************************)
EXTENDS Dimension

CONSTANTS
  Letters, Digits, MaxParseDepth, BuiltIns, MaxCsvRows,
  MaxDescendantsDepth, NumberOf, TextRank,
  Queried,   \* the cube a query is asked of; a set is over its first dimension
  FillIns    \* for each kind of attribute, a list of values it may have

Rules == INSTANCE RuleText
Mdx == INSTANCE MdxText
Sets == INSTANCE MdxSets
LOCAL INSTANCE RuleTokens

-----------------------------------------------------------------------------
(***************************************************************************)
(* The reader of a flow's CSV input (epiphany-flow/src/csv.rs): records    *)
(* keyed by the header's names.  A text is a sequence of characters.       *)
(***************************************************************************)

Bom == "bom"
DQ == "\""

\* The records read, the record being read, its open field, and whether the
\* record has begun.
NewRecord(s) == [s EXCEPT !.records = Append(@, Append(s.record, s.field)),
                          !.record = <<>>, !.field = <<>>, !.started = FALSE]
NewField(s) == [s EXCEPT !.record = Append(@, s.field), !.field = <<>>, !.started = TRUE]

\* What is left of a line break after its first character.
AfterBreak(text) == IF text[1] = "\r" /\ Len(text) > 1 /\ text[2] = "\n" THEN From(text, 3) ELSE Tail(text)

RECURSIVE Split(_, _)
\* Weakened: a quote opens a quoted part wherever it stands.
SplitAnyQuote(text, s) ==
  IF text = <<>>
  THEN Got(<<>>, IF s.started \/ s.field # <<>> \/ s.record # <<>> THEN NewRecord(s).records ELSE s.records)
  ELSE LET c == text[1]
       IN CASE c = DQ -> Then(Quoted(DQ, Tail(text), <<>>), LAMBDA rest, v :
                           Split(rest, [s EXCEPT !.field = @ \o v, !.started = TRUE]))
            [] c = "," -> Split(Tail(text), NewField(s))
            [] c \in {"\r", "\n"} ->
                 IF Len(s.records) >= MaxCsvRows THEN Refuse("too many rows")
                 ELSE Split(AfterBreak(text), NewRecord(s))
            [] OTHER -> Split(Tail(text), [s EXCEPT !.field = Append(@, c), !.started = TRUE])
\* A quote opens a quoted part where the field is still empty.
Split(text, s) ==
  IF text = <<>>
  THEN Got(<<>>, IF s.started \/ s.field # <<>> \/ s.record # <<>> THEN NewRecord(s).records ELSE s.records)
  ELSE LET c == text[1]
       IN CASE c = DQ /\ s.field = <<>> -> Then(Quoted(DQ, Tail(text), <<>>), LAMBDA rest, v :
                           Split(rest, [s EXCEPT !.field = v, !.started = TRUE]))
            [] c = "," -> Split(Tail(text), NewField(s))
            [] c \in {"\r", "\n"} ->
                 IF Len(s.records) >= MaxCsvRows THEN Refuse("too many rows")
                 ELSE Split(AfterBreak(text), NewRecord(s))
            [] OTHER -> Split(Tail(text), [s EXCEPT !.field = Append(@, c), !.started = TRUE])

SplitRecords(text) == Split(text, [records |-> <<>>, record |-> <<>>, field |-> <<>>, started |-> FALSE])

\* Fields that are missing read as blank, fields past the header are dropped,
\* and so is a record that is one blank field.
ParseCsv(text) ==
  Then(SplitRecords(IF text # <<>> /\ text[1] = Bom THEN Tail(text) ELSE text), LAMBDA rest, records :
    IF records = <<>> THEN Got(<<>>, <<>>)
    ELSE IF ~IsInjective(records[1]) THEN Refuse("duplicate header")
    ELSE LET rows == SelectSeq(Tail(records), LAMBDA fields : fields # <<<<>>>>)
         IN Got(<<>>, [i \in DOMAIN rows |-> [c \in DOMAIN records[1] |->
               <<records[1][c], IF c \in DOMAIN rows[i] THEN rows[i][c] ELSE <<>> >>]]))

-----------------------------------------------------------------------------

VARIABLES source, reading
textVars == <<source, reading>>

Unread == [unread |-> TRUE]
TextInit(sources) == source \in sources /\ reading = Unread

SetOver == Queried.dims[1]
Meaning1(s) == Sets!Evaluate(Queried.dimNames[1], SetOver, s)

\* What is read, and what it means where it is read.
Parsed(lang, text) ==
  CASE lang = "set" -> Mdx!ParseSet(text)
    [] lang = "query" -> Mdx!ParseQuery(text)
    [] lang = "csv" -> ParseCsv(text)
    [] OTHER -> Rules!Parse(text)

MeaningOf(lang, parsed) ==
  CASE lang = "set" -> Meaning1(parsed.v)
    [] lang = "query" -> Sets!ViewFrom(Queried, Queried.name, parsed.v)
    [] OTHER -> parsed

Understood(lang, parsed) ==
  IF parsed.ok THEN [ok |-> TRUE, v |-> parsed.v, means |-> MeaningOf(lang, parsed)] ELSE parsed

ReadText ==
  /\ reading = Unread
  /\ reading' = Understood(source.lang, Parsed(source.lang, source.text))
  /\ UNCHANGED source

HasRead(lang) == reading # Unread /\ source.lang = lang

\* What is printed of a rules document is read back as what was read, whatever
\* its names (Display in rules/ast.rs: "a canonical Display that round-trips
\* back through parse"), unless the parentheses it adds, one pair for each
\* operator of a flat sum, nest deeper than the reader goes.
RulesReadBack ==
  HasRead("rules") /\ reading.ok =>
    LET again == Rules!Parse(Rules!ShowDoc(reading.v))
    IN IF again.ok THEN again.v = reading.v ELSE again.why = "too deep"

(* The usual reading of an expression or a condition with no IF: it is split *)
(* at the last operator of the loosest tier that stands outside parentheses. *)
Tiers == <<{"or"}, {"and"}, {"not"}, {"=", "<"}, {"+", "-"}, {"*", "/"}, {"neg"}>>
EndsOperand == Digits \cup {")"}
TopLevel(chars, ops) ==
  {i \in 2 .. Len(chars) :
     /\ chars[i] \in ops /\ chars[i - 1] \in EndsOperand
     /\ Cardinality({j \in 1 .. i : chars[j] = "("}) = Cardinality({j \in 1 .. i : chars[j] = ")"})}

None == [ok |-> FALSE]
Some(v) == [ok |-> TRUE, v |-> v]
OnePart(a, Of(_)) == IF a.ok THEN Some(Of(a.v)) ELSE None
BothParts(a, b, op) == IF a.ok /\ b.ok THEN Some([op |-> op, left |-> a.v, right |-> b.v]) ELSE None

RECURSIVE Usual(_, _)
Usual(tier, chars) ==
  LET places == TopLevel(chars, Tiers[tier])
      at == Max(places)
      split(left, right) ==
        BothParts(Usual(left, SubSeq(chars, 1, at - 1)), Usual(right, SubSeq(chars, at + 1, Len(chars))), chars[at])
      prefix == chars[1] = (IF tier = 3 THEN "not" ELSE "-")
      negated(v) == [op |-> IF tier = 3 THEN "not" ELSE "neg", arg |-> v]
  IN CASE chars = <<>> -> None
       [] tier \in {1, 2, 5, 6} -> IF places = {} THEN Usual(tier + 1, chars) ELSE split(tier, tier + 1)
       [] tier = 4 -> IF Cardinality(places) = 1 THEN split(5, 5) ELSE None
       [] tier \in {3, 7} /\ prefix -> OnePart(Usual(tier, Tail(chars)), negated)
       [] tier = 3 -> Usual(4, chars)
       [] Len(chars) = 1 /\ chars[1] \in Digits -> Some([op |-> "num", v |-> chars])
       [] chars[1] = "(" /\ chars[Len(chars)] = ")" -> Usual(5, SubSeq(chars, 2, Len(chars) - 1))
       [] OTHER -> None

\* Formulas and conditions mean what the usual precedence says, and only what
\* it gives a meaning to is read: NOT before AND before OR, the comparison
\* outside the arithmetic, and operators of a tier from the left (parse_add,
\* parse_mul, parse_condition, parse_not).
RulesReadByPrecedence ==
  HasRead("formula") =>
    LET usual == Usual(source.tier, source.inner)
        formula == reading.v[1].formula
    IN /\ reading.ok = usual.ok
       /\ reading.ok => (IF source.tier = 1 THEN formula.cond ELSE formula) = usual.v

\* A printed set or query is read back as the very set or query it prints
\* (Display in epiphany-mdx/src/ast.rs: "round-trips back through parse"), with
\* the same exception as for rules.
MdxReadsBack ==
  (HasRead("set") \/ HasRead("query")) /\ reading.ok =>
    LET again == IF source.lang = "set" THEN Mdx!ParseSet(Mdx!ShowSet(reading.v))
                 ELSE Mdx!ParseQuery(Mdx!ShowQuery(reading.v))
    IN IF again.ok THEN again.v = reading.v ELSE again.why = "too deep"

MeansSet(op) == HasRead("set") /\ reading.ok /\ reading.v.op = op /\ reading.means.ok

\* The descendants of a member come as an authored outline lists them, each at
\* its first place, and an ordered set keeps its members' order where their keys
\* are equal, ascending or descending (descendants_of, order_set).
RECURSIVE Outline(_)
Outline(e) ==
  <<e>> \o FlattenSeq([i \in DOMAIN SetOver.children[e] |-> Outline(SetOver.children[e][i].child)])
PlaceIn(s, e) == CHOOSE i \in DOMAIN s : s[i] = e

SetsKeepTheAuthoredOrder ==
  /\ MeansSet("descendants") => reading.means.v = Sets!Dedup(Outline(Head(reading.means.v)))
  /\ MeansSet("order") =>
       LET base == Meaning1(reading.v.set).v
           key(e) == Sets!Attribute(SetOver, e, Sets!NameOf(reading.v.attr)).v
           up == reading.v.dir \in {"asc", "basc"}
       IN /\ ToSet(reading.means.v) = ToSet(base)
          /\ \A i, j \in DOMAIN reading.means.v :
               LET a == reading.means.v[i]
                   b == reading.means.v[j]
                   tie == ~Sets!KeyBefore(key(a), key(b)) /\ ~Sets!KeyBefore(key(b), key(a))
               IN i < j => IF tie THEN PlaceIn(base, a) < PlaceIn(base, b)
                           ELSE Sets!KeyBefore(key(a), key(b)) = up

\* A filter keeps a member when its predicate holds whatever the attributes it
\* does not carry would be, and only then, unless the predicate reads one of
\* them twice (eval_predicate: a missing value is unknown, and stays so through
\* NOT, AND and OR).
RECURSIVE Properties(_)
Properties(p) ==
  CASE p.op = "not" -> Properties(p.arg)
    [] p.op = "property" -> <<Sets!NameOf(p.v)>>
    [] p.op \in {"str", "num"} -> <<>>
    [] OTHER -> Properties(p.left) \o Properties(p.right)

\* The dimension with element e's missing attributes filled in, every way.
Filled(e) ==
  LET choices(a) == FillIns[SetOver.attributes[a].kind]
      picks == {f \in [DOMAIN SetOver.attributes -> UNION {DOMAIN FillIns[k] : k \in DOMAIN FillIns}] :
                  \A a \in DOMAIN f : f[a] \in DOMAIN choices(a)}
  IN {[SetOver EXCEPT !.values[e] = @ @@ [a \in DOMAIN f |-> choices(a)[f[a]]]] : f \in picks}

FiltersKeepTheCertain ==
  MeansSet("filter") =>
    \A e \in ToSet(Meaning1(reading.v.set).v) :
      LET certain == \A dim \in Filled(e) : Sets!Truth(dim, e, reading.v.pred) = Sets!Value("true")
          kept == Contains(reading.means.v, e)
      IN /\ kept => certain
         /\ certain => kept \/ ~IsInjective(Properties(reading.v.pred))

\* The view a query asks for lists on each axis the sets the query joined, the
\* first outermost, and each name on it is resolved, when the view is executed,
\* to the element the set selected (flatten_crossjoin, view_from_mdx).
MdxAsksForItsSets ==
  HasRead("query") /\ reading.ok /\ reading.means.ok =>
    \A axis \in {"rows", "columns"} :
      LET asked == reading.means.v[axis]
      IN /\ Len(asked) = Len(source[axis])
         /\ \A i \in DOMAIN asked :
              LET dim == Queried.dims[Sets!DimOf(Queried, asked[i].dim)]
                  set == Mdx!ParseSet(source[axis][i]).v
              IN Sets!Evaluate(asked[i].dim, dim, set)
                   = Sets!Value([k \in DOMAIN asked[i].members |-> Resolve(dim, asked[i].members[k])])

\* A table written as CSV is read back as it was: fields quoted or, where they
\* may be, bare, lines ended any of the three ways, the last one ended or not,
\* short rows filled with blanks (parse_csv, split_records).
Cell(row, c) == IF c \in DOMAIN row THEN row[c] ELSE <<>>
CsvReadsBack ==
  HasRead("csv") /\ source.table # <<>> =>
    LET header == Head(source.table)
        rows == SelectSeq(Tail(source.table), LAMBDA row : row # <<<<>>>>)
    IN IF ~IsInjective(header) THEN ~reading.ok
       ELSE reading.ok /\ reading.v = [i \in DOMAIN rows |->
              [c \in DOMAIN header |-> <<header[c], Cell(rows[i], c)>>]]

(* What is written out reads back as what it was written from (Display of   *)
(* rules and MDX against their parsers; the CSV reader against a writer).   *)
TextsReadBack ==
  /\ RulesReadBack
  /\ MdxReadsBack
  /\ CsvReadsBack

(* What is read is what the text asks for (parse_expr, eval_set,            *)
(* view_from_mdx).                                                          *)
TextsMeanWhatTheySay ==
  /\ RulesReadByPrecedence
  /\ SetsKeepTheAuthoredOrder
  /\ FiltersKeepTheCertain
  /\ MdxAsksForItsSets

=============================================================================
