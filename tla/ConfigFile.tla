----------------------------- MODULE ConfigFile -----------------------------
(***************************************************************************)
(* ServerConfig::LoadConf (src/configreader.cpp): the configuration file,  *)
(* read character by character, with one character of lookahead.           *)
(*                                                                         *)
(* A character is a string of length one; a word, and a value, a sequence  *)
(* of characters.  The text of an error is left out: a file is accepted,   *)
(* or it is not.                                                           *)
(***************************************************************************)
EXTENDS Integers, Sequences, SequencesExt

CONSTANTS
  Letters,       \* characters that are no part of the syntax
  Beginnings,    \* how a file may begin
  MaxCharacters  \* bound: characters after that which are not syntax

Syntax == {"\"", "=", "{", "}", "#", "/", "*", ";", " ", "\n"}
Characters == Letters \cup Syntax
ASSUME TextsAssumption ==
  Letters \cap Syntax = {} /\ "" \notin Letters /\ Beginnings \subseteq Seq(Characters)

VARIABLES
  conf,        \* the local variables of LoadConf, and its target
  characters,  \* history: what was read, less syntax and comments
  begun        \* how many of these the beginning had

confVars == <<conf, characters, begun>>

\* ch is line[c]; rest: the line's rest is a comment; skip: c++ was done.
Start ==
  [ok |-> TRUE, ch |-> "", skip |-> FALSE, rest |-> FALSE,
   section |-> <<>>, itemname |-> <<>>, wordbuffer |-> <<>>,
   in_word |-> FALSE, in_quote |-> FALSE, in_ml_comment |-> FALSE,
   sectiondata |-> <<>>, target |-> <<>>]

Error(c) == [c EXCEPT !.ok = FALSE]

Quote(c) ==
  IF \/ c.section = <<>> \/ c.itemname = <<>>
     \/ c.in_word \/ c.wordbuffer # <<>>
  THEN Error(c)
  ELSE [c EXCEPT !.in_quote = TRUE, !.in_word = TRUE]

Equals(c) ==
  IF c.section = <<>> \/ c.itemname # <<>> THEN Error(c)
  ELSE [c EXCEPT !.in_word = FALSE, !.itemname = c.wordbuffer,
                 !.wordbuffer = <<>>]

OpenSection(c) ==
  IF c.section # <<>> \/ c.wordbuffer = <<>> THEN Error(c)
  ELSE [c EXCEPT !.in_word = FALSE, !.section = c.wordbuffer,
                 !.wordbuffer = <<>>]

CloseSection_KeepsData(c) ==
  IF c.section = <<>> \/ c.wordbuffer # <<>> \/ c.itemname # <<>>
  THEN Error(c)
  ELSE [c EXCEPT
         !.target = Append(@, [tag |-> c.section, items |-> c.sectiondata]),
         !.section = <<>>]
CloseSection(c) ==
  IF c.section = <<>> \/ c.wordbuffer # <<>> \/ c.itemname # <<>>
  THEN Error(c)
  ELSE [c EXCEPT
         !.target = Append(@, [tag |-> c.section, items |-> c.sectiondata]),
         !.section = <<>>, !.sectiondata = <<>>]

Letter(c) ==
  IF ~c.in_word /\ c.wordbuffer # <<>> THEN Error(c)
  ELSE [c EXCEPT !.wordbuffer = Append(@, c.ch), !.in_word = TRUE]

\* Inside of a quoted value, and inside of a comment of several lines.
Quoted(c) ==
  IF c.ch = "\"" THEN [c EXCEPT !.in_quote = FALSE, !.in_word = FALSE]
  ELSE [c EXCEPT !.wordbuffer = Append(@, c.ch)]
Commented(c, next) ==
  IF c.ch = "*" /\ next = "/"
  THEN [c EXCEPT !.in_ml_comment = FALSE, !.skip = TRUE] ELSE c

\* The body of the loop over a line.
Character(c, next) ==
  CASE c.in_quote -> Quoted(c)
    [] ~c.in_quote /\ c.in_ml_comment -> Commented(c, next)
    [] OTHER ->
         CASE c.ch = "#" \/ (c.ch = "/" /\ next = "/") ->
                [c EXCEPT !.rest = TRUE]
           [] c.ch = "/" /\ next = "*" ->
                [c EXCEPT !.in_ml_comment = TRUE, !.skip = TRUE]
           [] c.ch = "\"" -> Quote(c)
           [] c.ch = "=" -> Equals(c)
           [] c.ch = "{" -> OpenSection(c)
           [] c.ch = "}" -> CloseSection(c)
           [] c.ch = ";" -> c
           [] c.ch = " " -> [c EXCEPT !.in_word = FALSE]
           [] OTHER -> Letter(c)

\* After the loop over a line.
EndOfLine(c) ==
  IF c.in_quote THEN [c EXCEPT !.wordbuffer = Append(@, "\n")]
  ELSE LET d == [c EXCEPT !.in_word = FALSE, !.rest = FALSE] IN
       IF d.itemname = <<>> THEN d
       ELSE IF d.wordbuffer = <<>> THEN Error(d)
       ELSE [d EXCEPT
              !.sectiondata =
                Append(@, [key |-> d.itemname, value |-> d.wordbuffer]),
              !.wordbuffer = <<>>, !.itemname = <<>>]

\* line[c] is dealt with when the character after it is known.
Advance(c, next) ==
  IF ~c.ok THEN c
  ELSE LET d == IF c.skip THEN [c EXCEPT !.skip = FALSE]
                ELSE IF c.ch = "\n" THEN EndOfLine(c)
                ELSE IF c.ch = "" \/ c.rest THEN c
                ELSE Character(c, next) IN
       [d EXCEPT !.ch = next]

\* After the last line, which may lack its linefeed.
Finish(c) ==
  LET d == Advance(Advance(c, "\n"), "") IN
  IF \/ d.in_ml_comment \/ d.in_quote
     \/ d.itemname # <<>> \/ d.wordbuffer # <<>> \/ d.section # <<>>
  THEN Error(d) ELSE d

\* The characters of a text, one after the other.
Reading(text) ==
  LET at[i \in 0 .. Len(text)] ==
        IF i = 0 THEN Start ELSE Advance(at[i - 1], text[i]) IN
  at

LoadConf(text) == Finish(Reading(text)[Len(text)])

-----------------------------------------------------------------------------
\* A character of a word or of a value: not syntax, not in a comment.
Significant(c, next) ==
  /\ ~c.skip
  /\ IF c.in_quote THEN c.ch # "\""
     ELSE /\ ~c.in_ml_comment /\ ~c.rest
          /\ \/ c.ch \in Letters \cup {"*"}
             \/ c.ch = "/" /\ next \notin {"/", "*"}

Words(c, next, before) ==
  IF c.ch # "" /\ Significant(c, next) THEN Append(before, c.ch) ELSE before

WordsAlong(text) ==
  LET at[i \in 0 .. Len(text)] ==
        IF i = 0 THEN <<>>
        ELSE Words(Reading(text)[i - 1], text[i], at[i - 1]) IN
  at

ConfInit ==
  \E text \in Beginnings :
    /\ conf = Reading(text)[Len(text)]
    /\ characters = WordsAlong(text)[Len(text)]
    /\ begun = Len(characters)

ReadCharacter ==
  /\ conf.ok
  /\ \E next \in Characters :
       /\ conf' = Advance(conf, next)
       /\ characters' = Words(conf, next, characters)
       /\ Len(characters') <= begun + MaxCharacters
  /\ UNCHANGED begun

-----------------------------------------------------------------------------
(* A file that says the same in the plainest way.                           *)
WrittenItem(item) ==
  item.key \o <<" ", "=", " ", "\"">> \o item.value \o <<"\"", "\n">>
WrittenSection(section) ==
  section.tag \o <<" ", "{", "\n">>
    \o FlattenSeq([i \in 1 .. Len(section.items) |->
                     WrittenItem(section.items[i])])
    \o <<"}", "\n">>
Written(target) ==
  FlattenSeq([s \in 1 .. Len(target) |-> WrittenSection(target[s])])

SaidItems(items) ==
  FlattenSeq([i \in 1 .. Len(items) |-> items[i].key \o items[i].value])
Said(target) ==
  FlattenSeq([s \in 1 .. Len(target) |->
               target[s].tag \o SaidItems(target[s].items)])

\* "/;/" is the word "//", which no file can say plainly.
Plain(word) ==
  \A i \in 1 .. Len(word) - 1 : word[i] = "/" => word[i + 1] \notin {"/", "*"}
NamesIn(target) ==
  {target[s].tag : s \in 1 .. Len(target)}
    \cup {item.key : item \in UNION {Range(target[s].items) :
                                       s \in 1 .. Len(target)}}

\* A file that is accepted was understood: every character of it that is not
\* syntax or comment is, in order, in a tag, a key or a value, and what was
\* read is what the plainest file of those tags, keys and values says
\* (configreader.cpp:680-892).
Understood ==
  LET end == Finish(conf) IN
  end.ok =>
    /\ Said(end.target) = Words(conf, "\n", characters)
    /\ (\A word \in NamesIn(end.target) : Plain(word)) =>
         LoadConf(Written(end.target)) = [Start EXCEPT !.target = end.target]
=============================================================================
