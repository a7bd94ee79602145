---------------------------- MODULE TextParsers ----------------------------
(***************************************************************************)
(* Two algorithms on texts: the list of ports of <bind:port>, which        *)
(* BindPorts reads with portparser and sepstream (src/hashcomp.cpp), and   *)
(* match(), with which ModuleManager::Load compares file names with a      *)
(* pattern (src/wildcard.cpp).                                             *)
(*                                                                         *)
(* A text is a sequence of characters, with n and the like as positions    *)
(* from 1; Len + 1 is its end.  It grows by a character at a time, until   *)
(* it is read: a call of GetToken, or a round of match's loops, per step.  *)
(***************************************************************************)
EXTENDS Integers, Sequences, SequencesExt, TLC

CONSTANTS
  PortCharacters,  \* digits, "-" and ","
  NameCharacters, MaskCharacters,
  MaxList, MaxName, MaxDigits \* of a list, a str or a mask, a number

VARIABLES
  list,       \* the text of <bind:port>
  portrange,  \* BindPorts' parser of it, with the port it returned last
  portnos,      \* the ports that BindPorts was given
  str, mask, \* what match() compares
  matching    \* its local variables, and what it returned

textVars == <<list, portrange, portnos, str, mask, matching>>

Digits == {"0", "1", "2", "3", "4", "5", "6", "7", "8", "9"}
Digit(c) == CHOOSE d \in 0 .. 9 : ToString(d) = c

Numeral(t) == FoldLeft(LAMBDA n, c : 10 * n + Digit(c), 0, t)
DigitsOf(t) ==
  SubSeq(t, 1, CHOOSE n \in 0 .. Len(t) :
                 /\ \A i \in 1 .. n : t[i] \in Digits
                 /\ n < Len(t) => t[n + 1] \notin Digits)
atoi(t) == IF t # <<>> /\ t[1] = "-" THEN -Numeral(DigitsOf(Tail(t)))
           ELSE Numeral(DigitsOf(t))

-----------------------------------------------------------------------------
(* Lists of ports.                                                          *)
Parser(source) == [tokens |-> source, n |-> 1, last |-> 1, token |-> <<>>,
                   in_range |-> 0, range_end |-> 0, port |-> -1]

StripSeparators(t) ==
  SubSeq(t, 1, CHOOSE n \in 0 .. Len(t) :
                 /\ n > 0 => t[n] # ","
                 /\ \A i \in n + 1 .. Len(t) : t[i] = ",")

\* The token goes up to the next separator, or up to the end with it; an empty
\* one makes n skip a character.
Token(p) ==
  LET end == Len(p.tokens)
      stop == CHOOSE m \in p.n .. end :
                /\ p.tokens[m] = "," \/ m = end
                /\ \A i \in p.n .. m - 1 : p.tokens[i] # ","
      found == StripSeparators(
                 SubSeq(p.tokens, p.last, IF stop = end THEN end ELSE stop - 1))
      next == IF stop = end THEN end ELSE stop + 1 IN
  IF p.n > end THEN [p EXCEPT !.token = <<>>]
  ELSE [p EXCEPT !.token = found, !.last = stop + 1,
                 !.n = IF found = <<>> THEN next + 1 ELSE next]

Dash(t) == CHOOSE n \in 0 .. Len(t) :
             /\ n > 0 => t[n] = "-"
             /\ \A i \in n + 1 .. Len(t) : t[i] # "-"

MaxPort == 65535

\* The port that the token stands for or begins with; 0 is the end of all.
PortOfToken(p) ==
  LET t == p.token
      begin == atoi(SubSeq(t, 1, Dash(t) - 1))
      end == atoi(SubSeq(t, Dash(t) + 1, Len(t))) IN
  IF t = <<>> THEN [p EXCEPT !.port = 0]
  ELSE IF Dash(t) = 0 THEN [p EXCEPT !.port = atoi(t)]
  ELSE IF 0 < begin /\ begin < end /\ end <= MaxPort
  THEN [p EXCEPT !.in_range = begin, !.range_end = end, !.port = begin]
  ELSE [p EXCEPT !.range_end = end, !.port = begin]

GetPort_NotLast(p) ==
  IF p.in_range > 0 /\ p.in_range + 1 < p.range_end
  THEN [p EXCEPT !.in_range = @ + 1, !.port = p.in_range + 1]
  ELSE PortOfToken(Token([p EXCEPT !.in_range = 0]))
\* Without the search for overlaps, which BindPorts does not ask for.
GetPort(p) ==
  IF p.in_range > 0 /\ p.in_range < p.range_end
  THEN [p EXCEPT !.in_range = @ + 1, !.port = p.in_range + 1]
  ELSE PortOfToken(Token([p EXCEPT !.in_range = 0]))

\* BindPorts takes ports until it gets 0.
GetToken ==
  /\ list # <<>> /\ portrange.port # 0
  /\ portrange' = GetPort(portrange)
  /\ portnos' = portnos \cup ({portrange'.port} \ {0})
  /\ UNCHANGED <<list, str, mask, matching>>

-----------------------------------------------------------------------------
(* Names and masks.                                                         *)
tolower(c) == CASE c = "A" -> "a" [] c = "B" -> "b" [] OTHER -> c
Alike(m, c) == m = "?" \/ tolower(m) = tolower(c)

\* string and wild are how far it is; mp and cp are where to go on after a
\* mismatch, 0 before the first star.
Matcher == [string |-> 1, wild |-> 1, cp |-> 0, mp |-> 0, result |-> "none"]
Returns(b) == [matching EXCEPT !.result = IF b THEN "yes" ELSE "no"]

AtStar == matching.wild <= Len(mask) /\ mask[matching.wild] = "*"
Fits ==
  /\ matching.wild <= Len(mask)
  /\ Alike(mask[matching.wild], str[matching.string])

Star ==
  IF matching.wild = Len(mask) THEN Returns(TRUE)
  ELSE [matching EXCEPT !.wild = @ + 1, !.mp = matching.wild + 1,
                        !.cp = matching.string + 1]
GoBack ==
  IF matching.mp = 0 THEN Returns(FALSE)
  ELSE [matching EXCEPT !.wild = matching.mp, !.string = matching.cp,
                        !.cp = @ + 1]
AtEnd == Returns(\A w \in matching.wild .. Len(mask) : mask[w] = "*")

\* A round of either loop: what is before the first star is compared without
\* going back.
Match ==
  /\ list = <<>> /\ matching.result = "none"
  /\ matching' =
       CASE matching.string > Len(str) -> AtEnd
         [] matching.string <= Len(str) /\ AtStar -> Star
         [] matching.string <= Len(str) /\ ~AtStar /\ Fits ->
              [matching EXCEPT !.string = @ + 1, !.wild = @ + 1]
         [] OTHER -> GoBack
  /\ UNCHANGED <<list, portrange, portnos, str, mask>>

-----------------------------------------------------------------------------
TextInit ==
  /\ list = <<>> /\ portrange = Parser(<<>>) /\ portnos = {}
  /\ str = <<>> /\ mask = <<>> /\ matching = Matcher

WriteList(c) ==
  /\ portrange = Parser(list) /\ portnos = {} /\ matching = Matcher
  /\ Len(list) < MaxList /\ str = <<>> /\ mask = <<>>
  /\ ~(\A i \in 0 .. MaxDigits : i <= Len(list) /\
          Append(list, c)[Len(list) + 1 - i] \in Digits)
  /\ list' = Append(list, c) /\ portrange' = Parser(list')
  /\ UNCHANGED <<portnos, str, mask, matching>>
WriteName(c) ==
  /\ matching = Matcher /\ Len(str) < MaxName /\ list = <<>>
  /\ str' = Append(str, c)
  /\ UNCHANGED <<list, portrange, portnos, mask, matching>>
WriteMask(c) ==
  /\ matching = Matcher /\ Len(mask) < MaxName /\ list = <<>>
  /\ mask' = Append(mask, c)
  /\ UNCHANGED <<list, portrange, portnos, str, matching>>

TextNext ==
  \/ \E c \in PortCharacters : WriteList(c)
  \/ \E c \in NameCharacters : WriteName(c)
  \/ \E c \in MaskCharacters : WriteMask(c)
  \/ GetToken
  \/ Match

-----------------------------------------------------------------------------
\* The elements of a list, between its commas; each is known by where it starts.
Starts == {0} \cup {i \in DOMAIN list : list[i] = ","}
Element(b) ==
  LET end == CHOOSE e \in b + 1 .. Len(list) + 1 :
               /\ e <= Len(list) => list[e] = ","
               /\ \A i \in b + 1 .. e - 1 : list[i] # "," IN
  SubSeq(list, b + 1, end - 1)
IsPort(t) ==
  /\ t # <<>> /\ \A i \in DOMAIN t : t[i] \in Digits
  /\ Numeral(t) \in 1 .. MaxPort
Low(t) == SubSeq(t, 1, Dash(t) - 1)
High(t) == SubSeq(t, Dash(t) + 1, Len(t))
IsRange(t) == Dash(t) > 0 /\ IsPort(Low(t)) /\ IsPort(High(t))
PortsOf(t) ==
  IF IsPort(t) THEN {Numeral(t)}
  ELSE {Numeral(Low(t))} \cup (Numeral(Low(t)) .. Numeral(High(t)))

\* ends[w] says how much of the str the first w characters of the mask stand
\* for: a star for any part of it, any other character for one that is the same.
Covered(ends, w) == IF w = 0 THEN 0 ELSE ends[w]
Covers(ends, n) ==
  \A w \in 1 .. n :
    IF mask[w] = "*" THEN Covered(ends, w - 1) <= ends[w]
    ELSE /\ ends[w] = Covered(ends, w - 1) + 1
         /\ Alike(mask[w], str[ends[w]])
Matches ==
  \E ends \in [1 .. Len(mask) -> 0 .. Len(str)] :
    Covers(ends, Len(mask)) /\ Covered(ends, Len(mask)) = Len(str)

\* "A port range may be specified in the input string in the form
\* "6660,6661,6662-6669,7020"", and of an illegal range GetToken "will return
\* the first element of the pair" (hashcomp.h:169-175): a list of ports and
\* ranges stands for exactly those ports, wherever its ranges are, and none is
\* returned before them that is not one of these.
PortsAsMeant ==
  (list # <<>> /\ \A b \in Starts : IsPort(Element(b)) \/ IsRange(Element(b))) =>
    LET meant == UNION {PortsOf(Element(b)) : b \in Starts} IN
    portnos \subseteq meant /\ (portrange.port = 0 => portnos = meant)

\* match() agrees with what "*" and "?" mean, although it only ever goes back
\* to the last star (wildcard.cpp:81-128).
MatchesAsMeant ==
  matching.result # "none" => (matching.result = "yes" <=> Matches)

\* The texts of the configuration are read as they are meant.
TextsAsMeant == PortsAsMeant /\ MatchesAsMeant
=============================================================================
