----------------------------- MODULE RequestURI -----------------------------
(***************************************************************************)
(* Connection::HandleURI (src/request.cpp): the path that is asked for,    *)
(* without its escapes, its query and its detours.                         *)
(*                                                                         *)
(* A character is its number, and a char is signed.  The URI is what a     *)
(* client sends: it grows here piece by piece, a piece being a character   *)
(* or an escape, and meant says what the pieces stand for.                 *)
(***************************************************************************)
EXTENDS Integers, Sequences

CONSTANTS
  Pieces,     \* sequences of characters: what a URI is put together from
  MaxPieces   \* bound: pieces after the first "/"

VARIABLES
  uri,     \* the URI as it is sent
  meant,   \* its path: characters that were sent plainly or escaped
  inQuery, \* there was a "?" or a "#"
  pieces   \* how many pieces it has

uriVars == <<uri, meant, inQuery, pieces>>

Slash == 47
Dot == 46
Percent == 37
Question == 63
Number_Sign == 35
End == 0

-----------------------------------------------------------------------------
\* hex_lookup has -1 for what is between the digits and the letters.
hex_lookup(c) ==
  CASE c \in 48 .. 57 -> c - 48
    [] c \in 65 .. 70 -> c - 55
    [] c \in 97 .. 102 -> c - 87
    [] OTHER -> -1
IsInTable(c) == c \in 48 .. 102
unhexchar(a, b) ==
  LET dest == hex_lookup(a) * 16 + hex_lookup(b) IN
  IF dest > 127 THEN dest - 256 ELSE dest

\* The local variables of the loop: skip is how far i was moved.
StartOfPath ==
  [skip |-> 0, sanepath |-> <<>>, pathpart |-> <<>>, query |-> <<>>]

\* sanepath.rfind('/', sanepath.length() - 2), and what is kept.
Parent(sanepath) ==
  LET slashes == {x \in 1 .. Len(sanepath) - 1 : sanepath[x] = Slash} IN
  IF slashes = {} THEN <<>>
  ELSE SubSeq(sanepath, 1, CHOOSE x \in slashes : \A y \in slashes : y <= x)

EndOfPart_NoParent(p, c) ==
  LET separator == IF c = End THEN <<>> ELSE <<c>> IN
  [p EXCEPT !.pathpart = <<>>,
            !.sanepath = IF p.pathpart \in {<<>>, <<Dot>>, <<Dot, Dot>>} THEN @
                         ELSE @ \o p.pathpart \o separator]
EndOfPart(p, c) ==
  LET separator == IF c = End THEN <<>> ELSE <<c>> IN
  [p EXCEPT !.pathpart = <<>>,
            !.sanepath =
              CASE p.pathpart \in {<<>>, <<Dot>>} -> @
                [] p.pathpart = <<Dot, Dot>> -> Parent(@)
                [] OTHER -> @ \o p.pathpart \o separator]

SkipToEnd(p, text, i) == [p EXCEPT !.skip = Len(text) - i]

\* A "%" at i: what is not hexadecimal or not printable is removed.
Escape(p, text, i) ==
  IF i + 2 > Len(text) THEN SkipToEnd(p, text, i)
  ELSE LET v == unhexchar(text[i + 1], text[i + 2])
           past == [p EXCEPT !.skip = 2] IN
       IF \/ ~IsInTable(text[i + 1]) \/ ~IsInTable(text[i + 2])
          \/ v < 32 \/ v = 127
       THEN past
       ELSE IF v = Slash THEN EndOfPart(past, v)
       ELSE [past EXCEPT !.pathpart = Append(@, v)]

PathCharacter(p, text, i) ==
  LET c == IF i > Len(text) THEN End ELSE text[i] IN
  CASE c = Percent -> Escape(p, text, i)
    [] c = Slash -> EndOfPart(p, c)
    [] c = End -> SkipToEnd(EndOfPart(p, c), text, i)
    [] c = Question ->
         SkipToEnd([p EXCEPT !.query = SubSeq(text, i + 1, Len(text))], text, i)
    [] c = Number_Sign -> SkipToEnd(p, text, i)
    [] OTHER -> [p EXCEPT !.pathpart = Append(@, c)]

\* A round of the loop; the last is for the character after the last.
Round(p, text, i) ==
  IF p.skip > 0 THEN [p EXCEPT !.skip = @ - 1] ELSE PathCharacter(p, text, i)
Loop(text) ==
  LET at[i \in 1 .. Len(text) + 1] ==
        IF i = 1 THEN StartOfPath ELSE Round(at[i - 1], text, i) IN
  at

HandleURI(text) ==
  IF text = <<>> \/ text[1] # Slash THEN text
  ELSE <<Slash>> \o Loop(text)[Len(text) + 1].sanepath

-----------------------------------------------------------------------------
(* A client puts a URI together.                                            *)

\* What a piece stands for, by the rules for escapes.
HexDigit(c) == c \in 48 .. 57 \cup 65 .. 70 \cup 97 .. 102
Meaning(piece) ==
  IF piece[1] # Percent THEN piece
  ELSE IF Len(piece) < 3 \/ ~HexDigit(piece[2]) \/ ~HexDigit(piece[3]) THEN <<>>
  ELSE LET v == hex_lookup(piece[2]) * 16 + hex_lookup(piece[3]) IN
       IF v \in 32 .. 126 THEN <<v>> ELSE <<>>

\* A piece is a character or an escape.  hex_lookup takes what is between the
\* digits and the letters for a digit: an escape that ends in one of these is
\* left out, the rules for escapes do not say what it stands for.
Char == -128 .. 127
ASSUME PiecesAssumption ==
  \A piece \in Pieces :
    \/ piece \in {<<c>> : c \in Char \ {End, Percent}}
    \/ /\ piece \in {<<Percent, a, b>> : a, b \in Char}
       /\ HexDigit(piece[2]) /\ IsInTable(piece[3]) => HexDigit(piece[3])

URIInit == uri = <<Slash>> /\ meant = <<Slash>> /\ inQuery = FALSE /\ pieces = 0

Send ==
  /\ pieces < MaxPieces
  /\ \E piece \in Pieces :
       /\ uri' = uri \o piece
       /\ inQuery' = (inQuery \/ piece \in {<<Question>>, <<Number_Sign>>})
       /\ meant' = IF inQuery' THEN meant ELSE meant \o Meaning(piece)
  /\ pieces' = pieces + 1

-----------------------------------------------------------------------------
(* The reference: a path is a list of names, and ".." gives up the last.    *)
Slashes(path) == {x \in DOMAIN path : path[x] = Slash}
NameAfter(path, n) ==
  LET ends == {x \in n + 1 .. Len(path) + 1 :
                 x = Len(path) + 1 \/ x \in Slashes(path)} IN
  SubSeq(path, n + 1, (CHOOSE x \in ends : \A y \in ends : x <= y) - 1)

\* What a name does to the names before it.
Follow(names, name) ==
  CASE name \in {<<>>, <<Dot>>} -> names
    [] name = <<Dot, Dot>> -> SubSeq(names, 1, Len(names) - 1)
    [] OTHER -> Append(names, name)

\* The names that are left when the walk has come past each character.
NamesAlong(path) ==
  LET at[n \in 0 .. Len(path)] ==
        IF n = 0 THEN <<>>
        ELSE IF path[n] = Slash THEN Follow(at[n - 1], NameAfter(path, n))
        ELSE at[n - 1] IN
  at
Walk(path) == NamesAlong(path)[Len(path)]

\* Whatever is escaped and however it climbs, the path that is served is the one
\* that was meant, below the root, without empty names, "." and "..": and
\* cleaning it again changes nothing (request.cpp:204-307).
PathIsTheOneMeant ==
  LET path == HandleURI(uri) IN
  /\ path[1] = Slash
  /\ Walk(path) = Walk(meant)
  /\ \A x \in Slashes(path) :
       /\ NameAfter(path, x) \notin {<<Dot>>, <<Dot, Dot>>}
       /\ NameAfter(path, x) = <<>> => x = Len(path)
  /\ {Percent, Question, Number_Sign} \cap {path[x] : x \in DOMAIN path} = {}
       => HandleURI(path) = path
=============================================================================
