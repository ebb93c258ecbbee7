----------------------------- MODULE Tokenizer ------------------------------
(***************************************************************************)
(* The scanner (tokenization/tokenize.cpp), one character at a time.       *)
(*                                                                         *)
(* A text is a sequence of characters.  Characters are strings of length   *)
(* one, but for VerticalTab, and the name in a token is the sequence of    *)
(* its characters.  The range of int, which scanNumber computes in, is     *)
(* that of the constant MaxInt.                                            *)
(***************************************************************************)
EXTENDS Integers, Sequences, FiniteSets, Tokens

CONSTANTS
  Texts,    \* the texts to tokenize
  MaxInt    \* the largest int

ASSUME TokenizerAssumption == Texts \subseteq Seq(STRING) /\ MaxInt \in Nat

VARIABLES
  text,     \* the source
  it,       \* it_: the next character; Len(text) + 1 at the end
  pos,      \* pos_
  tokens,   \* tokens_, each with the position that it was given
  scanning, \* the function that runs: "scan", "word" or "number"
  start,    \* where scanWord started
  value,    \* what scanNumber has read
  outcome   \* "scanning", "accepted", or "refused" by an exception

vars == <<text, it, pos, tokens, scanning, start, value, outcome>>

-----------------------------------------------------------------------------
(* Characters. *)

Lowers == {"a", "b", "c", "d", "e", "f", "g", "h", "i", "j", "k", "l", "m", "n", "o",
           "p", "q", "r", "s", "t", "u", "v", "w", "x", "y", "z"}
Uppers == {"A", "B", "C", "D", "E", "F", "G", "H", "I", "J", "K", "L", "M", "N", "O",
           "P", "Q", "R", "S", "T", "U", "V", "W", "X", "Y", "Z"}
Digits == <<"0", "1", "2", "3", "4", "5", "6", "7", "8", "9">>

(* TLA+ has no escape for the vertical tab, the sixth character of isspace. *)
VerticalTab == "VT"
Spaces      == {" ", "\t", "\n", "\r", "\f", VerticalTab}

IsAlpha(c)    == c \in Lowers \cup Uppers
IsDigit(c)    == \E d \in DOMAIN Digits : Digits[d] = c
DigitValue(c) == (CHOOSE d \in DOMAIN Digits : Digits[d] = c) - 1

Keyword == [defn |-> <<"d", "e", "f", "n">>, data |-> <<"d", "a", "t", "a">>,
            case |-> <<"c", "a", "s", "e">>, of |-> <<"o", "f">>]

SingleCharTokens == {"=", "+", "-", "*", "/", "{", "}", "(", ")", ","}

Ints  == (-MaxInt - 1)..MaxInt
AtEnd == it > Len(text)
Here  == text[it]

-----------------------------------------------------------------------------
(* Faulty: a line break does not start a line. *)
AdvancedOneLine(p, c) == [p EXCEPT !.end_column = @ + 1]

Advanced(p, c) ==
  IF c = "\n" THEN [p EXCEPT !.end_line = @ + 1, !.end_column = 1]
  ELSE [p EXCEPT !.end_column = @ + 1]

Advance == it' = it + 1 /\ pos' = Advanced(pos, Here)

Emit(t) == tokens' = Append(tokens, [load |-> t, position |-> pos'])

Init ==
  /\ text \in Texts
  /\ it = 1 /\ tokens = << >> /\ scanning = "scan" /\ start = 1 /\ value = 0
  /\ pos = [begin_line |-> 1, begin_column |-> 1, end_line |-> 1, end_column |-> 1]
  /\ outcome = "scanning"

Scanning(f) == outcome = "scanning" /\ scanning = f

Scan ==
  /\ Scanning("scan")
  /\ \/ AtEnd /\ outcome' = "accepted" /\ UNCHANGED <<it, pos>>
     \/ ~AtEnd /\ Here \in Spaces /\ Advance /\ UNCHANGED outcome
  /\ UNCHANGED <<text, tokens, scanning, start, value>>

(* scanToken begins the position of the token where the last one ended. *)
Begun == [pos EXCEPT !.begin_line = pos.end_line, !.begin_column = pos.end_column]

IsArrow == it < Len(text) /\ text[it] = "-" /\ text[it + 1] = ">"

ScanToken ==
  /\ Scanning("scan") /\ ~AtEnd /\ Here \notin Spaces
  /\ \/ /\ IsAlpha(Here) /\ scanning' = "word" /\ start' = it /\ pos' = Begun
        /\ UNCHANGED <<it, tokens, value, outcome>>
     \/ /\ IsDigit(Here) /\ scanning' = "number" /\ value' = 0 /\ pos' = Begun
        /\ UNCHANGED <<it, tokens, start, outcome>>
     \/ /\ IsArrow
        /\ it' = it + 2 /\ pos' = Advanced(Advanced(Begun, Here), text[it + 1])
        /\ Emit(Token("->"))
        /\ UNCHANGED <<scanning, start, value, outcome>>
     \/ /\ ~IsArrow /\ Here \in SingleCharTokens
        /\ it' = it + 1 /\ pos' = Advanced(Begun, Here)
        /\ Emit(Token(Here))
        /\ UNCHANGED <<scanning, start, value, outcome>>
     \/ /\ ~IsAlpha(Here) /\ ~IsDigit(Here) /\ Here \notin SingleCharTokens
        /\ outcome' = "refused" /\ pos' = Begun
        /\ UNCHANGED <<it, tokens, scanning, start, value>>
  /\ UNCHANGED text

NameOf(word) == NameToken(IF word[1] \in Lowers THEN "lower" ELSE "upper", word)

(* Faulty: every word that begins with a keyword is one. *)
WordTokenByPrefix(word) ==
  LET same == {k \in DOMAIN Keyword :
                 /\ Len(Keyword[k]) <= Len(word)
                 /\ SubSeq(word, 1, Len(Keyword[k])) = Keyword[k]}
  IN  IF same = {} THEN NameOf(word) ELSE Token(CHOOSE k \in same : TRUE)

WordToken(word) ==
  LET same == {k \in DOMAIN Keyword : Keyword[k] = word}
  IN  IF same = {} THEN NameOf(word) ELSE Token(CHOOSE k \in same : TRUE)

ScanWord ==
  /\ Scanning("word")
  /\ IF ~AtEnd /\ IsAlpha(Here)
     THEN Advance /\ UNCHANGED <<tokens, scanning>>
     ELSE /\ scanning' = "scan" /\ UNCHANGED <<it, pos>>
          /\ Emit(WordToken(SubSeq(text, start, it - 1)))
  /\ UNCHANGED <<text, start, value, outcome>>

(* What value may hold after the next digit: signed overflow is undefined. *)
Accumulated(digit) ==
  LET sum == value * 10 + digit IN IF sum \in Ints THEN {sum} ELSE Ints

ScanNumber ==
  /\ Scanning("number")
  /\ IF ~AtEnd /\ IsDigit(Here)
     THEN /\ Advance /\ value' \in Accumulated(DigitValue(Here))
          /\ UNCHANGED <<tokens, scanning>>
     ELSE /\ scanning' = "scan" /\ UNCHANGED <<it, pos, value>>
          /\ Emit(IntToken(value))
  /\ UNCHANGED <<text, start, outcome>>

Finished == outcome # "scanning" /\ UNCHANGED vars

Next == Scan \/ ScanToken \/ ScanWord \/ ScanNumber \/ Finished

Spec == Init /\ [][Next]_vars

-----------------------------------------------------------------------------
(***************************************************************************)
(* What the tokens of a text are, by the table of docs/grammar.md.         *)
(***************************************************************************)
All(s, Class(_)) == \A k \in DOMAIN s : Class(s[k])

Spells(t, s) ==
  /\ s # << >>
  /\ CASE t.kind = "int"             -> All(s, IsDigit)
       [] t.kind = "lower"           -> s[1] \in Lowers /\ All(s, IsAlpha) /\ t.name = s
       [] t.kind = "upper"           -> s[1] \in Uppers /\ All(s, IsAlpha) /\ t.name = s
       [] t.kind \in DOMAIN Keyword  -> s = Keyword[t.kind]
       [] t.kind = "->"              -> s = <<"-", ">">>
       [] OTHER                      -> s = <<t.kind>>

IsLexeme(s) ==
  \/ All(s, IsDigit) \/ All(s, IsAlpha) \/ s = <<"-", ">">>
  \/ Len(s) = 1 /\ s[1] \in SingleCharTokens

Number(s) ==
  LET upTo[k \in 0..Len(s)] == IF k = 0 THEN 0 ELSE 10 * upTo[k - 1] + DigitValue(s[k])
  IN  upTo[Len(s)]

(* The line and the column of the k-th character, counted on the text. *)
Place(k) ==
  LET breaks == {b \in 1..(k - 1) : text[b] = "\n"}
      start_of_line == CHOOSE b \in breaks \cup {0} : \A c \in breaks : c <= b
  IN  [line |-> 1 + Cardinality(breaks), column |-> k - start_of_line]

Begin(p) == [line |-> p.begin_line, column |-> p.begin_column]
End(p)   == [line |-> p.end_line, column |-> p.end_column]

(* The characters that a position spans: from its first up to its last. *)
FromOf(p) == CHOOSE k \in 1..(Len(text) + 1) : Place(k) = Begin(p)
UpTo(p)  == (CHOOSE k \in 1..(Len(text) + 1) : Place(k) = End(p)) - 1

(* TypeOK: in particular, the current position is always that of it_. *)
TypeOK ==
  /\ it \in 1..(Len(text) + 1) /\ start \in 1..it /\ value \in Ints
  /\ outcome \in {"scanning", "accepted", "refused"}
  /\ scanning \in {"scan", "word", "number"}
  /\ \A k \in DOMAIN tokens : IsToken(tokens[k].load)
  /\ End(pos) = Place(it) /\ \E k \in 1..it : Begin(pos) = Place(k)

Spelled(t) == Number(SubSeq(text, FromOf(t.position), UpTo(t.position)))

Fits(t, s) == t.kind = "int" /\ Number(s) <= MaxInt => t.value = Number(s)

Foreign(k) == text[k] \notin Spaces /\ ~IsLexeme(<<text[k]>>)

(***************************************************************************)
(* TokensAreTheLexemes: the tokens are those of the text, left to right,   *)
(* with only spaces between them.  Each spans, by its position, characters *)
(* that spell it and of which no longer run would be a token: "offer" is   *)
(* one name, "->" one arrow, "dataA" no keyword; a literal has the value   *)
(* that is spelled, if an int can hold it.  A text is refused at its first *)
(* character that is in no token, and only then.                           *)
(***************************************************************************)
TokensAreTheLexemes ==
  LET p(k)  == tokens[k].position
      to    == IF tokens = << >> THEN 0 ELSE UpTo(p(Len(tokens)))
      blank(i, j) == \A b \in i..j : text[b] \in Spaces
  IN  /\ \A k \in DOMAIN tokens :
           LET from == IF k = 1 THEN 1 ELSE UpTo(p(k - 1)) + 1
               s    == SubSeq(text, FromOf(p(k)), UpTo(p(k)))
           IN  /\ from <= FromOf(p(k)) /\ blank(from, FromOf(p(k)) - 1)
               /\ Spells(tokens[k].load, s) /\ Fits(tokens[k].load, s)
               /\ \A e \in (UpTo(p(k)) + 1)..Len(text) :
                    ~IsLexeme(SubSeq(text, FromOf(p(k)), e))
      /\ outcome = "accepted" => blank(to + 1, Len(text))
      /\ outcome = "refused" =>
           blank(to + 1, FromOf(pos) - 1) /\ Foreign(FromOf(pos))

(***************************************************************************)
(* EveryLiteralHasItsValue: what docs/grammar.md says of IntLiteral, whose *)
(* digits it does not limit.  The code computes in an int, unchecked.      *)
(***************************************************************************)
EveryLiteralHasItsValue ==
  \A k \in DOMAIN tokens :
    tokens[k].load.kind = "int" => tokens[k].load.value = Spelled(tokens[k])
=============================================================================
