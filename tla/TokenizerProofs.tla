-------------------------- MODULE TokenizerProofs ---------------------------
(***************************************************************************)
(* The scanner, proved for texts of any length: its positions are those of *)
(* the characters, and its tokens are the lexemes of the text.             *)
(***************************************************************************)
EXTENDS Tokenizer, FiniteSetTheorems, TLAPS, WellFoundedInduction

-----------------------------------------------------------------------------
(* A nonempty set of natural numbers has a least one. *)
LEMMA LeastElement ==
  ASSUME NEW S \in SUBSET Nat, S # {}
  PROVE  \E i \in S : \A j \in S : i <= j
  <1>1. PICK i \in S : \A j \in S : ~(<<j, i>> \in OpToRel(<, Nat))
    BY NatLessThanWellFounded, WFMin
  <1>2. \A j \in S : ~(j < i)
    BY <1>1 DEF OpToRel
  <1> QED BY <1>2

-----------------------------------------------------------------------------
(* Characters: the classes that scanToken tells apart have none in common. *)
LEMMA DigitCharacters ==
  ASSUME NEW c, IsDigit(c)
  PROVE  c \in {"0", "1", "2", "3", "4", "5", "6", "7", "8", "9"}
  <1>1. DOMAIN Digits = 1..10
    BY DEF Digits
  <1>2. PICK d \in 1..10 : Digits[d] = c
    BY <1>1 DEF IsDigit
  <1>3. \/ d = 1 \/ d = 2 \/ d = 3 \/ d = 4 \/ d = 5
        \/ d = 6 \/ d = 7 \/ d = 8 \/ d = 9 \/ d = 10
    OBVIOUS
  <1>4. /\ Digits[1] = "0" /\ Digits[2] = "1" /\ Digits[3] = "2" /\ Digits[4] = "3"
        /\ Digits[5] = "4" /\ Digits[6] = "5" /\ Digits[7] = "6" /\ Digits[8] = "7"
        /\ Digits[9] = "8" /\ Digits[10] = "9"
    BY DEF Digits
  <1> QED BY <1>2, <1>3, <1>4

LEMMA Letters ==
  ASSUME NEW c, IsAlpha(c)
  PROVE  /\ ~IsDigit(c) /\ c \notin SingleCharTokens /\ c \notin Spaces
         /\ c \notin {"-", ">", "\n"}
  BY DigitCharacters DEF IsAlpha, Lowers, Uppers, SingleCharTokens, Spaces, VerticalTab

LEMMA DigitsApart ==
  ASSUME NEW c, IsDigit(c)
  PROVE  /\ c \notin SingleCharTokens /\ c \notin Spaces
         /\ c \notin {"-", ">", "\n"}
         /\ DigitValue(c) \in 0..9
  <1>1. DOMAIN Digits = 1..10
    BY DEF Digits
  <1>2. /\ c \notin SingleCharTokens /\ c \notin Spaces
        /\ c \notin {"-", ">", "\n"}
    BY DigitCharacters DEF SingleCharTokens, Spaces, VerticalTab
  <1>3. PICK d \in 1..10 : Digits[d] = c
    BY <1>1 DEF IsDigit
  <1>4. (CHOOSE e \in DOMAIN Digits : Digits[e] = c) \in 1..10
    BY <1>1, <1>3
  <1> QED BY <1>2, <1>4 DEF DigitValue

LEMMA Symbolic ==
  ASSUME NEW c \in SingleCharTokens
  PROVE  c \notin Spaces /\ c \in Symbols /\ c \notin {">", "\n"}
  BY DEF SingleCharTokens, Spaces, VerticalTab, Symbols

-----------------------------------------------------------------------------
(***************************************************************************)
(* Places, as functions of the text t: the scanner never changes it.       *)
(***************************************************************************)
Breaks(t, k)  == {b \in 1..(k - 1) : t[b] = "\n"}
LineFrom(t, k) == CHOOSE b \in Breaks(t, k) \cup {0} : \A c \in Breaks(t, k) : c <= b
PlaceIn(t, k) == [line |-> 1 + Cardinality(Breaks(t, k)), column |-> k - LineFrom(t, k)]

LEMMA BreaksFinite ==
  ASSUME NEW t, NEW k \in Nat
  PROVE  IsFiniteSet(Breaks(t, k)) /\ Cardinality(Breaks(t, k)) \in Nat
  <1>1. IsFiniteSet(1..(k - 1))
    BY FS_Interval
  <1>2. Breaks(t, k) \in SUBSET (1..(k - 1))
    BY DEF Breaks
  <1> QED BY <1>1, <1>2, FS_Subset, FS_CardinalityType

(* A line starts after the last break, or at the beginning. *)
LEMMA LineFromType ==
  ASSUME NEW t, NEW k \in Nat \ {0}
  PROVE  LineFrom(t, k) \in 0..(k - 1)
  <1> DEFINE S == {k - b : b \in Breaks(t, k) \cup {0}}
  <1>1. S \in SUBSET Nat /\ k \in S
    BY DEF Breaks
  <1>2. PICK d \in S : \A e \in S : d <= e
    BY <1>1, LeastElement
  <1>3. PICK b \in Breaks(t, k) \cup {0} : d = k - b
    OBVIOUS
  <1>4. \A c \in Breaks(t, k) : c <= b
    <2> SUFFICES ASSUME NEW c \in Breaks(t, k) PROVE c <= b
      OBVIOUS
    <2>1. k - c \in S
      OBVIOUS
    <2>2. c \in Int /\ b \in Int
      BY <1>3 DEF Breaks
    <2>3. k - b <= k - c
      BY <1>2, <1>3, <2>1
    <2> QED BY <2>2, <2>3
  <1>5. LineFrom(t, k) \in Breaks(t, k) \cup {0}
    BY <1>3, <1>4 DEF LineFrom
  <1> QED BY <1>5 DEF Breaks

LEMMA FirstPlace ==
  ASSUME NEW t
  PROVE  PlaceIn(t, 1) = [line |-> 1, column |-> 1]
  <1>1. Breaks(t, 1) = {}
    BY DEF Breaks
  <1>2. LineFrom(t, 1) = 0
    BY LineFromType
  <1> QED BY <1>1, <1>2, FS_EmptySet DEF PlaceIn

(* What the place of the next character is. *)
LEMMA NextPlace ==
  ASSUME NEW t, NEW k \in Nat \ {0}
  PROVE  PlaceIn(t, k + 1) =
           IF t[k] = "\n" THEN [line |-> PlaceIn(t, k).line + 1, column |-> 1]
           ELSE [line |-> PlaceIn(t, k).line, column |-> PlaceIn(t, k).column + 1]
  <1>0. /\ LineFrom(t, k) \in 0..(k - 1)
        /\ IsFiniteSet(Breaks(t, k)) /\ Cardinality(Breaks(t, k)) \in Nat
    BY LineFromType, BreaksFinite
  <1>1. CASE t[k] = "\n"
    <2>1. Breaks(t, k + 1) = Breaks(t, k) \cup {k} /\ k \notin Breaks(t, k)
      BY <1>1 DEF Breaks
    <2>2. Cardinality(Breaks(t, k + 1)) = Cardinality(Breaks(t, k)) + 1
      BY <1>0, <2>1, FS_AddElement
    <2>3. LineFrom(t, k + 1) = k
      <3>1. \A c \in Breaks(t, k + 1) : c <= k
        BY DEF Breaks
      <3>2. \A b \in Breaks(t, k + 1) \cup {0} :
              (\A c \in Breaks(t, k + 1) : c <= b) => b = k
        BY <2>1, <3>1 DEF Breaks
      <3> QED BY <2>1, <3>1, <3>2 DEF LineFrom
    <2> QED BY <1>0, <1>1, <2>2, <2>3 DEF PlaceIn
  <1>2. CASE t[k] # "\n"
    <2>1. Breaks(t, k + 1) = Breaks(t, k)
      BY <1>2 DEF Breaks
    <2>2. LineFrom(t, k + 1) = LineFrom(t, k)
      BY <2>1 DEF LineFrom
    <2> QED BY <1>0, <1>2, <2>1, <2>2 DEF PlaceIn
  <1> QED BY <1>1, <1>2

(* No two characters have the same place. *)
LEMMA PlacesDiffer ==
  ASSUME NEW t, NEW k \in Nat \ {0}, NEW l \in Nat \ {0}, PlaceIn(t, k) = PlaceIn(t, l)
  PROVE  k = l
  <1>1. ASSUME NEW i \in Nat \ {0}, NEW j \in Nat \ {0}, i < j,
               PlaceIn(t, i) = PlaceIn(t, j)
        PROVE  FALSE
    <2>1. /\ LineFrom(t, i) \in Int /\ LineFrom(t, j) \in Int
          /\ Cardinality(Breaks(t, i)) \in Nat /\ Cardinality(Breaks(t, j)) \in Nat
          /\ IsFiniteSet(Breaks(t, j))
      BY LineFromType, BreaksFinite
    <2>2. /\ Cardinality(Breaks(t, i)) = Cardinality(Breaks(t, j))
          /\ i - LineFrom(t, i) = j - LineFrom(t, j)
      BY <1>1, <2>1 DEF PlaceIn
    <2>3. Breaks(t, i) \in SUBSET Breaks(t, j)
      BY <1>1 DEF Breaks
    <2>4. Breaks(t, i) = Breaks(t, j)
      BY <2>1, <2>2, <2>3, FS_Subset
    <2>5. LineFrom(t, i) = LineFrom(t, j)
      BY <2>4 DEF LineFrom
    <2> QED BY <1>1, <2>1, <2>2, <2>5
  <1> QED BY <1>1

-----------------------------------------------------------------------------
(* Positions. *)
Position == [begin_line : Int, begin_column : Int, end_line : Int, end_column : Int]

(* What advance and scanToken do to a position that ends at the k-th character. *)
LEMMA AdvancedPlace ==
  ASSUME NEW t, NEW k \in Nat \ {0}, NEW p \in Position, End(p) = PlaceIn(t, k)
  PROVE  LET q == Advanced(p, t[k])
         IN  q \in Position /\ Begin(q) = Begin(p) /\ End(q) = PlaceIn(t, k + 1)
  <1> DEFINE q == Advanced(p, t[k])
  <1>1. PlaceIn(t, k).line = p.end_line /\ PlaceIn(t, k).column = p.end_column
    BY DEF End
  <1>2. CASE t[k] = "\n"
    <2>1. PlaceIn(t, k + 1) = [line |-> p.end_line + 1, column |-> 1]
      BY <1>1, <1>2, NextPlace
    <2>2. q = [begin_line |-> p.begin_line, begin_column |-> p.begin_column,
               end_line |-> p.end_line + 1, end_column |-> 1]
      BY <1>2 DEF Advanced, Position
    <2>3. /\ q \in Position /\ q.end_line = p.end_line + 1 /\ q.end_column = 1
          /\ q.begin_line = p.begin_line /\ q.begin_column = p.begin_column
      BY <2>2 DEF Position
    <2> QED BY <2>1, <2>3 DEF Begin, End
  <1>3. CASE t[k] # "\n"
    <2>1. PlaceIn(t, k + 1) = [line |-> p.end_line, column |-> p.end_column + 1]
      BY <1>1, <1>3, NextPlace
    <2>2. q = [p EXCEPT !.end_column = p.end_column + 1]
      BY <1>3 DEF Advanced
    <2>3. /\ q \in Position /\ q.end_line = p.end_line /\ q.end_column = p.end_column + 1
          /\ q.begin_line = p.begin_line /\ q.begin_column = p.begin_column
      BY <2>2 DEF Position
    <2> QED BY <2>1, <2>3 DEF Begin, End
  <1> QED BY <1>2, <1>3

LEMMA BegunPlace ==
  ASSUME pos \in Position
  PROVE  Begun \in Position /\ Begin(Begun) = End(pos) /\ End(Begun) = End(pos)
  BY DEF Begun, Position, Begin, End

LEMMA Slice ==
  ASSUME NEW t \in Seq(STRING), NEW i \in 1..(Len(t) + 1), NEW j \in (i - 1)..Len(t)
  PROVE  /\ SubSeq(t, i, j) \in Seq(STRING)
         /\ Len(SubSeq(t, i, j)) = j - i + 1
         /\ \A k \in 1..(j - i + 1) : SubSeq(t, i, j)[k] = t[i + k - 1]
  OBVIOUS

-----------------------------------------------------------------------------
Loads == [kind : {"int"}, value : Ints]
           \cup [kind : {"lower", "upper"}, name : Seq(STRING)] \cup [kind : Symbols]

Emitted == [load : Loads, position : Position]

LEMMA LoadsAreTokens ==
  ASSUME NEW t \in Loads
  PROVE  IsToken(t)
  BY DEF Loads, IsToken, IntToken, NameToken, Token, Symbols

LEMMA WordLoads ==
  ASSUME NEW w \in Seq(STRING)
  PROVE  WordToken(w) \in Loads
  <1> DEFINE same == {k \in DOMAIN Keyword : Keyword[k] = w}
  <1>1. DOMAIN Keyword \subseteq Symbols
    BY DEF Keyword, Symbols
  <1>2. CASE same = {}
    BY <1>2 DEF WordToken, NameOf, NameToken, Loads
  <1>3. CASE same # {}
    <2>1. (CHOOSE k \in same : TRUE) \in same
      BY <1>3
    <2>2. (CHOOSE k \in same : TRUE) \in Symbols
      BY <1>1, <2>1
    <2> QED BY <1>3, <2>2 DEF WordToken, Token, Loads
  <1> QED BY <1>2, <1>3

(* The types, with the position in step with it_. *)
ScanTypes ==
  /\ text \in Seq(STRING)
  /\ it \in 1..(Len(text) + 1) /\ start \in 1..it /\ value \in Ints
  /\ outcome \in {"scanning", "accepted", "refused"}
  /\ scanning \in {"scan", "word", "number"}
  /\ tokens \in Seq(Emitted)
  /\ pos \in Position
  /\ End(pos) = PlaceIn(text, it) /\ \E k \in 1..it : Begin(pos) = PlaceIn(text, k)

LEMMA InitScan == Init => ScanTypes
  <1> SUFFICES ASSUME Init PROVE ScanTypes
    OBVIOUS
  <1>1. text \in Seq(STRING) /\ value \in Ints
    BY TokenizerAssumption DEF Init, Ints
  <1>2. PlaceIn(text, 1) = [line |-> 1, column |-> 1]
    BY FirstPlace
  <1> QED BY <1>1, <1>2 DEF Init, ScanTypes, Position, Begin, End

LEMMA Advancing ==
  ASSUME ScanTypes, ~AtEnd, Advance, text' = text
  PROVE  /\ it' \in 1..(Len(text) + 1) /\ start \in 1..it' /\ pos' \in Position
         /\ Begin(pos') = Begin(pos) /\ End(pos') = PlaceIn(text, it')
         /\ \E k \in 1..it' : Begin(pos') = PlaceIn(text, k)
  <1>1. it \in 1..Len(text) /\ it' = it + 1
    BY DEF ScanTypes, AtEnd, Advance
  <1> QED BY <1>1, AdvancedPlace DEF ScanTypes, Advance, Here

LEMMA Emitting ==
  ASSUME ScanTypes, NEW t \in Loads, Emit(t), pos' \in Position
  PROVE  tokens' \in Seq(Emitted)
  <1>1. [load |-> t, position |-> pos'] \in Emitted
    BY DEF Emitted
  <1> QED BY <1>1 DEF ScanTypes, Emit

LEMMA AccumulatedTypes ==
  ASSUME NEW d, NEW v \in Accumulated(d)
  PROVE  v \in Ints
  BY DEF Accumulated

(* What scanToken does where no other function takes over. *)
LEMMA Arrow ==
  ASSUME ScanTypes, IsArrow, pos' = Advanced(Advanced(Begun, Here), text[it + 1])
  PROVE  /\ it + 2 \in 1..(Len(text) + 1) /\ pos' \in Position
         /\ Begin(pos') = PlaceIn(text, it) /\ End(pos') = PlaceIn(text, it + 2)
  <1>1. it \in 1..Len(text) /\ it + 1 \in 1..Len(text) /\ it + 1 \in Nat \ {0}
    BY DEF ScanTypes, IsArrow
  <1>2. /\ Begun \in Position
        /\ Begin(Begun) = PlaceIn(text, it) /\ End(Begun) = PlaceIn(text, it)
    BY BegunPlace DEF ScanTypes
  <1> DEFINE q == Advanced(Begun, Here)
  <1>3. q \in Position /\ Begin(q) = PlaceIn(text, it) /\ End(q) = PlaceIn(text, it + 1)
    BY <1>1, <1>2, AdvancedPlace DEF Here
  <1> HIDE DEF q
  <1>4. /\ pos' \in Position /\ Begin(pos') = PlaceIn(text, it)
        /\ End(pos') = PlaceIn(text, (it + 1) + 1)
    BY <1>1, <1>3, AdvancedPlace DEF q
  <1> QED BY <1>1, <1>4

LEMMA Single ==
  ASSUME ScanTypes, ~AtEnd, pos' = Advanced(Begun, Here)
  PROVE  /\ it + 1 \in 1..(Len(text) + 1) /\ pos' \in Position
         /\ Begin(pos') = PlaceIn(text, it) /\ End(pos') = PlaceIn(text, it + 1)
  <1>1. it \in 1..Len(text)
    BY DEF ScanTypes, AtEnd
  <1>2. /\ Begun \in Position
        /\ Begin(Begun) = PlaceIn(text, it) /\ End(Begun) = PlaceIn(text, it)
    BY BegunPlace DEF ScanTypes
  <1> QED BY <1>1, <1>2, AdvancedPlace DEF Here

LEMMA StepScanTypes == ScanTypes /\ [Next]_vars => ScanTypes'
  <1> SUFFICES ASSUME ScanTypes, [Next]_vars PROVE ScanTypes'
    OBVIOUS
  <1>1. CASE UNCHANGED vars
    BY <1>1 DEF ScanTypes, vars
  <1>2. CASE Scan
    <2>1. CASE ~AtEnd /\ Here \in Spaces /\ Advance /\ UNCHANGED outcome
      BY <1>2, <2>1, Advancing DEF Scan, ScanTypes
    <2>2. CASE AtEnd /\ outcome' = "accepted" /\ UNCHANGED <<it, pos>>
      BY <1>2, <2>2 DEF Scan, ScanTypes
    <2> QED BY <1>2, <2>1, <2>2 DEF Scan
  <1>3. CASE ScanToken
    <2>0. /\ text' = text /\ ~AtEnd /\ it \in 1..Len(text) /\ 0 \in Ints
          /\ Begun \in Position
          /\ Begin(Begun) = PlaceIn(text, it) /\ End(Begun) = PlaceIn(text, it)
      BY <1>3, BegunPlace, TokenizerAssumption DEF ScanToken, ScanTypes, AtEnd, Ints
    <2>1. CASE pos' = Begun /\ it' = it /\ tokens' = tokens
      BY <1>3, <2>0, <2>1 DEF ScanToken, ScanTypes, Emit
    <2>2. CASE /\ IsArrow /\ Emit(Token("->"))
               /\ it' = it + 2 /\ pos' = Advanced(Advanced(Begun, Here), text[it + 1])
               /\ UNCHANGED <<scanning, start, value, outcome>>
      <3>1. Token("->") \in Loads
        BY DEF Token, Loads, Symbols
      <3>2. /\ it' \in 1..(Len(text) + 1) /\ pos' \in Position
            /\ Begin(pos') = PlaceIn(text, it) /\ End(pos') = PlaceIn(text, it')
        BY <2>2, Arrow
      <3>3. start \in 1..it' /\ it \in 1..it'
        BY <2>0, <2>2 DEF ScanTypes
      <3>4. tokens' \in Seq(Emitted)
        BY <2>2, <3>1, <3>2, Emitting
      <3> QED BY <2>0, <2>2, <3>2, <3>3, <3>4 DEF ScanTypes
    <2>3. CASE /\ Here \in SingleCharTokens /\ Emit(Token(Here))
               /\ it' = it + 1 /\ pos' = Advanced(Begun, Here)
               /\ UNCHANGED <<scanning, start, value, outcome>>
      <3>1. Token(Here) \in Loads
        BY <2>3, Symbolic DEF Token, Loads
      <3>2. /\ it' \in 1..(Len(text) + 1) /\ pos' \in Position
            /\ Begin(pos') = PlaceIn(text, it) /\ End(pos') = PlaceIn(text, it')
        BY <2>0, <2>3, Single
      <3>3. start \in 1..it' /\ it \in 1..it'
        BY <2>0, <2>3 DEF ScanTypes
      <3>4. tokens' \in Seq(Emitted)
        BY <2>3, <3>1, <3>2, Emitting
      <3> QED BY <2>0, <2>3, <3>2, <3>3, <3>4 DEF ScanTypes
    <2> QED BY <1>3, <2>1, <2>2, <2>3 DEF ScanToken
  <1>4. CASE ScanWord
    <2>1. CASE ~AtEnd /\ IsAlpha(Here)
      BY <1>4, <2>1, Advancing DEF ScanWord, ScanTypes
    <2>2. CASE ~(~AtEnd /\ IsAlpha(Here))
      <3>1. SubSeq(text, start, it - 1) \in Seq(STRING)
        BY Slice DEF ScanTypes
      <3>2. UNCHANGED <<text, it, pos, start, value, outcome>> /\ scanning' = "scan"
        BY <1>4, <2>2 DEF ScanWord
      <3>3. tokens' \in Seq(Emitted)
        BY <1>4, <2>2, <3>1, <3>2, WordLoads, Emitting DEF ScanWord, ScanTypes
      <3> QED BY <3>2, <3>3 DEF ScanTypes
    <2> QED BY <2>1, <2>2
  <1>5. CASE ScanNumber
    <2>1. CASE ~AtEnd /\ IsDigit(Here)
      BY <1>5, <2>1, Advancing, AccumulatedTypes DEF ScanNumber, ScanTypes
    <2>2. CASE ~(~AtEnd /\ IsDigit(Here))
      <3>1. IntToken(value) \in Loads
        BY DEF IntToken, Loads, ScanTypes
      <3>2. UNCHANGED <<text, it, pos, start, value, outcome>> /\ scanning' = "scan"
        BY <1>5, <2>2 DEF ScanNumber
      <3>3. tokens' \in Seq(Emitted)
        BY <1>5, <2>2, <3>1, <3>2, Emitting DEF ScanNumber, ScanTypes
      <3> QED BY <3>2, <3>3 DEF ScanTypes
    <2> QED BY <2>1, <2>2
  <1> QED BY <1>1, <1>2, <1>3, <1>4, <1>5 DEF Next, Finished

LEMMA TokenizerTypes == Spec => []ScanTypes
  <1> QED BY InitScan, StepScanTypes, PTL DEF Spec

LEMMA PlaceHere ==
  ASSUME NEW k
  PROVE  Place(k) = PlaceIn(text, k)
  BY DEF Place, PlaceIn, LineFrom, Breaks

(***************************************************************************)
(* TypeOK, for every text: in particular, the line and column that advance *)
(* and scanToken count along are always those of the next character.       *)
(***************************************************************************)
THEOREM TokenizerTypeOK == Spec => []TypeOK
  <1>1. ScanTypes => TypeOK
    <2> SUFFICES ASSUME ScanTypes PROVE TypeOK
      OBVIOUS
    <2>1. ASSUME NEW k \in DOMAIN tokens PROVE IsToken(tokens[k].load)
      <3>1. tokens[k] \in Emitted
        BY DEF ScanTypes
      <3> QED BY <3>1, LoadsAreTokens DEF Emitted
    <2>2. End(pos) = Place(it) /\ \E k \in 1..it : Begin(pos) = Place(k)
      BY PlaceHere DEF ScanTypes
    <2> QED BY <2>1, <2>2 DEF ScanTypes, TypeOK
  <1> QED BY TokenizerTypes, <1>1, PTL

-----------------------------------------------------------------------------
(***************************************************************************)
(* What a literal spells.  Number is a recursive function on the prefixes; *)
(* that there is one, and that it reads digit by digit, is by induction on *)
(* the length, in the form of a least counterexample.                      *)
(***************************************************************************)
Reads(f, s, n) == f = [k \in 0..n |-> IF k = 0 THEN 0 ELSE 10 * f[k - 1] + DigitValue(s[k])]

LEMMA ReadsExists ==
  ASSUME NEW s, NEW n \in Nat
  PROVE  \E f : Reads(f, s, n)
  <1> DEFINE Bad == {m \in Nat : ~\E f : Reads(f, s, m)}
  <1> SUFFICES ASSUME Bad # {} PROVE FALSE
    OBVIOUS
  <1>1. PICK m \in Bad : \A j \in Bad : m <= j
    BY LeastElement
  <1>2. CASE m = 0
    <2>1. Reads([k \in 0..0 |-> 0], s, 0)
      BY DEF Reads
    <2> QED BY <1>2, <2>1
  <1>3. CASE m # 0
    <2>1. m \in Nat /\ m - 1 \in Nat /\ ~(m - 1 \in Bad)
      BY <1>1, <1>3
    <2>2. PICK f : Reads(f, s, m - 1)
      BY <2>1
    <2> DEFINE g == [k \in 0..m |-> IF k = m THEN 10 * f[m - 1] + DigitValue(s[m]) ELSE f[k]]
    <2>3. ASSUME NEW k \in 0..m
          PROVE  g[k] = IF k = 0 THEN 0 ELSE 10 * g[k - 1] + DigitValue(s[k])
      BY <1>3, <2>1, <2>2, <2>3 DEF Reads
    <2>4. g = [k \in 0..m |-> IF k = 0 THEN 0 ELSE 10 * g[k - 1] + DigitValue(s[k])]
      BY <2>3
    <2>5. Reads(g, s, m)
      BY <2>4 DEF Reads
    <2> QED BY <2>5
  <1> QED BY <1>2, <1>3

(* Two readers of texts that agree on a prefix agree on its value. *)
LEMMA ReadsAgree ==
  ASSUME NEW s, NEW r, NEW m \in Nat, NEW n \in Nat, NEW f, NEW g,
         Reads(f, s, m), Reads(g, r, n),
         NEW l \in Nat, l <= m, l <= n, \A k \in 1..l : s[k] = r[k]
  PROVE  f[l] = g[l]
  <1> DEFINE Bad == {k \in 0..l : f[k] # g[k]}
  <1> SUFFICES ASSUME Bad # {} PROVE FALSE
    OBVIOUS
  <1>0. Bad \in SUBSET Nat
    OBVIOUS
  <1>1. PICK k \in Bad : \A j \in Bad : k <= j
    BY <1>0, LeastElement
  <1>2. k \in 0..m /\ k \in 0..n /\ k \in 0..l
    OBVIOUS
  <1>3. /\ f[k] = IF k = 0 THEN 0 ELSE 10 * f[k - 1] + DigitValue(s[k])
        /\ g[k] = IF k = 0 THEN 0 ELSE 10 * g[k - 1] + DigitValue(r[k])
    BY <1>2 DEF Reads
  <1>4. CASE k = 0
    BY <1>3, <1>4
  <1>5. CASE k # 0
    <2>1. k - 1 \in 0..l /\ ~(k - 1 \in Bad) /\ s[k] = r[k]
      BY <1>1, <1>2, <1>5
    <2> QED BY <1>3, <1>5, <2>1
  <1> QED BY <1>4, <1>5

(* Digits spell natural numbers. *)
LEMMA ReadsNat ==
  ASSUME NEW s, NEW n \in Nat, NEW f, Reads(f, s, n), \A k \in 1..n : IsDigit(s[k]),
         NEW l \in 0..n
  PROVE  f[l] \in Nat
  <1> DEFINE Bad == {k \in 0..n : f[k] \notin Nat}
  <1> SUFFICES ASSUME Bad # {} PROVE FALSE
    OBVIOUS
  <1>0. Bad \in SUBSET Nat
    OBVIOUS
  <1>1. PICK k \in Bad : \A j \in Bad : k <= j
    BY <1>0, LeastElement
  <1>2. f[k] = IF k = 0 THEN 0 ELSE 10 * f[k - 1] + DigitValue(s[k])
    BY DEF Reads
  <1>3. CASE k # 0
    <2>1. k - 1 \in 0..n /\ ~(k - 1 \in Bad) /\ DigitValue(s[k]) \in 0..9
      BY <1>1, <1>3, DigitsApart
    <2> QED BY <1>2, <1>3, <2>1
  <1> QED BY <1>2, <1>3

LEMMA NumberReads ==
  ASSUME NEW s, Len(s) \in Nat
  PROVE  \E f : Reads(f, s, Len(s)) /\ Number(s) = f[Len(s)]
  <1> DEFINE f == CHOOSE h : Reads(h, s, Len(s))
  <1>1. Reads(f, s, Len(s))
    BY ReadsExists
  <1>2. Number(s) = f[Len(s)]
    BY DEF Number, Reads
  <1> QED BY <1>1, <1>2

LEMMA NumberOfNone == Number(<< >>) = 0
  <1>1. PICK f : Reads(f, << >>, 0) /\ Number(<< >>) = f[0]
    BY NumberReads
  <1> QED BY <1>1 DEF Reads

LEMMA NumberOfDigits ==
  ASSUME NEW s \in Seq(STRING), All(s, IsDigit)
  PROVE  Number(s) \in Nat
  <1>1. PICK f : Reads(f, s, Len(s)) /\ Number(s) = f[Len(s)]
    BY NumberReads
  <1>2. \A k \in 1..Len(s) : IsDigit(s[k])
    BY DEF All
  <1> QED BY <1>1, <1>2, ReadsNat

(* One digit more. *)
LEMMA NumberOfNext ==
  ASSUME NEW t \in Seq(STRING), NEW i \in 1..Len(t), NEW j \in i..Len(t)
  PROVE  Number(SubSeq(t, i, j)) = 10 * Number(SubSeq(t, i, j - 1)) + DigitValue(t[j])
  <1> DEFINE s == SubSeq(t, i, j)
             r == SubSeq(t, i, j - 1)
             n == j - i
  <1>1. /\ n \in Nat /\ Len(s) = n + 1 /\ Len(r) = n /\ s[n + 1] = t[j]
        /\ \A k \in 1..n : s[k] = r[k]
    BY Slice
  <1> HIDE DEF s, r, n
  <1>2. PICK f : Reads(f, s, n + 1) /\ Number(s) = f[n + 1]
    BY <1>1, NumberReads
  <1>3. PICK g : Reads(g, r, n) /\ Number(r) = g[n]
    BY <1>1, NumberReads
  <1>4. f[n] = g[n]
    BY <1>1, <1>2, <1>3, ReadsAgree, SMTT(30), Zenon
  <1>5. f[n + 1] = 10 * f[n] + DigitValue(s[n + 1])
    BY <1>1, <1>2 DEF Reads
  <1>6. Number(s) = 10 * Number(r) + DigitValue(t[j])
    BY <1>1, <1>2, <1>3, <1>4, <1>5
  <1> QED BY <1>6 DEF s, r

-----------------------------------------------------------------------------
(***************************************************************************)
(* Lexemes.  The characters from the i-th to the j-th of t are the lexeme  *)
(* of the token x, after spaces only from the n-th on.                     *)
(***************************************************************************)
Blank(t, i, j) == \A b \in i..j : t[b] \in Spaces

Lexeme(t, n, i, j, x) ==
  /\ n <= i /\ Blank(t, n, i - 1)
  /\ Spells(x, SubSeq(t, i, j)) /\ Fits(x, SubSeq(t, i, j))
  /\ \A e \in (j + 1)..Len(t) : ~IsLexeme(SubSeq(t, i, e))

LEMMA SpellsWord ==
  ASSUME NEW s \in Seq(STRING), s # << >>, All(s, IsAlpha)
  PROVE  Spells(WordToken(s), s) /\ WordToken(s).kind # "int"
  <1> DEFINE same == {k \in DOMAIN Keyword : Keyword[k] = s}
  <1>0. 1 \in DOMAIN s /\ DOMAIN Keyword = {"defn", "data", "case", "of"}
    BY DEF Keyword
  <1>1. CASE same # {}
    <2> DEFINE k == CHOOSE x \in same : TRUE
    <2>1. k \in same
      BY <1>1
    <2>2. k \in {"defn", "data", "case", "of"} /\ Keyword[k] = s
      BY <1>0, <2>1
    <2>3. WordToken(s) = Token(k)
      BY <1>1 DEF WordToken
    <2>4. WordToken(s).kind = k
      BY <2>3 DEF Token
    <2> HIDE DEF k
    <2> QED BY <1>0, <2>2, <2>4 DEF Spells
  <1>2. CASE same = {}
    <2>1. WordToken(s) = NameOf(s)
      BY <1>2 DEF WordToken
    <2>2. IsAlpha(s[1])
      BY <1>0 DEF All
    <2>3. CASE s[1] \in Lowers
      <3>1. WordToken(s).kind = "lower" /\ WordToken(s).name = s
        BY <2>1, <2>3 DEF NameOf, NameToken
      <3> QED BY <1>0, <2>3, <3>1 DEF Spells
    <2>4. CASE s[1] \notin Lowers
      <3>1. WordToken(s).kind = "upper" /\ WordToken(s).name = s
        BY <2>1, <2>4 DEF NameOf, NameToken
      <3>2. s[1] \in Uppers
        BY <2>2, <2>4 DEF IsAlpha
      <3> QED BY <1>0, <3>1, <3>2 DEF Spells
    <2> QED BY <2>3, <2>4
  <1> QED BY <1>1, <1>2

LEMMA ShortTexts ==
  /\ \A s \in Seq(STRING) : Len(s) = 1 => s = <<s[1]>>
  /\ \A s \in Seq(STRING) : Len(s) = 2 => s = <<s[1], s[2]>>
  <1>1. ASSUME NEW s \in Seq(STRING), Len(s) = 1 PROVE s = <<s[1]>>
    <2>1. s = [k \in 1..1 |-> s[k]]
      BY <1>1
    <2> QED BY <2>1
  <1>2. ASSUME NEW s \in Seq(STRING), Len(s) = 2 PROVE s = <<s[1], s[2]>>
    <2>1. s = [k \in 1..2 |-> s[k]]
      BY <1>2
    <2> QED BY <2>1
  <1> QED BY <1>1, <1>2

LEMMA NoKeyword == DOMAIN Keyword \cap {"int", "lower", "upper", "->"} = {}
  BY DEF Keyword

(* No longer run is a lexeme: it would hold the character after the run. *)
LEMMA LongerThanWord ==
  ASSUME NEW t \in Seq(STRING), NEW i \in 1..Len(t), NEW j \in i..Len(t),
         IsAlpha(t[i]), j < Len(t) => ~IsAlpha(t[j + 1]),
         NEW e \in (j + 1)..Len(t)
  PROVE  ~IsLexeme(SubSeq(t, i, e))
  <1> DEFINE s == SubSeq(t, i, e)
             n == e - i + 1
             m == j - i + 2
  <1>1. /\ n \in Nat /\ n > 1 /\ m \in 1..n /\ i + m - 1 = j + 1
        /\ s \in Seq(STRING) /\ Len(s) = n /\ DOMAIN s = 1..n
        /\ s[1] = t[i] /\ s[m] = t[j + 1]
    BY Slice
  <1> HIDE DEF s, n, m
  <1>2. ~IsAlpha(s[m])
    BY <1>1
  <1>3. ~All(s, IsDigit)
    BY <1>1, Letters DEF All
  <1>4. ~All(s, IsAlpha)
    BY <1>1, <1>2 DEF All
  <1>5. s # <<"-", ">">>
    BY <1>1, Letters
  <1>6. ~IsLexeme(s)
    BY <1>1, <1>3, <1>4, <1>5 DEF IsLexeme
  <1> QED BY <1>6 DEF s

LEMMA LongerThanNumber ==
  ASSUME NEW t \in Seq(STRING), NEW i \in 1..Len(t), NEW j \in i..Len(t),
         IsDigit(t[i]), j < Len(t) => ~IsDigit(t[j + 1]),
         NEW e \in (j + 1)..Len(t)
  PROVE  ~IsLexeme(SubSeq(t, i, e))
  <1> DEFINE s == SubSeq(t, i, e)
             n == e - i + 1
             m == j - i + 2
  <1>1. /\ n \in Nat /\ n > 1 /\ m \in 1..n /\ i + m - 1 = j + 1
        /\ s \in Seq(STRING) /\ Len(s) = n /\ DOMAIN s = 1..n
        /\ s[1] = t[i] /\ s[m] = t[j + 1]
    BY Slice
  <1> HIDE DEF s, n, m
  <1>2. ~IsDigit(s[m])
    BY <1>1
  <1>3. ~All(s, IsDigit)
    BY <1>1, <1>2 DEF All
  <1>4. ~All(s, IsAlpha)
    BY <1>1, Letters DEF All
  <1>5. s # <<"-", ">">>
    BY <1>1, DigitsApart
  <1>6. ~IsLexeme(s)
    BY <1>1, <1>3, <1>4, <1>5 DEF IsLexeme
  <1> QED BY <1>6 DEF s

(* A symbol is in no longer lexeme but the arrow. *)
LEMMA LongerThanSymbol ==
  ASSUME NEW t \in Seq(STRING), NEW i \in 1..Len(t), t[i] \in SingleCharTokens,
         NEW e \in (i + 1)..Len(t),
         IsLexeme(SubSeq(t, i, e))
  PROVE  e = i + 1 /\ t[i] = "-" /\ t[i + 1] = ">"
  <1> DEFINE s == SubSeq(t, i, e)
             n == e - i + 1
  <1>1. /\ n \in Nat /\ n > 1
        /\ s \in Seq(STRING) /\ Len(s) = n /\ DOMAIN s = 1..n
        /\ s[1] = t[i] /\ s[2] = t[i + 1]
    BY Slice
  <1>2. IsLexeme(s)
    OBVIOUS
  <1> HIDE DEF s
  <1>3. ~IsAlpha(t[i]) /\ ~IsDigit(t[i])
    BY Letters, DigitsApart
  <1>4. ~All(s, IsDigit) /\ ~All(s, IsAlpha)
    BY <1>1, <1>3 DEF All
  <1>5. s = <<"-", ">">>
    BY <1>1, <1>2, <1>4 DEF IsLexeme
  <1>6. n = 2 /\ s[1] = "-" /\ s[2] = ">"
    BY <1>1, <1>5
  <1>7. e = i + 1
    BY <1>6
  <1> QED BY <1>1, <1>6, <1>7

LEMMA AllOfSlice ==
  ASSUME NEW t \in Seq(STRING), NEW i \in 1..Len(t), NEW j \in i..Len(t)
  PROVE  /\ SubSeq(t, i, j) # << >> /\ SubSeq(t, i, j) \in Seq(STRING)
         /\ (\A k \in i..j : IsAlpha(t[k])) => All(SubSeq(t, i, j), IsAlpha)
         /\ (\A k \in i..j : IsDigit(t[k])) => All(SubSeq(t, i, j), IsDigit)
  <1> DEFINE s == SubSeq(t, i, j)
  <1>1. /\ s \in Seq(STRING) /\ Len(s) = j - i + 1 /\ DOMAIN s = 1..(j - i + 1)
        /\ \A k \in 1..(j - i + 1) : s[k] = t[i + k - 1] /\ i + k - 1 \in i..j
    BY Slice
  <1> HIDE DEF s
  <1>2. (\A k \in i..j : IsAlpha(t[k])) => All(s, IsAlpha)
    BY <1>1 DEF All
  <1>3. (\A k \in i..j : IsDigit(t[k])) => All(s, IsDigit)
    BY <1>1 DEF All
  <1>4. s # << >>
    BY <1>1
  <1> QED BY <1>1, <1>2, <1>3, <1>4 DEF s

LEMMA WordLexeme ==
  ASSUME NEW t \in Seq(STRING), NEW i \in 1..Len(t), NEW j \in i..Len(t),
         \A k \in i..j : IsAlpha(t[k]), j < Len(t) => ~IsAlpha(t[j + 1]),
         NEW n \in Nat, n <= i, Blank(t, n, i - 1)
  PROVE  Lexeme(t, n, i, j, WordToken(SubSeq(t, i, j)))
  <1>1. IsAlpha(t[i])
    OBVIOUS
  <1>2. /\ Spells(WordToken(SubSeq(t, i, j)), SubSeq(t, i, j))
        /\ Fits(WordToken(SubSeq(t, i, j)), SubSeq(t, i, j))
    BY AllOfSlice, SpellsWord DEF Fits
  <1> QED BY <1>1, <1>2, LongerThanWord DEF Lexeme

LEMMA NumberLexeme ==
  ASSUME NEW t \in Seq(STRING), NEW i \in 1..Len(t), NEW j \in i..Len(t),
         \A k \in i..j : IsDigit(t[k]), j < Len(t) => ~IsDigit(t[j + 1]),
         NEW n \in Nat, n <= i, Blank(t, n, i - 1),
         NEW v, Number(SubSeq(t, i, j)) <= MaxInt => v = Number(SubSeq(t, i, j))
  PROVE  Lexeme(t, n, i, j, IntToken(v))
  <1>1. IsDigit(t[i])
    OBVIOUS
  <1>2. IntToken(v).kind = "int" /\ IntToken(v).value = v
    BY DEF IntToken
  <1>3. /\ Spells(IntToken(v), SubSeq(t, i, j)) /\ Fits(IntToken(v), SubSeq(t, i, j))
    BY <1>2, AllOfSlice, NoKeyword DEF Spells, Fits
  <1> QED BY <1>1, <1>3, LongerThanNumber DEF Lexeme

LEMMA ArrowLexeme ==
  ASSUME NEW t \in Seq(STRING), NEW i \in 1..Len(t), i < Len(t),
         t[i] = "-", t[i + 1] = ">",
         NEW n \in Nat, n <= i, Blank(t, n, i - 1)
  PROVE  Lexeme(t, n, i, i + 1, Token("->"))
  <1>1. SubSeq(t, i, i + 1) = <<"-", ">">>
    <2>1. Len(SubSeq(t, i, i + 1)) = 2 /\ SubSeq(t, i, i + 1) \in Seq(STRING)
          /\ SubSeq(t, i, i + 1)[1] = "-" /\ SubSeq(t, i, i + 1)[2] = ">"
      BY Slice
    <2> QED BY <2>1, ShortTexts
  <1>2. Token("->").kind = "->"
    BY DEF Token
  <1>3. /\ Spells(Token("->"), SubSeq(t, i, i + 1)) /\ Fits(Token("->"), SubSeq(t, i, i + 1))
    <2>1. SubSeq(t, i, i + 1) # << >>
      BY AllOfSlice
    <2> DEFINE s == SubSeq(t, i, i + 1)
               x == Token("->")
    <2>2. s # << >> /\ s = <<"-", ">">> /\ x.kind = "->"
      BY <1>1, <1>2, <2>1
    <2> HIDE DEF s, x
    <2>3. Spells(x, s) /\ Fits(x, s)
      BY <2>2, NoKeyword DEF Spells, Fits
    <2> QED BY <2>3 DEF s, x
  <1>4. \A e \in (i + 2)..Len(t) : ~IsLexeme(SubSeq(t, i, e))
    <2>1. t[i] \in SingleCharTokens
      BY DEF SingleCharTokens
    <2> QED BY <2>1, LongerThanSymbol
  <1> QED BY <1>3, <1>4 DEF Lexeme

LEMMA SymbolLexeme ==
  ASSUME NEW t \in Seq(STRING), NEW i \in 1..Len(t), t[i] \in SingleCharTokens,
         ~(i < Len(t) /\ t[i] = "-" /\ t[i + 1] = ">"),
         NEW n \in Nat, n <= i, Blank(t, n, i - 1)
  PROVE  Lexeme(t, n, i, i, Token(t[i]))
  <1>1. SubSeq(t, i, i) = <<t[i]>>
    <2>1. Len(SubSeq(t, i, i)) = 1 /\ SubSeq(t, i, i) \in Seq(STRING)
          /\ SubSeq(t, i, i)[1] = t[i]
      BY Slice
    <2> QED BY <2>1, ShortTexts
  <1>2. Token(t[i]).kind = t[i]
    BY DEF Token
  <1>3. t[i] \notin {"int", "lower", "upper", "defn", "data", "case", "of", "->"}
    BY DEF SingleCharTokens
  <1>4. DOMAIN Keyword = {"defn", "data", "case", "of"}
    BY DEF Keyword
  <1>5. /\ Spells(Token(t[i]), SubSeq(t, i, i)) /\ Fits(Token(t[i]), SubSeq(t, i, i))
    BY <1>1, <1>2, <1>3, <1>4 DEF Spells, Fits
  <1>6. \A e \in (i + 1)..Len(t) : ~IsLexeme(SubSeq(t, i, e))
    BY LongerThanSymbol
  <1> QED BY <1>5, <1>6 DEF Lexeme

-----------------------------------------------------------------------------
(* The characters of a position, and where the search for a token begins. *)
FromIn(t, p) == CHOOSE k \in 1..(Len(t) + 1) : PlaceIn(t, k) = Begin(p)
UpIn(t, p)   == (CHOOSE k \in 1..(Len(t) + 1) : PlaceIn(t, k) = End(p)) - 1

NextOf(t, ts, k) == IF k = 0 THEN 1 ELSE UpIn(t, ts[k].position) + 1

LexemeOf(t, ts, k) ==
  Lexeme(t, NextOf(t, ts, k - 1), FromIn(t, ts[k].position), UpIn(t, ts[k].position),
         ts[k].load)

Lexemes(t, ts) == \A k \in 1..Len(ts) : LexemeOf(t, ts, k)

LEMMA Spanned ==
  ASSUME NEW t \in Seq(STRING), NEW p, NEW k \in 1..(Len(t) + 1)
  PROVE  /\ Begin(p) = PlaceIn(t, k) => FromIn(t, p) = k
         /\ End(p) = PlaceIn(t, k) => UpIn(t, p) = k - 1
  <1>1. \A l \in 1..(Len(t) + 1) : PlaceIn(t, l) = PlaceIn(t, k) => l = k
    BY PlacesDiffer
  <1> QED BY <1>1 DEF FromIn, UpIn

(* One lexeme more, at the position that emit gives it. *)
LEMMA LexemeAppended ==
  ASSUME NEW t \in Seq(STRING), NEW ts \in Seq(Emitted), Lexemes(t, ts),
         NEW x \in Loads, NEW p \in Position,
         NEW i \in 1..Len(t), NEW j \in i..Len(t),
         Begin(p) = PlaceIn(t, i), End(p) = PlaceIn(t, j + 1),
         Lexeme(t, NextOf(t, ts, Len(ts)), i, j, x)
  PROVE  LET us == Append(ts, [load |-> x, position |-> p])
         IN  Lexemes(t, us) /\ NextOf(t, us, Len(us)) = j + 1
  <1> DEFINE u  == [load |-> x, position |-> p]
             us == Append(ts, u)
             l  == Len(ts)
  <1>1. FromIn(t, p) = i /\ UpIn(t, p) = j
    BY Spanned
  <1>2. u \in Emitted /\ u.load = x /\ u.position = p
    BY DEF Emitted
  <1> HIDE DEF u
  <1>3. /\ l \in Nat /\ Len(us) = l + 1 /\ us[l + 1] = u
        /\ \A k \in 1..l : us[k] = ts[k]
    BY <1>2
  <1> HIDE DEF us, l
  <1>4. \A k \in 0..l : NextOf(t, us, k) = NextOf(t, ts, k)
    BY <1>3 DEF NextOf
  <1>5. NextOf(t, us, l + 1) = j + 1
    BY <1>1, <1>2, <1>3 DEF NextOf
  <1>6. ASSUME NEW k \in 1..(l + 1) PROVE LexemeOf(t, us, k)
    <2>1. CASE k = l + 1
      <3>1. k - 1 = l /\ NextOf(t, us, l) = NextOf(t, ts, l)
        BY <1>3, <1>4, <2>1
      <3>2. Lexeme(t, NextOf(t, ts, l), i, j, x)
        BY DEF l
      <3> QED BY <1>1, <1>2, <1>3, <2>1, <3>1, <3>2 DEF LexemeOf
    <2>2. CASE k # l + 1
      <3>1. k \in 1..l /\ k - 1 \in 0..l
        BY <1>3, <2>2
      <3>2. LexemeOf(t, ts, k)
        BY <3>1 DEF Lexemes, l
      <3> QED BY <1>3, <1>4, <3>1, <3>2 DEF LexemeOf
    <2> QED BY <2>1, <2>2
  <1>7. Lexemes(t, us) /\ NextOf(t, us, Len(us)) = j + 1
    BY <1>3, <1>5, <1>6 DEF Lexemes
  <1> QED BY <1>7 DEF us, u

(***************************************************************************)
(* The inductive invariant: the tokens so far are lexemes; after the last  *)
(* there are spaces only, or the beginning of the word or of the number    *)
(* that is being scanned, whose value is right while an int can hold it.   *)
(***************************************************************************)
After == NextOf(text, tokens, Len(tokens))

LexInv ==
  /\ Lexemes(text, tokens)
  /\ After \in 1..it
  /\ outcome # "scanning" => scanning = "scan"
  /\ scanning = "scan" => Blank(text, After, it - 1)
  /\ outcome = "accepted" => AtEnd
  /\ outcome = "refused" => ~AtEnd /\ Foreign(it) /\ Begin(pos) = PlaceIn(text, it)
  /\ scanning = "word" =>
       /\ After <= start /\ Blank(text, After, start - 1)
       /\ Begin(pos) = PlaceIn(text, start)
       /\ start <= Len(text) /\ IsAlpha(text[start])
       /\ \A k \in start..(it - 1) : IsAlpha(text[k])
  /\ scanning = "number" =>
       \E i \in After..it :
         /\ Blank(text, After, i - 1) /\ Begin(pos) = PlaceIn(text, i)
         /\ i <= Len(text) /\ IsDigit(text[i])
         /\ \A k \in i..(it - 1) : IsDigit(text[k])
         /\ LET number == Number(SubSeq(text, i, it - 1))
            IN  number <= MaxInt => value = number

LEMMA InitLex == Init => LexInv
  BY DEF Init, LexInv, After, NextOf, Lexemes, Blank

(* A step that emits a token, which ends where the scanner goes on. *)
LEMMA EmitLexeme ==
  ASSUME ScanTypes, LexInv, text' = text, outcome' = "scanning", scanning' = "scan",
         NEW x \in Loads, Emit(x), pos' \in Position,
         NEW i \in 1..Len(text), NEW j \in i..Len(text), it' = j + 1,
         Begin(pos') = PlaceIn(text, i), End(pos') = PlaceIn(text, j + 1),
         Lexeme(text, After, i, j, x)
  PROVE  LexInv'
  <1>1. tokens \in Seq(Emitted) /\ text \in Seq(STRING) /\ Lexemes(text, tokens)
    BY DEF ScanTypes, LexInv
  <1>2. Lexeme(text, NextOf(text, tokens, Len(tokens)), i, j, x)
    BY DEF After
  <1> DEFINE us == Append(tokens, [load |-> x, position |-> pos'])
  <1>3. tokens' = us
    BY DEF Emit
  <1>4. Lexemes(text, us) /\ NextOf(text, us, Len(us)) = j + 1
    BY <1>1, <1>2, LexemeAppended
  <1> HIDE DEF us
  <1>5. Lexemes(text', tokens') /\ After' = it' /\ it' \in Nat
    BY <1>3, <1>4 DEF After
  <1>6. Blank(text', After', it' - 1) /\ After' \in 1..it'
    BY <1>5 DEF Blank
  <1> QED BY <1>5, <1>6 DEF LexInv

LEMMA ScanLex ==
  ASSUME ScanTypes, LexInv, Scan
  PROVE  LexInv'
  <1>1. /\ text' = text /\ tokens' = tokens /\ scanning = "scan" /\ scanning' = "scan"
        /\ outcome = "scanning" /\ After' = After
    BY DEF Scan, Scanning, After
  <1>2. Blank(text, After, it - 1) /\ After \in 1..it /\ Lexemes(text, tokens)
    BY <1>1 DEF LexInv
  <1>3. CASE AtEnd /\ outcome' = "accepted" /\ UNCHANGED <<it, pos>>
    BY <1>1, <1>2, <1>3 DEF LexInv, AtEnd
  <1>4. CASE ~AtEnd /\ Here \in Spaces /\ Advance /\ UNCHANGED outcome
    <2>1. it \in Nat /\ it' = it + 1 /\ text[it] \in Spaces
      BY <1>4 DEF ScanTypes, Advance, Here
    <2>2. Blank(text, After, it' - 1) /\ After \in 1..it'
      BY <1>2, <2>1 DEF Blank
    <2> QED BY <1>1, <1>2, <1>4, <2>2 DEF LexInv
  <1> QED BY <1>3, <1>4 DEF Scan

LEMMA ScanTokenLex ==
  ASSUME ScanTypes, LexInv, ScanToken
  PROVE  LexInv'
  <1>1. /\ text' = text /\ scanning = "scan" /\ outcome = "scanning"
        /\ it \in 1..Len(text) /\ Here = text[it] /\ Here \notin Spaces
        /\ text \in Seq(STRING)
    BY DEF ScanToken, Scanning, AtEnd, ScanTypes, Here
  <1>2. Blank(text, After, it - 1) /\ After \in 1..it /\ After \in Nat /\ Lexemes(text, tokens)
    BY <1>1 DEF LexInv
  <1>3. Begin(Begun) = PlaceIn(text, it)
    BY BegunPlace DEF ScanTypes
  <1>4. CASE /\ IsAlpha(Here) /\ scanning' = "word" /\ start' = it /\ pos' = Begun
             /\ UNCHANGED <<it, tokens, value, outcome>>
    <2>1. After' = After
      BY <1>1, <1>4 DEF After
    <2> QED BY <1>1, <1>2, <1>3, <1>4, <2>1 DEF LexInv
  <1>5. CASE /\ IsDigit(Here) /\ scanning' = "number" /\ value' = 0 /\ pos' = Begun
             /\ UNCHANGED <<it, tokens, start, outcome>>
    <2>1. After' = After
      BY <1>1, <1>5 DEF After
    <2>2. Number(SubSeq(text, it, it - 1)) = 0
      <3>1. SubSeq(text, it, it - 1) = << >>
        BY <1>1, Slice
      <3> QED BY <3>1, NumberOfNone
    <2> QED BY <1>1, <1>2, <1>3, <1>5, <2>1, <2>2 DEF LexInv
  <1>6. CASE /\ IsArrow
             /\ it' = it + 2 /\ pos' = Advanced(Advanced(Begun, Here), text[it + 1])
             /\ Emit(Token("->"))
             /\ UNCHANGED <<scanning, start, value, outcome>>
    <2>1. /\ it < Len(text) /\ text[it] = "-" /\ text[it + 1] = ">"
          /\ it + 1 \in it..Len(text) /\ (it + 1) + 1 = it + 2
      BY <1>1, <1>6 DEF IsArrow
    <2>2. Token("->") \in Loads
      BY DEF Token, Loads, Symbols
    <2>3. Lexeme(text, After, it, it + 1, Token("->"))
      BY <1>1, <1>2, <2>1, ArrowLexeme
    <2>4. /\ pos' \in Position /\ Begin(pos') = PlaceIn(text, it)
          /\ End(pos') = PlaceIn(text, (it + 1) + 1)
      BY <1>6, <2>1, Arrow
    <2> QED BY <1>1, <1>6, <2>1, <2>2, <2>3, <2>4, EmitLexeme
  <1>7. CASE /\ ~IsArrow /\ Here \in SingleCharTokens
             /\ it' = it + 1 /\ pos' = Advanced(Begun, Here)
             /\ Emit(Token(Here))
             /\ UNCHANGED <<scanning, start, value, outcome>>
    <2>1. Token(Here) \in Loads
      BY <1>7, Symbolic DEF Token, Loads
    <2>2. Lexeme(text, After, it, it, Token(Here))
      BY <1>1, <1>2, <1>7, SymbolLexeme DEF IsArrow
    <2>3. /\ pos' \in Position /\ Begin(pos') = PlaceIn(text, it)
          /\ End(pos') = PlaceIn(text, it + 1)
      BY <1>7, Single DEF ScanToken
    <2> QED BY <1>1, <1>7, <2>1, <2>2, <2>3, EmitLexeme
  <1>8. CASE /\ ~IsAlpha(Here) /\ ~IsDigit(Here) /\ Here \notin SingleCharTokens
             /\ outcome' = "refused" /\ pos' = Begun
             /\ UNCHANGED <<it, tokens, scanning, start, value>>
    <2>1. After' = After
      BY <1>1, <1>8 DEF After
    <2>2. Foreign(it)
      <3> DEFINE s == <<Here>>
      <3>1. Len(s) = 1 /\ DOMAIN s = 1..1 /\ s[1] = Here
        OBVIOUS
      <3>2. s # <<"-", ">">>
        OBVIOUS
      <3> HIDE DEF s
      <3>3. ~IsLexeme(s)
        BY <1>8, <3>1, <3>2 DEF IsLexeme, All
      <3> QED BY <1>1, <3>3 DEF Foreign, s
    <2>3. Foreign(it)' /\ ~AtEnd'
      BY <1>1, <1>8, <2>2 DEF Foreign, AtEnd
    <2> QED BY <1>1, <1>2, <1>3, <1>8, <2>1, <2>3 DEF LexInv
  <1> QED BY <1>4, <1>5, <1>6, <1>7, <1>8 DEF ScanToken

LEMMA ScanWordLex ==
  ASSUME ScanTypes, LexInv, ScanWord
  PROVE  LexInv'
  <1>1. /\ text' = text /\ scanning = "word" /\ outcome = "scanning" /\ outcome' = outcome
        /\ start' = start /\ text \in Seq(STRING) /\ it \in 1..(Len(text) + 1)
        /\ start \in 1..it
    BY DEF ScanWord, Scanning, ScanTypes
  <1>2. /\ Lexemes(text, tokens) /\ After \in 1..it
        /\ After <= start /\ Blank(text, After, start - 1)
        /\ Begin(pos) = PlaceIn(text, start)
        /\ start <= Len(text) /\ IsAlpha(text[start])
        /\ \A k \in start..(it - 1) : IsAlpha(text[k])
    BY <1>1 DEF LexInv
  <1>3. CASE ~AtEnd /\ IsAlpha(Here)
    <2>1. /\ it' = it + 1 /\ tokens' = tokens /\ scanning' = "word" /\ After' = After
          /\ Begin(pos') = PlaceIn(text, start) /\ IsAlpha(text[it])
      BY <1>1, <1>2, <1>3, Advancing DEF ScanWord, Advance, After, Here
    <2>2. (\A k \in start..(it' - 1) : IsAlpha(text[k])) /\ After \in 1..it'
      BY <1>1, <1>2, <2>1
    <2> QED BY <1>1, <1>2, <2>1, <2>2 DEF LexInv
  <1>4. CASE ~(~AtEnd /\ IsAlpha(Here))
    <2> DEFINE j == it - 1
    <2>1. /\ it' = it /\ pos' = pos /\ scanning' = "scan"
          /\ Emit(WordToken(SubSeq(text, start, it - 1)))
      BY <1>4 DEF ScanWord
    <2>2. start # it
      BY <1>1, <1>2, <1>4 DEF AtEnd, Here
    <2>3. /\ start \in 1..Len(text) /\ j \in start..Len(text) /\ it = j + 1
          /\ j < Len(text) => ~IsAlpha(text[j + 1])
      BY <1>1, <1>2, <1>4, <2>2 DEF AtEnd, Here
    <2>4. WordToken(SubSeq(text, start, j)) \in Loads
      BY <1>1, <2>3, WordLoads, AllOfSlice
    <2>5. Lexeme(text, After, start, j, WordToken(SubSeq(text, start, j)))
      BY <1>1, <1>2, <2>3, WordLexeme
    <2>6. /\ pos' \in Position /\ Begin(pos') = PlaceIn(text, start)
          /\ End(pos') = PlaceIn(text, j + 1)
      BY <1>2, <2>1, <2>3 DEF ScanTypes
    <2> HIDE DEF j
    <2>7. Emit(WordToken(SubSeq(text, start, j))) /\ it' = j + 1
      BY <2>1, <2>3 DEF j
    <2> QED BY <1>1, <2>1, <2>3, <2>4, <2>5, <2>6, <2>7, EmitLexeme
  <1> QED BY <1>3, <1>4

LEMMA ScanNumberLex ==
  ASSUME ScanTypes, LexInv, ScanNumber
  PROVE  LexInv'
  <1>1. /\ text' = text /\ scanning = "number" /\ outcome = "scanning" /\ outcome' = outcome
        /\ text \in Seq(STRING) /\ it \in 1..(Len(text) + 1)
    BY DEF ScanNumber, Scanning, ScanTypes
  <1>2. Lexemes(text, tokens) /\ After \in 1..it
    BY DEF LexInv
  <1>3. PICK i \in After..it :
          /\ Blank(text, After, i - 1) /\ Begin(pos) = PlaceIn(text, i)
          /\ i <= Len(text) /\ IsDigit(text[i])
          /\ \A k \in i..(it - 1) : IsDigit(text[k])
          /\ LET number == Number(SubSeq(text, i, it - 1))
             IN  number <= MaxInt => value = number
    BY <1>1 DEF LexInv
  <1>4. i \in 1..Len(text) /\ i \in After..it /\ After \in Nat
    BY <1>1, <1>2, <1>3
  <1>5. CASE ~AtEnd /\ IsDigit(Here)
    <2>1. /\ it' = it + 1 /\ tokens' = tokens /\ scanning' = "number" /\ After' = After
          /\ Begin(pos') = PlaceIn(text, i) /\ IsDigit(text[it])
          /\ value' \in Accumulated(DigitValue(text[it])) /\ it \in 1..Len(text)
      BY <1>1, <1>3, <1>5, Advancing DEF ScanNumber, Advance, After, Here, AtEnd
    <2> DEFINE before == Number(SubSeq(text, i, it - 1))
               number == Number(SubSeq(text, i, it))
               digit  == DigitValue(text[it])
    <2>2. number = 10 * before + digit /\ digit \in 0..9
      BY <1>1, <1>4, <2>1, NumberOfNext, DigitsApart
    <2>3. before \in Nat
      <3>1. CASE i = it
        <4>1. SubSeq(text, i, it - 1) = << >>
          BY <1>1, <1>4, <3>1, Slice
        <4>2. Number(SubSeq(text, i, it - 1)) = 0
          BY <4>1, NumberOfNone
        <4> QED BY <4>2
      <3>2. CASE i # it
        <4>1. it - 1 \in i..Len(text)
          BY <1>4, <2>1, <3>2
        <4> QED BY <1>1, <1>3, <1>4, <4>1, AllOfSlice, NumberOfDigits
      <3> QED BY <3>1, <3>2
    <2>4. before <= MaxInt => value = before
      BY <1>3
    <2> HIDE DEF before, number, digit
    <2>5. number <= MaxInt => value' = number
      <3> SUFFICES ASSUME number <= MaxInt PROVE value' = number
        OBVIOUS
      <3>1. before <= MaxInt /\ number \in Ints
        BY <2>2, <2>3, TokenizerAssumption DEF Ints
      <3>2. value * 10 + digit = number
        BY <2>2, <2>3, <2>4, <3>1
      <3>3. value' \in Accumulated(digit)
        BY <2>1 DEF digit
      <3> QED BY <3>1, <3>2, <3>3 DEF Accumulated
    <2>6. Number(SubSeq(text, i, it' - 1)) = number
      BY <1>1, <2>1 DEF number
    <2>7. (\A k \in i..(it' - 1) : IsDigit(text[k])) /\ i \in After..it' /\ After \in 1..it'
      BY <1>1, <1>2, <1>3, <1>4, <2>1
    <2> QED BY <1>1, <1>2, <1>3, <2>1, <2>5, <2>6, <2>7 DEF LexInv
  <1>6. CASE ~(~AtEnd /\ IsDigit(Here))
    <2> DEFINE j == it - 1
    <2>1. it' = it /\ pos' = pos /\ scanning' = "scan" /\ Emit(IntToken(value))
      BY <1>6 DEF ScanNumber
    <2>2. i # it
      BY <1>1, <1>3, <1>4, <1>6 DEF AtEnd, Here
    <2>3. /\ j \in i..Len(text) /\ it = j + 1
          /\ j < Len(text) => ~IsDigit(text[j + 1])
      BY <1>1, <1>4, <1>6, <2>2 DEF AtEnd, Here
    <2>4. IntToken(value) \in Loads
      BY DEF IntToken, Loads, ScanTypes
    <2>5. Lexeme(text, After, i, j, IntToken(value))
      BY <1>1, <1>3, <1>4, <2>3, NumberLexeme
    <2>6. /\ pos' \in Position /\ Begin(pos') = PlaceIn(text, i)
          /\ End(pos') = PlaceIn(text, j + 1)
      BY <1>3, <2>1, <2>3 DEF ScanTypes
    <2> HIDE DEF j
    <2> QED BY <1>1, <1>4, <2>1, <2>3, <2>4, <2>5, <2>6, EmitLexeme
  <1> QED BY <1>5, <1>6

LEMMA TokenizerLexes == Spec => []LexInv
  <1>1. ScanTypes /\ LexInv /\ [Next]_vars => LexInv'
    <2> SUFFICES ASSUME ScanTypes, LexInv, [Next]_vars PROVE LexInv'
      OBVIOUS
    <2>1. CASE UNCHANGED vars
      BY <2>1 DEF vars, LexInv, After, AtEnd, Foreign
    <2> QED BY <2>1, ScanLex, ScanTokenLex, ScanWordLex, ScanNumberLex DEF Next, Finished
  <1> QED BY InitLex, TokenizerTypes, <1>1, PTL DEF Spec

(***************************************************************************)
(* TokensAreTheLexemes, for every text: the tokens are the longest lexemes *)
(* of the text from left to right, at their places and with their values,  *)
(* and a text is refused at its first character that is in none.           *)
(***************************************************************************)
THEOREM TokensOfEveryText == Spec => []TokensAreTheLexemes
  <1>1. ASSUME ScanTypes, LexInv PROVE TokensAreTheLexemes
    <2>1. \A p : FromOf(p) = FromIn(text, p) /\ UpTo(p) = UpIn(text, p)
      BY PlaceHere DEF FromOf, UpTo, FromIn, UpIn
    <2>2. tokens \in Seq(Emitted) /\ DOMAIN tokens = 1..Len(tokens) /\ Len(tokens) \in Nat
      BY <1>1 DEF ScanTypes
    <2> DEFINE p(k) == tokens[k].position
               to   == IF tokens = << >> THEN 0 ELSE UpTo(p(Len(tokens)))
    <2>3. ASSUME NEW k \in DOMAIN tokens
          PROVE  LET from == IF k = 1 THEN 1 ELSE UpTo(p(k - 1)) + 1
                     s    == SubSeq(text, FromOf(p(k)), UpTo(p(k)))
                 IN  /\ from <= FromOf(p(k))
                     /\ \A b \in from..(FromOf(p(k)) - 1) : text[b] \in Spaces
                     /\ Spells(tokens[k].load, s) /\ Fits(tokens[k].load, s)
                     /\ \A e \in (UpTo(p(k)) + 1)..Len(text) :
                          ~IsLexeme(SubSeq(text, FromOf(p(k)), e))
      <3>1. LexemeOf(text, tokens, k)
        BY <1>1, <2>2 DEF LexInv, Lexemes
      <3>2. NextOf(text, tokens, k - 1) = IF k = 1 THEN 1 ELSE UpTo(p(k - 1)) + 1
        BY <2>1, <2>2 DEF NextOf
      <3> QED BY <2>1, <3>1, <3>2 DEF LexemeOf, Lexeme, Blank
    <2>4. to + 1 = After
      BY <2>1, <2>2 DEF After, NextOf
    <2>5. outcome = "accepted" => \A b \in (to + 1)..Len(text) : text[b] \in Spaces
      <3> SUFFICES ASSUME outcome = "accepted" PROVE Blank(text, After, Len(text))
        BY <2>4 DEF Blank
      <3>1. it = Len(text) + 1 /\ Blank(text, After, it - 1)
        BY <1>1 DEF LexInv, AtEnd, ScanTypes
      <3> QED BY <1>1, <3>1 DEF ScanTypes
    <2>6. outcome = "refused" =>
            /\ \A b \in (to + 1)..(FromOf(pos) - 1) : text[b] \in Spaces
            /\ Foreign(FromOf(pos))
      <3> SUFFICES ASSUME outcome = "refused"
                   PROVE  Blank(text, After, FromOf(pos) - 1) /\ Foreign(FromOf(pos))
        BY <2>4 DEF Blank
      <3>1. /\ Foreign(it) /\ Begin(pos) = PlaceIn(text, it) /\ Blank(text, After, it - 1)
            /\ it \in 1..(Len(text) + 1) /\ text \in Seq(STRING)
        BY <1>1 DEF LexInv, ScanTypes
      <3>2. FromOf(pos) = it
        BY <2>1, <3>1, Spanned
      <3> QED BY <3>1, <3>2
    <2> HIDE DEF to
    <2> QED BY <2>3, <2>5, <2>6 DEF TokensAreTheLexemes, to
  <1> QED BY TokenizerTypes, TokenizerLexes, <1>1, PTL
=============================================================================
