---------------------------- MODULE ParserProofs ----------------------------
(***************************************************************************)
(* What CommandParser makes of any line.  Its functions go through a text  *)
(* from left to right; facts about them are proved by induction on how far *)
(* they have come.                                                         *)
(***************************************************************************)
EXTENDS Client, SequenceTheorems, FiniteSetTheorems, WellFoundedInduction, TLAPS

-----------------------------------------------------------------------------
(* Induction on the positions of a text.                                   *)
LEMMA Induct ==
  ASSUME NEW n \in Nat, NEW P, 0 \in P, \A i \in 1 .. n : i - 1 \in P => i \in P
  PROVE  \A i \in 0 .. n : i \in P
<1> DEFINE Bad == {i \in Nat : i <= n /\ i \notin P}
<1>1. SUFFICES ASSUME Bad # {} PROVE FALSE
  OBVIOUS
<1>2. Bad \subseteq Nat
  OBVIOUS
<1>3. \E i \in Bad : \A j \in Bad : ~(<<j, i>> \in OpToRel(<, Nat))
  <2> HIDE DEF Bad
  <2> QED
    BY <1>1, <1>2, NatLessThanWellFounded, WFMin
<1>4. PICK i \in Bad : \A j \in Bad : ~(<<j, i>> \in OpToRel(<, Nat))
  BY <1>3
<1>5. i \in 1 .. n
  OBVIOUS
<1>6. i - 1 \in Bad
  BY <1>5
<1>7. ~(<<i - 1, i>> \in OpToRel(<, Nat))
  BY <1>4, <1>6
<1> QED
  BY <1>5, <1>7 DEF OpToRel

(* A function that is defined by its first value and a step exists.        *)
Defined(n, S, base, step) ==
  {f \in [0 .. n -> S] :
     \A i \in 0 .. n : f[i] = IF i = 0 THEN base ELSE step[i][f[i - 1]]}

LEMMA Recursion ==
  ASSUME NEW n \in Nat, NEW S, NEW base \in S, NEW step \in [1 .. n -> [S -> S]]
  PROVE  Defined(n, S, base, step) # {}
<1> DEFINE Upto(f, m) == \A i \in 0 .. m : f[i] = IF i = 0 THEN base ELSE step[i][f[i - 1]]
           P == {m \in 0 .. n : \E f \in [0 .. m -> S] : Upto(f, m)}
<1>1. 0 \in P
  <2> DEFINE f == [i \in 0 .. 0 |-> base]
  <2>1. f \in [0 .. 0 -> S] /\ Upto(f, 0) /\ 0 \in 0 .. n
    OBVIOUS
  <2> HIDE DEF f, Upto
  <2> QED
    BY <2>1
<1>2. ASSUME NEW m \in 1 .. n, m - 1 \in P
      PROVE  m \in P
  <2>1. PICK f \in [0 .. m - 1 -> S] : Upto(f, m - 1)
    BY <1>2
  <2> DEFINE last == step[m][f[m - 1]]
             g == [i \in 0 .. m |-> IF i = m THEN last ELSE f[i]]
  <2>2. last \in S
    OBVIOUS
  <2> HIDE DEF last
  <2>3. g \in [0 .. m -> S]
    BY <2>2
  <2>4. ASSUME NEW i \in 0 .. m
        PROVE  g[i] = IF i = 0 THEN base ELSE step[i][g[i - 1]]
    <3>1. CASE i = m
      BY <3>1 DEF last
    <3>2. CASE i # m
      <4>1. i \in 0 .. m - 1 /\ g[i] = f[i] /\ (i # 0 => i - 1 \in 0 .. m /\ g[i - 1] = f[i - 1])
        BY <3>2
      <4>2. f[i] = IF i = 0 THEN base ELSE step[i][f[i - 1]]
        BY <2>1, <4>1
      <4> QED
        BY <4>1, <4>2
    <3> QED
      BY <3>1, <3>2
  <2>5. Upto(g, m) /\ m \in 0 .. n
    BY <2>4
  <2> HIDE DEF g, Upto
  <2> QED
    BY <2>3, <2>5
<1>3. n \in 0 .. n
  OBVIOUS
<1>4. n \in P
  <2> HIDE DEF P
  <2> QED
    BY <1>1, <1>2, <1>3, Induct
<1>5. PICK f \in [0 .. n -> S] : Upto(f, n)
  BY <1>4
<1> QED
  BY <1>5 DEF Defined

-----------------------------------------------------------------------------
(* The line up to its end.                                                 *)
LEMMA LeastPosition ==
  ASSUME NEW A, A \subseteq Nat, A # {}
  PROVE  Min(A) \in A /\ \A y \in A : Min(A) <= y
<1>1. PICK i \in A : \A j \in A : ~(<<j, i>> \in OpToRel(<, Nat))
  BY NatLessThanWellFounded, WFMin
<1>2. ASSUME NEW j \in A PROVE i <= j
  <2>1. ~(<<j, i>> \in OpToRel(<, Nat))
    BY <1>1
  <2> QED
    BY <2>1 DEF OpToRel
<1> QED
  BY <1>2 DEF Min

LEMMA UpToNewLineIs ==
  ASSUME NEW S, NEW s \in Seq(S), \A i \in 1 .. Len(s) - 1 : s[i] # NewLine
  PROVE  /\ UpToNewLine(s) \in Seq(S)
         /\ ~Contains(s, NewLine) => UpToNewLine(s) = s
         /\ Contains(s, NewLine) => /\ Len(s) > 0
                                    /\ s[Len(s)] = NewLine
                                    /\ UpToNewLine(s) = SubSeq(s, 1, Len(s) - 1)
<1>1. CASE ~Contains(s, NewLine)
  BY <1>1 DEF UpToNewLine
<1>2. CASE Contains(s, NewLine)
  <2> DEFINE A == {i \in 1 .. Len(s) : s[i] = NewLine}
  <2>1. A = {Len(s)} /\ Len(s) > 0 /\ Len(s) \in Nat
    BY <1>2 DEF Contains
  <2>2. SelectInSeq(s, LAMBDA ch : ch = NewLine) = Min(A)
    BY <2>1 DEF SelectInSeq
  <2>3. Min(A) = Len(s)
    <3>1. A \subseteq Nat /\ A # {}
      BY <2>1
    <3> HIDE DEF A
    <3>2. Min(A) \in A
      BY <3>1, LeastPosition
    <3> QED
      BY <3>2, <2>1
  <2>4. UpToNewLine(s) = SubSeq(s, 1, Len(s) - 1)
    BY <1>2, <2>2, <2>3 DEF UpToNewLine
  <2> QED
    BY <1>2, <2>1, <2>4, SubSeqProperties
<1> QED
  BY <1>1, <1>2

-----------------------------------------------------------------------------
(* The characters of a line are read one by one.                           *)
Reading(S) == [tokens : Seq(Seq(S)), temp : Seq(S)]

LEMMA UpToNewLineType ==
  ASSUME NEW S, NEW s \in Seq(S)
  PROVE  UpToNewLine(s) \in Seq(S) /\ Len(UpToNewLine(s)) <= Len(s)
<1>1. CASE Contains(s, NewLine)
  <2> DEFINE A == {i \in 1 .. Len(s) : s[i] = NewLine}
  <2>1. A \subseteq Nat /\ A # {}
    BY <1>1 DEF Contains
  <2>2. SelectInSeq(s, LAMBDA ch : ch = NewLine) = Min(A)
    BY <2>1 DEF SelectInSeq
  <2>3. Min(A) \in A
    <3> HIDE DEF A
    <3> QED
      BY <2>1, LeastPosition
  <2>4. Min(A) \in 1 .. Len(s)
    BY <2>3
  <2> HIDE DEF A
  <2> QED
    <3>1. UpToNewLine(s) = SubSeq(s, 1, Min(A) - 1)
      BY <1>1, <2>2 DEF UpToNewLine
    <3>2. \A i \in 1 .. Min(A) - 1 : s[i] \in S
      BY <2>4
    <3> QED
      BY <2>4, <3>1, <3>2, SubSeqProperties
<1>2. CASE ~Contains(s, NewLine)
  <2>1. UpToNewLine(s) = s /\ Len(s) \in Nat
    BY <1>2 DEF UpToNewLine
  <2> QED
    BY <2>1
<1> QED
  BY <1>1, <1>2

LEMMA ReadNextType ==
  ASSUME NEW S, NEW before \in Reading(S), NEW ch \in S
  PROVE  ReadNext(before, ch) \in Reading(S)
<1>1. before.tokens \in Seq(Seq(S)) /\ before.temp \in Seq(S)
  BY DEF Reading
<1>2. UpToNewLine(before.temp) \in Seq(S)
  BY <1>1, UpToNewLineType
<1>3. CASE ch # Space
  <2>1. ReadNext(before, ch) = [tokens |-> before.tokens, temp |-> Append(before.temp, ch)]
    BY <1>3 DEF ReadNext
  <2>2. Append(before.temp, ch) \in Seq(S)
    BY <1>1
  <2> QED
    BY <1>1, <2>1, <2>2 DEF Reading
<1>4. CASE ch = Space
  <2>1. Append(before.tokens, UpToNewLine(before.temp)) \in Seq(Seq(S)) /\ <<>> \in Seq(S)
    BY <1>1, <1>2
  <2> QED
    BY <1>1, <1>4, <2>1 DEF ReadNext, Reading
<1> QED
  BY <1>3, <1>4

LEMMA ScanIs ==
  ASSUME NEW S, NEW line \in Seq(S)
  PROVE  /\ Scan(line) \in [0 .. Len(line) -> Reading(S)]
         /\ Scan(line)[0] = [tokens |-> <<>>, temp |-> <<>>]
         /\ \A n \in 1 .. Len(line) : Scan(line)[n] = ReadNext(Scan(line)[n - 1], line[n])
<1> DEFINE base == [tokens |-> <<>>, temp |-> <<>>]
           step == [n \in 1 .. Len(line) |-> [before \in Reading(S) |-> ReadNext(before, line[n])]]
           Body(g) == [n \in 0 .. Len(line) |-> IF n = 0 THEN base ELSE ReadNext(g[n - 1], line[n])]
<1>1. base \in Reading(S)
  BY DEF Reading
<1>2. step \in [1 .. Len(line) -> [Reading(S) -> Reading(S)]]
  BY ReadNextType
<1>3. PICK f \in [0 .. Len(line) -> Reading(S)] :
        \A n \in 0 .. Len(line) : f[n] = IF n = 0 THEN base ELSE step[n][f[n - 1]]
  <2>1. Len(line) \in Nat
    OBVIOUS
  <2>2. Defined(Len(line), Reading(S), base, step) # {}
    <3> HIDE DEF base, step
    <3> QED
      BY <1>1, <1>2, <2>1, Recursion
  <2> HIDE DEF base, step
  <2> QED
    BY <2>2 DEF Defined
<1>4. f = Body(f)
  <2>1. ASSUME NEW n \in 0 .. Len(line)
        PROVE  f[n] = IF n = 0 THEN base ELSE ReadNext(f[n - 1], line[n])
    <3>1. CASE n = 0
      BY <1>3, <3>1
    <3>2. CASE n # 0
      <4>1. n \in 1 .. Len(line) /\ f[n - 1] \in Reading(S)
        BY <3>2
      <4>2. f[n] = step[n][f[n - 1]]
        BY <1>3, <3>2
      <4> QED
        BY <4>1, <4>2, <3>2
    <3> QED
      BY <3>1, <3>2
  <2> HIDE DEF base
  <2> QED
    BY <2>1
<1>5. Scan(line) = CHOOSE g : g = Body(g)
  BY DEF Scan
<1>6. Scan(line) = Body(Scan(line))
  <2> HIDE DEF Body
  <2> QED
    BY <1>4, <1>5
<1>7. \A n \in 0 .. Len(line) :
        Scan(line)[n] = IF n = 0 THEN base ELSE ReadNext(Scan(line)[n - 1], line[n])
  <2> HIDE DEF base
  <2> QED
    BY <1>6
<1>8. \A n \in 1 .. Len(line) : Scan(line)[n] = ReadNext(Scan(line)[n - 1], line[n])
  BY <1>7
<1>9. Scan(line)[0] = base
  BY <1>7
<1>10. \A n \in 0 .. Len(line) : Scan(line)[n] \in Reading(S)
  <2> DEFINE P == {n \in 0 .. Len(line) : Scan(line)[n] \in Reading(S)}
  <2>1. 0 \in P
    BY <1>1, <1>9
  <2>2. ASSUME NEW n \in 1 .. Len(line), n - 1 \in P PROVE n \in P
    <3>1. ReadNext(Scan(line)[n - 1], line[n]) \in Reading(S)
      BY <2>2, ReadNextType
    <3> QED
      BY <1>8, <3>1
  <2>3. \A n \in 0 .. Len(line) : n \in P
    <3>1. Len(line) \in Nat
      OBVIOUS
    <3>2. \A n \in 1 .. Len(line) : n - 1 \in P => n \in P
      BY <2>2
    <3> HIDE DEF P
    <3> QED
      BY <2>1, <3>1, <3>2, Induct
  <2> QED
    BY <2>3
<1>11. DOMAIN Scan(line) = 0 .. Len(line) /\ Scan(line) = [n \in 0 .. Len(line) |-> Scan(line)[n]]
  BY <1>6
<1> QED
  BY <1>8, <1>9, <1>10, <1>11

(* What is read of the beginning of a line does not depend on the rest.    *)
LEMMA ScanOfPrefix ==
  ASSUME NEW S, NEW line \in Seq(S), NEW m \in 0 .. Len(line)
  PROVE  LET p == SubSeq(line, 1, m)
         IN  /\ p \in Seq(S) /\ Len(p) = m
             /\ \A n \in 0 .. m : Scan(p)[n] = Scan(line)[n]
<1> DEFINE p == SubSeq(line, 1, m)
<1>1. p \in Seq(S) /\ Len(p) = m /\ \A i \in 1 .. m : p[i] = line[i]
  <2>1. \A i \in 1 .. m : line[i] \in S
    OBVIOUS
  <2> QED
    BY <2>1, SubSeqProperties
<1> HIDE DEF p
<1>2. /\ Scan(p)[0] = Scan(line)[0]
      /\ \A n \in 1 .. m : Scan(p)[n] = ReadNext(Scan(p)[n - 1], p[n])
      /\ \A n \in 1 .. m : Scan(line)[n] = ReadNext(Scan(line)[n - 1], line[n])
  <2>1. m \in Nat /\ 0 .. m \subseteq 0 .. Len(line) /\ 1 .. m \subseteq 1 .. Len(line)
    OBVIOUS
  <2>2. /\ Scan(line)[0] = [tokens |-> <<>>, temp |-> <<>>]
        /\ \A n \in 1 .. m : Scan(line)[n] = ReadNext(Scan(line)[n - 1], line[n])
    BY <2>1, ScanIs
  <2>3. /\ Scan(p)[0] = [tokens |-> <<>>, temp |-> <<>>]
        /\ \A n \in 1 .. m : Scan(p)[n] = ReadNext(Scan(p)[n - 1], p[n])
    BY <1>1, ScanIs
  <2> QED
    BY <2>2, <2>3
<1> DEFINE P == {n \in 0 .. m : Scan(p)[n] = Scan(line)[n]}
<1>3. 0 \in P
  BY <1>2
<1>4. \A n \in 1 .. m : n - 1 \in P => n \in P
  BY <1>1, <1>2
<1>5. \A n \in 0 .. m : n \in P
  <2> HIDE DEF P
  <2> QED
    BY <1>3, <1>4, Induct
<1> QED
  BY <1>1, <1>5 DEF p

-----------------------------------------------------------------------------
(* A line as fgets returns it: what is read of it are words, without an    *)
(* end of line but possibly in the last piece.                             *)
WordsOf(S) == Seq(S \ {Space, NewLine}) \ {<<>>}

LEMMA WordAlone ==
  ASSUME NEW S, NEW word \in Seq(S \ {Space, NewLine})
  PROVE  UpToNewLine(word) = word
<1>1. \A i \in 1 .. Len(word) : word[i] # NewLine
  OBVIOUS
<1> QED
  BY <1>1 DEF UpToNewLine, Contains

LEMMA ScanWords ==
  ASSUME NEW S, NEW line \in Seq(S), \A i \in 1 .. Len(line) - 1 : line[i] # NewLine
  PROVE  \A n \in 0 .. Len(line) :
           /\ Scan(line)[n].tokens \in Seq(WordsOf(S))
           /\ Scan(line)[n].temp \in Seq(S \ {Space})
           /\ n < Len(line) => Scan(line)[n].temp \in Seq(S \ {Space, NewLine})
           /\ n > 0 => (Scan(line)[n].temp = <<>> <=> line[n] = Space)
<1> DEFINE Good(n) ==
             /\ Scan(line)[n].tokens \in Seq(WordsOf(S))
             /\ Scan(line)[n].temp \in Seq(S \ {Space})
             /\ n < Len(line) => Scan(line)[n].temp \in Seq(S \ {Space, NewLine})
             /\ n > 0 => (Scan(line)[n].temp = <<>> <=> line[n] = Space)
           P == {n \in 0 .. Len(line) : Good(n)}
<1>1. 0 \in P
  <2>1. Scan(line)[0] = [tokens |-> <<>>, temp |-> <<>>] /\ 0 \in 0 .. Len(line)
    BY ScanIs
  <2>2. \A T : <<>> \in Seq(T)
    BY EmptySeq
  <2>3. Good(0)
    BY <2>1, <2>2
  <2> QED
    BY <2>3
<1>2. ASSUME NEW n \in 1 .. Len(line), n - 1 \in P
      PROVE  n \in P
  <2> DEFINE tokens == Scan(line)[n - 1].tokens
             temp == Scan(line)[n - 1].temp
             ch == line[n]
  <2>1. tokens \in Seq(WordsOf(S)) /\ temp \in Seq(S \ {Space, NewLine})
    BY <1>2
  <2>2. ch \in S /\ (n < Len(line) => ch # NewLine)
    OBVIOUS
  <2>3. Scan(line)[n] = ReadNext(Scan(line)[n - 1], ch)
    BY ScanIs
  <2>4. CASE ch # Space
    <3>1. Scan(line)[n].tokens = tokens /\ Scan(line)[n].temp = Append(temp, ch)
      BY <2>3, <2>4 DEF ReadNext
    <3> HIDE DEF tokens, temp, ch
    <3>2. temp \in Seq(S \ {Space})
      BY <2>1
    <3>3. Append(temp, ch) \in Seq(S \ {Space}) /\ Append(temp, ch) # <<>>
      BY <2>2, <2>4, <3>2
    <3>4. n < Len(line) => Append(temp, ch) \in Seq(S \ {Space, NewLine})
      BY <2>1, <2>2, <2>4
    <3>5. Good(n)
      BY <2>1, <2>4, <3>1, <3>3, <3>4 DEF ch
    <3> QED
      BY <3>5
  <2>5. CASE ch = Space
    <3>1. UpToNewLine(temp) = temp
      BY <2>1, WordAlone
    <3>2. /\ Scan(line)[n].tokens = IF temp = <<>> THEN tokens ELSE Append(tokens, temp)
          /\ Scan(line)[n].temp = <<>>
      BY <2>3, <2>5, <3>1 DEF ReadNext
    <3> HIDE DEF tokens, temp, ch
    <3>3. temp # <<>> => Append(tokens, temp) \in Seq(WordsOf(S))
      BY <2>1 DEF WordsOf
    <3>4. Good(n)
      BY <2>1, <2>5, <3>2, <3>3 DEF ch
    <3> QED
      BY <3>4
  <2> QED
    BY <2>4, <2>5
<1>3. \A n \in 0 .. Len(line) : n \in P
  <2>1. Len(line) \in Nat /\ \A n \in 1 .. Len(line) : n - 1 \in P => n \in P
    BY <1>2
  <2> HIDE DEF P
  <2> QED
    BY <1>1, <2>1, Induct
<1> QED
  BY <1>3

(***************************************************************************)
(* emClient splits a line with its end, the server without.  They read the *)
(* same tokens, except that the client takes the end for a token if a      *)
(* space is before it, and leaves it at the last token otherwise.          *)
(***************************************************************************)
LEMMA LineProperties ==
  ASSUME NEW line, IsLine(line), NEW S, S = ToSet(line)
  PROVE  /\ line \in Seq(S)
         /\ Len(line) \in Nat
         /\ \A i \in 1 .. Len(line) - 1 : line[i] # NewLine
         /\ \A i \in 1 .. Len(line) : line[i] \in S
BY DEF IsLine

LEMMA TokensOf ==
  ASSUME NEW line, IsLine(line), NEW S, S = ToSet(line)
  PROVE  LET end == Scan(line)[Len(line)]
         IN  /\ end.tokens \in Seq(WordsOf(S)) /\ end.temp \in Seq(S \ {Space})
             /\ tokenize(line) \in Seq(Seq(S \ {Space}))
             /\ \A k \in 1 .. Len(tokenize(line)) :
                  /\ tokenize(line)[k] # <<>>
                  /\ k < Len(tokenize(line)) => tokenize(line)[k] \in WordsOf(S)
             /\ ~Contains(line, NewLine) => tokenize(line) \in Seq(WordsOf(S))
<1> DEFINE end == Scan(line)[Len(line)]
           tokens == end.tokens
           temp == end.temp
<1>1. tokens \in Seq(WordsOf(S)) /\ temp \in Seq(S \ {Space})
  <2>1. /\ line \in Seq(S) /\ \A i \in 1 .. Len(line) - 1 : line[i] # NewLine
        /\ Len(line) \in 0 .. Len(line)
    BY LineProperties
  <2>2. \A n \in 0 .. Len(line) : /\ Scan(line)[n].tokens \in Seq(WordsOf(S))
                                  /\ Scan(line)[n].temp \in Seq(S \ {Space})
    BY <2>1, ScanWords
  <2> QED
    BY <2>1, <2>2
<1>2. tokenize(line) = IF temp = <<>> THEN tokens ELSE Append(tokens, temp)
  BY DEF tokenize
<1>3. WordsOf(S) \subseteq Seq(S \ {Space}) \ {<<>>}
  <2>1. S \ {Space, NewLine} \subseteq S \ {Space}
    OBVIOUS
  <2> QED
    BY <2>1, SeqMonotonic DEF WordsOf
<1>4. ~Contains(line, NewLine) => temp \in Seq(S \ {Space, NewLine})
  <2>1. SUFFICES ASSUME ~Contains(line, NewLine) PROVE temp \in Seq(S \ {Space, NewLine})
    OBVIOUS
  <2>2. line \in Seq(S \ {NewLine})
    <3>1. \A i \in 1 .. Len(line) : line[i] \in S \ {NewLine}
      BY <2>1, LineProperties DEF Contains
    <3>2. line = SubSeq(line, 1, Len(line))
      BY LineProperties, SubSeqFull
    <3> QED
      BY <3>1, <3>2, LineProperties, SubSeqProperties
  <2>3. temp \in Seq((S \ {NewLine}) \ {Space})
    <3>1. /\ \A i \in 1 .. Len(line) - 1 : line[i] # NewLine
          /\ Len(line) \in 0 .. Len(line)
      BY LineProperties
    <3>2. \A n \in 0 .. Len(line) : Scan(line)[n].temp \in Seq((S \ {NewLine}) \ {Space})
      BY <2>2, <3>1, ScanWords
    <3> QED
      BY <3>1, <3>2
  <2>4. (S \ {NewLine}) \ {Space} = S \ {Space, NewLine}
    OBVIOUS
  <2> QED
    BY <2>3, <2>4
<1> HIDE DEF tokens, temp
<1>5. tokens \in Seq(Seq(S \ {Space}))
  BY <1>1, <1>3, SeqMonotonic
<1>6. CASE temp = <<>>
  BY <1>1, <1>2, <1>3, <1>5, <1>6 DEF tokens, temp
<1>7. CASE temp # <<>>
  <2>1. tokenize(line) = Append(tokens, temp)
    BY <1>2, <1>7
  <2>2. /\ Append(tokens, temp) \in Seq(Seq(S \ {Space}))
        /\ Len(Append(tokens, temp)) = Len(tokens) + 1
        /\ \A i \in 1 .. Len(tokens) : Append(tokens, temp)[i] = tokens[i]
        /\ Append(tokens, temp)[Len(tokens) + 1] = temp
    BY <1>1, <1>5, AppendProperties
  <2>3. \A k \in 1 .. Len(tokens) : tokens[k] \in WordsOf(S)
    BY <1>1
  <2>4. Len(tokens) \in Nat
    BY <1>1
  <2>5. \A k \in 1 .. Len(tokens) + 1 :
          /\ Append(tokens, temp)[k] # <<>>
          /\ k < Len(tokens) + 1 => Append(tokens, temp)[k] \in WordsOf(S)
    BY <1>3, <1>7, <2>2, <2>3, <2>4
  <2>6. ~Contains(line, NewLine) => Append(tokens, temp) \in Seq(WordsOf(S))
    BY <1>1, <1>4, <1>7 DEF WordsOf
  <2> QED
    BY <1>1, <2>1, <2>2, <2>5, <2>6 DEF tokens, temp
<1> QED
  BY <1>6, <1>7

LEMMA WordWithEnd ==
  ASSUME NEW S, NEW word \in Seq(S \ {Space, NewLine})
  PROVE  UpToNewLine(Append(word, NewLine)) = word
<1> DEFINE w == Append(word, NewLine)
<1>1. /\ w \in Seq(S \cup {NewLine}) /\ Len(w) = Len(word) + 1 /\ Len(word) \in Nat
      /\ \A i \in 1 .. Len(word) : w[i] = word[i]
      /\ w[Len(w)] = NewLine
  <2>1. word \in Seq(S \cup {NewLine})
    BY SeqMonotonic
  <2> QED
    BY <2>1
<1>2. \A i \in 1 .. Len(word) : word[i] # NewLine
  OBVIOUS
<1> HIDE DEF w
<1>3. Len(w) \in 1 .. Len(w) /\ \A i \in 1 .. Len(w) - 1 : w[i] # NewLine
  BY <1>1, <1>2
<1>4. Contains(w, NewLine)
  BY <1>1, <1>3 DEF Contains
<1>5. UpToNewLine(w) = SubSeq(w, 1, Len(w) - 1)
  BY <1>1, <1>3, <1>4, UpToNewLineIs
<1>6. /\ SubSeq(w, 1, Len(word)) \in Seq(S \cup {NewLine})
      /\ Len(SubSeq(w, 1, Len(word))) = Len(word)
      /\ \A i \in 1 .. Len(word) : SubSeq(w, 1, Len(word))[i] = word[i]
  BY <1>1
<1>7. word \in Seq(S \cup {NewLine})
  BY SeqMonotonic
<1>8. SubSeq(w, 1, Len(word)) = word
  BY <1>6, <1>7, SeqEqual
<1> QED
  BY <1>1, <1>5, <1>8 DEF w

LEMMA LineBody ==
  ASSUME NEW line, IsLine(line)
  PROVE  LET body == UpToNewLine(line)
         IN  IsLine(body) /\ ~Contains(body, NewLine)
<1> DEFINE S == ToSet(line)
           body == UpToNewLine(line)
<1>1. /\ line \in Seq(S) /\ Len(line) \in Nat
      /\ \A i \in 1 .. Len(line) - 1 : line[i] # NewLine
  BY LineProperties
<1>2. /\ body \in Seq(S)
      /\ ~Contains(line, NewLine) => body = line
      /\ Contains(line, NewLine) => body = SubSeq(line, 1, Len(line) - 1) /\ Len(line) > 0
  <2> HIDE DEF S
  <2> QED
    BY <1>1, UpToNewLineIs
<1> HIDE DEF S, body
<1>3. \A i \in 1 .. Len(body) : body[i] # NewLine
  <2>1. CASE ~Contains(line, NewLine)
    BY <1>2, <2>1 DEF Contains
  <2>2. CASE Contains(line, NewLine)
    <3>1. \A i \in 1 .. Len(line) - 1 : line[i] \in S
      BY <1>1
    <3>2. Len(body) = Len(line) - 1 /\ \A i \in 1 .. Len(line) - 1 : body[i] = line[i]
      BY <1>1, <1>2, <2>2, <3>1, SubSeqProperties
    <3> QED
      BY <1>1, <3>2
  <2> QED
    BY <2>1, <2>2
<1>4. body \in Seq(ToSet(body))
  <2>1. body = SubSeq(body, 1, Len(body)) /\ Len(body) \in Nat /\ DOMAIN body = 1 .. Len(body)
    BY <1>2, SubSeqFull
  <2>2. \A i \in 1 .. Len(body) : body[i] \in ToSet(body)
    BY <2>1 DEF ToSet
  <2> QED
    BY <2>1, <2>2, SubSeqProperties
<1>5. IsLine(body) /\ ~Contains(body, NewLine)
  BY <1>2, <1>3, <1>4 DEF IsLine, Contains
<1> QED
  BY <1>5 DEF body

LEMMA EndCut ==
  ASSUME NEW line, IsLine(line)
  PROVE  LET tokens == tokenize(line)
             body == UpToNewLine(line)
             read == tokenize(body)
         IN  /\ Len(tokens) \in Nat /\ Len(read) \in Nat
             /\ Len(read) <= Len(tokens) /\ Len(tokens) <= Len(read) + 1
             /\ \A k \in 1 .. Len(read) : /\ read[k] = UpToNewLine(tokens[k])
                                          /\ k < Len(tokens) => read[k] = tokens[k]
             /\ Len(read) < Len(tokens) => UpToNewLine(tokens[Len(tokens)]) = <<>>
             /\ body # <<>> /\ Last(body) # Space => Len(read) = Len(tokens)
<1> DEFINE S == ToSet(line)
           body == UpToNewLine(line)
<1>1. /\ line \in Seq(S) /\ Len(line) \in Nat
      /\ \A i \in 1 .. Len(line) - 1 : line[i] # NewLine
      /\ \A i \in 1 .. Len(line) : line[i] \in S
  BY LineProperties
<1>2. CASE ~Contains(line, NewLine)
  <2>1. tokenize(line) \in Seq(WordsOf(S))
    BY <1>2, TokensOf
  <2>2. tokenize(body) = tokenize(line)
    BY <1>2 DEF UpToNewLine
  <2>3. \A k \in 1 .. Len(tokenize(line)) : UpToNewLine(tokenize(line)[k]) = tokenize(line)[k]
    <3>1. TAKE k \in 1 .. Len(tokenize(line))
    <3>2. tokenize(line)[k] \in WordsOf(S)
      BY <2>1
    <3>3. tokenize(line)[k] \in Seq(S \ {Space, NewLine})
      BY <3>2 DEF WordsOf
    <3> QED
      BY <3>3, WordAlone
  <2>4. Len(tokenize(line)) \in Nat
    BY <2>1
  <2> HIDE DEF body, S
  <2> QED
    BY <2>2, <2>3, <2>4 DEF body
<1>3. CASE Contains(line, NewLine)
  <2> DEFINE n == Len(line)
             before == Scan(line)[n - 1]
             words == before.tokens
             temp == before.temp
             last == Append(temp, NewLine)
  <2>1. n > 0 /\ n - 1 \in 0 .. n /\ line[n] = NewLine /\ body = SubSeq(line, 1, n - 1)
    <3> HIDE DEF S
    <3>1. n > 0 /\ line[n] = NewLine /\ body = SubSeq(line, 1, n - 1)
      BY <1>1, <1>3, UpToNewLineIs
    <3> QED
      BY <1>1, <3>1
  <2>2. words \in Seq(WordsOf(S)) /\ temp \in Seq(S \ {Space, NewLine})
    <3> HIDE DEF S
    <3>1. \A m \in 0 .. n : /\ Scan(line)[m].tokens \in Seq(WordsOf(S))
                            /\ m < n => Scan(line)[m].temp \in Seq(S \ {Space, NewLine})
      BY <1>1, ScanWords
    <3> QED
      BY <1>1, <2>1, <3>1
  <2>3. tokenize(line) = Append(words, last)
    <3>1. NewLine # Space
      BY DEF NewLine, Space
    <3>2. Scan(line)[n] = ReadNext(before, NewLine)
      <4> HIDE DEF S
      <4>1. \A m \in 1 .. n : Scan(line)[m] = ReadNext(Scan(line)[m - 1], line[m])
        BY <1>1, ScanIs
      <4> QED
        BY <1>1, <2>1, <4>1
    <3>3. Scan(line)[n].tokens = words /\ Scan(line)[n].temp = last
      BY <3>1, <3>2 DEF ReadNext
    <3>4. last # <<>>
      <4> HIDE DEF temp
      <4>1. temp \in Seq(S \cup {NewLine})
        BY <2>2, SeqMonotonic
      <4> QED
        BY <4>1, AppendProperties
    <3> HIDE DEF last, words, n
    <3> QED
      BY <3>3, <3>4 DEF tokenize, n
  <2>4. Len(body) = n - 1 /\ tokenize(body) = IF temp = <<>> THEN words ELSE Append(words, temp)
    <3> HIDE DEF S
    <3>1. Len(body) = n - 1 /\ \A m \in 0 .. n - 1 : Scan(body)[m] = Scan(line)[m]
      <4> DEFINE m == n - 1
      <4>1. m \in 0 .. Len(line) /\ body = SubSeq(line, 1, m)
        BY <2>1
      <4> HIDE DEF m, body
      <4>2. Len(body) = m /\ \A i \in 0 .. m : Scan(body)[i] = Scan(line)[i]
        BY <1>1, <4>1, ScanOfPrefix
      <4> QED
        BY <4>2 DEF m
    <3>2. Scan(body)[Len(body)] = before
      BY <1>1, <2>1, <3>1
    <3> QED
      BY <3>1, <3>2 DEF tokenize
  <2>5. UpToNewLine(last) = temp
    BY <2>2, WordWithEnd
  <2>6. \A k \in 1 .. Len(words) : UpToNewLine(words[k]) = words[k]
    <3>1. TAKE k \in 1 .. Len(words)
    <3>2. words[k] \in Seq(S \ {Space, NewLine})
      <4> HIDE DEF S, words
      <4> QED
        BY <2>2 DEF WordsOf
    <3> QED
      BY <3>2, WordAlone
  <2>7. body # <<>> /\ Last(body) # Space => temp # <<>>
    <3> HIDE DEF S
    <3>1. SUFFICES ASSUME body # <<>>, Last(body) # Space PROVE temp # <<>>
      OBVIOUS
    <3>2. n - 1 > 0 /\ Last(body) = line[n - 1]
      BY <1>1, <2>1, <2>4, <3>1, SubSeqProperties DEF Last
    <3>3. \A m \in 0 .. n : m > 0 => (Scan(line)[m].temp = <<>> <=> line[m] = Space)
      BY <1>1, ScanWords
    <3> QED
      BY <1>1, <2>1, <3>1, <3>2, <3>3
  <2> DEFINE all == Append(words, last)
             read == IF temp = <<>> THEN words ELSE Append(words, temp)
  <2>8. /\ Len(words) \in Nat /\ Len(all) = Len(words) + 1
        /\ \A k \in 1 .. Len(words) : all[k] = words[k]
        /\ all[Len(words) + 1] = last
    <3> HIDE DEF words, last, S
    <3> QED
      BY <2>2
  <2>9. /\ temp = <<>> => read = words
        /\ temp # <<>> => /\ Len(read) = Len(words) + 1
                          /\ \A k \in 1 .. Len(words) : read[k] = words[k]
                          /\ read[Len(words) + 1] = temp
    <3> HIDE DEF words, temp, S
    <3> QED
      BY <2>2
  <2> HIDE DEF S, n, words, temp, last, all, read
  <2>10. /\ Len(all) \in Nat /\ Len(read) \in Nat
         /\ Len(read) <= Len(all) /\ Len(all) <= Len(read) + 1
         /\ \A k \in 1 .. Len(read) : /\ read[k] = UpToNewLine(all[k])
                                      /\ k < Len(all) => read[k] = all[k]
         /\ Len(read) < Len(all) => temp = <<>>
         /\ temp # <<>> => Len(read) = Len(all)
         /\ UpToNewLine(all[Len(all)]) = temp
    <3>1. CASE temp = <<>>
      BY <2>5, <2>6, <2>8, <2>9, <3>1
    <3>2. CASE temp # <<>>
      BY <2>5, <2>6, <2>8, <2>9, <3>2
    <3> QED
      BY <3>1, <3>2
  <2>11. tokenize(line) = all /\ tokenize(body) = read
    BY <2>3, <2>4 DEF all, read
  <2> HIDE DEF body
  <2> QED
    BY <2>7, <2>10, <2>11 DEF body
<1> QED
  BY <1>2, <1>3

(***************************************************************************)
(* A part of a line begins with the same token, or with the beginning of   *)
(* it, and asks for the same command or for none.                          *)
(***************************************************************************)
FirstPiece(reading) == IF reading.tokens # <<>> THEN reading.tokens[1] ELSE reading.temp

LEMMA FirstStays ==
  ASSUME NEW S, NEW tokens \in Seq(WordsOf(S)), NEW temp \in Seq(S \ {Space, NewLine}),
         NEW ch \in S, ch # NewLine, NEW r, r = [tokens |-> tokens, temp |-> temp], FirstPiece(r) # <<>>
  PROVE  /\ FirstPiece(ReadNext(r, ch)) # <<>>
         /\ FirstPiece(ReadNext(r, ch))[1] = FirstPiece(r)[1]
<1>1. UpToNewLine(temp) = temp
  BY WordAlone
<1>2. CASE ch # Space
  <2>1. ReadNext(r, ch) = [tokens |-> tokens, temp |-> Append(temp, ch)]
    BY <1>2 DEF ReadNext
  <2>2. CASE tokens # <<>>
    BY <2>1, <2>2 DEF FirstPiece
  <2>3. CASE tokens = <<>>
    <3>1. temp # <<>> /\ FirstPiece(r) = temp /\ FirstPiece(ReadNext(r, ch)) = Append(temp, ch)
      BY <2>1, <2>3 DEF FirstPiece
    <3>2. temp \in Seq(S)
      BY SeqMonotonic
    <3>3. Len(temp) >= 1 /\ Len(temp) \in Nat
      BY <3>1, <3>2, EmptySeq
    <3>4. Append(temp, ch) # <<>> /\ Append(temp, ch)[1] = temp[1]
      BY <3>2, <3>3, AppendProperties
    <3> QED
      BY <3>1, <3>4
  <2> QED
    BY <2>2, <2>3
<1>3. CASE ch = Space
  <2>1. ReadNext(r, ch) = [tokens |-> IF temp = <<>> THEN tokens ELSE Append(tokens, temp),
                           temp |-> <<>>]
    BY <1>1, <1>3 DEF ReadNext
  <2>2. CASE temp = <<>>
    BY <2>1, <2>2 DEF FirstPiece
  <2>3. CASE temp # <<>>
    <3>1. temp \in WordsOf(S)
      BY <2>3 DEF WordsOf
    <3>2. /\ Append(tokens, temp) # <<>>
          /\ tokens = <<>> => Append(tokens, temp)[1] = temp
          /\ tokens # <<>> => Append(tokens, temp)[1] = tokens[1] /\ tokens[1] # <<>>
      <4>1. /\ Append(tokens, temp) # <<>>
            /\ Append(tokens, temp)[Len(tokens) + 1] = temp
            /\ \A i \in 1 .. Len(tokens) : Append(tokens, temp)[i] = tokens[i]
        BY <3>1, AppendProperties
      <4>2. tokens = <<>> => Append(tokens, temp)[1] = temp
        BY <4>1
      <4>3. tokens # <<>> => 1 \in 1 .. Len(tokens)
        OBVIOUS
      <4>4. tokens # <<>> => tokens[1] \in WordsOf(S)
        BY <4>3
      <4> QED
        BY <4>1, <4>2, <4>3, <4>4 DEF WordsOf
    <3>3. FirstPiece(ReadNext(r, ch)) = Append(tokens, temp)[1]
      BY <2>1, <2>3, <3>2 DEF FirstPiece
    <3> QED
      BY <2>3, <3>2, <3>3 DEF FirstPiece
  <2> QED
    BY <2>2, <2>3
<1> QED
  BY <1>2, <1>3

LEMMA FirstToken ==
  ASSUME NEW line, IsLine(line), ~Contains(line, NewLine)
  PROVE  LET first == FirstPiece(Scan(line)[Len(line)])
         IN  /\ tokenize(line) # <<>> <=> first # <<>>
             /\ first # <<>> => tokenize(line)[1] = first
<1> DEFINE S == ToSet(line)
           tokens == Scan(line)[Len(line)].tokens
           temp == Scan(line)[Len(line)].temp
<1>1. tokens \in Seq(WordsOf(S)) /\ temp \in Seq(S \ {Space})
  BY TokensOf
<1>2. tokenize(line) = IF temp = <<>> THEN tokens ELSE Append(tokens, temp)
  BY DEF tokenize
<1>3. FirstPiece(Scan(line)[Len(line)]) = IF tokens # <<>> THEN tokens[1] ELSE temp
  BY DEF FirstPiece
<1>4. tokens # <<>> => tokens[1] # <<>> /\ Append(tokens, temp)[1] = tokens[1]
  <2>1. SUFFICES ASSUME tokens # <<>> PROVE tokens[1] # <<>> /\ Append(tokens, temp)[1] = tokens[1]
    OBVIOUS
  <2> HIDE DEF tokens, temp, S
  <2>2. 1 \in 1 .. Len(tokens)
    BY <1>1, <2>1
  <2>3. tokens[1] \in WordsOf(S)
    BY <1>1, <2>2
  <2>4. tokens \in Seq(WordsOf(S) \cup {temp})
    BY <1>1, SeqMonotonic
  <2> QED
    BY <2>2, <2>3, <2>4, AppendProperties DEF WordsOf
<1>5. /\ Append(tokens, temp) # <<>>
      /\ tokens = <<>> => Append(tokens, temp)[1] = temp
  <2> HIDE DEF tokens, temp, S
  <2>1. tokens \in Seq(WordsOf(S) \cup {temp})
    BY <1>1, SeqMonotonic
  <2>2. Len(<<>>) = 0
    OBVIOUS
  <2> QED
    BY <2>1, <2>2, AppendProperties
<1> HIDE DEF tokens, temp
<1> QED
  BY <1>2, <1>3, <1>4, <1>5

LEMMA PartBegins ==
  ASSUME NEW line, IsLine(line), ~Contains(line, NewLine), NEW m \in 0 .. Len(line)
  PROVE  LET part == SubSeq(line, 1, m)
         IN  /\ IsLine(part) /\ ~Contains(part, NewLine)
             /\ tokenize(part) # <<>> =>
                  tokenize(line) # <<>> /\ tokenize(part)[1][1] = tokenize(line)[1][1]
<1> DEFINE S == ToSet(line)
           part == SubSeq(line, 1, m)
           first(n) == FirstPiece(Scan(line)[n])
<1>1. /\ line \in Seq(S) /\ Len(line) \in Nat
      /\ \A i \in 1 .. Len(line) : line[i] \in S /\ line[i] # NewLine
  BY LineProperties DEF Contains
<1>2. /\ part \in Seq(S) /\ Len(part) = m
      /\ \A i \in 1 .. m : part[i] = line[i]
  BY <1>1, SubSeqProperties
<1>3. \A n \in 0 .. m : Scan(part)[n] = Scan(line)[n]
  <2> HIDE DEF S
  <2> QED
    BY <1>1, ScanOfPrefix
<1>4. IsLine(part) /\ ~Contains(part, NewLine)
  <2> HIDE DEF S, part
  <2>1. \A i \in 1 .. m : part[i] # NewLine
    BY <1>1, <1>2
  <2>2. part \in Seq(ToSet(part))
    <3>1. part = SubSeq(part, 1, Len(part)) /\ DOMAIN part = 1 .. m
      BY <1>2, SubSeqFull
    <3>2. \A i \in 1 .. m : part[i] \in ToSet(part)
      BY <3>1 DEF ToSet
    <3> QED
      BY <1>2, <3>1, <3>2, SubSeqProperties
  <2> QED
    BY <1>2, <2>1, <2>2 DEF IsLine, Contains
<1> DEFINE Keeps(n) == first(m) # <<>> /\ n >= m => first(n) # <<>> /\ first(n)[1] = first(m)[1]
           P == {n \in 0 .. Len(line) : Keeps(n)}
<1>5. 0 \in P
  <2> HIDE DEF first
  <2> QED
    BY <1>1
<1>6. ASSUME NEW n \in 1 .. Len(line), n - 1 \in P
      PROVE  n \in P
  <2>1. SUFFICES ASSUME first(m) # <<>>, n > m PROVE Keeps(n)
    <3> HIDE DEF first
    <3> QED
      BY <1>1
  <2>2. first(n - 1) # <<>> /\ first(n - 1)[1] = first(m)[1]
    <3> HIDE DEF first
    <3> QED
      BY <1>1, <1>6, <2>1
  <2> DEFINE tokens == Scan(line)[n - 1].tokens
             temp == Scan(line)[n - 1].temp
  <2>3. /\ tokens \in Seq(WordsOf(S)) /\ temp \in Seq(S \ {Space, NewLine})
        /\ Scan(line)[n - 1] = [tokens |-> tokens, temp |-> temp]
    <3> HIDE DEF S
    <3>1. n - 1 \in 0 .. Len(line) /\ n - 1 < Len(line)
      BY <1>1
    <3>2. \A i \in 0 .. Len(line) :
            /\ Scan(line)[i].tokens \in Seq(WordsOf(S))
            /\ i < Len(line) => Scan(line)[i].temp \in Seq(S \ {Space, NewLine})
      <4>1. \A i \in 1 .. Len(line) - 1 : line[i] # NewLine
        BY <1>1
      <4> QED
        BY <1>1, <4>1, ScanWords
    <3>3. Scan(line) \in [0 .. Len(line) -> Reading(S)]
      BY <1>1, ScanIs
    <3>4. Scan(line)[n - 1] \in Reading(S)
      BY <3>1, <3>3
    <3> QED
      BY <3>1, <3>2, <3>4 DEF Reading
  <2>4. Scan(line)[n] = ReadNext(Scan(line)[n - 1], line[n])
    <3> HIDE DEF S
    <3>1. \A i \in 1 .. Len(line) : Scan(line)[i] = ReadNext(Scan(line)[i - 1], line[i])
      BY <1>1, ScanIs
    <3> QED
      BY <3>1
  <2>5. line[n] \in S /\ line[n] # NewLine
    BY <1>1
  <2> DEFINE r == Scan(line)[n - 1]
             ch == line[n]
  <2>6. FirstPiece(ReadNext(r, ch)) # <<>> /\ FirstPiece(ReadNext(r, ch))[1] = FirstPiece(r)[1]
    <3> HIDE DEF S, tokens, temp, r, ch
    <3>1. /\ r = [tokens |-> tokens, temp |-> temp] /\ FirstPiece(r) # <<>>
          /\ ch \in S /\ ch # NewLine
      BY <2>2, <2>3, <2>5 DEF r, ch
    <3> QED
      BY <2>3, <3>1, FirstStays
  <2> QED
    BY <2>2, <2>4, <2>6
<1>7. \A n \in 0 .. Len(line) : n \in P
  <2>1. Len(line) \in Nat /\ \A n \in 1 .. Len(line) : n - 1 \in P => n \in P
    BY <1>1, <1>6
  <2> HIDE DEF P
  <2> QED
    BY <1>5, <2>1, Induct
<1>8. first(m) # <<>> => first(Len(line)) # <<>> /\ first(Len(line))[1] = first(m)[1]
  <2>1. Len(line) \in P /\ Len(line) >= m
    <3> HIDE DEF P
    <3> QED
      BY <1>1, <1>7
  <2> HIDE DEF first
  <2> QED
    BY <2>1
<1>9. FirstPiece(Scan(part)[Len(part)]) = first(m)
  <2> HIDE DEF part
  <2> QED
    BY <1>2, <1>3
<1> DEFINE of == FirstPiece(Scan(part)[Len(part)])
<1>10. (tokenize(part) # <<>> <=> of # <<>>) /\ (of # <<>> => tokenize(part)[1] = of)
  <2> HIDE DEF part
  <2> QED
    BY <1>4, FirstToken
<1>11. /\ tokenize(line) # <<>> <=> first(Len(line)) # <<>>
       /\ first(Len(line)) # <<>> => tokenize(line)[1] = first(Len(line))
  BY FirstToken
<1> HIDE DEF of, first, part
<1>12. tokenize(part) # <<>> =>
         tokenize(line) # <<>> /\ tokenize(part)[1][1] = tokenize(line)[1][1]
  BY <1>8, <1>9, <1>10, <1>11 DEF of
<1> QED
  BY <1>4, <1>12 DEF part

-----------------------------------------------------------------------------
(* The command, the number and the description that tokens stand for.      *)
LEMMA CommandType == \A word : getCommandType(word) \in Commands
BY ParserAssumption DEF getCommandType, Commands

LEMMA NumberIsNat ==
  ASSUME NEW S, NEW s \in Seq(S), isStrNumber(s)
  PROVE  stoi(s) \in Nat
<1> DEFINE step == [n \in 1 .. Len(s) |-> [before \in Nat |-> 10 * before + DigitValue[s[n]]]]
           Body(g) == [n \in 0 .. Len(s) |-> IF n = 0 THEN 0 ELSE 10 * g[n - 1] + DigitValue[s[n]]]
<1>1. \A n \in 1 .. Len(s) : DigitValue[s[n]] \in Nat
  <2>1. \A n \in 1 .. Len(s) : s[n] \in DOMAIN DigitValue
    BY DEF isStrNumber, ToSet
  <2>2. \A d \in DOMAIN DigitValue : DigitValue[d] \in Nat
    BY DEF DigitValue
  <2> QED
    BY <2>1, <2>2
<1>2. step \in [1 .. Len(s) -> [Nat -> Nat]]
  <2>1. \A n \in 1 .. Len(s), before \in Nat : 10 * before + DigitValue[s[n]] \in Nat
    BY <1>1
  <2> QED
    BY <2>1
<1>3. PICK f \in [0 .. Len(s) -> Nat] :
        \A n \in 0 .. Len(s) : f[n] = IF n = 0 THEN 0 ELSE step[n][f[n - 1]]
  <2>1. Len(s) \in Nat /\ 0 \in Nat
    OBVIOUS
  <2>2. Defined(Len(s), Nat, 0, step) # {}
    <3> HIDE DEF step
    <3> QED
      BY <1>2, <2>1, Recursion
  <2> HIDE DEF step
  <2> QED
    BY <2>2 DEF Defined
<1>4. f = Body(f)
  <2>1. ASSUME NEW n \in 0 .. Len(s)
        PROVE  f[n] = IF n = 0 THEN 0 ELSE 10 * f[n - 1] + DigitValue[s[n]]
    <3>1. CASE n = 0
      BY <1>3, <3>1
    <3>2. CASE n # 0
      <4>1. n \in 1 .. Len(s) /\ f[n - 1] \in Nat
        BY <3>2
      <4>2. f[n] = step[n][f[n - 1]]
        BY <1>3, <3>2
      <4> QED
        BY <4>1, <4>2, <3>2
    <3> QED
      BY <3>1, <3>2
  <2> QED
    BY <2>1
<1> DEFINE value == CHOOSE g : g = Body(g)
<1>5. stoi(s) = value[Len(s)]
  BY DEF stoi
<1>6. value = Body(value)
  <2> HIDE DEF Body
  <2> QED
    BY <1>4
<1> HIDE DEF value
<1>7. \A n \in 0 .. Len(s) : value[n] = IF n = 0 THEN 0 ELSE 10 * value[n - 1] + DigitValue[s[n]]
  BY <1>6
<1> DEFINE P == {n \in 0 .. Len(s) : value[n] \in Nat}
<1>8. 0 \in P
  BY <1>7
<1>9. ASSUME NEW n \in 1 .. Len(s), n - 1 \in P
      PROVE  n \in P
  <2>1. n \in 0 .. Len(s) /\ n # 0 /\ value[n - 1] \in Nat
    BY <1>9
  <2>2. value[n] = 10 * value[n - 1] + DigitValue[s[n]]
    BY <1>7, <2>1
  <2>3. DigitValue[s[n]] \in Nat
    BY <1>1
  <2>4. value[n] \in Nat
    BY <2>1, <2>2, <2>3
  <2> QED
    BY <2>4
<1>10. \A n \in 0 .. Len(s) : n \in P
  <2>1. Len(s) \in Nat /\ \A n \in 1 .. Len(s) : n - 1 \in P => n \in P
    BY <1>9
  <2> HIDE DEF P
  <2> QED
    BY <1>8, <2>1, Induct
<1> QED
  BY <1>5, <1>10

Joinings(tokens, m, S) ==
  {rest \in [0 .. m -> Seq(S)] :
     /\ Rest(tokens) = rest[m] /\ rest[0] = <<>>
     /\ \A n \in 1 .. m : rest[n] = rest[n - 1] \o tokens[3 + n] \o <<Space>>}

LEMMA RestIs ==
  ASSUME NEW S, Space \in S, NEW tokens \in Seq(Seq(S)), NEW m \in Nat, Len(tokens) = m + 3
  PROVE  Joinings(tokens, m, S) # {}
<1> DEFINE Joined(before, n) == before \o tokens[3 + n] \o <<Space>>
           step == [n \in 1 .. m |-> [before \in Seq(S) |-> Joined(before, n)]]
           Body(g) == [n \in 0 .. m |-> IF n = 0 THEN <<>> ELSE Joined(g[n - 1], n)]
<1>1. m \in Nat /\ \A n \in 1 .. m : tokens[3 + n] \in Seq(S)
  OBVIOUS
<1>2. step \in [1 .. m -> [Seq(S) -> Seq(S)]]
  <2>1. <<Space>> \in Seq(S)
    OBVIOUS
  <2>2. \A n \in 1 .. m : \A before \in Seq(S) : Joined(before, n) \in Seq(S)
    BY <1>1, <2>1
  <2> HIDE DEF Joined
  <2> QED
    BY <2>2
<1>3. PICK f \in [0 .. m -> Seq(S)] :
        \A n \in 0 .. m : f[n] = IF n = 0 THEN <<>> ELSE step[n][f[n - 1]]
  <2>1. <<>> \in Seq(S)
    OBVIOUS
  <2>2. Defined(m, Seq(S), <<>>, step) # {}
    <3> HIDE DEF step
    <3> QED
      BY <1>1, <1>2, <2>1, Recursion
  <2> HIDE DEF step
  <2> QED
    BY <2>2 DEF Defined
<1>4. f = Body(f)
  <2> HIDE DEF Joined
  <2>1. ASSUME NEW n \in 0 .. m
        PROVE  f[n] = IF n = 0 THEN <<>> ELSE Joined(f[n - 1], n)
    <3>1. CASE n = 0
      BY <1>3, <3>1
    <3>2. CASE n # 0
      <4>1. n \in 1 .. m /\ f[n - 1] \in Seq(S)
        BY <1>1, <3>2
      <4>2. f[n] = step[n][f[n - 1]]
        BY <1>3, <3>2
      <4> QED
        BY <4>1, <4>2, <3>2
    <3> QED
      BY <3>1, <3>2
  <2> QED
    BY <2>1
<1> DEFINE rest == CHOOSE g : g = Body(g)
<1>5. Rest(tokens) = rest[m]
  <2>1. Len(tokens) - 3 = m
    OBVIOUS
  <2>2. Rest(tokens) =
          LET g == CHOOSE g : g = [n \in 0 .. Len(tokens) - 3 |->
                                     IF n = 0 THEN <<>> ELSE Joined(g[n - 1], n)]
          IN  g[Len(tokens) - 3]
    BY DEF Rest
  <2> QED
    BY <2>1, <2>2
<1>6. rest = Body(rest)
  <2> HIDE DEF Body
  <2> QED
    BY <1>4
<1> HIDE DEF rest, Joined
<1>7. /\ rest[0] = <<>>
      /\ \A n \in 1 .. m : rest[n] = Joined(rest[n - 1], n)
  <2>1. \A n \in 0 .. m : rest[n] = IF n = 0 THEN <<>> ELSE Joined(rest[n - 1], n)
    BY <1>6
  <2>2. 0 \in 0 .. m /\ \A n \in 1 .. m : n \in 0 .. m /\ n # 0
    BY <1>1
  <2> QED
    BY <2>1, <2>2
<1>8. \A n \in 1 .. m : \A before \in Seq(S) : Joined(before, n) \in Seq(S)
  <2>1. <<Space>> \in Seq(S)
    OBVIOUS
  <2> QED
    BY <1>1, <2>1 DEF Joined
<1> DEFINE P == {n \in 0 .. m : rest[n] \in Seq(S)}
<1>9. 0 \in P
  <2>1. <<>> \in Seq(S) /\ 0 \in 0 .. m
    BY <1>1
  <2> QED
    BY <1>7, <2>1
<1>10. ASSUME NEW n \in 1 .. m, n - 1 \in P
       PROVE  n \in P
  <2>1. n \in 0 .. m /\ rest[n - 1] \in Seq(S)
    BY <1>1, <1>10
  <2>2. rest[n] \in Seq(S)
    BY <1>7, <1>8, <2>1
  <2> QED
    BY <2>1, <2>2
<1>11. \A n \in 0 .. m : n \in P
  <2>1. \A n \in 1 .. m : n - 1 \in P => n \in P
    BY <1>10
  <2> HIDE DEF P
  <2> QED
    BY <1>1, <1>9, <2>1, Induct
<1>12. rest = [n \in 0 .. m |-> rest[n]]
  BY <1>6
<1>13. rest \in [0 .. m -> Seq(S)]
  BY <1>11, <1>12
<1>14. \A n \in 1 .. m : rest[n] = rest[n - 1] \o tokens[3 + n] \o <<Space>>
  BY <1>7 DEF Joined
<1> QED
  BY <1>5, <1>7, <1>13, <1>14 DEF Joinings

(* The last argument is what the tokens from the fourth on are joined to.  *)
LEMMA FourthArgument ==
  ASSUME NEW S, Space \in S, NEW t \in Seq(Seq(S)), Len(t) >= 4,
         NEW a \in Seq(S), NEW z \in Seq(S), Rest(t) = a \o z \o <<Space>>
  PROVE  Len(joinTokens(t)[4]) = Len(a) + Len(z)
<1> DEFINE all == a \o z \o <<Space>>
<1>1. all \in Seq(S) /\ Len(all) = Len(a) + Len(z) + 1 /\ Len(a) \in Nat /\ Len(z) \in Nat
  <2>1. <<Space>> \in Seq(S)
    OBVIOUS
  <2> QED
    BY <2>1
<1>2. Rest(t) = all
  OBVIOUS
<1> HIDE DEF all
<1>3. Len(Front(all)) = Len(a) + Len(z)
  <2>1. \A i \in 1 .. Len(all) - 1 : all[i] \in S
    BY <1>1
  <2>2. Len(SubSeq(all, 1, Len(all) - 1)) = Len(a) + Len(z)
    BY <1>1, <2>1, SubSeqProperties
  <2> QED
    BY <2>2 DEF Front
<1> DEFINE last == Front(Rest(t))
<1>4. joinTokens(t) = SubSeq(t, 1, 3) \o <<last>>
  BY DEF joinTokens
<1>5. Len(last) = Len(a) + Len(z)
  BY <1>2, <1>3
<1> HIDE DEF last
<1>6. (SubSeq(t, 1, 3) \o <<last>>)[4] = last
  <2>1. \A i \in 1 .. 3 : t[i] \in Seq(S) \cup {last}
    OBVIOUS
  <2>2. SubSeq(t, 1, 3) \in Seq(Seq(S) \cup {last}) /\ Len(SubSeq(t, 1, 3)) = 3
    BY <2>1, SubSeqProperties
  <2>3. <<last>> \in Seq(Seq(S) \cup {last}) /\ Len(<<last>>) = 1 /\ <<last>>[1] = last
    OBVIOUS
  <2> QED
    BY <2>2, <2>3, ConcatProperties
<1> QED
  BY <1>4, <1>5, <1>6

(* Tokens that agree are joined to the same.                               *)
Agree(t, u, k) == \A i \in 1 .. k : t[3 + i] = u[3 + i]

LEMMA JoiningsAgree ==
  ASSUME NEW S, NEW t \in Seq(Seq(S)), NEW u \in Seq(Seq(S)),
         NEW m \in Nat, NEW n \in Nat, NEW k \in 0 .. m, k \in 0 .. n, Agree(t, u, k)
  PROVE  \A f \in Joinings(t, m, S), g \in Joinings(u, n, S) : f[k] = g[k]
<1> TAKE f \in Joinings(t, m, S), g \in Joinings(u, n, S)
<1> DEFINE P == {i \in 0 .. k : f[i] = g[i]}
<1>1. 0 \in P
  BY DEF Joinings
<1>2. ASSUME NEW i \in 1 .. k, i - 1 \in P
      PROVE  i \in P
  <2>1. i \in 1 .. m /\ i \in 1 .. n /\ i \in 0 .. k /\ f[i - 1] = g[i - 1]
    BY <1>2
  <2>2. f[i] = f[i - 1] \o t[3 + i] \o <<Space>> /\ g[i] = g[i - 1] \o u[3 + i] \o <<Space>>
    BY <2>1 DEF Joinings
  <2>3. t[3 + i] = u[3 + i]
    BY <2>1 DEF Agree
  <2> QED
    BY <2>1, <2>2, <2>3
<1>3. \A i \in 1 .. k : i - 1 \in P => i \in P
  BY <1>2
<1> HIDE DEF P
<1>4. k \in Nat /\ k \in 0 .. k
  OBVIOUS
<1>5. \A i \in 0 .. k : i \in P
  BY <1>1, <1>3, <1>4, Induct
<1> QED
  BY <1>4, <1>5 DEF P

(* Cut short at its end, the last token makes a description no longer.     *)
LEMMA Descriptions ==
  ASSUME NEW S, Space \in S, NEW read \in Seq(Seq(S)), NEW tokens \in Seq(Seq(S)),
         Len(read) = Len(tokens), Len(tokens) >= 4,
         \A k \in 1 .. Len(read) - 1 : read[k] = tokens[k],
         Len(read[Len(read)]) <= Len(tokens[Len(read)])
  PROVE  /\ Len(joinTokens(read)[4]) \in Nat
         /\ Len(joinTokens(tokens)[4]) \in Nat
         /\ Len(joinTokens(read)[4]) <= Len(joinTokens(tokens)[4])
<1> DEFINE m == Len(tokens) - 3
<1>1. m \in Nat /\ m >= 1 /\ Len(tokens) = m + 3 /\ Len(read) = m + 3
  OBVIOUS
<1> HIDE DEF m
<1>2. PICK f \in Joinings(read, m, S) : TRUE
  BY <1>1, RestIs
<1>3. PICK g \in Joinings(tokens, m, S) : TRUE
  BY <1>1, RestIs
<1>4. f[m - 1] = g[m - 1]
  <2> DEFINE k == m - 1
  <2>1. k \in 0 .. m
    BY <1>1
  <2>2. Agree(read, tokens, k)
    BY <1>1 DEF Agree
  <2> HIDE DEF k
  <2>3. f[k] = g[k]
    <3>1. \A h \in Joinings(read, m, S), j \in Joinings(tokens, m, S) : h[k] = j[k]
      BY <1>1, <2>1, <2>2, JoiningsAgree
    <3> QED
      BY <1>2, <1>3, <3>1
  <2> QED
    BY <2>3 DEF k
<1> DEFINE a == f[m - 1]
           x == read[3 + m]
           y == tokens[3 + m]
<1>5. a \in Seq(S) /\ x \in Seq(S) /\ y \in Seq(S) /\ Len(x) <= Len(y)
  BY <1>1, <1>2 DEF Joinings
<1>6. Rest(read) = a \o x \o <<Space>> /\ Rest(tokens) = a \o y \o <<Space>>
  <2>1. m \in 1 .. m
    BY <1>1
  <2>2. Rest(read) = f[m] /\ f[m] = f[m - 1] \o read[3 + m] \o <<Space>>
    BY <1>2, <2>1 DEF Joinings
  <2>3. Rest(tokens) = g[m] /\ g[m] = g[m - 1] \o tokens[3 + m] \o <<Space>>
    BY <1>3, <2>1 DEF Joinings
  <2> QED
    BY <1>4, <2>1, <2>2, <2>3
<1> HIDE DEF a, x, y
<1>7. Len(joinTokens(read)[4]) = Len(a) + Len(x) /\ Len(joinTokens(tokens)[4]) = Len(a) + Len(y)
  BY <1>1, <1>5, <1>6, FourthArgument
<1> QED
  BY <1>5, <1>7

(* Nor does a last token that only the client has.                         *)
LEMMA LongerDescription ==
  ASSUME NEW S, Space \in S, NEW read \in Seq(Seq(S)), NEW tokens \in Seq(Seq(S)),
         Len(tokens) = Len(read) + 1, Len(read) >= 4,
         \A k \in 1 .. Len(read) : read[k] = tokens[k]
  PROVE  /\ Len(joinTokens(read)[4]) \in Nat
         /\ Len(joinTokens(tokens)[4]) \in Nat
         /\ Len(joinTokens(read)[4]) <= Len(joinTokens(tokens)[4])
<1> DEFINE m == Len(read) - 3
<1>1. m \in Nat /\ m >= 1 /\ Len(tokens) = (m + 1) + 3 /\ Len(read) = m + 3 /\ m + 1 \in Nat
  OBVIOUS
<1> HIDE DEF m
<1>2. PICK f \in Joinings(read, m, S) : TRUE
  BY <1>1, RestIs
<1>3. PICK g \in Joinings(tokens, m + 1, S) : TRUE
  <2> DEFINE n == m + 1
  <2>1. n \in Nat /\ Len(tokens) = n + 3
    BY <1>1
  <2> HIDE DEF n
  <2>2. Joinings(tokens, n, S) # {}
    BY <2>1, RestIs
  <2> QED
    BY <2>2 DEF n
<1>4. f[m] = g[m]
  <2> DEFINE n == m + 1
             k == m
  <2>1. n \in Nat /\ k \in 0 .. n /\ k \in 0 .. m /\ g \in Joinings(tokens, n, S)
    BY <1>1, <1>3
  <2>2. Agree(read, tokens, k)
    BY <1>1 DEF Agree
  <2> HIDE DEF n, k
  <2>3. f[k] = g[k]
    <3>1. \A h \in Joinings(read, m, S), j \in Joinings(tokens, n, S) : h[k] = j[k]
      BY <1>1, <2>1, <2>2, JoiningsAgree
    <3> QED
      BY <1>2, <2>1, <3>1
  <2> QED
    BY <2>3 DEF k
<1> DEFINE a == f[m - 1]
           b == f[m]
           x == read[3 + m]
           y == tokens[m + 4]
<1>5. a \in Seq(S) /\ b \in Seq(S) /\ x \in Seq(S) /\ y \in Seq(S)
  BY <1>1, <1>2 DEF Joinings
<1>6. b = a \o x \o <<Space>> /\ Rest(read) = b /\ Rest(tokens) = b \o y \o <<Space>>
  <2>1. m \in 1 .. m
    BY <1>1
  <2>2. Rest(read) = b /\ b = a \o x \o <<Space>>
    <3>1. Rest(read) = f[m] /\ f[m] = f[m - 1] \o read[3 + m] \o <<Space>>
      BY <1>2, <2>1 DEF Joinings
    <3> QED
      BY <2>1, <3>1
  <2>3. m + 1 \in 1 .. m + 1 /\ (m + 1) - 1 = m /\ 3 + (m + 1) = m + 4
    BY <1>1
  <2>4. Rest(tokens) = g[m + 1] /\ g[m + 1] = g[(m + 1) - 1] \o tokens[3 + (m + 1)] \o <<Space>>
    BY <1>3, <2>3 DEF Joinings
  <2> QED
    BY <1>4, <2>2, <2>3, <2>4
<1> HIDE DEF a, b, x, y
<1>7. Len(joinTokens(read)[4]) = Len(a) + Len(x)
  <2>1. Rest(read) = a \o x \o <<Space>>
    BY <1>6
  <2> QED
    BY <1>5, <2>1, FourthArgument
<1>8. Len(joinTokens(tokens)[4]) = Len(b) + Len(y)
  <2>1. Rest(tokens) = b \o y \o <<Space>> /\ Len(tokens) >= 4
    BY <1>1, <1>6
  <2> QED
    BY <1>5, <2>1, FourthArgument
<1>9. Len(b) = Len(a) + Len(x) + 1
  <2>1. <<Space>> \in Seq(S)
    OBVIOUS
  <2> QED
    BY <1>5, <1>6, <2>1
<1> QED
  BY <1>5, <1>7, <1>8, <1>9

(* The first three tokens are left as they are.                            *)
LEMMA JoinedTokens ==
  ASSUME NEW S, NEW tokens \in Seq(Seq(S))
  PROVE  /\ Len(joinTokens(tokens)) = IF Len(tokens) < 4 THEN Len(tokens) ELSE 4
         /\ \A k \in 1 .. 3 : k <= Len(tokens) => joinTokens(tokens)[k] = tokens[k]
<1>1. CASE Len(tokens) < 4
  BY <1>1 DEF joinTokens
<1>2. CASE ~(Len(tokens) < 4)
  <2> DEFINE last == Front(Rest(tokens))
             T == Seq(S) \cup {last}
  <2>1. joinTokens(tokens) = SubSeq(tokens, 1, 3) \o <<last>>
    BY <1>2 DEF joinTokens
  <2> HIDE DEF last
  <2>2. \A i \in 1 .. 3 : tokens[i] \in T
    BY <1>2
  <2>3. <<last>> \in Seq(T) /\ Len(<<last>>) = 1
    OBVIOUS
  <2> HIDE DEF T
  <2>4. /\ SubSeq(tokens, 1, 3) \in Seq(T) /\ Len(SubSeq(tokens, 1, 3)) = 3
        /\ \A i \in 1 .. 3 : SubSeq(tokens, 1, 3)[i] = tokens[i]
    BY <2>2, SubSeqProperties
  <2>5. /\ Len(SubSeq(tokens, 1, 3) \o <<last>>) = 4
        /\ \A i \in 1 .. 3 : (SubSeq(tokens, 1, 3) \o <<last>>)[i] = tokens[i]
    BY <2>3, <2>4, ConcatProperties
  <2> QED
    BY <1>2, <2>1, <2>5
<1> QED
  BY <1>1, <1>2

-----------------------------------------------------------------------------
(* The server finds the command that the client has found in a line.       *)
LEMMA TokensWithoutEnd ==
  ASSUME NEW line, IsLine(line), ~Contains(line, NewLine)
  PROVE  /\ tokenize(line) \in Seq(WordsOf(ToSet(line)))
         /\ \A k \in 1 .. Len(tokenize(line)) : UpToNewLine(tokenize(line)[k]) = tokenize(line)[k]
<1> DEFINE S == ToSet(line)
<1>1. tokenize(line) \in Seq(WordsOf(S))
  BY TokensOf
<1>2. ASSUME NEW k \in 1 .. Len(tokenize(line))
      PROVE  UpToNewLine(tokenize(line)[k]) = tokenize(line)[k]
  <2> HIDE DEF S
  <2>1. tokenize(line)[k] \in WordsOf(S)
    BY <1>1
  <2>2. tokenize(line)[k] \in Seq(S \ {Space, NewLine})
    BY <2>1 DEF WordsOf
  <2> QED
    BY <2>2, WordAlone
<1> QED
  BY <1>1, <1>2

LEMMA SameCommand ==
  ASSUME NEW line, IsLine(line), tokenize(line) # <<>>,
         CommandOf(tokenize(line)) # "ILLEGAL"
  PROVE  LET read == tokenize(UpToNewLine(line))
         IN  /\ read # <<>> /\ read \in Seq(WordsOf(ToSet(UpToNewLine(line))))
             /\ CommandOf(read) = CommandOf(tokenize(line))
             /\ getCommandType(read[1]) = CommandOf(tokenize(line))
<1> DEFINE tokens == tokenize(line)
           body == UpToNewLine(line)
           read == tokenize(body)
           first == UpToNewLine(tokens[1])
<1>1. IsLine(body) /\ ~Contains(body, NewLine)
  BY LineBody
<1>2. /\ read \in Seq(WordsOf(ToSet(body)))
      /\ \A k \in 1 .. Len(read) : UpToNewLine(read[k]) = read[k]
  <2> HIDE DEF body
  <2> QED
    BY <1>1, TokensWithoutEnd
<1>3. first # <<>>
  <2>1. getCommandType(first) # "ILLEGAL"
    BY DEF CommandOf
  <2>2. Len(first) = 1
    <3> HIDE DEF first
    <3> QED
      BY <2>1 DEF getCommandType
  <2>3. Len(<<>>) # 1
    OBVIOUS
  <2> HIDE DEF first
  <2> QED
    BY <2>2, <2>3
<1>4. /\ Len(tokens) \in Nat /\ Len(read) \in Nat /\ Len(tokens) <= Len(read) + 1
      /\ \A k \in 1 .. Len(read) : read[k] = UpToNewLine(tokens[k])
      /\ Len(read) < Len(tokens) => UpToNewLine(tokens[Len(tokens)]) = <<>>
  <2>1. IsLine(line)
    OBVIOUS
  <2> HIDE DEF IsLine
  <2>2. /\ Len(tokens) \in Nat /\ Len(read) \in Nat
        /\ Len(read) <= Len(tokens) /\ Len(tokens) <= Len(read) + 1
        /\ \A k \in 1 .. Len(read) : /\ read[k] = UpToNewLine(tokens[k])
                                     /\ k < Len(tokens) => read[k] = tokens[k]
        /\ Len(read) < Len(tokens) => UpToNewLine(tokens[Len(tokens)]) = <<>>
        /\ body # <<>> /\ Last(body) # Space => Len(read) = Len(tokens)
    BY <2>1, EndCut
  <2> HIDE DEF tokens, read, body
  <2> QED
    BY <2>2
<1>5. Len(tokens) > 0
  <2>1. tokens \in Seq(Seq(ToSet(line) \ {Space}))
    BY TokensOf
  <2>2. tokens # <<>>
    OBVIOUS
  <2> HIDE DEF tokens
  <2> QED
    BY <2>1, <2>2, EmptySeq
<1> HIDE DEF tokens, body
<1>6. 1 \in 1 .. Len(read) /\ read[1] = first /\ UpToNewLine(read[1]) = read[1]
  <2>1. Len(read) # 0
    BY <1>3, <1>4, <1>5
  <2>2. 1 \in 1 .. Len(read)
    BY <1>4, <2>1
  <2> QED
    BY <1>2, <1>4, <2>2
<1>7. read # <<>>
  BY <1>6
<1>8. CommandOf(read) = getCommandType(first) /\ CommandOf(tokens) = getCommandType(first)
  BY <1>6 DEF CommandOf
<1> QED
  BY <1>2, <1>6, <1>7, <1>8 DEF tokens, body

(* A part of the line has no other command.                                *)
LEMMA PartCommand ==
  ASSUME NEW line, IsLine(line), tokenize(line) # <<>>,
         CommandOf(tokenize(line)) # "ILLEGAL",
         NEW m \in 0 .. Len(UpToNewLine(line))
  PROVE  LET part == SubSeq(UpToNewLine(line), 1, m)
         IN  tokenize(part) # <<>> =>
               CommandOf(tokenize(part)) \in {CommandOf(tokenize(line)), "ILLEGAL"}
<1> DEFINE body == UpToNewLine(line)
           read == tokenize(body)
           part == SubSeq(body, 1, m)
           comm == CommandOf(tokenize(line))
<1>1. IsLine(body) /\ ~Contains(body, NewLine)
  BY LineBody
<1>2. getCommandType(read[1]) = comm /\ comm # "ILLEGAL"
  BY SameCommand
<1>3. /\ IsLine(part) /\ ~Contains(part, NewLine)
      /\ tokenize(part) # <<>> => tokenize(part)[1][1] = read[1][1]
  <2>1. m \in 0 .. Len(body)
    OBVIOUS
  <2> HIDE DEF body
  <2> QED
    BY <1>1, <2>1, PartBegins
<1> HIDE DEF part, comm, read
<1>4. SUFFICES ASSUME tokenize(part) # <<>>
               PROVE  CommandOf(tokenize(part)) \in {comm, "ILLEGAL"}
  BY DEF part, comm
<1> DEFINE word == tokenize(part)[1]
<1>5. UpToNewLine(word) = word
  <2>1. /\ tokenize(part) \in Seq(WordsOf(ToSet(part)))
        /\ \A k \in 1 .. Len(tokenize(part)) : UpToNewLine(tokenize(part)[k]) = tokenize(part)[k]
    BY <1>3, TokensWithoutEnd
  <2>2. 1 \in 1 .. Len(tokenize(part))
    BY <1>4, <2>1, EmptySeq
  <2> QED
    BY <2>1, <2>2
<1>6. word[1] = read[1][1]
  BY <1>3, <1>4
<1>7. CommandOf(tokenize(part)) = getCommandType(word)
  BY <1>5 DEF CommandOf
<1> HIDE DEF word
<1>8. read[1][1] \in DOMAIN UpperCase /\ UpperCase[read[1][1]] = comm
  BY <1>2 DEF getCommandType
<1>9. getCommandType(word) \in {comm, "ILLEGAL"}
  BY <1>6, <1>8 DEF getCommandType
<1> QED
  BY <1>7, <1>9

LEMMA OneWord ==
  ASSUME NEW word, word \notin {Space, NewLine}
  PROVE  tokenize(<<word>>) = <<<<word>>>> /\ UpToNewLine(<<word>>) = <<word>>
<1> DEFINE line == <<word>>
<1>1. /\ line \in Seq({word}) /\ Len(line) = 1 /\ line[1] = word /\ 1 \in 1 .. 1 /\ 1 - 1 = 0
      /\ Append(<<>>, word) = line /\ Append(<<>>, line) = <<line>> /\ line # <<>>
  OBVIOUS
<1> HIDE DEF line
<1>2. /\ Scan(line)[0] = [tokens |-> <<>>, temp |-> <<>>]
      /\ \A n \in 1 .. Len(line) : Scan(line)[n] = ReadNext(Scan(line)[n - 1], line[n])
  BY <1>1, ScanIs
<1>3. Scan(line)[1] = ReadNext(Scan(line)[0], word)
  BY <1>1, <1>2
<1>4. Scan(line)[1] = [tokens |-> <<>>, temp |-> line]
  BY <1>1, <1>2, <1>3 DEF ReadNext
<1>5. tokenize(line) = <<line>>
  BY <1>1, <1>4 DEF tokenize
<1>6. UpToNewLine(line) = line
  <2>1. line \in Seq({word} \ {Space, NewLine})
    BY DEF line
  <2> QED
    BY <2>1, WordAlone
<1> QED
  BY <1>5, <1>6 DEF line

(* It finds the same number, and a description that is no longer.          *)
LEMMA SameEvent ==
  ASSUME NEW line, IsLine(line), NamesEvent(tokenize(line))
  PROVE  LET args == joinTokens(tokenize(UpToNewLine(line)))
         IN  /\ Len(args) >= 2 /\ isStrNumber(args[2])
             /\ args[2] = tokenize(UpToNewLine(line))[2]
             /\ stoi(args[2]) = EventIdIn(tokenize(line))
             /\ EventIdIn(tokenize(line)) \in Nat
<1> DEFINE tokens == tokenize(line)
           body == UpToNewLine(line)
           read == tokenize(body)
           argument == Argument(tokens)
           T == Seq(ToSet(body) \ {Space})
<1>1. Len(tokens) >= 2 /\ isStrNumber(argument)
  BY DEF NamesEvent
<1>2. argument # <<>> /\ argument = UpToNewLine(tokens[2])
  BY <1>1 DEF isStrNumber, Argument
<1>3. /\ Len(tokens) \in Nat /\ Len(read) \in Nat /\ Len(tokens) <= Len(read) + 1
      /\ \A k \in 1 .. Len(read) : read[k] = UpToNewLine(tokens[k])
      /\ Len(read) < Len(tokens) => UpToNewLine(tokens[Len(tokens)]) = <<>>
  <2>1. /\ Len(tokens) \in Nat /\ Len(read) \in Nat
        /\ Len(read) <= Len(tokens) /\ Len(tokens) <= Len(read) + 1
        /\ \A k \in 1 .. Len(read) : /\ read[k] = UpToNewLine(tokens[k])
                                     /\ k < Len(tokens) => read[k] = tokens[k]
        /\ Len(read) < Len(tokens) => UpToNewLine(tokens[Len(tokens)]) = <<>>
        /\ body # <<>> /\ Last(body) # Space => Len(read) = Len(tokens)
    BY EndCut
  <2> HIDE DEF tokens, read, body
  <2> QED
    BY <2>1
<1>4. read \in Seq(Seq(ToSet(body) \ {Space}))
  <2>1. IsLine(body)
    BY LineBody
  <2> HIDE DEF body
  <2> QED
    BY <2>1, TokensOf
<1>5. tokens \in Seq(Seq(ToSet(line) \ {Space}))
  BY TokensOf
<1> HIDE DEF tokens, body, argument
<1>6. Len(read) >= 2 /\ read[2] = argument
  <2>1. Len(read) < Len(tokens) => Len(tokens) # 2
    <3>1. SUFFICES ASSUME Len(read) < Len(tokens), Len(tokens) = 2 PROVE FALSE
      OBVIOUS
    <3>2. UpToNewLine(tokens[2]) = <<>>
      BY <1>3, <3>1
    <3> QED
      BY <1>2, <3>2
  <2>2. Len(read) >= 2
    <3> DEFINE a == Len(tokens)
               b == Len(read)
    <3>1. a \in Nat /\ b \in Nat /\ a <= b + 1 /\ a >= 2 /\ (b < a => a # 2)
      BY <1>1, <1>3, <2>1
    <3> HIDE DEF a, b
    <3>2. b >= 2
      BY <3>1
    <3> QED
      BY <3>2 DEF b
  <2>3. 2 \in 1 .. Len(read)
    BY <1>3, <2>2
  <2> QED
    BY <1>2, <1>3, <2>2, <2>3
<1> DEFINE args == joinTokens(read)
<1>7. Len(args) >= 2 /\ args[2] = argument
  <2>1. /\ Len(args) = IF Len(read) < 4 THEN Len(read) ELSE 4
        /\ \A k \in 1 .. 3 : k <= Len(read) => args[k] = read[k]
    BY <1>4, JoinedTokens
  <2> HIDE DEF args, read
  <2>2. args[2] = read[2]
    BY <1>6, <2>1
  <2>3. Len(args) >= 2
    BY <1>3, <1>6, <2>1
  <2> QED
    BY <1>6, <2>2, <2>3
<1>8. argument \in Seq(ToSet(line) \ {Space})
  <2>1. tokens[2] \in Seq(ToSet(line) \ {Space})
    <3>1. 2 \in 1 .. Len(tokens)
      BY <1>1, <1>3
    <3> QED
      BY <1>5, <3>1
  <2> QED
    BY <1>2, <2>1, UpToNewLineType
<1>9. stoi(argument) \in Nat /\ EventIdIn(tokens) = stoi(argument)
  BY <1>1, <1>8, NumberIsNat DEF EventIdIn, argument
<1> HIDE DEF args
<1> QED
  BY <1>1, <1>6, <1>7, <1>9 DEF args, tokens, body

(* Of a CREATE the server has the same title and date, and of the          *)
(* description no more than the client, or none if a space ends the line.  *)
LEMMA SameArguments ==
  ASSUME NEW line, IsLine(line), Len(tokenize(line)) >= 4, UpToNewLine(line) # <<>>
  PROVE  LET tokens == tokenize(line)
             args == joinTokens(tokenize(UpToNewLine(line)))
         IN  /\ Len(args) = 4 \/ (Len(args) = 3 /\ Last(UpToNewLine(line)) = Space)
             /\ args[2] = tokens[2] /\ args[3] = tokens[3]
             /\ Len(tokens[2]) \in Nat /\ Len(tokens[3]) \in Nat
             /\ Len(args) = 4 =>
                  /\ Len(args[4]) \in Nat /\ Len(joinTokens(tokens)[4]) \in Nat
                  /\ Len(args[4]) <= Len(joinTokens(tokens)[4])
<1> DEFINE tokens == tokenize(line)
           body == UpToNewLine(line)
           read == tokenize(body)
           S == ToSet(line) \cup ToSet(body) \cup {Space}
<1>1. /\ Len(tokens) \in Nat /\ Len(read) \in Nat /\ Len(tokens) >= 4
      /\ \/ Len(read) = Len(tokens)
         \/ Len(tokens) = Len(read) + 1 /\ Last(body) = Space
      /\ \A k \in 1 .. Len(read) : /\ read[k] = UpToNewLine(tokens[k])
                                   /\ k < Len(tokens) => read[k] = tokens[k]
  <2>1. /\ Len(tokens) \in Nat /\ Len(read) \in Nat
        /\ Len(read) <= Len(tokens) /\ Len(tokens) <= Len(read) + 1
        /\ \A k \in 1 .. Len(read) : /\ read[k] = UpToNewLine(tokens[k])
                                     /\ k < Len(tokens) => read[k] = tokens[k]
        /\ Len(read) < Len(tokens) => UpToNewLine(tokens[Len(tokens)]) = <<>>
        /\ body # <<>> /\ Last(body) # Space => Len(read) = Len(tokens)
    BY EndCut
  <2>2. Len(tokens) >= 4 /\ body # <<>>
    OBVIOUS
  <2> HIDE DEF tokens, read, body
  <2> QED
    BY <2>1, <2>2
<1>2. tokens \in Seq(Seq(S)) /\ read \in Seq(Seq(S))
  <2>1. tokens \in Seq(Seq(ToSet(line) \ {Space}))
    BY TokensOf
  <2>2. read \in Seq(Seq(ToSet(body) \ {Space}))
    <3>1. IsLine(body)
      BY LineBody
    <3> HIDE DEF body
    <3> QED
      BY <3>1, TokensOf
  <2>3. \A A, B : A \subseteq B => Seq(Seq(A)) \subseteq Seq(Seq(B))
    <3>1. \A A, B : A \subseteq B => Seq(A) \subseteq Seq(B)
      BY SeqMonotonic
    <3> QED
      BY <3>1
  <2>4. ToSet(line) \ {Space} \subseteq S /\ ToSet(body) \ {Space} \subseteq S
    OBVIOUS
  <2> HIDE DEF tokens, read, S
  <2> QED
    BY <2>1, <2>2, <2>3, <2>4
<1>3. Space \in S
  OBVIOUS
<1> HIDE DEF tokens, body, read, S
<1>5. Len(read) >= 4 =>
        /\ Len(joinTokens(read)[4]) \in Nat
        /\ Len(joinTokens(tokens)[4]) \in Nat
        /\ Len(joinTokens(read)[4]) <= Len(joinTokens(tokens)[4])
  <2>1. CASE Len(read) = Len(tokens)
    <3>1. Len(read) \in 1 .. Len(read) /\ Len(read) \in 1 .. Len(tokens)
      BY <1>1, <2>1
    <3>2. tokens[Len(read)] \in Seq(S) /\ read[Len(read)] = UpToNewLine(tokens[Len(read)])
      BY <1>1, <1>2, <3>1
    <3>3. Len(read[Len(read)]) <= Len(tokens[Len(read)])
      BY <3>2, UpToNewLineType
    <3>4. Len(tokens) >= 4 /\ \A k \in 1 .. Len(read) - 1 : read[k] = tokens[k]
      BY <1>1, <2>1
    <3> QED
      BY <1>2, <1>3, <2>1, <3>3, <3>4, Descriptions
  <2>2. CASE Len(tokens) = Len(read) + 1
    <3>1. \A k \in 1 .. Len(read) : read[k] = tokens[k]
      BY <1>1, <2>2
    <3> QED
      BY <1>2, <1>3, <2>2, <3>1, LongerDescription
  <2> QED
    BY <1>1, <2>1, <2>2
<1>6. Len(read) \in Nat /\ Len(read) >= 3 /\ read[2] = tokens[2] /\ read[3] = tokens[3]
  <2>1. /\ 2 \in 1 .. Len(read) /\ 3 \in 1 .. Len(read)
        /\ 2 < Len(tokens) /\ 3 < Len(tokens)
    BY <1>1
  <2> QED
    BY <1>1, <2>1
<1> DEFINE args == joinTokens(read)
<1>7. /\ Len(args) = IF Len(read) < 4 THEN Len(read) ELSE 4
      /\ \A k \in 1 .. 3 : k <= Len(read) => args[k] = read[k]
  BY <1>2, JoinedTokens
<1> HIDE DEF args
<1>8. /\ Len(args) = 4 \/ (Len(args) = 3 /\ Last(body) = Space)
      /\ Len(args) = 4 => Len(read) >= 4
      /\ args[2] = tokens[2] /\ args[3] = tokens[3]
  <2>1. args[2] = read[2] /\ args[3] = read[3]
    BY <1>6, <1>7
  <2> DEFINE n == Len(read)
             m == Len(tokens)
             k == Len(args)
             ended == Last(body) = Space
  <2>2. n \in Nat /\ n >= 3 /\ m >= 4 /\ (n = m \/ (m = n + 1 /\ ended))
    BY <1>1, <1>6
  <2>3. k = IF n < 4 THEN n ELSE 4
    BY <1>7
  <2>4. (k = 4 \/ (k = 3 /\ ended)) /\ (k = 4 => n >= 4)
    <3> HIDE DEF n, m, k, ended
    <3> QED
      BY <2>2, <2>3
  <2> QED
    BY <1>6, <2>1, <2>4
<1>9. Len(tokens[2]) \in Nat /\ Len(tokens[3]) \in Nat
  <2>1. 2 \in 1 .. Len(tokens) /\ 3 \in 1 .. Len(tokens)
    BY <1>1
  <2>2. tokens[2] \in Seq(S) /\ tokens[3] \in Seq(S)
    BY <1>2, <2>1
  <2> QED
    BY <2>2
<1> QED
  BY <1>5, <1>8, <1>9 DEF args, read, tokens, body

-----------------------------------------------------------------------------
(***************************************************************************)
(* Where the tokens of a line are in it.  A piece starts at a character    *)
(* that is no space, if a space or nothing is before it.                   *)
(***************************************************************************)
IsStart(line, i) == line[i] # Space /\ (i = 1 \/ line[i - 1] = Space)
Starts(line, n) == {i \in 1 .. n : IsStart(line, i)}

LEMMA StartsCount ==
  ASSUME NEW line, NEW n \in Nat
  PROVE  /\ IsFiniteSet(Starts(line, n)) /\ Cardinality(Starts(line, n)) \in Nat
         /\ \A i \in Starts(line, n) :
              Cardinality(Starts(line, i)) \in 1 .. Cardinality(Starts(line, n))
<1>1. \A m \in Nat : IsFiniteSet(Starts(line, m)) /\ Cardinality(Starts(line, m)) \in Nat
  <2>1. TAKE m \in Nat
  <2>2. IsFiniteSet(1 .. m) /\ Starts(line, m) \in SUBSET (1 .. m)
    BY FS_Interval DEF Starts
  <2> QED
    BY <2>2, FS_Subset, FS_CardinalityType
<1>2. ASSUME NEW i \in Starts(line, n)
      PROVE  Cardinality(Starts(line, i)) \in 1 .. Cardinality(Starts(line, n))
  <2>1. i \in 1 .. n /\ i \in Nat
    BY DEF Starts
  <2>2. Starts(line, i) \in SUBSET Starts(line, n) /\ i \in Starts(line, i)
    BY <2>1 DEF Starts
  <2>3. Cardinality(Starts(line, i)) <= Cardinality(Starts(line, n))
    BY <1>1, <2>2, FS_Subset
  <2>4. Starts(line, i) # {}
    BY <2>2
  <2>5. Cardinality(Starts(line, i)) # 0
    BY <1>1, <2>1, <2>4, FS_EmptySet
  <2> QED
    BY <1>1, <2>1, <2>3, <2>5
<1> QED
  BY <1>1, <1>2

LEMMA StartsNext ==
  ASSUME NEW line, NEW n \in Nat \ {0}
  PROVE  /\ IsStart(line, n) =>
              /\ Starts(line, n) = Starts(line, n - 1) \cup {n}
              /\ Cardinality(Starts(line, n)) = Cardinality(Starts(line, n - 1)) + 1
         /\ ~IsStart(line, n) => Starts(line, n) = Starts(line, n - 1)
<1>1. IsStart(line, n) => Starts(line, n) = Starts(line, n - 1) \cup {n}
  BY DEF Starts
<1>2. ~IsStart(line, n) => Starts(line, n) = Starts(line, n - 1)
  <2>1. SUFFICES ASSUME ~IsStart(line, n) PROVE Starts(line, n) = Starts(line, n - 1)
    OBVIOUS
  <2>2. \A i \in 1 .. n : IsStart(line, i) => i # n
    BY <2>1
  <2>3. \A i \in 1 .. n : i # n => i \in 1 .. n - 1
    OBVIOUS
  <2> QED
    BY <2>2, <2>3 DEF Starts
<1>3. n \notin Starts(line, n - 1) /\ IsFiniteSet(Starts(line, n - 1))
  <2>1. n - 1 \in Nat
    OBVIOUS
  <2>2. IsFiniteSet(Starts(line, n - 1))
    BY <2>1, StartsCount
  <2> QED
    BY <2>2 DEF Starts
<1> QED
  BY <1>1, <1>2, <1>3, FS_AddElement

(* After n characters, the pieces read are those that started.             *)
Located(line, n, tokens, temp) ==
  /\ Cardinality(Starts(line, n)) = IF temp = <<>> THEN Len(tokens) ELSE Len(tokens) + 1
  /\ \A i \in Starts(line, n) :
       /\ Cardinality(Starts(line, i)) <= Len(tokens) =>
            LET token == tokens[Cardinality(Starts(line, i))]
            IN  /\ token = SubSeq(line, i, i + Len(token) - 1)
                /\ i + Len(token) <= n /\ line[i + Len(token)] = Space
       /\ Cardinality(Starts(line, i)) = Len(tokens) + 1 => temp = SubSeq(line, i, n)

LEMMA LocatedAfterSpace ==
  ASSUME NEW S, NEW line \in Seq(S), NEW n \in 1 .. Len(line), line[n] = Space,
         NEW tokens \in Seq(WordsOf(S)), NEW temp \in Seq(S \ {Space, NewLine}),
         Located(line, n - 1, tokens, temp)
  PROVE  Located(line, n, IF temp = <<>> THEN tokens ELSE Append(tokens, temp), <<>>)
<1>1. Starts(line, n) = Starts(line, n - 1)
  BY StartsNext DEF IsStart
<1>2. Len(tokens) \in Nat /\ n - 1 \in Nat
  OBVIOUS
<1> DEFINE C(i) == Cardinality(Starts(line, i))
<1>3. \A i \in Starts(line, n - 1) : i \in 1 .. n - 1 /\ C(i) \in 1 .. C(n - 1)
  BY <1>2, StartsCount DEF Starts
<1>4. C(n) = C(n - 1)
  BY <1>1
<1>5. CASE temp = <<>>
  <2>1. \A i \in Starts(line, n - 1) : C(i) <= Len(tokens)
    BY <1>2, <1>3, <1>5 DEF Located
  <2>2. ASSUME NEW i \in Starts(line, n - 1)
        PROVE  LET token == tokens[C(i)]
               IN  /\ token = SubSeq(line, i, i + Len(token) - 1)
                   /\ i + Len(token) <= n /\ line[i + Len(token)] = Space
    <3> DEFINE token == tokens[C(i)]
    <3>1. /\ token = SubSeq(line, i, i + Len(token) - 1)
          /\ i + Len(token) <= n - 1 /\ line[i + Len(token)] = Space
      BY <2>1 DEF Located
    <3>2. i \in Nat /\ Len(token) \in Nat
      <4>1. C(i) \in 1 .. Len(tokens)
        BY <1>2, <1>3, <2>1
      <4>2. token \in WordsOf(S)
        BY <4>1
      <4> QED
        BY <1>3, <4>2 DEF WordsOf
    <3> HIDE DEF token
    <3>3. i + Len(token) <= n
      BY <3>1, <3>2
    <3> QED
      BY <3>1, <3>3 DEF token
  <2>3. \A i \in Starts(line, n - 1) : C(i) # Len(tokens) + 1
    BY <1>2, <1>3, <2>1
  <2>4. C(n) = Len(tokens)
    BY <1>4, <1>5 DEF Located
  <2> QED
    BY <1>1, <1>5, <2>2, <2>3, <2>4 DEF Located
<1>6. CASE temp # <<>>
  <2> DEFINE all == Append(tokens, temp)
  <2>1. /\ Len(all) = Len(tokens) + 1 /\ all[Len(tokens) + 1] = temp
        /\ \A k \in 1 .. Len(tokens) : all[k] = tokens[k]
    <3>1. temp \in WordsOf(S)
      BY <1>6 DEF WordsOf
    <3> QED
      BY <3>1, AppendProperties
  <2> HIDE DEF all
  <2>2. \A i \in Starts(line, n - 1) : C(i) <= Len(all)
    BY <1>2, <1>3, <1>6, <2>1 DEF Located
  <2>3. ASSUME NEW i \in Starts(line, n - 1)
        PROVE  LET token == all[C(i)]
               IN  /\ token = SubSeq(line, i, i + Len(token) - 1)
                   /\ i + Len(token) <= n /\ line[i + Len(token)] = Space
    <3>1. C(i) \in Nat /\ C(i) >= 1 /\ C(i) <= Len(tokens) + 1 /\ i \in 1 .. n - 1
      BY <1>2, <1>3, <2>1, <2>2, StartsCount
    <3>2. CASE C(i) <= Len(tokens)
      <4> DEFINE token == tokens[C(i)]
      <4>1. /\ token = SubSeq(line, i, i + Len(token) - 1)
            /\ i + Len(token) <= n - 1 /\ line[i + Len(token)] = Space
        BY <3>2 DEF Located
      <4>2. C(i) \in 1 .. Len(tokens)
        BY <1>2, <3>1, <3>2
      <4>3. token \in WordsOf(S) /\ all[C(i)] = token
        BY <2>1, <4>2
      <4>4. Len(token) \in Nat
        BY <4>3 DEF WordsOf
      <4> HIDE DEF token
      <4>5. i + Len(token) <= n
        BY <3>1, <4>1, <4>4
      <4> QED
        BY <4>1, <4>3, <4>5
    <3>3. CASE C(i) = Len(tokens) + 1
      <4>1. temp = SubSeq(line, i, n - 1) /\ all[C(i)] = temp
        BY <2>1, <3>3 DEF Located
      <4>2. \A j \in i .. n - 1 : line[j] \in S
        BY <3>1
      <4>3. Len(temp) = n - i
        BY <3>1, <4>1, <4>2, SubSeqProperties
      <4>4. i + Len(temp) = n /\ i + Len(temp) - 1 = n - 1
        BY <3>1, <4>3
      <4>5. /\ temp = SubSeq(line, i, i + Len(temp) - 1)
            /\ i + Len(temp) <= n /\ line[i + Len(temp)] = Space
        <5>1. SubSeq(line, i, i + Len(temp) - 1) = SubSeq(line, i, n - 1)
          BY <4>4
        <5>2. temp = SubSeq(line, i, i + Len(temp) - 1)
          BY <4>1, <5>1
        <5>3. i + Len(temp) <= n
          BY <4>4
        <5>4. line[i + Len(temp)] = Space
          BY <4>4
        <5> QED
          BY <5>2, <5>3, <5>4
      <4> QED
        BY <4>1, <4>5
    <3> QED
      BY <1>2, <3>1, <3>2, <3>3
  <2>4. \A i \in Starts(line, n - 1) : C(i) # Len(all) + 1
    BY <1>2, <1>3, <2>1, <2>2
  <2>5. C(n) = Len(all)
    BY <1>4, <1>6, <2>1 DEF Located
  <2>6. Located(line, n, all, <<>>)
    BY <1>1, <2>3, <2>4, <2>5 DEF Located
  <2> QED
    BY <1>6, <2>6 DEF all
<1> QED
  BY <1>5, <1>6

LEMMA LocatedAfterOther ==
  ASSUME NEW S, NEW line \in Seq(S), NEW n \in 1 .. Len(line), line[n] # Space,
         NEW tokens \in Seq(WordsOf(S)), NEW temp \in Seq(S \ {Space, NewLine}),
         temp = <<>> <=> n = 1 \/ line[n - 1] = Space,
         Located(line, n - 1, tokens, temp)
  PROVE  Located(line, n, tokens, Append(temp, line[n]))
<1> DEFINE C(i) == Cardinality(Starts(line, i))
           longer == Append(temp, line[n])
<1>1. Len(tokens) \in Nat /\ n - 1 \in Nat
  OBVIOUS
<1>2. \A i \in Starts(line, n - 1) : i \in 1 .. n - 1 /\ C(i) \in 1 .. C(n - 1)
  BY <1>1, StartsCount DEF Starts
<1>3. /\ temp \in Seq(S) /\ longer \in Seq(S) /\ longer # <<>> /\ Len(longer) = Len(temp) + 1
      /\ Len(temp) \in Nat
      /\ \A k \in 1 .. Len(temp) : longer[k] = temp[k]
      /\ longer[Len(temp) + 1] = line[n]
  <2>1. temp \in Seq(S) /\ line[n] \in S
    BY SeqMonotonic
  <2>2. /\ longer \in Seq(S) /\ Len(longer) = Len(temp) + 1
        /\ \A k \in 1 .. Len(temp) : longer[k] = temp[k]
        /\ longer[Len(temp) + 1] = line[n]
    BY <2>1, AppendProperties
  <2>3. Len(temp) \in Nat
    BY <2>1
  <2> HIDE DEF longer
  <2>4. longer # <<>>
    BY <2>2, <2>3
  <2> QED
    BY <2>1, <2>2, <2>3, <2>4
<1> HIDE DEF longer
<1>4. ASSUME NEW i \in Starts(line, n - 1), C(i) <= Len(tokens)
      PROVE  LET token == tokens[C(i)]
             IN  /\ token = SubSeq(line, i, i + Len(token) - 1)
                 /\ i + Len(token) <= n /\ line[i + Len(token)] = Space
  <2> DEFINE token == tokens[C(i)]
  <2>1. /\ token = SubSeq(line, i, i + Len(token) - 1)
        /\ i + Len(token) <= n - 1 /\ line[i + Len(token)] = Space
    BY <1>4 DEF Located
  <2>2. i \in Nat /\ Len(token) \in Nat
    <3>1. C(i) \in 1 .. Len(tokens)
      <4>1. C(i) \in Nat /\ C(i) >= 1
        BY <1>1, <1>2, StartsCount
      <4> QED
        BY <1>1, <1>4, <4>1
    <3>2. token \in WordsOf(S)
      BY <3>1
    <3> QED
      BY <1>2, <3>2 DEF WordsOf
  <2> HIDE DEF token
  <2>3. i + Len(token) <= n
    BY <2>1, <2>2
  <2> QED
    BY <2>1, <2>3 DEF token
<1>5. CASE temp = <<>>
  <2>1. IsStart(line, n)
    BY <1>5 DEF IsStart
  <2>2. Starts(line, n) = Starts(line, n - 1) \cup {n} /\ C(n) = C(n - 1) + 1
    BY <2>1, StartsNext
  <2>3. C(n - 1) = Len(tokens)
    BY <1>5 DEF Located
  <2>4. longer = SubSeq(line, n, n)
    <3>1. Len(temp) = 0
      BY <1>5
    <3>2. /\ SubSeq(line, n, n) \in Seq(S) /\ Len(SubSeq(line, n, n)) = 1
          /\ SubSeq(line, n, n)[1] = line[n]
      <4>1. \A i \in n .. n : line[i] \in S
        OBVIOUS
      <4>2. n \in Int
        OBVIOUS
      <4>3. n - n + 1 = 1 /\ n + 1 - 1 = n /\ 1 \in 1 .. 1
        BY <4>2
      <4> QED
        BY <4>1, <4>2, <4>3, SubSeqProperties
    <3>3. Len(longer) = 1 /\ longer[1] = line[n]
      BY <1>3, <3>1
    <3>4. \A i \in 1 .. 1 : i = 1
      OBVIOUS
    <3> QED
      BY <1>3, <3>2, <3>3, <3>4, SeqEqual
  <2>5. ASSUME NEW i \in Starts(line, n)
        PROVE  /\ C(i) <= Len(tokens) =>
                    LET token == tokens[C(i)]
                    IN  /\ token = SubSeq(line, i, i + Len(token) - 1)
                        /\ i + Len(token) <= n /\ line[i + Len(token)] = Space
               /\ C(i) = Len(tokens) + 1 => longer = SubSeq(line, i, n)
    <3>1. CASE i = n
      <4>1. C(i) = Len(tokens) + 1
        BY <2>2, <2>3, <3>1
      <4>2. ~(C(i) <= Len(tokens))
        <5> HIDE DEF C
        <5> QED
          BY <1>1, <4>1
      <4> QED
        BY <2>4, <3>1, <4>2
    <3>2. CASE i # n
      <4>1. i \in Starts(line, n - 1)
        BY <2>2, <3>2
      <4>2. C(i) # Len(tokens) + 1
        <5>1. C(i) \in 1 .. Len(tokens)
          BY <1>2, <2>3, <4>1
        <5> HIDE DEF C
        <5> QED
          BY <1>1, <5>1
      <4> QED
        BY <1>4, <4>1, <4>2
    <3> QED
      BY <3>1, <3>2
  <2>6. C(n) = Len(tokens) + 1
    BY <2>2, <2>3
  <2>7. Located(line, n, tokens, longer)
    BY <1>3, <2>5, <2>6 DEF Located
  <2> QED
    BY <2>7 DEF longer
<1>6. CASE temp # <<>>
  <2>1. ~IsStart(line, n)
    BY <1>6 DEF IsStart
  <2>2. Starts(line, n) = Starts(line, n - 1)
    BY <2>1, StartsNext
  <2>3. ASSUME NEW i \in Starts(line, n - 1), C(i) = Len(tokens) + 1
        PROVE  longer = SubSeq(line, i, n)
    <3>1. temp = SubSeq(line, i, n - 1) /\ i \in 1 .. n - 1
      BY <1>2, <2>3 DEF Located
    <3>2. \A j \in i .. n : line[j] \in S
      BY <3>1
    <3>3. /\ Len(temp) = n - i
          /\ \A k \in 1 .. n - i : temp[k] = line[i + k - 1]
      <4>1. /\ Len(SubSeq(line, i, n - 1)) = IF i <= n - 1 THEN n - 1 - i + 1 ELSE 0
            /\ \A k \in 1 .. n - 1 - i + 1 : SubSeq(line, i, n - 1)[k] = line[i + k - 1]
        <5>1. \A j \in i .. n - 1 : line[j] \in S
          BY <3>1, <3>2
        <5>2. i \in Int /\ n - 1 \in Int
          BY <3>1
        <5> QED
          BY <5>1, <5>2, SubSeqProperties
      <4>2. i <= n - 1 /\ n - 1 - i + 1 = n - i
        BY <3>1
      <4> QED
        BY <3>1, <4>1, <4>2
    <3>4. /\ SubSeq(line, i, n) \in Seq(S)
          /\ Len(SubSeq(line, i, n)) = n - i + 1
          /\ \A k \in 1 .. n - i + 1 : SubSeq(line, i, n)[k] = line[i + k - 1]
      <4>1. i \in Int /\ n \in Int /\ i <= n
        BY <3>1
      <4> QED
        BY <3>2, <4>1, SubSeqProperties
    <3>5. Len(longer) = n - i + 1
      BY <1>3, <3>3
    <3>6. ASSUME NEW k \in 1 .. n - i + 1
          PROVE  longer[k] = line[i + k - 1]
      <4>1. CASE k \in 1 .. n - i
        BY <1>3, <3>3, <4>1
      <4>2. CASE k = n - i + 1
        <5>1. i + k - 1 = n
          BY <3>1, <4>2
        <5> QED
          BY <1>3, <3>3, <4>2, <5>1
      <4> QED
        BY <3>1, <4>1, <4>2
    <3>7. \A k \in 1 .. Len(longer) : longer[k] = SubSeq(line, i, n)[k]
      BY <3>4, <3>5, <3>6
    <3> QED
      BY <1>3, <3>4, <3>5, <3>7, SeqEqual
  <2>4. C(n) = Len(tokens) + 1
    BY <1>6, <2>2 DEF Located
  <2>5. Located(line, n, tokens, longer)
    BY <1>3, <1>4, <2>2, <2>3, <2>4 DEF Located
  <2> QED
    BY <2>5 DEF longer
<1> QED
  BY <1>5, <1>6

LEMMA ScanLocates ==
  ASSUME NEW S, NEW line \in Seq(S), \A i \in 1 .. Len(line) - 1 : line[i] # NewLine
  PROVE  \A n \in 0 .. Len(line) : Located(line, n, Scan(line)[n].tokens, Scan(line)[n].temp)
<1> DEFINE P == {n \in 0 .. Len(line) : Located(line, n, Scan(line)[n].tokens, Scan(line)[n].temp)}
<1>1. 0 \in P
  <2>1. Scan(line)[0] = [tokens |-> <<>>, temp |-> <<>>] /\ Len(line) \in Nat
    BY ScanIs
  <2>2. Starts(line, 0) = {}
    BY DEF Starts
  <2>3. Cardinality(Starts(line, 0)) = 0 /\ Len(<<>>) = 0
    BY <2>2, FS_EmptySet
  <2>4. Located(line, 0, <<>>, <<>>)
    BY <2>2, <2>3 DEF Located
  <2> QED
    BY <2>1, <2>4
<1>2. ASSUME NEW n \in 1 .. Len(line), n - 1 \in P
      PROVE  n \in P
  <2> DEFINE tokens == Scan(line)[n - 1].tokens
             temp == Scan(line)[n - 1].temp
  <2>1. n - 1 \in 0 .. Len(line) /\ n - 1 < Len(line)
    OBVIOUS
  <2>2. /\ tokens \in Seq(WordsOf(S)) /\ temp \in Seq(S \ {Space, NewLine})
        /\ n - 1 > 0 => (temp = <<>> <=> line[n - 1] = Space)
    <3>1. \A i \in 0 .. Len(line) :
            /\ Scan(line)[i].tokens \in Seq(WordsOf(S))
            /\ Scan(line)[i].temp \in Seq(S \ {Space})
            /\ i < Len(line) => Scan(line)[i].temp \in Seq(S \ {Space, NewLine})
            /\ i > 0 => (Scan(line)[i].temp = <<>> <=> line[i] = Space)
      BY ScanWords
    <3> QED
      BY <2>1, <3>1
  <2>3. Scan(line)[n] = ReadNext(Scan(line)[n - 1], line[n])
    <3>1. \A i \in 1 .. Len(line) : Scan(line)[i] = ReadNext(Scan(line)[i - 1], line[i])
      BY ScanIs
    <3> QED
      BY <3>1
  <2>4. n = 1 => temp = <<>>
    <3>1. Scan(line)[0] = [tokens |-> <<>>, temp |-> <<>>]
      BY ScanIs
    <3> QED
      BY <3>1
  <2>5. Located(line, n - 1, tokens, temp)
    BY <1>2
  <2>6. CASE line[n] = Space
    <3>1. UpToNewLine(temp) = temp
      BY <2>2, WordAlone
    <3>2. Scan(line)[n] = [tokens |-> IF temp = <<>> THEN tokens ELSE Append(tokens, temp),
                           temp |-> <<>>]
      BY <2>3, <2>6, <3>1 DEF ReadNext
    <3> HIDE DEF tokens, temp
    <3>3. Located(line, n, IF temp = <<>> THEN tokens ELSE Append(tokens, temp), <<>>)
      BY <2>2, <2>5, <2>6, LocatedAfterSpace
    <3>4. Located(line, n, Scan(line)[n].tokens, Scan(line)[n].temp)
      BY <3>2, <3>3
    <3> QED
      BY <3>4
  <2>7. CASE line[n] # Space
    <3>1. Scan(line)[n] = [tokens |-> tokens, temp |-> Append(temp, line[n])]
      BY <2>3, <2>7 DEF ReadNext
    <3> HIDE DEF tokens, temp
    <3>2. temp = <<>> <=> n = 1 \/ line[n - 1] = Space
      <4>1. n = 1 \/ n - 1 > 0
        OBVIOUS
      <4> QED
        BY <2>2, <2>4, <4>1
    <3>3. Located(line, n, tokens, Append(temp, line[n]))
      BY <2>2, <2>5, <2>7, <3>2, LocatedAfterOther
    <3>4. Located(line, n, Scan(line)[n].tokens, Scan(line)[n].temp)
      BY <3>1, <3>3
    <3> QED
      BY <3>4
  <2> QED
    BY <2>6, <2>7
<1>3. \A n \in 0 .. Len(line) : n \in P
  <2>1. Len(line) \in Nat /\ \A n \in 1 .. Len(line) : n - 1 \in P => n \in P
    BY <1>2
  <2> HIDE DEF P
  <2> QED
    BY <1>1, <2>1, Induct
<1> QED
  BY <1>3

(* The end of a piece of a line is before a space or at the end of it.     *)
LEMMA PieceEnds ==
  ASSUME NEW S, NEW line \in Seq(S), \A i \in 1 .. Len(line) - 1 : line[i] # NewLine,
         NEW i \in 1 .. Len(line), NEW piece \in Seq(S), piece = SubSeq(line, i, Len(line))
  PROVE  i + Len(UpToNewLine(piece)) + (IF Contains(piece, NewLine) THEN 1 ELSE 0)
           = Len(line) + 1
<1> DEFINE last == Len(piece)
<1>1. Len(line) \in Nat /\ i \in Nat /\ i <= Len(line)
  OBVIOUS
<1>2. /\ last = Len(line) - i + 1
      /\ \A k \in 1 .. last : piece[k] = line[i + k - 1]
  <2>1. \A j \in i .. Len(line) : line[j] \in S
    BY <1>1
  <2> QED
    BY <1>1, <2>1, SubSeqProperties
<1>3. \A k \in 1 .. last - 1 : piece[k] # NewLine
  <2> SUFFICES ASSUME NEW k \in 1 .. last - 1
               PROVE  piece[k] # NewLine
    OBVIOUS
  <2>1. k \in 1 .. last /\ i + k - 1 \in 1 .. Len(line) - 1
    BY <1>1, <1>2
  <2> QED
    BY <1>2, <2>1
<1>4. /\ ~Contains(piece, NewLine) => UpToNewLine(piece) = piece
      /\ Contains(piece, NewLine) => UpToNewLine(piece) = SubSeq(piece, 1, last - 1)
  BY <1>3, UpToNewLineIs
<1>5. CASE ~Contains(piece, NewLine)
  <2>1. UpToNewLine(piece) = piece
    BY <1>4, <1>5
  <2> QED
    BY <1>1, <1>2, <1>5, <2>1
<1>6. CASE Contains(piece, NewLine)
  <2>1. Len(SubSeq(piece, 1, last - 1)) = last - 1
    <3>1. last \in Nat /\ last >= 1
      BY <1>1, <1>2
    <3>2. \A k \in 1 .. last - 1 : piece[k] \in S
      BY <3>1
    <3>3. last - 1 \in Int /\ 1 \in Int
      BY <3>1
    <3> DEFINE m == last - 1
    <3>4. Len(SubSeq(piece, 1, m)) = IF 1 <= m THEN m - 1 + 1 ELSE 0
      BY <3>2, <3>3, SubSeqProperties
    <3> QED
      BY <3>1, <3>4
  <2>2. Len(UpToNewLine(piece)) = last - 1
    BY <1>4, <1>6, <2>1
  <2> QED
    BY <1>1, <1>2, <1>6, <2>2
<1> QED
  BY <1>5, <1>6

(* The tokens are the pieces that start in the line, each up to the next   *)
(* space.                                                                  *)
LEMMA TokensAreThePieces ==
  ASSUME NEW line, IsLine(line)
  PROVE  LET tokens == tokenize(line)
         IN  /\ Len(tokens) = Cardinality(Starts(line, Len(line)))
             /\ \A i \in Starts(line, Len(line)) :
                  LET token == tokens[Cardinality(Starts(line, i))]
                      end == i + Len(UpToNewLine(token))
                               + (IF Contains(token, NewLine) THEN 1 ELSE 0)
                  IN  /\ token = SubSeq(line, i, i + Len(token) - 1)
                      /\ end > Len(line) \/ line[end] = Space
<1> DEFINE S == ToSet(line)
           n == Len(line)
           read == Scan(line)[n]
           tokens == tokenize(line)
           C(i) == Cardinality(Starts(line, i))
           Ends(i, token) ==
             LET end == i + Len(UpToNewLine(token))
                          + (IF Contains(token, NewLine) THEN 1 ELSE 0)
             IN  end > n \/ line[end] = Space
<1>1. /\ line \in Seq(S) /\ n \in Nat
      /\ \A i \in 1 .. n - 1 : line[i] # NewLine
      /\ \A i \in 1 .. n : line[i] \in S
  BY LineProperties
<1>2. read.tokens \in Seq(WordsOf(S)) /\ read.temp \in Seq(S \ {Space})
  BY TokensOf
<1>3. tokens = IF read.temp = <<>> THEN read.tokens ELSE Append(read.tokens, read.temp)
  BY DEF tokenize
<1>4. Located(line, n, read.tokens, read.temp)
  <2> HIDE DEF S
  <2>1. \A m \in 0 .. Len(line) : Located(line, m, Scan(line)[m].tokens, Scan(line)[m].temp)
    BY <1>1, ScanLocates
  <2>2. n \in 0 .. Len(line)
    BY <1>1
  <2> QED
    BY <2>1, <2>2
<1> DEFINE words == read.tokens
           temp == read.temp
<1> HIDE DEF tokens, S, words, temp
<1>5. /\ words \in Seq(WordsOf(S)) /\ temp \in Seq(S \ {Space}) /\ temp \in Seq(S)
      /\ Len(words) \in Nat
      /\ Located(line, n, words, temp)
      /\ tokens = IF temp = <<>> THEN words ELSE Append(words, temp)
  <2>1. \A s \in Seq(S \ {Space}) : s \in Seq(S)
    BY SeqMonotonic
  <2> QED
    BY <1>2, <1>3, <1>4, <2>1 DEF words, temp
<1>6. Len(tokens) = C(n)
  BY <1>5 DEF Located
<1>7. ASSUME NEW i \in Starts(line, n)
      PROVE  LET token == tokens[C(i)]
             IN  /\ token = SubSeq(line, i, i + Len(token) - 1)
                 /\ Ends(i, token)
  <2>1. i \in 1 .. n /\ C(i) \in 1 .. C(n)
    BY <1>1, StartsCount DEF Starts
  <2> DEFINE k == C(i)
  <2>2. k \in Nat /\ k >= 1 /\ k <= Len(tokens)
    <3>1. C(n) \in Nat
      BY <1>1, StartsCount
    <3> HIDE DEF C
    <3> QED
      BY <1>6, <2>1, <3>1
  <2>3. /\ k <= Len(words) =>
             LET token == words[k]
             IN  /\ token = SubSeq(line, i, i + Len(token) - 1)
                 /\ i + Len(token) <= n /\ line[i + Len(token)] = Space
        /\ k = Len(words) + 1 => temp = SubSeq(line, i, n)
    BY <1>5 DEF Located
  <2> HIDE DEF k, C
  <2>4. CASE k <= Len(words)
    <3> DEFINE token == words[k]
    <3>1. tokens[k] = token
      BY <1>5, <2>2, <2>4
    <3>2. token \in WordsOf(S)
      BY <1>5, <2>2, <2>4
    <3>3. token \in Seq(S \ {Space, NewLine})
      BY <3>2 DEF WordsOf
    <3>4. UpToNewLine(token) = token
      BY <3>3, WordAlone
    <3>5. ~Contains(token, NewLine)
      <4> HIDE DEF token
      <4> QED
        BY <3>3 DEF Contains
    <3>6. /\ token = SubSeq(line, i, i + Len(token) - 1)
          /\ line[i + Len(token)] = Space
      BY <2>3, <2>4
    <3>7. Len(token) \in Nat
      <4> HIDE DEF token
      <4> QED
        BY <3>3
    <3> HIDE DEF token
    <3>8. i + Len(UpToNewLine(token)) + (IF Contains(token, NewLine) THEN 1 ELSE 0) = i + Len(token)
      BY <2>1, <3>4, <3>5, <3>7
    <3>9. Ends(i, token)
      BY <3>6, <3>8
    <3> QED
      BY <3>1, <3>6, <3>9 DEF k
  <2>5. CASE k = Len(words) + 1
    <3>1. temp # <<>> /\ tokens[k] = temp
      <4>1. temp # <<>>
        BY <1>5, <2>2, <2>5
      <4> QED
        BY <1>5, <2>5, <4>1
    <3>2. temp = SubSeq(line, i, n)
      BY <2>3, <2>5
    <3>3. i + Len(UpToNewLine(temp)) + (IF Contains(temp, NewLine) THEN 1 ELSE 0) = n + 1
      BY <1>1, <1>5, <2>1, <3>2, PieceEnds
    <3>4. Ends(i, temp)
      BY <1>1, <3>3
    <3>5. temp = SubSeq(line, i, i + Len(temp) - 1)
      <4>1. Len(SubSeq(line, i, n)) = n - i + 1
        <5>1. \A j \in i .. n : line[j] \in S
          BY <1>1, <2>1
        <5>2. i \in Int /\ n \in Int /\ i <= n
          BY <1>1, <2>1
        <5> QED
          BY <5>1, <5>2, SubSeqProperties
      <4>2. i + Len(temp) - 1 = n
        BY <1>1, <2>1, <3>2, <4>1
      <4> QED
        BY <3>2, <4>2
    <3> QED
      BY <3>1, <3>4, <3>5 DEF k
  <2>6. k <= Len(words) \/ k = Len(words) + 1
    BY <1>5, <2>2
  <2> QED
    BY <2>4, <2>5, <2>6
<1> QED
  BY <1>6, <1>7 DEF tokens
=============================================================================
