--------------------------- MODULE CommandParser ---------------------------
(***************************************************************************)
(* The static functions of CommandParser that emClient and emServer both   *)
(* apply to a line.  A string is a sequence of lexemes: a command word in  *)
(* some spelling, a space, the end of line, a digit, any other character.  *)
(***************************************************************************)
EXTENDS Integers, FiniteSets, SequencesExt

CONSTANTS
  UpperCase,  \* ::toupper: the command word behind each spelling of one
  IntMax      \* the largest int: stoi throws above it

Commands == {"REGISTER", "CREATE", "UNREGISTER", "EXIT", "SEND_RSVP",
             "GET_RSVPS_LIST", "GET_TOP_5", "ILLEGAL"}

ASSUME ParserAssumption ==
  /\ IntMax \in Nat
  /\ \A word \in DOMAIN UpperCase : UpperCase[word] \in Commands

DigitValue == [d \in {"0", "1", "2"} |->
                 CASE d = "0" -> 0 [] d = "1" -> 1 [] d = "2" -> 2]

Space == " "
NewLine == "\n"

(* s.substr(0, s.find("\n")) *)
UpToNewLine(s) ==
  IF Contains(s, NewLine)
  THEN SubSeq(s, 1, SelectInSeq(s, LAMBDA ch : ch = NewLine) - 1)
  ELSE s

(* A word of the protocol is illegal if it is any longer or shorter. *)
getCommandType(word) ==
  IF Len(word) = 1 /\ word[1] \in DOMAIN UpperCase
  THEN UpperCase[word[1]]
  ELSE "ILLEGAL"

(* Faulty variant: between two spaces there is an empty token. *)
tokenize_Empty(line) ==
  FoldLeft(LAMBDA acc, ch : IF ch = Space THEN Append(acc, <<>>)
                            ELSE [acc EXCEPT ![Len(acc)] = Append(@, ch)],
           <<<<>>>>, line)

(* One more character of a line: the text between spaces, without empty    *)
(* pieces and cut off at the end of line, are the tokens; temp is the last *)
(* piece, which no space has ended yet.                                    *)
ReadNext(before, ch) ==
  IF ch # Space
  THEN [tokens |-> before.tokens, temp |-> Append(before.temp, ch)]
  ELSE [tokens |-> IF before.temp = <<>> THEN before.tokens
                   ELSE Append(before.tokens, UpToNewLine(before.temp)),
        temp |-> <<>>]

(* What is read of a line after n characters. *)
Scan(line) ==
  LET scan[n \in 0 .. Len(line)] ==
        IF n = 0 THEN [tokens |-> <<>>, temp |-> <<>>]
        ELSE ReadNext(scan[n - 1], line[n])
  IN  scan

(* The last piece keeps the end of line.                                   *)
tokenize(line) ==
  LET end == Scan(line)[Len(line)]
  IN  IF end.temp = <<>> THEN end.tokens ELSE Append(end.tokens, end.temp)

(* The tokens from the fourth on, each with a space behind it.             *)
Rest(tokens) ==
  LET rest[n \in 0 .. Len(tokens) - 3] ==
        IF n = 0 THEN <<>> ELSE rest[n - 1] \o tokens[3 + n] \o <<Space>>
  IN  rest[Len(tokens) - 3]

(* They become one, single spaces between them.                            *)
joinTokens(tokens) ==
  IF Len(tokens) < 4 THEN tokens
  ELSE SubSeq(tokens, 1, 3) \o <<Front(Rest(tokens))>>

isStrNumber(s) == s # <<>> /\ ToSet(s) \subseteq DOMAIN DigitValue

(* The value of stoi, if it is at most IntMax. *)
stoi(s) ==
  LET value[n \in 0 .. Len(s)] ==
        IF n = 0 THEN 0 ELSE 10 * value[n - 1] + DigitValue[s[n]]
  IN  value[Len(s)]
=============================================================================
