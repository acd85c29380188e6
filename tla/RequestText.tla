----------------------------- MODULE RequestText -----------------------------
(***************************************************************************)
(* The text formats of src/src/web/utility.hpp: query strings, attribute   *)
(* lists, and the head of a request, read by loops over positions.         *)
(*                                                                         *)
(* A text is a sequence of characters.  Only the characters that the code  *)
(* tells apart are told apart: "x" stands for any other unreserved one,    *)
(* "HTTP" for that word.  Hexadecimal digits are scaled to base 4, so that *)
(* 16 characters have two digits.  Positions count from 1, and 0 stands    *)
(* for std::string::npos.  The functions are noexcept, but for that of the *)
(* attributes: a substr behind the end of its string would end the program.*)
(***************************************************************************)
EXTENDS Integers, Sequences, SequencesExt

CONSTANTS Texts,       \* texts of any form
          Queries,     \* lists of fields, from which a query string is made
          Attributes,  \* lists of attributes, as a header field has them
          Heads        \* heads of requests

Digit    == <<"0", "1", "2", "3">>
Reserved == <<"%", "+", "&", "=", ";", "quote", " ", "?", "/", ":">>
Alphabet == Digit \o <<"x">> \o Reserved \o <<"HTTP">>
Char     == ToSet(Alphabet)

(***************************************************************************)
(* What a client must keep to: only values are escaped.  A name, and every *)
(* part of a head, is written as it is and must not hold the characters    *)
(* that end it; a value without quotes is not empty, and one in a header   *)
(* does not begin with a blank.                                            *)
(***************************************************************************)
Without(chars) == Seq(Char \ chars)

QueryFields ==
    [name : Without({"&", "="}) \ {<< >>}, value : Seq(Char)]

AttributeNames == {s \in Without({";", "="}) : s # << >> /\ s[1] # " "}

AttributeForms ==
    [name : AttributeNames, style : {"bare"},   value : {<< >>}] \cup
    [name : AttributeNames, style : {"token"},  value : Seq(Char) \ {<< >>}] \cup
    [name : AttributeNames, style : {"quoted"}, value : Seq(Char)]

HeaderFields ==
    [name : Without({":"}), value : {s \in Seq(Char) : s # << >> => s[1] # " "}]

HeadForms ==
    [method : Without({" "}), path : Without({" ", "?"}), query : Without({" "}),
     version : Seq(Char), fields : Seq(HeaderFields)]

ASSUME FormsAssumption ==
    /\ \A fields \in Queries : fields \in Seq(QueryFields)
    /\ \A attributes \in Attributes : attributes \in Seq(AttributeForms)
    /\ \A head \in Heads : head \in HeadForms

NPos == 0

VARIABLES
    job,         \* which function runs: "query", "attributes", "head"
    given,       \* what the text was made from, << >> if it is any text
    lines,       \* the lines that are left in the stream
    text,        \* the string that is scanned
    c,           \* the position of the loop
    nameStart, nameEnd, valueStart,    \* name_pos, name_end_pos, value_pos
    line,        \* the parts of the request line, NoLine if not yet read
    result       \* the multimap, in the order of its emplacements

scan == <<c, nameStart, nameEnd, valueStart>>
vars == <<job, given, lines, text, scan, line, result>>

Field(name, value) == [name |-> name, value |-> value]

NoLine == << >>

-----------------------------------------------------------------------------
(* Percent *)

Code(char)  == CHOOSE n \in 0 .. 15 : Alphabet[n + 1] = char
IsDigit(char) == char \in ToSet(Digit)

Unreserved(char) == char = "x" \/ IsDigit(char)

Encode(value) ==
    LET Escape(char) == IF Unreserved(char) THEN <<char>>
                        ELSE <<"%", Digit[(Code(char) \div 4) + 1], Digit[(Code(char) % 4) + 1]>>
    IN  FlattenSeq([i \in 1 .. Len(value) |-> Escape(value[i])])

(***************************************************************************)
(* strtol of two characters: it skips a blank or a sign and stops at the   *)
(* first that is no digit; without any digit it returns 0.                 *)
(***************************************************************************)
Strtol(high, low) ==
    CASE IsDigit(high) /\ IsDigit(low) -> 4 * Code(high) + Code(low)
      [] IsDigit(high) /\ ~IsDigit(low) -> Code(high)
      [] high \in {" ", "+"} /\ IsDigit(low) -> Code(low)
      [] OTHER -> 0

DecodeWithin(value) ==    \* faulty: an escape at the end is left as it is
    LET from[i \in 1 .. Len(value) + 1] ==
            IF i > Len(value) THEN << >>
            ELSE IF value[i] = "%" /\ i + 2 < Len(value)
            THEN <<Alphabet[Strtol(value[i + 1], value[i + 2]) + 1]>> \o from[i + 3]
            ELSE <<IF value[i] = "+" THEN " " ELSE value[i]>> \o from[i + 1]
    IN  from[1]

Decode(value) ==
    LET from[i \in 1 .. Len(value) + 1] ==
            IF i > Len(value) THEN << >>
            ELSE IF value[i] = "%" /\ i + 2 <= Len(value)
            THEN <<Alphabet[Strtol(value[i + 1], value[i + 2]) + 1]>> \o from[i + 3]
            ELSE <<IF value[i] = "+" THEN " " ELSE value[i]>> \o from[i + 1]
    IN  from[1]

(***************************************************************************)
(* QueryString::create                                                     *)
(***************************************************************************)
CreateQuery(fields) ==
    LET Entry(i) == (IF i = 1 THEN << >> ELSE <<"&">>)
                       \o fields[i].name \o <<"=">> \o Encode(fields[i].value)
    IN  FlattenSeq([i \in 1 .. Len(fields) |-> Entry(i)])

-----------------------------------------------------------------------------
(* What clients write: attributes, and the head of a request *)

WriteAttributes(attributes) ==
    LET Value(a) == CASE a.style = "bare" -> << >>
                      [] a.style = "token" -> <<"=">> \o Encode(a.value)
                      [] a.style = "quoted" ->
                           <<"=", "quote">> \o Encode(a.value) \o <<"quote">>
        Entry(i) == (IF i = 1 THEN << >> ELSE <<";", " ">>)
                       \o attributes[i].name \o Value(attributes[i])
    IN  FlattenSeq([i \in 1 .. Len(attributes) |-> Entry(i)])

(***************************************************************************)
(* Lines end with CR, and getline has taken the LF away.                   *)
(***************************************************************************)
WriteHead(head) ==
    <<head.method \o <<" ">> \o head.path
        \o (IF head.query = << >> THEN << >> ELSE <<"?">> \o head.query)
        \o <<" ", "HTTP", "/">> \o head.version \o <<"CR">> >>
    \o [i \in 1 .. Len(head.fields) |->
            head.fields[i].name \o <<":", " ">> \o head.fields[i].value \o <<"CR">>]
    \o << <<"CR">> >>

-----------------------------------------------------------------------------

Init ==
    /\ \/ job = "query" /\ given \in Queries /\ text = CreateQuery(given) /\ lines = << >>
       \/ job = "attributes" /\ given \in Attributes /\ text = WriteAttributes(given) /\ lines = << >>
       \/ job \in {"query", "attributes"} /\ given = << >> /\ text \in Texts /\ lines = << >>
       \/ job = "head" /\ given \in Heads /\ text = << >> /\ lines = WriteHead(given)
       \/ job = "head" /\ given = << >> /\ text = << >> /\ \E t \in Texts : lines = <<t, t>>
    /\ c = 1
    /\ nameStart = IF job = "query" THEN 1 ELSE NPos
    /\ nameEnd = NPos
    /\ valueStart = NPos
    /\ line = NoLine
    /\ result = << >>

Emplace(name, value) == result' = Append(result, Field(name, value))

(***************************************************************************)
(* substr from one position to before another; npos stands for the end     *)
(***************************************************************************)
Substr(from, before) ==
    SubSeq(text, from, IF before = NPos THEN Len(text) ELSE before - 1)

ForgetValue == UNCHANGED nameEnd /\ valueStart' = NPos    \* faulty: name_end_pos is kept

Forget == nameEnd' = NPos /\ valueStart' = NPos

-----------------------------------------------------------------------------
(* QueryString::parse: one pass of the loop, and what follows it *)

EmplaceQuery(before) ==
    LET name == Substr(nameStart, IF nameEnd = NPos THEN before ELSE nameEnd)
    IN  IF name = << >> THEN UNCHANGED result
        ELSE Emplace(name, IF valueStart = NPos THEN << >>
                           ELSE Decode(Substr(valueStart, before)))

QueryScan ==
    /\ job = "query"
    /\ c <= Len(text)
    /\ c' = c + 1
    /\ \/ /\ text[c] = "&"
          /\ EmplaceQuery(c)
          /\ nameStart' = c + 1
          /\ Forget
       \/ /\ text[c] = "=" /\ nameEnd = NPos
          /\ nameEnd' = c
          /\ valueStart' = c + 1
          /\ UNCHANGED <<nameStart, result>>
       \/ /\ text[c] # "&"
          /\ text[c] = "=" => nameEnd # NPos
          /\ UNCHANGED <<nameStart, nameEnd, valueStart, result>>
    /\ UNCHANGED <<job, given, lines, text, line>>

Finish == c' = c + 1    \* the function returns

QueryEnd ==
    /\ job = "query"
    /\ c = Len(text) + 1
    /\ IF nameStart <= Len(text) THEN EmplaceQuery(NPos) ELSE UNCHANGED result
    /\ Finish
    /\ UNCHANGED <<job, given, lines, text, nameStart, nameEnd, valueStart, line>>

-----------------------------------------------------------------------------
(* SemicolonSeparatedAttributes::parse: one pass of the loop, and its end *)

StartName ==
    /\ nameStart = NPos
    /\ nameStart' = IF text[c] \in {" ", ";"} THEN NPos ELSE c
    /\ UNCHANGED <<nameEnd, valueStart, result>>

ReadName ==
    /\ nameStart # NPos
    /\ nameEnd = NPos
    /\ \/ /\ text[c] = ";"
          /\ Emplace(Substr(nameStart, c), << >>)
          /\ nameStart' = NPos
          /\ UNCHANGED nameEnd
       \/ /\ text[c] # ";"
          /\ nameEnd' = IF text[c] = "=" THEN c ELSE NPos
          /\ UNCHANGED <<nameStart, result>>
    /\ UNCHANGED valueStart

StartValue ==
    /\ nameEnd # NPos
    /\ valueStart = NPos
    /\ valueStart' = IF text[c] = "quote" /\ c < Len(text) THEN c + 1 ELSE c
    /\ UNCHANGED <<nameStart, nameEnd, result>>

ReadValue ==
    /\ valueStart # NPos
    /\ \/ /\ text[c] \in {"quote", ";"}
          /\ Emplace(Substr(nameStart, nameEnd), Decode(Substr(valueStart, c)))
          /\ nameStart' = NPos
          /\ Forget
       \/ /\ text[c] \notin {"quote", ";"}
          /\ UNCHANGED <<nameStart, nameEnd, valueStart, result>>

AttributesScan ==
    /\ job = "attributes"
    /\ c <= Len(text)
    /\ c' = c + 1
    /\ StartName \/ ReadName \/ StartValue \/ ReadValue
    /\ UNCHANGED <<job, given, lines, text, line>>

(***************************************************************************)
(* What the text ends with.  A name with `=' and nothing behind it is not  *)
(* emplaced.  The branch for a closing quote takes one that opens a value. *)
(***************************************************************************)
AttributesEnd ==
    /\ job = "attributes"
    /\ c = Len(text) + 1
    /\ CASE nameStart # NPos /\ nameEnd = NPos -> Emplace(Substr(nameStart, NPos), << >>)
         [] nameStart # NPos /\ nameEnd # NPos /\ valueStart # NPos ->
              Emplace(Substr(nameStart, nameEnd), Decode(Substr(valueStart, NPos)))
         [] OTHER -> UNCHANGED result
    /\ Finish
    /\ UNCHANGED <<job, given, lines, text, nameStart, nameEnd, valueStart, line>>

-----------------------------------------------------------------------------
(* RequestMessage::parse and HttpHeader::parse: a line at a time *)

(***************************************************************************)
(* std::string::find: the first position of a character, or npos           *)
(***************************************************************************)
Find(s, char, from) ==
    LET at == {i \in from .. Len(s) : s[i] = char}
    IN  IF at = {} THEN NPos ELSE CHOOSE i \in at : \A j \in at : i <= j

Refused == [ok |-> FALSE]

(***************************************************************************)
(* The path ends at the second blank; a query starts behind the first `?'  *)
(* before it; the protocol is what stands before the next `/'.  The last   *)
(* character of the line, taken for CR, is cut off from the version.       *)
(***************************************************************************)
RequestLine(s) ==
    LET methodEnd == Find(s, " ", 1)
        pathEnd   == Find(s, " ", methodEnd + 1)
        mark      == Find(SubSeq(s, 1, pathEnd - 1), "?", methodEnd + 1)
        slash     == Find(s, "/", pathEnd + 1)
    IN  IF \/ methodEnd = NPos \/ pathEnd = NPos \/ slash = NPos
           \/ SubSeq(s, pathEnd + 1, slash - 1) # <<"HTTP">>
        THEN Refused
        ELSE [ok      |-> TRUE,
              method  |-> SubSeq(s, 1, methodEnd - 1),
              path    |-> SubSeq(s, methodEnd + 1, (IF mark = NPos THEN pathEnd ELSE mark) - 1),
              query   |-> IF mark = NPos THEN << >> ELSE SubSeq(s, mark + 1, pathEnd - 1),
              version |-> SubSeq(s, slash + 1, Len(s) - 1)]

ReadRequestLine ==
    /\ job = "head"
    /\ line = NoLine
    /\ line' = RequestLine(Head(lines))
    /\ lines' = IF line'.ok THEN Tail(lines) ELSE << >>
    /\ UNCHANGED <<job, given, text, scan, result>>

(***************************************************************************)
(* The value starts behind the colon and blanks; a blank that ends the     *)
(* line is kept, and so is a value of it.                                  *)
(***************************************************************************)
ValueStart(s, colon) ==
    CHOOSE i \in colon + 1 .. Len(s) + 1 :
        /\ \A j \in colon + 1 .. i - 1 : s[j] = " "
        /\ i >= Len(s) \/ s[i] # " "

ReadHeaderLine ==
    /\ job = "head"
    /\ line # NoLine
    /\ lines # << >>
    /\ LET s     == Head(lines)
           colon == Find(s, ":", 1)
           value == ValueStart(s, colon)
       IN  \/ /\ colon = NPos           \* ends the header
              /\ lines' = << >>
              /\ UNCHANGED result
           \/ /\ colon # NPos
              /\ lines' = Tail(lines)
              /\ IF value <= Len(s)
                 THEN Emplace(SubSeq(s, 1, colon - 1),
                              SubSeq(s, value, IF Last(s) = "CR" THEN Len(s) - 1 ELSE Len(s)))
                 ELSE UNCHANGED result
    /\ UNCHANGED <<job, given, text, scan, line>>

-----------------------------------------------------------------------------

Next ==
    \/ QueryScan
    \/ QueryEnd
    \/ AttributesScan
    \/ AttributesEnd
    \/ ReadRequestLine
    \/ ReadHeaderLine

Spec == Init /\ [][Next]_vars

-----------------------------------------------------------------------------

(***************************************************************************)
(* Whatever the text is, the positions of the loops stay in order: a name  *)
(* starts where or before it ends, its value behind that, and neither is   *)
(* ahead of the loop.  So no substr starts behind the end of its string,   *)
(* which in a noexcept function would end the program, and no length       *)
(* (name_end_pos - name_pos, c - value_pos) wraps around.                  *)
(***************************************************************************)
PositionsInOrder ==
    /\ nameStart # NPos => nameStart <= c
    /\ nameEnd # NPos => NPos < nameStart /\ nameStart <= nameEnd /\ nameEnd < c
    /\ valueStart # NPos => NPos < nameEnd /\ nameEnd < valueStart /\ valueStart <= c

Done == IF job = "head" THEN line # NoLine /\ lines = << >> ELSE c = Len(text) + 2

(***************************************************************************)
(* What was written is read back, each part in its place and in order:     *)
(* fields with values of any characters by QueryString::parse after        *)
(* QueryString::create ("Returns query keys with percent-decoded values"), *)
(* attributes by SemicolonSeparatedAttributes::parse, and method, path,    *)
(* query, version and header fields by RequestMessage::parse.              *)
(***************************************************************************)
ReadBack ==
    Done /\ given # << >> =>
        IF job = "head"
        THEN /\ line = [ok |-> TRUE, method |-> given.method, path |-> given.path,
                        query |-> given.query, version |-> given.version]
             /\ result = given.fields
        ELSE result = [i \in 1 .. Len(given) |-> Field(given[i].name, given[i].value)]
=============================================================================
