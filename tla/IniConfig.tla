------------------------------ MODULE IniConfig ------------------------------
(***************************************************************************)
(* ini_config (src/ini_config.h): init() reads the configuration file and  *)
(* fills map_ line by line; get_str() and get_int() look a name up.  The   *)
(* helpers are those of StrAlgo.                                           *)
(***************************************************************************)
EXTENDS StrAlgo, SequencesExt

CONSTANTS
  Letters,   \* characters without a meaning to the parser
  IntMax,    \* the largest int (2^31 - 1)
  MaxLength  \* bound: length of the files explored

ASSUME IniAssumption == MaxLength \in Nat /\ IntMax \in Nat

FileChar == Letters \cup {" ", "#", "=", "\n"}
Files == UNION {[1 .. l -> FileChar] : l \in 0 .. MaxLength}

VARIABLES
  stage,    \* read, parse, ready, crashed
  content,  \* the text of the file
  lines,    \* lines, as split_str left them
  next,     \* index of the loop over lines
  map       \* map_: set of records [name, value], one per name

iniVars == <<stage, content, lines, next, map>>

IniInit ==
  /\ stage = "read"
  /\ content \in Files
  /\ lines = <<>> /\ next = 1
  /\ map = {}

\* There is no such file: fseek on the NULL fopen returned.
OpenFails ==
  /\ stage = "read"
  /\ stage' = "crashed"
  /\ UNCHANGED <<content, lines, next, map>>

\* A file that cannot be read completely leaves content empty; init() goes on
\* and succeeds.
Read ==
  /\ stage = "read"
  /\ content' \in {content, <<>>}
  /\ lines' = split_str(content', <<"\n">>)
  /\ stage' = "parse"
  /\ UNCHANGED <<next, map>>

\* Empty lines, comments, and lines without "=".
Ignored(line) ==
  LET nline == trim(line, " ")
  IN  nline = <<>> \/ nline[1] = "#" \/ Find(nline, <<"=">>, 0) < 0

\* Name and value around the first "=".
Definition(line) ==
  LET nline == trim(line, " ")
      pos == Find(nline, <<"=">>, 0)
  IN  [name |-> trim(SubStr(nline, 0, pos), " "),
       value |-> trim(SubStr(nline, pos + 1, Len(nline)), " ")]

\* Faulty variant: a later definition replaces an earlier one.
StoreLast(d) == map' = {e \in map : e.name # d.name} \cup {d}

\* Faulty variant: incomplete definitions are stored.
StoreIncomplete(d) ==
  map' = IF \E e \in map : e.name = d.name THEN map ELSE map \cup {d}

\* A name or a value may not be empty, and a name that is there stays.
Store(d) ==
  map' = IF d.name = <<>> \/ d.value = <<>> \/ \E e \in map : e.name = d.name
         THEN map ELSE map \cup {d}

ParseLine ==
  /\ stage = "parse" /\ next <= Len(lines)
  /\ IF Ignored(lines[next]) THEN UNCHANGED map ELSE Store(Definition(lines[next]))
  /\ next' = next + 1
  /\ UNCHANGED <<stage, content, lines>>

Finish ==
  /\ stage = "parse" /\ next > Len(lines)
  /\ stage' = "ready"
  /\ UNCHANGED <<content, lines, next, map>>

get_str(key) ==
  IF \E e \in map : e.name = key
  THEN (CHOOSE e \in map : e.name = key).value ELSE <<>>

(* std::stoi (external): the sign and the digits a text begins with; what   *)
(* follows them is not looked at.                                           *)

Digits == <<"0", "1", "2", "3", "4", "5", "6", "7", "8", "9">>
IsDigit(c) == \E v \in 0 .. 9 : Digits[v + 1] = c
DigitValue(c) == CHOOSE v \in 0 .. 9 : Digits[v + 1] = c

Unsigned(text) == IF text # <<>> /\ text[1] \in {"-", "+"} THEN Tail(text) ELSE text

Leading10(text) == Min({n \in 0 .. Len(text) : n = Len(text) \/ ~IsDigit(text[n + 1])})

\* The numbers the first n characters spell.
Prefixes10(text) ==
  LET value[n \in 0 .. Len(text)] ==
        IF n = 0 THEN 0 ELSE 10 * value[n - 1] + DigitValue(text[n])
  IN  value

Magnitude(text) == Prefixes10(text)[Leading10(text)]

Spelled(text) ==
  IF text # <<>> /\ text[1] = "-" THEN -Magnitude(Unsigned(text)) ELSE Magnitude(Unsigned(text))

\* It throws when there is no digit, or the number is no int.
Throws(text) ==
  Leading10(Unsigned(text)) = 0 \/ Spelled(text) \notin -IntMax - 1 .. IntMax

\* Faulty variant: a number that is no int is cut off.
get_int_saturated(key) ==
  IF Spelled(get_str(key)) > IntMax THEN IntMax ELSE Spelled(get_str(key))

get_int(key) == IF Throws(get_str(key)) THEN 0 ELSE Spelled(get_str(key))

IniOver == stage \in {"ready", "crashed"} /\ UNCHANGED iniVars

IniNext == OpenFails \/ Read \/ ParseLine \/ Finish \/ IniOver

IniSpec == IniInit /\ [][IniNext]_iniVars

-----------------------------------------------------------------------------
(* Properties *)

\* Every variable holds a value of its type.
IniTypeOK ==
  /\ stage \in {"read", "parse", "ready", "crashed"}
  /\ content \in Seq(FileChar)
  /\ lines \in Seq(Seq(FileChar))
  /\ next \in 1 .. Len(lines) + 1
  /\ map \subseteq [name : Seq(FileChar) \ {<<>>}, value : Seq(FileChar) \ {<<>>}]

\* The lines put together again are the file: no character is lost,
\* duplicated or moved into another line, whatever the places of the
\* newlines.  Only an empty first line is dropped (split_str).
Joined[k \in 1 .. Len(lines)] ==
  IF k = 1 THEN lines[1] ELSE Joined[k - 1] \o <<"\n">> \o lines[k]

SplitKeepsText ==
  stage \in {"parse", "ready"} =>
    IF lines = <<>> THEN content = <<>>
    ELSE content \in {Joined[Len(lines)], <<"\n">> \o Joined[Len(lines)]}

\* What the file says, read off its text without splitting it.
LineSpans ==
  {l \in (1 .. Len(content)) \X (1 .. Len(content)) :
     /\ l[1] = 1 \/ content[l[1] - 1] = "\n"
     /\ l[2] = Len(content) \/ content[l[2] + 1] = "\n"
     /\ \A p \in l[1] .. l[2] : content[p] # "\n"}

EqualSigns(l) == {p \in l[1] .. l[2] : content[p] = "="}
InkOf(l) == {p \in l[1] .. l[2] : content[p] # " "}

Definitions ==
  {[at |-> l[1],
    name |-> trim(SubSeq(content, l[1], Min(EqualSigns(l)) - 1), " "),
    value |-> trim(SubSeq(content, Min(EqualSigns(l)) + 1, l[2]), " ")] :
   l \in {k \in LineSpans : EqualSigns(k) # {} /\ content[Min(InkOf(k))] # "#"}}

Complete == {d \in Definitions : d.name # <<>> /\ d.value # <<>>}

\* What the first complete definition of a name gives it.
Defined(name) ==
  LET of == {d \in Complete : d.name = name}
  IN  IF of = {} THEN <<>>
      ELSE (CHOOSE d \in of : \A e \in of : d.at <= e.at).value

\* After init(), get_str() returns for every name the value its first complete
\* definition in the file gives it, and nothing for any other name: comments,
\* blank lines, lines without "=" and incomplete definitions neither define a
\* name nor hide a definition (init, get_str).
FirstDefinitionWins ==
  stage = "ready" =>
    \A name \in {d.name : d \in Complete \cup map} : get_str(name) = Defined(name)

\* How an int but 0 may be written, and the ints a text begins with.
Numeral[n \in Nat] ==
  (IF n < 10 THEN <<>> ELSE Numeral[n \div 10]) \o <<Digits[(n % 10) + 1]>>

Signs(n) == IF n < 0 THEN {<<"-">>} ELSE {<<>>, <<"+">>}
Zeros(l) == [i \in 1 .. l |-> "0"]

BeginsWith(text, n) ==
  \E sign \in Signs(n), l \in 0 .. Len(text) :
    LET w == sign \o Zeros(l) \o Numeral[IF n < 0 THEN -n ELSE n] IN
    /\ IsPrefix(w, text)
    /\ Len(text) = Len(w) \/ ~IsDigit(text[Len(w) + 1])

\* The number main() connects to as a port is the one the first complete
\* definition begins with, and 0 when it begins with none or with one that is
\* no int: nothing of another line gets into it, and it is neither wrapped nor
\* cut off (init, get_int).
PortIsConfigured ==
  stage = "ready" =>
    \A e \in map :
      LET ints == {n \in (-IntMax - 1 .. IntMax) \ {0} : BeginsWith(Defined(e.name), n)}
      IN  ints = IF get_int(e.name) = 0 THEN {} ELSE {get_int(e.name)}
=============================================================================
