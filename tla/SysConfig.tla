----------------------------- MODULE SysConfig -----------------------------
(***************************************************************************)
(* CSysConfig of src/src/sysconfig.cpp and the split of                    *)
(* src/include/StringUtils.h: what a configuration file says.              *)
(*                                                                         *)
(* A file is the sequence of its lines, each with the key in front of its  *)
(* first "=" and the word behind it.  ReadFile skips comments and empty    *)
(* lines; a line that starts with "=" repeats the key of the line before   *)
(* it, which changes nothing.  A key counts as it stands in the file: one  *)
(* with a blank behind it is another key.  A word is a sequence of         *)
(* symbols, of which only the bar is told apart.  The numbers and names    *)
(* that other modules have as constants (loglevel, port, poolsize, Kafka's *)
(* host and topic) are keys like any other.                                *)
(***************************************************************************)
EXTENDS Integers, SequencesExt, FiniteSets

Skip == "#"
Bar  == "|"

Lines(file)    == {n \in DOMAIN file : file[n].key # Skip}
LinesOf(file, key) == {n \in Lines(file) : file[n].key = key}

\* The map ReadFile fills: insert keeps what is there, so the first line of a
\* key counts.
ReadFile(file) ==
  [key \in {file[n].key : n \in Lines(file)} |-> file[Min(LinesOf(file, key))].value]

\* The fields that end with a bar, empty ones among them.
Bars(str)      == {i \in DOMAIN str : str[i] = Bar}
NthBar(str, n) == CHOOSE i \in Bars(str) : Cardinality({j \in Bars(str) : j <= i}) = n
Fields(str)    ==
  [n \in 1 .. Cardinality(Bars(str)) |->
     SubSeq(str, IF n = 1 THEN 1 ELSE NthBar(str, n - 1) + 1, NthBar(str, n) - 1)]

\* StringUtils::split: a bar is added to the end.  The mutant forgets it.
Split_Unterminated(str) == Fields(str)
Split(str) == Fields(Append(str, Bar))

\* CSysConfig::Init: devs stays empty when no line has the key, daemon 0.
Devs(file) ==
  LET map == ReadFile(file) IN IF "dev" \in DOMAIN map THEN Split(map["dev"]) ELSE <<>>

\* The symbols that stand for a number other than 0: atoi reads the number a word
\* begins with, and 0 when it begins with none.
Numbers == {"-1", "1", "2"}

Daemon(file) ==
  LET map == ReadFile(file)
  IN  /\ "daemon" \in DOMAIN map /\ map["daemon"] # <<>>
      /\ Head(map["daemon"]) \in Numbers
=============================================================================
