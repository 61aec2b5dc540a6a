------------------------------- MODULE AuthFile -------------------------------
(***************************************************************************)
(* The text file in which the authentication server keeps its records       *)
(* (ManagerAuthDBProcess and FranchiseAuthDBProcess, which differ in one     *)
(* field).  A file is the sequence of what was written to it: records, line  *)
(* feeds and carriage returns.  A record is its id and the digest of its     *)
(* password; equal digests mean equal passwords, the salt belongs to the     *)
(* record.                                                                   *)
(***************************************************************************)
EXTENDS Naturals, SequencesExt

CONSTANTS Ids, Psws,
          Platform,   \* what os.name starts with
          NoFile      \* the file does not exist

LF == [t |-> "lf"]
CR == [t |-> "cr"]
Record(id, psw) == [t |-> "rec", id |-> id, psw |-> psw]
Records == {Record(id, psw) : id \in Ids, psw \in Psws}
Tokens == Records \cup {LF, CR}
Files == Seq(Tokens) \cup {NoFile}

AuthFileAssumption == /\ Platform \in {"windows", "linux", "other"}
                      /\ NoFile \notin Seq(Tokens)
ASSUME AuthFileAssumption

RecordsIn(file) == IF file = NoFile THEN {} ELSE Records \cap Range(file)

-----------------------------------------------------------------------------
(* Reading: BufferedReader.readLine ends a line at \n, \r or \r\n.           *)

EndLine(s, skip) == [lines |-> Append(s.lines, s.line), line |-> <<>>, skip |-> skip]

ReadToken(s, token) ==
    CASE token = CR -> EndLine(s, TRUE)
      [] token = LF -> IF s.skip THEN [s EXCEPT !.skip = FALSE] ELSE EndLine(s, FALSE)
      [] OTHER -> [s EXCEPT !.line = Append(@, token), !.skip = FALSE]

\* The reader after each token of a file.
Reading(file) ==
    LET s[i \in 0 .. Len(file)] ==
            IF i = 0 THEN [lines |-> <<>>, line |-> <<>>, skip |-> FALSE]
            ELSE ReadToken(s[i - 1], file[i])
    IN  s

Lines(file) ==
    LET s == Reading(file)[Len(file)]
    IN  IF s.line = <<>> THEN s.lines ELSE Append(s.lines, s.line)

\* The fields of a line are those of its first record: what was appended
\* without a separator hides in the last field.
Blank(line) == line = <<>>
HasId(line, id) == ~Blank(line) /\ line[1].id = id

\* The first line that ends the loop over the lines: nextToken throws on an
\* empty one.
StopsAt(lines, id) == {i \in DOMAIN lines :
                          /\ Blank(lines[i]) \/ HasId(lines[i], id)
                          /\ \A j \in 1 .. i - 1 : ~Blank(lines[j]) /\ ~HasId(lines[j], id)}

\* ManagerAuthDBGetProcess: the record, or how the search ended without one.
Get(file, id) ==
    IF file = NoFile THEN [end |-> "null"]
    ELSE LET lines == Lines(file)
             stop == StopsAt(lines, id)
         IN  IF stop = {} THEN [end |-> "0x6011"]
             ELSE LET line == lines[CHOOSE i \in stop : TRUE]
                  IN  IF Blank(line) THEN [end |-> "exception"]
                      ELSE [end |-> "0x6010", rec |-> line[1]]

\* ManagerAuthDBSearchProcess
Search(file, id) == Get(file, id).end

-----------------------------------------------------------------------------
(* Writing                                                                   *)

\* A mistaken separator: that of Linux everywhere.
SeparatorOfLinux == <<LF, CR>>

Separator == CASE Platform = "windows" -> <<LF>>
               [] Platform = "linux" -> <<LF, CR>>
               [] OTHER -> <<>>

LineSeparator == IF Platform = "windows" THEN <<CR, LF>> ELSE <<LF>>

\* FileWriter(file, true) creates a file that is not there.
AppendTo(file, tokens) == IF file = NoFile THEN tokens ELSE file \o tokens

\* The rewrite prints the lines of all other ids, up to an empty line, which
\* throws.
CanCopy(file) == \A i \in DOMAIN Lines(file) : ~Blank(Lines(file)[i])

\* What was printed after each line.
Copying(lines, id) ==
    LET out[i \in 0 .. Len(lines)] ==
            IF i = 0 THEN <<>>
            ELSE IF HasId(lines[i], id) \/ \E j \in 1 .. i : Blank(lines[j]) THEN out[i - 1]
            ELSE out[i - 1] \o lines[i] \o LineSeparator
    IN  out

\* A mistaken rewrite: it stops before the last line.
CopyWithoutLast(file, id) ==
    LET lines == Lines(file)
    IN  Copying(lines, id)[IF lines = <<>> THEN 0 ELSE Len(lines) - 1]

CopyWithout(file, id) == Copying(Lines(file), id)[Len(Lines(file))]

\* On Windows a rename does not replace a file.
Renames(from, to) == from # NoFile /\ (Platform = "windows" => to = NoFile)
=============================================================================
