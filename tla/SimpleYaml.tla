----------------------------- MODULE SimpleYaml -----------------------------
(***************************************************************************)
(* The parser of openkedge.config.yaml (cli/utils/loader.ts,               *)
(* parseSimpleYaml), one line at a time.  Of a line only its indent and    *)
(* whether it opens a section are kept, of the result the section each     *)
(* line ends up in: 0 is the document.                                     *)
(***************************************************************************)
EXTENDS Integers, Sequences, FiniteSetsExt, SequencesExt

CONSTANTS Indents, MaxLines

VARIABLES lines,        \* the lines read so far: [indent, section]
          stack,        \* the open sections, innermost last
          parent        \* the section each line was put into

vars == <<lines, stack, parent>>

Init == lines = <<>> /\ stack = <<[line |-> 0, indent |-> -1]>> /\ parent = <<>>

(* Sections are closed from the inside until one is left that is less      *)
(* indented than the line; the document stays.                             *)
Closed(indent) ==
  SubSeq(stack, 1, Max({n \in DOMAIN stack : n = 1 \/ stack[n].indent < indent}))

ParseLine(line) ==
  LET open == Closed(line.indent) IN
    /\ Len(lines) < MaxLines
    /\ lines' = Append(lines, line)
    /\ parent' = Append(parent, Last(open).line)
    /\ stack' = IF line.section
                  THEN Append(open, [line |-> Len(lines) + 1, indent |-> line.indent])
                  ELSE open

Next == \E line \in [indent : Indents, section : BOOLEAN] : ParseLine(line)

Spec == Init /\ [][Next]_vars

-----------------------------------------------------------------------------
(* The section a line belongs to by its indent: the last one above it that *)
(* is less indented, and that no line in between has closed.               *)
Encloses(s, n) ==
  /\ lines[s].section
  /\ \A i \in s + 1 .. n : lines[i].indent > lines[s].indent
Section(n) == Max({0} \cup {s \in 1 .. n - 1 : Encloses(s, n)})

(* Every line is put into the section its indent says (loader.ts:222-235). *)
LinesAreWhereTheyBelong == \A n \in DOMAIN lines : parent[n] = Section(n)
=============================================================================
