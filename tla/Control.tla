------------------------------- MODULE Control -------------------------------
(* The fields of a package on their way from the control file of a .deb to the *)
(* Packages index: read line by line, kept as values, written out again as a   *)
(* stanza.  A line is a key (or None), the spaces it begins with and what      *)
(* follows, of which it matters only whether it is empty or a dot.             *)
EXTENDS Naturals, SequencesExt

CONSTANTS
    FieldOrder,     \* CONTROL_FIELDS: the fields that are copied, in order
    Required,       \* those without which a package is refused
    OtherField,     \* fields that are not copied
    Word,           \* texts without a line break, "" and "." apart
    MaxPad,         \* bound on the leading spaces of a line
    MaxLines,       \* bound on the lines of a control file
    None            \* no key, no value, no stanza

VARIABLES
    control,     \* lines of the control file in the .deb
    row,         \* control_json of the package's row: lines of each field's value
    stanza       \* lines of the package's stanza in the index

vars == <<control, row, stanza>>

Field == Range(FieldOrder) \cup OtherField
Text == [pad : 0 .. MaxPad, word : Word \cup {"", "."}]
Line == [key : Field \cup {None}, text : Text]
Blank == [pad |-> 0, word |-> ""]

IsField(l) == l.key # None
IsBlank(l) == ~IsField(l) /\ l.text = Blank
IsContinuation(l) == ~IsField(l) /\ l.text.pad > 0

-----------------------------------------------------------------------------
(* _parse_control_text.                                                        *)

\* A continuation line without its first space; a dot stands for an empty line.
Unfolded(text) ==
    LET rest == [text EXCEPT !.pad = @ - 1]
    IN IF rest = [pad |-> 0, word |-> "."] THEN Blank ELSE rest

\* rstrip: empty lines at the end of a value are dropped.
Stripped(buf) == SubSeq(buf, 1, SelectLastInSeq(buf, LAMBDA text : text # Blank))

\* The field under way replaces an earlier one of its name.
Flushed(st) ==
    IF st.current = None THEN st.fields
    ELSE [st.fields EXCEPT ![st.current] = Stripped(st.buf)]

Started == [ok |-> TRUE, current |-> None, buf |-> <<>>, fields |-> [k \in Field |-> <<>>]]

ReadLine(st, l) ==
    IF ~st.ok \/ IsBlank(l) THEN st
    ELSE IF IsField(l)
         THEN [st EXCEPT !.fields = Flushed(st), !.current = l.key,
                         !.buf = <<[l.text EXCEPT !.pad = 0]>>]
    ELSE IF IsContinuation(l) /\ st.current # None
         THEN [st EXCEPT !.buf = Append(@, Unfolded(l.text))]
    ELSE [st EXCEPT !.ok = FALSE]

_parse_control_text(lines) ==
    LET end == FoldLeft(ReadLine, Started, lines)
    IN [end EXCEPT !.fields = Flushed(end)]

-----------------------------------------------------------------------------
(* parse_deb, render_packages.                                                 *)

Init ==
    /\ control \in BoundedSeq(Line, MaxLines)
    /\ row = None
    /\ stanza = None

\* The package is refused if the file does not parse or a required field is
\* missing or no name; otherwise the whitelisted fields are stored.
parse_deb ==
    /\ row = None
    /\ LET parsed == _parse_control_text(control)
       IN /\ parsed.ok
          /\ \A k \in Required : \E w \in Word : parsed.fields[k] = <<[pad |-> 0, word |-> w]>>
          /\ row' = [k \in Range(FieldOrder) |-> parsed.fields[k]]
    /\ UNCHANGED <<control, stanza>>

Refold(text) ==
    IF text = Blank THEN [pad |-> 1, word |-> "."]
    ELSE IF text.pad > 0 THEN text
    ELSE [text EXCEPT !.pad = 1]

_format_field(k, value) ==
    [n \in DOMAIN value |->
        IF n = 1 THEN [key |-> k, text |-> value[1]]
        ELSE [key |-> None, text |-> Refold(value[n])]]

\* A field without a value is left out.
render_packages ==
    /\ row # None /\ stanza = None
    /\ stanza' = FlattenSeq([n \in DOMAIN FieldOrder |->
                                _format_field(FieldOrder[n], row[FieldOrder[n]])])
    /\ UNCHANGED <<control, row>>

Next == parse_deb \/ render_packages

Spec == Init /\ [][Next]_vars

-----------------------------------------------------------------------------
(* Correctness.  Debian Policy 5.1 says what lines mean, to the readers of the *)
(* control file as to those of the index.                                      *)

\* Every field once and with a value, no empty lines, and a value does not end
\* in a line that stands for an empty one.
WellFormed(lines) ==
    /\ lines # <<>> => IsField(lines[1])
    /\ \A n \in DOMAIN lines : lines[n].text.word # ""
    /\ \A n \in DOMAIN lines : IsField(lines[n]) \/ IsContinuation(lines[n])
    /\ \A m, n \in DOMAIN lines : lines[m].key = lines[n].key => m = n \/ ~IsField(lines[m])
    /\ \A n \in DOMAIN lines :
          ~IsField(lines[n]) /\ lines[n].text = [pad |-> 1, word |-> "."] =>
              n < Len(lines) /\ ~IsField(lines[n + 1])

\* The lines of a field by their distance from its key; the spaces after the
\* colon do not count.
Content(l) == IF IsField(l) THEN [l.text EXCEPT !.pad = 0] ELSE l.text

Value(lines, k) ==
    {<<n - m, Content(lines[n])>> : <<m, n>> \in
        {p \in (DOMAIN lines) \X (DOMAIN lines) :
            /\ p[1] <= p[2] /\ lines[p[1]].key = k
            /\ \A j \in p[1] + 1 .. p[2] : ~IsField(lines[j])}}

\* DESIGN, "Packages": the whitelisted fields are copied from the control file,
\* Description with its continuation lines.  So a reader of the index finds what
\* a reader of the .deb finds: text that is to be shown verbatim, in lines that
\* begin with two spaces, included.
FieldsCopied ==
    stanza # None /\ WellFormed(control) =>
        \A k \in Range(FieldOrder) : Value(stanza, k) = Value(control, k)
=============================================================================
