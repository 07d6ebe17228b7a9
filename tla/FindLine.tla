------------------------------ MODULE FindLine ------------------------------
(***************************************************************************)
(* findLine (src/scen/interp.go:551-567): Scenario.Load calls it with the  *)
(* scenario file and the Offset of a json.SyntaxError to report where the   *)
(* syntax error is. The loop reads pos bytes from a bytes.Buffer, counting  *)
(* lines and columns. A byte is abstracted to a newline or any other byte.  *)
(***************************************************************************)
EXTENDS Naturals, Sequences, SequencesExt

CONSTANT MaxLen   \* longest file

Bytes == {"nl", "ch"}

VARIABLES
    data,   \* the file contents
    pos,    \* serr.Offset: the error happened after reading pos bytes
    n,      \* the loop counter: bytes read so far
    line,   \* the named results
    col,
    pc      \* "loop", "done" or "panic" (ReadByte returned io.EOF)

vars == <<data, pos, n, line, col, pc>>

\* findLine without its line = 1.
InitLineZero ==
    /\ data \in BoundedSeq(Bytes, MaxLen)
    /\ pos \in 0..Len(data)
    /\ n = 0 /\ line = 0 /\ col = 0 /\ pc = "loop"

\* A SyntaxError's Offset never lies beyond the data it was found in.
Init ==
    /\ data \in BoundedSeq(Bytes, MaxLen)
    /\ pos \in 0..Len(data)
    /\ n = 0 /\ line = 1 /\ col = 0 /\ pc = "loop"

\* The loop condition.
InLoop == n < pos

\* One iteration: b, err := buf.ReadByte(); a newline starts a new line at
\* column 1, any other byte moves one column on.
Step ==
    /\ pc = "loop" /\ InLoop
    /\ IF n >= Len(data)
       THEN pc' = "panic" /\ UNCHANGED <<n, line, col>>
       ELSE /\ IF data[n + 1] = "nl"
               THEN line' = line + 1 /\ col' = 1
               ELSE col' = col + 1 /\ UNCHANGED line
            /\ n' = n + 1 /\ UNCHANGED pc
    /\ UNCHANGED <<data, pos>>

Return ==
    /\ pc = "loop" /\ ~InLoop
    /\ pc' = "done"
    /\ UNCHANGED <<data, pos, n, line, col>>

Next == Step \/ Return

Spec == Init /\ [][Next]_vars

-----------------------------------------------------------------------------
\* Reference definitions over the bytes read, data[1..pos].
Read == SubSeq(data, 1, pos)
NewlinesRead == Len(SelectSeq(Read, LAMBDA b : b = "nl"))
\* 1-based column of the last byte read (Go offset pos-1) on its line.
LastReadColumn ==
    LET nls == {k \in 1..pos - 1 : data[k] = "nl"}
    IN  IF nls = {} THEN pos ELSE pos - Max(nls)

\* findLine reads exactly the bytes before the error and returns the line
\* it is on: one more than the number of newlines read. It never hits the
\* end of the buffer (the panic the code comment doubts can happen).
ReportsErrorLine ==
    /\ pc # "panic"
    /\ pc = "done" => line = 1 + NewlinesRead

\* The column findLine returns is that of the last byte read, the byte the
\* syntax error was found at, on whatever line it is (the error message is
\* fname:line:col).
ReportsErrorColumn ==
    pc = "done" /\ pos > 0 /\ data[pos] # "nl" => col = LastReadColumn
=============================================================================
