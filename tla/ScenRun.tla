------------------------------- MODULE ScenRun -------------------------------
(***************************************************************************)
(* Scenario.Run (src/scen/interp.go:463-505) with the GenCyclusInfile it   *)
(* calls (446-461): fill in a default Handle, render the cyclus input from *)
(* the template, write it to <uuid>.cyclus.xml, run the cyclus binary to   *)
(* produce <uuid>.sqlite, open that database and post-process it, and      *)
(* return the database name and the first simulation id.                   *)
(*                                                                         *)
(* The fault model: every call that can fail may fail, each at its own     *)
(* step. A failed WriteFile or cyclus run may or may not leave its file    *)
(* behind; template.Must panics when the template does not parse; the      *)
(* post-processor returns any number of simulation ids up to MaxSims.      *)
(***************************************************************************)
EXTENDS Naturals

CONSTANT MaxSims   \* most simulation ids post.Process returns

VARIABLES
    run,     \* the step Run is at; "done", "error", or the panic that ends it
    handle,  \* s.Handle: "" (unset), "set" (given in the file) or "none"
    files,   \* the files Run has left on disk: "in" (cycin), "out" (cycout)
    nsims    \* len(simids) returned by post.Process

vars == <<run, handle, files, nsims>>

Init ==
    /\ run = "none" /\ handle \in {"", "set"}
    /\ files = {} /\ nsims = 0

\* GenCyclusInfile: Handle defaults to "none"; template.Must(ParseFiles)
\* panics on a bad template; t.Execute may return an error.
GenCyclusInfile ==
    /\ run = "none"
    /\ handle' = IF handle = "" THEN "none" ELSE handle
    /\ run' \in {"write", "error", "mustpanic"}
    /\ UNCHANGED <<files, nsims>>

\* ioutil.WriteFile(cycin, data, 0644).
WriteInput ==
    /\ run = "write"
    /\ \/ run' = "exec" /\ files' = files \cup {"in"}
       \/ run' = "error" /\ files' \in {files, files \cup {"in"}}
    /\ UNCHANGED <<handle, nsims>>

\* cmd.Run() with its error ignored.
ExecNoCheck ==
    /\ run = "exec"
    /\ run' = "open" /\ files' \in {files, files \cup {"out"}}
    /\ UNCHANGED <<handle, nsims>>

\* cmd.Run(): cyclus writes cycout, or fails (possibly after creating it).
Exec ==
    /\ run = "exec"
    /\ \/ run' = "open" /\ files' = files \cup {"out"}
       \/ run' = "error" /\ files' \in {files, files \cup {"out"}}
    /\ UNCHANGED <<handle, nsims>>

\* sql.Open("sqlite3", cycout).
OpenDb ==
    /\ run = "open"
    /\ run' \in {"process", "error"}
    /\ UNCHANGED <<handle, files, nsims>>

\* post.Process(db), then return cycout, simids[0]: an index out of range
\* when Process returns no simulation.
Process ==
    /\ run = "process"
    /\ \/ run' = "error" /\ UNCHANGED nsims
       \/ \E m \in 0..MaxSims :
             /\ nsims' = m
             /\ run' = IF m = 0 THEN "indexpanic" ELSE "done"
    /\ UNCHANGED <<handle, files>>

Next == GenCyclusInfile \/ WriteInput \/ Exec \/ OpenDb \/ Process

Spec == Init /\ [][Next]_vars
=============================================================================
