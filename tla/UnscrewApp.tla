------------------------------- MODULE UnscrewApp -------------------------------
(***************************************************************************)
(* The browser page web/unscrew-step/app.js.  Its handlers interleave at   *)
(* their awaits: loading the WebAssembly module, reading the file, the     *)
(* animation frame before the optimizer runs.  An await on a promise that  *)
(* is settled already lets no event in between, so the code up to the next *)
(* unsettled promise is one action.                                        *)
(*                                                                         *)
(* Bytes are the file they were made from and the number of edits since;   *)
(* the report on the page is the bytes it describes.  A picker closed      *)
(* without a choice selects the file None.                                 *)
(***************************************************************************)
EXTENDS Naturals

CONSTANTS
    Files,      \* files the user may pick
    None,       \* no file, no bytes, no report
    Run,        \* bound: clicks on "run" whose handler has not finished
    MaxEdits    \* bound: edits of one result

Bytes == [file : Files, edits : 0 .. MaxEdits]

ASSUME PageAssumption == None \notin Files \cup Bytes /\ MaxEdits \in Nat

VARIABLES
    wasm,          \* wasmReady: none before the first use, then a promise
    sourceFile,
    currentBytes,
    currentReport,
    shown,         \* ~result.hidden
    runDisabled,   \* run.disabled
    handler        \* [Run -> where its click handler waits, and for which file]

vars == <<wasm, sourceFile, currentBytes, currentReport, shown, runDisabled, handler>>
result == <<currentBytes, currentReport, shown>>

Done == [at |-> "done", file |-> None]

-----------------------------------------------------------------------------
Init ==
    /\ wasm = "none"
    /\ sourceFile = None
    /\ currentBytes = None /\ currentReport = None
    /\ shown = FALSE
    /\ runDisabled = TRUE
    /\ handler = [r \in Run |-> Done]

\* (Slip: the result of the file before stays on the page.)
SetFileKeepsResult(f) ==
    /\ sourceFile' = f
    /\ currentBytes' = None
    /\ runDisabled' = (f = None)
    /\ UNCHANGED <<wasm, handler, currentReport, shown>>

SetFile(f) ==
    /\ sourceFile' = f
    /\ currentBytes' = None /\ currentReport' = None
    /\ shown' = FALSE
    /\ runDisabled' = (f = None)
    /\ UNCHANGED <<wasm, handler>>

\* Where a handler is once the module is there: it has asked for the file's content,
\* or failed for want of a file.
\* (Slip: the file is not looked at.)
LoadedUnchecked == [at |-> "buffer", file |-> sourceFile]
Loaded == IF sourceFile = None THEN Done ELSE [at |-> "buffer", file |-> sourceFile]

\* A click on the enabled button.  A rejected wasmReady rejects every later click at
\* once, which leaves no trace but a message.
ClickRun(r) ==
    /\ ~runDisabled /\ sourceFile # None
    /\ handler[r] = Done
    /\ wasm # "failed"
    /\ runDisabled' = TRUE
    /\ wasm' = IF wasm = "none" THEN "loading" ELSE wasm
    /\ handler' = [handler EXCEPT ![r] =
                       IF wasm = "ready" THEN Loaded ELSE [at |-> "wasm", file |-> None]]
    /\ UNCHANGED <<sourceFile, result>>

\* The module arrives, or cannot be had: every handler that waits for it goes on.
Resumed(next) == [r \in Run |-> IF handler[r].at = "wasm" THEN next ELSE handler[r]]
Released(next) == IF next = Done THEN FALSE ELSE runDisabled

WasmLoaded ==
    /\ wasm = "loading"
    /\ wasm' = "ready"
    /\ handler' = Resumed(Loaded)
    /\ runDisabled' = IF \E r \in Run : handler[r].at = "wasm" THEN Released(Loaded)
                      ELSE runDisabled
    /\ UNCHANGED <<sourceFile, result>>

WasmFailed ==
    /\ wasm = "loading"
    /\ wasm' = "failed"
    /\ handler' = Resumed(Done)
    /\ runDisabled' = FALSE
    /\ UNCHANGED <<sourceFile, result>>

BufferRead(r) ==
    /\ handler[r].at = "buffer"
    /\ handler' = [handler EXCEPT ![r].at = "frame"]
    /\ UNCHANGED <<wasm, sourceFile, runDisabled, result>>

\* The finally block.  (Slip: there is none.)
FinishWithoutFinally(r) == handler' = [handler EXCEPT ![r] = Done] /\ UNCHANGED runDisabled
Finish(r) == handler' = [handler EXCEPT ![r] = Done] /\ runDisabled' = FALSE

\* The file cannot be read, or the optimizer rejects it.
RunFails(r) ==
    /\ handler[r].at \in {"buffer", "frame"}
    /\ Finish(r)
    /\ UNCHANGED <<wasm, sourceFile, result>>

\* The optimizer's result.  Its name is taken from the file selected now: if that is
\* none, the handler throws with the bytes assigned and nothing rendered.
RunOptimizes(r) ==
    /\ handler[r].at = "frame"
    /\ currentBytes' = [file |-> handler[r].file, edits |-> 0]
    /\ IF sourceFile = None THEN UNCHANGED <<currentReport, shown>>
       ELSE currentReport' = currentBytes' /\ shown' = TRUE
    /\ Finish(r)
    /\ UNCHANGED <<wasm, sourceFile>>

\* editPattern, editCountParameter: a button of the rendered report.  It is there
\* only while the result is shown; by then the module is loaded, so the handler runs
\* through.  An edit that is refused changes nothing.
Edit ==
    /\ shown /\ currentBytes # None
    /\ wasm = "ready"
    /\ currentBytes.edits < MaxEdits
    /\ currentBytes' = [currentBytes EXCEPT !.edits = @ + 1]
    /\ currentReport' = currentBytes'
    /\ shown' = TRUE
    /\ UNCHANGED <<wasm, sourceFile, runDisabled, handler>>

Next ==
    \/ \E f \in Files \cup {None} : SetFile(f)
    \/ \E r \in Run : ClickRun(r) \/ BufferRead(r) \/ RunFails(r) \/ RunOptimizes(r)
    \/ WasmLoaded
    \/ WasmFailed
    \/ Edit

\* The browser settles every promise and draws a frame at last; what the user does is
\* under no obligation.
Fairness ==
    /\ WF_vars(WasmLoaded \/ WasmFailed)
    /\ \A r \in Run : WF_vars(BufferRead(r)) /\ WF_vars(RunFails(r) \/ RunOptimizes(r))

Spec == Init /\ [][Next]_vars /\ Fairness

-----------------------------------------------------------------------------
TypeOK ==
    /\ wasm \in {"none", "loading", "ready", "failed"}
    /\ sourceFile \in Files \cup {None}
    /\ currentBytes \in Bytes \cup {None}
    /\ currentReport \in Bytes \cup {None}
    /\ shown \in BOOLEAN /\ runDisabled \in BOOLEAN
    /\ handler \in [Run -> {Done} \cup [at : {"wasm"}, file : {None}]
                             \cup [at : {"buffer", "frame"}, file : Files]]

\* The rows on the page are those of the bytes an edit will be applied to: an index
\* into the report (editPattern, editCountParameter) is an index into currentBytes,
\* whatever runs, edits and picked files overlapped, and the module is there for it.
RowsAreOfTheBytes ==
    shown => currentBytes # None /\ currentReport = currentBytes /\ wasm = "ready"

\* The button is disabled with a file selected only while a handler will enable it.
ButtonHeldByAHandler ==
    (runDisabled /\ sourceFile # None) => \E r \in Run : handler[r] # Done

\* A disabled button with a file selected is enabled again, whatever fails.
ButtonComesBack == (runDisabled /\ sourceFile # None) ~> ~runDisabled

=============================================================================
