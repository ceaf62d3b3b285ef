---------------------------- MODULE UnscrewAppProofs ----------------------------
(***************************************************************************)
(* What the page keeps for any number of files, of overlapping clicks and  *)
(* of edits.  A handler past its first await has the module (Loaded...);   *)
(* without a selected file nothing is shown, so the handler that throws    *)
(* there, the bytes assigned, cannot leave old rows over new bytes.        *)
(***************************************************************************)
EXTENDS UnscrewApp, TLAPS

\* What the rows on the page rest on.
NothingShownWithoutAFile == sourceFile = None => ~shown
ModuleIsThere ==
    \A r \in Run : handler[r].at \in {"buffer", "frame"} => wasm = "ready"

IInv == TypeOK /\ NothingShownWithoutAFile /\ ModuleIsThere /\ RowsAreOfTheBytes

-----------------------------------------------------------------------------
\* A handler that goes on is where the type says.
LEMMA LoadedType ==
    ASSUME TypeOK
    PROVE  Loaded \in {Done} \cup [at : {"buffer"}, file : Files]
BY DEF TypeOK, Loaded

\* The empty page.
LEMMA InitType == Init => TypeOK
BY DEF Init, TypeOK

\* The page has its type whatever is clicked, loaded, read and rejected.
THEOREM TypeCorrect == Spec => []TypeOK
<1>1. Init => TypeOK
  BY InitType
<1>2. TypeOK /\ [Next]_vars => TypeOK'
  <2> SUFFICES ASSUME TypeOK, [Next]_vars PROVE TypeOK'
    OBVIOUS
  <2>1. ASSUME NEW f \in Files \cup {None}, SetFile(f) PROVE TypeOK'
    BY <2>1 DEF SetFile, TypeOK
  <2>2. ASSUME NEW r \in Run, ClickRun(r) PROVE TypeOK'
    <3>1. IF wasm = "ready" THEN Loaded \in {Done} \cup [at : {"buffer"}, file : Files]
          ELSE [at |-> "wasm", file |-> None] \in [at : {"wasm"}, file : {None}]
      BY LoadedType
    <3> QED
      BY <2>2, <3>1 DEF ClickRun, TypeOK, result
  <2>3. ASSUME NEW r \in Run, BufferRead(r) PROVE TypeOK'
    <3>1. handler[r] \in [at : {"buffer", "frame"}, file : Files]
      BY <2>3 DEF BufferRead, TypeOK, Done
    <3>2. [handler[r] EXCEPT !.at = "frame"] \in [at : {"buffer", "frame"}, file : Files]
      BY <3>1
    <3> QED
      BY <2>3, <3>2 DEF BufferRead, TypeOK, result
  <2>4. ASSUME NEW r \in Run, RunFails(r) PROVE TypeOK'
    BY <2>4 DEF RunFails, Finish, TypeOK, result
  <2>5. ASSUME NEW r \in Run, RunOptimizes(r) PROVE TypeOK'
    <3>1. handler[r].file \in Files
      BY <2>5 DEF RunOptimizes, TypeOK, Done
    <3>2. currentBytes' \in Bytes
      BY <2>5, <3>1, PageAssumption DEF RunOptimizes, Bytes
    <3> QED
      BY <2>5, <3>2 DEF RunOptimizes, Finish, TypeOK
  <2>6. CASE WasmLoaded
    BY <2>6, LoadedType DEF WasmLoaded, Resumed, Released, TypeOK, result
  <2>7. CASE WasmFailed
    BY <2>7 DEF WasmFailed, Resumed, TypeOK, result
  <2>8. CASE Edit
    <3>1. currentBytes \in Bytes
      BY <2>8 DEF Edit, TypeOK
    <3>2. currentBytes' \in Bytes
      BY <2>8, <3>1, PageAssumption DEF Edit, Bytes
    <3> QED
      BY <2>8, <3>2 DEF Edit, TypeOK
  <2>9. CASE UNCHANGED vars
    BY <2>9 DEF vars, TypeOK, result
  <2> QED
    BY <2>1, <2>2, <2>3, <2>4, <2>5, <2>6, <2>7, <2>8, <2>9 DEF Next
<1> QED
  BY <1>1, <1>2, PTL DEF Spec

-----------------------------------------------------------------------------
\* Each action keeps the invariant.
LEMMA IInvInductive ==
    ASSUME IInv, [Next]_vars, TypeOK'
    PROVE  IInv'
<1> USE DEF IInv
<1>1. ASSUME NEW f \in Files \cup {None}, SetFile(f) PROVE IInv'
  BY <1>1 DEF SetFile, NothingShownWithoutAFile, ModuleIsThere, RowsAreOfTheBytes
<1>2. ASSUME NEW r \in Run, ClickRun(r) PROVE IInv'
  <2>1. ModuleIsThere'
    <3> SUFFICES ASSUME NEW q \in Run, handler'[q].at \in {"buffer", "frame"}
                 PROVE  wasm' = "ready"
      BY DEF ModuleIsThere
    <3>1. wasm = "ready"
      BY <1>2 DEF ClickRun, TypeOK, ModuleIsThere
    <3> QED
      BY <1>2, <3>1 DEF ClickRun
  <2> QED
    BY <1>2, <2>1 DEF ClickRun, result, NothingShownWithoutAFile, RowsAreOfTheBytes
<1>3. ASSUME NEW r \in Run, BufferRead(r) PROVE IInv'
  BY <1>3 DEF BufferRead, TypeOK, result, NothingShownWithoutAFile, ModuleIsThere,
              RowsAreOfTheBytes
<1>4. ASSUME NEW r \in Run, RunFails(r) PROVE IInv'
  BY <1>4 DEF RunFails, Finish, Done, TypeOK, result, NothingShownWithoutAFile,
              ModuleIsThere, RowsAreOfTheBytes
<1>5. ASSUME NEW r \in Run, RunOptimizes(r) PROVE IInv'
  <2>1. handler[r].file \in Files /\ wasm = "ready"
    BY <1>5 DEF RunOptimizes, TypeOK, Done, ModuleIsThere
  <2>2. currentBytes' \in Bytes
    BY <1>5, <2>1, PageAssumption DEF RunOptimizes, Bytes
  <2>3. currentBytes' # None
    BY <2>2, PageAssumption
  <2>4. ModuleIsThere'
    BY <1>5, <2>1 DEF RunOptimizes, ModuleIsThere
  <2> QED
    BY <1>5, <2>1, <2>3, <2>4 DEF RunOptimizes, NothingShownWithoutAFile, RowsAreOfTheBytes
<1>6. CASE WasmLoaded
  BY <1>6 DEF WasmLoaded, Resumed, result, NothingShownWithoutAFile, ModuleIsThere,
              RowsAreOfTheBytes
<1>7. CASE WasmFailed
  <2>1. ~shown
    BY <1>7 DEF WasmFailed, RowsAreOfTheBytes
  <2>2. ModuleIsThere'
    BY <1>7 DEF WasmFailed, Resumed, Done, ModuleIsThere, TypeOK
  <2> QED
    BY <1>7, <2>1, <2>2 DEF WasmFailed, result, NothingShownWithoutAFile, RowsAreOfTheBytes
<1>8. CASE Edit
  <2>1. currentBytes \in Bytes /\ sourceFile # None
    BY <1>8 DEF Edit, TypeOK, NothingShownWithoutAFile
  <2>2. currentBytes' \in Bytes
    BY <1>8, <2>1, PageAssumption DEF Edit, Bytes
  <2>3. currentBytes' # None
    BY <2>2, PageAssumption
  <2> QED
    BY <1>8, <2>1, <2>3 DEF Edit, NothingShownWithoutAFile, ModuleIsThere, RowsAreOfTheBytes
<1>9. CASE UNCHANGED vars
  BY <1>9 DEF vars, result, NothingShownWithoutAFile, ModuleIsThere, RowsAreOfTheBytes
<1> QED
  BY <1>1, <1>2, <1>3, <1>4, <1>5, <1>6, <1>7, <1>8, <1>9 DEF Next

\* The rows the user can click are those of the bytes the click will edit, however
\* many runs, picked files and edits overlap.
THEOREM RowsAreAlwaysOfTheBytes == Spec => []RowsAreOfTheBytes
<1>1. Init => IInv
  <2> SUFFICES ASSUME Init PROVE IInv
    OBVIOUS
  <2>1. ~shown /\ \A r \in Run : handler[r].at = "done"
    BY DEF Init, Done
  <2> QED
    BY <2>1, InitType DEF IInv, NothingShownWithoutAFile, ModuleIsThere, RowsAreOfTheBytes
<1>2. IInv /\ TypeOK' /\ [Next]_vars => IInv'
  BY IInvInductive
<1>3. IInv => RowsAreOfTheBytes
  BY DEF IInv
<1> QED
  BY <1>1, <1>2, <1>3, TypeCorrect, PTL DEF Spec

-----------------------------------------------------------------------------
\* The button is never left disabled by itself: with a file selected some handler
\* is still to run the finally block that enables it.
THEOREM ButtonIsHeld == Spec => []ButtonHeldByAHandler
<1>1. Init => ButtonHeldByAHandler
  BY DEF Init, ButtonHeldByAHandler
<1>2. TypeOK /\ ButtonHeldByAHandler /\ [Next]_vars => ButtonHeldByAHandler'
  <2> SUFFICES ASSUME TypeOK, ButtonHeldByAHandler, [Next]_vars,
                      runDisabled', sourceFile' # None
               PROVE  \E r \in Run : handler'[r] # Done
    BY DEF ButtonHeldByAHandler
  <2>1. ASSUME NEW f \in Files \cup {None}, SetFile(f) PROVE FALSE
    BY <2>1 DEF SetFile
  <2>2. ASSUME NEW r \in Run, ClickRun(r) PROVE handler'[r] # Done
    <3>1. handler'[r].at \in {"wasm", "buffer"}
      BY <2>2 DEF ClickRun, Loaded, TypeOK
    <3> QED
      BY <3>1 DEF Done
  <2>3. ASSUME NEW r \in Run, BufferRead(r) PROVE handler'[r] # Done
    <3>1. handler[r] \in [at : {"buffer", "frame"}, file : Files]
      BY <2>3 DEF BufferRead, TypeOK, Done
    <3>2. handler'[r].at = "frame"
      BY <2>3, <3>1 DEF BufferRead, TypeOK
    <3> QED
      BY <3>2 DEF Done
  <2>4. ASSUME NEW r \in Run, RunFails(r) \/ RunOptimizes(r) PROVE FALSE
    BY <2>4 DEF RunFails, RunOptimizes, Finish
  <2>5. CASE WasmLoaded
    <3>1. sourceFile # None
      BY <2>5 DEF WasmLoaded, result
    <3>2. Loaded # Done
      <4>1. Loaded.at = "buffer"
        BY <3>1 DEF Loaded
      <4> QED
        BY <4>1 DEF Done
    <3>3. runDisabled
      BY <2>5, <3>2 DEF WasmLoaded, Released
    <3>4. PICK r \in Run : handler[r] # Done
      BY <2>5, <3>1, <3>3 DEF ButtonHeldByAHandler, WasmLoaded
    <3>5. handler'[r] # Done
      BY <2>5, <3>2, <3>4 DEF WasmLoaded, Resumed
    <3> QED
      BY <3>5
  <2>6. CASE WasmFailed
    BY <2>6 DEF WasmFailed
  <2>7. CASE Edit
    BY <2>7 DEF Edit, ButtonHeldByAHandler
  <2>8. CASE UNCHANGED vars
    BY <2>8 DEF vars, ButtonHeldByAHandler
  <2> QED
    BY <2>1, <2>2, <2>3, <2>4, <2>5, <2>6, <2>7, <2>8 DEF Next
<1> QED
  BY <1>1, <1>2, TypeCorrect, PTL DEF Spec

=============================================================================
