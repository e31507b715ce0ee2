------------------------------ MODULE FileOps ------------------------------
(***************************************************************************)
(* write_file, edit_block and move_file of internal/executor, called       *)
(* concurrently: the agent runs every tool call in a goroutine and no lock *)
(* is shared between them.  The files live in one directory.  A content is *)
(* the set of calls whose text it holds, or Torn when only part of it has  *)
(* been written.  Argument checks and path policy are left out: a call     *)
(* that fails them changes nothing.                                        *)
(***************************************************************************)
EXTENDS FiniteSets

CONSTANTS Names, Ops, Absent, Torn

ASSUME ContentAssumption == Names # {} /\ Absent # Torn /\ \A S \in SUBSET Ops : S # Absent /\ S # Torn

VARIABLES
    file,   \* content of each name
    tmp,    \* content of a call's temporary file
    kind,   \* "write", "edit" or "move"
    step,   \* progress of a call
    name,   \* the path written, or the destination of a move
    src,    \* the source of a move
    data,   \* what a write or an edit is going to store
    force,  \* the overwrite argument of a move
    alive,  \* FALSE: the agent process has died
    seen,   \* the calls that had succeeded when a call began
    hit     \* calls of move_file that replaced a file unasked

vars == <<file, tmp, kind, step, name, src, data, force, alive, seen, hit>>
args == <<kind, name, src, data, force, seen>>

Contents == {Absent, Torn} \cup SUBSET Ops

Init ==
    /\ file \in [Names -> {Absent, {}}]
    /\ tmp = [o \in Ops |-> Absent]
    /\ kind = [o \in Ops |-> "none"]
    /\ step = [o \in Ops |-> "idle"]
    /\ name = [o \in Ops |-> CHOOSE n \in Names : TRUE]
    /\ src = name
    /\ data = [o \in Ops |-> {}]
    /\ force = [o \in Ops |-> FALSE]
    /\ alive = TRUE /\ hit = {}
    /\ seen = [o \in Ops |-> {}]

Goto(o, s) == step' = [step EXCEPT ![o] = s]

Enter(o, k, n) ==
    /\ alive /\ step[o] = "idle"
    /\ kind' = [kind EXCEPT ![o] = k]
    /\ name' = [name EXCEPT ![o] = n]
    /\ seen' = [seen EXCEPT ![o] = {p \in Ops : step[p] = "ok"}]

-----------------------------------------------------------------------------
(* The checks at the start of each tool *)

WriteFile(o, n) ==
    /\ Enter(o, "write", n)
    /\ data' = [data EXCEPT ![o] = {o}]
    /\ Goto(o, "checked")
    /\ UNCHANGED <<file, tmp, src, force, alive, hit>>

EditStale(o, n) ==
    /\ Enter(o, "edit", n)
    /\ file[n] # Absent
    /\ data' = [data EXCEPT ![o] = {o}]
    /\ Goto(o, "checked")
    /\ UNCHANGED <<file, tmp, src, force, alive, hit>>

\* The file is read; old_string occurs as often as expected, or the call fails.
EditBlock(o, n) ==
    /\ Enter(o, "edit", n)
    /\ \/ /\ file[n] # Absent
          /\ data' = [data EXCEPT ![o] = file[n] \cup {o}]
          /\ Goto(o, "checked")
       \/ Goto(o, "failed") /\ UNCHANGED data
    /\ UNCHANGED <<file, tmp, src, force, alive, hit>>

MoveUnchecked(o, s, n, f) ==
    /\ Enter(o, "move", n)
    /\ src' = [src EXCEPT ![o] = s]
    /\ force' = [force EXCEPT ![o] = f]
    /\ Goto(o, IF file[s] # Absent THEN "moving" ELSE "failed")
    /\ UNCHANGED <<file, tmp, data, alive, hit>>

MoveFile(o, s, n, f) ==
    /\ Enter(o, "move", n)
    /\ src' = [src EXCEPT ![o] = s]
    /\ force' = [force EXCEPT ![o] = f]
    /\ Goto(o, IF file[s] # Absent /\ (file[n] = Absent \/ f) THEN "moving" ELSE "failed")
    /\ UNCHANGED <<file, tmp, data, alive, hit>>

-----------------------------------------------------------------------------
(* The temporary file: the end of writeFile, and atomicWrite *)

CreateTemp(o) ==
    /\ alive /\ step[o] = "checked"
    /\ tmp' = [tmp EXCEPT ![o] = Torn]
    /\ Goto(o, "created")
    /\ UNCHANGED <<file, args, alive, hit>>

WriteTemp(o) ==
    /\ alive /\ step[o] = "created"
    /\ tmp' = [tmp EXCEPT ![o] = data[o]]
    /\ Goto(o, "synced")
    /\ UNCHANGED <<file, args, alive, hit>>

FailAfterRename(o) ==
    /\ alive /\ step[o] \in {"checked", "created", "synced"}
    /\ file' = IF step[o] = "synced" THEN [file EXCEPT ![name[o]] = tmp[o]] ELSE file
    /\ tmp' = [tmp EXCEPT ![o] = Absent]
    /\ Goto(o, "failed")
    /\ UNCHANGED <<args, alive, hit>>

\* CreateTemp, Chmod, Write, Sync, Close or Rename fails.  The deferred function
\* removes the temporary file, or fails to: the error of os.Remove is ignored.
TempFails(o) ==
    /\ alive /\ step[o] \in {"checked", "created", "synced"}
    /\ tmp' \in {tmp, [tmp EXCEPT ![o] = Absent]}
    /\ Goto(o, "failed")
    /\ UNCHANGED <<file, args, alive, hit>>

RenameUnwritten(o) ==
    /\ alive /\ step[o] \in {"created", "synced"}
    /\ file' = [file EXCEPT ![name[o]] = tmp[o]]
    /\ tmp' = [tmp EXCEPT ![o] = Absent]
    /\ Goto(o, "renamed")
    /\ UNCHANGED <<args, alive, hit>>

RenameTemp(o) ==
    /\ alive /\ step[o] = "synced"
    /\ file' = [file EXCEPT ![name[o]] = tmp[o]]
    /\ tmp' = [tmp EXCEPT ![o] = Absent]
    /\ Goto(o, "renamed")
    /\ UNCHANGED <<args, alive, hit>>

\* os.Rename fails when the source has gone, and replaces a destination that
\* has appeared since the check.
RenameSource(o) ==
    /\ alive /\ step[o] = "moving" /\ file[src[o]] # Absent
    /\ file' = IF src[o] = name[o] THEN file
               ELSE [file EXCEPT ![name[o]] = file[src[o]], ![src[o]] = Absent]
    /\ hit' = IF file[name[o]] # Absent /\ ~force[o] THEN hit \cup {o} ELSE hit
    /\ Goto(o, "renamed")
    /\ UNCHANGED <<tmp, args, alive>>

RenameFails(o) ==
    /\ alive /\ step[o] = "moving"
    /\ Goto(o, "failed")
    /\ UNCHANGED <<file, tmp, args, alive, hit>>

\* The call returns its result; until then the agent may die.
Report(o) ==
    /\ alive /\ step[o] = "renamed"
    /\ Goto(o, "ok")
    /\ UNCHANGED <<file, tmp, args, alive, hit>>

Crash ==
    /\ alive
    /\ alive' = FALSE
    /\ UNCHANGED <<file, tmp, args, step, hit>>

Over ==
    /\ ~alive \/ \A o \in Ops : step[o] \in {"ok", "failed"}
    /\ UNCHANGED vars

Next ==
    \/ \E o \in Ops, n \in Names :
        \/ WriteFile(o, n) \/ EditBlock(o, n)
        \/ \E s \in Names, f \in BOOLEAN : MoveFile(o, s, n, f)
    \/ \E o \in Ops : \/ CreateTemp(o) \/ WriteTemp(o) \/ TempFails(o) \/ RenameTemp(o)
                      \/ RenameSource(o) \/ RenameFails(o) \/ Report(o)
    \/ Crash \/ Over

Spec == Init /\ [][Next]_vars

-----------------------------------------------------------------------------
TypeOK ==
    /\ file \in [Names -> Contents] /\ tmp \in [Ops -> Contents]
    /\ kind \in [Ops -> {"none", "write", "edit", "move"}]
    /\ step \in [Ops -> {"idle", "checked", "created", "synced", "moving", "renamed",
                       "ok", "failed"}]
    /\ name \in [Ops -> Names] /\ src \in [Ops -> Names]
    /\ data \in [Ops -> SUBSET Ops] /\ force \in [Ops -> BOOLEAN]
    /\ alive \in BOOLEAN /\ hit \subseteq Ops /\ seen \in [Ops -> SUBSET Ops]

\* The file that the call was to store or move is in its place.
Done(o) == step[o] \in {"renamed", "ok"}

NeverTorn == \A n \in Names : file[n] # Torn
OnlyDoneShows == \A n \in Names : file[n] # Absent => \A o \in file[n] : Done(o)

\* "Atomically write", all or nothing: at any moment at which another call reads a
\* file or the agent dies, the file is whole, and all text in it is of calls that had
\* written theirs completely.  Each of them has reported success, is about to, or was
\* cut short only after its work was done; a call that reports an error has changed
\* no file.  (It may leave its temporary file: the error of os.Remove is ignored.)
AllOrNothing == NeverTorn /\ OnlyDoneShows

\* edit_block takes no lock between its read and its rename, so an edit that
\* reported success may be gone.  Among edits alone, it is gone only if another
\* edit that overlapped it has replaced the file; edits made one after the other
\* accumulate.
LostOnlyToOverlap ==
    (\A o \in Ops : kind[o] \notin {"write", "move"}) =>
        \A o \in Ops : Done(o) /\ o \notin file[name[o]] =>
            \E q \in Ops \ {o} :
                /\ Done(q) /\ name[q] = name[o]
                /\ o \notin seen[q] /\ q \notin seen[o]

\* "Existing destinations are preserved unless overwrite=true" holds but for
\* files that appear after moveFile's check: what it replaces unasked was put
\* there by a call that overlapped it.
ReplacesOnlyNew ==
    \A o \in hit : \E q \in Ops \ {o} :
        /\ Done(q) /\ name[q] = name[o]
        /\ q \notin seen[o] /\ o \notin seen[q]
=============================================================================
