-------------------------- MODULE AgentToolsProofs --------------------------
(***************************************************************************)
(* Proofs about the tools of the agent that keep state: the file tools and *)
(* the search sessions.                                                    *)
(***************************************************************************)
EXTENDS FileOps, SearchManager, FiniteSetTheorems, TLAPS

-----------------------------------------------------------------------------
(***************************************************************************)
(* The three properties of FileOps, for any number of concurrent calls and *)
(* files.  FileInv relates a call's temporary file to its progress, and    *)
(* the text that a call is going to store to calls whose rename is done.   *)
(* OverlapInv remembers, for a call that has not finished, which calls it  *)
(* has or has not seen: a call whose rename comes meanwhile is in nobody's *)
(* past and has nobody unfinished in its own.                              *)
(***************************************************************************)

Ok == {o \in Ops : step[o] = "ok"}
Renamed == {o \in Ops : Done(o)}

FileInv ==
    /\ TypeOK
    /\ NeverTorn
    /\ OnlyDoneShows
    /\ \A o \in Ops : /\ step[o] = "synced" => tmp[o] = data[o]
                      /\ data[o] \subseteq Renamed \cup {o}

\* Two calls for the same name, neither of which had returned when the other began;
\* the second has done its rename by now.
Overlaps(o, q) ==
    /\ q # o /\ Done(q) /\ name[q] = name[o]
    /\ o \notin seen[q] /\ q \notin seen[o]

OnlyEdits == \A o \in Ops : kind[o] \notin {"write", "move"}

\* What an unfinished edit is going to store has the edits that were finished when it
\* began, or they were lost to an overlap before.
EditInv ==
    OnlyEdits =>
        \A q \in Ops : kind[q] = "edit" /\ step[q] \in {"checked", "created", "synced"} =>
            \A o \in seen[q] : name[o] = name[q] =>
                o \in data[q] \/ \E p \in Ops : Overlaps(o, p)

\* A destination that exists while a move without overwrite is under way came after
\* its check.
MoveInv ==
    \A o \in Ops : step[o] = "moving" /\ ~force[o] /\ file[name[o]] # Absent =>
        \E q \in Ops : Overlaps(o, q)

KindInv ==
    \A o \in Ops : /\ step[o] \in {"checked", "created", "synced"} =>
                            kind[o] \in {"write", "edit"} /\ o \in data[o]
                   /\ step[o] = "moving" => kind[o] = "move"
                   /\ Done(o) => kind[o] \in {"write", "edit", "move"}
                   /\ step[o] = "idle" <=> kind[o] = "none"

OverlapInv ==
    /\ KindInv
    /\ hit \subseteq Renamed /\ \A o \in Ops : seen[o] \subseteq Ok
    /\ EditInv /\ MoveInv
    /\ LostOnlyToOverlap /\ ReplacesOnlyNew

-----------------------------------------------------------------------------
LEMMA FileInvInit == Init => FileInv
<1> SUFFICES ASSUME Init PROVE FileInv
  OBVIOUS
<1>1. TypeOK
  BY ContentAssumption DEF Init, TypeOK, Contents
<1>2. \A n \in Names : file[n] = Absent \/ file[n] = {}
  BY DEF Init
<1>3. NeverTorn /\ OnlyDoneShows
  BY <1>2, ContentAssumption DEF NeverTorn, OnlyDoneShows
<1>4. \A o \in Ops : step[o] = "idle" /\ tmp[o] = Absent /\ data[o] = {}
  BY DEF Init
<1> QED
  BY <1>1, <1>3, <1>4 DEF FileInv

LEMMA FileInvNext == FileInv /\ [Next]_vars => FileInv'
<1> SUFFICES ASSUME FileInv, [Next]_vars PROVE FileInv'
  OBVIOUS
<1> USE ContentAssumption DEF FileInv, TypeOK, NeverTorn, OnlyDoneShows, Contents, Renamed, Done, Goto, args
<1>1. ASSUME NEW o \in Ops, NEW n \in Names, WriteFile(o, n) PROVE FileInv'
  BY <1>1 DEF WriteFile, Enter
<1>2. ASSUME NEW o \in Ops, NEW n \in Names, EditBlock(o, n) PROVE FileInv'
  BY SMTT(30), <1>2 DEF EditBlock, Enter
<1>3. ASSUME NEW o \in Ops, NEW n \in Names, NEW s \in Names, NEW f \in BOOLEAN,
             MoveFile(o, s, n, f)
      PROVE FileInv'
  BY <1>3 DEF MoveFile, Enter
<1>4. ASSUME NEW o \in Ops, CreateTemp(o) PROVE FileInv'
  BY <1>4 DEF CreateTemp
<1>5. ASSUME NEW o \in Ops, WriteTemp(o) PROVE FileInv'
  BY <1>5 DEF WriteTemp
<1>6. ASSUME NEW o \in Ops, TempFails(o) PROVE FileInv'
  BY <1>6 DEF TempFails
<1>7. ASSUME NEW o \in Ops, RenameTemp(o) PROVE FileInv'
  <2>1. tmp[o] = data[o] /\ data[o] \subseteq Renamed \cup {o} /\ name[o] \in Names
    BY <1>7 DEF RenameTemp
  <2>2. /\ step' = [step EXCEPT ![o] = "renamed"] /\ file' = [file EXCEPT ![name[o]] = data[o]]
        /\ tmp' = [tmp EXCEPT ![o] = Absent] /\ UNCHANGED <<args, alive, hit>>
    BY <1>7, <2>1 DEF RenameTemp
  <2>3. TypeOK'
    BY <2>1, <2>2
  <2>4. ASSUME NEW m \in Names, file'[m] # Absent
        PROVE  file'[m] # Torn /\ \A p \in file'[m] : Done(p)'
    <3>1. CASE m = name[o]
      BY SMTT(30), <2>1, <2>2, <3>1
    <3>2. CASE m # name[o]
      BY <2>2, <2>4, <3>2
    <3> QED
      BY <3>1, <3>2
  <2> QED
    BY <2>1, <2>2, <2>3, <2>4
<1>8. ASSUME NEW o \in Ops, RenameSource(o) PROVE FileInv'
  BY <1>8 DEF RenameSource
<1>9. ASSUME NEW o \in Ops, RenameFails(o) PROVE FileInv'
  BY <1>9 DEF RenameFails
<1>10. ASSUME NEW o \in Ops, Report(o) PROVE FileInv'
  BY <1>10 DEF Report
<1>11. CASE Crash
  BY Zenon, <1>11 DEF Crash
<1>12. CASE UNCHANGED vars
  BY <1>12 DEF vars
<1> HIDE DEF FileInv
<1> QED
  BY <1>1, <1>2, <1>3, <1>4, <1>5, <1>6, <1>7, <1>8, <1>9, <1>10, <1>11, <1>12
  DEF Next, Over

\* The atomic-write promise of internal/executor, for every number of calls and at every
\* moment at which the agent may die: no torn file, and no text of a call that has
\* failed or has not written all of its own.
THEOREM FilesAreWhole == Spec => []AllOrNothing
<1>1. FileInv => AllOrNothing
  BY DEF FileInv, AllOrNothing
<1> QED
  BY FileInvInit, FileInvNext, <1>1, PTL DEF Spec

-----------------------------------------------------------------------------
LEMMA OverlapInvInit == Init => OverlapInv
BY DEF Init, OverlapInv, KindInv, Ok, Renamed, Done, EditInv, MoveInv, LostOnlyToOverlap, ReplacesOnlyNew

\* A call that has begun keeps its arguments, and its result once it has one; a call
\* that begins has seen what has succeeded.
Steady ==
    \A p \in Ops :
        /\ step[p] # "idle" =>
                /\ step'[p] # "idle" /\ (step[p] = "ok" => step'[p] = "ok")
                /\ Done(p) => Done(p)'
                /\ name'[p] = name[p] /\ seen'[p] = seen[p] /\ data'[p] = data[p]
                /\ force'[p] = force[p] /\ kind'[p] = kind[p]
        /\ step[p] = "idle" => seen'[p] \in {seen[p], Ok} /\ ~ Done(p)'

LEMMA StepsAreSteady == FileInv /\ [Next]_vars => Steady
<1> SUFFICES ASSUME FileInv, [Next]_vars PROVE Steady
  OBVIOUS
<1> USE DEF FileInv, TypeOK, Steady, Goto, args, Ok, Done
<1>1. ASSUME NEW o \in Ops, NEW n \in Names, WriteFile(o, n) PROVE Steady
  BY <1>1 DEF WriteFile, Enter
<1>2. ASSUME NEW o \in Ops, NEW n \in Names, EditBlock(o, n) PROVE Steady
  BY <1>2 DEF EditBlock, Enter
<1>3. ASSUME NEW o \in Ops, NEW n \in Names, NEW s \in Names, NEW f \in BOOLEAN,
             MoveFile(o, s, n, f)
      PROVE Steady
  BY <1>3 DEF MoveFile, Enter
<1>4. ASSUME NEW o \in Ops,
             CreateTemp(o) \/ WriteTemp(o) \/ TempFails(o) \/ RenameTemp(o)
                 \/ RenameSource(o) \/ RenameFails(o) \/ Report(o)
      PROVE Steady
  BY <1>4 DEF CreateTemp, WriteTemp, TempFails, RenameTemp, RenameSource, RenameFails,
              Report
<1>5. CASE Crash \/ UNCHANGED vars
  BY <1>5 DEF Crash, vars
<1> HIDE DEF FileInv, Steady
<1> QED
  BY <1>1, <1>2, <1>3, <1>4, <1>5 DEF Next, Over

\* An overlap, once there, stays: it is about two calls that have begun.
LEMMA OverlapStays ==
    ASSUME Steady, NEW o \in Ops, NEW q \in Ops, Overlaps(o, q), step[o] # "idle"
    PROVE  Overlaps(o, q)'
BY DEF Steady, Overlaps, Done

LEMMA SeenIsPast ==
    ASSUME Steady, \A o \in Ops : seen[o] \subseteq Ok
    PROVE  (\A o \in Ops : seen[o] \subseteq Ok)'
BY DEF Steady, Ok

LEMMA KindInvNext == FileInv /\ KindInv /\ [Next]_vars => KindInv'
<1> SUFFICES ASSUME FileInv, KindInv, [Next]_vars PROVE KindInv'
  OBVIOUS
<1> USE DEF FileInv, TypeOK, KindInv, Goto, args, Done
<1>1. ASSUME NEW o \in Ops, NEW n \in Names, WriteFile(o, n) PROVE KindInv'
  BY <1>1 DEF WriteFile, Enter
<1>2. ASSUME NEW o \in Ops, NEW n \in Names, EditBlock(o, n) PROVE KindInv'
  BY <1>2 DEF EditBlock, Enter
<1>3. ASSUME NEW o \in Ops, NEW n \in Names, NEW s \in Names, NEW f \in BOOLEAN,
             MoveFile(o, s, n, f)
      PROVE KindInv'
  BY <1>3 DEF MoveFile, Enter
<1>4. ASSUME NEW o \in Ops,
             CreateTemp(o) \/ WriteTemp(o) \/ TempFails(o) \/ RenameTemp(o)
                 \/ RenameSource(o) \/ RenameFails(o) \/ Report(o)
      PROVE KindInv'
  BY <1>4 DEF CreateTemp, WriteTemp, TempFails, RenameTemp, RenameSource, RenameFails,
              Report
<1>5. CASE Crash \/ UNCHANGED vars
  BY <1>5 DEF Crash, vars
<1> HIDE DEF FileInv, KindInv
<1> QED
  BY <1>1, <1>2, <1>3, <1>4, <1>5 DEF Next, Over

\* What a step does to the files and to hit, and what a call that begins finds: a file
\* changes by the rename that does a call's work.
Finishes(q, from) == step[q] = from /\ step'[q] = "renamed"

Effects ==
    /\ \A n \in Names :
           \/ file'[n] = file[n]
           \/ \E q \in Ops : Finishes(q, "synced") /\ name[q] = n /\ file'[n] = data[q]
           \/ \E q \in Ops : Finishes(q, "moving") /\ (name[q] = n \/ file'[n] = Absent)
    /\ \A q \in Ops : ~ Done(q) /\ Done(q)' =>
           Finishes(q, "moving") \/ (Finishes(q, "synced") /\ file'[name[q]] = data[q])
    /\ \/ hit' = hit
       \/ \E q \in Ops : /\ hit' = hit \cup {q} /\ Finishes(q, "moving")
                          /\ ~force[q] /\ file[name[q]] # Absent
    /\ \A q \in Ops : step'[q] = "moving" /\ step[q] # "moving" =>
           step[q] = "idle" /\ file' = file /\ (file[name'[q]] = Absent \/ force'[q])
    /\ \A q \in Ops : step'[q] \in {"checked", "created", "synced"} /\ kind'[q] = "edit" =>
           \/ step[q] = "idle" /\ data'[q] = file[name'[q]] \cup {q} /\ seen'[q] = Ok
           \/ step[q] \in {"checked", "created", "synced"}

LEMMA StepEffects == FileInv /\ KindInv /\ [Next]_vars => Effects
<1> SUFFICES ASSUME FileInv, KindInv, [Next]_vars PROVE Effects
  OBVIOUS
<1> USE DEF FileInv, TypeOK, KindInv, Goto, args, Ok, Done, Effects, Finishes
<1>1. ASSUME NEW o \in Ops, NEW n \in Names, WriteFile(o, n) PROVE Effects
  BY <1>1 DEF WriteFile, Enter
<1>2. ASSUME NEW o \in Ops, NEW n \in Names, EditBlock(o, n) PROVE Effects
  BY <1>2 DEF EditBlock, Enter
<1>3. ASSUME NEW o \in Ops, NEW n \in Names, NEW s \in Names, NEW f \in BOOLEAN,
             MoveFile(o, s, n, f)
      PROVE Effects
  BY <1>3 DEF MoveFile, Enter
<1>4. ASSUME NEW o \in Ops, CreateTemp(o) \/ WriteTemp(o) \/ TempFails(o) \/ RenameFails(o)
                                 \/ Report(o)
      PROVE Effects
  BY <1>4 DEF CreateTemp, WriteTemp, TempFails, RenameFails, Report
<1>5. ASSUME NEW o \in Ops, RenameTemp(o) PROVE Effects
  BY <1>5 DEF RenameTemp
<1>6. ASSUME NEW o \in Ops, RenameSource(o) PROVE Effects
  <2>1. /\ name[o] \in Names /\ src[o] \in Names /\ Finishes(o, "moving")
        /\ \A q \in Ops \ {o} : step'[q] = step[q]
        /\ UNCHANGED <<name, data, seen, force, kind>>
    BY <1>6 DEF RenameSource
  <2>2. \A n \in Names : file'[n] = file[n] \/ name[o] = n \/ file'[n] = Absent
    BY <1>6 DEF RenameSource
  <2>3. hit' = hit \/ (hit' = hit \cup {o} /\ ~force[o] /\ file[name[o]] # Absent)
    BY <1>6 DEF RenameSource
  <2> QED
    BY <2>1, <2>2, <2>3
<1>7. CASE Crash \/ UNCHANGED vars
  BY <1>7 DEF Crash, vars
<1> HIDE DEF Effects, FileInv, KindInv
<1> QED
  BY <1>1, <1>2, <1>3, <1>4, <1>5, <1>6, <1>7 DEF Next, Over

\* A call whose rename comes now overlaps every call for the same name that has begun
\* and has not returned, or that returned while it was under way.
LEMMA FinishingOverlaps ==
    ASSUME Steady, \A o \in Ops : seen[o] \subseteq Ok,
           NEW o \in Ops, NEW q \in Ops, q # o, name[q] = name[o], step[o] # "idle",
           step[q] \in {"synced", "moving"}, step'[q] = "renamed", o \notin seen[q]
    PROVE  Overlaps(o, q)'
BY DEF Steady, Overlaps, Ok, Done

LEMMA MovesReplaceOnlyNew ==
    ASSUME FileInv, OverlapInv, Steady, Effects
    PROVE  (MoveInv /\ ReplacesOnlyNew)' /\ hit' \subseteq Renamed'
<1> USE DEF OverlapInv
<1>1. ASSUME NEW o \in Ops, step'[o] = "moving", ~force'[o], file'[name'[o]] # Absent
      PROVE  \E q \in Ops : Overlaps(o, q)'
  <2>1. step[o] = "moving"
    BY <1>1 DEF Effects
  <2>2. name'[o] = name[o] /\ ~force[o] /\ name[o] \in Names
    BY <1>1, <2>1 DEF Steady, FileInv, TypeOK
  <2>3. CASE file'[name[o]] = file[name[o]]
    BY <1>1, <2>1, <2>2, <2>3, OverlapStays DEF MoveInv
  <2>4. CASE file'[name[o]] # file[name[o]]
    <3>1. PICK q \in Ops : /\ name[q] = name[o] /\ step'[q] = "renamed"
                           /\ step[q] \in {"synced", "moving"}
      BY <1>1, <2>2, <2>4 DEF Effects, Finishes
    <3>2. o \notin seen[q] /\ q # o
      BY <1>1, <2>1, <3>1 DEF Ok
    <3> QED
      BY <2>1, <3>1, <3>2, FinishingOverlaps
  <2> QED
    BY <2>3, <2>4
<1>2. ASSUME NEW o \in hit' PROVE o \in Renamed' /\ \E q \in Ops : Overlaps(o, q)'
  <2>1. CASE o \in hit
    <3>1. o \in Ops /\ step[o] # "idle" /\ Done(o)'
      BY <2>1 DEF Renamed, Steady, Done
    <3>2. PICK q \in Ops : Overlaps(o, q)
      BY <2>1, <3>1 DEF ReplacesOnlyNew, Overlaps
    <3> QED
      BY <3>1, <3>2, OverlapStays DEF Renamed
  <2>2. CASE o \notin hit
    <3>1. o \in Ops /\ Finishes(o, "moving") /\ ~force[o] /\ file[name[o]] # Absent
      BY <1>2, <2>2 DEF Effects
    <3>2. PICK q \in Ops : Overlaps(o, q)
      BY <3>1 DEF MoveInv, Finishes
    <3> QED
      BY <3>1, <3>2, OverlapStays DEF Renamed, Done, Finishes
  <2> QED
    BY <2>1, <2>2
<1>3. MoveInv'
  BY <1>1 DEF MoveInv
<1>4. ReplacesOnlyNew'
  BY <1>2 DEF ReplacesOnlyNew, Overlaps
<1> QED
  BY <1>2, <1>3, <1>4

LEMMA EditsLostOnlyToOverlap ==
    ASSUME FileInv, OverlapInv, Steady, Effects, OnlyEdits'
    PROVE  /\ \A o \in Ops : Done(o)' /\ o \notin file'[name'[o]] =>
                                \E q \in Ops : Overlaps(o, q)'
           /\ EditInv'
<1> USE DEF OverlapInv
<1>1. OnlyEdits /\ \A q \in Ops : step[q] # "moving"
  BY DEF OnlyEdits, Steady, KindInv
<1>2. ASSUME NEW o \in Ops, Done(o), o \notin file[name[o]]
      PROVE  \E q \in Ops : Overlaps(o, q)
  BY <1>1, <1>2 DEF LostOnlyToOverlap, OnlyEdits, Overlaps
<1>3. ASSUME NEW o \in Ops, Done(o)', o \notin file'[name'[o]]
      PROVE  \E q \in Ops : Overlaps(o, q)'
  <2>1. step[o] # "idle" /\ name'[o] = name[o] /\ name[o] \in Names
    BY <1>3 DEF Steady, FileInv, TypeOK
  <2>2. Done(o)
    BY <1>1, <1>3, <2>1 DEF Effects, Finishes, KindInv
  <2>3. CASE file'[name[o]] = file[name[o]]
    BY <1>2, <1>3, <2>1, <2>2, <2>3, OverlapStays
  <2>4. CASE file'[name[o]] # file[name[o]]
    <3>1. PICK q \in Ops : Finishes(q, "synced") /\ name[q] = name[o] /\ file'[name[o]] = data[q]
      BY <1>1, <2>1, <2>4 DEF Effects, Finishes
    <3>2. CASE o \in seen[q]
      <4>1. kind[q] = "edit"
        BY <1>1, <3>1 DEF KindInv, OnlyEdits, Finishes
      <4>2. \E p \in Ops : Overlaps(o, p)
        BY <1>1, <1>3, <2>1, <3>1, <3>2, <4>1 DEF EditInv, Finishes
      <4> QED
        BY <2>1, <4>2, OverlapStays
    <3>3. CASE o \notin seen[q]
      BY <2>1, <2>2, <3>1, <3>3, FinishingOverlaps DEF Finishes, Done
    <3> QED
      BY <3>2, <3>3
  <2> QED
    BY <2>3, <2>4
<1>4. ASSUME NEW q \in Ops, kind'[q] = "edit", step'[q] \in {"checked", "created", "synced"},
             NEW o \in seen'[q], name'[o] = name'[q], o \notin data'[q]
      PROVE  \E p \in Ops : Overlaps(o, p)'
  <2>1. seen'[q] \subseteq Ok
    BY DEF Steady
  <2>2. o \in Ops /\ step[o] # "idle" /\ Done(o) /\ name'[o] = name[o]
    BY <2>1 DEF Ok, Done, Steady
  <2>3. CASE step[q] = "idle"
    <3>1. o \notin file[name[o]]
      BY ZenonT(30), <1>4, <2>2, <2>3 DEF Effects
    <3> QED
      BY <1>2, <2>2, <3>1, OverlapStays
  <2>4. CASE step[q] # "idle"
    <3>1. /\ kind[q] = "edit" /\ step[q] \in {"checked", "created", "synced"}
          /\ o \in seen[q] /\ name[o] = name[q] /\ o \notin data[q]
      BY Zenon, <1>4, <2>2, <2>4 DEF Effects, Steady
    <3>2. \E p \in Ops : Overlaps(o, p)
      BY <1>1, <3>1 DEF EditInv
    <3> QED
      BY <2>2, <3>2, OverlapStays
  <2> QED
    BY <2>3, <2>4
<1>5. EditInv'
  BY <1>4 DEF EditInv
<1> QED
  BY <1>3, <1>5

LEMMA OverlapInvNext == FileInv /\ OverlapInv /\ [Next]_vars => OverlapInv'
<1> SUFFICES ASSUME FileInv, OverlapInv, [Next]_vars PROVE OverlapInv'
  OBVIOUS
<1>1. Steady /\ Effects /\ KindInv'
  BY StepsAreSteady, StepEffects, KindInvNext DEF OverlapInv
<1>2. (MoveInv /\ ReplacesOnlyNew)' /\ hit' \subseteq Renamed'
  BY <1>1, MovesReplaceOnlyNew
<1>3. (EditInv /\ LostOnlyToOverlap)'
  <2>1. CASE OnlyEdits'
    BY <1>1, <2>1, EditsLostOnlyToOverlap DEF LostOnlyToOverlap, Overlaps
  <2>2. CASE ~ OnlyEdits'
    BY <2>2 DEF EditInv, LostOnlyToOverlap, OnlyEdits
  <2> QED
    BY <2>1, <2>2
<1> QED
  BY <1>1, <1>2, <1>3, SeenIsPast DEF OverlapInv

\* The two invariants hold together: what is lost or replaced depends on which call has
\* seen which.
LEMMA OverlapInvariance == Spec => []OverlapInv
<1>1. FileInv /\ OverlapInv /\ [Next]_vars => (FileInv /\ OverlapInv)'
  BY FileInvNext, OverlapInvNext
<1> QED
  BY FileInvInit, OverlapInvInit, <1>1, PTL DEF Spec

\* What edit_block gives up by taking no lock between its read and its rename, for every
\* number of calls: an edit that reported success is lost only to one that overlapped it.
THEOREM OnlyOverlapsHurt == Spec => []LostOnlyToOverlap
<1>1. OverlapInv => LostOnlyToOverlap
  BY DEF OverlapInv
<1> QED
  BY OverlapInvariance, <1>1, PTL

\* What move_file gives up by its check before os.Rename, for every number of calls: it
\* replaces a file unasked only when a call that overlapped it has put the file there.
THEOREM OnlyNewFilesReplaced == Spec => []ReplacesOnlyNew
<1>1. OverlapInv => ReplacesOnlyNew
  BY DEF OverlapInv
<1> QED
  BY OverlapInvariance, <1>1, PTL

-----------------------------------------------------------------------------
(***************************************************************************)
(* The search sessions.  Start bounds what it counts (Active).  A walk     *)
(* that is not counted any more has been forgotten, at KeepTime, and has   *)
(* not looked at its context since WalkTime, or it would have ended: that  *)
(* is TimeInv, and with it the bound on what is counted bounds what runs.  *)
(* What GetMore said stays true because a walk that is done changes        *)
(* nothing any more.                                                       *)
(***************************************************************************)

Running(s) == walk[s] \notin {"none", "done"}

Replies == [done : BOOLEAN, err : {"none", "timeout"}, total : Nat]

CountInv ==
    /\ sessions \subseteq Sessions
    /\ walk \in [Sessions -> {"none", "walking", "matched", "counted",
                              "ended", "closing", "done"}]
    /\ err \in [Sessions -> {"none", "timeout"}]
    /\ found \in [Sessions -> Nat] /\ next \in [Sessions -> Nat]
    /\ \A s \in Sessions : /\ next[s] <= found[s] /\ found[s] <= MaxResults
                           /\ walk[s] = "matched" => found[s] < MaxResults

\* The timers fire on time, and what the walk saw when it last looked was a live
\* context.
TimeInv ==
    /\ ctx \in [Sessions -> {"live", "canceled", "deadline"}]
    /\ age \in [Sessions -> Nat] /\ look \in [Sessions -> Nat]
    /\ \A s \in Sessions :
           /\ age[s] <= KeepTime /\ look[s] <= WalkTime
           /\ walk[s] # "none" /\ ctx[s] = "live" => age[s] <= WalkTime
           /\ walk[s] = "none" => age[s] = 0 /\ s \notin sessions
           /\ Running(s) /\ s \notin sessions => age[s] = KeepTime

BoundInv == IsFiniteSet(Active) /\ Cardinality(Active) <= MaxSessions

FinalInv ==
    /\ told \in [Sessions -> Replies]
    /\ \A s \in Sessions : told[s].done => walk[s] = "done"
    /\ DoneIsFinal

-----------------------------------------------------------------------------
(* Counting matches: s.add is never called with MaxResults matches *)

LEMMA CountInvInit == SearchInit => CountInv
BY SearchAssumption DEF SearchInit, CountInv

LEMMA CountInvNext == CountInv /\ [SearchNext]_searchVars => CountInv'
<1> SUFFICES ASSUME CountInv, [SearchNext]_searchVars PROVE CountInv'
  OBVIOUS
<1> USE SearchAssumption DEF CountInv
<1>1. ASSUME NEW s \in Sessions, Start(s) \/ Stop(s) \/ Deadline(s) \/ Forget(s) PROVE CountInv'
  BY <1>1 DEF Start, Stop, Deadline, Forget
<1>2. ASSUME NEW s \in Sessions, GetMore(s) PROVE CountInv'
  BY <1>2 DEF GetMore
<1>3. ASSUME NEW s \in Sessions,
             WalkMatch(s) \/ WalkExhausted(s) \/ WalkStop(s) \/ ReportError(s) \/ MarkDone(s)
      PROVE  CountInv'
  BY <1>3 DEF WalkMatch, WalkExhausted, WalkStop, ReportError, MarkDone
<1>4. ASSUME NEW s \in Sessions, Add(s) PROVE CountInv'
  BY <1>4 DEF Add
<1>5. ASSUME NEW s \in Sessions, Counted(s) PROVE CountInv'
  BY <1>5 DEF Counted
<1>6. CASE \/ UNCHANGED searchVars \/ Tick
           \/ \E s \in Sessions : WalkOn(s)
  BY <1>6 DEF searchVars, Tick, WalkOn
<1> HIDE DEF CountInv
<1> QED
  BY SMTT(30), <1>1, <1>2, <1>3, <1>4, <1>5, <1>6 DEF SearchNext, RunStep, AllForgotten

-----------------------------------------------------------------------------
(* Done is final *)

\* A walk that is done changes nothing, and GetMore leaves a reader that has
\* everything where it is.
Settled(s) ==
    walk[s] = "done" => /\ walk'[s] = "done" /\ found'[s] = found[s] /\ err'[s] = err[s]
                        /\ next[s] = found[s] => next'[s] = found[s]

LEMMA DoneIsSettled ==
    ASSUME CountInv, [SearchNext]_searchVars, NEW s \in Sessions
    PROVE  Settled(s)
<1> USE SearchAssumption DEF CountInv, Settled
<1>1. ASSUME NEW r \in Sessions, Start(r) \/ Stop(r) \/ Deadline(r) \/ Forget(r) PROVE Settled(s)
  BY <1>1 DEF Start, Stop, Deadline, Forget
<1>2. ASSUME NEW r \in Sessions, GetMore(r) PROVE Settled(s)
  BY SMTT(30), <1>2 DEF GetMore
<1>3. ASSUME NEW r \in Sessions, RunStep(r) \/ WalkMatch(r) \/ WalkExhausted(r) PROVE Settled(s)
  BY <1>3 DEF WalkMatch, WalkExhausted, RunStep, WalkStop, ReportError, MarkDone, Add, Counted
<1>4. CASE \/ UNCHANGED searchVars \/ Tick
           \/ \E r \in Sessions : WalkOn(r)
  BY <1>4 DEF searchVars, Tick, WalkOn
<1> HIDE DEF CountInv, Settled
<1> QED
  BY <1>1, <1>2, <1>3, <1>4 DEF SearchNext, AllForgotten

LEMMA FinalInvInit == SearchInit => FinalInv
<1>1. NotTold \in Replies /\ NotTold.done = FALSE
  BY DEF NotTold, Replies
<1> QED
  BY <1>1 DEF SearchInit, FinalInv, DoneIsFinal

LEMMA FinalInvNext == CountInv /\ FinalInv /\ [SearchNext]_searchVars => FinalInv'
<1> SUFFICES ASSUME CountInv, FinalInv, [SearchNext]_searchVars PROVE FinalInv'
  OBVIOUS
<1>1. \A s \in Sessions : Settled(s)
  BY DoneIsSettled
<1>2. CASE told' = told
  BY <1>1, <1>2 DEF FinalInv, DoneIsFinal, Settled
<1>3. ASSUME NEW r \in Sessions, GetMore(r) PROVE FinalInv'
  <2> DEFINE end == IF next[r] + Limit > found[r] THEN found[r] ELSE next[r] + Limit
  <2>0. end \in Nat /\ end <= found[r]
    BY SMTT(30), SearchAssumption DEF CountInv
  <2>1. /\ next' = [next EXCEPT ![r] = end]
        /\ told' = [told EXCEPT ![r] = [done |-> walk[r] = "done" /\ end >= found[r],
                                        err |-> err[r], total |-> found[r]]]
        /\ UNCHANGED <<walk, found, err>>
    BY SMTT(30), <1>3 DEF GetMore
  <2> HIDE DEF end
  <2> DEFINE all == walk[r] = "done" /\ end >= found[r]
             answer == [done |-> all, err |-> err[r], total |-> found[r]]
  <2>2. answer \in Replies
    BY DEF Replies, CountInv
  <2>3. all => walk[r] = "done" /\ next'[r] = found[r]
    BY SMTT(30), <2>0, <2>1 DEF CountInv
  <2>4. answer.done = all /\ answer.err = err[r] /\ answer.total = found[r]
    BY SMTT(30)
  <2>5. told' = [told EXCEPT ![r] = answer]
    BY <2>1
  <2> HIDE DEF all, answer
  <2>6. told'[r] = answer /\ \A s \in Sessions \ {r} : told'[s] = told[s]
    BY <2>5 DEF FinalInv
  <2>7. told' \in [Sessions -> Replies]
    BY <2>2, <2>5 DEF FinalInv
  <2>8. ASSUME NEW s \in Sessions, told'[s].done
        PROVE  /\ walk'[s] = "done" /\ found'[s] = told'[s].total
               /\ next'[s] = found'[s] /\ err'[s] = told'[s].err
    <3>1. CASE s = r
      BY SMTT(30), <2>1, <2>3, <2>4, <2>6, <2>8, <3>1
    <3>2. CASE s # r
      BY SMTT(30), <1>1, <2>6, <2>8, <3>2 DEF FinalInv, DoneIsFinal, Settled
    <3> QED
      BY SMTT(30), <3>1, <3>2
  <2> QED
    BY <2>7, <2>8 DEF FinalInv, DoneIsFinal
<1>4. told' = told \/ \E r \in Sessions : GetMore(r)
  BY DEF SearchNext, searchVars, Start, Stop, Deadline, Forget, WalkMatch, WalkExhausted, WalkOn, Tick,
         RunStep, WalkStop, ReportError, MarkDone, Add, Counted, AllForgotten
<1> QED
  BY <1>2, <1>3, <1>4

\* Done is final, for every number of sessions and every limit: GetMore's last answer
\* of a session that it has called done tells all there is.
THEOREM SearchDoneIsFinal == SearchSpec => []DoneIsFinal
<1>1. FinalInv => DoneIsFinal
  BY DEF FinalInv
<1> QED
  BY CountInvInit, CountInvNext, FinalInvInit, FinalInvNext, <1>1, PTL DEF SearchSpec

-----------------------------------------------------------------------------
(* The timers *)

LEMMA TimeInvInit == SearchInit => TimeInv
BY SearchAssumption DEF SearchInit, TimeInv, Running

LEMMA TimeInvNext == TimeInv /\ CountInv /\ [SearchNext]_searchVars => TimeInv'
<1> SUFFICES ASSUME TimeInv, CountInv, [SearchNext]_searchVars PROVE TimeInv'
  OBVIOUS
<1> USE SearchAssumption DEF TimeInv, CountInv, Running, searchTime
<1>1. ASSUME NEW s \in Sessions, Start(s), UNCHANGED searchTime PROVE TimeInv'
  BY <1>1 DEF Start
<1>2. ASSUME NEW s \in Sessions, Stop(s) \/ Deadline(s), UNCHANGED searchTime PROVE TimeInv'
  BY <1>2 DEF Stop, Deadline
<1>3. ASSUME NEW s \in Sessions, Forget(s), UNCHANGED searchTime PROVE TimeInv'
  BY <1>3 DEF Forget
<1>4. ASSUME NEW s \in Sessions, GetMore(s), UNCHANGED searchTime PROVE TimeInv'
  BY <1>4 DEF GetMore
<1>5. ASSUME NEW s \in Sessions, WalkMatch(s) \/ WalkOn(s) PROVE TimeInv'
  BY <1>5 DEF WalkMatch, WalkOn
<1>6. ASSUME NEW s \in Sessions, WalkExhausted(s) \/ RunStep(s), UNCHANGED searchTime PROVE TimeInv'
  BY <1>6 DEF WalkExhausted, RunStep, WalkStop, Add, Counted, ReportError, MarkDone
<1>7. CASE Tick
  BY <1>7 DEF Tick, TimerDue
<1>8. CASE UNCHANGED searchVars
  BY <1>8 DEF searchVars
<1> HIDE DEF TimeInv, CountInv, Running, searchTime
<1> QED
  BY Zenon, <1>1, <1>2, <1>3, <1>4, <1>5, <1>6, <1>7, <1>8 DEF SearchNext, AllForgotten, RunStep

-----------------------------------------------------------------------------
LEMMA BoundInvInit == SearchInit => BoundInv
<1> SUFFICES ASSUME SearchInit PROVE BoundInv
  OBVIOUS
<1>1. Active = {}
  BY DEF SearchInit, Active
<1> QED
  BY <1>1, FS_EmptySet, SearchAssumption DEF BoundInv

\* Only Start adds a session, and only after it has counted fewer than maxSessions.
LEMMA BoundInvNext == BoundInv /\ CountInv /\ TimeInv /\ [SearchNext]_searchVars => BoundInv'
<1> SUFFICES ASSUME BoundInv, CountInv, TimeInv, [SearchNext]_searchVars PROVE BoundInv'
  OBVIOUS
<1>1. ASSUME Active' \subseteq Active PROVE BoundInv'
  BY <1>1, FS_Subset, FS_CardinalityType, SearchAssumption DEF BoundInv
<1>2. ASSUME NEW s \in Sessions, Start(s) PROVE BoundInv'
  <2>1. Active' = Active \cup {s} /\ Cardinality(Active) < MaxSessions
    BY SMTT(30), <1>2 DEF Start, Active, CountInv
  <2>2. s \notin Active
    BY SMTT(30), <1>2 DEF Start, Active, TimeInv
  <2>3. IsFiniteSet(Active') /\ Cardinality(Active') = Cardinality(Active) + 1
    BY SMTT(30), <2>1, <2>2, FS_AddElement DEF BoundInv
  <2>4. Cardinality(Active) \in Nat
    BY FS_CardinalityType DEF BoundInv
  <2> QED
    BY SMTT(30), <2>1, <2>3, <2>4, SearchAssumption DEF BoundInv
<1>3. ASSUME NEW s \in Sessions,
             \/ GetMore(s) \/ Stop(s) \/ Deadline(s) \/ Forget(s)
             \/ WalkMatch(s) \/ WalkOn(s) \/ WalkExhausted(s) \/ RunStep(s)
      PROVE  BoundInv'
  <2>1. Active' \subseteq Active
    BY SMTT(30), <1>3 DEF GetMore, Stop, Deadline, Forget, WalkMatch, WalkOn, WalkExhausted, RunStep,
                WalkStop, Add, Counted, ReportError, MarkDone, Active, CountInv
  <2> QED
    BY Zenon, <1>1, <2>1
<1>4. CASE Tick \/ UNCHANGED searchVars
  <2>1. Active' = Active
    BY Zenon, <1>4 DEF Tick, searchVars, Active
  <2> QED
    BY Zenon, <1>1, <2>1
<1> QED
  BY Zenon, <1>2, <1>3, <1>4 DEF SearchNext, AllForgotten

\* A walk that Start does not count is held up: it went on for the last time before its
\* deadline and was forgotten at KeepTime.
LEMMA UncountedIsHeldUp ==
    ASSUME TimeInv, NEW s \in Sessions, Running(s), s \notin Active
    PROVE  HeldUp(s)
BY SMTT(30), SearchAssumption DEF TimeInv, Running, Active, HeldUp

\* maxSessions bounds the walks that run, for every number of sessions and any two times
\* of the timers, but for a walk that has been in one file or directory for as long as
\* the timers are apart.
THEOREM SearchWalksBounded == SearchSpec => []WalksBounded
<1>1. BoundInv /\ TimeInv => WalksBounded
  <2> SUFFICES ASSUME BoundInv, TimeInv PROVE WalksBounded
    OBVIOUS
  <2> DEFINE Walks == {s \in Sessions : Running(s) /\ ~ HeldUp(s)}
  <2>1. Walks \subseteq Active
    BY Zenon, UncountedIsHeldUp
  <2>2. Cardinality(Walks) <= MaxSessions
    BY SMTT(30), <2>1, FS_Subset, FS_CardinalityType, SearchAssumption DEF BoundInv
  <2> QED
    BY Zenon, <2>2 DEF WalksBounded, Running
<1> QED
  BY CountInvInit, CountInvNext, TimeInvInit, TimeInvNext, BoundInvInit, BoundInvNext, <1>1, PTL
  DEF SearchSpec
=============================================================================
