----------------------------- MODULE PathPolicy ------------------------------
(***************************************************************************)
(* Policy of internal/pathpolicy and the tools that create or move entries *)
(* of the file tree, over a tree with directories, files and links that    *)
(* the user of the machine makes. A path is the sequence of its names. A   *)
(* tool resolves and acts in one step: the comment on ResolveForCreate     *)
(* sets aside what another program does in between.                        *)
(***************************************************************************)
EXTENDS Integers, Sequences, FiniteSets, SequencesExt

CONSTANTS Root,       \* the allowed root, as New resolved it
          Requests,   \* paths that callers ask for: names, and ".." anywhere
          Places,     \* where the user of the machine makes entries
          Targets,    \* what the links among them point to
          MaxEntries, \* bound on their number
          MaxDepth,   \* bound on the depth of what a move leaves
          MaxWalk     \* the components and links a walk follows before it gives up

VARIABLES
    tree,     \* what each existing path is: a directory, a file, or a link to a path
    made,     \* how many entries the user made
    reported  \* what was asked of a tool that just made an entry, and what it answered

pathVars == <<tree, made, reported>>

Dir == [kind |-> "dir", to |-> <<>>]
File == [kind |-> "file", to |-> <<>>]
LinkTo(p) == [kind |-> "link", to |-> p]

PathsInit ==
    /\ tree = [p \in {SubSeq(Root, 1, n) : n \in 0..Len(Root)} |-> Dir]
    /\ made = 0 /\ reported = <<>>

\* filepath.Clean of an absolute path
Clean(req) ==
    FoldLeft(LAMBDA p, x : IF x = ".." THEN SubSeq(p, 1, Len(p) - 1) ELSE Append(p, x), <<>>, req)

\* A walk that follows links: at is reached, rest is ahead, n more names may be looked up.
RECURSIVE Walk(_, _, _)
Walk(at, rest, n) ==
    IF rest = <<>> THEN [st |-> "ok", at |-> at]
    ELSE LET p == Append(at, Head(rest))
             walkable == n > 0 /\ tree[at] = Dir
         IN  CASE ~ walkable                              -> [st |-> "error", at |-> at]
               [] walkable /\ p \notin DOMAIN tree         -> [st |-> "missing", at |-> at]
               [] walkable /\ p \in DOMAIN tree ->
                     IF tree[p].kind = "link"
                     THEN Walk(<<>>, tree[p].to \o Tail(rest), n - 1)
                     ELSE Walk(p, Tail(rest), n - 1)

\* filepath.EvalSymlinks
EvalSymlinks(p) == Walk(<<>>, p, MaxWalk)

\* os.Lstat: the last name is looked up and not followed.
Lstat(p) ==
    IF p = <<>> THEN "ok"
    ELSE LET dir == EvalSymlinks(Front(p)) IN
         IF dir.st = "ok" /\ Append(dir.at, Last(p)) \in DOMAIN tree THEN "ok"
         ELSE IF dir.st = "ok" THEN IF tree[dir.at] = Dir THEN "missing" ELSE "error"
         ELSE dir.st

allowed(p) == IsPrefix(Root, p)

Refused == <<"refused">>

ResolveExisting(req) ==
    LET r == EvalSymlinks(Clean(req)) IN
    IF r.st = "ok" /\ allowed(r.at) THEN r.at ELSE Refused

\* The loop of ResolveForCreate: up to the first path that is not missing.
RECURSIVE Nearest(_)
Nearest(p) == IF Lstat(p) = "missing" THEN Nearest(Front(p)) ELSE p

\* Where the operating system arrives with p: through the links of what exists.
Landing(p) ==
    LET near == Nearest(p) IN EvalSymlinks(near).at \o SubSeq(p, Len(near) + 1, Len(p))

ResolveForCreateLexically(req) == IF allowed(Clean(req)) THEN Clean(req) ELSE Refused

ResolveForCreateReversed(req) ==
    LET abs == Clean(req)
        near == Nearest(abs)
        cur == EvalSymlinks(near)
        resolved == cur.at \o Reverse(SubSeq(abs, Len(near) + 1, Len(abs)))
    IN  IF Lstat(near) = "ok" /\ cur.st = "ok" /\ allowed(resolved) THEN resolved ELSE Refused

\* The nearest ancestor that exists is resolved, and the rest of the path put after it.
ResolveForCreate(req) ==
    LET abs == Clean(req)
        near == Nearest(abs)
        cur == EvalSymlinks(near)
        resolved == cur.at \o SubSeq(abs, Len(near) + 1, Len(abs))
    IN  IF Lstat(near) = "ok" /\ cur.st = "ok" /\ allowed(resolved) THEN resolved ELSE Refused

-----------------------------------------------------------------------------
(* The tools. A call that is refused or fails changes nothing.             *)

IsDir(p) == p \in DOMAIN tree /\ tree[p] = Dir

Put(ps, e) == [p \in DOMAIN tree \cup ps |-> IF p \in ps THEN e ELSE tree[p]]

\* os.MkdirAll of the resolved path
CreateDirectory(req) ==
    LET path == ResolveForCreate(req)
        dir == Landing(path)
    IN
    /\ path # Refused
    /\ path \in DOMAIN tree => IsDir(path)
    /\ tree' = Put({SubSeq(dir, 1, n) : n \in 0..Len(dir)}, Dir)
    /\ reported' = <<req, path>>
    /\ UNCHANGED made

\* The temporary file and its rename (FileOps has their steps).
WriteFile(req) ==
    LET path == ResolveForCreate(req) IN
    /\ path # Refused
    /\ ResolveExisting(Front(path)) # Refused /\ IsDir(Front(path)) /\ ~ IsDir(path)
    /\ tree' = Put({Append(Landing(Front(path)), Last(path))}, File)
    /\ reported' = <<req, path>>
    /\ UNCHANGED made

\* os.Rename takes the tree below the source along, and replaces a file by a file.
MoveFile(from, to) ==
    LET src == ResolveExisting(from)
        dst == ResolveForCreate(to)
        moved == {p \in DOMAIN tree : IsPrefix(src, p)}
        new == Append(Landing(Front(dst)), Last(dst))
        target(p) == new \o SubSeq(p, Len(src) + 1, Len(p))
        stay == DOMAIN tree \ moved
        come == {target(p) : p \in moved}
    IN
    /\ src # Refused /\ dst # Refused
    /\ IsDir(Front(dst)) /\ ~ IsPrefix(src, dst)
    /\ \A p \in come : Len(p) <= MaxDepth
    /\ dst \in DOMAIN tree => tree[dst] = File /\ tree[src] = File
    /\ tree' = [p \in stay \cup come |->
                  IF p \in come THEN tree[CHOOSE q \in moved : target(q) = p] ELSE tree[p]]
    /\ reported' = <<>>
    /\ UNCHANGED made

UserMakes(p, e) ==
    /\ made < MaxEntries /\ p \notin DOMAIN tree /\ IsDir(Front(p))
    /\ tree' = Put({p}, e)
    /\ made' = made + 1 /\ reported' = <<>>

PathsNext ==
    \/ \E req \in Requests : CreateDirectory(req) \/ WriteFile(req)
    \/ \E from, to \in Requests : MoveFile(from, to)
    \/ \E p \in Places, e \in {Dir, File} \cup {LinkTo(t) : t \in Targets} : UserMakes(p, e)

PathsSpec == PathsInit /\ [][PathsNext]_pathVars

-----------------------------------------------------------------------------
Entry(t, p) == {t[q] : q \in DOMAIN t \cap {p}}

\* A tool creates, replaces and removes entries under the root only, through whatever
\* links and ".." its path goes.
ToolsStayInside ==
    [][made' = made => \A p \in DOMAIN tree \cup DOMAIN tree' :
                          Entry(tree, p) # Entry(tree', p) => allowed(p)]_pathVars

\* What a tool reports to have made is what the same path leads to afterwards: the path
\* put together for a new entry and the path resolved for an existing one agree.
MadeIsFound == reported # <<>> => ResolveExisting(reported[1]) = reported[2]
=============================================================================
