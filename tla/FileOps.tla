----------------------------- MODULE FileOps -----------------------------
(***************************************************************************)
(* One directory under the file-system contract of adapter.rs, as the      *)
(* in-memory adapter implements it (memory.rs), with the losses a real one *)
(* may add: names and file contents have a visible and a durable side.     *)
(*                                                                         *)
(* A publication protocol is a sequence of commands; a component runs the  *)
(* commands one per step, and any of them can fail or be cut by a crash.   *)
(***************************************************************************)
EXTENDS Integers, Sequences, FiniteSets, FileStore

CONSTANTS
  Names,      \* the directory entries a protocol uses
  MaxFiles    \* bound: files alive at once

ASSUME FilesAssumption == MaxFiles \in Nat

Files == 1..MaxFiles

\* vis, dur: name -> file or 0; data, safe: visible and durable contents.
NoFiles(names) ==
  [vis |-> [n \in names |-> 0], dur |-> [n \in names |-> 0],
   data |-> [f \in Files |-> Hole], safe |-> [f \in Files |-> Hole]]

Exists(fs, n) == fs.vis[n] # 0

\* What a reader finds under a name; the durable side of the same.
Read(fs, n) == IF fs.vis[n] = 0 THEN Hole ELSE fs.data[fs.vis[n]]
Safe(fs, n) == IF fs.dur[n] = 0 THEN Hole ELSE fs.safe[fs.dur[n]]

Alive(fs) == ({fs.vis[n] : n \in Names} \cup {fs.dur[n] : n \in Names}) \ {0}

\* A file no name reaches is gone.
Tidy(fs) ==
  LET alive == Alive(fs) IN
  [fs EXCEPT !.data = [f \in Files |-> IF f \in alive THEN fs.data[f] ELSE Hole],
             !.safe = [f \in Files |-> IF f \in alive THEN fs.safe[f] ELSE Hole]]

\* Commands.
Cmd(op, n, m, d) == [op |-> op, at |-> n, to |-> m, with |-> d]
New(n, d)  == Cmd("new", n, n, d)       \* create_new, write_all_at, set_len
Sync(n)    == Cmd("sync", n, n, Hole)   \* sync_all
Move(n, m) == Cmd("move", n, m, Hole)   \* rename_no_replace
Rm(n)      == Cmd("rm", n, n, Hole)     \* remove_file
DirSync(n) == Cmd("dirsync", n, n, Hole) \* sync_directory (any name of it)
Fail(n)    == Cmd("fail", n, n, Hole)   \* an IntegrityFailure at this point

\* Can the call succeed?
Possible(fs, c) ==
  CASE c.op = "new"     -> ~Exists(fs, c.at) /\ Alive(fs) # Files
    [] c.op = "sync"    -> Exists(fs, c.at)
    [] c.op = "move"    -> Exists(fs, c.at) /\ ~Exists(fs, c.to)
    [] c.op = "rm"      -> Exists(fs, c.at)
    [] c.op = "dirsync" -> TRUE
    [] c.op = "fail"    -> FALSE

NewFile(fs) == CHOOSE f \in Files : f \notin Alive(fs)

\* The directory after create_new and a write that leaves d in the file.
Created(fs, n, d) ==
  [fs EXCEPT !.vis[n] = NewFile(fs), !.data[NewFile(fs)] = d]

\* The directory after a command that succeeds.
Apply(fs, c) ==
  Tidy(CASE c.op = "new"     -> Created(fs, c.at, c.with)
         [] c.op = "sync"    -> [fs EXCEPT !.safe[fs.vis[c.at]] = Read(fs, c.at)]
         [] c.op = "move"    -> [fs EXCEPT !.vis[c.to] = fs.vis[c.at],
                                           !.vis[c.at] = 0]
         [] c.op = "rm"      -> [fs EXCEPT !.vis[c.at] = 0]
         [] c.op = "dirsync" -> [fs EXCEPT !.dur = fs.vis])

\* The directories a failed command can leave: untouched, or with a file that
\* was created and holds nothing or a prefix.
Failed(fs, c) ==
  {fs} \cup (IF c.op = "new" /\ Possible(fs, c)
             THEN {Created(fs, c.at, Hole), Created(fs, c.at, Torn)} ELSE {})

\* Each name survives a crash in its durable or in its visible state; a rename
\* is atomic, so a file that keeps a name on both sides keeps exactly one.
Renamed(fs, f) == (\E n \in Names : fs.vis[n] = f)
                  /\ (\E n \in Names : fs.dur[n] = f)

SurvivingDirs(fs) ==
  LET changed == {n \in Names : fs.vis[n] # fs.dur[n]}
      renamed == {f \in Files : Renamed(fs, f)}
      mixed(new) == [n \in Names |-> IF n \in new THEN fs.vis[n] ELSE fs.dur[n]]
  IN {mixed(new) : new \in {s \in SUBSET changed :
        \A f \in renamed : Cardinality({n \in Names : mixed(s)[n] = f}) = 1}}

Crashed(fs) ==
  {Tidy([vis |-> d, dur |-> d, data |-> c, safe |-> c]) :
     d \in SurvivingDirs(fs), c \in Survivors(fs.safe, fs.data)}

-----------------------------------------------------------------------------
(***************************************************************************)
(* The publication every component uses: clear the temporary name, write   *)
(* and synchronise under it, rename, synchronise the directory.            *)
(***************************************************************************)
Clear(fs, t) == IF Exists(fs, t) THEN <<Rm(t), DirSync(t)>> ELSE <<>>

WriteAndRename(t, n, d) ==
  <<New(t, d), Sync(t), DirSync(t), Move(t, n), DirSync(n)>>

Resync(n) == <<Sync(n), DirSync(n)>>

\* Publish d under n; a copy that is already there must be the same, and is
\* synchronised again.
PublishOnce(fs, t, n, d) ==
  IF ~Exists(fs, n) THEN Clear(fs, t) \o WriteAndRename(t, n, d)
  ELSE IF Read(fs, n) = d THEN Resync(n) ELSE <<Fail(n)>>
=============================================================================
