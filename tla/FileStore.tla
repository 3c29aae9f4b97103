---------------------------- MODULE FileStore ----------------------------
(***************************************************************************)
(* The durability contract of the FileSystem adapter, as the storage code  *)
(* uses it (adapter.rs) and as the deterministic in-memory adapter states  *)
(* it (memory.rs): every file and every directory has a volatile view,     *)
(* which reads and writes use, and a durable view, which is what a restart *)
(* leaves.  A file is a function from slots to contents; a slot holds one  *)
(* fixed unit of the format (a header, a group, a certificate), Hole when  *)
(* the file does not reach it, Torn when it holds an incomplete write.     *)
(*                                                                         *)
(* memory.rs discards every unsynchronised byte at a restart.  A real disk *)
(* may have written back any of them, so a crash here leaves, slot by      *)
(* slot, the durable content, the volatile one or a torn mixture.          *)
(***************************************************************************)
CONSTANTS Hole, Torn

ASSUME HoleAssumption == Hole # Torn

\* What a crash may make of a slot whose two views differ.
Fates == {"old", "new", "torn"}

\* The slots of a file (or of a family of files) that are not synchronised.
Unsynced(dur, vol) == {c \in DOMAIN dur : dur[c] # vol[c]}

\* The content a crash leaves when fate[c] decides each unsynchronised slot.
AfterCrash(dur, vol, fate) ==
  [c \in DOMAIN dur |->
     IF c \notin Unsynced(dur, vol) THEN dur[c]
     ELSE IF fate[c] = "old" THEN dur[c]
     ELSE IF fate[c] = "new" THEN vol[c]
     ELSE Torn]

\* Every content a crash can leave.
Survivors(dur, vol) ==
  {AfterCrash(dur, vol, fate) : fate \in [Unsynced(dur, vol) -> Fates]}

\* The entries a crash can leave in a directory whose names are only added.
SurvivingNames(dur, vol) == {dur \cup more : more \in SUBSET (vol \ dur)}

\* sync_data / sync_all of the file that owns the slots cs.
Synced(dur, vol, cs) == [c \in DOMAIN dur |-> IF c \in cs THEN vol[c] ELSE dur[c]]
=============================================================================
