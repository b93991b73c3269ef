----------------------------- MODULE BenchmarkLock -----------------------------
(***************************************************************************)
(* build_lock and verify_lock of scripts/import_benchmark.py: a content    *)
(* lock is taken of a directory of benchmark files that somebody may be    *)
(* writing.  Nothing keeps writers out: the tree is walked and hashed,     *)
(* walked again without hashing and looked at a third time, and the walk   *)
(* raises when a name or a metadata signature differs.                     *)
(*                                                                         *)
(* The tree is one directory.  A signature (device, inode, size, mtime) is *)
(* a number; an edit gives its file a new one, unless the clock of the     *)
(* file system is too coarse to tell (blurred).  Symbolic links, junctions *)
(* and other kinds of files only raise and are left out.                   *)
(***************************************************************************)
EXTENDS Naturals, Sequences

CONSTANTS
  File,       \* names of files
  Content,    \* what a file may contain; a digest is what it digests
  Locked      \* what the lock file says of each file it names

ASSUME LockedAssumption ==
  /\ DOMAIN Locked \subseteq File
  /\ Locked \in [DOMAIN Locked -> Content]

VARIABLES
  tree,       \* the files of the directory, each with content and stamp
  folder,     \* the signature of the directory
  history,    \* history: what the directory contained, edit by edit
  blurred,    \* history: an edit left the signature of its file as it was
  walk        \* the memory of the running build_lock

treeVars == <<tree, folder, history, blurred>>

lockVars == <<treeVars, walk>>

Contents(t) == [f \in DOMAIN t |-> t[f].content]

Unread == "unread"

NoWalk == [stage |-> "idle", began |-> 0, names |-> {}, folder |-> 0,
           stamps |-> [f \in {} |-> 0], digest |-> [f \in {} |-> Unread],
           left |-> {}, at |-> Unread]

TreeInit ==
  /\ tree = [f \in DOMAIN Locked |-> [content |-> Locked[f], stamp |-> 0]]
  /\ folder = 0
  /\ history = <<Contents(tree)>>
  /\ blurred = FALSE
  /\ walk = NoWalk

-----------------------------------------------------------------------------
(* The editors of the directory.                                           *)

Fresh == Len(history)

(* An edit changes what is there: one that does not could only make a walk *)
(* raise.                                                                  *)
Edited ==
  /\ Contents(tree') # Contents(tree)
  /\ history' = Append(history, Contents(tree'))

With(t, f, c, s) ==
  [g \in DOMAIN t \cup {f} |->
     IF g = f THEN [content |-> c, stamp |-> s] ELSE t[g]]

(* os.replace of a new file, as the assembler of the benchmark does it.    *)
Put(f, c) ==
  /\ tree' = With(tree, f, c, Fresh)
  /\ folder' = Fresh
  /\ Edited
  /\ UNCHANGED blurred

(* A file is written in place, perhaps within one tick of its clock.       *)
Overwrite(f, c) ==
  /\ f \in DOMAIN tree
  /\ \E s \in {Fresh, tree[f].stamp} :
       /\ tree' = With(tree, f, c, s)
       /\ blurred' = (blurred \/ s # Fresh)
  /\ Edited
  /\ UNCHANGED folder

Delete(f) ==
  /\ f \in DOMAIN tree
  /\ tree' = [g \in DOMAIN tree \ {f} |-> tree[g]]
  /\ folder' = Fresh
  /\ Edited
  /\ UNCHANGED blurred

EditTree ==
  \/ \E f \in File, c \in Content : Put(f, c) \/ Overwrite(f, c)
  \/ \E f \in File : Delete(f)

-----------------------------------------------------------------------------
(* One walk.  It takes the files in a fixed order, that of their names.    *)

NextFile == CHOOSE f \in walk.left : TRUE

(* os.walk lists the directory.                                            *)
BeginWalk ==
  /\ walk.stage = "idle"
  /\ walk' = [stage |-> "sign", began |-> Len(history),
              names |-> DOMAIN tree, folder |-> 0,
              stamps |-> [f \in DOMAIN tree |-> 0],
              digest |-> [f \in DOMAIN tree |-> Unread],
              left |-> DOMAIN tree, at |-> Unread]

SignFolder ==
  /\ walk.stage = "sign"
  /\ walk' = [walk EXCEPT !.stage = "hash", !.folder = folder]

(* _sha256_file: look at the signature, read, and look again.              *)
StatFile ==
  /\ walk.stage = "hash"
  /\ walk.left # {}
  /\ NextFile \in DOMAIN tree
  /\ walk' = [walk EXCEPT !.stage = "read", !.at = NextFile,
                          !.stamps[NextFile] = tree[NextFile].stamp]

ReadFile ==
  /\ walk.stage = "read"
  /\ walk.at \in DOMAIN tree
  /\ walk' = [walk EXCEPT !.stage = "recheck",
                          !.digest[walk.at] = tree[walk.at].content]

Intact(f) == f \in DOMAIN tree /\ tree[f].stamp = walk.stamps[f]

RecheckFile ==
  /\ walk.stage = "recheck"
  /\ Intact(walk.at)
  /\ walk' = [walk EXCEPT !.stage = "hash", !.left = @ \ {walk.at}]

(* _validate_snapshot: the second walk.                                    *)
Relist ==
  /\ walk.stage = "hash"
  /\ walk.left = {}
  /\ DOMAIN tree = walk.names
  /\ walk' = [walk EXCEPT !.stage = "resign"]

Resign ==
  /\ walk.stage = "resign"
  /\ folder = walk.folder
  /\ walk' = [walk EXCEPT !.stage = "restat", !.left = walk.names]

(* Mutant: the second walk compares the names and no file's signature.     *)
RestatNothing ==
  /\ walk.stage \in {"restat", "relook"}
  /\ walk.left # {}
  /\ walk' = [walk EXCEPT !.left = @ \ {NextFile}]

Restat ==
  /\ walk.stage \in {"restat", "relook"}
  /\ walk.left # {}
  /\ Intact(NextFile)
  /\ walk' = [walk EXCEPT !.left = @ \ {NextFile}]

(* After it, every file and then the directory are looked at once more.    *)
Relook ==
  /\ walk.stage = "restat"
  /\ walk.left = {}
  /\ walk' = [walk EXCEPT !.stage = "relook", !.left = walk.names]

LastSign ==
  /\ walk.stage = "relook"
  /\ walk.left = {}
  /\ folder = walk.folder
  /\ walk' = [walk EXCEPT !.stage = "walked"]

WalkStep ==
  \/ BeginWalk
  \/ SignFolder
  \/ StatFile
  \/ ReadFile
  \/ RecheckFile
  \/ Relist
  \/ Resign
  \/ Restat
  \/ Relook
  \/ LastSign

(* build_lock raises: a file is gone, something changed, or there was      *)
(* nothing to lock.                                                        *)
WalkRaises ==
  \/ walk.stage = "hash" /\ walk.left # {} /\ NextFile \notin DOMAIN tree
  \/ walk.stage = "read" /\ walk.at \notin DOMAIN tree
  \/ walk.stage = "recheck" /\ ~Intact(walk.at)
  \/ walk.stage = "hash" /\ walk.left = {} /\ DOMAIN tree # walk.names
  \/ walk.stage = "resign" /\ folder # walk.folder
  \/ walk.stage \in {"restat", "relook"} /\ walk.left # {} /\ ~Intact(NextFile)
  \/ walk.stage = "relook" /\ walk.left = {} /\ folder # walk.folder
  \/ walk.stage = "walked" /\ walk.names = {}

(* build_lock returns the digests.                                         *)
WalkReturns == walk.stage = "walked" /\ walk.names # {}

-----------------------------------------------------------------------------
(* A lock is what the directory contained at one moment since its walk     *)
(* began, however many files are written, replaced, added or removed while *)
(* it runs, as long as no edit leaves the signature of its file unchanged. *)
SnapshotWasThere ==
  (walk.stage = "walked" /\ ~blurred)
    => \E i \in walk.began .. Len(history) : history[i] = walk.digest
=============================================================================
